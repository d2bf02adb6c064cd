---------------------------- MODULE CircuitBreaker ----------------------------
(***************************************************************************)
(* internal/cluster/health/circuit_breaker.go: the circuit breaker that    *)
(* pskinsert keeps for each psksketch node.  A breaker is a value and its  *)
(* methods are operators on that value: cb.mu makes each method one step,  *)
(* and the modules that own a breaker decide when the step is taken.       *)
(*                                                                         *)
(* The clock is abstracted to the one thing the code asks of it: elapsed   *)
(* says whether more than cb.timeout has passed since lastFailTime.  The   *)
(* zero lastFailTime of a new breaker is long past.                        *)
(*                                                                         *)
(* failures is only ever compared with Threshold, and successes with       *)
(* SuccessesToClose, so the counters stop there: a larger count in the     *)
(* program is told apart by no branch of it.                               *)
(***************************************************************************)
EXTENDS Naturals

CONSTANT Threshold      \* cb.threshold; the configuration's default is 5

ASSUME ThresholdAssumption == Threshold \in Nat \ {0}

StateClosed   == "closed"
StateOpen     == "open"
StateHalfOpen == "half-open"

SuccessesToClose == 2

Breaker == [state     : {StateClosed, StateOpen, StateHalfOpen},
            failures  : 0..Threshold,
            successes : 0..SuccessesToClose,
            elapsed   : BOOLEAN]

NewCircuitBreaker ==
  [state |-> StateClosed, failures |-> 0, successes |-> 0, elapsed |-> TRUE]

\* One more than n, stopping at cap.
CountTo(n, cap) == IF n < cap THEN n + 1 ELSE cap

\* What Allow returns: only an open breaker whose timeout has not passed refuses.
Allows(b) == b.state = StateOpen => b.elapsed

\* The breaker after Allow: an open one whose timeout has passed goes half-open.
AfterAllow(b) ==
  IF b.state = StateOpen /\ b.elapsed
    THEN [b EXCEPT !.state = StateHalfOpen, !.successes = 0]
    ELSE b

\* Planted fault: the breaker waits for one success too many, which never counts.
AfterSuccessNeverCloses(b) ==
  [b EXCEPT !.failures = 0, !.successes = CountTo(b.successes, SuccessesToClose)]

\* A success ends the run of failures; in half-open the second one closes.
AfterSuccess(b) ==
  LET n == CountTo(b.successes, SuccessesToClose)
  IN  IF b.state = StateHalfOpen /\ n = SuccessesToClose
        THEN [b EXCEPT !.state = StateClosed, !.failures = 0, !.successes = 0]
        ELSE [b EXCEPT !.failures = 0, !.successes = n]

\* Planted fault: the breaker opens one failure late.
AfterFailureLate(b) ==
  [b EXCEPT !.failures = CountTo(@, Threshold), !.successes = 0, !.elapsed = FALSE,
            !.state = IF b.failures = Threshold THEN StateOpen ELSE @]

\* A failure opens the breaker, from any state, when the run reaches Threshold.
AfterFailure(b) ==
  LET n == CountTo(b.failures, Threshold)
  IN  [b EXCEPT !.failures = n, !.successes = 0, !.elapsed = FALSE,
                !.state = IF n = Threshold THEN StateOpen ELSE @]

\* The clock: more than cb.timeout has passed since the last failure.
AfterTimeout(b) == [b EXCEPT !.elapsed = TRUE]
=============================================================================
