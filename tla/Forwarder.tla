------------------------------ MODULE Forwarder ------------------------------
(***************************************************************************)
(* internal/backend/forwarder.go: every ingested time series is queued for *)
(* the backend (Prometheus, VictoriaMetrics) by whichever goroutine        *)
(* ingested it, gathered into batches by one worker goroutine and written  *)
(* with retries.  A timer goroutine asks for a flush every flush_interval; *)
(* Stop ends both goroutines.                                              *)
(*                                                                         *)
(* A series is the number of the Forward call that brought it.  The        *)
(* counters of ForwarderMetrics and the deep copy are left out.  The sleep *)
(* between two attempts is time passing between two steps.                 *)
(***************************************************************************)
EXTENDS Naturals, Sequences, FiniteSets

CONSTANTS QueueCap,     \* capacity of batchCh: ten times BatchSize
          BatchSize,
          MaxRetries,
          MaxCalls      \* bound: calls of Forward

ASSUME ForwarderAssumption ==
  /\ QueueCap \in Nat
  /\ BatchSize \in Nat \ {0}
  /\ MaxRetries \in Nat
  /\ MaxCalls \in Nat

VARIABLES calls,        \* calls of Forward so far
          batchCh,      \* the queued series
          currentBatch,
          flushCh,      \* the one-place flush channel holds a signal
          stopCh,       \* stopCh is closed
          worker,       \* batchWorker: "select", "send", "send-last" or "exited"
          sending,      \* the batch that flush took
          attempt,      \* attempts made at sending it
          timer,        \* flushTimer: "running" or "exited"
          stop,         \* Stop: "none", "waiting" or "done"
          accepted,     \* history: what Forward queued, in order
          settled,      \* history: series of batches that flush is done with
          failed,       \* history: those it gave up
          backend       \* history: what the backend has received, in order

vars == <<calls, batchCh, currentBatch, flushCh, stopCh, worker, sending, attempt,
          timer, stop, accepted, settled, failed, backend>>

Init ==
  /\ calls = 0
  /\ batchCh = <<>>
  /\ currentBatch = <<>>
  /\ flushCh = FALSE
  /\ stopCh = FALSE
  /\ worker = "select"
  /\ sending = <<>>
  /\ attempt = 0
  /\ timer = "running"
  /\ stop = "none"
  /\ accepted = <<>>
  /\ settled = <<>>
  /\ failed = {}
  /\ backend = <<>>

-----------------------------------------------------------------------------
\* Forward never blocks: it queues the series, or drops it when the queue is full.
\* It does not look at stopCh.
Forward ==
  /\ calls < MaxCalls
  /\ calls' = calls + 1
  /\ IF Len(batchCh) < QueueCap
       THEN /\ batchCh' = Append(batchCh, calls')
            /\ accepted' = Append(accepted, calls')
       ELSE UNCHANGED <<batchCh, accepted>>
  /\ UNCHANGED <<currentBatch, flushCh, stopCh, worker, sending, attempt, timer, stop,
                 settled, failed, backend>>

\* Planted fault: the flush is asked for one series late.
BatchIsOverfull(b) == Len(b) > BatchSize

BatchIsFull(b) == Len(b) >= BatchSize

\* batchWorker's select takes a series; a batch that is now full asks for a flush.
WorkerTakes ==
  /\ worker = "select"
  /\ batchCh # <<>>
  /\ batchCh' = Tail(batchCh)
  /\ currentBatch' = Append(currentBatch, Head(batchCh))
  /\ flushCh' = (flushCh \/ BatchIsFull(currentBatch'))
  /\ UNCHANGED <<calls, stopCh, worker, sending, attempt, timer, stop, accepted,
                 settled, failed, backend>>

\* Planted fault: the batch that is sent stays in currentBatch.
BeginFlushKeepsBatch(whenSending, otherwise) ==
  IF currentBatch = <<>>
    THEN /\ worker' = otherwise
         /\ UNCHANGED <<currentBatch, sending, attempt>>
    ELSE /\ worker' = whenSending
         /\ sending' = currentBatch
         /\ attempt' = 0
         /\ UNCHANGED currentBatch

\* flush takes the whole current batch, if there is any, and starts to send it.
BeginFlush(whenSending, otherwise) ==
  IF currentBatch = <<>>
    THEN /\ worker' = otherwise
         /\ UNCHANGED <<currentBatch, sending, attempt>>
    ELSE /\ worker' = whenSending
         /\ sending' = currentBatch
         /\ currentBatch' = <<>>
         /\ attempt' = 0

\* batchWorker's select takes a flush signal.
WorkerFlushes ==
  /\ worker = "select"
  /\ flushCh
  /\ flushCh' = FALSE
  /\ BeginFlush("send", "select")
  /\ UNCHANGED <<calls, batchCh, stopCh, timer, stop, accepted, settled, failed,
                 backend>>

\* Planted fault: the worker returns without the last flush.
WorkerStopsAtOnce ==
  /\ worker = "select"
  /\ stopCh
  /\ worker' = "exited"
  /\ UNCHANGED <<calls, batchCh, currentBatch, flushCh, stopCh, sending, attempt, timer,
                 stop, accepted, settled, failed, backend>>

\* Planted fault: the worker flushes but does not return.
WorkerNeverStops ==
  /\ worker = "select"
  /\ stopCh
  /\ BeginFlush("send", "select")
  /\ UNCHANGED <<calls, batchCh, flushCh, stopCh, timer, stop, accepted, settled, failed,
                 backend>>

\* batchWorker's select finds stopCh closed: the current batch is flushed, and that
\* is all: what is queued in batchCh stays there.
WorkerStops ==
  /\ worker = "select"
  /\ stopCh
  /\ BeginFlush("send-last", "exited")
  /\ UNCHANGED <<calls, batchCh, flushCh, stopCh, timer, stop, accepted, settled, failed,
                 backend>>

\* flush is done with the batch: the worker selects again, or returns.
EndFlush ==
  /\ settled' = settled \o sending
  /\ sending' = <<>>
  /\ worker' = IF worker = "send-last" THEN "exited" ELSE "select"

AttemptsLeft == attempt < MaxRetries

\* One backend.Write of sendBatch.  It may fail although the backend took the batch.
WriteBatch(taken, error) ==
  /\ worker \in {"send", "send-last"}
  /\ AttemptsLeft
  /\ taken \/ error
  /\ backend' = IF taken THEN backend \o sending ELSE backend
  /\ attempt' = attempt + 1
  /\ IF error
       THEN UNCHANGED <<worker, sending, settled>>
       ELSE EndFlush
  /\ UNCHANGED <<calls, batchCh, currentBatch, flushCh, stopCh, timer, stop, accepted,
                 failed>>

\* Planted fault: the series of a failed batch are queued again, behind later ones.
GiveUpRequeues ==
  /\ worker \in {"send", "send-last"}
  /\ ~AttemptsLeft
  /\ batchCh' = batchCh \o sending
  /\ sending' = <<>>
  /\ worker' = IF worker = "send-last" THEN "exited" ELSE "select"
  /\ UNCHANGED <<calls, currentBatch, flushCh, stopCh, attempt, timer, stop, accepted,
                 settled, failed, backend>>

\* Planted fault: sendBatch returns no error after its last attempt.
GiveUpSilently ==
  /\ worker \in {"send", "send-last"}
  /\ ~AttemptsLeft
  /\ EndFlush
  /\ UNCHANGED <<calls, batchCh, currentBatch, flushCh, stopCh, attempt, timer, stop,
                 accepted, failed, backend>>

\* sendBatch has no attempt left: the batch is given up.
GiveUp ==
  /\ worker \in {"send", "send-last"}
  /\ ~AttemptsLeft
  /\ failed' = failed \cup {sending[i] : i \in DOMAIN sending}
  /\ EndFlush
  /\ UNCHANGED <<calls, batchCh, currentBatch, flushCh, stopCh, attempt, timer, stop,
                 accepted, backend>>

\* Planted fault: the tick is ignored unless the batch is full.
TickNeedsFullBatch ==
  /\ timer = "running"
  /\ flushCh' = (flushCh \/ BatchIsFull(currentBatch))
  /\ UNCHANGED <<calls, batchCh, currentBatch, stopCh, worker, sending, attempt, timer,
                 stop, accepted, settled, failed, backend>>

\* flushTimer's tick; the select may still pick it after stopCh is closed.
Tick ==
  /\ timer = "running"
  /\ flushCh' = TRUE
  /\ UNCHANGED <<calls, batchCh, currentBatch, stopCh, worker, sending, attempt, timer,
                 stop, accepted, settled, failed, backend>>

TimerExits ==
  /\ timer = "running"
  /\ stopCh
  /\ timer' = "exited"
  /\ UNCHANGED <<calls, batchCh, currentBatch, flushCh, stopCh, worker, sending, attempt,
                 stop, accepted, settled, failed, backend>>

\* Stop closes stopCh, once, and waits for both goroutines.
Stop ==
  /\ stop = "none"
  /\ stop' = "waiting"
  /\ stopCh' = TRUE
  /\ UNCHANGED <<calls, batchCh, currentBatch, flushCh, worker, sending, attempt, timer,
                 accepted, settled, failed, backend>>

StopReturns ==
  /\ stop = "waiting"
  /\ worker = "exited" /\ timer = "exited"
  /\ stop' = "done"
  /\ UNCHANGED <<calls, batchCh, currentBatch, flushCh, stopCh, worker, sending, attempt,
                 timer, accepted, settled, failed, backend>>

Send == GiveUp \/ \E taken, error \in BOOLEAN : WriteBatch(taken, error)

Next == \/ Forward
        \/ WorkerTakes \/ WorkerFlushes \/ WorkerStops \/ Send
        \/ Tick \/ TimerExits
        \/ Stop \/ StopReturns

Safety == Init /\ [][Next]_vars

\* Goroutines that can run do, and a select chooses at random among the ready cases,
\* so a case that is ready again and again is taken.  Calls of Forward and Stop are
\* the environment's.
Fairness ==
  /\ SF_vars(WorkerTakes) /\ SF_vars(WorkerFlushes) /\ SF_vars(WorkerStops)
  /\ WF_vars(Send) /\ WF_vars(StopReturns)
  /\ WF_vars(Tick) /\ WF_vars(TimerExits)

Spec == Safety /\ Fairness
-----------------------------------------------------------------------------
(* Properties. *)

Ids == 1..MaxCalls
In(x, s) == \E i \in DOMAIN s : s[i] = x

TypeOK ==
  /\ calls \in 0..MaxCalls
  /\ \A s \in {batchCh, currentBatch, sending, accepted, settled, backend} : s \in Seq(Ids)
  /\ flushCh \in BOOLEAN
  /\ stopCh \in BOOLEAN
  /\ worker \in {"select", "send", "send-last", "exited"}
  /\ attempt \in 0..MaxRetries
  /\ timer \in {"running", "exited"}
  /\ stop \in {"none", "waiting", "done"}
  /\ failed \subseteq Ids

\* Whatever the two goroutines, the callers and Stop do, each series that Forward
\* accepted is at exactly one place of the pipeline, and all of them are still in the
\* order of acceptance: none is overtaken, duplicated or forgotten by a batch swap.
PipelineConserves == settled \o sending \o currentBatch \o batchCh = accepted

\* A full batch never waits for the timer: when the worker selects, the signal that
\* will flush it is in flushCh, although triggerFlush discards signals.
FullBatchIsFlushed == Len(currentBatch) >= BatchSize => flushCh

\* Every accepted series is on its way, in order, and nothing it waits for is missing.
PipelineIsSound == PipelineConserves /\ FullBatchIsFlushed

\* What flush counts as forwarded was received by the backend, and no series is
\* received more often than sendBatch tries.
ForwardedIsReceived ==
  /\ \A i \in DOMAIN settled : In(settled[i], backend) \/ settled[i] \in failed
  /\ \A x \in Ids : Cardinality({i \in DOMAIN backend : backend[i] = x}) <= MaxRetries

\* The backend sees the series for the first time in the order in which they were
\* accepted: neither retries nor the two flush signals reorder them.
BackendInOrder ==
  \A i, j \in DOMAIN backend :
    i < j /\ backend[j] < backend[i] => \E k \in 1..(i - 1) : backend[k] = backend[j]

\* Once Stop has returned, no series is left half way: those that were taken from the
\* queue were sent or given up.
NothingHalfway == stop = "done" => settled \o batchCh = accepted

\* A series that was accepted is sent or given up, unless Stop is called, even if the
\* batch never fills.
AcceptedIsSettled ==
  \A x \in Ids : In(x, accepted) ~> In(x, settled) \/ stopCh

\* Stop returns, whatever the backend does.
StopEnds == stop = "waiting" ~> stop = "done"
=============================================================================
