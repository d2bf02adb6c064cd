---------------------------- MODULE QueryPromise ----------------------------
(***************************************************************************)
(* What both query paths promise a client, without saying how: a query is  *)
(* settled once; it is settled by the sketches only if they have said that *)
(* they can answer it; it fails only if it is at fault itself, if the      *)
(* backend, which is always there to fall back on, has failed it, or if    *)
(* the client has gone.                                                    *)
(***************************************************************************)
CONSTANT Queries

VARIABLES asked,      \* the queries that have arrived
          answerable, \* those for which the sketches have offered an answer
          excused,    \* those that may fail
          outcome     \* "none", "sketch", "backend" or "failed"

PromiseInit ==
  /\ asked = {}
  /\ answerable = {}
  /\ excused = {}
  /\ outcome = [q \in Queries |-> "none"]

Ask(q) ==
  /\ asked' = asked \cup {q}
  /\ UNCHANGED <<answerable, outcome>>

Offer(q) ==
  /\ q \in asked /\ outcome[q] = "none"
  /\ answerable' = answerable \cup {q}
  /\ UNCHANGED <<asked, excused, outcome>>

Excuse(q) ==
  /\ q \in asked' /\ outcome[q] = "none"
  /\ excused' = excused \cup {q}

Settle(q, o) ==
  /\ q \in asked' /\ outcome[q] = "none"
  /\ o = "sketch" => q \in answerable
  /\ o = "failed" => q \in excused'
  /\ outcome' = [outcome EXCEPT ![q] = o]
  /\ UNCHANGED answerable

\* A query may arrive, be excused and be settled in one step.
PromiseNext == \E q \in Queries :
  \/ Ask(q) /\ excused' \in {excused, excused \cup {q}}
  \/ Offer(q)
  \/ Excuse(q) /\ UNCHANGED <<asked, answerable, outcome>>
  \/ /\ asked' \in {asked, asked \cup {q}}
     /\ excused' \in {excused, excused \cup {q}}
     /\ \E o \in {"sketch", "backend", "failed"} : Settle(q, o)

PromiseSpec == PromiseInit /\ [][PromiseNext]_<<asked, answerable, excused, outcome>>
=============================================================================
