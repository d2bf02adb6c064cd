---------------------------- MODULE InsertPromise ----------------------------
(***************************************************************************)
(* What a caller of Router.Insert may rely on, with no nodes, breakers or  *)
(* RPCs in it: a sample is acknowledged only after it was kept; a sample   *)
(* reported as failed may have been kept, or may be kept later; what was   *)
(* kept can be lost at any time and is not kept again.                     *)
(***************************************************************************)
CONSTANTS Samples,
          Sketched      \* samples whose metric matches a sketch target

VARIABLES outcome,      \* outcome[s]: what the caller was told
          kept          \* kept[s]: "never", "kept" or "lost"

promiseVars == <<outcome, kept>>

Init == /\ outcome = [s \in Samples |-> "new"]
        /\ kept = [s \in Samples |-> "never"]

Begin(s) == /\ outcome[s] = "new"
            /\ outcome' = [outcome EXCEPT ![s] = "pending"]
            /\ UNCHANGED kept

Keep(s) == /\ outcome[s] # "new" /\ s \in Sketched /\ kept[s] = "never"
           /\ kept' = [kept EXCEPT ![s] = "kept"]
           /\ UNCHANGED outcome

Lose(S) == /\ \A s \in S : kept[s] = "kept"
           /\ kept' = [s \in Samples |-> IF s \in S THEN "lost" ELSE kept[s]]
           /\ UNCHANGED outcome

Acknowledge(s) == /\ outcome[s] = "pending"
                  /\ s \in Sketched => kept[s] # "never"
                  /\ outcome' = [outcome EXCEPT ![s] = "acked"]
                  /\ UNCHANGED kept

Refuse(s) == /\ outcome[s] = "pending"
             /\ outcome' = [outcome EXCEPT ![s] = "failed"]
             /\ UNCHANGED kept

Next == \/ \E s \in Samples : Begin(s) \/ Keep(s) \/ Acknowledge(s) \/ Refuse(s)
        \/ \E S \in SUBSET Samples : Lose(S)

Spec == Init /\ [][Next]_promiseVars
=============================================================================
