----------------------------- MODULE JobLifecycle -----------------------------
(***************************************************************************)
(* What an ingestion job promises to those who watch it: it is queued, it  *)
(* runs, and it ends in exactly one outcome, which it keeps.               *)
(***************************************************************************)
CONSTANT Jobs

VARIABLE status

Outcomes == {"completed", "failed"}

Init == status = [j \in Jobs |-> "none"]

Create(j) == status[j] = "none" /\ status' = [status EXCEPT ![j] = "queued"]

Run(j) == status[j] = "queued" /\ status' = [status EXCEPT ![j] = "running"]

Finish(j) ==
    /\ status[j] = "running"
    /\ \E o \in Outcomes : status' = [status EXCEPT ![j] = o]

Next == \E j \in Jobs : Create(j) \/ Run(j) \/ Finish(j)

\* Jobs need not be created; one that exists runs and finishes.
Spec ==
    /\ Init /\ [][Next]_status
    /\ \A j \in Jobs : WF_status(Run(j)) /\ WF_status(Finish(j))

=============================================================================
