---------------------------- MODULE JobLifecycle ----------------------------
(***************************************************************************)
(* What the job pipeline promises about one job, whatever the blocks, the  *)
(* stake and the votes: it is assigned once, it is served or missed once,  *)
(* only a served job can be contested or reverted, and a job that failed   *)
(* or was reverted stays so.                                               *)
(*                                                                         *)
(* This is the life cycle the code has.  dai/whitepaper.md:66 and :162,    *)
(* dai/implementation-plan.md:168, :184 and :266-267 put failed and        *)
(* reverted jobs back into a queue and assign them to the next slot's      *)
(* server, and jobs.go:248 returns a reverted job "for re-queuing"; no     *)
(* caller uses the job it returns, and there is no queue.  So a system     *)
(* that implements this specification is one that never re-queues a job.   *)
(***************************************************************************)
CONSTANTS JobIDs,      \* jobs
          Servers,     \* those a job may be assigned to
          Unassigned   \* the assignee of a job that was not accepted yet

VARIABLES status, assignee

vars == <<status, assignee>>

Statuses == {"absent", "pending", "served", "contested", "reverted", "failed"}

Init ==
    /\ status = [j \in JobIDs |-> "absent"]
    /\ assignee = [j \in JobIDs |-> Unassigned]

Accept(j) ==
    /\ status[j] = "absent"
    /\ status' = [status EXCEPT ![j] = "pending"]
    /\ \E s \in Servers : assignee' = [assignee EXCEPT ![j] = s]

Serve(j) ==
    /\ status[j] = "pending"
    /\ status' = [status EXCEPT ![j] = "served"]
    /\ UNCHANGED assignee

\* The end of a slot fails some of the pending jobs.
Miss ==
    /\ \E J \in SUBSET JobIDs :
         /\ \A j \in J : status[j] = "pending"
         /\ status' = [j \in JobIDs |-> IF j \in J THEN "failed" ELSE status[j]]
    /\ UNCHANGED assignee

Contest(j) ==
    /\ status[j] = "served"
    /\ status' = [status EXCEPT ![j] = "contested"]
    /\ UNCHANGED assignee

Revert(j) ==
    /\ status[j] \in {"served", "contested"}
    /\ status' = [status EXCEPT ![j] = "reverted"]
    /\ UNCHANGED assignee

Next ==
    \/ \E j \in JobIDs : Accept(j) \/ Serve(j) \/ Contest(j) \/ Revert(j)
    \/ Miss

Spec == Init /\ [][Next]_vars
=============================================================================
