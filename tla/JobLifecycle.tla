---------------------------- MODULE JobLifecycle ----------------------------
(***************************************************************************)
(* What the README promises of a job nobody cancels: a queued row is       *)
(* driven to running and from there to succeeded or failed, and it gets    *)
(* there.  Where deliveries repeat, because the worker may be stopped, a   *)
(* job that is over may be run again.  Jobs implements it.                 *)
(***************************************************************************)
CONSTANTS Job, Repeats
VARIABLE status

Init == status = [j \in Job |-> "absent"]

Move(j, from, to) ==
    /\ status[j] = from
    /\ status' = [status EXCEPT ![j] = to]

Create(j) == Move(j, "absent", "queued")
Start(j) == Move(j, "queued", "running")
Finish(j) == Move(j, "running", "succeeded") \/ Move(j, "running", "failed")
Again(j) == Repeats /\ (Move(j, "succeeded", "running") \/ Move(j, "failed", "running"))

Next == \E j \in Job : Create(j) \/ Start(j) \/ Finish(j) \/ Again(j)

Fairness == \A j \in Job : WF_status(Start(j)) /\ WF_status(Finish(j))

Safety == Init /\ [][Next]_status
Spec == Safety /\ Fairness
=============================================================================
