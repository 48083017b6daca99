------------------------------ MODULE PlanJobs ------------------------------
(***************************************************************************)
(* AgentPlans with the jobs of its steps: execute_plan calls create_job    *)
(* and execute_job of services/jobs.py in the plan's own session and       *)
(* delivery, so a step's job is never enqueued, has no deliveries of its   *)
(* own, and may be cancelled by a request like any other job.  A module    *)
(* that puts stages inside the "steps" place of AgentPlans, and shows that *)
(* what AgentPlans says of a step in one action is what they come to.      *)
(*                                                                         *)
(* The signal that follows a cancel is left out: it names a delivery that  *)
(* does not exist (workers/queue.py, cancel_job).                          *)
(***************************************************************************)
EXTENDS AgentPlans

CONSTANT StepCancel  \* the requests users may send to cancel a step's job

JobStatus == {"absent", "queued", "running", "succeeded", "failed", "cancelled"}
Cancellable == {"queued", "running"}

VARIABLES
    row,    \* table jobs: the rows of the steps' jobs
    stage,  \* how far the execution of the current step's job is
    stop,   \* the cancel requests
    dirless \* history: the jobs for which no work directory could be made

stepVars == <<row, stage, stop, dirless>>
allVars == <<vars, stepVars>>

NoRow == [status |-> "absent", out |-> FALSE]
NoStage == [at |-> "none", copy |-> "absent"]

CurrentJob(a) == <<a, tries[a], Step(a)>>
Working(a, at) == At(a, {"steps"}) /\ Step(a) \in StepId /\ stage[a].at = at
Reach(a, at, copy) == stage' = [stage EXCEPT ![a] = [at |-> at, copy |-> copy]]

-----------------------------------------------------------------------------
(* create_job commits the row, and execute_job then finds it in the        *)
(* session as it was when it was created.                                  *)
StepCreate(a) ==
    /\ Working(a, "none")
    /\ Resolves(a)
    /\ row' = [row EXCEPT ![CurrentJob(a)].status = "queued"]
    /\ Reach(a, "created", "queued")
    /\ UNCHANGED <<vars, stop, dirless>>

StepRefused(a) ==
    /\ Working(a, "none")
    /\ ExecStepRaises(a)
    /\ UNCHANGED stepVars

StepStart(a) ==
    /\ Working(a, "created")
    /\ row' = [row EXCEPT ![CurrentJob(a)].status = Written(@, stage[a].copy, "running")]
    /\ Reach(a, "working", "running")
    /\ UNCHANGED <<vars, stop, dirless>>

(* No work directory can be made.  That raises between the committed start *)
(* and the `try`: it leaves execute_job and ends the plan, and nothing     *)
(* writes the job's row again.                                             *)
StepNoWorkDir(a) ==
    /\ Working(a, "working")
    /\ ExecStepRaises(a)
    /\ stage' = [stage EXCEPT ![a] = NoStage]
    /\ dirless' = dirless \cup {CurrentJob(a)}
    /\ UNCHANGED <<row, stop>>

(* Inside the `try`: the context, the handler or the storing of an output  *)
(* raises.                                                                 *)
StepRaise(a) ==
    /\ Working(a, "working")
    /\ Reach(a, "failing", stage[a].copy)
    /\ UNCHANGED <<vars, row, stop, dirless>>

(* Mutant: success is written without looking at the row again.            *)
StepLook_Blind(a) ==
    /\ Working(a, "working")
    /\ Reach(a, "final", "running")
    /\ UNCHANGED <<vars, row, stop, dirless>>

(* The last look: a cancelled job returns at once and is recorded so.      *)
StepLook(a) ==
    /\ Working(a, "working")
    /\ IF row[CurrentJob(a)].status = "cancelled"
       THEN /\ RecordStep(a, "cancelled", FALSE)
            /\ stage' = [stage EXCEPT ![a] = NoStage]
            /\ UNCHANGED <<plans, intermediate, req, queue, tries, faults>>
       ELSE /\ Reach(a, "final", row[CurrentJob(a)].status)
            /\ UNCHANGED vars
    /\ UNCHANGED <<row, stop, dirless>>

StepSucceed(a) ==
    /\ Working(a, "final")
    /\ \E out \in BOOLEAN :
         row' = [row EXCEPT ![CurrentJob(a)].status = Written(@, stage[a].copy, "succeeded"),
                            ![CurrentJob(a)].out = out]
    /\ Reach(a, "ending", "succeeded")
    /\ UNCHANGED <<vars, stop, dirless>>

(* Mutant: the failure is logged and the row left as it is.                *)
StepFail_LogOnly(a) ==
    /\ Working(a, "failing")
    /\ Reach(a, "ending", "failed")
    /\ UNCHANGED <<vars, row, stop, dirless>>

StepFail(a) ==
    /\ Working(a, "failing")
    /\ row' = [row EXCEPT ![CurrentJob(a)].status = Written(@, stage[a].copy, "failed")]
    /\ Reach(a, "ending", "failed")
    /\ UNCHANGED <<vars, stop, dirless>>

(* Mutant: the job is created and recorded, and left to be run later.      *)
StepEnd_NotRun(a) ==
    LET job == row[CurrentJob(a)] IN
    /\ Working(a, "created")
    /\ RecordStep(a, job.status, job.out)
    /\ stage' = [stage EXCEPT ![a] = NoStage]
    /\ UNCHANGED <<plans, intermediate, req, queue, tries, faults, row, stop, dirless>>

(* The job is read once more and its end becomes the step's.               *)
StepEnd(a) ==
    LET job == row[CurrentJob(a)] IN
    /\ Working(a, "ending")
    /\ RecordStep(a, job.status, job.out)
    /\ stage' = [stage EXCEPT ![a] = NoStage]
    /\ UNCHANGED <<plans, intermediate, req, queue, tries, faults, row, stop, dirless>>

-----------------------------------------------------------------------------
(* POST /jobs/{id}/cancel for the job of a step.                           *)
Unasked == [pc |-> "idle", job |-> CHOOSE j \in JobId : TRUE, copy |-> "absent"]

Answered(r) == stop' = [stop EXCEPT ![r] = [Unasked EXCEPT !.pc = "done"]]

CancelLoad(r) ==
    /\ stop[r].pc = "idle"
    /\ \E j \in JobId :
         /\ row[j].status # "absent"
         /\ stop' = [stop EXCEPT ![r] = [pc |-> "loaded", job |-> j, copy |-> row[j].status]]
    /\ UNCHANGED <<vars, row, stage, dirless>>

CancelReject(r) ==
    /\ stop[r].pc = "loaded"
    /\ stop[r].copy \notin Cancellable
    /\ Answered(r)
    /\ UNCHANGED <<vars, row, stage, dirless>>

CancelCommit(r) ==
    /\ stop[r].pc = "loaded"
    /\ stop[r].copy \in Cancellable
    /\ row' = [row EXCEPT ![stop[r].job].status = Written(@, stop[r].copy, "cancelled")]
    /\ Answered(r)
    /\ UNCHANGED <<vars, stage, dirless>>

-----------------------------------------------------------------------------
StepsInit ==
    /\ Init
    /\ row = [j \in JobId |-> NoRow]
    /\ stage = [a \in Approval |-> NoStage]
    /\ stop = [r \in StepCancel |-> Unasked]
    /\ dirless = {}

(* What the worker does with a delivery, a step in its stages.             *)
ExecuteSteps(a) ==
    \/ /\ ExecLoad(a) \/ ExecStart(a) \/ ExecRecord(a) \/ ExecSucceed(a) \/ ExecFail(a)
       /\ UNCHANGED stepVars
    \/ StepCreate(a) \/ StepRefused(a) \/ StepStart(a) \/ StepNoWorkDir(a)
    \/ StepRaise(a) \/ StepLook(a) \/ StepSucceed(a) \/ StepFail(a) \/ StepEnd(a)

(* An interruption takes the stage with it and leaves the job's row.       *)
InterruptSteps ==
    /\ \/ WorkerCrash
       \/ \E a \in Approval : PlanTimeout(a) \/ DatabaseError(a) \/ WorkerShutdown(a)
    /\ stage' = [a \in Approval |-> IF ex'[a] = ex[a] THEN stage[a] ELSE NoStage]
    /\ UNCHANGED <<row, stop, dirless>>

Users ==
    \/ \E p \in Plan : Propose(p)
    \/ \E a \in Approval : ApproveLoad(a) \/ EnqueueLost(a)

StepsNext ==
    \/ Users /\ UNCHANGED stepVars
    \/ \E a \in Approval : \/ (Approve(a) \/ Arq(a)) /\ UNCHANGED stepVars
                           \/ ExecuteSteps(a)
    \/ InterruptSteps
    \/ \E r \in StepCancel : CancelLoad(r) \/ CancelReject(r) \/ CancelCommit(r)
    \/ Terminating /\ UNCHANGED stepVars

(* As in AgentPlans; nothing is assumed of cancel requests.                *)
StepsSpec ==
    /\ StepsInit /\ [][StepsNext]_allVars
    /\ \A a \in Approval : /\ WF_allVars((Approve(a) \/ Arq(a)) /\ UNCHANGED stepVars)
                           /\ WF_allVars(ExecuteSteps(a))

-----------------------------------------------------------------------------
(* What the stages come to is one step of AgentPlans: a step ends only     *)
(* after its references resolved, as succeeded, failed or cancelled, and   *)
(* never with an output of a failed job; plans move as there.              *)
PlansAreExecuted == Spec

(* Nothing but the execution of a plan could ever settle the job of a      *)
(* step.  Such a job, not over in the plan's latest try, is the one being  *)
(* executed, or the one whose work directory could not be made: that is    *)
(* the step the execution stopped at, and the plan can only fail.  Nothing *)
(* else that raises, and no cancel, leaves a job behind.  A delivery cut   *)
(* short for good, by its timeout or a database error, is not meant.       *)
LeftBehind(j) ==
    /\ row[j].status \in {"queued", "running"}
    /\ j[2] = tries[j[1]] /\ ~At(j[1], {"idle"})

StepJobsSettle ==
    \A j \in JobId : LeftBehind(j) =>
        /\ j[3] = Step(j[1])
        /\ \/ At(j[1], {"steps"})
           \/ j \in dirless /\ At(j[1], {"failing", "returned"})

(* Cancelled before its last look, or past the point where it could have   *)
(* stored a result without one.                                            *)
Barren(j) ==
    LET current == At(j[1], {"steps"}) /\ j = CurrentJob(j[1]) IN
    /\ ~row[j].out
    /\ \/ current /\ stage[j[1]].at \in {"failing", "ending"}
       \/ current /\ stage[j[1]].at = "working" /\ row[j].status = "cancelled"
       \/ ~current /\ row[j].status # "absent"

(* A step's job that was cancelled while it worked, that failed, or whose  *)
(* try was cut short never gets an output afterwards, whatever is          *)
(* delivered again: later steps cannot be fed by it.                       *)
CancelledStepYieldsNothing == [][\A j \in JobId : Barren(j) => Barren(j)']_allVars
=============================================================================
