----------------------------- MODULE AgentPlans -----------------------------
(***************************************************************************)
(* An agent plan from proposal to result: the row in table `agent_plans`,  *)
(* its approval (services/agent.py, api/v1/agent.py), the arq delivery the *)
(* approval enqueues and the worker's execution of the steps, one job each *)
(* (agent/executor.py, execute_plan).                                      *)
(*                                                                         *)
(* Unlike a job's, a plan's delivery has an id of its own: every approval  *)
(* enqueues another one, so two may run at once.  A step's job is executed *)
(* inside the plan's delivery; what Jobs says of it is abstracted to the   *)
(* status it ends with and whether it has an output.                       *)
(***************************************************************************)
EXTENDS Naturals, Sequences, FiniteSets

CONSTANTS
    Plan,       \* the plans the planner may propose
    Approval,   \* the approve requests users may send; each enqueues at most once
    Steps,      \* the number of steps of a plan
    Refs,       \* Refs[i]: the earlier steps whose output step i uses
    Listed,     \* the pairs <<i, k>> of Refs that only params.asset_ids mentions
    MaxTries,   \* deliveries of one enqueued plan before arq gives up on it
    Faults,     \* the kinds of fault the environment may inject
    MaxFaults   \* bound: faults in one behaviour

StepId == 1..Steps
FaultKinds == {"api", "timeout", "shutdown", "crash", "database"}

ASSUME StepsAssumption == Steps \in Nat \ {0}
ASSUME RefsAssumption ==
    /\ Refs \in [StepId -> SUBSET StepId]
    /\ \A i \in StepId : \A k \in Refs[i] : k < i
    /\ Listed \subseteq StepId \X StepId
ASSUME TriesAssumption == MaxTries \in Nat \ {0}
ASSUME FaultsAssumption == Faults \subseteq FaultKinds /\ MaxFaults \in Nat

(* A step's job, named by the delivery, its try and the step; the asset it *)
(* may produce goes by the same name.                                      *)
JobId == Approval \X (1..MaxTries) \X StepId
StepRun == [job : JobId, status : {"succeeded", "failed", "cancelled"}, out : BOOLEAN]
StepRuns == Seq(StepRun)

Status == {"absent", "proposed", "approved", "running", "succeeded", "failed"}
Approvable == {"proposed", "failed"}
Settled == {"succeeded", "failed"}

VARIABLES
    plans,         \* table agent_plans
    intermediate,  \* table assets: outputs flagged is_intermediate
    req,           \* the approve requests
    queue,         \* arq: deliveries outstanding, each named by its approval
    tries,         \* arq: how often each was delivered
    ex,            \* the worker's execution of each delivery
    faults         \* faults injected so far

vars == <<plans, intermediate, req, queue, tries, ex, faults>>

NoPlan == [status |-> "absent", error |-> FALSE, runs |-> <<>>, finals |-> {}]
Idle == [pc |-> "idle", status |-> "absent", rowRuns |-> <<>>, rowFinals |-> {},
         runs |-> <<>>]

Init ==
    /\ plans = [p \in Plan |-> NoPlan]
    /\ intermediate = {} /\ queue = {}
    /\ req \in [Approval -> [pc : {"idle"}, plan : Plan, status : {"absent"}]]
    /\ tries = [a \in Approval |-> 0]
    /\ ex = [a \in Approval |-> Idle]
    /\ faults = 0

PlanOf(a) == req[a].plan
At(a, places) == ex[a].pc \in places
Move(a, place) == ex' = [ex EXCEPT ![a].pc = place]

(* What an UPDATE leaves in a column: `new` unless the session believes it *)
(* is there already.                                                       *)
Written(row, old, new) == IF new = old THEN row ELSE new

Step(a) == Len(ex[a].runs) + 1
HasOutput(runs, k) == k \in DOMAIN runs /\ runs[k].out

-----------------------------------------------------------------------------
(* post_message stores a plan that passed validation.                      *)
Propose(p) ==
    /\ plans[p].status = "absent"
    /\ plans' = [plans EXCEPT ![p].status = "proposed"]
    /\ UNCHANGED <<intermediate, req, queue, tries, ex, faults>>

(* POST /agent/plans/{id}/approve: look, then commit, then enqueue.        *)
ApproveLoad(a) ==
    /\ req[a].pc = "idle"
    /\ plans[PlanOf(a)].status # "absent"
    /\ req' = [req EXCEPT ![a].pc = "loaded", ![a].status = plans[PlanOf(a)].status]
    /\ UNCHANGED <<plans, intermediate, queue, tries, ex, faults>>

ApproveReject(a) ==
    /\ req[a].pc = "loaded"
    /\ req[a].status \notin Approvable
    /\ req' = [req EXCEPT ![a].pc = "done"]
    /\ UNCHANGED <<plans, intermediate, queue, tries, ex, faults>>

ApproveCommit(a) ==
    /\ req[a].pc = "loaded"
    /\ req[a].status \in Approvable
    /\ plans' = [plans EXCEPT ![PlanOf(a)].status = "approved"]
    /\ req' = [req EXCEPT ![a].pc = "committed"]
    /\ UNCHANGED <<intermediate, queue, tries, ex, faults>>

ApproveEnqueue(a) ==
    /\ req[a].pc = "committed"
    /\ req' = [req EXCEPT ![a].pc = "done"]
    /\ queue' = queue \cup {a}
    /\ UNCHANGED <<plans, intermediate, tries, ex, faults>>

-----------------------------------------------------------------------------
(* arq and run_plan.                                                       *)
(* Mutant: deliveries are not limited.                                     *)
ArqStart_NoLimit(a) ==
    /\ a \in queue /\ At(a, {"idle"})
    /\ tries' = [tries EXCEPT ![a] = @ + 1]
    /\ Move(a, "popped")
    /\ UNCHANGED <<plans, intermediate, req, queue, faults>>

ArqStart(a) ==
    /\ a \in queue /\ At(a, {"idle"})
    /\ tries[a] < MaxTries
    /\ tries' = [tries EXCEPT ![a] = @ + 1]
    /\ Move(a, "popped")
    /\ UNCHANGED <<plans, intermediate, req, queue, faults>>

ArqGiveUp(a) ==
    /\ a \in queue /\ At(a, {"idle"})
    /\ tries[a] = MaxTries
    /\ queue' = queue \ {a}
    /\ UNCHANGED <<plans, intermediate, req, tries, ex, faults>>

ArqFinish(a) ==
    /\ At(a, {"returned"})
    /\ queue' = queue \ {a}
    /\ ex' = [ex EXCEPT ![a] = Idle]
    /\ UNCHANGED <<plans, intermediate, req, tries, faults>>

-----------------------------------------------------------------------------
(* execute_plan.                                                           *)
(* Mutant: an execution resumes from the step runs it finds recorded.      *)
ExecLoad_Resumes(a) ==
    LET row == plans[PlanOf(a)] IN
    /\ At(a, {"popped"})
    /\ ex' = [ex EXCEPT ![a] = [pc |-> "loaded", status |-> row.status, rowRuns |-> row.runs,
                                rowFinals |-> row.finals, runs |-> row.runs]]
    /\ UNCHANGED <<plans, intermediate, req, queue, tries, faults>>

ExecLoad(a) ==
    /\ At(a, {"popped"})
    /\ ex' = [ex EXCEPT ![a].pc = "loaded", ![a].status = plans[PlanOf(a)].status,
                        ![a].rowRuns = plans[PlanOf(a)].runs,
                        ![a].rowFinals = plans[PlanOf(a)].finals]
    /\ UNCHANGED <<plans, intermediate, req, queue, tries, faults>>

ExecStart(a) ==
    /\ At(a, {"loaded"})
    /\ plans' = [plans EXCEPT ![PlanOf(a)].status = Written(@, ex[a].status, "running")]
    /\ ex' = [ex EXCEPT ![a].pc = "steps", ![a].status = "running"]
    /\ UNCHANGED <<intermediate, req, queue, tries, faults>>

(* A step whose references all resolve gets a job, and the job is run.  A  *)
(* cancelled job may have an output: the cancel may have come last.        *)
Resolves(a) == \A k \in Refs[Step(a)] : HasOutput(ex[a].runs, k)

RecordStep(a, status, out) ==
    LET run == [job |-> <<a, tries[a], Step(a)>>, status |-> status, out |-> out] IN
    ex' = [ex EXCEPT ![a].pc = "record", ![a].runs = Append(@, run)]

ExecStep(a) ==
    /\ At(a, {"steps"}) /\ Step(a) \in StepId
    /\ Resolves(a)
    /\ \E status \in {"succeeded", "failed", "cancelled"}, out \in BOOLEAN :
         /\ status = "failed" => ~out
         /\ RecordStep(a, status, out)
    /\ UNCHANGED <<plans, intermediate, req, queue, tries, faults>>

(* An unresolved reference, a job that create_job refuses or one for which *)
(* execute_job finds no work directory ends it.                            *)
ExecStepRaises(a) ==
    /\ At(a, {"steps"}) /\ Step(a) \in StepId
    /\ Move(a, "failing")
    /\ UNCHANGED <<plans, intermediate, req, queue, tries, faults>>

ExecRecord(a) ==
    LET last == ex[a].runs[Len(ex[a].runs)] IN
    /\ At(a, {"record"})
    /\ plans' = [plans EXCEPT ![PlanOf(a)].runs = Written(@, ex[a].rowRuns, ex[a].runs)]
    /\ ex' = [ex EXCEPT ![a].rowRuns = ex[a].runs,
                        ![a].pc = IF last.status = "failed" THEN "failing" ELSE "steps"]
    /\ UNCHANGED <<intermediate, req, queue, tries, faults>>

(* _consumed_step_ids looks at strings only: a reference that is an item   *)
(* of the list params.asset_ids is not counted.                            *)
Consumed == {k \in StepId : \E i \in StepId : k \in Refs[i] /\ <<i, k>> \notin Listed}

OutputsOf(runs, steps) == {runs[k].job : k \in {i \in steps : HasOutput(runs, i)}}

(* Mutant: every output is a result.                                       *)
ExecSucceed_AllFinal(a) ==
    /\ At(a, {"steps"}) /\ Step(a) \notin StepId
    /\ plans' = [plans EXCEPT ![PlanOf(a)].status = "succeeded",
                              ![PlanOf(a)].finals = OutputsOf(ex[a].runs, StepId)]
    /\ intermediate' = intermediate \cup OutputsOf(ex[a].runs, Consumed)
    /\ Move(a, "returned")
    /\ UNCHANGED <<req, queue, tries, faults>>

(* The status, the results and the flags are one commit; step_runs equal   *)
(* what the last step recorded and are not written again.                  *)
ExecSucceed(a) ==
    /\ At(a, {"steps"}) /\ Step(a) \notin StepId
    /\ plans' = [plans EXCEPT
         ![PlanOf(a)].status = "succeeded",
         ![PlanOf(a)].finals =
            Written(@, ex[a].rowFinals, OutputsOf(ex[a].runs, StepId \ Consumed))]
    /\ intermediate' = intermediate \cup OutputsOf(ex[a].runs, Consumed)
    /\ Move(a, "returned")
    /\ UNCHANGED <<req, queue, tries, faults>>

(* Mutant: the failure is logged and not recorded.                         *)
ExecFail_LogOnly(a) ==
    /\ At(a, {"failing"})
    /\ Move(a, "returned")
    /\ UNCHANGED <<plans, intermediate, req, queue, tries, faults>>

ExecFail(a) ==
    /\ At(a, {"failing"})
    /\ plans' = [plans EXCEPT
         ![PlanOf(a)].status = "failed", ![PlanOf(a)].error = TRUE,
         ![PlanOf(a)].runs = Written(@, ex[a].rowRuns, ex[a].runs)]
    /\ Move(a, "returned")
    /\ UNCHANGED <<intermediate, req, queue, tries, faults>>

-----------------------------------------------------------------------------
(* Interruptions.  A cancelled task runs `finally` only, which commits the *)
(* step runs and leaves the status; between the last step and its commit   *)
(* some outputs may have been flagged, and are committed with them.        *)
Interruptible == {"popped", "loaded", "steps", "record", "failing"}

FlagSome(a) ==
    IF At(a, {"steps"}) /\ Step(a) \notin StepId
    THEN \E s \in SUBSET OutputsOf(ex[a].runs, Consumed) : intermediate' = intermediate \cup s
    ELSE UNCHANGED intermediate

Finally(a) ==
    /\ IF At(a, {"steps", "record", "failing"})
       THEN plans' = [plans EXCEPT ![PlanOf(a)].runs = Written(@, ex[a].rowRuns, ex[a].runs)]
       ELSE UNCHANGED plans
    /\ FlagSome(a)

Fault(kind) ==
    /\ kind \in Faults
    /\ faults < MaxFaults
    /\ faults' = faults + 1

(* The plan outlives WorkerSettings.job_timeout: arq does not run it again. *)
PlanTimeout(a) ==
    /\ Fault("timeout")
    /\ At(a, Interruptible)
    /\ Finally(a)
    /\ Move(a, "returned")
    /\ UNCHANGED <<req, queue, tries>>

(* A statement fails, and with it the commit in `finally`.                 *)
DatabaseError(a) ==
    /\ Fault("database")
    /\ At(a, Interruptible)
    /\ Move(a, "returned")
    /\ UNCHANGED <<plans, intermediate, req, queue, tries>>

(* The worker is stopped while it runs this delivery: it comes again.      *)
WorkerShutdown(a) ==
    /\ Fault("shutdown")
    /\ At(a, Interruptible)
    /\ Finally(a)
    /\ ex' = [ex EXCEPT ![a] = Idle]
    /\ UNCHANGED <<req, queue, tries>>

WorkerCrash ==
    /\ Fault("crash")
    /\ \E a \in Approval : ~At(a, {"idle"})
    /\ ex' = [a \in Approval |-> Idle]
    /\ UNCHANGED <<plans, intermediate, req, queue, tries>>

(* The approve request dies between its commit and its enqueue.            *)
EnqueueLost(a) ==
    /\ Fault("api")
    /\ req[a].pc = "committed"
    /\ req' = [req EXCEPT ![a].pc = "done"]
    /\ UNCHANGED <<plans, intermediate, queue, tries, ex>>

-----------------------------------------------------------------------------
Approve(a) == ApproveReject(a) \/ ApproveCommit(a) \/ ApproveEnqueue(a)
Arq(a) == ArqStart(a) \/ ArqGiveUp(a) \/ ArqFinish(a)
Execute(a) == \/ ExecLoad(a) \/ ExecStart(a) \/ ExecStep(a) \/ ExecStepRaises(a)
              \/ ExecRecord(a) \/ ExecSucceed(a) \/ ExecFail(a)

FaultStep ==
    \/ WorkerCrash
    \/ \E a \in Approval : \/ PlanTimeout(a) \/ DatabaseError(a)
                           \/ WorkerShutdown(a) \/ EnqueueLost(a)

Quiescent ==
    /\ \A p \in Plan : plans[p].status # "absent"
    /\ \A a \in Approval : req[a].pc = "done" /\ a \notin queue

Terminating == Quiescent /\ UNCHANGED vars

Next ==
    \/ \E p \in Plan : Propose(p)
    \/ \E a \in Approval : ApproveLoad(a) \/ Approve(a) \/ Arq(a) \/ Execute(a)
    \/ FaultStep
    \/ Terminating

(* The API finishes a request it has begun; arq and the worker go on.      *)
Fairness == \A a \in Approval : WF_vars(Approve(a)) /\ WF_vars(Arq(a)) /\ WF_vars(Execute(a))

Spec == Init /\ [][Next]_vars
FairSpec == Spec /\ Fairness

-----------------------------------------------------------------------------
PlanRow == [status : Status, error : BOOLEAN, runs : StepRuns, finals : SUBSET JobId]
Request == [pc : {"idle", "loaded", "committed", "done"}, plan : Plan, status : Status]
Execution == [pc : Interruptible \cup {"idle", "returned"}, status : Status,
              rowRuns : StepRuns, rowFinals : SUBSET JobId, runs : StepRuns]

(* Every variable has its type.                                            *)
TypeOK ==
    /\ plans \in [Plan -> PlanRow]
    /\ intermediate \subseteq JobId
    /\ req \in [Approval -> Request]
    /\ queue \subseteq Approval
    /\ tries \in [Approval -> 0..MaxTries]
    /\ ex \in [Approval -> Execution]
    /\ faults \in Nat

(* However many executions of a plan overlap, repeat or are cut short, a   *)
(* result of a plan is never an asset flagged as intermediate.             *)
ResultsAreNotIntermediate ==
    \A p \in Plan : plans[p].finals \cap intermediate = {}

(* A plan delivered again and again, but approved once, that says it       *)
(* succeeded lists one complete execution, none of whose steps failed,     *)
(* every reference of which had an output to resolve to, and exactly that  *)
(* execution's unconsumed outputs.                                         *)
OneExecution(p) ==
    LET runs == plans[p].runs IN
    /\ Len(runs) = Steps
    /\ \E a \in Approval, t \in 1..MaxTries :
         \A i \in StepId : runs[i].job = <<a, t, i>> /\ runs[i].status # "failed"
    /\ \A i \in StepId : \A k \in Refs[i] : HasOutput(runs, k)
    /\ plans[p].finals = OutputsOf(runs, StepId \ Consumed)

SuccessIsOneExecution ==
    \A p \in Plan : plans[p].status = "succeeded" => OneExecution(p)

(* Where deliveries only come again, every approved plan ends as succeeded *)
(* or failed.                                                              *)
ApprovedPlanSettles == \A p \in Plan : plans[p].status = "approved" ~> plans[p].status \in Settled

-----------------------------------------------------------------------------
(* What the source says and the code does not keep.                        *)

(* "Plan ... is not approvable (status=...)" (services/agent.py): only a   *)
(* proposed or failed plan becomes approved.                               *)
OnlyApprovableApproved ==
    [][\A p \in Plan : plans'[p].status = "approved" /\ plans[p].status # "approved" =>
                       plans[p].status \in Approvable]_vars
=============================================================================
