---------------------------- MODULE PlansProofs ----------------------------
(* What holds of AgentPlans, and then of PlanJobs, for every set of plans, *)
(* approvals and cancel requests, every shape of a plan, every limit and   *)
(* every choice of faults.                                                 *)
EXTENDS PlanJobs, TLAPS

(* The steps of Next, one by one: each theorem about a step splits on it.  *)
LEMMA NextSteps ==
    ASSUME [Next]_vars
    PROVE  \/ \E p \in Plan : Propose(p)
           \/ \E a \in Approval :
                \/ ApproveLoad(a) \/ ApproveReject(a) \/ ApproveCommit(a) \/ ApproveEnqueue(a)
                \/ ArqStart(a) \/ ArqGiveUp(a) \/ ArqFinish(a)
                \/ ExecLoad(a) \/ ExecStart(a) \/ ExecStep(a) \/ ExecStepRaises(a)
                \/ ExecRecord(a) \/ ExecSucceed(a) \/ ExecFail(a)
                \/ PlanTimeout(a) \/ DatabaseError(a) \/ WorkerShutdown(a) \/ EnqueueLost(a)
           \/ WorkerCrash
           \/ UNCHANGED vars
<1>1. CASE Next
  <2>1. CASE \E a \in Approval : ApproveLoad(a) \/ Approve(a) \/ Arq(a) \/ Execute(a)
        BY <2>1 DEF Approve, Arq, Execute
  <2>2. CASE FaultStep
        BY <2>2 DEF FaultStep
  <2>3. CASE Terminating
        BY <2>3 DEF Terminating
  <2> QED
      BY <1>1, <2>1, <2>2, <2>3 DEF Next
<1>2. CASE UNCHANGED vars
      BY <1>2
<1> QED
    BY <1>1, <1>2

-----------------------------------------------------------------------------
(* Types.  A delivery that is under way has been counted: that is why the  *)
(* jobs it makes are named by tries there are.                             *)
Counted == \A a \in Approval : ex[a].pc # "idle" => tries[a] \in 1..MaxTries

TypeInv == TypeOK /\ Counted

(* No step runs are a sequence of step runs.                               *)
LEMMA EmptyRuns == <<>> \in StepRuns
BY DEF StepRuns

(* An execution that has not begun has the type.                           *)
LEMMA IdleIsExecution == Idle \in Execution
BY EmptyRuns DEF Idle, Execution, Status

(* An execution that only moves to another place keeps its type.           *)
LEMMA MoveType ==
    ASSUME TypeOK, NEW a \in Approval, NEW place \in Interruptible \cup {"idle", "returned"},
           Move(a, place)
    PROVE  ex' \in [Approval -> Execution]
BY DEF Move, TypeOK, Execution

(* What an approval's execution and its plan's row hold.                   *)
LEMMA FieldTypes ==
    ASSUME TypeOK, NEW a \in Approval
    PROVE  /\ PlanOf(a) \in Plan /\ plans[PlanOf(a)] \in PlanRow
           /\ plans[PlanOf(a)].status \in Status /\ plans[PlanOf(a)].runs \in StepRuns
           /\ plans[PlanOf(a)].finals \in SUBSET JobId
           /\ ex[a] \in Execution
           /\ ex[a].runs \in StepRuns /\ ex[a].rowRuns \in StepRuns
           /\ ex[a].rowFinals \in SUBSET JobId
<1>1. PlanOf(a) \in Plan
      BY DEF TypeOK, PlanOf, Request
<1>2. plans[PlanOf(a)] \in PlanRow /\ ex[a] \in Execution
      BY <1>1 DEF TypeOK
<1> QED
    BY <1>1, <1>2 DEF PlanRow, Execution

(* The outputs of a sequence of step runs are jobs.                        *)
LEMMA OutputsAreJobs ==
    ASSUME NEW runs \in StepRuns, NEW steps
    PROVE  OutputsOf(runs, steps) \in SUBSET JobId
<1> SUFFICES ASSUME NEW k \in steps, HasOutput(runs, k) PROVE runs[k].job \in JobId
    BY DEF OutputsOf
<1>1. runs[k] \in StepRun
      BY DEF HasOutput, StepRuns
<1> QED
    BY <1>1 DEF StepRun

(* The columns of a plan's row that an UPDATE writes.                      *)
LEMMA WrittenRuns ==
    ASSUME TypeOK, NEW a \in Approval
    PROVE  Written(plans[PlanOf(a)].runs, ex[a].rowRuns, ex[a].runs) \in StepRuns
BY FieldTypes DEF Written

(* What the finally clause writes has its type.                            *)
LEMMA FinallyType ==
    ASSUME TypeOK, NEW a \in Approval, Finally(a)
    PROVE  plans' \in [Plan -> PlanRow] /\ intermediate' \subseteq JobId
<1>1. plans' \in [Plan -> PlanRow]
      BY WrittenRuns DEF Finally, TypeOK, PlanRow
<1>2. OutputsOf(ex[a].runs, Consumed) \in SUBSET JobId
      BY OutputsAreJobs, FieldTypes
<1>3. intermediate' \subseteq JobId
      BY <1>2 DEF Finally, FlagSome, TypeOK
<1> QED
    BY <1>1, <1>3

(* At first every variable has its type and every approval its delivery    *)
(* counted.                                                                *)
LEMMA InitType == Init => TypeInv
<1> SUFFICES ASSUME Init PROVE TypeInv
    OBVIOUS
<1>1. NoPlan \in PlanRow
      BY EmptyRuns DEF NoPlan, PlanRow, Status
<1>2. TypeOK
      BY <1>1, IdleIsExecution, TriesAssumption DEF Init, TypeOK, Request, Status
<1> QED
    BY <1>2 DEF Init, TypeInv, Counted, Idle

(* No step, whoever takes it, gives a variable a value of another type.    *)
LEMMA NextType == TypeInv /\ [Next]_vars => TypeInv'
<1> SUFFICES ASSUME TypeInv, [Next]_vars PROVE TypeInv'
    OBVIOUS
<1>t. TypeOK /\ Counted
      BY DEF TypeInv
<1>i. Idle \in Execution
      BY IdleIsExecution
<1>1. ASSUME NEW p \in Plan, Propose(p) PROVE TypeInv'
  <2>1. plans' \in [Plan -> PlanRow]
        BY <1>1, <1>t DEF Propose, TypeOK, PlanRow, Status
  <2> QED
      BY <1>1, <1>t, <2>1 DEF Propose, TypeInv, TypeOK, Counted
<1>2. ASSUME NEW a \in Approval, ApproveLoad(a) \/ ApproveReject(a) \/ ApproveEnqueue(a)
                                 \/ EnqueueLost(a)
      PROVE  TypeInv'
  <2>1. plans[PlanOf(a)].status \in Status
        BY <1>t, FieldTypes
  <2> QED
      BY <1>2, <1>t, <2>1 DEF ApproveLoad, ApproveReject, ApproveEnqueue, EnqueueLost, Fault,
                              TypeInv, TypeOK, Counted, Request
<1>3. ASSUME NEW a \in Approval, ApproveCommit(a) PROVE TypeInv'
  <2>1. plans' \in [Plan -> PlanRow]
        BY <1>3, <1>t DEF ApproveCommit, TypeOK, PlanRow, Status
  <2> QED
      BY <1>3, <1>t, <2>1 DEF ApproveCommit, TypeInv, TypeOK, Counted, Request
<1>4. ASSUME NEW a \in Approval, ArqStart(a) PROVE TypeInv'
  <2>1. tries[a] + 1 \in 1..MaxTries
        BY <1>4, <1>t, TriesAssumption DEF ArqStart, TypeOK
  <2>2. ex' \in [Approval -> Execution]
        BY <1>4, <1>t, MoveType DEF ArqStart, Interruptible
  <2> QED
      BY <1>4, <1>t, <2>1, <2>2 DEF ArqStart, Move, TypeInv, TypeOK, Counted
<1>5. ASSUME NEW a \in Approval, ArqGiveUp(a) PROVE TypeInv'
      BY <1>5, <1>t DEF ArqGiveUp, TypeInv, TypeOK, Counted
<1>6. ASSUME NEW a \in Approval, ArqFinish(a) PROVE TypeInv'
      BY <1>6, <1>t, <1>i DEF ArqFinish, TypeInv, TypeOK, Counted, Execution, Idle
<1>7. ASSUME NEW a \in Approval, ExecLoad(a) PROVE TypeInv'
  <2> DEFINE planned == plans[PlanOf(a)]
             seen == [ex[a] EXCEPT !.pc = "loaded", !.status = planned.status,
                                   !.rowRuns = planned.runs, !.rowFinals = planned.finals]
  <2>1. seen \in Execution
        BY <1>t, FieldTypes DEF Execution, Interruptible
  <2>3. ex' = [ex EXCEPT ![a] = seen]
        BY <1>7, <1>t DEF ExecLoad, TypeOK, Execution
  <2>2. ex' \in [Approval -> Execution]
        BY <2>1, <2>3, <1>t DEF TypeOK
  <2> QED
      BY <1>7, <1>t, <2>2 DEF ExecLoad, At, TypeInv, TypeOK, Counted
<1>8. ASSUME NEW a \in Approval, ExecStart(a) PROVE TypeInv'
  <2> DEFINE status == Written(plans[PlanOf(a)].status, ex[a].status, "running")
             begun == [plans[PlanOf(a)] EXCEPT !.status = status]
             going == [ex[a] EXCEPT !.pc = "steps", !.status = "running"]
  <2>1. status \in Status /\ plans[PlanOf(a)] \in PlanRow /\ ex[a] \in Execution
        BY <1>t, FieldTypes DEF Written, Status
  <2>2. plans' = [plans EXCEPT ![PlanOf(a)] = begun]
        BY <1>8, <1>t DEF ExecStart
  <2>3. ex' = [ex EXCEPT ![a] = going]
        BY <1>8, <1>t DEF ExecStart
  <2> HIDE DEF status
  <2>4. begun \in PlanRow
        BY <2>1 DEF PlanRow
  <2>5. going \in Execution
        BY <2>1 DEF Execution, Interruptible, Status
  <2> HIDE DEF begun, going
  <2>6. plans' \in [Plan -> PlanRow]
        BY <1>t, <2>2, <2>4 DEF TypeOK
  <2>7. ex' \in [Approval -> Execution]
        BY <1>t, <2>3, <2>5 DEF TypeOK
  <2> QED
      BY <1>8, <1>t, <2>6, <2>7 DEF ExecStart, At, TypeInv, TypeOK, Counted
<1>9. ASSUME NEW a \in Approval, ExecStep(a) PROVE TypeInv'
  <2>1. PICK status \in {"succeeded", "failed", "cancelled"}, out \in BOOLEAN :
               RecordStep(a, status, out)
        BY <1>9 DEF ExecStep
  <2> DEFINE run == [job |-> <<a, tries[a], Step(a)>>, status |-> status, out |-> out]
  <2>2. run \in StepRun
        BY <1>9, <1>t DEF ExecStep, At, Counted, StepRun, JobId
  <2>3. Append(ex[a].runs, run) \in StepRuns
        BY <1>t, <2>2, FieldTypes DEF StepRuns
  <2>4. ex' = [ex EXCEPT ![a].pc = "record", ![a].runs = Append(@, run)]
        BY <2>1 DEF RecordStep
  <2> HIDE DEF run
  <2>5. ex' \in [Approval -> Execution]
        BY <1>t, <2>3, <2>4 DEF TypeOK, Execution, Interruptible
  <2> QED
      BY <1>9, <1>t, <2>4, <2>5 DEF ExecStep, At, TypeInv, TypeOK, Counted
<1>10. ASSUME NEW a \in Approval, ExecStepRaises(a) PROVE TypeInv'
  <2>1. ex' \in [Approval -> Execution]
        BY <1>10, <1>t, MoveType DEF ExecStepRaises, Interruptible
  <2>2. TypeOK'
        BY <1>10, <1>t, <2>1 DEF ExecStepRaises, TypeOK
  <2>3. ex[a].pc # "idle" /\ \A b \in Approval : b # a => ex'[b] = ex[b]
        BY <1>10, <1>t DEF ExecStepRaises, Move, At, TypeOK
  <2>4. Counted'
        BY <1>10, <1>t, <2>3 DEF ExecStepRaises, Counted
  <2> QED
      BY <2>2, <2>4 DEF TypeInv
<1>11. ASSUME NEW a \in Approval, ExecRecord(a) PROVE TypeInv'
  <2>1. plans' \in [Plan -> PlanRow]
        BY <1>11, <1>t, WrittenRuns DEF ExecRecord, TypeOK, PlanRow
  <2>2. ex' \in [Approval -> Execution]
    <3>1. PICK place \in {"failing", "steps"} :
             ex' = [ex EXCEPT ![a].rowRuns = ex[a].runs, ![a].pc = place]
          BY <1>11 DEF ExecRecord
    <3>2. ex[a] \in Execution
          BY <1>t, FieldTypes
    <3>3. [ex[a] EXCEPT !.rowRuns = ex[a].runs, !.pc = place] \in Execution
          BY <3>2 DEF Execution, Interruptible
    <3> QED
        BY <1>t, <3>1, <3>3 DEF TypeOK
  <2> QED
      BY <1>11, <1>t, <2>1, <2>2 DEF ExecRecord, At, TypeInv, TypeOK, Counted
<1>12. ASSUME NEW a \in Approval, ExecSucceed(a) PROVE TypeInv'
  <2>1. /\ OutputsOf(ex[a].runs, StepId \ Consumed) \in SUBSET JobId
        /\ OutputsOf(ex[a].runs, Consumed) \in SUBSET JobId
        BY <1>t, OutputsAreJobs, FieldTypes
  <2>2. plans' \in [Plan -> PlanRow]
        BY <1>12, <1>t, <2>1, FieldTypes DEF ExecSucceed, Written, TypeOK, PlanRow, Status
  <2>3. ex' \in [Approval -> Execution]
        BY <1>12, <1>t, MoveType DEF ExecSucceed
  <2>4. TypeOK'
        BY <1>12, <1>t, <2>1, <2>2, <2>3 DEF ExecSucceed, TypeOK
  <2>5. ex[a].pc # "idle" /\ \A b \in Approval : b # a => ex'[b] = ex[b]
        BY <1>12, <1>t DEF ExecSucceed, Move, At, TypeOK
  <2>6. Counted'
        BY <1>12, <1>t, <2>5 DEF ExecSucceed, Counted
  <2> QED
      BY <2>4, <2>6 DEF TypeInv
<1>13. ASSUME NEW a \in Approval, ExecFail(a) PROVE TypeInv'
  <2>1. plans' \in [Plan -> PlanRow]
    <3> DEFINE p == PlanOf(a)
               runs == Written(plans[p].runs, ex[a].rowRuns, ex[a].runs)
    <3>1. p \in Plan /\ plans[p] \in PlanRow /\ runs \in StepRuns
          BY <1>t, WrittenRuns, FieldTypes
    <3>2. [plans[p] EXCEPT !.status = "failed", !.error = TRUE, !.runs = runs] \in PlanRow
          BY <3>1 DEF PlanRow, Status
    <3>3. plans' = [plans EXCEPT ![p] =
                      [plans[p] EXCEPT !.status = "failed", !.error = TRUE, !.runs = runs]]
          BY <1>13, <3>1 DEF ExecFail, TypeOK
    <3> QED
        BY <1>t, <3>1, <3>2, <3>3 DEF TypeOK
  <2>2. ex' \in [Approval -> Execution]
        BY <1>13, <1>t, MoveType DEF ExecFail
  <2> QED
      BY <1>13, <1>t, <2>1, <2>2 DEF ExecFail, Move, At, TypeInv, TypeOK, Counted
<1>14. ASSUME NEW a \in Approval, PlanTimeout(a) \/ WorkerShutdown(a) PROVE TypeInv'
  <2>1. plans' \in [Plan -> PlanRow] /\ intermediate' \subseteq JobId
        BY <1>14, <1>t, FinallyType DEF PlanTimeout, WorkerShutdown
  <2>2. ex' \in [Approval -> Execution]
        BY <1>14, <1>t, <1>i, MoveType DEF PlanTimeout, WorkerShutdown, TypeOK, Execution
  <2>3. Counted'
        BY <1>14, <1>t DEF PlanTimeout, WorkerShutdown, Move, At, Interruptible, TypeOK, Counted,
                           Idle
  <2> QED
      BY <1>14, <1>t, <2>1, <2>2, <2>3
      DEF PlanTimeout, WorkerShutdown, Fault, TypeInv, TypeOK
<1>15. ASSUME NEW a \in Approval, DatabaseError(a) PROVE TypeInv'
  <2>1. ex' \in [Approval -> Execution]
        BY <1>15, <1>t, MoveType DEF DatabaseError
  <2> QED
      BY <1>15, <1>t, <2>1
      DEF DatabaseError, Fault, Move, At, Interruptible, TypeInv, TypeOK, Counted
<1>16. CASE WorkerCrash
       BY <1>16, <1>t, <1>i DEF WorkerCrash, Fault, TypeInv, TypeOK, Counted, Execution, Idle
<1>17. CASE UNCHANGED vars
       BY <1>17, <1>t DEF vars, TypeInv, TypeOK, Counted
<1> QED
    BY NextSteps, <1>1, <1>2, <1>3, <1>4, <1>5, <1>6, <1>7, <1>8, <1>9, <1>10, <1>11, <1>12,
       <1>13, <1>14, <1>15, <1>16, <1>17

(* Every variable of AgentPlans keeps its type.                            *)
THEOREM TypeCorrect == Spec => []TypeOK
<1>1. TypeInv => TypeOK
      BY DEF TypeInv
<1> QED
    BY InitType, NextType, <1>1, PTL DEF Spec

-----------------------------------------------------------------------------
(* What one approval does, whether its request, its delivery or its        *)
(* execution does it, leaves the other approvals and other plans alone.    *)
Of(a) == \/ ApproveLoad(a) \/ ApproveReject(a) \/ ApproveCommit(a) \/ ApproveEnqueue(a)
         \/ ArqStart(a) \/ ArqGiveUp(a) \/ ArqFinish(a)
         \/ ExecLoad(a) \/ ExecStart(a) \/ ExecStep(a) \/ ExecStepRaises(a)
         \/ ExecRecord(a) \/ ExecSucceed(a) \/ ExecFail(a)
         \/ PlanTimeout(a) \/ DatabaseError(a) \/ WorkerShutdown(a) \/ EnqueueLost(a)

Aside(a) ==
    /\ \A b \in Approval \ {a} : /\ req'[b] = req[b] /\ ex'[b] = ex[b] /\ tries'[b] = tries[b]
                                 /\ b \in queue' <=> b \in queue
    /\ \A p \in Plan \ {PlanOf(a)} : plans'[p] = plans[p]
    /\ req'[a].plan = req[a].plan

(* A step of one approval leaves the requests, executions and deliveries   *)
(* of the others alone, and all plans but its own.                         *)
LEMMA OthersAside ==
    ASSUME TypeOK, NEW a \in Approval, Of(a)
    PROVE  Aside(a)
<1>1. PlanOf(a) \in Plan
      BY FieldTypes
<1>2. CASE ApproveLoad(a) \/ ApproveReject(a) \/ ApproveCommit(a) \/ ApproveEnqueue(a)
           \/ EnqueueLost(a)
      BY <1>1, <1>2 DEF TypeOK, Request, ApproveLoad, ApproveReject, ApproveCommit,
                        ApproveEnqueue, EnqueueLost, Aside
<1>3. CASE ArqStart(a) \/ ArqGiveUp(a) \/ ArqFinish(a)
      BY <1>1, <1>3 DEF TypeOK, ArqStart, ArqGiveUp, ArqFinish, Move, Aside
<1>4. CASE ExecLoad(a) \/ ExecStart(a) \/ ExecStep(a) \/ ExecStepRaises(a)
      BY <1>1, <1>4 DEF TypeOK, ExecLoad, ExecStart, ExecStep, RecordStep, ExecStepRaises, Move,
                        Aside
<1>5. CASE ExecRecord(a) \/ ExecSucceed(a) \/ ExecFail(a)
      BY <1>1, <1>5 DEF TypeOK, ExecRecord, ExecSucceed, ExecFail, Move, Aside
<1>6. CASE PlanTimeout(a) \/ DatabaseError(a) \/ WorkerShutdown(a)
      BY <1>1, <1>6 DEF TypeOK, PlanTimeout, DatabaseError, WorkerShutdown, Finally, Move, Aside
<1> QED
    BY <1>2, <1>3, <1>4, <1>5, <1>6 DEF Of

-----------------------------------------------------------------------------
(* An execution names the jobs it makes by its delivery, its try and the   *)
(* step, and begins every try with no step done.                           *)
Fresh(a) ==
    /\ ex[a].pc \in {"idle", "popped", "loaded"} => ex[a].runs = <<>>
    /\ \A i \in DOMAIN ex[a].runs : ex[a].runs[i].job = <<a, tries[a], i>>

AllFresh == \A a \in Approval : Fresh(a)

(* At first no execution has made anything.                                *)
LEMMA InitFresh == Init => AllFresh
BY DEF Init, Idle, AllFresh, Fresh

(* Every step keeps what an execution has made its own: of its try and of  *)
(* steps it has done.                                                      *)
LEMMA NextFresh == TypeOK /\ AllFresh /\ [Next]_vars => AllFresh'
<1> SUFFICES ASSUME TypeOK, AllFresh, [Next]_vars PROVE AllFresh'
    OBVIOUS
<1>1. ASSUME NEW a \in Approval, Of(a) PROVE AllFresh'
  <2>1. Fresh(a) /\ ex[a] \in Execution /\ ex[a].runs \in StepRuns
        BY FieldTypes DEF AllFresh
  <2>2. Fresh(a)'
    <3>1. CASE ApproveLoad(a) \/ ApproveReject(a) \/ ApproveCommit(a) \/ ApproveEnqueue(a)
               \/ EnqueueLost(a) \/ ArqGiveUp(a)
          BY <2>1, <3>1 DEF ApproveLoad, ApproveReject, ApproveCommit, ApproveEnqueue,
                            EnqueueLost, ArqGiveUp, Fresh
    <3>2. CASE ArqStart(a) \/ ArqFinish(a)
          BY <2>1, <3>2 DEF TypeOK, ArqStart, ArqFinish, At, Move, Idle, Execution, Fresh
    <3>3. CASE ExecLoad(a) \/ ExecStart(a) \/ ExecStepRaises(a) \/ ExecRecord(a)
          BY <2>1, <3>3 DEF TypeOK, ExecLoad, ExecStart, ExecStepRaises, ExecRecord, At, Move,
                            Execution, Fresh
    <3>4. CASE ExecSucceed(a) \/ ExecFail(a)
      <4>1. Move(a, "returned") /\ tries' = tries
            BY <3>4 DEF ExecSucceed, ExecFail
      <4> QED
          BY <2>1, <4>1 DEF TypeOK, Move, Execution, Fresh
    <3>5. CASE ExecStep(a)
      <4>1. PICK status \in {"succeeded", "failed", "cancelled"}, out \in BOOLEAN :
                   RecordStep(a, status, out)
            BY <3>5 DEF ExecStep
      <4> DEFINE run == [job |-> <<a, tries[a], Step(a)>>, status |-> status, out |-> out]
      <4>2. ex'[a].runs = Append(ex[a].runs, run) /\ ex'[a].pc = "record" /\ tries' = tries
            BY <2>1, <3>5, <4>1 DEF RecordStep, ExecStep, TypeOK, Execution
      <4>3. run.job = <<a, tries[a], Len(ex[a].runs) + 1>>
            BY DEF Step
      <4> HIDE DEF run
      <4> QED
          BY <2>1, <4>2, <4>3 DEF Fresh, StepRuns
    <3>6. CASE PlanTimeout(a) \/ DatabaseError(a) \/ WorkerShutdown(a)
          BY <2>1, <3>6 DEF TypeOK, PlanTimeout, DatabaseError, WorkerShutdown, At, Move, Idle,
                            Interruptible, Execution, Fresh
    <3> QED
        BY <1>1, <3>1, <3>2, <3>3, <3>4, <3>5, <3>6 DEF Of
  <2>3. ASSUME NEW b \in Approval \ {a} PROVE Fresh(b)'
        BY <1>1, <2>3, OthersAside DEF Aside, AllFresh, Fresh
  <2> QED
      BY <2>2, <2>3 DEF AllFresh
<1>2. CASE \E p \in Plan : Propose(p)
      BY <1>2 DEF Propose, AllFresh, Fresh
<1>3. CASE WorkerCrash
      BY <1>3 DEF WorkerCrash, AllFresh, Fresh, Idle
<1>4. CASE UNCHANGED vars
      BY <1>4 DEF vars, AllFresh, Fresh
<1> QED
    BY NextSteps, <1>1, <1>2, <1>3, <1>4 DEF Of

-----------------------------------------------------------------------------
(* Whether a step is consumed is a matter of the plan alone, and its       *)
(* number is in the name of its job: what an execution flags is an output  *)
(* of a consumed step, what it lists as a result is not.                   *)
Sorted ==
    /\ \A p \in Plan : \A j \in plans[p].finals : j[3] \notin Consumed
    /\ \A j \in intermediate : j[3] \in Consumed

(* What the given steps have put out was made by them.                     *)
LEMMA OutputsOfSteps ==
    ASSUME NEW a \in Approval, Fresh(a), NEW steps, NEW j \in OutputsOf(ex[a].runs, steps)
    PROVE  j[3] \in steps
BY DEF OutputsOf, HasOutput, Fresh

(* At first there are no results.                                          *)
LEMMA InitSorted == Init => Sorted
BY DEF Init, NoPlan, Sorted

(* Every step keeps results and intermediate assets apart.                 *)
LEMMA NextSorted == TypeOK /\ AllFresh /\ Sorted /\ [Next]_vars => Sorted'
<1> SUFFICES ASSUME TypeOK, AllFresh, Sorted, [Next]_vars PROVE Sorted'
    OBVIOUS
<1>1. ASSUME NEW p \in Plan, Propose(p) PROVE Sorted'
      BY <1>1 DEF Propose, TypeOK, PlanRow, Sorted
<1>2. ASSUME NEW a \in Approval, ExecSucceed(a) PROVE Sorted'
  <2>1. \A j \in OutputsOf(ex[a].runs, StepId \ Consumed) : j[3] \notin Consumed
        BY OutputsOfSteps DEF AllFresh
  <2>2. \A j \in OutputsOf(ex[a].runs, Consumed) : j[3] \in Consumed
        BY OutputsOfSteps DEF AllFresh
  <2>3. PlanOf(a) \in Plan /\ plans[PlanOf(a)] \in PlanRow
        BY FieldTypes
  <2>4. \A p \in Plan : \/ plans'[p].finals = plans[p].finals
                        \/ plans'[p].finals = OutputsOf(ex[a].runs, StepId \ Consumed)
        BY <1>2, <2>3 DEF ExecSucceed, Written, TypeOK, PlanRow
  <2> QED
      BY <1>2, <2>1, <2>2, <2>4 DEF ExecSucceed, Sorted
<1>3. ASSUME NEW a \in Approval,
             ApproveLoad(a) \/ ApproveReject(a) \/ ApproveCommit(a) \/ ApproveEnqueue(a)
             \/ EnqueueLost(a)
      PROVE  Sorted'
  <2>1. intermediate' = intermediate /\ (plans' = plans \/ ApproveCommit(a))
        BY <1>3 DEF ApproveLoad, ApproveReject, ApproveCommit, ApproveEnqueue, EnqueueLost
  <2>2. \A p \in Plan : plans'[p].finals = plans[p].finals
        BY <2>1, FieldTypes DEF ApproveCommit, TypeOK, PlanRow
  <2> QED
      BY <2>1, <2>2 DEF Sorted
<1>4. ASSUME NEW a \in Approval,
             ArqStart(a) \/ ArqGiveUp(a) \/ ArqFinish(a) \/ ExecLoad(a) \/ ExecStep(a)
             \/ ExecStepRaises(a) \/ DatabaseError(a)
      PROVE  Sorted'
      BY <1>4 DEF ArqStart, ArqGiveUp, ArqFinish, ExecLoad, ExecStep, ExecStepRaises,
                  DatabaseError, Sorted
<1>5. ASSUME NEW a \in Approval, ExecStart(a) \/ ExecRecord(a) \/ ExecFail(a) PROVE Sorted'
  <2>1. \A p \in Plan : plans'[p].finals = plans[p].finals
    <3>1. plans \in [Plan -> PlanRow] /\ PlanOf(a) \in Plan
          BY FieldTypes DEF TypeOK
    <3>2. CASE ExecStart(a)
          BY <3>1, <3>2 DEF ExecStart, PlanRow
    <3>3. CASE ExecRecord(a)
          BY <3>1, <3>3 DEF ExecRecord, PlanRow
    <3>4. CASE ExecFail(a)
          BY <3>1, <3>4 DEF ExecFail, PlanRow
    <3> QED
        BY <1>5, <3>2, <3>3, <3>4
  <2>2. intermediate' = intermediate
        BY <1>5 DEF ExecStart, ExecRecord, ExecFail
  <2> QED
      BY <2>1, <2>2 DEF Sorted
<1>6. ASSUME NEW a \in Approval, PlanTimeout(a) \/ WorkerShutdown(a) PROVE Sorted'
  <2>1. Finally(a)
        BY <1>6 DEF PlanTimeout, WorkerShutdown
  <2>2. \A p \in Plan : plans'[p].finals = plans[p].finals
        BY <2>1, FieldTypes DEF Finally, TypeOK, PlanRow
  <2>3. \A j \in OutputsOf(ex[a].runs, Consumed) : j[3] \in Consumed
        BY OutputsOfSteps DEF AllFresh
  <2>4. \A j \in intermediate' : j \in intermediate \/ j \in OutputsOf(ex[a].runs, Consumed)
        BY <2>1 DEF Finally, FlagSome
  <2> QED
      BY <2>2, <2>3, <2>4 DEF Sorted
<1>7. CASE WorkerCrash \/ UNCHANGED vars
      BY <1>7 DEF WorkerCrash, vars, Sorted
<1> QED
    BY NextSteps, <1>1, <1>2, <1>3, <1>4, <1>5, <1>6, <1>7

(* However executions of a plan overlap, repeat or are cut short, no       *)
(* result of it is flagged as intermediate.                                *)
THEOREM NoResultIntermediate == Spec => []ResultsAreNotIntermediate
<1> DEFINE IInv == TypeInv /\ AllFresh /\ Sorted
<1>1. Init => IInv
      BY InitType, InitFresh, InitSorted
<1>2. IInv /\ [Next]_vars => IInv'
      BY NextType, NextFresh, NextSorted DEF TypeInv
<1>3. IInv => ResultsAreNotIntermediate
      BY DEF Sorted, ResultsAreNotIntermediate
<1> QED
    BY <1>1, <1>2, <1>3, PTL DEF Spec

-----------------------------------------------------------------------------
(* A plan that is approved by one request only.  Its executions follow one *)
(* another, so the row is what the execution under way has seen.           *)
Sole == \A a, b \in Approval : PlanOf(a) = PlanOf(b) => a = b

Begun == {"steps", "record", "failing"}

(* A delivery is the work of a request that has been answered.             *)
Requested(a) ==
    /\ req[a].pc # "idle" => plans[PlanOf(a)].status # "absent"
    /\ a \in queue \/ ex[a].pc # "idle" => req[a].pc = "done"

Seen(a) ==
    LET planned == plans[PlanOf(a)] IN
    /\ ex[a].pc \in Begun \cup {"loaded"} =>
          /\ ex[a].status = planned.status
          /\ ex[a].rowRuns = planned.runs /\ ex[a].rowFinals = planned.finals
    /\ ex[a].pc \in Begun => ex[a].status = "running"
    /\ ex[a].pc = "steps" /\ ex[a].runs # <<>> => planned.runs = ex[a].runs

(* Only the step run recorded last may have failed, and then it is the     *)
(* last of all.                                                            *)
Recorded(a) ==
    LET runs == ex[a].runs IN
    /\ Len(runs) <= Steps
    /\ \A i \in DOMAIN runs : \A k \in Refs[i] : HasOutput(runs, k)
    /\ \A i \in DOMAIN runs : runs[i].status = "failed" =>
          i = Len(runs) /\ ex[a].pc \in {"record", "failing", "returned"}

Orderly(a) == Requested(a) /\ Seen(a) /\ Recorded(a)

OneInv ==
    /\ Sole
    /\ \A a \in Approval : Orderly(a)
    /\ SuccessIsOneExecution

(* At first nothing has succeeded, and nothing was asked for.              *)
LEMMA InitOne == Init /\ Sole => OneInv
BY StepsAssumption
DEF Init, NoPlan, Idle, Begun, OneInv, Orderly, Requested, Seen, Recorded, SuccessIsOneExecution

(* What is true of an approval stays true when another one acts.           *)
LEMMA OthersOrderly ==
    ASSUME TypeOK, Sole, NEW a \in Approval, Aside(a), NEW b \in Approval \ {a}, Orderly(b)
    PROVE  Orderly(b)'
<1>1. PlanOf(b) \in Plan \ {PlanOf(a)}
      BY FieldTypes DEF Sole
<1>2. req'[b] = req[b] /\ ex'[b] = ex[b] /\ plans'[PlanOf(b)] = plans[PlanOf(b)]
      BY <1>1 DEF Aside
<1>3. PlanOf(b)' = PlanOf(b)
      BY <1>2 DEF PlanOf
<1> QED
    BY <1>2, <1>3 DEF Aside, Orderly, Requested, Seen, Recorded

(* A step that leaves the executions and the plans' rows as they are.      *)
LEMMA RequestOrderly ==
    ASSUME TypeOK, NEW a \in Approval, Orderly(a), Aside(a),
           \/ ApproveLoad(a) \/ ApproveReject(a) \/ ApproveCommit(a) \/ ApproveEnqueue(a)
           \/ EnqueueLost(a) \/ ArqGiveUp(a)
    PROVE  Orderly(a)'
<1>1. PlanOf(a)' = PlanOf(a)
      BY DEF Aside, PlanOf
<1>2. ex' = ex
      BY DEF ApproveLoad, ApproveReject, ApproveCommit, ApproveEnqueue, EnqueueLost, ArqGiveUp
<1>3. Recorded(a)'
      BY <1>2 DEF Orderly, Recorded
<1>4. CASE ApproveCommit(a)
  <2>1. plans'[PlanOf(a)].status = "approved" /\ ex[a].pc = "idle" /\ queue' = queue
        BY <1>4, FieldTypes DEF ApproveCommit, Orderly, Requested, TypeOK, PlanRow
  <2>2. Requested(a)'
        BY <1>1, <1>2, <1>4, <2>1 DEF ApproveCommit, Orderly, Requested
  <2> QED
      BY <1>1, <1>2, <1>3, <2>1, <2>2 DEF Orderly, Seen, Begun
<1>5. CASE ~ApproveCommit(a)
  <2>1. plans' = plans
        BY <1>5 DEF ApproveLoad, ApproveReject, ApproveEnqueue, EnqueueLost, ArqGiveUp
  <2>2. Requested(a)'
        BY <1>1, <1>2, <1>5, <2>1
        DEF ApproveLoad, ApproveReject, ApproveEnqueue, EnqueueLost, ArqGiveUp, TypeOK, Request,
            Orderly, Requested
  <2> QED
      BY <1>1, <1>2, <1>3, <2>1, <2>2 DEF Orderly, Seen
<1> QED
    BY <1>4, <1>5

(* An execution is where `place` says, with the step runs it had, and has  *)
(* not read its plan or is through with it.                                *)
LEMMA RestOrderly ==
    ASSUME TypeOK, NEW a \in Approval, Orderly(a), PlanOf(a)' = PlanOf(a),
           req[a].pc = "done", req' = req,
           plans'[PlanOf(a)].status # "absent",
           \/ ex'[a].pc = "returned" /\ ex'[a].runs = ex[a].runs
           \/ ex'[a].pc \in {"idle", "popped"} /\ ex'[a].runs = <<>>
    PROVE  Orderly(a)'
<1>1. Requested(a)' /\ Seen(a)'
      BY DEF Orderly, Requested, Seen, Begun
<1>2. Recorded(a)'
      BY StepsAssumption DEF Orderly, Recorded
<1> QED
    BY <1>1, <1>2 DEF Orderly

(* What is said of a plan's execution depends on two columns of its row.   *)
LEMMA SameExecution ==
    ASSUME NEW p \in Plan, OneExecution(p),
           plans'[p].runs = plans[p].runs, plans'[p].finals = plans[p].finals
    PROVE  OneExecution(p)'
<1>1. /\ Len(plans'[p].runs) = Steps
      /\ \E a \in Approval, t \in 1..MaxTries :
            \A i \in StepId : plans'[p].runs[i].job = <<a, t, i>> /\ plans'[p].runs[i].status # "failed"
      BY DEF OneExecution
<1>2. \A i \in StepId : \A k \in Refs[i] : HasOutput(plans'[p].runs, k)
      BY DEF OneExecution
<1>3. plans'[p].finals = OutputsOf(plans'[p].runs, StepId \ Consumed)
      BY DEF OneExecution
<1> QED
    BY <1>1, <1>2, <1>3 DEF OneExecution

(* Every step keeps what is known of a plan with a single approval.        *)
LEMMA NextOne == TypeInv /\ TypeInv' /\ AllFresh /\ OneInv /\ [Next]_vars => OneInv'
<1> SUFFICES ASSUME TypeInv, TypeInv', AllFresh, OneInv, [Next]_vars PROVE OneInv'
    OBVIOUS
<1>t. TypeOK /\ TypeOK' /\ Counted
      BY DEF TypeInv
<1>0. ASSUME NEW a \in Approval, Of(a), Orderly(a)',
             plans'[PlanOf(a)].status = "succeeded" =>
                \/ OneExecution(PlanOf(a))'
                \/ plans'[PlanOf(a)] = plans[PlanOf(a)]
      PROVE  OneInv'
  <2>1. Aside(a)
        BY <1>0, <1>t, OthersAside
  <2>2. \A b \in Approval : PlanOf(b)' = PlanOf(b)
        BY <2>1 DEF Aside, PlanOf
  <2>3. \A b \in Approval : Orderly(b)'
        BY <1>0, <1>t, <2>1, OthersOrderly DEF OneInv
  <2>4. ASSUME NEW p \in Plan, plans'[p] = plans[p], plans'[p].status = "succeeded"
        PROVE  OneExecution(p)'
        BY <2>4, SameExecution DEF OneInv, SuccessIsOneExecution
  <2>5. ASSUME NEW p \in Plan, plans'[p].status = "succeeded" PROVE OneExecution(p)'
    <3>1. CASE plans'[p] = plans[p]
          BY <2>4, <2>5, <3>1
    <3>2. CASE plans'[p] # plans[p]
      <4>1. p = PlanOf(a)
            BY <2>1, <3>2 DEF Aside
      <4> QED
          BY <1>0, <2>2, <2>5, <3>2, <4>1
    <3> QED
        BY <3>1, <3>2
  <2>6. SuccessIsOneExecution'
        BY <2>5 DEF SuccessIsOneExecution
  <2> QED
      BY <2>2, <2>3, <2>6 DEF OneInv, Sole
<1>1. ASSUME NEW a \in Approval,
             ApproveLoad(a) \/ ApproveReject(a) \/ ApproveCommit(a) \/ ApproveEnqueue(a)
             \/ EnqueueLost(a) \/ ArqGiveUp(a)
      PROVE  OneInv'
  <2>1. Of(a)
        BY <1>1 DEF Of
  <2>2. Orderly(a)'
        BY <1>1, <1>t, <2>1, OthersAside, RequestOrderly DEF OneInv
  <2>3. \/ plans'[PlanOf(a)].status = "approved"
        \/ plans'[PlanOf(a)] = plans[PlanOf(a)]
        BY <1>1, <1>t, FieldTypes DEF ApproveLoad, ApproveReject, ApproveCommit, ApproveEnqueue,
                                      EnqueueLost, ArqGiveUp, TypeOK, PlanRow
  <2> QED
      BY <1>0, <2>1, <2>2, <2>3
<1>2. ASSUME NEW a \in Approval, Of(a), req' = req, a \in queue \/ ex[a].pc # "idle",
             plans'[PlanOf(a)] = plans[PlanOf(a)] \/ plans'[PlanOf(a)].status \in {"running", "failed"},
             \/ ex'[a].pc = "returned" /\ ex'[a].runs = ex[a].runs
             \/ ex'[a].pc \in {"idle", "popped"} /\ ex'[a].runs = <<>>
      PROVE  OneInv'
  <2>1. Orderly(a)
        BY DEF OneInv
  <2>2. req[a].pc = "done" /\ plans[PlanOf(a)].status # "absent"
        BY <1>2, <2>1 DEF Orderly, Requested
  <2>3. Orderly(a)'
        BY <1>2, <1>t, <2>1, <2>2, RestOrderly DEF PlanOf
  <2> QED
      BY <1>0, <1>2, <2>3
<1>3. ASSUME NEW a \in Approval, ArqStart(a) \/ ArqFinish(a) PROVE OneInv'
  <2>1. ex[a] \in Execution /\ Fresh(a)
        BY <1>t, FieldTypes DEF AllFresh
  <2>2. \/ ex'[a].pc = "popped" /\ ex'[a].runs = <<>>
        \/ ex'[a].pc = "idle" /\ ex'[a].runs = <<>>
        BY <1>3, <1>t, <2>1 DEF ArqStart, ArqFinish, At, Move, Idle, TypeOK, Execution, Fresh
  <2>3. /\ req' = req /\ plans' = plans
        /\ a \in queue \/ ex[a].pc # "idle"
        BY <1>3 DEF ArqStart, ArqFinish, At
  <2> QED
      BY <1>2, <1>3, <2>2, <2>3 DEF Of
<1>4. ASSUME NEW a \in Approval, ExecLoad(a) PROVE OneInv'
  <2>1. Orderly(a) /\ Fresh(a) /\ ex[a] \in Execution
        BY <1>t, FieldTypes DEF AllFresh, OneInv
  <2>2. /\ ex'[a].pc = "loaded" /\ ex'[a].runs = ex[a].runs
        /\ ex'[a].status = plans[PlanOf(a)].status
        /\ ex'[a].rowRuns = plans[PlanOf(a)].runs /\ ex'[a].rowFinals = plans[PlanOf(a)].finals
        BY <1>4, <1>t, <2>1 DEF ExecLoad, TypeOK, Execution
  <2>3. req' = req /\ plans' = plans /\ queue' = queue /\ ex[a].pc = "popped"
        BY <1>4 DEF ExecLoad, At
  <2>4. PlanOf(a)' = PlanOf(a) /\ ex[a].runs = <<>>
        BY <2>1, <2>3 DEF PlanOf, Fresh
  <2>5. Requested(a)' /\ Seen(a)'
        BY <2>1, <2>2, <2>3, <2>4 DEF Orderly, Requested, Seen, Begun
  <2>6. Recorded(a)'
        BY <2>2, <2>4, StepsAssumption DEF Recorded
  <2> QED
      BY <1>0, <1>4, <2>3, <2>5, <2>6 DEF Of, Orderly
<1>5. ASSUME NEW a \in Approval, ExecStart(a) PROVE OneInv'
  <2>1. Orderly(a) /\ Fresh(a) /\ ex[a] \in Execution /\ PlanOf(a) \in Plan
        BY <1>t, FieldTypes DEF AllFresh, OneInv
  <2>2. req' = req /\ queue' = queue /\ ex[a].pc = "loaded" /\ PlanOf(a)' = PlanOf(a)
        BY <1>5 DEF ExecStart, At, PlanOf
  <2>3. /\ ex'[a].pc = "steps" /\ ex'[a].runs = ex[a].runs /\ ex'[a].status = "running"
        /\ ex'[a].rowRuns = ex[a].rowRuns /\ ex'[a].rowFinals = ex[a].rowFinals
        BY <1>5, <1>t, <2>1 DEF ExecStart, TypeOK, Execution
  <2>4. /\ plans'[PlanOf(a)].status = Written(plans[PlanOf(a)].status, ex[a].status, "running")
        /\ plans'[PlanOf(a)].runs = plans[PlanOf(a)].runs
        /\ plans'[PlanOf(a)].finals = plans[PlanOf(a)].finals
        BY <1>5, <1>t, <2>1 DEF ExecStart, TypeOK, PlanRow
  <2>5. plans'[PlanOf(a)].status = "running"
        BY <2>1, <2>2, <2>4 DEF Written, Orderly, Seen
  <2>6. ex[a].runs = <<>>
        BY <2>1, <2>2 DEF Fresh
  <2>7. Requested(a)' /\ Seen(a)'
        BY <2>1, <2>2, <2>3, <2>4, <2>5, <2>6 DEF Orderly, Requested, Seen, Begun
  <2>8. Recorded(a)'
        BY <2>3, <2>6, StepsAssumption DEF Recorded
  <2> QED
      BY <1>0, <1>5, <2>5, <2>7, <2>8 DEF Of, Orderly
<1>6. ASSUME NEW a \in Approval, ExecStep(a) PROVE OneInv'
  <2>1. Orderly(a) /\ ex[a] \in Execution /\ ex[a].runs \in StepRuns
        BY <1>t, FieldTypes DEF OneInv
  <2>2. PICK status \in {"succeeded", "failed", "cancelled"}, out \in BOOLEAN :
               RecordStep(a, status, out)
        BY <1>6 DEF ExecStep
  <2> DEFINE run == [job |-> <<a, tries[a], Step(a)>>, status |-> status, out |-> out]
  <2>3. req' = req /\ queue' = queue /\ plans' = plans /\ ex[a].pc = "steps"
        /\ PlanOf(a)' = PlanOf(a) /\ Step(a) \in StepId /\ Resolves(a)
        BY <1>6 DEF ExecStep, At, PlanOf
  <2>4. ex' = [ex EXCEPT ![a].pc = "record", ![a].runs = Append(@, run)]
        BY <2>2 DEF RecordStep
  <2> HIDE DEF run
  <2>5. /\ ex'[a].pc = "record" /\ ex'[a].runs = Append(ex[a].runs, run)
        /\ ex'[a].status = ex[a].status
        /\ ex'[a].rowRuns = ex[a].rowRuns /\ ex'[a].rowFinals = ex[a].rowFinals
        BY <1>t, <2>1, <2>4 DEF TypeOK, Execution
  <2>6. Requested(a)' /\ Seen(a)'
        BY <2>1, <2>3, <2>5 DEF Orderly, Requested, Seen, Begun
  <2>7. Recorded(a)'
    <3> DEFINE old == ex[a].runs
               new == Append(old, run)
    <3>1. /\ Len(new) = Len(old) + 1 /\ DOMAIN new = 1..(Len(old) + 1)
          /\ \A i \in DOMAIN old : i \in DOMAIN new /\ new[i] = old[i]
          BY <2>1 DEF StepRuns
    <3>2. Len(new) <= Steps
          BY <2>3, <3>1, StepsAssumption DEF Step, StepId
    <3>3. \A k : HasOutput(old, k) => HasOutput(new, k)
          BY <3>1 DEF HasOutput
    <3>4. ASSUME NEW i \in DOMAIN new, NEW k \in Refs[i] PROVE HasOutput(new, k)
      <4>1. CASE i \in DOMAIN old
            BY <2>1, <3>3, <3>4, <4>1 DEF Orderly, Recorded
      <4>2. CASE i = Len(old) + 1
            BY <2>3, <3>3, <3>4, <4>2 DEF Resolves, Step
      <4> QED
          BY <2>1, <3>1, <4>1, <4>2 DEF StepRuns
    <3>5. ASSUME NEW i \in DOMAIN new, new[i].status = "failed" PROVE i = Len(new)
      <4>1. i \notin DOMAIN old
            BY <2>1, <2>3, <3>1, <3>5 DEF Orderly, Recorded
      <4> QED
          BY <2>1, <3>1, <4>1 DEF StepRuns
    <3> QED
        BY <2>5, <3>2, <3>4, <3>5 DEF Recorded
  <2> QED
      BY <1>0, <1>6, <2>3, <2>6, <2>7 DEF Of, Orderly
<1>7. ASSUME NEW a \in Approval, ExecStepRaises(a) PROVE OneInv'
  <2>1. Orderly(a) /\ ex[a] \in Execution
        BY <1>t, FieldTypes DEF OneInv
  <2>2. req' = req /\ queue' = queue /\ plans' = plans /\ ex[a].pc = "steps"
        /\ PlanOf(a)' = PlanOf(a)
        BY <1>7 DEF ExecStepRaises, At, PlanOf
  <2>3. /\ ex'[a].pc = "failing" /\ ex'[a].runs = ex[a].runs /\ ex'[a].status = ex[a].status
        /\ ex'[a].rowRuns = ex[a].rowRuns /\ ex'[a].rowFinals = ex[a].rowFinals
        BY <1>7, <1>t, <2>1 DEF ExecStepRaises, Move, TypeOK, Execution
  <2>4. Requested(a)' /\ Seen(a)'
        BY <2>1, <2>2, <2>3 DEF Orderly, Requested, Seen, Begun
  <2>5. Recorded(a)'
        BY <2>1, <2>2, <2>3 DEF Orderly, Recorded
  <2> QED
      BY <1>0, <1>7, <2>2, <2>4, <2>5 DEF Of, Orderly
<1>8. ASSUME NEW a \in Approval, ExecRecord(a) PROVE OneInv'
  <2>1. Orderly(a) /\ ex[a] \in Execution /\ PlanOf(a) \in Plan /\ ex[a].runs \in StepRuns
        BY <1>t, FieldTypes DEF OneInv
  <2> DEFINE last == ex[a].runs[Len(ex[a].runs)]
             next == IF last.status = "failed" THEN "failing" ELSE "steps"
  <2>2. req' = req /\ queue' = queue /\ ex[a].pc = "record" /\ PlanOf(a)' = PlanOf(a)
        BY <1>8 DEF ExecRecord, At, PlanOf
  <2>3. /\ ex'[a].pc = next /\ ex'[a].runs = ex[a].runs /\ ex'[a].status = ex[a].status
        /\ ex'[a].rowRuns = ex[a].runs /\ ex'[a].rowFinals = ex[a].rowFinals
        BY <1>8, <1>t, <2>1 DEF ExecRecord, TypeOK, Execution
  <2>4. /\ plans'[PlanOf(a)].status = plans[PlanOf(a)].status
        /\ plans'[PlanOf(a)].runs = Written(plans[PlanOf(a)].runs, ex[a].rowRuns, ex[a].runs)
        /\ plans'[PlanOf(a)].finals = plans[PlanOf(a)].finals
        BY <1>8, <1>t, <2>1 DEF ExecRecord, TypeOK, PlanRow
  <2>5. plans'[PlanOf(a)].runs = ex[a].runs /\ plans'[PlanOf(a)].status = "running"
        BY <2>1, <2>2, <2>4 DEF Written, Orderly, Seen, Begun
  <2>6. Requested(a)' /\ Seen(a)'
        BY <2>1, <2>2, <2>3, <2>4, <2>5 DEF Orderly, Requested, Seen, Begun
  <2>7. Recorded(a)'
        BY <2>1, <2>2, <2>3 DEF Orderly, Recorded
  <2> QED
      BY <1>0, <1>8, <2>5, <2>6, <2>7 DEF Of, Orderly
<1>9. ASSUME NEW a \in Approval, ExecSucceed(a) PROVE OneInv'
  <2> DEFINE runs == ex[a].runs
             results == OutputsOf(runs, StepId \ Consumed)
  <2>1. Orderly(a) /\ Fresh(a) /\ ex[a] \in Execution /\ PlanOf(a) \in Plan /\ runs \in StepRuns
        BY <1>t, FieldTypes DEF OneInv, AllFresh
  <2>2. req' = req /\ ex[a].pc = "steps" /\ Step(a) \notin StepId /\ PlanOf(a)' = PlanOf(a)
        BY <1>9 DEF ExecSucceed, At, PlanOf
  <2>3. ex'[a].pc = "returned" /\ ex'[a].runs = ex[a].runs
        BY <1>9, <1>t, <2>1 DEF ExecSucceed, Move, TypeOK, Execution
  <2>4. /\ plans'[PlanOf(a)].status = "succeeded"
        /\ plans'[PlanOf(a)].runs = plans[PlanOf(a)].runs
        /\ plans'[PlanOf(a)].finals = Written(plans[PlanOf(a)].finals, ex[a].rowFinals, results)
        BY <1>9, <1>t, <2>1 DEF ExecSucceed, TypeOK, PlanRow
  <2>5. Len(runs) = Steps /\ DOMAIN runs = StepId
        BY <2>1, <2>2, StepsAssumption DEF Orderly, Recorded, Step, StepId, StepRuns
  <2>6. runs # <<>>
        BY <2>5, StepsAssumption
  <2>7. plans'[PlanOf(a)].runs = runs /\ plans'[PlanOf(a)].finals = results
        BY <2>1, <2>2, <2>4, <2>6 DEF Written, Orderly, Seen, Begun
  <2>8. \A i \in StepId : runs[i].job = <<a, tries[a], i>> /\ runs[i].status # "failed"
        BY <2>1, <2>2, <2>5 DEF Fresh, Orderly, Recorded
  <2>9. tries[a] \in 1..MaxTries
        BY <1>t, <2>2 DEF Counted
  <2>10. \A i \in StepId : \A k \in Refs[i] : HasOutput(runs, k)
        BY <2>1, <2>5 DEF Orderly, Recorded
  <2>11. OneExecution(PlanOf(a))'
        BY <2>2, <2>5, <2>7, <2>8, <2>9, <2>10 DEF OneExecution
  <2>12. req[a].pc = "done"
        BY <2>1, <2>2 DEF Orderly, Requested
  <2>13. Orderly(a)'
        BY <1>t, <2>1, <2>2, <2>3, <2>4, <2>12, RestOrderly
  <2> QED
      BY <1>0, <1>9, <2>11, <2>13 DEF Of
<1>10. ASSUME NEW a \in Approval, ExecFail(a) PROVE OneInv'
  <2>1. ex[a] \in Execution /\ PlanOf(a) \in Plan
        BY <1>t, FieldTypes
  <2>2. ex'[a].pc = "returned" /\ ex'[a].runs = ex[a].runs
        BY <1>10, <1>t, <2>1 DEF ExecFail, Move, TypeOK, Execution
  <2>3. plans'[PlanOf(a)].status = "failed"
        BY <1>10, <1>t, <2>1 DEF ExecFail, TypeOK, PlanRow
  <2>4. req' = req /\ ex[a].pc # "idle"
        BY <1>10 DEF ExecFail, At
  <2> QED
      BY <1>2, <1>10, <2>2, <2>3, <2>4 DEF Of
<1>11. ASSUME NEW a \in Approval, PlanTimeout(a) \/ DatabaseError(a) \/ WorkerShutdown(a)
       PROVE  OneInv'
  <2>1. Orderly(a) /\ ex[a] \in Execution /\ PlanOf(a) \in Plan
        BY <1>t, FieldTypes DEF OneInv
  <2>2. \/ ex'[a].pc = "returned" /\ ex'[a].runs = ex[a].runs
        \/ ex'[a].pc = "idle" /\ ex'[a].runs = <<>>
    <3>1. Move(a, "returned") \/ ex' = [ex EXCEPT ![a] = Idle]
          BY <1>11 DEF PlanTimeout, DatabaseError, WorkerShutdown
    <3> QED
        BY <1>t, <2>1, <3>1 DEF Move, Idle, TypeOK, Execution
  <2>3. plans'[PlanOf(a)] = plans[PlanOf(a)] \/ plans'[PlanOf(a)].status = "running"
    <3>1. Finally(a) \/ plans' = plans
          BY <1>11 DEF PlanTimeout, DatabaseError, WorkerShutdown
    <3>2. CASE Finally(a) /\ At(a, Begun)
      <4>1. plans[PlanOf(a)].status = "running"
            BY <2>1, <3>2 DEF Orderly, Seen, At, Begun
      <4>2. plans'[PlanOf(a)].status = plans[PlanOf(a)].status
            BY <1>t, <2>1, <3>2 DEF Finally, Begun, TypeOK, PlanRow
      <4> QED
          BY <4>1, <4>2
    <3>3. CASE Finally(a) /\ ~At(a, Begun)
          BY <3>3 DEF Finally, Begun
    <3> QED
        BY <3>1, <3>2, <3>3
  <2>4. req' = req /\ ex[a].pc # "idle"
        BY <1>11 DEF PlanTimeout, DatabaseError, WorkerShutdown, At, Interruptible
  <2> QED
      BY <1>2, <1>11, <2>2, <2>3, <2>4 DEF Of
<1>12. ASSUME NEW p \in Plan, Propose(p) PROVE OneInv'
  <2>1. /\ req' = req /\ ex' = ex /\ queue' = queue /\ plans[p].status = "absent"
        /\ \A q \in Plan : /\ plans'[q].runs = plans[q].runs
                           /\ plans'[q].finals = plans[q].finals
                           /\ q # p => plans'[q].status = plans[q].status
        /\ plans'[p].status = "proposed"
        BY <1>12, <1>t DEF Propose, TypeOK, PlanRow
  <2>2. ASSUME NEW a \in Approval PROVE Orderly(a)'
    <3>1. Orderly(a) /\ PlanOf(a) \in Plan /\ PlanOf(a)' = PlanOf(a)
          BY <1>t, <2>1, FieldTypes DEF OneInv, PlanOf
    <3>2. Requested(a)'
          BY <2>1, <3>1 DEF Orderly, Requested
    <3>3. ex[a].pc # "idle" => PlanOf(a) # p
          BY <2>1, <3>1 DEF Orderly, Requested
    <3>4. Seen(a)' /\ Recorded(a)'
          BY <2>1, <3>1, <3>3 DEF Orderly, Seen, Recorded, Begun
    <3> QED
        BY <3>2, <3>4 DEF Orderly
  <2>3. ASSUME NEW q \in Plan, plans'[q].status = "succeeded" PROVE OneExecution(q)'
        BY <2>1, <2>3, SameExecution DEF OneInv, SuccessIsOneExecution
  <2>4. SuccessIsOneExecution'
        BY <2>3 DEF SuccessIsOneExecution
  <2> QED
      BY <2>1, <2>2, <2>4 DEF OneInv, Sole, PlanOf
<1>13. CASE WorkerCrash
  <2>1. req' = req /\ plans' = plans /\ queue' = queue /\ ex' = [a \in Approval |-> Idle]
        BY <1>13 DEF WorkerCrash
  <2>2. ASSUME NEW a \in Approval PROVE Orderly(a)'
        BY <2>1, <2>2, StepsAssumption
        DEF OneInv, Orderly, Requested, Seen, Recorded, Begun, Idle, PlanOf
  <2>3. ASSUME NEW p \in Plan, plans'[p].status = "succeeded" PROVE OneExecution(p)'
        BY <2>1, <2>3, SameExecution DEF OneInv, SuccessIsOneExecution
  <2>4. SuccessIsOneExecution'
        BY <2>3 DEF SuccessIsOneExecution
  <2> QED
      BY <2>1, <2>2, <2>4 DEF OneInv, Sole, PlanOf
<1>14. CASE UNCHANGED vars
  <2>1. Sole' /\ \A a \in Approval : Orderly(a)'
        BY <1>14 DEF vars, OneInv, Sole, Orderly, Requested, Seen, Recorded, Begun, PlanOf
  <2>2. ASSUME NEW p \in Plan, plans'[p].status = "succeeded" PROVE OneExecution(p)'
        BY <1>14, <2>2, SameExecution DEF vars, OneInv, SuccessIsOneExecution
  <2>3. SuccessIsOneExecution'
        BY <2>2 DEF SuccessIsOneExecution
  <2> QED
      BY <2>1, <2>3 DEF OneInv
<1> QED
    BY NextSteps, <1>1, <1>3, <1>4, <1>5, <1>6, <1>7, <1>8, <1>9, <1>10, <1>11, <1>12, <1>13,
       <1>14

(* Of plans that are approved once each: one that says it succeeded lists  *)
(* one complete execution and exactly its results, however often the       *)
(* delivery was cut short and came again.                                  *)
THEOREM SuccessOfOneApproval == Spec /\ Sole => []SuccessIsOneExecution
<1> DEFINE IInv == TypeInv /\ AllFresh /\ OneInv
<1>1. Init /\ Sole => IInv
      BY InitType, InitFresh, InitOne
<1>2. IInv /\ [Next]_vars => IInv'
      BY NextType, NextFresh, NextOne DEF TypeInv
<1>3. IInv => SuccessIsOneExecution
      BY DEF OneInv
<1> QED
    BY <1>1, <1>2, <1>3, PTL DEF Spec

-----------------------------------------------------------------------------
(* PlanJobs: with its jobs, a plan is executed as AgentPlans says.         *)

(* The jobs an execution has not come to: those of later tries, and of     *)
(* this try the next step's, unless it is being run, and those after it.   *)
Ahead(j) ==
    LET a == j[1] IN
    \/ j[2] > tries[a]
    \/ /\ j[2] = tries[a] /\ ex[a].pc \in {"popped", "loaded", "steps", "record"}
       /\ j[3] > Step(a) \/ (j[3] = Step(a) /\ stage[a].at = "none")

(* While a step's job is run its references stay resolved, and its row is  *)
(* what the session believes it is, or was cancelled behind its back.      *)
Staged(a) ==
    LET job == row[CurrentJob(a)] IN
    stage[a].at # "none" =>
        /\ ex[a].pc = "steps" /\ Step(a) \in StepId /\ Resolves(a)
        /\ stage[a].at = "created" =>
              stage[a].copy = "queued" /\ job.status \in {"queued", "cancelled"}
        /\ stage[a].at \in {"working", "failing", "final"} =>
              stage[a].copy = "running" /\ job.status \in {"running", "cancelled"}
        /\ stage[a].at # "ending" => ~job.out
        /\ stage[a].at = "ending" =>
              job.status \in {"succeeded", "cancelled"} \/ (job.status = "failed" /\ ~job.out)

JobRow == [status : JobStatus, out : BOOLEAN]
Stage == [at : {"none", "created", "working", "failing", "final", "ending"}, copy : JobStatus]
Cancel == [pc : {"idle", "loaded", "done"}, job : JobId \cup {Unasked.job}, copy : JobStatus]

StepType ==
    /\ row \in [JobId -> JobRow]
    /\ stage \in [Approval -> Stage]
    /\ stop \in [StepCancel -> Cancel]

Found(r) == stop[r].pc = "loaded" =>
                stop[r].job \in JobId /\ row[stop[r].job].status # "absent"

StepInv ==
    /\ StepType
    /\ \A j \in JobId : Ahead(j) => row[j] = NoRow
    /\ \A a \in Approval : Staged(a)
    /\ \A r \in StepCancel : Found(r)

(* At first no step has a job.                                             *)
LEMMA InitSteps == StepsInit => StepInv
<1> SUFFICES ASSUME StepsInit PROVE StepInv
    OBVIOUS
<1>1. NoRow \in JobRow /\ NoStage \in Stage /\ Unasked \in Cancel
      BY DEF NoRow, JobRow, NoStage, Stage, Unasked, Cancel, JobStatus
<1>2. StepType
      BY <1>1 DEF StepsInit, StepType
<1> QED
    BY <1>2 DEF StepsInit, StepInv, Staged, Found, NoStage, Unasked

(* The job of the step under way is a job.                                 *)
LEMMA CurrentIsJob ==
    ASSUME TypeInv, NEW a \in Approval, ex[a].pc = "steps", Step(a) \in StepId
    PROVE  /\ CurrentJob(a) \in JobId
           /\ CurrentJob(a)[1] = a /\ CurrentJob(a)[2] = tries[a] /\ CurrentJob(a)[3] = Step(a)
BY DEF TypeInv, Counted, CurrentJob, JobId

-----------------------------------------------------------------------------
(* A step with its job is a step of AgentPlans, or none.                   *)
LEMMA StepMapsToStep == TypeInv /\ StepInv /\ [StepsNext]_allVars => [Next]_vars
<1> SUFFICES ASSUME TypeInv, StepInv, [StepsNext]_allVars PROVE [Next]_vars
    OBVIOUS
<1>1. CASE Users
      BY <1>1 DEF Users, Next, FaultStep
<1>2. ASSUME NEW a \in Approval, Approve(a) \/ Arq(a) PROVE [Next]_vars
      BY <1>2 DEF Next
<1>3. ASSUME NEW a \in Approval, ExecuteSteps(a) PROVE [Next]_vars
  <2>1. ASSUME NEW status \in {"succeeded", "failed", "cancelled"}, NEW out \in BOOLEAN,
               status = "failed" => ~out, stage[a].at # "none", RecordStep(a, status, out),
               UNCHANGED <<plans, intermediate, req, queue, tries, faults>>
        PROVE  [Next]_vars
    <3>1. At(a, {"steps"}) /\ Step(a) \in StepId /\ Resolves(a)
          BY <2>1 DEF StepInv, Staged, At
    <3>2. ExecStep(a)
          BY <2>1, <3>1 DEF ExecStep
    <3> QED
        BY <3>2 DEF Next, Execute
  <2>2. CASE ExecLoad(a) \/ ExecStart(a) \/ ExecRecord(a) \/ ExecSucceed(a) \/ ExecFail(a)
             \/ StepRefused(a) \/ StepNoWorkDir(a)
        BY <2>2 DEF StepRefused, StepNoWorkDir, Next, Execute
  <2>3. CASE StepCreate(a) \/ StepStart(a) \/ StepRaise(a) \/ StepSucceed(a) \/ StepFail(a)
        BY <2>3 DEF StepCreate, StepStart, StepRaise, StepSucceed, StepFail
  <2>4. CASE StepLook(a)
    <3>1. stage[a].at # "none"
          BY <2>4 DEF StepLook, Working
    <3> QED
        BY <2>1, <2>4, <3>1 DEF StepLook
  <2>5. CASE StepEnd(a)
    <3> DEFINE job == row[CurrentJob(a)]
    <3>1. stage[a].at = "ending" /\ ex[a].pc = "steps" /\ Step(a) \in StepId
          BY <2>5 DEF StepEnd, Working, At
    <3>2. job \in JobRow
          BY <3>1, CurrentIsJob DEF StepInv, StepType
    <3>3. /\ job.status \in {"succeeded", "failed", "cancelled"} /\ job.out \in BOOLEAN
          /\ job.status = "failed" => ~job.out
          BY <3>1, <3>2 DEF StepInv, Staged, JobRow
    <3> QED
        BY <2>1, <2>5, <3>1, <3>3 DEF StepEnd
  <2> QED
      BY <1>3, <2>2, <2>3, <2>4, <2>5 DEF ExecuteSteps
<1>4. CASE InterruptSteps
      BY <1>4 DEF InterruptSteps, Next, FaultStep
<1>5. ASSUME NEW r \in StepCancel, CancelLoad(r) \/ CancelReject(r) \/ CancelCommit(r)
      PROVE  [Next]_vars
      BY <1>5 DEF CancelLoad, CancelReject, CancelCommit
<1>6. CASE Terminating
      BY <1>6 DEF Next
<1>7. CASE UNCHANGED allVars
      BY <1>7 DEF allVars
<1> QED
    BY <1>1, <1>2, <1>3, <1>4, <1>5, <1>6, <1>7 DEF StepsNext

-----------------------------------------------------------------------------
(* A step that leaves the jobs alone: it does not touch an execution that  *)
(* is running one, comes to no job it has not made, and begins only tries  *)
(* that were counted.                                                      *)
Outside ==
    /\ UNCHANGED stepVars
    /\ \A a \in Approval : stage[a].at = "none" \/ (ex'[a] = ex[a] /\ tries'[a] = tries[a])
    /\ \A a \in Approval : \/ tries'[a] > tries[a]
                           \/ tries'[a] = tries[a] /\ (ex[a].pc = "idle" => ex'[a].pc = "idle")
    /\ \A j \in JobId : Ahead(j)' => Ahead(j)

(* What happens outside the stages leaves the jobs of the steps in order.  *)
LEMMA OutsideJobs == StepInv /\ Outside => StepInv'
<1> SUFFICES ASSUME StepInv, Outside PROVE StepInv'
    OBVIOUS
<1>1. StepType'
      BY DEF Outside, StepInv, StepType, stepVars
<1>2. ASSUME NEW a \in Approval PROVE Staged(a)'
  <2>1. CASE stage[a].at = "none"
        BY <2>1 DEF Outside, Staged, stepVars
  <2>2. CASE ex'[a] = ex[a] /\ tries'[a] = tries[a]
    <3>1. Step(a)' = Step(a) /\ CurrentJob(a)' = CurrentJob(a)
          BY <2>2 DEF Step, CurrentJob
    <3>2. Resolves(a)' <=> Resolves(a)
          BY <2>2, <3>1 DEF Resolves
    <3> QED
        BY <2>2, <3>1, <3>2 DEF Outside, StepInv, Staged, stepVars
  <2> QED
      BY <2>1, <2>2 DEF Outside
<1>3. \A r \in StepCancel : Found(r)'
      BY DEF Outside, StepInv, Found, stepVars
<1> QED
    BY <1>1, <1>2, <1>3 DEF Outside, StepInv, stepVars

(* What the execution of a step's job does to the job's row: nothing, or   *)
(* it writes the row of the job under way.                                 *)
LEMMA InsideJob ==
    ASSUME TypeInv, StepInv, NEW a \in Approval, UNCHANGED <<vars, stop>>,
           ex[a].pc = "steps", Step(a) \in StepId,
           NEW to \in Stage, to.at # "none", stage' = [stage EXCEPT ![a] = to],
           NEW new \in JobRow, new.status # "absent",
           row' = [row EXCEPT ![CurrentJob(a)] = new],
           Resolves(a),
           to.at = "created" => to.copy = "queued" /\ new.status \in {"queued", "cancelled"},
           to.at \in {"working", "failing", "final"} =>
               to.copy = "running" /\ new.status \in {"running", "cancelled"},
           to.at # "ending" => ~new.out,
           to.at = "ending" =>
               new.status \in {"succeeded", "cancelled"} \/ (new.status = "failed" /\ ~new.out)
    PROVE  StepInv'
<1>0. CurrentJob(a) \in JobId /\ CurrentJob(a)[1] = a /\ CurrentJob(a)[2] = tries[a]
      /\ CurrentJob(a)[3] = Step(a)
      BY CurrentIsJob
<1>1. StepType'
      BY <1>0 DEF StepInv, StepType
<1>2. \A b \in Approval : /\ Step(b)' = Step(b) /\ CurrentJob(b)' = CurrentJob(b)
                          /\ Resolves(b)' <=> Resolves(b)
      BY DEF vars, Step, CurrentJob, Resolves
<1>3. ASSUME NEW b \in Approval PROVE Staged(b)'
  <2>1. CASE b = a
    <3>1. stage'[b] = to /\ row'[CurrentJob(b)'] = new
          BY <1>0, <1>2, <2>1 DEF StepInv, StepType
    <3> QED
        BY <1>2, <2>1, <3>1 DEF Staged, vars
  <2>2. CASE b # a
    <3>1. CurrentJob(b) # CurrentJob(a)
          BY <2>2 DEF CurrentJob
    <3>2. /\ stage'[b] = stage[b]
          /\ row'[CurrentJob(b)'] = row[CurrentJob(b)] \/ CurrentJob(b) \notin JobId
          BY <1>2, <2>2, <3>1 DEF StepInv, StepType
    <3>3. stage[b].at # "none" => CurrentJob(b) \in JobId
          BY CurrentIsJob DEF StepInv, Staged
    <3>4. stage'[b] = stage[b]
          BY <2>2 DEF StepInv, StepType
    <3> QED
        BY <1>2, <3>2, <3>3, <3>4 DEF StepInv, Staged, vars
  <2> QED
      BY <2>1, <2>2
<1>4. ASSUME NEW j \in JobId, Ahead(j)' PROVE row'[j] = NoRow
  <2>1. j[1] \in Approval
        BY DEF JobId
  <2>2. stage'[j[1]] = IF j[1] = a THEN to ELSE stage[j[1]]
        BY <2>1 DEF StepInv, StepType
  <2>3. Ahead(j) /\ j # CurrentJob(a)
        BY <1>0, <1>2, <1>4, <2>1, <2>2 DEF Ahead, vars, TypeInv, TypeOK, JobId, Step, StepId
  <2> QED
      BY <2>3 DEF StepInv, StepType
<1>5. ASSUME NEW r \in StepCancel PROVE Found(r)'
      BY <1>0 DEF StepInv, StepType, Found
<1> QED
    BY <1>1, <1>3, <1>4, <1>5 DEF StepInv

(* The actions of AgentPlans that PlanJobs takes over as they are.         *)
OuterAction ==
    \/ Users
    \/ \E a \in Approval : \/ Approve(a) \/ Arq(a)
                           \/ ExecLoad(a) \/ ExecStart(a) \/ ExecRecord(a)
                           \/ ExecSucceed(a) \/ ExecFail(a) \/ StepRefused(a)
    \/ Terminating \/ UNCHANGED vars

(* The actions taken over from AgentPlans happen outside the stages.       *)
LEMMA OuterOutside ==
    ASSUME TypeInv, StepInv, OuterAction, UNCHANGED stepVars
    PROVE  Outside
<1>t. TypeOK /\ StepType /\ \A a \in Approval : Staged(a)
      BY DEF TypeInv, StepInv
<1>1. CASE Users
  <2>1. ex' = ex /\ tries' = tries
        BY <1>1 DEF Users, Propose, ApproveLoad, EnqueueLost
  <2>2. \A j \in JobId : Ahead(j)' => Ahead(j)
        BY <1>1, <2>1 DEF Ahead, Step, stepVars
  <2> QED
      BY <1>1, <2>1, <2>2 DEF Outside
<1>2. ASSUME NEW a \in Approval, Approve(a) \/ Arq(a) PROVE Outside
  <2>1. Of(a)
        BY <1>2 DEF Approve, Arq, Of
  <2>2. \A b \in Approval \ {a} : ex'[b] = ex[b] /\ tries'[b] = tries[b]
        BY <1>t, <2>1, OthersAside DEF Aside
  <2>3. \/ ex' = ex /\ tries' = tries
        \/ ArqStart(a) \/ ArqFinish(a)
        BY <1>2 DEF Approve, Arq, ApproveReject, ApproveCommit, ApproveEnqueue, ArqGiveUp
  <2>4. (ex'[a] = ex[a] /\ tries'[a] = tries[a]) \/ ex[a].pc # "steps"
        BY <2>3 DEF ArqStart, ArqFinish, At
  <2>5. stage[a].at = "none" \/ (ex'[a] = ex[a] /\ tries'[a] = tries[a])
        BY <1>t, <2>4 DEF Staged
  <2>6. ASSUME NEW j \in JobId, Ahead(j)' PROVE Ahead(j)
    <3>1. j[1] \in Approval /\ j[2] \in Nat
          BY DEF JobId
    <3>2. CASE j[1] # a \/ (ex' = ex /\ tries' = tries)
          BY <1>2, <2>2, <2>6, <3>1, <3>2 DEF Ahead, Step, stepVars
    <3>3. CASE j[1] = a /\ ArqStart(a)
      <4>1. tries'[a] = tries[a] + 1 /\ tries[a] \in Nat
            BY <1>t, <3>3 DEF ArqStart, TypeOK
      <4> QED
          BY <2>6, <3>1, <3>3, <4>1 DEF Ahead
    <3>4. CASE j[1] = a /\ ArqFinish(a)
      <4>1. ex'[a].pc = "idle" /\ tries' = tries
            BY <1>t, <3>4 DEF ArqFinish, Idle, TypeOK
      <4> QED
          BY <2>6, <3>4, <4>1 DEF Ahead
    <3> QED
        BY <2>3, <3>2, <3>3, <3>4
  <2>7. \/ tries'[a] > tries[a]
        \/ tries'[a] = tries[a] /\ (ex[a].pc = "idle" => ex'[a].pc = "idle")
    <3>1. CASE ArqStart(a)
      <4>1. tries'[a] = tries[a] + 1 /\ tries[a] \in Nat
            BY <1>t, <3>1 DEF ArqStart, TypeOK
      <4> QED
          BY <4>1
    <3>2. CASE ArqFinish(a)
          BY <3>2 DEF ArqFinish, At
    <3> QED
        BY <2>3, <3>1, <3>2
  <2> QED
      BY <2>2, <2>5, <2>6, <2>7 DEF Outside
<1>3. ASSUME NEW a \in Approval,
             ExecLoad(a) \/ ExecStart(a) \/ ExecRecord(a) \/ ExecSucceed(a) \/ ExecFail(a)
             \/ StepRefused(a)
      PROVE  Outside
  <2>1. ex[a] \in Execution /\ tries' = tries
        BY <1>3, <1>t, FieldTypes DEF ExecLoad, ExecStart, ExecRecord, ExecSucceed, ExecFail,
                                      StepRefused, ExecStepRaises
  <2>2. \A b \in Approval \ {a} : ex'[b] = ex[b]
        BY <1>3, <1>t, OthersAside DEF Of, Aside, StepRefused
  <2>3. stage[a].at = "none"
        BY <1>3, <1>t DEF Staged, ExecLoad, ExecStart, ExecRecord, ExecSucceed, ExecFail,
                          StepRefused, Working, At
  <2>4. /\ ex'[a].runs = ex[a].runs
        /\ \/ ex[a].pc \in {"popped", "loaded", "record"}
           \/ ex'[a].pc \notin {"popped", "loaded", "steps", "record"}
    <3>1. CASE ExecLoad(a)
          BY <1>t, <2>1, <3>1 DEF ExecLoad, At, TypeOK, Execution
    <3>2. CASE ExecStart(a)
          BY <1>t, <2>1, <3>2 DEF ExecStart, At, TypeOK, Execution
    <3>3. CASE ExecRecord(a)
          BY <1>t, <2>1, <3>3 DEF ExecRecord, At, TypeOK, Execution
    <3>4. CASE ExecSucceed(a) \/ ExecFail(a) \/ StepRefused(a)
      <4>1. Move(a, "returned") \/ Move(a, "failing")
            BY <3>4 DEF ExecSucceed, ExecFail, StepRefused, ExecStepRaises
      <4> QED
          BY <1>t, <2>1, <4>1 DEF Move, TypeOK, Execution
    <3> QED
        BY <1>3, <3>1, <3>2, <3>3, <3>4
  <2>5. ASSUME NEW j \in JobId, Ahead(j)' PROVE Ahead(j)
    <3>1. j[1] \in Approval
          BY DEF JobId
    <3> QED
        BY <1>3, <2>1, <2>2, <2>4, <2>5, <3>1 DEF Ahead, Step, stepVars
  <2>6. ex[a].pc # "idle"
        BY <1>3 DEF ExecLoad, ExecStart, ExecRecord, ExecSucceed, ExecFail, StepRefused, Working, At
  <2> QED
      BY <2>1, <2>2, <2>3, <2>5, <2>6 DEF Outside
<1>4. CASE Terminating \/ UNCHANGED vars
  <2>1. UNCHANGED <<ex, tries>>
        BY <1>4 DEF Terminating, vars
  <2>2. \A j \in JobId : Ahead(j)' => Ahead(j)
        BY <2>1 DEF Ahead, Step, stepVars
  <2> QED
      BY <2>1, <2>2 DEF Outside
<1> QED
    BY <1>1, <1>2, <1>3, <1>4 DEF OuterAction

(* Every step keeps the jobs of the steps in order.                        *)
LEMMA NextStepInv ==
    TypeInv /\ TypeInv' /\ StepInv /\ [StepsNext]_allVars => StepInv'
<1> SUFFICES ASSUME TypeInv, TypeInv', StepInv, [StepsNext]_allVars PROVE StepInv'
    OBVIOUS
<1>t. TypeOK /\ StepType /\ \A a \in Approval : Staged(a)
      BY DEF TypeInv, StepInv
<1>1. CASE OuterAction /\ UNCHANGED stepVars
      BY <1>1, OuterOutside, OutsideJobs
<1>4. ASSUME NEW a \in Approval,
             \/ StepCreate(a) \/ StepStart(a) \/ StepRaise(a)
             \/ (StepLook(a) /\ row[CurrentJob(a)].status # "cancelled")
             \/ StepSucceed(a) \/ StepFail(a)
      PROVE  StepInv'
  <2> DEFINE job == row[CurrentJob(a)]
  <2>1. ex[a].pc = "steps" /\ Step(a) \in StepId /\ UNCHANGED <<vars, stop>>
        BY <1>4 DEF StepCreate, StepStart, StepRaise, StepLook, StepSucceed, StepFail, Working, At
  <2>2. CurrentJob(a) \in JobId /\ job \in JobRow
        BY <1>t, <2>1, CurrentIsJob DEF StepType
  <2>3. CASE StepCreate(a)
    <3> DEFINE to == [at |-> "created", copy |-> "queued"]
               new == [job EXCEPT !.status = "queued"]
    <3>1. job = NoRow
          BY <1>t, <2>1, <2>2, <2>3, CurrentIsJob DEF StepCreate, Working, StepInv, Ahead
    <3>2. to \in Stage /\ new \in JobRow /\ new.status = "queued" /\ ~new.out
      <4>1. ~job.out
            BY <3>1 DEF NoRow
      <4> QED
          BY <2>2, <4>1 DEF Stage, JobRow, JobStatus
    <3>3. Resolves(a) /\ stage' = [stage EXCEPT ![a] = to]
          /\ row' = [row EXCEPT ![CurrentJob(a)] = new]
          BY <1>t, <2>2, <2>3 DEF StepCreate, Reach, StepType
    <3> QED
        BY <2>1, <3>2, <3>3, InsideJob
  <2>4. CASE StepStart(a)
    <3> DEFINE to == [at |-> "working", copy |-> "running"]
               new == [job EXCEPT !.status = Written(@, stage[a].copy, "running")]
    <3>1. stage[a].copy = "queued" /\ ~job.out /\ Resolves(a)
          BY <1>t, <2>4 DEF StepStart, Working, Staged
    <3>2. to \in Stage /\ new \in JobRow /\ new.status = "running" /\ ~new.out
          BY <2>2, <3>1 DEF Stage, JobRow, JobStatus, Written
    <3>3. stage' = [stage EXCEPT ![a] = to] /\ row' = [row EXCEPT ![CurrentJob(a)] = new]
          BY <1>t, <2>2, <2>4 DEF StepStart, Reach, StepType
    <3> QED
        BY <2>1, <3>1, <3>2, <3>3, InsideJob
  <2>5. CASE StepRaise(a)
    <3> DEFINE to == [at |-> "failing", copy |-> stage[a].copy]
    <3>1. /\ stage[a].copy = "running" /\ job.status \in {"running", "cancelled"} /\ ~job.out
          /\ Resolves(a)
          BY <1>t, <2>5 DEF StepRaise, Working, Staged
    <3>2. to \in Stage /\ stage' = [stage EXCEPT ![a] = to]
          BY <2>5, <3>1 DEF StepRaise, Reach, Stage, JobStatus
    <3>3. row' = [row EXCEPT ![CurrentJob(a)] = job]
          BY <1>t, <2>2, <2>5 DEF StepRaise, StepType
    <3> QED
        BY <2>1, <2>2, <3>1, <3>2, <3>3, InsideJob
  <2>6. CASE StepLook(a) /\ job.status # "cancelled"
    <3> DEFINE to == [at |-> "final", copy |-> "running"]
    <3>1. job.status = "running" /\ ~job.out /\ Resolves(a)
          BY <1>t, <2>6 DEF StepLook, Working, Staged
    <3>2. to \in Stage /\ stage' = [stage EXCEPT ![a] = to]
          BY <2>6, <3>1 DEF StepLook, Reach, Stage, JobStatus
    <3>3. row' = [row EXCEPT ![CurrentJob(a)] = job]
          BY <1>t, <2>2, <2>6 DEF StepLook, StepType
    <3> QED
        BY <2>1, <2>2, <3>1, <3>2, <3>3, InsideJob
  <2>7. CASE StepSucceed(a)
    <3>1. PICK out \in BOOLEAN :
             row' = [row EXCEPT ![CurrentJob(a)].status = Written(@, stage[a].copy, "succeeded"),
                                ![CurrentJob(a)].out = out]
          BY <2>7 DEF StepSucceed
    <3> DEFINE to == [at |-> "ending", copy |-> "succeeded"]
               new == [job EXCEPT !.status = Written(@, stage[a].copy, "succeeded"), !.out = out]
    <3>2. stage[a].copy = "running" /\ Resolves(a)
          BY <1>t, <2>7 DEF StepSucceed, Working, Staged
    <3>3. row' = [row EXCEPT ![CurrentJob(a)] = new]
          BY <1>t, <2>2, <3>1 DEF StepType
    <3>4. new \in JobRow /\ new.status = "succeeded"
          BY <2>2, <3>2 DEF JobRow, JobStatus, Written
    <3>5. to \in Stage /\ stage' = [stage EXCEPT ![a] = to]
          BY <2>7 DEF StepSucceed, Reach, Stage, JobStatus
    <3> QED
        BY <2>1, <3>2, <3>3, <3>4, <3>5, InsideJob
  <2>8. CASE StepFail(a)
    <3> DEFINE to == [at |-> "ending", copy |-> "failed"]
               new == [job EXCEPT !.status = Written(@, stage[a].copy, "failed")]
    <3>1. stage[a].copy = "running" /\ ~job.out /\ Resolves(a)
          BY <1>t, <2>8 DEF StepFail, Working, Staged
    <3>2. to \in Stage /\ new \in JobRow /\ new.status = "failed" /\ ~new.out
          BY <2>2, <3>1 DEF Stage, JobRow, JobStatus, Written
    <3>3. stage' = [stage EXCEPT ![a] = to] /\ row' = [row EXCEPT ![CurrentJob(a)] = new]
          BY <1>t, <2>2, <2>8 DEF StepFail, Reach, StepType
    <3> QED
        BY <2>1, <3>1, <3>2, <3>3, InsideJob
  <2> QED
      BY <1>4, <2>3, <2>4, <2>5, <2>6, <2>7, <2>8
<1>5. ASSUME NEW a \in Approval, NEW status, NEW out, RecordStep(a, status, out),
             ex[a].pc = "steps", Step(a) \in StepId,
             stage' = [stage EXCEPT ![a] = NoStage], row' = row, stop' = stop, tries' = tries
      PROVE  StepInv'
  <2> DEFINE run == [job |-> <<a, tries[a], Step(a)>>, status |-> status, out |-> out]
  <2>1. ex' = [ex EXCEPT ![a].pc = "record", ![a].runs = Append(@, run)]
        BY <1>5 DEF RecordStep
  <2> HIDE DEF run
  <2>2. ex[a] \in Execution /\ ex[a].runs \in StepRuns
        BY <1>t, FieldTypes
  <2>3. ex'[a].pc = "record" /\ ex'[a].runs = Append(ex[a].runs, run)
        /\ \A b \in Approval \ {a} : ex'[b] = ex[b]
        BY <1>t, <2>1, <2>2 DEF TypeOK, Execution
  <2>4. Step(a)' = Step(a) + 1 /\ Step(a) \in Nat
        BY <2>2, <2>3 DEF Step, StepRuns
  <2>5. NoStage \in Stage /\ NoStage.at = "none"
        BY DEF NoStage, Stage, JobStatus
  <2>6. stage'[a] = NoStage /\ \A b \in Approval \ {a} : stage'[b] = stage[b]
        BY <1>t, <1>5 DEF StepType
  <2>7. StepType'
        BY <1>t, <1>5, <2>5 DEF StepType
  <2>8. ASSUME NEW b \in Approval PROVE Staged(b)'
    <3>1. CASE b = a
          BY <2>5, <2>6, <3>1 DEF Staged
    <3>2. CASE b # a
      <4>1. Step(b)' = Step(b) /\ CurrentJob(b)' = CurrentJob(b) /\ (Resolves(b)' <=> Resolves(b))
            BY <1>5, <2>3, <3>2 DEF Step, CurrentJob, Resolves
      <4> QED
          BY <1>t, <1>5, <2>3, <2>6, <3>2, <4>1 DEF Staged
    <3> QED
        BY <3>1, <3>2
  <2>9. ASSUME NEW j \in JobId, Ahead(j)' PROVE Ahead(j)
    <3>1. j[1] \in Approval /\ j[3] \in Nat
          BY DEF JobId, StepId
    <3>2. CASE j[1] = a
          BY <1>5, <2>3, <2>4, <2>9, <3>1, <3>2 DEF Ahead
    <3>3. CASE j[1] # a
          BY <1>5, <2>3, <2>6, <2>9, <3>1, <3>3 DEF Ahead, Step
    <3> QED
        BY <3>2, <3>3
  <2> QED
      BY <1>5, <2>7, <2>8, <2>9 DEF StepInv, Found
<1>6. ASSUME NEW a \in Approval,
             (StepLook(a) /\ row[CurrentJob(a)].status = "cancelled") \/ StepEnd(a)
      PROVE  StepInv'
      BY <1>5, <1>6 DEF StepLook, StepEnd, Working, At
<1>7. CASE InterruptSteps
  <2>1. row' = row /\ stop' = stop /\ tries' = tries
        /\ stage' = [a \in Approval |-> IF ex'[a] = ex[a] THEN stage[a] ELSE NoStage]
        BY <1>7 DEF InterruptSteps, WorkerCrash, PlanTimeout, DatabaseError, WorkerShutdown
  <2>2. \A a \in Approval : ex'[a] = ex[a] \/ ex'[a].pc \in {"idle", "returned"}
    <3>1. CASE WorkerCrash
          BY <3>1 DEF WorkerCrash, Idle
    <3>2. ASSUME NEW a \in Approval, PlanTimeout(a) \/ DatabaseError(a) \/ WorkerShutdown(a)
          PROVE  \A b \in Approval : ex'[b] = ex[b] \/ ex'[b].pc \in {"idle", "returned"}
      <4>1. Move(a, "returned") \/ ex' = [ex EXCEPT ![a] = Idle]
            BY <3>2 DEF PlanTimeout, DatabaseError, WorkerShutdown
      <4>2. ex[a] \in Execution
            BY <1>t, FieldTypes
      <4> QED
          BY <1>t, <4>1, <4>2 DEF Move, Idle, TypeOK, Execution
    <3> QED
        BY <1>7, <3>1, <3>2 DEF InterruptSteps
  <2>3. NoStage \in Stage /\ NoStage.at = "none"
        BY DEF NoStage, Stage, JobStatus
  <2>4. StepType'
        BY <1>t, <2>1, <2>3 DEF StepType
  <2>5. ASSUME NEW a \in Approval PROVE Staged(a)'
    <3>1. CASE ex'[a] = ex[a]
      <4>1. Step(a)' = Step(a) /\ CurrentJob(a)' = CurrentJob(a) /\ (Resolves(a)' <=> Resolves(a))
            BY <2>1, <3>1 DEF Step, CurrentJob, Resolves
      <4> QED
          BY <1>t, <2>1, <3>1, <4>1 DEF Staged
    <3>2. CASE ex'[a] # ex[a]
          BY <2>1, <2>3, <3>2 DEF Staged
    <3> QED
        BY <3>1, <3>2
  <2>6. ASSUME NEW j \in JobId, Ahead(j)' PROVE Ahead(j)
    <3>1. j[1] \in Approval
          BY DEF JobId
    <3> QED
        BY <2>1, <2>2, <2>6, <3>1 DEF Ahead, Step
  <2> QED
      BY <2>1, <2>4, <2>5, <2>6 DEF StepInv, Found
<1>8. ASSUME NEW r \in StepCancel, CancelLoad(r) \/ CancelReject(r) PROVE StepInv'
  <2>1. row' = row /\ stage' = stage /\ ex' = ex /\ tries' = tries
        BY <1>8 DEF CancelLoad, CancelReject, vars
  <2>2. /\ stop' \in [StepCancel -> Cancel]
        /\ \A s \in StepCancel : Found(s)'
    <3>1. CASE CancelLoad(r)
      <4>1. PICK j \in JobId :
               /\ row[j].status # "absent"
               /\ stop' = [stop EXCEPT ![r] = [pc |-> "loaded", job |-> j, copy |-> row[j].status]]
            BY <3>1 DEF CancelLoad
      <4>2. row[j].status \in JobStatus
            BY <1>t DEF StepType, JobRow
      <4> QED
          BY <1>t, <2>1, <4>1, <4>2 DEF StepType, StepInv, Found, Cancel
    <3>2. CASE CancelReject(r)
          BY <1>t, <2>1, <3>2 DEF CancelReject, Answered, Unasked, StepType, StepInv, Found, Cancel,
                                  JobStatus
    <3> QED
        BY <1>8, <3>1, <3>2
  <2> QED
      BY <1>t, <2>1, <2>2
      DEF StepInv, StepType, Ahead, Staged, Step, CurrentJob, Resolves, NoRow
<1>9. ASSUME NEW r \in StepCancel, CancelCommit(r) PROVE StepInv'
  <2> DEFINE j == stop[r].job
  <2>1. stage' = stage /\ ex' = ex /\ tries' = tries /\ stop[r].pc = "loaded"
        /\ stop[r].copy \in Cancellable
        BY <1>9 DEF CancelCommit, vars
  <2>2. j \in JobId /\ row[j].status # "absent" /\ row[j] \in JobRow
        BY <1>t, <2>1 DEF StepInv, Found, StepType
  <2>3. row' = [row EXCEPT ![j].status = "cancelled"]
        BY <1>9, <2>1 DEF CancelCommit, Written, Cancellable
  <2>4. row'[j] = [row[j] EXCEPT !.status = "cancelled"] /\ row' \in [JobId -> JobRow]
        /\ \A k \in JobId \ {j} : row'[k] = row[k]
        BY <1>t, <2>2, <2>3 DEF StepType, JobRow, JobStatus
  <2>5. stop' \in [StepCancel -> Cancel] /\ \A s \in StepCancel : Found(s)'
    <3>1. stop' = [stop EXCEPT ![r] = [Unasked EXCEPT !.pc = "done"]]
          BY <1>9 DEF CancelCommit, Answered
    <3>2. [Unasked EXCEPT !.pc = "done"] \in Cancel
          BY DEF Unasked, Cancel, JobStatus
    <3>3. \A s \in StepCancel : stop'[s] = stop[s] \/ stop'[s].pc = "done"
          BY <1>t, <3>1 DEF StepType, Unasked
    <3>4. \A k \in JobId : row[k].status # "absent" => row'[k].status # "absent"
          BY <2>2, <2>4 DEF JobRow
    <3> QED
        BY <1>t, <3>1, <3>2, <3>3, <3>4 DEF StepType, StepInv, Found
  <2>6. ASSUME NEW a \in Approval PROVE Staged(a)'
    <3>1. Step(a)' = Step(a) /\ CurrentJob(a)' = CurrentJob(a) /\ (Resolves(a)' <=> Resolves(a))
          BY <2>1 DEF Step, CurrentJob, Resolves
    <3>2. stage[a].at # "none" => CurrentJob(a) \in JobId
          BY <1>t, CurrentIsJob DEF Staged
    <3>3. CASE CurrentJob(a) = j
      <4>1. row'[CurrentJob(a)].status = "cancelled" /\ row'[CurrentJob(a)].out = row[CurrentJob(a)].out
            BY <2>2, <2>4, <3>3 DEF JobRow
      <4> QED
          BY <1>t, <2>1, <3>1, <4>1 DEF Staged
    <3>4. CASE CurrentJob(a) # j
          BY <1>t, <2>1, <2>4, <3>1, <3>2, <3>4 DEF Staged
    <3> QED
        BY <3>3, <3>4
  <2>7. ASSUME NEW k \in JobId, Ahead(k)' PROVE row'[k] = NoRow
    <3>1. Ahead(k)
          BY <2>1, <2>7 DEF Ahead, Step
    <3>2. row[k] = NoRow
          BY <3>1 DEF StepInv
    <3> QED
        BY <2>2, <2>4, <3>2 DEF NoRow
  <2> QED
      BY <1>t, <2>1, <2>4, <2>5, <2>6, <2>7 DEF StepInv, StepType
<1>10. ASSUME NEW a \in Approval, StepNoWorkDir(a) PROVE StepInv'
  <2>1. /\ row' = row /\ stop' = stop /\ tries' = tries
        /\ stage' = [stage EXCEPT ![a] = NoStage] /\ Move(a, "failing")
        BY <1>10 DEF StepNoWorkDir, ExecStepRaises
  <2>2. /\ ex'[a].pc = "failing" /\ ex'[a].runs = ex[a].runs
        /\ \A b \in Approval \ {a} : ex'[b] = ex[b]
        BY <1>t, <2>1, FieldTypes DEF Move, TypeOK, Execution
  <2>3. NoStage \in Stage /\ NoStage.at = "none"
        BY DEF NoStage, Stage, JobStatus
  <2>4. StepType' /\ stage'[a] = NoStage /\ \A b \in Approval \ {a} : stage'[b] = stage[b]
        BY <1>t, <2>1, <2>3 DEF StepType
  <2>5. ASSUME NEW b \in Approval PROVE Staged(b)'
    <3>1. CASE b = a
          BY <2>3, <2>4, <3>1 DEF Staged
    <3>2. CASE b # a
      <4>1. Step(b)' = Step(b) /\ CurrentJob(b)' = CurrentJob(b) /\ (Resolves(b)' <=> Resolves(b))
            BY <2>1, <2>2, <3>2 DEF Step, CurrentJob, Resolves
      <4> QED
          BY <1>t, <2>1, <2>2, <2>4, <3>2, <4>1 DEF Staged
    <3> QED
        BY <3>1, <3>2
  <2>6. ASSUME NEW j \in JobId, Ahead(j)' PROVE Ahead(j)
    <3>1. j[1] \in Approval
          BY DEF JobId
    <3>2. CASE j[1] = a
          BY <2>1, <2>2, <2>6, <3>2 DEF Ahead
    <3>3. CASE j[1] # a
          BY <2>1, <2>2, <2>4, <2>6, <3>1, <3>3 DEF Ahead, Step
    <3> QED
        BY <3>2, <3>3
  <2> QED
      BY <2>1, <2>4, <2>5, <2>6 DEF StepInv, Found
<1>11. ASSUME NEW a \in Approval, ExecuteSteps(a), ~(OuterAction /\ UNCHANGED stepVars)
       PROVE  StepInv'
       BY <1>4, <1>6, <1>10, <1>11 DEF ExecuteSteps, OuterAction, StepRefused
<1> QED
    BY <1>1, <1>7, <1>8, <1>9, <1>11 DEF StepsNext, OuterAction, allVars

-----------------------------------------------------------------------------
(* The invariant of PlanJobs, with that of AgentPlans.                     *)
JobsInv == TypeInv /\ StepInv

(* The invariant of the module.                                            *)
LEMMA StepsInvariant == StepsSpec => []JobsInv
<1>1. StepsInit => JobsInv
      BY InitType, InitSteps DEF StepsInit, JobsInv
<1>2. JobsInv /\ [StepsNext]_allVars => JobsInv'
      BY StepMapsToStep, NextType, NextStepInv DEF JobsInv
<1> QED
    BY <1>1, <1>2, PTL DEF StepsSpec

(* With the jobs of its steps, created, run, cancelled and read again, a   *)
(* plan does what AgentPlans says of it.                                   *)
THEOREM JobsImplementPlans == StepsSpec => PlansAreExecuted
<1>1. JobsInv /\ [StepsNext]_allVars => [Next]_vars
      BY StepMapsToStep DEF JobsInv
<1>2. StepsInit => Init
      BY DEF StepsInit
<1> QED
    BY <1>1, <1>2, StepsInvariant, PTL DEF StepsSpec, PlansAreExecuted, Spec

(* So a plan of one approval that says it succeeded lists one complete     *)
(* execution whose jobs are all its own.                                   *)
COROLLARY SuccessWithJobs == StepsSpec /\ Sole => []SuccessIsOneExecution
BY JobsImplementPlans, SuccessOfOneApproval, PTL DEF PlansAreExecuted

-----------------------------------------------------------------------------
(* What each part of a step does to a job's row, for the two theorems      *)
(* below.                                                                  *)
Inside(a) ==
    \/ StepCreate(a) \/ StepStart(a) \/ StepRaise(a)
    \/ (StepLook(a) /\ row[CurrentJob(a)].status # "cancelled")
    \/ StepSucceed(a) \/ StepFail(a)

Recording(a) == (StepLook(a) /\ row[CurrentJob(a)].status = "cancelled") \/ StepEnd(a)

(* The steps: one outside the jobs, one inside a job, a recording, a job   *)
(* without a work directory, a stop of the worker, a cancel.               *)
LEMMA StepCases ==
    ASSUME [StepsNext]_allVars
    PROVE  \/ OuterAction /\ UNCHANGED stepVars
           \/ \E a \in Approval : Inside(a) \/ Recording(a) \/ StepNoWorkDir(a)
           \/ InterruptSteps
           \/ \E r \in StepCancel : CancelLoad(r) \/ CancelReject(r) \/ CancelCommit(r)
BY DEF StepsNext, ExecuteSteps, StepRefused, OuterAction, Inside, Recording, allVars

(* A stage inside a step's job writes that job's row only.                 *)
LEMMA InsideWrites ==
    ASSUME JobsInv, NEW a \in Approval, Inside(a)
    PROVE  /\ ex[a].pc = "steps" /\ Step(a) \in StepId /\ ex' = ex /\ tries' = tries
           /\ \A j \in JobId : j # CurrentJob(a) => row'[j] = row[j]
           /\ \A b \in Approval : b # a => stage'[b] = stage[b]
<1>1. ex[a].pc = "steps" /\ Step(a) \in StepId /\ UNCHANGED vars
      BY DEF Inside, StepCreate, StepStart, StepRaise, StepLook, StepSucceed, StepFail, Working, At
<1>2. \A j \in JobId : j # CurrentJob(a) => row'[j] = row[j]
      BY DEF Inside, StepCreate, StepStart, StepRaise, StepLook, StepSucceed, StepFail,
             JobsInv, StepInv, StepType
<1>3. \A b \in Approval : b # a => stage'[b] = stage[b]
      BY DEF Inside, StepCreate, StepStart, StepRaise, StepLook, StepSucceed, StepFail, Reach,
             JobsInv, StepInv, StepType
<1> QED
    BY <1>1, <1>2, <1>3 DEF vars

(* Recording a step moves its own execution on, and no other.              *)
LEMMA RecordingWrites ==
    ASSUME JobsInv, NEW a \in Approval, Recording(a)
    PROVE  /\ ex[a].pc = "steps" /\ ex'[a].pc = "record" /\ stage[a].at \in {"working", "ending"}
           /\ \A b \in Approval : b # a => ex'[b] = ex[b] /\ stage'[b] = stage[b]
           /\ row' = row /\ tries' = tries
           /\ row[CurrentJob(a)].status \in {"succeeded", "failed", "cancelled"}
<1>1. PICK status, out : RecordStep(a, status, out)
      BY DEF Recording, StepLook, StepEnd
<1>2. /\ ex[a].pc = "steps" /\ stage[a].at \in {"working", "ending"} /\ row' = row
      /\ tries' = tries /\ stage' = [stage EXCEPT ![a] = NoStage]
      BY DEF Recording, StepLook, StepEnd, Working, At
<1>3. ex'[a].pc = "record" /\ \A b \in Approval : b # a => ex'[b] = ex[b]
      BY <1>1, FieldTypes DEF RecordStep, JobsInv, TypeInv, TypeOK, Execution
<1>4. \A b \in Approval : b # a => stage'[b] = stage[b]
      BY <1>2 DEF JobsInv, StepInv, StepType
<1>5. row[CurrentJob(a)].status \in {"succeeded", "failed", "cancelled"}
      BY DEF Recording, StepEnd, Working, JobsInv, StepInv, Staged
<1> QED
    BY <1>2, <1>3, <1>4, <1>5

(* A job without a work directory is left as it is, and its plan goes on   *)
(* to fail at the step.                                                    *)
LEMMA NoWorkDirWrites ==
    ASSUME JobsInv, NEW a \in Approval, StepNoWorkDir(a)
    PROVE  /\ row' = row /\ tries' = tries /\ dirless' = dirless \cup {CurrentJob(a)}
           /\ ex[a].pc = "steps" /\ Step(a)' = Step(a)
           /\ ex'[a].pc = "failing" /\ stage[a].at = "working"
           /\ \A b \in Approval : b # a => ex'[b] = ex[b] /\ stage'[b] = stage[b]
<1>1. /\ row' = row /\ tries' = tries /\ dirless' = dirless \cup {CurrentJob(a)}
      /\ ex[a].pc = "steps" /\ stage[a].at = "working" /\ Move(a, "failing")
      /\ stage' = [stage EXCEPT ![a] = NoStage]
      BY DEF StepNoWorkDir, ExecStepRaises, Working, At
<1>2. /\ ex'[a].pc = "failing" /\ ex'[a].runs = ex[a].runs
      /\ \A b \in Approval : b # a => ex'[b] = ex[b]
      BY <1>1, FieldTypes DEF Move, JobsInv, TypeInv, TypeOK, Execution
<1>3. \A b \in Approval : b # a => stage'[b] = stage[b]
      BY <1>1 DEF JobsInv, StepInv, StepType
<1> QED
    BY <1>1, <1>2, <1>3 DEF Step

(* A stop of the worker writes no job: executions that run are cut short.  *)
LEMMA InterruptWrites ==
    ASSUME JobsInv, InterruptSteps
    PROVE  /\ row' = row /\ tries' = tries
           /\ \A a \in Approval : \/ ex'[a] = ex[a] /\ stage'[a] = stage[a]
                                  \/ ex'[a].pc = "idle"
                                  \/ ex'[a].pc = "returned" /\ Faults \cap {"timeout", "database"} # {}
<1>1. row' = row /\ tries' = tries
      /\ stage' = [a \in Approval |-> IF ex'[a] = ex[a] THEN stage[a] ELSE NoStage]
      BY DEF InterruptSteps, WorkerCrash, PlanTimeout, DatabaseError, WorkerShutdown
<1>2. CASE WorkerCrash
      BY <1>1, <1>2 DEF WorkerCrash, Idle
<1>3. ASSUME NEW a \in Approval, PlanTimeout(a) \/ DatabaseError(a), NEW b \in Approval
      PROVE  \/ ex'[b] = ex[b]
             \/ ex'[b].pc = "returned" /\ Faults \cap {"timeout", "database"} # {}
      BY <1>3, FieldTypes
      DEF PlanTimeout, DatabaseError, Fault, Move, JobsInv, TypeInv, TypeOK, Execution
<1>4. ASSUME NEW a \in Approval, WorkerShutdown(a), NEW b \in Approval
      PROVE  ex'[b] = ex[b] \/ ex'[b].pc = "idle"
      BY <1>4 DEF WorkerShutdown, Idle, JobsInv, TypeInv, TypeOK
<1> QED
    BY <1>1, <1>2, <1>3, <1>4 DEF InterruptSteps

(* A cancel request writes the row of a job that has not ended, to         *)
(* cancelled.                                                              *)
LEMMA CancelWrites ==
    ASSUME JobsInv, NEW r \in StepCancel, CancelLoad(r) \/ CancelReject(r) \/ CancelCommit(r)
    PROVE  /\ ex' = ex /\ tries' = tries /\ stage' = stage
           /\ \A j \in JobId : \/ row'[j] = row[j]
                               \/ row'[j].status = "cancelled" /\ row'[j].out = row[j].out
<1>1. ex' = ex /\ tries' = tries /\ stage' = stage
      BY DEF CancelLoad, CancelReject, CancelCommit, vars
<1>2. CASE row' = row
      BY <1>1, <1>2
<1>3. CASE CancelCommit(r)
  <2>1. row' = [row EXCEPT ![stop[r].job].status = "cancelled"]
        BY <1>3 DEF CancelCommit, Written, Cancellable
  <2> QED
      BY <1>1, <2>1 DEF JobsInv, StepInv, StepType, JobRow
<1> QED
    BY <1>2, <1>3 DEF CancelLoad, CancelReject

(* A step's job that was cancelled while it worked, that failed or whose   *)
(* try was cut short never gets an output afterwards, whatever is          *)
(* delivered again.                                                        *)
THEOREM CancelledYieldsNothing == StepsSpec => CancelledStepYieldsNothing
<1>1. ASSUME JobsInv, [StepsNext]_allVars, NEW j \in JobId, Barren(j) PROVE Barren(j)'
  <2> DEFINE a == j[1]
             current == At(a, {"steps"}) /\ j = CurrentJob(a)
             current1 == ex'[a].pc = "steps" /\ j = CurrentJob(a)'
  <2>0. a \in Approval /\ j = <<a, j[2], j[3]>> /\ j[3] \in StepId
        BY DEF JobId
  <2>1. Barren(j)' <=>
          /\ ~row'[j].out
          /\ \/ current1 /\ stage'[a].at \in {"failing", "ending"}
             \/ current1 /\ stage'[a].at = "working" /\ row'[j].status = "cancelled"
             \/ ~current1 /\ row'[j].status # "absent"
        BY DEF Barren, At
  <2>2. ~row[j].out /\ row[j].status # "absent"
    <3>1. CASE current /\ stage[a].at # "none"
          BY <1>1, <2>0, <3>1 DEF Barren, JobsInv, StepInv, Staged
    <3> QED
        BY <1>1, <3>1 DEF Barren
  <2>3. CASE OuterAction /\ UNCHANGED stepVars
    <3>1. Outside
          BY <1>1, <2>3, OuterOutside DEF JobsInv
    <3>2. row' = row /\ stage' = stage
          BY <2>3 DEF stepVars
    <3>3. CASE ex'[a] = ex[a] /\ tries'[a] = tries[a]
          BY <1>1, <2>1, <3>2, <3>3 DEF Barren, At, CurrentJob, Step
    <3>4. CASE stage[a].at = "none"
      <4>1. ~Ahead(j)'
            BY <1>1, <2>2, <3>1 DEF Outside, JobsInv, StepInv, NoRow
      <4>2. ~current1
            BY <2>0, <3>2, <3>4, <4>1 DEF Ahead, CurrentJob, Step
      <4> QED
          BY <2>1, <2>2, <3>2, <4>2
    <3> QED
        BY <2>0, <3>1, <3>3, <3>4 DEF Outside
  <2>4. ASSUME NEW b \in Approval, Inside(b) PROVE Barren(j)'
    <3>1. /\ ex[b].pc = "steps" /\ ex' = ex /\ tries' = tries
          /\ j # CurrentJob(b) => row'[j] = row[j]
          /\ a # b => stage'[a] = stage[a]
          BY <1>1, <2>0, <2>4, InsideWrites
    <3>2. current1 <=> current
          BY <3>1 DEF At, CurrentJob, Step
    <3>3. CASE j # CurrentJob(b)
          BY <1>1, <2>0, <2>1, <2>2, <3>1, <3>2, <3>3 DEF Barren, CurrentJob
    <3>4. CASE j = CurrentJob(b)
      <4>1. a = b /\ current
            BY <3>1, <3>4 DEF CurrentJob, At
      <4>2. \/ stage[a].at = "failing"
            \/ stage[a].at = "ending"
            \/ stage[a].at = "working" /\ row[j].status = "cancelled"
            BY <1>1, <4>1 DEF Barren
      <4>3. \/ StepRaise(a) /\ stage[a].at = "working"
            \/ StepFail(a)
            BY <2>4, <3>4, <4>1, <4>2
            DEF Inside, StepCreate, StepStart, StepRaise, StepLook, StepSucceed, StepFail, Working
      <4>4. row'[j].out = row[j].out /\ stage'[a].at \in {"failing", "ending"}
            BY <1>1, <2>0, <3>4, <4>1, <4>3
            DEF StepRaise, StepFail, Reach, JobsInv, StepInv, StepType, JobRow
      <4> QED
          BY <2>1, <2>2, <3>2, <4>1, <4>4
    <3> QED
        BY <3>3, <3>4
  <2>5. ASSUME NEW b \in Approval, Recording(b) PROVE Barren(j)'
    <3>1. /\ row' = row /\ tries' = tries /\ ex'[b].pc = "record"
          /\ a # b => ex'[a] = ex[a] /\ stage'[a] = stage[a]
          BY <1>1, <2>0, <2>5, RecordingWrites
    <3>2. CASE a = b
          BY <2>1, <2>2, <3>1, <3>2
    <3>3. CASE a # b
          BY <1>1, <2>1, <3>1, <3>3 DEF Barren, At, CurrentJob, Step
    <3> QED
        BY <3>2, <3>3
  <2>6. CASE InterruptSteps
    <3>1. /\ row' = row /\ tries' = tries
          /\ (ex'[a] = ex[a] /\ stage'[a] = stage[a]) \/ ex'[a].pc \in {"idle", "returned"}
          BY <1>1, <2>0, <2>6, InterruptWrites
    <3>2. CASE ex'[a].pc \in {"idle", "returned"}
          BY <2>1, <2>2, <3>1, <3>2
    <3>3. CASE ex'[a] = ex[a] /\ stage'[a] = stage[a]
          BY <1>1, <2>1, <3>1, <3>3 DEF Barren, At, CurrentJob, Step
    <3> QED
        BY <3>1, <3>2, <3>3
  <2>7. ASSUME NEW r \in StepCancel, CancelLoad(r) \/ CancelReject(r) \/ CancelCommit(r)
        PROVE  Barren(j)'
    <3>1. /\ ex' = ex /\ tries' = tries /\ stage' = stage
          /\ \/ row'[j] = row[j]
             \/ row'[j].status = "cancelled" /\ row'[j].out = row[j].out
          BY <1>1, <2>7, CancelWrites
    <3> QED
        BY <1>1, <2>1, <2>2, <3>1 DEF Barren, At, CurrentJob, Step
  <2>8. ASSUME NEW b \in Approval, StepNoWorkDir(b) PROVE Barren(j)'
    <3>1. /\ row' = row /\ tries' = tries /\ ex'[b].pc = "failing"
          /\ a # b => ex'[a] = ex[a] /\ stage'[a] = stage[a]
          BY <1>1, <2>0, <2>8, NoWorkDirWrites
    <3>2. CASE a = b
          BY <2>1, <2>2, <3>1, <3>2
    <3>3. CASE a # b
          BY <1>1, <2>1, <3>1, <3>3 DEF Barren, At, CurrentJob, Step
    <3> QED
        BY <3>2, <3>3
  <2> QED
      BY <1>1, <2>3, <2>4, <2>5, <2>6, <2>7, <2>8, StepCases
<1>2. JobsInv /\ [StepsNext]_allVars => [\A j \in JobId : Barren(j) => Barren(j)']_allVars
      BY <1>1
<1> QED
    BY <1>2, StepsInvariant, PTL DEF StepsSpec, CancelledStepYieldsNothing

(* What makes a job one that may be left behind in the next state.         *)
Excused(j) == \/ At(j[1], {"steps"})
              \/ j \in dirless /\ At(j[1], {"failing", "returned"})

(* A plan that fails at a step stays at it until its delivery ends.        *)
LEMMA OuterExcused ==
    ASSUME JobsInv, OuterAction, UNCHANGED stepVars, NEW a \in Approval,
           ex[a].pc \in {"failing", "returned"}, ex'[a].pc # "idle", tries'[a] = tries[a]
    PROVE  ex'[a].pc \in {"failing", "returned"} /\ Step(a)' = Step(a)
<1>t. TypeOK
      BY DEF JobsInv, TypeInv
<1>1. CASE Users \/ Terminating \/ UNCHANGED vars
  <2>1. ex' = ex
        BY <1>1 DEF Users, Propose, ApproveLoad, EnqueueLost, Terminating, vars
  <2> QED
      BY <2>1 DEF Step
<1>2. ASSUME NEW b \in Approval,
             \/ Approve(b) \/ Arq(b)
             \/ ExecLoad(b) \/ ExecStart(b) \/ ExecRecord(b)
             \/ ExecSucceed(b) \/ ExecFail(b) \/ StepRefused(b)
      PROVE  ex'[a].pc \in {"failing", "returned"} /\ Step(a)' = Step(a)
  <2>1. CASE b # a
    <3>1. ex'[a] = ex[a]
          BY <1>2, <1>t, <2>1, OthersAside DEF Of, Aside, Approve, Arq, StepRefused
    <3> QED
        BY <3>1 DEF Step
  <2>2. CASE b = a
    <3>1. \/ ex' = ex
          \/ ArqFinish(a)
          \/ ExecFail(a)
          BY <1>2, <2>2
          DEF Approve, Arq, ApproveReject, ApproveCommit, ApproveEnqueue, ArqStart, ArqGiveUp,
              ExecLoad, ExecStart, ExecRecord, ExecSucceed, StepRefused, Working, At
    <3>2. CASE ex' = ex
          BY <3>2 DEF Step
    <3>3. ~ArqFinish(a)
          BY <1>t DEF ArqFinish, Idle, TypeOK
    <3>4. CASE ExecFail(a)
      <4>1. ex'[a].pc = "returned" /\ ex'[a].runs = ex[a].runs
            BY <1>t, <3>4, FieldTypes DEF ExecFail, Move, TypeOK, Execution
      <4> QED
          BY <4>1 DEF Step
    <3> QED
        BY <3>1, <3>2, <3>3, <3>4
  <2> QED
      BY <2>1, <2>2
<1> QED
    BY <1>1, <1>2 DEF OuterAction

(* Where a delivery is cut short only to come again, the one job of its    *)
(* own try that an execution leaves queued or running at its end is that   *)
(* of the step it stopped at for want of a work directory.                 *)
THEOREM StepJobsSettled ==
    ASSUME Faults \cap {"timeout", "database"} = {}
    PROVE  StepsSpec => []StepJobsSettle
<1>1. ASSUME JobsInv, StepJobsSettle, [StepsNext]_allVars, NEW j \in JobId, LeftBehind(j)'
      PROVE  j[3] = Step(j[1])' /\ Excused(j)'
  <2> DEFINE a == j[1]
  <2>0. a \in Approval /\ j = <<a, j[2], j[3]>> /\ j[2] \in Nat
        BY DEF JobId
  <2>1. row'[j].status \in {"queued", "running"} /\ j[2] = tries'[a] /\ ex'[a].pc # "idle"
        BY <1>1 DEF LeftBehind, At
  <2>2. ASSUME row'[j] = row[j], tries'[a] = tries[a], ex[a].pc # "idle"
        PROVE  /\ j[3] = Step(a)
               /\ ex[a].pc = "steps" \/ (j \in dirless /\ ex[a].pc \in {"failing", "returned"})
        BY <1>1, <2>1, <2>2 DEF StepJobsSettle, LeftBehind, At
  <2>d. dirless \subseteq dirless'
        BY <1>1, StepCases
        DEF stepVars, Inside, Recording, StepCreate, StepStart, StepRaise, StepLook, StepSucceed,
            StepFail, StepEnd, StepNoWorkDir, InterruptSteps, CancelLoad, CancelReject, CancelCommit
  <2>e. ASSUME row'[j] = row[j], tries'[a] = tries[a], ex'[a] = ex[a]
        PROVE  j[3] = Step(a)' /\ Excused(j)'
        BY <2>1, <2>2, <2>d, <2>e DEF Excused, At, Step
  <2>3. CASE OuterAction /\ UNCHANGED stepVars
    <3>1. Outside
          BY <1>1, <2>3, OuterOutside DEF JobsInv
    <3>2. row' = row /\ stage' = stage
          BY <2>3 DEF stepVars
    <3>3. ~Ahead(j)
          BY <1>1, <2>1, <3>2 DEF JobsInv, StepInv, NoRow
    <3>4. tries'[a] = tries[a] /\ ex[a].pc # "idle"
          BY <2>0, <2>1, <3>1, <3>3 DEF Outside, Ahead
    <3>5. CASE ex[a].pc = "steps"
      <4>1. j[3] = Step(a)
            BY <2>2, <3>2, <3>4
      <4>2. stage[a].at # "none"
            BY <2>1, <3>3, <3>4, <3>5, <4>1 DEF Ahead
      <4>3. ex'[a] = ex[a]
            BY <2>0, <3>1, <4>2 DEF Outside
      <4> QED
          BY <2>e, <3>2, <3>4, <4>3
    <3>6. CASE ex[a].pc # "steps"
      <4>1. j[3] = Step(a) /\ j \in dirless /\ ex[a].pc \in {"failing", "returned"}
            BY <2>2, <3>2, <3>4, <3>6
      <4>2. ex'[a].pc \in {"failing", "returned"} /\ Step(a)' = Step(a)
            BY <1>1, <2>0, <2>1, <2>3, <3>4, <4>1, OuterExcused
      <4> QED
          BY <2>d, <4>1, <4>2 DEF Excused, At
    <3> QED
        BY <3>5, <3>6
  <2>4. ASSUME NEW b \in Approval, Inside(b) PROVE j[3] = Step(a)' /\ Excused(j)'
    <3>1. /\ ex[b].pc = "steps" /\ ex' = ex /\ tries' = tries
          /\ j # CurrentJob(b) => row'[j] = row[j]
          BY <1>1, <2>4, InsideWrites
    <3>2. CASE j = CurrentJob(b)
          BY <3>1, <3>2 DEF CurrentJob, Step, Excused, At
    <3>3. CASE j # CurrentJob(b)
          BY <2>e, <3>1, <3>3
    <3> QED
        BY <3>2, <3>3
  <2>5. ASSUME NEW b \in Approval, Recording(b) PROVE j[3] = Step(a)' /\ Excused(j)'
    <3>1. /\ row' = row /\ tries' = tries /\ ex[b].pc = "steps"
          /\ row[CurrentJob(b)].status \in {"succeeded", "failed", "cancelled"}
          /\ a # b => ex'[a] = ex[a]
          BY <1>1, <2>0, <2>5, RecordingWrites
    <3>2. a # b
      <4>1. CASE a = b
        <5>1. j = CurrentJob(b)
              BY <2>0, <2>1, <2>2, <3>1, <4>1 DEF CurrentJob
        <5> QED
            BY <2>1, <3>1, <5>1
      <4> QED
          BY <4>1
    <3> QED
        BY <2>e, <3>1, <3>2
  <2>6. CASE InterruptSteps
    <3>1. row' = row /\ tries' = tries /\ (ex'[a] = ex[a] \/ ex'[a].pc = "idle")
          BY <1>1, <2>0, <2>6, InterruptWrites
    <3> QED
        BY <2>1, <2>e, <3>1
  <2>7. ASSUME NEW r \in StepCancel, CancelLoad(r) \/ CancelReject(r) \/ CancelCommit(r)
        PROVE  j[3] = Step(a)' /\ Excused(j)'
    <3>1. /\ ex' = ex /\ tries' = tries
          /\ row'[j] = row[j] \/ row'[j].status = "cancelled"
          BY <1>1, <2>7, CancelWrites
    <3> QED
        BY <2>1, <2>e, <3>1
  <2>8. ASSUME NEW b \in Approval, StepNoWorkDir(b) PROVE j[3] = Step(a)' /\ Excused(j)'
    <3>1. /\ row' = row /\ tries' = tries /\ dirless' = dirless \cup {CurrentJob(b)}
          /\ ex[b].pc = "steps" /\ Step(b)' = Step(b) /\ ex'[b].pc = "failing"
          /\ a # b => ex'[a] = ex[a]
          BY <1>1, <2>0, <2>8, NoWorkDirWrites
    <3>2. CASE a = b
      <4>1. j[3] = Step(a) /\ j = CurrentJob(b)
            BY <2>0, <2>1, <2>2, <3>1, <3>2 DEF CurrentJob
      <4> QED
          BY <3>1, <3>2, <4>1 DEF Excused, At
    <3>3. CASE a # b
          BY <2>e, <3>1, <3>3
    <3> QED
        BY <3>2, <3>3
  <2> QED
      BY <1>1, <2>3, <2>4, <2>5, <2>6, <2>7, <2>8, StepCases
<1>2. JobsInv /\ StepJobsSettle /\ [StepsNext]_allVars => StepJobsSettle'
      BY <1>1 DEF StepJobsSettle, Excused, At
<1>3. StepsInit => StepJobsSettle
      BY DEF StepsInit, StepJobsSettle, LeftBehind, NoRow
<1> QED
    BY <1>2, <1>3, StepsInvariant, PTL DEF StepsSpec
=============================================================================
