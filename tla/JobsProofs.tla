----------------------------- MODULE JobsProofs -----------------------------
(* What holds of Jobs for every set of jobs and requests, every limit and  *)
(* every choice of faults.                                                 *)
EXTENDS Jobs, TLAPS

(* The steps of Next, one by one: each theorem about a step splits on it.  *)
LEMMA NextSteps ==
    ASSUME [Next]_vars
    PROVE  \/ \E j \in Job :
                \/ CreateJob(j) \/ Enqueue(j)
                \/ ArqStart(j) \/ ArqAbortBeforeStart(j) \/ ArqGiveUp(j) \/ ArqFinish(j)
                \/ ExecLoad(j) \/ ExecStart(j) \/ ExecContext(j) \/ ExecHandler(j)
                \/ ExecStoreFile(j) \/ ExecRegister(j) \/ ExecRefresh(j)
                \/ ExecSucceed(j) \/ ExecFail(j) \/ ExecReturn(j) \/ ExecRaise(j)
                \/ ArqAbort(j) \/ JobTimeout(j) \/ DatabaseError(j) \/ EnqueueLost(j)
           \/ \E r \in Request :
                \/ CancelLoad(r) \/ CancelReject(r) \/ CancelCommit(r)
                \/ CancelSignal(r) \/ CancelSignalLost(r)
           \/ WorkerShutdown \/ WorkerCrash
           \/ UNCHANGED vars
<1>1. CASE Next
  <2>1. CASE \E j \in Job : CreateJob(j) \/ Enqueue(j) \/ Arq(j) \/ Execute(j)
                             \/ ExecRaise(j) \/ ArqAbort(j)
        BY <2>1 DEF Arq, Execute
  <2>2. CASE \E r \in Request : Cancel(r)
        BY <2>2 DEF Cancel
  <2>3. CASE FaultStep
        BY <2>3 DEF FaultStep
  <2>4. CASE Terminating
        BY <2>4 DEF Terminating
  <2> QED
      BY <1>1, <2>1, <2>2, <2>3, <2>4 DEF Next
<1>2. CASE UNCHANGED vars
      BY <1>2
<1> QED
    BY <1>1, <1>2

-----------------------------------------------------------------------------
(* The initial values have their types.                                    *)
LEMMA InitTypeOK == Init => TypeOK
<1> SUFFICES ASSUME Init PROVE TypeOK
    OBVIOUS
<1>1. NoRow \in Row
      BY DEF NoRow, Row, Status, Error
<1>2. IdleAttempt \in Attempt
      BY MaxOutputsAssumption
      DEF IdleAttempt, Attempt, Place, Blank, Copy, Status, Error
<1>3. req \in [Request -> CancelRequest]
      BY DEF Init, CancelRequest, Blank, Copy, Status, Error
<1> QED
    BY <1>1, <1>2, <1>3, MaxTriesAssumption DEF Init, TypeOK, Try

(* An attempt that only moves to another place keeps its type.             *)
LEMMA MoveTypeOK ==
    ASSUME TypeOK, NEW j \in Job, NEW place \in Place, Move(j, place)
    PROVE  att' \in [Job -> Attempt]
BY DEF Move, TypeOK, Attempt

(* An attempt that is interrupted keeps its type, and so do the work       *)
(* directories.                                                            *)
LEMMA InterruptTypeOK ==
    ASSUME TypeOK, NEW j \in Job, Interrupt(j)
    PROVE  att' \in [Job -> Attempt] /\ scratch' \subseteq Job \X Try
<1>1. att' \in [Job -> Attempt]
      BY MoveTypeOK DEF Interrupt, Place
<1> QED
    BY <1>1 DEF Interrupt, TypeOK

(* No step, whoever takes it, gives a variable a value of another type.    *)
LEMMA NextTypeOK == TypeOK /\ [Next]_vars => TypeOK'
<1> SUFFICES ASSUME TypeOK, [Next]_vars PROVE TypeOK'
    OBVIOUS
<1>a. \A j \in Job : Believed(j) \in Copy
      BY DEF TypeOK, Believed, Copy, Row
<1>b. \A j \in Job : WorkDir(j) \in Job \X Try
      BY DEF TypeOK, WorkDir
<1>c. IdleAttempt \in Attempt
      BY MaxOutputsAssumption
      DEF IdleAttempt, Attempt, Place, Blank, Copy, Status, Error
<1>1. ASSUME NEW j \in Job, CreateJob(j) PROVE TypeOK'
  <2>1. jobs' \in [Job -> Row]
        BY <1>1 DEF CreateJob, TypeOK, Row, Status
  <2> QED
      BY <1>1, <2>1 DEF CreateJob, TypeOK
<1>2. ASSUME NEW j \in Job, Enqueue(j) \/ EnqueueLost(j) PROVE TypeOK'
  <2> QED
      BY <1>2 DEF Enqueue, EnqueueLost, Fault, TypeOK
<1>3. ASSUME NEW j \in Job, ArqStart(j) PROVE TypeOK'
  <2>1. att' \in [Job -> Attempt]
        BY <1>3, <1>c DEF ArqStart, TypeOK, Attempt, Place
  <2>2. tries' \in [Job -> Try]
        BY <1>3, MaxTriesAssumption DEF ArqStart, TypeOK, Try
  <2> QED
      BY <1>3, <2>1, <2>2 DEF ArqStart, TypeOK
<1>4. ASSUME NEW j \in Job, ArqAbortBeforeStart(j) \/ ArqGiveUp(j) PROVE TypeOK'
  <2> QED
      BY <1>4 DEF ArqAbortBeforeStart, ArqGiveUp, TypeOK
<1>5. ASSUME NEW j \in Job, ArqFinish(j) PROVE TypeOK'
  <2>1. att' \in [Job -> Attempt]
        BY <1>5, <1>c DEF ArqFinish, TypeOK
  <2> QED
      BY <1>5, <2>1 DEF ArqFinish, TypeOK
<1>6. ASSUME NEW j \in Job, ExecLoad(j) \/ ExecRefresh(j) PROVE TypeOK'
  <2>1. att' \in [Job -> Attempt]
        BY <1>6, <1>a DEF ExecLoad, ExecRefresh, TypeOK, Attempt, Place
  <2> QED
      BY <1>6, <2>1 DEF ExecLoad, ExecRefresh, TypeOK
<1>7. ASSUME NEW j \in Job, ExecStart(j) PROVE TypeOK'
  <2>1. jobs' \in [Job -> Row]
    <3> DEFINE s == Written(jobs[j].status, att[j].copy.status, "running")
    <3> DEFINE row == [jobs[j] EXCEPT !.status = s, !.progress = 10]
    <3>1. jobs[j] \in Row
          BY DEF TypeOK
    <3>2. s \in Status
          BY <3>1 DEF Row, Status, Written
    <3>3. jobs' = [jobs EXCEPT ![j] = row]
          BY <1>7 DEF ExecStart
    <3> HIDE DEF s
    <3>4. row \in Row
          BY <3>1, <3>2 DEF Row
    <3> HIDE DEF row
    <3> QED
        BY <3>3, <3>4 DEF TypeOK
  <2>2. att' \in [Job -> Attempt]
    <3>1. att[j] \in Attempt
          BY DEF TypeOK
    <3>2. [att[j].copy EXCEPT !.status = "running"] \in Copy
          BY <3>1 DEF Attempt, Copy, Status
    <3>3. [att[j] EXCEPT !.pc = "started", !.copy.status = "running"] \in Attempt
          BY <3>1, <3>2 DEF Attempt, Place
    <3> QED
        BY <1>7, <3>3 DEF ExecStart, TypeOK
  <2> QED
      BY <1>7, <2>1, <2>2, <1>b DEF ExecStart, TypeOK
<1>8. ASSUME NEW j \in Job, ExecContext(j) PROVE TypeOK'
  <2>1. jobs' \in [Job -> Row]
    <3>1. jobs[j] \in Row
          BY DEF TypeOK
    <3>2. [jobs[j] EXCEPT !.progress = 50] \in Row
          BY <3>1 DEF Row
    <3> QED
        BY <1>8, <3>1, <3>2 DEF ExecContext, TypeOK
  <2>2. att' \in [Job -> Attempt]
        BY <1>8, MoveTypeOK DEF ExecContext, Place
  <2> QED
      BY <1>8, <2>1, <2>2 DEF ExecContext, TypeOK
<1>9. ASSUME NEW j \in Job, ExecHandler(j) PROVE TypeOK'
  <2>1. att' \in [Job -> Attempt]
    <3>1. PICK n \in 0..MaxOutputs :
                 att' = [att EXCEPT ![j].pc = "persist", ![j].todo = n]
          BY <1>9 DEF ExecHandler
    <3>2. att[j] \in Attempt
          BY DEF TypeOK
    <3>3. [att[j] EXCEPT !.pc = "persist", !.todo = n] \in Attempt
          BY <3>2 DEF Attempt, Place
    <3> QED
        BY <3>1, <3>3 DEF TypeOK
  <2> QED
      BY <1>9, <2>1 DEF ExecHandler, TypeOK
<1>10. ASSUME NEW j \in Job, ExecStoreFile(j) PROVE TypeOK'
  <2>1. att' \in [Job -> Attempt]
        BY <1>10, MaxOutputsAssumption DEF ExecStoreFile, TypeOK, Attempt, Place
  <2>2. File(j, att[j].todo - 1) \in Asset
        BY <1>10, MaxOutputsAssumption DEF ExecStoreFile, TypeOK, Attempt, File, Asset
  <2> QED
      BY <1>10, <2>1, <2>2 DEF ExecStoreFile, TypeOK
<1>11. ASSUME NEW j \in Job, ExecRegister(j) PROVE TypeOK'
  <2>1. File(j, att[j].todo) \in Asset
        BY DEF TypeOK, Attempt, File, Asset
  <2> DEFINE made == att[j].made \cup {File(j, att[j].todo)}
             stored == [att[j] EXCEPT !.pc = "persist", !.made = made]
  <2>2. att[j] \in Attempt /\ made \in SUBSET Asset
        BY <2>1 DEF TypeOK, Attempt
  <2>3. att' = [att EXCEPT ![j] = stored]
        BY <1>11, <2>2 DEF ExecRegister, Attempt
  <2> HIDE DEF made
  <2>4. stored \in Attempt
        BY <2>2 DEF Attempt, Place
  <2> HIDE DEF stored
  <2>5. att' \in [Job -> Attempt]
        BY <2>3, <2>4 DEF TypeOK
  <2> QED
      BY <1>11, <2>1, <2>5 DEF ExecRegister, TypeOK
<1>12. ASSUME NEW j \in Job, ExecSucceed(j) PROVE TypeOK'
  <2>1. jobs' \in [Job -> Row]
    <3>0. att[j].made \in SUBSET Asset
          BY DEF TypeOK, Attempt
    <3> DEFINE s == Written(jobs[j].status, att[j].copy.status, "succeeded")
    <3> DEFINE row == [jobs[j] EXCEPT !.status = s, !.progress = 100,
                                      !.outputs = att[j].made, !.finished = TRUE]
    <3>1. jobs[j] \in Row
          BY DEF TypeOK
    <3>2. s \in Status
          BY <3>1 DEF Row, Status, Written
    <3>3. jobs' = [jobs EXCEPT ![j] = row]
          BY <1>12 DEF ExecSucceed
    <3> HIDE DEF s
    <3>4. row \in Row
          BY <3>1, <3>2, <3>0 DEF Row
    <3> HIDE DEF row
    <3> QED
        BY <3>3, <3>4 DEF TypeOK
  <2>2. att' \in [Job -> Attempt]
        BY <1>12, MoveTypeOK DEF ExecSucceed, Place
  <2> QED
      BY <1>12, <2>1, <2>2 DEF ExecSucceed, TypeOK
<1>13. ASSUME NEW j \in Job, ExecFail(j) PROVE TypeOK'
  <2>1. jobs' \in [Job -> Row]
    <3> DEFINE s == Written(jobs[j].status, att[j].copy.status, "failed")
    <3> DEFINE e == Written(jobs[j].error, att[j].copy.error, "failure")
    <3> DEFINE row == [jobs[j] EXCEPT !.status = s, !.error = e, !.finished = TRUE]
    <3>1. jobs[j] \in Row
          BY DEF TypeOK
    <3>2. s \in Status /\ e \in Error
          BY <3>1 DEF Row, Status, Error, Written
    <3>3. jobs' = [jobs EXCEPT ![j] = row]
          BY <1>13 DEF ExecFail
    <3> HIDE DEF s, e
    <3>4. row \in Row
          BY <3>1, <3>2 DEF Row
    <3> HIDE DEF row
    <3> QED
        BY <3>3, <3>4 DEF TypeOK
  <2>2. att' \in [Job -> Attempt]
        BY <1>13, MoveTypeOK DEF ExecFail, Place
  <2> QED
      BY <1>13, <2>1, <2>2 DEF ExecFail, TypeOK
<1>14. ASSUME NEW j \in Job, ExecReturn(j) \/ ExecRaise(j) PROVE TypeOK'
  <2>1. att' \in [Job -> Attempt]
        BY <1>14, MoveTypeOK DEF ExecReturn, ExecRaise, Place
  <2> QED
      BY <1>14, <2>1 DEF ExecReturn, ExecRaise, TypeOK
<1>15. ASSUME NEW j \in Job, ArqAbort(j) \/ JobTimeout(j) \/ DatabaseError(j) PROVE TypeOK'
  <2>1. att' \in [Job -> Attempt] /\ scratch' \subseteq Job \X Try
        BY <1>15, InterruptTypeOK DEF ArqAbort, JobTimeout, DatabaseError
  <2> QED
      BY <1>15, <2>1 DEF ArqAbort, JobTimeout, DatabaseError, Fault, TypeOK
<1>16. ASSUME NEW r \in Request, CancelLoad(r) PROVE TypeOK'
  <2>1. req[r].job \in Job
        BY <1>16 DEF TypeOK, CancelRequest
  <2>2. req' \in [Request -> CancelRequest]
        BY <1>16, <2>1, <1>a DEF CancelLoad, TypeOK, CancelRequest
  <2> QED
      BY <1>16, <2>1, <2>2 DEF CancelLoad, TypeOK
<1>17. ASSUME NEW r \in Request, CancelReject(r) \/ CancelSignal(r) \/ CancelSignalLost(r) PROVE TypeOK'
  <2>1. req[r].job \in Job
        BY <1>17 DEF TypeOK, CancelRequest
  <2>2. req' \in [Request -> CancelRequest]
        BY <1>17 DEF CancelReject, CancelSignal, CancelSignalLost, TypeOK, CancelRequest
  <2> QED
      BY <1>17, <2>1, <2>2 DEF CancelReject, CancelSignal, CancelSignalLost, Fault, TypeOK
<1>18. ASSUME NEW r \in Request, CancelCommit(r) PROVE TypeOK'
  <2>1. req[r].job \in Job
        BY <1>18 DEF TypeOK, CancelRequest
  <2>2. jobs' \in [Job -> Row]
    <3> DEFINE k == req[r].job
    <3> DEFINE s == Written(jobs[k].status, req[r].copy.status, "cancelled")
    <3> DEFINE e == Written(jobs[k].error, req[r].copy.error, "cancelled")
    <3> DEFINE row == [jobs[k] EXCEPT !.status = s, !.error = e, !.finished = TRUE]
    <3>1. jobs[k] \in Row
          BY <2>1 DEF TypeOK
    <3>2. s \in Status /\ e \in Error
          BY <3>1 DEF Row, Status, Error, Written
    <3>3. jobs' = [jobs EXCEPT ![k] = row]
          BY <1>18 DEF CancelCommit
    <3> HIDE DEF s, e
    <3>4. row \in Row
          BY <3>1, <3>2 DEF Row
    <3> HIDE DEF row
    <3> QED
        BY <3>3, <3>4, <2>1 DEF TypeOK
  <2>3. req' \in [Request -> CancelRequest]
        BY <1>18 DEF CancelCommit, TypeOK, CancelRequest
  <2> QED
      BY <1>18, <2>1, <2>2, <2>3 DEF CancelCommit, TypeOK
<1>19. CASE WorkerShutdown \/ WorkerCrash
  <2>1. att' \in [Job -> Attempt]
        BY <1>19, <1>c DEF WorkerShutdown, WorkerCrash, TypeOK
  <2> QED
      BY <1>19, <2>1 DEF WorkerShutdown, WorkerCrash, Fault, TypeOK
<1>20. CASE UNCHANGED vars
      BY <1>20 DEF vars, TypeOK
<1> QED
    BY <1>1, <1>2, <1>3, <1>4, <1>5, <1>6, <1>7, <1>8, <1>9, <1>10, <1>11, <1>12,
       <1>13, <1>14, <1>15, <1>16, <1>17, <1>18, <1>19, <1>20, NextSteps

(* Every variable keeps its type in every behaviour.                       *)
THEOREM TypeCorrect == Spec => []TypeOK
BY InitTypeOK, NextTypeOK, PTL DEF Spec

-----------------------------------------------------------------------------
(* An attempt's files are stored, registered and listed in that order.     *)
StorageInv ==
    /\ OutputsAreStored
    /\ \A j \in Job : att[j].made \subseteq rows
    /\ \A j \in Job : att[j].pc = "stored" => File(j, att[j].todo) \in files

(* At first nothing is stored and nothing is listed.                       *)
LEMMA InitStorageInv == Init => StorageInv
BY DEF Init, StorageInv, OutputsAreStored, NoRow, IdleAttempt

(* A step that stores, registers and lists nothing; an attempt it moves    *)
(* forgets its outputs or keeps them.                                      *)
StorageFrame ==
    /\ rows' = rows /\ files' = files
    /\ \A k \in Job : jobs'[k].outputs = jobs[k].outputs
    /\ \A k \in Job : /\ att'[k].made \in {att[k].made, {}}
                      /\ att'[k].pc = "stored" =>
                           att'[k] = att[k] /\ tries'[k] = tries[k]

(* Such a step keeps the order file, row, listing.                         *)
LEMMA StorageFrameKeeps == StorageInv /\ StorageFrame => StorageInv'
<1> SUFFICES ASSUME StorageInv, StorageFrame PROVE StorageInv'
    OBVIOUS
<1>1. OutputsAreStored'
      BY DEF StorageFrame, StorageInv, OutputsAreStored
<1>2. ASSUME NEW k \in Job PROVE att'[k].made \subseteq rows'
      BY DEF StorageFrame, StorageInv
<1>3. ASSUME NEW k \in Job, att'[k].pc = "stored"
      PROVE  File(k, att[k].todo)' \in files'
  <2>1. att'[k] = att[k] /\ tries'[k] = tries[k] /\ files' = files
        BY <1>3 DEF StorageFrame
  <2>2. File(k, att[k].todo) \in files
        BY <1>3, <2>1 DEF StorageInv
  <2> QED
      BY <2>1, <2>2 DEF File
<1> QED
    BY <1>1, <1>2, <1>3 DEF StorageInv

(* Every step keeps it: one case per action.                               *)
LEMMA NextStorageInv == TypeOK /\ StorageInv /\ [Next]_vars => StorageInv'
<1> SUFFICES ASSUME TypeOK, StorageInv, [Next]_vars PROVE StorageInv'
    OBVIOUS
<1>1. ASSUME NEW j \in Job, CreateJob(j) PROVE StorageInv'
  <2>1. StorageFrame
        BY <1>1 DEF CreateJob,
                  StorageFrame, TypeOK, Row, Attempt, At, Move, IdleAttempt
  <2> QED
      BY <2>1, StorageFrameKeeps
<1>2. ASSUME NEW j \in Job,
            Enqueue(j) \/ EnqueueLost(j) \/ ArqAbortBeforeStart(j) \/
            ArqGiveUp(j)
     PROVE  StorageInv'
  <2>1. StorageFrame
        BY <1>2 DEF Enqueue, EnqueueLost, ArqAbortBeforeStart, ArqGiveUp,
                  StorageFrame, TypeOK, Row, Attempt, At, Move, IdleAttempt
  <2> QED
      BY <2>1, StorageFrameKeeps
<1>3. ASSUME NEW j \in Job, ArqStart(j) PROVE StorageInv'
  <2>1. StorageFrame
        BY <1>3 DEF ArqStart,
                  StorageFrame, TypeOK, Row, Attempt, At, Move, IdleAttempt
  <2> QED
      BY <2>1, StorageFrameKeeps
<1>4. ASSUME NEW j \in Job, ArqFinish(j) PROVE StorageInv'
  <2>1. StorageFrame
        BY <1>4 DEF ArqFinish,
                  StorageFrame, TypeOK, Row, Attempt, At, Move, IdleAttempt
  <2> QED
      BY <2>1, StorageFrameKeeps
<1>5. ASSUME NEW j \in Job, ExecLoad(j) \/ ExecRefresh(j) PROVE StorageInv'
  <2>1. StorageFrame
        BY <1>5 DEF ExecLoad, ExecRefresh,
                  StorageFrame, TypeOK, Row, Attempt, At, Move, IdleAttempt
  <2> QED
      BY <2>1, StorageFrameKeeps
<1>6. ASSUME NEW j \in Job, ExecHandler(j) PROVE StorageInv'
  <2>1. StorageFrame
        BY <1>6 DEF ExecHandler,
                  StorageFrame, TypeOK, Row, Attempt, At, Move, IdleAttempt
  <2> QED
      BY <2>1, StorageFrameKeeps
<1>7. ASSUME NEW j \in Job, ExecStart(j) PROVE StorageInv'
  <2>1. StorageFrame
        BY <1>7 DEF ExecStart,
                  StorageFrame, TypeOK, Row, Attempt, At, Move, IdleAttempt
  <2> QED
      BY <2>1, StorageFrameKeeps
<1>8. ASSUME NEW j \in Job, ExecContext(j) PROVE StorageInv'
  <2>1. StorageFrame
        BY <1>8 DEF ExecContext,
                  StorageFrame, TypeOK, Row, Attempt, At, Move, IdleAttempt
  <2> QED
      BY <2>1, StorageFrameKeeps
<1>9. ASSUME NEW j \in Job, ExecFail(j) PROVE StorageInv'
  <2>1. StorageFrame
        BY <1>9 DEF ExecFail,
                  StorageFrame, TypeOK, Row, Attempt, At, Move, IdleAttempt
  <2> QED
      BY <2>1, StorageFrameKeeps
<1>10. ASSUME NEW j \in Job, ExecRaise(j) \/ ExecReturn(j) PROVE StorageInv'
  <2>1. StorageFrame
        BY <1>10 DEF ExecRaise, ExecReturn,
                  StorageFrame, TypeOK, Row, Attempt, At, Move, IdleAttempt
  <2> QED
      BY <2>1, StorageFrameKeeps
<1>11. ASSUME NEW j \in Job, ExecStoreFile(j) PROVE StorageInv'
      BY <1>11
      DEF ExecStoreFile, StorageInv, OutputsAreStored, TypeOK, Row,
          Attempt, At, File, Move, Interrupt, IdleAttempt
<1>12. ASSUME NEW j \in Job, ExecRegister(j) PROVE StorageInv'
      BY <1>12
      DEF ExecRegister, StorageInv, OutputsAreStored, TypeOK, Row,
          Attempt, At, File, Move, Interrupt, IdleAttempt
<1>13. ASSUME NEW j \in Job, ExecSucceed(j) PROVE StorageInv'
      BY <1>13
      DEF ExecSucceed, StorageInv, OutputsAreStored, TypeOK, Row,
          Attempt, At, File, Move, Interrupt, IdleAttempt
<1>14. ASSUME NEW j \in Job,
            ArqAbort(j) \/ JobTimeout(j) \/ DatabaseError(j)
     PROVE  StorageInv'
  <2>1. StorageFrame
        BY <1>14 DEF ArqAbort, JobTimeout, DatabaseError, Interrupt,
                  StorageFrame, TypeOK, Row, Attempt, At, Move, IdleAttempt
  <2> QED
      BY <2>1, StorageFrameKeeps
<1>15. ASSUME NEW r \in Request,
            CancelLoad(r) \/ CancelReject(r) \/ CancelSignal(r) \/
            CancelSignalLost(r)
     PROVE  StorageInv'
  <2>1. StorageFrame
        BY <1>15 DEF CancelLoad, CancelReject, CancelSignal, CancelSignalLost,
                  StorageFrame, TypeOK, Row, Attempt, At, Move, IdleAttempt
  <2> QED
      BY <2>1, StorageFrameKeeps
<1>16. ASSUME NEW r \in Request, CancelCommit(r) PROVE StorageInv'
  <2>1. StorageFrame
        BY <1>16 DEF CancelCommit, CancelRequest,
                  StorageFrame, TypeOK, Row, Attempt, At, Move, IdleAttempt
  <2> QED
      BY <2>1, StorageFrameKeeps
<1>17. CASE WorkerShutdown \/ WorkerCrash
  <2>1. StorageFrame
        BY <1>17 DEF WorkerShutdown, WorkerCrash, Interruptible,
                  StorageFrame, TypeOK, Row, Attempt, At, Move, IdleAttempt
  <2> QED
      BY <2>1, StorageFrameKeeps
<1>18. CASE UNCHANGED vars
  <2>1. StorageFrame
        BY <1>18 DEF vars,
                  StorageFrame, TypeOK, Row, Attempt, At, Move, IdleAttempt
  <2> QED
      BY <2>1, StorageFrameKeeps
<1> QED
    BY <1>1, <1>2, <1>3, <1>4, <1>5, <1>6, <1>7, <1>8, <1>9, <1>10,
       <1>11, <1>12, <1>13, <1>14, <1>15, <1>16, <1>17, <1>18, NextSteps

(* Every listed output has its row and every row its file, always.         *)
THEOREM OutputsStored == Spec => []OutputsAreStored
<1>1. StorageInv => OutputsAreStored
      BY DEF StorageInv
<1> QED
    BY <1>1, InitStorageInv, NextStorageInv, TypeCorrect, PTL DEF Spec


-----------------------------------------------------------------------------
(* A row that is over is complete.  Errors never return to null, so a      *)
(* session that believes in one is right that there is one; and a row says *)
(* succeeded only while no attempt is under way that could reset it.       *)
Running == {"started", "handler", "persist", "stored", "final", "failing"}

RowInv ==
    /\ SettledRowIsComplete
    /\ \A j \in Job : att[j].copy.error # "null" => jobs[j].error # "null"
    /\ \A r \in Request : req[r].copy.error # "null" => jobs[req[r].job].error # "null"
    /\ \A j \in Job : jobs[j].status = "succeeded" =>
         /\ att[j].pc \notin Running
         /\ att[j].pc = "loaded" => att[j].copy.status = "succeeded"

(* At first no row exists and no session has read one.                     *)
LEMMA InitRowInv == Init => RowInv
BY DEF Init, RowInv, SettledRowIsComplete, NoRow, IdleAttempt, Blank, Terminal

(* A step that writes no row and reads none: attempts move forward or are  *)
(* forgotten.                                                              *)
RowFrame ==
    /\ jobs' = jobs
    /\ \A k \in Job :
         /\ att'[k].copy \in {att[k].copy, Blank}
         /\ att'[k].pc \in Running => att[k].pc \in Running
         /\ att'[k].pc = "loaded" => att'[k] = att[k]
    /\ \A q \in Request : req'[q].job = req[q].job /\ req'[q].copy = req[q].copy

(* Such a step keeps what is known of the rows.                            *)
LEMMA RowFrameKeeps == RowInv /\ RowFrame => RowInv'
BY DEF RowInv, RowFrame, SettledRowIsComplete, Blank

(* Every step keeps it: the two writers never leave a settled row          *)
(* incomplete.                                                             *)
LEMMA NextRowInv == TypeOK /\ RowInv /\ [Next]_vars => RowInv'
<1> SUFFICES ASSUME TypeOK, RowInv, [Next]_vars PROVE RowInv'
    OBVIOUS
<1>1. ASSUME NEW j \in Job, CreateJob(j) PROVE RowInv'
      BY <1>1
      DEF CreateJob, RowInv, SettledRowIsComplete, TypeOK, Row, Attempt,
          Copy, CancelRequest, Written, At, Blank, IdleAttempt, Believed,
          Running, Terminal
<1>2. ASSUME NEW j \in Job,
            Enqueue(j) \/ EnqueueLost(j) \/ ArqAbortBeforeStart(j) \/
            ArqGiveUp(j)
     PROVE  RowInv'
  <2>1. RowFrame
        BY <1>2 DEF Enqueue, EnqueueLost, ArqAbortBeforeStart, ArqGiveUp,
                  RowFrame, Running, TypeOK, Attempt, CancelRequest, At, Move,
                  IdleAttempt, Interrupt, Interruptible
  <2> QED
      BY <2>1, RowFrameKeeps
<1>3. ASSUME NEW j \in Job, ArqStart(j) \/ ArqFinish(j) PROVE RowInv'
  <2>1. RowFrame
        BY <1>3 DEF ArqStart, ArqFinish,
                  RowFrame, Running, TypeOK, Attempt, CancelRequest, At, Move,
                  IdleAttempt, Interrupt, Interruptible
  <2> QED
      BY <2>1, RowFrameKeeps
<1>4. ASSUME NEW j \in Job, ExecLoad(j) PROVE RowInv'
      BY <1>4
      DEF ExecLoad, RowInv, SettledRowIsComplete, TypeOK, Row, Attempt,
          Copy, CancelRequest, Written, At, Blank, IdleAttempt, Believed,
          Running, Terminal
<1>5. ASSUME NEW j \in Job, ExecRefresh(j) PROVE RowInv'
      BY <1>5
      DEF ExecRefresh, RowInv, SettledRowIsComplete, TypeOK, Row,
          Attempt, Copy, CancelRequest, Written, At, Blank, IdleAttempt,
          Believed, Running, Terminal
<1>6. ASSUME NEW j \in Job, ExecStart(j) PROVE RowInv'
      BY <1>6
      DEF ExecStart, RowInv, SettledRowIsComplete, TypeOK, Row, Attempt,
          Copy, CancelRequest, Written, At, Blank, IdleAttempt, Believed,
          Running, Terminal
<1>7. ASSUME NEW j \in Job, ExecContext(j) PROVE RowInv'
  <2>1. \A k \in Job : k # j => jobs'[k] = jobs[k] /\ att'[k] = att[k]
        BY <1>7 DEF ExecContext, Move, TypeOK
  <2>2. req' = req
        BY <1>7 DEF ExecContext
  <2>3. /\ jobs'[j].status = jobs[j].status /\ jobs'[j].error = jobs[j].error
        /\ jobs'[j].finished = jobs[j].finished
        BY <1>7 DEF ExecContext, TypeOK, Row
  <2>4. att'[j].pc = "handler" /\ att'[j].copy = att[j].copy
        BY <1>7 DEF ExecContext, Move, TypeOK, Attempt
  <2>5. jobs[j].status # "succeeded"
        BY <1>7 DEF ExecContext, At, RowInv, Running
  <2>6. SettledRowIsComplete'
        BY <2>1, <2>3, <2>5 DEF RowInv, SettledRowIsComplete
  <2> QED
      BY <2>1, <2>2, <2>3, <2>4, <2>5, <2>6 DEF RowInv, Running, TypeOK, CancelRequest
<1>8. ASSUME NEW j \in Job, ExecHandler(j) PROVE RowInv'
  <2>1. RowFrame
        BY <1>8 DEF ExecHandler,
                  RowFrame, Running, TypeOK, Attempt, CancelRequest, At, Move,
                  IdleAttempt, Interrupt, Interruptible
  <2> QED
      BY <2>1, RowFrameKeeps
<1>9. ASSUME NEW j \in Job, ExecStoreFile(j) \/ ExecRegister(j) PROVE RowInv'
  <2>1. RowFrame
        BY <1>9 DEF ExecStoreFile, ExecRegister,
                  RowFrame, Running, TypeOK, Attempt, CancelRequest, At, Move,
                  IdleAttempt, Interrupt, Interruptible
  <2> QED
      BY <2>1, RowFrameKeeps
<1>10. ASSUME NEW j \in Job, ExecRaise(j) \/ ExecReturn(j) PROVE RowInv'
  <2>1. RowFrame
        BY <1>10 DEF ExecRaise, ExecReturn,
                  RowFrame, Running, TypeOK, Attempt, CancelRequest, At, Move,
                  IdleAttempt, Interrupt, Interruptible
  <2> QED
      BY <2>1, RowFrameKeeps
<1>11. ASSUME NEW j \in Job, ExecFail(j) PROVE RowInv'
  <2>1. \A k \in Job : k # j => jobs'[k] = jobs[k] /\ att'[k] = att[k]
        BY <1>11 DEF ExecFail, Move, TypeOK
  <2>2. req' = req
        BY <1>11 DEF ExecFail
  <2>3. /\ jobs'[j].status \in {jobs[j].status, "failed"}
        /\ jobs'[j].error # "null" /\ jobs'[j].finished
        BY <1>11 DEF ExecFail, Written, RowInv, TypeOK, Row
  <2>4. jobs[j].status # "succeeded"
        BY <1>11 DEF ExecFail, At, RowInv, Running
  <2>5. att'[j].pc = "ending" /\ att'[j].copy = att[j].copy
        BY <1>11 DEF ExecFail, Move, TypeOK, Attempt
  <2>6. SettledRowIsComplete'
        BY <2>1, <2>3, <2>4 DEF RowInv, SettledRowIsComplete
  <2> QED
      BY <2>1, <2>2, <2>3, <2>5, <2>6 DEF RowInv, Running, TypeOK, CancelRequest
<1>12. ASSUME NEW j \in Job, ExecSucceed(j) PROVE RowInv'
  <2>1. \A k \in Job : k # j => jobs'[k] = jobs[k] /\ att'[k] = att[k]
        BY <1>12 DEF ExecSucceed, Move, TypeOK
  <2>2. req' = req
        BY <1>12 DEF ExecSucceed
  <2>3. /\ jobs'[j].status \in {jobs[j].status, "succeeded"}
        /\ jobs'[j].error = jobs[j].error
        /\ jobs'[j].progress = 100 /\ jobs'[j].finished
        BY <1>12 DEF ExecSucceed, Written, TypeOK, Row
  <2>4. att'[j].pc = "ending" /\ att'[j].copy = att[j].copy
        BY <1>12 DEF ExecSucceed, Move, TypeOK, Attempt
  <2>5. SettledRowIsComplete'
        BY <2>1, <2>3 DEF RowInv, SettledRowIsComplete
  <2> QED
      BY <2>1, <2>2, <2>3, <2>4, <2>5 DEF RowInv, Running, TypeOK, CancelRequest
<1>13. ASSUME NEW j \in Job,
            ArqAbort(j) \/ JobTimeout(j) \/ DatabaseError(j)
     PROVE  RowInv'
  <2>1. RowFrame
        BY <1>13 DEF ArqAbort, JobTimeout, DatabaseError,
                  RowFrame, Running, TypeOK, Attempt, CancelRequest, At, Move,
                  IdleAttempt, Interrupt, Interruptible
  <2> QED
      BY <2>1, RowFrameKeeps
<1>14. ASSUME NEW r \in Request, CancelLoad(r) PROVE RowInv'
      BY <1>14
      DEF CancelLoad, RowInv, SettledRowIsComplete, TypeOK, Row, Attempt,
          Copy, CancelRequest, Written, At, Blank, IdleAttempt, Believed,
          Running, Terminal
<1>15. ASSUME NEW r \in Request,
            CancelReject(r) \/ CancelSignal(r) \/ CancelSignalLost(r)
     PROVE  RowInv'
  <2>1. jobs' = jobs /\ att' = att
        BY <1>15 DEF CancelReject, CancelSignal, CancelSignalLost
  <2>2. \A q \in Request : req'[q].job = req[q].job /\ req'[q].copy = req[q].copy
        BY <1>15 DEF CancelReject, CancelSignal, CancelSignalLost, TypeOK, CancelRequest
  <2> QED
      BY <2>1, <2>2, RowFrameKeeps DEF RowFrame
<1>16. ASSUME NEW r \in Request, CancelCommit(r) PROVE RowInv'
  <2> DEFINE j == req[r].job
  <2>0. j \in Job
        BY DEF TypeOK, CancelRequest
  <2>1. \A k \in Job : k # j => jobs'[k] = jobs[k]
        BY <1>16, <2>0 DEF CancelCommit, TypeOK
  <2>2. /\ jobs'[j].status = "cancelled"
        /\ jobs'[j].error # "null" /\ jobs'[j].finished
        BY <1>16, <2>0 DEF CancelCommit, Cancellable, Written, RowInv, TypeOK, Row
  <2>3. att' = att
        BY <1>16 DEF CancelCommit
  <2>4. \A q \in Request : req'[q].job = req[q].job /\ req'[q].copy = req[q].copy
        BY <1>16 DEF CancelCommit, TypeOK, CancelRequest
  <2> HIDE DEF j
  <2>5. SettledRowIsComplete'
        BY <2>1, <2>2 DEF RowInv, SettledRowIsComplete
  <2> QED
      BY <2>1, <2>2, <2>3, <2>4, <2>5 DEF RowInv, TypeOK, CancelRequest
<1>17. CASE WorkerShutdown \/ WorkerCrash
  <2>1. RowFrame
        BY <1>17 DEF WorkerShutdown, WorkerCrash,
                  RowFrame, Running, TypeOK, Attempt, CancelRequest, At, Move,
                  IdleAttempt, Interrupt, Interruptible
  <2> QED
      BY <2>1, RowFrameKeeps
<1>18. CASE UNCHANGED vars
  <2>1. RowFrame
        BY <1>18 DEF vars,
                  RowFrame, Running, TypeOK, Attempt, CancelRequest, At, Move,
                  IdleAttempt, Interrupt, Interruptible
  <2> QED
      BY <2>1, RowFrameKeeps
<1> QED
    BY <1>1, <1>2, <1>3, <1>4, <1>5, <1>6, <1>7, <1>8, <1>9, <1>10,
       <1>11, <1>12, <1>13, <1>14, <1>15, <1>16, <1>17, <1>18, NextSteps

(* A row that is over is complete, whoever wrote its columns.              *)
THEOREM SettledRowsComplete == Spec => []SettledRowIsComplete
<1>1. RowInv => SettledRowIsComplete
      BY DEF RowInv
<1> QED
    BY <1>1, InitRowInv, NextRowInv, TypeCorrect, PTL DEF Spec


-----------------------------------------------------------------------------
(* A job is being created or queued, never both, and only once it has a    *)
(* row; an attempt is at a job whose delivery is outstanding.              *)
DeliveryInv ==
    /\ creating \cap queue = {}
    /\ \A j \in creating \cup queue : jobs[j].status # "absent"
    /\ \A j \in Job : att[j].pc # "idle" => j \in queue

(* At first there is no delivery and no attempt.                           *)
LEMMA InitDeliveryInv == Init => DeliveryInv
BY DEF Init, DeliveryInv, IdleAttempt

(* Every step keeps deliveries and attempts together.                      *)
LEMMA NextDeliveryInv == TypeOK /\ DeliveryInv /\ [Next]_vars => DeliveryInv'
<1> SUFFICES ASSUME TypeOK, DeliveryInv, [Next]_vars PROVE DeliveryInv'
    OBVIOUS
<1>1. ASSUME NEW j \in Job, CreateJob(j) PROVE DeliveryInv'
      BY <1>1
      DEF CreateJob, DeliveryInv, TypeOK, Row, Attempt, CancelRequest,
          Written, At, Move, Interrupt, IdleAttempt, Interruptible
<1>2. ASSUME NEW j \in Job, Enqueue(j) \/ EnqueueLost(j) PROVE DeliveryInv'
      BY <1>2
      DEF Enqueue, EnqueueLost, DeliveryInv, TypeOK, Row, Attempt,
          CancelRequest, Written, At, Move, Interrupt, IdleAttempt,
          Interruptible
<1>3. ASSUME NEW j \in Job,
            ArqStart(j) \/ ArqAbortBeforeStart(j)
     PROVE  DeliveryInv'
      BY <1>3
      DEF ArqStart, ArqAbortBeforeStart, DeliveryInv, TypeOK, Row,
          Attempt, CancelRequest, Written, At, Move, Interrupt,
          IdleAttempt, Interruptible
<1>4. ASSUME NEW j \in Job, ArqGiveUp(j) \/ ArqFinish(j) PROVE DeliveryInv'
      BY <1>4
      DEF ArqGiveUp, ArqFinish, DeliveryInv, TypeOK, Row, Attempt,
          CancelRequest, Written, At, Move, Interrupt, IdleAttempt,
          Interruptible
<1>5. ASSUME NEW j \in Job, ExecLoad(j) \/ ExecRefresh(j) PROVE DeliveryInv'
      BY <1>5
      DEF ExecLoad, ExecRefresh, DeliveryInv, TypeOK, Row, Attempt,
          CancelRequest, Written, At, Move, Interrupt, IdleAttempt,
          Interruptible
<1>6. ASSUME NEW j \in Job, ExecStart(j) PROVE DeliveryInv'
      BY <1>6
      DEF ExecStart, DeliveryInv, TypeOK, Row, Attempt, CancelRequest,
          Written, At, Move, Interrupt, IdleAttempt, Interruptible
<1>7. ASSUME NEW j \in Job, ExecContext(j) PROVE DeliveryInv'
      BY <1>7
      DEF ExecContext, DeliveryInv, TypeOK, Row, Attempt, CancelRequest,
          Written, At, Move, Interrupt, IdleAttempt, Interruptible
<1>8. ASSUME NEW j \in Job, ExecSucceed(j) PROVE DeliveryInv'
      BY <1>8
      DEF ExecSucceed, DeliveryInv, TypeOK, Row, Attempt, CancelRequest,
          Written, At, Move, Interrupt, IdleAttempt, Interruptible
<1>9. ASSUME NEW j \in Job, ExecFail(j) PROVE DeliveryInv'
      BY <1>9
      DEF ExecFail, DeliveryInv, TypeOK, Row, Attempt, CancelRequest,
          Written, At, Move, Interrupt, IdleAttempt, Interruptible
<1>10. ASSUME NEW j \in Job,
            ExecHandler(j) \/ ExecStoreFile(j) \/ ExecRegister(j)
     PROVE  DeliveryInv'
      BY <1>10
      DEF ExecHandler, ExecStoreFile, ExecRegister, DeliveryInv, TypeOK,
          Row, Attempt, CancelRequest, Written, At, Move, Interrupt,
          IdleAttempt, Interruptible
<1>11. ASSUME NEW j \in Job, ExecRaise(j) \/ ExecReturn(j) PROVE DeliveryInv'
      BY <1>11
      DEF ExecRaise, ExecReturn, DeliveryInv, TypeOK, Row, Attempt,
          CancelRequest, Written, At, Move, Interrupt, IdleAttempt,
          Interruptible
<1>12. ASSUME NEW j \in Job,
            ArqAbort(j) \/ JobTimeout(j) \/ DatabaseError(j)
     PROVE  DeliveryInv'
      BY <1>12
      DEF ArqAbort, JobTimeout, DatabaseError, DeliveryInv, TypeOK, Row,
          Attempt, CancelRequest, Written, At, Move, Interrupt,
          IdleAttempt, Interruptible
<1>13. ASSUME NEW r \in Request,
            CancelLoad(r) \/ CancelReject(r) \/ CancelSignal(r) \/
            CancelSignalLost(r)
     PROVE  DeliveryInv'
      BY <1>13
      DEF CancelLoad, CancelReject, CancelSignal, CancelSignalLost,
          DeliveryInv, TypeOK, Row, Attempt, CancelRequest, Written, At,
          Move, Interrupt, IdleAttempt, Interruptible
<1>14. ASSUME NEW r \in Request, CancelCommit(r) PROVE DeliveryInv'
      BY <1>14
      DEF CancelCommit, DeliveryInv, TypeOK, Row, Attempt, CancelRequest,
          Written, At, Move, Interrupt, IdleAttempt, Interruptible
<1>15. CASE WorkerShutdown \/ WorkerCrash
      BY <1>15
      DEF WorkerShutdown, WorkerCrash, DeliveryInv, TypeOK, Row, Attempt,
          CancelRequest, Written, At, Move, Interrupt, IdleAttempt,
          Interruptible
<1>16. CASE UNCHANGED vars
      BY <1>16
      DEF vars, DeliveryInv, TypeOK, Row, Attempt, CancelRequest,
          Written, At, Move, Interrupt, IdleAttempt, Interruptible
<1> QED
    BY <1>1, <1>2, <1>3, <1>4, <1>5, <1>6, <1>7, <1>8, <1>9, <1>10,
       <1>11, <1>12, <1>13, <1>14, <1>15, <1>16, NextSteps

(* No step of the worker or of a request undoes a cancellation that took   *)
(* hold.                                                                   *)
LEMMA CancelKeepsHold ==
    ASSUME TypeOK, DeliveryInv, [Next]_vars, NEW i \in Job, CancelTookHold(i)
    PROVE  CancelTookHold(i)'
<1>1. ASSUME NEW j \in Job, CreateJob(j) PROVE CancelTookHold(i)'
      BY <1>1
      DEF CreateJob, CancelTookHold, DeliveryInv, TypeOK, Row, Attempt,
          CancelRequest, Written, At, Move, Interrupt, IdleAttempt,
          Interruptible
<1>2. ASSUME NEW j \in Job, Enqueue(j) \/ EnqueueLost(j) PROVE CancelTookHold(i)'
      BY <1>2
      DEF Enqueue, EnqueueLost, CancelTookHold, DeliveryInv, TypeOK, Row,
          Attempt, CancelRequest, Written, At, Move, Interrupt,
          IdleAttempt, Interruptible
<1>3. ASSUME NEW j \in Job, ArqStart(j) \/ ArqAbortBeforeStart(j) PROVE CancelTookHold(i)'
      BY <1>3
      DEF ArqStart, ArqAbortBeforeStart, CancelTookHold, DeliveryInv,
          TypeOK, Row, Attempt, CancelRequest, Written, At, Move,
          Interrupt, IdleAttempt, Interruptible
<1>4. ASSUME NEW j \in Job, ArqGiveUp(j) \/ ArqFinish(j) PROVE CancelTookHold(i)'
      BY <1>4
      DEF ArqGiveUp, ArqFinish, CancelTookHold, DeliveryInv, TypeOK, Row,
          Attempt, CancelRequest, Written, At, Move, Interrupt,
          IdleAttempt, Interruptible
<1>5. ASSUME NEW j \in Job, ExecLoad(j) \/ ExecRefresh(j) PROVE CancelTookHold(i)'
      BY <1>5
      DEF ExecLoad, ExecRefresh, CancelTookHold, DeliveryInv, TypeOK,
          Row, Attempt, CancelRequest, Written, At, Move, Interrupt,
          IdleAttempt, Interruptible
<1>6. ASSUME NEW j \in Job,
            ExecStart(j) \/ ExecContext(j) \/ ExecSucceed(j) \/
            ExecFail(j)
     PROVE  CancelTookHold(i)'
      BY <1>6
      DEF ExecStart, ExecContext, ExecSucceed, ExecFail, CancelTookHold,
          DeliveryInv, TypeOK, Row, Attempt, CancelRequest, Written, At,
          Move, Interrupt, IdleAttempt, Interruptible
<1>7. ASSUME NEW j \in Job,
            ExecHandler(j) \/ ExecStoreFile(j) \/ ExecRegister(j)
     PROVE  CancelTookHold(i)'
      BY <1>7
      DEF ExecHandler, ExecStoreFile, ExecRegister, CancelTookHold,
          DeliveryInv, TypeOK, Row, Attempt, CancelRequest, Written, At,
          Move, Interrupt, IdleAttempt, Interruptible
<1>8. ASSUME NEW j \in Job, ExecRaise(j) \/ ExecReturn(j) PROVE CancelTookHold(i)'
      BY <1>8
      DEF ExecRaise, ExecReturn, CancelTookHold, DeliveryInv, TypeOK,
          Row, Attempt, CancelRequest, Written, At, Move, Interrupt,
          IdleAttempt, Interruptible
<1>9. ASSUME NEW j \in Job,
            ArqAbort(j) \/ JobTimeout(j) \/ DatabaseError(j)
     PROVE  CancelTookHold(i)'
      BY <1>9
      DEF ArqAbort, JobTimeout, DatabaseError, CancelTookHold,
          DeliveryInv, TypeOK, Row, Attempt, CancelRequest, Written, At,
          Move, Interrupt, IdleAttempt, Interruptible
<1>10. ASSUME NEW r \in Request,
            CancelLoad(r) \/ CancelReject(r) \/ CancelSignal(r) \/
            CancelSignalLost(r)
     PROVE  CancelTookHold(i)'
      BY <1>10
      DEF CancelLoad, CancelReject, CancelSignal, CancelSignalLost,
          CancelTookHold, DeliveryInv, TypeOK, Row, Attempt,
          CancelRequest, Written, At, Move, Interrupt, IdleAttempt,
          Interruptible
<1>11. ASSUME NEW r \in Request, CancelCommit(r) PROVE CancelTookHold(i)'
      BY <1>11
      DEF CancelCommit, CancelTookHold, DeliveryInv, TypeOK, Row,
          Attempt, CancelRequest, Written, At, Move, Interrupt,
          IdleAttempt, Interruptible
<1>12. CASE WorkerShutdown \/ WorkerCrash
      BY <1>12
      DEF WorkerShutdown, WorkerCrash, CancelTookHold, DeliveryInv,
          TypeOK, Row, Attempt, CancelRequest, Written, At, Move,
          Interrupt, IdleAttempt, Interruptible
<1>13. CASE UNCHANGED vars
      BY <1>13
      DEF vars, CancelTookHold, DeliveryInv, TypeOK, Row, Attempt,
          CancelRequest, Written, At, Move, Interrupt, IdleAttempt,
          Interruptible
<1> QED
    BY <1>1, <1>2, <1>3, <1>4, <1>5, <1>6, <1>7, <1>8, <1>9, <1>10,
       <1>11, <1>12, <1>13, NextSteps

(* A cancelled job whose abort is recorded, or that has no delivery left,  *)
(* stays cancelled and is never started again.                             *)
THEOREM SignalledCancelsAreFinal == Spec => SignalledCancelIsFinal
<1>1. TypeOK /\ DeliveryInv /\ [Next]_vars =>
        [\A j \in Job : CancelTookHold(j) => CancelTookHold(j)']_vars
      BY CancelKeepsHold
<1> QED
    BY <1>1, InitDeliveryInv, NextDeliveryInv, TypeCorrect, PTL
    DEF Spec, SignalledCancelIsFinal


-----------------------------------------------------------------------------
(* Outputs belong to attempts: none to an attempt not yet made, to the one *)
(* under way exactly those it holds, and those a row lists to one that can *)
(* make no more.                                                           *)
Making == {"popped", "loaded", "started", "handler", "persist", "stored", "final"}

OutputInv ==
    /\ \A a \in rows : a[2] <= tries[a[1]]
    /\ \A j \in Job : att[j].pc \in Making => att[j].made = MadeBy(j, tries[j])
    /\ \A j \in Job : jobs[j].outputs # {} =>
         \E t \in Try : /\ jobs[j].outputs = MadeBy(j, t)
                        /\ IF att[j].pc \in Making THEN t < tries[j] ELSE t <= tries[j]

(* At first no attempt has made anything.                                  *)
LEMMA InitOutputInv == Init => OutputInv
BY DEF Init, OutputInv, NoRow, IdleAttempt, Making

(* A step that makes and lists nothing: attempts go on or are over.        *)
OutputFrame ==
    /\ rows' = rows /\ tries' = tries
    /\ \A k \in Job : jobs'[k].outputs = jobs[k].outputs
    /\ \A k \in Job : att'[k].pc \in Making =>
                       att[k].pc \in Making /\ att'[k].made = att[k].made

(* Such a step keeps the outputs of different attempts apart.              *)
LEMMA OutputFrameKeeps == TypeOK /\ OutputInv /\ OutputFrame => OutputInv'
<1> SUFFICES ASSUME TypeOK, OutputInv, OutputFrame PROVE OutputInv'
    OBVIOUS
<1>1. \A a \in rows' : a[2] <= tries'[a[1]]
      BY DEF OutputInv, OutputFrame
<1>2. \A k \in Job : att'[k].pc \in Making => att'[k].made = MadeBy(k, tries[k])
      BY DEF OutputInv, OutputFrame
<1>3. ASSUME NEW k \in Job, jobs'[k].outputs # {}
      PROVE  \E t \in Try : /\ jobs'[k].outputs = MadeBy(k, t)
                            /\ IF att'[k].pc \in Making THEN t < tries[k] ELSE t <= tries[k]
  <2>1. PICK t \in Try : /\ jobs[k].outputs = MadeBy(k, t)
                         /\ IF att[k].pc \in Making THEN t < tries[k] ELSE t <= tries[k]
        BY <1>3 DEF OutputInv, OutputFrame
  <2>2. t < tries[k] => t <= tries[k]
        BY MaxTriesAssumption DEF TypeOK, Try
  <2> QED
      BY <2>1, <2>2 DEF OutputFrame
<1> QED
    BY <1>1, <1>2, <1>3 DEF OutputInv, OutputFrame, MadeBy

(* Every step keeps them apart, redeliveries and restarts included.        *)
LEMMA NextOutputInv == TypeOK /\ OutputInv /\ [Next]_vars => OutputInv'
<1> SUFFICES ASSUME TypeOK, OutputInv, [Next]_vars PROVE OutputInv'
    OBVIOUS
<1>1. ASSUME NEW j \in Job, CreateJob(j) PROVE OutputInv'
  <2>1. OutputFrame
        BY <1>1 DEF CreateJob,
                  OutputFrame, Making, TypeOK, Row, Attempt, At, Move, IdleAttempt,
                  Interrupt, Interruptible, CancelRequest
  <2> QED
      BY <2>1, OutputFrameKeeps
<1>2. ASSUME NEW j \in Job,
            Enqueue(j) \/ EnqueueLost(j) \/ ArqAbortBeforeStart(j) \/
            ArqGiveUp(j)
     PROVE  OutputInv'
  <2>1. OutputFrame
        BY <1>2 DEF Enqueue, EnqueueLost, ArqAbortBeforeStart, ArqGiveUp,
                  OutputFrame, Making, TypeOK, Row, Attempt, At, Move, IdleAttempt,
                  Interrupt, Interruptible, CancelRequest
  <2> QED
      BY <2>1, OutputFrameKeeps
<1>3. ASSUME NEW j \in Job, ArqStart(j) PROVE OutputInv'
  <2>1. /\ tries'[j] = tries[j] + 1 /\ tries[j] \in Nat
        /\ \A k \in Job : k # j => tries'[k] = tries[k] /\ att'[k] = att[k]
        /\ att'[j].made = {} /\ att'[j].pc = "popped"
        BY <1>3, MaxTriesAssumption DEF ArqStart, TypeOK, IdleAttempt, Try
  <2>2. rows' = rows /\ jobs' = jobs
        BY <1>3 DEF ArqStart
  <2>3. \A a \in rows : a[1] \in Job /\ tries[a[1]] \in Nat /\ a[2] \in Nat
        BY MaxTriesAssumption DEF TypeOK, Asset, Try
  <2>4. \A a \in rows : a[2] <= tries'[a[1]]
        BY <2>1, <2>3 DEF OutputInv
  <2>5. MadeBy(j, tries[j] + 1) = {}
        BY <2>1, <2>3 DEF OutputInv, MadeBy
  <2>6. \A k \in Job : att'[k].pc \in Making => att'[k].made = MadeBy(k, tries'[k])
        BY <2>1, <2>5 DEF OutputInv
  <2>7. ASSUME NEW k \in Job, jobs[k].outputs # {}
        PROVE  \E t \in Try : /\ jobs[k].outputs = MadeBy(k, t)
                              /\ IF att'[k].pc \in Making THEN t < tries'[k] ELSE t <= tries'[k]
    <3>1. PICK t \in Try : /\ jobs[k].outputs = MadeBy(k, t)
                           /\ IF att[k].pc \in Making THEN t < tries[k] ELSE t <= tries[k]
          BY <2>7 DEF OutputInv
    <3>2. t \in Nat
          BY MaxTriesAssumption DEF Try
    <3> QED
        BY <2>1, <3>1, <3>2 DEF Making
  <2> QED
      BY <2>2, <2>4, <2>6, <2>7 DEF OutputInv, MadeBy
<1>4. ASSUME NEW j \in Job, ArqFinish(j) PROVE OutputInv'
  <2>1. OutputFrame
        BY <1>4 DEF ArqFinish,
                  OutputFrame, Making, TypeOK, Row, Attempt, At, Move, IdleAttempt,
                  Interrupt, Interruptible, CancelRequest
  <2> QED
      BY <2>1, OutputFrameKeeps
<1>5. ASSUME NEW j \in Job, ExecLoad(j) PROVE OutputInv'
  <2>1. OutputFrame
        BY <1>5 DEF ExecLoad,
                  OutputFrame, Making, TypeOK, Row, Attempt, At, Move, IdleAttempt,
                  Interrupt, Interruptible, CancelRequest
  <2> QED
      BY <2>1, OutputFrameKeeps
<1>6. ASSUME NEW j \in Job, ExecRefresh(j) PROVE OutputInv'
  <2>1. OutputFrame
        BY <1>6 DEF ExecRefresh,
                  OutputFrame, Making, TypeOK, Row, Attempt, At, Move, IdleAttempt,
                  Interrupt, Interruptible, CancelRequest
  <2> QED
      BY <2>1, OutputFrameKeeps
<1>7. ASSUME NEW j \in Job, ExecStart(j) PROVE OutputInv'
  <2>1. OutputFrame
        BY <1>7 DEF ExecStart,
                  OutputFrame, Making, TypeOK, Row, Attempt, At, Move, IdleAttempt,
                  Interrupt, Interruptible, CancelRequest
  <2> QED
      BY <2>1, OutputFrameKeeps
<1>8. ASSUME NEW j \in Job, ExecContext(j) PROVE OutputInv'
  <2>1. OutputFrame
        BY <1>8 DEF ExecContext,
                  OutputFrame, Making, TypeOK, Row, Attempt, At, Move, IdleAttempt,
                  Interrupt, Interruptible, CancelRequest
  <2> QED
      BY <2>1, OutputFrameKeeps
<1>9. ASSUME NEW j \in Job, ExecFail(j) PROVE OutputInv'
  <2>1. OutputFrame
        BY <1>9 DEF ExecFail,
                  OutputFrame, Making, TypeOK, Row, Attempt, At, Move, IdleAttempt,
                  Interrupt, Interruptible, CancelRequest
  <2> QED
      BY <2>1, OutputFrameKeeps
<1>10. ASSUME NEW j \in Job, ExecHandler(j) PROVE OutputInv'
  <2>1. OutputFrame
        BY <1>10 DEF ExecHandler,
                  OutputFrame, Making, TypeOK, Row, Attempt, At, Move, IdleAttempt,
                  Interrupt, Interruptible, CancelRequest
  <2> QED
      BY <2>1, OutputFrameKeeps
<1>11. ASSUME NEW j \in Job, ExecStoreFile(j) PROVE OutputInv'
  <2>1. OutputFrame
        BY <1>11 DEF ExecStoreFile,
                  OutputFrame, Making, TypeOK, Row, Attempt, At, Move, IdleAttempt,
                  Interrupt, Interruptible, CancelRequest
  <2> QED
      BY <2>1, OutputFrameKeeps
<1>12. ASSUME NEW j \in Job, ExecRegister(j) PROVE OutputInv'
  <2> DEFINE new == File(j, att[j].todo)
  <2>1. /\ att[j].pc = "stored" /\ att'[j].pc = "persist"
        /\ att'[j].made = att[j].made \cup {new}
        /\ \A k \in Job : k # j => att'[k] = att[k]
        BY <1>12 DEF ExecRegister, At, TypeOK, Attempt
  <2>2. rows' = rows \cup {new} /\ jobs' = jobs /\ tries' = tries
        BY <1>12 DEF ExecRegister
  <2>3. new[1] = j /\ new[2] = tries[j] /\ tries[j] \in Nat
        BY MaxTriesAssumption DEF File, TypeOK, Try
  <2> HIDE DEF new
  <2>4. \A a \in rows' : a[2] <= tries'[a[1]]
        BY <2>2, <2>3 DEF OutputInv
  <2>5. \A k \in Job, t \in Try :
          MadeBy(k, t)' = IF k = j /\ t = tries[j] THEN MadeBy(k, t) \cup {new}
                                                  ELSE MadeBy(k, t)
        BY <2>2, <2>3 DEF MadeBy
  <2>6. \A k \in Job : tries[k] \in Try
        BY DEF TypeOK
  <2>7. ASSUME NEW k \in Job, att'[k].pc \in Making
        PROVE  att'[k].made = MadeBy(k, tries[k])'
    <3>1. att[k].made = MadeBy(k, tries[k])
          BY <2>1, <2>7 DEF OutputInv, Making
    <3>2. MadeBy(k, tries[k])' = IF k = j THEN MadeBy(k, tries[k]) \cup {new}
                                          ELSE MadeBy(k, tries[k])
          BY <2>2, <2>5, <2>6
    <3> QED
        BY <2>1, <3>1, <3>2
  <2>8. ASSUME NEW k \in Job, jobs'[k].outputs # {}
        PROVE  \E t \in Try : /\ jobs'[k].outputs = MadeBy(k, t)'
                              /\ IF att'[k].pc \in Making THEN t < tries'[k] ELSE t <= tries'[k]
    <3>1. PICK t \in Try : /\ jobs[k].outputs = MadeBy(k, t)
                           /\ IF att[k].pc \in Making THEN t < tries[k] ELSE t <= tries[k]
          BY <2>2, <2>8 DEF OutputInv
    <3>2. ~(k = j /\ t = tries[j])
          BY <2>1, <2>3, <3>1 DEF Making
    <3>3. MadeBy(k, t)' = MadeBy(k, t)
          BY <2>5, <3>2
    <3>4. att'[k].pc \in Making <=> att[k].pc \in Making
          BY <2>1 DEF Making
    <3> QED
        BY <2>2, <3>1, <3>3, <3>4
  <2> QED
      BY <2>2, <2>4, <2>7, <2>8 DEF OutputInv
<1>13. ASSUME NEW j \in Job, ExecSucceed(j) PROVE OutputInv'
  <2>1. /\ att[j].pc = "final" /\ att'[j].pc = "ending"
        /\ \A k \in Job : k # j => att'[k] = att[k] /\ jobs'[k] = jobs[k]
        /\ jobs'[j].outputs = att[j].made
        BY <1>13 DEF ExecSucceed, Move, At, TypeOK, Row, Attempt
  <2>2. rows' = rows /\ tries' = tries
        BY <1>13 DEF ExecSucceed
  <2>3. att[j].made = MadeBy(j, tries[j])
        BY <2>1 DEF OutputInv, Making
  <2>4. tries[j] \in Try /\ tries[j] <= tries[j]
        BY MaxTriesAssumption DEF TypeOK, Try
  <2>5. "ending" \notin Making
        BY DEF Making
  <2>6. ASSUME NEW k \in Job, jobs'[k].outputs # {}
        PROVE  \E t \in Try : /\ jobs'[k].outputs = MadeBy(k, t)
                              /\ IF att'[k].pc \in Making THEN t < tries[k] ELSE t <= tries[k]
    <3>1. CASE k = j
          BY <2>1, <2>3, <2>4, <2>5, <3>1
    <3>2. CASE k # j
          BY <2>1, <2>6, <3>2 DEF OutputInv
    <3> QED
        BY <3>1, <3>2
  <2>7. \A k \in Job : att'[k].pc \in Making => att'[k].made = MadeBy(k, tries[k])
        BY <2>1, <2>5 DEF OutputInv
  <2> QED
      BY <2>2, <2>6, <2>7 DEF OutputInv, MadeBy
<1>14. ASSUME NEW j \in Job, ExecRaise(j) PROVE OutputInv'
  <2>1. OutputFrame
        BY <1>14 DEF ExecRaise,
                  OutputFrame, Making, TypeOK, Row, Attempt, At, Move, IdleAttempt,
                  Interrupt, Interruptible, CancelRequest
  <2> QED
      BY <2>1, OutputFrameKeeps
<1>15. ASSUME NEW j \in Job, ExecReturn(j) PROVE OutputInv'
  <2>1. OutputFrame
        BY <1>15 DEF ExecReturn,
                  OutputFrame, Making, TypeOK, Row, Attempt, At, Move, IdleAttempt,
                  Interrupt, Interruptible, CancelRequest
  <2> QED
      BY <2>1, OutputFrameKeeps
<1>16. ASSUME NEW j \in Job,
            ArqAbort(j) \/ JobTimeout(j) \/ DatabaseError(j)
     PROVE  OutputInv'
  <2>1. OutputFrame
        BY <1>16 DEF ArqAbort, JobTimeout, DatabaseError,
                  OutputFrame, Making, TypeOK, Row, Attempt, At, Move, IdleAttempt,
                  Interrupt, Interruptible, CancelRequest
  <2> QED
      BY <2>1, OutputFrameKeeps
<1>17. ASSUME NEW r \in Request,
            CancelLoad(r) \/ CancelReject(r) \/ CancelSignal(r) \/
            CancelSignalLost(r)
     PROVE  OutputInv'
  <2>1. OutputFrame
        BY <1>17 DEF CancelLoad, CancelReject, CancelSignal, CancelSignalLost,
                  OutputFrame, Making, TypeOK, Row, Attempt, At, Move, IdleAttempt,
                  Interrupt, Interruptible, CancelRequest
  <2> QED
      BY <2>1, OutputFrameKeeps
<1>18. ASSUME NEW r \in Request, CancelCommit(r) PROVE OutputInv'
  <2>1. OutputFrame
        BY <1>18 DEF CancelCommit,
                  OutputFrame, Making, TypeOK, Row, Attempt, At, Move, IdleAttempt,
                  Interrupt, Interruptible, CancelRequest
  <2> QED
      BY <2>1, OutputFrameKeeps
<1>19. CASE WorkerShutdown \/ WorkerCrash
  <2>1. OutputFrame
        BY <1>19 DEF WorkerShutdown, WorkerCrash,
                  OutputFrame, Making, TypeOK, Row, Attempt, At, Move, IdleAttempt,
                  Interrupt, Interruptible, CancelRequest
  <2> QED
      BY <2>1, OutputFrameKeeps
<1>20. CASE UNCHANGED vars
  <2>1. OutputFrame
        BY <1>20 DEF vars,
                  OutputFrame, Making, TypeOK, Row, Attempt, At, Move, IdleAttempt,
                  Interrupt, Interruptible, CancelRequest
  <2> QED
      BY <2>1, OutputFrameKeeps
<1> QED
    BY <1>1, <1>2, <1>3, <1>4, <1>5, <1>6, <1>7, <1>8, <1>9, <1>10,
       <1>11, <1>12, <1>13, <1>14, <1>15, <1>16, <1>17, <1>18, <1>19, <1>20,
       NextSteps

(* The outputs a row lists are all those of one attempt.                   *)
THEOREM OutputsOfOneAttempt == Spec => []OutputIsOneAttempt
<1>1. OutputInv => OutputIsOneAttempt
      BY DEF OutputInv, OutputIsOneAttempt
<1> QED
    BY <1>1, InitOutputInv, NextOutputInv, TypeCorrect, PTL DEF Spec


-----------------------------------------------------------------------------
(* What is left of a cancel that attempt t could still see: until a later  *)
(* attempt begins, the row stays cancelled as long as attempt t goes on    *)
(* towards its last look, and never comes to say succeeded.                *)
CancelRemembered(i, t) ==
    \/ tries[i] > t
    \/ /\ tries[i] = t /\ jobs[i].status # "succeeded"
       /\ att[i].pc \notin {"popped", "loaded", "final"}
       /\ att[i].pc \in {"started", "handler", "persist", "stored"} =>
            jobs[i].status = "cancelled"

(* Every step keeps the cancellation in the row or in what the attempt has *)
(* read.                                                                   *)
LEMMA CancelStaysRemembered ==
    ASSUME TypeOK, [Next]_vars, NEW i \in Job, NEW t \in Try, CancelRemembered(i, t)
    PROVE  CancelRemembered(i, t)'
<1>1. ASSUME NEW j \in Job, CreateJob(j) PROVE CancelRemembered(i, t)'
      BY <1>1
      DEF CreateJob, CancelRemembered, TypeOK, Row, Attempt,
          CancelRequest, Written, At, Move, Interrupt, IdleAttempt,
          Interruptible, Try
<1>2. ASSUME NEW j \in Job,
            Enqueue(j) \/ EnqueueLost(j) \/ ArqAbortBeforeStart(j) \/
            ArqGiveUp(j)
     PROVE  CancelRemembered(i, t)'
      BY <1>2
      DEF Enqueue, EnqueueLost, ArqAbortBeforeStart, ArqGiveUp,
          CancelRemembered, TypeOK, Row, Attempt, CancelRequest, Written,
          At, Move, Interrupt, IdleAttempt, Interruptible, Try
<1>3. ASSUME NEW j \in Job, ArqStart(j) PROVE CancelRemembered(i, t)'
      BY <1>3, MaxTriesAssumption
      DEF ArqStart, CancelRemembered, TypeOK, Row, Attempt,
          CancelRequest, Written, At, Move, Interrupt, IdleAttempt,
          Interruptible, Try
<1>4. ASSUME NEW j \in Job, ArqFinish(j) PROVE CancelRemembered(i, t)'
      BY <1>4
      DEF ArqFinish, CancelRemembered, TypeOK, Row, Attempt,
          CancelRequest, Written, At, Move, Interrupt, IdleAttempt,
          Interruptible, Try
<1>5. ASSUME NEW j \in Job, ExecLoad(j) \/ ExecStart(j) PROVE CancelRemembered(i, t)'
      BY <1>5
      DEF ExecLoad, ExecStart, CancelRemembered, TypeOK, Row, Attempt,
          CancelRequest, Written, At, Move, Interrupt, IdleAttempt,
          Interruptible, Try
<1>6. ASSUME NEW j \in Job, ExecContext(j) PROVE CancelRemembered(i, t)'
      BY <1>6
      DEF ExecContext, CancelRemembered, TypeOK, Row, Attempt,
          CancelRequest, Written, At, Move, Interrupt, IdleAttempt,
          Interruptible, Try
<1>7. ASSUME NEW j \in Job, ExecHandler(j) PROVE CancelRemembered(i, t)'
      BY <1>7
      DEF ExecHandler, CancelRemembered, TypeOK, Row, Attempt,
          CancelRequest, Written, At, Move, Interrupt, IdleAttempt,
          Interruptible, Try
<1>8. ASSUME NEW j \in Job, ExecStoreFile(j) PROVE CancelRemembered(i, t)'
      BY <1>8
      DEF ExecStoreFile, CancelRemembered, TypeOK, Row, Attempt,
          CancelRequest, Written, At, Move, Interrupt, IdleAttempt,
          Interruptible, Try
<1>9. ASSUME NEW j \in Job, ExecRegister(j) PROVE CancelRemembered(i, t)'
      BY <1>9
      DEF ExecRegister, CancelRemembered, TypeOK, Row, Attempt,
          CancelRequest, Written, At, Move, Interrupt, IdleAttempt,
          Interruptible, Try
<1>10. ASSUME NEW j \in Job, ExecRefresh(j) PROVE CancelRemembered(i, t)'
      BY <1>10
      DEF ExecRefresh, CancelRemembered, TypeOK, Row, Attempt,
          CancelRequest, Written, At, Move, Interrupt, IdleAttempt,
          Interruptible, Try
<1>11. ASSUME NEW j \in Job, ExecSucceed(j) PROVE CancelRemembered(i, t)'
      BY <1>11
      DEF ExecSucceed, CancelRemembered, TypeOK, Row, Attempt,
          CancelRequest, Written, At, Move, Interrupt, IdleAttempt,
          Interruptible, Try
<1>12. ASSUME NEW j \in Job, ExecFail(j) PROVE CancelRemembered(i, t)'
      BY <1>12
      DEF ExecFail, CancelRemembered, TypeOK, Row, Attempt,
          CancelRequest, Written, At, Move, Interrupt, IdleAttempt,
          Interruptible, Try
<1>13. ASSUME NEW j \in Job, ExecRaise(j) \/ ExecReturn(j) PROVE CancelRemembered(i, t)'
      BY <1>13
      DEF ExecRaise, ExecReturn, CancelRemembered, TypeOK, Row, Attempt,
          CancelRequest, Written, At, Move, Interrupt, IdleAttempt,
          Interruptible, Try
<1>14. ASSUME NEW j \in Job,
            ArqAbort(j) \/ JobTimeout(j) \/ DatabaseError(j)
     PROVE  CancelRemembered(i, t)'
  <2>1. jobs' = jobs /\ tries' = tries /\ Interrupt(j)
        BY <1>14 DEF ArqAbort, JobTimeout, DatabaseError
  <2>2. att'[i] = att[i] \/ att'[i].pc = "returned"
        BY <2>1 DEF Interrupt, Move, TypeOK, Attempt
  <2> QED
      BY <2>1, <2>2 DEF CancelRemembered
<1>15. ASSUME NEW r \in Request,
            CancelLoad(r) \/ CancelReject(r) \/ CancelSignal(r) \/
            CancelSignalLost(r)
     PROVE  CancelRemembered(i, t)'
      BY <1>15
      DEF CancelLoad, CancelReject, CancelSignal, CancelSignalLost,
          CancelRemembered, TypeOK, Row, Attempt, CancelRequest, Written,
          At, Move, Interrupt, IdleAttempt, Interruptible, Try
<1>16. ASSUME NEW r \in Request, CancelCommit(r) PROVE CancelRemembered(i, t)'
      BY <1>16
      DEF CancelCommit, CancelRemembered, TypeOK, Row, Attempt,
          CancelRequest, Written, At, Move, Interrupt, IdleAttempt,
          Interruptible, Try
<1>17. CASE WorkerShutdown \/ WorkerCrash
      BY <1>17
      DEF WorkerShutdown, WorkerCrash, CancelRemembered, TypeOK, Row,
          Attempt, CancelRequest, Written, At, Move, Interrupt,
          IdleAttempt, Interruptible, Try
<1>18. CASE UNCHANGED vars
      BY <1>18
      DEF vars, CancelRemembered, TypeOK, Row, Attempt, CancelRequest,
          Written, At, Move, Interrupt, IdleAttempt, Interruptible, Try
<1> QED
    BY <1>1, <1>2, <1>3, <1>4, <1>5, <1>6, <1>7, <1>8, <1>9, <1>10,
       <1>11, <1>12, <1>13, <1>14, <1>15, <1>16, <1>17, <1>18, NextSteps

(* An attempt cancelled before its last look at the row never makes the    *)
(* job a success.                                                          *)
THEOREM CancelsSeenBeforeSuccess == Spec => CancelSeenBeforeSuccess
<1>1. ASSUME NEW i \in Job, NEW t \in Try
      PROVE  Spec => CancelSeen(i, t)
  <2>1. CancelledBeforeLook(i, t) => CancelRemembered(i, t)
        BY DEF CancelledBeforeLook, CancelRemembered, At
  <2>2. TypeOK /\ CancelRemembered(i, t) => (tries[i] = t => jobs[i].status # "succeeded")
        BY MaxTriesAssumption DEF TypeOK, CancelRemembered, Try
  <2>3. TypeOK /\ CancelRemembered(i, t) /\ [Next]_vars => CancelRemembered(i, t)'
        BY CancelStaysRemembered
  <2> QED
      BY <2>1, <2>2, <2>3, TypeCorrect, PTL DEF Spec, CancelSeen
<1> QED
    BY <1>1 DEF CancelSeenBeforeSuccess


-----------------------------------------------------------------------------
(* With no cancel a row follows the attempt at it: it says running from    *)
(* the attempt's start until it writes its end.  Where deliveries do not   *)
(* repeat, it also says queued until then.                                 *)
Queued(j) == jobs[j].status = "queued"
RunningRow(j) == jobs[j].status = "running" /\ att[j].copy.status = "running"
Repeats == Faults \cap {"shutdown", "crash"} # {}

LifecycleInv ==
    /\ aborts = {}
    /\ \A j \in Job :
         /\ jobs[j].status # "cancelled"
         /\ att[j].pc = "loaded" => att[j].copy.status = jobs[j].status
         /\ att[j].pc \in Running => RunningRow(j)

OnceInv ==
    \A j \in Job :
        /\ j \in creating => Queued(j) /\ tries[j] = 0
        /\ jobs[j].status = "absent" => tries[j] = 0
        /\ j \in queue /\ att[j].pc = "idle" => Queued(j) /\ tries[j] = 0
        /\ att[j].pc \in {"popped", "loaded"} => Queued(j)

(* At first no attempt is running and no abort is recorded.                *)
LEMMA InitLifecycleInv == Init => LifecycleInv
BY DEF Init, LifecycleInv, NoRow, IdleAttempt, Running

(* Without cancels every step keeps the row in line with the attempt.      *)
LEMMA NextLifecycleInv ==
    ASSUME Request = {}, TypeOK, DeliveryInv, LifecycleInv, [Next]_vars
    PROVE  LifecycleInv'
<1>1. ASSUME NEW j \in Job, CreateJob(j) PROVE LifecycleInv'
      BY <1>1, MaxTriesAssumption
      DEF CreateJob, LifecycleInv, DeliveryInv, TypeOK, Row, Attempt,
          Copy, Written, At, Move, IdleAttempt, Believed, RunningRow,
          Running
<1>2. ASSUME NEW j \in Job, Enqueue(j) PROVE LifecycleInv'
      BY <1>2, MaxTriesAssumption
      DEF Enqueue, LifecycleInv, DeliveryInv, TypeOK, Row, Attempt,
          Copy, Written, At, Move, IdleAttempt, Believed, RunningRow,
          Running
<1>3. ASSUME NEW j \in Job, ArqStart(j) PROVE LifecycleInv'
      BY <1>3, MaxTriesAssumption
      DEF ArqStart, LifecycleInv, DeliveryInv, TypeOK, Row, Attempt,
          Copy, Written, At, Move, IdleAttempt, Believed, RunningRow,
          Running
<1>4. ASSUME NEW j \in Job, ArqFinish(j) PROVE LifecycleInv'
      BY <1>4, MaxTriesAssumption
      DEF ArqFinish, LifecycleInv, DeliveryInv, TypeOK, Row, Attempt,
          Copy, Written, At, Move, IdleAttempt, Believed, RunningRow,
          Running
<1>5. ASSUME NEW j \in Job, ExecLoad(j) PROVE LifecycleInv'
      BY <1>5, MaxTriesAssumption
      DEF ExecLoad, LifecycleInv, DeliveryInv, TypeOK, Row, Attempt,
          Copy, Written, At, Move, IdleAttempt, Believed, RunningRow,
          Running
<1>6. ASSUME NEW j \in Job, ExecStart(j) PROVE LifecycleInv'
      BY <1>6, MaxTriesAssumption
      DEF ExecStart, LifecycleInv, DeliveryInv, TypeOK, Row, Attempt,
          Copy, Written, At, Move, IdleAttempt, Believed, RunningRow,
          Running
<1>7. ASSUME NEW j \in Job, ExecContext(j) PROVE LifecycleInv'
      BY <1>7, MaxTriesAssumption
      DEF ExecContext, LifecycleInv, DeliveryInv, TypeOK, Row,
          Attempt, Copy, Written, At, Move, IdleAttempt, Believed,
          RunningRow, Running
<1>8. ASSUME NEW j \in Job, ExecHandler(j) PROVE LifecycleInv'
      BY <1>8, MaxTriesAssumption
      DEF ExecHandler, LifecycleInv, DeliveryInv, TypeOK, Row,
          Attempt, Copy, Written, At, Move, IdleAttempt, Believed,
          RunningRow, Running
<1>9. ASSUME NEW j \in Job, ExecStoreFile(j) PROVE LifecycleInv'
      BY <1>9, MaxTriesAssumption
      DEF ExecStoreFile, LifecycleInv, DeliveryInv, TypeOK, Row,
          Attempt, Copy, Written, At, Move, IdleAttempt, Believed,
          RunningRow, Running
<1>10. ASSUME NEW j \in Job, ExecRegister(j) PROVE LifecycleInv'
      BY <1>10, MaxTriesAssumption
      DEF ExecRegister, LifecycleInv, DeliveryInv, TypeOK, Row,
          Attempt, Copy, Written, At, Move, IdleAttempt, Believed,
          RunningRow, Running
<1>11. ASSUME NEW j \in Job, ExecRefresh(j) PROVE LifecycleInv'
      BY <1>11, MaxTriesAssumption
      DEF ExecRefresh, LifecycleInv, DeliveryInv, TypeOK, Row,
          Attempt, Copy, Written, At, Move, IdleAttempt, Believed,
          RunningRow, Running
<1>12. ASSUME NEW j \in Job, ExecSucceed(j) PROVE LifecycleInv'
      BY <1>12, MaxTriesAssumption
      DEF ExecSucceed, LifecycleInv, DeliveryInv, TypeOK, Row,
          Attempt, Copy, Written, At, Move, IdleAttempt, Believed,
          RunningRow, Running
<1>13. ASSUME NEW j \in Job, ExecFail(j) PROVE LifecycleInv'
      BY <1>13, MaxTriesAssumption
      DEF ExecFail, LifecycleInv, DeliveryInv, TypeOK, Row, Attempt,
          Copy, Written, At, Move, IdleAttempt, Believed, RunningRow,
          Running
<1>14. ASSUME NEW j \in Job, ExecReturn(j) PROVE LifecycleInv'
      BY <1>14, MaxTriesAssumption
      DEF ExecReturn, LifecycleInv, DeliveryInv, TypeOK, Row, Attempt,
          Copy, Written, At, Move, IdleAttempt, Believed, RunningRow,
          Running
<1>15. ASSUME NEW j \in Job, ExecRaise(j) PROVE LifecycleInv'
      BY <1>15, MaxTriesAssumption
      DEF ExecRaise, LifecycleInv, DeliveryInv, TypeOK, Row, Attempt,
          Copy, Written, At, Move, IdleAttempt, Believed, RunningRow,
          Running
<1>16. ASSUME NEW j \in Job,
            ArqAbortBeforeStart(j) \/ ArqGiveUp(j) \/ ArqAbort(j)
     PROVE  LifecycleInv'
      BY <1>16, MaxTriesAssumption
      DEF ArqAbortBeforeStart, ArqGiveUp, ArqAbort, LifecycleInv,
          DeliveryInv, TypeOK, Row, Attempt, Copy, Written, At, Move,
          IdleAttempt, Believed, RunningRow, Running, Interrupt,
          Interruptible
<1>17. ASSUME NEW j \in Job,
            JobTimeout(j) \/ DatabaseError(j) \/ EnqueueLost(j)
     PROVE  LifecycleInv'
  <2>1. CASE EnqueueLost(j)
        BY <2>1 DEF EnqueueLost, LifecycleInv, RunningRow
  <2>2. CASE JobTimeout(j) \/ DatabaseError(j)
    <3>1. jobs' = jobs /\ aborts' = aborts /\ Interrupt(j)
          BY <2>2 DEF JobTimeout, DatabaseError
    <3>2. \A k \in Job : att'[k] = att[k] \/ att'[k].pc = "returned"
          BY <3>1 DEF Interrupt, Move, TypeOK, Attempt
    <3> QED
        BY <3>1, <3>2 DEF LifecycleInv, RunningRow, Running
  <2> QED
      BY <1>17, <2>1, <2>2
<1>18. CASE WorkerShutdown \/ WorkerCrash
      BY <1>18
      DEF WorkerShutdown, WorkerCrash, Fault, LifecycleInv,
          DeliveryInv, TypeOK, Row, Attempt, Copy, Written, At, Move,
          IdleAttempt, Believed, RunningRow, Running
<1>19. CASE UNCHANGED vars
      BY <1>19
      DEF vars, LifecycleInv, DeliveryInv, TypeOK, Row, Attempt, Copy,
          Written, At, Move, IdleAttempt, Believed, RunningRow,
          Running
<1> QED
    BY <1>1, <1>2, <1>3, <1>4, <1>5, <1>6, <1>7, <1>8, <1>9, <1>10,
       <1>11, <1>12, <1>13, <1>14, <1>15, <1>16, <1>17, <1>18, <1>19,
       NextSteps

(* At first nothing has been delivered.                                    *)
LEMMA InitOnceInv == Init => OnceInv
BY DEF Init, OnceInv, NoRow, IdleAttempt

(* Where deliveries do not repeat every step keeps each job to one of      *)
(* them.                                                                   *)
LEMMA NextOnceInv ==
    ASSUME Request = {}, ~Repeats, TypeOK, DeliveryInv, LifecycleInv, OnceInv,
           [Next]_vars
    PROVE  OnceInv'
<1>1. ASSUME NEW j \in Job, CreateJob(j) PROVE OnceInv'
      BY <1>1, MaxTriesAssumption
      DEF CreateJob, OnceInv, LifecycleInv, DeliveryInv, TypeOK, Row,
          Attempt, Copy, Written, At, Move, IdleAttempt, Believed,
          Queued, Try
<1>2. ASSUME NEW j \in Job, Enqueue(j) PROVE OnceInv'
      BY <1>2, MaxTriesAssumption
      DEF Enqueue, OnceInv, LifecycleInv, DeliveryInv, TypeOK, Row,
          Attempt, Copy, Written, At, Move, IdleAttempt, Believed,
          Queued, Try
<1>3. ASSUME NEW j \in Job, ArqStart(j) PROVE OnceInv'
      BY <1>3, MaxTriesAssumption
      DEF ArqStart, OnceInv, LifecycleInv, DeliveryInv, TypeOK, Row,
          Attempt, Copy, Written, At, Move, IdleAttempt, Believed,
          Queued, Try
<1>4. ASSUME NEW j \in Job, ArqFinish(j) PROVE OnceInv'
      BY <1>4, MaxTriesAssumption
      DEF ArqFinish, OnceInv, LifecycleInv, DeliveryInv, TypeOK, Row,
          Attempt, Copy, Written, At, Move, IdleAttempt, Believed,
          Queued, Try
<1>5. ASSUME NEW j \in Job, ExecLoad(j) PROVE OnceInv'
      BY <1>5, MaxTriesAssumption
      DEF ExecLoad, OnceInv, LifecycleInv, DeliveryInv, TypeOK, Row,
          Attempt, Copy, Written, At, Move, IdleAttempt, Believed,
          Queued, Try
<1>6. ASSUME NEW j \in Job, ExecStart(j) PROVE OnceInv'
      BY <1>6, MaxTriesAssumption
      DEF ExecStart, OnceInv, LifecycleInv, DeliveryInv, TypeOK, Row,
          Attempt, Copy, Written, At, Move, IdleAttempt, Believed,
          Queued, Try
<1>7. ASSUME NEW j \in Job, ExecContext(j) PROVE OnceInv'
      BY <1>7, MaxTriesAssumption
      DEF ExecContext, OnceInv, LifecycleInv, DeliveryInv, TypeOK,
          Row, Attempt, Copy, Written, At, Move, IdleAttempt,
          Believed, Queued, Try
<1>8. ASSUME NEW j \in Job, ExecHandler(j) PROVE OnceInv'
      BY <1>8, MaxTriesAssumption
      DEF ExecHandler, OnceInv, LifecycleInv, DeliveryInv, TypeOK,
          Row, Attempt, Copy, Written, At, Move, IdleAttempt,
          Believed, Queued, Try
<1>9. ASSUME NEW j \in Job, ExecStoreFile(j) PROVE OnceInv'
      BY <1>9, MaxTriesAssumption
      DEF ExecStoreFile, OnceInv, LifecycleInv, DeliveryInv, TypeOK,
          Row, Attempt, Copy, Written, At, Move, IdleAttempt,
          Believed, Queued, Try
<1>10. ASSUME NEW j \in Job, ExecRegister(j) PROVE OnceInv'
      BY <1>10, MaxTriesAssumption
      DEF ExecRegister, OnceInv, LifecycleInv, DeliveryInv, TypeOK,
          Row, Attempt, Copy, Written, At, Move, IdleAttempt,
          Believed, Queued, Try
<1>11. ASSUME NEW j \in Job, ExecRefresh(j) PROVE OnceInv'
      BY <1>11, MaxTriesAssumption
      DEF ExecRefresh, OnceInv, LifecycleInv, DeliveryInv, TypeOK,
          Row, Attempt, Copy, Written, At, Move, IdleAttempt,
          Believed, Queued, Try
<1>12. ASSUME NEW j \in Job, ExecSucceed(j) PROVE OnceInv'
      BY <1>12, MaxTriesAssumption
      DEF ExecSucceed, OnceInv, LifecycleInv, DeliveryInv, TypeOK,
          Row, Attempt, Copy, Written, At, Move, IdleAttempt,
          Believed, Queued, Try
<1>13. ASSUME NEW j \in Job, ExecFail(j) PROVE OnceInv'
      BY <1>13, MaxTriesAssumption
      DEF ExecFail, OnceInv, LifecycleInv, DeliveryInv, TypeOK, Row,
          Attempt, Copy, Written, At, Move, IdleAttempt, Believed,
          Queued, Try
<1>14. ASSUME NEW j \in Job, ExecReturn(j) PROVE OnceInv'
      BY <1>14, MaxTriesAssumption
      DEF ExecReturn, OnceInv, LifecycleInv, DeliveryInv, TypeOK, Row,
          Attempt, Copy, Written, At, Move, IdleAttempt, Believed,
          Queued, Try
<1>15. ASSUME NEW j \in Job, ExecRaise(j) PROVE OnceInv'
      BY <1>15, MaxTriesAssumption
      DEF ExecRaise, OnceInv, LifecycleInv, DeliveryInv, TypeOK, Row,
          Attempt, Copy, Written, At, Move, IdleAttempt, Believed,
          Queued, Try
<1>16. ASSUME NEW j \in Job,
            ArqAbortBeforeStart(j) \/ ArqGiveUp(j) \/ ArqAbort(j)
     PROVE  OnceInv'
      BY <1>16, MaxTriesAssumption
      DEF ArqAbortBeforeStart, ArqGiveUp, ArqAbort, OnceInv,
          LifecycleInv, DeliveryInv, TypeOK, Row, Attempt, Copy,
          Written, At, Move, IdleAttempt, Believed, Queued, Try,
          Interrupt, Interruptible
<1>17. ASSUME NEW j \in Job,
            JobTimeout(j) \/ DatabaseError(j) \/ EnqueueLost(j)
     PROVE  OnceInv'
  <2>1. CASE EnqueueLost(j)
        BY <2>1 DEF EnqueueLost, OnceInv, Queued
  <2>2. CASE JobTimeout(j) \/ DatabaseError(j)
    <3>1. /\ jobs' = jobs /\ creating' = creating /\ queue' = queue
          /\ tries' = tries /\ Interrupt(j)
          BY <2>2 DEF JobTimeout, DatabaseError
    <3>2. \A k \in Job : att'[k] = att[k] \/ att'[k].pc = "returned"
          BY <3>1 DEF Interrupt, Move, TypeOK, Attempt
    <3> QED
        BY <3>1, <3>2 DEF OnceInv, Queued
  <2> QED
      BY <1>17, <2>1, <2>2
<1>18. CASE WorkerShutdown \/ WorkerCrash
      BY <1>18
      DEF WorkerShutdown, WorkerCrash, Fault, Repeats
<1>19. CASE UNCHANGED vars
      BY <1>19
      DEF vars, OnceInv, LifecycleInv, DeliveryInv, TypeOK, Row,
          Attempt, Copy, Written, At, Move, IdleAttempt, Believed,
          Queued, Try
<1> QED
    BY <1>1, <1>2, <1>3, <1>4, <1>5, <1>6, <1>7, <1>8, <1>9, <1>10,
       <1>11, <1>12, <1>13, <1>14, <1>15, <1>16, <1>17, <1>18, <1>19,
       NextSteps

(* A step of Jobs is a step of the abstract lifecycle, or a stutter.       *)
LEMMA LifecycleStep ==
    ASSUME Request = {}, TypeOK, DeliveryInv, LifecycleInv, Repeats \/ OnceInv, [Next]_vars
    PROVE  [Lifecycle!Next]_[j \in Job |-> jobs[j].status]
<1> DEFINE Goal == [Lifecycle!Next]_[j \in Job |-> jobs[j].status]
<1>1. ASSUME NEW j \in Job, CreateJob(j) PROVE Goal
  <2>1. jobs[j].status = "absent"
        BY <1>1 DEF CreateJob
  <2>2. jobs'[j].status = "queued" /\ \A k \in Job : k # j => jobs'[k] = jobs[k]
        BY <1>1, <2>1 DEF CreateJob, TypeOK, Row
  <2>3. Lifecycle!Move(j, "absent", "queued")
        BY <2>1, <2>2 DEF Lifecycle!Move
  <2> QED
      BY <2>3 DEF Lifecycle!Next, Lifecycle!Create
<1>2. ASSUME NEW j \in Job, ExecStart(j) PROVE Goal
  <2>1. att[j].copy.status = jobs[j].status
        BY <1>2 DEF ExecStart, At, LifecycleInv
  <2>2. /\ jobs'[j].status = "running"
        /\ \A k \in Job : k # j => jobs'[k] = jobs[k]
        BY <1>2, <2>1 DEF ExecStart, TypeOK, Row, Written
  <2>3. jobs[j].status \in {"queued", "running", "succeeded", "failed"}
        BY <1>2 DEF ExecStart, At, DeliveryInv, LifecycleInv, TypeOK, Row, Status
  <2>4. CASE jobs[j].status = "running"
    <3>1. \A k \in Job : jobs'[k].status = jobs[k].status
          BY <2>2, <2>4
    <3> QED
        BY <3>1
  <2>5. CASE jobs[j].status = "queued"
    <3>1. Lifecycle!Move(j, "queued", "running")
          BY <2>2, <2>5 DEF Lifecycle!Move
    <3> QED
        BY <3>1 DEF Lifecycle!Next, Lifecycle!Start
  <2>6. CASE jobs[j].status \in {"succeeded", "failed"}
    <3>1. Repeats
          BY <1>2, <2>6 DEF ExecStart, At, OnceInv, Queued
    <3>2. Lifecycle!Move(j, "succeeded", "running") \/ Lifecycle!Move(j, "failed", "running")
          BY <2>2, <2>6 DEF Lifecycle!Move
    <3> QED
        BY <3>1, <3>2 DEF Lifecycle!Next, Lifecycle!Again, Repeats
  <2> QED
      BY <2>3, <2>4, <2>5, <2>6
<1>3. ASSUME NEW j \in Job, ExecSucceed(j) PROVE Goal
  <2>1. jobs[j].status = "running"
        BY <1>3 DEF ExecSucceed, At, LifecycleInv, RunningRow, Running
  <2>2. jobs'[j].status = "succeeded" /\ \A k \in Job : k # j => jobs'[k] = jobs[k]
        BY <1>3, <2>1 DEF ExecSucceed, TypeOK, Row, Written, At, LifecycleInv, RunningRow, Running
  <2>3. Lifecycle!Move(j, "running", "succeeded")
        BY <2>1, <2>2 DEF Lifecycle!Move
  <2> QED
      BY <2>3 DEF Lifecycle!Next, Lifecycle!Finish
<1>4. ASSUME NEW j \in Job, ExecFail(j) PROVE Goal
  <2>1. jobs[j].status = "running"
        BY <1>4 DEF ExecFail, At, LifecycleInv, RunningRow, Running
  <2>2. jobs'[j].status = "failed" /\ \A k \in Job : k # j => jobs'[k] = jobs[k]
        BY <1>4, <2>1 DEF ExecFail, TypeOK, Row, Written, At, LifecycleInv, RunningRow, Running
  <2>3. Lifecycle!Move(j, "running", "failed")
        BY <2>1, <2>2 DEF Lifecycle!Move
  <2> QED
      BY <2>3 DEF Lifecycle!Next, Lifecycle!Finish
<1>5. ASSUME NEW j \in Job, ExecContext(j) PROVE Goal
  <2>1. \A k \in Job : jobs'[k].status = jobs[k].status
        BY <1>5 DEF ExecContext, TypeOK, Row
  <2> QED
      BY <2>1
<1>6. ASSUME NEW j \in Job,
            Enqueue(j) \/ ArqStart(j) \/ ArqAbortBeforeStart(j) \/
            ArqGiveUp(j) \/ ArqFinish(j)
     PROVE  Goal
      BY <1>6 DEF Enqueue, ArqStart, ArqAbortBeforeStart, ArqGiveUp, ArqFinish
<1>7. ASSUME NEW j \in Job,
            ArqAbort(j) \/ ExecLoad(j) \/ ExecHandler(j) \/
            ExecStoreFile(j)
     PROVE  Goal
      BY <1>7 DEF ArqAbort, ExecLoad, ExecHandler, ExecStoreFile
<1>8. ASSUME NEW j \in Job,
            ExecRegister(j) \/ ExecRefresh(j) \/ ExecRaise(j) \/
            ExecReturn(j)
     PROVE  Goal
      BY <1>8 DEF ExecRegister, ExecRefresh, ExecRaise, ExecReturn
<1>9. ASSUME NEW j \in Job,
            JobTimeout(j) \/ DatabaseError(j) \/ EnqueueLost(j)
     PROVE  Goal
      BY <1>9 DEF JobTimeout, DatabaseError, EnqueueLost
<1>10. CASE WorkerShutdown \/ WorkerCrash
      BY <1>10 DEF WorkerShutdown, WorkerCrash
<1>11. CASE UNCHANGED vars
      BY <1>11 DEF vars
<1> QED
    BY <1>1, <1>2, <1>3, <1>4, <1>5, <1>6, <1>7, <1>8, <1>9, <1>10,
       <1>11, NextSteps

(* As long as nobody cancels, the rows move as the README's lifecycle      *)
(* says, for any number of jobs and of worker slots and under any fault;   *)
(* unless the worker may be stopped, each job goes through it only once.   *)
THEOREM ImplementsLifecycle ==
    ASSUME Request = {}
    PROVE  Spec => Lifecycle!Safety
<1>1. Init => Lifecycle!Init
      BY DEF Init, Lifecycle!Init, NoRow
<1>2. TypeOK /\ DeliveryInv /\ LifecycleInv /\ [Next]_vars => LifecycleInv'
      BY NextLifecycleInv
<1>3. CASE Repeats
  <2>1. TypeOK /\ DeliveryInv /\ LifecycleInv /\ [Next]_vars =>
          [Lifecycle!Next]_[j \in Job |-> jobs[j].status]
        BY <1>3, LifecycleStep
  <2> QED
      BY <1>1, <1>2, <2>1, InitLifecycleInv, InitDeliveryInv, NextDeliveryInv, TypeCorrect, PTL
      DEF Spec, Lifecycle!Safety
<1>4. CASE ~Repeats
  <2>1. TypeOK /\ DeliveryInv /\ LifecycleInv /\ OnceInv /\ [Next]_vars => OnceInv'
        BY <1>4, NextOnceInv
  <2>2. TypeOK /\ DeliveryInv /\ LifecycleInv /\ OnceInv /\ [Next]_vars =>
          [Lifecycle!Next]_[j \in Job |-> jobs[j].status]
        BY LifecycleStep
  <2> QED
      BY <1>1, <1>2, <2>1, <2>2, InitLifecycleInv, InitOnceInv, InitDeliveryInv,
         NextDeliveryInv, TypeCorrect, PTL
      DEF Spec, Lifecycle!Safety
<1> QED
    BY <1>3, <1>4

-----------------------------------------------------------------------------
(* Where deliveries only come again, every delivery of a job after the     *)
(* first has cost a fault, so that none is given up while faults are fewer *)
(* than tries; and an attempt that has come to its end has settled its row.*)
Ended(j) == jobs[j].status \in Terminal

LiveInv ==
    /\ faults \in 0..MaxFaults
    /\ \A j \in Job :
         /\ j \in creating => tries[j] = 0
         /\ jobs[j].status = "absent" => tries[j] = 0
         /\ j \in queue /\ att[j].pc = "idle" => tries[j] <= faults
         /\ att[j].pc # "idle" => tries[j] <= faults + 1
         /\ att[j].pc \in {"ending", "returned"} => Ended(j)
         /\ jobs[j].status \in {"queued", "running"} => j \in queue \cup creating

(* At first there is no row and no delivery.                               *)
LEMMA InitLiveInv == Init => LiveInv
BY FaultsAssumption DEF Init, LiveInv, NoRow, IdleAttempt

(* Every step keeps the count, and takes no delivery from an unsettled row.*)
LEMMA NextLiveInv ==
    ASSUME Request = {}, Faults \subseteq {"shutdown", "crash"}, MaxFaults < MaxTries,
           TypeOK, DeliveryInv, LifecycleInv, LiveInv, [Next]_vars
    PROVE  LiveInv'
<1> USE FaultsAssumption, MaxTriesAssumption DEF Try
<1>1. ASSUME NEW j \in Job, CreateJob(j) \/ Enqueue(j) PROVE LiveInv'
      BY <1>1 DEF CreateJob, Enqueue, LiveInv, DeliveryInv, TypeOK, Row, Ended, Terminal
<1>2. ASSUME NEW j \in Job, ArqStart(j) PROVE LiveInv'
      BY <1>2 DEF ArqStart, At, IdleAttempt, LiveInv, DeliveryInv, TypeOK, Attempt, Ended
<1>3. ASSUME NEW j \in Job, ArqGiveUp(j) \/ ArqAbortBeforeStart(j) \/ ArqAbort(j) PROVE LiveInv'
  <2>1. ~ArqAbortBeforeStart(j) /\ ~ArqAbort(j)
        BY DEF ArqAbortBeforeStart, ArqAbort, LifecycleInv
  <2>2. ~ArqGiveUp(j)
        BY DEF ArqGiveUp, At, LiveInv, TypeOK
  <2> QED
      BY <1>3, <2>1, <2>2
<1>4. ASSUME NEW j \in Job, ArqFinish(j) PROVE LiveInv'
      BY <1>4 DEF ArqFinish, At, IdleAttempt, LiveInv, DeliveryInv, TypeOK, Attempt, Ended, Terminal
<1>5. ASSUME NEW j \in Job, Execute(j) \/ ExecRaise(j) PROVE LiveInv'
  <2> DEFINE pc == att'[j].pc  status == jobs'[j].status
  <2>1. /\ j \in queue /\ att[j].pc # "idle" /\ pc # "idle"
        /\ att' = [att EXCEPT ![j] = att'[j]]
        BY <1>5 DEF Execute, ExecLoad, ExecStart, ExecContext, ExecHandler, ExecStoreFile,
                    ExecRegister, ExecRefresh, ExecSucceed, ExecFail, ExecReturn, ExecRaise,
                    Move, At, TypeOK, Attempt, DeliveryInv
  <2>2. UNCHANGED <<creating, queue, tries, faults>>
        BY <1>5 DEF Execute, ExecLoad, ExecStart, ExecContext, ExecHandler, ExecStoreFile,
                    ExecRegister, ExecRefresh, ExecSucceed, ExecFail, ExecReturn, ExecRaise
  <2>3. ASSUME NEW k \in Job, k # j PROVE jobs'[k] = jobs[k]
        BY <1>5, <2>3 DEF Execute, ExecLoad, ExecStart, ExecContext, ExecHandler, ExecStoreFile,
                    ExecRegister, ExecRefresh, ExecSucceed, ExecFail, ExecReturn, ExecRaise,
                    TypeOK
  <2>4. status # "absent" /\ (pc \in {"ending", "returned"} => status \in Terminal)
    <3>1. jobs[j].status # "absent"
          BY <2>1 DEF DeliveryInv
    <3>2. CASE ExecStart(j)
          BY <3>1, <3>2 DEF ExecStart, Written, At, TypeOK, Attempt, Row
    <3>3. CASE ExecSucceed(j) \/ ExecFail(j)
          BY <3>1, <3>3 DEF ExecSucceed, ExecFail, Written, At, LifecycleInv, RunningRow, Running,
                            TypeOK, Row, Terminal
    <3>4. CASE ExecReturn(j)
          BY <3>1, <3>4 DEF ExecReturn, At, LiveInv, Ended
    <3>5. CASE ExecRefresh(j)
          BY <3>1, <3>5 DEF ExecRefresh, At, LifecycleInv, TypeOK, Attempt
    <3>6. CASE ExecContext(j)
          BY <3>1, <3>6 DEF ExecContext, Move, At, TypeOK, Attempt, Row
    <3>7. CASE ExecLoad(j) \/ ExecHandler(j) \/ ExecStoreFile(j) \/ ExecRegister(j) \/ ExecRaise(j)
          BY <3>1, <3>7 DEF ExecLoad, ExecHandler, ExecStoreFile, ExecRegister, ExecRaise, Move, At,
                            TypeOK, Attempt
    <3> QED
        BY <1>5, <3>2, <3>3, <3>4, <3>5, <3>6, <3>7 DEF Execute
  <2> HIDE DEF pc, status
  <2>5. ASSUME NEW k \in Job
        PROVE  /\ k \in creating => tries[k] = 0
               /\ jobs'[k].status = "absent" => tries[k] = 0
               /\ k \in queue /\ att'[k].pc = "idle" => tries[k] <= faults
               /\ att'[k].pc # "idle" => tries[k] <= faults + 1
               /\ att'[k].pc \in {"ending", "returned"} => Ended(k)'
               /\ jobs'[k].status \in {"queued", "running"} => k \in queue \cup creating
    <3>1. CASE k = j
          BY <2>1, <2>4, <3>1 DEF pc, status, LiveInv, Ended
    <3>2. CASE k # j
          BY <2>1, <2>3, <3>2 DEF LiveInv, Ended, TypeOK
    <3> QED
        BY <3>1, <3>2
  <2> QED
      BY <2>2, <2>5 DEF LiveInv
<1>6. ASSUME NEW j \in Job, JobTimeout(j) \/ DatabaseError(j) \/ EnqueueLost(j) PROVE LiveInv'
      BY <1>6 DEF JobTimeout, DatabaseError, EnqueueLost, Fault
<1>7. CASE WorkerShutdown
      BY <1>7 DEF WorkerShutdown, Fault, Interruptible, Place, At, IdleAttempt, LiveInv,
                   DeliveryInv, TypeOK, Attempt, Ended
<1>8. CASE WorkerCrash
      BY <1>8 DEF WorkerCrash, Fault, IdleAttempt, LiveInv, DeliveryInv, TypeOK, Attempt, Ended
<1>9. CASE UNCHANGED vars
      BY <1>9 DEF vars, LiveInv, Ended
<1> QED
    BY <1>1, <1>2, <1>3, <1>4, <1>5, <1>6, <1>7, <1>8, <1>9,
       NextSteps DEF Execute

(* Where nothing is cancelled and deliveries only come again, fewer times  *)
(* than arq tries, a row that is not over is never left for nobody.        *)
THEOREM UnsettledRowsLive ==
    ASSUME Request = {}, Faults \subseteq {"shutdown", "crash"}, MaxFaults < MaxTries
    PROVE  Spec => []UnsettledIsLive
<1>1. LiveInv => UnsettledIsLive
      BY DEF LiveInv, UnsettledIsLive
<1>2. TypeOK /\ DeliveryInv /\ [Next]_vars => DeliveryInv'
      BY NextDeliveryInv
<1>3. TypeOK /\ DeliveryInv /\ LifecycleInv /\ [Next]_vars => LifecycleInv'
      BY NextLifecycleInv
<1>4. TypeOK /\ DeliveryInv /\ LifecycleInv /\ LiveInv /\ [Next]_vars => LiveInv'
      BY NextLiveInv
<1> QED
    BY <1>1, <1>2, <1>3, <1>4, InitDeliveryInv, InitLifecycleInv, InitLiveInv, TypeCorrect, PTL
    DEF Spec

=============================================================================
