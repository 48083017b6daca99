--------------------------- MODULE JobEventsProofs ---------------------------
(* What the event streams of JobEvents tell their clients, for any number  *)
(* of streams and jobs, every limit and every choice of faults.            *)
EXTENDS JobEvents, JobsProofs

Snap == [status : Status, progress : {0, 10, 50, 100}]
StreamRow == [pc : {"idle", "open", "closed", "gone"}, job : Job, last : Snap, try : Try]

(* A stream has been told of what the row said in the delivery it shows or *)
(* in an earlier one, and the row has moved on since, not back.            *)
Followed(s) ==
    LET j == stream[s].job IN
    /\ stream[s].try <= Shown(j)
    /\ stream[s].try = Shown(j) => ~Behind(Snapshot(j), stream[s].last)

(* An attempt begins at progress 10, and counts from its delivery.         *)
StartInv ==
    \A j \in Job : /\ att[j].pc = "started" => jobs[j].progress = 10
                   /\ att[j].pc \in {"popped", "loaded"} => tries[j] > 0

EventsInv ==
    /\ TypeOK /\ StartInv
    /\ stream \in [Stream -> StreamRow]
    /\ \A s \in Stream : Followed(s)

(* The try a row shows is one of arq's.                                    *)
LEMMA ShownType == ASSUME TypeOK, StartInv, NEW j \in Job PROVE Shown(j) \in Try
BY MaxTriesAssumption DEF TypeOK, StartInv, Shown, At, Try

(* What a poll reads has the type of a snapshot.                           *)
LEMMA SnapshotType == ASSUME TypeOK, NEW j \in Job PROVE Snapshot(j) \in Snap
BY DEF TypeOK, Row, Snapshot, Snap

(* The same after a step.                                                  *)
LEMMA NextTypes ==
    ASSUME TypeOK', StartInv', NEW j \in Job
    PROVE  Shown(j)' \in Try /\ Snapshot(j)' \in Snap
BY MaxTriesAssumption DEF TypeOK, StartInv, Shown, At, Try, Row, Snapshot, Snap

(* A row goes back only with the start of a new delivery.                  *)
LEMMA RowsGoForward ==
    ASSUME TypeOK, StartInv, [Next]_vars
    PROVE  /\ StartInv'
           /\ \A j \in Job : /\ Shown(j)' >= Shown(j)
                             /\ Shown(j)' = Shown(j) => ~Behind(Snapshot(j)', Snapshot(j))
<1> USE MaxTriesAssumption DEF Try
<1> DEFINE Forward(j) == /\ Shown(j)' >= Shown(j)
                         /\ Shown(j)' = Shown(j) => ~Behind(Snapshot(j)', Snapshot(j))
<1>1. ASSUME NEW j \in Job, jobs'[j] = jobs[j], Shown(j)' >= Shown(j) PROVE Forward(j)
      BY <1>1 DEF Snapshot, Behind, Rank, TypeOK, Row
<1>2. ASSUME NEW j \in Job, jobs'[j] = jobs[j], att'[j] = att[j], tries'[j] = tries[j]
      PROVE  Forward(j)
      BY <1>1, <1>2 DEF Shown, At, TypeOK
<1>3. ASSUME NEW i \in Job, ExecStart(i) PROVE StartInv' /\ \A j \in Job : Forward(j)
  <2>1. StartInv'
        BY <1>3 DEF ExecStart, StartInv, At, TypeOK, Attempt, Row
  <2>2. Shown(i) = tries[i] - 1 /\ Shown(i)' = tries[i] /\ tries[i] \in Nat
        BY <1>3 DEF ExecStart, Shown, At, TypeOK, Attempt
  <2>3. ASSUME NEW j \in Job, j # i
        PROVE  jobs'[j] = jobs[j] /\ att'[j] = att[j] /\ tries'[j] = tries[j]
        BY <1>3, <2>3 DEF ExecStart, TypeOK
  <2>4. Forward(i)
        BY <2>2
  <2> QED
      BY <1>2, <2>1, <2>3, <2>4
<1>4. ASSUME NEW i \in Job, ExecContext(i) \/ ExecSucceed(i) \/ ExecFail(i)
      PROVE  StartInv' /\ \A j \in Job : Forward(j)
  <2>1. StartInv'
    <3>1. \/ ExecContext(i) /\ att' = [att EXCEPT ![i].pc = "handler"]
          \/ ~ExecContext(i) /\ att' = [att EXCEPT ![i].pc = "ending"]
          BY <1>4 DEF ExecContext, ExecSucceed, ExecFail, Move, At
    <3>2. att'[i].pc \in {"handler", "ending"} /\ UNCHANGED tries
          BY <1>4, <3>1 DEF ExecContext, ExecSucceed, ExecFail, TypeOK, Attempt
    <3>3. ASSUME NEW j \in Job, j # i PROVE jobs'[j] = jobs[j] /\ att'[j] = att[j]
          BY <1>4, <3>3 DEF ExecContext, ExecSucceed, ExecFail, Move, TypeOK
    <3> QED
        BY <3>2, <3>3 DEF StartInv
  <2>2. Shown(i)' = Shown(i)
        BY <1>4 DEF ExecContext, ExecSucceed, ExecFail, Move, Shown, At, TypeOK, Attempt
  <2>3. ASSUME NEW j \in Job, j # i
        PROVE  jobs'[j] = jobs[j] /\ att'[j] = att[j] /\ tries'[j] = tries[j]
        BY <1>4, <2>3 DEF ExecContext, ExecSucceed, ExecFail, Move, TypeOK
  <2>4. /\ jobs'[i].status \in {jobs[i].status, "succeeded", "failed"}
        /\ \/ jobs'[i].progress \in {jobs[i].progress, 100}
           \/ jobs'[i].progress = 50 /\ jobs[i].progress = 10
    <3>1. CASE ExecContext(i)
          BY <3>1 DEF ExecContext, StartInv, At, TypeOK, Row
    <3>2. CASE ExecSucceed(i)
          BY <3>2 DEF ExecSucceed, Written, TypeOK, Row
    <3>3. CASE ExecFail(i)
          BY <3>3 DEF ExecFail, Written, TypeOK, Row
    <3> QED
        BY <1>4, <3>1, <3>2, <3>3
  <2>5. ~Behind(Snapshot(i)', Snapshot(i))
        BY <2>4 DEF Snapshot, Behind, Rank, TypeOK, Row
  <2>6. Shown(i) \in Try
        BY ShownType
  <2> QED
      BY <1>2, <2>1, <2>2, <2>3, <2>5, <2>6
<1>5. ASSUME NEW i \in Job, CreateJob(i) PROVE StartInv' /\ \A j \in Job : Forward(j)
  <2>1. StartInv'
        BY <1>5 DEF CreateJob, StartInv, TypeOK, Row
  <2>2. Shown(i)' = Shown(i) /\ Shown(i) \in Try
        BY <1>5, ShownType DEF CreateJob, Shown, At
  <2>3. ~Behind(Snapshot(i)', Snapshot(i))
        BY <1>5 DEF CreateJob, Snapshot, Behind, Rank, TypeOK, Row
  <2>4. ASSUME NEW j \in Job, j # i
        PROVE  jobs'[j] = jobs[j] /\ att'[j] = att[j] /\ tries'[j] = tries[j]
        BY <1>5, <2>4 DEF CreateJob, TypeOK
  <2> QED
      BY <1>2, <2>1, <2>2, <2>3, <2>4
<1>6. ASSUME NEW r \in Request, CancelCommit(r) PROVE StartInv' /\ \A j \in Job : Forward(j)
  <2>1. PICK i \in Job : i = req[r].job
        BY DEF TypeOK, CancelRequest
  <2>2. UNCHANGED <<att, tries>>
        BY <1>6 DEF CancelCommit
  <2>3. \A j \in Job : jobs'[j].progress = jobs[j].progress
        BY <1>6, <2>1 DEF CancelCommit, TypeOK, Row
  <2>4. StartInv'
        BY <2>2, <2>3 DEF StartInv
  <2>5. \A j \in Job : Shown(j)' = Shown(j) /\ Shown(j) \in Try
        BY <2>2, ShownType DEF Shown, At
  <2>6. /\ jobs'[i].status = "cancelled"
        /\ jobs'[i].progress = jobs[i].progress
        BY <1>6, <2>1 DEF CancelCommit, Written, Cancellable, TypeOK, Row
  <2>7. ~Behind(Snapshot(i)', Snapshot(i))
        BY <2>1, <2>6 DEF Snapshot, Behind, Rank, TypeOK, Row
  <2>8. ASSUME NEW j \in Job, j # i PROVE jobs'[j] = jobs[j]
        BY <1>6, <2>1, <2>8 DEF CancelCommit, TypeOK
  <2> QED
      BY <1>2, <2>4, <2>5, <2>7, <2>8, <2>2
<1>7. ASSUME UNCHANGED jobs, StartInv', \A j \in Job : Shown(j)' >= Shown(j)
      PROVE  \A j \in Job : Forward(j)
      BY <1>1, <1>7
<1>8. ASSUME NEW i \in Job,
             ArqStart(i) \/ ArqFinish(i) \/ ExecLoad(i) \/ ExecHandler(i) \/ ExecStoreFile(i)
             \/ ExecRegister(i) \/ ExecRefresh(i) \/ ExecReturn(i) \/ ExecRaise(i)
             \/ ArqAbort(i) \/ JobTimeout(i) \/ DatabaseError(i)
      PROVE  StartInv' /\ \A j \in Job : Forward(j)
  <2>1. UNCHANGED jobs
        BY <1>8 DEF ArqStart, ArqFinish, ExecLoad, ExecHandler, ExecStoreFile, ExecRegister,
                    ExecRefresh, ExecReturn, ExecRaise, ArqAbort, JobTimeout, DatabaseError
  <2>2. ASSUME NEW j \in Job, j # i PROVE att'[j] = att[j] /\ tries'[j] = tries[j]
        BY <1>8, <2>2 DEF ArqStart, ArqFinish, ExecLoad, ExecHandler, ExecStoreFile, ExecRegister,
                    ExecRefresh, ExecReturn, ExecRaise, ArqAbort, JobTimeout, DatabaseError,
                    Interrupt, Move, TypeOK
  <2>3. /\ att'[i].pc # "started"
        /\ \/ tries'[i] = tries[i] /\ att'[i].pc \notin {"popped", "loaded"}
           \/ tries'[i] = tries[i] /\ att[i].pc = "popped"
           \/ tries'[i] = tries[i] + 1 /\ att'[i].pc = "popped" /\ att[i].pc = "idle"
        BY <1>8 DEF ArqStart, ArqFinish, ExecLoad, ExecHandler, ExecStoreFile, ExecRegister,
                    ExecRefresh, ExecReturn, ExecRaise, ArqAbort, JobTimeout, DatabaseError,
                    Interrupt, Move, IdleAttempt, At, TypeOK, Attempt
  <2>4. tries[i] \in Nat /\ (att[i].pc = "popped" => tries[i] > 0)
        BY DEF StartInv, TypeOK
  <2>5. StartInv'
        BY <2>1, <2>2, <2>3, <2>4 DEF StartInv
  <2>6. Shown(i)' >= Shown(i)
        BY <2>3, <2>4 DEF Shown, At
  <2>7. ASSUME NEW j \in Job, j # i PROVE Shown(j)' >= Shown(j)
        BY <2>2, <2>7 DEF Shown, At, TypeOK
  <2> QED
      BY <1>7, <2>1, <2>5, <2>6, <2>7
<1>9. ASSUME WorkerShutdown \/ WorkerCrash PROVE StartInv' /\ \A j \in Job : Forward(j)
  <2>1. UNCHANGED <<jobs, tries>>
        BY <1>9 DEF WorkerShutdown, WorkerCrash
  <2>2. ASSUME NEW j \in Job PROVE att'[j] = att[j] \/ att'[j] = IdleAttempt
        BY <1>9 DEF WorkerShutdown, WorkerCrash
  <2>3. StartInv'
        BY <2>1, <2>2 DEF StartInv, IdleAttempt
  <2>4. ASSUME NEW j \in Job PROVE Shown(j)' >= Shown(j)
        BY <2>1, <2>2 DEF Shown, At, IdleAttempt, TypeOK
  <2> QED
      BY <1>7, <2>1, <2>3, <2>4
<1>10. ASSUME UNCHANGED <<jobs, att, tries>> PROVE StartInv' /\ \A j \in Job : Forward(j)
       BY <1>2, <1>10 DEF StartInv
<1>11. ASSUME NEW i \in Job, Enqueue(i) \/ ArqAbortBeforeStart(i) \/ ArqGiveUp(i) \/ EnqueueLost(i)
       PROVE  UNCHANGED <<jobs, att, tries>>
       BY <1>11 DEF Enqueue, ArqAbortBeforeStart, ArqGiveUp, EnqueueLost
<1>12. ASSUME NEW r \in Request,
              CancelLoad(r) \/ CancelReject(r) \/ CancelSignal(r) \/ CancelSignalLost(r)
       PROVE  UNCHANGED <<jobs, att, tries>>
       BY <1>12 DEF CancelLoad, CancelReject, CancelSignal, CancelSignalLost
<1>13. UNCHANGED vars => UNCHANGED <<jobs, att, tries>>
       BY DEF vars
<1> HIDE DEF Forward
<1>14. StartInv' /\ \A j \in Job : Forward(j)
  <2>1. CASE UNCHANGED <<jobs, att, tries>>
        BY <1>10, <2>1
  <2>2. CASE \E j \in Job :
               \/ CreateJob(j) \/ Enqueue(j)
               \/ ArqStart(j) \/ ArqAbortBeforeStart(j) \/ ArqGiveUp(j) \/ ArqFinish(j)
               \/ ExecLoad(j) \/ ExecStart(j) \/ ExecContext(j) \/ ExecHandler(j)
               \/ ExecStoreFile(j) \/ ExecRegister(j) \/ ExecRefresh(j)
               \/ ExecSucceed(j) \/ ExecFail(j) \/ ExecReturn(j) \/ ExecRaise(j)
               \/ ArqAbort(j) \/ JobTimeout(j) \/ DatabaseError(j) \/ EnqueueLost(j)
        BY <1>3, <1>4, <1>5, <1>8, <1>11, <2>1, <2>2
  <2>3. CASE \E r \in Request :
               \/ CancelLoad(r) \/ CancelReject(r) \/ CancelCommit(r)
               \/ CancelSignal(r) \/ CancelSignalLost(r)
        BY <1>6, <1>12, <2>1, <2>3
  <2>4. CASE UNCHANGED vars
        BY <1>13, <2>1, <2>4
  <2>5. CASE WorkerShutdown \/ WorkerCrash
        BY <1>9, <2>5
  <2> QED
      BY <2>2, <2>3, <2>4, <2>5, NextSteps
<1> QED
    BY <1>14 DEF Forward

-----------------------------------------------------------------------------

(* A snapshot not behind one that is not behind a third is not behind      *)
(* that.                                                                   *)
LEMMA BehindIsTransitive ==
    ASSUME NEW a \in Snap, NEW b \in Snap, NEW c \in Snap, ~Behind(a, b), ~Behind(b, c)
    PROVE  ~Behind(a, c)
<1>1. \A x \in Snap : Rank(x.status) \in 0..3 /\ x.progress \in Nat
      BY DEF Snap, Status, Rank
<1>2. \A x, y, z \in Nat : x >= y /\ y >= z => x >= z
      OBVIOUS
<1> QED
    BY <1>1, <1>2 DEF Behind

(* A stream whose job is as it was, and told nothing, is where it was.     *)
LEMMA StreamFollows ==
    ASSUME EventsInv, TypeOK', StartInv', NEW s \in Stream, stream'[s] = stream[s],
           \A j \in Job : /\ Shown(j)' >= Shown(j)
                          /\ Shown(j)' = Shown(j) => ~Behind(Snapshot(j)', Snapshot(j))
    PROVE  Followed(s)'
<1>1. PICK j \in Job : j = stream[s].job
      BY DEF EventsInv, StreamRow
<1>2. /\ stream[s].try <= Shown(j)
      /\ stream[s].try = Shown(j) => ~Behind(Snapshot(j), stream[s].last)
      BY <1>1 DEF EventsInv, Followed
<1>3. stream[s].try \in Try /\ stream[s].last \in Snap
      BY DEF EventsInv, StreamRow
<1>4. Shown(j) \in Try /\ Snapshot(j) \in Snap
      BY ShownType, SnapshotType DEF EventsInv
<1>5. Shown(j)' \in Try /\ Snapshot(j)' \in Snap
      BY NextTypes
<1>6. /\ stream[s].try <= Shown(j)'
      /\ stream[s].try = Shown(j)' => ~Behind(Snapshot(j)', stream[s].last)
  <2>1. Shown(j)' >= Shown(j) /\ (Shown(j)' = Shown(j) => ~Behind(Snapshot(j)', Snapshot(j)))
        OBVIOUS
  <2>2. stream[s].try <= Shown(j)' /\ (stream[s].try = Shown(j)' => Shown(j)' = Shown(j))
        BY <1>2, <1>3, <1>4, <1>5, <2>1, MaxTriesAssumption DEF Try
  <2> QED
      BY <1>2, <1>3, <1>4, <1>5, <2>1, <2>2, BehindIsTransitive
<1> QED
    BY <1>1, <1>6 DEF Followed

(* A stream that has told nothing is behind no row.                        *)
LEMMA NothingToFollow ==
    ASSUME TypeOK, StartInv, NEW j \in Job
    PROVE  Nothing \in Snap /\ 0 <= Shown(j) /\ ~Behind(Snapshot(j), Nothing)
<1>1. Nothing \in Snap /\ Snapshot(j) \in Snap
      BY SnapshotType DEF Nothing, Snap, Status
<1>2. 0 <= Shown(j)
      BY ShownType, MaxTriesAssumption DEF Try
<1>3. \A x \in Snap : Rank(x.status) \in 0..3 /\ x.progress \in Nat
      BY DEF Snap, Status, Rank
<1>4. Rank(Nothing.status) = 0 /\ Nothing.progress = 0
      BY DEF Nothing, Rank
<1> QED
    BY <1>1, <1>2, <1>3, <1>4 DEF Behind

(* At first no stream is open.                                             *)
LEMMA InitEvents == EventsInit => EventsInv
<1> SUFFICES ASSUME EventsInit PROVE EventsInv
    OBVIOUS
<1>1. TypeOK /\ StartInv
      BY InitTypeOK DEF EventsInit, Init, StartInv, IdleAttempt
<1>2. \A j \in Job : Nothing \in Snap /\ 0 <= Shown(j) /\ ~Behind(Snapshot(j), Nothing)
      BY <1>1, NothingToFollow
<1>3. stream \in [Stream -> StreamRow]
  <2>1. CASE Job = {}
        BY <2>1 DEF EventsInit, StreamRow
  <2>2. CASE Job # {}
        BY <1>2, <2>2, MaxTriesAssumption DEF EventsInit, StreamRow, Try
  <2> QED
      BY <2>1, <2>2
<1>4. ASSUME NEW s \in Stream PROVE Followed(s)
  <2>1. stream[s].job \in Job /\ stream[s].last = Nothing /\ stream[s].try = 0
        BY DEF EventsInit
  <2> QED
      BY <1>2, <2>1 DEF Followed
<1> QED
    BY <1>1, <1>3, <1>4 DEF EventsInv

(* One stream opens, tells or is left, and the jobs stay as they are.      *)
LEMMA StreamStep ==
    ASSUME EventsInv, NEW s \in Stream, Open(s) \/ Poll(s) \/ Disconnect(s)
    PROVE  /\ UNCHANGED vars
           /\ stream' = [stream EXCEPT ![s] = stream'[s]] /\ stream'[s] \in StreamRow
           /\ stream'[s].job = stream[s].job
           /\ Open(s) => stream'[s].last = stream[s].last /\ stream'[s].try = stream[s].try
           /\ Poll(s) => /\ stream'[s].last = Snapshot(stream[s].job)
                         /\ stream'[s].try = Shown(stream[s].job)
           /\ Disconnect(s) => /\ stream'[s].last = Nothing /\ stream'[s].try = 0
                               /\ stream'[s].pc = "gone"
<1>1. stream[s] \in StreamRow /\ stream[s].job \in Job
      BY DEF EventsInv, StreamRow
<1>2. /\ Snapshot(stream[s].job) \in Snap /\ Shown(stream[s].job) \in Try
      /\ Nothing \in Snap /\ 0 \in Try
      BY <1>1, SnapshotType, ShownType, NothingToFollow, MaxTriesAssumption DEF EventsInv, Try
<1>3. CASE Open(s)
      BY <1>1, <1>3 DEF Open, Poll, Disconnect, Tell, EventsInv, StreamRow
<1>4. CASE Poll(s)
  <2> DEFINE new == Snapshot(stream[s].job)  place == IF new.status \in Terminal THEN "closed" ELSE "open"
  <2>1. /\ stream' = [stream EXCEPT ![s] =
             [stream[s] EXCEPT !.last = new, !.try = Shown(stream[s].job), !.pc = place]]
        /\ UNCHANGED vars /\ stream[s].pc = "open"
        BY <1>4 DEF Poll, Tell, EventsInv
  <2>2. place \in {"open", "closed"}
        OBVIOUS
  <2>3. stream \in [Stream -> StreamRow]
        BY DEF EventsInv
  <2>4. ~Open(s) /\ ~Disconnect(s)
    <3>1. stream'[s].pc # "gone"
          BY <2>1, <2>2, <2>3, <1>1 DEF StreamRow
    <3>2. ~Open(s)
          BY <2>1 DEF Open
    <3>3. ASSUME Disconnect(s) PROVE stream'[s].pc = "gone"
      <4>1. stream' = [stream EXCEPT ![s] =
               [stream[s] EXCEPT !.pc = "gone", !.last = Nothing, !.try = 0]]
            BY <2>3, <3>3 DEF Disconnect
      <4> QED
          BY <1>1, <2>3, <4>1 DEF StreamRow
    <3> QED
        BY <3>1, <3>2, <3>3
  <2> HIDE DEF new, place
  <2>5. stream'[s] \in StreamRow /\ stream'[s].job = stream[s].job
        /\ stream'[s].last = new /\ stream'[s].try = Shown(stream[s].job)
        /\ stream' = [stream EXCEPT ![s] = stream'[s]]
        BY <1>1, <1>2, <2>1, <2>2, <2>3 DEF new, StreamRow
  <2> QED
      BY <2>1, <2>4, <2>5 DEF new
<1>5. CASE Disconnect(s)
  <2>1. stream'[s].pc = "gone" /\ ~Open(s)
        BY <1>1, <1>5 DEF Disconnect, Open, EventsInv, StreamRow
  <2>2. ~Poll(s)
        BY <1>1, <2>1 DEF Poll, Tell, EventsInv, StreamRow
  <2> QED
      BY <1>1, <1>2, <1>5, <2>1, <2>2 DEF Disconnect, EventsInv, StreamRow
<1> QED
    BY <1>3, <1>4, <1>5

(* Every step of a job or a stream keeps the invariant.                    *)
LEMMA StepEvents == EventsInv /\ [EventsNext]_eventVars => EventsInv'
<1> SUFFICES ASSUME EventsInv, [EventsNext]_eventVars PROVE EventsInv'
    OBVIOUS
<1>1. ASSUME [Next]_vars, UNCHANGED stream PROVE EventsInv'
  <2>1. TypeOK'
        BY <1>1, NextTypeOK DEF EventsInv
  <2>2. /\ StartInv'
        /\ \A j \in Job : /\ Shown(j)' >= Shown(j)
                          /\ Shown(j)' = Shown(j) => ~Behind(Snapshot(j)', Snapshot(j))
        BY <1>1, RowsGoForward DEF EventsInv
  <2>3. \A s \in Stream : Followed(s)'
        BY <1>1, <2>1, <2>2, StreamFollows
  <2> QED
      BY <1>1, <2>1, <2>2, <2>3 DEF EventsInv
<1>2. ASSUME NEW s \in Stream, Open(s) \/ Poll(s) \/ Disconnect(s) PROVE EventsInv'
  <2>1. UNCHANGED vars /\ stream' \in [Stream -> StreamRow]
        BY <1>2, StreamStep DEF EventsInv
  <2>2. TypeOK' /\ StartInv'
        BY <2>1, NextTypeOK, RowsGoForward DEF EventsInv
  <2>3. \A j \in Job : Shown(j)' = Shown(j) /\ Snapshot(j)' = Snapshot(j)
        BY <2>1 DEF vars, Shown, Snapshot, At
  <2>4. PICK j \in Job : j = stream[s].job
        BY DEF EventsInv, StreamRow
  <2>5. /\ stream'[s].job = j
        /\ stream'[s].try <= Shown(j)
        /\ stream'[s].try = Shown(j) => ~Behind(Snapshot(j), stream'[s].last)
    <3>1. CASE Open(s)
          BY <1>2, <2>4, <3>1, StreamStep DEF EventsInv, Followed
    <3>2. CASE Poll(s)
      <4>1. stream'[s].last = Snapshot(j) /\ stream'[s].try = Shown(j) /\ stream'[s].job = j
            BY <1>2, <2>4, <3>2, StreamStep
      <4>2. ~Behind(Snapshot(j), Snapshot(j))
            BY SnapshotType DEF EventsInv, Behind, Rank, Snap, Status
      <4>3. Shown(j) \in Nat
            BY ShownType, MaxTriesAssumption DEF EventsInv, Try
      <4> QED
          BY <4>1, <4>2, <4>3
    <3>3. CASE Disconnect(s)
          BY <1>2, <2>4, <3>3, StreamStep, NothingToFollow DEF EventsInv
    <3> QED
        BY <1>2, <3>1, <3>2, <3>3
  <2>6. Followed(s)'
        BY <2>3, <2>5 DEF Followed
  <2>7. ASSUME NEW q \in Stream, q # s PROVE Followed(q)'
    <3>1. stream'[q] = stream[q] /\ stream[q].job \in Job
          BY <1>2, <2>7, StreamStep DEF EventsInv, StreamRow
    <3> QED
        BY <2>3, <3>1 DEF EventsInv, Followed
  <2> QED
      BY <2>1, <2>2, <2>6, <2>7 DEF EventsInv
<1> QED
    BY <1>1, <1>2 DEF EventsNext, eventVars

(* The invariant of the module.                                            *)
LEMMA EventsInvariant == EventsSpec => []EventsInv
BY InitEvents, StepEvents, PTL DEF EventsSpec

-----------------------------------------------------------------------------
(* What a client has been told goes back only when the job has been        *)
(* delivered again since, whatever is cancelled and whatever fails.        *)
THEOREM StreamsGoForward == EventsSpec => StreamGoesForward
<1>1. ASSUME EventsInv, [EventsNext]_eventVars, NEW s \in Stream,
             stream'[s].pc # "gone", Behind(stream'[s].last, stream[s].last)
      PROVE  stream'[s].try > stream[s].try
  <2>1. ~Behind(stream[s].last, stream[s].last)
        BY <1>1 DEF EventsInv, StreamRow, Snap, Behind, Rank, Status
  <2>2. stream'[s] # stream[s]
        BY <1>1, <2>1
  <2>3. Poll(s)
    <3>1. PICK q \in Stream : Open(q) \/ Poll(q) \/ Disconnect(q)
          BY <1>1, <2>2 DEF EventsNext, eventVars
    <3>2. q = s
          BY <2>2, <3>1, StreamStep, <1>1 DEF EventsInv
    <3> QED
        BY <1>1, <2>1, <3>1, <3>2, StreamStep
  <2>4. PICK j \in Job : j = stream[s].job
        BY <1>1 DEF EventsInv, StreamRow
  <2>5. stream'[s].last = Snapshot(j) /\ stream'[s].try = Shown(j)
        BY <1>1, <2>3, <2>4, StreamStep
  <2>6. stream[s].try <= Shown(j) /\ stream[s].try # Shown(j)
        BY <1>1, <2>4, <2>5 DEF EventsInv, Followed
  <2>7. stream[s].try \in Nat /\ Shown(j) \in Nat
        BY <1>1, ShownType, MaxTriesAssumption DEF EventsInv, StreamRow, Try
  <2> QED
      BY <2>5, <2>6, <2>7
<1>2. EventsInv /\ [EventsNext]_eventVars =>
        [\A s \in Stream :
           stream'[s].pc # "gone" /\ Behind(stream'[s].last, stream[s].last) =>
               stream'[s].try > stream[s].try]_eventVars
      BY <1>1
<1> QED
    BY <1>2, EventsInvariant, PTL DEF EventsSpec, StreamGoesForward

-----------------------------------------------------------------------------
(* With no cancel a row that is over changes only with a new delivery.     *)
LEMMA SettledStands ==
    ASSUME Request = {}, TypeOK, StartInv, DeliveryInv, LifecycleInv, [Next]_vars,
           NEW j \in Job, jobs[j].status \in Terminal
    PROVE  Snapshot(j)' = Snapshot(j) \/ Shown(j)' > Shown(j)
<1>1. ASSUME jobs'[j] = jobs[j] PROVE Snapshot(j)' = Snapshot(j)
      BY <1>1 DEF Snapshot
<1>2. ASSUME NEW i \in Job, ExecStart(i) PROVE jobs'[j] = jobs[j] \/ Shown(j)' > Shown(j)
  <2>1. CASE i = j
    <3>1. Shown(j) = tries[j] - 1 /\ Shown(j)' = tries[j] /\ tries[j] \in Nat
          BY <1>2, <2>1, MaxTriesAssumption DEF ExecStart, Shown, At, TypeOK, Attempt, Try
    <3> QED
        BY <3>1
  <2>2. CASE i # j
        BY <1>2, <2>2 DEF ExecStart, TypeOK
  <2> QED
      BY <2>1, <2>2
<1>3. ASSUME NEW i \in Job, ExecContext(i) \/ ExecSucceed(i) \/ ExecFail(i)
      PROVE  jobs'[j] = jobs[j]
  <2>1. i # j
        BY <1>3 DEF ExecContext, ExecSucceed, ExecFail, At, LifecycleInv, RunningRow, Running, Terminal
  <2> QED
      BY <1>3, <2>1 DEF ExecContext, ExecSucceed, ExecFail, TypeOK
<1>4. ASSUME NEW i \in Job, CreateJob(i) PROVE jobs'[j] = jobs[j]
      BY <1>4 DEF CreateJob, TypeOK, Terminal
<1>5. ASSUME NEW i \in Job,
             Enqueue(i) \/ ArqStart(i) \/ ArqAbortBeforeStart(i) \/ ArqGiveUp(i) \/ ArqFinish(i)
             \/ ExecLoad(i) \/ ExecHandler(i) \/ ExecStoreFile(i) \/ ExecRegister(i)
             \/ ExecRefresh(i) \/ ExecReturn(i) \/ ExecRaise(i) \/ ArqAbort(i)
             \/ JobTimeout(i) \/ DatabaseError(i) \/ EnqueueLost(i)
      PROVE  jobs'[j] = jobs[j]
      BY <1>5 DEF Enqueue, ArqStart, ArqAbortBeforeStart, ArqGiveUp, ArqFinish, ExecLoad,
                  ExecHandler, ExecStoreFile, ExecRegister, ExecRefresh, ExecReturn, ExecRaise,
                  ArqAbort, JobTimeout, DatabaseError, EnqueueLost
<1>6. ASSUME WorkerShutdown \/ WorkerCrash \/ UNCHANGED vars PROVE jobs'[j] = jobs[j]
      BY <1>6 DEF WorkerShutdown, WorkerCrash, vars
<1>7. jobs'[j] = jobs[j] \/ Shown(j)' > Shown(j)
      BY <1>2, <1>3, <1>4, <1>5, <1>6, NextSteps
<1> QED
    BY <1>1, <1>7

(* A closed stream has told an end, which the row says until the job is    *)
(* delivered again.                                                        *)
LastInv ==
    /\ DeliveryInv /\ LifecycleInv
    /\ \A s \in Stream : stream[s].pc = "closed" =>
         LET j == stream[s].job IN
         /\ stream[s].last.status \in Terminal
         /\ stream[s].last = Snapshot(j) \/ Shown(j) > stream[s].try

(* Every step keeps the last word of a stream true, if nobody cancels.     *)
LEMMA StepLast ==
    ASSUME Request = {}, EventsInv, LastInv, [EventsNext]_eventVars PROVE LastInv'
<1>1. ASSUME [Next]_vars, UNCHANGED stream PROVE LastInv'
  <2>1. DeliveryInv' /\ LifecycleInv'
        BY <1>1, NextDeliveryInv, NextLifecycleInv DEF EventsInv, LastInv
  <2>2. ASSUME NEW s \in Stream, stream[s].pc = "closed", NEW j \in Job, j = stream[s].job
        PROVE  stream[s].last = Snapshot(j)' \/ Shown(j)' > stream[s].try
    <3>1. stream[s].last = Snapshot(j) \/ Shown(j) > stream[s].try
          BY <2>2 DEF LastInv
    <3>2. Shown(j)' >= Shown(j) /\ Shown(j)' \in Nat /\ Shown(j) \in Nat /\ stream[s].try \in Nat
      <4>1. TypeOK' /\ StartInv' /\ Shown(j)' >= Shown(j)
            BY <1>1, NextTypeOK, RowsGoForward DEF EventsInv
      <4>2. Shown(j) \in Try /\ Shown(j)' \in Try
            BY <4>1, ShownType, NextTypes DEF EventsInv
      <4> QED
          BY <4>1, <4>2, MaxTriesAssumption DEF EventsInv, StreamRow, Try
    <3>3. CASE Shown(j) > stream[s].try
          BY <3>2, <3>3
    <3>4. CASE stream[s].last = Snapshot(j) /\ stream[s].try >= Shown(j)
      <4>1. jobs[j].status \in Terminal
            BY <2>2, <3>4 DEF LastInv, Snapshot
      <4>2. Snapshot(j)' = Snapshot(j) \/ Shown(j)' > Shown(j)
            BY <1>1, <4>1, SettledStands DEF EventsInv, LastInv
      <4>3. stream[s].try <= Shown(j)
            BY <2>2 DEF EventsInv, Followed
      <4> QED
          BY <3>2, <3>4, <4>2, <4>3
    <3> QED
        BY <3>1, <3>2, <3>3, <3>4
  <2>3. \A s \in Stream : stream[s].job \in Job
        BY DEF EventsInv, StreamRow
  <2> QED
      BY <1>1, <2>1, <2>2, <2>3 DEF LastInv
<1>2. ASSUME NEW s \in Stream, Open(s) \/ Poll(s) \/ Disconnect(s) PROVE LastInv'
  <2>1. UNCHANGED vars /\ stream' = [stream EXCEPT ![s] = stream'[s]]
        BY <1>2, StreamStep
  <2>2. DeliveryInv' /\ LifecycleInv'
        BY <2>1, NextDeliveryInv, NextLifecycleInv DEF EventsInv, LastInv
  <2>3. \A j \in Job : Shown(j)' = Shown(j) /\ Snapshot(j)' = Snapshot(j)
        BY <2>1 DEF vars, Shown, Snapshot, At
  <2>4. PICK j \in Job : j = stream[s].job
        BY DEF EventsInv, StreamRow
  <2>5. stream'[s].pc = "closed" =>
          /\ stream'[s].job = j /\ stream'[s].last = Snapshot(j)
          /\ stream'[s].last.status \in Terminal
    <3>1. CASE Poll(s)
      <4>1. stream'[s].pc = "closed" => Snapshot(j).status \in Terminal
            BY <2>4, <3>1 DEF Poll, Tell, EventsInv, StreamRow
      <4> QED
          BY <1>2, <2>4, <3>1, <4>1, StreamStep
    <3>2. CASE Open(s)
          BY <3>2 DEF Open, EventsInv, StreamRow
    <3>3. CASE Disconnect(s)
          BY <1>2, <3>3, StreamStep
    <3> QED
        BY <1>2, <3>1, <3>2, <3>3
  <2>6. ASSUME NEW q \in Stream, stream'[q].pc = "closed"
        PROVE  /\ stream'[q].last.status \in Terminal
               /\ \/ stream'[q].last = Snapshot(stream[q].job)'
                  \/ Shown(stream[q].job)' > stream'[q].try
    <3>1. CASE q = s
          BY <2>3, <2>5, <2>6, <3>1 DEF Snapshot
    <3>2. CASE q # s
      <4>1. stream'[q] = stream[q] /\ stream[q].job \in Job
            BY <2>1, <3>2 DEF EventsInv, StreamRow
      <4> QED
          BY <2>3, <2>6, <4>1 DEF LastInv
    <3> QED
        BY <3>1, <3>2
  <2> QED
      BY <2>2, <2>6 DEF LastInv
<1> QED
    BY <1>1, <1>2 DEF EventsNext, eventVars

(* Where nothing is cancelled the last word of a stream is how the job     *)
(* ended, unless the job was delivered again since.                        *)
THEOREM LastWordsStand == ASSUME Request = {} PROVE EventsSpec => []LastWordStands
<1>1. EventsInit => LastInv
      BY InitDeliveryInv, InitLifecycleInv DEF EventsInit, LastInv
<1>2. EventsInv /\ LastInv /\ [EventsNext]_eventVars => LastInv'
      BY StepLast
<1>3. LastInv => LastWordStands
      BY DEF LastInv, LastWordStands
<1> QED
    BY <1>1, <1>2, <1>3, EventsInvariant, PTL DEF EventsSpec

=============================================================================
