------------------------------- MODULE Jobs -------------------------------
(***************************************************************************)
(* The life of a media job: the row in table `jobs`, the arq queue that    *)
(* delivers it to the worker process, the worker's execution of it         *)
(* (services/jobs.py, execute_job) and the API requests that create and    *)
(* cancel it (api/v1/jobs.py).                                             *)
(*                                                                         *)
(* The API and the worker are different processes with a database session  *)
(* each, so everything between two `await`s is one step here and           *)
(* everything else interleaves.  A session keeps what it has read          *)
(* (expire_on_commit is off) and an UPDATE writes only the columns whose   *)
(* value differs from what that session read: `copy` is what a session     *)
(* believes, and Written is what its UPDATE leaves in the row.             *)
(***************************************************************************)
EXTENDS Naturals, FiniteSets

CONSTANTS
    Job,         \* the jobs users may create
    Request,     \* the cancel requests users may send
    MaxJobs,     \* attempts the worker runs at once (WorkerSettings.max_jobs)
    MaxTries,    \* deliveries of one job before arq gives up on it
    MaxOutputs,  \* bound: output files of one run of a handler
    Faults,      \* the kinds of fault the environment may inject
    MaxFaults    \* bound: faults in one behaviour

FaultKinds == {"api", "timeout", "shutdown", "crash", "database"}

ASSUME MaxJobsAssumption == MaxJobs \in Nat \ {0}
ASSUME MaxTriesAssumption == MaxTries \in Nat \ {0}
ASSUME MaxOutputsAssumption == MaxOutputs \in Nat
ASSUME FaultsAssumption == Faults \subseteq FaultKinds /\ MaxFaults \in Nat

Try == 0..MaxTries

(* An output file is named by its job, the attempt that made it and its    *)
(* place among the files that attempt still had to store.                  *)
Asset == Job \X Try \X (0..MaxOutputs)

Status == {"absent", "queued", "running", "succeeded", "failed", "cancelled"}
Error == {"null", "cancelled", "failure"}
Cancellable == {"queued", "running"}
Terminal == {"succeeded", "failed", "cancelled"}

Copy == [status : Status, error : Error]
Blank == [status |-> "absent", error |-> "null"]

Place == {"idle", "popped", "loaded", "started", "handler", "persist",
          "stored", "final", "failing", "ending", "returned"}

Row == [status : Status, error : Error, progress : {0, 10, 50, 100},
        outputs : SUBSET Asset, finished : BOOLEAN]
Attempt == [pc : Place, copy : Copy, todo : 0..MaxOutputs, made : SUBSET Asset]
CancelRequest == [pc : {"idle", "loaded", "committed", "done"}, job : Job, copy : Copy]

VARIABLES
    jobs,      \* table jobs: the row of each job
    creating,  \* rows committed by a create request that has not enqueued yet
    queue,     \* arq: jobs with a delivery outstanding
    aborts,    \* arq: jobs an abort was asked for and not yet honoured
    tries,     \* arq: deliveries of each job so far
    att,       \* the worker's attempt at each job
    files,     \* output files in the storage directory
    rows,      \* output files with a row in table assets
    scratch,   \* temporary work directories, one per attempt
    req,       \* the cancel requests
    faults     \* faults injected so far

vars == <<jobs, creating, queue, aborts, tries, att, files, rows, scratch, req, faults>>

NoRow == [status |-> "absent", error |-> "null", progress |-> 0,
          outputs |-> {}, finished |-> FALSE]
IdleAttempt == [pc |-> "idle", copy |-> Blank, todo |-> 0, made |-> {}]

Init ==
    /\ jobs = [j \in Job |-> NoRow]
    /\ creating = {} /\ queue = {} /\ aborts = {}
    /\ tries = [j \in Job |-> 0]
    /\ att = [j \in Job |-> IdleAttempt]
    /\ files = {} /\ rows = {} /\ scratch = {}
    /\ req \in [Request -> [pc : {"idle"}, job : Job, copy : {Blank}]]
    /\ faults = 0

At(j, places) == att[j].pc \in places
Active == {j \in Job : ~At(j, {"idle"})}
WorkDir(j) == <<j, tries[j]>>
File(j, n) == <<j, tries[j], n>>
Believed(j) == [status |-> jobs[j].status, error |-> jobs[j].error]

(* What an UPDATE that sets `new` leaves of a column whose row holds `row` *)
(* when the session that sets it believes the column holds `old`.          *)
Written(row, old, new) == IF new = old THEN row ELSE new

Move(j, place) == att' = [att EXCEPT ![j].pc = place]

-----------------------------------------------------------------------------
(* POST /jobs: the row is committed, then the job is enqueued.             *)

CreateJob(j) ==
    /\ jobs[j].status = "absent"
    /\ jobs' = [jobs EXCEPT ![j].status = "queued"]
    /\ creating' = creating \cup {j}
    /\ UNCHANGED <<queue, aborts, tries, att, files, rows, scratch, req, faults>>

Enqueue(j) ==
    /\ j \in creating
    /\ creating' = creating \ {j}
    /\ queue' = queue \cup {j}
    /\ UNCHANGED <<jobs, aborts, tries, att, files, rows, scratch, req, faults>>

-----------------------------------------------------------------------------
(* arq hands a delivery to run_job.  An abort asked for earlier is honoured *)
(* first; a job delivered too often is dropped without running.             *)

(* Mutant: the worker runs without allow_abort_jobs.                       *)
ArqStart_IgnoresAborts(j) ==
    /\ j \in queue /\ At(j, {"idle"})
    /\ Cardinality(Active) < MaxJobs
    /\ tries[j] < MaxTries
    /\ tries' = [tries EXCEPT ![j] = @ + 1]
    /\ att' = [att EXCEPT ![j] = [IdleAttempt EXCEPT !.pc = "popped"]]
    /\ UNCHANGED <<jobs, creating, queue, aborts, files, rows, scratch, req, faults>>

ArqStart(j) ==
    /\ j \in queue \ aborts /\ At(j, {"idle"})
    /\ Cardinality(Active) < MaxJobs
    /\ tries[j] < MaxTries
    /\ tries' = [tries EXCEPT ![j] = @ + 1]
    /\ att' = [att EXCEPT ![j] = [IdleAttempt EXCEPT !.pc = "popped"]]
    /\ UNCHANGED <<jobs, creating, queue, aborts, files, rows, scratch, req, faults>>

ArqAbortBeforeStart(j) ==
    /\ j \in queue \cap aborts /\ At(j, {"idle"})
    /\ Cardinality(Active) < MaxJobs
    /\ queue' = queue \ {j}
    /\ aborts' = aborts \ {j}
    /\ UNCHANGED <<jobs, creating, tries, att, files, rows, scratch, req, faults>>

(* Mutant: the limit on deliveries is off by one.                          *)
ArqGiveUp_OffByOne(j) ==
    /\ j \in queue \ aborts /\ At(j, {"idle"})
    /\ tries[j] > MaxTries
    /\ queue' = queue \ {j}
    /\ UNCHANGED <<jobs, creating, aborts, tries, att, files, rows, scratch, req, faults>>

ArqGiveUp(j) ==
    /\ j \in queue \ aborts /\ At(j, {"idle"})
    /\ Cardinality(Active) < MaxJobs
    /\ tries[j] = MaxTries
    /\ queue' = queue \ {j}
    /\ UNCHANGED <<jobs, creating, aborts, tries, att, files, rows, scratch, req, faults>>

ArqFinish(j) ==
    /\ At(j, {"returned"})
    /\ queue' = queue \ {j}
    /\ aborts' = aborts \ {j}
    /\ att' = [att EXCEPT ![j] = IdleAttempt]
    /\ UNCHANGED <<jobs, creating, tries, files, rows, scratch, req, faults>>

-----------------------------------------------------------------------------
(* execute_job, from one await to the next.                                *)

ExecLoad(j) ==
    /\ At(j, {"popped"})
    /\ att' = [att EXCEPT ![j].pc = "loaded", ![j].copy = Believed(j)]
    /\ UNCHANGED <<jobs, creating, queue, aborts, tries, files, rows, scratch, req, faults>>

(* Mutant: the start is not recorded in the status.                        *)
ExecStart_NoStatus(j) ==
    /\ At(j, {"loaded"})
    /\ jobs' = [jobs EXCEPT ![j].progress = 10]
    /\ Move(j, "started")
    /\ scratch' = scratch \cup {WorkDir(j)}
    /\ UNCHANGED <<creating, queue, aborts, tries, files, rows, req, faults>>

(* The status is set without being looked at.                              *)
ExecStart(j) ==
    /\ At(j, {"loaded"})
    /\ jobs' = [jobs EXCEPT
         ![j].status = Written(@, att[j].copy.status, "running"),
         ![j].progress = 10]
    /\ att' = [att EXCEPT ![j].pc = "started", ![j].copy.status = "running"]
    /\ scratch' = scratch \cup {WorkDir(j)}
    /\ UNCHANGED <<creating, queue, aborts, tries, files, rows, req, faults>>

ExecContext(j) ==
    /\ At(j, {"started"})
    /\ jobs' = [jobs EXCEPT ![j].progress = 50]
    /\ Move(j, "handler")
    /\ UNCHANGED <<creating, queue, aborts, tries, files, rows, scratch, req, faults>>

ExecHandler(j) ==
    /\ At(j, {"handler"})
    /\ \E n \in 0..MaxOutputs :
         att' = [att EXCEPT ![j].pc = "persist", ![j].todo = n]
    /\ UNCHANGED <<jobs, creating, queue, aborts, tries, files, rows, scratch, req, faults>>

(* Mutant: the row is committed before the file is written.                *)
ExecStoreFile_NoFile(j) ==
    /\ At(j, {"persist"}) /\ att[j].todo > 0
    /\ att' = [att EXCEPT ![j].pc = "stored", ![j].todo = @ - 1]
    /\ UNCHANGED <<jobs, creating, queue, aborts, tries, files, rows, scratch, req, faults>>

(* Mutant: the loop over the outputs runs once too often.                  *)
ExecStoreFile_PastEnd(j) ==
    LET n == att[j].todo - 1 IN
    /\ At(j, {"persist"})
    /\ files' = files \cup {File(j, n)}
    /\ att' = [att EXCEPT ![j].pc = "stored", ![j].todo = n]
    /\ UNCHANGED <<jobs, creating, queue, aborts, tries, rows, scratch, req, faults>>

ExecStoreFile(j) ==
    LET n == att[j].todo - 1 IN
    /\ At(j, {"persist"}) /\ att[j].todo > 0
    /\ files' = files \cup {File(j, n)}
    /\ att' = [att EXCEPT ![j].pc = "stored", ![j].todo = n]
    /\ UNCHANGED <<jobs, creating, queue, aborts, tries, rows, scratch, req, faults>>

ExecRegister(j) ==
    /\ At(j, {"stored"})
    /\ rows' = rows \cup {File(j, att[j].todo)}
    /\ att' = [att EXCEPT ![j].pc = "persist",
                          ![j].made = @ \cup {File(j, att[j].todo)}]
    /\ UNCHANGED <<jobs, creating, queue, aborts, tries, files, scratch, req, faults>>

(* The context, the handler or the storing of an output raises.            *)
ExecRaise(j) ==
    /\ \/ At(j, {"started", "handler", "stored"})
       \/ At(j, {"persist"}) /\ att[j].todo > 0
    /\ Move(j, "failing")
    /\ UNCHANGED <<jobs, creating, queue, aborts, tries, files, rows, scratch, req, faults>>

(* Mutant: success is written without looking at the row again.            *)
ExecRefresh_Blind(j) ==
    /\ At(j, {"persist"}) /\ att[j].todo = 0
    /\ Move(j, "final")
    /\ UNCHANGED <<jobs, creating, queue, aborts, tries, files, rows, scratch, req, faults>>

ExecRefresh(j) ==
    /\ At(j, {"persist"}) /\ att[j].todo = 0
    /\ att' = [att EXCEPT
         ![j].pc = IF jobs[j].status = "cancelled" THEN "ending" ELSE "final",
         ![j].copy = Believed(j)]
    /\ UNCHANGED <<jobs, creating, queue, aborts, tries, files, rows, scratch, req, faults>>

(* Mutant: outputs are added to those the row lists already.               *)
ExecSucceed_Appends(j) ==
    /\ At(j, {"final"})
    /\ jobs' = [jobs EXCEPT
         ![j].status = Written(@, att[j].copy.status, "succeeded"),
         ![j].progress = 100, ![j].outputs = @ \cup att[j].made, ![j].finished = TRUE]
    /\ Move(j, "ending")
    /\ UNCHANGED <<creating, queue, aborts, tries, files, rows, scratch, req, faults>>

ExecSucceed(j) ==
    /\ At(j, {"final"})
    /\ jobs' = [jobs EXCEPT
         ![j].status = Written(@, att[j].copy.status, "succeeded"),
         ![j].progress = 100, ![j].outputs = att[j].made, ![j].finished = TRUE]
    /\ Move(j, "ending")
    /\ UNCHANGED <<creating, queue, aborts, tries, files, rows, scratch, req, faults>>

(* Mutant: the failure is recorded without its reason.                     *)
ExecFail_NoError(j) ==
    /\ At(j, {"failing"})
    /\ jobs' = [jobs EXCEPT
         ![j].status = Written(@, att[j].copy.status, "failed"), ![j].finished = TRUE]
    /\ Move(j, "ending")
    /\ UNCHANGED <<creating, queue, aborts, tries, files, rows, scratch, req, faults>>

(* Mutant: the exception is logged and the row left as it is.              *)
ExecFail_LogOnly(j) ==
    /\ At(j, {"failing"})
    /\ Move(j, "ending")
    /\ UNCHANGED <<jobs, creating, queue, aborts, tries, files, rows, scratch, req, faults>>

(* Mutant: a failure sets the progress back to nothing.                    *)
ExecFail_ResetsProgress(j) ==
    /\ At(j, {"failing"})
    /\ jobs' = [jobs EXCEPT
         ![j].status = Written(@, att[j].copy.status, "failed"),
         ![j].error = Written(@, att[j].copy.error, "failure"),
         ![j].progress = 0, ![j].finished = TRUE]
    /\ Move(j, "ending")
    /\ UNCHANGED <<creating, queue, aborts, tries, files, rows, scratch, req, faults>>

(* _fail works on what the session believes: it reads nothing again.       *)
ExecFail(j) ==
    /\ At(j, {"failing"})
    /\ jobs' = [jobs EXCEPT
         ![j].status = Written(@, att[j].copy.status, "failed"),
         ![j].error = Written(@, att[j].copy.error, "failure"),
         ![j].finished = TRUE]
    /\ Move(j, "ending")
    /\ UNCHANGED <<creating, queue, aborts, tries, files, rows, scratch, req, faults>>

ExecReturn(j) ==
    /\ At(j, {"ending"})
    /\ scratch' = scratch \ {WorkDir(j)}
    /\ Move(j, "returned")
    /\ UNCHANGED <<jobs, creating, queue, aborts, tries, files, rows, req, faults>>

Execute(j) ==
    \/ ExecLoad(j) \/ ExecStart(j) \/ ExecContext(j) \/ ExecHandler(j)
    \/ ExecStoreFile(j) \/ ExecRegister(j) \/ ExecRefresh(j)
    \/ ExecSucceed(j) \/ ExecFail(j) \/ ExecReturn(j)

-----------------------------------------------------------------------------
(* Interruptions.  A cancelled task raises CancelledError, which no handler *)
(* of execute_job catches: only `finally` runs, and the row keeps the       *)
(* status it has.                                                           *)

Interruptible == Place \ {"idle", "returned"}

Interrupt(j) ==
    /\ At(j, Interruptible)
    /\ Move(j, "returned")
    /\ scratch' = scratch \ {WorkDir(j)}

ArqAbort(j) ==
    /\ j \in aborts
    /\ Interrupt(j)
    /\ aborts' = aborts \ {j}
    /\ UNCHANGED <<jobs, creating, queue, tries, files, rows, req, faults>>

Fault(kind) ==
    /\ kind \in Faults
    /\ faults < MaxFaults
    /\ faults' = faults + 1

(* The attempt outlives WorkerSettings.job_timeout.                        *)
JobTimeout(j) ==
    /\ Fault("timeout")
    /\ Interrupt(j)
    /\ UNCHANGED <<jobs, creating, queue, aborts, tries, files, rows, req>>

(* A statement fails: the session is unusable until it is rolled back, so  *)
(* _fail's own commit raises too and the exception leaves execute_job.     *)
(* What mkdtemp raises, after the committed start and before the `try`,    *)
(* leaves it too and comes to the same.                                    *)
DatabaseError(j) ==
    /\ Fault("database")
    /\ Interrupt(j)
    /\ UNCHANGED <<jobs, creating, queue, aborts, tries, files, rows, req>>

(* The worker is told to stop: it cancels its tasks and leaves their jobs  *)
(* in the queue; an attempt that had returned is recorded as finished.     *)
WorkerShutdown ==
    /\ Fault("shutdown")
    /\ \E j \in Job : At(j, Interruptible)
    /\ att' = [j \in Job |-> IF At(j, Interruptible) THEN IdleAttempt ELSE att[j]]
    /\ scratch' = scratch \ {WorkDir(j) : j \in {k \in Job : At(k, Interruptible)}}
    /\ UNCHANGED <<jobs, creating, queue, aborts, tries, files, rows, req>>

(* The worker dies: nothing is cleaned up and every delivery comes again.  *)
WorkerCrash ==
    /\ Fault("crash")
    /\ Active # {}
    /\ att' = [j \in Job |-> IdleAttempt]
    /\ UNCHANGED <<jobs, creating, queue, aborts, tries, files, rows, scratch, req>>

(* The create request dies between its commit and its enqueue.             *)
EnqueueLost(j) ==
    /\ Fault("api")
    /\ j \in creating
    /\ creating' = creating \ {j}
    /\ UNCHANGED <<jobs, queue, aborts, tries, att, files, rows, scratch, req>>

-----------------------------------------------------------------------------
(* POST /jobs/{id}/cancel: the guard loads the row, asks the catalogue     *)
(* about the project, and the service then decides on the row it loaded.   *)

CancelLoad(r) ==
    /\ req[r].pc = "idle"
    /\ jobs[req[r].job].status # "absent"
    /\ req' = [req EXCEPT ![r].pc = "loaded", ![r].copy = Believed(req[r].job)]
    /\ UNCHANGED <<jobs, creating, queue, aborts, tries, att, files, rows, scratch, faults>>

CancelReject(r) ==
    /\ req[r].pc = "loaded"
    /\ req[r].copy.status \notin Cancellable
    /\ req' = [req EXCEPT ![r].pc = "done"]
    /\ UNCHANGED <<jobs, creating, queue, aborts, tries, att, files, rows, scratch, faults>>

CancelCommit(r) ==
    LET j == req[r].job IN
    /\ req[r].pc = "loaded"
    /\ req[r].copy.status \in Cancellable
    /\ jobs' = [jobs EXCEPT
         ![j].status = Written(@, req[r].copy.status, "cancelled"),
         ![j].error = Written(@, req[r].copy.error, "cancelled"),
         ![j].finished = TRUE]
    /\ req' = [req EXCEPT ![r].pc = "committed"]
    /\ UNCHANGED <<creating, queue, aborts, tries, att, files, rows, scratch, faults>>

CancelSignal(r) ==
    /\ req[r].pc = "committed"
    /\ aborts' = aborts \cup {req[r].job}
    /\ req' = [req EXCEPT ![r].pc = "done"]
    /\ UNCHANGED <<jobs, creating, queue, tries, att, files, rows, scratch, faults>>

(* The signal is best-effort: the queue may be out of reach.               *)
CancelSignalLost(r) ==
    /\ Fault("api")
    /\ req[r].pc = "committed"
    /\ req' = [req EXCEPT ![r].pc = "done"]
    /\ UNCHANGED <<jobs, creating, queue, aborts, tries, att, files, rows, scratch>>

-----------------------------------------------------------------------------
Arq(j) == ArqStart(j) \/ ArqAbortBeforeStart(j) \/ ArqGiveUp(j) \/ ArqFinish(j)

Cancel(r) == CancelLoad(r) \/ CancelReject(r) \/ CancelCommit(r) \/ CancelSignal(r)

FaultStep ==
    \/ WorkerShutdown \/ WorkerCrash
    \/ \E j \in Job : JobTimeout(j) \/ DatabaseError(j) \/ EnqueueLost(j)
    \/ \E r \in Request : CancelSignalLost(r)

(* Everything created and dealt with, every request answered.              *)
Quiescent ==
    /\ \A j \in Job : jobs[j].status # "absent" /\ At(j, {"idle"})
    /\ creating = {} /\ queue = {}
    /\ \A r \in Request : req[r].pc = "done"

Terminating == Quiescent /\ UNCHANGED vars

Next ==
    \/ \E j \in Job : CreateJob(j) \/ Enqueue(j) \/ Arq(j) \/ Execute(j)
                      \/ ExecRaise(j) \/ ArqAbort(j)
    \/ \E r \in Request : Cancel(r)
    \/ FaultStep
    \/ Terminating

(* The API process finishes what it has begun, the worker polls its queue  *)
(* and its abort set, and an attempt goes on.  Nothing is assumed of users *)
(* or of faults, and a handler need not raise.                             *)
Fairness ==
    /\ \A j \in Job : /\ WF_vars(Enqueue(j))
                      /\ WF_vars(Arq(j))
                      /\ WF_vars(ArqAbort(j))
                      /\ WF_vars(Execute(j))
    /\ \A r \in Request : WF_vars(CancelReject(r) \/ CancelCommit(r) \/ CancelSignal(r))

Spec == Init /\ [][Next]_vars
FairSpec == Spec /\ Fairness

-----------------------------------------------------------------------------
(* Every variable has its type.                                            *)
TypeOK ==
    /\ jobs \in [Job -> Row]
    /\ creating \subseteq Job /\ queue \subseteq Job /\ aborts \subseteq Job
    /\ tries \in [Job -> Try]
    /\ att \in [Job -> Attempt]
    /\ files \subseteq Asset /\ rows \subseteq Asset
    /\ scratch \subseteq Job \X Try
    /\ req \in [Request -> CancelRequest]
    /\ faults \in Nat

(* Whatever the order of faults, every output a job row lists is a row of  *)
(* `assets`, and every row of `assets` has its file: the file is stored    *)
(* before its row, and the row before the job that lists it.               *)
OutputsAreStored ==
    /\ \A j \in Job : jobs[j].outputs \subseteq rows
    /\ rows \subseteq files

(* The outputs a row lists are those of one attempt at that job, all of    *)
(* them: a job that was delivered again never mixes two attempts.          *)
MadeBy(j, t) == {a \in rows : a[1] = j /\ a[2] = t}

OutputIsOneAttempt ==
    \A j \in Job : jobs[j].outputs # {} => \E t \in Try : jobs[j].outputs = MadeBy(j, t)

(* A row shown as over is complete, although its columns are written by    *)
(* two processes that each write only what they believe has changed: it    *)
(* has its finish time, a success its full progress and a failure or a     *)
(* cancellation its reason.                                                *)
SettledRowIsComplete ==
    \A j \in Job :
        /\ jobs[j].status \in Terminal => jobs[j].finished
        /\ jobs[j].status = "succeeded" => jobs[j].progress = 100
        /\ jobs[j].status \in {"failed", "cancelled"} => jobs[j].error # "null"

(* A cancelled job that is not being run and either has its abort recorded *)
(* or has no delivery left stays that way: a redelivery never revives it.  *)
CancelTookHold(j) ==
    /\ jobs[j].status = "cancelled" /\ At(j, {"idle"})
    /\ j \in aborts \/ j \notin queue \cup creating

SignalledCancelIsFinal == [][\A j \in Job : CancelTookHold(j) => CancelTookHold(j)']_vars

CancelledBeforeLook(j, t) ==
    /\ jobs[j].status = "cancelled" /\ tries[j] = t
    /\ At(j, {"started", "handler", "persist", "stored"})

CancelSeen(j, t) ==
    [](CancelledBeforeLook(j, t) => [](tries[j] = t => jobs[j].status # "succeeded"))

(* An attempt that was cancelled at any point before its last look at the  *)
(* row never turns the job into a success.                                 *)
CancelSeenBeforeSuccess == \A j \in Job, t \in Try : CancelSeen(j, t)

(* Where deliveries only come again (crashes and restarts, no cancels), a  *)
(* row that is not over always has a delivery outstanding, or a create     *)
(* request about to enqueue it: it is never left for nobody.               *)
UnsettledIsLive ==
    \A j \in Job : jobs[j].status \in {"queued", "running"} => j \in queue \cup creating

(* Every delivery ends, whatever happens to it.                            *)
QueueDrains == \A j \in Job : j \in queue ~> j \notin queue

(* With no cancel request the rows move as the README says, queued,        *)
(* running, then succeeded or failed, and to the end; only a worker that   *)
(* is stopped makes a job run again that was over.                         *)
Lifecycle == INSTANCE JobLifecycle
    WITH status <- [j \in Job |-> jobs[j].status],
         Repeats <- Faults \cap {"shutdown", "crash"} # {}
LifecycleSpec == Lifecycle!Spec

-----------------------------------------------------------------------------
(* What the source says and the code does not keep.                        *)

(* "Mark a queued/running job cancelled ... this DB write is the           *)
(* immediately-consistent state the API/GUI see regardless of that         *)
(* outcome" (services/jobs.py, cancel_job): a cancelled job stays one.     *)
CancelledStays ==
    [][\A j \in Job : jobs[j].status = "cancelled" => jobs'[j].status = "cancelled"]_vars

(* "drives queued -> running -> succeeded/failed" (README)                 *)
RunningSettles == \A j \in Job : jobs[j].status = "running" ~> jobs[j].status \in Terminal
=============================================================================
