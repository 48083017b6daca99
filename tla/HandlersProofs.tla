--------------------------- MODULE HandlersProofs ---------------------------
(* What holds of Handlers for any number of executions and clips, every    *)
(* size of the pool and any number of crashes.                             *)
EXTENDS Handlers, TLAPS

ChildState == {"none", "running", "succeeded", "failed", "killed", "dead"}
ThreadState == {"none", "queued", "waiting", "detecting", "reading", "enhancing",
                "enhanced", "writing", "done", "error"}
Holding == {"reading", "enhancing", "enhanced", "writing"}

(* A program is a sequence of calls, of which so many have returned.       *)
LEMMA Lengths ==
    ASSUME program \in [Run -> Asked], NEW r \in Run
    PROVE  program[r] \in Seq(CallKinds) /\ Len(program[r]) \in Nat
<1>1. program[r] \in Seq(CallKinds)
      BY AskedAssumption
<1> QED
    BY <1>1

(* A call that the task waits for has not returned.                        *)
Waits == \A r \in Run : pc[r] \in {"child", "thread"} => done[r] < Len(program[r])

(* The initial values have their types.                                    *)
LEMMA InitType == Init => TypeOK /\ Waits
<1> SUFFICES ASSUME Init PROVE TypeOK /\ Waits
    OBVIOUS
<1>1. \A r \in Run : Len(program[r]) \in Nat
      BY Lengths DEF Init
<1> QED
    BY <1>1, BoundsAssumption
    DEF Init, TypeOK, Waits, Place, Outcome, Content, Free

(* The steps of Next, one by one.                                          *)
TaskStep(r) ==
    \/ Begin(r) \/ Raise(r) \/ CallChild(r) \/ ChildReturned(r) \/ ChildFailed(r)
    \/ ToolTimeout(r) \/ Reaped(r) \/ CallThread(r) \/ ThreadReturned(r) \/ CallProvider(r)
    \/ ProviderAnswers(r) \/ SpeechAnswers(r) \/ HandlerReturns(r) \/ Persist(r)
    \/ RemoveEntries(r) \/ RemoveDir(r)
    \/ \E why \in Signal : Interrupt(r, why)

(* A step is one of an execution's task, of its process or thread, or the  *)
(* crash of the worker.                                                    *)
LEMMA NextSteps ==
    ASSUME [Next]_vars
    PROVE  \/ \E r \in Run : TaskStep(r) \/ Background(r)
           \/ WorkerCrash
           \/ UNCHANGED vars
BY DEF Next, Step, TaskStep, Terminating

(* A task that ends, or that takes the result of a call.                   *)
LEMMA EndType ==
    ASSUME TypeOK, Waits, NEW r \in Run, NEW how \in Outcome, End(r, how)
    PROVE  /\ pc' \in [Run -> Place] /\ outcome' \in [Run -> Outcome]
           /\ UNCHANGED <<done, program>> => Waits'
BY DEF End, Move, TypeOK, Waits, Place

(* A call that returns keeps the types: it was one of the program.         *)
LEMMA ReturnType ==
    ASSUME TypeOK, Waits, NEW r \in Run, Return(r), UNCHANGED program,
           done[r] < Len(program[r])
    PROVE  /\ pc' \in [Run -> Place] /\ done' \in [Run -> Nat]
           /\ \A q \in Run : done'[q] <= Len(program'[q])
           /\ Waits'
<1>1. \A q \in Run : Len(program[q]) \in Nat
      BY Lengths DEF TypeOK
<1> QED
    BY <1>1 DEF Return, Move, TypeOK, Waits, Place

(* Every step of a task keeps the types.                                   *)
LEMMA TaskType ==
    ASSUME TypeOK, Waits, NEW r \in Run, TaskStep(r) PROVE TypeOK' /\ Waits'
<1> USE DEF task, os, gpu
<1>0. /\ "ok" \in Outcome /\ "failed" \in Outcome /\ "cancelled" \in Outcome
      /\ "none" \in Content /\ r \in Content
      /\ "ready" \in Place /\ "child" \in Place /\ "reaping" \in Place /\ "thread" \in Place
      /\ "http" \in Place /\ "persist" \in Place /\ "cleaning" \in Place /\ "rmdir" \in Place
      /\ Outcome \subseteq Place
      /\ Len(program[r]) \in Nat
      BY Lengths DEF TypeOK, Outcome, Content, Place, Awaiting, Ended
<1>1. CASE Begin(r) \/ Reaped(r) \/ CallProvider(r) \/ HandlerReturns(r)
  <2>1. PICK place \in {"ready", "cleaning", "http", "persist"} : pc' = [pc EXCEPT ![r] = place]
        BY <1>1 DEF Begin, Reaped, CallProvider, HandlerReturns, Move
  <2>2. pc' \in [Run -> Place] /\ UNCHANGED task /\ Waits'
        BY <1>0, <1>1, <2>1 DEF Begin, Reaped, CallProvider, HandlerReturns, TypeOK, Waits
  <2> QED
      BY <1>1, <2>2 DEF Begin, Reaped, CallProvider, HandlerReturns, TypeOK
<1>2. CASE Raise(r) \/ ChildFailed(r)
      BY <1>0, <1>2, EndType DEF Raise, ChildFailed, TypeOK
<1>3. CASE CallChild(r)
      BY <1>0, <1>3 DEF CallChild, Calls, Returned, Move, TypeOK, Waits
<1>4. CASE CallThread(r)
      BY <1>0, <1>4 DEF CallThread, Threaded, Calls, Returned, Move, TypeOK, Waits
<1>5. CASE ChildReturned(r)
      BY <1>5, ReturnType DEF ChildReturned, At, TypeOK, Waits
<1>6. CASE ThreadReturned(r)
  <2>1. CASE Return(r) /\ UNCHANGED outcome
        BY <1>6, <2>1, ReturnType DEF ThreadReturned, At, TypeOK, Waits
  <2>2. CASE End(r, "failed") /\ UNCHANGED done
        BY <1>0, <1>6, <2>2, EndType DEF ThreadReturned, TypeOK
  <2> QED
      BY <1>6, <2>1, <2>2 DEF ThreadReturned
<1>7. CASE ProviderAnswers(r) \/ SpeechAnswers(r)
  <2>1. Return(r) /\ UNCHANGED program /\ done[r] < Len(program[r])
        BY <1>0, <1>7 DEF ProviderAnswers, SpeechAnswers, Calls, Returned, TypeOK
  <2>2. file' \in [Run -> Content]
    <3>1. CASE ProviderAnswers(r)
          BY <3>1 DEF ProviderAnswers, TypeOK
    <3>2. CASE SpeechAnswers(r)
          BY <1>0, <3>2 DEF SpeechAnswers, TypeOK
    <3> QED
        BY <1>7, <3>1, <3>2
  <2> QED
      BY <1>7, <2>1, <2>2, ReturnType DEF ProviderAnswers, SpeechAnswers, TypeOK
<1>8. ASSUME NEW how \in Outcome, Kill(r, how)
      PROVE  /\ pc' \in [Run -> Place] /\ outcome' \in [Run -> Outcome]
             /\ child' \in [Run -> ChildState]
             /\ UNCHANGED <<done, program>> => Waits'
  <2>1. child' \in [Run -> ChildState]
        BY <1>8 DEF Kill, TypeOK, ChildState
  <2>2. CASE outcome' = [outcome EXCEPT ![r] = how] /\ Move(r, "reaping")
        BY <1>0, <1>8, <2>1, <2>2 DEF Move, TypeOK, Waits
  <2>3. CASE End(r, "failed")
        BY <1>0, <2>1, <2>3, EndType
  <2> QED
      BY <1>8, <2>1, <2>2, <2>3 DEF Kill
<1>9. CASE ToolTimeout(r)
      BY <1>0, <1>8, <1>9 DEF ToolTimeout, TypeOK, ChildState
<1>10. CASE Persist(r)
  <2>1. stored' \in [Run -> Content]
        BY <1>10 DEF Persist, TypeOK
  <2>2. End(r, "ok") \/ End(r, "failed")
        BY <1>10 DEF Persist
  <2> QED
      BY <1>0, <1>10, <2>1, <2>2, EndType DEF Persist, TypeOK
<1>11. CASE RemoveEntries(r)
       BY <1>0, <1>11 DEF RemoveEntries, Move, TypeOK, Waits
<1>12. CASE RemoveDir(r)
  <2>1. outcome[r] \in Outcome /\ outcome[r] \in Place /\ outcome[r] \notin {"child", "thread"}
        BY <1>0 DEF TypeOK, Outcome
  <2> QED
      BY <1>12, <2>1 DEF RemoveDir, Move, TypeOK, Waits
<1>13. ASSUME NEW why \in Signal, Interrupt(r, why) PROVE TypeOK' /\ Waits'
  <2>1. /\ pc' \in [Run -> Place] /\ outcome' \in [Run -> Outcome]
        /\ child' \in [Run -> ChildState]
        /\ Waits'
    <3>1. Kill(r, "cancelled") \/ (End(r, "cancelled") /\ UNCHANGED child)
          BY <1>13 DEF Interrupt, Cancelled
    <3>2. UNCHANGED <<done, program>>
          BY <1>13 DEF Interrupt
    <3> QED
        BY <1>0, <1>8, <3>1, <3>2, EndType DEF TypeOK, ChildState
  <2>2. signals' \in [Run -> SUBSET Signal] /\ thread' \in [Run -> ThreadState]
        BY <1>13 DEF Interrupt, TypeOK, ThreadState
  <2> QED
      BY <1>13, <2>1, <2>2 DEF Interrupt, TypeOK, ChildState, ThreadState
<1> QED
    BY <1>1, <1>2, <1>3, <1>4, <1>5, <1>6, <1>7, <1>9, <1>10, <1>11, <1>12, <1>13 DEF TaskStep

(* Every step keeps the types.                                             *)
LEMMA NextType == TypeOK /\ Waits /\ [Next]_vars => TypeOK' /\ Waits'
<1> SUFFICES ASSUME TypeOK, Waits, [Next]_vars PROVE TypeOK' /\ Waits'
    OBVIOUS
<1>1. ASSUME NEW r \in Run, Background(r) PROVE TypeOK' /\ Waits'
  <2> USE DEF task, os, gpu
  <2>1. Waits'
        BY <1>1 DEF Background, ChildWrites, ChildSucceeds, ChildFails, ChildDies, ThreadStarts,
            DetectEnds, TakeLock, EnhanceStarts, EnhanceEnds, WriteStarts, WriteEnds, UpscaleFails,
            Waits
  <2>2. "partial" \in Content /\ r \in Content
        BY DEF Content
  <2>3. CASE ChildWrites(r) \/ ChildFails(r) \/ ChildDies(r)
    <3>1. CASE ChildWrites(r)
          BY <2>1, <2>2, <3>1 DEF ChildWrites, TypeOK
    <3>2. CASE ChildFails(r) \/ ChildDies(r)
          BY <2>1, <3>2 DEF ChildFails, ChildDies, TypeOK
    <3> QED
        BY <2>3, <3>1, <3>2
  <2>4. CASE ChildSucceeds(r)
    <3>1. file' \in [Run -> Content]
          BY <2>2, <2>4 DEF ChildSucceeds, TypeOK
    <3> QED
        BY <2>1, <2>4, <3>1 DEF ChildSucceeds, TypeOK
  <2>5. CASE ThreadStarts(r) \/ DetectEnds(r)
        BY <2>1, <2>5 DEF ThreadStarts, DetectEnds, Continue, TypeOK
  <2>6. CASE TakeLock(r) \/ EnhanceStarts(r)
        BY <2>1, <2>6 DEF TakeLock, EnhanceStarts, Continue, TypeOK
  <2>7. CASE EnhanceEnds(r)
        BY <2>1, <2>7 DEF EnhanceEnds, Continue, TypeOK
  <2>8. CASE WriteStarts(r) \/ UpscaleFails(r)
    <3>1. CASE WriteStarts(r)
          BY <2>1, <2>2, <3>1 DEF WriteStarts, Continue, TypeOK
    <3>2. CASE UpscaleFails(r)
          BY <2>1, <3>2 DEF UpscaleFails, Continue, TypeOK
    <3> QED
        BY <2>8, <3>1, <3>2
  <2>9. CASE WriteEnds(r)
    <3>1. file' \in [Run -> Content]
          BY <2>9 DEF WriteEnds, TypeOK, Content
    <3> QED
        BY <2>1, <2>9, <3>1 DEF WriteEnds, Continue, TypeOK
  <2> QED
      BY <1>1, <2>3, <2>4, <2>5, <2>6, <2>7, <2>8, <2>9 DEF Background
<1>2. CASE WorkerCrash
      BY <1>2, BoundsAssumption DEF WorkerCrash, TypeOK, Waits, Place, Ended, os
<1>3. CASE UNCHANGED vars
      BY <1>3 DEF vars, TypeOK, Waits
<1> QED
    BY <1>1, <1>2, <1>3, TaskType, NextSteps

(* Every variable keeps its type.                                          *)
THEOREM HandlerTypes == Spec => []TypeOK
BY InitType, NextType, PTL DEF Spec

-----------------------------------------------------------------------------
(* A child process runs while its task waits for it, or is an orphan.      *)
ChildInv(r) == child[r] = "running" => pc[r] \in {"child", "crashed"}

(* A thread that has begun works while its task waits for it; an upscale   *)
(* also goes on after that task was cancelled there.                       *)
ThreadInv(r) ==
    /\ thread[r] = "queued" => pc[r] = "thread"
    /\ thread[r] \in {"waiting"} \cup Holding =>
         /\ pc[r] \in {"thread", "cleaning", "rmdir", "cancelled"}
         /\ Calls(r, {"gpu"}) /\ (pc[r] # "thread" => outcome[r] = "cancelled")

(* One thread at a time works with the upsampler, and takes out of it what *)
(* it has put in.                                                          *)
LockInv(r) ==
    /\ thread[r] \in Holding => lock = r
    /\ thread[r] = "enhancing" => engine = r
    /\ thread[r] \in {"enhanced", "writing"} => image[r] = r

(* What is in the file, wherever the task is: while nobody writes it, all  *)
(* or nothing.                                                             *)
FileInv(r) ==
    /\ pc[r] \in {"idle", "ready", "http", "persist"} => file[r] \in {"none", r}
    /\ pc[r] = "child" => \/ child[r] = "running" /\ file[r] \in {"none", "partial"}
                          \/ child[r] = "succeeded" /\ file[r] \in {"none", r}
                          \/ child[r] = "failed"
    /\ pc[r] = "thread" =>
         file[r] \in {"none", r} \/ thread[r] \in {"writing", "error"}
    /\ thread[r] = "writing" => file[r] \in {"none", "partial"}
    /\ stored[r] \in {"none", r}

(* Only a cancelled upscale puts something into a directory that has been  *)
(* emptied.                                                                *)
DirInv(r) ==
    \/ At(r, {"rmdir"}) /\ file[r] # "none"
    \/ At(r, Outcome) /\ dir[r]
    => outcome[r] = "cancelled" /\ Calls(r, {"gpu"})

Fine(r) == ChildInv(r) /\ ThreadInv(r) /\ LockInv(r) /\ FileInv(r) /\ DirInv(r)

HandlerInv == TypeOK /\ Waits /\ \A r \in Run : Fine(r)

(* At first nothing runs and nothing is there.                             *)
LEMMA InitHandler == Init => HandlerInv
<1> SUFFICES ASSUME Init PROVE HandlerInv
    OBVIOUS
<1>1. ASSUME NEW r \in Run PROVE Fine(r)
      BY DEF Init, Fine, ChildInv, ThreadInv, LockInv, FileInv, DirInv, At, Outcome, Holding
<1> QED
    BY <1>1, InitType DEF HandlerInv

(* An execution that does not move stays fine, if nobody takes its lock.   *)
Still(q) ==
    /\ program'[q] = program[q] /\ pc'[q] = pc[q] /\ done'[q] = done[q]
    /\ outcome'[q] = outcome[q] /\ child'[q] = child[q] /\ thread'[q] = thread[q]
    /\ image'[q] = image[q] /\ file'[q] = file[q] /\ dir'[q] = dir[q]
    /\ stored'[q] = stored[q]

(* An execution that does not move stays fine, if nobody takes its lock    *)
(* from it.                                                                *)
LEMMA StillFine ==
    ASSUME NEW q \in Run, Fine(q), Still(q),
           thread[q] \in Holding => lock' = lock /\ engine' = engine
    PROVE  Fine(q)'
BY DEF Still, Fine, ChildInv, ThreadInv, LockInv, FileInv, DirInv, At, Calls, Returned, Holding

(* One execution moves.                                                    *)
LEMMA OneMoves ==
    ASSUME HandlerInv, TypeOK', Waits', NEW r \in Run, Fine(r)',
           \A q \in Run \ {r} : Still(q),
           thread[r] \in Holding \/ lock = Free \/ UNCHANGED <<lock, engine>>
    PROVE  HandlerInv'
<1>1. ASSUME NEW q \in Run, q # r PROVE Fine(q)'
  <2>1. thread[q] \in Holding => lock' = lock /\ engine' = engine
    <3>1. ASSUME thread[q] \in Holding PROVE lock = q
          BY <3>1 DEF HandlerInv, Fine, LockInv
    <3>2. thread[r] \in Holding => lock = r
          BY DEF HandlerInv, Fine, LockInv
    <3> QED
        BY <1>1, <3>1, <3>2, RunAssumption DEF Free
  <2> QED
      BY <1>1, <2>1, StillFine DEF HandlerInv
<1> QED
    BY <1>1 DEF HandlerInv

(* Every step of a task leaves its execution fine.                         *)
LEMMA TaskFine ==
    ASSUME HandlerInv, NEW r \in Run, TaskStep(r)
    PROVE  Fine(r)' /\ UNCHANGED <<lock, engine>> /\ \A q \in Run \ {r} : Still(q)
<1> USE DEF task, os, gpu
<1>0. /\ TypeOK /\ Waits /\ ChildInv(r) /\ ThreadInv(r) /\ LockInv(r) /\ FileInv(r) /\ DirInv(r)
      /\ r \notin {"partial", "none"}
      BY RunAssumption DEF HandlerInv, Fine
<1>1. \A q \in Run \ {r} : Still(q)
  <2>1. CASE Begin(r) \/ Raise(r) \/ CallChild(r) \/ ChildReturned(r) \/ ChildFailed(r)
        BY <1>0, <2>1 DEF Begin, Raise, CallChild, ChildReturned, ChildFailed, Return, End, Move,
                          Still, TypeOK
  <2>2. CASE ToolTimeout(r) \/ Reaped(r) \/ CallThread(r) \/ ThreadReturned(r) \/ CallProvider(r)
        BY <1>0, <2>2 DEF ToolTimeout, Kill, Reaped, CallThread, ThreadReturned, CallProvider,
                          Return, End, Move, Still, TypeOK
  <2>3. CASE ProviderAnswers(r) \/ SpeechAnswers(r) \/ HandlerReturns(r) \/ Persist(r)
        BY <1>0, <2>3 DEF ProviderAnswers, SpeechAnswers, HandlerReturns, Persist,
                          Return, End, Move, Still, TypeOK
  <2>4. CASE RemoveEntries(r) \/ RemoveDir(r)
        BY <1>0, <2>4 DEF RemoveEntries, RemoveDir, Move, Still, TypeOK
  <2>5. ASSUME NEW why \in Signal, Interrupt(r, why) PROVE \A q \in Run \ {r} : Still(q)
        BY <1>0, <2>5 DEF Interrupt, Cancelled, Kill, End, Move, Still, TypeOK
  <2> QED
      BY <2>1, <2>2, <2>3, <2>4, <2>5 DEF TaskStep
<1>2. UNCHANGED <<lock, engine, image>>
      BY DEF TaskStep, Begin, Raise, CallChild, ChildReturned, ChildFailed, ToolTimeout, Reaped,
             CallThread, ThreadReturned, CallProvider, ProviderAnswers, SpeechAnswers,
             HandlerReturns, Persist, RemoveEntries, RemoveDir, Interrupt
<1>3. /\ pc \in [Run -> Place] /\ outcome \in [Run -> Outcome] /\ child \in [Run -> ChildState]
      /\ thread \in [Run -> ThreadState] /\ image \in [Run -> {"none"} \cup Run]
      /\ file \in [Run -> Content] /\ dir \in [Run -> BOOLEAN] /\ stored \in [Run -> Content]
      /\ done \in [Run -> Nat]
      BY <1>0 DEF TypeOK, ChildState, ThreadState
<1>4. done'[r] = done[r] => (Calls(r, {"gpu"})' <=> Calls(r, {"gpu"}))
      BY DEF TaskStep, Begin, Raise, CallChild, ChildReturned, ChildFailed, ToolTimeout, Reaped,
             CallThread, ThreadReturned, CallProvider, ProviderAnswers, SpeechAnswers,
             HandlerReturns, Persist, RemoveEntries, RemoveDir, Interrupt, Calls, Returned
<1>5. ASSUME Begin(r) \/ CallProvider(r) \/ HandlerReturns(r) PROVE Fine(r)'
      BY <1>0, <1>3, <1>4, <1>5 DEF Begin, CallProvider, HandlerReturns, Move, At,
             Fine, ChildInv, ThreadInv, LockInv, FileInv, DirInv, Outcome, Holding
<1>6. ASSUME Reaped(r) PROVE Fine(r)'
      BY <1>0, <1>3, <1>4, <1>6 DEF Reaped, Move, At,
             Fine, ChildInv, ThreadInv, LockInv, FileInv, DirInv, Outcome, Holding
<1>7. ASSUME Raise(r) \/ ChildFailed(r) PROVE Fine(r)'
      BY <1>0, <1>3, <1>4, <1>7 DEF Raise, ChildFailed, End, Move, At,
             Fine, ChildInv, ThreadInv, LockInv, FileInv, DirInv, Outcome, Holding
<1>8. ASSUME CallChild(r) PROVE Fine(r)'
      BY <1>0, <1>3, <1>4, <1>8 DEF CallChild, Move, At,
             Fine, ChildInv, ThreadInv, LockInv, FileInv, DirInv, Outcome, Holding
<1>9. ASSUME CallThread(r) PROVE Fine(r)'
      BY <1>0, <1>3, <1>4, <1>9 DEF CallThread, Move, At,
             Fine, ChildInv, ThreadInv, LockInv, FileInv, DirInv, Outcome, Holding
<1>10. ASSUME ChildReturned(r) PROVE Fine(r)'
      BY <1>0, <1>3, <1>4, <1>10 DEF ChildReturned, Return, Move, At,
             Fine, ChildInv, ThreadInv, LockInv, FileInv, DirInv, Outcome, Holding
<1>11. ASSUME ThreadReturned(r) PROVE Fine(r)'
      BY <1>0, <1>3, <1>4, <1>11 DEF ThreadReturned, Return, End, Move, At,
             Fine, ChildInv, ThreadInv, LockInv, FileInv, DirInv, Outcome, Holding
<1>12. ASSUME ProviderAnswers(r) \/ SpeechAnswers(r) PROVE Fine(r)'
       BY <1>0, <1>3, <1>4, <1>12 DEF ProviderAnswers, SpeechAnswers, Return, Move, At,
              Fine, ChildInv, ThreadInv, LockInv, FileInv, DirInv, Outcome, Holding
<1>13. ASSUME Persist(r) PROVE Fine(r)'
       BY <1>0, <1>3, <1>4, <1>13 DEF Persist, End, Move, At,
              Fine, ChildInv, ThreadInv, LockInv, FileInv, DirInv, Outcome, Holding
<1>14. ASSUME RemoveEntries(r) PROVE Fine(r)'
       BY <1>0, <1>3, <1>4, <1>14 DEF RemoveEntries, Move, At,
              Fine, ChildInv, ThreadInv, LockInv, FileInv, DirInv, Outcome, Holding
<1>15. ASSUME RemoveDir(r) PROVE Fine(r)'
       BY <1>0, <1>3, <1>4, <1>15 DEF RemoveDir, Move, At,
              Fine, ChildInv, ThreadInv, LockInv, FileInv, DirInv, Outcome, Holding
<1>16. ASSUME ToolTimeout(r) PROVE Fine(r)'
       BY <1>0, <1>3, <1>4, <1>16 DEF ToolTimeout, Kill, End, Move, At,
              Fine, ChildInv, ThreadInv, LockInv, FileInv, DirInv, Outcome, Holding
<1>17. ASSUME NEW why \in Signal, Interrupt(r, why) PROVE Fine(r)'
       BY <1>0, <1>3, <1>4, <1>17 DEF Interrupt, Cancelled, Kill, End, Move, At,
              Awaiting, Fine, ChildInv, ThreadInv, LockInv, FileInv, DirInv, Outcome, Holding
<1> QED
    BY <1>1, <1>2, <1>5, <1>6, <1>7, <1>8, <1>9, <1>10, <1>11, <1>12, <1>13, <1>14, <1>15, <1>16,
       <1>17 DEF TaskStep

(* So does every step of its child process and of its thread.              *)
LEMMA BackgroundFine ==
    ASSUME HandlerInv, NEW r \in Run, Background(r)
    PROVE  /\ Fine(r)' /\ \A q \in Run \ {r} : Still(q)
           /\ thread[r] \in Holding \/ lock = Free \/ UNCHANGED <<lock, engine>>
<1> USE DEF task, os, gpu
<1>0. /\ TypeOK /\ Waits /\ ChildInv(r) /\ ThreadInv(r) /\ LockInv(r) /\ FileInv(r) /\ DirInv(r)
      /\ r \notin {"partial", "none"}
      BY RunAssumption DEF HandlerInv, Fine
<1>1. \A q \in Run \ {r} : Still(q)
  <2>1. CASE ChildWrites(r) \/ ChildSucceeds(r) \/ ChildFails(r) \/ ChildDies(r)
        BY <1>0, <2>1 DEF ChildWrites, ChildSucceeds, ChildFails, ChildDies, Still, TypeOK
  <2>2. CASE ThreadStarts(r) \/ DetectEnds(r) \/ TakeLock(r) \/ EnhanceStarts(r) \/ EnhanceEnds(r)
        BY <1>0, <2>2 DEF ThreadStarts, DetectEnds, TakeLock, EnhanceStarts, EnhanceEnds, Continue,
                          Still, TypeOK
  <2>3. CASE WriteStarts(r) \/ WriteEnds(r) \/ UpscaleFails(r)
        BY <1>0, <2>3 DEF WriteStarts, WriteEnds, UpscaleFails, Continue, Still, TypeOK
  <2> QED
      BY <2>1, <2>2, <2>3 DEF Background
<1>2. thread[r] \in Holding \/ lock = Free \/ UNCHANGED <<lock, engine>>
      BY DEF Background, ChildWrites, ChildSucceeds, ChildFails, ChildDies, ThreadStarts, DetectEnds,
             TakeLock, EnhanceStarts, EnhanceEnds, WriteStarts, WriteEnds, UpscaleFails, Holding
<1>3. /\ pc \in [Run -> Place] /\ outcome \in [Run -> Outcome] /\ child \in [Run -> ChildState]
      /\ thread \in [Run -> ThreadState] /\ image \in [Run -> {"none"} \cup Run]
      /\ file \in [Run -> Content] /\ dir \in [Run -> BOOLEAN] /\ stored \in [Run -> Content]
      /\ done \in [Run -> Nat]
      BY <1>0 DEF TypeOK, ChildState, ThreadState
<1>4. done'[r] = done[r] => (Calls(r, {"gpu"})' <=> Calls(r, {"gpu"}))
      BY DEF Background, ChildWrites, ChildSucceeds, ChildFails, ChildDies, ThreadStarts, DetectEnds,
             TakeLock, EnhanceStarts, EnhanceEnds, WriteStarts, WriteEnds, UpscaleFails, Calls, Returned
<1>5. ASSUME ChildWrites(r) \/ ChildFails(r) \/ ChildDies(r) PROVE Fine(r)'
      BY <1>0, <1>3, <1>4, <1>5 DEF ChildWrites, ChildFails, ChildDies, At,
             Fine, ChildInv, ThreadInv, LockInv, FileInv, DirInv, Outcome, Holding
<1>6. ASSUME ChildSucceeds(r) PROVE Fine(r)'
      BY <1>0, <1>3, <1>4, <1>6 DEF ChildSucceeds, At,
             Fine, ChildInv, ThreadInv, LockInv, FileInv, DirInv, Outcome, Holding
<1>7. ASSUME ThreadStarts(r) \/ DetectEnds(r) PROVE Fine(r)'
      BY <1>0, <1>3, <1>4, <1>7 DEF ThreadStarts, DetectEnds, Continue, At,
             Fine, ChildInv, ThreadInv, LockInv, FileInv, DirInv, Outcome, Holding
<1>8. ASSUME TakeLock(r) \/ EnhanceStarts(r) \/ EnhanceEnds(r) PROVE Fine(r)'
      BY <1>0, <1>3, <1>4, <1>8 DEF TakeLock, EnhanceStarts, EnhanceEnds, Continue, At,
             Fine, ChildInv, ThreadInv, LockInv, FileInv, DirInv, Outcome, Holding
<1>9. ASSUME WriteStarts(r) PROVE Fine(r)'
      BY <1>0, <1>3, <1>4, <1>9 DEF WriteStarts, Continue, At,
             Fine, ChildInv, ThreadInv, LockInv, FileInv, DirInv, Outcome, Holding
<1>10. ASSUME WriteEnds(r) \/ UpscaleFails(r) PROVE Fine(r)'
      BY <1>0, <1>3, <1>4, <1>10 DEF WriteEnds, UpscaleFails, Continue, At,
             Fine, ChildInv, ThreadInv, LockInv, FileInv, DirInv, Outcome, Holding
<1> QED
    BY <1>1, <1>2, <1>5, <1>6, <1>7, <1>8, <1>9, <1>10 DEF Background

(* Every step keeps every execution fine.                                  *)
LEMMA NextHandler == HandlerInv /\ [Next]_vars => HandlerInv'
<1> SUFFICES ASSUME HandlerInv, [Next]_vars PROVE HandlerInv'
    OBVIOUS
<1>1. TypeOK' /\ Waits'
      BY NextType DEF HandlerInv
<1>2. ASSUME NEW r \in Run, TaskStep(r) \/ Background(r) PROVE HandlerInv'
  <2>1. /\ Fine(r)' /\ \A q \in Run \ {r} : Still(q)
        /\ thread[r] \in Holding \/ lock = Free \/ UNCHANGED <<lock, engine>>
        BY <1>2, TaskFine, BackgroundFine
  <2> QED
      BY <1>1, <2>1, OneMoves
<1>3. CASE WorkerCrash
  <2>1. ASSUME NEW r \in Run PROVE Fine(r)'
    <3>1. /\ thread'[r] = "none"
          /\ pc'[r] \in {pc[r], "crashed"} /\ (pc[r] \in {"child", "rmdir"} => pc'[r] = "crashed")
          /\ UNCHANGED <<program, done, outcome, stored, child, file, dir>>
          BY <1>3 DEF WorkerCrash, os, At, Ended, Outcome
    <3>2. pc'[r] \notin {"thread", "child", "rmdir"}
          BY <1>3 DEF WorkerCrash, At, Ended, Outcome
    <3> QED
        BY <3>1, <3>2 DEF HandlerInv, Fine, ChildInv, ThreadInv, LockInv, FileInv, DirInv, At,
                          Calls, Returned, Outcome, Holding
  <2> QED
      BY <1>1, <2>1 DEF HandlerInv
<1>4. CASE UNCHANGED vars
  <2>1. \A r \in Run : Fine(r)'
        BY <1>4, StillFine DEF vars, Still, HandlerInv
  <2> QED
      BY <1>1, <2>1 DEF HandlerInv
<1> QED
    BY <1>2, <1>3, <1>4, NextSteps

(* The invariant of the module.                                            *)
LEMMA HandlerInvariant == Spec => []HandlerInv
BY InitHandler, NextHandler, PTL DEF Spec

(* What a job stores is complete and made of its own input, whatever tools *)
(* do and whichever threads work with the upsampler.                       *)
THEOREM StoredWholeAndOwn == Spec => []StoredIsWholeAndOwn
<1>1. HandlerInv => StoredIsWholeAndOwn
      BY DEF HandlerInv, Fine, FileInv, StoredIsWholeAndOwn
<1> QED
    BY <1>1, HandlerInvariant, PTL

(* A job that is over has no child process running.                        *)
THEOREM NoOrphans == Spec => []NoOrphanProcess
<1>1. HandlerInv => NoOrphanProcess
      BY DEF HandlerInv, Fine, ChildInv, NoOrphanProcess, At, Outcome
<1> QED
    BY <1>1, HandlerInvariant, PTL

(* A work directory outlives its job only where an upscale was interrupted *)
(* in its thread.                                                          *)
THEOREM LeftoversAreUpscales == Spec => []LeftoverIsAnUpscale
<1>1. HandlerInv => LeftoverIsAnUpscale
      BY DEF HandlerInv, Fine, DirInv, LeftoverIsAnUpscale
<1> QED
    BY <1>1, HandlerInvariant, PTL

=============================================================================
