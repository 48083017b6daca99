------------------------------ MODULE Handlers ------------------------------
(***************************************************************************)
(* How the worker runs the handlers of jobs (capabilities/handlers, tools, *)
(* providers): what Jobs takes as one step, ExecHandler.                   *)
(*                                                                         *)
(* A handler is a sequence of awaited calls.  Some start a child process   *)
(* (tools/runner.py), some run in a thread of the default executor, which  *)
(* goes on when the task that awaits it is cancelled, and Real-ESRGAN      *)
(* shares one object and a lock among all threads (tools/realesrgan.py).   *)
(* Each execution works in a directory of its own, removed in the end      *)
(* while a thread may still write to it.                                   *)
(***************************************************************************)
EXTENDS Naturals, Sequences, SequencesExt

CONSTANTS
    Run,        \* the executions of jobs by the worker
    Asked,      \* the programs they may call for
    Clips,      \* the number of inputs of a handler that takes several
    PoolSize,   \* threads of the default executor
    MaxCrashes  \* bound: how often the worker dies

-----------------------------------------------------------------------------
(* The program of a handler: the calls it awaits, in order.                *)
(*   "query"   a child process whose output is read and then dropped       *)
(*   "child"   a child process that writes a file                          *)
(*   "gpu"     a thread that writes a file made with the shared upsampler  *)
(*   "cpu"     a thread that writes no file                                *)
(*   "http"    the inference provider                                      *)
(*   "speech"  the provider, whose answer may be written to a file         *)

Repeat(calls, n) == FlattenSeq([i \in 1..n |-> calls])

(* tools/imagemagick.py *)
Convert == <<"child">>
TextCard == <<"child">>

(* tools/ffmpeg.py *)
CutVideo == <<"child">>
EditVideo == <<"child">>
EditAudio == <<"child">>
ConvertAudio == <<"child">>
FadeOut == <<"query", "child">>
StillToClip == <<"child">>
Slideshow == <<"child">>
EmbedSubtitle == <<"child">>
Mix == <<"child">>
ConcatNormalize == <<"query", "child">>
Concat == <<"query">> \o Repeat(ConcatNormalize, Clips) \o <<"child">>
NormalizeSegment == <<"child">>
Compose(bed, subtitles) ==
    Repeat(NormalizeSegment, Clips) \o <<"child">>
    \o (IF bed THEN Mix ELSE <<>>) \o (IF subtitles THEN EmbedSubtitle ELSE <<>>)
    \o <<"child">>

(* capabilities/handlers *)
ImageHandlers == {Convert, <<"gpu">>}
AudioHandlers == {EditAudio, FadeOut, ConvertAudio}
VideoHandlers == {CutVideo, EditVideo, Concat, <<"cpu">>}
ComposeHandlers == {Slideshow, TextCard \o StillToClip, EmbedSubtitle, Mix}
                   \cup {Compose(bed, subtitles) : bed, subtitles \in BOOLEAN}
ProviderHandlers == {<<"http">>}
SpeechHandlers == {<<"speech">>}
NotImplemented == {<<>>}

(* capabilities/registry.py *)
Programs == ImageHandlers \cup AudioHandlers \cup VideoHandlers \cup ComposeHandlers
            \cup ProviderHandlers \cup SpeechHandlers \cup NotImplemented

CallKinds == {"query", "child", "gpu", "cpu", "http", "speech"}

ASSUME AskedAssumption == Asked \subseteq Programs /\ Asked \subseteq Seq(CallKinds)
ASSUME RunAssumption == Run \cap {"free", "none", "partial"} = {}
ASSUME BoundsAssumption == Clips \in Nat /\ PoolSize \in Nat \ {0} /\ MaxCrashes \in Nat

-----------------------------------------------------------------------------
Signal == {"abort", "timeout"}
Outcome == {"ok", "failed", "cancelled"}
Ended == Outcome \cup {"crashed"}
Awaiting == {"child", "reaping", "thread", "http", "persist"}
Place == {"idle", "ready", "cleaning", "rmdir"} \cup Awaiting \cup Ended

(* What a file holds: nothing yet, part of it, or all that was made of the *)
(* input of one execution.                                                 *)
Content == {"none", "partial"} \cup Run

VARIABLES
    program,  \* the calls of each execution
    pc,       \* where its task is
    done,     \* how many of the calls have returned
    outcome,  \* how it is going to end, from the cleanup on
    signals,  \* why its task was cancelled: an abort, arq's job_timeout
    child,    \* the child process
    thread,   \* the thread working for it
    image,    \* the picture that thread has taken from the upsampler
    file,     \* the file the last call writes, in the work directory
    dir,      \* whether the work directory is there
    stored,   \* what was registered as the job's output
    lock,     \* who holds realesrgan._lock
    engine,   \* whose picture the attributes of _upsampler hold
    crashes   \* how often the worker has died

vars == <<program, pc, done, outcome, signals, child, thread, image, file, dir,
          stored, lock, engine, crashes>>
task == <<program, done, outcome, signals, stored, crashes>>
os == <<child, file, dir>>
gpu == <<thread, image, lock, engine>>

Free == "free"

Init ==
    /\ program \in [Run -> Asked]
    /\ pc = [r \in Run |-> "idle"]
    /\ done = [r \in Run |-> 0]
    /\ outcome = [r \in Run |-> "ok"]
    /\ signals = [r \in Run |-> {}]
    /\ child = [r \in Run |-> "none"]
    /\ thread = [r \in Run |-> "none"]
    /\ image = [r \in Run |-> "none"]
    /\ file = [r \in Run |-> "none"]
    /\ dir = [r \in Run |-> FALSE]
    /\ stored = [r \in Run |-> "none"]
    /\ lock = Free /\ engine = "none"
    /\ crashes = 0

At(r, places) == pc[r] \in places
Move(r, place) == pc' = [pc EXCEPT ![r] = place]
Returned(r) == done[r] = Len(program[r])
Calls(r, kinds) == ~Returned(r) /\ program[r][done[r] + 1] \in kinds
Threaded(r) == Calls(r, {"gpu", "cpu"})

(* The task leaves the handler for `finally`.                              *)
End(r, how) ==
    /\ Move(r, "cleaning")
    /\ outcome' = [outcome EXCEPT ![r] = how]

Return(r) ==
    /\ Move(r, "ready")
    /\ done' = [done EXCEPT ![r] = @ + 1]

-----------------------------------------------------------------------------
(* The task of one execution, from one await to the next.                  *)

Begin(r) ==
    /\ At(r, {"idle"})
    /\ dir' = [dir EXCEPT ![r] = TRUE]
    /\ Move(r, "ready")
    /\ UNCHANGED <<task, child, file, gpu>>

(* A parameter or an input is not what the handler needs, a tool is not    *)
(* installed, or the provider fails.                                       *)
Raise(r) ==
    /\ At(r, {"ready", "http"}) /\ ~Returned(r)
    /\ End(r, "failed")
    /\ UNCHANGED <<program, done, signals, stored, crashes, os, gpu>>

(* create_subprocess_exec and the wait for the process are one await here: *)
(* interrupted inside the first, asyncio itself kills the process and      *)
(* waits for it, as the runner does in the second.                         *)
CallChild(r) ==
    /\ At(r, {"ready"}) /\ Calls(r, {"query", "child"})
    /\ child' = [child EXCEPT ![r] = "running"]
    /\ file' = [file EXCEPT ![r] = "none"]
    /\ Move(r, "child")
    /\ UNCHANGED <<task, dir, gpu>>

ChildReturned(r) ==
    /\ At(r, {"child"}) /\ child[r] = "succeeded"
    /\ Return(r)
    /\ UNCHANGED <<program, outcome, signals, stored, crashes, os, gpu>>

ChildFailed(r) ==
    /\ At(r, {"child"}) /\ child[r] = "failed"
    /\ End(r, "failed")
    /\ UNCHANGED <<program, done, signals, stored, crashes, os, gpu>>

(* Mutant: the process is waited for and not killed.                       *)
Kill_WaitsOnly(r, why) ==
    /\ UNCHANGED child
    /\ \/ outcome' = [outcome EXCEPT ![r] = why] /\ Move(r, "reaping")
       \/ child[r] # "running" /\ End(r, "failed")

(* kill(), then wait().  Of a process that has ended asyncio may have      *)
(* dropped the handle: kill() then raises ProcessLookupError, which takes  *)
(* the place of what was being handled.  Otherwise it does nothing.        *)
Kill(r, why) ==
    /\ child' = [child EXCEPT ![r] = IF @ = "running" THEN "killed" ELSE @]
    /\ \/ outcome' = [outcome EXCEPT ![r] = why] /\ Move(r, "reaping")
       \/ child[r] # "running" /\ End(r, "failed")

ToolTimeout(r) ==
    /\ At(r, {"child"})
    /\ Kill(r, "failed")
    /\ UNCHANGED <<program, done, signals, stored, crashes, file, dir, gpu>>

Reaped(r) ==
    /\ At(r, {"reaping"}) /\ child[r] \notin {"running", "killed"}
    /\ Move(r, "cleaning")
    /\ UNCHANGED <<task, os, gpu>>

CallThread(r) ==
    /\ At(r, {"ready"}) /\ Threaded(r)
    /\ thread' = [thread EXCEPT ![r] = "queued"]
    /\ Move(r, "thread")
    /\ UNCHANGED <<task, os, image, lock, engine>>

(* Mutant: the result is taken and the task goes on waiting.               *)
ThreadReturned_Waits(r) ==
    /\ At(r, {"thread"}) /\ thread[r] = "done"
    /\ done' = [done EXCEPT ![r] = @ + 1]
    /\ UNCHANGED <<pc, program, outcome, signals, stored, crashes, os, gpu>>

ThreadReturned(r) ==
    /\ At(r, {"thread"})
    /\ \/ thread[r] = "done" /\ Return(r) /\ UNCHANGED outcome
       \/ thread[r] = "error" /\ End(r, "failed") /\ UNCHANGED done
    /\ UNCHANGED <<program, signals, stored, crashes, os, gpu>>

CallProvider(r) ==
    /\ At(r, {"ready"}) /\ Calls(r, {"http", "speech"})
    /\ Move(r, "http")
    /\ UNCHANGED <<task, os, gpu>>

ProviderAnswers(r) ==
    /\ At(r, {"http"}) /\ Calls(r, {"http"})
    /\ Return(r)
    /\ UNCHANGED <<program, outcome, signals, stored, crashes, os, gpu>>

(* The mock provider answers with text only.                               *)
SpeechAnswers(r) ==
    /\ At(r, {"http"}) /\ Calls(r, {"speech"})
    /\ \E content \in {"none", r} : file' = [file EXCEPT ![r] = content]
    /\ Return(r)
    /\ UNCHANGED <<program, outcome, signals, stored, crashes, child, dir, gpu>>

HandlerReturns(r) ==
    /\ At(r, {"ready"}) /\ Returned(r)
    /\ Move(r, "persist")
    /\ UNCHANGED <<task, os, gpu>>

(* A tool that succeeded need not have written the file expected of it.    *)
FileMissing(r) ==
    /\ program[r] # <<>> /\ Last(program[r]) \in {"child", "gpu"}
    /\ file[r] = "none"

Persist(r) ==
    /\ At(r, {"persist"})
    /\ \/ /\ ~FileMissing(r)
          /\ stored' = [stored EXCEPT ![r] = file[r]]
          /\ End(r, "ok")
       \/ End(r, "failed") /\ UNCHANGED stored
    /\ UNCHANGED <<program, done, signals, crashes, os, gpu>>

(* Mutant: the directory alone is removed.                                 *)
RemoveEntries_None(r) ==
    /\ At(r, {"cleaning"})
    /\ Move(r, "rmdir")
    /\ UNCHANGED <<task, os, gpu>>

(* rmtree(work_dir, ignore_errors=True) removes what it finds ...          *)
RemoveEntries(r) ==
    /\ At(r, {"cleaning"})
    /\ file' = [file EXCEPT ![r] = "none"]
    /\ Move(r, "rmdir")
    /\ UNCHANGED <<task, child, dir, gpu>>

(* ... and the directory, if nothing has come into it since.               *)
RemoveDir(r) ==
    /\ At(r, {"rmdir"})
    /\ dir' = [dir EXCEPT ![r] = file[r] # "none"]
    /\ Move(r, outcome[r])
    /\ UNCHANGED <<task, child, file, gpu>>

Step(r) ==
    \/ CallChild(r) \/ ChildReturned(r) \/ ChildFailed(r) \/ Reaped(r)
    \/ CallThread(r) \/ ThreadReturned(r)
    \/ CallProvider(r) \/ ProviderAnswers(r) \/ SpeechAnswers(r)
    \/ HandlerReturns(r) \/ Persist(r) \/ RemoveEntries(r) \/ RemoveDir(r)

-----------------------------------------------------------------------------
(* The child process.                                                      *)

ChildWrites(r) ==
    /\ child[r] = "running" /\ Calls(r, {"child"})
    /\ dir[r] /\ file[r] = "none"
    /\ file' = [file EXCEPT ![r] = "partial"]
    /\ UNCHANGED <<pc, task, child, dir, gpu>>

(* `convert` gives a picture of several frames other names: it succeeds    *)
(* and the file expected is not there.                                     *)
ChildSucceeds(r) ==
    /\ child[r] = "running"
    /\ child' = [child EXCEPT ![r] = "succeeded"]
    /\ \/ UNCHANGED file
       \/ file[r] = "partial" /\ file' = [file EXCEPT ![r] = r]
    /\ file'[r] # "partial"
    /\ UNCHANGED <<pc, task, dir, gpu>>

ChildFails(r) ==
    /\ child[r] = "running"
    /\ child' = [child EXCEPT ![r] = "failed"]
    /\ UNCHANGED <<pc, task, file, dir, gpu>>

ChildDies(r) ==
    /\ child[r] = "killed"
    /\ child' = [child EXCEPT ![r] = "dead"]
    /\ UNCHANGED <<pc, task, file, dir, gpu>>

-----------------------------------------------------------------------------
(* The thread: _detect_sync, or _upscale_sync from `with _lock` on.        *)

Busy == {r \in Run : thread[r] \notin {"none", "queued", "done", "error"}}

Continue(r, place) == thread' = [thread EXCEPT ![r] = place]

ThreadStarts(r) ==
    /\ thread[r] = "queued"
    /\ Cardinality(Busy) < PoolSize
    /\ Continue(r, IF Calls(r, {"gpu"}) THEN "waiting" ELSE "detecting")
    /\ UNCHANGED <<pc, task, os, image, lock, engine>>

DetectEnds(r) ==
    /\ thread[r] = "detecting"
    /\ Continue(r, "done") \/ Continue(r, "error")
    /\ UNCHANGED <<pc, task, os, image, lock, engine>>

(* Mutant: enhance() is called without the lock.                           *)
TakeLock_NoLock(r) ==
    /\ thread[r] = "waiting"
    /\ Continue(r, "reading")
    /\ UNCHANGED <<pc, task, os, image, lock, engine>>

TakeLock(r) ==
    /\ thread[r] = "waiting" /\ lock = Free
    /\ lock' = r
    /\ Continue(r, "reading")
    /\ UNCHANGED <<pc, task, os, image, engine>>

(* enhance() keeps the picture it works on in the upsampler ...            *)
EnhanceStarts(r) ==
    /\ thread[r] = "reading"
    /\ engine' = r
    /\ Continue(r, "enhancing")
    /\ UNCHANGED <<pc, task, os, image, lock>>

(* ... and takes the result from there.                                    *)
EnhanceEnds(r) ==
    /\ thread[r] = "enhancing"
    /\ image' = [image EXCEPT ![r] = engine]
    /\ Continue(r, "enhanced")
    /\ UNCHANGED <<pc, task, os, lock, engine>>

WriteStarts(r) ==
    /\ thread[r] = "enhanced" /\ dir[r]
    /\ file' = [file EXCEPT ![r] = "partial"]
    /\ Continue(r, "writing")
    /\ UNCHANGED <<pc, task, child, dir, image, lock, engine>>

(* A file removed while it is written is gone, although writing succeeds.  *)
WriteEnds(r) ==
    /\ thread[r] = "writing"
    /\ file' = [file EXCEPT ![r] = IF @ = "partial" THEN image[r] ELSE @]
    /\ Continue(r, "done")
    /\ lock' = Free
    /\ UNCHANGED <<pc, task, child, dir, image, engine>>

(* No GPU, an unreadable input, an error of the model, or no directory to  *)
(* write to: the `with` statement releases the lock.                       *)
UpscaleFails(r) ==
    /\ thread[r] \in {"reading", "enhancing", "enhanced"}
    /\ Continue(r, "error")
    /\ lock' = Free
    /\ UNCHANGED <<pc, task, os, image, engine>>

Background(r) ==
    \/ ChildWrites(r) \/ ChildSucceeds(r) \/ ChildFails(r) \/ ChildDies(r)
    \/ ThreadStarts(r) \/ DetectEnds(r) \/ TakeLock(r) \/ EnhanceStarts(r)
    \/ EnhanceEnds(r) \/ WriteStarts(r) \/ WriteEnds(r) \/ UpscaleFails(r)

-----------------------------------------------------------------------------
(* Interruptions: an abort or the end of job_timeout cancels the task once *)
(* each, wherever it is waiting.  The executor drops a call that no thread *)
(* has taken up; one that runs goes on.                                    *)

(* Mutant: CancelledError leaves the runner without a kill.                *)
Cancelled_NoKill(r) == End(r, "cancelled") /\ UNCHANGED child

Cancelled(r) ==
    IF At(r, {"child"}) THEN Kill(r, "cancelled") ELSE End(r, "cancelled") /\ UNCHANGED child

Interrupt(r, why) ==
    /\ At(r, Awaiting) /\ why \notin signals[r]
    /\ signals' = [signals EXCEPT ![r] = @ \cup {why}]
    /\ Cancelled(r)
    /\ thread' = [thread EXCEPT ![r] = IF @ = "queued" THEN "none" ELSE @]
    /\ UNCHANGED <<program, done, stored, crashes, file, dir, image, lock, engine>>

(* The worker dies with its tasks and threads; child processes stay.       *)
WorkerCrash ==
    /\ crashes < MaxCrashes
    /\ crashes' = crashes + 1
    /\ pc' = [r \in Run |-> IF At(r, {"idle"} \cup Ended) THEN pc[r] ELSE "crashed"]
    /\ thread' = [r \in Run |-> "none"]
    /\ lock' = Free /\ engine' = "none"
    /\ UNCHANGED <<program, done, outcome, signals, stored, os, image>>

-----------------------------------------------------------------------------
Terminating ==
    /\ \A r \in Run : /\ At(r, Ended)
                      /\ child[r] \notin {"running", "killed"}
                      /\ thread[r] \in {"none", "done", "error"}
    /\ UNCHANGED vars

Next ==
    \/ \E r \in Run : \/ Begin(r) \/ Raise(r) \/ Step(r) \/ ToolTimeout(r)
                      \/ Background(r)
                      \/ \E why \in Signal : Interrupt(r, why)
    \/ WorkerCrash
    \/ Terminating

(* The event loop goes on, its timers fire (the runner's and arq's), and a *)
(* killed process dies.  Nothing is assumed of a tool, a thread or a       *)
(* provider: they may hang.                                                *)
Fairness ==
    \A r \in Run : /\ WF_vars(Step(r))
                   /\ WF_vars(ChildDies(r))
                   /\ WF_vars(ToolTimeout(r))
                   /\ WF_vars(Interrupt(r, "timeout"))

Spec == Init /\ [][Next]_vars
FairSpec == Spec /\ Fairness

-----------------------------------------------------------------------------
(* Every variable has its type.                                            *)
TypeOK ==
    /\ program \in [Run -> Asked]
    /\ pc \in [Run -> Place]
    /\ done \in [Run -> Nat] /\ \A r \in Run : done[r] <= Len(program[r])
    /\ outcome \in [Run -> Outcome]
    /\ signals \in [Run -> SUBSET Signal]
    /\ child \in [Run -> {"none", "running", "succeeded", "failed", "killed", "dead"}]
    /\ thread \in [Run -> {"none", "queued", "waiting", "detecting", "reading", "enhancing",
                           "enhanced", "writing", "done", "error"}]
    /\ image \in [Run -> {"none"} \cup Run] /\ engine \in {"none"} \cup Run
    /\ file \in [Run -> Content] /\ stored \in [Run -> Content]
    /\ dir \in [Run -> BOOLEAN]
    /\ lock \in {Free} \cup Run
    /\ crashes \in 0..MaxCrashes

(* What a job stores is complete and made of its own input, although       *)
(* threads that nobody waits for any more use the same upsampler, and      *)
(* tools fail, hang and are killed while they write.                       *)
StoredIsWholeAndOwn == \A r \in Run : stored[r] \in {"none", r}

(* A job that is over has no child process running: wherever its task was  *)
(* interrupted, only a worker that dies leaves a process behind.           *)
NoOrphanProcess == \A r \in Run : At(r, Outcome) => child[r] # "running"

(* A work directory outlives its job only where an upscale was interrupted *)
(* in its thread: no other way out leaves something behind.                *)
LeftoverIsAnUpscale ==
    \A r \in Run : At(r, Outcome) /\ dir[r] =>
        outcome[r] = "cancelled" /\ Calls(r, {"gpu"})

(* Every execution ends, even when a tool, a thread or a provider hangs.   *)
RunEnds == \A r \in Run : At(r, {"ready"}) ~> At(r, Ended)
=============================================================================
