# UNICHE media editor backend: specifications and proofs

TLA+ models of the backend in `src/`, the TLC runs that check them and the
theorems that TLAPS proves about them. The backend is a FastAPI service that
keeps projects, media assets and media jobs in Postgres and a directory, hands
jobs to one arq worker through Redis, lets a language model plan sequences of
jobs, and asks a Catalogue service who may use which project.

Everything is modelled at the granularity of the code's `await`s: what happens
between two of them is one action, and all else interleaves. Where the code
holds a SQLAlchemy session across an `await`, the model has the session's copy of
the row; an UPDATE writes only the columns whose value differs from that copy
(`Written(row, old, new)`), which is what a session with `expire_on_commit=False`
does and what several of the properties below turn on.

## 1. The system

| Component | State | Operations | Talks to |
|---|---|---|---|
| Media jobs (`services/jobs.py`, `api/v1/jobs.py`) | row of `jobs`: status, error, progress, output, finish time; a temporary work directory | create, cancel, execute (start, context, handler, store outputs, last look, success, failure) | arq, assets, handlers |
| Job event stream (`api/v1/jobs.py`) | per stream: the status and progress told last | open, poll, tell, close, disconnect | jobs |
| Queue and worker (`workers/`) | arq: outstanding deliveries, try counters, aborts asked for | enqueue, deliver, abort, retry, time out, give up | jobs, plans |
| Handlers and tools (`capabilities/handlers`, `tools/`, `providers/`) | child processes, threads of the default executor, the shared upsampler and its lock | one sequence of awaited calls per capability | job execution |
| Assets (`services/assets.py`, `services/storage.py`) | row of `assets`, file in the storage directory | upload, register an output, rename, soft delete, flag as intermediate, download | projects, jobs, plans |
| Projects (`services/projects.py`, `services/catalogue_client.py`) | companion row: name, description, deleted_at | access check with upsert or soft delete, create, edit, delete | Catalogue |
| Agent sessions (`services/agent.py`, `agent/llm.py`) | transcript, proposed plans | create, post a message (propose, repair, store) | planner backend, assets |
| Agent plans (`services/agent.py`, `agent/executor.py`) | row of `agent_plans`: status, step runs, results | approve, execute, a job per step | arq, jobs, assets |
| Plan validation (`agent/planner.py`, `agent/executor.py`) | none of its own | validate, build a job's input, resolve references, sort results | capabilities |
| Capabilities (`capabilities/definitions.py`, `registry.py`) | none after import | media types, required parameters, what a handler asks for | plan validation, jobs |

The API process and the worker are different processes. They share the
database, the storage directory and Redis, and nothing else; there are no row
locks and no conditional updates. What makes this hard:

* a cancel is a commit and then a signal, and the worker may be anywhere
  meanwhile; its session believes what it read earlier;
* arq delivers at least once: after a shutdown or a crash `execute_job` starts
  again on a row that is already `running`, or over;
* arq ends a job by cancelling its task, at any `await`, and `CancelledError`
  passes the `except Exception` clauses;
* the job of a plan's step has no delivery of its own, so nothing but the plan's
  execution can settle it;
* rows and files are made in steps that may stop half-way;
* a thread is not stopped by cancelling the task that awaits it;
* the Catalogue's answers, the transcript a planner works from and the row a
  stream polls are old by the time they are used;
* plan approval checks a status it read before;
* what validation promises about a plan, `create_job` and the handlers check
  again, each against a list of its own.

What makes each part correct, in a sentence: a job's row never claims outputs
that are not there, nor an end it has not reached, and a cancellation that took
hold is final; every delivery ends, and no unsettled row is without one; a stream
tells a job's progress in order and its end truly; a plan that succeeded is one
complete execution and its results are exactly the outputs no step used; an
accepted plan stops only for reasons validation cannot know; only an answer that
was outdated when written can spoil a project's row; a transcript holds turns the
planner has seen; an asset's row has its file; edits do not undo each other; no
process or directory is left behind except where the code cannot help it.

## 2. The modules

| Module | Models | State and actions |
|---|---|---|
| `Jobs` | `services/jobs.py`, `api/v1/jobs.py`, `workers/`, arq | `jobs` is the table, `att[j]` the worker's attempt (place in `execute_job`, the session's copy, outputs made so far), `req` the cancel requests, `queue`/`aborts`/`tries` arq's state. `Exec*` are the stretches of `execute_job` between awaits, `Cancel*` those of the cancel route, `Arq*` the worker loop, the rest faults. |
| `JobLifecycle` | the README's lifecycle of a job | abstract: `queued → running → succeeded/failed` per job. `Jobs` implements it. |
| `JobEvents` | `GET /jobs/{id}/events` | extends `Jobs` with `stream[s]`: `Open`, `Poll`, `Disconnect`. A poll opens its own session and decides from one copy, so it is one step. |
| `AgentPlans` | `approve_plan`, `execute_plan` | `plans`, `intermediate`, `ex[a]` the execution of the delivery that approval `a` enqueued. A step is one action: of its job remain the status it ends with and whether it has an output. |
| `PlanJobs` | `execute_plan` with `create_job`, `execute_job` and `cancel_job` of each step | extends `AgentPlans` with the rows of the steps' jobs, the stage the current one is in, cancel requests, and a history variable that no guard reads, `dirless`: the jobs for which no work directory could be made; implements `AgentPlans`. |
| `Capabilities` | `capabilities/definitions.py`, the checks at the head of the handlers | constant tables: `CAPABILITIES` and `HANDLERS`, looked up with `CAPABILITIES_BY_ID[c]` and `Handler(c)`, and `Makes(c, media)`. |
| `MockPlanner` | `MockPlanner` of `agent/llm.py` | `Propose(words, images, videos, audios)`: the plan for a text, by the keywords in it. |
| `PlanSteps` | `validate_plan`, `_build_job_input`, `_resolve`, `_consumed_step_ids`, `create_job`'s check | one plan in one session, validated step by step and then executed on outputs `<<"out", k>>`. |
| `Projects` | `services/projects.py` and the guards in `api/deps.py` | `cat` (Catalogue), `row`, `req[r]` with the answer it was given and its session's copy. One project: rows of different projects do not interact. |
| `Conversation` | `services/agent.py`, `agent/llm.py` | `messages`, `plans`, `post[p]` with the transcript it read, its attempt and its new turn. |
| `Handlers` | `capabilities/handlers`, `tools/`, `providers/` | `program[r]` the calls of a handler, `child[r]`, `thread[r]`, `lock`, `engine`, `image`, the contents of `file[r]` and whether `dir[r]` is there. It shows what may happen in what `Jobs` takes as one step, `ExecHandler`. |
| `Assets` | `services/assets.py`, `services/storage.py` | `rows`, `files`, `make[a]` (upload or output), `use[r]` (request or worker step). |
| `AssetStore` | what `services/assets.py` promises its callers | abstract: `store[a]`, whole assets that appear and change in single steps, and `asked[r]`, a request that looks one up once and is told how it went. `Assets` implements it. |
| `JobsProofs`, `JobEventsProofs`, `PlansProofs` (of `AgentPlans` and `PlanJobs`), `PlanStepsProofs` (also of `Capabilities` and `MockPlanner`), `ProjectsProofs`, `ConversationProofs`, `HandlersProofs`, `AssetsProofs` | | theorems about the module each is named for |
| `MC*` | | values of the constants for TLC |

Every mapped definition carries, in `PROJECT.json`, the lines it stands for.
Definitions named `X_Y` and introduced by "Mutant" are `X` with a plausible bug;
no specification uses them. For each property of each passing run
`PROJECT.json` names one that TLC finds violated in place of the original.

arq, Redis, the Catalogue, the tools, the inference provider and the language
model are not in `src/`. They are modelled from how the code uses them and
listed as external: arq delivers a job until a delivery ends, at most
`MaxTries` times, honours aborts before a start and during a run, and after a
timeout does not retry.

How the modules fit together.

* `Jobs` implements `JobLifecycle` (`LifecycleSpec`), and `JobEvents` watches it:
  the streams read the rows of `Jobs` and change nothing there.
* `PlanJobs` implements `AgentPlans` (`PlansAreExecuted` is the specification of
  `AgentPlans`): a step is created, started, run, looked at, settled and
  recorded, and all that comes to the single action `ExecStep` of `AgentPlans`, or
  to `ExecStepRaises` where `create_job` refuses it or no work directory can be made
  for it (`StepNoWorkDir`). What `AgentPlans`
  promises therefore holds with the jobs too.
* `AgentPlans` takes which steps a step refers to as a constant. `PlanSteps` has
  the plans themselves: which of them validation accepts, and what becomes of
  their references, inputs and results. It EXTENDS `Capabilities`, so that what a
  schema requires and what a handler asks for are compared, and `MockPlanner`,
  whose plans it validates and runs.
* `Jobs` lets a handler take one step and make any number of outputs, storing
  each as file and then row; `Handlers` shows what may happen in that step, and
  `Assets` what happens to one file. `Jobs` takes it that removing the work
  directory succeeds; `Handlers` has the case in which it does not, and
  `LeftoverIsAnUpscale` says it is the only one.
* `Assets` implements `AssetStore` (`StoreSpec`): storing a file, checking its size
  and committing its row come to one `Publish`, a look-up and the write that follows
  it to an edit of the asset as it is at the write, a half made or lost file to
  nothing at all. A rename may write the name back or leave it: an UPDATE has
  only the columns that differ from the copy.
* `Conversation` has the posts that lead to a plan and leaves open what is in it.

## 3. What the runs show

Passing runs:

| Run | Instance | Properties | What it shows |
|---|---|---|---|
| `JobsFaults` | 1 job, 1 cancel, 2 tries, up to 2 outputs, 2 faults of 5 kinds; 86k states | `TypeOK` `OutputsAreStored` `OutputIsOneAttempt` `SettledRowIsComplete` `SignalledCancelIsFinal` `CancelSeenBeforeSuccess` `QueueDrains` | row, outputs and cancellation stay consistent, every delivery ends |
| `JobsRestart` | 2 jobs, 1 slot, 1 stream, 3 tries, 2 shutdowns or crashes, no cancel; 165k | `UnsettledIsLive` `LastWordStands` `LifecycleSpec` `StreamGoesForward` `StreamEnds` | jobs come to rest and implement the abstract lifecycle, and a stream tells it |
| `PlansOverlap` | 2 approvals of a 2-step chain, 2 tries, 2 faults of 5 kinds; 2.3M | `TypeOK` `ResultsAreNotIntermediate` | overlapping executions do not confuse results and intermediates |
| `PlansRestart` | 1 approval, 3 steps with their jobs, the last using both others, 1 cancel of a step's job, 2 tries, 1 shutdown or crash; 75k | `SuccessIsOneExecution` `StepJobsSettle` `ApprovedPlanSettles` `PlansAreExecuted` `CancelledStepYieldsNothing` | a plan delivered again ends, as one execution, and its steps' jobs with it, but for one that got no work directory |
| `Projects` | 2 requests of any of 9 kinds, 2 events in the Catalogue; 516k | `TypeOK` `DescriptionIsKept` `OnlyStaleAnswersSpoil` `DeletionReachesRow` | stale answers do not lose descriptions, and nothing else spoils a right row |
| `StepsResolve` | 1 step with any of the capabilities, parameters given, missing or empty, 2 or 3 narrower ones, and all plans of the mock planner; 473k | `AcceptedPlansRun` `MockPlansWork` `InputsAreKnown` `ResultsAreUnused` | what validation promises holds when the steps run |
| `Chat` | 3 posts, 2 repairs, 2 events; 205k | `TypeOK` `PlannerSawHistory` `PostIsAllOrNothing` `PostEnds` | overlapping posts leave a transcript the planner has seen, and plans that answer |
| `Handlers` | 2 runs of any of 6 shapes, pool of 2, 1 crash; 532k | `TypeOK` `StoredIsWholeAndOwn` `NoOrphanProcess` `LeftoverIsAnUpscale` `RunEnds` | interrupted handlers leave nothing and spoil nothing |
| `Assets` | 1 asset, 3 requests, 2 faults; 292k | `RowsHaveTheirFile` `OrphansOnlyByFault` `EditsAreKept` `StoreSpec` | rows have their files, edits survive each other, and both amount to an abstract store |

Why the bounds are enough. Two jobs meet only at the worker's slots, so one job
is enough for what its own row promises, and two with one slot for what they do
to each other. A job is touched by one cancel and one attempt at a time; two
faults give a redelivery that is cut short as well, and two outputs a crash
between them. `JobsRestart` sets `MaxOutputs` to 0: outputs are the matter of
`JobsFaults`, and a job without any passes through the same places. Two
approvals are what it takes for executions to overlap. `PlansRestart` has one
restart and two tries: a second restart repeats what the first one did to the row, and
costs more than two million states. Two requests make every race of a
project's row (one looks while the other commits), three a transcript in which a
late post overwrites two turns, or an asset that is renamed, flagged and deleted
at once. Two runs contend for the upsampler; a third would only queue. The steps
of a plan interact through ids and references only, and three allow a chain, a
fan and a clash of ids; a capability meets only its own schema, handler and
inputs, so all of them are tried in plans of one step. The sessions of
`StepsResolve` have assets of each media type in scope, one type missing, and
none. `PlansOverlap` uses symmetry in the approvals and checks no liveness.

Fairness. `FairSpec` (`EventsSpec`, `StepsSpec`) says that the API finishes a
request it has begun, that the worker polls its queue and its abort set and its
event loop goes on, that timers fire and killed processes die, and that a stream
goes on polling. Each is weak fairness of one process's next action, which that
process takes whatever the others do; no strong fairness is used. Users need not
send anything, clients may leave a stream, faults need not happen, a tool, a
thread or a provider may hang for ever: in `Handlers` it is the runner's timeout
and arq's that end the execution, in `Jobs` the handler is one fair step because
`Handlers` shows it ends.

What liveness depends on. `LifecycleSpec` has the liveness of the abstract
lifecycle in it (a job comes to rest), `UnsettledIsLive` is the safety that
carries it, `StreamEnds` follows for whoever watches, and `ApprovedPlanSettles`
is the counterpart for plans. They hold where deliveries only come again, and
only while arq has tries left: the runs have fewer stops than tries (arq's default
is five tries). A job whose tries are used up by restarts keeps the status
`running`. They do not hold under a timeout or a database error either, see below.

Runs that find a violation, each a disagreement of the code with what the
repository says of it:

| Run | Property | What happens |
|---|---|---|
| `JobsTimeout` | `RunningSettles` | The README says the worker drives `queued → running → succeeded/failed`. At `job_timeout` arq cancels the task; `CancelledError` passes both `except` clauses of `execute_job`, arq does not retry, and the row says `running` for ever. |
| `JobsCancelled` | `CancelledStays` | `cancel_job` calls its commit "the immediately-consistent state the API/GUI see regardless". A cancel between the worker's load and its start is overwritten: `execute_job` sets `running` without looking. If the abort then interrupts the started job, nothing writes the row again and it says `running` for ever. |
| `PlansApproveTwice` | `OnlyApprovableApproved` | `approve_plan` refuses plans that are neither proposed nor failed, by the status it read. Two requests that both read `proposed` both approve and both enqueue; the steps run twice. |

Seen while modelling, with no run of their own:

* `upsert_companion` says "(idempotent)", but two first accesses to a project both
  insert, and the later one ends in an integrity error (`InsertClash` in
  `Projects`).
* A refresh writes the name it was told, so an access that began before a rename
  puts the old name back, and one that began before a deletion shows the project
  again. `OnlyStaleAnswersSpoil` says that nothing else does, and
  `DeletionReachesRow` that the next access repairs it.
* `models/agent.py` calls the transcript "full". A post writes the whole column
  from what it read before planning, so overlapping posts drop each other's turns;
  what does hold is `PlannerSawHistory`. A plan whose turn was dropped stays
  stored (`PostIsAllOrNothing`).
* The docstring of `planner.py` says that it checks that a plan "is executable".
  A plan may be accepted and stop later: where a step has no primary asset or too
  few input files for its handler, where the asset an earlier step made has a
  medium its user does not take, or where a parameter names an asset that does not
  exist. `AcceptedPlansRun` says that no plan stops for another reason of its own
  making. Of the parameters a handler asks for, a plan can miss only
  `subtitle_asset_id` or `music_asset_id`, given as an empty string: the schemas say
  `format: uuid`, which the validation does not enforce, `_build_job_context` skips
  the empty string and the handler then finds no file. It was the proof that asked
  for this case: an instance without empty strings does not show it.
* Every parameter that is a string beginning with `@` is taken for a reference to a
  step, a title card's text too: the mock planner's plan for such a title is
  rejected with an error nobody repairs (`MockPlansWork` has the exception).
* A reference inside the list `params.asset_ids` is resolved by the executor, but
  neither validated nor counted as a use, so an output that only such a list
  mentions is a result and no intermediate. `InputsAreKnown` and
  `ResultsAreUnused` are stated for plans without it (`Plainly`), and `PlansRestart`
  has a plan with it. Step ids are not checked to be unique, which
  `ResultsAreUnused` assumes.
* The cancel route says that it interrupts a running job. The job of a plan's step
  has no delivery to abort, so its handler runs to its end, and only the last look
  notices (`CancelledStepYieldsNothing`).
* A plan delivered again makes new jobs for its steps; the job that the crash cut
  short stays `running`. `StepJobsSettle` is about the try under way.
* A row or plan whose `enqueue` fails after the commit stays `queued` or `approved`,
  and nothing enqueues it again (`EnqueueLost`).
* A plan at `job_timeout` stays `running`, as a job does.
* `mkdtemp` stands after the committed start of a job and before the `try`: when it
  fails, the job stays `running`. A job of its own ends its delivery so (in `Jobs`
  this is `DatabaseError`); in a plan `execute_plan` catches what was raised and the
  plan ends `failed`, while its step's job stays `running` (`StepNoWorkDir`).
  `StepJobsSettle` has this as its one exception.
* A job that succeeds after a failed try keeps that try's error text.
* A cancelled upscale runs on in its thread, keeps the lock, and may leave a work
  directory behind.

## 4. What is proved

Every theorem holds for all values of the constants that the named assumptions of
its module allow: any number of jobs, requests, plans, approvals, steps, posts,
executions and assets, any limits, and any choice of fault kinds, except where
"if" says otherwise.

| Module | Theorem | Statement | Invariant it rests on |
|---|---|---|---|
| `JobsProofs` | `TypeCorrect` | `[]TypeOK` | itself |
| | `OutputsStored` | `[]OutputsAreStored` | `StorageInv` |
| | `OutputsOfOneAttempt` | `[]OutputIsOneAttempt` | `OutputInv` |
| | `SettledRowsComplete` | `[]SettledRowIsComplete` | `RowInv` |
| | `SignalledCancelsAreFinal` | `SignalledCancelIsFinal` | `DeliveryInv` |
| | `CancelsSeenBeforeSuccess` | `CancelSeenBeforeSuccess` | `CancelRemembered` |
| | `UnsettledRowsLive` | `[]UnsettledIsLive`, if there are no cancels, only shutdowns and crashes, and `MaxFaults < MaxTries` | `LiveInv` |
| | `ImplementsLifecycle` | `Spec => Lifecycle!Safety`, if there are no cancels | `LifecycleInv`, `OnceInv`, `DeliveryInv` |
| `JobEventsProofs` | `StreamsGoForward` | `StreamGoesForward` | `EventsInv` |
| | `LastWordsStand` | `[]LastWordStands`, if there are no cancels | `LastInv` |
| `PlansProofs` | `TypeCorrect` | `[]TypeOK` | `TypeInv` |
| | `NoResultIntermediate` | `[]ResultsAreNotIntermediate` | `AllFresh`, `Sorted` |
| | `SuccessOfOneApproval` | `[]SuccessIsOneExecution`, if no two requests approve the same plan (`Sole`) | `AllFresh`, `OneInv` |
| | `JobsImplementPlans` | `StepsSpec => PlansAreExecuted` | `JobsInv` |
| | `SuccessWithJobs` | `[]SuccessIsOneExecution` with jobs, if `Sole` | the two theorems above |
| | `CancelledYieldsNothing` | `CancelledStepYieldsNothing` | `JobsInv` |
| | `StepJobsSettled` | `[]StepJobsSettle` (an execution that ends leaves no job of its own try unsettled but that of the step it stopped at for want of a work directory), if there are no timeouts and database errors | `JobsInv` |
| `PlanStepsProofs` | `TypeCorrect` | `[]StepsType` | `StepsInv` |
| | `Accepted`, `MockPlans` | `[]AcceptedPlansRun`, `[]MockPlansWork` | `StepsInv` and the tables |
| | `JobInputsKnown`, `ResultsUnused` | `[]InputsAreKnown`, `[]ResultsAreUnused` | `StepsInv` |
| `AssetsProofs` | `AssetTypes`, `RowsWithFiles`, `OrphansByFault`, `EditsKept` | `[]TypeOK`, `[]RowsHaveTheirFile`, `[]OrphansOnlyByFault`, `EditsAreKept` | `AssetInv` |
| | `ImplementsStore` | `Spec => StoreSpec` | `AssetInv` |
| `ConversationProofs` | `ConversationTypes`, `PlannerSawIt`, `AllOrNothing` | `[]TypeOK`, `[]PlannerSawHistory`, `[]PostIsAllOrNothing` | `TalkInv` |
| `ProjectsProofs` | `ProjectTypes`, `StaleAnswersOnly` | `[]TypeOK`, `OnlyStaleAnswersSpoil` | `ProjectInv` |
| | `DescriptionsKept` | `[]DescriptionIsKept` | `KeptInv` |
| `HandlersProofs` | `HandlerTypes` | `[]TypeOK` | `TypeOK`, `Waits` |
| | `StoredWholeAndOwn`, `NoOrphans`, `LeftoversAreUpscales` | `[]StoredIsWholeAndOwn`, `[]NoOrphanProcess`, `[]LeftoverIsAnUpscale` | `HandlerInv` |

Hardly any of the properties is inductive by itself. What the invariants add:

* `StorageInv`: a row lists only what has a row of its own *because* what the
  attempt has made so far is registered, and a row is registered only for the file
  just stored. Both are facts about the attempt, not about the tables.
* `OutputInv`: assets carry the number of the attempt that made them. None is newer
  than the last delivery, and while an attempt is storing it has made all of the
  current number: so what it then lists is one attempt, complete.
* `RowInv`: an UPDATE may leave a column alone because the session believes it is
  set already. An error that a copy has seen is in the row and is never reset; that
  is why leaving it alone cannot leave a failure without a reason.
* `DeliveryInv`: an attempt implies a delivery, and a job is not queued again while
  it has one. So a cancelled job that is idle with its abort recorded can only be
  met by `ArqAbortBeforeStart`.
* `CancelRemembered`: until a later attempt begins, the row does not say succeeded
  and the attempt is not about to write success; as long as it has yet to look,
  the row is cancelled.
* `LifecycleInv`, `OnceInv`: the row follows the attempt. `OnceInv` is what makes
  repetition impossible without shutdowns and crashes: an idle delivery has not
  been tried.
* `LiveInv`: an idle delivery has had no more tries than there were faults, so with
  fewer faults than tries arq never gives one up; and an attempt that is about to
  end its delivery has settled its row.
* `EventsInv`: a stream was told in no later delivery than the row shows, and if in
  that one, the row has only gone forward since. `LastInv` adds that a closed
  stream told a terminal status, and that without cancels a terminal row is
  written again only by the next delivery.
* `AllFresh`, `Sorted`: an execution's outputs bear its own try and steps, so no
  other execution can flag them, and it sorts them into results and
  intermediates at once. `OneInv` (`Requested`, `Seen`, `Recorded`): with one approval
  executions follow one another, so the row is what the one under way believes,
  which is why the columns it leaves unwritten are right.
* `JobsInv`: a job ahead of its execution has no row (`Ahead`), the row of the
  current one is what the session believes or was cancelled (`Staged`), and a cancel
  request has found an existing job (`Found`). From it each step of `PlanJobs` is
  shown to be a step of `AgentPlans` or a stutter, and `StepJobsSettle` is kept by
  every step: a job enters a state in which it could be left behind only as the
  current one, and an execution stops being at it by recording its end, by being
  interrupted, or by `StepNoWorkDir`, which puts it into `dirless`.
* `StepsInv`: only an accepted plan runs (`Judged`), a plan that has stopped stands at
  the step that stopped it and for that reason (`Stopped`), each run was given what
  its step names with outputs of earlier runs for its references, all of them
  (`Fed`), and the results are sorted by who is referred to (`Sorted`).
  `ResultsAreUnused` speaks of what jobs *were given*, the code of what steps
  *refer to*; `Fed` is what makes the one the other. `OutputOf` chooses the last run
  of an id, so that there is a last one is a lemma (`LargestOf`).
* The tables: `HandlersAskForRequired` compares every handler with every schema, and
  `MockCapabilities` looks up the six capabilities the mock planner uses. From these,
  `MockStepsWork` shows that each step of each of its plans is valid in every scope.
* `AssetInv` (`Stored`, `Seen`): how far an asset has been made fixes what there is
  of row and file, and nothing changes a file once its row is there. A copy has the
  row's checksum, and its flag only if the row has it, since nothing takes a flag
  back: an UPDATE that leaves the flag out because the copy has it loses nothing.
  From this `ImplementsStore` takes each step of `Assets` to one of `AssetStore` or
  to a stutter.
* `TalkInv` (`Told`, `Talk`): not only the stored transcript but every copy a post
  holds is made of turns; a late write puts down a copy, so that is what makes an
  overwritten transcript one the planner has seen.
* `ProjectInv`: only an access that was told a name goes on to the row. `KeptInv`
  (`Keeps`) says that the copy of the only request that describes the project has
  the row's description at the moment it decides which columns to write.
* `HandlerInv`: per execution, where its child process can run (`ChildInv`), where
  its thread can (`ThreadInv`), what a thread owns (`LockInv`: holding the lock
  makes the upsampler's picture its own), what is in the file (`FileInv`) and in an
  emptied directory (`DirInv`). An execution that does not move stays as it is
  because its lock is not free, so the one that moves cannot take it
  (`OneMoves`).

The preservation lemmas have one step per action, and frame lemmas (`StorageFrame`,
`RowFrame`, `OutputFrame`, `OthersAside`, `OutsideJobs`, `StillFine`) cover what an
action leaves alone. TLC checks the same properties on the instances above.

Only model-checked: all liveness (`QueueDrains`, `StreamEnds`,
`ApprovedPlanSettles`, `DeletionReachesRow`, `PostEnds`, `RunEnds`) and the liveness
half of `LifecycleSpec`, because fairness and ENABLED are beyond the prover. Every
invariant and every action property of a passing run is a theorem. `StepsInv` was
checked by TLC on the instance of `StepsResolve` before it was proved, as the other
invariants were on theirs.

## 5. Not modelled

Token validation (a library over data), request and response schemas,
configuration, logging, migrations, deployment and the front end: no state that
several steps share. List and read endpoints change nothing. Left out as data:
names, media types beyond image, video and audio, checksums beyond "that of the
whole file", command lines, JSON schemas beyond the parameters they require,
titles and descriptions of capabilities, error texts, the language model's
content. A stop of the worker interrupts the executions in `AgentPlans` one by one,
more behaviours than one worker has. In `PlanJobs` the outputs of a step's job are
reduced to whether there are any, since `Jobs` has how they are stored.

## 6. Plan

Done, in this order: `Jobs`, `JobLifecycle`, `AgentPlans`, `Projects`, `PlanSteps`,
`Conversation`, `Handlers`, `Assets` with their runs and `JobsProofs`; then
`JobEvents`, `PlanJobs`, `Capabilities`, `MockPlanner`; then the proofs about all
modules with state; then `AssetStore`.

Left:

1. The composition of `Handlers` with the attempt of `Jobs`, so that the work
   directory and the handler's step are one model.
2. `SuccessOfOneApproval` for overlapping approvals: what weaker statement about a
   plan approved twice does hold.

## 7. Running

    tlc -workers 2 -config JobsFaults.cfg MCJobs     # the module of each run is in PROJECT.json
    tlapm JobsProofs.tla                             # and likewise each module *Proofs.tla
