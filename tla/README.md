# A TLA+ model of the assistant

`backend/app` is a personal assistant: a chat message becomes a *request*, a
request that needs work becomes a *job*, a job gets a *plan* of phases and
tasks, and a feature job additionally gets code generated for it. A language
model (the "advisor") drafts, reviews and answers; everything that changes
state is ordinary Python over one SQLite database that several processes open
at once. What is modelled here is that ordinary Python: the model's answers are
nondeterministic, the code's reactions to them are not.

## The system

| component | state it keeps | operations | talks to |
|---|---|---|---|
| Gateway (`gateway/`, `cli/telegram.py`, `channels/`) | identities, pairing codes, pairing requests, the poll offset, the refusal limiter | handle_inbound, pair, approve, revoke | request routing, job queue |
| Request routing (`roles/pm.py`, `analyzer.py`, `boss.py`, `control.py`, `repos/requests.py`) | `requests` (state, status), `jobs`, request details | route_new / route_inbound, analyze, run_ask | junior worker, plan drafting |
| Job queue and worker (`repos/job_queue.py`, `cli/jobworker.py`) | `job_queue` rows (status, attempts) | enqueue, claim_next, mark_done, mark_failed, requeue_pending, serve_jobs | plan execution, channel |
| Plan execution (`roles/execution.py`, `senior.py`, `plan_expert.py`, `company_expert.py`, `lifecycle.py`, `repos/plans.py`) | `plans`, `phases`, `plan_tasks` | draft, review_plan, approve_plan, run_phase, resolve_phase, review_phase, sign-off | advisor, skills, coder queue |
| Job scheduler and control (`roles/scheduler.py`, `jobcontrol.py`) | asyncio tasks, semaphore, pause events, `jobs.paused` | submit, pause, resume, dispose, join | plan tree |
| Coder lane (`repos/coder_queue.py`, `cli/coderworker.py`, `coder/`, `skills/codegen.py`, `cli/confirm.py`) | `coder_queue`, bundle files and manifests, the skill registry of each process | claim, generate - validate - repair, write inert, confirm, activate, load at start | advisor, file system, channel |
| Skills (`skills/`) | registry, `steps` audit, search cache, `api_usage` | execute (permission, parameters, confirmation, run, record) | memory, web |
| Memory (`memory/`, `repos/memories.py`) | memories (state, class, weight, expiry, use count), FTS and vectors | write, reinforce, the four phases of the sweep | schedules, skills |
| Library (`memory/archive.py`, `library.py`, `reports.py`, `roles/librarian.py`, `repos/library.py`) | request folders, their archives, two index files, `final_reports`, `library_index` | commit a report, compact, revive, drop, read | schedules |
| Schedules (`cli/schedworker.py`, `scheduling.py`, `repos/schedules.py`) | `schedules` (next_run_at, enabled) | ensure defaults, run due, mark_run | librarian |
| Advisor and login (`advisor/`, `cli/login.py`) | `ai_calls` audit, the cached login and its exchanged token | call with schema validation and one repair, get_bearer, login, logout | providers |
| Junior worker (`roles/junior.py`) and its tools (`skills/web.py`, `browser.py`) | the search cache of a process, `api_usage` | answer_ask, research, web_search | advisor, skills |
| Setup wizard (`setup/`, `cli/setup.py`) and its dry run (`cli/verify.py`) | `.env`, the provider blocks of `config/models.yaml` | detect, ask, write, verify | login, pairing |
| Improvement loop (`roles/improvement.py`) | request chain, final reports | finish_job, follow-up request | library |
| Web dashboard (`web/`, `cli/web.py`) | none of its own | read-only views, revoke; may run the bot and the workers as threads | all tables |

Everything interacts through the database: one process (or thread) per lane,
each commit visible to the others at once. There are no locks beyond SQLite's
own transactions; atomicity is whatever one `with conn:` block covers, and the
guarded `UPDATE ... WHERE status = 'pending'` of the queues, and those that stamp a
pairing code or request, are the only compare-and-sets. `PROJECT.json` lists the places where this bites ("hazards"),
each with the properties that watch it.


What makes each component correct, in a sentence each:

* **Queue.** A job is run by one worker at a time and at most
  `max_job_retries + 1` times, and whatever raises it ends up done or failed and
  its chat hears of it.
* **Plan execution.** The tree of statuses never contradicts itself at any
  commit, phases follow one another, the decline and replan loops end, and
  "completed" is said only of signed-off work.
* **Skills.** An action the model proposes is run at most once in a run of its task and
  is on record; what the model is told of it is true; every task ends.
* **Scheduler.** Slots are neither lost nor taken twice, jobs start in order,
  a disposed job is abandoned bottom up, and every runner ends.
* **Coder lane.** A request is built once, unchecked drafts never reach the
  folder, unreviewed code never runs, and a finished request can be activated.
* **Gateway.** A code, of the host or of an approved request, pairs the account it
  is for, once; the owner's login, once established, stays.
* **Routing.** Each message belongs to one request, a reply goes to the request
  that asked, a request gets one job, planned work is queued for a message that
  is on record, and no update is lost.
* **Memory, schedules.** No use of a memory goes uncounted, what was dropped stays
  dropped, collapsing duplicates loses no content, what has lapsed leaves recall
  in the end, and a schedule that is due is run, whatever its handler does.
* **Library.** No file of a job is lost by compaction or revival, and what an index
  lists can be read.
* **Advisor and login.** Every call is audited once, with the status it deserves,
  and repaired at most once; the cached token belongs to the cached login.
* **Junior worker.** Every ask ends, and what is counted of the metered search passes
  its daily budget only by what was under way. What the service takes and nobody
  counts has no bound.
* **Setup.** No key is lost, but to a kill right at the truncation of `.env`, and "ok" and "passed" are said only of a configuration
  whose files agree.

## The modules

    JobLifecycle   what the queue promises of one job (abstract)
      ^   ^
      |   +-- PlanJob    one job through execute_planned_job   --> PlanContract
      |          uses Lifecycle (roles/lifecycle.py)               (abstract)
      +------ JobQueue   the rows and the workers that race for them
    PhaseWork            the tasks of a phase, the skills they run, their record
    Intake               poll, routing, analysis; its EnqueueJob is JobQueue's
    CoderLane            the coder queue, bundle folders, activation
    JobRunner            asyncio scheduler, pause/resume/dispose
    Pairing              who may talk to the bot
    Upkeep               memories, the daily sweep, the scheduler worker
    Library              request folders, archives, indexes
    Advice  <-- AskTurn  a model call over the login cache; the ask that makes it
    Setup                the wizard over .env and models.yaml

`JobQueue` and `PlanJob` are two views of the same work: the first has many jobs
and workers and an opaque execution, the second one job and everything its
execution commits. `PhaseWork` opens up what `PlanJob` does between `BeginTask` and
`FinishTask`. The first two implement `JobLifecycle`, under mappings (`Stage`) that
read the same columns; this is what lets `PlanJob` assume that one worker holds
its job. `CoderLane` begins where `PlanJob` ends, at the `coder_queue` row of a
feature job (`EnqueueCoder` there, `Enqueue` here). `JobRunner` drives plans of
the same shape in-process; no entry point uses it yet. `AskTurn` EXTENDS `Advice`
and is composed with it: a turn starts calls and waits for their outcome, while
logins, kills and the other process move on. `Upkeep` runs the compaction of
`Library` as a step that returns or raises; a `Worker` there is a `Librarian` here.

A step is what one process does between two points at which another process
can see a difference: one SQL statement or transaction, one file write (a
truncation and a content where the code writes a file in place), or, in
`JobRunner`, what a coroutine does between two awaits. Answers of the language
model, of skills, of people and of channels, and exceptions, are existential
choices. A process that is killed keeps what it committed and forgets the rest.

**JobQueue.** `status` and `attempts` are columns of `job_queue`; `pc`, `held`
and `seen` are where a worker is, the id it holds and the `QueuedJob.attempts`
it read; `told` counts sends. `claim_next` is two actions, because another
worker may commit between its SELECT (`SelectPending`, `SelectNone`) and its
guarded UPDATE (`ClaimWon`, `ClaimLost`). `_process_one` is `ExecuteRaise`,
`ExecuteReturn` (mark_done), `DeliverOk`, `DeliverRaise`: the last is handled by
the same except clause as an execution that raises. `Kill` and `Start` are the
process; nothing in the repository repairs a `running` row.

**PlanJob.** `row` and `attempts` are the queue's, `plan`, `phase`, `task` and
`declines` the plan tables of the latest draft, `past` the last status of the
earlier ones, `awaiting` is `requests.status`. One action per commit of
`execute_planned_job` and the roles it calls, in their order; every transition
goes through `Try`, which is `validate_transition` on the table of `Lifecycle`,
so an illegal one raises as it does in the code. `ExecuteRaise` may replace any
step, `Kill` may follow any.

**CoderLane.** For one request, as all feature jobs of a request share one
folder (`job_code` is the request's code): `status`, `attempts`, `modules` are
columns of `coder_queue`, `disk` and `manifest` the folder, `copy` a manifest a
process has in memory, `draft` and `tries` the loop of `run_coder`, `loaded` what
each process has imported, `reviewed` what the owner looked at. A manifest write
is a truncation and a content, as `Path.write_text` is. Readers are processes
that import `app.skills` (`load_active`) and the owner's shell, which runs
`confirm.py`.

**PhaseWork.** `status` and `needed` are `plan_tasks` of one phase, `work` the locals of
`run_task` (`told` is `seen_actions` together with `progress`, action by action), `log`
the table `steps`, `deeds` a history of what skills have done. The order of the tasks is
computed as `_topological_order` does. `Reject`, `Defer` and `Admit` are the gates of
`execute` in their order, `Invoke` the skill and `Record` its row, two commits with a
failure or a kill between them; `InvokeHalf` is a skill that raises after its first
commit, as `memory.write` can between its row and its tags. `Raise` is what `run_task`
lets through: the run of the job ends. The other phases, and what surrounds them, are
`PlanJob`'s.

**JobRunner.** `free` and `line` are `asyncio.Semaphore` (external: modelled from
its use), `tasks`, `queued`, `running` the scheduler's lists, `signal` and
`paused` the two halves of a `JobControl`, `rows` the plan bottom up. While
`abandon_tree` runs (`handling`) the event loop runs nothing else, but a kill may
come between two of its commits.

**Intake.** `sent`, `acked` belong to the Telegram server (external: an update is
kept until a later poll confirms it), `offset` and `batch` are locals of `serve`
and gone when it ends, `requests` and `jobs` the tables, with `details` the
`request_details` of a request and `queued` whether a `job_queue` row exists.
`turn` holds the locals of `run_ask`: the request chosen, whether the message is
an append, whether that is a guess (`provisional`), the verdict, the job. The
actions follow `route_inbound`, `analyze` and `run_ask` from commit to commit. A
wrong guess goes through `Mint` and `Analyze` again. `runs` is a history
variable: a message delivered again is handled again. The sender is paired; `/pair`
and whatever `parse_inbound` drops are updates that are no `text`.

**Pairing.** `codes`, `requests`, `identities`, `owners` are the tables, `hits` the
limiter of a bot, `work` what a SELECT has answered to a process that has not
written yet; `tickets` and `grants` are histories. `PairCommand` and `Stamp` are the
two statements of `consume_code`, `CheckInbound`, `AskForCode` and `Ticket` a refused
message, `Approve` and `MarkApproved` the console, `Challenge` and `Verify` a device
flow, `EnsureOwner` and `InsertOwner` the owner row, `Bind` the end of each. The
operator may go through every account with every code, as in `cli/pair.py`.

**Upkeep.** `mem` is the table `memories`, with a date kept as what the code asks of
it (has the expiry passed, has the weight faded, is it due). `Fetch` and `Reinforce`
are the two statements of a read that reinforces; `Sweep` does one row of the phase
its worker is in, or lists the rows of the next; `Run`, `Fail`, `Mark` and `WorkerDies` are
`run_due_schedules` and what may end it.

**Library.** `folder` and `zip` are the disk, `cards` and `mirror` the tables,
`index` and `dropped` the two JSON files (atomic: `os.replace`), `made` a history of
what jobs left. The stations follow `commit_final_report`, `compact_cold_library`
over `compact_folder`, `revive_library_folder`, `move_to_dropped` and
`read_library_report`; an archive that is open is `Torn`, one that two have open may
stay so. Of these only the compaction has a caller beside the tests yet.

**Advice.** `file` is `data/.auth/github.json`, `pen` what a process is writing to it
(`_write_cache` truncates, then writes), `call` one `Advisor._run`: headers, exchange,
post, settle (validate, repair, fallback), record. Tokens are the accounts they stand
for. **AskTurn.** `turn` is `answer_ask`, `cached` the search cache of a process,
`used` the row of `api_usage`, `paid` the credits the service took, `lost` those of them
that no count follows: the request timed out or its connection broke once the service had
served it (`SearchFails`), the reply could not be read or the count not written
(`Garbled`), or the process was killed (`Die`). Each of the three may also cost nothing
or be counted, where the code allows it.

**Setup.** `env` and `route` are `.env` and the provider blocks of `fast` and
`quality`; `wizard` is the run, with its `EnvFile` and its environment. `OtherKeys`
stands for the blocks the wizard leaves alone (`coder`, `embedder`), as the repository
ships them. `Rewrite` and `RewriteText`, `Save` and `Put` are truncation and content.

**JobLifecycle, PlanContract, Lifecycle.** The first two are what a queued job
and a plan promise, with no workers, drafts or retries in sight; the third is
the transition table of `roles/lifecycle.py`.

## The runs

Every property of a passing run is also checked to be sensitive: for each,
`PROJECT.json` names a variant of a definition (written next to it, with a comment
saying what is wrong) under which TLC finds it violated.

| run | instance | shows |
|---|---|---|
| queue | 2 workers, one `--once`; 3 jobs, one without a chat; 1 retry | one runner per job; implements `JobLifecycle`; without kills every job settles and is reported |
| plan | 1 retry, 1 replan, 1 decline; drafts `<<2>>`, `<<1,1>>`, `<<1,0>>`; task and feature | consistent tree, honest completion; implements `PlanContract` (phases in order, signed off) and `JobLifecycle`; without kills the run ends |
| coder | 1 job, 2 workers, 2 files, 2 iterations, a server, the owner | built and told at most once; a finished request is complete and listed; only reviewed code runs; every request settles |
| work | 2 tasks with any dependency, 6 actions of every kind, 2 steps, 1 retry, 1 failure or kill | the model is told the truth, the log misses nothing but by a fault, nothing twice; every run of a phase ends |
| runner | 2 jobs, 1 slot, 1 phase | slots, lists, abandonment; every runner ends |
| intake | 2 updates; a bot started twice, or once with a session in a shell | no update lost, one home for a message per turn, only planned work of a recorded message is queued; a bot that runs on handles every update |
| pairing | 2 accounts, 2 logins, the console; one bot killed or replaced while time passes, or two bots at once | a host code binds one account once, an approval the account it was made for, once; the owner's login stays |
| upkeep | 2 memories, 2 readers, a worker, 1 failure or kill | use counts exact, duplicates lose no text; what has lapsed leaves recall, a due schedule is run |
| ask | 2 processes, 2 accounts, 2 queries, a budget of 1; three scenes | the cached token is the cached login's, the audit truthful, the counted budget kept but for what is under way; every turn ends |
| setup | every combination of keys, route and login; 2 runs, 2 kills or logouts; 2 custom keys | no key lost but as said above, "ok" and "passed" are true |
| library | 2 processes, one of them a librarian, 2 requests, 2 files, 4 operations, 1 kill | no file lost, what is listed can be read |
| library_race | the same with two librarians, 1 request, no kill | the violation below |

Bounds. Two workers, readers or bots are enough for every race in the code, since
each is between one process's read and another's write; three jobs leave one
pending while two are held. One retry, replan and decline take each loop through
its first, its last permitted and its refused round, which is where an off-by-one
shows. Two phases make "the next phase" mean something, two tasks make "the first
that is not done", and an empty phase is a draft the schema lets through.
`MaxIters = 2` has a repair and a last iteration. Two updates are one that is through
and one that is not when the bot dies (one batch or two), and the second can
address, answer or continue the request of the first. Two memories are a keeper and
its duplicate; `PromoteUses = 1` lets one read promote. A budget of one credit is
met and missed by two processes; two queries are one in the cache and one not. Two
runs of the wizard are one that is interrupted or killed and one that finds what it
left. Four operations let a folder be committed, compacted and read or revived while
another is dropped or grows. Two steps of a task are one after which the model can
repeat itself and one after which it may not go on; the six actions are one that reads,
one that writes, one denied, one external, one malformed and one unknown. Guards that cut off what could go on for ever are
commented as bounds at the CONSTANTS (`MaxUpdates`, `MaxStarts`, `MaxReads`,
`MaxOps`, `MaxRuns`, `MaxTurns`, ...). `MCIntake`, `MCPairing`, `MCUpkeep` and `MCAskTurn`
narrow the initial states, or keep apart scenes that together are beyond TLC, and say
which; in the first scene of `MCAskTurn`, of a process that asks while the login comes and
goes, an account that is logged in at the start is `a1`, as the two are alike. In `Pairing`
accounts are symmetric, and so are logins without a pin (no liveness is checked there).
The other counters (attempts, declines, replans,
iterations, steps of research, replies of a call) are bounded by the code itself.

`CHECK_DEADLOCK FALSE` appears where the system may come to rest: a job that is done
(`PlanJob`) or whose worker died (`PhaseWork`), a bot that is off (`Intake`), and whenever the bounded operations of
`Pairing`, `Upkeep`, `AskTurn`, `Setup` and `Library` are used up.

Each module also states its type invariant. It is part of the inductive invariant of
its proof, except that `Upkeep`'s proofs need the types of the memories and readers only. Some
further invariants are stated and hold under the same configurations (add a line
`INVARIANT ...`): `RetryBudget`, `ClaimIsCurrent`, `CheckedOnly`, `TombstonesStay` (a `PROPERTY`),
`OneRowPerWorker`, `DependenciesFirst`, `OneAfterTheOther`, `Bounded`,
`LegalWhenPhasesHaveTasks`, `FirstComeFirstServed`, `RefusalsBounded`.

Fairness. Weak fairness on a worker's own next step: `serve_jobs`,
`serve_coder_jobs` and `serve_schedules` wait for nothing but the model, the channel
and a sleep. The polls, sends and searches have timeouts; a model call has none
unless `models.yaml` sets one (`config/settings.py:65`), so liveness assumes of the
model, as the code does, that a call returns or raises. In `CoderLane` strong
fairness on `Start`: in deployment a supervisor restarts the process, and a start
fails while a manifest is torn; and the owner's `confirm.py`, once it truncated the
manifest, writes it. In `JobRunner` weak fairness on each task, as the event loop
runs every ready task. In `Intake` weak fairness on the running bot; none on the
session, the user or the operator. In `Upkeep` also on the passing of days. Nothing
is assumed of kills, of the owner or of answers; liveness is therefore conditional
where the code needs it: `EveryJobSettles`, `EveryRunEnds`, `EveryPhaseEnds` and `EveryRequestSettles`
say what follows when no worker is killed at the wrong moment, `EveryRunnerEnds` when
paused jobs are eventually resumed, `EveryUpdateIsHandled` of a bot that is some time
not stopped any more. `Upkeep` has finitely many failures and kills, so that some
sweep gets through.

## What is proved

TLAPS checks, for every value of the constants that the named assumptions allow:

* `JobQueue_proofs!TypeCorrect`: `TypeOK`, and that a worker past its SELECT holds
  a job (the None of `claim_next` is never used as an id). From `QueueAssumption`.
* `JobQueue_proofs!HandOver`: `OneRunnerPerJob`, `ClaimIsCurrent` and `RetryBudget`.
* `JobQueue_proofs!Implements`: `Spec => ImplementsLifecycle`.
* `JobQueue_proofs!NoMessageIsLost`, `EveryMessageHasItsHome` and
  `OnlyPlannedWorkIsQueued`, of the intake that fills the queue: `AckedIsHandled`,
  `OneHomePerTurn` and `QueuedIsSound`; `IntakeTypeCorrect`: `IntakeTypeOK`. From
  `IntakeAssumption`.
* `PlanJob_proofs`, from `PlanJobAssumption`: `TypeCorrect` (`TypeOK`), `TreesAgree`
  (`TreeConsistent`), `InTurn` (`OneAfterTheOther`), `CompletionIsHonest`
  (`HonestCompletion`), `KeepsTheContract` (the refinement of `PlanContract`),
  `LivesAsTheQueueSays` (that of `JobLifecycle`, as `Implements`), `RunsAreLegal`
  (`LegalWhenPhasesHaveTasks`) and `CapsHold` (`Bounded`).
* `CoderLane_proofs`, from `CoderAssumption`: `OneBuild` (`BuiltOnce`),
  `OnlyCheckedCode` (`CheckedOnly`), `DoneCanBeActivated` (`DoneIsListed`) and
  `ConfirmedCodeOnly` (`OnlyReviewedCodeRuns`).
* `JobRunner_proofs`, from `RunnerAssumption`: `TypeCorrect`, `SlotsAreAccounted`
  (`SlotsAccounted`), `ListsAreTruthful` (`ListsTruthful`), `ServedInOrder`
  (`FirstComeFirstServed`) and `PlansAreAbandonedBottomUp` (`AbandonedBottomUp`).
* `Pairing_proofs`, from `PairingAssumption`: `TypeCorrect`, `HostCodeBindsOnce`
  (`CodePairsOnce`), `ApprovedSenderOnly` (`ApprovalBindsItsSender`) and `OwnerIsKept`
  (`OwnerStays`).
* `AskTurn_proofs`, from `AdviceAssumption` and `AskAssumption`: `TypeCorrect`
  (`AskTypeOK`), `OneAccountAtATime` (`NoMixedAccounts`), `EveryCallIsAudited`
  (`AuditTruthful`) and `CountedBudgetIsKept` (`BudgetHolds`).
* `AskTurn_proofs!NoKeyLost`, `ReportsAreTrue` and `PassesAreTrue`, of the wizard:
  `SecretsKept`, `OkMeansKeyed` and `PassMeansRunnable`. From `SetupAssumption`.
* `PhaseWork_proofs!ToldIsTrue`, `Auditable` and `NothingTwice`: `ToldIsOnRecord`,
  `WorkIsAudited` and `OnceEach`. From `WorkAssumption`.
* `Library_proofs!ReadableStays`: `ListedIsReadable`, for any number of librarians.
  From `LibraryAssumption`.
* `Library_proofs!CompactionIsNonDestructive`: `NothingLost`, from
  `OneLibrarian` too, which is what `library_race` lacks.
* `Library_proofs!EveryReadCounts` and `SeedingIsBounded`: `UseCountExact` of `Upkeep`,
  and `OneRowPerWorker`, which no run checks, for any number of workers;
  `ConsolidationKeepsRecall` and `TombstonesAreFinal`: `RecallKeepsText`, and
  `TombstonesStay`, which no run checks, for one worker (`OneWorker`). From
  `UpkeepAssumption`.

**Queue.** `OneRunnerPerJob` is not inductive: that a second worker cannot win the
row a first one holds follows from the row not being pending, and that it is not
pending follows from what the holder set it to (`ClaimIsCurrent`); that
`ClaimIsCurrent` survives another worker's step follows again from there being no
second holder. The invariant is therefore the conjunction of typing,
`OneRunnerPerJob`, `ClaimIsCurrent` and `RetryBudget`; the last is needed because
the except clause decides by the attempts a worker *read*, which equal the row's
by `ClaimIsCurrent`. The refinement proof has one case per action: a claim that
is won is `Begin`, an except clause is `GiveBack` or `Settle`, mark_done changes
nothing abstract (the job is still in hand while its reply is sent), a kill in
delivery settles the job, every other step stutters.

**Intake.** What is confirmed is what is before the offset, and the bot moves the offset
when it takes an update up, not when it is through with it. `FeedInOrder` therefore says
that everything before the offset of a running bot was handled or is in its hands; a bot
that is off loses that, and its offset, in the same step. `Room` counts: a turn adds one to
the runs of its message when it begins and to its homes in one step later, and until then
(`Homeless`) there is one home less than runs. For the step that adds the home this needs
that no other turn is about the same message (`OwnMessage`). `Routed` says from where on the
message is recorded in the request of its turn, for a guess after the analysis only, and
`JobInHand` that the job the turn refers to is of that message and that request; together
they are what `QueuedIsSound` asks when the row is queued. As sessions share the
requests, each of them has to survive the steps of others: requests, details and jobs are
only ever added (`Grows`).

**Plans.** `TreeConsistent` and `HonestCompletion` are about what is in the tables; what
keeps them is what the runner knows where it stands. `Loop` says it of the loop over the
phases: those before the one it is at are signed off as a whole, those after it are
untouched since the cascade (`Signed`, `Untouched`). `Station` adds, for each station,
the status that was committed last, up to "all phases are signed off" before the
verdict on the plan and "the plan is resolved, and a feature queued" before the last
reply. `Queue` is what the runner may count on from the job's row: a job that waits has
a run left. A run may stop at any station and the next one starts from the tables, so
no station may be assumed of a job that is not in hand: that is why `PlanStage` says of
an approved plan that its tree was at most approved. `KeepsTheContract` maps each commit to the step
of `PlanContract` that drafts, reviews, starts, signs off or resolves, and all others to stutters;
`LivesAsTheQueueSays` shows that the planned job takes the same steps in its row that
`Implements` allows the queue. That no run is refused needs to know where the tasks are
(`Ready`): approved or resolved while the loop runs them, one of them in progress while
it is worked on, all resolved at the review, of a phase that is resolved unless it is
empty. The caps need a count that a kill does not reset (`Counts`): a run adds at
most `MaxReplans + 1` drafts, as it counts in `replans` those it declined.

**Coder lane.** `BuiltOnce` follows from `Claims`: a request is claimed once, the row says
running while a worker has it in hand, and no two have the same. For what is on disk the
invariant follows a draft: `Writing` says that what has left the worker's hand is listed
in the copy it will commit, `OnDisk` that a module in the folder is of the job that is
done or on its way, `Listed` that the manifest, or the copy `confirm.py` will write
back, names it. `Seen` and `Reviewed` say the same of readers: what is about to be loaded
is what the owner reviewed. The three need `NoWriter`, that nobody writes to a bundle
that is complete, and that holds as long as a request has one feature job
(`OneJobOnly`); both properties state that premise, and `MCCoderLane_rewrite.cfg` shows what
happens without it.

**Scheduler.** `Slots` relates the free slots to the tasks that hold one at every await, a
cancelled one included, `InLine` the semaphore's line to those that wait, `Listed` is
`ListsTruthful` for each task, `Life` says where a task can be with which phase.
`FirstComeFirstServed` compares tasks that were submitted; `Turns` adds that the fresh
ones are the last of them and that the line is in the order of submission, which the
removal of a cancelled task keeps.

**Pairing.** Each property is about rows of `grants`, written long after the decision. For a
host code, `HostCodes` says that a stamped code is in the hands of one bot at most and in
none's once it has bound its account; the conditional UPDATE is what makes it true. For
an approval, `Approvals` says that a ticket past its mark is not pending, and as a ticket
is made once it never will be; the row of its account may hold a newer one. `Owner` says
that a verified login on its way to the owner's row is the one already there, or that
there is none.

**Work on tasks.** None of the three properties looks at the station between a skill
and its row, where all of them are decided. `Reported` therefore states the agreement
of log, history and progress at every station of the loop, with the action that is
`Recording` as the one exception, and `Hand` that this action is one of which nothing
has been told. `Clean` says that nothing is on record of runs and tasks still to come,
so that a task starts as `Reported` needs it. `NothingTwice` bounds what a task does
by what has been told, and that by the steps used. `Auditable` adds one to the
unrecorded effects when a skill returns and takes it away when its row is there, or
charges it to a fault.

**Ask.** `NoMixedAccounts` is about the file, and any process may be about to write it:
`Matches` says it of every text in a hand as well, which holds because a text is written
with the login it was read with. `Proper` says of a call at each of its stations how many
replies it has and with which status, so that the row, which comes last, is the only one
and true. `BudgetHolds` counts with the credits the processes whose request is out
(`Billing`): each of them checked the budget when the others had not paid yet, and the
check itself only knows that there was one credit left. Hence the overshoot of one less
than there are processes, which two of them reach in the run; that there are finitely many is assumed.
This bounds what is counted. Of the credits taken the property only says that all others
are `lost`, and `lost` has no bound: one process that times out again and again passes the
quota, as `MCAskTurn_quota.cfg` shows. `NoMixedAccounts` is about a token and the login
beside it; that the file stays torn, or that a logged-out account comes back whole, does
not violate it.

**Setup.** The files alone prove nothing: `.env` is rewritten at the end of a run from
what was loaded at its start. The invariant therefore says what a run holds in memory:
it loaded every key held so far (`Carried`), the block it is about to write names a key
that was typed or was there (`Chosen`), and once it counts the provider as configured
that is still true at the end (`Configured`), so that what it says is (`Said`). A run
that is killed leaves only the files, of which the next one assumes nothing.

**Library.** An index is loaded, changed in memory and written back, and any number of
operations may pass in between. `LoadedIsReady` says of a loaded index what
`ListedIsReadable` says of the one on disk; `InOrder` that the card and the two report
files exist when a commit gets to its index. For `NothingLost`, `WorkInHand` says for
each station of `compact_folder` and `revive_folder` where the files are: an archive
that is open is empty and everything is in the folder; while originals are unlinked
the closed archive has all of them; a revival deletes the archive when the folder has
all it holds. Each fails as soon as another process may be at a station of the same
folder, so `OneLibrarian` is used in every case.

**Upkeep.** That a read is counted is decided by one statement on the row as it is, so
`UseCountExact` is inductive with the types, for any sweeps beside it. The other
properties depend on what a worker listed and acts on later. With one worker nobody else
takes a row out of recall: readers revive and time ages, so what is listed is still
active when its turn comes (`PlannedActive`), and each duplicate still to go has a
keeper that is active and not in the plan (`Keeping`: the oldest of those alike, found
among the active rows). With two workers, which `MCUpkeep_claims.cfg` reaches, the first may be
about to archive a row the second has dropped, or whose keeper it has archived; hence
`OneWorker`. A row of `schedules` is inserted by a worker that looked for it in an
earlier step, and others may have looked, or inserted, since: two workers seed a kind
twice. `Scheduled` therefore counts: the rows of a kind and the workers about to insert
one (`Seeding`) are together no more than the workers. A worker only joins them while
there is no row, and a row takes the place of the worker that inserts it; that there are
finitely many is assumed.

Only model-checked: liveness, which is out of the prover's reach; `DependenciesFirst` of
`PhaseWork` (it holds in `work`; that `_topological_order` is right is an induction over
its passes); `RefusalsBounded` of `Pairing`, whose count by `SelectSeq` is an induction
over the sequence as well.

## Where code and documentation disagree

`library_race` (`PROJECT.json`, "findings"): `compact_cold_library` passes
`is_compacted`, `compact_folder` then opens `artifacts.zip` with `"w"`. Two scheduler
workers, the thread of `cli/web.py` and `cli/schedworker.py`, list the same row, as no
schedule is claimed; the second to open the archive empties it after the first has
unlinked the originals. "Compaction is non-destructive" (`archive.py:6`).

Further statements the code does not keep have a configuration that is not one of the
runs; `tlc -config <cfg> <module>` gives the scenario as a counterexample.

| configuration | what it shows |
|---|---|
| `MCJobQueue_redelivery.cfg` | a send that fails transiently after `mark_done` puts the finished job back to pending; it runs twice, against "a job is never run twice" (`job_queue.py:5-7`) |
| `MCJobQueue_restart.cfg` | a job whose worker died stays `running` for ever, against "all state is recoverable" (`docs/design-spec.md:345`) |
| `MCPlanJob_rework.cfg` | a declined phase is reviewed again without any task having run (`senior.py:176`), against `execution.py:205` |
| `MCCoderLane_rewrite.cfg` | a second feature job of a request overwrites the modules under an active manifest; the next process to start imports code nobody confirmed |
| `MCCoderLane_boot.cfg` | a half-written manifest stops every process from starting, against `codegen.py:236` |
| `MCPhaseWork_domain.cfg` | a planned coding task is offered the tools for external research: a planned job rebuilds its card without a domain (`execution.py:54`) and `run_phase` is called without one (`execution.py:112`), against "a coding task is offered no external web-research tools" (`senior.py:93`) |
| `MCIntake_jobs.cfg` | a message appended to a request creates a second job, against "one per request" (`requests.py:241`) |
| `MCAskTurn_quota.cfg` | searches that time out after the service has taken its credit are not counted, and one process takes more than the budget, against "never exceed the metered free quota" (`skills/web.py:242`) |
| `MCUpkeep_seeds.cfg` | two workers that start together each insert a row for a schedule, against "at most one row per kind" (`schedworker.py:74`) |
| `MCUpkeep_claims.cfg` | two workers sweep together, against "it claims each due row" (`schedworker.py:3`) |

Observed while modelling:

* Plans: a draft with an empty phase ends in `IllegalTransition` at its review
  (`plan_expert.py:38`; `LegalWhenPhasesHaveTasks` says it is the only way to one);
  `approve_plan` commits row by row though its docstring says one transaction
  (`plans.py:277`); a retry leaves the earlier plan `InProgress`; `requests.status`
  stays `awaiting_user` when a retry completes.
* Tasks: the worker's permissions (`senior.py:34`) have no `web.read` and no `data.read`,
  so each web tool a planned task is offered is denied when proposed, against
  "`research` / `general` work keeps the full tool set (web research included)"
  (`toolpolicy.py:13`); the confirmation that an external skill waits for is asked of no
  one, and the task resolves; `_topological_order` drops a dangling dependency, against
  its docstring (`senior.py:53`), though no plan that is persisted has one; the run
  after a retry does again what the run before has done.
* Runners: resume and pause in quick succession let a phase start paused
  (`jobcontrol.py:55`); a runner disposed before it has its slot never runs
  `abandon_tree`; a `JobControl` made after a restart ignores `jobs.paused`; a job
  disposed can never be submitted again.
* Requests: an append the Analyzer rejects stays `active` in `request_details`
  although "an Analyzer reject mutates *this* row" (`requests.py:314`); a reply that
  names its request with `/req` leaves it `awaiting_user`; a job planned by
  `cli/ask.py` is never queued.
* Workers: `serve(once=True)` never confirms what it answered; a `--once` worker that
  loses one race returns with jobs pending (`job_queue.py:113`); a send that raises ends
  the coder worker although "one bad request never stops the loop"
  (`coderworker.py:12`).
* Pairing: `ensure_owner` selects, then inserts, so two processes on an empty database
  create two owner rows, of which `get_owner` takes the first; a kill between the
  stamp of a host code and the binding burns the code; a binding under way overtakes a
  revocation.
* Memory: a row that is dropped although it was read after the sweep listed it
  (`sweep.py:69`); `drop_memory` sets the content to NULL, where `docs/design-spec.md:1094`
  keeps it; an error outside the handler ends the scheduler thread.
* Login: an exchange under way writes back what it read before a logout, and so logs in
  again (`auth.py:311`); a torn `github.json` makes every call, and even
  `save_oauth_token`, raise until a logout; an exception of the provider leaves no row
  in `ai_calls`, against "every call" (`docs/design-spec.md:1093`).
* Search: the budget is read before, and counted after the request, so two processes
  overshoot it (`web.py:243`); what is not counted, above, may overshoot it by any number.
* Setup: with route A on the `models.yaml` of the repository the wizard never asks for
  the key of the embedder, so the dry run at its end fails
  (`ConfiguredIsVerified` states the promise of `cli/setup.py:10`); with routes B and C
  the coder still needs the login; the rewritten block of `quality` loses its
  `max_tokens`; a hand edit of `.env` between the start and the end of a run is lost.
* Library: a kill between the two writes of `move_to_dropped` loses the entry from both
  indexes (`library.py:124`); two processes that load and replace `index.json` lose one
  entry; a torn archive counts as compacted for ever and makes `revive_folder` raise.

## What is not modelled

The texts of prompts, replies and reports; the sandbox of the coder and the skills'
own work (a nondeterministic verdict or answer); HTTP; the dashboard, which has
read-only views and one button (`Revoke` of `Pairing`); redaction and the ranking of
search results, which are functions of text and numbers; the improvement loop, which
nothing calls.
`write_generated_skill` and `roles/coder.py` are not reached by any entry point. A
report is written in one step (`Path.write_text` of a second commit could be torn by a
kill). SQLite's locking appears as the atomicity of a transaction and as "any step may
raise".

## Plan

1. Done: the queue, plans, the coder lane, the scheduler, intake; pairing, upkeep,
   the ask with its advice, setup, the library, the work on tasks.
2. Left to model: several users in `Intake`, and its composition with `JobQueue`
   through `EnqueueJob`.
3. Proved: the safety properties the runs check, and the refinements. Left to
   prove: `UpkeepTypeOK`.
