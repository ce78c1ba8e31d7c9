------------------------------- MODULE PlanJob -------------------------------
(***************************************************************************)
(* One complex job from its queue row to the delivered reply:              *)
(* execute_planned_job (roles/execution.py) with the sign-off roles it     *)
(* calls (senior, plan_expert, company_expert), inside _process_one of     *)
(* cli/jobworker.py.  Each commit to the database is one step, and the     *)
(* advisor's answers, an exception or a kill may come at each of them.     *)
(* JobQueue shows that one worker at a time holds the job; here it is the  *)
(* runner.  A retry of the job starts again with a new draft, and nothing  *)
(* writes to the plan of an earlier draft any more: only its last status   *)
(* is kept, in past.                                                       *)
(***************************************************************************)
EXTENDS Naturals, Sequences, Lifecycle

CONSTANTS MaxRetries,    \* policies.max_job_retries
          MaxReplans,    \* policies.max_replan_attempts
          MaxDeclines,   \* policies.max_phase_declines
          Shapes,        \* drafts: how many tasks each phase of a PlanSpec has
          Kinds          \* the kinds of job that are enqueued

ASSUME PlanJobAssumption == /\ MaxRetries \in Nat
                            /\ MaxReplans \in Nat
                            /\ MaxDeclines \in Nat
                            /\ Shapes \subseteq Seq(Nat) \ {<<>>}
                            /\ Kinds \subseteq {"task", "feature"}

VARIABLES row,       \* job_queue.status of the job
          attempts,  \* job_queue.attempts
          pc,        \* what the runner does next, "idle" when nobody runs the job
          kind,      \* jobs.kind
          replans,   \* drafts declined in this attempt
          at,        \* the phase the loop of execute_planned_job is at
          worked,    \* a task ran since that phase was last entered
          past,      \* plans.status of the job's earlier plans, oldest first
          plan,      \* plans.status of its latest plan, "none" before the first
          shape,     \* tasks per phase of that plan
          checked,   \* it has success criteria and the policy verifies them
          phase,     \* phases.status by index
          task,      \* plan_tasks.status by phase and index
          declines,  \* phases.decline_count
          outcome,   \* JobOutcome.status of the execution that last returned
          awaiting,  \* requests.status is awaiting_user
          coding,    \* the job has a row in coder_queue
          heard,     \* the outcomes the chat was told
          fault      \* what the last exception was

queue == <<row, attempts>>
loop  == <<replans, at, worked>>
rows  == <<past, plan, shape, checked, phase, task, declines>>
rest  == <<outcome, awaiting, coding, heard, fault>>
vars  == <<queue, pc, kind, loop, rows, rest>>

Phases   == 1 .. Len(shape)
Tasks(h) == 1 .. shape[h]

Asking   == {"plan_declined", "phase_escalated", "criteria_unmet"}
Outcomes == {"none", "completed"} \cup Asking

Executing == {"draft", "review_plan", "cascade", "activate", "tasks", "work", "review_phase",
              "close_tasks", "verify", "enqueue_coder", "park", "finish"}

TypeOK ==
  /\ row \in {"absent", "pending", "running", "done", "failed"}
  /\ attempts \in Nat
  /\ pc \in Executing \cup {"idle", "deliver"}
  /\ kind \in Kinds
  /\ replans \in 0 .. MaxReplans
  /\ at \in Nat
  /\ worked \in BOOLEAN
  /\ past \in Seq(Statuses)
  /\ plan \in Statuses \cup {"none"}
  /\ shape \in Shapes \cup {<<>>}
  /\ checked \in BOOLEAN
  /\ phase \in [Phases -> Statuses]
  /\ DOMAIN task = Phases /\ \A h \in Phases : task[h] \in [Tasks(h) -> Statuses]
  /\ declines \in [Phases -> Nat]
  /\ outcome \in Outcomes
  /\ awaiting \in BOOLEAN
  /\ coding \in BOOLEAN
  /\ heard \subseteq Outcomes
  /\ fault \in {"none", "illegal", "other"}

Init == /\ row = "absent" /\ attempts = 0
        /\ pc = "idle"
        /\ kind \in Kinds
        /\ replans = 0 /\ at = 0 /\ worked = FALSE
        /\ past = <<>> /\ plan = "none" /\ shape = <<>> /\ checked = FALSE
        /\ phase = <<>> /\ task = <<>> /\ declines = <<>>
        /\ outcome = "none" /\ awaiting = FALSE /\ coding = FALSE
        /\ heard = {} /\ fault = "none"

-----------------------------------------------------------------------------
(* How a step ends.                                                        *)

Goto(s) == pc' = s

\* "<" turned into "<=" in the retry budget.
AfterErrorOffByOne(retryable) ==
  IF retryable /\ attempts <= MaxRetries + 1 THEN "pending" ELSE "failed"

\* The except clause of _process_one.
AfterError(retryable) ==
  IF retryable /\ attempts <= MaxRetries THEN "pending" ELSE "failed"

Raise(what, retryable) == /\ row' = AfterError(retryable)
                          /\ fault' = what
                          /\ Goto("idle")
                          /\ UNCHANGED <<attempts, kind, loop, rows>>

\* set_plan_status, set_phase_status, set_task_status: validate, then commit.
\* Change is what the caller does with it.  The text of an IllegalTransition
\* matches no retryable pattern.
Try(entity, frm, to, actor, Change) ==
  IF CanTransition(entity, frm, to, actor)
  THEN Change
  ELSE Raise("illegal", FALSE) /\ UNCHANGED <<outcome, awaiting, coding, heard>>

SetPlan(to, actor, Change) ==
  Try("plan", plan, to, actor,
      /\ plan' = to
      /\ UNCHANGED <<past, shape, checked, phase, task, declines>>
      /\ UNCHANGED <<queue, kind>>
      /\ Change)

SetPhase(h, to, actor, bump, Change) ==
  Try("phase", phase[h], to, actor,
      /\ phase' = [phase EXCEPT ![h] = to]
      /\ declines' = [declines EXCEPT ![h] = @ + bump]
      /\ UNCHANGED <<past, plan, shape, checked, task>>
      /\ UNCHANGED <<queue, kind, rest>>
      /\ Change)

SetTask(h, t, to, actor, Change) ==
  Try("task", task[h][t], to, actor,
      /\ task' = [task EXCEPT ![h][t] = to]
      /\ UNCHANGED <<past, plan, shape, checked, phase, declines>>
      /\ UNCHANGED <<queue, kind, rest>>
      /\ Change)

\* The first of a phase's tasks, in list order, that has this status.  (The
\* dependencies of a persisted plan point backwards, so _topological_order
\* returns the tasks in list order.)
First(h, t, status) == /\ task[h][t] = status
                       /\ \A u \in Tasks(h) : u < t => task[h][u] # status

None(h, status) == \A t \in Tasks(h) : task[h][t] # status

-----------------------------------------------------------------------------
(* The queue, and one run of the job: drafting and reviewing the plan.     *)

Enqueue == /\ row = "absent"
           /\ row' = "pending"
           /\ UNCHANGED <<attempts, pc, kind, loop, rows, rest>>

Claim == /\ pc = "idle"
         /\ row = "pending"
         /\ row' = "running"
         /\ attempts' = attempts + 1
         /\ replans' = 0 /\ at' = 0 /\ worked' = FALSE
         /\ Goto("draft")
         /\ UNCHANGED <<kind, rows, rest>>

\* analyzer.draft_plan: create_plan_from_spec inserts the whole tree at once.
Draft == /\ pc = "draft"
         /\ shape' \in Shapes
         /\ checked' \in BOOLEAN
         /\ past' = IF plan = "none" THEN past ELSE Append(past, plan)
         /\ plan' = "New"
         /\ phase' = [h \in 1 .. Len(shape') |-> "New"]
         /\ task' = [h \in 1 .. Len(shape') |-> [t \in 1 .. shape'[h] |-> "New"]]
         /\ declines' = [h \in 1 .. Len(shape') |-> 0]
         /\ Goto("review_plan")
         /\ UNCHANGED <<queue, kind, loop, rest>>

\* company_expert.review_plan approved: the first commit of approve_plan.
ApprovePlan == /\ pc = "review_plan"
               /\ SetPlan("Approved", "company_expert",
                          Goto("cascade") /\ UNCHANGED <<loop, rest>>)

\* Declined with a replan left: only the plan row is abandoned, not its tree.
Replan == /\ pc = "review_plan"
          /\ replans < MaxReplans
          /\ SetPlan("Abandoned", "company_expert",
                     /\ replans' = replans + 1
                     /\ Goto("draft")
                     /\ UNCHANGED <<at, worked, rest>>)

\* The job is over for now: the caller tells the user what is wrong.
GiveUp(why) == /\ outcome' = why
               /\ Goto("park")
               /\ UNCHANGED <<queue, kind, loop, rows, awaiting, coding, heard, fault>>

DeclinePlan == /\ pc = "review_plan"
               /\ replans >= MaxReplans
               /\ GiveUp("plan_declined")

\* approve_plan, after the plan row: phase by phase, the phase then its tasks,
\* a commit each.
Unapproved(h) == phase[h] = "New" \/ \E t \in Tasks(h) : task[h][t] = "New"

ApproveNext ==
  /\ pc = "cascade"
  /\ \E h \in Phases :
       /\ Unapproved(h)
       /\ \A k \in Phases : k < h => ~Unapproved(k)
       /\ IF phase[h] = "New"
          THEN SetPhase(h, "Approved", "company_expert", 0, UNCHANGED <<pc, loop>>)
          ELSE \E t \in Tasks(h) :
                 /\ First(h, t, "New")
                 /\ SetTask(h, t, "Approved", "company_expert", UNCHANGED <<pc, loop>>)

\* The cascade is over and the Boss starts the runner.
StartPlan == /\ pc = "cascade"
             /\ \A h \in Phases : ~Unapproved(h)
             /\ SetPlan("InProgress", "boss",
                        /\ at' = 1
                        /\ Goto("activate")
                        /\ UNCHANGED <<replans, worked, rest>>)

-----------------------------------------------------------------------------
(* _run_one_phase.                                                         *)

\* Boss: phase Approved -> Active.
ActivatePhase == /\ pc = "activate"
                 /\ phase[at] = "Approved"
                 /\ SetPhase(at, "Active", "boss", 0, UNCHANGED <<pc, loop>>)

\* senior.run_phase: Active -> InProgress before the first task.
EnterPhase == /\ pc = "activate"
              /\ phase[at] = "Active"
              /\ SetPhase(at, "InProgress", "senior_worker", 0,
                          /\ worked' = FALSE
                          /\ Goto("tasks")
                          /\ UNCHANGED <<replans, at>>)

\* run_task, on the tasks that are Approved only: the others are skipped.
BeginTask == /\ pc = "tasks"
             /\ \E t \in Tasks(at) :
                  /\ First(at, t, "Approved")
                  /\ SetTask(at, t, "InProgress", "senior_worker",
                             /\ worked' = TRUE
                             /\ Goto("work")
                             /\ UNCHANGED <<replans, at>>)

\* The bounded propose/execute loop is over, whatever its skills did.
FinishTask == /\ pc = "work"
              /\ \E t \in Tasks(at) :
                   /\ First(at, t, "InProgress")
                   /\ SetTask(at, t, "Resolved", "senior_worker",
                              Goto("tasks") /\ UNCHANGED loop)

\* plan_expert.resolve_phase: a no-op for a phase without tasks.
TasksDone == /\ shape[at] > 0
             /\ \A t \in Tasks(at) : task[at][t] \in {"Resolved", "Closed"}

ResolvePhase == /\ pc = "tasks"
                /\ None(at, "Approved")
                /\ IF TasksDone /\ phase[at] = "InProgress"
                   THEN SetPhase(at, "Resolved", "plan_expert", 0,
                                 Goto("review_phase") /\ UNCHANGED loop)
                   ELSE Goto("review_phase") /\ UNCHANGED <<queue, kind, loop, rows, rest>>

\* company_expert.review_phase.
SignOffPhase == /\ pc = "review_phase"
                /\ SetPhase(at, "Closed", "company_expert", 0,
                            Goto("close_tasks") /\ UNCHANGED loop)

\* bump_decline forgotten.
DeclinePhaseUncounted == /\ pc = "review_phase"
                         /\ declines[at] < MaxDeclines
                         /\ SetPhase(at, "Active", "company_expert", 0,
                                     Goto("activate") /\ UNCHANGED loop)

\* A decline that leaves the while loop of execute_planned_job.
DeclinePhaseMovesOn == /\ pc = "review_phase"
                       /\ declines[at] < MaxDeclines
                       /\ SetPhase(at, "Active", "company_expert", 1,
                                   Goto("close_tasks") /\ UNCHANGED loop)

DeclinePhase == /\ pc = "review_phase"
                /\ declines[at] < MaxDeclines
                /\ SetPhase(at, "Active", "company_expert", 1,
                            Goto("activate") /\ UNCHANGED loop)

EscalatePhase == /\ pc = "review_phase"
                 /\ declines[at] >= MaxDeclines
                 /\ GiveUp("phase_escalated")

CloseTask == /\ pc = "close_tasks"
             /\ \E t \in Tasks(at) :
                  /\ First(at, t, "Resolved")
                  /\ SetTask(at, t, "Closed", "company_expert", UNCHANGED <<pc, loop>>)

\* The next phase is entered before the tasks of this one are closed.
NextPhaseEarly == /\ pc = "close_tasks"
                  /\ IF at < Len(shape)
                     THEN at' = at + 1 /\ Goto("activate")
                     ELSE at' = at /\ Goto("verify")
                  /\ UNCHANGED <<queue, kind, replans, worked, rows, rest>>

NextPhase == /\ pc = "close_tasks"
             /\ None(at, "Resolved")
             /\ IF at < Len(shape)
                THEN at' = at + 1 /\ Goto("activate")
                ELSE at' = at /\ Goto("verify")
             /\ UNCHANGED <<queue, kind, replans, worked, rows, rest>>

-----------------------------------------------------------------------------
(* The end of the run.                                                     *)

\* The success criteria are verified, except for a feature, whose code does
\* not exist yet.
CriteriaUnmet == /\ pc = "verify"
                 /\ checked /\ kind # "feature"
                 /\ GiveUp("criteria_unmet")

\* A feature is reported like any other job.
ResolvePlanUncoded == /\ pc = "verify"
                      /\ SetPlan("Resolved", "company_expert",
                                 /\ Goto("finish") /\ outcome' = "completed"
                                 /\ UNCHANGED <<loop, awaiting, coding, heard, fault>>)

ResolvePlan == /\ pc = "verify"
               /\ SetPlan("Resolved", "company_expert",
                          /\ IF kind = "feature"
                             THEN Goto("enqueue_coder") /\ UNCHANGED outcome
                             ELSE Goto("finish") /\ outcome' = "completed"
                          /\ UNCHANGED <<loop, awaiting, coding, heard, fault>>)

\* coder_queue.enqueue: idempotent per job.
EnqueueCoder == /\ pc = "enqueue_coder"
                /\ coding' = TRUE
                /\ outcome' = "completed"
                /\ Goto("finish")
                /\ UNCHANGED <<queue, kind, loop, rows, awaiting, heard, fault>>

\* The request waits for the user.
Park == /\ pc = "park"
        /\ awaiting' = TRUE
        /\ Goto("finish")
        /\ UNCHANGED <<queue, kind, loop, rows, outcome, coding, heard, fault>>

\* mark_done.
Finish == /\ pc = "finish"
          /\ row' = "done"
          /\ Goto("deliver")
          /\ UNCHANGED <<attempts, kind, loop, rows, rest>>

Deliver == /\ pc = "deliver"
           /\ heard' = heard \cup {outcome}
           /\ Goto("idle")
           /\ UNCHANGED <<queue, kind, loop, rows, outcome, awaiting, coding, fault>>

\* The channel raised, before or after the chat got the message.
DeliverRaise == /\ pc = "deliver"
                /\ \E retryable \in BOOLEAN : Raise("other", retryable)
                /\ heard' \in {heard, heard \cup {outcome}}
                /\ UNCHANGED <<outcome, awaiting, coding>>

\* An advisor call that could not be answered, an invalid dependency index in a
\* draft, a locked database: any step may raise instead.  Whether that counts
\* as retryable is a match on the exception's text.
ExecuteRaise == /\ pc \in Executing
                /\ \E retryable \in BOOLEAN : Raise("other", retryable)
                /\ UNCHANGED <<outcome, awaiting, coding, heard>>

-----------------------------------------------------------------------------
(* Around the run.                                                         *)

\* The worker process dies; the row stays as it is.
Kill == /\ pc # "idle"
        /\ Goto("idle")
        /\ UNCHANGED <<queue, kind, loop, rows, rest>>

\* pm.route_inbound hands the turn back with the user's next message.
UserReplies == /\ awaiting
               /\ awaiting' = FALSE
               /\ UNCHANGED <<queue, pc, kind, loop, rows, outcome, coding, heard, fault>>

RunPhase == ActivatePhase \/ EnterPhase \/ BeginTask \/ FinishTask \/ ResolvePhase

ReviewPhase == SignOffPhase \/ DeclinePhase \/ EscalatePhase \/ CloseTask \/ NextPhase

PlanReview == \/ Draft \/ ApprovePlan \/ Replan \/ DeclinePlan
              \/ ApproveNext \/ StartPlan

EndOfRun == \/ CriteriaUnmet \/ ResolvePlan \/ EnqueueCoder \/ Park
            \/ Finish \/ Deliver \/ DeliverRaise

Run == Claim \/ PlanReview \/ RunPhase \/ ReviewPhase \/ EndOfRun \/ ExecuteRaise

Next == Enqueue \/ Run \/ UserReplies \/ Kill

Spec == Init /\ [][Next]_vars

\* The worker's loop goes on: the advisor, the skills and the channel return or
\* raise.  Nothing is assumed of what they answer.
FairSpec == Spec /\ WF_vars(Run)

-----------------------------------------------------------------------------
(* Properties.                                                             *)

\* What a status promises about the rows below it, at every commit: nothing is
\* drafted any more under a running plan, a plan is resolved on closed phases
\* only, and a phase resolved or closed on finished tasks only.
TreeConsistent ==
  /\ plan \in {"New", "Abandoned"} =>
       \A h \in Phases : phase[h] = "New" /\ \A t \in Tasks(h) : task[h][t] = "New"
  /\ plan \in {"InProgress", "Resolved"} =>
       \A h \in Phases : phase[h] # "New" /\ \A t \in Tasks(h) : task[h][t] # "New"
  /\ plan = "Resolved" =>
       \A h \in Phases : phase[h] = "Closed" /\ \A t \in Tasks(h) : task[h][t] = "Closed"
  /\ \A h \in Phases : phase[h] \in {"Resolved", "Closed"} =>
       \A t \in Tasks(h) : task[h][t] \in {"Resolved", "Closed"}

\* Phases are worked on one after the other: nothing of a phase is started
\* before every earlier phase and its tasks are closed.
OneAfterTheOther ==
  \A g, h \in Phases :
    /\ g < h
    /\ phase[h] \notin {"New", "Approved"} \/ \E t \in Tasks(h) : task[h][t] \notin {"New", "Approved"}
    => phase[g] = "Closed" /\ \A t \in Tasks(g) : task[g][t] = "Closed"

\* The chat is told "completed" only for a job that has a plan all of which was
\* signed off, and for a feature only when its code is on the way.
HonestCompletion ==
  "completed" \in heard =>
    /\ plan = "Resolved" \/ \E i \in DOMAIN past : past[i] = "Resolved"
    /\ kind = "feature" => coding

\* execution.py's "bounding the decline loop" and its bounded auto-replan hold
\* across retries: the caps count what they say they count.
Bounded == /\ \A h \in Phases : declines[h] <= MaxDeclines
           /\ Len(past) < (MaxRetries + 1) * (MaxReplans + 1)

\* "each step a legal transition": no run of a plan whose phases all have tasks
\* is refused by the lifecycle.
LegalWhenPhasesHaveTasks ==
  fault = "illegal" => \E h \in Phases : shape[h] = 0

\* Whatever the reviewer, the advisor and the channel do, a job whose worker is
\* not killed comes to rest.
EveryRunEnds ==
  [](row = "running" => pc # "idle") =>
    row = "pending" ~> [](pc = "idle" /\ row \in {"done", "failed"})

\* A declined phase "loops for rework": before it is reviewed again, at least
\* one of its tasks ran again.
DeclinedPhaseIsReworked == pc = "review_phase" /\ shape[at] > 0 => worked

-----------------------------------------------------------------------------
(* A run of the job implements the plan's contract, and the job with all    *)
(* its runs is the JobLifecycle that JobQueue implements as well.           *)

Contract == INSTANCE PlanContract WITH
              status <- plan,
              total  <- Len(shape),
              signed <- {h \in Phases : phase[h] = "Closed"}

ImplementsContract == Contract!Spec

Stage == CASE row = "absent"                   -> "absent"
           [] row = "pending"                  -> "waiting"
           [] row = "running" \/ pc = "deliver" -> "working"
           [] OTHER                            -> "settled"

Life == INSTANCE JobLifecycle WITH Jobs  <- {"the job"},
                                   stage <- [j \in {"the job"} |-> Stage],
                                   tries <- [j \in {"the job"} |-> attempts]

ImplementsLifecycle == Life!Spec
=============================================================================
