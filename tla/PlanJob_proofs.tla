--------------------------- MODULE PlanJob_proofs ---------------------------
(***************************************************************************)
(* Proofs about one planned job, for drafts of any shape, any bounds on    *)
(* retries, replans and declines, whatever the reviewers, the advisor and  *)
(* the channel do and whenever the worker is killed.                       *)
(***************************************************************************)
EXTENDS PlanJob, TLAPS

Looping == {"activate", "tasks", "work", "review_phase", "close_tasks"}

\* A runner has the row, and a job that waits has a run left.
Queue ==
  /\ pc \in Executing => row = "running"
  /\ pc = "deliver" => row = "done"
  /\ row = "pending" => attempts <= MaxRetries
  /\ row = "absent" => attempts = 0 /\ pc = "idle"

Signed(h)    == phase[h] = "Closed" /\ \A t \in Tasks(h) : task[h][t] = "Closed"
Untouched(h) == phase[h] = "Approved" /\ \A t \in Tasks(h) : task[h][t] = "Approved"

\* What the plan's status says, beyond TreeConsistent.
PlanStage ==
  /\ plan \in {"none", "New", "Approved", "Abandoned", "InProgress", "Resolved"}
  /\ plan = "none" => shape = <<>>
  /\ plan # "none" => shape \in Shapes
  /\ plan = "Approved" =>
       \A h \in Phases : /\ phase[h] \in {"New", "Approved"}
                         /\ \A t \in Tasks(h) : task[h][t] \in {"New", "Approved"}

\* The loop over the phases: those before the one it is at are signed off,
\* those after it are untouched.
Loop ==
  pc \in Looping =>
    /\ plan = "InProgress"
    /\ at \in Phases
    /\ \A h \in Phases : /\ h < at => Signed(h)
                         /\ h > at => Untouched(h)

\* What the runner knows where it is.
Station ==
  /\ pc = "review_plan" => plan = "New"
  /\ pc = "cascade" => plan = "Approved"
  /\ pc = "activate" => phase[at] \in {"Approved", "Active"}
  /\ pc \in {"tasks", "work"} => phase[at] = "InProgress"
  /\ pc = "review_phase" => phase[at] \in {"InProgress", "Resolved"}
  /\ pc = "close_tasks" => phase[at] = "Closed"
  /\ pc = "verify" => plan = "InProgress" /\ \A h \in Phases : Signed(h)
  /\ pc = "enqueue_coder" => plan = "Resolved"
  /\ pc = "park" => outcome \in Asking
  /\ pc \in {"finish", "deliver"} /\ outcome = "completed" =>
       plan = "Resolved" /\ (kind = "feature" => coding)

Rows == TreeConsistent /\ OneAfterTheOther /\ PlanStage

IInv == TypeOK /\ Queue /\ Rows /\ Loop /\ Station /\ HonestCompletion

-----------------------------------------------------------------------------
(* What the steps do: a status change that the lifecycle allows, or a       *)
(* refusal that ends the run.                                               *)

PlanGoes(frm, to) ==
  /\ plan = frm /\ plan' = to
  /\ UNCHANGED <<past, shape, checked, phase, task, declines, queue, kind>>

PhaseGoes(h, frm, to, bump) ==
  /\ phase[h] = frm /\ phase' = [phase EXCEPT ![h] = to]
  /\ declines' = [declines EXCEPT ![h] = @ + bump]
  /\ UNCHANGED <<past, plan, shape, checked, task, queue, kind, rest>>

TaskGoes(h, t, frm, to) ==
  /\ task[h][t] = frm /\ task' = [task EXCEPT ![h][t] = to]
  /\ UNCHANGED <<past, plan, shape, checked, phase, declines, queue, kind, rest>>

\* The run ends, the chat hears at most the outcome.
Stopped ==
  /\ pc' = "idle"
  /\ row' \in {row, "pending", "failed"}
  /\ row' = "absent" => row = "absent"
  /\ row' = "pending" => attempts <= MaxRetries
  /\ UNCHANGED <<attempts, kind, loop, rows, outcome, awaiting, coding>>
  /\ fault' \in {"none", "illegal", "other"}
  /\ heard' = heard \/ (pc = "deliver" /\ heard' = heard \cup {outcome})

LEMMA Refused ==
  ASSUME TypeOK, pc # "idle", IInv, Raise("illegal", FALSE), UNCHANGED <<outcome, awaiting, coding, heard>>
  PROVE  Stopped
BY DEF Raise, AfterError, Goto, Stopped, queue, loop, rows, rest, IInv, Queue, Executing

\* approve_plan, the decline of a draft, the start and the end of a plan.
LEMMA PlanSteps ==
  ASSUME IInv
  PROVE  /\ ApprovePlan => \/ Stopped
                           \/ /\ PlanGoes("New", "Approved") /\ pc' = "cascade"
                              /\ UNCHANGED <<loop, rest>>
         /\ Replan => \/ Stopped
                      \/ /\ plan = "New" /\ PlanGoes(plan, "Abandoned") /\ pc' = "draft"
                         /\ replans < MaxReplans /\ replans' = replans + 1
                         /\ UNCHANGED <<at, worked, rest>>
         /\ StartPlan => \/ Stopped
                         \/ /\ PlanGoes("Approved", "InProgress") /\ pc' = "activate"
                            /\ at' = 1
                            /\ \A h \in Phases : ~Unapproved(h)
                            /\ UNCHANGED <<replans, worked, rest>>
         /\ ResolvePlan => \/ Stopped
                           \/ /\ pc = "verify" /\ PlanGoes("InProgress", "Resolved")
                              /\ IF kind = "feature" THEN pc' = "enqueue_coder" /\ outcome' = outcome
                                                     ELSE pc' = "finish" /\ outcome' = "completed"
                              /\ UNCHANGED <<loop, awaiting, coding, heard, fault>>
<1> USE DEF IInv, SetPlan, Try, CanTransition, Transitions, PlanGoes, Goto
<1>1. ApprovePlan => \/ Stopped
                     \/ /\ PlanGoes("New", "Approved") /\ pc' = "cascade"
                        /\ UNCHANGED <<loop, rest>>
  BY Refused DEF ApprovePlan
<1>2. Replan => \/ Stopped
                \/ /\ plan = "New" /\ PlanGoes(plan, "Abandoned") /\ pc' = "draft"
                   /\ replans < MaxReplans /\ replans' = replans + 1
                   /\ UNCHANGED <<at, worked, rest>>
  BY Refused DEF Replan, Station
<1>3. StartPlan => \/ Stopped
                   \/ /\ PlanGoes("Approved", "InProgress") /\ pc' = "activate"
                      /\ at' = 1
                      /\ \A h \in Phases : ~Unapproved(h)
                      /\ UNCHANGED <<replans, worked, rest>>
  BY Refused DEF StartPlan
<1>4. ResolvePlan => \/ Stopped
                     \/ /\ pc = "verify" /\ PlanGoes("InProgress", "Resolved")
                        /\ IF kind = "feature" THEN pc' = "enqueue_coder" /\ outcome' = outcome
                                               ELSE pc' = "finish" /\ outcome' = "completed"
                        /\ UNCHANGED <<loop, awaiting, coding, heard, fault>>
  BY Refused DEF ResolvePlan
<1> QED
  BY <1>1, <1>2, <1>3, <1>4

\* The steps of a phase.
LEMMA PhaseSteps ==
  ASSUME IInv
  PROVE  /\ ActivatePhase => \/ Stopped
                             \/ /\ pc = "activate" /\ PhaseGoes(at, "Approved", "Active", 0)
                                /\ UNCHANGED <<pc, loop>>
         /\ EnterPhase => \/ Stopped
                          \/ /\ pc = "activate" /\ PhaseGoes(at, "Active", "InProgress", 0)
                             /\ pc' = "tasks" /\ worked' = FALSE /\ UNCHANGED <<replans, at>>
         /\ ResolvePhase => \/ Stopped
                            \/ /\ pc = "tasks" /\ TasksDone
                               /\ PhaseGoes(at, "InProgress", "Resolved", 0)
                               /\ pc' = "review_phase" /\ UNCHANGED loop
                            \/ /\ pc = "tasks" /\ pc' = "review_phase"
                               /\ UNCHANGED <<queue, kind, loop, rows, rest>>
         /\ SignOffPhase => \/ Stopped
                            \/ /\ pc = "review_phase" /\ PhaseGoes(at, "Resolved", "Closed", 0)
                               /\ pc' = "close_tasks" /\ UNCHANGED loop
         /\ DeclinePhase => \/ Stopped
                            \/ /\ pc = "review_phase" /\ PhaseGoes(at, "Resolved", "Active", 1)
                               /\ declines[at] < MaxDeclines
                               /\ pc' = "activate" /\ UNCHANGED loop
<1> USE DEF IInv, SetPhase, Try, CanTransition, Transitions, PhaseGoes, Goto
<1>1. ActivatePhase => \/ Stopped
                       \/ /\ pc = "activate" /\ PhaseGoes(at, "Approved", "Active", 0)
                          /\ UNCHANGED <<pc, loop>>
  BY Refused DEF ActivatePhase
<1>2. EnterPhase => \/ Stopped
                    \/ /\ pc = "activate" /\ PhaseGoes(at, "Active", "InProgress", 0)
                       /\ pc' = "tasks" /\ worked' = FALSE /\ UNCHANGED <<replans, at>>
  BY Refused DEF EnterPhase
<1>3. ResolvePhase => \/ Stopped
                      \/ /\ pc = "tasks" /\ TasksDone
                         /\ PhaseGoes(at, "InProgress", "Resolved", 0)
                         /\ pc' = "review_phase" /\ UNCHANGED loop
                      \/ /\ pc = "tasks" /\ pc' = "review_phase"
                         /\ UNCHANGED <<queue, kind, loop, rows, rest>>
  BY Refused DEF ResolvePhase
<1>4. SignOffPhase => \/ Stopped
                      \/ /\ pc = "review_phase" /\ PhaseGoes(at, "Resolved", "Closed", 0)
                         /\ pc' = "close_tasks" /\ UNCHANGED loop
  BY Refused DEF SignOffPhase
<1>5. DeclinePhase => \/ Stopped
                      \/ /\ pc = "review_phase" /\ PhaseGoes(at, "Resolved", "Active", 1)
                         /\ declines[at] < MaxDeclines
                         /\ pc' = "activate" /\ UNCHANGED loop
  BY Refused DEF DeclinePhase
<1> QED
  BY <1>1, <1>2, <1>3, <1>4, <1>5

\* The cascade of approvals, and the steps of a task.
LEMMA TaskSteps ==
  ASSUME IInv
  PROVE  /\ ApproveNext =>
              \/ Stopped
              \/ /\ pc = "cascade" /\ UNCHANGED <<pc, loop>>
                 /\ \E h \in Phases :
                      \/ PhaseGoes(h, "New", "Approved", 0)
                      \/ \E t \in Tasks(h) : TaskGoes(h, t, "New", "Approved")
         /\ BeginTask =>
              \/ Stopped
              \/ /\ pc = "tasks" /\ pc' = "work" /\ worked' = TRUE /\ UNCHANGED <<replans, at>>
                 /\ \E t \in Tasks(at) : TaskGoes(at, t, "Approved", "InProgress")
         /\ FinishTask =>
              \/ Stopped
              \/ /\ pc = "work" /\ pc' = "tasks" /\ UNCHANGED loop
                 /\ \E t \in Tasks(at) : TaskGoes(at, t, "InProgress", "Resolved")
         /\ CloseTask =>
              \/ Stopped
              \/ /\ pc = "close_tasks" /\ UNCHANGED <<pc, loop>>
                 /\ \E t \in Tasks(at) : TaskGoes(at, t, "Resolved", "Closed")
<1> USE DEF IInv, SetTask, SetPhase, Try, CanTransition, Transitions, TaskGoes, PhaseGoes, Goto, First
<1>1. ApproveNext =>
        \/ Stopped
        \/ /\ pc = "cascade" /\ UNCHANGED <<pc, loop>>
           /\ \E h \in Phases :
                \/ PhaseGoes(h, "New", "Approved", 0)
                \/ \E t \in Tasks(h) : TaskGoes(h, t, "New", "Approved")
  BY Refused DEF ApproveNext
<1>2. BeginTask =>
        \/ Stopped
        \/ /\ pc = "tasks" /\ pc' = "work" /\ worked' = TRUE /\ UNCHANGED <<replans, at>>
           /\ \E t \in Tasks(at) : TaskGoes(at, t, "Approved", "InProgress")
  BY Refused DEF BeginTask
<1>3. FinishTask =>
        \/ Stopped
        \/ /\ pc = "work" /\ pc' = "tasks" /\ UNCHANGED loop
           /\ \E t \in Tasks(at) : TaskGoes(at, t, "InProgress", "Resolved")
  BY Refused DEF FinishTask
<1>4. CloseTask =>
        \/ Stopped
        \/ /\ pc = "close_tasks" /\ UNCHANGED <<pc, loop>>
           /\ \E t \in Tasks(at) : TaskGoes(at, t, "Resolved", "Closed")
  BY Refused DEF CloseTask
<1> QED
  BY <1>1, <1>2, <1>3, <1>4

-----------------------------------------------------------------------------
(* What those changes leave alone.                                         *)

RowTypes ==
  /\ past \in Seq(Statuses)
  /\ plan \in Statuses \cup {"none"}
  /\ shape \in Shapes \cup {<<>>}
  /\ checked \in BOOLEAN
  /\ phase \in [Phases -> Statuses]
  /\ DOMAIN task = Phases /\ \A h \in Phases : task[h] \in [Tasks(h) -> Statuses]
  /\ declines \in [Phases -> Nat]

RunTypes ==
  /\ row \in {"absent", "pending", "running", "done", "failed"}
  /\ attempts \in Nat
  /\ pc \in Executing \cup {"idle", "deliver"}
  /\ kind \in Kinds
  /\ replans \in 0 .. MaxReplans
  /\ at \in Nat
  /\ worked \in BOOLEAN
  /\ outcome \in Outcomes
  /\ awaiting \in BOOLEAN
  /\ coding \in BOOLEAN
  /\ heard \subseteq Outcomes
  /\ fault \in {"none", "illegal", "other"}

LEMMA TypeParts == (TypeOK <=> RunTypes /\ RowTypes) /\ (TypeOK' <=> RunTypes' /\ RowTypes')
BY DEF TypeOK, RunTypes, RowTypes

LEMMA ShapeFacts ==
  ASSUME TypeOK
  PROVE  Len(shape) \in Nat /\ Phases \subseteq Nat /\ Phases = 1 .. Len(shape)
         /\ (shape \in Shapes => Len(shape) > 0)
BY PlanJobAssumption DEF TypeOK, Phases

\* Rows that stay as they are keep what is said about them.
LEMMA SameRows ==
  ASSUME IInv, UNCHANGED rows
  PROVE  /\ RowTypes' /\ Rows'
         /\ Phases' = Phases
         /\ \A h \in Phases : Signed(h)' = Signed(h) /\ Untouched(h)' = Untouched(h)
BY TypeParts DEF IInv, rows, RowTypes, Rows, TreeConsistent, OneAfterTheOther, PlanStage,
                 Phases, Tasks, Signed, Untouched

LEMMA StoppedKeeps == ASSUME IInv, Stopped PROVE IInv'
<1>1. RunTypes'
  BY TypeParts DEF IInv, Stopped, RunTypes, loop
<1>2. RowTypes' /\ Rows'
  BY SameRows DEF Stopped
<1>3. Queue' /\ Loop' /\ Station'
  BY DEF IInv, Stopped, Queue, Loop, Station, Executing, Looping
<1>4. HonestCompletion'
  <2>1. "completed" \in heard' => "completed" \in heard \/ (pc = "deliver" /\ outcome = "completed")
    BY DEF Stopped
  <2>2. plan' = plan /\ past' = past /\ kind' = kind /\ coding' = coding
    BY DEF Stopped, rows
  <2> QED
    BY <2>1, <2>2 DEF IInv, Station, HonestCompletion
<1> QED
  BY <1>1, <1>2, <1>3, <1>4, TypeParts DEF IInv

LEMMA PhaseFrame ==
  ASSUME IInv, NEW h \in Phases, NEW frm \in Statuses, NEW to \in Statuses, NEW bump \in Nat,
         PhaseGoes(h, frm, to, bump)
  PROVE  /\ RowTypes'
         /\ Phases' = Phases /\ \A g \in Phases : Tasks(g)' = Tasks(g)
         /\ phase[h] = frm /\ phase'[h] = to
         /\ \A g \in Phases : g # h => phase'[g] = phase[g]
         /\ task' = task /\ plan' = plan /\ shape' = shape /\ past' = past
<1>1. Phases' = Phases /\ \A g \in Phases : Tasks(g)' = Tasks(g)
  BY DEF PhaseGoes, Phases, Tasks
<1>2. RowTypes
  BY TypeParts DEF IInv
<1>3. phase' \in [Phases -> Statuses] /\ declines' \in [Phases -> Nat]
  BY <1>2 DEF RowTypes, PhaseGoes
<1>4. RowTypes'
  BY <1>1, <1>2, <1>3 DEF RowTypes, PhaseGoes
<1>5. /\ phase[h] = frm /\ phase'[h] = to
      /\ \A g \in Phases : g # h => phase'[g] = phase[g]
  BY <1>2 DEF RowTypes, PhaseGoes
<1> QED
  BY <1>1, <1>4, <1>5 DEF PhaseGoes

LEMMA TaskFrame ==
  ASSUME IInv, NEW h \in Phases, NEW t \in Tasks(h), NEW frm \in Statuses, NEW to \in Statuses,
         TaskGoes(h, t, frm, to)
  PROVE  /\ RowTypes'
         /\ Phases' = Phases /\ \A g \in Phases : Tasks(g)' = Tasks(g)
         /\ task[h][t] = frm /\ task'[h][t] = to
         /\ \A u \in Tasks(h) : u # t => task'[h][u] = task[h][u]
         /\ \A g \in Phases : g # h => task'[g] = task[g]
         /\ phase' = phase /\ plan' = plan /\ shape' = shape /\ past' = past
<1>1. Phases' = Phases /\ \A g \in Phases : Tasks(g)' = Tasks(g)
  BY DEF TaskGoes, Phases, Tasks
<1>2. RowTypes
  BY TypeParts DEF IInv
<1>3. /\ DOMAIN task' = Phases /\ \A g \in Phases : task'[g] \in [Tasks(g) -> Statuses]
      /\ task'[h][t] = to
      /\ \A u \in Tasks(h) : u # t => task'[h][u] = task[h][u]
      /\ \A g \in Phases : g # h => task'[g] = task[g]
  BY <1>2 DEF RowTypes, TaskGoes
<1>4. RowTypes'
  BY <1>1, <1>2, <1>3 DEF RowTypes, TaskGoes
<1> QED
  BY <1>1, <1>3, <1>4 DEF TaskGoes

LEMMA PlanFrame ==
  ASSUME IInv, NEW frm, NEW to \in Statuses, PlanGoes(frm, to)
  PROVE  /\ RowTypes'
         /\ Phases' = Phases /\ \A g \in Phases : Tasks(g)' = Tasks(g)
         /\ plan = frm /\ plan' = to
         /\ task' = task /\ phase' = phase /\ shape' = shape /\ past' = past
<1>1. RowTypes
  BY TypeParts DEF IInv
<1> QED
  BY <1>1 DEF PlanGoes, RowTypes, Phases, Tasks

-----------------------------------------------------------------------------
LEMMA Bounds == MaxRetries \in Nat /\ MaxDeclines \in Nat /\ 0 \in 0 .. MaxReplans
BY PlanJobAssumption

LEMMA InitInv == Init => IInv
<1> SUFFICES ASSUME Init PROVE IInv
  OBVIOUS
<1>1. RunTypes
  BY Bounds DEF Init, RunTypes, Outcomes
<1>2. Phases = {}
  BY DEF Init, Phases
<1>3. past \in Seq(Statuses) /\ phase \in [{} -> Statuses] /\ DOMAIN task = {} /\ declines \in [{} -> Nat]
  BY DEF Init
<1>4. RowTypes
  BY <1>2, <1>3 DEF Init, RowTypes
<1>5. Rows
  BY <1>2 DEF Init, Rows, TreeConsistent, OneAfterTheOther, PlanStage
<1>6. Queue /\ Loop /\ Station /\ HonestCompletion
  BY DEF Init, Queue, Loop, Station, HonestCompletion, Executing, Looping
<1> QED
  BY <1>1, <1>4, <1>5, <1>6, TypeParts DEF IInv

\* Steps that change what the runner knows, or the queue's row, and no status.
LEMMA QuietSteps ==
  ASSUME IInv,
         \/ Enqueue \/ Claim \/ DeclinePlan \/ EscalatePhase \/ CriteriaUnmet
         \/ NextPhase \/ EnqueueCoder \/ Park \/ Finish \/ Deliver
         \/ DeliverRaise \/ ExecuteRaise \/ Kill \/ UserReplies \/ UNCHANGED vars
  PROVE  IInv'
<1> USE DEF Goto, queue, loop, rest
<1>t. RunTypes /\ RowTypes
  BY TypeParts DEF IInv
<1>s. ASSUME UNCHANGED rows, RunTypes', Queue', Loop', Station',
             "completed" \in heard' => "completed" \in heard \/ (outcome = "completed" /\ pc = "deliver"),
             kind' = kind, coding => coding'
      PROVE  IInv'
  <2>1. RowTypes' /\ Rows'
    BY <1>s, SameRows
  <2>2. plan' = plan /\ past' = past
    BY <1>s DEF rows
  <2>3. HonestCompletion'
    BY <1>s, <2>2 DEF IInv, Station, HonestCompletion
  <2> QED
    BY <1>s, <2>1, <2>3, TypeParts DEF IInv
<1>1. CASE Enqueue
  <2>1. RunTypes' /\ Queue'
    BY <1>1, <1>t, PlanJobAssumption DEF Enqueue, RunTypes, IInv, Queue, Executing
  <2>2. Loop' /\ Station'
    BY <1>1 DEF Enqueue, IInv, Queue, Loop, Station, Looping
  <2> QED
    BY <1>1, <1>s, <2>1, <2>2 DEF Enqueue
<1>2. CASE Claim
  <2>0. /\ row' = "running" /\ attempts' = attempts + 1 /\ pc' = "draft"
        /\ replans' = 0 /\ at' = 0 /\ worked' = FALSE
        /\ kind' = kind /\ outcome' = outcome /\ awaiting' = awaiting /\ coding' = coding
        /\ heard' = heard /\ fault' = fault
    BY <1>2 DEF Claim
  <2>a. attempts' \in Nat /\ replans' \in 0 .. MaxReplans /\ at' \in Nat
    BY <1>t, <2>0, Bounds DEF RunTypes
  <2>b. worked' \in BOOLEAN
    BY <2>0
  <2>1. RunTypes'
    BY <1>t, <2>0, <2>a, <2>b DEF RunTypes, Executing
  <2>2. Queue' /\ Loop' /\ Station'
    BY <1>2 DEF Claim, Queue, Loop, Station, Executing, Looping
  <2> QED
    BY <1>2, <1>s, <2>1, <2>2 DEF Claim
<1>3. CASE DeclinePlan \/ EscalatePhase \/ CriteriaUnmet
  <2>1. /\ pc \in Executing /\ pc' = "park" /\ outcome' \in Asking
        /\ UNCHANGED <<queue, kind, loop, rows, awaiting, coding, heard, fault>>
    BY <1>3 DEF DeclinePlan, EscalatePhase, CriteriaUnmet, GiveUp, Asking, Executing
  <2>2. RunTypes' /\ Queue' /\ Loop' /\ Station'
    BY <1>t, <2>1 DEF RunTypes, IInv, Queue, Loop, Station, Executing, Looping, Outcomes
  <2> QED
    BY <1>s, <2>1, <2>2
<1>4. CASE NextPhase
  <2>0. pc = "close_tasks" /\ UNCHANGED <<queue, kind, replans, worked, rows, rest>>
    BY <1>4 DEF NextPhase
  <2>1. /\ plan = "InProgress" /\ at \in Phases /\ Signed(at)
        /\ \A h \in Phases : (h < at => Signed(h)) /\ (h > at => Untouched(h))
    <3>1. /\ plan = "InProgress" /\ at \in Phases /\ phase[at] = "Closed"
          /\ \A h \in Phases : (h < at => Signed(h)) /\ (h > at => Untouched(h))
      BY <2>0 DEF IInv, Loop, Station, Looping
    <3>2. \A t \in Tasks(at) : task[at][t] \in {"Resolved", "Closed"}
      BY <3>1 DEF IInv, Rows, TreeConsistent
    <3> QED
      BY <1>4, <3>1, <3>2 DEF NextPhase, None, Signed
  <2>2. Phases' = Phases /\ \A h \in Phases : Signed(h)' = Signed(h) /\ Untouched(h)' = Untouched(h)
    BY <2>0, SameRows
  <2>3. Queue'
    BY <1>4 DEF NextPhase, IInv, Queue, Executing
  <2>4. Phases = 1 .. Len(shape) /\ Len(shape) \in Nat /\ plan' = plan /\ phase' = phase
    BY <2>0, ShapeFacts DEF IInv, rows
  <2>5. CASE at < Len(shape)
    <3>1. at' = at + 1 /\ pc' = "activate"
      BY <1>4, <2>5 DEF NextPhase
    <3>2. at' \in Phases' /\ phase[at'] = "Approved"
      BY <2>1, <2>2, <2>4, <2>5, <3>1 DEF Untouched
    <3>3. \A h \in Phases : /\ h < at' => h < at \/ h = at
                            /\ h > at' => h > at
      BY <2>1, <2>4, <3>1
    <3>4. Loop'
      BY <2>1, <2>2, <2>4, <3>1, <3>2, <3>3 DEF Loop
    <3>5. RunTypes' /\ Station'
      BY <1>t, <2>0, <2>4, <3>1, <3>2 DEF RunTypes, Station, Executing
    <3> QED
      BY <1>s, <2>0, <2>3, <3>4, <3>5
  <2>6. CASE ~(at < Len(shape))
    <3>1. at' = at /\ pc' = "verify"
      BY <1>4, <2>6 DEF NextPhase
    <3>2. \A h \in Phases : Signed(h)'
      BY <2>1, <2>2, <2>4, <2>6
    <3>3. RunTypes' /\ Loop' /\ Station'
      BY <1>t, <2>0, <2>1, <2>2, <2>4, <3>1, <3>2 DEF RunTypes, Loop, Station, Executing, Looping
    <3> QED
      BY <1>s, <2>0, <2>3, <3>3
  <2> QED
    BY <2>5, <2>6
<1>5. CASE EnqueueCoder
  <2>1. RunTypes' /\ Queue' /\ Loop'
    BY <1>5, <1>t DEF EnqueueCoder, RunTypes, IInv, Queue, Loop, Executing, Looping, Outcomes
  <2>2. Station'
    BY <1>5 DEF EnqueueCoder, IInv, Station, rows
  <2> QED
    BY <1>5, <1>s, <2>1, <2>2 DEF EnqueueCoder
<1>6. CASE Park
  <2>1. RunTypes' /\ Queue' /\ Loop'
    BY <1>6, <1>t DEF Park, RunTypes, IInv, Queue, Loop, Executing, Looping
  <2>2. Station'
    BY <1>6 DEF Park, IInv, Station, Asking
  <2> QED
    BY <1>6, <1>s, <2>1, <2>2 DEF Park
<1>7. CASE Finish
  <2>1. RunTypes' /\ Queue' /\ Loop'
    BY <1>7, <1>t DEF Finish, RunTypes, IInv, Queue, Loop, Executing, Looping
  <2>2. Station'
    BY <1>7 DEF Finish, IInv, Station, rows
  <2> QED
    BY <1>7, <1>s, <2>1, <2>2 DEF Finish
<1>8. CASE Deliver
  <2>1. RunTypes' /\ Queue' /\ Loop' /\ Station'
    BY <1>8, <1>t DEF Deliver, RunTypes, IInv, Queue, Loop, Station, Executing, Looping
  <2> QED
    BY <1>8, <1>s, <2>1 DEF Deliver
<1>9. CASE DeliverRaise \/ ExecuteRaise
  <2>1. Stopped
    BY <1>9, <1>t DEF DeliverRaise, ExecuteRaise, Raise, AfterError, Stopped, RunTypes
  <2> QED
    BY <2>1, StoppedKeeps
<1>10. CASE Kill \/ UserReplies \/ UNCHANGED vars
  <2>1. /\ UNCHANGED <<queue, kind, loop, rows, outcome, coding, heard, fault>>
        /\ awaiting' \in BOOLEAN
        /\ pc' = pc \/ (pc # "idle" /\ pc' = "idle")
    BY <1>10, <1>t DEF Kill, UserReplies, vars, RunTypes
  <2>2. RunTypes'
    BY <1>t, <2>1 DEF RunTypes
  <2>3. Queue'
    BY <2>1 DEF IInv, Queue, Executing
  <2>4. Phases' = Phases /\ \A h \in Phases : Signed(h)' = Signed(h) /\ Untouched(h)' = Untouched(h)
    BY <2>1, SameRows
  <2>5. Loop' /\ Station'
    BY <2>1, <2>4 DEF IInv, Loop, Station, rows, Looping
  <2> QED
    BY <1>s, <2>1, <2>2, <2>3, <2>5
<1> QED
  BY <1>1, <1>2, <1>3, <1>4, <1>5, <1>6, <1>7, <1>8, <1>9, <1>10

-----------------------------------------------------------------------------
(* The steps that change the rows of the plan.                             *)

LEMMA DraftKeeps == ASSUME IInv, Draft PROVE IInv'
<1>t. RunTypes /\ RowTypes
  BY TypeParts DEF IInv
<1>1. /\ pc = "draft" /\ pc' = "review_plan" /\ plan' = "New"
      /\ shape' \in Shapes /\ checked' \in BOOLEAN
      /\ past' = IF plan = "none" THEN past ELSE Append(past, plan)
      /\ phase' = [h \in Phases' |-> "New"]
      /\ task' = [h \in Phases' |-> [t \in Tasks(h)' |-> "New"]]
      /\ declines' = [h \in Phases' |-> 0]
      /\ UNCHANGED <<queue, kind, loop, rest>>
  BY DEF Draft, Phases, Tasks, Goto
<1>2. RunTypes'
  BY <1>t, <1>1 DEF RunTypes, queue, loop, rest, Executing
<1>3. RowTypes'
  <2>1. past' \in Seq(Statuses)
    BY <1>t, <1>1 DEF RowTypes
  <2>2. "New" \in Statuses
    BY DEF Statuses
  <2> QED
    BY <1>1, <2>1, <2>2 DEF RowTypes
<1>4. Rows'
  BY <1>1 DEF Rows, TreeConsistent, OneAfterTheOther, PlanStage
<1>5. Queue' /\ Loop' /\ Station'
  BY <1>1 DEF IInv, Queue, Loop, Station, queue, Executing, Looping
<1>6. HonestCompletion'
  <2>1. heard' = heard /\ kind' = kind /\ coding' = coding
    BY <1>1 DEF rest
  <2>2. ASSUME plan = "Resolved" PROVE \E i \in DOMAIN past' : past'[i] = "Resolved"
    <3>1. past' = Append(past, plan) /\ past \in Seq(Statuses) /\ plan \in Statuses
      BY <1>t, <1>1, <2>2 DEF RowTypes
    <3>2. Len(past) + 1 \in DOMAIN past' /\ past'[Len(past) + 1] = plan
      BY <3>1
    <3> QED
      BY <2>2, <3>2
  <2>3. ASSUME NEW i \in DOMAIN past, past[i] = "Resolved"
        PROVE  i \in DOMAIN past' /\ past'[i] = "Resolved"
    BY <1>t, <1>1, <2>3 DEF RowTypes
  <2> QED
    BY <2>1, <2>2, <2>3 DEF IInv, HonestCompletion
<1> QED
  BY <1>2, <1>3, <1>4, <1>5, <1>6, TypeParts DEF IInv

LEMMA PlanKeeps ==
  ASSUME IInv, ApprovePlan \/ Replan \/ StartPlan \/ ResolvePlan
  PROVE  IInv'
<1> USE DEF queue, loop, rest
<1>t. RunTypes /\ RowTypes
  BY TypeParts DEF IInv
<1>0. CASE Stopped
  BY <1>0, StoppedKeeps
<1>1. ASSUME PlanGoes("New", "Approved"), pc' = "cascade", UNCHANGED <<loop, rest>>, ApprovePlan
      PROVE  IInv'
  <2>1. /\ RowTypes' /\ Phases' = Phases /\ \A g \in Phases : Tasks(g)' = Tasks(g)
        /\ plan = "New" /\ plan' = "Approved" /\ task' = task /\ phase' = phase /\ shape' = shape
        /\ past' = past
    BY <1>1, PlanFrame DEF Statuses
  <2>2. RunTypes'
    BY <1>t, <1>1 DEF PlanGoes, RunTypes, Executing
  <2>3. Rows'
    BY <2>1 DEF IInv, Rows, TreeConsistent, OneAfterTheOther, PlanStage
  <2>4. Queue' /\ Loop' /\ Station'
    BY <1>1 DEF ApprovePlan, PlanGoes, IInv, Queue, Loop, Station, Executing, Looping
  <2>5. HonestCompletion'
    BY <1>1, <2>1 DEF PlanGoes, IInv, HonestCompletion
  <2> QED
    BY <2>1, <2>2, <2>3, <2>4, <2>5, TypeParts DEF IInv
<1>2. ASSUME plan = "New", PlanGoes(plan, "Abandoned"), pc' = "draft", Replan,
             replans < MaxReplans, replans' = replans + 1, UNCHANGED <<at, worked, rest>>
      PROVE  IInv'
  <2>1. /\ RowTypes' /\ Phases' = Phases /\ \A g \in Phases : Tasks(g)' = Tasks(g)
        /\ plan' = "Abandoned" /\ task' = task /\ phase' = phase /\ shape' = shape
        /\ past' = past
    BY <1>2, PlanFrame DEF Statuses
  <2>2. RunTypes'
    BY <1>t, <1>2, PlanJobAssumption DEF PlanGoes, RunTypes, Executing
  <2>3. Rows'
    BY <1>2, <2>1 DEF IInv, Rows, TreeConsistent, OneAfterTheOther, PlanStage
  <2>4. Queue' /\ Loop' /\ Station'
    BY <1>2 DEF Replan, PlanGoes, IInv, Queue, Loop, Station, Executing, Looping
  <2>5. HonestCompletion'
    BY <1>2, <2>1 DEF PlanGoes, IInv, HonestCompletion
  <2> QED
    BY <2>1, <2>2, <2>3, <2>4, <2>5, TypeParts DEF IInv
<1>3. ASSUME PlanGoes("Approved", "InProgress"), pc' = "activate", at' = 1, StartPlan,
             \A h \in Phases : ~Unapproved(h), UNCHANGED <<replans, worked, rest>>
      PROVE  IInv'
  <2>1. /\ RowTypes' /\ Phases' = Phases /\ \A g \in Phases : Tasks(g)' = Tasks(g)
        /\ plan = "Approved" /\ plan' = "InProgress"
        /\ task' = task /\ phase' = phase /\ shape' = shape /\ past' = past
    BY <1>3, PlanFrame DEF Statuses
  <2>2. \A h \in Phases : Untouched(h)
    BY <1>3, <2>1 DEF Unapproved, IInv, Rows, PlanStage, Untouched
  <2>3. 1 \in Phases /\ \A h \in Phases : ~(h < 1)
    BY <2>1, ShapeFacts DEF IInv, Rows, PlanStage
  <2>4. RunTypes'
    BY <1>t, <1>3 DEF PlanGoes, RunTypes, Executing
  <2>5. Rows'
    BY <2>1, <2>2 DEF Rows, TreeConsistent, OneAfterTheOther, PlanStage, Untouched, IInv
  <2>6. \A h \in Phases : Untouched(h)'
    BY <2>1, <2>2 DEF Untouched
  <2>7. Queue' /\ Loop' /\ Station'
    BY <1>3, <2>1, <2>2, <2>3, <2>6
    DEF StartPlan, PlanGoes, IInv, Queue, Loop, Station, Untouched, Executing, Looping
  <2>8. HonestCompletion'
    BY <1>3, <2>1 DEF PlanGoes, IInv, HonestCompletion
  <2> QED
    BY <2>1, <2>4, <2>5, <2>7, <2>8, TypeParts DEF IInv
<1>4. ASSUME pc = "verify", PlanGoes("InProgress", "Resolved"),
             IF kind = "feature" THEN pc' = "enqueue_coder" /\ outcome' = outcome
                                 ELSE pc' = "finish" /\ outcome' = "completed",
             UNCHANGED <<loop, awaiting, coding, heard, fault>>
      PROVE  IInv'
  <2>1. /\ RowTypes' /\ Phases' = Phases /\ \A g \in Phases : Tasks(g)' = Tasks(g)
        /\ plan = "InProgress" /\ plan' = "Resolved"
        /\ task' = task /\ phase' = phase /\ shape' = shape /\ past' = past
    BY <1>4, PlanFrame DEF Statuses
  <2>2. \A h \in Phases : Signed(h)
    BY <1>4 DEF IInv, Station
  <2>3. RunTypes'
    BY <1>t, <1>4 DEF PlanGoes, RunTypes, Executing, Outcomes
  <2>4. Rows'
    BY <2>1, <2>2 DEF Rows, TreeConsistent, OneAfterTheOther, PlanStage, Signed, IInv
  <2>5. Queue' /\ Loop' /\ Station'
    BY <1>4, <2>1 DEF PlanGoes, IInv, Queue, Loop, Station, Executing, Looping
  <2>6. HonestCompletion'
    BY <1>4, <2>1 DEF PlanGoes, IInv, HonestCompletion
  <2> QED
    BY <2>1, <2>3, <2>4, <2>5, <2>6, TypeParts DEF IInv
<1> QED
  BY <1>0, <1>1, <1>2, <1>3, <1>4, PlanSteps

\* The loop's picture of the phases, whatever happens to the one it is at.
Around ==
  /\ plan = "InProgress"
  /\ at \in Phases
  /\ \A h \in Phases : /\ h < at => Signed(h)
                       /\ h > at => Untouched(h)

LEMMA AroundIsLoop == pc \in Looping /\ IInv => Around
BY DEF IInv, Loop, Around

LEMMA AroundOrder == TypeOK /\ Around => OneAfterTheOther
<1> SUFFICES ASSUME TypeOK, Around PROVE OneAfterTheOther
  OBVIOUS
<1> SUFFICES ASSUME NEW g \in Phases, NEW h \in Phases, g < h,
                    \/ phase[h] \notin {"New", "Approved"}
                    \/ \E t \in Tasks(h) : task[h][t] \notin {"New", "Approved"}
             PROVE  Signed(g)
  BY DEF OneAfterTheOther, Signed
<1>1. ~Untouched(h)
  BY DEF Untouched
<1>2. g \in Nat /\ h \in Nat /\ at \in Nat
  BY ShapeFacts DEF TypeOK
<1>3. ~(h > at)
  BY <1>1 DEF Around
<1>4. g < at
  BY <1>2, <1>3
<1> QED
  BY <1>4 DEF Around

\* A status change of the phase the loop is at.
LEMMA PhaseInLoop ==
  ASSUME IInv, pc \in Looping, at' = at, NEW bump \in Nat,
         NEW frm \in Statuses \ {"New", "Closed"}, NEW to \in Statuses \ {"New"},
         PhaseGoes(at, frm, to, bump),
         to \in {"Resolved", "Closed"} =>
           \A t \in Tasks(at) : task[at][t] \in {"Resolved", "Closed"}
  PROVE  RowTypes' /\ TreeConsistent' /\ PlanStage' /\ Around' /\ phase'[at] = to /\ HonestCompletion'
<1>a. Around
  BY AroundIsLoop
<1>1. /\ RowTypes'
      /\ Phases' = Phases /\ \A g \in Phases : Tasks(g)' = Tasks(g)
      /\ phase[at] = frm /\ phase'[at] = to
      /\ \A g \in Phases : g # at => phase'[g] = phase[g]
      /\ task' = task /\ plan' = plan /\ shape' = shape /\ past' = past
  BY <1>a, PhaseFrame DEF Around
<1>2. TreeConsistent'
  BY <1>a, <1>1 DEF IInv, Rows, TreeConsistent, Around
<1>3. PlanStage'
  BY <1>a, <1>1 DEF IInv, Rows, PlanStage, Around
<1>4. \A h \in Phases : h # at => Signed(h)' = Signed(h) /\ Untouched(h)' = Untouched(h)
  BY <1>1 DEF Signed, Untouched
<1>5. \A h \in Phases : (h < at => h # at) /\ (h > at => h # at)
  BY <1>a, ShapeFacts DEF IInv, Around
<1>6. Around'
  BY <1>a, <1>1, <1>4, <1>5 DEF Around
<1>7. HonestCompletion'
  BY <1>1 DEF IInv, HonestCompletion, PhaseGoes, rest
<1> QED
  BY <1>1, <1>2, <1>3, <1>6, <1>7

\* A status change of one of its tasks.
LEMMA TaskInLoop ==
  ASSUME IInv, pc \in Looping, at' = at, NEW t \in Tasks(at),
         NEW frm \in Statuses, NEW to \in Statuses \ {"New"},
         TaskGoes(at, t, frm, to),
         phase[at] \in {"Resolved", "Closed"} => to \in {"Resolved", "Closed"}
  PROVE  RowTypes' /\ TreeConsistent' /\ PlanStage' /\ Around' /\ phase' = phase /\ HonestCompletion'
<1>a. Around
  BY AroundIsLoop
<1>1. /\ RowTypes'
      /\ Phases' = Phases /\ \A g \in Phases : Tasks(g)' = Tasks(g)
      /\ task'[at][t] = to
      /\ \A u \in Tasks(at) : u # t => task'[at][u] = task[at][u]
      /\ \A g \in Phases : g # at => task'[g] = task[g]
      /\ phase' = phase /\ plan' = plan /\ shape' = shape /\ past' = past
  BY <1>a, TaskFrame DEF Around
<1>2. \A g \in Phases : \A u \in Tasks(g) :
        task'[g][u] = task[g][u] \/ (g = at /\ u = t /\ task'[g][u] = to)
  BY <1>1
<1>3. TreeConsistent'
  BY <1>a, <1>1, <1>2 DEF IInv, Rows, TreeConsistent, Around
<1>4. PlanStage'
  BY <1>a, <1>1 DEF IInv, Rows, PlanStage, Around
<1>5. \A h \in Phases : h # at => Signed(h)' = Signed(h) /\ Untouched(h)' = Untouched(h)
  BY <1>1 DEF Signed, Untouched
<1>6. \A h \in Phases : (h < at => h # at) /\ (h > at => h # at)
  BY <1>a, ShapeFacts DEF IInv, Around
<1>7. Around'
  BY <1>a, <1>1, <1>5, <1>6 DEF Around
<1>8. HonestCompletion'
  BY <1>1 DEF IInv, HonestCompletion, TaskGoes, rest
<1> QED
  BY <1>1, <1>3, <1>4, <1>7, <1>8

\* A step inside the loop that leaves the picture right keeps everything.
LEMMA LoopKeeps ==
  ASSUME IInv, pc \in Looping, pc' \in Looping, UNCHANGED <<queue, kind, rest, replans, at>>,
         worked' \in BOOLEAN,
         RowTypes', TreeConsistent', PlanStage', Around', Station', HonestCompletion'
  PROVE  IInv'
<1>1. RunTypes'
  BY TypeParts DEF IInv, RunTypes, queue, rest, Looping, Executing
<1>2. TypeOK'
  BY <1>1, TypeParts
<1>3. OneAfterTheOther'
  BY <1>2, AroundOrder, PTL
<1>4. Queue'
  BY DEF IInv, Queue, queue, Looping, Executing
<1>5. Loop'
  BY DEF Loop, Around
<1> QED
  BY <1>2, <1>3, <1>4, <1>5 DEF IInv, Rows

LEMMA PhaseKeeps ==
  ASSUME IInv, ActivatePhase \/ EnterPhase \/ ResolvePhase \/ SignOffPhase \/ DeclinePhase
  PROVE  IInv'
<1> USE DEF loop, Looping
<1>w. worked \in BOOLEAN
  BY TypeParts DEF IInv, RunTypes
<1>0. CASE Stopped
  BY <1>0, StoppedKeeps
<1>1. ASSUME pc = "activate", PhaseGoes(at, "Approved", "Active", 0), UNCHANGED <<pc, loop>>
      PROVE  IInv'
  <2>1. RowTypes' /\ TreeConsistent' /\ PlanStage' /\ Around' /\ phase'[at] = "Active" /\ HonestCompletion'
    BY <1>1, PhaseInLoop DEF Statuses
  <2>2. Station'
    BY <1>1, <2>1 DEF Station
  <2> QED
    BY <1>1, <1>w, <2>1, <2>2, LoopKeeps DEF PhaseGoes
<1>2. ASSUME pc = "activate", PhaseGoes(at, "Active", "InProgress", 0),
             pc' = "tasks", worked' = FALSE, UNCHANGED <<replans, at>>
      PROVE  IInv'
  <2>1. RowTypes' /\ TreeConsistent' /\ PlanStage' /\ Around' /\ phase'[at] = "InProgress" /\ HonestCompletion'
    BY <1>2, PhaseInLoop DEF Statuses
  <2>2. Station'
    BY <1>2, <2>1 DEF Station
  <2> QED
    BY <1>2, <2>1, <2>2, LoopKeeps DEF PhaseGoes
<1>3. ASSUME pc = "tasks", TasksDone, PhaseGoes(at, "InProgress", "Resolved", 0),
             pc' = "review_phase", UNCHANGED loop
      PROVE  IInv'
  <2>1. RowTypes' /\ TreeConsistent' /\ PlanStage' /\ Around' /\ phase'[at] = "Resolved" /\ HonestCompletion'
    BY <1>3, PhaseInLoop DEF Statuses, TasksDone
  <2>2. Station'
    BY <1>3, <2>1 DEF Station
  <2> QED
    BY <1>3, <1>w, <2>1, <2>2, LoopKeeps DEF PhaseGoes
<1>4. ASSUME pc = "tasks", pc' = "review_phase", UNCHANGED <<queue, kind, loop, rows, rest>>
      PROVE  IInv'
  <2>1. RowTypes' /\ Rows' /\ Phases' = Phases
        /\ \A h \in Phases : Signed(h)' = Signed(h) /\ Untouched(h)' = Untouched(h)
    BY <1>4, SameRows
  <2>2. Around'
    BY <1>4, <2>1, AroundIsLoop DEF Around, rows
  <2>3. Station' /\ HonestCompletion'
    BY <1>4 DEF IInv, Station, HonestCompletion, rows, rest
  <2> QED
    BY <1>4, <1>w, <2>1, <2>2, <2>3, LoopKeeps DEF Rows
<1>5. ASSUME pc = "review_phase", PhaseGoes(at, "Resolved", "Closed", 0),
             pc' = "close_tasks", UNCHANGED loop
      PROVE  IInv'
  <2>1. at \in Phases /\ phase[at] = "Resolved"
    BY <1>5 DEF PhaseGoes, IInv, Loop
  <2>2. \A t \in Tasks(at) : task[at][t] \in {"Resolved", "Closed"}
    BY <2>1 DEF IInv, Rows, TreeConsistent
  <2>3. RowTypes' /\ TreeConsistent' /\ PlanStage' /\ Around' /\ phase'[at] = "Closed" /\ HonestCompletion'
    BY <1>5, <2>2, PhaseInLoop DEF Statuses
  <2>4. Station'
    BY <1>5, <2>3 DEF Station
  <2> QED
    BY <1>5, <1>w, <2>3, <2>4, LoopKeeps DEF PhaseGoes
<1>6. ASSUME pc = "review_phase", PhaseGoes(at, "Resolved", "Active", 1),
             pc' = "activate", UNCHANGED loop
      PROVE  IInv'
  <2>1. RowTypes' /\ TreeConsistent' /\ PlanStage' /\ Around' /\ phase'[at] = "Active" /\ HonestCompletion'
    BY <1>6, PhaseInLoop DEF Statuses
  <2>2. Station'
    BY <1>6, <2>1 DEF Station
  <2> QED
    BY <1>6, <1>w, <2>1, <2>2, LoopKeeps DEF PhaseGoes
<1> QED
  BY <1>0, <1>1, <1>2, <1>3, <1>4, <1>5, <1>6, PhaseSteps

LEMMA TaskKeeps ==
  ASSUME IInv, BeginTask \/ FinishTask \/ CloseTask
  PROVE  IInv'
<1> USE DEF loop, Looping
<1>w. worked \in BOOLEAN
  BY TypeParts DEF IInv, RunTypes
<1>0. CASE Stopped
  BY <1>0, StoppedKeeps
<1>1. ASSUME pc = "tasks", pc' = "work", worked' = TRUE, UNCHANGED <<replans, at>>,
             NEW t \in Tasks(at), TaskGoes(at, t, "Approved", "InProgress")
      PROVE  IInv'
  <2>1. RowTypes' /\ TreeConsistent' /\ PlanStage' /\ Around' /\ phase' = phase /\ HonestCompletion'
    BY <1>1, TaskInLoop DEF Statuses, IInv, Station
  <2>2. Station'
    BY <1>1, <2>1 DEF IInv, Station
  <2> QED
    BY <1>1, <2>1, <2>2, LoopKeeps DEF TaskGoes
<1>2. ASSUME pc = "work", pc' = "tasks", UNCHANGED loop,
             NEW t \in Tasks(at), TaskGoes(at, t, "InProgress", "Resolved")
      PROVE  IInv'
  <2>1. RowTypes' /\ TreeConsistent' /\ PlanStage' /\ Around' /\ phase' = phase /\ HonestCompletion'
    BY <1>2, TaskInLoop DEF Statuses
  <2>2. Station'
    BY <1>2, <2>1 DEF IInv, Station
  <2> QED
    BY <1>2, <1>w, <2>1, <2>2, LoopKeeps DEF TaskGoes
<1>3. ASSUME pc = "close_tasks", UNCHANGED <<pc, loop>>,
             NEW t \in Tasks(at), TaskGoes(at, t, "Resolved", "Closed")
      PROVE  IInv'
  <2>1. RowTypes' /\ TreeConsistent' /\ PlanStage' /\ Around' /\ phase' = phase /\ HonestCompletion'
    BY <1>3, TaskInLoop DEF Statuses
  <2>2. Station'
    BY <1>3, <2>1 DEF IInv, Station
  <2> QED
    BY <1>3, <1>w, <2>1, <2>2, LoopKeeps DEF TaskGoes
<1> QED
  BY <1>0, <1>1, <1>2, <1>3, TaskSteps

\* The cascade: under an approved plan nothing is begun yet.
LEMMA CascadeKeeps == ASSUME IInv, ApproveNext PROVE IInv'
<1>0. CASE Stopped
  BY <1>0, StoppedKeeps
<1>1. ASSUME ~Stopped PROVE IInv'
  <2>1. PICK h \in Phases : \/ PhaseGoes(h, "New", "Approved", 0)
                            \/ \E t \in Tasks(h) : TaskGoes(h, t, "New", "Approved")
    BY <1>1, TaskSteps
  <2>2. pc = "cascade" /\ plan = "Approved" /\ UNCHANGED <<pc, loop, queue, kind, rest>>
    BY <1>1, <2>1, TaskSteps DEF PhaseGoes, TaskGoes, IInv, Station
  <2>3. /\ RowTypes' /\ Phases' = Phases /\ \A g \in Phases : Tasks(g)' = Tasks(g)
        /\ plan' = plan /\ shape' = shape /\ past' = past
        /\ \A g \in Phases : /\ phase'[g] \in {phase[g], "Approved"}
                             /\ \A t \in Tasks(g) : task'[g][t] \in {task[g][t], "Approved"}
    <3>1. CASE PhaseGoes(h, "New", "Approved", 0)
      BY <3>1, PhaseFrame DEF Statuses
    <3>2. ASSUME NEW t \in Tasks(h), TaskGoes(h, t, "New", "Approved")
          PROVE  /\ RowTypes' /\ Phases' = Phases /\ \A g \in Phases : Tasks(g)' = Tasks(g)
                 /\ plan' = plan /\ shape' = shape /\ past' = past
                 /\ \A g \in Phases : /\ phase'[g] \in {phase[g], "Approved"}
                                      /\ \A u \in Tasks(g) : task'[g][u] \in {task[g][u], "Approved"}
      BY <3>2, TaskFrame DEF Statuses
    <3> QED
      BY <2>1, <3>1, <3>2
  <2>4. \A h1 \in Phases : /\ phase'[h1] \in {"New", "Approved"}
                           /\ \A t \in Tasks(h1) : task'[h1][t] \in {"New", "Approved"}
    BY <2>2, <2>3 DEF IInv, Rows, PlanStage
  <2>5. Rows'
    BY <2>2, <2>3, <2>4 DEF IInv, Rows, TreeConsistent, OneAfterTheOther, PlanStage
  <2>6. RunTypes' /\ Queue' /\ Loop' /\ Station'
    BY <2>2, <2>3, TypeParts DEF IInv, RunTypes, Queue, Loop, Station, queue, loop, rest, Looping
  <2>7. HonestCompletion'
    BY <2>2, <2>3 DEF IInv, HonestCompletion, rest
  <2> QED
    BY <2>3, <2>5, <2>6, <2>7, TypeParts DEF IInv
<1> QED
  BY <1>0, <1>1

LEMMA InvStep == IInv /\ [Next]_vars => IInv'
BY QuietSteps, DraftKeeps, PlanKeeps, PhaseKeeps, TaskKeeps, CascadeKeeps
DEF Next, Run, PlanReview, RunPhase, ReviewPhase, EndOfRun

LEMMA Invariance == Spec => []IInv
BY InitInv, InvStep, PTL DEF Spec

\* What every row of the job, its plan, phases and tasks can hold.
THEOREM TypeCorrect == Spec => []TypeOK
<1>1. IInv => TypeOK
  BY DEF IInv
<1> QED
  BY <1>1, Invariance, PTL

\* At every commit of approve_plan, run_phase, the sign-off roles and the
\* decline loop, and after a kill between any two of them, the statuses of
\* plan, phases and tasks agree, for drafts of any shape.
THEOREM TreesAgree == Spec => []TreeConsistent
<1>1. IInv => TreeConsistent
  BY DEF IInv, Rows
<1> QED
  BY <1>1, Invariance, PTL

\* The loop of execute_planned_job takes the phases one after the other.
THEOREM InTurn == Spec => []OneAfterTheOther
<1>1. IInv => OneAfterTheOther
  BY DEF IInv, Rows
<1> QED
  BY <1>1, Invariance, PTL

\* A chat that heard "completed" has a plan that was signed off as a whole, and
\* for a feature the row in coder_queue, whatever was retried or killed.
THEOREM CompletionIsHonest == Spec => []HonestCompletion
<1>1. IInv => HonestCompletion
  BY DEF IInv
<1> QED
  BY <1>1, Invariance, PTL

-----------------------------------------------------------------------------
(* The plan's contract.                                                    *)

SignedOff == {h \in Phases : phase[h] = "Closed"}

LEMMA ContractInit == Init => Contract!Init
<1> SUFFICES ASSUME Init PROVE Contract!Init
  OBVIOUS
<1>1. plan = "none" /\ Len(shape) = 0
  BY DEF Init
<1>2. Phases = {}
  BY <1>1 DEF Phases
<1> QED
  BY <1>1, <1>2 DEF Contract!Init

\* A step that neither drafts nor reviews nor signs off is not seen.
LEMMA NotSeen ==
  ASSUME plan' = plan, shape' = shape,
         \A h \in Phases : phase'[h] = "Closed" <=> phase[h] = "Closed"
  PROVE  UNCHANGED Contract!vars
<1>1. Phases' = Phases /\ Len(shape)' = Len(shape)
  BY DEF Phases
<1> QED
  BY <1>1 DEF Contract!vars

LEMMA PlanSeen ==
  ASSUME UNCHANGED <<shape, phase>>
  PROVE  Len(shape)' = Len(shape) /\ SignedOff' = SignedOff
BY DEF SignedOff, Phases

LEMMA ContractStep == IInv /\ IInv' /\ [Next]_vars => [Contract!Next]_(Contract!vars)
<1> SUFFICES ASSUME IInv, IInv', [Next]_vars PROVE [Contract!Next]_(Contract!vars)
  OBVIOUS
<1>p. Phases = 1 .. Len(shape) /\ Len(shape) \in Nat /\ at \in Nat
  BY ShapeFacts DEF IInv, TypeOK
<1>0. CASE UNCHANGED rows
  BY <1>0, NotSeen DEF rows
<1>1. CASE Stopped
  BY <1>1, NotSeen DEF Stopped, rows
<1>2. CASE Draft
  <2>1. plan' = "New" /\ shape' \in Shapes /\ Phases' = 1 .. Len(shape')
        /\ phase' = [h \in Phases' |-> "New"]
    BY <1>2 DEF Draft, Phases
  <2>2. Len(shape') \in Nat \ {0}
    BY <2>1, PlanJobAssumption
  <2>3. SignedOff' = {}
    BY <2>1 DEF SignedOff
  <2> QED
    BY <2>1, <2>2, <2>3 DEF Contract!Next, Contract!Draft, SignedOff
<1>3. CASE (ApprovePlan \/ Replan) /\ ~Stopped
  <2>1. plan = "New" /\ plan' \in {"Approved", "Abandoned"} /\ UNCHANGED <<shape, phase>>
    BY <1>3, PlanSteps DEF PlanGoes
  <2> QED
    BY <2>1, PlanSeen DEF Contract!Next, Contract!Review, SignedOff
<1>4. CASE StartPlan /\ ~Stopped
  <2>1. plan = "Approved" /\ plan' = "InProgress" /\ UNCHANGED <<shape, phase>>
    BY <1>4, PlanSteps DEF PlanGoes
  <2> QED
    BY <2>1, PlanSeen DEF Contract!Next, Contract!Start, SignedOff
<1>5. CASE ResolvePlan /\ ~Stopped
  <2>1. pc = "verify" /\ plan = "InProgress" /\ plan' = "Resolved" /\ UNCHANGED <<shape, phase>>
    BY <1>5, PlanSteps DEF PlanGoes
  <2>2. SignedOff = 1 .. Len(shape)
    BY <1>p, <2>1 DEF IInv, Station, Signed, SignedOff
  <2> QED
    BY <2>1, <2>2, PlanSeen DEF Contract!Next, Contract!Resolve, SignedOff
<1>6. CASE SignOffPhase /\ ~Stopped
  <2>1. pc = "review_phase" /\ PhaseGoes(at, "Resolved", "Closed", 0) /\ at' = at
    BY <1>6, PhaseSteps DEF loop
  <2>2. Around
    BY <2>1, AroundIsLoop DEF Looping
  <2>3. /\ Phases' = Phases /\ phase[at] = "Resolved" /\ phase'[at] = "Closed"
        /\ \A g \in Phases : g # at => phase'[g] = phase[g]
        /\ plan' = plan /\ shape' = shape
    BY <2>1, <2>2, PhaseFrame DEF Around, Statuses
  <2>4. \A h \in Phases : /\ h < at => phase[h] = "Closed"
                          /\ h > at => phase[h] = "Approved"
    BY <2>2 DEF Around, Signed, Untouched
  <2>5. SignedOff = 1 .. (at - 1)
    BY <1>p, <2>2, <2>3, <2>4 DEF SignedOff, Around
  <2>6. SignedOff' = 1 .. at
    BY <1>p, <2>2, <2>3, <2>4 DEF SignedOff, Around
  <2> QED
    BY <1>p, <2>2, <2>3, <2>5, <2>6 DEF Contract!Next, Contract!SignOff, SignedOff, Around
<1>7. CASE (ActivatePhase \/ EnterPhase \/ ResolvePhase \/ DeclinePhase) /\ ~Stopped /\ ~(UNCHANGED rows)
  <2>1. PICK frm \in Statuses \ {"Closed"}, to \in Statuses \ {"Closed"}, bump \in Nat :
          PhaseGoes(at, frm, to, bump)
    BY <1>7, PhaseSteps DEF Statuses, rows
  <2>2. at \in Phases
    BY <1>7 DEF ActivatePhase, EnterPhase, ResolvePhase, DeclinePhase, IInv, Loop, Looping
  <2> QED
    BY <2>1, <2>2, PhaseFrame, NotSeen
<1>8. CASE (BeginTask \/ FinishTask \/ CloseTask) /\ ~Stopped
  <2>1. UNCHANGED <<plan, shape, phase>>
    BY <1>8, TaskSteps DEF TaskGoes
  <2> QED
    BY <2>1, NotSeen
<1>9. CASE ApproveNext /\ ~Stopped
  <2>1. PICK h \in Phases : \/ PhaseGoes(h, "New", "Approved", 0)
                            \/ \E t \in Tasks(h) : TaskGoes(h, t, "New", "Approved")
    BY <1>9, TaskSteps
  <2>2. CASE PhaseGoes(h, "New", "Approved", 0)
    BY <2>2, PhaseFrame, NotSeen DEF Statuses
  <2>3. CASE \E t \in Tasks(h) : TaskGoes(h, t, "New", "Approved")
    BY <2>3, NotSeen DEF TaskGoes
  <2> QED
    BY <2>1, <2>2, <2>3
<1>10. CASE \/ Enqueue \/ Claim \/ DeclinePlan \/ EscalatePhase \/ CriteriaUnmet
            \/ NextPhase \/ EnqueueCoder \/ Park \/ Finish \/ Deliver
            \/ DeliverRaise \/ ExecuteRaise \/ Kill \/ UserReplies \/ UNCHANGED vars
  <2>1. UNCHANGED rows
    BY <1>10 DEF Enqueue, Claim, DeclinePlan, EscalatePhase, CriteriaUnmet, NextPhase,
                 EnqueueCoder, Park, Finish, Deliver, DeliverRaise, ExecuteRaise, Raise, Kill,
                 UserReplies, GiveUp, vars
  <2> QED
    BY <1>0, <2>1
<1> QED
  BY <1>0, <1>1, <1>2, <1>3, <1>4, <1>5, <1>6, <1>7, <1>8, <1>9, <1>10
  DEF Next, Run, PlanReview, RunPhase, ReviewPhase, EndOfRun

\* execute_planned_job keeps the plan's contract: a draft is approved or
\* abandoned as a whole, an approved plan is started once, its phases are signed
\* off in their order, and it is resolved only when the last of them is.
THEOREM KeepsTheContract == Spec => ImplementsContract
BY Invariance, ContractInit, ContractStep, PTL DEF Spec, ImplementsContract, Contract!Spec

-----------------------------------------------------------------------------
(* The lifecycle of the job.                                               *)

LEMMA StageFacts ==
  IInv => /\ row = "absent" => Stage = "absent"
          /\ row = "pending" => Stage = "waiting"
          /\ row = "running" => Stage = "working"
          /\ pc = "deliver" => Stage = "working"
          /\ row \in {"done", "failed"} /\ pc # "deliver" => Stage = "settled"
          /\ pc # "idle" => Stage = "working"
BY DEF IInv, Queue, Stage, TypeOK

LEMMA StageFactsNext ==
  IInv' => /\ row' = "absent" => Stage' = "absent"
           /\ row' = "pending" => Stage' = "waiting"
           /\ row' = "running" => Stage' = "working"
           /\ pc' = "deliver" => Stage' = "working"
           /\ row' \in {"done", "failed"} /\ pc' # "deliver" => Stage' = "settled"
BY DEF IInv, Queue, Stage, TypeOK

\* The moves of the lifecycle, in the terms of the one job there is.
LEMMA LifeMoves ==
  ASSUME \/ Stage = "absent" /\ Stage' = "waiting" /\ attempts' = attempts
         \/ /\ Stage = "waiting" /\ Stage' = "working"
            /\ attempts <= MaxRetries /\ attempts' = attempts + 1
         \/ /\ Stage = "working" /\ Stage' = "waiting"
            /\ attempts <= MaxRetries /\ attempts' = attempts
         \/ Stage = "working" /\ Stage' = "settled" /\ attempts' = attempts
         \/ Stage' = Stage /\ attempts' = attempts
  PROVE  [Life!Next]_(Life!vars)
BY DEF Life!Next, Life!Submit, Life!Begin, Life!GiveBack, Life!Settle, Life!vars

LEMMA LifeInit == Init => Life!Init
BY DEF Init, Life!Init, Stage

LEMMA LifeStep == IInv /\ IInv' /\ [Next]_vars => [Life!Next]_(Life!vars)
<1> SUFFICES ASSUME IInv, IInv', [Next]_vars PROVE [Life!Next]_(Life!vars)
  OBVIOUS
<1> USE DEF queue
<1>1. CASE Enqueue
  BY <1>1, StageFacts, StageFactsNext, LifeMoves DEF Enqueue
<1>2. CASE Claim
  BY <1>2, StageFacts, StageFactsNext, LifeMoves DEF Claim, IInv, Queue
<1>3. CASE Finish
  BY <1>3, StageFacts, StageFactsNext, LifeMoves DEF Finish, Goto
<1>4. CASE Deliver
  <2>1. row = "done" /\ row' = row /\ pc = "deliver" /\ pc' = "idle" /\ attempts' = attempts
    BY <1>4 DEF Deliver, Goto, IInv, Queue
  <2> QED
    BY <2>1, StageFacts, StageFactsNext, LifeMoves
<1>5. CASE Stopped /\ pc # "idle"
  <2>1. /\ Stage = "working" /\ attempts' = attempts /\ pc' # "deliver"
        /\ row' \in {row, "pending", "failed"} /\ (row' = "pending" => attempts <= MaxRetries)
    BY <1>5, StageFacts DEF Stopped
  <2>2. row \in {"running", "done"}
    BY <1>5 DEF IInv, Queue, TypeOK
  <2> QED
    BY <2>1, <2>2, StageFactsNext, LifeMoves
<1>6. CASE Kill
  <2>1. row' = row /\ attempts' = attempts /\ pc # "idle" /\ pc' = "idle" /\ row \in {"running", "done"}
    BY <1>6 DEF Kill, Goto, IInv, Queue, TypeOK
  <2> QED
    BY <2>1, StageFacts, StageFactsNext, LifeMoves
<1>7. CASE UNCHANGED <<row, attempts>> /\ ((pc \in Executing /\ pc' \in Executing) \/ pc' = pc)
  <2>1. Stage' = Stage
    BY <1>7 DEF Stage, Executing
  <2> QED
    BY <1>7, <2>1, LifeMoves
<1>8. CASE DeliverRaise \/ ExecuteRaise
  BY <1>5, <1>8, TypeParts DEF DeliverRaise, ExecuteRaise, Raise, AfterError, Goto, Stopped, IInv, RunTypes,
                               Executing
<1>9. CASE UserReplies \/ UNCHANGED vars
  BY <1>7, <1>9 DEF UserReplies, vars
<1>10. CASE \/ Draft \/ ApprovePlan \/ Replan \/ StartPlan \/ ResolvePlan
            \/ RunPhase \/ SignOffPhase \/ DeclinePhase \/ CloseTask \/ ApproveNext
  <2>1. pc \in Executing /\ pc # "idle"
    BY <1>10 DEF Draft, ApprovePlan, Replan, StartPlan, ResolvePlan, RunPhase, ActivatePhase, EnterPhase,
                 BeginTask, FinishTask, ResolvePhase, SignOffPhase, DeclinePhase, CloseTask,
                 ApproveNext, Executing
  <2>2. Stopped \/ (UNCHANGED <<row, attempts>> /\ pc' \in Executing)
    <3>1. CASE Draft
      BY <3>1 DEF Draft, Goto, Executing
    <3>2. CASE ApprovePlan \/ Replan \/ StartPlan \/ ResolvePlan
      BY <3>2, PlanSteps DEF PlanGoes, Executing
    <3>3. CASE ActivatePhase \/ EnterPhase \/ ResolvePhase \/ SignOffPhase \/ DeclinePhase
      BY <3>3, PhaseSteps DEF PhaseGoes, Executing
    <3>4. CASE BeginTask \/ FinishTask \/ CloseTask \/ ApproveNext
      BY <3>4, TaskSteps DEF TaskGoes, PhaseGoes, Executing
    <3> QED
      BY <1>10, <3>1, <3>2, <3>3, <3>4 DEF RunPhase
  <2> QED
    BY <1>5, <1>7, <2>1, <2>2
<1>11. CASE DeclinePlan \/ EscalatePhase \/ CriteriaUnmet \/ NextPhase \/ EnqueueCoder \/ Park
  BY <1>7, <1>11 DEF DeclinePlan, EscalatePhase, CriteriaUnmet, GiveUp, NextPhase, EnqueueCoder, Park,
                     Goto, Executing
<1> QED
  BY <1>1, <1>2, <1>3, <1>4, <1>6, <1>8, <1>9, <1>10, <1>11
  DEF Next, Run, PlanReview, ReviewPhase, EndOfRun

\* Whatever happens inside its runs, the job is the one the queue promises: it
\* is given back at most MaxRetries times and never begun again once settled.
THEOREM LivesAsTheQueueSays == Spec => ImplementsLifecycle
BY Invariance, LifeInit, LifeStep, PTL DEF Spec, ImplementsLifecycle, Life!Spec

-----------------------------------------------------------------------------
(* What the lifecycle never refuses.                                       *)

\* The tasks the loop is at, and what a review finds: a phase is not resolved
\* only if it has no tasks.
Ready ==
  /\ pc \in {"activate", "tasks"} => \A t \in Tasks(at) : task[at][t] \in {"Approved", "Resolved"}
  /\ pc = "work" =>
       \E t \in Tasks(at) : /\ task[at][t] = "InProgress"
                            /\ \A u \in Tasks(at) \ {t} : task[at][u] \in {"Approved", "Resolved"}
  /\ pc = "review_phase" => /\ \A t \in Tasks(at) : task[at][t] = "Resolved"
                            /\ phase[at] = "Resolved" \/ shape[at] = 0

\* A refusal is not retryable: the job is over, with the plan it was about.
RefusedOnce ==
  fault = "illegal" => pc = "idle" /\ row = "failed" /\ \E h \in Phases : shape[h] = 0

-----------------------------------------------------------------------------
(* What the caps count.                                                    *)

Cap(k) == k * (MaxReplans + 1)
Drafts == IF plan = "none" THEN 0 ELSE Len(past) + 1

\* Drafts of earlier attempts, those declined in this one, and the latest.
Counts ==
  /\ \A h \in Phases : declines[h] <= MaxDeclines
  /\ attempts <= MaxRetries + 1
  /\ plan = "none" => past = <<>>
  /\ Drafts <= Cap(attempts)
  /\ pc = "draft" => attempts > 0 /\ Drafts <= Cap(attempts - 1) + replans
  /\ pc = "review_plan" => attempts > 0 /\ Drafts <= Cap(attempts - 1) + replans + 1

-----------------------------------------------------------------------------
\* The only status change the lifecycle refuses is the sign-off of a phase
\* without tasks.
LEMMA Refusals ==
  ASSUME IInv, Ready, [Next]_vars, fault' = "illegal", fault # "illegal"
  PROVE  pc' = "idle" /\ row' = "failed" /\ shape' = shape /\ at \in Phases /\ shape[at] = 0
<1> USE DEF Try, CanTransition, Transitions, Goto
<1>p. ~(ApprovePlan \/ Replan \/ StartPlan \/ ResolvePlan)
  BY DEF ApprovePlan, Replan, StartPlan, ResolvePlan, SetPlan, IInv, Station, rest, AbandonActors, Terminal
<1>c. ~ApproveNext
  <2>1. SUFFICES ASSUME ApproveNext PROVE FALSE
    OBVIOUS
  <2>2. PICK h \in Phases :
          IF phase[h] = "New"
          THEN SetPhase(h, "Approved", "company_expert", 0, UNCHANGED <<pc, loop>>)
          ELSE \E t \in Tasks(h) :
                 /\ First(h, t, "New")
                 /\ SetTask(h, t, "Approved", "company_expert", UNCHANGED <<pc, loop>>)
    BY <2>1 DEF ApproveNext
  <2> QED
    BY <2>2 DEF SetPhase, SetTask, First, rest
<1>h. ~(ActivatePhase \/ EnterPhase \/ ResolvePhase)
  BY DEF ActivatePhase, EnterPhase, ResolvePhase, SetPhase, rest
<1>t. ~(BeginTask \/ FinishTask \/ CloseTask)
  BY DEF BeginTask, FinishTask, CloseTask, SetTask, First, rest
<1>r. ASSUME SignOffPhase \/ DeclinePhase
      PROVE  pc' = "idle" /\ row' = "failed" /\ shape' = shape /\ at \in Phases /\ shape[at] = 0
  <2>1. /\ pc = "review_phase" /\ at \in Phases
        /\ phase[at] = "Resolved" \/ shape[at] = 0
    BY <1>r DEF SignOffPhase, DeclinePhase, IInv, Loop, Looping, Ready
  <2>2. CASE SignOffPhase
    <3>1. phase[at] # "Resolved" /\ Raise("illegal", FALSE)
      BY <2>2 DEF SignOffPhase, SetPhase, rest
    <3> QED
      BY <2>1, <3>1 DEF Raise, AfterError, rows
  <2>3. CASE DeclinePhase
    <3>1. phase[at] # "Resolved" /\ Raise("illegal", FALSE)
      BY <2>3 DEF DeclinePhase, SetPhase, rest
    <3> QED
      BY <2>1, <3>1 DEF Raise, AfterError, rows
  <2> QED
    BY <1>r, <2>2, <2>3
<1>q. ~(Enqueue \/ Claim \/ Draft \/ DeclinePlan \/ EscalatePhase \/ NextPhase \/ CriteriaUnmet
        \/ EnqueueCoder \/ Park \/ Finish \/ Deliver \/ DeliverRaise \/ ExecuteRaise \/ Kill
        \/ UserReplies \/ UNCHANGED vars)
  BY DEF Enqueue, Claim, Draft, DeclinePlan, EscalatePhase, NextPhase, CriteriaUnmet, EnqueueCoder,
         Park, Finish, Deliver, DeliverRaise, ExecuteRaise, Kill, UserReplies, vars, rest, GiveUp, Raise
<1> QED
  BY <1>p, <1>c, <1>h, <1>t, <1>r, <1>q
  DEF Next, Run, PlanReview, RunPhase, ReviewPhase, EndOfRun

LEMMA AtRest ==
  ASSUME IInv, [Next]_vars, pc = "idle", row = "failed"
  PROVE  pc' = "idle" /\ row' = "failed" /\ shape' = shape
<1>1. ~Enqueue /\ ~Claim /\ ~Kill
  BY DEF Enqueue, Claim, Kill
<1>2. ~(PlanReview \/ RunPhase \/ ReviewPhase \/ EndOfRun \/ ExecuteRaise)
  BY DEF PlanReview, RunPhase, ReviewPhase, EndOfRun, ExecuteRaise, Draft, ApprovePlan, Replan,
         DeclinePlan, ApproveNext, StartPlan, ActivatePhase, EnterPhase, BeginTask, FinishTask,
         ResolvePhase, SignOffPhase, DeclinePhase, EscalatePhase, CloseTask, NextPhase,
         CriteriaUnmet, ResolvePlan, EnqueueCoder, Park, Finish, Deliver, DeliverRaise, Executing
<1>3. UserReplies \/ UNCHANGED vars
  BY <1>1, <1>2 DEF Next, Run
<1> QED
  BY <1>3 DEF UserReplies, vars, queue, rows

LEMMA RefusedStep == IInv /\ Ready /\ RefusedOnce /\ [Next]_vars => RefusedOnce'
<1> SUFFICES ASSUME IInv, Ready, RefusedOnce, [Next]_vars, fault' = "illegal"
             PROVE  pc' = "idle" /\ row' = "failed" /\ \E h \in Phases' : shape'[h] = 0
  BY DEF RefusedOnce
<1>1. CASE fault = "illegal"
  BY <1>1, AtRest DEF RefusedOnce, Phases
<1>2. CASE fault # "illegal"
  BY <1>2, Refusals DEF Phases
<1> QED
  BY <1>1, <1>2

LEMMA ReadyStep == IInv /\ Ready /\ [Next]_vars => Ready'
<1> SUFFICES ASSUME IInv, Ready, [Next]_vars PROVE Ready'
  OBVIOUS
<1> USE DEF Ready
<1>a. pc \in Looping => at \in Phases /\ Around
  BY AroundIsLoop DEF Around
<1>0. CASE pc' \notin {"activate", "tasks", "work", "review_phase"}
  BY <1>0
<1>1. CASE Stopped
  BY <1>1 DEF Stopped
<1>2. CASE UNCHANGED <<pc, at, rows>>
  BY <1>2 DEF rows, Tasks
<1>3. CASE ~Stopped /\ StartPlan
  <2>1. /\ PlanGoes("Approved", "InProgress") /\ pc' = "activate" /\ at' = 1
        /\ \A h \in Phases : ~Unapproved(h)
    BY <1>3, PlanSteps
  <2>2. 1 \in Phases
    BY <2>1, ShapeFacts DEF IInv, Rows, PlanStage, PlanGoes
  <2>3. \A t \in Tasks(1) : task[1][t] = "Approved"
    BY <2>1, <2>2 DEF PlanGoes, Unapproved, IInv, Rows, PlanStage
  <2> QED
    BY <2>1, <2>3 DEF PlanGoes, Tasks
<1>4. CASE NextPhase
  <2>1. CASE pc' = "activate"
    <3>1. /\ at' = at + 1 /\ at < Len(shape) /\ at \in Phases /\ Around /\ task' = task /\ shape' = shape
      BY <1>4, <1>a, <2>1 DEF NextPhase, Goto, Looping, rows
    <3>2. at + 1 \in Phases /\ at + 1 > at
      BY <3>1, ShapeFacts DEF IInv
    <3>3. Untouched(at + 1)
      BY <3>1, <3>2 DEF Around
    <3> QED
      BY <2>1, <3>1, <3>3 DEF Untouched, Tasks
  <2>2. CASE pc' = "verify"
    BY <2>2
  <2> QED
    BY <1>4, <2>1, <2>2 DEF NextPhase, Goto
<1>5. CASE ~Stopped /\ (ActivatePhase \/ EnterPhase \/ DeclinePhase)
  <2>1. /\ task' = task /\ shape' = shape /\ at' = at
        /\ pc \in {"activate", "review_phase"} /\ pc' \in {"activate", "tasks"}
    BY <1>5, PhaseSteps DEF PhaseGoes, loop
  <2> QED
    BY <2>1 DEF Tasks
<1>6. CASE ~Stopped /\ ResolvePhase
  <2>1. /\ pc = "tasks" /\ pc' = "review_phase" /\ task' = task /\ shape' = shape /\ at' = at
        /\ \/ PhaseGoes(at, "InProgress", "Resolved", 0)
           \/ phase' = phase /\ ~(TasksDone /\ phase[at] = "InProgress")
        /\ \A t \in Tasks(at) : task[at][t] # "Approved"
    <3>1. \A t \in Tasks(at) : task[at][t] # "Approved"
      BY <1>6 DEF ResolvePhase, None
    <3>2. CASE TasksDone /\ phase[at] = "InProgress"
      <4>1. SetPhase(at, "Resolved", "plan_expert", 0, Goto("review_phase") /\ UNCHANGED loop)
        BY <1>6, <3>2 DEF ResolvePhase
      <4>2. pc = "tasks" /\ PhaseGoes(at, "InProgress", "Resolved", 0) /\ pc' = "review_phase" /\ UNCHANGED loop
        BY <1>6, <3>2, <4>1 DEF ResolvePhase, SetPhase, Try, CanTransition, Transitions, PhaseGoes, Goto
      <4> QED
        BY <3>1, <4>2 DEF PhaseGoes, loop
    <3>3. CASE ~(TasksDone /\ phase[at] = "InProgress")
      BY <1>6, <3>1, <3>3 DEF ResolvePhase, Goto, loop, rows
    <3> QED
      BY <3>2, <3>3
  <2>2. at \in Phases /\ phase[at] = "InProgress"
    BY <1>a, <2>1 DEF IInv, Station, Looping
  <2>3. \A t \in Tasks(at) : task[at][t] = "Resolved"
    BY <2>1
  <2>4. PhaseGoes(at, "InProgress", "Resolved", 0) => phase'[at] = "Resolved"
    BY <2>2, PhaseFrame DEF Statuses
  <2>5. shape[at] \in Nat
    BY <2>2, PlanJobAssumption DEF IInv, TypeOK, Phases
  <2>6. phase'[at] = "Resolved" \/ shape[at] = 0
    BY <2>1, <2>2, <2>3, <2>4, <2>5 DEF TasksDone
  <2> QED
    BY <2>1, <2>3, <2>6 DEF Tasks
<1>7. CASE ~Stopped /\ BeginTask
  <2>1. PICK t \in Tasks(at) : TaskGoes(at, t, "Approved", "InProgress")
    BY <1>7, TaskSteps
  <2>2. pc = "tasks" /\ pc' = "work" /\ at' = at
    BY <1>7, TaskSteps
  <2>3. /\ task'[at][t] = "InProgress" /\ Tasks(at)' = Tasks(at)
        /\ \A u \in Tasks(at) : u # t => task'[at][u] = task[at][u]
    BY <1>a, <2>1, <2>2, TaskFrame DEF Statuses, Looping, Tasks
  <2>4. \A u \in Tasks(at) \ {t} : task'[at][u] \in {"Approved", "Resolved"}
    BY <2>2, <2>3
  <2> QED
    BY <2>2, <2>3, <2>4
<1>8. CASE ~Stopped /\ FinishTask
  <2>1. PICK t \in Tasks(at) : TaskGoes(at, t, "InProgress", "Resolved")
    BY <1>8, TaskSteps
  <2>2. pc = "work" /\ pc' = "tasks" /\ at' = at
    BY <1>8, TaskSteps DEF loop
  <2>3. /\ task[at][t] = "InProgress" /\ task'[at][t] = "Resolved" /\ Tasks(at)' = Tasks(at)
        /\ \A u \in Tasks(at) : u # t => task'[at][u] = task[at][u]
    BY <1>a, <2>1, <2>2, TaskFrame DEF Statuses, Looping, Tasks
  <2>4. \A u \in Tasks(at) \ {t} : task[at][u] \in {"Approved", "Resolved"}
    BY <2>2, <2>3
  <2> QED
    BY <2>2, <2>3, <2>4
<1>9. CASE Enqueue \/ Claim \/ Draft \/ DeclinePlan \/ EscalatePhase \/ CriteriaUnmet \/ EnqueueCoder
           \/ Park \/ Finish \/ Deliver \/ DeliverRaise \/ ExecuteRaise \/ Kill \/ UserReplies
           \/ UNCHANGED vars
  <2>1. pc' \notin {"activate", "tasks", "work", "review_phase"} \/ UNCHANGED <<pc, at, rows>>
    BY <1>9 DEF Enqueue, Claim, Draft, DeclinePlan, EscalatePhase, CriteriaUnmet, EnqueueCoder, Park,
                Finish, Deliver, DeliverRaise, ExecuteRaise, Kill, UserReplies, GiveUp, Raise, Goto,
                vars, loop
  <2> QED
    BY <1>0, <1>2, <2>1
<1>10. CASE ~Stopped /\ (ApprovePlan \/ Replan \/ ResolvePlan \/ ApproveNext \/ SignOffPhase \/ CloseTask)
  <2>1. pc' \notin {"activate", "tasks", "work", "review_phase"}
    BY <1>10, PlanSteps, PhaseSteps, TaskSteps
  <2> QED
    BY <1>0, <2>1
<1> QED
  BY <1>1, <1>3, <1>4, <1>5, <1>6, <1>7, <1>8, <1>9, <1>10
  DEF Next, Run, PlanReview, RunPhase, ReviewPhase, EndOfRun

\* No run of a plan whose phases all have tasks is refused by the lifecycle,
\* whatever is declined, worked on again, killed and retried.
THEOREM RunsAreLegal == Spec => []LegalWhenPhasesHaveTasks
<1>1. Init => Ready /\ RefusedOnce
  BY DEF Init, Ready, RefusedOnce
<1>2. RefusedOnce => LegalWhenPhasesHaveTasks
  BY DEF RefusedOnce, LegalWhenPhasesHaveTasks
<1> QED
  BY <1>1, <1>2, ReadyStep, RefusedStep, Invariance, PTL DEF Spec

-----------------------------------------------------------------------------
(* The caps across declines, kills and retries.                            *)

LEMMA CapFacts ==
  ASSUME NEW k \in Nat
  PROVE  Cap(k) \in Nat /\ Cap(k + 1) = Cap(k) + MaxReplans + 1
BY PlanJobAssumption DEF Cap

LEMMA CapGrows ==
  ASSUME NEW k \in Nat, NEW m \in Nat, k <= m
  PROVE  Cap(k) <= Cap(m)
<1>1. PICK d \in Nat : m = k + d
  <2>1. m - k \in Nat /\ m = k + (m - k)
    OBVIOUS
  <2> QED
    BY <2>1
<1>2. d * (MaxReplans + 1) \in Nat
  BY PlanJobAssumption
<1>3. (k + d) * (MaxReplans + 1) = k * (MaxReplans + 1) + d * (MaxReplans + 1)
  BY PlanJobAssumption
<1>4. k * (MaxReplans + 1) \in Nat
  BY PlanJobAssumption
<1> QED
  BY <1>1, <1>2, <1>3, <1>4 DEF Cap

\* Steps that neither draft nor decline nor begin a run.
Uncounted ==
  /\ UNCHANGED <<attempts, past, replans, declines, shape>>
  /\ plan' = "none" <=> plan = "none"
  /\ pc' \in {"draft", "review_plan"} => pc' = pc

LEMMA UncountedKeeps == Counts /\ Uncounted => Counts'
BY DEF Counts, Uncounted, Drafts, Phases

LEMMA SameDeclines ==
  ASSUME TypeOK, NEW h \in Phases, declines' = [declines EXCEPT ![h] = @ + 0]
  PROVE  declines' = declines
BY DEF TypeOK

LEMMA CountsStep == IInv /\ Counts /\ [Next]_vars => Counts'
<1> SUFFICES ASSUME IInv, Counts, [Next]_vars PROVE Counts'
  OBVIOUS
<1>t. /\ attempts \in Nat /\ replans \in 0 .. MaxReplans /\ Len(past) \in Nat /\ Drafts \in Nat
      /\ MaxReplans \in Nat /\ MaxRetries \in Nat /\ past \in Seq(Statuses)
  BY PlanJobAssumption DEF IInv, TypeOK, Drafts
<1>l. pc \in Looping => at \in Phases
  BY AroundIsLoop DEF Around
<1>1. CASE Stopped
  BY <1>1, UncountedKeeps DEF Stopped, Uncounted, loop, rows
<1>2. CASE Enqueue \/ DeclinePlan \/ EscalatePhase \/ NextPhase \/ CriteriaUnmet \/ EnqueueCoder \/ Park
           \/ Finish \/ Deliver \/ DeliverRaise \/ ExecuteRaise \/ Kill \/ UserReplies \/ UNCHANGED vars
  <2>1. Uncounted
    BY <1>2 DEF Enqueue, DeclinePlan, EscalatePhase, NextPhase, CriteriaUnmet, EnqueueCoder, Park, Finish,
                Deliver, DeliverRaise, ExecuteRaise, Kill, UserReplies, GiveUp, Raise, Goto, Uncounted,
                vars, queue, loop, rows
  <2> QED
    BY <2>1, UncountedKeeps
<1>3. CASE Claim
  <2>1. /\ attempts' = attempts + 1 /\ replans' = 0 /\ pc' = "draft"
        /\ UNCHANGED <<past, plan, declines, shape>> /\ attempts <= MaxRetries
    BY <1>3 DEF Claim, Goto, rows, IInv, Queue
  <2>2. Drafts' = Drafts /\ Phases' = Phases
    BY <2>1 DEF Drafts, Phases
  <2>3. Cap(attempts)' = Cap(attempts + 1) /\ Cap(attempts - 1)' = Cap(attempts)
    BY <1>t, <2>1 DEF Cap
  <2>4. Cap(attempts) \in Nat /\ Cap(attempts + 1) = Cap(attempts) + MaxReplans + 1
    BY <1>t, CapFacts
  <2> QED
    BY <1>t, <2>1, <2>2, <2>3, <2>4 DEF Counts
<1>4. CASE Draft
  <2>1. /\ pc = "draft" /\ pc' = "review_plan" /\ attempts > 0 /\ plan' = "New"
        /\ past' = (IF plan = "none" THEN past ELSE Append(past, plan))
        /\ declines' = [h \in 1 .. Len(shape') |-> 0]
        /\ UNCHANGED <<attempts, replans>>
        /\ Drafts <= Cap(attempts - 1) + replans
    BY <1>4 DEF Draft, Goto, Counts, queue, loop
  <2>2. Drafts' = Drafts + 1
    <3>1. CASE plan = "none"
      BY <2>1, <3>1 DEF Drafts, Counts
    <3>2. CASE plan # "none"
      BY <1>t, <2>1, <3>2 DEF Drafts, IInv, TypeOK
    <3> QED
      BY <3>1, <3>2
  <2>3. Cap(attempts - 1) \in Nat /\ Cap(attempts) = Cap(attempts - 1) + MaxReplans + 1
    <3>1. attempts - 1 \in Nat /\ (attempts - 1) + 1 = attempts
      BY <1>t, <2>1
    <3> QED
      BY <3>1, CapFacts
  <2>4. Cap(attempts)' = Cap(attempts) /\ Cap(attempts - 1)' = Cap(attempts - 1)
    BY <2>1 DEF Cap
  <2>5. \A h \in Phases' : declines'[h] <= MaxDeclines
    BY <2>1, Bounds DEF Phases
  <2> QED
    BY <1>t, <2>1, <2>2, <2>3, <2>4, <2>5 DEF Counts
<1>5. CASE ~Stopped /\ Replan
  <2>1. /\ pc = "review_plan" /\ plan = "New" /\ plan' = "Abandoned" /\ pc' = "draft"
        /\ replans' = replans + 1 /\ UNCHANGED <<attempts, past, declines, shape>>
    BY <1>5, PlanSteps DEF PlanGoes, queue, Replan
  <2>2. Drafts' = Drafts /\ Cap(attempts)' = Cap(attempts) /\ Cap(attempts - 1)' = Cap(attempts - 1)
        /\ Phases' = Phases
    BY <2>1 DEF Drafts, Cap, Phases
  <2>3. attempts > 0 /\ Drafts <= Cap(attempts - 1) + replans + 1
    BY <2>1 DEF Counts
  <2>4. attempts - 1 \in Nat /\ Cap(attempts - 1) \in Nat
    <3>1. attempts - 1 \in Nat
      BY <1>t, <2>3
    <3> QED
      BY <3>1, CapFacts
  <2> QED
    BY <1>t, <2>1, <2>2, <2>3, <2>4 DEF Counts
<1>6. CASE ~Stopped /\ (ApprovePlan \/ StartPlan \/ ResolvePlan)
  <2>1. Uncounted
    BY <1>6, PlanSteps DEF PlanGoes, queue, loop, Uncounted
  <2> QED
    BY <2>1, UncountedKeeps
<1>7. CASE ~Stopped /\ (ActivatePhase \/ EnterPhase \/ ResolvePhase \/ SignOffPhase)
  <2>1. at \in Phases
    BY <1>7, <1>l, PhaseSteps DEF Looping
  <2>2. \/ \E frm, to \in Statuses : PhaseGoes(at, frm, to, 0)
        \/ UNCHANGED rows /\ UNCHANGED queue
    BY <1>7, PhaseSteps DEF Statuses
  <2>3. UNCHANGED <<attempts, past, plan, declines, shape>>
    BY <2>1, <2>2, SameDeclines DEF PhaseGoes, rows, queue, IInv
  <2>4. replans' = replans /\ pc' \notin {"draft", "review_plan"}
    BY <1>7, PhaseSteps DEF loop
  <2> QED
    BY <2>3, <2>4, UncountedKeeps DEF Uncounted
<1>8. CASE ~Stopped /\ DeclinePhase
  <2>1. /\ at \in Phases /\ PhaseGoes(at, "Resolved", "Active", 1) /\ declines[at] < MaxDeclines
        /\ pc' = "activate"
    BY <1>8, <1>l, PhaseSteps DEF Looping
  <2>2. UNCHANGED <<attempts, past, plan, shape>> /\ declines' = [declines EXCEPT ![at] = @ + 1]
    BY <2>1 DEF PhaseGoes, queue
  <2>3. \A h \in Phases : declines'[h] <= MaxDeclines
    BY <2>1, <2>2, Bounds DEF Counts, IInv, TypeOK
  <2>4. Drafts' = Drafts /\ Cap(attempts)' = Cap(attempts) /\ Phases' = Phases
    BY <2>2 DEF Drafts, Cap, Phases
  <2> QED
    BY <2>1, <2>2, <2>3, <2>4 DEF Counts
<1>9. CASE ~Stopped /\ (BeginTask \/ FinishTask \/ CloseTask)
  <2>1. Uncounted
    BY <1>9, TaskSteps DEF TaskGoes, queue, loop, Uncounted
  <2> QED
    BY <2>1, UncountedKeeps
<1>10. CASE ~Stopped /\ ApproveNext
  <2>1. UNCHANGED <<pc, loop>>
    BY <1>10, TaskSteps
  <2>2. PICK h \in Phases : \/ PhaseGoes(h, "New", "Approved", 0)
                            \/ \E t \in Tasks(h) : TaskGoes(h, t, "New", "Approved")
    BY <1>10, TaskSteps
  <2>3. UNCHANGED <<attempts, past, plan, declines, shape>>
    BY <2>2, SameDeclines DEF PhaseGoes, TaskGoes, queue, IInv
  <2> QED
    BY <2>1, <2>3, UncountedKeeps DEF Uncounted, loop
<1> QED
  BY <1>1, <1>2, <1>3, <1>4, <1>5, <1>6, <1>7, <1>8, <1>9, <1>10
  DEF Next, Run, PlanReview, RunPhase, ReviewPhase, EndOfRun

\* bump_decline and the auto-replan of execute_planned_job count across kills
\* and retries: no phase is declined more than MaxDeclines times, and the job is
\* drafted at most MaxReplans + 1 times in each of its at most MaxRetries + 1
\* runs.
THEOREM CapsHold == Spec => []Bounded
<1>1. Init => Counts
  BY PlanJobAssumption, SMT DEF Init, Counts, Drafts, Cap, Phases
<1>2. IInv /\ Counts => Bounded
  <2> SUFFICES ASSUME IInv, Counts PROVE Len(past) < (MaxRetries + 1) * (MaxReplans + 1)
    BY DEF Bounded, Counts
  <2>1. /\ attempts \in Nat /\ MaxRetries + 1 \in Nat /\ attempts <= MaxRetries + 1
        /\ Len(past) \in Nat
    BY PlanJobAssumption DEF IInv, TypeOK, Counts
  <2>2. Cap(attempts) <= Cap(MaxRetries + 1) /\ Cap(attempts) \in Nat /\ Cap(MaxRetries + 1) \in Nat
    BY <2>1, CapGrows, CapFacts
  <2>3. CASE plan = "none"
    <3>1. Len(past) = 0
      BY <2>3 DEF Counts
    <3>2. Cap(MaxRetries) \in Nat /\ Cap(MaxRetries + 1) = Cap(MaxRetries) + MaxReplans + 1
      BY PlanJobAssumption, CapFacts
    <3> QED
      BY <3>1, <3>2, PlanJobAssumption DEF Cap
  <2>4. CASE plan # "none"
    <3>1. Len(past) + 1 <= Cap(attempts)
      BY <2>4 DEF Counts, Drafts
    <3>2. Len(past) < Cap(MaxRetries + 1)
      BY <2>1, <2>2, <3>1
    <3> QED
      BY <3>2 DEF Cap
  <2> QED
    BY <2>3, <2>4
<1> QED
  BY <1>1, <1>2, CountsStep, Invariance, PTL DEF Spec
=============================================================================
