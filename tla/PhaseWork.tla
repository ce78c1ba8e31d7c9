----------------------------- MODULE PhaseWork -----------------------------
(***************************************************************************)
(* How a planned job's tasks are worked on: run_phase and run_task of      *)
(* roles/senior.py over the skill runtime (skills/runtime.py), its gates   *)
(* (policy.py, toolpolicy.py) and the process log (repos/steps.py).  The   *)
(* model proposes actions, code checks, runs and records them.  The plan   *)
(* around the phase is PlanJob, the row of the queue JobQueue; both are    *)
(* seen here from inside one run of one job.                               *)
(***************************************************************************)
EXTENDS Integers, FiniteSets, SequencesExt

CONSTANTS Skills,      \* the registry of the worker's process
          Research,    \* EXTERNAL_RESEARCH_SKILLS, of these
          Needs,       \* the permissions a skill declares
          Effect,      \* its effect class
          Granted,     \* DEFAULT_PERMISSIONS
          Proposals,   \* what the model may propose: a skill, and parameters
          NTasks,      \* the tasks of the phase
          MaxSteps,    \* max_task_steps
          MaxRetries,  \* max_job_retries
          MaxFaults    \* bound: failures between two commits

ASSUME WorkAssumption ==
  /\ Research \subseteq Skills
  /\ DOMAIN Needs = Skills
  /\ Effect \in [Skills -> {"read", "local_write", "external"}]
  /\ \A a \in Proposals : DOMAIN a = {"skill", "params"}
  /\ NTasks \in Nat \ {0} /\ MaxSteps \in Nat \ {0}
  /\ MaxRetries \in Nat /\ MaxFaults \in Nat

VARIABLES row,       \* job_queue.status of the job
          attempts,  \* job_queue.attempts
          domain,    \* the domain the Analyzer has given the request
          needed,    \* depends_on of each task of the current plan
          status,    \* plan_tasks.status of the current plan
          work,      \* where the worker is: the locals of run_task
          deeds,     \* history: how often a skill has taken effect
          log,       \* the rows of steps
          faults     \* failures and kills so far

vars == <<row, attempts, domain, needed, status, work, deeds, log, faults>>

Tasks == 1 .. NTasks
Runs  == 1 .. MaxRetries + 1
Domains == {"coding", "research", "general"}

\* Each run drafts a plan of its own, with rows of its own in plan_tasks.
Keys == Runs \X Tasks \X Proposals
Key(a) == <<attempts, work.task, a>>

\* told: what progress says of each action proposed (seen_actions).
Outcomes == {"ok", "failed", "pending_confirmation"}
NoneTold == [a \in {} |-> "ok"]
Told(a, what) == [b \in DOMAIN work.told \cup {a} |-> IF b = a THEN what ELSE work.told[b]]

Idle == [at |-> "idle", task |-> 1, step |-> 0, told |-> NoneTold, doing |-> {}, offered |-> {}]

Stations == {"idle", "phase", "propose", "run", "record"}

TypeOK ==
  /\ row \in {"pending", "running", "done", "failed"}
  /\ attempts \in 0 .. MaxRetries + 1
  /\ domain \in Domains
  /\ needed \in [Tasks -> SUBSET Tasks]
  /\ status \in [Tasks -> {"Approved", "InProgress", "Resolved"}]
  /\ work \in [at : Stations, task : Tasks, step : 0 .. MaxSteps,
               told : UNION {[S -> Outcomes] : S \in SUBSET Proposals},
               doing : SUBSET Proposals, offered : SUBSET Skills]
  /\ deeds \in [Keys -> Nat] /\ log \in [Keys -> Nat]
  /\ faults \in 0 .. MaxFaults

Init ==
  /\ row = "pending" /\ attempts = 0 /\ domain \in Domains
  /\ needed = [t \in Tasks |-> {}] /\ status = [t \in Tasks |-> "Approved"]
  /\ work = Idle
  /\ deeds = [k \in Keys |-> 0] /\ log = [k \in Keys |-> 0]
  /\ faults = 0

At(s) == work.at = s
Goto(s) == work' = [work EXCEPT !.at = s]
Fault == faults < MaxFaults /\ faults' = faults + 1

---------------------------------------------------------------------------
(* The gates.                                                              *)

\* toolpolicy.allowed_skills: what a task of a domain is offered.
AllowedSkills(d) == IF d = "coding" THEN Skills \ Research ELSE Skills

\* card_for_job makes a card without a domain, _run_one_phase passes none on:
\* the default of run_phase is taken.
PhaseDomain == "general"

\* The catalog is only shown: execute looks a proposal up in the registry.
Known(a) == a.skill \in Skills

\* The parameters do not fit the model of the skill.
Malformed == "malformed"

Permitted(a) == Needs[a.skill] \subseteq Granted

\* The order of execute: registry, parameters, permissions.
Passes(a) == Known(a) /\ a.params # Malformed /\ Permitted(a)

NeedsConfirmation(a) == Effect[a.skill] = "external"

---------------------------------------------------------------------------
(* The phase.                                                              *)

\* create_plan_from_spec lets a task depend on earlier tasks of its phase.
Drafts == {d \in [Tasks -> SUBSET Tasks] : \A t \in Tasks : \A s \in d[t] : s < t}

\* claim_next; the plan is drafted and approved, and its phase entered.
Claim ==
  /\ row = "pending"
  /\ row' = "running" /\ attempts' = attempts + 1
  /\ needed' \in Drafts
  /\ status' = [t \in Tasks |-> "Approved"]
  /\ work' = [Idle EXCEPT !.at = "phase"]
  /\ UNCHANGED <<domain, deeds, log, faults>>

\* _topological_order goes through the tasks by id, over and over, and takes
\* those whose dependencies it has; dependencies on earlier tasks have no cycle.
Pass(order) ==
  FoldLeft(LAMBDA done, t : IF t \in Range(done) \/ ~(needed[t] \subseteq Range(done))
                            THEN done ELSE Append(done, t),
           order, [t \in Tasks |-> t])

TopologicalOrder ==
  LET after[n \in 0 .. NTasks] == IF n = 0 THEN <<>> ELSE Pass(after[n - 1])
  IN  after[NTasks]

\* The tasks that run_phase has not come to yet: it skips what is not Approved.
Left == SelectSeq(TopologicalOrder, LAMBDA t : status[t] = "Approved")

BeginTask(t) ==
  /\ At("phase") /\ Left # <<>>
  /\ t = Head(Left) /\ status[t] = "Approved"
  /\ status' = [status EXCEPT ![t] = "InProgress"]
  /\ work' = [Idle EXCEPT !.at = "propose", !.task = t,
                          !.offered = AllowedSkills(PhaseDomain)]
  /\ UNCHANGED <<row, attempts, domain, needed, deeds, log, faults>>

\* The phase is through; the rest of the run is not seen here.
EndPhase ==
  /\ At("phase") /\ Left = <<>>
  /\ row' = "done"
  /\ work' = Idle
  /\ UNCHANGED <<attempts, domain, needed, status, deeds, log, faults>>

---------------------------------------------------------------------------
(* A task.                                                                 *)

Again == At("propose") /\ work.step < MaxSteps

\* Wrong: an action that was proposed before is run again.
FreshOrNot(a) == Again

\* A proposal not seen before; one seen before ends the loop.
Fresh(a) == Again /\ a \notin DOMAIN work.told

\* One turn of the loop ends: the action and its outcome go into progress.
Tell(a, what) ==
  work' = [work EXCEPT !.at = "propose", !.step = @ + 1, !.doing = {}, !.told = Told(a, what)]

\* UnknownSkill, InvalidParams, PermissionDenied: nothing has run.
Reject(a) ==
  /\ Fresh(a)
  /\ ~Passes(a)
  /\ Tell(a, "failed")
  /\ UNCHANGED <<row, attempts, domain, needed, status, deeds, log, faults>>

\* An external effect waits for a confirmation that run_task asks of no one.
Defer(a) ==
  /\ Fresh(a) /\ Passes(a) /\ NeedsConfirmation(a)
  /\ Tell(a, "pending_confirmation")
  /\ UNCHANGED <<row, attempts, domain, needed, status, deeds, log, faults>>

Admit(a) ==
  /\ Fresh(a) /\ Passes(a) /\ ~NeedsConfirmation(a)
  /\ work' = [work EXCEPT !.at = "run", !.doing = {a}]
  /\ UNCHANGED <<row, attempts, domain, needed, status, deeds, log, faults>>

Happened(a) == deeds' = [deeds EXCEPT ![Key(a)] = @ + 1]

\* The skill returns; what it wrote is committed.
Invoke(a) ==
  /\ At("run") /\ a \in work.doing
  /\ Happened(a)
  /\ Goto("record")
  /\ UNCHANGED <<row, attempts, domain, needed, status, log, faults>>

\* Wrong: a skill that raised is neither counted nor remembered.
InvokeRaisesForFree(a) ==
  /\ At("run") /\ a \in work.doing
  /\ work' = [work EXCEPT !.at = "propose", !.doing = {}]
  /\ UNCHANGED <<row, attempts, domain, needed, status, deeds, log, faults>>

\* The skill raises before it has changed anything.
InvokeRaises(a) ==
  /\ At("run") /\ a \in work.doing
  /\ Tell(a, "failed")
  /\ UNCHANGED <<row, attempts, domain, needed, status, deeds, log, faults>>

\* It raises in between: memory.write has its row and not all of its tags.
InvokeHalf(a) ==
  /\ At("run") /\ a \in work.doing
  /\ Fault
  /\ Happened(a)
  /\ Tell(a, "failed")
  /\ UNCHANGED <<row, attempts, domain, needed, status, log>>

\* Wrong: what only reads is not worth a row.
RecordWrites(a) ==
  /\ At("record") /\ a \in work.doing
  /\ log' = [log EXCEPT ![Key(a)] = IF Effect[a.skill] = "read" THEN @ ELSE @ + 1]
  /\ Tell(a, "ok")
  /\ UNCHANGED <<row, attempts, domain, needed, status, deeds, faults>>

\* record_step, in a transaction after the one of the skill.
Record(a) ==
  /\ At("record") /\ a \in work.doing
  /\ log' = [log EXCEPT ![Key(a)] = @ + 1]
  /\ Tell(a, "ok")
  /\ UNCHANGED <<row, attempts, domain, needed, status, deeds, faults>>

\* Wrong: the log is best effort, and the outcome that of the skill.
RecordBestEffort(a) ==
  /\ At("record") /\ a \in work.doing
  /\ Fault
  /\ Tell(a, "ok")
  /\ UNCHANGED <<row, attempts, domain, needed, status, deeds, log>>

\* It raises, inside the try of run_task: the model is told the skill failed.
RecordRaises(a) ==
  /\ At("record") /\ a \in work.doing
  /\ Fault
  /\ Tell(a, "failed")
  /\ UNCHANGED <<row, attempts, domain, needed, status, deeds, log>>

\* The model says done, or repeats itself, or the steps are used up.
Resolve ==
  /\ At("propose")
  /\ status' = [status EXCEPT ![work.task] = "Resolved"]
  /\ work' = [Idle EXCEPT !.at = "phase"]
  /\ UNCHANGED <<row, attempts, domain, needed, deeds, log, faults>>

---------------------------------------------------------------------------
\* next_action escalates or a status cannot be set: outside the try of the
\* loop, so the run of the job ends, with its tasks as they are.
Raise ==
  /\ work.at \in {"phase", "propose"}
  /\ \/ attempts <= MaxRetries /\ row' = "pending"
     \/ row' = "failed"
  /\ work' = Idle
  /\ UNCHANGED <<attempts, domain, needed, status, deeds, log, faults>>

\* The worker dies; the row stays running.
Kill ==
  /\ ~At("idle")
  /\ Fault
  /\ work' = Idle
  /\ UNCHANGED <<row, attempts, domain, needed, status, deeds, log>>

Attempt(a) ==
  \/ Reject(a) \/ Defer(a) \/ Admit(a)
  \/ Invoke(a) \/ InvokeRaises(a) \/ InvokeHalf(a)
  \/ Record(a) \/ RecordRaises(a)

Run == \/ Claim \/ EndPhase \/ Resolve \/ Raise
       \/ \E t \in Tasks : BeginTask(t)
       \/ \E a \in Proposals : Attempt(a)

Next == Run \/ Kill

Spec == Init /\ [][Next]_vars

\* The worker goes on: the model and the skills return or raise.
FairSpec == Spec /\ WF_vars(Run)

---------------------------------------------------------------------------
(* Properties.                                                             *)

\* What run_task tells the model is what the process log says: an action of the
\* task in hand is reported ok exactly if it has its row in steps, a row stands
\* for something that took effect once, and what waits for a confirmation has
\* not happened.  A skill that failed may have happened; then a fault did.
ToldIsOnRecord ==
  At("propose") =>
    \A a \in Proposals :
      /\ log[Key(a)] = 1 <=> a \in DOMAIN work.told /\ work.told[a] = "ok"
      /\ a \in DOMAIN work.told /\ work.told[a] = "pending_confirmation" => deeds[Key(a)] = 0
      /\ deeds[Key(a)] > 0 => a \in DOMAIN work.told

\* "One row per skill invocation" (repos/steps.py): over all runs of the job,
\* no row without the invocation, and each invocation without a row is down to
\* a failure or kill between its commit and that of the row.
WorkIsAudited ==
  /\ \A k \in Keys : log[k] <= deeds[k]
  /\ Cardinality({k \in Keys : log[k] < deeds[k]}) <= faults + (IF At("record") THEN 1 ELSE 0)

\* However the model repeats itself and whatever fails, a run of a task invokes
\* an action at most once, and at most max_task_steps actions.
OnceEach ==
  \A n \in Runs, t \in Tasks :
    /\ \A a \in Proposals : deeds[<<n, t, a>>] <= 1
    /\ Cardinality({a \in Proposals : deeds[<<n, t, a>>] > 0}) <= MaxSteps

\* "A task waits until all the tasks it depends_on are Resolved" (senior.py),
\* also when the run of one of them ends in an exception.
DependenciesFirst ==
  \A t \in Tasks : status[t] # "Approved" =>
    \A s \in needed[t] : status[s] = "Resolved"

\* A job that is picked up is done, failed or waits for its retry in the end,
\* whatever the model proposes: unless its worker is killed.
EveryPhaseEnds == row = "running" ~> row # "running" \/ At("idle")

\* A coding task is offered no tool for external research (senior.py,
\* toolpolicy.py).
CodingStaysLocal == domain = "coding" => work.offered \cap Research = {}
=============================================================================
