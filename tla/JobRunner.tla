----------------------------- MODULE JobRunner -----------------------------
(***************************************************************************)
(* The Boss's job runners: JobScheduler (roles/scheduler.py) admits at     *)
(* most MaxConcurrent asyncio tasks, JobControl and run_job                *)
(* (roles/jobcontrol.py) pause, resume and abandon them.  What a coroutine *)
(* does between two awaits is one step, as the event loop runs it, except  *)
(* abandon_tree, whose commits a kill may separate: while it runs, the     *)
(* event loop runs nothing else.  The plan of a job is the list of its     *)
(* rows bottom up: the task of a phase, the phase, and last the plan.      *)
(***************************************************************************)
EXTENDS Naturals, Sequences, FiniteSets, SequencesExt

CONSTANTS Jobs,           \* job ids
          MaxConcurrent,  \* policies.max_concurrent_jobs
          Phases,         \* phases in each plan
          NoJob

ASSUME RunnerAssumption == /\ NoJob \notin Jobs
                           /\ MaxConcurrent \in Nat \ {0}
                           /\ Phases \in Nat \ {0}

VARIABLES stage,     \* where the task of each job is suspended
          at,        \* the phase it is at
          cancel,    \* its task was cancelled and has not heard of it yet
          free,      \* the value of the semaphore
          line,      \* the tasks that wait for it, oldest first
          tasks,     \* keys of _tasks, in the order of submit
          queued,    \* JobScheduler.queued
          running,   \* JobScheduler.running
          signal,    \* each JobControl's event, "none" before it is made
          paused,    \* jobs.paused
          rows,      \* the plan of each job, bottom up
          handling   \* the job whose abandon_tree the event loop is running

slots   == <<free, line>>
lists   == <<tasks, queued, running>>
control == <<signal, paused>>
vars    == <<stage, at, cancel, slots, lists, control, rows, handling>>

Stages == {"absent", "fresh", "waiting", "granted", "parked", "woken", "phase",
           "abandoning", "done"}

\* Tasks that have the semaphore, or are about to wake up with it.
Holding == {"granted", "parked", "woken", "phase", "abandoning"}

InRunner == {"parked", "woken", "phase"}

Plan == 2 * Phases + 1

TypeOK == /\ stage \in [Jobs -> Stages]
          /\ at \in [Jobs -> 0 .. Phases]
          /\ cancel \in [Jobs -> BOOLEAN]
          /\ free \in 0 .. MaxConcurrent
          /\ line \in Seq(Jobs)
          /\ tasks \in Seq(Jobs) /\ IsInjective(tasks)
          /\ queued \in Seq(Jobs) /\ IsInjective(queued)
          /\ running \subseteq Jobs
          /\ signal \in [Jobs -> {"none", "set", "clear"}]
          /\ paused \in [Jobs -> BOOLEAN]
          /\ rows \in [Jobs -> [1 .. Plan -> {"open", "Closed", "Abandoned"}]]
          /\ handling \in Jobs \cup {NoJob}

Init == /\ stage = [j \in Jobs |-> "absent"]
        /\ at = [j \in Jobs |-> 0]
        /\ cancel = [j \in Jobs |-> FALSE]
        /\ free = MaxConcurrent
        /\ line = <<>>
        /\ tasks = <<>>
        /\ queued = <<>>
        /\ running = {}
        /\ signal = [j \in Jobs |-> "none"]
        /\ handling = NoJob
        /\ paused = [j \in Jobs |-> FALSE]
        /\ rows = [j \in Jobs |-> [i \in 1 .. Plan |-> "open"]]

-----------------------------------------------------------------------------
(* asyncio.Semaphore.                                                      *)

Locked == free = 0 \/ line # <<>> \/ \E j \in Jobs : stage[j] = "granted"

\* With n slots to give, the oldest waiters are woken, j is in the given stage,
Served(n) == IF n < Len(line) THEN n ELSE Len(line)

\* and the semaphore has what is left.
Wake(n, j, s) ==
  /\ stage' = [k \in Jobs |-> IF k = j THEN s
                              ELSE IF \E i \in 1 .. Served(n) : line[i] = k THEN "granted"
                              ELSE stage[k]]
  /\ line' = SubSeq(line, Served(n) + 1, Len(line))
  /\ free' = n - Served(n)

\* release: j is done.
Release(j) == Wake(free + 1, j, "done")

-----------------------------------------------------------------------------
(* The owner's side: JobControl, submit and dispose.                       *)

\* JobControl(conn, job_id): the event starts set, whatever jobs.paused says.
NewControl(j) == /\ signal[j] = "none"
                 /\ signal' = [signal EXCEPT ![j] = "set"]
                 /\ UNCHANGED <<stage, at, cancel, slots, lists, paused, rows>>

Pause(j) == /\ signal[j] # "none"
            /\ paused' = [paused EXCEPT ![j] = TRUE]
            /\ signal' = [signal EXCEPT ![j] = "clear"]
            /\ UNCHANGED <<stage, at, cancel, slots, lists, rows>>

\* resume that only clears the durable flag.
ResumeSilently(j) == /\ signal[j] # "none"
                     /\ paused' = [paused EXCEPT ![j] = FALSE]
                     /\ signal' = [signal EXCEPT ![j] = "set"]
                     /\ UNCHANGED <<stage, at, cancel, slots, lists, rows>>

\* Event.set wakes the task that waits for it.
Resume(j) == /\ signal[j] # "none"
             /\ paused' = [paused EXCEPT ![j] = FALSE]
             /\ signal' = [signal EXCEPT ![j] = "set"]
             /\ stage' = [stage EXCEPT ![j] = IF @ = "parked" /\ ~cancel[j] THEN "woken" ELSE @]
             /\ UNCHANGED <<at, cancel, slots, lists, rows>>

\* A job is submitted once: _tasks forgets none.
Submit(j) == /\ signal[j] # "none"
             /\ ~Contains(tasks, j)
             /\ tasks' = Append(tasks, j)
             /\ queued' = Append(queued, j)
             /\ stage' = [stage EXCEPT ![j] = "fresh"]
             /\ UNCHANGED <<at, cancel, slots, running, control, rows>>

\* Only the task is cancelled, the lists are left to its finally.
DisposeTaskOnly(j) == /\ stage[j] \notin {"absent", "done"}
                      /\ cancel' = [cancel EXCEPT ![j] = TRUE]
                      /\ line' = RemoveFirst(line, j)
                      /\ UNCHANGED <<stage, at, free, lists, control, rows>>

\* dispose: the task is cancelled, which takes it out of the semaphore's line;
\* running and queued no longer show it, although it may hold its slot yet.
Dispose(j) == /\ stage[j] \notin {"absent", "done"}
              /\ cancel' = [cancel EXCEPT ![j] = TRUE]
              /\ line' = RemoveFirst(line, j)
              /\ running' = running \ {j}
              /\ queued' = RemoveFirst(queued, j)
              /\ UNCHANGED <<stage, at, free, tasks, control, rows>>

-----------------------------------------------------------------------------
(* The task: _run_with_slot around run_job.                                *)

\* What follows the await of the slot: the runner comes to its first checkpoint.
Enter(j) == /\ queued' = RemoveFirst(queued, j)
            /\ running' = running \cup {j}
            /\ at' = [at EXCEPT ![j] = 1]
            /\ UNCHANGED <<tasks, cancel, control, rows>>

Checkpoint(j) == IF signal[j] = "set" THEN "phase" ELSE "parked"

\* The event loop starts tasks in the order they were made.
Begin(j) ==
  /\ stage[j] = "fresh" /\ ~cancel[j]
  /\ tasks[1] = j \/ \E i \in 2 .. Len(tasks) :
                        tasks[i] = j /\ \A h \in 1 .. i - 1 : stage[tasks[h]] # "fresh"
  /\ IF Locked
     THEN /\ stage' = [stage EXCEPT ![j] = "waiting"]
          /\ line' = Append(line, j)
          /\ UNCHANGED <<at, cancel, free, lists, control, rows>>
     ELSE /\ stage' = [stage EXCEPT ![j] = Checkpoint(j)]
          /\ free' = free - 1
          /\ UNCHANGED line
          /\ Enter(j)

\* A woken waiter goes on, and hands out what else is free.
Admit(j) == /\ stage[j] = "granted" /\ ~cancel[j]
            /\ Wake(free, j, Checkpoint(j))
            /\ Enter(j)

\* Event.wait returns once its future is set: the event is not looked at again.
WakeUp(j) == /\ stage[j] = "woken" /\ ~cancel[j]
             /\ stage' = [stage EXCEPT ![j] = "phase"]
             /\ UNCHANGED <<at, cancel, slots, lists, control, rows>>

\* process_phase closes the task of the phase, then the phase.
FinishTask(j) == /\ stage[j] = "phase" /\ ~cancel[j]
                 /\ rows[j][2 * at[j] - 1] = "open"
                 /\ rows' = [rows EXCEPT ![j][2 * at[j] - 1] = "Closed"]
                 /\ UNCHANGED <<stage, at, cancel, slots, lists, control>>

FinishPhase(j) ==
  /\ stage[j] = "phase" /\ ~cancel[j]
  /\ rows[j][2 * at[j] - 1] # "open"
  /\ rows' = [rows EXCEPT ![j][2 * at[j]] = IF @ = "open" THEN "Closed" ELSE @]
  /\ IF at[j] < Phases
     THEN /\ at' = [at EXCEPT ![j] = @ + 1]
          /\ stage' = [stage EXCEPT ![j] = Checkpoint(j)]
          /\ UNCHANGED <<slots, running>>
     ELSE /\ Release(j)
          /\ running' = running \ {j}
          /\ UNCHANGED at
  /\ UNCHANGED <<cancel, tasks, queued, control>>

PhaseRaises(j) == /\ stage[j] = "phase" /\ ~cancel[j]
                  /\ Release(j)
                  /\ running' = running \ {j}
                  /\ UNCHANGED <<at, cancel, tasks, queued, control, rows>>

-----------------------------------------------------------------------------
(* A cancelled task.                                                       *)

\* It never began, or waited for its slot: the runner is not entered.
CancelOutside(j) == /\ cancel[j] /\ stage[j] \in {"fresh", "waiting"}
                    /\ stage' = [stage EXCEPT ![j] = "done"]
                    /\ UNCHANGED <<at, cancel, slots, lists, control, rows>>

\* The slot it had been given is kept.
CancelGrantedLeaks(j) == /\ cancel[j] /\ stage[j] = "granted"
                         /\ stage' = [stage EXCEPT ![j] = "done"]
                         /\ UNCHANGED <<at, cancel, slots, lists, control, rows>>

\* It had been woken with a slot, which goes to the next in line.
CancelGranted(j) == /\ cancel[j] /\ stage[j] = "granted"
                    /\ Release(j)
                    /\ UNCHANGED <<at, cancel, lists, control, rows>>

\* In the runner: run_job's except clause.
CancelInRunner(j) == /\ cancel[j] /\ stage[j] \in InRunner
                     /\ stage' = [stage EXCEPT ![j] = "abandoning"]
                     /\ UNCHANGED <<at, cancel, slots, lists, control, rows>>

\* The plan first, then what belongs to it.
AbandonTopDown == /\ \E i \in 1 .. Plan :
                       /\ rows[handling][i] = "open"
                       /\ \A k \in i + 1 .. Plan : rows[handling][k] # "open"
                       /\ rows' = [rows EXCEPT ![handling][i] = "Abandoned"]
                  /\ UNCHANGED <<stage, at, cancel, slots, lists, control>>

\* abandon_tree: bottom up, the rows that are not over yet.
AbandonNext == /\ \E i \in 1 .. Plan :
                    /\ rows[handling][i] = "open"
                    /\ \A k \in 1 .. i - 1 : rows[handling][k] # "open"
                    /\ rows' = [rows EXCEPT ![handling][i] = "Abandoned"]
               /\ UNCHANGED <<stage, at, cancel, slots, lists, control>>

EndAbandon == /\ \A i \in 1 .. Plan : rows[handling][i] # "open"
              /\ Release(handling)
              /\ UNCHANGED <<at, cancel, lists, control, rows>>

\* The event loop runs nothing else until the handler is through.
Handle == \/ AbandonNext /\ UNCHANGED handling
          \/ EndAbandon /\ handling' = NoJob

-----------------------------------------------------------------------------
\* The process dies; the database stays.
Kill == /\ stage' = [j \in Jobs |-> "absent"]
        /\ at' = [j \in Jobs |-> 0]
        /\ cancel' = [j \in Jobs |-> FALSE]
        /\ free' = MaxConcurrent
        /\ line' = <<>>
        /\ tasks' = <<>>
        /\ queued' = <<>>
        /\ running' = {}
        /\ signal' = [j \in Jobs |-> "none"]
        /\ handling' = NoJob
        /\ UNCHANGED <<paused, rows>>

Step(j) == \/ Begin(j) \/ Admit(j) \/ WakeUp(j)
           \/ FinishTask(j) \/ FinishPhase(j) \/ PhaseRaises(j)
           \/ CancelOutside(j) \/ CancelGranted(j)

Interrupt(j) == CancelInRunner(j) /\ handling' = j

Ask(j) == NewControl(j) \/ Pause(j) \/ Resume(j) \/ Submit(j) \/ Dispose(j)

Idle == handling = NoJob

Loop(j) == /\ Idle
           /\ \/ Step(j) /\ UNCHANGED handling
              \/ Interrupt(j)

Next == \/ \E j \in Jobs : Loop(j)
        \/ \E j \in Jobs : Idle /\ Ask(j) /\ UNCHANGED handling
        \/ handling # NoJob /\ Handle
        \/ Kill

Spec == Init /\ [][Next]_vars

\* The event loop runs every task that is ready, and a phase ends or raises.
FairSpec == /\ Spec
            /\ \A j \in Jobs : WF_vars(Loop(j))
            /\ WF_vars(handling # NoJob /\ Handle)

-----------------------------------------------------------------------------
(* Properties.                                                             *)

\* The cap, exactly: a slot is free or held by one task, whoever was cancelled
\* on the way to it, in it or while it was being handed over; and no slot is
\* free while a job waits for one.
SlotsAccounted ==
  /\ free + Cardinality({j \in Jobs : stage[j] \in Holding}) = MaxConcurrent
  /\ line # <<>> => free = 0 \/ \E j \in Jobs : stage[j] = "granted"

\* queued and running show every job that was not disposed where it is: waiting
\* for a slot, or at work (paused included).
ListsTruthful ==
  /\ ToSet(queued) = {j \in Jobs : stage[j] \in {"fresh", "waiting", "granted"} /\ ~cancel[j]}
  /\ running = {j \in Jobs : stage[j] \in InRunner /\ ~cancel[j]}

\* Jobs come to work in the order of submit: none has started while one that
\* was submitted before it still waits.
FirstComeFirstServed ==
  \A i, k \in 1 .. Len(tasks) :
    i < k /\ stage[tasks[k]] \in InRunner => cancel[tasks[i]] \/ stage[tasks[i]] \notin {"fresh", "waiting"}

\* A job that is disposed once it has its slot is abandoned when its task ends,
\* and wherever a kill stops abandon_tree, what is abandoned has nothing open
\* below it, so the rest can still be abandoned from the rows that are open.
AbandonedBottomUp ==
  \A j \in Jobs :
    /\ \A h \in 1 .. Phases : rows[j][2 * h] = "Abandoned" => rows[j][2 * h - 1] # "open"
    /\ \/ rows[j][Plan] = "Abandoned"
       \/ cancel[j] /\ stage[j] = "done" /\ at[j] > 0
       => \A i \in 1 .. Plan : rows[j][i] # "open"

\* Once nobody is paused any more, every job that was submitted ends, disposed
\* or not: no task waits for a slot that never comes.  (The end of the process
\* ends them all.)
EveryRunnerEnds ==
  <>[](\A k \in Jobs : signal[k] # "clear") =>
    \A j \in Jobs : stage[j] # "absent" ~> stage[j] \in {"done", "absent"}
=============================================================================
