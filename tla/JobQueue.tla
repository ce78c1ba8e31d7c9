------------------------------ MODULE JobQueue ------------------------------
(***************************************************************************)
(* The job-execution queue (storage/repos/job_queue.py) and the worker     *)
(* processes that drain it (cli/jobworker.py).  One row of the job_queue   *)
(* table per job; every SQL transaction is one step, so two workers on the *)
(* same database interleave between the SELECT and the guarded UPDATE of   *)
(* claim_next, and a worker may be killed between any two of its commits.  *)
(* What running a job does to its plan is the subject of PlanJob; here an  *)
(* execution either returns a delivery text or raises.                     *)
(***************************************************************************)
EXTENDS Naturals

CONSTANTS Workers,       \* job worker processes on one database
          Jobs,          \* job ids (INTEGER PRIMARY KEY of jobs)
          MaxRetries,    \* policies.max_job_retries
          OnceWorkers,   \* the workers started with --once
          Addressable,   \* jobs _deliver has a sink and a chat_id for
          NoJob          \* the None of claim_next

ASSUME QueueAssumption == /\ Jobs \subseteq Nat
                          /\ MaxRetries \in Nat
                          /\ OnceWorkers \subseteq Workers
                          /\ Addressable \subseteq Jobs
                          /\ NoJob \notin Jobs

VARIABLES status,    \* job_queue.status, "absent" before the row exists
          attempts,  \* job_queue.attempts
          pc,        \* where each worker is in serve_jobs
          held,      \* the job id a worker has selected or claimed
          seen,      \* QueuedJob.attempts as read when the row was claimed
          told       \* how many follow-up replies each job's chat received

vars == <<status, attempts, pc, held, seen, told>>

RowStatus == {"absent", "pending", "running", "done", "failed"}
Stations  == {"poll", "selected", "executing", "delivering", "returned", "down"}

Busy(w) == pc[w] \in {"executing", "delivering"}

InHand(j) == \E w \in Workers : Busy(w) /\ held[w] = j

Pending == {j \in Jobs : status[j] = "pending"}

Oldest(j) == j \in Pending /\ \A k \in Pending : j <= k

TypeOK == /\ status \in [Jobs -> RowStatus]
          /\ attempts \in [Jobs -> Nat]
          /\ pc \in [Workers -> Stations]
          /\ held \in [Workers -> Jobs \cup {NoJob}]
          /\ seen \in [Workers -> Nat]
          /\ told \in [Jobs -> Nat]

Init == /\ status = [j \in Jobs |-> "absent"]
        /\ attempts = [j \in Jobs |-> 0]
        /\ pc = [w \in Workers |-> "poll"]
        /\ held = [w \in Workers |-> NoJob]
        /\ seen = [w \in Workers |-> 0]
        /\ told = [j \in Jobs |-> 0]

-----------------------------------------------------------------------------
(* The gateway's side.                                                     *)

\* INSERT OR REPLACE instead of INSERT OR IGNORE.
EnqueueReplacing(j) ==
  /\ status' = [status EXCEPT ![j] = "pending"]
  /\ attempts' = [attempts EXCEPT ![j] = 0]
  /\ UNCHANGED <<pc, held, seen, told>>

\* enqueue: a row that exists already is left as it is.
Enqueue(j) ==
  /\ status' = [status EXCEPT ![j] = IF @ = "absent" THEN "pending" ELSE @]
  /\ UNCHANGED <<attempts, pc, held, seen, told>>

-----------------------------------------------------------------------------
(* serve_jobs and claim_next.                                              *)

\* The worker is back at the top of its loop with nothing in hand.
Release(w) == /\ pc' = [pc EXCEPT ![w] = "poll"]
              /\ held' = [held EXCEPT ![w] = NoJob]
              /\ seen' = [seen EXCEPT ![w] = 0]

\* What serve_jobs does with a claim_next that returned None: a --once worker
\* takes it for a drained queue and returns, the others sleep and poll again.
NothingClaimed(w) ==
  /\ pc' = [pc EXCEPT ![w] = IF w \in OnceWorkers THEN "returned" ELSE "poll"]
  /\ held' = [held EXCEPT ![w] = NoJob]

\* The SELECT of claim_next found a row.
SelectPending(w) ==
  /\ pc[w] = "poll"
  /\ \E j \in Jobs : Oldest(j) /\ held' = [held EXCEPT ![w] = j]
  /\ pc' = [pc EXCEPT ![w] = "selected"]
  /\ UNCHANGED <<status, attempts, seen, told>>

\* The SELECT of claim_next found none (idling non-once workers stutter).
SelectNone(w) ==
  /\ pc[w] = "poll"
  /\ Pending = {}
  /\ w \in OnceWorkers
  /\ NothingClaimed(w)
  /\ UNCHANGED <<status, attempts, seen, told>>

\* The UPDATE without its "AND status = 'pending'".
ClaimUnguarded(w) ==
  /\ pc[w] = "selected"
  /\ status' = [status EXCEPT ![held[w]] = "running"]
  /\ attempts' = [attempts EXCEPT ![held[w]] = @ + 1]
  /\ seen' = [seen EXCEPT ![w] = attempts[held[w]] + 1]
  /\ pc' = [pc EXCEPT ![w] = "executing"]
  /\ UNCHANGED <<held, told>>

\* The guarded UPDATE changed the row, and get() read it back.
ClaimWon(w) ==
  /\ pc[w] = "selected"
  /\ status[held[w]] = "pending"
  /\ status' = [status EXCEPT ![held[w]] = "running"]
  /\ attempts' = [attempts EXCEPT ![held[w]] = @ + 1]
  /\ seen' = [seen EXCEPT ![w] = attempts[held[w]] + 1]
  /\ pc' = [pc EXCEPT ![w] = "executing"]
  /\ UNCHANGED <<held, told>>

\* rowcount = 0: another worker changed the row after our SELECT.
ClaimLost(w) ==
  /\ pc[w] = "selected"
  /\ status[held[w]] # "pending"
  /\ NothingClaimed(w)
  /\ UNCHANGED <<status, attempts, seen, told>>

-----------------------------------------------------------------------------
(* _process_one.                                                           *)

\* The except clause: requeue_pending inside the retry budget, else
\* mark_failed.  n is the attempt number the worker read when it claimed.
AfterError(retryable, n) ==
  IF retryable /\ n <= MaxRetries THEN "pending" ELSE "failed"

\* execute_planned_job raised.
ExecuteRaise(w) ==
  /\ pc[w] = "executing"
  /\ \E retryable \in BOOLEAN :
       status' = [status EXCEPT ![held[w]] = AfterError(retryable, seen[w])]
  /\ Release(w)
  /\ UNCHANGED <<attempts, told>>

\* mark_done forgotten.
ExecuteReturnUnmarked(w) ==
  /\ pc[w] = "executing"
  /\ pc' = [pc EXCEPT ![w] = "delivering"]
  /\ UNCHANGED <<status, attempts, held, seen, told>>

\* execute_planned_job returned an outcome: mark_done commits before _deliver.
ExecuteReturn(w) ==
  /\ pc[w] = "executing"
  /\ status' = [status EXCEPT ![held[w]] = "done"]
  /\ pc' = [pc EXCEPT ![w] = "delivering"]
  /\ UNCHANGED <<attempts, held, seen, told>>

\* _deliver sent the reply, or had nowhere to send it.
DeliverOk(w) ==
  /\ pc[w] = "delivering"
  /\ told' = [told EXCEPT ![held[w]] = IF held[w] \in Addressable THEN @ + 1 ELSE @]
  /\ Release(w)
  /\ UNCHANGED <<status, attempts>>

\* send raised; a timeout may come after the chat got the message.  The same
\* except clause as for the execution handles it, on a row that is done.
DeliverRaise(w) ==
  /\ pc[w] = "delivering"
  /\ held[w] \in Addressable
  /\ \E retryable, arrived \in BOOLEAN :
       /\ status' = [status EXCEPT ![held[w]] = AfterError(retryable, seen[w])]
       /\ told' = [told EXCEPT ![held[w]] = IF arrived THEN @ + 1 ELSE @]
  /\ Release(w)
  /\ UNCHANGED attempts

-----------------------------------------------------------------------------
(* The process itself.  Nothing in the repository resets a running row when *)
(* a worker starts: main() connects, migrates and enters serve_jobs.        *)

Kill(w) == /\ pc[w] \notin {"down", "returned"}
           /\ pc' = [pc EXCEPT ![w] = "down"]
           /\ held' = [held EXCEPT ![w] = NoJob]
           /\ seen' = [seen EXCEPT ![w] = 0]
           /\ UNCHANGED <<status, attempts, told>>

Start(w) == /\ pc[w] \in {"down", "returned"}
            /\ Release(w)
            /\ UNCHANGED <<status, attempts, told>>

-----------------------------------------------------------------------------
Poll(w) == SelectPending(w) \/ SelectNone(w)

Claim(w) == ClaimWon(w) \/ ClaimLost(w)

Process(w) == \/ ExecuteRaise(w) \/ ExecuteReturn(w)
              \/ DeliverOk(w)    \/ DeliverRaise(w)

Work(w) == Poll(w) \/ Claim(w) \/ Process(w)

Next == \/ \E j \in Jobs : Enqueue(j)
        \/ \E w \in Workers : Work(w) \/ Kill(w) \/ Start(w)

Spec == Init /\ [][Next]_vars

\* A worker process that is running takes its next step: the loop of
\* serve_jobs has no wait but the model, the channel and the idle sleep, each
\* of which returns or raises.
Fairness == \A w \in Workers : WF_vars(Work(w))

FairSpec == Spec /\ Fairness

\* Killed workers are started again as well.
RecoverySpec == FairSpec /\ \A w \in Workers : WF_vars(pc[w] = "down" /\ Start(w))

-----------------------------------------------------------------------------
(* Properties.                                                             *)

\* The claim of claim_next's docstring ("only one wins the row"): two workers
\* never run, or deliver, the same job at the same time.
OneRunnerPerJob ==
  \A v, w \in Workers : Busy(v) /\ Busy(w) /\ held[v] = held[w] => v = w

\* What a worker still believes about the row it claimed is what the row says,
\* although it reads it only once: the status it set, and the attempt number
\* its retry decision uses.
ClaimIsCurrent ==
  \A w \in Workers :
    /\ pc[w] = "executing"  => status[held[w]] = "running"
    /\ pc[w] = "delivering" => status[held[w]] = "done"
    /\ Busy(w) => seen[w] = attempts[held[w]]

\* max_job_retries bounds how often a job is run, across workers, transient
\* failures of the execution and of the delivery: a job still to be run has
\* budget left, so no job is ever claimed more than MaxRetries + 1 times.
RetryBudget ==
  \A j \in Jobs : /\ status[j] \in {"absent", "pending"} => attempts[j] <= MaxRetries
                  /\ attempts[j] <= MaxRetries + 1

\* As long as no worker is killed, every job that was ever enqueued comes to
\* rest done or failed, whatever raises and however often workers race, and a
\* job that is done and in nobody's hands any more was reported to its chat.
EveryJobSettles ==
  [](\A w \in Workers : pc[w] # "down") =>
    \A j \in Jobs :
      /\ status[j] = "pending" ~> [](status[j] \in {"done", "failed"})
      /\ [](status[j] = "done" /\ j \in Addressable /\ ~InHand(j) => told[j] >= 1)

\* job_queue.py's lifecycle (pending -> running -> done | failed) and its
\* "a job is never run twice": a finished job stays finished.
DoneIsFinal == [][\A j \in Jobs : status[j] = "done" => status'[j] = "done"]_vars

\* The design's recovery promise for a crashed process: work that was under way
\* is taken up again, so a job does not stay "running" for ever.
RunningJobIsTakenUpAgain ==
  \A j \in Jobs : status[j] = "running" ~> status[j] # "running"

-----------------------------------------------------------------------------
(* The queue implements JobLifecycle: a job is being worked on from the     *)
(* claim until the worker lets go of it, mark_done included.                *)

Stage(j) ==
  IF InHand(j) \/ status[j] = "running" THEN "working"
  ELSE CASE status[j] = "pending" -> "waiting"
         [] status[j] = "absent"  -> "absent"
         [] OTHER                 -> "settled"

Life == INSTANCE JobLifecycle WITH stage <- [j \in Jobs |-> Stage(j)],
                                   tries <- attempts

ImplementsLifecycle == Life!Spec
=============================================================================
