--------------------------- MODULE JobQueue_proofs ---------------------------
(***************************************************************************)
(* Proofs that JobQueue keeps its safety invariants and implements         *)
(* JobLifecycle, for any set of workers and jobs and any retry budget; and *)
(* that Intake, where the rows come from, loses no message, records each   *)
(* one and queues planned work alone, for any feed and any set of sessions.*)
(***************************************************************************)
EXTENDS JobQueue, Intake, FiniteSetTheorems, TLAPS

\* A worker that selected or claimed a row knows which one.
HandsFull == \A w \in Workers : pc[w] = "selected" \/ Busy(w) => held[w] \in Jobs

\* The typing part of the inductive invariant, which needs HandsFull.
TypeInv == TypeOK /\ HandsFull

\* The inductive invariant: no single conjunct of it is preserved alone.
\* OneRunnerPerJob needs ClaimIsCurrent (the row of a job in someone's hands is
\* not pending, so nobody else's guarded UPDATE can succeed), ClaimIsCurrent
\* needs OneRunnerPerJob (nobody else changes the row), and RetryBudget needs
\* both (the attempt number the retry decision reads is the row's own).
IInv == TypeInv /\ OneRunnerPerJob /\ ClaimIsCurrent /\ RetryBudget

-----------------------------------------------------------------------------
LEMMA TypeInit == Init => TypeInv
BY QueueAssumption DEF Init, TypeInv, TypeOK, HandsFull, Busy, RowStatus, Stations

LEMMA TypeStep == TypeInv /\ [Next]_vars => TypeInv'
<1> SUFFICES ASSUME TypeInv, [Next]_vars PROVE TypeInv'
  OBVIOUS
<1> USE QueueAssumption DEF TypeInv, TypeOK, HandsFull, Busy, RowStatus, Stations
<1>1. ASSUME NEW j \in Jobs, Enqueue(j) PROVE TypeInv'
  BY <1>1 DEF Enqueue
<1>2. ASSUME NEW w \in Workers, SelectPending(w) PROVE TypeInv'
  BY <1>2 DEF SelectPending
<1>3. ASSUME NEW w \in Workers, SelectNone(w) PROVE TypeInv'
  BY <1>3 DEF SelectNone, NothingClaimed
<1>4. ASSUME NEW w \in Workers, ClaimWon(w) PROVE TypeInv'
  <2>1. PICK j \in Jobs : j = held[w]
    BY <1>4 DEF ClaimWon
  <2>2. attempts[j] \in Nat
    BY <2>1
  <2>3. /\ status' = [status EXCEPT ![j] = "running"]
        /\ attempts' = [attempts EXCEPT ![j] = attempts[j] + 1]
        /\ seen' = [seen EXCEPT ![w] = attempts[j] + 1]
        /\ pc' = [pc EXCEPT ![w] = "executing"]
        /\ UNCHANGED <<held, told>>
    BY <1>4, <2>1 DEF ClaimWon
  <2>4. TypeOK'
    BY <2>2, <2>3
  <2>5. HandsFull'
    BY <2>1, <2>3
  <2> QED
    BY <2>4, <2>5
<1>5. ASSUME NEW w \in Workers, ClaimLost(w) PROVE TypeInv'
  BY <1>5 DEF ClaimLost, NothingClaimed
<1>6. ASSUME NEW w \in Workers, ExecuteRaise(w) PROVE TypeInv'
  BY <1>6 DEF ExecuteRaise, AfterError, Release
<1>7. ASSUME NEW w \in Workers, ExecuteReturn(w) PROVE TypeInv'
  BY <1>7 DEF ExecuteReturn
<1>8. ASSUME NEW w \in Workers, DeliverOk(w) PROVE TypeInv'
  <2>1. PICK j \in Jobs : j = held[w]
    BY <1>8 DEF DeliverOk
  <2>2. told' \in [Jobs -> Nat]
    BY <1>8, <2>1 DEF DeliverOk
  <2> QED
    BY <1>8, <2>2 DEF DeliverOk, Release
<1>9. ASSUME NEW w \in Workers, DeliverRaise(w) PROVE TypeInv'
  <2>1. PICK retryable \in BOOLEAN, arrived \in BOOLEAN :
          /\ status' = [status EXCEPT ![held[w]] = AfterError(retryable, seen[w])]
          /\ told' = [told EXCEPT ![held[w]] = IF arrived THEN @ + 1 ELSE @]
    BY <1>9 DEF DeliverRaise
  <2>2. AfterError(retryable, seen[w]) \in RowStatus
    BY DEF AfterError
  <2>3. status' \in [Jobs -> RowStatus]
    BY <2>1, <2>2
  <2>4. told[held[w]] \in Nat
    BY <1>9 DEF DeliverRaise
  <2>5. told' \in [Jobs -> Nat]
    <3> DEFINE n == IF arrived THEN told[held[w]] + 1 ELSE told[held[w]]
    <3>1. n \in Nat
      BY <2>4
    <3>2. told' = [told EXCEPT ![held[w]] = n]
      BY <2>1
    <3> HIDE DEF n
    <3> QED
      BY <3>1, <3>2
  <2> QED
    BY <1>9, <2>3, <2>5 DEF DeliverRaise, Release
<1>10. ASSUME NEW w \in Workers, Kill(w) PROVE TypeInv'
  BY <1>10 DEF Kill
<1>11. ASSUME NEW w \in Workers, Start(w) PROVE TypeInv'
  BY <1>11 DEF Start, Release
<1>12. CASE UNCHANGED vars
  BY <1>12 DEF vars
<1> QED
  BY <1>1, <1>2, <1>3, <1>4, <1>5, <1>6, <1>7, <1>8, <1>9, <1>10, <1>11, <1>12
  DEF Next, Work, Poll, Claim, Process

\* Every reachable state is well typed, and a worker past its SELECT holds a job.
THEOREM TypeCorrect == Spec => []TypeInv
<1>1. Init => TypeInv
  BY TypeInit
<1>2. TypeInv /\ [Next]_vars => TypeInv'
  BY TypeStep
<1> QED
  BY <1>1, <1>2, PTL DEF Spec

-----------------------------------------------------------------------------
(* The hand-over invariants.                                               *)

LEMMA IInvInit == Init => IInv
<1> SUFFICES ASSUME Init PROVE IInv
  OBVIOUS
<1>1. TypeInv
  BY TypeInit
<1>2. \A w \in Workers : ~Busy(w)
  BY DEF Init, Busy
<1>3. OneRunnerPerJob /\ ClaimIsCurrent /\ RetryBudget
  BY <1>2, QueueAssumption DEF Init, OneRunnerPerJob, ClaimIsCurrent, RetryBudget, Busy
<1> QED
  BY <1>1, <1>3 DEF IInv

\* A step that leaves the rows alone and makes nobody busy keeps the hand-over
\* invariants: the SELECT, a lost claim, a kill, a start.
LEMMA LettingGo ==
  ASSUME IInv, UNCHANGED <<status, attempts>>,
         \A v \in Workers : Busy(v)' => pc'[v] = pc[v] /\ held'[v] = held[v] /\ seen'[v] = seen[v]
  PROVE  OneRunnerPerJob' /\ ClaimIsCurrent' /\ RetryBudget'
<1>1. \A v \in Workers : Busy(v)' => Busy(v)
  BY DEF Busy
<1>2. OneRunnerPerJob'
  BY <1>1 DEF IInv, OneRunnerPerJob
<1>3. ClaimIsCurrent'
  BY <1>1 DEF IInv, ClaimIsCurrent, Busy
<1>4. RetryBudget'
  BY DEF IInv, RetryBudget
<1> QED
  BY <1>2, <1>3, <1>4

\* A busy worker that puts its job down, whatever it writes to the row within
\* the retry budget, keeps them too: nobody else is busy with that row.
LEMMA PuttingDown ==
  ASSUME IInv, TypeInv', NEW w \in Workers, Busy(w), Release(w), UNCHANGED attempts,
         NEW s, status' = [status EXCEPT ![held[w]] = s],
         s # "absent", s = "pending" => seen[w] <= MaxRetries
  PROVE  OneRunnerPerJob' /\ ClaimIsCurrent' /\ RetryBudget'
<1>1. /\ ~Busy(w)'
      /\ \A v \in Workers \ {w} : pc'[v] = pc[v] /\ held'[v] = held[v] /\ seen'[v] = seen[v]
  BY DEF Release, Busy, IInv, TypeInv, TypeOK
<1>2. \A v \in Workers \ {w} : Busy(v) => held[v] # held[w]
  BY DEF IInv, OneRunnerPerJob
<1>3. \A j \in Jobs : j # held[w] => status'[j] = status[j]
  BY DEF IInv, TypeInv, TypeOK
<1>4. held[w] \in Jobs /\ \A v \in Workers : Busy(v) => held[v] \in Jobs
  BY DEF IInv, TypeInv, HandsFull
<1>5. OneRunnerPerJob'
  BY <1>1 DEF IInv, OneRunnerPerJob, Busy
<1>6. ClaimIsCurrent'
  BY <1>1, <1>2, <1>3, <1>4 DEF IInv, ClaimIsCurrent, Busy
<1>7. RetryBudget'
  <2>1. seen[w] = attempts[held[w]]
    BY DEF IInv, ClaimIsCurrent
  <2>2. status'[held[w]] = s
    BY <1>4 DEF IInv, TypeInv, TypeOK
  <2> QED
    BY <1>3, <2>1, <2>2 DEF IInv, RetryBudget
<1> QED
  BY <1>5, <1>6, <1>7

\* The guarded UPDATE: the row was pending, so it was in nobody's hands.
LEMMA ClaimWonKeeps ==
  ASSUME IInv, TypeInv', NEW w \in Workers, ClaimWon(w)
  PROVE  OneRunnerPerJob' /\ ClaimIsCurrent' /\ RetryBudget'
<1> DEFINE j == held[w]
<1>1. j \in Jobs /\ status[j] = "pending" /\ ~Busy(w)
  BY DEF IInv, TypeInv, HandsFull, ClaimWon, Busy
<1>2. \A v \in Workers : Busy(v) => held[v] # j /\ held[v] \in Jobs
  BY <1>1 DEF IInv, ClaimIsCurrent, Busy, TypeInv, HandsFull
<1>3. \A v \in Workers \ {w} :
        pc'[v] = pc[v] /\ held'[v] = held[v] /\ seen'[v] = seen[v]
  BY DEF ClaimWon, IInv, TypeInv, TypeOK
<1>4. pc'[w] = "executing" /\ held'[w] = j /\ seen'[w] = attempts[j] + 1
  BY DEF ClaimWon, IInv, TypeInv, TypeOK
<1>5. status'[j] = "running" /\ attempts'[j] = attempts[j] + 1
  BY <1>1 DEF ClaimWon, IInv, TypeInv, TypeOK
<1>6. \A k \in Jobs : k # j => status'[k] = status[k] /\ attempts'[k] = attempts[k]
  BY DEF ClaimWon, IInv, TypeInv, TypeOK
<1> HIDE DEF j
<1>7. OneRunnerPerJob'
  BY <1>2, <1>3, <1>4 DEF IInv, OneRunnerPerJob, Busy
<1>8. ClaimIsCurrent'
  BY <1>1, <1>2, <1>3, <1>4, <1>5, <1>6 DEF IInv, ClaimIsCurrent, Busy
<1>9. RetryBudget'
  <2>1. attempts[j] \in Nat /\ attempts[j] <= MaxRetries
    BY <1>1 DEF IInv, TypeInv, TypeOK, RetryBudget
  <2> QED
    BY <1>5, <1>6, <2>1, QueueAssumption DEF IInv, RetryBudget
<1> QED
  BY <1>7, <1>8, <1>9

LEMMA IInvStep == IInv /\ [Next]_vars => IInv'
<1> SUFFICES ASSUME IInv, [Next]_vars PROVE IInv'
  OBVIOUS
<1>0. TypeInv'
  BY TypeStep DEF IInv
<1> SUFFICES OneRunnerPerJob' /\ ClaimIsCurrent' /\ RetryBudget'
  BY <1>0 DEF IInv
<1>t. TypeInv
  BY DEF IInv
<1>1. ASSUME NEW j \in Jobs, Enqueue(j)
      PROVE OneRunnerPerJob' /\ ClaimIsCurrent' /\ RetryBudget'
  <2>1. UNCHANGED <<attempts, pc, held, seen>>
    BY <1>1 DEF Enqueue
  <2>2. \A k \in Jobs : status'[k] = status[k] \/ (status[k] = "absent" /\ status'[k] = "pending" /\ k = j)
    BY <1>1, <1>t DEF Enqueue, TypeInv, TypeOK
  <2>3. OneRunnerPerJob'
    BY <2>1 DEF IInv, OneRunnerPerJob, Busy
  <2>4. ClaimIsCurrent'
    BY <2>1, <2>2, <1>t DEF IInv, ClaimIsCurrent, Busy, TypeInv, HandsFull
  <2>5. RetryBudget'
    BY <2>1, <2>2, <1>t DEF IInv, RetryBudget, TypeInv, TypeOK
  <2> QED
    BY <2>3, <2>4, <2>5
<1>2. ASSUME NEW w \in Workers, SelectPending(w) \/ SelectNone(w) \/ ClaimLost(w) \/ Kill(w) \/ Start(w)
      PROVE OneRunnerPerJob' /\ ClaimIsCurrent' /\ RetryBudget'
  <2>1. UNCHANGED <<status, attempts>>
    BY <1>2 DEF SelectPending, SelectNone, ClaimLost, Kill, Start
  <2>2. ~Busy(w)'
    BY <1>2, <1>t DEF SelectPending, SelectNone, ClaimLost, Kill, Start, NothingClaimed, Release, Busy, TypeInv, TypeOK
  <2>3. \A v \in Workers \ {w} : pc'[v] = pc[v] /\ held'[v] = held[v] /\ seen'[v] = seen[v]
    BY <1>2, <1>t DEF SelectPending, SelectNone, ClaimLost, Kill, Start, NothingClaimed, Release, TypeInv, TypeOK
  <2> QED
    BY <2>1, <2>2, <2>3, LettingGo
<1>3. ASSUME NEW w \in Workers, ClaimWon(w)
      PROVE OneRunnerPerJob' /\ ClaimIsCurrent' /\ RetryBudget'
  BY <1>0, <1>3, ClaimWonKeeps
<1>4. ASSUME NEW w \in Workers, ExecuteReturn(w)
      PROVE OneRunnerPerJob' /\ ClaimIsCurrent' /\ RetryBudget'
  <2>1. /\ UNCHANGED <<attempts, held, seen>>
        /\ Busy(w) /\ held[w] \in Jobs
        /\ pc'[w] = "delivering"
        /\ status'[held[w]] = "done"
    BY <1>4, <1>t DEF ExecuteReturn, Busy, TypeInv, TypeOK, HandsFull
  <2>2. /\ \A v \in Workers \ {w} : pc'[v] = pc[v]
        /\ \A k \in Jobs : k # held[w] => status'[k] = status[k]
    BY <1>4, <1>t DEF ExecuteReturn, TypeInv, TypeOK
  <2>3. \A v \in Workers \ {w} : Busy(v) => held[v] # held[w] /\ held[v] \in Jobs
    BY <2>1, <1>t DEF IInv, OneRunnerPerJob, TypeInv, HandsFull
  <2>4. OneRunnerPerJob'
    BY <2>1, <2>2 DEF IInv, OneRunnerPerJob, Busy
  <2>5. ClaimIsCurrent'
    BY <2>1, <2>2, <2>3 DEF IInv, ClaimIsCurrent, Busy
  <2>6. RetryBudget'
    BY <2>1, <2>2 DEF IInv, RetryBudget
  <2> QED
    BY <2>4, <2>5, <2>6
<1>5. ASSUME NEW w \in Workers, ExecuteRaise(w)
      PROVE OneRunnerPerJob' /\ ClaimIsCurrent' /\ RetryBudget'
  <2>1. PICK retryable \in BOOLEAN :
          status' = [status EXCEPT ![held[w]] = AfterError(retryable, seen[w])]
    BY <1>5 DEF ExecuteRaise
  <2>2. /\ AfterError(retryable, seen[w]) # "absent"
        /\ AfterError(retryable, seen[w]) = "pending" => seen[w] <= MaxRetries
    BY DEF AfterError
  <2>3. Busy(w) /\ Release(w) /\ UNCHANGED attempts
    BY <1>5 DEF ExecuteRaise, Busy
  <2> QED
    BY <1>0, <2>1, <2>2, <2>3, PuttingDown
<1>6. ASSUME NEW w \in Workers, DeliverOk(w)
      PROVE OneRunnerPerJob' /\ ClaimIsCurrent' /\ RetryBudget'
  <2>1. Busy(w) /\ Release(w) /\ UNCHANGED attempts
    BY <1>6 DEF DeliverOk, Busy
  <2>2. status[held[w]] = "done" /\ status' = status
    BY <1>6 DEF DeliverOk, IInv, ClaimIsCurrent
  <2>3. status \in [Jobs -> RowStatus]
    BY <1>t DEF TypeInv, TypeOK
  <2>4. status' = [status EXCEPT ![held[w]] = "done"]
    BY <2>2, <2>3
  <2> QED
    BY <1>0, <2>1, <2>4, PuttingDown
<1>7. ASSUME NEW w \in Workers, DeliverRaise(w)
      PROVE OneRunnerPerJob' /\ ClaimIsCurrent' /\ RetryBudget'
  <2>1. PICK retryable \in BOOLEAN :
          status' = [status EXCEPT ![held[w]] = AfterError(retryable, seen[w])]
    BY <1>7 DEF DeliverRaise
  <2>2. /\ AfterError(retryable, seen[w]) # "absent"
        /\ AfterError(retryable, seen[w]) = "pending" => seen[w] <= MaxRetries
    BY DEF AfterError
  <2>3. Busy(w) /\ Release(w) /\ UNCHANGED attempts
    BY <1>7 DEF DeliverRaise, Busy
  <2> QED
    BY <1>0, <2>1, <2>2, <2>3, PuttingDown
<1>8. CASE UNCHANGED vars
  BY <1>8 DEF vars, IInv, OneRunnerPerJob, ClaimIsCurrent, RetryBudget, Busy
<1> QED
  BY <1>1, <1>2, <1>3, <1>4, <1>5, <1>6, <1>7, <1>8
  DEF Next, Work, Poll, Claim, Process

\* No job is ever executed or delivered by two workers at once, every busy
\* worker's view of its row is current, and the retry budget is kept: for any
\* number of workers and jobs, with kills and restarts at any point.
THEOREM HandOver == Spec => [](OneRunnerPerJob /\ ClaimIsCurrent /\ RetryBudget)
<1>1. Init => IInv
  BY IInvInit
<1>2. IInv /\ [Next]_vars => IInv'
  BY IInvStep
<1>3. IInv => OneRunnerPerJob /\ ClaimIsCurrent /\ RetryBudget
  BY DEF IInv
<1> QED
  BY <1>1, <1>2, <1>3, PTL DEF Spec

-----------------------------------------------------------------------------
(* The queue with its racing, killable workers implements JobLifecycle:    *)
(* every step of JobQueue is a step of the lifecycle, or invisible to it.  *)

\* What a step of worker w may change of the lifecycle is the job w holds:
\* the stage of every other job stays.
LEMMA StageFrame ==
  ASSUME TypeInv, NEW w \in Workers, NEW j \in Jobs,
         \A v \in Workers \ {w} : pc'[v] = pc[v] /\ held'[v] = held[v],
         Busy(w) => held[w] # j, Busy(w)' => held'[w] # j,
         status'[j] = status[j]
  PROVE  Stage(j)' = Stage(j)
<1>1. InHand(j)' <=> InHand(j)
  BY DEF InHand, Busy
<1> QED
  BY <1>1 DEF Stage

\* A job in a worker's hands, or marked running, is being worked on.
LEMMA StageWorking ==
  ASSUME NEW j, InHand(j) \/ status[j] = "running"
  PROVE  Stage(j) = "working"
BY DEF Stage

\* Once nobody has it in hand, the row alone says where the job is.
LEMMA StageOfRow ==
  ASSUME NEW j, ~InHand(j)
  PROVE  /\ status[j] = "pending" => Stage(j) = "waiting"
         /\ status[j] = "absent" => Stage(j) = "absent"
         /\ status[j] \in {"done", "failed"} => Stage(j) = "settled"
BY DEF Stage

\* If only the stage of j changes, the abstract function changes at j only.
LEMMA StageChange ==
  ASSUME NEW j \in Jobs, \A k \in Jobs \ {j} : Stage(k)' = Stage(k)
  PROVE  [k \in Jobs |-> Stage(k)]' = [[k \in Jobs |-> Stage(k)] EXCEPT ![j] = Stage(j)']
OBVIOUS

-----------------------------------------------------------------------------
\* One worker's step on job j is one abstract step on j when it changes the
\* stage of j as the lifecycle allows, and leaves the other stages alone.
LEMMA OneJobStep ==
  ASSUME NEW j \in Jobs, \A k \in Jobs \ {j} : Stage(k)' = Stage(k), UNCHANGED attempts,
         \/ Stage(j)' = Stage(j)
         \/ Stage(j) = "absent"  /\ Stage(j)' = "waiting"
         \/ Stage(j) = "working" /\ Stage(j)' = "settled"
         \/ Stage(j) = "working" /\ Stage(j)' = "waiting" /\ attempts[j] <= MaxRetries
  PROVE  [Life!Next]_(Life!vars)
<1> DEFINE stage == [k \in Jobs |-> Stage(k)]
<1>1. stage' = [stage EXCEPT ![j] = Stage(j)']
  BY StageChange
<1>2. CASE Stage(j)' = Stage(j)
  <2>1. stage' = stage
    BY <1>2
  <2> QED
    BY <2>1 DEF Life!vars
<1>3. CASE Stage(j) = "absent" /\ Stage(j)' = "waiting"
  <2>1. Life!Submit(j)
    BY <1>1, <1>3 DEF Life!Submit
  <2> QED
    BY <2>1 DEF Life!Next
<1>4. CASE Stage(j) = "working" /\ Stage(j)' = "settled"
  <2>1. Life!Settle(j)
    BY <1>1, <1>4 DEF Life!Settle
  <2> QED
    BY <2>1 DEF Life!Next
<1>5. CASE Stage(j) = "working" /\ Stage(j)' = "waiting" /\ attempts[j] <= MaxRetries
  <2>1. Life!GiveBack(j)
    BY <1>1, <1>5 DEF Life!GiveBack
  <2> QED
    BY <2>1 DEF Life!Next
<1> QED
  BY <1>2, <1>3, <1>4, <1>5

\* Letting go of a row that is not "running" shows where the job now is: the
\* end of an execution that raised, of a delivery, and a kill in mid-delivery.
LEMMA LetGoStep ==
  ASSUME IInv, TypeInv', NEW w \in Workers, Busy(w), ~Busy(w)', UNCHANGED attempts,
         \A v \in Workers \ {w} : pc'[v] = pc[v] /\ held'[v] = held[v],
         \A k \in Jobs : k # held[w] => status'[k] = status[k],
         \/ status'[held[w]] \in {"done", "failed", "running"}
         \/ status'[held[w]] = "pending" /\ attempts[held[w]] <= MaxRetries
  PROVE  [Life!Next]_(Life!vars)
<1>0. PICK j \in Jobs : j = held[w]
  BY DEF IInv, TypeInv, HandsFull
<1>1. InHand(j)
  BY <1>0 DEF InHand
<1>2. ~InHand(j)'
  <2>1. \A v \in Workers \ {w} : Busy(v) => held[v] # j
    BY <1>0 DEF IInv, OneRunnerPerJob
  <2> QED
    BY <2>1 DEF InHand, Busy
<1>3. Stage(j) = "working"
  BY <1>1, StageWorking
<1>4. /\ status'[j] \in {"done", "failed"} => Stage(j)' = "settled"
      /\ status'[j] = "pending" => Stage(j)' = "waiting"
      /\ status'[j] = "running" => Stage(j)' = "working"
  BY <1>2 DEF Stage
<1>5. ASSUME NEW k \in Jobs \ {j} PROVE Stage(k)' = Stage(k)
  <2>1. TypeInv /\ held[w] # k /\ status'[k] = status[k]
    BY <1>0 DEF IInv
  <2> QED
    BY <2>1, StageFrame
<1>6. \/ Stage(j)' = Stage(j)
      \/ Stage(j)' = "settled"
      \/ Stage(j)' = "waiting" /\ attempts[j] <= MaxRetries
  BY <1>0, <1>3, <1>4
<1> QED
  BY <1>3, <1>5, <1>6, OneJobStep

\* A step that changes no row and makes nobody busy or idle is invisible.
LEMMA InvisibleStep ==
  ASSUME UNCHANGED <<status, attempts>>, NEW w \in Workers, TypeInv, ~Busy(w), ~Busy(w)',
         \A v \in Workers \ {w} : pc'[v] = pc[v] /\ held'[v] = held[v]
  PROVE  [Life!Next]_(Life!vars)
<1>1. ASSUME NEW k \in Jobs PROVE Stage(k)' = Stage(k)
  BY StageFrame
<1>2. [k \in Jobs |-> Stage(k)]' = [k \in Jobs |-> Stage(k)]
  BY <1>1
<1> QED
  BY <1>2 DEF Life!vars

-----------------------------------------------------------------------------
LEMMA LifeInit == Init => Life!Init
<1> SUFFICES ASSUME Init PROVE Life!Init
  OBVIOUS
<1>1. \A j \in Jobs : ~InHand(j) /\ status[j] = "absent"
  BY DEF Init, InHand, Busy
<1>2. \A j \in Jobs : Stage(j) = "absent"
  BY <1>1, StageOfRow
<1> QED
  BY <1>2 DEF Life!Init, Init

LEMMA LifeStep == IInv /\ TypeInv' /\ [Next]_vars => [Life!Next]_(Life!vars)
<1> SUFFICES ASSUME IInv, TypeInv', [Next]_vars PROVE [Life!Next]_(Life!vars)
  OBVIOUS
<1>t. TypeInv
  BY DEF IInv
<1>1. ASSUME NEW j \in Jobs, Enqueue(j) PROVE [Life!Next]_(Life!vars)
  <2>1. UNCHANGED <<attempts, pc, held>>
    BY <1>1 DEF Enqueue
  <2>2. \A k \in Jobs \ {j} : status'[k] = status[k]
    BY <1>1, <1>t DEF Enqueue, TypeInv, TypeOK
  <2>3. \A k \in Jobs : InHand(k)' <=> InHand(k)
    BY <2>1 DEF InHand, Busy
  <2>4. \A k \in Jobs \ {j} : Stage(k)' = Stage(k)
    BY <2>2, <2>3 DEF Stage
  <2>5. CASE status[j] = "absent"
    <3>1. status'[j] = "pending"
      BY <1>1, <2>5, <1>t DEF Enqueue, TypeInv, TypeOK
    <3>2. ~InHand(j)
      BY <2>5 DEF IInv, ClaimIsCurrent, InHand, Busy
    <3>3. Stage(j) = "absent" /\ Stage(j)' = "waiting"
      BY <2>3, <2>5, <3>1, <3>2 DEF Stage
    <3> QED
      BY <2>1, <2>4, <3>3, OneJobStep
  <2>6. CASE status[j] # "absent"
    <3>1. status'[j] = status[j]
      BY <1>1, <2>6, <1>t DEF Enqueue, TypeInv, TypeOK
    <3>2. Stage(j)' = Stage(j)
      BY <2>3, <3>1 DEF Stage
    <3> QED
      BY <2>1, <2>4, <3>2, OneJobStep
  <2> QED
    BY <2>5, <2>6
<1>2. ASSUME NEW w \in Workers, SelectPending(w) \/ SelectNone(w) \/ ClaimLost(w) \/ Start(w)
      PROVE [Life!Next]_(Life!vars)
  <2>1. UNCHANGED <<status, attempts>>
    BY <1>2 DEF SelectPending, SelectNone, ClaimLost, Start
  <2>2. ~Busy(w) /\ ~Busy(w)'
    BY <1>2, <1>t DEF SelectPending, SelectNone, ClaimLost, Start, NothingClaimed, Release, Busy, TypeInv, TypeOK
  <2>3. \A v \in Workers \ {w} : pc'[v] = pc[v] /\ held'[v] = held[v]
    BY <1>2, <1>t DEF SelectPending, SelectNone, ClaimLost, Start, NothingClaimed, Release, TypeInv, TypeOK
  <2> QED
    BY <1>t, <2>1, <2>2, <2>3, InvisibleStep
<1>3. ASSUME NEW w \in Workers, ClaimWon(w) PROVE [Life!Next]_(Life!vars)
  <2>1. PICK j \in Jobs : j = held[w]
    BY <1>3, <1>t DEF ClaimWon, TypeInv, HandsFull
  <2>2. /\ status[j] = "pending" /\ status'[j] = "running"
        /\ attempts' = [attempts EXCEPT ![j] = @ + 1]
        /\ held' = held /\ pc[w] = "selected" /\ pc'[w] = "executing"
        /\ \A v \in Workers \ {w} : pc'[v] = pc[v]
        /\ \A k \in Jobs \ {j} : status'[k] = status[k]
    BY <1>3, <1>t, <2>1 DEF ClaimWon, TypeInv, TypeOK
  <2>3. ~InHand(j)
    BY <2>2 DEF IInv, ClaimIsCurrent, InHand, Busy
  <2>4. Stage(j) = "waiting" /\ Stage(j)' = "working"
    BY <2>2, <2>3 DEF Stage
  <2>5. ASSUME NEW k \in Jobs \ {j} PROVE Stage(k)' = Stage(k)
    BY <1>t, <2>1, <2>2, <2>5, StageFrame
  <2>6. attempts[j] <= MaxRetries
    BY <2>2 DEF IInv, RetryBudget
  <2>7. Life!Begin(j)
    BY <2>2, <2>4, <2>5, <2>6, StageChange DEF Life!Begin
  <2> QED
    BY <2>7 DEF Life!Next
<1>4. ASSUME NEW w \in Workers, ExecuteReturn(w) PROVE [Life!Next]_(Life!vars)
  <2>1. PICK j \in Jobs : j = held[w]
    BY <1>4, <1>t DEF ExecuteReturn, Busy, TypeInv, HandsFull
  <2>2. /\ attempts' = attempts /\ held' = held
        /\ Busy(w) /\ Busy(w)'
        /\ \A v \in Workers \ {w} : pc'[v] = pc[v]
        /\ \A k \in Jobs \ {j} : status'[k] = status[k]
    BY <1>4, <1>t, <2>1 DEF ExecuteReturn, Busy, TypeInv, TypeOK
  <2>3. Stage(j) = "working" /\ Stage(j)' = "working"
    BY <2>1, <2>2 DEF Stage, InHand
  <2>4. ASSUME NEW k \in Jobs \ {j} PROVE Stage(k)' = Stage(k)
    BY <1>t, <2>1, <2>2, <2>4, StageFrame
  <2> QED
    BY <2>2, <2>3, <2>4, OneJobStep
<1>5. ASSUME NEW w \in Workers, ExecuteRaise(w) \/ DeliverOk(w) \/ DeliverRaise(w)
      PROVE [Life!Next]_(Life!vars)
  <2>1. /\ Busy(w) /\ ~Busy(w)' /\ attempts' = attempts
        /\ \A v \in Workers \ {w} : pc'[v] = pc[v] /\ held'[v] = held[v]
        /\ held[w] \in Jobs
    BY <1>5, <1>t DEF ExecuteRaise, DeliverOk, DeliverRaise, Release, Busy, TypeInv, TypeOK, HandsFull
  <2>2. /\ seen[w] = attempts[held[w]]
        /\ DeliverOk(w) => status[held[w]] = "done"
    BY <2>1 DEF IInv, ClaimIsCurrent, DeliverOk
  <2>3. PICK s \in {"done", "failed", "pending"} :
          /\ status' = [status EXCEPT ![held[w]] = s]
          /\ s = "pending" => seen[w] <= MaxRetries
    <3>1. CASE DeliverOk(w)
      <4>1. status' = status /\ status \in [Jobs -> RowStatus]
        BY <3>1, <1>t DEF DeliverOk, TypeInv, TypeOK
      <4>2. status' = [status EXCEPT ![held[w]] = "done"]
        BY <2>2, <3>1, <4>1
      <4> QED
        BY <4>2
    <3>2. CASE ExecuteRaise(w)
      BY <3>2 DEF ExecuteRaise, AfterError
    <3>3. CASE DeliverRaise(w)
      BY <3>3 DEF DeliverRaise, AfterError
    <3> QED
      BY <1>5, <3>1, <3>2, <3>3
  <2>4. /\ status'[held[w]] = s
        /\ \A k \in Jobs : k # held[w] => status'[k] = status[k]
    BY <1>t, <2>1, <2>3 DEF TypeInv, TypeOK
  <2> QED
    BY <2>1, <2>2, <2>3, <2>4, LetGoStep
<1>6. ASSUME NEW w \in Workers, Kill(w) PROVE [Life!Next]_(Life!vars)
  <2>1. /\ status' = status /\ attempts' = attempts /\ ~Busy(w)'
        /\ \A v \in Workers \ {w} : pc'[v] = pc[v] /\ held'[v] = held[v]
    BY <1>6, <1>t DEF Kill, Busy, TypeInv, TypeOK
  <2>2. CASE Busy(w)
    <3>1. status[held[w]] \in {"running", "done"}
      BY <2>2 DEF IInv, ClaimIsCurrent, Busy
    <3> QED
      BY <2>1, <2>2, <3>1, LetGoStep
  <2>3. CASE ~Busy(w)
    BY <1>t, <2>1, <2>3, InvisibleStep
  <2> QED
    BY <2>2, <2>3
<1>7. CASE UNCHANGED vars
  <2>1. \A k \in Jobs : Stage(k)' = Stage(k)
    BY <1>7 DEF vars, Stage, InHand, Busy
  <2> QED
    BY <1>7, <2>1 DEF vars, Life!vars
<1> QED
  BY <1>1, <1>2, <1>3, <1>4, <1>5, <1>6, <1>7
  DEF Next, Work, Poll, Claim, Process

\* The queue implements the lifecycle: whoever runs it, a job is worked on by
\* one runner at a time, is given back at most MaxRetries times, and is never
\* begun again once its runner has let go of it for good.
THEOREM Implements == Spec => ImplementsLifecycle
<1>1. Init => IInv
  BY IInvInit
<1>2. IInv /\ [Next]_vars => IInv'
  BY IInvStep
<1>3. IInv => TypeInv
  BY DEF IInv
<1> QED
  BY <1>1, <1>2, <1>3, LifeInit, LifeStep, PTL DEF Spec, ImplementsLifecycle, Life!Spec
-----------------------------------------------------------------------------
(* From a message to a request, a job and its row (Intake).                 *)

RequestRow == [by : Messages, details : Seq(Messages), awaiting : BOOLEAN]
JobRow(r)  == [req : 1 .. r, msg : Messages, kind : {"ask", "complex"}, queued : BOOLEAN]
Turns(r, j) == [msg : Messages \cup {Bot}, req : 0 .. r, append : BOOLEAN, guess : BOOLEAN,
                verdict : Verdicts, job : 0 .. j]
Stops == InTurn \cup {"poll", "next", "off", "start", "end"}

\* An update addresses a request that was there when it was posted.
AddressesKnown == \A m \in 1 .. Len(sent) : sent[m].to <= Len(requests)

\* The last update before those of the batch.
Base == IF offset = 0 THEN acked ELSE offset - 1

\* What is before the offset of a running bot was handled, or is in its hands;
\* an update is given up by a death alone, and then the offset with it.
FeedInOrder ==
  /\ \A i \in DOMAIN batch : batch[i] = Base + i
  /\ doing[Bot] # "off" =>
       \A m \in 1 .. offset - 1 : m \in handled \/ (doing[Bot] \in InTurn /\ turn[Bot].msg = m)

\* Each turn is about a message of its own.
OwnMessage(a) ==
  doing[a] \in InTurn =>
    IF a = Bot THEN turn[a].msg \in 1 .. Len(sent) ELSE turn[a].msg = a

\* Past its routing a turn has a request; once its guess is settled, the message
\* is recorded there.
Routed(a) ==
  /\ doing[a] \in InTurn \ {"route", "mint"} => turn[a].req \in RequestIds
  /\ doing[a] \in {"clear", "append"} => ~turn[a].guess
  /\ \/ doing[a] \in {"ask", "junior", "enqueue", "reply"}
     \/ doing[a] = "analyze" /\ ~turn[a].guess
     => Recorded(turn[a].msg, turn[a].req)

\* The job of a turn is of its message and of its request.
WithJob(a) == \/ doing[a] \in {"junior", "enqueue"}
              \/ doing[a] = "keep" /\ turn[a].verdict \in {"answer_ask", "plan_ready"}

JobInHand(a) ==
  /\ WithJob(a) => /\ turn[a].job \in JobIds
                   /\ jobs[turn[a].job].msg = turn[a].msg
                   /\ jobs[turn[a].job].req = turn[a].req
  /\ \/ doing[a] = "enqueue"
     \/ doing[a] = "keep" /\ turn[a].verdict = "plan_ready"
     => jobs[turn[a].job].kind = "complex"

TurnInHand(a) == OwnMessage(a) /\ Routed(a) /\ JobInHand(a)

\* The requests a message has opened, and the details that hold it.
Opened(m) == {r \in RequestIds : requests[r].by = m}
Places(m) == UNION {{<<r, d>> : d \in {d \in DOMAIN requests[r].details :
                                         requests[r].details[d] = m}} : r \in RequestIds}

\* A turn that has not recorded its message yet.
Homeless(a) == \/ doing[a] \in {"route", "clear", "append", "mint", "keep"}
               \/ doing[a] = "analyze" /\ turn[a].guess

\* It was counted as a run of the message when it began.
Room == /\ \A m \in Messages : /\ IsFiniteSet(Opened(m)) /\ IsFiniteSet(Places(m))
                               /\ Homes(m) <= runs[m]
        /\ \A a \in Actors, m \in Messages :
             Homeless(a) /\ turn[a].msg = m => Homes(m) < runs[m]

HandledHasHome == \A m \in handled : sent[m].text => \E r \in RequestIds : Recorded(m, r)

IntakeInv == /\ IntakeTypeOK /\ AddressesKnown /\ AckedIsHandled /\ FeedInOrder
             /\ \A a \in Actors : TurnInHand(a)
             /\ QueuedIsSound /\ Room /\ HandledHasHome

-----------------------------------------------------------------------------
\* Requests and jobs are added and never withdrawn: what a turn in progress
\* relies on stays.
Grows ==
  /\ Len(requests) <= Len(requests') /\ Len(jobs) <= Len(jobs')
  /\ \A m \in Messages : \A r \in RequestIds : Recorded(m, r) => Recorded(m, r)'
  /\ \A j \in JobIds : /\ jobs'[j].msg = jobs[j].msg /\ jobs'[j].req = jobs[j].req
                       /\ jobs[j].kind = "complex" => jobs'[j].kind = "complex"

LEMMA Widen ==
  ASSUME NEW r \in Nat, NEW r2 \in Nat, NEW j \in Nat, NEW j2 \in Nat, r <= r2, j <= j2
  PROVE  Turns(r, j) \subseteq Turns(r2, j2) /\ JobRow(r) \subseteq JobRow(r2)
BY DEF Turns, JobRow

LEMMA SeqWiden ==
  ASSUME NEW S, NEW T, S \subseteq T, NEW s \in Seq(S)
  PROVE  s \in Seq(T)
OBVIOUS

\* One element of a sequence is replaced, or one added.
LEMMA SeqSet ==
  ASSUME NEW S, NEW s \in Seq(S), NEW i, NEW e, i \in 1 .. Len(s) => e \in S
  PROVE  /\ [s EXCEPT ![i] = e] \in Seq(S) /\ Len([s EXCEPT ![i] = e]) = Len(s)
         /\ \A k \in 1 .. Len(s) : [s EXCEPT ![i] = e][k] = IF k = i THEN e ELSE s[k]
<1>1. s \in [1 .. Len(s) -> S] /\ Len(s) \in Nat
  OBVIOUS
<1>2. [s EXCEPT ![i] = e] \in [1 .. Len(s) -> S]
  BY <1>1
<1>3. [s EXCEPT ![i] = e] \in Seq(S) /\ Len([s EXCEPT ![i] = e]) = Len(s)
  BY <1>1, <1>2
<1> QED
  BY <1>1, <1>3

LEMMA SeqAdd ==
  ASSUME NEW S, NEW s \in Seq(S), NEW e \in S
  PROVE  /\ Append(s, e) \in Seq(S) /\ Len(Append(s, e)) = Len(s) + 1
         /\ \A k \in 1 .. Len(s) : Append(s, e)[k] = s[k]
         /\ Append(s, e)[Len(s) + 1] = e
OBVIOUS

\* The messages of two turns in progress differ.
LEMMA OwnMessages ==
  ASSUME NEW a \in Actors, NEW b \in Actors, a # b, IntakeTypeOK, OwnMessage(a), OwnMessage(b),
         doing[a] \in InTurn, doing[b] \in InTurn
  PROVE  turn[a].msg # turn[b].msg
<1>1. \A m \in 1 .. Len(sent) : m \in 1 .. MaxUpdates
  BY IntakeAssumption DEF IntakeTypeOK
<1> QED
  BY <1>1, IntakeAssumption DEF OwnMessage, Actors

LEMMA TypesOf ==
  ASSUME IntakeTypeOK
  PROVE  /\ requests \in Seq(RequestRow) /\ jobs \in Seq(JobRow(Len(requests)))
         /\ doing \in [Actors -> Stops]
         /\ turn \in [Actors -> Turns(Len(requests), Len(jobs))]
         /\ Len(requests) \in Nat /\ Len(jobs) \in Nat /\ Len(sent) \in Nat
         /\ Len(sent) <= MaxUpdates /\ runs \in [Messages -> Nat] /\ Bot \in Actors
BY DEF IntakeTypeOK, RequestRow, JobRow, RequestIds, Stops, Turns, Actors

LEMMA RowsAre ==
  ASSUME IntakeTypeOK
  PROVE  /\ \A m \in 1 .. Len(sent) : sent[m] \in Update
         /\ \A r \in RequestIds : requests[r] \in RequestRow
         /\ \A j \in JobIds : jobs[j] \in JobRow(Len(requests))
<1>1. sent \in Seq(Update)
  BY DEF IntakeTypeOK
<1>2. requests \in Seq(RequestRow) /\ jobs \in Seq(JobRow(Len(requests)))
  BY TypesOf
<1>3. \A S : \A s \in Seq(S) : \A i \in 1 .. Len(s) : s[i] \in S
  OBVIOUS
<1> QED
  BY <1>1, <1>2, <1>3 DEF RequestIds, JobIds

LEMMA AddressOf ==
  ASSUME IntakeTypeOK, AddressesKnown
  PROVE  \A m \in 1 .. Len(sent) : sent[m].to \in Nat /\ sent[m].to <= Len(requests)
BY RowsAre DEF Update, AddressesKnown

\* The turn of a message ends where a message was.
LEMMA MessageOf ==
  ASSUME IntakeTypeOK, NEW a \in Actors, OwnMessage(a), doing[a] \in InTurn
  PROVE  turn[a].msg \in Messages /\ (a = Bot => turn[a].msg \in Updates)
BY IntakeAssumption DEF OwnMessage, IntakeTypeOK, Messages, Updates, Actors

LEMMA IntakeStart == IntakeInit => IntakeInv
<1> SUFFICES ASSUME IntakeInit PROVE IntakeInv
  OBVIOUS
<1>e. /\ sent = <<>> /\ requests = <<>> /\ jobs = <<>> /\ batch = <<>> /\ handled = {}
      /\ acked = 0 /\ offset = 0 /\ runs = [m \in Messages |-> 0]
      /\ Len(<<>>) = 0 /\ DOMAIN <<>> = {} /\ RequestIds = {} /\ JobIds = {}
  BY DEF IntakeInit, RequestIds, JobIds
<1>d. /\ doing \in [Actors -> {"poll", "start", "end"}]
      /\ \A a \in Actors : doing[a] \notin InTurn
  BY DEF IntakeInit, InTurn
<1>1. IntakeTypeOK
  <2>1. Idle \in [msg : Messages \cup {Bot}, req : 0 .. Len(requests), append : BOOLEAN,
                  guess : BOOLEAN, verdict : Verdicts, job : 0 .. Len(jobs)]
    BY <1>e DEF Idle, Verdicts
  <2>2. turn = [a \in Actors |-> Idle] /\ starts \in 1 .. MaxStarts
    BY DEF IntakeInit
  <2>3. <<>> \in Seq(Update) /\ <<>> \in Seq(1 .. Len(sent))
        /\ <<>> \in Seq([by : Messages, details : Seq(Messages), awaiting : BOOLEAN])
        /\ <<>> \in Seq([req : RequestIds, msg : Messages, kind : {"ask", "complex"}, queued : BOOLEAN])
    OBVIOUS
  <2>4. doing \in [Actors -> InTurn \cup {"poll", "next", "off", "start", "end"}]
    BY <1>d
  <2> QED
    BY <1>e, <2>1, <2>2, <2>3, <2>4, IntakeAssumption DEF IntakeTypeOK
<1>2. AddressesKnown /\ AckedIsHandled /\ FeedInOrder /\ QueuedIsSound /\ HandledHasHome
  BY <1>e DEF AddressesKnown, AckedIsHandled, FeedInOrder, QueuedIsSound, HandledHasHome
<1>3. \A a \in Actors : TurnInHand(a)
  BY <1>d DEF TurnInHand, OwnMessage, Routed, JobInHand, WithJob, InTurn
<1>4. Room
  <2>1. ASSUME NEW m \in Messages
        PROVE  IsFiniteSet(Opened(m)) /\ IsFiniteSet(Places(m)) /\ Homes(m) <= runs[m]
    <3>1. Opened(m) = {} /\ Places(m) = {}
      BY <1>e DEF Opened, Places
    <3>2. Homes(m) = Cardinality(Opened(m)) + Cardinality(Places(m))
      BY DEF Homes, Opened, Places
    <3> QED
      BY <1>e, <3>1, <3>2, FS_EmptySet
  <2>2. \A a \in Actors : ~Homeless(a)
    BY <1>d DEF Homeless, InTurn
  <2> QED
    BY <2>1, <2>2 DEF Room
<1> QED
  BY <1>1, <1>2, <1>3, <1>4 DEF IntakeInv

-----------------------------------------------------------------------------
\* How often a message is recorded, once a request is opened or a detail added.
HomeSets(m) == IsFiniteSet(Opened(m)) /\ IsFiniteSet(Places(m))

LEMMA HomesAre == \A m : Homes(m) = Cardinality(Opened(m)) + Cardinality(Places(m))
BY DEF Homes, Opened, Places

LEMMA HomesArePrimed == \A m : Homes(m)' = Cardinality(Opened(m)') + Cardinality(Places(m)')
BY DEF Homes, Opened, Places

LEMMA PlacesAre ==
  \A m, z : z \in Places(m) <=> \E r \in RequestIds : \E d \in DOMAIN requests[r].details :
                                  requests[r].details[d] = m /\ z = <<r, d>>
BY DEF Places

LEMMA PlacesArePrimed ==
  \A m, z : z \in Places(m)' <=> \E r \in RequestIds' : \E d \in DOMAIN requests'[r].details :
                                   requests'[r].details[d] = m /\ z = <<r, d>>
BY DEF Places

LEMMA HomesSame ==
  ASSUME Len(requests') = Len(requests),
         \A r \in RequestIds : /\ requests'[r].by = requests[r].by
                               /\ requests'[r].details = requests[r].details
  PROVE  \A m : Opened(m)' = Opened(m) /\ Places(m)' = Places(m) /\ Homes(m)' = Homes(m)
<1>1. RequestIds' = RequestIds
  BY DEF RequestIds
<1>2. ASSUME NEW m PROVE Opened(m)' = Opened(m) /\ Places(m)' = Places(m)
  <2>1. Opened(m)' = Opened(m)
    BY <1>1 DEF Opened
  <2>2. \A z : z \in Places(m)' <=> z \in Places(m)
    BY <1>1, PlacesAre, PlacesArePrimed
  <2>3. Places(m)' \subseteq Places(m) /\ Places(m) \subseteq Places(m)'
    BY <2>2
  <2> QED
    BY <2>1, <2>3
<1> QED
  BY <1>2, HomesAre, HomesArePrimed

LEMMA OneMore ==
  ASSUME NEW S, NEW x, x \notin S, IsFiniteSet(S)
  PROVE  IsFiniteSet(S \cup {x}) /\ Cardinality(S \cup {x}) = Cardinality(S) + 1
BY FS_AddElement

LEMMA MintAdds ==
  ASSUME requests \in Seq(RequestRow), NEW n \in Messages, \A m \in Messages : HomeSets(m),
         requests' = Append(requests, [by |-> n, details |-> <<>>, awaiting |-> FALSE])
  PROVE  \A m \in Messages : /\ HomeSets(m)'
                             /\ Homes(m)' = IF m = n THEN Homes(m) + 1 ELSE Homes(m)
<1> DEFINE row == [by |-> n, details |-> <<>>, awaiting |-> FALSE]
<1>0. row \in RequestRow /\ row.by = n /\ DOMAIN row.details = {}
  BY DEF RequestRow
<1> HIDE DEF row
<1>1. /\ Len(requests') = Len(requests) + 1 /\ Len(requests) \in Nat
      /\ \A k \in 1 .. Len(requests) : requests'[k] = requests[k]
      /\ requests'[Len(requests) + 1] = row
  BY <1>0, SeqAdd DEF row
<1>2. RequestIds' = RequestIds \cup {Len(requests) + 1} /\ Len(requests) + 1 \notin RequestIds
  BY <1>1 DEF RequestIds
<1>3. ASSUME NEW m \in Messages
      PROVE  HomeSets(m)' /\ Homes(m)' = IF m = n THEN Homes(m) + 1 ELSE Homes(m)
  <2>1. Opened(m)' = IF m = n THEN Opened(m) \cup {Len(requests) + 1} ELSE Opened(m)
    BY <1>0, <1>1, <1>2 DEF Opened, RequestIds
  <2>2. Places(m)' = Places(m)
    <3>1. \A z : z \in Places(m)' <=> z \in Places(m)
      BY <1>0, <1>1, <1>2, PlacesAre, PlacesArePrimed DEF RequestIds
    <3>2. Places(m)' \subseteq Places(m) /\ Places(m) \subseteq Places(m)'
      BY <3>1
    <3> QED
      BY <3>2
  <2>3. Len(requests) + 1 \notin Opened(m)
    BY <1>2 DEF Opened
  <2>4. IsFiniteSet(Opened(m)) /\ IsFiniteSet(Places(m))
    BY DEF HomeSets
  <2>5. /\ IsFiniteSet(Opened(m)')
        /\ Cardinality(Opened(m)') = IF m = n THEN Cardinality(Opened(m)) + 1 ELSE Cardinality(Opened(m))
    BY <2>1, <2>3, <2>4, OneMore
  <2>6. Homes(m)' = Cardinality(Opened(m)') + Cardinality(Places(m)')
    BY HomesArePrimed
  <2>7. Homes(m) = Cardinality(Opened(m)) + Cardinality(Places(m))
    BY HomesAre
  <2>8. Cardinality(Opened(m)) \in Nat /\ Cardinality(Places(m)) \in Nat
    BY <2>4, FS_CardinalityType
  <2>9. HomeSets(m)'
    BY <2>2, <2>4, <2>5 DEF HomeSets
  <2> QED
    BY <2>2, <2>5, <2>6, <2>7, <2>8, <2>9
<1> QED
  BY <1>3

LEMMA DetailAdds ==
  ASSUME requests \in Seq(RequestRow), NEW q \in RequestIds, NEW n \in Messages,
         \A m \in Messages : HomeSets(m),
         requests' = [requests EXCEPT ![q].details = Append(@, n)]
  PROVE  /\ requests' \in Seq(RequestRow) /\ Len(requests') = Len(requests)
         /\ \A m \in Messages : /\ HomeSets(m)'
                                /\ Homes(m)' = IF m = n THEN Homes(m) + 1 ELSE Homes(m)
         /\ \A m \in Messages : \A r \in RequestIds : Recorded(m, r) => Recorded(m, r)'
         /\ Recorded(n, q)'
<1> DEFINE old == requests[q].details
<1> DEFINE row == [requests[q] EXCEPT !.details = Append(old, n)]
<1>0. /\ q \in 1 .. Len(requests) /\ Len(requests) \in Nat
      /\ \A r \in 1 .. Len(requests) : requests[r] \in RequestRow
  BY DEF RequestIds
<1>1. old \in Seq(Messages)
  BY <1>0 DEF RequestRow
<1> HIDE DEF old
<1>2. /\ Append(old, n) \in Seq(Messages) /\ Len(old) \in Nat
      /\ DOMAIN Append(old, n) = DOMAIN old \cup {Len(old) + 1} /\ Len(old) + 1 \notin DOMAIN old
      /\ \A k \in DOMAIN old : Append(old, n)[k] = old[k]
      /\ Append(old, n)[Len(old) + 1] = n
  BY <1>1
<1>3. row \in RequestRow /\ row.by = requests[q].by /\ row.details = Append(old, n)
  BY <1>0, <1>2 DEF RequestRow
<1>4. requests' = [requests EXCEPT ![q] = row]
  BY DEF old
<1> HIDE DEF row
<1>5. /\ requests' \in Seq(RequestRow) /\ Len(requests') = Len(requests)
      /\ \A r \in 1 .. Len(requests) : requests'[r] = IF r = q THEN row ELSE requests[r]
  <2> DEFINE new == [requests EXCEPT ![q] = row]
  <2>1. /\ new \in Seq(RequestRow) /\ Len(new) = Len(requests)
        /\ \A r \in 1 .. Len(requests) : new[r] = IF r = q THEN row ELSE requests[r]
    BY <1>3, SeqSet
  <2>2. requests' = new
    BY <1>4
  <2> HIDE DEF new
  <2> QED
    BY <2>1, <2>2
<1>6. RequestIds' = RequestIds /\ RequestIds = 1 .. Len(requests)
  BY <1>5 DEF RequestIds
<1>7. ASSUME NEW m \in Messages
      PROVE  HomeSets(m)' /\ Homes(m)' = IF m = n THEN Homes(m) + 1 ELSE Homes(m)
  <2>1. Opened(m)' = Opened(m)
    BY <1>3, <1>5, <1>6 DEF Opened
  <2> DEFINE new == <<q, Len(old) + 1>>
  <2>2. new \notin Places(m)
    <3>1. ASSUME NEW r \in RequestIds, NEW d \in DOMAIN requests[r].details, new = <<r, d>> PROVE FALSE
      BY <1>2, <3>1 DEF old
    <3> QED
      BY <3>1, PlacesAre
  <2>3. Places(m)' = IF m = n THEN Places(m) \cup {new} ELSE Places(m)
    <3>1. ASSUME NEW z, z \in Places(m)' PROVE z \in Places(m) \/ (m = n /\ z = new)
      <4>1. PICK r \in RequestIds : \E d \in DOMAIN requests'[r].details :
                                      requests'[r].details[d] = m /\ z = <<r, d>>
        BY <1>6, <3>1, PlacesArePrimed
      <4>2. PICK d \in DOMAIN requests'[r].details : requests'[r].details[d] = m /\ z = <<r, d>>
        BY <4>1
      <4>3. CASE r # q
        <5>1. requests'[r] = requests[r]
          BY <1>5, <1>6, <4>3
        <5> QED
          BY <4>2, <5>1, PlacesAre
      <4>4. CASE r = q /\ d \in DOMAIN old
        <5>1. requests'[r].details = Append(old, n)
          BY <1>3, <1>5, <1>6, <4>4
        <5>2. old[d] = m
          BY <1>2, <4>2, <4>4, <5>1
        <5> QED
          BY <4>2, <4>4, <5>2, PlacesAre DEF old
      <4>5. CASE r = q /\ d \notin DOMAIN old
        <5>1. requests'[r].details = Append(old, n)
          BY <1>3, <1>5, <1>6, <4>5
        <5> QED
          BY <1>2, <4>2, <4>5, <5>1
      <4> QED
        BY <4>3, <4>4, <4>5
    <3>2. ASSUME NEW z \in Places(m) PROVE z \in Places(m)'
      <4>1. PICK r \in RequestIds : \E d \in DOMAIN requests[r].details :
                                      requests[r].details[d] = m /\ z = <<r, d>>
        BY PlacesAre
      <4>2. PICK d \in DOMAIN requests[r].details : requests[r].details[d] = m /\ z = <<r, d>>
        BY <4>1
      <4>3. d \in DOMAIN requests'[r].details /\ requests'[r].details[d] = requests[r].details[d]
        <5>1. CASE r # q
          BY <1>5, <1>6, <4>2, <5>1
        <5>2. CASE r = q
          <6>1. requests'[r].details = Append(old, n) /\ d \in DOMAIN old
            BY <1>3, <1>5, <1>6, <4>2, <5>2 DEF old
          <6> QED
            BY <1>2, <5>2, <6>1 DEF old
        <5> QED
          BY <5>1, <5>2
      <4> QED
        BY <1>6, <4>2, <4>3, PlacesArePrimed
    <3>3. m = n => new \in Places(m)'
      <4>1. requests'[q].details = Append(old, n)
        BY <1>3, <1>5, <1>6
      <4> QED
        BY <1>2, <1>6, <4>1, PlacesArePrimed
    <3> HIDE DEF new
    <3>4. /\ Places(m)' \subseteq IF m = n THEN Places(m) \cup {new} ELSE Places(m)
          /\ (IF m = n THEN Places(m) \cup {new} ELSE Places(m)) \subseteq Places(m)'
      BY <3>1, <3>2, <3>3
    <3> QED
      BY <3>4
  <2> HIDE DEF new
  <2>4. IsFiniteSet(Opened(m)) /\ IsFiniteSet(Places(m))
    BY DEF HomeSets
  <2>5. /\ IsFiniteSet(Places(m)')
        /\ Cardinality(Places(m)') = IF m = n THEN Cardinality(Places(m)) + 1 ELSE Cardinality(Places(m))
    BY <2>2, <2>3, <2>4, OneMore
  <2>6. Homes(m)' = Cardinality(Opened(m)') + Cardinality(Places(m)')
    BY HomesArePrimed
  <2>7. Homes(m) = Cardinality(Opened(m)) + Cardinality(Places(m))
    BY HomesAre
  <2>8. Cardinality(Opened(m)) \in Nat /\ Cardinality(Places(m)) \in Nat
    BY <2>4, FS_CardinalityType
  <2>9. HomeSets(m)'
    BY <2>1, <2>4, <2>5 DEF HomeSets
  <2> QED
    BY <2>1, <2>5, <2>6, <2>7, <2>8, <2>9
<1>8. \A m \in Messages : \A r \in RequestIds : Recorded(m, r) => Recorded(m, r)'
  <2>1. SUFFICES ASSUME NEW m \in Messages, NEW r \in RequestIds, Recorded(m, r) PROVE Recorded(m, r)'
    OBVIOUS
  <2>2. CASE r # q
    <3>1. requests'[r] = requests[r]
      BY <1>5, <1>6, <2>2
    <3> QED
      BY <2>1, <3>1 DEF Recorded
  <2>3. CASE r = q
    <3>1. requests'[r].by = requests[r].by /\ requests'[r].details = Append(old, n)
      BY <1>3, <1>5, <1>6, <2>3
    <3>2. requests[r].details = old
      BY <2>3 DEF old
    <3> QED
      BY <1>2, <2>1, <3>1, <3>2 DEF Recorded
  <2> QED
    BY <2>2, <2>3
<1>9. Recorded(n, q)'
  <2>1. requests'[q].details = Append(old, n)
    BY <1>3, <1>5, <1>6
  <2> QED
    BY <1>2, <2>1 DEF Recorded
<1> QED
  BY <1>5, <1>7, <1>8, <1>9

-----------------------------------------------------------------------------
\* What a turn relies on stays, whatever others do.
LEMMA AsideTurn ==
  ASSUME IntakeInv, NEW b \in Actors, doing'[b] = doing[b], turn'[b] = turn[b],
         Len(sent') \in Nat, Len(sent) <= Len(sent'),
         Len(requests') \in Nat, Len(jobs') \in Nat, Grows
  PROVE  TurnInHand(b)'
<1>1. TurnInHand(b) /\ Len(sent) \in Nat /\ Len(requests) \in Nat /\ Len(jobs) \in Nat
  BY TypesOf DEF IntakeInv
<1>2. RequestIds \subseteq RequestIds' /\ JobIds \subseteq JobIds'
  BY <1>1 DEF RequestIds, JobIds, Grows
<1>3. OwnMessage(b)'
  BY <1>1 DEF TurnInHand, OwnMessage
<1>4. Routed(b)'
  <2>1. ASSUME \/ doing[b] \in {"ask", "junior", "enqueue", "reply"}
               \/ doing[b] = "analyze" /\ ~turn[b].guess
        PROVE  Recorded(turn[b].msg, turn[b].req)'
    <3>1. doing[b] \in InTurn \ {"route", "mint"}
      BY <2>1 DEF InTurn
    <3>2. turn[b].msg \in Messages
      BY <1>1, <3>1, MessageOf DEF TurnInHand, IntakeInv
    <3>3. turn[b].req \in RequestIds /\ Recorded(turn[b].msg, turn[b].req)
      BY <1>1, <2>1, <3>1 DEF TurnInHand, Routed
    <3> DEFINE m == turn[b].msg
    <3> DEFINE r == turn[b].req
    <3>5. turn'[b].msg = m /\ turn'[b].req = r
      OBVIOUS
    <3>6. requests'[r].by = m \/ m \in {requests'[r].details[d] : d \in DOMAIN requests'[r].details}
      BY <3>2, <3>3 DEF Grows, Recorded
    <3> QED
      BY <3>5, <3>6 DEF Recorded
  <2> QED
    BY <1>1, <1>2, <2>1 DEF TurnInHand, Routed
<1>5. JobInHand(b)'
  <2>1. WithJob(b)' <=> WithJob(b)
    BY DEF WithJob
  <2>2. WithJob(b) => turn[b].job \in JobIds
    BY <1>1 DEF TurnInHand, JobInHand
  <2>3. \/ doing[b] = "enqueue"
        \/ doing[b] = "keep" /\ turn[b].verdict = "plan_ready"
        => WithJob(b)
    BY DEF WithJob
  <2> QED
    BY <1>1, <1>2, <2>1, <2>2, <2>3 DEF TurnInHand, JobInHand, Grows
<1> QED
  BY <1>3, <1>4, <1>5 DEF TurnInHand

LEMMA SameGrows ==
  ASSUME IntakeTypeOK, UNCHANGED tables
  PROVE  Grows /\ QueuedIsSound' = QueuedIsSound
BY TypesOf DEF Grows, tables, QueuedIsSound, Recorded, JobIds, RequestIds

\* A recorded message stays so.
LEMMA StillHome ==
  ASSUME IntakeInv, Grows, Len(requests') \in Nat, handled' = handled,
         \A m \in handled : sent'[m].text = sent[m].text
  PROVE  HandledHasHome'
<1>1. RequestIds \subseteq RequestIds'
  BY TypesOf DEF IntakeInv, Grows, RequestIds
<1>2. \A m \in handled : m \in Messages
  BY IntakeAssumption DEF IntakeInv, IntakeTypeOK, Messages, Updates
<1> QED
  BY <1>1, <1>2 DEF IntakeInv, HandledHasHome, Grows

\* No message is recorded, and no turn begins.
LEMMA RoomSame ==
  ASSUME IntakeInv, runs' = runs,
         \A m \in Messages : /\ Opened(m)' = Opened(m) /\ Places(m)' = Places(m)
                             /\ Homes(m)' = Homes(m),
         \A b \in Actors : Homeless(b)' => Homeless(b) /\ turn'[b].msg = turn[b].msg
  PROVE  Room'
<1>1. \A m \in Messages : /\ IsFiniteSet(Opened(m))' /\ IsFiniteSet(Places(m))'
                          /\ Homes(m)' <= runs'[m]
  BY DEF IntakeInv, Room
<1>2. ASSUME NEW b \in Actors, NEW m \in Messages, Homeless(b)', turn'[b].msg = m
      PROVE  Homes(m)' < runs'[m]
  <2>1. Homes(m) < runs[m]
    BY <1>2 DEF IntakeInv, Room
  <2>2. Homes(m)' = Homes(m)
    OBVIOUS
  <2> QED
    BY <2>1, <2>2
<1> QED
  BY <1>1, <1>2 DEF Room

\* A turn records its message, which gives it a home more than before.
LEMMA RoomFilled ==
  ASSUME IntakeInv, runs' = runs, NEW a \in Actors, Homeless(a), ~Homeless(a)',
         NEW n \in Messages, turn[a].msg = n,
         \A m \in Messages : /\ HomeSets(m)'
                             /\ Homes(m)' = IF m = n THEN Homes(m) + 1 ELSE Homes(m),
         \A b \in Actors \ {a} : doing'[b] = doing[b] /\ turn'[b] = turn[b]
  PROVE  Room'
<1>1. \A m \in Messages : Homes(m) <= runs[m]
  BY DEF IntakeInv, Room
<1>2. Homes(n) < runs[n]
  BY DEF IntakeInv, Room
<1>3. ASSUME NEW m \in Messages PROVE Homes(m) \in Nat /\ runs[m] \in Nat
  <2>1. IsFiniteSet(Opened(m)) /\ IsFiniteSet(Places(m))
    BY DEF IntakeInv, Room
  <2> QED
    BY <2>1, FS_CardinalityType, HomesAre, TypesOf DEF IntakeInv
<1>4. \A m \in Messages : Homes(m)' <= runs'[m]
  BY <1>1, <1>2, <1>3
<1>5. \A m \in Messages : IsFiniteSet(Opened(m))' /\ IsFiniteSet(Places(m))'
  BY DEF HomeSets
<1>6. ASSUME NEW b \in Actors, NEW m \in Messages, Homeless(b)', turn'[b].msg = m
      PROVE  Homes(m)' < runs'[m]
  <2>1. b # a
    BY <1>6
  <2>2. Homeless(b) /\ turn[b].msg = m
    BY <1>6, <2>1 DEF Homeless
  <2>3. m # n
    BY <2>1, <2>2, OwnMessages DEF IntakeInv, TurnInHand, Homeless, InTurn
  <2>4. Homes(m) < runs[m]
    BY <2>2 DEF IntakeInv, Room
  <2>5. Homes(m)' = Homes(m)
    BY <2>3
  <2> QED
    BY <2>4, <2>5
<1> QED
  BY <1>4, <1>5, <1>6 DEF Room

LEMMA HomesFinite ==
  ASSUME IntakeInv PROVE \A m \in Messages : HomeSets(m)
BY DEF IntakeInv, Room, HomeSets

\* A step of a turn that is not its last.
LEMMA TurnStep ==
  ASSUME IntakeInv, NEW a \in Actors, doing[a] \in InTurn,
         NEW s \in InTurn, doing' = [doing EXCEPT ![a] = s],
         NEW t \in Turns(Len(requests'), Len(jobs')), turn' = [turn EXCEPT ![a] = t],
         t.msg = turn[a].msg,
         UNCHANGED <<feed, runs, handled>>,
         requests' \in Seq(RequestRow), jobs' \in Seq(JobRow(Len(requests'))), Grows,
         Routed(a)', JobInHand(a)', QueuedIsSound', Room'
  PROVE  IntakeInv'
<1>0. /\ Len(requests') \in Nat /\ Len(jobs') \in Nat
      /\ doing[a] \in InTurn /\ doing'[a] = s /\ turn'[a] = t
      /\ \A b \in Actors \ {a} : doing'[b] = doing[b] /\ turn'[b] = turn[b]
  BY TypesOf DEF IntakeInv
<1>f. UNCHANGED <<sent, acked, offset, batch, starts>>
  BY DEF feed
<1>1. IntakeTypeOK'
  <2>1. Turns(Len(requests), Len(jobs)) \subseteq Turns(Len(requests'), Len(jobs'))
    BY <1>0, TypesOf, Widen DEF IntakeInv, Grows
  <2>2. turn' \in [Actors -> Turns(Len(requests'), Len(jobs'))]
    BY <2>1, TypesOf DEF IntakeInv
  <2>3. doing' \in [Actors -> Stops]
    BY TypesOf DEF IntakeInv, Stops
  <2> QED
    BY <1>f, <2>2, <2>3 DEF IntakeInv, IntakeTypeOK, Turns, Stops, RequestRow, JobRow, RequestIds
<1>2. AddressesKnown'
  <2>1. \A m \in 1 .. Len(sent) : sent[m].to \in Nat /\ sent[m].to <= Len(requests)
    BY AddressOf DEF IntakeInv
  <2>2. Len(requests) \in Nat /\ Len(requests) <= Len(requests')
    BY TypesOf DEF IntakeInv, Grows
  <2> QED
    BY <1>f, <1>0, <2>1, <2>2 DEF AddressesKnown
<1>3. AckedIsHandled' /\ FeedInOrder'
  <2>1. doing'[Bot] \in InTurn <=> doing[Bot] \in InTurn
    BY <1>0 DEF Actors
  <2>2. turn'[Bot].msg = turn[Bot].msg
    BY <1>0 DEF Actors
  <2>3. doing'[Bot] # "off" => doing[Bot] # "off"
    BY <1>0 DEF Actors, InTurn
  <2> QED
    BY <1>f, <2>1, <2>2, <2>3 DEF IntakeInv, AckedIsHandled, FeedInOrder, Base
<1>4. TurnInHand(a)'
  <2>1. OwnMessage(a)'
    BY <1>0, <1>f DEF IntakeInv, TurnInHand, OwnMessage
  <2> QED
    BY <2>1 DEF TurnInHand
<1>5. \A b \in Actors \ {a} : TurnInHand(b)'
  BY <1>0, <1>f, AsideTurn, TypesOf DEF IntakeInv
<1>6. HandledHasHome'
  BY <1>f, <1>0, StillHome
<1> QED
  BY <1>1, <1>2, <1>3, <1>4, <1>5, <1>6 DEF IntakeInv

-----------------------------------------------------------------------------
\* The steps of a turn, one by one.
TurnOf(a) == turn[a] \in Turns(Len(requests), Len(jobs)) /\ turn[a].msg \in Messages

LEMMA HandOf ==
  ASSUME IntakeInv, NEW a \in Actors, doing[a] \in InTurn
  PROVE  /\ TurnOf(a) /\ Routed(a) /\ JobInHand(a)
         /\ turn = [turn EXCEPT ![a] = turn[a]]
         /\ Len(requests) \in Nat /\ Len(jobs) \in Nat
BY TypesOf, MessageOf DEF IntakeInv, TurnInHand, TurnOf

\* A step that leaves the tables alone.
LEMMA TurnOnly ==
  ASSUME IntakeInv, NEW a \in Actors, doing[a] \in InTurn,
         NEW s \in InTurn, doing' = [doing EXCEPT ![a] = s],
         NEW t \in Turns(Len(requests), Len(jobs)), turn' = [turn EXCEPT ![a] = t],
         t.msg = turn[a].msg, Homeless(a)' => Homeless(a),
         UNCHANGED <<feed, tables, runs, handled>>,
         Routed(a)', JobInHand(a)'
  PROVE  IntakeInv'
<1>1. requests' = requests /\ jobs' = jobs /\ Grows /\ QueuedIsSound'
  BY SameGrows DEF tables, IntakeInv
<1>2. Room'
  <2>1. \A m \in Messages : /\ Opened(m)' = Opened(m) /\ Places(m)' = Places(m)
                            /\ Homes(m)' = Homes(m)
    BY <1>1, HomesSame
  <2>2. \A b \in Actors : Homeless(b)' => Homeless(b) /\ turn'[b].msg = turn[b].msg
    BY TypesOf DEF IntakeInv, Homeless
  <2> QED
    BY <2>1, <2>2, RoomSame
<1> QED
  BY <1>1, <1>2, TurnStep, TypesOf DEF IntakeInv

LEMMA TargetOf ==
  ASSUME IntakeInv, NEW a \in Actors, doing[a] \in InTurn, NEW r \in RequestIds,
         NEW g \in BOOLEAN, Target(a, r, g)
  PROVE  \E t \in Turns(Len(requests), Len(jobs)) :
           /\ turn' = [turn EXCEPT ![a] = t]
           /\ t.msg = turn[a].msg /\ t.req = r /\ t.guess = g
<1> DEFINE t == [turn[a] EXCEPT !.req = r, !.append = TRUE, !.guess = g]
<1>1. turn[a] \in Turns(Len(requests), Len(jobs)) /\ r \in 0 .. Len(requests)
  BY HandOf DEF TurnOf, RequestIds
<1>2. t \in Turns(Len(requests), Len(jobs)) /\ t.msg = turn[a].msg /\ t.req = r /\ t.guess = g
  BY <1>1 DEF Turns
<1>3. turn' = [turn EXCEPT ![a] = t]
  BY DEF Target
<1> QED
  BY <1>2, <1>3

\* Routing decides on a request, and leaves the turn at a station that records.
LEMMA Targeted ==
  ASSUME IntakeInv, NEW a \in Actors, doing[a] = "route", NEW r \in RequestIds,
         NEW g \in BOOLEAN, Target(a, r, g), NEW s \in {"clear", "append", "analyze"},
         s = "analyze" <=> g, Goto(a, s), UNCHANGED <<feed, tables, runs, handled>>
  PROVE  IntakeInv'
<1>1. doing[a] \in InTurn /\ s \in InTurn
  BY DEF InTurn
<1>2. PICK t \in Turns(Len(requests), Len(jobs)) :
        turn' = [turn EXCEPT ![a] = t] /\ t.msg = turn[a].msg /\ t.req = r /\ t.guess = g
  BY <1>1, TargetOf
<1>3. doing' = [doing EXCEPT ![a] = s] /\ doing'[a] = s /\ turn'[a] = t
  BY <1>2, TypesOf DEF IntakeInv, Goto
<1>4. Routed(a)'
  BY <1>2, <1>3 DEF Routed, RequestIds, tables
<1>5. JobInHand(a)' /\ (Homeless(a)' => Homeless(a))
  BY <1>3 DEF JobInHand, WithJob, Homeless
<1> QED
  BY <1>1, <1>2, <1>3, <1>4, <1>5, TurnOnly

\* The latest of some requests: the intervals from them to the last one are
\* well-founded, so one of them is in all others.
LEMMA LatestIs ==
  ASSUME NEW S \in SUBSET RequestIds, S # {}, Len(requests) \in Nat
  PROVE  Latest(S) \in S
<1> DEFINE n == Len(requests)
<1> DEFINE T == {x .. n : x \in S}
<1>0. S \subseteq 1 .. n
  BY DEF RequestIds
<1> HIDE DEF n
<1>n. n \in Nat
  BY DEF n
<1>1. PICK s \in S : TRUE
  OBVIOUS
<1>2. T \subseteq FiniteSubsetsOf(1 .. n) /\ T # {}
  <2>1. s .. n \in T
    BY <1>1
  <2>2. \A x \in S : IsFiniteSet(x .. n) /\ x .. n \subseteq 1 .. n
    <3>1. SUFFICES ASSUME NEW x \in S PROVE IsFiniteSet(x .. n) /\ x .. n \subseteq 1 .. n
      OBVIOUS
    <3>2. x \in Int /\ n \in Int /\ x >= 1
      BY <1>0, <1>n
    <3>3. IsFiniteSet(x .. n)
      BY <3>2, FS_Interval
    <3>4. x .. n \subseteq 1 .. n
      BY <3>2
    <3> QED
      BY <3>3, <3>4
  <2> QED
    BY <2>1, <2>2 DEF FiniteSubsetsOf
<1>3. PICK I \in T : \A J \in T : <<J, I>> \notin StrictSubsetOrdering(1 .. n)
  <2> HIDE DEF T
  <2> QED
    BY <1>2, FS_StrictSubsetOrderingWellFounded, WFMin
<1>4. PICK k \in S : I = k .. n
  OBVIOUS
<1>5. ASSUME NEW x \in S, k < x PROVE FALSE
  <2>1. x .. n \in T
    OBVIOUS
  <2>2. x .. n \subseteq k .. n /\ k .. n \subseteq 1 .. n /\ k \in k .. n /\ k \notin x .. n
    BY <1>0, <1>n, <1>4, <1>5
  <2>3. <<x .. n, I>> \in StrictSubsetOrdering(1 .. n)
    BY <1>4, <2>2 DEF StrictSubsetOrdering
  <2> QED
    BY <1>3, <2>1, <2>3
<1>6. \A x \in S : x <= k
  BY <1>0, <1>4, <1>5, <1>n
<1> QED
  BY <1>4, <1>6 DEF Latest

LEMMA RouteSteps ==
  ASSUME IntakeInv, NEW a \in Actors, RouteAddressed(a) \/ RouteReply(a) \/ RouteGuess(a)
  PROVE  IntakeInv'
<1>0. doing[a] = "route" /\ UNCHANGED <<feed, tables, runs, handled>> /\ doing[a] \in InTurn
  BY DEF RouteAddressed, RouteReply, RouteGuess, InTurn
<1>1. CASE RouteAddressed(a)
  <2>1. PICK r \in Addressed(a) \ {0} : Target(a, r, FALSE)
    BY <1>1 DEF RouteAddressed
  <2>2. r \in RequestIds
    <3>1. CASE turn[a].msg \in Updates
      <4>1. a = Bot /\ turn[a].msg \in 1 .. Len(sent)
        BY <1>0, <3>1, IntakeAssumption DEF IntakeInv, TurnInHand, OwnMessage, Updates, Actors
      <4>2. sent[turn[a].msg].to \in Nat /\ sent[turn[a].msg].to <= Len(requests)
        BY <4>1, AddressOf DEF IntakeInv
      <4> QED
        BY <2>1, <3>1, <4>2, TypesOf DEF Addressed, RequestIds, IntakeInv
    <3>2. CASE turn[a].msg \notin Updates
      BY <2>1, <3>2, TypesOf DEF Addressed, RequestIds, IntakeInv
    <3> QED
      BY <3>1, <3>2
  <2> QED
    BY <1>0, <1>1, <2>1, <2>2, Targeted DEF RouteAddressed
<1>2. CASE RouteReply(a)
  <2>1. Awaiting \in SUBSET RequestIds /\ Awaiting # {}
    BY <1>2 DEF RouteReply, Awaiting
  <2>2. Latest(Awaiting) \in RequestIds
    BY <2>1, LatestIs, TypesOf DEF IntakeInv
  <2> QED
    BY <1>0, <1>2, <2>2, Targeted DEF RouteReply
<1>3. CASE RouteGuess(a) /\ requests # <<>>
  <2>1. Len(requests) \in RequestIds
    BY <1>3, TypesOf DEF IntakeInv, RequestIds
  <2> QED
    BY <1>0, <1>3, <2>1, Targeted DEF RouteGuess
<1>4. CASE RouteGuess(a) /\ requests = <<>>
  <2>1. Goto(a, "mint") /\ UNCHANGED turn
    BY <1>4 DEF RouteGuess
  <2>2. doing' = [doing EXCEPT ![a] = "mint"] /\ doing'[a] = "mint" /\ "mint" \in InTurn
    BY <2>1, TypesOf DEF IntakeInv, Goto, InTurn
  <2>3. turn' = [turn EXCEPT ![a] = turn[a]] /\ turn[a] \in Turns(Len(requests), Len(jobs))
    BY <1>0, <2>1, HandOf DEF TurnOf
  <2>4. Routed(a)' /\ JobInHand(a)' /\ Homeless(a)
    BY <1>0, <2>2 DEF Routed, JobInHand, WithJob, Homeless
  <2> QED
    BY <1>0, <2>2, <2>3, <2>4, TurnOnly
<1> QED
  BY <1>1, <1>2, <1>3, <1>4

\* The jobs that are queued stay sound as long as nothing recorded is lost.
LEMMA SoundStays ==
  ASSUME IntakeInv, jobs' = jobs,
         \A m \in Messages : \A r \in RequestIds : Recorded(m, r) => Recorded(m, r)'
  PROVE  QueuedIsSound'
<1>1. SUFFICES ASSUME NEW j \in JobIds, jobs[j].queued
               PROVE  jobs[j].kind # "ask" /\ Recorded(jobs[j].msg, jobs[j].req)'
  BY DEF QueuedIsSound, JobIds
<1>2. jobs[j].kind # "ask" /\ Recorded(jobs[j].msg, jobs[j].req)
  BY <1>1 DEF IntakeInv, QueuedIsSound
<1>3. jobs[j].req \in RequestIds /\ jobs[j].msg \in Messages
  BY RowsAre DEF IntakeInv, JobRow, RequestIds
<1>4. PICK m, r : m = jobs[j].msg /\ r = jobs[j].req
  OBVIOUS
<1>5. Recorded(m, r)'
  BY <1>2, <1>3, <1>4
<1> QED
  BY <1>2, <1>4, <1>5 DEF Recorded

\* Only whether a request waits for the user changes.
LEMMA WaitOnly ==
  ASSUME IntakeInv, NEW q \in RequestIds, NEW b \in BOOLEAN, jobs' = jobs,
         requests' = [requests EXCEPT ![q].awaiting = b]
  PROVE  /\ requests' \in Seq(RequestRow) /\ Len(requests') = Len(requests)
         /\ \A m \in Messages : /\ Opened(m)' = Opened(m) /\ Places(m)' = Places(m)
                                /\ Homes(m)' = Homes(m)
         /\ Grows /\ QueuedIsSound'
         /\ \A m : \A r \in RequestIds : Recorded(m, r)' <=> Recorded(m, r)
<1> DEFINE row == [requests[q] EXCEPT !.awaiting = b]
<1>0. requests \in Seq(RequestRow) /\ q \in 1 .. Len(requests) /\ RequestIds = 1 .. Len(requests)
  BY TypesOf DEF IntakeInv, RequestIds
<1>1. row \in RequestRow /\ row.by = requests[q].by /\ row.details = requests[q].details
  <2>1. requests[q] \in RequestRow
    BY RowsAre DEF IntakeInv
  <2> QED
    BY <2>1 DEF RequestRow
<1>2. requests' = [requests EXCEPT ![q] = row]
  OBVIOUS
<1> HIDE DEF row
<1>3. /\ requests' \in Seq(RequestRow) /\ Len(requests') = Len(requests)
      /\ \A r \in 1 .. Len(requests) : requests'[r] = IF r = q THEN row ELSE requests[r]
  <2> DEFINE new == [requests EXCEPT ![q] = row]
  <2>1. /\ new \in Seq(RequestRow) /\ Len(new) = Len(requests)
        /\ \A r \in 1 .. Len(requests) : new[r] = IF r = q THEN row ELSE requests[r]
    BY <1>0, <1>1, SeqSet
  <2>2. requests' = new
    BY <1>2
  <2> HIDE DEF new
  <2> QED
    BY <2>1, <2>2
<1>4. \A r \in RequestIds : requests'[r].by = requests[r].by /\ requests'[r].details = requests[r].details
  BY <1>0, <1>1, <1>3
<1>5. \A m \in Messages : /\ Opened(m)' = Opened(m) /\ Places(m)' = Places(m)
                          /\ Homes(m)' = Homes(m)
  BY <1>3, <1>4, HomesSame
<1>6. \A m : \A r \in RequestIds : Recorded(m, r)' <=> Recorded(m, r)
  BY <1>4 DEF Recorded
<1>7. Grows
  BY <1>3, <1>6, TypesOf DEF Grows, IntakeInv
<1>8. QueuedIsSound'
  BY <1>6, SoundStays
<1> QED
  BY <1>3, <1>5, <1>6, <1>7, <1>8

LEMMA ClearStep ==
  ASSUME IntakeInv, NEW a \in Actors, Clear(a) PROVE IntakeInv'
<1>0. doing[a] = "clear" /\ doing[a] \in InTurn /\ turn' = turn /\ jobs' = jobs
      /\ UNCHANGED <<feed, runs, handled>>
  BY DEF Clear, InTurn
<1>1. /\ turn[a].req \in RequestIds /\ TurnOf(a) /\ turn' = [turn EXCEPT ![a] = turn[a]]
      /\ ~turn[a].guess
  BY <1>0, HandOf DEF Routed
<1>2. doing' = [doing EXCEPT ![a] = "append"] /\ doing'[a] = "append" /\ "append" \in InTurn
  BY TypesOf DEF IntakeInv, Clear, Goto, InTurn
<1>3. requests' = [requests EXCEPT ![turn[a].req].awaiting = FALSE]
  BY DEF Clear
<1>4. PICK q \in RequestIds : q = turn[a].req /\ requests' = [requests EXCEPT ![q].awaiting = FALSE]
  BY <1>1, <1>3
<1>5. /\ requests' \in Seq(RequestRow) /\ Len(requests') = Len(requests)
      /\ \A m \in Messages : /\ Opened(m)' = Opened(m) /\ Places(m)' = Places(m)
                             /\ Homes(m)' = Homes(m)
      /\ Grows /\ QueuedIsSound'
  BY <1>0, <1>4, WaitOnly
<1>6. Room'
  <2>1. \A b \in Actors : Homeless(b)' => Homeless(b) /\ turn'[b].msg = turn[b].msg
    BY <1>0, <1>2, TypesOf DEF IntakeInv, Homeless
  <2> QED
    BY <1>0, <1>5, <2>1, RoomSame
<1>7. Routed(a)' /\ JobInHand(a)'
  BY <1>0, <1>1, <1>2, <1>5 DEF Routed, JobInHand, WithJob, RequestIds
<1>8. jobs' \in Seq(JobRow(Len(requests'))) /\ turn[a] \in Turns(Len(requests'), Len(jobs'))
  BY <1>0, <1>1, <1>5, TypesOf DEF IntakeInv, TurnOf
<1> QED
  BY <1>0, <1>1, <1>2, <1>5, <1>6, <1>7, <1>8, TurnStep

\* The request waits for the user, who was asked to clarify.
LEMMA AskStep ==
  ASSUME IntakeInv, NEW a \in Actors, Ask(a) PROVE IntakeInv'
<1>0. doing[a] = "ask" /\ doing[a] \in InTurn /\ turn' = turn /\ jobs' = jobs
      /\ UNCHANGED <<feed, runs, handled>>
  BY DEF Ask, InTurn
<1>1. turn[a].req \in RequestIds /\ TurnOf(a) /\ turn' = [turn EXCEPT ![a] = turn[a]]
      /\ Recorded(turn[a].msg, turn[a].req)
  BY <1>0, HandOf DEF Routed
<1>2. doing' = [doing EXCEPT ![a] = "reply"] /\ doing'[a] = "reply" /\ "reply" \in InTurn
  BY TypesOf DEF IntakeInv, Ask, Goto, InTurn
<1>3. requests' = [requests EXCEPT ![turn[a].req].awaiting = TRUE]
  BY DEF Ask
<1>4. PICK q \in RequestIds : q = turn[a].req /\ requests' = [requests EXCEPT ![q].awaiting = TRUE]
  BY <1>1, <1>3
<1>5. /\ requests' \in Seq(RequestRow) /\ Len(requests') = Len(requests)
      /\ \A m \in Messages : /\ Opened(m)' = Opened(m) /\ Places(m)' = Places(m)
                             /\ Homes(m)' = Homes(m)
      /\ Grows /\ QueuedIsSound'
      /\ \A m : \A r \in RequestIds : Recorded(m, r)' <=> Recorded(m, r)
  BY <1>0, <1>4, WaitOnly
<1>6. Room'
  <2>1. \A b \in Actors : Homeless(b)' => Homeless(b) /\ turn'[b].msg = turn[b].msg
    BY <1>0, <1>2, TypesOf DEF IntakeInv, Homeless
  <2> QED
    BY <1>0, <1>5, <2>1, RoomSame
<1>7. Routed(a)'
  <2>1. PICK m : m = turn[a].msg
    OBVIOUS
  <2>2. Recorded(m, q)'
    BY <1>1, <1>4, <1>5, <2>1
  <2>3. Recorded(turn[a].msg, turn[a].req)'
    BY <1>0, <1>4, <2>1, <2>2 DEF Recorded
  <2> QED
    BY <1>0, <1>1, <1>2, <1>5, <2>3 DEF Routed, RequestIds
<1>8. JobInHand(a)'
  BY <1>2 DEF JobInHand, WithJob
<1>9. jobs' \in Seq(JobRow(Len(requests'))) /\ turn[a] \in Turns(Len(requests'), Len(jobs'))
  BY <1>0, <1>1, <1>5, TypesOf DEF IntakeInv, TurnOf
<1> QED
  BY <1>0, <1>1, <1>2, <1>5, <1>6, <1>7, <1>8, <1>9, TurnStep

\* The message is recorded as a detail of the request it is for.
LEMMA DetailStep ==
  ASSUME IntakeInv, NEW a \in Actors, doing[a] \in {"append", "keep"}, AddDetail(a),
         NEW s \in {"analyze", "junior", "ask", "enqueue", "reply"}, Goto(a, s),
         s = "analyze" => ~turn[a].guess,
         s \in {"junior", "enqueue"} => WithJob(a),
         s = "enqueue" => doing[a] = "keep" /\ turn[a].verdict = "plan_ready",
         UNCHANGED <<feed, jobs, turn, runs, handled>>
  PROVE  IntakeInv'
<1>0. doing[a] \in InTurn /\ s \in InTurn
  BY DEF InTurn
<1>1. /\ turn[a].req \in RequestIds /\ TurnOf(a) /\ turn' = [turn EXCEPT ![a] = turn[a]]
      /\ JobInHand(a) /\ turn' = turn /\ jobs' = jobs
  BY <1>0, HandOf DEF Routed
<1>2. doing' = [doing EXCEPT ![a] = s] /\ doing'[a] = s
  BY TypesOf DEF IntakeInv, Goto
<1>3. PICK q \in RequestIds, n \in Messages :
        /\ q = turn[a].req /\ n = turn[a].msg
        /\ requests' = [requests EXCEPT ![q].details = Append(@, n)]
  BY <1>1 DEF TurnOf, AddDetail
<1>4. /\ requests' \in Seq(RequestRow) /\ Len(requests') = Len(requests)
      /\ \A m \in Messages : /\ HomeSets(m)'
                             /\ Homes(m)' = IF m = n THEN Homes(m) + 1 ELSE Homes(m)
      /\ \A m \in Messages : \A r \in RequestIds : Recorded(m, r) => Recorded(m, r)'
      /\ Recorded(n, q)'
  BY <1>3, DetailAdds, HomesFinite, TypesOf DEF IntakeInv
<1>5. Room'
  <2>1. Homeless(a) /\ ~Homeless(a)'
    BY <1>1, <1>2 DEF Homeless
  <2>2. \A b \in Actors \ {a} : doing'[b] = doing[b] /\ turn'[b] = turn[b]
    BY <1>1, <1>2, TypesOf DEF IntakeInv
  <2> QED
    BY <1>3, <1>4, <2>1, <2>2, RoomFilled
<1>6. Grows
  BY <1>1, <1>4, TypesOf DEF IntakeInv, Grows
<1>7. Routed(a)'
  <2>1. Recorded(turn[a].msg, turn[a].req)'
    BY <1>1, <1>3, <1>4 DEF Recorded
  <2> QED
    BY <1>1, <1>2, <1>4, <2>1 DEF Routed, RequestIds
<1>8. JobInHand(a)'
  BY <1>1, <1>2 DEF JobInHand, WithJob, JobIds
<1>9. QueuedIsSound'
  BY <1>1, <1>4, SoundStays, TypesOf DEF IntakeInv
<1>10. jobs' \in Seq(JobRow(Len(requests'))) /\ turn[a] \in Turns(Len(requests'), Len(jobs'))
  BY <1>1, <1>4, TypesOf DEF IntakeInv, TurnOf
<1> QED
  BY <1>0, <1>1, <1>2, <1>4, <1>5, <1>6, <1>7, <1>8, <1>9, <1>10, TurnStep

LEMMA AppendStep ==
  ASSUME IntakeInv, NEW a \in Actors, AppendDetail(a) PROVE IntakeInv'
<1>1. doing[a] = "append" /\ ~turn[a].guess
  BY HandOf DEF AppendDetail, Routed, InTurn
<1> QED
  BY <1>1, DetailStep DEF AppendDetail

LEMMA KeepStep ==
  ASSUME IntakeInv, NEW a \in Actors, Keep(a) PROVE IntakeInv'
<1>1. /\ doing[a] = "keep" /\ Goto(a, After(a, turn[a].verdict)) /\ AddDetail(a)
      /\ UNCHANGED <<feed, jobs, turn, runs, handled>>
  BY DEF Keep
<1>2. /\ After(a, turn[a].verdict) \in {"junior", "ask", "enqueue", "reply"}
      /\ After(a, turn[a].verdict) \in {"junior", "enqueue"} => WithJob(a)
      /\ After(a, turn[a].verdict) = "enqueue" => turn[a].verdict = "plan_ready"
  BY <1>1 DEF After, WithJob
<1> DEFINE s == After(a, turn[a].verdict)
<1> HIDE DEF s
<1>3. /\ s \in {"analyze", "junior", "ask", "enqueue", "reply"} /\ Goto(a, s)
      /\ s # "analyze" /\ (s \in {"junior", "enqueue"} => WithJob(a))
      /\ (s = "enqueue" => turn[a].verdict = "plan_ready")
  BY <1>1, <1>2 DEF s
<1> QED
  BY <1>1, <1>3, DetailStep

\* A request is opened for the message.
LEMMA MintStep ==
  ASSUME IntakeInv, NEW a \in Actors, Mint(a) PROVE IntakeInv'
<1>0. doing[a] = "mint" /\ doing[a] \in InTurn /\ jobs' = jobs
      /\ UNCHANGED <<feed, runs, handled>> /\ "analyze" \in InTurn
  BY DEF Mint, InTurn
<1>1. TurnOf(a) /\ Len(requests) \in Nat
  BY <1>0, HandOf
<1>2. PICK n \in Messages : n = turn[a].msg
  BY <1>1 DEF TurnOf
<1> DEFINE row == [by |-> n, details |-> <<>>, awaiting |-> FALSE]
<1>3. requests' = Append(requests, row)
  BY <1>2 DEF Mint
<1>4. /\ \A m \in Messages : /\ HomeSets(m)'
                             /\ Homes(m)' = IF m = n THEN Homes(m) + 1 ELSE Homes(m)
  BY <1>3, MintAdds, HomesFinite, TypesOf DEF IntakeInv
<1>5. row \in RequestRow /\ row.by = n
  BY DEF RequestRow
<1> HIDE DEF row
<1>6. /\ requests' \in Seq(RequestRow) /\ Len(requests') = Len(requests) + 1
      /\ \A k \in 1 .. Len(requests) : requests'[k] = requests[k]
      /\ requests'[Len(requests) + 1] = row
  BY <1>3, <1>5, SeqAdd, TypesOf DEF IntakeInv
<1>7. \A m \in Messages : \A r \in RequestIds : Recorded(m, r) => Recorded(m, r)'
  BY <1>6 DEF Recorded, RequestIds
<1> DEFINE t == [turn[a] EXCEPT !.req = Len(requests'), !.append = FALSE, !.guess = FALSE]
<1>8. turn' = [turn EXCEPT ![a] = t]
  BY DEF Mint
<1>9. t \in Turns(Len(requests'), Len(jobs')) /\ t.msg = n /\ t.req = Len(requests') /\ ~t.guess
  <2>1. turn[a] \in Turns(Len(requests), Len(jobs)) /\ turn[a].msg = n
    BY <1>1, <1>2 DEF TurnOf
  <2> DEFINE r == Len(requests')
  <2>2. r \in Nat /\ Len(requests) <= r /\ Len(jobs) \in Nat
    BY <1>1, <1>6, TypesOf DEF IntakeInv
  <2>3. turn[a] \in Turns(r, Len(jobs))
    BY <1>1, <2>1, <2>2 DEF Turns
  <2> HIDE DEF r
  <2> DEFINE u == [turn[a] EXCEPT !.req = r, !.append = FALSE, !.guess = FALSE]
  <2>4. r \in 0 .. r /\ u = [turn[a] EXCEPT !.req = r, !.append = FALSE, !.guess = FALSE]
    BY <2>2
  <2>5. t = u
    BY DEF r
  <2> HIDE DEF t, u
  <2>6. u \in Turns(r, Len(jobs)) /\ u.msg = turn[a].msg /\ u.req = r /\ u.guess = FALSE
    BY <2>2, <2>3, <2>4 DEF Turns
  <2>7. Len(jobs') = Len(jobs)
    BY <1>0
  <2> QED
    BY <2>1, <2>5, <2>6, <2>7 DEF r
<1> HIDE DEF t
<1>10. /\ doing' = [doing EXCEPT ![a] = "analyze"] /\ doing'[a] = "analyze" /\ turn'[a] = t
       /\ \A b \in Actors \ {a} : doing'[b] = doing[b] /\ turn'[b] = turn[b]
  BY <1>8, TypesOf DEF Mint, Goto, IntakeInv
<1>11. Room'
  <2>1. Homeless(a) /\ ~Homeless(a)'
    BY <1>0, <1>9, <1>10 DEF Homeless
  <2> QED
    BY <1>0, <1>2, <1>4, <1>10, <2>1, RoomFilled
<1>12. Grows
  BY <1>0, <1>1, <1>6, <1>7, TypesOf DEF Grows, IntakeInv
<1>13. QueuedIsSound'
  BY <1>0, <1>7, SoundStays
<1>14. Routed(a)'
  BY <1>1, <1>5, <1>6, <1>9, <1>10 DEF Routed, RequestIds, Recorded
<1>15. JobInHand(a)'
  BY <1>10 DEF JobInHand, WithJob
<1>16. jobs' \in Seq(JobRow(Len(requests')))
  <2>1. JobRow(Len(requests)) \subseteq JobRow(Len(requests'))
    BY <1>1, <1>6 DEF JobRow
  <2> QED
    BY <1>0, <2>1, SeqWiden, TypesOf DEF IntakeInv
<1> QED
  BY <1>0, <1>2, <1>6, <1>8, <1>9, <1>10, <1>11, <1>12, <1>13, <1>14, <1>15, <1>16, TurnStep

-----------------------------------------------------------------------------
\* The analysis, and what becomes of the job.
LEMMA RoomKept ==
  ASSUME IntakeInv, runs' = runs, requests' = requests,
         \A b \in Actors : Homeless(b)' => Homeless(b) /\ turn'[b].msg = turn[b].msg
  PROVE  Room'
<1>1. \A m \in Messages : /\ Opened(m)' = Opened(m) /\ Places(m)' = Places(m)
                          /\ Homes(m)' = Homes(m)
  BY HomesSame
<1> QED
  BY <1>1, RoomSame

LEMMA JobAdded ==
  ASSUME IntakeInv, requests' = requests, NEW q \in RequestIds, NEW n \in Messages,
         NEW k \in {"ask", "complex"},
         jobs' = Append(jobs, [req |-> q, msg |-> n, kind |-> k, queued |-> FALSE])
  PROVE  /\ jobs' \in Seq(JobRow(Len(requests'))) /\ Len(jobs') = Len(jobs) + 1
         /\ jobs'[Len(jobs')].msg = n /\ jobs'[Len(jobs')].req = q /\ jobs'[Len(jobs')].kind = k
         /\ Grows /\ QueuedIsSound'
<1> DEFINE row == [req |-> q, msg |-> n, kind |-> k, queued |-> FALSE]
<1>1. row \in JobRow(Len(requests)) /\ row.msg = n /\ row.req = q /\ row.kind = k /\ ~row.queued
  BY DEF JobRow, RequestIds
<1>2. jobs' = Append(jobs, row)
  OBVIOUS
<1> HIDE DEF row
<1>3. /\ jobs' \in Seq(JobRow(Len(requests))) /\ Len(jobs') = Len(jobs) + 1
      /\ \A i \in 1 .. Len(jobs) : jobs'[i] = jobs[i]
      /\ jobs'[Len(jobs) + 1] = row /\ Len(jobs) \in Nat
  BY <1>1, <1>2, SeqAdd, TypesOf DEF IntakeInv
<1>4. \A m, r : Recorded(m, r)' = Recorded(m, r)
  BY DEF Recorded
<1>5. Grows
  BY <1>3, <1>4, TypesOf DEF IntakeInv, Grows, JobIds
<1>6. QueuedIsSound'
  <2>1. SUFFICES ASSUME NEW j \in 1 .. Len(jobs) + 1, jobs'[j].queued
                 PROVE  jobs'[j].kind # "ask" /\ Recorded(jobs[j].msg, jobs[j].req)'
    BY <1>3 DEF QueuedIsSound, JobIds
  <2>2. j # Len(jobs) + 1
    BY <1>1, <1>3, <2>1
  <2>3. j \in JobIds /\ jobs'[j] = jobs[j]
    BY <1>3, <2>2 DEF JobIds
  <2>4. jobs[j].kind # "ask" /\ Recorded(jobs[j].msg, jobs[j].req)
    BY <2>1, <2>3 DEF IntakeInv, QueuedIsSound
  <2> QED
    BY <2>3, <2>4 DEF Recorded
<1> QED
  BY <1>1, <1>3, <1>5, <1>6

\* The job of a planned task is rewritten; its message and request stay.
LEMMA JobRewritten ==
  ASSUME IntakeInv, requests' = requests, NEW i \in JobIds, NEW row \in JobRow(Len(requests)),
         row.msg = jobs[i].msg, row.req = jobs[i].req, row.kind = "complex",
         Recorded(jobs[i].msg, jobs[i].req),
         jobs' = [jobs EXCEPT ![i] = row]
  PROVE  /\ jobs' \in Seq(JobRow(Len(requests'))) /\ Len(jobs') = Len(jobs)
         /\ jobs'[i] = row /\ Grows /\ QueuedIsSound'
<1> DEFINE new == [jobs EXCEPT ![i] = row]
<1>1. /\ new \in Seq(JobRow(Len(requests))) /\ Len(new) = Len(jobs)
      /\ \A k \in 1 .. Len(jobs) : new[k] = IF k = i THEN row ELSE jobs[k]
  BY SeqSet, TypesOf DEF IntakeInv
<1>2. jobs' = new
  OBVIOUS
<1> HIDE DEF new
<1>3. /\ jobs' \in Seq(JobRow(Len(requests))) /\ Len(jobs') = Len(jobs)
      /\ \A k \in JobIds : jobs'[k] = IF k = i THEN row ELSE jobs[k]
  BY <1>1, <1>2 DEF JobIds
<1>4. \A m, r : Recorded(m, r)' = Recorded(m, r)
  BY DEF Recorded
<1>5. Grows
  BY <1>3, <1>4, TypesOf DEF IntakeInv, Grows
<1>6. QueuedIsSound'
  <2>1. SUFFICES ASSUME NEW j \in JobIds, jobs'[j].queued
                 PROVE  jobs'[j].kind # "ask" /\ Recorded(jobs[j].msg, jobs[j].req)'
    BY <1>3 DEF QueuedIsSound, JobIds
  <2>2. CASE j = i
    BY <1>3, <2>2 DEF Recorded
  <2>3. CASE j # i
    <3>1. jobs'[j] = jobs[j]
      BY <1>3, <2>3
    <3>2. jobs[j].kind # "ask" /\ Recorded(jobs[j].msg, jobs[j].req)
      BY <2>1, <3>1 DEF IntakeInv, QueuedIsSound
    <3> QED
      BY <3>1, <3>2 DEF Recorded
  <2> QED
    BY <2>2, <2>3
<1> QED
  BY <1>3, <1>5, <1>6

\* A verdict for work, and only such, has a job; a plan is never for an ask.
LEMMA VerdictIs ==
  ASSUME NEW f \in BOOLEAN, NEW b \in BOOLEAN, NEW c \in BOOLEAN, NEW k \in {"ask", "complex"}
  PROVE  /\ Verdict(f, b, c, k) \in Verdicts
         /\ Verdict(f, b, c, k) = "plan_ready" => k = "complex"
BY DEF Verdict, Verdicts

LEMMA AfterIs ==
  ASSUME NEW a, NEW v \in Verdicts
  PROVE  /\ After(a, v) \in {"junior", "ask", "enqueue", "reply"}
         /\ After(a, v) = "junior" <=> v = "answer_ask"
         /\ After(a, v) = "enqueue" <=> v = "plan_ready"
BY DEF After, Verdicts

LEMMA AnalyzeStep ==
  ASSUME IntakeInv, NEW a \in Actors, Analyze(a) PROVE IntakeInv'
<1>0. doing[a] = "analyze" /\ doing[a] \in InTurn /\ requests' = requests
      /\ UNCHANGED <<feed, runs, handled>>
  BY DEF Analyze, InTurn
<1>1. /\ TurnOf(a) /\ turn[a].req \in RequestIds
      /\ ~turn[a].guess => Recorded(turn[a].msg, turn[a].req)
      /\ Len(requests) \in Nat /\ Len(jobs) \in Nat
  BY <1>0, HandOf DEF Routed
<1>2. turn[a].append \in BOOLEAN /\ turn[a].guess \in BOOLEAN
  BY <1>1 DEF TurnOf, Turns
<1>3. PICK belongs \in BOOLEAN, clear \in BOOLEAN, kind \in {"ask", "complex"} :
        LET verdict == Verdict(turn[a].append, belongs, clear, kind) IN
        /\ IF verdict \in {"answer_ask", "plan_ready"}
           THEN /\ jobs' = Append(jobs, [req |-> turn[a].req, msg |-> turn[a].msg, kind |-> kind,
                                         queued |-> FALSE])
                /\ turn' = [turn EXCEPT ![a].verdict = verdict, ![a].job = Len(jobs')]
           ELSE /\ turn' = [turn EXCEPT ![a].verdict = verdict]
                /\ UNCHANGED jobs
        /\ Goto(a, CASE turn[a].guess /\ belongs  -> "keep"
                     [] turn[a].guess /\ ~belongs -> "mint"
                     [] OTHER                     -> After(a, verdict))
  BY DEF Analyze
<1>4. PICK v \in Verdicts : /\ v = Verdict(turn[a].append, belongs, clear, kind)
                            /\ v = "plan_ready" => kind = "complex"
  BY <1>2, VerdictIs
<1> DEFINE s == CASE turn[a].guess /\ belongs  -> "keep"
                  [] turn[a].guess /\ ~belongs -> "mint"
                  [] OTHER                     -> After(a, v)
<1>5. /\ s \in {"keep", "mint", "junior", "ask", "enqueue", "reply"}
      /\ s \in {"keep", "mint"} <=> turn[a].guess
      /\ s = "junior" => v = "answer_ask"
      /\ s = "enqueue" => v = "plan_ready"
  BY <1>2, AfterIs
<1>6. /\ IF v \in {"answer_ask", "plan_ready"}
         THEN /\ jobs' = Append(jobs, [req |-> turn[a].req, msg |-> turn[a].msg, kind |-> kind,
                                       queued |-> FALSE])
              /\ turn' = [turn EXCEPT ![a].verdict = v, ![a].job = Len(jobs')]
         ELSE /\ turn' = [turn EXCEPT ![a].verdict = v]
              /\ UNCHANGED jobs
      /\ Goto(a, s)
  BY <1>3, <1>4
<1> HIDE DEF s
<1>7. s \in InTurn /\ doing' = [doing EXCEPT ![a] = s] /\ doing'[a] = s
  BY <1>5, <1>6, TypesOf DEF IntakeInv, Goto, InTurn
<1>8. ASSUME NEW t \in Turns(Len(requests'), Len(jobs')), turn' = [turn EXCEPT ![a] = t],
             t.msg = turn[a].msg, t.req = turn[a].req, t.guess = turn[a].guess, t.verdict = v,
             jobs' \in Seq(JobRow(Len(requests'))), Grows, QueuedIsSound',
             v \in {"answer_ask", "plan_ready"} =>
               /\ t.job \in JobIds'
               /\ jobs'[t.job].msg = turn[a].msg /\ jobs'[t.job].req = turn[a].req
               /\ jobs'[t.job].kind = kind
      PROVE  IntakeInv'
  <2>1. turn'[a] = t /\ \A b \in Actors \ {a} : doing'[b] = doing[b] /\ turn'[b] = turn[b]
    BY <1>7, <1>8, TypesOf DEF IntakeInv
  <2>2. Room'
    <3>1. \A b \in Actors : Homeless(b)' => Homeless(b) /\ turn'[b].msg = turn[b].msg
      BY <1>0, <1>5, <1>7, <1>8, <2>1 DEF Homeless
    <3> QED
      BY <1>0, <3>1, RoomKept
  <2>3. Routed(a)'
    <3>1. RequestIds' = RequestIds /\ (Recorded(turn[a].msg, turn[a].req) => Recorded(t.msg, t.req)')
      BY <1>0, <1>8 DEF RequestIds, Recorded
    <3>2. doing'[a] \in {"ask", "junior", "enqueue", "reply"} => ~turn[a].guess
      BY <1>5, <1>7
    <3>3. doing'[a] \notin {"clear", "append", "analyze"}
      BY <1>5, <1>7
    <3>4. turn'[a].req \in RequestIds'
      BY <1>1, <1>8, <2>1, <3>1
    <3>5. doing'[a] \in {"ask", "junior", "enqueue", "reply"} => Recorded(turn[a].msg, turn[a].req)'
      BY <1>1, <2>1, <3>1, <3>2
    <3> QED
      BY <3>3, <3>4, <3>5 DEF Routed
  <2>4. JobInHand(a)'
    <3>1. WithJob(a)' => v \in {"answer_ask", "plan_ready"}
      BY <1>5, <1>7, <1>8, <2>1 DEF WithJob
    <3>2. (doing'[a] = "enqueue" \/ (doing'[a] = "keep" /\ turn'[a].verdict = "plan_ready"))
          => v = "plan_ready"
      BY <1>5, <1>7, <1>8, <2>1
    <3> QED
      BY <1>4, <1>8, <2>1, <3>1, <3>2 DEF JobInHand
  <2>5. requests' \in Seq(RequestRow)
    BY <1>0, TypesOf DEF IntakeInv
  <2> QED
    BY <1>0, <1>7, <1>8, <2>2, <2>3, <2>4, <2>5, TurnStep
<1>9. CASE v \in {"answer_ask", "plan_ready"}
  <2>1. PICK q \in RequestIds, n \in Messages : q = turn[a].req /\ n = turn[a].msg
    BY <1>1 DEF TurnOf
  <2>2. jobs' = Append(jobs, [req |-> q, msg |-> n, kind |-> kind, queued |-> FALSE])
    BY <1>6, <1>9, <2>1
  <2>3. /\ jobs' \in Seq(JobRow(Len(requests'))) /\ Len(jobs') = Len(jobs) + 1
        /\ jobs'[Len(jobs')].msg = n /\ jobs'[Len(jobs')].req = q /\ jobs'[Len(jobs')].kind = kind
        /\ Grows /\ QueuedIsSound'
    BY <1>0, <2>2, JobAdded
  <2> DEFINE l == Len(jobs')
  <2> DEFINE t == [turn[a] EXCEPT !.verdict = v, !.job = l]
  <2>4. turn' = [turn EXCEPT ![a] = t]
    BY <1>6, <1>9
  <2>5. turn[a] \in Turns(Len(requests), Len(jobs)) /\ l = Len(jobs) + 1
    BY <1>1, <2>3 DEF TurnOf
  <2>6. l \in 1 .. l /\ 0 .. Len(jobs) \subseteq 0 .. l
    BY <1>1, <2>5
  <2>w. turn[a] \in Turns(Len(requests), l) /\ l \in 0 .. l
    <3>1. 1 .. l \subseteq 0 .. l
      OBVIOUS
    <3> HIDE DEF l
    <3> QED
      BY <2>5, <2>6, <3>1 DEF Turns
  <2> HIDE DEF l
  <2>7. t \in Turns(Len(requests), l) /\ t.msg = turn[a].msg /\ t.req = turn[a].req
        /\ t.guess = turn[a].guess /\ t.verdict = v /\ t.job = l
    BY <2>w DEF Turns
  <2> HIDE DEF t
  <2>8. t \in Turns(Len(requests'), Len(jobs')) /\ t.job \in JobIds'
    BY <1>0, <2>6, <2>7 DEF l, JobIds
  <2>9. jobs'[t.job].msg = turn[a].msg /\ jobs'[t.job].req = turn[a].req /\ jobs'[t.job].kind = kind
    BY <2>1, <2>3, <2>7 DEF l
  <2> QED
    BY <1>8, <2>3, <2>4, <2>7, <2>8, <2>9
<1>10. CASE v \notin {"answer_ask", "plan_ready"}
  <2> DEFINE t == [turn[a] EXCEPT !.verdict = v]
  <2>1. turn' = [turn EXCEPT ![a] = t] /\ jobs' = jobs
    BY <1>6, <1>10
  <2>2. turn[a] \in Turns(Len(requests), Len(jobs))
    BY <1>1 DEF TurnOf
  <2>3. t \in Turns(Len(requests), Len(jobs)) /\ t.msg = turn[a].msg /\ t.req = turn[a].req
        /\ t.guess = turn[a].guess /\ t.verdict = v
    BY <2>2 DEF Turns
  <2> HIDE DEF t
  <2>4. t \in Turns(Len(requests'), Len(jobs')) /\ jobs' \in Seq(JobRow(Len(requests')))
    BY <1>0, <2>1, <2>3, TypesOf DEF IntakeInv
  <2>5. Grows /\ QueuedIsSound'
    BY <1>0, <2>1, SameGrows DEF tables, IntakeInv
  <2> QED
    BY <1>8, <1>10, <2>1, <2>3, <2>4, <2>5
<1> QED
  BY <1>9, <1>10

LEMMA AnswerStep ==
  ASSUME IntakeInv, NEW a \in Actors, Answer(a) PROVE IntakeInv'
<1>0. doing[a] = "junior" /\ doing[a] \in InTurn /\ turn' = turn /\ "reply" \in InTurn
      /\ UNCHANGED <<feed, tables, runs, handled>> /\ requests' = requests
  BY DEF Answer, InTurn, tables
<1>1. /\ turn[a].req \in RequestIds /\ TurnOf(a) /\ turn' = [turn EXCEPT ![a] = turn[a]]
      /\ Recorded(turn[a].msg, turn[a].req)
  BY <1>0, HandOf DEF Routed
<1>2. doing' = [doing EXCEPT ![a] = "reply"] /\ doing'[a] = "reply"
  BY TypesOf DEF IntakeInv, Answer, Goto
<1>3. Routed(a)'
  BY <1>0, <1>1, <1>2 DEF Routed, RequestIds, Recorded
<1>4. JobInHand(a)' /\ ~Homeless(a)'
  BY <1>2 DEF JobInHand, WithJob, Homeless
<1> QED
  BY <1>0, <1>1, <1>2, <1>3, <1>4, TurnOnly DEF TurnOf

\* The job of the turn is a planned task, or becomes one.
LEMMA PlannedStep ==
  ASSUME IntakeInv, NEW a \in Actors, doing[a] \in {"junior", "enqueue"},
         NEW s \in {"enqueue", "reply"}, doing' = [doing EXCEPT ![a] = s],
         NEW t \in Turns(Len(requests), Len(jobs)), turn' = [turn EXCEPT ![a] = t],
         t.msg = turn[a].msg, t.req = turn[a].req, t.job = turn[a].job,
         NEW row \in JobRow(Len(requests)),
         row.msg = jobs[turn[a].job].msg, row.req = jobs[turn[a].job].req, row.kind = "complex",
         jobs' = [jobs EXCEPT ![turn[a].job] = row],
         requests' = requests, UNCHANGED <<feed, runs, handled>>
  PROVE  IntakeInv'
<1>0. doing[a] \in InTurn /\ s \in InTurn /\ WithJob(a)
  BY DEF InTurn, WithJob
<1>1. /\ turn[a].req \in RequestIds /\ Recorded(turn[a].msg, turn[a].req)
      /\ turn[a].job \in JobIds
      /\ jobs[turn[a].job].msg = turn[a].msg /\ jobs[turn[a].job].req = turn[a].req
  BY <1>0, HandOf DEF Routed, JobInHand
<1>2. PICK i \in JobIds : i = turn[a].job
  BY <1>1
<1>3. /\ jobs' \in Seq(JobRow(Len(requests'))) /\ Len(jobs') = Len(jobs)
      /\ jobs'[i] = row /\ Grows /\ QueuedIsSound'
  <2>1. /\ row.msg = jobs[i].msg /\ row.req = jobs[i].req /\ jobs' = [jobs EXCEPT ![i] = row]
        /\ jobs[i].msg = turn[a].msg /\ jobs[i].req = turn[a].req
    BY <1>1, <1>2
  <2>2. Recorded(jobs[i].msg, jobs[i].req)
    BY <1>1, <2>1
  <2> QED
    BY <2>1, <2>2, JobRewritten
<1>4. /\ turn'[a] = t /\ doing'[a] = s
      /\ \A b \in Actors \ {a} : doing'[b] = doing[b] /\ turn'[b] = turn[b]
  BY TypesOf DEF IntakeInv
<1>5. Room'
  <2>1. \A b \in Actors : Homeless(b)' => Homeless(b) /\ turn'[b].msg = turn[b].msg
    BY <1>4 DEF Homeless
  <2> QED
    BY <2>1, RoomKept
<1>6. Routed(a)'
  <2>1. Recorded(turn[a].msg, turn[a].req)'
    BY <1>1, <1>4 DEF Recorded
  <2> QED
    BY <1>1, <1>4, <2>1 DEF Routed, RequestIds
<1>7. JobInHand(a)'
  <2>1. t.job = i /\ i \in JobIds' /\ jobs'[i].msg = t.msg /\ jobs'[i].req = t.req
        /\ jobs'[i].kind = "complex"
    BY <1>1, <1>2, <1>3 DEF JobIds
  <2> QED
    BY <1>4, <2>1 DEF JobInHand
<1>8. requests' \in Seq(RequestRow) /\ t \in Turns(Len(requests'), Len(jobs'))
  BY <1>3, TypesOf DEF IntakeInv
<1> QED
  BY <1>0, <1>3, <1>5, <1>6, <1>7, <1>8, TurnStep

LEMMA EscalateStep ==
  ASSUME IntakeInv, NEW a \in Actors, Escalate(a) PROVE IntakeInv'
<1>0. doing[a] = "junior" /\ doing[a] \in InTurn /\ WithJob(a)
      /\ UNCHANGED <<feed, runs, handled>> /\ requests' = requests
  BY DEF Escalate, InTurn, WithJob
<1>1. turn[a] \in Turns(Len(requests), Len(jobs)) /\ turn[a].job \in JobIds
  BY <1>0, HandOf DEF JobInHand, TurnOf
<1>2. doing' = [doing EXCEPT ![a] = "enqueue"]
  BY DEF Escalate, Goto
<1> DEFINE t == [turn[a] EXCEPT !.verdict = "plan_ready"]
<1> DEFINE row == [jobs[turn[a].job] EXCEPT !.kind = "complex"]
<1>3. turn' = [turn EXCEPT ![a] = t] /\ jobs' = [jobs EXCEPT ![turn[a].job] = row]
  BY DEF Escalate
<1>4. t \in Turns(Len(requests), Len(jobs)) /\ t.msg = turn[a].msg /\ t.req = turn[a].req
      /\ t.job = turn[a].job
  BY <1>1 DEF Turns, Verdicts
<1>5. row \in JobRow(Len(requests)) /\ row.kind = "complex"
      /\ row.msg = jobs[turn[a].job].msg /\ row.req = jobs[turn[a].job].req
  <2>1. jobs[turn[a].job] \in JobRow(Len(requests))
    BY <1>1, RowsAre DEF IntakeInv
  <2> QED
    BY <2>1 DEF JobRow
<1> HIDE DEF t, row
<1> QED
  BY <1>0, <1>2, <1>3, <1>4, <1>5, PlannedStep

LEMMA EnqueueStep ==
  ASSUME IntakeInv, NEW a \in Actors, EnqueueJob(a) PROVE IntakeInv'
<1>0. doing[a] = "enqueue" /\ doing[a] \in InTurn /\ WithJob(a)
      /\ UNCHANGED <<feed, runs, handled>> /\ requests' = requests
  BY DEF EnqueueJob, InTurn, WithJob
<1>1. /\ TurnOf(a) /\ turn[a].job \in JobIds /\ turn' = [turn EXCEPT ![a] = turn[a]]
      /\ jobs[turn[a].job].kind = "complex"
  BY <1>0, HandOf DEF JobInHand, EnqueueJob
<1>2. doing' = [doing EXCEPT ![a] = "reply"]
  BY DEF EnqueueJob, Goto
<1> DEFINE row == [jobs[turn[a].job] EXCEPT !.queued = a = Bot]
<1>3. jobs' = [jobs EXCEPT ![turn[a].job] = row]
  BY DEF EnqueueJob
<1>4. row \in JobRow(Len(requests)) /\ row.kind = jobs[turn[a].job].kind
      /\ row.msg = jobs[turn[a].job].msg /\ row.req = jobs[turn[a].job].req
  <2>1. jobs[turn[a].job] \in JobRow(Len(requests))
    BY <1>1, RowsAre DEF IntakeInv
  <2> QED
    BY <2>1 DEF JobRow
<1> HIDE DEF row
<1> QED
  BY <1>0, <1>1, <1>2, <1>3, <1>4, PlannedStep DEF TurnOf

-----------------------------------------------------------------------------
\* The steps between the turns, and those that begin and end them.

LEMMA OffTurn ==
  ASSUME NEW a \in Actors, doing[a] \notin InTurn
  PROVE  TurnInHand(a) /\ ~Homeless(a) /\ doing[a] # "route"
BY DEF TurnInHand, OwnMessage, Routed, JobInHand, WithJob, Homeless, InTurn

LEMMA OffTurnPrimed ==
  ASSUME NEW a \in Actors, doing'[a] \notin InTurn
  PROVE  TurnInHand(a)' /\ ~Homeless(a)'
BY DEF TurnInHand, OwnMessage, Routed, JobInHand, WithJob, Homeless, InTurn

LEMMA BetweenTurns ==
  ASSUME IntakeInv, NEW a \in Actors,
         NEW s \in Stops \ InTurn, doing' = [doing EXCEPT ![a] = s],
         NEW t \in Turns(Len(requests), Len(jobs)), turn' = [turn EXCEPT ![a] = t],
         UNCHANGED <<sent, tables, runs>>,
         acked' \in 0 .. Len(sent), offset' \in 0 .. Len(sent) + 1,
         batch' \in Seq(1 .. Len(sent)), starts' \in 1 .. MaxStarts,
         handled' \subseteq 1 .. Len(sent),
         AckedIsHandled', FeedInOrder', HandledHasHome'
  PROVE  IntakeInv'
<1>0. /\ doing'[a] = s /\ \A b \in Actors \ {a} : doing'[b] = doing[b] /\ turn'[b] = turn[b]
      /\ sent' = sent /\ requests' = requests /\ jobs' = jobs
      /\ Len(sent) \in Nat /\ Len(requests) \in Nat /\ Len(jobs) \in Nat
  BY TypesOf DEF IntakeInv, tables
<1>1. IntakeTypeOK'
  <2>1. doing' \in [Actors -> Stops] /\ turn' \in [Actors -> Turns(Len(requests), Len(jobs))]
    BY TypesOf DEF IntakeInv
  <2> QED
    BY <1>0, <2>1 DEF IntakeInv, IntakeTypeOK, Turns, Stops, RequestIds
<1>2. AddressesKnown'
  BY <1>0 DEF IntakeInv, AddressesKnown
<1>3. Grows /\ QueuedIsSound'
  BY SameGrows DEF IntakeInv
<1>4. ASSUME NEW b \in Actors PROVE TurnInHand(b)'
  <2>1. CASE b = a
    BY <1>0, <2>1, OffTurnPrimed
  <2>2. CASE b # a
    BY <1>0, <1>3, <2>2, AsideTurn
  <2> QED
    BY <2>1, <2>2
<1>5. Room'
  <2>1. ~Homeless(a)'
    BY <1>0, OffTurnPrimed
  <2>2. \A b \in Actors : Homeless(b)' => Homeless(b) /\ turn'[b].msg = turn[b].msg
    BY <1>0, <2>1 DEF Homeless
  <2> QED
    BY <1>0, <2>2, RoomKept
<1> QED
  BY <1>1, <1>2, <1>3, <1>4, <1>5 DEF IntakeInv

LEMMA IdleIs ==
  ASSUME IntakeTypeOK PROVE Idle \in Turns(Len(requests), Len(jobs))
<1>1. 0 \in 0 .. Len(requests) /\ 0 \in 0 .. Len(jobs) /\ "none" \in Verdicts
  BY TypesOf DEF Verdicts
<1> QED
  BY <1>1 DEF Idle, Turns

\* A message is taken up.
LEMMA BeginStep ==
  ASSUME IntakeInv, NEW a \in Actors, doing[a] \notin InTurn,
         NEW m, IF a = Bot THEN m \in 1 .. Len(sent) ELSE m = a,
         Begin(a, m), UNCHANGED <<sent, acked, starts, tables, handled>>,
         offset' \in 0 .. Len(sent) + 1, batch' \in Seq(1 .. Len(sent)), FeedInOrder'
  PROVE  IntakeInv'
<1> DEFINE t == [Idle EXCEPT !.msg = m]
<1>m. m \in Messages
  BY IntakeAssumption DEF IntakeInv, IntakeTypeOK, Messages, Updates, Actors
<1>t. t \in Turns(Len(requests), Len(jobs)) /\ t.msg = m
  BY <1>m, IdleIs DEF IntakeInv, Turns
<1>0. /\ turn' = [turn EXCEPT ![a] = t] /\ doing' = [doing EXCEPT ![a] = "route"]
      /\ runs' = [runs EXCEPT ![m] = @ + 1]
  BY DEF Begin, Goto
<1> HIDE DEF t
<1>1. /\ doing'[a] = "route" /\ turn'[a] = t
      /\ \A b \in Actors \ {a} : doing'[b] = doing[b] /\ turn'[b] = turn[b]
      /\ sent' = sent /\ requests' = requests /\ jobs' = jobs
      /\ Len(sent) \in Nat /\ Len(requests) \in Nat /\ Len(jobs) \in Nat
  BY <1>0, TypesOf DEF IntakeInv, tables
<1>2. /\ runs' \in [Messages -> Nat] /\ runs'[m] = runs[m] + 1
      /\ \A n \in Messages : runs[n] \in Nat /\ runs[n] <= runs'[n]
  BY <1>0, <1>m, TypesOf DEF IntakeInv
<1>3. IntakeTypeOK'
  <2>1. turn' \in [Actors -> Turns(Len(requests), Len(jobs))]
    BY <1>0, <1>t, TypesOf DEF IntakeInv
  <2>2. doing' \in [Actors -> Stops]
    BY <1>0, TypesOf DEF IntakeInv, Stops, InTurn
  <2> QED
    BY <1>1, <1>2, <2>1, <2>2 DEF IntakeInv, IntakeTypeOK, Turns, Stops, RequestIds
<1>4. AddressesKnown' /\ AckedIsHandled' /\ HandledHasHome'
  <2>1. AddressesKnown' /\ AckedIsHandled'
    BY <1>1 DEF IntakeInv, AddressesKnown, AckedIsHandled
  <2>2. HandledHasHome'
    BY <1>1 DEF IntakeInv, HandledHasHome, Recorded, RequestIds
  <2> QED
    BY <2>1, <2>2
<1>5. Grows /\ QueuedIsSound'
  BY SameGrows DEF IntakeInv
<1>6. ASSUME NEW b \in Actors PROVE TurnInHand(b)'
  <2>1. CASE b = a
    BY <1>1, <1>t, <2>1 DEF TurnInHand, OwnMessage, Routed, JobInHand, WithJob
  <2>2. CASE b # a
    BY <1>1, <1>5, <2>2, AsideTurn
  <2> QED
    BY <2>1, <2>2
<1>7. Room'
  <2>1. \A n \in Messages : /\ Opened(n)' = Opened(n) /\ Places(n)' = Places(n)
                            /\ Homes(n)' = Homes(n)
    BY <1>1, HomesSame
  <2>2. ASSUME NEW n \in Messages PROVE Homes(n) \in Nat /\ Homes(n) <= runs[n]
    <3>1. IsFiniteSet(Opened(n)) /\ IsFiniteSet(Places(n)) /\ Homes(n) <= runs[n]
      BY DEF IntakeInv, Room
    <3> QED
      BY <3>1, FS_CardinalityType, HomesAre
  <2>3. \A n \in Messages : /\ IsFiniteSet(Opened(n))' /\ IsFiniteSet(Places(n))'
                            /\ Homes(n)' <= runs'[n]
    BY <1>2, <2>1, <2>2 DEF IntakeInv, Room
  <2>4. ASSUME NEW b \in Actors, NEW n \in Messages, Homeless(b)', turn'[b].msg = n
        PROVE  Homes(n)' < runs'[n]
    <3>1. CASE b = a
      <4>1. n = m
        BY <1>1, <1>t, <2>4, <3>1
      <4> QED
        BY <1>2, <2>1, <2>2, <4>1
    <3>2. CASE b # a
      <4>1. Homeless(b) /\ turn[b].msg = n
        BY <1>1, <2>4, <3>2 DEF Homeless
      <4>2. Homes(n) < runs[n]
        BY <4>1 DEF IntakeInv, Room
      <4> QED
        BY <1>2, <2>1, <2>2, <4>2
    <3> QED
      BY <3>1, <3>2
  <2> QED
    BY <2>3, <2>4 DEF Room
<1> QED
  BY <1>3, <1>4, <1>5, <1>6, <1>7 DEF IntakeInv

\* The feed stays as it is, and the bot where it is with it.
LEMMA SameFeed ==
  ASSUME IntakeInv, UNCHANGED feed
  PROVE  /\ UNCHANGED <<sent, acked, starts>>
         /\ acked' \in 0 .. Len(sent) /\ offset' \in 0 .. Len(sent) + 1
         /\ batch' \in Seq(1 .. Len(sent)) /\ starts' \in 1 .. MaxStarts
         /\ Base' = Base /\ batch' = batch /\ offset' = offset
BY DEF feed, IntakeInv, IntakeTypeOK, Base

\* A turn that is over, the handled updates aside.
LEMMA TurnEnds ==
  ASSUME IntakeInv, NEW a \in Actors, NEW s \in Stops \ InTurn, Goto(a, s),
         turn' = [turn EXCEPT ![a] = Idle], UNCHANGED <<feed, tables, runs>>,
         handled \subseteq handled', handled' \subseteq 1 .. Len(sent), HandledHasHome',
         s # "off" => \A m \in 1 .. offset - 1 :
           \/ m \in handled'
           \/ a # Bot /\ doing[Bot] \in InTurn /\ turn[Bot].msg = m
           \/ a # Bot /\ doing[Bot] = "off",
         s = "off" => a = Bot
  PROVE  IntakeInv'
<1>1. /\ doing' = [doing EXCEPT ![a] = s] /\ doing'[a] = s
      /\ \A b \in Actors \ {a} : doing'[b] = doing[b] /\ turn'[b] = turn[b]
      /\ Bot \in Actors /\ Len(sent) \in Nat
  BY TypesOf DEF IntakeInv, Goto
<1>2. /\ UNCHANGED <<sent, acked, starts>> /\ offset' = offset /\ batch' = batch /\ Base' = Base
      /\ acked' \in 0 .. Len(sent) /\ offset' \in 0 .. Len(sent) + 1
      /\ batch' \in Seq(1 .. Len(sent)) /\ starts' \in 1 .. MaxStarts
  BY SameFeed
<1>3. AckedIsHandled'
  BY <1>2 DEF IntakeInv, AckedIsHandled
<1>4. FeedInOrder'
  <2>1. \A i \in DOMAIN batch : batch[i] = Base + i
    BY DEF IntakeInv, FeedInOrder
  <2>2. ASSUME doing'[Bot] # "off", NEW m \in 1 .. offset - 1
        PROVE  m \in handled' \/ (doing'[Bot] \in InTurn /\ turn'[Bot].msg = m)
    BY <1>1, <2>2
  <2> QED
    BY <1>2, <2>1, <2>2 DEF FeedInOrder
<1> QED
  BY <1>1, <1>2, <1>3, <1>4, BetweenTurns, IdleIs DEF IntakeInv

LEMMA HandledSame ==
  ASSUME IntakeInv, UNCHANGED <<sent, tables, handled>>
  PROVE  HandledHasHome' /\ handled' \subseteq 1 .. Len(sent)
<1>1. sent' = sent /\ requests' = requests /\ handled' = handled
  BY DEF tables
<1>2. HandledHasHome'
  BY <1>1 DEF IntakeInv, HandledHasHome, Recorded, RequestIds
<1> QED
  BY <1>1, <1>2 DEF IntakeInv, IntakeTypeOK

LEMMA ReplyStep ==
  ASSUME IntakeInv, NEW a \in Actors, Reply(a) PROVE IntakeInv'
<1>0. /\ doing[a] = "reply" /\ doing[a] \in InTurn /\ turn' = [turn EXCEPT ![a] = Idle]
      /\ UNCHANGED <<feed, tables, runs>> /\ sent' = sent /\ requests' = requests
  BY DEF Reply, InTurn, feed, tables
<1>h. /\ handled \subseteq 1 .. Len(sent) /\ HandledHasHome /\ FeedInOrder
      /\ doing[Bot] # "off" =>
           \A m \in 1 .. offset - 1 : m \in handled \/ (doing[Bot] \in InTurn /\ turn[Bot].msg = m)
  BY DEF IntakeInv, IntakeTypeOK, FeedInOrder
<1>1. CASE a = Bot
  <2>1. Goto(a, "next") /\ handled' = handled \cup {turn[a].msg} /\ "next" \in Stops \ InTurn
    BY <1>1 DEF Reply, Stops, InTurn
  <2>2. PICK n \in 1 .. Len(sent) : n = turn[a].msg
    BY <1>0, <1>1 DEF IntakeInv, TurnInHand, OwnMessage
  <2>3. handled' \subseteq 1 .. Len(sent) /\ handled \subseteq handled'
    BY <1>h, <2>1, <2>2
  <2>4. HandledHasHome'
    <3>1. turn[a].req \in RequestIds /\ Recorded(turn[a].msg, turn[a].req)
      BY <1>0, HandOf DEF Routed
    <3>2. \E r \in RequestIds : Recorded(n, r)
      BY <2>2, <3>1
    <3>3. \A m \in handled' : sent[m].text => \E r \in RequestIds : Recorded(m, r)
      BY <1>h, <2>1, <2>2, <3>2 DEF HandledHasHome
    <3> QED
      BY <1>0, <3>3 DEF HandledHasHome, Recorded, RequestIds
  <2>5. \A m \in 1 .. offset - 1 : m \in handled'
    BY <1>0, <1>1, <1>h, <2>1
  <2> QED
    BY <1>0, <2>1, <2>3, <2>4, <2>5, TurnEnds
<1>2. CASE a # Bot
  <2>1. Goto(a, "end") /\ handled' = handled /\ "end" \in Stops \ InTurn
    BY <1>2 DEF Reply, Stops, InTurn
  <2>2. HandledHasHome'
    BY <1>0, <2>1, HandledSame
  <2>3. \A m \in 1 .. offset - 1 :
           \/ m \in handled'
           \/ a # Bot /\ doing[Bot] \in InTurn /\ turn[Bot].msg = m
           \/ a # Bot /\ doing[Bot] = "off"
    BY <1>2, <1>h, <2>1
  <2> QED
    BY <1>0, <1>h, <2>1, <2>2, <2>3, TurnEnds
<1> QED
  BY <1>1, <1>2

LEMMA DiesStep ==
  ASSUME IntakeInv, Dies PROVE IntakeInv'
<1>1. /\ Goto(Bot, "off") /\ turn' = [turn EXCEPT ![Bot] = Idle] /\ "off" \in Stops \ InTurn
      /\ UNCHANGED <<feed, tables, runs, handled>> /\ sent' = sent /\ Bot \in Actors
  BY DEF Dies, Stops, InTurn, feed, Actors
<1>2. HandledHasHome' /\ handled' \subseteq 1 .. Len(sent) /\ handled \subseteq handled'
  BY <1>1, HandledSame
<1> QED
  BY <1>1, <1>2, TurnEnds

LEMMA EndOfBatchStep ==
  ASSUME IntakeInv, EndOfBatch PROVE IntakeInv'
<1>0. /\ doing[Bot] = "next" /\ UNCHANGED <<feed, tables, runs, handled>> /\ turn' = turn
      /\ Bot \in Actors /\ doing[Bot] \notin InTurn /\ sent' = sent
  BY DEF EndOfBatch, Actors, InTurn, feed
<1>1. PICK s \in {"poll", "off"} : Goto(Bot, s)
  BY DEF EndOfBatch
<1>2. doing' = [doing EXCEPT ![Bot] = s] /\ s \in Stops \ InTurn /\ doing'[Bot] = s
  BY <1>0, <1>1, TypesOf DEF IntakeInv, Goto, Stops, InTurn
<1>3. turn' = [turn EXCEPT ![Bot] = turn[Bot]] /\ turn[Bot] \in Turns(Len(requests), Len(jobs))
  BY <1>0, TypesOf DEF IntakeInv
<1>4. AckedIsHandled' /\ FeedInOrder'
  <2>1. AckedIsHandled'
    BY <1>0, SameFeed DEF IntakeInv, AckedIsHandled
  <2>2. \A m \in 1 .. offset - 1 : m \in handled
    BY <1>0 DEF IntakeInv, FeedInOrder
  <2>3. \A i \in DOMAIN batch : batch[i] = Base + i
    BY DEF IntakeInv, FeedInOrder
  <2>4. FeedInOrder'
    BY <1>0, <2>2, <2>3, SameFeed DEF FeedInOrder
  <2> QED
    BY <2>1, <2>4
<1>5. HandledHasHome' /\ handled' \subseteq 1 .. Len(sent)
  BY <1>0, HandledSame
<1> QED
  BY <1>0, <1>2, <1>3, <1>4, <1>5, SameFeed, BetweenTurns

\* The poll and the start leave all before the offset handled.
LEMMA PollStep ==
  ASSUME IntakeInv, PollUpdates PROVE IntakeInv'
<1>0. /\ doing[Bot] = "poll" /\ doing[Bot] \notin InTurn /\ Bot \in Actors
      /\ UNCHANGED <<sent, offset, starts, tables, turn, runs, handled>>
      /\ acked' = Base /\ batch' = [i \in 1 .. Len(sent) - acked' |-> acked' + i]
      /\ Goto(Bot, "poll") \/ Goto(Bot, "next")
  BY DEF PollUpdates, Actors, InTurn, Base
<1>1. doing' = [doing EXCEPT ![Bot] = "next"] /\ "next" \in Stops \ InTurn
  BY DEF PollUpdates, Goto, Stops, InTurn
<1>2. turn' = [turn EXCEPT ![Bot] = turn[Bot]] /\ turn[Bot] \in Turns(Len(requests), Len(jobs))
  BY <1>0, TypesOf DEF IntakeInv
<1>3. /\ Len(sent) \in Nat /\ acked \in 0 .. Len(sent) /\ offset \in 0 .. Len(sent) + 1
      /\ starts \in 1 .. MaxStarts
  BY TypesOf DEF IntakeInv, IntakeTypeOK
<1>4. acked' \in 0 .. Len(sent) /\ Base' = acked'
  BY <1>0, <1>3 DEF Base
<1>5. batch' \in Seq(1 .. Len(sent)) /\ \A i \in DOMAIN batch' : batch'[i] = acked' + i
  <2>0. PICK k \in Nat, n \in Nat : k = acked' /\ n = Len(sent) - k /\ k <= Len(sent)
    BY <1>3, <1>4
  <2>1. \A i \in 1 .. n : k + i \in 1 .. Len(sent)
    <3>1. PICK l \in Nat : l = Len(sent) /\ k <= l /\ n = l - k
      BY <1>3, <2>0
    <3>2. \A i \in 1 .. n : k + i \in 1 .. l
      BY <3>1
    <3> QED
      BY <3>1, <3>2
  <2>2. batch' = [i \in 1 .. n |-> k + i]
    BY <1>0, <2>0
  <2>3. batch' \in [1 .. n -> 1 .. Len(sent)]
    BY <2>1, <2>2
  <2> QED
    BY <2>0, <2>2, <2>3
<1>6. \A m \in 1 .. offset - 1 : m \in handled
  BY <1>0 DEF IntakeInv, FeedInOrder
<1>7. AckedIsHandled'
  BY <1>0, <1>3, <1>6 DEF IntakeInv, AckedIsHandled, Base
<1>8. FeedInOrder'
  BY <1>0, <1>4, <1>5, <1>6 DEF FeedInOrder
<1>9. HandledHasHome' /\ handled' \subseteq 1 .. Len(sent)
  BY <1>0, HandledSame
<1> QED
  BY <1>0, <1>1, <1>2, <1>3, <1>4, <1>5, <1>7, <1>8, <1>9, BetweenTurns

LEMMA StartBotStep ==
  ASSUME IntakeInv, StartBot PROVE IntakeInv'
<1>0. /\ doing[Bot] = "off" /\ doing[Bot] \notin InTurn /\ Bot \in Actors
      /\ UNCHANGED <<sent, acked, tables, turn, runs, handled>>
      /\ starts < MaxStarts /\ starts' = starts + 1 /\ offset' = 0 /\ batch' = <<>>
  BY DEF StartBot, Actors, InTurn
<1>1. doing' = [doing EXCEPT ![Bot] = "poll"] /\ "poll" \in Stops \ InTurn
  BY DEF StartBot, Goto, Stops, InTurn
<1>2. turn' = [turn EXCEPT ![Bot] = turn[Bot]] /\ turn[Bot] \in Turns(Len(requests), Len(jobs))
  BY <1>0, TypesOf DEF IntakeInv
<1>3. /\ Len(sent) \in Nat /\ acked' \in 0 .. Len(sent) /\ offset' \in 0 .. Len(sent) + 1
      /\ starts' \in 1 .. MaxStarts /\ batch' \in Seq(1 .. Len(sent))
  BY <1>0, TypesOf, IntakeAssumption DEF IntakeInv, IntakeTypeOK
<1>4. AckedIsHandled' /\ FeedInOrder'
  BY <1>0 DEF IntakeInv, AckedIsHandled, FeedInOrder
<1>5. HandledHasHome' /\ handled' \subseteq 1 .. Len(sent)
  BY <1>0, HandledSame
<1> QED
  BY <1>0, <1>1, <1>2, <1>3, <1>4, <1>5, BetweenTurns

\* The next update of the batch follows the offset.
LEMMA NextUpdate ==
  ASSUME IntakeInv, doing[Bot] = "next", batch # <<>>,
         offset' = Head(batch) + 1, batch' = Tail(batch), acked' = acked
  PROVE  /\ Head(batch) = Base + 1 /\ Head(batch) \in 1 .. Len(sent)
         /\ offset' \in 0 .. Len(sent) + 1 /\ batch' \in Seq(1 .. Len(sent))
         /\ Base' = Base + 1 /\ \A i \in DOMAIN batch' : batch'[i] = Base' + i
         /\ \A m \in 1 .. offset' - 1 : m \in handled \/ m = Head(batch)
<1>1. /\ batch \in Seq(1 .. Len(sent)) /\ Len(sent) \in Nat
      /\ acked \in 0 .. Len(sent) /\ offset \in 0 .. Len(sent) + 1
  BY TypesOf DEF IntakeInv, IntakeTypeOK
<1>2. \A i \in DOMAIN batch : batch[i] = Base + i
  BY DEF IntakeInv, FeedInOrder
<1>3. Base \in Nat
  BY <1>1 DEF Base
<1>4. /\ 1 \in DOMAIN batch /\ Head(batch) = batch[1] /\ Head(batch) \in 1 .. Len(sent)
      /\ Tail(batch) \in Seq(1 .. Len(sent))
      /\ \A i \in DOMAIN Tail(batch) : i \in Nat /\ i + 1 \in DOMAIN batch /\ Tail(batch)[i] = batch[i + 1]
  BY <1>1
<1>5. Head(batch) = Base + 1
  BY <1>2, <1>4
<1>6. offset' = Base + 2 /\ Base' = Base + 1
  BY <1>3, <1>5 DEF Base
<1>7. \A m \in 1 .. Base : m \in handled
  BY <1>1 DEF IntakeInv, FeedInOrder, AckedIsHandled, Base, InTurn
<1> HIDE DEF Base
<1>8. \A i \in DOMAIN batch' : batch'[i] = Base' + i
  BY <1>2, <1>3, <1>4, <1>6
<1>9. \A m \in 1 .. offset' - 1 : m \in handled \/ m = Head(batch)
  BY <1>3, <1>5, <1>6, <1>7
<1> QED
  BY <1>1, <1>4, <1>5, <1>6, <1>8, <1>9

LEMMA TakeStep ==
  ASSUME IntakeInv, Take PROVE IntakeInv'
<1>0. /\ doing[Bot] = "next" /\ doing[Bot] \notin InTurn /\ Bot \in Actors /\ batch # <<>>
      /\ offset' = Head(batch) + 1 /\ batch' = Tail(batch)
      /\ UNCHANGED <<sent, acked, starts, tables>>
      /\ IF sent[Head(batch)].text
         THEN Begin(Bot, Head(batch)) /\ UNCHANGED handled
         ELSE handled' = handled \cup {Head(batch)} /\ UNCHANGED <<doing, turn, runs>>
  BY DEF Take, Actors, InTurn
<1>1. PICK h \in 1 .. Len(sent) : h = Head(batch)
  BY <1>0, NextUpdate
<1>2. /\ offset' \in 0 .. Len(sent) + 1 /\ batch' \in Seq(1 .. Len(sent))
      /\ \A i \in DOMAIN batch' : batch'[i] = Base' + i
      /\ \A m \in 1 .. offset' - 1 : m \in handled \/ m = h
  BY <1>0, <1>1, NextUpdate
<1>3. CASE sent[h].text
  <2>1. Begin(Bot, h) /\ handled' = handled
    BY <1>0, <1>1, <1>3
  <2>2. turn'[Bot].msg = h /\ doing'[Bot] \in InTurn
    <3>1. [Idle EXCEPT !.msg = h].msg = h
      BY DEF Idle
    <3> QED
      BY <1>0, <2>1, <3>1, TypesOf DEF IntakeInv, Begin, Goto, InTurn
  <2>3. FeedInOrder'
    BY <1>2, <2>1, <2>2 DEF FeedInOrder
  <2> QED
    BY <1>0, <1>2, <2>1, <2>3, BeginStep
<1>4. CASE ~sent[h].text
  <2>1. handled' = handled \cup {h} /\ UNCHANGED <<doing, turn, runs>>
    BY <1>0, <1>1, <1>4
  <2>2. handled \subseteq 1 .. Len(sent) /\ acked \in 0 .. Len(sent) /\ starts \in 1 .. MaxStarts
    BY DEF IntakeInv, IntakeTypeOK
  <2>3. FeedInOrder'
    BY <1>2, <2>1 DEF FeedInOrder
  <2>4. AckedIsHandled'
    BY <1>0, <2>1 DEF IntakeInv, AckedIsHandled
  <2>5. HandledHasHome'
    <3>1. sent' = sent /\ requests' = requests
      BY <1>0 DEF tables
    <3> QED
      BY <1>4, <2>1, <3>1 DEF IntakeInv, HandledHasHome, Recorded, RequestIds
  <2>6. /\ doing' = [doing EXCEPT ![Bot] = "next"] /\ "next" \in Stops \ InTurn
        /\ turn' = [turn EXCEPT ![Bot] = turn[Bot]] /\ turn[Bot] \in Turns(Len(requests), Len(jobs))
    BY <1>0, <2>1, TypesOf DEF IntakeInv, Stops, InTurn
  <2>7. /\ acked' \in 0 .. Len(sent) /\ starts' \in 1 .. MaxStarts
        /\ handled' \subseteq 1 .. Len(sent)
    BY <1>0, <2>1, <2>2
  <2> QED
    BY <1>0, <1>2, <2>1, <2>3, <2>4, <2>5, <2>6, <2>7, BetweenTurns
<1> QED
  BY <1>3, <1>4

LEMMA PromptStep ==
  ASSUME IntakeInv, NEW a \in Shells, Prompt(a) PROVE IntakeInv'
<1>0. /\ a \in Actors /\ a # Bot /\ doing[a] \notin InTurn /\ Begin(a, a)
      /\ UNCHANGED <<feed, tables, handled>> /\ Bot \in Actors
  BY IntakeAssumption DEF Prompt, Actors, InTurn
<1>1. doing'[Bot] = doing[Bot] /\ turn'[Bot] = turn[Bot]
  BY <1>0, TypesOf DEF IntakeInv, Begin, Goto
<1>2. FeedInOrder'
  BY <1>0, <1>1, SameFeed DEF IntakeInv, FeedInOrder
<1> QED
  BY <1>0, <1>2, SameFeed, BeginStep

\* Steps outside of the turns.
LEMMA PostStep ==
  ASSUME IntakeInv, Post PROVE IntakeInv'
<1>0. /\ UNCHANGED <<acked, offset, batch, starts, tables, doing, turn, runs, handled>>
      /\ requests' = requests /\ jobs' = jobs /\ Len(sent) < MaxUpdates
  BY DEF Post, tables
<1>1. PICK u \in [text : BOOLEAN, to : 0 .. Len(requests)] : sent' = Append(sent, u)
  BY DEF Post
<1>2. u \in Update /\ u.to <= Len(requests)
  BY TypesOf DEF IntakeInv, Update
<1>3. /\ sent' \in Seq(Update) /\ Len(sent') = Len(sent) + 1
      /\ \A m \in 1 .. Len(sent) : sent'[m] = sent[m]
      /\ sent'[Len(sent) + 1] = u /\ Len(sent) \in Nat
  BY <1>1, <1>2, SeqAdd, TypesOf DEF IntakeInv, IntakeTypeOK
<1>4. IntakeTypeOK'
  <2>1. Len(sent') <= MaxUpdates
    BY <1>0, <1>3, IntakeAssumption
  <2>2. 1 .. Len(sent) \subseteq 1 .. Len(sent') /\ 0 .. Len(sent) \subseteq 0 .. Len(sent')
        /\ 0 .. Len(sent) + 1 \subseteq 0 .. Len(sent') + 1
    BY <1>3
  <2>3. /\ acked \in 0 .. Len(sent) /\ offset \in 0 .. Len(sent) + 1
        /\ batch \in Seq(1 .. Len(sent)) /\ handled \subseteq 1 .. Len(sent)
    BY DEF IntakeInv, IntakeTypeOK
  <2>4. batch' \in Seq(1 .. Len(sent'))
    BY <1>0, <2>2, <2>3, SeqWiden
  <2> QED
    BY <1>0, <1>3, <2>1, <2>2, <2>3, <2>4 DEF IntakeInv, IntakeTypeOK, RequestIds
<1>5. AddressesKnown'
  BY <1>0, <1>2, <1>3 DEF IntakeInv, AddressesKnown
<1>6. AckedIsHandled' /\ FeedInOrder'
  BY <1>0 DEF IntakeInv, AckedIsHandled, FeedInOrder, Base
<1>7. Grows /\ QueuedIsSound'
  BY <1>0, SameGrows DEF IntakeInv
<1>8. \A b \in Actors : TurnInHand(b)'
  BY <1>0, <1>3, <1>7, AsideTurn, TypesOf DEF IntakeInv
<1>9. Room'
  BY <1>0, RoomKept DEF Homeless
<1>10. HandledHasHome'
  <2>1. \A m \in handled : sent'[m].text = sent[m].text
    BY <1>3 DEF IntakeInv, IntakeTypeOK
  <2> QED
    BY <1>0, <1>7, <2>1, StillHome, TypesOf DEF IntakeInv
<1> QED
  BY <1>4, <1>5, <1>6, <1>7, <1>8, <1>9, <1>10 DEF IntakeInv

LEMMA JobAsksStep ==
  ASSUME IntakeInv, NEW j \in JobIds, JobAsks(j) PROVE IntakeInv'
<1>0. /\ UNCHANGED <<feed, jobs, doing, turn, runs, handled>>
      /\ UNCHANGED <<sent, acked, offset, batch, starts>>
      /\ requests' = [requests EXCEPT ![jobs[j].req].awaiting = TRUE]
  BY DEF JobAsks, feed
<1>1. jobs[j].req \in RequestIds
  BY RowsAre DEF IntakeInv, JobRow, RequestIds
<1>2. PICK q \in RequestIds : requests' = [requests EXCEPT ![q].awaiting = TRUE]
  BY <1>0, <1>1
<1>3. /\ requests' \in Seq(RequestRow) /\ Len(requests') = Len(requests)
      /\ \A m \in Messages : /\ Opened(m)' = Opened(m) /\ Places(m)' = Places(m)
                             /\ Homes(m)' = Homes(m)
      /\ Grows /\ QueuedIsSound'
  BY <1>0, <1>2, WaitOnly
<1>4. Len(requests') \in Nat /\ Len(jobs') \in Nat /\ Len(sent') \in Nat /\ Len(sent) <= Len(sent')
  BY <1>0, <1>3, TypesOf DEF IntakeInv
<1>5. IntakeTypeOK'
  BY <1>0, <1>3 DEF IntakeInv, IntakeTypeOK, RequestRow, RequestIds
<1>6. AddressesKnown' /\ AckedIsHandled' /\ FeedInOrder'
  BY <1>0, <1>3 DEF IntakeInv, AddressesKnown, AckedIsHandled, FeedInOrder, Base
<1>7. \A b \in Actors : TurnInHand(b)'
  BY <1>0, <1>3, <1>4, AsideTurn
<1>8. Room'
  BY <1>0, <1>3, RoomSame DEF Homeless
<1>9. HandledHasHome'
  BY <1>0, <1>3, <1>4, StillHome
<1> QED
  BY <1>3, <1>5, <1>6, <1>7, <1>8, <1>9 DEF IntakeInv

-----------------------------------------------------------------------------
LEMMA TurnSteps ==
  ASSUME IntakeInv, NEW a \in Actors, Route(a) \/ Judge(a) PROVE IntakeInv'
BY RouteSteps, ClearStep, AppendStep, MintStep, AnalyzeStep, KeepStep, AskStep, AnswerStep,
   EscalateStep, EnqueueStep, ReplyStep DEF Route, Judge

LEMMA IntakeStep == IntakeInv /\ [IntakeNext]_intakeVars => IntakeInv'
<1> SUFFICES ASSUME IntakeInv, [IntakeNext]_intakeVars PROVE IntakeInv'
  OBVIOUS
<1>1. CASE Post
  BY <1>1, PostStep
<1>2. CASE Serve
  <2>1. Bot \in Actors
    BY DEF Actors
  <2> QED
    BY <1>2, <2>1, PollStep, TakeStep, EndOfBatchStep, TurnSteps DEF Serve
<1>3. CASE Dies
  BY <1>3, DiesStep
<1>4. CASE StartBot
  BY <1>4, StartBotStep
<1>5. CASE \E a \in Shells : Prompt(a) \/ Route(a) \/ Judge(a)
  <2>1. Shells \subseteq Actors
    BY DEF Actors
  <2> QED
    BY <1>5, <2>1, PromptStep, TurnSteps
<1>6. CASE \E j \in JobIds : JobAsks(j)
  BY <1>6, JobAsksStep
<1>7. CASE UNCHANGED intakeVars
  <2>1. /\ UNCHANGED <<sent, acked, offset, batch, starts, requests, jobs, doing, turn, runs, handled>>
        /\ UNCHANGED <<sent, tables, handled>>
    BY <1>7 DEF intakeVars, feed, tables
  <2>2. IntakeTypeOK' /\ AddressesKnown' /\ AckedIsHandled' /\ FeedInOrder'
    BY <2>1 DEF IntakeInv, IntakeTypeOK, AddressesKnown, AckedIsHandled, FeedInOrder, Base, RequestIds
  <2>3. Grows /\ QueuedIsSound'
    BY <2>1, SameGrows DEF IntakeInv
  <2>4. \A b \in Actors : TurnInHand(b)'
    BY <2>1, <2>3, AsideTurn, TypesOf DEF IntakeInv
  <2>5. Room'
    BY <2>1, RoomKept DEF Homeless
  <2>6. HandledHasHome'
    BY <2>1, HandledSame
  <2> QED
    BY <2>2, <2>3, <2>4, <2>5, <2>6 DEF IntakeInv
<1> QED
  BY <1>1, <1>2, <1>3, <1>4, <1>5, <1>6, <1>7 DEF IntakeNext

LEMMA OneHomeOf == IntakeInv => OneHomePerTurn
<1> SUFFICES ASSUME IntakeInv, NEW m \in Messages
             PROVE  Homes(m) <= runs[m] /\ (m \in handled /\ sent[m].text => Homes(m) >= 1)
  BY DEF OneHomePerTurn
<1>1. Homes(m) <= runs[m] /\ IsFiniteSet(Opened(m)) /\ IsFiniteSet(Places(m))
  BY DEF IntakeInv, Room
<1>2. ASSUME m \in handled, sent[m].text PROVE Homes(m) >= 1
  <2>1. PICK r \in RequestIds : Recorded(m, r)
    BY <1>2 DEF IntakeInv, HandledHasHome
  <2>2. Opened(m) # {} \/ Places(m) # {}
    <3>1. CASE requests[r].by = m
      BY <3>1 DEF Opened
    <3>2. CASE requests[r].by # m
      <4>1. PICK d \in DOMAIN requests[r].details : requests[r].details[d] = m
        BY <2>1, <3>2 DEF Recorded
      <4> QED
        BY <4>1, PlacesAre
    <3> QED
      BY <3>1, <3>2
  <2>3. Cardinality(Opened(m)) \in Nat /\ Cardinality(Places(m)) \in Nat
    BY <1>1, FS_CardinalityType
  <2>4. Cardinality(Opened(m)) # 0 \/ Cardinality(Places(m)) # 0
    BY <1>1, <2>2, FS_EmptySet
  <2> QED
    BY <2>3, <2>4, HomesAre
<1> QED
  BY <1>1, <1>2

\* Whatever the steps of the bot, of the sessions and of the users, an update
\* that a later poll confirms was handled to its end, or was no text at all: an
\* update in the hands of a bot that died is sent again.
THEOREM NoMessageIsLost == IntakeSpec => []AckedIsHandled
<1>1. IntakeInv => AckedIsHandled
  BY DEF IntakeInv
<1> QED
  BY IntakeStart, IntakeStep, <1>1, PTL DEF IntakeSpec

\* Every message that was handled opened a request or was recorded in one, and
\* none more often than it was taken up, however its guess turned out.
THEOREM EveryMessageHasItsHome == IntakeSpec => []OneHomePerTurn
BY IntakeStart, IntakeStep, OneHomeOf, PTL DEF IntakeSpec

\* What the worker finds in the queue is never an ask, and comes from a message
\* that its request holds.
THEOREM OnlyPlannedWorkIsQueued == IntakeSpec => []QueuedIsSound
<1>1. IntakeInv => QueuedIsSound
  BY DEF IntakeInv
<1> QED
  BY IntakeStart, IntakeStep, <1>1, PTL DEF IntakeSpec

\* Every variable of the intake stays in its type: each turn on a request and a
\* job that exist, each job on a request.
THEOREM IntakeTypeCorrect == IntakeSpec => []IntakeTypeOK
<1>1. IntakeInv => IntakeTypeOK
  BY DEF IntakeInv
<1> QED
  BY IntakeStart, IntakeStep, <1>1, PTL DEF IntakeSpec
=============================================================================
