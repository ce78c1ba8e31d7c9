-------------------------- MODULE PhaseWork_proofs --------------------------
(***************************************************************************)
(* Proofs about the work on a phase, for any registry, permissions and     *)
(* proposals, any number of tasks, steps and retries, and failures and     *)
(* kills between any two commits.                                          *)
(***************************************************************************)
EXTENDS PhaseWork, FiniteSetTheorems, TLAPS

Progress == UNION {[S -> Outcomes] : S \in SUBSET Proposals}

Locals == [at : Stations, task : Tasks, step : 0 .. MaxSteps, told : Progress,
           doing : SUBSET Proposals, offered : SUBSET Skills]

InTask == work.at \in {"propose", "run", "record"}

\* A worker at work has the row, and a job that waits has a run left.
Live ==
  /\ ~At("idle") => row = "running" /\ attempts \in Runs
  /\ row = "pending" => attempts <= MaxRetries

\* The task in hand is begun, each step has told one action at most, and what
\* is being done is one action of which nothing has been told yet.
Hand ==
  /\ InTask => /\ status[work.task] = "InProgress"
               /\ IsFiniteSet(DOMAIN work.told)
               /\ Cardinality(DOMAIN work.told) <= work.step
  /\ work.at \in {"run", "record"} =>
       /\ work.step < MaxSteps
       /\ \E a \in Proposals : work.doing = {a} /\ a \notin DOMAIN work.told

\* A run, or a task of the plan in hand, that is still to come.
ToCome(n, t) == n > attempts \/ (n = attempts /\ ~At("idle") /\ status[t] = "Approved")

\* Nothing is on record of what is still to come.
Clean ==
  \A n \in Runs, t \in Tasks, a \in Proposals :
    ToCome(n, t) => deeds[<<n, t, a>>] = 0 /\ log[<<n, t, a>>] = 0

Ok(a) == a \in DOMAIN work.told /\ work.told[a] = "ok"
Waits(a) == a \in DOMAIN work.told /\ work.told[a] = "pending_confirmation"
Recording(a) == At("record") /\ a \in work.doing

\* What has happened in the task in hand, action by action: at any station of
\* the loop, not only where the model is asked again.
Agrees(a) ==
  /\ log[Key(a)] = 1 <=> Ok(a)
  /\ log[Key(a)] = 0 <=> ~Ok(a)
  /\ Ok(a) \/ Recording(a) => deeds[Key(a)] = 1
  /\ Waits(a) => deeds[Key(a)] = 0
  /\ deeds[Key(a)] > 0 => a \in DOMAIN work.told \/ Recording(a)

Reported == InTask => \A a \in Proposals : Agrees(a)

Invoked(n, t) == {a \in Proposals : deeds[<<n, t, a>>] > 0}

Counted ==
  \A n \in Runs, t \in Tasks :
    /\ \A a \in Proposals : deeds[<<n, t, a>>] <= 1
    /\ IsFiniteSet(Invoked(n, t)) /\ Cardinality(Invoked(n, t)) <= MaxSteps

Unrecorded == {k \in Keys : log[k] < deeds[k]}

Audited ==
  /\ \A k \in Keys : log[k] <= deeds[k]
  /\ IsFiniteSet(Unrecorded)
  /\ Cardinality(Unrecorded) <= faults + (IF At("record") THEN 1 ELSE 0)

IInv == TypeOK /\ Live /\ Hand /\ Clean /\ Reported /\ Counted /\ Audited

-----------------------------------------------------------------------------
LEMMA NoneToldType == NoneTold \in Progress /\ DOMAIN NoneTold = {}
BY DEF NoneTold, Progress

LEMMA IdleType == Idle \in Locals
BY NoneToldType, WorkAssumption DEF Idle, Locals, Stations, Tasks

LEMMA TypeOf == TypeOK => work \in Locals
BY DEF TypeOK, Locals, Progress

\* What is told after one more action.
LEMMA ToldMore ==
  ASSUME work \in Locals, NEW a \in Proposals, NEW what \in Outcomes
  PROVE  /\ Told(a, what) \in Progress
         /\ DOMAIN Told(a, what) = DOMAIN work.told \cup {a}
         /\ Told(a, what)[a] = what
         /\ \A b \in DOMAIN work.told \ {a} : Told(a, what)[b] = work.told[b]
<1>1. PICK S \in SUBSET Proposals : work.told \in [S -> Outcomes]
  BY DEF Locals, Progress
<1>2. Told(a, what) \in [S \cup {a} -> Outcomes]
  BY <1>1 DEF Told
<1>3. Told(a, what) \in Progress
  BY <1>2 DEF Progress
<1> QED
  BY <1>1, <1>3 DEF Told

LEMMA KeyType == ASSUME work \in Locals, attempts \in Runs, NEW a \in Proposals PROVE Key(a) \in Keys
BY DEF Key, Keys, Locals

LEMMA InitInv == Init => IInv
<1> SUFFICES ASSUME Init PROVE IInv
  OBVIOUS
<1>1. TypeOK
  BY IdleType, WorkAssumption DEF Init, TypeOK, Locals, Progress, Tasks, Keys
<1>2. Live /\ Hand /\ Clean /\ Reported
  BY WorkAssumption DEF Init, Live, Hand, Clean, Reported, InTask, At, Idle, Keys
<1>3. \A n \in Runs, t \in Tasks : Invoked(n, t) = {}
  BY DEF Init, Invoked, Keys
<1>4. Counted
  <2> SUFFICES ASSUME NEW n \in Runs, NEW t \in Tasks
               PROVE  /\ \A a \in Proposals : deeds[<<n, t, a>>] <= 1
                      /\ IsFiniteSet(Invoked(n, t)) /\ Cardinality(Invoked(n, t)) <= MaxSteps
    BY DEF Counted
  <2>1. \A a \in Proposals : deeds[<<n, t, a>>] <= 1
    BY DEF Init, Keys
  <2>2. IsFiniteSet(Invoked(n, t)) /\ Cardinality(Invoked(n, t)) = 0
    BY <1>3, FS_EmptySet
  <2> QED
    BY <2>1, <2>2, WorkAssumption
<1>5. Unrecorded = {}
  BY DEF Init, Unrecorded
<1>6. Audited
  BY <1>5, FS_EmptySet, WorkAssumption DEF Init, Audited, At, Idle
<1> QED
  BY <1>1, <1>2, <1>4, <1>6 DEF IInv

-----------------------------------------------------------------------------
(* What the steps have in common.                                          *)

\* A turn of the loop ends with what is told of its action.
LEMMA TellType ==
  ASSUME IInv, NEW a \in Proposals, NEW what \in Outcomes, Tell(a, what), work.step < MaxSteps
  PROVE  /\ work' \in Locals
         /\ work'.at = "propose" /\ work'.task = work.task /\ work'.step = work.step + 1
         /\ work'.doing = {} /\ work'.told = Told(a, what)
<1>1. work \in Locals
  BY TypeOf DEF IInv
<1>2. Told(a, what) \in Progress
  BY <1>1, ToldMore
<1>3. work.step \in 0 .. MaxSteps /\ work.step + 1 \in 0 .. MaxSteps
  BY <1>1, WorkAssumption DEF Locals
<1>4. work' = [work EXCEPT !.at = "propose", !.step = work.step + 1, !.doing = {}, !.told = Told(a, what)]
  BY <1>1 DEF Tell, Locals
<1> QED
  BY <1>1, <1>2, <1>3, <1>4 DEF Locals, Stations

\* A station of the loop is one of a run of the job.
LEMMA AtWork == ASSUME IInv, InTask PROVE attempts \in Runs /\ work.task \in Tasks
BY TypeOf DEF IInv, Live, InTask, At, Locals

\* What is in hand at "run" and "record".
LEMMA InHand ==
  ASSUME IInv, work.at \in {"run", "record"}, NEW a \in work.doing
  PROVE  a \in Proposals /\ work.doing = {a} /\ a \notin DOMAIN work.told /\ work.step < MaxSteps
BY DEF IInv, Hand

LEMMA TypeStep == IInv /\ [Next]_vars => TypeOK'
<1> SUFFICES ASSUME IInv, [Next]_vars PROVE TypeOK'
  OBVIOUS
<1> USE DEF IInv
<1>0. work \in Locals /\ TypeOK
  BY TypeOf
<1>1. CASE Claim
  <2>1. work' \in Locals
    BY <1>1, IdleType DEF Claim, Locals, Stations
  <2>2. needed' \in [Tasks -> SUBSET Tasks]
    BY <1>1 DEF Claim, Drafts
  <2>3. attempts' \in 0 .. MaxRetries + 1
    BY <1>1, <1>0, WorkAssumption DEF Claim, TypeOK, Live
  <2> QED
    BY <1>1, <1>0, <2>1, <2>2, <2>3 DEF Claim, TypeOK, Locals, Progress
<1>2. ASSUME NEW t \in Tasks, BeginTask(t) PROVE TypeOK'
  <2>1. AllowedSkills(PhaseDomain) \in SUBSET Skills
    BY DEF AllowedSkills
  <2>2. work' \in Locals
    <3>1. PICK o \in SUBSET Skills :
            work' = [Idle EXCEPT !.at = "propose", !.task = t, !.offered = o]
      BY <1>2, <2>1 DEF BeginTask
    <3> QED
      BY <3>1, IdleType DEF Locals, Stations
  <2> QED
    BY <1>2, <1>0, <2>2 DEF BeginTask, TypeOK, Locals, Progress
<1>3. CASE EndPhase \/ Raise \/ Kill
  <2>1. work' \in Locals
    BY <1>3, IdleType DEF EndPhase, Raise, Kill
  <2>2. faults' \in 0 .. MaxFaults
    BY <1>3, <1>0, WorkAssumption DEF EndPhase, Raise, Kill, Fault, TypeOK
  <2> QED
    BY <1>3, <1>0, <2>1, <2>2 DEF EndPhase, Raise, Kill, TypeOK, Locals, Progress
<1>4. CASE Resolve
  <2>1. work' \in Locals
    BY <1>4, IdleType DEF Resolve, Locals, Stations
  <2> QED
    BY <1>4, <1>0, <2>1 DEF Resolve, TypeOK, Locals, Progress
<1>5. ASSUME NEW a \in Proposals, Reject(a) \/ Defer(a) \/ InvokeRaises(a) PROVE TypeOK'
  <2>1. PICK what \in Outcomes : Tell(a, what)
    BY <1>5 DEF Reject, Defer, InvokeRaises, Outcomes
  <2>2. work.step < MaxSteps
    BY <1>5 DEF Reject, Defer, InvokeRaises, Fresh, Again, At, Hand
  <2>3. work' \in Locals
    BY <2>1, <2>2, TellType
  <2> QED
    BY <1>5, <1>0, <2>3 DEF Reject, Defer, InvokeRaises, TypeOK, Locals, Progress
<1>6. ASSUME NEW a \in Proposals, Admit(a) \/ Invoke(a) PROVE TypeOK'
  <2>1. work' \in Locals
    <3>1. CASE Admit(a)
      <4>1. {a} \in SUBSET Proposals /\ work' = [work EXCEPT !.at = "run", !.doing = {a}]
        BY <3>1 DEF Admit
      <4> QED
        BY <4>1, <1>0 DEF Locals, Stations
    <3>2. CASE Invoke(a)
      BY <3>2, <1>0 DEF Invoke, Goto, Locals, Stations
    <3> QED
      BY <1>6, <3>1, <3>2
  <2>2. deeds' \in [Keys -> Nat]
    BY <1>6, <1>0 DEF Admit, Invoke, Happened, TypeOK
  <2> QED
    BY <1>6, <1>0, <2>1, <2>2 DEF Admit, Invoke, TypeOK, Locals, Progress
<1>7. ASSUME NEW a \in Proposals, InvokeHalf(a) \/ Record(a) \/ RecordRaises(a) PROVE TypeOK'
  <2>1. PICK what \in Outcomes : Tell(a, what)
    BY <1>7 DEF InvokeHalf, Record, RecordRaises, Outcomes
  <2>2. work.step < MaxSteps
    BY <1>7 DEF InvokeHalf, Record, RecordRaises, At, Hand
  <2>3. work' \in Locals
    BY <2>1, <2>2, TellType
  <2>4. deeds' \in [Keys -> Nat] /\ log' \in [Keys -> Nat]
    BY <1>7, <1>0 DEF InvokeHalf, Record, RecordRaises, Happened, TypeOK
  <2>5. faults' \in 0 .. MaxFaults
    BY <1>7, <1>0, WorkAssumption DEF InvokeHalf, Record, RecordRaises, Fault, TypeOK
  <2> QED
    BY <1>7, <1>0, <2>3, <2>4, <2>5 DEF InvokeHalf, Record, RecordRaises, TypeOK, Locals, Progress
<1>8. CASE UNCHANGED vars
  BY <1>8, <1>0 DEF vars, TypeOK
<1> QED
  BY <1>1, <1>2, <1>3, <1>4, <1>5, <1>6, <1>7, <1>8 DEF Next, Run, Attempt

-----------------------------------------------------------------------------
LEMMA LaidDown ==
  ASSUME EndPhase \/ Raise \/ Kill \/ Claim \/ Resolve
  PROVE  work'.at \in {"idle", "phase"}
<1>1. CASE EndPhase \/ Raise \/ Kill
  BY <1>1 DEF EndPhase, Raise, Kill, Idle
<1>2. CASE Claim \/ Resolve
  BY <1>2 DEF Claim, Resolve, Idle
<1> QED
  BY <1>1, <1>2

LEMMA Begun ==
  ASSUME NEW t \in Tasks, BeginTask(t)
  PROVE  /\ work.at = "phase" /\ work'.at = "propose" /\ work'.task = t /\ work'.step = 0
         /\ DOMAIN work'.told = {}
<1>1. work'.told = NoneTold /\ work'.step = 0 /\ work'.task = t /\ work'.at = "propose"
  BY DEF BeginTask, Idle
<1> QED
  BY <1>1, NoneToldType DEF BeginTask, At

LEMMA Admitted ==
  ASSUME work \in Locals, NEW a \in Proposals, Admit(a)
  PROVE  /\ work.at = "propose" /\ work'.at = "run" /\ work'.doing = {a}
         /\ work'.task = work.task /\ work'.step = work.step /\ work'.told = work.told
         /\ a \notin DOMAIN work.told /\ work.step < MaxSteps
BY DEF Admit, Fresh, Again, At, Locals

LEMMA Ran ==
  ASSUME work \in Locals, NEW a \in Proposals, Invoke(a)
  PROVE  /\ work.at = "run" /\ work'.at = "record" /\ work'.doing = work.doing
         /\ work'.task = work.task /\ work'.step = work.step /\ work'.told = work.told
BY DEF Invoke, Goto, At, Locals

Tells(a) == Reject(a) \/ Defer(a) \/ InvokeRaises(a) \/ InvokeHalf(a) \/ Record(a) \/ RecordRaises(a)

\* Where a turn of the loop ends, its action was not told of before.
LEMMA Turn ==
  ASSUME IInv, NEW a \in Proposals, Tells(a)
  PROVE  InTask /\ a \notin DOMAIN work.told /\ work.step < MaxSteps
         /\ \E what \in Outcomes : Tell(a, what)
<1>1. CASE Reject(a) \/ Defer(a)
  BY <1>1 DEF Reject, Defer, Fresh, Again, At, InTask, Outcomes
<1>2. CASE InvokeRaises(a) \/ InvokeHalf(a) \/ Record(a) \/ RecordRaises(a)
  <2>1. work.at \in {"run", "record"} /\ a \in work.doing
    BY <1>2 DEF InvokeRaises, InvokeHalf, Record, RecordRaises, At
  <2>2. \E what \in Outcomes : Tell(a, what)
    BY <1>2 DEF InvokeRaises, InvokeHalf, Record, RecordRaises, Outcomes
  <2> QED
    BY <2>1, <2>2, InHand DEF InTask
<1> QED
  BY <1>1, <1>2 DEF Tells

LEMMA NextCases ==
  ASSUME [Next]_vars
  PROVE  \/ EndPhase \/ Raise \/ Kill \/ Claim \/ Resolve
         \/ \E t \in Tasks : BeginTask(t)
         \/ \E a \in Proposals : Admit(a) \/ Invoke(a) \/ Tells(a)
         \/ UNCHANGED vars
BY DEF Next, Run, Attempt, Tells

LEMMA LiveStep == IInv /\ [Next]_vars => Live'
<1> SUFFICES ASSUME IInv, [Next]_vars PROVE Live'
  OBVIOUS
<1>0. Live /\ attempts \in 0 .. MaxRetries + 1
  BY DEF IInv, TypeOK
<1>1. CASE Claim
  BY <1>0, <1>1, WorkAssumption DEF Live, Claim, Runs
<1>2. CASE EndPhase \/ Raise \/ Kill
  BY <1>0, <1>2 DEF Live, EndPhase, Raise, Kill, At, Idle
<1>3. CASE Resolve
  BY <1>0, <1>3 DEF Live, Resolve, At
<1>4. ASSUME NEW t \in Tasks, BeginTask(t) PROVE Live'
  BY <1>0, <1>4 DEF Live, BeginTask, At
<1>5. ASSUME NEW a \in Proposals, Admit(a) \/ Invoke(a) PROVE Live'
  BY <1>0, <1>5 DEF Live, Admit, Invoke, Fresh, Again, At
<1>6. ASSUME NEW a \in Proposals, Tells(a) PROVE Live'
  <2>1. row' = row /\ attempts' = attempts
    BY <1>6 DEF Tells, Reject, Defer, InvokeRaises, InvokeHalf, Record, RecordRaises
  <2>2. work.at # "idle"
    BY <1>6, Turn DEF InTask
  <2> QED
    BY <1>0, <2>1, <2>2 DEF Live, At
<1>7. CASE UNCHANGED vars
  BY <1>0, <1>7 DEF Live, At, vars
<1> QED
  BY <1>1, <1>2, <1>3, <1>4, <1>5, <1>6, <1>7, NextCases

LEMMA HandStep == IInv /\ [Next]_vars => Hand'
<1> SUFFICES ASSUME IInv, [Next]_vars PROVE Hand'
  OBVIOUS
<1>0. Hand /\ work \in Locals
  BY TypeOf DEF IInv
<1>1. CASE EndPhase \/ Raise \/ Kill \/ Claim \/ Resolve
  BY <1>1, LaidDown DEF Hand, InTask
<1>2. ASSUME NEW t \in Tasks, BeginTask(t) PROVE Hand'
  <2>1. status'[work'.task] = "InProgress"
    BY <1>2, Begun DEF BeginTask, IInv, TypeOK
  <2>2. IsFiniteSet(DOMAIN work'.told) /\ Cardinality(DOMAIN work'.told) = 0 /\ work'.step = 0
    BY <1>2, Begun, FS_EmptySet
  <2>3. work'.at = "propose"
    BY <1>2, Begun
  <2> QED
    BY <2>1, <2>2, <2>3 DEF Hand, InTask
<1>3. ASSUME NEW a \in Proposals, Admit(a) PROVE Hand'
  <2>1. status' = status
    BY <1>3 DEF Admit
  <2> QED
    BY <1>0, <1>3, <2>1, Admitted DEF Hand, InTask
<1>4. ASSUME NEW a \in Proposals, Invoke(a) PROVE Hand'
  <2>1. status' = status
    BY <1>4 DEF Invoke
  <2> QED
    BY <1>0, <1>4, <2>1, Ran DEF Hand, InTask
<1>5. ASSUME NEW a \in Proposals, Tells(a) PROVE Hand'
  <2>1. PICK what \in Outcomes : Tell(a, what)
    BY <1>5, Turn
  <2>2. InTask /\ a \notin DOMAIN work.told /\ work.step < MaxSteps
    BY <1>5, Turn
  <2>3. status' = status
    BY <1>5 DEF Tells, Reject, Defer, InvokeRaises, InvokeHalf, Record, RecordRaises
  <2>4. /\ work'.at = "propose" /\ work'.task = work.task /\ work'.step = work.step + 1
        /\ DOMAIN work'.told = DOMAIN work.told \cup {a}
    BY <1>0, <2>1, <2>2, TellType, ToldMore
  <2>5. /\ IsFiniteSet(DOMAIN work'.told)
        /\ Cardinality(DOMAIN work'.told) = Cardinality(DOMAIN work.told) + 1
    BY <1>0, <2>2, <2>4, FS_AddElement DEF Hand
  <2>6. Cardinality(DOMAIN work.told) \in Nat /\ work.step \in Nat
        /\ Cardinality(DOMAIN work.told) <= work.step
    BY <1>0, <2>2, FS_CardinalityType DEF Hand, Locals
  <2> QED
    BY <1>0, <2>2, <2>3, <2>4, <2>5, <2>6 DEF Hand, InTask
<1>6. CASE UNCHANGED vars
  BY <1>0, <1>6 DEF Hand, InTask, vars
<1> QED
  BY <1>1, <1>2, <1>3, <1>4, <1>5, <1>6, NextCases

-----------------------------------------------------------------------------
(* What happened and what is recorded.                                     *)

Happens(a) == Invoke(a) \/ InvokeHalf(a)

\* Only two steps touch deeds, and only one the log, each for one key, that of
\* the action in hand.
LEMMA Tables ==
  ASSUME IInv, [Next]_vars
  PROVE  /\ \/ deeds' = deeds
            \/ \E a \in Proposals : Happens(a) /\ deeds' = [deeds EXCEPT ![Key(a)] = deeds[Key(a)] + 1]
         /\ \/ log' = log
            \/ \E a \in Proposals : Record(a) /\ log' = [log EXCEPT ![Key(a)] = log[Key(a)] + 1]
<1>1. CASE EndPhase \/ Raise \/ Kill \/ Claim \/ Resolve
  BY <1>1 DEF EndPhase, Raise, Kill, Claim, Resolve
<1>2. ASSUME NEW t \in Tasks, BeginTask(t) PROVE deeds' = deeds /\ log' = log
  BY <1>2 DEF BeginTask
<1>3. ASSUME NEW a \in Proposals, Admit(a) \/ Reject(a) \/ Defer(a) \/ InvokeRaises(a) \/ RecordRaises(a)
      PROVE  deeds' = deeds /\ log' = log
  BY <1>3 DEF Admit, Reject, Defer, InvokeRaises, RecordRaises
<1>4. ASSUME NEW a \in Proposals, Happens(a)
      PROVE  log' = log /\ deeds' = [deeds EXCEPT ![Key(a)] = deeds[Key(a)] + 1]
  BY <1>4 DEF Happens, Invoke, InvokeHalf, Happened
<1>5. ASSUME NEW a \in Proposals, Record(a)
      PROVE  deeds' = deeds /\ log' = [log EXCEPT ![Key(a)] = log[Key(a)] + 1]
  BY <1>5 DEF Record
<1>6. CASE UNCHANGED vars
  BY <1>6 DEF vars
<1> QED
  BY <1>1, <1>2, <1>3, <1>4, <1>5, <1>6, NextCases DEF Tells, Happens

\* A skill that takes effect has not done so in this task before.
LEMMA FirstTime ==
  ASSUME IInv, NEW a \in Proposals, Happens(a)
  PROVE  /\ work.at = "run" /\ work.doing = {a} /\ a \notin DOMAIN work.told
         /\ InTask /\ attempts \in Runs /\ work.task \in Tasks
         /\ Key(a) \in Keys /\ deeds[Key(a)] = 0 /\ log[Key(a)] = 0
<1>1. work.at = "run" /\ a \in work.doing
  BY DEF Happens, Invoke, InvokeHalf, At
<1>2. work.doing = {a} /\ a \notin DOMAIN work.told
  BY <1>1, InHand
<1>3. InTask
  BY <1>1 DEF InTask
<1>4. attempts \in Runs /\ work.task \in Tasks /\ Key(a) \in Keys
  BY <1>3, AtWork, TypeOf, KeyType DEF IInv
<1>5. Agrees(a) /\ deeds[Key(a)] \in Nat
  BY <1>3, <1>4 DEF IInv, Reported, TypeOK
<1>6. deeds[Key(a)] = 0 /\ log[Key(a)] = 0
  BY <1>1, <1>2, <1>5 DEF Agrees, Ok, Recording, At
<1> QED
  BY <1>1, <1>2, <1>3, <1>4, <1>6

\* What is being recorded has happened, and has no row yet.
LEMMA InRecord ==
  ASSUME IInv, work.at = "record", NEW a \in work.doing
  PROVE  /\ a \in Proposals /\ work.doing = {a} /\ a \notin DOMAIN work.told
         /\ InTask /\ Key(a) \in Keys /\ deeds[Key(a)] = 1 /\ log[Key(a)] = 0
<1>1. a \in Proposals /\ work.doing = {a} /\ a \notin DOMAIN work.told
  BY InHand
<1>2. InTask
  BY DEF InTask
<1>3. Key(a) \in Keys
  BY <1>1, <1>2, AtWork, TypeOf, KeyType DEF IInv
<1>4. Agrees(a)
  BY <1>1, <1>2 DEF IInv, Reported
<1> QED
  BY <1>1, <1>2, <1>3, <1>4 DEF Agrees, Ok, Recording, At

LEMMA CleanStep == IInv /\ [Next]_vars => Clean'
<1> SUFFICES ASSUME IInv, [Next]_vars PROVE Clean'
  OBVIOUS
<1>0. Clean /\ TypeOK
  BY DEF IInv
<1>1. SUFFICES ASSUME NEW n \in Runs, NEW t \in Tasks, NEW a \in Proposals, ToCome(n, t)'
               PROVE  deeds'[<<n, t, a>>] = 0 /\ log'[<<n, t, a>>] = 0
  BY DEF Clean
<1>2. ToCome(n, t)
  <2>0. n \in Nat /\ attempts \in Nat
    BY <1>0, WorkAssumption DEF TypeOK, Runs
  <2>1. CASE Claim
    BY <1>1, <2>0, <2>1 DEF Claim, ToCome
  <2>2. CASE EndPhase \/ Raise \/ Kill
    BY <1>1, <2>2 DEF EndPhase, Raise, Kill, ToCome, At, Idle
  <2>3. CASE Resolve
    BY <1>0, <1>1, <2>3 DEF Resolve, ToCome, At, TypeOK
  <2>4. ASSUME NEW u \in Tasks, BeginTask(u) PROVE ToCome(n, t)
    BY <1>0, <1>1, <2>4 DEF BeginTask, ToCome, At, TypeOK
  <2>5. ASSUME NEW b \in Proposals, Admit(b) \/ Invoke(b) \/ Tells(b) PROVE ToCome(n, t)
    <3>1. attempts' = attempts /\ status' = status
      BY <2>5 DEF Admit, Invoke, Tells, Reject, Defer, InvokeRaises, InvokeHalf, Record, RecordRaises
    <3>2. work.at # "idle"
      <4>1. CASE Tells(b)
        BY <4>1, Turn DEF InTask
      <4>2. CASE Admit(b) \/ Invoke(b)
        BY <4>2 DEF Admit, Invoke, Fresh, Again, At
      <4> QED
        BY <2>5, <4>1, <4>2
    <3> QED
      BY <1>1, <3>1, <3>2 DEF ToCome, At
  <2>6. CASE UNCHANGED vars
    BY <1>1, <2>6 DEF vars, ToCome, At
  <2> QED
    BY <2>1, <2>2, <2>3, <2>4, <2>5, <2>6, NextCases
<1>3. deeds[<<n, t, a>>] = 0 /\ log[<<n, t, a>>] = 0
  BY <1>0, <1>2 DEF Clean
<1>4. ASSUME InTask PROVE <<n, t>> # <<attempts, work.task>>
  BY <1>2, <1>4, AtWork, WorkAssumption DEF IInv, Hand, ToCome, Runs
<1>5. ASSUME NEW b \in Proposals, InTask PROVE Key(b) # <<n, t, a>>
  BY <1>4, <1>5 DEF Key
<1>6. deeds'[<<n, t, a>>] = 0
  <2>1. ASSUME NEW b \in Proposals, Happens(b), deeds' = [deeds EXCEPT ![Key(b)] = deeds[Key(b)] + 1]
        PROVE  deeds'[<<n, t, a>>] = 0
    BY <1>0, <1>3, <1>5, <2>1, FirstTime DEF TypeOK, Keys
  <2> QED
    BY <1>3, <2>1, Tables
<1>7. log'[<<n, t, a>>] = 0
  <2>1. ASSUME NEW b \in Proposals, Record(b), log' = [log EXCEPT ![Key(b)] = log[Key(b)] + 1]
        PROVE  log'[<<n, t, a>>] = 0
    <3>1. InTask
      BY <2>1 DEF Record, At, InTask
    <3> QED
      BY <1>0, <1>3, <1>5, <2>1, <3>1 DEF TypeOK, Keys
  <2> QED
    BY <1>3, <2>1, Tables
<1> QED
  BY <1>6, <1>7

LEMMA ReportedStep == IInv /\ [Next]_vars => Reported'
<1> SUFFICES ASSUME IInv, [Next]_vars PROVE Reported'
  OBVIOUS
<1>0. work \in Locals /\ TypeOK
  BY TypeOf DEF IInv
<1>1. CASE EndPhase \/ Raise \/ Kill \/ Claim \/ Resolve
  BY <1>1, LaidDown DEF Reported, InTask
<1>2. ASSUME NEW t \in Tasks, BeginTask(t) PROVE Reported'
  <2>1. SUFFICES ASSUME NEW a \in Proposals PROVE Agrees(a)'
    BY DEF Reported
  <2>2. attempts \in Runs /\ ToCome(attempts, t)
    BY <1>2, Begun DEF IInv, Live, At, ToCome, BeginTask
  <2>3. deeds[<<attempts, t, a>>] = 0 /\ log[<<attempts, t, a>>] = 0
    BY <2>2 DEF IInv, Clean
  <2>4. DOMAIN work'.told = {} /\ work'.task = t /\ work'.at = "propose"
    BY <1>2, Begun
  <2>5. attempts' = attempts /\ deeds' = deeds /\ log' = log
    BY <1>2 DEF BeginTask
  <2> QED
    BY <2>3, <2>4, <2>5 DEF Agrees, Key, Ok, Waits, Recording, At
<1>3. ASSUME NEW b \in Proposals, Admit(b) PROVE Reported'
  <2>1. SUFFICES ASSUME NEW a \in Proposals PROVE Agrees(a)'
    BY DEF Reported
  <2>2. Agrees(a) /\ ~Recording(a) /\ ~Recording(a)'
    BY <1>0, <1>3, Admitted DEF IInv, Reported, InTask, Recording, At
  <2>3. attempts' = attempts /\ deeds' = deeds /\ log' = log
    BY <1>3 DEF Admit
  <2>4. Key(a)' = Key(a) /\ work'.told = work.told
    BY <1>0, <1>3, <2>3, Admitted DEF Key
  <2> QED
    BY <2>2, <2>3, <2>4 DEF Agrees, Ok, Waits
<1>4. ASSUME NEW b \in Proposals, Invoke(b) PROVE Reported'
  <2>1. SUFFICES ASSUME NEW a \in Proposals PROVE Agrees(a)'
    BY DEF Reported
  <2>2. Happens(b)
    BY <1>4 DEF Happens
  <2>3. /\ attempts' = attempts /\ log' = log /\ deeds' = [deeds EXCEPT ![Key(b)] = deeds[Key(b)] + 1]
    BY <1>4 DEF Invoke, Happened
  <2>4. Key(a)' = Key(a) /\ work'.told = work.told /\ work'.at = "record" /\ work'.doing = {b}
    BY <1>0, <1>4, <2>2, <2>3, Ran, FirstTime DEF Key
  <2>5. Agrees(a) /\ ~Recording(a) /\ Key(a) \in Keys
    BY <1>0, <2>2, FirstTime, KeyType DEF IInv, Reported, Recording, At
  <2>6. CASE a = b
    <3>1. Recording(a)' /\ deeds'[Key(a)] = 1 /\ log'[Key(a)] = 0 /\ a \notin DOMAIN work'.told
      BY <1>0, <2>2, <2>3, <2>4, <2>5, <2>6, FirstTime DEF Recording, At, TypeOK
    <3> QED
      BY <2>4, <3>1 DEF Agrees, Ok, Waits
  <2>7. CASE a # b
    <3>1. deeds'[Key(a)] = deeds[Key(a)] /\ ~Recording(a)'
      BY <1>0, <2>3, <2>4, <2>5, <2>7 DEF Key, Recording, TypeOK
    <3> QED
      BY <2>3, <2>4, <2>5, <3>1 DEF Agrees, Ok, Waits
  <2> QED
    BY <2>6, <2>7
<1>5. ASSUME NEW b \in Proposals, Tells(b) PROVE Reported'
  <2>1. SUFFICES ASSUME NEW a \in Proposals PROVE Agrees(a)'
    BY DEF Reported
  <2>2. InTask /\ b \notin DOMAIN work.told /\ work.step < MaxSteps
    BY <1>5, Turn
  <2>3. PICK what \in Outcomes :
          /\ Tell(b, what)
          /\ Reject(b) \/ InvokeRaises(b) \/ InvokeHalf(b) \/ RecordRaises(b) => what = "failed"
          /\ Defer(b) => what = "pending_confirmation"
          /\ Record(b) => what = "ok"
    <3>1. CASE Reject(b) \/ Defer(b)
      BY <3>1 DEF Reject, Defer, InvokeRaises, InvokeHalf, Record, RecordRaises, Outcomes, Fresh, Again, At, Passes
    <3>2. CASE InvokeRaises(b) \/ InvokeHalf(b)
      BY <3>2 DEF Reject, Defer, InvokeRaises, InvokeHalf, Record, RecordRaises, Outcomes, Fresh, Again, At
    <3>3. CASE Record(b)
      BY <3>3, InRecord, KeyType, <1>0 DEF Reject, Defer, InvokeRaises, InvokeHalf, Record, RecordRaises, Outcomes, Fresh, Again, At, TypeOK
    <3>4. CASE RecordRaises(b) /\ ~Record(b)
      BY <3>4 DEF Reject, Defer, InvokeRaises, InvokeHalf, RecordRaises, Outcomes, Fresh, Again, At
    <3> QED
      BY <1>5, <3>1, <3>2, <3>3, <3>4 DEF Tells
  <2>4. attempts' = attempts
    BY <1>5 DEF Tells, Reject, Defer, InvokeRaises, InvokeHalf, Record, RecordRaises
  <2>5. /\ work'.at = "propose" /\ work'.doing = {} /\ Key(a)' = Key(a)
        /\ DOMAIN work'.told = DOMAIN work.told \cup {b} /\ work'.told[b] = what
        /\ \A c \in DOMAIN work.told \ {b} : work'.told[c] = work.told[c]
    <3>1. /\ work'.at = "propose" /\ work'.doing = {} /\ work'.task = work.task
          /\ work'.told = Told(b, what)
      BY <2>2, <2>3, TellType
    <3>2. /\ DOMAIN Told(b, what) = DOMAIN work.told \cup {b} /\ Told(b, what)[b] = what
          /\ \A c \in DOMAIN work.told \ {b} : Told(b, what)[c] = work.told[c]
      BY <1>0, ToldMore
    <3> QED
      BY <2>4, <3>1, <3>2 DEF Key
  <2>6. Agrees(a) /\ Key(a) \in Keys /\ ~Recording(a)'
    BY <1>0, <2>2, <2>5, AtWork, KeyType DEF IInv, Reported, Recording, At
  <2>7. CASE a # b
    <3>1. deeds'[Key(a)] = deeds[Key(a)] /\ log'[Key(a)] = log[Key(a)]
      BY <1>0, <1>5, <2>6, <2>7 DEF Tells, Reject, Defer, InvokeRaises, InvokeHalf, Happened,
                                    Record, RecordRaises, Key, TypeOK
    <3>2. (Ok(a)' <=> Ok(a)) /\ (Waits(a)' <=> Waits(a))
      BY <2>5, <2>7 DEF Ok, Waits
    <3>3. ~Recording(a)
      BY <1>5, <2>7, InHand DEF Tells, Reject, Defer, InvokeRaises, InvokeHalf, Record, RecordRaises,
                        Fresh, Again, Recording, At
    <3> QED
      BY <2>5, <2>6, <3>1, <3>2, <3>3 DEF Agrees
  <2>8. CASE a = b
    <3>1. CASE Reject(b) \/ Defer(b) \/ InvokeRaises(b)
      <4>1. ~Recording(b)
        BY <3>1 DEF Reject, Defer, InvokeRaises, Fresh, Again, Recording, At
      <4>2. deeds[Key(b)] = 0 /\ log[Key(b)] = 0
        BY <1>0, <2>2, <2>6, <2>8, <4>1 DEF Agrees, Ok, TypeOK
      <4>3. deeds' = deeds /\ log' = log /\ what # "ok"
        BY <2>3, <3>1 DEF Reject, Defer, InvokeRaises
      <4> QED
        BY <2>5, <2>6, <2>8, <4>2, <4>3 DEF Agrees, Ok, Waits
    <3>2. CASE InvokeHalf(b)
      <4>1. deeds[Key(b)] = 0 /\ log[Key(b)] = 0
        BY <3>2, FirstTime DEF Happens
      <4>2. deeds'[Key(b)] = 1 /\ log' = log /\ what = "failed"
        BY <1>0, <2>3, <2>6, <2>8, <3>2, <4>1 DEF InvokeHalf, Happened, TypeOK
      <4> QED
        BY <2>5, <2>6, <2>8, <4>1, <4>2 DEF Agrees, Ok, Waits
    <3>3. CASE Record(b)
      <4>1. deeds[Key(b)] = 1 /\ log[Key(b)] = 0
        BY <3>3, InRecord DEF Record, At
      <4>2. deeds' = deeds /\ log'[Key(b)] = 1 /\ what = "ok"
        BY <1>0, <2>3, <2>6, <2>8, <3>3, <4>1 DEF Record, TypeOK
      <4> QED
        BY <2>5, <2>6, <2>8, <4>1, <4>2 DEF Agrees, Ok, Waits
    <3>4. CASE RecordRaises(b)
      <4>1. deeds[Key(b)] = 1 /\ log[Key(b)] = 0
        BY <3>4, InRecord DEF RecordRaises, At
      <4>2. deeds' = deeds /\ log' = log /\ what = "failed"
        BY <2>3, <3>4 DEF RecordRaises
      <4> QED
        BY <2>5, <2>6, <2>8, <4>1, <4>2 DEF Agrees, Ok, Waits
    <3> QED
      BY <1>5, <3>1, <3>2, <3>3, <3>4 DEF Tells
  <2> QED
    BY <2>7, <2>8
<1>6. CASE UNCHANGED vars
  BY <1>6 DEF IInv, Reported, InTask, Agrees, Ok, Waits, Recording, Key, At, vars
<1> QED
  BY <1>1, <1>2, <1>3, <1>4, <1>5, <1>6, NextCases

LEMMA CountedStep == IInv /\ [Next]_vars => Counted'
<1> SUFFICES ASSUME IInv, [Next]_vars PROVE Counted'
  OBVIOUS
<1>0. Counted /\ TypeOK
  BY DEF IInv
<1>1. CASE deeds' = deeds
  BY <1>0, <1>1 DEF Counted, Invoked
<1>2. ASSUME NEW a \in Proposals, Happens(a), deeds' = [deeds EXCEPT ![Key(a)] = deeds[Key(a)] + 1]
      PROVE  Counted'
  <2>1. SUFFICES ASSUME NEW n \in Runs, NEW t \in Tasks
                 PROVE  /\ \A b \in Proposals : deeds'[<<n, t, b>>] <= 1
                        /\ IsFiniteSet(Invoked(n, t)') /\ Cardinality(Invoked(n, t)') <= MaxSteps
    BY DEF Counted
  <2>2. /\ deeds[Key(a)] = 0 /\ Key(a) \in Keys /\ InTask /\ a \notin DOMAIN work.told
        /\ work.at = "run" /\ attempts \in Runs /\ work.task \in Tasks
    BY <1>2, FirstTime
  <2>3. \A b \in Proposals : deeds'[<<n, t, b>>] <= 1
    BY <1>0, <1>2, <2>2 DEF Counted, TypeOK, Keys
  <2>4. CASE <<n, t>> # <<attempts, work.task>>
    <3>1. \A b \in Proposals : deeds'[<<n, t, b>>] = deeds[<<n, t, b>>]
      BY <1>0, <1>2, <2>4 DEF TypeOK, Keys, Key
    <3>2. Invoked(n, t)' = Invoked(n, t)
      BY <3>1 DEF Invoked
    <3> QED
      BY <1>0, <2>3, <3>2 DEF Counted
  <2>5. CASE n = attempts /\ t = work.task
    <3>1. Invoked(n, t) \subseteq DOMAIN work.told
      BY <2>2, <2>5 DEF IInv, Reported, Agrees, Recording, At, Invoked, Key
    <3>2. Invoked(n, t)' \subseteq DOMAIN work.told \cup {a}
      BY <1>0, <1>2, <2>5, <3>1 DEF Invoked, Key, TypeOK, Keys
    <3>3. /\ IsFiniteSet(DOMAIN work.told) /\ Cardinality(DOMAIN work.told) <= work.step
          /\ work.step < MaxSteps /\ work.step \in Nat
      BY <2>2, TypeOf DEF IInv, Hand, Locals
    <3>4. /\ IsFiniteSet(DOMAIN work.told \cup {a})
          /\ Cardinality(DOMAIN work.told \cup {a}) = Cardinality(DOMAIN work.told) + 1
      BY <2>2, <3>3, FS_AddElement
    <3>5. /\ IsFiniteSet(Invoked(n, t)')
          /\ Cardinality(Invoked(n, t)') <= Cardinality(DOMAIN work.told \cup {a})
      BY <3>2, <3>4, FS_Subset
    <3>6. Cardinality(DOMAIN work.told) \in Nat /\ Cardinality(Invoked(n, t)') \in Nat
      BY <3>3, <3>5, FS_CardinalityType
    <3> QED
      BY <2>3, <3>3, <3>4, <3>5, <3>6, WorkAssumption
  <2> QED
    BY <2>4, <2>5
<1> QED
  BY <1>1, <1>2, Tables

LEMMA FaultsGrow == ASSUME [Next]_vars, faults \in Nat PROVE faults' \in Nat /\ faults <= faults'
<1>1. faults' = faults \/ faults' = faults + 1
  <2>1. CASE EndPhase \/ Raise \/ Kill \/ Claim \/ Resolve
    BY <2>1 DEF EndPhase, Raise, Kill, Claim, Resolve, Fault
  <2>2. CASE \E t \in Tasks : BeginTask(t)
    BY <2>2 DEF BeginTask
  <2>3. CASE \E a \in Proposals : Admit(a) \/ Invoke(a) \/ Tells(a)
    BY <2>3 DEF Admit, Invoke, Tells, Reject, Defer, InvokeRaises, InvokeHalf, Record, RecordRaises, Fault
  <2>4. CASE UNCHANGED vars
    BY <2>4 DEF vars
  <2> QED
    BY <2>1, <2>2, <2>3, <2>4, NextCases
<1> QED
  BY <1>1

LEMMA AuditedStep == IInv /\ [Next]_vars => Audited'
<1> SUFFICES ASSUME IInv, [Next]_vars PROVE Audited'
  OBVIOUS
<1>0. Audited /\ TypeOK
  BY DEF IInv
<1>1. Cardinality(Unrecorded) \in Nat /\ faults \in Nat
  BY <1>0, FS_CardinalityType DEF Audited, TypeOK
<1>2. CASE deeds' = deeds /\ log' = log /\ ~At("record")
  <2>1. Unrecorded' = Unrecorded
    BY <1>2 DEF Unrecorded
  <2>2. faults' \in Nat /\ faults <= faults'
    BY <1>1, FaultsGrow
  <2> QED
    BY <1>0, <1>1, <1>2, <2>1, <2>2 DEF Audited
<1>3. ASSUME NEW a \in Proposals, Happens(a), deeds' = [deeds EXCEPT ![Key(a)] = deeds[Key(a)] + 1]
      PROVE  Audited'
  <2>1. log' = log
    BY <1>3 DEF Happens, Invoke, InvokeHalf
  <2>2. Key(a) \in Keys /\ deeds[Key(a)] = 0 /\ log[Key(a)] = 0 /\ ~At("record")
    BY <1>3, FirstTime DEF At
  <2>3. Unrecorded' = Unrecorded \cup {Key(a)} /\ \A k \in Keys : log'[k] <= deeds'[k]
    BY <1>0, <1>3, <2>1, <2>2 DEF Unrecorded, TypeOK, Audited
  <2>4. IsFiniteSet(Unrecorded') /\ Cardinality(Unrecorded') <= Cardinality(Unrecorded) + 1
    BY <1>0, <1>1, <2>3, FS_AddElement DEF Audited
  <2>5. Cardinality(Unrecorded') \in Nat
    BY <2>4, FS_CardinalityType
  <2>6. faults' + (IF At("record")' THEN 1 ELSE 0) = faults + 1
    <3>1. CASE Invoke(a)
      BY <1>3, <3>1, Ran, TypeOf DEF IInv, Invoke, At
    <3>2. CASE InvokeHalf(a)
      <4>1. faults' = faults + 1 /\ work'.at = "propose"
        BY <3>2, TypeOf DEF IInv, InvokeHalf, Fault, Tell, Locals
      <4> QED
        BY <1>1, <4>1 DEF At
    <3> QED
      BY <1>3, <3>1, <3>2 DEF Happens
  <2> QED
    BY <1>0, <1>1, <2>2, <2>3, <2>4, <2>5, <2>6 DEF Audited
<1>4. ASSUME NEW a \in Proposals, Record(a) PROVE Audited'
  <2>1. At("record") /\ a \in work.doing /\ faults' = faults /\ deeds' = deeds
        /\ log' = [log EXCEPT ![Key(a)] = log[Key(a)] + 1]
    BY <1>4 DEF Record
  <2>2. Key(a) \in Keys /\ deeds[Key(a)] = 1 /\ log[Key(a)] = 0
    BY <2>1, InRecord DEF At
  <2>3. Unrecorded' = Unrecorded \ {Key(a)} /\ Key(a) \in Unrecorded
        /\ \A k \in Keys : log'[k] <= deeds'[k]
    BY <1>0, <2>1, <2>2 DEF Unrecorded, TypeOK, Audited
  <2>4. IsFiniteSet(Unrecorded') /\ Cardinality(Unrecorded') = Cardinality(Unrecorded) - 1
    BY <1>0, <2>3, FS_RemoveElement DEF Audited
  <2>5. ~At("record")'
    BY <1>4, TypeOf DEF IInv, Record, Tell, At, Locals
  <2> QED
    BY <1>0, <1>1, <2>1, <2>3, <2>4, <2>5 DEF Audited
<1>5. CASE At("record") /\ ((\E a \in Proposals : RecordRaises(a)) \/ Kill \/ UNCHANGED vars)
  <2>1. deeds' = deeds /\ log' = log
    BY <1>5 DEF RecordRaises, Kill, vars
  <2>2. Unrecorded' = Unrecorded
    BY <2>1 DEF Unrecorded
  <2>3. faults' = faults + 1 \/ (faults' = faults /\ work'.at = "record")
    BY <1>5 DEF RecordRaises, Kill, Fault, vars, At
  <2>4. Cardinality(Unrecorded) <= faults + 1
    BY <1>0, <1>5 DEF Audited
  <2>5. /\ \A k \in Keys : log'[k] <= deeds'[k]
        /\ IsFiniteSet(Unrecorded') /\ Cardinality(Unrecorded') <= faults + 1
        /\ Cardinality(Unrecorded') \in Nat
    BY <1>0, <1>1, <2>1, <2>2, <2>4 DEF Audited
  <2>6. CASE work'.at = "record"
    BY <1>1, <2>3, <2>5, <2>6 DEF Audited, At
  <2>7. CASE work'.at # "record"
    BY <1>1, <2>3, <2>5, <2>7 DEF Audited, At
  <2> QED
    BY <2>6, <2>7
<1>6. ASSUME At("record")
      PROVE  \/ \E a \in Proposals : Record(a)
             \/ (\E a \in Proposals : RecordRaises(a)) \/ Kill \/ UNCHANGED vars
  <2>1. row = "running"
    BY <1>6 DEF IInv, Live, At
  <2>2. ~Claim /\ ~EndPhase /\ ~Raise /\ ~Resolve /\ \A t \in Tasks : ~BeginTask(t)
    BY <1>6, <2>1 DEF Claim, EndPhase, Raise, Resolve, BeginTask, At
  <2>3. \A a \in Proposals : /\ ~Reject(a) /\ ~Defer(a) /\ ~Admit(a)
                            /\ ~Invoke(a) /\ ~InvokeRaises(a) /\ ~InvokeHalf(a)
    BY <1>6 DEF Reject, Defer, Admit, Invoke, InvokeRaises, InvokeHalf, Fresh, Again, At
  <2> QED
    BY <2>2, <2>3, NextCases DEF Tells
<1> QED
  BY <1>2, <1>3, <1>4, <1>5, <1>6, Tables

-----------------------------------------------------------------------------
LEMMA Invariance == Spec => []IInv
<1>1. Init => IInv
  BY InitInv
<1>2. IInv /\ [Next]_vars => IInv'
  BY TypeStep, LiveStep, HandStep, CleanStep, ReportedStep, CountedStep, AuditedStep DEF IInv
<1> QED
  BY <1>1, <1>2, PTL DEF Spec

\* What the model is told of the task in hand is what the log of the process
\* says, and what is in the log has happened.
THEOREM ToldIsTrue == Spec => []ToldIsOnRecord
<1>1. IInv => ToldIsOnRecord
  BY DEF IInv, Reported, InTask, Agrees, Ok, Waits, Recording, At, ToldIsOnRecord
<1> QED
  BY <1>1, Invariance, PTL

\* Over all runs of the job, what happened and is not on record is down to a
\* failure or a kill each.
THEOREM Auditable == Spec => []WorkIsAudited
<1>1. IInv => WorkIsAudited
  BY DEF IInv, Audited, Unrecorded, WorkIsAudited
<1> QED
  BY <1>1, Invariance, PTL

\* A run of a task does nothing twice, and not more than its steps allow.
THEOREM NothingTwice == Spec => []OnceEach
<1>1. IInv => OnceEach
  BY DEF IInv, Counted, Invoked, OnceEach
<1> QED
  BY <1>1, Invariance, PTL
=============================================================================
