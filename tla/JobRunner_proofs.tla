-------------------------- MODULE JobRunner_proofs --------------------------
(***************************************************************************)
(* Proofs about the Boss's job runners, for any number of jobs, slots and  *)
(* phases, with disposals and kills between any two steps of the tasks.    *)
(***************************************************************************)
EXTENDS JobRunner, TLAPS, FiniteSetTheorems, SequenceTheorems

-----------------------------------------------------------------------------
(* Sequences without repetition.                                           *)

\* What r keeps of s, it keeps in the order of s.
InOrderOf(r, s) ==
  \A x, y \in 1 .. Len(r) : x < y =>
    \E u, v \in 1 .. Len(s) : u < v /\ r[x] = s[u] /\ r[y] = s[v]

LEMMA Injective ==
  ASSUME NEW s \in Seq(Jobs)
  PROVE  IsInjective(s) <=> \A x, y \in 1 .. Len(s) : s[x] = s[y] => x = y
BY DEF IsInjective

\* list.remove: the one place of j is gone, everything else is still there.
LEMMA Removed ==
  ASSUME NEW s \in Seq(Jobs), IsInjective(s), NEW j
  PROVE  /\ RemoveFirst(s, j) \in Seq(Jobs)
         /\ IsInjective(RemoveFirst(s, j))
         /\ \A k : Contains(RemoveFirst(s, j), k) <=> Contains(s, k) /\ k # j
         /\ InOrderOf(RemoveFirst(s, j), s)
<1>1. CASE ~ Contains(s, j)
  <2>1. RemoveFirst(s, j) = s
    BY <1>1 DEF RemoveFirst, Contains
  <2>2. InOrderOf(s, s)
    BY DEF InOrderOf
  <2> QED
    BY <1>1, <2>1, <2>2
<1>2. CASE Contains(s, j)
  <2>1. PICK p \in 1 .. Len(s) : s[p] = j
    BY <1>2 DEF Contains
  <2>2. RemoveFirst(s, j) = RemoveAt(s, p)
    <3> DEFINE I == {i \in 1 .. Len(s) : s[i] = j}
    <3>1. I = {p}
      BY <2>1 DEF IsInjective
    <3>2. Min(I) = p
      BY <3>1 DEF Min
    <3>3. SelectInSeq(s, LAMBDA v : v = j) = p
      BY <3>1, <3>2 DEF SelectInSeq
    <3> QED
      BY <2>1, <3>3 DEF RemoveFirst
  <2> DEFINE r == RemoveAt(s, p)
  <2>3. /\ r \in Seq(Jobs) /\ Len(r) = Len(s) - 1
        /\ \A i \in 1 .. Len(r) : r[i] = IF i < p THEN s[i] ELSE s[i + 1]
    <3> DEFINE a == SubSeq(s, 1, p - 1)
               b == SubSeq(s, p + 1, Len(s))
    <3>1. Len(s) \in Nat /\ \A i \in 1 .. Len(s) : s[i] \in Jobs
      OBVIOUS
    <3>2. a \in Seq(Jobs) /\ Len(a) = p - 1 /\ \A i \in 1 .. p - 1 : a[i] = s[i]
      <4>1. \A i \in 1 .. p - 1 : s[i] \in Jobs
        BY <3>1
      <4> HIDE DEF a
      <4> QED
        BY <3>1, <4>1, SubSeqProperties, SMTT(20) DEF a
    <3>3. b \in Seq(Jobs) /\ Len(b) = Len(s) - p /\ \A i \in 1 .. Len(s) - p : b[i] = s[p + i]
      <4>1. \A i \in p + 1 .. Len(s) : s[i] \in Jobs
        BY <3>1
      <4> HIDE DEF b
      <4> QED
        BY <3>1, <4>1, SubSeqProperties, SMTT(20) DEF b
    <3> HIDE DEF a, b
    <3>4. r = a \o b
      BY DEF RemoveAt, a, b
    <3>5. /\ a \o b \in Seq(Jobs) /\ Len(a \o b) = Len(a) + Len(b)
          /\ \A i \in 1 .. Len(a) + Len(b) :
               (a \o b)[i] = IF i <= Len(a) THEN a[i] ELSE b[i - Len(a)]
      BY <3>2, <3>3, ConcatProperties
    <3> HIDE DEF r
    <3>6. /\ r \in Seq(Jobs) /\ Len(r) = Len(s) - 1
          /\ \A i \in 1 .. Len(r) : r[i] = IF i <= p - 1 THEN a[i] ELSE b[i - (p - 1)]
      BY <3>1, <3>2, <3>3, <3>4, <3>5
    <3>7. ASSUME NEW i \in 1 .. Len(r) PROVE r[i] = IF i < p THEN s[i] ELSE s[i + 1]
      <4>1. CASE i < p
        BY <3>1, <3>2, <3>6, <4>1
      <4>2. CASE ~ (i < p)
        <5>1. i - (p - 1) \in 1 .. Len(s) - p /\ r[i] = b[i - (p - 1)]
          BY <3>1, <3>6, <4>2
        <5>2. p + (i - (p - 1)) = i + 1
          BY <3>1, <3>6
        <5> QED
          BY <3>3, <4>2, <5>1, <5>2
      <4> QED
        BY <4>1, <4>2
    <3> QED
      BY <3>6, <3>7
  <2> HIDE DEF r
  <2>4. IsInjective(r)
    <3> SUFFICES ASSUME NEW x \in 1 .. Len(r), NEW y \in 1 .. Len(r), r[x] = r[y]
                 PROVE  x = y
      BY <2>3, Injective
    <3>1. \A a, b \in 1 .. Len(s) : s[a] = s[b] => a = b
      BY Injective
    <3> QED
      BY <2>3, <3>1
  <2>5. ASSUME NEW k PROVE Contains(r, k) <=> Contains(s, k) /\ k # j
    <3>1. ASSUME NEW i \in 1 .. Len(r), r[i] = k PROVE Contains(s, k) /\ k # j
      BY <2>1, <2>3, <3>1 DEF IsInjective, Contains
    <3>2. ASSUME NEW i \in 1 .. Len(s), s[i] = k, k # j PROVE Contains(r, k)
      <4>1. CASE i < p
        BY <2>3, <3>2, <4>1 DEF Contains
      <4>2. CASE i > p
        <5>1. i - 1 \in 1 .. Len(r) /\ r[i - 1] = k
          BY <2>3, <3>2, <4>2
        <5> QED
          BY <5>1 DEF Contains
      <4> QED
        BY <2>1, <3>2, <4>1, <4>2
    <3> QED
      BY <3>1, <3>2 DEF Contains
  <2>6. InOrderOf(r, s)
    <3> SUFFICES ASSUME NEW x \in 1 .. Len(r), NEW y \in 1 .. Len(r), x < y
                 PROVE  \E u, v \in 1 .. Len(s) : u < v /\ r[x] = s[u] /\ r[y] = s[v]
      BY DEF InOrderOf
    <3> DEFINE u == IF x < p THEN x ELSE x + 1
               v == IF y < p THEN y ELSE y + 1
    <3>1. u \in 1 .. Len(s) /\ v \in 1 .. Len(s) /\ u < v
      BY <2>3
    <3>2. r[x] = s[u] /\ r[y] = s[v]
      BY <2>3
    <3> QED
      BY <3>1, <3>2
  <2> QED
    BY <2>2, <2>3, <2>4, <2>5, <2>6 DEF r
<1> QED
  BY <1>1, <1>2

LEMMA Appended ==
  ASSUME NEW s \in Seq(Jobs), IsInjective(s), NEW j \in Jobs, ~ Contains(s, j)
  PROVE  /\ Append(s, j) \in Seq(Jobs)
         /\ IsInjective(Append(s, j))
         /\ \A k : Contains(Append(s, j), k) <=> Contains(s, k) \/ k = j
<1> DEFINE r == Append(s, j)
<1>1. /\ r \in Seq(Jobs) /\ Len(r) = Len(s) + 1 /\ Len(s) \in Nat
      /\ \A i \in 1 .. Len(s) : r[i] = s[i]
      /\ r[Len(s) + 1] = j
  BY AppendProperties
<1> HIDE DEF r
<1>2. IsInjective(r)
  <2> SUFFICES ASSUME NEW x \in 1 .. Len(r), NEW y \in 1 .. Len(r), r[x] = r[y]
               PROVE  x = y
    BY <1>1 DEF IsInjective
  <2> QED
    BY <1>1 DEF IsInjective, Contains
<1>3. ASSUME NEW k PROVE Contains(r, k) <=> Contains(s, k) \/ k = j
  BY <1>1 DEF Contains
<1> QED
  BY <1>1, <1>2, <1>3 DEF r

\* What is left of a line when its first n are served.
LEMMA Rest ==
  ASSUME NEW s \in Seq(Jobs), IsInjective(s), NEW n \in 0 .. Len(s)
  PROVE  /\ SubSeq(s, n + 1, Len(s)) \in Seq(Jobs)
         /\ Len(SubSeq(s, n + 1, Len(s))) = Len(s) - n
         /\ IsInjective(SubSeq(s, n + 1, Len(s)))
         /\ \A k : Contains(SubSeq(s, n + 1, Len(s)), k) <=>
                     Contains(s, k) /\ ~ \E i \in 1 .. n : s[i] = k
         /\ InOrderOf(SubSeq(s, n + 1, Len(s)), s)
<1> DEFINE r == SubSeq(s, n + 1, Len(s))
<1>1. /\ r \in Seq(Jobs) /\ Len(r) = Len(s) - n /\ Len(s) \in Nat
      /\ \A i \in 1 .. Len(r) : r[i] = s[n + i]
  <2>1. Len(s) \in Nat /\ \A i \in n + 1 .. Len(s) : s[i] \in Jobs
    OBVIOUS
  <2> QED
    BY <2>1, SubSeqProperties, SMTT(20)
<1> HIDE DEF r
<1>2. IsInjective(r)
  <2> SUFFICES ASSUME NEW x \in 1 .. Len(r), NEW y \in 1 .. Len(r), r[x] = r[y]
               PROVE  x = y
    BY <1>1, Injective
  <2>1. \A a, b \in 1 .. Len(s) : s[a] = s[b] => a = b
    BY Injective
  <2>2. n + x \in 1 .. Len(s) /\ n + y \in 1 .. Len(s) /\ s[n + x] = s[n + y]
    BY <1>1
  <2>3. n + x = n + y
    BY <2>1, <2>2
  <2> QED
    BY <2>3
<1>3. ASSUME NEW k PROVE Contains(r, k) <=> Contains(s, k) /\ ~ \E i \in 1 .. n : s[i] = k
  <2>1. ASSUME NEW i \in 1 .. Len(r), r[i] = k PROVE Contains(s, k) /\ ~ \E x \in 1 .. n : s[x] = k
    <3>1. n + i \in 1 .. Len(s) /\ s[n + i] = k
      BY <1>1, <2>1
    <3> QED
      BY <3>1 DEF IsInjective, Contains
  <2>2. ASSUME NEW i \in 1 .. Len(s), s[i] = k, ~ \E x \in 1 .. n : s[x] = k PROVE Contains(r, k)
    <3>1. i - n \in 1 .. Len(r) /\ r[i - n] = k
      BY <1>1, <2>2
    <3> QED
      BY <3>1 DEF Contains
  <2> QED
    BY <2>1, <2>2 DEF Contains
<1>4. InOrderOf(r, s)
  <2> SUFFICES ASSUME NEW x \in 1 .. Len(r), NEW y \in 1 .. Len(r), x < y
               PROVE  \E u, v \in 1 .. Len(s) : u < v /\ r[x] = s[u] /\ r[y] = s[v]
    BY DEF InOrderOf
  <2>1. n + x \in 1 .. Len(s) /\ n + y \in 1 .. Len(s) /\ n + x < n + y
    BY <1>1
  <2> QED
    BY <1>1, <2>1
<1> QED
  BY <1>1, <1>2, <1>3, <1>4 DEF r

\* The first n of a line are n tasks.
LEMMA Counting ==
  ASSUME NEW s \in Seq(Jobs), IsInjective(s), NEW n \in 0 .. Len(s)
  PROVE  /\ IsFiniteSet({k \in Jobs : \E i \in 1 .. n : s[i] = k})
         /\ Cardinality({k \in Jobs : \E i \in 1 .. n : s[i] = k}) = n
<1> DEFINE T == {k \in Jobs : \E i \in 1 .. n : s[i] = k}
           f == [i \in 1 .. n |-> s[i]]
<1>1. Len(s) \in Nat /\ n \in Nat /\ DOMAIN s = 1 .. Len(s) /\ \A i \in 1 .. n : s[i] \in Jobs
  OBVIOUS
<1>2. f \in Bijection(1 .. n, T)
  <2>1. f \in [1 .. n -> T]
    BY <1>1
  <2>2. \A a, b \in 1 .. n : f[a] = f[b] => a = b
    BY <1>1 DEF IsInjective
  <2>3. \A t \in T : \E i \in 1 .. n : f[i] = t
    BY <1>1
  <2> QED
    BY <2>1, <2>2, <2>3 DEF Bijection, Injection, Surjection, IsInjective
<1>3. IsFiniteSet(1 .. n) /\ Cardinality(1 .. n) = n
  BY <1>1, FS_Interval
<1> QED
  BY <1>2, <1>3, FS_Bijection DEF ExistsBijection

-----------------------------------------------------------------------------
(* The inductive invariant.                                                *)

\* The line holds the tasks that wait and were not cancelled, once each.
InLine == /\ IsInjective(line)
          /\ \A j \in Jobs : Contains(line, j) <=> stage[j] = "waiting" /\ ~ cancel[j]

Holders == {j \in Jobs : stage[j] \in Holding}

Slots == IsFiniteSet(Holders) /\ SlotsAccounted

\* A task is known from its submit on; it is at a phase once it has entered the
\* runner; the event loop handles the one that is abandoning its plan.
Life == \A j \in Jobs :
          /\ Contains(tasks, j) <=> stage[j] # "absent"
          /\ stage[j] = "absent" => ~ cancel[j]
          /\ stage[j] \in {"absent", "fresh", "waiting", "granted"} => at[j] = 0
          /\ stage[j] \in InRunner \cup {"abandoning"} => at[j] \in 1 .. Phases
          /\ stage[j] = "abandoning" <=> handling = j

\* ListsTruthful, task by task.
Listed == \A j \in Jobs :
            /\ Contains(queued, j) <=> stage[j] \in {"fresh", "waiting", "granted"} /\ ~ cancel[j]
            /\ j \in running <=> stage[j] \in InRunner /\ ~ cancel[j]

Admission == InLine /\ Slots /\ Listed /\ Life

\* Tasks begin in the order of submit, so they wait in that order and are served
\* in it.
Positions == 1 .. Len(tasks)

FreshLast == \A i, k \in Positions :
               i < k /\ stage[tasks[i]] = "fresh" => stage[tasks[k]] \in {"fresh", "done"}

WaitersLast == \A i, k \in Positions :
                 i < k /\ stage[tasks[i]] = "waiting" /\ ~ cancel[tasks[i]]
                   => stage[tasks[k]] \notin {"granted"} \cup InRunner

LineInOrder == \A x, y \in 1 .. Len(line) : \A i, k \in Positions :
                 x < y /\ line[x] = tasks[i] /\ line[y] = tasks[k] => i < k

Turns == FreshLast /\ WaitersLast /\ LineInOrder

IInv == TypeOK /\ Admission /\ Turns /\ AbandonedBottomUp

LEMMA Bounds ==
  /\ NoJob \notin Jobs
  /\ MaxConcurrent \in Nat /\ MaxConcurrent > 0
  /\ Phases \in Nat /\ Phases > 0
  /\ Plan \in Nat /\ Plan = 2 * Phases + 1
BY RunnerAssumption DEF Plan

LEMMA Shown ==
  ASSUME NEW s \in Seq(Jobs)
  PROVE  ToSet(s) = {j \in Jobs : Contains(s, j)}
BY DEF ToSet, Contains

LEMMA SameLine ==
  ASSUME InLine, line' = line,
         \A k \in Jobs : stage'[k] = "waiting" /\ ~ cancel'[k] <=> stage[k] = "waiting" /\ ~ cancel[k]
  PROVE  InLine'
BY DEF InLine

\* Holders keep their slots and no waiter comes or goes.
LEMMA SameHolders ==
  ASSUME Slots, free' = free,
         \A k \in Jobs : stage'[k] \in Holding <=> stage[k] \in Holding,
         \A k \in Jobs : stage[k] = "granted" => stage'[k] = "granted",
         line' # <<>> => line # <<>>
  PROVE  Slots'
<1>1. Holders' = Holders
  BY DEF Holders
<1>2. line' # <<>> => free' = 0 \/ \E j \in Jobs : stage'[j] = "granted"
  BY DEF Slots, SlotsAccounted
<1> QED
  BY <1>1, <1>2 DEF Slots, SlotsAccounted, Holders

-----------------------------------------------------------------------------
(* The semaphore.                                                          *)

\* Only waiters are woken, and they leave the line.
LEMMA Waking ==
  ASSUME TypeOK, InLine, NEW n \in Nat, NEW j \in Jobs, NEW s \in Stages \ {"waiting"},
         stage[j] # "waiting", Wake(n, j, s), UNCHANGED cancel
  PROVE  /\ Served(n) \in 0 .. Len(line) /\ Served(n) <= n
         /\ stage' \in [Jobs -> Stages] /\ line' \in Seq(Jobs) /\ free' \in 0 .. n
         /\ stage'[j] = s
         /\ \A k \in Jobs \ {j} :
              \/ stage'[k] = stage[k]
              \/ stage[k] = "waiting" /\ ~ cancel[k] /\ stage'[k] = "granted"
         /\ line' # <<>> => free' = 0
         /\ InLine'
<1> DEFINE T == {k \in Jobs : \E i \in 1 .. Served(n) : line[i] = k}
<1>1. line \in Seq(Jobs) /\ Len(line) \in Nat /\ stage \in [Jobs -> Stages]
  BY DEF TypeOK
<1>2. Served(n) \in 0 .. Len(line) /\ Served(n) <= n
  BY <1>1 DEF Served
<1>3. \A k \in Jobs : (\E i \in 1 .. Served(n) : line[i] = k) => Contains(line, k)
  BY <1>1, <1>2 DEF Contains
<1>4. \A k \in T : stage[k] = "waiting" /\ ~ cancel[k]
  BY <1>3 DEF InLine
<1>5. stage' = [k \in Jobs |-> IF k = j THEN s ELSE IF k \in T THEN "granted" ELSE stage[k]]
  BY DEF Wake
<1>6. stage' \in [Jobs -> Stages]
  BY <1>1, <1>5 DEF Stages
<1>7. /\ line' \in Seq(Jobs) /\ Len(line') = Len(line) - Served(n) /\ IsInjective(line')
      /\ \A k : Contains(line', k) <=> Contains(line, k) /\ ~ \E i \in 1 .. Served(n) : line[i] = k
  BY <1>1, <1>2, Rest DEF Wake, InLine
<1>8. free' = n - Served(n)
  BY DEF Wake
<1>9. line' # <<>> => free' = 0
  <2>1. line' # <<>> => Len(line') # 0
    BY <1>7
  <2> QED
    BY <1>1, <1>2, <1>7, <1>8, <2>1 DEF Served
<1>10. ASSUME NEW k \in Jobs PROVE Contains(line', k) <=> stage'[k] = "waiting" /\ ~ cancel'[k]
  <2>1. CASE k = j
    BY <1>5, <1>7, <2>1 DEF InLine
  <2>2. CASE k \in T
    BY <1>5, <1>7, <2>1, <2>2
  <2>3. CASE k # j /\ k \notin T
    <3>1. stage'[k] = stage[k] /\ (Contains(line', k) <=> Contains(line, k))
      BY <1>5, <1>7, <2>3
    <3> QED
      BY <3>1 DEF InLine
  <2> QED
    BY <2>1, <2>2, <2>3
<1>11. InLine'
  BY <1>7, <1>10 DEF InLine
<1> QED
  BY <1>2, <1>4, <1>5, <1>6, <1>7, <1>8, <1>9, <1>11

\* n slots for the waiters and what j keeps: none is lost, none is made.
LEMMA Handing ==
  ASSUME TypeOK, InLine, Slots, NEW n \in Nat, NEW j \in Jobs, NEW s \in Stages \ {"waiting"},
         stage[j] \in Holding, Wake(n, j, s), UNCHANGED cancel,
         n = IF s \in Holding THEN free ELSE free + 1
  PROVE  Slots'
<1> DEFINE T == {k \in Jobs : \E i \in 1 .. Served(n) : line[i] = k}
           B == IF s \in Holding THEN Holders ELSE Holders \ {j}
<1>1. /\ Served(n) \in 0 .. Len(line) /\ Served(n) <= n /\ line \in Seq(Jobs) /\ free \in Nat
      /\ line' # <<>> => free' = 0
      /\ stage[j] # "waiting"
  BY Waking DEF TypeOK, Holding
<1>2. IsFiniteSet(T) /\ Cardinality(T) = Served(n)
  BY <1>1, Counting DEF InLine
<1>3. IsFiniteSet(Holders) /\ Cardinality(Holders) \in Nat /\ free + Cardinality(Holders) = MaxConcurrent
  BY FS_CardinalityType DEF Slots, SlotsAccounted, Holders
<1>4. IsFiniteSet(B) /\ Cardinality(B) \in Nat /\ n + Cardinality(B) = MaxConcurrent
  <2>1. CASE s \in Holding
    BY <1>3, <2>1
  <2>2. CASE s \notin Holding
    <3>1. j \in Holders
      BY DEF Holders
    <3>2. IsFiniteSet(Holders \ {j}) /\ Cardinality(Holders \ {j}) = Cardinality(Holders) - 1
      BY <1>3, <3>1, FS_RemoveElement
    <3>3. Cardinality(Holders \ {j}) \in Nat
      BY <3>2, FS_CardinalityType
    <3> QED
      BY <1>1, <1>3, <2>2, <3>2, <3>3
  <2> QED
    BY <2>1, <2>2
<1>5. \A k \in T : Contains(line, k)
  BY <1>1 DEF Contains
<1>6. \A k \in T : stage[k] = "waiting"
  BY <1>5 DEF InLine
<1>7. T \cap B = {}
  BY <1>6 DEF Holders, Holding
<1>8. IsFiniteSet(B \cup T) /\ Cardinality(B \cup T) = Cardinality(B) + Served(n)
  <2>1. Cardinality(B \cap T) = 0
    BY <1>7, FS_EmptySet
  <2> HIDE DEF B, T
  <2>2. IsFiniteSet(B \cup T) /\ Cardinality(B \cup T) = Cardinality(B) + Cardinality(T) - Cardinality(B \cap T)
    BY <1>2, <1>4, FS_Union
  <2> QED
    BY <1>1, <1>2, <1>4, <2>1, <2>2
<1>9. Holders' = B \cup T
  <2>1. ASSUME NEW k \in Jobs PROVE stage'[k] \in Holding <=> k \in B \cup T
    <3>1. stage'[k] = IF k = j THEN s ELSE IF k \in T THEN "granted" ELSE stage[k]
      BY DEF Wake
    <3>2. j \notin T
      BY <1>1, <1>6
    <3> QED
      BY <3>1, <3>2 DEF Holders, Holding
  <2> QED
    BY <2>1 DEF Holders
<1>10. free' + Cardinality(Holders') = MaxConcurrent
  BY <1>1, <1>4, <1>8, <1>9 DEF Wake
<1> QED
  BY <1>1, <1>8, <1>9, <1>10 DEF Slots, SlotsAccounted, Holders

-----------------------------------------------------------------------------
(* Every step keeps the accounts of slots, line and lists.                 *)

LEMMA InitInv == Init => IInv
<1> SUFFICES ASSUME Init PROVE IInv
  OBVIOUS
<1>1. /\ <<>> \in Seq(Jobs) /\ IsInjective(<<>>) /\ \A k : ~ Contains(<<>>, k)
  BY DEF IsInjective, Contains
<1>2. TypeOK
  BY <1>1, Bounds DEF Init, TypeOK, Stages
<1>3. InLine /\ Listed /\ Life
  BY <1>1, Bounds DEF Init, InLine, Listed, Life, InRunner
<1>4. Holders = {}
  BY DEF Init, Holders, Holding
<1>5. Slots
  <2>1. IsFiniteSet(Holders) /\ Cardinality(Holders) = 0
    BY <1>4, FS_EmptySet
  <2>2. free + Cardinality(Holders) = MaxConcurrent /\ line = <<>>
    BY <2>1, Bounds DEF Init
  <2> QED
    BY <2>1, <2>2 DEF Slots, SlotsAccounted, Holders
<1>6. AbandonedBottomUp
  BY Bounds DEF Init, AbandonedBottomUp
<1>7. Turns
  BY DEF Init, Turns, FreshLast, WaitersLast, LineInOrder, Positions
<1> QED
  BY <1>2, <1>3, <1>5, <1>6, <1>7 DEF IInv, Admission

LEMMA KillInv ==
  ASSUME Kill
  PROVE  Admission'
<1>1. IsInjective(<<>>) /\ \A k : ~ Contains(<<>>, k)
  BY DEF IsInjective, Contains
<1>2. InLine' /\ Listed' /\ Life'
  BY <1>1, Bounds DEF Kill, InLine, Listed, Life, InRunner
<1>3. Holders' = {}
  BY DEF Kill, Holders, Holding
<1>4. Slots'
  <2>1. IsFiniteSet(Holders') /\ Cardinality(Holders') = 0
    BY <1>3, FS_EmptySet
  <2>2. free' + Cardinality(Holders') = MaxConcurrent /\ line' = <<>>
    BY <2>1, Bounds DEF Kill
  <2> QED
    BY <2>1, <2>2 DEF Slots, SlotsAccounted, Holders
<1> QED
  BY <1>2, <1>4 DEF Admission

\* NewControl, Pause, FinishTask, AbandonNext and stuttering.
LEMMA QuietInv ==
  ASSUME IInv, UNCHANGED <<stage, at, cancel, slots, lists, handling>>
  PROVE  Admission'
<1>1. InLine'
  BY DEF IInv, Admission, InLine, slots
<1>2. Slots'
  BY SameHolders DEF IInv, Admission, slots
<1>3. Listed' /\ Life'
  BY DEF IInv, Admission, Listed, Life, lists
<1> QED
  BY <1>1, <1>2, <1>3 DEF Admission

LEMMA BeginInv ==
  ASSUME IInv, NEW j \in Jobs, Begin(j), UNCHANGED handling
  PROVE  Admission'
<1>1. /\ stage \in [Jobs -> Stages] /\ at \in [Jobs -> 0 .. Phases]
      /\ line \in Seq(Jobs) /\ queued \in Seq(Jobs) /\ IsInjective(queued)
      /\ InLine /\ Slots /\ Listed /\ Life
      /\ stage[j] = "fresh" /\ ~ cancel[j] /\ UNCHANGED <<cancel, tasks>>
  BY DEF IInv, TypeOK, Admission, Begin, Enter, lists
<1>2. CASE Locked
  <2>1. /\ stage' = [stage EXCEPT ![j] = "waiting"] /\ line' = Append(line, j)
        /\ UNCHANGED <<at, free, queued, running>>
    BY <1>2 DEF Begin, lists
  <2>2. ~ Contains(line, j)
    BY <1>1 DEF InLine
  <2>3. InLine'
    BY <1>1, <2>1, <2>2, Appended DEF InLine
  <2>4. free = 0 \/ \E k \in Jobs : stage[k] = "granted"
    BY <1>1, <1>2 DEF Locked, Slots, SlotsAccounted
  <2>5. free' = 0 \/ \E k \in Jobs : stage'[k] = "granted"
    BY <1>1, <2>1, <2>4
  <2>6. Holders' = Holders
    BY <1>1, <2>1 DEF Holders, Holding
  <2>7. Slots'
    BY <1>1, <2>1, <2>5, <2>6 DEF Slots, SlotsAccounted, Holders
  <2>8. Listed' /\ Life'
    BY <1>1, <2>1 DEF Listed, Life, InRunner
  <2> QED
    BY <2>3, <2>7, <2>8 DEF Admission
<1>3. CASE ~ Locked
  <2>1. /\ stage' = [stage EXCEPT ![j] = Checkpoint(j)] /\ free' = free - 1 /\ line' = line
        /\ queued' = RemoveFirst(queued, j) /\ running' = running \cup {j}
        /\ at' = [at EXCEPT ![j] = 1]
    BY <1>3 DEF Begin, Enter
  <2>2. Checkpoint(j) \in {"phase", "parked"}
    BY DEF Checkpoint
  <2>3. InLine'
    BY <1>1, <2>1, <2>2 DEF InLine
  <2>4. Holders' = Holders \cup {j} /\ j \notin Holders
    BY <1>1, <2>1, <2>2 DEF Holders, Holding
  <2>5. IsFiniteSet(Holders) /\ Cardinality(Holders) \in Nat /\ free + Cardinality(Holders) = MaxConcurrent
    BY <1>1, FS_CardinalityType DEF Slots, SlotsAccounted, Holders
  <2>6. IsFiniteSet(Holders') /\ Cardinality(Holders') = Cardinality(Holders) + 1
    BY <2>4, <2>5, FS_AddElement
  <2>7. free \in Nat /\ line = <<>>
    BY <1>3 DEF IInv, TypeOK, Locked
  <2>8. free' + Cardinality(Holders') = MaxConcurrent
    BY <2>1, <2>5, <2>6, <2>7
  <2>9. Slots'
    BY <2>1, <2>6, <2>7, <2>8 DEF Slots, SlotsAccounted, Holders
  <2>10. \A k : Contains(queued', k) <=> Contains(queued, k) /\ k # j
    BY <1>1, <2>1, Removed
  <2>11. Listed'
    BY <1>1, <2>1, <2>2, <2>10 DEF Listed, InRunner
  <2>12. Life'
    BY <1>1, <2>1, <2>2, Bounds DEF Life, InRunner
  <2> QED
    BY <2>3, <2>9, <2>11, <2>12 DEF Admission
<1> QED
  BY <1>2, <1>3

LEMMA AdmitInv ==
  ASSUME IInv, NEW j \in Jobs, Admit(j), UNCHANGED handling
  PROVE  Admission'
<1>1. /\ stage \in [Jobs -> Stages] /\ at \in [Jobs -> 0 .. Phases]
      /\ queued \in Seq(Jobs) /\ IsInjective(queued) /\ free \in Nat
      /\ InLine /\ Slots /\ Listed /\ Life
      /\ stage[j] = "granted" /\ ~ cancel[j] /\ UNCHANGED <<cancel, tasks>>
  BY DEF IInv, TypeOK, Admission, Admit, Enter
<1>2. /\ Wake(free, j, Checkpoint(j))
      /\ queued' = RemoveFirst(queued, j) /\ running' = running \cup {j}
      /\ at' = [at EXCEPT ![j] = 1]
  BY DEF Admit, Enter
<1>3. Checkpoint(j) \in {"phase", "parked"} /\ {"phase", "parked"} \subseteq Stages \ {"waiting"}
  BY DEF Checkpoint, Stages
<1>4. /\ InLine'
      /\ stage' \in [Jobs -> Stages] /\ stage'[j] = Checkpoint(j)
      /\ \A k \in Jobs \ {j} :
           \/ stage'[k] = stage[k]
           \/ stage[k] = "waiting" /\ ~ cancel[k] /\ stage'[k] = "granted"
  BY <1>1, <1>2, <1>3, Waking DEF IInv
<1>5. Slots'
  BY <1>1, <1>2, <1>3, Handing DEF IInv, Holding
<1>6. \A k : Contains(queued', k) <=> Contains(queued, k) /\ k # j
  BY <1>1, <1>2, Removed
<1>7. Listed'
  BY <1>1, <1>2, <1>3, <1>4, <1>6 DEF Listed, InRunner
<1>8. Life'
  BY <1>1, <1>2, <1>3, <1>4, Bounds DEF Life, InRunner
<1> QED
  BY <1>4, <1>5, <1>7, <1>8 DEF Admission

\* A task that gives its slot back: the slot is free, or the next in line has it.
LEMMA Leaving ==
  ASSUME IInv, NEW j \in Jobs, Release(j), stage[j] \in Holding, UNCHANGED cancel
  PROVE  /\ InLine' /\ Slots'
         /\ stage' \in [Jobs -> Stages] /\ stage'[j] = "done"
         /\ \A k \in Jobs \ {j} :
              \/ stage'[k] = stage[k]
              \/ stage[k] = "waiting" /\ ~ cancel[k] /\ stage'[k] = "granted"
<1>1. free \in Nat /\ free + 1 \in Nat /\ "done" \in Stages \ {"waiting"} /\ "done" \notin Holding
  BY DEF IInv, TypeOK, Stages, Holding
<1>2. stage[j] # "waiting"
  BY DEF Holding
<1>3. Wake(free + 1, j, "done")
  BY DEF Release
<1>4. Slots'
  BY <1>1, <1>3, Handing DEF IInv, Admission
<1> QED
  BY <1>1, <1>2, <1>3, <1>4, Waking DEF IInv, Admission

LEMMA WakeUpInv ==
  ASSUME IInv, NEW j \in Jobs, WakeUp(j), UNCHANGED handling
  PROVE  Admission'
<1>1. /\ stage \in [Jobs -> Stages]
      /\ InLine /\ Slots /\ Listed /\ Life
      /\ stage[j] = "woken" /\ stage' = [stage EXCEPT ![j] = "phase"]
      /\ UNCHANGED <<at, cancel, free, line, tasks, queued, running>>
  BY DEF IInv, TypeOK, Admission, WakeUp, slots, lists
<1>2. InLine'
  BY <1>1 DEF InLine
<1>3. Slots'
  BY <1>1, SameHolders DEF Holding
<1>4. Listed' /\ Life'
  BY <1>1 DEF Listed, Life, InRunner
<1> QED
  BY <1>2, <1>3, <1>4 DEF Admission

\* The last phase is over, or a phase raised.
LEMMA LeaveInv ==
  ASSUME IInv, NEW j \in Jobs, stage[j] = "phase", ~ cancel[j],
         Release(j), running' = running \ {j},
         UNCHANGED <<at, cancel, tasks, queued, handling>>
  PROVE  Admission'
<1>1. Listed /\ Life
  BY DEF IInv, Admission
<1>2. /\ InLine' /\ Slots'
      /\ stage'[j] = "done"
      /\ \A k \in Jobs \ {j} :
           \/ stage'[k] = stage[k]
           \/ stage[k] = "waiting" /\ ~ cancel[k] /\ stage'[k] = "granted"
  BY Leaving DEF Holding
<1>3. Listed'
  BY <1>1, <1>2 DEF Listed, InRunner
<1>4. Life'
  BY <1>1, <1>2 DEF Life, InRunner
<1> QED
  BY <1>2, <1>3, <1>4 DEF Admission

LEMMA FinishPhaseInv ==
  ASSUME IInv, NEW j \in Jobs, FinishPhase(j), UNCHANGED handling
  PROVE  Admission'
<1>1. CASE at[j] < Phases
  <2>1. /\ stage \in [Jobs -> Stages] /\ at \in [Jobs -> 0 .. Phases]
        /\ InLine /\ Slots /\ Listed /\ Life
        /\ stage[j] = "phase" /\ ~ cancel[j]
        /\ stage' = [stage EXCEPT ![j] = Checkpoint(j)] /\ at' = [at EXCEPT ![j] = @ + 1]
        /\ UNCHANGED <<cancel, free, line, tasks, queued, running>>
    BY <1>1 DEF IInv, TypeOK, Admission, FinishPhase, slots
  <2>2. Checkpoint(j) \in {"phase", "parked"}
    BY DEF Checkpoint
  <2>3. InLine'
    BY <2>1, <2>2 DEF InLine
  <2>4. Slots'
    BY <2>1, <2>2, SameHolders DEF Holding
  <2>5. Listed'
    BY <2>1, <2>2 DEF Listed, InRunner
  <2>6. Life'
    BY <1>1, <2>1, <2>2, Bounds DEF Life, InRunner
  <2> QED
    BY <2>3, <2>4, <2>5, <2>6 DEF Admission
<1>2. CASE ~ (at[j] < Phases)
  BY <1>2, LeaveInv DEF FinishPhase
<1> QED
  BY <1>1, <1>2

LEMMA CancelOutsideInv ==
  ASSUME IInv, NEW j \in Jobs, CancelOutside(j), UNCHANGED handling
  PROVE  Admission'
<1>1. /\ stage \in [Jobs -> Stages]
      /\ InLine /\ Slots /\ Listed /\ Life
      /\ cancel[j] /\ stage[j] \in {"fresh", "waiting"} /\ stage' = [stage EXCEPT ![j] = "done"]
      /\ UNCHANGED <<at, cancel, free, line, tasks, queued, running>>
  BY DEF IInv, TypeOK, Admission, CancelOutside, slots, lists
<1>2. InLine'
  BY <1>1 DEF InLine
<1>3. Slots'
  BY <1>1, SameHolders DEF Holding
<1>4. Listed' /\ Life'
  BY <1>1 DEF Listed, Life, InRunner
<1> QED
  BY <1>2, <1>3, <1>4 DEF Admission

LEMMA CancelGrantedInv ==
  ASSUME IInv, NEW j \in Jobs, CancelGranted(j), UNCHANGED handling
  PROVE  Admission'
<1>1. /\ Listed /\ Life /\ cancel[j] /\ stage[j] = "granted"
      /\ UNCHANGED <<at, cancel, tasks, queued, running>>
  BY DEF IInv, Admission, CancelGranted, lists
<1>2. /\ InLine' /\ Slots'
      /\ stage'[j] = "done"
      /\ \A k \in Jobs \ {j} :
           \/ stage'[k] = stage[k]
           \/ stage[k] = "waiting" /\ ~ cancel[k] /\ stage'[k] = "granted"
  BY <1>1, Leaving DEF Holding, CancelGranted
<1>3. Listed' /\ Life'
  BY <1>1, <1>2 DEF Listed, Life, InRunner
<1> QED
  BY <1>2, <1>3 DEF Admission

LEMMA InterruptInv ==
  ASSUME IInv, NEW j \in Jobs, Idle, Interrupt(j)
  PROVE  Admission'
<1>1. /\ stage \in [Jobs -> Stages]
      /\ InLine /\ Slots /\ Listed /\ Life
      /\ cancel[j] /\ stage[j] \in InRunner /\ stage' = [stage EXCEPT ![j] = "abandoning"]
      /\ handling = NoJob /\ handling' = j
      /\ UNCHANGED <<at, cancel, free, line, tasks, queued, running>>
  BY DEF IInv, TypeOK, Admission, Interrupt, CancelInRunner, Idle, slots, lists
<1>2. InLine'
  BY <1>1 DEF InLine, InRunner
<1>3. Slots'
  BY <1>1, SameHolders DEF Holding, InRunner
<1>4. Listed'
  BY <1>1 DEF Listed, InRunner
<1>5. Life'
  BY <1>1, Bounds DEF Life, InRunner
<1> QED
  BY <1>2, <1>3, <1>4, <1>5 DEF Admission

LEMMA EndAbandonInv ==
  ASSUME IInv, handling # NoJob, EndAbandon, handling' = NoJob
  PROVE  Admission'
<1>1. /\ handling \in Jobs /\ Listed /\ Life
      /\ UNCHANGED <<at, cancel, tasks, queued, running>>
  BY DEF IInv, TypeOK, Admission, EndAbandon, lists
<1>2. stage[handling] = "abandoning"
  BY <1>1 DEF Life
<1>3. /\ InLine' /\ Slots'
      /\ stage'[handling] = "done"
      /\ \A k \in Jobs \ {handling} :
           \/ stage'[k] = stage[k]
           \/ stage[k] = "waiting" /\ ~ cancel[k] /\ stage'[k] = "granted"
  BY <1>1, <1>2, Leaving DEF Holding, EndAbandon
<1>4. Listed'
  BY <1>1, <1>2, <1>3 DEF Listed, InRunner
<1>5. Life'
  BY <1>1, <1>2, <1>3, Bounds DEF Life, InRunner
<1> QED
  BY <1>3, <1>4, <1>5 DEF Admission

LEMMA ResumeInv ==
  ASSUME IInv, NEW j \in Jobs, Resume(j), UNCHANGED handling
  PROVE  Admission'
<1>1. /\ stage \in [Jobs -> Stages]
      /\ InLine /\ Slots /\ Listed /\ Life
      /\ UNCHANGED <<at, cancel, free, line, tasks, queued, running>>
      /\ \A k \in Jobs : stage'[k] = stage[k] \/ (stage[k] = "parked" /\ stage'[k] = "woken")
  BY DEF IInv, TypeOK, Admission, Resume, slots, lists
<1>2. InLine'
  BY <1>1, SameLine
<1>3. Slots'
  BY <1>1, SameHolders DEF Holding
<1>4. Listed' /\ Life'
  BY <1>1 DEF Listed, Life, InRunner
<1> QED
  BY <1>2, <1>3, <1>4 DEF Admission

LEMMA SubmitInv ==
  ASSUME IInv, NEW j \in Jobs, Submit(j), UNCHANGED handling
  PROVE  Admission'
<1>1. /\ stage \in [Jobs -> Stages] /\ tasks \in Seq(Jobs) /\ IsInjective(tasks)
      /\ queued \in Seq(Jobs) /\ IsInjective(queued)
      /\ InLine /\ Slots /\ Listed /\ Life
      /\ ~ Contains(tasks, j) /\ tasks' = Append(tasks, j) /\ queued' = Append(queued, j)
      /\ stage' = [stage EXCEPT ![j] = "fresh"]
      /\ UNCHANGED <<at, cancel, free, line, running>>
  BY DEF IInv, TypeOK, Admission, Submit, slots
<1>2. stage[j] = "absent" /\ ~ cancel[j] /\ ~ Contains(queued, j)
  BY <1>1 DEF Life, Listed
<1>3. \A k : Contains(tasks', k) <=> Contains(tasks, k) \/ k = j
  BY <1>1, Appended
<1>4. \A k : Contains(queued', k) <=> Contains(queued, k) \/ k = j
  BY <1>1, <1>2, Appended
<1>5. InLine'
  BY <1>1, <1>2 DEF InLine
<1>6. Slots'
  BY <1>1, <1>2, SameHolders DEF Holding
<1>7. Listed'
  BY <1>1, <1>2, <1>4 DEF Listed, InRunner
<1>8. Life'
  BY <1>1, <1>2, <1>3 DEF Life, InRunner
<1> QED
  BY <1>5, <1>6, <1>7, <1>8 DEF Admission

LEMMA DisposeInv ==
  ASSUME IInv, NEW j \in Jobs, Dispose(j), UNCHANGED handling
  PROVE  Admission'
<1>1. /\ line \in Seq(Jobs) /\ cancel \in [Jobs -> BOOLEAN]
      /\ queued \in Seq(Jobs) /\ IsInjective(queued)
      /\ InLine /\ Slots /\ Listed /\ Life
      /\ stage[j] \notin {"absent", "done"}
      /\ cancel' = [cancel EXCEPT ![j] = TRUE]
      /\ line' = RemoveFirst(line, j) /\ queued' = RemoveFirst(queued, j)
      /\ running' = running \ {j}
      /\ UNCHANGED <<stage, at, free, tasks>>
  BY DEF IInv, TypeOK, Admission, Dispose
<1>2. /\ IsInjective(line') /\ line' \in Seq(Jobs)
      /\ \A k : Contains(line', k) <=> Contains(line, k) /\ k # j
  BY <1>1, Removed DEF InLine
<1>3. \A k : Contains(queued', k) <=> Contains(queued, k) /\ k # j
  BY <1>1, Removed
<1>4. InLine'
  BY <1>1, <1>2 DEF InLine
<1>5. line' # <<>> => line # <<>>
  BY <1>1 DEF RemoveFirst
<1>6. Slots'
  BY <1>1, <1>5, SameHolders
<1>7. Listed'
  BY <1>1, <1>3 DEF Listed
<1>8. Life'
  BY <1>1 DEF Life
<1> QED
  BY <1>4, <1>6, <1>7, <1>8 DEF Admission

LEMMA AdmissionStep == IInv /\ [Next]_vars => Admission'
<1> SUFFICES ASSUME IInv, [Next]_vars PROVE Admission'
  OBVIOUS
<1>1. ASSUME NEW j \in Jobs, Loop(j) PROVE Admission'
  <2>1. CASE Interrupt(j)
    BY <1>1, <2>1, InterruptInv DEF Loop
  <2>2. CASE Step(j) /\ UNCHANGED handling
    <3>1. CASE Begin(j)
      BY <2>2, <3>1, BeginInv
    <3>2. CASE Admit(j)
      BY <2>2, <3>2, AdmitInv
    <3>3. CASE WakeUp(j)
      BY <2>2, <3>3, WakeUpInv
    <3>4. CASE FinishTask(j)
      BY <2>2, <3>4, QuietInv DEF FinishTask
    <3>5. CASE FinishPhase(j)
      BY <2>2, <3>5, FinishPhaseInv
    <3>6. CASE PhaseRaises(j)
      BY <2>2, <3>6, LeaveInv DEF PhaseRaises
    <3>7. CASE CancelOutside(j)
      BY <2>2, <3>7, CancelOutsideInv
    <3>8. CASE CancelGranted(j)
      BY <2>2, <3>8, CancelGrantedInv
    <3> QED
      BY <2>2, <3>1, <3>2, <3>3, <3>4, <3>5, <3>6, <3>7, <3>8 DEF Step
  <2> QED
    BY <1>1, <2>1, <2>2 DEF Loop
<1>2. ASSUME NEW j \in Jobs, Ask(j), UNCHANGED handling PROVE Admission'
  <2>1. CASE NewControl(j)
    BY <1>2, <2>1, QuietInv DEF NewControl
  <2>2. CASE Pause(j)
    BY <1>2, <2>2, QuietInv DEF Pause
  <2>3. CASE Resume(j)
    BY <1>2, <2>3, ResumeInv
  <2>4. CASE Submit(j)
    BY <1>2, <2>4, SubmitInv
  <2>5. CASE Dispose(j)
    BY <1>2, <2>5, DisposeInv
  <2> QED
    BY <1>2, <2>1, <2>2, <2>3, <2>4, <2>5 DEF Ask
<1>3. CASE handling # NoJob /\ Handle
  <2>1. CASE AbandonNext /\ UNCHANGED handling
    BY <2>1, QuietInv DEF AbandonNext
  <2>2. CASE EndAbandon /\ handling' = NoJob
    BY <1>3, <2>2, EndAbandonInv
  <2> QED
    BY <1>3, <2>1, <2>2 DEF Handle
<1>4. CASE Kill
  BY <1>4, KillInv
<1>5. CASE UNCHANGED vars
  BY <1>5, QuietInv DEF vars
<1> QED
  BY <1>1, <1>2, <1>3, <1>4, <1>5 DEF Next

-----------------------------------------------------------------------------
(* The plan of each job.                                                   *)

\* Rows only ever close, and what abandon_tree marks it marks from below.
LEMMA RowsStep == IInv /\ [Next]_vars => AbandonedBottomUp'
<1> SUFFICES ASSUME IInv, [Next]_vars PROVE AbandonedBottomUp'
  OBVIOUS
<1>1. /\ rows \in [Jobs -> [1 .. Plan -> {"open", "Closed", "Abandoned"}]]
      /\ stage \in [Jobs -> Stages] /\ at \in [Jobs -> 0 .. Phases]
      /\ cancel \in [Jobs -> BOOLEAN]
      /\ AbandonedBottomUp /\ Life
  BY DEF IInv, TypeOK, Admission
<1> DEFINE Over(j) == \A i \in 1 .. Plan : rows[j][i] # "open"
           Ended(j) == cancel[j] /\ stage[j] = "done" /\ at[j] > 0
\* Whoever ends in this step without its plan being over was not cancelled at a phase.
<1>2. ASSUME rows' = rows, \A j \in Jobs : Ended(j)' => Ended(j) \/ Over(j)
      PROVE  AbandonedBottomUp'
  BY <1>1, <1>2 DEF AbandonedBottomUp
<1>3. ASSUME NEW j \in Jobs, Loop(j) PROVE AbandonedBottomUp'
  <2>1. CASE Interrupt(j)
    <3>1. rows' = rows /\ stage' = [stage EXCEPT ![j] = "abandoning"] /\ UNCHANGED <<at, cancel>>
      BY <2>1 DEF Interrupt, CancelInRunner
    <3> QED
      BY <1>1, <1>2, <3>1
  <2>2. CASE Begin(j)
    <3>1. /\ rows' = rows /\ UNCHANGED cancel /\ ~ cancel[j]
          /\ \A k \in Jobs \ {j} : stage'[k] = stage[k] /\ at'[k] = at[k]
      BY <1>1, <2>2 DEF Begin, Enter
    <3> QED
      BY <1>2, <3>1
  <2>3. CASE Admit(j)
    <3>1. /\ rows' = rows /\ UNCHANGED cancel /\ ~ cancel[j]
          /\ \A k \in Jobs \ {j} : at'[k] = at[k] /\ (stage'[k] = "done" => stage[k] = "done")
      BY <1>1, <2>3 DEF Admit, Enter, Wake
    <3> QED
      BY <1>2, <3>1
  <2>4. CASE WakeUp(j)
    <3>1. /\ rows' = rows /\ UNCHANGED <<cancel, at>> /\ stage' = [stage EXCEPT ![j] = "phase"]
      BY <2>4 DEF WakeUp
    <3> QED
      BY <1>1, <1>2, <3>1
  <2>5. CASE FinishTask(j)
    <3>1. /\ UNCHANGED <<stage, at, cancel>>
          /\ stage[j] = "phase"
          /\ rows' = [rows EXCEPT ![j][2 * at[j] - 1] = "Closed"]
      BY <2>5 DEF FinishTask
    <3>2. at[j] \in 1 .. Phases
      BY <1>1, <3>1 DEF Life, InRunner
    <3>3. 2 * at[j] - 1 \in 1 .. Plan /\ \A h \in 1 .. Phases : 2 * h # 2 * at[j] - 1
      BY <3>2, Bounds
    <3>4. \A k \in Jobs, i \in 1 .. Plan :
            rows'[k][i] = IF k = j /\ i = 2 * at[j] - 1 THEN "Closed" ELSE rows[k][i]
      BY <1>1, <3>1, <3>3
    <3>5. \A h \in 1 .. Phases : 2 * h \in 1 .. Plan /\ 2 * h - 1 \in 1 .. Plan
      BY Bounds
    <3>6. Plan # 2 * at[j] - 1 /\ Plan \in 1 .. Plan
      BY <3>2, Bounds
    <3> QED
      BY <1>1, <3>1, <3>3, <3>4, <3>5, <3>6 DEF AbandonedBottomUp
  <2>6. CASE FinishPhase(j)
    <3>1. /\ UNCHANGED cancel /\ ~ cancel[j] /\ stage[j] = "phase"
          /\ rows' = [rows EXCEPT ![j][2 * at[j]] = IF @ = "open" THEN "Closed" ELSE @]
          /\ \A k \in Jobs \ {j} : at'[k] = at[k] /\ (stage'[k] = "done" => stage[k] = "done")
      BY <1>1, <2>6 DEF FinishPhase, Release, Wake
    <3>2. at[j] \in 1 .. Phases
      BY <1>1, <3>1 DEF Life, InRunner
    <3>3. 2 * at[j] \in 1 .. Plan
      BY <3>2, Bounds
    <3>4. \A k \in Jobs, i \in 1 .. Plan :
            /\ rows'[k][i] = "Abandoned" <=> rows[k][i] = "Abandoned"
            /\ rows'[k][i] = "open" => rows[k][i] = "open"
      BY <1>1, <3>1, <3>3
    <3>5. \A h \in 1 .. Phases : 2 * h \in 1 .. Plan /\ 2 * h - 1 \in 1 .. Plan
      BY Bounds
    <3>6. Plan \in 1 .. Plan
      BY Bounds
    <3> QED
      BY <1>1, <3>1, <3>4, <3>5, <3>6 DEF AbandonedBottomUp
  <2>7. CASE PhaseRaises(j)
    <3>1. /\ rows' = rows /\ UNCHANGED <<cancel, at>> /\ ~ cancel[j]
          /\ \A k \in Jobs \ {j} : stage'[k] = "done" => stage[k] = "done"
      BY <1>1, <2>7 DEF PhaseRaises, Release, Wake
    <3> QED
      BY <1>2, <3>1
  <2>8. CASE CancelOutside(j)
    <3>1. /\ rows' = rows /\ UNCHANGED <<cancel, at>> /\ stage[j] \in {"fresh", "waiting"}
          /\ \A k \in Jobs \ {j} : stage'[k] = stage[k]
      BY <1>1, <2>8 DEF CancelOutside
    <3>2. at[j] = 0
      BY <1>1, <3>1 DEF Life
    <3> QED
      BY <1>2, <3>1, <3>2
  <2>9. CASE CancelGranted(j)
    <3>1. /\ rows' = rows /\ UNCHANGED <<cancel, at>> /\ stage[j] = "granted"
          /\ \A k \in Jobs \ {j} : stage'[k] = "done" => stage[k] = "done"
      BY <1>1, <2>9 DEF CancelGranted, Release, Wake
    <3>2. at[j] = 0
      BY <1>1, <3>1 DEF Life
    <3> QED
      BY <1>2, <3>1, <3>2
  <2> QED
    BY <1>3, <2>1, <2>2, <2>3, <2>4, <2>5, <2>6, <2>7, <2>8, <2>9 DEF Loop, Step
<1>4. ASSUME NEW j \in Jobs, Ask(j) PROVE AbandonedBottomUp'
  <2>1. CASE NewControl(j) \/ Pause(j)
    <3>1. UNCHANGED <<rows, stage, at, cancel>>
      BY <2>1 DEF NewControl, Pause
    <3> QED
      BY <1>2, <3>1
  <2>2. CASE Resume(j)
    <3>1. /\ UNCHANGED <<rows, at, cancel>>
          /\ \A k \in Jobs : stage'[k] = stage[k] \/ stage'[k] = "woken"
      BY <1>1, <2>2 DEF Resume
    <3> QED
      BY <1>2, <3>1
  <2>3. CASE Submit(j)
    <3>1. /\ UNCHANGED <<rows, at, cancel>> /\ stage' = [stage EXCEPT ![j] = "fresh"]
      BY <2>3 DEF Submit
    <3> QED
      BY <1>1, <1>2, <3>1
  <2>4. CASE Dispose(j)
    <3>1. /\ UNCHANGED <<rows, at, stage>> /\ stage[j] # "done"
          /\ cancel' = [cancel EXCEPT ![j] = TRUE]
      BY <2>4 DEF Dispose
    <3> QED
      BY <1>1, <1>2, <3>1
  <2> QED
    BY <1>4, <2>1, <2>2, <2>3, <2>4 DEF Ask
<1>5. CASE handling # NoJob /\ Handle
  <2>1. handling \in Jobs /\ stage[handling] = "abandoning"
    BY <1>1, <1>5 DEF IInv, TypeOK, Life
  <2>2. CASE AbandonNext
    <3>1. UNCHANGED <<stage, at, cancel>>
      BY <2>2 DEF AbandonNext
    <3>2. PICK i \in 1 .. Plan :
            /\ rows[handling][i] = "open"
            /\ \A k \in 1 .. i - 1 : rows[handling][k] # "open"
            /\ rows' = [rows EXCEPT ![handling][i] = "Abandoned"]
      BY <2>2 DEF AbandonNext
    <3>3. \A k \in Jobs, x \in 1 .. Plan :
            rows'[k][x] = IF k = handling /\ x = i THEN "Abandoned" ELSE rows[k][x]
      BY <1>1, <2>1, <3>2
    <3>4. \A h \in 1 .. Phases : 2 * h \in 1 .. Plan /\ 2 * h - 1 \in 1 .. Plan
      BY Bounds
    <3>5. ASSUME NEW k \in Jobs, NEW h \in 1 .. Phases, rows'[k][2 * h] = "Abandoned"
          PROVE  rows'[k][2 * h - 1] # "open"
      <4>1. CASE k = handling /\ 2 * h = i
        <5>1. 2 * h - 1 \in 1 .. i - 1
          BY <4>1
        <5> QED
          BY <3>2, <3>3, <3>4, <4>1, <5>1
      <4>2. CASE ~ (k = handling /\ 2 * h = i)
        BY <1>1, <3>3, <3>4, <3>5, <4>2 DEF AbandonedBottomUp
      <4> QED
        BY <4>1, <4>2
    <3>6. ASSUME NEW k \in Jobs, rows'[k][Plan] = "Abandoned", NEW x \in 1 .. Plan
          PROVE  rows'[k][x] # "open"
      <4>1. Plan \in 1 .. Plan
        BY Bounds
      <4>2. CASE k = handling /\ Plan = i
        <5>1. x = i \/ x \in 1 .. i - 1
          BY <4>2, Bounds
        <5> QED
          BY <3>2, <3>3, <4>2, <5>1
      <4>3. CASE ~ (k = handling /\ Plan = i)
        BY <1>1, <3>3, <3>6, <4>1, <4>3 DEF AbandonedBottomUp
      <4> QED
        BY <4>2, <4>3
    <3>7. ASSUME NEW k \in Jobs, Ended(k)', NEW x \in 1 .. Plan PROVE rows'[k][x] # "open"
      BY <1>1, <2>1, <3>1, <3>3, <3>7 DEF AbandonedBottomUp
    <3> QED
      BY <3>5, <3>6, <3>7 DEF AbandonedBottomUp
  <2>3. CASE EndAbandon
    <3>1. /\ UNCHANGED <<rows, at, cancel>> /\ Over(handling)
          /\ \A k \in Jobs \ {handling} : stage'[k] = "done" => stage[k] = "done"
      BY <1>1, <2>1, <2>3 DEF EndAbandon, Release, Wake
    <3> QED
      BY <1>2, <3>1
  <2> QED
    BY <1>5, <2>2, <2>3 DEF Handle
<1>6. CASE Kill
  <2>1. rows' = rows /\ \A k \in Jobs : stage'[k] = "absent"
    BY <1>6 DEF Kill
  <2> QED
    BY <1>2, <2>1
<1>7. CASE UNCHANGED vars
  <2>1. UNCHANGED <<rows, stage, at, cancel>>
    BY <1>7 DEF vars
  <2> QED
    BY <1>2, <2>1
<1> QED
  BY <1>3, <1>4, <1>5, <1>6, <1>7 DEF Next

-----------------------------------------------------------------------------
(* The order of submit.                                                    *)

\* No task begins, is submitted or is handed a slot.
LEMMA SameTurns ==
  ASSUME IInv, UNCHANGED tasks, InOrderOf(line', line),
         \A k \in Jobs : stage'[k] = "fresh" => stage[k] = "fresh",
         \A k \in Jobs : stage[k] \in {"fresh", "done"} => stage'[k] \in {"fresh", "done"},
         \A k \in Jobs : stage'[k] = "waiting" /\ ~ cancel'[k] => stage[k] = "waiting" /\ ~ cancel[k],
         \A k \in Jobs : stage'[k] \in {"granted"} \cup InRunner => stage[k] \in {"granted"} \cup InRunner
  PROVE  Turns'
<1>1. \A i \in Positions : tasks[i] \in Jobs
  BY DEF IInv, TypeOK, Positions
<1>2. FreshLast'
  BY <1>1 DEF IInv, Turns, FreshLast, Positions
<1>3. WaitersLast'
  BY <1>1 DEF IInv, Turns, WaitersLast, Positions
<1>4. LineInOrder'
  <2> SUFFICES ASSUME NEW x \in 1 .. Len(line'), NEW y \in 1 .. Len(line'),
                      NEW i \in Positions, NEW k \in Positions,
                      x < y, line'[x] = tasks[i], line'[y] = tasks[k]
               PROVE  i < k
    BY DEF LineInOrder, Positions
  <2>1. PICK u \in 1 .. Len(line), v \in 1 .. Len(line) :
          u < v /\ line'[x] = line[u] /\ line'[y] = line[v]
    BY DEF InOrderOf
  <2>2. LineInOrder
    BY DEF IInv, Turns
  <2> QED
    BY <2>1, <2>2 DEF LineInOrder
<1> QED
  BY <1>2, <1>3, <1>4 DEF Turns

LEMMA Itself == InOrderOf(line, line)
BY DEF InOrderOf

\* Slots are handed out from the head of the line.
LEMMA ServedTurns ==
  ASSUME IInv, NEW n \in Nat, NEW j \in Jobs, NEW s \in {"phase", "parked", "done"},
         stage[j] \in Holding, s # "done" => stage[j] = "granted",
         Wake(n, j, s), UNCHANGED <<cancel, tasks>>
  PROVE  Turns'
<1>1. /\ \A i \in Positions : tasks[i] \in Jobs
      /\ stage \in [Jobs -> Stages] /\ line \in Seq(Jobs) /\ IsInjective(line) /\ InLine
      /\ FreshLast /\ WaitersLast /\ LineInOrder
  BY DEF IInv, TypeOK, Positions, Admission, InLine, Turns
<1>2. s \in Stages \ {"waiting"} /\ stage[j] \notin {"fresh", "waiting", "done"}
  BY DEF Stages, Holding
<1>3. /\ Served(n) \in 0 .. Len(line)
      /\ stage'[j] = s
      /\ \A k \in Jobs \ {j} :
           \/ stage'[k] = stage[k]
           \/ stage[k] = "waiting" /\ ~ cancel[k] /\ stage'[k] = "granted"
  BY <1>1, <1>2, Waking DEF IInv
<1>4. FreshLast'
  <2>1. \A k \in Jobs : /\ stage'[k] = "fresh" => stage[k] = "fresh"
                        /\ stage[k] \in {"fresh", "done"} => stage'[k] = stage[k]
    BY <1>2, <1>3
  <2> QED
    BY <1>1, <2>1 DEF FreshLast, Positions
<1>5. LineInOrder'
  <2>1. InOrderOf(line', line)
    BY <1>1, <1>3, Rest DEF Wake
  <2> QED
    BY <1>1, <2>1 DEF LineInOrder, InOrderOf, Positions
<1>6. WaitersLast'
  <2> SUFFICES ASSUME NEW i \in Positions, NEW k \in Positions, i < k,
                      stage'[tasks[i]] = "waiting", ~ cancel[tasks[i]],
                      stage'[tasks[k]] \in {"granted"} \cup InRunner
               PROVE  FALSE
    BY DEF WaitersLast, Positions
  <2>1. stage[tasks[i]] = "waiting" /\ tasks[i] # j
    BY <1>1, <1>2, <1>3
  <2>2. stage[tasks[k]] \notin {"granted"} \cup InRunner
    BY <1>1, <2>1 DEF WaitersLast
  <2>3. tasks[k] # j
    <3>1. CASE s = "done"
      BY <1>3, <3>1 DEF InRunner
    <3>2. CASE s # "done"
      BY <2>2, <3>2
    <3> QED
      BY <3>1, <3>2
  <2>4. PICK u \in 1 .. Served(n) : line[u] = tasks[k]
    <3>1. stage'[tasks[k]] # stage[tasks[k]]
      BY <2>2
    <3>2. stage'[tasks[k]] = IF \E x \in 1 .. Served(n) : line[x] = tasks[k]
                             THEN "granted" ELSE stage[tasks[k]]
      BY <1>1, <2>3 DEF Wake
    <3> QED
      BY <3>1, <3>2
  <2>5. PICK v \in 1 .. Len(line) : line[v] = tasks[i]
    BY <1>1, <2>1 DEF InLine, Contains
  <2>6. ~ (v \in 1 .. Served(n))
    <3>1. stage'[tasks[i]] = IF \E x \in 1 .. Served(n) : line[x] = tasks[i]
                             THEN "granted" ELSE stage[tasks[i]]
      BY <1>1, <2>1 DEF Wake
    <3> QED
      BY <2>5, <3>1
  <2>7. Len(line) \in Nat
    BY <1>1
  <2>8. u \in 1 .. Len(line) /\ u < v
    BY <1>3, <2>6, <2>7
  <2>9. k < i
    BY <1>1, <2>4, <2>5, <2>8 DEF LineInOrder
  <2>10. i \in Nat /\ k \in Nat
    BY DEF IInv, TypeOK, Positions
  <2> QED
    BY <2>9, <2>10
<1> QED
  BY <1>4, <1>5, <1>6 DEF Turns

LEMMA ReleaseTurns ==
  ASSUME IInv, NEW j \in Jobs, stage[j] \in Holding, Release(j), UNCHANGED <<cancel, tasks>>
  PROVE  Turns'
<1>1. free + 1 \in Nat /\ Wake(free + 1, j, "done")
  BY DEF IInv, TypeOK, Release
<1> QED
  BY <1>1, ServedTurns

LEMMA BeginTurns ==
  ASSUME IInv, NEW j \in Jobs, Begin(j)
  PROVE  Turns'
<1>1. /\ \A i \in Positions : tasks[i] \in Jobs
      /\ \A i, k \in Positions : tasks[i] = tasks[k] => i = k
      /\ Len(tasks) \in Nat
      /\ stage \in [Jobs -> Stages] /\ line \in Seq(Jobs) /\ Len(line) \in Nat /\ InLine
      /\ FreshLast /\ WaitersLast /\ LineInOrder
      /\ stage[j] = "fresh" /\ UNCHANGED <<cancel, tasks>>
      /\ \A k \in Jobs \ {j} : stage'[k] = stage[k]
  BY Injective DEF IInv, TypeOK, Positions, Admission, Turns, Begin, Enter, lists
<1>2. Contains(tasks, j)
  BY <1>1 DEF IInv, Admission, Life
<1>3. PICK p \in Positions : tasks[p] = j /\ \A h \in 1 .. p - 1 : stage[tasks[h]] # "fresh"
  <2>1. CASE tasks[1] = j
    <3>1. 1 \in Positions
      BY <1>1, <1>2 DEF Contains, Positions
    <3>2. \A h \in 1 .. 1 - 1 : stage[tasks[h]] # "fresh"
      OBVIOUS
    <3> QED
      BY <2>1, <3>1, <3>2
  <2>2. CASE \E i \in 2 .. Len(tasks) :
               tasks[i] = j /\ \A h \in 1 .. i - 1 : stage[tasks[h]] # "fresh"
    BY <1>1, <2>2 DEF Positions
  <2> QED
    BY <2>1, <2>2 DEF Begin
<1>4. p \in Nat /\ \A i \in Positions : i \in Nat /\ (i < p => i \in 1 .. p - 1)
  BY <1>1 DEF Positions
<1>5. stage'[j] # "fresh"
  BY <1>1 DEF Begin, Checkpoint
<1>6. FreshLast'
  <2> SUFFICES ASSUME NEW i \in Positions, NEW k \in Positions, i < k, stage'[tasks[i]] = "fresh"
               PROVE  stage'[tasks[k]] \in {"fresh", "done"}
    BY <1>1 DEF FreshLast, Positions
  <2>1. tasks[i] # j /\ stage[tasks[i]] = "fresh"
    BY <1>1, <1>5
  <2>2. k # p
    BY <1>3, <1>4, <2>1
  <2>3. tasks[k] # j
    BY <1>1, <1>3, <2>2
  <2> QED
    BY <1>1, <2>1, <2>3 DEF FreshLast
<1>7. CASE Locked
  <2>1. stage'[j] = "waiting" /\ line' = Append(line, j)
    BY <1>1, <1>7 DEF Begin
  <2>2. WaitersLast'
    <3> SUFFICES ASSUME NEW i \in Positions, NEW k \in Positions, i < k,
                        stage'[tasks[i]] = "waiting", ~ cancel[tasks[i]]
                 PROVE  stage'[tasks[k]] \notin {"granted"} \cup InRunner
      BY <1>1 DEF WaitersLast, Positions
    <3>1. CASE tasks[k] = j
      BY <2>1, <3>1 DEF InRunner
    <3>2. CASE tasks[k] # j /\ tasks[i] = j
      BY <1>1, <3>2 DEF FreshLast, InRunner
    <3>3. CASE tasks[k] # j /\ tasks[i] # j
      BY <1>1, <3>3 DEF WaitersLast
    <3> QED
      BY <3>1, <3>2, <3>3
  <2>3. LineInOrder'
    <3> SUFFICES ASSUME NEW x \in 1 .. Len(line'), NEW y \in 1 .. Len(line'),
                        NEW i \in Positions, NEW k \in Positions, x < y,
                        line'[x] = tasks[i], line'[y] = tasks[k]
                 PROVE  i < k
      BY <1>1 DEF LineInOrder, Positions
    <3>1. /\ Len(line') = Len(line) + 1 /\ line'[Len(line) + 1] = j
          /\ \A z \in 1 .. Len(line) : line'[z] = line[z]
      BY <1>1, <2>1, AppendProperties
    <3>2. x \in 1 .. Len(line) /\ line[x] = tasks[i]
      BY <1>1, <3>1
    <3>3. CASE y \in 1 .. Len(line)
      BY <1>1, <3>1, <3>2, <3>3 DEF LineInOrder
    <3>4. CASE y = Len(line) + 1
      <4>1. k = p
        BY <1>1, <1>3, <3>1, <3>4
      <4>2. stage[tasks[i]] = "waiting"
        BY <1>1, <3>2 DEF InLine, Contains
      <4>3. i # p /\ ~ (p < i)
        BY <1>1, <1>3, <4>2 DEF FreshLast
      <4> QED
        BY <1>4, <4>1, <4>3
    <3> QED
      BY <1>1, <3>1, <3>3, <3>4
  <2> QED
    BY <1>6, <2>2, <2>3 DEF Turns
<1>8. CASE ~ Locked
  <2>1. stage'[j] \in {"phase", "parked"} /\ line' = line /\ line = <<>>
    BY <1>1, <1>8 DEF Begin, Checkpoint, Locked
  <2>2. \A k \in Jobs : ~ (stage[k] = "waiting" /\ ~ cancel[k])
    BY <1>1, <2>1 DEF InLine, Contains
  <2>3. WaitersLast'
    BY <1>1, <2>1, <2>2 DEF WaitersLast, Positions
  <2>4. LineInOrder'
    BY <2>1 DEF LineInOrder
  <2> QED
    BY <1>6, <2>3, <2>4 DEF Turns
<1> QED
  BY <1>7, <1>8

LEMMA SubmitTurns ==
  ASSUME IInv, NEW j \in Jobs, Submit(j)
  PROVE  Turns'
<1>1. /\ \A i \in Positions : tasks[i] \in Jobs
      /\ Len(tasks) \in Nat /\ tasks \in Seq(Jobs)
      /\ stage \in [Jobs -> Stages] /\ line \in Seq(Jobs) /\ InLine
      /\ FreshLast /\ WaitersLast /\ LineInOrder
      /\ ~ Contains(tasks, j) /\ stage' = [stage EXCEPT ![j] = "fresh"]
      /\ tasks' = Append(tasks, j) /\ UNCHANGED <<cancel, line>>
  BY DEF IInv, TypeOK, Positions, Admission, Turns, Submit, slots
<1>2. stage[j] = "absent"
  BY <1>1 DEF IInv, Admission, Life
<1>3. /\ Len(tasks') = Len(tasks) + 1 /\ tasks'[Len(tasks) + 1] = j
      /\ \A i \in Positions : tasks'[i] = tasks[i] /\ tasks[i] # j
  BY <1>1, AppendProperties DEF Positions, Contains
<1>4. /\ \A i \in Positions' : i \in Positions \/ i = Len(tasks) + 1
      /\ \A i, k \in Positions' : i < k => i \in Positions
  BY <1>1, <1>3 DEF Positions
<1>5. FreshLast'
  BY <1>1, <1>3, <1>4 DEF FreshLast
<1>6. WaitersLast'
  BY <1>1, <1>3, <1>4 DEF WaitersLast, InRunner
<1>7. LineInOrder'
  <2>1. \A x \in 1 .. Len(line) : line[x] # j
    BY <1>1, <1>2 DEF InLine, Contains
  <2> SUFFICES ASSUME NEW x \in 1 .. Len(line'), NEW y \in 1 .. Len(line'),
                      NEW i \in Positions', NEW k \in Positions', x < y,
                      line'[x] = tasks'[i], line'[y] = tasks'[k]
               PROVE  i < k
    BY DEF LineInOrder
  <2>2. i \in Positions /\ k \in Positions
    BY <1>1, <1>3, <1>4, <2>1
  <2> QED
    BY <1>1, <1>3, <2>2 DEF LineInOrder
<1> QED
  BY <1>5, <1>6, <1>7 DEF Turns

LEMMA TurnsStep == IInv /\ [Next]_vars => Turns'
<1> SUFFICES ASSUME IInv, [Next]_vars PROVE Turns'
  OBVIOUS
<1>1. /\ stage \in [Jobs -> Stages] /\ cancel \in [Jobs -> BOOLEAN] /\ free \in Nat
      /\ line \in Seq(Jobs) /\ IsInjective(line) /\ Life
  BY DEF IInv, TypeOK, Admission, InLine
<1>2. ASSUME NEW j \in Jobs, Loop(j) PROVE Turns'
  <2>1. CASE Interrupt(j)
    <3>1. /\ stage[j] \in InRunner /\ stage' = [stage EXCEPT ![j] = "abandoning"]
          /\ UNCHANGED <<cancel, line, tasks>>
      BY <2>1 DEF Interrupt, CancelInRunner, slots, lists
    <3> QED
      BY <1>1, <3>1, Itself, SameTurns DEF InRunner
  <2>2. CASE Begin(j)
    BY <2>2, BeginTurns
  <2>3. CASE Admit(j)
    <3>1. Checkpoint(j) \in {"phase", "parked"}
      BY DEF Checkpoint
    <3> QED
      BY <1>1, <2>3, <3>1, ServedTurns DEF Admit, Enter, Holding
  <2>4. CASE WakeUp(j)
    <3>1. /\ stage[j] = "woken" /\ stage' = [stage EXCEPT ![j] = "phase"]
          /\ UNCHANGED <<cancel, line, tasks>>
      BY <2>4 DEF WakeUp, slots, lists
    <3> QED
      BY <1>1, <3>1, Itself, SameTurns DEF InRunner
  <2>5. CASE FinishTask(j)
    BY <2>5, Itself, SameTurns DEF FinishTask, slots, lists
  <2>6. CASE FinishPhase(j)
    <3>1. CASE at[j] < Phases
      <4>1. /\ stage[j] = "phase" /\ stage' = [stage EXCEPT ![j] = Checkpoint(j)]
            /\ UNCHANGED <<cancel, line, tasks>>
        BY <2>6, <3>1 DEF FinishPhase, slots
      <4>2. Checkpoint(j) \in {"phase", "parked"}
        BY DEF Checkpoint
      <4> QED
        BY <1>1, <4>1, <4>2, Itself, SameTurns DEF InRunner
    <3>2. CASE ~ (at[j] < Phases)
      BY <2>6, <3>2, ReleaseTurns DEF FinishPhase, Holding
    <3> QED
      BY <3>1, <3>2
  <2>7. CASE PhaseRaises(j)
    BY <2>7, ReleaseTurns DEF PhaseRaises, Holding
  <2>8. CASE CancelOutside(j)
    <3>1. /\ stage[j] \in {"fresh", "waiting"} /\ stage' = [stage EXCEPT ![j] = "done"]
          /\ UNCHANGED <<cancel, line, tasks>>
      BY <2>8 DEF CancelOutside, slots, lists
    <3> QED
      BY <1>1, <3>1, Itself, SameTurns DEF InRunner
  <2>9. CASE CancelGranted(j)
    BY <2>9, ReleaseTurns DEF CancelGranted, Holding, lists
  <2> QED
    BY <1>2, <2>1, <2>2, <2>3, <2>4, <2>5, <2>6, <2>7, <2>8, <2>9 DEF Loop, Step
<1>3. ASSUME NEW j \in Jobs, Ask(j) PROVE Turns'
  <2>1. CASE NewControl(j) \/ Pause(j)
    <3>1. UNCHANGED <<stage, cancel, line, tasks>>
      BY <2>1 DEF NewControl, Pause, slots, lists
    <3> QED
      BY <3>1, Itself, SameTurns
  <2>2. CASE Resume(j)
    <3>1. /\ UNCHANGED <<cancel, line, tasks>>
          /\ \A k \in Jobs : stage'[k] = stage[k] \/ (stage[k] = "parked" /\ stage'[k] = "woken")
      BY <1>1, <2>2 DEF Resume, slots, lists
    <3> QED
      BY <1>1, <3>1, Itself, SameTurns DEF InRunner
  <2>3. CASE Submit(j)
    BY <2>3, SubmitTurns
  <2>4. CASE Dispose(j)
    <3>1. /\ cancel' = [cancel EXCEPT ![j] = TRUE] /\ UNCHANGED <<stage, tasks>>
          /\ line' = RemoveFirst(line, j)
      BY <2>4 DEF Dispose
    <3>2. InOrderOf(line', line)
      BY <1>1, <3>1, Removed
    <3> QED
      BY <1>1, <3>1, <3>2, SameTurns
  <2> QED
    BY <1>3, <2>1, <2>2, <2>3, <2>4 DEF Ask
<1>4. CASE handling # NoJob /\ Handle
  <2>1. CASE AbandonNext
    BY <2>1, Itself, SameTurns DEF AbandonNext, slots, lists
  <2>2. CASE EndAbandon
    <3>1. handling \in Jobs /\ stage[handling] = "abandoning"
      BY <1>1, <1>4 DEF IInv, TypeOK, Life
    <3> QED
      BY <2>2, <3>1, ReleaseTurns DEF EndAbandon, Holding, lists
  <2> QED
    BY <1>4, <2>1, <2>2 DEF Handle
<1>5. CASE Kill
  BY <1>5 DEF Kill, Turns, FreshLast, WaitersLast, LineInOrder, Positions
<1>6. CASE UNCHANGED vars
  BY <1>6, Itself, SameTurns DEF vars, slots, lists
<1> QED
  BY <1>2, <1>3, <1>4, <1>5, <1>6 DEF Next

-----------------------------------------------------------------------------
(* Types.                                                                  *)

LEMMA Capped ==
  ASSUME Slots', free' \in Nat
  PROVE  free' \in 0 .. MaxConcurrent
<1>1. IsFiniteSet(Holders') /\ free' + Cardinality(Holders') = MaxConcurrent
  BY DEF Slots, SlotsAccounted, Holders
<1>2. Cardinality(Holders') \in Nat
  BY <1>1, FS_CardinalityType
<1> QED
  BY <1>1, <1>2, Bounds

LEMMA SlotTypes ==
  ASSUME IInv, NEW j \in Jobs, stage[j] \in Holding, Release(j), UNCHANGED cancel
  PROVE  stage' \in [Jobs -> Stages] /\ line' \in Seq(Jobs) /\ free' \in Nat
<1>1. free + 1 \in Nat /\ "done" \in Stages \ {"waiting"} /\ stage[j] # "waiting"
  BY DEF IInv, TypeOK, Stages, Holding
<1> QED
  BY <1>1, Waking DEF IInv, Admission, Release

LEMMA TypeStep == IInv /\ [Next]_vars => TypeOK'
<1> SUFFICES ASSUME IInv, [Next]_vars PROVE TypeOK'
  OBVIOUS
<1>1. /\ stage \in [Jobs -> Stages] /\ at \in [Jobs -> 0 .. Phases]
      /\ cancel \in [Jobs -> BOOLEAN] /\ free \in Nat /\ line \in Seq(Jobs) /\ IsInjective(line)
      /\ tasks \in Seq(Jobs) /\ IsInjective(tasks) /\ queued \in Seq(Jobs) /\ IsInjective(queued)
      /\ running \subseteq Jobs
      /\ signal \in [Jobs -> {"none", "set", "clear"}] /\ paused \in [Jobs -> BOOLEAN]
      /\ rows \in [Jobs -> [1 .. Plan -> {"open", "Closed", "Abandoned"}]]
      /\ handling \in Jobs \cup {NoJob}
      /\ InLine /\ Listed /\ Life
  BY DEF IInv, TypeOK, Admission, InLine
<1>2. \A j \in Jobs : Checkpoint(j) \in {"phase", "parked"} /\ Checkpoint(j) \in Stages
  BY DEF Checkpoint, Stages
<1>3. {"fresh", "waiting", "granted", "woken", "phase", "abandoning", "done", "absent"} \subseteq Stages
  BY DEF Stages
<1>4. free' \in Nat => free' \in 0 .. MaxConcurrent
  BY AdmissionStep, Capped DEF Admission
<1>5. \A j \in Jobs : /\ RemoveFirst(queued, j) \in Seq(Jobs) /\ IsInjective(RemoveFirst(queued, j))
                      /\ RemoveFirst(line, j) \in Seq(Jobs)
  BY <1>1, Removed
\* The queue and the semaphore.
<1>6. /\ stage' \in [Jobs -> Stages] /\ line' \in Seq(Jobs) /\ free' \in Nat
      /\ tasks' \in Seq(Jobs) /\ IsInjective(tasks')
      /\ queued' \in Seq(Jobs) /\ IsInjective(queued')
      /\ running' \subseteq Jobs
  <2> DEFINE Goal == /\ stage' \in [Jobs -> Stages] /\ line' \in Seq(Jobs) /\ free' \in Nat
                     /\ tasks' \in Seq(Jobs) /\ IsInjective(tasks')
                     /\ queued' \in Seq(Jobs) /\ IsInjective(queued')
                     /\ running' \subseteq Jobs
  <2>1. ASSUME NEW j \in Jobs, Loop(j) PROVE Goal
    <3>1. CASE Interrupt(j)
      BY <1>1, <1>3, <3>1 DEF Interrupt, CancelInRunner, slots, lists
    <3>2. CASE Begin(j)
      <4>1. CASE Locked
        <5>1. Append(line, j) \in Seq(Jobs)
          BY <1>1
        <5> QED
          BY <1>1, <1>3, <3>2, <4>1, <5>1 DEF Begin, lists
      <4>2. CASE ~ Locked
        <5>1. free - 1 \in Nat
          BY <1>1, <4>2 DEF Locked
        <5> QED
          BY <1>1, <1>2, <1>5, <3>2, <4>2, <5>1 DEF Begin, Enter
      <4> QED
        BY <4>1, <4>2
    <3>3. CASE Admit(j)
      <4>1. Checkpoint(j) \in Stages \ {"waiting"} /\ stage[j] # "waiting"
        BY <1>2, <3>3 DEF Admit
      <4>2. stage' \in [Jobs -> Stages] /\ line' \in Seq(Jobs) /\ free' \in Nat
        BY <1>1, <3>3, <4>1, Waking DEF IInv, Admit, Enter
      <4> QED
        BY <1>1, <1>5, <3>3, <4>2 DEF Admit, Enter
    <3>4. CASE WakeUp(j)
      BY <1>1, <1>3, <3>4 DEF WakeUp, slots, lists
    <3>5. CASE FinishTask(j)
      BY <1>1, <3>5 DEF FinishTask, slots, lists
    <3>6. CASE FinishPhase(j)
      <4>1. CASE at[j] < Phases
        BY <1>1, <1>2, <3>6, <4>1 DEF FinishPhase, slots
      <4>2. CASE ~ (at[j] < Phases)
        <5>1. stage' \in [Jobs -> Stages] /\ line' \in Seq(Jobs) /\ free' \in Nat
          BY <3>6, <4>2, SlotTypes DEF FinishPhase, Holding
        <5> QED
          BY <1>1, <3>6, <4>2, <5>1 DEF FinishPhase
      <4> QED
        BY <4>1, <4>2
    <3>7. CASE PhaseRaises(j)
      <4>1. stage' \in [Jobs -> Stages] /\ line' \in Seq(Jobs) /\ free' \in Nat
        BY <3>7, SlotTypes DEF PhaseRaises, Holding
      <4> QED
        BY <1>1, <3>7, <4>1 DEF PhaseRaises
    <3>8. CASE CancelOutside(j)
      BY <1>1, <1>3, <3>8 DEF CancelOutside, slots, lists
    <3>9. CASE CancelGranted(j)
      <4>1. stage' \in [Jobs -> Stages] /\ line' \in Seq(Jobs) /\ free' \in Nat
        BY <3>9, SlotTypes DEF CancelGranted, Holding
      <4> QED
        BY <1>1, <3>9, <4>1 DEF CancelGranted, lists
    <3> QED
      BY <2>1, <3>1, <3>2, <3>3, <3>4, <3>5, <3>6, <3>7, <3>8, <3>9 DEF Loop, Step
  <2>2. ASSUME NEW j \in Jobs, Ask(j) PROVE Goal
    <3>1. CASE NewControl(j) \/ Pause(j)
      BY <1>1, <3>1 DEF NewControl, Pause, slots, lists
    <3>2. CASE Resume(j)
      BY <1>1, <1>3, <3>2 DEF Resume, slots, lists
    <3>3. CASE Submit(j)
      <4>1. ~ Contains(tasks, j) /\ ~ Contains(queued, j)
        BY <1>1, <3>3 DEF Submit, Life, Listed
      <4>2. /\ Append(tasks, j) \in Seq(Jobs) /\ IsInjective(Append(tasks, j))
            /\ Append(queued, j) \in Seq(Jobs) /\ IsInjective(Append(queued, j))
        BY <1>1, <4>1, Appended
      <4> QED
        BY <1>1, <1>3, <3>3, <4>2 DEF Submit, slots
    <3>4. CASE Dispose(j)
      BY <1>1, <1>5, <3>4 DEF Dispose
    <3> QED
      BY <2>2, <3>1, <3>2, <3>3, <3>4 DEF Ask
  <2>3. CASE handling # NoJob /\ Handle
    <3>1. CASE AbandonNext
      BY <1>1, <3>1 DEF AbandonNext, slots, lists
    <3>2. CASE EndAbandon
      <4>1. handling \in Jobs /\ stage[handling] \in Holding
        BY <1>1, <2>3 DEF Life, Holding
      <4>2. stage' \in [Jobs -> Stages] /\ line' \in Seq(Jobs) /\ free' \in Nat
        BY <3>2, <4>1, SlotTypes DEF EndAbandon
      <4> QED
        BY <1>1, <3>2, <4>2 DEF EndAbandon, lists
    <3> QED
      BY <2>3, <3>1, <3>2 DEF Handle
  <2>4. CASE Kill
    <3>1. <<>> \in Seq(Jobs) /\ IsInjective(<<>>) /\ MaxConcurrent \in Nat
      BY Bounds DEF IsInjective
    <3> QED
      BY <1>3, <2>4, <3>1 DEF Kill
  <2>5. CASE UNCHANGED vars
    BY <1>1, <2>5 DEF vars, slots, lists
  <2> QED
    BY <2>1, <2>2, <2>3, <2>4, <2>5 DEF Next
\* Where the tasks are, and what the owner said.
<1>7. /\ at' \in [Jobs -> 0 .. Phases] /\ cancel' \in [Jobs -> BOOLEAN]
      /\ handling' \in Jobs \cup {NoJob}
  <2>1. ASSUME NEW j \in Jobs, at' = [at EXCEPT ![j] = 1] PROVE at' \in [Jobs -> 0 .. Phases]
    BY <1>1, <2>1, Bounds
  <2>2. ASSUME NEW j \in Jobs, at[j] < Phases, at' = [at EXCEPT ![j] = @ + 1]
        PROVE  at' \in [Jobs -> 0 .. Phases]
    <3>1. at[j] + 1 \in 0 .. Phases
      BY <1>1, <2>2, Bounds
    <3> QED
      BY <1>1, <2>2, <3>1
  <2>3. ASSUME NEW j \in Jobs, Loop(j)
        PROVE  at' \in [Jobs -> 0 .. Phases] /\ UNCHANGED cancel /\ handling' \in Jobs \cup {NoJob}
    <3>1. CASE Interrupt(j)
      BY <1>1, <3>1 DEF Interrupt, CancelInRunner
    <3>2. CASE Step(j) /\ UNCHANGED handling
      <4>1. UNCHANGED cancel
        BY <3>2 DEF Step, Begin, Enter, Admit, WakeUp, FinishTask, FinishPhase, PhaseRaises,
                    CancelOutside, CancelGranted
      <4>2. CASE Begin(j) \/ Admit(j)
        BY <1>1, <3>2, <4>1, <2>1, <4>2 DEF Begin, Admit, Enter
      <4>3. CASE FinishPhase(j)
        BY <1>1, <3>2, <4>1, <2>2, <4>3 DEF FinishPhase
      <4>4. CASE WakeUp(j) \/ FinishTask(j) \/ PhaseRaises(j) \/ CancelOutside(j) \/ CancelGranted(j)
        BY <1>1, <3>2, <4>1, <4>4 DEF WakeUp, FinishTask, PhaseRaises, CancelOutside, CancelGranted
      <4> QED
        BY <1>1, <3>2, <4>1, <4>2, <4>3, <4>4 DEF Step
    <3> QED
      BY <2>3, <3>1, <3>2 DEF Loop
  <2>4. ASSUME NEW j \in Jobs, Ask(j) PROVE UNCHANGED at /\ cancel' \in [Jobs -> BOOLEAN]
    BY <1>1, <2>4 DEF Ask, NewControl, Pause, Resume, Submit, Dispose
  <2>5. CASE handling # NoJob /\ Handle
    BY <1>1, <2>5 DEF Handle, AbandonNext, EndAbandon
  <2>6. CASE Kill
    BY <2>6, Bounds DEF Kill
  <2>7. CASE UNCHANGED vars
    BY <1>1, <2>7 DEF vars
  <2> QED
    BY <1>1, <2>3, <2>4, <2>5, <2>6, <2>7 DEF Next
<1>8. signal' \in [Jobs -> {"none", "set", "clear"}] /\ paused' \in [Jobs -> BOOLEAN]
  <2>1. ASSUME NEW j \in Jobs, Loop(j) PROVE UNCHANGED <<signal, paused>>
    BY <2>1 DEF Loop, Step, Interrupt, CancelInRunner, Begin, Enter, Admit, WakeUp, FinishTask,
                FinishPhase, PhaseRaises, CancelOutside, CancelGranted, control
  <2>2. ASSUME NEW j \in Jobs, Ask(j)
        PROVE  signal' \in [Jobs -> {"none", "set", "clear"}] /\ paused' \in [Jobs -> BOOLEAN]
    BY <1>1, <2>2 DEF Ask, NewControl, Pause, Resume, Submit, Dispose, control
  <2>3. CASE handling # NoJob /\ Handle
    BY <1>1, <2>3 DEF Handle, AbandonNext, EndAbandon, control
  <2>4. CASE Kill
    BY <1>1, <2>4 DEF Kill
  <2>5. CASE UNCHANGED vars
    BY <1>1, <2>5 DEF vars, control
  <2> QED
    BY <1>1, <2>1, <2>2, <2>3, <2>4, <2>5 DEF Next
\* The plans.
<1>9. rows' \in [Jobs -> [1 .. Plan -> {"open", "Closed", "Abandoned"}]]
  <2>1. ASSUME NEW j \in Jobs, NEW i, NEW r \in {"open", "Closed", "Abandoned"},
               rows' = [rows EXCEPT ![j][i] = r]
        PROVE  rows' \in [Jobs -> [1 .. Plan -> {"open", "Closed", "Abandoned"}]]
    BY <1>1, <2>1
  <2>2. ASSUME NEW j \in Jobs, FinishPhase(j)
        PROVE  rows' \in [Jobs -> [1 .. Plan -> {"open", "Closed", "Abandoned"}]]
    <3>1. at[j] \in 1 .. Phases
      BY <1>1, <2>2 DEF Life, InRunner, FinishPhase
    <3>2. 2 * at[j] \in 1 .. Plan
      BY <3>1, Bounds
    <3> QED
      BY <1>1, <2>2, <3>2 DEF FinishPhase
  <2>3. ASSUME NEW j \in Jobs, Loop(j)
        PROVE  rows' \in [Jobs -> [1 .. Plan -> {"open", "Closed", "Abandoned"}]]
    <3>1. CASE FinishTask(j)
      BY <2>1, <3>1 DEF FinishTask
    <3>2. CASE ~ FinishTask(j) /\ ~ FinishPhase(j)
      <4>1. UNCHANGED rows
        BY <2>3, <3>2 DEF Loop, Step, Interrupt, CancelInRunner, Begin, Enter, Admit, WakeUp,
                          PhaseRaises, CancelOutside, CancelGranted
      <4> QED
        BY <1>1, <4>1
    <3> QED
      BY <2>2, <3>1, <3>2
  <2>4. ASSUME NEW j \in Jobs, Ask(j) PROVE UNCHANGED rows
    BY <2>4 DEF Ask, NewControl, Pause, Resume, Submit, Dispose
  <2>5. CASE handling # NoJob /\ Handle
    <3>1. CASE AbandonNext
      <4>1. handling \in Jobs
        BY <1>1, <2>5
      <4>2. PICK i \in 1 .. Plan : rows' = [rows EXCEPT ![handling][i] = "Abandoned"]
        BY <3>1 DEF AbandonNext
      <4> QED
        BY <2>1, <4>1, <4>2
    <3>2. CASE EndAbandon
      BY <1>1, <3>2 DEF EndAbandon
    <3> QED
      BY <2>5, <3>1, <3>2 DEF Handle
  <2>6. CASE Kill \/ UNCHANGED vars
    BY <1>1, <2>6 DEF Kill, vars
  <2> QED
    BY <1>1, <2>3, <2>4, <2>5, <2>6 DEF Next
<1> QED
  BY <1>4, <1>6, <1>7, <1>8, <1>9 DEF TypeOK

-----------------------------------------------------------------------------
(* Theorems.                                                               *)

LEMMA Invariant == Spec => []IInv
<1>1. IInv /\ [Next]_vars => IInv'
  BY AdmissionStep, TurnsStep, RowsStep, TypeStep DEF IInv
<1> QED
  BY InitInv, <1>1, PTL DEF Spec

\* The variables have their types: of the semaphore's value, that it stays
\* between 0 and the cap; of the two lists, that they name no job twice.
THEOREM TypeCorrect == Spec => []TypeOK
<1>1. IInv => TypeOK
  BY DEF IInv
<1> QED
  BY Invariant, <1>1, PTL

\* JobScheduler: a slot is free or held by one task, whoever was disposed on
\* the way to it, in it or while it was handed over, and no slot is free while
\* a job waits for one.
THEOREM SlotsAreAccounted == Spec => []SlotsAccounted
<1>1. IInv => SlotsAccounted
  BY DEF IInv, Admission, Slots
<1> QED
  BY Invariant, <1>1, PTL

\* JobScheduler.queued and running: every job that was not disposed is in the
\* list that says where it is.
THEOREM ListsAreTruthful == Spec => []ListsTruthful
<1>1. IInv => ListsTruthful
  <2> SUFFICES ASSUME IInv PROVE ListsTruthful
    OBVIOUS
  <2>1. ToSet(queued) = {j \in Jobs : Contains(queued, j)} /\ running \subseteq Jobs
    BY Shown DEF IInv, TypeOK
  <2> QED
    BY <2>1 DEF IInv, Admission, Listed, ListsTruthful
<1> QED
  BY Invariant, <1>1, PTL

\* JobScheduler._run_with_slot: jobs come to work in the order of submit.
THEOREM ServedInOrder == Spec => []FirstComeFirstServed
<1>1. IInv => FirstComeFirstServed
  BY DEF IInv, Turns, FreshLast, WaitersLast, Positions, FirstComeFirstServed, InRunner
<1> QED
  BY Invariant, <1>1, PTL

\* abandon_tree: what is abandoned has nothing open below it, wherever a kill
\* stops the handler, and a job disposed at a phase ends with nothing open.
THEOREM PlansAreAbandonedBottomUp == Spec => []AbandonedBottomUp
<1>1. IInv => AbandonedBottomUp
  BY DEF IInv
<1> QED
  BY Invariant, <1>1, PTL
=============================================================================
