------------------------------- MODULE Upkeep -------------------------------
(***************************************************************************)
(* The daily upkeep of the memory: the table memories with its readers     *)
(* (skills/memory.py, skills/library.py, memory/reinforce.py), the sweep   *)
(* of the Librarian (memory/sweep.py) and the worker that runs it when its *)
(* row in schedules is due (cli/schedworker.py).  Every statement commits  *)
(* on its own: the sweep decides each phase on the rows it listed when the *)
(* phase began, and a reader on the row it fetched.  Dates are kept as     *)
(* what the code asks of them: whether an expiry has passed, whether the   *)
(* effective weight is under the threshold, whether a schedule is due.     *)
(***************************************************************************)
EXTENDS Naturals, Sequences, FiniteSetsExt, SequencesExt

CONSTANTS Ids,        \* ids of memories, in the order of their creation
          Texts,      \* contents, alike when equal once stripped and lowered
          NoText,     \* NULL
          Classes,    \* retention classes that a caller of create_memory gives
          PromoteUses, \* policies.promote_use_count
          Readers,    \* processes that run memory.get and library.read
          Workers,    \* processes, or threads of cli/web.py, that run schedules
          MaxReads,   \* bound: reinforcing reads
          MaxBreaks   \* bound: kills, and errors out of the worker's loop

ASSUME UpkeepAssumption ==
  /\ Ids \subseteq Nat \ {0}
  /\ NoText \notin Texts
  /\ Classes \subseteq {"none", "ephemeral", "short", "long", "core"}
  /\ PromoteUses \in Nat \ {0} /\ MaxReads \in Nat /\ MaxBreaks \in Nat
  /\ IsFiniteSet(Workers)

VARIABLES mem,     \* memories, by id
          reads,   \* the reinforcements that were done (a history)
          reading, \* the row each reader has fetched and is about to reinforce
          rows,    \* schedules, by id
          at,      \* what each worker does next
          todo,    \* the due rows it listed and has not run yet
          plan,    \* what is left to do of its phase of the sweep
          breaks

upkeep == <<at, todo, plan>>
upkeepVars   == <<mem, reads, reading, rows, upkeep, breaks>>

Kinds  == <<"memory_maintenance", "library_compaction">>
Phases == <<"expire", "archive", "promote", "consolidate">>
UpkeepStations == {"down", "seed", "insert", "poll", "run", "mark"} \cup ToSet(Phases)

Nobody == [id |-> 0, revive |-> FALSE, uses |-> 0]
Nothing == <<>>

UpkeepTypeOK ==
  /\ mem \in [Ids -> [state : {"absent", "active", "archived", "dropped"},
                      class : Classes \cup {"none", "long"}, text : Texts \cup {NoText},
                      expiry : {"never", "ahead", "past"}, low : BOOLEAN,
                      faded : BOOLEAN, uses : Nat, superseded_by : Ids \cup {0}]]
  /\ reads \in [Ids -> 0 .. MaxReads]
  /\ reading \in [Readers -> [id : Ids \cup {0}, revive : BOOLEAN, uses : Nat]]
  /\ rows \in Seq([kind : ToSet(Kinds), due : BOOLEAN])
  /\ at \in [Workers -> UpkeepStations]
  /\ \A w \in Workers : /\ todo[w] \in Seq(DOMAIN Kinds \cup DOMAIN rows)
                        /\ DOMAIN plan[w] \subseteq Ids
  /\ breaks \in 0 .. MaxBreaks

Absent == [state |-> "absent", class |-> "none", text |-> NoText, expiry |-> "never",
           low |-> FALSE, faded |-> FALSE, uses |-> 0, superseded_by |-> 0]

\* A core memory has no TTL, and one without a class gets none on write.
Created(class, text, low) ==
  [Absent EXCEPT !.state = "active", !.class = class, !.text = text, !.low = low,
                 !.expiry = IF class \in {"core", "none"} THEN "never" ELSE "ahead"]

Creations == {Created(class, text, low) : class \in Classes, text \in Texts, low \in BOOLEAN}

\* The database may hold memories from before.
UpkeepInit ==
  /\ mem \in [Ids -> {Absent} \cup Creations]
  /\ \A i, j \in Ids : j < i /\ mem[i] # Absent => mem[j] # Absent
  /\ reads = [i \in Ids |-> 0]
  /\ reading = [r \in Readers |-> Nobody]
  /\ rows = <<>>
  /\ at = [w \in Workers |-> "down"]
  /\ todo = [w \in Workers |-> <<>>] /\ plan = [w \in Workers |-> Nothing]
  /\ breaks = 0

Active == {i \in Ids : mem[i].state = "active"}

---------------------------------------------------------------------------
\* The table and its readers.

Create(i, row) ==
  /\ mem[i] = Absent /\ \A j \in Ids : j < i => mem[j] # Absent
  /\ mem' = [mem EXCEPT ![i] = row]
  /\ UNCHANGED <<reads, reading, rows, upkeep, breaks>>

\* memory.get, or library.read, which revives.
Fetch(r, i, revive) ==
  /\ reading[r] = Nobody
  /\ mem[i].state # "absent"
  /\ MapThenSumSet(LAMBDA j : reads[j], Ids)
       + Cardinality({q \in Readers : reading[q] # Nobody}) < MaxReads
  /\ reading' = [reading EXCEPT ![r] = [id |-> i, revive |-> revive, uses |-> mem[i].uses]]
  /\ UNCHANGED <<mem, reads, rows, upkeep, breaks>>

\* The expiry slides on from the one fetched, or from now, whichever is later.
Reinforced(row, revive, uses) ==
  [row EXCEPT !.uses = uses,
              !.faded = FALSE,
              !.expiry = IF row.class = "core" THEN "never" ELSE "ahead",
              !.state = IF revive /\ @ = "archived" THEN "active" ELSE @]

\* The count is computed from the row that was fetched.
ReinforceStaleCount(r) ==
  LET i == reading[r].id IN
  /\ i # 0
  /\ mem' = [mem EXCEPT ![i] = Reinforced(@, reading[r].revive, reading[r].uses + 1)]
  /\ reads' = [reads EXCEPT ![i] = @ + 1]
  /\ reading' = [reading EXCEPT ![r] = Nobody]
  /\ UNCHANGED <<rows, upkeep, breaks>>

Reinforce(r) ==
  LET i == reading[r].id IN
  /\ i # 0
  /\ mem' = [mem EXCEPT ![i] = Reinforced(@, reading[r].revive, @.uses + 1)]
  /\ reads' = [reads EXCEPT ![i] = @ + 1]
  /\ reading' = [reading EXCEPT ![r] = Nobody]
  /\ UNCHANGED <<rows, upkeep, breaks>>

\* The process of a reader is killed, or the statement finds the database locked.
Abandon(r) ==
  /\ reading[r] # Nobody /\ breaks < MaxBreaks
  /\ reading' = [reading EXCEPT ![r] = Nobody]
  /\ breaks' = breaks + 1
  /\ UNCHANGED <<mem, reads, rows, upkeep>>

\* Time passes over an expiry, or until a weight has decayed: the sweep asks for
\* that of long memories alone.
Lapse(i) ==
  /\ mem[i].expiry = "ahead"
  /\ mem' = [mem EXCEPT ![i].expiry = "past"]
  /\ UNCHANGED <<reads, reading, rows, upkeep, breaks>>

Fade(i) ==
  /\ mem[i].class = "long" /\ ~mem[i].faded
  /\ mem' = [mem EXCEPT ![i].faded = TRUE]
  /\ UNCHANGED <<reads, reading, rows, upkeep, breaks>>

---------------------------------------------------------------------------
\* The sweep: what each phase means to do with the rows it has listed.

Doomed(i) == mem[i].low /\ mem[i].uses = 0

Deed(do, to) == [do |-> do, to |-> to]

\* Only the classes that have a TTL on write are looked at.
ExpirePlanTyped ==
  [i \in {j \in Active : mem[j].class \notin {"core", "none"} /\ mem[j].expiry = "past"} |->
     Deed(IF Doomed(i) THEN "drop" ELSE "archive", 0)]

ExpirePlan ==
  [i \in {j \in Active : mem[j].class # "core" /\ mem[j].expiry = "past"} |->
     Deed(IF Doomed(i) THEN "drop" ELSE "archive", 0)]

ArchivePlan ==
  [i \in {j \in Active : mem[j].class = "long" /\ mem[j].faded} |-> Deed("archive", 0)]

PromotePlan ==
  [i \in {j \in Active : mem[j].class = "short" /\ mem[j].uses >= PromoteUses} |->
     Deed("promote", 0)]

\* The keeper is looked for among the rows of every state.
AlikeAnyState(i) == {j \in Ids : mem[j].class # "core" /\ mem[j].text = mem[i].text}

\* The active rows with the text of row i that may stand for it.
Alike(i) == {j \in Active : mem[j].class # "core" /\ mem[j].text = mem[i].text}

ConsolidatePlan ==
  [i \in {j \in Active : /\ mem[j].class # "core" /\ mem[j].text # NoText
                         /\ j # Min(Alike(j))} |-> Deed("chain", Min(Alike(i)))]

PlanOf(phase) == CASE phase = "expire"      -> ExpirePlan
                   [] phase = "archive"     -> ArchivePlan
                   [] phase = "promote"     -> PromotePlan
                   [] phase = "consolidate" -> ConsolidatePlan

\* One UPDATE on the row as it is now.
Done(row, deed) ==
  CASE deed.do = "drop"    -> [row EXCEPT !.state = "dropped", !.text = NoText]
    [] deed.do = "archive" -> [row EXCEPT !.state = "archived"]
    [] deed.do = "promote" -> [row EXCEPT !.class = "long"]
    [] deed.do = "chain"   -> [row EXCEPT !.superseded_by = deed.to]

\* A superseded row is archived by a second statement.
Left(p, i) == IF p[i].do = "chain" THEN [p EXCEPT ![i] = Deed("archive", 0)]
              ELSE [j \in DOMAIN p \ {i} |-> p[j]]

\* A worker in a phase of the sweep takes the rows in the order of their ids,
\* and lists the rows of the next phase when it is through.
Sweep(w) ==
  /\ at[w] \in ToSet(Phases)
  /\ LET i == Min(DOMAIN plan[w]) IN
     IF plan[w] # Nothing
     THEN /\ mem' = [mem EXCEPT ![i] = Done(@, plan[w][i])]
          /\ plan' = [plan EXCEPT ![w] = Left(@, i)]
          /\ UNCHANGED at
     ELSE LET k == CHOOSE n \in DOMAIN Phases : Phases[n] = at[w]
              last == k = Len(Phases) IN
          /\ at' = [at EXCEPT ![w] = IF last THEN "mark" ELSE Phases[k + 1]]
          /\ plan' = [plan EXCEPT ![w] = IF last THEN Nothing ELSE PlanOf(Phases[k + 1])]
          /\ UNCHANGED mem
  /\ UNCHANGED <<reads, reading, rows, todo, breaks>>

---------------------------------------------------------------------------
\* The worker: serve_schedules.

Missing(kinds) == {k \in DOMAIN kinds : \A i \in DOMAIN rows : rows[i].kind # kinds[k]}

Start(w) ==
  /\ at[w] = "down"
  /\ at' = [at EXCEPT ![w] = "seed"]
  /\ UNCHANGED <<mem, reads, reading, rows, todo, plan, breaks>>

\* ensure_default_schedules looks for a row of each kind, then creates it, due.
Seed(w) ==
  /\ at[w] = "seed"
  /\ at' = [at EXCEPT ![w] = IF Missing(Kinds) = {} THEN "poll" ELSE "insert"]
  /\ todo' = [todo EXCEPT ![w] = IF Missing(Kinds) = {} THEN <<>> ELSE <<Min(Missing(Kinds))>>]
  /\ UNCHANGED <<mem, reads, reading, rows, plan, breaks>>

Insert(w) ==
  /\ at[w] = "insert"
  /\ rows' = Append(rows, [kind |-> Kinds[Head(todo[w])], due |-> TRUE])
  /\ at' = [at EXCEPT ![w] = "seed"]
  /\ todo' = [todo EXCEPT ![w] = <<>>]
  /\ UNCHANGED <<mem, reads, reading, plan, breaks>>

Due == SelectSeq([i \in DOMAIN rows |-> i], LAMBDA i : rows[i].due)

\* run_due_schedules lists what is due; nothing marks it as taken.
Poll(w) ==
  /\ at[w] = "poll" /\ Due # <<>>
  /\ todo' = [todo EXCEPT ![w] = Due]
  /\ at' = [at EXCEPT ![w] = "run"]
  /\ UNCHANGED <<mem, reads, reading, rows, plan, breaks>>

\* After an exception of the compaction its row is passed over.
RunContinue(w) ==
  /\ at[w] = "run"
  /\ \/ /\ rows[Head(todo[w])].kind = "memory_maintenance"
        /\ at' = [at EXCEPT ![w] = "expire"]
        /\ plan' = [plan EXCEPT ![w] = ExpirePlan]
        /\ UNCHANGED todo
     \/ /\ rows[Head(todo[w])].kind = "library_compaction"
        /\ at' = [at EXCEPT ![w] = IF Len(todo[w]) = 1 THEN "poll" ELSE "run"]
        /\ todo' = [todo EXCEPT ![w] = Tail(@)]
        /\ UNCHANGED plan
  /\ UNCHANGED <<mem, reads, reading, rows, breaks>>

\* The handler of the row: the sweep lists its first phase; the compaction of
\* the library returns, or fails however often it is tried.
Run(w) ==
  /\ at[w] = "run"
  /\ \/ /\ rows[Head(todo[w])].kind = "memory_maintenance"
        /\ at' = [at EXCEPT ![w] = "expire"]
        /\ plan' = [plan EXCEPT ![w] = ExpirePlan]
     \/ /\ rows[Head(todo[w])].kind = "library_compaction"
        /\ at' = [at EXCEPT ![w] = "mark"]
        /\ UNCHANGED plan
  /\ UNCHANGED <<mem, reads, reading, rows, todo, breaks>>

\* An exception in the sweep ends the handler, and is logged.
Fail(w) ==
  /\ at[w] \in ToSet(Phases) /\ breaks < MaxBreaks
  /\ at' = [at EXCEPT ![w] = "mark"]
  /\ plan' = [plan EXCEPT ![w] = Nothing]
  /\ breaks' = breaks + 1
  /\ UNCHANGED <<mem, reads, reading, rows, todo>>

\* mark_run, whatever came of the handler.
Mark(w) ==
  /\ at[w] = "mark"
  /\ rows' = [rows EXCEPT ![Head(todo[w])].due = FALSE]
  /\ todo' = [todo EXCEPT ![w] = Tail(@)]
  /\ at' = [at EXCEPT ![w] = IF Len(todo[w]) = 1 THEN "poll" ELSE "run"]
  /\ UNCHANGED <<mem, reads, reading, plan, breaks>>

\* A kill, or an error outside the handler, which ends the thread.
WorkerDies(w) ==
  /\ at[w] # "down" /\ breaks < MaxBreaks
  /\ at' = [at EXCEPT ![w] = "down"]
  /\ todo' = [todo EXCEPT ![w] = <<>>]
  /\ plan' = [plan EXCEPT ![w] = Nothing]
  /\ breaks' = breaks + 1
  /\ UNCHANGED <<mem, reads, reading, rows>>

\* A day, the interval of both rows, has passed since the row was run.
FallDue(i) ==
  /\ i \in DOMAIN rows /\ ~rows[i].due
  /\ rows' = [rows EXCEPT ![i].due = TRUE]
  /\ UNCHANGED <<mem, reads, reading, upkeep, breaks>>

Work(w) == Start(w) \/ Seed(w) \/ Insert(w) \/ Poll(w) \/ Run(w) \/ Sweep(w) \/ Mark(w)

UpkeepNext ==
  \/ \E i \in Ids, row \in Creations : Create(i, row)
  \/ \E r \in Readers, i \in Ids, revive \in BOOLEAN : Fetch(r, i, revive)
  \/ \E r \in Readers : Reinforce(r) \/ Abandon(r)
  \/ \E i \in Ids : Lapse(i) \/ Fade(i)
  \/ \E w \in Workers : Work(w) \/ Fail(w) \/ WorkerDies(w)
  \/ \E i \in DOMAIN rows : FallDue(i)

\* The worker keeps going, is started again after a kill, and days pass.
Fairness == /\ \A w \in Workers : WF_upkeepVars(Work(w))
            /\ \A n \in DOMAIN Kinds : WF_upkeepVars(FallDue(n))

UpkeepSpec == UpkeepInit /\ [][UpkeepNext]_upkeepVars /\ Fairness
---------------------------------------------------------------------------
\* No read goes uncounted, though two processes fetch the same row before
\* either writes it: the count decides on promotion, and on drop or archive.
UseCountExact == \A i \in Ids : mem[i].uses = reads[i]

\* ensure_default_schedules: "at most one row per kind".  Two workers that look
\* for it together each insert one.
OneRowPerKind == \A i, j \in DOMAIN rows : rows[i].kind = rows[j].kind => i = j

\* What its look before the INSERT does give: however many workers look together,
\* and however often they are killed and started again, a standing schedule gets
\* no more rows than there are workers, so that rows do not pile up over restarts.
RowsOf(kind) == {i \in DOMAIN rows : rows[i].kind = kind}

OneRowPerWorker ==
  \A kind \in ToSet(Kinds) : Cardinality(RowsOf(kind)) <= Cardinality(Workers)

\* A dropped memory stays a tombstone: neither a reader that fetched it before
\* nor library.read, nor a later phase of the sweep, brings it back.
TombstonesStay ==
  [][\A i \in Ids : mem[i].state = "dropped" =>
       mem'[i].state = "dropped" /\ mem'[i].text = NoText]_upkeepVars

\* Collapsing duplicates takes no content out of recall, also when the sweep
\* is killed between the two statements on a row and redone.
Recalled(t) == \E i \in Active : mem[i].text = t

RecallKeepsText ==
  [][\A w \in Workers : at[w] = "consolidate" =>
       \A t \in Texts : Recalled(t) => Recalled(t)']_upkeepVars

\* What has outlived its expiry leaves recall, unless it is read again first,
\* although a sweep may fail and the worker be killed: a later day redoes it.
LapsedLeavesRecall ==
  \A i \in Ids : (i \in Active /\ mem[i].expiry = "past")
                   ~> ~(i \in Active /\ mem[i].expiry = "past")

\* A due schedule gets run and is set to its next day, although its handler,
\* or that of another row, fails every time.
DueIsRun == \A n \in 1 .. Len(Kinds) :
              (n \in DOMAIN rows /\ rows[n].due) ~> ~(n \in DOMAIN rows /\ rows[n].due)

\* The worker "claims each due row" (cli/schedworker.py): no two workers are
\* in the sweep together.
ClaimedByOne == \A v, w \in Workers :
                  at[v] \in ToSet(Phases) /\ at[w] \in ToSet(Phases) => v = w
=============================================================================
