--------------------------- MODULE Library_proofs ---------------------------
(********************************************************************************)
(* Proofs about the folder library and the daily upkeep of the memory (Upkeep). *)
(* The library, for any processes, requests and files: what is listed can be    *)
(* read, whoever compacts and drops; and a compaction loses nothing as long as  *)
(* one process alone compacts and revives.  The upkeep, for any memories and    *)
(* readers: every read counts; for any number of workers, a standing schedule   *)
(* has no more rows than there are of them; and with one worker, consolidation  *)
(* keeps what can be recalled, and tombstones stay.                             *)
(********************************************************************************)
EXTENDS Library, Upkeep, FiniteSetTheorems, TLAPS

\* What the record of an operation can be, as TypeOK says.
Operations == [at : Stations, code : Codes \cup {"none"}, rows : SUBSET Codes,
               targets : SUBSET Artifacts, zipped : SUBSET Artifacts, alone : BOOLEAN,
               index : SUBSET Codes, dropped : SUBSET Codes]

Zips == {NoZip, Torn} \cup {Whole(f) : f \in SUBSET Artifacts}

\* A process in the middle of an operation knows the request it is about, but
\* for a compaction between two rows.
CodeKnown == \A p \in Procs : op[p].at \notin {"idle", "row"} => op[p].code \in Codes

TypeInv == TypeOK /\ CodeKnown

\* The request has its card, its folder the files of the report.
Ready(c) == c \in cards /\ Keep \subseteq folder[c]

\* The order of a commit: the files, the card, the mirror, the index.
InOrder ==
  \A p \in Procs :
    /\ op[p].at = "json" => "report" \in folder[op[p].code]
    /\ op[p].at = "card" => Keep \subseteq folder[op[p].code]
    /\ op[p].at \in {"mirror", "load", "replace"} => Ready(op[p].code)

\* The indexes a process has loaded, and may write back long after, list only
\* what was ready then; ListedIsReadable is not inductive without it.
LoadedIsReady == \A p \in Procs : \A c \in op[p].index \cup op[p].dropped : Ready(c)

IInv == TypeInv /\ InOrder /\ LoadedIsReady /\ ListedIsReadable

-----------------------------------------------------------------------------
LEMMA IdleType == Idle \in Operations
BY DEF Idle, Operations, Stations

LEMMA FilesType == Keep \cap Artifacts = {} /\ Keep \subseteq Files /\ Artifacts \subseteq Files
BY LibraryAssumption DEF Keep, Files

\* TypeOK, with the values of the variables named.
LEMMA TypeOf ==
  TypeOK <=> /\ folder \in [Codes -> SUBSET Files] /\ made \in [Codes -> SUBSET Artifacts]
             /\ zip \in [Codes -> Zips]
             /\ cards \subseteq Codes /\ index \subseteq Codes /\ dropped \subseteq Codes
             /\ mirror \in [Codes -> SUBSET Ages]
             /\ op \in [Procs -> Operations]
             /\ ops \in 0 .. MaxOps /\ kills \in 0 .. MaxKills
BY DEF TypeOK, Zips, Operations

LEMMA LibraryInit == Init => IInv
<1> SUFFICES ASSUME Init PROVE IInv
  OBVIOUS
<1>1. op \in [Procs -> Operations] /\ \A p \in Procs : op[p] = Idle
  BY IdleType DEF Init
<1>2. TypeInv
  <2>1. folder \in [Codes -> SUBSET Files] /\ made \in [Codes -> SUBSET Artifacts]
    BY FilesType DEF Init
  <2>2. zip \in [Codes -> Zips] /\ mirror \in [Codes -> SUBSET Ages]
        /\ cards \subseteq Codes /\ index \subseteq Codes /\ dropped \subseteq Codes
    BY DEF Init, Zips
  <2>3. ops \in 0 .. MaxOps /\ kills \in 0 .. MaxKills
    BY LibraryAssumption DEF Init
  <2> QED
    BY <1>1, <2>1, <2>2, <2>3, TypeOf DEF TypeInv, CodeKnown, Idle
<1>3. InOrder /\ LoadedIsReady
  BY <1>1 DEF InOrder, LoadedIsReady, Idle
<1>4. ListedIsReadable
  BY DEF Init, ListedIsReadable
<1> QED
  BY <1>2, <1>3, <1>4 DEF IInv

-----------------------------------------------------------------------------
\* What process q does, but for the archive it has open, is left as it is.
SameWork(q) ==
  /\ op'[q].at = op[q].at /\ op'[q].code = op[q].code
  /\ op'[q].index = op[q].index /\ op'[q].dropped = op[q].dropped

Only(p, o) ==
  op' \in [Procs -> Operations] /\ op'[p] = o /\ \A q \in Procs : q # p => SameWork(q)

LEMMA OnlyOne ==
  ASSUME op \in [Procs -> Operations], NEW p \in Procs, NEW o \in Operations,
         op' = [op EXCEPT ![p] = o]
  PROVE  Only(p, o)
BY DEF Only, SameWork

\* What a step of one process has to keep: the types, the order of its commit,
\* and that it lists nothing that is not ready.  The report of a request, once
\* written, is never taken away, so the others are not disturbed.
LEMMA ProcessStep ==
  ASSUME IInv, NEW p \in Procs, NEW o \in Operations, Only(p, o),
         TypeOK', o.at \notin {"idle", "row"} => o.code \in Codes,
         cards \subseteq cards', \A c \in Codes : folder[c] \cap Keep \subseteq folder'[c],
         o.at = "json" => "report" \in folder'[o.code],
         o.at = "card" => Keep \subseteq folder'[o.code],
         o.at \in {"mirror", "load", "replace"} => Ready(o.code)',
         \A c \in o.index \cup o.dropped : Ready(c)',
         \A c \in Codes : mirror'[c] # {} => mirror[c] # {} \/ Ready(c)',
         \A c \in index' \cup dropped' : c \in index \cup dropped \/ Ready(c)'
  PROVE  IInv'
<1>t. /\ op \in [Procs -> Operations] /\ \A q \in Procs : op[q] \in Operations
      /\ index \subseteq Codes /\ dropped \subseteq Codes
      /\ op'[p] = o /\ \A q \in Procs : q # p => SameWork(q)
  BY TypeOf DEF IInv, TypeInv, Only
<1>1. ASSUME NEW c \in Codes, Ready(c) PROVE Ready(c)'
  BY <1>1 DEF Ready, Keep
<1>2. TypeInv'
  BY <1>t DEF IInv, TypeInv, CodeKnown, SameWork
<1>3. InOrder'
  <2>1. ASSUME NEW q \in Procs, q # p
        PROVE  /\ op[q].at = "json" => "report" \in folder'[op[q].code]
               /\ op[q].at = "card" => Keep \subseteq folder'[op[q].code]
               /\ op[q].at \in {"mirror", "load", "replace"} => Ready(op[q].code)'
    <3>1. CASE op[q].code \in Codes
      <4>1. folder[op[q].code] \cap Keep \subseteq folder'[op[q].code]
        BY <3>1
      <4>2. Ready(op[q].code) => Ready(op[q].code)'
        <5>1. PICK c \in Codes : c = op[q].code
          BY <3>1
        <5>2. c = op'[q].code
          BY <1>t, <2>1, <5>1 DEF SameWork
        <5> QED
          BY <1>1, <5>1, <5>2 DEF Ready
      <4>3. "report" \in Keep
        BY DEF Keep
      <4> QED
        BY <4>1, <4>2, <4>3 DEF IInv, InOrder
    <3>2. CASE op[q].code \notin Codes
      BY <3>2 DEF IInv, TypeInv, CodeKnown
    <3> QED
      BY <3>1, <3>2
  <2> QED
    BY <1>t, <2>1 DEF InOrder, SameWork
<1>4. LoadedIsReady'
  <2>1. ASSUME NEW q \in Procs, q # p, NEW c \in op[q].index \cup op[q].dropped PROVE Ready(c)'
    <3>1. c \in Codes /\ Ready(c)
      BY <1>t, <2>1 DEF Operations, IInv, LoadedIsReady
    <3> QED
      BY <1>1, <3>1
  <2> QED
    BY <1>t, <2>1 DEF LoadedIsReady, SameWork
<1>5. ListedIsReadable'
  <2>1. ASSUME NEW c \in Codes, mirror[c] # {} \/ c \in index \cup dropped PROVE Ready(c)'
    BY <1>1, <2>1 DEF IInv, ListedIsReadable, Ready
  <2> QED
    BY <1>t, <2>1 DEF ListedIsReadable, Ready
<1> QED
  BY <1>2, <1>3, <1>4, <1>5 DEF IInv

\* A step outside a commit that writes no index and adds no row.
LEMMA QuietStep ==
  ASSUME IInv, NEW p \in Procs, NEW o \in Operations, Only(p, o),
         TypeOK', o.at \notin {"idle", "row"} => o.code \in Codes,
         o.at \notin {"json", "card", "mirror", "load", "replace"},
         o.index \cup o.dropped \subseteq op[p].index \cup op[p].dropped,
         UNCHANGED <<cards, index, dropped>>,
         \A c \in Codes : folder[c] \cap Keep \subseteq folder'[c],
         \A c \in Codes : mirror'[c] # {} => mirror[c] # {}
  PROVE  IInv'
<1>1. o.index \cup o.dropped \subseteq Codes
  BY DEF Operations
<1>2. ASSUME NEW c \in Codes, Ready(c) PROVE Ready(c)'
  BY <1>2 DEF Ready, Keep
<1>3. \A c \in o.index \cup o.dropped : Ready(c)'
  BY <1>1, <1>2 DEF IInv, LoadedIsReady
<1> QED
  BY <1>3, ProcessStep

LEMMA GotoOnly ==
  ASSUME op \in [Procs -> Operations], NEW p \in Procs, NEW station \in Stations,
         Goto(p, station)
  PROVE  \E o \in Operations : Only(p, o) /\ o = [op[p] EXCEPT !.at = station]
<1>1. PICK o : o = [op[p] EXCEPT !.at = station]
  OBVIOUS
<1>2. o \in Operations
  BY <1>1 DEF Operations
<1> QED
  BY <1>1, <1>2, OnlyOne DEF Goto

LEMMA OverOnly ==
  ASSUME op \in [Procs -> Operations], NEW p \in Procs, Over(p)
  PROVE  Only(p, Idle)
BY IdleType, OnlyOne DEF Over

\* What an operation that is over has in hand.
LEMMA IdleHand ==
  /\ Idle \in Operations /\ Idle.at = "idle" /\ Idle.index \cup Idle.dropped = {}
BY IdleType DEF Idle

\* A step that only ends its operation.
LEMMA OverStep ==
  ASSUME IInv, NEW p \in Procs, Over(p), UNCHANGED <<disk, lists, made, ops>>,
         kills' \in 0 .. MaxKills
  PROVE  IInv'
<1>t. op \in [Procs -> Operations]
  BY TypeOf DEF IInv, TypeInv
<1>1. Only(p, Idle)
  BY <1>t, OverOnly
<1>2. TypeOK'
  BY <1>1, TypeOf DEF IInv, TypeInv, TypeOK, Zips, Operations, Only, disk, lists
<1> QED
  BY <1>1, <1>2, IdleHand, QuietStep DEF disk, lists

\* A step that only changes what its operation has in hand.
LEMMA HandStep ==
  ASSUME IInv, NEW p \in Procs, NEW o \in Operations, Only(p, o),
         o.at \notin {"idle", "row"} => o.code \in Codes,
         o.at \notin {"json", "card", "mirror", "load", "replace"},
         o.index \cup o.dropped \subseteq op[p].index \cup op[p].dropped,
         UNCHANGED <<disk, lists, made, kills>>, ops' \in 0 .. MaxOps
  PROVE  IInv'
<1>1. TypeOK'
  BY TypeOf DEF IInv, TypeInv, TypeOK, Zips, Operations, Only, disk, lists
<1> QED
  BY <1>1, QuietStep DEF disk, lists

-----------------------------------------------------------------------------
LEMMA LibraryStep == IInv /\ [Next]_vars => IInv'
<1> SUFFICES ASSUME IInv, [Next]_vars PROVE IInv'
  OBVIOUS
<1>t. /\ folder \in [Codes -> SUBSET Files] /\ made \in [Codes -> SUBSET Artifacts]
      /\ zip \in [Codes -> Zips]
      /\ cards \subseteq Codes /\ index \subseteq Codes /\ dropped \subseteq Codes
      /\ mirror \in [Codes -> SUBSET Ages]
      /\ op \in [Procs -> Operations] /\ \A p \in Procs : op[p] \in Operations
      /\ ops \in 0 .. MaxOps /\ kills \in 0 .. MaxKills
  BY TypeOf DEF IInv, TypeInv
<1>c. \A p \in Procs : op[p].at \notin {"idle", "row"} => op[p].code \in Codes
  BY DEF IInv, TypeInv, CodeKnown
<1>f. Keep \cap Artifacts = {} /\ Keep \subseteq Files /\ Artifacts \subseteq Files
      /\ "report" \in Keep /\ "json" \in Keep
  BY FilesType DEF Keep
<1>1. ASSUME NEW p \in Procs, NEW c \in Codes, Commit(p, c) PROVE IInv'
  <2>1. PICK o \in Operations : Only(p, o) /\ o = [op[p] EXCEPT !.at = "json", !.code = c]
    <3>1. PICK o : o = [op[p] EXCEPT !.at = "json", !.code = c]
      OBVIOUS
    <3>2. o \in Operations
      BY <3>1, <1>t DEF Operations, Stations
    <3>3. op' = [op EXCEPT ![p] = o]
      BY <1>1, <3>1 DEF Commit, StartsOn
    <3> QED
      BY <1>t, <3>1, <3>2, <3>3, OnlyOne
  <2>2. o.at = "json" /\ o.code = c /\ o.index = op[p].index /\ o.dropped = op[p].dropped
    BY <1>t, <2>1 DEF Operations
  <2>3. folder' = [folder EXCEPT ![c] = folder[c] \cup {"report"}]
        /\ UNCHANGED <<zip, cards, mirror, index, dropped, made, kills>>
        /\ ops' = ops + 1 /\ ops < MaxOps
    BY <1>1 DEF Commit, Starts, lists
  <2>4. TypeOK'
    BY <1>t, <1>f, <2>1, <2>3, LibraryAssumption DEF TypeOK, Zips, Operations, Only
  <2>5. \A d \in Codes : folder[d] \subseteq folder'[d]
    BY <1>t, <2>3
  <2>6. "report" \in folder'[c]
    BY <1>t, <2>3
  <2>7. \A d \in o.index \cup o.dropped : Ready(d)'
    BY <1>t, <2>2, <2>3, <2>5 DEF IInv, LoadedIsReady, Ready, Operations
  <2> QED
    BY <2>1, <2>2, <2>3, <2>4, <2>5, <2>6, <2>7, ProcessStep
<1>2. ASSUME NEW p \in Procs, CommitJson(p) PROVE IInv'
  <2>1. PICK o \in Operations : Only(p, o) /\ o = [op[p] EXCEPT !.at = "card"]
    BY <1>2, <1>t, GotoOnly DEF CommitJson, Stations
  <2>2. PICK c \in Codes : c = op[p].code /\ "report" \in folder[c]
    BY <1>2, <1>c DEF CommitJson, At, IInv, InOrder
  <2>3. o.at = "card" /\ o.code = c /\ o.index = op[p].index /\ o.dropped = op[p].dropped
    BY <1>t, <2>1, <2>2 DEF Operations
  <2>4. folder' = [folder EXCEPT ![c] = folder[c] \cup {"json"}]
        /\ UNCHANGED <<zip, cards, mirror, index, dropped, made, ops, kills>>
    BY <1>2, <2>2 DEF CommitJson, Code, lists, bounds
  <2>5. TypeOK'
    BY <1>t, <1>f, <2>1, <2>4 DEF TypeOK, Zips, Operations, Only
  <2>6. \A d \in Codes : folder[d] \subseteq folder'[d]
    BY <1>t, <2>4
  <2>7. Keep \subseteq folder'[c]
    BY <1>t, <2>2, <2>4 DEF Keep
  <2>8. \A d \in o.index \cup o.dropped : Ready(d)'
    BY <1>t, <2>3, <2>4, <2>6 DEF IInv, LoadedIsReady, Ready, Operations
  <2> QED
    BY <2>1, <2>3, <2>4, <2>5, <2>6, <2>7, <2>8, ProcessStep
<1>3. ASSUME NEW p \in Procs, CommitCard(p) PROVE IInv'
  <2>1. PICK o \in Operations : Only(p, o) /\ o = [op[p] EXCEPT !.at = "mirror"]
    BY <1>3, <1>t, GotoOnly DEF CommitCard, Stations
  <2>2. PICK c \in Codes : c = op[p].code /\ Keep \subseteq folder[c]
    BY <1>3, <1>c DEF CommitCard, At, IInv, InOrder
  <2>3. o.at = "mirror" /\ o.code = c /\ o.index = op[p].index /\ o.dropped = op[p].dropped
    BY <1>t, <2>1, <2>2 DEF Operations
  <2>4. cards' = cards \cup {c}
        /\ UNCHANGED <<folder, zip, mirror, index, dropped, made, ops, kills>>
    BY <1>3, <2>2 DEF CommitCard, Code, disk, bounds
  <2>5. TypeOK'
    BY <1>t, <2>1, <2>4 DEF TypeOK, Zips, Operations, Only
  <2>6. Ready(c)'
    BY <2>2, <2>4 DEF Ready
  <2>7. \A d \in o.index \cup o.dropped : Ready(d)'
    BY <1>t, <2>3, <2>4 DEF IInv, LoadedIsReady, Ready, Operations
  <2> QED
    BY <2>1, <2>3, <2>4, <2>5, <2>6, <2>7, ProcessStep
<1>4. ASSUME NEW p \in Procs, CommitMirror(p) PROVE IInv'
  <2>1. PICK o \in Operations : Only(p, o) /\ o = [op[p] EXCEPT !.at = "load"]
    BY <1>4, <1>t, GotoOnly DEF CommitMirror, Stations
  <2>2. PICK c \in Codes : c = op[p].code /\ Ready(c)
    BY <1>4, <1>c DEF CommitMirror, At, IInv, InOrder
  <2>3. o.at = "load" /\ o.code = c /\ o.index = op[p].index /\ o.dropped = op[p].dropped
    BY <1>t, <2>1, <2>2 DEF Operations
  <2>4. mirror' = [mirror EXCEPT ![c] = mirror[c] \cup {"recent"}]
        /\ UNCHANGED <<folder, zip, cards, index, dropped, made, ops, kills>>
    BY <1>4, <2>2 DEF CommitMirror, Code, disk, bounds
  <2>5. TypeOK'
    BY <1>t, <2>1, <2>4 DEF TypeOK, Zips, Operations, Only, Ages
  <2>6. Ready(c)'
    BY <2>2, <2>4 DEF Ready
  <2>7. \A d \in o.index \cup o.dropped : Ready(d)'
    BY <1>t, <2>3, <2>4 DEF IInv, LoadedIsReady, Ready, Operations
  <2>8. \A d \in Codes : mirror'[d] # {} => mirror[d] # {} \/ Ready(d)'
    BY <1>t, <2>4, <2>6
  <2> QED
    BY <2>1, <2>3, <2>4, <2>5, <2>6, <2>7, <2>8, ProcessStep
<1>5. ASSUME NEW p \in Procs, LoadIndex(p) PROVE IInv'
  <2>1. PICK o \in Operations : Only(p, o) /\ o = [op[p] EXCEPT !.at = "replace", !.index = index]
    <3>1. PICK o : o = [op[p] EXCEPT !.at = "replace", !.index = index]
      OBVIOUS
    <3>2. o \in Operations
      BY <3>1, <1>t DEF Operations, Stations
    <3>3. op' = [op EXCEPT ![p] = o]
      BY <1>5, <3>1 DEF LoadIndex
    <3> QED
      BY <1>t, <3>1, <3>2, <3>3, OnlyOne
  <2>2. PICK c \in Codes : c = op[p].code /\ Ready(c)
    BY <1>5, <1>c DEF LoadIndex, At, IInv, InOrder
  <2>3. o.at = "replace" /\ o.code = c /\ o.index = index /\ o.dropped = op[p].dropped
    BY <1>t, <2>1, <2>2 DEF Operations
  <2>4. UNCHANGED <<folder, zip, cards, mirror, index, dropped, made, ops, kills>>
    BY <1>5 DEF LoadIndex, disk, lists, bounds
  <2>5. TypeOK'
    BY <1>t, <2>1, <2>4 DEF TypeOK, Zips, Operations, Only
  <2>6. Ready(c)'
    BY <2>2, <2>4 DEF Ready
  <2>7. \A d \in o.index \cup o.dropped : Ready(d)'
    BY <1>t, <2>3, <2>4 DEF IInv, LoadedIsReady, ListedIsReadable, Ready, Operations
  <2> QED
    BY <2>1, <2>3, <2>4, <2>5, <2>6, <2>7, ProcessStep
<1>6. ASSUME NEW p \in Procs, ReplaceIndex(p) PROVE IInv'
  <2>1. PICK c \in Codes : c = op[p].code /\ Ready(c)
    BY <1>6, <1>c DEF ReplaceIndex, At, IInv, InOrder
  <2>2. index' = op[p].index \cup {c}
        /\ UNCHANGED <<folder, zip, cards, mirror, dropped, made, ops, kills>>
    BY <1>6, <2>1 DEF ReplaceIndex, Code, disk, bounds
  <2>3. Only(p, Idle)
    BY <1>6, <1>t, OverOnly DEF ReplaceIndex
  <2>4. TypeOK'
    BY <1>t, <2>1, <2>2, <2>3 DEF TypeOK, Zips, Operations, Only
  <2>5. \A d \in index' : Ready(d)'
    BY <1>t, <2>1, <2>2 DEF IInv, LoadedIsReady, Ready, Operations
  <2> QED
    BY <2>2, <2>3, <2>4, <2>5, IdleHand, ProcessStep
<1>7. ASSUME NEW p \in Procs, NEW c \in Codes, Drop(p, c) PROVE IInv'
  <2>1. PICK o \in Operations :
          Only(p, o) /\ o = [op[p] EXCEPT !.at = "pop", !.code = c,
                                          !.index = index \ {c}, !.dropped = dropped \cup {c}]
    <3>1. PICK o : o = [op[p] EXCEPT !.at = "pop", !.code = c,
                                     !.index = index \ {c}, !.dropped = dropped \cup {c}]
      OBVIOUS
    <3>2. o \in Operations
      BY <3>1, <1>t DEF Operations, Stations
    <3>3. op' = [op EXCEPT ![p] = o]
      BY <1>7, <3>1 DEF Drop
    <3> QED
      BY <1>t, <3>1, <3>2, <3>3, OnlyOne
  <2>2. o.at = "pop" /\ o.code = c /\ o.index = index \ {c} /\ o.dropped = dropped \cup {c}
    BY <1>t, <2>1 DEF Operations
  <2>3. c \in index /\ UNCHANGED <<folder, zip, cards, mirror, index, dropped, made, kills>>
        /\ ops' = ops + 1 /\ ops < MaxOps
    BY <1>7 DEF Drop, Starts, disk, lists
  <2>4. TypeOK'
    BY <1>t, <2>1, <2>3, LibraryAssumption DEF TypeOK, Zips, Operations, Only
  <2>5. \A d \in o.index \cup o.dropped : Ready(d)'
    BY <1>t, <2>2, <2>3 DEF IInv, ListedIsReadable, Ready
  <2> QED
    BY <2>1, <2>2, <2>3, <2>4, <2>5, ProcessStep
<1>8. ASSUME NEW p \in Procs, Pop(p) PROVE IInv'
  <2>1. PICK o \in Operations : Only(p, o) /\ o = [op[p] EXCEPT !.at = "drop"]
    BY <1>8, <1>t, GotoOnly DEF Pop, Stations
  <2>2. o.at = "drop" /\ o.code \in Codes /\ o.index = op[p].index /\ o.dropped = op[p].dropped
    BY <1>8, <1>t, <1>c, <2>1 DEF Operations, Pop, At
  <2>3. index' = op[p].index
        /\ UNCHANGED <<folder, zip, cards, mirror, dropped, made, ops, kills>>
    BY <1>8 DEF Pop, disk, bounds
  <2>4. TypeOK'
    BY <1>t, <2>1, <2>3 DEF TypeOK, Zips, Operations, Only
  <2>5. \A d \in o.index \cup o.dropped : Ready(d)'
    BY <1>t, <2>2, <2>3 DEF IInv, LoadedIsReady, Ready, Operations
  <2> QED
    BY <2>1, <2>2, <2>3, <2>4, <2>5, ProcessStep
<1>9. ASSUME NEW p \in Procs, PutDropped(p) PROVE IInv'
  <2>1. PICK c \in Codes : c = op[p].code
    BY <1>9, <1>c DEF PutDropped, At
  <2>2. dropped' = op[p].dropped /\ mirror' = [mirror EXCEPT ![c] = {}]
        /\ UNCHANGED <<folder, zip, cards, index, made, ops, kills>>
    BY <1>9, <2>1 DEF PutDropped, Code, disk, bounds
  <2>3. Only(p, Idle)
    BY <1>9, <1>t, OverOnly DEF PutDropped
  <2>4. TypeOK'
    BY <1>t, <2>2, <2>3 DEF TypeOK, Zips, Operations, Only
  <2>5. \A d \in dropped' : Ready(d)'
    BY <1>t, <2>2 DEF IInv, LoadedIsReady, Ready, Operations
  <2>6. \A d \in Codes : mirror'[d] # {} => mirror[d] # {}
    BY <1>t, <2>2
  <2> QED
    BY <2>2, <2>3, <2>4, <2>5, <2>6, IdleHand, ProcessStep
<1>10. ASSUME NEW p \in Procs, Scan(p) PROVE IInv'
  <2>1. PICK o \in Operations : Only(p, o) /\ o = [op[p] EXCEPT !.at = "row", !.rows = {c \in Codes : "old" \in mirror[c]}]
    <3>1. PICK o : o = [op[p] EXCEPT !.at = "row", !.rows = {c \in Codes : "old" \in mirror[c]}]
      OBVIOUS
    <3>2. o \in Operations
      BY <3>1, <1>t DEF Operations, Stations
    <3>3. op' = [op EXCEPT ![p] = o]
      BY <1>10, <3>1 DEF Scan
    <3> QED
      BY <1>t, <3>1, <3>2, <3>3, OnlyOne
  <2>2. UNCHANGED <<disk, lists, made, kills>> /\ ops' = ops + 1 /\ ops < MaxOps
    BY <1>10 DEF Scan, Starts
  <2>3. ops' \in 0 .. MaxOps
    BY <1>t, <2>2, LibraryAssumption
  <2> QED
    BY <1>t, <2>1, <2>2, <2>3, HandStep DEF Operations
<1>11. ASSUME NEW p \in Procs, Row(p) PROVE IInv'
  <2>1. UNCHANGED <<disk, lists, made, ops, kills>>
    BY <1>11 DEF Row, bounds
  <2>2. CASE op[p].rows = {}
    BY <1>11, <1>t, <2>1, <2>2, OverStep DEF Row
  <2>3. CASE op[p].rows # {}
    <3>1. PICK c \in op[p].rows :
            op' = [op EXCEPT ![p].rows = @ \ {c}, ![p].code = c,
                             ![p].at = IF Cold(c) THEN "compact" ELSE "row"]
      BY <1>11, <2>3 DEF Row
    <3>2. PICK station \in {"compact", "row"} : station = IF Cold(c) THEN "compact" ELSE "row"
      OBVIOUS
    <3>3. PICK o : o = [op[p] EXCEPT !.rows = op[p].rows \ {c}, !.code = c, !.at = station]
      OBVIOUS
    <3>4. c \in Codes /\ o \in Operations
      BY <1>t, <3>2, <3>3 DEF Operations, Stations
    <3>5. Only(p, o)
      BY <1>t, <3>1, <3>2, <3>3, <3>4, OnlyOne
    <3>6. o.at \in {"compact", "row"} /\ o.code = c
          /\ o.index = op[p].index /\ o.dropped = op[p].dropped
      BY <1>t, <3>2, <3>3 DEF Operations
    <3> QED
      BY <1>t, <2>1, <3>4, <3>5, <3>6, HandStep
  <2> QED
    BY <2>2, <2>3
<1>12. ASSUME NEW p \in Procs, CompactFolder(p) PROVE IInv'
  <2>1. PICK c \in Codes : c = op[p].code
    BY <1>12, <1>c DEF CompactFolder, At
  <2>2. PICK o \in Operations :
          o = [op[p] EXCEPT !.at = "zip", !.targets = Targets(c), !.zipped = {}, !.alone = TRUE]
    <3>1. Targets(c) \subseteq Artifacts
      BY <1>t DEF Targets, Files
    <3> QED
      BY <1>t, <3>1 DEF Operations, Stations
  <2>3. op' = [q \in Procs |->
                 IF q = p THEN o
                 ELSE IF At(q, "zip") /\ Code(q) = c THEN [op[q] EXCEPT !.alone = FALSE]
                 ELSE op[q]]
    BY <1>12, <2>1, <2>2 DEF CompactFolder, Code
  <2>4. Only(p, o)
    <3>1. ASSUME NEW q \in Procs, q # p PROVE op'[q] \in Operations /\ SameWork(q)
      <4>1. op'[q] = op[q] \/ op'[q] = [op[q] EXCEPT !.alone = FALSE]
        BY <2>3, <3>1
      <4> QED
        BY <1>t, <4>1 DEF SameWork, Operations
    <3>2. op'[p] = o /\ op' = [q \in Procs |-> op'[q]]
      BY <2>3
    <3> QED
      BY <3>1, <3>2, <2>2 DEF Only
  <2>5. zip' = [zip EXCEPT ![c] = Torn]
        /\ UNCHANGED <<folder, cards, mirror, index, dropped, made, ops, kills>>
    BY <1>12, <2>1 DEF CompactFolder, Code, lists, bounds
  <2>6. TypeOK'
    <3>1. zip' \in [Codes -> Zips]
      BY <1>t, <2>5 DEF Zips
    <3> QED
      BY <1>t, <2>4, <2>5, <3>1 DEF TypeOK, Zips, Operations, Only
  <2>7. o.at = "zip" /\ o.code = c /\ o.index = op[p].index /\ o.dropped = op[p].dropped
    BY <1>t, <2>1, <2>2 DEF Operations
  <2> QED
    BY <2>4, <2>5, <2>6, <2>7, QuietStep
<1>13. ASSUME NEW p \in Procs, ZipFile(p) PROVE IInv'
  <2>1. PICK f \in op[p].targets : op' = [op EXCEPT ![p].zipped = @ \cup {f}]
    BY <1>13 DEF ZipFile
  <2>2. PICK o : o = [op[p] EXCEPT !.zipped = op[p].zipped \cup {f}]
    OBVIOUS
  <2>3. o \in Operations
    BY <1>t, <2>2 DEF Operations
  <2>4. Only(p, o)
    BY <1>t, <2>1, <2>2, <2>3, OnlyOne
  <2>5. o.at = "zip" /\ o.code \in Codes /\ o.index = op[p].index /\ o.dropped = op[p].dropped
    BY <1>13, <1>t, <1>c, <2>2 DEF Operations, ZipFile, At
  <2>6. UNCHANGED <<disk, lists, made, ops, kills>>
    BY <1>13 DEF ZipFile, bounds
  <2> QED
    BY <1>t, <2>3, <2>4, <2>5, <2>6, HandStep
<1>14. ASSUME NEW p \in Procs, CloseZip(p) PROVE IInv'
  <2>1. PICK c \in Codes : c = op[p].code
    BY <1>14, <1>c DEF CloseZip, At
  <2>2. zip' \in [Codes -> Zips]
    <3>1. Closed(p) \subseteq Zips
      BY <1>t DEF Closed, Zips, Operations
    <3> QED
      BY <1>14, <1>t, <3>1 DEF CloseZip
  <2>3. PICK o \in Operations :
          Only(p, o) /\ (o = Idle \/ o = [op[p] EXCEPT !.at = "unlink"])
    <3>1. CASE Goto(p, "unlink")
      BY <1>t, <3>1, GotoOnly DEF Stations
    <3>2. CASE Over(p)
      BY <1>t, <3>2, OverOnly, IdleType
    <3> QED
      BY <1>14, <3>1, <3>2 DEF CloseZip
  <2>4. o.at \in {"idle", "unlink"} /\ (o.at = "unlink" => o.code = c)
        /\ o.index \cup o.dropped \subseteq op[p].index \cup op[p].dropped
    BY <1>t, <2>1, <2>3, IdleHand DEF Operations
  <2>5. UNCHANGED <<folder, cards, mirror, index, dropped, made, ops, kills>>
    BY <1>14 DEF CloseZip, lists, bounds
  <2>6. TypeOK'
    BY <1>t, <2>2, <2>3, <2>5 DEF TypeOK, Zips, Operations, Only
  <2> QED
    BY <2>3, <2>4, <2>5, <2>6, QuietStep
<1>15. ASSUME NEW p \in Procs, Unlink(p) PROVE IInv'
  <2>1. PICK c \in Codes : c = op[p].code
    BY <1>15, <1>c DEF Unlink, At
  <2>2. UNCHANGED <<zip, cards, mirror, index, dropped, made, ops, kills>>
    BY <1>15 DEF Unlink, lists, bounds
  <2>3. CASE op[p].targets = {}
    <3>1. Goto(p, "row") /\ UNCHANGED folder
      BY <1>15, <2>3 DEF Unlink
    <3>2. PICK o \in Operations : Only(p, o) /\ o = [op[p] EXCEPT !.at = "row"]
      BY <1>t, <3>1, GotoOnly DEF Stations
    <3>3. o.at = "row" /\ o.index = op[p].index /\ o.dropped = op[p].dropped
      BY <1>t, <3>2 DEF Operations
    <3> QED
      BY <1>t, <2>2, <3>1, <3>2, <3>3, HandStep DEF disk, lists
  <2>4. CASE op[p].targets # {}
    <3>1. PICK f \in op[p].targets :
            IF f \in folder[c]
            THEN /\ folder' = [folder EXCEPT ![c] = @ \ {f}]
                 /\ op' = [op EXCEPT ![p].targets = @ \ {f}]
            ELSE Over(p) /\ UNCHANGED folder
      BY <1>15, <2>1, <2>4 DEF Unlink, Code
    <3>2. CASE f \in folder[c]
      <4>1. PICK o : o = [op[p] EXCEPT !.targets = op[p].targets \ {f}]
        OBVIOUS
      <4>2. o \in Operations
        BY <1>t, <4>1 DEF Operations
      <4>3. Only(p, o)
        BY <1>t, <3>1, <3>2, <4>1, <4>2, OnlyOne
      <4>4. o.at = "unlink" /\ o.code = c /\ o.index = op[p].index /\ o.dropped = op[p].dropped
        BY <1>15, <1>t, <2>1, <4>1 DEF Operations, Unlink, At
      <4>5. folder' = [folder EXCEPT ![c] = folder[c] \ {f}]
        BY <3>1, <3>2
      <4>6. TypeOK'
        BY <1>t, <2>2, <4>3, <4>5 DEF TypeOK, Zips, Operations, Only
      <4>7. f \notin Keep
        BY <1>t, <1>f DEF Operations
      <4>8. \A d \in Codes : folder[d] \cap Keep \subseteq folder'[d]
        BY <1>t, <4>5, <4>7
      <4> QED
        BY <2>2, <4>2, <4>3, <4>4, <4>6, <4>8, QuietStep
    <3>3. CASE f \notin folder[c]
      BY <1>t, <2>2, <3>1, <3>3, OverStep DEF disk, lists
    <3> QED
      BY <3>2, <3>3
  <2> QED
    BY <2>3, <2>4
<1>16. ASSUME NEW p \in Procs, NEW c \in Codes, Revive(p, c) PROVE IInv'
  <2>1. PICK o \in Operations : Only(p, o) /\ o = [op[p] EXCEPT !.at = "revive", !.code = c]
    <3>1. PICK o : o = [op[p] EXCEPT !.at = "revive", !.code = c]
      OBVIOUS
    <3>2. o \in Operations
      BY <3>1, <1>t DEF Operations, Stations
    <3>3. op' = [op EXCEPT ![p] = o]
      BY <1>16, <3>1 DEF Revive, StartsOn
    <3> QED
      BY <1>t, <3>1, <3>2, <3>3, OnlyOne
  <2>2. o.at = "revive" /\ o.code = c /\ o.index = op[p].index /\ o.dropped = op[p].dropped
    BY <1>t, <2>1 DEF Operations
  <2>3. mirror' = Touched(c) /\ ops' = ops + 1 /\ ops < MaxOps
        /\ UNCHANGED <<folder, zip, cards, index, dropped, made, kills>>
    BY <1>16 DEF Revive, Starts, disk
  <2>4. mirror' \in [Codes -> SUBSET Ages] /\ \A d \in Codes : mirror'[d] # {} => mirror[d] # {}
    BY <1>t, <2>3 DEF Touched, Ages
  <2>5. TypeOK'
    BY <1>t, <2>1, <2>3, <2>4, LibraryAssumption DEF TypeOK, Zips, Operations, Only
  <2> QED
    BY <2>1, <2>2, <2>3, <2>4, <2>5, QuietStep
<1>17. ASSUME NEW p \in Procs, ReviveFolder(p) PROVE IInv'
  <2>1. UNCHANGED <<disk, lists, made, ops, kills>>
    BY <1>17 DEF ReviveFolder, bounds
  <2>2. PICK c \in Codes : c = op[p].code
    BY <1>17, <1>c DEF ReviveFolder, At
  <2>3. CASE mirror[c] # {} /\ zip[c].state = "whole"
    <3>1. PICK o : o = [op[p] EXCEPT !.at = "extract", !.targets = zip[c].files]
      OBVIOUS
    <3>2. zip[c].files \subseteq Artifacts
      BY <1>t DEF Zips, NoZip, Torn, Whole
    <3>3. o \in Operations
      BY <1>t, <3>1, <3>2 DEF Operations, Stations
    <3>4. op' = [op EXCEPT ![p] = o]
      BY <1>17, <2>2, <2>3, <3>1 DEF ReviveFolder, Code
    <3>5. Only(p, o)
      BY <1>t, <3>3, <3>4, OnlyOne
    <3>6. o.at = "extract" /\ o.code = c /\ o.index = op[p].index /\ o.dropped = op[p].dropped
      BY <1>t, <2>2, <3>1 DEF Operations
    <3> QED
      BY <1>t, <2>1, <3>3, <3>5, <3>6, HandStep
  <2>4. CASE ~(mirror[c] # {} /\ zip[c].state = "whole")
    BY <1>17, <1>t, <2>1, <2>2, <2>4, OverStep DEF ReviveFolder, Code
  <2> QED
    BY <2>3, <2>4
<1>18. ASSUME NEW p \in Procs, Extract(p) PROVE IInv'
  <2>1. PICK c \in Codes : c = op[p].code
    BY <1>18, <1>c DEF Extract, At
  <2>2. UNCHANGED <<zip, cards, mirror, index, dropped, made, ops, kills>>
    BY <1>18 DEF Extract, lists, bounds
  <2>3. CASE op[p].targets = {}
    <3>1. Goto(p, "unzip") /\ UNCHANGED folder
      BY <1>18, <2>3 DEF Extract
    <3>2. PICK o \in Operations : Only(p, o) /\ o = [op[p] EXCEPT !.at = "unzip"]
      BY <1>t, <3>1, GotoOnly DEF Stations
    <3>3. o.at = "unzip" /\ o.code = c /\ o.index = op[p].index /\ o.dropped = op[p].dropped
      BY <1>t, <2>1, <3>2 DEF Operations
    <3> QED
      BY <1>t, <2>2, <3>1, <3>2, <3>3, HandStep DEF disk, lists
  <2>4. CASE op[p].targets # {}
    <3>1. PICK f \in op[p].targets :
            /\ folder' = [folder EXCEPT ![c] = folder[c] \cup {f}]
            /\ op' = [op EXCEPT ![p].targets = @ \ {f}]
      BY <1>18, <2>1, <2>4 DEF Extract, Code
    <3>2. PICK o : o = [op[p] EXCEPT !.targets = op[p].targets \ {f}]
      OBVIOUS
    <3>3. o \in Operations
      BY <1>t, <3>2 DEF Operations
    <3>4. Only(p, o)
      BY <1>t, <3>1, <3>2, <3>3, OnlyOne
    <3>5. o.at = "extract" /\ o.code = c /\ o.index = op[p].index /\ o.dropped = op[p].dropped
      BY <1>18, <1>t, <2>1, <3>2 DEF Operations, Extract, At
    <3>6. f \in Files
      BY <1>t, <1>f DEF Operations
    <3>7. TypeOK'
      BY <1>t, <2>2, <3>1, <3>4, <3>6 DEF TypeOK, Zips, Operations, Only
    <3>8. \A d \in Codes : folder[d] \cap Keep \subseteq folder'[d]
      BY <1>t, <3>1
    <3> QED
      BY <2>2, <3>3, <3>4, <3>5, <3>7, <3>8, QuietStep
  <2> QED
    BY <2>3, <2>4
<1>19. ASSUME NEW p \in Procs, Unzip(p) PROVE IInv'
  <2>1. PICK c \in Codes : c = op[p].code
    BY <1>19, <1>c DEF Unzip, At
  <2>2. zip' = [zip EXCEPT ![c] = NoZip]
        /\ UNCHANGED <<folder, cards, mirror, index, dropped, made, ops, kills>>
    BY <1>19, <2>1 DEF Unzip, Code, lists, bounds
  <2>3. Only(p, Idle)
    BY <1>19, <1>t, OverOnly DEF Unzip
  <2>4. zip' \in [Codes -> Zips]
    BY <1>t, <2>2 DEF Zips
  <2>5. TypeOK'
    BY <1>t, <2>2, <2>3, <2>4 DEF TypeOK, Zips, Operations, Only
  <2> QED
    BY <2>2, <2>3, <2>5, IdleHand, QuietStep
<1>20. ASSUME NEW p \in Procs, NEW c \in Codes, ReadReport(p, c) PROVE IInv'
  <2>1. PICK o \in Operations : Only(p, o) /\ o = [op[p] EXCEPT !.at = "note", !.code = c]
    <3>1. PICK o : o = [op[p] EXCEPT !.at = "note", !.code = c]
      OBVIOUS
    <3>2. o \in Operations
      BY <3>1, <1>t DEF Operations, Stations
    <3>3. op' = [op EXCEPT ![p] = o]
      BY <1>20, <3>1 DEF ReadReport, StartsOn
    <3> QED
      BY <1>t, <3>1, <3>2, <3>3, OnlyOne
  <2>2. o.at = "note" /\ o.code = c /\ o.index = op[p].index /\ o.dropped = op[p].dropped
    BY <1>t, <2>1 DEF Operations
  <2>3. UNCHANGED <<disk, lists, made, ops, kills>>
    BY <1>20 DEF ReadReport, bounds
  <2> QED
    BY <1>t, <2>1, <2>2, <2>3, HandStep
<1>21. ASSUME NEW p \in Procs, NoteAccess(p) PROVE IInv'
  <2>1. PICK c \in Codes : c = op[p].code
    BY <1>21, <1>c DEF NoteAccess, At
  <2>2. mirror' = Touched(c)
        /\ UNCHANGED <<folder, zip, cards, index, dropped, made, ops, kills>>
    BY <1>21, <2>1 DEF NoteAccess, Code, disk, bounds
  <2>3. Only(p, Idle)
    BY <1>21, <1>t, OverOnly DEF NoteAccess
  <2>4. mirror' \in [Codes -> SUBSET Ages] /\ \A d \in Codes : mirror'[d] # {} => mirror[d] # {}
    BY <1>t, <2>2 DEF Touched, Ages
  <2>5. TypeOK'
    BY <1>t, <2>2, <2>3, <2>4 DEF TypeOK, Zips, Operations, Only
  <2> QED
    BY <2>2, <2>3, <2>4, <2>5, IdleHand, QuietStep
<1>22. ASSUME NEW c \in Codes, Age(c) PROVE IInv'
  <2>1. mirror' = [mirror EXCEPT ![c] = {"old"}] /\ mirror[c] # {}
        /\ UNCHANGED <<folder, zip, cards, index, dropped, op, made, ops, kills>>
    BY <1>22 DEF Age, disk, bounds
  <2>2. TypeOK'
    BY <1>t, <2>1 DEF TypeOK, Zips, Operations, Ages
  <2>3. ListedIsReadable'
    BY <1>t, <2>1 DEF IInv, ListedIsReadable
  <2> QED
    BY <2>1, <2>2, <2>3 DEF IInv, TypeInv, CodeKnown, InOrder, LoadedIsReady, Ready
<1>23. ASSUME NEW c \in Codes, NEW f \in Artifacts, Produce(c, f) PROVE IInv'
  <2>1. folder' = [folder EXCEPT ![c] = folder[c] \cup {f}]
        /\ made' = [made EXCEPT ![c] = made[c] \cup {f}]
        /\ ops' = ops + 1 /\ ops < MaxOps
        /\ UNCHANGED <<zip, cards, mirror, index, dropped, op, kills>>
    BY <1>23 DEF Produce, lists
  <2>2. TypeOK'
    BY <1>t, <1>f, <2>1, LibraryAssumption DEF TypeOK, Zips, Operations
  <2>3. \A d \in Codes : folder[d] \subseteq folder'[d]
    BY <1>t, <2>1
  <2>4. CodeKnown' /\ \A d \in Codes : Ready(d) => Ready(d)'
    BY <2>1, <2>3 DEF IInv, TypeInv, CodeKnown, Ready
  <2>5. InOrder'
    BY <1>c, <2>1, <2>3 DEF IInv, InOrder, Ready
  <2>6. LoadedIsReady' /\ ListedIsReadable'
    BY <1>t, <2>1, <2>3 DEF IInv, LoadedIsReady, ListedIsReadable, Ready, Operations
  <2> QED
    BY <2>2, <2>4, <2>5, <2>6 DEF IInv, TypeInv
<1>24. ASSUME NEW p \in Procs, Die(p) PROVE IInv'
  <2>1. Over(p) /\ UNCHANGED <<disk, lists, made, ops>> /\ kills' = kills + 1 /\ kills < MaxKills
    BY <1>24 DEF Die
  <2>2. kills' \in 0 .. MaxKills
    BY <1>t, <2>1, LibraryAssumption
  <2> QED
    BY <2>1, <2>2, OverStep
<1>25. CASE UNCHANGED vars
  BY <1>25 DEF vars, IInv, TypeInv, TypeOK, CodeKnown, InOrder, LoadedIsReady, ListedIsReadable,
     Ready
<1> QED
  BY <1>1, <1>2, <1>3, <1>4, <1>5, <1>6, <1>7, <1>8, <1>9, <1>10, <1>11, <1>12, <1>13, <1>14,
     <1>15, <1>16, <1>17, <1>18, <1>19, <1>20, <1>21, <1>22, <1>23, <1>24, <1>25 DEF Next, Step

\* Whoever compacts, drops, revives and is killed in the middle of it: what the
\* mirror or an index lists has been committed to the end, and its report is
\* readable.
THEOREM ReadableStays == Spec => []ListedIsReadable
<1>1. IInv => ListedIsReadable
  BY DEF IInv
<1> QED
  BY LibraryInit, LibraryStep, <1>1, PTL DEF Spec

-----------------------------------------------------------------------------
(* Compaction and revival lose no file of a job, however often the         *)
(* processes are killed, as long as one alone compacts and revives.        *)

\* Two librarians lose files (the run library_race): the proof needs one.
OneLibrarian == \A p, q \in Librarians : p = q

Exclusive == {"row", "compact", "zip", "unlink", "revive", "extract", "unzip"}

OnDuty == \A p \in Procs : op[p].at \in Exclusive => p \in Librarians

\* What holds while an archive is written, its originals removed, or its files
\* taken out again: at each point the archive or the folder has them.
AtWork(p, c) ==
  /\ op[p].at = "compact" => zip[c] = NoZip
  /\ op[p].at = "zip" => zip[c] = Torn /\ op[p].alone
  /\ op[p].at = "unlink" => op[p].targets \subseteq zip[c].files
  /\ op[p].at = "extract" => zip[c].files \subseteq folder[c] \cup op[p].targets
  /\ op[p].at = "unzip" => zip[c].files \subseteq folder[c]

WorkInHand == \A p \in Procs : \A c \in Codes : op[p].code = c => AtWork(p, c)

LossInv == IInv /\ OnDuty /\ WorkInHand /\ NothingLost

-----------------------------------------------------------------------------
LEMMA LossInit == Init => LossInv
<1> SUFFICES ASSUME Init PROVE LossInv
  OBVIOUS
<1>1. IInv
  BY LibraryInit
<1>2. OnDuty /\ WorkInHand
  BY DEF Init, OnDuty, WorkInHand, AtWork, Idle, Exclusive
<1>3. NothingLost
  BY DEF Init, NothingLost
<1> QED
  BY <1>1, <1>2, <1>3 DEF LossInv

\* A step of a process that is not the librarian at work: it touches no archive
\* and takes no file away.
LEMMA AsideStep ==
  ASSUME LossInv, IInv', NEW p \in Procs, NEW o \in Operations, op' = [op EXCEPT ![p] = o],
         o.at \in Exclusive => p \in Librarians, o.at \notin Exclusive \ {"row", "revive"},
         zip' = zip, made' = made, \A c \in Codes : folder[c] \subseteq folder'[c]
  PROVE  LossInv'
<1>t. op \in [Procs -> Operations] /\ op'[p] = o /\ \A q \in Procs : q # p => op'[q] = op[q]
  BY TypeOf DEF LossInv, IInv, TypeInv
<1>1. OnDuty'
  BY <1>t DEF LossInv, OnDuty
<1>2. WorkInHand'
  BY <1>t DEF LossInv, WorkInHand, AtWork, Exclusive
<1>3. NothingLost'
  BY DEF LossInv, NothingLost
<1> QED
  BY <1>1, <1>2, <1>3 DEF LossInv

\* A step of the only librarian, on the request it is about: all depends on that
\* request.
LEMMA LibrarianStep ==
  ASSUME LossInv, IInv', OneLibrarian, NEW p \in Librarians, NEW c \in Codes,
         \A q \in Procs : q # p => op'[q] = op[q],
         op'[p].at \notin {"idle", "row"} => op'[p].code = c, AtWork(p, c)',
         made' = made, made[c] \subseteq folder'[c] \cup zip'[c].files,
         \A d \in Codes : d # c => folder'[d] = folder[d] /\ zip'[d] = zip[d]
  PROVE  LossInv'
<1>t. p \in Procs
  BY LibraryAssumption
<1>1. OnDuty'
  BY <1>t DEF LossInv, OnDuty
<1>2. WorkInHand'
  <2>1. ASSUME NEW q \in Procs, q # p PROVE op'[q].at \notin Exclusive
    BY <1>t, <2>1 DEF LossInv, OnDuty, OneLibrarian
  <2>2. ASSUME NEW q \in Procs, q # p, NEW d \in Codes PROVE AtWork(q, d)'
    BY <2>1, <2>2 DEF AtWork, Exclusive
  <2>3. ASSUME NEW d \in Codes, op'[p].code = d PROVE AtWork(p, d)'
    BY <2>3 DEF AtWork
  <2> QED
    BY <2>2, <2>3 DEF WorkInHand
<1>3. NothingLost'
  BY DEF LossInv, NothingLost
<1> QED
  BY <1>1, <1>2, <1>3 DEF LossInv

\* A step that writes no file, archive or history, and goes where anybody may.
LEMMA PaperStep ==
  ASSUME LossInv, IInv', NEW p \in Procs,
         UNCHANGED <<folder, zip, made>>,
         \/ Over(p)
         \/ \E station \in {"card", "mirror", "load", "drop"} : Goto(p, station)
         \/ \E station \in {"note"}, c \in Codes : StartsOn(p, station, c)
  PROVE  LossInv'
<1>t. op \in [Procs -> Operations] /\ op[p] \in Operations
  BY TypeOf DEF LossInv, IInv, TypeInv
<1>1. PICK o \in Operations : op' = [op EXCEPT ![p] = o] /\ o.at \notin Exclusive
  <2>1. CASE Over(p)
    BY <2>1, IdleHand DEF Over, Exclusive
  <2>2. ASSUME NEW station \in {"card", "mirror", "load", "drop"}, Goto(p, station)
        PROVE  \E o \in Operations : op' = [op EXCEPT ![p] = o] /\ o.at \notin Exclusive
    <3>1. PICK o : o = [op[p] EXCEPT !.at = station]
      OBVIOUS
    <3>2. o \in Operations /\ o.at \notin Exclusive
      BY <1>t, <3>1 DEF Operations, Stations, Exclusive
    <3> QED
      BY <2>2, <3>1, <3>2 DEF Goto
  <2>3. ASSUME NEW c \in Codes, StartsOn(p, "note", c)
        PROVE  \E o \in Operations : op' = [op EXCEPT ![p] = o] /\ o.at \notin Exclusive
    <3>1. PICK o : o = [op[p] EXCEPT !.at = "note", !.code = c]
      OBVIOUS
    <3>2. o \in Operations /\ o.at \notin Exclusive
      BY <1>t, <3>1 DEF Operations, Stations, Exclusive
    <3> QED
      BY <2>3, <3>1, <3>2 DEF StartsOn
  <2> QED
    BY <2>1, <2>2, <2>3
<1> QED
  BY <1>1, AsideStep

LEMMA LossStep == OneLibrarian /\ LossInv /\ [Next]_vars => LossInv'
<1> SUFFICES ASSUME OneLibrarian, LossInv, [Next]_vars PROVE LossInv'
  OBVIOUS
<1>i. IInv'
  BY LibraryStep DEF LossInv
<1>t. /\ folder \in [Codes -> SUBSET Files] /\ made \in [Codes -> SUBSET Artifacts]
      /\ zip \in [Codes -> Zips]
      /\ op \in [Procs -> Operations] /\ \A p \in Procs : op[p] \in Operations
  BY TypeOf DEF LossInv, IInv, TypeInv
<1>c. \A p \in Procs : op[p].at \notin {"idle", "row"} => op[p].code \in Codes
  BY DEF LossInv, IInv, TypeInv, CodeKnown
<1>l. \A p \in Procs : op[p].at \in Exclusive => p \in Librarians
  BY DEF LossInv, OnDuty
<1>1. ASSUME NEW p \in Procs, CommitCard(p) \/ CommitMirror(p) \/ ReplaceIndex(p) \/ Pop(p)
                              \/ PutDropped(p) \/ NoteAccess(p) \/ Die(p)
      PROVE  LossInv'
  BY <1>1, <1>i, PaperStep
     DEF CommitCard, CommitMirror, ReplaceIndex, Pop, PutDropped, NoteAccess, Die, disk, bounds
<1>2. ASSUME NEW p \in Procs, NEW c \in Codes, ReadReport(p, c) PROVE LossInv'
  BY <1>2, <1>i, PaperStep DEF ReadReport, disk, bounds
<1>3. ASSUME NEW p \in Procs, NEW c \in Codes, Commit(p, c) PROVE LossInv'
  <2>1. PICK o : o = [op[p] EXCEPT !.at = "json", !.code = c]
    OBVIOUS
  <2>2. o \in Operations /\ o.at \notin Exclusive
    BY <1>t, <2>1 DEF Operations, Stations, Exclusive
  <2>3. op' = [op EXCEPT ![p] = o] /\ zip' = zip /\ made' = made
        /\ folder' = [folder EXCEPT ![c] = folder[c] \cup {"report"}]
    BY <1>3, <2>1 DEF Commit, StartsOn, Starts
  <2>4. \A d \in Codes : folder[d] \subseteq folder'[d]
    BY <1>t, <2>3
  <2> QED
    BY <1>i, <2>2, <2>3, <2>4, AsideStep
<1>4. ASSUME NEW p \in Procs, CommitJson(p) PROVE LossInv'
  <2>1. PICK o : o = [op[p] EXCEPT !.at = "card"]
    OBVIOUS
  <2>2. o \in Operations /\ o.at \notin Exclusive
    BY <1>t, <2>1 DEF Operations, Stations, Exclusive
  <2>3. PICK c \in Codes : c = op[p].code
    BY <1>4, <1>c DEF CommitJson, At
  <2>4. op' = [op EXCEPT ![p] = o] /\ zip' = zip /\ made' = made
        /\ folder' = [folder EXCEPT ![c] = folder[c] \cup {"json"}]
    BY <1>4, <2>1, <2>3 DEF CommitJson, Goto, Code, bounds
  <2>5. \A d \in Codes : folder[d] \subseteq folder'[d]
    BY <1>t, <2>4
  <2> QED
    BY <1>i, <2>2, <2>4, <2>5, AsideStep
<1>5. ASSUME NEW p \in Procs, LoadIndex(p) PROVE LossInv'
  <2>1. PICK o : o = [op[p] EXCEPT !.at = "replace", !.index = index]
    OBVIOUS
  <2>2. o \in Operations /\ o.at \notin Exclusive
    BY <1>t, <2>1, TypeOf DEF Operations, Stations, Exclusive, LossInv, IInv, TypeInv
  <2>3. op' = [op EXCEPT ![p] = o] /\ zip' = zip /\ made' = made /\ folder' = folder
    BY <1>5, <2>1 DEF LoadIndex, disk, bounds
  <2> QED
    BY <1>i, <2>2, <2>3, AsideStep
<1>6. ASSUME NEW p \in Procs, NEW c \in Codes, Drop(p, c) PROVE LossInv'
  <2>1. PICK o : o = [op[p] EXCEPT !.at = "pop", !.code = c,
                                   !.index = index \ {c}, !.dropped = dropped \cup {c}]
    OBVIOUS
  <2>2. o \in Operations /\ o.at \notin Exclusive
    BY <1>t, <2>1, TypeOf DEF Operations, Stations, Exclusive, LossInv, IInv, TypeInv
  <2>3. op' = [op EXCEPT ![p] = o] /\ zip' = zip /\ made' = made /\ folder' = folder
    BY <1>6, <2>1 DEF Drop, Starts, disk
  <2> QED
    BY <1>i, <2>2, <2>3, AsideStep
<1>7. ASSUME NEW p \in Procs, Scan(p) PROVE LossInv'
  <2>1. PICK o : o = [op[p] EXCEPT !.at = "row", !.rows = {c \in Codes : "old" \in mirror[c]}]
    OBVIOUS
  <2>2. o \in Operations /\ o.at = "row"
    BY <1>t, <2>1 DEF Operations, Stations
  <2>3. op' = [op EXCEPT ![p] = o] /\ zip' = zip /\ made' = made /\ folder' = folder
        /\ p \in Librarians
    BY <1>7, <2>1 DEF Scan, Starts, disk
  <2> QED
    BY <1>i, <2>2, <2>3, AsideStep DEF Exclusive
<1>8. ASSUME NEW p \in Procs, NEW c \in Codes, Revive(p, c) PROVE LossInv'
  <2>1. PICK o : o = [op[p] EXCEPT !.at = "revive", !.code = c]
    OBVIOUS
  <2>2. o \in Operations /\ o.at = "revive"
    BY <1>t, <2>1 DEF Operations, Stations
  <2>3. op' = [op EXCEPT ![p] = o] /\ zip' = zip /\ made' = made /\ folder' = folder
        /\ p \in Librarians
    BY <1>8, <2>1 DEF Revive, StartsOn, Starts, disk
  <2> QED
    BY <1>i, <2>2, <2>3, AsideStep DEF Exclusive
<1>9. ASSUME NEW c \in Codes, Age(c) PROVE LossInv'
  <2>1. UNCHANGED <<folder, zip, op, made>>
    BY <1>9 DEF Age, disk, bounds
  <2> QED
    BY <1>i, <2>1 DEF LossInv, OnDuty, WorkInHand, AtWork, NothingLost
<1>10. ASSUME NEW c \in Codes, NEW f \in Artifacts, Produce(c, f) PROVE LossInv'
  <2>1. folder' = [folder EXCEPT ![c] = folder[c] \cup {f}]
        /\ made' = [made EXCEPT ![c] = made[c] \cup {f}]
        /\ UNCHANGED <<zip, op>>
    BY <1>10 DEF Produce
  <2>2. \A d \in Codes : folder[d] \subseteq folder'[d] /\ made'[d] \subseteq made[d] \cup folder'[d]
    BY <1>t, <2>1
  <2>3. OnDuty' /\ WorkInHand'
    BY <2>1, <2>2 DEF LossInv, OnDuty, WorkInHand, AtWork
  <2>4. NothingLost'
    BY <2>1, <2>2 DEF LossInv, NothingLost
  <2> QED
    BY <1>i, <2>3, <2>4 DEF LossInv
<1>11. CASE UNCHANGED vars
  <2>1. UNCHANGED <<folder, zip, op, made>>
    BY <1>11 DEF vars
  <2> QED
    BY <1>i, <2>1 DEF LossInv, OnDuty, WorkInHand, AtWork, NothingLost
<1>w. \A p \in Procs : \A c \in Codes : op[p].code = c => AtWork(p, c)
  BY DEF LossInv, WorkInHand
<1>m. \A c \in Codes : made[c] \subseteq folder[c] \cup zip[c].files
  BY DEF LossInv, NothingLost
<1>n. NoZip.files = {} /\ Torn.files = {} /\ NoZip # Torn /\ NoZip.state # "whole"
      /\ Torn.state # "whole" /\ \A f : Whole(f).files = f
  BY DEF NoZip, Torn, Whole
<1>12. ASSUME NEW p \in Procs, Row(p) PROVE LossInv'
  <2>1. op[p].at = "row" /\ p \in Librarians /\ UNCHANGED <<folder, zip, made>>
    BY <1>12, <1>l DEF Row, At, Exclusive, disk, bounds
  <2>2. CASE op[p].rows = {}
    BY <1>12, <1>i, <2>1, <2>2, PaperStep DEF Row
  <2>3. CASE op[p].rows # {}
    <3>1. PICK c \in op[p].rows :
            op' = [op EXCEPT ![p].rows = @ \ {c}, ![p].code = c,
                             ![p].at = IF Cold(c) THEN "compact" ELSE "row"]
      BY <1>12, <2>3 DEF Row
    <3>2. PICK station \in {"compact", "row"} : station = IF Cold(c) THEN "compact" ELSE "row"
      OBVIOUS
    <3>3. op'[p].at = station /\ op'[p].code = c /\ \A q \in Procs : q # p => op'[q] = op[q]
      BY <1>t, <3>1, <3>2 DEF Operations
    <3>4. c \in Codes
      BY <1>t DEF Operations
    <3>5. station = "compact" => zip[c] = NoZip
      BY <3>2 DEF Cold
    <3>6. AtWork(p, c)'
      BY <2>1, <3>3, <3>5 DEF AtWork
    <3> QED
      BY <1>i, <1>m, <2>1, <3>3, <3>4, <3>6, LibrarianStep
  <2> QED
    BY <2>2, <2>3
<1>13. ASSUME NEW p \in Procs, CompactFolder(p) PROVE LossInv'
  <2>1. PICK c \in Codes : c = op[p].code
    BY <1>13, <1>c DEF CompactFolder, At
  <2>2. p \in Librarians /\ zip[c] = NoZip
    BY <1>13, <1>l, <1>w, <2>1 DEF CompactFolder, At, Exclusive, AtWork
  <2>3. op' = [q \in Procs |->
                 IF q = p THEN [op[p] EXCEPT !.at = "zip", !.targets = Targets(c),
                                             !.zipped = {}, !.alone = TRUE]
                 ELSE IF At(q, "zip") /\ Code(q) = c THEN [op[q] EXCEPT !.alone = FALSE]
                 ELSE op[q]]
    BY <1>13, <2>1 DEF CompactFolder, Code
  <2>4. ASSUME NEW q \in Procs, q # p PROVE op'[q] = op[q]
    <3>1. ~At(q, "zip")
      BY <1>l, <2>2, <2>4 DEF At, Exclusive, OneLibrarian
    <3> QED
      BY <2>3, <2>4, <3>1
  <2>5. op'[p].at = "zip" /\ op'[p].code = c /\ op'[p].alone
    BY <1>t, <2>1, <2>3 DEF Operations
  <2>6. zip' = [zip EXCEPT ![c] = Torn] /\ UNCHANGED <<folder, made>>
    BY <1>13, <2>1 DEF CompactFolder, Code, bounds
  <2>7. zip'[c] = Torn /\ \A d \in Codes : d # c => zip'[d] = zip[d]
    BY <1>t, <2>6
  <2>8. AtWork(p, c)'
    BY <2>5, <2>7 DEF AtWork
  <2>9. made[c] \subseteq folder'[c]
    BY <1>m, <1>n, <2>2, <2>6
  <2> QED
    BY <1>i, <2>2, <2>4, <2>5, <2>6, <2>7, <2>8, <2>9, LibrarianStep
<1>14. ASSUME NEW p \in Procs, ZipFile(p) PROVE LossInv'
  <2>1. PICK c \in Codes : c = op[p].code
    BY <1>14, <1>c DEF ZipFile, At
  <2>2. op[p].at = "zip" /\ p \in Librarians /\ UNCHANGED <<folder, zip, made>>
    BY <1>14, <1>l DEF ZipFile, At, Exclusive, disk, bounds
  <2>3. PICK f : op' = [op EXCEPT ![p].zipped = @ \cup {f}]
    BY <1>14 DEF ZipFile
  <2>4. op'[p].at = "zip" /\ op'[p].code = c /\ op'[p].alone = op[p].alone
        /\ \A q \in Procs : q # p => op'[q] = op[q]
    BY <1>t, <2>1, <2>2, <2>3 DEF Operations
  <2>5. AtWork(p, c)'
    BY <1>w, <2>1, <2>2, <2>4 DEF AtWork
  <2> QED
    BY <1>i, <1>m, <2>2, <2>4, <2>5, LibrarianStep
<1>15. ASSUME NEW p \in Procs, CloseZip(p) PROVE LossInv'
  <2>1. PICK c \in Codes : c = op[p].code
    BY <1>15, <1>c DEF CloseZip, At
  <2>2. op[p].at = "zip" /\ p \in Librarians /\ zip[c] = Torn /\ op[p].alone
        /\ UNCHANGED <<folder, made>>
    BY <1>15, <1>l, <1>w, <2>1 DEF CloseZip, At, Exclusive, AtWork, lists, bounds
  <2>3. Closed(p) = {Whole(op[p].zipped)}
    BY <1>n, <2>1, <2>2 DEF Closed, Code
  <2>4. zip' = [zip EXCEPT ![c] = Whole(op[p].zipped)]
    BY <1>15, <2>1, <2>3 DEF CloseZip, Code
  <2>5. zip'[c].files = op[p].zipped /\ \A d \in Codes : d # c => zip'[d] = zip[d]
    BY <1>t, <1>n, <2>4
  <2>6. made[c] \subseteq folder'[c]
    BY <1>m, <1>n, <2>2
  <2>7. /\ \A q \in Procs : q # p => op'[q] = op[q]
        /\ \/ op'[p].at = "idle"
           \/ op'[p].at = "unlink" /\ op'[p].code = c /\ op'[p].targets = op[p].targets
              /\ op[p].targets = op[p].zipped
    <3>1. CASE op[p].zipped = op[p].targets /\ Goto(p, "unlink")
      BY <1>t, <2>1, <3>1 DEF Goto, Operations
    <3>2. CASE Over(p)
      BY <1>t, <3>2, IdleHand DEF Over
    <3> QED
      BY <1>15, <3>1, <3>2 DEF CloseZip
  <2>8. AtWork(p, c)'
    BY <2>5, <2>7 DEF AtWork
  <2> QED
    BY <1>i, <2>2, <2>5, <2>6, <2>7, <2>8, LibrarianStep
<1>16. ASSUME NEW p \in Procs, Unlink(p) PROVE LossInv'
  <2>1. PICK c \in Codes : c = op[p].code
    BY <1>16, <1>c DEF Unlink, At
  <2>2. op[p].at = "unlink" /\ p \in Librarians /\ UNCHANGED <<zip, made>>
        /\ op[p].targets \subseteq zip[c].files
    BY <1>16, <1>l, <1>w, <2>1 DEF Unlink, At, Exclusive, AtWork, bounds
  <2>3. CASE op[p].targets = {}
    <3>1. Goto(p, "row") /\ UNCHANGED folder
      BY <1>16, <2>3 DEF Unlink
    <3>2. op'[p].at = "row" /\ \A q \in Procs : q # p => op'[q] = op[q]
      BY <1>t, <3>1 DEF Goto, Operations
    <3>3. AtWork(p, c)'
      BY <3>2 DEF AtWork
    <3> QED
      BY <1>i, <1>m, <2>2, <3>1, <3>2, <3>3, LibrarianStep
  <2>4. CASE op[p].targets # {}
    <3>1. PICK f \in op[p].targets :
            IF f \in folder[c]
            THEN /\ folder' = [folder EXCEPT ![c] = @ \ {f}]
                 /\ op' = [op EXCEPT ![p].targets = @ \ {f}]
            ELSE Over(p) /\ UNCHANGED folder
      BY <1>16, <2>1, <2>4 DEF Unlink, Code
    <3>2. CASE f \in folder[c]
      <4>1. op'[p].at = "unlink" /\ op'[p].code = c /\ op'[p].targets \subseteq op[p].targets
            /\ \A q \in Procs : q # p => op'[q] = op[q]
        BY <1>t, <2>1, <2>2, <3>1, <3>2 DEF Operations
      <4>2. folder'[c] = folder[c] \ {f} /\ \A d \in Codes : d # c => folder'[d] = folder[d]
        BY <1>t, <3>1, <3>2
      <4>3. made[c] \subseteq folder'[c] \cup zip'[c].files
        BY <1>m, <2>2, <4>2
      <4>4. AtWork(p, c)'
        BY <2>2, <4>1 DEF AtWork
      <4> QED
        BY <1>i, <2>2, <4>1, <4>2, <4>3, <4>4, LibrarianStep
    <3>3. CASE f \notin folder[c]
      BY <1>i, <2>2, <3>1, <3>3, PaperStep
    <3> QED
      BY <3>2, <3>3
  <2> QED
    BY <2>3, <2>4
<1>17. ASSUME NEW p \in Procs, ReviveFolder(p) PROVE LossInv'
  <2>1. PICK c \in Codes : c = op[p].code
    BY <1>17, <1>c DEF ReviveFolder, At
  <2>2. p \in Librarians /\ UNCHANGED <<folder, zip, made>>
    BY <1>17, <1>l DEF ReviveFolder, At, Exclusive, disk, bounds
  <2>3. CASE op' = [op EXCEPT ![p].at = "extract", ![p].targets = zip[c].files]
    <3>1. op'[p].at = "extract" /\ op'[p].code = c /\ op'[p].targets = zip[c].files
          /\ \A q \in Procs : q # p => op'[q] = op[q]
      BY <1>t, <2>1, <2>3 DEF Operations
    <3>2. AtWork(p, c)'
      BY <2>2, <3>1 DEF AtWork
    <3> QED
      BY <1>i, <1>m, <2>2, <3>1, <3>2, LibrarianStep
  <2>4. CASE Over(p)
    BY <1>i, <2>2, <2>4, PaperStep
  <2> QED
    BY <1>17, <2>1, <2>3, <2>4 DEF ReviveFolder, Code
<1>18. ASSUME NEW p \in Procs, Extract(p) PROVE LossInv'
  <2>1. PICK c \in Codes : c = op[p].code
    BY <1>18, <1>c DEF Extract, At
  <2>2. op[p].at = "extract" /\ p \in Librarians /\ UNCHANGED <<zip, made>>
        /\ zip[c].files \subseteq folder[c] \cup op[p].targets
    BY <1>18, <1>l, <1>w, <2>1 DEF Extract, At, Exclusive, AtWork, bounds
  <2>3. CASE op[p].targets = {}
    <3>1. Goto(p, "unzip") /\ UNCHANGED folder
      BY <1>18, <2>3 DEF Extract
    <3>2. op'[p].at = "unzip" /\ op'[p].code = c /\ \A q \in Procs : q # p => op'[q] = op[q]
      BY <1>t, <2>1, <3>1 DEF Goto, Operations
    <3>3. AtWork(p, c)'
      BY <2>2, <2>3, <3>1, <3>2 DEF AtWork
    <3> QED
      BY <1>i, <1>m, <2>2, <3>1, <3>2, <3>3, LibrarianStep
  <2>4. CASE op[p].targets # {}
    <3>1. PICK f \in op[p].targets :
            /\ folder' = [folder EXCEPT ![c] = folder[c] \cup {f}]
            /\ op' = [op EXCEPT ![p].targets = @ \ {f}]
      BY <1>18, <2>1, <2>4 DEF Extract, Code
    <3>2. op'[p].at = "extract" /\ op'[p].code = c /\ op'[p].targets = op[p].targets \ {f}
          /\ \A q \in Procs : q # p => op'[q] = op[q]
      BY <1>t, <2>1, <2>2, <3>1 DEF Operations
    <3>3. folder'[c] = folder[c] \cup {f} /\ \A d \in Codes : d # c => folder'[d] = folder[d]
      BY <1>t, <3>1
    <3>4. AtWork(p, c)'
      BY <2>2, <3>2, <3>3 DEF AtWork
    <3>5. made[c] \subseteq folder'[c] \cup zip'[c].files
      BY <1>m, <2>2, <3>3
    <3> QED
      BY <1>i, <2>2, <3>2, <3>3, <3>4, <3>5, LibrarianStep
  <2> QED
    BY <2>3, <2>4
<1>19. ASSUME NEW p \in Procs, Unzip(p) PROVE LossInv'
  <2>1. PICK c \in Codes : c = op[p].code
    BY <1>19, <1>c DEF Unzip, At
  <2>2. p \in Librarians /\ UNCHANGED <<folder, made>> /\ zip[c].files \subseteq folder[c]
        /\ zip' = [zip EXCEPT ![c] = NoZip]
    BY <1>19, <1>l, <1>w, <2>1 DEF Unzip, At, Exclusive, AtWork, Code, bounds
  <2>3. op'[p].at = "idle" /\ \A q \in Procs : q # p => op'[q] = op[q]
    BY <1>19, <1>t, IdleHand DEF Unzip, Over
  <2>4. made[c] \subseteq folder'[c] /\ \A d \in Codes : d # c => zip'[d] = zip[d]
    BY <1>t, <1>m, <2>2
  <2>5. AtWork(p, c)'
    BY <2>3 DEF AtWork
  <2> QED
    BY <1>i, <2>2, <2>3, <2>4, <2>5, LibrarianStep
<1> QED
  BY <1>1, <1>2, <1>3, <1>4, <1>5, <1>6, <1>7, <1>8, <1>9, <1>10, <1>11, <1>12, <1>13, <1>14,
     <1>15, <1>16, <1>17, <1>18, <1>19 DEF Next, Step

\* With one librarian, every file a job has left is in its folder or in an
\* archive that can be read, whenever anybody is killed.
THEOREM CompactionIsNonDestructive ==
  ASSUME OneLibrarian PROVE Spec => []NothingLost
<1>1. LossInv => NothingLost
  BY DEF LossInv
<1>2. LossInv /\ [Next]_vars => LossInv'
  BY OneLibrarian, LossStep
<1> QED
  BY LossInit, <1>1, <1>2, PTL DEF Spec

-----------------------------------------------------------------------------
(* The daily upkeep of the memory (Upkeep).                                *)

\* The minimum of a set of numbers: the intervals up to its members are
\* well-founded, so one of them is in all others.
LEMMA MinIsThere ==
  ASSUME NEW S \in SUBSET Nat, S # {}
  PROVE  Min(S) \in S /\ \A x \in S : Min(S) <= x
<1>1. PICK n \in S : TRUE
  OBVIOUS
<1> DEFINE T == {0 .. x : x \in S \cap 0 .. n}
<1>2. T \subseteq FiniteSubsetsOf(0 .. n) /\ T # {}
  <2>1. 0 .. n \in T
    BY <1>1
  <2>2. \A x \in S \cap 0 .. n : IsFiniteSet(0 .. x) /\ 0 .. x \subseteq 0 .. n
    BY FS_Interval
  <2> QED
    BY <2>1, <2>2 DEF FiniteSubsetsOf
<1>3. PICK I \in T : \A J \in T : <<J, I>> \notin StrictSubsetOrdering(0 .. n)
  <2> HIDE DEF T
  <2> QED
    BY <1>2, FS_StrictSubsetOrderingWellFounded, WFMin
<1>4. PICK k \in S \cap 0 .. n : I = 0 .. k
  OBVIOUS
<1>5. ASSUME NEW x \in S, x < k PROVE FALSE
  <2>1. 0 .. x \in T
    BY <1>4, <1>5
  <2>2. 0 .. x \subseteq 0 .. k /\ 0 .. k \subseteq 0 .. n /\ k \in 0 .. k /\ k \notin 0 .. x
    BY <1>4, <1>5
  <2>3. <<0 .. x, I>> \in StrictSubsetOrdering(0 .. n)
    BY <1>4, <2>2 DEF StrictSubsetOrdering
  <2> QED
    BY <1>3, <2>1, <2>3
<1>6. \A x \in S : k <= x
  BY <1>4, <1>5
<1> QED
  BY <1>4, <1>6 DEF Min

Memories == [state : {"absent", "active", "archived", "dropped"},
             class : Classes \cup {"none", "long"}, text : Texts \cup {NoText},
             expiry : {"never", "ahead", "past"}, low : BOOLEAN,
             faded : BOOLEAN, uses : Nat, superseded_by : Ids \cup {0}]

Readings == [id : Ids \cup {0}, revive : BOOLEAN, uses : Nat]

Deeds == [do : {"drop", "archive", "promote", "chain"}, to : Ids \cup {0}]
Plans == UNION {[D -> Deeds] : D \in SUBSET Ids}

\* What there is, and the reads that were counted.
Counted ==
  /\ mem \in [Ids -> Memories]
  /\ reads \in [Ids -> Nat]
  /\ reading \in [Readers -> Readings]
  /\ at \in [Workers -> UpkeepStations]
  /\ plan \in [Workers -> Plans]
  /\ UseCountExact

LEMMA MemoryTypes ==
  /\ Absent \in Memories /\ Absent.uses = 0
  /\ \A row \in Creations : row \in Memories /\ row.uses = 0 /\ row.state = "active"
  /\ \A row \in Memories, deed \in Deeds :
       /\ Done(row, deed) \in Memories /\ Done(row, deed).uses = row.uses
       /\ Done(row, deed).state # row.state => deed.do \in {"drop", "archive"}
       /\ Done(row, deed).state = "dropped" =>
            (row.state = "dropped" /\ Done(row, deed).text = row.text) \/ Done(row, deed).text = NoText
       /\ deed.do # "drop" => Done(row, deed).text = row.text
       /\ deed.do = "archive" => Done(row, deed).state = "archived"
       /\ deed.do \in {"chain", "promote"} => Done(row, deed).state = row.state
  /\ \A row \in Memories, revive \in BOOLEAN, n \in Nat :
       LET new == Reinforced(row, revive, n) IN
       /\ new \in Memories /\ new.uses = n /\ new.text = row.text
       /\ new.state = row.state \/ (row.state = "archived" /\ new.state = "active")
<1>1. Absent \in Memories /\ Absent.uses = 0
  BY DEF Absent, Memories
<1>2. ASSUME NEW row \in Creations PROVE row \in Memories /\ row.uses = 0 /\ row.state = "active"
  <2>1. PICK class \in Classes, text \in Texts, low \in BOOLEAN : row = Created(class, text, low)
    BY <1>2 DEF Creations
  <2> QED
    BY <1>1, <2>1 DEF Created, Memories
<1>3. ASSUME NEW row \in Memories, NEW deed \in Deeds
      PROVE  /\ Done(row, deed) \in Memories /\ Done(row, deed).uses = row.uses
             /\ Done(row, deed).state # row.state => deed.do \in {"drop", "archive"}
             /\ Done(row, deed).state = "dropped" =>
                  (row.state = "dropped" /\ Done(row, deed).text = row.text) \/ Done(row, deed).text = NoText
             /\ deed.do # "drop" => Done(row, deed).text = row.text
             /\ deed.do = "archive" => Done(row, deed).state = "archived"
             /\ deed.do \in {"chain", "promote"} => Done(row, deed).state = row.state
  <2>1. CASE deed.do = "drop"
    BY <2>1 DEF Done, Memories
  <2>2. CASE deed.do = "archive"
    BY <2>2 DEF Done, Memories
  <2>3. CASE deed.do = "promote"
    BY <2>3 DEF Done, Memories
  <2>4. CASE deed.do = "chain"
    BY <2>4 DEF Done, Memories, Deeds
  <2> QED
    BY <2>1, <2>2, <2>3, <2>4 DEF Deeds
<1>4. ASSUME NEW row \in Memories, NEW revive \in BOOLEAN, NEW n \in Nat
      PROVE  LET new == Reinforced(row, revive, n) IN
             /\ new \in Memories /\ new.uses = n /\ new.text = row.text
             /\ new.state = row.state \/ (row.state = "archived" /\ new.state = "active")
  BY DEF Reinforced, Memories
<1> QED
  BY <1>1, <1>2, <1>3, <1>4

LEMMA PlanTypes ==
  /\ Nothing \in Plans /\ DOMAIN Nothing = {}
  /\ \A p \in Plans : /\ DOMAIN p \in SUBSET Ids /\ \A i \in DOMAIN p : p[i] \in Deeds
                      /\ p # Nothing => DOMAIN p # {}
                      /\ \A i \in DOMAIN p : Left(p, i) \in Plans
<1>1. Nothing \in [{} -> Deeds] /\ DOMAIN Nothing = {}
  BY DEF Nothing
<1>2. ASSUME NEW p \in Plans
      PROVE  /\ DOMAIN p \in SUBSET Ids /\ \A i \in DOMAIN p : p[i] \in Deeds
             /\ p # Nothing => DOMAIN p # {}
             /\ \A i \in DOMAIN p : Left(p, i) \in Plans
  <2>1. PICK D \in SUBSET Ids : p \in [D -> Deeds]
    BY DEF Plans
  <2>2. D = {} => p = Nothing
    BY <1>1, <2>1
  <2>3. ASSUME NEW i \in D PROVE Left(p, i) \in Plans
    <3>1. CASE p[i].do = "chain"
      <4>1. [p EXCEPT ![i] = Deed("archive", 0)] \in [D -> Deeds]
        BY <2>1 DEF Deed, Deeds
      <4> QED
        BY <3>1, <4>1 DEF Left, Plans
    <3>2. CASE p[i].do # "chain"
      <4>1. [j \in D \ {i} |-> p[j]] \in [D \ {i} -> Deeds]
        BY <2>1
      <4>2. Left(p, i) = [j \in D \ {i} |-> p[j]]
        BY <2>1, <3>2 DEF Left
      <4> QED
        BY <4>1, <4>2 DEF Plans
    <3> QED
      BY <3>1, <3>2
  <2> QED
    BY <2>1, <2>2, <2>3
<1> QED
  BY <1>1, <1>2 DEF Plans

\* The plan of a phase is about active rows, and says what becomes of each.
LEMMA PlanOfTypes ==
  ASSUME mem \in [Ids -> Memories]
  PROVE  \A phase \in ToSet(Phases) :
           /\ PlanOf(phase) \in Plans
           /\ DOMAIN PlanOf(phase) \subseteq Active
<1>1. Active \subseteq Ids
  BY DEF Active
<1>2. \A D \in SUBSET Active : [D -> Deeds] \subseteq Plans
  BY <1>1 DEF Plans
<1>3. ExpirePlan \in Plans /\ DOMAIN ExpirePlan \subseteq Active
  <2> DEFINE D == {j \in Active : mem[j].class # "core" /\ mem[j].expiry = "past"}
  <2>1. ExpirePlan \in [D -> Deeds] /\ DOMAIN ExpirePlan = D
    BY DEF ExpirePlan, Deed, Deeds
  <2> QED
    BY <1>2, <2>1
<1>4. ArchivePlan \in Plans /\ DOMAIN ArchivePlan \subseteq Active
  <2> DEFINE D == {j \in Active : mem[j].class = "long" /\ mem[j].faded}
  <2>1. ArchivePlan \in [D -> Deeds] /\ DOMAIN ArchivePlan = D
    BY DEF ArchivePlan, Deed, Deeds
  <2> QED
    BY <1>2, <2>1
<1>5. PromotePlan \in Plans /\ DOMAIN PromotePlan \subseteq Active
  <2> DEFINE D == {j \in Active : mem[j].class = "short" /\ mem[j].uses >= PromoteUses}
  <2>1. PromotePlan \in [D -> Deeds] /\ DOMAIN PromotePlan = D
    BY DEF PromotePlan, Deed, Deeds
  <2> QED
    BY <1>2, <2>1
<1>6. ConsolidatePlan \in Plans /\ DOMAIN ConsolidatePlan \subseteq Active
  <2> DEFINE D == {j \in Active : /\ mem[j].class # "core" /\ mem[j].text # NoText
                                 /\ j # Min(Alike(j))}
  <2>1. \A j \in D : Min(Alike(j)) \in Ids
    <3>1. SUFFICES ASSUME NEW j \in D PROVE Min(Alike(j)) \in Ids
      OBVIOUS
    <3>2. Alike(j) \in SUBSET Nat /\ Alike(j) # {} /\ Alike(j) \subseteq Ids
      BY <1>1, UpkeepAssumption DEF Alike
    <3> QED
      BY <3>2, MinIsThere
  <2>2. ConsolidatePlan \in [D -> Deeds] /\ DOMAIN ConsolidatePlan = D
    BY <2>1 DEF ConsolidatePlan, Deed, Deeds
  <2> QED
    BY <1>2, <2>2
<1>7. ToSet(Phases) = {"expire", "archive", "promote", "consolidate"}
  BY DEF ToSet, Phases
<1> QED
  BY <1>3, <1>4, <1>5, <1>6, <1>7 DEF PlanOf

\* A step of the sweep is one statement on a row of the plan, or the end of the
\* phase: the last, or the one before the k-th.
LEMMA SweepCases ==
  ASSUME plan \in [Workers -> Plans], NEW w \in Workers, Sweep(w)
  PROVE  /\ UNCHANGED <<reads, reading, rows, todo, breaks>>
         /\ at[w] \in ToSet(Phases)
         /\ \/ \E i \in DOMAIN plan[w] :
                 /\ mem' = [mem EXCEPT ![i] = Done(@, plan[w][i])]
                 /\ plan' = [plan EXCEPT ![w] = Left(@, i)]
                 /\ UNCHANGED at
            \/ /\ at' = [at EXCEPT ![w] = "mark"]
               /\ plan' = [plan EXCEPT ![w] = Nothing]
               /\ UNCHANGED mem
            \/ \E k \in 2 .. 4 :
                 /\ at[w] = Phases[k - 1]
                 /\ at' = [at EXCEPT ![w] = Phases[k]]
                 /\ plan' = [plan EXCEPT ![w] = PlanOf(Phases[k])]
                 /\ UNCHANGED mem
<1>1. UNCHANGED <<reads, reading, rows, todo, breaks>> /\ at[w] \in ToSet(Phases)
  BY DEF Sweep
<1>2. CASE plan[w] # Nothing
  <2> DEFINE i == Min(DOMAIN plan[w])
  <2>1. DOMAIN plan[w] \in SUBSET Nat /\ DOMAIN plan[w] # {}
    BY <1>2, PlanTypes, UpkeepAssumption
  <2>2. i \in DOMAIN plan[w]
    BY <2>1, MinIsThere
  <2>3. /\ mem' = [mem EXCEPT ![i] = Done(@, plan[w][i])]
        /\ plan' = [plan EXCEPT ![w] = Left(@, i)]
        /\ UNCHANGED at
    BY <1>2 DEF Sweep
  <2> HIDE DEF i
  <2> QED
    BY <1>1, <2>2, <2>3
<1>3. CASE plan[w] = Nothing
  <2> DEFINE k == CHOOSE n \in DOMAIN Phases : Phases[n] = at[w]
  <2>1. k \in 1 .. 4 /\ Phases[k] = at[w] /\ Len(Phases) = 4
    <3>1. DOMAIN Phases = 1 .. 4 /\ Len(Phases) = 4
      BY DEF Phases
    <3>2. \E n \in DOMAIN Phases : Phases[n] = at[w]
      BY <1>1 DEF ToSet
    <3> QED
      BY <3>1, <3>2
  <2>2. /\ at' = [at EXCEPT ![w] = IF k = Len(Phases) THEN "mark" ELSE Phases[k + 1]]
        /\ plan' = [plan EXCEPT ![w] = IF k = Len(Phases) THEN Nothing ELSE PlanOf(Phases[k + 1])]
        /\ UNCHANGED mem
    BY <1>3 DEF Sweep
  <2> HIDE DEF k
  <2>3. CASE k = 4
    BY <1>1, <2>1, <2>2, <2>3
  <2>4. CASE k # 4
    <3>1. k + 1 \in 2 .. 4 /\ (k + 1) - 1 = k
      BY <2>1, <2>4
    <3> QED
      BY <1>1, <2>1, <2>2, <2>4, <3>1
  <2> QED
    BY <2>3, <2>4
<1> QED
  BY <1>2, <1>3

LEMMA UpkeepStart == UpkeepInit => Counted /\ plan = [w \in Workers |-> Nothing]
<1> SUFFICES ASSUME UpkeepInit PROVE Counted /\ plan = [w \in Workers |-> Nothing]
  OBVIOUS
<1>1. mem \in [Ids -> Memories] /\ reads \in [Ids -> Nat] /\ UseCountExact
  <2>1. mem \in [Ids -> {Absent} \cup Creations] /\ reads = [i \in Ids |-> 0]
    BY DEF UpkeepInit
  <2>2. \A row \in {Absent} \cup Creations : row \in Memories /\ row.uses = 0
    BY MemoryTypes
  <2> QED
    BY <2>1, <2>2 DEF UseCountExact
<1>2. reading \in [Readers -> Readings]
  BY DEF UpkeepInit, Nobody, Readings
<1>3. at \in [Workers -> UpkeepStations]
  BY DEF UpkeepInit, UpkeepStations
<1>4. plan \in [Workers -> Plans] /\ plan = [w \in Workers |-> Nothing]
  BY PlanTypes DEF UpkeepInit
<1> QED
  BY <1>1, <1>2, <1>3, <1>4 DEF Counted

\* A memory changes in a few ways: it is created, read, aged, or met by the sweep.
LEMMA RowStep ==
  ASSUME Counted, NEW i \in Ids, NEW row \in Memories,
         mem' = [mem EXCEPT ![i] = row], row.uses = reads'[i],
         \A j \in Ids \ {i} : reads'[j] = reads[j]
  PROVE  mem' \in [Ids -> Memories] /\ UseCountExact'
<1>1. mem' \in [Ids -> Memories]
  BY DEF Counted
<1>2. \A j \in Ids : mem'[j].uses = reads'[j]
  <2>1. ASSUME NEW j \in Ids PROVE mem'[j].uses = reads'[j]
    <3>1. CASE j = i
      BY <3>1 DEF Counted
    <3>2. CASE j # i
      BY <3>2 DEF Counted, UseCountExact
    <3> QED
      BY <3>1, <3>2
  <2> QED
    BY <2>1
<1> QED
  BY <1>1, <1>2 DEF UseCountExact

\* The plans and the stations, whatever the worker does.
LEMMA WorkerTypes ==
  ASSUME Counted, NEW w \in Workers, NEW p \in Plans, NEW s \in UpkeepStations
  PROVE  /\ plan' = [plan EXCEPT ![w] = p] => plan' \in [Workers -> Plans]
         /\ at' = [at EXCEPT ![w] = s] => at' \in [Workers -> UpkeepStations]
BY DEF Counted

LEMMA CountedStep == Counted /\ [UpkeepNext]_upkeepVars => Counted'
<1> SUFFICES ASSUME Counted, [UpkeepNext]_upkeepVars PROVE Counted'
  OBVIOUS
<1> DEFINE Memory  == mem' \in [Ids -> Memories] /\ reads' \in [Ids -> Nat] /\ UseCountExact'
<1> DEFINE Reading == reading' \in [Readers -> Readings]
<1> DEFINE Sweeps  == at' \in [Workers -> UpkeepStations] /\ plan' \in [Workers -> Plans]
<1>m. UNCHANGED <<mem, reads>> => Memory
  BY DEF Counted, UseCountExact
<1>r. UNCHANGED reading => Reading
  BY DEF Counted
<1>a. UNCHANGED at => at' \in [Workers -> UpkeepStations]
  BY DEF Counted
<1>p. UNCHANGED plan => plan' \in [Workers -> Plans]
  BY DEF Counted
<1>u. UNCHANGED upkeep => Sweeps
  BY <1>a, <1>p DEF upkeep
<1>q. Memory /\ Reading /\ Sweeps => Counted'
  BY DEF Counted
<1>s. /\ ToSet(Phases) = {"expire", "archive", "promote", "consolidate"}
      /\ \A k \in 2 .. 4 : Phases[k] \in ToSet(Phases)
  BY DEF ToSet, Phases
<1>t. /\ {"down", "seed", "insert", "poll", "run", "mark"} \subseteq UpkeepStations
      /\ ToSet(Phases) \subseteq UpkeepStations
  BY DEF UpkeepStations
<1>n. Nothing \in Plans /\ \A phase \in ToSet(Phases) : PlanOf(phase) \in Plans
  BY PlanTypes, PlanOfTypes DEF Counted
<1> HIDE DEF Memory, Reading, Sweeps
<1>1. ASSUME NEW i \in Ids, NEW row \in Creations, Create(i, row) PROVE Counted'
  <2>1. row \in Memories /\ row.uses = 0 /\ mem[i].uses = 0
    BY <1>1, MemoryTypes DEF Create
  <2>2. mem' = [mem EXCEPT ![i] = row] /\ reads' = reads
    BY <1>1 DEF Create
  <2>3. row.uses = reads'[i]
    BY <2>1, <2>2 DEF Counted, UseCountExact
  <2>4. Memory
    BY <2>1, <2>2, <2>3, RowStep DEF Counted, Memory
  <2> QED
    BY <1>1, <2>4, <1>r, <1>u, <1>q DEF Create
<1>2. ASSUME NEW r \in Readers, NEW i \in Ids, NEW revive \in BOOLEAN, Fetch(r, i, revive)
      PROVE  Counted'
  <2>1. mem[i].uses \in Nat
    BY DEF Counted, Memories
  <2>2. [id |-> i, revive |-> revive, uses |-> mem[i].uses] \in Readings
    BY <2>1 DEF Readings
  <2>3. Reading
    BY <1>2, <2>2 DEF Counted, Reading, Fetch
  <2> QED
    BY <1>2, <2>3, <1>m, <1>u, <1>q DEF Fetch
<1>3. ASSUME NEW r \in Readers, Reinforce(r) PROVE Counted'
  <2> DEFINE i == reading[r].id
  <2>1. i \in Ids /\ reading[r].revive \in BOOLEAN
    BY <1>3 DEF Counted, Readings, Reinforce
  <2>2. /\ mem' = [mem EXCEPT ![i] = Reinforced(@, reading[r].revive, @.uses + 1)]
        /\ reads' = [reads EXCEPT ![i] = @ + 1]
        /\ reading' = [reading EXCEPT ![r] = Nobody]
        /\ UNCHANGED upkeep
    BY <1>3 DEF Reinforce
  <2> DEFINE row == Reinforced(mem[i], reading[r].revive, mem[i].uses + 1)
  <2> HIDE DEF i
  <2>3. mem[i] \in Memories /\ mem[i].uses + 1 \in Nat /\ mem[i].uses = reads[i] /\ reads[i] \in Nat
    BY <2>1 DEF Counted, Memories, UseCountExact
  <2>4. row \in Memories /\ row.uses = mem[i].uses + 1
    BY <2>1, <2>3, MemoryTypes
  <2>5. mem' = [mem EXCEPT ![i] = row]
    BY <2>2
  <2> HIDE DEF row
  <2>6. reads' \in [Ids -> Nat] /\ reads'[i] = reads[i] + 1 /\ \A j \in Ids \ {i} : reads'[j] = reads[j]
    BY <2>1, <2>2, <2>3 DEF Counted
  <2>7. Memory
    BY <2>1, <2>3, <2>4, <2>5, <2>6, RowStep DEF Memory
  <2>8. Reading
    <3>1. Nobody \in Readings
      BY DEF Nobody, Readings
    <3> QED
      BY <2>2, <3>1 DEF Reading, Counted
  <2> QED
    BY <2>2, <2>7, <2>8, <1>u, <1>q
<1>4. ASSUME NEW r \in Readers, Abandon(r) PROVE Counted'
  <2>1. Nobody \in Readings
    BY DEF Nobody, Readings
  <2>2. Reading
    BY <1>4, <2>1 DEF Abandon, Counted, Reading
  <2> QED
    BY <1>4, <2>2, <1>m, <1>u, <1>q DEF Abandon
<1>5. ASSUME NEW i \in Ids, Lapse(i) \/ Fade(i) PROVE Counted'
  <2>1. PICK row \in Memories : mem' = [mem EXCEPT ![i] = row] /\ row.uses = mem[i].uses
    <3>1. mem[i] \in Memories
      BY DEF Counted
    <3>2. CASE Lapse(i)
      <4>1. [mem[i] EXCEPT !.expiry = "past"] \in Memories
        BY <3>1 DEF Memories
      <4>2. mem' = [mem EXCEPT ![i] = [mem[i] EXCEPT !.expiry = "past"]]
        BY <3>2 DEF Lapse
      <4>3. [mem[i] EXCEPT !.expiry = "past"].uses = mem[i].uses
        BY <3>1 DEF Memories
      <4> QED
        BY <4>1, <4>2, <4>3
    <3>3. CASE Fade(i)
      <4>1. [mem[i] EXCEPT !.faded = TRUE] \in Memories
        BY <3>1 DEF Memories
      <4>2. mem' = [mem EXCEPT ![i] = [mem[i] EXCEPT !.faded = TRUE]]
        BY <3>3 DEF Fade
      <4>3. [mem[i] EXCEPT !.faded = TRUE].uses = mem[i].uses
        BY <3>1 DEF Memories
      <4> QED
        BY <4>1, <4>2, <4>3
    <3> QED
      BY <1>5, <3>2, <3>3
  <2>2. UNCHANGED <<reads, reading, upkeep>>
    BY <1>5 DEF Lapse, Fade
  <2>3. Memory
    BY <2>1, <2>2, RowStep DEF Counted, UseCountExact, Memory
  <2> QED
    BY <2>2, <2>3, <1>r, <1>u, <1>q
<1>6. ASSUME NEW w \in Workers, Start(w) \/ Seed(w) \/ Insert(w) \/ Poll(w) \/ Run(w) \/ Mark(w)
                                \/ Fail(w) \/ WorkerDies(w)
      PROVE  Counted'
  <2>1. UNCHANGED <<mem, reads, reading>>
    BY <1>6 DEF Start, Seed, Insert, Poll, Run, Mark, Fail, WorkerDies
  <2>2. \E s \in UpkeepStations : at' = [at EXCEPT ![w] = s]
    BY <1>6, <1>t, <1>s DEF Start, Seed, Insert, Poll, Run, Mark, Fail, WorkerDies
  <2>3. UNCHANGED plan \/ \E p \in Plans : plan' = [plan EXCEPT ![w] = p]
    <3>1. ExpirePlan \in Plans
      BY <1>n, <1>s DEF PlanOf
    <3> QED
      BY <1>6, <3>1, <1>n DEF Start, Seed, Insert, Poll, Run, Mark, Fail, WorkerDies
  <2>4. Sweeps
    BY <2>2, <2>3, <1>p, <1>n, WorkerTypes DEF Sweeps
  <2> QED
    BY <2>1, <2>4, <1>m, <1>r, <1>q
<1>7. ASSUME NEW w \in Workers, Sweep(w) PROVE Counted'
  <2>0. plan \in [Workers -> Plans]
    BY DEF Counted
  <2>1. UNCHANGED <<reads, reading>>
    BY <1>7, <2>0, SweepCases
  <2>2. CASE \E i \in DOMAIN plan[w] : /\ mem' = [mem EXCEPT ![i] = Done(@, plan[w][i])]
                                       /\ plan' = [plan EXCEPT ![w] = Left(@, i)]
                                       /\ UNCHANGED at
    <3>1. PICK i \in DOMAIN plan[w] : /\ mem' = [mem EXCEPT ![i] = Done(@, plan[w][i])]
                                      /\ plan' = [plan EXCEPT ![w] = Left(@, i)]
                                      /\ UNCHANGED at
      BY <2>2
    <3>2. i \in Ids /\ plan[w][i] \in Deeds /\ Left(plan[w], i) \in Plans
      BY <2>0, PlanTypes
    <3>3. mem[i] \in Memories /\ mem[i].uses = reads[i]
      BY <3>2 DEF Counted, UseCountExact
    <3>4. Done(mem[i], plan[w][i]) \in Memories /\ Done(mem[i], plan[w][i]).uses = mem[i].uses
      BY <3>2, <3>3, MemoryTypes
    <3>5. mem' = [mem EXCEPT ![i] = Done(mem[i], plan[w][i])]
      BY <3>1
    <3>6. Memory
      BY <2>1, <3>2, <3>3, <3>4, <3>5, RowStep DEF Counted, Memory
    <3>7. plan' = [plan EXCEPT ![w] = Left(plan[w], i)]
      BY <3>1
    <3>8. Sweeps
      BY <3>1, <3>2, <3>7, <1>a, <1>t, WorkerTypes DEF Sweeps
    <3> QED
      BY <2>1, <3>6, <3>8, <1>r, <1>q
  <2>3. CASE /\ at' = [at EXCEPT ![w] = "mark"]
             /\ plan' = [plan EXCEPT ![w] = Nothing]
             /\ UNCHANGED mem
    <3>1. Sweeps
      BY <2>3, <1>n, <1>t, WorkerTypes DEF Sweeps
    <3> QED
      BY <2>1, <2>3, <3>1, <1>m, <1>r, <1>q
  <2>4. CASE \E k \in 2 .. 4 : /\ at[w] = Phases[k - 1]
                               /\ at' = [at EXCEPT ![w] = Phases[k]]
                               /\ plan' = [plan EXCEPT ![w] = PlanOf(Phases[k])]
                               /\ UNCHANGED mem
    <3>1. PICK k \in 2 .. 4 : /\ at' = [at EXCEPT ![w] = Phases[k]]
                              /\ plan' = [plan EXCEPT ![w] = PlanOf(Phases[k])]
                              /\ UNCHANGED mem
      BY <2>4
    <3>2. Phases[k] \in UpkeepStations /\ PlanOf(Phases[k]) \in Plans
      BY <1>s, <1>t, <1>n
    <3>3. Sweeps
      BY <3>1, <3>2, WorkerTypes DEF Sweeps
    <3> QED
      BY <2>1, <3>1, <3>3, <1>m, <1>r, <1>q
  <2> QED
    BY <1>7, <2>0, <2>2, <2>3, <2>4, SweepCases
<1>8. ASSUME NEW i \in DOMAIN rows, FallDue(i) PROVE Counted'
  BY <1>8, <1>m, <1>r, <1>u, <1>q DEF FallDue
<1>9. ASSUME UNCHANGED upkeepVars PROVE Counted'
  BY <1>9, <1>m, <1>r, <1>u, <1>q DEF upkeepVars
<1> QED
  BY <1>1, <1>2, <1>3, <1>4, <1>5, <1>6, <1>7, <1>8, <1>9 DEF UpkeepNext, Work

\* No read goes uncounted, however many processes fetch a row before either
\* writes it, and whatever the sweep does between (reinforce computes the count
\* in the statement, memory/reinforce.py).
THEOREM EveryReadCounts == UpkeepSpec => []UseCountExact
<1>1. UpkeepInit => Counted
  BY UpkeepStart
<1>2. Counted /\ [UpkeepNext]_upkeepVars => Counted'
  BY CountedStep
<1>3. Counted => UseCountExact
  BY DEF Counted
<1> QED
  BY <1>1, <1>2, <1>3, PTL DEF UpkeepSpec

-----------------------------------------------------------------------------
(* One worker runs the schedules: what the sweep does to what can be        *)
(* recalled.                                                                *)

\* Two workers are in the sweep together (MCUpkeep_claims.cfg), each on what
\* it listed: these proofs need one.
OneWorker == \A v, w \in Workers : v = w

\* What the worker has listed nobody else takes out of recall.
PlannedActive == \A w \in Workers : \A i \in DOMAIN plan[w] : mem[i].state = "active"

\* A duplicate that is about to go has a keeper which is not.
Kept(w, i) == /\ plan[w][i].do \in {"chain", "archive"}
              /\ \E k \in Active \ DOMAIN plan[w] : mem[k].text = mem[i].text

Keeping == \A w \in Workers : at[w] = "consolidate" => \A i \in DOMAIN plan[w] : Kept(w, i)

Tombs == \A i \in Ids : mem[i].state = "dropped" => mem[i].text = NoText

Swept == PlannedActive /\ Keeping /\ Tombs

\* What every step but the worker's own UPDATEs does to the memories.
Steady ==
  \A j \in Ids :
    /\ mem[j].state \in {"active", "dropped"} =>
         mem'[j].state = mem[j].state /\ mem'[j].text = mem[j].text
    /\ mem'[j].state = "dropped" => mem[j].state = "dropped"

LEMMA SteadyRow ==
  ASSUME Counted, NEW i \in Ids, NEW row \in Memories, mem' = [mem EXCEPT ![i] = row],
         mem[i].state \in {"active", "dropped"} => row.state = mem[i].state /\ row.text = mem[i].text,
         row.state = "dropped" => mem[i].state = "dropped"
  PROVE  Steady
<1>1. \A j \in Ids : mem'[j] = IF j = i THEN row ELSE mem[j]
  BY DEF Counted
<1> QED
  BY <1>1 DEF Steady

LEMMA SteadyStep ==
  ASSUME Counted, [UpkeepNext]_upkeepVars, \A w \in Workers : ~Sweep(w)
  PROVE  Steady
<1>m. mem' = mem => Steady
  BY DEF Steady
<1>1. ASSUME NEW i \in Ids, NEW row \in Creations, Create(i, row) PROVE Steady
  <2>1. mem[i].state = "absent" /\ row \in Memories /\ row.state = "active"
    BY <1>1, MemoryTypes DEF Create, Absent
  <2>2. mem' = [mem EXCEPT ![i] = row]
    BY <1>1 DEF Create
  <2> QED
    BY <2>1, <2>2, SteadyRow
<1>2. ASSUME NEW r \in Readers, Reinforce(r) PROVE Steady
  <2> DEFINE i == reading[r].id
  <2> DEFINE row == Reinforced(mem[i], reading[r].revive, mem[i].uses + 1)
  <2>1. i \in Ids /\ reading[r].revive \in BOOLEAN
    BY <1>2 DEF Counted, Readings, Reinforce
  <2>2. mem[i] \in Memories /\ mem[i].uses + 1 \in Nat
    BY <2>1 DEF Counted, Memories
  <2>3. mem' = [mem EXCEPT ![i] = row]
    BY <1>2 DEF Reinforce
  <2> HIDE DEF i
  <2>4. /\ row \in Memories /\ row.text = mem[i].text
        /\ row.state = mem[i].state \/ (mem[i].state = "archived" /\ row.state = "active")
    <3>1. \A old \in Memories, revive \in BOOLEAN, n \in Nat :
             LET new == Reinforced(old, revive, n)
             IN  /\ new \in Memories /\ new.text = old.text
                 /\ new.state = old.state \/ (old.state = "archived" /\ new.state = "active")
      BY MemoryTypes
    <3> QED
      BY <2>1, <2>2, <3>1
  <2> HIDE DEF row
  <2> QED
    BY <2>1, <2>3, <2>4, SteadyRow
<1>3. ASSUME NEW i \in Ids, Lapse(i) \/ Fade(i) PROVE Steady
  <2>1. \A j \in Ids : mem'[j].state = mem[j].state /\ mem'[j].text = mem[j].text
    <3>1. \A j \in Ids : mem[j] \in Memories
      BY DEF Counted
    <3>2. \/ mem' = [mem EXCEPT ![i] = [mem[i] EXCEPT !.expiry = "past"]]
          \/ mem' = [mem EXCEPT ![i] = [mem[i] EXCEPT !.faded = TRUE]]
      BY <1>3 DEF Lapse, Fade
    <3>3. /\ [mem[i] EXCEPT !.expiry = "past"].state = mem[i].state
          /\ [mem[i] EXCEPT !.expiry = "past"].text = mem[i].text
          /\ [mem[i] EXCEPT !.faded = TRUE].state = mem[i].state
          /\ [mem[i] EXCEPT !.faded = TRUE].text = mem[i].text
      BY <3>1 DEF Memories
    <3> QED
      BY <3>2, <3>3 DEF Counted
  <2> QED
    BY <2>1 DEF Steady
<1>4. CASE UNCHANGED mem
  BY <1>4, <1>m
<1>5. ASSUME NEW w \in Workers, Work(w) \/ Fail(w) \/ WorkerDies(w) PROVE UNCHANGED mem
  BY <1>5 DEF Work, Start, Seed, Insert, Poll, Run, Mark, Fail, WorkerDies
<1>6. ASSUME NEW r \in Readers, Abandon(r) \/ \E i \in Ids, revive \in BOOLEAN : Fetch(r, i, revive)
      PROVE UNCHANGED mem
  BY <1>6 DEF Abandon, Fetch
<1>7. ASSUME NEW i \in DOMAIN rows, FallDue(i) PROVE UNCHANGED mem
  BY <1>7 DEF FallDue
<1>8. UNCHANGED upkeepVars => UNCHANGED mem
  BY DEF upkeepVars
<1> QED
  BY <1>1, <1>2, <1>3, <1>4, <1>5, <1>6, <1>7, <1>8 DEF UpkeepNext

\* Until the worker goes on, what it has listed stays as it was.
LEMMA SteadyKeeps ==
  ASSUME Counted, Swept, Steady, UNCHANGED <<at, plan>>
  PROVE  Swept'
<1>d. \A w \in Workers : DOMAIN plan[w] \in SUBSET Ids
  BY PlanTypes DEF Counted
<1>1. PlannedActive'
  BY <1>d DEF Swept, PlannedActive, Steady
<1>2. Tombs'
  BY DEF Swept, Tombs, Steady
<1>3. Keeping'
  <2>1. SUFFICES ASSUME NEW w \in Workers, at[w] = "consolidate", NEW i \in DOMAIN plan[w]
                 PROVE  Kept(w, i)'
    BY DEF Keeping
  <2>2. PICK k \in Active \ DOMAIN plan[w] : mem[k].text = mem[i].text
    BY <2>1 DEF Swept, Keeping, Kept
  <2>3. mem[i].state = "active" /\ mem[k].state = "active" /\ i \in Ids /\ k \in Ids
    BY <1>d, <2>2 DEF Swept, PlannedActive, Active
  <2>4. k \in Active' /\ mem'[k].text = mem'[i].text
    BY <2>2, <2>3 DEF Steady, Active
  <2>5. plan[w][i].do \in {"chain", "archive"}
    BY <2>1 DEF Swept, Keeping, Kept
  <2> QED
    BY <2>2, <2>4, <2>5 DEF Kept
<1> QED
  BY <1>1, <1>2, <1>3 DEF Swept

\* The duplicates of a plan are chained to a row that is not in the plan.
LEMMA ConsolidateKeeps ==
  ASSUME mem \in [Ids -> Memories]
  PROVE  \A i \in DOMAIN ConsolidatePlan :
           /\ ConsolidatePlan[i].do = "chain"
           /\ \E k \in Active \ DOMAIN ConsolidatePlan : mem[k].text = mem[i].text
<1> DEFINE D == {j \in Active : /\ mem[j].class # "core" /\ mem[j].text # NoText
                               /\ j # Min(Alike(j))}
<1>1. DOMAIN ConsolidatePlan = D /\ \A i \in D : ConsolidatePlan[i].do = "chain"
  BY DEF ConsolidatePlan, Deed
<1>2. ASSUME NEW i \in D PROVE \E k \in Active \ D : mem[k].text = mem[i].text
  <2> DEFINE k == Min(Alike(i))
  <2>1. Alike(i) \in SUBSET Nat /\ Alike(i) # {}
    BY UpkeepAssumption DEF Alike, Active
  <2>2. k \in Alike(i)
    BY <2>1, MinIsThere
  <2>3. k \in Active /\ mem[k].text = mem[i].text
    BY <2>2 DEF Alike
  <2>4. Alike(k) = Alike(i)
    BY <2>3 DEF Alike
  <2>5. k = Min(Alike(k))
    BY <2>4
  <2> HIDE DEF k
  <2>6. k \notin D
    BY <2>5
  <2> QED
    BY <2>3, <2>6
<1> QED
  BY <1>1, <1>2

\* A row of a plan is met by the sweep, which goes on with those that are left.
LEMMA SweptRow ==
  ASSUME OneWorker, Counted, Swept, NEW w \in Workers, NEW i \in DOMAIN plan[w],
         mem' = [mem EXCEPT ![i] = Done(@, plan[w][i])],
         plan' = [plan EXCEPT ![w] = Left(@, i)], UNCHANGED at
  PROVE  /\ Swept'
         /\ at[w] = "consolidate" => \A t \in Texts : Recalled(t) => Recalled(t)'
         /\ \A j \in Ids : mem[j].state = "dropped" => mem'[j] = mem[j]
<1> DEFINE deed == plan[w][i]
<1> DEFINE row  == Done(mem[i], deed)
<1>1. /\ plan[w] \in Plans /\ DOMAIN plan[w] \in SUBSET Ids
      /\ \A j \in DOMAIN plan[w] : plan[w][j] \in Deeds
  BY PlanTypes DEF Counted
<1>2. i \in Ids /\ mem[i] \in Memories /\ mem[i].state = "active" /\ deed \in Deeds
  BY <1>1 DEF Counted, Swept, PlannedActive
<1>3. /\ row \in Memories
      /\ row.state # mem[i].state => deed.do \in {"drop", "archive"}
      /\ row.state = "dropped" => row.text = NoText
      /\ deed.do # "drop" => row.text = mem[i].text
      /\ deed.do \in {"chain", "promote"} => row.state = mem[i].state
  BY <1>2, MemoryTypes
<1>4. \A j \in Ids : mem'[j] = IF j = i THEN row ELSE mem[j]
  BY <1>2 DEF Counted
<1>5. /\ DOMAIN plan'[w] = IF deed.do = "chain" THEN DOMAIN plan[w] ELSE DOMAIN plan[w] \ {i}
      /\ \A j \in DOMAIN plan'[w] : j # i => plan'[w][j] = plan[w][j]
      /\ deed.do = "chain" => plan'[w][i].do = "archive"
  <2>1. plan'[w] = Left(plan[w], i)
    BY DEF Counted
  <2>2. PICK D \in SUBSET Ids : plan[w] \in [D -> Deeds]
    BY <1>1 DEF Plans
  <2>3. CASE deed.do = "chain"
    <3>1. plan'[w] = [plan[w] EXCEPT ![i] = Deed("archive", 0)]
      BY <2>1, <2>3 DEF Left
    <3> QED
      BY <2>2, <2>3, <3>1 DEF Deed
  <2>4. CASE deed.do # "chain"
    <3>1. plan'[w] = [j \in DOMAIN plan[w] \ {i} |-> plan[w][j]]
      BY <2>1, <2>4 DEF Left
    <3> QED
      BY <2>4, <3>1
  <2> QED
    BY <2>3, <2>4
<1>w. \A v \in Workers : v = w
  BY DEF OneWorker
<1> HIDE DEF row, deed
<1>6. PlannedActive'
  <2>1. SUFFICES ASSUME NEW j \in DOMAIN plan'[w] PROVE mem'[j].state = "active"
    BY <1>w DEF PlannedActive
  <2>2. j \in DOMAIN plan[w] /\ j \in Ids /\ mem[j].state = "active"
    BY <1>1, <1>5 DEF Swept, PlannedActive
  <2>3. j = i => deed.do = "chain"
    BY <1>5
  <2> QED
    BY <1>2, <1>3, <1>4, <2>2, <2>3
<1>7. Tombs'
  BY <1>3, <1>4 DEF Swept, Tombs
<1>8. \A j \in Ids : mem[j].state = "dropped" => mem'[j] = mem[j]
  BY <1>2, <1>4
<1>9. CASE at[w] # "consolidate"
  <2>1. Keeping'
    BY <1>9, <1>w DEF Keeping
  <2> QED
    BY <1>6, <1>7, <1>8, <1>9, <2>1 DEF Swept
<1>10. CASE at[w] = "consolidate"
  <2>1. /\ \A j \in DOMAIN plan[w] : plan[w][j].do \in {"chain", "archive"}
        /\ \A j \in DOMAIN plan[w] : \E k \in Active \ DOMAIN plan[w] : mem[k].text = mem[j].text
    BY <1>10 DEF Swept, Keeping, Kept
  <2>2. \A j \in Ids : mem'[j].text = mem[j].text
    BY <1>3, <1>4, <2>1 DEF deed
  <2>3. \A k \in Active \ DOMAIN plan[w] : k \in Ids /\ k \in Active' /\ k \notin DOMAIN plan'[w]
    BY <1>4, <1>5 DEF Active
  <2>4. Keeping'
    <3>1. SUFFICES ASSUME NEW j \in DOMAIN plan'[w] PROVE Kept(w, j)'
      BY <1>w DEF Keeping
    <3>2. j \in DOMAIN plan[w] /\ j \in Ids
      BY <1>1, <1>5
    <3>3. plan'[w][j].do \in {"chain", "archive"}
      BY <1>5, <2>1, <3>2 DEF deed
    <3>4. PICK k \in Active \ DOMAIN plan[w] : mem[k].text = mem[j].text
      BY <2>1, <3>2
    <3>5. k \in Active' \ DOMAIN plan'[w] /\ mem'[k].text = mem'[j].text
      BY <2>2, <2>3, <3>2, <3>4
    <3> QED
      BY <3>3, <3>5 DEF Kept
  <2>5. ASSUME NEW t \in Texts, Recalled(t) PROVE Recalled(t)'
    <3>1. PICK j \in Active : mem[j].text = t
      BY <2>5 DEF Recalled
    <3>2. PICK k \in Active : mem[k].text = t /\ k # i
      <4>1. CASE j = i
        BY <2>1, <3>1, <4>1
      <4>2. CASE j # i
        BY <3>1, <4>2
      <4> QED
        BY <4>1, <4>2
    <3>3. k \in Active' /\ mem'[k].text = t
      BY <1>4, <3>2 DEF Active
    <3> QED
      BY <3>3 DEF Recalled
  <2> QED
    BY <1>6, <1>7, <1>8, <2>4, <2>5 DEF Swept
<1> QED
  BY <1>9, <1>10

LEMMA SweptStep ==
  ASSUME OneWorker, Counted, Swept, [UpkeepNext]_upkeepVars
  PROVE  Swept'
<1>w. \A v, w \in Workers : v = w
  BY DEF OneWorker
<1>s. /\ ToSet(Phases) = {"expire", "archive", "promote", "consolidate"}
      /\ \A k \in 2 .. 4 : Phases[k] \in ToSet(Phases)
      /\ \A k \in 2 .. 4 : Phases[k] = "consolidate" => PlanOf(Phases[k]) = ConsolidatePlan
  BY DEF ToSet, Phases, PlanOf
<1>n. DOMAIN Nothing = {}
  BY PlanTypes
<1>t. UNCHANGED mem => Tombs'
  BY DEF Swept, Tombs
\* The worker begins a phase, or leaves the sweep: the rows are as it lists them.
<1>p. ASSUME NEW w \in Workers, NEW p \in Plans, NEW s \in UpkeepStations, UNCHANGED mem,
             plan' = [plan EXCEPT ![w] = p], at' = [at EXCEPT ![w] = s],
             DOMAIN p \subseteq Active, s = "consolidate" => p = ConsolidatePlan
      PROVE  Swept'
  <2>1. plan'[w] = p /\ at'[w] = s
    BY <1>p DEF Counted
  <2>2. PlannedActive'
    BY <1>p, <1>w, <2>1 DEF PlannedActive, Active
  <2>3. Keeping'
    <3>1. SUFFICES ASSUME s = "consolidate", NEW i \in DOMAIN p PROVE Kept(w, i)'
      BY <1>w, <2>1 DEF Keeping
    <3>2. p = ConsolidatePlan
      BY <1>p, <3>1
    <3>3. p[i].do = "chain" /\ \E k \in Active \ DOMAIN p : mem[k].text = mem[i].text
      BY <3>2, ConsolidateKeeps DEF Counted
    <3>4. Active' = Active
      BY <1>p DEF Active
    <3> QED
      BY <1>p, <2>1, <3>3, <3>4 DEF Kept
  <2> QED
    BY <1>p, <1>t, <2>2, <2>3 DEF Swept
<1>o. /\ {"down", "seed", "insert", "poll", "run", "mark"} \subseteq UpkeepStations
      /\ ToSet(Phases) \subseteq UpkeepStations
  BY DEF UpkeepStations
<1>l. \A phase \in ToSet(Phases) : PlanOf(phase) \in Plans /\ DOMAIN PlanOf(phase) \subseteq Active
  BY PlanOfTypes DEF Counted
<1>1. CASE \E w \in Workers : Sweep(w)
  <2>1. PICK w \in Workers : Sweep(w)
    BY <1>1
  <2>2. plan \in [Workers -> Plans]
    BY DEF Counted
  <2>3. CASE \E i \in DOMAIN plan[w] : /\ mem' = [mem EXCEPT ![i] = Done(@, plan[w][i])]
                                       /\ plan' = [plan EXCEPT ![w] = Left(@, i)]
                                       /\ UNCHANGED at
    BY <2>3, SweptRow
  <2>4. CASE /\ at' = [at EXCEPT ![w] = "mark"]
             /\ plan' = [plan EXCEPT ![w] = Nothing]
             /\ UNCHANGED mem
    BY <2>4, <1>p, <1>o, <1>n, PlanTypes
  <2>5. CASE \E k \in 2 .. 4 : /\ at[w] = Phases[k - 1]
                               /\ at' = [at EXCEPT ![w] = Phases[k]]
                               /\ plan' = [plan EXCEPT ![w] = PlanOf(Phases[k])]
                               /\ UNCHANGED mem
    <3>1. PICK k \in 2 .. 4 : /\ at' = [at EXCEPT ![w] = Phases[k]]
                              /\ plan' = [plan EXCEPT ![w] = PlanOf(Phases[k])]
                              /\ UNCHANGED mem
      BY <2>5
    <3> DEFINE p == PlanOf(Phases[k])
    <3> DEFINE s == Phases[k]
    <3>2. p \in Plans /\ DOMAIN p \subseteq Active /\ s \in UpkeepStations
      BY <1>s, <1>l, <1>o
    <3>3. s = "consolidate" => p = ConsolidatePlan
      BY <1>s
    <3>4. plan' = [plan EXCEPT ![w] = p] /\ at' = [at EXCEPT ![w] = s] /\ UNCHANGED mem
      BY <3>1
    <3> HIDE DEF p, s
    <3> QED
      BY <3>2, <3>3, <3>4, <1>p
  <2> QED
    BY <2>1, <2>2, <2>3, <2>4, <2>5, SweepCases
<1>2. CASE \E w \in Workers : Start(w) \/ Seed(w) \/ Insert(w) \/ Poll(w) \/ Run(w) \/ Mark(w)
                              \/ Fail(w) \/ WorkerDies(w)
  <2>1. PICK w \in Workers : Start(w) \/ Seed(w) \/ Insert(w) \/ Poll(w) \/ Run(w) \/ Mark(w)
                             \/ Fail(w) \/ WorkerDies(w)
    BY <1>2
  <2>2. UNCHANGED mem
    BY <2>1 DEF Start, Seed, Insert, Poll, Run, Mark, Fail, WorkerDies
  <2>3. PICK s \in UpkeepStations : at' = [at EXCEPT ![w] = s] /\ s # "consolidate"
    BY <2>1, <1>o, <1>s DEF Start, Seed, Insert, Poll, Run, Mark, Fail, WorkerDies
  <2>4. CASE UNCHANGED plan
    <3>1. PlannedActive'
      BY <2>2, <2>4 DEF Swept, PlannedActive
    <3>2. at'[w] # "consolidate"
      BY <2>3 DEF Counted
    <3>3. Keeping'
      BY <1>w, <3>2 DEF Keeping
    <3> QED
      BY <1>t, <2>2, <3>1, <3>3 DEF Swept
  <2>5. CASE \E p \in Plans : plan' = [plan EXCEPT ![w] = p] /\ DOMAIN p \subseteq Active
    BY <2>2, <2>3, <2>5, <1>p
  <2>6. UNCHANGED plan \/ \E p \in Plans : plan' = [plan EXCEPT ![w] = p] /\ DOMAIN p \subseteq Active
    <3>1. ExpirePlan \in Plans /\ DOMAIN ExpirePlan \subseteq Active
      BY <1>l, <1>s DEF PlanOf
    <3>2. Nothing \in Plans /\ DOMAIN Nothing \subseteq Active
      BY <1>n, PlanTypes
    <3> QED
      BY <2>1, <3>1, <3>2 DEF Start, Seed, Insert, Poll, Run, Mark, Fail, WorkerDies
  <2> QED
    BY <2>4, <2>5, <2>6
<1>3. CASE UNCHANGED <<at, plan>> /\ \A w \in Workers : ~Sweep(w)
  BY <1>3, SteadyStep, SteadyKeeps
<1>4. \/ UNCHANGED <<at, plan>> /\ \A w \in Workers : ~Sweep(w)
      \/ \E w \in Workers : Work(w) \/ Fail(w) \/ WorkerDies(w)
  <2>1. ASSUME NEW i \in Ids, NEW row \in Creations, Create(i, row) PROVE UNCHANGED upkeep
    BY <2>1 DEF Create
  <2>2. ASSUME NEW r \in Readers, Reinforce(r) \/ Abandon(r)
               \/ \E i \in Ids, revive \in BOOLEAN : Fetch(r, i, revive)
        PROVE UNCHANGED upkeep
    BY <2>2 DEF Reinforce, Abandon, Fetch
  <2>3. ASSUME NEW i \in Ids, Lapse(i) \/ Fade(i) PROVE UNCHANGED upkeep
    BY <2>3 DEF Lapse, Fade
  <2>4. ASSUME NEW i \in DOMAIN rows, FallDue(i) PROVE UNCHANGED upkeep
    BY <2>4 DEF FallDue
  <2>5. UNCHANGED upkeepVars => UNCHANGED upkeep
    BY DEF upkeepVars
  <2>6. UNCHANGED upkeep \/ \E w \in Workers : Work(w) \/ Fail(w) \/ WorkerDies(w)
    BY <2>1, <2>2, <2>3, <2>4, <2>5 DEF UpkeepNext
  <2> QED
    BY <2>6 DEF upkeep, Work
<1> QED
  BY <1>1, <1>2, <1>3, <1>4 DEF Work

LEMMA SweptStart == UpkeepInit => Counted /\ Swept
<1> SUFFICES ASSUME UpkeepInit PROVE Swept
  BY UpkeepStart
<1>1. \A w \in Workers : DOMAIN plan[w] = {}
  BY UpkeepStart, PlanTypes
<1>2. \A i \in Ids : mem[i].state # "dropped"
  <2>1. \A row \in {Absent} \cup Creations : row.state # "dropped"
    BY MemoryTypes DEF Absent
  <2> QED
    BY <2>1 DEF UpkeepInit
<1> QED
  BY <1>1, <1>2 DEF Swept, PlannedActive, Keeping, Tombs

\* Whatever the worker does in the sweep, it does to a row that is not a tombstone.
LEMMA SweepOrSteady ==
  ASSUME OneWorker, Counted, Swept, [UpkeepNext]_upkeepVars
  PROVE  \/ Steady
         \/ /\ \A w \in Workers : at[w] = "consolidate" =>
                 \A t \in Texts : Recalled(t) => Recalled(t)'
            /\ \A j \in Ids : mem[j].state = "dropped" => mem'[j] = mem[j]
<1>1. CASE \A w \in Workers : ~Sweep(w)
  BY <1>1, SteadyStep
<1>2. ASSUME NEW w \in Workers, Sweep(w)
      PROVE  \/ Steady
             \/ /\ \A v \in Workers : at[v] = "consolidate" =>
                     \A t \in Texts : Recalled(t) => Recalled(t)'
                /\ \A j \in Ids : mem[j].state = "dropped" => mem'[j] = mem[j]
  <2>1. plan \in [Workers -> Plans]
    BY DEF Counted
  <2>2. \/ UNCHANGED mem
        \/ \E i \in DOMAIN plan[w] : /\ mem' = [mem EXCEPT ![i] = Done(@, plan[w][i])]
                                     /\ plan' = [plan EXCEPT ![w] = Left(@, i)]
                                     /\ UNCHANGED at
    BY <1>2, <2>1, SweepCases
  <2>3. CASE UNCHANGED mem
    BY <2>3 DEF Steady
  <2>4. \A v \in Workers : v = w
    BY DEF OneWorker
  <2> QED
    BY <2>2, <2>3, <2>4, SweptRow
<1> QED
  BY <1>1, <1>2

\* Collapsing duplicates takes no content out of recall, wherever the sweep of
\* the one worker is killed and begun again (memory/sweep.py, phase 4).
THEOREM ConsolidationKeepsRecall ==
  ASSUME OneWorker PROVE UpkeepSpec => RecallKeepsText
<1> DEFINE InRecall == \A w \in Workers : at[w] = "consolidate" =>
                         \A t \in Texts : Recalled(t) => Recalled(t)'
<1>1. Counted /\ Swept /\ [UpkeepNext]_upkeepVars => (Counted /\ Swept)'
  BY OneWorker, CountedStep, SweptStep
<1>2. Counted /\ Swept /\ [UpkeepNext]_upkeepVars => InRecall
  <2>1. ASSUME Steady PROVE InRecall
    BY <2>1 DEF Recalled, Active, Steady
  <2> QED
    BY <2>1, OneWorker, SweepOrSteady
<1> QED
  BY SweptStart, <1>1, <1>2, PTL DEF UpkeepSpec, RecallKeepsText

\* A dropped memory stays a tombstone without its content: no reader that
\* fetched it before, no library.read and no later phase brings it back.
THEOREM TombstonesAreFinal ==
  ASSUME OneWorker PROVE UpkeepSpec => TombstonesStay
<1> DEFINE Final == \A i \in Ids : mem[i].state = "dropped" =>
                      mem'[i].state = "dropped" /\ mem'[i].text = NoText
<1>1. Counted /\ Swept /\ [UpkeepNext]_upkeepVars => (Counted /\ Swept)'
  BY OneWorker, CountedStep, SweptStep
<1>2. Counted /\ Swept /\ [UpkeepNext]_upkeepVars => Final
  <2>1. ASSUME Swept, Steady PROVE Final
    BY <2>1 DEF Steady, Swept, Tombs
  <2>2. ASSUME Swept, \A j \in Ids : mem[j].state = "dropped" => mem'[j] = mem[j] PROVE Final
    BY <2>2 DEF Swept, Tombs
  <2> QED
    BY <2>1, <2>2, OneWorker, SweepOrSteady
<1> QED
  BY SweptStart, <1>1, <1>2, PTL DEF UpkeepSpec, TombstonesStay

-----------------------------------------------------------------------------
(* Any number of workers seed the schedules.                               *)

ScheduleRows == [kind : ToSet(Kinds), due : BOOLEAN]

\* The workers that have found no row of a kind and are about to insert one.
Seeding(kind) == {w \in Workers : at[w] = "insert" /\ Kinds[Head(todo[w])] = kind}

Scheduled == /\ rows \in Seq(ScheduleRows) /\ DOMAIN todo = Workers
             /\ \A w \in Workers : at[w] = "insert" => Head(todo[w]) \in DOMAIN Kinds
             /\ \A kind \in ToSet(Kinds) :
                  Cardinality(RowsOf(kind)) + Cardinality(Seeding(kind)) <= Cardinality(Workers)

LEMMA ScheduleSizes ==
  ASSUME rows \in Seq(ScheduleRows), NEW kind
  PROVE  /\ IsFiniteSet(Workers) /\ Cardinality(Workers) \in Nat
         /\ IsFiniteSet(RowsOf(kind)) /\ Cardinality(RowsOf(kind)) \in Nat
         /\ IsFiniteSet(Seeding(kind)) /\ Cardinality(Seeding(kind)) \in Nat
         /\ \A S \in SUBSET Workers : Cardinality(S) \in Nat /\ Cardinality(S) <= Cardinality(Workers)
<1>1. IsFiniteSet(Workers)
  BY UpkeepAssumption
<1>2. \A S \in SUBSET Workers : /\ IsFiniteSet(S) /\ Cardinality(S) \in Nat
                                /\ Cardinality(S) <= Cardinality(Workers)
  BY <1>1, FS_Subset, FS_CardinalityType
<1>3. IsFiniteSet(DOMAIN rows)
  <2>1. DOMAIN rows = 1 .. Len(rows) /\ Len(rows) \in Nat
    OBVIOUS
  <2> QED
    BY <2>1, FS_Interval
<1>4. RowsOf(kind) \subseteq DOMAIN rows /\ Seeding(kind) \in SUBSET Workers
  BY DEF RowsOf, Seeding
<1> QED
  BY <1>1, <1>2, <1>3, <1>4, FS_Subset, FS_CardinalityType

\* Steps that create no row, and after which no more workers are about to.
LEMMA SameKinds ==
  ASSUME Scheduled, rows' \in Seq(ScheduleRows), DOMAIN rows' = DOMAIN rows, DOMAIN todo' = Workers,
         \A i \in DOMAIN rows : rows'[i].kind = rows[i].kind,
         \A w \in Workers : at'[w] = "insert" => at[w] = "insert" /\ todo'[w] = todo[w]
  PROVE  Scheduled'
<1>1. \A w \in Workers : at'[w] = "insert" => Head(todo'[w]) \in DOMAIN Kinds
  BY DEF Scheduled
<1>2. ASSUME NEW kind \in ToSet(Kinds)
      PROVE  Cardinality(RowsOf(kind)') + Cardinality(Seeding(kind)') <= Cardinality(Workers)
  <2>1. RowsOf(kind)' = RowsOf(kind)
    BY DEF RowsOf
  <2>2. Seeding(kind)' \subseteq Seeding(kind)
    BY DEF Seeding
  <2>3. rows \in Seq(ScheduleRows)
    BY DEF Scheduled
  <2>4. /\ Cardinality(Seeding(kind)') <= Cardinality(Seeding(kind))
        /\ Cardinality(Seeding(kind)') \in Nat /\ Cardinality(Seeding(kind)) \in Nat
        /\ Cardinality(RowsOf(kind)) \in Nat /\ Cardinality(Workers) \in Nat
    BY <2>2, <2>3, ScheduleSizes, FS_Subset, FS_CardinalityType
  <2>5. Cardinality(RowsOf(kind)) + Cardinality(Seeding(kind)) <= Cardinality(Workers)
    BY DEF Scheduled
  <2> QED
    BY <2>1, <2>4, <2>5
<1> QED
  BY <1>1, <1>2 DEF Scheduled

LEMMA SetDue ==
  ASSUME rows \in Seq(ScheduleRows), NEW h, NEW b \in BOOLEAN,
         rows' = [rows EXCEPT ![h].due = b]
  PROVE  /\ rows' \in Seq(ScheduleRows) /\ DOMAIN rows' = DOMAIN rows
         /\ \A i \in DOMAIN rows : rows'[i].kind = rows[i].kind
<1>1. Len(rows) \in Nat /\ DOMAIN rows = 1 .. Len(rows) /\ rows \in [1 .. Len(rows) -> ScheduleRows]
  OBVIOUS
<1>2. \A row \in ScheduleRows : [row EXCEPT !.due = b] \in ScheduleRows
                                /\ [row EXCEPT !.due = b].kind = row.kind
  BY DEF ScheduleRows
<1>3. rows' \in [1 .. Len(rows) -> ScheduleRows] /\ \A i \in DOMAIN rows : rows'[i].kind = rows[i].kind
  BY <1>1, <1>2
<1>4. rows' \in Seq(ScheduleRows)
  BY <1>1, <1>3
<1> QED
  BY <1>1, <1>3, <1>4

\* A worker that finds no row of a kind: until then nobody has inserted one, so
\* those about to are workers, whoever they are.
LEMMA SeedKeeps ==
  ASSUME Counted, Scheduled, NEW w \in Workers, Seed(w), at'[w] = "insert"
  PROVE  Scheduled'
<1>1. /\ rows' = rows /\ rows \in Seq(ScheduleRows) /\ DOMAIN todo = Workers /\ DOMAIN todo' = Workers
      /\ at[w] = "seed" /\ \A v \in Workers : v # w => at'[v] = at[v] /\ todo'[v] = todo[v]
  BY DEF Seed, Scheduled, Counted
<1>2. Missing(Kinds) # {}
  BY DEF Seed, Counted
<1>3. Missing(Kinds) \in SUBSET Nat
  BY DEF Missing, Kinds
<1> DEFINE n == Min(Missing(Kinds))
<1>4. n \in Missing(Kinds)
  BY <1>2, <1>3, MinIsThere
<1>5. todo'[w] = <<n>>
  BY <1>1, <1>2 DEF Seed
<1> HIDE DEF n
<1>6. Head(todo'[w]) = n /\ n \in DOMAIN Kinds /\ \A i \in DOMAIN rows : rows[i].kind # Kinds[n]
  BY <1>4, <1>5 DEF Missing
<1>7. \A v \in Workers : at'[v] = "insert" => Head(todo'[v]) \in DOMAIN Kinds
  BY <1>1, <1>6 DEF Scheduled
<1>8. ASSUME NEW kind \in ToSet(Kinds)
      PROVE  Cardinality(RowsOf(kind)') + Cardinality(Seeding(kind)') <= Cardinality(Workers)
  <2>1. RowsOf(kind)' = RowsOf(kind)
    BY <1>1 DEF RowsOf
  <2>2. CASE kind = Kinds[n]
    <3>1. RowsOf(kind) = {}
      BY <1>6, <2>2 DEF RowsOf
    <3>2. Seeding(kind)' \in SUBSET Workers
      BY DEF Seeding
    <3>3. Cardinality(RowsOf(kind)) = 0
      BY <3>1, FS_EmptySet
    <3> QED
      BY <1>1, <2>1, <3>2, <3>3, ScheduleSizes
  <2>3. CASE kind # Kinds[n]
    <3>1. Seeding(kind)' = Seeding(kind)
      BY <1>1, <1>6, <2>3 DEF Seeding
    <3> QED
      BY <2>1, <3>1 DEF Scheduled
  <2> QED
    BY <2>2, <2>3
<1> QED
  BY <1>1, <1>7, <1>8 DEF Scheduled

\* The row takes the place of the worker that was about to insert it.
LEMMA InsertKeeps ==
  ASSUME Counted, Scheduled, NEW w \in Workers, Insert(w)
  PROVE  Scheduled'
<1> DEFINE n == Head(todo[w])
           row == [kind |-> Kinds[n], due |-> TRUE]
<1>1. /\ n \in DOMAIN Kinds /\ rows \in Seq(ScheduleRows) /\ DOMAIN todo = Workers /\ DOMAIN todo' = Workers
      /\ at[w] = "insert" /\ at'[w] = "seed"
      /\ \A v \in Workers : v # w => at'[v] = at[v] /\ todo'[v] = todo[v]
  BY DEF Insert, Scheduled, Counted
<1>2. rows' = Append(rows, row)
  BY DEF Insert
<1> HIDE DEF n
<1>3. row \in ScheduleRows /\ row.kind = Kinds[n]
  BY <1>1 DEF ScheduleRows, ToSet
<1> HIDE DEF row
<1>4. /\ rows' \in Seq(ScheduleRows) /\ Len(rows) \in Nat
      /\ DOMAIN rows = 1 .. Len(rows) /\ DOMAIN rows' = 1 .. Len(rows) + 1
      /\ rows'[Len(rows) + 1] = row /\ \A i \in 1 .. Len(rows) : rows'[i] = rows[i]
  BY <1>1, <1>2, <1>3
<1>5. \A v \in Workers : at'[v] = "insert" => Head(todo'[v]) \in DOMAIN Kinds
  BY <1>1 DEF Scheduled
<1>6. ASSUME NEW kind \in ToSet(Kinds)
      PROVE  Cardinality(RowsOf(kind)') + Cardinality(Seeding(kind)') <= Cardinality(Workers)
  <2>0. /\ IsFiniteSet(RowsOf(kind)) /\ Cardinality(RowsOf(kind)) \in Nat
        /\ IsFiniteSet(Seeding(kind)) /\ Cardinality(Seeding(kind)) \in Nat /\ Cardinality(Workers) \in Nat
        /\ Cardinality(RowsOf(kind)) + Cardinality(Seeding(kind)) <= Cardinality(Workers)
    BY <1>1, ScheduleSizes DEF Scheduled
  <2>1. CASE kind = Kinds[n]
    <3>1. RowsOf(kind)' = RowsOf(kind) \cup {Len(rows) + 1} /\ Len(rows) + 1 \notin RowsOf(kind)
      BY <1>3, <1>4, <2>1 DEF RowsOf
    <3>2. Seeding(kind)' = Seeding(kind) \ {w} /\ w \in Seeding(kind)
      BY <1>1, <2>1 DEF Seeding, n
    <3>3. Cardinality(RowsOf(kind)') = Cardinality(RowsOf(kind)) + 1
      BY <2>0, <3>1, FS_AddElement
    <3>4. Cardinality(Seeding(kind)') = Cardinality(Seeding(kind)) - 1
      BY <2>0, <3>2, FS_RemoveElement
    <3> QED
      BY <2>0, <3>3, <3>4
  <2>2. CASE kind # Kinds[n]
    <3>1. RowsOf(kind)' = RowsOf(kind)
      BY <1>3, <1>4, <2>2 DEF RowsOf
    <3>2. Seeding(kind)' = Seeding(kind)
      BY <1>1, <2>2 DEF Seeding, n
    <3> QED
      BY <2>0, <3>1, <3>2
  <2> QED
    BY <2>1, <2>2
<1> QED
  BY <1>1, <1>4, <1>5, <1>6 DEF Scheduled

LEMMA ScheduledStep ==
  ASSUME Counted, Scheduled, [UpkeepNext]_upkeepVars
  PROVE  Scheduled'
<1>d. DOMAIN todo = Workers /\ rows \in Seq(ScheduleRows) /\ at \in [Workers -> UpkeepStations]
      /\ plan \in [Workers -> Plans]
  BY DEF Scheduled, Counted
<1>u. ASSUME NEW w \in Workers, rows' = rows, DOMAIN todo' = Workers, at'[w] # "insert",
             \A v \in Workers : v # w => at'[v] = at[v] /\ todo'[v] = todo[v]
      PROVE  Scheduled'
  BY <1>d, <1>u, SameKinds
<1>1. ASSUME NEW w \in Workers, Seed(w) PROVE Scheduled'
  <2>1. CASE at'[w] = "insert"
    BY <1>1, <2>1, SeedKeeps
  <2>2. CASE at'[w] # "insert"
    <3>1. rows' = rows /\ DOMAIN todo' = Workers
          /\ \A v \in Workers : v # w => at'[v] = at[v] /\ todo'[v] = todo[v]
      BY <1>1, <1>d DEF Seed
    <3> QED
      BY <1>u, <2>2, <3>1
  <2> QED
    BY <2>1, <2>2
<1>2. ASSUME NEW w \in Workers, Insert(w) PROVE Scheduled'
  BY <1>2, InsertKeeps
<1>3. ASSUME NEW w \in Workers, Start(w) \/ Poll(w) \/ Run(w) \/ Fail(w) \/ WorkerDies(w)
      PROVE  Scheduled'
  <2>1. rows' = rows /\ DOMAIN todo' = Workers /\ at'[w] # "insert"
    BY <1>3, <1>d DEF Start, Poll, Run, Fail, WorkerDies
  <2>2. \A v \in Workers : v # w => at'[v] = at[v] /\ todo'[v] = todo[v]
    BY <1>3, <1>d DEF Start, Poll, Run, Fail, WorkerDies
  <2> QED
    BY <1>u, <2>1, <2>2
<1>4. ASSUME NEW w \in Workers, Mark(w) PROVE Scheduled'
  <2>1. at'[w] # "insert" /\ DOMAIN todo' = Workers
        /\ \A v \in Workers : v # w => at'[v] = at[v] /\ todo'[v] = todo[v]
    BY <1>4, <1>d DEF Mark
  <2>2. rows' = [rows EXCEPT ![Head(todo[w])].due = FALSE]
    BY <1>4 DEF Mark
  <2>3. /\ rows' \in Seq(ScheduleRows) /\ DOMAIN rows' = DOMAIN rows
        /\ \A i \in DOMAIN rows : rows'[i].kind = rows[i].kind
    BY <1>d, <2>2, SetDue
  <2> QED
    BY <2>1, <2>3, SameKinds
<1>5. ASSUME NEW w \in Workers, Sweep(w) PROVE Scheduled'
  <2>1. rows' = rows /\ todo' = todo
    BY <1>5 DEF Sweep
  <2>2. \/ UNCHANGED at
        \/ at' = [at EXCEPT ![w] = "mark"]
        \/ \E k \in 2 .. 4 : at' = [at EXCEPT ![w] = Phases[k]]
    BY <1>5, <1>d, SweepCases
  <2>3. \A k \in 2 .. 4 : Phases[k] # "insert"
    BY DEF Phases
  <2>4. \A v \in Workers : at'[v] = "insert" => at[v] = "insert"
    BY <1>d, <2>2, <2>3
  <2> QED
    BY <1>d, <2>1, <2>4, SameKinds
<1>6. ASSUME NEW i \in DOMAIN rows, FallDue(i) PROVE Scheduled'
  <2>1. at' = at /\ todo' = todo /\ rows' = [rows EXCEPT ![i].due = TRUE]
    BY <1>6 DEF FallDue, upkeep
  <2>2. /\ rows' \in Seq(ScheduleRows) /\ DOMAIN rows' = DOMAIN rows
        /\ \A j \in DOMAIN rows : rows'[j].kind = rows[j].kind
    BY <1>d, <2>1, SetDue
  <2> QED
    BY <1>d, <2>1, <2>2, SameKinds
<1>7. CASE UNCHANGED <<rows, upkeep>>
  BY <1>7, <1>d, SameKinds DEF upkeep
<1>8. ASSUME NEW i \in Ids, NEW row \in Creations, Create(i, row) PROVE UNCHANGED <<rows, upkeep>>
  BY <1>8 DEF Create
<1>9. ASSUME NEW r \in Readers, Reinforce(r) \/ Abandon(r)
             \/ \E i \in Ids, revive \in BOOLEAN : Fetch(r, i, revive)
      PROVE UNCHANGED <<rows, upkeep>>
  BY <1>9 DEF Reinforce, Abandon, Fetch
<1>10. ASSUME NEW i \in Ids, Lapse(i) \/ Fade(i) PROVE UNCHANGED <<rows, upkeep>>
  BY <1>10 DEF Lapse, Fade
<1>11. UNCHANGED upkeepVars => UNCHANGED <<rows, upkeep>>
  BY DEF upkeepVars
<1> QED
  BY <1>1, <1>2, <1>3, <1>4, <1>5, <1>6, <1>7, <1>8, <1>9, <1>10, <1>11 DEF UpkeepNext, Work

\* However many workers look for the row of a schedule before one of them has
\* inserted it, and however often they are killed and started again, it gets one
\* row for each of them at most (ensure_default_schedules).
THEOREM SeedingIsBounded == UpkeepSpec => []OneRowPerWorker
<1>1. UpkeepInit => Counted /\ Scheduled
  <2>1. SUFFICES ASSUME UpkeepInit PROVE Scheduled
    BY UpkeepStart
  <2>2. rows = <<>> /\ at = [w \in Workers |-> "down"] /\ DOMAIN todo = Workers
    BY <2>1 DEF UpkeepInit
  <2>3. rows \in Seq(ScheduleRows) /\ DOMAIN rows = {}
    BY <2>2
  <2>4. \A w \in Workers : at[w] # "insert"
    BY <2>2
  <2>5. ASSUME NEW kind \in ToSet(Kinds)
        PROVE  Cardinality(RowsOf(kind)) + Cardinality(Seeding(kind)) <= Cardinality(Workers)
    <3>1. RowsOf(kind) = {} /\ Seeding(kind) = {}
      BY <2>3, <2>4 DEF RowsOf, Seeding
    <3>2. Cardinality(RowsOf(kind)) = 0 /\ Cardinality(Seeding(kind)) = 0
      BY <3>1, FS_EmptySet
    <3>3. \A S \in SUBSET Workers : Cardinality(S) <= Cardinality(Workers) /\ Cardinality(Workers) \in Nat
      BY <2>3, ScheduleSizes
    <3>4. Cardinality(Workers) \in Nat
      BY <3>3
    <3> QED
      BY <3>2, <3>4
  <2> QED
    BY <2>2, <2>3, <2>4, <2>5 DEF Scheduled
<1>2. Counted /\ Scheduled /\ [UpkeepNext]_upkeepVars => (Counted /\ Scheduled)'
  BY CountedStep, ScheduledStep
<1>3. Scheduled => OneRowPerWorker
  BY ScheduleSizes DEF Scheduled, OneRowPerWorker
<1> QED
  BY <1>1, <1>2, <1>3, PTL DEF UpkeepSpec

================================================================================
