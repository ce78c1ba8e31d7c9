------------------------------ MODULE Library ------------------------------
(***************************************************************************)
(* The folder library (memory/library.py, memory/reports.py,               *)
(* memory/archive.py) with its mirror in the database                      *)
(* (storage/repos/library.py) and its upkeep (roles/librarian.py).  A       *)
(* finished request is committed file by file and row by row; a folder that *)
(* nobody reads is compacted into artifacts.zip, and revived from it.       *)
(* Nothing is locked: each process takes one step of its operation at a     *)
(* time, and may be killed between any two.                                 *)
(***************************************************************************)
EXTENDS Naturals, FiniteSets

CONSTANTS Procs,      \* processes that use the library
          Librarians, \* those that compact and revive folders
          Codes,      \* requests, by their code
          Artifacts,  \* the files a job leaves in its folder
          MaxOps,     \* bound: operations that write
          MaxKills    \* bound: kills

ASSUME LibraryAssumption ==
  /\ Librarians \subseteq Procs /\ IsFiniteSet(Artifacts) /\ {"report", "json"} \cap Artifacts = {}
  /\ MaxOps \in Nat /\ MaxKills \in Nat

VARIABLES folder,  \* the files of each folder, but for the archive
          zip,     \* its artifacts.zip
          cards,   \* the requests with a row in final_reports
          mirror,  \* the ages of each request's rows in library_index
          index, dropped, \* the codes in index.json and index.dropped.json
          op,      \* the operation each process is at
          made,    \* the artifacts each folder has ever held
          ops, kills

vars == <<folder, zip, cards, mirror, index, dropped, op, made, ops, kills>>
disk == <<folder, zip>>
lists == <<cards, mirror, index, dropped>>
bounds == <<made, ops, kills>>

Keep == {"report", "json"}   \* _KEEP_FILES
Files == Keep \cup Artifacts

Ages == {"recent", "old"}   \* against compact_library_after_days

NoZip == [state |-> "none", files |-> {}]
Torn == [state |-> "torn", files |-> {}]
Whole(files) == [state |-> "whole", files |-> files]

\* rows are those of a compaction's listing, targets the files it is about to
\* remove, zipped those it has written, alone whether nobody else has opened
\* the archive since; lists are the indexes that were loaded.
Idle == [at |-> "idle", code |-> "none", rows |-> {}, targets |-> {}, zipped |-> {},
         alone |-> TRUE, index |-> {}, dropped |-> {}]

Stations == {"idle", "json", "card", "mirror", "load", "replace",
             "row", "compact", "zip", "unlink",
             "revive", "extract", "unzip", "note", "pop", "drop"}

TypeOK ==
  /\ folder \in [Codes -> SUBSET Files] /\ made \in [Codes -> SUBSET Artifacts]
  /\ zip \in [Codes -> {NoZip, Torn} \cup {Whole(f) : f \in SUBSET Artifacts}]
  /\ cards \subseteq Codes /\ index \subseteq Codes /\ dropped \subseteq Codes
  /\ mirror \in [Codes -> SUBSET Ages]
  /\ op \in [Procs -> [at : Stations, code : Codes \cup {"none"}, rows : SUBSET Codes,
                       targets : SUBSET Artifacts, zipped : SUBSET Artifacts, alone : BOOLEAN,
                       index : SUBSET Codes, dropped : SUBSET Codes]]
  /\ ops \in 0 .. MaxOps /\ kills \in 0 .. MaxKills

Init ==
  /\ folder \in [Codes -> SUBSET Artifacts] /\ made = folder
  /\ zip = [c \in Codes |-> NoZip]
  /\ cards = {} /\ mirror = [c \in Codes |-> {}] /\ index = {} /\ dropped = {}
  /\ op = [p \in Procs |-> Idle]
  /\ ops = 0 /\ kills = 0

---------------------------------------------------------------------------
At(p, station) == op[p].at = station
Code(p) == op[p].code
Goto(p, station) == op' = [op EXCEPT ![p].at = station]
Over(p) == op' = [op EXCEPT ![p] = Idle]

Starts(p) == At(p, "idle") /\ ops < MaxOps /\ ops' = ops + 1 /\ UNCHANGED <<made, kills>>
StartsOn(p, station, c) == op' = [op EXCEPT ![p].at = station, ![p].code = c]

---------------------------------------------------------------------------
\* commit_final_report: the files of the report, the card, the mirror, and the
\* entry of the index, which is loaded and then replaced as a whole.

Commit(p, c) ==
  /\ Starts(p) /\ StartsOn(p, "json", c)
  /\ folder' = [folder EXCEPT ![c] = @ \cup {"report"}]
  /\ UNCHANGED <<zip, lists>>

CommitJson(p) ==
  /\ At(p, "json") /\ Goto(p, "card")
  /\ folder' = [folder EXCEPT ![Code(p)] = @ \cup {"json"}]
  /\ UNCHANGED <<zip, lists, bounds>>

CommitCard(p) ==
  /\ At(p, "card") /\ Goto(p, "mirror")
  /\ cards' = cards \cup {Code(p)}
  /\ UNCHANGED <<disk, mirror, index, dropped, bounds>>

CommitMirror(p) ==
  /\ At(p, "mirror") /\ Goto(p, "load")
  /\ mirror' = [mirror EXCEPT ![Code(p)] = @ \cup {"recent"}]
  /\ UNCHANGED <<disk, cards, index, dropped, bounds>>

LoadIndex(p) ==
  /\ At(p, "load")
  /\ op' = [op EXCEPT ![p].at = "replace", ![p].index = index]
  /\ UNCHANGED <<disk, lists, bounds>>

ReplaceIndex(p) ==
  /\ At(p, "replace") /\ Over(p)
  /\ index' = op[p].index \cup {Code(p)}
  /\ UNCHANGED <<disk, cards, mirror, dropped, bounds>>

---------------------------------------------------------------------------
\* move_to_dropped, and delete_library_index_for_request with it.

Drop(p, c) ==
  /\ Starts(p) /\ c \in index
  /\ op' = [op EXCEPT ![p].at = "pop", ![p].code = c,
                      ![p].index = index \ {c}, ![p].dropped = dropped \cup {c}]
  /\ UNCHANGED <<disk, lists>>

Pop(p) ==
  /\ At(p, "pop") /\ Goto(p, "drop")
  /\ index' = op[p].index
  /\ UNCHANGED <<disk, cards, mirror, dropped, bounds>>

PutDropped(p) ==
  /\ At(p, "drop") /\ Over(p)
  /\ dropped' = op[p].dropped
  /\ mirror' = [mirror EXCEPT ![Code(p)] = {}]
  /\ UNCHANGED <<disk, cards, index, bounds>>

---------------------------------------------------------------------------
\* compact_cold_library over compact_folder.

Scan(p) ==
  /\ p \in Librarians /\ Starts(p)
  /\ op' = [op EXCEPT ![p].at = "row", ![p].rows = {c \in Codes : "old" \in mirror[c]}]
  /\ UNCHANGED <<disk, lists>>

\* A folder without a report, or with an archive, is passed over.
Cold(c) == "report" \in folder[c] /\ zip[c] = NoZip

Row(p) ==
  /\ At(p, "row")
  /\ IF op[p].rows = {} THEN Over(p)
     ELSE \E c \in op[p].rows :
            op' = [op EXCEPT ![p].rows = @ \ {c}, ![p].code = c,
                             ![p].at = IF Cold(c) THEN "compact" ELSE "row"]
  /\ UNCHANGED <<disk, lists, bounds>>

\* _files_to_compact, then the archive is opened for writing, which empties it.
TargetsAll(c) == folder[c]
Targets(c) == folder[c] \ Keep

CompactFolder(p) ==
  /\ At(p, "compact")
  /\ zip' = [zip EXCEPT ![Code(p)] = Torn]
  /\ op' = [q \in Procs |->
              IF q = p THEN [op[p] EXCEPT !.at = "zip", !.targets = Targets(Code(p)),
                                          !.zipped = {}, !.alone = TRUE]
              ELSE IF At(q, "zip") /\ Code(q) = Code(p) THEN [op[q] EXCEPT !.alone = FALSE]
              ELSE op[q]]
  /\ UNCHANGED <<folder, lists, bounds>>

ZipFileMoved(p) ==
  /\ At(p, "zip")
  /\ \E f \in op[p].targets \cap folder[Code(p)] :
       /\ op' = [op EXCEPT ![p].zipped = @ \cup {f}]
       /\ folder' = [folder EXCEPT ![Code(p)] = @ \ {f}]
  /\ UNCHANGED <<zip, lists, bounds>>

ZipFile(p) ==
  /\ At(p, "zip")
  /\ \E f \in (op[p].targets \ op[p].zipped) \cap folder[Code(p)] :
       op' = [op EXCEPT ![p].zipped = @ \cup {f}]
  /\ UNCHANGED <<disk, lists, bounds>>

\* The archive is closed when all are in it, or when one of them is gone, which
\* raises; two that write one archive may spoil it.
Closed(p) ==
  IF zip[Code(p)] = NoZip THEN {NoZip}
  ELSE {Whole(op[p].zipped)} \cup (IF op[p].alone THEN {} ELSE {Torn})

CloseZip(p) ==
  /\ At(p, "zip")
  /\ \E z \in Closed(p) : zip' = [zip EXCEPT ![Code(p)] = z]
  /\ \/ op[p].zipped = op[p].targets /\ Goto(p, "unlink")
     \/ ~(op[p].targets \ op[p].zipped \subseteq folder[Code(p)]) /\ Over(p)
  /\ UNCHANGED <<folder, lists, bounds>>

\* The originals go one by one, once the archive is closed; one that is gone
\* already raises.
Unlink(p) ==
  /\ At(p, "unlink")
  /\ IF op[p].targets = {} THEN Goto(p, "row") /\ UNCHANGED folder
     ELSE \E f \in op[p].targets :
            IF f \in folder[Code(p)]
            THEN /\ folder' = [folder EXCEPT ![Code(p)] = @ \ {f}]
                 /\ op' = [op EXCEPT ![p].targets = @ \ {f}]
            ELSE Over(p) /\ UNCHANGED folder
  /\ UNCHANGED <<zip, lists, bounds>>

---------------------------------------------------------------------------
\* revive_library_folder: the access, the extraction, the end of the archive.

Touched(c) == [mirror EXCEPT ![c] = IF @ = {} THEN {} ELSE {"recent"}]

Revive(p, c) ==
  /\ p \in Librarians /\ Starts(p) /\ StartsOn(p, "revive", c)
  /\ mirror' = Touched(c)
  /\ UNCHANGED <<disk, cards, index, dropped>>

ReviveFolder(p) ==
  /\ At(p, "revive")
  /\ IF mirror[Code(p)] # {} /\ zip[Code(p)].state = "whole"
     THEN op' = [op EXCEPT ![p].at = "extract", ![p].targets = zip[Code(p)].files]
     ELSE Over(p)
  /\ UNCHANGED <<disk, lists, bounds>>

Extract(p) ==
  /\ At(p, "extract")
  /\ IF op[p].targets = {} THEN Goto(p, "unzip") /\ UNCHANGED folder
     ELSE \E f \in op[p].targets :
            /\ folder' = [folder EXCEPT ![Code(p)] = @ \cup {f}]
            /\ op' = [op EXCEPT ![p].targets = @ \ {f}]
  /\ UNCHANGED <<zip, lists, bounds>>

Unzip(p) ==
  /\ At(p, "unzip") /\ Over(p)
  /\ zip' = [zip EXCEPT ![Code(p)] = NoZip]
  /\ UNCHANGED <<folder, lists, bounds>>

---------------------------------------------------------------------------
\* read_library_report, with the throttled note_library_access: the row is not
\* written when the last access is recent.

ReadReport(p, c) ==
  /\ At(p, "idle") /\ mirror[c] # {} /\ "report" \in folder[c]
  /\ mirror[c] # {"recent"}
  /\ StartsOn(p, "note", c)
  /\ UNCHANGED <<disk, lists, bounds>>

NoteAccess(p) ==
  /\ At(p, "note") /\ Over(p)
  /\ mirror' = Touched(Code(p))
  /\ UNCHANGED <<disk, cards, index, dropped, bounds>>

---------------------------------------------------------------------------
\* Time passes, and a job may leave one more file in its folder.
Age(c) ==
  /\ "recent" \in mirror[c]
  /\ mirror' = [mirror EXCEPT ![c] = {"old"}]
  /\ UNCHANGED <<disk, cards, index, dropped, op, bounds>>

Produce(c, f) ==
  /\ f \notin folder[c] /\ ops < MaxOps
  /\ folder' = [folder EXCEPT ![c] = @ \cup {f}]
  /\ made' = [made EXCEPT ![c] = @ \cup {f}]
  /\ ops' = ops + 1
  /\ UNCHANGED <<zip, lists, op, kills>>

Die(p) ==
  /\ ~At(p, "idle") /\ kills < MaxKills
  /\ kills' = kills + 1
  /\ Over(p)
  /\ UNCHANGED <<disk, lists, made, ops>>

Step(p) ==
  \/ CommitJson(p) \/ CommitCard(p) \/ CommitMirror(p) \/ LoadIndex(p) \/ ReplaceIndex(p)
  \/ Pop(p) \/ PutDropped(p)
  \/ Row(p) \/ CompactFolder(p) \/ ZipFile(p) \/ CloseZip(p) \/ Unlink(p)
  \/ ReviveFolder(p) \/ Extract(p) \/ Unzip(p) \/ NoteAccess(p)

Next ==
  \/ \E p \in Procs : Step(p) \/ Scan(p) \/ Die(p)
  \/ \E p \in Procs, c \in Codes : Commit(p, c) \/ Drop(p, c) \/ Revive(p, c) \/ ReadReport(p, c)
  \/ \E c \in Codes : Age(c) \/ \E f \in Artifacts : Produce(c, f)

Spec == Init /\ [][Next]_vars

---------------------------------------------------------------------------
\* "Compaction is non-destructive" (memory/archive.py): whenever a compaction or
\* a revival is killed, every file a job has left is in its folder or in an
\* archive that can be read.  (Of one librarian: see the run with two.)
NothingLost ==
  \A c \in Codes : made[c] \subseteq folder[c] \cup zip[c].files

\* What the mirror or one of the indexes lists has been committed to the end of
\* its files and its card, and its report stays readable, hot or cold.
ListedIsReadable ==
  \A c \in Codes :
    mirror[c] # {} \/ c \in index \cup dropped => c \in cards /\ Keep \subseteq folder[c]
=============================================================================
