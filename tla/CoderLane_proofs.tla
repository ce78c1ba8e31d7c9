-------------------------- MODULE CoderLane_proofs --------------------------
(***************************************************************************)
(* Proofs about the coder lane of one request, for any number of workers,  *)
(* servers, jobs and modules, with failures and kills between any two      *)
(* steps.                                                                  *)
(***************************************************************************)
EXTENDS CoderLane, TLAPS

\* A job is begun when it is claimed, and never waits again: the worker that
\* has it in hand is the only one that ever had.
Claims ==
  /\ \A j \in Jobs : /\ attempts[j] \in {0, 1}
                     /\ told[j] <= attempts[j]
                     /\ status[j] \in {"absent", "pending"} <=> attempts[j] = 0
  /\ \A w \in Workers : pc[w] = "selected" => held[w] \in Jobs
  /\ \A w \in Workers : InHand(w) =>
       /\ held[w] \in Jobs
       /\ told[held[w]] = 0
       /\ attempts[held[w]] = 1
       /\ pc[w] # "tell" => status[held[w]] = "running"
  /\ \A v, w \in Workers : InHand(v) /\ InHand(w) /\ held[v] = held[w] => v = w

\* What a worker that writes has written, and told its copy of the manifest.
Writing ==
  \A w \in Workers :
    /\ Validate /\ pc[w] = "write" => draft[w].ok
    /\ pc[w] \in {"write", "commit"} => draft[w].files \ left[w] \subseteq copy[w].files
    /\ pc[w] = "commit" => left[w] = {}

\* A manifest was begun before anything is done.
Begun ==
  /\ \A w \in Workers : pc[w] \in {"commit", "done"} => manifest.status # "none"
  /\ \A j \in Jobs : status[j] = "done" => manifest.status # "none"

\* The bundle is complete: its manifest is there, or was there to be reviewed.
Complete == manifest.status \in {"inert", "active"} \/ reviewed # {}

\* As long as the request has had one job: a complete bundle has no writer.
NoWriter == Complete => /\ \A w \in Workers : pc[w] \notin InRun
                        /\ \E j \in Jobs : attempts[j] > 0

\* Its modules are in the folder and in what the manifest says, or will say
\* when confirm.py has written back what it read.
OnDisk ==
  /\ \A j \in Jobs : status[j] = "done" => \A f \in modules[j] : disk[f].job = j
  /\ \A w \in Workers :
       /\ pc[w] \in {"commit", "done"} => \A f \in draft[w].files : disk[f].job = held[w]
       /\ pc[w] = "write" => \A f \in draft[w].files \ left[w] : disk[f].job = held[w]

Lists(files) ==
  /\ \A j \in Jobs : status[j] = "done" => modules[j] \subseteq files
  /\ \A w \in Workers : pc[w] = "done" => draft[w].files \subseteq files

Confirming == pc[Owner] \in {"rewrite", "flip"}

Listed == /\ manifest.status \in {"inert", "active"} => Lists(manifest.files)
          /\ Confirming => Lists(copy[Owner].files)

\* Nothing is about to be loaded, or is listed once the owner has reviewed the
\* bundle, that the owner has not seen.
Seen(files) == \A f \in files : Content(f) \in reviewed

Reviewed ==
  /\ \A r \in Readers : loaded[r] \subseteq reviewed /\ Seen(left[r])
  /\ reviewed # {} => Seen(manifest.files) /\ (Confirming => Seen(copy[Owner].files))
  /\ manifest.status = "active" => reviewed # {}
  /\ \A r \in Readers : pc[r] = "listed" => reviewed # {}
  /\ pc[Owner] \in {"listed", "boot", "activate", "rewrite", "flip"} => reviewed # {}

Alone == NoWriter /\ OnDisk /\ Listed /\ Reviewed

IInv == TypeOK /\ Claims /\ Writing /\ Begun /\ CheckedOnly /\ (OneJobOnly => Alone)

LEMMA Assumed ==
  /\ Jobs \subseteq Nat /\ NoJob \notin Jobs
  /\ MaxIters \in Nat /\ 1 \in 0 .. MaxIters /\ 0 \in 0 .. MaxIters
  /\ Owner \in Readers /\ Readers \subseteq Agents /\ Workers \subseteq Agents
  /\ Workers \cap Readers = {}
BY CoderAssumption DEF Readers, Agents

LEMMA Kinds ==
  /\ NoFile \in Version /\ Empty \in Manifest /\ Torn \in Manifest /\ NoDraft \in Draft
  /\ \A f \in Files : TypeOK => Content(f) \in Module
  /\ Stations = Stations \cup InRun
BY DEF NoFile, Version, Empty, Torn, Manifest, NoDraft, Draft, Content, Module, TypeOK, Stations, InRun

LEMMA InitInv == Init => IInv
<1> SUFFICES ASSUME Init PROVE IInv
  OBVIOUS
<1>1. TypeOK
  BY Assumed, Kinds DEF Init, TypeOK, Stations
<1>2. \A w \in Workers : pc[w] = "poll"
  BY Assumed DEF Init
<1>3. \A r \in Readers : pc[r] = "off" /\ left[r] = {} /\ loaded[r] = {}
  BY Assumed DEF Init
<1>4. Claims
  BY <1>2 DEF Init, Claims, InHand, InRun
<1>5. Writing /\ Begun /\ CheckedOnly
  BY <1>2 DEF Init, Writing, Begun, CheckedOnly
<1>6. manifest.status = "none" /\ manifest.files = {} /\ reviewed = {} /\ pc[Owner] = "off"
  BY <1>3, Assumed DEF Init, Empty
<1>7. Alone
  BY <1>2, <1>3, <1>6 DEF Init, Alone, NoWriter, Complete, OnDisk, Listed, Confirming, Reviewed, Seen
<1> QED
  BY <1>1, <1>4, <1>5, <1>7 DEF IInv

LEMMA Records ==
  /\ \A F \in SUBSET Files, b \in BOOLEAN : [files |-> F, ok |-> b] \in Draft
  /\ \A F \in SUBSET Files, m \in {"none", "torn", "inert", "active"} :
       [status |-> m, files |-> F] \in Manifest
  /\ \A j \in Jobs \cup {NoJob}, b \in BOOLEAN : [job |-> j, ok |-> b] \in Version
  /\ \A d \in Draft : d.files \in SUBSET Files /\ d.ok \in BOOLEAN
  /\ \A m \in Manifest : m.files \in SUBSET Files /\ m.status \in {"none", "torn", "inert", "active"}
  /\ \A m \in Manifest, F \in SUBSET Files : [m EXCEPT !.files = F] \in Manifest
BY DEF Draft, Manifest, Version

LEMMA DraftType ==
  ASSUME TypeOK, NEW w \in Workers, NewDraft(w)
  PROVE  draft' \in [Workers -> Draft]
<1>1. PICK F \in SUBSET Files, b \in BOOLEAN : draft' = [draft EXCEPT ![w] = [files |-> F, ok |-> b]]
  BY DEF NewDraft
<1>2. [files |-> F, ok |-> b] \in Draft
  BY Records
<1> QED
  BY <1>1, <1>2 DEF TypeOK

LEMMA TypeStep == IInv /\ [Next]_vars => TypeOK'
<1> SUFFICES ASSUME IInv, [Next]_vars PROVE TypeOK'
  OBVIOUS
<1>t. TypeOK
  BY DEF IInv
<1>c. Claims
  BY DEF IInv
<1> USE Assumed DEF queue, folder, worker, owner, Goto, Drop, Release
<1>1. ASSUME NEW w \in Workers, Select(w) PROVE TypeOK'
  BY <1>1, <1>t, <1>c, Kinds DEF Select, TypeOK, Claims, InHand, Stations
<1>2. ASSUME NEW w \in Workers, Claim(w) PROVE TypeOK'
  BY <1>2, <1>t, <1>c, Kinds DEF Claim, TypeOK, Claims, InHand, Stations
<1>3. ASSUME NEW w \in Workers, Generate(w) PROVE TypeOK'
  <2>1. draft' \in [Workers -> Draft] /\ draft'[w].files \in SUBSET Files
    BY <1>3, <1>t, Records, DraftType DEF Generate
  <2>2. pc' \in [Agents -> Stations]
    BY <1>3, <1>t DEF Generate, TypeOK, Stations
  <2>3. copy' \in [Agents -> Manifest] /\ left' \in [Agents -> SUBSET Files]
    BY <1>3, <1>t, <2>1 DEF Generate, OpenFolder, TypeOK
  <2>4. tries' \in [Workers -> 0 .. MaxIters]
    BY <1>3, <1>t DEF Generate, TypeOK
  <2> QED
    BY <1>3, <1>t, <2>1, <2>2, <2>3, <2>4 DEF Generate, TypeOK
<1>4. ASSUME NEW w \in Workers, CheckPassed(w) PROVE TypeOK'
  <2>1. copy' \in [Agents -> Manifest] /\ left' \in [Agents -> SUBSET Files]
    BY <1>4, <1>t, Records DEF CheckPassed, OpenFolder, TypeOK
  <2>2. pc' \in [Agents -> Stations]
    BY <1>4, <1>t DEF CheckPassed, TypeOK, Stations
  <2> QED
    BY <1>4, <1>t, <2>1, <2>2 DEF CheckPassed, TypeOK
<1>5. ASSUME NEW w \in Workers, Repair(w) PROVE TypeOK'
  <2>1. draft' \in [Workers -> Draft]
    BY <1>5, <1>t, DraftType DEF Repair
  <2>2. tries' \in [Workers -> 0 .. MaxIters]
    BY <1>5, <1>t DEF Repair, TypeOK
  <2> QED
    BY <1>5, <1>t, <2>1, <2>2 DEF Repair, TypeOK
<1>6. ASSUME NEW w \in Workers, RunFails(w) PROVE TypeOK'
  BY <1>6, <1>t, <1>c, Kinds DEF RunFails, TypeOK, Claims, InHand, Stations
<1>7. ASSUME NEW w \in Workers, WriteModule(w) PROVE TypeOK'
  <2>1. PICK f \in left[w] :
          /\ disk' = [disk EXCEPT ![f] = [job |-> held[w], ok |-> draft[w].ok]]
          /\ left' = [left EXCEPT ![w] = @ \ {f}]
          /\ copy' = [copy EXCEPT ![w] = [copy[w] EXCEPT !.files = copy[w].files \cup {f}]]
    BY <1>7, <1>t DEF WriteModule, TypeOK
  <2>2. f \in Files /\ copy[w] \in Manifest /\ copy[w].files \cup {f} \in SUBSET Files
    BY <1>t, Records DEF TypeOK
  <2>3. copy' \in [Agents -> Manifest]
    <3>1. [copy[w] EXCEPT !.files = copy[w].files \cup {f}] \in Manifest
      BY <2>2, Records
    <3> QED
      BY <1>t, <2>1, <3>1 DEF TypeOK
  <2>4. disk' \in [Files -> Version] /\ left' \in [Agents -> SUBSET Files]
    BY <1>t, <2>1, <2>2, Records DEF TypeOK
  <2> QED
    BY <1>7, <1>t, <2>3, <2>4 DEF WriteModule, TypeOK
<1>8. ASSUME NEW w \in Workers, Truncate(w) PROVE TypeOK'
  BY <1>8, <1>t, <1>c, Kinds DEF Truncate, TypeOK, Claims, InHand, Stations
<1>9. ASSUME NEW w \in Workers, Commit(w) PROVE TypeOK'
  <2>1. manifest' \in Manifest
    BY <1>9, <1>t, Records DEF Commit, TypeOK
  <2> QED
    BY <1>9, <1>t, <2>1 DEF Commit, TypeOK, Stations
<1>10. ASSUME NEW w \in Workers, RunRaises(w) PROVE TypeOK'
  BY <1>10, <1>t, <1>c, Kinds DEF RunRaises, TypeOK, Claims, InHand, Stations
<1>11. ASSUME NEW w \in Workers, MarkDone(w) PROVE TypeOK'
  <2>1. modules' \in [Jobs -> SUBSET Files]
    BY <1>11, <1>t, Records DEF MarkDone, TypeOK
  <2>2. pc' \in [Agents -> Stations]
    BY <1>11, <1>t DEF MarkDone, TypeOK, Stations
  <2> QED
    BY <1>11, <1>t, <2>1, <2>2 DEF MarkDone, TypeOK
<1>12. ASSUME NEW w \in Workers, MarkFailed(w) PROVE TypeOK'
  BY <1>12, <1>t, <1>c, Kinds DEF MarkFailed, TypeOK, Claims, InHand, Stations
<1>13. ASSUME NEW w \in Workers, MarkRaised(w) PROVE TypeOK'
  BY <1>13, <1>t, <1>c, Kinds DEF MarkRaised, TypeOK, Claims, InHand, Stations
<1>14. ASSUME NEW w \in Workers, Tell(w) PROVE TypeOK'
  BY <1>14, <1>t, <1>c, Kinds DEF Tell, TypeOK, Claims, InHand, Stations
<1>15. ASSUME NEW w \in Workers, TellRaises(w) PROVE TypeOK'
  BY <1>15, <1>t, <1>c, Kinds DEF TellRaises, TypeOK, Claims, InHand, Stations
<1>16. ASSUME NEW w \in Workers, Kill(w) PROVE TypeOK'
  BY <1>16, <1>t, <1>c, Kinds DEF Kill, TypeOK, Claims, InHand, Stations
<1>17. ASSUME NEW w \in Workers, Start(w) PROVE TypeOK'
  BY <1>17, <1>t, <1>c, Kinds DEF Start, TypeOK, Claims, InHand, Stations
<1>18. ASSUME NEW r \in Readers, Boot(r) PROVE TypeOK'
  BY <1>18, <1>t, Kinds DEF Boot, TypeOK, Stations
<1>19. ASSUME NEW r \in Readers, BootBundle(r) PROVE TypeOK'
  <2>1. left' \in [Agents -> SUBSET Files]
    BY <1>19, <1>t, Records DEF BootBundle, TypeOK
  <2> QED
    BY <1>19, <1>t, <2>1 DEF BootBundle, TypeOK, Stations
<1>20. ASSUME NEW r \in Readers, Import(r) PROVE TypeOK'
  BY <1>20, <1>t, Kinds DEF Import, TypeOK, Stations
<1>21. ASSUME NEW r \in Readers, ImportRaises(r) PROVE TypeOK'
  BY <1>21, <1>t, Kinds DEF ImportRaises, TypeOK, Stations
<1>22. ASSUME NEW r \in Readers, Booted(r) PROVE TypeOK'
  <2>1. copy' \in [Agents -> Manifest] /\ left' \in [Agents -> SUBSET Files]
    <3>1. CASE r # Owner
      BY <1>22, <1>t, <3>1, Kinds DEF Booted, TypeOK
    <3>2. CASE r = Owner
      BY <1>22, <1>t, <3>2, Records DEF Booted, TypeOK
    <3> QED
      BY <3>1, <3>2
  <2>2. pc' \in [Agents -> Stations]
    BY <1>22, <1>t DEF Booted, TypeOK, Stations
  <2> QED
    BY <1>22, <1>t, <2>1, <2>2 DEF Booted, TypeOK
<1>23. ASSUME NEW r \in Readers, Stop(r) PROVE TypeOK'
  BY <1>23, <1>t, Kinds DEF Stop, TypeOK, Stations
<1>24. ASSUME NEW j \in Jobs, Enqueue(j) PROVE TypeOK'
  BY <1>24, <1>t DEF Enqueue, TypeOK
<1>25. CASE Review
  <2>1. reviewed' \in SUBSET Module
    BY <1>25, <1>t, Kinds, Records DEF Review, TypeOK
  <2> QED
    BY <1>25, <1>t, <2>1 DEF Review, TypeOK
<1>26. CASE Reread
  BY <1>26, <1>t DEF Reread, TypeOK, Stations
<1>27. CASE TruncateFlip
  BY <1>27, <1>t, Kinds DEF TruncateFlip, TypeOK, Stations
<1>28. CASE Flip
  BY <1>28, <1>t, Kinds DEF Flip, TypeOK, Stations, Manifest
<1>29. CASE Interrupt
  BY <1>29, <1>t, Kinds DEF Interrupt, TypeOK, Stations
<1>30. CASE UNCHANGED vars
  BY <1>30, <1>t DEF vars, TypeOK
<1> QED
  BY <1>1, <1>2, <1>3, <1>4, <1>5, <1>6, <1>7, <1>8, <1>9, <1>10, <1>11, <1>12, <1>13, <1>14, <1>15, <1>16, <1>17, <1>18, <1>19, <1>20, <1>21, <1>22, <1>23, <1>24, <1>25, <1>26, <1>27, <1>28, <1>29, <1>30
  DEF Next, Work, RunCoder, Settle, Read, Confirm

-----------------------------------------------------------------------------
(* What a step of one process leaves alone.                                *)

LEMMA WorkerOnly ==
  ASSUME TypeOK, NEW w \in Workers, Work(w) \/ Start(w) \/ Kill(w)
  PROVE  /\ \A v \in Workers : v # w => /\ pc'[v] = pc[v] /\ held'[v] = held[v]
                                       /\ draft'[v] = draft[v]
                                       /\ copy'[v] = copy[v] /\ left'[v] = left[v]
         /\ \A r \in Readers : pc'[r] = pc[r] /\ copy'[r] = copy[r] /\ left'[r] = left[r]
         /\ UNCHANGED owner
<1> USE Assumed DEF TypeOK, owner, worker, Goto, Drop, Release
<1>1. CASE Select(w)
  BY <1>1 DEF Select
<1>2. CASE Claim(w)
  BY <1>2 DEF Claim
<1>3. CASE Generate(w)
  BY <1>3 DEF Generate, NewDraft, OpenFolder
<1>4. CASE CheckPassed(w)
  BY <1>4 DEF CheckPassed, OpenFolder
<1>5. CASE Repair(w)
  BY <1>5 DEF Repair, NewDraft
<1>6. CASE RunFails(w)
  BY <1>6 DEF RunFails
<1>7. CASE WriteModule(w)
  BY <1>7 DEF WriteModule
<1>8. CASE Truncate(w)
  BY <1>8 DEF Truncate
<1>9. CASE Commit(w)
  BY <1>9 DEF Commit
<1>10. CASE RunRaises(w)
  BY <1>10 DEF RunRaises
<1>11. CASE MarkDone(w)
  BY <1>11 DEF MarkDone
<1>12. CASE MarkFailed(w)
  BY <1>12 DEF MarkFailed
<1>13. CASE MarkRaised(w)
  BY <1>13 DEF MarkRaised
<1>14. CASE Tell(w)
  BY <1>14 DEF Tell
<1>15. CASE TellRaises(w)
  BY <1>15 DEF TellRaises
<1>16. CASE Kill(w)
  BY <1>16 DEF Kill
<1>17. CASE Start(w)
  BY <1>17 DEF Start
<1> QED
  BY <1>1, <1>2, <1>3, <1>4, <1>5, <1>6, <1>7, <1>8, <1>9, <1>10, <1>11, <1>12, <1>13, <1>14, <1>15, <1>16, <1>17 DEF Work, RunCoder, Settle

LEMMA ReaderOnly ==
  ASSUME TypeOK, NEW r \in Readers,
         \/ Read(r)
         \/ r = Owner /\ (Confirm \/ Interrupt)
  PROVE  /\ UNCHANGED <<queue, worker, told, disk>>
         /\ \A a \in Agents : a # r => pc'[a] = pc[a] /\ copy'[a] = copy[a] /\ left'[a] = left[a]
         /\ \A q \in Readers : q # r => loaded'[q] = loaded[q]
<1> USE Assumed DEF TypeOK, queue, worker, owner, folder, Goto, Drop
<1>1. CASE Boot(r)
  BY <1>1 DEF Boot
<1>2. CASE BootBundle(r)
  BY <1>2 DEF BootBundle
<1>3. CASE Import(r)
  BY <1>3 DEF Import
<1>4. CASE ImportRaises(r)
  BY <1>4 DEF ImportRaises
<1>5. CASE Booted(r)
  BY <1>5 DEF Booted
<1>6. CASE Stop(r)
  BY <1>6 DEF Stop
<1>7. CASE Review /\ r = Owner
  BY <1>7 DEF Review
<1>8. CASE Reread /\ r = Owner
  BY <1>8 DEF Reread
<1>9. CASE TruncateFlip /\ r = Owner
  BY <1>9 DEF TruncateFlip
<1>10. CASE Flip /\ r = Owner
  BY <1>10 DEF Flip
<1>11. CASE Interrupt /\ r = Owner
  BY <1>11 DEF Interrupt
<1> QED
  BY <1>1, <1>2, <1>3, <1>4, <1>5, <1>6, <1>7, <1>8, <1>9, <1>10, <1>11 DEF Read, Confirm

\* What Next is made of.
LEMMA Steps ==
  ASSUME [Next]_vars
  PROVE  \/ \E j \in Jobs : Enqueue(j)
         \/ \E w \in Workers : Work(w) \/ Start(w) \/ Kill(w)
         \/ \E r \in Readers : Read(r) \/ (r = Owner /\ (Confirm \/ Interrupt))
         \/ UNCHANGED vars
BY Assumed DEF Next

-----------------------------------------------------------------------------
(* A job is claimed once, built by one worker and told of once.            *)

LEMMA ClaimsStep == IInv /\ [Next]_vars => Claims'
<1> SUFFICES ASSUME IInv, [Next]_vars PROVE Claims'
  OBVIOUS
<1>t. TypeOK
  BY DEF IInv
<1>c. Claims
  BY DEF IInv
<1>j. \A j \in Jobs : status[j] \in {"absent", "pending", "running", "done", "failed"}
                      /\ attempts[j] \in Nat /\ told[j] \in Nat
  BY <1>t DEF TypeOK
<1>1. ASSUME NEW j \in Jobs, Enqueue(j) PROVE Claims'
  <2>1. /\ UNCHANGED <<attempts, pc, held, told>>
        /\ \A k \in Jobs : \/ status'[k] = status[k]
                           \/ status[k] = "absent" /\ status'[k] = "pending"
    BY <1>1, <1>t DEF Enqueue, TypeOK, worker
  <2>2. \A w \in Workers : InHand(w)' = InHand(w)
    BY <2>1 DEF InHand
  <2> QED
    BY <1>c, <2>1, <2>2 DEF Claims
<1>2. ASSUME UNCHANGED <<status, attempts, told>>,
             \A w \in Workers : pc'[w] = pc[w] /\ held'[w] = held[w]
      PROVE  Claims'
  <2>1. \A w \in Workers : InHand(w)' = InHand(w)
    BY <1>2 DEF InHand
  <2> QED
    BY <1>2, <1>c, <2>1 DEF Claims
<1>3. ASSUME NEW r \in Readers, Read(r) \/ (r = Owner /\ (Confirm \/ Interrupt)) PROVE Claims'
  <2>1. UNCHANGED <<status, attempts, told, held>> /\ \A w \in Workers : pc'[w] = pc[w]
    BY <1>3, <1>t, ReaderOnly, Assumed DEF queue, worker
  <2> QED
    BY <1>2, <2>1
<1>4. ASSUME NEW w \in Workers, Work(w) \/ Start(w) \/ Kill(w) PROVE Claims'
  <2>o. \A v \in Workers : v # w => pc'[v] = pc[v] /\ held'[v] = held[v] /\ InHand(v)' = InHand(v)
    BY <1>4, <1>t, WorkerOnly DEF InHand
  <2>w. w \in Agents
    BY Assumed
  <2>a. ASSUME pc'[w] \notin InRun \cup {"done", "failed", "raised", "tell"},
               pc'[w] = "selected" => held'[w] \in Jobs,
               UNCHANGED <<attempts, told>>,
               \A j \in Jobs : \/ status'[j] = status[j]
                               \/ InHand(w) /\ j = held[w] /\ status'[j] \in {"done", "failed"}
        PROVE  Claims'
    <3>1. ~InHand(w)'
      BY <2>a DEF InHand
    <3>2. \A v \in Workers : InHand(v)' => v # w /\ InHand(v) /\ (InHand(w) => held[v] # held[w])
      BY <1>c, <2>o, <3>1 DEF Claims
    <3>3. \A j \in Jobs : status'[j] \in {"absent", "pending"} <=> attempts'[j] = 0
      BY <1>c, <2>a DEF Claims
    <3>4. \A v \in Workers : InHand(v)' /\ pc'[v] # "tell" => status'[held'[v]] = "running"
      BY <1>c, <2>a, <2>o, <3>2 DEF Claims
    <3> QED
      BY <1>c, <2>a, <2>o, <3>1, <3>2, <3>3, <3>4 DEF Claims
  <2>b. ASSUME InHand(w), pc'[w] \in InRun \cup {"done", "failed", "raised"}, pc[w] # "tell",
               held'[w] = held[w], UNCHANGED <<status, attempts, told>>
        PROVE  Claims'
    <3>1. InHand(w)' = InHand(w)
      BY <2>b DEF InHand
    <3>2. pc'[w] # "selected"
      BY <2>b DEF InRun
    <3> QED
      BY <1>c, <2>b, <2>o, <3>1, <3>2 DEF Claims
  <2>1. CASE Select(w)
    <3>1. pc'[w] = "selected" /\ held'[w] \in Jobs /\ UNCHANGED <<status, attempts, told>>
      BY <1>t, <2>1, <2>w DEF Select, Goto, TypeOK, queue
    <3> QED
      BY <2>a, <3>1 DEF InRun
  <2>2. CASE Claim(w)
    <3>1. /\ pc[w] = "selected" /\ held[w] \in Jobs /\ told' = told
      BY <1>c, <2>2 DEF Claim, Claims
    <3>2. CASE status[held[w]] = "pending"
      <4>1. /\ pc'[w] = "generate" /\ held'[w] = held[w]
            /\ status'[held[w]] = "running" /\ attempts'[held[w]] = attempts[held[w]] + 1
            /\ \A j \in Jobs : j # held[w] => status'[j] = status[j] /\ attempts'[j] = attempts[j]
        BY <1>t, <2>2, <2>w, <3>1, <3>2 DEF Claim, Goto, TypeOK
      <4>2. attempts[held[w]] = 0 /\ told[held[w]] = 0 /\ attempts'[held[w]] = 1
        BY <1>c, <1>j, <3>1, <3>2, <4>1 DEF Claims
      <4>3. \A v \in Workers : InHand(v) => held[v] # held[w]
        BY <1>c, <4>2 DEF Claims
      <4>4. \A v \in Workers : v # w /\ InHand(v)' =>
              held'[v] # held[w] /\ held'[v] = held[v] /\ InHand(v)
        BY <2>o, <4>3
      <4>5. \A j \in Jobs : /\ attempts'[j] \in {0, 1}
                            /\ told'[j] <= attempts'[j]
                            /\ status'[j] \in {"absent", "pending"} <=> attempts'[j] = 0
        BY <1>c, <3>1, <4>1, <4>2 DEF Claims
      <4>6. \A v \in Workers : pc'[v] = "selected" => held'[v] \in Jobs
        BY <1>c, <2>o, <4>1 DEF Claims
      <4>7. \A v \in Workers : InHand(v)' =>
              /\ held'[v] \in Jobs
              /\ told'[held'[v]] = 0
              /\ attempts'[held'[v]] = 1
              /\ pc'[v] # "tell" => status'[held'[v]] = "running"
        BY <1>c, <2>o, <3>1, <4>1, <4>2, <4>4 DEF Claims
      <4>8. \A u, v \in Workers : InHand(u)' /\ InHand(v)' /\ held'[u] = held'[v] => u = v
        BY <1>c, <2>o, <4>1, <4>4 DEF Claims
      <4> QED
        BY <4>5, <4>6, <4>7, <4>8 DEF Claims
    <3>3. CASE status[held[w]] # "pending"
      <4>1. pc'[w] = "poll" /\ UNCHANGED <<status, attempts, told>>
        BY <1>t, <2>2, <2>w, <3>3 DEF Claim, Goto, TypeOK
      <4> QED
        BY <2>a, <4>1 DEF InRun
    <3> QED
      BY <3>2, <3>3
  <2>3. CASE RunCoder(w)
    <3>1. /\ pc[w] \in InRun /\ pc'[w] \in InRun \cup {"done", "failed", "raised"}
          /\ held'[w] = held[w] /\ UNCHANGED <<status, attempts, told>>
      BY <1>t, <2>3, <2>w DEF RunCoder, Generate, CheckPassed, Repair, RunFails, WriteModule, Truncate,
                               Commit, RunRaises, Goto, TypeOK, InRun, worker, queue
    <3> QED
      BY <2>b, <3>1 DEF InHand, InRun
  <2>4. CASE MarkDone(w) \/ MarkFailed(w)
    <3>1. /\ pc[w] \in {"done", "failed"} /\ pc'[w] = "tell" /\ held'[w] = held[w]
          /\ UNCHANGED <<attempts, told>> /\ InHand(w)
      BY <1>t, <2>4, <2>w DEF MarkDone, MarkFailed, Goto, TypeOK, InHand, worker
    <3>2. held[w] \in Jobs
      BY <1>c, <3>1 DEF Claims
    <3>3. /\ status'[held[w]] \in {"done", "failed"}
          /\ \A j \in Jobs : j # held[w] => status'[j] = status[j]
      BY <1>t, <2>4, <3>2 DEF MarkDone, MarkFailed, TypeOK
    <3>4. \A v \in Workers : v # w /\ InHand(v)' => held'[v] # held[w] /\ InHand(v)
      BY <1>c, <2>o, <3>1 DEF Claims
    <3>5. \A j \in Jobs : status'[j] \in {"absent", "pending"} <=> attempts'[j] = 0
      BY <1>c, <3>1, <3>2, <3>3 DEF Claims
    <3>6. \A v \in Workers : InHand(v)' /\ pc'[v] # "tell" => status'[held'[v]] = "running"
      BY <1>c, <2>o, <3>1, <3>3, <3>4 DEF Claims
    <3> QED
      BY <1>c, <2>o, <3>1, <3>2, <3>3, <3>4, <3>5, <3>6 DEF Claims
  <2>5. CASE MarkRaised(w)
    <3>1. InHand(w) /\ pc'[w] = "poll" /\ UNCHANGED <<attempts, told>>
      BY <1>t, <2>5, <2>w DEF MarkRaised, Release, Goto, TypeOK, InHand
    <3>2. held[w] \in Jobs
      BY <1>c, <3>1 DEF Claims
    <3>3. \A j \in Jobs : status'[j] = status[j] \/ (j = held[w] /\ status'[j] = "failed")
      BY <1>t, <2>5, <3>2 DEF MarkRaised, TypeOK
    <3> QED
      BY <2>a, <3>1, <3>3 DEF InRun
  <2>6. CASE Tell(w) \/ TellRaises(w)
    <3>1. InHand(w) /\ pc'[w] \in {"poll", "down"} /\ UNCHANGED <<status, attempts>>
      BY <1>t, <2>6, <2>w DEF Tell, TellRaises, Release, Goto, TypeOK, InHand, queue
    <3>2. held[w] \in Jobs /\ told[held[w]] = 0 /\ attempts[held[w]] = 1
      BY <1>c, <3>1 DEF Claims
    <3>3. /\ told'[held[w]] \in {0, 1}
          /\ \A j \in Jobs : j # held[w] => told'[j] = told[j]
      BY <1>t, <2>6, <3>2 DEF Tell, TellRaises, TypeOK
    <3>4. ~InHand(w)' /\ pc'[w] # "selected"
      BY <3>1 DEF InHand, InRun
    <3>5. \A v \in Workers : InHand(v)' => v # w /\ held'[v] = held[v] /\ held[v] # held[w] /\ InHand(v)
      BY <1>c, <2>o, <3>1, <3>4 DEF Claims
    <3>6. \A j \in Jobs : told'[j] <= attempts'[j]
      BY <1>c, <3>1, <3>2, <3>3 DEF Claims
    <3> QED
      BY <1>c, <2>o, <3>1, <3>2, <3>3, <3>4, <3>5, <3>6 DEF Claims
  <2>7. CASE Kill(w) \/ Start(w)
    <3>1. pc'[w] \in {"killed", "poll"} /\ UNCHANGED <<status, attempts, told>>
      BY <1>t, <2>7, <2>w DEF Kill, Start, Release, Goto, TypeOK, queue
    <3> QED
      BY <2>a, <3>1 DEF InRun
  <2> QED
    BY <1>4, <2>1, <2>2, <2>3, <2>4, <2>5, <2>6, <2>7 DEF Work, Settle
<1>5. CASE UNCHANGED vars
  BY <1>2, <1>5 DEF vars, queue, worker
<1> QED
  BY <1>1, <1>3, <1>4, <1>5, Steps

-----------------------------------------------------------------------------
(* What is written: one bundle that passed its checks.                     *)

WritingBy(w) ==
  /\ Validate /\ pc[w] = "write" => draft[w].ok
  /\ pc[w] \in {"write", "commit"} => draft[w].files \ left[w] \subseteq copy[w].files
  /\ pc[w] = "commit" => left[w] = {}

LEMMA WritingStep == IInv /\ [Next]_vars => Writing'
<1> SUFFICES ASSUME IInv, [Next]_vars PROVE Writing'
  OBVIOUS
<1>t. TypeOK
  BY DEF IInv
<1>p. \A w \in Workers : WritingBy(w)
  BY DEF IInv, Writing, WritingBy
<1>0. (\A w \in Workers : WritingBy(w)') => Writing'
  BY DEF Writing, WritingBy
<1>1. ASSUME NEW w \in Workers, UNCHANGED <<pc[w], draft[w], copy[w], left[w]>> PROVE WritingBy(w)'
  BY <1>1, <1>p DEF WritingBy
<1>2. ASSUME NEW w \in Workers, Work(w) \/ Start(w) \/ Kill(w) PROVE Writing'
  <2>o. \A v \in Workers : v # w => WritingBy(v)'
    BY <1>1, <1>2, <1>t, WorkerOnly
  <2>w. w \in Agents
    BY Assumed
  <2>1. CASE pc'[w] \notin {"write", "commit"}
    BY <1>0, <2>1, <2>o DEF WritingBy
  <2>2. CASE Generate(w) \/ CheckPassed(w)
    <3>1. /\ pc'[w] \in {"write", "check"}
          /\ pc'[w] = "write" => left'[w] = draft'[w].files /\ (Validate => draft'[w].ok)
      BY <1>t, <2>2, <2>w DEF Generate, CheckPassed, OpenFolder, Goto, TypeOK, worker
    <3> QED
      BY <1>0, <2>o, <3>1 DEF WritingBy
  <2>3. CASE WriteModule(w)
    <3>1. PICK f \in left[w] : /\ left' = [left EXCEPT ![w] = left[w] \ {f}]
                               /\ copy' = [copy EXCEPT ![w].files = copy[w].files \cup {f}]
                               /\ pc' = pc /\ draft' = draft /\ pc[w] = "write"
      BY <2>3 DEF WriteModule, worker
    <3>2. left'[w] = left[w] \ {f}
      BY <1>t, <2>w, <3>1 DEF TypeOK
    <3>3. copy[w] \in Manifest /\ copy'[w] = [copy[w] EXCEPT !.files = copy[w].files \cup {f}]
      BY <1>t, <2>w, <3>1 DEF TypeOK
    <3>4. copy'[w].files = copy[w].files \cup {f}
      BY <3>3 DEF Manifest
    <3>5. WritingBy(w)'
      BY <1>p, <3>1, <3>2, <3>4 DEF WritingBy
    <3> QED
      BY <1>0, <2>o, <3>5
  <2>4. CASE Truncate(w)
    <3>1. pc[w] = "write" /\ left[w] = {} /\ pc'[w] = "commit" /\ UNCHANGED <<left, copy, draft>>
      BY <1>t, <2>4, <2>w DEF Truncate, Goto, TypeOK, worker
    <3>2. WritingBy(w)'
      BY <1>p, <3>1 DEF WritingBy
    <3> QED
      BY <1>0, <2>o, <3>2
  <2>5. CASE ~(Generate(w) \/ CheckPassed(w) \/ WriteModule(w) \/ Truncate(w))
    <3>1. pc'[w] \notin {"write", "commit"}
      BY <1>2, <1>t, <2>5, <2>w DEF Work, RunCoder, Settle, Select, Claim, Repair, RunFails, Commit,
           RunRaises, MarkDone, MarkFailed, MarkRaised, Tell, TellRaises, Start, Kill, Release, Goto, TypeOK
    <3> QED
      BY <2>1, <3>1
  <2> QED
    BY <2>2, <2>3, <2>4, <2>5
<1>3. ASSUME NEW r \in Readers, Read(r) \/ (r = Owner /\ (Confirm \/ Interrupt)) PROVE Writing'
  <2>1. draft' = draft /\ \A w \in Workers : pc'[w] = pc[w] /\ copy'[w] = copy[w] /\ left'[w] = left[w]
    BY <1>3, <1>t, ReaderOnly, Assumed DEF worker
  <2> QED
    BY <1>0, <1>1, <2>1
<1>4. ASSUME UNCHANGED <<pc, draft, copy, left>> PROVE Writing'
  BY <1>0, <1>1, <1>4
<1> QED
  BY <1>2, <1>3, <1>4, Steps DEF Enqueue, vars, worker

\* Only a worker touches the modules, a write at a time, and only the end of a
\* run, MarkDone, records any.
LEMMA FolderChanges ==
  ASSUME IInv, [Next]_vars
  PROVE  /\ disk' = disk \/ \E w \in Workers : WriteModule(w)
         /\ modules' = modules \/ \E w \in Workers : MarkDone(w)
         /\ \/ manifest' = manifest
            \/ \E w \in Workers : Truncate(w) \/ Commit(w)
            \/ TruncateFlip \/ Flip
BY DEF Next, Work, RunCoder, Settle, Read, Confirm, Enqueue, Select, Claim, Generate, CheckPassed, Repair,
       RunFails, WriteModule, Truncate, Commit, RunRaises, MarkDone, MarkFailed, MarkRaised, Tell, TellRaises,
       Start, Kill, Boot, BootBundle, Import, ImportRaises, Booted, Stop, Review, Reread, TruncateFlip, Flip,
       Interrupt, vars, folder, queue

LEMMA CheckedStep == IInv /\ [Next]_vars => CheckedOnly'
<1> SUFFICES ASSUME IInv, [Next]_vars, Validate PROVE \A f \in Files : disk'[f] # NoFile => disk'[f].ok
  BY DEF CheckedOnly
<1>1. \A f \in Files : disk[f] # NoFile => disk[f].ok
  BY DEF IInv, CheckedOnly
<1>2. ASSUME NEW w \in Workers, WriteModule(w) PROVE \A f \in Files : disk'[f] # NoFile => disk'[f].ok
  <2>1. PICK f \in left[w] : disk' = [disk EXCEPT ![f] = [job |-> held[w], ok |-> draft[w].ok]]
    BY <1>2 DEF WriteModule
  <2>2. draft[w].ok
    BY <1>2 DEF WriteModule, IInv, Writing
  <2> QED
    BY <1>1, <2>1, <2>2 DEF IInv, TypeOK
<1> QED
  BY <1>1, <1>2, FolderChanges

LEMMA BegunStep == IInv /\ [Next]_vars => Begun'
<1> SUFFICES ASSUME IInv, [Next]_vars PROVE Begun'
  OBVIOUS
<1>t. TypeOK /\ Begun
  BY DEF IInv
<1>m. manifest.status # "none" => manifest'.status # "none"
  BY FolderChanges DEF Truncate, Commit, TruncateFlip, Flip, Torn
<1>1. ASSUME NEW w \in Workers, Work(w) \/ Start(w) \/ Kill(w) PROVE Begun'
  <2>o. \A v \in Workers : v # w => pc'[v] = pc[v]
    BY <1>1, <1>t, WorkerOnly
  <2>w. w \in Agents
    BY Assumed
  <2>1. pc'[w] \in {"commit", "done"} => manifest'.status # "none"
    <3>1. CASE Truncate(w) \/ Commit(w)
      BY <3>1 DEF Truncate, Commit, Torn
    <3>2. CASE Repair(w) \/ WriteModule(w)
      BY <1>t, <1>m, <3>2 DEF Repair, WriteModule, Begun
    <3>3. CASE ~(Truncate(w) \/ Commit(w) \/ Repair(w) \/ WriteModule(w))
      BY <1>1, <1>t, <2>w, <3>3 DEF Work, RunCoder, Settle, Select, Claim, Generate, CheckPassed, RunFails,
           RunRaises, MarkDone, MarkFailed, MarkRaised, Tell, TellRaises, Start, Kill, Release, Goto, TypeOK
    <3> QED
      BY <3>1, <3>2, <3>3
  <2>2. ASSUME NEW j \in Jobs, status'[j] = "done" PROVE manifest'.status # "none"
    <3>1. CASE status[j] = "done"
      BY <1>t, <1>m, <3>1 DEF Begun
    <3>2. CASE status[j] # "done"
      <4>1. MarkDone(w)
        BY <1>1, <1>t, <2>2, <3>2 DEF Work, RunCoder, Settle, Select, Claim, Generate, CheckPassed, Repair,
             RunFails, WriteModule, Truncate, Commit, RunRaises, MarkFailed, MarkRaised, Tell, TellRaises,
             Start, Kill, TypeOK, queue
      <4> QED
        BY <1>t, <1>m, <4>1 DEF MarkDone, Begun
    <3> QED
      BY <3>1, <3>2
  <2> QED
    BY <1>t, <1>m, <2>o, <2>1, <2>2 DEF Begun
<1>2. ASSUME NEW r \in Readers, Read(r) \/ (r = Owner /\ (Confirm \/ Interrupt)) PROVE Begun'
  <2>1. status' = status /\ \A w \in Workers : pc'[w] = pc[w]
    BY <1>2, <1>t, ReaderOnly, Assumed DEF queue
  <2> QED
    BY <1>t, <1>m, <2>1 DEF Begun
<1>3. ASSUME NEW j \in Jobs, Enqueue(j) PROVE Begun'
  BY <1>3, <1>t DEF Enqueue, Begun, TypeOK, folder
<1>4. CASE UNCHANGED vars
  BY <1>4, <1>t DEF vars, queue, folder, Begun
<1> QED
  BY <1>1, <1>2, <1>3, <1>4, Steps

-----------------------------------------------------------------------------
(* One job in the folder: as long as no second job of the request is begun. *)

Only == IInv /\ OneJobOnly /\ Alone

\* A job that was begun stays begun.
LEMMA OneJobBefore == ASSUME IInv, [Next]_vars, OneJobOnly' PROVE OneJobOnly /\ Alone
<1>1. \A j \in Jobs : attempts[j] > 0 => attempts'[j] > 0
  <2>1. \A j \in Jobs : attempts[j] \in Nat
    BY DEF IInv, TypeOK
  <2>2. CASE \E w \in Workers : Claim(w)
    BY <2>1, <2>2 DEF Claim, IInv, TypeOK
  <2>3. CASE ~\E w \in Workers : Claim(w)
    BY <2>3 DEF Next, Work, RunCoder, Settle, Read, Confirm, Enqueue, Select, Generate, CheckPassed, Repair,
       RunFails, WriteModule, Truncate, Commit, RunRaises, MarkDone, MarkFailed, MarkRaised, Tell, TellRaises,
       Start, Kill, Boot, BootBundle, Import, ImportRaises, Booted, Stop, Review, Reread, TruncateFlip, Flip,
       Interrupt, vars, queue
  <2> QED
    BY <2>2, <2>3
<1> QED
  BY <1>1 DEF OneJobOnly, IInv

\* A worker that has the job is alone, and nothing is done before it is.
LEMMA OneHand ==
  ASSUME Only, NEW w \in Workers, InHand(w)
  PROVE  /\ \A v \in Workers : InHand(v) => v = w
         /\ pc[w] # "tell" => \A j \in Jobs : status[j] # "done"
<1>c. Claims
  BY DEF Only, IInv
<1>1. held[w] \in Jobs /\ attempts[held[w]] = 1 /\ (pc[w] # "tell" => status[held[w]] = "running")
  BY <1>c DEF Claims
<1>2. ASSUME NEW v \in Workers, InHand(v) PROVE v = w
  <2>1. held[v] \in Jobs /\ attempts[held[v]] = 1
    BY <1>2, <1>c DEF Claims
  <2>2. held[v] = held[w]
    BY <1>1, <2>1 DEF Only, OneJobOnly
  <2> QED
    BY <1>2, <1>c, <2>2 DEF Claims
<1>3. ASSUME NEW j \in Jobs, status[j] = "done" PROVE j = held[w]
  <2>1. attempts[j] = 1
    BY <1>3, <1>c DEF Claims
  <2> QED
    BY <1>1, <2>1 DEF Only, OneJobOnly
<1> QED
  BY <1>1, <1>2, <1>3

\* While it writes, nothing of the bundle has been seen, listed or loaded.
LEMMA Writer ==
  ASSUME Only, NEW w \in Workers, pc[w] \in InRun
  PROVE  /\ InHand(w) /\ \A v \in Workers : InHand(v) => v = w
         /\ \A j \in Jobs : status[j] # "done"
         /\ reviewed = {} /\ manifest.status \notin {"inert", "active"}
         /\ \A r \in Readers : loaded[r] = {} /\ left[r] = {} /\ pc[r] # "listed"
         /\ pc[Owner] \notin {"listed", "boot", "activate", "rewrite", "flip"}
<1>1. InHand(w) /\ pc[w] # "tell"
  BY DEF InHand, InRun
<1>2. reviewed = {} /\ manifest.status \notin {"inert", "active"}
  BY DEF Only, Alone, NoWriter, Complete
<1>3. \A r \in Readers : loaded[r] = {} /\ left[r] = {} /\ pc[r] # "listed"
  BY <1>2 DEF Only, Alone, Reviewed, Seen
<1>4. pc[Owner] \notin {"listed", "boot", "activate", "rewrite", "flip"}
  BY <1>2 DEF Only, Alone, Reviewed
<1> QED
  BY <1>1, <1>2, <1>3, <1>4, OneHand

\* Steps of a worker that is not building.
Outside(w) == Select(w) \/ Settle(w) \/ Start(w) \/ Kill(w)

LEMMA OutsideRun ==
  ASSUME TypeOK, NEW w \in Workers, Outside(w)
  PROVE  pc'[w] \notin InRun \cup {"done"} /\ UNCHANGED <<folder, owner>>
<1>1. w \in Agents
  BY Assumed
<1> QED
  BY <1>1 DEF TypeOK, Outside, Settle, Select, MarkDone, MarkFailed, MarkRaised, Tell, TellRaises, Start, Kill,
              Release, Goto, InRun, folder, owner

LEMMA NoWriterStep ==
  ASSUME Only, [Next]_vars, OneJobOnly', Claims'
  PROVE  NoWriter'
<1>i. TypeOK /\ Claims /\ NoWriter
  BY DEF Only, IInv, Alone
<1>1. ASSUME UNCHANGED <<manifest, reviewed, attempts>>, \A w \in Workers : pc'[w] \in InRun => pc[w] \in InRun
      PROVE  NoWriter'
  BY <1>1, <1>i DEF NoWriter, Complete
<1>2. ASSUME NEW w \in Workers, Work(w) \/ Start(w) \/ Kill(w) PROVE NoWriter'
  <2>o. (\A v \in Workers : v # w => pc'[v] = pc[v]) /\ reviewed' = reviewed
    BY <1>2, <1>i, WorkerOnly DEF owner
  <2>w. w \in Agents
    BY Assumed
  <2>1. CASE Outside(w)
    <3>1. attempts' = attempts
      BY <2>1 DEF Outside, Settle, Select, MarkDone, MarkFailed, MarkRaised, Tell, TellRaises, Start, Kill, queue
    <3> QED
      BY <1>1, <1>i, <2>1, <2>o, <3>1, OutsideRun DEF folder
  <2>2. CASE Claim(w)
    <3>1. CASE status[held[w]] = "pending"
      <4>1. held[w] \in Jobs /\ manifest' = manifest
        BY <1>i, <2>2 DEF Claim, Claims, folder
      <4>2. attempts[held[w]] = 0 /\ attempts'[held[w]] = 1
        BY <1>i, <2>2, <3>1, <4>1 DEF Claim, Claims, TypeOK
      <4>3. \A j \in Jobs : j # held[w] => attempts'[j] = attempts[j]
        BY <1>i, <2>2, <3>1 DEF Claim, TypeOK
      <4>4. ~Complete
        BY <1>i, <4>1, <4>2, <4>3 DEF NoWriter, OneJobOnly
      <4> QED
        BY <2>o, <4>1, <4>4 DEF NoWriter, Complete
    <3>2. CASE status[held[w]] # "pending"
      <4>1. pc'[w] = "poll" /\ UNCHANGED <<manifest, attempts>>
        BY <1>i, <2>2, <2>w, <3>2 DEF Claim, Goto, TypeOK, folder
      <4> QED
        BY <1>1, <2>o, <4>1 DEF InRun
    <3> QED
      BY <3>1, <3>2
  <2>3. CASE RunCoder(w) /\ ~Commit(w)
    <3>1. pc[w] \in InRun /\ manifest' \in {manifest, Torn}
      BY <2>3 DEF RunCoder, Generate, CheckPassed, Repair, RunFails, WriteModule, Truncate, RunRaises, InRun, folder
    <3>2. ~Complete
      BY <1>i, <3>1 DEF NoWriter
    <3> QED
      BY <2>o, <3>1, <3>2 DEF NoWriter, Complete, Torn
  <2>4. CASE Commit(w)
    <3>1. pc[w] \in InRun /\ pc'[w] = "done" /\ attempts' = attempts
      BY <1>i, <2>4, <2>w DEF Commit, Goto, TypeOK, InRun, queue
    <3>2. held[w] \in Jobs /\ attempts[held[w]] = 1
      BY <1>i, <3>1, Writer DEF Claims
    <3>3. \A v \in Workers : pc'[v] \notin InRun
      BY <2>o, <3>1, Writer DEF InHand, InRun
    <3> QED
      BY <3>1, <3>2, <3>3 DEF NoWriter
  <2> QED
    BY <1>2, <2>1, <2>2, <2>3, <2>4 DEF Work, Outside
<1>3. ASSUME NEW r \in Readers, Read(r) \/ (r = Owner /\ (Confirm \/ Interrupt)) PROVE NoWriter'
  <2>1. attempts' = attempts /\ \A w \in Workers : pc'[w] = pc[w]
    BY <1>3, <1>i, ReaderOnly, Assumed DEF queue
  <2>2. Complete' => Complete
    <3>1. CASE Review
      BY <3>1 DEF Review, Complete
    <3>2. CASE Flip \/ TruncateFlip
      BY <3>2 DEF Flip, TruncateFlip, Complete, Only, Alone, Reviewed
    <3>3. CASE ~(Review \/ Flip \/ TruncateFlip)
      BY <1>3, <3>3 DEF Read, Confirm, Boot, BootBundle, Import, ImportRaises, Booted, Stop, Reread, Interrupt,
                        Complete, folder, owner
    <3> QED
      BY <3>1, <3>2, <3>3
  <2> QED
    BY <1>i, <2>1, <2>2 DEF NoWriter
<1>4. CASE UNCHANGED vars \/ \E j \in Jobs : Enqueue(j)
  <2>1. UNCHANGED <<manifest, reviewed, attempts, pc>>
    BY <1>4 DEF vars, queue, folder, owner, Enqueue
  <2> QED
    BY <1>1, <2>1
<1> QED
  BY <1>2, <1>3, <1>4, Steps

LEMMA OnDiskStep ==
  ASSUME Only, [Next]_vars
  PROVE  OnDisk'
<1>i. TypeOK /\ Claims /\ Writing /\ OnDisk
  BY DEF Only, IInv, Alone
<1>1. ASSUME UNCHANGED <<disk, modules, draft, held>>,
             \A j \in Jobs : status'[j] = "done" => status[j] = "done",
             \A w \in Workers : pc'[w] \in {"write", "commit", "done"} => pc'[w] = pc[w] /\ left'[w] = left[w]
      PROVE  OnDisk'
  BY <1>1, <1>i DEF OnDisk
<1>2. ASSUME NEW w \in Workers, Work(w) \/ Start(w) \/ Kill(w) PROVE OnDisk'
  <2>o. \A v \in Workers : v # w => /\ pc'[v] = pc[v] /\ left'[v] = left[v]
                                    /\ draft'[v] = draft[v] /\ held'[v] = held[v]
    BY <1>2, <1>i, WorkerOnly
  <2>w. w \in Agents
    BY Assumed
  <2>d. ASSUME disk' = disk, modules' = modules, pc'[w] \notin {"write", "commit", "done"},
               \A j \in Jobs : status'[j] = "done" => status[j] = "done"
        PROVE  OnDisk'
    BY <1>i, <2>d, <2>o DEF OnDisk
  <2>1. CASE Generate(w) \/ CheckPassed(w)
    <3>1. /\ UNCHANGED <<disk, modules, held, status>> /\ pc'[w] \in {"write", "check"}
          /\ pc'[w] = "write" => left'[w] = draft'[w].files
      BY <1>i, <2>1, <2>w DEF Generate, CheckPassed, OpenFolder, Goto, TypeOK, worker, queue, folder
    <3> QED
      BY <1>i, <2>o, <3>1 DEF OnDisk
  <2>2. CASE WriteModule(w)
    <3>1. PICK f \in left[w] : /\ disk' = [disk EXCEPT ![f] = [job |-> held[w], ok |-> draft[w].ok]]
                               /\ left' = [left EXCEPT ![w] = left[w] \ {f}]
      BY <2>2 DEF WriteModule
    <3>2. /\ pc[w] = "write" /\ UNCHANGED <<modules, held, draft, status, pc>>
      BY <2>2 DEF WriteModule, queue, worker
    <3>3. /\ left'[w] = left[w] \ {f}
          /\ \A g \in Files : IF g = f THEN disk'[g].job = held[w] ELSE disk'[g] = disk[g]
      BY <1>i, <2>w, <3>1 DEF TypeOK
    <3>4. \A v \in Workers : pc[v] \in {"write", "commit", "done"} => v = w
      BY <3>2, Writer DEF InHand, InRun
    <3>5. \A j \in Jobs : status'[j] # "done"
      BY <3>2, Writer DEF InRun
    <3>6. draft[w].files \subseteq Files
      BY <1>i, Records DEF TypeOK
    <3>7. \A g \in draft[w].files \ left'[w] : disk'[g].job = held[w]
      BY <1>i, <3>2, <3>3, <3>6 DEF OnDisk
    <3> QED
      BY <3>2, <3>4, <3>5, <3>7 DEF OnDisk
  <2>3. CASE Truncate(w)
    <3>1. /\ UNCHANGED <<disk, modules, held, draft, status>>
          /\ pc[w] = "write" /\ left[w] = {} /\ pc'[w] = "commit"
      BY <1>i, <2>3, <2>w DEF Truncate, Goto, TypeOK, queue, worker
    <3> QED
      BY <1>i, <2>o, <3>1 DEF OnDisk
  <2>4. CASE Commit(w)
    <3>1. UNCHANGED <<disk, modules, held, draft, status>> /\ pc[w] = "commit" /\ pc'[w] = "done"
      BY <1>i, <2>4, <2>w DEF Commit, Goto, TypeOK, queue, worker
    <3> QED
      BY <1>i, <2>o, <3>1 DEF OnDisk
  <2>5. CASE MarkDone(w)
    <3>1. /\ UNCHANGED <<disk, held, draft>> /\ pc[w] = "done" /\ pc'[w] = "tell"
          /\ status' = [status EXCEPT ![held[w]] = "done"]
          /\ modules' = [modules EXCEPT ![held[w]] = draft[w].files]
      BY <1>i, <2>5, <2>w DEF MarkDone, Goto, TypeOK, folder, worker
    <3>2. \A j \in Jobs : IF j = held[w] THEN modules'[j] = draft[w].files
                                         ELSE modules'[j] = modules[j] /\ status'[j] = status[j]
      BY <1>i, <3>1 DEF TypeOK
    <3> QED
      BY <1>i, <2>o, <3>1, <3>2 DEF OnDisk
  <2>6. CASE Select(w) \/ Claim(w) \/ Repair(w) \/ RunFails(w) \/ RunRaises(w) \/ MarkFailed(w)
             \/ MarkRaised(w) \/ Tell(w) \/ TellRaises(w) \/ Start(w) \/ Kill(w)
    <3>1. UNCHANGED <<disk, modules>> /\ pc'[w] \notin {"write", "commit", "done"}
      BY <1>i, <2>6, <2>w DEF Select, Claim, Repair, RunFails, RunRaises, MarkFailed, MarkRaised, Tell,
           TellRaises, Start, Kill, Release, Goto, TypeOK, folder, queue
    <3>2. \A j \in Jobs : status'[j] = "done" => status[j] = "done"
      BY <1>i, <2>6 DEF Select, Claim, Repair, RunFails, RunRaises, MarkFailed, MarkRaised, Tell,
           TellRaises, Start, Kill, TypeOK, queue
    <3> QED
      BY <2>d, <3>1, <3>2
  <2> QED
    BY <1>2, <2>1, <2>2, <2>3, <2>4, <2>5, <2>6 DEF Work, RunCoder, Settle
<1>3. ASSUME NEW r \in Readers, Read(r) \/ (r = Owner /\ (Confirm \/ Interrupt)) PROVE OnDisk'
  <2>1. UNCHANGED <<status, modules, disk, draft, held>>
        /\ \A w \in Workers : pc'[w] = pc[w] /\ left'[w] = left[w]
    BY <1>3, <1>i, ReaderOnly, Assumed DEF queue, worker
  <2> QED
    BY <1>1, <2>1
<1>4. ASSUME NEW j \in Jobs, Enqueue(j) PROVE OnDisk'
  <2>1. UNCHANGED <<disk, modules, draft, held, pc, left>>
        /\ \A k \in Jobs : status'[k] = "done" => status[k] = "done"
    BY <1>4, <1>i DEF Enqueue, TypeOK, folder, worker
  <2> QED
    BY <1>1, <2>1
<1>5. CASE UNCHANGED vars
  BY <1>1, <1>5 DEF vars, queue, folder, worker
<1> QED
  BY <1>2, <1>3, <1>4, <1>5, Steps

\* No step but the end of a run adds to what has to be listed, and that adds
\* what its worker had to list anyway.
LEMMA ListsGrow ==
  ASSUME Only, [Next]_vars, ~\E w \in Workers : Commit(w), NEW F, Lists(F)
  PROVE  Lists(F)'
<1>i. TypeOK /\ Claims
  BY DEF Only, IInv
<1>1. ASSUME NEW w \in Workers, Work(w) \/ Start(w) \/ Kill(w) PROVE Lists(F)'
  <2>o. \A v \in Workers : v # w => pc'[v] = pc[v] /\ draft'[v] = draft[v]
    BY <1>1, <1>i, WorkerOnly
  <2>w. w \in Agents
    BY Assumed
  <2>1. pc'[w] # "done"
    BY <1>1, <1>i, <2>w DEF Work, RunCoder, Settle, Select, Claim, Generate, CheckPassed, Repair, RunFails,
         WriteModule, Truncate, RunRaises, MarkDone, MarkFailed, MarkRaised, Tell, TellRaises, Start, Kill,
         Release, Goto, TypeOK
  <2>2. CASE MarkDone(w)
    <3>1. \A j \in Jobs : IF j = held[w] THEN modules'[j] = draft[w].files
                                         ELSE modules'[j] = modules[j] /\ status'[j] = status[j]
      BY <1>i, <2>2 DEF MarkDone, TypeOK
    <3>2. pc[w] = "done"
      BY <2>2 DEF MarkDone
    <3> QED
      BY <2>1, <2>o, <3>1, <3>2 DEF Lists
  <2>3. CASE ~MarkDone(w)
    <3>1. modules' = modules /\ \A j \in Jobs : status'[j] = "done" => status[j] = "done"
      BY <1>1, <1>i, <2>3 DEF Work, RunCoder, Settle, Select, Claim, Generate, CheckPassed, Repair, RunFails,
           WriteModule, Truncate, RunRaises, MarkFailed, MarkRaised, Tell, TellRaises, Start, Kill, TypeOK, queue
    <3> QED
      BY <2>1, <2>o, <3>1 DEF Lists
  <2> QED
    BY <2>2, <2>3
<1>2. ASSUME NEW r \in Readers, Read(r) \/ (r = Owner /\ (Confirm \/ Interrupt)) PROVE Lists(F)'
  <2>1. UNCHANGED <<status, modules, draft>> /\ \A w \in Workers : pc'[w] = pc[w]
    BY <1>2, <1>i, ReaderOnly, Assumed DEF queue, worker
  <2> QED
    BY <2>1 DEF Lists
<1>3. ASSUME NEW j \in Jobs, Enqueue(j) PROVE Lists(F)'
  <2>1. UNCHANGED <<modules, draft, pc>> /\ \A k \in Jobs : status'[k] = "done" => status[k] = "done"
    BY <1>3, <1>i DEF Enqueue, TypeOK, worker
  <2> QED
    BY <2>1 DEF Lists
<1>4. CASE UNCHANGED vars
  BY <1>4 DEF vars, queue, worker, Lists
<1> QED
  BY <1>1, <1>2, <1>3, <1>4, Steps

LEMMA ListedStep ==
  ASSUME Only, [Next]_vars
  PROVE  Listed'
<1>i. TypeOK /\ Claims /\ Writing /\ Begun /\ Listed
  BY DEF Only, IInv, Alone
<1>o. Owner \in Agents /\ Owner \in Readers
  BY Assumed
<1>1. ASSUME NEW w \in Workers, Commit(w) PROVE Listed'
  <2>1. /\ pc[w] = "commit" /\ pc'[w] = "done" /\ UNCHANGED <<status, draft, copy>>
        /\ manifest' = [status |-> "inert", files |-> copy[w].files]
    BY <1>1, <1>i, Assumed DEF Commit, Goto, TypeOK, queue, worker
  <2>2. draft[w].files \subseteq copy[w].files
    BY <1>i, <2>1 DEF Writing
  <2>3. \A v \in Workers : pc'[v] = "done" => v = w
    <3>1. \A v \in Workers : v # w => pc'[v] = pc[v]
      BY <1>1, <1>i, WorkerOnly DEF Work, RunCoder
    <3>2. \A v \in Workers : pc[v] = "done" => v = w
      BY <2>1, Writer DEF InHand, InRun
    <3> QED
      BY <3>1, <3>2
  <2>4. Lists(manifest.files)'
    BY <2>1, <2>2, <2>3, Writer DEF Lists, InRun
  <2>5. ~Confirming'
    <3>1. pc'[Owner] = pc[Owner]
      BY <1>1, <1>i, <1>o, WorkerOnly DEF Work, RunCoder
    <3>2. pc[Owner] \notin {"rewrite", "flip"}
      BY <2>1, Writer DEF InRun
    <3> QED
      BY <3>1, <3>2 DEF Confirming
  <2> QED
    BY <2>4, <2>5 DEF Listed
<1>2. ASSUME ~\E w \in Workers : Commit(w) PROVE Listed'
  <2>g. \A F : Lists(F) => Lists(F)'
    BY <1>2, ListsGrow
  <2>1. CASE Reread
    <3>1. /\ pc' = [pc EXCEPT ![Owner] = "rewrite"] /\ copy' = [copy EXCEPT ![Owner] = manifest]
          /\ manifest.status # "torn" /\ manifest' = manifest
      BY <2>1 DEF Reread, Goto, folder
    <3>2. copy'[Owner] = manifest
      BY <1>i, <1>o, <3>1 DEF TypeOK
    <3>3. Lists(manifest.files)
      <4>1. CASE manifest.status \in {"inert", "active"}
        BY <1>i, <4>1 DEF Listed
      <4>2. CASE manifest.status = "none"
        BY <1>i, <4>2 DEF Begun, Lists
      <4> QED
        BY <1>i, <3>1, <4>1, <4>2, Records DEF TypeOK
    <3> QED
      BY <2>g, <3>1, <3>2, <3>3 DEF Listed
  <2>2. CASE TruncateFlip
    <3>1. pc[Owner] = "rewrite" /\ manifest' = Torn /\ copy' = copy
      BY <2>2 DEF TruncateFlip
    <3> QED
      BY <1>i, <2>g, <3>1 DEF Listed, Confirming, Torn
  <2>3. CASE Flip
    <3>1. /\ pc[Owner] = "flip" /\ pc' = [pc EXCEPT ![Owner] = "off"]
          /\ manifest' = [status |-> "active", files |-> copy[Owner].files]
      BY <2>3 DEF Flip, Goto
    <3>2. pc'[Owner] = "off"
      BY <1>i, <1>o, <3>1 DEF TypeOK
    <3> QED
      BY <1>i, <2>g, <3>1, <3>2 DEF Listed, Confirming
  <2>4. CASE ~(Reread \/ TruncateFlip \/ Flip)
    <3>1. manifest' = manifest \/ manifest' = Torn
      BY <1>2, <2>4, FolderChanges DEF Only, Truncate
    <3>2. Confirming' => Confirming /\ copy'[Owner] = copy[Owner]
      <4>1. ASSUME NEW w \in Workers, Work(w) \/ Start(w) \/ Kill(w)
            PROVE  Confirming' => Confirming /\ copy'[Owner] = copy[Owner]
        BY <1>i, <1>o, <4>1, WorkerOnly DEF Confirming
      <4>2. ASSUME NEW r \in Readers, r # Owner, Read(r)
            PROVE  Confirming' => Confirming /\ copy'[Owner] = copy[Owner]
        BY <1>i, <1>o, <4>2, ReaderOnly DEF Confirming
      <4>3. ASSUME Read(Owner) \/ Review \/ Interrupt
            PROVE  Confirming' => Confirming /\ copy'[Owner] = copy[Owner]
        BY <1>i, <1>o, <4>3 DEF Read, Boot, BootBundle, Import, ImportRaises, Booted, Stop, Review, Interrupt,
             Goto, Drop, TypeOK, Confirming
      <4>4. ASSUME UNCHANGED vars \/ \E j \in Jobs : Enqueue(j)
            PROVE  Confirming' => Confirming /\ copy'[Owner] = copy[Owner]
        BY <4>4 DEF vars, Enqueue, Confirming
      <4> QED
        BY <2>4, <4>1, <4>2, <4>3, <4>4, Steps DEF Confirm
    <3> QED
      BY <1>i, <2>g, <3>1, <3>2 DEF Listed, Torn
  <2> QED
    BY <2>1, <2>2, <2>3, <2>4
<1> QED
  BY <1>1, <1>2

LEMMA ReviewedStep ==
  ASSUME Only, [Next]_vars
  PROVE  Reviewed'
<1>i. TypeOK /\ Reviewed
  BY DEF Only, IInv, Alone
<1>o. Owner \in Agents /\ Owner \in Readers /\ Readers \subseteq Agents /\ Workers \cap Readers = {}
  BY Assumed
<1>1. ASSUME NEW w \in Workers, pc[w] \in InRun, Work(w) \/ Start(w) \/ Kill(w) PROVE Reviewed'
  <2>1. \A r \in Readers : pc'[r] = pc[r] /\ left'[r] = left[r]
    BY <1>1, <1>i, WorkerOnly
  <2>2. UNCHANGED <<loaded, reviewed>>
    BY <1>1, <1>i, WorkerOnly DEF owner
  <2>3. manifest' = manifest \/ manifest'.status # "active"
    BY <1>1 DEF Work, RunCoder, Settle, Select, Claim, Generate, CheckPassed, Repair, RunFails, WriteModule,
         Truncate, Commit, RunRaises, MarkDone, MarkFailed, MarkRaised, Tell, TellRaises, Start, Kill, folder,
         Torn
  <2> QED
    BY <1>1, <1>o, <2>1, <2>2, <2>3, Writer DEF Reviewed, Seen
<1>2. ASSUME UNCHANGED <<disk, manifest>>, reviewed \subseteq reviewed', reviewed' # {} => reviewed # {},
             \A r \in Readers : /\ loaded'[r] = loaded[r] /\ left'[r] = left[r]
                                /\ pc'[r] = pc[r] /\ copy'[r] = copy[r]
      PROVE  Reviewed'
  <2>1. \A f : Content(f)' = Content(f)
    BY <1>2 DEF Content
  <2> QED
    BY <1>2, <1>i, <1>o, <2>1 DEF Reviewed, Seen, Confirming
<1>3. ASSUME NEW w \in Workers, pc[w] \notin InRun, Work(w) \/ Start(w) \/ Kill(w) PROVE Reviewed'
  <2>1. UNCHANGED <<disk, manifest>>
    BY <1>3 DEF Work, RunCoder, Settle, Select, Claim, Generate, CheckPassed, Repair, RunFails, WriteModule,
         Truncate, Commit, RunRaises, MarkDone, MarkFailed, MarkRaised, Tell, TellRaises, Start, Kill, folder,
         InRun
  <2> QED
    BY <1>2, <1>3, <1>i, <2>1, WorkerOnly DEF owner
<1>4. ASSUME NEW r \in Readers, Read(r) \/ (r = Owner /\ Interrupt) PROVE Reviewed'
  <2>1. UNCHANGED <<disk, manifest, reviewed>>
    BY <1>4 DEF Read, Boot, BootBundle, Import, ImportRaises, Booted, Stop, Interrupt, folder, owner
  <2>2. \A q \in Readers : q # r => /\ loaded'[q] = loaded[q] /\ left'[q] = left[q]
                                    /\ pc'[q] = pc[q] /\ copy'[q] = copy[q]
    BY <1>4, <1>i, <1>o, ReaderOnly
  <2>3. \A f : Content(f)' = Content(f)
    BY <2>1 DEF Content
  <2>a. ASSUME loaded'[r] \subseteq reviewed, Seen(left'[r]),
               pc'[r] \in {"listed"} => reviewed # {},
               r = Owner /\ pc'[r] \in {"boot", "activate", "rewrite", "flip"} => reviewed # {},
               r = Owner => pc'[r] \notin {"rewrite", "flip"}
        PROVE  Reviewed'
    <3>1. Confirming' => Confirming /\ r # Owner
      BY <2>a, <2>2, <1>o DEF Confirming
    <3>2. \A q \in Readers : loaded'[q] \subseteq reviewed' /\ Seen(left[q])'
      BY <1>i, <2>a, <2>1, <2>2, <2>3 DEF Reviewed, Seen
    <3>3. reviewed' # {} => Seen(manifest.files)' /\ (Confirming' => Seen(copy[Owner].files)')
      BY <1>i, <1>o, <2>1, <2>2, <2>3, <3>1, <2>a DEF Reviewed, Seen, Confirming
    <3>4. \A q \in Readers : pc'[q] = "listed" => reviewed' # {}
      BY <1>i, <2>a, <2>1, <2>2 DEF Reviewed
    <3>5. pc'[Owner] \in {"listed", "boot", "activate", "rewrite", "flip"} => reviewed' # {}
      BY <1>i, <1>o, <2>a, <2>1, <2>2 DEF Reviewed
    <3> QED
      BY <1>i, <2>1, <3>2, <3>3, <3>4, <3>5 DEF Reviewed
  <2>l. loaded[r] \subseteq reviewed /\ Seen(left[r])
    BY <1>i DEF Reviewed
  <2>4. CASE Boot(r)
    <3>1. /\ left' = left /\ loaded' = loaded
          /\ r = Owner => reviewed # {}
          /\ pc'[r] = CASE manifest.status = "torn"   -> "refused"
                        [] manifest.status = "active" -> "listed"
                        [] OTHER                      -> "boot"
      BY <1>i, <1>o, <2>4 DEF Boot, Goto, TypeOK, owner
    <3>2. pc'[r] \in {"refused", "listed", "boot"} /\ (pc'[r] = "listed" => manifest.status = "active")
      BY <3>1
    <3> QED
      BY <1>i, <2>a, <2>l, <3>1, <3>2 DEF Reviewed
  <2>5. CASE BootBundle(r)
    <3>1. /\ pc[r] = "listed" /\ pc'[r] = "boot" /\ left'[r] = manifest.files /\ loaded' = loaded
      BY <1>i, <1>o, <2>5 DEF BootBundle, Goto, TypeOK, owner
    <3> QED
      BY <1>i, <2>a, <2>l, <3>1 DEF Reviewed
  <2>6. CASE Import(r)
    <3>1. PICK f \in left[r] : /\ loaded' = [loaded EXCEPT ![r] =
                                    IF \E m \in loaded[r] : m.file = f THEN loaded[r]
                                                                       ELSE loaded[r] \cup {Content(f)}]
                               /\ left' = [left EXCEPT ![r] = left[r] \ {f}]
      BY <2>6 DEF Import
    <3>2. loaded'[r] \subseteq loaded[r] \cup {Content(f)} /\ left'[r] = left[r] \ {f}
      BY <1>i, <1>o, <3>1 DEF TypeOK
    <3>3. Content(f) \in reviewed /\ Seen(left'[r])
      BY <2>l, <3>2 DEF Seen
    <3>4. pc[r] \in {"boot", "activate"} /\ pc' = pc
      BY <2>6 DEF Import
    <3> QED
      BY <1>i, <2>a, <2>l, <3>2, <3>3, <3>4 DEF Reviewed
  <2>7. CASE ImportRaises(r)
    <3>1. pc[r] = "boot" /\ pc' = pc /\ left'[r] = {} /\ loaded' = loaded
      BY <1>i, <1>o, <2>7 DEF ImportRaises, TypeOK, owner
    <3> QED
      BY <1>i, <2>a, <2>l, <3>1 DEF Reviewed, Seen
  <2>8. CASE Booted(r)
    <3>1. loaded' = loaded /\ pc[r] = "boot"
      BY <2>8 DEF Booted, owner
    <3>2. CASE r # Owner
      <4>1. pc'[r] = "up" /\ left'[r] = {}
        BY <1>i, <1>o, <2>8, <3>2 DEF Booted, Goto, Drop, TypeOK
      <4> QED
        BY <2>a, <2>l, <3>1, <3>2, <4>1 DEF Seen
    <3>3. CASE r = Owner
      <4>1. pc'[r] = "activate" /\ left'[r] = manifest.files
        BY <1>i, <1>o, <2>8, <3>3 DEF Booted, Goto, TypeOK
      <4>2. reviewed # {}
        BY <1>i, <3>1, <3>3 DEF Reviewed
      <4> QED
        BY <1>i, <2>a, <2>l, <3>1, <4>1, <4>2 DEF Reviewed
    <3> QED
      BY <3>2, <3>3
  <2>9. CASE Stop(r) \/ (r = Owner /\ Interrupt)
    <3>1. pc'[r] = "off" /\ left'[r] = {} /\ loaded'[r] = {}
      BY <1>i, <1>o, <2>9 DEF Stop, Interrupt, Goto, Drop, TypeOK
    <3> QED
      BY <2>a, <3>1 DEF Seen
  <2> QED
    BY <1>4, <2>4, <2>5, <2>6, <2>7, <2>8, <2>9 DEF Read
<1>5. CASE Review
  <2>1. /\ pc[Owner] = "off" /\ UNCHANGED <<disk, manifest, pc, left, loaded, copy>>
        /\ reviewed' = reviewed \cup {Content(f) : f \in manifest.files}
    BY <1>5 DEF Review, folder
  <2>2. \A f : Content(f)' = Content(f)
    BY <2>1 DEF Content
  <2>3. \A f \in manifest.files : Content(f) \in reviewed'
    BY <2>1
  <2>4. \A r \in Readers : loaded'[r] \subseteq reviewed' /\ Seen(left[r])'
    BY <1>i, <2>1, <2>2 DEF Reviewed, Seen
  <2>5. ~Confirming'
    BY <2>1 DEF Confirming
  <2> QED
    BY <1>i, <2>1, <2>2, <2>3, <2>4, <2>5 DEF Reviewed, Seen
<1>6. CASE Reread \/ TruncateFlip \/ Flip
  <2>1. pc[Owner] \in {"activate", "rewrite", "flip"} /\ UNCHANGED <<disk, reviewed>>
    BY <1>6 DEF Reread, TruncateFlip, Flip, folder, owner
  <2>2. reviewed # {}
    BY <1>i, <2>1 DEF Reviewed
  <2>3. \A f : Content(f)' = Content(f)
    BY <2>1 DEF Content
  <2>4. \A q \in Readers : q # Owner => /\ loaded'[q] = loaded[q] /\ left'[q] = left[q] /\ pc'[q] = pc[q]
    BY <1>6, <1>i, <1>o, ReaderOnly DEF Confirm
  <2>5. CASE Reread
    <3>1. copy'[Owner] = manifest /\ UNCHANGED <<manifest, left, loaded>> /\ pc'[Owner] = "rewrite"
      BY <1>i, <1>o, <2>5 DEF Reread, Goto, TypeOK, folder, owner
    <3> QED
      BY <1>i, <1>o, <2>1, <2>2, <2>3, <2>4, <3>1 DEF Reviewed, Seen
  <2>6. CASE TruncateFlip
    <3>1. /\ pc[Owner] = "rewrite" /\ pc'[Owner] = "flip" /\ manifest' = Torn
          /\ UNCHANGED <<copy, left, loaded>>
      BY <1>i, <1>o, <2>6 DEF TruncateFlip, Goto, TypeOK, owner
    <3> QED
      BY <1>i, <1>o, <2>1, <2>2, <2>3, <2>4, <3>1 DEF Reviewed, Seen, Confirming, Torn
  <2>7. CASE Flip
    <3>1. /\ pc[Owner] = "flip" /\ pc'[Owner] = "off"
          /\ manifest'.status = "active" /\ manifest'.files = copy[Owner].files
          /\ left'[Owner] = {} /\ loaded'[Owner] = {}
      BY <1>i, <1>o, <2>7 DEF Flip, Goto, Drop, TypeOK
    <3> QED
      BY <1>i, <1>o, <2>1, <2>2, <2>3, <2>4, <3>1 DEF Reviewed, Seen, Confirming
  <2> QED
    BY <1>6, <2>5, <2>6, <2>7
<1>7. CASE UNCHANGED vars \/ \E j \in Jobs : Enqueue(j)
  <2>1. UNCHANGED <<disk, manifest, reviewed, loaded, left, pc, copy>>
    BY <1>7 DEF vars, Enqueue, folder, owner
  <2> QED
    BY <1>2, <2>1
<1> QED
  BY <1>1, <1>3, <1>4, <1>5, <1>6, <1>7, Steps DEF Confirm

-----------------------------------------------------------------------------
LEMMA InvStep == IInv /\ [Next]_vars => IInv'
<1> SUFFICES ASSUME IInv, [Next]_vars PROVE IInv'
  OBVIOUS
<1>1. TypeOK' /\ Claims' /\ Writing' /\ Begun' /\ CheckedOnly'
  BY TypeStep, ClaimsStep, WritingStep, BegunStep, CheckedStep
<1>2. ASSUME OneJobOnly' PROVE Alone'
  <2>1. Only
    BY <1>2, OneJobBefore DEF Only
  <2> QED
    BY <1>1, <1>2, <2>1, NoWriterStep, OnDiskStep, ListedStep, ReviewedStep DEF Alone
<1> QED
  BY <1>1, <1>2 DEF IInv

LEMMA Invariance == Spec => []IInv
BY InitInv, InvStep, PTL DEF Spec

\* Whatever fails and whoever is killed, a coding request is claimed, built and
\* answered at most once, and never by two workers: claim_next's guarded UPDATE
\* is what it rests on.
THEOREM OneBuild == Spec => []BuiltOnce
<1>1. IInv => BuiltOnce
  <2> SUFFICES ASSUME IInv PROVE BuiltOnce
    OBVIOUS
  <2>1. Claims
    BY DEF IInv
  <2>2. \A j \in Jobs : told[j] <= attempts[j] /\ attempts[j] <= 1
    BY <2>1 DEF Claims
  <2> QED
    BY <2>1, <2>2 DEF BuiltOnce, Claims
<1> QED
  BY <1>1, Invariance, PTL

\* With policies.coder_validate on, no iteration of run_coder's loop leaves a
\* module in the folder that failed the checks.
THEOREM OnlyCheckedCode == Spec => []CheckedOnly
<1>1. IInv => CheckedOnly
  BY DEF IInv
<1> QED
  BY <1>1, Invariance, PTL

\* A request recorded as done has its modules in the folder and in every
\* manifest that parses, as long as its request has had one job.
THEOREM DoneCanBeActivated == Spec => []DoneIsListed
<1>1. IInv => DoneIsListed
  <2> SUFFICES ASSUME IInv, OneJobOnly, NEW j \in Jobs, status[j] = "done"
               PROVE  /\ \A f \in modules[j] : disk[f].job = j
                      /\ manifest.status # "torn" => modules[j] \subseteq manifest.files
    BY DEF DoneIsListed
  <2>1. OnDisk /\ Listed /\ Begun
    BY DEF IInv, Alone
  <2>2. manifest.status \in {"none", "torn", "inert", "active"} /\ manifest.status # "none"
    BY <2>1, Records DEF IInv, TypeOK, Begun
  <2> QED
    BY <2>1, <2>2 DEF OnDisk, Listed, Lists
<1> QED
  BY <1>1, Invariance, PTL

\* What a process has imported, and what an active manifest lists, is what the
\* owner looked at, as long as the request has had one job.
THEOREM ConfirmedCodeOnly == Spec => []OnlyReviewedCodeRuns
<1>1. IInv => OnlyReviewedCodeRuns
  BY DEF IInv, Alone, Reviewed, Seen, OnlyReviewedCodeRuns, GeneratedCodeIsReviewed
<1> QED
  BY <1>1, Invariance, PTL
=============================================================================
