----------------------------- MODULE CoderLane -----------------------------
(***************************************************************************)
(* The coder lane of one request: the coder_queue rows of its feature jobs *)
(* (storage/repos/coder_queue.py), the coder workers that drain them       *)
(* (cli/coderworker.py, coder/agent.py), the bundle folder they write and  *)
(* the activation of its code (skills/codegen.py, cli/confirm.py).  All    *)
(* feature jobs of a request share one folder: job_code is the code of the *)
(* request.  A SQL transaction, the write of a module and each of the two  *)
(* halves of a manifest write (truncate, then the content) are one step    *)
(* each; test modules are left out, nothing imports them.                  *)
(***************************************************************************)
EXTENDS Naturals, FiniteSets

CONSTANTS Workers,   \* coder workers on one database and folder
          Servers,   \* other processes that import app.skills
          Owner,     \* the shell in which the owner runs cli/confirm.py
          Jobs,      \* the feature jobs of the request
          Files,     \* names of skill modules
          MaxIters,  \* policies.max_coder_iterations
          Validate,  \* policies.coder_validate
          NoJob      \* no job: a free worker, a module never written

ASSUME CoderAssumption == /\ Jobs \subseteq Nat
                          /\ NoJob \notin Jobs
                          /\ MaxIters \in Nat \ {0}
                          /\ Validate \in BOOLEAN
                          /\ Files # {}
                          /\ Workers \cap (Servers \cup {Owner}) = {}

Readers == Servers \cup {Owner}
Agents  == Workers \cup Readers

VARIABLES status,    \* coder_queue.status, "absent" before the row exists
          attempts,  \* coder_queue.attempts
          modules,   \* coder_queue.skill_modules
          disk,      \* what each module in the folder holds
          manifest,  \* manifest.json
          pc,        \* what each process does next
          copy,      \* the manifest a process has read into memory
          left,      \* the modules a process still has to write, or import
          held,      \* the job a worker has selected or claimed
          draft,     \* the bundle a worker got from the advisor
          tries,     \* how many drafts run_coder has looked at
          loaded,    \* the modules a process has imported, as it read them
          reviewed,  \* the modules the owner looked at before confirming
          told       \* how many replies each job's chat received

queue  == <<status, attempts, modules>>
folder == <<disk, manifest>>
worker == <<held, draft, tries>>
owner  == <<loaded, reviewed>>
vars   == <<queue, folder, pc, copy, left, worker, owner, told>>

\* A module as one run of the coder wrote it; ok: its bundle passes the checks.
Version  == [job : Jobs \cup {NoJob}, ok : BOOLEAN]
NoFile   == [job |-> NoJob, ok |-> FALSE]
Module   == [file : Files, version : Version]
Manifest == [status : {"none", "torn", "inert", "active"}, files : SUBSET Files]
Empty    == [status |-> "none", files |-> {}]
Torn     == [status |-> "torn", files |-> {}]
Draft    == [files : SUBSET Files, ok : BOOLEAN]
NoDraft  == [files |-> {}, ok |-> FALSE]

Stations == {"poll", "selected", "generate", "check", "write", "truncate", "commit",
             "done", "failed", "raised", "tell", "down", "killed",          \* workers
             "off", "listed", "boot", "up", "activate", "rewrite", "flip", "refused"} \* readers

InRun == {"generate", "check", "write", "truncate", "commit"}

Content(f) == [file |-> f, version |-> disk[f]]

TypeOK == /\ status \in [Jobs -> {"absent", "pending", "running", "done", "failed"}]
          /\ attempts \in [Jobs -> Nat]
          /\ modules \in [Jobs -> SUBSET Files]
          /\ disk \in [Files -> Version]
          /\ manifest \in Manifest
          /\ pc \in [Agents -> Stations]
          /\ copy \in [Agents -> Manifest]
          /\ left \in [Agents -> SUBSET Files]
          /\ held \in [Workers -> Jobs \cup {NoJob}]
          /\ draft \in [Workers -> Draft]
          /\ tries \in [Workers -> 0 .. MaxIters]
          /\ loaded \in [Readers -> SUBSET Module]
          /\ reviewed \in SUBSET Module
          /\ told \in [Jobs -> Nat]

Init == /\ status = [j \in Jobs |-> "absent"]
        /\ attempts = [j \in Jobs |-> 0]
        /\ modules = [j \in Jobs |-> {}]
        /\ disk = [f \in Files |-> NoFile]
        /\ manifest = Empty
        /\ pc = [a \in Agents |-> IF a \in Workers THEN "poll" ELSE "off"]
        /\ copy = [a \in Agents |-> Empty]
        /\ left = [a \in Agents |-> {}]
        /\ held = [w \in Workers |-> NoJob]
        /\ draft = [w \in Workers |-> NoDraft]
        /\ tries = [w \in Workers |-> 0]
        /\ loaded = [r \in Readers |-> {}]
        /\ reviewed = {}
        /\ told = [j \in Jobs |-> 0]

Goto(a, station) == pc' = [pc EXCEPT ![a] = station]

\* A process forgets what it had in memory.
Drop(a) == /\ copy' = [copy EXCEPT ![a] = Empty]
           /\ left' = [left EXCEPT ![a] = {}]

\* A worker is at the given station with nothing in hand.
Release(w, station) == /\ Goto(w, station)
                       /\ held' = [held EXCEPT ![w] = NoJob]
                       /\ draft' = [draft EXCEPT ![w] = NoDraft]
                       /\ tries' = [tries EXCEPT ![w] = 0]
                       /\ Drop(w)

-----------------------------------------------------------------------------
(* coder_queue.                                                            *)

Enqueue(j) == /\ status' = [status EXCEPT ![j] = IF @ = "absent" THEN "pending" ELSE @]
              /\ UNCHANGED <<attempts, modules, folder, pc, copy, left, worker, owner, told>>

\* claim_next: the SELECT, which may find nothing (the worker idles on) ...
Select(w) == /\ pc[w] = "poll"
             /\ \E j \in Jobs : /\ status[j] = "pending"
                                /\ \A k \in Jobs : status[k] = "pending" => j <= k
                                /\ held' = [held EXCEPT ![w] = j]
             /\ Goto(w, "selected")
             /\ UNCHANGED <<queue, folder, copy, left, draft, tries, owner, told>>

\* ... without "AND status = ?" ...
ClaimUnguarded(w) ==
  /\ pc[w] = "selected"
  /\ status' = [status EXCEPT ![held[w]] = "running"]
  /\ attempts' = [attempts EXCEPT ![held[w]] = @ + 1]
  /\ Goto(w, "generate")
  /\ UNCHANGED <<modules, folder, copy, left, worker, owner, told>>

\* ... and the guarded UPDATE, won or lost.
Claim(w) == /\ pc[w] = "selected"
            /\ IF status[held[w]] = "pending"
               THEN /\ status' = [status EXCEPT ![held[w]] = "running"]
                    /\ attempts' = [attempts EXCEPT ![held[w]] = @ + 1]
                    /\ Goto(w, "generate")
                    /\ UNCHANGED held
               ELSE /\ held' = [held EXCEPT ![w] = NoJob]
                    /\ Goto(w, "poll")
                    /\ UNCHANGED <<status, attempts>>
            /\ UNCHANGED <<modules, folder, copy, left, draft, tries, owner, told>>

-----------------------------------------------------------------------------
(* run_coder.                                                              *)

\* A draft of the advisor, which may or may not pass the checks.
NewDraft(w) == \E files \in SUBSET Files \ {{}}, ok \in BOOLEAN :
                 draft' = [draft EXCEPT ![w] = [files |-> files, ok |-> ok]]

\* write_generated_bundle begins: the manifest is read before the first write.
OpenFolder(w, files) == /\ manifest.status # "torn"
                        /\ copy' = [copy EXCEPT ![w] = manifest]
                        /\ left' = [left EXCEPT ![w] = files]

\* generate_bundle answered; without validation the draft is written at once.
Generate(w) == /\ pc[w] = "generate"
               /\ NewDraft(w)
               /\ tries' = [tries EXCEPT ![w] = 1]
               /\ IF Validate
                  THEN Goto(w, "check") /\ UNCHANGED <<copy, left>>
                  ELSE OpenFolder(w, draft'[w].files) /\ Goto(w, "write")
               /\ UNCHANGED <<queue, folder, held, owner, told>>

\* The checks passed: on to the real folder.
CheckPassed(w) == /\ pc[w] = "check"
                  /\ draft[w].ok
                  /\ OpenFolder(w, draft[w].files)
                  /\ Goto(w, "write")
                  /\ UNCHANGED <<queue, folder, worker, owner, told>>

\* The checks failed: one more draft, as long as iterations are left.
Repair(w) == /\ pc[w] = "check"
             /\ ~draft[w].ok
             /\ tries[w] < MaxIters
             /\ NewDraft(w)
             /\ tries' = [tries EXCEPT ![w] = @ + 1]
             /\ UNCHANGED <<queue, folder, pc, copy, left, held, owner, told>>

\* ok = False: no iteration is left, or the advisor's answer did not validate
\* (generating or repairing).
RunFails(w) == /\ \/ pc[w] = "generate"
                  \/ pc[w] = "check" /\ ~draft[w].ok
               /\ Goto(w, "failed")
               /\ UNCHANGED <<queue, folder, copy, left, worker, owner, told>>

\* The manifest is not told of a new module.
WriteModuleUnlisted(w) ==
  /\ pc[w] = "write"
  /\ \E f \in left[w] :
       /\ disk' = [disk EXCEPT ![f] = [job |-> held[w], ok |-> draft[w].ok]]
       /\ left' = [left EXCEPT ![w] = @ \ {f}]
  /\ UNCHANGED <<queue, manifest, pc, copy, worker, owner, told>>

\* A module of the draft is on disk; its name goes to the copy of the manifest.
WriteModule(w) ==
  /\ pc[w] = "write"
  /\ \E f \in left[w] :
       /\ disk' = [disk EXCEPT ![f] = [job |-> held[w], ok |-> draft[w].ok]]
       /\ left' = [left EXCEPT ![w] = @ \ {f}]
       /\ copy' = [copy EXCEPT ![w].files = @ \cup {f}]
  /\ UNCHANGED <<queue, manifest, pc, worker, owner, told>>

Truncate(w) == /\ pc[w] = "write"
               /\ left[w] = {}
               /\ manifest' = Torn
               /\ Goto(w, "commit")
               /\ UNCHANGED <<queue, disk, copy, left, worker, owner, told>>

\* A validated bundle is activated at once.
CommitActive(w) == /\ pc[w] = "commit"
                   /\ manifest' = [status |-> "active", files |-> copy[w].files]
                   /\ Goto(w, "done")
                   /\ UNCHANGED <<queue, disk, copy, left, worker, owner, told>>

Commit(w) == /\ pc[w] = "commit"
             /\ manifest' = [status |-> "inert", files |-> copy[w].files]
             /\ Goto(w, "done")
             /\ UNCHANGED <<queue, disk, copy, left, worker, owner, told>>

\* The advisor's provider, the sandbox or the disk raises, also half-way
\* through the folder; a torn manifest makes the next write raise.
RunRaises(w) == /\ pc[w] \in InRun
                /\ Goto(w, "raised")
                /\ UNCHANGED <<queue, folder, copy, left, worker, owner, told>>

-----------------------------------------------------------------------------
(* _process_one after run_coder.                                           *)

MarkDone(w) == /\ pc[w] = "done"
               /\ status' = [status EXCEPT ![held[w]] = "done"]
               /\ modules' = [modules EXCEPT ![held[w]] = draft[w].files]
               /\ Goto(w, "tell")
               /\ UNCHANGED <<attempts, folder, copy, left, worker, owner, told>>

\* Only a run that succeeded is recorded.
MarkFailedForgotten(w) ==
  /\ pc[w] = "failed"
  /\ Goto(w, "tell")
  /\ UNCHANGED <<queue, folder, copy, left, worker, owner, told>>

MarkFailed(w) == /\ pc[w] = "failed"
                 /\ status' = [status EXCEPT ![held[w]] = "failed"]
                 /\ Goto(w, "tell")
                 /\ UNCHANGED <<attempts, modules, folder, copy, left, worker, owner, told>>

\* The except clause: nothing is delivered.
MarkRaised(w) == /\ pc[w] = "raised"
                 /\ status' = [status EXCEPT ![held[w]] = "failed"]
                 /\ Release(w, "poll")
                 /\ UNCHANGED <<attempts, modules, folder, owner, told>>

Tell(w) == /\ pc[w] = "tell"
           /\ told' = [told EXCEPT ![held[w]] = @ + 1]
           /\ Release(w, "poll")
           /\ UNCHANGED <<queue, folder, owner>>

\* The channel raises: _deliver is outside the try of _process_one, so the
\* exception leaves serve_coder_jobs and ends the process (or its thread).
TellRaises(w) == /\ pc[w] = "tell"
                 /\ told' \in {told, [told EXCEPT ![held[w]] = @ + 1]}
                 /\ Release(w, "down")
                 /\ UNCHANGED <<queue, folder, owner>>

Kill(w) == /\ pc[w] \notin {"down", "killed"}
           /\ Release(w, "killed")
           /\ UNCHANGED <<queue, folder, owner, told>>

\* A worker imports app.skills as every process does: see Boot.
Start(w) == /\ pc[w] \in {"down", "killed"}
            /\ manifest.status # "torn"
            /\ Goto(w, "poll")
            /\ UNCHANGED <<queue, folder, copy, left, worker, owner, told>>

-----------------------------------------------------------------------------
(* codegen.load_active, at the start of every process.                     *)

\* list_bundles reads the manifest.  It is outside load_active's try, so a
\* manifest that does not parse ends the process; an inert bundle is skipped.
Boot(r) == /\ pc[r] = "off"
           /\ r = Owner => reviewed # {}
           /\ Goto(r, CASE manifest.status = "torn"   -> "refused"
                        [] manifest.status = "active" -> "listed"
                        [] OTHER                      -> "boot")
           /\ UNCHANGED <<queue, folder, copy, left, worker, owner, told>>

\* _import_bundle reads it a second time; torn by now, the bundle is skipped.
BootBundle(r) == /\ pc[r] = "listed"
                 /\ Goto(r, "boot")
                 /\ left' = [left EXCEPT ![r] = manifest.files]
                 /\ UNCHANGED <<queue, folder, copy, worker, owner, told>>

\* _import_bundle: what the module holds now, unless it is loaded already.
Import(r) == /\ pc[r] \in {"boot", "activate"}
             /\ \E f \in left[r] :
                  /\ loaded' = [loaded EXCEPT ![r] =
                       IF \E m \in @ : m.file = f THEN @ ELSE @ \cup {Content(f)}]
                  /\ left' = [left EXCEPT ![r] = @ \ {f}]
             /\ UNCHANGED <<queue, folder, pc, copy, worker, reviewed, told>>

\* A module raises on import; at the start the rest of its bundle is skipped.
ImportRaises(r) == /\ pc[r] = "boot"
                   /\ left[r] # {}
                   /\ left' = [left EXCEPT ![r] = {}]
                   /\ UNCHANGED <<queue, folder, pc, copy, worker, owner, told>>

\* The start is over: a server runs, confirm.py reads the bundle to activate.
Booted(r) == /\ pc[r] = "boot"
             /\ left[r] = {}
             /\ IF r # Owner
                THEN Goto(r, "up") /\ Drop(r)
                ELSE /\ manifest.status \in {"inert", "active"}
                     /\ Goto(r, "activate")
                     /\ left' = [left EXCEPT ![r] = manifest.files]
                     /\ UNCHANGED copy
             /\ UNCHANGED <<queue, folder, worker, owner, told>>

\* The process ends, by itself or killed, without a half-written manifest.
Stop(r) == /\ pc[r] \notin {"off", "flip"}
           /\ Goto(r, "off")
           /\ Drop(r)
           /\ loaded' = [loaded EXCEPT ![r] = {}]
           /\ UNCHANGED <<queue, folder, worker, reviewed, told>>

-----------------------------------------------------------------------------
(* The owner and cli/confirm.py.  A run that ends early, because nothing is *)
(* there to activate, a module raises or the manifest is torn, is a Stop.   *)

\* The owner reads the modules the manifest lists, before running confirm.py.
Review == /\ pc[Owner] = "off"
          /\ manifest.status \in {"inert", "active"}
          /\ reviewed' = reviewed \cup {Content(f) : f \in manifest.files}
          /\ UNCHANGED <<queue, folder, pc, copy, left, worker, loaded, told>>

\* activate_generated: the manifest is read again once the modules are loaded ...
Reread == /\ pc[Owner] = "activate"
          /\ left[Owner] = {}
          /\ manifest.status # "torn"
          /\ copy' = [copy EXCEPT ![Owner] = manifest]
          /\ Goto(Owner, "rewrite")
          /\ UNCHANGED <<queue, folder, left, worker, owner, told>>

\* ... and written back, truncated first ...
TruncateFlip == /\ pc[Owner] = "rewrite"
                /\ manifest' = Torn
                /\ Goto(Owner, "flip")
                /\ UNCHANGED <<queue, disk, copy, left, worker, owner, told>>

\* ... then active.
Flip == /\ pc[Owner] = "flip"
        /\ manifest' = [status |-> "active", files |-> copy[Owner].files]
        /\ Goto(Owner, "off")
        /\ Drop(Owner)
        /\ loaded' = [loaded EXCEPT ![Owner] = {}]
        /\ UNCHANGED <<queue, disk, worker, reviewed, told>>

\* confirm.py killed between the two.
Interrupt == /\ pc[Owner] = "flip"
             /\ Goto(Owner, "off")
             /\ Drop(Owner)
             /\ loaded' = [loaded EXCEPT ![Owner] = {}]
             /\ UNCHANGED <<queue, folder, worker, reviewed, told>>

-----------------------------------------------------------------------------
RunCoder(w) == \/ Generate(w) \/ CheckPassed(w) \/ Repair(w) \/ RunFails(w)
               \/ WriteModule(w) \/ Truncate(w) \/ Commit(w) \/ RunRaises(w)

Settle(w) == MarkDone(w) \/ MarkFailed(w) \/ MarkRaised(w) \/ Tell(w) \/ TellRaises(w)

Work(w) == Select(w) \/ Claim(w) \/ RunCoder(w) \/ Settle(w)

Read(r) == Boot(r) \/ BootBundle(r) \/ Import(r) \/ ImportRaises(r) \/ Booted(r) \/ Stop(r)

Confirm == Review \/ Reread \/ TruncateFlip \/ Flip

Next == \/ \E j \in Jobs : Enqueue(j)
        \/ \E w \in Workers : Work(w) \/ Start(w) \/ Kill(w)
        \/ \E r \in Readers : Read(r)
        \/ Confirm
        \/ Interrupt

Spec == Init /\ [][Next]_vars

\* The advisor, the checks and the channel return or raise, and a worker that
\* went down is started again and again; a start fails while the manifest is
\* torn, so it needs strong fairness, and confirm.py finishes its write.
FairSpec == /\ Spec
            /\ \A w \in Workers : WF_vars(Work(w)) /\ SF_vars(Start(w))
            /\ WF_vars(TruncateFlip \/ Flip)

-----------------------------------------------------------------------------
(* Properties.                                                             *)

InHand(w) == pc[w] \in InRun \cup {"done", "failed", "raised", "tell"}

\* claim_next "atomically claims": two workers never build the same request,
\* a request is built at most once whatever dies, and its chat hears of it at
\* most once.
BuiltOnce ==
  /\ \A v, w \in Workers : InHand(v) /\ InHand(w) /\ held[v] = held[w] => v = w
  /\ \A j \in Jobs : told[j] <= attempts[j] /\ attempts[j] <= 1

\* With validation on, no draft that failed its checks reaches the folder, on
\* whichever iteration the loop of run_coder ends.
CheckedOnly == Validate => \A f \in Files : disk[f] # NoFile => disk[f].ok

\* The coder has worked on at most one of the request's jobs so far.
OneJobOnly == \A i, j \in Jobs : attempts[i] > 0 /\ attempts[j] > 0 => i = j

\* A request recorded as done has all of its modules in the folder, and a
\* manifest that parses lists them, so that activation finds them: no killed or
\* raising writer and no activation loses one, as long as no other job of the
\* request writes to the same folder.
DoneIsListed ==
  OneJobOnly =>
    \A j \in Jobs : status[j] = "done" =>
      /\ \A f \in modules[j] : disk[f].job = j
      /\ manifest.status # "torn" => modules[j] \subseteq manifest.files

\* Generated code is executed only once the owner looked at it and confirmed it
\* (skills/generated/__init__.py), in every process, and what is on disk under
\* an active manifest is what was confirmed.
GeneratedCodeIsReviewed ==
  /\ \A r \in Readers : loaded[r] \subseteq reviewed
  /\ manifest.status = "active" => \A f \in manifest.files : Content(f) \in reviewed

\* So it is, as long as no other job of the request writes to the same folder.
OnlyReviewedCodeRuns == OneJobOnly => GeneratedCodeIsReviewed

\* As long as no worker is killed and no manifest stays torn, every coding
\* request comes to rest, although a failing channel ends the worker.
EveryRequestSettles ==
  [](\A w \in Workers : pc[w] # "killed") /\ []<>(manifest.status # "torn") =>
    \A j \in Jobs : status[j] = "pending" ~> [](status[j] \in {"done", "failed"})

\* load_active: "one bad bundle can never block process startup".
StartNeverRefused == \A r \in Readers : pc[r] # "refused"
=============================================================================
