------------------------------- MODULE Intake -------------------------------
(***************************************************************************)
(* From a chat message to a request, a job and a queue row: the long poll  *)
(* of cli/telegram.py, handle_inbound of a paired sender, and run_ask with *)
(* the roles it calls (pm, analyzer, boss, junior) on the requests, the    *)
(* request_details, the jobs and the job_queue rows of one user.  The bot  *)
(* handles its updates one by one; ask sessions in a shell run beside it   *)
(* for the same user, and the job worker asks the user questions of its    *)
(* own.  A SQL transaction is a step, and so is a call of the model.  The  *)
(* update server keeps an update until a later poll confirms it.           *)
(***************************************************************************)
EXTENDS Naturals, Sequences, FiniteSets

CONSTANTS MaxUpdates,  \* bound: updates that are ever posted
          MaxStarts,   \* bound: how often the bot is started
          Shells,      \* ask sessions (cli/ask.py), one prompt each
          Bot,
          MaxReroutes  \* policies.max_append_reroutes

ASSUME IntakeAssumption == /\ MaxUpdates \in Nat
                           /\ MaxStarts \in Nat \ {0}
                           /\ Bot \notin Shells
                           /\ (Shells \cup {Bot}) \cap (1 .. MaxUpdates) = {}
                           /\ MaxReroutes \in Nat

VARIABLES sent,      \* the updates, in the order of their ids
          acked,     \* how many of them a poll has confirmed
          offset,    \* serve's offset, 0 for None
          batch,     \* the updates of the last poll still to be handled
          starts,    \* how often the bot was started
          requests,  \* by id, each with its request_details
          jobs,      \* by id, with their job_queue row
          doing,     \* what the bot and each session do next
          turn,      \* the message each of them is working on
          runs,      \* how often each message was taken up
          handled    \* updates the bot is through with

feed       == <<sent, acked, offset, batch, starts>>
tables     == <<requests, jobs>>
intakeVars == <<feed, tables, doing, turn, runs, handled>>

Updates  == 1 .. MaxUpdates
Messages == Updates \cup Shells
Actors   == {Bot} \cup Shells

InTurn == {"route", "clear", "append", "mint", "analyze", "keep", "ask", "junior",
           "enqueue", "reply"}

Verdicts == {"none", "append_rejected", "ask_clarify", "answer_ask", "plan_ready"}

RequestIds == 1 .. Len(requests)
JobIds     == 1 .. Len(jobs)

\* What an update says: whether it is a text message of the chat, and the
\* request it addresses ("/req <code>"), 0 for none.
Update == [text : BOOLEAN, to : Nat]

Idle == [msg |-> Bot, req |-> 0, append |-> FALSE, guess |-> FALSE,
         verdict |-> "none", job |-> 0]

IntakeTypeOK ==
  /\ sent \in Seq(Update) /\ Len(sent) <= MaxUpdates
  /\ acked \in 0 .. Len(sent)
  /\ offset \in 0 .. Len(sent) + 1
  /\ batch \in Seq(1 .. Len(sent))
  /\ starts \in 1 .. MaxStarts
  /\ requests \in Seq([by : Messages, details : Seq(Messages), awaiting : BOOLEAN])
  /\ jobs \in Seq([req : RequestIds, msg : Messages, kind : {"ask", "complex"},
                   queued : BOOLEAN])
  /\ doing \in [Actors -> InTurn \cup {"poll", "next", "off", "start", "end"}]
  /\ turn \in [Actors -> [msg : Messages \cup {Bot}, req : 0 .. Len(requests),
                          append : BOOLEAN, guess : BOOLEAN,
                          verdict : Verdicts, job : 0 .. Len(jobs)]]
  /\ runs \in [Messages -> Nat]
  /\ handled \subseteq 1 .. Len(sent)

IntakeInit == /\ sent = <<>> /\ acked = 0 /\ offset = 0 /\ batch = <<>>
              /\ starts \in 1 .. MaxStarts
              /\ requests = <<>> /\ jobs = <<>>
              /\ doing \in [Actors -> {"poll", "start", "end"}]
              /\ \A a \in Actors : a = Bot <=> doing[a] = "poll"
              /\ turn = [a \in Actors |-> Idle]
              /\ runs = [m \in Messages |-> 0]
              /\ handled = {}

Goto(a, station) == doing' = [doing EXCEPT ![a] = station]

-----------------------------------------------------------------------------
(* The user, and the update server.                                        *)

Post == /\ Len(sent) < MaxUpdates
        /\ \E u \in [text : BOOLEAN, to : 0 .. Len(requests)] :
             /\ u.text \/ u.to = 0
             /\ sent' = Append(sent, u)
        /\ UNCHANGED <<acked, offset, batch, starts, tables, doing, turn, runs, handled>>

\* get_updates: the offset confirms all before it, the rest is the batch.
PollUpdates == /\ doing[Bot] = "poll"
               /\ acked' = IF offset = 0 THEN acked ELSE offset - 1
               /\ batch' = [i \in 1 .. Len(sent) - acked' |-> acked' + i]
               /\ Goto(Bot, "next")
               /\ UNCHANGED <<sent, offset, starts, tables, turn, runs, handled>>

-----------------------------------------------------------------------------
(* serve, and the ask CLI.                                                 *)

Begin(a, m) == /\ turn' = [turn EXCEPT ![a] = [Idle EXCEPT !.msg = m]]
               /\ runs' = [runs EXCEPT ![m] = @ + 1]
               /\ Goto(a, "route")

\* parse_inbound is None for what is not a text message.
Take == /\ doing[Bot] = "next"
        /\ batch # <<>>
        /\ offset' = Head(batch) + 1
        /\ batch' = Tail(batch)
        /\ IF sent[Head(batch)].text
           THEN Begin(Bot, Head(batch)) /\ UNCHANGED handled
           ELSE handled' = handled \cup {Head(batch)} /\ UNCHANGED <<doing, turn, runs>>
        /\ UNCHANGED <<sent, acked, starts, tables>>

\* With --once the bot is through, its last offset never sent to the server.
EndOfBatch == /\ doing[Bot] = "next"
              /\ batch = <<>>
              /\ Goto(Bot, "poll") \/ Goto(Bot, "off")
              /\ UNCHANGED <<feed, tables, turn, runs, handled>>

Prompt(a) == /\ doing[a] = "start"
             /\ Begin(a, a)
             /\ UNCHANGED <<feed, tables, handled>>

\* An except clause around the turn.
SkipsAndGoesOn == /\ doing[Bot] \in InTurn \cup {"poll", "next"}
                  /\ Goto(Bot, "next")
                  /\ turn' = [turn EXCEPT ![Bot] = Idle]
                  /\ UNCHANGED <<feed, tables, runs, handled>>

\* A turn that raises ends the process (in cli/web.py, its thread), as
\* handle_inbound is outside the try of serve; so does a kill.  A session that
\* ends so takes no step any more.
Dies == /\ doing[Bot] \in InTurn \cup {"poll", "next"}
        /\ Goto(Bot, "off")
        /\ turn' = [turn EXCEPT ![Bot] = Idle]
        /\ UNCHANGED <<feed, tables, runs, handled>>

\* A bot that goes on from the offset it had.
StartFromOffset == /\ doing[Bot] = "off"
                   /\ starts < MaxStarts
                   /\ starts' = starts + 1
                   /\ batch' = <<>>
                   /\ Goto(Bot, "poll")
                   /\ UNCHANGED <<sent, acked, offset, tables, turn, runs, handled>>

\* The operator starts the bot, with an offset of None.
StartBot == /\ doing[Bot] = "off"
            /\ starts < MaxStarts
            /\ starts' = starts + 1
            /\ offset' = 0
            /\ batch' = <<>>
            /\ Goto(Bot, "poll")
            /\ UNCHANGED <<sent, acked, tables, turn, runs, handled>>

-----------------------------------------------------------------------------
(* pm.route_inbound.                                                       *)

\* The requests the message may address, 0 for none: a prompt may say anything.
Addressed(a) == IF turn[a].msg \in Updates THEN {sent[turn[a].msg].to} ELSE 0 .. Len(requests)

Awaiting == {r \in RequestIds : requests[r].awaiting}

Latest(S) == CHOOSE r \in S : \A q \in S : q <= r

Target(a, r, guess) == turn' = [turn EXCEPT ![a].req = r, ![a].append = TRUE, ![a].guess = guess]

RouteAddressed(a) == /\ doing[a] = "route"
                     /\ \E r \in Addressed(a) \ {0} : Target(a, r, FALSE)
                     /\ Goto(a, "append")
                     /\ UNCHANGED <<feed, tables, runs, handled>>

\* The latest request that waits for the user ...
RouteReply(a) == /\ doing[a] = "route"
                 /\ 0 \in Addressed(a)
                 /\ Awaiting # {}
                 /\ Target(a, Latest(Awaiting), FALSE)
                 /\ Goto(a, "clear")
                 /\ UNCHANGED <<feed, tables, runs, handled>>

\* ... gets its turn back before the message is recorded.
Clear(a) == /\ doing[a] = "clear"
            /\ requests' = [requests EXCEPT ![turn[a].req].awaiting = FALSE]
            /\ Goto(a, "append")
            /\ UNCHANGED <<feed, jobs, turn, runs, handled>>

\* The guess is recorded before the Analyzer confirms it.
RouteGuessRecorded(a) ==
  /\ doing[a] = "route"
  /\ 0 \in Addressed(a)
  /\ Awaiting = {}
  /\ IF requests # <<>>
     THEN /\ Target(a, Len(requests), TRUE)
          /\ requests' = [requests EXCEPT ![Len(requests)].details = Append(@, turn[a].msg)]
          /\ Goto(a, "analyze")
     ELSE Goto(a, "mint") /\ UNCHANGED <<turn, requests>>
  /\ UNCHANGED <<feed, jobs, runs, handled>>

\* The user's latest request is a guess; the first message has none.
RouteGuess(a) == /\ doing[a] = "route"
                 /\ 0 \in Addressed(a)
                 /\ Awaiting = {}
                 /\ IF requests # <<>>
                    THEN Target(a, Len(requests), TRUE) /\ Goto(a, "analyze")
                    ELSE Goto(a, "mint") /\ UNCHANGED turn
                 /\ UNCHANGED <<feed, tables, runs, handled>>

AddDetail(a) ==
  requests' = [requests EXCEPT ![turn[a].req].details = Append(@, turn[a].msg)]

AppendDetail(a) == /\ doing[a] = "append"
                   /\ AddDetail(a)
                   /\ Goto(a, "analyze")
                   /\ UNCHANGED <<feed, jobs, turn, runs, handled>>

\* route_new.
Mint(a) == /\ doing[a] = "mint"
           /\ requests' = Append(requests, [by |-> turn[a].msg, details |-> <<>>, awaiting |-> FALSE])
           /\ turn' = [turn EXCEPT ![a].req = Len(requests'), ![a].append = FALSE, ![a].guess = FALSE]
           /\ Goto(a, "analyze")
           /\ UNCHANGED <<feed, jobs, runs, handled>>

-----------------------------------------------------------------------------
(* analyzer.analyze, and what run_ask makes of it.                         *)

\* _verdict, with a reroute_count of 0, for the model's answer.
Verdict(append, belongs, clear, kind) ==
  IF append /\ ~belongs THEN IF MaxReroutes > 0 THEN "append_rejected" ELSE "ask_clarify"
  ELSE IF ~clear        THEN "ask_clarify"
  ELSE IF kind = "ask"  THEN "answer_ask"
  ELSE "plan_ready"

\* boss.decide and run_ask: the station for a verdict.
After(a, verdict) == CASE verdict = "answer_ask"  -> "junior"
                       [] verdict = "ask_clarify" -> "ask"
                       [] verdict = "plan_ready"  -> "enqueue"
                       [] OTHER                   -> "reply"

\* The model answers and the job of a work verdict is created.
Analyze(a) ==
  /\ doing[a] = "analyze"
  /\ \E belongs, clear \in BOOLEAN, kind \in {"ask", "complex"} :
       LET verdict == Verdict(turn[a].append, belongs, clear, kind) IN
       /\ IF verdict \in {"answer_ask", "plan_ready"}
          THEN /\ jobs' = Append(jobs, [req |-> turn[a].req, msg |-> turn[a].msg, kind |-> kind,
                                        queued |-> FALSE])
               /\ turn' = [turn EXCEPT ![a].verdict = verdict, ![a].job = Len(jobs')]
          ELSE /\ turn' = [turn EXCEPT ![a].verdict = verdict]
               /\ UNCHANGED jobs
       /\ Goto(a, CASE turn[a].guess /\ belongs  -> "keep"
                    [] turn[a].guess /\ ~belongs -> "mint"
                    [] OTHER                     -> After(a, verdict))
  /\ UNCHANGED <<feed, requests, runs, handled>>

\* The guess is confirmed.
Keep(a) == /\ doing[a] = "keep"
           /\ AddDetail(a)
           /\ Goto(a, After(a, turn[a].verdict))
           /\ UNCHANGED <<feed, jobs, turn, runs, handled>>

\* The user is asked to clarify: the request waits.
Ask(a) == /\ doing[a] = "ask"
          /\ requests' = [requests EXCEPT ![turn[a].req].awaiting = TRUE]
          /\ Goto(a, "reply")
          /\ UNCHANGED <<feed, jobs, turn, runs, handled>>

\* junior.answer_ask found an answer.
Answer(a) == /\ doing[a] = "junior"
             /\ Goto(a, "reply")
             /\ UNCHANGED <<feed, tables, turn, runs, handled>>

\* An escalated ask that keeps its kind.
EscalateAsIs(a) == /\ doing[a] = "junior"
                   /\ turn' = [turn EXCEPT ![a].verdict = "plan_ready"]
                   /\ Goto(a, "enqueue")
                   /\ UNCHANGED <<feed, tables, runs, handled>>

\* It found none: set_job_kind makes the ask a task.
Escalate(a) == /\ doing[a] = "junior"
               /\ jobs' = [jobs EXCEPT ![turn[a].job].kind = "complex"]
               /\ turn' = [turn EXCEPT ![a].verdict = "plan_ready"]
               /\ Goto(a, "enqueue")
               /\ UNCHANGED <<feed, requests, runs, handled>>

\* handle_inbound queues the planned job; the ask CLI does not.
EnqueueJob(a) == /\ doing[a] = "enqueue"
                 /\ jobs' = [jobs EXCEPT ![turn[a].job].queued = a = Bot]
                 /\ Goto(a, "reply")
                 /\ UNCHANGED <<feed, requests, turn, runs, handled>>

\* A send that fails is logged, and the update is done with all the same.
Reply(a) ==
  /\ doing[a] = "reply"
  /\ IF a = Bot
     THEN Goto(a, "next") /\ handled' = handled \cup {turn[a].msg}
     ELSE Goto(a, "end") /\ UNCHANGED handled
  /\ turn' = [turn EXCEPT ![a] = Idle]
  /\ UNCHANGED <<feed, tables, runs>>

-----------------------------------------------------------------------------
\* The worker of a queued job asks the user something (see PlanJob), and may
\* when the job is delivered again.
JobAsks(j) ==
  /\ jobs[j].queued
  /\ ~requests[jobs[j].req].awaiting
  /\ requests' = [requests EXCEPT ![jobs[j].req].awaiting = TRUE]
  /\ UNCHANGED <<feed, jobs, doing, turn, runs, handled>>

Route(a) == RouteAddressed(a) \/ RouteReply(a) \/ Clear(a) \/ RouteGuess(a) \/ AppendDetail(a) \/ Mint(a)

Judge(a) == Analyze(a) \/ Keep(a) \/ Ask(a) \/ Answer(a) \/ Escalate(a) \/ EnqueueJob(a) \/ Reply(a)

Serve == PollUpdates \/ Take \/ EndOfBatch \/ Route(Bot) \/ Judge(Bot)

IntakeNext == \/ Post \/ Serve \/ Dies \/ StartBot
              \/ \E a \in Shells : Prompt(a) \/ Route(a) \/ Judge(a)
              \/ \E j \in JobIds : JobAsks(j)

IntakeSpec == IntakeInit /\ [][IntakeNext]_intakeVars

\* A running bot goes on: the poll and the model return, or raise.
IntakeFairSpec == IntakeSpec /\ WF_intakeVars(Serve)

-----------------------------------------------------------------------------
(* Properties.                                                             *)

\* An update the server will not send again was handled to the end, whichever
\* of its steps raised or was killed before ("offset acknowledges prior
\* updates"): no message of the user is lost.
AckedIsHandled == \A m \in 1 .. acked : m \in handled

Homes(m) ==
  Cardinality({r \in RequestIds : requests[r].by = m})
  + Cardinality(UNION {{<<r, d>> : d \in {d \in DOMAIN requests[r].details :
                                             requests[r].details[d] = m}} : r \in RequestIds})

\* "every message gets a home", and one only: a turn opens a request or appends
\* to one, however the guess turns out, and nothing but a repeated delivery
\* records a message twice.
OneHomePerTurn ==
  \A m \in Messages :
    /\ Homes(m) <= runs[m]
    /\ m \in handled /\ sent[m].text => Homes(m) >= 1

Recorded(m, r) == requests[r].by = m \/ m \in {requests[r].details[d] : d \in DOMAIN requests[r].details}

\* What the job worker may take up is planned work, never a plain ask, of the
\* request that holds the message it came from.
QueuedIsSound ==
  \A j \in JobIds : jobs[j].queued => jobs[j].kind # "ask" /\ Recorded(jobs[j].msg, jobs[j].req)

\* A bot that runs on handles every update, however often it died before.
EveryUpdateIsHandled ==
  <>[](doing[Bot] # "off") => \A m \in Updates : m <= Len(sent) ~> m \in handled

\* "One job per request": get_job_for_request, of the reports, the conversation
\* and the dashboard, takes the first for the only one.
OneJobPerRequest == \A i, j \in JobIds : jobs[i].req = jobs[j].req => i = j
=============================================================================
