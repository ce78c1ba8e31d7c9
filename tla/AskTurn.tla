------------------------------ MODULE AskTurn ------------------------------
(***************************************************************************)
(* A simple ask, from its triage to its answer: answer_ask of              *)
(* roles/junior.py over the skill runtime, the read-only tools and the     *)
(* advisor (Advice).  A search goes to the browser first and then, if the  *)
(* daily budget allows, to the metered web.search; its results stay in a   *)
(* cache of the process, its credits are counted in api_usage.             *)
(***************************************************************************)
EXTENDS Advice

CONSTANTS Queries,   \* what the model may search for
          DailyMax,  \* web_search_daily_max; 0: no cap
          MaxTurns,  \* bound: turns of a process
          MaxNights  \* bound: changes of the day

ASSUME AskAssumption ==
  /\ IsFiniteSet(Procs)
  /\ DailyMax \in Nat /\ MaxTurns \in Nat /\ MaxNights \in Nat

VARIABLES turn,    \* the ask each process is answering
          cached,  \* the searches in each process's cache, with what they found
          used,    \* api_usage.count of the day
          paid,    \* credits the service took on the day
          lost,    \* those that no count will follow (a history)
          turns, nights

vars == <<advice, turn, cached, used, paid, lost, turns, nights>>

MaxResearchSteps == 2
Steps == 1 .. MaxResearchSteps

Domains == {"coding", "research", "general"}

\* The tools of the Junior, by what they do; a coding ask keeps data.weather.
Tools == {"search", "fetch", "weather"}
AllowedSkills(domain) == IF domain = "coding" THEN {"weather"} ELSE Tools

Idle == [at |-> "idle", tools |-> {}, step |-> 1, query |-> "none"]

Stations == {"idle", "triage", "propose", "tool", "browser", "web", "bill", "draft"}

AskTypeOK ==
  /\ AdviceTypeOK
  /\ turn \in [Procs -> [at : Stations, tools : SUBSET Tools,
                         step : Steps, query : Queries \cup {"none"}]]
  /\ cached \in [Procs -> SUBSET (Queries \X BOOLEAN)]
  /\ used \in Nat /\ paid \in Nat /\ lost \in Nat
  /\ turns \in [Procs -> 0 .. MaxTurns] /\ nights \in 0 .. MaxNights

Init ==
  /\ AdviceInit
  /\ turn = [p \in Procs |-> Idle]
  /\ cached = [p \in Procs |-> {}]
  /\ used = 0 /\ paid = 0 /\ lost = 0
  /\ turns \in [Procs -> 0 .. MaxTurns] /\ nights \in 0 .. MaxNights

meter == <<cached, used, paid, lost, nights>>

---------------------------------------------------------------------------
\* The turn.

Goes(p, station) == turn' = [turn EXCEPT ![p].at = station]
Over(p) == turn' = [turn EXCEPT ![p] = Idle]

Ask(p) ==
  /\ turn[p].at = "idle" /\ turns[p] < MaxTurns
  /\ turns' = [turns EXCEPT ![p] = @ + 1]
  /\ Goes(p, "triage") /\ Begin(p, TRUE)
  /\ UNCHANGED <<creds, prompt, bounds, meter>>

Awaits(p, station) == turn[p].at = station /\ CallOver(p)

Hangup(p) == call' = [call EXCEPT ![p] = NoCall]

\* An exception of the provider goes through the turn and fails it.
Fails(p) ==
  /\ turn[p].at \in {"triage", "propose", "draft"} /\ call[p].at = "raised"
  /\ Over(p) /\ Hangup(p)
  /\ UNCHANGED <<creds, prompt, bounds, meter, turns>>

\* The advice makes it an ask of some domain (an analysis has a fallback too).
\* Then memory.search: a research ask looks outward whatever that finds.
Classified(p) ==
  /\ Awaits(p, "triage") /\ call[p].at = "value"
  /\ \E d \in Domains, hits \in BOOLEAN :
       IF d = "research" \/ ~hits
       THEN turn' = [turn EXCEPT ![p].at = "propose", ![p].tools = AllowedSkills(d)]
       ELSE Goes(p, "draft")
  /\ Begin(p, FALSE)
  /\ UNCHANGED <<creds, prompt, bounds, meter, turns>>

Drafts(p) == Goes(p, "draft") /\ Begin(p, FALSE)

\* next_action: no valid proposal, done, or a tool that is not allowed end the
\* research; so do parameters the runtime refuses, except those of a search,
\* which then finds nothing.
Proposed(p) ==
  /\ Awaits(p, "propose") /\ call[p].at # "raised"
  /\ \/ Drafts(p)
     \/ /\ call[p].at = "value"
        /\ \E tool \in turn[p].tools :
             IF tool = "search"
             THEN \E q \in Queries : turn' = [turn EXCEPT ![p].at = "browser", ![p].query = q]
             ELSE Goes(p, "tool")
        /\ Hangup(p)
  /\ UNCHANGED <<creds, prompt, bounds, meter, turns>>

\* Findings end the research; without them there is one more step.
Found(p) == Drafts(p)

NextRoundUncounted(p) ==
  /\ turn' = [turn EXCEPT ![p].at = "propose", ![p].query = "none"]
  /\ Begin(p, FALSE)

NextRound(p) ==
  IF turn[p].step < MaxResearchSteps
  THEN /\ turn' = [turn EXCEPT ![p].at = "propose", ![p].step = @ + 1, ![p].query = "none"]
       /\ Begin(p, FALSE)
  ELSE Drafts(p)

\* web.fetch and data.weather: findings, none, or an error they do not catch.
Tool(p) ==
  /\ turn[p].at = "tool"
  /\ \/ Found(p) \/ NextRound(p)
     \/ Over(p) /\ UNCHANGED call
  /\ UNCHANGED <<creds, prompt, bounds, meter, turns>>

\* browser.search turns every failure into no result.
Browser(p) ==
  /\ turn[p].at = "browser"
  /\ \/ Found(p)
     \/ Goes(p, "web") /\ UNCHANGED call
  /\ UNCHANGED <<creds, prompt, bounds, meter, turns>>

\* web.search: the cache, then the budget, then the service.
InCache(p) == turn[p].query \in {c[1] : c \in cached[p]}
SpentOffByOne == DailyMax # 0 /\ used > DailyMax
Spent == DailyMax # 0 /\ used >= DailyMax

Cached(p) ==
  /\ turn[p].at = "web" /\ InCache(p)
  /\ IF <<turn[p].query, TRUE>> \in cached[p] THEN Found(p) ELSE NextRound(p)
  /\ UNCHANGED <<creds, prompt, bounds, meter, turns>>

Budget(p) ==
  /\ turn[p].at = "web" /\ ~InCache(p) /\ Spent
  /\ NextRound(p)
  /\ UNCHANGED <<creds, prompt, bounds, meter, turns>>

Checks(p) ==
  /\ turn[p].at = "web" /\ ~InCache(p) /\ ~Spent
  /\ Goes(p, "bill")
  /\ UNCHANGED <<advice, meter, turns>>

\* The request is out.  What does not come back as a reply is not counted, but
\* the service may have served it, and taken its credit, all the same.
MaybeCharged == \/ paid' = paid + 1 /\ lost' = lost + 1
                \/ UNCHANGED <<paid, lost>>

\* httpx.HTTPError, which finds nothing: an error status, no connection, but
\* also a read timeout or a connection that breaks once the service has served.
SearchFails(p) ==
  /\ turn[p].at = "bill"
  /\ NextRound(p) /\ MaybeCharged
  /\ UNCHANGED <<creds, prompt, bounds, cached, used, nights, turns>>

\* A reply that is not JSON, or a count that cannot be written, raises before
\* the credit is counted; JSON of another shape raises after.
Garbled(p) ==
  /\ turn[p].at = "bill"
  /\ paid' = paid + 1
  /\ \/ lost' = lost + 1 /\ UNCHANGED used
     \/ used' = used + 1 /\ UNCHANGED lost
  /\ Over(p)
  /\ UNCHANGED <<advice, cached, nights, turns>>

\* The count follows the reply, and the cache the count.
Remember(p, found) == (cached[p] \ ({turn[p].query} \X BOOLEAN)) \cup {<<turn[p].query, found>>}

Served(p) ==
  /\ turn[p].at = "bill"
  /\ paid' = paid + 1 /\ used' = used + 1
  /\ \E found \in BOOLEAN :
       /\ cached' = [cached EXCEPT ![p] = Remember(p, found)]
       /\ IF found THEN Found(p) ELSE NextRound(p)
  /\ UNCHANGED <<creds, prompt, bounds, lost, nights, turns>>

\* answer_ask degrades an escalation to an honest "unanswered".
Drafted(p) ==
  /\ Awaits(p, "draft") /\ call[p].at # "raised"
  /\ Over(p) /\ Hangup(p)
  /\ UNCHANGED <<creds, prompt, bounds, meter, turns>>

TurnStep(p) == \/ Fails(p) \/ Classified(p) \/ Proposed(p) \/ Tool(p)
               \/ Browser(p) \/ Cached(p) \/ Budget(p) \/ Checks(p)
               \/ SearchFails(p) \/ Garbled(p) \/ Served(p) \/ Drafted(p)

---------------------------------------------------------------------------
\* A kill takes the cache of the process with it, and in mid-request the count.
Die(p) ==
  /\ turn[p].at # "idle" /\ Killed(p)
  /\ Over(p) /\ UNCHANGED <<prompt, turns, used, nights>>
  /\ cached' = [cached EXCEPT ![p] = {}]
  /\ IF turn[p].at = "bill" THEN MaybeCharged ELSE UNCHANGED <<paid, lost>>

\* web_search_cache_ttl_minutes
Expire(p) ==
  /\ turn[p].at = "idle" /\ turns[p] < MaxTurns
  /\ \E c \in cached[p] : cached' = [cached EXCEPT ![p] = @ \ {c}]
  /\ UNCHANGED <<advice, turn, used, paid, lost, turns, nights>>

Midnight ==
  /\ nights < MaxNights
  /\ nights' = nights + 1
  /\ used' = 0 /\ paid' = 0 /\ lost' = 0
  /\ UNCHANGED <<advice, turn, cached, turns>>

Next ==
  \/ \E p \in Procs : Ask(p) \/ TurnStep(p) \/ Die(p) \/ Expire(p)
  \/ AdviceStep /\ UNCHANGED <<turn, meter, turns>>
  \/ Midnight

\* A process runs on, and what it asks answers or fails in the end: a model call
\* has no timeout of its own unless models.yaml sets one.
Fairness ==
  \A p \in Procs : WF_vars(TurnStep(p) \/ (CallStep(p) /\ UNCHANGED <<turn, meter, turns>>))

Spec == Init /\ [][Next]_vars /\ Fairness

---------------------------------------------------------------------------
\* What the "daily budget cap" (skills/web.py) does keep: processes that check
\* together overshoot it by one less than there are of them, and a credit beyond
\* that belongs to a request that was paid for and not counted, because it timed
\* out or broke off, its reply or its count raised, or its process was killed.
BudgetHolds ==
  DailyMax # 0 =>
    /\ used <= DailyMax + Cardinality(Procs) - 1
    /\ paid <= DailyMax + Cardinality(Procs) - 1 + lost

\* "Never exceed the metered free quota": not kept, by a single process either,
\* as a request that times out may cost a credit each time and is not counted.
QuotaNeverExceeded == DailyMax # 0 => paid <= DailyMax

\* Every ask ends: the research is bounded, every call settles, and the turn is
\* answered, unanswered or failed.
EveryTurnEnds == \A p \in Procs : turn[p].at # "idle" ~> turn[p].at = "idle"
=============================================================================
