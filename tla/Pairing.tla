------------------------------ MODULE Pairing ------------------------------
(***************************************************************************)
(* Who may talk to the bot: gateway/pairing.py and gateway/allowlist.py on *)
(* the tables pairing_codes, pairing_requests, user_identities and users.  *)
(* Bots take messages, also two at a time while one replaces the other,    *)
(* and the operator works at a console; each is a process of its own on    *)
(* the one database, and may be killed.  A SQL statement is a step: what a *)
(* SELECT has answered is kept in the work of its process until it writes. *)
(***************************************************************************)
EXTENDS Naturals, Sequences, FiniteSets

CONSTANTS Accounts,     \* (channel, channel_user_id)
          Bots,         \* processes that serve a channel
          Console,      \* the process of cli/pair.py
          Logins,       \* GitHub logins
          Pin,          \* OWNER_GITHUB_LOGIN, or NoLogin
          NoLogin, NoAccount,
          Ttl,          \* DEFAULT_TTL_SECONDS of a code
          MaxPerWindow, \* policies.refusal_rate_limit_max
          Window,       \* policies.refusal_rate_limit_window_seconds
          MaxTime,      \* bound of the clock
          MaxCodes, MaxTickets, \* bounds: host codes, codes of requests
          MaxGrants,    \* bound: bindings
          MaxInbound,   \* bound: plain messages of unpaired senders
          MaxDeaths     \* bound: kills

ASSUME PairingAssumption ==
  /\ Console \notin Bots
  /\ NoLogin \notin Logins /\ Pin \in Logins \cup {NoLogin}
  /\ NoAccount \notin Accounts
  /\ Ttl \in Nat \ {0} /\ MaxPerWindow \in Nat \ {0} /\ Window \in Nat
  /\ MaxTime \in Nat /\ MaxCodes \in Nat /\ MaxTickets \in Nat /\ MaxGrants \in Nat
  /\ MaxInbound \in Nat /\ MaxDeaths \in Nat

VARIABLES now,
          codes,      \* pairing_codes, by id
          tickets,    \* whom each claim ticket was made for (a history)
          requests,   \* pairing_requests, by account
          identities, \* user_identities, by account
          owners,     \* the logins of the users with is_owner, by id
          pc, work,   \* what each process does next, and on what
          hits,       \* when each bot audited a refusal: RefusalRateLimiter._hits,
                      \* from which the code also drops what no longer counts
          grants,     \* the bindings made (a history)
          inbound, deaths \* plain messages taken, kills

tables == <<codes, tickets, requests, identities, owners>>
counts == <<hits, grants, inbound, deaths>>
vars   == <<now, tables, pc, work, counts>>

Processes == Bots \cup {Console}

Stations == {"off", "idle", "stamp", "ask", "ticket", "mark", "bootstrap", "verify",
             "owner", "insert", "bind"}

\* via tells how the account came to be bound, code which code or ticket it
\* was; login is the verified GitHub login of a challenge.
NoWork == [acct |-> NoAccount, via |-> "none", code |-> 0, login |-> NoLogin,
           user |-> 0, next |-> "bind"]

Work == [acct : Accounts \cup {NoAccount},
         via : {"none", "host_code", "approval", "device_flow"},
         code : Nat, login : Logins \cup {NoLogin}, user : Nat,
         next : {"bind", "verify"}]

TypeOK ==
  /\ now \in 0 .. MaxTime
  /\ codes \in Seq([expires : Nat, by : Accounts \cup {NoAccount}])
  /\ tickets \in Seq(Accounts)
  /\ requests \in [Accounts -> [state : {"none", "pending", "approved"},
                                code : 0 .. Len(tickets), expires : Nat]]
  /\ identities \in [Accounts -> [state : {"unpaired", "paired", "revoked"},
                                  user : 0 .. Len(owners)]]
  /\ owners \in Seq(Logins \cup {NoLogin})
  /\ pc \in [Processes -> Stations]
  /\ work \in [Processes -> Work]
  /\ hits \in [Bots -> [Accounts -> Seq(0 .. MaxTime)]]
  /\ grants \in Seq([acct : Accounts, via : {"host_code", "approval", "device_flow"},
                     code : Nat, login : Logins \cup {NoLogin}])
  /\ inbound \in 0 .. MaxInbound /\ deaths \in 0 .. MaxDeaths

Init == /\ now \in 0 .. MaxTime
        /\ codes = <<>> /\ tickets = <<>> /\ owners = <<>> /\ grants = <<>>
        /\ requests = [a \in Accounts |-> [state |-> "none", code |-> 0, expires |-> 0]]
        /\ identities = [a \in Accounts |-> [state |-> "unpaired", user |-> 0]]
        /\ pc \in [Processes -> {"off", "idle"}] /\ pc[Console] = "idle"
        /\ work = [p \in Processes |-> NoWork]
        /\ hits = [b \in Bots |-> [a \in Accounts |-> <<>>]]
        /\ inbound \in 0 .. MaxInbound /\ deaths \in 0 .. MaxDeaths

Goto(p, station) == pc' = [pc EXCEPT ![p] = station]
Drop(p) == Goto(p, "idle") /\ work' = [work EXCEPT ![p] = NoWork]

-----------------------------------------------------------------------------
(* Host codes.                                                             *)

MintCode == /\ Len(codes) < MaxCodes
            /\ codes' = Append(codes, [expires |-> now + Ttl, by |-> NoAccount])
            /\ UNCHANGED <<now, tickets, requests, identities, owners, pc, work, counts>>

\* "/pair <code>", whoever sends it: the SELECT of consume_code.  A code that
\* is unknown, spent or expired leaves an audit row only.
PairCommand(b, a, c) ==
  /\ pc[b] = "idle"
  /\ c \in DOMAIN codes
  /\ codes[c].by = NoAccount /\ now < codes[c].expires
  /\ work' = [work EXCEPT ![b] = [NoWork EXCEPT !.acct = a, !.via = "host_code", !.code = c]]
  /\ Goto(b, "stamp")
  /\ UNCHANGED <<now, tables, counts>>

\* The UPDATE without its WHERE used_at IS NULL.
StampUnguarded(b) ==
  /\ pc[b] = "stamp"
  /\ codes' = [codes EXCEPT ![work[b].code].by = work[b].acct]
  /\ Goto(b, "owner")
  /\ UNCHANGED <<now, tickets, requests, identities, owners, work, counts>>

\* The guarded UPDATE of consume_code, and its rowcount.
Stamp(b) ==
  /\ pc[b] = "stamp"
  /\ IF codes[work[b].code].by = NoAccount
     THEN /\ codes' = [codes EXCEPT ![work[b].code].by = work[b].acct]
          /\ Goto(b, "owner") /\ UNCHANGED work
     ELSE Drop(b) /\ UNCHANGED codes
  /\ UNCHANGED <<now, tickets, requests, identities, owners, counts>>

-----------------------------------------------------------------------------
(* Refusals, and the request of an unpaired sender.                        *)

\* The hits the limiter still counts.
Counted(b, a) == SelectSeq(hits[b][a], LAMBDA t : t + Window >= now)

\* check_inbound of a sender that is not paired (a paired one goes on to
\* run_ask, which is module Intake).  Within the limit the refusal is audited
\* and answered, for an unpaired sender with a code.
CheckInbound(b, a) ==
  /\ pc[b] = "idle"
  /\ identities[a].state # "paired"
  /\ inbound < MaxInbound
  /\ inbound' = inbound + 1
  /\ IF Len(Counted(b, a)) >= MaxPerWindow
     THEN UNCHANGED <<hits, pc, work>>
     ELSE /\ hits' = [hits EXCEPT ![b][a] = Append(@, now)]
          /\ IF identities[a].state = "unpaired"
             THEN /\ Goto(b, "ask")
                  /\ work' = [work EXCEPT ![b] = [NoWork EXCEPT !.acct = a]]
             ELSE UNCHANGED <<pc, work>>
  /\ UNCHANGED <<now, tables, grants, deaths>>

Pending(a) == requests[a].state = "pending" /\ now < requests[a].expires

\* create_or_refresh reads the row: a live request keeps its code.
AskForCode(b) ==
  /\ pc[b] = "ask"
  /\ IF Pending(work[b].acct) THEN Drop(b) ELSE Goto(b, "ticket") /\ UNCHANGED work
  /\ UNCHANGED <<now, tables, counts>>

\* Its upsert, whatever the row has become.
Ticket(b) ==
  /\ pc[b] = "ticket"
  /\ Len(tickets) < MaxTickets
  /\ tickets' = Append(tickets, work[b].acct)
  /\ requests' = [requests EXCEPT ![work[b].acct] =
                    [state |-> "pending", code |-> Len(tickets'), expires |-> now + Ttl]]
  /\ Drop(b)
  /\ UNCHANGED <<now, codes, identities, owners, counts>>

-----------------------------------------------------------------------------
(* The console.                                                            *)

\* approve that does not look at the state.
ApproveAgain(c) ==
  /\ pc[Console] = "idle"
  /\ \E a \in Accounts :
       /\ requests[a].code = c
       /\ work' = [work EXCEPT ![Console] =
                     [NoWork EXCEPT !.acct = a, !.via = "approval", !.code = c]]
  /\ Goto(Console, "mark")
  /\ UNCHANGED <<now, tables, counts>>

\* "pair --approve <code>": the SELECT of approve, by the code as it is now.
Approve(c) ==
  /\ pc[Console] = "idle"
  /\ \E a \in Accounts :
       /\ requests[a].code = c /\ Pending(a)
       /\ work' = [work EXCEPT ![Console] =
                     [NoWork EXCEPT !.acct = a, !.via = "approval", !.code = c]]
  /\ Goto(Console, "mark")
  /\ UNCHANGED <<now, tables, counts>>

\* The UPDATE by id, and the row read again.
MarkApproved ==
  /\ pc[Console] = "mark"
  /\ requests' = [requests EXCEPT ![work[Console].acct].state = "approved"]
  /\ Goto(Console, "owner")
  /\ UNCHANGED <<now, codes, tickets, identities, owners, work, counts>>

\* get_owner is the owner of the lowest id; a pinned login comes first.
ExpectedLogin == IF Pin # NoLogin THEN Pin
                 ELSE IF owners = <<>> THEN NoLogin ELSE owners[1]

\* bind_verified_owner that takes every verified login for the first.
ChallengeAnyone(a, l) ==
  /\ pc[Console] = "idle"
  /\ work' = [work EXCEPT ![Console] =
                [NoWork EXCEPT !.acct = a, !.via = "device_flow", !.login = l,
                               !.next = "verify"]]
  /\ Goto(Console, "owner")
  /\ UNCHANGED <<now, tables, counts>>

\* "pair --challenge", the login verified: with bootstrap the first one
\* becomes the owner's.
Challenge(a, l) ==
  /\ pc[Console] = "idle"
  /\ work' = [work EXCEPT ![Console] =
                [NoWork EXCEPT !.acct = a, !.via = "device_flow", !.login = l,
                               !.next = IF ExpectedLogin = NoLogin THEN "verify" ELSE "bind"]]
  /\ Goto(Console, IF ExpectedLogin = NoLogin THEN "owner" ELSE "verify")
  /\ UNCHANGED <<now, tables, counts>>

\* is_owner_login; a stranger is refused.
Verify ==
  /\ pc[Console] = "verify"
  /\ IF work[Console].login = ExpectedLogin
     THEN /\ Goto(Console, "owner")
          /\ work' = [work EXCEPT ![Console].next = "bind"]
     ELSE Drop(Console)
  /\ UNCHANGED <<now, tables, counts>>

-----------------------------------------------------------------------------
(* The owner and the binding, for every way in.                            *)

\* ensure_owner: the SELECT, and the UPDATE of a login that differs.
EnsureOwner(p) ==
  /\ pc[p] = "owner"
  /\ IF owners = <<>>
     THEN Goto(p, "insert") /\ UNCHANGED <<owners, work>>
     ELSE /\ owners' = IF work[p].login = NoLogin THEN owners
                       ELSE [owners EXCEPT ![1] = work[p].login]
          /\ work' = [work EXCEPT ![p].user = 1]
          /\ Goto(p, work[p].next)
  /\ UNCHANGED <<now, codes, tickets, requests, identities, counts>>

\* Its INSERT, by whoever saw no owner.
InsertOwner(p) ==
  /\ pc[p] = "insert"
  /\ owners' = Append(owners, work[p].login)
  /\ work' = [work EXCEPT ![p].user = Len(owners')]
  /\ Goto(p, work[p].next)
  /\ UNCHANGED <<now, codes, tickets, requests, identities, counts>>

\* bind_identity.
Bind(p) ==
  /\ pc[p] = "bind"
  /\ Len(grants) < MaxGrants
  /\ identities' = [identities EXCEPT ![work[p].acct] =
                      [state |-> "paired", user |-> work[p].user]]
  /\ grants' = Append(grants, [acct |-> work[p].acct, via |-> work[p].via,
                               code |-> work[p].code, login |-> work[p].login])
  /\ Drop(p)
  /\ UNCHANGED <<now, codes, tickets, requests, owners, hits, inbound, deaths>>

\* revoke_identity, from the console or the Settings page.
Revoke(a) ==
  /\ identities[a].state = "paired"
  /\ identities' = [identities EXCEPT ![a].state = "revoked"]
  /\ UNCHANGED <<now, codes, tickets, requests, owners, pc, work, counts>>

-----------------------------------------------------------------------------
Tick == /\ now < MaxTime
        /\ now' = now + 1
        /\ UNCHANGED <<tables, pc, work, counts>>

\* A kill, and the next start: of a bot with a limiter of its own.  A bot
\* that is off in the beginning stays off.
Die(p) ==
  /\ pc[p] # "off"
  /\ deaths < MaxDeaths
  /\ deaths' = deaths + 1
  /\ Drop(p)
  /\ hits' = [b \in Bots |-> IF b = p THEN [a \in Accounts |-> <<>>] ELSE hits[b]]
  /\ UNCHANGED <<now, tables, grants, inbound>>

Next == \/ MintCode \/ MarkApproved \/ Verify \/ Tick
        \/ \E b \in Bots : Stamp(b) \/ AskForCode(b) \/ Ticket(b)
        \/ \E b \in Bots, a \in Accounts :
             CheckInbound(b, a) \/ \E c \in 1 .. MaxCodes : PairCommand(b, a, c)
        \/ \E c \in 1 .. MaxTickets : Approve(c)
        \/ \E a \in Accounts : Revoke(a) \/ \E l \in Logins : Challenge(a, l)
        \/ \E p \in Processes : EnsureOwner(p) \/ InsertOwner(p) \/ Bind(p) \/ Die(p)

Spec == Init /\ [][Next]_vars

-----------------------------------------------------------------------------
(* Properties.                                                             *)

\* A host code is single-use: whatever two bots read of it before, it binds one
\* account once, the one it is stamped with (consume_code, pairing_codes).
CodePairsOnce ==
  \A i, j \in DOMAIN grants :
    grants[i].via = "host_code" =>
      /\ codes[grants[i].code].by = grants[i].acct
      /\ grants[j].via = "host_code" /\ grants[j].code = grants[i].code => i = j

\* An approval binds the account the code was made for and never a second
\* time, although the row may be refreshed, or its approver killed, between
\* the look at the code, the mark and the binding (approve, create_or_refresh).
ApprovalBindsItsSender ==
  \A i, j \in DOMAIN grants :
    grants[i].via = "approval" =>
      /\ tickets[grants[i].code] = grants[i].acct
      /\ grants[j].via = "approval" /\ grants[j].code = grants[i].code => i = j

\* A challenge admits the owner's login only, and the login once established
\* stays, also when bots and console create the owner row at once
\* (bind_verified_owner, ensure_owner, get_owner).
OwnerStays == [][ /\ ExpectedLogin # NoLogin => ExpectedLogin' = ExpectedLogin
                  /\ grants' # grants /\ grants'[Len(grants')].via = "device_flow"
                       => grants'[Len(grants')].login = ExpectedLogin' ]_vars

\* However a sender times its messages, one bot audits and answers at most
\* MaxPerWindow refusals of it in any window (RefusalRateLimiter.allow).
RefusalsBounded ==
  \A b \in Bots, a \in Accounts, t \in 0 .. MaxTime :
    Len(SelectSeq(hits[b][a], LAMBDA s : t <= s /\ s <= t + Window)) <= MaxPerWindow
=============================================================================
