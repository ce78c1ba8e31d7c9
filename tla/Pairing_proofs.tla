--------------------------- MODULE Pairing_proofs ---------------------------
(***************************************************************************)
(* Proofs about pairing, for any number of bots, senders, codes and kills, *)
(* whatever happens between two statements of a process.                   *)
(***************************************************************************)
EXTENDS Pairing, TLAPS

\* A process on its way to bind an account.
Admitting == {"owner", "insert", "bind"}

\* Who is where, and with what in hand.
Paths ==
  \A p \in Processes :
    /\ pc[p] \in {"stamp", "ask", "ticket"} => p \in Bots
    /\ pc[p] \in {"mark", "verify"} => p = Console
    /\ pc[p] \in {"stamp", "ask", "ticket", "mark", "verify"} \cup Admitting => work[p].acct \in Accounts
    /\ pc[p] = "stamp" => work[p].via = "host_code" /\ work[p].code \in DOMAIN codes
    /\ pc[p] = "mark" => work[p].via = "approval"
    /\ pc[p] = "verify" => work[p].via = "device_flow"
    /\ pc[p] \in Admitting => work[p].via = "host_code" <=> p \in Bots
    /\ pc[p] \in Admitting => work[p].via \in {"host_code", "approval", "device_flow"}
    /\ work[p].via = "device_flow" <=> work[p].login # NoLogin
    /\ work[p].next = "verify" => work[p].via = "device_flow"
    /\ work[p].user <= Len(owners)

Holds(p, c) == pc[p] \in Admitting /\ work[p].via = "host_code" /\ work[p].code = c

\* A code that is stamped is in the hands of one bot at most, and of none once
\* it has bound its account.
HostCodes ==
  /\ \A p \in Processes : pc[p] \in Admitting /\ work[p].via = "host_code" =>
       work[p].code \in DOMAIN codes /\ codes[work[p].code].by = work[p].acct
  /\ \A p, q \in Processes : \A c \in DOMAIN codes : Holds(p, c) /\ Holds(q, c) => p = q
  /\ \A i \in DOMAIN grants : grants[i].via = "host_code" =>
       /\ grants[i].acct \in Accounts
       /\ grants[i].code \in DOMAIN codes
       /\ \A p \in Processes : ~ Holds(p, grants[i].code)

\* An approval in hand is of the account its code was made for; once it is
\* marked, its code is not pending any more, and never will be again.
Approving == pc[Console] \in {"mark"} \cup Admitting /\ work[Console].via = "approval"

Live(a, c) == requests[a].state = "pending" /\ requests[a].code = c

Approvals ==
  /\ \A a \in Accounts : requests[a].code \in DOMAIN tickets => tickets[requests[a].code] = a
  /\ Approving =>
       /\ work[Console].code \in DOMAIN tickets
       /\ tickets[work[Console].code] = work[Console].acct
       /\ pc[Console] # "mark" => ~ Live(work[Console].acct, work[Console].code)
  /\ \A i \in DOMAIN grants : grants[i].via = "approval" =>
       /\ grants[i].acct \in Accounts
       /\ grants[i].code \in DOMAIN tickets
       /\ ~ Live(grants[i].acct, grants[i].code)
       /\ Approving => work[Console].code # grants[i].code

\* A verified login on its way is the owner's, or the first there is.
Owner ==
  pc[Console] \in Admitting /\ work[Console].via = "device_flow" =>
    /\ work[Console].next = "bind" \/ pc[Console] = "bind" => work[Console].login = ExpectedLogin
    /\ work[Console].next = "verify" => ExpectedLogin = NoLogin

IInv == /\ TypeOK /\ Paths /\ HostCodes /\ Approvals /\ Owner
        /\ CodePairsOnce /\ ApprovalBindsItsSender

-----------------------------------------------------------------------------
LEMMA Assumed ==
  /\ Console \in Processes /\ Console \notin Bots /\ Bots \subseteq Processes
  /\ \A p \in Processes : p \notin Bots => p = Console
  /\ NoLogin \notin Logins /\ NoAccount \notin Accounts /\ Pin \in Logins \cup {NoLogin}
  /\ Ttl \in Nat /\ MaxTime \in Nat /\ MaxDeaths \in Nat /\ MaxInbound \in Nat
BY PairingAssumption DEF Processes

LEMMA NoWorkType ==
  /\ NoWork \in Work
  /\ NoWork.acct = NoAccount /\ NoWork.via = "none" /\ NoWork.code = 0
  /\ NoWork.login = NoLogin /\ NoWork.user = 0 /\ NoWork.next = "bind"
BY DEF NoWork, Work

LEMMA WorkTypes ==
  /\ \A w \in Work : /\ w.acct \in Accounts \cup {NoAccount}
                     /\ w.via \in {"none", "host_code", "approval", "device_flow"}
                     /\ w.code \in Nat /\ w.login \in Logins \cup {NoLogin} /\ w.user \in Nat
                     /\ w.next \in {"bind", "verify"}
  /\ \A w \in Work, u \in Nat : [w EXCEPT !.user = u] \in Work
  /\ \A w \in Work, n \in {"bind", "verify"} : [w EXCEPT !.next = n] \in Work
BY DEF Work

LEMMA NewWorkTypes ==
  /\ \A a \in Accounts : [NoWork EXCEPT !.acct = a] \in Work
  /\ \A a \in Accounts, v \in {"host_code", "approval"}, c \in Nat :
       [NoWork EXCEPT !.acct = a, !.via = v, !.code = c] \in Work
  /\ \A a \in Accounts, l \in Logins, n \in {"bind", "verify"} :
       [NoWork EXCEPT !.acct = a, !.via = "device_flow", !.login = l, !.next = n] \in Work
BY DEF NoWork, Work

LEMMA InitInv == Init => IInv
<1> SUFFICES ASSUME Init PROVE IInv
  OBVIOUS
<1>1. TypeOK
  BY NoWorkType, Assumed DEF Init, TypeOK, Stations
<1>2. Paths /\ HostCodes /\ Approvals /\ Owner
  BY NoWorkType, Assumed DEF Init, Paths, HostCodes, Approvals, Owner, Admitting, Holds, Approving
<1>3. CodePairsOnce /\ ApprovalBindsItsSender
  BY DEF Init, CodePairsOnce, ApprovalBindsItsSender
<1> QED
  BY <1>1, <1>2, <1>3 DEF IInv

-----------------------------------------------------------------------------
(* Types, and who is where.                                                *)

LEMMA TypeStep == IInv /\ [Next]_vars => TypeOK' /\ Paths'
<1> SUFFICES ASSUME IInv, [Next]_vars PROVE TypeOK' /\ Paths'
  OBVIOUS
<1> DEFINE Code == [expires : Nat, by : Accounts \cup {NoAccount}]
           Request(n) == [state : {"none", "pending", "approved"}, code : 0 .. n, expires : Nat]
           Identity(n) == [state : {"unpaired", "paired", "revoked"}, user : 0 .. n]
           Grant == [acct : Accounts, via : {"host_code", "approval", "device_flow"},
                     code : Nat, login : Logins \cup {NoLogin}]
<1>1. /\ now \in 0 .. MaxTime
      /\ codes \in Seq(Code) /\ tickets \in Seq(Accounts)
      /\ requests \in [Accounts -> Request(Len(tickets))]
      /\ identities \in [Accounts -> Identity(Len(owners))]
      /\ owners \in Seq(Logins \cup {NoLogin})
      /\ pc \in [Processes -> Stations] /\ work \in [Processes -> Work]
      /\ hits \in [Bots -> [Accounts -> Seq(0 .. MaxTime)]]
      /\ grants \in Seq(Grant)
      /\ inbound \in 0 .. MaxInbound /\ deaths \in 0 .. MaxDeaths
  BY DEF IInv, TypeOK
<1>2. Paths
  BY DEF IInv
<1>3. Len(codes) \in Nat /\ Len(tickets) \in Nat /\ Len(owners) \in Nat
  BY <1>1
<1> HIDE DEF Code, Request, Identity, Grant
<1>4. \A a \in Accounts, n \in Nat, e \in Nat :
        n > 0 => [state |-> "pending", code |-> n, expires |-> e] \in Request(n)
  BY DEF Request
<1>5. \A r, n : n \in Nat /\ r \in Request(n) => r \in Request(n + 1)
  BY DEF Request
<1>6. \A r, n : n \in Nat /\ r \in Identity(n) => r \in Identity(n + 1)
  BY DEF Identity
<1> DEFINE Types == /\ now' \in 0 .. MaxTime
                    /\ codes' \in Seq(Code) /\ tickets' \in Seq(Accounts)
                    /\ requests' \in [Accounts -> Request(Len(tickets'))]
                    /\ identities' \in [Accounts -> Identity(Len(owners'))]
                    /\ owners' \in Seq(Logins \cup {NoLogin})
                    /\ pc' \in [Processes -> Stations] /\ work' \in [Processes -> Work]
                    /\ hits' \in [Bots -> [Accounts -> Seq(0 .. MaxTime)]]
                    /\ grants' \in Seq(Grant)
                    /\ inbound' \in 0 .. MaxInbound /\ deaths' \in 0 .. MaxDeaths
<1>7. Types => TypeOK'
  BY DEF TypeOK, Code, Request, Identity, Grant
<1>8. Stations = {"off", "idle", "stamp", "ask", "ticket", "mark", "bootstrap", "verify",
                  "owner", "insert", "bind"}
  BY DEF Stations
<1> HIDE DEF Types
\* A process drops its work.
<1>9. ASSUME NEW p \in Processes, Drop(p), UNCHANGED codes, Len(owners) <= Len(owners')
      PROVE  pc' \in [Processes -> Stations] /\ work' \in [Processes -> Work] /\ Paths'
  <2>1. pc' = [pc EXCEPT ![p] = "idle"] /\ work' = [work EXCEPT ![p] = NoWork]
    BY <1>9 DEF Drop, Goto
  <2> QED
    BY <1>1, <1>2, <1>3, <1>8, <1>9, <2>1, NoWorkType, WorkTypes, SMTT(30) DEF Paths, Admitting
<1>10. CASE MintCode
  <2>1. [expires |-> now + Ttl, by |-> NoAccount] \in Code
    BY <1>1, Assumed DEF Code
  <2>2. codes' \in Seq(Code) /\ DOMAIN codes \subseteq DOMAIN codes'
    BY <1>1, <1>10, <2>1 DEF MintCode
  <2> QED
    BY <1>1, <1>2, <1>7, <1>10, <2>2 DEF MintCode, counts, Types, Paths
\* A process goes on, with its work as it is or with other work.
<1> DEFINE Fits(p, s, w) ==
             /\ s \in {"stamp", "ask", "ticket"} => p \in Bots
             /\ s \in {"mark", "verify"} => p = Console
             /\ s \in {"stamp", "ask", "ticket", "mark", "verify"} \cup Admitting => w.acct \in Accounts
             /\ s = "stamp" => w.via = "host_code" /\ w.code \in DOMAIN codes'
             /\ s = "mark" => w.via = "approval"
             /\ s = "verify" => w.via = "device_flow"
             /\ s \in Admitting => w.via = "host_code" <=> p \in Bots
             /\ s \in Admitting => w.via \in {"host_code", "approval", "device_flow"}
             /\ w.via = "device_flow" <=> w.login # NoLogin
             /\ w.next = "verify" => w.via = "device_flow"
             /\ w.user <= Len(owners')
<1>11. ASSUME NEW p \in Processes, NEW s \in Stations, NEW w \in Work,
              pc' = [pc EXCEPT ![p] = s], work' = [work EXCEPT ![p] = w],
              DOMAIN codes \subseteq DOMAIN codes', Len(owners) <= Len(owners'), Len(owners') \in Nat,
              Fits(p, s, w)
       PROVE  pc' \in [Processes -> Stations] /\ work' \in [Processes -> Work] /\ Paths'
  <2>1. pc' \in [Processes -> Stations] /\ work' \in [Processes -> Work]
    BY <1>1, <1>11
  <2>2. pc'[p] = s /\ work'[p] = w
    BY <1>1, <1>11
  <2>3. ASSUME NEW q \in Processes, q # p
        PROVE  pc'[q] = pc[q] /\ work'[q] = work[q] /\ work[q].user \in Nat
    BY <1>1, <1>11, <2>3, WorkTypes
  <2>4. ASSUME NEW q \in Processes, q # p PROVE Fits(q, pc'[q], work'[q])
    <3>1. work[q].user <= Len(owners')
      BY <1>2, <1>3, <1>11, <2>3, <2>4 DEF Paths
    <3> QED
      BY <1>2, <1>11, <2>3, <2>4, <3>1 DEF Paths
  <2>5. \A q \in Processes : Fits(q, pc'[q], work'[q])
    BY <1>11, <2>2, <2>4
  <2> QED
    BY <2>1, <2>5 DEF Paths
<1> HIDE DEF Fits
<1>12. \A p \in Processes : pc[p] \in Stations /\ work[p] \in Work
  BY <1>1
<1>13. \A p \in Processes : work[p].user \in Nat /\ work[p].code \in Nat
  BY <1>12, WorkTypes
<1>14. ASSUME NEW p \in Processes PROVE work = [work EXCEPT ![p] = work[p]]
  BY <1>1
<1>15. CASE MarkApproved
  <2>1. Console \in Processes /\ "owner" \in Stations /\ pc[Console] = "mark" /\ work[Console].acct \in Accounts
    BY <1>2, <1>8, <1>15, Assumed DEF MarkApproved, Paths
  <2>2. pc' = [pc EXCEPT ![Console] = "owner"] /\ UNCHANGED <<now, codes, tickets, identities, owners, work, counts>>
    BY <1>15 DEF MarkApproved, Goto
  <2>3. requests' \in [Accounts -> Request(Len(tickets'))]
    BY <1>1, <1>15, <2>1, <2>2 DEF MarkApproved, Request
  <2>4. pc' \in [Processes -> Stations] /\ work' \in [Processes -> Work] /\ Paths'
    <3>1. Fits(Console, "owner", work[Console])
      BY <1>3, <1>2, <1>12, <2>1, <2>2, Assumed DEF Fits, Paths, Admitting
    <3>2. /\ Console \in Processes /\ "owner" \in Stations /\ work[Console] \in Work
          /\ pc' = [pc EXCEPT ![Console] = "owner"] /\ work' = [work EXCEPT ![Console] = work[Console]]
      BY <1>3, <1>12, <1>14, <2>1, <2>2, Assumed
    <3>3. DOMAIN codes \subseteq DOMAIN codes' /\ Len(owners) <= Len(owners') /\ Len(owners') \in Nat
      BY <1>3, <1>12, <1>14, <2>1, <2>2
    <3> QED
      BY <1>11, <3>1, <3>2, <3>3
  <2> QED
    BY <1>1, <1>7, <2>2, <2>3, <2>4 DEF counts, Types
<1>16. CASE Verify
  <2>1. Console \in Processes /\ "owner" \in Stations /\ pc[Console] = "verify" /\ work[Console].acct \in Accounts
    BY <1>2, <1>8, <1>16, Assumed DEF Verify, Paths
  <2>2. UNCHANGED <<now, tables, counts>>
    BY <1>16 DEF Verify
  <2>3. CASE Drop(Console)
    BY <1>1, <1>3, <1>7, <1>9, <2>1, <2>2, <2>3 DEF counts, tables, Types
  <2>4. CASE Goto(Console, "owner") /\ work' = [work EXCEPT ![Console].next = "bind"]
    <3> DEFINE w == [work[Console] EXCEPT !.next = "bind"]
    <3>1. w \in Work /\ w.acct = work[Console].acct /\ w.via = work[Console].via
          /\ w.login = work[Console].login /\ w.user = work[Console].user /\ w.next = "bind"
      BY <1>12, <2>1, WorkTypes DEF Work
    <3>2. pc' = [pc EXCEPT ![Console] = "owner"] /\ work' = [work EXCEPT ![Console] = w]
      BY <1>1, <2>1, <2>4 DEF Goto
    <3> HIDE DEF w
    <3>3. codes' = codes /\ owners' = owners
      BY <2>2 DEF tables
    <3>4. pc' \in [Processes -> Stations] /\ work' \in [Processes -> Work] /\ Paths'
      <4>1. Fits(Console, "owner", w)
        BY <1>3, <1>2, <2>1, <3>1, <3>2, <3>3, Assumed DEF Fits, Paths, Admitting
      <4>2. /\ Console \in Processes /\ "owner" \in Stations /\ w \in Work
            /\ pc' = [pc EXCEPT ![Console] = "owner"] /\ work' = [work EXCEPT ![Console] = w]
        BY <1>3, <2>1, <3>1, <3>2, <3>3, Assumed
      <4>3. DOMAIN codes \subseteq DOMAIN codes' /\ Len(owners) <= Len(owners') /\ Len(owners') \in Nat
        BY <1>3, <2>1, <3>1, <3>2, <3>3
      <4> QED
        BY <1>11, <4>1, <4>2, <4>3
    <3> QED
      BY <1>1, <1>7, <2>2, <3>4 DEF counts, tables, Types
  <2> QED
    BY <1>16, <2>3, <2>4 DEF Verify
<1>17. CASE Tick
  <2>1. now' \in 0 .. MaxTime
    BY <1>1, <1>17, Assumed DEF Tick
  <2> QED
    BY <1>1, <1>2, <1>7, <1>17, <2>1 DEF Tick, counts, tables, Types, Paths
<1>18. ASSUME NEW b \in Bots, Stamp(b) PROVE TypeOK' /\ Paths'
  <2>1. b \in Processes /\ "owner" \in Stations /\ pc[b] = "stamp" /\ work[b].acct \in Accounts
    BY <1>2, <1>8, <1>18, Assumed DEF Stamp, Paths
  <2>2. UNCHANGED <<now, tickets, requests, identities, owners, counts>>
    BY <1>18 DEF Stamp
  <2>3. CASE Drop(b) /\ UNCHANGED codes
    BY <1>1, <1>3, <1>7, <1>9, <2>1, <2>2, <2>3 DEF counts, Types
  <2>4. CASE codes' = [codes EXCEPT ![work[b].code].by = work[b].acct] /\ Goto(b, "owner") /\ UNCHANGED work
    <3>1. work[b].code \in DOMAIN codes
      BY <1>2, <2>1 DEF Paths
    <3>2. codes[work[b].code] \in Code
      BY <1>1, <3>1
    <3>9. [codes[work[b].code] EXCEPT !.by = work[b].acct] \in Code
      BY <2>1, <3>2 DEF Code
    <3>3. codes' \in Seq(Code) /\ DOMAIN codes' = DOMAIN codes
      BY <1>1, <2>4, <3>1, <3>9
    <3>4. pc' = [pc EXCEPT ![b] = "owner"] /\ work' = work /\ owners' = owners
      BY <2>2, <2>4 DEF Goto
    <3>5. pc' \in [Processes -> Stations] /\ work' \in [Processes -> Work] /\ Paths'
      <4>1. Fits(b, "owner", work[b])
        BY <1>3, <1>2, <1>12, <2>1, <3>3, <3>4, Assumed DEF Fits, Paths, Admitting
      <4>2. /\ b \in Processes /\ "owner" \in Stations /\ work[b] \in Work
            /\ pc' = [pc EXCEPT ![b] = "owner"] /\ work' = [work EXCEPT ![b] = work[b]]
        BY <1>3, <1>12, <1>14, <2>1, <3>3, <3>4, Assumed
      <4>3. DOMAIN codes \subseteq DOMAIN codes' /\ Len(owners) <= Len(owners') /\ Len(owners') \in Nat
        BY <1>3, <1>12, <1>14, <2>1, <3>3, <3>4
      <4> QED
        BY <1>11, <4>1, <4>2, <4>3
    <3> QED
      BY <1>1, <1>7, <2>2, <3>3, <3>5 DEF counts, Types
  <2> QED
    BY <1>18, <2>3, <2>4 DEF Stamp
<1>19. ASSUME NEW b \in Bots, AskForCode(b) PROVE TypeOK' /\ Paths'
  <2>1. b \in Processes /\ "ticket" \in Stations /\ pc[b] = "ask" /\ work[b].acct \in Accounts
    BY <1>2, <1>8, <1>19, Assumed DEF AskForCode, Paths
  <2>2. UNCHANGED <<now, tables, counts>>
    BY <1>19 DEF AskForCode
  <2>3. CASE Drop(b)
    BY <1>1, <1>3, <1>7, <1>9, <2>1, <2>2, <2>3 DEF counts, tables, Types
  <2>4. CASE Goto(b, "ticket") /\ UNCHANGED work
    <3>1. pc' = [pc EXCEPT ![b] = "ticket"] /\ work' = work /\ owners' = owners /\ codes' = codes
      BY <2>2, <2>4 DEF Goto, tables
    <3>2. pc' \in [Processes -> Stations] /\ work' \in [Processes -> Work] /\ Paths'
      <4>1. Fits(b, "ticket", work[b])
        BY <1>3, <1>2, <1>12, <2>1, <3>1, Assumed DEF Fits, Paths, Admitting
      <4>2. /\ b \in Processes /\ "ticket" \in Stations /\ work[b] \in Work
            /\ pc' = [pc EXCEPT ![b] = "ticket"] /\ work' = [work EXCEPT ![b] = work[b]]
        BY <1>3, <1>12, <1>14, <2>1, <3>1, Assumed
      <4>3. DOMAIN codes \subseteq DOMAIN codes' /\ Len(owners) <= Len(owners') /\ Len(owners') \in Nat
        BY <1>3, <1>12, <1>14, <2>1, <3>1
      <4> QED
        BY <1>11, <4>1, <4>2, <4>3
    <3> QED
      BY <1>1, <1>7, <2>2, <3>2 DEF counts, tables, Types
  <2> QED
    BY <1>19, <2>3, <2>4 DEF AskForCode
<1>20. ASSUME NEW b \in Bots, Ticket(b) PROVE TypeOK' /\ Paths'
  <2>1. b \in Processes /\ work[b].acct \in Accounts /\ Drop(b)
    BY <1>2, <1>20, Assumed DEF Ticket, Paths
  <2>2. UNCHANGED <<now, codes, identities, owners, counts>>
    BY <1>20 DEF Ticket
  <2>3. tickets' \in Seq(Accounts) /\ Len(tickets') = Len(tickets) + 1
    BY <1>1, <1>20, <2>1 DEF Ticket
  <2>4. [state |-> "pending", code |-> Len(tickets'), expires |-> now + Ttl] \in Request(Len(tickets'))
    BY <1>1, <1>3, <1>4, <2>3, Assumed
  <2>5. requests' \in [Accounts -> Request(Len(tickets'))]
    BY <1>1, <1>3, <1>5, <1>20, <2>1, <2>3, <2>4 DEF Ticket
  <2> QED
    BY <1>1, <1>3, <1>7, <1>9, <2>1, <2>2, <2>3, <2>5 DEF counts, Types
<1>21. ASSUME NEW b \in Bots, NEW a \in Accounts, CheckInbound(b, a) PROVE TypeOK' /\ Paths'
  <2>1. b \in Processes /\ "ask" \in Stations
    BY <1>8, Assumed
  <2>2. inbound' \in 0 .. MaxInbound /\ UNCHANGED <<now, tables, grants, deaths>>
    BY <1>1, <1>21, Assumed DEF CheckInbound
  <2>3. hits' \in [Bots -> [Accounts -> Seq(0 .. MaxTime)]]
    <3>1. hits[b][a] \in Seq(0 .. MaxTime)
      BY <1>1
    <3>2. Append(hits[b][a], now) \in Seq(0 .. MaxTime)
      BY <1>1, <3>1
    <3>3. CASE hits' = [hits EXCEPT ![b][a] = Append(@, now)]
      <4>1. [hits[b] EXCEPT ![a] = Append(@, now)] \in [Accounts -> Seq(0 .. MaxTime)]
        BY <1>1, <3>2
      <4> QED
        BY <1>1, <3>3, <4>1
    <3> QED
      BY <1>1, <1>21, <3>3 DEF CheckInbound
  <2>4. CASE UNCHANGED <<pc, work>>
    BY <1>1, <1>2, <1>7, <2>2, <2>3, <2>4 DEF tables, Types, Paths
  <2>5. CASE Goto(b, "ask") /\ work' = [work EXCEPT ![b] = [NoWork EXCEPT !.acct = a]]
    <3> DEFINE w == [NoWork EXCEPT !.acct = a]
    <3>1. w \in Work /\ w.acct = a /\ w.via = "none" /\ w.login = NoLogin /\ w.user = 0 /\ w.next = "bind"
      BY NewWorkTypes DEF NoWork
    <3>2. pc' = [pc EXCEPT ![b] = "ask"] /\ work' = [work EXCEPT ![b] = w] /\ codes' = codes /\ owners' = owners
      BY <2>2, <2>5 DEF Goto, tables
    <3> HIDE DEF w
    <3>3. pc' \in [Processes -> Stations] /\ work' \in [Processes -> Work] /\ Paths'
      <4>1. Fits(b, "ask", w)
        BY <1>3, <2>1, <3>1, <3>2, Assumed DEF Fits, Admitting
      <4>2. /\ b \in Processes /\ "ask" \in Stations /\ w \in Work
            /\ pc' = [pc EXCEPT ![b] = "ask"] /\ work' = [work EXCEPT ![b] = w]
        BY <1>3, <2>1, <3>1, <3>2, Assumed
      <4>3. DOMAIN codes \subseteq DOMAIN codes' /\ Len(owners) <= Len(owners') /\ Len(owners') \in Nat
        BY <1>3, <2>1, <3>1, <3>2
      <4> QED
        BY <1>11, <4>1, <4>2, <4>3
    <3> QED
      BY <1>1, <1>7, <2>2, <2>3, <3>3 DEF tables, Types
  <2> QED
    BY <1>21, <2>4, <2>5 DEF CheckInbound
<1>22. ASSUME NEW b \in Bots, NEW a \in Accounts, NEW c \in 1 .. MaxCodes, PairCommand(b, a, c) PROVE TypeOK' /\ Paths'
  <2>1. b \in Processes /\ "stamp" \in Stations /\ c \in DOMAIN codes /\ c \in Nat
    BY <1>1, <1>8, <1>22, Assumed DEF PairCommand
  <2> DEFINE w == [NoWork EXCEPT !.acct = a, !.via = "host_code", !.code = c]
  <2>2. w \in Work /\ w.acct = a /\ w.via = "host_code" /\ w.code = c /\ w.login = NoLogin /\ w.user = 0 /\ w.next = "bind"
    BY <2>1, NewWorkTypes DEF NoWork
  <2>3. pc' = [pc EXCEPT ![b] = "stamp"] /\ work' = [work EXCEPT ![b] = w] /\ UNCHANGED <<now, tables, counts>>
    BY <1>22 DEF PairCommand, Goto
  <2> HIDE DEF w
  <2>4. codes' = codes /\ owners' = owners
    BY <2>3 DEF tables
  <2>5. pc' \in [Processes -> Stations] /\ work' \in [Processes -> Work] /\ Paths'
    <3>1. Fits(b, "stamp", w)
      BY <1>3, <2>1, <2>2, <2>3, <2>4, Assumed DEF Fits, Admitting
    <3>2. /\ b \in Processes /\ "stamp" \in Stations /\ w \in Work
          /\ pc' = [pc EXCEPT ![b] = "stamp"] /\ work' = [work EXCEPT ![b] = w]
      BY <1>3, <2>1, <2>2, <2>3, <2>4, Assumed
    <3>3. DOMAIN codes \subseteq DOMAIN codes' /\ Len(owners) <= Len(owners') /\ Len(owners') \in Nat
      BY <1>3, <2>1, <2>2, <2>3, <2>4
    <3> QED
      BY <1>11, <3>1, <3>2, <3>3
  <2> QED
    BY <1>1, <1>7, <2>3, <2>5 DEF counts, tables, Types
<1>23. ASSUME NEW c \in 1 .. MaxTickets, Approve(c) PROVE TypeOK' /\ Paths'
  <2>1. PICK a \in Accounts : work' = [work EXCEPT ![Console] = [NoWork EXCEPT !.acct = a, !.via = "approval", !.code = c]]
    BY <1>23 DEF Approve
  <2> DEFINE w == [NoWork EXCEPT !.acct = a, !.via = "approval", !.code = c]
  <2>2. w \in Work /\ w.acct = a /\ w.via = "approval" /\ w.code = c /\ w.login = NoLogin /\ w.user = 0 /\ w.next = "bind"
    <3>1. c \in Nat
      BY <1>23
    <3> QED
      BY <3>1, NewWorkTypes DEF NoWork
  <2>3. pc' = [pc EXCEPT ![Console] = "mark"] /\ work' = [work EXCEPT ![Console] = w] /\ UNCHANGED <<now, tables, counts>>
    BY <1>23, <2>1 DEF Approve, Goto
  <2> HIDE DEF w
  <2>4. codes' = codes /\ owners' = owners /\ "mark" \in Stations
    BY <1>8, <2>3 DEF tables
  <2>5. pc' \in [Processes -> Stations] /\ work' \in [Processes -> Work] /\ Paths'
    <3>1. Fits(Console, "mark", w)
      BY <1>3, <2>2, <2>3, <2>4, Assumed DEF Fits, Admitting
    <3>2. /\ Console \in Processes /\ "mark" \in Stations /\ w \in Work
          /\ pc' = [pc EXCEPT ![Console] = "mark"] /\ work' = [work EXCEPT ![Console] = w]
      BY <1>3, <2>2, <2>3, <2>4, Assumed
    <3>3. DOMAIN codes \subseteq DOMAIN codes' /\ Len(owners) <= Len(owners') /\ Len(owners') \in Nat
      BY <1>3, <2>2, <2>3, <2>4
    <3> QED
      BY <1>11, <3>1, <3>2, <3>3
  <2> QED
    BY <1>1, <1>7, <2>3, <2>5 DEF counts, tables, Types
<1>24. ASSUME NEW a \in Accounts, Revoke(a) PROVE TypeOK' /\ Paths'
  <2>1. UNCHANGED <<now, codes, tickets, requests, owners, pc, work, counts>>
    BY <1>24 DEF Revoke
  <2>2. identities' \in [Accounts -> Identity(Len(owners'))]
    BY <1>1, <1>24, <2>1 DEF Revoke, Identity
  <2> QED
    BY <1>1, <1>2, <1>7, <2>1, <2>2 DEF counts, Types, Paths
<1>25. ASSUME NEW a \in Accounts, NEW l \in Logins, Challenge(a, l) PROVE TypeOK' /\ Paths'
  <2> DEFINE n == IF ExpectedLogin = NoLogin THEN "verify" ELSE "bind"
             s == IF ExpectedLogin = NoLogin THEN "owner" ELSE "verify"
             w == [NoWork EXCEPT !.acct = a, !.via = "device_flow", !.login = l, !.next = n]
  <2>1. n \in {"bind", "verify"} /\ s \in Stations /\ s \in {"owner", "verify"}
    BY <1>8
  <2>2. pc' = [pc EXCEPT ![Console] = s] /\ work' = [work EXCEPT ![Console] = w] /\ UNCHANGED <<now, tables, counts>>
    BY <1>25 DEF Challenge, Goto
  <2> HIDE DEF n, s
  <2>3. w \in Work /\ w.acct = a /\ w.via = "device_flow" /\ w.login = l /\ w.user = 0 /\ w.next = n
    BY <2>1, NewWorkTypes DEF NoWork
  <2> HIDE DEF w
  <2>4. codes' = codes /\ owners' = owners
    BY <2>2 DEF tables
  <2>5. pc' \in [Processes -> Stations] /\ work' \in [Processes -> Work] /\ Paths'
    <3>1. Fits(Console, s, w)
      BY <1>3, <2>1, <2>2, <2>3, <2>4, Assumed DEF Fits, Admitting
    <3>2. /\ Console \in Processes /\ s \in Stations /\ w \in Work
          /\ pc' = [pc EXCEPT ![Console] = s] /\ work' = [work EXCEPT ![Console] = w]
      BY <1>3, <2>1, <2>2, <2>3, <2>4, Assumed
    <3>3. DOMAIN codes \subseteq DOMAIN codes' /\ Len(owners) <= Len(owners') /\ Len(owners') \in Nat
      BY <1>3, <2>1, <2>2, <2>3, <2>4
    <3> QED
      BY <1>11, <3>1, <3>2, <3>3
  <2> QED
    BY <1>1, <1>7, <2>2, <2>5 DEF counts, tables, Types
\* A process has its user, and goes where its work says.
<1> DEFINE Owned(p, n) ==
             /\ pc[p] \in {"owner", "insert"}
             /\ owners' \in Seq(Logins \cup {NoLogin}) /\ Len(owners) <= Len(owners') /\ n <= Len(owners')
             /\ pc' = [pc EXCEPT ![p] = work[p].next] /\ work' = [work EXCEPT ![p].user = n]
             /\ UNCHANGED <<now, codes, tickets, requests, identities, counts>>
<1>26. ASSUME NEW p \in Processes, NEW n \in Nat, Owned(p, n) PROVE TypeOK' /\ Paths'
  <2> DEFINE w == [work[p] EXCEPT !.user = n]
  <2>1. w \in Work /\ w.acct = work[p].acct /\ w.via = work[p].via /\ w.login = work[p].login
        /\ w.user = n /\ w.next = work[p].next
    BY <1>12, <1>26, WorkTypes DEF Work
  <2>2. work' = [work EXCEPT ![p] = w] /\ codes' = codes
    BY <1>1, <1>26
  <2> HIDE DEF w
  <2>3. work[p].next \in {"bind", "verify"} /\ work[p].next \in Stations
    BY <1>8, <1>12, WorkTypes
  <2>4. work[p].acct \in Accounts
    BY <1>2, <1>26 DEF Paths, Admitting
  <2>5. /\ work[p].via = "host_code" <=> p \in Bots
        /\ work[p].via \in {"host_code", "approval", "device_flow"}
        /\ work[p].via = "device_flow" <=> work[p].login # NoLogin
        /\ work[p].next = "verify" => work[p].via = "device_flow"
    BY <1>2, <1>26 DEF Paths, Admitting
  <2>6. work[p].next = "verify" => p = Console
    BY <2>5, Assumed
  <2>7. pc' \in [Processes -> Stations] /\ work' \in [Processes -> Work] /\ Paths'
    <3>1. Fits(p, work[p].next, w)
      BY <1>3, <1>26, <2>1, <2>2, <2>3, <2>4, <2>5, <2>6, Assumed DEF Fits, Admitting
    <3>2. /\ p \in Processes /\ work[p].next \in Stations /\ w \in Work
          /\ pc' = [pc EXCEPT ![p] = work[p].next] /\ work' = [work EXCEPT ![p] = w]
      BY <1>3, <1>26, <2>1, <2>2, <2>3, <2>4, <2>5, <2>6, Assumed
    <3>3. DOMAIN codes \subseteq DOMAIN codes' /\ Len(owners) <= Len(owners') /\ Len(owners') \in Nat
      BY <1>3, <1>26, <2>1, <2>2, <2>3, <2>4, <2>5, <2>6
    <3> QED
      BY <1>11, <3>1, <3>2, <3>3
  <2>8. Len(owners') \in Nat
    BY <1>26
  <2>9. identities' \in [Accounts -> Identity(Len(owners'))]
    BY <1>1, <1>3, <1>26, <2>8 DEF Identity
  <2> QED
    BY <1>1, <1>7, <1>26, <2>7, <2>9 DEF counts, Types
<1> HIDE DEF Owned
<1>27. ASSUME NEW p \in Processes, EnsureOwner(p) PROVE TypeOK' /\ Paths'
  <2>1. pc[p] = "owner" /\ UNCHANGED <<now, codes, tickets, requests, identities, counts>>
    BY <1>27 DEF EnsureOwner
  <2>2. CASE owners = <<>>
    <3>1. pc' = [pc EXCEPT ![p] = "insert"] /\ UNCHANGED <<owners, work>> /\ "insert" \in Stations
      BY <1>8, <1>27, <2>2 DEF EnsureOwner, Goto
    <3>2. pc' \in [Processes -> Stations] /\ work' \in [Processes -> Work] /\ Paths'
      <4>1. Fits(p, "insert", work[p])
        BY <1>3, <1>2, <1>12, <2>1, <3>1, Assumed DEF Fits, Paths, Admitting
      <4>2. /\ p \in Processes /\ "insert" \in Stations /\ work[p] \in Work
            /\ pc' = [pc EXCEPT ![p] = "insert"] /\ work' = [work EXCEPT ![p] = work[p]]
        BY <1>3, <1>12, <1>14, <2>1, <3>1, Assumed
      <4>3. DOMAIN codes \subseteq DOMAIN codes' /\ Len(owners) <= Len(owners') /\ Len(owners') \in Nat
        BY <1>3, <1>12, <1>14, <2>1, <3>1
      <4> QED
        BY <1>11, <4>1, <4>2, <4>3
    <3> QED
      BY <1>1, <1>7, <2>1, <3>1, <3>2 DEF counts, Types
  <2>3. CASE owners # <<>>
    <3>1. 1 \in DOMAIN owners /\ Len(owners) >= 1
      BY <1>1, <2>3
    <3>2. work[p].login \in Logins \cup {NoLogin}
      BY <1>12, WorkTypes
    <3>3. owners' = IF work[p].login = NoLogin THEN owners ELSE [owners EXCEPT ![1] = work[p].login]
      BY <1>27, <2>3 DEF EnsureOwner
    <3>4. owners' \in Seq(Logins \cup {NoLogin}) /\ Len(owners') = Len(owners)
      <4>1. CASE work[p].login = NoLogin
        BY <1>1, <3>3, <4>1
      <4>2. CASE work[p].login # NoLogin
        <5> DEFINE l == work[p].login
        <5>1. owners' = [owners EXCEPT ![1] = l] /\ l \in Logins \cup {NoLogin}
          BY <3>2, <3>3, <4>2
        <5> HIDE DEF l
        <5> QED
          BY <1>1, <3>1, <5>1
      <4> QED
        BY <4>1, <4>2
    <3>5. pc' = [pc EXCEPT ![p] = work[p].next] /\ work' = [work EXCEPT ![p].user = 1]
      BY <1>27, <2>3 DEF EnsureOwner, Goto
    <3>6. Owned(p, 1)
      BY <1>3, <2>1, <3>1, <3>4, <3>5 DEF Owned
    <3> QED
      BY <1>26, <3>6
  <2> QED
    BY <2>2, <2>3
<1>28. ASSUME NEW p \in Processes, InsertOwner(p) PROVE TypeOK' /\ Paths'
  <2>1. pc[p] = "insert" /\ UNCHANGED <<now, codes, tickets, requests, identities, counts>>
    BY <1>28 DEF InsertOwner
  <2>2. work[p].login \in Logins \cup {NoLogin}
    BY <1>12, WorkTypes
  <2>3. owners' \in Seq(Logins \cup {NoLogin}) /\ Len(owners') = Len(owners) + 1
    BY <1>1, <1>28, <2>2 DEF InsertOwner
  <2>4. pc' = [pc EXCEPT ![p] = work[p].next] /\ work' = [work EXCEPT ![p].user = Len(owners')]
    BY <1>28 DEF InsertOwner, Goto
  <2>5. Owned(p, Len(owners')) /\ Len(owners') \in Nat
    BY <1>3, <2>1, <2>3, <2>4 DEF Owned
  <2> QED
    BY <1>26, <2>5
<1>29. ASSUME NEW p \in Processes, Bind(p) PROVE TypeOK' /\ Paths'
  <2>1. pc[p] = "bind" /\ Drop(p) /\ UNCHANGED <<now, codes, tickets, requests, owners, hits, inbound, deaths>>
    BY <1>29 DEF Bind
  <2>2. work[p].acct \in Accounts /\ work[p].via \in {"host_code", "approval", "device_flow"} /\ work[p].user <= Len(owners)
    BY <1>2, <2>1 DEF Paths, Admitting
  <2>3. work[p].login \in Logins \cup {NoLogin} /\ work[p].user \in Nat /\ work[p].code \in Nat
    BY <1>12, WorkTypes
  <2>4. [acct |-> work[p].acct, via |-> work[p].via, code |-> work[p].code, login |-> work[p].login] \in Grant
    BY <2>2, <2>3 DEF Grant
  <2>5. grants' \in Seq(Grant)
    BY <1>1, <1>29, <2>4 DEF Bind
  <2>6. [state |-> "paired", user |-> work[p].user] \in Identity(Len(owners))
    BY <1>3, <2>2, <2>3 DEF Identity
  <2>7. identities' \in [Accounts -> Identity(Len(owners'))]
    BY <1>1, <1>29, <2>1, <2>2, <2>6 DEF Bind
  <2> QED
    BY <1>1, <1>3, <1>7, <1>9, <2>1, <2>5, <2>7 DEF Types
<1>30. ASSUME NEW p \in Processes, Die(p) PROVE TypeOK' /\ Paths'
  <2>1. Drop(p) /\ UNCHANGED <<now, tables, grants, inbound>> /\ deaths' \in 0 .. MaxDeaths
    BY <1>1, <1>30, Assumed DEF Die
  <2>2. hits' \in [Bots -> [Accounts -> Seq(0 .. MaxTime)]]
    <3>1. [a \in Accounts |-> <<>>] \in [Accounts -> Seq(0 .. MaxTime)]
      OBVIOUS
    <3> QED
      BY <1>1, <1>30, <3>1 DEF Die
  <2> QED
    BY <1>1, <1>3, <1>7, <1>9, <2>1, <2>2 DEF tables, Types
<1>31. CASE UNCHANGED vars
  BY <1>1, <1>2, <1>7, <1>31 DEF vars, tables, counts, Types, Paths
<1> QED
  BY <1>10, <1>15, <1>16, <1>17, <1>18, <1>19, <1>20, <1>21, <1>22, <1>23, <1>24, <1>25, <1>27, <1>28, <1>29, <1>30, <1>31 DEF Next

-----------------------------------------------------------------------------
(* A host code binds one account once.                                     *)

\* What the type invariant says of the tables and the work, row by row.
LEMMA Rows ==
  ASSUME TypeOK
  PROVE  /\ \A p \in Processes : work[p] \in Work /\ pc[p] \in Stations
         /\ \A p \in Processes : work[p].acct \in Accounts => work[p].acct # NoAccount
         /\ codes \in Seq([expires : Nat, by : Accounts \cup {NoAccount}])
         /\ tickets \in Seq(Accounts) /\ Len(tickets) \in Nat
         /\ owners \in Seq(Logins \cup {NoLogin})
         /\ grants \in Seq([acct : Accounts, via : {"host_code", "approval", "device_flow"},
                            code : Nat, login : Logins \cup {NoLogin}])
         /\ \A i \in DOMAIN grants : grants[i].acct \in Accounts /\ grants[i].acct # NoAccount
<1> DEFINE S == [acct : Accounts, via : {"host_code", "approval", "device_flow"},
                 code : Nat, login : Logins \cup {NoLogin}]
<1>1. grants \in Seq(S)
  BY DEF TypeOK
<1>2. \A g \in S : g.acct \in Accounts
  OBVIOUS
<1> HIDE DEF S
<1>3. \A i \in DOMAIN grants : grants[i] \in S
  BY <1>1
<1>4. \A i \in DOMAIN grants : grants[i].acct \in Accounts /\ grants[i].acct # NoAccount
  BY <1>2, <1>3, Assumed
<1>5. tickets \in Seq(Accounts) /\ Len(tickets) \in Nat
  BY DEF TypeOK
<1> QED
  BY <1>4, <1>5, Assumed DEF TypeOK

LEMMA Goes ==
  ASSUME TypeOK, NEW p \in Processes, NEW s, pc' = [pc EXCEPT ![p] = s]
  PROVE  pc'[p] = s /\ \A q \in Processes : q # p => pc'[q] = pc[q]
BY DEF TypeOK

LEMMA Works ==
  ASSUME TypeOK, NEW p \in Processes, NEW w, work' = [work EXCEPT ![p] = w]
  PROVE  work'[p] = w /\ \A q \in Processes : q # p => work'[q] = work[q]
BY DEF TypeOK

LEMMA Drops ==
  ASSUME TypeOK, NEW p \in Processes, Drop(p)
  PROVE  /\ pc'[p] = "idle" /\ work'[p].via = "none"
         /\ \A q \in Processes : q # p => pc'[q] = pc[q] /\ work'[q] = work[q]
BY NoWorkType DEF TypeOK, Drop, Goto

LEMMA Appended ==
  ASSUME NEW S, NEW s \in Seq(S), NEW e \in S
  PROVE  /\ DOMAIN s \subseteq DOMAIN Append(s, e) /\ Len(s) + 1 \in DOMAIN Append(s, e)
         /\ Len(s) + 1 \notin DOMAIN s
         /\ \A i \in DOMAIN Append(s, e) : i \in DOMAIN s \/ i = Len(s) + 1
         /\ \A i \in DOMAIN s : Append(s, e)[i] = s[i]
         /\ Append(s, e)[Len(s) + 1] = e
OBVIOUS

\* What a binding adds to the history.
LEMMA Grants ==
  ASSUME TypeOK, Paths, NEW p \in Processes, Bind(p)
  PROVE  /\ pc[p] = "bind" /\ Drop(p) /\ UNCHANGED <<codes, tickets, requests, owners>>
         /\ DOMAIN grants \subseteq DOMAIN grants' /\ Len(grants') \in DOMAIN grants'
         /\ Len(grants') \notin DOMAIN grants /\ grants' # grants
         /\ \A i \in DOMAIN grants' : i \in DOMAIN grants \/ i = Len(grants')
         /\ \A i \in DOMAIN grants : grants'[i] = grants[i]
         /\ grants'[Len(grants')].acct = work[p].acct /\ work[p].acct \in Accounts
         /\ grants'[Len(grants')].via = work[p].via /\ grants'[Len(grants')].code = work[p].code
         /\ grants'[Len(grants')].login = work[p].login
<1> DEFINE g == [acct |-> work[p].acct, via |-> work[p].via,
                 code |-> work[p].code, login |-> work[p].login]
           S == [acct : Accounts, via : {"host_code", "approval", "device_flow"},
                 code : Nat, login : Logins \cup {NoLogin}]
<1>1. pc[p] = "bind" /\ Drop(p) /\ UNCHANGED <<codes, tickets, requests, owners>> /\ grants' = Append(grants, g)
  BY DEF Bind
<1>2. work[p].acct \in Accounts /\ work[p].via \in {"host_code", "approval", "device_flow"}
  BY <1>1 DEF Paths, Admitting
<1>3. work[p].code \in Nat /\ work[p].login \in Logins \cup {NoLogin}
  BY WorkTypes DEF TypeOK
<1>4. g \in S
  BY <1>2, <1>3
<1>5. g.acct = work[p].acct /\ g.via = work[p].via /\ g.code = work[p].code /\ g.login = work[p].login
  OBVIOUS
<1>6. grants \in Seq(S)
  BY DEF TypeOK
<1> HIDE DEF g, S
<1>7. Len(grants') = Len(grants) + 1
  BY <1>1, <1>4, <1>6
<1>8. /\ DOMAIN grants \subseteq DOMAIN grants' /\ Len(grants) + 1 \in DOMAIN grants'
      /\ Len(grants) + 1 \notin DOMAIN grants
      /\ \A i \in DOMAIN grants' : i \in DOMAIN grants \/ i = Len(grants) + 1
      /\ \A i \in DOMAIN grants : grants'[i] = grants[i]
      /\ grants'[Len(grants) + 1] = g
  BY <1>1, <1>4, <1>6, Appended
<1> QED
  BY <1>1, <1>2, <1>5, <1>7, <1>8

\* A bot or the console with a host code in hand.
Carries(p) == pc[p] \in Admitting /\ work[p].via = "host_code"

LEMMA HostFrame ==
  ASSUME HostCodes, CodePairsOnce,
         DOMAIN codes \subseteq DOMAIN codes', \A c \in DOMAIN codes : codes'[c].by = codes[c].by,
         \A p \in Processes : Carries(p)' =>
           Carries(p) /\ work'[p].code = work[p].code /\ work'[p].acct = work[p].acct,
         UNCHANGED grants
  PROVE  HostCodes' /\ CodePairsOnce'
<1>1. \A p \in Processes : Carries(p) => work[p].code \in DOMAIN codes /\ codes[work[p].code].by = work[p].acct
  BY DEF HostCodes, Carries
<1>2. \A p \in Processes : Carries(p)' => work'[p].code \in DOMAIN codes' /\ codes'[work'[p].code].by = work'[p].acct
  BY <1>1
<1>3. \A p \in Processes : \A c : Holds(p, c)' => Holds(p, c) /\ c \in DOMAIN codes
  BY <1>1 DEF Holds, Carries
<1>4. \A p, q \in Processes : \A c \in DOMAIN codes' : Holds(p, c)' /\ Holds(q, c)' => p = q
  BY <1>3 DEF HostCodes
<1>5. \A i \in DOMAIN grants : grants[i].via = "host_code" =>
        grants[i].acct \in Accounts /\ grants[i].code \in DOMAIN codes
  BY DEF HostCodes
<1>6. \A i \in DOMAIN grants : grants[i].via = "host_code" =>
        \A p \in Processes : ~ Holds(p, grants[i].code)'
  BY <1>3, <1>5 DEF HostCodes
<1>7. HostCodes'
  BY <1>2, <1>4, <1>5, <1>6 DEF HostCodes, Holds, Carries
<1> QED
  BY <1>5, <1>7 DEF CodePairsOnce

LEMMA HostStep == IInv /\ [Next]_vars => HostCodes' /\ CodePairsOnce'
<1> SUFFICES ASSUME IInv, [Next]_vars PROVE HostCodes' /\ CodePairsOnce'
  OBVIOUS
<1>1. TypeOK /\ Paths /\ HostCodes /\ CodePairsOnce
  BY DEF IInv
<1>2. \A p \in Processes : Carries(p) =>
        /\ p \in Bots /\ work[p].acct \in Accounts
        /\ work[p].code \in DOMAIN codes /\ codes[work[p].code].by = work[p].acct
  BY <1>1 DEF HostCodes, Carries, Paths
<1>3. \A p \in Processes : \A c : Holds(p, c) <=> Carries(p) /\ work[p].code = c
  BY DEF Holds, Carries
\* The codes as they are.
<1> DEFINE Still == UNCHANGED <<codes, grants>>
\* Whoever carries a code has carried it.
           Held(p) == Carries(p)' => Carries(p) /\ work'[p].code = work[p].code /\ work'[p].acct = work[p].acct
<1>4. Still /\ (\A p \in Processes : Held(p)) => HostCodes' /\ CodePairsOnce'
  BY <1>1, HostFrame
<1>5. \A p \in Processes : pc'[p] = pc[p] /\ work'[p] = work[p] => Held(p)
  BY DEF Carries
<1>6. \A p \in Processes : pc'[p] \notin Admitting => Held(p)
  BY DEF Carries
<1>7. \A p \in Processes : work'[p].via # "host_code" => Held(p)
  BY DEF Carries
<1> HIDE DEF Held
<1>8. ASSUME NEW p \in Processes, Drop(p) PROVE \A q \in Processes : Held(q)
  BY <1>1, <1>5, <1>7, <1>8, Drops
\* A process goes on, and not on the way to bind an account by a host code.
<1>26. ASSUME NEW p \in Processes, NEW s, NEW w, Still,
              pc' = [pc EXCEPT ![p] = s], work' = [work EXCEPT ![p] = w],
              s \notin Admitting \/ w.via # "host_code"
       PROVE  HostCodes' /\ CodePairsOnce'
  <2>1. pc'[p] = s /\ work'[p] = w
    BY <1>1, <1>26, Goes, Works
  <2>2. \A q \in Processes : q # p => pc'[q] = pc[q] /\ work'[q] = work[q]
    BY <1>1, <1>26, Goes, Works
  <2> QED
    BY <1>4, <1>5, <1>6, <1>7, <1>26, <2>1, <2>2
\* A process goes on with its code, if it has one, and its account.
<1>21. ASSUME NEW p \in Processes, NEW s, NEW w, Still, pc[p] \in Admitting,
              w.via = work[p].via, w.code = work[p].code, w.acct = work[p].acct,
              pc' = [pc EXCEPT ![p] = s], work' = [work EXCEPT ![p] = w]
       PROVE HostCodes' /\ CodePairsOnce'
  <2>1. pc'[p] = s /\ work'[p] = w
    BY <1>1, <1>21, Goes, Works
  <2>2. \A q \in Processes : q # p => pc'[q] = pc[q] /\ work'[q] = work[q]
    BY <1>1, <1>21, Goes, Works
  <2>3. Held(p)
    BY <1>21, <2>1 DEF Held, Carries
  <2> QED
    BY <1>4, <1>5, <1>21, <2>2, <2>3
<1> HIDE DEF Still
<1>9. CASE MintCode
  <2> DEFINE m == [expires |-> now + Ttl, by |-> NoAccount]
             S == [expires : Nat, by : Accounts \cup {NoAccount}]
  <2>1. codes' = Append(codes, m) /\ UNCHANGED <<pc, work, grants>>
    BY <1>9 DEF MintCode, counts
  <2>2. m \in S /\ codes \in Seq(S)
    BY <1>1, Assumed DEF TypeOK
  <2> HIDE DEF m, S
  <2>3. DOMAIN codes \subseteq DOMAIN codes' /\ \A c \in DOMAIN codes : codes'[c] = codes[c]
    BY <2>1, <2>2, Appended
  <2>4. \A p \in Processes : Held(p)
    BY <1>5, <2>1
  <2> QED
    BY <1>1, <2>1, <2>3, <2>4, HostFrame DEF Held
<1>10. CASE MarkApproved
  <2>1. pc[Console] = "mark" /\ pc' = [pc EXCEPT ![Console] = "owner"] /\ work' = work /\ Still
    BY <1>10 DEF MarkApproved, Goto, counts, Still
  <2>2. work[Console].via = "approval"
    BY <1>1, <2>1, Assumed DEF Paths
  <2>3. Held(Console)
    BY <1>7, <2>1, <2>2, Assumed
  <2> QED
    BY <1>1, <1>4, <1>5, <2>1, <2>3, Assumed, Goes
<1>11. CASE Verify
  <2>1. pc[Console] = "verify" /\ Still
    BY <1>11 DEF Verify, counts, tables, Still
  <2>2. CASE Drop(Console)
    BY <1>4, <1>8, <2>1, <2>2, Assumed
  <2>3. CASE Goto(Console, "owner") /\ work' = [work EXCEPT ![Console].next = "bind"]
    <3> DEFINE w == [work[Console] EXCEPT !.next = "bind"]
    <3>1. pc' = [pc EXCEPT ![Console] = "owner"] /\ work' = [work EXCEPT ![Console] = w]
      BY <2>3 DEF Goto
    <3>2. w.via = "device_flow"
      BY <1>1, <2>1, Assumed, Rows DEF Paths, Work
    <3> HIDE DEF w
    <3> QED
      BY <1>26, <2>1, <3>1, <3>2, Assumed
  <2> QED
    BY <1>11, <2>2, <2>3 DEF Verify
<1>12. CASE Tick \/ UNCHANGED vars
  BY <1>4, <1>5, <1>12 DEF Tick, vars, tables, counts, Still
<1>13. ASSUME NEW b \in Bots, Stamp(b) PROVE HostCodes' /\ CodePairsOnce'
  <2>1. b \in Processes /\ pc[b] = "stamp" /\ UNCHANGED grants
    BY <1>13, Assumed DEF Stamp, counts
  <2> DEFINE c == work[b].code
             a == work[b].acct
  <2>2. c \in DOMAIN codes /\ a \in Accounts /\ a # NoAccount
    BY <1>1, <2>1, Assumed DEF Paths
  <2>3. CASE Drop(b) /\ UNCHANGED codes
    BY <1>4, <1>8, <2>1, <2>3 DEF Still
  <2>4. CASE codes[c].by = NoAccount /\ codes' = [codes EXCEPT ![c].by = a]
             /\ pc' = [pc EXCEPT ![b] = "owner"] /\ work' = work
    <3> HIDE DEF c, a
    <3>1. /\ DOMAIN codes' = DOMAIN codes /\ codes'[c].by = a
          /\ \A d \in DOMAIN codes : d # c => codes'[d] = codes[d]
      <4> DEFINE S == [expires : Nat, by : Accounts \cup {NoAccount}]
                 e == [codes[c] EXCEPT !.by = a]
      <4>1. codes \in Seq(S) /\ codes' = [codes EXCEPT ![c] = e]
        BY <1>1, <2>4, Rows
      <4> HIDE DEF S, e
      <4>2. codes[c] \in S
        BY <2>2, <4>1
      <4>3. e.by = a
        BY <4>2 DEF S, e
      <4> QED
        BY <2>2, <4>1, <4>3
    <3>2. pc'[b] = "owner" /\ \A q \in Processes : q # b => pc'[q] = pc[q]
      BY <1>1, <2>1, <2>4, Goes
    <3>3. \A q \in Processes : ~ (Carries(q) /\ work[q].code = c)
      BY <1>2, <2>4, Assumed
    <3>4. \A q \in Processes : q # b /\ Carries(q)' => Carries(q) /\ work[q].code # c
      BY <2>4, <3>2, <3>3 DEF Carries
    <3>5. \A q \in Processes : Carries(q)' =>
            work[q].code \in DOMAIN codes' /\ codes'[work[q].code].by = work[q].acct
      BY <1>2, <2>2, <3>1, <3>4 DEF c, a
    <3>6. \A i \in DOMAIN grants : grants[i].via = "host_code" =>
            /\ grants[i].acct \in Accounts /\ grants[i].code \in DOMAIN codes
            /\ grants[i].code # c
      BY <1>1, <2>4, Rows DEF HostCodes, CodePairsOnce
    <3>7. \A q \in Processes : \A d : Holds(q, d)' <=> Carries(q)' /\ work[q].code = d
      BY <2>4 DEF Holds, Carries
    <3>8. \A p, q \in Processes : \A d \in DOMAIN codes' : Holds(p, d)' /\ Holds(q, d)' => p = q
      <4>1. \A p, q \in Processes : \A d \in DOMAIN codes : Holds(p, d) /\ Holds(q, d) => p = q
        BY <1>1 DEF HostCodes
      <4> QED
        BY <1>3, <3>1, <3>4, <3>7, <4>1 DEF c
    <3>9. \A i \in DOMAIN grants : grants[i].via = "host_code" =>
            \A q \in Processes : ~ Holds(q, grants[i].code)'
      <4>1. \A i \in DOMAIN grants : grants[i].via = "host_code" =>
              \A q \in Processes : ~ Holds(q, grants[i].code)
        BY <1>1 DEF HostCodes
      <4>2. \A i \in DOMAIN grants : \A q \in Processes : Holds(q, grants[i].code)' <=> Carries(q)' /\ work[q].code = grants[i].code
        BY <2>1, <2>4 DEF Holds, Carries
      <4> QED
        BY <1>3, <3>4, <3>6, <4>1, <4>2 DEF c
    <3>10. HostCodes'
      BY <2>1, <2>4, <3>1, <3>5, <3>6, <3>8, <3>9 DEF HostCodes, Carries
    <3>11. CodePairsOnce'
      BY <1>1, <2>1, <3>1, <3>6 DEF CodePairsOnce
    <3> QED
      BY <3>10, <3>11
  <2> QED
    BY <1>13, <2>3, <2>4 DEF Stamp, Goto
<1>14. ASSUME NEW b \in Bots, AskForCode(b) PROVE HostCodes' /\ CodePairsOnce'
  <2>1. b \in Processes /\ Still
    BY <1>14, Assumed DEF AskForCode, counts, tables, Still
  <2>2. CASE Drop(b)
    BY <1>4, <1>8, <2>1, <2>2
  <2>3. CASE pc' = [pc EXCEPT ![b] = "ticket"] /\ work' = work
    BY <1>1, <1>4, <1>5, <1>6, <2>1, <2>3, Goes DEF Admitting
  <2> QED
    BY <1>14, <2>2, <2>3 DEF AskForCode, Goto
<1>15. ASSUME NEW b \in Bots, Ticket(b) PROVE HostCodes' /\ CodePairsOnce'
  BY <1>4, <1>8, <1>15, Assumed DEF Ticket, counts, Still
<1>16. ASSUME NEW b \in Bots, NEW a \in Accounts, CheckInbound(b, a) PROVE HostCodes' /\ CodePairsOnce'
  <2>1. b \in Processes /\ Still
    BY <1>16, Assumed DEF CheckInbound, tables, Still
  <2>2. CASE UNCHANGED <<pc, work>>
    BY <1>4, <1>5, <2>1, <2>2
  <2> DEFINE w == [NoWork EXCEPT !.acct = a]
  <2>3. CASE pc' = [pc EXCEPT ![b] = "ask"] /\ work' = [work EXCEPT ![b] = w]
    <3> HIDE DEF w
    <3> QED
      BY <1>26, <2>1, <2>3 DEF Admitting
  <2> QED
    BY <1>16, <2>2, <2>3 DEF CheckInbound, Goto
<1>17. ASSUME NEW b \in Bots, NEW a \in Accounts, NEW c \in 1 .. MaxCodes, PairCommand(b, a, c)
       PROVE HostCodes' /\ CodePairsOnce'
  <2> DEFINE w == [NoWork EXCEPT !.acct = a, !.via = "host_code", !.code = c]
  <2>1. b \in Processes /\ Still /\ pc' = [pc EXCEPT ![b] = "stamp"] /\ work' = [work EXCEPT ![b] = w]
    BY <1>17, Assumed DEF PairCommand, tables, counts, Goto, Still
  <2> HIDE DEF w
  <2> QED
    BY <1>26, <2>1 DEF Admitting
<1>18. ASSUME NEW c \in 1 .. MaxTickets, Approve(c) PROVE HostCodes' /\ CodePairsOnce'
  <2>1. PICK a \in Accounts : work' = [work EXCEPT ![Console] = [NoWork EXCEPT !.acct = a, !.via = "approval", !.code = c]]
    BY <1>18 DEF Approve
  <2>2. Still /\ pc' = [pc EXCEPT ![Console] = "mark"]
    BY <1>18 DEF Approve, tables, counts, Goto, Still
  <2> DEFINE w == [NoWork EXCEPT !.acct = a, !.via = "approval", !.code = c]
  <2>3. work' = [work EXCEPT ![Console] = w]
    BY <2>1
  <2> HIDE DEF w
  <2> QED
    BY <1>26, <2>2, <2>3, Assumed DEF Admitting
<1>19. ASSUME NEW a \in Accounts, Revoke(a) PROVE HostCodes' /\ CodePairsOnce'
  BY <1>4, <1>5, <1>19 DEF Revoke, counts, Still
<1>20. ASSUME NEW a \in Accounts, NEW l \in Logins, Challenge(a, l) PROVE HostCodes' /\ CodePairsOnce'
  <2> DEFINE n == IF ExpectedLogin = NoLogin THEN "verify" ELSE "bind"
             s == IF ExpectedLogin = NoLogin THEN "owner" ELSE "verify"
             w == [NoWork EXCEPT !.acct = a, !.via = "device_flow", !.login = l, !.next = n]
  <2>1. Still /\ pc' = [pc EXCEPT ![Console] = s] /\ work' = [work EXCEPT ![Console] = w]
    BY <1>20 DEF Challenge, tables, counts, Goto, Still
  <2>2. w.via = "device_flow"
    BY DEF NoWork
  <2> HIDE DEF n, s, w
  <2> QED
    BY <1>26, <2>1, <2>2, Assumed
<1>22. ASSUME NEW p \in Processes, EnsureOwner(p) PROVE HostCodes' /\ CodePairsOnce'
  <2>1. pc[p] \in Admitting /\ Still
    BY <1>22 DEF EnsureOwner, counts, Still, Admitting
  <2>2. CASE pc' = [pc EXCEPT ![p] = "insert"] /\ work' = work
    <3> DEFINE w == work[p]
    <3>1. work' = [work EXCEPT ![p] = w]
      BY <1>1, <2>2 DEF TypeOK
    <3> QED
      BY <1>21, <2>1, <2>2, <3>1
  <2>3. CASE pc' = [pc EXCEPT ![p] = work[p].next] /\ work' = [work EXCEPT ![p].user = 1]
    <3> DEFINE w == [work[p] EXCEPT !.user = 1]
               s == work[p].next
    <3>1. w.via = work[p].via /\ w.code = work[p].code /\ w.acct = work[p].acct
      BY <1>1, Rows DEF Work
    <3>2. pc' = [pc EXCEPT ![p] = s] /\ work' = [work EXCEPT ![p] = w]
      BY <2>3
    <3> HIDE DEF w, s
    <3> QED
      BY <1>21, <2>1, <3>1, <3>2
  <2> QED
    BY <1>22, <2>2, <2>3 DEF EnsureOwner, Goto
<1>23. ASSUME NEW p \in Processes, InsertOwner(p) PROVE HostCodes' /\ CodePairsOnce'
  <2> DEFINE w == [work[p] EXCEPT !.user = Len(owners')]
             s == work[p].next
  <2>1. pc[p] \in Admitting /\ Still /\ pc' = [pc EXCEPT ![p] = s] /\ work' = [work EXCEPT ![p] = w]
    BY <1>23 DEF InsertOwner, counts, Goto, Still, Admitting
  <2>2. w.via = work[p].via /\ w.code = work[p].code /\ w.acct = work[p].acct
    BY <1>1, Rows DEF Work
  <2> HIDE DEF w, s
  <2> QED
    BY <1>21, <2>1, <2>2
<1>24. ASSUME NEW p \in Processes, Bind(p) PROVE HostCodes' /\ CodePairsOnce'
  <2>1. /\ pc[p] = "bind" /\ Drop(p) /\ UNCHANGED codes
        /\ \A i \in DOMAIN grants' : i \in DOMAIN grants \/ i = Len(grants')
        /\ \A i \in DOMAIN grants : grants'[i] = grants[i]
        /\ grants'[Len(grants')].acct = work[p].acct /\ work[p].acct \in Accounts
        /\ grants'[Len(grants')].via = work[p].via /\ grants'[Len(grants')].code = work[p].code
    BY <1>1, <1>24, Grants
  <2>2. \A q \in Processes : Carries(q)' => q # p /\ Carries(q) /\ work'[q] = work[q]
    BY <1>1, <2>1, Drops DEF Carries
  <2>3. \A q \in Processes : \A c : Holds(q, c)' => q # p /\ Holds(q, c)
    BY <2>2 DEF Holds, Carries
  <2>4. \A i \in DOMAIN grants : grants[i].via = "host_code" =>
          /\ grants[i].acct \in Accounts /\ grants[i].code \in DOMAIN codes
          /\ \A q \in Processes : ~ Holds(q, grants[i].code)
    BY <1>1 DEF HostCodes
  <2>5. work[p].via = "host_code" => Holds(p, work[p].code) /\ work[p].code \in DOMAIN codes /\ codes[work[p].code].by = work[p].acct
    BY <1>2, <1>3, <2>1 DEF Carries, Admitting
  <2>6. \A q \in Processes : \A c \in DOMAIN codes : Holds(p, c) /\ Holds(q, c) => p = q
    BY <1>1 DEF HostCodes
  <2>7. ASSUME NEW i \in DOMAIN grants', grants'[i].via = "host_code"
        PROVE  /\ grants'[i].acct \in Accounts /\ grants'[i].code \in DOMAIN codes
               /\ codes[grants'[i].code].by = grants'[i].acct
               /\ \A q \in Processes : \A c : c = grants'[i].code => ~ Holds(q, c)'
    <3>1. CASE i \in DOMAIN grants
      BY <1>1, <2>1, <2>3, <2>4, <2>7, <3>1 DEF CodePairsOnce
    <3>2. CASE i = Len(grants')
      BY <2>1, <2>3, <2>5, <2>6, <2>7, <3>2
    <3> QED
      BY <2>1, <3>1, <3>2
  <2>8. ASSUME NEW i \in DOMAIN grants', NEW j \in DOMAIN grants', grants'[i].via = "host_code",
               grants'[j].via = "host_code", grants'[j].code = grants'[i].code
        PROVE  i = j
    <3>1. CASE i \in DOMAIN grants /\ j \in DOMAIN grants
      BY <1>1, <2>1, <2>8, <3>1 DEF CodePairsOnce
    <3>2. CASE i \in DOMAIN grants /\ j = Len(grants')
      BY <2>1, <2>4, <2>5, <2>8, <3>2
    <3>3. CASE j \in DOMAIN grants /\ i = Len(grants')
      BY <2>1, <2>4, <2>5, <2>8, <3>3
    <3> QED
      BY <2>1, <3>1, <3>2, <3>3
  <2>9. \A q \in Processes : Carries(q)' => work'[q].code \in DOMAIN codes' /\ codes'[work'[q].code].by = work'[q].acct
    BY <1>2, <2>1, <2>2
  <2>10. \A q, r \in Processes : \A c \in DOMAIN codes' : Holds(q, c)' /\ Holds(r, c)' => q = r
    BY <1>1, <2>1, <2>3 DEF HostCodes
  <2>11. HostCodes'
    BY <2>1, <2>7, <2>9, <2>10 DEF HostCodes, Carries, Holds
  <2>12. CodePairsOnce'
    BY <2>1, <2>7, <2>8 DEF CodePairsOnce
  <2> QED
    BY <2>11, <2>12
<1>25. ASSUME NEW p \in Processes, Die(p) PROVE HostCodes' /\ CodePairsOnce'
  BY <1>4, <1>8, <1>25 DEF Die, tables, Still
<1> QED
  BY <1>9, <1>10, <1>11, <1>12, <1>13, <1>14, <1>15, <1>16, <1>17, <1>18, <1>19, <1>20, <1>22, <1>23, <1>24, <1>25 DEF Next

-----------------------------------------------------------------------------
(* An approval binds the account its code was made for, once.              *)

LEMMA RequestRows ==
  ASSUME TypeOK, NEW a \in Accounts
  PROVE  requests[a].code \in 0 .. Len(tickets)
BY DEF TypeOK

\* Nothing happens to the requests; an approval in hand is one that was.
LEMMA ApprovalFrame ==
  ASSUME Approvals, ApprovalBindsItsSender, UNCHANGED <<tickets, grants>>,
         \A a \in Accounts : requests'[a].code = requests[a].code
                             /\ (requests'[a].state = "pending" => requests[a].state = "pending"),
         Approving' => /\ Approving /\ (pc'[Console] # "mark" => pc[Console] # "mark")
                       /\ work'[Console].code = work[Console].code
                       /\ work'[Console].acct = work[Console].acct,
         Approving => work[Console].acct \in Accounts
  PROVE  Approvals' /\ ApprovalBindsItsSender'
<1>1. \A a \in Accounts : \A c : Live(a, c)' => Live(a, c)
  BY DEF Live
<1>2. \A a \in Accounts : requests'[a].code \in DOMAIN tickets' => tickets'[requests'[a].code] = a
  BY DEF Approvals
<1>3. Approving' =>
        /\ work'[Console].code \in DOMAIN tickets'
        /\ tickets'[work'[Console].code] = work'[Console].acct
  BY DEF Approvals
<1>4. Approving' /\ pc'[Console] # "mark" => \A a, c : a = work'[Console].acct /\ c = work'[Console].code => ~ Live(a, c)'
  BY <1>1 DEF Approvals
<1>5. \A i \in DOMAIN grants : grants[i].via = "approval" =>
        /\ grants[i].acct \in Accounts /\ grants[i].code \in DOMAIN tickets
        /\ ~ Live(grants[i].acct, grants[i].code)
        /\ Approving => work[Console].code # grants[i].code
  BY DEF Approvals
<1>6. \A i \in DOMAIN grants' : grants'[i].via = "approval" =>
        /\ grants'[i].acct \in Accounts /\ grants'[i].code \in DOMAIN tickets'
        /\ \A a, c : a = grants'[i].acct /\ c = grants'[i].code => ~ Live(a, c)'
        /\ Approving' => work'[Console].code # grants'[i].code
  BY <1>1, <1>5
<1>7. Approvals'
  BY <1>2, <1>3, <1>4, <1>6 DEF Approvals, Live
<1> QED
  BY <1>7 DEF ApprovalBindsItsSender

LEMMA ApprovalStep == IInv /\ [Next]_vars => Approvals' /\ ApprovalBindsItsSender'
<1> SUFFICES ASSUME IInv, [Next]_vars PROVE Approvals' /\ ApprovalBindsItsSender'
  OBVIOUS
<1>1. TypeOK /\ Paths /\ Approvals /\ ApprovalBindsItsSender
  BY DEF IInv
<1>2. Console \in Processes /\ (Approving => work[Console].acct \in Accounts)
  BY <1>1, Assumed DEF Approving, Paths
<1> DEFINE Still == UNCHANGED <<tickets, requests, grants>>
           Held == Approving' => /\ Approving /\ (pc'[Console] # "mark" => pc[Console] # "mark")
                                 /\ work'[Console].code = work[Console].code
                                 /\ work'[Console].acct = work[Console].acct
<1>3. Still /\ Held => Approvals' /\ ApprovalBindsItsSender'
  BY <1>1, <1>2, ApprovalFrame
<1>4. pc'[Console] = pc[Console] /\ work'[Console] = work[Console] => Held
  BY DEF Approving
<1>5. pc'[Console] \notin {"mark"} \cup Admitting \/ work'[Console].via # "approval" => Held
  BY DEF Approving
<1> HIDE DEF Still, Held
\* A process drops its work, a bot does something.
<1>6. ASSUME NEW p \in Processes, Drop(p) PROVE Held
  <2>1. CASE p = Console
    BY <1>1, <1>5, <1>6, <2>1, Drops
  <2>2. CASE p # Console
    BY <1>1, <1>2, <1>4, <1>6, <2>2, Drops
  <2> QED
    BY <2>1, <2>2
<1>7. ASSUME NEW b \in Bots, NEW s, NEW w, pc' = [pc EXCEPT ![b] = s], work' = [work EXCEPT ![b] = w]
      PROVE Held
  <2>1. b \in Processes /\ b # Console
    BY Assumed
  <2>2. pc'[Console] = pc[Console]
    BY <1>1, <1>2, <1>7, <2>1, Goes
  <2>3. work'[Console] = work[Console]
    BY <1>1, <1>2, <1>7, <2>1, Works
  <2> QED
    BY <1>4, <2>2, <2>3
<1>8. ASSUME NEW b \in Bots, NEW s, pc' = [pc EXCEPT ![b] = s], work' = work
      PROVE Held
  <2>1. b \in Processes /\ b # Console
    BY Assumed
  <2>2. pc'[Console] = pc[Console]
    BY <1>1, <1>2, <1>8, <2>1, Goes
  <2> QED
    BY <1>4, <1>8, <2>2
<1>9. CASE MintCode \/ Tick \/ UNCHANGED vars
  BY <1>3, <1>4, <1>9 DEF MintCode, Tick, vars, tables, counts, Still
<1>10. CASE MarkApproved
  <2>1. /\ pc[Console] = "mark" /\ pc' = [pc EXCEPT ![Console] = "owner"]
        /\ UNCHANGED <<tickets, grants, work>>
        /\ requests' = [requests EXCEPT ![work[Console].acct].state = "approved"]
    BY <1>10 DEF MarkApproved, Goto, counts
  <2> DEFINE a == work[Console].acct
             c == work[Console].code
  <2>2. Approving /\ a \in Accounts
    BY <1>1, <1>2, <2>1 DEF Approving, Paths
  <2> HIDE DEF a
  <2>3. /\ requests'[a].state = "approved" /\ requests'[a].code = requests[a].code
        /\ \A d \in Accounts : d # a => requests'[d] = requests[d]
    <3>1. requests' = [requests EXCEPT ![a].state = "approved"]
      BY <2>1 DEF a
    <3> QED
      BY <1>1, <2>2, <3>1 DEF TypeOK
  <2>4. \A d \in Accounts : \A e : Live(d, e)' => Live(d, e) /\ d # a
    BY <2>3 DEF Live
  <2>5. pc'[Console] = "owner"
    BY <1>1, <1>2, <2>1, Goes
  <2>6. c \in DOMAIN tickets /\ tickets[c] = a
    BY <1>1, <2>2 DEF Approvals, a
  <2>7. \A d \in Accounts : requests'[d].code \in DOMAIN tickets' => tickets'[requests'[d].code] = d
    BY <1>1, <2>1, <2>2, <2>3 DEF Approvals
  <2>8. \A i \in DOMAIN grants : grants[i].via = "approval" =>
          /\ grants[i].acct \in Accounts /\ grants[i].code \in DOMAIN tickets
          /\ ~ Live(grants[i].acct, grants[i].code)
          /\ c # grants[i].code
    BY <1>1, <2>2 DEF Approvals
  <2>9. \A i \in DOMAIN grants : grants[i].via = "approval" =>
          \A d, e : d = grants[i].acct /\ e = grants[i].code => ~ Live(d, e)'
    BY <2>4, <2>8
  <2>10. requests'[a].state # "pending"
    BY <2>3
  <2>11. Approvals'
    <3>1. \A i \in DOMAIN grants' : grants'[i].via = "approval" =>
            /\ grants'[i].acct \in Accounts /\ grants'[i].code \in DOMAIN tickets'
            /\ ~ (requests'[grants'[i].acct].state = "pending" /\ requests'[grants'[i].acct].code = grants'[i].code)
            /\ work'[Console].code # grants'[i].code
      BY <2>1, <2>8, <2>9 DEF Live
    <3>2. /\ work'[Console].code \in DOMAIN tickets' /\ tickets'[work'[Console].code] = work'[Console].acct
          /\ ~ (requests'[work'[Console].acct].state = "pending"
                /\ requests'[work'[Console].acct].code = work'[Console].code)
      BY <2>1, <2>6, <2>10 DEF Live, a
    <3> QED
      BY <2>7, <3>1, <3>2 DEF Approvals, Live
  <2> QED
    BY <1>1, <2>1, <2>11 DEF ApprovalBindsItsSender
<1>11. CASE Verify
  <2>1. pc[Console] = "verify" /\ Still
    BY <1>11 DEF Verify, counts, tables, Still
  <2>2. CASE Drop(Console)
    BY <1>2, <1>3, <1>6, <2>1, <2>2
  <2>3. CASE Goto(Console, "owner") /\ work' = [work EXCEPT ![Console].next = "bind"]
    <3> DEFINE w == [work[Console] EXCEPT !.next = "bind"]
    <3>1. work' = [work EXCEPT ![Console] = w]
      BY <2>3
    <3>2. w.via = "device_flow"
      BY <1>1, <1>2, <2>1, Rows DEF Paths, Work
    <3> HIDE DEF w
    <3> QED
      BY <1>1, <1>2, <1>3, <1>5, <2>1, <3>1, <3>2, Works
  <2> QED
    BY <1>11, <2>2, <2>3 DEF Verify
<1>12. ASSUME NEW b \in Bots, Stamp(b) PROVE Approvals' /\ ApprovalBindsItsSender'
  <2>1. b \in Processes /\ Still
    BY <1>12, Assumed DEF Stamp, counts, Still
  <2>2. CASE Drop(b)
    BY <1>3, <1>6, <2>1, <2>2
  <2>3. CASE pc' = [pc EXCEPT ![b] = "owner"] /\ work' = work
    BY <1>3, <1>8, <2>1, <2>3
  <2> QED
    BY <1>12, <2>2, <2>3 DEF Stamp, Goto
<1>13. ASSUME NEW b \in Bots, AskForCode(b) PROVE Approvals' /\ ApprovalBindsItsSender'
  <2>1. b \in Processes /\ Still
    BY <1>13, Assumed DEF AskForCode, counts, tables, Still
  <2>2. CASE Drop(b)
    BY <1>3, <1>6, <2>1, <2>2
  <2>3. CASE pc' = [pc EXCEPT ![b] = "ticket"] /\ work' = work
    BY <1>3, <1>8, <2>1, <2>3
  <2> QED
    BY <1>13, <2>2, <2>3 DEF AskForCode, Goto
<1>14. ASSUME NEW b \in Bots, Ticket(b) PROVE Approvals' /\ ApprovalBindsItsSender'
  <2> DEFINE a == work[b].acct
             n == Len(tickets) + 1
  <2>1. b \in Processes /\ b # Console /\ a \in Accounts /\ Drop(b) /\ UNCHANGED grants /\ tickets' = Append(tickets, a)
    BY <1>1, <1>14, Assumed DEF Ticket, counts, Paths
  <2>2. pc'[Console] = pc[Console] /\ work'[Console] = work[Console]
    BY <1>1, <1>2, <2>1, Drops
  <2> HIDE DEF a, n
  <2>3. Len(tickets') = n
    BY <1>1, <2>1, Rows DEF n
  <2>4. /\ DOMAIN tickets \subseteq DOMAIN tickets' /\ n \notin DOMAIN tickets
        /\ \A i \in DOMAIN tickets' : i \in DOMAIN tickets \/ i = n
        /\ \A i \in DOMAIN tickets : tickets'[i] = tickets[i]
        /\ tickets'[n] = a
    BY <1>1, <2>1, Rows, Appended DEF n
  <2>5. /\ requests'[a].state = "pending" /\ requests'[a].code = n
        /\ \A d \in Accounts : d # a => requests'[d] = requests[d]
    <3> DEFINE r == [state |-> "pending", code |-> Len(tickets'), expires |-> now + Ttl]
    <3>1. requests' = [requests EXCEPT ![a] = r]
      BY <1>14 DEF Ticket, a
    <3>2. r.state = "pending" /\ r.code = n
      BY <2>3
    <3> HIDE DEF r
    <3> QED
      BY <1>1, <2>1, <3>1, <3>2 DEF TypeOK
  <2>6. \A d \in Accounts : \A e \in DOMAIN tickets : Live(d, e)' => Live(d, e)
    BY <2>4, <2>5 DEF Live
  <2>7. \A d \in Accounts : requests'[d].code \in DOMAIN tickets' => tickets'[requests'[d].code] = d
    <3>1. \A d \in Accounts : requests[d].code # n
      BY <1>1, RequestRows, Rows DEF n
    <3> QED
      BY <1>1, <2>4, <2>5, <3>1 DEF Approvals
  <2>8. Approving' = Approving
    BY <2>2 DEF Approving
  <2>9. Approving' =>
          /\ work'[Console].code \in DOMAIN tickets' /\ tickets'[work'[Console].code] = work'[Console].acct
          /\ pc'[Console] # "mark" => ~ (requests'[work'[Console].acct].state = "pending"
                                          /\ requests'[work'[Console].acct].code = work'[Console].code)
    BY <1>1, <1>2, <2>2, <2>4, <2>6, <2>8 DEF Approvals, Live
  <2>10. \A i \in DOMAIN grants' : grants'[i].via = "approval" =>
          /\ grants'[i].acct \in Accounts /\ grants'[i].code \in DOMAIN tickets /\ grants'[i].code \in DOMAIN tickets'
          /\ ~ (requests'[grants'[i].acct].state = "pending" /\ requests'[grants'[i].acct].code = grants'[i].code)
          /\ Approving' => work'[Console].code # grants'[i].code
    <3>1. \A i \in DOMAIN grants : grants[i].via = "approval" =>
            /\ grants[i].acct \in Accounts /\ grants[i].code \in DOMAIN tickets
            /\ ~ Live(grants[i].acct, grants[i].code)
            /\ Approving => work[Console].code # grants[i].code
      BY <1>1 DEF Approvals
    <3> QED
      BY <2>1, <2>2, <2>4, <2>6, <2>8, <3>1 DEF Live
  <2>11. Approvals'
    BY <2>7, <2>9, <2>10 DEF Approvals, Live
  <2>12. ApprovalBindsItsSender'
    BY <1>1, <2>1, <2>4, <2>10 DEF ApprovalBindsItsSender
  <2> QED
    BY <2>11, <2>12
<1>15. ASSUME NEW b \in Bots, NEW a \in Accounts, CheckInbound(b, a) PROVE Approvals' /\ ApprovalBindsItsSender'
  <2>1. Still
    BY <1>15 DEF CheckInbound, tables, Still
  <2>2. CASE UNCHANGED <<pc, work>>
    BY <1>3, <1>4, <2>1, <2>2
  <2> DEFINE w == [NoWork EXCEPT !.acct = a]
  <2>3. CASE pc' = [pc EXCEPT ![b] = "ask"] /\ work' = [work EXCEPT ![b] = w]
    <3> HIDE DEF w
    <3> QED
      BY <1>3, <1>7, <2>1, <2>3
  <2> QED
    BY <1>15, <2>2, <2>3 DEF CheckInbound, Goto
<1>16. ASSUME NEW b \in Bots, NEW a \in Accounts, NEW c \in 1 .. MaxCodes, PairCommand(b, a, c)
       PROVE Approvals' /\ ApprovalBindsItsSender'
  <2> DEFINE w == [NoWork EXCEPT !.acct = a, !.via = "host_code", !.code = c]
  <2>1. Still /\ pc' = [pc EXCEPT ![b] = "stamp"] /\ work' = [work EXCEPT ![b] = w]
    BY <1>16 DEF PairCommand, tables, counts, Goto, Still
  <2> HIDE DEF w
  <2> QED
    BY <1>3, <1>7, <2>1
<1>17. ASSUME NEW c \in 1 .. MaxTickets, Approve(c) PROVE Approvals' /\ ApprovalBindsItsSender'
  <2>1. PICK a \in Accounts : /\ requests[a].code = c /\ Pending(a)
                              /\ work' = [work EXCEPT ![Console] =
                                            [NoWork EXCEPT !.acct = a, !.via = "approval", !.code = c]]
    BY <1>17 DEF Approve
  <2>2. UNCHANGED <<tickets, requests, grants>> /\ pc' = [pc EXCEPT ![Console] = "mark"]
    BY <1>17 DEF Approve, tables, counts, Goto
  <2> DEFINE w == [NoWork EXCEPT !.acct = a, !.via = "approval", !.code = c]
  <2>3. work' = [work EXCEPT ![Console] = w] /\ w.acct = a /\ w.via = "approval" /\ w.code = c
    BY <2>1 DEF NoWork
  <2> HIDE DEF w
  <2>4. pc'[Console] = "mark" /\ work'[Console].acct = a /\ work'[Console].code = c
    BY <1>1, <1>2, <2>2, <2>3, Goes, Works
  <2>5. c \in DOMAIN tickets /\ tickets[c] = a /\ Live(a, c)
    <3>1. c \in DOMAIN tickets
      BY <1>1, <2>1, RequestRows, Rows
    <3> QED
      BY <1>1, <2>1, <3>1 DEF Approvals, Live, Pending
  <2>6. \A i \in DOMAIN grants : grants[i].via = "approval" =>
          /\ grants[i].acct \in Accounts /\ grants[i].code \in DOMAIN tickets
          /\ ~ Live(grants[i].acct, grants[i].code)
          /\ tickets[grants[i].code] = grants[i].acct
    BY <1>1 DEF Approvals, ApprovalBindsItsSender
  <2>7. \A i \in DOMAIN grants : grants[i].via = "approval" => grants[i].code # c
    BY <2>5, <2>6
  <2>8. Approvals'
    BY <1>1, <2>2, <2>4, <2>5, <2>6, <2>7 DEF Approvals, Live
  <2> QED
    BY <1>1, <2>2, <2>8 DEF ApprovalBindsItsSender
<1>18. ASSUME NEW a \in Accounts, Revoke(a) PROVE Approvals' /\ ApprovalBindsItsSender'
  BY <1>3, <1>4, <1>18 DEF Revoke, counts, Still
<1>19. ASSUME NEW a \in Accounts, NEW l \in Logins, Challenge(a, l) PROVE Approvals' /\ ApprovalBindsItsSender'
  <2> DEFINE n == IF ExpectedLogin = NoLogin THEN "verify" ELSE "bind"
             w == [NoWork EXCEPT !.acct = a, !.via = "device_flow", !.login = l, !.next = n]
  <2>1. Still /\ work' = [work EXCEPT ![Console] = w]
    BY <1>19 DEF Challenge, tables, counts, Still
  <2>2. w.via = "device_flow"
    BY DEF NoWork
  <2> HIDE DEF n, w
  <2> QED
    BY <1>1, <1>2, <1>3, <1>5, <2>1, <2>2, Works
<1>20. ASSUME NEW p \in Processes, NEW s, NEW w, Still, pc[p] \in Admitting,
              w.via = work[p].via, w.code = work[p].code, w.acct = work[p].acct,
              pc' = [pc EXCEPT ![p] = s], work' = [work EXCEPT ![p] = w], s # "mark"
       PROVE Approvals' /\ ApprovalBindsItsSender'
  <2>1. pc'[p] = s /\ \A q \in Processes : q # p => pc'[q] = pc[q]
    BY <1>1, <1>20, Goes
  <2>2. work'[p] = w /\ \A q \in Processes : q # p => work'[q] = work[q]
    BY <1>1, <1>20, Works
  <2>3. CASE p # Console
    BY <1>2, <1>3, <1>4, <1>20, <2>1, <2>2, <2>3
  <2>4. CASE p = Console
    <3>1. Held
      BY <1>20, <2>1, <2>2, <2>4 DEF Held, Approving, Admitting
    <3> QED
      BY <1>3, <1>20, <3>1
  <2> QED
    BY <2>3, <2>4
<1>21. ASSUME NEW p \in Processes, EnsureOwner(p) PROVE Approvals' /\ ApprovalBindsItsSender'
  <2>1. pc[p] \in Admitting /\ Still
    BY <1>21 DEF EnsureOwner, counts, Still, Admitting
  <2>2. CASE pc' = [pc EXCEPT ![p] = "insert"] /\ work' = work
    <3> DEFINE w == work[p]
    <3>1. work' = [work EXCEPT ![p] = w]
      BY <1>1, <2>2 DEF TypeOK
    <3> QED
      BY <1>20, <2>1, <2>2, <3>1
  <2>3. CASE pc' = [pc EXCEPT ![p] = work[p].next] /\ work' = [work EXCEPT ![p].user = 1]
    <3> DEFINE w == [work[p] EXCEPT !.user = 1]
               s == work[p].next
    <3>1. w.via = work[p].via /\ w.code = work[p].code /\ w.acct = work[p].acct /\ s # "mark"
      BY <1>1, Rows DEF Work
    <3>2. pc' = [pc EXCEPT ![p] = s] /\ work' = [work EXCEPT ![p] = w]
      BY <2>3
    <3> HIDE DEF w, s
    <3> QED
      BY <1>20, <2>1, <3>1, <3>2
  <2> QED
    BY <1>21, <2>2, <2>3 DEF EnsureOwner, Goto
<1>22. ASSUME NEW p \in Processes, InsertOwner(p) PROVE Approvals' /\ ApprovalBindsItsSender'
  <2> DEFINE w == [work[p] EXCEPT !.user = Len(owners')]
             s == work[p].next
  <2>1. pc[p] \in Admitting /\ Still /\ pc' = [pc EXCEPT ![p] = s] /\ work' = [work EXCEPT ![p] = w]
    BY <1>22 DEF InsertOwner, counts, Goto, Still, Admitting
  <2>2. w.via = work[p].via /\ w.code = work[p].code /\ w.acct = work[p].acct /\ s # "mark"
    BY <1>1, Rows DEF Work
  <2> HIDE DEF w, s
  <2> QED
    BY <1>20, <2>1, <2>2
<1>23. ASSUME NEW p \in Processes, Bind(p) PROVE Approvals' /\ ApprovalBindsItsSender'
  <2>1. /\ pc[p] = "bind" /\ Drop(p) /\ UNCHANGED <<tickets, requests>>
        /\ \A i \in DOMAIN grants' : i \in DOMAIN grants \/ i = Len(grants')
        /\ \A i \in DOMAIN grants : grants'[i] = grants[i]
        /\ grants'[Len(grants')].acct = work[p].acct /\ work[p].acct \in Accounts
        /\ grants'[Len(grants')].via = work[p].via /\ grants'[Len(grants')].code = work[p].code
    BY <1>1, <1>23, Grants
  <2>2. work[p].via = "approval" =>
          /\ p = Console /\ Approving
          /\ work[p].code \in DOMAIN tickets /\ tickets[work[p].code] = work[p].acct
          /\ ~ Live(work[p].acct, work[p].code)
    <3>1. work[p].via = "approval" => p = Console
      <4>1. p \in Bots => work[p].via = "host_code"
        BY <1>1, <2>1 DEF Paths, Admitting
      <4> QED
        BY <4>1, Assumed
    <3>2. work[p].via = "approval" => Approving
      BY <2>1, <3>1 DEF Approving, Admitting
    <3> QED
      BY <1>1, <2>1, <3>1, <3>2 DEF Approvals
  <2>3. Approving' => Approving /\ p # Console /\ pc'[Console] = pc[Console] /\ work'[Console] = work[Console]
    <3>1. p = Console => pc'[Console] = "idle"
      BY <1>1, <2>1, Drops
    <3>2. p # Console => pc'[Console] = pc[Console] /\ work'[Console] = work[Console]
      BY <1>1, <1>2, <2>1, Drops
    <3> QED
      BY <3>1, <3>2 DEF Approving, Admitting
  <2>4. \A i \in DOMAIN grants : grants[i].via = "approval" =>
          /\ grants[i].acct \in Accounts /\ grants[i].code \in DOMAIN tickets
          /\ ~ Live(grants[i].acct, grants[i].code)
          /\ tickets[grants[i].code] = grants[i].acct
          /\ Approving => work[Console].code # grants[i].code
    BY <1>1 DEF Approvals, ApprovalBindsItsSender
  <2>5. ASSUME NEW i \in DOMAIN grants', grants'[i].via = "approval"
        PROVE  /\ grants'[i].acct \in Accounts /\ grants'[i].code \in DOMAIN tickets
               /\ ~ Live(grants'[i].acct, grants'[i].code)
               /\ tickets[grants'[i].code] = grants'[i].acct
               /\ Approving' => work'[Console].code # grants'[i].code
    <3>1. CASE i \in DOMAIN grants
      BY <2>1, <2>3, <2>4, <2>5, <3>1
    <3>2. CASE i = Len(grants')
      BY <2>1, <2>2, <2>3, <2>5, <3>2
    <3> QED
      BY <2>1, <3>1, <3>2
  <2>6. ASSUME NEW i \in DOMAIN grants', NEW j \in DOMAIN grants', grants'[i].via = "approval",
               grants'[j].via = "approval", grants'[j].code = grants'[i].code
        PROVE  i = j
    <3>1. CASE i \in DOMAIN grants /\ j \in DOMAIN grants
      BY <1>1, <2>1, <2>6, <3>1 DEF ApprovalBindsItsSender
    <3>2. CASE i \in DOMAIN grants /\ j = Len(grants')
      BY <2>1, <2>2, <2>4, <2>6, <3>2
    <3>3. CASE j \in DOMAIN grants /\ i = Len(grants')
      BY <2>1, <2>2, <2>4, <2>6, <3>3
    <3> QED
      BY <2>1, <3>1, <3>2, <3>3
  <2>7. Approving' =>
          /\ work'[Console].code \in DOMAIN tickets' /\ tickets'[work'[Console].code] = work'[Console].acct
          /\ pc'[Console] # "mark" => ~ (requests'[work'[Console].acct].state = "pending"
                                          /\ requests'[work'[Console].acct].code = work'[Console].code)
    BY <1>1, <2>1, <2>3 DEF Approvals, Live
  <2>8. \A a \in Accounts : requests'[a].code \in DOMAIN tickets' => tickets'[requests'[a].code] = a
    BY <1>1, <2>1 DEF Approvals
  <2>9. Approvals'
    BY <2>1, <2>5, <2>7, <2>8 DEF Approvals, Live
  <2>10. ApprovalBindsItsSender'
    BY <2>1, <2>5, <2>6 DEF ApprovalBindsItsSender
  <2> QED
    BY <2>9, <2>10
<1>24. ASSUME NEW p \in Processes, Die(p) PROVE Approvals' /\ ApprovalBindsItsSender'
  BY <1>3, <1>6, <1>24 DEF Die, tables, Still
<1> QED
  BY <1>9, <1>10, <1>11, <1>12, <1>13, <1>14, <1>15, <1>16, <1>17, <1>18, <1>19, <1>21, <1>22, <1>23, <1>24 DEF Next

-----------------------------------------------------------------------------
(* The owner.                                                              *)

\* A step that leaves the owners and adds no binding.
LEMMA OwnerFrame ==
  ASSUME Owner, UNCHANGED owners,
         pc'[Console] \in Admitting /\ work'[Console].via = "device_flow" =>
           /\ pc[Console] \in Admitting /\ (pc'[Console] = "bind" => pc[Console] = "bind")
           /\ work[Console].via = "device_flow"
           /\ work'[Console].next = work[Console].next /\ work'[Console].login = work[Console].login
  PROVE  Owner' /\ ExpectedLogin' = ExpectedLogin
<1>1. ExpectedLogin' = ExpectedLogin
  BY DEF ExpectedLogin
<1> QED
  BY <1>1 DEF Owner

\* A step of another process leaves the console where it is.
LEMMA Elsewhere ==
  ASSUME TypeOK, NEW b \in Processes, b # Console, NEW s, pc' = [pc EXCEPT ![b] = s],
         UNCHANGED work \/ \E w : work' = [work EXCEPT ![b] = w]
  PROVE  pc'[Console] = pc[Console] /\ work'[Console] = work[Console]
BY Assumed DEF TypeOK

LEMMA OwnerStep ==
  IInv /\ [Next]_vars =>
    /\ Owner'
    /\ ExpectedLogin # NoLogin => ExpectedLogin' = ExpectedLogin
    /\ grants' # grants /\ grants'[Len(grants')].via = "device_flow"
         => grants'[Len(grants')].login = ExpectedLogin'
<1> DEFINE Good == /\ Owner'
                   /\ ExpectedLogin # NoLogin => ExpectedLogin' = ExpectedLogin
                   /\ grants' # grants /\ grants'[Len(grants')].via = "device_flow"
                        => grants'[Len(grants')].login = ExpectedLogin'
           Same == pc'[Console] = pc[Console] /\ work'[Console] = work[Console]
           Out == pc'[Console] \notin Admitting
           Still == UNCHANGED <<owners, grants>>
<1> SUFFICES ASSUME IInv, [Next]_vars PROVE Good
  OBVIOUS
<1>1. TypeOK /\ Paths /\ Owner /\ Console \in Processes
  BY Assumed DEF IInv
<1>2. Still /\ (Same \/ Out) => Good
  BY <1>1, OwnerFrame
<1>3. owners \in Seq(Logins \cup {NoLogin}) /\ (owners # <<>> => 1 \in DOMAIN owners)
  BY <1>1, Rows
<1>4. /\ pc[Console] = "verify" => work[Console].via = "device_flow"
      /\ \A p \in Processes : work[p].via = "device_flow" <=> work[p].login # NoLogin
      /\ \A p \in Processes : pc[p] \in Admitting => (work[p].via = "host_code" <=> p \in Bots)
  BY <1>1 DEF Paths
<1>5. \A p \in Processes : work[p] \in Work
  BY <1>1, Rows
<1>6. ASSUME NEW b \in Bots PROVE b \in Processes /\ b # Console
  BY Assumed
<1>7. ASSUME NEW p \in Processes, Drop(p) PROVE Same \/ Out
  <2>1. p = Console => pc'[Console] = "idle"
    BY <1>1, <1>7, Drops
  <2>2. p # Console => Same
    BY <1>1, <1>7, Drops
  <2> QED
    BY <2>1, <2>2 DEF Admitting
<1> HIDE DEF Good, Same, Out, Still
<1>8. CASE MintCode \/ Tick \/ UNCHANGED vars
  BY <1>2, <1>8 DEF MintCode, Tick, vars, tables, counts, Still, Same
<1>9. CASE MarkApproved
  <2>1. /\ pc[Console] = "mark" /\ work' = work /\ UNCHANGED <<owners, grants>>
    BY <1>9 DEF MarkApproved, counts
  <2>2. work[Console].via = "approval"
    BY <1>1, <2>1 DEF Paths
  <2> QED
    BY <1>1, <2>1, <2>2, OwnerFrame DEF Good
<1>10. CASE Verify
  <2>1. pc[Console] = "verify" /\ UNCHANGED <<owners, grants>>
    BY <1>10 DEF Verify, tables, counts
  <2>2. CASE work[Console].login = ExpectedLogin /\ pc' = [pc EXCEPT ![Console] = "owner"]
             /\ work' = [work EXCEPT ![Console].next = "bind"]
    <3> DEFINE w == [work[Console] EXCEPT !.next = "bind"]
    <3>1. w.next = "bind" /\ w.login = work[Console].login
      BY <1>1, <1>5 DEF Work
    <3>2. work' = [work EXCEPT ![Console] = w]
      BY <2>2
    <3> HIDE DEF w
    <3>3. pc'[Console] = "owner" /\ work'[Console] = w
      BY <1>1, <2>2, <3>2, Goes, Works
    <3>4. ExpectedLogin' = ExpectedLogin
      BY <2>1 DEF ExpectedLogin
    <3>5. Owner'
      BY <2>2, <3>1, <3>3, <3>4 DEF Owner
    <3> QED
      BY <2>1, <3>4, <3>5 DEF Good
  <2>3. CASE Drop(Console)
    BY <1>1, <1>2, <1>7, <2>1, <2>3 DEF Still
  <2> QED
    BY <1>10, <2>2, <2>3 DEF Verify, Goto
<1>11. ASSUME NEW b \in Bots, NEW s, pc' = [pc EXCEPT ![b] = s],
              UNCHANGED work \/ \E w : work' = [work EXCEPT ![b] = w]
       PROVE Same
  BY <1>1, <1>6, <1>11, Elsewhere DEF Same
<1>12. ASSUME NEW b \in Bots, Stamp(b) PROVE Good
  <2>1. Still /\ (Drop(b) \/ (pc' = [pc EXCEPT ![b] = "owner"] /\ work' = work))
    BY <1>12 DEF Stamp, Goto, counts, Still
  <2>2. CASE Drop(b)
    BY <1>2, <1>6, <1>7, <2>1, <2>2
  <2>3. CASE pc' = [pc EXCEPT ![b] = "owner"] /\ work' = work
    BY <1>2, <1>11, <2>1, <2>3
  <2> QED
    BY <2>1, <2>2, <2>3
<1>13. ASSUME NEW b \in Bots, AskForCode(b) PROVE Good
  <2>1. Still /\ (Drop(b) \/ (pc' = [pc EXCEPT ![b] = "ticket"] /\ work' = work))
    BY <1>13 DEF AskForCode, Goto, tables, counts, Still
  <2>2. CASE Drop(b)
    BY <1>2, <1>6, <1>7, <2>1, <2>2
  <2>3. CASE pc' = [pc EXCEPT ![b] = "ticket"] /\ work' = work
    BY <1>2, <1>11, <2>1, <2>3
  <2> QED
    BY <2>1, <2>2, <2>3
<1>14. ASSUME NEW b \in Bots, Ticket(b) PROVE Good
  BY <1>2, <1>6, <1>7, <1>14 DEF Ticket, counts, Still
<1>15. ASSUME NEW b \in Bots, NEW a \in Accounts, CheckInbound(b, a) PROVE Good
  <2> DEFINE w == [NoWork EXCEPT !.acct = a]
  <2>1. Still /\ (UNCHANGED <<pc, work>> \/ (pc' = [pc EXCEPT ![b] = "ask"] /\ work' = [work EXCEPT ![b] = w]))
    BY <1>15 DEF CheckInbound, Goto, tables, Still
  <2>2. CASE UNCHANGED <<pc, work>>
    BY <1>2, <2>1, <2>2 DEF Same
  <2> HIDE DEF w
  <2>3. CASE pc' = [pc EXCEPT ![b] = "ask"] /\ work' = [work EXCEPT ![b] = w]
    BY <1>2, <1>11, <2>1, <2>3
  <2> QED
    BY <2>1, <2>2, <2>3
<1>16. ASSUME NEW b \in Bots, NEW a \in Accounts, NEW c \in 1 .. MaxCodes, PairCommand(b, a, c) PROVE Good
  <2> DEFINE w == [NoWork EXCEPT !.acct = a, !.via = "host_code", !.code = c]
  <2>1. Still /\ pc' = [pc EXCEPT ![b] = "stamp"] /\ work' = [work EXCEPT ![b] = w]
    BY <1>16 DEF PairCommand, Goto, tables, counts, Still
  <2> HIDE DEF w
  <2> QED
    BY <1>2, <1>11, <2>1
<1>17. ASSUME NEW c \in 1 .. MaxTickets, Approve(c) PROVE Good
  <2>1. Still /\ pc' = [pc EXCEPT ![Console] = "mark"]
    BY <1>17 DEF Approve, Goto, tables, counts, Still
  <2>2. pc'[Console] = "mark"
    BY <1>1, <2>1, Goes
  <2> QED
    BY <1>2, <2>1, <2>2 DEF Out, Admitting
<1>18. ASSUME NEW a \in Accounts, Revoke(a) PROVE Good
  BY <1>2, <1>18 DEF Revoke, counts, Still, Same
<1>19. ASSUME NEW a \in Accounts, NEW l \in Logins, Challenge(a, l) PROVE Good
  <2> DEFINE n == IF ExpectedLogin = NoLogin THEN "verify" ELSE "bind"
             s == IF ExpectedLogin = NoLogin THEN "owner" ELSE "verify"
             w == [NoWork EXCEPT !.acct = a, !.via = "device_flow", !.login = l, !.next = n]
  <2>1. UNCHANGED <<owners, grants>> /\ pc' = [pc EXCEPT ![Console] = s] /\ work' = [work EXCEPT ![Console] = w]
    BY <1>19 DEF Challenge, tables, counts, Goto
  <2>2. w.next = n
    BY DEF NoWork
  <2> HIDE DEF w
  <2>3. pc'[Console] = s /\ work'[Console] = w
    BY <1>1, <2>1, Goes, Works
  <2>4. ExpectedLogin' = ExpectedLogin
    BY <2>1 DEF ExpectedLogin
  <2>5. Owner'
    BY <2>2, <2>3, <2>4 DEF Owner, Admitting
  <2> QED
    BY <2>1, <2>4, <2>5 DEF Good
\* The user of a process that is not the console, or carries no login.
<1>20. ASSUME NEW p \in Processes, pc[p] \in Admitting, p # Console PROVE work[p].login = NoLogin
  BY <1>4, <1>20, Assumed
<1> DEFINE Joins(p, s, w) ==
             /\ pc[p] \in Admitting /\ UNCHANGED grants
             /\ pc' = [pc EXCEPT ![p] = s] /\ work' = [work EXCEPT ![p] = w]
             /\ w.via = work[p].via /\ w.login = work[p].login /\ w.next = work[p].next
             /\ s = "bind" => w.next = "bind"
             /\ ExpectedLogin # NoLogin \/ p # Console \/ s \in Admitting => ExpectedLogin' = ExpectedLogin
<1>21. ASSUME NEW p \in Processes, NEW s, NEW w, Joins(p, s, w) PROVE  Good
  <2>1. pc'[p] = s /\ \A q \in Processes : q # p => pc'[q] = pc[q]
    BY <1>1, <1>21, Goes
  <2>2. work'[p] = w /\ \A q \in Processes : q # p => work'[q] = work[q]
    BY <1>1, <1>21, Works
  <2>3. CASE p # Console
    BY <1>1, <1>21, <2>1, <2>2, <2>3 DEF Good, Owner
  <2>4. CASE p = Console
    BY <1>1, <1>21, <2>1, <2>2, <2>4 DEF Good, Owner, Admitting
  <2> QED
    BY <2>3, <2>4
<1> HIDE DEF Joins
<1>22. ASSUME NEW p \in Processes, EnsureOwner(p) PROVE Good
  <2>1. pc[p] = "owner" /\ pc[p] \in Admitting /\ UNCHANGED grants
    BY <1>22 DEF EnsureOwner, counts, Admitting
  <2>2. CASE owners = <<>>
    <3> DEFINE w == work[p]
    <3>1. pc' = [pc EXCEPT ![p] = "insert"] /\ work' = [work EXCEPT ![p] = w] /\ owners' = owners
      BY <1>1, <1>22, <2>2 DEF EnsureOwner, Goto, TypeOK
    <3>2. ExpectedLogin' = ExpectedLogin
      BY <3>1 DEF ExpectedLogin
    <3>3. Joins(p, "insert", w)
      BY <2>1, <3>1, <3>2 DEF Joins
    <3> QED
      BY <1>21, <3>3
  <2>3. CASE owners # <<>>
    <3> DEFINE w == [work[p] EXCEPT !.user = 1]
               s == work[p].next
               l == work[p].login
    <3>1. w.via = work[p].via /\ w.login = work[p].login /\ w.next = work[p].next
          /\ work[p].next \in {"bind", "verify"}
      BY <1>5 DEF Work
    <3>2. pc' = [pc EXCEPT ![p] = s] /\ work' = [work EXCEPT ![p] = w]
          /\ owners' = IF l = NoLogin THEN owners ELSE [owners EXCEPT ![1] = l]
      BY <1>22, <2>3 DEF EnsureOwner, Goto
    <3>3. l = NoLogin => owners' = owners
      BY <3>2
    <3>4. l # NoLogin => owners' = [owners EXCEPT ![1] = l]
      BY <3>2
    <3>5. l # NoLogin => p = Console /\ work[Console].via = "device_flow"
      BY <1>1, <1>4, <1>20, <2>1
    <3>6. l # NoLogin /\ s = "bind" => l = ExpectedLogin
      BY <1>1, <2>1, <3>5 DEF Owner
    <3>7. l # NoLogin /\ s = "verify" => ExpectedLogin = NoLogin
      BY <1>1, <2>1, <3>5 DEF Owner
    <3> HIDE DEF w, s, l
    <3>8. l # NoLogin => owners' # <<>> /\ owners'[1] = l
      BY <1>3, <2>3, <3>4
    <3>9. l = NoLogin => ExpectedLogin' = ExpectedLogin
      BY <3>3 DEF ExpectedLogin
    <3>10. l # NoLogin /\ s = "bind" => ExpectedLogin' = ExpectedLogin
      BY <2>3, <3>6, <3>8 DEF ExpectedLogin
    <3>11. s \in {"bind", "verify"} /\ s = w.next /\ w.next = work[p].next /\ work[p].login = l
      BY <3>1 DEF s, l
    <3>12. Joins(p, s, w)
      BY <2>1, <3>1, <3>2, <3>5, <3>7, <3>9, <3>10, <3>11 DEF Joins, Admitting
    <3> QED
      BY <1>21, <3>12
  <2> QED
    BY <2>2, <2>3
<1>23. ASSUME NEW p \in Processes, InsertOwner(p) PROVE Good
  <2> DEFINE w == [work[p] EXCEPT !.user = Len(owners')]
             s == work[p].next
             l == work[p].login
  <2>1. pc[p] = "insert" /\ pc[p] \in Admitting /\ UNCHANGED grants /\ owners' = Append(owners, l)
        /\ pc' = [pc EXCEPT ![p] = s] /\ work' = [work EXCEPT ![p] = w]
    BY <1>23 DEF InsertOwner, counts, Goto, Admitting
  <2>2. w.via = work[p].via /\ w.login = work[p].login /\ w.next = work[p].next
        /\ work[p].next \in {"bind", "verify"} /\ l \in Logins \cup {NoLogin}
    BY <1>5 DEF Work
  <2>3. l # NoLogin => p = Console /\ work[Console].via = "device_flow"
    BY <1>1, <1>4, <1>20, <2>1
  <2>4. l # NoLogin /\ s = "bind" => l = ExpectedLogin
    BY <1>1, <2>1, <2>3 DEF Owner
  <2>5. s \in {"bind", "verify"} /\ s = w.next /\ w.next = work[p].next /\ work[p].login = l
    BY <2>2
  <2>6. l # NoLogin /\ s = "verify" => ExpectedLogin = NoLogin
    BY <1>1, <2>1, <2>3 DEF Owner
  <2> HIDE DEF w, s, l
  <2>7. owners' # <<>> /\ owners'[1] = IF owners = <<>> THEN l ELSE owners[1]
    BY <1>3, <2>1, <2>2
  <2>8. l = NoLogin => ExpectedLogin' = ExpectedLogin
    BY <2>7 DEF ExpectedLogin
  <2>9. ExpectedLogin # NoLogin => ExpectedLogin' = ExpectedLogin
    BY <2>7 DEF ExpectedLogin
  <2>10. s = "bind" => ExpectedLogin' = ExpectedLogin
    BY <2>4, <2>8, <2>9
  <2>11. Joins(p, s, w)
    BY <2>1, <2>2, <2>3, <2>5, <2>8, <2>9, <2>10 DEF Joins, Admitting
  <2> QED
    BY <1>21, <2>11
<1>24. ASSUME NEW p \in Processes, Bind(p) PROVE Good
  <2>1. /\ pc[p] = "bind" /\ Drop(p) /\ UNCHANGED owners
        /\ grants'[Len(grants')].via = work[p].via /\ grants'[Len(grants')].login = work[p].login
    BY <1>1, <1>24, Grants
  <2>2. ExpectedLogin' = ExpectedLogin
    BY <2>1 DEF ExpectedLogin
  <2>3. Owner'
    BY <1>1, <1>7, <2>1, OwnerFrame DEF Same, Out
  <2>4. work[p].via = "device_flow" => p = Console
    BY <1>4, <2>1, Assumed DEF Admitting
  <2>5. work[p].via = "device_flow" => work[p].login = ExpectedLogin
    BY <1>1, <2>1, <2>4 DEF Owner, Admitting
  <2> QED
    BY <2>1, <2>2, <2>3, <2>5 DEF Good
<1>25. ASSUME NEW p \in Processes, Die(p) PROVE Good
  BY <1>2, <1>7, <1>25 DEF Die, tables, Still
<1> QED
  BY <1>8, <1>9, <1>10, <1>12, <1>13, <1>14, <1>15, <1>16, <1>17, <1>18, <1>19, <1>22, <1>23, <1>24, <1>25 DEF Next

-----------------------------------------------------------------------------
LEMMA Invariant == Spec => []IInv
<1>1. IInv /\ [Next]_vars => IInv'
  BY TypeStep, HostStep, ApprovalStep, OwnerStep DEF IInv
<1> QED
  BY InitInv, <1>1, PTL DEF Spec

\* Every row of the tables keeps its shape, and no row refers to a code or a
\* user that does not exist, whoever is killed between two statements.
THEOREM TypeCorrect == Spec => []TypeOK
BY Invariant, PTL DEF IInv

\* A host code binds one account once, the one it is stamped with, however
\* many bots have read it as unspent (consume_code).
THEOREM HostCodeBindsOnce == Spec => []CodePairsOnce
BY Invariant, PTL DEF IInv

\* An approval binds the account its code was made for, and once, whatever
\* becomes of the request's row meanwhile (approve, create_or_refresh).
THEOREM ApprovedSenderOnly == Spec => []ApprovalBindsItsSender
BY Invariant, PTL DEF IInv

\* The owner's login, once there is one, is never replaced, and a challenge
\* binds nobody else (bind_verified_owner, ensure_owner).
THEOREM OwnerIsKept == Spec => OwnerStays
<1>1. IInv /\ [Next]_vars =>
        [ /\ ExpectedLogin # NoLogin => ExpectedLogin' = ExpectedLogin
          /\ grants' # grants /\ grants'[Len(grants')].via = "device_flow"
               => grants'[Len(grants')].login = ExpectedLogin' ]_vars
  BY OwnerStep
<1> QED
  BY Invariant, <1>1, PTL DEF Spec, OwnerStays
=============================================================================
