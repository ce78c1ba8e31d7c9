--------------------------- MODULE AskTurn_proofs ---------------------------
(***************************************************************************)
(* Proofs about asks, the calls they make of the model and the login file  *)
(* these read, for any number of processes, accounts, kills and turns; and *)
(* about the wizard that sets up the keys and the login.                   *)
(***************************************************************************)
EXTENDS AskTurn, Setup, FiniteSetTheorems, TLAPS

\* The token of some credentials is that of their login.
Matched(text) == text.bearer \in {NoAccount, text.oauth}

\* What is in the file, and what any process is about to put there.
Matches == Matched(file.text) /\ \A w \in Writers : Matched(pen[w].text)

\* The statuses a call may settle with, by its replies.
Verdict(c) == \/ c.status = "valid" /\ c.replies = 1
              \/ c.status = "repaired" /\ c.replies = 2
              \/ c.status = "fallback" /\ c.replies = 2 /\ c.fallback
              \/ c.status = "failed" /\ c.replies = 2 /\ ~c.fallback

\* A call at any of its stations: the row comes last, and once.
Proper(c) ==
  /\ c.rows = IF c.at \in {"value", "escalated"} THEN 1 ELSE 0
  /\ c.at \in {"headers", "exchange", "post"} =>
       \/ c.replies = 0 /\ c.status = "none"
       \/ c.replies = 1 /\ c.status = "invalid"
  /\ c.at = "settle" =>
       \/ c.replies = 1 /\ c.status \in {"valid", "invalid"}
       \/ c.replies = 2 /\ c.status \in {"repaired", "invalid"}
  /\ c.at \in {"record", "value", "escalated"} => Verdict(c)
  /\ c.at = "value" => c.status # "failed"
  /\ c.at = "escalated" => c.status = "failed"

Calls == \A w \in Writers : Proper(call[w])

\* A search has a query.
Searching == \A p \in Procs : turn[p].at \in {"browser", "web", "bill"} => turn[p].query \in Queries

\* The processes whose request is out count as well as the credits counted.
Billing == {p \in Procs : turn[p].at = "bill"}

Meter ==
  /\ paid = used + lost
  /\ DailyMax # 0 => used + Cardinality(Billing) <= DailyMax + Cardinality(Procs) - 1

IInv == AskTypeOK /\ Matches /\ Calls /\ Searching /\ Meter


-----------------------------------------------------------------------------
LEMMA Assumed ==
  /\ Login \notin Procs /\ Login \in Writers /\ Procs \subseteq Writers
  /\ NoAccount \notin Accounts /\ EnvAccount \in Accounts \cup {NoAccount}
  /\ MaxLogins \in Nat /\ MaxLapses \in Nat /\ MaxKills \in Nat
  /\ IsFiniteSet(Procs) /\ DailyMax \in Nat /\ MaxTurns \in Nat /\ MaxNights \in Nat
BY AdviceAssumption, AskAssumption DEF Writers

Pens == [at : {"none", "open", "put"}, text : Creds, under : {"mine", "other", "gone"}]
Records == [at : CallStations, fallback : BOOLEAN, replies : 0 .. 2,
            status : {"none", "valid", "repaired", "invalid", "fallback", "failed"},
            rows : 0 .. 1, text : Creds]

LEMMA CredTypes ==
  /\ NoCreds \in Creds /\ Matched(NoCreds)
  /\ \A text \in Creds :
       /\ text.oauth \in Accounts \cup {NoAccount} /\ text.bearer \in Accounts \cup {NoAccount}
       /\ text.fresh \in BOOLEAN
       /\ Exchanged(text) \in Creds /\ Matched(Exchanged(text))
       /\ [text EXCEPT !.fresh = FALSE] \in Creds
       /\ Matched(text) => Matched([text EXCEPT !.fresh = FALSE])
       /\ \A a \in Accounts : Saved(text, a) \in Creds /\ Matched(Saved(text, a))
BY Assumed DEF NoCreds, Creds, Matched, Exchanged, LoginIn, Saved

LEMMA FileTypes ==
  /\ Absent \in Files /\ Torn \in Files /\ Absent.text = NoCreds /\ Torn.text = NoCreds
  /\ \A text \in Creds : Whole(text) \in Files /\ Whole(text).text = text
  /\ \A f \in Files : f.text \in Creds
BY CredTypes DEF Absent, Torn, Whole, Files

LEMMA PenTypes ==
  /\ NoPen \in Pens /\ NoPen.text = NoCreds
  /\ \A text \in Creds : Pen(text) \in Pens /\ Pen(text).text = text
  /\ \A x \in Pens :
       /\ x.text \in Creds
       /\ [x EXCEPT !.at = "put", !.under = "mine"] \in Pens
       /\ [x EXCEPT !.at = "put", !.under = "mine"].text = x.text
       /\ [x EXCEPT !.under = "other"] \in Pens /\ [x EXCEPT !.under = "other"].text = x.text
       /\ [x EXCEPT !.under = "gone"] \in Pens /\ [x EXCEPT !.under = "gone"].text = x.text
BY CredTypes DEF NoPen, Pen, Pens

-----------------------------------------------------------------------------
(* The login file: what is written was read with its login, or is of it.   *)

LEMMA FileInit == Init => file \in Files /\ pen \in [Writers -> Pens] /\ Matches
<1> SUFFICES ASSUME Init PROVE file \in Files /\ pen \in [Writers -> Pens] /\ Matches
  OBVIOUS
<1>1. pen = [w \in Writers |-> NoPen]
  BY DEF Init, AdviceInit
<1>2. file = Absent \/ \E text \in Creds : file = Whole(text) /\ Matched(text)
  BY DEF Init, AdviceInit, Matched
<1> QED
  BY <1>1, <1>2, CredTypes, FileTypes, PenTypes DEF Matches

\* A writer takes up another text, or none.
LEMMA PenChange ==
  ASSUME pen \in [Writers -> Pens], Matches, NEW w \in Writers, NEW x \in Pens, Matched(x.text),
         pen' = [pen EXCEPT ![w] = x]
  PROVE  pen' \in [Writers -> Pens] /\ \A v \in Writers : Matched(pen'[v].text)
BY DEF Matches

LEMMA FileStep ==
  IInv /\ [Next]_vars => file' \in Files /\ pen' \in [Writers -> Pens] /\ Matches'
<1> DEFINE Good == file' \in Files /\ pen' \in [Writers -> Pens] /\ Matches'
<1> SUFFICES ASSUME IInv, [Next]_vars PROVE Good
  OBVIOUS
<1>1. file \in Files /\ file.text \in Creds /\ pen \in [Writers -> Pens] /\ Matches
  BY FileTypes DEF IInv, AskTypeOK, AdviceTypeOK, Pens
<1>2. \A w \in Writers : pen[w] \in Pens /\ pen[w].text \in Creds /\ Matched(pen[w].text)
  BY <1>1, PenTypes DEF Matches
<1>3. \A w \in Writers : call[w].text \in Creds
  BY DEF IInv, AskTypeOK, AdviceTypeOK
<1>4. UNCHANGED creds => Good
  BY <1>1 DEF creds, Matches
<1>5. UNCHANGED file /\ pen' \in [Writers -> Pens] /\ (\A v \in Writers : Matched(pen'[v].text)) => Good
  BY <1>1 DEF Matches
<1>6. ASSUME NEW w \in Writers, Open(w) PROVE Good
  <2> DEFINE x == [pen[w] EXCEPT !.at = "put", !.under = "mine"]
  <2>1. pen' = [pen EXCEPT ![w] = x] /\ file' = Torn
    BY <1>1, <1>6 DEF Open
  <2>2. x \in Pens /\ Matched(x.text)
    BY <1>2, PenTypes
  <2> HIDE DEF x
  <2>3. pen' \in [Writers -> Pens] /\ \A v \in Writers : Matched(pen'[v].text)
    BY <1>1, <2>1, <2>2, PenChange
  <2> QED
    BY <2>1, <2>3, CredTypes, FileTypes DEF Matches
<1>7. ASSUME NEW w \in Writers, Put(w) PROVE Good
  <2>1. file' \in {Whole(pen[w].text), Torn, file}
    BY <1>2, <1>7 DEF Put, Pens
  <2>2. file' \in Files /\ Matched(file'.text)
    BY <1>1, <1>2, <2>1, CredTypes, FileTypes DEF Matches
  <2>3. pen' = [v \in Writers |->
               IF v = w THEN NoPen
               ELSE IF pen[v].at = "put" /\ pen[v].under = "mine" /\ pen[w].under # "gone"
                    THEN [pen[v] EXCEPT !.under = "other"] ELSE pen[v]]
    BY <1>7 DEF Put
  <2>4. \A v \in Writers : pen'[v] \in {NoPen, [pen[v] EXCEPT !.under = "other"], pen[v]}
    BY <2>3
  <2>5. \A v \in Writers : pen'[v] \in Pens /\ Matched(pen'[v].text)
    BY <1>2, <2>4, CredTypes, PenTypes
  <2>6. pen' \in [Writers -> Pens]
    BY <2>3, <2>5
  <2> QED
    BY <2>2, <2>5, <2>6 DEF Matches
<1>8. ASSUME NEW w \in Writers, Exchange(w) PROVE Good
  <2>1. UNCHANGED file
    BY <1>8 DEF Exchange
  <2>2. CASE UNCHANGED pen
    BY <1>4, <2>1, <2>2 DEF creds
  <2>3. CASE pen' = [pen EXCEPT ![w] = Pen(Exchanged(call[w].text))]
    <3> DEFINE text == Exchanged(call[w].text)
               x == Pen(text)
    <3>2. text \in Creds /\ Matched(text)
      BY <1>3, CredTypes
    <3> HIDE DEF text
    <3>1. x \in Pens /\ Matched(x.text)
      BY <3>2, PenTypes
    <3> HIDE DEF x
    <3> QED
      BY <1>1, <1>5, <2>1, <2>3, <3>1, PenChange DEF x, text
  <2> QED
    BY <1>8, <2>2, <2>3 DEF Exchange
<1>9. ASSUME NEW w \in Writers, Killed(w) PROVE Good
  <2>1. UNCHANGED file /\ pen' = [pen EXCEPT ![w] = NoPen]
    BY <1>9 DEF Killed
  <2> QED
    BY <1>1, <1>5, <2>1, CredTypes, PenTypes, PenChange
<1>10. CASE Save
  <2>1. UNCHANGED file
    BY <1>10 DEF Save
  <2>2. CASE UNCHANGED pen
    BY <1>4, <2>1, <2>2 DEF creds
  <2>3. CASE prompt \in Accounts /\ pen' = [pen EXCEPT ![Login] = Pen(Saved(file.text, prompt))]
    <3> DEFINE text == Saved(file.text, prompt)
               x == Pen(text)
    <3>2. text \in Creds /\ Matched(text)
      BY <1>1, <2>3, CredTypes
    <3> HIDE DEF text
    <3>1. x \in Pens /\ Matched(x.text)
      BY <3>2, PenTypes
    <3> HIDE DEF x
    <3> QED
      BY <1>1, <1>5, <2>1, <2>3, <3>1, Assumed, PenChange DEF x, text
  <2> QED
    BY <1>10, <2>2, <2>3 DEF Save
<1>11. CASE Logout
  <2>1. file' = Absent
    BY <1>11 DEF Logout
  <2>2. pen' = [w \in Writers |-> IF pen[w].at = "put" THEN [pen[w] EXCEPT !.under = "gone"] ELSE pen[w]]
    BY <1>11 DEF Logout
  <2>3. \A v \in Writers : pen'[v] \in {[pen[v] EXCEPT !.under = "gone"], pen[v]}
    BY <2>2
  <2>4. \A v \in Writers : pen'[v] \in Pens /\ Matched(pen'[v].text)
    BY <1>2, <2>3, PenTypes
  <2>5. pen' \in [Writers -> Pens]
    BY <2>2, <2>4
  <2> QED
    BY <2>1, <2>4, <2>5, CredTypes, FileTypes DEF Matches
<1>12. CASE Lapse
  <2>1. UNCHANGED pen /\ file' = [file EXCEPT !.text.fresh = FALSE]
    BY <1>12 DEF Lapse
  <2>2. file' \in Files /\ file'.text = [file.text EXCEPT !.fresh = FALSE]
    BY <1>1, <2>1, CredTypes DEF Files
  <2> QED
    BY <1>1, <1>2, <2>1, <2>2, CredTypes DEF Matches
<1>13. ASSUME NEW p \in Procs, CallStep(p) PROVE Good
  <2>1. p \in Writers
    BY Assumed
  <2>2. CASE Bearer(p) \/ Post(p) \/ Settle(p) \/ Record(p)
    BY <1>4, <2>2 DEF Bearer, Post, Settle, Record
  <2> QED
    BY <1>6, <1>7, <1>8, <1>13, <2>1, <2>2 DEF CallStep
<1>14. CASE AdviceStep
  <2>1. CASE StartLogin \/ Poll \/ Checked \/ Bearer(Login)
    BY <1>4, <2>1 DEF StartLogin, Poll, Checked, Bearer
  <2> QED
    BY <1>6, <1>7, <1>8, <1>9, <1>10, <1>11, <1>12, <1>13, <1>14, <2>1, Assumed
    DEF AdviceStep, LoginStep, LoginDies
<1>15. ASSUME NEW p \in Procs, Ask(p) \/ TurnStep(p) \/ Expire(p) PROVE UNCHANGED creds
  <2>1. CASE Ask(p) \/ Expire(p)
    BY <2>1 DEF Ask, Expire, advice
  <2>2. CASE TurnStep(p)
    BY <2>2 DEF TurnStep, Fails, Classified, Proposed, Tool, Browser, Cached, Budget, Checks,
                SearchFails, Garbled, Served, Drafted, advice
  <2> QED
    BY <1>15, <2>1, <2>2
<1>16. CASE Midnight \/ UNCHANGED vars
  BY <1>4, <1>16 DEF Midnight, vars, advice
<1> QED
  BY <1>4, <1>9, <1>14, <1>15, <1>16, Assumed DEF Next, Die

-----------------------------------------------------------------------------
(* The calls.                                                              *)

LEMMA RecordTypes ==
  /\ NoCall \in Records /\ Proper(NoCall)
  /\ \A fb \in BOOLEAN :
       LET c == [NoCall EXCEPT !.at = "headers", !.fallback = fb]
       IN  c \in Records /\ Proper(c)
<1>1. NoCall \in Records /\ Proper(NoCall)
  BY CredTypes DEF NoCall, Records, CallStations, Proper
<1>2. ASSUME NEW fb \in BOOLEAN
      PROVE  LET c == [NoCall EXCEPT !.at = "headers", !.fallback = fb]
             IN  c \in Records /\ Proper(c)
  <2> DEFINE c == [NoCall EXCEPT !.at = "headers", !.fallback = fb]
  <2>1. c.at = "headers" /\ c.rows = 0 /\ c.replies = 0 /\ c.status = "none"
    BY DEF NoCall
  <2>2. c \in Records
    BY <1>1 DEF Records, CallStations
  <2> HIDE DEF c
  <2>3. Proper(c)
    BY <2>1 DEF Proper
  <2> QED
    BY <2>2, <2>3 DEF c
<1> QED
  BY <1>1, <1>2

LEMMA CallChange ==
  ASSUME call \in [Writers -> Records], Calls, NEW w \in Writers, NEW c \in Records, Proper(c),
         call' = [call EXCEPT ![w] = c]
  PROVE  call' \in [Writers -> Records] /\ Calls'
BY DEF Calls

LEMMA CallsStep ==
  IInv /\ [Next]_vars => call' \in [Writers -> Records] /\ Calls'
<1> DEFINE Good == call' \in [Writers -> Records] /\ Calls'
<1> SUFFICES ASSUME IInv, [Next]_vars PROVE Good
  OBVIOUS
<1>1. call \in [Writers -> Records] /\ Calls /\ file.text \in Creds
  BY FileTypes DEF IInv, AskTypeOK, AdviceTypeOK, Records
<1>2. \A w \in Writers : call[w] \in Records /\ Proper(call[w])
  BY <1>1 DEF Calls
<1>3. UNCHANGED call => Good
  BY <1>1 DEF Calls
<1>4. ASSUME NEW w \in Writers, NEW c \in Records, Proper(c), call' = [call EXCEPT ![w] = c] PROVE Good
  BY <1>1, <1>4, CallChange
<1>5. ASSUME NEW w \in Writers, NEW fb \in BOOLEAN, Begin(w, fb) PROVE Good
  <2> DEFINE c == [NoCall EXCEPT !.at = "headers", !.fallback = fb]
  <2>1. c \in Records /\ Proper(c) /\ call' = [call EXCEPT ![w] = c]
    BY <1>5, RecordTypes DEF Begin
  <2> HIDE DEF c
  <2> QED
    BY <1>4, <2>1
<1>6. ASSUME NEW w \in Writers, call' = [call EXCEPT ![w] = NoCall] PROVE Good
  BY <1>4, <1>6, RecordTypes
<1>7. ASSUME NEW w \in Writers, Raise(w), call[w].at \in {"headers", "exchange", "post"} PROVE Good
  <2> DEFINE c == [call[w] EXCEPT !.at = "raised"]
  <2>1. c \in Records /\ Proper(c)
    BY <1>2, <1>7 DEF Records, CallStations, Proper
  <2>2. call' = [call EXCEPT ![w] = c]
    BY <1>7 DEF Raise
  <2> HIDE DEF c
  <2> QED
    BY <1>4, <2>1, <2>2
<1>8. ASSUME NEW w \in Writers, Bearer(w) PROVE Good
  <2>1. call[w].at = "headers"
    BY <1>8 DEF Bearer
  <2>2. CASE Raise(w)
    BY <1>7, <2>1, <2>2
  <2> DEFINE s == IF file.text.bearer # NoAccount /\ file.text.fresh THEN "post" ELSE "exchange"
             c == [call[w] EXCEPT !.text = file.text, !.at = s]
  <2>3. CASE call' = [call EXCEPT ![w].text = file.text, ![w].at = s]
    <3>1. s \in {"post", "exchange"}
      OBVIOUS
    <3> HIDE DEF s
    <3>2. c \in Records /\ Proper(c)
      BY <1>1, <1>2, <2>1, <3>1 DEF Records, CallStations, Proper
    <3>3. call' = [call EXCEPT ![w] = c]
      BY <1>1, <2>3
    <3> HIDE DEF c
    <3> QED
      BY <1>4, <3>2, <3>3
  <2> QED
    BY <1>8, <2>2, <2>3 DEF Bearer
<1>9. ASSUME NEW w \in Writers, Exchange(w) PROVE Good
  <2>1. call[w].at = "exchange"
    BY <1>9 DEF Exchange
  <2>2. CASE Raise(w)
    BY <1>7, <2>1, <2>2
  <2>3. CASE call' = [call EXCEPT ![w].at = "post"]
    <3> DEFINE c == [call[w] EXCEPT !.at = "post"]
    <3>1. c \in Records /\ Proper(c)
      BY <1>2, <2>1 DEF Records, CallStations, Proper
    <3>2. call' = [call EXCEPT ![w] = c]
      BY <2>3
    <3> HIDE DEF c
    <3> QED
      BY <1>4, <3>1, <3>2
  <2> QED
    BY <1>9, <2>2, <2>3 DEF Exchange
<1>10. ASSUME NEW w \in Writers, Post(w) PROVE Good
  <2>1. call[w].at = "post"
    BY <1>10 DEF Post
  <2>2. CASE Raise(w)
    BY <1>7, <2>1, <2>2
  <2>3. ASSUME NEW ok \in BOOLEAN,
               call' = [call EXCEPT ![w].replies = @ + 1,
                                    ![w].status = IF ~ok THEN "invalid"
                                                  ELSE IF @ = "none" THEN "valid" ELSE "repaired",
                                    ![w].at = "settle"]
        PROVE  Good
    <3> DEFINE s == IF ~ok THEN "invalid" ELSE IF call[w].status = "none" THEN "valid" ELSE "repaired"
               c == [call[w] EXCEPT !.replies = call[w].replies + 1, !.status = s, !.at = "settle"]
    <3>1. call' = [call EXCEPT ![w] = c]
      BY <1>1, <2>3
    <3>2. \/ s = "invalid"
          \/ s = "valid" /\ call[w].status = "none"
          \/ s = "repaired" /\ call[w].status # "none"
      OBVIOUS
    <3> HIDE DEF s
    <3>4. call[w] \in Records /\ call[w].rows = 0
          /\ (\/ call[w].replies = 0 /\ call[w].status = "none"
              \/ call[w].replies = 1 /\ call[w].status = "invalid")
      BY <1>2, <2>1 DEF Proper
    <3>5. c \in Records
      <4>1. call[w].replies + 1 \in 0 .. 2
            /\ s \in {"none", "valid", "repaired", "invalid", "fallback", "failed"}
        BY <3>2, <3>4
      <4> QED
        BY <3>4, <4>1 DEF Records, CallStations
    <3>6. c.at = "settle" /\ c.status = s /\ c.replies = call[w].replies + 1 /\ c.rows = 0
      BY <3>4 DEF Records
    <3> HIDE DEF c
    <3>3. c \in Records /\ Proper(c)
      BY <3>2, <3>4, <3>5, <3>6 DEF Proper
    <3> QED
      BY <1>4, <3>1, <3>3
  <2> QED
    BY <1>10, <2>2, <2>3 DEF Post
<1>11. ASSUME NEW w \in Writers, Settle(w) PROVE Good
  <2>1. call[w].at = "settle"
    BY <1>11 DEF Settle
  <2> DEFINE again == call[w].status = "invalid" /\ call[w].replies < 2
             a == IF again THEN "headers" ELSE "record"
             s == IF call[w].status # "invalid" \/ call[w].replies < 2 THEN call[w].status
                  ELSE IF call[w].fallback THEN "fallback" ELSE "failed"
             c == [call[w] EXCEPT !.at = a, !.status = s]
  <2>2. call' = [call EXCEPT ![w] = c]
    BY <1>1, <1>11 DEF Settle
  <2>3. \/ again /\ a = "headers" /\ s = "invalid"
        \/ call[w].status # "invalid" /\ a = "record" /\ s = call[w].status
        \/ call[w].status = "invalid" /\ ~(call[w].replies < 2) /\ a = "record"
           /\ s = IF call[w].fallback THEN "fallback" ELSE "failed"
    OBVIOUS
  <2> HIDE DEF a, s
  <2>5. /\ call[w] \in Records /\ call[w].rows = 0 /\ call[w].fallback \in BOOLEAN
        /\ \/ call[w].replies = 1 /\ call[w].status \in {"valid", "invalid"}
           \/ call[w].replies = 2 /\ call[w].status \in {"repaired", "invalid"}
    BY <1>2, <2>1 DEF Proper, Records
  <2>6. c \in Records
    BY <2>3, <2>5 DEF Records, CallStations
  <2>7. c.at = a /\ c.status = s /\ c.replies = call[w].replies /\ c.rows = 0
        /\ c.fallback = call[w].fallback
    BY <2>5 DEF Records
  <2> HIDE DEF c
  <2>4. c \in Records /\ Proper(c)
    BY <2>3, <2>5, <2>6, <2>7 DEF Proper, Verdict
  <2> QED
    BY <1>4, <2>2, <2>4
<1>12. ASSUME NEW w \in Writers, Record(w) PROVE Good
  <2>1. call[w].at = "record"
    BY <1>12 DEF Record
  <2> DEFINE a == IF call[w].status = "failed" THEN "escalated" ELSE "value"
             c == [call[w] EXCEPT !.rows = call[w].rows + 1, !.at = a]
  <2>2. call' = [call EXCEPT ![w] = c]
    BY <1>1, <1>12 DEF Record
  <2>4. call[w] \in Records /\ call[w].rows = 0 /\ Verdict(call[w])
    BY <1>2, <2>1 DEF Proper
  <2>5. (a = "escalated" /\ call[w].status = "failed") \/ (a = "value" /\ call[w].status # "failed")
    OBVIOUS
  <2> HIDE DEF a
  <2>6. c \in Records
    <3>1. call[w].rows + 1 \in 0 .. 1 /\ a \in CallStations
      BY <2>4, <2>5 DEF CallStations
    <3> QED
      BY <2>4, <3>1 DEF Records
  <2>7. c.at = a /\ c.status = call[w].status /\ c.replies = call[w].replies /\ c.rows = 1
        /\ c.fallback = call[w].fallback
    BY <2>4 DEF Records
  <2> HIDE DEF c
  <2>3. c \in Records /\ Proper(c)
    BY <2>4, <2>5, <2>6, <2>7 DEF Proper, Verdict
  <2> QED
    BY <1>4, <2>2, <2>3
<1>13. ASSUME NEW p \in Procs, CallStep(p) PROVE Good
  <2>1. p \in Writers
    BY Assumed
  <2>2. CASE Open(p) \/ Put(p)
    BY <1>3, <2>2 DEF Open, Put
  <2> QED
    BY <1>8, <1>9, <1>10, <1>11, <1>12, <1>13, <2>1, <2>2 DEF CallStep
<1>14. CASE Save
  BY <1>3, <1>5, <1>14, Assumed DEF Save
<1>15. CASE AdviceStep
  <2>1. CASE StartLogin \/ Poll \/ Logout \/ Lapse \/ Open(Login) \/ Put(Login)
    BY <1>3, <2>1 DEF StartLogin, Poll, Logout, Lapse, Open, Put
  <2>2. CASE Checked \/ LoginDies
    BY <1>6, <2>2, Assumed DEF Checked, LoginDies, Killed
  <2> QED
    BY <1>8, <1>9, <1>13, <1>14, <1>15, <2>1, <2>2, Assumed DEF AdviceStep, LoginStep
<1>16. ASSUME NEW p \in Procs, Ask(p) PROVE Good
  BY <1>5, <1>16, Assumed DEF Ask
<1>17. ASSUME NEW p \in Procs, NextRound(p) \/ Found(p) \/ Drafts(p) PROVE Good
  BY <1>5, <1>17, Assumed DEF NextRound, Found, Drafts
<1>18. ASSUME NEW p \in Procs, TurnStep(p) PROVE Good
  <2>1. CASE Fails(p) \/ Drafted(p)
    BY <1>6, <2>1, Assumed DEF Fails, Drafted, Hangup
  <2>2. CASE Classified(p)
    BY <1>5, <2>2, Assumed DEF Classified
  <2>3. CASE Proposed(p)
    BY <1>6, <1>17, <2>3, Assumed DEF Proposed, Hangup
  <2>4. CASE Tool(p) \/ Browser(p)
    BY <1>3, <1>17, <2>4 DEF Tool, Browser
  <2>5. CASE Cached(p) \/ Budget(p) \/ SearchFails(p) \/ Served(p)
    BY <1>17, <2>5 DEF Cached, Budget, SearchFails, Served
  <2>6. CASE Checks(p) \/ Garbled(p)
    BY <1>3, <2>6 DEF Checks, Garbled, advice
  <2> QED
    BY <1>18, <2>1, <2>2, <2>3, <2>4, <2>5, <2>6 DEF TurnStep
<1>19. ASSUME NEW p \in Procs, Die(p) PROVE Good
  BY <1>6, <1>19, Assumed DEF Die, Killed
<1>20. ASSUME NEW p \in Procs, Expire(p) PROVE Good
  BY <1>3, <1>20 DEF Expire, advice
<1>21. CASE Midnight \/ UNCHANGED vars
  BY <1>3, <1>21 DEF Midnight, vars, advice
<1> QED
  BY <1>15, <1>16, <1>18, <1>19, <1>20, <1>21 DEF Next

-----------------------------------------------------------------------------
(* The turns.                                                              *)

Sittings == [at : Stations, tools : SUBSET Tools, step : Steps, query : Queries \cup {"none"}]

Searches(x) == x.at \in {"browser", "web", "bill"} => x.query \in Queries

LEMMA TurnChange ==
  ASSUME turn \in [Procs -> Sittings], Searching, NEW p \in Procs, NEW x \in Sittings, Searches(x),
         turn' = [turn EXCEPT ![p] = x]
  PROVE  turn' \in [Procs -> Sittings] /\ Searching'
BY DEF Searching, Searches

LEMMA TurnTypes == IInv /\ [Next]_vars => turn' \in [Procs -> Sittings] /\ Searching'
<1> DEFINE Good == turn' \in [Procs -> Sittings] /\ Searching'
<1> SUFFICES ASSUME IInv, [Next]_vars PROVE Good
  OBVIOUS
<1>1. turn \in [Procs -> Sittings] /\ Searching
  BY DEF IInv, AskTypeOK, Sittings
<1>2. \A p \in Procs : turn[p] \in Sittings /\ Searches(turn[p])
  BY <1>1 DEF Searching, Searches
<1>3. UNCHANGED turn => Good
  BY <1>1 DEF Searching
<1>4. ASSUME NEW p \in Procs, NEW x \in Sittings, Searches(x), turn' = [turn EXCEPT ![p] = x] PROVE Good
  BY <1>1, <1>4, TurnChange
<1>5. ASSUME NEW p \in Procs, Over(p) PROVE Good
  <2>1. Idle \in Sittings /\ Searches(Idle)
    BY DEF Idle, Sittings, Searches, Stations, Steps, MaxResearchSteps, Tools
  <2> QED
    BY <1>4, <1>5, <2>1 DEF Over
<1>6. ASSUME NEW p \in Procs, NEW s \in Stations \ {"browser"}, Goes(p, s),
             s \in {"web", "bill"} => turn[p].at \in {"browser", "web"}
      PROVE  Good
  <2> DEFINE x == [turn[p] EXCEPT !.at = s]
  <2>1. x \in Sittings /\ x.at = s /\ x.query = turn[p].query
    BY <1>2 DEF Sittings
  <2>2. turn' = [turn EXCEPT ![p] = x]
    BY <1>6 DEF Goes
  <2> HIDE DEF x
  <2>3. CASE s \in {"web", "bill"}
    BY <1>2, <1>4, <1>6, <2>1, <2>2, <2>3 DEF Searches
  <2>4. CASE s \notin {"web", "bill", "browser"}
    BY <1>4, <2>1, <2>2, <2>4 DEF Searches
  <2> QED
    BY <1>6, <2>3, <2>4
<1>7. ASSUME NEW p \in Procs, Drafts(p) PROVE Good
  BY <1>6, <1>7 DEF Drafts, Stations
<1>8. ASSUME NEW p \in Procs, NextRound(p) PROVE Good
  <2>1. CASE Drafts(p)
    BY <1>7, <2>1
  <2>2. CASE turn[p].step < MaxResearchSteps
             /\ turn' = [turn EXCEPT ![p].at = "propose", ![p].step = @ + 1, ![p].query = "none"]
    <3> DEFINE x == [turn[p] EXCEPT !.at = "propose", !.step = turn[p].step + 1, !.query = "none"]
    <3>1. turn[p].step + 1 \in Steps /\ "propose" \in Stations
      BY <1>2, <2>2 DEF Sittings, Steps, MaxResearchSteps, Stations
    <3>2. x \in Sittings /\ x.at = "propose"
      BY <1>2, <3>1 DEF Sittings
    <3>3. turn' = [turn EXCEPT ![p] = x]
      BY <1>1, <2>2
    <3> HIDE DEF x
    <3> QED
      BY <1>4, <3>2, <3>3 DEF Searches
  <2> QED
    BY <1>8, <2>1, <2>2 DEF NextRound
<1>9. ASSUME NEW p \in Procs, Classified(p) PROVE Good
  <2>1. CASE Goes(p, "draft")
    BY <1>6, <2>1 DEF Stations
  <2>2. ASSUME NEW d \in Domains,
               turn' = [turn EXCEPT ![p].at = "propose", ![p].tools = AllowedSkills(d)]
        PROVE  Good
    <3> DEFINE x == [turn[p] EXCEPT !.at = "propose", !.tools = AllowedSkills(d)]
    <3>1. AllowedSkills(d) \in SUBSET Tools /\ "propose" \in Stations
      BY DEF AllowedSkills, Tools, Stations
    <3>2. x \in Sittings /\ x.at = "propose"
      BY <1>2, <3>1 DEF Sittings
    <3>3. turn' = [turn EXCEPT ![p] = x]
      BY <1>1, <2>2
    <3> HIDE DEF x
    <3> QED
      BY <1>4, <3>2, <3>3 DEF Searches
  <2> QED
    BY <1>9, <2>1, <2>2 DEF Classified
<1>10. ASSUME NEW p \in Procs, Proposed(p) PROVE Good
  <2>1. CASE Drafts(p)
    BY <1>7, <2>1
  <2>2. CASE Goes(p, "tool")
    BY <1>6, <2>2 DEF Stations
  <2>3. ASSUME NEW q \in Queries, turn' = [turn EXCEPT ![p].at = "browser", ![p].query = q]
        PROVE  Good
    <3> DEFINE x == [turn[p] EXCEPT !.at = "browser", !.query = q]
    <3>1. "browser" \in Stations
      BY DEF Stations
    <3>2. x \in Sittings /\ x.query = q
      BY <1>2, <3>1 DEF Sittings
    <3>3. turn' = [turn EXCEPT ![p] = x]
      BY <1>1, <2>3
    <3> HIDE DEF x
    <3> QED
      BY <1>4, <3>2, <3>3 DEF Searches
  <2> QED
    BY <1>10, <2>1, <2>2, <2>3 DEF Proposed
<1>11. ASSUME NEW p \in Procs, TurnStep(p) PROVE Good
  <2>1. CASE Fails(p) \/ Drafted(p) \/ Garbled(p)
    BY <1>5, <2>1 DEF Fails, Drafted, Garbled
  <2>2. CASE Tool(p)
    BY <1>5, <1>7, <1>8, <2>2 DEF Tool, Found
  <2>3. CASE Browser(p)
    BY <1>6, <1>7, <2>3 DEF Browser, Found, Stations
  <2>4. CASE Cached(p) \/ Budget(p) \/ SearchFails(p) \/ Served(p)
    BY <1>7, <1>8, <2>4 DEF Cached, Budget, SearchFails, Served, Found
  <2>5. CASE Checks(p)
    BY <1>6, <2>5 DEF Checks, Stations
  <2> QED
    BY <1>9, <1>10, <1>11, <2>1, <2>2, <2>3, <2>4, <2>5 DEF TurnStep
<1>12. ASSUME NEW p \in Procs, Ask(p) \/ Die(p) \/ Expire(p) PROVE Good
  <2>1. CASE Ask(p)
    BY <1>6, <2>1 DEF Ask, Stations
  <2>2. CASE Die(p)
    BY <1>5, <2>2 DEF Die
  <2>3. CASE Expire(p)
    BY <1>3, <2>3 DEF Expire
  <2> QED
    BY <1>12, <2>1, <2>2, <2>3
<1>13. CASE Midnight \/ UNCHANGED <<turn, meter, turns>> \/ UNCHANGED vars
  BY <1>3, <1>13 DEF Midnight, vars
<1> QED
  BY <1>11, <1>12, <1>13 DEF Next

-----------------------------------------------------------------------------
(* The caches and the counters of the bounds.                              *)

Rest == /\ prompt \in {"none", "approval", "check"} \cup Accounts
        /\ logins \in 0 .. MaxLogins /\ lapses \in 0 .. MaxLapses /\ kills \in 0 .. MaxKills
        /\ cached \in [Procs -> SUBSET (Queries \X BOOLEAN)]
        /\ turns \in [Procs -> 0 .. MaxTurns] /\ nights \in 0 .. MaxNights

LEMMA RestTypes == IInv /\ [Next]_vars => Rest'
<1> SUFFICES ASSUME IInv, [Next]_vars PROVE Rest'
  OBVIOUS
<1>1. Rest
  BY DEF IInv, AskTypeOK, AdviceTypeOK, Rest
<1>2. UNCHANGED <<prompt, bounds, cached, turns, nights>> => Rest'
  BY <1>1 DEF Rest, bounds
<1>3. ASSUME NEW w \in Writers, Killed(w), prompt' \in {"none", prompt},
             turns' = turns, nights' = nights,
             cached' = cached \/ \E p \in Procs : cached' = [cached EXCEPT ![p] = {}]
      PROVE  Rest'
  <2>1. kills' \in 0 .. MaxKills /\ UNCHANGED <<logins, lapses>>
    BY <1>1, <1>3, Assumed DEF Killed, Rest
  <2>2. cached' \in [Procs -> SUBSET (Queries \X BOOLEAN)]
    BY <1>1, <1>3 DEF Rest
  <2> QED
    BY <1>1, <1>3, <2>1, <2>2 DEF Rest
<1>4. CASE AdviceStep /\ UNCHANGED <<turn, meter, turns>>
  <2>1. UNCHANGED <<cached, turns, nights>>
    BY <1>4 DEF meter
  <2>2. CASE \E w \in Writers : Bearer(w) \/ Exchange(w) \/ Post(w) \/ Settle(w) \/ Record(w)
                                 \/ Open(w) \/ Put(w)
    BY <1>2, <2>1, <2>2 DEF Bearer, Exchange, Post, Settle, Record, Open, Put
  <2>3. CASE StartLogin \/ Logout \/ Lapse
    <3>1. logins' \in 0 .. MaxLogins /\ lapses' \in 0 .. MaxLapses /\ kills' = kills
      BY <1>1, <2>3, Assumed DEF StartLogin, Logout, Lapse, Rest
    <3>2. prompt' \in {prompt, "approval"} \cup Accounts
      BY <2>3, Assumed DEF StartLogin, Logout, Lapse
    <3> QED
      BY <1>1, <2>1, <3>1, <3>2 DEF Rest
  <2>4. CASE Poll \/ Save \/ Checked
    <3>1. prompt' \in {"none", "check"} \cup Accounts /\ UNCHANGED bounds
      BY <2>4 DEF Poll, Save, Checked
    <3> QED
      BY <1>1, <2>1, <3>1 DEF Rest, bounds
  <2>5. CASE LoginDies
    BY <1>3, <2>1, <2>5, Assumed DEF LoginDies
  <2> QED
    BY <1>4, <2>2, <2>3, <2>4, <2>5, Assumed DEF AdviceStep, LoginStep, CallStep
<1>5. ASSUME NEW p \in Procs, Ask(p) PROVE Rest'
  <2>1. turns' \in [Procs -> 0 .. MaxTurns]
    BY <1>1, <1>5, Assumed DEF Ask, Rest
  <2> QED
    BY <1>1, <1>5, <2>1 DEF Ask, Rest, meter, bounds
<1>6. ASSUME NEW p \in Procs, TurnStep(p) PROVE Rest'
  <2>1. CASE Served(p)
    <3>1. turn[p].query \in Queries
      BY <2>1 DEF IInv, Searching, Served
    <3>2. PICK found \in BOOLEAN : cached' = [cached EXCEPT ![p] = Remember(p, found)]
      BY <2>1 DEF Served
    <3>3. Remember(p, found) \in SUBSET (Queries \X BOOLEAN)
      BY <1>1, <3>1, <3>2 DEF Remember, Rest
    <3>4. cached' \in [Procs -> SUBSET (Queries \X BOOLEAN)]
      BY <1>1, <3>2, <3>3 DEF Rest
    <3> QED
      BY <1>1, <2>1, <3>4 DEF Served, Rest, bounds
  <2>2. CASE ~ Served(p)
    BY <1>2, <1>6, <2>2 DEF TurnStep, Fails, Classified, Proposed, Tool, Browser, Cached, Budget, Checks,
                            SearchFails, Garbled, Drafted, advice, meter
  <2> QED
    BY <2>1, <2>2
<1>7. ASSUME NEW p \in Procs, Die(p) PROVE Rest'
  BY <1>3, <1>7, Assumed DEF Die
<1>8. ASSUME NEW p \in Procs, Expire(p) PROVE Rest'
  <2>1. cached' \in [Procs -> SUBSET (Queries \X BOOLEAN)]
    BY <1>1, <1>8 DEF Expire, Rest
  <2> QED
    BY <1>1, <1>8, <2>1 DEF Expire, Rest, advice, bounds
<1>9. CASE Midnight \/ UNCHANGED vars
  BY <1>1, <1>9, Assumed DEF Midnight, Rest, vars, advice, bounds
<1> QED
  BY <1>4, <1>5, <1>6, <1>7, <1>8, <1>9 DEF Next

-----------------------------------------------------------------------------
(* The credits.                                                            *)

Counts == used \in Nat /\ paid \in Nat /\ lost \in Nat

LEMMA BillingSize ==
  /\ IsFiniteSet(Billing) /\ Cardinality(Billing) \in Nat
  /\ Cardinality(Procs) \in Nat /\ Cardinality(Billing) <= Cardinality(Procs)
BY Assumed, FS_Subset, FS_CardinalityType DEF Billing

LEMMA BillingSizeNext ==
  /\ IsFiniteSet(Billing') /\ Cardinality(Billing') \in Nat
  /\ Cardinality(Billing') <= Cardinality(Procs)
  /\ Billing' \subseteq Billing => Cardinality(Billing') <= Cardinality(Billing)
  /\ \A p \in Billing : Billing' = Billing \ {p} =>
                          Cardinality(Billing') = Cardinality(Billing) - 1
<1>1. IsFiniteSet(Billing') /\ Cardinality(Billing') \in Nat
      /\ Cardinality(Billing') <= Cardinality(Procs)
  <2>1. Billing' \subseteq Procs
    BY DEF Billing
  <2> QED
    BY <2>1, Assumed, FS_Subset, FS_CardinalityType
<1>2. ASSUME Billing' \subseteq Billing PROVE Cardinality(Billing') <= Cardinality(Billing)
  BY <1>2, BillingSize, FS_Subset
<1>3. ASSUME NEW p \in Billing, Billing' = Billing \ {p}
      PROVE  Cardinality(Billing') = Cardinality(Billing) - 1
  BY <1>3, BillingSize, FS_RemoveElement
<1> QED
  BY <1>1, <1>2, <1>3

\* A process leaves its station, for another than the request, and no other does.
Moves(p) == /\ \A q \in Procs : q # p => turn'[q] = turn[q]
            /\ turn'[p].at # "bill"

LEMMA TurnMoves ==
  ASSUME IInv, NEW p \in Procs
  PROVE  /\ \A s \in Stations \ {"bill"} : Goes(p, s) => Moves(p)
         /\ Over(p) => Moves(p)
         /\ Drafts(p) => Moves(p)
         /\ NextRound(p) => Moves(p)
<1>1. turn \in [Procs -> Sittings]
  BY DEF IInv, AskTypeOK, Sittings
<1>2. ASSUME NEW s \in Stations \ {"bill"}, Goes(p, s) PROVE Moves(p)
  BY <1>1, <1>2 DEF Goes, Moves, Sittings
<1>3. ASSUME Over(p) PROVE Moves(p)
  BY <1>1, <1>3 DEF Over, Idle, Moves
<1>4. ASSUME Drafts(p) PROVE Moves(p)
  BY <1>2, <1>4 DEF Drafts, Stations
<1>5. ASSUME NextRound(p) PROVE Moves(p)
  <2>1. CASE turn' = [turn EXCEPT ![p].at = "propose", ![p].step = @ + 1, ![p].query = "none"]
    BY <1>1, <2>1 DEF Moves, Sittings
  <2> QED
    BY <1>4, <1>5, <2>1 DEF NextRound
<1> QED
  BY <1>2, <1>3, <1>4, <1>5

LEMMA MovesAway ==
  ASSUME NEW p \in Procs, Moves(p)
  PROVE  Billing' = Billing \ {p}
BY DEF Moves, Billing

LEMMA MeterStep == IInv /\ [Next]_vars => Counts' /\ Meter'
<1> SUFFICES ASSUME IInv, [Next]_vars PROVE Counts' /\ Meter'
  OBVIOUS
<1>1. Counts /\ Meter
  BY DEF IInv, AskTypeOK, Counts
<1>2. ASSUME UNCHANGED <<used, paid, lost>>, Billing' \subseteq Billing PROVE Counts' /\ Meter'
  BY <1>1, <1>2, Assumed, BillingSize, BillingSizeNext DEF Counts, Meter
<1>3. ASSUME NEW p \in Procs, Moves(p), UNCHANGED <<used, paid, lost>> PROVE Counts' /\ Meter'
  BY <1>2, <1>3, MovesAway
<1>4. UNCHANGED turn => Billing' = Billing
  BY DEF Billing
<1>5. CASE UNCHANGED <<turn, used, paid, lost>>
  BY <1>2, <1>4, <1>5
<1>6. ASSUME NEW p \in Procs, Moves(p), UNCHANGED used, paid' = paid + 1, lost' = lost + 1
      PROVE  Counts' /\ Meter'
  <2>1. Billing' \subseteq Billing
    BY <1>6, MovesAway
  <2> QED
    BY <1>1, <1>6, <2>1, Assumed, BillingSize, BillingSizeNext DEF Counts, Meter
<1>7. ASSUME NEW p \in Procs, Checks(p) PROVE Counts' /\ Meter'
  <2>1. UNCHANGED <<used, paid, lost>> /\ ~ Spent
    BY <1>7 DEF Checks, meter
  <2> QED
    BY <1>1, <2>1, Assumed, BillingSize, BillingSizeNext DEF Counts, Meter, Spent
<1>c. ASSUME NEW p \in Billing, Moves(p), used' = used + 1, paid' = paid + 1, lost' = lost
       PROVE  Counts' /\ Meter'
  <2>1. p \in Procs
    BY DEF Billing
  <2>2. Cardinality(Billing') = Cardinality(Billing) - 1
    BY <1>c, <2>1, MovesAway, BillingSizeNext
  <2> QED
    BY <1>1, <1>c, <2>2, Assumed, BillingSize DEF Counts, Meter
<1>8. ASSUME NEW p \in Procs, Served(p) PROVE Counts' /\ Meter'
  <2>1. Moves(p) /\ used' = used + 1 /\ paid' = paid + 1 /\ lost' = lost
    BY <1>8, TurnMoves DEF Served, Found
  <2>2. p \in Billing
    BY <1>8 DEF Served, Billing
  <2> QED
    BY <1>c, <2>1, <2>2
<1>9. ASSUME NEW p \in Procs, TurnStep(p), ~ Checks(p), ~ Served(p) PROVE Counts' /\ Meter'
  <2>1. CASE Fails(p) \/ Drafted(p)
    BY <1>3, <2>1, TurnMoves DEF Fails, Drafted, meter
  <2>2. CASE Classified(p)
    <3>1. UNCHANGED <<used, paid, lost>>
      BY <2>2 DEF Classified, meter
    <3>2. CASE Goes(p, "draft")
      BY <1>3, <3>1, <3>2, TurnMoves DEF Stations
    <3>3. ASSUME NEW d \in Domains,
                 turn' = [turn EXCEPT ![p].at = "propose", ![p].tools = AllowedSkills(d)]
          PROVE  Moves(p)
      BY <3>3 DEF IInv, AskTypeOK, Moves
    <3> QED
      BY <1>3, <2>2, <3>1, <3>2, <3>3 DEF Classified
  <2>3. CASE Proposed(p)
    <3>1. UNCHANGED <<used, paid, lost>>
      BY <2>3 DEF Proposed, meter
    <3>2. CASE Drafts(p) \/ Goes(p, "tool")
      BY <1>3, <3>1, <3>2, TurnMoves DEF Stations
    <3>3. ASSUME NEW q \in Queries, turn' = [turn EXCEPT ![p].at = "browser", ![p].query = q]
          PROVE  Moves(p)
      BY <3>3 DEF IInv, AskTypeOK, Moves
    <3> QED
      BY <1>3, <2>3, <3>1, <3>2, <3>3 DEF Proposed
  <2>4. CASE Tool(p) \/ Browser(p)
    BY <1>3, <2>4, TurnMoves DEF Tool, Browser, Found, Stations, meter
  <2>5. CASE Cached(p) \/ Budget(p)
    BY <1>3, <2>5, TurnMoves DEF Cached, Budget, Found, meter
  <2>6. CASE SearchFails(p)
    BY <1>3, <1>6, <2>6, TurnMoves DEF SearchFails, MaybeCharged
  <2>7. CASE Garbled(p)
    <3>1. Moves(p) /\ paid' = paid + 1
      BY <2>7, TurnMoves DEF Garbled
    <3>2. CASE lost' = lost + 1 /\ UNCHANGED used
      BY <1>6, <3>1, <3>2
    <3>3. CASE used' = used + 1 /\ UNCHANGED lost
      <4>1. p \in Billing
        BY <2>7 DEF Garbled, Billing
      <4> QED
        BY <1>c, <3>1, <3>3, <4>1
    <3> QED
      BY <2>7, <3>2, <3>3 DEF Garbled
  <2> QED
    BY <1>9, <2>1, <2>2, <2>3, <2>4, <2>5, <2>6, <2>7 DEF TurnStep
<1>10. ASSUME NEW p \in Procs, Ask(p) PROVE Counts' /\ Meter'
  BY <1>3, <1>10, TurnMoves DEF Ask, Stations, meter
<1>11. ASSUME NEW p \in Procs, Die(p) PROVE Counts' /\ Meter'
  BY <1>3, <1>6, <1>11, TurnMoves DEF Die, MaybeCharged
<1>12. ASSUME NEW p \in Procs, Expire(p) PROVE Counts' /\ Meter'
  BY <1>5, <1>12 DEF Expire
<1>13. CASE AdviceStep /\ UNCHANGED <<turn, meter, turns>>
  BY <1>5, <1>13 DEF meter
<1>14. CASE Midnight
  <2>1. used' = 0 /\ paid' = 0 /\ lost' = 0 /\ Billing' = Billing
    BY <1>4, <1>14 DEF Midnight
  <2> QED
    BY <2>1, Assumed, BillingSize DEF Counts, Meter
<1>15. CASE UNCHANGED vars
  BY <1>5, <1>15 DEF vars
<1> QED
  BY <1>7, <1>8, <1>9, <1>10, <1>11, <1>12, <1>13, <1>14, <1>15 DEF Next

-----------------------------------------------------------------------------
LEMMA Initially == Init => IInv
<1> SUFFICES ASSUME Init PROVE IInv
  OBVIOUS
<1>1. file \in Files /\ pen \in [Writers -> Pens] /\ Matches
  BY FileInit
<1>2. call \in [Writers -> Records] /\ Calls
  BY RecordTypes DEF Init, AdviceInit, Calls
<1>3. turn \in [Procs -> Sittings] /\ Searching /\ Billing = {}
  BY DEF Init, Idle, Sittings, Searching, Billing, Stations, Steps, MaxResearchSteps, Tools
<1>4. Rest
  BY Assumed DEF Init, AdviceInit, Rest
<1>5. Counts /\ Meter
  <2>1. Cardinality(Billing) = 0 /\ Cardinality(Procs) \in Nat
    BY <1>3, BillingSize, FS_EmptySet
  <2>2. used = 0 /\ paid = 0 /\ lost = 0
    BY DEF Init
  <2> QED
    BY <2>1, <2>2, Assumed DEF Counts, Meter
<1> QED
  BY <1>1, <1>2, <1>3, <1>4, <1>5
  DEF IInv, AskTypeOK, AdviceTypeOK, Pens, Records, Sittings, Rest, Counts

LEMMA Invariance == Spec => []IInv
<1>1. IInv /\ [Next]_vars => IInv'
  <2> SUFFICES ASSUME IInv, [Next]_vars PROVE IInv'
    OBVIOUS
  <2>1. file' \in Files /\ pen' \in [Writers -> Pens] /\ Matches'
    BY FileStep
  <2>2. call' \in [Writers -> Records] /\ Calls'
    BY CallsStep
  <2>3. turn' \in [Procs -> Sittings] /\ Searching'
    BY TurnTypes
  <2>4. Rest'
    BY RestTypes
  <2>5. Counts' /\ Meter'
    BY MeterStep
  <2> QED
    BY <2>1, <2>2, <2>3, <2>4, <2>5
    DEF IInv, AskTypeOK, AdviceTypeOK, Pens, Records, Sittings, Rest, Counts
<1> QED
  BY <1>1, Initially, PTL DEF Spec

\* Every reachable state of an ask is well typed.
THEOREM TypeCorrect == Spec => []AskTypeOK
<1>1. IInv => AskTypeOK
  BY DEF IInv
<1> QED
  BY <1>1, Invariance, PTL

\* However logins, logouts, exchanges and kills of any number of processes fall
\* together, no file pairs the login of one account with the token of another.
THEOREM OneAccountAtATime == Spec => []NoMixedAccounts
<1>1. IInv => NoMixedAccounts
  BY DEF IInv, Matches, Matched, NoMixedAccounts
<1> QED
  BY <1>1, Invariance, PTL

\* A call that ends with a value or an escalation has one row in ai_calls, with
\* the status it deserves; one that raises has none.
THEOREM EveryCallIsAudited == Spec => []AuditTruthful
<1>1. ASSUME IInv PROVE AuditTruthful
  <2>1. \A p \in Procs : Proper(call[p])
    BY <1>1, Assumed DEF IInv, Calls
  <2> QED
    BY <2>1 DEF Proper, Verdict, AuditTruthful
<1> QED
  BY <1>1, Invariance, PTL

\* With any number of processes, the credits counted exceed the daily maximum by
\* one less than there are processes, at most; of those taken, the ones beyond
\* that were for requests that failed, raised or were killed when the service had
\* served them (the except clause of web_search, and what it does not catch).
THEOREM CountedBudgetIsKept == Spec => []BudgetHolds
<1>1. ASSUME IInv PROVE BudgetHolds
  <2>1. used \in Nat /\ paid \in Nat /\ lost \in Nat /\ Meter
    BY <1>1 DEF IInv, AskTypeOK
  <2> QED
    BY <2>1, Assumed, BillingSize DEF Meter, BudgetHolds
<1> QED
  BY <1>1, Invariance, PTL

-----------------------------------------------------------------------------
(* The keys and the login come from the wizard (Setup): that it keeps them, *)
(* and what it says of them is true, for any names of custom keys, any      *)
(* shell, and any number of runs, kills and logouts.                        *)

\* The key a provider block names, if it names one.
KeyOf(r) == {r.key} \ {NoKey}

\* What a run holds in memory: it started from .env, and keeps what it loaded.
Carried ==
  ~At("idle") => /\ ~burnt => held \subseteq wizard.env
                 /\ wizard.environ \subseteq Shell \cup wizard.env

\* The block on its way to models.yaml is whole, and its key is typed or there.
Chosen ==
  wizard.at \in {"models", "text"} =>
    wizard.next # TornRoute /\ KeyOf(wizard.next) \subseteq wizard.env \cup Shell

\* A run that counts the provider as configured is right about it.
Configured ==
  wizard.ok => /\ wizard.at \notin {"idle", "provider", "models", "text"}
               /\ route # TornRoute /\ KeyOf(route) \subseteq wizard.env \cup Shell

\* What a run has said of itself, and when .env holds what the run does.
Said ==
  /\ ~At("idle") => verdict = "none"
  /\ ~At("idle") /\ report # "none" => At("verify")
  /\ At("verify") => env = wizard.env /\ (report = "ok" => wizard.ok)

\* Each of the three invariants is about the moment a run is over, and holds
\* there because of what the run had in hand before.
WizardInv ==
  /\ TypeOK /\ Carried /\ Chosen /\ Configured /\ Said
  /\ SecretsKept /\ OkMeansKeyed /\ PassMeansRunnable

-----------------------------------------------------------------------------
\* The runs there can be, as TypeOK says.
Wizards == [at : SetupStations, mode : Modes, env : SUBSET Keys, environ : SUBSET Keys,
            next : Routes \cup {TornRoute}, ok : BOOLEAN]

LEMMA KeysAreThere == PAT \in Keys /\ Bot \in Keys /\ Tavily \in Keys /\ CustomKeys \subseteq Keys
BY DEF Keys

LEMMA NoRunType == NoRun \in Wizards
BY DEF NoRun, Wizards, SetupStations, Modes

\* A provider that counts as usable is no torn block, and its key is there.
LEMMA UsableIsKeyed ==
  ASSUME NEW r \in Routes \cup {TornRoute}, NEW keys, Usable(r, keys)
  PROVE  r # TornRoute /\ KeyOf(r) \subseteq keys
<1>1. r.kind # "torn"
  BY DEF Usable, Routes, Copilot, Models, Ollama, OpenAI, TornRoute
<1>2. CASE r \in {Copilot, Ollama}
  BY <1>2 DEF KeyOf, Copilot, Ollama, TornRoute
<1>3. CASE r = Models \/ \E k \in CustomKeys \cup {NoKey} : r = OpenAI(k)
  <2>1. r.kind \in {"models", "openai"}
    BY <1>3 DEF Models, OpenAI
  <2>2. r.key = NoKey \/ r.key \in keys
    BY <2>1 DEF Usable
  <2> QED
    BY <1>1, <2>2 DEF KeyOf, TornRoute
<1> QED
  BY <1>1, <1>2, <1>3 DEF Routes, TornRoute

LEMMA WizardInit == SetupInit => WizardInv
<1> SUFFICES ASSUME SetupInit PROVE WizardInv
  OBVIOUS
<1>1. TypeOK
  <2>1. wizard \in Wizards
    BY NoRunType DEF SetupInit
  <2>2. env \subseteq Keys /\ held \subseteq Keys /\ route \in Routes \cup {TornRoute}
        /\ login \in BOOLEAN /\ burnt \in BOOLEAN
        /\ report \in {"none", "ok", "missing"} /\ verdict \in {"none", "pass", "fail"}
    BY DEF SetupInit
  <2>3. runs \in 0 .. MaxRuns /\ breaks \in 0 .. MaxBreaks
    BY SetupAssumption DEF SetupInit
  <2> QED
    BY <2>1, <2>2, <2>3 DEF TypeOK, Wizards
<1>2. Carried /\ Chosen /\ Configured /\ Said
  BY DEF SetupInit, NoRun, Carried, Chosen, Configured, Said, At
<1>3. SecretsKept /\ OkMeansKeyed /\ PassMeansRunnable
  BY DEF SetupInit, SecretsKept, OkMeansKeyed, PassMeansRunnable
<1> QED
  BY <1>1, <1>2, <1>3 DEF WizardInv

\* Of a step that leaves the files, the reports and the histories alone and
\* goes on to a station where the run says nothing, only the run has to be
\* checked: what it carries, what it chose, and whether it is configured.
LEMMA GoesOn ==
  ASSUME WizardInv, ~At("idle"), ~At("verify"), ~At("put"),
         wizard' \in Wizards,
         wizard'.at \in SetupSteps \cup {"models", "text", "pairing", "save"},
         wizard.env \subseteq wizard'.env, wizard'.environ = wizard.environ,
         UNCHANGED <<env, report, verdict, burnt, held, runs, breaks>>,
         login' \in BOOLEAN, route' \in Routes \cup {TornRoute},
         Chosen', Configured'
  PROVE  WizardInv'
<1>1. TypeOK'
  BY DEF WizardInv, TypeOK, Wizards
<1>2. Carried' /\ Said'
  BY DEF WizardInv, Carried, Said, At, SetupSteps
<1>3. (SecretsKept /\ OkMeansKeyed /\ PassMeansRunnable)'
  BY DEF WizardInv, SecretsKept, OkMeansKeyed, PassMeansRunnable, At, SetupSteps
<1> QED
  BY <1>1, <1>2, <1>3 DEF WizardInv

\* A run that stops before it writes .env leaves the truth of every report.
LEMMA WizardStops ==
  ASSUME WizardInv, ~At("idle"), ~At("verify"), ~At("put"), wizard' = NoRun,
         UNCHANGED <<env, route, login, report, verdict, burnt, held, runs, breaks>>
  PROVE  WizardInv'
<1>1. TypeOK'
  BY NoRunType DEF WizardInv, TypeOK, Wizards
<1>2. (Carried /\ Chosen /\ Configured /\ Said)'
  BY DEF Carried, Chosen, Configured, Said, At, NoRun
<1>3. (SecretsKept /\ OkMeansKeyed /\ PassMeansRunnable)'
  BY DEF WizardInv, SecretsKept, OkMeansKeyed, PassMeansRunnable, Said, At
<1> QED
  BY <1>1, <1>2, <1>3 DEF WizardInv

\* A step that may put a token into the run, and goes on.
LEMMA TokenSteps ==
  ASSUME WizardInv, NEW step \in {"telegram", "web-search"}, NEW key \in Keys,
         NEW after \in {"web-search", "pairing"}, TokenStep(step, key, after)
  PROVE  WizardInv'
<1>t. wizard \in Wizards
  BY DEF WizardInv, TypeOK, Wizards
<1>1. PICK typed \in SUBSET Keys :
        wizard' = [wizard EXCEPT !.at = after, !.env = wizard.env \cup typed]
  <2>1. CASE Goto(after)
    <3>1. wizard' = [wizard EXCEPT !.at = after, !.env = wizard.env \cup {}]
      BY <1>t, <2>1 DEF Goto, Wizards
    <3> QED
      BY <3>1
  <2>2. CASE wizard' = [wizard EXCEPT !.at = after, !.env = @ \cup {key}]
    BY <2>2
  <2> QED
    BY <2>1, <2>2 DEF TokenStep
<1>2. wizard.at = step /\ UNCHANGED <<env, route, report, login, verdict, burnt, held, runs, breaks>>
  BY DEF TokenStep, rest, At
<1>3. wizard' \in Wizards
  BY <1>t, <1>1 DEF Wizards, SetupStations, SetupSteps
<1>4. Configured' /\ Chosen'
  BY <1>1, <1>2, <1>t DEF WizardInv, Configured, Chosen, Wizards
<1> QED
  BY <1>1, <1>2, <1>3, <1>4, <1>t, GoesOn DEF WizardInv, TypeOK, At, SetupSteps, Wizards

LEMMA WizardStep == WizardInv /\ [SetupNext]_setupVars => WizardInv'
<1> SUFFICES ASSUME WizardInv, [SetupNext]_setupVars PROVE WizardInv'
  OBVIOUS
<1>t. wizard \in Wizards
  BY DEF WizardInv, TypeOK, Wizards
<1>1. CASE Start
  <2>1. PICK mode \in Modes :
          wizard' = [NoRun EXCEPT !.at = "provider", !.mode = mode, !.env = Load,
                                 !.environ = Shell \cup env]
    BY <1>1 DEF Start
  <2>2. wizard' \in Wizards
    BY <2>1, NoRunType, SetupAssumption DEF WizardInv, TypeOK, Wizards, NoRun, Load,
       SetupStations, SetupSteps
  <2>3. TypeOK'
    BY <1>1, <2>2, SetupAssumption DEF WizardInv, Start, TypeOK, Wizards
  <2>4. (Carried /\ Chosen /\ Configured /\ Said)'
    BY <1>1, <2>1 DEF WizardInv, Start, NoRun, Load, At, Carried, Chosen, Configured, Said, SecretsKept
  <2>5. (SecretsKept /\ OkMeansKeyed /\ PassMeansRunnable)'
    BY <1>1, <2>1 DEF WizardInv, Start, NoRun, At, SecretsKept, OkMeansKeyed, PassMeansRunnable
  <2> QED
    BY <2>3, <2>4, <2>5 DEF WizardInv
<1>2. CASE KeepProvider
  <2>1. wizard' = [wizard EXCEPT !.at = "telegram", !.ok = TRUE]
        /\ wizard.at = "provider" /\ Usable(route, wizard.env \cup wizard.environ)
        /\ UNCHANGED <<env, route, report, login, verdict, burnt, held, runs, breaks>>
    BY <1>2 DEF KeepProvider, rest, At
  <2>2. wizard' \in Wizards
    BY <1>t, <2>1 DEF Wizards, SetupStations, SetupSteps
  <2>3. route # TornRoute /\ KeyOf(route) \subseteq wizard.env \cup wizard.environ
    BY <2>1, UsableIsKeyed DEF WizardInv, TypeOK
  <2>4. Configured' /\ Chosen'
    BY <2>1, <2>3, <1>t DEF WizardInv, Carried, At, Configured, Chosen, Wizards
  <2> QED
    BY <2>1, <2>2, <2>4, <1>t, GoesOn DEF WizardInv, TypeOK, At, SetupSteps, Wizards
<1>3. CASE NoProvider
  <2>1. wizard' = [wizard EXCEPT !.at = "telegram"] /\ wizard.at = "provider"
        /\ UNCHANGED <<env, route, report, login, verdict, burnt, held, runs, breaks>>
    BY <1>3 DEF NoProvider, AskProvider, Goto, rest, At
  <2>2. wizard' \in Wizards
    BY <1>t, <2>1 DEF Wizards, SetupStations, SetupSteps
  <2>3. Configured' /\ Chosen'
    BY <2>1, <1>t DEF WizardInv, Configured, Chosen, Wizards
  <2> QED
    BY <2>1, <2>2, <2>3, <1>t, GoesOn DEF WizardInv, TypeOK, At, SetupSteps, Wizards
<1>4. CASE RouteA
  <2>1. wizard' = [wizard EXCEPT !.at = "models", !.next = Copilot, !.env = wizard.env \cup {}]
        /\ wizard.at = "provider" /\ login' = TRUE
        /\ UNCHANGED <<env, route, report, verdict, burnt, held, runs, breaks>>
    BY <1>4 DEF RouteA, AskProvider, Writes, At
  <2>2. wizard' \in Wizards
    BY <1>t, <2>1 DEF Wizards, SetupStations, SetupSteps, Routes
  <2>3. Configured' /\ Chosen'
    BY <2>1, <1>t DEF WizardInv, Configured, Chosen, Wizards, KeyOf, Copilot, TornRoute
  <2> QED
    BY <2>1, <2>2, <2>3, <1>t, GoesOn DEF WizardInv, TypeOK, At, SetupSteps, Wizards
<1>5. CASE RouteB
  <2>1. wizard' = [wizard EXCEPT !.at = "models", !.next = Models, !.env = wizard.env \cup {PAT}]
        /\ wizard.at = "provider"
        /\ UNCHANGED <<env, route, report, login, verdict, burnt, held, runs, breaks>>
    BY <1>5 DEF RouteB, AskProvider, Writes, rest, At
  <2>2. wizard' \in Wizards
    BY <1>t, <2>1, KeysAreThere DEF Wizards, SetupStations, SetupSteps, Routes
  <2>3. Configured' /\ Chosen'
    BY <2>1, <1>t DEF WizardInv, Configured, Chosen, Wizards, KeyOf, Models, TornRoute
  <2> QED
    BY <2>1, <2>2, <2>3, <1>t, GoesOn DEF WizardInv, TypeOK, At, SetupSteps, Wizards
<1>6. CASE RouteC
  <2> DEFINE Choice(r, typed) ==
        /\ wizard' = [wizard EXCEPT !.at = "models", !.next = r, !.env = wizard.env \cup typed]
        /\ r # TornRoute /\ KeyOf(r) \subseteq wizard.env \cup typed
  <2>1. PICK r \in Routes, typed \in SUBSET Keys : Choice(r, typed)
    <3>1. CASE Writes(Ollama, {})
      <4>1. Ollama \in Routes /\ Ollama # TornRoute /\ KeyOf(Ollama) \subseteq wizard.env \cup {}
        BY DEF Routes, KeyOf, Ollama, TornRoute
      <4>2. Choice(Ollama, {})
        BY <3>1, <4>1 DEF Writes
      <4> HIDE DEF Choice
      <4> QED
        BY <4>1, <4>2
    <3>2. CASE \E k \in CustomKeys : \E typed \in {{}, {k}} :
                 Writes(OpenAI(KeyName(k, wizard.env \cup typed)), typed)
      <4>0. PICK k \in CustomKeys : \E typed \in {{}, {k}} :
              Writes(OpenAI(KeyName(k, wizard.env \cup typed)), typed)
        BY <3>2
      <4>1. PICK typed \in {{}, {k}} : Writes(OpenAI(KeyName(k, wizard.env \cup typed)), typed)
        BY <4>0
      <4>2. PICK name \in CustomKeys \cup {NoKey} :
              name = KeyName(k, wizard.env \cup typed)
              /\ {name} \ {NoKey} \subseteq wizard.env \cup typed
        BY DEF KeyName
      <4>3. OpenAI(name) \in Routes /\ OpenAI(name) # TornRoute
            /\ KeyOf(OpenAI(name)) \subseteq wizard.env \cup typed
        BY <4>2 DEF Routes, KeyOf, OpenAI, TornRoute
      <4>4. typed \in SUBSET Keys
        BY KeysAreThere
      <4>5. Choice(OpenAI(name), typed)
        BY <4>1, <4>2, <4>3 DEF Writes
      <4> QED
        BY <4>3, <4>4, <4>5
    <3> QED
      BY <1>6, <3>1, <3>2 DEF RouteC
  <2>2. wizard.at = "provider"
        /\ UNCHANGED <<env, route, report, login, verdict, burnt, held, runs, breaks>>
    BY <1>6 DEF RouteC, AskProvider, rest, At
  <2>3. wizard' \in Wizards
    BY <1>t, <2>1 DEF Wizards, SetupStations, SetupSteps
  <2>4. Configured' /\ Chosen'
    BY <2>1, <2>2, <1>t DEF WizardInv, Configured, Chosen, Wizards
  <2> QED
    BY <2>1, <2>2, <2>3, <2>4, <1>t, GoesOn DEF WizardInv, TypeOK, At, SetupSteps, Wizards
<1>7. CASE Rewrite
  <2>1. wizard.at = "models"
        /\ UNCHANGED <<env, report, login, verdict, burnt, held, runs, breaks>>
    BY <1>7 DEF Rewrite, rest, At
  <2>2. CASE route = TornRoute /\ wizard' = NoRun /\ UNCHANGED route
    BY <2>1, <2>2, WizardStops DEF At
  <2>3. CASE route = wizard.next /\ UNCHANGED route
             /\ wizard' = [wizard EXCEPT !.at = "telegram", !.ok = TRUE]
    <3>1. wizard' \in Wizards
      BY <1>t, <2>3 DEF Wizards, SetupStations, SetupSteps
    <3>2. Configured' /\ Chosen'
      BY <2>1, <2>3, <1>t DEF WizardInv, Configured, Chosen, Wizards
    <3> QED
      BY <2>1, <2>3, <3>1, <3>2, <1>t, GoesOn DEF WizardInv, TypeOK, At, SetupSteps, Wizards
  <2>4. CASE route # TornRoute /\ wizard' = [wizard EXCEPT !.at = "text"] /\ route' = TornRoute
    <3>1. wizard' \in Wizards
      BY <1>t, <2>4 DEF Wizards, SetupStations
    <3>2. Configured' /\ Chosen'
      BY <2>1, <2>4, <1>t DEF WizardInv, Configured, Chosen, Wizards
    <3> QED
      BY <2>1, <2>4, <3>1, <3>2, <1>t, GoesOn DEF WizardInv, TypeOK, At, SetupSteps, Wizards
  <2> QED
    BY <1>7, <2>2, <2>3, <2>4 DEF Rewrite, Goto
<1>8. CASE RewriteText
  <2>1. wizard.at = "text" /\ route' = wizard.next
        /\ wizard' = [wizard EXCEPT !.at = "telegram", !.ok = TRUE]
        /\ UNCHANGED <<env, report, login, verdict, burnt, held, runs, breaks>>
    BY <1>8 DEF RewriteText, rest, At
  <2>2. wizard' \in Wizards
    BY <1>t, <2>1 DEF Wizards, SetupStations, SetupSteps
  <2>3. Configured' /\ Chosen'
    BY <2>1, <1>t DEF WizardInv, Configured, Chosen, Wizards
  <2> QED
    BY <2>1, <2>2, <2>3, <1>t, GoesOn DEF WizardInv, TypeOK, At, SetupSteps, Wizards
<1>9. CASE Telegram
  BY <1>9, TokenSteps, KeysAreThere DEF Telegram, SetupSteps
<1>10. CASE WebSearch
  BY <1>10, TokenSteps, KeysAreThere DEF WebSearch, SetupSteps
<1>11. CASE PairingStep
  <2>1. wizard' = [wizard EXCEPT !.at = "save"] /\ wizard.at = "pairing"
        /\ UNCHANGED <<env, route, report, login, verdict, burnt, held, runs, breaks>>
    BY <1>11 DEF PairingStep, Goto, rest, At
  <2>2. wizard' \in Wizards
    BY <1>t, <2>1 DEF Wizards, SetupStations
  <2>3. Configured' /\ Chosen'
    BY <2>1, <1>t DEF WizardInv, Configured, Chosen, Wizards
  <2> QED
    BY <2>1, <2>2, <2>3, <1>t, GoesOn DEF WizardInv, TypeOK, At, SetupSteps, Wizards
<1>12. CASE SaveEnv
  <2>1. wizard' = [wizard EXCEPT !.at = "put"] /\ wizard.at = "save" /\ env' = {}
        /\ UNCHANGED <<route, report, login, verdict, burnt, held, runs, breaks>>
    BY <1>12 DEF SaveEnv, Goto, rest, At
  <2>2. TypeOK'
    BY <1>t, <2>1 DEF WizardInv, TypeOK, Wizards, SetupStations
  <2>3. (Carried /\ Chosen /\ Configured /\ Said)'
    BY <1>t, <2>1 DEF WizardInv, Carried, Chosen, Configured, Said, At, Wizards
  <2>4. (SecretsKept /\ OkMeansKeyed /\ PassMeansRunnable)'
    BY <1>t, <2>1 DEF SecretsKept, OkMeansKeyed, PassMeansRunnable, At, Wizards
  <2> QED
    BY <2>2, <2>3, <2>4 DEF WizardInv
<1>13. CASE PutEnv
  <2>1. wizard' = [wizard EXCEPT !.at = "verify"] /\ wizard.at = "put"
        /\ env' = wizard.env /\ held' = held \cup wizard.env
        /\ report' = (IF wizard.ok THEN "ok" ELSE "missing")
        /\ UNCHANGED <<route, login, verdict, burnt, runs, breaks>>
    BY <1>13 DEF PutEnv, Goto, At
  <2>2. TypeOK'
    BY <1>t, <2>1 DEF WizardInv, TypeOK, Wizards, SetupStations
  <2>3. (Carried /\ Chosen /\ Configured /\ Said)'
    BY <1>t, <2>1 DEF WizardInv, Carried, Chosen, Configured, Said, At, Wizards
  <2>4. (SecretsKept /\ OkMeansKeyed /\ PassMeansRunnable)'
    BY <1>t, <2>1 DEF WizardInv, Carried, SecretsKept, OkMeansKeyed, PassMeansRunnable, At, Wizards
  <2> QED
    BY <2>2, <2>3, <2>4 DEF WizardInv
<1>14. CASE Verify
  <2>1. wizard' = NoRun /\ wizard.at = "verify"
        /\ verdict' \in {"pass", "fail"}
        /\ (verdict' = "pass" => route # TornRoute /\ Required \subseteq wizard.environ \cup env)
        /\ UNCHANGED <<env, route, login, report, burnt, held, runs, breaks>>
    BY <1>14 DEF Verify, At
  <2>2. TypeOK'
    BY <2>1, NoRunType DEF WizardInv, TypeOK, Wizards
  <2>3. (Carried /\ Chosen /\ Configured /\ Said)'
    BY <2>1 DEF Carried, Chosen, Configured, Said, At, NoRun
  <2>4. (SecretsKept /\ OkMeansKeyed)'
    BY <2>1 DEF WizardInv, SecretsKept, OkMeansKeyed, Said, Configured, Named, KeyOf, At
  <2>5. PassMeansRunnable'
    BY <2>1 DEF WizardInv, Said, Carried, At, PassMeansRunnable, Required, Named
  <2> QED
    BY <2>2, <2>3, <2>4, <2>5 DEF WizardInv
<1>15. CASE Interrupt
  BY <1>15, WizardStops DEF Interrupt, SetupSteps, rest, At
<1>16. CASE Kill
  <2>1. wizard' = NoRun /\ wizard.at # "idle" /\ breaks < MaxBreaks /\ breaks' = breaks + 1
        /\ burnt' = (burnt \/ wizard.at = "put")
        /\ UNCHANGED <<env, route, login, report, verdict, held, runs>>
    BY <1>16 DEF Kill, At
  <2>2. TypeOK'
    BY <2>1, NoRunType, SetupAssumption DEF WizardInv, TypeOK, Wizards
  <2>3. (Carried /\ Chosen /\ Configured /\ Said)'
    BY <2>1 DEF Carried, Chosen, Configured, Said, At, NoRun
  <2>4. (SecretsKept /\ OkMeansKeyed /\ PassMeansRunnable)'
    BY <2>1 DEF WizardInv, SecretsKept, OkMeansKeyed, PassMeansRunnable, Said, Configured, Named,
       KeyOf, At
  <2> QED
    BY <2>2, <2>3, <2>4 DEF WizardInv
<1>17. CASE LosesLogin
  <2>1. breaks < MaxBreaks /\ breaks' = breaks + 1 /\ login' = FALSE
        /\ UNCHANGED <<env, route, wizard, report, verdict, burnt, held, runs>>
    BY <1>17 DEF LosesLogin
  <2>2. TypeOK'
    <3>1. breaks' \in 0 .. MaxBreaks
      BY <2>1, SetupAssumption DEF WizardInv, TypeOK
    <3>2. wizard' \in Wizards
      BY <1>t, <2>1
    <3> QED
      BY <2>1, <3>1, <3>2 DEF WizardInv, TypeOK, Wizards
  <2>3. (Carried /\ Chosen /\ Configured /\ Said)'
    BY <2>1 DEF WizardInv, Carried, Chosen, Configured, Said, At
  <2>4. (SecretsKept /\ OkMeansKeyed /\ PassMeansRunnable)'
    BY <2>1 DEF WizardInv, SecretsKept, OkMeansKeyed, PassMeansRunnable, At, Named
  <2> QED
    BY <2>2, <2>3, <2>4 DEF WizardInv
<1>18. CASE UNCHANGED setupVars
  BY <1>18 DEF setupVars, WizardInv, TypeOK, Carried, Chosen, Configured, Said, SecretsKept,
     OkMeansKeyed, PassMeansRunnable, Named, At
<1> QED
  BY <1>1, <1>2, <1>3, <1>4, <1>5, <1>6, <1>7, <1>8, <1>9, <1>10, <1>11, <1>12, <1>13, <1>14,
     <1>15, <1>16, <1>17, <1>18 DEF SetupNext

-----------------------------------------------------------------------------
\* Whatever names the custom keys have and whatever the shell has set, .env
\* keeps every key it has held, unless a kill has hit its rewriting.
THEOREM NoKeyLost == SetupSpec => []SecretsKept
<1>1. WizardInv => SecretsKept
  BY DEF WizardInv
<1> QED
  BY WizardInit, WizardStep, <1>1, PTL DEF SetupSpec

\* What a finished run says of the provider is true of the two files it has
\* written, whatever was interrupted before.
THEOREM ReportsAreTrue == SetupSpec => []OkMeansKeyed
<1>1. WizardInv => OkMeansKeyed
  BY DEF WizardInv
<1> QED
  BY WizardInit, WizardStep, <1>1, PTL DEF SetupSpec

\* And a dry run passes only what can run: every role has the key its provider
\* block names.
THEOREM PassesAreTrue == SetupSpec => []PassMeansRunnable
<1>1. WizardInv => PassMeansRunnable
  BY DEF WizardInv
<1> QED
  BY WizardInit, WizardStep, <1>1, PTL DEF SetupSpec
=============================================================================
