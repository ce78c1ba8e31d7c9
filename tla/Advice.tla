------------------------------- MODULE Advice -------------------------------
(***************************************************************************)
(* A validated, audited call of the model: advisor/wrapper.py over         *)
(* advisor/providers.py, and the credentials every request of the Copilot  *)
(* providers needs: the file data/.auth/github.json of advisor/auth.py,    *)
(* which all processes read and rewrite without a lock, and which          *)
(* cli/login.py fills and removes.  A write opens the file, which empties  *)
(* it, and then puts the text in.                                          *)
(***************************************************************************)
EXTENDS Naturals, FiniteSets

CONSTANTS Procs,      \* processes that call the model
          Login,      \* the process of cli/login.py
          Accounts,   \* GitHub accounts
          NoAccount,
          EnvAccount, \* the account of GH_TOKEN or GITHUB_TOKEN, if one is set
          MaxLogins,  \* bound: logins and logouts
          MaxLapses,  \* bound: expiries of a Copilot token
          MaxKills    \* bound: kills

ASSUME AdviceAssumption ==
  /\ Login \notin Procs /\ NoAccount \notin Accounts
  /\ EnvAccount \in Accounts \cup {NoAccount}
  /\ MaxLogins \in Nat /\ MaxLapses \in Nat /\ MaxKills \in Nat

VARIABLES file,   \* the cache file
          pen,    \* what each process is writing to it
          call,   \* the call each process is making
          prompt, \* what the login is at: "none", the approval, an account to
                  \* save, or the check of what it saved
          logins, lapses, kills

creds  == <<file, pen>>
bounds == <<logins, lapses, kills>>
advice == <<creds, call, prompt, bounds>>

Writers == Procs \cup {Login}

\* oauth is the account that is logged in, bearer the account of the exchanged
\* token, fresh whether that is not about to expire.
Creds == [oauth : Accounts \cup {NoAccount}, bearer : Accounts \cup {NoAccount}, fresh : BOOLEAN]
NoCreds == [oauth |-> NoAccount, bearer |-> NoAccount, fresh |-> FALSE]

Files == [state : {"absent", "torn", "whole"}, text : Creds]
Absent == [state |-> "absent", text |-> NoCreds]
Torn   == [state |-> "torn", text |-> NoCreds]
Whole(text) == [state |-> "whole", text |-> text]

\* under tells what has become of an opened file: nothing, another has put its
\* text in, or its name was removed.
NoPen == [at |-> "none", text |-> NoCreds, under |-> "mine"]

NoCall == [at |-> "none", fallback |-> FALSE, replies |-> 0, status |-> "none",
           rows |-> 0, text |-> NoCreds]

CallStations == {"none", "headers", "exchange", "post", "settle", "record", "value",
                 "escalated", "raised"}

AdviceTypeOK ==
  /\ file \in Files
  /\ pen \in [Writers -> [at : {"none", "open", "put"}, text : Creds,
                          under : {"mine", "other", "gone"}]]
  /\ call \in [Writers -> [at : CallStations, fallback : BOOLEAN, replies : 0 .. 2,
                         status : {"none", "valid", "repaired", "invalid", "fallback", "failed"},
                         rows : 0 .. 1, text : Creds]]
  /\ prompt \in {"none", "approval", "check"} \cup Accounts
  /\ logins \in 0 .. MaxLogins /\ lapses \in 0 .. MaxLapses /\ kills \in 0 .. MaxKills

AdviceInit ==
  /\ file \in {Absent} \cup {Whole(text) : text \in
       {c \in Creds : /\ c.oauth # NoAccount /\ c.bearer \in {NoAccount, c.oauth}
                      /\ c.bearer = NoAccount => ~c.fresh}}
  /\ pen = [w \in Writers |-> NoPen]
  /\ call = [w \in Writers |-> NoCall]
  /\ prompt = "none"
  /\ logins \in 0 .. MaxLogins /\ lapses \in 0 .. MaxLapses /\ kills \in 0 .. MaxKills

---------------------------------------------------------------------------
\* The cache file: _read_cache and _write_cache.

Legible == file.state # "torn"

Open(w) ==
  /\ pen[w].at = "open"
  /\ file' = Torn
  /\ pen' = [pen EXCEPT ![w].at = "put", ![w].under = "mine"]
  /\ UNCHANGED <<call, prompt, bounds>>

\* The text goes to the start of the opened file: over the text of another it
\* may leave the end of that one behind, and a removed file stays removed.
Put(w) ==
  /\ pen[w].at = "put"
  /\ file' \in CASE pen[w].under = "mine"  -> {Whole(pen[w].text)}
                 [] pen[w].under = "other" -> {Whole(pen[w].text), Torn}
                 [] pen[w].under = "gone"  -> {file}
  /\ pen' = [v \in Writers |->
               IF v = w THEN NoPen
               ELSE IF pen[v].at = "put" /\ pen[v].under = "mine" /\ pen[w].under # "gone"
                    THEN [pen[v] EXCEPT !.under = "other"] ELSE pen[v]]
  /\ UNCHANGED <<call, prompt, bounds>>

Pen(text) == [at |-> "open", text |-> text, under |-> "mine"]

---------------------------------------------------------------------------
\* The call: Advisor._run over AIProvider.complete.

CallOver(p) == call[p].at \in {"value", "escalated", "raised"}

Begin(p, fallback) ==
  call' = [call EXCEPT ![p] = [NoCall EXCEPT !.at = "headers", !.fallback = fallback]]

Raise(p) == call' = [call EXCEPT ![p].at = "raised"]

\* get_bearer takes a token from the cache, or exchanges the login for one.
LoginIn(text) == IF text.oauth = NoAccount THEN EnvAccount ELSE text.oauth

Bearer(w) ==
  /\ call[w].at = "headers" /\ pen[w] = NoPen
  /\ IF ~Legible \/ LoginIn(file.text) = NoAccount
     THEN Raise(w)
     ELSE call' = [call EXCEPT ![w].text = file.text,
                               ![w].at = IF file.text.bearer # NoAccount /\ file.text.fresh
                                         THEN "post" ELSE "exchange"]
  /\ UNCHANGED <<creds, prompt, bounds>>

\* The exchange is refused, fails, or yields a token, which is written back
\* together with the login that was read.
Exchanged(text) == [oauth |-> LoginIn(text), bearer |-> LoginIn(text), fresh |-> TRUE]

Exchange(w) ==
  /\ call[w].at = "exchange"
  /\ \/ Raise(w) /\ UNCHANGED pen
     \/ /\ pen' = [pen EXCEPT ![w] = Pen(Exchanged(call[w].text))]
        /\ call' = [call EXCEPT ![w].at = "post"]
  /\ UNCHANGED <<file, prompt, bounds>>

\* One request: an error, or a reply that meets the schema of the template or
\* does not.
Post(p) ==
  /\ call[p].at = "post" /\ pen[p] = NoPen
  /\ \/ Raise(p)
     \/ \E ok \in BOOLEAN :
          call' = [call EXCEPT ![p].replies = @ + 1,
                               ![p].status = IF ~ok THEN "invalid"
                                             ELSE IF @ = "none" THEN "valid" ELSE "repaired",
                               ![p].at = "settle"]
  /\ UNCHANGED <<creds, prompt, bounds>>

\* A reply that fails both times is raised at once.
SettleAtOnce(p) ==
  /\ call[p].at = "settle"
  /\ call' = [call EXCEPT
       ![p].at = IF call[p].status # "invalid" THEN "record"
                 ELSE IF call[p].replies < 2 THEN "headers"
                 ELSE IF call[p].fallback THEN "record" ELSE "escalated",
       ![p].status = IF @ # "invalid" \/ call[p].replies < 2 THEN @
                     ELSE IF call[p].fallback THEN "fallback" ELSE "failed"]
  /\ UNCHANGED <<creds, prompt, bounds>>

\* After an invalid reply there is one repair; after a second one the fallback
\* of the template, if it has one.
Settle(p) ==
  /\ call[p].at = "settle"
  /\ call' = [call EXCEPT
       ![p].at = IF call[p].status = "invalid" /\ call[p].replies < 2 THEN "headers" ELSE "record",
       ![p].status = IF @ # "invalid" \/ call[p].replies < 2 THEN @
                     ELSE IF call[p].fallback THEN "fallback" ELSE "failed"]
  /\ UNCHANGED <<creds, prompt, bounds>>

\* The row in ai_calls, then the value or AdvisorValidationError.
Record(p) ==
  /\ call[p].at = "record"
  /\ call' = [call EXCEPT ![p].rows = @ + 1,
                          ![p].at = IF call[p].status = "failed" THEN "escalated" ELSE "value"]
  /\ UNCHANGED <<creds, prompt, bounds>>

CallStep(p) == \/ Bearer(p) \/ Exchange(p) \/ Post(p) \/ Settle(p) \/ Record(p)
               \/ Open(p) \/ Put(p)

---------------------------------------------------------------------------
\* cli/login.py

StartLogin ==
  /\ prompt = "none" /\ logins < MaxLogins
  /\ prompt' = IF EnvAccount = NoAccount THEN "approval" ELSE EnvAccount
  /\ logins' = logins + 1
  /\ UNCHANGED <<creds, call, lapses, kills>>

\* poll_for_oauth_token: while it is pending nothing changes; it is denied, it
\* expires, or an account has approved.
Poll ==
  /\ prompt = "approval"
  /\ prompt' \in {"none"} \cup Accounts
  /\ UNCHANGED <<creds, call, bounds>>

\* save_oauth_token drops the token that was exchanged for another login; it
\* reads the file first, and raises when that is not legible.
SavedOver(text, a) == [text EXCEPT !.oauth = a]
Saved(text, a) == [NoCreds EXCEPT !.oauth = a]

Save ==
  /\ prompt \in Accounts
  /\ IF Legible
     THEN /\ pen' = [pen EXCEPT ![Login] = Pen(Saved(file.text, prompt))]
          /\ Begin(Login, FALSE)
          /\ prompt' = "check"
     ELSE prompt' = "none" /\ UNCHANGED <<pen, call>>
  /\ UNCHANGED <<file, bounds>>

\* run_login then asks for a token, and ends whether it got one or not.
Checked ==
  /\ prompt = "check" /\ call[Login].at \in {"post", "raised"} /\ pen[Login] = NoPen
  /\ prompt' = "none"
  /\ call' = [call EXCEPT ![Login] = NoCall]
  /\ UNCHANGED <<creds, bounds>>

Logout ==
  /\ prompt = "none" /\ logins < MaxLogins
  /\ file' = Absent
  /\ pen' = [w \in Writers |-> IF pen[w].at = "put" THEN [pen[w] EXCEPT !.under = "gone"]
                               ELSE pen[w]]
  /\ logins' = logins + 1
  /\ UNCHANGED <<call, prompt, lapses, kills>>

LoginStep == Poll \/ Save \/ Bearer(Login) \/ Exchange(Login) \/ Checked
             \/ Open(Login) \/ Put(Login)

Lapse ==
  /\ file.state = "whole" /\ file.text.fresh /\ lapses < MaxLapses
  /\ file' = [file EXCEPT !.text.fresh = FALSE]
  /\ lapses' = lapses + 1
  /\ UNCHANGED <<pen, call, prompt, logins, kills>>

\* A kill leaves the file as it is, also between the opening and the text.
Killed(w) ==
  /\ kills < MaxKills
  /\ kills' = kills + 1
  /\ pen' = [pen EXCEPT ![w] = NoPen]
  /\ call' = [call EXCEPT ![w] = NoCall]
  /\ UNCHANGED <<file, logins, lapses>>

LoginDies == prompt # "none" /\ Killed(Login) /\ prompt' = "none"

AdviceStep == \/ \E p \in Procs : CallStep(p)
              \/ StartLogin \/ LoginStep \/ Logout \/ Lapse \/ LoginDies

---------------------------------------------------------------------------
\* However logins, logouts, exchanges and kills fall together, the file never
\* pairs the login of one account with the token of another.
NoMixedAccounts ==
  file.state = "whole" => file.text.bearer \in {NoAccount, file.text.oauth}

\* A call that ends other than by an exception of the provider has exactly one
\* row in ai_calls, with the status it deserves ("Every advisor method follows
\* the same pipeline": validate, one repair, fallback or escalate, audit).
AuditTruthful ==
  \A p \in Procs : LET c == call[p] IN
    /\ c.at = "value" =>
         c.rows = 1 /\ \/ c.status = "valid" /\ c.replies = 1
                       \/ c.status = "repaired" /\ c.replies = 2
                       \/ c.status = "fallback" /\ c.replies = 2 /\ c.fallback
    /\ c.at = "escalated" => c.rows = 1 /\ c.status = "failed" /\ ~c.fallback
    /\ c.at = "raised" => c.rows = 0
=============================================================================
