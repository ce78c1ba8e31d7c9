------------------------------- MODULE Setup -------------------------------
(***************************************************************************)
(* The setup wizard of cli/setup.py: its steps (setup/steps.py) detect what *)
(* is configured, ask for the rest, and write it to two files that have to *)
(* agree (setup/config_writer.py).  config/models.yaml names the provider   *)
(* of a role and the key it needs, and is rewritten in the first step; .env *)
(* holds the keys, is read at the start and rewritten at the end.  Then the *)
(* dry run of cli/verify.py.  An operator may interrupt at every prompt, a  *)
(* kill comes anywhere, and a login may be undone in another shell.         *)
(***************************************************************************)
EXTENDS Naturals

CONSTANTS CustomKeys, \* names api_key_env_for derives for other endpoints
          Shell,      \* the keys that the operator's shell has set
          MaxRuns,    \* bound: runs of the wizard
          MaxBreaks   \* bound: kills and logouts

PAT == "GITHUB_MODELS_TOKEN"
Bot == "TELEGRAM_BOT_TOKEN"
Tavily == "TAVILY_API_KEY"
Keys == {PAT, Bot, Tavily} \cup CustomKeys
NoKey == "none"

ASSUME SetupAssumption ==
  /\ {PAT, Bot, Tavily, NoKey} \cap CustomKeys = {} /\ Shell \subseteq Keys
  /\ MaxRuns \in Nat /\ MaxBreaks \in Nat

VARIABLES env,     \* the keys in .env
          route,   \* the provider of fast and quality in models.yaml
          login,   \* whether the Copilot login is cached
          wizard,  \* the run of the wizard
          report,  \* what the last run said of the provider: "none", "ok", "missing"
          verdict, \* and what its dry run said: "none", "pass", "fail"
          burnt,   \* whether a kill has left .env truncated
          held,    \* the keys .env has held
          runs, breaks

setupVars == <<env, route, login, wizard, report, verdict, burnt, held, runs, breaks>>
rest == <<login, verdict, burnt, held, runs, breaks>>

\* A provider block: its kind and its api_key_env.
Copilot == [kind |-> "copilot", key |-> NoKey]
Models == [kind |-> "models", key |-> PAT]
Ollama == [kind |-> "ollama", key |-> NoKey]
OpenAI(key) == [kind |-> "openai", key |-> key]
TornRoute == [kind |-> "torn", key |-> NoKey]
Routes == {Copilot, Models, Ollama} \cup {OpenAI(k) : k \in CustomKeys \cup {NoKey}}

\* The other providers of models.yaml, which the wizard leaves as they are: the
\* coder is a Copilot, the embedder needs the PAT.
OtherKeys == {PAT}

Modes == {"none", "all", "provider", "telegram", "web-search"}
SetupSteps == {"provider", "telegram", "web-search"}
SetupStations == {"idle", "models", "text"} \cup SetupSteps \cup {"pairing", "save", "put", "verify"}

\* env is the EnvFile in memory, environ the environment of the process, next
\* the route that is being written.
NoRun == [at |-> "idle", mode |-> "none", env |-> {}, environ |-> {}, next |-> TornRoute, ok |-> FALSE]

TypeOK ==
  /\ env \subseteq Keys /\ held \subseteq Keys
  /\ route \in Routes \cup {TornRoute} /\ login \in BOOLEAN /\ burnt \in BOOLEAN
  /\ wizard \in [at : SetupStations, mode : Modes, env : SUBSET Keys, environ : SUBSET Keys,
                 next : Routes \cup {TornRoute}, ok : BOOLEAN]
  /\ report \in {"none", "ok", "missing"} /\ verdict \in {"none", "pass", "fail"}
  /\ runs \in 0 .. MaxRuns /\ breaks \in 0 .. MaxBreaks

SetupInit ==
  /\ env \in SUBSET Keys /\ held = env
  /\ route \in Routes /\ login \in BOOLEAN
  /\ wizard = NoRun
  /\ report = "none" /\ verdict = "none" /\ burnt = FALSE
  /\ runs = 0 /\ breaks = 0

---------------------------------------------------------------------------
At(station) == wizard.at = station
Goto(station) == wizard' = [wizard EXCEPT !.at = station]
Reasked(step) == wizard.mode \in {"all", step}

\* _provider_usable, of the keys and the environment it is shown.
Usable(r, keys) ==
  CASE r.kind = "copilot" -> login
    [] r.kind \in {"models", "openai"} -> r.key = NoKey \/ r.key \in keys
    [] r.kind = "ollama" -> TRUE
    [] r.kind = "torn" -> FALSE

\* EnvFile.load
LoadNothing == {}
Load == env

Start ==
  /\ At("idle") /\ runs < MaxRuns
  /\ runs' = runs + 1
  /\ \E mode \in Modes :
       wizard' = [NoRun EXCEPT !.at = "provider", !.mode = mode, !.env = Load,
                              !.environ = Shell \cup env]
  /\ report' = "none" /\ verdict' = "none"
  /\ UNCHANGED <<env, route, login, burnt, held, breaks>>

---------------------------------------------------------------------------
\* provider_step

KeepProvider ==
  /\ At("provider") /\ ~Reasked("provider")
  /\ Usable(route, wizard.env \cup wizard.environ)
  /\ wizard' = [wizard EXCEPT !.at = "telegram", !.ok = TRUE]
  /\ UNCHANGED <<env, route, report, rest>>

AskProvider == At("provider") /\ (Reasked("provider") \/ ~Usable(route, wizard.env \cup wizard.environ))

\* No login, no PAT, no base URL or no model.
NoProvider ==
  /\ AskProvider
  /\ Goto("telegram")
  /\ UNCHANGED <<env, route, report, rest>>

Writes(r, keys) == wizard' = [wizard EXCEPT !.at = "models", !.next = r, !.env = @ \cup keys]

RouteA ==
  /\ AskProvider
  /\ login' = TRUE /\ Writes(Copilot, {})
  /\ UNCHANGED <<env, route, report, verdict, burnt, held, runs, breaks>>

RouteB ==
  /\ AskProvider
  /\ Writes(Models, {PAT})
  /\ UNCHANGED <<env, route, report, rest>>

\* The name of the key goes to models.yaml if a key was typed or is there.
KeyNameAlways(k, keys) == k
KeyName(k, keys) == IF k \in keys THEN k ELSE NoKey

RouteC ==
  /\ AskProvider
  /\ \/ Writes(Ollama, {})
     \/ \E k \in CustomKeys : \E typed \in {{}, {k}} :
          Writes(OpenAI(KeyName(k, wizard.env \cup typed)), typed)
  /\ UNCHANGED <<env, route, report, rest>>

\* set_provider_route and set_custom_provider: they raise without their blocks,
\* leave a file that is right, models and all, and truncate one they rewrite.
Rewrite ==
  /\ At("models")
  /\ \/ route = TornRoute /\ wizard' = NoRun /\ UNCHANGED route
     \/ /\ route = wizard.next /\ UNCHANGED route
        /\ wizard' = [wizard EXCEPT !.at = "telegram", !.ok = TRUE]
     \/ route # TornRoute /\ Goto("text") /\ route' = TornRoute
  /\ UNCHANGED <<env, report, rest>>

RewriteText ==
  /\ At("text")
  /\ route' = wizard.next
  /\ wizard' = [wizard EXCEPT !.at = "telegram", !.ok = TRUE]
  /\ UNCHANGED <<env, report, rest>>

---------------------------------------------------------------------------
\* telegram_step, web_search_step, pairing_step

\* A token that is there is kept unless it is re-asked; one may be typed, also
\* one that getMe refuses, or none.
TokenStep(step, key, after) ==
  /\ At(step)
  /\ \/ Goto(after)
     \/ /\ Reasked(step) \/ key \notin wizard.env
        /\ wizard' = [wizard EXCEPT !.at = after, !.env = @ \cup {key}]
  /\ UNCHANGED <<env, route, report, rest>>

Telegram == TokenStep("telegram", Bot, "web-search")
WebSearch == TokenStep("web-search", Tavily, "pairing")

\* The owner row; see Pairing.
PairingStep ==
  /\ At("pairing") /\ Goto("save")
  /\ UNCHANGED <<env, route, report, rest>>

---------------------------------------------------------------------------
\* EnvFile.save, the summary and the dry run.

SaveEnv ==
  /\ At("save")
  /\ env' = {} /\ Goto("put")
  /\ UNCHANGED <<route, report, rest>>

PutEnv ==
  /\ At("put")
  /\ env' = wizard.env /\ held' = held \cup wizard.env
  /\ report' = IF wizard.ok THEN "ok" ELSE "missing"
  /\ Goto("verify")
  /\ UNCHANGED <<route, login, verdict, burnt, runs, breaks>>

\* _check_config: the keys of all providers a role refers to, and the login; a
\* file without providers does not load.
RequiredOfOthers == OtherKeys
Required == (OtherKeys \cup {route.key}) \ {NoKey}

Verify ==
  /\ At("verify")
  /\ verdict' = IF route # TornRoute /\ login /\ Required \subseteq wizard.environ \cup env
                THEN "pass" ELSE "fail"
  /\ wizard' = NoRun
  /\ UNCHANGED <<env, route, login, report, burnt, held, runs, breaks>>

---------------------------------------------------------------------------
\* Ctrl-C, or the end of the input, at a prompt: nothing is saved.
Interrupt ==
  /\ wizard.at \in SetupSteps
  /\ wizard' = NoRun
  /\ UNCHANGED <<env, route, report, rest>>

Kill ==
  /\ ~At("idle") /\ breaks < MaxBreaks
  /\ breaks' = breaks + 1
  /\ wizard' = NoRun
  /\ burnt' = (burnt \/ At("put"))
  /\ UNCHANGED <<env, route, login, report, verdict, held, runs>>

\* cli/login --logout
LosesLogin ==
  /\ login /\ breaks < MaxBreaks
  /\ login' = FALSE
  /\ breaks' = breaks + 1
  /\ UNCHANGED <<env, route, wizard, report, verdict, burnt, held, runs>>

SetupNext ==
  \/ Start \/ KeepProvider \/ NoProvider \/ RouteA \/ RouteB \/ RouteC
  \/ Rewrite \/ RewriteText \/ Telegram \/ WebSearch \/ PairingStep
  \/ SaveEnv \/ PutEnv \/ Verify \/ Interrupt \/ Kill \/ LosesLogin

SetupSpec == SetupInit /\ [][SetupNext]_setupVars

---------------------------------------------------------------------------
Named(keys) == keys \subseteq env \cup Shell

\* "preserving existing keys": whatever run is made, answered, interrupted or
\* killed, .env keeps every key it has held; only a kill right after the
\* truncation of the file itself loses them.
SecretsKept == ~burnt /\ ~At("put") => held \subseteq env

\* The two files agree when a run says that they do: models.yaml, rewritten
\* first, names no key for which .env, rewritten last, has no value, although
\* runs before may have been interrupted in between.
OkMeansKeyed == At("idle") /\ report = "ok" => route # TornRoute /\ Named({route.key} \ {NoKey})

\* A dry run that passes leaves no role of models.yaml without its key.
PassMeansRunnable ==
  At("idle") /\ verdict = "pass" => route # TornRoute /\ Named((OtherKeys \cup {route.key}) \ {NoKey})

\* "Takes an already-checked-out repo to a configured, verified, runnable app"
\* (cli/setup.py): a run that has configured all it asks for passes.
ConfiguredIsVerified ==
  [][At("verify") /\ verdict' # verdict /\ wizard.ok /\ Bot \in env /\ login
       => verdict' = "pass"]_setupVars
=============================================================================
