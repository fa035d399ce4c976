----------------------------- MODULE Credentials -----------------------------
(***************************************************************************)
(* Logging in and out: the flows of the web backend                        *)
(* (web/backend/api/oauth.go), the command line (internal/auth/helpers.go),*)
(* and the providers' token sources, which all read and write the file of  *)
(* credentials (pkg/auth/store.go) and the configuration without a lock.   *)
(* pkg/auth/oauth.go talks to the identity provider.                       *)
(***************************************************************************)
EXTENDS Integers, Sequences, FiniteSets
CONSTANTS Flows,     \* ids of flows, each used once; a browser flow's state goes by the same name
          Workers,   \* requests and commands that run at once
          Models,    \* the providers of the entries of model_list
          MaxJobs,   \* bound: requests and commands in all
          CanFail    \* whether files may fail to be read or written
VARIABLES store,     \* auth.json: name -> credential
          config,    \* [method: provider -> auth_method, models: the auth_method of each entry]
          flow, states,   \* oauthFlows; oauthState: the states that lead to a flow
          spent,     \* flows whose code the identity provider has exchanged
          worker, jobs,
          logged,    \* what the last job of a provider was, once nothing of it is left to do
          saved      \* flows whose credential was written
credVars == <<store, config, flow, states, spent, worker, jobs, logged, saved>>

Names == {"openai", "anthropic", "google-antigravity"}
\* the methods of the web page
Methods == [openai |-> {"browser", "device_code", "token"}, anthropic |-> {"token"},
            google |-> {"browser"}]
Supports(p, m) == m \in Methods[IF p = "google-antigravity" THEN "google" ELSE p]
\* normalizeOAuthProvider; the command line's own switch takes the same names
Provider(name) == IF name = "antigravity" THEN "google-antigravity" ELSE name
Credential(how) == [method |-> how, state |-> IF how = "oauth" THEN "fresh" ELSE "lasting"]

NoJob == [job |-> "", at |-> "idle", name |-> "", flow |-> "", cred |-> Credential("token"), file |-> <<>>, cfg |-> <<>>]
CredInit ==
    /\ store = <<>> /\ jobs = 0 /\ logged = <<>>
    /\ config = [method |-> [p \in Names |-> ""], models |-> [i \in DOMAIN Models |-> [of |-> Models[i], method |-> ""]]]
    /\ flow = <<>> /\ states = {} /\ spent = {} /\ saved = {}
    /\ worker = [w \in Workers |-> NoJob]
With(f, k, v) == [x \in DOMAIN f \cup {k} |-> IF x = k THEN v ELSE f[x]]
Drop(f, ks) == [x \in DOMAIN f \ ks |-> f[x]]
Goes(w, rest) == worker' = [worker EXCEPT ![w] = rest]
At(w, pc) == Goes(w, [worker[w] EXCEPT !.at = pc])
FlowIdle(w) == Goes(w, NoJob)
Starts(w, job) == worker[w].at = "idle" /\ jobs < MaxJobs /\ jobs' = jobs + 1 /\ Goes(w, job)

\* gcOAuthFlowsLocked, with every look at the flows: what is overdue expires, and what has
\* been over for half an hour is forgotten
Overdue == {f \in DOMAIN flow : flow[f].status = "pending" /\ flow[f].overdue}
Stale == {f \in DOMAIN flow : flow[f].status # "pending" /\ flow[f].stale}
Collected == Drop([f \in DOMAIN flow |-> IF f \in Overdue THEN [flow[f] EXCEPT !.status = "expired", !.stale = FALSE]
                                         ELSE flow[f]], Stale)
StatesLeft == states \ (Overdue \cup Stale)
\* setOAuthFlowSuccess, setOAuthFlowError: a flow that is forgotten by now is passed over
Settled(f, status) ==
    IF f \in DOMAIN flow
    THEN flow' = [flow EXCEPT ![f].status = status, ![f].stale = FALSE] /\ states' = states \ {f}
    ELSE UNCHANGED <<flow, states>>
Failed(w) ==
    /\ IF worker[w].flow = "" THEN UNCHANGED <<flow, states>> ELSE Settled(worker[w].flow, "error")
    /\ FlowIdle(w)
    /\ UNCHANGED <<store, config, spent, jobs, logged, saved>>

\* handleOAuthLogin: a token is saved at once; a device code and a browser open a flow
LoginToken(w, p) ==
    /\ Supports(p, "token")
    /\ Starts(w, [NoJob EXCEPT !.job = "login", !.at = "load", !.name = p])
    /\ UNCHANGED <<store, config, flow, states, spent, logged, saved>>
OpenFlow(f, p, m) ==
    /\ jobs < MaxJobs /\ jobs' = jobs + 1
    /\ m \in {"browser", "device_code"} /\ Supports(p, m) /\ f \notin DOMAIN flow \cup spent /\ f \notin saved
    /\ flow' = With(Collected, f, [provider |-> p, method |-> m, status |-> "pending", overdue |-> FALSE, stale |-> FALSE])
    /\ states' = StatesLeft \cup (IF m = "browser" THEN {f} ELSE {})
    /\ UNCHANGED <<store, config, spent, worker, logged, saved>>
\* ten or fifteen minutes pass for a flow, or half an hour since it ended
Late(f) ==
    /\ f \in DOMAIN flow
    /\ IF flow[f].status = "pending" THEN ~flow[f].overdue /\ flow' = [flow EXCEPT ![f].overdue = TRUE]
       ELSE ~flow[f].stale /\ flow' = [flow EXCEPT ![f].stale = TRUE]
    /\ UNCHANGED <<store, config, states, spent, worker, jobs, logged, saved>>
\* handlePollOAuthFlow, handleOAuthCallback: only a pending flow goes on, the callback with
\* the code of the identity provider; a refusal, or no code, is an error of the flow
Ask(w, f, granted) ==
    /\ f \in DOMAIN Collected /\ Collected[f].status = "pending"
    /\ Collected[f].method = "browser" => f \in StatesLeft
    /\ Collected[f].method = "device_code" => granted
    /\ Starts(w, [NoJob EXCEPT !.job = "flow", !.at = IF granted THEN "exchange" ELSE "refused", !.flow = f,
                               !.name = Collected[f].provider, !.cred = Credential("oauth")])
    /\ flow' = Collected /\ states' = StatesLeft
    /\ UNCHANGED <<store, config, spent, logged, saved>>
\* a look at the flows, by anyone
Look ==
    /\ Overdue \cup Stale # {}
    /\ flow' = Collected /\ states' = StatesLeft
    /\ UNCHANGED <<store, config, spent, worker, jobs, logged, saved>>
\* ExchangeCodeForTokens: a code is good once
Exchange(w) ==
    /\ worker[w].at = "exchange"
    /\ \/ /\ worker[w].flow \notin spent
          /\ spent' = spent \cup {worker[w].flow} /\ At(w, "load")
          /\ UNCHANGED <<store, config, flow, states, jobs, logged, saved>>
       \/ Failed(w)
\* PollDeviceCodeOnce: a device that is not confirmed yet, or any other answer to its poll
\* than success, is pending
PollDevice(w) ==
    /\ worker[w].at = "exchange"
    /\ worker[w].flow \in DOMAIN flow /\ flow[worker[w].flow].method = "device_code"
    /\ FlowIdle(w)
    /\ UNCHANGED <<store, config, flow, states, spent, jobs, logged, saved>>
CodeRefused(w) == worker[w].at = "refused" /\ Failed(w)
\* the command line's login: of openai by browser or device code, of antigravity by browser,
\* of anthropic by a setup token, or with a pasted token
LoginCommand(w, name, how, at) ==
    /\ Starts(w, [NoJob EXCEPT !.job = "command", !.at = at, !.name = Provider(name), !.cred = Credential(how)])
    /\ UNCHANGED <<store, config, flow, states, spent, logged, saved>>
LoginOpenAI(w) == \E at \in {"browser", "device"} : LoginCommand(w, "openai", "oauth", at)
LoginGoogleAntigravity(w) == LoginCommand(w, "antigravity", "oauth", "browser")
LoginAnthropicSetupToken(w) == LoginCommand(w, "anthropic", "oauth", "load")
LoginPasteToken(w) == \E p \in {"openai", "anthropic"} : LoginCommand(w, p, "token", "load")
\* LoginBrowser waits five minutes for one callback: a wrong state, a refusal, a failed
\* exchange and the end of the wait all give up
LoginBrowser(w) ==
    /\ worker[w].at = "browser"
    /\ At(w, "load") \/ FlowIdle(w)
    /\ UNCHANGED <<store, config, flow, states, spent, jobs, logged, saved>>
\* LoginDeviceCode polls until the device is confirmed or fifteen minutes are over
LoginDeviceCode(w) ==
    /\ worker[w].at = "device"
    /\ At(w, "load") \/ FlowIdle(w)
    /\ UNCHANGED <<store, config, flow, states, spent, jobs, logged, saved>>
\* the command line logs out of one provider or all
LogoutCommand(w, name) ==
    /\ Starts(w, [NoJob EXCEPT !.job = "logout", !.at = "load", !.name = name])
    /\ UNCHANGED <<store, config, flow, states, spent, logged, saved>>
\* the web page's logout, with the name put straight first
Logout(w, name) ==
    /\ Starts(w, [NoJob EXCEPT !.job = "logout", !.at = "load", !.name = Provider(name)])
    /\ UNCHANGED <<store, config, flow, states, spent, logged, saved>>
LogoutAll(w) ==
    /\ Starts(w, [NoJob EXCEPT !.job = "logout all", !.at = "config"])
    /\ store' = <<>>
    /\ UNCHANGED <<config, flow, states, spent, logged, saved>>
\* a token runs out
Wanes(p) ==
    /\ p \in DOMAIN store /\ store[p].state = "fresh"
    /\ store' = [store EXCEPT ![p].state = "needs refresh"]
    /\ UNCHANGED <<config, flow, states, spent, worker, jobs, logged, saved>>
\* createCodexTokenSource, createAntigravityTokenSource: a turn asks for the token
Token(w, p) ==
    /\ p # "anthropic" /\ p \in DOMAIN store /\ store[p].state = "needs refresh"
    /\ Starts(w, [NoJob EXCEPT !.job = "refresh", !.at = "refresh", !.name = p, !.cred = Credential("oauth")])
    /\ UNCHANGED <<store, config, flow, states, spent, logged, saved>>
Refresh(w) ==
    /\ worker[w].at = "refresh"
    /\ At(w, "load") \/ FlowIdle(w)
    /\ UNCHANGED <<store, config, flow, states, spent, jobs, logged, saved>>

\* a callback that tells of its success before the credential is written
LoadStore_Settles(w) ==
    /\ worker[w].at = "load"
    /\ IF worker[w].flow = "" THEN UNCHANGED <<flow, states>> ELSE Settled(worker[w].flow, "success")
    /\ Goes(w, [worker[w] EXCEPT !.file = store, !.at = "save"])
    /\ UNCHANGED <<store, config, spent, jobs, logged, saved>>
\* SetCredential, DeleteCredential: the whole file is read ...
LoadStore(w) ==
    /\ worker[w].at = "load"
    /\ Goes(w, [worker[w] EXCEPT !.file = store, !.at = "save"])
    /\ UNCHANGED <<store, config, flow, states, spent, jobs, logged, saved>>
\* ... and written, with one entry changed
SaveStore(w) ==
    /\ worker[w].at = "save"
    /\ LET name == worker[w].name
       IN  store' = IF worker[w].job = "logout" THEN Drop(worker[w].file, {name})
                    ELSE With(worker[w].file, name, worker[w].cred)
    /\ saved' = saved \cup ({worker[w].flow} \ {""})
    /\ IF worker[w].job = "refresh" THEN FlowIdle(w) ELSE At(w, "config")
    /\ UNCHANGED <<config, flow, states, spent, jobs, logged>>
FileFails(w) ==
    /\ CanFail /\ worker[w].at \in {"load", "save", "config", "write"}
    /\ Failed(w)
LoadConfig(w) ==
    /\ worker[w].at = "config"
    /\ Goes(w, [worker[w] EXCEPT !.cfg = config, !.at = "write"])
    /\ UNCHANGED <<store, config, flow, states, spent, jobs, logged, saved>>
\* the configuration with a provider's method: the web page and a logout set it on every entry
\* of the provider, a login of the command line on the first; a login adds a missing entry
OfProvider(models, p) == {i \in DOMAIN models : models[i].of = p}
Methodised(cfg, p, method, first) ==
    LET its == OfProvider(cfg.models, p)
        set == {i \in its : ~first \/ \A j \in its : i <= j}
        done == [i \in DOMAIN cfg.models |-> IF i \in set THEN [cfg.models[i] EXCEPT !.method = method] ELSE cfg.models[i]]
    IN  [method |-> [cfg.method EXCEPT ![p] = method],
         models |-> IF its = {} /\ method # "" THEN Append(done, [of |-> p, method |-> method]) ELSE done]
Cleared(cfg) == [method |-> [p \in Names |-> ""], models |-> [i \in DOMAIN cfg.models |-> [cfg.models[i] EXCEPT !.method = ""]]]
SaveConfig(w) ==
    /\ worker[w].at = "write"
    /\ LET p == Provider(worker[w].name)
           cfg == worker[w].cfg
       IN  /\ config' = CASE worker[w].job = "logout" -> Methodised(cfg, p, "", FALSE)
                          [] worker[w].job = "logout all" -> Cleared(cfg)
                          [] OTHER -> Methodised(cfg, p, worker[w].cred.method, worker[w].job = "command")
           /\ logged' = IF worker[w].job = "logout all" THEN logged ELSE With(logged, p, worker[w].job)
    /\ At(w, "done")
    /\ UNCHANGED <<store, flow, states, spent, jobs, saved>>
FinishFlow(w) ==
    /\ worker[w].at = "done"
    /\ IF worker[w].flow = "" THEN UNCHANGED <<flow, states>> ELSE Settled(worker[w].flow, "success")
    /\ FlowIdle(w)
    /\ UNCHANGED <<store, config, spent, jobs, logged, saved>>
CredNext ==
    \/ \E f \in Flows, p \in Names, m \in {"browser", "device_code"} : OpenFlow(f, p, m)
    \/ \E f \in Flows : Late(f)
    \/ \E p \in Names : Wanes(p)
    \/ Look
    \/ \E w \in Workers :
         \/ \E p \in Names : LoginToken(w, p) \/ Token(w, p)
         \/ \E f \in Flows, g \in BOOLEAN : Ask(w, f, g)
         \/ \E n \in Names \cup {"antigravity"} : LogoutCommand(w, n) \/ Logout(w, n)
         \/ LoginOpenAI(w) \/ LoginGoogleAntigravity(w) \/ LoginAnthropicSetupToken(w) \/ LoginPasteToken(w)
         \/ LoginBrowser(w) \/ LoginDeviceCode(w)
         \/ LogoutAll(w) \/ Exchange(w) \/ PollDevice(w) \/ CodeRefused(w) \/ Refresh(w)
         \/ LoadStore(w) \/ SaveStore(w) \/ LoadConfig(w) \/ SaveConfig(w) \/ FinishFlow(w) \/ FileFails(w)
CredSpec == CredInit /\ [][CredNext]_credVars
-----------------------------------------------------------------------------
\* A state leads to a flow that waits for its callback, or to one that has just run out and
\* was not looked at yet: what ended, was refused or is forgotten cannot be called back.
StatesPending == \A f \in states : f \in DOMAIN flow /\ flow[f].status = "pending" /\ flow[f].method = "browser"
\* The page says that a login succeeded only when its credential was written, though polls and
\* callbacks of one flow run at once.
SuccessSaved == \A f \in DOMAIN flow : flow[f].status = "success" => f \in saved
\* The two of above, of the OAuth handlers of the launcher.
CredSound == StatesPending /\ SuccessSaved
\* A logout of a provider that met nobody else leaves no credential of it.  (Does not hold: a
\* refresh that is under way writes the credential back.)
LogoutForgets ==
    (\A w \in Workers : worker[w].at = "idle") =>
        \A p \in DOMAIN logged : logged[p] = "logout" => p \notin DOMAIN store
=============================================================================
