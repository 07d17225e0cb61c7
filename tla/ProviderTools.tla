----------------------------- MODULE ProviderTools -----------------------------
(***************************************************************************)
(* The provider tools of sentrymcp (cmd/sentrymcp/provider_*.go), the      *)
(* status registry they share (providerbroker/registry.go), the monitor    *)
(* that probes Ollama, and the HTTP interface of the session daemon        *)
(* (cmd/sentryproviderd), whose session manager is module CodexLogin: here *)
(* it is what Status, StartLogin, CancelLogin, Logout and Invoke promise.  *)
(*                                                                         *)
(* A tool call is a request; one that needs the daemon sends it an HTTP    *)
(* request, whose answer may be lost, and stores what it learns in the     *)
(* registry when the answer is back, in whatever order answers come.       *)
(***************************************************************************)
EXTENDS Naturals, FiniteSets

CONSTANTS
  Clients,        \* tool calls, one each
  TenantIds,      \* tenants
  Monitored       \* an Ollama URL is configured, so the monitor runs

ASSUME ToolsAssumption == Monitored \in BOOLEAN

Providers == {"ollama", "codex", "claude"}   \* defaultProviderRegistry
Tools == {"list", "status", "connect", "cancel", "disconnect", "invoke"}
NoStatus == "none"

VARIABLES
  defaults,   \* Registry.defaults
  statuses,   \* Registry.statuses
  probe,      \* what the monitor's running probe found, or NoStatus
  ollamaUp,   \* the Ollama server (external) answers
  sameToken,  \* the daemon's token is the one sentrymcp sends, or there is none
  job,        \* job[c]: the tool call
  signedIn,   \* signedIn[t]: the session daemon has an account for t
  awaiting    \* awaiting[t]: a login is pending there

toolVars == <<defaults, statuses, probe, ollamaUp, sameToken, job, signedIn, awaiting>>

NoJob == [tool |-> "none", tenant |-> 0, provider |-> "none", step |-> "new",
          code |-> 0, state |-> NoStatus]

ToolsInit ==
  /\ defaults = [p \in Providers |-> NoStatus]
  /\ statuses = [t \in TenantIds |-> [p \in Providers |-> NoStatus]]
  /\ probe = NoStatus /\ ollamaUp \in BOOLEAN /\ sameToken \in BOOLEAN
  /\ job = [c \in Clients |-> NoJob]
  /\ signedIn = [t \in TenantIds |-> FALSE] /\ awaiting = [t \in TenantIds |-> FALSE]

-----------------------------------------------------------------------------
\* Registry.Status: the tenant's own status, else the default, else "disconnected".
Status(t, p) ==
  CASE statuses[t][p] # NoStatus -> statuses[t][p]
    [] statuses[t][p] = NoStatus /\ defaults[p] # NoStatus -> defaults[p]
    [] OTHER -> "disconnected"

\* Registry.SetStatus and SetDefaultStatus (an empty state counts as disconnected).
SetStatus(t, p, state) == statuses' = [statuses EXCEPT ![t][p] = state]
SetDefaultStatus(p, state) == defaults' = [defaults EXCEPT ![p] = state]

\* Mutant: Ollama's status is kept per tenant too.
Managed_all(p) == p \in {"codex", "ollama"}

\* The provider whose status is kept per tenant.
Managed(p) == p = "codex"

Set(c, field) == job' = [job EXCEPT ![c] = field]
Reply(c, state) == Set(c, [job[c] EXCEPT !.step = "out", !.state = state])

\* findProvider
Known(p) == p \in Providers

Connects == {"connect", "cancel", "disconnect"}

\* providerDaemonClient: the HTTP request of a tool; an invocation asks for the status
\* first.
Request(c, start) ==
  Set(c, [start EXCEPT !.step = IF @ = "new" /\ start.tool = "invoke" THEN "status first" ELSE "sent"])

\* handleProviderTool. The managed provider is asked, of the others the registry knows
\* the status; an unknown provider, and a connection to one that has none, is refused.
CallTool(c) ==
  /\ job[c].step = "new"
  /\ \E tool \in Tools \ {"invoke"}, t \in TenantIds, p \in Providers \cup {"unknown"} :
       LET start == [NoJob EXCEPT !.tool = tool, !.tenant = t, !.provider = p] IN
       \/ /\ Managed(p) /\ Request(c, start)
       \/ /\ tool = "status" /\ Known(p) /\ ~Managed(p)
          /\ Set(c, [start EXCEPT !.step = "out", !.state = Status(t, p)])
       \/ /\ ~Known(p) \/ (tool \in Connects /\ ~Managed(p))
          /\ Set(c, [start EXCEPT !.step = "out", !.state = "refused"])
  /\ UNCHANGED <<defaults, statuses, probe, ollamaUp, sameToken, signedIn, awaiting>>

\* handleProviderInvoke: Ollama must be connected according to the registry.
CallInvoke(c) ==
  /\ job[c].step = "new"
  /\ \E t \in TenantIds, p \in Providers \cup {"unknown"} :
       LET start == [NoJob EXCEPT !.tool = "invoke", !.tenant = t, !.provider = p] IN
       \/ /\ p = "codex" /\ Request(c, start)
       \/ /\ p = "ollama" /\ Status(t, p) = "connected"
          /\ Set(c, [start EXCEPT !.step = "chat"])
       \/ /\ p \notin {"codex", "ollama"} \/ (p = "ollama" /\ Status(t, p) # "connected")
          /\ Set(c, [start EXCEPT !.step = "out", !.state = "refused"])
  /\ UNCHANGED <<defaults, statuses, probe, ollamaUp, sameToken, signedIn, awaiting>>

\* InvokeOllama: one request, whose result is returned or its error told.
Chat(c) ==
  /\ job[c].step = "chat"
  /\ \/ ollamaUp /\ Reply(c, "text")
     \/ Reply(c, "failed")
  /\ UNCHANGED <<defaults, statuses, probe, ollamaUp, sameToken, signedIn, awaiting>>

-----------------------------------------------------------------------------
\* CodexSessionManager.Status, for the daemon's answer.
Remote(t) == CASE signedIn[t] -> "connected" [] ~signedIn[t] /\ awaiting[t] -> "connecting"
               [] OTHER -> "disconnected"

Respond(c, code, state) ==
  Set(c, [job[c] EXCEPT !.step = IF @ = "sent" THEN "answered" ELSE "status answered",
                        !.code = code, !.state = state])

\* The daemon: authorize, tenantFromRequest, then the handler of the request, which
\* turns the errors of the session manager into codes. handleStatus, handleLogin, handleCancelLogin, handleLogout, handleInvoke. Any of
\* them fails with 502 when the session is unavailable.
Handle(c) ==
  LET j == job[c]
      t == j.tenant
      what == IF j.step = "status first" THEN "status" ELSE j.tool
  IN
  /\ j.step \in {"sent", "status first"}
  /\ \/ /\ ~sameToken /\ Respond(c, 401, "error")
        /\ UNCHANGED <<signedIn, awaiting>>
     \/ /\ sameToken /\ Respond(c, 502, "error")
        /\ UNCHANGED <<signedIn, awaiting>>
     \/ /\ sameToken /\ what \in {"status", "list"}
        /\ Respond(c, 200, Remote(t))
        /\ UNCHANGED <<signedIn, awaiting>>
     \/ /\ sameToken /\ what = "connect"
        /\ IF signedIn[t] /\ ~awaiting[t]
           THEN Respond(c, 409, "error") /\ UNCHANGED awaiting
           ELSE Respond(c, 200, "connecting") /\ awaiting' = [awaiting EXCEPT ![t] = TRUE]
        /\ UNCHANGED signedIn
     \/ /\ sameToken /\ what = "cancel"
        /\ IF awaiting[t]
           THEN Respond(c, 200, "disconnected") /\ awaiting' = [awaiting EXCEPT ![t] = FALSE]
           ELSE Respond(c, 409, "error") /\ UNCHANGED awaiting
        /\ UNCHANGED signedIn
     \/ /\ sameToken /\ what = "disconnect"
        /\ Respond(c, 200, "disconnected")
        /\ signedIn' = [signedIn EXCEPT ![t] = FALSE]
        /\ awaiting' = [awaiting EXCEPT ![t] = FALSE]
     \/ /\ sameToken /\ what = "invoke"
        /\ \/ signedIn[t] /\ Respond(c, 200, "text")
           \/ ~signedIn[t] /\ Respond(c, 409, "error")
           \/ \E code \in {400, 413, 504} : Respond(c, code, "error")
        /\ UNCHANGED <<signedIn, awaiting>>
  /\ UNCHANGED <<defaults, statuses, probe, ollamaUp, sameToken>>

\* doJSONWithClient gives up: the daemon is away or too slow, whether or not it has
\* carried the request out.
Unavailable(c) ==
  /\ job[c].step \in {"sent", "status first", "answered", "status answered"}
  /\ Reply(c, "error")
  /\ UNCHANGED <<defaults, statuses, probe, ollamaUp, sameToken, signedIn, awaiting>>

\* providerResultForTenant, when the answer is back: the state the daemon named goes
\* into the registry and to the client; an answer other than 2xx leaves the registry
\* alone.
ApplyStatus(c) ==
  LET j == job[c] IN
  /\ j.step = "answered" /\ j.tool \in {"status", "list"}
  /\ IF j.code = 200 THEN SetStatus(j.tenant, j.provider, j.state) ELSE UNCHANGED statuses
  /\ Reply(c, j.state)
  /\ UNCHANGED <<defaults, probe, ollamaUp, sameToken, signedIn, awaiting>>

\* provider_connect, provider_connect_cancel, provider_disconnect: likewise.
ApplyAction(c) ==
  LET j == job[c] IN
  /\ j.step = "answered" /\ j.tool \in Connects
  /\ IF j.code = 200 THEN SetStatus(j.tenant, j.provider, j.state) ELSE UNCHANGED statuses
  /\ Reply(c, j.state)
  /\ UNCHANGED <<defaults, probe, ollamaUp, sameToken, signedIn, awaiting>>

\* An invocation goes on to its second request if the daemon said "connected".
InvokeNext(c) ==
  LET j == job[c] IN
  /\ \/ /\ j.step = "status answered"
        /\ IF j.code = 200 /\ j.state = "connected" THEN Request(c, j) ELSE Reply(c, "refused")
     \/ /\ j.step = "answered" /\ j.tool = "invoke"
        /\ Reply(c, j.state)
  /\ UNCHANGED <<defaults, statuses, probe, ollamaUp, sameToken, signedIn, awaiting>>

-----------------------------------------------------------------------------
\* ProbeOllama and refreshOllamaStatus: the answer is stored after it came.
Probe ==
  /\ Monitored /\ probe = NoStatus
  /\ probe' = IF ollamaUp THEN "connected" ELSE "disconnected"
  /\ UNCHANGED <<defaults, statuses, ollamaUp, sameToken, job, signedIn, awaiting>>

Refresh ==
  /\ probe # NoStatus
  /\ SetDefaultStatus("ollama", probe)
  /\ probe' = NoStatus
  /\ UNCHANGED <<statuses, ollamaUp, sameToken, job, signedIn, awaiting>>

\* Ollama comes and goes; a user completes a login (external).
World ==
  \/ ollamaUp' = ~ollamaUp /\ UNCHANGED <<signedIn, awaiting>>
  \/ /\ \E t \in TenantIds :
          /\ awaiting[t] /\ signedIn' = [signedIn EXCEPT ![t] = TRUE]
          /\ awaiting' = [awaiting EXCEPT ![t] = FALSE]
     /\ UNCHANGED ollamaUp

ToolsNext ==
  \/ \E c \in Clients : \/ CallTool(c) \/ CallInvoke(c) \/ Chat(c) \/ Handle(c) \/ Unavailable(c)
                        \/ ApplyStatus(c) \/ ApplyAction(c) \/ InvokeNext(c)
  \/ Probe \/ Refresh
  \/ World /\ UNCHANGED <<defaults, statuses, probe, sameToken, job>>

ToolsSpec == ToolsInit /\ [][ToolsNext]_toolVars

-----------------------------------------------------------------------------
\* Every tenant sees what the last probe of Ollama found: no tool call, of any tenant
\* and at any time, leaves behind a status that hides the monitor's.
ProbeReaches ==
  \A t \in TenantIds :
    Status(t, "ollama") = IF defaults["ollama"] = NoStatus THEN "disconnected"
                                                          ELSE defaults["ollama"]

===============================================================================
