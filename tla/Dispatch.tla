------------------------------- MODULE Dispatch -------------------------------
(* One oracle call from its token to the backend that answers it: the denylist's  *)
(* gate in run, _run_uncached, _via_local_cli and the websearch router, over the   *)
(* bridges of HttpBridge and CliBridge.  Cache, breaker and semaphore are module   *)
(* OracleRun's.                                                                    *)
EXTENDS HttpBridge, CliBridge

VARIABLES
  asked,   \* the token, the model's family or the router's choice, and the prompt's size
  host,    \* what the operator has installed, configured and switched off
  reached  \* the backends the prompt was sent to

callVars == <<at, result, asked, host, reached>>

Gateways == {"atlas", "openrouter"}

\* A gateway's model may be of a family a local CLI serves; the router and the
\* Claude ladder choose a transport.
Families(key) ==
  CASE key \in Gateways -> {"grok", "kimi", "other"}
    [] key = "websearch" -> {"grok", "gemini", "claude", "sdk", "http", "other"}
    [] key = "fable" -> {"claude", "sdk", "http"}
    [] OTHER -> {key}

Keys == {"codex", "gemini", "grok", "kimi", "minimax", "fable", "websearch", "glm", "deepseek", "ali", "ollama", "unknown"} \cup Gateways

\* What takes a key or an address to be reached.
Keyed == {"glm", "deepseek", "ali", "ollama", "http"} \cup Gateways

Requests ==
  {r \in [key : Keys, family : Gateways \cup Keys \cup Clis \cup {"other", "http"}, fits : BOOLEAN, deep : BOOLEAN] :
     r.family \in Families(r.key) /\ (r.deep => r.key \in Gateways \cup {"glm"})}

\* usable: the CLI is there and has its login; sandbox: kimi's can be built.
\* The parts of a host that the request looks at; the CLI a gateway prefers must have
\* its login, too.
Hosts(r) ==
  LET fallback == IF r.key = "glm" THEN {"atlas"} ELSE {}
  IN {h \in [installed : SUBSET ({r.family} \cap Clis), usable : SUBSET ({r.family} \cap {"grok", "kimi"}),
             sandbox : IF r.family = "kimi" THEN BOOLEAN ELSE {TRUE},
             ready : SUBSET (({r.key, r.family} \cap Keyed) \cup fallback),
             denied : SUBSET (({r.key, r.family} \cap Keys) \cup fallback)] :
        h.usable \subseteq h.installed}

DispatchInit ==
  /\ at = "route" /\ result = None /\ reached = {}
  /\ HttpInit /\ CliInit

Ends(r) == at' = "done" /\ result' = r

\* run's gate: the token's own provider is on the denylist.
Gate ==
  /\ at = "route" /\ asked.key \in host.denied
  /\ Ends(Err("disabled"))
  /\ UNCHANGED <<asked, host, reached, httpVars, cliVars>>

Admitted == at = "route" /\ asked.key \notin host.denied

SendCli(c) ==
  /\ CallCli(c, c \in host.installed, asked.fits, host.sandbox)
  /\ reached' = IF at' = "process" THEN reached \cup {c} ELSE reached
  /\ UNCHANGED <<asked, host, httpVars>>

SendHttp(b, provider, search) ==
  /\ CallHttp(b, search, asked.deep) /\ UNCHANGED result
  /\ reached' = reached \cup {provider}
  /\ UNCHANGED <<asked, host, cliVars>>

Unready(kind) == Ends(Err(kind)) /\ UNCHANGED <<asked, host, reached, httpVars, cliVars>>

\* The single-backend CLIs, the Claude ladder's transport, and the research router,
\* which asks the backend it was told to.
ToCli ==
  /\ Admitted /\ asked.family \in Clis /\ asked.key \notin Gateways
  /\ SendCli(asked.family)

ToClaudeApi ==
  /\ Admitted /\ asked.family = "http"
  /\ IF "http" \in host.ready
       THEN SendHttp("anthropic", "fable", asked.key = "websearch")
       ELSE Unready("not_configured")

\* GLM without a key goes to Atlas, unless that is switched off.
FallsBack == asked.key = "glm" /\ "atlas" \in host.ready /\ "atlas" \notin host.denied

ToHttp ==
  /\ Admitted /\ asked.key \in {"glm", "deepseek", "ali", "ollama"}
  /\ IF asked.key \in host.ready
       THEN SendHttp(IF asked.key = "ollama" THEN "ollama" ELSE "anthropic", asked.key, FALSE)
     ELSE IF FallsBack THEN SendHttp("atlas", "atlas", FALSE)
     ELSE Unready("not_configured")

\* No such oracle, or no such backend for the router.
ToNobody ==
  /\ Admitted
  /\ \/ asked.key = "unknown" /\ Unready("unknown_oracle")
     \/ asked.key = "websearch" /\ asked.family = "other" /\ Unready("unsupported_model")

-----------------------------------------------------------------------------
(* Gateways. *)

\* Mutant of LocalCli: capability is taken for authorization.
LocalCliDenied ==
  IF asked.family \in host.usable THEN asked.family ELSE None

\* The operator's own CLI of the model's family, if it may be used.
LocalCli ==
  IF asked.family \in host.usable /\ asked.family \notin host.denied THEN asked.family ELSE None

GatewayReady == asked.key \in host.ready

\* The gateway answers, if it is configured.
ToGateway ==
  IF GatewayReady THEN SendHttp(asked.key, asked.key, FALSE) ELSE Unready("not_configured")

\* The CLI is preferred while it can carry the prompt, or nothing else can.
ViaLocalCli ==
  /\ Admitted /\ asked.key \in Gateways
  /\ LocalCli # None /\ (asked.fits \/ ~GatewayReady)
  /\ SendCli(LocalCli)

ViaGateway ==
  /\ Admitted /\ asked.key \in Gateways
  /\ LocalCli = None \/ (~asked.fits /\ GatewayReady)
  /\ ToGateway

\* What a CLI answers when it cannot take the call at all.
Unusable(r) == r.kind \in {"context_too_large", "not_configured"}

\* The CLI has answered; a gateway takes over what it could not take.
Returned ==
  /\ at = "returned"
  /\ IF asked.key \in Gateways /\ Unusable(result) /\ GatewayReady
       THEN /\ CallHttp(asked.key, FALSE, asked.deep) /\ result' = None
            /\ reached' = reached \cup {asked.key}
            /\ UNCHANGED <<asked, host, cliVars>>
       ELSE Ends(result) /\ UNCHANGED <<asked, host, reached, httpVars, cliVars>>

DispatchNext ==
  \/ Gate \/ ToCli \/ ToClaudeApi \/ ToHttp \/ ToNobody \/ ViaLocalCli \/ ViaGateway \/ Returned
  \/ HttpNext /\ UNCHANGED <<cliVars, asked, host, reached>>
  \/ CliNext /\ UNCHANGED <<httpVars, asked, host, reached>>
=============================================================================
