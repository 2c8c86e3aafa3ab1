------------------------------ MODULE CliBridge -------------------------------
(* One call of a bridge that spawns a local CLI: codex, gemini (agy), grok, kimi,  *)
(* minimax (mmx), Claude Code's print mode, or Claude Code through its SDK.  The   *)
(* process is module CliGate's business; here it either takes the prompt or does   *)
(* not, and ends in one of the ways run_cli_async, or the SDK's driver, returns.   *)
(* Below it, by itself, the directory that kimi's processes share.                 *)
EXTENDS Bridge

VARIABLES
  cli,      \* the bridge called; None before
  spawned,  \* the prompt reached a process
  said      \* what the process answered; None for no answer

cliVars == <<cli, spawned, said>>

\* What sets the CLIs apart: whether the prompt is one argv value (the others read it
\* from stdin), why they may say that they stopped, whether their answer tells of
\* tools, and whether a failure may be their provider's safeguard.
CliOf(argv, stops, tools, safeguard) == [argv |-> argv, stops |-> stops, tools |-> tools, safeguard |-> safeguard]

Codex == CliOf(TRUE, {"end"}, FALSE, FALSE)
Gemini == CliOf(TRUE, {"end"}, FALSE, FALSE)
Grok == CliOf(TRUE, {"end"}, FALSE, FALSE)
Kimi == CliOf(TRUE, {"end"}, TRUE, FALSE)
Minimax == CliOf(FALSE, {"end", "cap"}, FALSE, FALSE)
ClaudeCli == CliOf(FALSE, {"end", "cap", "refusal"}, FALSE, TRUE)
ClaudeSdk == CliOf(FALSE, {"end", "cap"}, FALSE, TRUE)

Clis == {"codex", "gemini", "grok", "kimi", "minimax", "claude", "sdk"}
ASSUME NoCliAssumption == None \notin Clis

Cli(c) ==
  CASE c = "codex" -> Codex [] c = "gemini" -> Gemini [] c = "grok" -> Grok [] c = "kimi" -> Kimi
    [] c = "minimax" -> Minimax [] c = "claude" -> ClaudeCli [] c = "sdk" -> ClaudeSdk

\* What a process that exits with 0 prints.
Outputs(c) == [text : Texts, stop : Cli(c).stops, tools : IF Cli(c).tools THEN BOOLEAN ELSE {FALSE}]

CliInit == cli = None /\ spawned = FALSE /\ said = None

\* A call that is over before anything is spawned: no binary, a prompt that does not
\* fit one argv value, and for kimi, in this order, no sandbox to run in.
Refused(c, installed, fits, home) ==
  IF ~installed THEN Err(IF c = "sdk" THEN "sdk_unavailable" ELSE "binary_missing")
  ELSE IF Cli(c).argv /\ ~fits THEN Err("context_too_large")
  ELSE IF c = "kimi" /\ ~home THEN Err("not_configured")
  ELSE None

\* The bridge is entered.
CallCli(c, installed, fits, home) ==
  /\ cli' = c /\ said' = None
  /\ LET refusal == Refused(c, installed, fits, home)
     IN IF refusal = None THEN at' = "process" /\ UNCHANGED result
        ELSE at' = "returned" /\ result' = refusal
  /\ UNCHANGED spawned

Returns(r, ran, out) ==
  /\ at = "process"
  /\ at' = "returned" /\ result' = r /\ spawned' = ran /\ said' = out /\ UNCHANGED cli

\* The binary vanished before the spawn, or the prompt holds what no argv can.
NeverSpawned ==
  \/ Returns(Err("binary_missing"), FALSE, None)
  \/ cli # None /\ Cli(cli).argv /\ Returns(Err("bad_input"), FALSE, None)

\* No slot in time, or no answer.
CliTimesOut == \E ran \in BOOLEAN : Returns(Err("timeout"), ran, None)

\* The process fails, or mmx answers with an error envelope.
Exits ==
  \E says \in SUBSET (Phrases \ {"field"}) :
    /\ cli \notin {"sdk", None} /\ ("flagged" \in says => Cli(cli).safeguard)
    /\ Returns(IF "flagged" \in says THEN Declined("provider_refusal") ELSE Err(CliKind(says)), TRUE, None)

\* The SDK's process fails, with whatever it said.
SdkRaises ==
  \E says \in SUBSET Phrases : cli = "sdk" /\ Returns(HttpError(NoRoute, says), TRUE, None)

\* The SDK's last message is an error: the turn budget's end, which leaves what was
\* found so far, a safeguard's refusal, or any other.
SdkFails ==
  \E says \in SUBSET Phrases, salvaged \in BOOLEAN :
    /\ cli = "sdk"
    /\ Returns(IF salvaged THEN Ok("truncated")
               ELSE IF "flagged" \in says THEN Declined("provider_refusal")
               ELSE HttpError(NoRoute, says), TRUE, None)

\* An answer.  kimi's is thrown away when a tool ran despite the sandbox.
Output(c, out) ==
  IF out.text # "empty" /\ out.tools THEN Err("sdk_error")
  ELSE ShapeStopped(out.text, out.stop)

Prints ==
  /\ cli # None
  /\ \E out \in Outputs(cli) : Returns(Output(cli, out), TRUE, out)

CliNext == NeverSpawned \/ CliTimesOut \/ Exits \/ SdkRaises \/ SdkFails \/ Prints

-----------------------------------------------------------------------------
(* kimi.build_sandbox: the KIMI_CODE_HOME a kimi process runs in, one directory    *)
(* per effort, shared by every call and every server process of the operator.  It  *)
(* is written on the event loop before the call queues for its process, and read   *)
(* by that process whenever it starts.                                             *)

CONSTANTS
  Spawns,     \* calls of kimi, of any process
  Efforts,
  Versions,   \* how often the operator edits their own config
  NoConfig

ASSUME VersionsAssumption == Versions \in Nat

VARIABLES
  spawn,     \* per call: new, read, built, running, or failed
  effort,    \* its effort
  base,      \* the operator's config it read
  config,    \* per directory: the effort and the version its config.toml holds
  operator,  \* the version of the operator's own config
  ranWith    \* the config its process started with

homeVars == <<spawn, effort, base, config, operator, ranWith>>

HomeInit ==
  /\ spawn = [t \in Spawns |-> "new"] /\ effort \in [Spawns -> Efforts]
  /\ base = [t \in Spawns |-> 0] /\ config = [e \in Efforts |-> NoConfig]
  /\ operator = 0 /\ ranWith = [t \in Spawns |-> NoConfig]

\* The config of a call: the operator's, under ask_fable's rules and effort.
Rendered(t) == [effort |-> effort[t], of |-> base[t]]

\* Mutant of HomeOf: one directory for all efforts.
HomeOfAll(t) == CHOOSE e \in Efforts : TRUE

HomeOf(t) == effort[t]

\* The operator's config is read, or cannot be.
ReadBase(t) ==
  /\ spawn[t] = "new"
  /\ \/ spawn' = [spawn EXCEPT ![t] = "read"] /\ base' = [base EXCEPT ![t] = operator]
     \/ spawn' = [spawn EXCEPT ![t] = "failed"] /\ UNCHANGED base
  /\ UNCHANGED <<effort, config, operator, ranWith>>

\* The file is replaced in one step unless it already reads the same.  A link or a
\* write that fails, before it or after it, leaves the call unconfigured.
Build(t) ==
  /\ spawn[t] = "read"
  /\ \E written, whole \in BOOLEAN :
       /\ whole => written
       /\ config' = IF written THEN [config EXCEPT ![HomeOf(t)] = Rendered(t)] ELSE config
       /\ spawn' = [spawn EXCEPT ![t] = IF whole THEN "built" ELSE "failed"]
  /\ UNCHANGED <<effort, base, operator, ranWith>>

\* Its slot comes: the process starts and loads the config.
Start(t) ==
  /\ spawn[t] = "built"
  /\ spawn' = [spawn EXCEPT ![t] = "running"]
  /\ ranWith' = [ranWith EXCEPT ![t] = config[HomeOf(t)]]
  /\ UNCHANGED <<effort, base, config, operator>>

Edit == operator < Versions /\ operator' = operator + 1 /\ UNCHANGED <<spawn, effort, base, config, ranWith>>

HomeNext == (\E t \in Spawns : ReadBase(t) \/ Build(t) \/ Start(t)) \/ Edit
=============================================================================
