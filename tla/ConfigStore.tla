------------------------------ MODULE ConfigStore -----------------------------
(* config.py and the configure_* tools of server.py: one JSON file that every      *)
(* server process reads on each call and rewrites whole, under a lock on a file     *)
(* beside it.  The denylist of oracles is one of its settings; its tool reads the   *)
(* list before the lock and saves the list it made of it.                           *)
EXTENDS Integers, FiniteSets

CONSTANTS
  Writers,     \* the server processes
  Settings,    \* keys of the file other than the denylist's
  Values,      \* their values
  Tokens,      \* what a denylist may name
  EnvDenied,   \* the denylist of the environment
  Unset,       \* the value of a key that the file has not
  NoWriter,
  MaxSaves     \* bound of the saves begun

ASSUME ConfigAssumption ==
  /\ EnvDenied \subseteq Tokens /\ MaxSaves \in Nat
  /\ "disabled" \notin Settings /\ NoWriter \notin Writers

VARIABLES
  file,      \* config.json
  flock,     \* who holds the lock
  configAt,  \* where each process is in a save
  patch,     \* the keys it saves, with their values
  loaded,    \* the file as it read it
  saves

configVars == <<file, flock, configAt, patch, loaded, saves>>

AllKeys == Settings \cup {"disabled"}

\* load's answer when there is no file.
NoFile == [k \in AllKeys |-> Unset]

ConfigInit ==
  /\ file = NoFile
  /\ flock = NoWriter /\ saves = 0
  /\ configAt = [w \in Writers |-> "idle"] /\ patch = [w \in Writers |-> <<>>]
  /\ loaded = [w \in Writers |-> NoFile]

\* disabled_tokens: the file's list, an empty one too, before the environment's.
DisabledTokens == IF file["disabled"] = Unset THEN EnvDenied ELSE file["disabled"]

Saves(w, p) ==
  /\ configAt[w] = "idle" /\ saves < MaxSaves /\ saves' = saves + 1
  /\ patch' = [patch EXCEPT ![w] = p]
  /\ configAt' = [configAt EXCEPT ![w] = "save"]
  /\ UNCHANGED <<file, flock, loaded>>

\* A council, a synthesizer, a tracing mode, or two of them.
Configure(w) ==
  \E K \in SUBSET Settings \ {{}} : \E p \in [K -> Values] : Saves(w, p)

\* `set` replaces the list, and `set: []` takes it out of the file; `disable` and
\* `enable` change the list as it is now.
ConfigureDisabled(w) ==
  \/ \E T \in SUBSET Tokens : Saves(w, [k \in {"disabled"} |-> IF T = {} THEN Unset ELSE T])
  \/ \E T, U \in SUBSET Tokens :
       /\ T \cup U # {}
       /\ Saves(w, [k \in {"disabled"} |-> (DisabledTokens \cup T) \ U])

-----------------------------------------------------------------------------
(* save *)

\* Mutant of Lock: the lock is on the file that a save replaces, so two may hold it.
LockReplaced(w) ==
  /\ configAt[w] = "save" /\ flock' = w
  /\ configAt' = [configAt EXCEPT ![w] = "locked"]
  /\ UNCHANGED <<file, patch, loaded, saves>>

Lock(w) ==
  /\ configAt[w] = "save" /\ flock = NoWriter /\ flock' = w
  /\ configAt' = [configAt EXCEPT ![w] = "locked"]
  /\ UNCHANGED <<file, patch, loaded, saves>>

Load(w) ==
  /\ configAt[w] = "locked"
  /\ loaded' = [loaded EXCEPT ![w] = file]
  /\ configAt' = [configAt EXCEPT ![w] = "loaded"]
  /\ UNCHANGED <<file, flock, patch, saves>>

\* What was read, with the patch; a key saved as None is one the file has not.
Merged(w) == [k \in AllKeys |-> IF k \in DOMAIN patch[w] THEN patch[w][k] ELSE loaded[w][k]]

\* write_secure: a file beside it takes its place, at once or, when that fails, not.
Replace(w) ==
  /\ configAt[w] = "loaded" /\ file' \in {Merged(w), file}
  /\ configAt' = [configAt EXCEPT ![w] = "unlock"]
  /\ UNCHANGED <<flock, patch, loaded, saves>>

\* The lock goes, and the tool answers; or the process dies with its lock, and what it
\* half wrote beside the file is never read.
Ends(w) ==
  /\ configAt' = [configAt EXCEPT ![w] = "idle"]
  /\ patch' = [patch EXCEPT ![w] = <<>>] /\ loaded' = [loaded EXCEPT ![w] = NoFile]
  /\ flock' = IF flock = w THEN NoWriter ELSE flock
  /\ UNCHANGED <<file, saves>>

Unlock(w) == configAt[w] = "unlock" /\ Ends(w)

WriterDies(w) == configAt[w] # "idle" /\ Ends(w)

ConfigNext ==
  \E w \in Writers :
    \/ Configure(w) \/ ConfigureDisabled(w)
    \/ Lock(w) \/ Load(w) \/ Replace(w) \/ Unlock(w) \/ WriterDies(w)

ConfigSpec == ConfigInit /\ [][ConfigNext]_configVars

\* A save changes the settings its caller named, to what the caller gave, and leaves
\* every other at what its last save made it, however the saves of several processes
\* overlap and wherever one of them dies.
OnlyNamedSettings ==
  [][\A k \in AllKeys : file'[k] # file[k] =>
       \E w \in Writers : k \in DOMAIN patch[w] /\ configAt[w] = "loaded" /\ file'[k] = patch[w][k]]_configVars
=============================================================================
