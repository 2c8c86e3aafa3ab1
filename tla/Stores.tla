--------------------------------- MODULE Stores -------------------------------
(* The files that the server processes of one machine share: the hub's turns, the    *)
(* configuration, the trail of events, the context store, the code index.  Each is   *)
(* played in a scene of its own: they have no state in common.                        *)
EXTENDS Hub, ConfigStore, TraceStore, ContextStore, CodeIndex

VARIABLE store

storesVars == <<store, hubVars, configVars, trailVars, ctxVars, indexVars>>

StoresInit ==
  /\ store \in {"hub", "config", "trail", "context", "index"}
  /\ HubInit /\ ConfigInit /\ TrailInit /\ ContextInit /\ IndexInit
  /\ store # "hub" => schema = "none"
  /\ store # "index" => /\ model = [i \in Indexers |-> CHOOSE m \in EmbedModels : TRUE]
                        /\ disk = [f \in Files |-> CHOOSE t \in Texts : TRUE]

StoresNext ==
  /\ UNCHANGED store
  /\ \/ store = "hub" /\ HubNext /\ UNCHANGED <<configVars, trailVars, ctxVars, indexVars>>
     \/ store = "config" /\ ConfigNext /\ UNCHANGED <<hubVars, trailVars, ctxVars, indexVars>>
     \/ store = "trail" /\ TrailNext /\ UNCHANGED <<hubVars, configVars, ctxVars, indexVars>>
     \/ store = "context" /\ ContextNext /\ UNCHANGED <<hubVars, configVars, trailVars, indexVars>>
     \/ store = "index" /\ IndexNext /\ UNCHANGED <<hubVars, configVars, trailVars, ctxVars>>

StoresSpec == StoresInit /\ [][StoresNext]_storesVars

-----------------------------------------------------------------------------
(* Properties. *)

StoresTypeOK ==
  /\ schema \in {"old", "none", "new"} /\ now \in 0 .. MaxTurns
  /\ DOMAIN meta \subseteq Keys /\ \A t \in turns : t.key \in Keys
  /\ \A s \in Servers : hubAt[s] \in {"idle", "drop", "create", "open", "write", "sweep", "evict"}
  /\ \A k \in Settings : file[k] \in Values \cup {Unset}
  /\ file["disabled"] = Unset \/ file["disabled"] \subseteq Tokens
  /\ \A w \in Writers : configAt[w] \in {"idle", "save", "locked", "loaded", "unlock"}
  /\ \A p \in Appenders : appendAt[p] \in {"idle", "lock", "rotate", "trim", "write"}
  /\ blobs \in [BlobKeys -> 0 .. MaxWrites]
  /\ \A a \in Agents : ctxAt[a] \in {"idle", "count", "evict", "fetch"}
  /\ hashed \in [Files -> Texts \cup {Gone}]
  /\ \A i \in Indexers : indexAt[i] \in {"idle", "known", "write", "pending", "embed"}

\* What is derived from other tables agrees with them.
DerivedAgrees == MetaTellsTheTurns /\ VectorsTellTheChunks

\* The vectors of an index that embedded while another chunked the project anew stay
\* those of other chunks: nothing embeds them again.
VectorsFit == \A id \in DOMAIN vectors : vectors[id].text = chunks[id].text

\* "the oldest rows beyond the cap are then evicted (newest kept)": a sweep that counted
\* before another's, or one with a cap of one, takes the newest too.
NewestKept ==
  [][\A a \in Agents, n \in Rows :
       EvictRows(a) /\ (\A k \in Rows : blobs[k] <= blobs[n]) => blobs'[n] # 0]_storesVars
=============================================================================
