------------------------------- MODULE CodeIndex -------------------------------
(* codeindex.index: the SQLite file with which several servers, each call in a thread *)
(* of its own, search one project: files with the hash of their text, the chunks of   *)
(* that text, and per chunk id the vector an embedding host gave for it.  A file has   *)
(* one chunk here.  A transaction is one step; what lies between two of them, and     *)
(* above all the minutes of embedding, is open to the other indexers.                 *)
EXTENDS Integers, Sequences, FiniteSets, SequencesExt

CONSTANTS
  Indexers,     \* calls of code_index
  Paths,        \* the files of the project, in the order of the walk
  Texts,        \* what a file may say
  Gone,         \* no file, or none the index takes: blocked, binary, too large
  EmbedModels,  \* what ASK_FABLE_EMBED_MODEL may name
  MaxEdits, MaxIndexings  \* bounds

ASSUME IndexAssumption ==
  Paths \in Seq(ToSet(Paths)) /\ IsInjective(Paths) /\ Gone \notin Texts /\ {MaxEdits, MaxIndexings} \subseteq Nat

VARIABLES
  disk,      \* per path what it says now
  hashed,    \* table files: the text whose hash is recorded
  chunks,    \* table chunks: id -> path and text
  vectors,   \* table vectors: chunk id -> the text embedded and the model
  indexAt,   \* where each call is
  model,     \* the model it embeds with
  listed,    \* the files its walk found
  known,     \* the table of files as it read it
  batch,     \* chunk id -> text it sent to the host
  told,      \* what the last call returned
  raced,     \* a call stored a vector under an id that had become another chunk's
  edits, indexings

tables == <<hashed, chunks, vectors>>
indexVars == <<disk, tables, indexAt, model, listed, known, batch, told, raced, edits, indexings>>

Files == ToSet(Paths)

IndexInit ==
  /\ disk \in [Files -> Texts] /\ hashed = [f \in Files |-> Gone]
  /\ chunks = <<>> /\ vectors = <<>> /\ raced = FALSE /\ edits = 0 /\ indexings = 0
  /\ indexAt = [i \in Indexers |-> "idle"] /\ told = [i \in Indexers |-> "none"]
  /\ model \in [Indexers -> EmbedModels] /\ listed = [i \in Indexers |-> {}]
  /\ known = [i \in Indexers |-> hashed] /\ batch = [i \in Indexers |-> <<>>]

IndexGo(i, place) == indexAt' = [indexAt EXCEPT ![i] = place]

\* The way out, which leaves nothing of what is not committed.
Tells(i, what) ==
  /\ IndexGo(i, "idle") /\ told' = [told EXCEPT ![i] = what]
  /\ batch' = [batch EXCEPT ![i] = <<>>]
  /\ listed' = [listed EXCEPT ![i] = {}] /\ known' = [known EXCEPT ![i] = [f \in Files |-> Gone]]

\* Somebody edits, creates, removes or blocks a file.
Edit(f) ==
  /\ edits < MaxEdits /\ edits' = edits + 1
  /\ \E text \in (Texts \cup {Gone}) \ {disk[f]} : disk' = [disk EXCEPT ![f] = text]
  /\ UNCHANGED <<tables, indexAt, model, listed, known, batch, told, raced, indexings>>

-----------------------------------------------------------------------------
(* The tables. *)

Only(ids, table) == [id \in ids |-> table[id]]
Inserted(rows, table) == [id \in DOMAIN rows \cup DOMAIN table |-> IF id \in DOMAIN rows THEN rows[id] ELSE table[id]]

\* Mutant of Without: no PRAGMA foreign_keys, the vectors stay.
WithoutCascade(db, gone) ==
  LET kept == {id \in DOMAIN db.chunks : db.chunks[id].path \notin gone}
  IN  [chunks |-> Only(kept, db.chunks), vectors |-> db.vectors]

\* DELETE FROM chunks WHERE path = ..., and by ON DELETE CASCADE their vectors.
Without(db, gone) ==
  LET kept == {id \in DOMAIN db.chunks : db.chunks[id].path \notin gone}
  IN  [chunks |-> Only(kept, db.chunks), vectors |-> Only(kept \cap DOMAIN db.vectors, db.vectors)]

\* An INTEGER PRIMARY KEY is one more than the greatest there is, and so may have been
\* a deleted chunk's.
NextId(rows) == 1 + Max(DOMAIN rows \cup {0})

Rechunked(db, f) ==
  LET rest == Without(db, {f})
      new == [id \in {NextId(rest.chunks)} |-> [path |-> f, text |-> disk[f]]]
  IN  [chunks |-> Inserted(new, rest.chunks), vectors |-> rest.vectors]

\* One file after the other, in the order of the walk.
AllRechunked(db, fresh) ==
  LET after[n \in 0 .. Len(Paths)] ==
        IF n = 0 THEN db
        ELSE IF Paths[n] \in fresh THEN Rechunked(after[n - 1], Paths[n]) ELSE after[n - 1]
  IN  after[Len(Paths)]

-----------------------------------------------------------------------------
(* One call. *)

IndexWalk(i) ==
  /\ indexAt[i] = "idle" /\ indexings < MaxIndexings /\ indexings' = indexings + 1
  /\ listed' = [listed EXCEPT ![i] = {f \in Files : disk[f] # Gone}]
  /\ IndexGo(i, "known")
  /\ UNCHANGED <<disk, tables, model, known, batch, told, raced, edits>>

ReadKnown(i) ==
  /\ indexAt[i] = "known" /\ known' = [known EXCEPT ![i] = hashed] /\ IndexGo(i, "write")
  /\ UNCHANGED <<disk, tables, model, listed, batch, told, raced, edits, indexings>>

\* New and changed files, or all of them when forced, are chunked anew; known files
\* that the walk did not find, or that cannot be read any more, are removed.
WriteChunks(i) ==
  /\ indexAt[i] = "write" /\ IndexGo(i, "pending")
  /\ \E force \in BOOLEAN :
       LET readable == {f \in listed[i] : disk[f] # Gone}
           fresh == {f \in readable : force \/ known[i][f] # disk[f]}
           lost == {f \in Files \ readable : known[i][f] # Gone}
           db == Without(AllRechunked([chunks |-> chunks, vectors |-> vectors], fresh), lost)
       IN /\ chunks' = db.chunks /\ vectors' = db.vectors
          /\ hashed' = [f \in Files |-> IF f \in fresh THEN disk[f] ELSE IF f \in lost THEN Gone ELSE hashed[f]]
  /\ UNCHANGED <<disk, model, listed, known, batch, told, raced, edits, indexings>>

\* The chunks without a vector of this model; none is as good as embedded.
ReadPending(i) ==
  /\ indexAt[i] = "pending"
  /\ LET missing == {id \in DOMAIN chunks : id \in DOMAIN vectors => vectors[id].model # model[i]}
     IN IF missing = {} THEN Tells(i, "semantic")
        ELSE /\ batch' = [batch EXCEPT ![i] = [id \in missing |-> chunks[id].text]]
             /\ IndexGo(i, "embed") /\ UNCHANGED <<told, listed, known>>
  /\ UNCHANGED <<disk, tables, model, raced, edits, indexings>>

\* No host answers, or not with as many vectors as there are chunks.
EmbedFails(i) ==
  /\ indexAt[i] = "embed" /\ Tells(i, "keyword")
  /\ UNCHANGED <<disk, tables, model, raced, edits, indexings>>

\* A vector whose chunk is gone breaks the foreign key, and with it the transaction.
StoreVectors(i) ==
  /\ indexAt[i] = "embed"
  /\ IF DOMAIN batch[i] \subseteq DOMAIN chunks
     THEN /\ vectors' = Inserted([id \in DOMAIN batch[i] |-> [text |-> batch[i][id], model |-> model[i]]], vectors)
          /\ raced' = (raced \/ \E id \in DOMAIN batch[i] : chunks[id].text # batch[i][id])
          /\ Tells(i, "semantic")
     ELSE UNCHANGED <<vectors, raced>> /\ Tells(i, "error")
  /\ UNCHANGED <<disk, hashed, chunks, model, edits, indexings>>

\* The database stays locked for too long, or the process dies.
IndexBreaksOff(i) ==
  /\ indexAt[i] # "idle" /\ Tells(i, "error")
  /\ UNCHANGED <<disk, tables, model, raced, edits, indexings>>

IndexNext ==
  \/ \E f \in Files : Edit(f)
  \/ \E i \in Indexers :
       IndexWalk(i) \/ ReadKnown(i) \/ WriteChunks(i) \/ ReadPending(i) \/ EmbedFails(i)
         \/ StoreVectors(i) \/ IndexBreaksOff(i)

IndexSpec == IndexInit /\ [][IndexNext]_indexVars

-----------------------------------------------------------------------------
(* What the index promises. *)

\* A recorded file has the chunk of the recorded text, no other file has one; no vector
\* is without a chunk, and every vector is of its chunk's text, whoever chunks, embeds
\* and gives up when, unless a call stored it under an id that was another's by then.
VectorsTellTheChunks ==
  /\ \A f \in Files :
       LET ids == {id \in DOMAIN chunks : chunks[id].path = f}
       IN  /\ Cardinality(ids) = (IF hashed[f] = Gone THEN 0 ELSE 1)
           /\ \A id \in ids : chunks[id].text = hashed[f]
  /\ DOMAIN vectors \subseteq DOMAIN chunks
  /\ ~raced => \A id \in DOMAIN vectors : vectors[id].text = chunks[id].text
=============================================================================
