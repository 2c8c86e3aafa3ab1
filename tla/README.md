# ask-fable in TLA+

ask-fable is an MCP server: one Python process per client session, an asyncio
event loop with worker threads, through which an agent asks other models for
second opinions.  Several such processes run on one machine at once and share
files, SQLite databases, a local LM Studio server and, over the network, one
context bus.  This directory models the parts of it in which an order of events
nobody wrote a test for could do harm, checks them with TLC, and proves the most
important of the properties with TLAPS.

- [The system](#the-system): the inventory
- [The modules](#the-modules): what models what
- [The runs](#the-runs): what is checked, with which bounds
- [What is proved](#what-is-proved)
- [Where code and documents differ](#where-code-and-documents-differ)
- [What is not modelled](#what-is-not-modelled)
- [The plan](#the-plan)

To check a run: `tlc -workers 2 -config CliGate_calls.cfg MCCliGate`.  The first half of a
configuration's name is its module, with `MC` before it (`Breaker_calls` runs `Breaker`
itself).  To check the proofs: `tlapm
SharedProofs.tla`, and likewise for the other `*Proofs` modules.  `PROJECT.json`
lists the runs, for each property a change of the code that breaks it, the lines
each definition translates, the hazards and the theorems.

## The system

Paths are relative to `src/src/ask_fable/`.

| Component | State | Operations | Talks to |
|---|---|---|---|
| CLI gate (`cli_gate.py`) | a counting semaphore per binary; per call an Event and a process handle | `run_cli`, `run_cli_async` with capped and plain readers, kill, cancel | CLI bridges and the sandbox call it; it starts processes |
| Circuit breaker (`health.py`) | per oracle: outcome window, time of the trip, quota hold | `should_skip`, `record_success`, `record_error`, `record_quota`, `snapshot` | asked and told by `oracles.py` |
| Oracle calls (`oracles.py`, `cache.py`) | a semaphore per fan-out, the answer cache, telemetry events | `run`, `run_bounded`, `_run`; `get`, `put` | breaker, bridges, denylist |
| Multi-turn asks (`server.py`, `sessions.py`, `fable.py`, `opus.py`, `fable51.py`) | session store and a lock per session; the model ladder | `ask`, `ask_opus5`, `reset`; demotion; pinning | SDK, CLI and HTTP transports |
| Names and admission (`oracles.py`, `server.py`) | none | aliases, groups, tiers, hosted tokens; what each panel's handler refuses, who it asks, who merges | stand before the panels |
| Council, debate, chain, conference (`server.py`, `debate_ledger.py`, `conference.py`) | one request's panel, ledger, transcript | fan-out, harvest, synthesis; propose, refute, revise, rebut, adjudicate; blind round, attack on the premise, open rounds, map | oracle calls, answer cache |
| Falsification (`falsify.py`, `falsify_ledger.py`, `reputation.py`) | the stored ledger, the reputation store | rounds of assert and attack turns, versioned save, report | context store, oracle calls, sandbox |
| LM Studio bridge (`lmstudio.py`) | in-flight and generating counts, unload claims, two locks | load decision with fallbacks and swap, chat, unload | one LM Studio server shared by processes |
| Dispatch (`oracles.py`, `websearch.py`) | none | from a token to its bridge: denylist, GLM's fallback, the local CLI preferred to a gateway | configuration, bridges |
| HTTP bridges (`anthropic_http.py`, `openai_compat.py`, `atlas.py`, `openrouter.py`, `ollama.py`, `ali.py`, ...) | one call's deadline and retries; OpenRouter's cached catalog of efforts | one call, with retry, rejected field, paused search turns; catalog lookup | HTTP |
| CLI bridges (`codex.py`, `gemini.py`, `grok.py`, `kimi.py`, `minimax.py`, `fable.py`) | kimi: a directory per process and effort | what is refused before a spawn, what each end of a process becomes | CLI gate |
| Context bus (`context_busd.py`, `context_bus.py`, `context_hwm.py`, `context_crypto.py`) | the owner's database; each client's high-water marks | put, get, delete, sweep; backup and restore | clients over HTTP |
| Context store (`context_store.py`) | local rows with versions, the last error of a process | put, get, delete, list, sweep; a question's references | handlers, falsification |
| Session hub (`hub.py`) | SQLite tables of turns and of sessions | mirror, sweep, prune, rebuild of an old table | every handler mirrors turns to it |
| Event trail (`trace_store.py`) | an active file and its segments, one lock | append, rotate, trim, read in either direction | everything writes, the console reads |
| Configuration (`config.py`) | one JSON file and its lock | load, save, `configure_*` | read on every call |
| Code index (`codeindex.py`) | SQLite per project: files, chunks, vectors | index, search, status | an embedding host |
| Text and reports (`guard.py`, `redaction.py`, `sidecar.py`, `prompts.py`, `verify.py`, `verify_metrics.py`, `diagnose.py`, ...) | none | pure functions | handlers |

What is hard in it, and where:

- *A thread outlives the coroutine that waits for it.*  asyncio can cancel an
  await, never a thread.  Everything that counts or locks on behalf of a call
  must be right whichever of the two leaves first (CLI gate, LM Studio).
- *State shared by calls that overlap.*  The breaker, the ladder and the session
  store are read before an await and written after it.
- *Several processes.*  Ledger, cache, hub, configuration, event trail, context
  store, code index and LM Studio are shared without a common lock, or with a
  best-effort one, and any process may fail or die between two statements.
- *Clocks.*  The bus orders values by timestamps of machines that agree to
  within a minute; its owner may come back with an older database.
- *Deadlines.*  A budget is split among a queue, a run and drains; a panel is
  cut off while its members answer; a debate may stop at any await; a bridge
  retries, leaves a field out and continues a paused turn under one deadline.
- *Partial failure.*  One of several steps fails, and what is reported,
  recorded and cached must fit the steps that were done.

What makes each part correct is listed with its module below, and per source
line under "hazards" in `PROJECT.json`.

## The modules

Each `X.tla` is a specification with CONSTANTS for everything that varies,
`MCX.tla` gives TLC its instances, `XProofs.tla` holds the theorems.  Properties
stand at the end of a specification, or of the module that composes several.  A
*mutant*, a variant of a definition with a plausible bug that breaks one property
under the configuration of its run, stands right before the definition it varies.
`OracleRun` extends `Breaker`, `Falsify` extends `FalsifyLedger`; `Panels`, `Bridges`
and `Stores` compose the modules named with them below.  The components of
`Bridges` and `Stores` have no state in common, so each composition plays them as
*scenes*: the first state picks one, and only its actions are taken.

### CliGate, SlotPool

`run_cli_async` is two actors, the coroutine (`caller`) and the pool thread
running `run_cli` (`phase`), over a child process (`leader`) and whoever else
holds its pipes (`pipe`).  The actions are the code between two blocking
primitives: acquire, Popen, `_ProcHandle.set` and `kill`, communicate, the drains,
the two joins of the capped reader, release, cancel.  Time is a count of ticks
and passes only inside the primitives.  `SlotPool` is the abstract promise, a
pool of `Limit` slots whose users always give them back; `CliGate` implements it.

Left out: creation of the gate dictionary, stdin, the text that is read.

### Breaker

One oracle's breaker under concurrent calls, each of which looks at it once
before its backend call and records one outcome after it.  The clock is two
counts (since the trip, until the end of the hold).  The switch and the base of
the quota hold come from the environment on each call, so they may change
between any two.  `Breaker.reset` has no caller and is no action; a window size
changed while the process runs is left out (the deque is built once).

### OracleRun

EXTENDS Breaker with what `oracles.py` does around a call: the semaphore of a
fan-out, the denylist, the answer cache, one telemetry event per attempt, and
cancellation at both awaits.  `OnlyAnswersJudge` traces every outcome in the
breaker's window back to a call that came back from the backend with it.  The
breaker's settings change between its steps as in Breaker.  One laddered Anthropic
key; the uncached web-search branch of `run` and other processes that share the
cache file are left out.

### ClaudeAsk

The session store, the lock of each session, the pipeline of
`_handle_claude_ask` and `reset`, and `fable.run` with its transport plan and the
model ladder shared by all sessions.  One action runs from one await to the
next.  A conversation lives at the provider: who opened it, with which model, which
asks it was sent.  An ask that is refused, times out or is cancelled may have been
sent or not (`Sent`): the provider then holds a turn that no transcript has.  The operator re-pins the ladder only while no bridge
call is under way (the setting is read at its start).  `Unnamed` names the
transports whose answer may lack a session id (in the run, the CLI).  Left out: telemetry, hub mirror,
audit, the saved output, the guard's decision.

### ContextBus

The owner daemon (`rows`, its write floor, future check, retention sweep, skew
check), its clients (one request at a time, given up after a timeout, which may
still reach the daemon: `late`), and each client's rollback guard (`marks`).  The
owner takes and restores backups; a guard database may fail at any read.
Assumed: the daemon's clock does not go back, put and sweep are one step (one
thread's), a client is a machine with its own guard database, the timestamp of
the request is that of the value, and every client is honest.

### LmStudio

Calls and removals of several processes over one LM Studio server.  A call is a
worker thread that decides what to load (fast path, `_LOAD_LOCK`, file lock,
re-check, load, smaller window, floor probe, swap with restore) and a coroutine
that counts itself in flight, checks the catalog again and sends the chat from
another thread.  A refcount is represented by the set of its holders, a claim
by its owner.  Swap and restore take residents in any order (the code's order is
the catalog's); memory is counted in the unit of windows; the floor probe's
instance costs none.  Left out: model-name matching, ceilings per model and
host, builds that report no window, the control page's room check, loads that
finish after their own timeout.

### FalsifyLedger, Falsify

`FalsifyLedger` holds the clerk's operators on a ledger of claims: assert,
support, attack, kill, answer, reopen, advance, and the signature that detects a
fixpoint, with the reputation book they keep.  `Falsify` runs them: several
processes' runs over one versioned row and one reputation store, with the two
turns of each round, the save after each round, store errors, runs that die,
and an agent that deletes the key.  A claim's id stands for its text.  Left out:
parsing of the models' blocks, the sandbox (its verdict is a choice), the choice
of the assertor, a corrupt row, the bus backend (which has no version check).

### Names, Admission, Panel, Council, Chain, Debate, Conference, Panels

One request to a panel tool, from the caller's words to the payload.  `Names` is
how words name models: aliases, groups that stand for several, hosted tokens two
of which may spell one id.  `Admission` is each handler before its panel: what is
refused at once, who is asked, who merges (for a gateway's council as well).
`Panel` holds what the tools share: a model's answer reduced to its status,
recommendation, confidence and whether it was cut off, and the handler's return
with the decision to cache.  `Council` is `_council`: seats asked at once and cut off
by the deadline, or one at a time over an LM Studio box, where a seat's load and
chat are threads that go on when its turn has timed out (`thread`, `resident`), and
each model the panel loaded is unloaded after its turn; then `_consensus`, the
gate of independent labs, the synthesizer with Fable behind it, and the envelope.
`Chain` is the stages under one timeout with the rescue of the survivors.  `Debate`
is propose, refute, revise, rebut, adjudicate with a failed turn or an unreadable
ledger anywhere and the timeout at every await; a ledger is the set of claim ids
it contests or closes (`debate_ledger`'s predicates).  `Conference` is the blind
round, the premise the openings share and the attack on it, the open rounds over
as much of the transcript as fits its budget, and the rapporteur's map; any turn
may say nothing, and two seats may share a label.  `Panels` takes one request.
Left out: what each model is shown, answers served from the cache, a cancelled
request.  One request at a time uses the LM Studio box.

### Bridge, HttpBridge, CliBridge, Dispatch, EffortCache, Bridges

`Bridge` is what all bridges return and how a reply or a failure is classified,
and which results count against the breaker.  `HttpBridge` is one call over the
Anthropic or the OpenAI wire: POSTs under one deadline with the one transient
retry, an optional field that may be rejected and is then left out, paused search
turns that are continued.  A provider stops at an end, a cap, a pause, a refusal, or
for a reason the bridges do not look for (`"filter"`).  `CliBridge` is what is refused before a spawn and what
each end of a process becomes, and the home directories that kimi calls of all
processes share and write their effort to.  `Dispatch` is the way from a token to its bridge
on a host with any CLIs installed, keys configured and providers denied.
`EffortCache` is OpenRouter's catalog, looked up by concurrent panel members under
the lock one of them holds while it downloads.  `Bridges` plays a call, lookups,
or kimi calls.  Left out: request bodies, usage figures, model
menus; the process itself is CliGate's.

### Hub, ConfigStore, TraceStore, ContextStore, CodeIndex, Stores

What the servers of one machine share on its disk; an action is one statement or
system call that others may come between, and a process may fail or die at any.
`Hub`: the rebuild of an old `session_meta`, mirrored turns, the sweep, `prune_junk`.
`ConfigStore`: `save` under its lock, the `configure_*` tools, the denylist as file
and environment give it.  `TraceStore`: appends of one or two bytes under the
lock, rotation, trimming, lines torn by a full disk, readers without a lock, of whom
is kept which lines they went through, readable or not.
`ContextStore`: put, get, delete and list of the local backend with the one
`last_error` a process has, the sweep, the handlers `context` and `context_read`, and
what the references of a question come to.  `CodeIndex`: concurrent calls that walk
the project, replace the chunks of changed files in one transaction, read what
is still to embed, embed, and store vectors.  `Stores` plays one of the five.  Left
out: the dashboards, what an event, a pack or a chunk contains, a file broken by
hand, search.

## The runs

Every run below ends within a few minutes with two workers.  All are finite
because the environment's moves are bounded by CONSTANTS; which bounds, and why
they suffice:

| Run | Instance | Question |
|---|---|---|
| `CliGate_calls` | 2 calls of one binary, one with the capped reader, limit 1, timeout 2, drain 1, pipes held for ever | `SlotsConserved`; `NoStray`: no child outlives its call, a kill misses nobody; `WallTime`: the budget covers queue and run; `ImplementsSlotPool`, with fairness |
| `Breaker_calls` | 3 calls, window 6, minimum 5, cooldown 2, holds up to 3, the switch flips | `NoSilentTrip`; `ChronicFailureTrips` whatever holds there were; `TripRestsOnFreshSamples`; `EveryShedEnds` |
| `OracleRun_calls` | 3 calls, 1 question, fan-out of 1, window 2, quota holds switched on and off | `EveryAttemptRecordedOnce`; `CacheTellsTheTruth`; `OnlyAnswersJudge`: no impatience counts against a backend; `EveryQueuedCallEnds` |
| `ClaudeAsk_sessions` | 3 requests, 2 sessions, 4 installations, 2 transport plans, one pin, CLI answers with and without an id | `ConversationIsItsOwn`: what a session resumes is its own asks, unforked; `NothingLost`: nothing answered is lost |
| `ContextBus_synced` | 2 clients with agreeing clocks; one key and a late request, or puts to 3 keys with a cap of 2 rows and a sweep every 2 puts | `HonestPeersServed`: neither refused nor dropped; `AcknowledgedIsPublished` |
| `ContextBus_rollback` | 2 clients, 1 key, one clock far ahead, restores, guard faults | `NoRollback`: no client reads back in time; `FloorNotPoisoned`: the fast clock blocks nobody |
| `LmStudio_samemodel` | 2 impatient calls and a removal of one model with a window too small for the prompt, one call may swap | `BusyKept`: no claim on a model with a chat; `NoSilentTruncation`; `WorkersEnd` |
| `LmStudio_swap` | 3 calls, 4 models, 2 residents, a broken file, unloads and chats that fail | `SwapRestores`: what a swap unloads comes back or made room |
| `Falsify_runs` | one run of up to 2 rounds on 2 claims, 2 rows a turn, the key deleted at any moment; or overlapping runs of 2 processes on one claim with a store error | `SurvivalIsEarned`; `BooksAgree`: kills counted once, only stored outcomes reported; `NothingForgotten`: no run overwrites what it has not seen; `DeadUnlessAnswered` |
| `Panels_requests` | councils of up to 3 seats, 2 of them local, an unknown name, 4 denylists, one that spells a hosted model otherwise; chains of up to 3 stages; debates of 2 claims and 1 or 2 rounds; conferences of up to 3 seats and rounds with a transcript of 5 turns | `StrongIsEarned`: consensus is of everyone asked; `BoxLeftAsFound`, or known not to be; `VerdictsHoldUp`: a debate cut short says so, nothing degraded is cached; `HeardAsAsked` |
| `Bridges_calls` | any token, host and failure; 2 windows of 3+1 time units, one retry, one continuation; 2 lookups of 2 models; 2 kimi calls of 2 efforts | `NoFalseAnswer`, but for three stops; `OneDeadline` covers the retries; `CountedAsLastMet`: against a backend counts what its last attempt met; `RoutedAsAllowed` by the denylist; `OneDownloadPerWindow`; `RunsItsOwnEffort` |
| `Stores_calls` | 2 processes of each kind: 4 turns, cap 2; 3 saves; 4 events, files of 2 bytes, 2 reads; 3 keys, cap 2, 4 calls; 3 indexings of 2 files and an edit | `DerivedAgrees`: the hub's counts are of the turns (`MetaTellsTheTurns`), the index's vectors of the chunks (`VectorsTellTheChunks`); `TrailInOrder`; `NeverAskedBlind`: no question without a blob that could not be read; `OnlyNamedSettings` |

*Why the bounds are enough.*  The races modelled are between two actors (a
worker and its caller, a loader and a remover, two saves), so two calls meet
them; the third call is there to be queued behind, to be the bystander, or to be
in flight across a trip.  Limits of one slot, one window above the minimum of
samples, caps of two rows, files of two bytes and one time unit of slack put each
counter at its limit within a few steps.  The larger instances one can afford
show no more: the code index was also checked with a second edit (2.0 million
states).  Where a run has two uses (ContextBus, Falsify) the first state picks
one, because the product of their bounds would be too large and neither needs the
other's.  Symmetry is declared over the identities of calls,
sessions, clients, keys and claims where the configuration does not tell them
apart, never in a run that checks liveness.  Deadlock is not checked where the
system has a last step (all requests answered, all runs over).

*Fairness.*  Only weak fairness is used, and only of what the system itself goes
on doing:

- CliGate: a pool thread that has started and the event loop that delivers its
  result or calls `kill` are scheduled; time passes, so a primitive with a
  timeout returns.  No call has to come, no caller to cancel, no child to exit or
  to let go of its pipes.
- Breaker, OracleRun: time passes; a call in flight ends (every bridge has a
  timeout), with any outcome, for ever the same if it likes; a call queued on the
  semaphore that finds a free slot takes one.
- LmStudio: each worker that can run does; an instance told to go is dropped
  in the end.
- ClaudeAsk, ContextBus, Falsify, Panels, Bridges, Stores: safety only, no fairness.

## What is proved

Theorems hold for every value of the constants that satisfies the named
assumptions; the runs show the same on one instance.

- **SharedProofs.**  What a machine's processes share.  Of the CLI gate: `TypeCorrect`, `NoStrayHolds`, `WallTimeHolds`,
  `SlotsConservedHolds`, `GateBoundHolds`, `GateIsSlotPool`.  Three inductive
  invariants.  *ChildInv* ties the phase of the worker to the state of the child
  and of the handle: `NoStray` alone is not inductive, since a return is safe only
  because every path to it has reaped or killed.  *BudgetInv* says how much of the
  budget each phase can have used.  *SlotInv* counts the free slots against the
  workers that are between acquire and release; its steps are cardinality
  arguments over a set that gains or loses one element.
  Of the stores: `OnlyNamedSettingsHolds` of the configuration store by itself
  (from *HeldInv*: who is past the lock is its only holder, and what it loaded is
  still the file), and `NeverAskedBlindHolds` of the context store (from *FetchInv*:
  what a call has been told of its references so far is what the store answered
  it, reference by reference, although all calls of a process share one
  `last_error`).  `MetaTellsTheTurnsHolds` (the hub's half of `DerivedAgrees`), from *HubInv*: counting up in
  the transaction of a write is right because the turn is new, which dates show (no two
  turns, stored or in a process's hands, have the same); and a table that lacks rows was
  dropped at some time, since an old one has none and must be.
  `TrailInOrderHolds`, for any limits and any number of segments kept, from two
  invariants.  *FilesInv*: a segment's stamp lies between the events before its renaming
  and those after it, so that removing the segment of the lowest stamp takes the oldest
  events (one in excess has no older one that is not, which compares cardinalities), and
  a line without an end, which the next write swallows, is of an event nobody
  was told is stored.  *ReadersInv*: the stamps a reader has listed rise or fall with its
  direction, and what will be read under each, whatever has become of the file by then,
  lies beyond what the reader has gone through; the active file counts as beyond every
  stamp because what is renamed under a listed name is never there twice.
  `VectorsTellTheChunksHolds`, for any walk, from *IndexInv*: a file the index knows has
  one chunk, of the text whose hash is recorded, and the rows' numbers are bounded, so
  that the next number is of no row that is left (it may be of one deleted: that is how
  the race of two calls gives a chunk another's vector, and why the property excepts
  it).  The loop over the walk is a recursive function of the position; that it exists
  and keeps the invariant is shown by the first position at which it would not.
  `StoresGoTheirOwnWays`: a behaviour of Stores is one of each store by itself, so what is
  proved of one holds beside the others; with it the two halves give
  `DerivedAgreesHolds` of the composition.
- **BreakerProofs.**  `BreakerTypeCorrect`, `NoSilentTripHolds`,
  `TripRestsOnFreshSamplesHolds`, from *BreakerInv*: the window's marks of fresh
  samples are a suffix of it and its length is bounded.  `ChronicFailureTripsHolds`, for
  a window that can hold _MIN_SAMPLES, from *FailingTail*: the errors in a row are the
  end of the window, as far as it reaches.  Then of OracleRun:
  `EveryAttemptRecordedOnceHolds` (from *AttemptInv*: a call has touched the backend
  iff it is at it or past it, and has emitted no event before its end),
  `OnlyAnswersJudgeHolds` (from *JudgeInv*: there is an injection from the window's
  places to calls that ended as the place says; a call is in no window before it has
  ended, so whoever ends takes a new place, and a window that ages only gives places
  up), and `CacheTellsTheTruthHolds` (from *CacheInv*: every entry is whole and was
  answered by the model it is stored under).
- **ClaudeAskProofs.**  `ClaudeAskTypeCorrect` from *LockInv*: an ask at its bridge
  holds its session's lock and has a transport of its plan and a model of the ladder
  (that a set of rungs has a first one is well-foundedness).  `NothingLostHolds`, on a
  disk that takes what is written, by what each step does to who was answered and to
  where turns are kept.  `ConversationIsItsOwnHolds`, whichever
  transports leave out the session id, from *ConvInv*: the property alone is not
  inductive, since an ask is appended to the conversation it *resumes* and its answer
  to the transcript of the session it *holds*.  These stay the same because an ask
  resumes what its session would or nothing (*Resumes*: whoever clears or resets a
  session holds its lock, so nobody is at its bridge), because a conversation belongs
  to the one session whose ask opened it (*Owned*), so that no other session's turn can
  reach it, and because what is in it, and what is in a transcript, was asked by
  someone who is over (*Past*), so that an ask that is sent comes last in both.
- **ContextBusProofs.**  `BusTypeCorrect`, `NoRollbackHolds` (from *GuardInv*: what
  a client has accepted is no newer than its mark plus the slack, whatever
  the owner restores), and with agreeing clocks `SyncedReadsServed`,
  `SyncedPutsStored` and both together, `SyncedPeersServed` (from *PeersInv*: every
  timestamp anywhere, in rows, requests, replies or marks, is no later than now,
  and a mark is no further above the row than the slack).  Whatever the clocks show:
  `FloorNotPoisonedHolds` from *FloorInv* (no row, in the database or in its backup, is
  dated further ahead of the daemon's clock than the slack), and
  `AcknowledgedIsPublishedHolds` by counting what a sweep leaves of a writer's rows, for
  every cap but one, where it leaves nothing: see the disagreements below.
- **LmStudioProofs.**  `BusyKeptAlways` (from *KeyInv*: a coroutine past its count
  holds it, and a claim excludes it), `OneLoaderAlways` (from *LockInv*: who is
  inside the decision holds both locks), and `NoSilentTruncationHolds` from *CalmInv*:
  an answer given as clean was computed in a window that holds its prompt.  The argument
  is about the instance a call looked at (*Held*: asked for, large enough, and first in
  the catalog).  Between the re-check before the send and the answer nothing may take
  its place.  A load adds an instance only of a model that has none but LM Studio's own
  (*Loads*, since one worker at a time is in the locks and has found it so); an instance
  told to go is the one that a worker of this process waits for and claims
  (*LeavingInv*, *Waits*), so by *KeyInv* no chat in flight is on its model; and a model
  with a chat in flight is loaded, so LM Studio does not load it by itself.  What a swap
  restores is a model that is out (*Out*), and each model once (*OnePerModel*): without
  these a restore could put a small instance beside the one that was looked at.  The
  theorem is of an *undisturbed* session: one process, unloads that are carried out in
  time, a catalog readable before the send, a model loaded once at most at the start,
  and either no caller that leaves, or no swap (`lmstudio_swap` is "never" by default)
  and no prompt that fits LM Studio's own window.  TLC checked *CalmInv* on six small
  instances of these before it was proved.  Each of one process, unloads in time, the
  readable catalog and the two of the last condition is needed: the disagreements below
  have a run against each.
- **BridgesProofs.**  Of the composition: `OneDeadlineHolds` (from
  *DeadlineInv*: a call's window began after as many whole windows as turns were
  heard), `OneDownloadPerWindowHolds` (from *EffortInv*: of the catalog's downloads only
  the last may be unfinished, and then the holder of the lock makes it),
  `RunsItsOwnEffortHolds` (from *HomeInv*: a home holds no other effort than the one it
  is named for).  `NoFalseAnswerHolds`, `CountedAsLastMetHolds` and
  `RoutedAsAllowedHolds` from two invariants of a call.  *CallInv* says what a
  result may say of its answer, per classifier and per way a CLI returns, and that
  the first spoken turn exists (each heard turn keeps it, so no induction over
  sequences is needed); *RouteInv* ties the place of the call to whom it has reached
  and to what it may still be turned away with.
- **FalsifyProofs.**  First the clerk's operators: whatever one row, one check or the
  end of a round does to a ledger, the ledger *grows* (claims, receipts and kills are
  only added to); it stays *orderly* (each claim is dead exactly where an accepted kill
  stands unanswered, and what it has withstood lies after its last kill), its claims
  meet the *fates* they may, and its *books* count each kill and each death once.  Then
  the runs: `FalsifyTypeCorrect`; `SurvivalIsEarnedHolds` from *SoundInv* (every copy of
  a ledger, stored or in a run, is orderly and has its books right); `BooksAgreeHolds`
  from *ToldInv* (what a run that persisted all it did is about to report has been
  stored).  Where keys are not deleted, an assumption of the theorems and not of the
  module: `NothingForgottenHolds` from *SeenInv* (versions only rise, and a run whose
  version is the row's has grown its copy from the row), `DeadUnlessAnsweredHolds` from
  *FateInv* (and has done to its claims only what may be done).  With deletion a version
  can come round again, and `NothingForgotten` fails: see the disagreements below.

- **PanelsProofs.**  Of the composition, for any seats, labs, answers, claims and names
  (`ListsAssumption`: what the caller's lists come to are sequences of seats; what is
  assumed of the names is what `_validate_groups` refuses to import without,
  `NamesAssumption`, and that a denial names models, `DenialsAssumption`).
  `StrongIsEarnedHolds` from *CouncilInv*: the panel is finite and no larger than what
  was asked for, only its seats answer, and all of them have before a synthesis, two at
  least; as many votes as were asked for are then the votes of the whole panel, which is
  an argument about cardinalities.  `BoxLeftAsFoundHolds` from *BoxInv*: a load under
  way is that of the seat whose turn it is, since the unload takes the lock a load
  holds, so a thread that outlives its turn can only chat.  It assumes that no slot
  names a model of the box for the merger; `BoxButTheMergerHolds` needs no assumption
  and says what is left otherwise (see the disagreements below).
  `VerdictsHoldUpHolds` from *DebateInv*: between two turns the proposal stands until
  the third turn revises it, nobody has ruled, nothing was dropped, and what is open is
  what the opponent's ledger names less what the proposer's closes.  That has to be
  proved of the turns taken so far (*OneMore*: what one more turn adds to who was heard
  and to the ids named), because a timeout may end the debate between any two of them.
  `HeardAsAskedHolds` from *ConferenceInv*: the bench names no model twice and only
  models that were asked for, and seats are missing just where it does not name all of
  those; the speakers are whoever is on the transcript, each once; the turns of the
  blind round come before any other, and whoever reads a part reads them.  That as many
  were heard as were asked for then means that all were.  The loops over names
  (`Expanded`, `Kept`, `FirstSeen`, `AllSpeaking`) are functions of the turn they have
  come to; that they exist, and what they have gathered by each turn, is proved by the
  first turn at which it would fail (*EachTurn*, *LoopExists*), which needs no induction
  over an operator.

Only model-checked: everything about liveness (out of the prover's reach), and
`SwapRestores` of LmStudio, which does not hold of every instance (see the
disagreements below).  The instance of `LmStudio_samemodel`, where callers leave and one
call may swap, lies outside `NoSilentTruncationHolds`: there the run is the evidence.

## Where code and documents differ

Disagreements met while modelling.  The first list names a property TLC finds
violated when it is checked with the configuration of the run named, with the
changes given in brackets.

CliGate, Breaker (`CliGate_calls`, `Breaker_calls`):

- `WallTimeAsDocumented` [one capped call, Timeout 1, PoolSize 1]: with a capped
  reader `run_cli` takes two drains after its budget, not the one its docstring
  names (cli_gate.py:209-210 against 231-232).
- `OneProbe` [two calls, Window 5, Switches {TRUE}, HoldBases {0}]: a half-open
  breaker lets every caller probe (health.py:263; docs/GUIDE.md:490-492 speaks of
  one).  `ChronicFailureTrips` [one call, Window 3, HoldBases {0}]: a window below
  five samples never trips (health.py:226, 49).

ClaudeAsk (`ClaudeAsk_sessions`):

- `ResumeMatchesModel` [one session, two asks, Pins {floor}]: a session is resumed
  with another model after the ladder moved (server.py:2873 against 2679-2680).
- `NothingLost` [one session, two asks, Pins {}, DumpMayFail TRUE]: a reset drops a
  session whose transcript could not be written (sessions.py:150 against 7-9).
- `ConversationIsTranscript` [as it is, also with Unnamed {}]: a turn that is refused,
  or that times out or is cancelled after its query was sent, stays in the conversation
  the session resumes, but is recorded in no transcript (fable.py:709, 782-786,
  854-861; server.py:2891-2918 against sessions.py:3-5).  And an ask that fell one rung down answers
  in a fresh thread; when that answer has no session id the old one is kept, so the
  next turn resumes a conversation that lacks the last (sessions.py:135 against 3-4).
  `ConversationIsItsOwn` is what remains true.

ContextBus (`ContextBus_synced`):

- `HonestPeersServed` [three clients, one key, Offset WithinSkew, Cap 0]: the floor
  can sink in steps of the slack, so a reader refuses an honest value
  (context_busd.py:440 against context_hwm.py:19-21).
- `AcknowledgedIsPublished` [two keys, Ops {"put"}, Cap 1]: with a cap of
  one row the sweep deletes the row just acknowledged (context_busd.py:239).

LmStudio (`LmStudio_swap` with Broken {}, and two calls, Calls and MaySwap {c1, c2},
unless said):

- `SwapRestores` [Models {a, b}, Capacity 9, Residents OneA, Faults {"appear"}]: a model that never appears costs the swapped residents
  (lmstudio.py:1227 against 845-847).
- `EachVacatedForRoom` [Models {a, b, d}, Faults {}]: the
  swap unloads one resident more than the needed window requires (lmstudio.py:1177
  against 38).
- `GenerationKept` [Models {a, b}, Residents OneA, Impatient {c1, c2}, Faults
  {"unload"}]: a cancelled chat's thread is for a moment counted nowhere
  (lmstudio.py:1448 against 642-643).
- `NoSilentTruncation` [Calls {c1}, MaySwap {}, Models {a, b}, ModelOf SameModel,
  Residents OneA, and either Procs {p1, p2}, ProcOf RemoverApart, Faults {}, or Faults
  {"recheck"}, or Faults {"unload"}]: another process's unload, an unreadable catalog,
  or an unload the server carries out after the wait for it ended, between the re-check
  and the chat, lets a prompt be cut silently (lmstudio.py:1386-1388).
  It fails in one process too, through a caller that left and whose thread still sends
  its chat, uncounted: LM Studio then loads the model at its own window.
  [MaySwap {}, Models {a, b, d}, ModelOf SameModel, Jit 3, Impatient {c2}, Faults {}]:
  a prompt that fits that window finds such an instance and is sent; the instance idles
  out, and another call, which finds no room for the default window, loads a smaller
  one that the chat then reaches.
  [Calls {c1, c2, c3, c4} with needs 2, 3, 4 and 3, c3 on b and the others on a,
  MaySwap {c3}, Impatient {c1}, Residents one of a at 4, Jit 1, Capacity 7, Faults {}]:
  a swap takes such an instance for a resident and, when its own load fails, restores
  it explicitly, in that window and before the larger one (lmstudio.py:821, 1181).

Falsify (`Falsify_runs`, with `Uses <- AnyUse`):

- `NothingForgotten` [two processes, one id, Metamorph {FALSE}, Deletes TRUE,
  MaxRuns 2, MaxRows 1, MaxFaults 0]: a deleted key's versions start again at 1, so
  a run that read the ledger before the deletion overwrites the one begun since,
  and is told that its save succeeded (context_store.py:224 against 200-201 and
  falsify.py:50-51).
- `JudgedByOthers` [one process, K 2, Rounds {1}, MaxRows 3]: a falsifier's own
  claims survive its own attacks (falsify.py:213 against 352-358).
- `UnpersistedIsUnstored` [one process, Rounds {2}]: a run whose first save failed
  reports itself unpersisted although a later one succeeded (falsify.py:449 against
  488).

Panels (`Panels_requests`, as it is unless said):

- `ConvergedIsAgreed`: when the opponent drops its last contest in the rebuttal the
  debate converges although its recommendation is another (server.py:5553 against
  docs/TOOLS.md:227-228).
- `BoxReported`: a model that could not be freed is not reported when at most one
  seat answered (server.py:5708-5710; the returns at 5866-5955 precede 6167).
- `BoxLeftAsFound` [Slots {None, a}, a synthesizer on the box]: a synthesizer on
  the box that fails after its model was loaded is not freed (server.py:6075 looks
  at the fallback; docs/TOOLS.md:287).
- `AttackedByAnother`: the attacker of a premise is picked by label, so a seat is
  passed over when its twin asserted it, and an asserter may have to attack its own
  premise although that seat did not assert it (conference.py:344).

Bridges (`Bridges_calls`, as it is):

- `NoStopHidden`: three stops that are no end come back as whole, cacheable answers: a
  `content_filter` of a gateway (atlas.py:823, openrouter.py:558: `shape_stopped` knows
  caps only, although oracle_common.py:111-114 calls a cut-off answer served as
  complete a lie); a search turn still paused after the last continuation
  (anthropic_http.py:315-318); and a refusal that Claude Code's print mode reports with
  return code 0 (fable.py:1018 against 937-949; anthropic_http.py:434-437 says why it
  should not pass).  `NoFalseAnswer` excepts these by name (`Unflagged`).

Stores (`Stores_calls`, as it is):

- `VectorsFit`: chunk ids are used again (`INTEGER PRIMARY KEY`: the largest plus
  one).  A call that embedded an old text stores its vector under the id another
  call has meanwhile given to a new chunk; that chunk then counts as embedded and
  no later call embeds it again, so search ranks it by a text it no longer has
  (codeindex.py:414-445 against its docstring's "occasionally concurrent writers"
  and docs/TOOLS.md:357-358).
- `SweepsToNinety`: a sweep that counted before another process's sweep deletes
  below ninety per cent of the cap (hub.py).  `NewestKept`: the same in the context
  store takes the newest row, and so does a cap of one, whose ninety per cent is
  nought (context_store.py:66-69).
- `AcknowledgedIsReadable`: the line a full disk tore swallows the next event, whose
  append has returned True.

Seen while reading, and not worth a property:

- *Breaker.*  With the hold feature off again the snapshot still reports a hold
  (health.py:317 against 293-294).  A call that timed out in the queue of a CLI's
  slot counts against a backend that was never asked.
- *Configuration.*  `configure_disabled` reads the denylist before `save` takes the
  lock, so one of two concurrent calls can be undone (server.py:6577, 6607 against
  config.py:54-60).  A file broken by hand reads as `{}`, and the next save replaces
  it.
- *Hub, trail.*  Two processes that rebuild `session_meta` at once drop rows the
  first has already counted (hub.py:114); its `last_*` columns may tell of a turn
  that was evicted.  A segment's stamp follows the wall clock.
- *Context store.*  Deleting from a store that cannot be read answers `ok` with
  `deleted: false`; the `store_error` of `store_degraded` may be that of the last key,
  or `None`, because a later read clears it.
- *Code index.*  Two servers with different `ASK_FABLE_EMBED_MODEL` embed each
  other's chunks anew on every call.
- *Bridges.*  Each continuation gets a fresh deadline, and its timeout's text
  understates the retries; a refused search turn whose searches failed reads as an
  error.  A 400 whose text no vocabulary explains is an `sdk_error` and counts against
  the backend, whoever's fault it was (oracle_common.py:574-581).  The research router
  does not consult the denylist of the backend it chooses.  GLM counts as available when
  its fallback is denied.  Kimi's home is shared by two processes with one
  `ASK_FABLE_KIMI_HOME`.
- *Conference.*  One speaker over several rounds still gets a map of the
  disagreement.

## What is not modelled

`PROJECT.json` lists every component with its status and what is left out of it.
Left out for good:

- *MCP dispatch, answer verification, metrics, Anthropic variants, the worker, web
  search as a tool*: no state of their own; the calls they make are those of the
  modelled paths.
- *Saved outputs, telemetry, statistics, tracing*: what is written is not read back
  by the program; the trail it is written to is TraceStore's.
- *Prompts, sidecars, guard, redaction, context packing, sealed envelopes*: parsing
  and wording of text, file-system checks and cryptography.  Where their answer
  changes what happens next, the models branch on it.
- *Diagnosis, console, control page*: read-only reports.
- *The sandbox*: one external process with a timeout; Falsify branches on its
  verdict, and the process is run as CliGate's are.

## The plan

Done, in this order: CliGate, Breaker, ClaudeAsk, OracleRun, ContextBus, LmStudio,
Falsify, Council, Chain, Debate; Conference, Names and Admission; the bridges; the
hub, the configuration, the trail, the context store, the code index.  What is left:

1. *Proofs*: `SwapRestores` of LmStudio where every load appears; a weaker condition
   than one process for `NoSilentTruncation`, if one can be found.
2. *Pure algorithms* against reference definitions: the pack budget, the metrics.
3. *The two reads of a search* of the code index against a call that indexes.
4. *Larger instances*: a third process for the hub and the trail, a third window
   for the bridges.
