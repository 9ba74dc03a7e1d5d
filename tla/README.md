# A formal model of the OpenClaw middleware suite

The repository is a suite of middlewares that sit between an agent (an OpenClaw
gateway), its tools and its model providers. They decide whether a tool call may
run, how many may, to which model a chat request goes, what is kept in context
and what is masked. This directory holds TLA+ models of the parts whose
correctness depends on the order of events, TLC configurations that check them
on small instances, and TLAPS proofs of what matters most for all instances.

Paths in this file are relative to the repository root (`src/` in the map of
`PROJECT.json`); `middlewares/` stands for `src/middlewares/`.

## 1. Inventory

JavaScript is single-threaded: a handler runs without interruption up to its next
`await`. What makes this suite hard is that every handler has awaits (polls of
500 ms, file operations, provider calls), that the middlewares keep state in
module-level singletons shared by all sessions, and that a gateway, a command
line, a dashboard server and embedding programs share the files of one state
directory.

| Component | State | Operations | Interacts with |
|---|---|---|---|
| HITL gate: `middlewares/hitl/{Interceptor,tool-interceptor,index}.ts`, `approval/{ApprovalQueue,Arbitrator,approval-commands,TrustRateLimiter}.ts` | policy; Map of approval entries by session and action; denial timestamps by key | evaluate a call, judge (channel or terminal), poll for an approval, `/approve`, `/deny`, clean-up, reload | every tool call of every session; the human; the host's notifier |
| HITL scoring and TOTP: `hitl/scoring/*`, `approval/TotpManager.ts` | pattern lists, a secret | score a call, verify a code | read by the gate |
| Tool-call limits: `middlewares/tool-call-limit/**` | policy, trackers in memory, two tracker files, reset marker in the shared store, promise chain | initialise, count and enforce, save, reset (command line), clear, reload | every tool call; reset command in another process |
| Routing proxy: `middlewares/model-routing/{proxy,cache,session,selection}/**` | in-flight and completed Maps, response cache, session store, momentum | chat completion, deduplication, pinning, fallback, abort, eviction | clients over HTTP, providers |
| Routing scorer, profiles, providers | configuration | score a request, translate formats | called by the proxy |
| Context editing: `middlewares/context-editing/**` | per-session statistics, set of sessions being compacted | record, evaluate triggers, compact | asks the model through the proxy |
| Guardrail: `middlewares/guardrail/**` | verdict flags, canaries | scan, moderate, track canaries | sets `forceAsk` for the gate |
| PII sanitizer: `middlewares/pii-sanitizer/**` | policy | scan, redact, block or escalate | the composed hook |
| Composed plugin: `src/plugin/**` | none of its own | runs guardrail, PII, limits, HITL over one event | all of the above |
| Configuration store: `src/shared/storage/ConfigStore.ts` | one JSON file, cache, watchers | read, update, watch | every middleware, dashboard, command line |
| Synchronisation with `openclaw.json`, dashboard server: `src/shared/server/**` | staged writes, port | stage, flush, start, probe | gateway process |
| Command line, dashboard UI | none | prompts, rendering | stores |

Behaviours that are hard, and what makes each component correct:

- **HITL gate.** Calls of several sessions stall at once on entries of one Map,
  while chat commands (which name no request and pick the latest pending one),
  expiry, a lazy clean-up, hot reload and restarts act on it. Correct: each yes
  lets exactly one call through, of the session and action (and arguments) asked
  about; nothing else takes a yes away; a yes reaches the call that waits for
  it; every stall ends; strict approvals need a code; the question asked of a
  human stands until it is answered or runs out.
- **Tool-call limits.** Loading, charging, saving and resetting are spread over
  awaits, files and two processes, and any of them may be cut by a crash.
  Correct: budgets hold; every call let through is counted, in memory and on
  disk; what a reset wiped does not come back; one failed step does not block the
  chain; a warning comes before a block.
- **Routing proxy.** Requests share entries by content, and an entry is removed
  by key, not by owner, from four places (success, failure, abort, close
  handler). Correct: no duplicate waits forever; identical requests share a
  call; nobody is asked after an abort; a session is never routed below its
  pin; the bounded stores stay bounded and consistent.
- **Configuration store, synchronisation.** Every change reads the whole file,
  awaits, and writes the whole file in place; requests of the dashboard overlap,
  and some work on a second file, `openclaw.json`, whose plugins hold a captured
  copy. Correct: the store behaves like one to which the changes are applied one
  by one; a plugin's copy is never stale for good; every request ends; watchers
  see the last state.
- **Context editing.** Counters in memory follow a transcript that is compacted,
  reset and appended to; a compaction asks several models that may fail, and
  writes its boundary in two steps. Correct: no message is lost without a
  summary, a compaction is about new messages, no turn waits forever.
- **Guardrail, sanitizer, composed plugin.** One hook leaves a verdict for
  another, one layer changes the parameters the next one judges. Correct: a
  verdict reaches the message it was made for, no finding hides another, what a
  human approved is what runs, text a guard has matched is not stored later.
- **Routing decisions.** Overrides, floors, momentum and filters follow each other,
  each allowed to change what the one before decided. Correct: momentum stays
  between score and history, no filter's safety net undoes another filter, a
  cheap profile is not dearer than a good one.

`PROJECT.json` lists each hazard at its line, with the properties aimed at it or
the reason why there is none yet.

## 2. Modules

| Module | Models | How |
|---|---|---|
| `ApprovalQueue` | `ApprovalQueue.ts` | the Map of entries and what each method makes of it, as operators on a queue |
| `TrustRateLimiter` | `TrustRateLimiter.ts` | denials in the rolling window, levels |
| `HitlGate` | `Interceptor`, `Arbitrator`, commands, hook; composes the two above | one action per stretch between awaits |
| `ApprovalLedger` | abstract: what a yes is worth | refined by `HitlGate` |
| `ToolCallLimit` | the limits middleware, its stores and the reset command | load, charge, save and reset, one file operation per action |
| `RequestDedup`, `SessionStore` | `cache/dedup.ts`, `session/session-store.ts` | operators on the Maps |
| `RoutingProxy` | `handleChatCompletions` and `processRequest`; composes the two above | one action per stretch between awaits |
| `ConfigStore` | `ConfigStore.ts` | the promise chain, the file and its truncation during a write, the watcher |
| `AtomicStore` | abstract: a store whose changes are applied one at a time, in order | refined by `ConfigStore` |
| `OpenClawSync` | the requests of `dashboard-api.ts`, `openclaw-sync.ts`, `config-manager.ts`, the cleanups | each request a sequence of steps over the store and `openclaw.json` |
| `ContextEditing` | `index.ts`, `TriggerEvaluator.ts`, `ContextCurator.ts` of context editing | a turn from trigger to agent, one action per await or file write |
| `ToolScan` | what guardrail and sanitizer make of findings in one call | operators: the order of the guards |
| `ToolCallPipeline` | `composedToolHook` of `plugin/index.ts`; uses `ToolScan` and, for the gate, `ApprovalLedger` | one action per layer |
| `MessageGuard` | moderation verdicts, write scanner, canaries | hooks of one turn, late answers of the service |
| `TierDecision`, `ModelChoice` | score to tier (overrides, floors, momentum); tier to models (filters, profiles) | operators |
| `RoutingDecision` | a session's decisions over a changing catalogue; uses the two above | one action per request or command |
| `MC...` | instances for TLC | |
| `HitlGateProofs` | proofs: types, coded approvals, refinement of the ledger, what a step of the gate may never do | invariants, a step simulation, action properties |
| `RoutingProxyProofs` | proofs: types and order of the session store, invariants and action properties of the proxy | one joint invariant, another for the store |
| `ToolCallLimitProofs` | proofs: types and chain, warnings, counts and budgets through crashes, resets | the types, and three invariants on top of them |
| `OpenClawSyncProofs` | proofs: types, fresh captures, no needless restart; refinement of the atomic store | one joint invariant and a step simulation |
| `ContextEditingProofs` | proofs: what is hidden was told, compactions of new messages | an invariant, and an action property on a stronger one |
| `ToolCallPipelineProofs` | proofs: what runs was seen, findings are heeded | one joint invariant |
| `MessageGuardProofs` | proofs: types, flagged prompts are rewritten, leakback is stopped | one joint invariant over turn, cache and ring |
| `RoutingDecisionProofs` | proofs: how far momentum reaches, what filters leave, how profiles compare | lemmas about the operators, under a small invariant |

### HITL gate

An entry carries the ticks it has `left` instead of `createdAt` and `expiresAt`,
so no clock needs a bound. `EvaluateAllow`, `EvaluateDeny`, `ConsumeApproval`,
`RequestApproval`, `PromptTTY` and `AutoDeny` are the ways `Interceptor.evaluate`
goes up to its first await: rule lookup, trust level, risk, `judge`, and for a
channel `consume` followed by `request` (with its clean-up). `NotifyAnswer` is the
answer of `onBlockCallback`. `PollApproved`, `PollGivesUp` and `PollAgain` are one
turn of `waitForApproval`, in the order in which it looks at the entry and at its
deadline. `Approve`, `Deny` and `CommandFails` are the chat commands, from peek to
reply. `ResolveBySession` and `HostRecordsDenial` are the exported singletons in
the hands of an embedder. `Restart` loses queue, limiter and calls; `Reload`
installs another policy under running calls.

Inputs, not modelled: pattern scores (a call is risk "none", "force" or "strict"),
TOTP arithmetic (a code is "none", "wrong" or "valid"), path rules (part of the
policy function). Fingerprints of arguments are taken to be injective. Two
entries created in the same tick are both "the latest": the Map's order decides in
the code, either may be picked in the model.

### Tool-call limits

A tracker whose window is over equals a missing one in the code (`enforceLimit`
replaces it), so `WindowEnds` removes it, together with the history of its
budget. `Enter`, `EnterReset`, `SaveSessions`, `FinishReset`, `ChargeRequest` and
`Answer` are the stretches of `incrementAndCheck` between its awaits, `queue` is
the promise chain, and `snap` is what `save()` has gathered: references to the
trackers, so later charges show in it (`Following`). `LoadSessions` and
`LoadRequests` are the two reads of `load()`, whose catch turns one unreadable
file into empty trackers. `CliStart`, `CliRemove`, `CliMark` are `resetLimitCommand`
in its own process. `ran` and `owed` are history: calls let through, and calls
charged, per budget since its last reset, clear or window.

Left out: failing writes, the grouping of calls without a request id into virtual
requests (request ids are inputs), sub-millisecond ties of reset timestamps.

### Routing proxy

A promise is settled when its entry leaves the Map and its waiters run before
anything else, so `Settles` answers them in the step that removes the entry.
`ServeCompleted`, `Join`, `ServeStored` and `Take` are `handleChatCompletions` up to
the first await; `Route` goes on after plugins and classifier, through pinning,
to the first attempt; `TryNext`, `Succeed`, `StartStream` and `Fail` are what the
loop makes of an attempt; `Deadline` and `HangUp` are the two sources of
`clientAbort`; `CloseStored` is the close handler that stays armed after an answer
from the response cache. `dropped` is history: the keys for which a close handler
removed an entry.

Inputs: the tier that score, classifier, momentum and profile give a request; the
outcome of an attempt; the filtered fallback chain of each tier (never empty, as
`filterFallbackChain` falls back to the unfiltered one). Assumed: deduplication
enabled (the default) and session pinning too (an option of dashboard and command
line that is off as shipped, `session-store.ts:42`), bodies of at most 1 MB, a
session per request. A `no-cache` header is why `Take` may pass by a stored answer and
`Succeed` may not store one. `strikes` saturates at the threshold;
`highWaterTier`, `recentHashes` and `requestCount` are written and never read.

### Configuration store and synchronisation

`chain` is the promise chain: the request, the change and how far its body has
come. A body reads the file (`ChainRead`), opens it for writing, which empties it
(`ChainOpen`), and writes it (`ChainWrite`), or leaves it alone when `deleteKeys`
finds nothing to delete (`ChainSkip`); it may fail before or after the truncation
(`ChainFail`). `Read` is what any reader gets, `{}` for a torn file. `Poll` and `Notify`
are `watchFile` (2 s) and the callbacks, which read the file again. Left out:
`updateSync`, which nobody calls; a second process with a chain of its own (the
command line); nested paths, since updates of one section replace it.

A request of `OpenClawSync` is the list of steps of its handler (`Program`): a put or
a delete in the store, staging a write, a flush, stripping the router from
`openclaw.json`, the answer. Toggling answers first and works on; saving answers
last. Staging reads the staged writes outside the chain (`StageRead`) and replaces
all of them inside it (`StageWrite`). A flush reads (`FlushRead`), loads and compares
(`FlushLoad`), saves (`FlushSave`) and clears. A load gives the gateway's snapshot, `snap`,
which lags behind a raw write until the next start, or the file if
there is no snapshot to be had (`Loads`). A save goes through the gateway,
which may refuse; then the file is written raw, with no restart asked for
(`SaveRaw`, and `raw` is history: the paths that were written so); only when that fails as well
has the save failed (`SaveFails`). A raw write that fails is taken to leave the file as it was,
and raw writes happen as long as no other fault has. A failing delete of the
cleanup is swallowed and the next step goes on (`ChangeFails`). `captured` is what
plugins hold of `openclaw.json` since the last start; `restart` is a restart the
gateway has been asked for. The work that enabling model routing does besides (fetching a
catalogue, choosing models) is an input: one policy, one staged path.

### Context editing

`log` is the transcript of a session, a message being its weight in tokens.
`first` is the first message shown beside its newest summary. `told` is history: the
messages the newest summary was made from, through the summaries before it; `lost`
those that an entry with nothing but headers has cost. The
curator is handed (`Handed`) what the agent would see: `filterMessagesForICC` keeps the last
summary with the messages after it, so a summary of a summary passes on what the
first was told. That the session manager puts the summary first, then
the messages kept, then the later ones is taken from how `index.ts` uses it (external).
`buffer` is the evaluator's record of a session. A turn goes
from `BeforeModelResolve` (synchronise, evaluate, call the curator) over
`TargetFails`, `Curated` or `AllTargetsFailed` to the appended compaction entry,
whose boundary `Harden` then moves (a temporary file and a rename: atomic), and to
`AgentRuns`. `HardenFails` is the `catch` of `requestCompaction`. Between append and
hardening the entry's boundary is a placeholder; `Crash` may leave it so. An answer
with nothing in it is a choice of `Curated` and `AllTargetsFailed`: patterns that find
nothing, all kinds of extraction switched off, or a custom prompt that fails.
Assumed: one turn of a session at a time, as the gateway runs them. Left out: statistics,
audit log, prompts, startup messages, and how text is cut into segments.

### Tool calls

The layers look at the event in order: guardrail, sanitizer, limits, gate. Guardrail
and sanitizer settle without I/O, so the watchers cannot run between them
(`Quiet`); the limits wait for files. Findings of the scanners are inputs; `ToolScan`
is what follows from them. A layer that throws lets the call pass. The gate is the
ledger of approvals with exact arguments, here the parameters as the sanitizer left them.

### Messages

`TurnStarts` and `Answered` are `before_agent_start`: prune, ask the moderation service,
keep its verdict. `WritePrompt` and `WriteOther` are `before_message_write`; the audit
the write scanner starts for each message answers later (`AuditAnswers`) and
registers a canary. `since` is history: which texts became canaries since a text did.
Only what a guard matched or an audit flagged does, not the rest of a message that is
blocked or rewritten as a whole (section 5).
A text is a sequence of fragments, each with the class of guard it is found by.
Assumed: one turn of a session at a time. Left out: the output scrubber.

### Routing decisions

Scores, boundaries and weights are integers of a hundredth or finer, exact for the
shipped constants; the rest of momentum is as in the code. What
`checkOverrides` finds in the text is an input, and so are prices and capabilities.
The weight of momentum is the shipped one; a user may set another. A catalogue may be empty,
as it is at start: then the profiles are the static ones (`ProfileConfigs`).
`Discover`, `Generate`, `Exclude` and `Evict` are the discovery of models, the wizard,
the exclusion list and the eviction of a stale session.

## 3. Runs

Bounds are constants of the cfg files. Deadlock is checked in every run but `config`
and `tools`, where the system may stop: all requests have been sent, all calls have
ended.

| Run | Instance | Shows |
|---|---|---|
| `retry` | 2 sessions, 1 action, 3 fingerprints (one forbidden), 2 calls, no notifier, authenticator, TTL 2, retry window 0, clean-up interval 0; symmetry | types, coded approvals, refinement of the ledger with exact arguments, approvals kept, questions stand, time to answer |
| `host` | 1 session and terminal calls, 1 fingerprint under ASK or ALLOW, 2 calls, notifier, embedder; fair | a yes reaches the stall, stalls end |
| `durable` | 1 session, 1 request, 1 tool, 2 calls, kills and torn files, no resets; fair | types, budgets, counts in memory and on disk, warning before block, every call answered |
| `resets` | as before with an embedder, two policies, up to `MaxResets` = 2 resets, a marker seen; symmetry | resets and clears are honoured |
| `routing` | 3 requests, a plain and a streaming body, 1 session, 1 tier of 2 models; symmetry | waiters have an original, one call per key, nothing paid twice, no call after abort |
| `sessions` | 2 requests, 2 sessions in a store of 1, 2 tiers, 3 strikes; fair | types and order of the store, never below the pin, every request answered |
| `config` | up to 2 requests of 6 kinds, at once or one after the other, 1 staged model, 1 fault; fair | types, fresh captures, atomic and ordered changes, no needless restart, every request ends, copies catch up |
| `context` | 1 session of up to 7 messages of 2 weights, thresholds of 3 messages and 5 tokens, 2 models to ask, cooldown 2, 1 fault; fair | what is hidden was told to the summary, compactions are about new messages, turns run |
| `tools` | 2 calls, inputs for every guard and action, 2 settings, 1 reload; fair | what runs is what was seen, findings are heeded, every call settles |
| `messages` | 2 sessions, a fragment for each kind of guard (threat, marker, token, key), a ring of 2 canaries, 1 audit under way; symmetry | types, flagged prompts are rewritten, what was matched is not stored later |
| `decisions` | histories of up to 3 (5 in the code), catalogues of none to 3 models, needs of every kind | momentum in reach, the chain is best, eco is not dearer |

Why the bounds are enough. The gate's properties relate at most two calls, one
key and another key: two sessions, two calls and three ages of an entry (fresh,
too old for a retry, expired) show every relation; the third fingerprint makes a
forbidden call beside two different permitted ones. A limit
budget of 2 and 3 has its warning and its block at different counts, and
`CountCap` lets calls come until the block; two calls are one served and one
queued, which with a kill, a clear and a reset between any two awaits are all the
actors there are. In the proxy three requests are an original, a duplicate
and a newcomer that takes the key again after a removal, the smallest case in
which a removal can hit another request's entry. A store of one session makes
every request of the other evict it.

For the store one change being written, one waiting and a reader are all there is
to a chain; a flush can be overtaken by one other flush or save. In context editing
a threshold of 3 messages, of which one is kept, lets a session be compacted, grow by two new
messages and be compacted again, and one fault falls at every point of it. Two calls of a
key are a question and a retry, with a reload in between. A ring of two is full with two
fragments and evicts with the third; a session of context editing shares nothing with
another one. Two earlier decisions pull momentum in two directions, and a third drops
out of the history.

`escalate` is the one run of a disagreement: README.md says that ESCALATE forces a
human approval, and the code sets a mark no one reads (`EscalatedAreAsked`, one entry under
`findings`). Other disagreements met are in section 5; those whose property is
defined in a module have a `.cfg` beside the ones of the runs (`args`, `cooldown`, `race`,
`first`, `shared`, `pinned`, `raw`, `empty`), under which TLC finds the counterexample.

### Fairness

`HitlGate`: `WF(Poll(c))`, since `setTimeout` fires, and `SF(Tick)`, since the clock
moves on; strong, because a tick is disabled while a stalled call has not polled
in it. Nothing makes the human, the notifier or the agent act.
`ToolCallLimit`: `WF(Load)` and `WF(Serve(c))`, since file operations end with a
result or an error that the code catches, and the next link of a chain runs when
the one before it has settled. `RoutingProxy`: `WF(Proceed(r))`, since plugins, the
classifier and every attempt have a timeout or fail; for the one path on which the code
lets an attempt hang see the list below. Clients need not hang up,
nor need a deadline pass. `OpenClawSync`: `WF` of each request's work, of the chain and
of the watcher, since file operations end and `watchFile` polls; requests need not be
sent, faults and restarts need not happen. `ContextEditing`: `WF` of a session's
compaction and of its agent, since `runEmbeddedPiAgent` is given 30 s per model.
`ToolCallPipeline`: `WF(Judge(c))`, since three layers need no I/O and the limits answer
every call (run `durable`); the human need not answer.

## 4. Proofs

`tlapm` checks every leaf. Assumptions are the `ASSUME`s of the modules
(`QueueAssumption`, `TrustAssumption`, `GateAssumption`, the two `StoreAssumption`s,
`ProxyAssumption`, `LimitAssumption`, `SyncAssumption`, `ContextAssumption`,
`PipelineAssumption`, `MessageGuardAssumption`, `DecisionAssumption`, `TierAssumption`),
which TLC evaluates in each run; sets of sessions, calls, requests, models and bodies are
arbitrary, also infinite. Some theorems have an antecedent on the constants, named below.

`HitlGateProofs`
- `TypeCorrect`: `Spec => []TypeOK`; `TypeOK` is inductive. Lemmas state what each
  operator of the queue returns and which places of a call the actions produce.
- `CodedCorrect`: `Spec => []StrictApprovalsCoded`. Inductive with `TypeOK`; only
  `Approve` creates approvals where no host does, and the clean-up keeps the entry
  it found.
- `LedgerCorrect`: `Spec => LedgerSpec`. Every step maps to a step of the ledger or
  stutters. The strengthening is `StallsNotified`: where there is no notifier, no call
  is notifying or waiting. It is needed for the exact case, where a poll would
  break the refinement because it does not compare arguments (run `args`).
- `KeptCorrect`: `Spec => ApprovalsKept`. An action that touches an approval spends it,
  supersedes it, ages it or restarts the process; the clean-up and the commands
  do not, because they resolve pending entries and remove stale ones.
- `TimeCorrect`: `Spec => TimeToAnswer`, from what `request` keeps and creates.
- `ReachesCorrect`: `TTL > 1 => (Spec => ApprovalReachesStall)`. The strengthening is
  `PolledFresh`: when a waiting call has polled in this tick and its entry is
  approved, the approval has come since and has its whole life. `TTL > 1` says that
  an approval outlives one tick; in the code it lives two minutes and a poll comes
  every 500 ms.
- `QuestionCorrect`: `Spec => QuestionStands`. `/approve` names no request, so what the
  human reads must not be exchanged under the answer. A pending entry goes only by an answer
  to the latest question, its end or a call that asks anew after the retry window; the
  cases are the ways an action may touch the entry of a key.

`RoutingProxyProofs`
- The inductive invariant is `ProxyType /\ Safe`, where `Safe` joins
  `WaitersHaveOriginal`, `OneCallPerKey`, `PaidOnce` and `UndroppedInFlight`: a request
  whose key no close handler has run for is in flight. None of the first three is
  inductive alone. That a removal hits its owner's entry follows from
  `OneCallPerKey`, which rests on `UndroppedInFlight` when a key is taken, whose
  preservation needs `OneCallPerKey` again when an entry is removed. Two lemmas,
  `GoesSafe` and `SettlesSafe`, carry the argument; each action is an instance of one.
- `WaitersCorrect`, `SharedCorrect`: the invariants of run `routing`.
- `TypeCorrect`: `Spec => []TypeOK`, which includes the order of the session store: the
  sessions of the Map, each once, at most `MaxSessions`. Lemmas state what `Without` leaves of
  a sequence and that saving after an eviction keeps order and Map together.
- `AbortCorrect`, `PinCorrect`: the action properties `NoCallAfterAbort` and
  `NeverBelowPin`, from the types and what a step of another request may do to one.

`ToolCallLimitProofs`
- `TypeCorrect`: `Spec => []TypeOK`, which includes the shape of the promise chain: the
  queue holds the calls in flight, each once, and only its head has left the place
  `queued`. Everything below leans on it, since an action of a call knows from
  its place that nobody else is past the queue.
- `WarnedCorrect`: `Policies = {Default} => (Spec => []WarnedBeforeBlocked)`. The
  trackers are replaced by what is loaded, what is loaded was saved, and what is saved
  was gathered; hence the invariant speaks of every copy (`CopiesWarned`). A
  budget that is lowered while calls are counted may block without a warning, which is
  why the limits have to stay as they are.
- `SavedCorrect`, `CountedCorrect`, `BudgetCorrect`: under `NoResets` (nobody resets or clears
  a budget, and no call overtakes the plugin's start) the three budget
  invariants of run `durable`. `BudgetHolds` needs `CountsEveryCall`, which after a
  restart needs `SavedBeforeAnswered`, which needs to know of the call being served
  that its charge is in the trackers, then in its snapshot, then in the files
  (`Served`), of the loading that nobody is charged before it has ended (`LoadFirst`),
  and of unreadable files that nothing in them was let through (`NoneLost`). A call
  that is let through was below its limit when it was billed, so one more reaches the
  limit at most.
- `ResetsCorrect`: `EveryResetSeen => (Spec => []ResetsHonoured)`. The strengthening,
  `Heeds`, is about the call being served: it wipes the trackers before it takes note of
  the marker, and charges under the marker it has taken note of. `EveryResetSeen` says
  that the process has met a marker before (the first one is taken for an old one), that
  it does not restart (a restart forgets the marker seen), and that resets are for all
  scopes (a reset of one scope may replace an unseen one of another): section 5 has
  the first and the last as divergences. Run `resets` is an instance of it.

`OpenClawSyncProofs`
- `FreshCorrect`: `Spec => []CapturedFresh`, which exempts the paths a save has written
  behind the gateway's back (section 5). The invariant also speaks of what
  each request is about to save (`SavesFresh`): it leaves the restart paths as the plugins
  have them, or it is a flush that knows of a change and will ask for the restart; and of the
  snapshot, which may be behind in the exempt paths only.
- `AtomicCorrect`: `Spec => AppliesInOrder`, the refinement of `AtomicStore`. A change counts
  as applied when its write begins (`Held`) and waits until then (`Waiting`). It needs
  that the change in front has read the file as it is (`DraftCurrent`) and that a
  request has at most one link in the chain (`ChainOwned`).
- `TypeCorrect`: `Spec => []TypeOK`, for any program of steps a request may consist of.
- `RestartCorrect`: `Spec => RestartForAChange`, with the same exemption: a flush that compares
  with a snapshot behind the file asks for a restart the file does not need. The
  strengthening is `SavesNews`: as long as no restart has been asked for, what a flush
  will save in a restart path differs from what the plugins have captured.

`ContextEditingProofs`
- `HiddenCorrect`: `Spec => []HiddenIsTold`: what the agent is no longer shown was told to
  the summary it is shown, but for what a curator was given that found nothing
  (section 5). The strengthening is `TurnKnows`: a curation has seen the whole transcript,
  and until the boundary is moved the new entry accounts for all of it.
- `NewMessagesCorrect`: `Spec => CompactsNewMessages`, for any number of messages kept, none
  included. The buffer's base is bounded by the boundary of the transcript
  (`Buffers`, `Boundaries`), through resets, shorter transcripts and reloads.

`ToolCallPipelineProofs`
- `SeenCorrect`, `HeededCorrect`: `Spec => []RunsAsSeen`, `Spec => []FindingsHeeded`. One
  invariant joins both with the types of the ledger's runs and `IdleUnheard`: what the
  guardrail has said is of the event under way. That the order of the guards passes
  nothing over is a lemma about `GuardrailVerdict` for any number of files.

`MessageGuardProofs`
- The inductive invariant joins the types, `VerdictWaits` (the verdict on a prompt in
  time is in the cache until the prompt is written), `Memories` (the ring has each
  canary once, at most `MaxCanaries`, and the history of one in the ring is what was
  registered after it) and `FlaggedRewritten`.
- `TypeCorrect`, `RewrittenCorrect`: `Spec => []TypeOK`, `Spec => []FlaggedRewritten`, for any
  sessions and for audits that answer at any time.
- `LeakbackCorrect`: `Spec => LeakbackStopped`. A fragment that was taken out and has not been
  pushed out since is in the ring by `Memories`, hence recognised when it is written.

`RoutingDecisionProofs`
- `MomentumCorrect`: `Spec => []MomentumInReach`, for histories of any length: the weighted mean
  is between the extremes, and rounding and boundaries are monotonic.
- `ChainCorrect`: `Spec => []ChainIsBest`, for any chain: `Kept` of two sets in turn is `Kept` of
  their intersection, so the four filters come down to one, and a safety net
  fires only where all that is left is alike.
- `EcoCorrect`: `Spec => []EcoNotDearer`, for any catalogue and any order of models with equal
  prices: the place of a model in a sorted list bounds what the models before it cost.

Recursive functions (`Kept` for `filter`, `TotalValue` for `reduce`) are
reasoned about by induction on the naturals: the least counterexample of a *set* of numbers
(`WFMin` of the library), since the theorems with a predicate as parameter cannot be
instantiated. Sorting is specified (a list of the models in order of price, ties in any
order) rather than computed, as it is a library function that the code calls.

Every invariant and every action property of the passing runs is stated by a theorem.
Only model-checked: liveness, in every module (`StallsEnd`, `EveryCallAnswered`,
`EveryRequestAnswered`, `EveryRequestEnds`, `CopiesCatchUp`, `EveryTurnRuns`,
`EveryCallSettles`), which is beyond this prover. Neither proved nor checked by a passing
run: the budgets while they are reset and cleared, and resets across restarts or of
single scopes, where the code keeps no such promise (section 5).

## 5. Known divergences without a run

Met while modelling, and left to prose to keep the runs few.

HITL gate
- A stalled call runs on an approval given for other arguments: `waitForApproval` looks
  an entry up by session and action and never compares `argsHash`
  (`ApprovalQueue.ts:384`; line 23 there and README.md:187 say approvals are bound
  to the arguments). Property `RunsAsApproved`, with `Notifies = TRUE` and two `Args`.
- Denials are recorded under `channel-deny` or `tty`, and looked up by session or
  `local` (`approval-commands.ts:158`, `Interceptor.ts:427`): no rejection by a human
  raises the level of its session, as `TrustRateLimiter.ts:17` says. Property
  `EscalationSeesDenials`.
- A strict call may spend an approval that was given without a code, when the same
  call was not strict at the time of asking (`Arbitrator.ts:159`: `consume`
  does not look at `requiresExplicitConfirmation`).
- A call that was denied while it stalled runs if a new request under its key is
  approved between two polls (`ApprovalQueue.ts:384`).

Tool-call limits
- A call before the end of the initial load is counted in Maps the load replaces
  (`ToolCallLimitMiddleware.ts:127`). Property `CountsEveryCall`, with `PluginStart = TRUE`.
- The first reset a process sees is taken for an old one (line 275). Property
  `ResetsHonoured`, with `SawMarker = FALSE`.
- `updateConfig()` patches of the limits last until the next call, which initialises
  again without them (line 258; README.md:891 says they survive).
- Two resets of different scopes between two calls: only the later one is seen
  (lines 272-281). A budget of n lets n - 1 calls through.
- Without a request id the calls of a session share a virtual request until 30 s of
  silence (line 416): which budget is charged is an input of the model.
- `LimitPolicyStore.refreshCache` reads the file and stats it afterwards: a write in
  between is not noticed (`LimitPolicyStore.ts:97`).

Routing proxy
- A duplicate of a successful stream is answered 503 (`handler.ts:1113`; README.md:356
  says duplicates share the call). Property `DuplicatesShare`.
- A pin keeps the tier, not the model (`handler.ts:590`; README.md:362). Property `KeepsModel`.
- A dropped request removes the entry under its key once more when it ends, which
  may be another request's: its duplicates get 503 and the next identical request
  goes upstream as well. `OneCallPerKey` and `PaidOnce` exempt dropped keys for this
  reason; `WaitersHaveOriginal` does not.
- `requestCompleted` is not set on a response-cache hit, so the close handler removes an
  entry that may be another request's (`CloseStored`).
- Requests of a session under way at once may lower its pin when they end in another
  order (`handler.ts:1203-1212`), and three strikes are swallowed while the pin is above.
- A provider that breaks in the middle of a buffered body leaves `forwardToProvider`
  unsettled: no listener for `error` or `aborted` (`handler.ts:1400-1412`).

Routing decisions
- `calcConfidence` is in [0.5, 1] and the threshold is 0.45: the ambiguous branch and with
  it the classifier are dead as shipped (`sigmoid.ts:42`, `scorer.ts:147`).
- Momentum may undo the tool or structured-output floor of a short message
  (`momentum.ts:126` re-classifies the score, which a floor leaves alone).
- An extraction call of context editing that is pinned or escalated loses its reason, so its
  marker is forwarded upstream and its cost counts as chat (`handler.ts:583-614`).
- With two models the eco profile gives COMPLEX the cheapest and STANDARD the
  second (`profiles.ts:346`).
- Short messages blend up to 60 % of history, for `calcWeight` doubles the weight as their
  length goes to none; `momentum.ts:18` says 30 %. A `maxWeight` from the plugin's
  configuration is taken as it is (`model-routing/index.ts:384`): above 0.5 the weight exceeds 1
  and `MomentumInReach` no longer holds; the model has the shipped weight.

Configuration
- Staging is a read-modify-write outside the chain: of two stages at once one may be lost
  (`openclaw-sync.ts:58-70`). One made between a flush's read and its clear is wiped without
  having been applied (lines 117 to 169).
- When the gateway refuses a configuration, `saveOpenClawConfig` writes the file raw and returns
  as if all were well (`config-manager.ts:172-199`); no restart is asked for, and what
  plugins have captured stays stale, against `openclaw-sync.ts:81-95`, while the flush reports a
  restart. Property `NeverStale`.
- A flush that can load `openclaw.json` neither from the gateway nor from the file goes on with an
  empty configuration, and would save that (`openclaw-sync.ts:126`).
- A reader that meets a truncated file gets `{}`: flags are off until the next
  poll. A crash between truncation and write leaves the store empty, and the next
  update writes that back (`ConfigStore.ts:87-129`).
- The command line is a second process with a chain of its own; its updates and the
  gateway's may overwrite each other.
- A staged `undefined` does not survive JSON, so clearing the compaction model in the
  dashboard never clears `agents.defaults.compaction.model` in `openclaw.json`
  (`dashboard-api.ts:480-496` says the two stay aligned).
- Two processes may probe the port and then both listen (`suite-server.ts:54`).

Context editing
- The cooldown is forgotten with the count a compaction lowers (`TriggerEvaluator.ts:154-171`);
  with `messagesKeptBeforeCompaction` at or above the threshold every turn compacts.
- A compaction may write an entry with nothing but headers and still hide all that it was
  given: when patterns find nothing, when all kinds of extraction are off, or when a custom
  prompt fails (`ContextCurator.ts:267-336`, `context-editing/index.ts:1149-1196`).
  README.md:270 says of a failed curation "the middleware simply skips that turn" and "You
  never lose coverage". Property `NothingForgotten`.
- With fewer user messages in the transcript than `messagesKeptBeforeCompaction` all of them are
  hidden, as if none were to be kept (`context-editing/index.ts:989-1008`). The default keeps none.
- `cumulativeTokensSaved` counts the whole transcript's usage anew at each compaction.

Tool calls and messages
- The host's flat tool names have no policy in the sanitizer unless it sends module and method.
- Shell indirection escalates before a later guard could block; a file that escalates in the
  sanitizer blocks; redacted parameters skip its file scan. A warning in one file
  hides a block in a later one, as an escalation.
- Redacted parameters reach the tool only if the host reads `event.params` again.
- All layers but the gate let a call pass when they throw.
- A verdict left over by an aborted turn rewrites the next prompt of its session, if that comes
  within 30 s and is clean (`ModerationGuardHook.ts:61`).
- Only what a guard has matched becomes a canary. The rest of a message that is blocked as a
  whole for a CRITICAL find, and a prompt that moderation rewrites, are registered nowhere
  (`GuardrailWriteScannerHook.ts:205-214`, 446-458) and are stored when they come again, though
  they were redacted: `canary-tracker.ts:13` and line 225 of the hook speak of all
  "content that was previously redacted".
- A canary with irregular white space is recognised but its text is not replaced,
  and the message is stored as it came (`GuardrailWriteScannerHook.ts:229-267`).
- A guard that returns first leaves the later ones unheard: "every HIGH leak gets
  sanitized and every CRITICAL leak blocks the whole turn"
  (`GuardrailWriteScannerHook.ts:389-391`) holds only if neither canary nor impersonation nor
  interrogation is found. Text beyond 512 KB, but for a tail, is not scanned.

## 6. Not modelled

The map covers about an eighth of the implementation's lines. The rest has no
order of events to check: the pages of the dashboard and the renderings and
prompts of the command line; regular expressions, keyword lists and scores over
text (scanners, risk scores, the text part of the scorer), whose outcome is an
input here; format conversion between provider APIs; schemas and defaults of the
configuration; type declarations; logs and statistics. TOTP wraps a library. Of the
modelled components the following is left out: port probing and start-up of the dashboard
server, its read-only routes, plugin registration, virtual requests and failed
writes of the limits, the output scrubber, budgets and alerts of the proxy.

## 7. Plan

Done: every component with state of its own has a module, a run and hazards, and
every module with behaviours of its own has proofs, for each invariant and each action
property of its runs. Next, to prove: how many calls
a budget lets through between two resets, that a quiet watcher has told every plugin what
the file holds (the safety half of `CopiesCatchUp`), and the refinement of the ledger
by the whole pipeline. To
model: a second process at the configuration store, failing writes of the limits, the
budget and cost tracking of the proxy, and its stream converters.
