--------------------------- MODULE ContextEditing ---------------------------
(***************************************************************************)
(* Compaction of a conversation (context-editing/index.ts, with            *)
(* TriggerEvaluator.ts and ContextCurator.ts).  Before each turn of a      *)
(* session the hook before_model_resolve reads the transcript, compares    *)
(* what has come since the last compaction with the thresholds, lets a     *)
(* model write a summary, appends it to the transcript and moves the       *)
(* boundary before which nothing is shown to the agent any more.           *)
(*                                                                         *)
(* The transcript is the sequence of the user's messages, each with the    *)
(* tokens of its exchange; the boundary is the first message still shown.  *)
(* A summary is what the curator made of the summary before it and of the  *)
(* messages shown: the set of messages of which it may tell something,     *)
(* nothing at all if the curator has found nothing.  The gateway runs the  *)
(* turns of one session one after the other.                               *)
(***************************************************************************)
EXTENDS Naturals, Sequences, FiniteSets, SequencesExt

CONSTANTS Sessions,
          Weights,           \* tokens an exchange can have
          SummaryTokens,     \* tokens of a summary
          MessageThreshold, TokenThreshold,
          Targets,           \* models the curator can ask, one after the other
          Configs,           \* what the dashboard can set
          Cooldown,          \* COMPACTION_COOLDOWN_MS, in ticks
          MaxMessages,       \* bound: messages of a transcript
          MaxFaults          \* bound: restarts of the process

ASSUME ContextAssumption ==
  /\ Weights \subseteq Nat /\ SummaryTokens \in Nat
  /\ MessageThreshold \in Nat \ {0} /\ TokenThreshold \in Nat \ {0}
  /\ Targets \in Nat \ {0}
  /\ Configs \subseteq [mode : {"token", "message", "both"}, keep : Nat]
  /\ Cooldown \in Nat \ {0} /\ MaxMessages \in Nat /\ MaxFaults \in Nat

VARIABLES config,    \* this.config: trigger mode, messages kept
          log,       \* log[s]: the messages of the session's transcript
          first,     \* the first message the agent is shown
          told,      \* the messages of which the last summary may tell
          lost,      \* history: those last given to a curator that found nothing
          mark,      \* where the last compaction entry stands, 0 for none
          buffer,    \* the SessionBuffer of TriggerEvaluator
          turn,      \* how far the turn of the session has got
          faults     \* restarts so far

transcript == <<log, first, told, lost, mark>>
vars == <<config, transcript, buffer, turn, faults>>

\* age: ticks since lastCompactionTimestamp; Cooldown when that is null.
FreshBuffer == [count |-> 0, tokens |-> 0, base |-> 0, baseTokens |-> 0,
                age |-> Cooldown, synced |-> FALSE]

\* seen: messages in the transcript given to the curator; left: targets it
\* has not asked yet.
Turn(at, seen, left) == [at |-> at, seen |-> seen, left |-> left]

Idle == Turn("idle", 0, 0)

\* filterMessagesForICC: what the agent is shown of the conversation.
Count(s) == (Len(log[s]) + 1) - first[s]

Tokens(s) ==
  (IF mark[s] = 0 THEN 0 ELSE SummaryTokens)
    + FoldSeq(LAMBDA w, sum : w + sum, 0, SubSeq(log[s], first[s], Len(log[s])))

\* syncSessionStats: the first observation anchors the baselines ...
Anchored(b, count, tokens) ==
  IF b.synced THEN b
  ELSE [b EXCEPT !.base = count, !.baseTokens = tokens, !.synced = TRUE]

\* ... and a count below the baseline starts from zero, cooldown included.
Restarted(b, count) ==
  IF count < b.base THEN [b EXCEPT !.base = 0, !.baseTokens = 0, !.age = Cooldown]
  ELSE b

Synced(b, count, tokens) ==
  [Restarted(Anchored(b, count, tokens), count) EXCEPT !.count = count, !.tokens = tokens]

\* shouldCompact.
Exceeds(b) ==
  \/ config.mode # "message" /\ b.tokens >= b.baseTokens + TokenThreshold
  \/ config.mode # "token" /\ b.count >= b.base + MessageThreshold

Triggered(b) == b.age = Cooldown /\ Exceeds(b)

\* resetSession.
Reset(b) == [b EXCEPT !.age = 0, !.base = b.count, !.baseTokens = b.tokens]

Init ==
  /\ config \in Configs
  /\ log = [s \in Sessions |-> <<>>]
  /\ first = [s \in Sessions |-> 1]
  /\ told = [s \in Sessions |-> {}]
  /\ lost = [s \in Sessions |-> {}]
  /\ mark = [s \in Sessions |-> 0]
  /\ buffer = [s \in Sessions |-> FreshBuffer]
  /\ turn = [s \in Sessions |-> Idle]
  /\ faults = 0

\* The hook at the start of a turn.  On the first turn there is no file.
BeforeModelResolve(s) ==
  /\ turn[s].at = "idle"
  /\ Len(log[s]) < MaxMessages
  /\ IF log[s] = <<>>
     THEN /\ turn' = [turn EXCEPT ![s] = Turn("agent", 0, 0)]
          /\ UNCHANGED buffer
     ELSE LET b == Synced(buffer[s], Count(s), Tokens(s))
          IN /\ buffer' = [buffer EXCEPT ![s] = b]
             /\ turn' = [turn EXCEPT ![s] = IF Triggered(b)
                                            THEN Turn("curating", Len(log[s]), Targets)
                                            ELSE Turn("agent", 0, 0)]
  /\ UNCHANGED <<config, transcript, faults>>

\* A target gives no answer: the next one is asked.
TargetFails(s) ==
  /\ turn[s].at = "curating" /\ turn[s].left > 0
  /\ turn' = [turn EXCEPT ![s].left = @ - 1]
  /\ UNCHANGED <<config, transcript, buffer, faults>>

\* What the curator is given: the messages shown, and the summary before.
\* Mutant: the messages only.
HandedMessages(s) == first[s] .. turn[s].seen

Handed(s) == told[s] \cup (first[s] .. turn[s].seen)

\* requestCompaction appends the summary, with the last entry of the
\* transcript as a placeholder for the boundary; an empty one too.  Harden
\* follows without an await; it is a step of its own since it writes the file
\* once more, which may fail, and the process may die in between.
Appended(s, empty) ==
  /\ told' = [told EXCEPT ![s] = IF empty THEN {} ELSE Handed(s)]
  /\ lost' = [lost EXCEPT ![s] = IF empty THEN @ \cup Handed(s) ELSE @ \ Handed(s)]
  /\ mark' = [mark EXCEPT ![s] = Len(log[s])]
  /\ first' = [first EXCEPT ![s] = Len(log[s])]
  /\ turn' = [turn EXCEPT ![s] = Turn("appended", 0, 0)]
  /\ UNCHANGED <<config, log, buffer, faults>>

\* A target has answered, or what it said could not be used and the curator's
\* patterns are tried - not for a prompt of the user's own.  The answer may
\* hold nothing of the kinds that are switched on, and the patterns may find
\* nothing either.
Curated(s) ==
  /\ turn[s].at = "curating" /\ turn[s].left > 0
  /\ \E empty \in BOOLEAN : Appended(s, empty)

\* Every target has failed: the patterns alone, or nothing at all.
\* Mutant: the first target is asked again.
AllTargetsAskedAgain(s) ==
  /\ turn[s].at = "curating" /\ turn[s].left = 0
  /\ turn' = [turn EXCEPT ![s].left = Targets]
  /\ UNCHANGED <<config, transcript, buffer, faults>>

AllTargetsFailed(s) ==
  /\ turn[s].at = "curating" /\ turn[s].left = 0
  /\ \E empty \in BOOLEAN : Appended(s, empty)

\* The boundary: the keep-th last message, or the compaction entry itself,
\* also where the transcript has fewer messages than are to be kept.
\* Mutant: off by one.
BoundaryKeepsMore(s) == IF config.keep < Len(log[s]) THEN Len(log[s]) - config.keep ELSE 1

Boundary(s) ==
  IF config.keep \in 1 .. Len(log[s]) THEN (Len(log[s]) + 1) - config.keep
  ELSE Len(log[s]) + 1

Harden(s) ==
  /\ turn[s].at = "appended"
  /\ first' = [first EXCEPT ![s] = Boundary(s)]
  /\ buffer' = [buffer EXCEPT ![s] = Reset(@)]
  /\ turn' = [turn EXCEPT ![s] = Turn("agent", 0, 0)]
  /\ UNCHANGED <<config, log, told, lost, mark, faults>>

\* The compaction fails after the summary is appended: the placeholder
\* stays, the baselines too, and the turn goes on.
HardenFails(s) ==
  /\ turn[s].at = "appended"
  /\ faults < MaxFaults /\ faults' = faults + 1
  /\ turn' = [turn EXCEPT ![s] = Turn("agent", 0, 0)]
  /\ UNCHANGED <<config, transcript, buffer>>

\* The agent's turn: the message and its answer come into the transcript,
\* or the turn fails before that.
AgentRuns(s) ==
  /\ turn[s].at = "agent"
  /\ \/ \E w \in Weights : log' = [log EXCEPT ![s] = Append(@, w)]
     \/ UNCHANGED log
  /\ turn' = [turn EXCEPT ![s] = Idle]
  /\ UNCHANGED <<config, first, told, lost, mark, buffer, faults>>

\* /new: the session goes on with an empty transcript.
NewTranscript(s) ==
  /\ turn[s].at = "idle" /\ log[s] # <<>>
  /\ log' = [log EXCEPT ![s] = <<>>]
  /\ first' = [first EXCEPT ![s] = 1]
  /\ told' = [told EXCEPT ![s] = {}]
  /\ lost' = [lost EXCEPT ![s] = {}]
  /\ mark' = [mark EXCEPT ![s] = 0]
  /\ UNCHANGED <<config, buffer, turn, faults>>

\* reloadConfig, when the store has changed.
Reload ==
  /\ config' \in Configs \ {config}
  /\ UNCHANGED <<transcript, buffer, turn, faults>>

\* The process dies: the buffers are lost, the transcript is not.
Crash ==
  /\ faults < MaxFaults /\ faults' = faults + 1
  /\ buffer' = [s \in Sessions |-> FreshBuffer]
  /\ turn' = [s \in Sessions |-> Idle]
  /\ UNCHANGED <<config, transcript>>

Older(a) == IF a < Cooldown THEN a + 1 ELSE a

Tick ==
  /\ buffer' = [s \in Sessions |-> [buffer[s] EXCEPT !.age = Older(@)]]
  /\ UNCHANGED <<config, transcript, turn, faults>>

Compacts(s) == TargetFails(s) \/ Curated(s) \/ AllTargetsFailed(s) \/ Harden(s) \/ HardenFails(s)

Next ==
  \/ \E s \in Sessions :
       BeforeModelResolve(s) \/ Compacts(s) \/ AgentRuns(s) \/ NewTranscript(s)
  \/ Reload \/ Crash \/ Tick

Spec == Init /\ [][Next]_vars

\* A call of a model ends: runEmbeddedPiAgent gives up after 30 s.
Fairness == \A s \in Sessions : WF_vars(Compacts(s)) /\ WF_vars(AgentRuns(s))

FairSpec == Spec /\ Fairness
-----------------------------------------------------------------------------
TypeOK ==
  /\ config \in Configs
  /\ log \in [Sessions -> Seq(Weights)]
  /\ first \in [Sessions -> Nat \ {0}]
  /\ told \in [Sessions -> SUBSET Nat] /\ lost \in [Sessions -> SUBSET Nat]
  /\ mark \in [Sessions -> Nat]
  /\ buffer \in [Sessions -> [count : Nat, tokens : Nat, base : Nat, baseTokens : Nat,
                              age : 0 .. Cooldown, synced : BOOLEAN]]
  /\ turn \in [Sessions -> [at : {"idle", "curating", "appended", "agent"},
                            seen : Nat, left : 0 .. Targets]]
  /\ faults \in 0 .. MaxFaults

\* Every message of a transcript is shown to the agent, or the summary it is
\* shown was made from it, through however many summaries in between - but
\* for what a curator was given that found nothing; whatever is kept, when
\* the configuration changes, and wherever the process dies
\* (index.ts:663-745, 853-1010).
HiddenIsTold ==
  \A s \in Sessions : \A i \in 1 .. Len(log[s]) :
    i >= first[s] \/ i \in told[s] \/ i \in lost[s]

\* TriggerEvaluator.ts:198: the thresholds are about what has come since the
\* last compaction; at worst the messages that one has kept count again, or
\* the one at which a compaction cut short has left its placeholder.
CompactsNewMessages ==
  [][\A s \in Sessions :
       turn[s].at # "curating" /\ turn'[s].at = "curating" /\ config.mode = "message" =>
         \E keep \in {c.keep : c \in Configs} \cup {1} :
           Len(log[s]) - mark[s] + keep >= MessageThreshold]_vars

\* A turn of the agent is never held up for good by a compaction.
EveryTurnRuns == \A s \in Sessions : turn[s].at = "curating" ~> turn[s].at = "idle"

\* What the repository says of a curation that fails and the code does not
\* keep: "You never lose coverage" (README.md:270).
NothingForgotten == \A s \in Sessions : \A i \in 1 .. Len(log[s]) : i >= first[s] \/ i \in told[s]
=============================================================================
