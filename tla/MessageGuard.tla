----------------------------- MODULE MessageGuard -----------------------------
(***************************************************************************)
(* The guardrail over the transcript.  Before a turn the user's prompt is  *)
(* put to a moderation service, whose verdict waits in a cache             *)
(* (ModerationGuardHook.ts) for the synchronous hook that sees every       *)
(* message before it is stored (GuardrailWriteScannerHook.ts).  That hook  *)
(* takes out what the guards object to.  What a guard has matched, and     *)
(* what a late answer of the service flags, becomes a canary in a ring     *)
(* (canary-tracker.ts), so that it is taken out when the model repeats it. *)
(* What is dropped for the company it is in does not: the rest of a        *)
(* message that is blocked as a whole, and a prompt that is rewritten.     *)
(*                                                                         *)
(* A text is a sequence of fragments of at least eight characters, the     *)
(* first of which is what fills its first 500; all fit the scanned part of *)
(* a message.  The gateway runs one turn of a session at a time.           *)
(***************************************************************************)
EXTENDS Naturals, Sequences, FiniteSets, Functions

CONSTANTS Sessions,
          Fragments,
          Class(_),     \* what the guards see in a fragment
          Flag(_),      \* what the moderation service says of it
          Messages,     \* [text, even]: even when no white space is irregular
          Prompts,      \* the messages users send
          MaxCanaries,
          MaxAudits     \* bound: moderation calls under way for one opening

Severities == <<"MEDIUM", "HIGH", "CRITICAL">>
Clean == "clean"
Verdicts == {Clean} \cup Range(Severities)

ASSUME MessageGuardAssumption ==
  /\ \A f \in Fragments :
       /\ Class(f) \in {"plain", "impersonation", "interrogation", "critical", "high"}
       /\ Flag(f) \in Verdicts
  /\ \A m \in Messages : m.text \in Seq(Fragments) /\ m.text # <<>> /\ m.even \in BOOLEAN
  /\ Prompts \subseteq Messages
  /\ MaxCanaries \in Nat \ {0}
  /\ MaxAudits \in Nat
  /\ "never" \notin Fragments

VARIABLES mode,      \* the guardrail: off, looking on, or on
          cache,     \* cache[s]: the verdict nobody has consumed
          turn,      \* turn[s]: the prompt on its way into the transcript
          canaries,
          audits,    \* audits[f]: moderation calls under way for texts that open with f
          written,   \* the message stored in the last step
          since      \* history: what became a canary after f, while f is to be remembered

vars == <<mode, cache, turn, canaries, audits, written, since>>

NoVerdict == [is |-> "none"]
Flagged(severity, old) == [is |-> "flagged", severity |-> severity, old |-> old]

NoTurn == [at |-> "idle"]
Judging(m) == [at |-> "judging", prompt |-> m]
Judged(m, verdict, late) == [at |-> "judged", prompt |-> m, verdict |-> verdict, late |-> late]

NothingWritten == [by |-> "nobody"]
Never == {"never"}

Rank(severity) == CHOOSE n \in 1 .. 3 : Severities[n] = severity

\* rewriteThreshold, as shipped.
Rewrites(severity) == Rank(severity) >= Rank("HIGH")

\* getOverallSeverity
Overall(text) ==
  LET flags == {Flag(f) : f \in Range(text)} \ {Clean}
  IN IF flags = {} THEN Clean
     ELSE CHOOSE v \in flags : \A w \in flags : Rank(w) <= Rank(v)

NoVerdicts == [s \in Sessions |-> NoVerdict]
NoTurns == [s \in Sessions |-> NoTurn]
NoAudits == [f \in Fragments |-> 0]
Forgotten == [f \in Fragments |-> Never]

Init ==
  /\ mode = "on"
  /\ cache = NoVerdicts
  /\ turn = NoTurns
  /\ canaries = <<>>
  /\ audits = NoAudits
  /\ written = NothingWritten
  /\ since = Forgotten
-----------------------------------------------------------------------------
(* The ring of canaries.                                                   *)

\* Mutant: what is known already is registered once more.
RegisterTwice(ring, f) == Append(IF Len(ring) >= MaxCanaries THEN Tail(ring) ELSE ring, f)

\* Mutant: the ring is one too long.
RegisterLong(ring, f) ==
  IF f \in Range(ring) THEN ring
  ELSE Append(IF Len(ring) > MaxCanaries THEN Tail(ring) ELSE ring, f)

Register(ring, f) ==
  IF f \in Range(ring) THEN ring
  ELSE Append(IF Len(ring) >= MaxCanaries THEN Tail(ring) ELSE ring, f)

\* A canary is to be remembered until there have been MaxCanaries others.
TakenOut(hist, g) ==
  IF hist[g] # Never THEN hist
  ELSE [f \in Fragments |->
          IF f = g THEN {}
          ELSE IF hist[f] = Never \/ Cardinality(hist[f] \cup {g}) >= MaxCanaries THEN Never
          ELSE hist[f] \cup {g}]

\* The ring and the history after the canaries made of text, in its order.
After(text, taken) ==
  LET memory[n \in 0 .. Len(text)] ==
        IF n = 0 THEN <<canaries, since>>
        ELSE IF text[n] \in taken
             THEN <<Register(memory[n - 1][1], text[n]), TakenOut(memory[n - 1][2], text[n])>>
             ELSE memory[n - 1]
  IN memory[Len(text)]

Remember(text, taken) ==
  /\ canaries' = After(text, taken)[1]
  /\ since' = After(text, taken)[2]
-----------------------------------------------------------------------------
(* before_agent_start                                                      *)

\* Mutant: every verdict that is still there is from an earlier turn.
PruneAll == NoVerdicts

Prune == [s \in Sessions |-> IF cache[s] # NoVerdict /\ cache[s].old THEN NoVerdict ELSE cache[s]]

TurnStarts(s) ==
  /\ turn[s] = NoTurn
  /\ \E m \in Prompts :
       IF mode = "off"
       THEN /\ turn' = [turn EXCEPT ![s] = Judged(m, Clean, FALSE)]
            /\ UNCHANGED cache
       ELSE /\ turn' = [turn EXCEPT ![s] = Judging(m)]
            /\ cache' = Prune
  /\ written' = NothingWritten
  /\ UNCHANGED <<mode, canaries, audits, since>>

\* The service answers, or the check is skipped.  Only a flag is kept.
Answered(s) ==
  /\ turn[s].at = "judging"
  /\ \E v \in {Clean, Overall(turn[s].prompt.text)} :
       /\ turn' = [turn EXCEPT ![s] = Judged(turn[s].prompt, v, FALSE)]
       /\ cache' = IF v = Clean THEN cache ELSE [cache EXCEPT ![s] = Flagged(v, FALSE)]
  /\ written' = NothingWritten
  /\ UNCHANGED <<mode, canaries, audits, since>>

\* The turn is given up before its prompt is stored.
Abort(s) ==
  /\ turn[s].at = "judged"
  /\ turn' = [turn EXCEPT ![s] = NoTurn]
  /\ written' = NothingWritten
  /\ UNCHANGED <<mode, cache, canaries, audits, since>>
-----------------------------------------------------------------------------
(* before_message_write                                                    *)

Of(class, text) == {f \in Range(text) : Class(f) = class}

\* The first guard that objects decides; the others are not heard.
Scan(text) ==
  LET imp == Of("impersonation", text)
      int == Of("interrogation", text)
      crit == Of("critical", text)
      high == Of("high", text)
      Without(taken) == [stored |-> Range(text) \ taken, taken |-> taken]
  IN CASE imp # {} -> Without(imp)
       [] imp = {} /\ int # {} -> Without(int)
       [] imp = {} /\ int = {} /\ crit # {} -> [stored |-> {}, taken |-> crit]
       [] OTHER -> Without(high)

\* due: this is a prompt found to be rewritten, less than 30 s ago.
Stored(s, m, stored, due) ==
  written' = [by |-> s, stored |-> stored, even |-> m.even, on |-> mode = "on", due |-> due]

\* The text goes through the guards, and to the service for the record.
Guarded(s, m, due) ==
  LET leaks == Range(m.text) \cap Range(canaries)
      found == Scan(m.text)
  IN IF mode = "on" /\ leaks # {}
     THEN \* with irregular white space it is other text that is replaced
          /\ Stored(s, m, IF m.even THEN Range(m.text) \ leaks ELSE Range(m.text), due)
          /\ UNCHANGED <<canaries, audits, since>>
     ELSE /\ audits[m.text[1]] < MaxAudits
          /\ audits' = [audits EXCEPT ![m.text[1]] = @ + 1]
          /\ IF mode = "on"
             THEN Stored(s, m, found.stored, due) /\ Remember(m.text, found.taken)
             ELSE Stored(s, m, Range(m.text), due) /\ UNCHANGED <<canaries, since>>

Unguarded(s, m) ==
  /\ mode = "off"
  /\ Stored(s, m, Range(m.text), FALSE)
  /\ UNCHANGED <<cache, canaries, audits, since>>

\* The user's message: the verdict is consumed, and replaces the whole.
WritePrompt(s) ==
  /\ turn[s].at = "judged"
  /\ turn' = [turn EXCEPT ![s] = NoTurn]
  /\ LET m == turn[s].prompt
         due == /\ mode = "on" /\ ~turn[s].late
                /\ turn[s].verdict # Clean /\ Rewrites(turn[s].verdict)
     IN \/ Unguarded(s, m)
        \/ /\ mode # "off"
           /\ cache' = [cache EXCEPT ![s] = NoVerdict]
           /\ IF mode = "on" /\ cache[s] # NoVerdict /\ Rewrites(cache[s].severity)
              THEN Stored(s, m, {}, due) /\ UNCHANGED <<canaries, audits, since>>
              ELSE Guarded(s, m, due)
  /\ UNCHANGED mode

\* What the model says and the tools return.
WriteOther(s) ==
  /\ turn[s] = NoTurn
  /\ \E m \in Messages :
       \/ Unguarded(s, m)
       \/ mode # "off" /\ Guarded(s, m, FALSE) /\ UNCHANGED cache
  /\ UNCHANGED <<mode, turn>>

\* The service's answer about a text that is stored already.
AuditAnswers(f) ==
  /\ audits[f] > 0
  /\ audits' = [audits EXCEPT ![f] = @ - 1]
  /\ Remember(<<f>>, {f}) \/ UNCHANGED <<canaries, since>>
  /\ written' = NothingWritten
  /\ UNCHANGED <<mode, cache, turn>>
-----------------------------------------------------------------------------
\* CACHE_TTL_MS pass.
Tick ==
  /\ cache' = [s \in Sessions |->
       IF cache[s] = NoVerdict THEN NoVerdict ELSE Flagged(cache[s].severity, TRUE)]
  /\ turn' = [s \in Sessions |->
       IF turn[s].at = "judged" THEN Judged(turn[s].prompt, turn[s].verdict, TRUE) ELSE turn[s]]
  /\ written' = NothingWritten
  /\ UNCHANGED <<mode, canaries, audits, since>>

\* The watcher of the store: the wrappers and the scanner see the new mode.
Reload ==
  /\ mode' \in {"off", "dry", "on"} \ {mode}
  /\ written' = NothingWritten
  /\ UNCHANGED <<cache, turn, canaries, audits, since>>

Restart ==
  /\ cache' = NoVerdicts
  /\ turn' = NoTurns
  /\ canaries' = <<>>
  /\ audits' = NoAudits
  /\ written' = NothingWritten
  /\ since' = Forgotten
  /\ UNCHANGED mode

Next ==
  \/ \E s \in Sessions :
       TurnStarts(s) \/ Answered(s) \/ Abort(s) \/ WritePrompt(s) \/ WriteOther(s)
  \/ \E f \in Fragments : AuditAnswers(f)
  \/ Tick \/ Reload \/ Restart

Spec == Init /\ [][Next]_vars
-----------------------------------------------------------------------------
TypeOK ==
  /\ mode \in {"off", "dry", "on"}
  /\ \A s \in Sessions :
       /\ cache[s] = NoVerdict \/ cache[s] \in
            [is : {"flagged"}, severity : Range(Severities), old : BOOLEAN]
       /\ turn[s] \in {NoTurn} \cup {Judging(m) : m \in Prompts}
            \cup {Judged(m, v, late) : m \in Prompts, v \in Verdicts, late \in BOOLEAN}
  /\ canaries \in Seq(Fragments) /\ Len(canaries) <= MaxCanaries
  /\ audits \in [Fragments -> 0 .. MaxAudits]

\* A prompt found fit for rewriting is never stored as it came: the verdict
\* reaches the write that follows it, whatever other sessions start, judge and
\* write between the two and whatever earlier turns of the session left behind
\* (ModerationGuardHook.ts:48-63, GuardrailWriteScannerHook.ts:190-222).
FlaggedRewritten ==
  written # NothingWritten /\ written.due => written.stored = {}

\* What a guard has matched in a message, or a late answer of the service has
\* flagged, is stored in no later message with regular white space before
\* MaxCanaries other texts were, in whatever order messages and answers of all
\* sessions come (canary-tracker.ts:76-103,
\* GuardrailWriteScannerHook.ts:224-272).  It says nothing of text that was
\* dropped without a match of its own, beside a critical find or with a prompt
\* that is rewritten: lines 446-458 and 205-214 there register nothing of it.
LeakbackStopped ==
  [][written' # NothingWritten /\ written'.on /\ written'.even =>
       \A f \in written'.stored : since[f] = Never]_vars
=============================================================================
