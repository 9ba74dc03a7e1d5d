----------------------------- MODULE TierDecision -----------------------------
(***************************************************************************)
(* Which tier a request is routed to (model-routing/scoring/*,             *)
(* session/momentum.ts): hard overrides before the weighted score, floors  *)
(* after it, and the momentum of the session's last tiers last of all.     *)
(*                                                                         *)
(* Scores are in hundredths.  The weighted sum of the dimensions is an     *)
(* input; so is the answer of the classifier.                              *)
(***************************************************************************)
EXTENDS Integers, Sequences, FiniteSets

CONSTANTS HistorySize,      \* of the momentum
          AmbiguousWithin   \* a score as close as this to a boundary is ambiguous

ASSUME TierAssumption ==
  /\ HistorySize \in Nat \ {0}
  /\ AmbiguousWithin \in Nat

\* SIMPLE, STANDARD, COMPLEX and REASONING by their place in TIER_ORDER.
Simple == 1
Standard == 2
Complex == 3
Reasoning == 4
Tiers == Simple .. Reasoning

Higher(t, u) == IF t >= u THEN t ELSE u

\* Boundaries[t]: where the tier above t begins.
Boundaries == <<-10, 8, 35>>

\* scoreToTier of score / scale.
ScaledTier(score, scale) ==
  1 + Cardinality({t \in 1 .. 3 : score >= Boundaries[t] * scale})

ScoreTier(score) == ScaledTier(score, 1)

Distance(a, b) == IF a >= b THEN a - b ELSE b - a

\* calcConfidence never falls below one half: with the threshold of 0.45 that
\* is shipped no score is ambiguous, and AmbiguousWithin is 0.
Ambiguous(score) == \E t \in 1 .. 3 : Distance(score, Boundaries[t]) < AmbiguousWithin

Decision(tier, score, why) == [tier |-> tier, score |-> score, why |-> why]

(***************************************************************************)
(* A request: kind is what its text begins with; short: below 50           *)
(* characters, none of them a keyword; formal: two keywords of formal      *)
(* logic; large: above 50000 tokens; usesTools: listed, used before and    *)
(* not switched off; json: response_format; classified: what the           *)
(* classifier says, or 0; length: that of the last user message.           *)
(***************************************************************************)
Overridden(r) ==
  CASE r.kind = "icc" -> Decision(Simple, -50, "icc_extraction")
    [] r.kind = "startup" -> Decision(Simple, -40, "session_startup")
    [] r.kind = "chat" /\ r.short -> Decision(Simple, -30, "short_message")
    [] r.kind = "chat" /\ ~r.short /\ r.formal -> Decision(Reasoning, 50, "reasoning_override")
    [] r.kind = "chat" /\ ~r.short /\ ~r.formal /\ r.large -> Decision(Complex, 20, "large_context")
    [] OTHER -> IF Ambiguous(r.score) THEN Decision(Standard, r.score, "ambiguous")
                ELSE Decision(ScoreTier(r.score), r.score, "scored")

\* applyToolFloor, applyStructuredOutputFloor: the score is left as it is.
Floored(r, d) ==
  IF d.why \in {"icc_extraction", "session_startup"} \/ ~(r.usesTools \/ r.json) THEN d
  ELSE Decision(Higher(d.tier, Standard), d.score,
                IF d.tier >= Standard THEN d.why ELSE "floor")

\* The classifier is only asked about what is still called ambiguous.
Classified(r, d) ==
  IF d.why = "ambiguous" /\ r.classified # 0
  THEN Decision(r.classified, d.score, "llm_classified") ELSE d

Scored(r) == Classified(r, Floored(r, Overridden(r)))

(***************************************************************************)
(* Momentum.                                                               *)
(***************************************************************************)
TierValue == <<-20, 0, 20, 40>>

\* calcWeight, in 700ths: 0.6 for an empty message, 0.3 at 30 characters,
\* nothing from 100 on.
\* Mutant: the boost of the very short is twice as much again.
WeightUnbounded(length) ==
  IF length >= 100 THEN 0 ELSE IF length >= 30 THEN 3 * (100 - length) ELSE 28 * (60 - length)

Weight(length) ==
  IF length >= 100 THEN 0 ELSE IF length >= 30 THEN 3 * (100 - length) ELSE 7 * (60 - length)

TotalValue(history) ==
  LET total[n \in 0 .. Len(history)] ==
        IF n = 0 THEN 0 ELSE total[n - 1] + TierValue[history[n]]
  IN total[Len(history)]

\* (1 - w) * score + w * average, times 700 * Len(history).
Blended(score, length, history) ==
  (700 - Weight(length)) * score * Len(history) + Weight(length) * TotalValue(history)

Momentum(r, d, history) ==
  IF history = <<>> \/ Weight(r.length) = 0 THEN d
  ELSE LET tier == ScaledTier(Blended(d.score, r.length, history), 700 * Len(history))
       IN IF tier = d.tier THEN d ELSE Decision(tier, d.score, "momentum")

Decide(r, history) == Momentum(r, Scored(r), history)

\* MomentumTracker.record
Record(history, tier) ==
  LET longer == Append(history, tier)
  IN IF Len(longer) > HistorySize THEN Tail(longer) ELSE longer
=============================================================================
