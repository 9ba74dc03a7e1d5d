---------------------------- MODULE SessionStore ----------------------------
(***************************************************************************)
(* The sessions of the routing proxy (model-routing/session/               *)
(* session-store.ts): a bounded Map in order of use, with the model a      *)
(* session is pinned to and a count of identical requests in a row.        *)
(*                                                                         *)
(* strikes saturates at the threshold: at the top tier the code counts on, *)
(* but only ever compares.  highWaterTier, recentHashes and requestCount   *)
(* are written and never read, and left out.                               *)
(***************************************************************************)
EXTENDS Naturals, Sequences

CONSTANTS Sessions,         \* session ids
          Hashes,           \* hashes of the last two messages of a request
          Models,
          TopTier,          \* the last of TIER_ORDER, counted from 1
          MaxSessions,      \* maxSessions
          StrikeThreshold   \* strikeThreshold

ASSUME StoreAssumption ==
  /\ TopTier \in Nat \ {0}
  /\ MaxSessions \in Nat \ {0}
  /\ StrikeThreshold \in Nat \ {0}

VARIABLES sessions,     \* sessions[s]: its entry
          recency       \* the Map's order: least recently used first

storeVars == <<sessions, recency>>

Tiers == 1..TopTier

Unpinned == [tier |-> 0]
Pin == {Unpinned} \cup [tier : Tiers, model : Models]

NoHash == [is |-> "null"]
Hash == {NoHash} \cup [is : {"hash"}, of : Hashes]

NoEntry == [is |-> "absent"]
Entry(pin, strikes, last) ==
  [is |-> "present", pin |-> pin, strikes |-> strikes, last |-> last]

SessionsTypeOK ==
  sessions \in [Sessions -> {NoEntry} \cup
                  [is : {"present"}, pin : Pin, strikes : 0..StrikeThreshold, last : Hash]]

StoreTypeOK ==
  /\ SessionsTypeOK
  /\ recency \in Seq(Sessions)
  /\ Len(recency) <= MaxSessions
  /\ \A s \in Sessions :
       sessions[s] # NoEntry <=> \E i \in 1..Len(recency) : recency[i] = s

StoreInit ==
  /\ sessions = [s \in Sessions |-> NoEntry]
  /\ recency = <<>>

\* Map.delete: s is in the order once at most.
Without(q, s) ==
  IF \A i \in DOMAIN q : q[i] # s THEN q
  ELSE LET at == CHOOSE i \in DOMAIN q : q[i] = s
       IN [i \in 1..Len(q) - 1 |-> IF i < at THEN q[i] ELSE q[i + 1]]

(***************************************************************************)
(* getOrCreate.                                                            *)
(***************************************************************************)
\* Mutant: one session too many is kept.
EvictedLate(s) ==
  IF sessions[s] = NoEntry /\ Len(recency) > MaxSessions THEN {Head(recency)} ELSE {}

Evicted(s) ==
  IF sessions[s] = NoEntry /\ Len(recency) >= MaxSessions THEN {Head(recency)} ELSE {}

Found(s) ==
  IF sessions[s] = NoEntry THEN Entry(Unpinned, 0, NoHash) ELSE sessions[s]

\* s is the most recently used session now, with the entry e.
Touch(s, e) ==
  /\ sessions' = [x \in Sessions |->
                    IF x = s THEN e ELSE IF x \in Evicted(s) THEN NoEntry
                    ELSE sessions[x]]
  /\ recency' = Append(Without(IF Evicted(s) = {} THEN recency ELSE Tail(recency), s), s)

(***************************************************************************)
(* checkPinning, for a request with hash h that was scored tier.           *)
(***************************************************************************)
Strikes(e, h) ==
  IF e.last # [is |-> "hash", of |-> h] THEN 1
  ELSE IF e.strikes = StrikeThreshold THEN StrikeThreshold
  ELSE e.strikes + 1

Escalates(e, h, tier) == Strikes(e, h) >= StrikeThreshold /\ tier < TopTier

EffectiveTier(e, h, tier) == IF Escalates(e, h, tier) THEN tier + 1 ELSE tier

\* Mutant: a lower score releases the pin as well.
KeepsEqualPin(e, h, tier) == EffectiveTier(e, h, tier) = e.pin.tier

\* A pin holds unless the tier has risen above it.
KeepsPin(e, h, tier) == EffectiveTier(e, h, tier) <= e.pin.tier

Checked(e, h, tier) ==
  Entry(IF KeepsPin(e, h, tier) THEN e.pin ELSE Unpinned,
        IF Escalates(e, h, tier) THEN 0 ELSE Strikes(e, h),
        [is |-> "hash", of |-> h])

\* What handleChatCompletions makes of the answer.
RoutedTier(e, h, tier) ==
  IF KeepsPin(e, h, tier) THEN e.pin.tier ELSE EffectiveTier(e, h, tier)

\* pinModel, which does not bring back a session that was evicted meanwhile.
PinModel(s, model, tier) ==
  /\ sessions' = [sessions EXCEPT ![s] =
                    IF @ = NoEntry THEN NoEntry
                    ELSE Entry([tier |-> tier, model |-> model], @.strikes, @.last)]
  /\ UNCHANGED recency

\* evictExpired drops a session that was not used for ttlMs.
EvictExpired(s) ==
  /\ sessions[s] # NoEntry
  /\ sessions' = [sessions EXCEPT ![s] = NoEntry]
  /\ recency' = Without(recency, s)
=============================================================================
