-------------------------- MODULE TrustRateLimiter --------------------------
(***************************************************************************)
(* The rolling count of human rejections that tightens the posture of the  *)
(* HITL middleware (hitl/approval/TrustRateLimiter.ts).  A rejection is    *)
(* recorded under a key and counts for that key until it is older than the *)
(* window.  Pruning is done by the clock here: the code prunes on every    *)
(* read, so no reader can tell the difference.                             *)
(***************************************************************************)
EXTENDS Naturals, FiniteSets

CONSTANTS TrustKeys,    \* keys a rejection is recorded or looked up under
          Subjects,     \* whose calls a human can reject
          DenialIds,    \* bound: rejections that can be in the window at once
          Window,       \* DEFAULT_WINDOW_MS, in ticks
          Level1,       \* trustRateLimitLevel1
          Level2        \* trustRateLimitLevel2

ASSUME TrustAssumption ==
  /\ Window \in Nat
  /\ Level1 \in Nat \ {0}
  /\ Level2 \in Nat \ {0}

VARIABLE denials        \* the rejections still inside the window

\* of is history: whose call the human turned down.
Denial == [id : DenialIds, key : TrustKeys, of : Subjects, age : 0..Window]

TrustTypeOK == denials \subseteq Denial

TrustInit == denials = {}

Count(key) == Cardinality({d \in denials : d.key = key})

Level(key) ==
  CASE Count(key) >= Level2 -> 2
    [] Count(key) < Level2 /\ Count(key) >= Level1 -> 1
    [] OTHER -> 0

\* recordDenial pushes a timestamp under the key.
RecordDenial(key, of) ==
  \E n \in DenialIds \ {d.id : d \in denials} :
    denials' = denials \cup {[id |-> n, key |-> key, of |-> of, age |-> 0]}

Older(d) == [id |-> d.id, key |-> d.key, of |-> d.of, age |-> d.age + 1]

\* A rejection as old as the window is pruned.
TrustTick == denials' = {Older(d) : d \in {e \in denials : e.age < Window}}
=============================================================================
