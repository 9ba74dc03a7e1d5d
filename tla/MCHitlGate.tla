----------------------------- MODULE MCHitlGate -----------------------------
(***************************************************************************)
(* Instances of HitlGate for TLC: one action, up to three fingerprints.    *)
(***************************************************************************)
EXTENDS HitlGate, TLC

CONSTANTS s1, s2, act, a1, a2, a3, c1, c2

\* One fingerprint, asked about or free to run.
AskOrAllow == {[x \in {act} \X {a1} |-> rule] : rule \in {"ASK", "ALLOW"}}

\* Everything is asked about, but for a3, which is forbidden.
AskPolicy == {[x \in {act} \X Args |-> IF x[2] = a3 THEN "DENY" ELSE "ASK"]}

MCTrustKeys == {"tty", "channel-deny", "local"} \cup Sessions

MCSubjects == Sessions \cup {NoSession}

MCSymmetry == Permutations({c1, c2}) \cup Permutations({s1, s2})
=============================================================================
