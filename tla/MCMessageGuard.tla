---------------------------- MODULE MCMessageGuard ----------------------------
(***************************************************************************)
(* Instances of MessageGuard for TLC: four fragments for a ring of two.    *)
(***************************************************************************)
EXTENDS MessageGuard, TLC

CONSTANTS s1, s2, threat, marker, token, key

MCClass(f) ==
  CASE f = threat -> "plain" [] f = marker -> "impersonation"
    [] f = token -> "high" [] f = key -> "critical"

MCFlag(f) == IF f = threat THEN "HIGH" ELSE IF f = token THEN "MEDIUM" ELSE Clean

MCMessages ==
  {[text |-> <<threat>>, even |-> TRUE], [text |-> <<marker, token>>, even |-> TRUE],
   [text |-> <<token, key>>, even |-> FALSE], [text |-> <<key>>, even |-> TRUE]}

MCPrompts == {m \in MCMessages : m.text[1] \in {threat, token}}

MCSymmetry == Permutations({s1, s2})
=============================================================================
