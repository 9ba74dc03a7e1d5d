--------------------------- MODULE MCToolCallLimit ---------------------------
(***************************************************************************)
(* Instances of ToolCallLimit for TLC: one tool, a session's budgets of    *)
(* three calls overall and two of the tool, a request's of two overall.    *)
(***************************************************************************)
EXTENDS ToolCallLimit, TLC

CONSTANTS main, r1, r2, read, c1, c2

MCDefault ==
  [x \in {"session", "request"} \X {"GLOBAL", read} |->
     CASE x = <<"session", "GLOBAL">> -> 3
       [] x = <<"request", "GLOBAL">> -> 2
       [] x = <<"session", read>> -> 2
       [] OTHER -> 0]

\* What an embedder patches it to.
MCPatched == [MCDefault EXCEPT ![<<"session", "GLOBAL">>] = 5]

OnePolicy == {MCDefault}

TwoPolicies == {MCDefault, MCPatched}

MCSymmetry == Permutations({c1, c2}) \cup Permutations({r1, r2})
=============================================================================
