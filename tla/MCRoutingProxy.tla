--------------------------- MODULE MCRoutingProxy ---------------------------
(***************************************************************************)
(* Instances of RoutingProxy for TLC: a lower tier of two models and an    *)
(* upper tier of one.                                                      *)
(***************************************************************************)
EXTENDS RoutingProxy, TLC

CONSTANTS s1, s2, plain, stream, same, m1, m2, r1, r2, r3

MCChain == [t \in 1..TopTier |-> IF t = 1 THEN <<m1, m2>> ELSE <<m2>>]

\* The two bodies differ in nothing but stream.
MCHashOf == [b \in Bodies |-> same]

MCSymmetry == Permutations(Requests)
=============================================================================
