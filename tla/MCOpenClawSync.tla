--------------------------- MODULE MCOpenClawSync ---------------------------
(***************************************************************************)
(* Instances of OpenClawSync for TLC.                                      *)
(***************************************************************************)
EXTENDS OpenClawSync

CONSTANTS r1, r2, m1

MCKeys == {"ceFlag", "mrFlag", "ceModel", "cePruning", "mrPolicy"} \cup Paths

MCValues == {m1, On, Off}

MCWatched == {"ceFlag", "mrFlag"}

\* A model and pruning, or neither; the second clears what the first sets.
MCBodies == {<<m1, On>>, <<NoValue, Off>>}
=============================================================================
