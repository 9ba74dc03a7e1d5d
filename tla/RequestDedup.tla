---------------------------- MODULE RequestDedup ----------------------------
(***************************************************************************)
(* The deduplication of identical chat requests                            *)
(* (model-routing/cache/dedup.ts): one in-flight entry at most per key,    *)
(* whose promise the duplicates wait for, and the answers completed in the *)
(* last 30 seconds.                                                        *)
(*                                                                         *)
(* A promise is settled when its entry leaves the Map, and its waiters run *)
(* before anything else does: who waits under a key waits for the entry    *)
(* that is in the Map, and is answered in the step that removes it.  An    *)
(* answer may expire at any moment after it was completed.                 *)
(***************************************************************************)
CONSTANT Bodies         \* request bodies that differ by their dedup key

VARIABLES inflight,     \* the keys in the Map inflight
          completed     \* the keys in the Map completed

dedupVars == <<inflight, completed>>

DedupTypeOK ==
  /\ inflight \subseteq Bodies
  /\ completed \subseteq Bodies

DedupInit ==
  /\ inflight = {}
  /\ completed = {}

MarkInflight(b) ==
  /\ inflight' = inflight \cup {b}
  /\ UNCHANGED completed

Complete(b) ==
  /\ inflight' = inflight \ {b}
  /\ completed' = completed \cup {b}

RemoveInflight(b) ==
  /\ inflight' = inflight \ {b}
  /\ UNCHANGED completed

\* getCached and prune drop an answer older than ttlMs.
Expire(b) ==
  /\ b \in completed
  /\ completed' = completed \ {b}
  /\ UNCHANGED inflight
=============================================================================
