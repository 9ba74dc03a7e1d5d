-------------------------- MODULE MCContextEditing --------------------------
(***************************************************************************)
(* Instances of ContextEditing for TLC.                                    *)
(***************************************************************************)
EXTENDS ContextEditing

\* Both modes that look at messages, with and without messages kept.
MCConfigs == [mode : {"message", "both"}, keep : {0, 1}]
=============================================================================
