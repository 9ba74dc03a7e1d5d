------------------------- MODULE MCToolCallPipeline -------------------------
(***************************************************************************)
(* Instances of ToolCallPipeline for TLC.                                  *)
(***************************************************************************)
EXTENDS ToolCallPipeline

CONSTANTS read, exec, erase

CleanFindings == [forbidden |-> FALSE, indirect |-> FALSE, files |-> <<>>, text |-> "none"]
CleanPii == [known |-> TRUE, params |-> "none", file |-> "none"]

Made(key, found, pii) == [key |-> key, found |-> found, pii |-> pii]

\* A file that is only logged before one that is warned about, a command with
\* a secret in it, an indirect one, and one that every layer is against.
MCInputs ==
  {Made(read, [CleanFindings EXCEPT !.files = <<"log", "warn">>], CleanPii),
   Made(exec, CleanFindings, [CleanPii EXCEPT !.params = "redact"]),
   Made(exec, [CleanFindings EXCEPT !.indirect = TRUE], [CleanPii EXCEPT !.params = "escalate"]),
   Made(erase, [CleanFindings EXCEPT !.forbidden = TRUE], [CleanPii EXCEPT !.file = "escalate"])}

\* Everything on, and the same with the scanners looking on.
MCConfigured ==
  {[l \in Layers |-> "on"], [l \in Layers |-> IF l \in Scanners THEN "dry" ELSE "on"]}

MCKey(i) == i.key
MCRule(k) ==
  CASE k = read -> "ALLOW" [] k = exec -> "ASK" [] k = erase -> "DENY"
=============================================================================
