------------------------------ MODULE ToolScan ------------------------------
(***************************************************************************)
(* What the scanners in front of the gate say of one tool call:            *)
(* executeGuardrailScan (GuardrailInterceptorHook.ts) and                  *)
(* PiiSanitizerMiddleware.beforeToolCall.  Pure functions of what is found *)
(* in the call's parameters and in the files they name.                    *)
(***************************************************************************)
EXTENDS Naturals, Sequences, SequencesExt

\* The worst action of the guardrail rules that match a text.
RuleActions == {"none", "log", "warn", "block"}

\* The worst action of the DLP rules that match a text.
DlpActions == {"none", "redact", "escalate", "block"}

\* forbidden: a sensitive path, network egress or a destructive command;
\* indirect: the command is put together at run time; files: what the
\* contents of the files named match, in the order they are read; text: what
\* the parameters themselves match.
Findings ==
  [forbidden : BOOLEAN, indirect : BOOLEAN, files : Seq(RuleActions), text : RuleActions]

\* known: the DLP policy has an entry for the tool under the module and the
\* method the host gave it; params: what its scanned fields match; file: what
\* the file match that FileSystem.read is about to return.
PiiFindings == [known : BOOLEAN, params : DlpActions, file : DlpActions]

\* Only detections to be blocked or warned about count.
Heeded(action) ==
  CASE action = "block" -> "block"
    [] action = "warn" -> "escalate"
    [] OTHER -> "pass"

Forbidden(f) == IF f.forbidden THEN "block" ELSE "pass"

Indirect(f) == IF f.indirect THEN "escalate" ELSE "pass"

\* preReadAndScan: one verdict for each file.
\* Mutant: the scan stops at the first file in which something is found.
PreReadsFirst(f) ==
  LET found == SelectSeq(f.files, LAMBDA a : a # "none")
  IN IF found = <<>> THEN <<>> ELSE <<Heeded(found[1])>>

PreReads(f) == [i \in 1 .. Len(f.files) |-> Heeded(f.files[i])]

\* The guards in the order they are asked; the first that objects decides.
Answers(f) == <<Forbidden(f), Indirect(f)>> \o PreReads(f) \o <<Heeded(f.text)>>

Objecting(f) == {i \in 1 .. Len(Answers(f)) : Answers(f)[i] # "pass"}

GuardrailVerdict(f) ==
  IF Objecting(f) = {} THEN "pass"
  ELSE Answers(f)[CHOOSE i \in Objecting(f) : \A j \in Objecting(f) : i <= j]

\* The parameters are redacted wherever a rule matches, whatever its action.
Redacts(p) == p.known /\ p.params # "none"

\* The file is only looked at when the parameters are clean, and what would
\* escalate in a parameter blocks in a file.
PiiVerdict(p) ==
  IF ~p.known THEN "pass"
  ELSE CASE p.params = "block" -> "block"
         [] p.params = "escalate" -> "escalate"
         [] p.params = "redact" -> "pass"
         [] OTHER -> IF p.file \in {"block", "escalate"} THEN "block" ELSE "pass"
=============================================================================
