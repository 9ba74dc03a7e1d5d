-------------------------- MODULE ToolCallPipeline --------------------------
(***************************************************************************)
(* The hook before_tool_call of the plugin (plugin/index.ts:724-842): the  *)
(* guardrail, the PII sanitizer, the call limits and the approval gate     *)
(* judge a call one after the other, each of them only while it is         *)
(* switched on at that moment.  The switches and the policies follow the   *)
(* store, whose watchers run whenever no call is between two awaits that   *)
(* need no I/O.                                                            *)
(*                                                                         *)
(* The gate is taken as what ApprovalLedger promises of it.  The limits    *)
(* answer as they like here: ToolCallLimit models them.                    *)
(***************************************************************************)
EXTENDS ToolScan

CONSTANTS Calls,       \* tool calls of the agent
          Inputs,      \* what calls are made with
          Key(_),      \* <<session, action>> of an input
          Rule(_),     \* the gate's rule for a key
          Configured,  \* how the layers may be set when the gateway starts
          MaxReloads   \* bound: changes of the store

Keys == {Key(i) : i \in Inputs}

Scanners == {"guardrail", "pii"}
Layers == Scanners \cup {"limit", "hitl"}

\* dry: the scanner looks and logs, and lets everything pass.
Modes(l) == IF l \in Scanners THEN {"off", "dry", "on"} ELSE {"off", "on"}

Settings == {m \in [Layers -> {"off", "dry", "on"}] : \A l \in Layers : m[l] \in Modes(l)}

ASSUME PipelineAssumption ==
  /\ \A i \in Inputs : i.found \in Findings /\ i.pii \in PiiFindings
  /\ \A k \in Keys : Rule(k) \in {"ALLOW", "ASK", "DENY"}
  /\ Configured \subseteq Settings
  /\ MaxReloads \in Nat

\* The parameters of an event: the input, redacted or as it came.
Params == Inputs \X BOOLEAN

VARIABLES mode,     \* mode[l]: how the layer is set now
          calls,    \* calls[c]: the event of the call and where it is
          heard,    \* history: what the guardrail said of the event
          ledger, runs,
          reloads   \* reloads so far

vars == <<mode, calls, heard, ledger, runs, reloads>>

Ledger == INSTANCE ApprovalLedger WITH Args <- Params, Exact <- TRUE

\* at: the layer whose turn it is; a call turned down is idle again.
\* forceAsk: event.metadata.
Idle == [at |-> "idle"]
Event(at, params, forceAsk) == [at |-> at, params |-> params, forceAsk |-> forceAsk]

InputOf(c) == calls[c].params[1]

Init ==
  /\ mode \in Configured
  /\ calls = [c \in Calls |-> Idle]
  /\ heard = [c \in Calls |-> "none"]
  /\ Ledger!Init
  /\ reloads = 0

\* The agent makes a call, a new one or once more one that was turned down.
Arrive(c) ==
  /\ calls[c] = Idle
  /\ \E i \in Inputs : calls' = [calls EXCEPT ![c] = Event("guardrail", <<i, FALSE>>, FALSE)]
  /\ UNCHANGED <<mode, heard, ledger, runs, reloads>>

\* The event is given up: the tool has run, or the hook said block.
GivenUp(c) ==
  /\ calls' = [calls EXCEPT ![c] = Idle]
  /\ heard' = [heard EXCEPT ![c] = "none"]
  /\ UNCHANGED <<mode, reloads>>

\* A layer that is off, that only looks on, or that throws says nothing, and
\* the call goes on.
Verdicts(layer, verdict) == {"none"} \cup (IF mode[layer] = "on" THEN {verdict} ELSE {})

\* 1. Guardrail.
AskGuardrail(c) ==
  /\ calls[c].at = "guardrail"
  /\ \E v \in Verdicts("guardrail", GuardrailVerdict(InputOf(c).found)) :
       IF v = "block" THEN GivenUp(c)
       ELSE /\ calls' = [calls EXCEPT ![c] = Event("pii", @.params, v = "escalate")]
            /\ heard' = [heard EXCEPT ![c] = v]
            /\ UNCHANGED <<mode, reloads>>
  /\ UNCHANGED <<ledger, runs>>

\* 2. PII: the redacted parameters replace those of the event.
AskPii(c) ==
  /\ calls[c].at = "pii"
  /\ LET p == InputOf(c).pii
     IN \E v \in Verdicts("pii", PiiVerdict(p)) :
          IF v = "block" THEN GivenUp(c)
          ELSE /\ calls' = [calls EXCEPT ![c] =
                    Event("limit", <<InputOf(c), v # "none" /\ Redacts(p)>>,
                          @.forceAsk \/ v = "escalate")]
               /\ UNCHANGED <<mode, heard, reloads>>
  /\ UNCHANGED <<ledger, runs>>

\* 3. Limits: the only layer that waits for I/O.
AskLimit(c) ==
  /\ calls[c].at = "limit"
  /\ calls' = [calls EXCEPT ![c].at = IF mode["limit"] = "on" THEN "charging" ELSE "hitl"]
  /\ UNCHANGED <<mode, heard, ledger, runs, reloads>>

LimitAnswers(c) ==
  /\ calls[c].at = "charging"
  /\ \/ GivenUp(c)
     \/ /\ calls' = [calls EXCEPT ![c].at = "hitl"]
        /\ UNCHANGED <<mode, heard, reloads>>
  /\ UNCHANGED <<ledger, runs>>

\* 4. The gate judges the parameters the event has by now.
\* Mutant: those the agent sent.
SentParams(c) == <<InputOf(c), FALSE>>

JudgedParams(c) == calls[c].params

Passes(c) ==
  /\ calls' = [calls EXCEPT ![c].at = "running"]
  /\ UNCHANGED <<mode, heard, reloads>>

\* Mutant: a call that finds its request pending waits for the answer.
AskGateWaits(c) ==
  /\ calls[c].at = "hitl"
  /\ LET k == Key(InputOf(c))
         args == JudgedParams(c)
     IN \/ /\ mode["hitl"] = "off" \/ Rule(k) # "ASK"
           /\ Ledger!RunFreely(c) /\ Passes(c)
        \/ /\ mode["hitl"] = "on" /\ Rule(k) = "ASK"
           /\ Ledger!Spend(c, k, args) /\ Passes(c)
        \/ /\ mode["hitl"] = "on" /\ Rule(k) = "ASK"
           /\ ledger[k] \notin {Ledger!Granted(args), Ledger!Asked(args)}
           /\ Ledger!Ask(k, args) /\ GivenUp(c)

AskGate(c) ==
  /\ calls[c].at = "hitl"
  /\ LET k == Key(InputOf(c))
         args == JudgedParams(c)
     IN \/ /\ mode["hitl"] = "off" \/ Rule(k) = "ALLOW"
           /\ Ledger!RunFreely(c) /\ Passes(c)
        \/ /\ mode["hitl"] = "on" /\ Rule(k) = "DENY"
           /\ GivenUp(c) /\ UNCHANGED <<ledger, runs>>
        \/ /\ mode["hitl"] = "on" /\ Rule(k) = "ASK"
           /\ Ledger!Spend(c, k, args) /\ Passes(c)
        \/ /\ mode["hitl"] = "on" /\ Rule(k) = "ASK"
           /\ ledger[k] # Ledger!Granted(args)
           /\ Ledger!Ask(k, args) /\ GivenUp(c)

\* The tool has run.
Done(c) ==
  /\ calls[c].at = "running"
  /\ GivenUp(c)
  /\ Ledger!Stop(c)

\* The human answers, or time passes.
Human ==
  /\ \E k \in Keys : Ledger!Grant(k) \/ Ledger!Withdraw({k})
  /\ UNCHANGED <<mode, calls, heard, reloads>>

\* The watchers: caches and policies take over what the store says.  They
\* cannot run between two awaits of a call that wait for nothing.
Quiet == \A c \in Calls : calls[c].at \notin {"pii", "limit", "hitl"}

Reload ==
  /\ Quiet
  /\ reloads < MaxReloads /\ reloads' = reloads + 1
  /\ \E l \in Layers : \E m \in Modes(l) : mode' = [mode EXCEPT ![l] = m]
  /\ UNCHANGED <<calls, heard, ledger, runs>>

Judge(c) ==
  AskGuardrail(c) \/ AskPii(c) \/ AskLimit(c) \/ LimitAnswers(c) \/ AskGate(c)

Next ==
  \/ \E c \in Calls : Arrive(c) \/ Judge(c) \/ Done(c)
  \/ Human \/ Reload

Spec == Init /\ [][Next]_vars

\* The promises of the layers settle: the limits answer every call
\* (ToolCallLimit), and the rest needs no I/O.
FairSpec == Spec /\ \A c \in Calls : WF_vars(Judge(c))
-----------------------------------------------------------------------------
TypeOK ==
  /\ mode \in Settings
  /\ calls \in [Calls -> {Idle} \cup
       [at : {"guardrail", "pii", "limit", "charging", "hitl", "running"},
        params : Params, forceAsk : BOOLEAN]]
  /\ heard \in [Calls -> {"none", "pass", "escalate"}]
  /\ ledger \in [Keys -> {Ledger!Nothing} \cup {Ledger!Asked(p) : p \in Params}
                           \cup {Ledger!Granted(p) : p \in Params}]
  /\ reloads \in 0 .. MaxReloads

\* What runs on the human's word is what the human was shown: the parameters
\* as the sanitizer left them for the event that runs, also when it was
\* switched on or off between the question and the retry.  This is for the
\* actions whose approval is bound to the parameters (plugin/index.ts:767-769,
\* Arbitrator.ts:154-166).
RunsAsSeen ==
  \A c \in Calls :
    calls[c].at = "running" /\ runs[c].by = "grant" =>
      runs[c].args = calls[c].params /\ runs[c].key = Key(InputOf(c))

\* What the guardrail lets pass is clean: nothing that asks for a block or a
\* human is passed over on account of what was found before it, or comes
\* after it, in the same call (GuardrailInterceptorHook.ts:639-847).
FindingsHeeded ==
  \A c \in Calls :
    calls[c] # Idle /\ heard[c] = "pass" =>
      LET f == InputOf(c).found
      IN /\ ~f.forbidden /\ ~f.indirect
         /\ \A n \in 1 .. Len(f.files) : f.files[n] \notin {"warn", "block"}
         /\ f.text \notin {"warn", "block"}

\* Every call is let through or turned down, whatever fails on the way and
\* however often the layers are switched.
EveryCallSettles ==
  \A c \in Calls : calls[c].at = "guardrail" ~> calls[c].at \in {"idle", "running"}

\* README.md:554: "ESCALATE - Force HITL approval before proceeding".
EscalatedAreAsked ==
  \A c \in Calls :
    calls[c].at = "running" /\ calls[c].forceAsk =>
      runs[c].by = "grant" \/ mode["hitl"] = "off"
=============================================================================
