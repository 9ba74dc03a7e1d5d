----------------------- MODULE ToolCallPipelineProofs -----------------------
(***************************************************************************)
(* Proofs about ToolCallPipeline and ToolScan, for any inputs, calls,      *)
(* rules and settings, and any number of reloads.                          *)
(***************************************************************************)
EXTENDS ToolCallPipeline, WellFoundedInduction, TLAPS

Places == {"guardrail", "pii", "limit", "charging", "hitl", "running"}

Events == [at : Places, params : Params, forceAsk : BOOLEAN]

Runs ==
  {Ledger!Stopped, Ledger!ByOther} \cup {Ledger!ByGrant(k, p) : k \in Keys, p \in Params}

LEMMA EventType ==
  ASSUME NEW at \in Places, NEW params \in Params, NEW forceAsk \in BOOLEAN
  PROVE  /\ Event(at, params, forceAsk) \in Events
         /\ Event(at, params, forceAsk) # Idle
         /\ Event(at, params, forceAsk).at = at
         /\ Event(at, params, forceAsk).params = params
BY DEF Event, Events, Idle, Places

LEMMA EventFields ==
  ASSUME NEW e \in {Idle} \cup Events
  PROVE  /\ e # Idle <=> e.at # "idle"
         /\ e # Idle => /\ e \in Events /\ e.at \in Places
                        /\ e.params \in Params /\ e.params[1] \in Inputs
                        /\ e.forceAsk \in BOOLEAN
BY DEF Events, Idle, Places, Params

\* What the scan says of a file or a text is a verdict.
LEMMA AnswersType ==
  ASSUME NEW f \in Findings
  PROVE  /\ Len(Answers(f)) \in Nat
         /\ \A i \in 1 .. Len(Answers(f)) : Answers(f)[i] \in {"pass", "escalate", "block"}
<1>1. PreReads(f) \in Seq({"pass", "escalate", "block"})
  <2>1. f.files \in Seq(RuleActions)
    BY DEF Findings
  <2>2. Len(f.files) \in Nat
    BY <2>1
  <2> QED
    BY <2>2 DEF PreReads, Heeded
<1>2. Answers(f) \in Seq({"pass", "escalate", "block"})
  BY <1>1 DEF Answers, Forbidden, Indirect, Heeded
<1> QED
  BY <1>2

\* The first guard that objects exists when one objects.
LEMMA FirstObjection ==
  ASSUME NEW f \in Findings, Objecting(f) # {}
  PROVE  \E i \in Objecting(f) : \A j \in Objecting(f) : i <= j
<1>1. Objecting(f) \subseteq Nat
  BY AnswersType DEF Objecting
<1>2. PICK i \in Objecting(f) : \A j \in Objecting(f) : ~ (<<j, i>> \in OpToRel(<, Nat))
  BY <1>1, WFMin, NatLessThanWellFounded, Zenon
<1>3. \A j \in Objecting(f) : ~ (j < i)
  BY <1>1, <1>2 DEF OpToRel
<1> QED
  BY <1>1, <1>3

LEMMA VerdictObjects ==
  ASSUME NEW f \in Findings, Objecting(f) # {}
  PROVE  GuardrailVerdict(f) \in {"escalate", "block"}
<1> DEFINE first == CHOOSE i \in Objecting(f) : \A j \in Objecting(f) : i <= j
<1>1. first \in Objecting(f)
  BY FirstObjection
<1>2. GuardrailVerdict(f) = Answers(f)[first]
  BY DEF GuardrailVerdict
<1> HIDE DEF first
<1> QED
  BY <1>1, <1>2, AnswersType DEF Objecting

LEMMA VerdictType ==
  ASSUME NEW f \in Findings
  PROVE  GuardrailVerdict(f) \in {"pass", "escalate", "block"}
BY VerdictObjects DEF GuardrailVerdict

\* What the scan lets pass, none of the guards objects to.
LEMMA PassedIsClean ==
  ASSUME NEW f \in Findings, GuardrailVerdict(f) = "pass"
  PROVE  /\ ~f.forbidden /\ ~f.indirect
         /\ \A n \in 1 .. Len(f.files) : f.files[n] \notin {"warn", "block"}
         /\ f.text \notin {"warn", "block"}
<1>1. \A i \in 1 .. Len(Answers(f)) : Answers(f)[i] = "pass"
  BY VerdictObjects DEF Objecting
<1>2. f.files \in Seq(RuleActions) /\ Len(f.files) \in Nat
  BY DEF Findings
<1> DEFINE n == Len(f.files)
<1>3. PreReads(f) \in Seq({"pass", "escalate", "block"}) /\ Len(PreReads(f)) = n
  BY <1>2 DEF PreReads, Heeded
<1>4. /\ Len(Answers(f)) = n + 3
      /\ Answers(f)[1] = Forbidden(f) /\ Answers(f)[2] = Indirect(f)
      /\ \A i \in 1 .. n : Answers(f)[i + 2] = PreReads(f)[i]
      /\ Answers(f)[n + 3] = Heeded(f.text)
  BY <1>2, <1>3 DEF Answers
<1>5. ~f.forbidden /\ ~f.indirect
  BY <1>1, <1>2, <1>4 DEF Forbidden, Indirect
<1>6. ASSUME NEW i \in 1 .. n
      PROVE  f.files[i] \notin {"warn", "block"}
  <2>1. PreReads(f)[i] = "pass"
    BY <1>1, <1>2, <1>4
  <2> QED
    BY <2>1 DEF PreReads, Heeded
<1>7. Heeded(f.text) = "pass"
  BY <1>1, <1>2, <1>4
<1>8. f.text \notin {"warn", "block"}
  BY <1>7 DEF Heeded
<1> QED
  BY <1>5, <1>6, <1>8

(***************************************************************************)
(* The invariant: types; the ledger's runs are those of the calls that     *)
(* run, so that what a grant was spent on cannot be exchanged later; what  *)
(* the guardrail has said is of the event under way.                       *)
(***************************************************************************)
Runners == runs \in [Calls -> Runs]

IdleUnheard == \A c \in Calls : calls[c] = Idle => heard[c] = "none"

IInv == TypeOK /\ Runners /\ IdleUnheard /\ RunsAsSeen /\ FindingsHeeded

LEMMA CallsType ==
  ASSUME TypeOK
  PROVE  /\ calls \in [Calls -> {Idle} \cup Events]
         /\ heard \in [Calls -> {"none", "pass", "escalate"}]
BY DEF TypeOK, Events, Places

LEMMA LedgerTypes ==
  /\ Ledger!Nothing.is = "nothing"
  /\ \A p \in Params : Ledger!Asked(p).is = "asked" /\ Ledger!Asked(p).args = p
  /\ \A p \in Params : Ledger!Granted(p).is = "granted" /\ Ledger!Granted(p).args = p
  /\ Ledger!Stopped.by = "nobody" /\ Ledger!ByOther.by = "other"
  /\ \A k \in Keys, p \in Params :
       LET r == Ledger!ByGrant(k, p) IN r.by = "grant" /\ r.key = k /\ r.args = p
BY DEF Ledger!Nothing, Ledger!Asked, Ledger!Granted, Ledger!Stopped, Ledger!ByOther,
       Ledger!ByGrant

Slips == {Ledger!Nothing} \cup {Ledger!Asked(p) : p \in Params}
           \cup {Ledger!Granted(p) : p \in Params}

\* The ledger's actions keep its types, and touch one run at most.
LEMMA AskType ==
  ASSUME NEW k \in Keys, NEW p \in Params, ledger \in [Keys -> Slips], Ledger!Ask(k, p)
  PROVE  ledger' \in [Keys -> Slips] /\ runs' = runs
BY DEF Ledger!Ask, Slips

LEMMA GrantType ==
  ASSUME NEW k \in Keys, ledger \in [Keys -> Slips], Ledger!Grant(k)
  PROVE  ledger' \in [Keys -> Slips] /\ runs' = runs
<1>1. PICK p \in Params : ledger[k] = Ledger!Asked(p)
  BY LedgerTypes DEF Ledger!Grant, Slips
<1>2. ledger[k].args = p
  BY <1>1, LedgerTypes
<1>3. ledger' = [ledger EXCEPT ![k] = Ledger!Granted(p)]
  BY <1>2 DEF Ledger!Grant, Ledger!Granted
<1> QED
  BY <1>3 DEF Ledger!Grant, Slips

LEMMA WithdrawType ==
  ASSUME NEW k \in Keys, ledger \in [Keys -> Slips], Ledger!Withdraw({k})
  PROVE  ledger' \in [Keys -> Slips] /\ runs' = runs
BY DEF Ledger!Withdraw, Slips

LEMMA SpendType ==
  ASSUME NEW c \in Calls, NEW k \in Keys, NEW p \in Params,
         ledger \in [Keys -> Slips], Runners, Ledger!Spend(c, k, p)
  PROVE  /\ ledger' \in [Keys -> Slips] /\ Runners'
         /\ runs' = [runs EXCEPT ![c] = Ledger!ByGrant(k, p)]
BY DEF Ledger!Spend, Slips, Runners, Runs

\* A step that changes one call, to an event or to nothing, and keeps the
\* rest of the types.
Moves(c, e) == calls' = [calls EXCEPT ![c] = e]

LEMMA TypeKept ==
  ASSUME TypeOK, NEW c \in Calls, NEW e \in {Idle} \cup Events, Moves(c, e),
         heard' \in [Calls -> {"none", "pass", "escalate"}],
         UNCHANGED <<mode, reloads>>, ledger' \in [Keys -> Slips]
  PROVE  TypeOK'
<1>1. calls' \in [Calls -> {Idle} \cup Events]
  BY CallsType DEF Moves
<1> QED
  BY <1>1 DEF TypeOK, Events, Places, Slips

LEMMA SeenKept ==
  ASSUME TypeOK, Runners, RunsAsSeen, NEW c \in Calls, NEW e \in {Idle} \cup Events,
         Moves(c, e),
         \A d \in Calls \ {c} : runs'[d] = runs[d],
         e.at = "running" /\ runs'[c].by = "grant"
           => runs'[c].args = e.params /\ runs'[c].key = Key(e.params[1])
  PROVE  RunsAsSeen'
<1> SUFFICES ASSUME NEW d \in Calls, calls'[d].at = "running", runs'[d].by = "grant"
             PROVE  runs'[d].args = calls'[d].params /\ runs'[d].key = Key(calls'[d].params[1])
  BY DEF RunsAsSeen, InputOf
<1>1. CASE d = c
  BY <1>1, CallsType DEF Moves
<1>2. CASE d # c
  BY <1>2, CallsType DEF Moves, RunsAsSeen, InputOf
<1> QED
  BY <1>1, <1>2

\* What was heard of an event holds as long as its input does.
LEMMA HeedKept ==
  ASSUME TypeOK, FindingsHeeded, NEW c \in Calls, NEW e \in {Idle} \cup Events, Moves(c, e),
         \A d \in Calls \ {c} : heard'[d] = heard[d],
         e # Idle /\ heard'[c] = "pass" =>
            \/ calls[c] # Idle /\ heard[c] = "pass" /\ e.params[1] = calls[c].params[1]
            \/ GuardrailVerdict(e.params[1].found) = "pass"
  PROVE  FindingsHeeded'
<1> DEFINE Clean(i) ==
      LET f == i.found
      IN /\ ~f.forbidden /\ ~f.indirect
         /\ \A n \in 1 .. Len(f.files) : f.files[n] \notin {"warn", "block"}
         /\ f.text \notin {"warn", "block"}
<1>1. FindingsHeeded <=>
        \A d \in Calls : calls[d] # Idle /\ heard[d] = "pass" => Clean(calls[d].params[1])
  BY DEF FindingsHeeded, InputOf
<1>2. FindingsHeeded' <=>
        \A d \in Calls : calls'[d] # Idle /\ heard'[d] = "pass" => Clean(calls'[d].params[1])
  BY DEF FindingsHeeded, InputOf
<1>3. ASSUME NEW i \in Inputs, GuardrailVerdict(i.found) = "pass"
      PROVE  Clean(i)
  BY <1>3, PassedIsClean, PipelineAssumption
<1>4. e # Idle => e.params[1] \in Inputs
  BY EventFields
<1> HIDE DEF Clean
<1> SUFFICES ASSUME NEW d \in Calls, calls'[d] # Idle, heard'[d] = "pass"
             PROVE  Clean(calls'[d].params[1])
  BY <1>2
<1>5. CASE d = c
  BY <1>1, <1>3, <1>4, <1>5, CallsType DEF Moves
<1>6. CASE d # c
  BY <1>1, <1>6, CallsType DEF Moves
<1> QED
  BY <1>5, <1>6

LEMMA MoveHolds ==
  ASSUME IInv, NEW c \in Calls, NEW e \in {Idle} \cup Events,
         NEW h \in {"none", "pass", "escalate"},
         Moves(c, e), heard' = [heard EXCEPT ![c] = h], UNCHANGED <<mode, reloads>>,
         ledger' \in [Keys -> Slips], Runners', \A d \in Calls \ {c} : runs'[d] = runs[d],
         e.at = "running" /\ runs'[c].by = "grant"
           => runs'[c].args = e.params /\ runs'[c].key = Key(e.params[1]),
         e = Idle => h = "none",
         e # Idle /\ h = "pass" =>
            \/ calls[c] # Idle /\ heard[c] = "pass" /\ e.params[1] = calls[c].params[1]
            \/ GuardrailVerdict(e.params[1].found) = "pass"
  PROVE  IInv'
<1>1. /\ heard' \in [Calls -> {"none", "pass", "escalate"}]
      /\ heard'[c] = h /\ \A d \in Calls \ {c} : heard'[d] = heard[d]
  BY CallsType DEF IInv
<1>2. TypeOK'
  BY <1>1, TypeKept DEF IInv
<1>3. IdleUnheard'
  BY <1>1, CallsType DEF IInv, IdleUnheard, Moves
<1>4. RunsAsSeen'
  BY SeenKept DEF IInv
<1>5. FindingsHeeded'
  BY <1>1, HeedKept DEF IInv
<1> QED
  BY <1>2, <1>3, <1>4, <1>5 DEF IInv

LEMMA InitHolds == Init => IInv
<1> SUFFICES ASSUME Init
             PROVE  IInv
  OBVIOUS
<1>1. mode \in Settings
  BY PipelineAssumption DEF Init
<1>2. ledger \in [Keys -> Slips] /\ Runners
  BY DEF Init, Ledger!Init, Slips, Runners, Runs
<1>3. TypeOK
  BY <1>1, <1>2, PipelineAssumption DEF Init, TypeOK, Slips
<1>4. IdleUnheard /\ RunsAsSeen /\ FindingsHeeded
  BY DEF Init, IdleUnheard, RunsAsSeen, FindingsHeeded, Idle
<1> QED
  BY <1>2, <1>3, <1>4 DEF IInv

\* A call that is given up has been told nothing.
LEMMA GivenUpHolds ==
  ASSUME IInv, NEW c \in Calls, GivenUp(c),
         ledger' \in [Keys -> Slips], Runners', \A d \in Calls \ {c} : runs'[d] = runs[d]
  PROVE  IInv'
<1>1. Moves(c, Idle)
  BY DEF GivenUp, Moves
<1>2. Idle.at # "running"
  BY DEF Idle
<1> QED
  BY <1>1, <1>2, MoveHolds DEF GivenUp

\* A call that goes on, and about whose event nothing new has been said.
LEMMA GoesOnHolds ==
  ASSUME IInv, NEW c \in Calls, calls[c] # Idle, NEW e \in Events, Moves(c, e),
         e.params[1] = InputOf(c), UNCHANGED <<mode, heard, reloads>>,
         ledger' \in [Keys -> Slips], Runners', \A d \in Calls \ {c} : runs'[d] = runs[d],
         e.at = "running" /\ runs'[c].by = "grant"
           => runs'[c].args = e.params /\ runs'[c].key = Key(e.params[1])
  PROVE  IInv'
<1>1. e # Idle
  BY DEF Events, Places, Idle
<1>2. heard[c] \in {"none", "pass", "escalate"} /\ heard' = [heard EXCEPT ![c] = heard[c]]
  BY CallsType DEF IInv
<1> QED
  BY <1>1, <1>2, MoveHolds DEF InputOf

LEMMA Unmoved ==
  ASSUME IInv, UNCHANGED <<ledger, runs>>
  PROVE  /\ ledger' \in [Keys -> Slips] /\ Runners'
         /\ \A d \in Calls : runs'[d] = runs[d]
BY DEF IInv, TypeOK, Slips, Runners

LEMMA CallEvent ==
  ASSUME IInv, NEW c \in Calls, calls[c].at # "idle"
  PROVE  /\ calls[c] \in Events /\ calls[c] # Idle
         /\ calls[c].params \in Params /\ InputOf(c) \in Inputs
         /\ calls[c].forceAsk \in BOOLEAN /\ Key(InputOf(c)) \in Keys
BY CallsType, EventFields DEF IInv, InputOf, Keys

\* The same event at another layer.
LEMMA AtType ==
  ASSUME NEW e \in Events, NEW at \in Places
  PROVE  /\ [e EXCEPT !.at = at] \in Events
         /\ [e EXCEPT !.at = at].at = at
         /\ [e EXCEPT !.at = at].params = e.params
BY DEF Events

LEMMA ArriveHolds ==
  ASSUME IInv, NEW c \in Calls, Arrive(c)
  PROVE  IInv'
<1>1. PICK i \in Inputs : calls' = [calls EXCEPT ![c] = Event("guardrail", <<i, FALSE>>, FALSE)]
  BY DEF Arrive
<1> DEFINE e == Event("guardrail", <<i, FALSE>>, FALSE)
<1>2. e \in Events /\ e # Idle /\ e.at = "guardrail"
  <2>1. <<i, FALSE>> \in Params /\ "guardrail" \in Places /\ FALSE \in BOOLEAN
    BY DEF Params, Places
  <2> QED
    BY <2>1, EventType, Zenon
<1>3. calls[c] = Idle /\ UNCHANGED <<mode, heard, ledger, runs, reloads>>
  BY DEF Arrive
<1>4. heard[c] = "none" /\ heard' = [heard EXCEPT ![c] = "none"]
  BY <1>3, CallsType DEF IInv, IdleUnheard
<1>5. Moves(c, e)
  BY <1>1 DEF Moves
<1> HIDE DEF e
<1> QED
  BY <1>2, <1>3, <1>4, <1>5, MoveHolds, Unmoved

LEMMA AskGuardrailHolds ==
  ASSUME IInv, NEW c \in Calls, AskGuardrail(c)
  PROVE  IInv'
<1> DEFINE f == InputOf(c).found
<1>1. calls[c].at = "guardrail" /\ UNCHANGED <<ledger, runs>>
  BY DEF AskGuardrail
<1>2. /\ calls[c] \in Events /\ calls[c] # Idle /\ calls[c].params \in Params
      /\ f \in Findings
  BY <1>1, CallEvent, PipelineAssumption
<1> HIDE DEF f
<1>3. PICK v \in Verdicts("guardrail", GuardrailVerdict(f)) :
        IF v = "block" THEN GivenUp(c)
        ELSE /\ calls' = [calls EXCEPT ![c] = Event("pii", @.params, v = "escalate")]
             /\ heard' = [heard EXCEPT ![c] = v]
             /\ UNCHANGED <<mode, reloads>>
  BY DEF AskGuardrail, f
<1>4. v = "none" \/ v = GuardrailVerdict(f)
  BY <1>3 DEF Verdicts
<1>5. CASE v = "block"
  BY <1>1, <1>3, <1>5, GivenUpHolds, Unmoved
<1>6. CASE v # "block"
  <2> DEFINE e == Event("pii", calls[c].params, v = "escalate")
  <2>1. e \in Events /\ e # Idle /\ e.at = "pii" /\ e.params = calls[c].params
    <3>1. "pii" \in Places /\ (v = "escalate") \in BOOLEAN
      BY DEF Places
    <3> QED
      BY <1>2, <3>1, EventType, Zenon
  <2>2. Moves(c, e)
    BY <1>3, <1>6, CallsType DEF Moves, IInv
  <2>3. v \in {"none", "pass", "escalate"}
    BY <1>2, <1>4, <1>6, VerdictType
  <2>4. heard' = [heard EXCEPT ![c] = v] /\ UNCHANGED <<mode, reloads>>
    BY <1>3, <1>6
  <2>5. v = "pass" => GuardrailVerdict(e.params[1].found) = "pass"
    BY <1>4, <2>1 DEF f, InputOf
  <2> HIDE DEF e
  <2> QED
    BY <1>1, <2>1, <2>2, <2>3, <2>4, <2>5, MoveHolds, Unmoved
<1> QED
  BY <1>5, <1>6

LEMMA AskPiiHolds ==
  ASSUME IInv, NEW c \in Calls, AskPii(c)
  PROVE  IInv'
<1> DEFINE p == InputOf(c).pii
<1>1. calls[c].at = "pii" /\ UNCHANGED <<ledger, runs>>
  BY DEF AskPii
<1>2. /\ calls[c] \in Events /\ calls[c] # Idle
      /\ InputOf(c) \in Inputs /\ calls[c].forceAsk \in BOOLEAN
  BY <1>1, CallEvent
<1>3. p \in PiiFindings
  BY <1>2, PipelineAssumption
<1>4. Redacts(p) \in BOOLEAN
  BY <1>3 DEF Redacts, PiiFindings
<1> HIDE DEF p
<1>5. PICK v \in Verdicts("pii", PiiVerdict(p)) :
        IF v = "block" THEN GivenUp(c)
        ELSE /\ calls' = [calls EXCEPT ![c] =
                  Event("limit", <<InputOf(c), v # "none" /\ Redacts(p)>>,
                        @.forceAsk \/ v = "escalate")]
             /\ UNCHANGED <<mode, heard, reloads>>
  BY DEF AskPii, p
<1>6. CASE v = "block"
  BY <1>1, <1>5, <1>6, GivenUpHolds, Unmoved
<1>7. CASE v # "block"
  <2> DEFINE redacted == v # "none" /\ Redacts(p)
             force == calls[c].forceAsk \/ v = "escalate"
             e == Event("limit", <<InputOf(c), redacted>>, force)
  <2>1. redacted \in BOOLEAN /\ force \in BOOLEAN
    BY <1>2, <1>4
  <2>2. Moves(c, e)
    BY <1>5, <1>7, CallsType DEF Moves, IInv
  <2>3. UNCHANGED <<mode, heard, reloads>>
    BY <1>5, <1>7
  <2> HIDE DEF redacted, force
  <2>4. <<InputOf(c), redacted>> \in Params
    BY <1>2, <2>1 DEF Params
  <2>5. e \in Events /\ e.at = "limit" /\ e.params[1] = InputOf(c)
    BY <2>1, <2>4, EventType DEF Places
  <2> HIDE DEF e
  <2> QED
    BY <1>1, <1>2, <2>2, <2>3, <2>5, GoesOnHolds, Unmoved
<1> QED
  BY <1>6, <1>7

LEMMA LimitHolds ==
  ASSUME IInv, NEW c \in Calls, AskLimit(c) \/ LimitAnswers(c)
  PROVE  IInv'
<1>1. calls[c].at # "idle" /\ UNCHANGED <<ledger, runs>>
  BY DEF AskLimit, LimitAnswers
<1>2. calls[c] \in Events /\ calls[c] # Idle
  BY <1>1, CallEvent
<1>3. ASSUME NEW at \in Places \ {"running"}, calls' = [calls EXCEPT ![c].at = at],
             UNCHANGED <<mode, heard, reloads>>
      PROVE  IInv'
  <2> DEFINE e == [calls[c] EXCEPT !.at = at]
  <2>1. Moves(c, e)
    BY <1>3 DEF Moves
  <2>2. e \in Events /\ e.at = at /\ e.params[1] = InputOf(c)
    BY <1>2, AtType DEF InputOf
  <2> HIDE DEF e
  <2> QED
    BY <1>1, <1>2, <1>3, <2>1, <2>2, GoesOnHolds, Unmoved
<1>4. CASE AskLimit(c)
  BY <1>3, <1>4 DEF AskLimit, Places
<1>5. CASE LimitAnswers(c)
  BY <1>1, <1>3, <1>5, GivenUpHolds, Unmoved DEF LimitAnswers, Places
<1> QED
  BY <1>4, <1>5

\* A call that passes the gate runs with the parameters it was judged by.
LEMMA PassesHolds ==
  ASSUME IInv, NEW c \in Calls, calls[c].at = "hitl", Passes(c),
         ledger' \in [Keys -> Slips], Runners', \A d \in Calls \ {c} : runs'[d] = runs[d],
         runs'[c].by = "grant" => /\ runs'[c].args = JudgedParams(c)
                                  /\ runs'[c].key = Key(InputOf(c))
  PROVE  IInv'
<1> DEFINE e == [calls[c] EXCEPT !.at = "running"]
<1>1. Moves(c, e) /\ UNCHANGED <<mode, heard, reloads>>
  BY DEF Passes, Moves
<1>2. calls[c] \in Events /\ calls[c] # Idle
  BY CallEvent
<1>3. e \in Events /\ e.params = calls[c].params
  BY <1>2, AtType DEF Places
<1> HIDE DEF e
<1> QED
  BY <1>1, <1>2, <1>3, GoesOnHolds DEF JudgedParams, InputOf

LEMMA AskGateHolds ==
  ASSUME IInv, NEW c \in Calls, AskGate(c)
  PROVE  IInv'
<1> DEFINE k == Key(InputOf(c))
           args == JudgedParams(c)
<1>1. calls[c].at = "hitl"
  BY DEF AskGate
<1>2. k \in Keys /\ args \in Params
  BY <1>1, CallEvent DEF JudgedParams
<1>3. ledger \in [Keys -> Slips] /\ Runners
  BY DEF IInv, TypeOK, Slips
<1> HIDE DEF k, args
<1>4. \/ Ledger!RunFreely(c) /\ Passes(c)
      \/ GivenUp(c) /\ UNCHANGED <<ledger, runs>>
      \/ Ledger!Spend(c, k, args) /\ Passes(c)
      \/ Ledger!Ask(k, args) /\ GivenUp(c)
  BY DEF AskGate, k, args
<1>5. CASE Ledger!RunFreely(c) /\ Passes(c)
  <2>1. ledger' = ledger /\ runs' = [runs EXCEPT ![c] = Ledger!ByOther]
    BY <1>5 DEF Ledger!RunFreely
  <2>2. Runners' /\ runs'[c].by # "grant" /\ \A d \in Calls \ {c} : runs'[d] = runs[d]
    BY <1>3, <2>1, LedgerTypes DEF Runners, Runs
  <2> QED
    BY <1>1, <1>3, <1>5, <2>1, <2>2, PassesHolds
<1>6. CASE GivenUp(c) /\ UNCHANGED <<ledger, runs>>
  BY <1>6, GivenUpHolds, Unmoved
<1>7. CASE Ledger!Spend(c, k, args) /\ Passes(c)
  <2>1. /\ ledger' \in [Keys -> Slips] /\ Runners'
        /\ runs' = [runs EXCEPT ![c] = Ledger!ByGrant(k, args)]
    BY <1>2, <1>3, <1>7, SpendType
  <2>2. /\ runs'[c] = Ledger!ByGrant(k, args)
        /\ \A d \in Calls \ {c} : runs'[d] = runs[d]
    BY <1>3, <2>1 DEF Runners
  <2>3. runs'[c].args = args /\ runs'[c].key = k
    BY <1>2, <2>2, LedgerTypes
  <2> QED
    BY <1>1, <1>7, <2>1, <2>2, <2>3, PassesHolds DEF k, args
<1>8. CASE Ledger!Ask(k, args) /\ GivenUp(c)
  <2>1. ledger' \in [Keys -> Slips] /\ runs' = runs
    BY <1>2, <1>3, <1>8, AskType
  <2> QED
    BY <1>3, <1>8, <2>1, GivenUpHolds DEF Runners
<1> QED
  BY <1>4, <1>5, <1>6, <1>7, <1>8

LEMMA DoneHolds ==
  ASSUME IInv, NEW c \in Calls, Done(c)
  PROVE  IInv'
<1>1. runs' = [runs EXCEPT ![c] = Ledger!Stopped] /\ ledger' = ledger /\ GivenUp(c)
  BY DEF Done, Ledger!Stop
<1>2. Runners' /\ (\A d \in Calls \ {c} : runs'[d] = runs[d]) /\ ledger' \in [Keys -> Slips]
  BY <1>1 DEF IInv, TypeOK, Slips, Runners, Runs
<1> QED
  BY <1>1, <1>2, GivenUpHolds

\* The human and the watchers touch no call.
LEMMA RestHolds ==
  ASSUME IInv, UNCHANGED <<calls, heard, runs>>, ledger' \in [Keys -> Slips],
         mode' \in Settings, reloads' \in 0 .. MaxReloads
  PROVE  IInv'
<1>1. TypeOK'
  BY DEF IInv, TypeOK, Slips
<1>2. Runners' /\ IdleUnheard'
  BY DEF IInv, Runners, IdleUnheard
<1>3. RunsAsSeen'
  BY DEF IInv, RunsAsSeen, InputOf
<1>4. FindingsHeeded'
  BY DEF IInv, FindingsHeeded, InputOf
<1> QED
  BY <1>1, <1>2, <1>3, <1>4 DEF IInv

LEMMA StepHolds == IInv /\ [Next]_vars => IInv'
<1> SUFFICES ASSUME IInv, [Next]_vars
             PROVE  IInv'
  OBVIOUS
<1>1. ledger \in [Keys -> Slips] /\ mode \in Settings /\ reloads \in 0 .. MaxReloads
  BY DEF IInv, TypeOK, Slips
<1>2. ASSUME NEW c \in Calls, Arrive(c) \/ Judge(c) \/ Done(c)
      PROVE  IInv'
  BY <1>2, ArriveHolds, AskGuardrailHolds, AskPiiHolds, LimitHolds, AskGateHolds, DoneHolds
     DEF Judge
<1>3. CASE Human
  <2>1. UNCHANGED <<mode, calls, heard, reloads>>
    BY <1>3 DEF Human
  <2>2. ledger' \in [Keys -> Slips] /\ runs' = runs
    BY <1>1, <1>3, GrantType, WithdrawType DEF Human
  <2> QED
    BY <1>1, <2>1, <2>2, RestHolds
<1>4. CASE Reload
  <2>1. mode' \in Settings
    <3>1. PICK l \in Layers : \E m \in Modes(l) : mode' = [mode EXCEPT ![l] = m]
      BY <1>4 DEF Reload
    <3>2. PICK m \in Modes(l) : mode' = [mode EXCEPT ![l] = m]
      BY <3>1
    <3>3. m \in {"off", "dry", "on"}
      BY <3>2 DEF Modes
    <3> QED
      BY <1>1, <3>2, <3>3 DEF Settings
  <2>2. reloads' \in 0 .. MaxReloads
    BY <1>1, <1>4, PipelineAssumption DEF Reload
  <2> QED
    BY <1>1, <1>4, <2>1, <2>2, RestHolds DEF Reload
<1>5. CASE UNCHANGED vars
  BY <1>1, <1>5, RestHolds DEF vars
<1> QED
  BY <1>2, <1>3, <1>4, <1>5 DEF Next

\* The invariant holds of every state of every behaviour.
THEOREM Inductive == Spec => []IInv
BY InitHolds, StepHolds, PTL DEF Spec

\* The variables stay in their types.
THEOREM TypeCorrect == Spec => []TypeOK
<1>1. IInv => TypeOK
  BY DEF IInv
<1> QED
  BY <1>1, Inductive, PTL

\* What runs on the human's word is what the human was shown, however often
\* the sanitizer, the gate and the other layers are switched in between.
THEOREM SeenCorrect == Spec => []RunsAsSeen
<1>1. IInv => RunsAsSeen
  BY DEF IInv
<1> QED
  BY <1>1, Inductive, PTL

\* What the guardrail lets pass has nothing in it that one of its guards
\* objects to, for any number of files and any findings in them.
THEOREM HeededCorrect == Spec => []FindingsHeeded
<1>1. IInv => FindingsHeeded
  BY DEF IInv
<1> QED
  BY <1>1, Inductive, PTL
=============================================================================
