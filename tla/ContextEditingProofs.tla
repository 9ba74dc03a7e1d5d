------------------------ MODULE ContextEditingProofs ------------------------
(***************************************************************************)
(* Proofs about ContextEditing, for any number of sessions, messages,      *)
(* models to ask and faults, any thresholds and any configurations.        *)
(* What the messages weigh plays no part: the sum over a transcript is     *)
(* never looked into.                                                      *)
(***************************************************************************)
EXTENDS ContextEditing, TLAPS

Places == {"idle", "curating", "appended", "agent"}

Turns == [at : Places, seen : Nat, left : 0 .. Targets]

TranscriptTypes ==
  /\ config \in Configs
  /\ log \in [Sessions -> Seq(Weights)]
  /\ first \in [Sessions -> Nat]
  /\ told \in [Sessions -> SUBSET Nat] /\ lost \in [Sessions -> SUBSET Nat]
  /\ mark \in [Sessions -> Nat]
  /\ turn \in [Sessions -> Turns]

\* The curator works on the transcript as it is, and between the two writes
\* of a compaction the boundary may come to lie anywhere: every message was
\* given to a curator.  No message comes during a compaction, since the agent
\* has to wait for it.
TurnKnows ==
  \A s \in Sessions :
    /\ turn[s].at = "curating" => turn[s].seen = Len(log[s])
    /\ turn[s].at = "appended" => 1 .. Len(log[s]) \subseteq told[s] \cup lost[s]

\* The boundary is a message, or the end of the transcript.
BoundaryThere == \A s \in Sessions : first[s] <= Len(log[s]) + 1

IInv == TranscriptTypes /\ TurnKnows /\ BoundaryThere /\ HiddenIsTold

LEMMA TurnType ==
  ASSUME NEW at \in Places, NEW seen \in Nat, NEW left \in 0 .. Targets
  PROVE  /\ Turn(at, seen, left) \in Turns
         /\ Turn(at, seen, left).at = at /\ Turn(at, seen, left).seen = seen
BY DEF Turn, Turns, Places

LEMMA IdleType == Idle \in Turns /\ Idle.at = "idle"
<1>1. "idle" \in Places /\ 0 \in Nat /\ 0 \in 0 .. Targets
  BY ContextAssumption DEF Places
<1> QED
  BY <1>1, TurnType DEF Idle

LEMMA ToAgentType == Turn("agent", 0, 0) \in Turns /\ Turn("agent", 0, 0).at = "agent"
<1>1. "agent" \in Places /\ 0 \in Nat /\ 0 \in 0 .. Targets
  BY ContextAssumption DEF Places
<1> QED
  BY <1>1, TurnType

LEMMA LenType ==
  ASSUME TranscriptTypes, NEW s \in Sessions
  PROVE  Len(log[s]) \in Nat
BY DEF TranscriptTypes

\* A step of one session that leaves the transcripts alone.
LEMMA TurnStep ==
  ASSUME IInv, NEW s \in Sessions, NEW t \in Turns, turn' = [turn EXCEPT ![s] = t],
         config' \in Configs, UNCHANGED transcript,
         t.at = "curating" => t.seen = Len(log[s]),
         t.at = "appended" => turn[s].at = "appended"
  PROVE  IInv'
<1>1. TranscriptTypes'
  BY DEF IInv, TranscriptTypes, transcript
<1>2. TurnKnows'
  BY DEF IInv, TranscriptTypes, TurnKnows, transcript
<1>3. BoundaryThere' /\ HiddenIsTold'
  BY DEF IInv, BoundaryThere, HiddenIsTold, transcript
<1> QED
  BY <1>1, <1>2, <1>3 DEF IInv

\* A step of one session that changes its transcript.
LEMMA TranscriptStep ==
  ASSUME IInv, NEW s \in Sessions, NEW t \in Turns,
         NEW l \in Seq(Weights), NEW f \in Nat, NEW m \in Nat,
         NEW T \in SUBSET Nat, NEW L \in SUBSET Nat,
         turn' = [turn EXCEPT ![s] = t], UNCHANGED config,
         log' = [log EXCEPT ![s] = l], first' = [first EXCEPT ![s] = f],
         told' = [told EXCEPT ![s] = T], lost' = [lost EXCEPT ![s] = L],
         mark' = [mark EXCEPT ![s] = m],
         f <= Len(l) + 1, \A i \in 1 .. Len(l) : i >= f \/ i \in T \/ i \in L,
         t.at # "curating", t.at = "appended" => 1 .. Len(l) \subseteq T \cup L
  PROVE  IInv'
<1>1. TranscriptTypes'
  BY DEF IInv, TranscriptTypes
<1>2. TurnKnows'
  BY DEF IInv, TranscriptTypes, TurnKnows
<1>3. BoundaryThere' /\ HiddenIsTold'
  BY DEF IInv, TranscriptTypes, BoundaryThere, HiddenIsTold
<1> QED
  BY <1>1, <1>2, <1>3 DEF IInv

LEMMA SameFields ==
  ASSUME TranscriptTypes, NEW s \in Sessions
  PROVE  /\ log = [log EXCEPT ![s] = log[s]] /\ first = [first EXCEPT ![s] = first[s]]
         /\ told = [told EXCEPT ![s] = told[s]] /\ lost = [lost EXCEPT ![s] = lost[s]]
         /\ mark = [mark EXCEPT ![s] = mark[s]]
         /\ turn = [turn EXCEPT ![s] = turn[s]]
         /\ log[s] \in Seq(Weights) /\ first[s] \in Nat
         /\ told[s] \in SUBSET Nat /\ lost[s] \in SUBSET Nat
         /\ mark[s] \in Nat /\ turn[s] \in Turns
BY DEF TranscriptTypes

LEMMA InitHolds == Init => IInv
<1> SUFFICES ASSUME Init
             PROVE  IInv
  OBVIOUS
<1>1. TranscriptTypes
  BY IdleType DEF Init, TranscriptTypes
<1>2. TurnKnows
  BY IdleType DEF Init, TurnKnows
<1>3. BoundaryThere /\ HiddenIsTold
  BY DEF Init, BoundaryThere, HiddenIsTold
<1> QED
  BY <1>1, <1>2, <1>3 DEF IInv

LEMMA BeforeHolds ==
  ASSUME IInv, NEW s \in Sessions, BeforeModelResolve(s)
  PROVE  IInv'
<1>1. UNCHANGED <<config, transcript, faults>>
  BY DEF BeforeModelResolve
<1>2. config' \in Configs /\ Len(log[s]) \in Nat
  BY <1>1, LenType DEF IInv, TranscriptTypes
<1> DEFINE t == Turn("curating", Len(log[s]), Targets)
<1>3. \/ turn' = [turn EXCEPT ![s] = Turn("agent", 0, 0)]
      \/ turn' = [turn EXCEPT ![s] = t]
  BY DEF BeforeModelResolve
<1>4. t \in Turns /\ t.at = "curating" /\ t.seen = Len(log[s])
  <2>1. "curating" \in Places /\ Targets \in 0 .. Targets
    BY ContextAssumption DEF Places
  <2> QED
    BY <1>2, <2>1, TurnType
<1> HIDE DEF t
<1>5. CASE turn' = [turn EXCEPT ![s] = Turn("agent", 0, 0)]
  BY <1>1, <1>2, <1>5, TurnStep, ToAgentType
<1>6. CASE turn' = [turn EXCEPT ![s] = t]
  BY <1>1, <1>2, <1>4, <1>6, TurnStep
<1> QED
  BY <1>3, <1>5, <1>6

LEMMA TargetFailsHolds ==
  ASSUME IInv, NEW s \in Sessions, TargetFails(s)
  PROVE  IInv'
<1> DEFINE t == [turn[s] EXCEPT !.left = @ - 1]
<1>1. turn[s] \in Turns
  BY DEF IInv, TranscriptTypes
<1>2. t \in Turns /\ t.at = "curating" /\ t.seen = turn[s].seen
  BY <1>1, ContextAssumption DEF TargetFails, Turns
<1>3. turn' = [turn EXCEPT ![s] = t]
  BY DEF TargetFails
<1>4. turn[s].seen = Len(log[s])
  BY DEF IInv, TurnKnows, TargetFails
<1>5. config' \in Configs /\ UNCHANGED transcript
  BY DEF TargetFails, IInv, TranscriptTypes
<1> HIDE DEF t
<1> QED
  BY <1>2, <1>3, <1>4, <1>5, TurnStep

\* The curator is given all there is, shown or told; the placeholder is the
\* last message.
LEMMA AppendedHolds ==
  ASSUME IInv, NEW s \in Sessions, turn[s].at = "curating",
         NEW empty \in BOOLEAN, Appended(s, empty)
  PROVE  IInv'
<1> DEFINE t == Turn("appended", 0, 0)
           T == IF empty THEN {} ELSE Handed(s)
           L == IF empty THEN lost[s] \cup Handed(s) ELSE lost[s] \ Handed(s)
<1>1. t \in Turns /\ t.at = "appended"
  <2>1. "appended" \in Places /\ 0 \in Nat /\ 0 \in 0 .. Targets
    BY ContextAssumption DEF Places
  <2> QED
    BY <2>1, TurnType
<1>2. Len(log[s]) \in Nat
  BY LenType DEF IInv
<1>3. log' = [log EXCEPT ![s] = log[s]] /\ log[s] \in Seq(Weights)
  BY SameFields DEF IInv, Appended
<1>4. /\ turn' = [turn EXCEPT ![s] = t] /\ UNCHANGED config
      /\ first' = [first EXCEPT ![s] = Len(log[s])]
      /\ told' = [told EXCEPT ![s] = T] /\ lost' = [lost EXCEPT ![s] = L]
      /\ mark' = [mark EXCEPT ![s] = Len(log[s])]
  BY DEF Appended
<1>5. Handed(s) = told[s] \cup (first[s] .. Len(log[s]))
  BY DEF Handed, IInv, TurnKnows
<1>6. first[s] \in Nat /\ told[s] \in SUBSET Nat /\ lost[s] \in SUBSET Nat
  BY SameFields DEF IInv
<1>7. Handed(s) \in SUBSET Nat /\ T \in SUBSET Nat /\ L \in SUBSET Nat
  BY <1>2, <1>5, <1>6
<1>8. 1 .. Len(log[s]) \subseteq Handed(s) \cup lost[s]
  BY <1>2, <1>5, <1>6 DEF IInv, HiddenIsTold
<1>9. 1 .. Len(log[s]) \subseteq T \cup L
  BY <1>8
<1> HIDE DEF t, T, L
<1>10. /\ Len(log[s]) <= Len(log[s]) + 1 /\ t.at # "curating"
       /\ \A i \in 1 .. Len(log[s]) : i >= Len(log[s]) \/ i \in T \/ i \in L
  BY <1>1, <1>2, <1>9
<1> QED
  BY <1>1, <1>2, <1>3, <1>4, <1>7, <1>9, <1>10, TranscriptStep, Zenon

LEMMA CuratedHolds ==
  ASSUME IInv, NEW s \in Sessions, Curated(s) \/ AllTargetsFailed(s)
  PROVE  IInv'
<1>1. PICK empty \in BOOLEAN : Appended(s, empty)
  BY DEF Curated, AllTargetsFailed
<1>2. turn[s].at = "curating"
  BY DEF Curated, AllTargetsFailed
<1> QED
  BY <1>1, <1>2, AppendedHolds

LEMMA BoundaryBounds ==
  ASSUME IInv, NEW s \in Sessions
  PROVE  Boundary(s) \in Nat /\ Boundary(s) <= Len(log[s]) + 1
<1>1. Len(log[s]) \in Nat
  BY LenType DEF IInv
<1>2. config.keep \in Nat
  BY ContextAssumption DEF IInv, TranscriptTypes
<1> QED
  BY <1>1, <1>2 DEF Boundary

LEMMA HardenHolds ==
  ASSUME IInv, NEW s \in Sessions, Harden(s)
  PROVE  IInv'
<1> DEFINE t == Turn("agent", 0, 0)
<1>1. /\ turn' = [turn EXCEPT ![s] = t] /\ UNCHANGED config
      /\ first' = [first EXCEPT ![s] = Boundary(s)]
  BY DEF Harden
<1>2. /\ log' = [log EXCEPT ![s] = log[s]] /\ told' = [told EXCEPT ![s] = told[s]]
      /\ lost' = [lost EXCEPT ![s] = lost[s]] /\ mark' = [mark EXCEPT ![s] = mark[s]]
      /\ log[s] \in Seq(Weights) /\ mark[s] \in Nat
      /\ told[s] \in SUBSET Nat /\ lost[s] \in SUBSET Nat
  BY SameFields DEF Harden, IInv
<1>3. 1 .. Len(log[s]) \subseteq told[s] \cup lost[s]
  BY DEF Harden, IInv, TurnKnows
<1>4. t \in Turns /\ t.at # "curating" /\ t.at # "appended"
  BY ToAgentType
<1> HIDE DEF t
<1>5. /\ Boundary(s) \in Nat /\ Boundary(s) <= Len(log[s]) + 1
      /\ \A i \in 1 .. Len(log[s]) : i >= Boundary(s) \/ i \in told[s] \/ i \in lost[s]
  BY <1>3, BoundaryBounds
<1> QED
  BY <1>1, <1>2, <1>4, <1>5, TranscriptStep, Zenon

LEMMA HardenFailsHolds ==
  ASSUME IInv, NEW s \in Sessions, HardenFails(s)
  PROVE  IInv'
<1>1. /\ turn' = [turn EXCEPT ![s] = Turn("agent", 0, 0)]
      /\ config' \in Configs /\ UNCHANGED transcript
  BY DEF HardenFails, IInv, TranscriptTypes
<1> QED
  BY <1>1, ToAgentType, TurnStep

\* A new message is shown, for the boundary lies at the end at most.
LEMMA AgentRunsHolds ==
  ASSUME IInv, NEW s \in Sessions, AgentRuns(s)
  PROVE  IInv'
<1>1. PICK l \in Seq(Weights) :
        log' = [log EXCEPT ![s] = l] /\ Len(l) \in {Len(log[s]), Len(log[s]) + 1}
  <2>1. CASE UNCHANGED log
    BY <2>1, SameFields, LenType DEF IInv
  <2>2. ASSUME NEW w \in Weights, log' = [log EXCEPT ![s] = Append(@, w)]
        PROVE  \E l \in Seq(Weights) :
                 log' = [log EXCEPT ![s] = l] /\ Len(l) \in {Len(log[s]), Len(log[s]) + 1}
    <3>1. log[s] \in Seq(Weights)
      BY DEF IInv, TranscriptTypes
    <3>2. Append(log[s], w) \in Seq(Weights) /\ Len(Append(log[s], w)) = Len(log[s]) + 1
      BY <3>1
    <3> QED
      BY <2>2, <3>2
  <2> QED
    BY <2>1, <2>2 DEF AgentRuns
<1>2. /\ first' = [first EXCEPT ![s] = first[s]] /\ told' = [told EXCEPT ![s] = told[s]]
      /\ lost' = [lost EXCEPT ![s] = lost[s]] /\ mark' = [mark EXCEPT ![s] = mark[s]]
      /\ first[s] \in Nat /\ mark[s] \in Nat
      /\ told[s] \in SUBSET Nat /\ lost[s] \in SUBSET Nat
  BY SameFields DEF AgentRuns, IInv
<1>3. Len(log[s]) \in Nat /\ first[s] <= Len(log[s]) + 1
  BY LenType DEF IInv, BoundaryThere
<1>4. \A i \in 1 .. Len(log[s]) : i >= first[s] \/ i \in told[s] \/ i \in lost[s]
  BY DEF IInv, HiddenIsTold
<1>5. /\ first[s] <= Len(l) + 1
      /\ \A i \in 1 .. Len(l) : i >= first[s] \/ i \in told[s] \/ i \in lost[s]
  BY <1>1, <1>2, <1>3, <1>4
<1>6. turn' = [turn EXCEPT ![s] = Idle] /\ UNCHANGED config
  BY DEF AgentRuns
<1>7. Idle \in Turns /\ Idle.at # "curating" /\ Idle.at # "appended"
  BY IdleType
<1> QED
  BY <1>1, <1>2, <1>5, <1>6, <1>7, TranscriptStep, Zenon

LEMMA NewTranscriptHolds ==
  ASSUME IInv, NEW s \in Sessions, NewTranscript(s)
  PROVE  IInv'
<1>1. /\ log' = [log EXCEPT ![s] = <<>>] /\ first' = [first EXCEPT ![s] = 1]
      /\ told' = [told EXCEPT ![s] = {}] /\ lost' = [lost EXCEPT ![s] = {}]
      /\ mark' = [mark EXCEPT ![s] = 0]
      /\ turn' = [turn EXCEPT ![s] = turn[s]] /\ UNCHANGED config
  BY SameFields DEF NewTranscript, IInv
<1>2. turn[s] \in Turns /\ turn[s].at = "idle"
  BY SameFields DEF NewTranscript, IInv
<1>3. /\ <<>> \in Seq(Weights) /\ 1 <= Len(<<>>) + 1
      /\ \A i \in 1 .. Len(<<>>) : i >= 1 \/ i \in {} \/ i \in {}
      /\ 0 \in Nat /\ 1 \in Nat /\ {} \in SUBSET Nat
  OBVIOUS
<1>4. turn[s].at # "curating" /\ turn[s].at # "appended"
  BY <1>2
<1> QED
  BY <1>1, <1>2, <1>3, <1>4, TranscriptStep, Zenon

\* A crash ends every turn; the transcripts stay as the last write left them.
LEMMA CrashHolds ==
  ASSUME IInv, Crash
  PROVE  IInv'
<1>1. turn' = [s \in Sessions |-> Idle] /\ UNCHANGED <<config, transcript>>
  BY DEF Crash
<1>2. TranscriptTypes'
  BY <1>1, IdleType DEF IInv, TranscriptTypes, transcript
<1>3. TurnKnows'
  BY <1>1, IdleType DEF TurnKnows
<1>4. BoundaryThere' /\ HiddenIsTold'
  BY <1>1 DEF IInv, BoundaryThere, HiddenIsTold, transcript
<1> QED
  BY <1>2, <1>3, <1>4 DEF IInv

\* A step that touches neither transcripts nor turns.
LEMMA AsideHolds ==
  ASSUME IInv, config' \in Configs, UNCHANGED <<transcript, turn>>
  PROVE  IInv'
BY DEF IInv, TranscriptTypes, TurnKnows, BoundaryThere, HiddenIsTold, transcript

LEMMA StepHolds == IInv /\ [Next]_vars => IInv'
<1> SUFFICES ASSUME IInv, [Next]_vars
             PROVE  IInv'
  OBVIOUS
<1>1. ASSUME NEW s \in Sessions,
             BeforeModelResolve(s) \/ Compacts(s) \/ AgentRuns(s) \/ NewTranscript(s)
      PROVE  IInv'
  BY <1>1, BeforeHolds, TargetFailsHolds, CuratedHolds, HardenHolds, HardenFailsHolds,
     AgentRunsHolds, NewTranscriptHolds DEF Compacts
<1>2. CASE Reload
  BY <1>2, AsideHolds DEF Reload
<1>3. CASE Crash
  BY <1>3, CrashHolds
<1>4. CASE Tick
  BY <1>4, AsideHolds DEF Tick, IInv, TranscriptTypes
<1>5. CASE UNCHANGED vars
  BY <1>5, AsideHolds DEF vars, IInv, TranscriptTypes
<1> QED
  BY <1>1, <1>2, <1>3, <1>4, <1>5 DEF Next

\* Every message is shown, or was given to the curator the summary shown is
\* from, be it through summaries before, unless a curator found nothing in
\* it; however often a session is compacted, with whatever is kept, and
\* wherever the process dies.
THEOREM HiddenCorrect == Spec => []HiddenIsTold
<1>1. Init => IInv
  BY InitHolds
<1>2. IInv /\ [Next]_vars => IInv'
  BY StepHolds
<1>3. IInv => HiddenIsTold
  BY DEF IInv
<1> QED
  BY <1>1, <1>2, <1>3, PTL DEF Spec

(***************************************************************************)
(* What a compaction is about.  The boundary lies at most the messages     *)
(* kept before the last compaction entry, or at the last message before it *)
(* while it is a placeholder, and a baseline only ever raises what the     *)
(* thresholds ask for.                                                     *)
(***************************************************************************)
IsBuffer(b) ==
  /\ b = [count |-> b.count, tokens |-> b.tokens, base |-> b.base,
          baseTokens |-> b.baseTokens, age |-> b.age, synced |-> b.synced]
  /\ b.base \in Nat /\ b.count \in Nat

Buffers == DOMAIN buffer = Sessions /\ \A s \in Sessions : IsBuffer(buffer[s])

Keeps == {c.keep : c \in Configs} \cup {1}

KeptOnly(m, f) == \E keep \in Keeps : m + 1 <= f + keep

Boundaries ==
  \A s \in Sessions :
    /\ KeptOnly(mark[s], first[s])
    /\ turn[s].at = "appended" => mark[s] = Len(log[s])

SyncInv == IInv /\ Buffers /\ Boundaries

LEMMA KeepsType == Keeps \subseteq Nat /\ 1 \in Keeps
BY ContextAssumption DEF Keeps

LEMMA CountType ==
  ASSUME IInv, NEW s \in Sessions
  PROVE  Count(s) \in Nat /\ Count(s) = Len(log[s]) + 1 - first[s]
<1>1. Len(log[s]) \in Nat
  BY LenType DEF IInv
<1>2. first[s] \in Nat
  BY DEF IInv, TranscriptTypes
<1>3. first[s] <= Len(log[s]) + 1
  BY DEF IInv, BoundaryThere
<1> QED
  BY <1>1, <1>2, <1>3 DEF Count

\* syncSessionStats keeps a buffer a buffer, and counts what is shown.
LEMMA SyncedType ==
  ASSUME NEW b, IsBuffer(b), NEW count \in Nat, NEW tokens
  PROVE  IsBuffer(Synced(b, count, tokens)) /\ Synced(b, count, tokens).count = count
<1> DEFINE a == Anchored(b, count, tokens)
           r == Restarted(a, count)
<1>1. IsBuffer(a)
  BY DEF IsBuffer, Anchored
<1> HIDE DEF a
<1>2. IsBuffer(r)
  BY <1>1 DEF IsBuffer, Restarted
<1>3. Synced(b, count, tokens) = [r EXCEPT !.count = count, !.tokens = tokens]
  BY DEF Synced, a
<1> HIDE DEF r
<1> QED
  BY <1>2, <1>3 DEF IsBuffer

LEMMA ResetType ==
  ASSUME NEW b, IsBuffer(b)
  PROVE  IsBuffer(Reset(b))
<1>1. ASSUME NEW n \in Nat, NEW k, NEW m, NEW l, NEW a, NEW y,
             b = [count |-> n, tokens |-> k, base |-> m, baseTokens |-> l, age |-> a,
                  synced |-> y]
      PROVE  Reset(b) = [count |-> n, tokens |-> k, base |-> n, baseTokens |-> k,
                         age |-> 0, synced |-> y]
  <2>1. b.count = n /\ b.tokens = k
    BY <1>1
  <2>2. Reset(b) = [b EXCEPT !.age = 0, !.base = n, !.baseTokens = k]
    BY <2>1, Zenon DEF Reset
  <2>3. [b EXCEPT !.age = 0, !.base = n, !.baseTokens = k]
          = [count |-> n, tokens |-> k, base |-> n, baseTokens |-> k, age |-> 0,
             synced |-> y]
    <3>1. [b EXCEPT !.age = 0, !.base = n, !.baseTokens = k]
            = [[[b EXCEPT !.age = 0] EXCEPT !.base = n] EXCEPT !.baseTokens = k]
      OBVIOUS
    <3>2. [b EXCEPT !.age = 0]
            = [count |-> n, tokens |-> k, base |-> m, baseTokens |-> l, age |-> 0, synced |-> y]
      BY <1>1
    <3>3. [[count |-> n, tokens |-> k, base |-> m, baseTokens |-> l, age |-> 0, synced |-> y]
             EXCEPT !.base = n]
            = [count |-> n, tokens |-> k, base |-> n, baseTokens |-> l, age |-> 0, synced |-> y]
      OBVIOUS
    <3>4. [[count |-> n, tokens |-> k, base |-> n, baseTokens |-> l, age |-> 0, synced |-> y]
             EXCEPT !.baseTokens = k]
            = [count |-> n, tokens |-> k, base |-> n, baseTokens |-> k, age |-> 0, synced |-> y]
      OBVIOUS
    <3> QED
      BY <3>1, <3>2, <3>3, <3>4, Zenon
  <2> QED
    BY <2>2, <2>3, Zenon
<1>2. PICK n, k, m, l, a, y :
        /\ b = [count |-> n, tokens |-> k, base |-> m, baseTokens |-> l, age |-> a, synced |-> y]
        /\ n \in Nat
  BY DEF IsBuffer
<1>3. Reset(b) = [count |-> n, tokens |-> k, base |-> n, baseTokens |-> k, age |-> 0,
                  synced |-> y]
  BY <1>1, <1>2
<1> QED
  BY <1>2, <1>3 DEF IsBuffer

LEMMA FreshType == IsBuffer(FreshBuffer)
BY DEF IsBuffer, FreshBuffer

LEMMA BuffersStep ==
  ASSUME Buffers, [Next]_vars, IInv
  PROVE  Buffers'
<1>1. CASE UNCHANGED buffer
  BY <1>1 DEF Buffers
<1>2. ASSUME NEW s \in Sessions, NEW b, IsBuffer(b), buffer' = [buffer EXCEPT ![s] = b]
      PROVE  Buffers'
  BY <1>2 DEF Buffers
<1>3. ASSUME NEW s \in Sessions, BeforeModelResolve(s)
      PROVE  Buffers'
  <2> DEFINE b == Synced(buffer[s], Count(s), Tokens(s))
  <2>1. IsBuffer(b)
    BY SyncedType, CountType DEF Buffers
  <2>2. UNCHANGED buffer \/ buffer' = [buffer EXCEPT ![s] = b]
    BY <1>3 DEF BeforeModelResolve
  <2> HIDE DEF b
  <2> QED
    BY <1>1, <1>2, <2>1, <2>2
<1>4. ASSUME NEW s \in Sessions, Harden(s)
      PROVE  Buffers'
  <2>1. buffer' = [buffer EXCEPT ![s] = Reset(buffer[s])]
    BY <1>4 DEF Harden
  <2>2. IsBuffer(Reset(buffer[s]))
    BY ResetType DEF Buffers
  <2> QED
    BY <1>2, <2>1, <2>2
<1>5. CASE Crash
  BY <1>5, FreshType DEF Crash, Buffers
<1>6. CASE Tick
  <2>1. ASSUME NEW s \in Sessions
        PROVE  IsBuffer(buffer'[s])
    <3>1. buffer'[s] = [buffer[s] EXCEPT !.age = Older(@)]
      BY <1>6 DEF Tick
    <3> QED
      BY <3>1 DEF Buffers, IsBuffer
  <2> QED
    BY <1>6, <2>1 DEF Tick, Buffers
<1>7. ASSUME NEW s \in Sessions,
             TargetFails(s) \/ Curated(s) \/ AllTargetsFailed(s) \/ HardenFails(s)
               \/ AgentRuns(s) \/ NewTranscript(s)
      PROVE  UNCHANGED buffer
  BY <1>7 DEF TargetFails, Curated, AllTargetsFailed, Appended, HardenFails, AgentRuns,
              NewTranscript
<1>8. Reload \/ UNCHANGED vars => UNCHANGED buffer
  BY DEF Reload, vars
<1> QED
  BY <1>1, <1>3, <1>4, <1>5, <1>6, <1>7, <1>8 DEF Next, Compacts

\* The boundary a compaction ends with keeps what the configuration says.
LEMMA BoundaryKeeps ==
  ASSUME IInv, NEW s \in Sessions, mark[s] = Len(log[s])
  PROVE  KeptOnly(mark[s], Boundary(s))
<1>1. Len(log[s]) \in Nat
  BY LenType DEF IInv
<1>2. config.keep \in Nat /\ config.keep \in Keeps
  BY ContextAssumption DEF IInv, TranscriptTypes, Keeps
<1>3. mark[s] + 1 <= Boundary(s) + config.keep
  BY <1>1, <1>2 DEF Boundary
<1> QED
  BY <1>2, <1>3 DEF KeptOnly

LEMMA BoundariesStep ==
  ASSUME Boundaries, IInv, IInv', [Next]_vars
  PROVE  Boundaries'
<1> SUFFICES ASSUME NEW s \in Sessions
             PROVE  /\ KeptOnly(mark'[s], first'[s])
                    /\ turn'[s].at = "appended" => mark'[s] = Len(log'[s])
  BY DEF Boundaries
<1>1. /\ KeptOnly(mark[s], first[s])
      /\ turn[s].at = "appended" => mark[s] = Len(log[s])
  BY DEF Boundaries
<1>2. CASE UNCHANGED transcript /\ (turn'[s].at = "appended" => turn[s].at = "appended")
  BY <1>1, <1>2 DEF transcript
<1>3. ASSUME NEW x \in Sessions, NEW t \in Turns, turn' = [turn EXCEPT ![x] = t],
             UNCHANGED transcript, t.at # "appended"
      PROVE  UNCHANGED transcript /\ (turn'[s].at = "appended" => turn[s].at = "appended")
  BY <1>3 DEF IInv, TranscriptTypes
<1>4. ASSUME NEW x \in Sessions, BeforeModelResolve(x)
      PROVE  UNCHANGED transcript /\ (turn'[s].at = "appended" => turn[s].at = "appended")
  <2>1. UNCHANGED transcript /\ \E at \in {"agent", "curating"}, n \in Nat, left \in Nat :
          turn' = [turn EXCEPT ![x] = Turn(at, n, left)]
    BY <1>4, LenType, ContextAssumption DEF BeforeModelResolve, IInv
  <2> QED
    BY <2>1 DEF IInv, TranscriptTypes, Turn
<1>5. ASSUME NEW x \in Sessions, TargetFails(x) \/ HardenFails(x)
      PROVE  UNCHANGED transcript /\ (turn'[s].at = "appended" => turn[s].at = "appended")
  BY <1>5 DEF TargetFails, HardenFails, IInv, TranscriptTypes, Turns, Turn
<1>6. ASSUME NEW x \in Sessions, Curated(x) \/ AllTargetsFailed(x)
      PROVE  /\ KeptOnly(mark'[s], first'[s])
             /\ turn'[s].at = "appended" => mark'[s] = Len(log'[s])
  <2>1. PICK empty \in BOOLEAN : Appended(x, empty)
    BY <1>6 DEF Curated, AllTargetsFailed
  <2>2. /\ mark' = [mark EXCEPT ![x] = Len(log[x])] /\ first' = [first EXCEPT ![x] = Len(log[x])]
        /\ turn' = [turn EXCEPT ![x] = Turn("appended", 0, 0)] /\ UNCHANGED log
    BY <2>1 DEF Appended
  <2>3. CASE s = x
    <3>1. Len(log[s]) \in Nat
      BY LenType DEF IInv
    <3>2. mark'[s] = Len(log[s]) /\ first'[s] = Len(log[s])
      BY <2>2, <2>3 DEF IInv, TranscriptTypes
    <3>3. mark'[s] + 1 <= first'[s] + 1
      BY <3>1, <3>2
    <3> QED
      BY <2>2, <3>2, <3>3, KeepsType DEF KeptOnly
  <2>4. CASE s # x
    <3>1. mark'[s] = mark[s] /\ first'[s] = first[s] /\ turn'[s] = turn[s] /\ log' = log
      BY <2>2, <2>4 DEF IInv, TranscriptTypes
    <3> QED
      BY <1>1, <3>1
  <2> QED
    BY <2>3, <2>4
<1>7. ASSUME NEW x \in Sessions, Harden(x)
      PROVE  /\ KeptOnly(mark'[s], first'[s])
             /\ turn'[s].at = "appended" => mark'[s] = Len(log'[s])
  <2>1. /\ turn[x].at = "appended" /\ first' = [first EXCEPT ![x] = Boundary(x)]
        /\ turn' = [turn EXCEPT ![x] = Turn("agent", 0, 0)] /\ UNCHANGED <<mark, log>>
    BY <1>7 DEF Harden
  <2>2. CASE s = x
    <3>1. KeptOnly(mark[s], Boundary(s))
      BY <1>1, <2>1, <2>2, BoundaryKeeps
    <3>2. mark'[s] = mark[s] /\ first'[s] = Boundary(s) /\ turn'[s].at = "agent"
      BY <2>1, <2>2, ToAgentType DEF IInv, TranscriptTypes
    <3> QED
      BY <3>1, <3>2
  <2>3. CASE s # x
    <3>1. mark' = mark /\ first'[s] = first[s] /\ turn'[s] = turn[s] /\ log' = log
      BY <2>1, <2>3 DEF IInv, TranscriptTypes
    <3> QED
      BY <1>1, <3>1
  <2> QED
    BY <2>2, <2>3
<1>8. ASSUME NEW x \in Sessions, AgentRuns(x)
      PROVE  /\ KeptOnly(mark'[s], first'[s])
             /\ turn'[s].at = "appended" => mark'[s] = Len(log'[s])
  <2>1. /\ turn[x].at = "agent" /\ turn' = [turn EXCEPT ![x] = Idle] /\ UNCHANGED <<mark, first>>
        /\ log' = log \/ \E w \in Weights : log' = [log EXCEPT ![x] = Append(@, w)]
    BY <1>8 DEF AgentRuns
  <2>2. CASE s = x
    BY <1>1, <2>1, <2>2, IdleType DEF IInv, TranscriptTypes
  <2>3. CASE s # x
    <3>1. mark' = mark /\ first' = first /\ turn'[s] = turn[s] /\ log'[s] = log[s]
      BY <2>1, <2>3 DEF IInv, TranscriptTypes
    <3> QED
      BY <1>1, <3>1
  <2> QED
    BY <2>2, <2>3
<1>9. ASSUME NEW x \in Sessions, NewTranscript(x)
      PROVE  /\ KeptOnly(mark'[s], first'[s])
             /\ turn'[s].at = "appended" => mark'[s] = Len(log'[s])
  <2>1. /\ turn[x].at = "idle" /\ turn' = turn
        /\ mark' = [mark EXCEPT ![x] = 0] /\ first' = [first EXCEPT ![x] = 1]
        /\ log' = [log EXCEPT ![x] = <<>>]
    BY <1>9 DEF NewTranscript
  <2>2. CASE s = x
    <3>1. mark'[s] = 0 /\ first'[s] = 1
      BY <2>1, <2>2 DEF IInv, TranscriptTypes
    <3>2. KeptOnly(mark'[s], first'[s])
      BY <3>1, KeepsType DEF KeptOnly
    <3> QED
      BY <2>1, <2>2, <3>2
  <2>3. CASE s # x
    <3>1. mark'[s] = mark[s] /\ first'[s] = first[s] /\ turn' = turn /\ log'[s] = log[s]
      BY <2>1, <2>3 DEF IInv, TranscriptTypes
    <3> QED
      BY <1>1, <3>1
  <2> QED
    BY <2>2, <2>3
<1>10. Crash => UNCHANGED transcript /\ turn'[s].at # "appended"
  BY IdleType DEF Crash
<1>11. Reload \/ Tick \/ UNCHANGED vars => UNCHANGED <<transcript, turn>>
  BY DEF Reload, Tick, vars
<1> QED
  BY <1>2, <1>4, <1>5, <1>6, <1>7, <1>8, <1>9, <1>10, <1>11 DEF Next, Compacts

LEMMA SyncHolds == Spec => []SyncInv
<1>1. Init => SyncInv
  <2> SUFFICES ASSUME Init
               PROVE  SyncInv
    OBVIOUS
  <2>1. Buffers
    BY FreshType DEF Init, Buffers
  <2>2. Boundaries
    BY KeepsType, IdleType DEF Init, Boundaries, KeptOnly
  <2> QED
    BY <2>1, <2>2, InitHolds DEF SyncInv
<1>2. SyncInv /\ [Next]_vars => SyncInv'
  BY StepHolds, BuffersStep, BoundariesStep DEF SyncInv
<1> QED
  BY <1>1, <1>2, PTL DEF Spec

\* Nothing but the hook before a turn starts a compaction.
LEMMA CuratingFrom ==
  ASSUME IInv, [Next]_vars, NEW s \in Sessions,
         turn[s].at # "curating", turn'[s].at = "curating"
  PROVE  BeforeModelResolve(s) /\ Triggered(Synced(buffer[s], Count(s), Tokens(s)))
<1>1. turn'[s] # turn[s]
  OBVIOUS
<1>2. ASSUME NEW x \in Sessions, NEW t, turn' = [turn EXCEPT ![x] = t]
      PROVE  x = s /\ turn'[s] = t
  BY <1>1, <1>2 DEF IInv, TranscriptTypes
<1>3. ASSUME NEW x \in Sessions, Compacts(x) \/ AgentRuns(x) \/ NewTranscript(x)
      PROVE  FALSE
  <2>1. CASE TargetFails(x)
    <3>1. turn[x].at = "curating" /\ turn' = [turn EXCEPT ![x].left = @ - 1]
      BY <2>1 DEF TargetFails
    <3> QED
      BY <3>1, <1>2
  <2>2. CASE Curated(x) \/ AllTargetsFailed(x) \/ Harden(x) \/ HardenFails(x) \/ AgentRuns(x)
    <3>1. PICK t \in {Turn("appended", 0, 0), Turn("agent", 0, 0), Idle} :
            turn' = [turn EXCEPT ![x] = t]
      BY <2>2 DEF Curated, AllTargetsFailed, Appended, Harden, HardenFails, AgentRuns
    <3>2. t.at # "curating"
      BY <3>1 DEF Turn, Idle
    <3> QED
      BY <1>2, <3>1, <3>2
  <2>3. CASE NewTranscript(x)
    BY <1>1, <2>3 DEF NewTranscript
  <2> QED
    BY <1>3, <2>1, <2>2, <2>3 DEF Compacts
<1>4. ASSUME Reload \/ Tick \/ UNCHANGED vars
      PROVE  FALSE
  BY <1>1, <1>4 DEF Reload, Tick, vars
<1>5. ~Crash
  BY IdleType DEF Crash
<1>6. PICK x \in Sessions : BeforeModelResolve(x)
  BY <1>3, <1>4, <1>5 DEF Next
<1>7. CASE Triggered(Synced(buffer[x], Count(x), Tokens(x))) /\ log[x] # <<>>
  <2>1. PICK t : turn' = [turn EXCEPT ![x] = t]
    BY <1>6 DEF BeforeModelResolve
  <2>2. x = s
    BY <1>2, <2>1
  <2> QED
    BY <1>6, <1>7, <2>2
<1>8. CASE ~(Triggered(Synced(buffer[x], Count(x), Tokens(x))) /\ log[x] # <<>>)
  <2>1. turn' = [turn EXCEPT ![x] = Turn("agent", 0, 0)]
    BY <1>6, <1>8 DEF BeforeModelResolve
  <2>2. turn'[s] = Turn("agent", 0, 0)
    BY <1>2, <2>1
  <2> QED
    BY <2>2, ToAgentType
<1> QED
  BY <1>7, <1>8

\* A compaction by the count of messages has that many new ones, less those
\* the last one kept, or the one at its placeholder: across resets,
\* resynchronisation with a shorter transcript, reloads and crashes.
THEOREM NewMessagesCorrect == Spec => CompactsNewMessages
<1> DEFINE New(s) == \E keep \in {c.keep : c \in Configs} \cup {1} :
                       Len(log[s]) - mark[s] + keep >= MessageThreshold
<1>1. ASSUME SyncInv, [Next]_vars, NEW s \in Sessions,
             turn[s].at # "curating", turn'[s].at = "curating", config.mode = "message"
      PROVE  New(s)
  <2> DEFINE b == Synced(buffer[s], Count(s), Tokens(s))
  <2>1. Triggered(b)
    BY <1>1, CuratingFrom DEF SyncInv
  <2>2. IsBuffer(b) /\ b.count = Count(s)
    BY <1>1, SyncedType, CountType DEF SyncInv, Buffers
  <2> HIDE DEF b
  <2>3. b.count >= b.base + MessageThreshold
    BY <1>1, <2>1 DEF Triggered, Exceeds
  <2>4. Count(s) >= MessageThreshold /\ Count(s) = Len(log[s]) + 1 - first[s]
    BY <1>1, <2>2, <2>3, CountType, ContextAssumption DEF IsBuffer, SyncInv
  <2>5. PICK keep \in Keeps : mark[s] + 1 <= first[s] + keep
    BY <1>1 DEF SyncInv, Boundaries, KeptOnly
  <2>6. /\ keep \in Nat /\ Len(log[s]) \in Nat /\ first[s] \in Nat /\ mark[s] \in Nat
        /\ MessageThreshold \in Nat
    BY <1>1, LenType, KeepsType, ContextAssumption DEF SyncInv, IInv, TranscriptTypes
  <2>7. Len(log[s]) - mark[s] + keep >= MessageThreshold
    BY <2>4, <2>5, <2>6
  <2> QED
    BY <2>7 DEF Keeps
<1>2. SyncInv /\ [Next]_vars =>
        [\A s \in Sessions :
           turn[s].at # "curating" /\ turn'[s].at = "curating" /\ config.mode = "message"
           => New(s)]_vars
  BY <1>1
<1> QED
  BY <1>2, SyncHolds, PTL DEF Spec, CompactsNewMessages
=============================================================================
