------------------------ MODULE ToolCallLimitProofs ------------------------
(***************************************************************************)
(* Proofs about ToolCallLimit, for any sessions, tools, limits and number  *)
(* of calls in flight: its types, the warning, that what is let through is *)
(* counted, saved and bounded, and that resets last.                       *)
(***************************************************************************)
EXTENDS ToolCallLimit, TLAPS

(***************************************************************************)
(* enforceLimit.                                                           *)
(***************************************************************************)
Copies == [Budgets -> Tracker]

Writers == Calls \cup {Startup}

LEMMA LimitType ==
  ASSUME NEW p \in Policies, NEW b \in Budgets
  PROVE  Limit(p, b) \in Nat /\ Scope(b) \in Scopes
<1>1. Scope(b) \in {"session", "request"} /\ b[2] \in Resources
  BY DEF Scope, Budgets
<1>2. <<Scope(b), b[2]>> \in {"session", "request"} \X Resources
  BY <1>1
<1>3. p \in [{"session", "request"} \X Resources -> Nat]
  BY LimitAssumption
<1> QED
  BY <1>1, <1>2, <1>3 DEF Limit, Scopes

LEMMA FreshType == Fresh \in Tracker /\ Fresh.count = 0 /\ Empty \in Copies
<1>1. Fresh \in Tracker /\ Fresh.count = 0
  BY DEF Fresh, Tracker
<1> QED
  BY <1>1 DEF Empty, Copies

LEMMA VerdictIs ==
  ASSUME NEW t \in Tracker, NEW max \in Nat
  PROVE  /\ Verdict(t, max) \in {"OK", "SOFT", "HARD"}
         /\ Verdict(t, max) # "HARD" => t.count + 1 < max
         /\ t.count + 1 < max /\ t.count + 1 >= SoftLimit(max) /\ ~t.warned
              => Verdict(t, max) = "SOFT"
<1>1. t.count \in Nat
  BY DEF Tracker
<1>2. CASE t.count + 1 >= max
  BY <1>1, <1>2 DEF Verdict
<1>3. CASE t.count + 1 < max /\ t.count + 1 >= SoftLimit(max) /\ ~t.warned
  BY <1>1, <1>3 DEF Verdict
<1>4. CASE t.count + 1 < max /\ ~(t.count + 1 >= SoftLimit(max) /\ ~t.warned)
  BY <1>1, <1>4 DEF Verdict
<1> QED
  BY <1>1, <1>2, <1>3, <1>4

LEMMA EnforcedType ==
  ASSUME NEW t \in Tracker, NEW max \in Nat
  PROVE  Enforced(t, max) \in Tracker /\ Enforced(t, max).count = t.count + 1
<1>1. t.count + 1 \in Nat /\ t.warned \in BOOLEAN
  BY DEF Tracker
<1>2. (t.warned \/ Verdict(t, max) = "SOFT") \in BOOLEAN
  OBVIOUS
<1> DEFINE n == t.count + 1
           w == t.warned \/ Verdict(t, max) = "SOFT"
<1>3. Enforced(t, max) = [count |-> n, warned |-> w]
  BY DEF Enforced
<1>4. n \in Nat /\ w \in BOOLEAN
  BY <1>1, <1>2
<1>5. n = t.count + 1
  OBVIOUS
<1> HIDE DEF n, w
<1> QED
  BY <1>3, <1>4, <1>5 DEF Tracker

LEMMA WorstIs ==
  ASSUME NEW V \in SUBSET {"OK", "SOFT", "HARD"}
  PROVE  Worst(V) \in {"OK", "SOFT", "HARD"} /\ (Worst(V) # "HARD" => "HARD" \notin V)
<1>1. CASE "HARD" \in V
  BY <1>1 DEF Worst
<1>2. CASE "HARD" \notin V /\ "SOFT" \in V
  BY <1>2 DEF Worst
<1>3. CASE "HARD" \notin V /\ "SOFT" \notin V
  BY <1>3 DEF Worst
<1> QED
  BY <1>1, <1>2, <1>3

LEMMA WipedType ==
  ASSUME NEW t \in Copies, NEW S
  PROVE  Wiped(t, S) \in Copies
BY FreshType DEF Wiped, Copies

LEMMA BilledAre ==
  ASSUME NEW x, NEW scope
  PROVE  Billed(x, scope) \subseteq Budgets
BY DEF Billed

(***************************************************************************)
(* The calls.                                                              *)
(***************************************************************************)
Busy == Call \ {Idle}

LEMMA BusyFields ==
  ASSUME NEW x \in Busy
  PROVE  /\ x.pc \in {"queued", "resetting", "reset", "recording", "saving", "saved"}
         /\ x.session \in Sessions /\ x.request \in Requests /\ x.tool \in Tools
         /\ x.policy \in Policies /\ x.status \in {"OK", "SOFT", "HARD"}
         /\ x.seen \in Nat /\ x.billed \in SUBSET Budgets
BY DEF Busy, Call

LEMMA IdleIs == Idle \in Call /\ Idle.pc = "idle"
BY DEF Call, Idle

LEMMA AtBusy ==
  ASSUME NEW x \in Busy, NEW seen \in Nat, NEW billed \in SUBSET Budgets,
         NEW pc \in {"queued", "resetting", "reset", "recording", "saving", "saved"},
         NEW status \in {"OK", "SOFT", "HARD"}
  PROVE  /\ At(x, pc, status, seen, billed) \in Busy
         /\ At(x, pc, status, seen, billed).pc = pc
         /\ At(x, pc, status, seen, billed).policy = x.policy
         /\ At(x, pc, status, seen, billed).status = status
         /\ At(x, pc, status, seen, billed).billed = billed
<1> DEFINE y == At(x, pc, status, seen, billed)
<1>1. y.pc = pc /\ y.policy = x.policy /\ y.status = status /\ y.billed = billed
  BY DEF At
<1>2. y \in [pc : {"queued", "resetting", "reset", "recording", "saving", "saved"},
             session : Sessions, request : Requests, tool : Tools, policy : Policies,
             status : {"OK", "SOFT", "HARD"}, seen : Nat, billed : SUBSET Budgets]
  BY BusyFields DEF At
<1>3. y # Idle
  BY <1>1, IdleIs
<1> QED
  BY <1>1, <1>2, <1>3 DEF Busy, Call

(***************************************************************************)
(* The chain: only its head changes while it is served.                    *)
(***************************************************************************)
\* calls[c] becomes x, everything else stays.
LEMMA GoesIs ==
  ASSUME calls \in [Calls -> Call], NEW c \in Calls, NEW x \in Call, Goes(c, x)
  PROVE  /\ calls' \in [Calls -> Call] /\ calls'[c] = x
         /\ \A d \in Calls : d # c => calls'[d] = calls[d]
BY DEF Goes

LEMMA ServingIs ==
  ASSUME TypeOK, NEW c \in Calls, NEW pc, pc # "idle", Serving(c, pc)
  PROVE  queue # <<>> /\ Head(queue) = c /\ calls[c] \in Busy /\ calls[c].pc = pc
BY IdleIs DEF Serving, TypeOK, Busy

\* Who is being served is in front.
LEMMA ServedInFront ==
  ASSUME ChainTypeOK, NEW c \in Calls, calls[c] # Idle, calls[c].pc # "queued"
  PROVE  queue # <<>> /\ Head(queue) = c
<1>1. queue \in Seq(Calls) /\ Len(queue) \in Nat
  BY DEF ChainTypeOK
<1>2. PICK i \in 1 .. Len(queue) : queue[i] = c
  BY DEF ChainTypeOK
<1>3. i \notin 2 .. Len(queue)
  BY <1>2 DEF ChainTypeOK
<1>4. i = 1
  BY <1>1, <1>2, <1>3
<1> QED
  BY <1>1, <1>2, <1>4

LEMMA ChainKept ==
  ASSUME ChainTypeOK, queue' = queue,
         \A c \in Calls : calls'[c] = Idle <=> calls[c] = Idle,
         \A c \in Calls : queue = <<>> \/ c # Head(queue) => calls'[c].pc = calls[c].pc
  PROVE  ChainTypeOK'
<1>1. queue \in Seq(Calls) /\ Len(queue) \in Nat
  BY DEF ChainTypeOK
<1>2. ASSUME NEW i \in 2 .. Len(queue)
      PROVE  calls'[queue[i]].pc = "queued"
  <2>1. i \in 1 .. Len(queue) /\ 1 \in 1 .. Len(queue) /\ i # 1 /\ Head(queue) = queue[1]
    BY <1>1
  <2>2. queue[i] # Head(queue) /\ queue[i] \in Calls
    BY <1>1, <2>1 DEF ChainTypeOK
  <2>3. calls[queue[i]].pc = "queued"
    BY DEF ChainTypeOK
  <2> QED
    BY <2>2, <2>3
<1> QED
  BY <1>1, <1>2 DEF ChainTypeOK

\* The call that is served goes on.
LEMMA ChainServes ==
  ASSUME TypeOK, NEW c \in Calls, queue # <<>>, Head(queue) = c, calls[c] \in Busy,
         NEW x \in Busy, Goes(c, x), queue' = queue
  PROVE  ChainTypeOK' /\ calls' \in [Calls -> Call]
<1>1. x \in Call /\ x # Idle /\ calls[c] # Idle
  BY DEF Busy
<1>2. /\ calls' \in [Calls -> Call] /\ calls'[c] = x
      /\ \A d \in Calls : d # c => calls'[d] = calls[d]
  BY <1>1, GoesIs DEF TypeOK
<1> QED
  BY <1>1, <1>2, ChainKept DEF TypeOK

LEMMA ChainSame ==
  ASSUME ChainTypeOK, queue' = queue, calls' = calls
  PROVE  ChainTypeOK'
BY DEF ChainTypeOK

LEMMA ForgottenIs ==
  ASSUME TypeOK, NEW B \in SUBSET Budgets, Forgotten(B)
  PROVE  /\ calls' \in [Calls -> Call]
         /\ ran' \in [Budgets -> Nat] /\ owed' \in [Budgets -> Nat]
         /\ \A b \in Budgets : IF b \in B THEN ran'[b] = 0 ELSE ran'[b] = ran[b]
         /\ \A c \in Calls : calls'[c] = Idle <=> calls[c] = Idle
         /\ \A c \in Calls : calls[c] # Idle =>
              /\ calls'[c].pc = calls[c].pc /\ calls'[c].status = calls[c].status
              /\ calls'[c].policy = calls[c].policy
              /\ calls'[c].billed = calls[c].billed \ B
         /\ queue' = queue => ChainTypeOK'
<1>1. ran' \in [Budgets -> Nat] /\ owed' \in [Budgets -> Nat]
  BY DEF Forgotten, TypeOK
<1>2. \A b \in Budgets : IF b \in B THEN ran'[b] = 0 ELSE ran'[b] = ran[b]
  BY DEF Forgotten
<1>3. ASSUME NEW c \in Calls, calls[c] # Idle
      PROVE  /\ calls'[c] \in Call /\ calls'[c] # Idle
             /\ calls'[c].pc = calls[c].pc /\ calls'[c].status = calls[c].status
             /\ calls'[c].policy = calls[c].policy
             /\ calls'[c].billed = calls[c].billed \ B
  <2>1. calls[c] \in Busy
    BY <1>3 DEF TypeOK, Busy
  <2>2. /\ calls[c].pc \in {"queued", "resetting", "reset", "recording", "saving", "saved"}
        /\ calls[c].status \in {"OK", "SOFT", "HARD"} /\ calls[c].seen \in Nat
        /\ calls[c].billed \ B \in SUBSET Budgets
    BY <2>1, BusyFields
  <2>3. calls'[c] = At(calls[c], calls[c].pc, calls[c].status, calls[c].seen, calls[c].billed \ B)
    BY <1>3 DEF Forgotten
  <2>4. /\ calls'[c] \in Busy
        /\ calls'[c].pc = calls[c].pc /\ calls'[c].status = calls[c].status
        /\ calls'[c].policy = calls[c].policy
        /\ calls'[c].billed = calls[c].billed \ B
    <3> DEFINE pc == calls[c].pc
               status == calls[c].status
               seen == calls[c].seen
               billed == calls[c].billed \ B
    <3>1. /\ pc \in {"queued", "resetting", "reset", "recording", "saving", "saved"}
          /\ status \in {"OK", "SOFT", "HARD"} /\ seen \in Nat /\ billed \in SUBSET Budgets
      BY <2>2
    <3>2. calls'[c] = At(calls[c], pc, status, seen, billed)
      BY <2>3
    <3>3. /\ calls'[c] \in Busy /\ calls'[c].pc = pc /\ calls'[c].status = status
          /\ calls'[c].policy = calls[c].policy /\ calls'[c].billed = billed
      <4> HIDE DEF pc, status, seen, billed
      <4> QED
        BY <2>1, <3>1, <3>2, AtBusy
    <3> QED
      BY <3>3
  <2> QED
    BY <2>4 DEF Busy
<1>4. \A c \in Calls : calls[c] = Idle => calls'[c] = Idle
  BY DEF Forgotten
<1>5. calls' \in [Calls -> Call]
  <2>1. calls' = [c \in Calls |-> calls'[c]]
    BY DEF Forgotten
  <2> QED
    BY <1>3, <1>4, <2>1, IdleIs
<1>6. \A c \in Calls : calls'[c] = Idle <=> calls[c] = Idle
  BY <1>3, <1>4
<1>7. \A c \in Calls : calls'[c].pc = calls[c].pc
  BY <1>3, <1>4
<1>8. queue' = queue => ChainTypeOK'
  BY <1>6, <1>7, ChainKept DEF TypeOK
<1> QED
  BY <1>1, <1>2, <1>3, <1>5, <1>6, <1>8

(***************************************************************************)
(* A charge.                                                               *)
(***************************************************************************)
LEMMA FollowingType ==
  ASSUME NEW g \in Copies, NEW t \in Copies
  PROVE  Following(g, t) \in Copies
BY DEF Following, Copies

LEMMA BillIs ==
  ASSUME TypeOK, NEW c \in Calls, calls[c] \in Busy, NEW scope \in Scopes,
         NEW pc \in {"recording", "saving"}, NEW seen \in Nat,
         NEW gathered, gathered \in Copies \/ gathered = trackers',
         Bill(c, scope, pc, seen, gathered)
  PROVE  /\ trackers' \in Copies
         /\ snap' \in [Writers -> Copies] /\ snap'[c] = gathered
         /\ owed' \in [Budgets -> Nat]
         /\ \E x \in Busy :
              /\ Goes(c, x) /\ x.pc = pc /\ x.policy = calls[c].policy
              /\ x.billed \subseteq calls[c].billed \cup Billed(calls[c], scope)
              /\ x.status # "HARD" =>
                   /\ calls[c].status # "HARD"
                   /\ \A b \in Billed(calls[c], scope) :
                        trackers[b].count + 1 < Limit(calls[c].policy, b)
         /\ \A b \in Budgets :
              trackers'[b] = IF b \in Billed(calls[c], scope)
                             THEN Enforced(trackers[b], Limit(calls[c].policy, b))
                             ELSE trackers[b]
<1> DEFINE B == Billed(calls[c], scope)
           counts == IF seen = marker.at THEN B ELSE {}
           verdict(b) == Verdict(trackers[b], Limit(calls[c].policy, b))
           V == {calls[c].status} \cup {verdict(b) : b \in B}
           x == At(calls[c], pc, Worst(V), seen, calls[c].billed \cup counts)
<1>1. /\ calls[c].policy \in Policies /\ calls[c].status \in {"OK", "SOFT", "HARD"}
      /\ calls[c].billed \in SUBSET Budgets
  BY BusyFields
<1>2. trackers \in Copies /\ snap \in [Writers -> Copies] /\ owed \in [Budgets -> Nat]
  BY DEF TypeOK, Copies, Writers
<1>3. \A b \in Budgets : trackers[b] \in Tracker /\ Limit(calls[c].policy, b) \in Nat
  BY <1>1, <1>2, LimitType DEF Copies
<1>4. \A b \in Budgets : Enforced(trackers[b], Limit(calls[c].policy, b)) \in Tracker
  BY <1>3, EnforcedType
<1>5. trackers' = [b \in Budgets |->
                     IF b \in B THEN Enforced(trackers[b], Limit(calls[c].policy, b))
                                ELSE trackers[b]]
  BY DEF Bill
<1>6. trackers' \in Copies
  BY <1>3, <1>4, <1>5 DEF Copies
<1>7. snap' \in [Writers -> Copies] /\ snap'[c] = gathered
  <2>1. snap' = [w \in Writers |-> IF w = c THEN gathered ELSE Following(snap[w], trackers')]
    BY DEF Bill, Writers
  <2>2. c \in Writers /\ gathered \in Copies
    BY <1>6 DEF Writers
  <2> QED
    BY <1>2, <1>6, <2>1, <2>2, FollowingType
<1>8. owed' \in [Budgets -> Nat]
  BY <1>2 DEF Bill
<1>9. B \in SUBSET Budgets /\ counts \in SUBSET B
  BY BilledAre
<1>a. V \in SUBSET {"OK", "SOFT", "HARD"}
  BY <1>1, <1>3, <1>9, VerdictIs
<1>b. Goes(c, x)
  BY DEF Bill
<1>c. Worst(V) \in {"OK", "SOFT", "HARD"} /\ (Worst(V) # "HARD" => "HARD" \notin V)
  BY <1>a, WorstIs
<1>d. /\ x \in Busy /\ x.pc = pc /\ x.policy = calls[c].policy /\ x.status = Worst(V)
      /\ x.billed = calls[c].billed \cup counts
  <2>1. calls[c].billed \cup counts \in SUBSET Budgets
    BY <1>1, <1>9
  <2> HIDE DEF V, counts
  <2> QED
    BY <1>c, <2>1, AtBusy
<1>e. ASSUME "HARD" \notin V
      PROVE  /\ calls[c].status # "HARD"
             /\ \A b \in B : trackers[b].count + 1 < Limit(calls[c].policy, b)
  <2>1. \A b \in B : verdict(b) # "HARD"
    BY <1>e
  <2> QED
    BY <1>e, <1>3, <1>9, <2>1, VerdictIs
<1>f. x.billed \subseteq calls[c].billed \cup B
  BY <1>9, <1>d
<1>g. x.status # "HARD" =>
        /\ calls[c].status # "HARD"
        /\ \A b \in B : trackers[b].count + 1 < Limit(calls[c].policy, b)
  BY <1>c, <1>d, <1>e
<1> HIDE DEF x, B, V
<1>h. \E y \in Busy :
        /\ Goes(c, y) /\ y.pc = pc /\ y.policy = calls[c].policy
        /\ y.billed \subseteq calls[c].billed \cup B
        /\ y.status # "HARD" =>
             /\ calls[c].status # "HARD"
             /\ \A b \in B : trackers[b].count + 1 < Limit(calls[c].policy, b)
  BY <1>b, <1>d, <1>f, <1>g
<1> QED
  BY <1>5, <1>6, <1>7, <1>8, <1>h DEF B

(***************************************************************************)
(* Types, action by action.                                                *)
(***************************************************************************)
PlainTypes ==
  /\ policy \in Policies \cup {NoPolicy}
  /\ overlay \in Policies \cup {NoPolicy}
  /\ marker \in [at : Nat, scope : {"all", "session", "request"}]
  /\ lastSeen \in Nat
  /\ init \in {"new", "loading", "half", "failed", "done"}
  /\ loader \in Writers
  /\ cli \in [pc : {"idle", "sessions", "requests", "mark"},
              scope : {"all", "session", "request"}]
  /\ clearer \in {"idle", "saving", "saved"}
  /\ torn \subseteq Scopes

CopyTypes ==
  /\ buffer \in Copies /\ trackers \in Copies /\ disk \in Copies
  /\ snap \in [Writers -> Copies]

HistoryTypes == ran \in [Budgets -> Nat] /\ owed \in [Budgets -> Nat]

LEMMA TypeIs ==
  TypeOK <=> PlainTypes /\ CopyTypes /\ HistoryTypes /\ calls \in [Calls -> Call] /\ ChainTypeOK
BY DEF TypeOK, PlainTypes, CopyTypes, HistoryTypes, Copies, Writers

LEMMA TypeNext ==
  ASSUME PlainTypes', CopyTypes', HistoryTypes', calls' \in [Calls -> Call], ChainTypeOK'
  PROVE  TypeOK'
BY DEF TypeOK, PlainTypes, CopyTypes, HistoryTypes, Copies, Writers

LEMMA BuiltType ==
  ASSUME PlainTypes
  PROVE  /\ Built(Default) \in Policies
         /\ \A p \in Policies : Built(p) \in Policies
         /\ marker.at \in Nat
         /\ Covered(marker.scope) \subseteq Scopes
BY LimitAssumption DEF PlainTypes, Built, Covered, Scopes

LEMMA InitTypes == Init => TypeOK
<1> SUFFICES ASSUME Init
             PROVE  TypeOK
  OBVIOUS
<1>1. PlainTypes
  BY LimitAssumption DEF Init, PlainTypes, Writers
<1>2. CopyTypes
  BY FreshType DEF Init, CopyTypes, Writers
<1>3. HistoryTypes
  BY DEF Init, HistoryTypes
<1>4. calls \in [Calls -> Call] /\ ChainTypeOK
  BY IdleIs DEF Init, ChainTypeOK
<1> QED
  BY <1>1, <1>2, <1>3, <1>4, TypeIs

\* Configuration and loading: the chain and the calls stay.
LEMMA ConfigTypes ==
  ASSUME TypeOK,
         \/ \E p \in Policies : Initialize(p) \/ UpdateConfig(p)
         \/ ReloadConfig \/ Load \/ (\E c \in Calls : StartLoad(c))
  PROVE  TypeOK'
<1>1. /\ PlainTypes /\ CopyTypes /\ HistoryTypes /\ calls \in [Calls -> Call] /\ ChainTypeOK
      /\ Default \in Policies
  BY TypeIs, LimitAssumption
<1>2. UNCHANGED <<queue, calls, ran, owed, disk, torn, snap, marker, overlay, lastSeen, cli, clearer>>
  BY DEF Initialize, UpdateConfig, ReloadConfig, Load, LoadSessions, LoadRequests, StartLoad,
         loading, files, history, config
<1>3. PlainTypes' /\ CopyTypes'
  <2>1. CASE \E p \in Policies : Initialize(p) \/ UpdateConfig(p)
    BY <1>1, <1>2, <2>1, BuiltType DEF Initialize, UpdateConfig, PlainTypes, CopyTypes, loading,
       Writers
  <2>2. CASE ReloadConfig
    <3>1. policy' \in Policies
      BY <1>1, <2>2, BuiltType DEF ReloadConfig, PlainTypes
    <3> QED
      BY <1>1, <1>2, <2>2, <3>1 DEF ReloadConfig, PlainTypes, CopyTypes, loading
  <2>3. CASE LoadSessions
    <3>1. buffer' \in Copies
      BY <1>1, <2>3, FreshType, WipedType DEF LoadSessions, CopyTypes
    <3> QED
      BY <1>1, <1>2, <2>3, <3>1 DEF LoadSessions, PlainTypes, CopyTypes, config
  <2>4. CASE LoadRequests
    <3>1. trackers' \in Copies /\ buffer' \in Copies
      BY <1>1, <2>4, FreshType DEF LoadRequests, CopyTypes, Copies
    <3> QED
      BY <1>1, <1>2, <2>4, <3>1 DEF LoadRequests, PlainTypes, CopyTypes, config
  <2>5. CASE \E c \in Calls : StartLoad(c)
    BY <1>1, <1>2, <2>5, BuiltType DEF StartLoad, PlainTypes, CopyTypes, Writers
  <2> QED
    BY <2>1, <2>2, <2>3, <2>4, <2>5 DEF Load
<1>4. HistoryTypes' /\ calls' \in [Calls -> Call] /\ ChainTypeOK'
  BY <1>1, <1>2, ChainSame DEF HistoryTypes
<1> QED
  BY <1>3, <1>4, TypeNext

LEMMA WrittenType ==
  ASSUME CopyTypes, PlainTypes, NEW t \in Copies, NEW scope \in Scopes, WriteFile(t, scope)
  PROVE  disk' \in Copies /\ torn' \subseteq Scopes
BY DEF WriteFile, CopyTypes, PlainTypes, Copies

\* A call arrives at the end of the chain.
LEMMA ArriveTypes ==
  ASSUME TypeOK, NEW c \in Calls, NEW s \in Sessions, NEW r \in Requests, NEW t \in Tools,
         Arrive(c, s, r, t)
  PROVE  TypeOK' /\ (\E x \in Busy : Goes(c, x) /\ x.pc = "queued" /\ x.billed = {})
<1>1. /\ PlainTypes /\ CopyTypes /\ HistoryTypes /\ calls \in [Calls -> Call] /\ ChainTypeOK
      /\ Default \in Policies /\ calls[c] = Idle
  BY TypeIs, LimitAssumption DEF Arrive
<1> DEFINE p == IF policy = NoPolicy THEN Built(Default) ELSE policy
           z == [session |-> s, request |-> r, tool |-> t, policy |-> p]
           x == At(z, "queued", "OK", 0, {})
<1>2. p \in Policies
  BY <1>1, BuiltType DEF PlainTypes
<1>3. Goes(c, x) /\ queue' = Append(queue, c)
  BY DEF Arrive
<1>4. x = [pc |-> "queued", session |-> s, request |-> r, tool |-> t, policy |-> p,
           status |-> "OK", seen |-> 0, billed |-> {}]
  BY DEF At
<1> HIDE DEF x, p
<1>5. x \in Call /\ x.pc = "queued" /\ x.billed = {}
  BY <1>2, <1>4 DEF Call
<1>6. x # Idle /\ x \in Busy
  BY <1>5, IdleIs DEF Busy
<1>7. /\ calls' \in [Calls -> Call] /\ calls'[c] = x
      /\ \A d \in Calls : d # c => calls'[d] = calls[d]
  BY <1>1, <1>3, <1>5, GoesIs
<1>8. /\ queue \in Seq(Calls) /\ queue' \in Seq(Calls)
      /\ Len(queue) \in Nat /\ Len(queue') = Len(queue) + 1 /\ queue'[Len(queue) + 1] = c
      /\ \A i \in 1 .. Len(queue) : queue'[i] = queue[i] /\ queue[i] \in Calls
  BY <1>1, <1>3 DEF ChainTypeOK
<1>9. \A i \in 1 .. Len(queue) : queue[i] # c
  BY <1>1, <1>8 DEF ChainTypeOK
<1>a. \A i \in 1 .. Len(queue') : i \in 1 .. Len(queue) \/ i = Len(queue) + 1
  BY <1>8
<1>b. ChainTypeOK'
  <2>1. \A i, j \in 1 .. Len(queue') : queue'[i] = queue'[j] => i = j
    BY <1>1, <1>8, <1>9, <1>a DEF ChainTypeOK
  <2>2. ASSUME NEW d \in Calls
        PROVE  calls'[d] # Idle <=> \E i \in 1 .. Len(queue') : queue'[i] = d
    <3>1. CASE d = c
      <4>1. Len(queue) + 1 \in 1 .. Len(queue')
        BY <1>8
      <4> QED
        BY <1>6, <1>7, <1>8, <3>1, <4>1
    <3>2. CASE d # c
      <4>1. calls'[d] # Idle <=> \E i \in 1 .. Len(queue) : queue[i] = d
        BY <1>1, <1>7, <3>2 DEF ChainTypeOK
      <4>2. (\E i \in 1 .. Len(queue) : queue[i] = d)
              <=> \E i \in 1 .. Len(queue') : queue'[i] = d
        BY <1>8, <1>a, <3>2
      <4> QED
        BY <4>1, <4>2
    <3> QED
      BY <3>1, <3>2
  <2>3. ASSUME NEW i \in 2 .. Len(queue')
        PROVE  calls'[queue'[i]].pc = "queued"
    <3>1. i \in 1 .. Len(queue') /\ (i \in 2 .. Len(queue) \/ i = Len(queue) + 1)
      BY <1>8
    <3>2. CASE i \in 2 .. Len(queue)
      <4>1. i \in 1 .. Len(queue)
        BY <1>8, <3>2
      <4>2. calls[queue[i]].pc = "queued" /\ queue[i] # c /\ queue'[i] = queue[i] /\ queue[i] \in Calls
        BY <1>1, <1>8, <1>9, <3>2, <4>1 DEF ChainTypeOK
      <4> QED
        BY <1>7, <4>2
    <3>3. CASE i = Len(queue) + 1
      BY <1>5, <1>7, <1>8, <3>3
    <3> QED
      BY <3>1, <3>2, <3>3
  <2> QED
    BY <1>8, <2>1, <2>2, <2>3 DEF ChainTypeOK
<1>c. PlainTypes' /\ CopyTypes' /\ HistoryTypes'
  BY <1>1 DEF Arrive, PlainTypes, CopyTypes, HistoryTypes, config, loading, files, history
<1> QED
  BY <1>3, <1>5, <1>6, <1>7, <1>b, <1>c, TypeNext

\* The call in front is charged, resets or saves.
LEMMA ServeTypes ==
  ASSUME TypeOK, NEW c \in Calls,
         Enter(c) \/ EnterReset(c) \/ SaveSessions(c) \/ FinishReset(c) \/ ChargeRequest(c)
  PROVE  TypeOK'
<1>1. /\ PlainTypes /\ CopyTypes /\ HistoryTypes /\ calls \in [Calls -> Call] /\ ChainTypeOK
      /\ Default \in Policies
  BY TypeIs, LimitAssumption
<1>2. queue # <<>> /\ Head(queue) = c /\ calls[c] \in Busy
  BY ServingIs DEF Enter, EnterReset, SaveSessions, FinishReset, ChargeRequest
<1>3. queue' = queue /\ ran' = ran /\ marker' = marker /\ overlay' = overlay
  BY DEF Enter, EnterReset, SaveSessions, FinishReset, ChargeRequest, config, history
<1>4. calls[c].seen \in Nat /\ marker.at \in Nat /\ Empty \in Copies
  BY <1>1, <1>2, BusyFields, BuiltType, FreshType
<1>5. CASE Enter(c)
  <2>1. Bill(c, "session", "recording", marker.at, Empty)
    BY <1>5 DEF Enter
  <2>2. /\ trackers' \in Copies /\ snap' \in [Writers -> Copies] /\ owed' \in [Budgets -> Nat]
        /\ \E x \in Busy : Goes(c, x)
    BY <1>2, <1>4, <2>1, BillIs DEF Scopes
  <2>3. ChainTypeOK' /\ calls' \in [Calls -> Call]
    BY <1>2, <1>3, <2>2, ChainServes
  <2>4. policy' \in Policies /\ lastSeen' \in Nat
    BY <1>1, <1>4, <1>5, BuiltType DEF Enter
  <2>5. PlainTypes' /\ CopyTypes' /\ HistoryTypes'
    BY <1>1, <1>3, <1>5, <2>2, <2>4 DEF Enter, PlainTypes, CopyTypes, HistoryTypes, loading, files
  <2> QED
    BY <2>3, <2>5, TypeNext
<1>6. CASE EnterReset(c)
  <2> DEFINE x == At(calls[c], "resetting", "OK", marker.at, {})
  <2>1. x \in Busy
    BY <1>2, <1>4, AtBusy
  <2>2. Goes(c, x)
    BY <1>6 DEF EnterReset
  <2> HIDE DEF x
  <2>3. ChainTypeOK' /\ calls' \in [Calls -> Call]
    BY <1>2, <1>3, <2>1, <2>2, ChainServes
  <2>4. trackers' \in Copies
    BY <1>1, <1>6, WipedType DEF EnterReset, ApplyReset, CopyTypes
  <2>5. snap' \in [Writers -> Copies]
    BY <1>1, <1>6, <2>4 DEF EnterReset, CopyTypes, Writers
  <2>6. policy' \in Policies
    BY <1>1, <1>6, BuiltType DEF EnterReset
  <2>7. PlainTypes' /\ CopyTypes' /\ HistoryTypes'
    BY <1>1, <1>3, <1>6, <2>4, <2>5, <2>6
       DEF EnterReset, PlainTypes, CopyTypes, HistoryTypes, loading, files, history
  <2> QED
    BY <2>3, <2>7, TypeNext
<1>7. CASE SaveSessions(c)
  <2>1. \E pc \in {"reset", "saved"} : Goes(c, [calls[c] EXCEPT !.pc = pc])
    BY <1>7 DEF SaveSessions
  <2>2. \A pc \in {"reset", "saved"} : [calls[c] EXCEPT !.pc = pc] \in Busy
    <3> SUFFICES ASSUME NEW pc \in {"reset", "saved"}
                 PROVE  [calls[c] EXCEPT !.pc = pc] \in Busy
      OBVIOUS
    <3>1. [calls[c] EXCEPT !.pc = pc] \in Call /\ [calls[c] EXCEPT !.pc = pc].pc = pc
      BY <1>2 DEF Busy, Call
    <3> QED
      BY <3>1, IdleIs DEF Busy
  <2>3. ChainTypeOK' /\ calls' \in [Calls -> Call]
    BY <1>2, <1>3, <2>1, <2>2, ChainServes
  <2>4. snap[c] \in Copies /\ "session" \in Scopes
    BY <1>1 DEF CopyTypes, Writers, Scopes
  <2>5. disk' \in Copies /\ torn' \subseteq Scopes
    BY <1>1, <1>7, <2>4, WrittenType DEF SaveSessions
  <2>6. PlainTypes' /\ CopyTypes' /\ HistoryTypes'
    BY <1>1, <1>3, <1>7, <2>5
       DEF SaveSessions, PlainTypes, CopyTypes, HistoryTypes, loading, config, history
  <2> QED
    BY <2>3, <2>6, TypeNext
<1>8. CASE FinishReset(c)
  <2>1. Bill(c, "session", "recording", calls[c].seen, Empty)
    BY <1>8 DEF FinishReset
  <2>2. /\ trackers' \in Copies /\ snap' \in [Writers -> Copies] /\ owed' \in [Budgets -> Nat]
        /\ \E x \in Busy : Goes(c, x)
    BY <1>2, <1>4, <2>1, BillIs DEF Scopes
  <2>3. ChainTypeOK' /\ calls' \in [Calls -> Call]
    BY <1>2, <1>3, <2>2, ChainServes
  <2>4. snap[c] \in Copies /\ "request" \in Scopes
    BY <1>1 DEF CopyTypes, Writers, Scopes
  <2>5. disk' \in Copies /\ torn' \subseteq Scopes
    BY <1>1, <1>8, <2>4, WrittenType DEF FinishReset
  <2>6. PlainTypes' /\ CopyTypes' /\ HistoryTypes'
    BY <1>1, <1>3, <1>4, <1>8, <2>2, <2>5
       DEF FinishReset, PlainTypes, CopyTypes, HistoryTypes, loading, config
  <2> QED
    BY <2>3, <2>6, TypeNext
<1>9. CASE ChargeRequest(c)
  <2>1. Bill(c, "request", "saving", calls[c].seen, trackers')
    BY <1>9 DEF ChargeRequest
  <2>2. /\ trackers' \in Copies /\ snap' \in [Writers -> Copies] /\ owed' \in [Budgets -> Nat]
        /\ \E x \in Busy : Goes(c, x)
    BY <1>2, <1>4, <2>1, BillIs DEF Scopes
  <2>3. ChainTypeOK' /\ calls' \in [Calls -> Call]
    BY <1>2, <1>3, <2>2, ChainServes
  <2>4. PlainTypes' /\ CopyTypes' /\ HistoryTypes'
    BY <1>1, <1>3, <1>9, <2>2 DEF ChargeRequest, PlainTypes, CopyTypes, HistoryTypes, loading, files, config
  <2> QED
    BY <2>3, <2>4, TypeNext
<1> QED
  BY <1>5, <1>6, <1>7, <1>8, <1>9

\* The call in front is answered.
LEMMA AnswerTypes ==
  ASSUME TypeOK, NEW c \in Calls, Answer(c)
  PROVE  TypeOK'
<1>1. /\ PlainTypes /\ CopyTypes /\ HistoryTypes /\ calls \in [Calls -> Call] /\ ChainTypeOK
  BY TypeIs
<1>2. /\ queue # <<>> /\ Head(queue) = c /\ calls[c] \in Busy
      /\ queue' = Tail(queue) /\ Goes(c, Idle)
  BY ServingIs DEF Answer
<1>3. /\ calls' \in [Calls -> Call] /\ calls'[c] = Idle
      /\ \A d \in Calls : d # c => calls'[d] = calls[d]
  BY <1>1, <1>2, GoesIs, IdleIs
<1>4. /\ queue \in Seq(Calls) /\ queue' \in Seq(Calls)
      /\ Len(queue) \in Nat \ {0} /\ Len(queue') = Len(queue) - 1 /\ queue[1] = c
      /\ \A i \in 1 .. Len(queue) : queue[i] \in Calls
  BY <1>1, <1>2 DEF ChainTypeOK
<1>5. \A i \in 1 .. Len(queue') : queue'[i] = queue[i + 1] /\ i + 1 \in 2 .. Len(queue)
                                  /\ i + 1 \in 1 .. Len(queue) /\ i + 1 # 1
  BY <1>2, <1>4
<1>6. \A i \in 1 .. Len(queue') : queue'[i] # c
  <2>1. 1 \in 1 .. Len(queue)
    BY <1>4
  <2> QED
    BY <1>1, <1>4, <1>5, <2>1 DEF ChainTypeOK
<1>7. ChainTypeOK'
  <2>1. ASSUME NEW i \in 1 .. Len(queue'), NEW j \in 1 .. Len(queue'), queue'[i] = queue'[j]
        PROVE  i = j
    <3>1. i + 1 = j + 1
      BY <1>1, <1>5, <2>1 DEF ChainTypeOK
    <3> QED
      BY <1>4, <3>1
  <2>2. ASSUME NEW d \in Calls
        PROVE  calls'[d] # Idle <=> \E i \in 1 .. Len(queue') : queue'[i] = d
    <3>1. CASE d = c
      BY <1>3, <1>6, <3>1
    <3>2. CASE d # c
      <4>1. calls'[d] # Idle <=> \E i \in 1 .. Len(queue) : queue[i] = d
        BY <1>1, <1>3, <3>2 DEF ChainTypeOK
      <4>2. ASSUME NEW i \in 1 .. Len(queue), queue[i] = d
            PROVE  \E j \in 1 .. Len(queue') : queue'[j] = d
        <5>1. i # 1 /\ i - 1 \in 1 .. Len(queue') /\ (i - 1) + 1 = i
          BY <1>4, <3>2, <4>2
        <5> QED
          BY <1>5, <4>2, <5>1
      <4>3. ASSUME NEW j \in 1 .. Len(queue'), queue'[j] = d
            PROVE  \E i \in 1 .. Len(queue) : queue[i] = d
        BY <1>5, <4>3
      <4> QED
        BY <4>1, <4>2, <4>3
    <3> QED
      BY <3>1, <3>2
  <2>3. ASSUME NEW i \in 2 .. Len(queue')
        PROVE  calls'[queue'[i]].pc = "queued"
    <3>1. i \in 1 .. Len(queue')
      BY <1>4
    <3>2. calls[queue'[i]].pc = "queued" /\ queue'[i] \in Calls /\ queue'[i] # c
      BY <1>1, <1>4, <1>5, <1>6, <3>1 DEF ChainTypeOK
    <3> QED
      BY <1>3, <3>2
  <2> QED
    BY <1>4, <2>1, <2>2, <2>3 DEF ChainTypeOK
<1>8. snap[c] \in Copies /\ "request" \in Scopes /\ Empty \in Copies
  BY <1>1, FreshType DEF CopyTypes, Writers, Scopes
<1>9. disk' \in Copies /\ torn' \subseteq Scopes
  BY <1>1, <1>8, WrittenType DEF Answer
<1>a. snap' \in [Writers -> Copies]
  BY <1>1, <1>8 DEF Answer, CopyTypes, Writers
<1>b. ran' \in [Budgets -> Nat]
  BY <1>1 DEF Answer, HistoryTypes
<1>c. PlainTypes' /\ CopyTypes' /\ HistoryTypes'
  BY <1>1, <1>9, <1>a, <1>b DEF Answer, PlainTypes, CopyTypes, HistoryTypes, loading, config
<1> QED
  BY <1>3, <1>7, <1>c, TypeNext

LEMMA CliTypes ==
  ASSUME TypeOK, Cli
  PROVE  TypeOK'
<1>1. /\ PlainTypes /\ CopyTypes /\ HistoryTypes /\ calls \in [Calls -> Call] /\ ChainTypeOK
      /\ Default \in Policies
  BY TypeIs, LimitAssumption
<1>2. CASE \E scope \in ResetScopes : CliStart(scope)
  <2>1. cli' \in [pc : {"idle", "sessions", "requests", "mark"},
                  scope : {"all", "session", "request"}]
    BY <1>2, LimitAssumption DEF CliStart
  <2>2. UNCHANGED <<config, marker, lastSeen, loading, trackers, files, snap, queue, calls,
                    clearer, history>>
    BY <1>2 DEF CliStart
  <2>3. PlainTypes' /\ CopyTypes' /\ HistoryTypes' /\ calls' \in [Calls -> Call] /\ ChainTypeOK'
    BY <1>1, <2>1, <2>2, ChainSame
       DEF PlainTypes, CopyTypes, HistoryTypes, config, loading, files, history
  <2> QED
    BY <2>3, TypeNext
<1>3. ASSUME NEW scope \in Scopes, NEW pc, NEW next \in {"requests", "mark"},
             CliRemove(scope, pc, next)
      PROVE  TypeOK'
  <2>1. cli' \in [pc : {"idle", "sessions", "requests", "mark"},
                  scope : {"all", "session", "request"}]
    BY <1>1, <1>3 DEF CliRemove, PlainTypes
  <2>2. UNCHANGED <<config, marker, lastSeen, loading, trackers, snap, queue, calls,
                    clearer, history>>
    BY <1>3 DEF CliRemove
  <2>3. disk' \in Copies /\ torn' \subseteq Scopes
    BY <1>1, <1>3, FreshType, WrittenType DEF CliRemove
  <2>4. PlainTypes' /\ CopyTypes' /\ HistoryTypes' /\ calls' \in [Calls -> Call] /\ ChainTypeOK'
    BY <1>1, <2>1, <2>2, <2>3, ChainSame
       DEF PlainTypes, CopyTypes, HistoryTypes, config, loading, history
  <2> QED
    BY <2>4, TypeNext
<1>4. CASE CliMark
  <2> DEFINE B == {b \in Budgets : Scope(b) \in Covered(cli.scope)}
  <2>1. Forgotten(B) /\ B \in SUBSET Budgets
    BY <1>4 DEF CliMark
  <2>2. UNCHANGED <<policy, lastSeen, loading, trackers, files, snap, queue, clearer>>
    BY <1>4 DEF CliMark
  <2>3. cli' \in [pc : {"idle", "sessions", "requests", "mark"},
                  scope : {"all", "session", "request"}]
    BY <1>1, <1>4 DEF CliMark, PlainTypes
  <2>4. marker' \in [at : Nat, scope : {"all", "session", "request"}] /\ overlay' \in Policies
    BY <1>1, <1>4, BuiltType DEF CliMark, PlainTypes
  <2> HIDE DEF B
  <2>5. HistoryTypes' /\ calls' \in [Calls -> Call] /\ ChainTypeOK'
    BY <2>1, <2>2, ForgottenIs DEF HistoryTypes
  <2>6. PlainTypes' /\ CopyTypes'
    BY <1>1, <2>2, <2>3, <2>4 DEF PlainTypes, CopyTypes, loading, files
  <2> QED
    BY <2>5, <2>6, TypeNext
<1>5. (IF cli.scope = "all" THEN "requests" ELSE "mark") \in {"requests", "mark"}
  OBVIOUS
<1> QED
  BY <1>2, <1>3, <1>4, <1>5 DEF Cli, Scopes

LEMMA ClearTypes ==
  ASSUME TypeOK, NEW B \in SUBSET Budgets, Clear(B)
  PROVE  TypeOK'
<1>1. /\ PlainTypes /\ CopyTypes
  BY TypeIs
<1>2. /\ Forgotten(B)
      /\ UNCHANGED <<config, marker, lastSeen, loading, files, queue, cli>>
  BY DEF Clear
<1>3. HistoryTypes' /\ calls' \in [Calls -> Call] /\ ChainTypeOK'
  BY <1>2, ForgottenIs DEF HistoryTypes
<1>4. trackers' \in Copies
  BY <1>1, FreshType DEF Clear, CopyTypes, Copies
<1>5. snap' \in [Writers -> Copies]
  BY <1>1, <1>4 DEF Clear, CopyTypes, Writers
<1>6. PlainTypes' /\ CopyTypes'
  BY <1>1, <1>2, <1>4, <1>5 DEF Clear, PlainTypes, CopyTypes, config, loading, files
<1> QED
  BY <1>3, <1>6, TypeNext

LEMMA ClearSaveTypes ==
  ASSUME TypeOK, ClearSave
  PROVE  TypeOK'
<1>1. PlainTypes /\ CopyTypes /\ HistoryTypes /\ calls \in [Calls -> Call] /\ ChainTypeOK
  BY TypeIs
<1>2. UNCHANGED <<config, marker, lastSeen, loading, trackers, queue, calls, cli, history>>
  BY DEF ClearSave
<1>3. snap[Startup] \in Copies /\ {"session", "request"} \subseteq Scopes /\ Empty \in Copies
  BY <1>1, FreshType DEF CopyTypes, Writers, Scopes
<1>4. disk' \in Copies /\ torn' \subseteq Scopes
  BY <1>1, <1>3, WrittenType DEF ClearSave
<1>5. snap' \in [Writers -> Copies] /\ clearer' \in {"idle", "saved"}
  BY <1>1, <1>3 DEF ClearSave, CopyTypes, Writers
<1>6. PlainTypes' /\ CopyTypes' /\ HistoryTypes' /\ ChainTypeOK'
  BY <1>1, <1>2, <1>4, <1>5, ChainSame
     DEF PlainTypes, CopyTypes, HistoryTypes, config, loading, history
<1> QED
  BY <1>1, <1>2, <1>6, TypeNext

LEMMA WindowTypes ==
  ASSUME TypeOK, NEW b \in Budgets, WindowEnds(b)
  PROVE  TypeOK'
<1>1. PlainTypes /\ CopyTypes
  BY TypeIs
<1>2. /\ Forgotten({b})
      /\ UNCHANGED <<config, marker, lastSeen, init, loader, torn, queue, cli, clearer>>
  BY DEF WindowEnds
<1>3. HistoryTypes' /\ calls' \in [Calls -> Call] /\ ChainTypeOK'
  BY <1>2, ForgottenIs DEF HistoryTypes
<1>4. trackers' \in Copies /\ disk' \in Copies /\ buffer' \in Copies
  BY <1>1, FreshType DEF WindowEnds, CopyTypes, Copies
<1>5. snap' \in [Writers -> Copies]
  <2>1. \A w \in Writers : [snap[w] EXCEPT ![b] = Fresh] \in Copies
    BY <1>1, FreshType DEF CopyTypes, Copies
  <2> QED
    BY <2>1 DEF WindowEnds, Writers
<1>6. PlainTypes' /\ CopyTypes'
  BY <1>1, <1>2, <1>4, <1>5 DEF PlainTypes, CopyTypes, config
<1> QED
  BY <1>3, <1>6, TypeNext

LEMMA RestartTypes ==
  ASSUME TypeOK, Restart
  PROVE  TypeOK'
<1>1. PlainTypes /\ CopyTypes /\ HistoryTypes
  BY TypeIs
<1>2. torn' \subseteq Scopes
  BY <1>1 DEF Restart, PlainTypes, BeingWritten
<1>3. ran' \in [Budgets -> Nat] /\ owed' \in [Budgets -> Nat]
  BY <1>1 DEF Restart, HistoryTypes
<1>4. PlainTypes'
  BY <1>1, <1>2 DEF Restart, PlainTypes, Writers
<1>5. CopyTypes'
  BY <1>1, FreshType DEF Restart, CopyTypes, Writers
<1>6. calls' \in [Calls -> Call] /\ ChainTypeOK'
  BY IdleIs DEF Restart, ChainTypeOK
<1> QED
  BY <1>3, <1>4, <1>5, <1>6, TypeNext DEF HistoryTypes

LEMMA TypeStep == TypeOK /\ [Next]_vars => TypeOK'
<1> SUFFICES ASSUME TypeOK, [Next]_vars
             PROVE  TypeOK'
  OBVIOUS
<1>1. CASE \/ \E p \in Policies : Initialize(p) \/ UpdateConfig(p)
           \/ ReloadConfig \/ Load
  BY <1>1, ConfigTypes
<1>2. CASE \E c \in Calls, s \in Sessions, r \in Requests, t \in Tools : Arrive(c, s, r, t)
  BY <1>2, ArriveTypes
<1>3. ASSUME NEW c \in Calls, Serve(c)
      PROVE  TypeOK'
  BY <1>3, ConfigTypes, ServeTypes, AnswerTypes DEF Serve
<1>4. CASE Cli
  BY <1>4, CliTypes
<1>5. CASE Clear(Budgets) \/ \E s \in Sessions : Clear({s} \X Resources)
  <2>1. \A s \in Sessions : {s} \X Resources \subseteq Budgets
    BY DEF Budgets
  <2> QED
    BY <1>5, <2>1, ClearTypes
<1>6. CASE ClearSave
  BY <1>6, ClearSaveTypes
<1>7. CASE \E b \in Budgets : WindowEnds(b)
  BY <1>7, WindowTypes
<1>8. CASE Restart
  BY <1>8, RestartTypes
<1>9. CASE UNCHANGED vars
  BY <1>9 DEF vars, TypeOK, ChainTypeOK
<1> QED
  BY <1>1, <1>2, <1>3, <1>4, <1>5, <1>6, <1>7, <1>8, <1>9 DEF Next

\* Every variable keeps to its type; the promise chain links the calls in
\* flight, each once, and only its head is past the queue.
THEOREM TypeCorrect == Spec => []TypeOK
<1> QED
  BY InitTypes, TypeStep, PTL DEF Spec

(***************************************************************************)
(* The warning.  It belongs to a tracker, so every copy of one must have   *)
(* it: the Maps, the files, what load() has read and what a save holds.    *)
(***************************************************************************)
WarnedAt(x, b) ==
  Limit(Default, b) > 1 /\ x.count >= SoftLimit(Limit(Default, b)) => x.warned

WarnedIn(t) == \A b \in Budgets : WarnedAt(t[b], b)

CopiesWarned ==
  WarnedIn(trackers) /\ WarnedIn(disk) /\ WarnedIn(buffer) /\ \A w \in Writers : WarnedIn(snap[w])

LEMMA SoftBelow ==
  ASSUME NEW max \in Nat, max > 1
  PROVE  SoftLimit(max) \in Nat /\ SoftLimit(max) > 0 /\ SoftLimit(max) <= max - 1
<1>1. CASE max <= 10
  BY <1>1 DEF SoftLimit
<1>2. CASE max > 10
  BY <1>2 DEF SoftLimit
<1> QED
  BY <1>1, <1>2

LEMMA FreshWarned ==
  ASSUME NEW b \in Budgets
  PROVE  WarnedAt(Fresh, b)
<1>1. Limit(Default, b) \in Nat
  BY LimitType, LimitAssumption
<1> QED
  BY <1>1, SoftBelow DEF WarnedAt, Fresh

\* The call that makes the count reach the soft limit is not the one that
\* reaches the hard limit, so it warns.
LEMMA EnforcedWarned ==
  ASSUME NEW b \in Budgets, NEW t \in Tracker, WarnedAt(t, b)
  PROVE  WarnedAt(Enforced(t, Limit(Default, b)), b)
<1> DEFINE max == Limit(Default, b)
<1> SUFFICES ASSUME max > 1, t.count + 1 >= SoftLimit(max)
             PROVE  Enforced(t, max).warned
  <2>1. max \in Nat
    BY LimitType, LimitAssumption
  <2>2. Enforced(t, max).count = t.count + 1
    BY <2>1, EnforcedType
  <2> QED
    BY <2>2 DEF WarnedAt
<1>1. max \in Nat /\ t.count \in Nat
  BY LimitType, LimitAssumption DEF Tracker
<1>2. SoftLimit(max) \in Nat /\ SoftLimit(max) <= max - 1
  BY <1>1, SoftBelow
<1>3. t.warned \/ Verdict(t, max) = "SOFT"
  <2>1. CASE t.count >= SoftLimit(max)
    BY <2>1 DEF WarnedAt
  <2>2. CASE t.count + 1 < max /\ ~t.warned
    <3>1. t.count + 1 >= SoftLimit(max)
      OBVIOUS
    <3> HIDE DEF max
    <3> QED
      BY <1>1, <2>2, <3>1, VerdictIs
  <2>3. t.count >= SoftLimit(max) \/ t.count + 1 < max
    BY <1>1, <1>2
  <2> QED
    BY <2>1, <2>2, <2>3
<1> QED
  BY <1>3 DEF Enforced

LEMMA EmptyWarned == WarnedIn(Empty)
BY FreshWarned DEF WarnedIn, Empty

LEMMA WipedWarned ==
  ASSUME NEW t, WarnedIn(t), NEW S
  PROVE  WarnedIn(Wiped(t, S))
BY FreshWarned DEF WarnedIn, Wiped

LEMMA WriteWarned ==
  ASSUME CopiesWarned, NEW t, WarnedIn(t), NEW scope, WriteFile(t, scope)
  PROVE  WarnedIn(disk')
<1>1. \A b \in Budgets : disk'[b] = t[b] \/ disk'[b] = disk[b]
  BY DEF WriteFile
<1> QED
  BY <1>1 DEF WarnedIn, CopiesWarned

LEMMA BillWarned ==
  ASSUME TypeOK, CopiesWarned, Policies = {Default}, NEW c \in Calls, calls[c] \in Busy,
         NEW scope \in Scopes, NEW pc \in {"recording", "saving"}, NEW seen \in Nat,
         NEW gathered, gathered = Empty \/ gathered = trackers',
         Bill(c, scope, pc, seen, gathered)
  PROVE  WarnedIn(trackers') /\ \A w \in Writers : WarnedIn(snap'[w])
<1>1. trackers \in Copies /\ calls[c].policy = Default
  BY BusyFields DEF TypeOK, Copies
<1>2. gathered \in Copies \/ gathered = trackers'
  BY FreshType
<1>3. \A b \in Budgets :
        trackers'[b] = IF b \in Billed(calls[c], scope)
                       THEN Enforced(trackers[b], Limit(Default, b)) ELSE trackers[b]
  BY <1>1, <1>2, BillIs
<1>4. WarnedIn(trackers')
  <2> SUFFICES ASSUME NEW b \in Budgets
               PROVE  WarnedAt(trackers'[b], b)
    BY DEF WarnedIn
  <2>1. trackers[b] \in Tracker /\ WarnedAt(trackers[b], b)
    BY <1>1 DEF Copies, CopiesWarned, WarnedIn
  <2>2. WarnedAt(Enforced(trackers[b], Limit(Default, b)), b)
    BY <2>1, EnforcedWarned
  <2>3. trackers'[b] = Enforced(trackers[b], Limit(Default, b)) \/ trackers'[b] = trackers[b]
    BY <1>3
  <2> QED
    BY <2>1, <2>2, <2>3
<1>5. ASSUME NEW w \in Writers
      PROVE  WarnedIn(snap'[w])
  <2>1. snap'[w] = IF w = c THEN gathered ELSE Following(snap[w], trackers')
    BY DEF Bill, Writers
  <2>2. WarnedIn(Following(snap[w], trackers'))
    <3>1. \A b \in Budgets : \/ Following(snap[w], trackers')[b] = trackers'[b]
                             \/ Following(snap[w], trackers')[b] = snap[w][b]
      BY DEF Following
    <3> QED
      BY <1>4, <3>1 DEF WarnedIn, CopiesWarned
  <2> QED
    BY <1>4, <2>1, <2>2, EmptyWarned
<1> QED
  BY <1>4, <1>5

LEMMA ServeWarned ==
  ASSUME TypeOK, CopiesWarned, Policies = {Default}, NEW c \in Calls, Serve(c)
  PROVE  CopiesWarned'
<1>1. /\ WarnedIn(trackers) /\ WarnedIn(disk) /\ WarnedIn(buffer)
      /\ \A w \in Writers : WarnedIn(snap[w])
      /\ c \in Writers /\ WarnedIn(snap[c])
  BY DEF CopiesWarned, Writers
<1>2. marker.at \in Nat /\ (calls[c] \in Busy => calls[c].seen \in Nat)
  BY BusyFields DEF TypeOK
<1>3. CASE StartLoad(c)
  BY <1>1, <1>3 DEF StartLoad, files, CopiesWarned
<1>4. CASE Enter(c)
  <2>1. calls[c] \in Busy /\ Bill(c, "session", "recording", marker.at, Empty)
    BY <1>4, ServingIs DEF Enter
  <2>2. WarnedIn(trackers') /\ \A w \in Writers : WarnedIn(snap'[w])
    BY <1>2, <2>1, BillWarned DEF Scopes
  <2>3. disk' = disk /\ buffer' = buffer
    BY <1>4 DEF Enter, files, loading
  <2> QED
    BY <1>1, <2>2, <2>3 DEF CopiesWarned
<1>5. CASE EnterReset(c)
  <2>1. WarnedIn(trackers')
    BY <1>1, <1>5, WipedWarned DEF EnterReset, ApplyReset
  <2>2. \A w \in Writers : snap'[w] = trackers' \/ snap'[w] = snap[w]
    BY <1>5 DEF EnterReset, TypeOK, Writers
  <2>3. disk' = disk /\ buffer' = buffer
    BY <1>5 DEF EnterReset, files, loading
  <2> QED
    BY <1>1, <2>1, <2>2, <2>3 DEF CopiesWarned
<1>6. CASE SaveSessions(c)
  <2>1. WarnedIn(disk')
    BY <1>1, <1>6, WriteWarned DEF SaveSessions
  <2>2. trackers' = trackers /\ buffer' = buffer /\ snap' = snap
    BY <1>6 DEF SaveSessions, loading
  <2> QED
    BY <1>1, <2>1, <2>2 DEF CopiesWarned
<1>7. CASE FinishReset(c)
  <2>1. calls[c] \in Busy /\ Bill(c, "session", "recording", calls[c].seen, Empty)
    BY <1>7, ServingIs DEF FinishReset
  <2>2. WarnedIn(trackers') /\ \A w \in Writers : WarnedIn(snap'[w])
    BY <1>2, <2>1, BillWarned DEF Scopes
  <2>3. WarnedIn(disk') /\ buffer' = buffer
    BY <1>1, <1>7, WriteWarned DEF FinishReset, loading
  <2> QED
    BY <1>1, <2>2, <2>3 DEF CopiesWarned
<1>8. CASE ChargeRequest(c)
  <2>1. calls[c] \in Busy /\ Bill(c, "request", "saving", calls[c].seen, trackers')
    BY <1>8, ServingIs DEF ChargeRequest
  <2>2. WarnedIn(trackers') /\ \A w \in Writers : WarnedIn(snap'[w])
    BY <1>2, <2>1, BillWarned DEF Scopes
  <2>3. disk' = disk /\ buffer' = buffer
    BY <1>8 DEF ChargeRequest, files, loading
  <2> QED
    BY <1>1, <2>2, <2>3 DEF CopiesWarned
<1>9. CASE Answer(c)
  <2>1. WarnedIn(disk')
    BY <1>1, <1>9, WriteWarned DEF Answer
  <2>2. \A w \in Writers : snap'[w] = Empty \/ snap'[w] = snap[w]
    BY <1>9 DEF Answer, TypeOK, Writers
  <2>3. trackers' = trackers /\ buffer' = buffer
    BY <1>9 DEF Answer, loading
  <2> QED
    BY <1>1, <2>1, <2>2, <2>3, EmptyWarned DEF CopiesWarned
<1> QED
  BY <1>3, <1>4, <1>5, <1>6, <1>7, <1>8, <1>9 DEF Serve

LEMMA OthersWarned ==
  ASSUME TypeOK, CopiesWarned, [Next]_vars, ~ \E c \in Calls : Serve(c)
  PROVE  CopiesWarned'
<1>1. /\ WarnedIn(trackers) /\ WarnedIn(disk) /\ WarnedIn(buffer)
      /\ \A w \in Writers : WarnedIn(snap[w])
      /\ WarnedIn(snap[Startup])
  BY DEF CopiesWarned, Writers
<1>2. CASE UNCHANGED <<trackers, disk, buffer, snap>>
  BY <1>2 DEF CopiesWarned
<1>3. CASE LoadSessions
  <2>1. WarnedIn(buffer')
    BY <1>1, <1>3, EmptyWarned, WipedWarned DEF LoadSessions
  <2> QED
    BY <1>1, <1>3, <2>1 DEF LoadSessions, files, CopiesWarned
<1>4. CASE LoadRequests
  <2>1. \A b \in Budgets : trackers'[b] \in {buffer[b], disk[b], Fresh}
    BY <1>4 DEF LoadRequests
  <2>2. WarnedIn(trackers')
    BY <1>1, <2>1, FreshWarned DEF WarnedIn
  <2>3. WarnedIn(buffer')
    BY <1>4, EmptyWarned DEF LoadRequests
  <2> QED
    BY <1>1, <1>4, <2>2, <2>3 DEF LoadRequests, files, CopiesWarned
<1>5. ASSUME NEW scope, NEW pc, NEW next, CliRemove(scope, pc, next)
      PROVE  CopiesWarned'
  <2>1. WarnedIn(disk')
    BY <1>5, EmptyWarned, WriteWarned DEF CliRemove
  <2> QED
    BY <1>1, <1>5, <2>1 DEF CliRemove, loading, CopiesWarned
<1>6. CASE CliMark
  BY <1>1, <1>6 DEF CliMark, loading, files, CopiesWarned
<1>7. ASSUME NEW B, Clear(B)
      PROVE  CopiesWarned'
  <2>1. \A b \in Budgets : trackers'[b] \in {trackers[b], Fresh}
    BY <1>7 DEF Clear
  <2>2. WarnedIn(trackers')
    BY <1>1, <2>1, FreshWarned DEF WarnedIn
  <2>3. \A w \in Writers : snap'[w] = trackers' \/ snap'[w] = snap[w]
    BY <1>7 DEF Clear, TypeOK, Writers
  <2> QED
    BY <1>1, <1>7, <2>2, <2>3 DEF Clear, loading, files, CopiesWarned
<1>8. CASE ClearSave
  <2>1. WriteFile(snap[Startup], "session") \/ WriteFile(snap[Startup], "request")
    BY <1>8 DEF ClearSave
  <2>3. WarnedIn(disk')
    BY <1>1, <2>1, WriteWarned
  <2>2. \A w \in Writers : snap'[w] = Empty \/ snap'[w] = snap[w]
    BY <1>8 DEF ClearSave, TypeOK, Writers
  <2> QED
    BY <1>1, <1>8, <2>2, <2>3, EmptyWarned DEF ClearSave, loading, CopiesWarned
<1>9. ASSUME NEW b \in Budgets, WindowEnds(b)
      PROVE  CopiesWarned'
  <2>1. \A d \in Budgets : /\ trackers'[d] \in {trackers[d], Fresh}
                           /\ disk'[d] \in {disk[d], Fresh} /\ buffer'[d] \in {buffer[d], Fresh}
    BY <1>9 DEF WindowEnds, TypeOK
  <2>2. ASSUME NEW w \in Writers, NEW d \in Budgets
        PROVE  snap'[w][d] \in {snap[w][d], Fresh}
    <3>1. snap'[w] = [snap[w] EXCEPT ![b] = Fresh]
      BY <1>9 DEF WindowEnds, Writers
    <3>2. snap[w] \in [Budgets -> Tracker]
      BY DEF TypeOK, Writers
    <3> QED
      BY <3>1, <3>2
  <2> QED
    BY <1>1, <2>1, <2>2, FreshWarned DEF CopiesWarned, WarnedIn
<1>a. CASE Restart
  <2>1. /\ trackers' = Empty /\ buffer' = Empty /\ disk' = disk
        /\ \A w \in Writers : snap'[w] = Empty
    BY <1>a DEF Restart, Writers
  <2> QED
    BY <1>1, <2>1, EmptyWarned DEF CopiesWarned
<1>b. CASE \E p \in Policies : Initialize(p) \/ UpdateConfig(p)
  BY <1>2, <1>b DEF Initialize, UpdateConfig, files, loading
<1>c. CASE ReloadConfig
  BY <1>2, <1>c DEF ReloadConfig, files, loading
<1>d. CASE \E c \in Calls, s \in Sessions, r \in Requests, t \in Tools : Arrive(c, s, r, t)
  BY <1>2, <1>d DEF Arrive, files, loading
<1>e. CASE \E scope \in ResetScopes : CliStart(scope)
  BY <1>2, <1>e DEF CliStart, files, loading
<1>f. CASE UNCHANGED vars
  BY <1>2, <1>f DEF vars
<1> QED
  BY <1>3, <1>4, <1>5, <1>6, <1>7, <1>8, <1>9, <1>a, <1>b, <1>c, <1>d, <1>e, <1>f
     DEF Next, Load, Cli

\* A budget is never exhausted without a warning before, whatever is saved,
\* loaded, wiped or torn on the way, as long as its limit stays the same.
THEOREM WarnedCorrect == Policies = {Default} => (Spec => []WarnedBeforeBlocked)
<1> SUFFICES ASSUME Policies = {Default}
             PROVE  Spec => []WarnedBeforeBlocked
  OBVIOUS
<1>1. Init => CopiesWarned
  BY EmptyWarned DEF Init, CopiesWarned, Writers
<1>2. TypeOK /\ CopiesWarned /\ [Next]_vars => CopiesWarned'
  BY ServeWarned, OthersWarned
<1>3. TypeOK /\ CopiesWarned => WarnedBeforeBlocked
  <2> SUFFICES ASSUME TypeOK, CopiesWarned, NEW b \in Budgets, Limit(Default, b) > 1,
                      trackers[b].count >= Limit(Default, b)
               PROVE  trackers[b].warned
    BY DEF WarnedBeforeBlocked
  <2>1. Limit(Default, b) \in Nat /\ trackers[b].count \in Nat
    BY LimitType DEF TypeOK, Tracker
  <2>2. trackers[b].count >= SoftLimit(Limit(Default, b))
    BY <2>1, SoftBelow
  <2> QED
    BY <2>2 DEF CopiesWarned, WarnedIn, WarnedAt
<1> QED
  BY <1>1, <1>2, <1>3, TypeCorrect, PTL DEF Spec

(***************************************************************************)
(* What is let through is counted and saved, whatever crashes, while       *)
(* nobody resets a budget and no call overtakes the plugin's start.        *)
(***************************************************************************)
NoResets == ~Embedder /\ ~PluginStart /\ MaxResets = 0

\* Nothing is under way that a reset would need.
Undisturbed ==
  /\ cli.pc = "idle" /\ clearer = "idle" /\ lastSeen \in {0, marker.at}
  /\ \A c \in Calls : calls[c].pc \notin {"resetting", "reset"}

\* Nobody is charged before the trackers are there.
LoadFirst ==
  /\ init # "done" => \A c \in Calls : calls[c].pc \in {"idle", "queued"}
  /\ init \notin {"new", "done"} /\ loader = Startup => queue = <<>>
  /\ init \notin {"new", "done"} /\ loader # Startup => queue # <<>> /\ Head(queue) = loader

\* Every copy a load or a crash can fall back on counts what was let through.
NoneLost ==
  /\ \A b \in Budgets : ran[b] <= disk[b].count
  /\ init = "done" => \A b \in Budgets : ran[b] <= trackers[b].count
  /\ init = "half" => \A b \in Budgets : Scope(b) = "session" => ran[b] <= buffer[b].count
  /\ init = "failed" \/ "session" \in torn => \A b \in Budgets : ran[b] = 0
  /\ \A b \in Budgets : Scope(b) \in torn => ran[b] = 0

\* What ran[b] will be at most when call x is answered.
Due(x, b) == IF b \in x.billed THEN ran[b] + 1 ELSE ran[b]

\* The call being served is in the trackers, then in what it gathered, then in
\* the files; and it is let through only below its limits.
Served(c) ==
  /\ calls[c].pc = "queued" => calls[c].billed = {}
  /\ calls[c].pc \in {"recording", "saving", "saved"} =>
       \A b \in Budgets : b \in calls[c].billed =>
         /\ ran[b] + 1 <= trackers[b].count
         /\ calls[c].status # "HARD" => ran[b] + 1 < Limit(calls[c].policy, b)
  /\ calls[c].pc \in {"saving", "saved"} =>
       \A b \in Budgets : Due(calls[c], b) <= snap[c][b].count
  /\ calls[c].pc = "saved" =>
       /\ "session" \notin torn
       /\ \A b \in Budgets : Scope(b) = "session" => Due(calls[c], b) <= disk[b].count

CountInv ==
  Undisturbed /\ LoadFirst /\ NoneLost /\ (\A c \in Calls : Served(c)) /\ BudgetHolds

LEMMA Counts ==
  ASSUME TypeOK, NEW b \in Budgets
  PROVE  /\ ran[b] \in Nat /\ trackers[b].count \in Nat /\ disk[b].count \in Nat
         /\ buffer[b].count \in Nat /\ \A w \in Writers : snap[w][b].count \in Nat
BY DEF TypeOK, Tracker, Writers

LEMMA InitCounts ==
  ASSUME Init
  PROVE  CountInv
<1>1. \A b \in Budgets : /\ ran[b] = 0 /\ disk[b].count = 0 /\ trackers[b].count = 0
                         /\ buffer[b].count = 0
  BY FreshType DEF Init, Empty
<1>2. \A c \in Calls : calls[c].pc = "idle"
  BY IdleIs DEF Init
<1>3. Undisturbed /\ LoadFirst
  BY <1>2 DEF Init, Undisturbed, LoadFirst
<1>4. NoneLost
  BY <1>1 DEF Init, NoneLost
<1>5. \A c \in Calls : Served(c)
  BY <1>2 DEF Served
<1>6. BudgetHolds
  BY <1>1, LimitAssumption DEF BudgetHolds
<1> QED
  BY <1>3, <1>4, <1>5, <1>6 DEF CountInv

\* Who is past the queue is in front, and the trackers are loaded.
LEMMA PastQueue ==
  ASSUME TypeOK, CountInv, NEW c \in Calls,
         calls[c].pc \in {"recording", "saving", "saved"}
  PROVE  init = "done" /\ queue # <<>> /\ Head(queue) = c
<1>1. calls[c] # Idle /\ calls[c].pc # "queued"
  BY IdleIs
<1>2. init = "done"
  BY <1>1 DEF CountInv, LoadFirst
<1> QED
  BY <1>1, <1>2, ServedInFront DEF TypeOK

\* A step of the call in front: the others wait as they did.
LEMMA OthersWait ==
  ASSUME TypeOK, CountInv, NEW c \in Calls, queue # <<>>, Head(queue) = c,
         NEW x \in Call, Goes(c, x), NEW d \in Calls, d # c
  PROVE  /\ calls'[d] = calls[d] /\ calls[d].pc \in {"idle", "queued"} /\ Served(d)'
<1>1. calls'[d] = calls[d]
  BY GoesIs DEF TypeOK
<1>2. calls[d] \in Call /\ calls[d].pc \notin {"resetting", "reset"}
  BY DEF TypeOK, CountInv, Undisturbed
<1>3. calls[d].pc \notin {"recording", "saving", "saved"}
  BY PastQueue
<1>4. calls[d].pc \in {"idle", "queued"}
  <2>1. CASE calls[d] = Idle
    BY <2>1, IdleIs
  <2>2. CASE calls[d] # Idle
    BY <1>2, <1>3, <2>2, BusyFields DEF Busy
  <2> QED
    BY <2>1, <2>2
<1>5. Served(d)'
  BY <1>1, <1>4 DEF Served, CountInv
<1> QED
  BY <1>1, <1>4, <1>5

LEMMA EnterCounts ==
  ASSUME TypeOK, CountInv, NEW c \in Calls, Enter(c)
  PROVE  CountInv'
<1>1. queue # <<>> /\ Head(queue) = c /\ calls[c] \in Busy /\ calls[c].pc = "queued"
  BY ServingIs DEF Enter
<1>2. /\ Bill(c, "session", "recording", marker.at, Empty) /\ Ready(c) /\ lastSeen' = marker.at
      /\ UNCHANGED <<overlay, marker, loading, files, queue, cli, clearer, ran>>
  BY DEF Enter
<1>3. init = "done"
  BY <1>1, <1>2 DEF Ready, CountInv, LoadFirst, TypeOK
<1>4. calls[c].billed = {}
  BY <1>1 DEF CountInv, Served
<1>5. marker.at \in Nat /\ Empty \in Copies
  BY FreshType DEF TypeOK
<1> DEFINE B == Billed(calls[c], "session")
<1>6. PICK x \in Busy :
        /\ Goes(c, x) /\ x.pc = "recording" /\ x.policy = calls[c].policy
        /\ x.billed \subseteq calls[c].billed \cup B
        /\ x.status # "HARD" =>
             \A b \in B : trackers[b].count + 1 < Limit(calls[c].policy, b)
  BY <1>1, <1>2, <1>5, BillIs DEF Scopes
<1>7. \A b \in Budgets :
        trackers'[b] = IF b \in B THEN Enforced(trackers[b], Limit(calls[c].policy, b))
                       ELSE trackers[b]
  BY <1>1, <1>2, <1>5, BillIs DEF Scopes
<1> HIDE DEF B
<1>8. ASSUME NEW b \in Budgets
      PROVE  /\ trackers[b].count \in Nat /\ Limit(calls[c].policy, b) \in Nat
             /\ b \in B => trackers'[b].count = trackers[b].count + 1
             /\ b \notin B => trackers'[b].count = trackers[b].count
             /\ ran'[b] = ran[b] /\ ran[b] \in Nat /\ ran[b] <= trackers[b].count
  <2>1. trackers[b] \in Tracker /\ Limit(calls[c].policy, b) \in Nat
    BY <1>1, BusyFields, LimitType DEF TypeOK
  <2>2. Enforced(trackers[b], Limit(calls[c].policy, b)).count = trackers[b].count + 1
    BY <2>1, EnforcedType
  <2> QED
    BY <1>2, <1>3, <1>7, <2>1, <2>2, Counts DEF CountInv, NoneLost
<1>9. calls'[c] = x
  BY <1>6, GoesIs DEF TypeOK, Busy
<1>a. \A d \in Calls : d # c => calls'[d] = calls[d] /\ Served(d)'
  BY <1>1, <1>6, OthersWait DEF Busy
<1>b. Undisturbed' /\ LoadFirst'
  BY <1>2, <1>3, <1>6, <1>9, <1>a DEF CountInv, Undisturbed, LoadFirst, loading
<1>c. NoneLost'
  BY <1>2, <1>3, <1>8 DEF CountInv, NoneLost, loading, files
<1>d. Served(c)'
  <2>1. ASSUME NEW b \in Budgets, b \in x.billed
        PROVE  /\ ran'[b] + 1 <= trackers'[b].count
               /\ x.status # "HARD" => ran'[b] + 1 < Limit(x.policy, b)
    <3>1. b \in B
      BY <1>4, <1>6, <2>1
    <3>2. ran'[b] + 1 <= trackers'[b].count
      BY <1>8, <3>1
    <3>3. x.status # "HARD" => ran'[b] + 1 < Limit(x.policy, b)
      BY <1>6, <1>8, <3>1
    <3> QED
      BY <3>2, <3>3
  <2> QED
    BY <1>6, <1>9, <2>1 DEF Served
<1>e. BudgetHolds'
  BY <1>2 DEF CountInv, BudgetHolds
<1> QED
  BY <1>a, <1>b, <1>c, <1>d, <1>e DEF CountInv

LEMMA ChargeCounts ==
  ASSUME TypeOK, CountInv, NEW c \in Calls, ChargeRequest(c)
  PROVE  CountInv'
<1>1. queue # <<>> /\ Head(queue) = c /\ calls[c] \in Busy /\ calls[c].pc = "recording"
  BY ServingIs DEF ChargeRequest
<1>2. /\ Bill(c, "request", "saving", calls[c].seen, trackers')
      /\ UNCHANGED <<config, marker, lastSeen, loading, files, queue, cli, clearer, ran>>
  BY DEF ChargeRequest
<1>3. init = "done"
  BY <1>1, PastQueue
<1>5. calls[c].seen \in Nat
  BY <1>1, BusyFields
<1> DEFINE B == Billed(calls[c], "request")
<1>6. PICK x \in Busy :
        /\ Goes(c, x) /\ x.pc = "saving" /\ x.policy = calls[c].policy
        /\ x.billed \subseteq calls[c].billed \cup B
        /\ x.status # "HARD" =>
             /\ calls[c].status # "HARD"
             /\ \A b \in B : trackers[b].count + 1 < Limit(calls[c].policy, b)
  BY <1>1, <1>2, <1>5, BillIs DEF Scopes
<1>7. /\ \A b \in Budgets :
           trackers'[b] = IF b \in B THEN Enforced(trackers[b], Limit(calls[c].policy, b))
                          ELSE trackers[b]
      /\ snap'[c] = trackers'
  BY <1>1, <1>2, <1>5, BillIs DEF Scopes
<1> HIDE DEF B
<1>8. ASSUME NEW b \in Budgets
      PROVE  /\ trackers[b].count \in Nat /\ Limit(calls[c].policy, b) \in Nat
             /\ b \in B => trackers'[b].count = trackers[b].count + 1
             /\ b \notin B => trackers'[b].count = trackers[b].count
             /\ ran'[b] = ran[b] /\ ran[b] \in Nat /\ ran[b] <= trackers[b].count
  <2>1. trackers[b] \in Tracker /\ Limit(calls[c].policy, b) \in Nat
    BY <1>1, BusyFields, LimitType DEF TypeOK
  <2>2. Enforced(trackers[b], Limit(calls[c].policy, b)).count = trackers[b].count + 1
    BY <2>1, EnforcedType
  <2> QED
    BY <1>2, <1>3, <1>7, <2>1, <2>2, Counts DEF CountInv, NoneLost
<1>9. calls'[c] = x
  BY <1>6, GoesIs DEF TypeOK, Busy
<1>a. \A d \in Calls : d # c => calls'[d] = calls[d] /\ Served(d)'
  BY <1>1, <1>6, OthersWait DEF Busy
<1>b. Undisturbed' /\ LoadFirst'
  BY <1>2, <1>3, <1>6, <1>9, <1>a DEF CountInv, Undisturbed, LoadFirst, loading
<1>c. NoneLost'
  BY <1>2, <1>3, <1>8 DEF CountInv, NoneLost, loading, files
<1>d. Served(c)'
  <2>1. ASSUME NEW b \in Budgets, b \in x.billed
        PROVE  /\ ran'[b] + 1 <= trackers'[b].count
               /\ x.status # "HARD" => ran'[b] + 1 < Limit(x.policy, b)
    <3>1. CASE b \in B
      BY <1>6, <1>8, <3>1
    <3>2. CASE b \notin B
      <4>1. b \in calls[c].billed
        BY <1>6, <2>1, <3>2
      <4>2. /\ ran[b] + 1 <= trackers[b].count
            /\ calls[c].status # "HARD" => ran[b] + 1 < Limit(calls[c].policy, b)
        BY <1>1, <4>1 DEF CountInv, Served
      <4> QED
        BY <1>6, <1>8, <3>2, <4>2
    <3> QED
      BY <3>1, <3>2
  <2>2. ASSUME NEW b \in Budgets
        PROVE  Due(x, b)' <= snap'[c][b].count
    <3>1. CASE b \in x.billed
      BY <1>7, <2>1, <3>1 DEF Due
    <3>2. CASE b \notin x.billed
      BY <1>7, <1>8, <3>2 DEF Due
    <3> QED
      BY <3>1, <3>2
  <2> QED
    BY <1>6, <1>9, <2>1, <2>2 DEF Served, Due
<1>e. BudgetHolds'
  BY <1>2 DEF CountInv, BudgetHolds
<1> QED
  BY <1>a, <1>b, <1>c, <1>d, <1>e DEF CountInv

LEMMA SaveCounts ==
  ASSUME TypeOK, CountInv, NEW c \in Calls, SaveSessions(c)
  PROVE  CountInv'
<1>1. /\ queue # <<>> /\ Head(queue) = c /\ calls[c] \in Busy /\ calls[c].pc = "saving"
      /\ Goes(c, [calls[c] EXCEPT !.pc = "saved"])
  BY ServingIs DEF SaveSessions, CountInv, Undisturbed, Serving
<1>2. /\ WriteFile(snap[c], "session")
      /\ UNCHANGED <<config, marker, lastSeen, loading, trackers, snap, queue, cli, clearer, history>>
  BY DEF SaveSessions
<1>3. init = "done"
  BY <1>1, PastQueue
<1> DEFINE x == [calls[c] EXCEPT !.pc = "saved"]
<1>4. /\ x \in Call /\ x.pc = "saved" /\ x.billed = calls[c].billed
      /\ x.status = calls[c].status /\ x.policy = calls[c].policy
  BY <1>1 DEF Busy, Call
<1>5. Goes(c, x)
  BY <1>1
<1> HIDE DEF x
<1>6. calls'[c] = x
  BY <1>4, <1>5, GoesIs DEF TypeOK
<1>7. \A d \in Calls : d # c => calls'[d] = calls[d] /\ Served(d)'
  BY <1>1, <1>4, <1>5, OthersWait
<1>8. /\ \A b \in Budgets : IF Scope(b) = "session" THEN disk'[b] = snap[c][b]
                                                   ELSE disk'[b] = disk[b]
      /\ torn' = torn \ {"session"} /\ ran' = ran /\ trackers' = trackers /\ snap' = snap
  BY <1>2 DEF WriteFile, history
<1>9. \A b \in Budgets : Due(calls[c], b) <= snap[c][b].count
  BY <1>1 DEF CountInv, Served
<1>a. ASSUME NEW b \in Budgets
      PROVE  /\ ran'[b] <= disk'[b].count
             /\ Scope(b) = "session" => Due(calls[c], b) <= disk'[b].count
             /\ Due(calls[c], b)' = Due(calls[c], b)
  <2>1. /\ ran[b] \in Nat /\ snap[c][b].count \in Nat /\ disk[b].count \in Nat
        /\ ran[b] <= disk[b].count
    BY Counts DEF CountInv, NoneLost, Writers
  <2>2. Due(calls[c], b) <= snap[c][b].count /\ Due(calls[c], b)' = Due(calls[c], b)
    BY <1>4, <1>6, <1>8, <1>9 DEF Due
  <2>3. ran[b] <= Due(calls[c], b) /\ Due(calls[c], b) \in Nat
    BY <2>1 DEF Due
  <2>4. CASE Scope(b) = "session"
    BY <1>8, <2>1, <2>2, <2>3, <2>4
  <2>5. CASE Scope(b) # "session"
    BY <1>8, <2>1, <2>2, <2>5
  <2> QED
    BY <2>2, <2>4, <2>5
<1>b. Undisturbed' /\ LoadFirst'
  BY <1>2, <1>3, <1>4, <1>6, <1>7 DEF CountInv, Undisturbed, LoadFirst, loading
<1>c. NoneLost'
  BY <1>2, <1>3, <1>8, <1>a DEF CountInv, NoneLost, loading
<1>d. Served(c)'
  <2>1. \A b \in Budgets :
          b \in calls[c].billed =>
            /\ ran[b] + 1 <= trackers[b].count
            /\ calls[c].status # "HARD" => ran[b] + 1 < Limit(calls[c].policy, b)
    BY <1>1 DEF CountInv, Served
  <2>2. "session" \notin torn'
    BY <1>8
  <2>3. \A b \in Budgets : Due(calls[c], b)' <= snap'[c][b].count
    BY <1>8, <1>9, <1>a
  <2>4. \A b \in Budgets : Scope(b) = "session" => Due(calls[c], b)' <= disk'[b].count
    BY <1>a
  <2> QED
    BY <1>4, <1>6, <1>8, <2>1, <2>2, <2>3, <2>4 DEF Served
<1>e. BudgetHolds'
  BY <1>8 DEF CountInv, BudgetHolds
<1> QED
  BY <1>7, <1>b, <1>c, <1>d, <1>e DEF CountInv

LEMMA AnswerCounts ==
  ASSUME TypeOK, CountInv, NEW c \in Calls, Answer(c)
  PROVE  CountInv'
<1>1. queue # <<>> /\ Head(queue) = c /\ calls[c] \in Busy /\ calls[c].pc = "saved"
  BY ServingIs DEF Answer
<1>2. /\ WriteFile(snap[c], "request") /\ Goes(c, Idle)
      /\ UNCHANGED <<config, marker, lastSeen, loading, trackers, cli, clearer, owed>>
  BY DEF Answer
<1>3. init = "done" /\ "session" \notin torn
  BY <1>1, PastQueue DEF CountInv, Served
<1>4. calls'[c] = Idle /\ \A d \in Calls : d # c => calls'[d] = calls[d]
  BY <1>2, IdleIs, GoesIs DEF TypeOK
<1>5. \A d \in Calls : d # c => calls[d].pc \in {"idle", "queued"}
  BY <1>1, <1>2, IdleIs, OthersWait
<1>6. /\ \A b \in Budgets : IF Scope(b) = "request" THEN disk'[b] = snap[c][b]
                                                   ELSE disk'[b] = disk[b]
      /\ torn' = torn \ {"request"} /\ trackers' = trackers
  BY <1>2 DEF WriteFile
<1>7. torn' = {}
  BY <1>3, <1>6 DEF TypeOK, Scopes
<1>8. ASSUME NEW b \in Budgets
      PROVE  /\ ran'[b] # ran[b] => b \in calls[c].billed /\ calls[c].status # "HARD"
             /\ ran'[b] <= Due(calls[c], b) /\ ran'[b] \in Nat
             /\ b \in calls[c].billed /\ ran'[b] # ran[b] => ran'[b] = ran[b] + 1
             /\ b \notin calls[c].billed => ran'[b] = ran[b]
  <2>1. ran'[b] = IF calls[c].status # "HARD" /\ b \in calls[c].billed THEN ran[b] + 1 ELSE ran[b]
    BY DEF Answer
  <2>2. ran[b] \in Nat
    BY Counts
  <2> QED
    BY <2>1, <2>2 DEF Due
<1>9. ASSUME NEW b \in Budgets
      PROVE  ran'[b] <= disk'[b].count /\ ran'[b] <= trackers'[b].count
  <2>1. /\ ran[b] \in Nat /\ snap[c][b].count \in Nat /\ disk[b].count \in Nat
        /\ trackers[b].count \in Nat /\ Scope(b) \in {"session", "request"}
    BY Counts DEF Writers, Scope
  <2>2. /\ Due(calls[c], b) <= snap[c][b].count
        /\ Scope(b) = "session" => Due(calls[c], b) <= disk[b].count
    BY <1>1 DEF CountInv, Served
  <2>3. Due(calls[c], b) \in Nat
    BY <2>1 DEF Due
  <2>4. Due(calls[c], b) <= trackers[b].count
    <3>1. ran[b] <= trackers[b].count
      BY <1>3 DEF CountInv, NoneLost
    <3>2. b \in calls[c].billed => ran[b] + 1 <= trackers[b].count
      BY <1>1 DEF CountInv, Served
    <3> QED
      BY <3>1, <3>2 DEF Due
  <2>5. ran'[b] <= trackers'[b].count
    BY <1>6, <1>8, <2>1, <2>3, <2>4
  <2>6. CASE Scope(b) = "session"
    BY <1>6, <1>8, <2>1, <2>2, <2>3, <2>5, <2>6
  <2>7. CASE Scope(b) = "request"
    BY <1>6, <1>8, <2>1, <2>2, <2>3, <2>5, <2>7
  <2> QED
    BY <2>1, <2>6, <2>7
<1>a. Undisturbed' /\ LoadFirst'
  BY <1>2, <1>3, <1>4, IdleIs DEF CountInv, Undisturbed, LoadFirst, loading
<1>b. NoneLost'
  BY <1>2, <1>3, <1>7, <1>9 DEF NoneLost, loading
<1>c. ASSUME NEW d \in Calls
      PROVE  Served(d)'
  <2>1. CASE d = c
    BY <1>4, <2>1, IdleIs DEF Served
  <2>2. CASE d # c
    BY <1>4, <1>5, <2>2 DEF Served, CountInv
  <2> QED
    BY <2>1, <2>2
<1>d. BudgetHolds'
  <2> SUFFICES ASSUME NEW b \in Budgets, \A p \in Policies : Limit(p, b) > 0
               PROVE  \E p \in Policies : ran'[b] < Limit(p, b)
    BY DEF BudgetHolds
  <2>1. CASE ran'[b] = ran[b]
    BY <2>1 DEF CountInv, BudgetHolds
  <2>2. CASE ran'[b] # ran[b]
    <3>1. b \in calls[c].billed /\ calls[c].status # "HARD" /\ ran'[b] = ran[b] + 1
      BY <1>8, <2>2
    <3>2. ran[b] + 1 < Limit(calls[c].policy, b) /\ calls[c].policy \in Policies
      BY <1>1, <3>1, BusyFields DEF CountInv, Served
    <3> QED
      BY <3>1, <3>2
  <2> QED
    BY <2>1, <2>2
<1> QED
  BY <1>a, <1>b, <1>c, <1>d DEF CountInv

LEMMA StartLoadCounts ==
  ASSUME TypeOK, CountInv, NEW c \in Calls, StartLoad(c)
  PROVE  CountInv'
<1>1. /\ queue # <<>> /\ Head(queue) = c /\ init = "new" /\ init' = "loading" /\ loader' = c
      /\ c # Startup
  BY LimitAssumption DEF StartLoad, Serving
<1>2. UNCHANGED <<overlay, marker, lastSeen, buffer, trackers, files, snap, queue, calls, cli,
                  clearer, history>>
  BY DEF StartLoad
<1>3. Undisturbed' /\ LoadFirst'
  BY <1>1, <1>2 DEF CountInv, Undisturbed, LoadFirst
<1>4. NoneLost'
  BY <1>1, <1>2 DEF CountInv, NoneLost, files, history
<1>5. (\A c1 \in Calls : Served(c1)') /\ BudgetHolds'
  BY <1>2 DEF CountInv, Served, Due, BudgetHolds, files, history
<1> QED
  BY <1>3, <1>4, <1>5 DEF CountInv

LEMMA LoadCounts ==
  ASSUME TypeOK, CountInv, Load
  PROVE  CountInv'
<1>1. /\ init \in {"loading", "half", "failed"} /\ loader' = loader
      /\ UNCHANGED <<config, marker, lastSeen, files, snap, queue, calls, cli, clearer, history>>
  BY DEF Load, LoadSessions, LoadRequests
<1>2. \A c \in Calls : calls[c].pc \in {"idle", "queued"}
  BY <1>1 DEF CountInv, LoadFirst
<1>3. init' \in {"half", "failed", "done"}
  BY DEF Load, LoadSessions, LoadRequests
<1>4. Undisturbed' /\ LoadFirst'
  BY <1>1, <1>2, <1>3 DEF CountInv, Undisturbed, LoadFirst
<1>5. \A c \in Calls : Served(c)'
  BY <1>1, <1>2 DEF CountInv, Served
<1>6. BudgetHolds'
  BY <1>1 DEF CountInv, BudgetHolds, history
<1>7. ran' = ran /\ disk' = disk /\ torn' = torn
  BY <1>1 DEF history, files
<1>8. NoneLost'
  <2>1. CASE LoadSessions
    <3>1. /\ init' = IF "session" \in torn THEN "failed" ELSE "half"
          /\ buffer' = IF "session" \in torn THEN Empty ELSE Wiped(disk, {"request"})
      BY <2>1 DEF LoadSessions
    <3>2. CASE "session" \in torn
      BY <1>7, <3>1, <3>2 DEF CountInv, NoneLost
    <3>3. CASE "session" \notin torn
      <4>1. \A b \in Budgets : Scope(b) = "session" => buffer'[b] = disk[b]
        BY <3>1, <3>3 DEF Wiped
      <4> QED
        BY <1>7, <3>1, <3>3, <4>1 DEF CountInv, NoneLost
    <3> QED
      BY <3>2, <3>3
  <2>2. CASE LoadRequests
    <3>1. init' = "done" /\ init \in {"half", "failed"}
      BY <2>2 DEF LoadRequests
    <3>2. ASSUME NEW b \in Budgets
          PROVE  ran[b] <= trackers'[b].count
      <4>1. trackers'[b] = IF Scope(b) = "session" THEN buffer[b]
                           ELSE IF init = "half" /\ "request" \notin torn THEN disk[b]
                           ELSE Fresh
        BY <2>2 DEF LoadRequests
      <4>2. Scope(b) \in {"session", "request"} /\ buffer[b].count \in Nat
        BY Counts DEF Scope
      <4>3. CASE init = "failed"
        <5>1. ran[b] = 0
          BY <4>3 DEF CountInv, NoneLost
        <5> QED
          BY <4>1, <4>2, <4>3, <5>1, FreshType
      <4>4. CASE init = "half" /\ Scope(b) = "session"
        BY <4>1, <4>4 DEF CountInv, NoneLost
      <4>5. CASE init = "half" /\ Scope(b) = "request" /\ "request" \notin torn
        BY <4>1, <4>5 DEF CountInv, NoneLost
      <4>6. CASE init = "half" /\ Scope(b) = "request" /\ "request" \in torn
        <5>1. ran[b] = 0
          BY <4>6 DEF CountInv, NoneLost
        <5> QED
          BY <4>1, <4>6, <5>1, FreshType
      <4> QED
        BY <3>1, <4>2, <4>3, <4>4, <4>5, <4>6
    <3> QED
      BY <1>7, <3>1, <3>2 DEF CountInv, NoneLost
  <2> QED
    BY <2>1, <2>2 DEF Load
<1> QED
  BY <1>4, <1>5, <1>6, <1>8 DEF CountInv

LEMMA ArriveCounts ==
  ASSUME NoResets, TypeOK, CountInv, NEW c \in Calls, NEW s \in Sessions, NEW r \in Requests,
         NEW t \in Tools, Arrive(c, s, r, t)
  PROVE  CountInv'
<1>1. PICK x \in Busy : Goes(c, x) /\ x.pc = "queued" /\ x.billed = {}
  BY ArriveTypes
<1>2. calls'[c] = x /\ \A d \in Calls : d # c => calls'[d] = calls[d]
  BY <1>1, GoesIs DEF TypeOK, Busy
<1>3. /\ queue' = Append(queue, c)
      /\ (init # "done" /\ loader = Startup => init = "new")
      /\ UNCHANGED <<config, marker, lastSeen, loading, trackers, files, snap, cli, clearer, history>>
  BY DEF Arrive, NoResets
<1>4. queue \in Seq(Calls) /\ queue' # <<>> /\ (queue # <<>> => Head(queue') = Head(queue))
  BY <1>3 DEF TypeOK, ChainTypeOK
<1>5. Undisturbed'
  BY <1>1, <1>2, <1>3 DEF CountInv, Undisturbed
<1>6. LoadFirst'
  BY <1>1, <1>2, <1>3, <1>4 DEF CountInv, LoadFirst, loading
<1>7. NoneLost' /\ BudgetHolds'
  BY <1>3 DEF CountInv, NoneLost, BudgetHolds, loading, files, history
<1>8. ASSUME NEW d \in Calls
      PROVE  Served(d)'
  <2>1. CASE d = c
    BY <1>1, <1>2, <2>1 DEF Served
  <2>2. CASE d # c
    BY <1>2, <1>3, <2>2 DEF Served, Due, CountInv, files, history
  <2> QED
    BY <2>1, <2>2
<1> QED
  BY <1>5, <1>6, <1>7, <1>8 DEF CountInv

LEMMA ConfigCounts ==
  ASSUME NoResets, TypeOK, CountInv,
         (\E p \in Policies : Initialize(p) \/ UpdateConfig(p)) \/ ReloadConfig \/ UNCHANGED vars
  PROVE  CountInv'
<1>1. UNCHANGED <<marker, lastSeen, buffer, trackers, disk, torn, snap, queue, calls, cli, clearer,
                  ran, owed>>
  BY DEF NoResets, Initialize, UpdateConfig, ReloadConfig, files, loading, history, vars
<1>2. \/ UNCHANGED <<init, loader>>
      \/ init = "new" /\ queue = <<>> /\ init' = "loading" /\ loader' = Startup
  BY DEF NoResets, Initialize, UpdateConfig, ReloadConfig, loading, vars
<1>3. Undisturbed'
  BY <1>1 DEF CountInv, Undisturbed
<1>4. LoadFirst'
  BY <1>1, <1>2 DEF CountInv, LoadFirst
<1>5. NoneLost' /\ BudgetHolds'
  BY <1>1, <1>2 DEF CountInv, NoneLost, BudgetHolds
<1>6. \A d \in Calls : Served(d)'
  BY <1>1 DEF CountInv, Served, Due
<1> QED
  BY <1>3, <1>4, <1>5, <1>6 DEF CountInv

LEMMA WindowCounts ==
  ASSUME TypeOK, CountInv, NEW b \in Budgets, WindowEnds(b)
  PROVE  CountInv'
<1>1. /\ \A d \in Budgets : IF d = b THEN ran'[d] = 0 ELSE ran'[d] = ran[d]
      /\ \A c \in Calls : calls'[c] = Idle <=> calls[c] = Idle
      /\ \A c \in Calls : calls[c] # Idle =>
           /\ calls'[c].pc = calls[c].pc /\ calls'[c].status = calls[c].status
           /\ calls'[c].policy = calls[c].policy
           /\ calls'[c].billed = calls[c].billed \ {b}
  BY ForgottenIs DEF WindowEnds
<1>2. UNCHANGED <<config, marker, lastSeen, init, loader, torn, queue, cli, clearer>>
  BY DEF WindowEnds
<1>3. \A d \in Budgets :
        /\ trackers'[d] = IF d = b THEN Fresh ELSE trackers[d]
        /\ disk'[d] = IF d = b THEN Fresh ELSE disk[d]
        /\ buffer'[d] = IF d = b THEN Fresh ELSE buffer[d]
        /\ \A w \in Writers : snap'[w][d] = IF d = b THEN Fresh ELSE snap[w][d]
  <2>1. /\ trackers' = [trackers EXCEPT ![b] = Fresh] /\ disk' = [disk EXCEPT ![b] = Fresh]
        /\ buffer' = [buffer EXCEPT ![b] = Fresh]
        /\ \A w \in Writers : snap'[w] = [snap[w] EXCEPT ![b] = Fresh]
    BY DEF WindowEnds, Writers
  <2>2. CopyTypes
    BY TypeIs
  <2> QED
    BY <2>1, <2>2 DEF CopyTypes, Copies
<1>4. \A c \in Calls : calls'[c].pc = calls[c].pc
  BY <1>1
<1>5. Undisturbed' /\ LoadFirst'
  BY <1>2, <1>4 DEF CountInv, Undisturbed, LoadFirst
<1>6. NoneLost'
  BY <1>1, <1>2, <1>3, FreshType DEF CountInv, NoneLost
<1>7. BudgetHolds'
  <2> SUFFICES ASSUME NEW d \in Budgets, \A p \in Policies : Limit(p, d) > 0
               PROVE  \E p \in Policies : ran'[d] < Limit(p, d)
    BY DEF BudgetHolds
  <2>1. CASE d = b
    <3>1. ran'[d] = 0 /\ Limit(Default, d) > 0 /\ Default \in Policies
      BY <1>1, <2>1, LimitAssumption
    <3> QED
      BY <3>1
  <2>2. CASE d # b
    BY <1>1, <2>2 DEF CountInv, BudgetHolds
  <2> QED
    BY <2>1, <2>2
<1>8. ASSUME NEW c \in Calls
      PROVE  Served(c)'
  <2>1. CASE calls[c] = Idle
    BY <1>1, <2>1, IdleIs DEF Served
  <2>2. CASE calls[c] # Idle
    <3>1. /\ calls'[c].pc = calls[c].pc /\ calls'[c].status = calls[c].status
          /\ calls'[c].policy = calls[c].policy
          /\ calls'[c].billed = calls[c].billed \ {b}
      BY <1>1, <2>2
    <3>2. calls'[c].pc = "queued" => calls'[c].billed = {}
      BY <3>1 DEF CountInv, Served
    <3>3. ASSUME calls'[c].pc \in {"recording", "saving", "saved"}, NEW d \in Budgets,
                 d \in calls'[c].billed
          PROVE  /\ ran'[d] + 1 <= trackers'[d].count
                 /\ calls'[c].status # "HARD" => ran'[d] + 1 < Limit(calls'[c].policy, d)
      <4>1. d # b /\ d \in calls[c].billed
        BY <3>1, <3>3
      <4> QED
        BY <1>1, <1>3, <3>1, <3>3, <4>1 DEF CountInv, Served
    <3>4. ASSUME NEW d \in Budgets
          PROVE  Due(calls[c], d)' = IF d = b THEN 0 ELSE Due(calls[c], d)
      BY <1>1, <3>1 DEF Due
    <3>5. ASSUME calls'[c].pc \in {"saving", "saved"}, NEW d \in Budgets
          PROVE  Due(calls[c], d)' <= snap'[c][d].count
      <4>1. c \in Writers
        BY DEF Writers
      <4>2. Due(calls[c], d) <= snap[c][d].count
        BY <3>1, <3>5 DEF CountInv, Served
      <4> QED
        BY <1>3, <3>4, <4>1, <4>2, FreshType
    <3>6. ASSUME calls'[c].pc = "saved"
          PROVE  /\ "session" \notin torn'
                 /\ \A d \in Budgets : Scope(d) = "session" => Due(calls[c], d)' <= disk'[d].count
      <4>1. /\ "session" \notin torn
            /\ \A d \in Budgets : Scope(d) = "session" => Due(calls[c], d) <= disk[d].count
        BY <3>1, <3>6 DEF CountInv, Served
      <4> QED
        BY <1>2, <1>3, <3>4, <4>1, FreshType
    <3> QED
      BY <3>2, <3>3, <3>5, <3>6 DEF Served
  <2> QED
    BY <2>1, <2>2
<1> QED
  BY <1>5, <1>6, <1>7, <1>8 DEF CountInv

LEMMA RestartCounts ==
  ASSUME TypeOK, CountInv, Restart
  PROVE  CountInv'
<1>1. /\ lastSeen' = 0 /\ init' = "new" /\ disk' = disk /\ cli' = cli /\ clearer' = "idle"
      /\ marker' = marker
      /\ \A c \in Calls : calls'[c] = Idle
  BY DEF Restart
<1>2. \A b \in Budgets : ran'[b] = IF Scope(b) \in Lost THEN 0 ELSE ran[b]
  BY DEF Restart
<1>3. Undisturbed' /\ LoadFirst'
  BY <1>1, IdleIs DEF CountInv, Undisturbed, LoadFirst
<1>4. NoneLost'
  <2>1. ASSUME NEW b \in Budgets
        PROVE  /\ ran'[b] <= disk'[b].count
               /\ "session" \in torn' => ran'[b] = 0
               /\ Scope(b) \in torn' => ran'[b] = 0
    <3>1. /\ Scope(b) \in Scopes /\ disk[b].count \in Nat /\ ran[b] \in Nat
          /\ ran[b] <= disk[b].count
      BY Counts DEF Scope, Scopes, CountInv, NoneLost
    <3>2. ("session" \in torn' => Scope(b) \in Lost) /\ (Scope(b) \in torn' => Scope(b) \in Lost)
      BY <3>1 DEF Lost
    <3> QED
      BY <1>1, <1>2, <3>1, <3>2
  <2> QED
    BY <1>1, <2>1 DEF NoneLost
<1>5. \A c \in Calls : Served(c)'
  BY <1>1, IdleIs DEF Served
<1>6. BudgetHolds'
  <2> SUFFICES ASSUME NEW b \in Budgets, \A p \in Policies : Limit(p, b) > 0
               PROVE  \E p \in Policies : ran'[b] < Limit(p, b)
    BY DEF BudgetHolds
  <2>1. CASE ran'[b] = 0
    BY <2>1, LimitAssumption
  <2>2. CASE ran'[b] = ran[b]
    BY <2>2 DEF CountInv, BudgetHolds
  <2> QED
    BY <1>2, <2>1, <2>2
<1> QED
  BY <1>3, <1>4, <1>5, <1>6 DEF CountInv

LEMMA CountStep ==
  ASSUME NoResets, TypeOK, CountInv, [Next]_vars
  PROVE  CountInv'
<1>1. \A c \in Calls : ~EnterReset(c) /\ ~FinishReset(c)
  BY DEF EnterReset, ResetDue, FinishReset, Serving, CountInv, Undisturbed
<1>2. ~Cli
  <2>1. \A scope \in ResetScopes : ~CliStart(scope)
    BY DEF CliStart, NoResets, TypeOK
  <2>2. cli.pc = "idle"
    BY DEF CountInv, Undisturbed
  <2> QED
    BY <2>1, <2>2 DEF Cli, CliRemove, CliMark
<1>3. ~ClearSave /\ \A B : ~Clear(B)
  BY DEF ClearSave, Clear, NoResets, CountInv, Undisturbed
<1>4. ASSUME NEW c \in Calls, Serve(c)
      PROVE  CountInv'
  BY <1>1, <1>4, StartLoadCounts, EnterCounts, SaveCounts, ChargeCounts, AnswerCounts DEF Serve
<1>5. CASE Load
  BY <1>5, LoadCounts
<1>6. CASE \E c \in Calls, s \in Sessions, r \in Requests, t \in Tools : Arrive(c, s, r, t)
  BY <1>6, ArriveCounts
<1>7. CASE (\E p \in Policies : Initialize(p) \/ UpdateConfig(p)) \/ ReloadConfig \/ UNCHANGED vars
  BY <1>7, ConfigCounts
<1>8. CASE \E b \in Budgets : WindowEnds(b)
  BY <1>8, WindowCounts
<1>9. CASE Restart
  BY <1>9, RestartCounts
<1> QED
  BY <1>2, <1>3, <1>4, <1>5, <1>6, <1>7, <1>8, <1>9 DEF Next

\* Through crashes in the middle of a save, unreadable files and restarts: a
\* call that was let through is in the files and, once loaded, in the Maps; and
\* no budget lets more calls through than the largest limit allows.
THEOREM DurableCorrect ==
  NoResets => (Spec => [](SavedBeforeAnswered /\ CountsEveryCall /\ BudgetHolds))
<1> SUFFICES ASSUME NoResets
             PROVE  Spec => [](SavedBeforeAnswered /\ CountsEveryCall /\ BudgetHolds)
  OBVIOUS
<1>1. Init => CountInv
  BY InitCounts
<1>2. TypeOK /\ CountInv /\ [Next]_vars => CountInv'
  BY CountStep
<1>3. CountInv => SavedBeforeAnswered /\ CountsEveryCall /\ BudgetHolds
  BY DEF CountInv, NoneLost, SavedBeforeAnswered, CountsEveryCall
<1> QED
  BY <1>1, <1>2, <1>3, TypeCorrect, PTL DEF Spec

\* A call is answered as let through only when its charge is on disk.
THEOREM SavedCorrect == NoResets => (Spec => []SavedBeforeAnswered)
<1> QED
  BY DurableCorrect, PTL

\* Every call that was let through is counted, in the Maps and on disk.
THEOREM CountedCorrect == NoResets => (Spec => []CountsEveryCall)
<1> QED
  BY DurableCorrect, PTL

\* No budget is exceeded, however calls, crashes and reloads interleave.
THEOREM BudgetCorrect == NoResets => (Spec => []BudgetHolds)
<1> QED
  BY DurableCorrect, PTL

(***************************************************************************)
(* Resets, where each one is seen: the process has seen a marker before    *)
(* and lives on, and every reset is for all scopes.                        *)
(***************************************************************************)
EveryResetSeen == SawMarker /\ ~Restarts /\ ResetScopes \subseteq {"all"}

\* The call being served wipes all before it takes note of the marker, and is
\* charged under the marker it has taken note of.
Heeds(c) ==
  /\ calls[c].pc \in {"resetting", "reset"} =>
       /\ lastSeen < calls[c].seen /\ calls[c].seen <= marker.at
       /\ \A b \in Budgets : trackers[b].count = 0
  /\ calls[c].pc = "recording" => calls[c].seen = lastSeen

NothingComesBack ==
  lastSeen = marker.at => \A b \in Budgets : trackers[b].count <= owed[b]

ResetInv ==
  /\ init = "done"
  /\ marker.scope = "all" /\ cli.scope = "all"
  /\ lastSeen \in 1 .. marker.at
  /\ NothingComesBack
  /\ \A c \in Calls : Heeds(c)

LEMMA HeedsAsBefore ==
  ASSUME NEW c \in Calls, Heeds(c), UNCHANGED <<lastSeen, marker, trackers>>,
         calls'[c].pc = calls[c].pc, calls'[c].seen = calls[c].seen
  PROVE  Heeds(c)'
BY DEF Heeds

LEMMA WaitingHeeds ==
  ASSUME NEW c \in Calls, calls'[c].pc \in {"idle", "queued", "saving", "saved"}
  PROVE  Heeds(c)'
BY DEF Heeds

\* A charge under the marker in force is owed.
LEMMA BillOwes ==
  ASSUME TypeOK, NEW c \in Calls, calls[c] \in Busy, NEW scope, NEW pc, NEW seen, NEW gathered,
         Bill(c, scope, pc, seen, gathered)
  PROVE  /\ calls'[c].pc = pc /\ calls'[c].seen = seen
         /\ \A d \in Calls : d # c => calls'[d] = calls[d]
         /\ \A b \in Budgets : seen = marker.at /\ trackers[b].count <= owed[b]
                                 => trackers'[b].count <= owed'[b]
<1> DEFINE B == Billed(calls[c], scope)
<1>1. /\ \A b \in Budgets : trackers'[b] = IF b \in B
                                           THEN Enforced(trackers[b], Limit(calls[c].policy, b))
                                           ELSE trackers[b]
      /\ \A b \in Budgets : seen = marker.at => owed'[b] = IF b \in B THEN owed[b] + 1 ELSE owed[b]
  BY DEF Bill
<1>2. ASSUME NEW b \in Budgets, seen = marker.at, trackers[b].count <= owed[b]
      PROVE  trackers'[b].count <= owed'[b]
  <2>1. trackers[b].count \in Nat /\ owed[b] \in Nat
    BY DEF TypeOK, Tracker
  <2>2. Enforced(trackers[b], Limit(calls[c].policy, b)).count = trackers[b].count + 1
    BY DEF Enforced
  <2> HIDE DEF B
  <2>3. CASE b \in B
    BY <1>1, <1>2, <2>1, <2>2, <2>3
  <2>4. CASE b \notin B
    BY <1>1, <1>2, <2>4
  <2> QED
    BY <2>3, <2>4
<1>3. PICK status, billed : Goes(c, At(calls[c], pc, status, seen, billed))
  BY DEF Bill
<1>4. calls \in [Calls -> Call]
  BY DEF TypeOK
<1>5. calls'[c] = At(calls[c], pc, status, seen, billed) /\ \A d \in Calls : d # c => calls'[d] = calls[d]
  BY <1>3, <1>4 DEF Goes
<1>6. calls'[c].pc = pc /\ calls'[c].seen = seen
  BY <1>5 DEF At
<1> QED
  BY <1>2, <1>5, <1>6

\* Who is not in front waits.
LEMMA RestWaits ==
  ASSUME TypeOK, NEW c \in Calls, Head(queue) = c, NEW d \in Calls, d # c
  PROVE  calls[d].pc \in {"idle", "queued"}
<1>1. calls[d] = Idle \/ calls[d].pc = "queued"
  BY ServedInFront DEF TypeOK
<1> QED
  BY <1>1, IdleIs

LEMMA EnterHeeds ==
  ASSUME TypeOK, ResetInv, NEW c \in Calls, Enter(c)
  PROVE  ResetInv'
<1>1. calls[c] \in Busy /\ Head(queue) = c
  BY ServingIs DEF Enter
<1>2. marker.at = lastSeen
  BY DEF Enter, ResetDue, ResetInv, TypeOK
<1>3. Bill(c, "session", "recording", marker.at, Empty)
  BY DEF Enter
<1>4. /\ calls'[c].pc = "recording" /\ calls'[c].seen = marker.at
      /\ \A d \in Calls : d # c => calls'[d] = calls[d]
      /\ \A b \in Budgets : trackers[b].count <= owed[b] => trackers'[b].count <= owed'[b]
  BY <1>1, <1>3, BillOwes
<1>5. lastSeen' = marker.at /\ marker' = marker /\ init' = init /\ cli' = cli
  BY DEF Enter, loading
<1>6. \A d \in Calls : Heeds(d)'
  <2>1. Heeds(c)'
    BY <1>4, <1>5 DEF Heeds
  <2>2. ASSUME NEW d \in Calls, d # c
        PROVE  Heeds(d)'
    BY <1>1, <1>4, <2>2, RestWaits, WaitingHeeds
  <2> QED
    BY <2>1, <2>2
<1>7. NothingComesBack'
  BY <1>2, <1>4 DEF ResetInv, NothingComesBack
<1> QED
  BY <1>2, <1>5, <1>6, <1>7 DEF ResetInv

LEMMA EnterResetHeeds ==
  ASSUME TypeOK, ResetInv, NEW c \in Calls, EnterReset(c)
  PROVE  ResetInv'
<1>1. calls[c] \in Busy /\ Head(queue) = c
  BY ServingIs DEF EnterReset
<1>2. lastSeen \in Nat /\ marker.at \in Nat /\ lastSeen < marker.at
  <2>1. marker.at \in Nat /\ lastSeen \in 1 .. marker.at
    BY DEF ResetInv, TypeOK
  <2>2. lastSeen # marker.at
    BY DEF EnterReset, ResetDue
  <2> QED
    BY <2>1, <2>2
<1>3. /\ calls' = [calls EXCEPT ![c] = At(calls[c], "resetting", "OK", marker.at, {})]
      /\ calls \in [Calls -> Call]
  BY DEF EnterReset, Goes, TypeOK
<1>4. /\ calls'[c].pc = "resetting" /\ calls'[c].seen = marker.at
      /\ \A d \in Calls : d # c => calls'[d] = calls[d]
  BY <1>3 DEF At
<1>5. lastSeen' = lastSeen /\ marker' = marker /\ init' = init /\ cli' = cli
  BY DEF EnterReset, loading
<1>6. \A b \in Budgets : trackers'[b].count = 0
  <2>1. Covered(marker.scope) = Scopes
    BY DEF ResetInv, Covered
  <2>2. \A b \in Budgets : Scope(b) \in Scopes
    BY DEF Scope, Scopes
  <2>3. \A b \in Budgets : trackers'[b] = Fresh
    BY <2>1, <2>2 DEF EnterReset, ApplyReset, Wiped
  <2> QED
    BY <2>3 DEF Fresh
<1>7. \A d \in Calls : Heeds(d)'
  <2>1. Heeds(c)'
    BY <1>2, <1>4, <1>5, <1>6 DEF Heeds
  <2>2. ASSUME NEW d \in Calls, d # c
        PROVE  Heeds(d)'
    BY <1>1, <1>4, <2>2, RestWaits, WaitingHeeds
  <2> QED
    BY <2>1, <2>2
<1>8. NothingComesBack'
  BY <1>2, <1>5 DEF NothingComesBack
<1> QED
  BY <1>2, <1>5, <1>7, <1>8 DEF ResetInv

LEMMA FinishResetHeeds ==
  ASSUME TypeOK, ResetInv, NEW c \in Calls, FinishReset(c)
  PROVE  ResetInv'
<1>1. calls[c] \in Busy /\ Head(queue) = c /\ calls[c].pc = "reset"
  BY ServingIs DEF FinishReset
<1> DEFINE seen == calls[c].seen
<1>2. Bill(c, "session", "recording", seen, Empty)
  BY DEF FinishReset
<1>3. lastSeen' = seen /\ marker' = marker /\ init' = init /\ cli' = cli
  BY DEF FinishReset, loading
<1>4. seen \in Nat /\ lastSeen < seen /\ seen <= marker.at /\ \A b \in Budgets : trackers[b].count = 0
  BY <1>1, BusyFields DEF ResetInv, Heeds
<1> HIDE DEF seen
<1>5. /\ calls'[c].pc = "recording" /\ calls'[c].seen = seen
      /\ \A d \in Calls : d # c => calls'[d] = calls[d]
      /\ \A b \in Budgets : seen = marker.at /\ trackers[b].count <= owed[b]
                              => trackers'[b].count <= owed'[b]
  BY <1>1, <1>2, BillOwes
<1>6. \A d \in Calls : Heeds(d)'
  <2>1. Heeds(c)'
    BY <1>3, <1>5 DEF Heeds
  <2>2. ASSUME NEW d \in Calls, d # c
        PROVE  Heeds(d)'
    BY <1>1, <1>5, <2>2, RestWaits, WaitingHeeds
  <2> QED
    BY <2>1, <2>2
<1>7. NothingComesBack'
  <2>1. \A b \in Budgets : trackers[b].count <= owed[b]
    BY <1>4 DEF TypeOK
  <2> QED
    BY <1>3, <1>5, <2>1 DEF NothingComesBack
<1>8. lastSeen' \in 1 .. marker'.at
  BY <1>3, <1>4 DEF ResetInv, TypeOK
<1> QED
  BY <1>3, <1>6, <1>7, <1>8 DEF ResetInv

LEMMA ChargeHeeds ==
  ASSUME TypeOK, ResetInv, NEW c \in Calls, ChargeRequest(c)
  PROVE  ResetInv'
<1>1. calls[c] \in Busy /\ Head(queue) = c /\ calls[c].pc = "recording"
  BY ServingIs DEF ChargeRequest
<1> DEFINE seen == calls[c].seen
<1>2. Bill(c, "request", "saving", seen, trackers')
  BY DEF ChargeRequest
<1>3. seen = lastSeen
  BY <1>1 DEF ResetInv, Heeds
<1> HIDE DEF seen
<1>4. /\ calls'[c].pc = "saving"
      /\ \A d \in Calls : d # c => calls'[d] = calls[d]
      /\ \A b \in Budgets : seen = marker.at /\ trackers[b].count <= owed[b]
                              => trackers'[b].count <= owed'[b]
  BY <1>1, <1>2, BillOwes
<1>5. lastSeen' = lastSeen /\ marker' = marker /\ init' = init /\ cli' = cli
  BY DEF ChargeRequest, loading
<1>6. \A d \in Calls : Heeds(d)'
  <2>1. Heeds(c)'
    BY <1>4, WaitingHeeds
  <2>2. ASSUME NEW d \in Calls, d # c
        PROVE  Heeds(d)'
    BY <1>1, <1>4, <2>2, RestWaits, WaitingHeeds
  <2> QED
    BY <2>1, <2>2
<1>7. NothingComesBack'
  BY <1>3, <1>4, <1>5 DEF ResetInv, NothingComesBack
<1> QED
  BY <1>5, <1>6, <1>7 DEF ResetInv

\* Steps that neither charge nor wipe.
LEMMA CalmHeeds ==
  ASSUME TypeOK, ResetInv,
         (\E c \in Calls : SaveSessions(c) \/ Answer(c)) \/ ClearSave \/ ReloadConfig \/ UNCHANGED vars
           \/ (\E p \in Policies : UpdateConfig(p))
           \/ (\E c \in Calls, s \in Sessions, r \in Requests, t \in Tools : Arrive(c, s, r, t))
           \/ (\E scope \in ResetScopes : CliStart(scope) /\ scope = "all")
           \/ (\E scope, pc, next : CliRemove(scope, pc, next))
  PROVE  ResetInv'
<1>1. /\ UNCHANGED <<lastSeen, marker, trackers, init, owed>> /\ cli'.scope = "all"
  <2>1. cli.scope = "all"
    BY DEF ResetInv
  <2>2. CASE \E c \in Calls : SaveSessions(c) \/ Answer(c)
    BY <2>1, <2>2 DEF SaveSessions, Answer, loading, history, config
  <2>3. CASE ClearSave \/ ReloadConfig \/ UNCHANGED vars \/ \E p \in Policies : UpdateConfig(p)
    BY <2>1, <2>3 DEF ClearSave, ReloadConfig, UpdateConfig, vars, loading, history
  <2>4. CASE \E c \in Calls, s \in Sessions, r \in Requests, t \in Tools : Arrive(c, s, r, t)
    BY <2>1, <2>4 DEF Arrive, loading, history
  <2>5. CASE \E scope \in ResetScopes : CliStart(scope) /\ scope = "all"
    BY <2>5 DEF CliStart, loading, history
  <2>6. CASE \E scope, pc, next : CliRemove(scope, pc, next)
    <3>1. cli'.scope = cli.scope
      BY <2>6 DEF CliRemove, TypeOK
    <3> QED
      BY <2>1, <2>6, <3>1 DEF CliRemove, loading, history
  <2> QED
    BY <2>2, <2>3, <2>4, <2>5, <2>6
<1>2. calls \in [Calls -> Call]
  BY DEF TypeOK
<1>3. ASSUME NEW d \in Calls
      PROVE  Heeds(d)'
  <2>1. Heeds(d)
    BY DEF ResetInv
  <2>2. CASE calls'[d] = calls[d]
    BY <1>1, <2>1, <2>2, HeedsAsBefore
  <2>3. ASSUME NEW c \in Calls, SaveSessions(c), d = c
        PROVE  Heeds(d)'
    <3>1. /\ Serving(c, "resetting") \/ Serving(c, "saving")
          /\ \/ calls[c].pc = "resetting" /\ Goes(c, [calls[c] EXCEPT !.pc = "reset"])
             \/ calls[c].pc = "saving" /\ Goes(c, [calls[c] EXCEPT !.pc = "saved"])
      BY <2>3 DEF SaveSessions, Serving
    <3>2. calls[c] \in Busy
      BY <3>1, ServingIs
    <3>3. calls[c] \in [pc : {"queued", "resetting", "reset", "recording", "saving", "saved"},
              session : Sessions, request : Requests, tool : Tools, policy : Policies,
              status : {"OK", "SOFT", "HARD"}, seen : Nat, billed : SUBSET Budgets]
      BY <3>2 DEF Busy, Call
    <3>4. CASE calls[c].pc = "resetting" /\ Goes(c, [calls[c] EXCEPT !.pc = "reset"])
      <4>1. calls'[c].pc = "reset" /\ calls'[c].seen = calls[c].seen
        BY <1>2, <3>3, <3>4 DEF Goes
      <4> QED
        BY <1>1, <2>1, <2>3, <3>4, <4>1 DEF Heeds
    <3>5. CASE calls[c].pc = "saving" /\ Goes(c, [calls[c] EXCEPT !.pc = "saved"])
      <4>1. calls'[c].pc = "saved"
        BY <1>2, <3>3, <3>5 DEF Goes
      <4> QED
        BY <2>3, <4>1, WaitingHeeds
    <3> QED
      BY <3>1, <3>4, <3>5
  <2>4. ASSUME NEW c \in Calls, Answer(c), d = c
        PROVE  Heeds(d)'
    <3>1. calls'[d].pc = "idle"
      BY <1>2, <2>4, IdleIs DEF Answer, Goes
    <3> QED
      BY <3>1, WaitingHeeds
  <2>5. ASSUME NEW c \in Calls, NEW s \in Sessions, NEW r \in Requests, NEW t \in Tools,
               Arrive(c, s, r, t), d = c
        PROVE  Heeds(d)'
    <3>1. PICK x \in Busy : Goes(c, x) /\ x.pc = "queued" /\ x.billed = {}
      BY <2>5, ArriveTypes
    <3>2. calls'[d].pc = "queued"
      BY <1>2, <2>5, <3>1 DEF Goes
    <3> QED
      BY <3>2, WaitingHeeds
  <2>6. CASE ClearSave \/ ReloadConfig \/ UNCHANGED vars \/ (\E p \in Policies : UpdateConfig(p))
               \/ (\E scope \in ResetScopes : CliStart(scope) /\ scope = "all")
               \/ (\E scope, pc, next : CliRemove(scope, pc, next))
    <3>1. calls' = calls
      BY <2>6 DEF ClearSave, ReloadConfig, UpdateConfig, CliStart, CliRemove, vars
    <3> QED
      BY <2>2, <3>1
  <2>7. ASSUME NEW c \in Calls, SaveSessions(c) \/ Answer(c), d # c
        PROVE  calls'[d] = calls[d]
    BY <1>2, <2>7 DEF SaveSessions, Answer, Goes
  <2>8. ASSUME NEW c \in Calls, NEW s \in Sessions, NEW r \in Requests, NEW t \in Tools,
               Arrive(c, s, r, t), d # c
        PROVE  calls'[d] = calls[d]
    BY <1>2, <2>8 DEF Arrive, Goes
  <2> QED
    BY <2>2, <2>3, <2>4, <2>5, <2>6, <2>7, <2>8
<1>4. NothingComesBack'
  BY <1>1 DEF ResetInv, NothingComesBack
<1> QED
  BY <1>1, <1>3, <1>4 DEF ResetInv

\* What is forgotten leaves the calls where they are.
LEMMA ForgottenStays ==
  ASSUME TypeOK, NEW B, Forgotten(B), NEW c \in Calls
  PROVE  calls'[c].pc = calls[c].pc /\ (calls[c] # Idle => calls'[c].seen = calls[c].seen)
BY DEF Forgotten, At

LEMMA MarkHeeds ==
  ASSUME TypeOK, ResetInv, CliMark
  PROVE  ResetInv'
<1>1. /\ marker' = [at |-> marker.at + 1, scope |-> cli.scope] /\ cli'.scope = cli.scope
      /\ UNCHANGED <<lastSeen, trackers, init>>
  BY DEF CliMark, loading, TypeOK
<1>2. marker'.at = marker.at + 1 /\ marker'.scope = "all" /\ marker.at \in Nat /\ lastSeen \in 1 .. marker.at
  BY <1>1 DEF ResetInv, TypeOK
<1>3. ASSUME NEW c \in Calls
      PROVE  Heeds(c)'
  <2>1. Heeds(c)
    BY DEF ResetInv
  <2>2. calls'[c].pc = calls[c].pc /\ (calls[c] # Idle => calls'[c].seen = calls[c].seen)
    BY ForgottenStays DEF CliMark
  <2>3. CASE calls[c] = Idle
    BY <2>2, <2>3, IdleIs, WaitingHeeds
  <2>4. CASE calls[c] # Idle
    <3>1. calls[c].seen \in Nat
      BY <2>4, BusyFields DEF Busy, TypeOK
    <3> QED
      BY <1>1, <1>2, <2>1, <2>2, <2>4, <3>1 DEF Heeds
  <2> QED
    BY <2>3, <2>4
<1>4. NothingComesBack'
  BY <1>1, <1>2 DEF NothingComesBack
<1>5. lastSeen' \in 1 .. marker'.at
  BY <1>1, <1>2
<1> QED
  BY <1>1, <1>2, <1>3, <1>4, <1>5 DEF ResetInv

\* The trackers of B are wiped and forgotten, by a clear or by the window.
LEMMA WipeHeeds ==
  ASSUME TypeOK, ResetInv, NEW B, Forgotten(B),
         \A b \in Budgets : trackers'[b] = IF b \in B THEN Fresh ELSE trackers[b],
         UNCHANGED <<lastSeen, marker, init, cli>>
  PROVE  ResetInv'
<1>1. \A b \in Budgets : /\ b \in B => trackers'[b].count = 0 /\ owed'[b] = 0
                         /\ b \notin B => trackers'[b] = trackers[b] /\ owed'[b] = owed[b]
  BY DEF Fresh, Forgotten
<1>2. ASSUME NEW c \in Calls
      PROVE  Heeds(c)'
  <2>1. Heeds(c)
    BY DEF ResetInv
  <2>2. calls'[c].pc = calls[c].pc /\ (calls[c] # Idle => calls'[c].seen = calls[c].seen)
    BY ForgottenStays
  <2>3. CASE calls[c] = Idle
    BY <2>2, <2>3, IdleIs, WaitingHeeds
  <2>4. CASE calls[c] # Idle
    BY <1>1, <2>1, <2>2, <2>4 DEF Heeds
  <2> QED
    BY <2>3, <2>4
<1>3. NothingComesBack'
  BY <1>1 DEF ResetInv, NothingComesBack
<1> QED
  BY <1>2, <1>3 DEF ResetInv

LEMMA ResetStep ==
  ASSUME EveryResetSeen, TypeOK, ResetInv, [Next]_vars
  PROVE  ResetInv'
<1>1. ~Load /\ ~Restart /\ \A p \in Policies : ~Initialize(p)
  BY DEF Load, LoadSessions, LoadRequests, Restart, Initialize, EveryResetSeen, ResetInv
<1>2. ASSUME NEW c \in Calls, Serve(c)
      PROVE  ResetInv'
  <2>1. ~StartLoad(c)
    BY DEF StartLoad, ResetInv
  <2> QED
    BY <1>2, <2>1, EnterHeeds, EnterResetHeeds, FinishResetHeeds, ChargeHeeds, CalmHeeds DEF Serve
<1>3. CASE Cli
  <2>1. CASE \E scope \in ResetScopes : CliStart(scope)
    BY <2>1, CalmHeeds DEF EveryResetSeen
  <2>2. CASE CliMark
    BY <2>2, MarkHeeds
  <2>3. CASE \/ CliRemove("session", "sessions", IF cli.scope = "all" THEN "requests" ELSE "mark")
             \/ CliRemove("request", "requests", "mark")
    <3>1. \E scope, pc, next : CliRemove(scope, pc, next)
      BY <2>3, Zenon
    <3> QED
      BY <3>1, CalmHeeds
  <2> QED
    BY <1>3, <2>1, <2>2, <2>3 DEF Cli
<1>4. ASSUME NEW B, Clear(B)
      PROVE  ResetInv'
  BY <1>4, WipeHeeds DEF Clear, loading
<1>5. ASSUME NEW b \in Budgets, WindowEnds(b)
      PROVE  ResetInv'
  <2>1. \A d \in Budgets : trackers'[d] = IF d \in {b} THEN Fresh ELSE trackers[d]
    BY <1>5 DEF WindowEnds, TypeOK
  <2>2. Forgotten({b}) /\ UNCHANGED <<lastSeen, marker, init, cli>>
    BY <1>5 DEF WindowEnds
  <2> QED
    BY <2>1, <2>2, WipeHeeds
<1>6. CASE \/ ReloadConfig \/ ClearSave \/ UNCHANGED vars \/ \E p \in Policies : UpdateConfig(p)
           \/ \E c \in Calls, s \in Sessions, r \in Requests, t \in Tools : Arrive(c, s, r, t)
  BY <1>6, CalmHeeds
<1> QED
  BY <1>1, <1>2, <1>3, <1>4, <1>5, <1>6 DEF Next

\* ResetsHonoured, of applyReset and the check of the marker before it: for
\* any number of calls in flight while resets, clears and ends of windows come
\* in any order, nothing counted before a reset is held against the agent once
\* the reset has been seen.  It needs a process that has seen a marker before
\* (the first one a process meets is taken for an old one), that does not
\* restart between, and resets that do not replace one of another scope.
THEOREM ResetsCorrect == EveryResetSeen => (Spec => []ResetsHonoured)
<1> SUFFICES ASSUME EveryResetSeen
             PROVE  Spec => []ResetsHonoured
  OBVIOUS
<1>1. Init => ResetInv
  BY IdleIs, FreshType DEF Init, EveryResetSeen, ResetInv, NothingComesBack, Heeds, Empty
<1>2. TypeOK /\ ResetInv /\ [Next]_vars => ResetInv'
  BY ResetStep
<1>3. ResetInv => ResetsHonoured
  BY DEF ResetInv, NothingComesBack, ResetsHonoured
<1> QED
  BY <1>1, <1>2, <1>3, TypeCorrect, PTL DEF Spec
=============================================================================
