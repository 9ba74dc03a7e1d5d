------------------------- MODULE RoutingProxyProofs -------------------------
(***************************************************************************)
(* Proofs about RoutingProxy, for any number of requests, bodies and       *)
(* sessions, any fallback chains and any thresholds.                       *)
(***************************************************************************)
EXTENDS RoutingProxy, TLAPS

(***************************************************************************)
(* Types, but for the order of the sessions.                               *)
(***************************************************************************)
ProxyType ==
  /\ SessionsTypeOK
  /\ DedupTypeOK
  /\ calls \in [Requests -> Call]
  /\ \A r \in Requests :
       calls[r].pc = "forwarding" => calls[r].attempt <= Len(Chain[calls[r].tier])

SessionEntry ==
  [is : {"present"}, pin : Pin, strikes : 0..StrikeThreshold, last : Hash]

\* What the store's operations return is a session's entry, and a tier.
LEMMA FoundType ==
  ASSUME ProxyType, NEW s \in Sessions
  PROVE  Found(s) \in SessionEntry
BY StoreAssumption DEF ProxyType, SessionsTypeOK, Found, Entry, SessionEntry, Pin, Hash, NoEntry

LEMMA CheckedType ==
  ASSUME NEW e \in SessionEntry, NEW h \in Hashes, NEW tier \in Tiers
  PROVE  Checked(e, h, tier) \in SessionEntry
<1>1. Strikes(e, h) \in 0..StrikeThreshold
  BY StoreAssumption DEF Strikes, SessionEntry
<1>2. 0 \in 0..StrikeThreshold
  BY StoreAssumption
<1>3. [is |-> "hash", of |-> h] \in Hash
  BY DEF Hash
<1> QED
  BY <1>1, <1>2, <1>3 DEF Checked, Entry, SessionEntry, Pin

LEMMA RoutedType ==
  ASSUME NEW e \in SessionEntry, NEW h \in Hashes, NEW tier \in Tiers
  PROVE  RoutedTier(e, h, tier) \in Tiers
<1>1. EffectiveTier(e, h, tier) \in Tiers
  BY StoreAssumption DEF EffectiveTier, Escalates, Tiers
<1>2. CASE KeepsPin(e, h, tier)
  <2>1. e.pin.tier >= 1
    BY <1>1, <1>2, StoreAssumption DEF KeepsPin, Tiers, SessionEntry, Pin, Unpinned
  <2>2. e.pin \in [tier : Tiers, model : Models]
    BY <2>1 DEF SessionEntry, Pin, Unpinned
  <2> QED
    BY <1>2, <2>2 DEF RoutedTier
<1> QED
  BY <1>1, <1>2 DEF RoutedTier

LEMMA TouchType ==
  ASSUME ProxyType, NEW s \in Sessions, NEW e \in SessionEntry, Touch(s, e)
  PROVE  SessionsTypeOK'
BY DEF ProxyType, SessionsTypeOK, Touch, SessionEntry

LEMMA PinModelType ==
  ASSUME ProxyType, NEW s \in Sessions, NEW m \in Models, NEW t \in Tiers, PinModel(s, m, t)
  PROVE  SessionsTypeOK'
<1>1. [tier |-> t, model |-> m] \in Pin
  BY DEF Pin
<1> QED
  BY <1>1 DEF ProxyType, SessionsTypeOK, PinModel, Entry, NoEntry

\* Where the fields of a call come from.
LEMMA CallFields ==
  ASSUME ProxyType, NEW r \in Requests
  PROVE  /\ calls[r].pc \in {"waiting", "stored", "preparing", "forwarding"}
            => calls[r].body \in Bodies
         /\ Active(r) => calls[r].session \in Sessions /\ calls[r].cut \in Cut
         /\ calls[r].pc = "forwarding"
            => /\ calls[r].tier \in Tiers
               /\ calls[r].attempt \in Nat \ {0}
               /\ calls[r].pinned \in BOOLEAN
BY DEF ProxyType, Call, Idle, Active

LEMMA CutType ==
  ASSUME ProxyType, NEW r \in Requests, Active(r), NEW cut \in Cut
  PROVE  LET c == [calls[r] EXCEPT !.cut = cut] IN
         /\ c \in Call
         /\ c.pc = calls[r].pc
         /\ c.body = calls[r].body
         /\ c.cut = cut
<1>1. CASE calls[r].pc = "preparing"
  <2>1. calls[r] \in [pc : {"preparing"}, body : Bodies, session : Sessions, cut : Cut]
    BY <1>1 DEF ProxyType, Call, Idle
  <2> QED
    BY <2>1 DEF Call
<1>2. CASE calls[r].pc = "forwarding"
  <2>1. calls[r] \in [pc : {"forwarding"}, body : Bodies, session : Sessions, tier : Tiers,
                      attempt : Nat \ {0}, pinned : BOOLEAN, cut : Cut]
    BY <1>2 DEF ProxyType, Call, Idle
  <2> QED
    BY <2>1 DEF Call
<1> QED
  BY <1>1, <1>2 DEF Active

LEMMA AttemptType ==
  ASSUME ProxyType, NEW r \in Requests, calls[r].pc = "forwarding", ~Last(calls[r])
  PROVE  LET c == [calls[r] EXCEPT !.attempt = @ + 1] IN
         /\ c \in Call
         /\ c.pc = calls[r].pc
         /\ c.body = calls[r].body
         /\ c.cut = calls[r].cut
         /\ c.attempt <= Len(Chain[c.tier])
<1>1. calls[r] \in [pc : {"forwarding"}, body : Bodies, session : Sessions, tier : Tiers,
                    attempt : Nat \ {0}, pinned : BOOLEAN, cut : Cut]
  BY DEF ProxyType, Call, Idle
<1>2. /\ calls[r].attempt <= Len(Chain[calls[r].tier])
      /\ calls[r].attempt # Len(Chain[calls[r].tier])
  BY DEF ProxyType, Last
<1>3. Len(Chain[calls[r].tier]) \in Nat
  BY <1>1, ProxyAssumption
<1>4. calls[r].attempt + 1 <= Len(Chain[calls[r].tier])
  BY <1>1, <1>2, <1>3
<1> QED
  BY <1>1, <1>4 DEF Call

\* The places a request can be in.
LEMMA CallTypes ==
  /\ Idle \in Call
  /\ \A how \in {"served", "failed"} : Done(how) \in Call
  /\ \A b \in Bodies : Waiting(b) \in Call /\ Stored(b) \in Call
  /\ \A b \in Bodies, s \in Sessions, cut \in Cut : Preparing(b, s, cut) \in Call
  /\ \A b \in Bodies, s \in Sessions, t \in Tiers, p \in BOOLEAN, cut \in Cut :
       Forwarding(b, s, t, 1, p, cut) \in Call
BY DEF Call, Idle, Done, Waiting, Stored, Preparing, Forwarding

LEMMA WaitingIs ==
  ASSUME ProxyType, NEW r \in Requests, calls[r].pc = "waiting"
  PROVE  calls[r] = Waiting(calls[r].body)
<1>1. calls[r] \in [pc : {"waiting", "stored"}, body : Bodies]
  BY DEF ProxyType, Call, Idle
<1> QED
  BY <1>1 DEF Waiting

(***************************************************************************)
(* The inductive invariant: the three invariants of the runs rest on the   *)
(* entry of every request nobody has dropped being in flight.              *)
(***************************************************************************)
UndroppedInFlight ==
  \A r \in Requests :
    Active(r) /\ calls[r].body \notin dropped => calls[r].body \in inflight

Safe == WaitersHaveOriginal /\ OneCallPerKey /\ PaidOnce /\ UndroppedInFlight

\* A step of r that leaves what is in flight alone: r stays what it was, as the
\* original of a key or as none.
LEMMA GoesSafe ==
  ASSUME ProxyType, Safe, NEW r \in Requests, NEW to, Goes(r, to),
         inflight' = inflight, completed' = completed, dropped' = dropped,
         to.pc \in {"preparing", "forwarding"} <=> Active(r),
         Active(r) => to.body = calls[r].body /\ (calls[r].cut # "client" => to.cut # "client"),
         to.pc = "waiting" => to.body \in inflight
  PROVE  Safe'
<1>1. calls'[r] = to /\ \A q \in Requests \ {r} : calls'[q] = calls[q]
  BY DEF Goes, ProxyType
<1>2. \A q \in Requests : Active(q)' <=> Active(q)
  BY <1>1 DEF Active
<1>3. \A q \in Requests : Active(q) => calls'[q].body = calls[q].body
  BY <1>1
<1>4. WaitersHaveOriginal'
  <2>1. \A q \in Requests : calls'[q].pc = "waiting" => calls'[q].body \in inflight'
    BY <1>1 DEF Safe, WaitersHaveOriginal
  <2>2. ASSUME NEW b \in inflight'
        PROVE  \E q \in Requests : Active(q)' /\ calls'[q].body = b /\ calls'[q].cut # "client"
    <3>1. PICK q \in Requests : Active(q) /\ calls[q].body = b /\ calls[q].cut # "client"
      BY DEF Safe, WaitersHaveOriginal
    <3> QED
      BY <3>1, <1>1, <1>2, <1>3
  <2> QED
    BY <2>1, <2>2 DEF WaitersHaveOriginal
<1>5. OneCallPerKey'
  BY <1>2, <1>3 DEF Safe, OneCallPerKey
<1>6. PaidOnce' /\ UndroppedInFlight'
  BY <1>2, <1>3 DEF Safe, PaidOnce, UndroppedInFlight
<1> QED
  BY <1>4, <1>5, <1>6 DEF Safe

\* A step of r that settles the promise of its key: whoever waited for it is
\* answered, and r is the original no more, or its key is dropped.
LEMMA SettlesSafe ==
  ASSUME ProxyType, Safe, NEW r \in Requests, NEW to, NEW how \in {"served", "failed"},
         NEW b, b = calls[r].body,
         Settles(r, to, how), inflight' = inflight \ {b},
         dropped' = dropped \/ dropped' = dropped \cup {b},
         to.pc # "waiting",
         to.pc \in {"preparing", "forwarding"} => Active(r) /\ to.body = b,
         \/ completed' = completed
         \/ completed' = completed \cup {b} /\ Active(r),
         b \in dropped' \/ (Active(r) /\ to.pc \notin {"preparing", "forwarding"})
  PROVE  Safe'
<1>1. calls'[r] = to
  BY DEF Settles
<1>2. ASSUME NEW q \in Requests, q # r
      PROVE  \/ calls'[q] = calls[q] /\ calls[q] # Waiting(b)
             \/ calls'[q] = Done(how)
  <2>1. CASE calls[q] = Waiting(b)
    <3>1. b \in inflight
      BY <2>1 DEF Safe, WaitersHaveOriginal, Waiting
    <3> QED
      BY <1>2, <2>1, <3>1 DEF Settles
  <2>2. CASE calls[q] # Waiting(b)
    BY <1>2, <2>2 DEF Settles
  <2> QED
    BY <2>1, <2>2
<1>3. ASSUME NEW q \in Requests, q # r
      PROVE  /\ Active(q)' <=> Active(q)
             /\ Active(q) => calls'[q] = calls[q]
  BY <1>2, <1>3 DEF Settles, Active, Done, Waiting
<1>4. ASSUME NEW q \in Requests, Active(q)'
      PROVE  Active(q) /\ calls'[q].body = calls[q].body
  BY <1>1, <1>3, <1>4 DEF Active
<1>5. WaitersHaveOriginal'
  <2>1. ASSUME NEW q \in Requests, calls'[q].pc = "waiting"
        PROVE  calls'[q].body \in inflight'
    <3>1. q # r
      BY <1>1, <2>1
    <3>2. calls'[q] = calls[q] /\ calls[q] # Waiting(b)
      BY <1>2, <2>1, <3>1 DEF Done
    <3>3. calls[q] = Waiting(calls[q].body)
      BY <2>1, <3>2, WaitingIs
    <3>4. calls[q].body # b
      BY <3>2, <3>3
    <3> QED
      BY <2>1, <3>2, <3>4 DEF Safe, WaitersHaveOriginal
  <2>2. ASSUME NEW k \in inflight'
        PROVE  \E q \in Requests : Active(q)' /\ calls'[q].body = k /\ calls'[q].cut # "client"
    <3>1. PICK q \in Requests : Active(q) /\ calls[q].body = k /\ calls[q].cut # "client"
      BY DEF Safe, WaitersHaveOriginal
    <3>2. q # r
      BY <3>1
    <3> QED
      BY <3>1, <3>2, <1>3
  <2> QED
    BY <2>1, <2>2 DEF WaitersHaveOriginal
<1>6. OneCallPerKey'
  BY <1>4 DEF Safe, OneCallPerKey
<1>7. ASSUME NEW q \in Requests, Active(q)', calls'[q].body \notin dropped'
      PROVE  calls'[q].body # b
  <2>1. Active(q) /\ calls[q].body \notin dropped /\ calls'[q].body = calls[q].body
    BY <1>4, <1>7
  <2>2. CASE b \in dropped'
    BY <1>7, <2>2
  <2>3. CASE Active(r) /\ to.pc \notin {"preparing", "forwarding"}
    <3>1. q # r
      BY <1>1, <1>7, <2>3 DEF Active
    <3> QED
      BY <2>1, <2>3, <3>1 DEF Safe, OneCallPerKey
  <2> QED
    BY <2>2, <2>3
<1>8. PaidOnce' /\ UndroppedInFlight'
  BY <1>4, <1>7 DEF Safe, PaidOnce, UndroppedInFlight
<1> QED
  BY <1>5, <1>6, <1>8 DEF Safe

(***************************************************************************)
(* Types are kept.                                                         *)
(***************************************************************************)
LEMMA GoesType ==
  ASSUME ProxyType, NEW r \in Requests, NEW to \in Call, Goes(r, to),
         to.pc = "forwarding" => to.attempt <= Len(Chain[to.tier])
  PROVE  /\ calls' \in [Requests -> Call]
         /\ \A q \in Requests :
              calls'[q].pc = "forwarding" => calls'[q].attempt <= Len(Chain[calls'[q].tier])
BY DEF ProxyType, Goes

LEMMA SettlesType ==
  ASSUME ProxyType, NEW r \in Requests, NEW to \in Call, NEW how \in {"served", "failed"},
         Settles(r, to, how),
         to.pc = "forwarding" => to.attempt <= Len(Chain[to.tier])
  PROVE  /\ calls' \in [Requests -> Call]
         /\ \A q \in Requests :
              calls'[q].pc = "forwarding" => calls'[q].attempt <= Len(Chain[calls'[q].tier])
<1>1. Done(how) \in Call /\ Done(how).pc # "forwarding"
  BY CallTypes DEF Done
<1>2. \A q \in Requests : calls'[q] \in {to, Done(how), calls[q]}
  BY DEF Settles
<1>3. calls' \in [Requests -> Call]
  <2>1. calls' = [q \in Requests |-> calls'[q]]
    BY DEF Settles
  <2> QED
    BY <1>1, <1>2, <2>1 DEF ProxyType
<1> QED
  BY <1>1, <1>2, <1>3 DEF ProxyType

LEMMA RepinType ==
  ASSUME ProxyType, NEW r \in Requests, calls[r].pc = "forwarding", Repin(calls[r])
  PROVE  SessionsTypeOK'
<1>1. CASE calls[r].pinned
  BY <1>1 DEF Repin, storeVars, ProxyType, SessionsTypeOK
<1>2. CASE ~calls[r].pinned
  <2>1. /\ calls[r].session \in Sessions
        /\ calls[r].tier \in Tiers
        /\ calls[r].attempt \in 1..Len(Chain[calls[r].tier])
    <3>1. calls[r].session \in Sessions
      BY CallFields DEF Active
    <3>2. calls[r].tier \in Tiers /\ calls[r].attempt \in Nat \ {0}
      BY CallFields
    <3>3. Len(Chain[calls[r].tier]) \in Nat
      BY <3>2, ProxyAssumption
    <3> QED
      BY <3>1, <3>2, <3>3 DEF ProxyType
  <2>2. ModelOf(calls[r]) \in Models
    BY <2>1, ProxyAssumption DEF ModelOf
  <2> QED
    BY <1>2, <2>1, <2>2, PinModelType DEF Repin
<1> QED
  BY <1>1, <1>2

(***************************************************************************)
(* One step keeps types and invariant.                                     *)
(***************************************************************************)
IInv == ProxyType /\ Safe

LEMMA InitIInv == Init => IInv
<1> SUFFICES ASSUME Init PROVE IInv
  OBVIOUS
<1>1. \A r \in Requests : calls[r] = Idle
  BY DEF Init
<1>2. ProxyType
  <2>1. SessionsTypeOK /\ DedupTypeOK
    BY DEF Init, StoreInit, DedupInit, SessionsTypeOK, DedupTypeOK
  <2>2. calls \in [Requests -> Call]
    BY CallTypes DEF Init
  <2> QED
    BY <1>1, <2>1, <2>2 DEF ProxyType, Idle
<1>3. Safe
  <2>1. \A r \in Requests : ~Active(r) /\ calls[r].pc # "waiting"
    BY <1>1 DEF Active, Idle
  <2> QED
    BY <2>1 DEF Init, DedupInit, Safe, WaitersHaveOriginal, OneCallPerKey, PaidOnce,
                UndroppedInFlight
<1> QED
  BY <1>2, <1>3 DEF IInv

\* A request that arrives.
LEMMA ArriveStep ==
  ASSUME IInv, NEW r \in Requests, Arrive(r)
  PROVE  IInv'
<1> USE DEF IInv
<1>1. PICK b \in Bodies : \/ ServeCompleted(r, b) \/ Join(r, b) \/ ServeStored(r, b)
                         \/ \E s \in Sessions : Take(r, b, s)
  BY DEF Arrive
<1>2. ASSUME ServeCompleted(r, b) \/ Join(r, b) \/ ServeStored(r, b)
      PROVE  IInv'
  <2>1. PICK to \in {Done("served"), Waiting(b), Stored(b)} :
          /\ Goes(r, to)
          /\ to.pc = "waiting" => b \in inflight
    BY <1>2 DEF ServeCompleted, Join, ServeStored, Done, Waiting, Stored
  <2>2. to \in Call /\ to.pc \notin {"preparing", "forwarding"}
    <3>1. {Done("served"), Waiting(b), Stored(b)} \subseteq Call
      BY CallTypes
    <3>2. to.pc \in {"done", "waiting", "stored"}
      BY DEF Done, Waiting, Stored
    <3> QED
      BY <3>1, <3>2
  <2>3. to.pc = "waiting" => to.body \in inflight
    BY <2>1 DEF Done, Waiting, Stored
  <2>4. ~Active(r)
    BY <1>2 DEF ServeCompleted, Join, ServeStored, New, Active, Idle
  <2>5. UNCHANGED <<sessions, inflight, completed, dropped>>
    BY <1>2 DEF ServeCompleted, Join, ServeStored, storeVars, dedupVars
  <2>6. ProxyType'
    BY <2>1, <2>2, <2>5, GoesType DEF ProxyType, SessionsTypeOK, DedupTypeOK
  <2>7. Safe'
    BY <2>1, <2>2, <2>3, <2>4, <2>5, GoesSafe
  <2> QED
    BY <2>6, <2>7
<1>3. ASSUME NEW s \in Sessions, Take(r, b, s)
      PROVE  IInv'
  <2>1. /\ calls[r] = Idle /\ b \notin completed /\ b \notin inflight
        /\ Goes(r, Preparing(b, s, "no"))
        /\ inflight' = inflight \cup {b}
        /\ UNCHANGED <<sessions, completed, dropped>>
    BY <1>3 DEF Take, New, MarkInflight, storeVars
  <2>2. ProxyType'
    <3>1. Preparing(b, s, "no") \in Call /\ Preparing(b, s, "no").pc # "forwarding"
      BY CallTypes DEF Cut, Preparing
    <3> QED
      BY <2>1, <3>1, GoesType DEF ProxyType, SessionsTypeOK, DedupTypeOK
  <2>3. /\ calls'[r] = Preparing(b, s, "no")
        /\ \A q \in Requests \ {r} : calls'[q] = calls[q]
    BY <2>1 DEF Goes, ProxyType
  <2>4. /\ Active(r)' /\ calls'[r].pc # "waiting"
        /\ calls'[r].body = b /\ calls'[r].cut # "client"
    BY <2>3 DEF Active, Preparing
  <2>5. ~Active(r)
    BY <2>1 DEF Active, Idle
  <2>6. \A q \in Requests \ {r} : Active(q)' <=> Active(q)
    BY <2>3 DEF Active
  <2>7. WaitersHaveOriginal'
    <3>1. \A q \in Requests : calls'[q].pc = "waiting" => calls'[q].body \in inflight'
      BY <2>1, <2>3, <2>4 DEF Safe, WaitersHaveOriginal
    <3>2. ASSUME NEW k \in inflight'
          PROVE  \E q \in Requests : Active(q)' /\ calls'[q].body = k /\ calls'[q].cut # "client"
      <4>1. CASE k = b
        BY <2>4, <4>1
      <4>2. CASE k \in inflight
        <5>1. PICK q \in Requests : Active(q) /\ calls[q].body = k /\ calls[q].cut # "client"
          BY <4>2 DEF Safe, WaitersHaveOriginal
        <5> QED
          BY <5>1, <2>3, <2>5, <2>6
      <4> QED
        BY <2>1, <4>1, <4>2
    <3> QED
      BY <3>1, <3>2 DEF WaitersHaveOriginal
  <2>8. ASSUME NEW q \in Requests \ {r}, Active(q)', calls'[q].body \notin dropped'
        PROVE  /\ calls'[q].body # b
               /\ calls'[q].body \in inflight /\ calls'[q].body \notin completed
    BY <2>1, <2>3, <2>6, <2>8 DEF Safe, UndroppedInFlight, PaidOnce
  <2>9. OneCallPerKey'
    <3> SUFFICES ASSUME NEW p \in Requests, NEW q \in Requests, Active(p)', Active(q)',
                        calls'[p].body = calls'[q].body, calls'[p].body \notin dropped'
                 PROVE  p = q
      BY DEF OneCallPerKey
    <3>1. CASE p = r \/ q = r
      BY <3>1, <2>4, <2>8
    <3>2. CASE p # r /\ q # r
      BY <3>2, <2>1, <2>3, <2>6 DEF Safe, OneCallPerKey
    <3> QED
      BY <3>1, <3>2
  <2>10. PaidOnce' /\ UndroppedInFlight'
    BY <2>1, <2>4, <2>8 DEF PaidOnce, UndroppedInFlight
  <2> QED
    BY <2>2, <2>7, <2>9, <2>10 DEF Safe
<1> QED
  BY <1>1, <1>2, <1>3

\* A request that is routed, or found to be cut.
LEMMA RouteStep ==
  ASSUME IInv, NEW r \in Requests, NEW tier \in Tiers, Route(r, tier)
  PROVE  IInv'
<1> DEFINE b == calls[r].body
           s == calls[r].session
           e == Found(s)
           h == HashOf[b]
<1> USE DEF IInv
<1>1. Active(r) /\ calls[r].pc = "preparing" /\ b \in Bodies /\ s \in Sessions
  BY CallFields DEF Route, Active
<1>2. e \in SessionEntry /\ h \in Hashes
  BY <1>1, FoundType, ProxyAssumption
<1>3. SessionsTypeOK'
  <2>1. Touch(s, Checked(e, h, tier))
    BY DEF Route
  <2> HIDE DEF e, h, s
  <2> QED
    BY <1>1, <1>2, <2>1, CheckedType, TouchType
<1>4. CASE calls[r].cut = "no"
  <2> DEFINE to == Forwarding(b, s, RoutedTier(e, h, tier), 1, KeepsPin(e, h, tier), "no")
  <2>1. Goes(r, to) /\ UNCHANGED <<inflight, completed, dropped>>
    BY <1>4 DEF Route, dedupVars
  <2>2. RoutedTier(e, h, tier) \in Tiers /\ KeepsPin(e, h, tier) \in BOOLEAN
    BY <1>2, RoutedType DEF KeepsPin
  <2>3. 1 <= Len(Chain[RoutedTier(e, h, tier)])
    <3> DEFINE q == Chain[RoutedTier(e, h, tier)]
    <3>1. q \in Seq(Models) /\ q # <<>>
      BY <2>2, ProxyAssumption
    <3> HIDE DEF q
    <3>2. Len(q) \in Nat /\ Len(q) # 0
      BY <3>1
    <3> QED
      BY <3>2 DEF q
  <2>4. to \in Call
    BY <1>1, <2>2, CallTypes DEF Cut
  <2>5. /\ to.pc = "forwarding" /\ to.body = b /\ to.cut = "no"
        /\ to.attempt = 1 /\ to.tier = RoutedTier(e, h, tier)
    BY DEF Forwarding
  <2> HIDE DEF to
  <2>6. Safe'
    BY <1>1, <2>1, <2>5, GoesSafe
  <2>7. ProxyType'
    BY <1>3, <2>1, <2>3, <2>4, <2>5, GoesType DEF ProxyType, DedupTypeOK
  <2> QED
    BY <2>6, <2>7
<1>5. CASE calls[r].cut # "no"
  <2> DEFINE to == Done("failed")
  <2>1. /\ Settles(r, to, "failed") /\ inflight' = inflight \ {b}
        /\ UNCHANGED <<completed, dropped>>
    BY <1>5 DEF Route, RemoveInflight
  <2>2. to \in Call /\ to.pc = "done"
    BY CallTypes DEF Done
  <2> HIDE DEF to
  <2>3. Safe'
    BY <1>1, <2>1, <2>2, SettlesSafe
  <2>4. ProxyType'
    BY <1>3, <2>1, <2>2, SettlesType DEF ProxyType, DedupTypeOK
  <2> QED
    BY <2>3, <2>4
<1> QED
  BY <1>4, <1>5

\* A request that is answered, by a provider or by an error.
LEMMA AnswerStep ==
  ASSUME IInv, NEW r \in Requests, Succeed(r) \/ StartStream(r) \/ Fail(r)
  PROVE  IInv'
<1> DEFINE b == calls[r].body
<1> USE DEF IInv
<1>1. Active(r) /\ b \in Bodies
  BY CallFields DEF Succeed, StartStream, Fail, Active
<1>2. PICK how \in {"served", "failed"}, told \in {"served", "failed"} : Settles(r, Done(how), told)
  BY DEF Succeed, StartStream, Fail
<1>3. /\ inflight' = inflight \ {b}
      /\ completed' = completed \/ completed' = completed \cup {b}
      /\ dropped' = dropped
  BY DEF Succeed, StartStream, Fail, Complete, RemoveInflight
<1>4. SessionsTypeOK'
  <2>1. CASE Repin(calls[r]) /\ calls[r].pc = "forwarding"
    BY <2>1, RepinType
  <2>2. CASE UNCHANGED sessions
    BY <2>2 DEF ProxyType, SessionsTypeOK
  <2> QED
    BY <2>1, <2>2 DEF Succeed, StartStream, Fail, storeVars
<1>5. Done(how) \in Call /\ Done(how).pc = "done"
  BY CallTypes DEF Done
<1>6. Safe'
  BY <1>1, <1>2, <1>3, <1>5, SettlesSafe
<1>7. ProxyType'
  <2>1. DedupTypeOK'
    BY <1>1, <1>3 DEF ProxyType, DedupTypeOK
  <2> QED
    BY <1>2, <1>4, <1>5, <2>1, SettlesType DEF ProxyType
<1> QED
  BY <1>6, <1>7

LEMMA TryNextStep ==
  ASSUME IInv, NEW r \in Requests, TryNext(r)
  PROVE  IInv'
<1> DEFINE to == [calls[r] EXCEPT !.attempt = @ + 1]
<1> USE DEF IInv
<1>1. Active(r) /\ calls[r].pc = "forwarding" /\ ~Last(calls[r])
  BY DEF TryNext, Active
<1>2. Goes(r, to) /\ UNCHANGED <<sessions, inflight, completed, dropped>>
  BY DEF TryNext, storeVars, dedupVars
<1>3. /\ to \in Call /\ to.pc = "forwarding" /\ to.body = calls[r].body
      /\ to.cut = calls[r].cut /\ to.attempt <= Len(Chain[to.tier])
  BY <1>1, AttemptType
<1> HIDE DEF to
<1>4. Safe'
  BY <1>1, <1>2, <1>3, GoesSafe
<1>5. ProxyType'
  BY <1>2, <1>3, GoesType DEF ProxyType, SessionsTypeOK, DedupTypeOK
<1> QED
  BY <1>4, <1>5

\* Cutting a call leaves its place in the chain as it is.
LEMMA CutAttempt ==
  ASSUME ProxyType, NEW r \in Requests, calls[r].pc = "forwarding", NEW cut \in Cut
  PROVE  LET c == [calls[r] EXCEPT !.cut = cut] IN c.attempt <= Len(Chain[c.tier])
<1>1. calls[r] \in [pc : {"forwarding"}, body : Bodies, session : Sessions, tier : Tiers,
                    attempt : Nat \ {0}, pinned : BOOLEAN, cut : Cut]
  BY DEF ProxyType, Call, Idle
<1> QED
  BY <1>1 DEF ProxyType

LEMMA DeadlineStep ==
  ASSUME IInv, NEW r \in Requests, Deadline(r)
  PROVE  IInv'
<1> DEFINE to == [calls[r] EXCEPT !.cut = "deadline"]
<1> USE DEF IInv
<1>1. Active(r) /\ Goes(r, to) /\ UNCHANGED <<sessions, inflight, completed, dropped>>
  BY DEF Deadline, storeVars, dedupVars
<1>2. "deadline" \in Cut
  BY DEF Cut
<1>3. /\ to \in Call /\ to.pc = calls[r].pc /\ to.body = calls[r].body
      /\ to.cut = "deadline"
  BY <1>1, <1>2, CutType
<1>4. to.pc = "forwarding" => to.attempt <= Len(Chain[to.tier])
  BY <1>2, <1>3, CutAttempt
<1> HIDE DEF to
<1>5. Safe'
  <2>1. to.pc \in {"preparing", "forwarding"}
    BY <1>1, <1>3 DEF Active
  <2> QED
    BY <1>1, <1>3, <2>1, GoesSafe
<1>6. ProxyType'
  BY <1>1, <1>3, <1>4, GoesType DEF ProxyType, SessionsTypeOK, DedupTypeOK
<1> QED
  BY <1>5, <1>6

LEMMA HangUpStep ==
  ASSUME IInv, NEW r \in Requests, HangUp(r)
  PROVE  IInv'
<1> DEFINE b == calls[r].body
           to == [calls[r] EXCEPT !.cut = "client"]
<1> USE DEF IInv
<1>1. /\ Active(r) /\ Settles(r, to, "failed")
      /\ inflight' = inflight \ {b} /\ dropped' = dropped \cup {b}
      /\ UNCHANGED <<sessions, completed>>
  BY DEF HangUp, RemoveInflight, storeVars
<1>2. "client" \in Cut /\ b \in Bodies
  BY <1>1, CallFields DEF Cut, Active
<1>3. to \in Call /\ to.pc = calls[r].pc /\ to.body = b
  BY <1>1, <1>2, CutType
<1>4. to.pc = "forwarding" => to.attempt <= Len(Chain[to.tier])
  BY <1>2, <1>3, CutAttempt
<1> HIDE DEF to
<1>5. Safe'
  <2>1. to.pc # "waiting"
    BY <1>1, <1>3 DEF Active
  <2> QED
    BY <1>1, <1>3, <2>1, SettlesSafe
<1>6. ProxyType'
  BY <1>1, <1>3, <1>4, SettlesType DEF ProxyType, SessionsTypeOK, DedupTypeOK
<1> QED
  BY <1>5, <1>6

LEMMA CloseStep ==
  ASSUME IInv, NEW r \in Requests, CloseStored(r) \/ Close(r)
  PROVE  IInv'
<1> USE DEF IInv
<1>1. Idle \in Call /\ Idle.pc = "idle"
  BY CallTypes DEF Idle
<1>2. CASE CloseStored(r)
  <2> DEFINE b == calls[r].body
  <2>1. /\ Settles(r, Idle, "failed")
        /\ inflight' = inflight \ {b} /\ dropped' = dropped \cup {b}
        /\ UNCHANGED <<sessions, completed>>
    BY <1>2 DEF CloseStored, RemoveInflight, storeVars
  <2>2. Safe'
    BY <1>1, <2>1, SettlesSafe
  <2>3. ProxyType'
    BY <1>1, <2>1, SettlesType DEF ProxyType, SessionsTypeOK, DedupTypeOK
  <2> QED
    BY <2>2, <2>3
<1>3. CASE Close(r)
  <2>1. ~Active(r) /\ Goes(r, Idle) /\ UNCHANGED <<sessions, inflight, completed, dropped>>
    BY <1>3 DEF Close, Active, storeVars, dedupVars
  <2>2. Safe'
    BY <1>1, <2>1, GoesSafe
  <2>3. ProxyType'
    BY <1>1, <2>1, GoesType DEF ProxyType, SessionsTypeOK, DedupTypeOK
  <2> QED
    BY <2>2, <2>3
<1> QED
  BY <1>2, <1>3

\* A step that leaves the requests and what is in flight alone.
LEMMA QuietStep ==
  ASSUME IInv, UNCHANGED <<calls, inflight, dropped>>, completed' \subseteq completed,
         SessionsTypeOK'
  PROVE  IInv'
<1>1. ProxyType'
  BY DEF IInv, ProxyType, DedupTypeOK
<1>2. \A r \in Requests : Active(r)' <=> Active(r)
  BY DEF Active
<1>3. Safe'
  BY <1>2 DEF IInv, Safe, WaitersHaveOriginal, OneCallPerKey, PaidOnce, UndroppedInFlight
<1> QED
  BY <1>1, <1>3 DEF IInv

LEMMA NextIInv ==
  ASSUME IInv, [Next]_vars
  PROVE  IInv'
<1>1. ASSUME NEW r \in Requests, Proceed(r)
      PROVE  IInv'
  BY <1>1, RouteStep, AnswerStep, TryNextStep DEF Proceed
<1>2. ASSUME NEW r \in Requests,
             Arrive(r) \/ Deadline(r) \/ HangUp(r) \/ CloseStored(r) \/ Close(r)
      PROVE  IInv'
  BY <1>2, ArriveStep, DeadlineStep, HangUpStep, CloseStep
<1>3. ASSUME NEW b \in Bodies, ExpireCompleted(b) \/ EvictStored(b)
      PROVE  IInv'
  <2>1. /\ UNCHANGED <<sessions, calls, inflight, dropped>>
        /\ completed' \subseteq completed
    BY <1>3 DEF ExpireCompleted, EvictStored, Expire, storeVars, dedupVars
  <2>2. SessionsTypeOK'
    BY <2>1 DEF IInv, ProxyType, SessionsTypeOK
  <2> QED
    BY <2>1, <2>2, QuietStep
<1>4. ASSUME NEW s \in Sessions, ExpireSession(s)
      PROVE  IInv'
  <2>1. UNCHANGED <<calls, inflight, completed, dropped>>
    BY <1>4 DEF ExpireSession, dedupVars
  <2>2. SessionsTypeOK'
    BY <1>4 DEF ExpireSession, EvictExpired, IInv, ProxyType, SessionsTypeOK
  <2> QED
    BY <2>1, <2>2, QuietStep
<1>5. CASE UNCHANGED vars
  <2>1. UNCHANGED <<sessions, calls, inflight, completed, dropped>>
    BY <1>5 DEF vars
  <2>2. SessionsTypeOK'
    BY <2>1 DEF IInv, ProxyType, SessionsTypeOK
  <2> QED
    BY <2>1, <2>2, QuietStep
<1> QED
  BY <1>1, <1>2, <1>3, <1>4, <1>5 DEF Next

LEMMA Inductive == Spec => []IInv
<1>1. Init => IInv
  BY InitIInv
<1>2. IInv /\ [Next]_vars => IInv'
  BY NextIInv
<1> QED
  BY <1>1, <1>2, PTL DEF Spec

(***************************************************************************)
(* The theorems.                                                           *)
(***************************************************************************)
\* A duplicate always waits for an entry in flight, and behind every entry in
\* flight is a request that will settle it: a waiter is never left behind by
\* the removals of handleChatCompletions and its close handler.
THEOREM WaitersCorrect == Spec => []WaitersHaveOriginal
<1>1. IInv => WaitersHaveOriginal
  BY DEF IInv, Safe
<1> QED
  BY <1>1, Inductive, PTL

\* While no connection has been closed on an incomplete request with its key,
\* no request goes upstream beside an identical one, nor for an answer that is
\* still at hand (checkInflight and getCached before markInflight).
THEOREM SharedCorrect == Spec => [](OneCallPerKey /\ PaidOnce)
<1>1. IInv => OneCallPerKey /\ PaidOnce
  BY DEF IInv, Safe
<1> QED
  BY <1>1, Inductive, PTL

\* An answer that is at hand is not paid for again: the second part of it.
THEOREM PaidCorrect == Spec => []PaidOnce
<1> QED
  BY SharedCorrect, PTL

(***************************************************************************)
(* The order of the sessions.                                              *)
(***************************************************************************)
\* What removing a key from the order leaves.
LEMMA WithoutIs ==
  ASSUME NEW S, NEW q \in Seq(S), NEW s,
         \A i, j \in 1..Len(q) : q[i] = q[j] => i = j
  PROVE  LET w == Without(q, s) IN
         /\ w \in Seq(S)
         /\ \A i, j \in 1..Len(w) : w[i] = w[j] => i = j
         /\ \A x : (\E i \in 1..Len(w) : w[i] = x) <=> (x # s /\ \E i \in 1..Len(q) : q[i] = x)
         /\ Len(w) = IF \E i \in 1..Len(q) : q[i] = s THEN Len(q) - 1 ELSE Len(q)
<1>0. Len(q) \in Nat /\ DOMAIN q = 1..Len(q) /\ \A i \in 1..Len(q) : q[i] \in S
  OBVIOUS
<1>1. CASE \A i \in 1..Len(q) : q[i] # s
  BY <1>0, <1>1 DEF Without
<1>2. CASE \E i \in 1..Len(q) : q[i] = s
  <2> DEFINE at == CHOOSE i \in DOMAIN q : q[i] = s
             w == [i \in 1..Len(q) - 1 |-> IF i < at THEN q[i] ELSE q[i + 1]]
  <2>1. at \in 1..Len(q) /\ q[at] = s
    BY <1>0, <1>2
  <2>2. Without(q, s) = w
    BY <1>0, <1>2, Zenon DEF Without
  <2> HIDE DEF at
  <2>3. Len(q) - 1 \in Nat
    BY <1>0, <2>1
  <2>4. \A i \in 1..Len(q) - 1 : w[i] \in S
    BY <1>0, <2>1
  <2>5. w \in Seq(S) /\ Len(w) = Len(q) - 1
    BY <2>3, <2>4
  <2>6. ASSUME NEW i \in 1..Len(q) - 1, NEW j \in 1..Len(q) - 1, w[i] = w[j]
        PROVE  i = j
    BY <1>0, <2>1, <2>3, <2>6
  <2>7. ASSUME NEW i \in 1..Len(q) - 1
        PROVE  w[i] # s /\ \E j \in 1..Len(q) : q[j] = w[i]
    <3>1. CASE i < at
      <4>1. w[i] = q[i] /\ i \in 1..Len(q) /\ i # at
        BY <1>0, <2>1, <2>3, <3>1
      <4> QED
        BY <2>1, <4>1
    <3>2. CASE ~(i < at)
      <4>1. w[i] = q[i + 1] /\ i + 1 \in 1..Len(q) /\ i + 1 # at
        BY <1>0, <2>1, <2>3, <3>2
      <4> QED
        BY <2>1, <4>1
    <3> QED
      BY <3>1, <3>2
  <2>8. ASSUME NEW j \in 1..Len(q), q[j] # s
        PROVE  \E i \in 1..Len(q) - 1 : w[i] = q[j]
    <3>1. CASE j < at
      <4>1. j \in 1..Len(q) - 1 /\ w[j] = q[j]
        BY <1>0, <2>1, <3>1
      <4> QED
        BY <4>1
    <3>2. CASE j > at
      <4>1. j - 1 \in 1..Len(q) - 1 /\ ~(j - 1 < at) /\ j - 1 + 1 = j
        BY <1>0, <2>1, <3>2
      <4>2. w[j - 1] = q[j]
        BY <4>1
      <4> QED
        BY <4>1, <4>2
    <3> QED
      BY <1>0, <2>1, <2>8, <3>1, <3>2
  <2> HIDE DEF w
  <2>9. \A x : (\E i \in 1..Len(w) : w[i] = x) <=> (x # s /\ \E i \in 1..Len(q) : q[i] = x)
    BY <2>5, <2>7, <2>8
  <2> QED
    BY <1>2, <2>2, <2>5, <2>6, <2>9
<1> QED
  BY <1>1, <1>2

In(q, s) == \E i \in 1..Len(q) : q[i] = s

\* A key is in an order once at most.
Once(q) == \A i, j \in 1..Len(q) : q[i] = q[j] => i = j

\* The order has the sessions of the Map, each once, and no more than the
\* Map may hold.
Ordered ==
  /\ recency \in Seq(Sessions)
  /\ Once(recency)
  /\ Len(recency) <= MaxSessions
  /\ \A s \in Sessions : sessions[s] # NoEntry <=> In(recency, s)

LEMMA RemovedOnce ==
  ASSUME NEW q \in Seq(Sessions), Once(q), NEW s \in Sessions
  PROVE  /\ Without(q, s) \in Seq(Sessions) /\ Once(Without(q, s))
         /\ \A x : In(Without(q, s), x) <=> x # s /\ In(q, x)
         /\ Len(Without(q, s)) = IF In(q, s) THEN Len(q) - 1 ELSE Len(q)
<1>1. \A i, j \in 1..Len(q) : q[i] = q[j] => i = j
  BY DEF Once
<1> DEFINE w == Without(q, s)
<1>2. /\ w \in Seq(Sessions)
      /\ \A i, j \in 1..Len(w) : w[i] = w[j] => i = j
      /\ \A x : (\E i \in 1..Len(w) : w[i] = x) <=> (x # s /\ \E i \in 1..Len(q) : q[i] = x)
      /\ Len(w) = IF \E i \in 1..Len(q) : q[i] = s THEN Len(q) - 1 ELSE Len(q)
  <2> HIDE DEF w
  <2> QED
    BY <1>1, WithoutIs, Zenon DEF w
<1> HIDE DEF w
<1>3. Once(w) /\ \A x : In(w, x) <=> x # s /\ In(q, x)
  BY <1>2 DEF In, Once
<1>4. Len(w) = IF In(q, s) THEN Len(q) - 1 ELSE Len(q)
  BY <1>2 DEF In
<1> QED
  BY <1>2, <1>3, <1>4 DEF w

\* Removing a key, and putting it at the end.
LEMMA MovedToEnd ==
  ASSUME NEW q \in Seq(Sessions), Once(q), NEW s \in Sessions,
         NEW w, w = Append(Without(q, s), s)
  PROVE  /\ w \in Seq(Sessions) /\ Once(w)
         /\ \A x : In(w, x) <=> x = s \/ In(q, x)
         /\ Len(w) = IF In(q, s) THEN Len(q) ELSE Len(q) + 1
<1> DEFINE v == Without(q, s)
<1>1. /\ v \in Seq(Sessions) /\ Once(v)
      /\ \A x : In(v, x) <=> x # s /\ In(q, x)
      /\ Len(v) = IF In(q, s) THEN Len(q) - 1 ELSE Len(q)
  BY RemovedOnce
<1> HIDE DEF v
<1>2. w = Append(v, s)
  BY DEF v
<1>3. /\ Len(v) \in Nat /\ Len(w) = Len(v) + 1 /\ w[Len(v) + 1] = s /\ Len(q) \in Nat
      /\ \A i \in 1..Len(v) : w[i] = v[i]
      /\ w \in Seq(Sessions)
  BY <1>1, <1>2
<1>4. \A i \in 1..Len(v) : v[i] # s
  BY <1>1 DEF In
<1>5. \A i \in 1..Len(w) : i \in 1..Len(v) \/ i = Len(v) + 1
  BY <1>3
<1>6. ASSUME NEW i \in 1..Len(w), NEW j \in 1..Len(w), w[i] = w[j]
      PROVE  i = j
  BY <1>1, <1>3, <1>4, <1>5, <1>6 DEF Once
<1>7. ASSUME NEW x
      PROVE  In(w, x) <=> x = s \/ In(v, x)
  <2>1. ASSUME In(w, x) PROVE x = s \/ In(v, x)
    BY <1>3, <1>5, <2>1 DEF In
  <2>2. In(w, s)
    <3>1. Len(v) + 1 \in 1..Len(w)
      BY <1>3
    <3> QED
      BY <1>3, <3>1 DEF In
  <2>3. ASSUME In(v, x) PROVE In(w, x)
    <3>1. PICK i \in 1..Len(v) : v[i] = x
      BY <2>3 DEF In
    <3>2. i \in 1..Len(w) /\ w[i] = x
      BY <1>3, <3>1
    <3> QED
      BY <3>2 DEF In
  <2> QED
    BY <2>1, <2>2, <2>3
<1> QED
  BY <1>1, <1>3, <1>6, <1>7 DEF Once

\* The least recently used session makes room.
LEMMA TailOrdered ==
  ASSUME NEW q \in Seq(Sessions), Once(q), q # <<>>
  PROVE  /\ Tail(q) \in Seq(Sessions) /\ Once(Tail(q)) /\ Len(Tail(q)) = Len(q) - 1
         /\ \A x : In(Tail(q), x) <=> x # Head(q) /\ In(q, x)
         /\ In(q, Head(q)) /\ Head(q) \in Sessions
<1>1. /\ Len(q) \in Nat /\ Len(q) # 0 /\ Head(q) = q[1] /\ 1 \in 1..Len(q)
      /\ Tail(q) \in Seq(Sessions) /\ Len(Tail(q)) = Len(q) - 1
      /\ \A i \in 1..Len(q) - 1 : Tail(q)[i] = q[i + 1] /\ i + 1 \in 1..Len(q) /\ i + 1 # 1
  OBVIOUS
<1>2. ASSUME NEW i \in 1..Len(Tail(q)), NEW j \in 1..Len(Tail(q)), Tail(q)[i] = Tail(q)[j]
      PROVE  i = j
  <2>1. i + 1 = j + 1
    BY <1>1, <1>2 DEF Once
  <2> QED
    BY <1>1, <2>1
<1>3. ASSUME NEW x, In(Tail(q), x)
      PROVE  x # Head(q) /\ In(q, x)
  BY <1>1, <1>3 DEF In, Once
<1>4. ASSUME NEW x, x # Head(q), In(q, x)
      PROVE  In(Tail(q), x)
  <2>1. PICK i \in 1..Len(q) : q[i] = x
    BY <1>4 DEF In
  <2>2. i # 1
    BY <1>1, <1>4, <2>1
  <2>3. i - 1 \in 1..Len(q) - 1 /\ (i - 1) + 1 = i
    BY <1>1, <2>2
  <2> QED
    BY <1>1, <2>1, <2>3 DEF In
<1>5. In(q, Head(q)) /\ Head(q) \in Sessions
  BY <1>1 DEF In
<1> QED
  BY <1>1, <1>2, <1>3, <1>4, <1>5 DEF Once

LEMMA TouchOrdered ==
  ASSUME SessionsTypeOK, Ordered, NEW s \in Sessions, NEW e, e # NoEntry, Touch(s, e)
  PROVE  Ordered'
<1> DEFINE rest == IF Evicted(s) = {} THEN recency ELSE Tail(recency)
<1>1. Len(recency) \in Nat /\ MaxSessions \in Nat \ {0}
  BY StoreAssumption DEF Ordered
<1>2. /\ rest \in Seq(Sessions) /\ Once(rest)
      /\ \A x \in Sessions : In(rest, x) <=> In(recency, x) /\ x \notin Evicted(s)
      /\ s \notin Evicted(s)
      /\ Len(rest) <= MaxSessions
      /\ ~In(rest, s) => Len(rest) < MaxSessions
  <2>1. CASE Evicted(s) = {}
    BY <1>1, <2>1 DEF Ordered, Evicted
  <2>2. CASE Evicted(s) # {}
    <3>1. /\ Evicted(s) = {Head(recency)} /\ sessions[s] = NoEntry
          /\ Len(recency) >= MaxSessions
      BY <2>2 DEF Evicted
    <3>2. recency # <<>> /\ recency \in Seq(Sessions) /\ Once(recency)
      BY <1>1, <3>1 DEF Ordered
    <3>3. /\ Tail(recency) \in Seq(Sessions) /\ Once(Tail(recency))
          /\ Len(Tail(recency)) = Len(recency) - 1
          /\ \A x : In(Tail(recency), x) <=> x # Head(recency) /\ In(recency, x)
          /\ In(recency, Head(recency)) /\ Head(recency) \in Sessions
      BY <3>2, TailOrdered, Zenon
    <3>4. s # Head(recency)
      BY <3>1, <3>3 DEF Ordered
    <3> QED
      BY <1>1, <2>2, <3>1, <3>3, <3>4 DEF Ordered
  <2> QED
    BY <2>1, <2>2
<1>3. recency' = Append(Without(rest, s), s)
  BY DEF Touch
<1> HIDE DEF rest
<1>4. /\ recency' \in Seq(Sessions) /\ Once(recency')
      /\ \A x : In(recency', x) <=> x = s \/ In(rest, x)
      /\ Len(recency') = IF In(rest, s) THEN Len(rest) ELSE Len(rest) + 1
  BY <1>2, <1>3, MovedToEnd
<1>5. Len(recency') <= MaxSessions
  BY <1>1, <1>2, <1>4
<1>6. ASSUME NEW x \in Sessions
      PROVE  sessions'[x] # NoEntry <=> In(recency', x)
  <2>1. sessions'[x] = IF x = s THEN e ELSE IF x \in Evicted(s) THEN NoEntry ELSE sessions[x]
    BY DEF Touch
  <2> QED
    BY <1>2, <1>4, <2>1 DEF Ordered
<1>7. Once(recency)' <=> Once(recency')
  BY DEF Once
<1> QED
  BY <1>4, <1>5, <1>6, <1>7 DEF Ordered, In, Once

LEMMA PinOrdered ==
  ASSUME SessionsTypeOK, Ordered, NEW s \in Sessions, NEW m, NEW t, PinModel(s, m, t)
  PROVE  Ordered'
<1>1. \A x \in Sessions : sessions'[x] = NoEntry <=> sessions[x] = NoEntry
  BY DEF SessionsTypeOK, PinModel, Entry, NoEntry
<1> QED
  BY <1>1 DEF Ordered, PinModel, In, Once

LEMMA ExpiryOrdered ==
  ASSUME SessionsTypeOK, Ordered, NEW s \in Sessions, EvictExpired(s)
  PROVE  Ordered'
<1>1. recency \in Seq(Sessions) /\ Once(recency) /\ Len(recency) \in Nat /\ MaxSessions \in Nat
  BY StoreAssumption DEF Ordered
<1>2. recency' = Without(recency, s)
  BY DEF EvictExpired
<1>3. /\ recency' \in Seq(Sessions) /\ Once(recency')
      /\ \A x : In(recency', x) <=> x # s /\ In(recency, x)
      /\ Len(recency') = IF In(recency, s) THEN Len(recency) - 1 ELSE Len(recency)
  BY <1>1, <1>2, RemovedOnce
<1>4. Len(recency') <= MaxSessions
  BY <1>1, <1>3 DEF Ordered
<1>5. \A x \in Sessions : sessions'[x] # NoEntry <=> In(recency', x)
  BY <1>3 DEF EvictExpired, SessionsTypeOK, Ordered
<1> QED
  BY <1>3, <1>4, <1>5 DEF Ordered, In, Once

\* What is stored may be stored.
StoredType == stored \subseteq Cacheable /\ dropped \subseteq Bodies

LEMMA OrderedStep ==
  ASSUME IInv, Ordered, StoredType, [Next]_vars
  PROVE  Ordered' /\ StoredType'
<1> USE DEF IInv
<1>0. ASSUME UNCHANGED <<sessions, recency>>
      PROVE  Ordered'
  BY <1>0 DEF Ordered, In, Once
<1>1. ASSUME NEW r \in Requests, NEW tier \in Tiers, Route(r, tier)
      PROVE  Ordered' /\ StoredType'
  <2>1. calls[r].session \in Sessions /\ calls[r].body \in Bodies
    BY <1>1, CallFields DEF Route, Active
  <2> DEFINE e == Checked(Found(calls[r].session), HashOf[calls[r].body], tier)
  <2>2. e # NoEntry
    BY DEF Checked, Entry, NoEntry
  <2>3. Touch(calls[r].session, e)
    BY <1>1 DEF Route
  <2> HIDE DEF e
  <2>4. Ordered'
    BY <2>1, <2>2, <2>3, TouchOrdered DEF ProxyType
  <2> QED
    BY <1>1, <2>4 DEF Route, StoredType
<1>2. ASSUME NEW r \in Requests, Succeed(r) \/ StartStream(r)
      PROVE  Ordered' /\ StoredType'
  <2>1. calls[r].pc = "forwarding" /\ Repin(calls[r]) /\ calls[r].session \in Sessions
    BY <1>2, CallFields DEF Succeed, StartStream, Active
  <2>2. Ordered'
    BY <1>0, <2>1, PinOrdered DEF Repin, ProxyType, storeVars
  <2> QED
    BY <1>2, <2>2 DEF Succeed, StartStream, StoredType
<1>3. ASSUME NEW r \in Requests,
             Arrive(r) \/ TryNext(r) \/ Fail(r) \/ Deadline(r) \/ HangUp(r)
                       \/ CloseStored(r) \/ Close(r)
      PROVE  Ordered' /\ StoredType'
  <2>1. UNCHANGED <<sessions, recency, stored>>
    BY <1>3 DEF Arrive, ServeCompleted, Join, ServeStored, Take, TryNext, Fail, Deadline, HangUp,
                CloseStored, Close, storeVars
  <2>2. dropped' \subseteq Bodies
    <3>1. dropped' = dropped \/ (HangUp(r) \/ CloseStored(r))
      BY <1>3 DEF Arrive, ServeCompleted, Join, ServeStored, Take, TryNext, Fail, Deadline, Close
    <3>2. ASSUME HangUp(r) \/ CloseStored(r)
          PROVE  dropped' = dropped \cup {calls[r].body} /\ calls[r].body \in Bodies
      BY <3>2, CallFields DEF HangUp, CloseStored, Active
    <3> QED
      BY <3>1, <3>2 DEF StoredType
  <2> QED
    BY <1>0, <2>1, <2>2 DEF StoredType
<1>4. ASSUME NEW b \in Bodies, ExpireCompleted(b) \/ EvictStored(b)
      PROVE  Ordered' /\ StoredType'
  BY <1>0, <1>4 DEF ExpireCompleted, EvictStored, storeVars, StoredType
<1>5. ASSUME NEW s \in Sessions, ExpireSession(s)
      PROVE  Ordered' /\ StoredType'
  BY <1>5, ExpiryOrdered DEF ExpireSession, StoredType, ProxyType
<1>6. CASE UNCHANGED vars
  BY <1>0, <1>6 DEF vars, StoredType
<1> QED
  BY <1>1, <1>2, <1>3, <1>4, <1>5, <1>6 DEF Next, Proceed

\* The Map of the sessions and its order agree, and never exceed maxSessions,
\* through uses, evictions and expiries while requests are on their way
\* (getOrCreate and evictExpired); the other variables keep their types.
THEOREM TypeCorrect == Spec => []TypeOK
<1> DEFINE TInv == IInv /\ Ordered /\ StoredType
<1>1. Init => TInv
  <2>1. Init => Ordered
    BY StoreAssumption DEF Init, StoreInit, Ordered, Once, In
  <2> QED
    BY <2>1, InitIInv DEF Init, StoredType
<1>2. TInv /\ [Next]_vars => TInv'
  BY NextIInv, OrderedStep
<1>3. TInv => TypeOK
  BY DEF IInv, ProxyType, Ordered, StoredType, TypeOK, StoreTypeOK, In
<1> QED
  BY <1>1, <1>2, <1>3, PTL DEF Spec

(***************************************************************************)
(* What a step does to one request.                                        *)
(***************************************************************************)
StepOf(r) ==
  Arrive(r) \/ Proceed(r) \/ Deadline(r) \/ HangUp(r) \/ CloseStored(r) \/ Close(r)

\* The step of another request leaves a request alone, or answers it.
LEMMA OtherStep ==
  ASSUME ProxyType, NEW r \in Requests, NEW q \in Requests \ {r}, StepOf(q)
  PROVE  calls'[r] \in {calls[r], Done("served"), Done("failed")}
<1>1. PICK to :
        \/ Goes(q, to)
        \/ Settles(q, to, "served")
        \/ Settles(q, to, "failed")
  <2>1. CASE Arrive(q)
    BY <2>1 DEF Arrive, ServeCompleted, Join, ServeStored, Take
  <2>2. CASE Proceed(q)
    BY <2>2 DEF Proceed, Route, Succeed, StartStream, TryNext, Fail
  <2>3. CASE Deadline(q) \/ HangUp(q) \/ CloseStored(q) \/ Close(q)
    BY <2>3 DEF Deadline, HangUp, CloseStored, Close
  <2> QED
    BY <2>1, <2>2, <2>3 DEF StepOf
<1> QED
  BY <1>1 DEF Goes, Settles, ProxyType

LEMMA StepIsOfOne ==
  ASSUME ProxyType, [Next]_vars, NEW r \in Requests, calls'[r].pc = "forwarding"
  PROVE  calls'[r] = calls[r] \/ StepOf(r)
<1>1. ASSUME NEW q \in Requests, StepOf(q)
      PROVE  calls'[r] = calls[r] \/ StepOf(r)
  <2>1. CASE q # r
    <3>1. calls'[r] \in {calls[r], Done("served"), Done("failed")}
      BY <1>1, <2>1, OtherStep
    <3> QED
      BY <3>1 DEF Done
  <2> QED
    BY <1>1, <2>1
<1>2. ASSUME \/ \E b \in Bodies : ExpireCompleted(b) \/ EvictStored(b)
             \/ \E s \in Sessions : ExpireSession(s)
             \/ UNCHANGED vars
      PROVE  calls'[r] = calls[r]
  BY <1>2 DEF ExpireCompleted, EvictStored, ExpireSession, vars
<1> QED
  BY <1>1, <1>2 DEF Next, StepOf

\* How a request comes to forward, or to go on forwarding.
LEMMA ForwardingFrom ==
  ASSUME ProxyType, NEW r \in Requests, StepOf(r), calls'[r].pc = "forwarding"
  PROVE  \/ \E tier \in Tiers : Route(r, tier) /\ calls[r].cut = "no"
         \/ TryNext(r)
         \/ calls[r].pc = "forwarding" /\ calls'[r].attempt = calls[r].attempt
<1>1. CASE Arrive(r)
  <2>1. PICK b \in Bodies : \/ ServeCompleted(r, b) \/ Join(r, b) \/ ServeStored(r, b)
                           \/ \E s \in Sessions : Take(r, b, s)
    BY <1>1 DEF Arrive
  <2>2. ASSUME ServeCompleted(r, b) \/ Join(r, b) \/ ServeStored(r, b)
        PROVE  calls'[r].pc # "forwarding"
    BY <2>2 DEF ServeCompleted, Join, ServeStored, Goes, ProxyType, Done, Waiting, Stored
  <2>3. ASSUME NEW s \in Sessions, Take(r, b, s)
        PROVE  calls'[r].pc # "forwarding"
    <3>1. calls'[r] = Preparing(b, s, "no")
      BY <2>3 DEF Take, Goes, ProxyType
    <3> QED
      BY <3>1 DEF Preparing
  <2> QED
    BY <2>1, <2>2, <2>3
<1>2. ASSUME NEW tier \in Tiers, Route(r, tier)
      PROVE  calls[r].cut = "no"
  <2> SUFFICES ASSUME calls[r].cut # "no"
               PROVE  FALSE
    OBVIOUS
  <2>1. calls'[r] = Done("failed")
    BY <1>2 DEF Route, Settles
  <2> QED
    BY <2>1 DEF Done
<1>3. CASE Succeed(r) \/ StartStream(r) \/ Fail(r) \/ CloseStored(r) \/ Close(r)
  <2>1. calls'[r] \in {Done("served"), Done("failed"), Idle}
    BY <1>3 DEF Succeed, StartStream, Fail, CloseStored, Close, Settles, Goes, ProxyType
  <2> QED
    BY <2>1 DEF Done, Idle
<1>4. CASE Deadline(r) \/ HangUp(r)
  <2>1. PICK cut \in Cut : Active(r) /\ calls'[r] = [calls[r] EXCEPT !.cut = cut]
    BY <1>4 DEF Deadline, HangUp, Goes, Settles, ProxyType, Cut
  <2>2. calls[r].pc = "forwarding"
    BY <2>1, CutType
  <2>3. calls[r] \in [pc : {"forwarding"}, body : Bodies, session : Sessions, tier : Tiers,
                      attempt : Nat \ {0}, pinned : BOOLEAN, cut : Cut]
    BY <2>2 DEF ProxyType, Call, Idle
  <2> QED
    BY <2>1, <2>2, <2>3
<1> QED
  BY <1>1, <1>2, <1>3, <1>4 DEF StepOf, Proceed

\* No model is asked after clientAbort: the loop of processRequest looks at it
\* before every attempt.
THEOREM AbortCorrect == Spec => NoCallAfterAbort
<1>1. ASSUME IInv, [Next]_vars, NEW r \in Requests,
             Active(r), calls[r].cut # "no", calls'[r].pc = "forwarding"
      PROVE  calls[r].pc = "forwarding" /\ calls'[r].attempt = calls[r].attempt
  <2>1. CASE calls'[r] = calls[r]
    BY <1>1, <2>1
  <2>2. CASE StepOf(r)
    BY <1>1, <2>2, ForwardingFrom DEF IInv, TryNext
  <2> QED
    BY <1>1, <2>1, <2>2, StepIsOfOne DEF IInv
<1>2. IInv /\ [Next]_vars =>
        [\A r \in Requests :
           Active(r) /\ calls[r].cut # "no" /\ calls'[r].pc = "forwarding"
           => calls[r].pc = "forwarding" /\ calls'[r].attempt = calls[r].attempt]_vars
  BY <1>1
<1> QED
  BY <1>2, Inductive, PTL DEF Spec, NoCallAfterAbort

\* A strike, a low score or a released pin never routes a session below the
\* tier it is pinned to when it is routed (checkPinning).
THEOREM PinCorrect == Spec => NeverBelowPin
<1>1. ASSUME IInv, [Next]_vars, NEW r \in Requests,
             calls[r].pc = "preparing", calls'[r].pc = "forwarding"
      PROVE  calls'[r].tier >= Found(calls[r].session).pin.tier
  <2>1. PICK tier \in Tiers : Route(r, tier) /\ calls[r].cut = "no"
    <3>1. StepOf(r)
      BY <1>1, StepIsOfOne DEF IInv
    <3> QED
      BY <1>1, <3>1, ForwardingFrom DEF IInv, TryNext
  <2> DEFINE e == Found(calls[r].session)
             h == HashOf[calls[r].body]
  <2>2. calls'[r].tier = RoutedTier(e, h, tier)
    <3>1. Goes(r, Forwarding(calls[r].body, calls[r].session, RoutedTier(e, h, tier), 1,
                             KeepsPin(e, h, tier), "no"))
      BY <2>1 DEF Route
    <3> HIDE DEF e, h
    <3> QED
      BY <1>1, <3>1 DEF Goes, Forwarding, IInv, ProxyType
  <2>3. e \in SessionEntry
    BY <1>1, CallFields, FoundType DEF IInv, Active
  <2>4. e.pin.tier \in Nat
    BY <2>3, StoreAssumption DEF SessionEntry, Pin, Unpinned, Tiers
  <2>5. EffectiveTier(e, h, tier) \in Nat
    BY StoreAssumption DEF EffectiveTier, Tiers
  <2> HIDE DEF e, h
  <2>6. RoutedTier(e, h, tier) >= e.pin.tier
    BY <2>4, <2>5 DEF RoutedTier, KeepsPin
  <2> QED
    BY <2>2, <2>6 DEF e
<1>2. IInv /\ [Next]_vars =>
        [\A r \in Requests :
           calls[r].pc = "preparing" /\ calls'[r].pc = "forwarding"
           => calls'[r].tier >= Found(calls[r].session).pin.tier]_vars
  BY <1>1
<1> QED
  BY <1>2, Inductive, PTL DEF Spec, NeverBelowPin
=============================================================================
