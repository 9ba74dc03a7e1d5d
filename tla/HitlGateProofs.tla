--------------------------- MODULE HitlGateProofs ---------------------------
(***************************************************************************)
(* Proofs about HitlGate, for any number of calls, sessions, actions and   *)
(* arguments and any clock bounds.                                         *)
(***************************************************************************)
EXTENDS HitlGate, TLAPS

Slots == [Keys -> Entry \cup {NoEntry}]

\* What the queue's operations return is again a queue.
LEMMA CleanedType ==
  ASSUME NEW q \in Slots
  PROVE  Cleaned(q) \in Slots
BY DEF Cleaned, Slots

LEMMA AfterConsumeType ==
  ASSUME NEW q \in Slots, NEW k \in Keys
  PROVE  AfterConsume(q, k) \in Slots
BY DEF AfterConsume, Slots

LEMMA NewEntryType ==
  ASSUME NEW args \in Args, NEW strict \in BOOLEAN
  PROVE  NewEntry(args, strict) \in Entry
BY QueueAssumption DEF NewEntry, Entry

LEMMA AfterRequestType ==
  ASSUME NEW q \in Slots, NEW k \in Keys, NEW args \in Args, NEW strict \in BOOLEAN
  PROVE  AfterRequest(q, k, args, strict) \in Slots
BY NewEntryType DEF AfterRequest, Slots

LEMMA ApprovedType ==
  ASSUME NEW q \in Slots, NEW k \in Keys, IsPending(q[k]), NEW coded \in BOOLEAN
  PROVE  Approved(q, k, coded) \in Slots
<1>1. q[k] \in Entry
  BY DEF Slots, IsPending, NoEntry
<1>2. [status |-> "approved", args |-> q[k].args, strict |-> q[k].strict,
       left |-> TTL, coded |-> coded] \in Entry
  BY <1>1, QueueAssumption DEF Entry
<1> QED
  BY <1>2 DEF Approved, Slots

LEMMA DeniedType ==
  ASSUME NEW q \in Slots, NEW k \in Keys
  PROVE  Denied(q, k) \in Slots
BY DEF Denied, Slots

LEMMA AgedType ==
  ASSUME NEW e \in Entry \cup {NoEntry}
  PROVE  Aged(e) \in Entry \cup {NoEntry}
BY QueueAssumption DEF Aged, Entry, NoEntry

\* A key under which something is pending is pending before the clean-up too.
LEMMA CleanedPending ==
  ASSUME NEW q \in Slots, NEW k \in Keys, IsPending(Cleaned(q)[k])
  PROVE  Cleaned(q)[k] = q[k]
BY DEF Cleaned, IsPending, NoEntry, Slots

LEMMA QueueType ==
  QueueTypeOK <=> /\ entries \in Slots
                  /\ sinceCleanup \in 0..(CleanupInterval + 1)
BY DEF QueueTypeOK, Slots

LEMMA MarkCleanupType ==
  ASSUME QueueTypeOK, MarkCleanup
  PROVE  sinceCleanup' \in 0..(CleanupInterval + 1)
BY QueueAssumption DEF QueueTypeOK, MarkCleanup, CleanupDue

LEMMA QueueTickType ==
  ASSUME QueueTypeOK, QueueTick
  PROVE  QueueTypeOK'
<1>1. entries' \in Slots
  BY AgedType DEF QueueTick, QueueTypeOK, Slots
<1>2. sinceCleanup' \in 0..(CleanupInterval + 1)
  BY QueueAssumption DEF QueueTypeOK, QueueTick, CleanupDue
<1> QED
  BY <1>1, <1>2 DEF QueueTypeOK, Slots

LEMMA RecordDenialType ==
  ASSUME TrustTypeOK, NEW key \in TrustKeys, NEW of \in Subjects,
         RecordDenial(key, of)
  PROVE  TrustTypeOK'
BY TrustAssumption DEF TrustTypeOK, RecordDenial, Denial

LEMMA TrustTickType ==
  ASSUME TrustTypeOK, TrustTick
  PROVE  TrustTypeOK'
<1> SUFFICES ASSUME NEW d \in denials, d.age < Window
             PROVE  Older(d) \in Denial
  BY DEF TrustTypeOK, TrustTick
<1>1. d \in Denial
  BY DEF TrustTypeOK
<1> QED
  BY <1>1, TrustAssumption DEF Denial, Older

\* The places a call can be in.
LEMMA CallTypes ==
  /\ Idle \in Call
  /\ \A r \in Request, why \in {"policy", "approval", "terminal"} :
       Refused(r, why) \in Call
  /\ \A r \in ChannelRequest :
       Notifying(r) \in Call
  /\ \A r \in Request : Prompting(r) \in Call
  /\ \A r \in ChannelRequest, left \in 0..TTL, polled \in BOOLEAN :
       Waiting(r, left, polled) \in Call
  /\ \A r \in Request, via \in {"policy", "channel", "terminal"},
        shown \in Args :
       Running(r, via, shown) \in Call
BY DEF Call, Idle, Refused, Notifying, Prompting, Waiting, Running

LEMMA CallFields ==
  ASSUME NEW call \in Call
  PROVE  /\ call.pc # "idle" => call.req \in Request
         /\ call.pc \in {"notifying", "waiting"} => call.req \in ChannelRequest
         /\ call.pc = "waiting" => call.left \in 0..TTL
                                  /\ call.polled \in BOOLEAN
BY DEF Call, Idle, ChannelRequest, Request, Origins

LEMMA ChannelKeys ==
  /\ \A r \in ChannelRequest : r \in Request /\ KeyOf(r) \in Keys
  /\ \A r \in Request : r.session # NoSession => r \in ChannelRequest
BY DEF ChannelRequest, Request, Origins, KeyOf, Keys

\* Sending one call, or those a rejection concerns, somewhere.
LEMMA GoesType ==
  ASSUME TypeOK, NEW c \in Calls, NEW to \in Call, Goes(c, to)
  PROVE  calls' \in [Calls -> Call]
BY DEF TypeOK, Goes

\* Every variable has its type, in every reachable state.
THEOREM TypeStep ==
  ASSUME TypeOK, [Next]_vars
  PROVE  TypeOK'
<1> USE DEF TypeOK
<1>1. ASSUME NEW c \in Calls, NEW r \in Request, EvaluateAllow(c, r)
      PROVE  TypeOK'
  <2>1. Running(r, "policy", r.args) \in Call
    BY CallTypes DEF Request
  <2> QED
    BY <1>1, <2>1, GoesType DEF EvaluateAllow, QueueTypeOK, TrustTypeOK
<1>2. ASSUME NEW c \in Calls, NEW r \in Request, EvaluateDeny(c, r)
      PROVE  TypeOK'
  <2>1. Refused(r, "policy") \in Call
    BY CallTypes
  <2> QED
    BY <1>2, <2>1, GoesType DEF EvaluateDeny, QueueTypeOK, TrustTypeOK
<1>3. ASSUME NEW c \in Calls, NEW r \in Request, ConsumeApproval(c, r)
      PROVE  TypeOK'
  <2>1. KeyOf(r) \in Keys
    BY <1>3, ChannelKeys DEF ConsumeApproval
  <2>2. entries[KeyOf(r)] \in Entry
    BY <1>3, <2>1 DEF ConsumeApproval, CanConsume, IsApproved, QueueTypeOK, NoEntry
  <2>3. Running(r, "channel", entries[KeyOf(r)].args) \in Call
    BY <2>2, CallTypes DEF Entry
  <2>4. calls' \in [Calls -> Call]
    BY <1>3, <2>3, GoesType DEF ConsumeApproval
  <2>5. entries' \in Slots
    BY <1>3, <2>1, AfterConsumeType, QueueType DEF ConsumeApproval
  <2> QED
    BY <1>3, <2>4, <2>5 DEF ConsumeApproval, QueueTypeOK, TrustTypeOK, Slots
<1>4. ASSUME NEW c \in Calls, NEW r \in Request, RequestApproval(c, r)
      PROVE  TypeOK'
  <2>1. r \in ChannelRequest /\ KeyOf(r) \in Keys
    BY <1>4, ChannelKeys DEF RequestApproval
  <2>2. calls' \in [Calls -> Call]
    BY <1>4, <2>1, CallTypes, GoesType DEF RequestApproval
  <2>3. Cleaned(AfterConsume(entries, KeyOf(r))) \in Slots
    BY <2>1, QueueType, AfterConsumeType, CleanedType
  <2>4. entries' \in Slots
    BY <1>4, <2>1, <2>3, AfterRequestType DEF RequestApproval, Request
  <2> QED
    BY <1>4, <2>2, <2>4, MarkCleanupType DEF RequestApproval, QueueTypeOK, TrustTypeOK, Slots
<1>5. ASSUME NEW c \in Calls, NEW r \in Request, PromptTTY(c, r) \/ AutoDeny(c, r)
      PROVE  TypeOK'
  <2>1. Prompting(r) \in Call /\ Refused(r, "terminal") \in Call
    BY CallTypes
  <2> QED
    BY <1>5, <2>1, GoesType DEF PromptTTY, AutoDeny, QueueTypeOK, TrustTypeOK
<1>6. ASSUME NEW c \in Calls, NEW notified \in BOOLEAN, NotifyAnswer(c, notified)
      PROVE  TypeOK'
  <2>1. calls[c].req \in ChannelRequest
    BY <1>6, CallFields DEF NotifyAnswer
  <2>2. Waiting(calls[c].req, TTL, FALSE) \in Call
    <3>1. TTL \in 0..TTL
      BY QueueAssumption
    <3>2. \A left \in 0..TTL, polled \in BOOLEAN :
            Waiting(calls[c].req, left, polled) \in Call
      BY <2>1, CallTypes
    <3> QED
      BY <3>1, <3>2
  <2>3. Refused(calls[c].req, "approval") \in Call
    BY <2>1, ChannelKeys, CallTypes
  <2>4. calls' \in [Calls -> Call]
    BY <1>6, <2>2, <2>3, GoesType DEF NotifyAnswer
  <2> QED
    BY <1>6, <2>4 DEF NotifyAnswer, QueueTypeOK, TrustTypeOK
<1>7. ASSUME NEW c \in Calls, Poll(c)
      PROVE  TypeOK'
  <2>1. /\ calls[c].req \in ChannelRequest
        /\ calls[c].req \in Request
        /\ KeyOf(calls[c].req) \in Keys
        /\ calls[c].left \in 0..TTL
    BY <1>7, CallFields, ChannelKeys DEF Poll, PollApproved, PollGivesUp, PollAgain
  <2>2. CASE PollApproved(c)
    <3> DEFINE e == entries[KeyOf(calls[c].req)]
    <3>1. e \in Entry
      BY <2>1, <2>2 DEF PollApproved, IsApproved, QueueTypeOK, NoEntry
    <3>2. Running(calls[c].req, "channel", e.args) \in Call
      BY <2>1, <3>1, CallTypes DEF Entry
    <3>3. calls' \in [Calls -> Call]
      BY <2>2, <3>2, GoesType DEF PollApproved
    <3> QED
      BY <2>1, <2>2, <3>3 DEF PollApproved, QueueTypeOK, TrustTypeOK
  <2>3. CASE PollGivesUp(c)
    <3>1. calls' \in [Calls -> Call]
      BY <2>1, <2>3, CallTypes, GoesType DEF PollGivesUp
    <3> QED
      BY <2>3, <3>1 DEF PollGivesUp, QueueTypeOK, TrustTypeOK
  <2>4. CASE PollAgain(c)
    <3>1. calls' \in [Calls -> Call]
      BY <2>1, <2>4, CallTypes, GoesType DEF PollAgain
    <3> QED
      BY <2>4, <3>1 DEF PollAgain, QueueTypeOK, TrustTypeOK
  <2> QED
    BY <1>7, <2>2, <2>3, <2>4 DEF Poll
<1>8. ASSUME NEW c \in Calls, NEW code \in Codes, AnswerYes(c, code)
      PROVE  TypeOK'
  <2>1. calls[c].req \in Request
    BY <1>8, CallFields DEF AnswerYes
  <2>2. Running(calls[c].req, "terminal", calls[c].req.args) \in Call
    BY <2>1, CallTypes DEF Request
  <2>3. calls' \in [Calls -> Call]
    BY <1>8, <2>2, GoesType DEF AnswerYes
  <2> QED
    BY <1>8, <2>3 DEF AnswerYes, QueueTypeOK, TrustTypeOK
<1>9. ASSUME NEW c \in Calls, AnswerNo(c)
      PROVE  TypeOK'
  <2>1. calls' \in [Calls -> Call]
    BY <1>9, CallFields, CallTypes, GoesType DEF AnswerNo
  <2>2. TrustTypeOK'
    BY <1>9, GateAssumption, RecordDenialType DEF AnswerNo
  <2> QED
    BY <1>9, <2>1, <2>2 DEF AnswerNo, QueueTypeOK
<1>10. ASSUME NEW c \in Calls, Leave(c)
       PROVE  TypeOK'
  <2>1. calls' \in [Calls -> Call]
    BY <1>10, CallTypes, GoesType DEF Leave
  <2> QED
    BY <1>10, <2>1 DEF Leave, QueueTypeOK, TrustTypeOK
<1>11. ASSUME NEW k \in Keys, NEW code \in Codes, Approve(k, code)
       PROVE  TypeOK'
  <2>1. Cleaned(entries) \in Slots /\ IsPending(Cleaned(entries)[k])
    BY <1>11, QueueType, CleanedType DEF Approve, LatestPending
  <2>2. entries' \in Slots
    BY <1>11, <2>1, ApprovedType DEF Approve, NeedsCode
  <2> QED
    BY <1>11, <2>2, MarkCleanupType DEF Approve, QueueTypeOK, TrustTypeOK, Slots
<1>12. ASSUME NEW k \in Keys, Deny(k)
       PROVE  TypeOK'
  <2>1. entries' \in Slots
    BY <1>12, QueueType, CleanedType, DeniedType DEF Deny
  <2>2. TrustTypeOK'
    BY <1>12, GateAssumption, RecordDenialType DEF Deny, Keys
  <2> QED
    BY <1>12, <2>1, <2>2, MarkCleanupType DEF Deny, QueueTypeOK, Slots
<1>13. ASSUME NEW code \in Codes, CommandFails(code)
       PROVE  TypeOK'
  <2>1. entries' \in Slots
    BY <1>13, QueueType, CleanedType DEF CommandFails
  <2> QED
    BY <1>13, <2>1, MarkCleanupType DEF CommandFails, QueueTypeOK, TrustTypeOK, Slots
<1>14. ASSUME NEW k \in Keys, NEW decision \in {"approve", "deny"},
              ResolveBySession(k, decision)
       PROVE  TypeOK'
  <2>1. Cleaned(entries) \in Slots
    BY QueueType, CleanedType
  <2>2. IsPending(entries[k]) => IsPending(Cleaned(entries)[k])
    BY DEF Cleaned, IsPending, IsStale
  <2>3. entries' \in Slots
    BY <1>14, <2>1, <2>2, ApprovedType, DeniedType DEF ResolveBySession
  <2> QED
    BY <1>14, <2>3, MarkCleanupType DEF ResolveBySession, QueueTypeOK, TrustTypeOK, Slots
<1>15. ASSUME NEW s \in Sessions, HostRecordsDenial(s)
       PROVE  TypeOK'
  BY <1>15, GateAssumption, RecordDenialType DEF HostRecordsDenial, QueueTypeOK
<1>16. CASE Reload
  BY <1>16 DEF Reload, QueueTypeOK, TrustTypeOK
<1>17. CASE Restart
  BY <1>17, CallTypes, QueueAssumption DEF Restart, QueueTypeOK, TrustTypeOK
<1>18. CASE Tick
  <2>1. ASSUME NEW c \in Calls, calls[c].pc = "waiting"
        PROVE  Waiting(calls[c].req,
                       IF calls[c].left = 0 THEN 0 ELSE calls[c].left - 1,
                       FALSE) \in Call
    <3>1. /\ calls[c].req \in ChannelRequest
          /\ calls[c].left \in 0..TTL
      BY <2>1, CallFields
    <3>2. (IF calls[c].left = 0 THEN 0 ELSE calls[c].left - 1) \in 0..TTL
      BY <3>1, QueueAssumption
    <3> QED
      BY <3>1, <3>2, CallTypes
  <2>2. calls' \in [Calls -> Call]
    BY <1>18, <2>1 DEF Tick
  <2> QED
    BY <1>18, <2>2, QueueTickType, TrustTickType DEF Tick
<1>19. CASE UNCHANGED vars
  BY <1>19 DEF vars, QueueTypeOK, TrustTypeOK
<1> QED
  BY <1>1, <1>2, <1>3, <1>4, <1>5, <1>6, <1>7, <1>8, <1>9, <1>10, <1>11, <1>12,
     <1>13, <1>14, <1>15, <1>16, <1>17, <1>18, <1>19
     DEF Next, Evaluate, Proceed, Human, Host

\* Whatever calls, commands, hosts, reloads and restarts do, queue, limiter,
\* policy and calls keep their types.
THEOREM TypeCorrect == Spec => []TypeOK
<1>1. Init => TypeOK
  BY CallTypes, QueueAssumption DEF Init, QueueInit, TrustInit, TypeOK, QueueTypeOK, TrustTypeOK
<1> QED
  BY <1>1, TypeStep, PTL DEF Spec

-----------------------------------------------------------------------------
(***************************************************************************)
(* A strict approval came with a code.  The invariant is inductive as it   *)
(* stands: only Approve makes an approval, and it checked the code of the  *)
(* very entry it resolves.                                                 *)
(***************************************************************************)
Coded(q) == \A k \in Keys : IsApproved(q[k]) /\ q[k].strict => q[k].coded

LEMMA CleanedCoded ==
  ASSUME NEW q \in Slots, Coded(q)
  PROVE  Coded(Cleaned(q))
BY DEF Cleaned, Coded, IsApproved, NoEntry

LEMMA AfterConsumeCoded ==
  ASSUME NEW q \in Slots, NEW k \in Keys, Coded(q)
  PROVE  Coded(AfterConsume(q, k))
BY DEF AfterConsume, Coded, IsApproved, NoEntry, Slots

LEMMA AfterRequestCoded ==
  ASSUME NEW q \in Slots, NEW k \in Keys, NEW args \in Args, NEW strict \in BOOLEAN,
         Coded(q)
  PROVE  Coded(AfterRequest(q, k, args, strict))
BY DEF AfterRequest, NewEntry, Coded, IsApproved, Slots

LEMMA DeniedCoded ==
  ASSUME NEW q \in Slots, NEW k \in Keys, Coded(q)
  PROVE  Coded(Denied(q, k))
BY DEF Denied, Coded, IsApproved, NoEntry, Slots

LEMMA ApprovedCoded ==
  ASSUME NEW q \in Slots, NEW k \in Keys, NEW coded \in BOOLEAN, Coded(q),
         IsPending(q[k]), q[k].strict => coded
  PROVE  Coded(Approved(q, k, coded))
<1> SUFFICES ASSUME NEW j \in Keys,
                    IsApproved(Approved(q, k, coded)[j]), Approved(q, k, coded)[j].strict
             PROVE  Approved(q, k, coded)[j].coded
  BY DEF Coded
<1>1. CASE j = k
  BY <1>1 DEF Approved, Slots
<1>2. CASE j # k
  BY <1>2 DEF Approved, Coded, Slots
<1> QED
  BY <1>1, <1>2

\* No step leaves an approval of a strict entry that came without a code.
THEOREM CodedStep ==
  ASSUME TypeOK, StrictApprovalsCoded, [Next]_vars
  PROVE  StrictApprovalsCoded'
<1> SUFFICES ASSUME TotpConfigured, ~Embedder
             PROVE  Coded(entries)'
  BY DEF StrictApprovalsCoded, Coded
<1>1. entries \in Slots /\ Cleaned(entries) \in Slots
  BY QueueType, CleanedType DEF TypeOK
<1>2. Coded(entries) /\ Coded(Cleaned(entries))
  BY <1>1, CleanedCoded DEF StrictApprovalsCoded, Coded
<1>3. ASSUME NEW c \in Calls, NEW r \in Request, ConsumeApproval(c, r)
      PROVE  Coded(entries')
  BY <1>1, <1>2, <1>3, ChannelKeys, AfterConsumeCoded DEF ConsumeApproval
<1>4. ASSUME NEW c \in Calls, NEW r \in Request, RequestApproval(c, r)
      PROVE  Coded(entries')
  <2>1. KeyOf(r) \in Keys /\ r.args \in Args /\ r.strict \in BOOLEAN
    BY <1>4, ChannelKeys DEF RequestApproval, Request
  <2> DEFINE q == AfterConsume(entries, KeyOf(r))
  <2>2. q \in Slots /\ Coded(q)
    BY <1>1, <1>2, <2>1, AfterConsumeType, AfterConsumeCoded
  <2>3. Cleaned(q) \in Slots /\ Coded(Cleaned(q))
    BY <2>2, CleanedType, CleanedCoded
  <2> QED
    BY <1>4, <2>1, <2>3, AfterRequestCoded DEF RequestApproval
<1>5. ASSUME NEW c \in Calls, PollApproved(c)
      PROVE  Coded(entries')
  BY <1>1, <1>2, <1>5 DEF PollApproved, Coded, IsApproved, NoEntry, Slots
<1>6. ASSUME NEW k \in Keys, NEW code \in Codes, Approve(k, code)
      PROVE  Coded(entries')
  <2>1. IsPending(Cleaned(entries)[k])
    BY <1>6 DEF Approve, LatestPending
  <2>2. Cleaned(entries)[k] = entries[k]
    BY <1>1, <2>1, CleanedPending
  <2>3. entries[k].strict => NeedsCode(entries[k]) /\ code = "valid"
    BY <1>6 DEF Approve, CodeAccepted, NeedsCode
  <2> DEFINE coded == NeedsCode(entries[k]) /\ code = "valid"
  <2>4. coded \in BOOLEAN
    OBVIOUS
  <2>5. Coded(Approved(Cleaned(entries), k, coded))
    <3> HIDE DEF coded
    <3> QED
      BY <1>1, <1>2, <2>1, <2>2, <2>3, <2>4, ApprovedCoded DEF coded
  <2> QED
    BY <1>6, <2>5 DEF Approve
<1>7. ASSUME NEW k \in Keys, Deny(k)
      PROVE  Coded(entries')
  BY <1>1, <1>2, <1>7, DeniedCoded DEF Deny
<1>8. ASSUME NEW code \in Codes, CommandFails(code)
      PROVE  Coded(entries')
  BY <1>2, <1>8 DEF CommandFails
<1>9. CASE Restart
  BY <1>9 DEF Restart, Coded, IsApproved, NoEntry
<1>10. CASE Tick
  <2>1. \A k \in Keys : IsApproved(entries'[k]) =>
          /\ IsApproved(entries[k])
          /\ entries'[k].strict = entries[k].strict
          /\ entries'[k].coded = entries[k].coded
    BY <1>1, <1>10, QueueAssumption
       DEF Tick, QueueTick, Aged, IsApproved, Slots, Entry, NoEntry
  <2> QED
    BY <1>2, <2>1 DEF Coded
<1>11. CASE UNCHANGED entries
  BY <1>2, <1>11 DEF Coded
<1> QED
  BY <1>3, <1>4, <1>5, <1>6, <1>7, <1>8, <1>9, <1>10, <1>11
     DEF Next, Evaluate, Proceed, Poll, Human, Host, vars, Coded,
         EvaluateAllow, EvaluateDeny, PromptTTY, AutoDeny, NotifyAnswer,
         PollGivesUp, PollAgain, AnswerYes, AnswerNo, Leave,
         ResolveBySession, HostRecordsDenial, Reload

\* An approval of a strict entry came with a valid authenticator code.
THEOREM CodedCorrect == Spec => []StrictApprovalsCoded
<1>1. Init => StrictApprovalsCoded
  BY DEF Init, QueueInit, StrictApprovalsCoded, IsApproved, NoEntry
<1> QED
  BY <1>1, TypeCorrect, CodedStep, PTL DEF Spec

-----------------------------------------------------------------------------
(***************************************************************************)
(* The gate implements the ledger.  Besides the types, the mapping needs   *)
(* that calls stall only where a notifier is installed: a stalled call     *)
(* takes an approval up without looking at the arguments, so elsewhere the *)
(* grant would not be bound to them.                                       *)
(***************************************************************************)
StallsNotified == \A c \in Calls : calls[c].pc \in {"notifying", "waiting"} => Notifies

LedgerInv == TypeOK /\ StallsNotified

LEMMA StallsStep ==
  ASSUME LedgerInv, [Next]_vars
  PROVE  StallsNotified'
<1> SUFFICES ASSUME ~Notifies
             PROVE  \A c \in Calls : calls'[c].pc \notin {"notifying", "waiting"}
  BY DEF StallsNotified
<1>1. \A c \in Calls : calls[c].pc \notin {"notifying", "waiting"}
  BY DEF LedgerInv, StallsNotified
<1>2. ASSUME NEW c \in Calls, NEW to, Goes(c, to), to.pc \notin {"notifying", "waiting"}
      PROVE  \A d \in Calls : calls'[d].pc \notin {"notifying", "waiting"}
  BY <1>1, <1>2 DEF Goes, LedgerInv, TypeOK
<1>3. ASSUME NEW c \in Calls, NEW r \in Request, Evaluate(c, r)
      PROVE  \A d \in Calls : calls'[d].pc \notin {"notifying", "waiting"}
  BY <1>2, <1>3 DEF Evaluate, EvaluateAllow, EvaluateDeny, ConsumeApproval, RequestApproval,
                    PromptTTY, AutoDeny, Running, Refused, Prompting
<1>4. ASSUME NEW c \in Calls, Proceed(c)
      PROVE  \A d \in Calls : calls'[d].pc \notin {"notifying", "waiting"}
  BY <1>1, <1>2, <1>4 DEF Proceed, NotifyAnswer, Poll, PollApproved, PollGivesUp, PollAgain,
                    AnswerYes, AnswerNo, Leave, Running, Refused, Idle
<1>5. CASE UNCHANGED calls
  BY <1>1, <1>5
<1>6. CASE Restart
  BY <1>6 DEF Restart, Idle
<1>7. CASE Tick
  BY <1>1, <1>7 DEF Tick
<1> QED
  BY <1>3, <1>4, <1>5, <1>6, <1>7
     DEF Next, Human, Host, Approve, Deny, CommandFails, ResolveBySession,
         HostRecordsDenial, Reload, vars

\* What the queue's operations look like from the ledger.
LEMMA CleanedEntry ==
  ASSUME NEW q \in Slots, NEW k \in Keys
  PROVE  LedgerEntry(Cleaned(q)[k]) = LedgerEntry(q[k])
BY DEF Cleaned, IsStale, LedgerEntry, IsPending, IsApproved, NoEntry

LEMMA OneSlot ==
  ASSUME NEW k \in Keys, NEW x,
         \A j \in Keys : LedgerEntry(entries'[j]) =
                          IF j = k THEN x ELSE LedgerEntry(entries[j])
  PROVE  LedgerOf' = [LedgerOf EXCEPT ![k] = x]
BY DEF LedgerOf

LEMMA SameSlots ==
  ASSUME \A j \in Keys : LedgerEntry(entries'[j]) = LedgerEntry(entries[j])
  PROVE  LedgerOf' = LedgerOf
BY DEF LedgerOf

LEMMA OneRun ==
  ASSUME LedgerInv, NEW c \in Calls, NEW to, Goes(c, to)
  PROVE  RunsOf' = [RunsOf EXCEPT ![c] = LedgerRun(to)]
BY DEF RunsOf, Goes, LedgerInv, TypeOK

LEMMA NotRunning ==
  ASSUME NEW call, call.pc # "running"
  PROVE  LedgerRun(call) = [by |-> "nobody"]
BY DEF LedgerRun

\* A call that was not let through and still is not.
LEMMA SameRuns ==
  ASSUME LedgerInv, NEW c \in Calls, NEW to, Goes(c, to),
         calls[c].pc # "running", to.pc # "running"
  PROVE  RunsOf' = RunsOf
<1>1. LedgerRun(to) = LedgerRun(calls[c])
  BY NotRunning
<1> QED
  BY <1>1, OneRun DEF RunsOf

\* A step that spends, grants or withdraws under one key.
LEMMA SpendStep ==
  ASSUME LedgerInv, NEW c \in Calls, NEW r \in ChannelRequest, NEW e,
         e = entries[KeyOf(r)], IsApproved(e), ~Notifies => e.args = r.args,
         calls[c].pc # "running",
         entries' = [entries EXCEPT ![KeyOf(r)] = NoEntry],
         NEW shown,
         Goes(c, Running(r, "channel", shown))
  PROVE  Ledger!Spend(c, KeyOf(r), r.args)
<1>1. entries \in Slots /\ KeyOf(r) \in Keys
  BY ChannelKeys, QueueType DEF LedgerInv, TypeOK
<1>2. LedgerOf[KeyOf(r)] = [is |-> "granted", args |-> e.args]
  BY <1>1 DEF LedgerOf, LedgerEntry, IsPending, IsApproved
<1>3. RunsOf[c] = [by |-> "nobody"]
  BY NotRunning DEF RunsOf
<1>4. LedgerEntry(NoEntry) = [is |-> "nothing"]
  BY DEF LedgerEntry, IsPending, IsApproved, NoEntry
<1>5. LedgerOf' = [LedgerOf EXCEPT ![KeyOf(r)] = [is |-> "nothing"]]
  <2>1. \A j \in Keys : entries'[j] = IF j = KeyOf(r) THEN NoEntry ELSE entries[j]
    BY <1>1 DEF Slots
  <2> QED
    BY <1>1, <1>4, <2>1, OneSlot
<1>6. LedgerRun(Running(r, "channel", shown))
        = [by |-> "grant", key |-> KeyOf(r), args |-> r.args]
  BY DEF LedgerRun, Running
<1>7. RunsOf' = [RunsOf EXCEPT ![c] = [by |-> "grant", key |-> KeyOf(r), args |-> r.args]]
  BY <1>6, OneRun
<1> QED
  BY <1>2, <1>3, <1>5, <1>7
     DEF Ledger!Spend, Ledger!Stopped, Ledger!Nothing, Ledger!ByGrant

LEMMA FreeStep ==
  ASSUME LedgerInv, NEW c \in Calls, calls[c].pc # "running", entries' = entries,
         NEW r, NEW via \in {"policy", "terminal"}, NEW shown,
         Goes(c, Running(r, via, shown))
  PROVE  Ledger!RunFreely(c)
<1>1. RunsOf[c] = [by |-> "nobody"]
  BY NotRunning DEF RunsOf
<1>2. LedgerRun(Running(r, via, shown)) = [by |-> "other"]
  BY DEF LedgerRun, Running
<1>3. RunsOf' = [RunsOf EXCEPT ![c] = [by |-> "other"]]
  BY <1>2, OneRun
<1>4. LedgerOf' = LedgerOf
  BY SameSlots
<1> QED
  BY <1>1, <1>3, <1>4 DEF Ledger!RunFreely, Ledger!Stopped, Ledger!ByOther

LEMMA GrantStep ==
  ASSUME LedgerInv, NEW k \in Keys, IsPending(entries[k]), NEW coded,
         entries' = Approved(Cleaned(entries), k, coded), UNCHANGED calls
  PROVE  Ledger!Grant(k)
<1> DEFINE q == Cleaned(entries)
<1>1. entries \in Slots /\ q \in Slots
  BY QueueType, CleanedType DEF LedgerInv, TypeOK
<1>2. q[k] = entries[k]
  BY <1>1 DEF Cleaned, IsStale, IsPending
<1> DEFINE e == [status |-> "approved", args |-> q[k].args, strict |-> q[k].strict,
                 left |-> TTL, coded |-> coded]
<1>3. entries' = [q EXCEPT ![k] = e]
  BY <1>1 DEF Approved
<1>4. LedgerEntry(e) = [is |-> "granted", args |-> entries[k].args]
  BY <1>2, QueueAssumption DEF LedgerEntry, IsPending, IsApproved
<1>5. LedgerOf' = [LedgerOf EXCEPT ![k] = [is |-> "granted", args |-> entries[k].args]]
  <2> HIDE DEF q, e
  <2>1. \A j \in Keys : LedgerEntry(q[j]) = LedgerEntry(entries[j])
    BY <1>1, CleanedEntry DEF q
  <2>2. \A j \in Keys : entries'[j] = IF j = k THEN e ELSE q[j]
    BY <1>1, <1>3 DEF Slots
  <2> QED
    BY <1>4, <2>1, <2>2, OneSlot
<1>6. LedgerOf[k] = [is |-> "asked", args |-> entries[k].args]
  BY DEF LedgerOf, LedgerEntry
<1>7. RunsOf' = RunsOf
  BY DEF RunsOf
<1> QED
  BY <1>5, <1>6, <1>7 DEF Ledger!Grant, Ledger!Granted

LEMMA WithdrawStep ==
  ASSUME LedgerInv, NEW k \in Keys, entries' = Denied(Cleaned(entries), k), UNCHANGED calls
  PROVE  Ledger!Withdraw({k})
<1>1. entries \in Slots /\ Cleaned(entries) \in Slots
  BY QueueType, CleanedType DEF LedgerInv, TypeOK
<1>2. LedgerEntry(NoEntry) = [is |-> "nothing"]
  BY DEF LedgerEntry, IsPending, IsApproved, NoEntry
<1>3. LedgerOf' = [LedgerOf EXCEPT ![k] = [is |-> "nothing"]]
  <2>1. \A j \in Keys : LedgerEntry(Cleaned(entries)[j]) = LedgerEntry(entries[j])
    BY <1>1, CleanedEntry
  <2>2. \A j \in Keys : entries'[j] = IF j = k THEN NoEntry ELSE Cleaned(entries)[j]
    BY <1>1 DEF Denied, Slots
  <2> QED
    BY <1>2, <2>1, <2>2, OneSlot
<1>4. LedgerOf' = [j \in Keys |-> IF j \in {k} THEN [is |-> "nothing"] ELSE LedgerOf[j]]
  BY <1>3 DEF LedgerOf
<1> QED
  BY <1>4 DEF Ledger!Withdraw, Ledger!Nothing, RunsOf

LEMMA CleanStep ==
  ASSUME LedgerInv, entries' = Cleaned(entries), UNCHANGED calls
  PROVE  UNCHANGED <<LedgerOf, RunsOf>>
<1>1. entries \in Slots
  BY QueueType DEF LedgerInv, TypeOK
<1>2. LedgerOf' = LedgerOf
  BY <1>1, CleanedEntry, SameSlots
<1> QED
  BY <1>2 DEF RunsOf

\* A request that finds no approval for its arguments is asked about, or
\* finds the question already before the human.
LEMMA AskStep ==
  ASSUME LedgerInv, NEW c \in Calls, NEW r \in Request, RequestApproval(c, r)
  PROVE  \/ Ledger!Ask(KeyOf(r), r.args)
         \/ UNCHANGED <<LedgerOf, RunsOf>>
<1> DEFINE k == KeyOf(r)
           p == AfterConsume(entries, k)
           q == Cleaned(p)
<1>1. k \in Keys
  BY ChannelKeys DEF RequestApproval
<1>2. entries \in Slots /\ p \in Slots /\ q \in Slots
  BY <1>1, QueueType, AfterConsumeType, CleanedType DEF LedgerInv, TypeOK
<1>3. calls[c].pc # "running"
  BY DEF RequestApproval, Evaluates, Idle
<1>4. Goes(c, IF Notifies THEN Notifying(r) ELSE Refused(r, "approval"))
  BY DEF RequestApproval
<1>5. RunsOf' = RunsOf
  <2>1. (IF Notifies THEN Notifying(r) ELSE Refused(r, "approval")).pc # "running"
    BY DEF Notifying, Refused
  <2> QED
    BY <1>3, <1>4, <2>1, SameRuns
<1>6. \A j \in Keys : LedgerEntry(q[j]) = LedgerEntry(p[j])
  BY <1>2, CleanedEntry
<1>7. \A j \in Keys : j # k => p[j] = entries[j]
  BY <1>1, <1>2 DEF AfterConsume, Slots
<1>8. entries' = AfterRequest(q, k, r.args, r.strict)
  BY DEF RequestApproval
<1>9. CASE WithinRetryWindow(q[k])
  <2>1. entries' = q
    BY <1>8, <1>9 DEF AfterRequest
  <2>2. p = entries
    <3>1. LedgerEntry(q[k]).is = "asked"
      BY <1>9 DEF WithinRetryWindow, LedgerEntry
    <3>2. LedgerEntry(p[k]).is = "asked"
      BY <1>1, <1>6, <3>1
    <3>3. p[k] # NoEntry
      BY <3>2 DEF LedgerEntry, IsPending, IsApproved, NoEntry
    <3> QED
      BY <1>1, <1>2, <3>3 DEF AfterConsume, Slots
  <2>3. \A j \in Keys : LedgerEntry(entries'[j]) = LedgerEntry(entries[j])
    BY <1>6, <2>1, <2>2
  <2> QED
    BY <1>5, <2>3, SameSlots
<1>10. CASE ~WithinRetryWindow(q[k])
  <2>1. entries' = [q EXCEPT ![k] = NewEntry(r.args, r.strict)]
    BY <1>8, <1>10 DEF AfterRequest
  <2>2. \A j \in Keys : entries'[j] = IF j = k THEN NewEntry(r.args, r.strict) ELSE q[j]
    BY <1>1, <1>2, <2>1 DEF Slots
  <2>3. LedgerEntry(NewEntry(r.args, r.strict)) = [is |-> "asked", args |-> r.args]
    BY QueueAssumption DEF NewEntry, LedgerEntry, IsPending
  <2>4. LedgerOf' = [LedgerOf EXCEPT ![k] = [is |-> "asked", args |-> r.args]]
    <3> HIDE DEF k, p, q
    <3> QED
      BY <1>1, <1>6, <1>7, <2>2, <2>3, OneSlot
  <2> QED
    BY <1>5, <2>4 DEF Ledger!Ask, Ledger!Asked
<1> QED
  BY <1>9, <1>10

\* With the clock, what reaches the end of its life leaves the ledger.
LEMMA TickStep ==
  ASSUME LedgerInv, Tick
  PROVE  Ledger!Withdraw({k \in Keys : entries[k].status # "absent" /\ entries[k].left = 1})
<1> DEFINE K == {k \in Keys : entries[k].status # "absent" /\ entries[k].left = 1}
<1>1. \A k \in Keys : LedgerEntry(entries'[k])
                       = IF k \in K THEN [is |-> "nothing"] ELSE LedgerEntry(entries[k])
  <2> SUFFICES ASSUME NEW k \in Keys
               PROVE  LedgerEntry(entries'[k])
                       = IF k \in K THEN [is |-> "nothing"] ELSE LedgerEntry(entries[k])
    OBVIOUS
  <2>1. entries'[k] = Aged(entries[k])
    BY DEF Tick, QueueTick
  <2>2. entries[k] \in Entry \cup {NoEntry}
    BY DEF LedgerInv, TypeOK, QueueTypeOK
  <2>3. CASE entries[k] = NoEntry
    BY <2>1, <2>3 DEF Aged, LedgerEntry, IsPending, IsApproved, NoEntry
  <2>4. CASE entries[k] \in Entry
    BY <2>1, <2>4, QueueAssumption DEF Aged, LedgerEntry, IsPending, IsApproved, Entry
  <2> QED
    BY <2>2, <2>3, <2>4
<1>2. LedgerOf' = [k \in Keys |-> IF k \in K THEN [is |-> "nothing"] ELSE LedgerOf[k]]
  BY <1>1 DEF LedgerOf
<1>3. RunsOf' = RunsOf
  <2> SUFFICES ASSUME NEW c \in Calls
               PROVE  LedgerRun(calls'[c]) = LedgerRun(calls[c])
    BY DEF RunsOf
  <2> QED
    BY DEF Tick, Waiting, LedgerRun
<1> QED
  BY <1>2, <1>3 DEF Ledger!Withdraw, Ledger!Nothing

\* Every step of the gate is a step of the ledger, or none.
THEOREM LedgerStep ==
  ASSUME LedgerInv, [Next]_vars
  PROVE  [Ledger!Next]_<<LedgerOf, RunsOf>>
<1> USE DEF Ledger!Next
<1>1. ASSUME NEW c \in Calls, NEW r \in Request, EvaluateAllow(c, r)
      PROVE  Ledger!Next
  <2>1. entries' = entries /\ Goes(c, Running(r, "policy", r.args))
    BY <1>1 DEF EvaluateAllow
  <2>2. calls[c].pc # "running"
    BY <1>1 DEF EvaluateAllow, Evaluates, Idle
  <2>3. Ledger!RunFreely(c)
    BY <2>1, <2>2, FreeStep
  <2> QED
    BY <2>3
<1>2. ASSUME NEW c \in Calls, NEW r \in Request,
             EvaluateDeny(c, r) \/ PromptTTY(c, r) \/ AutoDeny(c, r)
      PROVE  UNCHANGED <<LedgerOf, RunsOf>>
  BY <1>2, SameRuns, SameSlots
     DEF EvaluateDeny, PromptTTY, AutoDeny, Evaluates, Idle, Refused, Prompting
<1>3. ASSUME NEW c \in Calls, NEW r \in Request, ConsumeApproval(c, r)
      PROVE  Ledger!Next
  <2>1. r \in ChannelRequest /\ KeyOf(r) \in Keys /\ r.args \in Args
    BY <1>3, ChannelKeys DEF ConsumeApproval, Request
  <2>2. entries' = [entries EXCEPT ![KeyOf(r)] = NoEntry]
    BY <1>3 DEF ConsumeApproval, AfterConsume, CanConsume
  <2>3. calls[c].pc # "running"
    BY <1>3 DEF ConsumeApproval, Evaluates, Idle
  <2>4. /\ IsApproved(entries[KeyOf(r)])
        /\ entries[KeyOf(r)].args = r.args
        /\ Goes(c, Running(r, "channel", entries[KeyOf(r)].args))
    BY <1>3 DEF ConsumeApproval, CanConsume
  <2>5. Ledger!Spend(c, KeyOf(r), r.args)
    BY <2>1, <2>2, <2>3, <2>4, SpendStep
  <2> QED
    BY <2>1, <2>5
<1>4. ASSUME NEW c \in Calls, NEW r \in Request, RequestApproval(c, r)
      PROVE  Ledger!Next \/ UNCHANGED <<LedgerOf, RunsOf>>
  <2>1. KeyOf(r) \in Keys /\ r.args \in Args
    BY <1>4, ChannelKeys DEF RequestApproval, Request
  <2> QED
    BY <1>4, <2>1, AskStep
<1>5. ASSUME NEW c \in Calls, NEW notified \in BOOLEAN, NotifyAnswer(c, notified)
      PROVE  UNCHANGED <<LedgerOf, RunsOf>>
  BY <1>5, SameRuns, SameSlots DEF NotifyAnswer, Waiting, Refused
<1>6. ASSUME NEW c \in Calls, PollApproved(c)
      PROVE  Ledger!Next
  <2>1. /\ calls[c].req \in ChannelRequest
        /\ KeyOf(calls[c].req) \in Keys
        /\ calls[c].req.args \in Args
    BY <1>6, CallFields, ChannelKeys DEF PollApproved, LedgerInv, TypeOK, ChannelRequest
  <2>2. Notifies
    BY <1>6 DEF PollApproved, LedgerInv, StallsNotified
  <2>3. Ledger!Spend(c, KeyOf(calls[c].req), calls[c].req.args)
    BY <1>6, <2>1, <2>2, SpendStep DEF PollApproved
  <2> QED
    BY <2>1, <2>3
<1>7. ASSUME NEW c \in Calls, PollGivesUp(c) \/ PollAgain(c)
      PROVE  UNCHANGED <<LedgerOf, RunsOf>>
  BY <1>7, SameRuns, SameSlots DEF PollGivesUp, PollAgain, Waiting, Refused
<1>8. ASSUME NEW c \in Calls, NEW code \in Codes, AnswerYes(c, code)
      PROVE  Ledger!Next
  <2>1. Ledger!RunFreely(c)
    BY <1>8, FreeStep DEF AnswerYes
  <2> QED
    BY <2>1
<1>9. ASSUME NEW c \in Calls, AnswerNo(c)
      PROVE  UNCHANGED <<LedgerOf, RunsOf>>
  BY <1>9, SameRuns, SameSlots DEF AnswerNo, Refused
<1>10. ASSUME NEW c \in Calls, Leave(c)
       PROVE  Ledger!Next
  <2>1. LedgerRun(Idle) = [by |-> "nobody"]
    BY DEF LedgerRun, Idle
  <2>2. RunsOf' = [RunsOf EXCEPT ![c] = [by |-> "nobody"]]
    BY <1>10, <2>1, OneRun DEF Leave
  <2>3. Ledger!Stop(c)
    BY <1>10, <2>2, SameSlots DEF Leave, Ledger!Stop, Ledger!Stopped
  <2> QED
    BY <2>3
<1>11. ASSUME NEW k \in Keys, NEW code \in Codes, Approve(k, code)
       PROVE  Ledger!Next
  <2>1. IsPending(Cleaned(entries)[k]) /\ Cleaned(entries)[k] = entries[k]
    BY <1>11, CleanedPending, QueueType DEF Approve, LatestPending, LedgerInv, TypeOK
  <2>2. Ledger!Grant(k)
    BY <1>11, <2>1, GrantStep DEF Approve
  <2> QED
    BY <2>2
<1>12. ASSUME NEW k \in Keys, Deny(k)
       PROVE  Ledger!Next
  <2>1. Ledger!Withdraw({k})
    BY <1>12, WithdrawStep DEF Deny
  <2> QED
    BY <2>1
<1>13. ASSUME NEW code \in Codes, CommandFails(code)
       PROVE  UNCHANGED <<LedgerOf, RunsOf>>
  BY <1>13, CleanStep DEF CommandFails
<1>14. ASSUME NEW k \in Keys, NEW decision \in {"approve", "deny"},
              ResolveBySession(k, decision)
       PROVE  Ledger!Next \/ UNCHANGED <<LedgerOf, RunsOf>>
  <2>1. CASE entries' = Cleaned(entries) /\ UNCHANGED calls
    BY <2>1, CleanStep
  <2>2. CASE IsPending(entries[k]) /\ entries' = Approved(Cleaned(entries), k, FALSE)
             /\ UNCHANGED calls
    <3>1. Ledger!Grant(k)
      BY <2>2, GrantStep
    <3> QED
      BY <3>1
  <2>3. CASE entries' = Denied(Cleaned(entries), k) /\ UNCHANGED calls
    <3>1. Ledger!Withdraw({k})
      BY <2>3, WithdrawStep
    <3> QED
      BY <3>1
  <2> QED
    BY <1>14, <2>1, <2>2, <2>3 DEF ResolveBySession
<1>15. CASE UNCHANGED <<entries, calls>>
  BY <1>15 DEF LedgerOf, RunsOf
<1>16. CASE Restart
  <2>1. LedgerOf' = [k \in Keys |-> [is |-> "nothing"]]
    BY <1>16 DEF Restart, LedgerOf, LedgerEntry, IsPending, IsApproved, NoEntry
  <2>2. RunsOf' = [c \in Calls |-> [by |-> "nobody"]]
    BY <1>16 DEF Restart, RunsOf, LedgerRun, Idle
  <2> QED
    BY <2>1, <2>2 DEF Ledger!Forget, Ledger!Nothing, Ledger!Stopped
<1>17. CASE Tick
  BY <1>17, TickStep
<1> QED
  BY <1>1, <1>2, <1>3, <1>4, <1>5, <1>6, <1>7, <1>8, <1>9, <1>10, <1>11, <1>12,
     <1>13, <1>14, <1>15, <1>16, <1>17
     DEF Next, Evaluate, Proceed, Poll, Human, Host, HostRecordsDenial, Reload, vars

\* The gate implements the ledger: each yes lets at most one call through, of
\* the session and action asked about, and - without a notifier - with the
\* arguments asked about.
THEOREM LedgerCorrect == Spec => LedgerSpec
<1>1. Init => Ledger!Init
  BY DEF Init, QueueInit, Ledger!Init, LedgerOf, RunsOf, LedgerEntry, LedgerRun,
         IsPending, IsApproved, NoEntry, Idle, Ledger!Nothing, Ledger!Stopped
<1>2. Init => StallsNotified
  BY DEF Init, StallsNotified, Idle
<1>3. LedgerInv /\ [Next]_vars => StallsNotified'
  BY StallsStep
<1>4. LedgerInv /\ [Next]_vars => [Ledger!Next]_<<LedgerOf, RunsOf>>
  BY LedgerStep
<1> QED
  BY <1>1, <1>2, <1>3, <1>4, TypeCorrect, PTL DEF Spec, LedgerInv, LedgerSpec, Ledger!Spec
-----------------------------------------------------------------------------
(***************************************************************************)
(* What a step may never do.                                               *)
(***************************************************************************)

(***************************************************************************)
(* An approval survives what is done about other requests.                 *)
(***************************************************************************)
LEMMA CleanedApproved ==
  ASSUME NEW q \in Slots, NEW k \in Keys, IsApproved(q[k])
  PROVE  Cleaned(q)[k] = q[k]
BY DEF Cleaned, IsApproved, IsStale, Slots, Entry, NoEntry

LEMMA ApprovedIsEntry ==
  ASSUME NEW q \in Slots, NEW k \in Keys, IsApproved(q[k])
  PROVE  q[k] \in Entry /\ q[k].status = "approved" /\ q[k].left \in 1..TTL
<1>1. q[k] \in Entry
  BY DEF Slots, IsApproved, NoEntry
<1>2. TTL \in Nat
  BY QueueAssumption
<1> QED
  BY <1>1, <1>2 DEF IsApproved, Entry

Lapses(k) ==
  \/ SpentBy(k)
  \/ SupersededBy(k)
  \/ entries[k].left = 1 /\ IsStale(entries'[k])
  \/ \A c \in Calls : calls'[c] = Idle

\* One call goes on.
LEMMA CallLapse ==
  ASSUME TypeOK, NEW k \in Keys, IsApproved(entries[k]), ~IsApproved(entries'[k]),
         NEW c \in Calls,
         Proceed(c) \/ \E r \in Request : Evaluate(c, r)
  PROVE  SpentBy(k) \/ SupersededBy(k)
<1> USE QueueType DEF TypeOK
<1>1. ASSUME NEW r \in Request, ConsumeApproval(c, r)
      PROVE  SpentBy(k) \/ SupersededBy(k)
  <2>1. k = KeyOf(r)
    BY <1>1, ChannelKeys DEF ConsumeApproval, AfterConsume, Slots
  <2>2. calls[c] = Idle /\ calls'[c] = Running(r, "channel", entries[KeyOf(r)].args)
    BY <1>1 DEF ConsumeApproval, Evaluates, Goes
  <2>3. SpentBy(k)
    BY <2>1, <2>2 DEF SpentBy, Running, Idle
  <2> QED
    BY <2>3
<1>2. ASSUME NEW r \in Request, RequestApproval(c, r)
      PROVE  SpentBy(k) \/ SupersededBy(k)
  <2> DEFINE j == KeyOf(r)
             q == Cleaned(AfterConsume(entries, j))
  <2>1. j \in Keys /\ AfterConsume(entries, j) \in Slots /\ q \in Slots
    BY <1>2, ChannelKeys, AfterConsumeType, CleanedType DEF RequestApproval
  <2>2. entries' = AfterRequest(q, j, r.args, r.strict)
    BY <1>2 DEF RequestApproval
  <2>3. k = j
    <3> SUFFICES ASSUME k # j
                 PROVE  FALSE
      OBVIOUS
    <3>1. AfterConsume(entries, j)[k] = entries[k]
      BY <2>1 DEF AfterConsume, Slots
    <3>2. q[k] = entries[k]
      BY <2>1, <3>1, CleanedApproved
    <3> HIDE DEF q, j
    <3>3. entries'[k] = q[k]
      BY <2>1, <2>2 DEF AfterRequest, Slots
    <3> QED
      BY <3>2, <3>3
  <2>4. entries[k].args # r.args
    BY <1>2, <2>3 DEF RequestApproval, CanConsume
  <2>5. q[k] = NoEntry
    <3>1. AfterConsume(entries, j)[k] = NoEntry
      BY <2>3 DEF AfterConsume, Slots
    <3> QED
      BY <3>1 DEF Cleaned
  <2> HIDE DEF q
  <2>6. entries'[k] = NewEntry(r.args, r.strict)
    BY <2>1, <2>2, <2>3, <2>5 DEF AfterRequest, WithinRetryWindow, IsPending, NoEntry, Slots
  <2>7. IsPending(entries'[k]) /\ entries'[k].args = r.args
    BY <2>6, QueueAssumption DEF NewEntry, IsPending
  <2>8. /\ calls[c] = Idle
        /\ calls'[c] = IF Notifies THEN Notifying(r) ELSE Refused(r, "approval")
    BY <1>2 DEF RequestApproval, Evaluates, Goes
  <2>9. calls'[c] # Idle /\ calls'[c].req = r
    BY <2>8 DEF Notifying, Refused, Idle
  <2>10. SupersededBy(k)
    BY <2>3, <2>4, <2>7, <2>8, <2>9 DEF SupersededBy
  <2> QED
    BY <2>10
<1>3. ASSUME PollApproved(c)
      PROVE  SpentBy(k) \/ SupersededBy(k)
  <2> DEFINE r == calls[c].req
  <2>1. k = KeyOf(r)
    BY <1>3 DEF PollApproved, Slots
  <2>2. calls[c].pc = "waiting" /\ calls'[c] = Running(r, "channel", entries[KeyOf(r)].args)
    BY <1>3 DEF PollApproved, Goes
  <2>3. SpentBy(k)
    BY <2>1, <2>2 DEF SpentBy, Running
  <2> QED
    BY <2>3
<1>4. ASSUME UNCHANGED entries
      PROVE  SpentBy(k) \/ SupersededBy(k)
  BY <1>4
<1>5. CASE Proceed(c)
  <2>1. PollApproved(c) \/ UNCHANGED entries
    BY <1>5 DEF Proceed, NotifyAnswer, Poll, PollGivesUp, PollAgain, AnswerNo, AnswerYes, Leave
  <2> QED
    BY <2>1, <1>3, <1>4
<1>6. ASSUME NEW r \in Request, Evaluate(c, r)
      PROVE  SpentBy(k) \/ SupersededBy(k)
  <2>1. ConsumeApproval(c, r) \/ RequestApproval(c, r) \/ UNCHANGED entries
    BY <1>6 DEF Evaluate, EvaluateAllow, EvaluateDeny, PromptTTY, AutoDeny
  <2> QED
    BY <2>1, <1>1, <1>2, <1>4
<1> QED
  BY <1>5, <1>6

\* A command or a host resolves one pending entry, and cleans up.
LEMMA ResolutionKeeps ==
  ASSUME TypeOK, NEW k \in Keys, IsApproved(entries[k]),
         Human \/ Host
  PROVE  IsApproved(entries'[k])
<1> USE QueueType DEF TypeOK
<1>1. Cleaned(entries) \in Slots /\ Cleaned(entries)[k] = entries[k]
  BY CleanedType, CleanedApproved
<1>2. ASSUME NEW j \in Keys, NEW coded \in BOOLEAN, IsPending(entries[j]),
             \/ entries' = Approved(Cleaned(entries), j, coded)
             \/ entries' = Denied(Cleaned(entries), j)
      PROVE  IsApproved(entries'[k])
  <2>1. j # k
    BY <1>2 DEF IsPending, IsApproved
  <2>2. entries'[k] = Cleaned(entries)[k]
    BY <1>1, <1>2, <2>1 DEF Approved, Denied, Slots
  <2> QED
    BY <1>1, <2>2
<1>3. \A j \in LatestPending(Cleaned(entries)) : j \in Keys /\ IsPending(entries[j])
  BY CleanedPending DEF LatestPending
<1>4. ASSUME NEW j \in Keys, NEW code \in Codes, Approve(j, code)
      PROVE  IsApproved(entries'[k])
  <2>1. IsPending(entries[j])
    BY <1>3, <1>4 DEF Approve
  <2>2. PICK coded \in BOOLEAN : entries' = Approved(Cleaned(entries), j, coded)
    BY <1>4 DEF Approve, NeedsCode
  <2> QED
    BY <1>2, <2>1, <2>2
<1>5. ASSUME NEW j \in Keys, Deny(j)
      PROVE  IsApproved(entries'[k])
  BY <1>2, <1>3, <1>5 DEF Deny
<1>6. ASSUME NEW code \in Codes, CommandFails(code)
      PROVE  IsApproved(entries'[k])
  BY <1>1, <1>6 DEF CommandFails
<1>7. ASSUME NEW j \in Keys, ResolveBySession(j, "approve") \/ ResolveBySession(j, "deny")
      PROVE  IsApproved(entries'[k])
  <2>1. \/ entries' = Cleaned(entries)
        \/ /\ IsPending(entries[j])
           /\ \/ entries' = Approved(Cleaned(entries), j, FALSE)
              \/ entries' = Denied(Cleaned(entries), j)
    BY <1>7 DEF ResolveBySession
  <2> QED
    BY <1>1, <1>2, <2>1
<1>8. ASSUME NEW s \in Sessions, HostRecordsDenial(s)
      PROVE  IsApproved(entries'[k])
  BY <1>8 DEF HostRecordsDenial
<1> QED
  BY <1>4, <1>5, <1>6, <1>7, <1>8 DEF Human, Host

LEMMA TickLapse ==
  ASSUME TypeOK, NEW k \in Keys, IsApproved(entries[k]), ~IsApproved(entries'[k]), Tick
  PROVE  Lapses(k)
<1>1. entries[k] \in Entry /\ entries[k].status = "approved" /\ entries[k].left \in 1..TTL
  BY QueueType, ApprovedIsEntry DEF TypeOK
<1>2. entries'[k] = Aged(entries[k])
  BY DEF Tick, QueueTick
<1>3. /\ entries'[k].status = "approved"
      /\ entries'[k].left = entries[k].left - 1
  BY <1>1, <1>2, QueueAssumption DEF Aged
<1>4. entries[k].left = 1
  BY <1>1, <1>3, QueueAssumption DEF IsApproved
<1> QED
  BY <1>3, <1>4 DEF Lapses, IsStale

\* An approval is taken away by nothing but a call that spends it, a call with
\* other arguments, the end of its life or a restart: the clean-up, commands
\* about other requests and retries leave it alone.
THEOREM KeptCorrect == Spec => ApprovalsKept
<1>1. ASSUME TypeOK, [Next]_vars, NEW k \in Keys,
             IsApproved(entries[k]), ~IsApproved(entries'[k])
      PROVE  Lapses(k)
  <2>1. CASE UNCHANGED <<entries, calls>>
    BY <1>1, <2>1
  <2>2. CASE Restart
    BY <2>2 DEF Restart, Lapses
  <2>3. CASE Tick
    BY <1>1, <2>3, TickLapse
  <2>4. CASE Human \/ Host
    BY <1>1, <2>4, ResolutionKeeps
  <2>5. ASSUME NEW c \in Calls, Proceed(c) \/ \E r \in Request : Evaluate(c, r)
        PROVE  Lapses(k)
    BY <1>1, <2>5, CallLapse DEF Lapses
  <2> QED
    BY <1>1, <2>1, <2>2, <2>3, <2>4, <2>5 DEF Next, Reload, vars
<1>2. TypeOK /\ [Next]_vars =>
        [\A k \in Keys : IsApproved(entries[k]) /\ ~IsApproved(entries'[k]) =>
           \/ SpentBy(k)
           \/ SupersededBy(k)
           \/ entries[k].left = 1 /\ IsStale(entries'[k])
           \/ \A c \in Calls : calls'[c] = Idle]_vars
  BY <1>1 DEF Lapses
<1> QED
  BY <1>2, TypeCorrect, PTL DEF Spec, ApprovalsKept

(***************************************************************************)
(* A question is not exchanged while the human reads it.                   *)
(***************************************************************************)
Stands(k) ==
  \/ SameQuestion(entries[k], entries'[k])
  \/ AnsweredAt(k)
  \/ AskedAnew(k)
  \/ entries[k].left = 1 /\ IsStale(entries'[k])
  \/ \A c \in Calls, j \in Keys : calls'[c] = Idle /\ entries'[j] = NoEntry

LEMMA PendingKept ==
  ASSUME NEW q \in Slots, NEW k \in Keys, IsPending(q[k])
  PROVE  Cleaned(q)[k] = q[k]
BY DEF Cleaned, IsPending, IsStale, Slots, Entry, NoEntry

LEMMA PendingIsEntry ==
  ASSUME NEW q \in Slots, NEW k \in Keys, IsPending(q[k])
  PROVE  q[k] \in Entry /\ q[k].status = "pending" /\ q[k].left \in 1..TTL
<1>1. q[k] \in Entry
  BY DEF Slots, IsPending, NoEntry
<1>2. TTL \in Nat
  BY QueueAssumption
<1> QED
  BY <1>1, <1>2 DEF IsPending, Entry

\* What is the latest after a clean-up was so before it.
LEMMA LatestKept ==
  ASSUME NEW q \in Slots, NEW k \in LatestPending(Cleaned(q))
  PROVE  k \in Keys /\ IsPending(q[k]) /\ k \in LatestPending(q)
<1>1. k \in Keys /\ IsPending(Cleaned(q)[k])
  BY DEF LatestPending
<1>2. IsPending(q[k]) /\ Cleaned(q)[k] = q[k]
  BY <1>1, CleanedPending
<1>3. ASSUME NEW j \in Keys, IsPending(q[j])
      PROVE  q[j].left <= q[k].left
  <2>1. Cleaned(q)[j] = q[j]
    BY <1>3, PendingKept
  <2> QED
    BY <1>2, <1>3, <2>1 DEF LatestPending
<1> QED
  BY <1>1, <1>2, <1>3 DEF LatestPending

\* One call goes on.
LEMMA CallStands ==
  ASSUME TypeOK, NEW k \in Keys, IsPending(entries[k]), NEW c \in Calls,
         Proceed(c) \/ \E r \in Request : Evaluate(c, r)
  PROVE  Stands(k)
<1> USE QueueType DEF TypeOK
<1>0. /\ entries \in Slots
      /\ ~IsApproved(entries[k])
      /\ SameQuestion(entries[k], entries[k])
  BY DEF IsPending, IsApproved, SameQuestion
<1>1. ASSUME NEW r \in Request, ConsumeApproval(c, r)
      PROVE  Stands(k)
  <2>1. k # KeyOf(r) /\ KeyOf(r) \in Keys
    BY <1>0, <1>1, ChannelKeys DEF ConsumeApproval, CanConsume
  <2>2. entries'[k] = entries[k]
    BY <1>0, <1>1, <2>1 DEF ConsumeApproval, AfterConsume, Slots
  <2> QED
    BY <1>0, <2>2 DEF Stands
<1>2. ASSUME NEW r \in Request, RequestApproval(c, r)
      PROVE  Stands(k)
  <2> DEFINE j == KeyOf(r)
             q == Cleaned(AfterConsume(entries, j))
  <2>1. j \in Keys /\ AfterConsume(entries, j) \in Slots /\ q \in Slots
    BY <1>2, ChannelKeys, AfterConsumeType, CleanedType DEF RequestApproval
  <2>2. entries' = AfterRequest(q, j, r.args, r.strict)
    BY <1>2 DEF RequestApproval
  <2>3. AfterConsume(entries, j)[k] = entries[k]
    BY <1>0, <2>1 DEF AfterConsume, Slots
  <2>4. q[k] = entries[k]
    BY <1>0, <2>1, <2>3, PendingKept
  <2>5. /\ calls[c] = Idle
        /\ calls'[c] = IF Notifies THEN Notifying(r) ELSE Refused(r, "approval")
    BY <1>2 DEF RequestApproval, Evaluates, Goes
  <2>6. calls'[c] # Idle /\ calls'[c].req = r
    BY <2>5 DEF Notifying, Refused, Idle
  <2>7. ASSUME k = j, ~WithinRetryWindow(q[k])
        PROVE  Stands(k)
    <3>1. TTL - entries[k].left > RetryWindow
      <4>1. entries[k].left \in 1..TTL
        BY <1>0, PendingIsEntry
      <4>2. ~(TTL - entries[k].left <= RetryWindow)
        BY <2>4, <2>7 DEF WithinRetryWindow
      <4> QED
        BY <4>1, <4>2, QueueAssumption
    <3> QED
      BY <2>5, <2>6, <2>7, <3>1 DEF Stands, AskedAnew
  <2>8. ASSUME k # j \/ WithinRetryWindow(q[k])
        PROVE  Stands(k)
    <3> HIDE DEF q, j
    <3>1. entries'[k] = q[k]
      BY <2>1, <2>2, <2>8 DEF AfterRequest, Slots
    <3> QED
      BY <1>0, <2>4, <3>1 DEF Stands
  <2> QED
    BY <2>7, <2>8
<1>3. ASSUME PollApproved(c)
      PROVE  Stands(k)
  <2>1. k # KeyOf(calls[c].req)
    BY <1>0, <1>3 DEF PollApproved
  <2>2. entries'[k] = entries[k]
    BY <1>0, <1>3, <2>1 DEF PollApproved, Slots
  <2> QED
    BY <1>0, <2>2 DEF Stands
<1>4. ASSUME UNCHANGED entries
      PROVE  Stands(k)
  BY <1>0, <1>4 DEF Stands
<1>5. CASE Proceed(c)
  <2>1. PollApproved(c) \/ UNCHANGED entries
    BY <1>5 DEF Proceed, NotifyAnswer, Poll, PollGivesUp, PollAgain, AnswerNo, AnswerYes, Leave
  <2> QED
    BY <2>1, <1>3, <1>4
<1>6. ASSUME NEW r \in Request, Evaluate(c, r)
      PROVE  Stands(k)
  <2>1. ConsumeApproval(c, r) \/ RequestApproval(c, r) \/ UNCHANGED entries
    BY <1>6 DEF Evaluate, EvaluateAllow, EvaluateDeny, PromptTTY, AutoDeny
  <2> QED
    BY <2>1, <1>1, <1>2, <1>4
<1> QED
  BY <1>5, <1>6

\* A command or a host answers one question and leaves the others.
LEMMA ResolutionStands ==
  ASSUME TypeOK, NEW k \in Keys, IsPending(entries[k]), Human \/ Host
  PROVE  Stands(k)
<1> USE QueueType DEF TypeOK
<1>1. /\ entries \in Slots
      /\ Cleaned(entries) \in Slots /\ Cleaned(entries)[k] = entries[k]
      /\ SameQuestion(entries[k], entries[k])
  BY CleanedType, PendingKept DEF SameQuestion
<1>2. ASSUME NEW j \in Keys, NEW coded \in BOOLEAN, calls' = calls,
             j \in LatestPending(entries) \/ Embedder,
             \/ entries' = Approved(Cleaned(entries), j, coded)
             \/ entries' = Denied(Cleaned(entries), j)
      PROVE  Stands(k)
  <2>1. ASSUME j # k
        PROVE  Stands(k)
    <3>1. entries'[k] = Cleaned(entries)[k]
      BY <1>1, <1>2, <2>1 DEF Approved, Denied, Slots
    <3> QED
      BY <1>1, <3>1 DEF Stands
  <2>2. ASSUME j = k
        PROVE  Stands(k)
    <3> DEFINE yes == [status |-> "approved", args |-> entries[k].args,
                       strict |-> entries[k].strict, left |-> TTL, coded |-> coded]
    <3>1. entries'[k] = NoEntry \/ entries'[k] = yes
      BY <1>1, <1>2, <2>2 DEF Approved, Denied, Slots
    <3>2. IsApproved(yes)
      BY QueueAssumption DEF IsApproved
    <3>3. AnsweredAt(k)
      BY <1>2, <2>2, <3>1, <3>2 DEF AnsweredAt
    <3> QED
      BY <3>3 DEF Stands
  <2> QED
    BY <2>1, <2>2
<1>3. ASSUME NEW j \in Keys, NEW code \in Codes, Approve(j, code)
      PROVE  Stands(k)
  <2>1. PICK coded \in BOOLEAN : entries' = Approved(Cleaned(entries), j, coded)
    BY <1>3 DEF Approve, NeedsCode
  <2>2. calls' = calls /\ j \in LatestPending(entries)
    BY <1>1, <1>3, LatestKept DEF Approve
  <2> QED
    BY <1>2, <2>1, <2>2
<1>4. ASSUME NEW j \in Keys, Deny(j)
      PROVE  Stands(k)
  <2>1. entries' = Denied(Cleaned(entries), j)
    BY <1>4 DEF Deny
  <2>2. calls' = calls /\ j \in LatestPending(entries)
    BY <1>1, <1>4, LatestKept DEF Deny
  <2> QED
    BY <1>2, <2>1, <2>2
<1>5. ASSUME entries' = Cleaned(entries) \/ UNCHANGED entries
      PROVE  Stands(k)
  BY <1>1, <1>5 DEF Stands
<1>6. ASSUME NEW code \in Codes, CommandFails(code)
      PROVE  Stands(k)
  BY <1>5, <1>6 DEF CommandFails
<1>7. ASSUME NEW j \in Keys, ResolveBySession(j, "approve") \/ ResolveBySession(j, "deny")
      PROVE  Stands(k)
  <2>1. /\ Embedder /\ calls' = calls
        /\ \/ entries' = Cleaned(entries)
           \/ entries' = Approved(Cleaned(entries), j, FALSE)
           \/ entries' = Denied(Cleaned(entries), j)
    BY <1>7 DEF ResolveBySession
  <2> QED
    BY <1>2, <1>5, <2>1
<1>8. ASSUME NEW s \in Sessions, HostRecordsDenial(s)
      PROVE  Stands(k)
  BY <1>5, <1>8 DEF HostRecordsDenial
<1> QED
  BY <1>3, <1>4, <1>6, <1>7, <1>8 DEF Human, Host

LEMMA TickStands ==
  ASSUME TypeOK, NEW k \in Keys, IsPending(entries[k]), Tick
  PROVE  Stands(k)
<1>1. entries[k] \in Entry /\ entries[k].status = "pending" /\ entries[k].left \in 1..TTL
  BY QueueType, PendingIsEntry DEF TypeOK
<1>2. entries'[k] = Aged(entries[k])
  BY DEF Tick, QueueTick
<1>3. /\ entries'[k].status = "pending"
      /\ entries'[k].args = entries[k].args /\ entries'[k].strict = entries[k].strict
      /\ entries'[k].left = entries[k].left - 1
  BY <1>1, <1>2, QueueAssumption DEF Aged
<1>4. CASE entries[k].left = 1
  BY <1>3, <1>4 DEF Stands, IsStale
<1>5. CASE entries[k].left # 1
  BY <1>1, <1>3, <1>5, QueueAssumption DEF Stands, SameQuestion, IsPending
<1> QED
  BY <1>4, <1>5

\* The question the human reads stays what it is until it is answered while it
\* is the latest, ends, or is asked anew after the retry window, whatever
\* calls, commands about other sessions, clean-ups and reloads come between.
THEOREM QuestionCorrect == Spec => QuestionStands
<1>1. ASSUME TypeOK, [Next]_vars, NEW k \in Keys, IsPending(entries[k])
      PROVE  Stands(k)
  <2>1. CASE UNCHANGED entries
    BY <1>1, <2>1 DEF Stands, SameQuestion
  <2>2. CASE Restart
    BY <2>2 DEF Restart, Stands
  <2>3. CASE Tick
    BY <1>1, <2>3, TickStands
  <2>4. CASE Human \/ Host
    BY <1>1, <2>4, ResolutionStands
  <2>5. ASSUME NEW c \in Calls, Proceed(c) \/ \E r \in Request : Evaluate(c, r)
        PROVE  Stands(k)
    BY <1>1, <2>5, CallStands
  <2> QED
    BY <1>1, <2>1, <2>2, <2>3, <2>4, <2>5 DEF Next, Reload, vars
<1>2. TypeOK /\ [Next]_vars =>
        [\A k \in Keys :
           IsPending(entries[k]) =>
             \/ SameQuestion(entries[k], entries'[k])
             \/ AnsweredAt(k)
             \/ AskedAnew(k)
             \/ entries[k].left = 1 /\ IsStale(entries'[k])
             \/ \A c \in Calls, j \in Keys : calls'[c] = Idle /\ entries'[j] = NoEntry]_vars
  BY <1>1 DEF Stands
<1> QED
  BY <1>2, TypeCorrect, PTL DEF Spec, QuestionStands

(***************************************************************************)
(* Time to answer.                                                         *)
(***************************************************************************)
\* Only its own evaluation takes an idle call anywhere.
LEMMA IdleLeaves ==
  ASSUME TypeOK, [Next]_vars, NEW c \in Calls, calls[c] = Idle, calls'[c] # Idle
  PROVE  \E r \in Request : Evaluate(c, r)
<1>1. ASSUME NEW d \in Calls, NEW r \in Request, Evaluate(d, r)
      PROVE  \E s \in Request : Evaluate(c, s)
  <2>1. PICK to : Goes(d, to)
    BY <1>1 DEF Evaluate, EvaluateAllow, EvaluateDeny, ConsumeApproval, RequestApproval,
                PromptTTY, AutoDeny
  <2>2. d = c
    BY <2>1 DEF Goes, TypeOK
  <2> QED
    BY <1>1, <2>2
<1>2. ASSUME NEW d \in Calls, Proceed(d)
      PROVE  FALSE
  <2>1. PICK to : Goes(d, to)
    BY <1>2 DEF Proceed, NotifyAnswer, Poll, PollApproved, PollGivesUp, PollAgain, AnswerNo,
                AnswerYes, Leave
  <2>2. d = c
    BY <2>1 DEF Goes, TypeOK
  <2>3. calls[d].pc # "idle"
    BY <1>2 DEF Proceed, NotifyAnswer, Poll, PollApproved, PollGivesUp, PollAgain, AnswerNo,
                AnswerYes, Leave
  <2> QED
    BY <2>2, <2>3 DEF Idle
<1>3. ASSUME Human \/ Host \/ Reload \/ UNCHANGED vars
      PROVE  FALSE
  BY <1>3 DEF Human, Host, Reload, vars, Approve, Deny, CommandFails, ResolveBySession,
              HostRecordsDenial
<1>4. ASSUME Restart \/ Tick
      PROVE  FALSE
  <2>1. calls[c].pc # "waiting"
    BY DEF Idle
  <2>2. Restart => calls'[c] = Idle
    BY DEF Restart
  <2>3. Tick => calls'[c] = calls[c]
    BY <2>1 DEF Tick
  <2> QED
    BY <1>4, <2>2, <2>3
<1> QED
  BY <1>1, <1>2, <1>3, <1>4 DEF Next

\* The in-chat fallback leaves the human at least TTL - RetryWindow to answer
\* the request it told the agent about, kept or new.
THEOREM TimeCorrect == Spec => TimeToAnswer
<1>1. ASSUME TypeOK, [Next]_vars, NEW c \in Calls, calls[c] = Idle,
             calls'[c].pc = "refused", calls'[c].why = "approval"
      PROVE  LET e == entries'[KeyOf(calls'[c].req)] IN
               IsPending(e) /\ e.left + RetryWindow >= TTL
  <2>1. calls'[c] # Idle
    BY <1>1 DEF Idle
  <2>2. PICK r \in Request : Evaluate(c, r)
    BY <1>1, <2>1, IdleLeaves
  <2>3. RequestApproval(c, r)
    <3>1. EvaluateAllow(c, r) => calls'[c] = Running(r, "policy", r.args)
      BY <1>1 DEF EvaluateAllow, Goes, TypeOK
    <3>2. EvaluateDeny(c, r) => calls'[c] = Refused(r, "policy")
      BY <1>1 DEF EvaluateDeny, Goes, TypeOK
    <3>3. ConsumeApproval(c, r) => calls'[c] = Running(r, "channel", entries[KeyOf(r)].args)
      BY <1>1 DEF ConsumeApproval, Goes, TypeOK
    <3>4. PromptTTY(c, r) => calls'[c] = Prompting(r)
      BY <1>1 DEF PromptTTY, Goes, TypeOK
    <3>5. AutoDeny(c, r) => calls'[c] = Refused(r, "terminal")
      BY <1>1 DEF AutoDeny, Goes, TypeOK
    <3> QED
      BY <1>1, <2>2, <3>1, <3>2, <3>3, <3>4, <3>5 DEF Evaluate, Running, Refused, Prompting
  <2> DEFINE k == KeyOf(r)
             q == Cleaned(AfterConsume(entries, k))
  <2>4. k \in Keys /\ q \in Slots
    BY <1>1, <2>3, ChannelKeys, QueueType, AfterConsumeType, CleanedType DEF RequestApproval, TypeOK
  <2>5. entries' = AfterRequest(q, k, r.args, r.strict)
    BY <2>3 DEF RequestApproval
  <2>6. calls'[c].req = r
    <3>1. calls'[c] \in {Notifying(r), Refused(r, "approval")}
      BY <1>1, <2>3 DEF RequestApproval, Goes, TypeOK
    <3> QED
      BY <3>1 DEF Notifying, Refused
  <2> HIDE DEF k, q
  <2>7. IsPending(entries'[k]) /\ entries'[k].left + RetryWindow >= TTL
    <3>1. CASE WithinRetryWindow(q[k])
      <4>1. entries'[k] = q[k] /\ IsPending(q[k]) /\ TTL - q[k].left <= RetryWindow
        BY <2>5, <3>1 DEF AfterRequest, WithinRetryWindow
      <4>2. q[k].left \in 0..TTL
        BY <2>4, <4>1 DEF Slots, IsPending, NoEntry, Entry
      <4> QED
        BY <4>1, <4>2, QueueAssumption
    <3>2. CASE ~WithinRetryWindow(q[k])
      <4>1. entries'[k] = NewEntry(r.args, r.strict)
        BY <2>4, <2>5, <3>2 DEF AfterRequest, Slots
      <4> QED
        BY <4>1, QueueAssumption DEF NewEntry, IsPending
    <3> QED
      BY <3>1, <3>2
  <2> QED
    BY <2>6, <2>7 DEF k
<1>2. TypeOK /\ [Next]_vars =>
        [\A c \in Calls :
           /\ calls[c] = Idle
           /\ calls'[c].pc = "refused" /\ calls'[c].why = "approval"
           => LET e == entries'[KeyOf(calls'[c].req)] IN
                IsPending(e) /\ e.left + RetryWindow >= TTL]_vars
  BY <1>1
<1> QED
  BY <1>2, TypeCorrect, PTL DEF Spec, TimeToAnswer

(***************************************************************************)
(* A yes reaches the call that waits for it.  What makes it inductive: a   *)
(* call that has polled in this tick and finds its entry approved now has  *)
(* the whole life of the approval before it.                               *)
(***************************************************************************)
PolledFresh ==
  \A c \in Calls :
    LET e == entries[KeyOf(calls[c].req)] IN
    calls[c].pc = "waiting" /\ calls[c].polled /\ IsApproved(e) => e.left = TTL

\* Where approvals come from, but for the clock.
LEMMA ApprovedFrom ==
  ASSUME TypeOK, [Next]_vars, ~Tick, NEW k \in Keys, IsApproved(entries'[k])
  PROVE  entries'[k] = entries[k] \/ entries'[k].left = TTL
<1> USE QueueType DEF TypeOK
<1> DEFINE Fine == entries'[k] = entries[k] \/ entries'[k].left = TTL
<1>1. Cleaned(entries)[k] \in {entries[k], NoEntry}
  BY DEF Cleaned
<1>2. ~IsApproved(NoEntry)
  BY DEF IsApproved, NoEntry
<1>3. ASSUME NEW c \in Calls, NEW r \in Request, Evaluate(c, r)
      PROVE  Fine
  <2>1. CASE UNCHANGED entries
    BY <2>1
  <2>2. CASE ConsumeApproval(c, r)
    BY <1>2, <2>2 DEF ConsumeApproval, AfterConsume, Slots
  <2>3. CASE RequestApproval(c, r)
    <3> DEFINE j == KeyOf(r)
               q == Cleaned(AfterConsume(entries, j))
    <3>1. j \in Keys /\ AfterConsume(entries, j) \in Slots /\ q \in Slots
      BY <2>3, ChannelKeys, AfterConsumeType, CleanedType DEF RequestApproval
    <3>2. entries' = AfterRequest(q, j, r.args, r.strict)
      BY <2>3 DEF RequestApproval
    <3>3. q[k] \in {entries[k], NoEntry}
      BY <3>1 DEF Cleaned, AfterConsume, Slots
    <3> HIDE DEF j, q
    <3>4. entries'[k] = q[k] \/ entries'[k] = NewEntry(r.args, r.strict)
      BY <3>1, <3>2 DEF AfterRequest, Slots
    <3>5. ~IsApproved(NewEntry(r.args, r.strict))
      BY DEF NewEntry, IsApproved
    <3> QED
      BY <1>2, <3>3, <3>4, <3>5
  <2> QED
    BY <1>3, <2>1, <2>2, <2>3 DEF Evaluate, EvaluateAllow, EvaluateDeny, PromptTTY, AutoDeny
<1>4. ASSUME NEW c \in Calls, Proceed(c)
      PROVE  Fine
  <2>1. UNCHANGED entries \/ PollApproved(c)
    BY <1>4 DEF Proceed, NotifyAnswer, Poll, PollGivesUp, PollAgain, AnswerNo, AnswerYes, Leave
  <2>2. CASE PollApproved(c)
    BY <1>2, <2>2 DEF PollApproved, Slots
  <2> QED
    BY <2>1, <2>2
<1>5. ASSUME Human \/ Host
      PROVE  Fine
  <2>1. \/ entries' = Cleaned(entries)
        \/ UNCHANGED entries
        \/ \E j \in Keys, coded \in BOOLEAN : \/ entries' = Approved(Cleaned(entries), j, coded)
                                            \/ entries' = Denied(Cleaned(entries), j)
    <3>1. ASSUME NEW j \in Keys, NEW code \in Codes, Approve(j, code)
          PROVE  \E coded \in BOOLEAN : entries' = Approved(Cleaned(entries), j, coded)
      BY <3>1 DEF Approve, NeedsCode
    <3> QED
      BY <1>5, <3>1 DEF Human, Host, Deny, CommandFails, ResolveBySession, HostRecordsDenial
  <2>2. Cleaned(entries) \in Slots
    BY CleanedType
  <2> QED
    BY <1>1, <1>2, <2>1, <2>2 DEF Approved, Denied, Slots
<1>6. CASE Restart
  BY <1>2, <1>6 DEF Restart
<1>7. CASE Reload \/ UNCHANGED vars
  BY <1>7 DEF Reload, vars
<1> QED
  BY <1>3, <1>4, <1>5, <1>6, <1>7 DEF Next

\* A call that waits goes on waiting as it was, but for its own polls, the
\* notification before it and the clock.
LEMMA WaitingFrom ==
  ASSUME TypeOK, [Next]_vars, ~Tick, NEW c \in Calls, calls'[c].pc = "waiting"
  PROVE  \/ calls'[c] = calls[c]
         \/ ~calls'[c].polled
         \/ PollAgain(c)
<1>1. ASSUME NEW d \in Calls, d # c, Proceed(d) \/ \E r \in Request : Evaluate(d, r)
      PROVE  calls'[c] = calls[c]
  <2>1. PICK to : Goes(d, to)
    BY <1>1 DEF Evaluate, EvaluateAllow, EvaluateDeny, ConsumeApproval, RequestApproval,
                PromptTTY, AutoDeny, Proceed, NotifyAnswer, Poll, PollApproved, PollGivesUp,
                PollAgain, AnswerNo, AnswerYes, Leave
  <2> QED
    BY <1>1, <2>1 DEF Goes, TypeOK
<1>2. ASSUME NEW r \in Request, Evaluate(c, r)
      PROVE  FALSE
  <2>1. PICK to : Goes(c, to) /\ to.pc # "waiting"
    BY <1>2 DEF Evaluate, EvaluateAllow, EvaluateDeny, ConsumeApproval, RequestApproval,
                PromptTTY, AutoDeny, Running, Refused, Notifying, Prompting
  <2> QED
    BY <2>1 DEF Goes, TypeOK
<1>3. ASSUME Proceed(c)
      PROVE  ~calls'[c].polled \/ PollAgain(c)
  <2>1. CASE PollApproved(c) \/ PollGivesUp(c) \/ AnswerNo(c) \/ Leave(c)
             \/ \E code \in Codes : AnswerYes(c, code)
    <3>1. PICK to : Goes(c, to) /\ to.pc # "waiting"
      BY <2>1 DEF PollApproved, PollGivesUp, AnswerNo, Leave, AnswerYes, Running, Refused, Idle
    <3> QED
      BY <3>1 DEF Goes, TypeOK
  <2>2. ASSUME NEW notified \in BOOLEAN, NotifyAnswer(c, notified)
        PROVE  ~calls'[c].polled
    <3>1. calls'[c] = IF notified THEN Waiting(calls[c].req, TTL, FALSE)
                                  ELSE Refused(calls[c].req, "approval")
      BY <2>2 DEF NotifyAnswer, Goes, TypeOK
    <3>2. CASE notified = TRUE
      BY <3>1, <3>2 DEF Waiting
    <3>3. CASE notified = FALSE
      BY <3>1, <3>3 DEF Refused
    <3> QED
      BY <3>2, <3>3
  <2> QED
    BY <1>3, <2>1, <2>2 DEF Proceed, Poll
<1>4. CASE Human \/ Host \/ Reload \/ UNCHANGED vars
  BY <1>4 DEF Human, Host, Reload, vars, Approve, Deny, CommandFails, ResolveBySession,
              HostRecordsDenial
<1>5. CASE Restart
  BY <1>5 DEF Restart, Idle
<1> QED
  BY <1>1, <1>2, <1>3, <1>4, <1>5 DEF Next

LEMMA TickWaiting ==
  ASSUME TypeOK, Tick, NEW c \in Calls
  PROVE  /\ calls'[c].pc = "waiting" => ~calls'[c].polled
         /\ calls[c].pc = "waiting" => calls'[c].pc = "waiting" /\ calls[c].polled
<1>1. CASE calls[c].pc = "waiting"
  <2>1. PICK left : calls'[c] = Waiting(calls[c].req, left, FALSE)
    BY <1>1 DEF Tick
  <2> QED
    BY <1>1, <2>1 DEF Waiting, Tick
<1>2. CASE calls[c].pc # "waiting"
  BY <1>2 DEF Tick
<1> QED
  BY <1>1, <1>2

LEMMA PolledStep ==
  ASSUME TypeOK, PolledFresh, [Next]_vars
  PROVE  PolledFresh'
<1> SUFFICES ASSUME NEW c \in Calls, calls'[c].pc = "waiting", calls'[c].polled,
                    IsApproved(entries'[KeyOf(calls'[c].req)])
             PROVE  entries'[KeyOf(calls'[c].req)].left = TTL
  BY DEF PolledFresh
<1>1. ~Tick
  BY TickWaiting
<1>2. PollAgain(c) => calls'[c].req = calls[c].req /\ UNCHANGED entries
                     /\ IsPending(entries[KeyOf(calls[c].req)])
  BY DEF PollAgain, Goes, Waiting, TypeOK
<1>3. calls'[c] = calls[c]
  BY <1>1, <1>2, WaitingFrom DEF IsPending, IsApproved
<1>4. KeyOf(calls[c].req) \in Keys
  BY <1>3, CallFields, ChannelKeys DEF TypeOK
<1> QED
  BY <1>1, <1>3, <1>4, ApprovedFrom DEF PolledFresh

\* A yes given while a call is stalled lets it run, unless another call spends
\* it or supersedes it first: the poll comes before the approval expires, and
\* looks at the entry before it looks at its own deadline.
THEOREM ReachesCorrect == TTL > 1 => (Spec => ApprovalReachesStall)
<1> SUFFICES ASSUME TTL > 1
             PROVE  Spec => ApprovalReachesStall
  OBVIOUS
<1> DEFINE Reaches(c) ==
      LET k == KeyOf(calls[c].req) IN
      \/ calls'[c].pc = "running"
      \/ /\ calls'[c].pc = "waiting"
         /\ IsApproved(entries'[k]) \/ SpentBy(k) \/ SupersededBy(k)
<1>1. ASSUME TypeOK, PolledFresh, [Next]_vars, NEW c \in Calls,
             calls[c].pc = "waiting", IsApproved(entries[KeyOf(calls[c].req)]),
             calls'[c] # Idle
      PROVE  Reaches(c)
  <2> DEFINE k == KeyOf(calls[c].req)
  <2>1. k \in Keys /\ calls[c] # Idle
    BY <1>1, CallFields, ChannelKeys DEF TypeOK, Idle
  <2>2. CASE Tick
    <3>1. calls'[c].pc = "waiting" /\ calls[c].polled
      BY <1>1, <2>2, TickWaiting
    <3>2. entries[k].left = TTL
      BY <1>1, <3>1 DEF PolledFresh
    <3>3. entries[k].status = "approved"
      BY <1>1 DEF IsApproved
    <3>4. entries'[k] = Aged(entries[k])
      BY <2>1, <2>2 DEF Tick, QueueTick
    <3>5. entries'[k].status = "approved" /\ entries'[k].left = TTL - 1
      BY <3>2, <3>3, <3>4, QueueAssumption DEF Aged
    <3>6. IsApproved(entries'[k])
      BY <3>5, QueueAssumption DEF IsApproved
    <3> QED
      BY <3>1, <3>6
  <2>3. ASSUME NEW r \in Request, Evaluate(c, r)
        PROVE  FALSE
    BY <2>1, <2>3 DEF Evaluate, EvaluateAllow, EvaluateDeny, ConsumeApproval, RequestApproval,
                PromptTTY, AutoDeny, Evaluates
  <2>4. CASE Proceed(c)
    <3>1. PollApproved(c)
      BY <1>1, <2>4 DEF Proceed, NotifyAnswer, Poll, PollGivesUp, PollAgain, AnswerNo, AnswerYes,
                        Leave, IsPending, IsApproved
    <3>2. PICK r, args : calls'[c] = Running(r, "channel", args)
      BY <1>1, <3>1 DEF PollApproved, Goes, TypeOK
    <3> QED
      BY <3>2 DEF Running
  <2>5. ASSUME NEW d \in Calls, d # c, Proceed(d) \/ \E r \in Request : Evaluate(d, r)
        PROVE  Reaches(c)
    <3>1. PICK to : Goes(d, to)
      BY <2>5 DEF Evaluate, EvaluateAllow, EvaluateDeny, ConsumeApproval, RequestApproval,
                  PromptTTY, AutoDeny, Proceed, NotifyAnswer, Poll, PollApproved, PollGivesUp,
                  PollAgain, AnswerNo, AnswerYes, Leave
    <3>2. calls'[c] = calls[c]
      BY <1>1, <2>5, <3>1 DEF Goes, TypeOK
    <3>3. ~IsApproved(entries'[k]) => SpentBy(k) \/ SupersededBy(k)
      BY <1>1, <2>1, <2>5, CallLapse
    <3> QED
      BY <1>1, <3>2, <3>3
  <2>6. CASE Human \/ Host
    <3>1. IsApproved(entries'[k])
      BY <1>1, <2>1, <2>6, ResolutionKeeps
    <3>2. calls'[c] = calls[c]
      BY <2>6 DEF Human, Host, Approve, Deny, CommandFails, ResolveBySession, HostRecordsDenial
    <3> QED
      BY <1>1, <3>1, <3>2
  <2>7. CASE Reload \/ UNCHANGED vars
    BY <1>1, <2>7 DEF Reload, vars
  <2>8. CASE Restart
    BY <1>1, <2>8 DEF Restart
  <2> HIDE DEF Reaches
  <2> QED
    BY <1>1, <2>2, <2>3, <2>4, <2>5, <2>6, <2>7, <2>8 DEF Next
<1>2. TypeOK /\ PolledFresh /\ [Next]_vars =>
        [\A c \in Calls :
           /\ calls[c].pc = "waiting" /\ IsApproved(entries[KeyOf(calls[c].req)])
           /\ calls'[c] # Idle
           => LET k == KeyOf(calls[c].req) IN
                \/ calls'[c].pc = "running"
                \/ /\ calls'[c].pc = "waiting"
                   /\ IsApproved(entries'[k]) \/ SpentBy(k) \/ SupersededBy(k)]_vars
  BY <1>1
<1>3. Init => PolledFresh
  BY DEF Init, PolledFresh, Idle
<1> QED
  BY <1>2, <1>3, PolledStep, TypeCorrect, PTL DEF Spec, ApprovalReachesStall
=============================================================================
