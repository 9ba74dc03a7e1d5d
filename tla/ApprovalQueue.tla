---------------------------- MODULE ApprovalQueue ----------------------------
(***************************************************************************)
(* The in-memory store of approval requests of the HITL middleware         *)
(* (hitl/approval/ApprovalQueue.ts).  One entry at most per session and    *)
(* action; an entry is pending until a human resolves it, then approved    *)
(* until a tool call consumes it, and worthless once its time to live is   *)
(* over.                                                                   *)
(*                                                                         *)
(* Time is relative: an entry carries the ticks it has left instead of     *)
(* createdAt and expiresAt, so the state space is finite without a bound   *)
(* on the clock.  createdAt is only read for pending entries, whose age is *)
(* TTL - left.  argsHash is injective here: args stand for their           *)
(* fingerprint.                                                            *)
(***************************************************************************)
EXTENDS Naturals

CONSTANTS Sessions,         \* session keys of channel conversations
          Actions,          \* Module.method pairs
          Args,             \* fingerprints of a call's arguments
          TTL,              \* DEFAULT_TTL_MS, in ticks
          RetryWindow,      \* CONSUME_MAX_AGE_MS, in ticks
          CleanupInterval   \* CLEANUP_INTERVAL_MS, in ticks

ASSUME QueueAssumption ==
  /\ TTL \in Nat \ {0}
  /\ RetryWindow \in Nat
  /\ CleanupInterval \in Nat

VARIABLES entries,      \* entries[k]: what the queue holds for key k
          sinceCleanup  \* ticks since lastCleanup, saturating

queueVars == <<entries, sinceCleanup>>

Keys == Sessions \X Actions

NoEntry == [status |-> "absent"]

\* coded is history: a valid authenticator code came with the approval.
Entry == [status : {"pending", "approved"}, args : Args, strict : BOOLEAN,
          left : 0..TTL, coded : BOOLEAN]

QueueTypeOK ==
  /\ entries \in [Keys -> Entry \cup {NoEntry}]
  /\ sinceCleanup \in 0..(CleanupInterval + 1)

QueueInit ==
  /\ entries = [k \in Keys |-> NoEntry]
  /\ sinceCleanup = 0

IsPending(e)  == e.status = "pending"  /\ e.left > 0
IsApproved(e) == e.status = "approved" /\ e.left > 0

\* Mutant: the clean-up takes whatever was resolved for garbage.
StaleOrResolved(e) == e.status # "absent" /\ ~IsPending(e)

IsStale(e) == e.status # "absent" /\ e.left = 0

NewEntry(args, strict) ==
  [status |-> "pending", args |-> args, strict |-> strict,
   left |-> TTL, coded |-> FALSE]

\* maybeCleanup drops the expired entries, at most once per interval.
CleanupDue == sinceCleanup > CleanupInterval

Cleaned(q) ==
  IF CleanupDue THEN [k \in Keys |-> IF IsStale(q[k]) THEN NoEntry ELSE q[k]]
                ELSE q

MarkCleanup == sinceCleanup' = IF CleanupDue THEN 0 ELSE sinceCleanup

\* consume succeeds on a live approval of exactly these arguments; a live
\* approval of other arguments is deleted on the spot.
\* Mutant: the arguments are not compared.
CanConsumeForAny(q, k, args) == IsApproved(q[k])

CanConsume(q, k, args) == IsApproved(q[k]) /\ q[k].args = args

AfterConsume(q, k) == IF IsApproved(q[k]) THEN [q EXCEPT ![k] = NoEntry] ELSE q

\* request keeps a pending entry that is young enough and replaces any other.
\* Mutant: a pending entry is kept whatever its age.
StillPending(e) == IsPending(e)

WithinRetryWindow(e) == IsPending(e) /\ TTL - e.left <= RetryWindow

\* Mutant: a call with other arguments exchanges the question at once.
AfterRequestOfArgs(q, k, args, strict) ==
  IF WithinRetryWindow(q[k]) /\ q[k].args = args
  THEN q
  ELSE [q EXCEPT ![k] = NewEntry(args, strict)]

AfterRequest(q, k, args, strict) ==
  IF WithinRetryWindow(q[k]) THEN q
                             ELSE [q EXCEPT ![k] = NewEntry(args, strict)]

\* The most recently created pending entries: several when they were created
\* in the same tick, where the Map's insertion order decides.
LatestPending(q) ==
  {k \in Keys : /\ IsPending(q[k])
                /\ \A j \in Keys : IsPending(q[j]) => q[j].left <= q[k].left}

Approved(q, k, coded) ==
  [q EXCEPT ![k] = [status |-> "approved", args |-> @.args, strict |-> @.strict,
                    left |-> TTL, coded |-> coded]]

Denied(q, k) == [q EXCEPT ![k] = NoEntry]

\* Mutant: the time an entry has left is never floored.
AgedPastZero(e) ==
  IF e.status = "absent"
  THEN e
  ELSE [status |-> e.status, args |-> e.args, strict |-> e.strict,
        left |-> e.left - 1, coded |-> e.coded]

\* One tick of the clock.
Aged(e) ==
  IF e.status = "absent" \/ e.left = 0
  THEN e
  ELSE [status |-> e.status, args |-> e.args, strict |-> e.strict,
        left |-> e.left - 1, coded |-> e.coded]

QueueTick ==
  /\ entries' = [k \in Keys |-> Aged(entries[k])]
  /\ sinceCleanup' = IF CleanupDue THEN sinceCleanup ELSE sinceCleanup + 1
=============================================================================
