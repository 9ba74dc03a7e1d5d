---------------------------- MODULE RoutingProxy ----------------------------
(***************************************************************************)
(* The chat completions of the routing proxy (model-routing/proxy/         *)
(* handler.ts): identical requests are deduplicated, deterministic answers *)
(* cached, sessions pinned to a tier, and the models of a tier tried in    *)
(* order, while clients hang up and deadlines pass.                        *)
(*                                                                         *)
(* An action is the code between two awaits: a request that has arrived    *)
(* waits for plugins and classifier ("preparing"), then for one provider   *)
(* after the other ("forwarding"); a duplicate waits for the promise of    *)
(* the original ("waiting").  Profile, score and momentum decide the tier  *)
(* and are inputs; so is which models a provider is asked for last.        *)
(***************************************************************************)
EXTENDS SessionStore, RequestDedup

CONSTANTS Requests,     \* HTTP requests that can be open at once
          Streams,      \* bodies that ask for a stream
          Cacheable,    \* bodies isCacheable accepts
          HashOf,       \* HashOf[b]: the hash of the last two messages of b
          Chain         \* Chain[t]: the fallback chain of tier t, filtered

ASSUME ProxyAssumption ==
  /\ Streams \subseteq Bodies
  /\ Cacheable \subseteq Bodies \ Streams
  /\ HashOf \in [Bodies -> Hashes]
  /\ Chain \in [Tiers -> Seq(Models) \ {<<>>}]

VARIABLES stored,   \* the bodies whose answer the ResponseCache holds
          calls,    \* calls[r]: where the request r has got to
          dropped   \* history: keys a close handler has run for

vars == <<sessions, recency, inflight, completed, stored, calls, dropped>>

(***************************************************************************)
(* cut: clientAbort has been signalled, by the deadline or by the client.  *)
(* "stored": answered from the response cache; requestCompleted is not set *)
(* on that path, so the close handler is still armed.                      *)
(***************************************************************************)
Idle == [pc |-> "idle"]
Done(how) == [pc |-> "done", how |-> how]
Waiting(b) == [pc |-> "waiting", body |-> b]
Stored(b) == [pc |-> "stored", body |-> b]
Preparing(b, s, cut) == [pc |-> "preparing", body |-> b, session |-> s, cut |-> cut]
Forwarding(b, s, tier, attempt, pinned, cut) ==
  [pc |-> "forwarding", body |-> b, session |-> s, tier |-> tier,
   attempt |-> attempt, pinned |-> pinned, cut |-> cut]

Cut == {"no", "deadline", "client"}

Call ==
  {Idle}
    \cup [pc : {"done"}, how : {"served", "failed"}]
    \cup [pc : {"waiting", "stored"}, body : Bodies]
    \cup [pc : {"preparing"}, body : Bodies, session : Sessions, cut : Cut]
    \cup [pc : {"forwarding"}, body : Bodies, session : Sessions, tier : Tiers,
          attempt : Nat \ {0}, pinned : BOOLEAN, cut : Cut]

TypeOK ==
  /\ StoreTypeOK
  /\ DedupTypeOK
  /\ stored \subseteq Cacheable
  /\ calls \in [Requests -> Call]
  /\ \A r \in Requests :
       calls[r].pc = "forwarding" => calls[r].attempt <= Len(Chain[calls[r].tier])
  /\ dropped \subseteq Bodies

Init ==
  /\ StoreInit
  /\ DedupInit
  /\ stored = {}
  /\ calls = [r \in Requests |-> Idle]
  /\ dropped = {}

Active(r) == calls[r].pc \in {"preparing", "forwarding"}

Goes(r, to) == calls' = [calls EXCEPT ![r] = to]

\* Mutant: the entry is removed without settling its promise.
SettlesNobody(r, to, how) == Goes(r, to)

\* r goes on, and the promise of its key is settled if there still is one.
Settles(r, to, how) ==
  calls' = [x \in Requests |->
              IF x = r THEN to
              ELSE IF calls[r].body \in inflight /\ calls[x] = Waiting(calls[r].body)
              THEN Done(how)
              ELSE calls[x]]

(***************************************************************************)
(* handleChatCompletions.                                                  *)
(***************************************************************************)
ServeCompleted(r, b) ==
  /\ calls[r] = Idle
  /\ b \in completed
  /\ Goes(r, Done("served"))
  /\ UNCHANGED <<storeVars, dedupVars, stored, dropped>>

Join(r, b) ==
  /\ calls[r] = Idle
  /\ b \notin completed
  /\ b \in inflight
  /\ Goes(r, Waiting(b))
  /\ UNCHANGED <<storeVars, dedupVars, stored, dropped>>

\* Mutant: an original in flight does not keep a duplicate from going upstream.
NewIfNotCompleted(r, b) == calls[r] = Idle /\ b \notin completed

\* Mutant: nor does an answer.
NewIfNotInflight(r, b) == calls[r] = Idle /\ b \notin inflight

New(r, b) ==
  /\ calls[r] = Idle
  /\ b \notin completed
  /\ b \notin inflight

\* Marked in flight, answered from the response cache and removed at once.
ServeStored(r, b) ==
  /\ New(r, b)
  /\ b \in stored
  /\ Goes(r, Stored(b))
  /\ UNCHANGED <<storeVars, dedupVars, stored, dropped>>

\* The response cache does not have it, or a header says not to ask.
Take(r, b, s) ==
  /\ New(r, b)
  /\ MarkInflight(b)
  /\ Goes(r, Preparing(b, s, "no"))
  /\ UNCHANGED <<storeVars, stored, dropped>>

(***************************************************************************)
(* processRequest: the session is consulted, the first model is asked; if  *)
(* clientAbort has been signalled, that is found out before.               *)
(***************************************************************************)
\* Mutant: the signal is only looked at between two models.
RouteAnyway(r, tier) ==
  /\ calls[r].pc = "preparing"
  /\ LET c == calls[r]
         e == Found(c.session)
         h == HashOf[c.body] IN
     /\ Touch(c.session, Checked(e, h, tier))
     /\ Goes(r, Forwarding(c.body, c.session, RoutedTier(e, h, tier), 1,
                           KeepsPin(e, h, tier), c.cut))
     /\ UNCHANGED <<dedupVars, stored, dropped>>

Route(r, tier) ==
  /\ calls[r].pc = "preparing"
  /\ LET c == calls[r]
         e == Found(c.session)
         h == HashOf[c.body] IN
     /\ Touch(c.session, Checked(e, h, tier))
     /\ IF c.cut = "no"
        THEN /\ Goes(r, Forwarding(c.body, c.session, RoutedTier(e, h, tier), 1,
                                   KeepsPin(e, h, tier), "no"))
             /\ UNCHANGED dedupVars
        ELSE /\ Settles(r, Done("failed"), "failed")
             /\ RemoveInflight(c.body)
  /\ UNCHANGED <<stored, dropped>>

ModelOf(c) == Chain[c.tier][c.attempt]

Last(c) == c.attempt = Len(Chain[c.tier])

Repin(c) ==
  IF c.pinned THEN UNCHANGED storeVars ELSE PinModel(c.session, ModelOf(c), c.tier)

\* A whole answer: the duplicates share it, and it may be stored, unless a
\* header or its size forbids it.
Succeed(r) ==
  /\ calls[r].pc = "forwarding"
  /\ calls[r].cut = "no"
  /\ calls[r].body \notin Streams
  /\ Complete(calls[r].body)
  /\ Settles(r, Done("served"), "served")
  /\ stored' \in {stored, stored \cup ({calls[r].body} \cap Cacheable)}
  /\ Repin(calls[r])
  /\ UNCHANGED dropped

\* A stream has begun, which cannot be shared.
StartStream(r) ==
  /\ calls[r].pc = "forwarding"
  /\ calls[r].cut = "no"
  /\ calls[r].body \in Streams
  /\ RemoveInflight(calls[r].body)
  /\ Settles(r, Done("served"), "failed")
  /\ Repin(calls[r])
  /\ UNCHANGED <<stored, dropped>>

\* An exception, or a status shouldTriggerFallback knows.
TryNext(r) ==
  /\ calls[r].pc = "forwarding"
  /\ calls[r].cut = "no"
  /\ ~Last(calls[r])
  /\ Goes(r, [calls[r] EXCEPT !.attempt = @ + 1])
  /\ UNCHANGED <<storeVars, dedupVars, stored, dropped>>

\* Mutant: the entry of a request that fails is left in flight.
FailQuietly(r) ==
  /\ calls[r].pc = "forwarding"
  /\ Goes(r, Done("failed"))
  /\ UNCHANGED <<storeVars, dedupVars, stored, dropped>>

\* The status is final, the last model has failed, or clientAbort has been
\* signalled, which ends the attempt and then the loop.
Fail(r) ==
  /\ calls[r].pc = "forwarding"
  /\ RemoveInflight(calls[r].body)
  /\ Settles(r, Done("failed"), "failed")
  /\ UNCHANGED <<storeVars, stored, dropped>>

(***************************************************************************)
(* The deadline and the close handler.                                     *)
(***************************************************************************)
Deadline(r) ==
  /\ Active(r)
  /\ calls[r].cut = "no"
  /\ Goes(r, [calls[r] EXCEPT !.cut = "deadline"])
  /\ UNCHANGED <<storeVars, dedupVars, stored, dropped>>

HangUp(r) ==
  /\ Active(r)
  /\ calls[r].cut # "client"
  /\ RemoveInflight(calls[r].body)
  /\ Settles(r, [calls[r] EXCEPT !.cut = "client"], "failed")
  /\ dropped' = dropped \cup {calls[r].body}
  /\ UNCHANGED <<storeVars, stored>>

CloseStored(r) ==
  /\ calls[r].pc = "stored"
  /\ RemoveInflight(calls[r].body)
  /\ Settles(r, Idle, "failed")
  /\ dropped' = dropped \cup {calls[r].body}
  /\ UNCHANGED <<storeVars, stored>>

Close(r) ==
  /\ calls[r].pc = "done"
  /\ Goes(r, Idle)
  /\ UNCHANGED <<storeVars, dedupVars, stored, dropped>>

(***************************************************************************)
(* Time to live, and the capacity of the response cache.                   *)
(***************************************************************************)
ExpireCompleted(b) ==
  /\ Expire(b)
  /\ UNCHANGED <<storeVars, stored, calls, dropped>>

EvictStored(b) ==
  /\ b \in stored
  /\ stored' = stored \ {b}
  /\ UNCHANGED <<storeVars, dedupVars, calls, dropped>>

ExpireSession(s) ==
  /\ EvictExpired(s)
  /\ UNCHANGED <<dedupVars, stored, calls, dropped>>

Arrive(r) ==
  \E b \in Bodies :
    \/ ServeCompleted(r, b)
    \/ Join(r, b)
    \/ ServeStored(r, b)
    \/ \E s \in Sessions : Take(r, b, s)

\* What the proxy or a provider does next about r; a provider is given a
\* minute per attempt.
Proceed(r) ==
  \/ \E tier \in Tiers : Route(r, tier)
  \/ Succeed(r)
  \/ StartStream(r)
  \/ TryNext(r)
  \/ Fail(r)

Next ==
  \/ \E r \in Requests :
       Arrive(r) \/ Proceed(r) \/ Deadline(r) \/ HangUp(r) \/ CloseStored(r) \/ Close(r)
  \/ \E b \in Bodies : ExpireCompleted(b) \/ EvictStored(b)
  \/ \E s \in Sessions : ExpireSession(s)

Spec == Init /\ [][Next]_vars

\* Every attempt ends, with an answer, an error, a timeout or an abort.
FairSpec == Spec /\ \A r \in Requests : WF_vars(Proceed(r))

-----------------------------------------------------------------------------
(***************************************************************************)
(* What the proxy promises.                                                *)
(***************************************************************************)
\* Nobody waits for nothing: a duplicate waits for an entry in flight, and
\* behind every entry is a request whose client is there and that will settle
\* it, however requests with the same key have been dropped and taken again.
WaitersHaveOriginal ==
  /\ \A r \in Requests : calls[r].pc = "waiting" => calls[r].body \in inflight
  /\ \A b \in inflight :
       \E r \in Requests : Active(r) /\ calls[r].body = b /\ calls[r].cut # "client"

\* Identical requests share one upstream call (README.md), unless a
\* connection was closed on one that was not complete.
OneCallPerKey ==
  \A r, q \in Requests :
    /\ Active(r) /\ Active(q)
    /\ calls[r].body = calls[q].body
    /\ calls[r].body \notin dropped
    => r = q

\* Under the same condition no provider is asked for an answer that is at
\* hand, in the 30 s after it was completed.
PaidOnce ==
  \A r \in Requests :
    Active(r) /\ calls[r].body \notin dropped => calls[r].body \notin completed

\* No provider is asked any more once the deadline has passed or the client
\* has hung up.
NoCallAfterAbort ==
  [][\A r \in Requests :
       Active(r) /\ calls[r].cut # "no" /\ calls'[r].pc = "forwarding"
       => calls[r].pc = "forwarding" /\ calls'[r].attempt = calls[r].attempt]_vars

\* A pinned session is routed to the tier it is pinned to or, when the request
\* asks for it, to a higher one; a strike does not lower it either.
NeverBelowPin ==
  [][\A r \in Requests :
       calls[r].pc = "preparing" /\ calls'[r].pc = "forwarding"
       => calls'[r].tier >= Found(calls[r].session).pin.tier]_vars

\* Every request is answered: the original by a provider or by the deadline,
\* a duplicate by the original.
EveryRequestAnswered ==
  \A r \in Requests :
    Active(r) \/ calls[r].pc = "waiting" ~> calls[r].pc \in {"idle", "done"}

(***************************************************************************)
(* What the repository says of the proxy and the code does not keep.       *)
(***************************************************************************)
\* Concurrent retries share one upstream call (README.md): a duplicate is
\* served when the request it waits for is.
DuplicatesShare ==
  [][\A r, q \in Requests :
       /\ Active(r) /\ calls'[r] = Done("served")
       /\ calls[q] = Waiting(calls[r].body)
       => calls'[q] = Done("served")]_vars

\* The same session keeps the same model across every turn, with auto-release
\* on complexity escalation (README.md).
KeepsModel ==
  [][\A r \in Requests :
       /\ calls[r].pc = "preparing" /\ calls'[r].pc = "forwarding"
       /\ calls'[r].pinned
       => ModelOf(calls'[r]) = Found(calls[r].session).pin.model]_vars
=============================================================================
