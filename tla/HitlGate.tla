------------------------------ MODULE HitlGate ------------------------------
(***************************************************************************)
(* The human-in-the-loop gate: tool calls of several sessions go through   *)
(* Interceptor.evaluate and Arbitrator.judge, which share one              *)
(* ApprovalQueue and one TrustRateLimiter with the /approve and /deny      *)
(* commands, while the policy is hot-reloaded and the process may restart. *)
(*                                                                         *)
(* JavaScript runs each handler up to its next await without interruption, *)
(* so an action is one such stretch: evaluate up to and including consume  *)
(* and request; the answer of onBlockCallback; one poll of waitForApproval *)
(* and what follows it; one chat command.                                  *)
(***************************************************************************)
EXTENDS ApprovalQueue, TrustRateLimiter

CONSTANTS Calls,            \* hook invocations that can be in flight
          NoSession,        \* a call that came without a sessionKey
          Policies,         \* the policies a reload can install
          Notifies,         \* whether onBlockCallback is installed
          IsTTY,            \* process.stdin.isTTY
          TotpConfigured,   \* TotpManager.isConfigured()
          Embedder          \* whether a host calls the exported singletons

ASSUME GateAssumption ==
  /\ NoSession \notin TrustKeys
  /\ Policies # {}
  /\ Policies \subseteq [Actions \X Args -> {"ALLOW", "DENY", "ASK"}]
  /\ {"tty", "channel-deny", "local"} \cup Sessions \subseteq TrustKeys
  /\ Sessions \cup {NoSession} \subseteq Subjects
  /\ {Notifies, IsTTY, TotpConfigured, Embedder} \subseteq BOOLEAN

VARIABLES policy,   \* Interceptor.policy, path rules included
          calls     \* calls[c]: where the hook invocation c has got to

vars == <<entries, sinceCleanup, denials, policy, calls>>

(***************************************************************************)
(* What a call is about, as fixed when evaluate ran.                       *)
(***************************************************************************)
Origins == Sessions \cup {NoSession}

Request == [session : Origins, action : Actions, args : Args, strict : BOOLEAN]

ChannelRequest == [session : Sessions, action : Actions, args : Args, strict : BOOLEAN]

KeyOf(r) == <<r.session, r.action>>

\* Idle: not in the hook.  Refused: the hook has returned an error.
\* Running: the hook has let the call through, and the tool executes; shown is
\* history: the arguments the human had before them.
Idle == [pc |-> "idle"]
Refused(r, why) == [pc |-> "refused", req |-> r, why |-> why]
Notifying(r) == [pc |-> "notifying", req |-> r]
Waiting(r, left, polled) ==
  [pc |-> "waiting", req |-> r, left |-> left, polled |-> polled]
Prompting(r) == [pc |-> "prompting", req |-> r]
Running(r, via, shown) ==
  [pc |-> "running", req |-> r, via |-> via, shown |-> shown]

Call ==
  {Idle}
    \cup [pc : {"refused"}, req : Request, why : {"policy", "approval", "terminal"}]
    \cup [pc : {"prompting"}, req : Request]
    \cup [pc : {"notifying"}, req : ChannelRequest]
    \cup [pc : {"waiting"}, req : ChannelRequest, left : 0..TTL,
          polled : BOOLEAN]
    \cup [pc : {"running"}, req : Request, via : {"policy", "channel", "terminal"},
          shown : Args]

TypeOK ==
  /\ QueueTypeOK
  /\ TrustTypeOK
  /\ policy \in Policies
  /\ calls \in [Calls -> Call]

Init ==
  /\ QueueInit
  /\ TrustInit
  /\ policy \in Policies
  /\ calls = [c \in Calls |-> Idle]

(***************************************************************************)
(* Interceptor.evaluate.  The risk scores of a call are "none", enough to  *)
(* "force" an ASK, or enough for "strict" confirmation; with the default   *)
(* thresholds strict implies force.                                        *)
(***************************************************************************)
TrustKeyOf(s) == IF s = NoSession THEN "local" ELSE s

ForceAsk(s, risk) == risk # "none" \/ Level(TrustKeyOf(s)) >= 1

EffectiveRule(s, action, args, risk) ==
  IF policy[<<action, args>>] = "ALLOW" /\ ForceAsk(s, risk)
  THEN "ASK"
  ELSE policy[<<action, args>>]

Strict(s, action, args, risk) ==
  /\ policy[<<action, args>>] # "DENY"
  /\ risk = "strict" \/ Level(TrustKeyOf(s)) >= 2

\* The call c, idle so far, is evaluated as r under the rule.
Evaluates(c, r, rule) ==
  /\ calls[c] = Idle
  /\ \E risk \in {"none", "force", "strict"} :
       /\ rule = EffectiveRule(r.session, r.action, r.args, risk)
       /\ r.strict = Strict(r.session, r.action, r.args, risk)

Goes(c, to) == calls' = [calls EXCEPT ![c] = to]

EvaluateAllow(c, r) ==
  /\ Evaluates(c, r, "ALLOW")
  /\ Goes(c, Running(r, "policy", r.args))
  /\ UNCHANGED <<entries, sinceCleanup, denials, policy>>

EvaluateDeny(c, r) ==
  /\ Evaluates(c, r, "DENY")
  /\ Goes(c, Refused(r, "policy"))
  /\ UNCHANGED <<entries, sinceCleanup, denials, policy>>

(***************************************************************************)
(* Arbitrator.judge.                                                       *)
(***************************************************************************)
\* judgeChannel finds an approval for these very arguments.
ConsumeApproval(c, r) ==
  /\ Evaluates(c, r, "ASK")
  /\ r.session # NoSession
  /\ CanConsume(entries, KeyOf(r), r.args)
  /\ entries' = AfterConsume(entries, KeyOf(r))
  /\ Goes(c, Running(r, "channel", entries[KeyOf(r)].args))
  /\ UNCHANGED <<sinceCleanup, denials, policy>>

\* It finds none: the request is queued, and the call waits for the
\* notification to go out or, without a notifier, fails at once.
RequestApproval(c, r) ==
  /\ Evaluates(c, r, "ASK")
  /\ r.session # NoSession
  /\ ~CanConsume(entries, KeyOf(r), r.args)
  /\ entries' = AfterRequest(Cleaned(AfterConsume(entries, KeyOf(r))),
                             KeyOf(r), r.args, r.strict)
  /\ MarkCleanup
  /\ Goes(c, IF Notifies THEN Notifying(r) ELSE Refused(r, "approval"))
  /\ UNCHANGED <<denials, policy>>

\* onBlockCallback answers whether the human could be notified; when it
\* throws, evaluate throws too and the hook blocks the call.
NotifyAnswer(c, notified) ==
  /\ calls[c].pc = "notifying"
  /\ Goes(c, IF notified THEN Waiting(calls[c].req, TTL, FALSE)
                         ELSE Refused(calls[c].req, "approval"))
  /\ UNCHANGED <<entries, sinceCleanup, denials, policy>>

\* One tick of the polling loop of waitForApproval.
PollApproved(c) ==
  /\ calls[c].pc = "waiting"
  /\ LET r == calls[c].req
         e == entries[KeyOf(r)] IN
     /\ IsApproved(e)
     /\ entries' = [entries EXCEPT ![KeyOf(r)] = NoEntry]
     /\ Goes(c, Running(r, "channel", e.args))
  /\ UNCHANGED <<sinceCleanup, denials, policy>>

\* Mutant: the deadline is looked at before the entry.
PollDeadlineFirst(c) ==
  /\ calls[c].pc = "waiting"
  /\ LET e == entries[KeyOf(calls[c].req)] IN
       (~IsPending(e) /\ ~IsApproved(e)) \/ calls[c].left = 0
  /\ Goes(c, Refused(calls[c].req, "approval"))
  /\ UNCHANGED <<entries, sinceCleanup, denials, policy>>

\* Mutant: only the expiry of the entry ends the loop.
PollNoDeadline(c) ==
  /\ calls[c].pc = "waiting"
  /\ LET e == entries[KeyOf(calls[c].req)] IN ~IsPending(e) /\ ~IsApproved(e)
  /\ Goes(c, Refused(calls[c].req, "approval"))
  /\ UNCHANGED <<entries, sinceCleanup, denials, policy>>

PollGivesUp(c) ==
  /\ calls[c].pc = "waiting"
  /\ LET e == entries[KeyOf(calls[c].req)] IN
     \/ ~IsPending(e) /\ ~IsApproved(e)
     \/ IsPending(e) /\ calls[c].left = 0
  /\ Goes(c, Refused(calls[c].req, "approval"))
  /\ UNCHANGED <<entries, sinceCleanup, denials, policy>>

PollAgain(c) ==
  /\ calls[c].pc = "waiting"
  /\ IsPending(entries[KeyOf(calls[c].req)])
  /\ calls[c].left > 0
  /\ Goes(c, Waiting(calls[c].req, calls[c].left, TRUE))
  /\ UNCHANGED <<entries, sinceCleanup, denials, policy>>

Poll(c) == PollApproved(c) \/ PollGivesUp(c) \/ PollAgain(c)

\* judgeTTY puts the call before the human at the terminal.
PromptTTY(c, r) ==
  /\ Evaluates(c, r, "ASK")
  /\ r.session = NoSession
  /\ IsTTY
  /\ Goes(c, Prompting(r))
  /\ UNCHANGED <<entries, sinceCleanup, denials, policy>>

\* A strict call is approved by a valid code once an authenticator is set up.
AnswerYes(c, code) ==
  /\ calls[c].pc = "prompting"
  /\ TotpConfigured /\ calls[c].req.strict => code = "valid"
  /\ Goes(c, Running(calls[c].req, "terminal", calls[c].req.args))
  /\ UNCHANGED <<entries, sinceCleanup, denials, policy>>

AnswerNo(c) ==
  /\ calls[c].pc = "prompting"
  /\ RecordDenial("tty", NoSession)
  /\ Goes(c, Refused(calls[c].req, "terminal"))
  /\ UNCHANGED <<entries, sinceCleanup, policy>>

\* Neither a session nor a terminal: nobody to ask.
AutoDeny(c, r) ==
  /\ Evaluates(c, r, "ASK")
  /\ r.session = NoSession
  /\ ~IsTTY
  /\ Goes(c, Refused(r, "terminal"))
  /\ UNCHANGED <<entries, sinceCleanup, denials, policy>>

(***************************************************************************)
(* The chat commands, which act on the latest pending entry of any session.*)
(***************************************************************************)
NeedsCode(e) == TotpConfigured /\ e.strict

\* Mutant: any code will do.
CodePresent(e, code) == NeedsCode(e) => code # "none"

CodeAccepted(e, code) == NeedsCode(e) => code = "valid"

Approve(k, code) ==
  /\ k \in LatestPending(Cleaned(entries))
  /\ CodeAccepted(entries[k], code)
  /\ entries' = Approved(Cleaned(entries), k, NeedsCode(entries[k]) /\ code = "valid")
  /\ MarkCleanup
  /\ UNCHANGED <<denials, policy, calls>>

Deny(k) ==
  /\ k \in LatestPending(Cleaned(entries))
  /\ entries' = Denied(Cleaned(entries), k)
  /\ MarkCleanup
  /\ RecordDenial("channel-deny", k[1])
  /\ UNCHANGED <<policy, calls>>

\* No pending entry, or a wrong code: only the housekeeping takes place.
CommandFails(code) ==
  /\ \/ LatestPending(Cleaned(entries)) = {}
     \/ \E k \in LatestPending(Cleaned(entries)) : ~CodeAccepted(entries[k], code)
  /\ entries' = Cleaned(entries)
  /\ MarkCleanup
  /\ UNCHANGED <<denials, policy, calls>>

(***************************************************************************)
(* The singletons are exported: a host may resolve an entry by its key and *)
(* record rejections of its own.                                           *)
(***************************************************************************)
ResolveBySession(k, decision) ==
  /\ Embedder
  /\ MarkCleanup
  /\ \/ /\ ~IsPending(entries[k])
        /\ entries' = Cleaned(entries)
     \/ /\ IsPending(entries[k]) /\ decision = "approve"
        /\ entries' = Approved(Cleaned(entries), k, FALSE)
     \/ /\ IsPending(entries[k]) /\ decision = "deny"
        /\ entries' = Denied(Cleaned(entries), k)
  /\ UNCHANGED <<denials, policy, calls>>

HostRecordsDenial(s) ==
  /\ Embedder
  /\ RecordDenial(s, s)
  /\ UNCHANGED <<entries, sinceCleanup, policy, calls>>

(***************************************************************************)
(* The rest of the world.                                                  *)
(***************************************************************************)
\* The tool has run, or the agent has seen the error.
Leave(c) ==
  /\ calls[c].pc \in {"running", "refused"}
  /\ Goes(c, Idle)
  /\ UNCHANGED <<entries, sinceCleanup, denials, policy>>

\* setPolicy, from reloadPolicy or updateConfig.
Reload ==
  /\ policy' \in Policies \ {policy}
  /\ UNCHANGED <<entries, sinceCleanup, denials, calls>>

\* Queue and limiter live in memory only.
Restart ==
  /\ entries' = [k \in Keys |-> NoEntry]
  /\ sinceCleanup' = 0
  /\ denials' = {}
  /\ calls' = [c \in Calls |-> Idle]
  /\ policy' \in Policies

\* A tick is longer than the 500 ms between two polls.
Tick ==
  /\ \A c \in Calls : calls[c].pc = "waiting" => calls[c].polled
  /\ QueueTick
  /\ TrustTick
  /\ calls' = [c \in Calls |->
                 IF calls[c].pc = "waiting"
                 THEN Waiting(calls[c].req,
                              IF calls[c].left = 0 THEN 0 ELSE calls[c].left - 1,
                              FALSE)
                 ELSE calls[c]]
  /\ UNCHANGED policy

Codes == {"none", "wrong", "valid"}

Evaluate(c, r) ==
  \/ EvaluateAllow(c, r)
  \/ EvaluateDeny(c, r)
  \/ ConsumeApproval(c, r)
  \/ RequestApproval(c, r)
  \/ PromptTTY(c, r)
  \/ AutoDeny(c, r)

Proceed(c) ==
  \/ NotifyAnswer(c, TRUE)
  \/ NotifyAnswer(c, FALSE)
  \/ Poll(c)
  \/ AnswerNo(c)
  \/ \E code \in Codes : AnswerYes(c, code)
  \/ Leave(c)

Human ==
  \/ \E k \in Keys, code \in Codes : Approve(k, code)
  \/ \E k \in Keys : Deny(k)
  \/ \E code \in Codes : CommandFails(code)

Host ==
  \/ \E k \in Keys : ResolveBySession(k, "approve") \/ ResolveBySession(k, "deny")
  \/ \E s \in Sessions : HostRecordsDenial(s)

Next ==
  \/ \E c \in Calls, r \in Request : Evaluate(c, r)
  \/ \E c \in Calls : Proceed(c)
  \/ Human
  \/ Host
  \/ Reload
  \/ Restart
  \/ Tick

Spec == Init /\ [][Next]_vars

\* setTimeout fires; and the clock moves on however busy the process is (every
\* stall lasts half a second at least, so there is no infinite run of calls
\* within a tick).  Nothing makes the human, the notifier or the agent act.
FairSpec == Spec /\ SF_vars(Tick) /\ \A c \in Calls : WF_vars(Poll(c))

-----------------------------------------------------------------------------
(***************************************************************************)
(* What the gate promises.                                                 *)
(***************************************************************************)
\* The gate implements the ledger: whatever the interleaving of calls,
\* commands, expiry, clean-up and restarts, each yes lets one call through,
\* of the session and action asked about.  Where calls fail and are retried
\* (no notifier) the call also has the arguments that were asked about.
LedgerEntry(e) ==
  IF IsPending(e) THEN [is |-> "asked", args |-> e.args]
  ELSE IF IsApproved(e) THEN [is |-> "granted", args |-> e.args]
  ELSE [is |-> "nothing"]

LedgerRun(call) ==
  IF call.pc # "running" THEN [by |-> "nobody"]
  ELSE IF call.via # "channel" THEN [by |-> "other"]
  ELSE [by |-> "grant", key |-> KeyOf(call.req), args |-> call.req.args]

LedgerOf == [k \in Keys |-> LedgerEntry(entries[k])]

RunsOf == [c \in Calls |-> LedgerRun(calls[c])]

Ledger == INSTANCE ApprovalLedger WITH
  Exact <- ~Notifies, ledger <- LedgerOf, runs <- RunsOf

LedgerSpec == Ledger!Spec

\* With an authenticator set up and no host resolving entries itself, an
\* approval of a strict entry came with a valid code (approval-commands.ts),
\* even when entries of several sessions are pending at once.
StrictApprovalsCoded ==
  TotpConfigured /\ ~Embedder =>
    \A k \in Keys : IsApproved(entries[k]) /\ entries[k].strict => entries[k].coded

\* Nothing but a call that spends it, a call with other arguments, the end
\* of its life or a restart takes an approval away: no command about another
\* request, no clean-up and no retry of the same call does.
SpentBy(k) ==
  \E c \in Calls : /\ calls[c].pc # "running" /\ calls'[c].pc = "running"
                   /\ KeyOf(calls'[c].req) = k

SupersededBy(k) ==
  /\ IsPending(entries'[k]) /\ entries'[k].args # entries[k].args
  /\ \E c \in Calls : /\ calls[c] = Idle /\ calls'[c] # Idle
                      /\ KeyOf(calls'[c].req) = k
                      /\ calls'[c].req.args = entries'[k].args

ApprovalsKept ==
  [][\A k \in Keys :
       IsApproved(entries[k]) /\ ~IsApproved(entries'[k]) =>
         \/ SpentBy(k)
         \/ SupersededBy(k)
         \/ entries[k].left = 1 /\ IsStale(entries'[k])
         \/ \A c \in Calls : calls'[c] = Idle]_vars

\* /approve and /deny name no request, so what the human is reading must not
\* be exchanged under the answer: a pending question stays, arguments and
\* strictness included, until it is answered while it is the latest one, its
\* life ends, or, once the retry window is over, a call of its session and
\* action asks anew.  Neither a call with other arguments within the window
\* (ApprovalQueue.request keeps the older question), nor a clean-up, nor an
\* answer to another session's question changes it.
SameQuestion(e, f) == IsPending(f) /\ f.args = e.args /\ f.strict = e.strict

AnsweredAt(k) ==
  /\ k \in LatestPending(entries) \/ Embedder
  /\ calls' = calls
  /\ \/ entries'[k] = NoEntry
     \/ /\ IsApproved(entries'[k])
        /\ entries'[k].args = entries[k].args /\ entries'[k].strict = entries[k].strict

AskedAnew(k) ==
  /\ TTL - entries[k].left > RetryWindow
  /\ \E c \in Calls : /\ calls[c] = Idle /\ calls'[c] # Idle
                     /\ KeyOf(calls'[c].req) = k

QuestionStands ==
  [][\A k \in Keys :
       IsPending(entries[k]) =>
         \/ SameQuestion(entries[k], entries'[k])
         \/ AnsweredAt(k)
         \/ AskedAnew(k)
         \/ entries[k].left = 1 /\ IsStale(entries'[k])
         \/ \A c \in Calls, j \in Keys : calls'[c] = Idle /\ entries'[j] = NoEntry]_vars

\* An agent that is told APPROVAL_REQUIRED by the in-chat fallback leaves the
\* human a pending request with at least TTL - RetryWindow to answer it, also
\* when the request is an older one that was kept.
TimeToAnswer ==
  [][\A c \in Calls :
       /\ calls[c] = Idle
       /\ calls'[c].pc = "refused" /\ calls'[c].why = "approval"
       => LET e == entries'[KeyOf(calls'[c].req)] IN
            IsPending(e) /\ e.left + RetryWindow >= TTL]_vars

\* A yes given while a call is stalled on the request lets it run before the
\* yes expires, even when it comes as the stall's own time runs out, unless
\* another call spends it or wipes it out first.
ApprovalReachesStall ==
  [][\A c \in Calls :
       /\ calls[c].pc = "waiting" /\ IsApproved(entries[KeyOf(calls[c].req)])
       /\ calls'[c] # Idle
       => LET k == KeyOf(calls[c].req) IN
            \/ calls'[c].pc = "running"
            \/ /\ calls'[c].pc = "waiting"
               /\ IsApproved(entries'[k]) \/ SpentBy(k) \/ SupersededBy(k)]_vars

\* No stall lasts forever, whatever other calls and commands do to the entry.
StallsEnd == \A c \in Calls : calls[c].pc = "waiting" ~> calls[c].pc # "waiting"

(***************************************************************************)
(* What the repository says of the gate and the code does not keep.        *)
(***************************************************************************)
\* An approval is bound to the exact args shown to the user
\* (ApprovalQueue.ts).
RunsAsApproved ==
  \A c \in Calls : calls[c].pc = "running" => calls[c].shown = calls[c].req.args

\* The limiter tracks denials per session, and enough of them turn the
\* session's ALLOW rules into ASK (TrustRateLimiter.ts).
EscalationSeesDenials ==
  \A s \in Sessions \cup {NoSession} :
    Cardinality({d \in denials : d.of = s}) >= Level1 => Level(TrustKeyOf(s)) >= 1
=============================================================================
