---------------------------- MODULE ToolCallLimit ----------------------------
(***************************************************************************)
(* The budgets of tool calls (tool-call-limit/ToolCallLimitMiddleware.ts): *)
(* every call is charged to up to four trackers - its session's and its    *)
(* request's, each globally and for its tool - inside a promise chain that *)
(* serves one call at a time; the trackers are saved to two files before   *)
(* the call is answered, loaded when the process starts, wiped by the      *)
(* reset command of another process, and the window of a tracker ends.     *)
(*                                                                         *)
(* An action is one stretch of code between two awaits.  A tracker whose   *)
(* window is over behaves as a missing one and is modelled as one.         *)
(* Request ids are inputs, given by the host or by resolveRequestId.       *)
(***************************************************************************)
EXTENDS Naturals, Sequences, FiniteSets

CONSTANTS Sessions, Requests, Tools,
          Calls,          \* hook invocations that can be in flight
          Policies,       \* what a policy can say
          Default,        \* DEFAULT_LIMIT_POLICY
          NoPolicy,       \* this.policy is null; no overlay on disk
          Startup,        \* initialize() was called by the plugin or the embedder
          PluginStart,    \* initialize() is fire-and-forget: calls may come early
          Embedder,       \* the host uses updateConfig and the clear methods
          Tears,          \* a crash can leave the file being written torn
          Restarts,       \* whether the process may die
          ResetScopes,    \* what resets are asked for
          SawMarker,      \* the process has seen a reset marker already
          MaxResets,      \* bound: resets
          CountCap        \* bound: a budget with this many charges gets no more calls

Resources == {"GLOBAL"} \cup Tools

ASSUME LimitAssumption ==
  /\ Sessions \cap Requests = {}
  /\ "GLOBAL" \notin Tools
  /\ Policies \subseteq [{"session", "request"} \X Resources -> Nat]
  /\ Default \in Policies
  /\ NoPolicy \notin Policies
  /\ Startup \notin Calls
  /\ ResetScopes \subseteq {"all", "session", "request"}
  /\ {PluginStart, Embedder, Tears, Restarts, SawMarker} \subseteq BOOLEAN
  /\ MaxResets \in Nat /\ CountCap \in Nat

VARIABLES policy,    \* this.policy
          overlay,   \* the limits in the store file
          marker,    \* resetAt and resetScope in the store file
          lastSeen,  \* lastSeenResetAt, 0 for null
          init,      \* how far initialize() has got with the trackers
          loader,    \* whose call of initialize() loads them
          buffer,    \* what load() has read so far
          trackers,  \* the two Maps of the process
          disk,      \* the two tracker files
          torn,      \* which of them hold half a write
          snap,      \* what a save in progress writes
          queue,     \* the promise chain
          calls,     \* calls[c]: where the hook invocation c has got to
          cli,       \* the reset command
          clearer,   \* a clear method
          ran,       \* history: calls let through, per budget
          owed       \* history: calls charged, per budget

vars == <<policy, overlay, marker, lastSeen, init, loader, buffer, trackers, disk,
          torn, snap, queue, calls, cli, clearer, ran, owed>>

config == <<policy, overlay>>
files == <<disk, torn>>
loading == <<init, loader, buffer>>
history == <<ran, owed>>

Scopes == {"session", "request"}

Budgets == (Sessions \cup Requests) \X Resources

Scope(b) == IF b[1] \in Sessions THEN "session" ELSE "request"

Limit(p, b) == p[<<Scope(b), b[2]>>]

Tracker == [count : Nat, warned : BOOLEAN]

Fresh == [count |-> 0, warned |-> FALSE]

Empty == [b \in Budgets |-> Fresh]

Covered(scope) == IF scope = "all" THEN Scopes ELSE {scope}

\* t without what is kept for the scopes.
Wiped(t, scopes) == [b \in Budgets |-> IF Scope(b) \in scopes THEN Fresh ELSE t[b]]

(***************************************************************************)
(* enforceLimit.                                                           *)
(***************************************************************************)
\* Mutant: the warning comes with the block.
NoMargin(max) == max

SoftLimit(max) ==
  IF max <= 10 THEN IF max > 3 THEN max - 2 ELSE 1
               ELSE (max * 9) \div 10

\* Mutant: the hard limit is one call late.
LateVerdict(t, max) ==
  CASE t.count >= max -> "HARD"
    [] t.count < max /\ t.count + 1 >= SoftLimit(max) /\ ~t.warned -> "SOFT"
    [] OTHER -> "OK"

Verdict(t, max) ==
  CASE t.count + 1 >= max -> "HARD"
    [] t.count + 1 < max /\ t.count + 1 >= SoftLimit(max) /\ ~t.warned -> "SOFT"
    [] OTHER -> "OK"

Enforced(t, max) ==
  [count |-> t.count + 1, warned |-> t.warned \/ Verdict(t, max) = "SOFT"]

Worst(verdicts) ==
  CASE "HARD" \in verdicts -> "HARD"
    [] "HARD" \notin verdicts /\ "SOFT" \in verdicts -> "SOFT"
    [] OTHER -> "OK"

(***************************************************************************)
(* Calls.  seen is the marker the call has compared with lastSeenResetAt;  *)
(* billed is history: the budgets it was charged to and still counts for.  *)
(***************************************************************************)
Idle == [pc |-> "idle"]

Call ==
  {Idle} \cup
  [pc : {"queued", "resetting", "reset", "recording", "saving", "saved"},
   session : Sessions, request : Requests, tool : Tools, policy : Policies,
   status : {"OK", "SOFT", "HARD"}, seen : Nat, billed : SUBSET Budgets]

At(x, pc, status, seen, billed) ==
  [pc |-> pc, session |-> x.session, request |-> x.request, tool |-> x.tool,
   policy |-> x.policy, status |-> status, seen |-> seen, billed |-> billed]

Billed(x, scope) ==
  {b \in Budgets : /\ b[1] = IF scope = "session" THEN x.session ELSE x.request
                   /\ b[2] \in {"GLOBAL", x.tool}
                   /\ Limit(x.policy, b) > 0}

\* The chain links the calls in flight, each once, and its head is served.
ChainTypeOK ==
  /\ queue \in Seq(Calls)
  /\ \A i, j \in 1..Len(queue) : queue[i] = queue[j] => i = j
  /\ \A c \in Calls : calls[c] # Idle <=> \E i \in 1..Len(queue) : queue[i] = c
  /\ \A i \in 2..Len(queue) : calls[queue[i]].pc = "queued"

TypeOK ==
  /\ policy \in Policies \cup {NoPolicy}
  /\ overlay \in Policies \cup {NoPolicy}
  /\ marker \in [at : Nat, scope : {"all", "session", "request"}]
  /\ lastSeen \in Nat
  /\ init \in {"new", "loading", "half", "failed", "done"}
  /\ loader \in Calls \cup {Startup}
  /\ {buffer, trackers, disk} \subseteq [Budgets -> Tracker]
  /\ snap \in [Calls \cup {Startup} -> [Budgets -> Tracker]]
  /\ torn \subseteq Scopes
  /\ calls \in [Calls -> Call]
  /\ ChainTypeOK
  /\ cli \in [pc : {"idle", "sessions", "requests", "mark"},
              scope : {"all", "session", "request"}]
  /\ clearer \in {"idle", "saving", "saved"}
  /\ {ran, owed} \subseteq [Budgets -> Nat]

Init ==
  /\ overlay \in {NoPolicy, Default}
  /\ marker = [at |-> IF SawMarker THEN 1 ELSE 0, scope |-> "all"]
  /\ \/ /\ ~SawMarker /\ lastSeen = 0 /\ init = "new" /\ policy = NoPolicy
     \/ /\ SawMarker /\ lastSeen = 1 /\ init = "done" /\ policy = Default
  /\ loader = Startup
  /\ buffer = Empty /\ trackers = Empty /\ disk = Empty /\ torn = {}
  /\ snap = [w \in Calls \cup {Startup} |-> Empty]
  /\ queue = <<>>
  /\ calls = [c \in Calls |-> Idle]
  /\ cli = [pc |-> "idle", scope |-> "all"]
  /\ clearer = "idle"
  /\ ran = [b \in Budgets |-> 0]
  /\ owed = [b \in Budgets |-> 0]

(***************************************************************************)
(* Configuration: defaults < inline < disk overlay.                        *)
(***************************************************************************)
Built(base) == IF overlay = NoPolicy THEN base ELSE overlay

Initialize(inline) ==
  /\ init = "new" /\ queue = <<>>
  /\ policy' = Built(inline)
  /\ init' = "loading" /\ loader' = Startup
  /\ UNCHANGED <<overlay, marker, lastSeen, buffer, trackers, files, snap, queue,
                 calls, cli, clearer, history>>

UpdateConfig(patched) ==
  /\ Embedder
  /\ policy # NoPolicy
  /\ policy' = patched
  /\ UNCHANGED <<overlay, marker, lastSeen, loading, trackers, files, snap, queue,
                 calls, cli, clearer, history>>

ReloadConfig ==
  /\ policy' = Built(IF policy = NoPolicy THEN Default ELSE policy)
  /\ UNCHANGED <<overlay, marker, lastSeen, loading, trackers, files, snap, queue,
                 calls, cli, clearer, history>>

\* TrackerStore.load reads one file, then the other; a torn one ends it.
LoadSessions ==
  /\ init = "loading"
  /\ buffer' = IF "session" \in torn THEN Empty ELSE Wiped(disk, {"request"})
  /\ init' = IF "session" \in torn THEN "failed" ELSE "half"
  /\ UNCHANGED <<config, marker, lastSeen, loader, trackers, files, snap, queue,
                 calls, cli, clearer, history>>

\* Mutant: the sessions that were read are not installed.
LoadRequestsOnly ==
  /\ init \in {"half", "failed"}
  /\ trackers' = [b \in Budgets |->
                    IF Scope(b) = "request" /\ init = "half" /\ "request" \notin torn
                    THEN disk[b] ELSE Fresh]
  /\ init' = "done" /\ buffer' = Empty
  /\ UNCHANGED <<config, marker, lastSeen, loader, files, snap, queue, calls, cli,
                 clearer, history>>

\* Mutant: an unreadable file leaves the load unfinished.
LoadRequestsIfRead ==
  /\ init = "half"
  /\ trackers' = [b \in Budgets |->
                    IF Scope(b) = "session" THEN buffer[b]
                    ELSE IF "request" \notin torn THEN disk[b]
                    ELSE Fresh]
  /\ init' = "done" /\ buffer' = Empty
  /\ UNCHANGED <<config, marker, lastSeen, loader, files, snap, queue, calls, cli,
                 clearer, history>>

LoadRequests ==
  /\ init \in {"half", "failed"}
  /\ trackers' = [b \in Budgets |->
                    IF Scope(b) = "session" THEN buffer[b]
                    ELSE IF init = "half" /\ "request" \notin torn THEN disk[b]
                    ELSE Fresh]
  /\ init' = "done" /\ buffer' = Empty
  /\ UNCHANGED <<config, marker, lastSeen, loader, files, snap, queue, calls, cli,
                 clearer, history>>

(***************************************************************************)
(* beforeToolCall and incrementAndCheck.                                   *)
(***************************************************************************)
Goes(c, to) == calls' = [calls EXCEPT ![c] = to]

\* The policy is read before the call takes its place in the chain.
Arrive(c, s, r, t) ==
  /\ calls[c] = Idle
  /\ init # "done" /\ loader = Startup => PluginStart \/ init = "new"
  /\ LET x == [session |-> s, request |-> r, tool |-> t,
               policy |-> IF policy = NoPolicy THEN Built(Default) ELSE policy] IN
     /\ \A b \in Billed(x, "session") \cup Billed(x, "request") :
          {trackers[b].count, disk[b].count, owed[b]} \subseteq 0..(CountCap - 1)
     /\ Goes(c, At(x, "queued", "OK", 0, {}))
  /\ queue' = Append(queue, c)
  /\ UNCHANGED <<config, marker, lastSeen, loading, trackers, files, snap, cli,
                 clearer, history>>

\* Mutant: a call does not wait for its turn.
ServingOutOfTurn(c, pc) == queue # <<>> /\ calls[c].pc = pc

Serving(c, pc) == queue # <<>> /\ Head(queue) = c /\ calls[c].pc = pc

\* Nobody has called initialize() yet: the call does, and waits for it.
StartLoad(c) ==
  /\ Serving(c, "queued")
  /\ init = "new"
  /\ policy' = Built(Default)
  /\ init' = "loading" /\ loader' = c
  /\ UNCHANGED <<overlay, marker, lastSeen, buffer, trackers, files, snap, queue,
                 calls, cli, clearer, history>>

\* initialize() returns at once when the trackers are loaded, or when someone
\* else is loading them.
Ready(c) == init # "new" /\ (loader = c => init = "done")

\* A marker that differs from the last one seen is a reset, unless none was
\* seen before.
ResetDue == marker.at # lastSeen /\ lastSeen # 0

\* What save() gathers are the tracker objects, not their values: charges made
\* until a file is written show in it.
Following(gathered, t) ==
  [b \in Budgets |-> IF gathered[b] # Fresh /\ gathered[b] = trackers[b]
                     THEN t[b] ELSE gathered[b]]

\* The call is charged to its session's or its request's trackers, and gathers
\* what it will save, if it will.  A call the reset command has overtaken
\* belongs to the time before the reset.
Bill(c, scope, pc, seen, gathered) ==
  LET B == Billed(calls[c], scope)
      counts == IF seen = marker.at THEN B ELSE {}
      verdict(b) == Verdict(trackers[b], Limit(calls[c].policy, b)) IN
  /\ trackers' = [b \in Budgets |->
                    IF b \in B THEN Enforced(trackers[b], Limit(calls[c].policy, b))
                               ELSE trackers[b]]
  /\ snap' = [w \in Calls \cup {Startup} |->
                IF w = c THEN gathered ELSE Following(snap[w], trackers')]
  /\ owed' = [b \in Budgets |-> IF b \in counts THEN owed[b] + 1 ELSE owed[b]]
  /\ Goes(c, At(calls[c], pc, Worst({calls[c].status} \cup {verdict(b) : b \in B}),
                seen, calls[c].billed \cup counts))

Enter(c) ==
  /\ Serving(c, "queued")
  /\ Ready(c)
  /\ ~ResetDue
  /\ policy' = Built(Default)
  /\ lastSeen' = marker.at
  /\ Bill(c, "session", "recording", marker.at, Empty)
  /\ UNCHANGED <<overlay, marker, loading, files, queue, cli, clearer, ran>>

\* Mutant: the requests' trackers are forgotten by applyReset.
ApplyResetToSessions(t) == Wiped(t, Covered(marker.scope) \ {"request"})

ApplyReset(t) == Wiped(t, Covered(marker.scope))

EnterReset(c) ==
  /\ Serving(c, "queued")
  /\ Ready(c)
  /\ ResetDue
  /\ policy' = Built(Default)
  /\ trackers' = ApplyReset(trackers)
  /\ snap' = [snap EXCEPT ![c] = trackers']
  /\ Goes(c, At(calls[c], "resetting", "OK", marker.at, {}))
  /\ UNCHANGED <<overlay, marker, lastSeen, loading, files, queue, cli, clearer,
                 history>>

\* TrackerStore.save: one file, then the other.
WriteFile(t, scope) ==
  /\ disk' = [b \in Budgets |-> IF Scope(b) = scope THEN t[b] ELSE disk[b]]
  /\ torn' = torn \ {scope}

SaveSessions(c) ==
  /\ \/ Serving(c, "resetting") /\ Goes(c, [calls[c] EXCEPT !.pc = "reset"])
     \/ Serving(c, "saving") /\ Goes(c, [calls[c] EXCEPT !.pc = "saved"])
  /\ WriteFile(snap[c], "session")
  /\ UNCHANGED <<config, marker, lastSeen, loading, trackers, snap, queue, cli,
                 clearer, history>>

\* The empty trackers are saved: the call goes on.
FinishReset(c) ==
  /\ Serving(c, "reset")
  /\ WriteFile(snap[c], "request")
  /\ lastSeen' = calls[c].seen
  /\ Bill(c, "session", "recording", calls[c].seen, Empty)
  /\ UNCHANGED <<config, marker, loading, queue, cli, clearer, ran>>

\* Mutant: what will be written is gathered before the request is charged.
ChargeAfterSnapshot(c) ==
  /\ Serving(c, "recording")
  /\ Bill(c, "request", "saving", calls[c].seen, trackers)
  /\ UNCHANGED <<config, marker, lastSeen, loading, files, queue, cli, clearer, ran>>

\* The request id is saved: the request's trackers are charged, and what is
\* in the Maps now is what will be written.
ChargeRequest(c) ==
  /\ Serving(c, "recording")
  /\ Bill(c, "request", "saving", calls[c].seen, trackers')
  /\ UNCHANGED <<config, marker, lastSeen, loading, files, queue, cli, clearer, ran>>

\* The second file is written, the call answered and the next one served.
Answer(c) ==
  /\ Serving(c, "saved")
  /\ WriteFile(snap[c], "request")
  /\ snap' = [snap EXCEPT ![c] = Empty]
  /\ ran' = [b \in Budgets |->
               IF calls[c].status # "HARD" /\ b \in calls[c].billed
               THEN ran[b] + 1 ELSE ran[b]]
  /\ queue' = Tail(queue)
  /\ Goes(c, Idle)
  /\ UNCHANGED <<config, marker, lastSeen, loading, trackers, cli, clearer, owed>>

(***************************************************************************)
(* Resets, by the command line or the dashboard: the files are removed,    *)
(* then the marker is saved, with the policy it was read with.             *)
(***************************************************************************)
\* The history of the budgets in B ends.
Forgotten(B) ==
  /\ ran' = [b \in Budgets |-> IF b \in B THEN 0 ELSE ran[b]]
  /\ owed' = [b \in Budgets |-> IF b \in B THEN 0 ELSE owed[b]]
  /\ calls' = [c \in Calls |->
                 IF calls[c] = Idle THEN Idle
                 ELSE At(calls[c], calls[c].pc, calls[c].status, calls[c].seen,
                         calls[c].billed \ B)]

CliStart(scope) ==
  /\ cli.pc = "idle"
  /\ marker.at < MaxResets
  /\ cli' = [pc |-> IF scope = "request" THEN "requests" ELSE "sessions", scope |-> scope]
  /\ UNCHANGED <<config, marker, lastSeen, loading, trackers, files, snap, queue,
                 calls, clearer, history>>

CliRemove(scope, pc, next) ==
  /\ cli.pc = pc
  /\ cli' = [cli EXCEPT !.pc = next]
  /\ WriteFile(Empty, scope)
  /\ UNCHANGED <<config, marker, lastSeen, loading, trackers, snap, queue, calls,
                 clearer, history>>

CliMark ==
  /\ cli.pc = "mark"
  /\ cli' = [cli EXCEPT !.pc = "idle"]
  /\ marker' = [at |-> marker.at + 1, scope |-> cli.scope]
  /\ overlay' = Built(Default)
  /\ Forgotten({b \in Budgets : Scope(b) \in Covered(cli.scope)})
  /\ UNCHANGED <<policy, lastSeen, loading, trackers, files, snap, queue, clearer>>

Cli ==
  \/ \E scope \in ResetScopes : CliStart(scope)
  \/ CliRemove("session", "sessions", IF cli.scope = "all" THEN "requests" ELSE "mark")
  \/ CliRemove("request", "requests", "mark")
  \/ CliMark

(***************************************************************************)
(* clearSessionLimits and clearAllSessionLimits, which do not queue.       *)
(***************************************************************************)
Clear(B) ==
  /\ Embedder
  /\ clearer = "idle"
  /\ init = "done"
  /\ trackers' = [b \in Budgets |-> IF b \in B THEN Fresh ELSE trackers[b]]
  /\ snap' = [snap EXCEPT ![Startup] = trackers']
  /\ clearer' = "saving"
  /\ Forgotten(B)
  /\ UNCHANGED <<config, marker, lastSeen, loading, files, queue, cli>>

ClearSave ==
  /\ \/ /\ clearer = "saving" /\ clearer' = "saved"
        /\ WriteFile(snap[Startup], "session")
        /\ UNCHANGED snap
     \/ /\ clearer = "saved" /\ clearer' = "idle"
        /\ WriteFile(snap[Startup], "request")
        /\ snap' = [snap EXCEPT ![Startup] = Empty]
  /\ UNCHANGED <<config, marker, lastSeen, loading, trackers, queue, calls, cli,
                 history>>

(***************************************************************************)
(* The rest of the world.                                                  *)
(***************************************************************************)
\* 24 hours after its first call the tracker of a session starts anew,
\* wherever a copy of it is.
WindowEnds(b) ==
  /\ Scope(b) = "session"
  /\ owed[b] + trackers[b].count + disk[b].count > 0
  /\ trackers' = [trackers EXCEPT ![b] = Fresh]
  /\ disk' = [disk EXCEPT ![b] = Fresh]
  /\ buffer' = [buffer EXCEPT ![b] = Fresh]
  /\ snap' = [w \in Calls \cup {Startup} |-> [snap[w] EXCEPT ![b] = Fresh]]
  /\ Forgotten({b})
  /\ UNCHANGED <<config, marker, lastSeen, init, loader, torn, queue, cli, clearer>>

\* The files that are being written.
BeingWritten ==
  {scope \in Scopes :
     \/ \E c \in Calls : calls[c].pc \in IF scope = "session" THEN {"resetting", "saving"}
                                                            ELSE {"reset", "saved"}
     \/ clearer = IF scope = "session" THEN "saving" ELSE "saved"}

\* What load() will not recover: an unreadable file of sessions ends it before
\* it has come to the requests.
Lost == IF "session" \in torn' THEN Scopes ELSE torn'

\* The process dies, perhaps in the middle of a write, and starts again.  The
\* file it was writing goes with it, and so does the history of its budgets.
Restart ==
  /\ Restarts
  /\ torn' \in IF Tears THEN {torn \cup S : S \in SUBSET BeingWritten} ELSE {torn}
  /\ ran' = [b \in Budgets |-> IF Scope(b) \in Lost THEN 0 ELSE ran[b]]
  /\ owed' = [b \in Budgets |-> IF Scope(b) \in Lost THEN 0 ELSE owed[b]]
  /\ policy' = NoPolicy
  /\ lastSeen' = 0
  /\ init' = "new" /\ loader' = Startup /\ buffer' = Empty
  /\ trackers' = Empty
  /\ snap' = [w \in Calls \cup {Startup} |-> Empty]
  /\ queue' = <<>>
  /\ calls' = [c \in Calls |-> Idle]
  /\ clearer' = "idle"
  /\ UNCHANGED <<overlay, marker, disk, cli>>

Load == LoadSessions \/ LoadRequests

Serve(c) ==
  StartLoad(c) \/ Enter(c) \/ EnterReset(c) \/ SaveSessions(c) \/ FinishReset(c)
    \/ ChargeRequest(c) \/ Answer(c)

Next ==
  \/ \E p \in Policies : Initialize(p) \/ UpdateConfig(p)
  \/ ReloadConfig
  \/ Load
  \/ \E c \in Calls, s \in Sessions, r \in Requests, t \in Tools : Arrive(c, s, r, t)
  \/ \E c \in Calls : Serve(c)
  \/ Cli
  \/ Clear(Budgets)
  \/ \E s \in Sessions : Clear({s} \X Resources)
  \/ ClearSave
  \/ \E b \in Budgets : WindowEnds(b)
  \/ Restart

Spec == Init /\ [][Next]_vars

\* File operations end, and a settled promise runs what was chained to it.
FairSpec == Spec /\ WF_vars(Load) /\ \A c \in Calls : WF_vars(Serve(c))

-----------------------------------------------------------------------------
(***************************************************************************)
(* What the budgets promise.                                               *)
(***************************************************************************)
\* A budget lets fewer calls through than the largest limit in force says,
\* however calls, resets, clears and restarts interleave.
BudgetHolds ==
  \A b \in Budgets :
    (\A p \in Policies : Limit(p, b) > 0) => \E p \in Policies : ran[b] < Limit(p, b)

\* Once the trackers are loaded, every call that was let through is counted:
\* no interleaving of loads, saves and restarts loses one.
CountsEveryCall ==
  init = "done" => \A b \in Budgets : ran[b] <= trackers[b].count

\* And it is counted in the files by the time it is let through, so the
\* process may die at any moment.
SavedBeforeAnswered ==
  \A b \in Budgets : ran[b] <= disk[b].count

\* When every reset has been seen, nothing from before a reset or a clear is
\* held against the agent: what was wiped does not come back.
ResetsHonoured ==
  init = "done" /\ lastSeen = marker.at =>
    \A b \in Budgets : trackers[b].count <= owed[b]

\* No call is blocked on a budget of two or more without a warning before it,
\* also when the count is taken over from an earlier process.
WarnedBeforeBlocked ==
  \A b \in Budgets : \A p \in Policies :
    Limit(p, b) > 1 /\ trackers[b].count >= Limit(p, b) => trackers[b].warned

\* Every call is answered, whatever the calls before it met.
EveryCallAnswered == \A c \in Calls : calls[c] # Idle ~> calls[c] = Idle
=============================================================================
