---------------------------- MODULE OpenClawSync ----------------------------
(***************************************************************************)
(* The requests of the dashboard (shared/server/dashboard-api.ts) that     *)
(* change the configuration: the toggles of two middlewares, saving the    *)
(* context-editing page, staging a write and the Sync button.  Their work  *)
(* is a sequence of steps on two files: the store (module ConfigStore) and *)
(* openclaw.json, which belongs to the gateway.  Writes to openclaw.json   *)
(* are staged in the store first and flushed together                      *)
(* (shared/server/openclaw-sync.ts); each flush loads openclaw.json whole  *)
(* and replaces it whole, through the gateway, which may refuse: then the  *)
(* file is written behind its back.  The gateway restarts when a flush     *)
(* asks for it, and then every request in flight is lost.                  *)
(***************************************************************************)
EXTENDS ConfigStore

CONSTANTS Models,            \* values of agents.defaults.compaction.model
          Kinds,             \* the kinds of request the dashboard sends
          Bodies,            \* model and pruning mode in them
          MaxRequests        \* bound: requests sent

\* Paths of openclaw.json; the store's key of the same name holds the staged
\* write of the path.
Paths == {"model", "pruning", "router"}

\* Of these a change must reach the plugins that captured api.config.
MustRestart == {"model", "pruning"}

On == "on"

Off == "off"

ASSUME SyncAssumption ==
  /\ Keys = {"ceFlag", "mrFlag", "ceModel", "cePruning", "mrPolicy"} \cup Paths
  /\ Values = Models \cup {On, Off}
  /\ Watched = {"ceFlag", "mrFlag"}
  /\ On \notin Models /\ Off \notin Models
  /\ Kinds \subseteq {"ceOn", "ceOff", "mrOn", "mrOff", "save", "stage", "sync"}
  /\ Bodies \subseteq (Models \cup {NoValue}) \X {On, Off}
  /\ MaxRequests \in Nat

VARIABLES oc,        \* openclaw.json; a value for each path
          snap,      \* _runtime.config.current(): as the gateway last wrote it
          captured,  \* api.config as the plugins captured it at load
          raw,       \* history: restart paths written behind the gateway's back
          restart,   \* the gateway has been asked to restart
          req,       \* req[r]: what request r has still to do
          sent       \* requests sent so far

files == <<oc, snap, captured, raw>>
syncVars == <<files, restart, req, sent>>
vars == <<storeVars, syncVars>>

OpenClaw == [Paths -> Values \cup {NoValue}]

\* No staged write at all.
NothingStaged == [p \in Paths |-> NoValue]

\* A staged value that is undefined does not survive JSON: NoValue.
StagedIn(f) == [p \in Paths |-> f[p]]

\* SEMANTIC_EQUAL: without contextPruning pruning is off.
Same(p, a, b) == a = b \/ (p = "pruning" /\ {a, b} \subseteq {NoValue, Off})

Only(k, v) == [x \in {k} |-> v]

Put(c) == [do |-> "put", change |-> c]
Delete(ks) == [do |-> "delete", change |-> [k \in ks |-> NoValue]]
Stage(s) == [do |-> "stage", change |-> s]
NoChange == [k \in {} |-> NoValue]
Flush == [do |-> "flush", change |-> NoChange]
Strip == [do |-> "strip", change |-> NoChange]
Reply == [do |-> "reply", change |-> NoChange]

Policy(m, p) == [k \in {"ceModel", "cePruning"} |-> IF k = "ceModel" THEN m ELSE p]

Mirror(m, p) == [x \in {"model", "pruning"} |-> IF x = "model" THEN m ELSE p]

\* The work of a request, in the order of the code.
Program(kind, m, p) ==
  CASE kind = "ceOn"  -> <<Put(Only("ceFlag", On)), Reply, Put(Policy(NoValue, Off)),
                           Stage(Mirror(NoValue, Off)), Flush>>
    [] kind = "ceOff" -> <<Put(Only("ceFlag", Off)), Reply, Delete({"ceModel", "cePruning"})>>
    [] kind = "mrOn"  -> <<Put(Only("mrFlag", On)), Reply, Put(Only("mrPolicy", On)),
                           Stage(Only("router", On)), Flush>>
    [] kind = "mrOff" -> <<Put(Only("mrFlag", Off)), Reply, Delete({"mrPolicy"}), Strip>>
    [] kind = "save"  -> <<Stage(Mirror(m, p)), Flush, Put(Policy(m, p)), Reply>>
    [] kind = "stage" -> <<Stage(Only("pruning", p)), Reply>>
    [] kind = "sync"  -> <<Flush, Reply>>

\* at: "run" the next step is due, "read" the staged writes have been read,
\* "loaded" openclaw.json has been loaded, "store" a change is in the chain.
Task(todo, at, seen, next) == [todo |-> todo, at |-> at, seen |-> seen, next |-> next]

\* No request.
Idle == Task(<<>>, "idle", NothingStaged, NothingStaged)

Do(r) == Head(req[r].todo).do

At(r, at, do) == req[r] # Idle /\ req[r].at = at /\ Do(r) = do

\* The request waits for its change; what it has read it needs no more.
Awaits(r) == req' = [req EXCEPT ![r] = Task(@.todo, "store", NothingStaged, NothingStaged)]

\* Mutant: the last step of a request leaves it without one.
StepDoneEmpty(r) ==
  req' = [req EXCEPT ![r] = Task(Tail(@.todo), "run", NothingStaged, NothingStaged)]

\* The step in front is done; a request without steps is over.
StepDone(r) ==
  req' = [req EXCEPT ![r] = IF Len(@.todo) = 1 THEN Idle
                            ELSE Task(Tail(@.todo), "run", NothingStaged, NothingStaged)]

Init ==
  /\ StoreInit
  /\ file = [Empty EXCEPT !["ceFlag"] = On]
  /\ oc = [p \in Paths |-> NoValue]
  /\ snap = oc /\ captured = oc
  /\ raw = {}
  /\ restart = FALSE
  /\ req = [r \in Requests |-> Idle]
  /\ sent = 0

Send(r, kind, m, p) ==
  /\ req[r] = Idle /\ sent < MaxRequests
  /\ req' = [req EXCEPT ![r] = Task(Program(kind, m, p), "run", NothingStaged, NothingStaged)]
  /\ sent' = sent + 1
  /\ UNCHANGED <<storeVars, files, restart>>

StartChange(r) ==
  /\ At(r, "run", "put") \/ At(r, "run", "delete")
  /\ Submit(r, Head(req[r].todo).change, Do(r) = "delete")
  /\ Awaits(r)
  /\ UNCHANGED <<files, restart, sent>>

\* stageOpenClawWrites reads the staged writes outside the chain ...
StageRead(r) ==
  /\ At(r, "run", "stage")
  /\ req' = [req EXCEPT ![r] = [@ EXCEPT !.at = "read", !.seen = StagedIn(Read(file))]]
  /\ UNCHANGED <<storeVars, files, restart, sent>>

\* ... and replaces all of them.
StageWrite(r) ==
  /\ At(r, "read", "stage")
  /\ LET new == Head(req[r].todo).change
     IN Submit(r, [p \in Paths |-> IF p \in DOMAIN new THEN new[p] ELSE req[r].seen[p]], FALSE)
  /\ Awaits(r)
  /\ UNCHANGED <<files, restart, sent>>

FlushRead(r) ==
  /\ At(r, "run", "flush")
  /\ LET seen == StagedIn(Read(file))
     IN \/ seen = NothingStaged /\ StepDone(r)
        \/ seen # NothingStaged
           /\ req' = [req EXCEPT ![r] = [@ EXCEPT !.at = "read", !.seen = seen]]
  /\ UNCHANGED <<storeVars, files, restart, sent>>

Changed(seen, f) == {p \in Paths : seen[p] # NoValue /\ ~ Same(p, f[p], seen[p])}

\* loadOpenClawConfig: the gateway's snapshot, which lags behind a write made
\* without the gateway until that reads the file again; or the file itself.
Loads == {snap, oc}

\* Mutant: a flush does not forget the writes that openclaw.json has already.
FlushLoadAll(r) ==
  /\ At(r, "read", "flush")
  /\ \E f \in Loads :
       LET changed == Changed(req[r].seen, f)
           next == [p \in Paths |-> IF p \in changed THEN req[r].seen[p] ELSE f[p]]
       IN req' = [req EXCEPT ![r] = [@ EXCEPT !.at = "loaded", !.next = next]]
  /\ UNCHANGED <<storeVars, files, restart, sent>>

\* loadOpenClawConfig and the comparison with the staged writes.
FlushLoad(r) ==
  /\ At(r, "read", "flush")
  /\ \E f \in Loads :
       LET seen == req[r].seen
           changed == Changed(seen, f)
           next == [p \in Paths |-> IF p \in changed THEN seen[p] ELSE f[p]]
       IN \/ /\ changed = {}
             /\ Submit(r, NothingStaged, FALSE)
             /\ Awaits(r)
          \/ /\ changed # {}
             /\ req' = [req EXCEPT ![r] =
                          [@ EXCEPT !.at = "loaded", !.next = next,
                                    !.seen = [p \in Paths |->
                                                IF p \in changed THEN seen[p] ELSE NoValue]]]
             /\ UNCHANGED storeVars
  /\ UNCHANGED <<files, restart, sent>>

\* Mutant: every flush is saved with the default policy.
FlushSaveAuto(r) ==
  /\ At(r, "loaded", "flush")
  /\ oc' = req[r].next /\ snap' = req[r].next
  /\ Submit(r, NothingStaged, FALSE)
  /\ Awaits(r)
  /\ UNCHANGED <<captured, raw, restart, sent>>

\* saveOpenClawConfig through the gateway, with the restart policy; then the
\* staged writes are cleared.
FlushSave(r) ==
  /\ At(r, "loaded", "flush")
  /\ oc' = req[r].next /\ snap' = req[r].next
  /\ restart' = (restart \/ \E p \in MustRestart : req[r].seen[p] # NoValue)
  /\ Submit(r, NothingStaged, FALSE)
  /\ Awaits(r)
  /\ UNCHANGED <<captured, raw, sent>>

\* stripOpenClawConfig: load, remove the router, save if that changed it.
StripLoad(r) ==
  /\ At(r, "run", "strip")
  /\ \E f \in Loads :
       \/ f["router"] = NoValue /\ StepDone(r)
       \/ f["router"] # NoValue
          /\ req' = [req EXCEPT ![r] = [@ EXCEPT !.at = "loaded",
                                                 !.next = [f EXCEPT !["router"] = NoValue]]]
  /\ UNCHANGED <<storeVars, files, restart, sent>>

StripSave(r) ==
  /\ At(r, "loaded", "strip")
  /\ oc' = req[r].next /\ snap' = req[r].next
  /\ StepDone(r)
  /\ UNCHANGED <<storeVars, captured, raw, restart, sent>>

\* replaceConfigFile throws: the file is written without the gateway, which
\* is not asked for anything, and the caller is told that all went well.
\* Bound: it does so as long as no other fault has happened.
SaveRaw(r) ==
  /\ faults < MaxFaults
  /\ oc' = req[r].next
  /\ raw' = raw \cup {p \in MustRestart : req[r].seen[p] # NoValue}
  /\ \/ /\ At(r, "loaded", "flush")
        /\ Submit(r, NothingStaged, FALSE)
        /\ Awaits(r)
     \/ /\ At(r, "loaded", "strip")
        /\ StepDone(r)
        /\ UNCHANGED storeVars
  /\ UNCHANGED <<snap, captured, restart, sent>>

\* That write fails too: a flush fails and the staged writes stay, while the
\* cleanup takes no notice.
SaveFails(r) ==
  /\ \/ At(r, "loaded", "flush") /\ req' = [req EXCEPT ![r] = Idle]
     \/ At(r, "loaded", "strip") /\ StepDone(r)
  /\ UNCHANGED <<storeVars, files, restart, sent>>

\* The change in front of the chain is written: its request goes on ...
ChangeDone ==
  /\ ChainWrite \/ ChainSkip
  /\ StepDone(Head(chain).by)
  /\ UNCHANGED <<files, restart, sent>>

\* Mutant: the caller is not told of a change that failed.
ChangeFailsSilently == ChainFail /\ UNCHANGED syncVars

\* ... or fails, and its request with it; a cleanup that could not delete its
\* keys goes on.
ChangeFails ==
  /\ ChainFail
  /\ IF Head(chain).deletes
     THEN StepDone(Head(chain).by)
     ELSE req' = [req EXCEPT ![Head(chain).by] = Idle]
  /\ UNCHANGED <<files, restart, sent>>

ChangeGoesOn == (ChainRead \/ ChainOpen) /\ UNCHANGED syncVars

Watch == (Poll \/ Notify) /\ UNCHANGED syncVars

Answer(r) ==
  /\ At(r, "run", "reply")
  /\ StepDone(r)
  /\ UNCHANGED <<storeVars, files, restart, sent>>

\* The gateway restarts, because a flush asked for it or on its own.
Restart ==
  /\ restart \/ faults < MaxFaults
  /\ StoreRestart
  /\ snap' = oc /\ captured' = oc
  /\ raw' = {}
  /\ restart' = FALSE
  /\ req' = [r \in Requests |-> Idle]
  /\ UNCHANGED <<oc, sent>>

Work(r) ==
  \/ StartChange(r) \/ StageRead(r) \/ StageWrite(r)
  \/ FlushRead(r) \/ FlushLoad(r) \/ FlushSave(r)
  \/ StripLoad(r) \/ StripSave(r) \/ Answer(r)

Next ==
  \/ \E r \in Requests, kind \in Kinds, b \in Bodies : Send(r, kind, b[1], b[2])
  \/ \E r \in Requests : Work(r) \/ SaveRaw(r) \/ SaveFails(r)
  \/ ChangeGoesOn \/ ChangeDone \/ ChangeFails \/ Watch
  \/ Restart

Spec == Init /\ [][Next]_vars

\* Node runs the callbacks of a request and of the chain, and the poller.
Fairness ==
  /\ \A r \in Requests : WF_vars(Work(r))
  /\ WF_vars(ChangeGoesOn \/ ChangeDone)
  /\ WF_vars(Watch)

FairSpec == Spec /\ Fairness
-----------------------------------------------------------------------------
TypeOK ==
  /\ StoreTypeOK
  /\ oc \in OpenClaw /\ snap \in OpenClaw /\ captured \in OpenClaw
  /\ raw \subseteq MustRestart
  /\ restart \in BOOLEAN
  /\ \A r \in Requests :
       req[r] # Idle =>
         /\ req[r].todo # <<>>
         /\ req[r].at \in {"run", "read", "loaded", "store"}
         /\ req[r].seen \in OpenClaw /\ req[r].next \in OpenClaw
  /\ sent \in 0 .. MaxRequests

\* openclaw-sync.ts:81-95: what the plugins captured of a path that hot
\* reload does not refresh differs from openclaw.json only until the restart
\* a flush has asked for, also when several whole-file saves overlap and load
\* a snapshot that is behind; but for paths whose change the gateway refused,
\* which saveOpenClawConfig then writes without asking for a restart.
CapturedFresh ==
  \A p \in MustRestart : Same(p, captured[p], oc[p]) \/ restart \/ p \in raw

\* openclaw-sync.ts:102-105: no restart for writes openclaw.json already has,
\* unless it got them behind the gateway's back.
RestartForAChange ==
  [][restart' /\ ~ restart =>
       \E p \in MustRestart : ~ Same(p, oc[p], oc'[p]) \/ p \in raw]_vars

\* Every request comes to its end, whatever fails in between.
EveryRequestEnds == \A r \in Requests : req[r] # Idle ~> req[r] = Idle

\* The watcher brings every copy of a flag up to what the file says once the
\* writing is over, though it may have read the file while it was truncated.
CopiesCatchUp == <>[](\A k \in Watched : live[k] = Read(file)[k])

\* What the repository says of a flush and the code does not keep: whatever
\* changes a path hot reload does not refresh restarts the gateway
\* (openclaw-sync.ts:81-95).
NeverStale ==
  \A p \in MustRestart : Same(p, captured[p], oc[p]) \/ restart
=============================================================================
