------------------------- MODULE OpenClawSyncProofs -------------------------
(***************************************************************************)
(* Proofs about ConfigStore and OpenClawSync, for any number of requests,  *)
(* models and faults: what plugins hold of openclaw.json, and that the     *)
(* store implements AtomicStore.                                           *)
(***************************************************************************)
EXTENDS OpenClawSync, TLAPS

(***************************************************************************)
(* Types.                                                                  *)
(***************************************************************************)
Held0 == Values \cup {NoValue}

Changes == UNION {[D -> Held0] : D \in SUBSET Keys}

Links == [by : Requests, change : Changes, deletes : BOOLEAN]

Steps == [do : {"put", "delete", "stage", "flush", "strip", "reply"}, change : Changes]

Tasks == [todo : Seq(Steps), at : {"idle", "run", "read", "loaded", "store"},
          seen : OpenClaw, next : OpenClaw]

StoreTypes ==
  /\ file \in Contents \cup {Torn}
  /\ chain \in Seq(Links)
  /\ phase \in {"idle", "read", "open"}
  /\ draft \in Contents
  /\ faults \in Nat

\* A request has something to do unless it is over.
SyncTypes ==
  /\ oc \in OpenClaw /\ snap \in OpenClaw /\ captured \in OpenClaw
  /\ raw \subseteq MustRestart /\ restart \in BOOLEAN
  /\ req \in [Requests -> Tasks]
  /\ \A r \in Requests : req[r].at # "idle" => req[r].todo # <<>>

\* Each link of the chain is the step some request waits in, and no request
\* waits in two.
ChainOwned ==
  /\ \A i \in 1 .. Len(chain) : req[chain[i].by].at = "store"
  /\ \A i, j \in 1 .. Len(chain) : chain[i].by = chain[j].by => i = j

\* What a request loads, and is about to save, leaves the paths that need a
\* restart as the plugins have them, or it knows that it does not.
SavesFresh ==
  ~restart =>
    \A p \in MustRestart \ raw :
      /\ Same(p, captured[p], oc[p]) /\ Same(p, captured[p], snap[p])
      /\ \A r \in Requests :
           req[r].at = "loaded" =>
             \/ Same(p, captured[p], req[r].next[p])
             \/ Do(r) = "flush" /\ req[r].seen[p] # NoValue

IInv == StoreTypes /\ SyncTypes /\ ChainOwned /\ DraftCurrent /\ SavesFresh

LEMMA ChangeIs ==
  ASSUME NEW c
  PROVE  c \in Changes <=> IsChange(c)
<1>1. ASSUME c \in Changes
      PROVE  IsChange(c)
  <2>1. PICK D \in SUBSET Keys : c \in [D -> Held0]
    BY <1>1 DEF Changes
  <2> QED
    BY <2>1 DEF IsChange, Held0
<1>2. ASSUME IsChange(c)
      PROVE  c \in Changes
  <2>1. c \in [DOMAIN c -> Held0] /\ DOMAIN c \in SUBSET Keys
    BY <1>2 DEF IsChange, Held0
  <2>2. PICK D \in SUBSET Keys : c \in [D -> Held0]
    BY <2>1, Zenon
  <2> QED
    BY <2>2 DEF Changes
<1> QED
  BY <1>1, <1>2

LEMMA PathsAreKeys == Paths \subseteq Keys /\ MustRestart \subseteq Paths
BY SyncAssumption DEF Paths, MustRestart

LEMMA TaskType ==
  ASSUME NEW todo \in Seq(Steps), NEW at \in {"idle", "run", "read", "loaded", "store"},
         NEW seen \in OpenClaw, NEW next \in OpenClaw
  PROVE  /\ Task(todo, at, seen, next) \in Tasks
         /\ Task(todo, at, seen, next).todo = todo /\ Task(todo, at, seen, next).at = at
         /\ Task(todo, at, seen, next).seen = seen /\ Task(todo, at, seen, next).next = next
BY DEF Task, Tasks

LEMMA NothingType == NothingStaged \in OpenClaw
BY DEF NothingStaged, OpenClaw

LEMMA IdleType == Idle \in Tasks /\ Idle.at = "idle"
<1>1. <<>> \in Seq(Steps)
  OBVIOUS
<1> QED
  BY <1>1, NothingType DEF Idle, Task, Tasks

LEMMA ReadType ==
  ASSUME NEW f \in Contents \cup {Torn}
  PROVE  Read(f) \in Contents
BY DEF Read, Empty, Contents

LEMMA AppliedType ==
  ASSUME NEW c \in Changes, NEW f \in Contents
  PROVE  Applied(c, f) \in Contents
<1>1. PICK D \in SUBSET Keys : c \in [D -> Held0]
  BY DEF Changes
<1> QED
  BY <1>1 DEF Applied, Contents, Held0

LEMMA StagedType ==
  ASSUME NEW f \in Contents
  PROVE  StagedIn(f) \in OpenClaw
BY PathsAreKeys DEF StagedIn, OpenClaw, Contents

(***************************************************************************)
(* What the requests have to do.                                           *)
(***************************************************************************)
LEMMA NoChangeType == NoChange \in Changes
<1>1. NoChange \in [{} -> Held0] /\ {} \in SUBSET Keys
  BY DEF NoChange, Held0
<1> QED
  BY <1>1 DEF Changes

LEMMA StagedNothing == NothingStaged \in Changes
<1>1. NothingStaged \in [Paths -> Held0] /\ Paths \in SUBSET Keys
  BY PathsAreKeys DEF NothingStaged, Held0
<1> QED
  BY <1>1 DEF Changes

LEMMA OnlyType ==
  ASSUME NEW k \in Keys, NEW v \in Held0
  PROVE  Only(k, v) \in Changes
<1>1. Only(k, v) \in [{k} -> Held0] /\ {k} \in SUBSET Keys
  BY DEF Only
<1> QED
  BY <1>1 DEF Changes

LEMMA PairType ==
  ASSUME NEW v \in Held0, NEW w \in Held0
  PROVE  Policy(v, w) \in Changes /\ Mirror(v, w) \in Changes
<1>1. /\ Policy(v, w) \in [{"ceModel", "cePruning"} -> Held0]
      /\ {"ceModel", "cePruning"} \in SUBSET Keys
  BY SyncAssumption DEF Policy
<1>2. Mirror(v, w) \in [{"model", "pruning"} -> Held0] /\ {"model", "pruning"} \in SUBSET Keys
  BY PathsAreKeys DEF Mirror, Paths
<1> QED
  BY <1>1, <1>2 DEF Changes

LEMMA StepTypes ==
  /\ \A c \in Changes : Put(c) \in Steps /\ Stage(c) \in Steps
  /\ \A K \in SUBSET Keys : Delete(K) \in Steps
  /\ Flush \in Steps /\ Strip \in Steps /\ Reply \in Steps
<1>1. ASSUME NEW K \in SUBSET Keys
      PROVE  [k \in K |-> NoValue] \in Changes
  <2>1. [k \in K |-> NoValue] \in [K -> Held0]
    BY DEF Held0
  <2> QED
    BY <2>1 DEF Changes
<1> QED
  BY <1>1, NoChangeType DEF Put, Stage, Delete, Flush, Strip, Reply, Steps

LEMMA SomeSteps ==
  ASSUME NEW S
  PROVE  /\ \A a, b \in S : <<a, b>> \in Seq(S) /\ <<a, b>> # <<>>
         /\ \A a, b, c \in S : <<a, b, c>> \in Seq(S) /\ <<a, b, c>> # <<>>
         /\ \A a, b, c, d \in S : <<a, b, c, d>> \in Seq(S) /\ <<a, b, c, d>> # <<>>
         /\ \A a, b, c, d, e \in S : <<a, b, c, d, e>> \in Seq(S) /\ <<a, b, c, d, e>> # <<>>
OBVIOUS

LEMMA ProgramType ==
  ASSUME NEW kind \in Kinds, NEW b \in Bodies
  PROVE  /\ Program(kind, b[1], b[2]) \in Seq(Steps)
         /\ Program(kind, b[1], b[2]) # <<>>
<1> DEFINE m == b[1]
           p == b[2]
<1>1. m \in Held0 /\ p \in Held0 /\ On \in Held0 /\ Off \in Held0 /\ NoValue \in Held0
  BY SyncAssumption DEF Held0
<1>2. /\ {"ceFlag", "mrFlag", "ceModel", "cePruning", "mrPolicy", "router", "pruning"}
            \subseteq Keys
  BY SyncAssumption DEF Paths
<1> HIDE DEF m, p
<1>3. /\ Put(Only("ceFlag", On)) \in Steps /\ Put(Only("ceFlag", Off)) \in Steps
      /\ Put(Only("mrFlag", On)) \in Steps /\ Put(Only("mrFlag", Off)) \in Steps
      /\ Put(Only("mrPolicy", On)) \in Steps
  BY <1>1, <1>2, OnlyType, StepTypes
<1>4. /\ Stage(Only("router", On)) \in Steps /\ Stage(Only("pruning", p)) \in Steps
      /\ Stage(Mirror(NoValue, Off)) \in Steps /\ Stage(Mirror(m, p)) \in Steps
      /\ Put(Policy(NoValue, Off)) \in Steps /\ Put(Policy(m, p)) \in Steps
  BY <1>1, <1>2, OnlyType, PairType, StepTypes
<1>5. /\ Delete({"ceModel", "cePruning"}) \in Steps /\ Delete({"mrPolicy"}) \in Steps
  BY <1>2, StepTypes
<1>6. Flush \in Steps /\ Strip \in Steps /\ Reply \in Steps
  BY StepTypes
<1>7. kind \in {"ceOn", "ceOff", "mrOn", "mrOff", "save", "stage", "sync"}
  BY SyncAssumption
<1> DEFINE P == Program(kind, m, p)
           ceOn == <<Put(Only("ceFlag", On)), Reply, Put(Policy(NoValue, Off)),
                     Stage(Mirror(NoValue, Off)), Flush>>
           ceOff == <<Put(Only("ceFlag", Off)), Reply, Delete({"ceModel", "cePruning"})>>
           mrOn == <<Put(Only("mrFlag", On)), Reply, Put(Only("mrPolicy", On)),
                     Stage(Only("router", On)), Flush>>
           mrOff == <<Put(Only("mrFlag", Off)), Reply, Delete({"mrPolicy"}), Strip>>
           save == <<Stage(Mirror(m, p)), Flush, Put(Policy(m, p)), Reply>>
           stage == <<Stage(Only("pruning", p)), Reply>>
           sync == <<Flush, Reply>>
<1>8. /\ kind = "ceOn" => P = ceOn
      /\ kind = "ceOff" => P = ceOff
      /\ kind = "mrOn" => P = mrOn
      /\ kind = "mrOff" => P = mrOff
      /\ kind = "save" => P = save
      /\ kind = "stage" => P = stage
      /\ kind = "sync" => P = sync
  BY Zenon DEF Program
<1>a. /\ ceOn \in Seq(Steps) /\ ceOn # <<>> /\ mrOn \in Seq(Steps) /\ mrOn # <<>>
  BY <1>3, <1>4, <1>6, SomeSteps
<1>b. /\ ceOff \in Seq(Steps) /\ ceOff # <<>> /\ mrOff \in Seq(Steps) /\ mrOff # <<>>
  BY <1>3, <1>5, <1>6, SomeSteps
<1>c. /\ save \in Seq(Steps) /\ save # <<>> /\ stage \in Seq(Steps) /\ stage # <<>>
      /\ sync \in Seq(Steps) /\ sync # <<>>
  BY <1>4, <1>6, SomeSteps
<1>9. P \in Seq(Steps) /\ P # <<>>
  <2> HIDE DEF P, ceOn, ceOff, mrOn, mrOff, save, stage, sync
  <2> QED
    BY <1>7, <1>8, <1>a, <1>b, <1>c
<1> QED
  BY <1>9 DEF m, p

(***************************************************************************)
(* What becomes of a request.                                              *)
(***************************************************************************)
LEMMA HeadType ==
  ASSUME NEW S, NEW s \in Seq(S), s # <<>>
  PROVE  Head(s) \in S /\ Tail(s) \in Seq(S) /\ (Len(s) # 1 => Tail(s) # <<>>)
<1>1. Len(s) \in Nat /\ Len(s) # 0
  OBVIOUS
<1>2. Head(s) \in S
  OBVIOUS
<1>3. Tail(s) \in Seq(S) /\ Len(Tail(s)) = Len(s) - 1
  BY <1>1
<1>4. Len(s) # 1 => Tail(s) # <<>>
  <2> SUFFICES ASSUME Tail(s) = <<>>
               PROVE  Len(s) = 1
    OBVIOUS
  <2>1. Len(<<>>) = 0
    OBVIOUS
  <2>2. Len(Tail(s)) = 0
    BY <2>1, Zenon
  <2> QED
    BY <1>1, <1>3, <2>2
<1> QED
  BY <1>2, <1>3, <1>4

\* A request that is busy has a step in front.
LEMMA BusyType ==
  ASSUME SyncTypes, NEW r \in Requests, req[r].at # "idle"
  PROVE  /\ req[r] \in Tasks /\ req[r].todo # <<>>
         /\ Head(req[r].todo) \in Steps /\ Head(req[r].todo).change \in Changes
<1>1. req[r] \in Tasks /\ req[r].todo # <<>>
  BY DEF SyncTypes
<1>2. req[r].todo \in Seq(Steps)
  BY <1>1 DEF Tasks
<1>3. Head(req[r].todo) \in Steps
  BY <1>1, <1>2, HeadType, Zenon
<1>4. Head(req[r].todo).change \in Changes
  BY <1>3 DEF Steps
<1> QED
  BY <1>1, <1>3, <1>4

\* Requests other than r are left alone, and r has something to do or is over.
Leaves(r) ==
  /\ req' \in [Requests -> Tasks]
  /\ req'[r].at # "idle" => req'[r].todo # <<>>
  /\ \A q \in Requests : q # r => req'[q] = req[q]

LEMMA StepDoneLeaves ==
  ASSUME SyncTypes, NEW r \in Requests, req[r].at # "idle", StepDone(r)
  PROVE  Leaves(r) /\ req'[r].at \in {"idle", "run"}
<1> DEFINE rest == Task(Tail(req[r].todo), "run", NothingStaged, NothingStaged)
<1>1. req[r].todo \in Seq(Steps) /\ req[r].todo # <<>> /\ req \in [Requests -> Tasks]
  BY BusyType DEF SyncTypes, Tasks
<1>2. Tail(req[r].todo) \in Seq(Steps) /\ (Len(req[r].todo) # 1 => Tail(req[r].todo) # <<>>)
  BY <1>1, HeadType
<1>3. rest \in Tasks /\ rest.at = "run" /\ rest.todo = Tail(req[r].todo)
  BY <1>2, NothingType DEF Task, Tasks
<1>4. req' = [req EXCEPT ![r] = IF Len(req[r].todo) = 1 THEN Idle ELSE rest]
  BY DEF StepDone
<1> HIDE DEF rest
<1> QED
  BY <1>1, <1>2, <1>3, <1>4, IdleType DEF Leaves

LEMMA IdleLeaves ==
  ASSUME SyncTypes, NEW r \in Requests, req' = [req EXCEPT ![r] = Idle]
  PROVE  Leaves(r) /\ req'[r].at = "idle"
BY IdleType DEF Leaves, SyncTypes

LEMMA BecomesLeaves ==
  ASSUME SyncTypes, NEW r \in Requests, NEW t \in Tasks, t.todo # <<>>,
         req' = [req EXCEPT ![r] = t]
  PROVE  Leaves(r) /\ req'[r] = t
BY DEF Leaves, SyncTypes

LEMMA AwaitsLeaves ==
  ASSUME SyncTypes, NEW r \in Requests, req[r].at # "idle", Awaits(r)
  PROVE  Leaves(r) /\ req'[r].at = "store"
<1> DEFINE t == Task(req[r].todo, "store", NothingStaged, NothingStaged)
<1>1. t \in Tasks /\ t.at = "store" /\ t.todo # <<>>
  BY BusyType, NothingType, TaskType DEF Tasks
<1>2. req' = [req EXCEPT ![r] = t]
  BY DEF Awaits
<1> HIDE DEF t
<1> QED
  BY <1>1, <1>2, BecomesLeaves

LEMMA LeavesTypes ==
  ASSUME SyncTypes, NEW r \in Requests, Leaves(r),
         oc' \in OpenClaw, snap' \in OpenClaw, captured' \in OpenClaw,
         raw' \subseteq MustRestart, restart' \in BOOLEAN
  PROVE  SyncTypes'
BY DEF SyncTypes, Leaves

(***************************************************************************)
(* What becomes of the chain.                                              *)
(***************************************************************************)
\* A request that does not wait for the chain changes.
LEMMA OwnedBySame ==
  ASSUME ChainOwned, StoreTypes, NEW r \in Requests, Leaves(r),
         chain' = chain, req[r].at # "store"
  PROVE  ChainOwned'
<1>1. chain \in Seq(Links)
  BY DEF StoreTypes
<1>2. \A i \in 1 .. Len(chain) : chain[i].by \in Requests
  <2>1. \A i \in 1 .. Len(chain) : chain[i] \in Links
    BY <1>1
  <2> QED
    BY <2>1 DEF Links
<1> QED
  BY <1>2 DEF ChainOwned, Leaves

LEMMA OwnedByOneMore ==
  ASSUME ChainOwned, StoreTypes, NEW r \in Requests, Leaves(r), req[r].at # "store",
         NEW c \in Changes, NEW d \in BOOLEAN, Submit(r, c, d), req'[r].at = "store"
  PROVE  ChainOwned'
<1> DEFINE link == [by |-> r, change |-> c, deletes |-> d]
<1>1. link \in Links /\ link.by = r /\ chain \in Seq(Links)
  BY DEF Links, StoreTypes
<1>2. chain' = Append(chain, link)
  BY DEF Submit
<1> HIDE DEF link
<1>3. /\ Len(chain') = Len(chain) + 1 /\ Len(chain) \in Nat
      /\ chain'[Len(chain) + 1] = link
      /\ \A i \in 1 .. Len(chain) : chain'[i] = chain[i] /\ chain[i] \in Links
  BY <1>1, <1>2
<1>4. \A i \in 1 .. Len(chain) : chain[i].by \in Requests /\ chain[i].by # r
  BY <1>3 DEF ChainOwned, Links
<1>5. \A i \in 1 .. Len(chain') :
        i \in 1 .. Len(chain) \/ i = Len(chain) + 1
  BY <1>3
<1>6. \A i \in 1 .. Len(chain') : req'[chain'[i].by].at = "store"
  BY <1>1, <1>3, <1>4, <1>5 DEF ChainOwned, Leaves
<1>7. ASSUME NEW i \in 1 .. Len(chain'), NEW j \in 1 .. Len(chain'),
             chain'[i].by = chain'[j].by
      PROVE  i = j
  BY <1>1, <1>3, <1>4, <1>5, <1>7 DEF ChainOwned
<1> QED
  BY <1>6, <1>7 DEF ChainOwned

LEMMA OwnedByOneLess ==
  ASSUME ChainOwned, StoreTypes, chain # <<>>, Leaves(Head(chain).by), chain' = Tail(chain)
  PROVE  ChainOwned'
<1>1. chain \in Seq(Links) /\ Len(chain) \in Nat /\ Len(chain) > 0 /\ Head(chain) = chain[1]
  BY DEF StoreTypes
<1>2. /\ Len(chain') = Len(chain) - 1
      /\ \A i \in 1 .. Len(chain') : chain'[i] = chain[i + 1] /\ i + 1 \in 1 .. Len(chain)
                                                         /\ i + 1 # 1
  BY <1>1
<1>0. \A i \in 1 .. Len(chain) : chain[i].by \in Requests
  <2>1. \A i \in 1 .. Len(chain) : chain[i] \in Links
    BY <1>1
  <2> QED
    BY <2>1 DEF Links
<1>3. ASSUME NEW i \in 1 .. Len(chain')
      PROVE  chain'[i].by \in Requests /\ chain'[i].by # Head(chain).by
  <2>1. i + 1 \in 1 .. Len(chain) /\ i + 1 # 1 /\ chain'[i] = chain[i + 1] /\ 1 \in 1 .. Len(chain)
    BY <1>1, <1>2
  <2> QED
    BY <2>1, <1>0, <1>1 DEF ChainOwned
<1>4. \A i \in 1 .. Len(chain') : req'[chain'[i].by].at = "store"
  BY <1>2, <1>3 DEF ChainOwned, Leaves
<1>5. ASSUME NEW i \in 1 .. Len(chain'), NEW j \in 1 .. Len(chain'),
             chain'[i].by = chain'[j].by
      PROVE  i = j
  <2>1. i + 1 = j + 1
    BY <1>2, <1>5 DEF ChainOwned
  <2> QED
    BY <2>1, <1>1, <1>2
<1> QED
  BY <1>4, <1>5 DEF ChainOwned

\* The change in front stays in front when another is added.
LEMMA SubmitStore ==
  ASSUME StoreTypes, DraftCurrent, NEW r \in Requests, NEW c \in Changes, NEW d \in BOOLEAN,
         Submit(r, c, d)
  PROVE  StoreTypes' /\ DraftCurrent'
<1> DEFINE link == [by |-> r, change |-> c, deletes |-> d]
<1>1. link \in Links /\ chain \in Seq(Links)
  BY DEF Links, StoreTypes
<1>2. /\ chain' = Append(chain, link)
      /\ file' = file /\ phase' = phase /\ draft' = draft /\ faults' = faults
  BY DEF Submit
<1> HIDE DEF link
<1>3. chain' \in Seq(Links) /\ chain' # <<>> /\ (chain # <<>> => Head(chain') = Head(chain))
  BY <1>1, <1>2
<1> QED
  BY <1>2, <1>3 DEF StoreTypes, DraftCurrent

\* Nothing is saved and nothing loaded.
LEMMA FreshSame ==
  ASSUME SavesFresh, NEW r \in Requests, Leaves(r), req'[r].at # "loaded",
         UNCHANGED <<files, restart>>
  PROVE  SavesFresh'
BY DEF SavesFresh, Leaves, Do, files

(***************************************************************************)
(* The invariant, action by action.                                        *)
(***************************************************************************)
LEMMA Starts == Init => IInv
<1> SUFFICES ASSUME Init
             PROVE  IInv
  OBVIOUS
<1>1. Empty \in Contents
  BY DEF Empty, Contents
<1>2. StoreTypes /\ DraftCurrent
  BY <1>1 DEF Init, StoreInit, StoreTypes, DraftCurrent
<1>3. [p \in Paths |-> NoValue] \in OpenClaw
  BY DEF OpenClaw
<1>4. \A r \in Requests : req[r] = Idle /\ req[r].at = "idle"
  BY IdleType DEF Init
<1>5. SyncTypes
  BY <1>3, <1>4, IdleType DEF Init, SyncTypes
<1>6. ChainOwned
  BY DEF Init, StoreInit, ChainOwned
<1>7. SavesFresh
  BY <1>4 DEF Init, SavesFresh, Same
<1> QED
  BY <1>2, <1>5, <1>6, <1>7 DEF IInv

LEMMA StoreSame ==
  ASSUME StoreTypes, DraftCurrent, UNCHANGED storeVars
  PROVE  StoreTypes' /\ DraftCurrent' /\ chain' = chain
BY DEF StoreTypes, DraftCurrent, storeVars

\* One request changes, and nothing it holds is to be saved.
LEMMA QuietStep ==
  ASSUME IInv, NEW r \in Requests, req[r].at # "store", Leaves(r), req'[r].at # "loaded",
         UNCHANGED <<storeVars, files, restart>>
  PROVE  IInv'
<1>1. StoreTypes /\ SyncTypes /\ ChainOwned /\ DraftCurrent /\ SavesFresh
  BY DEF IInv
<1>2. StoreTypes' /\ DraftCurrent' /\ chain' = chain
  BY <1>1, StoreSame
<1>3. SyncTypes'
  BY <1>1, LeavesTypes DEF SyncTypes, files
<1>4. ChainOwned'
  BY <1>1, <1>2, OwnedBySame
<1>5. SavesFresh'
  BY <1>1, FreshSame
<1> QED
  BY <1>2, <1>3, <1>4, <1>5 DEF IInv

\* One request puts a change at the end of the chain and waits for it.
LEMMA QueuedStep ==
  ASSUME IInv, NEW r \in Requests, req[r].at \notin {"idle", "store"},
         NEW c \in Changes, NEW d \in BOOLEAN,
         Submit(r, c, d), Awaits(r), UNCHANGED <<files, restart>>
  PROVE  IInv'
<1>1. StoreTypes /\ SyncTypes /\ ChainOwned /\ DraftCurrent /\ SavesFresh
  BY DEF IInv
<1>2. Leaves(r) /\ req'[r].at = "store"
  BY <1>1, AwaitsLeaves
<1>3. StoreTypes' /\ DraftCurrent'
  BY <1>1, SubmitStore
<1>4. SyncTypes'
  BY <1>1, <1>2, LeavesTypes DEF SyncTypes, files
<1>5. ChainOwned'
  BY <1>1, <1>2, OwnedByOneMore
<1>6. SavesFresh'
  BY <1>1, <1>2, FreshSame
<1> QED
  BY <1>3, <1>4, <1>5, <1>6 DEF IInv

LEMMA AtBusy ==
  ASSUME NEW r \in Requests, NEW at \in {"run", "read", "loaded", "store"}, NEW do, At(r, at, do)
  PROVE  req[r].at = at /\ req[r].at # "idle" /\ Do(r) = do
BY DEF At

LEMMA SendKeeps ==
  ASSUME IInv, NEW r \in Requests, NEW kind \in Kinds, NEW b \in Bodies,
         Send(r, kind, b[1], b[2])
  PROVE  IInv'
<1> DEFINE t == Task(Program(kind, b[1], b[2]), "run", NothingStaged, NothingStaged)
<1>1. t \in Tasks /\ t.at = "run" /\ t.todo # <<>>
  BY ProgramType, NothingType DEF Task, Tasks
<1>2. req' = [req EXCEPT ![r] = t] /\ req[r] = Idle
  BY DEF Send
<1>3. req[r].at # "store"
  BY <1>2, IdleType
<1> HIDE DEF t
<1>4. Leaves(r) /\ req'[r] = t
  BY <1>1, <1>2, BecomesLeaves DEF IInv
<1>5. UNCHANGED <<storeVars, files, restart>>
  BY DEF Send
<1> QED
  BY <1>1, <1>3, <1>4, <1>5, QuietStep

LEMMA StartChangeKeeps ==
  ASSUME IInv, NEW r \in Requests, StartChange(r)
  PROVE  IInv'
<1>1. req[r].at = "run" /\ req[r].at \notin {"idle", "store"} /\ (Do(r) = "delete") \in BOOLEAN
  BY DEF StartChange, At
<1>2. Head(req[r].todo).change \in Changes
  BY <1>1, BusyType DEF IInv
<1>3. /\ Submit(r, Head(req[r].todo).change, Do(r) = "delete")
      /\ Awaits(r) /\ UNCHANGED <<files, restart>>
  BY DEF StartChange
<1> QED
  BY <1>1, <1>2, <1>3, QueuedStep

LEMMA StageReadKeeps ==
  ASSUME IInv, NEW r \in Requests, StageRead(r)
  PROVE  IInv'
<1> DEFINE t == [req[r] EXCEPT !.at = "read", !.seen = StagedIn(Read(file))]
<1>1. req[r].at = "run" /\ SyncTypes /\ StoreTypes
  BY DEF StageRead, At, IInv
<1>2. StagedIn(Read(file)) \in OpenClaw
  BY <1>1, ReadType, StagedType DEF StoreTypes
<1>3. t \in Tasks /\ t.todo # <<>> /\ t.at = "read"
  BY <1>1, <1>2, BusyType DEF Tasks
<1>4. req' = [req EXCEPT ![r] = t] /\ UNCHANGED <<storeVars, files, restart>>
  BY DEF StageRead
<1> HIDE DEF t
<1>5. Leaves(r) /\ req'[r] = t
  BY <1>1, <1>3, <1>4, BecomesLeaves
<1> QED
  BY <1>1, <1>3, <1>4, <1>5, QuietStep

LEMMA StageWriteKeeps ==
  ASSUME IInv, NEW r \in Requests, StageWrite(r)
  PROVE  IInv'
<1> DEFINE new == Head(req[r].todo).change
           c == [p \in Paths |-> IF p \in DOMAIN new THEN new[p] ELSE req[r].seen[p]]
<1>1. req[r].at = "read" /\ SyncTypes
  BY DEF StageWrite, At, IInv
<1>2. new \in Changes /\ req[r].seen \in OpenClaw
  BY <1>1, BusyType DEF Tasks
<1>3. c \in Changes
  <2>1. PICK D \in SUBSET Keys : new \in [D -> Held0]
    BY <1>2 DEF Changes
  <2>2. c \in [Paths -> Held0] /\ Paths \in SUBSET Keys
    BY <1>2, <2>1, PathsAreKeys DEF OpenClaw, Held0
  <2> QED
    BY <2>2 DEF Changes
<1>4. Submit(r, c, FALSE) /\ Awaits(r) /\ UNCHANGED <<files, restart>>
  BY DEF StageWrite
<1> HIDE DEF c
<1> QED
  BY <1>1, <1>3, <1>4, QueuedStep

LEMMA FlushReadKeeps ==
  ASSUME IInv, NEW r \in Requests, FlushRead(r)
  PROVE  IInv'
<1> DEFINE seen == StagedIn(Read(file))
           t == [req[r] EXCEPT !.at = "read", !.seen = seen]
<1>1. req[r].at = "run" /\ SyncTypes /\ StoreTypes
  BY DEF FlushRead, At, IInv
<1>2. seen \in OpenClaw
  BY <1>1, ReadType, StagedType DEF StoreTypes
<1>3. t \in Tasks /\ t.todo # <<>> /\ t.at = "read"
  BY <1>1, <1>2, BusyType DEF Tasks
<1>4. /\ StepDone(r) \/ req' = [req EXCEPT ![r] = t]
      /\ UNCHANGED <<storeVars, files, restart>>
  BY DEF FlushRead
<1> HIDE DEF t
<1>5. Leaves(r) /\ req'[r].at # "loaded"
  <2>1. CASE StepDone(r)
    BY <1>1, <2>1, StepDoneLeaves
  <2>2. CASE req' = [req EXCEPT ![r] = t]
    BY <1>1, <1>3, <2>2, BecomesLeaves
  <2> QED
    BY <1>4, <2>1, <2>2
<1> QED
  BY <1>1, <1>4, <1>5, QuietStep

LEMMA AnswerKeeps ==
  ASSUME IInv, NEW r \in Requests, Answer(r)
  PROVE  IInv'
<1>1. req[r].at = "run" /\ SyncTypes /\ StepDone(r) /\ UNCHANGED <<storeVars, files, restart>>
  BY DEF Answer, At, IInv
<1>2. Leaves(r) /\ req'[r].at # "loaded"
  BY <1>1, StepDoneLeaves
<1> QED
  BY <1>1, <1>2, QuietStep

LEMMA SaveFailsKeeps ==
  ASSUME IInv, NEW r \in Requests, SaveFails(r)
  PROVE  IInv'
<1>1. /\ req[r].at = "loaded" /\ SyncTypes
      /\ req' = [req EXCEPT ![r] = Idle] \/ StepDone(r)
      /\ UNCHANGED <<storeVars, files, restart>>
  BY DEF SaveFails, At, IInv
<1>2. Leaves(r) /\ req'[r].at # "loaded"
  BY <1>1, IdleLeaves, StepDoneLeaves
<1> QED
  BY <1>1, <1>2, QuietStep

\* One request has loaded openclaw.json and is going to save it.
LEMMA LoadedStep ==
  ASSUME IInv, NEW r \in Requests, req[r].at # "store", Leaves(r),
         UNCHANGED <<storeVars, files, restart>>,
         NEW f \in Loads,
         \A p \in MustRestart :
           \/ req'[r].next[p] = f[p]
           \/ Head(req'[r].todo).do = "flush" /\ req'[r].seen[p] # NoValue
  PROVE  IInv'
<1>1. StoreTypes /\ SyncTypes /\ ChainOwned /\ DraftCurrent /\ SavesFresh
  BY DEF IInv
<1>2. StoreTypes' /\ DraftCurrent' /\ chain' = chain
  BY <1>1, StoreSame
<1>3. SyncTypes'
  BY <1>1, LeavesTypes DEF SyncTypes, files
<1>4. ChainOwned'
  BY <1>1, <1>2, OwnedBySame
<1>5. SavesFresh'
  <2> SUFFICES ASSUME ~restart, NEW p \in MustRestart \ raw
               PROVE  /\ Same(p, captured[p], oc[p]) /\ Same(p, captured[p], snap[p])
                      /\ \A q \in Requests :
                           req'[q].at = "loaded" =>
                             \/ Same(p, captured[p], req'[q].next[p])
                             \/ Head(req'[q].todo).do = "flush" /\ req'[q].seen[p] # NoValue
    BY DEF SavesFresh, Do, files
  <2>1. /\ Same(p, captured[p], oc[p]) /\ Same(p, captured[p], snap[p])
        /\ Same(p, captured[p], f[p])
    BY <1>1 DEF SavesFresh, Loads
  <2>2. ASSUME NEW q \in Requests, q # r, req'[q].at = "loaded"
        PROVE  \/ Same(p, captured[p], req'[q].next[p])
               \/ Head(req'[q].todo).do = "flush" /\ req'[q].seen[p] # NoValue
    <3>1. req'[q] = req[q]
      BY <2>2 DEF Leaves
    <3> QED
      BY <1>1, <2>2, <3>1 DEF SavesFresh, Do
  <2>3. \/ Same(p, captured[p], req'[r].next[p])
        \/ Head(req'[r].todo).do = "flush" /\ req'[r].seen[p] # NoValue
    BY <2>1
  <2> QED
    BY <2>1, <2>2, <2>3
<1> QED
  BY <1>2, <1>3, <1>4, <1>5 DEF IInv

LEMMA FlushLoadKeeps ==
  ASSUME IInv, NEW r \in Requests, FlushLoad(r)
  PROVE  IInv'
<1>0. PICK f \in Loads :
        \/ Submit(r, NothingStaged, FALSE) /\ Awaits(r)
        \/ /\ req' = [req EXCEPT ![r] =
                         [@ EXCEPT !.at = "loaded",
                           !.next = [p \in Paths |-> IF p \in Changed(req[r].seen, f)
                                                    THEN req[r].seen[p] ELSE f[p]],
                           !.seen = [p \in Paths |-> IF p \in Changed(req[r].seen, f)
                                                    THEN req[r].seen[p] ELSE NoValue]]]
           /\ UNCHANGED storeVars
  BY DEF FlushLoad
<1> DEFINE seen == req[r].seen
           changed == Changed(seen, f)
           next == [p \in Paths |-> IF p \in changed THEN seen[p] ELSE f[p]]
           left == [p \in Paths |-> IF p \in changed THEN seen[p] ELSE NoValue]
           t == [req[r] EXCEPT !.at = "loaded", !.next = next, !.seen = left]
<1>1. req[r].at = "read" /\ Do(r) = "flush" /\ SyncTypes
  BY DEF FlushLoad, At, IInv
<1>2. CASE Submit(r, NothingStaged, FALSE) /\ Awaits(r)
  <2>1. NothingStaged \in Changes
    BY StagedNothing
  <2>2. UNCHANGED <<files, restart>>
    BY DEF FlushLoad
  <2> QED
    BY <1>1, <1>2, <2>1, <2>2, QueuedStep
<1>3. CASE req' = [req EXCEPT ![r] = t] /\ UNCHANGED storeVars
  <2>1. seen \in OpenClaw /\ f \in OpenClaw
    BY <1>1, BusyType DEF Tasks, SyncTypes, Loads
  <2>2. next \in OpenClaw /\ left \in OpenClaw
    BY <2>1 DEF OpenClaw
  <2>3. /\ t \in Tasks /\ t.todo = req[r].todo /\ t.todo # <<>>
        /\ t.next = next /\ t.seen = left
    <3>1. req[r] \in Tasks /\ req[r].todo # <<>>
      BY <1>1, BusyType
    <3> HIDE DEF next, left, seen
    <3> QED
      BY <3>1, <2>2 DEF Tasks
  <2>4. \A p \in MustRestart : next[p] = f[p] \/ left[p] # NoValue
    BY PathsAreKeys DEF Changed
  <2>5. req' = [req EXCEPT ![r] = t] /\ UNCHANGED <<storeVars, files, restart>>
    BY <1>3 DEF FlushLoad
  <2> HIDE DEF t, next, left
  <2>6. Leaves(r) /\ req'[r] = t
    BY <1>1, <2>3, <2>5, BecomesLeaves
  <2>7. Head(req'[r].todo).do = "flush"
    BY <1>1, <2>3, <2>6 DEF Do
  <2>8. /\ req[r].at # "store"
        /\ \A p \in MustRestart :
             \/ req'[r].next[p] = f[p]
             \/ Head(req'[r].todo).do = "flush" /\ req'[r].seen[p] # NoValue
    BY <1>1, <2>3, <2>4, <2>6, <2>7
  <2> QED
    BY <2>5, <2>6, <2>8, LoadedStep
<1> QED
  BY <1>0, <1>2, <1>3

LEMMA StripLoadKeeps ==
  ASSUME IInv, NEW r \in Requests, StripLoad(r)
  PROVE  IInv'
<1>0. PICK f \in Loads :
        \/ StepDone(r)
        \/ req' = [req EXCEPT ![r] = [@ EXCEPT !.at = "loaded",
                                              !.next = [f EXCEPT !["router"] = NoValue]]]
  BY DEF StripLoad
<1> DEFINE next == [f EXCEPT !["router"] = NoValue]
           t == [req[r] EXCEPT !.at = "loaded", !.next = next]
<1>1. /\ req[r].at = "run" /\ SyncTypes /\ f \in OpenClaw
      /\ UNCHANGED <<storeVars, files, restart>>
  BY DEF StripLoad, At, IInv, SyncTypes, Loads
<1>2. CASE StepDone(r)
  <2>1. Leaves(r) /\ req'[r].at # "loaded"
    BY <1>1, <1>2, StepDoneLeaves
  <2> QED
    BY <1>1, <2>1, QuietStep
<1>3. CASE req' = [req EXCEPT ![r] = t]
  <2>1. next \in OpenClaw /\ \A p \in MustRestart : next[p] = f[p]
    BY <1>1 DEF OpenClaw, MustRestart, Paths
  <2>2. t \in Tasks /\ t.todo # <<>> /\ t.next = next
    <3>1. req[r] \in Tasks /\ req[r].todo # <<>>
      BY <1>1, BusyType
    <3> HIDE DEF next
    <3> QED
      BY <3>1, <2>1 DEF Tasks
  <2> HIDE DEF t, next
  <2>3. Leaves(r) /\ req'[r] = t
    BY <1>1, <1>3, <2>2, BecomesLeaves
  <2>4. req[r].at # "store" /\ \A p \in MustRestart : req'[r].next[p] = f[p]
    BY <1>1, <2>1, <2>2, <2>3
  <2> QED
    BY <1>1, <2>3, <2>4, LoadedStep
<1> QED
  BY <1>0, <1>2, <1>3

\* Saving openclaw.json: the invariant knew what it would leave.
LEMMA SavedFresh ==
  ASSUME SavesFresh, NEW r \in Requests, req[r].at = "loaded", Leaves(r), req'[r].at # "loaded",
         oc' = req[r].next, snap' \in {snap, req[r].next}, captured' = captured, raw \subseteq raw',
         ~restart' =>
           ~restart /\ \A p \in MustRestart \ raw' : Do(r) = "flush" => req[r].seen[p] = NoValue
  PROVE  SavesFresh'
<1> SUFFICES ASSUME ~restart', NEW p \in MustRestart \ raw'
             PROVE  /\ Same(p, captured[p], oc'[p]) /\ Same(p, captured[p], snap'[p])
                    /\ \A q \in Requests :
                         req'[q].at = "loaded" =>
                           \/ Same(p, captured[p], req'[q].next[p])
                           \/ Head(req'[q].todo).do = "flush" /\ req'[q].seen[p] # NoValue
  BY DEF SavesFresh, Do
<1>1. Same(p, captured[p], oc'[p]) /\ Same(p, captured[p], snap'[p])
  BY DEF SavesFresh
<1>2. ASSUME NEW q \in Requests, req'[q].at = "loaded"
      PROVE  \/ Same(p, captured[p], req'[q].next[p])
             \/ Head(req'[q].todo).do = "flush" /\ req'[q].seen[p] # NoValue
  <2>1. req'[q] = req[q]
    BY <1>2 DEF Leaves
  <2> QED
    BY <1>2, <2>1 DEF SavesFresh, Do
<1> QED
  BY <1>1, <1>2

LEMMA FlushSaveKeeps ==
  ASSUME IInv, NEW r \in Requests, FlushSave(r)
  PROVE  IInv'
<1>1. /\ StoreTypes /\ SyncTypes /\ ChainOwned /\ DraftCurrent /\ SavesFresh
      /\ req[r].at = "loaded" /\ Do(r) = "flush"
  BY DEF FlushSave, At, IInv
<1>2. /\ oc' = req[r].next /\ snap' = req[r].next /\ captured' = captured /\ raw' = raw
      /\ restart' = (restart \/ \E p \in MustRestart : req[r].seen[p] # NoValue)
      /\ Submit(r, NothingStaged, FALSE) /\ Awaits(r)
  BY DEF FlushSave
<1>3. NothingStaged \in Changes
  BY StagedNothing
<1>4. Leaves(r) /\ req'[r].at = "store"
  BY <1>1, <1>2, AwaitsLeaves
<1>5. StoreTypes' /\ DraftCurrent'
  BY <1>1, <1>2, <1>3, SubmitStore
<1>6. /\ oc' \in OpenClaw /\ snap' \in OpenClaw /\ captured' \in OpenClaw
      /\ raw' \subseteq MustRestart /\ restart' \in BOOLEAN
  BY <1>1, <1>2, BusyType DEF Tasks, SyncTypes
<1>7. SyncTypes'
  BY <1>1, <1>4, <1>6, LeavesTypes
<1>8. ChainOwned'
  BY <1>1, <1>2, <1>3, <1>4, OwnedByOneMore
<1>9. SavesFresh'
  BY <1>1, <1>2, <1>4, <1>6, SavedFresh
<1> QED
  BY <1>5, <1>7, <1>8, <1>9 DEF IInv

LEMMA StripSaveKeeps ==
  ASSUME IInv, NEW r \in Requests, StripSave(r)
  PROVE  IInv'
<1>1. /\ StoreTypes /\ SyncTypes /\ ChainOwned /\ DraftCurrent /\ SavesFresh
      /\ req[r].at = "loaded" /\ Do(r) = "strip"
  BY DEF StripSave, At, IInv
<1>2. /\ oc' = req[r].next /\ snap' = req[r].next /\ captured' = captured /\ raw' = raw
      /\ restart' = restart
      /\ StepDone(r) /\ UNCHANGED storeVars
  BY DEF StripSave
<1>3. Leaves(r) /\ req'[r].at # "loaded"
  BY <1>1, <1>2, StepDoneLeaves
<1>4. StoreTypes' /\ DraftCurrent' /\ chain' = chain
  BY <1>1, <1>2, StoreSame
<1>5. /\ oc' \in OpenClaw /\ snap' \in OpenClaw /\ captured' \in OpenClaw
      /\ raw' \subseteq MustRestart /\ restart' \in BOOLEAN
  BY <1>1, <1>2, BusyType DEF Tasks, SyncTypes
<1>6. SyncTypes'
  BY <1>1, <1>3, <1>5, LeavesTypes
<1>7. ChainOwned'
  BY <1>1, <1>3, <1>4, OwnedBySame
<1>8. SavesFresh'
  BY <1>1, <1>2, <1>3, <1>5, SavedFresh
<1> QED
  BY <1>4, <1>6, <1>7, <1>8 DEF IInv

LEMMA SaveRawKeeps ==
  ASSUME IInv, NEW r \in Requests, SaveRaw(r)
  PROVE  IInv'
<1>1. /\ StoreTypes /\ SyncTypes /\ ChainOwned /\ DraftCurrent /\ SavesFresh
      /\ req[r].at = "loaded"
  BY DEF SaveRaw, At, IInv
<1>2. /\ oc' = req[r].next /\ snap' = snap /\ captured' = captured /\ restart' = restart
      /\ raw' = raw \cup {p \in MustRestart : req[r].seen[p] # NoValue}
  BY DEF SaveRaw
<1>3. /\ oc' \in OpenClaw /\ snap' \in OpenClaw /\ captured' \in OpenClaw
      /\ raw' \subseteq MustRestart /\ restart' \in BOOLEAN
  BY <1>1, <1>2, BusyType DEF Tasks, SyncTypes
<1>4. CASE Submit(r, NothingStaged, FALSE) /\ Awaits(r)
  <2>1. NothingStaged \in Changes
    BY StagedNothing
  <2>2. Leaves(r) /\ req'[r].at = "store"
    BY <1>1, <1>4, AwaitsLeaves
  <2>3. StoreTypes' /\ DraftCurrent'
    BY <1>1, <1>4, <2>1, SubmitStore
  <2>4. SyncTypes'
    BY <1>1, <1>3, <2>2, LeavesTypes
  <2>5. ChainOwned'
    BY <1>1, <1>4, <2>1, <2>2, OwnedByOneMore
  <2>6. SavesFresh'
    BY <1>1, <1>2, <2>2, SavedFresh
  <2> QED
    BY <2>3, <2>4, <2>5, <2>6 DEF IInv
<1>5. CASE StepDone(r) /\ UNCHANGED storeVars
  <2>1. Leaves(r) /\ req'[r].at # "loaded"
    BY <1>1, <1>5, StepDoneLeaves
  <2>2. StoreTypes' /\ DraftCurrent' /\ chain' = chain
    BY <1>1, <1>5, StoreSame
  <2>3. SyncTypes'
    BY <1>1, <1>3, <2>1, LeavesTypes
  <2>4. ChainOwned'
    BY <1>1, <2>1, <2>2, OwnedBySame
  <2>5. SavesFresh'
    BY <1>1, <1>2, <2>1, SavedFresh
  <2> QED
    BY <2>2, <2>3, <2>4, <2>5 DEF IInv
<1> QED
  BY <1>4, <1>5 DEF SaveRaw

\* The change in front leaves the chain, its request goes on or is over.
LEMMA FrontLeaves ==
  ASSUME IInv, chain # <<>>, chain' = Tail(chain), phase' = "idle", draft' = Empty,
         file' \in Contents \cup {Torn}, faults' \in Nat,
         Leaves(Head(chain).by), req'[Head(chain).by].at # "loaded",
         UNCHANGED <<files, restart>>
  PROVE  IInv'
<1>1. StoreTypes /\ SyncTypes /\ ChainOwned /\ DraftCurrent /\ SavesFresh
  BY DEF IInv
<1>2. chain \in Seq(Links)
  BY <1>1 DEF StoreTypes
<1>3. Head(chain) \in Links /\ Tail(chain) \in Seq(Links)
  BY <1>2, HeadType, Zenon
<1>4. Head(chain).by \in Requests
  BY <1>3 DEF Links
<1>5. Empty \in Contents
  BY DEF Empty, Contents
<1>6. StoreTypes' /\ DraftCurrent'
  BY <1>3, <1>5 DEF StoreTypes, DraftCurrent
<1>7. SyncTypes'
  BY <1>1, <1>4, LeavesTypes DEF SyncTypes, files
<1>8. ChainOwned'
  BY <1>1, OwnedByOneLess
<1>9. SavesFresh'
  BY <1>1, <1>4, FreshSame
<1> QED
  BY <1>6, <1>7, <1>8, <1>9 DEF IInv

\* The request whose change is in front waits for it.
LEMMA FrontWaits ==
  ASSUME IInv, phase # "idle"
  PROVE  chain # <<>> /\ Head(chain).by \in Requests /\ req[Head(chain).by].at = "store"
<1>1. chain # <<>> /\ chain \in Seq(Links)
  BY DEF IInv, DraftCurrent, StoreTypes
<1>2. Head(chain) \in Links
  BY <1>1, HeadType, Zenon
<1>3. 1 \in 1 .. Len(chain) /\ Head(chain) = chain[1]
  BY <1>1
<1>4. req[chain[1].by].at = "store"
  BY <1>3 DEF IInv, ChainOwned
<1> QED
  BY <1>1, <1>2, <1>3, <1>4 DEF Links

LEMMA ChangeDoneKeeps ==
  ASSUME IInv, ChangeDone
  PROVE  IInv'
<1>1. /\ phase # "idle" /\ chain' = Tail(chain) /\ phase' = "idle" /\ draft' = Empty
      /\ file' \in {file, draft} /\ faults' = faults
  BY DEF ChangeDone, ChainWrite, ChainSkip, LeaveChain
<1>2. /\ chain # <<>> /\ Head(chain).by \in Requests
      /\ req[Head(chain).by].at = "store"
  BY <1>1, FrontWaits
<1>3. StepDone(Head(chain).by) /\ UNCHANGED <<files, restart>>
  BY DEF ChangeDone
<1>4. Leaves(Head(chain).by) /\ req'[Head(chain).by].at # "loaded"
  BY <1>2, <1>3, StepDoneLeaves DEF IInv
<1>5. file' \in Contents \cup {Torn} /\ faults' \in Nat
  BY <1>1 DEF IInv, StoreTypes
<1> QED
  BY <1>1, <1>2, <1>3, <1>4, <1>5, FrontLeaves

LEMMA ChangeFailsKeeps ==
  ASSUME IInv, ChangeFails
  PROVE  IInv'
<1>1. /\ phase # "idle" /\ chain' = Tail(chain) /\ phase' = "idle" /\ draft' = Empty
      /\ file' = file /\ faults' = faults + 1
  BY DEF ChangeFails, ChainFail, LeaveChain
<1>2. chain # <<>> /\ Head(chain).by \in Requests /\ req[Head(chain).by].at = "store"
  BY <1>1, FrontWaits
<1>3. /\ StepDone(Head(chain).by) \/ req' = [req EXCEPT ![Head(chain).by] = Idle]
      /\ UNCHANGED <<files, restart>>
  BY DEF ChangeFails
<1>4. Leaves(Head(chain).by) /\ req'[Head(chain).by].at # "loaded"
  BY <1>2, <1>3, IdleLeaves, StepDoneLeaves DEF IInv
<1>5. file' \in Contents \cup {Torn} /\ faults' \in Nat
  BY <1>1 DEF IInv, StoreTypes
<1> QED
  BY <1>1, <1>2, <1>3, <1>4, <1>5, FrontLeaves

\* The requests and openclaw.json are as they were.
LEMMA RequestsSame ==
  ASSUME IInv, StoreTypes', DraftCurrent', chain' = chain, UNCHANGED syncVars
  PROVE  IInv'
<1>1. SyncTypes' /\ ChainOwned'
  BY DEF IInv, SyncTypes, ChainOwned, syncVars, files
<1>2. SavesFresh'
  BY DEF IInv, SavesFresh, syncVars, files, Do
<1> QED
  BY <1>1, <1>2 DEF IInv

LEMMA ChangeGoesOnKeeps ==
  ASSUME IInv, ChangeGoesOn
  PROVE  IInv'
<1>1. StoreTypes /\ DraftCurrent /\ UNCHANGED syncVars
  BY DEF IInv, ChangeGoesOn
<1>2. CASE ChainRead
  <2>1. chain \in Seq(Links) /\ chain # <<>> /\ file \in Contents \cup {Torn}
    BY <1>1, <1>2 DEF StoreTypes, ChainRead
  <2>2. Head(chain) \in Links
    BY <2>1, HeadType, Zenon
  <2>3. Head(chain).change \in Changes /\ Read(file) \in Contents
    BY <2>1, <2>2, ReadType DEF Links
  <2>4. Applied(Head(chain).change, Read(file)) \in Contents
    BY <2>3, AppliedType
  <2>5. /\ phase' = "read" /\ draft' = Applied(Head(chain).change, Read(file))
        /\ file' = file /\ chain' = chain /\ faults' = faults
    BY <1>2 DEF ChainRead
  <2>6. StoreTypes' /\ DraftCurrent'
    BY <1>1, <2>1, <2>4, <2>5 DEF StoreTypes, DraftCurrent
  <2> QED
    BY <1>1, <2>5, <2>6, RequestsSame
<1>3. CASE ChainOpen
  <2>1. StoreTypes' /\ DraftCurrent' /\ chain' = chain
    BY <1>1, <1>3 DEF ChainOpen, StoreTypes, DraftCurrent
  <2> QED
    BY <1>1, <2>1, RequestsSame
<1> QED
  BY <1>2, <1>3 DEF ChangeGoesOn

LEMMA WatchKeeps ==
  ASSUME IInv, Watch
  PROVE  IInv'
<1>1. UNCHANGED <<file, chain, phase, draft, faults>> /\ UNCHANGED syncVars
  BY DEF Watch, Poll, Notify, writer
<1>2. StoreTypes' /\ DraftCurrent' /\ chain' = chain
  BY <1>1 DEF IInv, StoreTypes, DraftCurrent
<1> QED
  BY <1>1, <1>2, RequestsSame

LEMMA RestartKeeps ==
  ASSUME IInv, Restart
  PROVE  IInv'
<1>1. /\ chain' = <<>> /\ phase' = "idle" /\ draft' = Empty /\ file' = file
      /\ faults' = faults + 1 /\ snap' = oc /\ captured' = oc /\ restart' = FALSE
      /\ oc' = oc /\ raw' = {} /\ req' = [r \in Requests |-> Idle]
  BY DEF Restart, StoreRestart
<1>2. Empty \in Contents
  BY DEF Empty, Contents
<1>3. StoreTypes' /\ DraftCurrent'
  BY <1>1, <1>2 DEF IInv, StoreTypes, DraftCurrent
<1>4. \A r \in Requests : req'[r] = Idle /\ req'[r].at = "idle"
  BY <1>1, IdleType
<1>5. SyncTypes'
  BY <1>1, <1>4, IdleType DEF IInv, SyncTypes
<1>6. ChainOwned'
  BY <1>1 DEF ChainOwned
<1>7. SavesFresh'
  BY <1>1, <1>4 DEF SavesFresh, Same
<1> QED
  BY <1>3, <1>5, <1>6, <1>7 DEF IInv

(***************************************************************************)
(* Whatever the requests, failures and restarts, the chain, the draft and  *)
(* the pending saves stay as IInv says: one step of the theorem per action.*)
(***************************************************************************)
THEOREM Inductive == Spec => []IInv
<1>1. Init => IInv
  BY Starts
<1>2. IInv /\ [Next]_vars => IInv'
  <2> SUFFICES ASSUME IInv, [Next]_vars
               PROVE  IInv'
    OBVIOUS
  <2>1. CASE \E r \in Requests, kind \in Kinds, b \in Bodies : Send(r, kind, b[1], b[2])
    BY <2>1, SendKeeps
  <2>2. ASSUME NEW r \in Requests, Work(r) \/ SaveRaw(r) \/ SaveFails(r)
        PROVE  IInv'
    BY <2>2, StartChangeKeeps, StageReadKeeps, StageWriteKeeps, FlushReadKeeps, FlushLoadKeeps,
       FlushSaveKeeps, StripLoadKeeps, StripSaveKeeps, AnswerKeeps, SaveRawKeeps,
       SaveFailsKeeps DEF Work
  <2>3. CASE ChangeGoesOn \/ ChangeDone \/ ChangeFails \/ Watch \/ Restart
    BY <2>3, ChangeGoesOnKeeps, ChangeDoneKeeps, ChangeFailsKeeps, WatchKeeps, RestartKeeps
  <2>4. CASE UNCHANGED vars
    <3>1. UNCHANGED storeVars /\ UNCHANGED syncVars
      BY <2>4 DEF vars
    <3>2. StoreTypes' /\ DraftCurrent' /\ chain' = chain
      BY <3>1, StoreSame DEF IInv
    <3> QED
      BY <3>1, <3>2, RequestsSame
  <2> QED
    BY <2>1, <2>2, <2>3, <2>4 DEF Next
<1> QED
  BY <1>1, <1>2, PTL DEF Spec

(***************************************************************************)
(* The copy of openclaw.json that the plugins captured at start-up is      *)
(* stale in a restart path only while a restart is on its way, although    *)
(* flushes, strips and whole-file saves overlap and load a snapshot that   *)
(* is behind; or in a path that a save wrote behind the gateway's back.    *)
(***************************************************************************)
THEOREM FreshCorrect == Spec => []CapturedFresh
<1>1. IInv => CapturedFresh
  BY DEF IInv, SavesFresh, CapturedFresh
<1> QED
  BY <1>1, Inductive, PTL

(***************************************************************************)
(* What becomes of one request in a step, and what it may hold when it has *)
(* loaded openclaw.json.                                                   *)
(***************************************************************************)
\* Whatever the step, a request stays, ends, or has a step due or waiting;
\* only the two loads give it something to save.
LEMMA OneRequest ==
  ASSUME IInv, [Next]_vars, NEW q \in Requests
  PROVE  \/ req'[q] = req[q] \/ req'[q] = Idle
         \/ req'[q].at \in {"run", "read", "store"}
         \/ req'[q].at = "loaded" /\ (FlushLoad(q) \/ StripLoad(q))
<1> DEFINE Quiet == \/ req'[q] = req[q] \/ req'[q] = Idle
                    \/ req'[q].at \in {"run", "read", "store"}
<1>0. req \in [Requests -> Tasks]
  BY DEF IInv, SyncTypes
<1>1. ASSUME NEW r \in Requests, StepDone(r)
      PROVE  Quiet
  BY <1>0, <1>1 DEF StepDone, Task
<1>2. ASSUME NEW r \in Requests, Awaits(r)
      PROVE  Quiet
  BY <1>0, <1>2 DEF Awaits, Task
<1>3. CASE \E r \in Requests, kind \in Kinds, b \in Bodies : Send(r, kind, b[1], b[2])
  BY <1>0, <1>3 DEF Send, Task
<1>4. ASSUME NEW r \in Requests, StartChange(r) \/ StageWrite(r) \/ FlushSave(r)
      PROVE  Quiet
  <2>1. Awaits(r)
    BY <1>4 DEF StartChange, StageWrite, FlushSave
  <2> QED
    BY <1>2, <2>1
<1>5. ASSUME NEW r \in Requests, StageRead(r) \/ FlushRead(r)
      PROVE  Quiet
  <2> DEFINE t == [req[r] EXCEPT !.at = "read", !.seen = StagedIn(Read(file))]
  <2>1. CASE StepDone(r)
    BY <1>1, <2>1
  <2>2. CASE req' = [req EXCEPT ![r] = t]
    <3>1. req[r] \in Tasks
      BY <1>0
    <3>2. t.at = "read"
      BY <3>1 DEF Tasks
    <3> HIDE DEF t
    <3> QED
      BY <1>0, <2>2, <3>2
  <2> QED
    BY <1>5, <2>1, <2>2 DEF StageRead, FlushRead
<1>6. ASSUME NEW r \in Requests, FlushLoad(r)
      PROVE  Quiet \/ (req'[q].at = "loaded" /\ FlushLoad(q))
  <2>0. PICK f \in Loads :
          \/ Awaits(r)
          \/ req' = [req EXCEPT ![r] =
                        [@ EXCEPT !.at = "loaded",
                          !.next = [p \in Paths |-> IF p \in Changed(req[r].seen, f)
                                                   THEN req[r].seen[p] ELSE f[p]],
                          !.seen = [p \in Paths |-> IF p \in Changed(req[r].seen, f)
                                                   THEN req[r].seen[p] ELSE NoValue]]]
    BY <1>6 DEF FlushLoad
  <2> DEFINE changed == Changed(req[r].seen, f)
             next == [p \in Paths |-> IF p \in changed THEN req[r].seen[p] ELSE f[p]]
             left == [p \in Paths |-> IF p \in changed THEN req[r].seen[p] ELSE NoValue]
             t == [req[r] EXCEPT !.at = "loaded", !.next = next, !.seen = left]
  <2>1. CASE Awaits(r)
    BY <1>2, <2>1
  <2>2. CASE req' = [req EXCEPT ![r] = t]
    <3>1. req[r] \in Tasks
      BY <1>0
    <3> HIDE DEF next, left
    <3>2. t.at = "loaded"
      BY <3>1 DEF Tasks
    <3> HIDE DEF t
    <3>3. CASE q = r
      BY <1>0, <1>6, <2>2, <3>2, <3>3
    <3>4. CASE q # r
      BY <1>0, <2>2, <3>4
    <3> QED
      BY <3>3, <3>4
  <2> QED
    BY <2>0, <2>1, <2>2
<1>7. ASSUME NEW r \in Requests, StripLoad(r)
      PROVE  Quiet \/ (req'[q].at = "loaded" /\ StripLoad(q))
  <2>0. PICK f \in Loads :
          \/ StepDone(r)
          \/ req' = [req EXCEPT ![r] = [@ EXCEPT !.at = "loaded",
                                                !.next = [f EXCEPT !["router"] = NoValue]]]
    BY <1>7 DEF StripLoad
  <2> DEFINE t == [req[r] EXCEPT !.at = "loaded", !.next = [f EXCEPT !["router"] = NoValue]]
  <2>1. CASE StepDone(r)
    BY <1>1, <2>1
  <2>2. CASE req' = [req EXCEPT ![r] = t]
    <3>1. req[r] \in Tasks
      BY <1>0
    <3>2. t.at = "loaded"
      BY <3>1 DEF Tasks
    <3> HIDE DEF t
    <3>3. CASE q = r
      BY <1>0, <1>7, <2>2, <3>2, <3>3
    <3>4. CASE q # r
      BY <1>0, <2>2, <3>4
    <3> QED
      BY <3>3, <3>4
  <2> QED
    BY <2>0, <2>1, <2>2
<1>8. ASSUME NEW r \in Requests, StripSave(r) \/ Answer(r)
      PROVE  Quiet
  <2>1. StepDone(r)
    BY <1>8 DEF StripSave, Answer
  <2> QED
    BY <1>1, <2>1
<1>9. ASSUME NEW r \in Requests, SaveRaw(r) \/ SaveFails(r)
      PROVE  Quiet
  <2>1. Awaits(r) \/ StepDone(r) \/ req' = [req EXCEPT ![r] = Idle]
    BY <1>9 DEF SaveRaw, SaveFails
  <2> QED
    BY <1>0, <1>1, <1>2, <2>1
<1>a. CASE ChangeGoesOn \/ Watch \/ UNCHANGED vars
  BY <1>a DEF ChangeGoesOn, Watch, vars, syncVars
<1>b. CASE ChangeDone
  <2>1. phase # "idle"
    BY <1>b DEF ChangeDone, ChainWrite, ChainSkip
  <2> QED
    BY <1>1, <1>b, <2>1, FrontWaits DEF ChangeDone
<1>c. CASE ChangeFails
  <2>1. phase # "idle"
    BY <1>c DEF ChangeFails, ChainFail
  <2> QED
    BY <1>0, <1>1, <1>c, <2>1, FrontWaits DEF ChangeFails
<1>d. CASE Restart
  BY <1>d DEF Restart
<1> HIDE DEF Quiet
<1>e. ASSUME NEW r \in Requests, Work(r)
      PROVE  Quiet \/ (req'[q].at = "loaded" /\ (FlushLoad(q) \/ StripLoad(q)))
  BY <1>e, <1>4, <1>5, <1>6, <1>7, <1>8 DEF Work
<1>f. Quiet \/ (req'[q].at = "loaded" /\ (FlushLoad(q) \/ StripLoad(q)))
  <2>1. CASE Next
    <3>1. CASE \E r \in Requests, kind \in Kinds, b \in Bodies : Send(r, kind, b[1], b[2])
      BY <3>1, <1>3 DEF Quiet
    <3>2. CASE ChangeGoesOn \/ ChangeDone \/ ChangeFails \/ Watch \/ Restart
      BY <3>2, <1>a, <1>b, <1>c, <1>d DEF Quiet
    <3>3. CASE \E r \in Requests : Work(r) \/ SaveRaw(r) \/ SaveFails(r)
      BY <3>3, <1>9, <1>e
    <3> QED
      BY <2>1, <3>1, <3>2, <3>3 DEF Next
  <2>2. CASE UNCHANGED vars
    BY <2>2, <1>a DEF Quiet
  <2> QED
    BY <2>1, <2>2
<1> QED
  BY <1>f DEF Quiet

\* Nothing remains of a request that is over.
OverIsIdle == \A r \in Requests : req[r].at = "idle" => req[r] = Idle

\* Until a restart is asked for, what a flush will save in a restart path is
\* news to the plugins, if openclaw.json was not written without the gateway.
SavesNews ==
  ~restart =>
    \A r \in Requests, p \in MustRestart \ raw :
      req[r].at = "loaded" /\ Do(r) = "flush" /\ req[r].seen[p] # NoValue
        => ~ Same(p, captured[p], req[r].next[p])

\* What the watcher has seen and told, and how many requests there were.
WatchTypes ==
  /\ touched \in BOOLEAN /\ due \in BOOLEAN
  /\ live \in [Watched -> Values \cup {NoValue}]
  /\ sent \in 0 .. MaxRequests

LEMMA OverIsIdleKept ==
  ASSUME IInv, OverIsIdle, [Next]_vars
  PROVE  OverIsIdle'
<1> SUFFICES ASSUME NEW q \in Requests, req'[q].at = "idle"
             PROVE  req'[q] = Idle
  BY DEF OverIsIdle
<1> QED
  BY OneRequest DEF OverIsIdle

LEMMA LiveType ==
  ASSUME NEW f \in Contents \cup {Torn}
  PROVE  [k \in Watched |-> Read(f)[k]] \in [Watched -> Values \cup {NoValue}]
<1>1. Read(f) \in Contents /\ Watched \subseteq Keys
  BY ReadType, StoreAssumption
<1> QED
  BY <1>1 DEF Contents

LEMMA WatchTypesKept ==
  ASSUME IInv, WatchTypes, [Next]_vars
  PROVE  WatchTypes'
<1>0. file \in Contents \cup {Torn} /\ MaxRequests \in Nat
  BY SyncAssumption DEF IInv, StoreTypes
<1>1. ASSUME UNCHANGED <<touched, due, live>>
      PROVE  touched' \in BOOLEAN /\ due' \in BOOLEAN /\ live' \in [Watched -> Values \cup {NoValue}]
  BY <1>1 DEF WatchTypes
<1>2. CASE \E r \in Requests, kind \in Kinds, b \in Bodies : Send(r, kind, b[1], b[2])
  BY <1>0, <1>2, <1>1 DEF Send, storeVars, WatchTypes
<1>3. ASSUME NEW r \in Requests, Work(r) \/ SaveRaw(r) \/ SaveFails(r)
      PROVE  WatchTypes'
  <2>1. UNCHANGED <<touched, due, live, sent>>
    <3>1. CASE SaveFails(r) \/ StageRead(r) \/ FlushRead(r) \/ StripLoad(r) \/ StripSave(r)
                 \/ Answer(r)
      BY <3>1 DEF SaveFails, StageRead, FlushRead, StripLoad, StripSave, Answer, storeVars
    <3>2. CASE StartChange(r) \/ StageWrite(r) \/ FlushSave(r)
      BY <3>2 DEF StartChange, StageWrite, FlushSave, Submit, watcher
    <3>4. CASE SaveRaw(r)
      BY <3>4 DEF SaveRaw, Submit, watcher, storeVars
    <3>3. CASE FlushLoad(r)
      BY <3>3 DEF FlushLoad, Submit, watcher, storeVars
    <3> QED
      BY <1>3, <3>1, <3>2, <3>3, <3>4 DEF Work
  <2> QED
    BY <1>1, <2>1 DEF WatchTypes
<1>4. CASE ChangeGoesOn
  BY <1>4 DEF ChangeGoesOn, ChainRead, ChainOpen, watcher, syncVars, WatchTypes
<1>5. CASE ChangeDone \/ ChangeFails
  BY <1>5 DEF ChangeDone, ChangeFails, ChainWrite, ChainSkip, ChainFail, watcher, WatchTypes
<1>6. CASE Watch
  <2>1. live' = live \/ live' = [k \in Watched |-> Read(file)[k]]
    BY <1>6 DEF Watch, Poll, Notify
  <2>2. live' \in [Watched -> Values \cup {NoValue}]
    BY <1>0, <2>1, LiveType DEF WatchTypes
  <2> QED
    BY <1>6, <2>2 DEF Watch, Poll, Notify, syncVars, WatchTypes
<1>7. CASE Restart
  <2>1. live' \in [Watched -> Values \cup {NoValue}]
    BY <1>0, <1>7, LiveType DEF Restart, StoreRestart
  <2> QED
    BY <1>7, <2>1 DEF Restart, StoreRestart, WatchTypes
<1>8. CASE UNCHANGED vars
  BY <1>8 DEF vars, storeVars, syncVars, WatchTypes
<1> QED
  BY <1>2, <1>3, <1>4, <1>5, <1>6, <1>7, <1>8 DEF Next

\* SEMANTIC_EQUAL is an equivalence.
LEMMA SameTwice ==
  ASSUME NEW p, NEW a, NEW b, NEW c, Same(p, a, b)
  PROVE  Same(p, b, a) /\ (Same(p, a, c) <=> Same(p, b, c))
BY DEF Same

\* Only a flush asks for a restart, and only a restart changes what the
\* plugins have captured and forgets what was written without the gateway.
LEMMA WhoRestarts ==
  ASSUME IInv, [Next]_vars
  PROVE  \/ UNCHANGED <<captured, restart>> /\ raw \subseteq raw'
         \/ Restart
         \/ \E r \in Requests : FlushSave(r) /\ UNCHANGED <<captured, raw>>
<1>1. ASSUME NEW r \in Requests, Work(r) \/ SaveRaw(r) \/ SaveFails(r), ~ FlushSave(r)
      PROVE  UNCHANGED <<captured, restart>> /\ raw \subseteq raw'
  BY <1>1 DEF Work, StartChange, StageRead, StageWrite, FlushRead, FlushLoad, StripLoad,
     StripSave, Answer, SaveRaw, SaveFails, files
<1>2. ASSUME NEW r \in Requests, FlushSave(r)
      PROVE  UNCHANGED <<captured, raw>>
  BY <1>2 DEF FlushSave
<1>3. CASE \E r \in Requests, kind \in Kinds, b \in Bodies : Send(r, kind, b[1], b[2])
  BY <1>3 DEF Send, files
<1>4. CASE ChangeGoesOn \/ ChangeDone \/ ChangeFails \/ Watch \/ UNCHANGED vars
  BY <1>4 DEF ChangeGoesOn, ChangeDone, ChangeFails, Watch, files, syncVars, vars
<1> QED
  BY <1>1, <1>2, <1>3, <1>4 DEF Next

LEMMA SavesNewsKept ==
  ASSUME IInv, SavesNews, [Next]_vars
  PROVE  SavesNews'
<1> SUFFICES ASSUME ~restart', NEW q \in Requests, NEW p \in MustRestart \ raw',
                    req'[q].at = "loaded", Head(req'[q].todo).do = "flush", req'[q].seen[p] # NoValue
             PROVE  ~ Same(p, captured'[p], req'[q].next[p])
  BY DEF SavesNews, Do
<1>0. req \in [Requests -> Tasks] /\ p \in Paths
  BY PathsAreKeys DEF IInv, SyncTypes
<1>1. ~ Restart
  <2> SUFFICES ASSUME Restart PROVE FALSE
    OBVIOUS
  <2>1. req'[q] = Idle
    BY DEF Restart
  <2> QED
    BY <2>1, IdleType
<1>2. captured' = captured /\ ~restart /\ p \notin raw
  <2>1. CASE UNCHANGED <<captured, restart>> /\ raw \subseteq raw'
    BY <2>1
  <2>2. ASSUME NEW r \in Requests, FlushSave(r), UNCHANGED <<captured, raw>>
        PROVE  captured' = captured /\ ~restart /\ p \notin raw
    BY <2>2 DEF FlushSave
  <2> QED
    BY <1>1, <2>1, <2>2, WhoRestarts
<1>3. CASE req'[q] = req[q]
  BY <1>2, <1>3 DEF SavesNews, Do
<1>4. CASE FlushLoad(q)
  <2>0. PICK f \in Loads :
          \/ Awaits(q)
          \/ req' = [req EXCEPT ![q] =
                        [@ EXCEPT !.at = "loaded",
                          !.next = [x \in Paths |-> IF x \in Changed(req[q].seen, f)
                                                   THEN req[q].seen[x] ELSE f[x]],
                          !.seen = [x \in Paths |-> IF x \in Changed(req[q].seen, f)
                                                   THEN req[q].seen[x] ELSE NoValue]]]
    BY <1>4 DEF FlushLoad
  <2> DEFINE seen == req[q].seen
             changed == Changed(seen, f)
             next == [x \in Paths |-> IF x \in changed THEN seen[x] ELSE f[x]]
             left == [x \in Paths |-> IF x \in changed THEN seen[x] ELSE NoValue]
             t == [req[q] EXCEPT !.at = "loaded", !.next = next, !.seen = left]
  <2>1. CASE Awaits(q)
    BY <1>0, <2>1 DEF Awaits, Task
  <2>2. CASE req' = [req EXCEPT ![q] = t]
    <3>1. t.next = next /\ t.seen = left
      <4> HIDE DEF next, left
      <4> QED
        BY <1>0 DEF Tasks
    <3>2. req'[q].next = next /\ req'[q].seen = left
      <4> HIDE DEF t, next, left
      <4> QED
        BY <1>0, <2>2, <3>1
    <3>3. p \in changed /\ next[p] = seen[p]
      BY <1>0, <3>2
    <3>4. ~ Same(p, f[p], seen[p])
      BY <3>3 DEF Changed
    <3>5. Same(p, captured[p], f[p])
      BY <1>2 DEF IInv, SavesFresh, Loads
    <3>6. ~ Same(p, captured[p], seen[p])
      BY <3>4, <3>5, SameTwice
    <3> QED
      BY <1>2, <3>2, <3>3, <3>6
  <2> QED
    BY <2>0, <2>1, <2>2
<1>5. CASE StripLoad(q)
  <2>3. PICK f \in Loads :
          \/ StepDone(q)
          \/ req' = [req EXCEPT ![q] = [@ EXCEPT !.at = "loaded",
                                                !.next = [f EXCEPT !["router"] = NoValue]]]
    BY <1>5 DEF StripLoad
  <2> DEFINE t == [req[q] EXCEPT !.at = "loaded", !.next = [f EXCEPT !["router"] = NoValue]]
  <2>0. req[q] \in Tasks /\ Do(q) = "strip"
    BY <1>0, <1>5 DEF StripLoad, At
  <2>1. CASE StepDone(q)
    BY <1>0, <2>1, IdleType DEF StepDone, Task
  <2>2. CASE req' = [req EXCEPT ![q] = t]
    <3>1. t.todo = req[q].todo
      BY <2>0 DEF Tasks
    <3> HIDE DEF t
    <3> QED
      BY <1>0, <2>0, <2>2, <3>1 DEF Do
  <2> QED
    BY <2>1, <2>2, <2>3
<1> QED
  BY <1>3, <1>4, <1>5, OneRequest, IdleType

(***************************************************************************)
(* Types, and restarts only for a change.                                  *)
(***************************************************************************)
JInv == IInv /\ OverIsIdle /\ SavesNews /\ WatchTypes

LEMMA JInvariant == Spec => []JInv
<1>1. Init => JInv
  <2> SUFFICES ASSUME Init
               PROVE  JInv
    OBVIOUS
  <2>1. \A r \in Requests : req[r] = Idle /\ req[r].at = "idle"
    BY IdleType DEF Init
  <2>2. OverIsIdle /\ SavesNews
    BY <2>1 DEF OverIsIdle, SavesNews
  <2>3. file \in Contents /\ live = [k \in Watched |-> file[k]]
    BY DEF Init, StoreInit
  <2>4. live \in [Watched -> Values \cup {NoValue}]
    BY <2>3, StoreAssumption DEF Contents
  <2>5. WatchTypes
    <3>1. touched = FALSE /\ due = FALSE /\ sent = 0 /\ MaxRequests \in Nat
      BY SyncAssumption DEF Init, StoreInit
    <3>2. touched \in BOOLEAN /\ due \in BOOLEAN
      BY <3>1, Zenon
    <3>3. sent \in 0 .. MaxRequests
      BY <3>1
    <3> QED
      BY <2>4, <3>2, <3>3 DEF WatchTypes
  <2> QED
    BY <2>2, <2>5, Starts DEF JInv
<1>2. JInv /\ IInv' /\ [Next]_vars => JInv'
  BY OverIsIdleKept, WatchTypesKept, SavesNewsKept DEF JInv
<1> QED
  BY <1>1, <1>2, Inductive, PTL DEF Spec

LEMMA ChainType ==
  ASSUME StoreTypes
  PROVE  /\ chain \in Seq([by : Requests, change : {chain[i].change : i \in DOMAIN chain},
                           deletes : BOOLEAN])
         /\ \A i \in DOMAIN chain : IsChange(chain[i].change)
<1> DEFINE S == [by : Requests, change : {chain[i].change : i \in DOMAIN chain},
                 deletes : BOOLEAN]
<1>1. chain \in Seq(Links) /\ Len(chain) \in Nat /\ DOMAIN chain = 1 .. Len(chain)
  BY DEF StoreTypes
<1>2. \A i \in DOMAIN chain : chain[i] \in Links
  BY <1>1
<1>3. \A i \in DOMAIN chain : chain[i] \in S
  BY <1>2 DEF Links
<1>4. chain \in Seq(S)
  <2> HIDE DEF S
  <2>1. chain \in [1 .. Len(chain) -> S]
    BY <1>1, <1>3
  <2> QED
    BY <1>1, <2>1
<1>5. \A i \in DOMAIN chain : IsChange(chain[i].change)
  BY <1>2, ChangeIs DEF Links
<1> QED
  BY <1>4, <1>5

(***************************************************************************)
(* Types: the store's files, chain and copies, openclaw.json, and requests *)
(* that have something to do for as long as they last.                     *)
(***************************************************************************)
THEOREM TypeCorrect == Spec => []TypeOK
<1>1. JInv => TypeOK
  <2> SUFFICES ASSUME JInv
               PROVE  TypeOK
    OBVIOUS
  <2>1. StoreTypeOK
    BY ChainType DEF JInv, IInv, StoreTypes, WatchTypes, StoreTypeOK
  <2>2. ASSUME NEW r \in Requests, req[r] # Idle
        PROVE  /\ req[r].todo # <<>> /\ req[r].at \in {"run", "read", "loaded", "store"}
               /\ req[r].seen \in OpenClaw /\ req[r].next \in OpenClaw
    <3>1. req[r] \in Tasks /\ req[r].at # "idle"
      BY <2>2 DEF JInv, IInv, SyncTypes, OverIsIdle
    <3> QED
      BY <3>1 DEF Tasks, JInv, IInv, SyncTypes
  <2> QED
    BY <2>1, <2>2 DEF TypeOK, JInv, IInv, SyncTypes, WatchTypes
<1> QED
  BY <1>1, JInvariant, PTL

(***************************************************************************)
(* The flush asks for a restart only when it changes a restart path of     *)
(* openclaw.json: what it compared with the file, or with a snapshot that  *)
(* is behind, still is a change when it saves, whoever saved in between.   *)
(* Paths that were written behind the gateway's back are exempt: of these  *)
(* the snapshot is behind, so that a second flush finds a change where     *)
(* there is none.                                                          *)
(***************************************************************************)
THEOREM RestartCorrect == Spec => RestartForAChange
<1>1. JInv /\ [Next]_vars =>
        [restart' /\ ~ restart =>
           \E p \in MustRestart : ~ Same(p, oc[p], oc'[p]) \/ p \in raw]_vars
  <2> SUFFICES ASSUME JInv, [Next]_vars, restart', ~restart
               PROVE  \E p \in MustRestart : ~ Same(p, oc[p], oc'[p]) \/ p \in raw
    OBVIOUS
  <2>1. ~ Restart
    BY DEF Restart
  <2>2. PICK r \in Requests : FlushSave(r)
    BY <2>1, WhoRestarts DEF JInv
  <2>3. PICK p \in MustRestart : req[r].seen[p] # NoValue
    BY <2>2 DEF FlushSave
  <2>4. req[r].at = "loaded" /\ Do(r) = "flush" /\ oc' = req[r].next
    BY <2>2 DEF FlushSave, At
  <2>5. CASE p \notin raw
    <3>1. ~ Same(p, captured[p], oc'[p]) /\ Same(p, captured[p], oc[p])
      BY <2>3, <2>4, <2>5 DEF JInv, SavesNews, IInv, SavesFresh
    <3> QED
      BY <3>1, SameTwice
  <2>6. CASE p \in raw
    BY <2>6
  <2> QED
    BY <2>5, <2>6
<1> QED
  BY <1>1, JInvariant, PTL DEF Spec, RestartForAChange

(***************************************************************************)
(* ConfigStore implements AtomicStore: a change counts as applied when its *)
(* write begins, and waits until then.                                     *)
(***************************************************************************)
Asked(s) == [i \in 1 .. Len(s) |-> s[i].change]

Left == IF phase = "open" THEN Tail(chain) ELSE chain

LEMMA WaitingIs == Waiting = Asked(Left)
BY DEF Waiting, Asked, Left

LEMMA AskedType ==
  ASSUME NEW s \in Seq(Links)
  PROVE  Asked(s) \in Seq(Changes) /\ Len(Asked(s)) = Len(s)
<1>1. \A i \in 1 .. Len(s) : s[i] \in Links
  OBVIOUS
<1>2. \A i \in 1 .. Len(s) : s[i].change \in Changes
  BY <1>1 DEF Links
<1>3. Len(s) \in Nat
  OBVIOUS
<1>4. Asked(s) \in [1 .. Len(s) -> Changes]
  BY <1>2 DEF Asked
<1> QED
  BY <1>3, <1>4

LEMMA AskedFront ==
  ASSUME NEW s \in Seq(Links), s # <<>>
  PROVE  /\ Asked(s) # <<>>
         /\ Head(Asked(s)) = Head(s).change
         /\ Asked(Tail(s)) = Tail(Asked(s))
<1>1. Len(s) \in Nat \ {0} /\ Tail(s) \in Seq(Links) /\ Head(s) = s[1]
  OBVIOUS
<1>2. Asked(s) \in Seq(Changes) /\ Len(Asked(s)) = Len(s)
  BY AskedType
<1>3. Asked(s) # <<>> /\ Head(Asked(s)) = Asked(s)[1]
  <2>1. Len(<<>>) = 0
    OBVIOUS
  <2>2. Asked(s) # <<>>
    BY <1>1, <1>2, <2>1
  <2> QED
    BY <1>2, <2>2
<1>4. Asked(s)[1] = s[1].change
  BY <1>1 DEF Asked
<1>5. Asked(Tail(s)) = Tail(Asked(s))
  <2>0. Len(Tail(s)) = Len(s) - 1
    BY <1>1
  <2>1. Asked(Tail(s)) \in Seq(Changes) /\ Len(Asked(Tail(s))) = Len(s) - 1
    BY <1>1, <2>0, AskedType, Zenon
  <2>2. Tail(Asked(s)) \in Seq(Changes) /\ Len(Tail(Asked(s))) = Len(s) - 1
    BY <1>1, <1>2, <1>3
  <2>3. ASSUME NEW i \in 1 .. (Len(s) - 1)
        PROVE  Asked(Tail(s))[i] = Tail(Asked(s))[i]
    <3>1. Tail(s)[i] = s[i + 1] /\ Len(Tail(s)) = Len(s) - 1 /\ i + 1 \in 1 .. Len(s)
      BY <1>1
    <3>2. Asked(Tail(s))[i] = s[i + 1].change
      BY <3>1 DEF Asked
    <3>3. Tail(Asked(s))[i] = Asked(s)[i + 1]
      BY <1>1, <1>2, <1>3
    <3>4. Asked(s)[i + 1] = s[i + 1].change
      BY <3>1 DEF Asked
    <3> QED
      BY <3>2, <3>3, <3>4
  <2> HIDE DEF Asked
  <2> QED
    BY <2>1, <2>2, <2>3
<1> QED
  BY <1>1, <1>3, <1>4, <1>5

LEMMA AskedMore ==
  ASSUME NEW s \in Seq(Links), NEW l \in Links
  PROVE  Asked(Append(s, l)) = Append(Asked(s), l.change)
<1>1. Append(s, l) \in Seq(Links) /\ Len(Append(s, l)) = Len(s) + 1 /\ Len(s) \in Nat
  OBVIOUS
<1>2. Asked(s) \in Seq(Changes) /\ Len(Asked(s)) = Len(s) /\ l.change \in Changes
  BY AskedType DEF Links
<1>3. Asked(Append(s, l)) \in Seq(Changes) /\ Len(Asked(Append(s, l))) = Len(s) + 1
  BY <1>1, AskedType
<1>4. ASSUME NEW i \in 1 .. (Len(s) + 1)
      PROVE  Asked(Append(s, l))[i] = Append(Asked(s), l.change)[i]
  <2>1. Asked(Append(s, l))[i] = Append(s, l)[i].change
    BY <1>1 DEF Asked
  <2>2. CASE i \in 1 .. Len(s)
    <3>1. Append(s, l)[i] = s[i] /\ Asked(s)[i] = s[i].change
      BY <2>2 DEF Asked
    <3>2. Append(Asked(s), l.change)[i] = Asked(s)[i]
      BY <1>2, <2>2
    <3> QED
      BY <2>1, <3>1, <3>2
  <2>3. CASE i = Len(s) + 1
    <3>1. Append(s, l)[i] = l
      BY <2>3
    <3>2. Append(Asked(s), l.change)[i] = l.change
      BY <1>2, <2>3
    <3> QED
      BY <2>1, <3>1, <3>2
  <2>4. i \in 1 .. Len(s) \/ i = Len(s) + 1
    BY <1>1
  <2> QED
    BY <2>2, <2>3, <2>4
<1>5. Append(Asked(s), l.change) \in Seq(Changes) /\ Len(Append(Asked(s), l.change)) = Len(s) + 1
  BY <1>2
<1> HIDE DEF Asked
<1> QED
  BY <1>1, <1>3, <1>4, <1>5

LEMMA LeftType ==
  ASSUME IInv
  PROVE  Left \in Seq(Links) /\ Waiting \in Seq(Changes) /\ Held \in Contents
<1>1. StoreTypes /\ DraftCurrent
  BY DEF IInv
<1>2. Left \in Seq(Links)
  <2>1. chain \in Seq(Links) /\ (phase = "open" => chain # <<>>)
    BY <1>1 DEF StoreTypes, DraftCurrent
  <2>2. phase = "open" => Tail(chain) \in Seq(Links)
    BY <2>1, HeadType, Zenon
  <2> QED
    BY <2>1, <2>2 DEF Left
<1>3. Held \in Contents
  BY <1>1, ReadType DEF Held, StoreTypes
<1> QED
  BY <1>2, <1>3, AskedType, WaitingIs

\* A change is asked for.
LEMMA SubmitAsks ==
  ASSUME IInv, NEW r \in Requests, NEW c \in Changes, NEW d \in BOOLEAN, Submit(r, c, d)
  PROVE  Abstract!Ask
<1> DEFINE link == [by |-> r, change |-> c, deletes |-> d]
<1>1. link \in Links /\ link.change = c
  BY DEF Links
<1>2. /\ chain' = Append(chain, link)
      /\ file' = file /\ phase' = phase /\ draft' = draft /\ faults' = faults
  BY DEF Submit
<1> HIDE DEF link
<1>3. chain \in Seq(Links) /\ (phase = "open" => chain # <<>>)
  BY DEF IInv, StoreTypes, DraftCurrent
<1>4. Left' = Append(Left, link)
  BY <1>1, <1>2, <1>3 DEF Left
<1>5. Waiting' = Append(Waiting, c)
  <2>1. Waiting' = Asked(Left')
    BY DEF Waiting, Asked, Left
  <2> QED
    BY <1>1, <1>4, <2>1, LeftType, AskedMore, WaitingIs
<1>6. Held' = Held
  BY <1>2 DEF Held
<1>7. Waiting' # <<>> /\ Waiting'[Len(Waiting')] = c
  BY <1>5, LeftType
<1>8. Abstract!IsChange(c)
  BY ChangeIs DEF IsChange, Abstract!IsChange
<1> QED
  BY <1>2, <1>5, <1>6, <1>7, <1>8 DEF Abstract!Ask

\* What the store holds and who waits depends on these alone.
LEMMA HoldsSame ==
  ASSUME UNCHANGED <<file, chain, phase, draft, faults>>
  PROVE  UNCHANGED Abstract!vars
BY DEF Abstract!vars, Held, Waiting

LEMMA AppliedSame ==
  ASSUME NEW c, NEW f
  PROVE  Abstract!Applied(c, f) = Applied(c, f)
BY DEF Abstract!Applied, Applied

LEMMA ReadSteps ==
  ASSUME IInv, ChainRead
  PROVE  UNCHANGED Abstract!vars
BY DEF Abstract!vars, ChainRead, Held, Waiting

LEMMA FrontIs ==
  ASSUME IInv, phase = "read"
  PROVE  /\ Waiting # <<>> /\ Waiting = Asked(chain) /\ Held = Read(file)
         /\ Asked(Tail(chain)) = Tail(Waiting)
         /\ draft = Abstract!Applied(Head(Waiting), Held)
<1>1. chain \in Seq(Links) /\ chain # <<>> /\ draft = Applied(Head(chain).change, Read(file))
  BY DEF IInv, StoreTypes, DraftCurrent
<1>2. Waiting = Asked(chain) /\ Held = Read(file)
  BY DEF Waiting, Asked, Held
<1>3. /\ Asked(chain) # <<>> /\ Head(Asked(chain)) = Head(chain).change
      /\ Asked(Tail(chain)) = Tail(Asked(chain))
  BY <1>1, AskedFront
<1> QED
  BY <1>1, <1>2, <1>3, AppliedSame

LEMMA OpenApplies ==
  ASSUME IInv, ChainOpen
  PROVE  Abstract!ApplyNext
<1>1. /\ phase = "read" /\ phase' = "open" /\ chain' = chain /\ draft' = draft
      /\ faults' = faults
  BY DEF ChainOpen
<1>2. Held' = draft /\ Waiting' = Asked(Tail(chain))
  BY <1>1 DEF Held, Waiting, Asked
<1> QED
  BY <1>1, <1>2, FrontIs DEF Abstract!ApplyNext

LEMMA SkipApplies ==
  ASSUME IInv, ChainSkip
  PROVE  Abstract!ApplyNext
<1>1. /\ phase = "read" /\ phase' = "idle" /\ chain' = Tail(chain) /\ file' = file
      /\ draft = Read(file) /\ faults' = faults
  BY DEF ChainSkip, LeaveChain
<1>2. Held' = Read(file) /\ Waiting' = Asked(Tail(chain))
  BY <1>1 DEF Held, Waiting, Asked
<1> QED
  BY <1>1, <1>2, FrontIs DEF Abstract!ApplyNext

LEMMA WriteSteps ==
  ASSUME IInv, ChainWrite
  PROVE  UNCHANGED Abstract!vars
<1>1. /\ phase = "open" /\ phase' = "idle" /\ chain' = Tail(chain) /\ file' = draft
      /\ faults' = faults
  BY DEF ChainWrite, LeaveChain
<1>2. Held' = Read(draft) /\ Held = draft
  BY <1>1 DEF Held, Read
<1>3. Read(draft) = draft
  BY StoreAssumption DEF IInv, StoreTypes, Read
<1>4. Waiting' = Waiting
  BY <1>1 DEF Waiting
<1> QED
  BY <1>1, <1>2, <1>3, <1>4 DEF Abstract!vars

LEMMA FailSteps ==
  ASSUME IInv, ChainFail
  PROVE  Abstract!Drop \/ Abstract!Wipe
<1>1. /\ phase' = "idle" /\ chain' = Tail(chain) /\ file' = file /\ faults' = faults + 1
      /\ phase \in {"read", "open"}
  BY DEF ChainFail, LeaveChain
<1>2. CASE phase = "read"
  <2>1. Held' = Read(file) /\ Waiting' = Asked(Tail(chain))
    BY <1>1 DEF Held, Waiting, Asked
  <2> QED
    BY <1>1, <1>2, <2>1, FrontIs DEF Abstract!Drop
<1>3. CASE phase = "open"
  <2>1. Held' = Read(file) /\ file = Torn
    BY <1>1, <1>3 DEF Held, IInv, DraftCurrent, Read
  <2>2. Held' = Abstract!Empty
    BY <2>1 DEF Read, Empty, Abstract!Empty
  <2>3. Waiting' = Waiting
    BY <1>1, <1>3 DEF Waiting
  <2> QED
    BY <1>1, <2>2, <2>3 DEF Abstract!Wipe
<1> QED
  BY <1>1, <1>2, <1>3

LEMMA RestartSteps ==
  ASSUME IInv, StoreRestart
  PROVE  Abstract!Restart \/ Abstract!Wipe
<1>1. /\ phase' = "idle" /\ chain' = <<>> /\ file' = file /\ faults' = faults + 1
  BY DEF StoreRestart
<1>2. Waiting' = <<>> /\ Held' = Read(file)
  BY <1>1 DEF Waiting, Held, Read
<1>3. CASE phase = "open"
  <2>1. Held' = Abstract!Empty
    BY <1>2, <1>3 DEF IInv, DraftCurrent, Read, Empty, Abstract!Empty
  <2> QED
    BY <1>1, <1>2, <2>1 DEF Abstract!Wipe
<1>4. CASE phase # "open"
  <2>1. Held = Read(file)
    BY <1>4 DEF Held
  <2> QED
    BY <1>1, <1>2, <2>1 DEF Abstract!Restart
<1> QED
  BY <1>3, <1>4

LEMMA AskingSteps ==
  ASSUME IInv, NEW r \in Requests,
         StartChange(r) \/ StageWrite(r) \/ FlushLoad(r) \/ FlushSave(r) \/ SaveRaw(r)
  PROVE  Abstract!Ask \/ UNCHANGED Abstract!vars
<1>1. SyncTypes
  BY DEF IInv
<1>2. NothingStaged \in Changes
  BY StagedNothing
<1>3. CASE StartChange(r)
  <2>1. req[r].at # "idle" /\ (Do(r) = "delete") \in BOOLEAN
    BY <1>3 DEF StartChange, At
  <2>2. Head(req[r].todo).change \in Changes
    BY <1>1, <2>1, BusyType
  <2>3. Submit(r, Head(req[r].todo).change, Do(r) = "delete")
    BY <1>3 DEF StartChange
  <2> QED
    BY <2>1, <2>2, <2>3, SubmitAsks
<1>4. CASE StageWrite(r)
  <2> DEFINE new == Head(req[r].todo).change
             c == [p \in Paths |-> IF p \in DOMAIN new THEN new[p] ELSE req[r].seen[p]]
  <2>1. req[r].at = "read"
    BY <1>4 DEF StageWrite, At
  <2>2. new \in Changes /\ req[r].seen \in OpenClaw
    BY <1>1, <2>1, BusyType DEF Tasks
  <2>3. PICK D \in SUBSET Keys : new \in [D -> Held0]
    BY <2>2 DEF Changes
  <2>4. c \in [Paths -> Held0] /\ Paths \in SUBSET Keys
    BY <2>2, <2>3, PathsAreKeys DEF OpenClaw, Held0
  <2>5. c \in Changes
    BY <2>4 DEF Changes
  <2>6. Submit(r, c, FALSE)
    BY <1>4 DEF StageWrite
  <2> HIDE DEF c
  <2> QED
    BY <2>5, <2>6, SubmitAsks
<1>5. CASE FlushLoad(r)
  <2>1. Submit(r, NothingStaged, FALSE) \/ UNCHANGED storeVars
    BY <1>5 DEF FlushLoad
  <2>2. UNCHANGED storeVars => UNCHANGED <<file, chain, phase, draft, faults>>
    BY DEF storeVars
  <2> QED
    BY <1>2, <2>1, <2>2, SubmitAsks, HoldsSame
<1>6. CASE FlushSave(r)
  <2>1. Submit(r, NothingStaged, FALSE)
    BY <1>6 DEF FlushSave
  <2> QED
    BY <1>2, <2>1, SubmitAsks
<1>7. CASE SaveRaw(r)
  <2>1. Submit(r, NothingStaged, FALSE) \/ UNCHANGED storeVars
    BY <1>7 DEF SaveRaw
  <2>2. UNCHANGED storeVars => UNCHANGED <<file, chain, phase, draft, faults>>
    BY DEF storeVars
  <2> QED
    BY <1>2, <2>1, <2>2, SubmitAsks, HoldsSame
<1> QED
  BY <1>3, <1>4, <1>5, <1>6, <1>7

\* The requests do their work on the store through its chain alone; what
\* becomes of the file is a step AtomicStore takes, or none.
THEOREM AtomicCorrect == Spec => AppliesInOrder
<1>1. Init => Abstract!Init
  <2> SUFFICES ASSUME Init
               PROVE  Abstract!Init
    OBVIOUS
  <2>1. /\ chain = <<>> /\ phase = "idle" /\ faults = 0
        /\ file = [Empty EXCEPT !["ceFlag"] = On]
    BY DEF Init, StoreInit
  <2>2. file \in Contents
    BY DEF Init, StoreInit
  <2>3. Held \in Contents
    BY <2>1, <2>2, ReadType DEF Held
  <2>4. Waiting = <<>>
    BY <2>1 DEF Waiting
  <2> QED
    BY <2>1, <2>3, <2>4 DEF Abstract!Init, Abstract!Contents, Contents
<1>2. IInv /\ [Next]_vars => [Abstract!Next]_(Abstract!vars)
  <2> SUFFICES ASSUME IInv, [Next]_vars
               PROVE  Abstract!Next \/ UNCHANGED Abstract!vars
    OBVIOUS
  <2>1. UNCHANGED storeVars => UNCHANGED Abstract!vars
    <3>1. UNCHANGED storeVars => UNCHANGED <<file, chain, phase, draft, faults>>
      BY DEF storeVars
    <3> QED
      BY <3>1, HoldsSame
  <2>2. CASE \E r \in Requests, kind \in Kinds, b \in Bodies : Send(r, kind, b[1], b[2])
    BY <2>1, <2>2 DEF Send
  <2>3. ASSUME NEW r \in Requests, Work(r) \/ SaveRaw(r) \/ SaveFails(r)
        PROVE  Abstract!Next \/ UNCHANGED Abstract!vars
    <3>1. CASE StartChange(r) \/ StageWrite(r) \/ FlushLoad(r) \/ FlushSave(r) \/ SaveRaw(r)
      BY <3>1, AskingSteps DEF Abstract!Next
    <3>2. CASE StageRead(r) \/ FlushRead(r) \/ StripLoad(r) \/ StripSave(r)
      BY <2>1, <3>2 DEF StageRead, FlushRead, StripLoad, StripSave
    <3>3. CASE Answer(r) \/ SaveFails(r)
      BY <2>1, <3>3 DEF Answer, SaveFails
    <3> QED
      BY <2>3, <3>1, <3>2, <3>3 DEF Work
  <2>4. CASE ChangeGoesOn
    BY <2>4, ReadSteps, OpenApplies DEF ChangeGoesOn, Abstract!Next
  <2>5. CASE ChangeDone
    BY <2>5, WriteSteps, SkipApplies DEF ChangeDone, Abstract!Next
  <2>6. CASE ChangeFails
    BY <2>6, FailSteps DEF ChangeFails, Abstract!Next
  <2>7. CASE Watch
    <3>1. UNCHANGED <<file, chain, phase, draft, faults>>
      BY <2>7 DEF Watch, Poll, Notify, writer
    <3> QED
      BY <3>1, HoldsSame
  <2>8. CASE Restart
    BY <2>8, RestartSteps DEF Restart, Abstract!Next
  <2>9. CASE UNCHANGED vars
    BY <2>1, <2>9 DEF vars
  <2> QED
    BY <2>2, <2>3, <2>4, <2>5, <2>6, <2>7, <2>8, <2>9 DEF Next
<1> QED
  BY <1>1, <1>2, Inductive, PTL DEF Spec, AppliesInOrder, Abstract!Spec
=============================================================================
