----------------------------- MODULE ConfigStore -----------------------------
(***************************************************************************)
(* The configuration store (shared/storage/ConfigStore.ts):                *)
(* sapience-ai-suite.json, the promise chain that serialises the changes   *)
(* one process makes to it, and the watcher that tells the middlewares of  *)
(* a change.  A change reads the whole file, replaces some keys and writes *)
(* the whole file again; the write truncates the file first, and a reader  *)
(* outside the chain can find it so.  Whatever it cannot parse, a reader   *)
(* takes for an empty store.                                               *)
(*                                                                         *)
(* A key stands for a dotted path of the file.  The request whose change   *)
(* is in front of the chain goes on when the change is written, skipped or *)
(* fails: the module that knows the requests says how.                     *)
(***************************************************************************)
EXTENDS Naturals, Sequences, FiniteSets

CONSTANTS Keys, Values, NoValue,
          Torn,              \* a file nobody can parse
          Requests,          \* activities of the process that use the store
          Watched,           \* the keys the middlewares keep copies of
          MaxFaults          \* bound: failed writes and unforeseen restarts

Contents == [Keys -> Values \cup {NoValue}]

Empty == [k \in Keys |-> NoValue]

IsChange(c) == DOMAIN c \subseteq Keys /\ c \in [DOMAIN c -> Values \cup {NoValue}]

ASSUME StoreAssumption ==
  /\ NoValue \notin Values
  /\ Watched \subseteq Keys
  /\ MaxFaults \in Nat
  /\ Torn \notin Contents

VARIABLES file,      \* what sapience-ai-suite.json holds; Torn while truncated
          chain,     \* writeChain: the changes not finished, in order
          phase,     \* how far the change in front has got
          draft,     \* the whole file as the change in front will write it
          touched,   \* the file has changed since watchFile last looked
          due,       \* watchFile has seen a change; the listeners will run
          live,      \* the listeners' copies of the watched keys
          faults     \* failed writes and restarts so far

writer == <<chain, phase, draft>>
watcher == <<touched, due, live>>
storeVars == <<file, chain, phase, draft, touched, due, live, faults>>

Applied(c, f) == [k \in Keys |-> IF k \in DOMAIN c THEN c[k] ELSE f[k]]

\* read() and readSync(): any error gives an empty store.
Read(f) == IF f = Torn THEN Empty ELSE f

StoreInit ==
  /\ file \in Contents
  /\ chain = <<>> /\ phase = "idle" /\ draft = Empty
  /\ touched = FALSE /\ due = FALSE
  /\ live = [k \in Watched |-> file[k]]
  /\ faults = 0

\* update() and deleteKeys() put their work at the end of the chain.
Submit(r, c, deletes) ==
  /\ chain' = Append(chain, [by |-> r, change |-> c, deletes |-> deletes])
  /\ UNCHANGED <<file, phase, draft, watcher, faults>>

\* The change in front reads the file, whole.
ChainRead ==
  /\ phase = "idle" /\ chain # <<>>
  /\ phase' = "read"
  /\ draft' = Applied(Head(chain).change, Read(file))
  /\ UNCHANGED <<file, chain, watcher, faults>>

LeaveChain ==
  /\ chain' = Tail(chain)
  /\ phase' = "idle"
  /\ draft' = Empty

\* deleteKeys() writes nothing when there is nothing to delete.
ChainSkip ==
  /\ phase = "read" /\ Head(chain).deletes
  /\ draft = Read(file)
  /\ LeaveChain
  /\ UNCHANGED <<file, watcher, faults>>

\* writeJson opens the file, which truncates it ...
ChainOpen ==
  /\ phase = "read"
  /\ ~ (Head(chain).deletes /\ draft = Read(file))
  /\ phase' = "open"
  /\ file' = Torn
  /\ touched' = TRUE
  /\ UNCHANGED <<chain, draft, due, live, faults>>

\* Mutant: only the truncation is taken for a change of the file.
ChainWriteUnseen ==
  /\ phase = "open"
  /\ file' = draft
  /\ LeaveChain
  /\ UNCHANGED <<touched, due, live, faults>>

\* Mutant: the file is read again when it is open already.
ChainWriteLate ==
  /\ phase = "open"
  /\ file' = Applied(Head(chain).change, Read(file))
  /\ touched' = TRUE
  /\ LeaveChain
  /\ UNCHANGED <<due, live, faults>>

\* ... and writes it.
ChainWrite ==
  /\ phase = "open"
  /\ file' = draft
  /\ touched' = TRUE
  /\ LeaveChain
  /\ UNCHANGED <<due, live, faults>>

\* A write that fails: its caller is told, the chain goes on.
ChainFail ==
  /\ phase \in {"read", "open"}
  /\ faults < MaxFaults
  /\ faults' = faults + 1
  /\ LeaveChain
  /\ UNCHANGED <<file, watcher>>

\* watchFile polls the file's times and size ...
Poll ==
  /\ touched
  /\ touched' = FALSE
  /\ due' = TRUE
  /\ UNCHANGED <<file, writer, live, faults>>

\* ... and calls every listener, which reads the file at once.
Notify ==
  /\ due
  /\ due' = FALSE
  /\ live' = [k \in Watched |-> Read(file)[k]]
  /\ UNCHANGED <<file, writer, touched, faults>>

\* The process ends and starts again: register() reads the file.
StoreRestart ==
  /\ chain' = <<>> /\ phase' = "idle" /\ draft' = Empty
  /\ touched' = FALSE /\ due' = FALSE
  /\ live' = [k \in Watched |-> Read(file)[k]]
  /\ faults' = faults + 1
  /\ UNCHANGED file

StoreTypeOK ==
  /\ file \in Contents \cup {Torn}
  /\ chain \in Seq([by : Requests, change : {chain[i].change : i \in DOMAIN chain},
                    deletes : BOOLEAN])
  /\ \A i \in DOMAIN chain : IsChange(chain[i].change)
  /\ phase \in {"idle", "read", "open"}
  /\ draft \in Contents
  /\ touched \in BOOLEAN /\ due \in BOOLEAN
  /\ live \in [Watched -> Values \cup {NoValue}]
  /\ faults \in Nat

\* The change in front works on the file as it is: no other change has
\* come between its reading and its writing.
DraftCurrent ==
  /\ phase # "idle" => chain # <<>>
  /\ phase = "read" => draft = Applied(Head(chain).change, Read(file))
  /\ phase = "open" => file = Torn

\* What the store holds for its users: a write counts once it has begun.
Held == IF phase = "open" THEN draft ELSE Read(file)

Waiting ==
  LET left == IF phase = "open" THEN Tail(chain) ELSE chain
  IN [i \in 1 .. Len(left) |-> left[i].change]

Abstract == INSTANCE AtomicStore WITH kv <- Held, todo <- Waiting

\* The changes are applied whole, one at a time and in the order asked for;
\* only a fault in the middle of a write can undo what others have saved.
AppliesInOrder == Abstract!Spec
=============================================================================
