----------------------------- MODULE AtomicStore -----------------------------
(***************************************************************************)
(* What shared/storage/ConfigStore.ts promises of update() and             *)
(* deleteKeys(): the changes asked for are applied one at a time, in the   *)
(* order they were asked for, each to the whole result of the one before - *)
(* "avoiding race conditions", as its comment says.  A change that cannot  *)
(* be written is dropped.  The one thing that can undo earlier changes is  *)
(* a fault in the middle of writing, which leaves a file nobody can read.  *)
(***************************************************************************)
EXTENDS Naturals, Sequences

CONSTANTS Keys, Values, NoValue

Contents == [Keys -> Values \cup {NoValue}]

Empty == [k \in Keys |-> NoValue]

\* A change says what some of the keys are to hold; NoValue deletes a key.
IsChange(c) == DOMAIN c \subseteq Keys /\ c \in [DOMAIN c -> Values \cup {NoValue}]

Applied(c, f) == [k \in Keys |-> IF k \in DOMAIN c THEN c[k] ELSE f[k]]

VARIABLES kv,       \* what the store holds
          todo,     \* the changes asked for and not applied yet
          faults    \* failed writes and restarts so far

vars == <<kv, todo, faults>>

Init ==
  /\ kv \in Contents
  /\ todo = <<>>
  /\ faults = 0

\* A new change is asked for, after all the others.
Ask ==
  /\ todo' # <<>>
  /\ todo' = Append(todo, todo'[Len(todo')])
  /\ IsChange(todo'[Len(todo')])
  /\ UNCHANGED <<kv, faults>>

ApplyNext ==
  /\ todo # <<>>
  /\ kv' = Applied(Head(todo), kv)
  /\ todo' = Tail(todo)
  /\ UNCHANGED faults

\* The change in front cannot be written.
Drop ==
  /\ todo # <<>>
  /\ todo' = Tail(todo)
  /\ faults' = faults + 1
  /\ UNCHANGED kv

\* A fault in the middle of writing; the process may live on or not.
Wipe ==
  /\ kv' = Empty
  /\ todo' \in {todo, <<>>}
  /\ faults' = faults + 1

\* The process ends, and takes with it what it had not applied.
Restart ==
  /\ todo' = <<>>
  /\ faults' = faults + 1
  /\ UNCHANGED kv

Next ==
  \/ Ask \/ ApplyNext \/ Drop \/ Wipe \/ Restart

Spec == Init /\ [][Next]_vars
=============================================================================
