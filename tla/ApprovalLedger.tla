--------------------------- MODULE ApprovalLedger ---------------------------
(***************************************************************************)
(* What the approval gate promises, without queue, clock or polling: a     *)
(* ledger of the requests put before the human.  A yes is good for one     *)
(* tool call, of the session, the action and - when Exact - the arguments  *)
(* it was given for; a no, a new request or the passing of time takes it   *)
(* back.                                                                   *)
(***************************************************************************)
EXTENDS Naturals

CONSTANTS Keys,    \* <<session, action>>
          Args,    \* what a call is made with
          Calls,   \* tool calls
          Exact    \* whether a yes is bound to the arguments it was given for

VARIABLES ledger,  \* ledger[k]: what stands between the human and the agent
          runs     \* runs[c]: on whose word the call c is running

Nothing == [is |-> "nothing"]
Asked(args) == [is |-> "asked", args |-> args]
Granted(args) == [is |-> "granted", args |-> args]

Stopped == [by |-> "nobody"]
ByOther == [by |-> "other"]   \* the policy, or the human at the terminal
ByGrant(k, args) == [by |-> "grant", key |-> k, args |-> args]

Init ==
  /\ ledger = [k \in Keys |-> Nothing]
  /\ runs = [c \in Calls |-> Stopped]

\* A call asks: whatever stood under the key is superseded.
Ask(k, args) ==
  /\ ledger' = [ledger EXCEPT ![k] = Asked(args)]
  /\ UNCHANGED runs

Grant(k) ==
  /\ ledger[k].is = "asked"
  /\ ledger' = [ledger EXCEPT ![k] = Granted(ledger[k].args)]
  /\ UNCHANGED runs

\* A no, or time, takes requests and grants off the ledger.
Withdraw(K) ==
  /\ ledger' = [k \in Keys |-> IF k \in K THEN Nothing ELSE ledger[k]]
  /\ UNCHANGED runs

Spend(c, k, args) ==
  /\ runs[c] = Stopped
  /\ ledger[k].is = "granted"
  /\ Exact => ledger[k].args = args
  /\ ledger' = [ledger EXCEPT ![k] = Nothing]
  /\ runs' = [runs EXCEPT ![c] = ByGrant(k, args)]

RunFreely(c) ==
  /\ runs[c] = Stopped
  /\ runs' = [runs EXCEPT ![c] = ByOther]
  /\ UNCHANGED ledger

Stop(c) ==
  /\ runs' = [runs EXCEPT ![c] = Stopped]
  /\ UNCHANGED ledger

Forget ==
  /\ ledger' = [k \in Keys |-> Nothing]
  /\ runs' = [c \in Calls |-> Stopped]

Next ==
  \/ \E k \in Keys, args \in Args : Ask(k, args)
  \/ \E k \in Keys : Grant(k)
  \/ \E K \in SUBSET Keys : Withdraw(K)
  \/ \E c \in Calls, k \in Keys, args \in Args : Spend(c, k, args)
  \/ \E c \in Calls : RunFreely(c) \/ Stop(c)
  \/ Forget

Spec == Init /\ [][Next]_<<ledger, runs>>
=============================================================================
