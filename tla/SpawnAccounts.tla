---------------------------- MODULE SpawnAccounts ----------------------------
(***************************************************************************)
(* What the budget ledger promises to each spawn: an account of what it    *)
(* holds and what it has spent.  Money moves between the two in steps that *)
(* always leave both able to pay for their tokens, and a closed account    *)
(* stays empty.                                                            *)
(***************************************************************************)
EXTENDS BudgetAmounts

CONSTANTS
  Spawns,        \* spawn requests of one run
  Amounts        \* amounts a client may name

VARIABLES
  held,     \* reserved for the spawn and neither used nor given back
  spent,    \* used by the spawn
  closed    \* accounts with a final settlement

accountVars == <<held, spent, closed>>

AccountsInit ==
  /\ held  = [s \in Spawns |-> Zero]
  /\ spent = [s \in Spawns |-> Zero]
  /\ closed = {}

Hold(s, a) ==
  /\ s \notin closed /\ Funded(a)
  /\ held' = [held EXCEPT ![s] = Plus(@, a)]
  /\ UNCHANGED <<spent, closed>>

\* What stays behind is funded too.
CanTake(s, a) == Leq(a, held[s]) /\ Funded(Minus(held[s], a))

GiveBack(s, a) ==
  /\ s \notin closed /\ CanTake(s, a)
  /\ held' = [held EXCEPT ![s] = Minus(@, a)]
  /\ UNCHANGED <<spent, closed>>

Use(s, a) ==
  /\ s \notin closed /\ CanTake(s, a) /\ Funded(a)
  /\ held'  = [held  EXCEPT ![s] = Minus(@, a)]
  /\ spent' = [spent EXCEPT ![s] = Plus(@, a)]
  /\ UNCHANGED closed

\* Used retries come back.
TakeBack(s, a) ==
  /\ s \notin closed
  /\ a = Only(a, {"retry"}) /\ Leq(a, spent[s])
  /\ held'  = [held  EXCEPT ![s] = Plus(@, a)]
  /\ spent' = [spent EXCEPT ![s] = Minus(@, a)]
  /\ UNCHANGED closed

Close(s, a) ==
  /\ s \notin closed /\ Leq(a, held[s]) /\ Funded(a)
  /\ held'  = [held  EXCEPT ![s] = Zero]
  /\ spent' = [spent EXCEPT ![s] = Plus(@, a)]
  /\ closed' = closed \cup {s}

Movable == (Amounts \cup {Zero}) \cap Amount

AccountsNext ==
  \E s \in Spawns, a \in Movable :
    Hold(s, a) \/ GiveBack(s, a) \/ Use(s, a) \/ TakeBack(s, a) \/ Close(s, a)

AccountsSpec == AccountsInit /\ [][AccountsNext]_accountVars

\* Every account can pay for the tokens it holds and for those it used.
AccountsFunded ==
  \A s \in Spawns : Funded(held[s]) /\ Funded(spent[s])

\* A closed account holds nothing.
ClosedIsEmpty == \A s \in closed : held[s] = Zero
=============================================================================
