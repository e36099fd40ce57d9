---------------------------- MODULE AccountProofs ----------------------------
(***************************************************************************)
(* Proofs about SpawnAccounts: whatever is held, given back, used, taken   *)
(* back or closed, in any order, every account can pay for the tokens it   *)
(* holds and for those it used.  The argument is that rounding up is       *)
(* subadditive: what two amounts cost together is at most what they cost   *)
(* one by one.                                                             *)
(***************************************************************************)
EXTENDS SpawnAccounts, TLAPS

AccountsInv ==
  /\ held  \in [Spawns -> Amount]
  /\ spent \in [Spawns -> Amount]
  /\ AccountsFunded

-----------------------------------------------------------------------------
(* Amounts *)

LEMMA CeilingOfSum ==
  ASSUME NEW x \in Nat, NEW y \in Nat
  PROVE  ((x + y) + 999999) \div 1000000
           <= ((x + 999999) \div 1000000) + ((y + 999999) \div 1000000)
BY SMT

LEMMA RoundedUpOfSum ==
  ASSUME NEW x \in Nat, NEW y \in Nat, NEW p \in Nat
  PROVE  RoundedUp(x + y, p) <= RoundedUp(x, p) + RoundedUp(y, p)
<1>1. x * p \in Nat /\ y * p \in Nat /\ (x + y) * p = x * p + y * p
  BY SMT
<1>2. ((x * p + y * p) + 999999) \div 1000000
        <= ((x * p + 999999) \div 1000000) + ((y * p + 999999) \div 1000000)
  BY <1>1, CeilingOfSum
<1>. QED BY <1>1, <1>2 DEF RoundedUp

LEMMA RoundedUpIsInt ==
  ASSUME NEW x \in Nat, NEW p \in Nat
  PROVE  RoundedUp(x, p) \in Int
<1>1. x * p + 999999 \in Int
  BY SMT
<1>. QED BY <1>1 DEF RoundedUp

LEMMA FundedOfSum ==
  ASSUME NEW a \in Amount, NEW b \in Amount, Funded(a), Funded(b)
  PROVE  Funded(Plus(a, b))
<1>1. /\ a["input"] \in Nat /\ b["input"] \in Nat /\ a["output"] \in Nat
      /\ b["output"] \in Nat /\ a["cost"] \in Nat /\ b["cost"] \in Nat
  BY DEF Amount, Dims
<1>2. /\ Plus(a, b)["input"]  = a["input"]  + b["input"]
      /\ Plus(a, b)["output"] = a["output"] + b["output"]
      /\ Plus(a, b)["cost"]   = a["cost"]   + b["cost"]
  BY DEF Plus, Dims
<1>3. RoundedUp(a["input"] + b["input"], PriceIn)
        <= RoundedUp(a["input"], PriceIn) + RoundedUp(b["input"], PriceIn)
  BY <1>1, RoundedUpOfSum, PriceAssumption
<1>4. RoundedUp(a["output"] + b["output"], PriceOut)
        <= RoundedUp(a["output"], PriceOut) + RoundedUp(b["output"], PriceOut)
  BY <1>1, RoundedUpOfSum, PriceAssumption
<1>5. /\ RoundedUp(a["input"], PriceIn) \in Int /\ RoundedUp(b["input"], PriceIn) \in Int
      /\ RoundedUp(a["output"], PriceOut) \in Int /\ RoundedUp(b["output"], PriceOut) \in Int
      /\ RoundedUp(a["input"] + b["input"], PriceIn) \in Int
      /\ RoundedUp(a["output"] + b["output"], PriceOut) \in Int
  BY <1>1, RoundedUpIsInt, PriceAssumption
<1>6. /\ a["cost"] >= RoundedUp(a["input"], PriceIn) + RoundedUp(a["output"], PriceOut)
      /\ b["cost"] >= RoundedUp(b["input"], PriceIn) + RoundedUp(b["output"], PriceOut)
  BY DEF Funded, RequiredCost
<1>7. a["cost"] + b["cost"] >= RoundedUp(a["input"] + b["input"], PriceIn)
                                 + RoundedUp(a["output"] + b["output"], PriceOut)
  BY <1>1, <1>3, <1>4, <1>5, <1>6
<1>. QED BY <1>2, <1>7 DEF Funded, RequiredCost

\* What costs nothing to change: amounts that differ in other dimensions only.
LEMMA FundedOfSame ==
  ASSUME NEW a, NEW b, Funded(a),
         a["input"] = b["input"], a["output"] = b["output"], a["cost"] = b["cost"]
  PROVE  Funded(b)
BY DEF Funded, RequiredCost

LEMMA FundedZero == Zero \in Amount /\ Funded(Zero)
<1>1. Zero \in Amount /\ Zero["input"] = 0 /\ Zero["output"] = 0 /\ Zero["cost"] = 0
  BY DEF Zero, Amount, Dims
<1>2. 0 * PriceIn = 0 /\ 0 * PriceOut = 0
  BY PriceAssumption, SMT
<1>3. RoundedUp(0, PriceIn) = 0 /\ RoundedUp(0, PriceOut) = 0
  BY <1>2, SMT DEF RoundedUp
<1>. QED BY <1>1, <1>3 DEF Funded, RequiredCost

LEMMA PlusTyped == \A a, b \in Amount : Plus(a, b) \in Amount
BY SMT DEF Amount, Plus

LEMMA MinusTyped == \A a, b \in Amount : Leq(b, a) => Minus(a, b) \in Amount
BY SMT DEF Amount, Minus, Leq

-----------------------------------------------------------------------------
(* Accounts *)

\* A step that changes one account to funded amounts keeps the invariant.
LEMMA OneAccount ==
  ASSUME AccountsInv, NEW s \in Spawns, NEW h \in Amount, NEW u \in Amount,
         Funded(h), Funded(u),
         held'  = [held  EXCEPT ![s] = h],
         spent' = [spent EXCEPT ![s] = u]
  PROVE  AccountsInv'
<1>1. held' \in [Spawns -> Amount] /\ spent' \in [Spawns -> Amount]
  BY DEF AccountsInv
<1>2. ASSUME NEW t \in Spawns
      PROVE  Funded(held'[t]) /\ Funded(spent'[t])
  BY <1>2 DEF AccountsInv, AccountsFunded
<1>3. AccountsFunded'
  BY <1>2 DEF AccountsFunded
<1>. QED BY <1>1, <1>3 DEF AccountsInv

LEMMA AccountsStep ==
  ASSUME AccountsInv, [AccountsNext]_accountVars
  PROVE  AccountsInv'
<1>. USE FundedZero
<1>1. ASSUME NEW s \in Spawns
      PROVE  /\ held[s] \in Amount /\ spent[s] \in Amount
             /\ Funded(held[s]) /\ Funded(spent[s])
             /\ held  = [held  EXCEPT ![s] = held[s]]
             /\ spent = [spent EXCEPT ![s] = spent[s]]
  BY DEF AccountsInv, AccountsFunded
<1>2. ASSUME NEW s \in Spawns, NEW a \in Amount, Hold(s, a)
      PROVE  AccountsInv'
  <2>1. Plus(held[s], a) \in Amount /\ Funded(Plus(held[s], a))
    BY <1>1, <1>2, PlusTyped, FundedOfSum DEF Hold
  <2>2. held' = [held EXCEPT ![s] = Plus(held[s], a)] /\ spent' = spent
    BY <1>2 DEF Hold
  <2>. QED BY <1>1, <2>1, <2>2, OneAccount
<1>3. ASSUME NEW s \in Spawns, NEW a \in Amount, GiveBack(s, a)
      PROVE  AccountsInv'
  <2>1. Minus(held[s], a) \in Amount /\ Funded(Minus(held[s], a))
    BY <1>1, <1>3, MinusTyped DEF GiveBack, CanTake
  <2>2. held' = [held EXCEPT ![s] = Minus(held[s], a)] /\ spent' = spent
    BY <1>3 DEF GiveBack
  <2>. QED BY <1>1, <2>1, <2>2, OneAccount
<1>4. ASSUME NEW s \in Spawns, NEW a \in Amount, Use(s, a)
      PROVE  AccountsInv'
  <2>1. Minus(held[s], a) \in Amount /\ Funded(Minus(held[s], a))
    BY <1>1, <1>4, MinusTyped DEF Use, CanTake
  <2>2. Plus(spent[s], a) \in Amount /\ Funded(Plus(spent[s], a))
    BY <1>1, <1>4, PlusTyped, FundedOfSum DEF Use
  <2>3. /\ held'  = [held  EXCEPT ![s] = Minus(held[s], a)]
        /\ spent' = [spent EXCEPT ![s] = Plus(spent[s], a)]
    BY <1>4 DEF Use
  <2>. QED BY <2>1, <2>2, <2>3, OneAccount
<1>5. ASSUME NEW s \in Spawns, NEW a \in Amount, TakeBack(s, a)
      PROVE  AccountsInv'
  <2>1. a = Only(a, {"retry"}) /\ Leq(a, spent[s])
    BY <1>5 DEF TakeBack
  <2>2. a["input"] = 0 /\ a["output"] = 0 /\ a["cost"] = 0
    BY <2>1 DEF Only, Dims
  <2>3. Plus(held[s], a) \in Amount /\ Minus(spent[s], a) \in Amount
    BY <1>1, <1>5, <2>1, PlusTyped, MinusTyped
  <2>4. \A d \in {"input", "output", "cost"} :
          Plus(held[s], a)[d] = held[s][d] /\ Minus(spent[s], a)[d] = spent[s][d]
    BY <1>1, <2>2 DEF Plus, Minus, Dims, Amount
  <2>5. Funded(Plus(held[s], a)) /\ Funded(Minus(spent[s], a))
    BY <1>1, <2>4, FundedOfSame
  <2>6. /\ held'  = [held  EXCEPT ![s] = Plus(held[s], a)]
        /\ spent' = [spent EXCEPT ![s] = Minus(spent[s], a)]
    BY <1>5 DEF TakeBack
  <2>. QED BY <2>3, <2>5, <2>6, OneAccount
<1>6. ASSUME NEW s \in Spawns, NEW a \in Amount, Close(s, a)
      PROVE  AccountsInv'
  <2>1. Plus(spent[s], a) \in Amount /\ Funded(Plus(spent[s], a))
    BY <1>1, <1>6, PlusTyped, FundedOfSum DEF Close
  <2>2. /\ held'  = [held  EXCEPT ![s] = Zero]
        /\ spent' = [spent EXCEPT ![s] = Plus(spent[s], a)]
    BY <1>6 DEF Close
  <2>. QED BY <2>1, <2>2, OneAccount
<1>7. CASE UNCHANGED accountVars
  BY <1>7 DEF accountVars, AccountsInv, AccountsFunded
<1>8. Movable \subseteq Amount
  BY DEF Movable
<1>. QED BY <1>2, <1>3, <1>4, <1>5, <1>6, <1>7, <1>8 DEF AccountsNext

\* Every account of a run can pay for the tokens it holds and for those it
\* has used, whatever the prices and amounts are.
THEOREM AccountsStayFunded == AccountsSpec => []AccountsFunded
<1>1. AccountsInit => AccountsInv
  BY FundedZero DEF AccountsInit, AccountsInv, AccountsFunded
<1>2. AccountsInv /\ [AccountsNext]_accountVars => AccountsInv'
  BY AccountsStep
<1>3. AccountsInv => AccountsFunded
  BY DEF AccountsInv
<1>. QED BY <1>1, <1>2, <1>3, PTL DEF AccountsSpec

\* A closed account stays empty.
THEOREM ClosedStaysEmpty == AccountsSpec => []ClosedIsEmpty
<1>. DEFINE Inv == held \in [Spawns -> Amount] /\ closed \subseteq Spawns /\ ClosedIsEmpty
<1>1. AccountsInit => Inv
  BY FundedZero DEF AccountsInit, ClosedIsEmpty
<1>2. ASSUME Inv, [AccountsNext]_accountVars
      PROVE  Inv'
  <2>1. ASSUME NEW s \in Spawns, NEW h \in Amount, s \notin closed,
               held' = [held EXCEPT ![s] = h], closed' = closed
        PROVE  Inv'
    BY <1>2, <2>1 DEF ClosedIsEmpty
  <2>2. ASSUME NEW s \in Spawns, NEW a \in Amount, Hold(s, a) \/ TakeBack(s, a)
        PROVE  Inv'
    <3>1. Plus(held[s], a) \in Amount
      BY <1>2, PlusTyped
    <3>. QED BY <2>1, <2>2, <3>1 DEF Hold, TakeBack
  <2>3. ASSUME NEW s \in Spawns, NEW a \in Amount, GiveBack(s, a) \/ Use(s, a)
        PROVE  Inv'
    <3>1. Minus(held[s], a) \in Amount
      BY <1>2, <2>3, MinusTyped DEF GiveBack, Use, CanTake
    <3>. QED BY <2>1, <2>3, <3>1 DEF GiveBack, Use
  <2>4. ASSUME NEW s \in Spawns, NEW a \in Amount, Close(s, a)
        PROVE  Inv'
    BY <1>2, <2>4, FundedZero DEF Close, ClosedIsEmpty
  <2>5. CASE UNCHANGED accountVars
    BY <1>2, <2>5 DEF accountVars, ClosedIsEmpty
  <2>6. Movable \subseteq Amount
    BY DEF Movable
  <2>. QED BY <1>2, <2>2, <2>3, <2>4, <2>5, <2>6 DEF AccountsNext
<1>3. Inv => ClosedIsEmpty
  OBVIOUS
<1>. QED BY <1>1, <1>2, <1>3, PTL DEF AccountsSpec
=============================================================================
