---------------------------- MODULE BudgetAmounts ----------------------------
(***************************************************************************)
(* budgets.py: amounts in the six dimensions of a budget, and what a       *)
(* number of tokens has to cost.                                           *)
(***************************************************************************)
EXTENDS Integers

CONSTANTS
  PriceIn,       \* registry price of a million input tokens, in microusd
  PriceOut       \* registry price of a million output tokens

ASSUME PriceAssumption == PriceIn \in Nat /\ PriceOut \in Nat

Dims   == {"time", "input", "output", "cost", "retry", "human"}
Usage  == {"time", "input", "output", "cost"}
Amount == [Dims -> Nat]

Zero == [d \in Dims |-> 0]
Plus(a, b)  == [d \in Dims |-> a[d] + b[d]]
Minus(a, b) == [d \in Dims |-> a[d] - b[d]]
Leq(a, b)   == \A d \in Dims : a[d] <= b[d]
Only(a, D)  == [d \in Dims |-> IF d \in D THEN a[d] ELSE 0]

RoundedUp(tokens, price) == (tokens * price + 999999) \div 1000000

RequiredCost(a) == RoundedUp(a["input"], PriceIn) + RoundedUp(a["output"], PriceOut)

\* _ensure_amount_meets_cost_floor
Funded(a) == a["cost"] >= RequiredCost(a)
=============================================================================
