------------------------------ MODULE MCBudget ------------------------------
EXTENDS BudgetLedger, TLC

CONSTANT Keys

\* Input tokens cost 1.5 and output tokens 0.5 microusd.
MCPriceIn  == 1500000
MCPriceOut == 500000

Amt(time, input, output, cost, retry, human) ==
  [time |-> time, input |-> input, output |-> output, cost |-> cost,
   retry |-> retry, human |-> human]

\* A reservation, a part of it that may be used or released, a part whose
\* cost is right but leaves too little, and single units.
MCAmounts == {Amt(1, 2, 1, 5, 1, 1), Amt(0, 1, 1, 3, 0, 0), Amt(0, 1, 0, 3, 0, 0),
              Amt(0, 0, 0, 0, 1, 0), Amt(0, 0, 0, 0, 0, 1)}

MCLimit == Amt(2, 4, 2, 10, 2, 2)

\* Each call has an idempotency key and a dedupe key of its own.
MCCalls == {[key |-> <<k>>, source |-> <<k>>] : k \in Keys}

Symmetry == Permutations(Keys) \cup Permutations(Spawns)
=============================================================================
