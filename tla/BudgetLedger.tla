---------------------------- MODULE BudgetLedger ----------------------------
(***************************************************************************)
(* budgets.py: the event ledger of one run, the counters of run_budgets    *)
(* kept beside it, and the final settlement of each spawn.  Every call is  *)
(* one BEGIN IMMEDIATE transaction: it commits as one action or leaves     *)
(* everything as it was.  A repeated call with the payload of a recorded   *)
(* one is answered and changes nothing, so it is no action.  Known and     *)
(* estimated usage are not told apart: both are "measured".                *)
(***************************************************************************)
EXTENDS BudgetAmounts, Sequences, FiniteSets, Functions

CONSTANTS
  Spawns,        \* spawn requests of the run
  Calls,         \* client calls: [key |-> idempotency key, source |-> dedupe key]
  Amounts,       \* amounts a client may name
  Limit,         \* the budget of the run, per dimension
  ZeroPolicy,    \* TRUE: a zero-reserve policy admits reserves without tokens
  MaxSequence    \* _MAX_EVENT_SEQUENCE

\* Keys and dedupe keys of a client are one-element sequences; those a
\* settlement derives for its events carry the event type behind them.  The
\* code puts a NUL between the two and does not look for one in the keys of
\* a client: that no client sends such a key is assumed.
ClientKeys == {c.key : c \in Calls} \cup {c.source : c \in Calls}

Derived(k, type) == Append(k, type)

ASSUME BudgetAssumption ==
  /\ Amounts \subseteq Amount
  /\ Limit \in Amount
  /\ ZeroPolicy \in BOOLEAN
  /\ MaxSequence \in Nat
  /\ IsFiniteSet(Spawns)
  /\ \A k \in ClientKeys : k = <<k[1]>>

VARIABLES
  log,          \* budget_events in event_sequence order
  settlements,  \* budget_settlements
  reserved,     \* run_budgets.reserved_*
  consumed,     \* run_budgets.consumed_*
  usage,        \* run_budgets.usage_confidence
  stage,        \* of each spawn: its request, intent and session rows together
  run           \* runs.state

ledgerVars == <<log, settlements, reserved, consumed, usage>>
vars == <<ledgerVars, stage, run>>

PreDispatch  == {"reserve", "release"}
PostDispatch == {"consume", "retry_decrement", "retry_restore", "human_attention"}
Unlinked     == <<>>
Confidence   == {"measured", "unknown"}
Stage        == {"pending", "intent", "accepted", "completed"}

TypeOK ==
  /\ \A i \in DOMAIN log :
        /\ log[i].type \in PreDispatch \cup PostDispatch
        /\ log[i].spawn \in Spawns
        /\ log[i].amounts \in Amount
        /\ log[i].confidence \in Confidence
  /\ \A t \in settlements : t.spawn \in Spawns /\ t.actual \in Amount /\ t.released \in Amount
  /\ reserved \in Amount
  /\ consumed \in Amount
  /\ usage \in Confidence
  /\ stage \in [Spawns -> Stage]
  /\ run \in {"candidate", "dispatched", "child_completed"}

Init ==
  /\ log = <<>>
  /\ settlements = {}
  /\ reserved = Zero
  /\ consumed = Zero
  /\ usage = "measured"
  /\ stage = [s \in Spawns |-> "pending"]
  /\ run = "candidate"

-----------------------------------------------------------------------------
(* What the ledger says *)

Total(amounts) ==
  LET upto[n \in 0 .. Len(amounts)] ==
        IF n = 0 THEN Zero ELSE Plus(upto[n - 1], amounts[n])
  IN  upto[Len(amounts)]

\* What an event adds to the reservation of a spawn: its amounts, taken away
\* unless it reserves or restores.
Reserving(e, s) ==
  IF e.spawn # s THEN Zero
  ELSE IF e.type \in {"reserve", "retry_restore"} THEN e.amounts ELSE Minus(Zero, e.amounts)

\* What it adds to the spawn's use: consumption of every kind, less restored
\* retries.
Using(e, s) ==
  IF e.spawn # s \/ e.type \in PreDispatch THEN Zero
  ELSE IF e.type = "retry_restore" THEN Minus(Zero, e.amounts) ELSE e.amounts

Net(events, s)    == Total([i \in DOMAIN events |-> Reserving(events[i], s)])
NetUse(events, s) == Total([i \in DOMAIN events |-> Using(events[i], s)])

Outstanding(s) == Net(log, s)

Settled(s) == \E t \in settlements : t.spawn = s

\* Mutant: a restore is checked against the counters of the run only.
PrefixesHoldExceptRestores(events) ==
  \A s \in Spawns : Net(events, s) \in Amount

\* _assert_budget_invariants on the new ledger; its other queries compare
\* the counters and the selected cost row with what this module keeps.
PrefixesHold(events) ==
  \A s \in Spawns : Net(events, s) \in Amount /\ NetUse(events, s)["retry"] >= 0

\* The usage row and all events of the run are measured.
Unpoisoned ==
  /\ usage # "unknown"
  /\ \A i \in DOMAIN log : log[i].confidence # "unknown"

-----------------------------------------------------------------------------
(* One event *)

\* Mutant: a settlement's source may be recorded again as an event.
FreshOfEvents(c) ==
  \A i \in DOMAIN log : log[i].key # c.key /\ log[i].source # c.source

\* The unique columns of budget_events, and
\* _reject_settlement_dedupe_collision.
Fresh(c) ==
  /\ \A i \in DOMAIN log : log[i].key # c.key /\ log[i].source # c.source
  /\ \A t \in settlements : t.source # c.source

Event(c, type, s, a, conf, link) ==
  [key |-> c.key, source |-> c.source, type |-> type, spawn |-> s,
   amounts |-> a, confidence |-> conf, settlement |-> link]

\* Mutant: a settlement that reaches the limit commits the events it could write.
InsertWhileRoom(events) ==
  /\ PrefixesHold(events)
  /\ log' = IF Len(events) <= MaxSequence THEN events ELSE SubSeq(events, 1, MaxSequence)

Insert(events) ==
  /\ Len(events) <= MaxSequence
  /\ PrefixesHold(events)
  /\ log' = events

\* Mutant: reservations are not counted against the budget.
HasRoomBesidesConsumed(a) == Leq(Plus(consumed, a), Limit)

\* The budget rows _update_counters finds for a reserve.
HasRoom(a) == Leq(Plus(Plus(reserved, consumed), a), Limit)

\* Mutant: what stays reserved may cost more than its reservation.
CanTakeUnderfunded(s, a) == Leq(a, Outstanding(s))

\* The outstanding reservation covers the amount, and what stays of it can
\* still pay for its own tokens.
CanTake(s, a) ==
  /\ Leq(a, Outstanding(s))
  /\ Funded(Minus(Outstanding(s), a))

Reserve(c, s, a) ==
  /\ usage # "unknown"
  /\ Fresh(c)
  /\ a # Zero
  /\ (Only(a, {"input", "output", "cost"}) = Zero) => ZeroPolicy
  /\ Funded(a)
  /\ stage[s] = "pending"
  /\ run = "candidate"
  /\ HasRoom(a)
  /\ Insert(Append(log, Event(c, "reserve", s, a, "measured", Unlinked)))
  /\ reserved' = Plus(reserved, a)
  /\ UNCHANGED <<settlements, consumed, usage, stage, run>>

\* release, before the spawn is called for.
Release(c, s, a) ==
  /\ usage # "unknown"
  /\ Fresh(c)
  /\ a # Zero
  /\ stage[s] = "pending"
  /\ run = "candidate"
  /\ CanTake(s, a)
  /\ Leq(a, reserved)
  /\ Insert(Append(log, Event(c, "release", s, a, "measured", Unlinked)))
  /\ reserved' = Minus(reserved, a)
  /\ UNCHANGED <<settlements, consumed, usage, stage, run>>

-----------------------------------------------------------------------------
(* After the spawn was accepted *)

\* Mutant: a settlement does not close the spawn's ledger.
MayRecordAfterSettlement(c, s) ==
  /\ Fresh(c)
  /\ Unpoisoned
  /\ run \in {"dispatched", "child_completed"}
  /\ stage[s] \in {"accepted", "completed"}

MayRecord(c, s) ==
  /\ Fresh(c)
  /\ ~Settled(s)
  /\ Unpoisoned
  /\ run \in {"dispatched", "child_completed"}
  /\ stage[s] \in {"accepted", "completed"}

\* _update_post_dispatch_counters: outstanding becomes consumed.
Spend(a) ==
  /\ Leq(a, reserved)
  /\ Leq(Plus(consumed, a), Limit)
  /\ reserved' = Minus(reserved, a)
  /\ consumed' = Plus(consumed, a)

Consume(c, s, a) ==
  /\ MayRecord(c, s)
  /\ stage[s] = "completed"
  /\ a # Zero /\ a = Only(a, Usage)
  /\ Funded(a)
  /\ CanTake(s, a)
  /\ Insert(Append(log, Event(c, "consume", s, a, "measured", Unlinked)))
  /\ Spend(a)
  /\ UNCHANGED <<settlements, usage, stage, run>>

\* Usage nobody knows: an event without amounts, and the run is marked.
ConsumeUnknown(c, s) ==
  /\ MayRecord(c, s)
  /\ stage[s] = "completed"
  /\ Insert(Append(log, Event(c, "consume", s, Zero, "unknown", Unlinked)))
  /\ usage' = "unknown"
  /\ UNCHANGED <<settlements, reserved, consumed, stage, run>>

\* retry_decrement and human_attention: one dimension is used up.
UseUnits(c, s, a, type, d) ==
  /\ MayRecord(c, s)
  /\ a # Zero /\ a = Only(a, {d})
  /\ a[d] <= Outstanding(s)[d]
  /\ Insert(Append(log, Event(c, type, s, a, "measured", Unlinked)))
  /\ Spend(a)
  /\ UNCHANGED <<settlements, usage, stage, run>>

RetryDecrement(c, s, a) == UseUnits(c, s, a, "retry_decrement", "retry")

HumanAttention(c, s, a) == UseUnits(c, s, a, "human_attention", "human")

RetryRestore(c, s, a) ==
  /\ MayRecord(c, s)
  /\ a # Zero /\ a = Only(a, {"retry"})
  /\ Leq(a, consumed)
  /\ reserved["retry"] + a["retry"] <= Limit["retry"]
  /\ Insert(Append(log, Event(c, "retry_restore", s, a, "measured", Unlinked)))
  /\ consumed' = Minus(consumed, a)
  /\ reserved' = Plus(reserved, a)
  /\ UNCHANGED <<settlements, usage, stage, run>>

-----------------------------------------------------------------------------
(* Final settlement *)

PartEvent(c, s, type, a) ==
  Event([key    |-> Derived(c.key, type), source |-> Derived(c.source, type)],
        type, s, a, "measured", c.key)

\* Parts without amounts are left out, except that a settlement of nothing
\* leaves a release as its mark.
Recorded(type, a, actual) == a # Zero \/ (type = "release" /\ actual = Zero)

WithPart(events, c, s, type, a, actual) ==
  IF Recorded(type, a, actual) THEN Append(events, PartEvent(c, s, type, a)) ELSE events

\* The ledger with the events of a settlement.
WithSettlement(c, s, actual, released) ==
  LET used     == WithPart(log, c, s, "consume", Only(actual, Usage), actual)
      retried  == WithPart(used, c, s, "retry_decrement", Only(actual, {"retry"}), actual)
      attended == WithPart(retried, c, s, "human_attention", Only(actual, {"human"}), actual)
  IN  WithPart(attended, c, s, "release", released, actual)

\* Mutant: unknown usage does not stand in the way of a settlement.
MaySettlePoisoned(c, s) ==
  /\ \A i \in DOMAIN log : log[i].source # c.source
  /\ \A t \in settlements : t.key # c.key /\ t.source # c.source
  /\ ~Settled(s)
  /\ run = "child_completed"
  /\ stage[s] = "completed"

\* _reject_event_dedupe_collision, the unique columns of budget_settlements
\* and the proof of completion.
MaySettle(c, s) ==
  /\ \A i \in DOMAIN log : log[i].source # c.source
  /\ \A t \in settlements : t.key # c.key /\ t.source # c.source
  /\ ~Settled(s)
  /\ run = "child_completed"
  /\ stage[s] = "completed"
  /\ Unpoisoned

\* Mutant: more may be settled than is outstanding.
FundedOnly(actual, held) == Funded(actual)

MaySettleWith(actual, held) == Funded(actual) /\ Leq(actual, held)

Settle(c, s, actual) ==
  LET held     == Outstanding(s)
      released == Minus(held, actual)
  IN  /\ MaySettle(c, s)
      /\ held \in Amount
      /\ MaySettleWith(actual, held)
      /\ Leq(held, reserved)
      /\ Leq(Plus(consumed, actual), Limit)
      /\ Insert(WithSettlement(c, s, actual, released))
      /\ settlements' = settlements \cup
           {[key |-> c.key, source |-> c.source, spawn |-> s,
             actual |-> actual, released |-> released]}
      /\ reserved' = Minus(reserved, held)
      /\ consumed' = Plus(consumed, actual)
      /\ UNCHANGED <<usage, stage, run>>

-----------------------------------------------------------------------------
(* The rows other components write *)

\* runtime_dispatch records the sessions_spawn intent; it names a reserve
\* event of the spawn.
RecordIntent(s) ==
  /\ stage[s] = "pending"
  /\ \E i \in DOMAIN log : log[i].spawn = s /\ log[i].type = "reserve"
  /\ stage' = [stage EXCEPT ![s] = "intent"]
  /\ UNCHANGED <<ledgerVars, run>>

RecordAcceptance(s) ==
  /\ stage[s] = "intent"
  /\ stage' = [stage EXCEPT ![s] = "accepted"]
  /\ UNCHANGED <<ledgerVars, run>>

\* Nothing under src/ completes a spawn or moves a run on.  child_completed
\* stands for the three states in which a run may be settled.
Complete(s) ==
  /\ stage[s] = "accepted"
  /\ stage' = [stage EXCEPT ![s] = "completed"]
  /\ UNCHANGED <<ledgerVars, run>>

MoveRun ==
  /\ \/ run = "candidate"  /\ run' = "dispatched"
     \/ run = "dispatched" /\ run' = "child_completed"
  /\ UNCHANGED <<ledgerVars, stage>>

Next ==
  \/ \E c \in Calls, s \in Spawns :
        \/ \E a \in Amounts :
              \/ Reserve(c, s, a) \/ Release(c, s, a) \/ Consume(c, s, a)
              \/ RetryDecrement(c, s, a) \/ RetryRestore(c, s, a)
              \/ HumanAttention(c, s, a)
        \/ ConsumeUnknown(c, s)
        \/ \E a \in Amounts \cup {Zero} : Settle(c, s, a)
  \/ \E s \in Spawns : RecordIntent(s) \/ RecordAcceptance(s) \/ Complete(s)
  \/ MoveRun

Spec == Init /\ [][Next]_vars

-----------------------------------------------------------------------------
(* Properties *)

Accounts == INSTANCE SpawnAccounts
  WITH held   <- [s \in Spawns |-> Outstanding(s)],
       spent  <- [s \in Spawns |-> NetUse(log, s)],
       closed <- {s \in Spawns : Settled(s)}

\* The counters are a cache of the ledger: what is reserved is what all
\* spawns have outstanding, and what is consumed is what they have used.
CountersMatchLedger ==
  \A d \in Dims :
    /\ reserved[d] = SumFunction([s \in Spawns |-> Outstanding(s)[d]])
    /\ consumed[d] = SumFunction([s \in Spawns |-> NetUse(log, s)[d]])

\* However calls interleave, reserved and consumed together stay within the
\* run's budget.
WithinLimit == Leq(Plus(reserved, consumed), Limit)

\* Rounding up per token class never leaves a reservation that could not pay
\* for its own tokens, nor usage that was recorded too cheaply.
CostCovered == Accounts!AccountsFunded /\ Funded(consumed)

\* One source of usage is counted once, as an event or in a settlement.
SourceCountedOnce ==
  /\ \A i, j \in DOMAIN log : i # j => log[i].key # log[j].key /\ log[i].source # log[j].source
  /\ \A t, u \in settlements : t # u => t.key # u.key /\ t.source # u.source
  /\ \A i \in DOMAIN log, t \in settlements : log[i].source # t.source

\* What the events of a settlement add up to.
Linked(events, k) ==
  Total([i \in DOMAIN events |->
           IF events[i].settlement = k THEN events[i].amounts ELSE Zero])

\* A settled spawn holds nothing, and the events of its settlement are what
\* the settlement says was used and given back.
SettlementIsExact ==
  \A t \in settlements :
    /\ Outstanding(t.spawn) = Zero
    /\ Linked(log, t.key) = Plus(t.actual, t.released)

\* Usage marked unknown is final: no later call changes the ledger of the
\* run, and reservations stay.
UnknownFreezesRun == [][usage = "unknown" => UNCHANGED ledgerVars]_vars

\* The ledger keeps the account of every spawn: whatever is interleaved, each
\* call is one legal movement of one account or none.
ImplementsAccounts == Accounts!AccountsSpec
=============================================================================
