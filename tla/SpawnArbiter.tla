---------------------------- MODULE SpawnArbiter ----------------------------
(***************************************************************************)
(* What dispatching promises, without leases, intents or passes.  A slot   *)
(* admits one request at a time; only an admitted request may call the     *)
(* Gateway; the slot passes on only after a request was withdrawn, and a   *)
(* withdrawn request never calls.  A request's verdict is given once, and  *)
(* "accepted" only for a session that exists.                              *)
(***************************************************************************)
CONSTANTS Requests, Slots, SlotOf

VARIABLES
  admitted,     \* requests let into their slot
  withdrawn,    \* admitted requests that gave the slot up, uncalled
  called,       \* requests whose spawn call has left
  started,      \* requests whose session exists
  verdict       \* what was decided about each request

arbiterVars == <<admitted, withdrawn, called, started, verdict>>

Init ==
  /\ admitted = {} /\ withdrawn = {} /\ called = {} /\ started = {}
  /\ verdict = [d \in Requests |-> "open"]

Admit(d) ==
  /\ d \notin admitted
  /\ \A e \in admitted : SlotOf[e] = SlotOf[d] => e \in withdrawn
  /\ admitted' = admitted \cup {d}
  /\ UNCHANGED <<withdrawn, called, started, verdict>>

Call(d) ==
  /\ d \in admitted \ withdrawn
  /\ d \notin called
  /\ called' = called \cup {d}
  /\ UNCHANGED <<admitted, withdrawn, started, verdict>>

Start(d) ==
  /\ d \in called
  /\ started' = started \cup {d}
  /\ UNCHANGED <<admitted, withdrawn, called, verdict>>

Accept(d) ==
  /\ verdict[d] = "open"
  /\ d \in started
  /\ verdict' = [verdict EXCEPT ![d] = "accepted"]
  /\ UNCHANGED <<admitted, withdrawn, called, started>>

SendToReview(d) ==
  /\ verdict[d] = "open"
  /\ d \in admitted
  /\ verdict' = [verdict EXCEPT ![d] = "review"]
  /\ UNCHANGED <<admitted, withdrawn, called, started>>

Withdraw(d) ==
  /\ verdict[d] = "review"
  /\ d \notin called
  /\ withdrawn' = withdrawn \cup {d}
  /\ UNCHANGED <<admitted, called, started, verdict>>

Next == \E d \in Requests :
  Admit(d) \/ Call(d) \/ Start(d) \/ Accept(d) \/ SendToReview(d) \/ Withdraw(d)

Spec == Init /\ [][Next]_arbiterVars
=============================================================================
