------------------------------ MODULE MCDispatch ------------------------------
(* Small instances of DispatchSystem. *)
EXTENDS DispatchInvariant, TLC

\* Every request competes for one (run, phase, agent).
OneSlot == {"slot"}
AllInOneSlot == [d \in Requests |-> "slot"]

Symmetry == Permutations(Requests) \cup Permutations(Callers)
              \cup Permutations(Reconcilers)
=============================================================================
