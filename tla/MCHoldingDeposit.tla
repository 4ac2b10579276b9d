-------------------------- MODULE MCHoldingDeposit --------------------------
(***************************************************************************)
(* Small instances of HoldingDeposit: every request is for one property    *)
(* and comes from a tenant of its own, the case where they compete.        *)
(***************************************************************************)
EXTENDS HoldingDeposit, TLC

OneProperty == [r \in Request |-> "house"]
OwnTenant == [r \in Request |-> r]

\* Requests, payments and slots are interchangeable (safety runs only).
Symmetry == Permutations(Request) \cup Permutations(Payment) \cup Permutations(Slot)
=============================================================================
