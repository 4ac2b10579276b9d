------------------------ MODULE MCContractLifecycle ------------------------
(***************************************************************************)
(* Small instances of ContractLifecycle: an original contract and the one  *)
(* that updates or follows it.                                             *)
(***************************************************************************)
EXTENDS ContractLifecycle, TLC

\* Handlers in flight are interchangeable (safety only).
SlotSymmetry == Permutations(Slot)
=============================================================================
