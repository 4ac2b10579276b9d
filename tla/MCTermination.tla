--------------------------- MODULE MCTermination ---------------------------
(***************************************************************************)
(* Small instances of Termination: a contract with its deposit, signed by  *)
(* hand, and the update or the successor it may get.                       *)
(***************************************************************************)
EXTENDS Termination, TLC
=============================================================================
