------------------------------ MODULE MCWallet ------------------------------
(***************************************************************************)
(* Small instances of Wallet: a tenant who tops up, pays and withdraws,    *)
(* and the landlord the rent goes to.  Crossed rents are paid one in each  *)
(* direction, as between users who rent from one another: their            *)
(* settlements lock the two wallets in opposite orders.                    *)
(***************************************************************************)
EXTENDS Wallet, TLC

CONSTANTS p1  \* the rent the landlord receives, when there are two

Users == {"tenant", "landlord"}
TenantsWallet == [i \in Topup \cup Withdrawal \cup Fee |-> "tenant"]
Tenant == [p \in Rent |-> "tenant"]
Landlord == [p \in Rent |-> "landlord"]
CrossedTenant == [p \in Rent |-> IF p = p1 THEN "tenant" ELSE "landlord"]
CrossedLandlord == [p \in Rent |-> IF p = p1 THEN "landlord" ELSE "tenant"]
\* A top-up covers any two of the other items, two others cover one top-up.
Amount == [i \in Item |-> IF i \in Topup THEN 2 ELSE 1]

Symmetry == Permutations(Topup) \cup Permutations(Withdrawal) \cup Permutations(Fee)
            \cup Permutations(Rent) \cup Permutations(Slot)
SlotSymmetry == Permutations(Slot)
=============================================================================
