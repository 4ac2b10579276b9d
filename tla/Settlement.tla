---------------------------- MODULE Settlement ----------------------------
(***************************************************************************)
(* What termination.service pays to whom when a contract ends: the policy  *)
(* of a reason, and the writes to the two wallets.                         *)
(*                                                                         *)
(* Each settlement reads both wallets once and computes every later write  *)
(* from what it read: of two writes to one balance the second wins.        *)
(***************************************************************************)
EXTENDS Naturals

Least(x, y) == IF x < y THEN x ELSE y

Party == {"OWNER", "TENANT"}
Reason == {"unilateral_termination", "breach_of_contract", "non_payment",
           "force_majeure", "mutual_agreement", "lease_end"}
Other(r) == IF r = "OWNER" THEN "TENANT" ELSE "OWNER"

\* The two balances and the owner's pending balance, which holds deposits.
Books == [owner: Nat, tenant: Nat, held: Nat]
Total(b) == b.owner + b.tenant + b.held
BalanceOf(b, r) == IF r = "OWNER" THEN b.owner ELSE b.tenant

\* Who gets the deposit ("none": it is returned after the debts), and who
\* pays the fee.
ForfeitedTo(reason, requester) ==
    CASE reason = "unilateral_termination" /\ requester = "TENANT" -> "OWNER"
      [] reason = "breach_of_contract"                             -> requester
      [] reason = "non_payment"                                    -> "OWNER"
      [] OTHER                                                     -> "none"

PenaltyPayer(reason, requester, fee) ==
    CASE fee = 0                            -> "none"
      [] reason = "unilateral_termination"  -> requester
      [] reason = "breach_of_contract"      -> Other(requester)
      [] reason = "non_payment"             -> "TENANT"
      [] OTHER                              -> "none"

\* Mutant: the pending balance is not touched.
ReleasedNot(b, amount) == b.held

\* The owner's pending balance gives up the deposit, never below zero.
Released(b, amount) == b.held - Least(b.held, amount)

AfterPenalty(b, payer, fee) ==
    CASE payer = "OWNER"  -> [owner |-> b.owner - fee, tenant |-> b.tenant + fee, held |-> b.held]
      [] payer = "TENANT" -> [owner |-> b.owner + fee, tenant |-> b.tenant - fee, held |-> b.held]
      [] OTHER            -> b

CanPay(b, payer, fee) == payer = "none" \/ BalanceOf(b, payer) >= fee

\* By policy, for a deposit that exists. A refund after the debts writes both
\* balances from what was read; the other outcomes write one of them.
PolicyBooks(b, reason, requester, fee, amount, debt) ==
    LET payer == PenaltyPayer(reason, requester, fee)
        paid  == AfterPenalty(b, payer, fee)
        used  == Least(amount, debt)
        held  == Released(b, amount)
    IN CASE reason = "unilateral_termination" /\ requester = "OWNER" ->
              [owner |-> paid.owner, tenant |-> b.tenant + amount, held |-> held]
         [] ForfeitedTo(reason, requester) = "OWNER" ->
              [owner |-> b.owner + amount, tenant |-> paid.tenant, held |-> held]
         [] ForfeitedTo(reason, requester) = "TENANT" ->
              [owner |-> paid.owner, tenant |-> b.tenant + amount, held |-> held]
         [] OTHER ->
              [owner |-> b.owner + used, tenant |-> b.tenant + (amount - used), held |-> held]

PolicyEscrow(reason, requester, amount, debt) ==
    CASE reason = "unilateral_termination" /\ requester = "OWNER" -> "fully_returned"
      [] ForfeitedTo(reason, requester) = "OWNER"                 -> "forfeited"
      [] ForfeitedTo(reason, requester) = "TENANT"                -> "fully_returned"
      [] debt = 0                                                 -> "fully_returned"
      [] OTHER                                                    -> "partially_returned"

\* The debts that the deposit pays, and the fee that is asked for once more:
\* its payment stays pending although the wallet has been debited.
PolicyDebt(reason, requester, fee, amount, debt) ==
    IF ForfeitedTo(reason, requester) = "none" /\ reason # "unilateral_termination"
      THEN debt - Least(amount, debt)
      ELSE debt + (IF PenaltyPayer(reason, requester, fee) = "TENANT" THEN fee ELSE 0)

\* By an administrator: a fee paid by the requester, the deposit back in part,
\* and a compensation. Each block starts from the balances read at first.
AdminPays(b, requester, penalty, compensation) ==
    /\ BalanceOf(b, requester) >= penalty
    /\ b.owner >= compensation

AdminBooks(b, requester, amount, back, penalty, compensation) ==
    LET fined == AfterPenalty(b, requester, penalty)
        kept  == IF amount > back THEN amount - back ELSE 0
        deposited ==
            CASE amount = 0 -> fined
              [] OTHER      -> [owner |-> b.owner + kept,
                                tenant |-> IF back = 0 THEN fined.tenant ELSE b.tenant + back,
                                held |-> Released(b, amount)]
    IN IF compensation = 0 THEN deposited
       ELSE [owner |-> b.owner - compensation, tenant |-> b.tenant + compensation,
             held |-> deposited.held]

AdminEscrow(amount, back) ==
    CASE back = amount -> "fully_returned"
      [] back = 0      -> "forfeited"
      [] OTHER         -> "partially_returned"
=============================================================================
