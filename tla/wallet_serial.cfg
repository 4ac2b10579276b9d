CONSTANTS
    User <- Users
    Topup = {t1, t2}
    Withdrawal = {w1}
    Fee = {f1}
    Rent = {}
    walletOf <- TenantsWallet
    payerOf <- Tenant
    ownerOf <- Landlord
    amountOf <- Amount
    ViaGateway = {t1}
    Slot = {a1}
    PollLimit = 2
    MaxCredits = 2
    MaxCrash = 0
    Handlers = {"webhook", "confirm", "reconcile", "withdraw", "fee"}
    NoItem = NoItem
    p1 = p1
SPECIFICATION FairSpec
INVARIANTS
    BalanceMatchesLedger
    TopupCreditedOnce
PROPERTIES
    WithdrawalEnds
    TopupEnds
CHECK_DEADLOCK FALSE
