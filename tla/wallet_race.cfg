CONSTANTS
    User <- Users
    Topup = {t1}
    Withdrawal = {w1}
    Fee = {f1}
    Rent = {p1, p2}
    walletOf <- TenantsWallet
    payerOf <- CrossedTenant
    ownerOf <- CrossedLandlord
    amountOf <- Amount
    ViaGateway = {t1}
    Slot = {a1, a2}
    PollLimit = 1
    MaxCredits = 1
    MaxCrash = 1
    Handlers = {"webhook", "confirm", "reconcile", "noanswer", "withdraw", "fee", "rent", "ipn", "vnpay"}
    NoItem = NoItem
    p1 = p1
SPECIFICATION Spec
SYMMETRY SlotSymmetry
INVARIANTS
    NeverNegative
    TopupBacked
    RentBacked
    RefundedIffRejected
CHECK_DEADLOCK FALSE
