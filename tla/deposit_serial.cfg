CONSTANTS
    Request = {r1, r2}
    Payment = {p1, p2}
    Slot = {a1}
    propertyOf <- OneProperty
    tenantOf <- OwnTenant
    Method = {"momo", "other"}
    Handlers = {"create", "review", "open", "cancel", "pay", "confirm", "ipn", "reconcile", "expire", "contract", "terminate"}
    PollLimit = 2
    MaxCode = 1
    MaxSettled = 1
    MaxCrash = 1
    NoRequest = NoRequest
    NoPayment = NoPayment
    NoOrder = NoOrder
SPECIFICATION Spec
SYMMETRY Symmetry
INVARIANTS
    AtMostOneHolder
    CreditedOnce
    HolderKeepsDeposit
CHECK_DEADLOCK FALSE
