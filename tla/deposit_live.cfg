CONSTANTS
    Request = {r1}
    Payment = {p1}
    Slot = {a1, a2}
    propertyOf <- OneProperty
    tenantOf <- OwnTenant
    Method = {"momo", "vnpay", "other"}
    Handlers = {"create", "review", "open", "cancel", "pay", "confirm", "ipn", "reconcile", "expire", "contract", "terminate"}
    PollLimit = 2
    MaxCode = 1
    MaxSettled = 1
    MaxCrash = 1
    NoRequest = NoRequest
    NoPayment = NoPayment
    NoOrder = NoOrder
SPECIFICATION FairSpec
INVARIANTS
    MoneyBehindCredit
    HolderHasPaid
    RefundBacked
PROPERTIES
    OpenWindowCloses
    GatewayPaymentEnds
CHECK_DEADLOCK FALSE
