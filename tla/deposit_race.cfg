CONSTANTS
    Request = {r1, r2}
    Payment = {p1, p2}
    Slot = {a1, a2}
    propertyOf <- OneProperty
    tenantOf <- OwnTenant
    Method = {"momo", "other"}
    Handlers = {"create", "open", "pay", "ipn", "expire", "contract", "terminate"}
    PollLimit = 1
    MaxCode = 1
    MaxSettled = 1
    MaxCrash = 0
    NoRequest = NoRequest
    NoPayment = NoPayment
    NoOrder = NoOrder
SPECIFICATION Spec
SYMMETRY Symmetry
INVARIANTS
    AtMostOnePaid
PROPERTIES
    DepositsAward
CHECK_DEADLOCK FALSE
