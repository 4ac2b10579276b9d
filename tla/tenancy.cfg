CONSTANTS
    Contract = {c1}
    Renewal = {r1}
    Adjustment = {}
    AutoRenewal = {}
    LongTerm = {}
    MaxAutoRenew = 1
    Slot = {a1}
    MaxAppendix = 2
    MaxCrash = 1
    Original = {c1}
    Digital = {}
    Handlers = {"create", "edit", "cancel", "activate", "send", "tenantSign", "ownerSign", "requestRenewal", "reviewRenewal", "requestTermination", "reviewTermination", "escalate", "admin", "resolve", "report", "resolveReport", "autoTerminate"}
    None = None
    MaxRequest = 2
    MaxReport = 1
    Clerk = {k1}
    Amount = 2
    Fees = {0, 1}
    Returns = {0, 1, 3}
    Reasons = {"unilateral_termination"}
    MaxDebt = 1
SPECIFICATION Spec
INVARIANTS
    DisputeHasReport
    OneOpenRequest
    BooksBalance
    PayoutsCaused
CHECK_DEADLOCK FALSE
