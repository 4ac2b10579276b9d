CONSTANTS
    Contract = {c1, c2, c3}
    Renewal = {n1}
    Adjustment = {d1}
    AutoRenewal = {c1, c2}
    LongTerm = {c1}
    MaxAutoRenew = 1
    Slot = {a1}
    MaxAppendix = 2
    MaxCrash = 1
    Original = {c1, c2}
    Digital = {}
    Handlers = {"create", "edit", "cancel", "send", "tenantSign", "ownerSign", "near", "autoRenew", "requestRenewal", "reviewRenewal", "createAdjustment", "reviewAdjustment"}
    None = None
SPECIFICATION FairLifeSpec
INVARIANTS
    ExtensionsOnRecord
PROPERTIES
    LeaseRenews
CHECK_DEADLOCK FALSE
