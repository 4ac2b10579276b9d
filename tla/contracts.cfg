CONSTANTS
    Contract = {c1, c2}
    Renewal = {}
    Adjustment = {}
    AutoRenewal = {}
    LongTerm = {}
    MaxAutoRenew = 0
    Slot = {a1, a2}
    MaxAppendix = 0
    MaxCrash = 0
    Handlers = {"create", "update", "send", "tenantSign", "ownerSign", "activate", "updateExpires", "sign", "poll"}
    Original = {c1}
    Digital = {c2}
    None = None
SPECIFICATION LifeSpec
SYMMETRY SlotSymmetry
INVARIANTS
    TenantSignedFirst
    SupersededBySigned
    OneWorkerPerSignature
CHECK_DEADLOCK FALSE
