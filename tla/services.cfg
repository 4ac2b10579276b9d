CONSTANTS
    Listing = {1, 2, 3}
    Price = {1, 2}
    Limit = 1
    MaxEdits = 2
    Handler = {1, 2}
    Visitor = {"v1", "v2"}
    Trial = 1
    Period = 1
    LastDay = 2
    MaxCrash = 1
    Visit = {"b1", "b2"}
    Property = {"p"}
    Tenant = {"t1", "t2"}
    Time = {1, 2, 3}
    Doc = {1, 2}
    User = {"a", "b"}
    Socket = {1, 2, 3}
    UserOf <- MCUserOf
    MaxRestart = 1
    Call = {1, 2}
    Caller = {"a", "b", "c"}
    Conversation = {{"a", "b"}, {"b", "c"}}
    Other <- MCOther
    Emoji = {"e1"}
    MaxMessages = 2
    Admins <- MCAdmins
    Reader = {1, 2}
    Event = {"property_created", "report_created"}
    FirstDay <- Calendar
    DueDays = {1, 15, 31}
    Starts = {1, 12, 27, 29}
    End = 80
    MaxMissed = 1
SPECIFICATION FairSpec
INVARIANTS
    EachListingOnce
    FavoriteCountMatches
    NoDoubleVisit
    VerifiedHasDocument
    ViewsAgree
    OneCallPerUser
    RowMatchesMessages
    ReadForAll
    ToldOnce
    OneBillPerMonth
    MonthBilled
    UnpaidEndsLease
PROPERTIES
    ExpiredComesDown
CHECK_DEADLOCK FALSE
