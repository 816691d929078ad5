\* Three saves that lock the same two tags in opposite orders, two connections.
SPECIFICATION FairAdminSpec
CONSTANTS
    p1 = p1
    p2 = p2
    r1 = r1
    r2 = r2
    r3 = r3
    Existing = {p1}
    Requests = {r1, r2, r3}
    Texts <- MCTexts
    Slugify <- MCSlugify
    Forms <- CrossedForms
    SeedForm <- OneSeed
    NoForm = NoForm
    NoRow = NoRow
    MaxAttempts = 2
    MaxDate = 4
    Ops = {"create"}
    MaxConnections = 2
PROPERTIES
    EveryRequestAnswered
\* Every request may have been answered: the workload is finite.
CHECK_DEADLOCK FALSE
