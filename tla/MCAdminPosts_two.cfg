\* Two requests of every kind, every form, over two published posts; their
\* slugs, rows and tags meet.
SPECIFICATION FairAdminSpec
CONSTANTS
    p1 = p1
    p2 = p2
    r1 = r1
    r2 = r2
    r3 = r3
    Existing = {p1, p2}
    Requests = {r1, r2}
    Texts <- MCTexts
    Slugify <- MCSlugify
    Forms <- AllForms
    SeedForm <- TwoSeeds
    NoForm = NoForm
    NoRow = NoRow
    MaxAttempts = 3
    MaxDate = 4
    Ops = {"create", "update", "publish", "unpublish", "delete"}
    MaxConnections = 2
INVARIANTS
    TypeOK
    WritesValidated
    SlugsUnique
    KeysReserved
    TagsMatchContent
PROPERTIES
    ImplementsStore
    EveryRequestAnswered
\* Every request may have been answered: the workload is finite.
CHECK_DEADLOCK FALSE
