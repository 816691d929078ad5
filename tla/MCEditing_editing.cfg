\* Three requests with their pages around one published post.
SPECIFICATION EditSpec
CONSTANTS
    p1 = p1
    p2 = p2
    r1 = r1
    r2 = r2
    r3 = r3
    Existing = {p1}
    Requests = {r1, r2, r3}
    Texts <- MCTexts
    Slugify <- MCSlugify
    Forms <- MCForms
    SeedForm <- MCSeed
    NoForm = NoForm
    NoRow = NoRow
    MaxAttempts = 2
    MaxDate = 4
    Ops = {"create", "update", "publish", "unpublish", "delete"}
    MaxConnections = 2
    Typed <- MCTyped
    SlugText <- MCSlugText
    ByName <- MCByName
SYMMETRY Symmetry
INVARIANTS
    EditTypeOK
PROPERTIES
    OnlyEditsChange
    RetryChangesNothing
    PublishedKnowingly
\* Every request may have been answered: the workload is finite.
CHECK_DEADLOCK FALSE
