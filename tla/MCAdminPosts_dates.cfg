\* Three requests on the status and the life of one draft.
SPECIFICATION AdminSpec
CONSTANTS
    p1 = p1
    p2 = p2
    r1 = r1
    r2 = r2
    r3 = r3
    Existing = {p1}
    Requests = {r1, r2, r3}
    Texts <- MCTexts
    Slugify <- MCSlugify
    Forms <- DateForms
    SeedForm <- DraftSeed
    NoForm = NoForm
    NoRow = NoRow
    MaxAttempts = 2
    MaxDate = 4
    Ops = {"create", "update", "publish", "unpublish", "delete"}
    MaxConnections = 2
SYMMETRY Symmetry
INVARIANTS
    PublishedIffDated
    RowsPinned
    DeleteIsFinal
    AckedCreateDurable
PROPERTIES
    RedatedOnlyByStale
\* Every request may have been answered: the workload is finite.
CHECK_DEADLOCK FALSE
