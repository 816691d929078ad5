\* A feed limited to no posts.
SPECIFICATION PagesSpec
CONSTANTS
    p1 = p1
    p2 = p2
    p3 = p3
    p4 = p4
    r1 = r1
    Existing = {p1, p2, p3, p4}
    Requests = {r1}
    Texts <- MCTexts
    Slugify <- MCSlugify
    Forms <- MCForms
    SeedForm <- MCSeed
    NoForm = NoForm
    NoRow = NoRow
    MaxAttempts = 1
    MaxDate = 2
    PageSize = 4
    MaxInt = 15
    TypedPages <- MCTypedPages
    RssLimit = 0
    Born <- MCBorn
    MaxChanges = 1
INVARIANTS
    FeedWithinLimit
