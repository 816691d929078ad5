\* Every short text, slugified from a title and again from the edit form.
SPECIFICATION Spec
CONSTANTS
    Letters <- MCLetters
    Hyphen = "-"
    Ascii <- MCAscii
    Lower <- MCLower
    Numbers <- MCNumbers
    Pending = Pending
    Texts <- MCTexts
INVARIANTS
    SlugTypeOK
    NeverInvalidFormat
    SavedSlugStays
PROPERTIES
    ImplementsPromise
\* The post is edited once.
CHECK_DEADLOCK FALSE
