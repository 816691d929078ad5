\* Three requests of one browser, restarts and a change of a password.
SPECIFICATION Spec
CONSTANTS
    r1 = r1
    r2 = r2
    r3 = r3
    Requests = {r1, r2, r3}
    Admins = {"root", "other"}
    Strangers = {"guest"}
    Passwords = {"old", "new"}
    FirstPassword <- MCFirstPassword
    s1 = s1
    s2 = s2
    Secrets = {s1, s2}
    k1 = k1
    k2 = k2
    Derived <- MCDerived
    NoCookie = NoCookie
    NoRow = NoRow
    Keep = Keep
    Remove = Remove
    MaxRestarts = 2
    MaxRotations = 1
SYMMETRY Symmetry
INVARIANTS
    SessionsTypeOK
    SignedInByPassword
    LogoutSticks
PROPERTIES
    SecretDecides
\* The requests are bounded: in the end all of them may be over.
CHECK_DEADLOCK FALSE
