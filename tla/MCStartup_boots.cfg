\* Two processes boot at once, are cut off anywhere and started again.
SPECIFICATION FairSpec
CONSTANTS
    a = a
    b = b
    Procs = {a, b}
    Values <- MCValues
    Missing = Missing
    Blank = ""
    Trim <- MCTrim
    Addrs = {"host1", "host2"}
    Urls = {"https"}
    Sizes = {"20"}
    Long = {"secret"}
    DefaultAddr = "host2"
    Envs <- AllEnvs
    NoEnv = NoEnv
    Nobody = Nobody
    MaxStarts = 4
INVARIANTS
    TypeOK
    MigratedOnce
    ServingReady
    LateBootsSeedNothing
PROPERTIES
    CredentialsKept
    BootEnds
\* The starts are bounded: in the end every process may have stopped.
CHECK_DEADLOCK FALSE
