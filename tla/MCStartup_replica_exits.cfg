\* Two first boots of replicas with the same credentials.
SPECIFICATION Spec
CONSTANTS
    a = a
    b = b
    Procs = {a, b}
    Values <- MCValues
    Missing = Missing
    Blank = ""
    Trim <- MCTrim
    Addrs = {"host1", "host2"}
    Urls = {"https"}
    Sizes = {"20"}
    Long = {"secret"}
    DefaultAddr = "host2"
    Envs <- Replicas
    NoEnv = NoEnv
    Nobody = Nobody
    MaxStarts = 2
PROPERTIES
    SeedingLetsBootContinue
\* The starts are bounded: in the end every process may have stopped.
CHECK_DEADLOCK FALSE
