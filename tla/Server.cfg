CONSTANTS
    Client = {p, q}
    Patient = {p}
    Char = {a}
    None = None
    MaxLen = 1
    MaxHasty = 1
    MaxLines = 2
    Workers = 2
SPECIFICATION FairSpec
INVARIANTS
    TypeOK
    PatientsAreSafe
PROPERTIES
    ImplementsTerminal
    PromptsCome
    ShutdownEnds
CHECK_DEADLOCK FALSE
