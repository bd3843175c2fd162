SPECIFICATION Spec
CONSTANTS
    Key <- MCKey
    InSET <- MCInSET
    Word <- MCWord
    IdWord <- MCIdWord
    MKSTREAM <- MCMkstream
    Hash <- MCHash
    NaN = NaN
    Registers = 8
    HashBits = 8
    B = 3
    IndexBits = 2
    IntBits = 2
    MaxWords = 2
    MaxSize = 2
INVARIANTS
    TypeOK
    SavedIsLoaded
    RegistersAreOfTheSet
    OnlySETChangesType
PROPERTIES
    RefusalsChangeNothing
