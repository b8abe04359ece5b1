SPECIFICATION FairSpec
CONSTANTS
    Address = {a1, a2}
    NoAddress = NoAddress
    Unparsable = Unparsable
    MaxRequest = 4
INVARIANTS
    TypeOK
    OwnAnswer
PROPERTIES
    Unlocks
