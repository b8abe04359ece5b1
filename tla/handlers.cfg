SPECIFICATION Spec
CONSTANTS
    x1 = x1
    x2 = x2
    s1 = s1
    s2 = s2
    Roster = {r1}
    Chain = {x1, x2}
    Signer = {s1, s2}
    Rule = {spawn}
    Owner <- MCOwner
    Flow = {f1, f2}
    MaxVersion = 2
    None = None
    Idle = Idle
SYMMETRY MCFlows
INVARIANTS
    TypeOK
    LoadedInOrder
    LoaderStops
    RulesWhereAsked
PROPERTIES
    RulesKept
