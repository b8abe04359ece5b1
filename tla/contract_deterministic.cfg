SPECIFICATION Spec
CONSTANTS
    n1 = n1
    n2 = n2
    f = f
    page = page
    selector = selector
    para1 = para1
    para2 = para2
    Page = {page}
    Selector = {selector}
    Section <- MCSection
    Content <- MCContent
    NoContent = "empty"
    Text <- MCText
    Markup <- MCMarkup
    NoMatch = NoMatch
    Doc <- MCStaticDoc
    Day = {1, 2}
    SpawnTx = {s1}
    DeleteTx = {}
    NoInstance = NoInstance
    Correct = {n1, n2}
    Faulty = {f}
    Quorum <- MCQuorum
    Arbitrary <- MCArbitrary
    NotSent = NotSent
    BadArgs = BadArgs
    Unreachable = Unreachable
    Hanging = Hanging
    Unfetched = Unfetched
    Pending = Pending
    Refused = Refused
    Removed = Removed
    NoBlock = NoBlock
INVARIANTS
    SameOutcome
