SPECIFICATION Spec
CONSTANTS
    page1 = page1
    full = full
    picked = picked
    nothing = nothing
    para = para
    whole = whole
    Page = {page1}
    Selector = {full, picked, nothing}
    Section <- MCSection
    Content <- MCContent
    NoContent = "empty"
    Text <- MCText
    Markup <- MCMarkup
    NoMatch = NoMatch
    Doc <- MCDoc
    Day = {1}
    SpawnTx = {t1, t2}
    DeleteTx = {d1}
    NoInstance = NoInstance
    Flow = {f1, f2}
    UserDoes = {"full", "download", "submit"}
    FullPage = full
    NothingPicked = nothing
    Malformed = Malformed
    Pastes <- MCForged
    Decoded <- MCDecoded
    NoId = NoId
    NotSent = NotSent
    Idle = Idle
INVARIANTS
    HandlerReady
    IdleLooksIdle
    ShownIdAttested
    DownloadsVerify
    TickMeansServed
    OneVerdict
SYMMETRY MCFlows
