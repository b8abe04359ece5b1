SPECIFICATION FairSpec
CONSTANTS
    page1 = page1
    full = full
    picked = picked
    nothing = nothing
    para = para
    whole = whole
    Page = {page1}
    Selector = {full, picked, nothing}
    Section <- MCSection
    Content <- MCContent
    NoContent = "empty"
    Text <- MCText
    Markup <- MCMarkup
    NoMatch = NoMatch
    Doc <- MCDoc
    Day = {1}
    SpawnTx = {t1}
    DeleteTx = {}
    NoInstance = NoInstance
    Flow = {f1, f2}
    UserDoes = {"section", "toggle", "submit", "infos", "close"}
    FullPage = full
    NothingPicked = nothing
    Malformed = Malformed
    Pastes = {}
    Decoded <- MCDecoded
    NoId = NoId
    NotSent = NotSent
    Idle = Idle
INVARIANTS
    TypeOK
PROPERTIES
    OptionKept
    FlowsEnd
