SPECIFICATION RFairSpec
CONSTANTS
    c1 = c1
    m1 = m1
    h1 = h1
    i1 = i1
    a1 = a1
    p1 = p1
    Poller = Poller
    None = None
    Calls = {c1}
    Manuals = {}
    Invs = {i1}
    Agvs = {a1}
    Cps = {p1}
    Handlers = {h1}
    Businesses = {"SEND_EMPTY_TO_WS"}
    Requests = {"cancel"}
    Env = {"fault", "forget", "lossy", "unreachable"}
    IdlePolls = 2
    MaxSeg = 3
    MaxRestarts = 2
CHECK_DEADLOCK FALSE
INVARIANTS
    RTypeOK
    OnlyCutTasksLeaveBehind
    SecondPutDownOnlyIfCut
PROPERTIES
    CallsSurvive
