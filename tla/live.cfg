SPECIFICATION FFairSpec
CONSTANTS
    c1 = c1
    i1 = i1
    a1 = a1
    p1 = p1
    o1 = o1
    Poller = Poller
    None = None
    Calls = {c1}
    Manuals = {}
    Invs = {i1}
    Agvs = {a1}
    Cps = {p1}
    Handlers = {}
    Admins = {o1}
    AdminKinds = {"update", "disable", "activate", "deactivate"}
    MaxAdmin = 1
    Businesses = {"SEND_EMPTY_TO_WS"}
    Requests = {}
    Env = {"unreachable"}
    IdlePolls = 2
    OfflinePolls = 2
    MaxSeg = 3
CHECK_DEADLOCK FALSE
INVARIANTS
    FTypeOK
PROPERTIES
    ActiveFreed
    CallsEndAnyway
