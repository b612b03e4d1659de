SPECIFICATION TSpec
CONSTANTS
    c1 = c1
    i1 = i1
    a1 = a1
    p1 = p1
    Poller = Poller
    None = None
    Calls = {c1}
    Manuals = {}
    Invs = {i1}
    Agvs = {a1}
    Cps = {p1}
    Handlers = {}
    Businesses = {"SEND_EMPTY_TO_WS", "FETCH_MATERIAL_TO_CP"}
    Requests = {}
    Env = {"lag", "silent", "unreachable", "lossy", "reset", "render"}
    IdlePolls = 2
    MaxSeg = 3
CHECK_DEADLOCK FALSE
INVARIANTS
    InventoryFollows
    StepsAgree
    DoneStepsWereDone
PROPERTIES
    ImplementsCallLife
