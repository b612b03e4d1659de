SPECIFICATION Spec
CONSTANTS
    c1 = c1
    c2 = c2
    m1 = m1
    h1 = h1
    h2 = h2
    i1 = i1
    i2 = i2
    a1 = a1
    a2 = a2
    p1 = p1
    p2 = p2
    Poller = Poller
    None = None
    Calls = {c1}
    Manuals = {m1}
    Invs = {i1}
    Agvs = {a1}
    Cps = {p1}
    Handlers = {h1}
    Businesses = {"SEND_EMPTY_TO_WS"}
    Requests = {"cancel"}
    Env = {"fault", "forget", "lag", "reset", "unreachable"}
    IdlePolls = 2
    MaxSeg = 3
SYMMETRY Symmetry
CHECK_DEADLOCK FALSE
INVARIANTS
    NoOrphanCp
    NoOrphanAgv
