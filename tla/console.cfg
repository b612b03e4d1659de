SPECIFICATION CSpec
CONSTANTS
    w1 = w1
    w2 = w2
    cp1 = cp1
    t1 = t1
    t2 = t2
    k1 = k1
    a1 = a1
    None = None
    Ended = Ended
    NoMap = NoMap
    Places = {w1, w2}
    CallPoints = {cp1}
    Pallets = {t1, t2}
    Parts = {k1}
    Vehicles = {a1}
    Priority <- Rank
    Lists <- PalletLists
    KindLists <- ServedLists
    Slots = {s1, s2}
    Calls = {c1, c2}
    NewThings = {w2, t2}
    Tables <- SetUp
    Maps = {m1, m2}
    MapSlots = {q1, q2}
    Users = {u1, u2}
    Editors = {e1, e2}
    MaxHandles = 2
    MaxEdits = 1
    MaxArrivals = 3
SYMMETRY Symmetry
CHECK_DEADLOCK FALSE
INVARIANTS
    WTypeOK
    StockMissingOnlyIfBroken
    StockConsistent
    LocksMatchCalls
    FullReplacement
    WInv
    MTypeOK
    ListedHasFile
    TwoActiveOnlyIfRaced
    NoneActiveOnlyIfLost
    PTypeOK
    OldAddressOnlyIfLate
    OpenOutsidePoolOnlyIfHeld
