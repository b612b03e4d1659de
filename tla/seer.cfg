SPECIFICATION Spec
CONSTANTS
    r1 = r1
    r2 = r2
    Nobody = Nobody
    Requests = {r1, r2}
    Numbers = 2
    Lengths = {0, 4}
    MaxDraws = 4
    MaxConns = 2
    MaxNoisy = 1
    Faults = {"peer", "refuse", "full", "noise", "cancel", "drop"}
SYMMETRY Symmetry
CHECK_DEADLOCK FALSE
INVARIANTS
    STypeOK
    Served
    AnswerIsOwn
    LocksMove
    WrittenOnce
    OneConnection
    PacketsIntact
