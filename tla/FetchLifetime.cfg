CONSTANTS
    r1 = r1
    r2 = r2
    f1 = f1
    f2 = f2
    Requests = {r1, r2}
    Fetches = {f1, f2}
    Null = Null
    TasksBound = 2
    CallsBound = 3
SPECIFICATION Spec
CHECK_DEADLOCK FALSE
SYMMETRY Interchangeable
INVARIANTS
    EndedOnce
    NothingDangles
