SPECIFICATION Spec
CONSTANTS
    Addr = {a1}
    Conn = {c1, c2}
    MaxGen = 3
    ChanCap = 2
    CoopBudget = 1
SYMMETRY ConnSymmetry
INVARIANTS
    TypeOK
    ListenersMirrorConfig
    StopsOnlyWhenRemoved
    ServedWithCurrentRule
PROPERTIES
    LeavesWithNoTask
    ReloadKeepsRunner
    KeepsPromise
