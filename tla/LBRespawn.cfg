SPECIFICATION Spec
CONSTANTS
    Addr = {a1}
    Conn = {c1, c2}
    MaxGen = 2
    ChanCap = 10
    CoopBudget = 1
PROPERTY
    AbsentTaskIsSpawned
