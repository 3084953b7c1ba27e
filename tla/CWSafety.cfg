SPECIFICATION FairSpec
CONSTANTS
    Tls = {t}
    Plain = {p}
    Identity = {1, 2}
    Absent = Absent
    Writers = {"racing", "torn", "early", "loss"}
    MaxWrites = 2
    MaxWatcher = 4
    ChanCap = 1
PROPERTIES
    HandlersFinish
    CalmReload
CHECK_DEADLOCK FALSE
INVARIANTS
    TypeOK
    NoOrphanWatcher
    WatcherMatchesConfig
