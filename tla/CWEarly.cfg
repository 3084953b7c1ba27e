SPECIFICATION FairSpec
CONSTANTS
    Tls = {t}
    Plain = {}
    Identity = {1, 2}
    Absent = Absent
    Writers = {"early"}
    MaxWrites = 1
    MaxWatcher = 3
    ChanCap = 10
CHECK_DEADLOCK FALSE
PROPERTIES
    AutoReload
