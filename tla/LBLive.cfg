SPECIFICATION FairSpec
CONSTANTS
    Addr = {a1}
    Conn = {c1, c2}
    MaxGen = 2
    ChanCap = 1
    CoopBudget = 1
PROPERTIES
    DrainTerminates
    RemovedListenerEnds
    QueueIsServed
    PublishedRuleIsTaken
