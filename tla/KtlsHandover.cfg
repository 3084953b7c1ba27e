CONSTANTS
    HeaderLen = 5
    MaxLen = 2
    MaxRecords = 4
    Layouts <- Streams
    Suites <- SomeSuites
    Kernel <- SomeKernel
SPECIFICATION FairSpec
INVARIANTS
    TypeOK
    KernelInSync
    UpstreamIsComplete
    DrainFits
    ProbeForetells
PROPERTIES
    DrainFinishes
CHECK_DEADLOCK FALSE
