SPECIFICATION FairSpec
CONSTANTS
    a = a  b = b  no = no  bad = bad
    m1 = m1  m2 = m2
    Events <- EventsAndNo
    IdOf <- IdOfAll
    TimeOf <- AllAtZero
    PartitionOf <- TwoPartitions
    Contract <- ContractAndNo
    Unstorable <- JustNo
    Handlers = {h1}
    Engines = {m1, m2}
    Partitions = {p1, p2}
    MaxFuture = 1
    MaxAge = 1
    EngineLag <- NoLag
    MaxBatchEvents = 2
    MaxPollRecords = 2
    MaxAttempts = 2
    MaxLog = 2
    MaxClock = 0
    MaxFaults = 1
PROPERTIES
    AcceptedIsStored
    PartitionsDrain
