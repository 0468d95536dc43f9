SPECIFICATION Spec
CONSTANTS
    a = a  b = b  no = no  bad = bad
    m1 = m1  m2 = m2
    Events <- MCEvents
    IdOf <- MCIdOf
    TimeOf <- MCTimeOf
    PartitionOf <- OnePartition
    Contract <- MCContract
    Unstorable <- JustB
    Handlers = {h1}
    Engines = {m1, m2}
    Partitions = {p1}
    MaxFuture = 1
    MaxAge = 1
    EngineLag <- NoLag
    MaxBatchEvents = 2
    MaxPollRecords = 2
    MaxAttempts = 2
    MaxLog = 3
    MaxClock = 2
    MaxFaults = 2
SYMMETRY MemberSymmetry
INVARIANTS
    CommittedIsDurable
    AcceptedIsDeliverable
PROPERTIES
    OffsetsNeverMoveBack
    ImplementsStream
