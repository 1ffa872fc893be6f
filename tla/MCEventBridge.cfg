SPECIFICATION FairSpec
CONSTANTS
    Task <- MCTask
    Stream <- MCStream
    StreamsOf <- MCStreamsOf
    QueueCap = 1
    Request = {r1}
    MaxNotes = 3
CHECK_DEADLOCK FALSE
INVARIANTS
    BridgeInv
PROPERTIES
    ImplementsFlow
    OthersKeepFlowing
    BlockedTasksReleased
    SignalStopsServer
