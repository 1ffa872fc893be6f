SPECIFICATION Spec
CONSTANTS
    p1 = p1
    p2 = p2
    p3 = p3
    i1 = i1
    Sub = {p1, p2, p3, i1}
    Type = {"payment", "invoice"}
    TypeOf <- MCTypeOf
    Dispatcher = {bridge}
    Body = {"event"}
    ChanCap = 1
    MaxSubscribersGlobal = 3
    MaxSubscribersPerType = 2
    SlowSubscriberMaxDrops = 2
    MaxDispatches <- MCMaxDispatches
SYMMETRY Symmetry
CHECK_DEADLOCK FALSE
INVARIANTS
    IInv
PROPERTIES
    BoundedLoss
    EvictionJustified
