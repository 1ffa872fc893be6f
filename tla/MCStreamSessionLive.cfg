SPECIFICATION FairSpec
CONSTANTS
    w = w
    i = i
    p = p
    c1 = c1
    c2 = c2
    Stream = {w, i}
    Kind <- MCKind
    Type = {"invoice"}
    TypeOf <- MCInvoices
    Client = {c1, c2}
    Owner <- MCOwner
    MaxGlobal = 2
    MaxPerClient = 2
    MaxSubscribersGlobal = 1
    MaxSubscribersPerType = 2
    SlowSubscriberMaxDrops = 1
    ChanCap = 1
    OutCap = 1
    BridgeCap = 1
    PreimageForm = {"text"}
    MaxNoise = 3
CHECK_DEADLOCK FALSE
PROPERTIES
    DisconnectReleases
    BridgeDrains
    EvictedStreamEnds
    PaidInvoiceIsReported
    PaidInvoiceIsKept
