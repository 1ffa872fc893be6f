SPECIFICATION ReaderSpec
CONSTANTS
    w = w
    i = i
    p = p
    c1 = c1
    c2 = c2
    Stream = {p}
    Kind <- MCKind
    Type = {"payment", "invoice"}
    TypeOf <- MCTypeOf
    Client = {c1, c2}
    Owner <- MCOwner
    MaxGlobal = 2
    MaxPerClient = 2
    MaxSubscribersGlobal = 2
    MaxSubscribersPerType = 2
    SlowSubscriberMaxDrops = 1
    ChanCap = 1
    OutCap = 1
    BridgeCap = 1
    PreimageForm = {"bytes"}
    MaxNoise = 0
CHECK_DEADLOCK FALSE
PROPERTIES
    PaymentOutcomeIsReported
