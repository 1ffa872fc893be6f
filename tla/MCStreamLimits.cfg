SPECIFICATION FairSpec
CONSTANTS
    s1 = s1
    s2 = s2
    s3 = s3
    s4 = s4
    c1 = c1
    c2 = c2
    NoSem = NoSem
    Stream = {s1, s2, s3, s4}
    Client = {c1, c2}
    Sem = {x1, x2, x3}
    Owner <- MCOwner
    MaxGlobal = 3
    MaxPerClient = 2
INVARIANTS
    IInv
PROPERTIES
    ImplementsBudget
    IdleClientsForgotten
