SPECIFICATION Spec
CONSTANTS
    Account <- MCAccount
    Spelling <- MCSpelling
    Validity = 1
    RenewDays = 0
    Conf <- MCConf
    Option <- MCOption
    HostName <- MCHostName
    Addresses <- MCAddresses
    MaxCommands = 2
    MaxDay = 2
    MaxCaChanges = 1
    Limit <- MCLimit
    DefaultLimit <- MCDefaultLimit
    LimitEnv <- MCLimitEnv
    MaxStarts = 1
CHECK_DEADLOCK FALSE
INVARIANTS
    ServerInv
    SuccessServes
    RenewKeepsIdentity
    AnsweredRequestWorks
    NothingDueIsSpared
