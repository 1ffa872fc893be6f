SPECIFICATION Spec
CONSTANTS
    User <- MCUser
    Group <- MCGroup
    Perm <- MCPerm
    Root = "root"
    Service = "gcob"
    Call <- MCCall
    InitNode <- MCInitNode
    KeyFile <- MCKeyFile
    MaxSwaps = 1
CHECK_DEADLOCK FALSE
INVARIANTS
    EnsuredIsSecure
    RetryAccepted
    PreparedIsAccepted
    ReadIsTrusted
PROPERTIES
    NamedUsersKeepAccess
