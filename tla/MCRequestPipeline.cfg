SPECIFICATION FairSpec
CONSTANTS
    Request = {r1, r2, r3}
    Client = {c1}
    Path = {"Invoice", "InvoiceStream", "Unknown"}
    MaxBody = 1
    MaxFrame = 2
    PreauthLimit = 2
    PolicyLimit <- MCPolicyLimit
CHECK_DEADLOCK FALSE
INVARIANTS
    PipelineInv
    AskedWithinBudget
    OnlyAuthenticatedConsume
    EffectsWithinQuota
PROPERTIES
    RequestsAreDecided
