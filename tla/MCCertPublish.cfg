SPECIFICATION Spec
CONSTANTS
    Run = {r1, r2}
    Command = {"init", "renew", "sign"}
    CA = {ca1, ca2}
    Stamp = {0}
    MaxTorn = 1
CHECK_DEADLOCK FALSE
SYMMETRY Symmetry
CONSTRAINT Bound
INVARIANTS
    PublishInv
    OrderlyMeansCoherent
PROPERTIES
    ImplementsPublication
    TrustAnchorPinned
