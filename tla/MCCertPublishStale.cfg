SPECIFICATION Spec
CONSTANTS
    Run = {r1, r2}
    Command = {"renew"}
    CA = {ca1, ca2}
    Stamp = {0}
    MaxTorn = 0
CHECK_DEADLOCK FALSE
INVARIANTS
    QuietMeansCoherent
