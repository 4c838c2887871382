SPECIFICATION Spec
CONSTANTS
    Clients = {c1, c2}
    Flags = {f1, f2}
    MaxOps = 2
    MaxTxs = 2
SYMMETRY Symmetry
INVARIANTS
    OrderIdMatches
    PipelineAccepted
    ExplicitRetryOnce
PROPERTIES
    FreshAddKeepsFlags
