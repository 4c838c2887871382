SPECIFICATION Spec
CONSTANTS
    Inputs <- MCInputs
    Jobs <- MCJobs
    Claims <- MCClaims
    Chunks = {1, 3, 64}
    MaxInput = 4
INVARIANTS
    ListAccounting
    NoValueTwice
    StreamAgreesWithSplit
    OneEncoding
    EncodedByTheRules
    
    ClaimsParsed
