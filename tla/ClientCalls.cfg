SPECIFICATION Spec
CONSTANTS
    AmountBits = 4
    Denoms = {1, 2, 3, 4}
    MaxTotalSupply = 7
    Keys <- MCKeys
    GatewayKey <- MCGatewayKey
    Accounts <- MCAccounts
    Networks = {"test", "prod"}
    HomeNetwork = "test"
    Calls <- MCCalls
    Repeated <- MCRepeated
    Queries <- MCQueries
    Replies <- MCReplies
    MaxTxs = 2
INVARIANTS
    SignedForItself
    ResultTellsFate
    NextSequenceFits
    SendConserves
    ProperSendAccepted
    
    
    AnswerFitsQuestion
