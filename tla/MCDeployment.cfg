SPECIFICATION Spec
CONSTANTS
    Jobs <- MCJobs
    Scenarios <- MCScenarios
    MaxStarts = 2
    Asset <- MCAsset
    Deployable <- MCDeployable
INVARIANTS
    CompletedMarketIsSound
    AdministratorsBelongToTheMarket
PROPERTIES
    EarlierContractsUntouched
    WiringIsPermanent
    WholeRunCompletes
    MarketsFollowLifecycle
CHECK_DEADLOCK FALSE
