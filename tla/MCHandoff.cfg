\* Expected to be violated: SucceededIsHandedOver.
SPECIFICATION FairSpec
CONSTANTS
    Executions = {e1, e2}
    Tables <- MCTables
    LocalArn = LocalArn
PROPERTIES
    SucceededIsHandedOver
