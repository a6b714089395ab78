SPECIFICATION FairSpec
CONSTANTS
    Connectors = {1, 2}
    Blocks = 2
    AttemptLimit = 2
    GrantLimit = 2
    RetryLimit = 2
    MaxCampaigns = 2
    MaxDeployments = 3
    Wrap = 4
    Plans <- OneReset
PROPERTY ReturnRecorded
CHECK_DEADLOCK FALSE
