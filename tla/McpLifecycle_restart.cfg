SPECIFICATION FairSpec
CONSTANTS
    StartSecs = 10
    StartRetries = 3
    StopPause = 5
    PollEvery = 2
    Attempts = 8
    Mixes <- OnlyStops
PROPERTIES
    DeployStarts
