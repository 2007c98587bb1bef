SPECIFICATION SidesSpec
CONSTANTS
    a = a
    b = b
    N = 2
    Settings = {a, b}
    BootSetting = a
    Adoptable <- MCAdoptable
    c1 = c1
    Channels = {c1}
    NoIntent = NoIntent
    MaxRequests = 2
    MaxIndications = 3
    MaxReloads = 1
    MaxCli = 1
INVARIANTS
    ReloadSettled
    AbandonedWorkUnused
    LifetimesNest
    LatestIntentWins
PROPERTIES
    CommitNeedsEveryChannel
    ReloadProgress
    ChannelProgress
