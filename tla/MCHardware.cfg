SPECIFICATION SidesSpec
CONSTANTS
    InitialHigh = FALSE
    Bindings <- MCBindings
    MaxGeneration = 5
    QueueCapacity = 1
    MaxCommands = 3
    local = local
    away = away
    file1 = file1
    file2 = file2
    Targets = {local, away}
    BootTarget = local
    Files = {file1, file2}
    BootFile = file1
    MaxExchange = 2
    MaxReload = 1
INVARIANTS
    ReleasedOutputsSafe
    SiteOwnerControlsPin
    RecordFollowsDsp
PROPERTIES
    UnkeyReaches
    EachClientChangesItsOwnPart
    ExchangesDrain
