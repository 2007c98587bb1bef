SPECIFICATION ExchangeSpec
CONSTANTS
    Targets = {local, away}
    BootTarget = local
    Files = {file1, file2}
    BootFile = file1
    MaxExchange = 2
    MaxReload = 1
PROPERTIES
    AppliedMeansInForce
CHECK_DEADLOCK FALSE
