SPECIFICATION SidesSpec
CONSTANTS
    SlotCount = 3
    MaxPush = 6
    boot = boot
    a = a
    Plans = {boot, a}
    BootPlan = boot
    MaxUpdate = 3
    MaxTokens = 2
    ProcessingPlans <- MCProcessing
    BootProcessing <- MCBoot
    Prime = 2
    Fade = 2
    FrameUnits = 2
    MaxBlock = 2
    MaxChanges = 2
INVARIANTS
    NoSlotRace
    EveryValueAccounted
    BorrowsSettle
    SoundContinues
PROPERTIES
    ImplementsNewestQueue
    EventuallyDrained
    ImplementsUpdateTransaction
    UpdatesResolve
