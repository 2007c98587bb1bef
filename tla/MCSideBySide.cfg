SPECIFICATION SidesSpec
CONSTANTS
    FrameUnits = 2
    StatusCapacity = 1
    Capacity = 1
    EchoFrames = 1
    DeliveryBudgets <- MCDeliveryBudgets
    c1 = c1
    c2 = c2
    radio1 = radio1
    LinkChannels = {c1, c2}
    Eligible = {c1}
    HookIds = {1, 2}
    Profiles = {radio1}
    Descriptions = {1, 2}
    Rates = {8, 16}
    NoProfile = NoProfile
    NoChannel = NoChannel
    LinkBudgets <- MCLinkBudgets
    Tones = {1, 2}
    MixerCount = 2
    Levels = {0, 1, 2}
    LowestGain = 1
    DefaultGain = 1
    Unset = Unset
    Blank = Blank
    Nil = Nil
    Requests <- MCRequests
    NativeBudgets <- MCNativeBudgets
INVARIANTS
    StatusesAccounted
    ControlsAgree
    NoPanic
    LinkLifetimes
    LinksFollowReload
    TransmitterObeys
    ToneNoticeKept
    UpdatesAreAtomic
CHECK_DEADLOCK FALSE
