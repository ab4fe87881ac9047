CONSTANTS
    Kinds <- AllKinds
    Thread = {t1, t2, t3}
    NoThread = NoThread
    Nobody = Nobody
    User = User
    MaxLevels = 2
    Packet <- SmallPackets
    Levels = {1, 3}
    StartPrice = 6
    MaxDrift = 2
    MaxRemoves = 1
SPECIFICATION FairMarketSpec
INVARIANTS
    BookSound
    CrossedAtMostTick
    WholeRoundsAtRest
    EveryThreadHeld
    QuietAfterStop
    DescriptorsClosed
PROPERTIES
    DepthDropsWorst
    InjectorStops
    RestartSafe
    StopReturnsUnlessSilent
CHECK_DEADLOCK FALSE
