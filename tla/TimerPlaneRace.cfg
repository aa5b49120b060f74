SPECIFICATION FairSpec
CONSTANTS
    Hooks = {"PersistentKeepalive"}
    SequencedHooks = {}
    Lanes = {"tx", "rx", "timer"}
    TimerLane = "timer"
    CommandLane = "rx"
    ArmLanes <- MCArmLanes
    NoHook = NoHook
    NoLane = NoLane
    MaxGeneration = 2
    MaxActivation = 1
    MaxSequence = 1
    HookOrder <- MCPersistentOrder
CHECK_DEADLOCK FALSE
PROPERTIES
    NewerScheduleKept
