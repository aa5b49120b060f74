SPECIFICATION FairSpec
CONSTANTS
    Hooks = {"RetransmitHandshake"}
    SequencedHooks = {"RetransmitHandshake"}
    Lanes = {"tx", "ipc", "timer"}
    TimerLane = "timer"
    CommandLane = "ipc"
    ArmLanes <- MCArmLanes
    NoHook = NoHook
    NoLane = NoLane
    MaxGeneration = 2
    MaxActivation = 2
    MaxSequence = 1
    HookOrder <- MCOneHookOrder
CHECK_DEADLOCK FALSE
INVARIANTS
    ArmedTimerNotLost
    ExpiryCapturesOwnArm
PROPERTIES
    CancelKeepsNewer
    ArmedTimerResolves
