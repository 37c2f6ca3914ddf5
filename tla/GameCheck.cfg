SPECIFICATION Spec
CONSTANTS
    Launches = {l1, l2}
    NoLaunch = NoLaunch
    Folders = {saves}
    Peers = {hub, peer}
    AckMS = 5
    ReplyMargin = 1
    StatusBudget = 4
    ProbeBudget = 3
    RetryDelay = 1
    MaxDrops = 1
    MaxWire = 3
CHECK_DEADLOCK FALSE
INVARIANTS CheckInv GameStateConverges StopOnlyWhenCurrent FirstReplyLeavesMargin
PROPERTY LaunchGetsVerdict
