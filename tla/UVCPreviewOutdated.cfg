SPECIFICATION Spec
CONSTANTS
    Frames = {f1, f2, f3}
    NULL = NULL
    MAX_FRAME = 1
    FRAME_POOL_SZ = 2
    Formats = {"YUY2"}
    UiOps = {"picture"}
    MaxStarts = 1
    MaxUndecodable = 0
CHECK_DEADLOCK FALSE
INVARIANT NoOutdatedDelivered
