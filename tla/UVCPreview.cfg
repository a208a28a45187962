SPECIFICATION Spec
CONSTANTS
    Frames = {f1, f2, f3, f4}
    NULL = NULL
    MAX_FRAME = 2
    FRAME_POOL_SZ = 2
    Formats = {"MJPEG", "NV21"}
    UiOps = {"picture", "movie"}
    MaxStarts = 2
    MaxUndecodable = 1
SYMMETRY FrameSymmetry
CHECK_DEADLOCK FALSE
INVARIANTS TypeOK FrameOwnership SlotsFilled QueueBounds LeakBound QuietAfterStop
