CONSTANTS
    Videos = {v1}
    AdHoc = {a1, a2}
    Names = {"clip", "clip ", " "}
    Strip <- MCStrip
SPECIFICATION Spec
INVARIANT EveryTerminalIsAnnounced
CHECK_DEADLOCK FALSE
