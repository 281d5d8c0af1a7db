CONSTANTS
    Videos = {v1}
    AdHoc = {a1, a2}
    Names = {"clip", "clip ", " "}
    Strip <- MCStrip
SPECIFICATION Spec
INVARIANT StartedExecutionCanRead
CHECK_DEADLOCK FALSE
