CONSTANTS
    Videos = {v1}
    AdHoc = {}
    Names = {"clip"}
    Strip <- MCStrip
    Consumers = {c1}
    Untitled = {}
    StaleReads = FALSE
SPECIFICATION SystemSpec
INVARIANTS NothingLost HitsAreServable
PROPERTIES HistorySpec SearchSpec
CONSTRAINT MCApart
CHECK_DEADLOCK FALSE
