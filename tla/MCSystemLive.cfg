CONSTANTS
    Videos = {v1}
    AdHoc = {}
    Names = {"clip"}
    Strip <- MCStrip
    Consumers = {c1}
    Untitled = {}
    StaleReads = FALSE
SPECIFICATION MCQuietSpec
PROPERTIES UploadIsServed
CHECK_DEADLOCK FALSE
