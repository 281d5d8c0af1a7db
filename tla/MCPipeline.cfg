CONSTANTS
    Videos = {v1, v2}
    AdHoc = {a1}
    Names = {"clip", "clip ", " "}
    Strip <- MCStrip
SPECIFICATION FairSpec
INVARIANTS TypeOK SoleOwner AtMostOneTerminalEvent NoSilentStranding ProcessedEventIsBacked UploadedIsBacked PlainNamesAreRead
PROPERTIES LifecycleSpec AcceptedIsSettled
CHECK_DEADLOCK FALSE
