CONSTANTS
    Videos = {v1}
    Ghosts = {g1}
    Foreign <- MCForeign
    Consumers = {c1, c2}
    StaleReads = FALSE
SPECIFICATION FairSpec
INVARIANTS TypeOK EntriesAreBacked AnswerIsTrue
PROPERTIES AppendOnly EventRecorded RemovedStaysGone StoreSpec
