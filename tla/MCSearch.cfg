CONSTANTS
    Videos = {v1, v2}
    Ghosts = {g1}
    Untitled = {v2}
    Foreign <- MCForeign
    Consumers = {c1}
    StaleReads = FALSE
SPECIFICATION FairSpec
INVARIANTS TypeOK IndexedIsProcessed RebuildIsComplete
PROPERTIES RemovedStaysGone EventIndexed StoreSpec
