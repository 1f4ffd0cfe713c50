\* Two calls over one and two repositories, with one slot and room for one result each.
SPECIFICATION FairSpec
CONSTANTS
    Call = {1, 2}
    Pages <- TwoPages
    Wanted <- Filters
    Slots = 1
    Buffer = 1
    TTL = 1
    MaxTime = 1
INVARIANTS
    RemoteTypeOK
    ListIsComplete
PROPERTIES
    CachedTagsAreFresh
    CallEnds
\* Calls that have returned leave nothing to do.
CHECK_DEADLOCK FALSE
