SPECIFICATION SyncSpec
\* Threads stop logging when there are no more events.
CHECK_DEADLOCK FALSE
CONSTANTS
    Thread = {t1, t2}
    Event = {e1, e2, e3}
    NoEvent = NoEvent
    NoEm = NoEm
    BatchSize = 1
    MaxFailures = 1
SYMMETRY Symmetry
INVARIANTS
    StoredOnce
    NothingLostWithoutFailure
