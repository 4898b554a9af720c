SPECIFICATION FairAsyncSpec
\* The service stops logging when there are no more events, and the JVM stops.
CHECK_DEADLOCK FALSE
CONSTANTS
    Consumer = consumer
    Thread = {consumer}
    Event = {e1, e2, e3, e4}
    NoEvent = NoEvent
    NoEm = NoEm
    BatchSize = 2
    MaxFailures = 1
    MaxQueueSize = 2
    ResumeQueueSize = 2
    FlushInterval = TRUE
INVARIANTS
    AsyncTypeOK
    QueueBounded
    ShutdownStoresPromised
PROPERTIES
    ImplementsTrail
    EventuallyStored
    ShutdownCompletes
