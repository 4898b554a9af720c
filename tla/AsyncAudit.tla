----------------------------- MODULE AsyncAudit -----------------------------
(***************************************************************************)
(* Asynchronous auditing to the database: the threads of the host service  *)
(* put events in a bounded queue, one daemon thread moves them to the      *)
(* DbAuditProvider, and a hook of the JVM drains the queue and stops the   *)
(* provider at shutdown.                                                   *)
(*                                                                         *)
(* queueEvent and each test of the queue run in one block synchronized on  *)
(* mQueue, so they are single actions; log() and flush() of the            *)
(* DbAuditProvider are not, and take the steps of that module.             *)
(***************************************************************************)
EXTENDS DbAuditProvider

CONSTANTS
    Consumer,          \* the thread that runs AsyncAuditProvider.run()
    MaxQueueSize,      \* mMaxQueueSize
    ResumeQueueSize,   \* mResumeQueueSize
    FlushInterval      \* mMaxFlushInterval > 0

ASSUME AsyncAssumption ==
    /\ Thread = {Consumer}
    /\ MaxQueueSize \in Nat \ {0}
    /\ ResumeQueueSize \in Nat
    /\ FlushInterval \in BOOLEAN

VARIABLES
    queue,         \* mQueue
    dropping,      \* mDropCount > 0
    mStopThread,
    runPc,         \* where the consumer is in run()
    hookPc,        \* where the JVM's shutdown hook is
    offered,       \* the events given to log()
    promised       \* the events accepted before the hook found the queue empty

asyncOnlyVars == <<queue, dropping, mStopThread, runPc, hookPc, offered, promised>>
asyncVars == <<dbVars, asyncOnlyVars>>

\* Every variable has its type; the consumer is in a call of its destination
\* only where run() makes one.
AsyncTypeOK ==
    /\ DbTypeOK
    /\ queue \in Seq(Event)
    /\ dropping \in BOOLEAN
    /\ mStopThread \in BOOLEAN
    /\ runPc \in {"new", "while", "dequeue", "call", "lastFlush", "lastCall", "ended"}
    /\ hookPc \in {"up", "wait", "stop", "join", "down"}
    /\ offered \subseteq Event
    /\ promised \subseteq offered
    /\ ~At(Consumer, "idle") => runPc \in {"call", "lastCall"}

AsyncInit ==
    /\ DbInit
    /\ queue = <<>>
    /\ dropping = FALSE
    /\ mStopThread = FALSE
    /\ runPc = "new"
    /\ hookPc = "up"
    /\ offered = {} /\ promised = {}

-----------------------------------------------------------------------------
(* queueEvent *)

\* The size under which an event is accepted; a queue that overflowed has to
\* shrink to ResumeQueueSize first (to 80% if that is no smaller than the
\* maximum).
Threshold ==
    IF ~dropping THEN MaxQueueSize
    ELSE 1 + IF ResumeQueueSize < MaxQueueSize
             THEN ResumeQueueSize
             ELSE (MaxQueueSize * 80) \div 100

\* Variant: the queue overflows by one before it drops.
QueueEventOff(e) ==
    /\ offered' = offered \cup {e}
    /\ IF Len(queue) <= Threshold
       THEN queue' = Append(queue, e) /\ dropping' = FALSE
       ELSE dropping' = TRUE /\ UNCHANGED queue
    /\ UNCHANGED <<dbVars, mStopThread, runPc, hookPc, promised>>

QueueEvent(e) ==
    /\ offered' = offered \cup {e}
    /\ IF Len(queue) < Threshold
       THEN queue' = Append(queue, e) /\ dropping' = FALSE
       ELSE dropping' = TRUE /\ UNCHANGED queue
    /\ UNCHANGED <<dbVars, mStopThread, runPc, hookPc, promised>>

\* The service logs an event, until the JVM is down.
LogEvent ==
    \E e \in Event \ offered : hookPc # "down" /\ QueueEvent(e)

-----------------------------------------------------------------------------
(* start() and run() *)

StartThread ==
    /\ runPc = "new"
    /\ runPc' = "while"
    /\ UNCHANGED <<dbVars, queue, dropping, mStopThread, hookPc, offered, promised>>

\* super.start() follows on the thread that called start().
StartDestination ==
    /\ runPc # "new"
    /\ Start
    /\ UNCHANGED asyncOnlyVars

\* while(!mStopThread): the flag is not volatile, but a dequeueEvent that finds
\* the queue empty reads it again under the lock.
While ==
    /\ runPc = "while"
    /\ runPc' = IF mStopThread THEN "lastFlush" ELSE "dequeue"
    /\ UNCHANGED <<dbVars, queue, dropping, mStopThread, hookPc, offered, promised>>

\* dequeueEvent returns an event: super.log() passes it on.
Dequeue ==
    /\ runPc = "dequeue"
    /\ queue # <<>>
    /\ BeginLog(Consumer, Head(queue))
    /\ queue' = Tail(queue)
    /\ runPc' = "call"
    /\ UNCHANGED <<dropping, mStopThread, hookPc, offered, promised>>

\* Variant: the wait of an empty queue ignores mStopThread.
NoEventToStop == FlushInterval /\ mUncommitted # {}

\* Variant: the wait of an empty queue never times out for a flush.
NoEventToFlush == mStopThread

\* When dequeueEvent gives up waiting: to stop, or to flush what is pending
\* when the flush interval has gone by.
NoEventReason == mStopThread \/ (FlushInterval /\ mUncommitted # {})

\* dequeueEvent returns null: flush().
DequeueNull ==
    /\ runPc = "dequeue"
    /\ queue = <<>>
    /\ NoEventReason
    /\ BeginFlush(Consumer)
    /\ runPc' = "call"
    /\ UNCHANGED <<queue, dropping, mStopThread, hookPc, offered, promised>>

\* Inside log() or flush() of the destination.
Call == DbStep(Consumer) /\ UNCHANGED asyncOnlyVars

\* Either returns; MultiDestAuditProvider swallows what they throw.
CallReturns ==
    /\ runPc \in {"call", "lastCall"}
    /\ At(Consumer, "idle")
    /\ runPc' = IF runPc = "call" THEN "while" ELSE "ended"
    /\ UNCHANGED <<dbVars, queue, dropping, mStopThread, hookPc, offered, promised>>

\* Variant: the loop ends without a last flush.
NoLastFlush ==
    /\ runPc = "lastFlush"
    /\ runPc' = "ended"
    /\ UNCHANGED <<dbVars, queue, dropping, mStopThread, hookPc, offered, promised>>

\* The flush after the loop.
LastFlush ==
    /\ runPc = "lastFlush"
    /\ BeginFlush(Consumer)
    /\ runPc' = "lastCall"
    /\ UNCHANGED <<queue, dropping, mStopThread, hookPc, offered, promised>>

-----------------------------------------------------------------------------
(* The JVM's shutdown hook: waitToComplete(), then stop(). *)

\* AuditProviderFactory.init registers the hook once start() has returned.
BeginShutdown ==
    /\ hookPc = "up" /\ started
    /\ hookPc' = "wait"
    /\ UNCHANGED <<dbVars, queue, dropping, mStopThread, runPc, offered, promised>>

\* The events in the hands of the provider, in order.
Waiting ==
    LET managed == IF em[Consumer] = NoEm THEN <<>> ELSE em[Consumer].managed
        inHand == IF dbPc[Consumer] \in {"connect", "init", "begin", "persist"}
                  THEN <<event[Consumer]>> ELSE <<>>
    IN managed \o inHand \o queue

WaitToComplete ==
    /\ hookPc = "wait"
    /\ queue = <<>>
    /\ hookPc' = "stop"
    /\ promised' = ToSet(Waiting) \cup Stored
    /\ UNCHANGED <<dbVars, queue, dropping, mStopThread, runPc, offered>>

Stop ==
    /\ hookPc = "stop"
    /\ mStopThread' = TRUE
    /\ hookPc' = "join"
    /\ UNCHANGED <<dbVars, queue, dropping, runPc, offered, promised>>

\* mThread.join(), then super.stop().
Join ==
    /\ hookPc = "join"
    /\ runPc = "ended"
    /\ CleanUp
    /\ hookPc' = "down"
    /\ UNCHANGED <<mUncommitted, db, dbPc, event, failures, started, early,
                   queue, dropping, mStopThread, runPc, offered, promised>>

-----------------------------------------------------------------------------
ConsumerNext ==
    \/ StartThread
    \/ StartDestination
    \/ While
    \/ Dequeue
    \/ DequeueNull
    \/ Call
    \/ CallReturns
    \/ LastFlush

HookNext == WaitToComplete \/ Stop \/ Join

AsyncNext ==
    \/ LogEvent
    \/ ConsumerNext
    \/ BeginShutdown
    \/ HookNext

AsyncSpec == AsyncInit /\ [][AsyncNext]_asyncVars

\* The JVM runs its threads: those of the provider and the shutdown hook.
FairAsyncSpec == AsyncSpec /\ WF_asyncVars(ConsumerNext) /\ WF_asyncVars(HookNext)

-----------------------------------------------------------------------------
(* Properties *)

\* What excuses the loss of an accepted event.
Troubled == failures > 0 \/ early

\* The queue never outgrows its maximum, also when it resumes after dropping.
QueueBounded == Len(queue) <= MaxQueueSize

\* With no trouble, what waitToComplete() waited for is in the database when
\* stop() returns: in the queue, in hand, or in a partial batch at that time.
ShutdownStoresPromised ==
    hookPc = "down" /\ ~Troubled => promised \subseteq Stored

\* Events are stored once, in the order of their acceptance, and none is lost
\* without trouble.
Trail == INSTANCE AuditTrail WITH
    waiting <- Waiting, stored <- db, troubled <- Troubled
ImplementsTrail == Trail!TrailSpec

\* With a flush interval every accepted event is stored before long, also in a
\* batch that never fills up, unless the database fails or the JVM stops.
EventuallyStored ==
    \A e \in Event :
        e \in ToSet(Waiting) ~> e \in Stored \/ Troubled \/ hookPc # "up"

\* The shutdown hook is not kept waiting: neither for the queue nor for the
\* consumer, which may itself be waiting for an event.
ShutdownCompletes == (hookPc = "wait") ~> (hookPc = "down")
=============================================================================
