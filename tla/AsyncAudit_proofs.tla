------------------------- MODULE AsyncAudit_proofs -------------------------
(***************************************************************************)
(* Asynchronous auditing, for any sizes of queue and batch, any failures   *)
(* and a shutdown at any time: the bound of the queue, the types, what the *)
(* shutdown stores, and that AuditTrail is implemented.                    *)
(***************************************************************************)
EXTENDS AsyncAudit, DbAuditProvider_proofs

QueueIInv ==
    /\ queue \in Seq(Event)
    /\ dropping \in BOOLEAN
    /\ QueueBounded

\* An event is accepted below the maximum, also at the size of resumption,
\* which is a percentage of the maximum where it is not smaller than that.
LEMMA ThresholdBounded ==
  ASSUME dropping \in BOOLEAN PROVE Threshold \in Nat /\ Threshold <= MaxQueueSize
<1> USE AsyncAssumption
<1>1. (MaxQueueSize * 80) \div 100 \in Nat /\ 1 + (MaxQueueSize * 80) \div 100 <= MaxQueueSize
  OBVIOUS
<1> QED
  BY <1>1 DEF Threshold

\* Only queueEvent makes the queue longer.
LEMMA LogEventBounded == QueueIInv /\ LogEvent => QueueIInv'
<1> SUFFICES ASSUME QueueIInv, LogEvent PROVE QueueIInv'
  OBVIOUS
<1> PICK e \in Event \ offered : QueueEvent(e)
  BY DEF LogEvent
<1>1. CASE Len(queue) < Threshold
  <2>1. queue' = Append(queue, e) /\ dropping' = FALSE
    BY <1>1 DEF QueueEvent
  <2>2. queue' \in Seq(Event) /\ Len(queue') = Len(queue) + 1 /\ Len(queue) \in Nat
    BY <2>1 DEF QueueIInv
  <2>3. Threshold \in Nat /\ Threshold <= MaxQueueSize
    BY ThresholdBounded DEF QueueIInv
  <2>4. Len(queue') <= MaxQueueSize
    BY <1>1, <2>2, <2>3, AsyncAssumption
  <2> QED
    BY <2>1, <2>2, <2>4 DEF QueueIInv, QueueBounded
<1>2. CASE ~(Len(queue) < Threshold)
  BY <1>2 DEF QueueEvent, QueueIInv, QueueBounded
<1> QED
  BY <1>1, <1>2

\* The consumer makes it shorter, and nothing else touches it.
LEMMA OthersBounded ==
  QueueIInv /\ (ConsumerNext \/ BeginShutdown \/ HookNext \/ UNCHANGED asyncVars)
      => QueueIInv'
<1> SUFFICES ASSUME QueueIInv,
                    ConsumerNext \/ BeginShutdown \/ HookNext \/ UNCHANGED asyncVars
             PROVE  QueueIInv'
  OBVIOUS
<1>1. CASE Dequeue
  <2>1. queue' \in Seq(Event) /\ Len(queue') <= Len(queue) /\ Len(queue) \in Nat
        /\ Len(queue') \in Nat
    BY <1>1 DEF Dequeue, QueueIInv
  <2> QED
    BY <1>1, <2>1, AsyncAssumption DEF Dequeue, QueueIInv, QueueBounded
<1>2. CASE UNCHANGED <<queue, dropping>>
  BY <1>2 DEF QueueIInv, QueueBounded
<1>3. Dequeue \/ UNCHANGED <<queue, dropping>>
  BY DEF ConsumerNext, StartThread, StartDestination, While, DequeueNull,
     Call, CallReturns, LastFlush, BeginShutdown, HookNext, WaitToComplete, Stop, Join,
     asyncVars, asyncOnlyVars
<1> QED
  BY <1>1, <1>2, <1>3

\* The queue stays within mMaxQueueSize.
THEOREM AsyncQueueBounded == AsyncSpec => []QueueBounded
<1>1. AsyncInit => QueueIInv
  <2> SUFFICES ASSUME AsyncInit PROVE QueueIInv
    OBVIOUS
  <2>1. queue = <<>> /\ dropping = FALSE
    BY DEF AsyncInit
  <2>2. queue \in Seq(Event) /\ Len(queue) = 0
    BY <2>1
  <2>3. 0 <= MaxQueueSize
    BY AsyncAssumption
  <2> QED
    BY <2>1, <2>2, <2>3 DEF QueueIInv, QueueBounded
<1>2. QueueIInv /\ [AsyncNext]_asyncVars => QueueIInv'
  BY LogEventBounded, OthersBounded DEF AsyncNext
<1>3. QueueIInv => QueueBounded
  BY DEF QueueIInv
<1> QED
  BY <1>1, <1>2, <1>3, PTL DEF AsyncSpec

-----------------------------------------------------------------------------
(* Types, and what is where: the events in the queue, due to the consumer  *)
(* or stored have been offered, so that what is promised at shutdown has.  *)

AsyncOnlyTyped ==
    /\ queue \in Seq(Event)
    /\ dropping \in BOOLEAN
    /\ mStopThread \in BOOLEAN
    /\ runPc \in {"new", "while", "dequeue", "call", "lastFlush", "lastCall", "ended"}
    /\ hookPc \in {"up", "wait", "stop", "join", "down"}
    /\ offered \subseteq Event

Calls == ~At(Consumer, "idle") => runPc \in {"call", "lastCall"}

Contained == ToSet(queue) \cup Due(Consumer) \cup Stored \subseteq offered

TypeIInv == DbTypeOK /\ AsyncOnlyTyped /\ Calls /\ Contained /\ promised \subseteq offered

LEMMA ConsumerIsThread == Consumer \in Thread /\ \A t \in Thread : t = Consumer
BY AsyncAssumption

\* The events in the hands of the provider, in order and as a set.
Hand == IF Fresh(Consumer) THEN <<event[Consumer]>> ELSE <<>>

LEMMA WaitingParts ==
  ASSUME DbTypeOK, queue \in Seq(Event)
  PROVE  /\ Batch(Consumer) \in Seq(Event) /\ Hand \in Seq(Event)
         /\ Waiting = Batch(Consumer) \o Hand \o queue
         /\ Waiting \in Seq(Event)
         /\ ToSet(Waiting) = Due(Consumer) \cup ToSet(queue)
<1>1. Batch(Consumer) \in Seq(Event) /\ Managed(Consumer) = ToSet(Batch(Consumer))
  BY BatchTyped, ConsumerIsThread
<1>2. Fresh(Consumer) => event[Consumer] \in Event
  BY TypeParts, ConsumerIsThread DEF Fresh, ThreadsTyped
<1>3. /\ Hand \in Seq(Event)
      /\ ToSet(Hand) = IF Fresh(Consumer) THEN {event[Consumer]} ELSE {}
  <2>1. CASE Fresh(Consumer)
    <3>1. <<event[Consumer]>> \in Seq(Event) /\ ToSet(<<event[Consumer]>>) = {event[Consumer]}
      BY <1>2, <2>1, SingletonSet
    <3> QED
      BY <2>1, <3>1 DEF Hand
  <2>2. CASE ~Fresh(Consumer)
    BY <2>2, EmptySet, EmptySeq DEF Hand
  <2> QED
    BY <2>1, <2>2
<1>4. Waiting = Batch(Consumer) \o Hand \o queue
  BY DEF Waiting, Batch, Hand, Fresh
<1>5. /\ Batch(Consumer) \o Hand \in Seq(Event)
      /\ ToSet(Batch(Consumer) \o Hand) = Due(Consumer)
  BY <1>1, <1>3, ConcatenatedSet DEF Due
<1>6. \A s \in Seq(Event) : /\ s \o queue \in Seq(Event)
                            /\ ToSet(s \o queue) = ToSet(s) \cup ToSet(queue)
  BY ConcatenatedSet
<1> QED
  BY <1>1, <1>3, <1>4, <1>5, <1>6

\* What the steps outside DbStep do to the consumer's events.
LEMMA BeginLogMoved ==
  ASSUME DbTypeOK, NEW e \in Event, BeginLog(Consumer, e)
  PROVE  /\ dbPc'[Consumer] = "connect" /\ ~Fresh(Consumer) /\ Fresh(Consumer)'
         /\ event'[Consumer] = e /\ Batch(Consumer)' = Batch(Consumer)
         /\ Managed(Consumer)' = Managed(Consumer)
         /\ Due(Consumer)' = Due(Consumer) \cup {e} /\ Stored' = Stored
<1>1. dbPc[Consumer] = "idle" /\ dbPc'[Consumer] = "connect" /\ event'[Consumer] = e
  BY ConsumerIsThread, TypeParts DEF BeginLog, At, Goto, ThreadsTyped
<1>2. em' = em /\ db' = db
  BY DEF BeginLog
<1>3. Batch(Consumer)' = Batch(Consumer) /\ Managed(Consumer)' = Managed(Consumer) /\ Stored' = Stored
  BY <1>2 DEF Batch, Managed, Stored
<1> QED
  BY <1>1, <1>3 DEF Fresh, Due

LEMMA BeginFlushMoved ==
  ASSUME DbTypeOK, BeginFlush(Consumer)
  PROVE  /\ dbPc'[Consumer] = "flush" /\ ~Fresh(Consumer) /\ ~Fresh(Consumer)'
         /\ Batch(Consumer)' = Batch(Consumer)
         /\ Managed(Consumer)' = Managed(Consumer)
         /\ Due(Consumer)' = Due(Consumer) /\ Stored' = Stored
<1>1. dbPc[Consumer] = "idle" /\ dbPc'[Consumer] = "flush" /\ event' = event
  BY ConsumerIsThread, TypeParts DEF BeginFlush, At, Goto, ThreadsTyped
<1>2. em' = em /\ db' = db
  BY DEF BeginFlush
<1>3. Batch(Consumer)' = Batch(Consumer) /\ Managed(Consumer)' = Managed(Consumer) /\ Stored' = Stored
  BY <1>2 DEF Batch, Managed, Stored
<1> QED
  BY <1>1, <1>3 DEF Fresh, Due

LEMMA LosesEms ==
  ASSUME LoseAllEms \/ UNCHANGED em, UNCHANGED <<db, dbPc, event>>
  PROVE  /\ Batch(Consumer)' = Batch(Consumer) \/ (LoseAllEms /\ Batch(Consumer)' = <<>>)
         /\ Managed(Consumer)' \subseteq Managed(Consumer)
         /\ LoseAllEms => Managed(Consumer)' = {}
         /\ Due(Consumer)' \subseteq Due(Consumer) /\ Stored' = Stored
         /\ Fresh(Consumer)' <=> Fresh(Consumer)
<1>1. LoseAllEms => em'[Consumer] = NoEm
  BY ConsumerIsThread DEF LoseAllEms
<1> QED
  BY <1>1 DEF Batch, Managed, Due, Stored, Fresh

LEMMA NothingMoves ==
  ASSUME UNCHANGED <<em, db, dbPc, event>>
  PROVE  /\ Batch(Consumer)' = Batch(Consumer) /\ Managed(Consumer)' = Managed(Consumer)
         /\ Due(Consumer)' = Due(Consumer) /\ Stored' = Stored
         /\ Fresh(Consumer)' <=> Fresh(Consumer)
BY DEF Batch, Managed, Due, Stored, Fresh

LEMMA HeadAndTail ==
  ASSUME queue \in Seq(Event), queue # <<>>
  PROVE  /\ Head(queue) \in Event /\ Tail(queue) \in Seq(Event)
         /\ queue = <<Head(queue)>> \o Tail(queue)
         /\ ToSet(queue) = {Head(queue)} \cup ToSet(Tail(queue))
<1>1. Head(queue) \in Event /\ Tail(queue) \in Seq(Event)
  BY HeadTailProperties
<1>2. <<Head(queue)>> \in Seq(Event) /\ ToSet(<<Head(queue)>>) = {Head(queue)}
  BY <1>1, SingletonSet
<1>3. queue = <<Head(queue)>> \o Tail(queue)
  <2>1. Len(queue) \in Nat \ {0} /\ 1 \in 1 .. Len(queue) /\ Len(queue) \in 1 .. Len(queue)
    BY EmptySeq
  <2>2. queue = <<queue[1]>> \o SubSeq(queue, 2, Len(queue))
    BY <2>1, SubSeqFull, SubSeqRecursiveFirst
  <2> QED
    BY <2>2, TailIsSubSeq
<1>4. \A s, u \in Seq(Event) : ToSet(s \o u) = ToSet(s) \cup ToSet(u)
  BY ConcatenatedSet
<1>5. ToSet(<<Head(queue)>> \o Tail(queue)) = {Head(queue)} \cup ToSet(Tail(queue))
  BY <1>1, <1>2, <1>4
<1> QED
  BY <1>1, <1>3, <1>5

\* join() and super.stop() keep the types.
LEMMA JoinTyped == ASSUME DbTypeOK, Join PROVE DbTypeOK'
<1> USE TypeParts
<1>1. FlagsTyped'
  BY DEF FlagsTyped, Join, CleanUp
<1>2. EmsTyped'
  BY DEF EmsTyped, Join, CleanUp, LoseAllEms
<1>3. DataTyped' /\ ThreadsTyped'
  BY DEF DataTyped, ThreadsTyped, Join
<1> QED
  BY <1>1, <1>2, <1>3, PTL

LEMMA AsyncDbTyped == ASSUME TypeIInv, [AsyncNext]_asyncVars PROVE DbTypeOK'
<1> USE DEF TypeIInv
<1>1. CASE UNCHANGED dbVars
  BY <1>1, StutterTyped
<1>2. CASE StartDestination
  BY <1>2, StartTyped DEF StartDestination
<1>3. CASE Dequeue
  <2>1. Head(queue) \in Event
    BY <1>3, HeadAndTail DEF Dequeue, AsyncOnlyTyped
  <2> QED
    BY <1>3, <2>1, BeginLogTyped, ConsumerIsThread DEF Dequeue
<1>4. CASE DequeueNull \/ LastFlush
  BY <1>4, BeginFlushTyped, ConsumerIsThread DEF DequeueNull, LastFlush
<1>5. CASE Call
  BY <1>5, StepTyped, ConsumerIsThread DEF Call
<1>6. CASE Join
  BY <1>6, JoinTyped
<1> QED
  BY <1>1, <1>2, <1>3, <1>4, <1>5, <1>6 DEF AsyncNext, LogEvent, QueueEvent, ConsumerNext,
     StartThread, While, CallReturns, BeginShutdown, HookNext, WaitToComplete, Stop, asyncVars

LEMMA AsyncOnlyKept == ASSUME TypeIInv, [AsyncNext]_asyncVars PROVE AsyncOnlyTyped'
<1> USE DEF TypeIInv, AsyncOnlyTyped
<1>1. CASE UNCHANGED <<queue, dropping, mStopThread, offered>>
  <2>1. runPc' \in {"new", "while", "dequeue", "call", "lastFlush", "lastCall", "ended"}
    BY DEF AsyncNext, LogEvent, QueueEvent, ConsumerNext, StartThread, StartDestination, While, Dequeue,
       DequeueNull, Call, CallReturns, LastFlush, BeginShutdown, HookNext, WaitToComplete, Stop, Join,
       asyncVars, asyncOnlyVars
  <2>2. hookPc' \in {"up", "wait", "stop", "join", "down"}
    BY DEF AsyncNext, LogEvent, QueueEvent, ConsumerNext, StartThread, StartDestination, While, Dequeue,
       DequeueNull, Call, CallReturns, LastFlush, BeginShutdown, HookNext, WaitToComplete, Stop, Join,
       asyncVars, asyncOnlyVars
  <2> QED
    BY <1>1, <2>1, <2>2
<1>2. CASE LogEvent
  <2> PICK e \in Event \ offered : QueueEvent(e)
    BY <1>2 DEF LogEvent
  <2>1. /\ UNCHANGED <<mStopThread, runPc, hookPc>>
        /\ offered' = offered \cup {e}
    BY DEF QueueEvent
  <2>2. dropping' \in BOOLEAN
    BY DEF QueueEvent
  <2>3. queue' \in Seq(Event)
    BY AppendProperties DEF QueueEvent
  <2> QED
    BY <2>1, <2>2, <2>3
<1>3. CASE Dequeue
  BY <1>3, HeadAndTail DEF Dequeue
<1>4. CASE Stop
  BY <1>4 DEF Stop
<1> QED
  BY <1>1, <1>2, <1>3, <1>4 DEF AsyncNext, ConsumerNext, StartThread, StartDestination, While,
     DequeueNull, Call, CallReturns, LastFlush, BeginShutdown, HookNext, WaitToComplete, Join,
     asyncVars, asyncOnlyVars

LEMMA CallsKept == ASSUME TypeIInv, [AsyncNext]_asyncVars PROVE Calls'
<1>1. CASE runPc' = runPc /\ dbPc' = dbPc
  BY <1>1 DEF TypeIInv, Calls, At
<1>2. CASE Call
  <2>1. dbPc[Consumer] # "idle"
    BY <1>2 DEF Call, DbStep, Connect, InitOnDemand, Begin, Persist, Add, Flush, Commit, Clear, At
  <2> QED
    BY <1>2, <2>1 DEF TypeIInv, Calls, At, Call, asyncOnlyVars
<1>3. CASE StartThread \/ While \/ CallReturns
  BY <1>3 DEF TypeIInv, Calls, At, StartThread, While, CallReturns, dbVars
<1>4. CASE Dequeue \/ DequeueNull \/ LastFlush
  BY <1>4 DEF Calls, Dequeue, DequeueNull, LastFlush
<1> QED
  BY <1>1, <1>2, <1>3, <1>4 DEF AsyncNext, LogEvent, QueueEvent, ConsumerNext, StartDestination, Start,
     BeginShutdown, HookNext, WaitToComplete, Stop, Join, asyncVars, asyncOnlyVars, dbVars

LEMMA ContainedKept ==
  ASSUME TypeIInv, [AsyncNext]_asyncVars PROVE Contained' /\ promised' \subseteq offered'
<1> USE DEF TypeIInv, Contained
<1>1. CASE LogEvent
  <2> PICK e \in Event \ offered : QueueEvent(e)
    BY <1>1 DEF LogEvent
  <2>1. UNCHANGED <<em, db, dbPc, event, promised>> /\ offered' = offered \cup {e}
    BY DEF QueueEvent, dbVars
  <2>2. queue' = queue \/ queue' = Append(queue, e)
    BY DEF QueueEvent
  <2>3. ToSet(queue') \subseteq ToSet(queue) \cup {e}
    BY <2>2, AppendedSet DEF AsyncOnlyTyped
  <2> QED
    BY <2>1, <2>3, NothingMoves
<1>2. CASE UNCHANGED <<em, db, dbPc, event, queue, offered>> /\ promised' = promised
  BY <1>2, NothingMoves
<1>3. CASE StartDestination \/ Join
  <2>1. /\ LoseAllEms \/ UNCHANGED em
        /\ UNCHANGED <<db, dbPc, event, queue, offered, promised>>
    BY <1>3 DEF StartDestination, Start, Join, CleanUp, asyncOnlyVars
  <2> QED
    BY <2>1, LosesEms
<1>4. CASE Dequeue
  <2>1. /\ Head(queue) \in Event /\ ToSet(queue) = {Head(queue)} \cup ToSet(Tail(queue))
        /\ BeginLog(Consumer, Head(queue)) /\ queue' = Tail(queue)
        /\ UNCHANGED <<offered, promised>>
    BY <1>4, HeadAndTail DEF Dequeue, AsyncOnlyTyped
  <2>2. Due(Consumer)' = Due(Consumer) \cup {Head(queue)} /\ Stored' = Stored
    BY <2>1, BeginLogMoved
  <2> QED
    BY <2>1, <2>2
<1>5. CASE DequeueNull \/ LastFlush
  <2>1. BeginFlush(Consumer) /\ UNCHANGED <<queue, offered, promised>>
    BY <1>5 DEF DequeueNull, LastFlush
  <2> QED
    BY <2>1, BeginFlushMoved
<1>6. CASE Call
  <2>1. DbStep(Consumer) /\ UNCHANGED <<queue, offered, promised>>
    BY <1>6 DEF Call, asyncOnlyVars
  <2> QED
    BY <2>1, DueMoved, ConsumerIsThread
<1>7. CASE WaitToComplete
  <2>1. /\ UNCHANGED <<em, db, dbPc, event, queue, offered>>
        /\ promised' = ToSet(Waiting) \cup Stored
    BY <1>7 DEF WaitToComplete, dbVars
  <2> QED
    BY <2>1, NothingMoves, WaitingParts DEF AsyncOnlyTyped
<1> QED
  BY <1>1, <1>2, <1>3, <1>4, <1>5, <1>6, <1>7 DEF AsyncNext, ConsumerNext, StartThread, While,
     CallReturns, BeginShutdown, HookNext, Stop, asyncVars, asyncOnlyVars, dbVars

THEOREM AsyncTypeIInv == AsyncSpec => []TypeIInv
<1>1. AsyncInit => TypeIInv
  <2> SUFFICES ASSUME AsyncInit PROVE TypeIInv
    OBVIOUS
  <2> USE DEF AsyncInit
  <2>1. DbTypeOK
    BY InitTyped
  <2>2. AsyncOnlyTyped
    BY EmptySeq DEF AsyncOnlyTyped
  <2>3. Calls
    BY ConsumerIsThread DEF DbInit, Calls, At
  <2>4. Contained /\ promised \subseteq offered
    BY ConsumerIsThread, EmptySet DEF Contained, DbInit, Due, Managed, Fresh, Stored
  <2> QED
    BY <2>1, <2>2, <2>3, <2>4 DEF TypeIInv
<1>2. TypeIInv /\ [AsyncNext]_asyncVars => TypeIInv'
  BY AsyncDbTyped, AsyncOnlyKept, CallsKept, ContainedKept DEF TypeIInv
<1> QED
  BY <1>1, <1>2, PTL DEF AsyncSpec

\* AsyncTypeOK: every variable keeps its type, and the consumer is in a call of
\* its destination only where run() makes one.
THEOREM AsyncTyped == AsyncSpec => []AsyncTypeOK
<1>1. TypeIInv => AsyncTypeOK
  BY DEF TypeIInv, AsyncOnlyTyped, Calls, AsyncTypeOK
<1> QED
  BY <1>1, AsyncTypeIInv, PTL

-----------------------------------------------------------------------------
(* While there is no trouble, mUncommitted is what is in the consumer's    *)
(* transaction, so that the flush of an empty batch has nothing to commit, *)
(* and the provider is connected until the hook has stopped it.            *)

Emptied == ~TheEm(Consumer).active => Batch(Consumer) = <<>>

Calm == ~Troubled

CalmDb ==
    Calm =>
        /\ started /\ hookPc # "down" => connected
        /\ ~started => /\ dbPc[Consumer] \in {"idle", "flush"}
                       /\ em[Consumer] = NoEm /\ mUncommitted = {}
        /\ Ready(Consumer)
        /\ dbPc[Consumer] \notin {"add", "clear"} => mUncommitted = Managed(Consumer)
        /\ dbPc[Consumer] = "add" => Managed(Consumer) = mUncommitted \cup {event[Consumer]}

\* Nothing goes on after the hook, and what was promised is due or stored: at
\* the end of the last flush, stored.
Ending ==
    /\ hookPc = "down" => runPc = "ended"
    /\ runPc = "lastCall" => dbPc[Consumer] \in {"idle", "flush", "commit", "clear"}

CalmPromise ==
    Calm =>
        /\ promised \subseteq Due(Consumer) \cup Stored
        /\ (runPc = "lastCall" /\ dbPc[Consumer] = "idle") \/ runPc = "ended"
               => Managed(Consumer) = {}
        /\ hookPc = "down" => promised \subseteq Stored

ShutdownIInv == Emptied /\ CalmDb /\ Ending /\ CalmPromise

\* Every step but these leaves the provider, the promise and the consumer's
\* place in its last call alone.
Others ==
    \/ LogEvent \/ StartThread \/ While \/ CallReturns
    \/ BeginShutdown \/ Stop \/ UNCHANGED asyncVars

LEMMA AsyncCases ==
  ASSUME [AsyncNext]_asyncVars
  PROVE  \/ Others \/ StartDestination \/ Dequeue \/ DequeueNull \/ LastFlush \/ Call
         \/ WaitToComplete \/ Join
BY DEF AsyncNext, ConsumerNext, HookNext, Others

LEMMA OthersLeave ==
  ASSUME Others
  PROVE  UNCHANGED dbVars /\ UNCHANGED promised /\ (hookPc' = "down" <=> hookPc = "down")
BY DEF Others, LogEvent, QueueEvent, StartThread, While, CallReturns, BeginShutdown, Stop,
       asyncVars, asyncOnlyVars

LEMMA AsyncCalmBefore ==
  ASSUME TypeIInv, [AsyncNext]_asyncVars, Calm'
  PROVE  Calm /\ failures' = failures /\ early' = early
<1>1. failures \in Nat /\ early \in BOOLEAN
  BY TypeParts DEF TypeIInv, DataTyped, FlagsTyped
<1>2. failures' = failures \/ failures' = failures + 1
  <2>1. CASE UNCHANGED failures
    BY <2>1
  <2>2. CASE Start \/ DbStep(Consumer)
    BY <2>2 DEF Start, DbStep, Connect, InitOnDemand, Begin, Persist, Add, Flush, Commit, Clear, Fail
  <2> QED
    BY <2>1, <2>2, AsyncCases, OthersLeave DEF StartDestination, Dequeue, BeginLog, DequeueNull,
       LastFlush, BeginFlush, Call, WaitToComplete, Join, dbVars
<1>3. early' = early \/ early' = (early \/ ~started)
  <2>1. CASE UNCHANGED early
    BY <2>1
  <2>2. CASE DbStep(Consumer)
    BY <2>2 DEF DbStep, Connect, InitOnDemand, Begin, Persist, Add, Flush, Commit, Clear
  <2>3. CASE Dequeue
    BY <2>3 DEF Dequeue, BeginLog
  <2> QED
    BY <2>1, <2>2, <2>3, AsyncCases, OthersLeave DEF StartDestination, Start, DequeueNull,
       LastFlush, BeginFlush, Call, WaitToComplete, Join, dbVars
<1>4. failures' = 0 /\ ~early'
  BY <1>1, <1>2 DEF Calm, Troubled
<1>5. failures = 0 /\ ~early
  BY <1>1, <1>2, <1>3, <1>4
<1> QED
  BY <1>1, <1>3, <1>4, <1>5 DEF Calm, Troubled

LEMMA EmptiedKept == ASSUME TypeIInv, Emptied, [AsyncNext]_asyncVars PROVE Emptied'
<1>1. CASE UNCHANGED em
  BY <1>1 DEF Emptied, TheEm, Batch
<1>2. CASE LoseAllEms
  <2>1. em'[Consumer] = NoEm
    BY <1>2, ConsumerIsThread DEF LoseAllEms
  <2> QED
    BY <2>1 DEF Emptied, Batch
<1>3. CASE Call
  <2> DEFINE m == TheEm(Consumer)
             t == Consumer
  <2>1. /\ m \in Em /\ m.managed = Batch(t) /\ Batch(t) \in Seq(Event)
        /\ em \in [Thread -> Em \cup {NoEm}] /\ t \in Thread
    BY BatchTyped, ConsumerIsThread, TypeParts DEF TypeIInv, EmsTyped
  <2>2. ASSUME NEW k \in Em, em' = [em EXCEPT ![t] = k]
        PROVE  TheEm(t)' = k /\ Batch(t)' = k.managed
    BY <2>1, <2>2, NewEmTyped DEF Batch, TheEm
  <2>3. /\ [m EXCEPT !.active = TRUE] \in Em /\ [m EXCEPT !.active = TRUE].active = TRUE
    BY <2>1, Begun
  <2>4. /\ [m EXCEPT !.managed = <<>>] \in Em /\ [m EXCEPT !.managed = <<>>].managed = <<>>
    BY <2>1, Remanaged, EmptySeq
  <2>5. At(t, "persist") =>
            /\ [m EXCEPT !.managed = Append(@, event[t])] \in Em
            /\ [m EXCEPT !.managed = Append(@, event[t])].active = m.active
    <3>1. At(t, "persist") => event[t] \in Event
      BY <2>1, TypeParts DEF TypeIInv, ThreadsTyped, At
    <3>2. At(t, "persist") => Append(m.managed, event[t]) \in Seq(Event)
      BY <2>1, <3>1, AppendProperties
    <3> QED
      BY <2>1, <3>2, Remanaged
  <2>6. \/ UNCHANGED em \/ LoseAllEms
        \/ em' = [em EXCEPT ![t] = m]
        \/ em' = [em EXCEPT ![t] = [m EXCEPT !.active = TRUE]]
        \/ /\ At(t, "persist") /\ m.active
           /\ em' = [em EXCEPT ![t] = [m EXCEPT !.managed = Append(@, event[t])]]
        \/ em' = [em EXCEPT ![t] = NewEm]
        \/ em' = [em EXCEPT ![t] = [m EXCEPT !.managed = <<>>]]
        \/ em' = em
    BY <1>3, <2>1, EmSteps DEF Call
  <2>7. CASE em' = [em EXCEPT ![t] = m]
    BY <2>1, <2>2, <2>7 DEF Emptied
  <2>8. CASE em' = [em EXCEPT ![t] = [m EXCEPT !.active = TRUE]]
    BY <2>2, <2>3, <2>8 DEF Emptied
  <2>9. CASE At(t, "persist") /\ m.active /\ em' = [em EXCEPT ![t] = [m EXCEPT !.managed = Append(@, event[t])]]
    BY <2>2, <2>5, <2>9 DEF Emptied
  <2>10. CASE em' = [em EXCEPT ![t] = NewEm]
    BY <2>2, <2>10, NewEmTyped DEF Emptied
  <2>11. CASE em' = [em EXCEPT ![t] = [m EXCEPT !.managed = <<>>]]
    BY <2>2, <2>4, <2>11 DEF Emptied
  <2> QED
    BY <1>1, <1>2, <2>6, <2>7, <2>8, <2>9, <2>10, <2>11
<1> QED
  BY <1>1, <1>2, <1>3, AsyncCases, OthersLeave DEF StartDestination, Start, Dequeue, BeginLog,
     DequeueNull, LastFlush, BeginFlush, WaitToComplete, Join, CleanUp, dbVars

LEMMA EndingKept == ASSUME TypeIInv, Ending, [AsyncNext]_asyncVars PROVE Ending'
<1>1. Consumer \in Thread /\ dbPc \in [Thread -> Pcs]
  BY ConsumerIsThread, TypeParts DEF TypeIInv, ThreadsTyped
<1>2. dbPc[Consumer] # "idle" => runPc \in {"call", "lastCall"}
  BY DEF TypeIInv, Calls, At
<1>3. CASE Call
  <2>1. UNCHANGED <<runPc, hookPc>> /\ DbStep(Consumer)
    BY <1>3 DEF Call, asyncOnlyVars
  <2>2. dbPc[Consumer] \in {"flush", "commit", "clear"}
            => dbPc'[Consumer] \in {"idle", "commit", "clear"}
    BY <1>1, <2>1 DEF DbStep, Connect, InitOnDemand, Begin, Persist, Add, Flush, Commit, Clear,
       At, Goto, Return
  <2>3. dbPc[Consumer] # "idle"
    BY <2>1 DEF DbStep, Connect, InitOnDemand, Begin, Persist, Add, Flush, Commit, Clear, At
  <2> QED
    BY <2>1, <2>2, <2>3 DEF Ending
<1>4. CASE LastFlush
  BY <1>1, <1>4 DEF LastFlush, BeginFlush, Goto, Ending
<1>5. CASE UNCHANGED dbPc /\ (runPc' = runPc \/ (runPc' # "lastCall" /\ runPc # "ended")) /\ (hookPc' = "down" => hookPc = "down")
  BY <1>5 DEF Ending
<1>6. CASE Join
  BY <1>6 DEF Join, Ending
<1>7. CASE Dequeue \/ DequeueNull
  BY <1>7 DEF Dequeue, DequeueNull, Ending
<1> QED
  BY <1>3, <1>4, <1>5, <1>6, <1>7, AsyncCases DEF Others, LogEvent, QueueEvent, StartThread, While,
     CallReturns, BeginShutdown, Stop, StartDestination, Start, WaitToComplete, asyncVars,
     asyncOnlyVars, dbVars

\* Inside a call, a calm consumer is connected, or has nothing to flush yet.
LEMMA CalmCall ==
  ASSUME TypeIInv, Emptied, CalmDb, Ending, Calm, Call
  PROVE  \/ started /\ connected /\ hookPc # "down" /\ Ready(Consumer)
         \/ /\ ~started /\ dbPc[Consumer] = "flush" /\ dbPc'[Consumer] = "idle"
            /\ em[Consumer] = NoEm /\ mUncommitted = {}
            /\ Flush(Consumer)
<1>1. Consumer \in Thread /\ dbPc \in [Thread -> Pcs]
  BY ConsumerIsThread, TypeParts DEF TypeIInv, ThreadsTyped
<1>2. dbPc[Consumer] # "idle"
  BY DEF Call, DbStep, Connect, InitOnDemand, Begin, Persist, Add, Flush, Commit, Clear, At
<1>3. hookPc # "down"
  BY <1>2 DEF TypeIInv, Calls, At, Ending
<1>4. CASE started
  BY <1>3, <1>4 DEF CalmDb
<1>5. CASE ~started
  <2>1. dbPc[Consumer] = "flush" /\ em[Consumer] = NoEm /\ mUncommitted = {}
    BY <1>2, <1>5 DEF CalmDb
  <2>2. Flush(Consumer)
    BY <2>1 DEF Call, DbStep, Connect, InitOnDemand, Begin, Persist, Add, Commit, Clear, At
  <2>3. dbPc'[Consumer] = "idle"
    BY <1>1, <2>1, <2>2 DEF Flush, Return, Goto
  <2> QED
    BY <1>5, <2>1, <2>2, <2>3
<1> QED
  BY <1>4, <1>5

\* mUncommitted follows the transaction.
LEMMA UncommittedFollows ==
  ASSUME TypeIInv, CalmDb, Calm, DbStep(Consumer), Ready(Consumer),
         Keeps(Consumer) \/ Manages(Consumer) \/ StoresBatch(Consumer)
  PROVE  /\ dbPc'[Consumer] \notin {"add", "clear"} => mUncommitted' = Managed(Consumer)'
         /\ dbPc'[Consumer] = "add" => Managed(Consumer)' = mUncommitted' \cup {event'[Consumer]}
<1> DEFINE t == Consumer
<1>1. /\ t \in Thread /\ dbPc \in [Thread -> Pcs] /\ ~\E u \in Thread \ {t} : TRUE
      /\ Batch(t) \in Seq(Event)
      /\ Managed(t) = ToSet(Batch(t)) /\ Managed(t)' = ToSet(Batch(t)')
  <2>1. Managed(t)' = ToSet(Batch(t)')
    BY EmptySet DEF Managed, Batch
  <2> QED
    BY <2>1, ConsumerIsThread, BatchTyped, TypeParts DEF TypeIInv, ThreadsTyped
<1>2. \A pc : Goto(t, pc) => dbPc'[t] = pc
  BY <1>1 DEF Goto
<1>3. Return(t) => dbPc'[t] = "idle"
  BY <1>2 DEF Return
<1>4. /\ dbPc[t] \notin {"add", "clear"} => mUncommitted = Managed(t)
      /\ dbPc[t] = "add" => Managed(t) = mUncommitted \cup {event[t]}
  BY DEF CalmDb
<1>5. \A pcs : ~Beside(t, pcs)
  BY <1>1 DEF Beside
<1>6. CASE Connect(t) \/ InitOnDemand(t) \/ Begin(t)
  <2>1. /\ dbPc[t] \in {"connect", "begin", "init"} /\ dbPc'[t] \in {"begin", "init", "persist", "idle"}
        /\ mUncommitted' = mUncommitted
    BY <1>2, <1>3, <1>6 DEF Connect, InitOnDemand, Begin, At
  <2>2. Fresh(t) /\ (dbPc'[t] # "idle" => Fresh(t)')
    BY <2>1 DEF Fresh
  <2>3. Batch(t)' = Batch(t)
    <3>1. CASE Keeps(t)
      BY <3>1 DEF Keeps
    <3>2. CASE Manages(t)
      <4>1. db' = db /\ Batch(t)' = Append(Batch(t), event[t]) /\ dbPc'[t] = "idle"
        BY <2>2, <3>2 DEF Manages
      <4>2. UNCHANGED em
        BY <1>2, <1>6, <4>1 DEF Connect, InitOnDemand, Begin
      <4> QED
        BY <4>2 DEF Batch
    <3> QED
      BY <2>2, <3>1, <3>2 DEF StoresBatch
  <2> QED
    BY <1>1, <1>4, <2>1, <2>3
<1>7. CASE Persist(t)
  <2>1. dbPc[t] = "persist" /\ mUncommitted' = mUncommitted /\ Fresh(t) /\ dbPc'[t] \in {"add", "idle"}
    BY <1>2, <1>3, <1>7 DEF Persist, At, Fresh
  <2>2. Manages(t)
    BY <2>1 DEF Keeps, StoresBatch, Fresh
  <2>3. event[t] \in Event
    BY <2>1, TypeParts, ConsumerIsThread DEF TypeIInv, ThreadsTyped
  <2>4. Managed(t)' = Managed(t) \cup {event[t]}
    BY <1>1, <2>2, <2>3, AppendedSet DEF Manages
  <2>5. CASE dbPc'[t] = "add"
    <3>1. event' = event
      BY <1>3, <1>7, <2>5 DEF Persist
    <3> QED
      BY <1>4, <2>1, <2>4, <2>5, <3>1
  <2>6. CASE dbPc'[t] = "idle"
    <3>1. em' = em
      BY <1>2, <1>7, <2>6 DEF Persist
    <3>2. Batch(t)' = Batch(t)
      BY <3>1 DEF Batch
    <3> QED
      BY <1>1, <1>4, <2>1, <2>6, <3>2
  <2> QED
    BY <2>1, <2>5, <2>6
<1>8. CASE Add(t)
  <2>1. /\ dbPc[t] = "add" /\ mUncommitted' = mUncommitted \cup {event[t]} /\ em' = em
        /\ dbPc'[t] \in {"idle", "flush"}
    BY <1>2, <1>3, <1>5, <1>8 DEF Add, At
  <2>2. Managed(t)' = Managed(t)
    BY <2>1 DEF Managed
  <2> QED
    BY <1>4, <2>1, <2>2
<1>9. CASE Flush(t)
  <2>1. /\ dbPc[t] = "flush" /\ mUncommitted' = mUncommitted /\ em' = em
        /\ dbPc'[t] \in {"idle", "commit"}
    BY <1>2, <1>3, <1>9 DEF Flush, At
  <2>2. Managed(t)' = Managed(t)
    BY <2>1 DEF Managed
  <2> QED
    BY <1>4, <2>1, <2>2
<1>10. CASE Commit(t)
  BY <1>2, <1>10 DEF Commit
<1>11. CASE Clear(t)
  <2>1. dbPc[t] = "clear" /\ mUncommitted' = {} /\ dbPc'[t] = "idle" /\ ~Fresh(t)
    BY <1>3, <1>5, <1>11 DEF Clear, At, Fresh
  <2>2. Batch(t) = <<>>
    BY <2>1 DEF Ready
  <2>3. Batch(t)' = <<>>
    BY <2>1, <2>2 DEF Keeps, Manages, StoresBatch
  <2> QED
    BY <1>1, <2>1, <2>3, EmptySet
<1> QED
  BY <1>6, <1>7, <1>8, <1>9, <1>10, <1>11 DEF DbStep

LEMMA CalmDbCall == ASSUME TypeIInv, ShutdownIInv, Call PROVE CalmDb'
<1> SUFFICES ASSUME Calm' PROVE CalmDb'
  BY DEF CalmDb
<1>1. Calm /\ failures' = failures
  BY AsyncCalmBefore DEF AsyncNext, ConsumerNext
<1>2. /\ DbStep(Consumer) /\ started' = started /\ hookPc' = hookPc
  BY DEF Call, asyncOnlyVars, DbStep, Connect, InitOnDemand, Begin, Persist, Add, Flush, Commit, Clear
<1>3. CASE started /\ connected /\ hookPc # "down" /\ Ready(Consumer)
  <2>1. /\ connected' = TRUE /\ Ready(Consumer)'
        /\ Keeps(Consumer) \/ Manages(Consumer) \/ StoresBatch(Consumer)
    BY <1>1, <1>2, <1>3, CalmStep, ConsumerIsThread DEF TypeIInv
  <2>2. /\ dbPc'[Consumer] \notin {"add", "clear"} => mUncommitted' = Managed(Consumer)'
        /\ dbPc'[Consumer] = "add" => Managed(Consumer)' = mUncommitted' \cup {event'[Consumer]}
    BY <1>1, <1>2, <1>3, <2>1, UncommittedFollows DEF ShutdownIInv
  <2> QED
    BY <1>2, <1>3, <2>1, <2>2 DEF CalmDb
<1>4. CASE /\ ~started /\ dbPc[Consumer] = "flush" /\ dbPc'[Consumer] = "idle"
           /\ em[Consumer] = NoEm /\ mUncommitted = {} /\ Flush(Consumer)
  <2>1. em' = em /\ mUncommitted' = mUncommitted
    BY <1>4 DEF Flush
  <2>2. Managed(Consumer)' = {}
    BY <1>4, <2>1 DEF Managed
  <2> QED
    BY <1>2, <1>4, <2>1, <2>2 DEF CalmDb, Ready
<1> QED
  BY <1>1, <1>3, <1>4, CalmCall DEF ShutdownIInv

LEMMA CalmDbKept == ASSUME TypeIInv, ShutdownIInv, [AsyncNext]_asyncVars PROVE CalmDb'
<1> SUFFICES ASSUME Calm' PROVE CalmDb'
  BY DEF CalmDb
<1>1. Calm /\ failures' = failures /\ early' = early
  BY AsyncCalmBefore
<1> USE DEF ShutdownIInv
<1>2. /\ Consumer \in Thread /\ DbTypeOK
      /\ dbPc[Consumer] = "idle" => event[Consumer] = NoEvent
  BY ConsumerIsThread, TypeParts DEF TypeIInv, ThreadsTyped
<1>3. CASE UNCHANGED <<dbVars>> /\ (hookPc = "down" => hookPc' = "down")
  BY <1>1, <1>3 DEF CalmDb, Ready, HasTransaction, Batch, Managed, Stored, dbVars
<1>4. CASE StartDestination
  <2>1. /\ ~started /\ connected' = TRUE /\ LoseAllEms
        /\ UNCHANGED <<mUncommitted, db, dbPc, event>>
    <3>1. failures \in Nat
      BY TypeParts DEF TypeIInv, DataTyped
    <3> QED
      BY <1>1, <1>4, <3>1 DEF StartDestination, Start, Fail
  <2>2. /\ dbPc[Consumer] \in {"idle", "flush"} /\ mUncommitted = {}
        /\ Managed(Consumer) = {} /\ Ready(Consumer)
    BY <1>1, <2>1 DEF CalmDb, Managed
  <2>3. Managed(Consumer)' = {} /\ Stored' = Stored
    BY <2>1, LosesEms
  <2>4. Ready(Consumer)'
    BY <2>1, <2>2, <2>3 DEF Ready
  <2>5. started' = TRUE
    BY <1>4 DEF StartDestination, Start
  <2> QED
    BY <2>1, <2>2, <2>3, <2>4, <2>5 DEF CalmDb
<1>5. CASE Dequeue
  <2>1. BeginLog(Consumer, Head(queue)) /\ Head(queue) \in Event /\ hookPc' = hookPc
    BY <1>5, HeadAndTail DEF Dequeue, TypeIInv, AsyncOnlyTyped
  <2>2. started /\ UNCHANGED <<connected, started, mUncommitted>> /\ dbPc[Consumer] = "idle"
    <3>1. early' = (early \/ ~started) /\ ~early'
      BY <1>1, <2>1 DEF BeginLog, Calm, Troubled
    <3> QED
      BY <2>1, <3>1 DEF BeginLog, At
  <2>3. dbPc'[Consumer] = "connect" /\ Managed(Consumer)' = Managed(Consumer)
    BY <1>2, <2>1, BeginLogMoved
  <2>4. Ready(Consumer)'
    BY <2>3 DEF Ready
  <2> QED
    BY <1>1, <2>1, <2>2, <2>3, <2>4 DEF CalmDb
<1>6. CASE DequeueNull \/ LastFlush
  <2>1. BeginFlush(Consumer) /\ hookPc' = hookPc
    BY <1>6 DEF DequeueNull, LastFlush
  <2>2. /\ UNCHANGED <<connected, started, mUncommitted, em, event>>
        /\ dbPc[Consumer] = "idle" /\ event[Consumer] = NoEvent
    BY <1>2, <2>1 DEF BeginFlush, At
  <2>3. dbPc'[Consumer] = "flush" /\ Managed(Consumer)' = Managed(Consumer)
    BY <1>2, <2>1, BeginFlushMoved
  <2>4. mUncommitted = Managed(Consumer)
    BY <1>1, <2>2 DEF CalmDb
  <2>5. ASSUME mUncommitted # {} PROVE HasTransaction(Consumer)
    <3>1. Batch(Consumer) # <<>> /\ TheEm(Consumer).active
      BY <2>4, <2>5, EmptySet DEF Emptied, Managed, Batch
    <3> QED
      BY <1>2, <3>1, TheEmTyped, TypeParts DEF HasTransaction
  <2>6. Ready(Consumer)'
    BY <2>2, <2>3, <2>5 DEF Ready, HasTransaction
  <2> QED
    BY <1>1, <2>1, <2>2, <2>3, <2>4, <2>6 DEF CalmDb
<1>7. CASE Call
  BY <1>7, CalmDbCall
<1>8. CASE Join
  <2>1. /\ runPc = "ended" /\ hookPc' = "down" /\ LoseAllEms
        /\ UNCHANGED <<mUncommitted, db, dbPc, event, started>>
    BY <1>8 DEF Join, CleanUp
  <2>2. dbPc[Consumer] = "idle" /\ Managed(Consumer) = {}
    BY <1>1, <2>1 DEF TypeIInv, Calls, At, CalmPromise
  <2>3. mUncommitted = {} /\ Managed(Consumer)' = {} /\ em'[Consumer] = NoEm
    BY <1>1, <1>2, <2>1, <2>2, LosesEms DEF CalmDb, LoseAllEms
  <2> QED
    BY <2>1, <2>2, <2>3 DEF CalmDb, Ready
<1>9. CASE WaitToComplete
  BY <1>3, <1>9 DEF WaitToComplete
<1> QED
  BY <1>3, <1>4, <1>5, <1>6, <1>7, <1>8, <1>9, AsyncCases, OthersLeave

LEMMA CalmPromiseKept == ASSUME TypeIInv, ShutdownIInv, [AsyncNext]_asyncVars PROVE CalmPromise'
<1> SUFFICES ASSUME Calm' PROVE CalmPromise'
  BY DEF CalmPromise
<1>1. Calm /\ failures' = failures /\ early' = early
  BY AsyncCalmBefore
<1> USE DEF ShutdownIInv
<1>2. Consumer \in Thread /\ DbTypeOK
  BY ConsumerIsThread DEF TypeIInv
<1>3. runPc = "ended" => dbPc[Consumer] = "idle"
  BY DEF TypeIInv, Calls, At
<1>4. CASE Others
  <2>1. UNCHANGED <<em, db, dbPc, event, promised>> /\ (hookPc' = "down" <=> hookPc = "down")
    BY <1>4, OthersLeave DEF dbVars
  <2>2. \/ runPc' = runPc
        \/ runPc' \notin {"lastCall", "ended"}
        \/ (runPc = "lastCall" /\ dbPc[Consumer] = "idle" /\ runPc' = "ended")
    BY <1>4 DEF Others, LogEvent, QueueEvent, StartThread, While, CallReturns, At,
       BeginShutdown, Stop, asyncVars, asyncOnlyVars
  <2> QED
    BY <1>1, <2>1, <2>2, NothingMoves DEF CalmPromise
<1>5. CASE StartDestination
  <2>1. ~started /\ UNCHANGED <<db, dbPc, event, promised, hookPc, runPc>> /\ (LoseAllEms \/ UNCHANGED em)
    BY <1>5 DEF StartDestination, Start, asyncOnlyVars
  <2>2. em[Consumer] = NoEm
    BY <1>1, <2>1 DEF CalmDb
  <2>3. Managed(Consumer) = {} /\ Managed(Consumer)' = {} /\ Stored' = Stored
        /\ (Fresh(Consumer)' <=> Fresh(Consumer))
    BY <2>1, <2>2, LosesEms DEF Managed
  <2>4. Due(Consumer)' = Due(Consumer)
    BY <2>1, <2>3 DEF Due
  <2> QED
    BY <1>1, <2>1, <2>3, <2>4 DEF CalmPromise
<1>6. CASE Dequeue
  <2>1. /\ BeginLog(Consumer, Head(queue)) /\ Head(queue) \in Event
        /\ runPc' = "call" /\ UNCHANGED <<hookPc, promised>>
    BY <1>6, HeadAndTail DEF Dequeue, TypeIInv, AsyncOnlyTyped
  <2>2. Due(Consumer)' = Due(Consumer) \cup {Head(queue)} /\ Stored' = Stored
    BY <1>2, <2>1, BeginLogMoved
  <2> QED
    BY <1>1, <2>1, <2>2 DEF CalmPromise
<1>7. CASE DequeueNull \/ LastFlush
  <2>1. /\ BeginFlush(Consumer) /\ runPc' \in {"call", "lastCall"} /\ UNCHANGED <<hookPc, promised>>
    BY <1>7 DEF DequeueNull, LastFlush
  <2>2. dbPc'[Consumer] = "flush" /\ Due(Consumer)' = Due(Consumer) /\ Stored' = Stored
    BY <1>2, <2>1, BeginFlushMoved
  <2> QED
    BY <1>1, <2>1, <2>2 DEF CalmPromise
<1>8. CASE Call
  <2>1. DbStep(Consumer) /\ UNCHANGED <<runPc, hookPc, promised>>
    BY <1>8 DEF Call, asyncOnlyVars
  <2>2. runPc # "ended" /\ hookPc # "down"
    <3>1. dbPc[Consumer] # "idle"
      BY <2>1 DEF DbStep, Connect, InitOnDemand, Begin, Persist, Add, Flush, Commit, Clear, At
    <3> QED
      BY <1>3, <3>1 DEF Ending
  <2>3. Keeps(Consumer) \/ Manages(Consumer) \/ StoresBatch(Consumer)
    <3>1. CASE started /\ connected /\ Ready(Consumer)
      BY <1>1, <1>2, <2>1, <3>1, CalmStep
    <3>2. CASE dbPc[Consumer] = "flush" /\ dbPc'[Consumer] = "idle" /\ Flush(Consumer)
      BY <3>2 DEF Flush, Keeps, Batch, Fresh
    <3> QED
      BY <1>1, <1>8, <3>1, <3>2, CalmCall
  <2>4. Due(Consumer) \subseteq Due(Consumer)' \cup Stored' /\ Stored \subseteq Stored'
    BY <1>2, <2>3, CalmMoved
  <2>5. ASSUME runPc = "lastCall", dbPc'[Consumer] = "idle" PROVE Managed(Consumer)' = {}
    <3>1. dbPc[Consumer] \in {"flush", "commit", "clear"}
      BY <2>1, <2>5 DEF Ending, DbStep, Connect, InitOnDemand, Begin, Persist, Add, Flush, Commit, Clear, At
    <3>2. CASE dbPc[Consumer] = "flush"
      <4>1. Flush(Consumer)
        BY <2>1, <3>2 DEF DbStep, Connect, InitOnDemand, Begin, Persist, Add, Commit, Clear, At
      <4>2. mUncommitted = {} /\ em' = em
        <5>1. \A pc : Goto(Consumer, pc) => dbPc'[Consumer] = pc
          BY <1>2, TypeParts DEF Goto, ThreadsTyped
        <5> QED
          BY <2>5, <4>1, <5>1 DEF Flush
      <4>3. Managed(Consumer) = {}
        BY <1>1, <3>2, <4>2 DEF CalmDb
      <4> QED
        BY <4>2, <4>3 DEF Managed
    <3>3. CASE dbPc[Consumer] = "commit"
      <4>1. Commit(Consumer)
        BY <2>1, <3>3 DEF DbStep, Connect, InitOnDemand, Begin, Persist, Add, Flush, Clear, At
      <4>2. dbPc'[Consumer] = "clear"
        BY <1>2, <4>1, TypeParts DEF Commit, Goto, ThreadsTyped
      <4> QED
        BY <2>5, <4>2
    <3>4. CASE dbPc[Consumer] = "clear"
      <4>1. Batch(Consumer) = <<>>
        BY <1>1, <3>4 DEF CalmDb, Ready
      <4>2. Batch(Consumer)' = <<>>
        BY <2>3, <3>4, <4>1 DEF Keeps, Manages, StoresBatch, Fresh
      <4> QED
        BY <4>2, EmptySet DEF Batch, Managed
    <3> QED
      BY <3>1, <3>2, <3>3, <3>4
  <2> QED
    BY <1>1, <2>1, <2>2, <2>4, <2>5 DEF CalmPromise
<1>9. CASE WaitToComplete
  <2>1. /\ UNCHANGED <<em, db, dbPc, event, runPc>> /\ hookPc' = "stop" /\ queue = <<>>
        /\ promised' = ToSet(Waiting) \cup Stored
    BY <1>9 DEF WaitToComplete, dbVars
  <2>2. ToSet(Waiting) = Due(Consumer)
    BY <1>2, <2>1, WaitingParts, EmptySet DEF TypeIInv, AsyncOnlyTyped
  <2> QED
    BY <1>1, <2>1, <2>2, NothingMoves DEF CalmPromise
<1>10. CASE Join
  <2>1. /\ runPc = "ended" /\ runPc' = "ended" /\ LoseAllEms
        /\ UNCHANGED <<db, dbPc, event, promised>>
    BY <1>10 DEF Join, CleanUp
  <2>2. Managed(Consumer) = {} /\ dbPc[Consumer] = "idle"
    BY <1>1, <1>3, <2>1 DEF CalmPromise
  <2>3. Due(Consumer) = {}
    BY <2>2 DEF Due, Fresh
  <2>4. Managed(Consumer)' = {} /\ Stored' = Stored
    BY <2>1, LosesEms
  <2> QED
    BY <1>1, <2>1, <2>3, <2>4 DEF CalmPromise
<1> QED
  BY <1>4, <1>5, <1>6, <1>7, <1>8, <1>9, <1>10, AsyncCases

THEOREM AsyncShutdownIInv == AsyncSpec => []ShutdownIInv
<1>1. AsyncInit => ShutdownIInv
  <2> SUFFICES ASSUME AsyncInit PROVE ShutdownIInv
    OBVIOUS
  <2>1. em[Consumer] = NoEm /\ dbPc[Consumer] = "idle"
    BY ConsumerIsThread DEF AsyncInit, DbInit
  <2>2. Emptied
    BY <2>1 DEF Emptied, Batch
  <2>3. CalmDb
    BY <2>1 DEF AsyncInit, DbInit, CalmDb, Ready, Managed
  <2>4. Ending /\ CalmPromise
    BY DEF AsyncInit, Ending, CalmPromise
  <2> QED
    BY <2>2, <2>3, <2>4 DEF ShutdownIInv
<1>2. TypeIInv /\ ShutdownIInv /\ [AsyncNext]_asyncVars => ShutdownIInv'
  BY EmptiedKept, CalmDbKept, EndingKept, CalmPromiseKept DEF ShutdownIInv
<1> QED
  BY <1>1, <1>2, AsyncTypeIInv, PTL DEF AsyncSpec

\* ShutdownStoresPromised: with no trouble, what waitToComplete() waited for is
\* in the database when stop() has returned.
THEOREM AsyncShutdownStores == AsyncSpec => []ShutdownStoresPromised
<1>1. ShutdownIInv => ShutdownStoresPromised
  BY DEF ShutdownIInv, CalmPromise, Calm, ShutdownStoresPromised
<1> QED
  BY <1>1, AsyncShutdownIInv, PTL

-----------------------------------------------------------------------------
(* The refinement of AuditTrail.  What waits is the consumer's transaction, *)
(* the event in its hand and the queue, in this order: a step of AsyncAudit *)
(* stores a front part of it, loses a part in the middle, appends an event, *)
(* or leaves it as it is while an event moves from one of the three to the  *)
(* one before it.                                                           *)

LEMMA FrontAndRest ==
  ASSUME NEW S, NEW a \in Seq(S), NEW b \in Seq(S)
  PROVE  /\ a \o b \in Seq(S) /\ Len(a) \in Nat /\ Len(b) \in Nat /\ Len(a \o b) = Len(a) + Len(b)
         /\ SubSeq(a \o b, 1, Len(a)) = a
         /\ SubSeq(a \o b, Len(a) + 1, Len(a \o b)) = b
<1> DEFINE w == a \o b
<1>1. /\ w \in Seq(S) /\ Len(a) \in Nat /\ Len(b) \in Nat /\ Len(w) = Len(a) + Len(b)
      /\ \A i \in 1 .. Len(a) + Len(b) : w[i] = IF i <= Len(a) THEN a[i] ELSE b[i - Len(a)]
  BY ConcatProperties, LenProperties
<1>2. \A i \in 1 .. Len(w) : w[i] \in S
  BY <1>1, ElementOfSeq
<1> HIDE DEF w
<1>3. SubSeq(w, 1, Len(a)) = a
  <2> DEFINE u == SubSeq(w, 1, Len(a))
  <2>1. /\ u \in Seq(S)
        /\ Len(u) = IF 1 <= Len(a) THEN Len(a) - 1 + 1 ELSE 0
        /\ \A i \in 1 .. Len(a) - 1 + 1 : u[i] = w[1 + i - 1]
    BY <1>1, <1>2, SubSeqProperties
  <2> HIDE DEF u
  <2>2. Len(u) = Len(a) /\ \A i \in 1 .. Len(u) : u[i] = a[i]
    BY <1>1, <2>1
  <2>3. u = a
    BY <2>1, <2>2, SeqEqual
  <2> QED
    BY <2>3 DEF u
<1>4. SubSeq(w, Len(a) + 1, Len(w)) = b
  <2> DEFINE u == SubSeq(w, Len(a) + 1, Len(w))
  <2>1. /\ u \in Seq(S)
        /\ Len(u) = IF Len(a) + 1 <= Len(w) THEN Len(w) - (Len(a) + 1) + 1 ELSE 0
        /\ \A i \in 1 .. Len(w) - (Len(a) + 1) + 1 : u[i] = w[Len(a) + 1 + i - 1]
    BY <1>1, <1>2, SubSeqProperties
  <2> HIDE DEF u
  <2>2. Len(u) = Len(b)
    BY <1>1, <2>1
  <2>3. ASSUME NEW i \in 1 .. Len(u) PROVE u[i] = b[i]
    <3>1. /\ Len(a) + 1 + i - 1 = Len(a) + i /\ Len(a) + i \in 1 .. Len(a) + Len(b)
          /\ ~(Len(a) + i <= Len(a)) /\ Len(a) + i - Len(a) = i
          /\ i \in 1 .. Len(w) - (Len(a) + 1) + 1
      BY <1>1, <2>2
    <3>2. u[i] = w[Len(a) + i]
      BY <2>1, <3>1
    <3> QED
      BY <1>1, <3>1, <3>2
  <2>4. u = b
    BY <2>1, <2>2, <2>3, SeqEqual
  <2> QED
    BY <2>4 DEF u
<1> QED
  BY <1>1, <1>3, <1>4 DEF w

LEMMA WithoutMiddle ==
  ASSUME NEW a \in Seq(Event), NEW b \in Seq(Event), NEW c \in Seq(Event)
  PROVE  \E i, j \in 0 .. Len(a \o b \o c) :
            /\ i <= j
            /\ a \o c = SubSeq(a \o b \o c, 1, i) \o SubSeq(a \o b \o c, j + 1, Len(a \o b \o c))
<1> DEFINE w == a \o b \o c
<1>1. /\ a \o b \in Seq(Event) /\ b \o c \in Seq(Event) /\ w = a \o (b \o c)
      /\ Len(a) \in Nat /\ Len(b) \in Nat /\ Len(c) \in Nat
      /\ Len(a \o b) = Len(a) + Len(b)
  BY ConcatAssociative, FrontAndRest
<1>2. SubSeq(w, 1, Len(a)) = a
  BY <1>1, FrontAndRest
<1>3. /\ SubSeq(w, Len(a \o b) + 1, Len(w)) = c
      /\ Len(w) = Len(a \o b) + Len(c)
  BY <1>1, FrontAndRest
<1> HIDE DEF w
<1>4. Len(a) \in 0 .. Len(w) /\ Len(a \o b) \in 0 .. Len(w) /\ Len(a) <= Len(a \o b)
  BY <1>1, <1>3
<1> QED
  BY <1>2, <1>3, <1>4 DEF w

LEMMA TroubleStays == TypeIInv /\ [AsyncNext]_asyncVars => (Troubled => Troubled')
BY AsyncCalmBefore DEF Calm

LEMMA TrailStutters ==
  ASSUME Waiting' = Waiting, db' = db, Troubled => Troubled'
  PROVE  [Trail!TrailNext]_(Trail!trailVars)
<1>1. CASE Troubled'
  BY <1>1 DEF Trail!TrailNext, Trail!Trouble
<1>2. CASE ~Troubled'
  <2>1. Troubled' = Troubled
    BY <1>2 DEF Troubled
  <2> QED
    BY <2>1 DEF Trail!trailVars
<1> QED
  BY <1>1, <1>2

LEMMA TrailLoses ==
  ASSUME Troubled', db' = db, NEW a \in Seq(Event), NEW b \in Seq(Event), NEW c \in Seq(Event),
         Waiting = a \o b \o c, Waiting' = a \o c
  PROVE  [Trail!TrailNext]_(Trail!trailVars)
<1>1. \E i, j \in 0 .. Len(Waiting) :
         i <= j /\ Waiting' = SubSeq(Waiting, 1, i) \o SubSeq(Waiting, j + 1, Len(Waiting))
  <2>1. \E i, j \in 0 .. Len(a \o b \o c) :
            /\ i <= j
            /\ a \o c = SubSeq(a \o b \o c, 1, i) \o SubSeq(a \o b \o c, j + 1, Len(a \o b \o c))
    BY WithoutMiddle
  <2> QED
    BY <2>1
<1>2. Trail!Lose
  BY <1>1 DEF Trail!Lose
<1> QED
  BY <1>2 DEF Trail!TrailNext

LEMMA TrailStores ==
  ASSUME Troubled => Troubled', NEW a \in Seq(Event), NEW b \in Seq(Event),
         Waiting = a \o b, Waiting' = b, db' = db \o a, db \in Seq(Event)
  PROVE  [Trail!TrailNext]_(Trail!trailVars)
<1>1. CASE a = <<>>
  <2>1. Waiting' = Waiting /\ db' = db
    BY <1>1, ConcatEmptySeq
  <2> QED
    BY <2>1, TrailStutters
<1>2. CASE a # <<>>
  <2>1. /\ Len(a) \in 1 .. Len(Waiting)
        /\ a = SubSeq(Waiting, 1, Len(a))
        /\ b = SubSeq(Waiting, Len(a) + 1, Len(Waiting))
    BY <1>2, EmptySeq, FrontAndRest
  <2>2. Trail!StoreFirst(Len(a))
    BY <2>1 DEF Trail!StoreFirst
  <2>3. UNCHANGED Troubled \/ Trail!Trouble
    <3>1. CASE Troubled'
      BY <3>1 DEF Trail!Trouble, Troubled
    <3>2. CASE ~Troubled'
      BY <3>2 DEF Troubled
    <3> QED
      BY <3>1, <3>2
  <2> QED
    BY <2>1, <2>2, <2>3 DEF Trail!TrailNext
<1> QED
  BY <1>1, <1>2

LEMMA Empties == \A s \in Seq(Event) : s \o <<>> = s /\ <<>> \o s = s
BY ConcatEmptySeq

LEMMA Associates == \A a, b, c \in Seq(Event) : a \o b \in Seq(Event) /\ (a \o b) \o c = a \o (b \o c)
BY ConcatAssociative, ConcatProperties

\* The transaction is lost, with the connection.
LEMMA BatchLost ==
  ASSUME DbTypeOK, queue \in Seq(Event), Troubled => Troubled',
         Batch(Consumer)' = Batch(Consumer) \/ Batch(Consumer)' = <<>>,
         Hand' = Hand, UNCHANGED <<db, queue>>,
         Troubled' \/ Batch(Consumer) = <<>>
  PROVE  [Trail!TrailNext]_(Trail!trailVars)
<1> DEFINE b == Batch(Consumer)
<1>1. b \in Seq(Event) /\ Hand \in Seq(Event) /\ queue \in Seq(Event) /\ Waiting = b \o Hand \o queue
  BY WaitingParts
<1>2. Waiting' = Batch(Consumer)' \o Hand \o queue
  BY DEF Waiting, Batch, Hand, Fresh
<1>3. CASE b' = b
  BY <1>1, <1>2, <1>3, TrailStutters
<1>4. CASE b' = <<>> /\ Troubled'
  <2>1. <<>> \in Seq(Event) /\ Hand \o queue \in Seq(Event)
    BY <1>1, EmptySeq, Associates
  <2>2. Waiting = <<>> \o b \o (Hand \o queue)
    BY <1>1, Empties, Associates
  <2>3. Waiting' = <<>> \o (Hand \o queue)
    BY <1>1, <1>2, <1>4, <2>1, Empties, Associates
  <2> QED
    BY <1>1, <1>4, <2>1, <2>2, <2>3, TrailLoses
<1> QED
  BY <1>3, <1>4

LEMMA CallTrail ==
  ASSUME TypeIInv, ShutdownIInv, Call PROVE [Trail!TrailNext]_(Trail!trailVars)
<1> USE DEF TypeIInv, AsyncOnlyTyped
<1> DEFINE t == Consumer
           b == Batch(t)
           e == event[t]
<1>1. /\ b \in Seq(Event) /\ Hand \in Seq(Event) /\ queue \in Seq(Event) /\ db \in Seq(Event)
      /\ Waiting = b \o Hand \o queue
      /\ Fresh(t) => e \in Event
  BY WaitingParts, ConsumerIsThread, TypeParts DEF DataTyped, ThreadsTyped, Fresh
<1>2. DbStep(t) /\ queue' = queue
  BY DEF Call, asyncOnlyVars
<1>3. Waiting' = b' \o Hand' \o queue
  BY <1>2 DEF Waiting, Batch, Hand, Fresh
<1>4. Troubled => Troubled'
  BY TroubleStays DEF AsyncNext, ConsumerNext
<1>5. <<>> \in Seq(Event)
  BY EmptySeq
<1>6. /\ Fresh(t) => Hand = <<e>>
      /\ ~Fresh(t) => Hand = <<>>
      /\ ~Fresh(t)' => Hand' = <<>>
      /\ (Fresh(t)' <=> Fresh(t)) /\ (Fresh(t) => event'[t] = e) => Hand' = Hand
  BY DEF Hand
<1>7. CASE Keeps(t)
  BY <1>1, <1>3, <1>4, <1>6, <1>7, TrailStutters DEF Keeps
<1>8. CASE Manages(t)
  <2>1. Append(b, e) = b \o <<e>> /\ b \o <<e>> \in Seq(Event)
    BY <1>1, <1>8, AppendIsConcat, AppendProperties DEF Manages
  <2>2. Waiting' = b \o <<e>> \o <<>> \o queue
    BY <1>3, <1>6, <1>8, <2>1 DEF Manages
  <2>3. Waiting' = Waiting /\ db' = db
    BY <1>1, <1>6, <1>8, <2>1, <2>2, Empties DEF Manages
  <2> QED
    BY <1>4, <2>3, TrailStutters
<1>9. CASE StoresBatch(t)
  <2>1. Waiting = b \o queue
    BY <1>1, <1>6, <1>9, Empties DEF StoresBatch
  <2>2. Waiting' = queue /\ db' = db \o b
    BY <1>1, <1>3, <1>5, <1>6, <1>9, Empties DEF StoresBatch
  <2> QED
    BY <1>1, <1>4, <2>1, <2>2, TrailStores
<1>10. CASE StoresOne(t)
  <2>1. b = <<>>
    BY <1>10 DEF StoresOne, ShutdownIInv, Emptied
  <2>2. /\ <<e>> \in Seq(Event) /\ db' = db \o <<e>>
    BY <1>1, <1>10, SingletonSet, AppendIsConcat DEF StoresOne
  <2>3. Waiting = <<e>> \o queue
    BY <1>1, <1>6, <1>10, <2>1, <2>2, Empties DEF StoresOne
  <2>4. Waiting' = queue
    BY <1>1, <1>3, <1>5, <1>6, <1>10, <2>1, Empties DEF StoresOne
  <2> QED
    BY <1>1, <1>4, <2>2, <2>3, <2>4, TrailStores
<1>11. CASE DropsOne(t) /\ Troubled'
  <2>1. Waiting' = b \o queue /\ db' = db
    BY <1>1, <1>3, <1>6, <1>11, Empties DEF DropsOne
  <2> QED
    BY <1>1, <1>11, <2>1, TrailLoses
<1>12. CASE DropsBatch(t) /\ Troubled'
  BY <1>1, <1>2, <1>4, <1>6, <1>12, BatchLost DEF DropsBatch
<1>13. ASSUME ~Troubled' PROVE Keeps(t) \/ Manages(t) \/ StoresBatch(t)
  <2>1. Calm /\ failures' = failures
    BY <1>13, AsyncCalmBefore DEF AsyncNext, ConsumerNext, Calm
  <2>2. CASE connected /\ Ready(t)
    BY <1>2, <2>1, <2>2, CalmStep, ConsumerIsThread
  <2>3. CASE dbPc[t] = "flush" /\ dbPc'[t] = "idle" /\ Flush(t)
    BY <2>3 DEF Flush, Keeps, Batch, Fresh
  <2> QED
    BY <2>1, <2>2, <2>3, CalmCall DEF ShutdownIInv
<1> QED
  BY <1>2, <1>7, <1>8, <1>9, <1>10, <1>11, <1>12, <1>13, OwnMoved, ConsumerIsThread

LEMMA AsyncStepTrail ==
  ASSUME TypeIInv, ShutdownIInv, [AsyncNext]_asyncVars
  PROVE  [Trail!TrailNext]_(Trail!trailVars)
<1> USE DEF TypeIInv, AsyncOnlyTyped
<1> DEFINE b == Batch(Consumer)
<1>1. /\ b \in Seq(Event) /\ Hand \in Seq(Event) /\ queue \in Seq(Event)
      /\ Waiting = b \o Hand \o queue /\ Waiting \in Seq(Event)
      /\ ToSet(Waiting) \cup Stored \subseteq offered
  BY WaitingParts DEF Contained
<1>2. Waiting' = b' \o Hand' \o queue'
  BY DEF Waiting, Batch, Hand, Fresh
<1>3. Troubled => Troubled'
  BY TroubleStays
<1>4. UNCHANGED <<dbPc, event>> => Hand' = Hand
  BY DEF Hand, Fresh
<1>5. em' = em => b' = b
  BY DEF Batch
<1>6. CASE UNCHANGED dbVars /\ queue' = queue
  BY <1>1, <1>2, <1>3, <1>4, <1>5, <1>6, TrailStutters DEF dbVars
<1>7. CASE LogEvent
  <2> PICK e \in Event \ offered : QueueEvent(e)
    BY <1>7 DEF LogEvent
  <2>1. UNCHANGED dbVars /\ (queue' = queue \/ queue' = Append(queue, e))
    BY DEF QueueEvent
  <2>2. CASE queue' = Append(queue, e)
    <3>1. Append(queue, e) = queue \o <<e>> /\ <<e>> \in Seq(Event)
      BY <1>1, AppendIsConcat, SingletonSet
    <3>2. Waiting' = b \o Hand \o (queue \o <<e>>)
      BY <1>2, <1>4, <1>5, <2>1, <2>2, <3>1 DEF dbVars
    <3>3. Waiting' = Waiting \o <<e>>
      <4>1. b \o Hand \in Seq(Event)
        BY <1>1, Associates
      <4>2. \A s \in Seq(Event) : s \o (queue \o <<e>>) = (s \o queue) \o <<e>>
        BY <1>1, <3>1, Associates
      <4> QED
        BY <1>1, <3>2, <4>1, <4>2
    <3>4. Waiting' = Append(Waiting, e)
      BY <1>1, <3>3, AppendIsConcat
    <3>5. UNCHANGED <<db, Troubled>> /\ e \notin ToSet(Waiting) \cup Stored
      BY <1>1, <2>1 DEF dbVars, Troubled
    <3>6. Trail!Accept(e)
      BY <3>4, <3>5 DEF Trail!Accept, Trail!ToSet, ToSet, Stored
    <3> QED
      BY <3>6 DEF Trail!TrailNext
  <2> QED
    BY <1>6, <2>1, <2>2
<1>8. CASE StartDestination
  <2>1. /\ UNCHANGED <<db, dbPc, event, queue>> /\ ~started
        /\ LoseAllEms \/ UNCHANGED em
    BY <1>8 DEF StartDestination, Start, asyncOnlyVars
  <2>2. b' = b \/ b' = <<>>
    BY <2>1, LosesEms
  <2>3. Troubled' \/ b = <<>>
    BY <1>3, <2>1 DEF ShutdownIInv, CalmDb, Calm, Batch
  <2> QED
    BY <1>1, <1>3, <1>4, <2>1, <2>2, <2>3, BatchLost
<1>9. CASE Dequeue
  <2>1. /\ BeginLog(Consumer, Head(queue)) /\ Head(queue) \in Event /\ Tail(queue) \in Seq(Event)
        /\ queue' = Tail(queue) /\ queue = <<Head(queue)>> \o Tail(queue)
    BY <1>9, HeadAndTail DEF Dequeue
  <2>2. /\ Hand = <<>> /\ Hand' = <<Head(queue)>> /\ b' = b
    BY <2>1, BeginLogMoved DEF Hand
  <2>3. db' = db
    BY <2>1 DEF BeginLog
  <2>4. Waiting' = b \o (<<Head(queue)>> \o Tail(queue))
    <3>1. <<Head(queue)>> \in Seq(Event)
      BY <2>1, SingletonSet
    <3> QED
      BY <1>1, <1>2, <2>1, <2>2, <3>1, Associates
  <2>5. Waiting = b \o queue
    BY <1>1, <2>2, Empties
  <2> QED
    BY <1>3, <2>1, <2>3, <2>4, <2>5, TrailStutters
<1>10. CASE DequeueNull \/ LastFlush
  <2>1. BeginFlush(Consumer) /\ queue' = queue
    BY <1>10 DEF DequeueNull, LastFlush
  <2>2. Hand = <<>> /\ Hand' = <<>> /\ b' = b
    BY <2>1, BeginFlushMoved DEF Hand
  <2>3. db' = db
    BY <2>1 DEF BeginFlush
  <2> QED
    BY <1>1, <1>2, <1>3, <2>1, <2>2, <2>3, TrailStutters
<1>11. CASE Call
  BY <1>11, CallTrail
<1>12. CASE Join
  <2>1. /\ UNCHANGED <<db, dbPc, event, queue>> /\ runPc = "ended" /\ LoseAllEms
    BY <1>12 DEF Join, CleanUp
  <2>2. b' = <<>>
    BY <2>1, ConsumerIsThread DEF LoseAllEms, Batch
  <2>3. Troubled' \/ b = <<>>
    <3>1. Troubled' \/ Managed(Consumer) = {}
      BY <1>3, <2>1 DEF ShutdownIInv, CalmPromise, Calm
    <3>2. ToSet(b) = {} => b = <<>>
      <4> HIDE DEF b
      <4>1. b # <<>> => 1 \in DOMAIN b
        BY <1>1, EmptySeq, LenProperties
      <4> QED
        BY <4>1 DEF ToSet
    <3> QED
      BY <3>1, <3>2, BatchTyped, ConsumerIsThread
  <2> QED
    BY <1>1, <1>3, <1>4, <2>1, <2>2, <2>3, BatchLost
<1>13. CASE WaitToComplete
  BY <1>6, <1>13 DEF WaitToComplete
<1> QED
  BY <1>6, <1>7, <1>8, <1>9, <1>10, <1>11, <1>12, <1>13, AsyncCases, OthersLeave
     DEF Others, StartThread, While, CallReturns, BeginShutdown, Stop, asyncVars, asyncOnlyVars

\* ImplementsTrail: events are stored once, in the order of their acceptance,
\* and none is lost without trouble.
THEOREM AsyncImplementsTrail == AsyncSpec => ImplementsTrail
<1>1. AsyncInit => Trail!TrailInit
  <2> SUFFICES ASSUME AsyncInit PROVE Waiting = <<>> /\ db = <<>> /\ Troubled = FALSE
    BY DEF Trail!TrailInit
  <2>1. Batch(Consumer) = <<>> /\ Hand = <<>> /\ queue = <<>>
    BY ConsumerIsThread DEF AsyncInit, DbInit, Batch, Hand, Fresh
  <2>2. Waiting = <<>> \o <<>> \o <<>>
    BY <2>1 DEF Waiting, Batch, Hand, Fresh
  <2>3. Waiting = <<>>
    BY <2>2, Empties, EmptySeq
  <2> QED
    BY <2>3 DEF AsyncInit, DbInit, Troubled
<1>2. TypeIInv /\ ShutdownIInv /\ [AsyncNext]_asyncVars => [Trail!TrailNext]_(Trail!trailVars)
  BY AsyncStepTrail
<1> QED
  BY <1>1, <1>2, AsyncTypeIInv, AsyncShutdownIInv, PTL DEF AsyncSpec, ImplementsTrail, Trail!TrailSpec
=============================================================================
