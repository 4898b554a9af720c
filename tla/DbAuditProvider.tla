-------------------------- MODULE DbAuditProvider --------------------------
(***************************************************************************)
(* The provider that stores audit events in the database through JPA, a    *)
(* batch per transaction.  Every thread that logs has an EntityManager of  *)
(* its own (DaoManager keeps them in a static ThreadLocal), hence its own  *)
(* transaction; mUncommitted and the connection are shared by all, without *)
(* any lock.  A thread's log() is split where another one can come in      *)
(* between.                                                                *)
(*                                                                         *)
(* The module is open: SyncAudit calls it from many threads, AsyncAudit    *)
(* from one.                                                               *)
(***************************************************************************)
EXTENDS Naturals, Sequences, FiniteSets, SequencesExt

CONSTANTS
    Thread,        \* the threads that call the provider
    Event,         \* audit events
    NoEvent,       \* no event in hand
    NoEm,          \* the thread has no EntityManager
    BatchSize,     \* mCommitBatchSize
    MaxFailures    \* bound on the failures of the database

ASSUME DbAssumption ==
    /\ NoEvent \notin Event
    /\ BatchSize \in Nat \ {0}
    /\ MaxFailures \in Nat

\* An EntityManager: is its transaction active, and what was persisted in it.
Em == [active : BOOLEAN, managed : Seq(Event)]
ASSUME NoEmAssumption == NoEm \notin Em
NewEm == [active |-> FALSE, managed |-> <<>>]

VARIABLES
    connected,     \* daoManager # null
    em,            \* each thread's EntityManager, while it can be reached
    mUncommitted,  \* the events logged since the last commit
    db,            \* the events committed, in order
    dbPc,          \* where each thread is in log() or flush()
    event,         \* the event each thread is logging
    failures,      \* failures of the database so far
    started,       \* start() has run
    early          \* some event was logged before start() had run

dbVars == <<connected, em, mUncommitted, db, dbPc, event, failures, started, early>>

\* Every variable has its type, and a thread holds an event from the call of
\* log() until the event is handed to the transaction.
DbTypeOK ==
    /\ connected \in BOOLEAN
    /\ em \in [Thread -> Em \cup {NoEm}]
    /\ mUncommitted \subseteq Event
    /\ db \in Seq(Event)
    /\ dbPc \in [Thread -> {"idle", "connect", "init", "begin", "persist",
                            "add", "flush", "commit", "clear"}]
    /\ event \in [Thread -> Event \cup {NoEvent}]
    /\ failures \in 0 .. MaxFailures
    /\ started \in BOOLEAN /\ early \in BOOLEAN
    /\ \A t \in Thread :
        /\ dbPc[t] = "idle" => event[t] = NoEvent
        /\ dbPc[t] \in {"connect", "init", "begin", "persist", "add"} => event[t] # NoEvent

DbInit ==
    /\ connected = FALSE
    /\ em = [t \in Thread |-> NoEm]
    /\ mUncommitted = {}
    /\ db = <<>>
    /\ dbPc = [t \in Thread |-> "idle"]
    /\ event = [t \in Thread |-> NoEvent]
    /\ failures = 0
    /\ started = FALSE /\ early = FALSE

-----------------------------------------------------------------------------
At(t, pc) == dbPc[t] = pc
Goto(t, pc) == dbPc' = [dbPc EXCEPT ![t] = pc]

\* Variant: log() gives up without letting go of its event.
ReturnKeepsEvent(t) ==
    /\ Goto(t, "idle")
    /\ UNCHANGED event

\* log() returns, or throws: the event is no longer this thread's concern.
Return(t) ==
    /\ Goto(t, "idle")
    /\ event' = [event EXCEPT ![t] = NoEvent]

Fail ==
    /\ failures < MaxFailures
    /\ failures' = failures + 1

\* DaoManager.getEntityManager makes one for a thread that has none.
TheEm(t) == IF em[t] = NoEm THEN NewEm ELSE em[t]

\* DaoManager.setEntityManagerFactory replaces the ThreadLocal: every thread
\* loses its EntityManager.  cleanUp closes them with their factory.
LoseAllEms == em' = [t \in Thread |-> NoEm]

CleanUp == connected' = FALSE /\ LoseAllEms

\* start() runs init() on the thread that starts the provider.
Start ==
    /\ ~started
    /\ started' = TRUE
    /\ \/ connected' = TRUE /\ LoseAllEms /\ UNCHANGED failures
       \/ Fail /\ UNCHANGED <<connected, em>>
    /\ UNCHANGED <<mUncommitted, db, dbPc, event, early>>

BeginLog(t, e) ==
    /\ At(t, "idle")
    /\ event' = [event EXCEPT ![t] = e]
    /\ early' = (early \/ ~started)
    /\ Goto(t, "connect")
    /\ UNCHANGED <<connected, em, mUncommitted, db, failures, started>>

\* preCreate: isDbConnected() ...
Connect(t) ==
    /\ At(t, "connect")
    /\ IF connected
       THEN em' = [em EXCEPT ![t] = TheEm(t)] /\ Goto(t, "begin")
       ELSE UNCHANGED em /\ Goto(t, "init")
    /\ UNCHANGED <<connected, mUncommitted, db, event, failures, started, early>>

\* ... or init(), which gives the event up if it fails.
InitOnDemand(t) ==
    /\ At(t, "init")
    /\ \/ connected' = TRUE /\ LoseAllEms /\ Goto(t, "begin") /\ UNCHANGED <<event, failures>>
       \/ Fail /\ Return(t) /\ UNCHANGED <<connected, em>>
    /\ UNCHANGED <<mUncommitted, db, started, early>>

\* preCreate: beginTransaction, unless the thread's one is active.
Begin(t) ==
    /\ At(t, "begin")
    /\ IF connected
       THEN /\ em' = [em EXCEPT ![t] = [TheEm(t) EXCEPT !.active = TRUE]]
            /\ Goto(t, "persist")
            /\ UNCHANGED event
       ELSE UNCHANGED em /\ Return(t)
    /\ UNCHANGED <<connected, mUncommitted, db, failures, started, early>>

\* Variant: create() commits the event at once and leaves it in the transaction.
PersistCommitting(t) ==
    /\ At(t, "persist")
    /\ connected
    /\ em' = [em EXCEPT ![t] = [TheEm(t) EXCEPT !.managed = Append(@, event[t])]]
    /\ db' = Append(db, event[t])
    /\ Goto(t, "add")
    /\ UNCHANGED <<connected, mUncommitted, event, failures, started, early>>

\* event.persist(daoManager): BaseDao.create commits at once if the transaction
\* begun before is gone, and a null daoManager is a NullPointerException.
Persist(t) ==
    /\ At(t, "persist")
    /\ \/ /\ connected
          /\ LET m == TheEm(t) IN
             IF m.active
             THEN /\ em' = [em EXCEPT ![t] = [m EXCEPT !.managed = Append(@, event[t])]]
                  /\ UNCHANGED db
             ELSE em' = [em EXCEPT ![t] = m] /\ db' = Append(db, event[t])
          /\ Goto(t, "add")
          /\ UNCHANGED <<event, failures>>
       \/ ~connected /\ Return(t) /\ UNCHANGED <<em, db, failures>>
       \/ connected /\ Fail /\ Return(t) /\ UNCHANGED <<em, db>>
    /\ UNCHANGED <<connected, mUncommitted, started, early>>

\* mUncommitted is an ArrayList without a lock: an add that runs beside
\* another thread's add or clear may be lost, a clear beside an add undone.
Beside(t, pcs) == \E u \in Thread \ {t} : dbPc[u] \in pcs

\* postCreate: a full batch is flushed.
Add(t) ==
    /\ At(t, "add")
    /\ \/ mUncommitted' = mUncommitted \cup {event[t]}
       \/ Beside(t, {"add", "clear"}) /\ UNCHANGED mUncommitted
    /\ IF Cardinality(mUncommitted') % BatchSize = 0
       THEN Goto(t, "flush") /\ UNCHANGED event
       ELSE Return(t)
    /\ UNCHANGED <<connected, em, db, failures, started, early>>

\* flush() called from outside log().
BeginFlush(t) ==
    /\ At(t, "idle")
    /\ Goto(t, "flush")
    /\ UNCHANGED <<connected, em, mUncommitted, db, event, failures, started, early>>

Flush(t) ==
    /\ At(t, "flush")
    /\ IF mUncommitted = {} THEN Return(t) ELSE Goto(t, "commit") /\ UNCHANGED event
    /\ UNCHANGED <<connected, em, mUncommitted, db, failures, started, early>>

InTransaction(t) == connected /\ TheEm(t).active

\* Variant: every commit closes the connection.
CommitDisconnects(t) ==
    /\ At(t, "commit")
    /\ db' = IF InTransaction(t) THEN db \o em[t].managed ELSE db
    /\ CleanUp
    /\ Goto(t, "clear")
    /\ UNCHANGED <<mUncommitted, event, failures, started, early>>

\* commitTransaction: an exception does not tell whether the commit was done.
\* Its handler reads mUncommitted for the log, which can itself throw while
\* another thread changes the list, and then skips cleanUp().
Commit(t) ==
    /\ At(t, "commit")
    /\ \/ /\ InTransaction(t)
          /\ db' = db \o em[t].managed
          /\ em' = [em EXCEPT ![t] = NewEm]
          /\ UNCHANGED <<connected, failures>>
       \/ /\ InTransaction(t)
          /\ Fail
          /\ db' \in {db, db \o em[t].managed}
          /\ \/ CleanUp
             \/ /\ Beside(t, {"add", "clear"})
                /\ em' = [em EXCEPT ![t] = NewEm]
                /\ UNCHANGED connected
       \/ /\ ~InTransaction(t)
          /\ CleanUp
          /\ UNCHANGED <<db, failures>>
    /\ Goto(t, "clear")
    /\ UNCHANGED <<mUncommitted, event, started, early>>

\* ... and its finally block.
Clear(t) ==
    /\ At(t, "clear")
    /\ \/ mUncommitted' = {}
       \/ Beside(t, {"add"}) /\ UNCHANGED mUncommitted
    /\ em' = [em EXCEPT ![t] = IF connected THEN [TheEm(t) EXCEPT !.managed = <<>>] ELSE @]
    /\ Return(t)
    /\ UNCHANGED <<connected, db, failures, started, early>>

\* The steps of a thread that is inside log() or flush().
DbStep(t) ==
    \/ Connect(t)
    \/ InitOnDemand(t)
    \/ Begin(t)
    \/ Persist(t)
    \/ Add(t)
    \/ Flush(t)
    \/ Commit(t)
    \/ Clear(t)

-----------------------------------------------------------------------------
Managed(t) == IF em[t] = NoEm THEN {} ELSE ToSet(em[t].managed)
Stored == ToSet(db)
=============================================================================
