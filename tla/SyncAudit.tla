------------------------------ MODULE SyncAudit ------------------------------
(***************************************************************************)
(* Synchronous auditing to the database: AuditProviderFactory publishes    *)
(* the DbAuditProvider before it starts it, and every thread of the host   *)
(* service logs into it directly, with a batch of one.                     *)
(***************************************************************************)
EXTENDS DbAuditProvider

VARIABLE logged   \* the events whose log() has been called

syncVars == <<dbVars, logged>>

SyncInit == DbInit /\ logged = {}

Log(t) ==
    \E e \in Event \ logged :
        /\ BeginLog(t, e)
        /\ logged' = logged \cup {e}

SyncNext ==
    \/ Start /\ UNCHANGED logged
    \/ \E t \in Thread : Log(t)
    \/ \E t \in Thread : DbStep(t) /\ UNCHANGED logged

SyncSpec == SyncInit /\ [][SyncNext]_syncVars

-----------------------------------------------------------------------------
InHand == {event[t] : t \in Thread} \ {NoEvent}
Pending == UNION {Managed(t) : t \in Thread}

\* No event is stored twice, whatever threads, failures and reconnections do.
StoredOnce == IsInjective(db)

\* As long as the database does not fail, and start() came first, an event is
\* in hand, pending in some thread's transaction, or stored: threads that
\* commit at the same time do not lose each other's events.
NothingLostWithoutFailure ==
    failures = 0 /\ ~early => logged \subseteq InHand \cup Pending \cup Stored
=============================================================================
