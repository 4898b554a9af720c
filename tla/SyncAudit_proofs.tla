-------------------------- MODULE SyncAudit_proofs --------------------------
(***************************************************************************)
(* Synchronous auditing, for any number of threads, any size of batch and  *)
(* any number of failures: no event is stored twice, and threads that log  *)
(* at the same time do not lose each other's events.                       *)
(***************************************************************************)
EXTENDS SyncAudit, DbAuditProvider_proofs

SyncTypeOK == DbTypeOK /\ logged \subseteq Event

\* The variables of the provider keep their types.
THEOREM SyncTyped == SyncSpec => []SyncTypeOK
<1>1. SyncInit => SyncTypeOK
  BY InitTyped DEF SyncInit, SyncTypeOK
<1>2. SyncTypeOK /\ [SyncNext]_syncVars => SyncTypeOK'
  <2> SUFFICES ASSUME SyncTypeOK, [SyncNext]_syncVars PROVE SyncTypeOK'
    OBVIOUS
  <2> USE DEF SyncTypeOK
  <2>1. CASE Start /\ UNCHANGED logged
    BY <2>1, StartTyped
  <2>2. ASSUME NEW t \in Thread, Log(t) PROVE SyncTypeOK'
    BY <2>2, BeginLogTyped DEF Log
  <2>3. ASSUME NEW t \in Thread, DbStep(t) /\ UNCHANGED logged PROVE SyncTypeOK'
    BY <2>3, StepTyped
  <2>4. CASE UNCHANGED syncVars
    BY <2>4, StutterTyped DEF syncVars
  <2> QED
    BY <2>1, <2>2, <2>3, <2>4 DEF SyncNext
<1> QED
  BY <1>1, <1>2, PTL DEF SyncSpec

-----------------------------------------------------------------------------
(* No event is stored twice: an event that is due to a thread, or stored,  *)
(* has been logged, so that a new one is neither.                          *)

OnceIInv ==
    /\ DueOnce
    /\ Stored \subseteq logged
    /\ \A t \in Thread : Due(t) \subseteq logged

LEMMA LogOnce ==
  ASSUME SyncTypeOK, OnceIInv, NEW t \in Thread, Log(t) PROVE OnceIInv'
<1> PICK e \in Event \ logged : BeginLog(t, e) /\ logged' = logged \cup {e}
  BY DEF Log
<1>1. e \notin Stored /\ \A u \in Thread : e \notin Due(u)
  BY DEF OnceIInv
<1>2. /\ DueOnce' /\ Stored' = Stored
      /\ \A u \in Thread : Due(u)' = IF u = t THEN Due(u) \cup {e} ELSE Due(u)
  BY <1>1, BeginLogOnce DEF SyncTypeOK, OnceIInv
<1> QED
  BY <1>2 DEF OnceIInv

\* StoredOnce: no event is stored twice.
THEOREM SyncStoredOnce == SyncSpec => []StoredOnce
<1>1. SyncInit => OnceIInv
  BY DueOnceInit, EmptySet DEF SyncInit, DbInit, OnceIInv, Stored, Due, Managed, Fresh
<1>2. SyncTypeOK /\ OnceIInv /\ [SyncNext]_syncVars => OnceIInv'
  <2> SUFFICES ASSUME SyncTypeOK, OnceIInv, [SyncNext]_syncVars PROVE OnceIInv'
    OBVIOUS
  <2>1. CASE Start /\ UNCHANGED logged
    BY <2>1, StartOnce DEF SyncTypeOK, OnceIInv
  <2>2. ASSUME NEW t \in Thread, Log(t) PROVE OnceIInv'
    BY <2>2, LogOnce
  <2>3. ASSUME NEW t \in Thread, DbStep(t) /\ UNCHANGED logged PROVE OnceIInv'
    <3>1. /\ DueOnce' /\ Stored' \subseteq Stored \cup Due(t)
          /\ \A u \in Thread : Due(u)' \subseteq Due(u)
      BY <2>3, StepOnce DEF SyncTypeOK, OnceIInv
    <3> QED
      BY <2>3, <3>1 DEF OnceIInv
  <2>4. CASE UNCHANGED syncVars
    BY <2>4 DEF syncVars, dbVars, OnceIInv, DueOnce, NoRepetition, Due, Fresh, Managed, Batch, Stored
  <2> QED
    BY <2>1, <2>2, <2>3, <2>4 DEF SyncNext
<1>3. OnceIInv => StoredOnce
  BY DEF OnceIInv, DueOnce, StoredOnce
<1> QED
  BY <1>1, <1>2, <1>3, SyncTyped, PTL DEF SyncSpec

-----------------------------------------------------------------------------
(* Nothing is lost while the database answers and start() came first: the  *)
(* provider stays connected, a thread that has begun its transaction keeps *)
(* it until it commits, and when a thread lets go of an event, the event   *)
(* is in its transaction or stored.                                        *)

Calm == failures = 0 /\ ~early

\* Here every flush() is that of a log(), which has its transaction.
SyncReady(t) == Ready(t) /\ (dbPc[t] = "flush" => HasTransaction(t))
Kept == logged \subseteq InHand \cup Pending \cup Stored

CalmIInv ==
    Calm =>
        /\ started => connected
        /\ ~started => logged = {} /\ \A t \in Thread : dbPc[t] = "idle"
        /\ \A t \in Thread : SyncReady(t)
        /\ Kept

LEMMA CalmBefore == ASSUME SyncTypeOK, [SyncNext]_syncVars, Calm' PROVE Calm /\ failures' = failures
<1>1. failures \in Nat /\ early \in BOOLEAN
  BY TypeParts DEF SyncTypeOK, DataTyped, FlagsTyped
<1>2. failures' = failures \/ failures' = failures + 1
  BY DEF SyncNext, Start, Log, BeginLog, DbStep, Connect, InitOnDemand, Begin, Persist, Add,
         Flush, Commit, Clear, Fail, syncVars, dbVars
<1>3. early' = early \/ \E t \in Thread, e \in Event : BeginLog(t, e)
  BY DEF SyncNext, Start, Log, DbStep, Connect, InitOnDemand, Begin, Persist, Add,
         Flush, Commit, Clear, syncVars, dbVars
<1>4. ~early' => ~early
  BY <1>3 DEF BeginLog
<1> QED
  BY <1>1, <1>2, <1>4 DEF Calm

LEMMA CalmStepKeeps ==
  ASSUME SyncTypeOK, CalmIInv, NEW t \in Thread, DbStep(t), UNCHANGED logged
  PROVE  CalmIInv'
<1> SUFFICES ASSUME Calm' PROVE /\ started' => connected'
                                /\ started'
                                /\ \A u \in Thread : SyncReady(u)'
                                /\ Kept'
  BY DEF CalmIInv
<1>1. Calm /\ failures' = failures
  BY CalmBefore DEF SyncNext
<1>2. dbPc[t] # "idle" /\ started' = started
  BY DEF DbStep, Connect, InitOnDemand, Begin, Persist, Add, Flush, Commit, Clear, At
<1>3. started /\ connected
  BY <1>1, <1>2 DEF CalmIInv
<1>4. /\ connected' = TRUE /\ Stored \subseteq Stored'
      /\ \A u \in Thread \ {t} : em'[u] = em[u]
      /\ SyncReady(t)'
      /\ Managed(t) \subseteq Managed(t)' \cup Stored'
      /\ event'[t] = event[t] \/ event[t] \in Managed(t)' \cup Stored'
  BY <1>1, <1>3, CalmStep, CalmMoved DEF SyncTypeOK, CalmIInv, SyncReady
<1>5. \A u \in Thread \ {t} : dbPc'[u] = dbPc[u] /\ event'[u] = event[u] /\ Managed(u)' = Managed(u) /\ Batch(u)' = Batch(u)
  BY <1>4, OthersKept DEF SyncTypeOK, Managed, Batch
<1>6. \A u \in Thread : SyncReady(u)'
  BY <1>1, <1>4, <1>5 DEF CalmIInv, SyncReady, Ready, HasTransaction
<1>7. Kept'
  <2> SUFFICES ASSUME NEW e \in logged PROVE e \in InHand' \cup Pending' \cup Stored'
    BY DEF Kept
  <2>1. \A u \in Thread : Managed(u)' \subseteq Pending'
    BY DEF Pending
  <2>2. \/ e \in Stored
        \/ \E u \in Thread : e \in Managed(u)
        \/ e # NoEvent /\ \E u \in Thread : e = event[u]
    BY <1>1 DEF CalmIInv, Kept, InHand, Pending
  <2>3. CASE e \in Stored \/ \E u \in Thread : e \in Managed(u)
    BY <1>4, <1>5, <2>1, <2>3
  <2>4. ASSUME e # NoEvent, NEW u \in Thread, e = event[u] PROVE e \in InHand' \cup Pending' \cup Stored'
    <3>1. event'[u] = event[u] => e \in InHand'
      BY <2>4 DEF InHand
    <3> QED
      BY <1>4, <1>5, <2>1, <2>4, <3>1
  <2> QED
    BY <2>2, <2>3, <2>4
<1> QED
  BY <1>2, <1>3, <1>4, <1>6, <1>7

LEMMA CalmLogKeeps ==
  ASSUME SyncTypeOK, CalmIInv, NEW t \in Thread, Log(t) PROVE CalmIInv'
<1> PICK e \in Event \ logged : BeginLog(t, e) /\ logged' = logged \cup {e}
  BY DEF Log
<1> SUFFICES ASSUME Calm' PROVE /\ started' /\ connected'
                                /\ \A u \in Thread : SyncReady(u)'
                                /\ Kept'
  BY DEF CalmIInv
<1>1. Calm
  BY CalmBefore DEF SyncNext
<1>2. started /\ started' = started /\ connected' = connected /\ connected
  BY <1>1 DEF CalmIInv, BeginLog, Calm
<1>3. db' = db /\ em' = em /\ dbPc[t] = "idle"
  BY DEF BeginLog, At
<1>4. /\ dbPc'[t] = "connect" /\ event'[t] = e /\ event[t] = NoEvent
      /\ \A u \in Thread \ {t} : dbPc'[u] = dbPc[u] /\ event'[u] = event[u]
  BY <1>3, TypeParts DEF SyncTypeOK, ThreadsTyped, BeginLog, Goto
<1>5. Stored' = Stored /\ \A u \in Thread : Managed(u)' = Managed(u) /\ Batch(u)' = Batch(u)
  BY <1>3 DEF Managed, Batch, Stored
<1>6. \A u \in Thread : SyncReady(u)'
  BY <1>1, <1>3, <1>4, <1>5 DEF CalmIInv, SyncReady, Ready, HasTransaction
<1>7. InHand \cup {e} \subseteq InHand'
  <2>1. e # NoEvent
    BY DbAssumption
  <2> QED
    BY <1>4, <2>1 DEF InHand
<1>8. Pending' = Pending
  BY <1>5 DEF Pending
<1> QED
  BY <1>1, <1>2, <1>5, <1>6, <1>7, <1>8 DEF CalmIInv, Kept

LEMMA CalmStartKeeps ==
  ASSUME SyncTypeOK, CalmIInv, Start, UNCHANGED logged PROVE CalmIInv'
<1> SUFFICES ASSUME Calm' PROVE /\ started' /\ connected'
                                /\ \A u \in Thread : SyncReady(u)'
                                /\ Kept'
  BY DEF CalmIInv
<1>1. Calm /\ failures' = failures
  BY CalmBefore DEF SyncNext
<1>2. failures \in Nat
  BY TypeParts DEF SyncTypeOK, DataTyped
<1>3. connected' = TRUE /\ started' = TRUE /\ ~started /\ dbPc' = dbPc
  BY <1>1, <1>2 DEF Start, Fail
<1>4. logged = {} /\ \A u \in Thread : dbPc[u] = "idle"
  BY <1>1, <1>3 DEF CalmIInv
<1> QED
  BY <1>3, <1>4 DEF SyncReady, Ready, Kept

\* NothingLostWithoutFailure: as long as the database does not fail, and
\* start() came first, what was logged is in hand, pending or stored.
THEOREM SyncNothingLost == SyncSpec => []NothingLostWithoutFailure
<1>1. SyncInit => CalmIInv
  BY DEF SyncInit, DbInit, CalmIInv, SyncReady, Ready, Kept
<1>2. SyncTypeOK /\ CalmIInv /\ [SyncNext]_syncVars => CalmIInv'
  <2> SUFFICES ASSUME SyncTypeOK, CalmIInv, [SyncNext]_syncVars PROVE CalmIInv'
    OBVIOUS
  <2>1. CASE UNCHANGED syncVars
    BY <2>1 DEF syncVars, dbVars, CalmIInv, Calm, SyncReady, Ready, HasTransaction, Batch, Kept, InHand, Pending, Managed, Stored
  <2> QED
    BY <2>1, CalmStartKeeps, CalmLogKeeps, CalmStepKeeps DEF SyncNext
<1>3. CalmIInv => NothingLostWithoutFailure
  BY DEF CalmIInv, Calm, Kept, NothingLostWithoutFailure
<1> QED
  BY <1>1, <1>2, <1>3, SyncTyped, PTL DEF SyncSpec
=============================================================================
