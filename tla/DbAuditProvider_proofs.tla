----------------------- MODULE DbAuditProvider_proofs -----------------------
(***************************************************************************)
(* What every call of the DbAuditProvider keeps, for any number of threads *)
(* and any size of batch: the types, and that an event which a thread has  *)
(* in hand or in its transaction goes to the database at most once.        *)
(* SyncAudit_proofs and AsyncAudit_proofs build on it.                     *)
(***************************************************************************)
EXTENDS DbAuditProvider, SequenceTheorems, TLAPS

(* Sequences without repetition. *)

LEMMA EmptySet == ToSet(<<>>) = {} /\ IsInjective(<<>>)
BY DEF ToSet, IsInjective

LEMMA SingletonSet == ASSUME NEW S, NEW e \in S PROVE <<e>> \in Seq(S) /\ Len(<<e>>) = 1 /\ ToSet(<<e>>) = {e}
BY DEF ToSet

LEMMA AppendedSet ==
  ASSUME NEW S, NEW s \in Seq(S), NEW e \in S
  PROVE  /\ Append(s, e) \in Seq(S)
         /\ ToSet(Append(s, e)) = ToSet(s) \cup {e}
         /\ IsInjective(s) /\ e \notin ToSet(s) => IsInjective(Append(s, e))
<1>1. /\ Append(s, e) \in Seq(S) /\ Len(s) \in Nat
      /\ DOMAIN Append(s, e) = 1 .. Len(s) + 1 /\ DOMAIN s = 1 .. Len(s)
      /\ \A i \in 1 .. Len(s) : Append(s, e)[i] = s[i]
      /\ Append(s, e)[Len(s) + 1] = e
  BY AppendProperties, LenProperties
<1>2. 1 .. Len(s) + 1 = (1 .. Len(s)) \cup {Len(s) + 1}
  BY <1>1
<1>3. ToSet(Append(s, e)) = ToSet(s) \cup {e}
  BY <1>1, <1>2 DEF ToSet
<1>4. ASSUME IsInjective(s), e \notin ToSet(s) PROVE IsInjective(Append(s, e))
  BY <1>1, <1>2, <1>4 DEF ToSet, IsInjective
<1> QED
  BY <1>1, <1>3, <1>4

LEMMA ConcatenatedSet ==
  ASSUME NEW S, NEW s \in Seq(S), NEW u \in Seq(S)
  PROVE  /\ s \o u \in Seq(S)
         /\ ToSet(s \o u) = ToSet(s) \cup ToSet(u)
         /\ IsInjective(s) /\ IsInjective(u) /\ ToSet(s) \cap ToSet(u) = {} => IsInjective(s \o u)
<1>1. /\ s \o u \in Seq(S) /\ Len(s) \in Nat /\ Len(u) \in Nat
      /\ DOMAIN (s \o u) = 1 .. Len(s) + Len(u)
      /\ DOMAIN s = 1 .. Len(s) /\ DOMAIN u = 1 .. Len(u)
      /\ \A i \in 1 .. Len(s) + Len(u) : (s \o u)[i] = IF i <= Len(s) THEN s[i] ELSE u[i - Len(s)]
  BY ConcatProperties, LenProperties
<1>2. \A i \in 1 .. Len(s) + Len(u) :
          (i <= Len(s) /\ i \in 1 .. Len(s)) \/ (i > Len(s) /\ i - Len(s) \in 1 .. Len(u))
  BY <1>1
<1>3. ToSet(s \o u) = ToSet(s) \cup ToSet(u)
  <2>1. ToSet(s \o u) \subseteq ToSet(s) \cup ToSet(u)
    <3> SUFFICES ASSUME NEW i \in 1 .. Len(s) + Len(u)
                 PROVE  (s \o u)[i] \in ToSet(s) \cup ToSet(u)
      BY <1>1 DEF ToSet
    <3>1. CASE i <= Len(s)
      BY <1>1, <1>2, <3>1 DEF ToSet
    <3>2. CASE i > Len(s)
      <4>1. (s \o u)[i] = u[i - Len(s)] /\ i - Len(s) \in 1 .. Len(u)
        BY <1>1, <1>2, <3>2
      <4> QED
        BY <1>1, <4>1 DEF ToSet
    <3> QED
      BY <1>1, <3>1, <3>2
  <2>2. ToSet(s) \subseteq ToSet(s \o u)
    BY <1>1 DEF ToSet
  <2>3. ToSet(u) \subseteq ToSet(s \o u)
    <3> SUFFICES ASSUME NEW i \in 1 .. Len(u) PROVE u[i] \in ToSet(s \o u)
      BY <1>1 DEF ToSet
    <3>1. i + Len(s) \in 1 .. Len(s) + Len(u) /\ (s \o u)[i + Len(s)] = u[i]
      BY <1>1
    <3> QED
      BY <1>1, <3>1 DEF ToSet
  <2> QED
    BY <2>1, <2>2, <2>3
<1>4. ASSUME IsInjective(s), IsInjective(u), ToSet(s) \cap ToSet(u) = {} PROVE IsInjective(s \o u)
  <2> SUFFICES ASSUME NEW i \in 1 .. Len(s) + Len(u), NEW j \in 1 .. Len(s) + Len(u),
                      (s \o u)[i] = (s \o u)[j]
               PROVE  i = j
    BY <1>1 DEF IsInjective
  <2>1. \A k \in 1 .. Len(s), l \in 1 .. Len(u) : s[k] # u[l]
    BY <1>1, <1>4 DEF ToSet
  <2>2. CASE i <= Len(s) /\ j <= Len(s)
    BY <1>1, <1>4, <2>2 DEF IsInjective
  <2>3. CASE i > Len(s) /\ j > Len(s)
    <3>1. u[i - Len(s)] = u[j - Len(s)] /\ i - Len(s) \in 1 .. Len(u) /\ j - Len(s) \in 1 .. Len(u)
      BY <1>1, <2>3
    <3>2. i - Len(s) = j - Len(s)
      BY <1>1, <1>4, <3>1 DEF IsInjective
    <3> QED
      BY <1>1, <3>2
  <2> QED
    BY <1>1, <1>2, <2>1, <2>2, <2>3
<1> QED
  BY <1>1, <1>3, <1>4

-----------------------------------------------------------------------------
(* Types, a part of the state at a time. *)

Pcs == {"idle", "connect", "init", "begin", "persist", "add", "flush", "commit", "clear"}
Fresh(t) == dbPc[t] \in {"connect", "init", "begin", "persist"}

FlagsTyped == connected \in BOOLEAN /\ started \in BOOLEAN /\ early \in BOOLEAN
EmsTyped == em \in [Thread -> Em \cup {NoEm}]
DataTyped == mUncommitted \subseteq Event /\ db \in Seq(Event) /\ failures \in 0 .. MaxFailures
ThreadsTyped ==
    /\ dbPc \in [Thread -> Pcs]
    /\ event \in [Thread -> Event \cup {NoEvent}]
    /\ \A t \in Thread :
        /\ dbPc[t] = "idle" => event[t] = NoEvent
        /\ dbPc[t] \in {"connect", "init", "begin", "persist", "add"} => event[t] # NoEvent

LEMMA TypeParts == DbTypeOK <=> FlagsTyped /\ EmsTyped /\ DataTyped /\ ThreadsTyped
BY DEF DbTypeOK, FlagsTyped, EmsTyped, DataTyped, ThreadsTyped, Pcs

LEMMA InitTyped == DbInit => DbTypeOK
<1> SUFFICES ASSUME DbInit PROVE FlagsTyped /\ EmsTyped /\ DataTyped /\ ThreadsTyped
  BY TypeParts
<1> USE DEF DbInit
<1>1. FlagsTyped
  BY DEF FlagsTyped
<1>2. EmsTyped
  BY DEF EmsTyped
<1>3. DataTyped
  BY DbAssumption DEF DataTyped
<1>4. ThreadsTyped
  BY DEF ThreadsTyped, Pcs
<1> QED
  BY <1>1, <1>2, <1>3, <1>4

\* EntityManagers: a new one, one whose transaction begins, one that holds more.
LEMMA EmMade == ASSUME NEW a \in BOOLEAN, NEW s \in Seq(Event) PROVE [active |-> a, managed |-> s] \in Em
BY DEF Em

LEMMA EmParts ==
  ASSUME NEW m \in Em
  PROVE  m.active \in BOOLEAN /\ m.managed \in Seq(Event) /\ m = [active |-> m.active, managed |-> m.managed]
BY DEF Em

LEMMA NewEmTyped == NewEm \in Em /\ NoEm \notin Em /\ ~NewEm.active /\ NewEm.managed = <<>>
<1>1. <<>> \in Seq(Event)
  BY EmptySeq
<1> QED
  BY <1>1, EmMade, NoEmAssumption DEF NewEm

LEMMA Begun ==
  ASSUME NEW m \in Em
  PROVE  /\ [m EXCEPT !.active = TRUE] \in Em
         /\ [m EXCEPT !.active = TRUE].active = TRUE
         /\ [m EXCEPT !.active = TRUE].managed = m.managed
<1>1. m.active \in BOOLEAN /\ m.managed \in Seq(Event) /\ m = [active |-> m.active, managed |-> m.managed]
  BY EmParts
<1>2. \A a : [m EXCEPT !.active = a] = [active |-> a, managed |-> m.managed]
  BY <1>1
<1>3. [m EXCEPT !.active = TRUE] = [active |-> TRUE, managed |-> m.managed]
  BY <1>2
<1>4. [active |-> TRUE, managed |-> m.managed].active = TRUE
  OBVIOUS
<1> QED
  BY <1>1, <1>3, <1>4, EmMade

LEMMA Remanaged ==
  ASSUME NEW m \in Em, NEW s \in Seq(Event)
  PROVE  /\ [m EXCEPT !.managed = s] \in Em
         /\ [m EXCEPT !.managed = s].active = m.active
         /\ [m EXCEPT !.managed = s].managed = s
<1>1. m.active \in BOOLEAN /\ m = [active |-> m.active, managed |-> m.managed]
  BY EmParts
<1>2. [m EXCEPT !.managed = s] = [active |-> m.active, managed |-> s]
  BY <1>1
<1> QED
  BY <1>1, <1>2, EmMade

LEMMA TheEmTyped ==
  ASSUME EmsTyped, NEW t \in Thread
  PROVE  /\ TheEm(t) \in Em
         /\ TheEm(t).active \in BOOLEAN /\ TheEm(t).managed \in Seq(Event)
         /\ em[t] # NoEm => em[t] \in Em /\ TheEm(t) = em[t]
         /\ TheEm(t).active => em[t] # NoEm
<1>1. TheEm(t) \in Em
  BY NewEmTyped DEF EmsTyped, TheEm
<1>2. em[t] # NoEm => em[t] \in Em /\ TheEm(t) = em[t]
  BY DEF EmsTyped, TheEm
<1>3. TheEm(t).active => em[t] # NoEm
  BY NewEmTyped DEF TheEm
<1> QED
  BY <1>1, <1>2, <1>3, EmParts

\* What a step does to the EntityManagers.
LEMMA EmSteps ==
  ASSUME NEW t \in Thread, DbStep(t)
  PROVE  \/ UNCHANGED em
         \/ LoseAllEms
         \/ em' = [em EXCEPT ![t] = TheEm(t)]
         \/ em' = [em EXCEPT ![t] = [TheEm(t) EXCEPT !.active = TRUE]]
         \/ /\ At(t, "persist") /\ TheEm(t).active
            /\ em' = [em EXCEPT ![t] = [TheEm(t) EXCEPT !.managed = Append(@, event[t])]]
         \/ em' = [em EXCEPT ![t] = NewEm]
         \/ em' = [em EXCEPT ![t] = [TheEm(t) EXCEPT !.managed = <<>>]]
         \/ em' = [em EXCEPT ![t] = em[t]]
<1>1. CASE Connect(t)
  BY <1>1 DEF Connect
<1>2. CASE InitOnDemand(t)
  BY <1>2 DEF InitOnDemand
<1>3. CASE Begin(t)
  BY <1>3 DEF Begin
<1>4. CASE Persist(t)
  BY <1>4 DEF Persist
<1>5. CASE Add(t) \/ Flush(t)
  BY <1>5 DEF Add, Flush
<1>6. CASE Commit(t)
  BY <1>6 DEF Commit, CleanUp
<1>7. CASE Clear(t)
  BY <1>7 DEF Clear
<1> QED
  BY <1>1, <1>2, <1>3, <1>4, <1>5, <1>6, <1>7 DEF DbStep

LEMMA EmsKept == ASSUME DbTypeOK, NEW t \in Thread, DbStep(t) PROVE EmsTyped'
<1>1. EmsTyped /\ TheEm(t) \in Em /\ NewEm \in Em
  BY TypeParts, TheEmTyped, NewEmTyped
<1>2. TheEm(t).managed \in Seq(Event) /\ <<>> \in Seq(Event)
  BY <1>1, TheEmTyped, EmptySeq
<1>3. ASSUME At(t, "persist") PROVE Append(TheEm(t).managed, event[t]) \in Seq(Event)
  <2>1. event[t] \in Event
    BY <1>3, TypeParts DEF ThreadsTyped, At
  <2> QED
    BY <1>2, <2>1, AppendProperties
<1>4. /\ [TheEm(t) EXCEPT !.active = TRUE] \in Em
      /\ [TheEm(t) EXCEPT !.managed = <<>>] \in Em
      /\ At(t, "persist") => [TheEm(t) EXCEPT !.managed = Append(@, event[t])] \in Em
  BY <1>1, <1>2, <1>3, Begun, Remanaged
<1>5. \/ em' = em \/ em' = [u \in Thread |-> NoEm]
      \/ \E m \in Em \cup {NoEm} : em' = [em EXCEPT ![t] = m]
  BY <1>1, <1>4, EmSteps DEF EmsTyped, LoseAllEms
<1> QED
  BY <1>1, <1>5 DEF EmsTyped

LEMMA FlagsKept == ASSUME FlagsTyped, NEW t \in Thread, DbStep(t) PROVE FlagsTyped'
<1>1. (connected' = connected \/ connected' = TRUE \/ connected' = FALSE)
      /\ started' = started /\ early' = early
  BY DEF DbStep, Connect, InitOnDemand, Begin, Persist, Add, Flush, Commit, CleanUp, Clear
<1> QED
  BY <1>1 DEF FlagsTyped

LEMMA ThreadsKept == ASSUME ThreadsTyped, NEW t \in Thread, DbStep(t) PROVE ThreadsTyped'
<1>1. \E pc \in Pcs : /\ dbPc' = [dbPc EXCEPT ![t] = pc]
                      /\ \/ pc = "idle" /\ event' = [event EXCEPT ![t] = NoEvent]
                         \/ /\ event' = event /\ pc # "idle"
                            /\ pc \in {"connect", "init", "begin", "persist", "add"} => event[t] # NoEvent
  <2> USE DEF At, Goto, Return, ThreadsTyped, Pcs
  <2>1. CASE Connect(t)
    BY <2>1 DEF Connect
  <2>2. CASE InitOnDemand(t)
    BY <2>2 DEF InitOnDemand
  <2>3. CASE Begin(t)
    BY <2>3 DEF Begin
  <2>4. CASE Persist(t)
    BY <2>4 DEF Persist
  <2>5. CASE Add(t)
    BY <2>5 DEF Add
  <2>6. CASE Flush(t)
    BY <2>6 DEF Flush
  <2>7. CASE Commit(t)
    BY <2>7 DEF Commit
  <2>8. CASE Clear(t)
    BY <2>8 DEF Clear
  <2> QED
    BY <2>1, <2>2, <2>3, <2>4, <2>5, <2>6, <2>7, <2>8 DEF DbStep
<1> QED
  BY <1>1 DEF ThreadsTyped, Pcs

\* What a step adds to the database.
LEMMA DbSteps ==
  ASSUME NEW t \in Thread, DbStep(t)
  PROVE  \/ UNCHANGED db
         \/ /\ At(t, "persist") /\ Goto(t, "add") /\ UNCHANGED event
            /\ connected /\ ~TheEm(t).active
            /\ em' = [em EXCEPT ![t] = TheEm(t)]
            /\ db' = Append(db, event[t])
         \/ /\ At(t, "commit") /\ Goto(t, "clear") /\ UNCHANGED event
            /\ InTransaction(t)
            /\ em' = [em EXCEPT ![t] = NewEm] \/ LoseAllEms
            /\ db' = db \o em[t].managed
<1>1. CASE Persist(t)
  BY <1>1 DEF Persist
<1>2. CASE Commit(t)
  BY <1>2 DEF Commit, CleanUp
<1>3. CASE ~Persist(t) /\ ~Commit(t)
  BY <1>3 DEF DbStep, Connect, InitOnDemand, Begin, Add, Flush, Clear
<1> QED
  BY <1>1, <1>2, <1>3

LEMMA FailTyped == ASSUME failures \in 0 .. MaxFailures, Fail PROVE failures' \in 0 .. MaxFailures
BY DbAssumption DEF Fail

LEMMA DataKept == ASSUME DbTypeOK, NEW t \in Thread, DbStep(t) PROVE DataTyped'
<1>1. DataTyped /\ ThreadsTyped /\ EmsTyped
  BY TypeParts
<1>2. mUncommitted' \subseteq Event
  <2>1. \/ mUncommitted' = mUncommitted
        \/ mUncommitted' = {}
        \/ (At(t, "add") /\ mUncommitted' = mUncommitted \cup {event[t]})
    BY DEF DbStep, Connect, InitOnDemand, Begin, Persist, Add, Flush, Commit, Clear
  <2>2. At(t, "add") => event[t] \in Event
    BY <1>1 DEF ThreadsTyped, At
  <2> QED
    BY <1>1, <2>1, <2>2 DEF DataTyped
<1>3. db' \in Seq(Event)
  <2>1. At(t, "persist") => event[t] \in Event
    BY <1>1 DEF ThreadsTyped, At
  <2>2. InTransaction(t) => em[t].managed \in Seq(Event)
    BY <1>1, TheEmTyped, EmParts DEF InTransaction
  <2>3. db \in Seq(Event)
    BY <1>1 DEF DataTyped
  <2>4. (At(t, "persist") => Append(db, event[t]) \in Seq(Event))
        /\ (InTransaction(t) => db \o em[t].managed \in Seq(Event))
    BY <2>1, <2>2, <2>3, AppendProperties, ConcatProperties
  <2> QED
    BY <2>3, <2>4, DbSteps
<1>4. failures' \in 0 .. MaxFailures
  <2>1. failures' = failures \/ Fail
    BY DEF DbStep, Connect, InitOnDemand, Begin, Persist, Add, Flush, Commit, Clear
  <2> QED
    BY <1>1, <2>1, FailTyped DEF DataTyped
<1> QED
  BY <1>2, <1>3, <1>4 DEF DataTyped

LEMMA StepTyped == ASSUME DbTypeOK, NEW t \in Thread, DbStep(t) PROVE DbTypeOK'
<1>1. FlagsTyped' /\ EmsTyped' /\ DataTyped' /\ ThreadsTyped'
  BY TypeParts, FlagsKept, EmsKept, DataKept, ThreadsKept
<1> QED
  BY <1>1, TypeParts, PTL

LEMMA StartTyped == ASSUME DbTypeOK, Start PROVE DbTypeOK'
<1> USE TypeParts
<1>1. FlagsTyped'
  BY DEF FlagsTyped, Start
<1>2. EmsTyped'
  BY DEF EmsTyped, Start, LoseAllEms
<1>3. DataTyped'
  BY FailTyped DEF DataTyped, Start
<1>4. ThreadsTyped'
  BY DEF ThreadsTyped, Start
<1> QED
  BY <1>1, <1>2, <1>3, <1>4, PTL

LEMMA BeginLogTyped ==
  ASSUME DbTypeOK, NEW t \in Thread, NEW e \in Event, BeginLog(t, e) PROVE DbTypeOK'
<1> USE TypeParts
<1>1. FlagsTyped'
  BY DEF FlagsTyped, BeginLog
<1>2. EmsTyped' /\ DataTyped'
  BY DEF EmsTyped, DataTyped, BeginLog
<1>3. ThreadsTyped'
  BY DbAssumption DEF ThreadsTyped, Pcs, BeginLog, At, Goto
<1> QED
  BY <1>1, <1>2, <1>3, PTL

LEMMA BeginFlushTyped ==
  ASSUME DbTypeOK, NEW t \in Thread, BeginFlush(t) PROVE DbTypeOK'
<1> USE TypeParts
<1>1. FlagsTyped'
  BY DEF FlagsTyped, BeginFlush
<1>2. EmsTyped' /\ DataTyped'
  BY DEF EmsTyped, DataTyped, BeginFlush
<1>3. ThreadsTyped'
  BY DEF ThreadsTyped, Pcs, BeginFlush, At, Goto
<1> QED
  BY <1>1, <1>2, <1>3, PTL

LEMMA StutterTyped == ASSUME DbTypeOK, UNCHANGED dbVars PROVE DbTypeOK'
BY DEF dbVars, DbTypeOK

-----------------------------------------------------------------------------
(* The events that a thread has yet to store: the one it has in hand until *)
(* it is persisted, and those of its transaction.                          *)

Batch(t) == IF em[t] = NoEm THEN <<>> ELSE em[t].managed
Due(t) == Managed(t) \cup (IF Fresh(t) THEN {event[t]} ELSE {})

LEMMA BatchTyped ==
  ASSUME DbTypeOK, NEW t \in Thread
  PROVE  /\ TheEm(t) \in Em /\ TheEm(t).active \in BOOLEAN
         /\ Batch(t) = TheEm(t).managed /\ Batch(t) \in Seq(Event)
         /\ Managed(t) = ToSet(Batch(t))
         /\ InTransaction(t) => em[t] = TheEm(t) /\ em[t] # NoEm /\ em[t].managed = Batch(t)
<1>1. EmsTyped
  BY TypeParts
<1>2. NewEm.managed = <<>> /\ TheEm(t) = (IF em[t] = NoEm THEN NewEm ELSE em[t])
  BY NewEmTyped DEF TheEm
<1>3. Batch(t) = TheEm(t).managed
  BY <1>2 DEF Batch
<1>4. Managed(t) = ToSet(Batch(t))
  BY EmptySet DEF Managed, Batch
<1> QED
  BY <1>1, <1>3, <1>4, TheEmTyped DEF InTransaction

\* What a step does with its thread's events.
Keeps(t) ==
    /\ db' = db /\ Batch(t)' = Batch(t)
    /\ Fresh(t)' <=> Fresh(t)
    /\ Fresh(t) => event'[t] = event[t]
DropsOne(t) ==
    /\ db' = db /\ Batch(t)' = Batch(t)
    /\ Fresh(t) /\ ~Fresh(t)'
DropsBatch(t) ==
    /\ db' = db /\ Batch(t)' = <<>>
    /\ Fresh(t)' <=> Fresh(t)
    /\ Fresh(t) => event'[t] = event[t]
Manages(t) ==
    /\ db' = db /\ Batch(t)' = Append(Batch(t), event[t])
    /\ Fresh(t) /\ ~Fresh(t)'
StoresOne(t) ==
    /\ db' = Append(db, event[t]) /\ Batch(t)' = Batch(t) /\ ~TheEm(t).active
    /\ Fresh(t) /\ ~Fresh(t)'
StoresBatch(t) ==
    /\ db' = db \o Batch(t) /\ Batch(t)' = <<>>
    /\ ~Fresh(t) /\ ~Fresh(t)'

LEMMA OwnMoved ==
  ASSUME DbTypeOK, NEW t \in Thread, DbStep(t)
  PROVE  \/ Keeps(t) \/ DropsOne(t) \/ DropsBatch(t)
         \/ Manages(t) \/ StoresOne(t) \/ StoresBatch(t)
<1> DEFINE m == TheEm(t)
<1>1. /\ m \in Em /\ m.managed = Batch(t) /\ Batch(t) \in Seq(Event)
      /\ InTransaction(t) => em[t].managed = Batch(t)
  BY BatchTyped
<1>2. em \in [Thread -> Em \cup {NoEm}] /\ dbPc \in [Thread -> Pcs]
      /\ event \in [Thread -> Event \cup {NoEvent}]
  BY TypeParts DEF EmsTyped, ThreadsTyped
<1>3. \A pc : Goto(t, pc) => dbPc'[t] = pc
  BY <1>2 DEF Goto
<1>4. Return(t) => ~Fresh(t)'
  BY <1>3 DEF Return, Fresh
<1>5. LoseAllEms => Batch(t)' = <<>>
  BY DEF LoseAllEms, Batch
<1>6. UNCHANGED em => Batch(t)' = Batch(t)
  BY DEF Batch
<1>7. ASSUME NEW k \in Em, em' = [em EXCEPT ![t] = k]
      PROVE  Batch(t)' = k.managed
  BY <1>2, <1>7, NewEmTyped DEF Batch
<1>8. CASE Connect(t)
  <2>1. Fresh(t) /\ Fresh(t)' /\ db' = db /\ event' = event
    BY <1>3, <1>8 DEF Connect, At, Fresh
  <2>2. UNCHANGED em \/ em' = [em EXCEPT ![t] = m]
    BY <1>8 DEF Connect
  <2> QED
    BY <1>1, <1>6, <1>7, <2>1, <2>2 DEF Keeps
<1>9. CASE InitOnDemand(t)
  <2>1. Fresh(t) /\ db' = db
    BY <1>9 DEF InitOnDemand, At, Fresh
  <2>2. CASE LoseAllEms /\ Goto(t, "begin") /\ UNCHANGED event
    <3>1. Fresh(t)'
      BY <1>3, <2>2 DEF Fresh
    <3> QED
      BY <1>5, <2>1, <2>2, <3>1 DEF DropsBatch
  <2>3. CASE Return(t) /\ UNCHANGED em
    BY <1>4, <1>6, <2>1, <2>3 DEF DropsOne
  <2> QED
    BY <1>9, <2>2, <2>3 DEF InitOnDemand
<1>10. CASE Begin(t)
  <2>1. Fresh(t) /\ db' = db
    BY <1>10 DEF Begin, At, Fresh
  <2>2. CASE connected
    <3> DEFINE k == [m EXCEPT !.active = TRUE]
    <3>1. k \in Em /\ k.managed = m.managed
      BY <1>1, Begun
    <3>2. em' = [em EXCEPT ![t] = k] /\ event' = event /\ Fresh(t)'
      BY <1>3, <1>10, <2>2 DEF Begin, Fresh
    <3> HIDE DEF k
    <3> QED
      BY <1>1, <1>7, <2>1, <3>1, <3>2 DEF Keeps
  <2>3. CASE ~connected
    BY <1>4, <1>6, <1>10, <2>1, <2>3 DEF Begin, DropsOne
  <2> QED
    BY <2>2, <2>3
<1>11. CASE Persist(t)
  <2>1. Fresh(t) /\ ~Fresh(t)' /\ dbPc[t] = "persist"
    BY <1>3, <1>4, <1>11 DEF Persist, At, Fresh
  <2>2. event[t] \in Event
    BY <1>2, <2>1, TypeParts DEF ThreadsTyped
  <2> DEFINE a == Append(m.managed, event[t])
             k == [m EXCEPT !.managed = a]
  <2>3. k \in Em /\ k.managed = a
    <3>1. a \in Seq(Event)
      BY <1>1, <2>2, AppendProperties
    <3> QED
      BY <1>1, <3>1, Remanaged
  <2>4. \/ UNCHANGED em /\ UNCHANGED db
        \/ em' = [em EXCEPT ![t] = k] /\ UNCHANGED db
        \/ em' = [em EXCEPT ![t] = m] /\ ~m.active /\ db' = Append(db, event[t])
    BY <1>11 DEF Persist
  <2> HIDE DEF k
  <2>5. CASE UNCHANGED em /\ UNCHANGED db
    BY <1>6, <2>1, <2>5 DEF DropsOne
  <2>6. CASE em' = [em EXCEPT ![t] = k] /\ UNCHANGED db
    BY <1>1, <1>7, <2>1, <2>3, <2>6 DEF Manages
  <2>7. CASE em' = [em EXCEPT ![t] = m] /\ ~m.active /\ db' = Append(db, event[t])
    BY <1>1, <1>7, <2>1, <2>7 DEF StoresOne
  <2> QED
    BY <2>4, <2>5, <2>6, <2>7
<1>12. CASE Add(t) \/ Flush(t)
  <2>1. db' = db /\ em' = em /\ ~Fresh(t) /\ ~Fresh(t)'
    BY <1>3, <1>4, <1>12 DEF Add, Flush, Fresh, At
  <2> QED
    BY <1>6, <2>1 DEF Keeps
<1>13. CASE Commit(t)
  <2>1. ~Fresh(t) /\ ~Fresh(t)'
    BY <1>3, <1>13 DEF Commit, Fresh, At
  <2>2. LoseAllEms \/ em' = [em EXCEPT ![t] = NewEm]
    BY <1>13 DEF Commit, CleanUp
  <2>3. Batch(t)' = <<>>
    BY <1>5, <1>7, <2>2, NewEmTyped
  <2>4. UNCHANGED db \/ db' = db \o Batch(t)
    BY <1>1, <1>13 DEF Commit
  <2> QED
    BY <2>1, <2>3, <2>4 DEF DropsBatch, StoresBatch
<1>14. CASE Clear(t)
  <2>1. ~Fresh(t) /\ ~Fresh(t)' /\ db' = db
    BY <1>4, <1>14 DEF Clear, At, Fresh
  <2>2. UNCHANGED em \/ em' = [em EXCEPT ![t] = [m EXCEPT !.managed = <<>>]]
    BY <1>2, <1>14 DEF Clear
  <2>3. [m EXCEPT !.managed = <<>>] \in Em /\ [m EXCEPT !.managed = <<>>].managed = <<>>
    BY <1>1, Remanaged, EmptySeq
  <2>4. Batch(t)' = Batch(t) \/ Batch(t)' = <<>>
    BY <1>6, <1>7, <2>2, <2>3
  <2> QED
    BY <2>1, <2>4 DEF Keeps, DropsBatch
<1> QED
  BY <1>8, <1>9, <1>10, <1>11, <1>12, <1>13, <1>14 DEF DbStep

\* As sets: what was due to the thread goes to the database, or remains due, or
\* is lost.
LEMMA DueMoved ==
  ASSUME DbTypeOK, NEW t \in Thread, DbStep(t)
  PROVE  /\ Due(t)' \subseteq Due(t)
         /\ Stored \subseteq Stored' /\ Stored' \subseteq Stored \cup Due(t)
<1>1. /\ Batch(t) \in Seq(Event) /\ db \in Seq(Event)
      /\ Managed(t) = ToSet(Batch(t)) /\ Managed(t)' = ToSet(Batch(t)')
  <2>1. Managed(t)' = ToSet(Batch(t)')
    BY EmptySet DEF Managed, Batch
  <2> QED
    BY <2>1, BatchTyped, TypeParts DEF DataTyped
<1>2. Fresh(t) => event[t] \in Event
  BY TypeParts DEF Fresh, ThreadsTyped
<1>3. CASE Keeps(t) \/ DropsOne(t) \/ DropsBatch(t)
  BY <1>1, <1>3, EmptySet DEF Keeps, DropsOne, DropsBatch, Due, Stored
<1>4. CASE Manages(t)
  BY <1>1, <1>2, <1>4, AppendedSet DEF Manages, Due, Stored
<1>5. CASE StoresOne(t)
  BY <1>1, <1>2, <1>5, AppendedSet DEF StoresOne, Due, Stored
<1>6. CASE StoresBatch(t)
  BY <1>1, <1>6, EmptySet, ConcatenatedSet DEF StoresBatch, Due, Stored
<1> QED
  BY <1>3, <1>4, <1>5, <1>6, OwnMoved

\* A step leaves the other threads' events alone, or loses them with the
\* connection.
LEMMA OthersKept ==
  ASSUME DbTypeOK, NEW t \in Thread, DbStep(t), NEW u \in Thread \ {t}
  PROVE  /\ dbPc'[u] = dbPc[u] /\ event'[u] = event[u]
         /\ em'[u] = em[u] \/ em'[u] = NoEm
         /\ Managed(u)' \subseteq Managed(u) /\ Due(u)' \subseteq Due(u)
<1>1. dbPc'[u] = dbPc[u] /\ event'[u] = event[u]
  <2>1. \E pc \in Pcs : dbPc' = [dbPc EXCEPT ![t] = pc]
    BY DEF DbStep, Connect, InitOnDemand, Begin, Persist, Add, Flush, Commit, Clear,
           Goto, Return, Pcs
  <2>2. event' = event \/ event' = [event EXCEPT ![t] = NoEvent]
    BY DEF DbStep, Connect, InitOnDemand, Begin, Persist, Add, Flush, Commit, Clear, Return
  <2> QED
    BY <2>1, <2>2, TypeParts DEF ThreadsTyped
<1>2. em'[u] = em[u] \/ em'[u] = NoEm
  BY EmSteps, TypeParts DEF EmsTyped, LoseAllEms
<1>3. Managed(u)' \subseteq Managed(u)
  BY <1>2 DEF Managed
<1> QED
  BY <1>1, <1>2, <1>3 DEF Due, Fresh

-----------------------------------------------------------------------------
(* What is due to a thread is its own, none of it twice, and none of it is *)
(* stored already.                                                         *)

NoRepetition(t) ==
    /\ IsInjective(Batch(t))
    /\ Fresh(t) => event[t] \notin Managed(t)

DueOnce ==
    /\ IsInjective(db)
    /\ \A t \in Thread :
        /\ NoRepetition(t)
        /\ Due(t) \cap Stored = {}
        /\ \A u \in Thread \ {t} : Due(t) \cap Due(u) = {}

LEMMA DueOnceInit == DbInit => DueOnce
BY EmptySet DEF DbInit, DueOnce, NoRepetition, Fresh, Due, Managed, Batch, Stored

LEMMA OthersOnce ==
  ASSUME DbTypeOK, NEW t \in Thread, DbStep(t), NEW u \in Thread \ {t}, NoRepetition(u)
  PROVE  NoRepetition(u)'
BY OthersKept, EmptySet DEF NoRepetition, Fresh, Batch

LEMMA OwnOnce ==
  ASSUME DbTypeOK, NEW t \in Thread, DbStep(t), NoRepetition(t), Due(t) \cap Stored = {}, IsInjective(db)
  PROVE  /\ NoRepetition(t)' /\ IsInjective(db')
         /\ Due(t)' \cap Stored' = {}
<1>1. /\ Batch(t) \in Seq(Event) /\ db \in Seq(Event)
      /\ Managed(t) = ToSet(Batch(t)) /\ Managed(t)' = ToSet(Batch(t)')
  <2>1. Managed(t)' = ToSet(Batch(t)')
    BY EmptySet DEF Managed, Batch
  <2> QED
    BY <2>1, BatchTyped, TypeParts DEF DataTyped
<1>2. Fresh(t) => event[t] \in Event /\ event[t] \notin ToSet(Batch(t)) /\ event[t] \notin Stored
  BY <1>1, TypeParts DEF Fresh, ThreadsTyped, NoRepetition, Due
<1>3. CASE Keeps(t) \/ DropsOne(t) \/ DropsBatch(t)
  BY <1>1, <1>3, EmptySet DEF Keeps, DropsOne, DropsBatch, NoRepetition, Due, Stored
<1>4. CASE Manages(t)
  BY <1>1, <1>2, <1>4, AppendedSet DEF Manages, NoRepetition, Due, Stored
<1>5. CASE StoresOne(t)
  BY <1>1, <1>2, <1>5, AppendedSet DEF StoresOne, NoRepetition, Due, Stored
<1>6. CASE StoresBatch(t)
  BY <1>1, <1>6, EmptySet, ConcatenatedSet DEF StoresBatch, NoRepetition, Due, Stored
<1> QED
  BY <1>3, <1>4, <1>5, <1>6, OwnMoved

\* A step stores what was due to its thread, once, and no thread has more to
\* store after it.
LEMMA StepOnce ==
  ASSUME DbTypeOK, DueOnce, NEW t \in Thread, DbStep(t)
  PROVE  /\ DueOnce'
         /\ Stored' \subseteq Stored \cup Due(t)
         /\ \A u \in Thread : Due(u)' \subseteq Due(u)
<1>1. /\ NoRepetition(t)' /\ IsInjective(db') /\ Due(t)' \cap Stored' = {}
      /\ Due(t)' \subseteq Due(t) /\ Stored' \subseteq Stored \cup Due(t)
  BY OwnOnce, DueMoved DEF DueOnce
<1>2. \A u \in Thread : Due(u)' \subseteq Due(u) /\ NoRepetition(u)'
  BY <1>1, OthersKept, OthersOnce DEF DueOnce
<1>3. \A u \in Thread : Due(u)' \cap Stored' = {}
  <2> SUFFICES ASSUME NEW u \in Thread \ {t} PROVE Due(u)' \cap Stored' = {}
    BY <1>1
  <2>1. Due(u) \cap Stored = {} /\ Due(u) \cap Due(t) = {}
    BY DEF DueOnce
  <2> QED
    BY <1>1, <1>2, <2>1
<1>4. \A u \in Thread : \A v \in Thread \ {u} : Due(u)' \cap Due(v)' = {}
  BY <1>2 DEF DueOnce
<1> QED
  BY <1>1, <1>2, <1>3, <1>4 DEF DueOnce

\* start() loses transactions, and stores nothing.
LEMMA StartOnce ==
  ASSUME DbTypeOK, DueOnce, Start
  PROVE  DueOnce' /\ Stored' = Stored /\ \A u \in Thread : Due(u)' \subseteq Due(u)
<1>1. db' = db /\ dbPc' = dbPc /\ event' = event
  BY DEF Start
<1>2. \A u \in Thread : em'[u] = em[u] \/ em'[u] = NoEm
  BY DEF Start, LoseAllEms
<1>3. \A u \in Thread : Managed(u)' \subseteq Managed(u)
  BY <1>2 DEF Managed
<1>4. \A u \in Thread : Due(u)' \subseteq Due(u) /\ NoRepetition(u)'
  BY <1>1, <1>2, <1>3, EmptySet DEF Due, Fresh, NoRepetition, Batch, DueOnce
<1>5. Stored' = Stored /\ IsInjective(db')
  BY <1>1 DEF Stored, DueOnce
<1> QED
  BY <1>4, <1>5 DEF DueOnce

\* Logging an event that is neither due nor stored makes it due, once.
LEMMA BeginLogOnce ==
  ASSUME DbTypeOK, DueOnce, NEW t \in Thread, NEW e \in Event, BeginLog(t, e),
         e \notin Stored, \A u \in Thread : e \notin Due(u)
  PROVE  /\ DueOnce' /\ Stored' = Stored
         /\ \A u \in Thread : Due(u)' = IF u = t THEN Due(u) \cup {e} ELSE Due(u)
<1>1. db' = db /\ em' = em /\ dbPc[t] = "idle"
  BY DEF BeginLog, At
<1>2. /\ dbPc'[t] = "connect" /\ event'[t] = e
      /\ \A u \in Thread \ {t} : dbPc'[u] = dbPc[u] /\ event'[u] = event[u]
  BY TypeParts DEF ThreadsTyped, BeginLog, Goto
<1>3. \A u \in Thread : Managed(u)' = Managed(u) /\ Batch(u)' = Batch(u)
  BY <1>1 DEF Managed, Batch
<1>4. \A u \in Thread : Due(u)' = IF u = t THEN Due(u) \cup {e} ELSE Due(u)
  BY <1>1, <1>2, <1>3 DEF Due, Fresh
<1>5. \A u \in Thread : NoRepetition(u)'
  BY <1>1, <1>2, <1>3 DEF NoRepetition, Fresh, DueOnce, Due
<1>6. Stored' = Stored /\ IsInjective(db')
  BY <1>1 DEF Stored, DueOnce
<1> QED
  BY <1>4, <1>5, <1>6 DEF DueOnce

-----------------------------------------------------------------------------
(* Calm: a thread that is connected, and that no failure interrupts, keeps *)
(* its transaction from begin to commit, and lets go of an event only when *)
(* the event is in its transaction or stored.                              *)

HasTransaction(t) == em[t] # NoEm /\ em[t].active

Ready(t) ==
    /\ dbPc[t] # "init"
    /\ dbPc[t] \in {"persist", "add", "commit"} => HasTransaction(t)
    /\ dbPc[t] = "flush" /\ mUncommitted # {} => HasTransaction(t)
    /\ dbPc[t] = "clear" => Batch(t) = <<>>
    /\ dbPc[t] \in {"add", "flush", "commit", "clear"} /\ event[t] # NoEvent
           => event[t] \in Managed(t) \cup Stored

LEMMA CalmStep ==
  ASSUME DbTypeOK, NEW t \in Thread, DbStep(t), connected, Ready(t), failures' = failures
  PROVE  /\ connected' = TRUE
         /\ \A u \in Thread \ {t} : em'[u] = em[u]
         /\ Keeps(t) \/ Manages(t) \/ StoresBatch(t)
         /\ Ready(t)'
         /\ dbPc'[t] = "flush" => HasTransaction(t)'
         /\ event'[t] = event[t] \/ event[t] \in Managed(t)' \cup Stored'
<1> DEFINE m == TheEm(t)
<1>1. /\ m \in Em /\ m.managed = Batch(t) /\ Batch(t) \in Seq(Event) /\ m.active \in BOOLEAN
      /\ Managed(t) = ToSet(Batch(t)) /\ Managed(t)' = ToSet(Batch(t)')
      /\ InTransaction(t) <=> m.active
      /\ InTransaction(t) => em[t].managed = Batch(t)
  <2>1. Managed(t)' = ToSet(Batch(t)')
    BY EmptySet DEF Managed, Batch
  <2> QED
    BY <2>1, BatchTyped DEF InTransaction
<1>2. em \in [Thread -> Em \cup {NoEm}] /\ dbPc \in [Thread -> Pcs]
      /\ event \in [Thread -> Event \cup {NoEvent}] /\ db \in Seq(Event) /\ failures \in Nat
  BY TypeParts DEF EmsTyped, ThreadsTyped, DataTyped
<1>3. \A pc : Goto(t, pc) => dbPc'[t] = pc
  BY <1>2 DEF Goto
<1>4. Return(t) => dbPc'[t] = "idle"
  BY <1>3 DEF Return
<1>5. ~Fail
  BY <1>2 DEF Fail
<1>6. ASSUME NEW k \in Em, em' = [em EXCEPT ![t] = k]
      PROVE  /\ em'[t] = k /\ k # NoEm /\ Batch(t)' = k.managed
             /\ \A u \in Thread \ {t} : em'[u] = em[u]
  BY <1>2, <1>6, NewEmTyped DEF Batch
<1>7. db' = db => Stored' = Stored
  BY DEF Stored
<1>8. ASSUME HasTransaction(t) PROVE em[t] = m /\ m.active /\ InTransaction(t)
  BY <1>1, <1>8 DEF HasTransaction, TheEm
<1>9. CASE Connect(t)
  <2>1. /\ dbPc[t] = "connect" /\ dbPc'[t] = "begin" /\ connected' = connected /\ db' = db /\ event' = event
        /\ em' = [em EXCEPT ![t] = m]
    BY <1>3, <1>9 DEF Connect, At
  <2> QED
    BY <1>1, <1>6, <2>1 DEF Ready, Keeps, Fresh
<1>10. CASE InitOnDemand(t)
  BY <1>10 DEF InitOnDemand, At, Ready
<1>11. CASE Begin(t)
  <2> DEFINE k == [m EXCEPT !.active = TRUE]
  <2>1. k \in Em /\ k.active = TRUE /\ k.managed = m.managed
    BY <1>1, Begun
  <2>2. /\ dbPc[t] = "begin" /\ dbPc'[t] = "persist" /\ connected' = connected /\ db' = db /\ event' = event
        /\ em' = [em EXCEPT ![t] = k]
    BY <1>3, <1>11 DEF Begin, At
  <2> HIDE DEF k
  <2> QED
    BY <1>1, <1>6, <2>1, <2>2 DEF Ready, HasTransaction, Keeps, Fresh
<1>12. CASE Persist(t)
  <2>1. event[t] \in Event /\ dbPc[t] = "persist" /\ HasTransaction(t)
    BY <1>2, <1>12, TypeParts DEF Persist, At, ThreadsTyped, Ready
  <2> DEFINE a == Append(m.managed, event[t])
             k == [m EXCEPT !.managed = a]
  <2>2. a \in Seq(Event) /\ ToSet(a) = ToSet(m.managed) \cup {event[t]}
    BY <1>1, <2>1, AppendedSet
  <2>3. k \in Em /\ k.managed = a /\ k.active = m.active
    BY <1>1, <2>2, Remanaged
  <2>4. /\ dbPc'[t] = "add" /\ connected' = connected /\ db' = db /\ event' = event
        /\ em' = [em EXCEPT ![t] = k]
    BY <1>3, <1>5, <1>8, <1>12, <2>1 DEF Persist
  <2> HIDE DEF k
  <2>5. Manages(t) /\ event[t] \in Managed(t)'
    BY <1>1, <1>6, <2>1, <2>2, <2>3, <2>4 DEF Manages, Fresh
  <2> QED
    BY <1>6, <1>8, <2>1, <2>3, <2>4, <2>5 DEF Ready, HasTransaction
<1>13. CASE Add(t)
  <2>1. /\ dbPc[t] = "add" /\ dbPc'[t] \in {"idle", "flush"}
        /\ connected' = connected /\ db' = db /\ em' = em
        /\ dbPc'[t] # "idle" => event' = event
        /\ HasTransaction(t) /\ event[t] # NoEvent
    BY <1>3, <1>4, <1>13, TypeParts DEF Add, At, Ready, ThreadsTyped
  <2>2. Batch(t)' = Batch(t) /\ HasTransaction(t)'
    BY <2>1 DEF Batch, HasTransaction
  <2> QED
    BY <1>1, <1>7, <2>1, <2>2 DEF Ready, Keeps, Fresh
<1>14. CASE Flush(t)
  <2>1. /\ dbPc[t] = "flush" /\ dbPc'[t] \in {"idle", "commit"}
        /\ connected' = connected /\ db' = db /\ em' = em
        /\ dbPc'[t] # "idle" => event' = event /\ mUncommitted # {}
        /\ event' = event \/ event'[t] = NoEvent
    BY <1>2, <1>3, <1>4, <1>14 DEF Flush, At, Return
  <2>2. Batch(t)' = Batch(t) /\ (HasTransaction(t) => HasTransaction(t)')
    BY <2>1 DEF Batch, HasTransaction
  <2> QED
    BY <1>1, <1>7, <2>1, <2>2 DEF Ready, Keeps, Fresh
<1>15. CASE Commit(t)
  <2>1. dbPc[t] = "commit" /\ InTransaction(t)
    BY <1>8, <1>15 DEF Commit, At, Ready
  <2>2. /\ dbPc'[t] = "clear" /\ connected' = connected /\ event' = event
        /\ db' = db \o Batch(t) /\ em' = [em EXCEPT ![t] = NewEm]
    BY <1>1, <1>3, <1>5, <1>15, <2>1 DEF Commit
  <2>3. Stored' = Stored \cup Managed(t)
    BY <1>1, <1>2, <2>2, ConcatenatedSet DEF Stored
  <2>4. Batch(t)' = <<>> /\ \A u \in Thread \ {t} : em'[u] = em[u]
    BY <1>6, <2>2, NewEmTyped
  <2>5. event[t] # NoEvent => event[t] \in Stored'
    BY <2>1, <2>3 DEF Ready
  <2> QED
    BY <2>1, <2>2, <2>4, <2>5 DEF Ready, StoresBatch, Fresh
<1>16. CASE Clear(t)
  <2>1. /\ dbPc[t] = "clear" /\ dbPc'[t] = "idle" /\ connected' = connected /\ db' = db
        /\ event'[t] = NoEvent
    BY <1>2, <1>4, <1>16 DEF Clear, At, Return
  <2>2. em' = [em EXCEPT ![t] = [m EXCEPT !.managed = <<>>]]
    BY <1>16 DEF Clear
  <2>3. [m EXCEPT !.managed = <<>>] \in Em /\ [m EXCEPT !.managed = <<>>].managed = <<>>
    BY <1>1, Remanaged, EmptySeq
  <2>4. Batch(t) = <<>> /\ (event[t] # NoEvent => event[t] \in Stored)
    BY <1>1, <2>1, EmptySet DEF Ready
  <2> QED
    BY <1>1, <1>6, <1>7, <2>1, <2>2, <2>3, <2>4 DEF Ready, Keeps, Fresh
<1> QED
  BY <1>9, <1>10, <1>11, <1>12, <1>13, <1>14, <1>15, <1>16 DEF DbStep

\* In other words, nothing that was due is lost.
LEMMA CalmMoved ==
  ASSUME DbTypeOK, NEW t \in Thread, Keeps(t) \/ Manages(t) \/ StoresBatch(t)
  PROVE  /\ Managed(t) \subseteq Managed(t)' \cup Stored' /\ Stored \subseteq Stored'
         /\ Due(t) \subseteq Due(t)' \cup Stored'
<1>1. /\ Batch(t) \in Seq(Event) /\ db \in Seq(Event)
      /\ Managed(t) = ToSet(Batch(t)) /\ Managed(t)' = ToSet(Batch(t)')
  <2>1. Managed(t)' = ToSet(Batch(t)')
    BY EmptySet DEF Managed, Batch
  <2> QED
    BY <2>1, BatchTyped, TypeParts DEF DataTyped
<1>2. CASE Keeps(t)
  BY <1>1, <1>2 DEF Keeps, Due, Stored
<1>3. CASE Manages(t)
  <2>1. event[t] \in Event
    BY <1>3, TypeParts DEF Manages, Fresh, ThreadsTyped
  <2> QED
    BY <1>1, <1>3, <2>1, AppendedSet DEF Manages, Due, Stored
<1>4. CASE StoresBatch(t)
  BY <1>1, <1>4, ConcatenatedSet DEF StoresBatch, Due, Stored
<1> QED
  BY <1>2, <1>3, <1>4
=============================================================================
