----------------------------- MODULE AuditTrail -----------------------------
(***************************************************************************)
(* What asynchronous auditing to the database promises, with no queue,     *)
(* thread, batch or transaction: events are stored once each, in the order *)
(* in which they were accepted, and none that was accepted is lost as long *)
(* as there is no trouble (a failure of the database, or an event logged   *)
(* before the provider was started).                                       *)
(*                                                                         *)
(* AsyncAudit implements this specification.                               *)
(***************************************************************************)
EXTENDS Naturals, Sequences, SequencesExt

CONSTANT Event

VARIABLES
    waiting,   \* the events accepted and neither stored nor lost, in order
    stored,    \* the audit table
    troubled   \* something happened that may cost events

trailVars == <<waiting, stored, troubled>>

TrailInit ==
    /\ waiting = <<>>
    /\ stored = <<>>
    /\ troubled = FALSE

Accept(e) ==
    /\ e \notin ToSet(waiting) \cup ToSet(stored)
    /\ waiting' = Append(waiting, e)
    /\ UNCHANGED <<stored, troubled>>

\* The first n events are stored together.
StoreFirst(n) ==
    /\ stored' = stored \o SubSeq(waiting, 1, n)
    /\ waiting' = SubSeq(waiting, n + 1, Len(waiting))

Trouble == troubled' = TRUE

\* Trouble costs the batch being stored or the event being added to it: a run
\* of events that follow one another.  A batch whose commit failed may have been stored nevertheless.
Lose ==
    /\ troubled'
    /\ \E i, j \in 0 .. Len(waiting) :
        /\ i <= j
        /\ waiting' = SubSeq(waiting, 1, i) \o SubSeq(waiting, j + 1, Len(waiting))
    /\ UNCHANGED stored

TrailNext ==
    \/ \E e \in Event : Accept(e)
    \/ \E n \in 1 .. Len(waiting) : StoreFirst(n) /\ (UNCHANGED troubled \/ Trouble)
    \/ Trouble /\ UNCHANGED <<waiting, stored>>
    \/ Lose

TrailSpec == TrailInit /\ [][TrailNext]_trailVars
=============================================================================
