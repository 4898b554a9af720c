----------------------------- MODULE MCSyncAudit -----------------------------
\* A small instance of SyncAudit for TLC.
EXTENDS SyncAudit, TLC

Symmetry == Permutations(Thread) \cup Permutations(Event)
=============================================================================
