--------------------------- MODULE MCPolicyEditor ---------------------------
\* A small instance of PolicyEditor for TLC.
EXTENDS PolicyEditor, TLC

Symmetry == Permutations(Group) \cup Permutations(Perm)

\* The number of perm maps stored when an administrator or an agent goes on.
MaxMaps == 2

\* A form is edited more than once only when there is at most one perm map and no agent
\* interferes.  Nothing is claimed of the forms opened after a race or a stale form:
\* from there on only grants and revocations are explored.
Bounded ==
    /\ Cardinality(Maps(permGroups)) <= MaxMaps
    /\ raced \/ stale => \A a \in Admin : form[a] = Closed
    /\ \A a \in Admin : form[a] # Closed /\ form[a].edits > 1 =>
            Cardinality(Maps(permGroups)) <= 1 /\ \A r \in Request : tx[r] = Idle
=============================================================================
