-------------------------- MODULE MCUserGroupSync ---------------------------
\* A small instance of UserGroupSync for TLC.
EXTENDS UserGroupSync

CONSTANTS u1, s1, g1, g2

\* u1 may be a member of g2 and have the group g1; s1, below the minimum, may be a
\* member of g1; g2 may have no line.
MCGroupContent ==
    {[g \in {g1, g2} |-> IF g = g1 THEN a ELSE b] : a \in {{}, {s1}}, b \in {NoLine, {}, {u1}}}
MCPasswdContent == {[u \in {u1, s1} |-> IF u = u1 THEN p ELSE g2] : p \in {NoLine, g1}}
=============================================================================
