----------------------------- MODULE MCNameNode -----------------------------
\* A small instance of NameNode for TLC.
EXTENDS NameNode, TLC

CONSTANTS u1, u2, g1

MCGroupsOf == [u \in User |-> IF u = u1 THEN {g1} ELSE {}]
MCAccessTypes == [READ_WRITE |-> <<"read", "write">>]

root == <<Sep>>
a == <<Sep, "a">>
ab == <<Sep, "a", "b">>
a_b == <<Sep, "a", Sep, "b">>

MCInodePath == {<<>>, a}
MCPath == {<<>>, root, a, ab, a_b}

Perm(access, users, groups) == [access |-> access, users |-> users, groups |-> groups]
Policy(resources, recursive, enabled, audit, permissions) ==
    [resourceList |-> resources, recursiveInd |-> recursive, enabled |-> enabled,
     auditInd |-> audit, permissions |-> permissions]

readA == Policy({a}, 1, TRUE, 1, {Perm({"read"}, {u1}, {})})
writeAll == Policy({<<Sep, "*">>}, 0, TRUE, 0, {Perm({"write"}, {}, {Public})})
readWriteAll == Policy({root}, 1, TRUE, 1, {Perm({"read", "write"}, {}, {g1})})
below == Policy({<<Sep, "a", "*">>}, 1, TRUE, 1, {Perm({"read", "write"}, {u2}, {g1})})
disabledAB == Policy({<<Sep, "?", "b">>, a, <<Sep, "a", "b", Sep>>}, 0, FALSE, 0, {Perm({"read"}, {}, {Public})})

MCContainer == {<<readA>>, <<below, writeAll>>, <<readWriteAll, disabledAB>>}

Symmetry == Permutations(Handler)
=============================================================================
