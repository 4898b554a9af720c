----------------------------- MODULE HdfsPolicy -----------------------------
(***************************************************************************)
(* Which policies are about a path of HDFS: as the agent answers it for    *)
(* the name node (URLBasedAuthDB), and as the policy manager answers it    *)
(* when it asks who administers a path (XABizUtil).                        *)
(*                                                                         *)
(* A string is a sequence of characters.  No two characters differ only in *)
(* case and none is a space, so that the manager's equalsIgnoreCase and    *)
(* trim do nothing.  A container is the sequence of its policies; a policy *)
(* is a record of what it applies to and of its permissions.               *)
(***************************************************************************)
EXTENDS Naturals, SequencesExt

CONSTANTS
    User,
    Public,         \* PUBLIC_ACCESS_ROLE
    GroupsOf,       \* the groups of each user
    NoContainer     \* no policy has been applied yet

Sep == "/"
IsWildcardPath(r) == \E i \in DOMAIN r : r[i] \in {"*", "?"}

\* FilenameUtils.wildcardMatch: * stands for any characters, Sep among them,
\* and ? for one.  The first j characters of w match the first c[j] of s.
Aligns(c, s, w) ==
    /\ c[0] = 0 /\ c[Len(w)] = Len(s)
    /\ \A j \in 1 .. Len(w) :
        IF w[j] = "*" THEN c[j - 1] <= c[j]
        ELSE c[j] = c[j - 1] + 1 /\ w[j] \in {s[c[j]], "?"}

WildcardMatch(s, w) == \E c \in [0 .. Len(w) -> 0 .. Len(s)] : Aligns(c, s, w)

\* String.split drops the empty pieces at the end.
Trimmed(p) == SubSeq(p, 1, Max({0} \cup {i \in DOMAIN p : p[i] # Sep}))

-----------------------------------------------------------------------------
(* The agent *)

\* Variant: the separator is appended before the comparison.
ParentsWithSep(p) ==
    {SubSeq(p, 1, i) : i \in {j \in DOMAIN p : p[j] = Sep}} \cup {Append(p, Sep)}

\* The path cut off before each separator, and as a whole.
Parents(p) ==
    IF p = <<>> THEN {<<>>}
    ELSE {SubSeq(Trimmed(p), 1, i - 1) : i \in {j \in DOMAIN Trimmed(p) : p[j] = Sep}}
             \cup ({Trimmed(p)} \ {<<>>})

isRecursiveWildCardMatch(p, w) == \E q \in Parents(p) : WildcardMatch(q, w)

rulePathMatched(acl, p, r) ==
    \/ acl.recursiveInd = 1 /\ IsWildcardPath(r) /\ isRecursiveWildCardMatch(p, r)
    \/ acl.recursiveInd = 1 /\ ~IsWildcardPath(r) /\ IsPrefix(r, p)
    \/ acl.recursiveInd # 1 /\ IsWildcardPath(r) /\ WildcardMatch(p, r)
    \/ acl.recursiveInd # 1 /\ p = r

IsAbout(acl, p) == \E r \in acl.resourceList : rulePathMatched(acl, p, r)

Gives(rp, access, u) ==
    /\ access \in rp.access
    /\ u \in rp.users \/ (GroupsOf[u] \cup {Public}) \cap rp.groups # {}

\* An access is granted by any permission of an enabled policy about the path.
isAccessGranted(pc, p, access, u) ==
    /\ pc # NoContainer
    /\ \E i \in DOMAIN pc :
        /\ pc[i].enabled
        /\ IsAbout(pc[i], p)
        /\ \E rp \in pc[i].permissions : Gives(rp, access, u)

\* The break of the code leaves only the loop over the resources of a policy:
\* the last policy about the path decides, a disabled one as well.
isAuditLogEnabledByACL(pc, p) ==
    /\ pc # NoContainer
    /\ \E i \in DOMAIN pc :
        /\ IsAbout(pc[i], p)
        /\ pc[i].auditInd = 1
        /\ \A j \in DOMAIN pc : j > i => ~IsAbout(pc[j], p)

-----------------------------------------------------------------------------
(* The policy manager.  A path to check has no wildcards here; the manager *)
(* replaces those of a path that has by random characters.                 *)

WithSep(p) == IF p # <<>> /\ Last(p) = Sep THEN p ELSE Append(p, Sep)
comparePathsForExactMatch(p, r) == WithSep(p) = WithSep(r)

\* Where String.split cuts a string: before it, at each separator, behind it.
Cuts(t) == {0, Len(t) + 1} \cup {i \in DOMAIN t : t[i] = Sep}
Cut(t, k) == CHOOSE c \in Cuts(t) : Cardinality({d \in Cuts(t) : d < c}) = k

\* What it makes of a path.
Pieces(p) ==
    LET t == Trimmed(p)
    IN  IF p # <<>> /\ t = <<>> THEN <<>>
        ELSE [k \in 1 .. Cardinality(Cuts(t)) - 1 |-> SubSeq(t, Cut(t, k - 1) + 1, Cut(t, k) - 1)]

nonRecursiveWildCardMatch(p, w) ==
    /\ Len(Pieces(p)) = Len(Pieces(w))
    /\ Pieces(p) # <<>>
    /\ \A i \in DOMAIN Pieces(p) : WildcardMatch(Pieces(p)[i], Pieces(w)[i])

\* The part of matchHdfsPolicy that is about the path.
matchHdfsPolicy(acl, p, r) ==
    \/ comparePathsForExactMatch(p, r)
    \/ acl.recursiveInd = 1 /\ (r = <<Sep>> \/ isRecursiveWildCardMatch(p, r))
    \/ acl.recursiveInd # 1 /\ nonRecursiveWildCardMatch(p, r)
=============================================================================
