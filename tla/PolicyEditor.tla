---------------------------- MODULE PolicyEditor ----------------------------
(***************************************************************************)
(* The permissions of one policy, edited in the administration console     *)
(* (PolicyForm and its variants for Hive and HBase) while agents grant and *)
(* revoke.                                                                 *)
(*                                                                         *)
(* A permission is stored as one perm map for each user or group and type. *)
(* Perm maps with the same permGroup make one row of the form, which shows *)
(* every permission type of the row for every member of it.  Saving sends  *)
(* all rows back, with the ids of the perm maps that the form kept; what   *)
(* is stored and has no id in the request is deleted (updateXResource).    *)
(* Grants and revocations give all perm maps of the policy new permGroups  *)
(* afterwards (updatePermGroup).                                           *)
(*                                                                         *)
(* Each of these is a transaction that reads one snapshot and rewrites all *)
(* the perm maps it has read; one that was deleted meanwhile stays so.     *)
(***************************************************************************)
EXTENDS Naturals, FiniteSets, FiniteSetsExt, Sequences, SequencesExt

CONSTANTS
    Group, User,   \* those a permission can be given to
    Perm,          \* the permission types of the repository
    AdminPerm,     \* XA_PERM_TYPE_ADMIN; NoPerm where no such column is modelled
    Admin,         \* administrators, each with a browser
    Request,       \* grants and revocations that agents have under way
    MaxRows,       \* how many groups, and how many users, there are: bounds the rows added
    MaxEdits,      \* bound on the edits of a form
    MaxAsked,      \* bound on the pairs one grant or revocation names
    MaxCopies,     \* bound on the perm maps stored for one pair
    New,           \* a permission the form has no id for
    Stored,        \* the place of what is committed
    Closed,        \* no form on the page
    Idle           \* no request under way

Who == Group \cup User
Pair == Who \X Perm

\* A row of x_perm_map, and one that client c has created and not committed.  Only
\* the equality of ids matters, so that they tell apart the perm maps of one pair.
MapIn(place, copies) == [who : Who, perm : Perm, in : {place}, copy : copies]
Map == MapIn(Stored, 1 .. MaxCopies)
Created(c) == MapIn(c, Nat)

VARIABLES
    permGroups,  \* the committed perm maps, those of one permGroup in one set
    auditOn,     \* the policy has an audit map
    form,        \* the form on each administrator's page
    tx,          \* the transaction each administrator or agent has under way
    raced,       \* some transaction was committed over one it had not seen
    stale        \* some form sent an id whose perm map was gone

editorVars == <<permGroups, auditOn, form, tx, raced, stale>>

\* An id the form has whose perm map was deleted: whose it was is kept with it.
Gone == [who : Who]

\* members: groupId or userId; ids: _vPermList, the id kept for each type checked.
RowOf(K) ==
    [members : SUBSET K, ids : UNION {[P -> Map \cup Gone \cup {New}] : P \in SUBSET Perm}]
EmptyRow == [members |-> {}, ids |-> <<>>]
Form == [groups : Seq(RowOf(Group)), users : Seq(RowOf(User)),
         audit : BOOLEAN, edits : 0 .. MaxEdits]

\* seen: what of the perm maps it read is still stored; writes: those it keeps and
\* creates, by their new permGroups; the others it saw it deletes.
Tx(c) == [op : {"save", "grant", "replace", "revoke"}, asked : SUBSET Pair,
          seen : SUBSET Map, writes : SUBSET SUBSET (Map \cup Created(c)),
          overtaken : BOOLEAN]

ASSUME EditorAssumption ==
    /\ Group \cap User = {} /\ Admin \cap Request = {}
    /\ IsFiniteSet(Group) /\ IsFiniteSet(User) /\ IsFiniteSet(Perm)
    /\ MaxRows \in Nat /\ MaxEdits \in Nat /\ MaxAsked \in Nat /\ MaxCopies \in Nat
    /\ Stored \notin Admin \cup Request
    /\ New \notin Map \cup Gone
    /\ Closed \notin Form /\ \A c \in Admin \cup Request : Idle \notin Tx(c)

Maps(groups) == UNION groups
PairOf(map) == <<map.who, map.perm>>
Granted(groups) == {PairOf(map) : map \in Maps(groups)}

IdsOf(rows) == UNION {Range(rows[i].ids) : i \in DOMAIN rows}
IdsShown(f) == IdsOf(f.groups) \cup IdsOf(f.users)

\* The ids of an open form and the perm maps of an open transaction are stored, or are
\* known to be gone.
EditorTypeOK ==
    /\ permGroups \subseteq (SUBSET Map) \ {{}}
    /\ auditOn \in BOOLEAN
    /\ \A a \in Admin : form[a] # Closed =>
            form[a] \in Form /\ IdsShown(form[a]) \ (Gone \cup {New}) \subseteq Maps(permGroups)
    /\ \A c \in Admin \cup Request : tx[c] # Idle =>
            tx[c] \in Tx(c) /\ tx[c].seen \subseteq Maps(permGroups)
    /\ raced \in BOOLEAN /\ stale \in BOOLEAN

\* A policy as it is created without permissions.
EditorInit ==
    /\ permGroups = {}
    /\ auditOn = TRUE
    /\ form = [a \in Admin |-> Closed]
    /\ tx = [c \in Admin \cup Request |-> Idle]
    /\ raced = FALSE
    /\ stale = FALSE

-----------------------------------------------------------------------------
(* The form: makeCollForGroupPermission, makeCollForUserPermission and what  *)
(* the rows let an administrator do.                                         *)

\* The rows one permGroup can make among K: of each type, the id of the perm map
\* that comes first is kept.
RowsOf(G, K) ==
    LET mine == {map \in G : map.who \in K}
        perms == {map.perm : map \in mine}
    IN {[members |-> {map.who : map \in mine}, ids |-> f] :
            f \in {h \in [perms -> mine] : \A p \in perms : h[p].perm = p}}

\* A list without rows is shown with an empty one.
Lists(K) ==
    LET groups == {G \in permGroups : \E map \in G : map.who \in K}
    IN IF groups = {} THEN {<<EmptyRow>>}
       ELSE UNION {SetToSeqs({pick[G] : G \in groups}) :
                pick \in {f \in [groups -> UNION {RowsOf(G, K) : G \in groups}] :
                            \A G \in groups : f[G] \in RowsOf(G, K)}}

Open(a) ==
    /\ form[a] = Closed
    /\ \E g \in Lists(Group), u \in Lists(User) :
        form' = [form EXCEPT ![a] = [groups |-> g, users |-> u, audit |-> auditOn, edits |-> 0]]
    /\ UNCHANGED <<permGroups, auditOn, tx, raced, stale>>

\* The page is blocked while a save is under way.
Editing(a) == form[a] # Closed /\ tx[a] = Idle

EditForm(a, f) ==
    /\ Editing(a)
    /\ form[a].edits < MaxEdits
    /\ form' = [form EXCEPT ![a] = [f EXCEPT !.edits = @ + 1]]
    /\ UNCHANGED <<permGroups, auditOn, tx, raced, stale>>

\* The drop-down does not offer what any row of the list has.
WithMembers(rows, K) ==
    {[rows EXCEPT ![i].members = @ \cup {w}] :
        i \in DOMAIN rows, w \in {w \in K : \A j \in DOMAIN rows : w \notin rows[j].members}}
WithoutMember(rows, K) ==
    {[rows EXCEPT ![i].members = @ \ {w}] : i \in DOMAIN rows, w \in K}

\* evClickTD.  Checking the type for administrators checks all the others.
Checked(row, p) ==
    LET all == DOMAIN row.ids \cup (IF p = AdminPerm THEN Perm ELSE {p})
    IN [row EXCEPT !.ids = [q \in all |-> IF q \in DOMAIN row.ids THEN row.ids[q] ELSE New]]
Unchecked(row, p) ==
    [row EXCEPT !.ids = [q \in DOMAIN row.ids \ {p} |-> row.ids[q]]]
WithClick(rows) ==
    {[rows EXCEPT ![i] = IF p \in DOMAIN @.ids THEN Unchecked(@, p) ELSE Checked(@, p)] :
        i \in DOMAIN rows, p \in Perm}

\* addNew, evDelete.
WithRow(rows) == IF Len(rows) < MaxRows THEN {Append(rows, EmptyRow)} ELSE {}
WithoutRow(rows) == {RemoveAt(rows, i) : i \in DOMAIN rows}

EditedList(rows, K) ==
    WithMembers(rows, K) \cup WithoutMember(rows, K) \cup WithClick(rows)
        \cup WithRow(rows) \cup WithoutRow(rows)

EditRows(a) ==
    /\ Editing(a)
    /\ \/ \E g \in EditedList(form[a].groups, Group) \ {form[a].groups} :
            EditForm(a, [form[a] EXCEPT !.groups = g])
       \/ \E u \in EditedList(form[a].users, User) \ {form[a].users} :
            EditForm(a, [form[a] EXCEPT !.users = u])

Empty(row) == row.members = {} /\ DOMAIN row.ids = {}
Complete(row) == row.members # {} /\ DOMAIN row.ids # {}
HalfFilled(row) == ~Empty(row) /\ ~Complete(row)

\* formValidation looks at the rows up to the first that is not complete, and
\* reports on the last it looked at.  It passes over empty rows in the list of groups,
\* not in the list of users.
NonEmpty(rows) == {i \in DOMAIN rows : ~Empty(rows[i])}
Incomplete(rows, I) == {i \in I : ~Complete(rows[i])}
LookedAtLast(rows, I) ==
    IF Incomplete(rows, I) = {} THEN Max(I) ELSE Min(Incomplete(rows, I))

\* Variant of ReportedRow: the last row decides.
ReportedRowLast(rows, I) == IF I = {} THEN EmptyRow ELSE rows[Max(I)]

ReportedRow(rows, I) == IF I = {} THEN EmptyRow ELSE rows[LookedAtLast(rows, I)]

GroupReport(f) == ReportedRow(f.groups, NonEmpty(f.groups))
UserReport(f) == ReportedRow(f.users, DOMAIN f.users)
StartsComplete(rows, I) == I # {} /\ Complete(rows[Min(I)])
HasPermissions(f) ==
    StartsComplete(f.groups, NonEmpty(f.groups)) \/ StartsComplete(f.users, DOMAIN f.users)

\* evAuditChange
ToggleAudit(a) ==
    /\ Editing(a)
    /\ form[a].audit => HasPermissions(form[a])
    /\ EditForm(a, [form[a] EXCEPT !.audit = ~@])

\* Variant of Accepted: what auditing is set to does not matter.
AcceptedUnaudited(f) == ~HalfFilled(GroupReport(f)) /\ ~HalfFilled(UserReport(f))

\* onSave
Accepted(f) ==
    /\ ~HalfFilled(GroupReport(f)) /\ ~HalfFilled(UserReport(f))
    /\ Complete(GroupReport(f)) \/ Complete(UserReport(f)) \/ f.audit

Leave(a) ==
    /\ Editing(a)
    /\ form' = [form EXCEPT ![a] = Closed]
    /\ UNCHANGED <<permGroups, auditOn, tx, raced, stale>>

-----------------------------------------------------------------------------
(* The policy manager's transactions.                                        *)

\* beforeSave, afterCommit: every member of a row with every type of it, with the
\* id kept for the type if it is one of this member's.
RowsSent(f) == f.groups \o f.users
Sent(row) ==
    {[pair |-> <<w, p>>,
      id   |-> IF row.ids[p] # New /\ row.ids[p].who # w THEN New ELSE row.ids[p]] :
        w \in row.members, p \in DOMAIN row.ids}
Shown(f) == UNION {{item.pair : item \in Sent(RowsSent(f)[i])} : i \in DOMAIN RowsSent(f)}
IdsSent(f) ==
    UNION {{item.id : item \in Sent(RowsSent(f)[i])} : i \in DOMAIN RowsSent(f)}

\* updateXResource: what has no id is created, what has an id that is not stored is
\* passed over.  Each row gets a permGroup of its own.
RowStored(a, i) ==
    LET items == Sent(RowsSent(form[a])[i])
    IN {item.id : item \in {x \in items : x.id \in Map}}
        \cup {[who |-> item.pair[1], perm |-> item.pair[2], in |-> a, copy |-> i] :
                 item \in {x \in items : x.id = New}}
SaveResult(a) == {RowStored(a, i) : i \in DOMAIN RowsSent(form[a])}

\* compareTwoListElements on the types of two users or groups.
TypesOf(M, w) == {map.perm : map \in {x \in M : x.who = w}}
CountOf(M, w) == Cardinality({x \in M : x.who = w})

\* Variant of SameTypes: only the lengths are compared.
SameCount(M, v, w) == CountOf(M, v) = CountOf(M, w)

SameTypes(M, v, w) == CountOf(M, v) = CountOf(M, w) /\ TypesOf(M, v) \subseteq TypesOf(M, w)

\* updatePermGroup: in the order of a hash map, each user or group joins the first
\* that has the same types.
Follows(M, rank, lead) ==
    \A w \in DOMAIN lead :
        LET leaders == {v \in DOMAIN lead :
                          lead[v] = v /\ rank[v] <= rank[w] /\ SameTypes(M, v, w)}
        IN lead[w] \in leaders /\ \A v \in leaders : rank[lead[w]] <= rank[v]
Regroupings(M) ==
    LET W == {map.who : map \in M}
        Ranks == {r \in [W -> 1 .. Cardinality(W)] : Range(r) = 1 .. Cardinality(W)}
        Leads == {f \in [W -> W] : \A w \in W : SameTypes(M, f[w], w)}
    IN {{{map \in M : lead[map.who] = v} : v \in Range(lead)} :
            lead \in {f \in Leads : \E rank \in Ranks : Follows(M, rank, f)}}

Creation(r, pairs) ==
    {[who |-> pair[1], perm |-> pair[2], in |-> r, copy |-> 1] : pair \in pairs}

\* Variant of GrantResult: the pairs are created without a search for them.
GrantResultUnchecked(r, asked) ==
    Regroupings(Maps(permGroups) \cup Creation(r, asked))

GrantResult(r, asked) ==
    Regroupings(Maps(permGroups) \cup Creation(r, asked \ Granted(permGroups)))

\* isReplacePerm: all perm maps of the users and groups named are deleted first.
ReplaceResult(r, asked) ==
    Regroupings({map \in Maps(permGroups) : \A pair \in asked : map.who # pair[1]}
                    \cup Creation(r, asked))

\* Variant of Found: the type is not compared.
FoundAnyType(asked) ==
    {D \in SUBSET {map \in Maps(permGroups) : map.who \in {pair[1] : pair \in asked}} :
        Cardinality(D) = Cardinality(asked \cap Granted(permGroups))}

\* revokeXResource: the first perm map of each pair.
Found(asked) ==
    {D \in SUBSET {map \in Maps(permGroups) : PairOf(map) \in asked} :
        /\ {PairOf(map) : map \in D} = asked \cap Granted(permGroups)
        /\ Cardinality(D) = Cardinality(asked \cap Granted(permGroups))}
RevokeResult(asked) == UNION {Regroupings(Maps(permGroups) \ D) : D \in Found(asked)}

Begin(c, op, asked, results) ==
    /\ tx[c] = Idle
    /\ \E writes \in results :
        tx' = [tx EXCEPT ![c] = [op |-> op, asked |-> asked, seen |-> Maps(permGroups),
                                 writes |-> writes, overtaken |-> FALSE]]
    /\ UNCHANGED <<permGroups, auditOn, form, raced, stale>>

Save(a) ==
    /\ Editing(a)
    /\ Accepted(form[a])
    /\ Begin(a, "save", {}, {SaveResult(a)})

\* grantPermission, revokePermission
Ask(r) ==
    \E asked \in (SUBSET Pair) \ {{}} :
        /\ Cardinality(asked) <= MaxAsked
        /\ \/ Begin(r, "grant", asked, GrantResult(r, asked))
           \/ Begin(r, "replace", asked, ReplaceResult(r, asked))
           \/ Begin(r, "revoke", asked, RevokeResult(asked))

\* The rows that c writes, with their ids.
Deleted(c) == tx[c].seen \ Maps(tx[c].writes)
Free(c, pair) ==
    (1 .. MaxCopies) \ {m.copy : m \in {n \in Maps(permGroups) \ Deleted(c) : PairOf(n) = pair}}
Before(c, map) ==
    {m \in Maps(tx[c].writes) : m.in = c /\ PairOf(m) = PairOf(map) /\ m.copy < map.copy}
CommittedMap(c, map) ==
    LET free == Free(c, PairOf(map))
    IN IF map.in = Stored THEN map
       ELSE [map EXCEPT !.in = Stored, !.copy = CHOOSE k \in free :
                Cardinality({j \in free : j < k}) = Cardinality(Before(c, map))]

\* The bound MaxCopies: there are ids left for what c creates.
CopiesLeft(c) ==
    \A map \in Maps(tx[c].writes) :
        map.in = c => Cardinality(Before(c, map)) < Cardinality(Free(c, PairOf(map)))

\* Variant of Overtaken: a transaction stores again what was deleted since it read it.
OvertakenRestores(t, deleted) == [t EXCEPT !.overtaken = TRUE]

Overtaken(t, deleted) ==
    [t EXCEPT !.seen = @ \ deleted, !.writes = {G \ deleted : G \in @}, !.overtaken = TRUE]

\* What was committed since the transaction began keeps its permGroup; what was
\* deleted since stays deleted, in this and in the other transactions.
Commit(c) ==
    /\ tx[c] # Idle
    /\ CopiesLeft(c)
    /\ permGroups' =
        ({G \ tx[c].seen : G \in permGroups}
            \cup {{CommittedMap(c, map) : map \in G} : G \in tx[c].writes}) \ {{}}
    /\ raced' = (raced \/ tx[c].overtaken)
    /\ tx' = [d \in DOMAIN tx |-> IF d = c \/ tx[d] = Idle THEN Idle
                                  ELSE Overtaken(tx[d], Deleted(c))]

RowWithout(row, deleted) ==
    [row EXCEPT !.ids = [p \in DOMAIN @ |-> IF @[p] \in deleted THEN [who |-> @[p].who] ELSE @[p]]]
FormWithout(f, deleted) ==
    [f EXCEPT !.groups = [i \in DOMAIN @ |-> RowWithout(@[i], deleted)],
              !.users = [i \in DOMAIN @ |-> RowWithout(@[i], deleted)]]
FormsWithout(deleted) ==
    [a \in Admin |-> IF form[a] = Closed THEN Closed ELSE FormWithout(form[a], deleted)]

\* The page goes back to the list of policies.
CommitSave(a) ==
    /\ Commit(a)
    /\ auditOn' = form[a].audit
    /\ stale' = (stale \/ Gone \cap IdsSent(form[a]) # {})
    /\ form' = [FormsWithout(Deleted(a)) EXCEPT ![a] = Closed]

CommitRequest(r) ==
    /\ Commit(r)
    /\ form' = FormsWithout(Deleted(r))
    /\ UNCHANGED <<auditOn, stale>>

\* Refused, or rolled back; the form stays.
Rollback(c) ==
    /\ tx[c] # Idle
    /\ tx' = [tx EXCEPT ![c] = Idle]
    /\ UNCHANGED <<permGroups, auditOn, form, raced, stale>>

EditorNext ==
    \/ \E a \in Admin :
        Open(a) \/ EditRows(a) \/ ToggleAudit(a) \/ Save(a) \/ Leave(a) \/ CommitSave(a)
    \/ \E r \in Request : Ask(r) \/ CommitRequest(r)
    \/ \E c \in Admin \cup Request : Rollback(c)

EditorSpec == EditorInit /\ [][EditorNext]_editorVars

-----------------------------------------------------------------------------
\* A row shows every type of it for every member of it: that is what is granted, as
\* long as no transaction raced another and no form sent an id that was gone.
FormShowsWhatIsGranted ==
    ~raced /\ ~stale =>
        \A G \in permGroups, K \in {Group, User} :
            LET mine == {map \in G : map.who \in K}
            IN {map.who : map \in mine} \X {map.perm : map \in mine}
                    = {PairOf(map) : map \in mine}

\* A pair is stored twice only if two transactions created it at the same time.
NoDuplicateMaps ==
    ~raced => \A m, n \in Maps(permGroups) : PairOf(m) = PairOf(n) => m = n

\* After a revocation nobody has what it took away, unless it was stored twice or
\* another transaction was committed meanwhile.
RevokeTakesAway ==
    [][\A r \in Request :
        (tx[r] # Idle /\ tx'[r] = Idle /\ permGroups' # permGroups /\ tx[r].op = "revoke")
            => \A pair \in tx[r].asked \cap Granted(permGroups') :
                \/ tx[r].overtaken
                \/ Cardinality({m \in tx[r].seen : PairOf(m) = pair}) > 1]_editorVars

\* "Please add permission(s) for the selected Group, else group will not be added"
\* (msg.addGroupPermission): no row that is half filled is left out of a save
\* silently, except in the list of users, after an empty row.
NothingHalfFilledIsSaved ==
    \A a \in Admin :
        tx[a] # Idle =>
            /\ \A i \in DOMAIN form[a].groups : ~HalfFilled(form[a].groups[i])
            /\ \A i \in DOMAIN form[a].users : HalfFilled(form[a].users[i]) =>
                    \E j \in 1 .. i - 1 : Empty(form[a].users[j])

\* "You must have at least one or more user/group access defined for the policy"
\* (msg.yourAuditLogginIsOff): a policy that is saved grants or audits something.
SavedPolicyDoesSomething ==
    \A a \in Admin : tx[a] # Idle => form[a].audit \/ Shown(form[a]) # {}

\* "Policy updated successfully" (saveMethod): what the form shows is what is granted
\* then, even where no other transaction raced the save.
SavedAsShown ==
    [][\A a \in Admin :
        (tx[a] # Idle /\ ~tx[a].overtaken /\ form'[a] = Closed)
            => Granted(permGroups') = Shown(form[a])]_editorVars

-----------------------------------------------------------------------------
(* PolicyPermissions, implemented.                                          *)

OpenForms == {a \in Admin : form[a] # Closed}
ShownTo(a) == IF form[a] = Closed THEN {} ELSE Shown(form[a])
RequestOf(c) ==
    [by |-> c, op |-> tx[c].op, asked |-> tx[c].asked, overtaken |-> tx[c].overtaken]
UnderWay == {RequestOf(c) : c \in {d \in Admin \cup Request : tx[d] # Idle}}

Permissions == INSTANCE PolicyPermissions WITH
    granted <- Granted(permGroups), open <- OpenForms,
    shown <- [a \in Admin |-> ShownTo(a)], pending <- UnderWay

\* A form opens with exactly what is granted, and every grant, revocation and save ends
\* with exactly its effect on what is granted then, up to races and ids that are gone;
\* and in races, too, agents give and take nothing but what they name.
ImplementsPermissions == Permissions!PermissionsSpec
=============================================================================
