------------------------- MODULE PolicyEditor_proofs -------------------------
(***************************************************************************)
(* The permissions of a policy, for any number of users, groups, types,    *)
(* administrators and agents.  First what a row holds and what an edit     *)
(* makes of it, then what a transaction that no other has overtaken writes,*)
(* and last that all of it implements PolicyPermissions.                   *)
(***************************************************************************)
EXTENDS PolicyEditor, FiniteSetTheorems, SequenceTheorems, WellFoundedInduction, TLAPS

Ids(M, p) == {map \in M : map.perm = p} \cup Gone \cup {New}

\* A row whose ids are those of perm maps of M, each of the type it is kept for.
RowGood(row, K, M) ==
    /\ row \in RowOf(K)
    /\ \A p \in DOMAIN row.ids : row.ids[p] \in Ids(M, p)

ListGood(rows, K, M) ==
    /\ rows \in Seq(RowOf(K))
    /\ \A i \in DOMAIN rows : RowGood(rows[i], K, M)

\* Nobody is in two rows.
RowsApart(rows) ==
    \A i, j \in DOMAIN rows : i # j => rows[i].members \cap rows[j].members = {}

-----------------------------------------------------------------------------
\* Rows and lists.

\* An id that is gone is no perm map: it has no type.
LEMMA GoneApart == Gone \cap Map = {}
<1>1. \A x \in Gone : DOMAIN x = {"who"}
  BY DEF Gone
<1>2. \A x \in Map : "perm" \in DOMAIN x
  BY DEF Map, MapIn
<1> QED
  BY <1>1, <1>2

LEMMA RowParts ==
  ASSUME NEW K, NEW row \in RowOf(K)
  PROVE  /\ row.members \subseteq K
         /\ DOMAIN row.ids \subseteq Perm
         /\ row.ids \in [DOMAIN row.ids -> Map \cup Gone \cup {New}]
         /\ row = [members |-> row.members, ids |-> row.ids]
  BY DEF RowOf

LEMMA RowMade ==
  ASSUME NEW K, NEW M \in SUBSET Map, NEW W \in SUBSET K, NEW P \in SUBSET Perm, NEW f,
         f \in [P -> Map \cup Gone \cup {New}], \A p \in P : f[p] \in Ids(M, p)
  PROVE  RowGood([members |-> W, ids |-> f], K, M)
<1>1. [members |-> W, ids |-> f] \in RowOf(K)
  BY DEF RowOf
<1> QED
  BY <1>1 DEF RowGood

LEMMA EmptyRowGood ==
  ASSUME NEW K, NEW M \in SUBSET Map
  PROVE  RowGood(EmptyRow, K, M) /\ EmptyRow \in RowOf(K)
<1>1. <<>> \in [{} -> Map \cup Gone \cup {New}]
  OBVIOUS
<1> QED
  BY <1>1, RowMade DEF EmptyRow, RowGood

\* Replacing a row by a good one.
LEMMA RowReplaced ==
  ASSUME NEW K, NEW M \in SUBSET Map, NEW rows, ListGood(rows, K, M),
         NEW i \in DOMAIN rows, NEW row, RowGood(row, K, M)
  PROVE  /\ ListGood([rows EXCEPT ![i] = row], K, M)
         /\ Len([rows EXCEPT ![i] = row]) = Len(rows)
         /\ RowsApart(rows)
                /\ (\A j \in DOMAIN rows \ {i} : row.members \cap rows[j].members = {})
            => RowsApart([rows EXCEPT ![i] = row])
<1>1. rows \in Seq(RowOf(K)) /\ row \in RowOf(K)
  BY DEF ListGood, RowGood
<1>2. DOMAIN rows = 1 .. Len(rows)
  BY <1>1
<1>3. [rows EXCEPT ![i] = row] \in Seq(RowOf(K))
      /\ Len([rows EXCEPT ![i] = row]) = Len(rows)
  BY <1>1, <1>2, ExceptSeq
<1>4. DOMAIN [rows EXCEPT ![i] = row] = DOMAIN rows
  OBVIOUS
<1>5. \A j \in DOMAIN rows : [rows EXCEPT ![i] = row][j] = IF j = i THEN row ELSE rows[j]
  OBVIOUS
<1> QED
  BY <1>3, <1>4, <1>5 DEF ListGood, RowsApart

-----------------------------------------------------------------------------
\* What an edit of a list makes of it.

LEMMA MembersEdited ==
  ASSUME NEW K, NEW M \in SUBSET Map, NEW rows, ListGood(rows, K, M),
         NEW g \in WithMembers(rows, K) \cup WithoutMember(rows, K)
  PROVE  ListGood(g, K, M) /\ (RowsApart(rows) => RowsApart(g))
<1>1. PICK i \in DOMAIN rows, w \in K :
        \/ /\ g = [rows EXCEPT ![i].members = @ \cup {w}]
           /\ \A j \in DOMAIN rows : w \notin rows[j].members
        \/ g = [rows EXCEPT ![i].members = @ \ {w}]
  BY DEF WithMembers, WithoutMember
<1>2. RowGood(rows[i], K, M) /\ rows[i] \in RowOf(K)
  BY DEF ListGood, RowGood
<1>3. ASSUME NEW W \in SUBSET K
      PROVE  RowGood([rows[i] EXCEPT !.members = W], K, M)
             /\ [rows[i] EXCEPT !.members = W].members = W
  <2>1. [rows[i] EXCEPT !.members = W] = [members |-> W, ids |-> rows[i].ids]
    BY <1>2, RowParts
  <2>2. RowGood([members |-> W, ids |-> rows[i].ids], K, M)
    <3>1. DOMAIN rows[i].ids \in SUBSET Perm
          /\ rows[i].ids \in [DOMAIN rows[i].ids -> Map \cup Gone \cup {New}]
      BY <1>2, RowParts
    <3>2. \A p \in DOMAIN rows[i].ids : rows[i].ids[p] \in Ids(M, p)
      BY <1>2 DEF RowGood
    <3> QED
      BY <3>1, <3>2, RowMade
  <2> QED
    BY <2>1, <2>2
<1>4. CASE /\ g = [rows EXCEPT ![i].members = @ \cup {w}]
           /\ \A j \in DOMAIN rows : w \notin rows[j].members
  <2> DEFINE row == [rows[i] EXCEPT !.members = @ \cup {w}]
  <2>1. rows[i].members \cup {w} \in SUBSET K
    BY <1>2, RowParts
  <2>2. RowGood(row, K, M) /\ row.members = rows[i].members \cup {w}
    BY <1>3, <2>1
  <2>3. g = [rows EXCEPT ![i] = row]
    BY <1>4
  <2>4. RowsApart(rows) => \A j \in DOMAIN rows \ {i} : row.members \cap rows[j].members = {}
    BY <1>4, <2>2 DEF RowsApart
  <2> QED
    BY <2>2, <2>3, <2>4, RowReplaced
<1>5. CASE g = [rows EXCEPT ![i].members = @ \ {w}]
  <2> DEFINE row == [rows[i] EXCEPT !.members = @ \ {w}]
  <2>1. rows[i].members \ {w} \in SUBSET K
    BY <1>2, RowParts
  <2>2. RowGood(row, K, M) /\ row.members = rows[i].members \ {w}
    BY <1>3, <2>1
  <2>3. g = [rows EXCEPT ![i] = row]
    BY <1>5
  <2>4. RowsApart(rows) => \A j \in DOMAIN rows \ {i} : row.members \cap rows[j].members = {}
    BY <2>2 DEF RowsApart
  <2> QED
    BY <2>2, <2>3, <2>4, RowReplaced
<1> QED
  BY <1>1, <1>4, <1>5

LEMMA ClickEdited ==
  ASSUME NEW K, NEW M \in SUBSET Map, NEW rows, ListGood(rows, K, M),
         NEW g \in WithClick(rows)
  PROVE  ListGood(g, K, M) /\ (RowsApart(rows) => RowsApart(g))
<1>1. PICK i \in DOMAIN rows, p \in Perm :
        g = [rows EXCEPT ![i] = IF p \in DOMAIN @.ids THEN Unchecked(@, p) ELSE Checked(@, p)]
  BY DEF WithClick
<1> DEFINE row == IF p \in DOMAIN rows[i].ids THEN Unchecked(rows[i], p) ELSE Checked(rows[i], p)
<1>2. RowGood(rows[i], K, M) /\ rows[i] \in RowOf(K)
  BY DEF ListGood, RowGood
<1>3. ASSUME NEW P \in SUBSET Perm, NEW f \in [P -> Map \cup Gone \cup {New}],
             \A q \in P : f[q] \in Ids(M, q)
      PROVE  RowGood([rows[i] EXCEPT !.ids = f], K, M)
             /\ [rows[i] EXCEPT !.ids = f].members = rows[i].members
  <2>1. [rows[i] EXCEPT !.ids = f] = [members |-> rows[i].members, ids |-> f]
    BY <1>2, RowParts
  <2>2. rows[i].members \in SUBSET K
    BY <1>2, RowParts
  <2>3. RowGood([members |-> rows[i].members, ids |-> f], K, M)
    BY <1>3, <2>2, RowMade
  <2> QED
    BY <2>1, <2>3
<1>4. RowGood(row, K, M) /\ row.members = rows[i].members
  <2>1. CASE p \in DOMAIN rows[i].ids
    <3> DEFINE P == DOMAIN rows[i].ids \ {p}
               f == [q \in P |-> rows[i].ids[q]]
    <3>1. P \in SUBSET Perm /\ f \in [P -> Map \cup Gone \cup {New}]
      BY <1>2, RowParts
    <3>2. \A q \in P : f[q] \in Ids(M, q)
      BY <1>2 DEF RowGood
    <3>3. row = [rows[i] EXCEPT !.ids = f]
      BY <2>1 DEF Unchecked
    <3> HIDE DEF P, f, row
    <3> QED
      BY <1>3, <3>1, <3>2, <3>3
  <2>2. CASE p \notin DOMAIN rows[i].ids
    <3> DEFINE P == DOMAIN rows[i].ids \cup (IF p = AdminPerm THEN Perm ELSE {p})
               f == [q \in P |-> IF q \in DOMAIN rows[i].ids THEN rows[i].ids[q] ELSE New]
    <3>1. P \in SUBSET Perm /\ f \in [P -> Map \cup Gone \cup {New}]
      BY <1>2, RowParts
    <3>2. \A q \in P : f[q] \in Ids(M, q)
      BY <1>2 DEF RowGood, Ids
    <3>3. row = [rows[i] EXCEPT !.ids = f]
      BY <2>2 DEF Checked
    <3> HIDE DEF P, f, row
    <3> QED
      BY <1>3, <3>1, <3>2, <3>3
  <2> QED
    BY <2>1, <2>2
<1>5. g = [rows EXCEPT ![i] = row]
  BY <1>1
<1>6. RowsApart(rows) => \A j \in DOMAIN rows \ {i} : row.members \cap rows[j].members = {}
  BY <1>4 DEF RowsApart
<1> HIDE DEF row
<1> QED
  BY <1>4, <1>5, <1>6, RowReplaced

LEMMA RowsEdited ==
  ASSUME NEW K, NEW M \in SUBSET Map, NEW rows, ListGood(rows, K, M),
         NEW g \in WithRow(rows) \cup WithoutRow(rows)
  PROVE  ListGood(g, K, M) /\ (RowsApart(rows) => RowsApart(g))
<1>1. rows \in Seq(RowOf(K)) /\ Len(rows) \in Nat /\ DOMAIN rows = 1 .. Len(rows)
  BY DEF ListGood
<1>2. CASE g = Append(rows, EmptyRow)
  <2>1. EmptyRow \in RowOf(K) /\ RowGood(EmptyRow, K, M)
    BY EmptyRowGood
  <2>2. g \in Seq(RowOf(K)) /\ Len(g) = Len(rows) + 1
        /\ \A i \in 1 .. Len(g) : g[i] = IF i = Len(g) THEN EmptyRow ELSE rows[i]
    BY <1>1, <1>2, <2>1
  <2>3. DOMAIN g = 1 .. Len(g)
    BY <2>2
  <2>4. \A i \in DOMAIN g : g[i] = EmptyRow \/ (i \in DOMAIN rows /\ g[i] = rows[i])
    BY <1>1, <2>2, <2>3
  <2>5. \A i \in DOMAIN g : RowGood(g[i], K, M)
    BY <2>1, <2>4 DEF ListGood
  <2>6. RowsApart(rows) => RowsApart(g)
    BY <2>4 DEF RowsApart, EmptyRow
  <2> QED
    BY <2>2, <2>5, <2>6 DEF ListGood
<1>3. ASSUME NEW k \in DOMAIN rows, g = RemoveAt(rows, k)
      PROVE  ListGood(g, K, M) /\ (RowsApart(rows) => RowsApart(g))
  <2>1. /\ SubSeq(rows, 1, k - 1) \in Seq(RowOf(K))
        /\ Len(SubSeq(rows, 1, k - 1)) = k - 1
        /\ \A i \in 1 .. k - 1 : SubSeq(rows, 1, k - 1)[i] = rows[i]
    BY <1>1, SubSeqProperties
  <2>2. /\ SubSeq(rows, k + 1, Len(rows)) \in Seq(RowOf(K))
        /\ Len(SubSeq(rows, k + 1, Len(rows))) = Len(rows) - k
        /\ \A i \in 1 .. Len(rows) - k : SubSeq(rows, k + 1, Len(rows))[i] = rows[i + k]
    BY <1>1, SubSeqProperties
  <2>3. /\ g \in Seq(RowOf(K)) /\ Len(g) = Len(rows) - 1
        /\ \A i \in 1 .. Len(g) : g[i] = rows[IF i < k THEN i ELSE i + 1]
    <3> DEFINE s == SubSeq(rows, 1, k - 1)
               t == SubSeq(rows, k + 1, Len(rows))
    <3>1. g = s \o t
      BY <1>3 DEF RemoveAt
    <3>2. s \in Seq(RowOf(K)) /\ t \in Seq(RowOf(K))
      BY <2>1, <2>2
    <3> HIDE DEF s, t
    <3>3. /\ g \in Seq(RowOf(K)) /\ Len(g) = Len(s) + Len(t)
          /\ \A i \in 1 .. Len(s) + Len(t) : g[i] = IF i <= Len(s) THEN s[i] ELSE t[i - Len(s)]
      BY <3>1, <3>2, ConcatProperties
    <3>4. /\ Len(s) = k - 1 /\ \A i \in 1 .. k - 1 : s[i] = rows[i]
          /\ Len(t) = Len(rows) - k /\ \A i \in 1 .. Len(rows) - k : t[i] = rows[i + k]
      BY <2>1, <2>2 DEF s, t
    <3>5. Len(s) + Len(t) = Len(rows) - 1 /\ k \in Nat
      BY <1>1, <3>4
    <3>6. ASSUME NEW i \in 1 .. Len(rows) - 1
          PROVE  g[i] = rows[IF i < k THEN i ELSE i + 1]
      <4>1. CASE i < k
        BY <1>1, <3>3, <3>4, <3>5, <4>1
      <4>2. CASE ~(i < k)
        <5>1. i - Len(s) \in 1 .. Len(rows) - k /\ i - Len(s) + k = i + 1
          BY <1>1, <3>4, <3>5, <4>2
        <5>2. g[i] = t[i - Len(s)]
          BY <1>1, <3>3, <3>4, <3>5, <4>2
        <5> QED
          BY <3>4, <4>2, <5>1, <5>2
      <4> QED
        BY <4>1, <4>2
    <3> QED
      BY <3>3, <3>5, <3>6
  <2>4. DOMAIN g = 1 .. Len(g)
    BY <2>3
  <2>5. \A i \in DOMAIN g : (IF i < k THEN i ELSE i + 1) \in DOMAIN rows
    BY <1>1, <2>3, <2>4
  <2>6. \A i \in DOMAIN g : RowGood(g[i], K, M)
    BY <2>3, <2>4, <2>5 DEF ListGood
  <2>7. \A i, j \in DOMAIN g : i # j =>
            (IF i < k THEN i ELSE i + 1) # (IF j < k THEN j ELSE j + 1)
    BY <1>1, <2>3, <2>4
  <2>8. RowsApart(rows) => RowsApart(g)
    BY <2>3, <2>4, <2>5, <2>7 DEF RowsApart
  <2> QED
    BY <2>3, <2>6, <2>8 DEF ListGood
<1> QED
  BY <1>2, <1>3 DEF WithRow, WithoutRow

LEMMA ListEdited ==
  ASSUME NEW K, NEW M \in SUBSET Map, NEW rows, ListGood(rows, K, M),
         NEW g \in EditedList(rows, K)
  PROVE  ListGood(g, K, M) /\ (RowsApart(rows) => RowsApart(g))
  BY MembersEdited, ClickEdited, RowsEdited DEF EditedList

-----------------------------------------------------------------------------
(* The rows a form opens with.                                               *)

LEMMA MapFinite == IsFiniteSet(Map)
<1> DEFINE S == (Who \X Perm) \X (1 .. MaxCopies)
           f == [x \in S |-> [who |-> x[1][1], perm |-> x[1][2], in |-> Stored, copy |-> x[2]]]
<1>1. IsFiniteSet(Who)
  BY EditorAssumption, FS_Union DEF Who
<1>2. IsFiniteSet(1 .. MaxCopies)
  BY EditorAssumption, FS_Interval
<1>3. IsFiniteSet(Who \X Perm)
  BY <1>1, EditorAssumption, FS_Product
<1>4. IsFiniteSet(S)
  BY <1>2, <1>3, FS_Product
<1>5. f \in [S -> Map]
  BY DEF Map, MapIn
<1>6. ASSUME NEW map \in Map
      PROVE  \E x \in S : f[x] = map
  <2>1. /\ map.who \in Who /\ map.perm \in Perm /\ map.copy \in 1 .. MaxCopies
        /\ map = [who |-> map.who, perm |-> map.perm, in |-> Stored, copy |-> map.copy]
    BY DEF Map, MapIn
  <2>2. <<<<map.who, map.perm>>, map.copy>> \in S
    BY <2>1
  <2>3. f[<<<<map.who, map.perm>>, map.copy>>] = map
    BY <2>1, <2>2
  <2> QED
    BY <2>2, <2>3
<1> HIDE DEF f, S
<1>7. f \in Surjection(S, Map)
  BY <1>5, <1>6 DEF Surjection
<1> QED
  BY <1>4, <1>7, FS_Surjection

\* The sequences of a finite set's elements.
LEMMA SeqsOfSet ==
  ASSUME NEW S, IsFiniteSet(S), NEW rows \in SetToSeqs(S)
  PROVE  /\ rows \in Seq(S)
         /\ \A i, j \in DOMAIN rows : i # j => rows[i] # rows[j]
<1>1. Cardinality(S) \in Nat
  BY FS_CardinalityType
<1>2. rows \in [1 .. Cardinality(S) -> S]
      /\ \A i, j \in 1 .. Cardinality(S) : i # j => rows[i] # rows[j]
  BY DEF SetToSeqs
<1> QED
  BY <1>1, <1>2

LEMMA RowOfGroup ==
  ASSUME NEW K, NEW M \in SUBSET Map, NEW G \in SUBSET M, NEW row \in RowsOf(G, K)
  PROVE  RowGood(row, K, M) /\ row.members = {map.who : map \in {m \in G : m.who \in K}}
<1> DEFINE mine == {map \in G : map.who \in K}
           perms == {map.perm : map \in mine}
           W == {map.who : map \in mine}
<1>1. PICK f \in [perms -> mine] :
        (\A p \in perms : f[p].perm = p) /\ row = [members |-> W, ids |-> f]
  BY DEF RowsOf
<1>2. W \in SUBSET K /\ perms \in SUBSET Perm
  BY DEF Map, MapIn
<1>3. f \in [perms -> Map \cup Gone \cup {New}] /\ \A p \in perms : f[p] \in Ids(M, p)
  BY <1>1 DEF Ids
<1>4. RowGood([members |-> W, ids |-> f], K, M)
  <2> HIDE DEF W, perms, mine
  <2> QED
    BY <1>2, <1>3, RowMade
<1> QED
  BY <1>1, <1>4

LEMMA ListOpened ==
  ASSUME NEW K, permGroups \in SUBSET SUBSET Map, NEW rows \in Lists(K)
  PROVE  /\ ListGood(rows, K, Maps(permGroups))
         /\ (\A G, H \in permGroups : G # H => \A m \in G, n \in H : m.who # n.who)
                => RowsApart(rows)
<1> DEFINE groups == {G \in permGroups : \E map \in G : map.who \in K}
<1>1. Maps(permGroups) \in SUBSET Map /\ \A G \in permGroups : G \in SUBSET Maps(permGroups)
  BY DEF Maps
<1>2. CASE rows = <<EmptyRow>>
  <2>1. EmptyRow \in RowOf(K) /\ RowGood(EmptyRow, K, Maps(permGroups))
    BY <1>1, EmptyRowGood
  <2> QED
    BY <1>2, <2>1 DEF ListGood, RowsApart
<1>3. ASSUME NEW pick \in [groups -> UNION {RowsOf(G, K) : G \in groups}],
             \A G \in groups : pick[G] \in RowsOf(G, K),
             rows \in SetToSeqs({pick[G] : G \in groups})
      PROVE  /\ ListGood(rows, K, Maps(permGroups))
             /\ (\A G, H \in permGroups : G # H => \A m \in G, n \in H : m.who # n.who)
                    => RowsApart(rows)
  <2> DEFINE S == {pick[G] : G \in groups}
  <2>1. IsFiniteSet(groups)
    <3>1. IsFiniteSet(SUBSET Map)
      BY MapFinite, FS_SUBSET
    <3>2. groups \in SUBSET SUBSET Map
      OBVIOUS
    <3> HIDE DEF groups
    <3> QED
      BY <3>1, <3>2, FS_Subset
  <2>2. IsFiniteSet(S)
    <3>1. pick \in Surjection(groups, S)
      BY <1>3 DEF Surjection
    <3> HIDE DEF groups, S
    <3> QED
      BY <2>1, <3>1, FS_Surjection
  <2>3. rows \in Seq(S) /\ \A i, j \in DOMAIN rows : i # j => rows[i] # rows[j]
    <3> HIDE DEF S
    <3> QED
      BY <1>3, <2>2, SeqsOfSet DEF S
  <2>4. \A G \in groups : RowGood(pick[G], K, Maps(permGroups))
            /\ pick[G].members = {map.who : map \in {m \in G : m.who \in K}}
    BY <1>1, <1>3, RowOfGroup
  <2>5. S \subseteq RowOf(K)
    BY <2>4 DEF RowGood
  <2>6. rows \in Seq(RowOf(K)) /\ \A i \in DOMAIN rows : rows[i] \in S
    BY <2>3, <2>5
  <2>7. ListGood(rows, K, Maps(permGroups))
    BY <2>4, <2>6 DEF ListGood
  <2>8. ASSUME \A G, H \in permGroups : G # H => \A m \in G, n \in H : m.who # n.who,
               NEW i \in DOMAIN rows, NEW j \in DOMAIN rows, i # j
        PROVE  rows[i].members \cap rows[j].members = {}
    <3>1. PICK G \in groups, H \in groups : rows[i] = pick[G] /\ rows[j] = pick[H]
      BY <2>6
    <3>2. G # H
      BY <2>3, <2>8, <3>1
    <3> QED
      BY <2>4, <2>8, <3>1, <3>2
  <2> QED
    BY <2>7, <2>8 DEF RowsApart
<1>4. CASE groups = {}
  BY <1>2, <1>4 DEF Lists
<1>5. CASE groups # {}
  <2> DEFINE Picks == {f \in [groups -> UNION {RowsOf(G, K) : G \in groups}] :
                          \A G \in groups : f[G] \in RowsOf(G, K)}
  <2>1. rows \in UNION {SetToSeqs({pick[G] : G \in groups}) : pick \in Picks}
    BY <1>5, Zenon DEF Lists
  <2>2. PICK pick \in Picks : rows \in SetToSeqs({pick[G] : G \in groups})
    BY <2>1, Zenon
  <2> QED
    BY <1>3, <2>2
<1> QED
  BY <1>4, <1>5

-----------------------------------------------------------------------------
(* What a transaction writes: each pair once, nobody in two permGroups, and  *)
(* every type of a permGroup for every member of it.                         *)

Unique(groups) == \A m, n \in Maps(groups) : PairOf(m) = PairOf(n) => m = n
Apart(groups) == \A G, H \in groups : G # H => \A m \in G, n \in H : m.who # n.who
Full(G) ==
    \A K \in {Group, User} : \A m, n \in {map \in G : map.who \in K} :
        \E k \in G : k.who = m.who /\ k.perm = n.perm

FormGood(f, M) ==
    /\ f \in Form
    /\ ListGood(f.groups, Group, M) /\ ListGood(f.users, User, M)

FormApart(f) == RowsApart(f.groups) /\ RowsApart(f.users)

LEMMA MapParts ==
  ASSUME NEW c, NEW map \in Map \cup Created(c)
  PROVE  map.who \in Who /\ map.perm \in Perm /\ map.in \in {Stored, c}
         /\ PairOf(map) = <<map.who, map.perm>> /\ PairOf(map) \in Pair
  BY DEF Map, Created, MapIn, PairOf, Pair

LEMMA RowsSentParts ==
  ASSUME NEW M \in SUBSET Map, NEW f, FormGood(f, M)
  PROVE  /\ DOMAIN RowsSent(f) = 1 .. Len(f.groups) + Len(f.users)
         /\ \A i \in DOMAIN f.groups : i \in DOMAIN RowsSent(f) /\ RowsSent(f)[i] = f.groups[i]
         /\ \A i \in DOMAIN f.users : i + Len(f.groups) \in DOMAIN RowsSent(f)
                /\ RowsSent(f)[i + Len(f.groups)] = f.users[i]
         /\ \A i \in DOMAIN RowsSent(f) :
                \/ i \in DOMAIN f.groups /\ RowsSent(f)[i] = f.groups[i]
                \/ i - Len(f.groups) \in DOMAIN f.users
                    /\ RowsSent(f)[i] = f.users[i - Len(f.groups)]
<1>1. f.groups \in Seq(RowOf(Group)) /\ f.users \in Seq(RowOf(User))
  BY DEF FormGood, ListGood
<1> DEFINE S == RowOf(Group) \cup RowOf(User)
           s == f.groups
           t == f.users
<1>2. s \in Seq(S) /\ t \in Seq(S)
  BY <1>1
<1>3. RowsSent(f) = s \o t
  BY DEF RowsSent
<1> HIDE DEF S, s, t
<1>4. /\ s \o t \in Seq(S) /\ Len(s \o t) = Len(s) + Len(t)
      /\ \A i \in 1 .. Len(s) + Len(t) : (s \o t)[i] = IF i <= Len(s) THEN s[i] ELSE t[i - Len(s)]
  BY <1>2, ConcatProperties
<1>5. /\ DOMAIN (s \o t) = 1 .. Len(s) + Len(t) /\ DOMAIN s = 1 .. Len(s) /\ DOMAIN t = 1 .. Len(t)
      /\ Len(s) \in Nat /\ Len(t) \in Nat
  BY <1>2, <1>4
<1>6. \A i \in DOMAIN t : i + Len(s) \in 1 .. Len(s) + Len(t) /\ (s \o t)[i + Len(s)] = t[i]
  BY <1>4, <1>5
<1>7. \A i \in DOMAIN s : i \in 1 .. Len(s) + Len(t) /\ (s \o t)[i] = s[i]
  BY <1>4, <1>5
<1>8. \A i \in 1 .. Len(s) + Len(t) :
        \/ i \in DOMAIN s /\ (s \o t)[i] = s[i]
        \/ i - Len(s) \in DOMAIN t /\ (s \o t)[i] = t[i - Len(s)]
  <2> SUFFICES ASSUME NEW i \in 1 .. Len(s) + Len(t)
               PROVE  \/ i \in DOMAIN s /\ (s \o t)[i] = s[i]
                      \/ i - Len(s) \in DOMAIN t /\ (s \o t)[i] = t[i - Len(s)]
    OBVIOUS
  <2>1. CASE i <= Len(s)
    BY <1>4, <1>5, <2>1
  <2>2. CASE ~(i <= Len(s))
    BY <1>4, <1>5, <2>2
  <2> QED
    BY <2>1, <2>2
<1> QED
  BY <1>3, <1>5, <1>6, <1>7, <1>8 DEF s, t

\* Of which list a row is, and that the rows of both lists are apart.
LEMMA RowsSentGood ==
  ASSUME NEW M \in SUBSET Map, NEW f, FormGood(f, M)
  PROVE  /\ \A i \in DOMAIN RowsSent(f) :
                \E K \in {Group, User} : RowGood(RowsSent(f)[i], K, M)
         /\ FormApart(f) => RowsApart(RowsSent(f))
<1>0. /\ DOMAIN RowsSent(f) = 1 .. Len(f.groups) + Len(f.users)
      /\ \A i \in DOMAIN RowsSent(f) :
            \/ i \in DOMAIN f.groups /\ RowsSent(f)[i] = f.groups[i]
            \/ i - Len(f.groups) \in DOMAIN f.users
                /\ RowsSent(f)[i] = f.users[i - Len(f.groups)]
  BY RowsSentParts
<1>1. \A i \in DOMAIN RowsSent(f) :
        \/ i \in DOMAIN f.groups /\ RowsSent(f)[i] = f.groups[i]
             /\ RowGood(RowsSent(f)[i], Group, M)
        \/ i - Len(f.groups) \in DOMAIN f.users /\ RowsSent(f)[i] = f.users[i - Len(f.groups)]
             /\ RowGood(RowsSent(f)[i], User, M)
  BY <1>0 DEF FormGood, ListGood
<1>2. \A i \in DOMAIN RowsSent(f) : i \in Int
  BY <1>0
<1>3. Len(f.groups) \in Nat
  BY DEF FormGood, ListGood
<1>4. \A K, row : RowGood(row, K, M) => row.members \subseteq K
  BY RowParts DEF RowGood
<1>5. ASSUME FormApart(f), NEW i \in DOMAIN RowsSent(f), NEW j \in DOMAIN RowsSent(f), i # j
      PROVE  RowsSent(f)[i].members \cap RowsSent(f)[j].members = {}
  <2>1. i - Len(f.groups) # j - Len(f.groups)
    BY <1>2, <1>3, <1>5
  <2>2. Group \cap User = {}
    BY EditorAssumption
  <2> QED
    BY <1>1, <1>4, <1>5, <2>1, <2>2 DEF FormApart, RowsApart
<1> QED
  BY <1>1, <1>5 DEF RowsApart

\* What a save makes of one row.
LEMMA RowStoredParts ==
  ASSUME NEW a \in Admin, NEW M \in SUBSET Map, FormGood(form[a], M),
         NEW i \in DOMAIN RowsSent(form[a])
  PROVE  LET row == RowsSent(form[a])[i]
         IN  /\ RowStored(a, i) \subseteq M \cup Created(a)
             /\ \A m \in RowStored(a, i) : m.who \in row.members /\ m.perm \in DOMAIN row.ids
             /\ \A m, n \in RowStored(a, i) : PairOf(m) = PairOf(n) => m = n
             /\ Gone \cap IdsSent(form[a]) = {} =>
                    \A w \in row.members, p \in DOMAIN row.ids :
                        \E m \in RowStored(a, i) : m.who = w /\ m.perm = p
<1> DEFINE row == RowsSent(form[a])[i]
           id(w, p) == IF row.ids[p] # New /\ row.ids[p].who # w THEN New ELSE row.ids[p]
           made(w, p) == [who |-> w, perm |-> p, in |-> a, copy |-> i]
<1>1. PICK K \in {Group, User} : RowGood(row, K, M)
  BY RowsSentGood
<1>2. row.members \subseteq Who /\ DOMAIN row.ids \subseteq Perm
  BY <1>1, RowParts DEF RowGood, Who
<1>3. \A p \in DOMAIN row.ids : row.ids[p] \in Ids(M, p)
  BY <1>1 DEF RowGood
<1>4. New \notin Map \cup Gone /\ Gone \cap Map = {}
  BY EditorAssumption, GoneApart
<1>5. Sent(row) = {[pair |-> <<w, p>>, id |-> id(w, p)] : w \in row.members, p \in DOMAIN row.ids}
  BY DEF Sent
<1>6. i \in Nat
  <2>1. DOMAIN RowsSent(form[a]) = 1 .. Len(form[a].groups) + Len(form[a].users)
    BY RowsSentParts
  <2>2. Len(form[a].groups) \in Nat /\ Len(form[a].users) \in Nat
    BY DEF FormGood, ListGood
  <2> QED
    BY <2>1, <2>2
<1> HIDE DEF row
<1>7. \A w \in row.members, p \in DOMAIN row.ids :
        \/ id(w, p) \in M /\ id(w, p).who = w /\ id(w, p).perm = p
        \/ id(w, p) = New
        \/ id(w, p) \in Gone
  BY <1>3, <1>4 DEF Ids
<1> HIDE DEF id
<1>8. \A w \in row.members, p \in DOMAIN row.ids :
        made(w, p) \in Created(a) /\ made(w, p).who = w /\ made(w, p).perm = p
  BY <1>2, <1>6 DEF Created, MapIn
<1> HIDE DEF made
<1>9. \A m : m \in RowStored(a, i) <=>
        \E w \in row.members, p \in DOMAIN row.ids :
            \/ id(w, p) \in Map /\ m = id(w, p)
            \/ id(w, p) = New /\ m = made(w, p)
  <2> DEFINE kept == {item.id : item \in {x \in Sent(row) : x.id \in Map}}
             new == {made(item.pair[1], item.pair[2]) : item \in {x \in Sent(row) : x.id = New}}
  <2>1. RowStored(a, i) = kept \cup new
    BY DEF RowStored, row, made
  <2>4. \A item \in Sent(row) : \E w \in row.members, p \in DOMAIN row.ids :
          /\ item.id = id(w, p)
          /\ item.pair[1] = w /\ item.pair[2] = p
    BY <1>5
  <2>5. \A w \in row.members, p \in DOMAIN row.ids : \E item \in Sent(row) :
          /\ item.id = id(w, p)
          /\ item.pair[1] = w /\ item.pair[2] = p
    <3> SUFFICES ASSUME NEW w \in row.members, NEW p \in DOMAIN row.ids
                 PROVE  \E item \in Sent(row) :
                           item.id = id(w, p) /\ item.pair[1] = w /\ item.pair[2] = p
      OBVIOUS
    <3>1. [pair |-> <<w, p>>, id |-> id(w, p)] \in Sent(row)
      BY <1>5
    <3> QED
      BY <3>1
  <2>2. \A m : m \in kept <=>
          \E w \in row.members, p \in DOMAIN row.ids : id(w, p) \in Map /\ m = id(w, p)
    BY <2>4, <2>5
  <2>3. \A m : m \in new <=>
          \E w \in row.members, p \in DOMAIN row.ids : id(w, p) = New /\ m = made(w, p)
    <3>1. ASSUME NEW m \in new
          PROVE  \E w \in row.members, p \in DOMAIN row.ids : id(w, p) = New /\ m = made(w, p)
      <4>1. PICK item \in Sent(row) : item.id = New /\ m = made(item.pair[1], item.pair[2])
        BY <3>1
      <4> QED
        BY <2>4, <4>1
    <3>2. ASSUME NEW w \in row.members, NEW p \in DOMAIN row.ids, id(w, p) = New
          PROVE  made(w, p) \in new
      <4>1. PICK item \in Sent(row) :
              item.id = id(w, p) /\ item.pair[1] = w /\ item.pair[2] = p
        BY <2>5
      <4>2. made(item.pair[1], item.pair[2]) = made(w, p)
        BY <4>1
      <4> QED
        BY <3>2, <4>1, <4>2
    <3> HIDE DEF new
    <3> QED
      BY <3>1, <3>2
  <2> HIDE DEF kept, new
  <2> QED
    BY <2>1, <2>2, <2>3
<1>10. \A m \in RowStored(a, i) : \E w \in row.members, p \in DOMAIN row.ids :
         /\ m.who = w /\ m.perm = p
         /\ \/ id(w, p) \in M /\ m = id(w, p)
            \/ id(w, p) = New /\ m = made(w, p)
  BY <1>4, <1>7, <1>8, <1>9
<1>11. RowStored(a, i) \subseteq M \cup Created(a)
  BY <1>8, <1>10
<1>12. \A m \in RowStored(a, i) : m.who \in row.members /\ m.perm \in DOMAIN row.ids
  BY <1>10
<1>13. \A m, n \in RowStored(a, i) : PairOf(m) = PairOf(n) => m = n
  BY <1>4, <1>10 DEF PairOf
<1>14. ASSUME Gone \cap IdsSent(form[a]) = {}, NEW w \in row.members, NEW p \in DOMAIN row.ids
       PROVE  \E m \in RowStored(a, i) : m.who = w /\ m.perm = p
  <2>1. id(w, p) \notin Gone
    <3>1. [pair |-> <<w, p>>, id |-> id(w, p)] \in Sent(row)
      BY <1>5
    <3>2. id(w, p) \in {item.id : item \in Sent(row)}
      BY <3>1
    <3> DEFINE ids(j) == {item.id : item \in Sent(RowsSent(form[a])[j])}
    <3>3. ids(i) \subseteq IdsSent(form[a])
      <4> DEFINE all == {ids(j) : j \in DOMAIN RowsSent(form[a])}
      <4>1. IdsSent(form[a]) = UNION all
        BY DEF IdsSent
      <4>2. ids(i) \in all
        OBVIOUS
      <4> HIDE DEF ids, all
      <4> QED
        BY <4>1, <4>2
    <3>4. ids(i) = {item.id : item \in Sent(row)}
      BY DEF row
    <3> QED
      BY <1>4, <1>14, <3>2, <3>3, <3>4
  <2>2. CASE id(w, p) = New
    BY <1>8, <1>9, <2>2
  <2>3. CASE id(w, p) \in M /\ id(w, p).who = w /\ id(w, p).perm = p
    BY <1>9, <2>3
  <2> QED
    BY <1>7, <2>1, <2>2, <2>3
<1> QED
  BY <1>11, <1>12, <1>13, <1>14 DEF row

\* How many perm maps of a user or group there are, where no pair is there twice.
LEMMA CountOfTypes ==
  ASSUME NEW c, NEW M \in SUBSET (Map \cup Created(c)), NEW w,
         \A m, n \in M : PairOf(m) = PairOf(n) => m = n
  PROVE  /\ IsFiniteSet(TypesOf(M, w))
         /\ CountOf(M, w) = Cardinality(TypesOf(M, w))
<1> DEFINE S == {x \in M : x.who = w}
           T == TypesOf(M, w)
           f == [x \in S |-> x.perm]
<1>1. \A x \in S : x.perm \in Perm /\ PairOf(x) = <<x.who, x.perm>>
  BY MapParts
<1>2. IsFiniteSet(T)
  <2>1. T \in SUBSET Perm
    BY <1>1 DEF TypesOf
  <2> HIDE DEF T
  <2> QED
    BY <2>1, FS_Subset, EditorAssumption
<1>3. f \in Injection(S, T)
  BY <1>1 DEF TypesOf, Injection, IsInjective
<1>4. f \in Surjection(S, T)
  BY DEF TypesOf, Surjection
<1> HIDE DEF f, S, T
<1>5. IsFiniteSet(S) /\ Cardinality(S) = Cardinality(T)
  BY <1>2, <1>3, <1>4, FS_Injection
<1> QED
  BY <1>2, <1>5 DEF CountOf, S, T

\* updatePermGroup: it loses and makes no perm map, keeps those of each user and group
\* together, and puts only users and groups with the same types in one permGroup.
LEMMA Regrouped ==
  ASSUME NEW c, NEW M \in SUBSET (Map \cup Created(c)), NEW writes \in Regroupings(M)
  PROVE  /\ \A G \in writes : G \subseteq M
         /\ Apart(writes)
         /\ (\A m, n \in M : PairOf(m) = PairOf(n) => m = n) =>
                Unique(writes) /\ \A G \in writes : Full(G)
<1> DEFINE W == {map.who : map \in M}
<1>1. PICK lead \in [W -> W], rank \in [W -> 1 .. Cardinality(W)] :
        /\ Follows(M, rank, lead)
        /\ writes = {{map \in M : lead[map.who] = v} : v \in Range(lead)}
  BY DEF Regroupings
<1>2. \A G \in writes : \E v \in Range(lead) : G = {map \in M : lead[map.who] = v}
  BY <1>1
<1>3. \A G \in writes : G \subseteq M
  BY <1>2
<1>4. Apart(writes)
  <2> SUFFICES ASSUME NEW G \in writes, NEW H \in writes, G # H, NEW m \in G, NEW n \in H
               PROVE  m.who # n.who
    BY DEF Apart
  <2>1. PICK v \in Range(lead), u \in Range(lead) :
          G = {map \in M : lead[map.who] = v} /\ H = {map \in M : lead[map.who] = u}
    BY <1>2
  <2>2. v # u
    BY <2>1
  <2> QED
    BY <2>1, <2>2
<1>5. \A w \in W : lead[w] \in W /\ SameTypes(M, lead[w], w)
  BY <1>1 DEF Follows
<1>6. ASSUME \A m, n \in M : PairOf(m) = PairOf(n) => m = n
      PROVE  Unique(writes) /\ \A G \in writes : Full(G)
  <2>1. Unique(writes)
    BY <1>3, <1>6 DEF Unique, Maps
  <2>2. \A w \in W : TypesOf(M, lead[w]) = TypesOf(M, w)
    <3> SUFFICES ASSUME NEW w \in W
                 PROVE  TypesOf(M, lead[w]) = TypesOf(M, w)
      OBVIOUS
    <3>1. /\ CountOf(M, lead[w]) = CountOf(M, w)
          /\ TypesOf(M, lead[w]) \in SUBSET TypesOf(M, w)
      BY <1>5 DEF SameTypes
    <3>2. /\ IsFiniteSet(TypesOf(M, w))
          /\ CountOf(M, w) = Cardinality(TypesOf(M, w))
          /\ CountOf(M, lead[w]) = Cardinality(TypesOf(M, lead[w]))
      BY <1>6, CountOfTypes
    <3> QED
      BY <3>1, <3>2, FS_Subset
  <2>3. ASSUME NEW G \in writes, NEW m \in G, NEW n \in G
        PROVE  \E k \in G : k.who = m.who /\ k.perm = n.perm
    <3>1. PICK v \in Range(lead) : G = {map \in M : lead[map.who] = v}
      BY <1>2
    <3>2. m.who \in W /\ n.who \in W /\ lead[m.who] = v /\ lead[n.who] = v
      BY <3>1
    <3>3. TypesOf(M, m.who) = TypesOf(M, n.who)
      BY <2>2, <3>2
    <3>4. n.perm \in TypesOf(M, n.who)
      BY <3>1 DEF TypesOf
    <3>5. PICK k \in M : k.who = m.who /\ k.perm = n.perm
      <4>1. n.perm \in {map.perm : map \in {x \in M : x.who = m.who}}
        BY <3>3, <3>4 DEF TypesOf
      <4> QED
        BY <4>1
    <3> QED
      BY <3>1, <3>2, <3>5
  <2> QED
    BY <2>1, <2>3 DEF Full
<1> QED
  BY <1>3, <1>4, <1>6

LEMMA CreationParts ==
  ASSUME NEW r, NEW pairs \in SUBSET Pair
  PROVE  /\ Creation(r, pairs) \subseteq Created(r)
         /\ \A m \in Creation(r, pairs) : PairOf(m) \in pairs
         /\ \A m, n \in Creation(r, pairs) : PairOf(m) = PairOf(n) => m = n
<1>1. \A m \in Creation(r, pairs) : \E pair \in pairs :
        m = [who |-> pair[1], perm |-> pair[2], in |-> r, copy |-> 1] /\ PairOf(m) = pair
  BY DEF Creation, PairOf, Pair
<1> QED
  BY <1>1 DEF Created, MapIn, Pair, PairOf

\* What the requests of agents write.
Results(op, r, asked) ==
    CASE op = "grant" -> GrantResult(r, asked)
      [] op = "replace" -> ReplaceResult(r, asked)
      [] op = "revoke" -> RevokeResult(asked)

LEMMA RequestWrites ==
  ASSUME NEW r \in Request, permGroups \in SUBSET SUBSET Map, NEW asked \in SUBSET Pair,
         NEW op \in {"grant", "replace", "revoke"}, NEW writes \in Results(op, r, asked)
  PROVE  /\ \A G \in writes : G \subseteq Map \cup Created(r)
         /\ Apart(writes)
         /\ Unique(permGroups) => Unique(writes) /\ \A G \in writes : Full(G)
<1> DEFINE M0 == Maps(permGroups)
<1>1. M0 \subseteq Map
  BY DEF Maps
<1>2. ASSUME NEW M \in SUBSET (Map \cup Created(r)), writes \in Regroupings(M),
             Unique(permGroups) => \A m, n \in M : PairOf(m) = PairOf(n) => m = n
      PROVE  /\ \A G \in writes : G \subseteq Map \cup Created(r)
             /\ Apart(writes)
             /\ Unique(permGroups) => Unique(writes) /\ \A G \in writes : Full(G)
  BY <1>2, Regrouped
<1>3. CASE op = "grant"
  <2> DEFINE new == asked \ Granted(permGroups)
             M == M0 \cup Creation(r, new)
  <2>1. writes \in Regroupings(M)
    BY <1>3 DEF Results, GrantResult
  <2>2. \A m \in M0 : PairOf(m) \in Granted(permGroups)
    BY DEF Granted
  <2>3. new \in SUBSET Pair
    OBVIOUS
  <2> HIDE DEF new
  <2>4. /\ Creation(r, new) \subseteq Created(r)
        /\ \A m \in Creation(r, new) : PairOf(m) \in new
        /\ \A m, n \in Creation(r, new) : PairOf(m) = PairOf(n) => m = n
    BY <2>3, CreationParts
  <2>5. Unique(permGroups) => \A m, n \in M : PairOf(m) = PairOf(n) => m = n
    BY <2>2, <2>4 DEF Unique, new
  <2>6. M \in SUBSET (Map \cup Created(r))
    BY <1>1, <2>4
  <2> QED
    BY <1>2, <2>1, <2>5, <2>6
<1>4. CASE op = "replace"
  <2> DEFINE left == {map \in M0 : \A pair \in asked : map.who # pair[1]}
             M == left \cup Creation(r, asked)
  <2>1. writes \in Regroupings(M)
    BY <1>4 DEF Results, ReplaceResult
  <2>2. /\ Creation(r, asked) \subseteq Created(r)
        /\ \A m \in Creation(r, asked) : PairOf(m) \in asked
        /\ \A m, n \in Creation(r, asked) : PairOf(m) = PairOf(n) => m = n
    BY CreationParts
  <2>3. \A m \in left : PairOf(m) \notin asked
    BY DEF PairOf
  <2>4. Unique(permGroups) => \A m, n \in M : PairOf(m) = PairOf(n) => m = n
    BY <2>2, <2>3 DEF Unique
  <2>5. M \in SUBSET (Map \cup Created(r))
    BY <1>1, <2>2
  <2> QED
    BY <1>2, <2>1, <2>4, <2>5
<1>5. CASE op = "revoke"
  <2>1. PICK D \in Found(asked) : writes \in Regroupings(M0 \ D)
    BY <1>5 DEF Results, RevokeResult
  <2>2. M0 \ D \in SUBSET (Map \cup Created(r))
    BY <1>1
  <2>3. Unique(permGroups) => \A m, n \in M0 \ D : PairOf(m) = PairOf(n) => m = n
    BY DEF Unique
  <2> QED
    BY <1>2, <2>1, <2>2, <2>3
<1> QED
  BY <1>3, <1>4, <1>5

\* What a save writes.
LEMMA SaveWrites ==
  ASSUME NEW a \in Admin, NEW M \in SUBSET Map, FormGood(form[a], M)
  PROVE  /\ \A G \in SaveResult(a) : G \subseteq M \cup Created(a)
         /\ FormApart(form[a]) => Apart(SaveResult(a)) /\ Unique(SaveResult(a))
         /\ Gone \cap IdsSent(form[a]) = {} => \A G \in SaveResult(a) : Full(G)
<1> DEFINE sent == RowsSent(form[a])
<1>1. \A G \in SaveResult(a) : \E i \in DOMAIN sent : G = RowStored(a, i)
  BY DEF SaveResult
<1>2. \A i \in DOMAIN sent :
        /\ RowStored(a, i) \subseteq M \cup Created(a)
        /\ \A m \in RowStored(a, i) : m.who \in sent[i].members /\ m.perm \in DOMAIN sent[i].ids
        /\ \A m, n \in RowStored(a, i) : PairOf(m) = PairOf(n) => m = n
        /\ Gone \cap IdsSent(form[a]) = {} =>
               \A w \in sent[i].members, p \in DOMAIN sent[i].ids :
                   \E m \in RowStored(a, i) : m.who = w /\ m.perm = p
  BY RowStoredParts
<1>3. FormApart(form[a]) =>
        \A i, j \in DOMAIN sent : i # j => sent[i].members \cap sent[j].members = {}
  BY RowsSentGood DEF RowsApart
<1> HIDE DEF sent
<1>4. ASSUME FormApart(form[a])
      PROVE  Apart(SaveResult(a))
  BY <1>1, <1>2, <1>3, <1>4 DEF Apart
<1>5. ASSUME FormApart(form[a])
      PROVE  Unique(SaveResult(a))
  <2> SUFFICES ASSUME NEW m \in Maps(SaveResult(a)), NEW n \in Maps(SaveResult(a)),
                      PairOf(m) = PairOf(n)
               PROVE  m = n
    BY DEF Unique
  <2>1. m.who = n.who
    BY DEF PairOf
  <2>2. PICK i \in DOMAIN sent, j \in DOMAIN sent : m \in RowStored(a, i) /\ n \in RowStored(a, j)
    BY <1>1 DEF Maps
  <2>3. i = j
    BY <1>2, <1>3, <1>5, <2>1, <2>2
  <2> QED
    BY <1>2, <2>2, <2>3
<1>6. ASSUME Gone \cap IdsSent(form[a]) = {}, NEW G \in SaveResult(a)
      PROVE  Full(G)
  BY <1>1, <1>2, <1>6 DEF Full
<1> QED
  BY <1>1, <1>2, <1>4, <1>5, <1>6

-----------------------------------------------------------------------------
(* What a commit makes of it.                                                *)

\* A set of numbers has one that follows n others, if it has more than n.
LEMMA NextAfter ==
  ASSUME NEW b \in Nat, NEW F \in SUBSET (1 .. b), NEW n \in Nat, n < Cardinality(F)
  PROVE  \E k \in F : Cardinality({j \in F : j < k}) = n
<1> DEFINE below(k) == {j \in F : j < k}
<1>0. \A j \in F : j \in Nat /\ 0 < j /\ j < b + 1
  OBVIOUS
<1>1. IsFiniteSet(1 .. b) /\ IsFiniteSet(F)
  <2>1. IsFiniteSet(1 .. b)
    BY FS_Interval
  <2> QED
    BY <2>1, FS_Subset
<1>2. \A k \in Nat : IsFiniteSet(below(k)) /\ Cardinality(below(k)) \in Nat
  <2> SUFFICES ASSUME NEW k \in Nat
               PROVE  IsFiniteSet(below(k)) /\ Cardinality(below(k)) \in Nat
    OBVIOUS
  <2>1. below(k) \in SUBSET F
    OBVIOUS
  <2> HIDE DEF below
  <2> QED
    BY <1>1, <2>1, FS_Subset, FS_CardinalityType
<1>3. below(b + 1) = F
  BY <1>0
<1>14. below(0) = {}
  <2>1. \A j \in F : ~(j < 0)
    BY <1>0
  <2> QED
    BY <2>1
<1> DEFINE T == {k \in Nat : Cardinality(below(k)) > n}
           Less == OpToRel(<, Nat)
<1>4. b + 1 \in T
  BY <1>3
<1>5. PICK m \in T : \A k \in T : ~(<<k, m>> \in Less)
  <2>1. T \subseteq Nat /\ T # {}
    BY <1>4
  <2>2. IsWellFoundedOn(Less, Nat)
    BY NatLessThanWellFounded DEF Less
  <2> HIDE DEF T, Less
  <2> QED
    BY <2>1, <2>2, WFMin
<1>6. \A k \in T : ~(k < m)
  BY <1>5 DEF OpToRel
<1>7. m # 0
  <2>2. Cardinality(below(0)) = 0
    BY <1>14, FS_EmptySet
  <2> QED
    BY <2>2
<1>8. PICK k \in Nat : k < m /\ m = k + 1
  BY <1>7
<1>15. below(m) = IF k \in F THEN below(k) \cup {k} ELSE below(k)
  <2>1. \A j \in F : j < m <=> (j < k \/ j = k)
    BY <1>0, <1>8
  <2>2. CASE k \in F
    <3>1. \A j : j \in below(m) <=> j \in below(k) \cup {k}
      BY <1>8, <2>1, <2>2
    <3> HIDE DEF below
    <3> QED
      BY <2>2, <3>1
  <2>3. CASE k \notin F
    <3>1. \A j : j \in below(m) <=> j \in below(k)
      BY <2>1, <2>3
    <3> HIDE DEF below
    <3> QED
      BY <2>3, <3>1
  <2> QED
    BY <2>2, <2>3
<1>16. k \notin below(k)
  OBVIOUS
<1>9. Cardinality(below(k)) <= n
  <2>1. k \notin T
    BY <1>6, <1>8
  <2>2. Cardinality(below(k)) \in Nat /\ ~(Cardinality(below(k)) > n)
    BY <1>2, <2>1
  <2> HIDE DEF below
  <2> QED
    BY <2>2
<1>10. k \in F
  <2> SUFFICES ASSUME k \notin F
               PROVE  FALSE
    OBVIOUS
  <2>1. below(m) = below(k)
    BY <1>15
  <2>2. Cardinality(below(m)) > n
    OBVIOUS
  <2> HIDE DEF below, T
  <2> QED
    BY <1>2, <1>9, <2>1, <2>2
<1>11. Cardinality(below(m)) = Cardinality(below(k)) + 1
  <2>1. below(m) = below(k) \cup {k} /\ k \notin below(k)
    BY <1>10, <1>15, <1>16
  <2> HIDE DEF below
  <2> QED
    BY <1>2, <1>8, <2>1, FS_AddElement
<1>12. Cardinality(below(m)) > n
  OBVIOUS
<1>13. Cardinality(below(k)) = n
  <2> HIDE DEF below, T
  <2>1. Cardinality(below(k)) \in Nat
    BY <1>2
  <2> QED
    BY <1>9, <1>11, <1>12, <2>1
<1> QED
  BY <1>10, <1>13

LEMMA BeforeFinite ==
  ASSUME NEW c \in Admin \cup Request, tx[c] \in Tx(c), NEW map \in Maps(tx[c].writes),
         map.in = c
  PROVE  IsFiniteSet(Before(c, map))
<1> DEFINE B == Before(c, map)
           f == [m \in B |-> m.copy]
<1>1. c # Stored
  BY EditorAssumption
<1>2. \A m \in Maps(tx[c].writes) : m \in Map \cup Created(c)
  BY DEF Tx, Maps
<1>3. \A m \in Map \cup Created(c) : m.in = c =>
        /\ m.copy \in Nat
        /\ m = [who |-> m.who, perm |-> m.perm, in |-> c, copy |-> m.copy]
  BY <1>1 DEF Map, Created, MapIn
<1>4. map.copy \in Nat
  BY <1>2, <1>3
<1>5. \A m \in B : /\ m.copy \in 0 .. map.copy
                   /\ m = [who |-> map.who, perm |-> map.perm, in |-> c, copy |-> m.copy]
  BY <1>2, <1>3, <1>4 DEF Before, PairOf
<1> HIDE DEF B
<1>6. f \in Injection(B, 0 .. map.copy)
  BY <1>5 DEF Injection, IsInjective
<1>7. IsFiniteSet(0 .. map.copy)
  BY <1>4, FS_Interval
<1> HIDE DEF f
<1> QED
  BY <1>6, <1>7, FS_Injection DEF B

LEMMA CommittedParts ==
  ASSUME NEW c \in Admin \cup Request, tx[c] \in Tx(c), CopiesLeft(c),
         NEW map \in Maps(tx[c].writes)
  PROVE  /\ CommittedMap(c, map) \in Map
         /\ CommittedMap(c, map).who = map.who /\ CommittedMap(c, map).perm = map.perm
         /\ PairOf(CommittedMap(c, map)) = PairOf(map)
         /\ map \in Map => CommittedMap(c, map) = map
<1>1. map \in Map \cup Created(c) /\ c # Stored
  BY EditorAssumption DEF Tx, Maps
<1>2. CASE map.in = Stored
  <2>1. map \in Map
    BY <1>1, <1>2 DEF Created, MapIn
  <2> QED
    BY <1>2, <2>1 DEF CommittedMap
<1>3. CASE map.in # Stored
  <2> DEFINE free == Free(c, PairOf(map))
             n == Cardinality(Before(c, map))
             k == CHOOSE i \in free : Cardinality({j \in free : j < i}) = n
  <2>1. map.in = c /\ map \in Created(c)
    BY <1>1, <1>3 DEF Map, MapIn, Created
  <2>2. n \in Nat
    BY <2>1, BeforeFinite, FS_CardinalityType
  <2>3. free \in SUBSET (1 .. MaxCopies)
    BY DEF Free
  <2>4. n < Cardinality(free)
    BY <2>1 DEF CopiesLeft
  <2>5. k \in 1 .. MaxCopies
    <3> HIDE DEF free, n
    <3>2. MaxCopies \in Nat
      BY EditorAssumption
    <3>1. \E i \in free : Cardinality({j \in free : j < i}) = n
      BY <2>2, <2>3, <2>4, <3>2, NextAfter
    <3> QED
      BY <2>3, <3>1
  <2>6. CommittedMap(c, map) = [map EXCEPT !.in = Stored, !.copy = k]
    BY <1>3 DEF CommittedMap
  <2> HIDE DEF k
  <2>7. /\ CommittedMap(c, map) = [who |-> map.who, perm |-> map.perm, in |-> Stored, copy |-> k]
        /\ map.who \in Who /\ map.perm \in Perm
    BY <2>1, <2>6 DEF Created, MapIn
  <2>8. map \notin Map
    BY <1>3 DEF Map, MapIn
  <2> QED
    BY <2>5, <2>7, <2>8 DEF Map, MapIn, PairOf
<1> QED
  BY <1>2, <1>3

-----------------------------------------------------------------------------
(* What the steps do to a form.                                              *)

LEMMA FormParts ==
  ASSUME NEW f \in Form
  PROVE  /\ f.groups \in Seq(RowOf(Group)) /\ f.users \in Seq(RowOf(User))
         /\ f.audit \in BOOLEAN /\ f.edits \in 0 .. MaxEdits
         /\ f = [groups |-> f.groups, users |-> f.users, audit |-> f.audit, edits |-> f.edits]
  BY DEF Form

LEMMA FormMade ==
  ASSUME NEW M \in SUBSET Map, NEW g, NEW u, ListGood(g, Group, M), ListGood(u, User, M),
         NEW b \in BOOLEAN, NEW e \in 0 .. MaxEdits
  PROVE  FormGood([groups |-> g, users |-> u, audit |-> b, edits |-> e], M)
  BY DEF FormGood, ListGood, Form

\* The same rows, with the same members and types.
SameRows(rows, others) ==
    /\ DOMAIN rows = DOMAIN others
    /\ \A i \in DOMAIN rows : /\ rows[i].members = others[i].members
                              /\ DOMAIN rows[i].ids = DOMAIN others[i].ids

LEMMA ListWithout ==
  ASSUME NEW K, NEW M \in SUBSET Map, NEW rows, ListGood(rows, K, M),
         NEW D \in SUBSET Map, NEW N \in SUBSET Map, M \ D \subseteq N,
         NEW others, others = [i \in DOMAIN rows |-> RowWithout(rows[i], D)]
  PROVE  ListGood(others, K, N) /\ SameRows(rows, others)
<1>1. rows \in Seq(RowOf(K)) /\ DOMAIN rows = 1 .. Len(rows) /\ Len(rows) \in Nat
  BY DEF ListGood
<1>2. ASSUME NEW i \in DOMAIN rows
      PROVE  /\ RowGood(others[i], K, N)
             /\ others[i].members = rows[i].members /\ DOMAIN others[i].ids = DOMAIN rows[i].ids
  <2> DEFINE row == rows[i]
             f == [p \in DOMAIN row.ids |-> IF row.ids[p] \in D
                                          THEN [who |-> row.ids[p].who] ELSE row.ids[p]]
  <2>1. RowGood(row, K, M) /\ row \in RowOf(K)
    BY DEF ListGood, RowGood
  <2>2. others[i] = [row EXCEPT !.ids = f]
    BY DEF RowWithout
  <2>3. /\ row.members \in SUBSET K /\ DOMAIN row.ids \in SUBSET Perm
        /\ row.ids \in [DOMAIN row.ids -> Map \cup Gone \cup {New}]
        /\ row = [members |-> row.members, ids |-> row.ids]
    BY <2>1, RowParts
  <2>4. \A p \in DOMAIN row.ids : row.ids[p] \in D => [who |-> row.ids[p].who] \in Gone
    BY DEF Gone, Map, MapIn
  <2>5. \A p \in DOMAIN row.ids : f[p] \in Ids(N, p)
    BY <2>4, <2>1 DEF RowGood, Ids
  <2>6. f \in [DOMAIN row.ids -> Map \cup Gone \cup {New}]
    BY <2>4, <2>3
  <2>7. others[i] = [members |-> row.members, ids |-> f] /\ DOMAIN f = DOMAIN row.ids
    BY <2>2, <2>3
  <2> HIDE DEF f, row
  <2>8. RowGood([members |-> row.members, ids |-> f], K, N)
    BY <2>3, <2>5, <2>6, RowMade
  <2> QED
    BY <2>7, <2>8 DEF row
<1>3. others \in Seq(RowOf(K)) /\ DOMAIN others = DOMAIN rows
  <2>1. \A i \in 1 .. Len(rows) : others[i] \in RowOf(K)
    BY <1>1, <1>2 DEF RowGood
  <2>2. others \in [1 .. Len(rows) -> RowOf(K)]
    BY <1>1, <2>1
  <2> QED
    BY <1>1, <2>2
<1> QED
  BY <1>2, <1>3 DEF ListGood, SameRows

LEMMA FormCut ==
  ASSUME NEW M \in SUBSET Map, NEW f, FormGood(f, M),
         NEW D \in SUBSET Map, NEW N \in SUBSET Map, M \ D \subseteq N
  PROVE  LET g == FormWithout(f, D)
         IN  /\ FormGood(g, N)
             /\ SameRows(f.groups, g.groups) /\ SameRows(f.users, g.users)
             /\ g.audit = f.audit
             /\ FormApart(f) => FormApart(g)
<1> DEFINE g == [i \in DOMAIN f.groups |-> RowWithout(f.groups[i], D)]
           u == [i \in DOMAIN f.users |-> RowWithout(f.users[i], D)]
<1>1. f \in Form /\ ListGood(f.groups, Group, M) /\ ListGood(f.users, User, M)
  BY DEF FormGood
<1>2. /\ f = [groups |-> f.groups, users |-> f.users, audit |-> f.audit, edits |-> f.edits]
      /\ f.audit \in BOOLEAN /\ f.edits \in 0 .. MaxEdits
  BY <1>1, FormParts
<1>3. FormWithout(f, D) = [f EXCEPT !.groups = g, !.users = u]
  BY DEF FormWithout
<1>4. FormWithout(f, D) = [groups |-> g, users |-> u, audit |-> f.audit, edits |-> f.edits]
  <2> HIDE DEF g, u
  <2> QED
    BY <1>2, <1>3
<1>5. ListGood(g, Group, N) /\ SameRows(f.groups, g)
  <2> DEFINE rows == f.groups
  <2>1. ListGood(rows, Group, M) /\ g = [i \in DOMAIN rows |-> RowWithout(rows[i], D)]
    BY <1>1
  <2> HIDE DEF rows, g
  <2>2. ListGood(g, Group, N) /\ SameRows(rows, g)
    BY <2>1, ListWithout
  <2> QED
    BY <2>2 DEF rows
<1>6. ListGood(u, User, N) /\ SameRows(f.users, u)
  <2> DEFINE rows == f.users
  <2>1. ListGood(rows, User, M) /\ u = [i \in DOMAIN rows |-> RowWithout(rows[i], D)]
    BY <1>1
  <2> HIDE DEF rows, u
  <2>2. ListGood(u, User, N) /\ SameRows(rows, u)
    BY <2>1, ListWithout
  <2> QED
    BY <2>2 DEF rows
<1> HIDE DEF g, u
<1>7. FormGood(FormWithout(f, D), N)
  BY <1>2, <1>4, <1>5, <1>6, FormMade
<1> QED
  BY <1>4, <1>5, <1>6, <1>7 DEF FormApart, RowsApart, SameRows

\* The form after an edit of the rows, or of the switch for auditing.
LEMMA FormEdited ==
  ASSUME NEW a \in Admin, NEW M \in SUBSET Map, FormGood(form[a], M),
         EditRows(a) \/ ToggleAudit(a)
  PROVE  /\ tx[a] = Idle /\ UNCHANGED <<permGroups, auditOn, tx, raced, stale>>
         /\ \E f : /\ form' = [form EXCEPT ![a] = f]
                   /\ FormGood(f, M) /\ (FormApart(form[a]) => FormApart(f))
<1> DEFINE f0 == form[a]
<1>1. f0 \in Form /\ ListGood(f0.groups, Group, M) /\ ListGood(f0.users, User, M)
  BY DEF FormGood
<1>2. /\ f0 = [groups |-> f0.groups, users |-> f0.users, audit |-> f0.audit, edits |-> f0.edits]
      /\ f0.audit \in BOOLEAN /\ f0.edits \in 0 .. MaxEdits
  BY <1>1, FormParts
<1>3. ASSUME NEW g, NEW u, NEW b \in BOOLEAN,
             ListGood(g, Group, M), RowsApart(f0.groups) => RowsApart(g),
             ListGood(u, User, M), RowsApart(f0.users) => RowsApart(u),
             EditForm(a, [groups |-> g, users |-> u, audit |-> b, edits |-> f0.edits])
      PROVE  /\ tx[a] = Idle /\ UNCHANGED <<permGroups, auditOn, tx, raced, stale>>
             /\ \E f : /\ form' = [form EXCEPT ![a] = f]
                       /\ FormGood(f, M) /\ (FormApart(form[a]) => FormApart(f))
  <2> DEFINE f == [groups |-> g, users |-> u, audit |-> b, edits |-> f0.edits + 1]
  <2>1. f0.edits < MaxEdits /\ tx[a] = Idle /\ UNCHANGED <<permGroups, auditOn, tx, raced, stale>>
    BY <1>3 DEF EditForm, Editing
  <2>2. f0.edits + 1 \in 0 .. MaxEdits
    BY <1>2, <2>1, EditorAssumption
  <2>3. form' = [form EXCEPT ![a] = f]
    <3> DEFINE e == [groups |-> g, users |-> u, audit |-> b, edits |-> f0.edits]
    <3>1. [e EXCEPT !.edits = @ + 1] = f
      OBVIOUS
    <3>2. form' = [form EXCEPT ![a] = [e EXCEPT !.edits = @ + 1]]
      BY <1>3 DEF EditForm
    <3> QED
      BY <3>1, <3>2
  <2>4. FormGood(f, M)
    BY <1>3, <2>2, FormMade
  <2>5. FormApart(f0) => FormApart(f)
    BY <1>3 DEF FormApart
  <2> QED
    BY <2>1, <2>3, <2>4, <2>5
<1> HIDE DEF f0
<1>4. ASSUME NEW g \in EditedList(f0.groups, Group), EditForm(a, [f0 EXCEPT !.groups = g])
      PROVE  /\ tx[a] = Idle /\ UNCHANGED <<permGroups, auditOn, tx, raced, stale>>
             /\ \E f : /\ form' = [form EXCEPT ![a] = f]
                       /\ FormGood(f, M) /\ (FormApart(form[a]) => FormApart(f))
  <2>1. ListGood(g, Group, M) /\ (RowsApart(f0.groups) => RowsApart(g))
    BY <1>1, ListEdited
  <2>2. [f0 EXCEPT !.groups = g]
          = [groups |-> g, users |-> f0.users, audit |-> f0.audit, edits |-> f0.edits]
    BY <1>2
  <2> QED
    BY <1>1, <1>2, <1>3, <1>4, <2>1, <2>2
<1>5. ASSUME NEW u \in EditedList(f0.users, User), EditForm(a, [f0 EXCEPT !.users = u])
      PROVE  /\ tx[a] = Idle /\ UNCHANGED <<permGroups, auditOn, tx, raced, stale>>
             /\ \E f : /\ form' = [form EXCEPT ![a] = f]
                       /\ FormGood(f, M) /\ (FormApart(form[a]) => FormApart(f))
  <2>1. ListGood(u, User, M) /\ (RowsApart(f0.users) => RowsApart(u))
    BY <1>1, ListEdited
  <2>2. [f0 EXCEPT !.users = u]
          = [groups |-> f0.groups, users |-> u, audit |-> f0.audit, edits |-> f0.edits]
    BY <1>2
  <2> QED
    BY <1>1, <1>2, <1>3, <1>5, <2>1, <2>2
<1>6. CASE ToggleAudit(a)
  <2>1. EditForm(a, [f0 EXCEPT !.audit = ~@])
    BY <1>6 DEF ToggleAudit, f0
  <2>2. [f0 EXCEPT !.audit = ~@]
          = [groups |-> f0.groups, users |-> f0.users, audit |-> ~f0.audit, edits |-> f0.edits]
    BY <1>2
  <2>3. (~f0.audit) \in BOOLEAN
    OBVIOUS
  <2> QED
    BY <1>1, <1>3, <2>1, <2>2, <2>3
<1>7. CASE EditRows(a)
  BY <1>4, <1>5, <1>7 DEF EditRows, f0
<1> QED
  BY <1>6, <1>7

-----------------------------------------------------------------------------
(* The types, by parts: the ids of an open form and the perm maps of an open *)
(* transaction are stored; only administrators save, with a form open.       *)

GroupsTyped == permGroups \subseteq (SUBSET Map) \ {{}}
FormsGood == \A a \in Admin : form[a] # Closed => FormGood(form[a], Maps(permGroups))
TxGood(c) ==
    /\ tx[c] \in Tx(c) /\ tx[c].seen \subseteq Maps(permGroups)
    /\ tx[c].op = "save" <=> c \in Admin
    /\ c \in Admin => form[c] # Closed
TxsGood == \A c \in Admin \cup Request : tx[c] # Idle => TxGood(c)
Shape ==
    /\ form = [a \in Admin |-> form[a]]
    /\ tx = [c \in Admin \cup Request |-> tx[c]]
    /\ auditOn \in BOOLEAN /\ raced \in BOOLEAN /\ stale \in BOOLEAN

TypeIInv == GroupsTyped /\ FormsGood /\ TxsGood /\ Shape

LEMMA GroupsParts ==
  ASSUME GroupsTyped
  PROVE  /\ permGroups \in SUBSET SUBSET Map /\ Maps(permGroups) \in SUBSET Map
         /\ \A G \in permGroups : G \subseteq Maps(permGroups)
  BY DEF GroupsTyped, Maps

LEMMA FormChanges ==
  ASSUME TypeIInv, NEW a \in Admin, tx[a] = Idle, NEW f,
         form' = [form EXCEPT ![a] = f], f = Closed \/ FormGood(f, Maps(permGroups)),
         UNCHANGED <<permGroups, auditOn, tx, raced, stale>>
  PROVE  TypeIInv'
<1>1. GroupsTyped'
  BY DEF TypeIInv, GroupsTyped
<1>2. \A b \in Admin : form'[b] = IF b = a THEN f ELSE form[b]
  BY DEF TypeIInv, Shape
<1>3. FormsGood'
  BY <1>2 DEF TypeIInv, FormsGood
<1>4. TxsGood'
  BY <1>2 DEF TypeIInv, TxsGood, TxGood
<1>5. Shape'
  BY DEF TypeIInv, Shape
<1> QED
  BY <1>1, <1>3, <1>4, <1>5 DEF TypeIInv

LEMMA TxBegins ==
  ASSUME TypeIInv, NEW c \in Admin \cup Request, NEW t \in Tx(c),
         t.seen = Maps(permGroups), t.op = "save" <=> c \in Admin,
         c \in Admin => form[c] # Closed,
         tx' = [tx EXCEPT ![c] = t], UNCHANGED <<permGroups, auditOn, form, raced, stale>>
  PROVE  TypeIInv'
<1>1. GroupsTyped' /\ FormsGood'
  BY DEF TypeIInv, GroupsTyped, FormsGood
<1>2. \A d \in Admin \cup Request : tx'[d] = IF d = c THEN t ELSE tx[d]
  BY DEF TypeIInv, Shape
<1>3. TxsGood'
  BY <1>2 DEF TypeIInv, TxsGood, TxGood
<1>4. Shape'
  BY DEF TypeIInv, Shape
<1> QED
  BY <1>1, <1>3, <1>4 DEF TypeIInv

\* What Save and Ask begin.
LEMMA SaveBegins ==
  ASSUME TypeIInv, NEW a \in Admin, Save(a)
  PROVE  /\ form[a] # Closed /\ Accepted(form[a]) /\ tx[a] = Idle
         /\ UNCHANGED <<permGroups, auditOn, form, raced, stale>>
         /\ \E t \in Tx(a) : /\ tx' = [tx EXCEPT ![a] = t]
                             /\ t.op = "save" /\ t.asked = {} /\ t.overtaken = FALSE
                             /\ t.seen = Maps(permGroups) /\ t.writes = SaveResult(a)
<1> DEFINE t == [op |-> "save", asked |-> {}, seen |-> Maps(permGroups),
                 writes |-> SaveResult(a), overtaken |-> FALSE]
<1>1. Maps(permGroups) \in SUBSET Map
  BY GroupsParts DEF TypeIInv
<1>2. form[a] # Closed /\ FormGood(form[a], Maps(permGroups))
  BY DEF Save, Editing, TypeIInv, FormsGood
<1>3. \A G \in SaveResult(a) : G \subseteq Maps(permGroups) \cup Created(a)
  BY <1>1, <1>2, SaveWrites
<1>4. t \in Tx(a)
  BY <1>1, <1>3 DEF Tx
<1>5. tx[a] = Idle /\ tx' = [tx EXCEPT ![a] = t]
      /\ UNCHANGED <<permGroups, auditOn, form, raced, stale>>
  BY DEF Save, Begin
<1> QED
  BY <1>2, <1>4, <1>5 DEF Save

LEMMA RequestBegins ==
  ASSUME TypeIInv, NEW r \in Request, Ask(r)
  PROVE  /\ tx[r] = Idle
         /\ UNCHANGED <<permGroups, auditOn, form, raced, stale>>
         /\ \E t \in Tx(r) : /\ tx' = [tx EXCEPT ![r] = t]
                             /\ t.op \in {"grant", "replace", "revoke"}
                             /\ t.overtaken = FALSE
                             /\ t.seen = Maps(permGroups)
                             /\ t.writes \in Results(t.op, r, t.asked)
<1>1. PICK asked \in SUBSET Pair :
        \/ Begin(r, "grant", asked, GrantResult(r, asked))
        \/ Begin(r, "replace", asked, ReplaceResult(r, asked))
        \/ Begin(r, "revoke", asked, RevokeResult(asked))
  BY DEF Ask
<1>2. PICK op \in {"grant", "replace", "revoke"} : Begin(r, op, asked, Results(op, r, asked))
  <2>1. CASE Begin(r, "grant", asked, GrantResult(r, asked))
    BY <2>1 DEF Results
  <2>2. CASE Begin(r, "replace", asked, ReplaceResult(r, asked))
    BY <2>2 DEF Results
  <2>3. CASE Begin(r, "revoke", asked, RevokeResult(asked))
    BY <2>3 DEF Results
  <2> QED
    BY <1>1, <2>1, <2>2, <2>3
<1>3. PICK writes \in Results(op, r, asked) :
        tx' = [tx EXCEPT ![r] = [op |-> op, asked |-> asked, seen |-> Maps(permGroups),
                                 writes |-> writes, overtaken |-> FALSE]]
  BY <1>2 DEF Begin
<1> DEFINE t == [op |-> op, asked |-> asked, seen |-> Maps(permGroups),
                 writes |-> writes, overtaken |-> FALSE]
<1>4. permGroups \in SUBSET SUBSET Map /\ Maps(permGroups) \in SUBSET Map
  BY GroupsParts DEF TypeIInv
<1>5. \A G \in writes : G \subseteq Map \cup Created(r)
  BY <1>3, <1>4, RequestWrites
<1>6. t \in Tx(r)
  BY <1>4, <1>5 DEF Tx
<1>7. tx[r] = Idle /\ UNCHANGED <<permGroups, auditOn, form, raced, stale>>
  BY <1>2 DEF Begin
<1> QED
  BY <1>3, <1>6, <1>7

\* A commit leaves what it did not delete, and stores what it writes.
LEMMA CommitStores ==
  ASSUME TypeIInv, NEW c \in Admin \cup Request, Commit(c)
  PROVE  /\ GroupsTyped'
         /\ Deleted(c) \subseteq Maps(permGroups)
         /\ Maps(permGroups) \ Deleted(c) \subseteq Maps(permGroups')
         /\ \A G \in permGroups' :
                \/ \E H \in permGroups : G = H \ tx[c].seen
                \/ \E H \in tx[c].writes : G = {CommittedMap(c, map) : map \in H}
<1> DEFINE old == {G \ tx[c].seen : G \in permGroups}
           new == {{CommittedMap(c, map) : map \in G} : G \in tx[c].writes}
<1>1. tx[c] \in Tx(c) /\ tx[c].seen \subseteq Maps(permGroups) /\ CopiesLeft(c)
  BY DEF Commit, TypeIInv, TxsGood, TxGood
<1>2. permGroups' = (old \cup new) \ {{}}
  BY DEF Commit
<1>3. permGroups \in SUBSET SUBSET Map
  BY GroupsParts DEF TypeIInv
<1>4. \A map \in Maps(tx[c].writes) :
        CommittedMap(c, map) \in Map /\ (map \in Map => CommittedMap(c, map) = map)
  BY <1>1, CommittedParts
<1>5. \A G \in new : G \subseteq Map
  BY <1>4 DEF Maps
<1>6. \A G \in old : G \subseteq Map
  BY <1>3
<1>7. GroupsTyped'
  BY <1>2, <1>5, <1>6 DEF GroupsTyped
<1>8. ASSUME NEW m \in Maps(permGroups), m \notin Deleted(c)
      PROVE  m \in Maps(permGroups')
  <2>1. PICK G \in permGroups : m \in G
    BY DEF Maps
  <2>2. CASE m \notin tx[c].seen
    <3>1. m \in G \ tx[c].seen /\ G \ tx[c].seen \in old
      BY <2>1, <2>2
    <3> QED
      BY <1>2, <3>1 DEF Maps
  <2>3. CASE m \in tx[c].seen
    <3>1. PICK H \in tx[c].writes : m \in H
      BY <1>8, <2>3 DEF Deleted, Maps
    <3>2. m \in Map /\ m \in Maps(tx[c].writes)
      BY <1>3, <2>1, <3>1 DEF Maps
    <3>3. m = CommittedMap(c, m)
      BY <1>4, <3>2
    <3>4. m \in {CommittedMap(c, map) : map \in H}
      BY <3>1, <3>3
    <3>5. {CommittedMap(c, map) : map \in H} \in new
      BY <3>1
    <3> QED
      BY <1>2, <3>4, <3>5 DEF Maps
  <2> QED
    BY <2>2, <2>3
<1>9. \A G \in permGroups' :
        \/ \E H \in permGroups : G = H \ tx[c].seen
        \/ \E H \in tx[c].writes : G = {CommittedMap(c, map) : map \in H}
  BY <1>2
<1> QED
  BY <1>1, <1>7, <1>8, <1>9 DEF Deleted

\* What is overtaken keeps its kind, and knows what is gone.
LEMMA OvertakenIs ==
  ASSUME NEW c, NEW t \in Tx(c), NEW D
  PROVE  /\ Overtaken(t, D) \in Tx(c)
         /\ Overtaken(t, D) = [op |-> t.op, asked |-> t.asked, seen |-> t.seen \ D,
                               writes |-> {G \ D : G \in t.writes}, overtaken |-> TRUE]
<1>1. /\ t = [op |-> t.op, asked |-> t.asked, seen |-> t.seen, writes |-> t.writes,
              overtaken |-> t.overtaken]
      /\ t.op \in {"save", "grant", "replace", "revoke"} /\ t.asked \in SUBSET Pair
      /\ t.seen \in SUBSET Map /\ t.writes \in SUBSET SUBSET (Map \cup Created(c))
  BY DEF Tx
<1> DEFINE W == {G \ D : G \in t.writes}
<1>2. W \in SUBSET SUBSET (Map \cup Created(c))
  BY <1>1
<1>3. Overtaken(t, D) = [t EXCEPT !.seen = t.seen \ D, !.writes = W, !.overtaken = TRUE]
  BY DEF Overtaken
<1> HIDE DEF W
<1>4. Overtaken(t, D) = [op |-> t.op, asked |-> t.asked, seen |-> t.seen \ D,
                         writes |-> W, overtaken |-> TRUE]
  BY <1>1, <1>3
<1>5. Overtaken(t, D) \in Tx(c)
  BY <1>1, <1>2, <1>4 DEF Tx
<1> QED
  BY <1>4, <1>5 DEF W

LEMMA OvertakenParts ==
  ASSUME NEW c, NEW t \in Tx(c), NEW D
  PROVE  /\ Overtaken(t, D) \in Tx(c)
         /\ Overtaken(t, D).seen = t.seen \ D
         /\ Overtaken(t, D).op = t.op /\ Overtaken(t, D).overtaken = TRUE
  BY OvertakenIs

\* What an overtaken transaction keeps.
LEMMA OvertakenKeeps ==
  ASSUME NEW c, NEW t \in Tx(c), NEW D, NEW u, u = Overtaken(t, D)
  PROVE  /\ u.seen = t.seen \ D /\ u.op = t.op /\ u.asked = t.asked
         /\ Maps(u.writes) = Maps(t.writes) \ D
<1> DEFINE W == {G \ D : G \in t.writes}
<1>1. u = [op |-> t.op, asked |-> t.asked, seen |-> t.seen \ D, writes |-> W, overtaken |-> TRUE]
  BY OvertakenIs
<1>2. Maps(W) = Maps(t.writes) \ D
  BY DEF Maps
<1> HIDE DEF W
<1> QED
  BY <1>1, <1>2

\* The transactions after a commit.
LEMMA TxsAfter ==
  ASSUME TypeIInv, NEW c \in Admin \cup Request, Commit(c)
  PROVE  /\ tx'[c] = Idle
         /\ \A d \in (Admin \cup Request) \ {c} :
                \/ tx[d] = Idle /\ tx'[d] = Idle
                \/ tx[d] # Idle /\ tx'[d] = Overtaken(tx[d], Deleted(c)) /\ tx'[d] # Idle
<1>1. DOMAIN tx = Admin \cup Request
  BY DEF TypeIInv, Shape
<1>2. \A d \in Admin \cup Request :
        tx'[d] = IF d = c \/ tx[d] = Idle THEN Idle ELSE Overtaken(tx[d], Deleted(c))
  BY <1>1 DEF Commit
<1>3. \A d \in Admin \cup Request :
        tx[d] # Idle => Overtaken(tx[d], Deleted(c)) \in Tx(d)
  BY OvertakenParts DEF TypeIInv, TxsGood, TxGood
<1>4. \A d \in Admin \cup Request : Idle \notin Tx(d)
  BY EditorAssumption
<1> QED
  BY <1>2, <1>3, <1>4

\* Another's commit takes what it deletes out of a transaction, and nothing else.
LEMMA OvertakenTx ==
  ASSUME TypeIInv, NEW c \in Admin \cup Request, NEW d \in Admin \cup Request,
         tx[d] # Idle, tx'[d] = Overtaken(tx[d], Deleted(c))
  PROVE  /\ tx'[d].op = tx[d].op /\ tx'[d].asked = tx[d].asked
         /\ tx'[d].seen = tx[d].seen \ Deleted(c)
         /\ Maps(tx'[d].writes) = Maps(tx[d].writes) \ Deleted(c)
         /\ tx'[d].overtaken = TRUE
         /\ tx'[d] \in Tx(d)
<1>1. tx[d] \in Tx(d)
  BY DEF TypeIInv, TxsGood, TxGood
<1>2. PICK u : u = tx'[d]
  OBVIOUS
<1>3. u = Overtaken(tx[d], Deleted(c))
  BY <1>2
<1>4. u.op = tx[d].op /\ u.asked = tx[d].asked
  BY <1>1, <1>3, OvertakenKeeps
<1>5. u.seen = tx[d].seen \ Deleted(c)
  BY <1>1, <1>3, OvertakenKeeps
<1>6. Maps(u.writes) = Maps(tx[d].writes) \ Deleted(c)
  BY <1>1, <1>3, OvertakenKeeps
<1>7. u.overtaken = TRUE
  <2>1. \A e : \A t \in Tx(e) : \A D : Overtaken(t, D).overtaken = TRUE
    BY OvertakenParts, Zenon
  <2> QED
    BY <1>1, <1>3, <2>1, Zenon
<1>8. u \in Tx(d)
  BY <1>1, <1>3, OvertakenParts
<1> QED
  BY <1>2, <1>4, <1>5, <1>6, <1>7, <1>8, Zenon

Ends(c) == \/ c \in Admin /\ CommitSave(c)
           \/ c \in Request /\ CommitRequest(c)

\* The forms after a commit: those of the others know which ids are gone.
LEMMA FormsAfter ==
  ASSUME TypeIInv, NEW c \in Admin \cup Request, Ends(c)
  PROVE  /\ Commit(c)
         /\ form' = [a \in Admin |-> form'[a]]
         /\ \A a \in Admin :
                \/ (form[a] = Closed \/ a = c) /\ form'[a] = Closed
                \/ /\ form[a] # Closed /\ a # c /\ form'[a] # Closed
                   /\ form'[a] = FormWithout(form[a], Deleted(c))
                   /\ FormGood(form'[a], Maps(permGroups'))
                   /\ SameRows(form[a].groups, form'[a].groups)
                   /\ SameRows(form[a].users, form'[a].users)
                   /\ form'[a].audit = form[a].audit
                   /\ FormApart(form[a]) => FormApart(form'[a])
<1> DEFINE D == Deleted(c)
<1>1. Commit(c)
  BY DEF Ends, CommitSave, CommitRequest
<1>2. /\ Maps(permGroups) \in SUBSET Map /\ Maps(permGroups') \in SUBSET Map
      /\ Maps(permGroups) \ D \subseteq Maps(permGroups')
  <2>1. GroupsTyped' /\ Maps(permGroups) \ D \subseteq Maps(permGroups')
    BY <1>1, CommitStores
  <2>2. GroupsTyped
    BY DEF TypeIInv
  <2> QED
    BY <2>1, <2>2 DEF GroupsTyped, Maps
<1>3. D \in SUBSET Map
  <2>1. tx[c] # Idle /\ c \in Admin \cup Request
    BY <1>1 DEF Commit, Ends
  <2>2. tx[c].seen \subseteq Maps(permGroups)
    BY <2>1 DEF TypeIInv, TxsGood, TxGood, Shape
  <2> QED
    BY <1>2, <2>2 DEF Deleted
<1>4. \/ c \in Admin /\ form' = [FormsWithout(D) EXCEPT ![c] = Closed]
      \/ c \notin Admin /\ form' = FormsWithout(D)
  BY EditorAssumption DEF Ends, CommitSave, CommitRequest
<1>5. /\ form' = [a \in Admin |-> form'[a]]
      /\ \A a \in Admin : form'[a] = IF a = c \/ form[a] = Closed THEN Closed
                                     ELSE FormWithout(form[a], D)
  BY <1>4 DEF FormsWithout
<1>6. \A f : FormGood(f, Maps(permGroups')) => f # Closed
  BY EditorAssumption DEF FormGood
<1>7. ASSUME NEW a \in Admin, a # c, form[a] # Closed
      PROVE  /\ FormGood(FormWithout(form[a], D), Maps(permGroups'))
             /\ SameRows(form[a].groups, FormWithout(form[a], D).groups)
             /\ SameRows(form[a].users, FormWithout(form[a], D).users)
             /\ FormWithout(form[a], D).audit = form[a].audit
             /\ FormApart(form[a]) => FormApart(FormWithout(form[a], D))
  <2>1. FormGood(form[a], Maps(permGroups))
    BY <1>7 DEF TypeIInv, FormsGood
  <2> DEFINE M == Maps(permGroups)
             N == Maps(permGroups')
  <2>2. M \in SUBSET Map /\ N \in SUBSET Map /\ M \ D \subseteq N /\ FormGood(form[a], M)
    BY <1>2, <2>1
  <2> HIDE DEF D, M, N
  <2>3. /\ FormGood(FormWithout(form[a], D), N)
        /\ SameRows(form[a].groups, FormWithout(form[a], D).groups)
        /\ SameRows(form[a].users, FormWithout(form[a], D).users)
        /\ FormWithout(form[a], D).audit = form[a].audit
        /\ FormApart(form[a]) => FormApart(FormWithout(form[a], D))
    BY <1>3, <2>2, FormCut
  <2> QED
    BY <2>3 DEF N
<1> HIDE DEF D
<1>8. ASSUME NEW a \in Admin
      PROVE  \/ (form[a] = Closed \/ a = c) /\ form'[a] = Closed
             \/ /\ form[a] # Closed /\ a # c /\ form'[a] # Closed
                /\ form'[a] = FormWithout(form[a], D)
                /\ FormGood(form'[a], Maps(permGroups'))
                /\ SameRows(form[a].groups, form'[a].groups)
                /\ SameRows(form[a].users, form'[a].users)
                /\ form'[a].audit = form[a].audit
                /\ FormApart(form[a]) => FormApart(form'[a])
  <2>1. CASE form[a] = Closed \/ a = c
    BY <1>5, <2>1
  <2>2. CASE form[a] # Closed /\ a # c
    BY <1>5, <1>6, <1>7, <2>2
  <2> QED
    BY <2>1, <2>2
<1> QED
  BY <1>1, <1>5, <1>8 DEF D

LEMMA CommitTyped ==
  ASSUME TypeIInv, NEW c \in Admin \cup Request, Ends(c)
  PROVE  TypeIInv'
<1>1. Commit(c)
  BY FormsAfter
<1>2. /\ GroupsTyped' /\ Maps(permGroups) \ Deleted(c) \subseteq Maps(permGroups')
  BY <1>1, CommitStores
<1>3. FormsGood'
  BY FormsAfter DEF FormsGood
<1>4. ASSUME NEW d \in Admin \cup Request, tx'[d] # Idle
      PROVE  TxGood(d)'
  <2>1. d # c /\ tx[d] # Idle /\ tx'[d] = Overtaken(tx[d], Deleted(c))
    BY <1>1, <1>4, TxsAfter
  <2>2. TxGood(d)
    BY <2>1 DEF TypeIInv, TxsGood
  <2>3. /\ tx'[d] \in Tx(d) /\ tx'[d].op = tx[d].op
        /\ tx'[d].seen = tx[d].seen \ Deleted(c)
    BY <2>1, OvertakenTx
  <2>4. d \in Admin => form'[d] # Closed
    BY <2>1, <2>2, FormsAfter DEF TxGood
  <2> QED
    BY <1>2, <2>2, <2>3, <2>4 DEF TxGood
<1>5. TxsGood'
  BY <1>4 DEF TxsGood
<1>6. Shape'
  <2>1. form' = [a \in Admin |-> form'[a]]
    BY FormsAfter
  <2>2. tx' = [d \in Admin \cup Request |-> tx'[d]]
    BY <1>1 DEF Commit, TypeIInv, Shape
  <2>3. raced' \in BOOLEAN
    BY <1>1 DEF Commit
  <2>4. auditOn' \in BOOLEAN /\ stale' \in BOOLEAN
    <3>1. CASE c \in Request /\ CommitRequest(c)
      BY <3>1 DEF CommitRequest, TypeIInv, Shape
    <3>2. CASE c \in Admin /\ CommitSave(c)
      <4>1. tx[c] # Idle
        BY <3>2 DEF CommitSave, Commit
      <4>2. form[c] \in Form
        BY <3>2, <4>1 DEF TypeIInv, TxsGood, TxGood, FormsGood, FormGood
      <4> QED
        BY <3>2, <4>2, FormParts DEF CommitSave
    <3> QED
      BY <3>1, <3>2 DEF Ends
  <2> QED
    BY <2>1, <2>2, <2>3, <2>4 DEF Shape
<1> QED
  BY <1>2, <1>3, <1>5, <1>6 DEF TypeIInv

LEMMA OpenGood ==
  ASSUME TypeIInv, NEW a \in Admin, Open(a)
  PROVE  /\ form[a] = Closed /\ tx[a] = Idle
         /\ UNCHANGED <<permGroups, auditOn, tx, raced, stale>>
         /\ \E f : /\ form' = [form EXCEPT ![a] = f]
                   /\ FormGood(f, Maps(permGroups))
                   /\ Apart(permGroups) => FormApart(f)
<1>1. PICK g \in Lists(Group), u \in Lists(User) :
        form' = [form EXCEPT ![a] = [groups |-> g, users |-> u, audit |-> auditOn, edits |-> 0]]
  BY DEF Open
<1>2. permGroups \in SUBSET SUBSET Map /\ Maps(permGroups) \in SUBSET Map
  BY GroupsParts DEF TypeIInv
<1>3. /\ ListGood(g, Group, Maps(permGroups)) /\ (Apart(permGroups) => RowsApart(g))
      /\ ListGood(u, User, Maps(permGroups)) /\ (Apart(permGroups) => RowsApart(u))
  BY <1>2, ListOpened DEF Apart
<1>4. auditOn \in BOOLEAN /\ 0 \in 0 .. MaxEdits
  BY EditorAssumption DEF TypeIInv, Shape
<1> DEFINE f == [groups |-> g, users |-> u, audit |-> auditOn, edits |-> 0]
<1>5. FormGood(f, Maps(permGroups))
  BY <1>2, <1>3, <1>4, FormMade
<1>6. Apart(permGroups) => FormApart(f)
  BY <1>3 DEF FormApart
<1>7. form[a] = Closed /\ UNCHANGED <<permGroups, auditOn, tx, raced, stale>>
  BY DEF Open
<1>8. tx[a] = Idle
  BY <1>7 DEF TypeIInv, TxsGood, TxGood
<1> QED
  BY <1>1, <1>5, <1>6, <1>7, <1>8

\* The steps.
LEMMA EditorSteps ==
  ASSUME TypeIInv, [EditorNext]_editorVars
  PROVE  \/ UNCHANGED editorVars
         \/ \E a \in Admin : Open(a) \/ EditRows(a) \/ ToggleAudit(a) \/ Leave(a) \/ Save(a)
         \/ \E r \in Request : Ask(r)
         \/ \E c \in Admin \cup Request : Ends(c) \/ Rollback(c)
  BY DEF EditorNext, Ends

LEMMA StepTyped ==
  ASSUME TypeIInv, [EditorNext]_editorVars
  PROVE  TypeIInv'
<1>1. CASE UNCHANGED editorVars
  BY <1>1 DEF editorVars, TypeIInv, GroupsTyped, FormsGood, TxsGood, TxGood, Shape
<1>2. ASSUME NEW a \in Admin, Open(a)
      PROVE  TypeIInv'
  BY <1>2, OpenGood, FormChanges
<1>3. ASSUME NEW a \in Admin, EditRows(a) \/ ToggleAudit(a)
      PROVE  TypeIInv'
  <2>1. form[a] # Closed
    BY <1>3 DEF EditRows, ToggleAudit, Editing
  <2>2. FormGood(form[a], Maps(permGroups)) /\ Maps(permGroups) \in SUBSET Map
    BY <2>1, GroupsParts DEF TypeIInv, FormsGood
  <2> QED
    BY <1>3, <2>2, FormEdited, FormChanges
<1>4. ASSUME NEW a \in Admin, Leave(a)
      PROVE  TypeIInv'
  BY <1>4, FormChanges DEF Leave, Editing
<1>5. ASSUME NEW a \in Admin, Save(a)
      PROVE  TypeIInv'
  BY <1>5, SaveBegins, TxBegins
<1>6. ASSUME NEW r \in Request, Ask(r)
      PROVE  TypeIInv'
  <2>1. r \notin Admin
    BY EditorAssumption
  <2> QED
    BY <1>6, <2>1, RequestBegins, TxBegins
<1>7. ASSUME NEW c \in Admin \cup Request, Ends(c)
      PROVE  TypeIInv'
  BY <1>7, CommitTyped
<1>8. ASSUME NEW c \in Admin \cup Request, Rollback(c)
      PROVE  TypeIInv'
  <2>1. \A d \in Admin \cup Request : tx'[d] = IF d = c THEN Idle ELSE tx[d]
    BY <1>8 DEF Rollback, TypeIInv, Shape
  <2>2. Shape'
    BY <1>8 DEF Rollback, TypeIInv, Shape
  <2>3. GroupsTyped' /\ FormsGood' /\ TxsGood'
    BY <1>8, <2>1 DEF Rollback, TypeIInv, GroupsTyped, FormsGood, TxsGood, TxGood
  <2> QED
    BY <2>2, <2>3 DEF TypeIInv
<1> QED
  BY <1>1, <1>2, <1>3, <1>4, <1>5, <1>6, <1>7, <1>8, EditorSteps

LEMMA InitTyped == EditorInit => TypeIInv
<1> SUFFICES ASSUME EditorInit
             PROVE  TypeIInv
  OBVIOUS
<1>1. GroupsTyped /\ Shape
  BY DEF EditorInit, GroupsTyped, Shape
<1>2. FormsGood /\ TxsGood
  BY DEF EditorInit, FormsGood, TxsGood
<1> QED
  BY <1>1, <1>2 DEF TypeIInv

LEMMA TypeIInvHolds == EditorSpec => []TypeIInv
  BY InitTyped, StepTyped, PTL DEF EditorSpec

\* The ids a good list shows are stored, or known to be gone.
LEMMA IdsOfGoodList ==
  ASSUME NEW K, NEW M \in SUBSET Map, NEW rows, ListGood(rows, K, M)
  PROVE  IdsOf(rows) \ (Gone \cup {New}) \subseteq M
<1> SUFFICES ASSUME NEW x \in IdsOf(rows), x \notin Gone \cup {New}
             PROVE  x \in M
  OBVIOUS
<1>1. PICK i \in DOMAIN rows : x \in Range(rows[i].ids)
  BY DEF IdsOf
<1>2. PICK p \in DOMAIN rows[i].ids : x = rows[i].ids[p]
  BY <1>1 DEF Range
<1>3. x \in Ids(M, p)
  BY <1>2 DEF ListGood, RowGood
<1> QED
  BY <1>3 DEF Ids

\* The state is always of its types: what a form or a transaction refers to is stored,
\* or is known to be gone.
THEOREM EditorTyped == EditorSpec => []EditorTypeOK
<1>1. ASSUME TypeIInv
      PROVE  EditorTypeOK
  <2>1. Maps(permGroups) \in SUBSET Map
    BY <1>1, GroupsParts DEF TypeIInv
  <2>2. \A a \in Admin : form[a] # Closed =>
          form[a] \in Form /\ IdsShown(form[a]) \ (Gone \cup {New}) \subseteq Maps(permGroups)
    BY <1>1, <2>1, IdsOfGoodList DEF TypeIInv, FormsGood, FormGood, IdsShown
  <2> QED
    BY <1>1, <2>2 DEF EditorTypeOK, TypeIInv, GroupsTyped, TxsGood, TxGood, Shape
<1> QED
  BY <1>1, TypeIInvHolds, PTL

-----------------------------------------------------------------------------
(* A transaction that no other has overtaken has seen what is stored, and    *)
(* writes what its request makes of that.                                    *)

FreshTx(c) ==
    /\ tx[c].seen = Maps(permGroups)
    /\ tx[c].op = "save" => tx[c].writes = SaveResult(c)
    /\ tx[c].op # "save" => tx[c].writes \in Results(tx[c].op, c, tx[c].asked)
Fresh == \A c \in Admin \cup Request : tx[c] # Idle /\ ~tx[c].overtaken => FreshTx(c)

LEMMA FreshKept ==
  ASSUME NEW c, FreshTx(c), tx'[c] = tx[c], UNCHANGED permGroups,
         tx[c].op = "save" => form'[c] = form[c]
  PROVE  FreshTx(c)'
<1>1. tx[c].op = "save" => SaveResult(c)' = SaveResult(c)
  BY DEF SaveResult, RowStored
<1>2. \A op, asked : Results(op, c, asked)' = Results(op, c, asked)
  BY DEF Results, GrantResult, ReplaceResult, RevokeResult, Found
<1> QED
  BY <1>1, <1>2 DEF FreshTx

LEMMA FreshStep ==
  ASSUME TypeIInv, Fresh, [EditorNext]_editorVars
  PROVE  Fresh'
<1>1. CASE UNCHANGED editorVars
  BY <1>1, FreshKept DEF editorVars, Fresh
<1>2. ASSUME NEW a \in Admin, tx[a] = Idle, NEW f, form' = [form EXCEPT ![a] = f],
             UNCHANGED <<permGroups, tx>>
      PROVE  Fresh'
  <2>1. \A c \in Admin : c # a => form'[c] = form[c]
    BY <1>2 DEF TypeIInv, Shape
  <2> SUFFICES ASSUME NEW c \in Admin \cup Request, tx'[c] # Idle, ~tx'[c].overtaken
               PROVE  FreshTx(c)'
    BY DEF Fresh
  <2>2. tx'[c] = tx[c] /\ c # a /\ FreshTx(c)
    BY <1>2 DEF Fresh
  <2>3. tx[c].op = "save" => form'[c] = form[c]
    BY <1>2, <2>1, <2>2 DEF TypeIInv, TxsGood, TxGood
  <2> QED
    BY <1>2, <2>2, <2>3, FreshKept
<1>3. ASSUME NEW c \in Admin \cup Request, NEW t, tx' = [tx EXCEPT ![c] = t],
             UNCHANGED <<permGroups, form>>, t # Idle => FreshTx(c)'
      PROVE  Fresh'
  <2> SUFFICES ASSUME NEW d \in Admin \cup Request, tx'[d] # Idle, ~tx'[d].overtaken
               PROVE  FreshTx(d)'
    BY DEF Fresh
  <2>1. CASE d = c
    BY <1>3, <2>1 DEF TypeIInv, Shape
  <2>2. CASE d # c
    <3>1. tx'[d] = tx[d]
      BY <1>3, <2>2 DEF TypeIInv, Shape
    <3> QED
      BY <1>3, <3>1, FreshKept DEF Fresh
  <2> QED
    BY <2>1, <2>2
<1>4. ASSUME NEW a \in Admin, Open(a)
      PROVE  Fresh'
  BY <1>2, <1>4, OpenGood
<1>5. ASSUME NEW a \in Admin, EditRows(a) \/ ToggleAudit(a)
      PROVE  Fresh'
  <2>1. form[a] # Closed
    BY <1>5 DEF EditRows, ToggleAudit, Editing
  <2>2. FormGood(form[a], Maps(permGroups)) /\ Maps(permGroups) \in SUBSET Map
    BY <2>1, GroupsParts DEF TypeIInv, FormsGood
  <2> QED
    BY <1>2, <1>5, <2>2, FormEdited
<1>6. ASSUME NEW a \in Admin, Leave(a)
      PROVE  Fresh'
  BY <1>2, <1>6 DEF Leave, Editing
<1>7. ASSUME NEW a \in Admin, Save(a)
      PROVE  Fresh'
  <2>1. PICK t \in Tx(a) : /\ tx' = [tx EXCEPT ![a] = t] /\ t.op = "save"
                           /\ t.seen = Maps(permGroups) /\ t.writes = SaveResult(a)
    BY <1>7, SaveBegins
  <2>2. UNCHANGED <<permGroups, form>>
    BY <1>7, SaveBegins
  <2>3. tx'[a] = t
    BY <2>1 DEF TypeIInv, Shape
  <2>4. SaveResult(a)' = SaveResult(a)
    BY <2>2 DEF SaveResult, RowStored
  <2>5. FreshTx(a)'
    BY <2>1, <2>2, <2>3, <2>4 DEF FreshTx
  <2> QED
    BY <1>3, <2>1, <2>2, <2>5
<1>8. ASSUME NEW r \in Request, Ask(r)
      PROVE  Fresh'
  <2>1. PICK t \in Tx(r) : /\ tx' = [tx EXCEPT ![r] = t]
                           /\ t.op \in {"grant", "replace", "revoke"}
                           /\ t.seen = Maps(permGroups)
                           /\ t.writes \in Results(t.op, r, t.asked)
    BY <1>8, RequestBegins
  <2>2. UNCHANGED <<permGroups, form>>
    BY <1>8, RequestBegins
  <2>3. tx'[r] = t /\ t.op # "save"
    BY <2>1 DEF TypeIInv, Shape
  <2>4. \A op, asked : Results(op, r, asked)' = Results(op, r, asked)
    BY <2>2 DEF Results, GrantResult, ReplaceResult, RevokeResult, Found
  <2>5. FreshTx(r)'
    BY <2>1, <2>2, <2>3, <2>4 DEF FreshTx
  <2> QED
    BY <1>3, <2>1, <2>2, <2>5
<1>9. ASSUME NEW c \in Admin \cup Request, Ends(c)
      PROVE  Fresh'
  <2>1. Commit(c)
    BY <1>9, FormsAfter
  <2>2. \A d \in Admin \cup Request : tx'[d] # Idle => tx'[d].overtaken
    <3> SUFFICES ASSUME NEW d \in Admin \cup Request, tx'[d] # Idle
                 PROVE  tx'[d].overtaken
      OBVIOUS
    <3>1. d # c /\ tx[d] # Idle /\ tx'[d] = Overtaken(tx[d], Deleted(c))
      BY <2>1, TxsAfter
    <3> QED
      BY <3>1, OvertakenTx
  <2> QED
    BY <2>2 DEF Fresh
<1>10. ASSUME NEW c \in Admin \cup Request, Rollback(c)
       PROVE  Fresh'
  BY <1>3, <1>10 DEF Rollback
<1> QED
  BY <1>1, <1>4, <1>5, <1>6, <1>7, <1>8, <1>9, <1>10, EditorSteps

LEMMA FreshHolds == EditorSpec => [](TypeIInv /\ Fresh)
<1>1. EditorInit => TypeIInv /\ Fresh
  BY InitTyped DEF EditorInit, Fresh
<1>2. TypeIInv /\ Fresh /\ [EditorNext]_editorVars => (TypeIInv /\ Fresh)'
  BY StepTyped, FreshStep
<1> QED
  BY <1>1, <1>2, PTL DEF EditorSpec

\* What is stored after the commit of a transaction that no other has overtaken.
LEMMA FreshCommit ==
  ASSUME TypeIInv, Fresh, NEW c \in Admin \cup Request, Commit(c), ~tx[c].overtaken
  PROVE  /\ FreshTx(c)
         /\ permGroups' = {{CommittedMap(c, map) : map \in H} : H \in tx[c].writes} \ {{}}
         /\ \A map \in Maps(tx[c].writes) :
                /\ CommittedMap(c, map).who = map.who /\ CommittedMap(c, map).perm = map.perm
                /\ PairOf(CommittedMap(c, map)) = PairOf(map)
                /\ map \in Map => CommittedMap(c, map) = map
<1> DEFINE new == {{CommittedMap(c, map) : map \in G} : G \in tx[c].writes}
<1>1. tx[c] # Idle /\ CopiesLeft(c) /\ tx[c] \in Tx(c)
  BY DEF Commit, TypeIInv, TxsGood, TxGood
<1>2. FreshTx(c)
  BY <1>1 DEF Fresh
<1>3. {G \ tx[c].seen : G \in permGroups} \subseteq {{}}
  BY <1>2 DEF FreshTx, Maps
<1>4. permGroups' = ({G \ tx[c].seen : G \in permGroups} \cup new) \ {{}}
  BY DEF Commit
<1> HIDE DEF new
<1>5. permGroups' = new \ {{}}
  BY <1>3, <1>4
<1> QED
  BY <1>1, <1>2, <1>5, CommittedParts DEF new

LEMMA MoreThanOne ==
  ASSUME NEW S, IsFiniteSet(S), NEW x \in S, NEW y \in S, x # y
  PROVE  Cardinality(S) > 1
<1>1. IsFiniteSet({x}) /\ Cardinality({x}) = 1
  BY FS_Singleton
<1>2. Cardinality({x} \cup {y}) = 2
  BY <1>1, FS_AddElement
<1>3. {x} \cup {y} \in SUBSET S
  OBVIOUS
<1>4. Cardinality({x} \cup {y}) <= Cardinality(S) /\ Cardinality(S) \in Nat
  BY <1>3, FS_Subset, FS_CardinalityType
<1> QED
  BY <1>2, <1>4

\* Only a commit changes what is stored.
LEMMA StoredChanges ==
  ASSUME TypeIInv, [EditorNext]_editorVars, permGroups' # permGroups
  PROVE  \E c \in Admin \cup Request : Ends(c)
<1>1. ~UNCHANGED editorVars
  BY DEF editorVars
<1>2. \A a \in Admin : ~Open(a) /\ ~Leave(a) /\ ~EditRows(a) /\ ~ToggleAudit(a)
  BY DEF Open, Leave, EditRows, ToggleAudit, EditForm
<1>3. \A a \in Admin : ~Save(a)
  BY SaveBegins
<1>4. \A r \in Request : ~Ask(r)
  BY RequestBegins
<1>5. \A c \in Admin \cup Request : ~Rollback(c)
  BY DEF Rollback
<1> QED
  BY <1>1, <1>2, <1>3, <1>4, <1>5, EditorSteps

\* After a revocation nobody has what it took away, unless it was stored twice or
\* another transaction was committed meanwhile: the revocation deletes one perm map of
\* each pair that it names, and updatePermGroup brings none of them back.
THEOREM RevokeTakes == EditorSpec => RevokeTakesAway
<1>1. ASSUME TypeIInv, Fresh, [EditorNext]_editorVars, NEW r \in Request,
             tx[r] # Idle, tx'[r] = Idle, permGroups' # permGroups, tx[r].op = "revoke",
             NEW pair \in tx[r].asked \cap Granted(permGroups'), ~tx[r].overtaken
      PROVE  Cardinality({m \in tx[r].seen : PairOf(m) = pair}) > 1
  <2>1. PICK c \in Admin \cup Request : Ends(c)
    BY <1>1, StoredChanges
  <2>2. Commit(c)
    BY <1>1, <2>1, FormsAfter
  <2>3. c = r
    BY <1>1, <2>2, TxsAfter
  <2>4. /\ FreshTx(r)
        /\ permGroups' = {{CommittedMap(r, map) : map \in H} : H \in tx[r].writes} \ {{}}
        /\ \A map \in Maps(tx[r].writes) : map \in Map => CommittedMap(r, map) = map
    BY <1>1, <2>2, <2>3, FreshCommit
  <2>5. Maps(permGroups) \in SUBSET Map
    BY <1>1, GroupsParts DEF TypeIInv
  <2>6. PICK D \in Found(tx[r].asked) : tx[r].writes \in Regroupings(Maps(permGroups) \ D)
    BY <1>1, <2>4 DEF FreshTx, Results, RevokeResult
  <2>7. \A G \in tx[r].writes : G \subseteq Maps(permGroups) \ D
    <3>1. Maps(permGroups) \ D \in SUBSET (Map \cup Created(r))
      BY <2>5
    <3> QED
      BY <2>6, <3>1, Regrouped
  <2>8. Maps(permGroups') \subseteq Maps(permGroups) \ D
    <3> SUFFICES ASSUME NEW m \in Maps(permGroups')
                 PROVE  m \in Maps(permGroups) \ D
      OBVIOUS
    <3>1. PICK H \in tx[r].writes : m \in {CommittedMap(r, map) : map \in H}
      BY <2>4 DEF Maps
    <3>2. PICK map \in H : m = CommittedMap(r, map)
      BY <3>1
    <3>3. map \in Maps(tx[r].writes) /\ map \in Maps(permGroups) \ D
      BY <2>7, <3>1, <3>2 DEF Maps
    <3> QED
      BY <2>4, <2>5, <3>2, <3>3
  <2>9. PICK m \in Maps(permGroups) \ D : PairOf(m) = pair
    BY <2>8 DEF Granted
  <2>10. pair \in tx[r].asked \cap Granted(permGroups)
    BY <2>9 DEF Granted
  <2>11. PICK d \in D : PairOf(d) = pair
    BY <2>10 DEF Found
  <2>12. d \in Maps(permGroups)
    BY DEF Found
  <2> DEFINE S == {n \in tx[r].seen : PairOf(n) = pair}
  <2>13. m \in S /\ d \in S /\ m # d
    BY <2>4, <2>9, <2>11, <2>12 DEF FreshTx
  <2>14. S \in SUBSET Map
    BY <2>4, <2>5 DEF FreshTx
  <2> HIDE DEF S
  <2>15. IsFiniteSet(S)
    BY <2>14, MapFinite, FS_Subset
  <2>16. Cardinality(S) > 1
    BY <2>13, <2>15, MoreThanOne
  <2> QED
    BY <2>16 DEF S
<1>2. TypeIInv /\ Fresh /\ [EditorNext]_editorVars =>
        [\A r \in Request :
            (tx[r] # Idle /\ tx'[r] = Idle /\ permGroups' # permGroups /\ tx[r].op = "revoke")
                => \A pair \in tx[r].asked \cap Granted(permGroups') :
                    \/ tx[r].overtaken
                    \/ Cardinality({m \in tx[r].seen : PairOf(m) = pair}) > 1]_editorVars
  BY <1>1
<1> QED
  BY <1>2, FreshHolds, PTL DEF EditorSpec, RevokeTakesAway

-----------------------------------------------------------------------------
(* Where no transaction raced another, each pair is stored once and nobody   *)
(* is in two permGroups, or in two rows of a form.                           *)

Orderly ==
    ~raced => /\ Apart(permGroups) /\ Unique(permGroups)
              /\ \A a \in Admin : form[a] # Closed => FormApart(form[a])

LEMMA OrderlyCommit ==
  ASSUME TypeIInv, Fresh, Orderly, NEW c \in Admin \cup Request, Ends(c), ~raced'
  PROVE  /\ Apart(permGroups') /\ Unique(permGroups')
         /\ ~stale' => \A G \in permGroups' : Full(G)
<1>1. Commit(c) /\ ~raced /\ ~tx[c].overtaken
  <2>1. Commit(c)
    BY FormsAfter
  <2> QED
    BY <2>1 DEF Commit
<1>2. Apart(permGroups) /\ Unique(permGroups)
      /\ \A a \in Admin : form[a] # Closed => FormApart(form[a])
  BY <1>1 DEF Orderly
<1>3. /\ FreshTx(c)
      /\ permGroups' = {{CommittedMap(c, map) : map \in H} : H \in tx[c].writes} \ {{}}
      /\ \A map \in Maps(tx[c].writes) :
             /\ CommittedMap(c, map).who = map.who /\ CommittedMap(c, map).perm = map.perm
             /\ PairOf(CommittedMap(c, map)) = PairOf(map)
  BY <1>1, FreshCommit
<1>4. TxGood(c) /\ tx[c] \in Tx(c)
  BY <1>1 DEF Commit, TypeIInv, TxsGood, TxGood
<1>5. /\ Apart(tx[c].writes) /\ Unique(tx[c].writes)
      /\ ~stale' => \A H \in tx[c].writes : Full(H)
  <2>1. CASE c \in Admin
    <3>1. CommitSave(c) /\ tx[c].writes = SaveResult(c) /\ form[c] # Closed
      BY <1>3, <1>4, <2>1, EditorAssumption DEF Ends, FreshTx, TxGood
    <3>2. FormGood(form[c], Maps(permGroups)) /\ Maps(permGroups) \in SUBSET Map
      BY <2>1, <3>1, GroupsParts DEF TypeIInv, FormsGood
    <3>3. ~stale' => Gone \cap IdsSent(form[c]) = {}
      BY <3>1 DEF CommitSave
    <3> QED
      BY <1>2, <2>1, <3>1, <3>2, <3>3, SaveWrites
  <2>2. CASE c \notin Admin
    <3>1. tx[c].op \in {"grant", "replace", "revoke"} /\ tx[c].asked \in SUBSET Pair
      BY <1>4, <2>2 DEF TxGood, Tx
    <3>2. tx[c].writes \in Results(tx[c].op, c, tx[c].asked)
      BY <1>3, <3>1 DEF FreshTx
    <3>3. permGroups \in SUBSET SUBSET Map
      BY GroupsParts DEF TypeIInv
    <3> QED
      BY <1>2, <2>2, <3>1, <3>2, <3>3, RequestWrites
  <2> QED
    BY <2>1, <2>2
<1>6. \A H \in tx[c].writes : \A map \in H : map \in Maps(tx[c].writes)
  BY DEF Maps
<1>7. \A G \in permGroups' : \E H \in tx[c].writes :
        /\ G = {CommittedMap(c, map) : map \in H}
        /\ \A m \in G : \E map \in H :
             m = CommittedMap(c, map) /\ m.who = map.who /\ m.perm = map.perm
               /\ PairOf(m) = PairOf(map)
        /\ \A map \in H : \E m \in G : m.who = map.who /\ m.perm = map.perm
  <2> SUFFICES ASSUME NEW G \in permGroups'
               PROVE  \E H \in tx[c].writes :
                        /\ G = {CommittedMap(c, map) : map \in H}
                        /\ \A m \in G : \E map \in H :
                             m = CommittedMap(c, map) /\ m.who = map.who /\ m.perm = map.perm
                               /\ PairOf(m) = PairOf(map)
                        /\ \A map \in H : \E m \in G : m.who = map.who /\ m.perm = map.perm
    OBVIOUS
  <2>1. PICK H \in tx[c].writes : G = {CommittedMap(c, map) : map \in H}
    BY <1>3
  <2>2. \A map \in H : CommittedMap(c, map) \in G
    BY <2>1
  <2>3. \A m \in G : \E map \in H : m = CommittedMap(c, map)
    BY <2>1
  <2> QED
    BY <1>3, <1>6, <2>1, <2>2, <2>3
<1>8. Apart(permGroups')
  <2> SUFFICES ASSUME NEW G \in permGroups', NEW H \in permGroups', G # H, NEW m \in G, NEW n \in H
               PROVE  m.who # n.who
    BY DEF Apart
  <2>1. PICK G0 \in tx[c].writes : G = {CommittedMap(c, map) : map \in G0}
                                  /\ \E map \in G0 : m.who = map.who
    BY <1>7
  <2>2. PICK H0 \in tx[c].writes : H = {CommittedMap(c, map) : map \in H0}
                                  /\ \E map \in H0 : n.who = map.who
    BY <1>7
  <2>3. G0 # H0
    BY <2>1, <2>2
  <2> QED
    BY <1>5, <2>1, <2>2, <2>3 DEF Apart
<1>9. Unique(permGroups')
  <2> SUFFICES ASSUME NEW m \in Maps(permGroups'), NEW n \in Maps(permGroups'),
                      PairOf(m) = PairOf(n)
               PROVE  m = n
    BY DEF Unique
  <2>1. PICK k \in Maps(tx[c].writes) : m = CommittedMap(c, k) /\ PairOf(m) = PairOf(k)
    BY <1>6, <1>7 DEF Maps
  <2>2. PICK l \in Maps(tx[c].writes) : n = CommittedMap(c, l) /\ PairOf(n) = PairOf(l)
    BY <1>6, <1>7 DEF Maps
  <2> QED
    BY <1>5, <2>1, <2>2 DEF Unique
<1>10. ASSUME ~stale', NEW G \in permGroups'
       PROVE  Full(G)
  <2>1. PICK H \in tx[c].writes :
          /\ \A m \in G : \E map \in H : m.who = map.who /\ m.perm = map.perm
          /\ \A map \in H : \E m \in G : m.who = map.who /\ m.perm = map.perm
    BY <1>7
  <2>2. Full(H)
    BY <1>5, <1>10
  <2> SUFFICES ASSUME NEW K \in {Group, User}, NEW m \in G, NEW n \in G, m.who \in K, n.who \in K
               PROVE  \E k \in G : k.who = m.who /\ k.perm = n.perm
    BY DEF Full
  <2>3. PICK x \in H, y \in H : m.who = x.who /\ n.perm = y.perm /\ n.who = y.who
    BY <2>1
  <2>4. PICK z \in H : z.who = x.who /\ z.perm = y.perm
    BY <2>2, <2>3 DEF Full
  <2> QED
    BY <2>1, <2>3, <2>4
<1> QED
  BY <1>8, <1>9, <1>10

LEMMA OrderlyStep ==
  ASSUME TypeIInv, Fresh, Orderly, [EditorNext]_editorVars
  PROVE  Orderly'
<1>1. CASE UNCHANGED editorVars
  BY <1>1 DEF editorVars, Orderly
<1>2. ASSUME NEW a \in Admin, NEW f, form' = [form EXCEPT ![a] = f],
             UNCHANGED <<permGroups, raced>>,
             Orderly /\ ~raced /\ f # Closed => FormApart(f)
      PROVE  Orderly'
  <2>1. \A b \in Admin : form'[b] = IF b = a THEN f ELSE form[b]
    BY <1>2 DEF TypeIInv, Shape
  <2> QED
    BY <1>2, <2>1 DEF Orderly
<1>3. ASSUME NEW a \in Admin, Open(a)
      PROVE  Orderly'
  BY <1>2, <1>3, OpenGood DEF Orderly
<1>4. ASSUME NEW a \in Admin, EditRows(a) \/ ToggleAudit(a)
      PROVE  Orderly'
  <2>1. form[a] # Closed
    BY <1>4 DEF EditRows, ToggleAudit, Editing
  <2>2. FormGood(form[a], Maps(permGroups)) /\ Maps(permGroups) \in SUBSET Map
    BY <2>1, GroupsParts DEF TypeIInv, FormsGood
  <2> QED
    BY <1>2, <1>4, <2>1, <2>2, FormEdited DEF Orderly
<1>5. ASSUME NEW a \in Admin, Leave(a)
      PROVE  Orderly'
  BY <1>2, <1>5 DEF Leave
<1>6. ASSUME NEW a \in Admin, Save(a)
      PROVE  Orderly'
  BY <1>6, SaveBegins DEF Orderly
<1>7. ASSUME NEW r \in Request, Ask(r)
      PROVE  Orderly'
  BY <1>7, RequestBegins DEF Orderly
<1>8. ASSUME NEW c \in Admin \cup Request, Ends(c)
      PROVE  Orderly'
  <2> SUFFICES ASSUME ~raced'
               PROVE  /\ Apart(permGroups') /\ Unique(permGroups')
                      /\ \A a \in Admin : form'[a] # Closed => FormApart(form'[a])
    BY DEF Orderly
  <2>1. Apart(permGroups') /\ Unique(permGroups')
    BY <1>8, OrderlyCommit
  <2>2. ~raced
    BY <1>8, FormsAfter DEF Commit
  <2>3. \A a \in Admin : form'[a] # Closed => FormApart(form'[a])
    BY <1>8, <2>2, FormsAfter DEF Orderly
  <2> QED
    BY <2>1, <2>3
<1>9. ASSUME NEW c \in Admin \cup Request, Rollback(c)
      PROVE  Orderly'
  BY <1>9 DEF Rollback, Orderly
<1> QED
  BY <1>1, <1>3, <1>4, <1>5, <1>6, <1>7, <1>8, <1>9, EditorSteps

OrderIInv == TypeIInv /\ Fresh /\ Orderly

LEMMA OrderIInvHolds == EditorSpec => []OrderIInv
<1>1. EditorInit => OrderIInv
  <2>1. EditorInit => Orderly
    BY DEF EditorInit, Orderly, Apart, Unique, Maps
  <2> QED
    BY <2>1, InitTyped DEF EditorInit, Fresh, OrderIInv
<1>2. OrderIInv /\ [EditorNext]_editorVars => OrderIInv'
  BY StepTyped, FreshStep, OrderlyStep DEF OrderIInv
<1> QED
  BY <1>1, <1>2, PTL DEF EditorSpec

\* A pair is stored twice only if two transactions created it at the same time: a grant
\* creates what it does not find, and the form a save sends has nobody in two rows.
THEOREM MapsOnce == EditorSpec => []NoDuplicateMaps
<1>1. OrderIInv => NoDuplicateMaps
  BY DEF OrderIInv, Orderly, Unique, NoDuplicateMaps
<1> QED
  BY <1>1, OrderIInvHolds, PTL

GroupsFull == ~raced /\ ~stale => \A G \in permGroups : Full(G)

LEMMA GroupsFullHolds == EditorSpec => []GroupsFull
<1>1. EditorInit => GroupsFull
  BY DEF EditorInit, GroupsFull
<1>2. OrderIInv /\ GroupsFull /\ [EditorNext]_editorVars => GroupsFull'
  <2> SUFFICES ASSUME OrderIInv, GroupsFull, [EditorNext]_editorVars
               PROVE  GroupsFull'
    OBVIOUS
  <2>1. TypeIInv /\ Fresh /\ Orderly
    BY DEF OrderIInv
  <2>2. CASE \E c \in Admin \cup Request : Ends(c)
    BY <2>1, <2>2, OrderlyCommit DEF GroupsFull
  <2>3. CASE ~\E c \in Admin \cup Request : Ends(c)
    <3>1. UNCHANGED permGroups
      BY <2>1, <2>3, StoredChanges
    <3>2. UNCHANGED <<raced, stale>>
      <4>1. \A a \in Admin : Open(a) \/ Leave(a) \/ EditRows(a) \/ ToggleAudit(a)
              => UNCHANGED <<raced, stale>>
        BY DEF Open, Leave, EditRows, ToggleAudit, EditForm
      <4>2. /\ \A a \in Admin : Save(a) => UNCHANGED <<raced, stale>>
            /\ \A r \in Request : Ask(r) => UNCHANGED <<raced, stale>>
        BY <2>1, SaveBegins, RequestBegins
      <4>3. \A c \in Admin \cup Request : Rollback(c) => UNCHANGED <<raced, stale>>
        BY DEF Rollback
      <4>4. UNCHANGED editorVars => UNCHANGED <<raced, stale>>
        BY DEF editorVars
      <4> QED
        BY <2>1, <2>3, <4>1, <4>2, <4>3, <4>4, EditorSteps
    <3> QED
      BY <3>1, <3>2 DEF GroupsFull
  <2> QED
    BY <2>2, <2>3
<1> QED
  BY <1>1, <1>2, OrderIInvHolds, PTL DEF EditorSpec

\* The rows of a form show what is granted, and nothing else, as long as no transaction
\* raced another and no form sent an id that was gone: a save stores the rows it is sent
\* completely, and updatePermGroup puts together only those who have the same types.
THEOREM FormShows == EditorSpec => []FormShowsWhatIsGranted
<1>1. GroupsFull => FormShowsWhatIsGranted
  <2> SUFFICES ASSUME GroupsFull, ~raced, ~stale, NEW G \in permGroups, NEW K \in {Group, User}
               PROVE  LET mine == {map \in G : map.who \in K}
                      IN {map.who : map \in mine} \X {map.perm : map \in mine}
                              = {PairOf(map) : map \in mine}
    BY DEF FormShowsWhatIsGranted
  <2> DEFINE mine == {map \in G : map.who \in K}
             product == {map.who : map \in mine} \X {map.perm : map \in mine}
             pairs == {PairOf(map) : map \in mine}
  <2>1. ASSUME NEW x \in product
        PROVE  x \in pairs
    <3>1. PICK m \in mine, n \in mine : x = <<m.who, n.perm>>
      OBVIOUS
    <3>2. PICK k \in G : k.who = m.who /\ k.perm = n.perm
      BY <3>1 DEF GroupsFull, Full
    <3>3. k \in mine /\ PairOf(k) = x
      BY <3>1, <3>2 DEF PairOf
    <3> QED
      BY <3>3
  <2>2. ASSUME NEW x \in pairs
        PROVE  x \in product
    BY DEF PairOf
  <2> QED
    BY <2>1, <2>2
<1> QED
  BY <1>1, GroupsFullHolds, PTL

-----------------------------------------------------------------------------
(* What the validation lets through.                                         *)

LEMMA LeastAndLast ==
  ASSUME NEW b \in Nat, NEW S \in SUBSET (1 .. b), S # {}
  PROVE  /\ Min(S) \in S /\ \A y \in S : Min(S) <= y
         /\ Max(S) \in S
<1> DEFINE T == {n \in Nat : \E x \in S : n = b - x}
           Less == OpToRel(<, Nat)
<1>1. \A x \in S : x \in Nat /\ b - x \in Nat
  OBVIOUS
<1>2. IsWellFoundedOn(Less, Nat)
  BY NatLessThanWellFounded DEF Less
<1>3. PICK x \in S : \A y \in S : ~(<<y, x>> \in Less)
  <2>1. S \subseteq Nat
    BY <1>1
  <2> HIDE DEF Less
  <2> QED
    BY <1>2, <2>1, WFMin
<1>4. \A y \in S : x <= y
  <2>1. S \subseteq Nat
    BY <1>1
  <2>2. \A y \in S : ~(y < x)
    BY <1>3, <2>1 DEF OpToRel
  <2> QED
    BY <2>1, <2>2
<1>5. PICK m \in T : \A n \in T : ~(<<n, m>> \in Less)
  <2>1. T \subseteq Nat /\ T # {}
    BY <1>1
  <2> HIDE DEF T, Less
  <2> QED
    BY <1>2, <2>1, WFMin
<1>6. \A n \in T : ~(n < m)
  BY <1>5 DEF OpToRel
<1>7. PICK z \in S : m = b - z
  OBVIOUS
<1>8. \A y \in S : z >= y
  <2>1. \A y \in S : b - y \in T
    BY <1>1
  <2>2. \A y \in S : ~(b - y < b - z)
    BY <1>6, <1>7, <2>1
  <2>3. \A y \in S : y \in Nat /\ z \in Nat
    BY <1>1
  <2> HIDE DEF T, Less
  <2> QED
    BY <2>2, <2>3
<1>9. Min(S) \in S /\ \A y \in S : Min(S) <= y
  BY <1>4 DEF Min
<1>10. Max(S) \in S
  BY <1>8 DEF Max
<1> QED
  BY <1>9, <1>10

NothingHalfFilled(f) ==
    /\ \A i \in DOMAIN f.groups : ~HalfFilled(f.groups[i])
    /\ \A i \in DOMAIN f.users : HalfFilled(f.users[i]) =>
            \E j \in 1 .. i - 1 : Empty(f.users[j])
SomethingComplete(f) ==
    \/ \E i \in DOMAIN f.groups : Complete(f.groups[i])
    \/ \E i \in DOMAIN f.users : Complete(f.users[i])

\* The row reported on is complete only if some row is, and half filled if the rows
\* looked at end with such a row.
LEMMA ReportParts ==
  ASSUME NEW K, NEW rows \in Seq(RowOf(K)), NEW I \in SUBSET DOMAIN rows
  PROVE  /\ Complete(ReportedRow(rows, I)) => \E i \in DOMAIN rows : Complete(rows[i])
         /\ Incomplete(rows, I) # {} =>
                \E i \in Incomplete(rows, I) :
                    /\ ReportedRow(rows, I) = rows[i]
                    /\ \A j \in Incomplete(rows, I) : i <= j
<1>1. DOMAIN rows = 1 .. Len(rows) /\ Len(rows) \in Nat
  OBVIOUS
<1>2. Incomplete(rows, I) \in SUBSET (1 .. Len(rows)) /\ I \in SUBSET (1 .. Len(rows))
  BY <1>1 DEF Incomplete
<1>3. CASE I = {}
  BY <1>3 DEF ReportedRow, Complete, EmptyRow, Incomplete
<1>4. CASE I # {} /\ Incomplete(rows, I) = {}
  <2>1. Max(I) \in I
    BY <1>1, <1>2, <1>4, LeastAndLast
  <2> QED
    BY <1>4, <2>1 DEF ReportedRow, LookedAtLast
<1>5. CASE Incomplete(rows, I) # {}
  <2>1. /\ Min(Incomplete(rows, I)) \in Incomplete(rows, I)
        /\ \A j \in Incomplete(rows, I) : Min(Incomplete(rows, I)) <= j
    BY <1>1, <1>2, <1>5, LeastAndLast
  <2>2. I # {}
    BY <1>5 DEF Incomplete
  <2>3. ReportedRow(rows, I) = rows[Min(Incomplete(rows, I))]
    BY <1>5, <2>2 DEF ReportedRow, LookedAtLast
  <2>4. ~Complete(ReportedRow(rows, I))
    BY <2>1, <2>3 DEF Incomplete
  <2> QED
    BY <2>1, <2>3, <2>4
<1> QED
  BY <1>3, <1>4, <1>5

LEMMA AcceptedParts ==
  ASSUME NEW f \in Form, Accepted(f)
  PROVE  NothingHalfFilled(f) /\ (f.audit \/ SomethingComplete(f))
<1>1. /\ f.groups \in Seq(RowOf(Group)) /\ f.users \in Seq(RowOf(User))
      /\ NonEmpty(f.groups) \in SUBSET DOMAIN f.groups
  BY FormParts DEF NonEmpty
<1>2. ~HalfFilled(GroupReport(f)) /\ ~HalfFilled(UserReport(f))
  BY DEF Accepted
<1>3. ASSUME NEW i \in DOMAIN f.groups
      PROVE  ~HalfFilled(f.groups[i])
  <2> SUFFICES ASSUME HalfFilled(f.groups[i])
               PROVE  FALSE
    OBVIOUS
  <2>1. i \in Incomplete(f.groups, NonEmpty(f.groups))
    BY DEF HalfFilled, Incomplete, NonEmpty
  <2>2. PICK j \in Incomplete(f.groups, NonEmpty(f.groups)) : GroupReport(f) = f.groups[j]
    BY <1>1, <2>1, ReportParts DEF GroupReport
  <2> QED
    BY <1>2, <2>2 DEF HalfFilled, Incomplete, NonEmpty
<1>4. ASSUME NEW i \in DOMAIN f.users, HalfFilled(f.users[i])
      PROVE  \E j \in 1 .. i - 1 : Empty(f.users[j])
  <2>1. i \in Incomplete(f.users, DOMAIN f.users)
    BY <1>4 DEF HalfFilled, Incomplete
  <2>2. PICK j \in Incomplete(f.users, DOMAIN f.users) :
          UserReport(f) = f.users[j] /\ j <= i
    BY <1>1, <2>1, ReportParts DEF UserReport
  <2>3. Empty(f.users[j]) /\ j # i
    BY <1>2, <1>4, <2>2 DEF HalfFilled, Incomplete
  <2>4. j \in 1 .. Len(f.users) /\ i \in 1 .. Len(f.users) /\ Len(f.users) \in Nat
    BY <1>1 DEF Incomplete
  <2>5. j \in 1 .. i - 1
    BY <2>2, <2>3, <2>4
  <2> QED
    BY <2>3, <2>5
<1>5. f.audit \/ SomethingComplete(f)
  BY <1>1, ReportParts DEF Accepted, GroupReport, UserReport, SomethingComplete
<1> QED
  BY <1>3, <1>4, <1>5 DEF NothingHalfFilled

\* It depends on the members and types of the rows only.
LEMMA AcceptedKept ==
  ASSUME NEW f, NEW g, f.users \in Seq(RowOf(User)),
         SameRows(f.groups, g.groups), SameRows(f.users, g.users)
  PROVE  /\ NothingHalfFilled(f) => NothingHalfFilled(g)
         /\ SomethingComplete(f) => SomethingComplete(g)
<1>1. /\ DOMAIN g.groups = DOMAIN f.groups /\ DOMAIN g.users = DOMAIN f.users
      /\ DOMAIN f.users = 1 .. Len(f.users) /\ Len(f.users) \in Nat
  BY DEF SameRows
<1>2. \A i \in DOMAIN f.groups :
        /\ Complete(f.groups[i]) <=> Complete(g.groups[i])
        /\ Empty(f.groups[i]) <=> Empty(g.groups[i])
  BY DEF SameRows, Complete, Empty
<1>3. \A i \in DOMAIN f.users :
        /\ Complete(f.users[i]) <=> Complete(g.users[i])
        /\ Empty(f.users[i]) <=> Empty(g.users[i])
  BY DEF SameRows, Complete, Empty
<1>4. \A i \in DOMAIN f.users : \A j \in 1 .. i - 1 : j \in DOMAIN f.users
  BY <1>1
<1> QED
  BY <1>1, <1>2, <1>3, <1>4 DEF NothingHalfFilled, SomethingComplete, HalfFilled

FormSound(f) == NothingHalfFilled(f) /\ (f.audit \/ SomethingComplete(f))
SavedSound == \A a \in Admin : tx[a] # Idle => FormSound(form[a])

LEMMA SavedSoundStep ==
  ASSUME TypeIInv, SavedSound, [EditorNext]_editorVars
  PROVE  SavedSound'
<1>1. CASE UNCHANGED editorVars
  BY <1>1 DEF editorVars, SavedSound
<1>2. ASSUME NEW a \in Admin, tx[a] = Idle, NEW f, form' = [form EXCEPT ![a] = f],
             UNCHANGED tx
      PROVE  SavedSound'
  <2>1. \A b \in Admin : b # a => form'[b] = form[b]
    BY <1>2 DEF TypeIInv, Shape
  <2> QED
    BY <1>2, <2>1 DEF SavedSound
<1>3. ASSUME NEW a \in Admin, Open(a)
      PROVE  SavedSound'
  BY <1>2, <1>3, OpenGood
<1>4. ASSUME NEW a \in Admin, EditRows(a) \/ ToggleAudit(a)
      PROVE  SavedSound'
  <2>1. form[a] # Closed
    BY <1>4 DEF EditRows, ToggleAudit, Editing
  <2>2. FormGood(form[a], Maps(permGroups)) /\ Maps(permGroups) \in SUBSET Map
    BY <2>1, GroupsParts DEF TypeIInv, FormsGood
  <2> QED
    BY <1>2, <1>4, <2>2, FormEdited
<1>5. ASSUME NEW a \in Admin, Leave(a)
      PROVE  SavedSound'
  BY <1>2, <1>5 DEF Leave, Editing
<1>6. ASSUME NEW a \in Admin, Save(a)
      PROVE  SavedSound'
  <2>1. Accepted(form[a]) /\ form[a] \in Form /\ form' = form
    BY <1>6, SaveBegins DEF TypeIInv, FormsGood, FormGood
  <2>2. FormSound(form[a])
    BY <2>1, AcceptedParts DEF FormSound
  <2>3. \A b \in Admin : b # a => tx'[b] = tx[b]
    BY <1>6, SaveBegins DEF TypeIInv, Shape
  <2> QED
    BY <2>1, <2>2, <2>3 DEF SavedSound
<1>7. ASSUME NEW r \in Request, Ask(r)
      PROVE  SavedSound'
  <2>1. r \notin Admin
    BY EditorAssumption
  <2>2. form' = form /\ \A b \in Admin : tx'[b] = tx[b]
    BY <1>7, <2>1, RequestBegins DEF TypeIInv, Shape
  <2> QED
    BY <2>2 DEF SavedSound
<1>8. ASSUME NEW c \in Admin \cup Request, Ends(c)
      PROVE  SavedSound'
  <2> SUFFICES ASSUME NEW a \in Admin, tx'[a] # Idle
               PROVE  FormSound(form'[a])
    BY DEF SavedSound
  <2>1. Commit(c)
    BY <1>8, FormsAfter
  <2>2. a # c /\ tx[a] # Idle
    BY <2>1, TxsAfter
  <2>3. FormSound(form[a]) /\ form[a] # Closed
    BY <2>2 DEF SavedSound, TypeIInv, TxsGood, TxGood
  <2>4. form[a].users \in Seq(RowOf(User))
    BY <2>3 DEF TypeIInv, FormsGood, FormGood, ListGood
  <2>5. /\ SameRows(form[a].groups, form'[a].groups) /\ SameRows(form[a].users, form'[a].users)
        /\ form'[a].audit = form[a].audit
    BY <1>8, <2>2, <2>3, FormsAfter
  <2> QED
    BY <2>3, <2>4, <2>5, AcceptedKept DEF FormSound
<1>9. ASSUME NEW c \in Admin \cup Request, Rollback(c)
      PROVE  SavedSound'
  <2>1. form' = form /\ \A a \in Admin : tx'[a] # Idle => tx[a] # Idle
    BY <1>9 DEF Rollback, TypeIInv, Shape
  <2> QED
    BY <2>1 DEF SavedSound
<1> QED
  BY <1>1, <1>3, <1>4, <1>5, <1>6, <1>7, <1>8, <1>9, EditorSteps

LEMMA SavedSoundHolds == EditorSpec => [](TypeIInv /\ SavedSound)
<1>1. EditorInit => TypeIInv /\ SavedSound
  BY InitTyped DEF EditorInit, SavedSound
<1>2. TypeIInv /\ SavedSound /\ [EditorNext]_editorVars => (TypeIInv /\ SavedSound)'
  BY StepTyped, SavedSoundStep
<1> QED
  BY <1>1, <1>2, PTL DEF EditorSpec

\* No row that is half filled is left out of a save silently, except in the list of
\* users, after an empty row: the validation stops at the first incomplete row, which it
\* reports on.
THEOREM NoneHalfFilledSaved == EditorSpec => []NothingHalfFilledIsSaved
<1>1. SavedSound => NothingHalfFilledIsSaved
  BY DEF SavedSound, FormSound, NothingHalfFilled, NothingHalfFilledIsSaved
<1> QED
  BY <1>1, SavedSoundHolds, PTL

\* A policy that is saved grants or audits something: an accepted form audits, or the
\* row reported on has a member and a type, which stay when ids of the form are gone.
THEOREM SavedDoesSomething == EditorSpec => []SavedPolicyDoesSomething
<1>1. ASSUME NEW M \in SUBSET Map, NEW f, FormGood(f, M), SomethingComplete(f)
      PROVE  Shown(f) # {}
  <2>1. PICK i \in DOMAIN RowsSent(f) : Complete(RowsSent(f)[i])
    <3>1. /\ \A i \in DOMAIN f.groups : i \in DOMAIN RowsSent(f) /\ RowsSent(f)[i] = f.groups[i]
          /\ \A i \in DOMAIN f.users : i + Len(f.groups) \in DOMAIN RowsSent(f)
                /\ RowsSent(f)[i + Len(f.groups)] = f.users[i]
      BY <1>1, RowsSentParts
    <3>2. CASE \E i \in DOMAIN f.groups : Complete(f.groups[i])
      BY <3>1, <3>2
    <3>3. CASE \E i \in DOMAIN f.users : Complete(f.users[i])
      <4>1. PICK i \in DOMAIN f.users : Complete(f.users[i])
        BY <3>3
      <4>2. /\ i + Len(f.groups) \in DOMAIN RowsSent(f)
            /\ RowsSent(f)[i + Len(f.groups)] = f.users[i]
        BY <3>1
      <4> QED
        BY <4>1, <4>2
    <3> QED
      BY <1>1, <3>2, <3>3 DEF SomethingComplete
  <2> DEFINE row == RowsSent(f)[i]
  <2>2. PICK w \in row.members, p \in DOMAIN row.ids : TRUE
    BY <2>1 DEF Complete
  <2>3. <<w, p>> \in {item.pair : item \in Sent(row)}
    <3>1. PICK item \in Sent(row) : item.pair = <<w, p>>
      <4> DEFINE sent == [pair |-> <<w, p>>,
              id |-> IF row.ids[p] # New /\ row.ids[p].who # w THEN New ELSE row.ids[p]]
      <4>1. sent \in Sent(row)
        BY DEF Sent
      <4> QED
        BY <4>1
    <3> QED
      BY <3>1
  <2> DEFINE pairs(j) == {item.pair : item \in Sent(RowsSent(f)[j])}
             all == {pairs(j) : j \in DOMAIN RowsSent(f)}
  <2>4. Shown(f) = UNION all
    BY DEF Shown
  <2>5. pairs(i) \in all
    OBVIOUS
  <2>6. <<w, p>> \in pairs(i)
    BY <2>3
  <2> HIDE DEF all, pairs
  <2> QED
    BY <2>4, <2>5, <2>6
<1>2. ASSUME TypeIInv, SavedSound, NEW a \in Admin, tx[a] # Idle
      PROVE  form[a].audit \/ Shown(form[a]) # {}
  <2>1. FormGood(form[a], Maps(permGroups)) /\ Maps(permGroups) \in SUBSET Map
    BY <1>2, GroupsParts DEF TypeIInv, TxsGood, TxGood, FormsGood
  <2>2. form[a].audit \/ SomethingComplete(form[a])
    BY <1>2 DEF SavedSound, FormSound
  <2> QED
    BY <1>1, <2>1, <2>2
<1>3. TypeIInv /\ SavedSound => SavedPolicyDoesSomething
  BY <1>2 DEF SavedPolicyDoesSomething
<1> QED
  BY <1>3, SavedSoundHolds, PTL

-----------------------------------------------------------------------------
(* PolicyPermissions, implemented: what a form shows.                        *)

InRow(row, x) == \E w \in row.members, p \in DOMAIN row.ids : x = <<w, p>>
InList(rows, x) == \E i \in DOMAIN rows : InRow(rows[i], x)

LEMMA ShownParts ==
  ASSUME NEW M \in SUBSET Map, NEW f, FormGood(f, M)
  PROVE  /\ \A x : x \in Shown(f) <=> InList(f.groups, x) \/ InList(f.users, x)
         /\ \A x : x \in Shown(f) <=> InList(RowsSent(f), x)
         /\ Shown(f) \subseteq Pair
<1> DEFINE pairs(i) == {item.pair : item \in Sent(RowsSent(f)[i])}
           all == {pairs(i) : i \in DOMAIN RowsSent(f)}
<1>1. \A row : \A x : x \in {item.pair : item \in Sent(row)} <=> InRow(row, x)
  <2> SUFFICES ASSUME NEW row, NEW x
               PROVE  x \in {item.pair : item \in Sent(row)} <=> InRow(row, x)
    OBVIOUS
  <2> DEFINE id(w, p) == IF row.ids[p] # New /\ row.ids[p].who # w THEN New ELSE row.ids[p]
  <2>1. Sent(row) = {[pair |-> <<w, p>>, id |-> id(w, p)] : w \in row.members, p \in DOMAIN row.ids}
    BY DEF Sent
  <2>2. ASSUME NEW item \in Sent(row)
        PROVE  InRow(row, item.pair)
    <3>1. PICK w \in row.members, p \in DOMAIN row.ids : item = [pair |-> <<w, p>>, id |-> id(w, p)]
      BY <2>1
    <3> HIDE DEF id
    <3> QED
      BY <3>1 DEF InRow
  <2>3. ASSUME NEW w \in row.members, NEW p \in DOMAIN row.ids, x = <<w, p>>
        PROVE  \E item \in Sent(row) : x = item.pair
    <3>1. [pair |-> <<w, p>>, id |-> id(w, p)] \in Sent(row)
      BY <2>1
    <3> HIDE DEF id
    <3>2. [pair |-> <<w, p>>, id |-> id(w, p)].pair = x
      BY <2>3
    <3> QED
      BY <3>1, <3>2
  <2> QED
    BY <2>2, <2>3 DEF InRow
<1>2. \A i : \A x : x \in pairs(i) <=> InRow(RowsSent(f)[i], x)
  BY <1>1
<1>3. Shown(f) = UNION all
  BY DEF Shown
<1> HIDE DEF pairs
<1>4. \A x : x \in Shown(f) <=> \E i \in DOMAIN RowsSent(f) : InRow(RowsSent(f)[i], x)
  BY <1>2, <1>3
<1> HIDE DEF all
<1>5. \A x : x \in Shown(f) <=> InList(f.groups, x) \/ InList(f.users, x)
  <2> SUFFICES ASSUME NEW x
               PROVE  x \in Shown(f) <=> InList(f.groups, x) \/ InList(f.users, x)
    OBVIOUS
  <2>1. /\ \A i \in DOMAIN f.groups : i \in DOMAIN RowsSent(f) /\ RowsSent(f)[i] = f.groups[i]
        /\ \A i \in DOMAIN f.users : i + Len(f.groups) \in DOMAIN RowsSent(f)
               /\ RowsSent(f)[i + Len(f.groups)] = f.users[i]
        /\ \A i \in DOMAIN RowsSent(f) :
               \/ i \in DOMAIN f.groups /\ RowsSent(f)[i] = f.groups[i]
               \/ i - Len(f.groups) \in DOMAIN f.users
                   /\ RowsSent(f)[i] = f.users[i - Len(f.groups)]
    BY RowsSentParts
  <2> QED
    BY <1>4, <2>1 DEF InList
<1>6. ASSUME NEW x \in Shown(f)
      PROVE  x \in Pair
  <2>1. PICK i \in DOMAIN RowsSent(f) : InRow(RowsSent(f)[i], x)
    BY <1>4
  <2>2. PICK K \in {Group, User} : RowGood(RowsSent(f)[i], K, M)
    BY RowsSentGood
  <2>3. RowsSent(f)[i].members \subseteq K /\ DOMAIN RowsSent(f)[i].ids \subseteq Perm
    BY <2>2, RowParts DEF RowGood
  <2> QED
    BY <2>1, <2>3 DEF InRow, Pair, Who
<1> QED
  BY <1>4, <1>5, <1>6 DEF InList

\* A form shows the same after an id of it was found gone.
LEMMA ShownSame ==
  ASSUME NEW M \in SUBSET Map, NEW f, FormGood(f, M),
         NEW N \in SUBSET Map, NEW g, FormGood(g, N),
         SameRows(f.groups, g.groups), SameRows(f.users, g.users)
  PROVE  Shown(g) = Shown(f)
<1>1. ASSUME NEW rows, NEW others, SameRows(rows, others)
      PROVE  \A x : InList(rows, x) <=> InList(others, x)
  BY <1>1 DEF SameRows, InList, InRow
<1>2. \A x : x \in Shown(f) <=> InList(f.groups, x) \/ InList(f.users, x)
  BY ShownParts
<1>3. \A x : x \in Shown(g) <=> InList(g.groups, x) \/ InList(g.users, x)
  BY ShownParts
<1>4. \A x : x \in Shown(f) <=> x \in Shown(g)
  BY <1>1, <1>2, <1>3
<1> QED
  BY <1>4

\* A row made of a complete permGroup shows what is granted by it.
LEMMA RowShows ==
  ASSUME NEW G, Full(G), NEW K \in {Group, User}, NEW row \in RowsOf(G, K)
  PROVE  \A x : InRow(row, x) <=> \E map \in G : map.who \in K /\ x = PairOf(map)
<1> DEFINE mine == {map \in G : map.who \in K}
           perms == {map.perm : map \in mine}
<1>1. PICK f \in [perms -> mine] : row = [members |-> {map.who : map \in mine}, ids |-> f]
  BY DEF RowsOf
<1>2. row.members = {map.who : map \in mine} /\ DOMAIN row.ids = perms
  BY <1>1
<1>3. ASSUME NEW x, InRow(row, x)
      PROVE  \E map \in G : map.who \in K /\ x = PairOf(map)
  <2>1. PICK m \in mine, n \in mine : x = <<m.who, n.perm>>
    BY <1>2, <1>3 DEF InRow
  <2>2. PICK k \in G : k.who = m.who /\ k.perm = n.perm
    BY DEF Full
  <2> QED
    BY <2>1, <2>2 DEF PairOf
<1>4. ASSUME NEW map \in G, map.who \in K
      PROVE  InRow(row, PairOf(map))
  BY <1>2, <1>4 DEF InRow, PairOf
<1> QED
  BY <1>3, <1>4

\* A list that a form opens with shows what is granted to those it is for.
LEMMA ListShows ==
  ASSUME permGroups \in SUBSET SUBSET Map, \A G \in permGroups : Full(G),
         NEW K \in {Group, User}, NEW rows \in Lists(K)
  PROVE  \A x : InList(rows, x) <=>
                    \E map \in Maps(permGroups) : map.who \in K /\ x = PairOf(map)
<1> DEFINE groups == {G \in permGroups : \E map \in G : map.who \in K}
           Picks == {f \in [groups -> UNION {RowsOf(G, K) : G \in groups}] :
                        \A G \in groups : f[G] \in RowsOf(G, K)}
<1>1. CASE groups = {}
  <2>1. rows = <<EmptyRow>>
    BY <1>1 DEF Lists
  <2>2. \A x : ~InList(rows, x)
    BY <2>1 DEF InList, InRow, EmptyRow
  <2>3. \A map \in Maps(permGroups) : map.who \notin K
    BY <1>1 DEF Maps
  <2> QED
    BY <2>2, <2>3
<1>2. CASE groups # {}
  <2>1. rows \in UNION {SetToSeqs({pick[G] : G \in groups}) : pick \in Picks}
    BY <1>2, Zenon DEF Lists
  <2>2. PICK pick \in Picks : rows \in SetToSeqs({pick[G] : G \in groups})
    BY <2>1, Zenon
  <2> DEFINE S == {pick[G] : G \in groups}
  <2>3. IsFiniteSet(S)
    <3>1. IsFiniteSet(SUBSET Map)
      BY MapFinite, FS_SUBSET
    <3>2. groups \in SUBSET SUBSET Map
      OBVIOUS
    <3> HIDE DEF groups
    <3>3. IsFiniteSet(groups)
      BY <3>1, <3>2, FS_Subset
    <3>4. pick \in [groups -> S]
      BY <2>2
    <3>5. pick \in Surjection(groups, S)
      BY <3>4 DEF Surjection
    <3> HIDE DEF S
    <3> QED
      BY <3>3, <3>5, FS_Surjection
  <2>4. \A row \in S : \E i \in DOMAIN rows : rows[i] = row
    <3> DEFINE D == 1 .. Cardinality(S)
    <3>1. rows \in [D -> S] /\ \A i, j \in D : i # j => rows[i] # rows[j]
      BY <2>2 DEF SetToSeqs
    <3>2. Cardinality(S) \in Nat
      BY <2>3, FS_CardinalityType
    <3> HIDE DEF S
    <3>3. Cardinality(D) = Cardinality(S)
      BY <3>2, FS_Interval
    <3> HIDE DEF D
    <3>4. rows \in Injection(D, S)
      BY <3>1 DEF Injection, IsInjective
    <3>5. rows \in Surjection(D, S)
      BY <2>3, <3>3, <3>4, FS_Injection
    <3> QED
      BY <3>1, <3>5 DEF Surjection
  <2>5. \A i \in DOMAIN rows : rows[i] \in S
    <3>1. rows \in [1 .. Cardinality(S) -> S]
      BY <2>2 DEF SetToSeqs
    <3> QED
      BY <3>1
  <2>6. \A x : InList(rows, x) <=> \E G \in groups : InRow(pick[G], x)
    BY <2>4, <2>5 DEF InList
  <2>7. \A G \in groups : pick[G] \in RowsOf(G, K)
    BY <2>2
  <2>8. \A G \in groups : \A x :
          InRow(pick[G], x) <=> \E map \in G : map.who \in K /\ x = PairOf(map)
    BY <2>7, RowShows
  <2>9. \A map \in Maps(permGroups) : map.who \in K => \E G \in groups : map \in G
    BY DEF Maps
  <2>10. \A G \in groups : \A map \in G : map \in Maps(permGroups)
    BY DEF Maps
  <2> HIDE DEF groups
  <2> QED
    BY <2>6, <2>8, <2>9, <2>10
<1> QED
  BY <1>1, <1>2

-----------------------------------------------------------------------------
(* What a transaction makes of what is granted.                              *)

PairsOf(M) == {PairOf(map) : map \in M}

GivesOf(op, asked) == IF op = "revoke" THEN {} ELSE asked
TakesOf(op, asked) ==
    CASE op = "grant" -> {}
      [] op = "revoke" -> asked
      [] op = "replace" -> {pair \in Pair : \E named \in asked : pair[1] = named[1]}

\* A commit stores what the transaction writes in place of what it has seen.
LEMMA CommitGrants ==
  ASSUME TypeIInv, NEW c \in Admin \cup Request, Commit(c)
  PROVE  Granted(permGroups') = PairsOf((Maps(permGroups) \ tx[c].seen) \cup Maps(tx[c].writes))
<1> DEFINE old == {G \ tx[c].seen : G \in permGroups}
           new == {{CommittedMap(c, map) : map \in H} : H \in tx[c].writes}
<1>1. tx[c] \in Tx(c) /\ CopiesLeft(c)
  BY DEF Commit, TypeIInv, TxsGood, TxGood
<1>2. \A map \in Maps(tx[c].writes) : PairOf(CommittedMap(c, map)) = PairOf(map)
  BY <1>1, CommittedParts
<1>3. permGroups' = (old \cup new) \ {{}}
  BY DEF Commit
<1>4. ASSUME NEW m \in Maps(permGroups')
      PROVE  PairOf(m) \in PairsOf((Maps(permGroups) \ tx[c].seen) \cup Maps(tx[c].writes))
  <2>1. PICK G \in old \cup new : m \in G
    BY <1>3 DEF Maps
  <2>2. CASE G \in old
    BY <2>1, <2>2 DEF Maps, PairsOf
  <2>3. CASE G \in new
    <3>1. PICK H \in tx[c].writes : G = {CommittedMap(c, map) : map \in H}
      BY <2>3
    <3>2. PICK map \in H : m = CommittedMap(c, map)
      BY <2>1, <3>1
    <3>3. map \in Maps(tx[c].writes)
      BY <3>1 DEF Maps
    <3> QED
      BY <1>2, <3>2, <3>3 DEF PairsOf
  <2> QED
    BY <2>1, <2>2, <2>3
<1>5. ASSUME NEW m \in Maps(permGroups) \ tx[c].seen
      PROVE  PairOf(m) \in Granted(permGroups')
  <2>1. PICK G \in permGroups : m \in G \ tx[c].seen
    BY DEF Maps
  <2>2. G \ tx[c].seen \in permGroups'
    BY <1>3, <2>1
  <2> QED
    BY <2>1, <2>2 DEF Granted, Maps
<1>6. ASSUME NEW map \in Maps(tx[c].writes)
      PROVE  PairOf(map) \in Granted(permGroups')
  <2>1. PICK H \in tx[c].writes : map \in H
    BY DEF Maps
  <2>2. {CommittedMap(c, k) : k \in H} \in permGroups' /\ CommittedMap(c, map) \in {CommittedMap(c, k) : k \in H}
    BY <1>3, <2>1
  <2>3. CommittedMap(c, map) \in Maps(permGroups')
    BY <2>2 DEF Maps
  <2> QED
    BY <1>2, <2>3 DEF Granted
<1> QED
  BY <1>4, <1>5, <1>6 DEF Granted, PairsOf

\* A save writes what its form shows.
LEMMA SaveGrants ==
  ASSUME NEW a \in Admin, NEW M \in SUBSET Map, FormGood(form[a], M),
         Gone \cap IdsSent(form[a]) = {}
  PROVE  PairsOf(Maps(SaveResult(a))) = Shown(form[a])
<1> DEFINE sent == RowsSent(form[a])
<1>1. \A x : x \in Shown(form[a]) <=> \E i \in DOMAIN sent : InRow(sent[i], x)
  BY ShownParts DEF InList
<1>2. \A i \in DOMAIN sent :
        /\ \A m \in RowStored(a, i) : m.who \in sent[i].members /\ m.perm \in DOMAIN sent[i].ids
        /\ \A w \in sent[i].members, p \in DOMAIN sent[i].ids :
               \E m \in RowStored(a, i) : m.who = w /\ m.perm = p
  BY RowStoredParts
<1>3. \A m : m \in Maps(SaveResult(a)) <=> \E i \in DOMAIN sent : m \in RowStored(a, i)
  BY DEF SaveResult, Maps
<1> HIDE DEF sent
<1>4. \A x : x \in PairsOf(Maps(SaveResult(a))) <=> \E m \in Maps(SaveResult(a)) : x = <<m.who, m.perm>>
  BY DEF PairsOf, PairOf
<1>5. ASSUME NEW x \in PairsOf(Maps(SaveResult(a)))
      PROVE  \E i \in DOMAIN sent : InRow(sent[i], x)
  <2>1. PICK m \in Maps(SaveResult(a)) : x = <<m.who, m.perm>>
    BY <1>4
  <2>2. PICK i \in DOMAIN sent : m \in RowStored(a, i)
    BY <1>3
  <2> QED
    BY <1>2, <2>1, <2>2 DEF InRow
<1>6. ASSUME NEW i \in DOMAIN sent, NEW x, InRow(sent[i], x)
      PROVE  x \in PairsOf(Maps(SaveResult(a)))
  <2>1. PICK w \in sent[i].members, p \in DOMAIN sent[i].ids : x = <<w, p>>
    BY <1>6 DEF InRow
  <2>2. PICK m \in RowStored(a, i) : m.who = w /\ m.perm = p
    BY <1>2
  <2> QED
    BY <1>3, <1>4, <2>1, <2>2
<1> QED
  BY <1>1, <1>5, <1>6

\* updatePermGroup loses no perm map.
LEMMA RegroupedAll ==
  ASSUME NEW c, NEW M \in SUBSET (Map \cup Created(c)), NEW writes \in Regroupings(M)
  PROVE  Maps(writes) = M
<1> DEFINE W == {map.who : map \in M}
<1>1. PICK lead \in [W -> W] : writes = {{map \in M : lead[map.who] = v} : v \in Range(lead)}
  BY DEF Regroupings
<1>2. ASSUME NEW m \in M
      PROVE  m \in Maps(writes)
  <2>1. m.who \in W
    OBVIOUS
  <2>2. lead[m.who] \in Range(lead)
    BY <2>1 DEF Range
  <2>3. {map \in M : lead[map.who] = lead[m.who]} \in writes
    BY <1>1, <2>2
  <2> QED
    BY <2>3 DEF Maps
<1>3. Maps(writes) \subseteq M
  BY Regrouped DEF Maps
<1> QED
  BY <1>2, <1>3

\* A request gives and takes what it names, of what it has seen.
LEMMA RequestGrants ==
  ASSUME NEW r \in Request, permGroups \in SUBSET SUBSET Map, NEW asked \in SUBSET Pair,
         NEW op \in {"grant", "replace", "revoke"}, NEW writes \in Results(op, r, asked)
  PROVE  /\ \A m \in Maps(permGroups) \ Maps(writes) : PairOf(m) \in TakesOf(op, asked)
         /\ \A m \in Maps(writes) : m \in Maps(permGroups) \/ PairOf(m) \in GivesOf(op, asked)
         /\ GivesOf(op, asked) \subseteq PairsOf(Maps(writes))
         /\ op = "replace" \/ Unique(permGroups) =>
                PairsOf(Maps(writes)) \cap TakesOf(op, asked) \subseteq GivesOf(op, asked)
<1> DEFINE M0 == Maps(permGroups)
<1>1. M0 \subseteq Map /\ \A m \in M0 : m.who \in Who /\ m.perm \in Perm /\ PairOf(m) \in Pair
  <2>1. M0 \subseteq Map
    BY DEF Maps
  <2> QED
    BY <2>1 DEF Map, MapIn, PairOf, Pair
<1>2. ASSUME NEW pairs \in SUBSET Pair
      PROVE  /\ Creation(r, pairs) \subseteq Created(r)
             /\ PairsOf(Creation(r, pairs)) = pairs
  <2>1. /\ Creation(r, pairs) \subseteq Created(r)
        /\ \A m \in Creation(r, pairs) : PairOf(m) \in pairs
    BY CreationParts
  <2>2. ASSUME NEW pair \in pairs
        PROVE  \E m \in Creation(r, pairs) : PairOf(m) = pair
    <3>1. [who |-> pair[1], perm |-> pair[2], in |-> r, copy |-> 1] \in Creation(r, pairs)
      BY DEF Creation
    <3>2. pair = <<pair[1], pair[2]>>
      BY DEF Pair
    <3> QED
      BY <3>1, <3>2 DEF PairOf
  <2> QED
    BY <2>1, <2>2 DEF PairsOf
<1>3. CASE op = "grant"
  <2> DEFINE new == asked \ Granted(permGroups)
             M == M0 \cup Creation(r, new)
  <2>1. writes \in Regroupings(M)
    BY <1>3 DEF Results, GrantResult
  <2>2. new \in SUBSET Pair
    OBVIOUS
  <2>3. Granted(permGroups) = PairsOf(M0)
    BY DEF Granted, PairsOf
  <2>4. Creation(r, new) \subseteq Created(r) /\ PairsOf(Creation(r, new)) = new
    BY <1>2, <2>2
  <2>5. Maps(writes) = M
    <3>1. M \in SUBSET (Map \cup Created(r))
      BY <1>1, <2>4
    <3> QED
      BY <2>1, <3>1, RegroupedAll
  <2>6. GivesOf(op, asked) = asked /\ TakesOf(op, asked) = {}
    BY <1>3 DEF GivesOf, TakesOf
  <2> QED
    BY <2>3, <2>4, <2>5, <2>6 DEF PairsOf
<1>4. CASE op = "replace"
  <2> DEFINE left == {map \in M0 : \A pair \in asked : map.who # pair[1]}
             M == left \cup Creation(r, asked)
  <2>1. writes \in Regroupings(M)
    BY <1>4 DEF Results, ReplaceResult
  <2>2. Creation(r, asked) \subseteq Created(r) /\ PairsOf(Creation(r, asked)) = asked
    BY <1>2
  <2>3. Maps(writes) = M
    <3>1. M \in SUBSET (Map \cup Created(r))
      BY <1>1, <2>2
    <3> QED
      BY <2>1, <3>1, RegroupedAll
  <2>4. GivesOf(op, asked) = asked
        /\ TakesOf(op, asked) = {pair \in Pair : \E named \in asked : pair[1] = named[1]}
    BY <1>4 DEF GivesOf, TakesOf
  <2>5. \A m \in M0 : PairOf(m)[1] = m.who
    BY DEF PairOf
  <2>6. \A m \in M0 : m \in left <=> PairOf(m) \notin TakesOf(op, asked)
    BY <1>1, <2>4, <2>5
  <2> HIDE DEF left
  <2> QED
    BY <2>2, <2>3, <2>4, <2>6 DEF PairsOf, left
<1>5. CASE op = "revoke"
  <2>1. PICK D \in Found(asked) : writes \in Regroupings(M0 \ D)
    BY <1>5 DEF Results, RevokeResult
  <2>2. /\ \A m \in D : m \in M0 /\ PairOf(m) \in asked
        /\ PairsOf(D) = asked \cap PairsOf(M0)
    BY DEF Found, PairsOf, Granted
  <2>3. Maps(writes) = M0 \ D
    <3>1. M0 \ D \in SUBSET (Map \cup Created(r))
      BY <1>1
    <3> QED
      BY <2>1, <3>1, RegroupedAll
  <2>4. GivesOf(op, asked) = {} /\ TakesOf(op, asked) = asked
    BY <1>5 DEF GivesOf, TakesOf
  <2>5. ASSUME Unique(permGroups), NEW m \in M0 \ D, PairOf(m) \in asked
        PROVE  FALSE
    <3>1. PairOf(m) \in PairsOf(D)
      BY <2>2, <2>5 DEF PairsOf
    <3>2. PICK d \in D : PairOf(d) = PairOf(m)
      BY <3>1 DEF PairsOf
    <3> QED
      BY <2>2, <2>5, <3>2 DEF Unique
  <2> QED
    BY <1>5, <2>2, <2>3, <2>4, <2>5 DEF PairsOf
<1> QED
  BY <1>3, <1>4, <1>5

\* A request has seen, or gives, all it writes, and takes what it has seen and does not
\* write, also after others deleted some of that.
Confined ==
    \A r \in Request : tx[r] # Idle =>
        /\ \A m \in tx[r].seen \ Maps(tx[r].writes) : PairOf(m) \in TakesOf(tx[r].op, tx[r].asked)
        /\ \A m \in Maps(tx[r].writes) :
              m \in tx[r].seen \/ PairOf(m) \in GivesOf(tx[r].op, tx[r].asked)

LEMMA ConfinedStep ==
  ASSUME TypeIInv, Confined, [EditorNext]_editorVars
  PROVE  Confined'
<1>1. ASSUME \A r \in Request : tx'[r] = Idle \/ tx'[r] = tx[r]
      PROVE  Confined'
  BY <1>1 DEF Confined
<1>2. CASE UNCHANGED editorVars
  BY <1>1, <1>2 DEF editorVars
<1>3. CASE \E a \in Admin : Open(a) \/ EditRows(a) \/ ToggleAudit(a) \/ Leave(a)
  BY <1>1, <1>3 DEF Open, EditRows, ToggleAudit, EditForm, Leave
<1>4. ASSUME NEW a \in Admin, Save(a)
      PROVE  Confined'
  <2>1. PICK t : tx' = [tx EXCEPT ![a] = t]
    BY <1>4, SaveBegins
  <2>2. a \notin Request
    BY EditorAssumption
  <2> QED
    BY <1>1, <2>1, <2>2 DEF TypeIInv, Shape
<1>5. ASSUME NEW r \in Request, Ask(r)
      PROVE  Confined'
  <2>1. PICK t \in Tx(r) : /\ tx' = [tx EXCEPT ![r] = t]
                           /\ t.op \in {"grant", "replace", "revoke"}
                           /\ t.seen = Maps(permGroups)
                           /\ t.writes \in Results(t.op, r, t.asked)
    BY <1>5, RequestBegins
  <2>2. tx'[r] = t /\ \A s \in Request \ {r} : tx'[s] = tx[s]
    BY <2>1 DEF TypeIInv, Shape
  <2>3. t.asked \in SUBSET Pair /\ permGroups \in SUBSET SUBSET Map
    BY GroupsParts DEF Tx, TypeIInv
  <2>4. /\ \A m \in t.seen \ Maps(t.writes) : PairOf(m) \in TakesOf(t.op, t.asked)
        /\ \A m \in Maps(t.writes) : m \in t.seen \/ PairOf(m) \in GivesOf(t.op, t.asked)
    BY <2>1, <2>3, RequestGrants
  <2> QED
    BY <2>2, <2>4 DEF Confined
<1>6. ASSUME NEW c \in Admin \cup Request, Ends(c)
      PROVE  Confined'
  <2> SUFFICES ASSUME NEW r \in Request, tx'[r] # Idle
               PROVE  /\ \A m \in tx'[r].seen \ Maps(tx'[r].writes) :
                            PairOf(m) \in TakesOf(tx'[r].op, tx'[r].asked)
                      /\ \A m \in Maps(tx'[r].writes) :
                            m \in tx'[r].seen
                                \/ PairOf(m) \in GivesOf(tx'[r].op, tx'[r].asked)
    BY DEF Confined
  <2>1. Commit(c)
    BY <1>6, FormsAfter
  <2>2. tx[r] # Idle /\ tx'[r] = Overtaken(tx[r], Deleted(c))
    BY <2>1, TxsAfter
  <2> DEFINE D == Deleted(c)
  <2>4. /\ tx'[r].seen = tx[r].seen \ D /\ Maps(tx'[r].writes) = Maps(tx[r].writes) \ D
        /\ tx'[r].op = tx[r].op /\ tx'[r].asked = tx[r].asked
    BY <2>2, OvertakenTx
  <2> QED
    BY <2>2, <2>4 DEF Confined
<1>7. ASSUME NEW c \in Admin \cup Request, Rollback(c)
      PROVE  Confined'
  BY <1>1, <1>7 DEF Rollback, TypeIInv, Shape
<1> QED
  BY <1>2, <1>3, <1>4, <1>5, <1>6, <1>7, EditorSteps

-----------------------------------------------------------------------------
(* The steps of PolicyPermissions.                                           *)

LEMMA UnderWayParts ==
  ASSUME NEW c \in Admin \cup Request
  PROVE  /\ tx[c] # Idle => RequestOf(c) \in UnderWay
         /\ tx[c] = Idle => \A t \in UnderWay : t.by # c
  BY DEF UnderWay, RequestOf

LEMMA UnderWayBegins ==
  ASSUME TypeIInv, NEW c \in Admin \cup Request, tx[c] = Idle, NEW t \in Tx(c),
         tx' = [tx EXCEPT ![c] = t]
  PROVE  UnderWay' = UnderWay \cup
            {[by |-> c, op |-> t.op, asked |-> t.asked, overtaken |-> t.overtaken]}
<1>1. tx'[c] = t /\ t # Idle /\ \A d \in (Admin \cup Request) \ {c} : tx'[d] = tx[d]
  BY EditorAssumption DEF TypeIInv, Shape
<1>2. RequestOf(c)' = [by |-> c, op |-> t.op, asked |-> t.asked, overtaken |-> t.overtaken]
  BY <1>1 DEF RequestOf
<1>3. \A d \in (Admin \cup Request) \ {c} : RequestOf(d)' = RequestOf(d)
  BY <1>1 DEF RequestOf
<1>4. \A x : x \in UnderWay <=> \E d \in Admin \cup Request : tx[d] # Idle /\ x = RequestOf(d)
  BY DEF UnderWay
<1>5. \A x : x \in UnderWay' <=> \E d \in Admin \cup Request : tx'[d] # Idle /\ x = RequestOf(d)'
  BY DEF UnderWay
<1> QED
  BY <1>1, <1>2, <1>3, <1>4, <1>5

LEMMA UnderWayStops ==
  ASSUME TypeIInv, NEW c \in Admin \cup Request, tx[c] # Idle, tx' = [tx EXCEPT ![c] = Idle]
  PROVE  UnderWay' = UnderWay \ {RequestOf(c)}
<1>1. tx'[c] = Idle /\ \A d \in (Admin \cup Request) \ {c} : tx'[d] = tx[d]
  BY DEF TypeIInv, Shape
<1>2. \A d \in (Admin \cup Request) \ {c} : RequestOf(d)' = RequestOf(d) /\ RequestOf(d) # RequestOf(c)
  BY <1>1 DEF RequestOf
<1>3. \A x : x \in UnderWay <=> \E d \in Admin \cup Request : tx[d] # Idle /\ x = RequestOf(d)
  BY DEF UnderWay
<1>4. \A x : x \in UnderWay' <=> \E d \in Admin \cup Request : tx'[d] # Idle /\ x = RequestOf(d)'
  BY DEF UnderWay
<1> QED
  BY <1>1, <1>2, <1>3, <1>4

LEMMA UnderWayEnds ==
  ASSUME TypeIInv, NEW c \in Admin \cup Request, Commit(c)
  PROVE  UnderWay' = {[t EXCEPT !.overtaken = TRUE] : t \in UnderWay \ {RequestOf(c)}}
<1>1. /\ tx'[c] = Idle
      /\ \A d \in (Admin \cup Request) \ {c} :
            \/ tx[d] = Idle /\ tx'[d] = Idle
            \/ tx[d] # Idle /\ tx'[d] = Overtaken(tx[d], Deleted(c)) /\ tx'[d] # Idle
  BY TxsAfter
<1>2. \A d \in (Admin \cup Request) \ {c} : tx[d] # Idle =>
        /\ RequestOf(d)' = [RequestOf(d) EXCEPT !.overtaken = TRUE]
        /\ RequestOf(d) # RequestOf(c)
  <2> SUFFICES ASSUME NEW d \in (Admin \cup Request) \ {c}, tx[d] # Idle
               PROVE  /\ RequestOf(d)' = [RequestOf(d) EXCEPT !.overtaken = TRUE]
                      /\ RequestOf(d) # RequestOf(c)
    OBVIOUS
  <2>2. tx'[d] = Overtaken(tx[d], Deleted(c))
    BY <1>1
  <2>3. tx'[d].op = tx[d].op /\ tx'[d].asked = tx[d].asked /\ tx'[d].overtaken = TRUE
    BY <2>2, OvertakenTx
  <2>4. RequestOf(d)' = [RequestOf(d) EXCEPT !.overtaken = TRUE]
    <3>1. PICK yes : yes = TRUE
      OBVIOUS
    <3>2. [RequestOf(d) EXCEPT !.overtaken = yes]
            = [by |-> d, op |-> tx[d].op, asked |-> tx[d].asked, overtaken |-> yes]
      BY DEF RequestOf
    <3>3. RequestOf(d)' = [by |-> d, op |-> tx'[d].op, asked |-> tx'[d].asked,
                           overtaken |-> tx'[d].overtaken]
      BY DEF RequestOf
    <3>4. [by |-> d, op |-> tx'[d].op, asked |-> tx'[d].asked, overtaken |-> tx'[d].overtaken]
            = [by |-> d, op |-> tx[d].op, asked |-> tx[d].asked, overtaken |-> yes]
      BY <2>3, <3>1
    <3> QED
      BY <3>1, <3>2, <3>3, <3>4, Zenon
  <2>5. RequestOf(d) # RequestOf(c)
    BY DEF RequestOf
  <2> QED
    BY <2>4, <2>5
<1>3. \A x : x \in UnderWay <=> \E d \in Admin \cup Request : tx[d] # Idle /\ x = RequestOf(d)
  BY DEF UnderWay
<1>4. \A x : x \in UnderWay' <=> \E d \in Admin \cup Request : tx'[d] # Idle /\ x = RequestOf(d)'
  BY DEF UnderWay
<1>5. ASSUME NEW x \in UnderWay'
      PROVE  x \in {[t EXCEPT !.overtaken = TRUE] : t \in UnderWay \ {RequestOf(c)}}
  <2>1. PICK d \in Admin \cup Request : tx'[d] # Idle /\ x = RequestOf(d)'
    BY <1>4
  <2>2. d # c /\ tx[d] # Idle
    BY <1>1, <2>1
  <2>3. RequestOf(d) \in UnderWay \ {RequestOf(c)} /\ x = [RequestOf(d) EXCEPT !.overtaken = TRUE]
    BY <1>2, <1>3, <2>1, <2>2
  <2> QED
    BY <2>3
<1>6. ASSUME NEW t \in UnderWay \ {RequestOf(c)}
      PROVE  [t EXCEPT !.overtaken = TRUE] \in UnderWay'
  <2>1. PICK d \in Admin \cup Request : tx[d] # Idle /\ t = RequestOf(d)
    BY <1>3
  <2>2. d # c
    BY <2>1
  <2>3. tx'[d] # Idle /\ [t EXCEPT !.overtaken = TRUE] = RequestOf(d)'
    BY <1>1, <1>2, <2>1, <2>2
  <2> QED
    BY <1>4, <2>3
<1> QED
  BY <1>5, <1>6

LEMMA ConfinedHolds == EditorSpec => []Confined
<1>1. EditorInit => Confined
  BY DEF EditorInit, Confined
<1>2. TypeIInv /\ Confined /\ [EditorNext]_editorVars => Confined'
  BY ConfinedStep
<1> QED
  BY <1>1, <1>2, TypeIInvHolds, PTL DEF EditorSpec

ShownAll == [a \in Admin |-> ShownTo(a)]

LEMMA FormShown ==
  ASSUME TypeIInv
  PROVE  \A a \in Admin : /\ form[a] # Closed => ShownTo(a) = Shown(form[a])
                          /\ ShownTo(a) \in SUBSET Pair
<1>1. Maps(permGroups) \in SUBSET Map
  BY GroupsParts DEF TypeIInv
<1>2. \A a \in Admin : form[a] # Closed => Shown(form[a]) \subseteq Pair
  BY <1>1, ShownParts DEF TypeIInv, FormsGood
<1> QED
  BY <1>2 DEF ShownTo

LEMMA FormReplaced ==
  ASSUME TypeIInv, NEW a \in Admin, NEW f, form' = [form EXCEPT ![a] = f],
         f = Closed \/ FormGood(f, Maps(permGroups))
  PROVE  /\ Permissions!OthersShown(a)
         /\ f = Closed => ShownTo(a)' = {} /\ OpenForms' = OpenForms \ {a}
         /\ f # Closed => ShownTo(a)' = Shown(f) /\ OpenForms' = OpenForms \cup {a}
         /\ ShownAll' = [ShownAll EXCEPT ![a] = ShownTo(a)']
<1>1. form'[a] = f /\ \A b \in Admin \ {a} : form'[b] = form[b]
  BY DEF TypeIInv, Shape
<1>2. /\ f = Closed => ShownTo(a)' = {}
      /\ f # Closed => ShownTo(a)' = Shown(f)
      /\ \A b \in Admin \ {a} : ShownTo(b)' = ShownTo(b)
  BY <1>1 DEF ShownTo
<1>3. f # Closed => Shown(f) \subseteq Pair
  BY ShownParts, GroupsParts DEF TypeIInv
<1>4. \A b \in Admin : ShownTo(b)' \in SUBSET Pair
  BY <1>2, <1>3, FormShown
<1>5. Permissions!OthersShown(a)
  BY <1>2, <1>4 DEF Permissions!OthersShown
<1>6. /\ f = Closed => OpenForms' = OpenForms \ {a}
      /\ f # Closed => OpenForms' = OpenForms \cup {a}
  BY <1>1 DEF OpenForms
<1>7. ShownAll' = [ShownAll EXCEPT ![a] = ShownTo(a)']
  BY <1>2 DEF ShownAll
<1> QED
  BY <1>2, <1>5, <1>6, <1>7

\* A form opens with what is granted.
LEMMA OpenImplements ==
  ASSUME TypeIInv, GroupsFull, NEW a \in Admin, Open(a)
  PROVE  Permissions!Open(a)
<1>1. PICK g \in Lists(Group), u \in Lists(User) :
        form' = [form EXCEPT ![a] = [groups |-> g, users |-> u, audit |-> auditOn, edits |-> 0]]
  BY DEF Open
<1> DEFINE f == [groups |-> g, users |-> u, audit |-> auditOn, edits |-> 0]
<1>2. form[a] = Closed /\ UNCHANGED <<permGroups, tx, raced, stale>>
  BY DEF Open
<1>3. permGroups \in SUBSET SUBSET Map /\ Maps(permGroups) \in SUBSET Map
  BY GroupsParts DEF TypeIInv
<1>4. FormGood(f, Maps(permGroups))
  <2>1. ListGood(g, Group, Maps(permGroups)) /\ ListGood(u, User, Maps(permGroups))
    BY <1>3, ListOpened
  <2>2. auditOn \in BOOLEAN /\ 0 \in 0 .. MaxEdits
    BY EditorAssumption DEF TypeIInv, Shape
  <2> QED
    BY <1>3, <2>1, <2>2, FormMade
<1>5. f # Closed
  BY <1>4, EditorAssumption DEF FormGood
<1>6. ~raced /\ ~stale => Shown(f) = Granted(permGroups)
  <2> SUFFICES ASSUME ~raced, ~stale
               PROVE  Shown(f) = Granted(permGroups)
    OBVIOUS
  <2>1. \A G \in permGroups : Full(G)
    BY DEF GroupsFull
  <2>2. \A x : x \in Shown(f) <=> InList(g, x) \/ InList(u, x)
    <3>1. f.groups = g /\ f.users = u
      OBVIOUS
    <3> HIDE DEF f
    <3> QED
      BY <1>3, <1>4, <3>1, ShownParts
  <2>3. /\ \A x : InList(g, x) <=> \E map \in Maps(permGroups) : map.who \in Group /\ x = PairOf(map)
        /\ \A x : InList(u, x) <=> \E map \in Maps(permGroups) : map.who \in User /\ x = PairOf(map)
    BY <1>3, <2>1, ListShows
  <2>4. \A map \in Maps(permGroups) : map.who \in Group \/ map.who \in User
    BY <1>3 DEF Map, MapIn, Who
  <2>5. \A x : x \in Granted(permGroups) <=> \E map \in Maps(permGroups) : x = PairOf(map)
    BY DEF Granted
  <2> HIDE DEF f
  <2> QED
    BY <2>2, <2>3, <2>4, <2>5
<1> HIDE DEF f
<1>7. /\ Permissions!OthersShown(a) /\ ShownTo(a)' = Shown(f)
      /\ OpenForms' = OpenForms \cup {a}
  BY <1>1, <1>4, <1>5, FormReplaced DEF f
<1>8. a \notin OpenForms
  BY <1>2 DEF OpenForms
<1>9. UNCHANGED <<Granted(permGroups), UnderWay, raced, stale>>
  BY <1>2 DEF UnderWay, RequestOf
<1>10. raced \/ stale \/ [b \in Admin |-> ShownTo(b)]'[a] = Granted(permGroups)
  BY <1>6, <1>7
<1> QED
  BY <1>7, <1>8, <1>9, <1>10 DEF Permissions!Open

LEMMA EditImplements ==
  ASSUME TypeIInv, NEW a \in Admin, EditRows(a) \/ ToggleAudit(a)
  PROVE  Permissions!Edit(a)
<1>1. form[a] # Closed /\ tx[a] = Idle
  BY DEF EditRows, ToggleAudit, Editing
<1>2. Maps(permGroups) \in SUBSET Map /\ FormGood(form[a], Maps(permGroups))
  BY <1>1, GroupsParts DEF TypeIInv, FormsGood
<1>3. PICK f : form' = [form EXCEPT ![a] = f] /\ FormGood(f, Maps(permGroups))
  BY <1>2, FormEdited
<1>4. UNCHANGED <<permGroups, tx, raced, stale>>
  BY <1>2, FormEdited
<1>5. f # Closed
  BY <1>3, EditorAssumption DEF FormGood
<1>6. Permissions!OthersShown(a) /\ OpenForms' = OpenForms \cup {a}
  BY <1>3, <1>5, FormReplaced
<1>7. a \in OpenForms /\ OpenForms' = OpenForms
  BY <1>1, <1>6 DEF OpenForms
<1>8. Permissions!Undisturbed(a)
  BY <1>1, UnderWayParts DEF Permissions!Undisturbed
<1>9. UNCHANGED <<Granted(permGroups), UnderWay, raced, stale>>
  BY <1>4 DEF UnderWay, RequestOf
<1> QED
  BY <1>6, <1>7, <1>8, <1>9 DEF Permissions!Edit

LEMMA LeaveImplements ==
  ASSUME TypeIInv, NEW a \in Admin, Leave(a)
  PROVE  Permissions!Leave(a)
<1>1. form[a] # Closed /\ tx[a] = Idle /\ form' = [form EXCEPT ![a] = Closed]
      /\ UNCHANGED <<permGroups, tx, raced, stale>>
  BY DEF Leave, Editing
<1>2. /\ ShownTo(a)' = {} /\ OpenForms' = OpenForms \ {a}
      /\ ShownAll' = [ShownAll EXCEPT ![a] = ShownTo(a)']
  BY <1>1, FormReplaced
<1>3. a \in OpenForms
  BY <1>1 DEF OpenForms
<1>4. Permissions!Undisturbed(a)
  BY <1>1, UnderWayParts DEF Permissions!Undisturbed
<1>5. UNCHANGED <<Granted(permGroups), UnderWay, raced, stale>>
  BY <1>1 DEF UnderWay, RequestOf
<1>6. ShownAll' = [ShownAll EXCEPT ![a] = {}]
  BY <1>2
<1> QED
  BY <1>2, <1>3, <1>4, <1>5, <1>6 DEF Permissions!Leave, ShownAll

LEMMA BeginImplements ==
  ASSUME TypeIInv, NEW c \in Admin \cup Request, tx[c] = Idle, NEW t \in Tx(c),
         t.overtaken = FALSE, tx' = [tx EXCEPT ![c] = t],
         UNCHANGED <<permGroups, form, raced, stale>>
  PROVE  Permissions!Begin(c, t.op, t.asked)
<1>1. UnderWay' = UnderWay \cup
            {[by |-> c, op |-> t.op, asked |-> t.asked, overtaken |-> FALSE]}
  BY UnderWayBegins, Zenon
<1>2. Permissions!Undisturbed(c)
  BY UnderWayParts DEF Permissions!Undisturbed
<1>3. UNCHANGED <<Granted(permGroups), OpenForms, [a \in Admin |-> ShownTo(a)], raced, stale>>
  BY DEF OpenForms, ShownTo
<1> QED
  BY <1>1, <1>2, <1>3 DEF Permissions!Begin

LEMMA SaveImplements ==
  ASSUME TypeIInv, NEW a \in Admin, Save(a)
  PROVE  Permissions!Save(a)
<1>1. PICK t \in Tx(a) : /\ tx' = [tx EXCEPT ![a] = t]
                         /\ t.op = "save" /\ t.asked = {} /\ t.overtaken = FALSE
  BY SaveBegins
<1>2. form[a] # Closed /\ tx[a] = Idle /\ UNCHANGED <<permGroups, form, raced, stale>>
  BY SaveBegins
<1>3. Permissions!Begin(a, t.op, t.asked)
  BY <1>1, <1>2, BeginImplements
<1>4. a \in OpenForms
  BY <1>2 DEF OpenForms
<1> QED
  BY <1>1, <1>3, <1>4 DEF Permissions!Save

LEMMA AskImplements ==
  ASSUME TypeIInv, NEW r \in Request, Ask(r)
  PROVE  Permissions!Ask(r)
<1>1. PICK t \in Tx(r) : /\ tx' = [tx EXCEPT ![r] = t]
                         /\ t.op \in {"grant", "replace", "revoke"} /\ t.overtaken = FALSE
  BY RequestBegins
<1>2. tx[r] = Idle /\ UNCHANGED <<permGroups, form, raced, stale>>
  BY RequestBegins
<1>3. Permissions!Begin(r, t.op, t.asked)
  BY <1>1, <1>2, BeginImplements
<1>4. t.asked \in SUBSET Pair
  BY DEF Tx
<1> QED
  BY <1>1, <1>3, <1>4 DEF Permissions!Ask

LEMMA RollbackImplements ==
  ASSUME TypeIInv, NEW c \in Admin \cup Request, Rollback(c)
  PROVE  RequestOf(c) \in UnderWay /\ Permissions!Rollback(RequestOf(c))
<1>1. /\ tx[c] # Idle /\ tx' = [tx EXCEPT ![c] = Idle]
      /\ UNCHANGED <<permGroups, form, raced, stale>>
  BY DEF Rollback
<1>2. RequestOf(c) \in UnderWay /\ UnderWay' = UnderWay \ {RequestOf(c)}
  BY <1>1, UnderWayParts, UnderWayStops
<1>3. UNCHANGED <<Granted(permGroups), OpenForms, [a \in Admin |-> ShownTo(a)], raced, stale>>
  BY <1>1 DEF OpenForms, ShownTo
<1> QED
  BY <1>2, <1>3 DEF Permissions!Rollback

\* A transaction that ends: no form but the one it saves shows anything else.
LEMMA EndImplements ==
  ASSUME TypeIInv, NEW c \in Admin \cup Request, Ends(c)
  PROVE  /\ RequestOf(c) \in UnderWay
         /\ Permissions!End(RequestOf(c))
         /\ OpenForms' = OpenForms \ {c}
         /\ \A a \in Admin : ShownTo(a)' = IF a = c THEN {} ELSE ShownTo(a)
<1>1. Commit(c)
  BY FormsAfter
<1>2. tx[c] # Idle /\ raced' = (raced \/ tx[c].overtaken)
  BY <1>1 DEF Commit
<1>3. RequestOf(c) \in UnderWay /\ RequestOf(c).overtaken = tx[c].overtaken
  BY <1>2, UnderWayParts DEF RequestOf
<1>4. UnderWay' = {[t EXCEPT !.overtaken = TRUE] : t \in UnderWay \ {RequestOf(c)}}
  BY <1>1, UnderWayEnds
<1>5. raced' = (raced \/ RequestOf(c).overtaken)
  BY <1>2, <1>3, Zenon
<1>6. Permissions!End(RequestOf(c))
  BY <1>4, <1>5, Zenon DEF Permissions!End
<1>7. OpenForms' = OpenForms \ {c}
  BY FormsAfter DEF OpenForms
<1>8. ASSUME NEW a \in Admin
      PROVE  ShownTo(a)' = IF a = c THEN {} ELSE ShownTo(a)
  <2>1. CASE form[a] = Closed \/ a = c
    <3>1. form'[a] = Closed
      BY <2>1, FormsAfter
    <3> QED
      BY <2>1, <3>1 DEF ShownTo
  <2>2. CASE form[a] # Closed /\ a # c
    <3>1. /\ form'[a] # Closed /\ FormGood(form'[a], Maps(permGroups'))
          /\ SameRows(form[a].groups, form'[a].groups)
          /\ SameRows(form[a].users, form'[a].users)
      BY <2>2, FormsAfter
    <3>2. FormGood(form[a], Maps(permGroups)) /\ Maps(permGroups) \in SUBSET Map
      BY <2>2, GroupsParts DEF TypeIInv, FormsGood
    <3>3. Maps(permGroups') \in SUBSET Map
      BY CommitTyped DEF TypeIInv, GroupsTyped, Maps
    <3>4. Shown(form'[a]) = Shown(form[a])
      BY <3>1, <3>2, <3>3, ShownSame
    <3> QED
      BY <2>2, <3>1, <3>4 DEF ShownTo
  <2> QED
    BY <2>1, <2>2
<1> QED
  BY <1>3, <1>6, <1>7, <1>8

\* What a request does to what is granted, whoever overtook it.
LEMMA RequestChanges ==
  ASSUME OrderIInv, Confined, NEW r \in Request, Ends(r)
  PROVE  LET op == tx[r].op
             asked == tx[r].asked
         IN  /\ Granted(permGroups) \ TakesOf(op, asked) \subseteq Granted(permGroups')
             /\ Granted(permGroups') \subseteq Granted(permGroups) \cup GivesOf(op, asked)
             /\ ~tx[r].overtaken => GivesOf(op, asked) \subseteq Granted(permGroups')
             /\ ~tx[r].overtaken /\ (raced => op = "replace")
                    => Granted(permGroups') \cap TakesOf(op, asked) \subseteq GivesOf(op, asked)
<1> DEFINE gives == GivesOf(tx[r].op, tx[r].asked)
           takes == TakesOf(tx[r].op, tx[r].asked)
           W == Maps(tx[r].writes)
           seen == tx[r].seen
<1>1. TypeIInv /\ Fresh /\ Orderly /\ Commit(r) /\ tx[r] # Idle
  BY FormsAfter DEF OrderIInv, Commit
<1>2. /\ tx[r] \in Tx(r) /\ seen \subseteq Maps(permGroups)
      /\ tx[r].op # "save"
  BY <1>1, EditorAssumption DEF TypeIInv, TxsGood, TxGood
<1>3. tx[r].op \in {"grant", "replace", "revoke"} /\ tx[r].asked \in SUBSET Pair
  BY <1>2 DEF Tx
<1>4. Granted(permGroups') = PairsOf((Maps(permGroups) \ seen) \cup W)
  BY <1>1, CommitGrants
<1>5. /\ \A m \in seen \ W : PairOf(m) \in takes
      /\ \A m \in W : m \in seen \/ PairOf(m) \in gives
  BY <1>1 DEF Confined
<1>6. ASSUME ~tx[r].overtaken
      PROVE  /\ Granted(permGroups') = PairsOf(W)
             /\ gives \subseteq PairsOf(W)
             /\ tx[r].op = "replace" \/ Unique(permGroups) => PairsOf(W) \cap takes \subseteq gives
  <2>1. seen = Maps(permGroups) /\ tx[r].writes \in Results(tx[r].op, r, tx[r].asked)
    BY <1>1, <1>2, <1>6 DEF Fresh, FreshTx
  <2>2. Granted(permGroups') = PairsOf(W)
    BY <1>4, <2>1 DEF PairsOf
  <2>3. permGroups \in SUBSET SUBSET Map
    BY <1>1, GroupsParts DEF TypeIInv
  <2> QED
    BY <1>3, <2>1, <2>2, <2>3, RequestGrants
<1>7. ~raced => Unique(permGroups)
  BY <1>1 DEF Orderly
<1>8. Granted(permGroups) = PairsOf(Maps(permGroups))
  BY DEF Granted, PairsOf
<1> HIDE DEF gives, takes, W, seen
<1>9. Granted(permGroups) \ takes \subseteq Granted(permGroups')
  BY <1>4, <1>5, <1>8 DEF PairsOf
<1>10. Granted(permGroups') \subseteq Granted(permGroups) \cup gives
  BY <1>2, <1>4, <1>5, <1>8 DEF PairsOf
<1>11. ~tx[r].overtaken => gives \subseteq Granted(permGroups')
  BY <1>6
<1>12. ~tx[r].overtaken /\ (raced => tx[r].op = "replace")
            => Granted(permGroups') \cap takes \subseteq gives
  BY <1>6, <1>7
<1> QED
  BY <1>9, <1>10, <1>11, <1>12 DEF gives, takes

LEMMA RequestImplements ==
  ASSUME OrderIInv, Confined, NEW r \in Request, Ends(r)
  PROVE  RequestOf(r) \in UnderWay /\ Permissions!EndRequest(RequestOf(r))
<1>1. TypeIInv
  BY DEF OrderIInv
<1>2. /\ RequestOf(r) \in UnderWay /\ Permissions!End(RequestOf(r))
      /\ OpenForms' = OpenForms \ {r}
      /\ \A a \in Admin : ShownTo(a)' = IF a = r THEN {} ELSE ShownTo(a)
  BY <1>1, EndImplements
<1>3. r \notin Admin /\ UNCHANGED stale /\ tx[r] # Idle
  BY EditorAssumption DEF Ends, CommitRequest, Commit
<1>4. UNCHANGED <<OpenForms, [a \in Admin |-> ShownTo(a)], stale>>
  BY <1>2, <1>3 DEF OpenForms
<1>5. /\ RequestOf(r).op = tx[r].op /\ RequestOf(r).asked = tx[r].asked
      /\ RequestOf(r).overtaken = tx[r].overtaken
  BY DEF RequestOf
<1>6. tx[r].op # "save"
  BY <1>1, <1>3 DEF TypeIInv, TxsGood, TxGood
<1>7. Permissions!Gives(RequestOf(r)) = GivesOf(tx[r].op, tx[r].asked)
  BY <1>5 DEF Permissions!Gives, GivesOf
<1>8. Permissions!Takes(RequestOf(r)) = TakesOf(tx[r].op, tx[r].asked)
  BY <1>5 DEF Permissions!Takes, TakesOf
<1>9. /\ Granted(permGroups) \ TakesOf(tx[r].op, tx[r].asked) \subseteq Granted(permGroups')
      /\ Granted(permGroups') \subseteq Granted(permGroups) \cup GivesOf(tx[r].op, tx[r].asked)
      /\ ~tx[r].overtaken => GivesOf(tx[r].op, tx[r].asked) \subseteq Granted(permGroups')
      /\ ~tx[r].overtaken /\ (raced => tx[r].op = "replace")
            => Granted(permGroups') \cap TakesOf(tx[r].op, tx[r].asked)
                    \subseteq GivesOf(tx[r].op, tx[r].asked)
  BY RequestChanges
<1>10. /\ ~RequestOf(r).overtaken => GivesOf(tx[r].op, tx[r].asked) \subseteq Granted(permGroups')
       /\ ~RequestOf(r).overtaken /\ (raced => RequestOf(r).op = "replace")
            => Granted(permGroups') \cap TakesOf(tx[r].op, tx[r].asked)
                    \subseteq GivesOf(tx[r].op, tx[r].asked)
  BY <1>5, <1>9, Zenon
<1>11. RequestOf(r).op # "save"
  BY <1>5, <1>6
<1> QED
  BY <1>2, <1>4, <1>7, <1>8, <1>9, <1>10, <1>11, Zenon DEF Permissions!EndRequest

LEMMA SavedImplements ==
  ASSUME OrderIInv, NEW a \in Admin, Ends(a)
  PROVE  RequestOf(a) \in UnderWay /\ Permissions!EndSave(RequestOf(a))
<1>1. TypeIInv /\ Fresh
  BY DEF OrderIInv
<1>2. /\ RequestOf(a) \in UnderWay /\ Permissions!End(RequestOf(a))
      /\ OpenForms' = OpenForms \ {a}
      /\ \A b \in Admin : ShownTo(b)' = IF b = a THEN {} ELSE ShownTo(b)
  BY <1>1, EndImplements
<1>3. CommitSave(a)
  BY EditorAssumption DEF Ends
<1>4. Commit(a) /\ tx[a] # Idle /\ stale' = (stale \/ Gone \cap IdsSent(form[a]) # {})
  BY <1>3 DEF CommitSave, Commit
<1>5. /\ tx[a].op = "save" /\ form[a] # Closed
  BY <1>1, <1>4 DEF TypeIInv, TxsGood, TxGood
<1>6. RequestOf(a).by = a /\ RequestOf(a).op = "save" /\ RequestOf(a).overtaken = tx[a].overtaken
  BY <1>5 DEF RequestOf
<1>7. ASSUME ~tx[a].overtaken, ~stale'
      PROVE  Granted(permGroups') = ShownTo(a)
  <2>1. tx[a].seen = Maps(permGroups) /\ tx[a].writes = SaveResult(a)
    BY <1>1, <1>4, <1>5, <1>7 DEF Fresh, FreshTx
  <2>2. Granted(permGroups') = PairsOf(Maps(SaveResult(a)))
    <3>1. Granted(permGroups') = PairsOf((Maps(permGroups) \ tx[a].seen) \cup Maps(tx[a].writes))
      BY <1>1, <1>4, CommitGrants
    <3>2. (Maps(permGroups) \ tx[a].seen) \cup Maps(tx[a].writes) = Maps(SaveResult(a))
      BY <2>1
    <3> QED
      BY <3>1, <3>2
  <2>3. Gone \cap IdsSent(form[a]) = {}
    BY <1>4, <1>7
  <2>4. Maps(permGroups) \in SUBSET Map /\ FormGood(form[a], Maps(permGroups))
    BY <1>1, <1>5, GroupsParts DEF TypeIInv, FormsGood
  <2>5. PairsOf(Maps(SaveResult(a))) = Shown(form[a])
    BY <2>3, <2>4, SaveGrants
  <2> QED
    BY <1>5, <2>2, <2>5 DEF ShownTo
<1>8. stale => stale'
  BY <1>4
<1>9. ShownAll' = [ShownAll EXCEPT ![a] = {}]
  BY <1>2 DEF ShownAll
<1>10. ShownAll[a] = ShownTo(a)
  BY DEF ShownAll
<1>11. ~RequestOf(a).overtaken /\ ~stale' => Granted(permGroups') = ShownAll[RequestOf(a).by]
  BY <1>6, <1>7, <1>10, Zenon
<1>12. /\ OpenForms' = OpenForms \ {RequestOf(a).by}
       /\ ShownAll' = [ShownAll EXCEPT ![RequestOf(a).by] = {}]
  BY <1>2, <1>6, <1>9
<1> QED
  BY <1>2, <1>6, <1>8, <1>11, <1>12, Zenon DEF Permissions!EndSave, ShownAll

-----------------------------------------------------------------------------
LEMMA StepImplements ==
  ASSUME OrderIInv, GroupsFull, Confined, [EditorNext]_editorVars
  PROVE  [Permissions!PermissionsNext]_(Permissions!permissionVars)
<1>1. TypeIInv
  BY DEF OrderIInv
<1>2. CASE UNCHANGED editorVars
  <2>1. UNCHANGED <<Granted(permGroups), OpenForms, [a \in Admin |-> ShownTo(a)], UnderWay>>
    BY <1>2 DEF editorVars, OpenForms, ShownTo, UnderWay, RequestOf
  <2>2. UNCHANGED <<raced, stale>>
    BY <1>2 DEF editorVars
  <2> QED
    BY <2>1, <2>2 DEF Permissions!permissionVars
<1>3. ASSUME NEW a \in Admin, Open(a) \/ EditRows(a) \/ ToggleAudit(a) \/ Leave(a) \/ Save(a)
      PROVE  Permissions!PermissionsNext
  <2>1. Permissions!Open(a) \/ Permissions!Edit(a) \/ Permissions!Leave(a) \/ Permissions!Save(a)
    BY <1>1, <1>3, OpenImplements, EditImplements, LeaveImplements, SaveImplements
  <2> QED
    BY <2>1 DEF Permissions!PermissionsNext
<1>4. ASSUME NEW r \in Request, Ask(r)
      PROVE  Permissions!PermissionsNext
  BY <1>1, <1>4, AskImplements DEF Permissions!PermissionsNext
<1>5. ASSUME NEW c \in Admin \cup Request, Ends(c) \/ Rollback(c)
      PROVE  Permissions!PermissionsNext
  <2>1. /\ RequestOf(c) \in UnderWay
        /\ \/ Permissions!EndRequest(RequestOf(c))
           \/ Permissions!EndSave(RequestOf(c))
           \/ Permissions!Rollback(RequestOf(c))
    BY <1>1, <1>5, RequestImplements, SavedImplements, RollbackImplements
  <2> QED
    BY <2>1 DEF Permissions!PermissionsNext
<1> QED
  BY <1>1, <1>2, <1>3, <1>4, <1>5, EditorSteps

\* Perm maps, permGroups, ids and rows cannot be told from one set of who has which
\* permission: forms open with that set, and grants, revocations and saves change it one
\* at a time, by no more than they name, up to what raced and stale stand for.
THEOREM EditorImplements == EditorSpec => ImplementsPermissions
<1>1. EditorInit => Permissions!PermissionsInit
  <2> SUFFICES ASSUME EditorInit
               PROVE  Permissions!PermissionsInit
    OBVIOUS
  <2>1. permGroups = {} /\ raced = FALSE /\ stale = FALSE
    BY DEF EditorInit
  <2>2. /\ \A a \in Admin : form[a] = Closed
        /\ \A c \in Admin \cup Request : tx[c] = Idle
    BY DEF EditorInit
  <2>3. Granted(permGroups) = {}
    BY <2>1 DEF Granted, Maps
  <2>4. OpenForms = {} /\ UnderWay = {}
    BY <2>2 DEF OpenForms, UnderWay
  <2>5. [a \in Admin |-> ShownTo(a)] = [a \in Admin |-> {}]
    BY <2>2 DEF ShownTo
  <2> QED
    BY <2>1, <2>3, <2>4, <2>5, Zenon DEF Permissions!PermissionsInit
<1>2. OrderIInv /\ GroupsFull /\ Confined /\ [EditorNext]_editorVars
        => [Permissions!PermissionsNext]_(Permissions!permissionVars)
  BY StepImplements
<1> QED
  BY <1>1, <1>2, OrderIInvHolds, GroupsFullHolds, ConfinedHolds, PTL
     DEF EditorSpec, ImplementsPermissions, Permissions!PermissionsSpec
=============================================================================
