--------------------------- MODULE NameNode_proofs ---------------------------
(***************************************************************************)
(* First the policy matching, for paths and resources of any length: agent *)
(* and policy manager find the same policies, but for what Agree names.    *)
(* Then the cache of audit flags, for any number of handlers, paths and    *)
(* entries; then the agent in the name node, whatever Hadoop checks: what  *)
(* it grants is what the policy says, the audit flags it uses are those of *)
(* AuditFlag, and its audit records tell what came of the requests.        *)
(***************************************************************************)
EXTENDS NameNode, FiniteSetTheorems, SequenceTheorems, TLAPS

-----------------------------------------------------------------------------
(* The numbers of a finite set in their order. *)

Below(F, k) == {j \in F : j < k}

LEMMA BelowFinite ==
  ASSUME NEW b \in Nat, NEW F \in SUBSET (0 .. b), NEW k
  PROVE  /\ IsFiniteSet(F) /\ Cardinality(F) \in Nat
         /\ IsFiniteSet(Below(F, k)) /\ Cardinality(Below(F, k)) \in Nat
<1>1. IsFiniteSet(0 .. b)
  BY FS_Interval
<1>2. IsFiniteSet(F) /\ Cardinality(F) \in Nat
  BY <1>1, FS_Subset, FS_CardinalityType
<1>3. Below(F, k) \in SUBSET F
  BY DEF Below
<1> QED
  BY <1>2, <1>3, FS_Subset, FS_CardinalityType

\* A greater number follows more others.
LEMMA BelowGrows ==
  ASSUME NEW b \in Nat, NEW F \in SUBSET (0 .. b), NEW i \in F, NEW T \in SUBSET F,
         i \in T, Below(F, i) \subseteq T
  PROVE  Cardinality(Below(F, i)) < Cardinality(T)
<1> DEFINE B == Below(F, i)
<1>1. IsFiniteSet(B) /\ Cardinality(B) \in Nat /\ IsFiniteSet(F)
  BY BelowFinite
<1>2. IsFiniteSet(T) /\ Cardinality(T) \in Nat
  BY <1>1, FS_Subset, FS_CardinalityType
<1>3. i \notin B
  BY DEF Below
<1>4. Cardinality(B \cup {i}) = Cardinality(B) + 1
  BY <1>1, <1>3, FS_AddElement
<1>5. B \cup {i} \in SUBSET T
  OBVIOUS
<1> HIDE DEF B
<1>6. Cardinality(B \cup {i}) <= Cardinality(T)
  BY <1>2, <1>5, FS_Subset
<1>7. Cardinality(B) < Cardinality(T)
  BY <1>1, <1>2, <1>4, <1>6
<1> QED
  BY <1>7 DEF B

LEMMA BelowOrdered ==
  ASSUME NEW b \in Nat, NEW F \in SUBSET (0 .. b), NEW i \in F
  PROVE  /\ Cardinality(Below(F, i)) < Cardinality(F)
         /\ \A k \in F : i < k => Cardinality(Below(F, i)) < Cardinality(Below(F, k))
<1>1. Cardinality(Below(F, i)) < Cardinality(F)
  BY BelowGrows DEF Below
<1>n. \A j \in F : j \in Nat
  OBVIOUS
<1>2. ASSUME NEW k \in F, i < k
      PROVE  Cardinality(Below(F, i)) < Cardinality(Below(F, k))
  <2>1. Below(F, k) \in SUBSET F /\ i \in Below(F, k)
    BY <1>2 DEF Below
  <2>2. Below(F, i) \subseteq Below(F, k)
    <3> SUFFICES ASSUME NEW j \in F, j < i PROVE j < k
      BY DEF Below
    <3> QED
      BY <1>2, <1>n
  <2> QED
    BY <2>1, <2>2, BelowGrows
<1> QED
  BY <1>1, <1>2

\* A set of numbers that is not empty has a least one.
LEMMA Least ==
  ASSUME NEW T \in SUBSET Nat, T # {}
  PROVE  \E m \in T : \A k \in T : m <= k
<1> DEFINE Less == OpToRel(<, Nat)
<1>1. IsWellFoundedOn(Less, Nat)
  BY NatLessThanWellFounded
<1>2. PICK m \in T : \A k \in T : ~(<<k, m>> \in Less)
  <2> HIDE DEF Less
  <2> QED
    BY <1>1, WFMin
<1>3. \A k \in T : ~(k < m)
  BY <1>2 DEF OpToRel
<1> QED
  BY <1>3

\* There is one that follows n others, if there are more than n.
LEMMA NthExists ==
  ASSUME NEW b \in Nat, NEW F \in SUBSET (0 .. b), NEW n \in Nat, n < Cardinality(F)
  PROVE  \E k \in F : Cardinality(Below(F, k)) = n
<1> DEFINE T == {k \in Nat : Cardinality(Below(F, k)) > n}
<1>1. \A k : IsFiniteSet(Below(F, k)) /\ Cardinality(Below(F, k)) \in Nat
  BY BelowFinite
<1>n. \A j \in F : j \in Nat /\ j < b + 1 /\ ~(j < 0)
  OBVIOUS
<1>2. Below(F, b + 1) = F
  BY <1>n DEF Below
<1>3. T \in SUBSET Nat /\ b + 1 \in T
  BY <1>2
<1>4. PICK m \in T : \A k \in T : m <= k
  BY <1>3, Least
<1>5. m # 0
  <2>1. Below(F, 0) = {}
    BY <1>n DEF Below
  <2>2. Cardinality(Below(F, 0)) = 0
    BY <2>1, FS_EmptySet
  <2> QED
    BY <2>2
<1>6. PICK k \in Nat : m = k + 1
  BY <1>5
<1>7. Cardinality(Below(F, k)) <= n
  <2>1. k \notin T
    BY <1>4, <1>6
  <2> QED
    BY <1>1, <2>1
<1>8. Cardinality(Below(F, m)) > n
  OBVIOUS
<1>9. Below(F, m) = IF k \in F THEN Below(F, k) \cup {k} ELSE Below(F, k)
  <2>1. \A j \in F : j < m <=> (j < k \/ j = k)
    BY <1>6, <1>n
  <2>2. \A j : j \in Below(F, m) <=> j \in (IF k \in F THEN Below(F, k) \cup {k} ELSE Below(F, k))
    BY <2>1 DEF Below
  <2> QED
    BY <2>2
<1>10. k \notin Below(F, k)
  BY DEF Below
<1> HIDE DEF T
<1>11. k \in F
  BY <1>1, <1>7, <1>8, <1>9
<1>12. Cardinality(Below(F, m)) = Cardinality(Below(F, k)) + 1
  BY <1>1, <1>9, <1>10, <1>11, FS_AddElement
<1> QED
  BY <1>1, <1>7, <1>8, <1>11, <1>12

-----------------------------------------------------------------------------
(* What String.split makes of a string. *)

\* The number of pieces.
Count(t) == Cardinality(Cuts(t)) - 1

\* The cuts are numbered in their order, from the one before the string to the
\* one behind it.
LEMMA CutsNumbered ==
  ASSUME NEW t \in Seq(STRING)
  PROVE  /\ Cuts(t) \in SUBSET (0 .. Len(t) + 1)
         /\ IsFiniteSet(Cuts(t)) /\ Count(t) \in Nat /\ Count(t) >= 1
         /\ Cardinality(Cuts(t)) = Count(t) + 1
         /\ \A k \in 0 .. Count(t) :
               Cut(t, k) \in Cuts(t) /\ Cardinality(Below(Cuts(t), Cut(t, k))) = k
         /\ \A c \in Cuts(t) :
               /\ Cardinality(Below(Cuts(t), c)) \in 0 .. Count(t)
               /\ Cut(t, Cardinality(Below(Cuts(t), c))) = c
         /\ \A k, l \in 0 .. Count(t) : k < l <=> Cut(t, k) < Cut(t, l)
<1> DEFINE C == Cuts(t)
           N == Len(t) + 1
<1>1. N \in Nat /\ C \in SUBSET (0 .. N) /\ 0 \in C /\ N \in C /\ 0 < N
  BY DEF Cuts
<1>2. IsFiniteSet(C) /\ Cardinality(C) \in Nat
  <2> HIDE DEF C, N
  <2> QED
    BY <1>1, BelowFinite
<1> HIDE DEF C, N
<1>o. \A c, d \in C : /\ Cardinality(Below(C, c)) \in Nat
                      /\ Cardinality(Below(C, c)) < Cardinality(C)
                      /\ c < d => Cardinality(Below(C, c)) < Cardinality(Below(C, d))
  BY <1>1, BelowOrdered, BelowFinite
<1>n. \A c \in C : c \in Nat
  BY <1>1
<1>3. Cardinality(C) > 1
  BY <1>1, <1>2, <1>o
<1>4. \A k \in 0 .. Cardinality(C) - 1 : \E c \in C : Cardinality(Below(C, c)) = k
  <2> SUFFICES ASSUME NEW k \in 0 .. Cardinality(C) - 1
               PROVE  \E c \in C : Cardinality(Below(C, c)) = k
    OBVIOUS
  <2>1. k \in Nat /\ k < Cardinality(C)
    BY <1>2
  <2> QED
    BY <1>1, <2>1, NthExists
<1>5. \A k : Cut(t, k) = CHOOSE c \in C : Cardinality(Below(C, c)) = k
  BY DEF Cut, C, Below
<1>6. \A k \in 0 .. Cardinality(C) - 1 : Cut(t, k) \in C /\ Cardinality(Below(C, Cut(t, k))) = k
  BY <1>4, <1>5
<1>7. \A c, d \in C : Cardinality(Below(C, c)) = Cardinality(Below(C, d)) => c = d
  <2> SUFFICES ASSUME NEW c \in C, NEW d \in C, c # d,
                      Cardinality(Below(C, c)) = Cardinality(Below(C, d))
               PROVE  FALSE
    OBVIOUS
  <2>1. c < d \/ d < c
    BY <1>n
  <2> QED
    BY <1>o, <2>1
<1>8. \A c \in C : /\ Cardinality(Below(C, c)) \in 0 .. Cardinality(C) - 1
                   /\ Cut(t, Cardinality(Below(C, c))) = c
  <2> SUFFICES ASSUME NEW c \in C
               PROVE  /\ Cardinality(Below(C, c)) \in 0 .. Cardinality(C) - 1
                      /\ Cut(t, Cardinality(Below(C, c))) = c
    OBVIOUS
  <2>1. Cardinality(Below(C, c)) \in 0 .. Cardinality(C) - 1
    BY <1>2, <1>o
  <2> QED
    BY <1>6, <1>7, <2>1
<1>9. \A k, l \in 0 .. Cardinality(C) - 1 : k < l <=> Cut(t, k) < Cut(t, l)
  <2> SUFFICES ASSUME NEW k \in 0 .. Cardinality(C) - 1, NEW l \in 0 .. Cardinality(C) - 1
               PROVE  k < l <=> Cut(t, k) < Cut(t, l)
    OBVIOUS
  <2>1. /\ Cut(t, k) \in C /\ Cardinality(Below(C, Cut(t, k))) = k
        /\ Cut(t, l) \in C /\ Cardinality(Below(C, Cut(t, l))) = l
    BY <1>6
  <2>2. Cut(t, k) \in Nat /\ Cut(t, l) \in Nat /\ k \in Int /\ l \in Int
    BY <1>n, <2>1
  <2>3. Cut(t, k) < Cut(t, l) => k < l
    BY <1>o, <2>1
  <2>4. Cut(t, l) < Cut(t, k) => l < k
    BY <1>o, <2>1
  <2> QED
    BY <2>1, <2>2, <2>3, <2>4
<1>10. Count(t) = Cardinality(C) - 1
  BY DEF Count, C
<1>11. Count(t) \in Nat /\ Count(t) >= 1 /\ Cardinality(C) = Count(t) + 1
  BY <1>2, <1>3, <1>10
<1>12. C \in SUBSET (0 .. Len(t) + 1)
  BY <1>1 DEF N
<1> QED
  BY <1>2, <1>6, <1>8, <1>9, <1>10, <1>11, <1>12 DEF C

\* The first and the last cut; between two that follow each other there is none.
LEMMA CutEnds ==
  ASSUME NEW t \in Seq(STRING)
  PROVE  /\ Cut(t, 0) = 0 /\ Cut(t, Count(t)) = Len(t) + 1
         /\ \A k \in 1 .. Count(t), c \in Cuts(t) : c <= Cut(t, k - 1) \/ c >= Cut(t, k)
<1> DEFINE C == Cuts(t)
           K == Count(t)
           rank(c) == Cardinality(Below(C, c))
<1>1. /\ C \in SUBSET (0 .. Len(t) + 1) /\ K \in Nat /\ K >= 1
      /\ 0 \in C /\ Len(t) + 1 \in C /\ Len(t) \in Nat
  <2>1. C \in SUBSET (0 .. Len(t) + 1) /\ K \in Nat /\ K >= 1
    BY CutsNumbered
  <2>2. 0 \in C /\ Len(t) + 1 \in C /\ Len(t) \in Nat
    BY DEF Cuts
  <2> QED
    BY <2>1, <2>2
<1>2. \A k \in 0 .. K : Cut(t, k) \in C
  BY CutsNumbered
<1>3. \A k, l \in 0 .. K : k < l <=> Cut(t, k) < Cut(t, l)
  BY CutsNumbered
<1>4. \A c \in C : \E k \in 0 .. K : Cut(t, k) = c
  BY CutsNumbered
<1>n. \A c \in C : c \in Nat /\ c <= Len(t) + 1
  BY <1>1
<1> HIDE DEF C, K
<1>5. Cut(t, 0) = 0
  <2>1. PICK k \in 0 .. K : Cut(t, k) = 0
    BY <1>1, <1>4
  <2>0. 0 \in 0 .. K
    BY <1>1
  <2>2. 0 \in 0 .. K /\ Cut(t, 0) \in Nat
    BY <1>2, <1>n, <2>0
  <2>3. ~(0 < k)
    <3>1. 0 < k => Cut(t, 0) < Cut(t, k)
      BY <1>3, <2>2
    <3> QED
      BY <2>1, <2>2, <3>1
  <2> QED
    BY <2>1, <2>3
<1>6. Cut(t, K) = Len(t) + 1
  <2>1. PICK k \in 0 .. K : Cut(t, k) = Len(t) + 1
    BY <1>1, <1>4
  <2>0. K \in 0 .. K
    BY <1>1
  <2>2. K \in 0 .. K /\ Cut(t, K) \in Nat /\ Cut(t, K) <= Len(t) + 1
    BY <1>2, <1>n, <2>0
  <2>3. ~(k < K)
    <3>1. k < K => Cut(t, k) < Cut(t, K)
      BY <1>3, <2>2
    <3> QED
      BY <1>1, <2>1, <2>2, <3>1
  <2> QED
    BY <1>1, <2>1, <2>3
<1>7. ASSUME NEW k \in 1 .. K, NEW c \in C PROVE c <= Cut(t, k - 1) \/ c >= Cut(t, k)
  <2>1. PICK l \in 0 .. K : Cut(t, l) = c
    BY <1>4
  <2>2. k - 1 \in 0 .. K /\ k \in 0 .. K
    BY <1>1
  <2>3. Cut(t, k - 1) \in Nat /\ Cut(t, k) \in Nat /\ c \in Nat
    BY <1>2, <1>n, <2>2
  <2>4. l < k - 1 \/ l = k - 1 \/ l = k \/ k < l
    BY <1>1
  <2> QED
    BY <1>3, <2>1, <2>2, <2>3, <2>4
<1> QED
  BY <1>5, <1>6, <1>7 DEF C, K

\* An order-preserving map between sets of as many numbers keeps their ranks.
LEMMA RanksKept ==
  ASSUME NEW b \in Nat, NEW F \in SUBSET (0 .. b), NEW d \in Nat, NEW G \in SUBSET (0 .. d),
         Cardinality(F) = Cardinality(G), NEW f \in [F -> G],
         \A i, j \in F : i < j => f[i] < f[j]
  PROVE  \A i \in F : Cardinality(Below(G, f[i])) = Cardinality(Below(F, i))
<1>n. (\A i \in F : i \in Nat) /\ (\A i \in G : i \in Nat)
  OBVIOUS
<1>1. IsFiniteSet(F) /\ IsFiniteSet(G)
  BY BelowFinite
<1>2. \A i, j \in F : f[i] < f[j] => i < j
  <2> SUFFICES ASSUME NEW i \in F, NEW j \in F, f[i] < f[j], ~(i < j) PROVE FALSE
    OBVIOUS
  <2>1. f[i] \in Nat /\ f[j] \in Nat /\ i \in Nat /\ j \in Nat
    BY <1>n
  <2>2. i = j \/ j < i
    BY <2>1
  <2>3. f[i] = f[j] \/ f[j] < f[i]
    BY <2>2
  <2> QED
    BY <2>1, <2>3
<1>3. \A i, j \in F : f[i] = f[j] => i = j
  <2> SUFFICES ASSUME NEW i \in F, NEW j \in F, f[i] = f[j], i # j PROVE FALSE
    OBVIOUS
  <2>1. f[i] \in Nat /\ f[j] \in Nat /\ i \in Nat /\ j \in Nat
    BY <1>n
  <2>2. i < j \/ j < i
    BY <2>1
  <2> QED
    BY <2>1, <2>2
<1>4. f \in Injection(F, G)
  BY <1>3 DEF Injection, IsInjective
<1>5. f \in Surjection(F, G)
  BY <1>1, <1>4, FS_Injection
<1>6. \A g \in G : \E i \in F : f[i] = g
  BY <1>5 DEF Surjection
<1> SUFFICES ASSUME NEW i \in F
             PROVE  Cardinality(Below(G, f[i])) = Cardinality(Below(F, i))
  OBVIOUS
<1> DEFINE S == Below(F, i)
           T == Below(G, f[i])
           h == [j \in S |-> f[j]]
<1>7. \A j \in S : j \in F /\ j < i
  BY DEF Below
<1>8. \A g \in T : g \in G /\ g < f[i]
  BY DEF Below
<1>9. h \in [S -> T]
  <2> SUFFICES ASSUME NEW j \in S PROVE f[j] \in T
    OBVIOUS
  <2>1. f[j] < f[i] /\ f[j] \in G
    BY <1>7
  <2> QED
    BY <2>1 DEF Below
<1>10. \A g \in T : \E j \in S : h[j] = g
  <2> SUFFICES ASSUME NEW g \in T PROVE \E j \in S : f[j] = g
    OBVIOUS
  <2>1. PICK j \in F : f[j] = g
    BY <1>6, <1>8
  <2>2. j < i
    BY <1>2, <1>8, <2>1
  <2> QED
    BY <2>1, <2>2 DEF Below
<1>11. \A j, k \in S : h[j] = h[k] => j = k
  BY <1>3, <1>7
<1>12. IsFiniteSet(S)
  BY BelowFinite
<1> HIDE DEF S, T, h
<1>13. h \in Bijection(S, T)
  BY <1>9, <1>10, <1>11 DEF Bijection, Injection, Surjection, IsInjective
<1>14. Cardinality(T) = Cardinality(S)
  BY <1>12, <1>13, FS_Bijection DEF ExistsBijection
<1> QED
  BY <1>14 DEF S, T

-----------------------------------------------------------------------------
(* Wildcards. *)

LEMMA AlignOrdered ==
  ASSUME NEW s \in Seq(STRING), NEW w \in Seq(STRING),
         NEW c \in [0 .. Len(w) -> 0 .. Len(s)], Aligns(c, s, w)
  PROVE  \A i, j \in 0 .. Len(w) : i <= j => c[i] <= c[j]
<1> SUFFICES ASSUME NEW i \in 0 .. Len(w), NEW j \in 0 .. Len(w), i <= j, ~(c[i] <= c[j])
             PROVE  FALSE
  OBVIOUS
<1> DEFINE T == {k \in 0 .. Len(w) : i <= k /\ ~(c[i] <= c[k])}
<1>n. /\ Len(w) \in Nat /\ Len(s) \in Nat
      /\ \A k \in 0 .. Len(w) : k \in Nat /\ c[k] \in Nat
  OBVIOUS
<1>1. T \in SUBSET Nat /\ j \in T
  OBVIOUS
<1>2. PICK m \in T : \A k \in T : m <= k
  BY <1>1, Least
<1>3. m # i
  BY <1>n
<1>4. m \in 1 .. Len(w) /\ m - 1 \in 0 .. Len(w) /\ i <= m - 1
  BY <1>3
<1>5. c[i] <= c[m - 1]
  <2>1. ~(m - 1 \in T)
    BY <1>2, <1>4
  <2> QED
    BY <1>4, <2>1
<1>6. c[m - 1] <= c[m]
  <2>1. c[m - 1] <= c[m] \/ c[m] = c[m - 1] + 1
    BY <1>4 DEF Aligns
  <2>2. c[m - 1] \in Nat
    BY <1>4, <1>n
  <2> QED
    BY <2>1, <2>2
<1> QED
  BY <1>4, <1>5, <1>6, <1>n

\* A pattern without wildcards matches itself only.
LEMMA PlainMatch ==
  ASSUME NEW s \in Seq(STRING), NEW w \in Seq(STRING), ~IsWildcardPath(w)
  PROVE  WildcardMatch(s, w) <=> s = w
<1>n. Len(w) \in Nat /\ Len(s) \in Nat /\ DOMAIN w = 1 .. Len(w) /\ DOMAIN s = 1 .. Len(s)
  OBVIOUS
<1>p. \A j \in 1 .. Len(w) : w[j] # "*" /\ w[j] # "?"
  BY <1>n DEF IsWildcardPath
<1>1. ASSUME NEW c \in [0 .. Len(w) -> 0 .. Len(s)], Aligns(c, s, w)
      PROVE  s = w
  <2>1. \A j \in 1 .. Len(w) : c[j] = c[j - 1] + 1 /\ w[j] = s[c[j]]
    BY <1>1, <1>p DEF Aligns
  <2> DEFINE T == {j \in 0 .. Len(w) : c[j] # j}
  <2>2. T = {}
    <3> SUFFICES ASSUME T # {} PROVE FALSE
      OBVIOUS
    <3>1. PICK m \in T : \A k \in T : m <= k
      <4>1. T \in SUBSET Nat
        OBVIOUS
      <4> HIDE DEF T
      <4> QED
        BY <4>1, Least
    <3>2. m # 0
      BY <1>1 DEF Aligns
    <3>3. m \in 1 .. Len(w) /\ m - 1 \in 0 .. Len(w) /\ ~(m <= m - 1)
      BY <3>2
    <3>4. c[m - 1] = m - 1
      BY <3>1, <3>3
    <3> QED
      BY <2>1, <3>3, <3>4
  <2>3. \A j \in 0 .. Len(w) : c[j] = j
    BY <2>2
  <2>4. Len(s) = Len(w)
    <3>1. c[Len(w)] = Len(s)
      BY <1>1 DEF Aligns
    <3>2. Len(w) \in 0 .. Len(w)
      BY <1>n
    <3> QED
      BY <2>3, <3>1, <3>2
  <2>5. \A j \in 1 .. Len(w) : s[j] = w[j]
    BY <2>1, <2>3
  <2> QED
    BY <2>4, <2>5
<1>2. ASSUME s = w PROVE WildcardMatch(s, w)
  <2> DEFINE c == [j \in 0 .. Len(w) |-> j]
  <2>1. c \in [0 .. Len(w) -> 0 .. Len(s)]
    BY <1>2
  <2>2. c[0] = 0 /\ c[Len(w)] = Len(s)
    BY <1>n, <1>2
  <2>3. \A j \in 1 .. Len(w) : c[j] = c[j - 1] + 1 /\ w[j] = s[c[j]]
    BY <1>n, <1>2
  <2> HIDE DEF c
  <2>4. Aligns(c, s, w)
    BY <1>p, <2>2, <2>3 DEF Aligns
  <2> QED
    BY <2>1, <2>4 DEF WildcardMatch
<1> QED
  BY <1>1, <1>2 DEF WildcardMatch

\* Between two characters of the pattern, the part of the string between their
\* places matches the part of the pattern.
LEMMA PartMatch ==
  ASSUME NEW s \in Seq(STRING), NEW w \in Seq(STRING),
         NEW c \in [0 .. Len(w) -> 0 .. Len(s)], Aligns(c, s, w),
         NEW a \in 0 .. Len(w), NEW b \in a .. Len(w)
  PROVE  WildcardMatch(SubSeq(s, c[a] + 1, c[b]), SubSeq(w, a + 1, b))
<1>n. /\ Len(w) \in Nat /\ Len(s) \in Nat /\ a \in Nat /\ b \in Nat /\ a <= b /\ b <= Len(w)
      /\ b \in 0 .. Len(w)
  OBVIOUS
<1>c. \A j \in 0 .. Len(w) : c[j] \in Nat /\ c[j] <= Len(s)
  OBVIOUS
<1>o. \A i, j \in 0 .. Len(w) : i <= j => c[i] <= c[j]
  BY AlignOrdered
<1>1. c[a] \in Nat /\ c[b] \in Nat /\ c[a] <= c[b] /\ c[b] <= Len(s)
  BY <1>n, <1>o, <1>c
<1> DEFINE S == SubSeq(s, c[a] + 1, c[b])
           W == SubSeq(w, a + 1, b)
           d == [j \in 0 .. b - a |-> c[a + j] - c[a]]
<1>2. Len(W) = b - a /\ \A j \in 1 .. b - a : W[j] = w[a + j]
  BY <1>n
<1>3. Len(S) = c[b] - c[a] /\ \A j \in 1 .. c[b] - c[a] : S[j] = s[c[a] + j]
  BY <1>1
<1>4. \A j \in 0 .. b - a : /\ a + j \in 0 .. Len(w)
                            /\ c[a + j] \in Nat /\ c[a] <= c[a + j] /\ c[a + j] <= c[b]
  <2> SUFFICES ASSUME NEW j \in 0 .. b - a
               PROVE  /\ a + j \in 0 .. Len(w)
                      /\ c[a + j] \in Nat /\ c[a] <= c[a + j] /\ c[a + j] <= c[b]
    OBVIOUS
  <2>1. a + j \in 0 .. Len(w) /\ a <= a + j /\ a + j <= b
    BY <1>n
  <2> QED
    BY <1>c, <1>n, <1>o, <2>1
<1>5. d \in [0 .. b - a -> 0 .. c[b] - c[a]]
  <2> SUFFICES ASSUME NEW j \in 0 .. b - a PROVE c[a + j] - c[a] \in 0 .. c[b] - c[a]
    OBVIOUS
  <2>1. c[a + j] \in Nat /\ c[a] <= c[a + j] /\ c[a + j] <= c[b]
    BY <1>4
  <2> HIDE DEF S, W, d
  <2> QED
    BY <1>1, <2>1
<1>6. d[0] = 0 /\ d[b - a] = c[b] - c[a]
  BY <1>n, <1>1
<1>7. ASSUME NEW j \in 1 .. b - a
      PROVE  IF W[j] = "*" THEN d[j - 1] <= d[j]
             ELSE d[j] = d[j - 1] + 1 /\ W[j] \in {S[d[j]], "?"}
  <2>1. /\ a + j \in 1 .. Len(w) /\ j \in 0 .. b - a /\ j - 1 \in 0 .. b - a
        /\ (a + j) - 1 = a + (j - 1)
    BY <1>n
  <2>2. /\ d[j] = c[a + j] - c[a] /\ d[j - 1] = c[a + (j - 1)] - c[a] /\ W[j] = w[a + j]
    BY <1>2, <2>1
  <2>3. /\ c[a + j] \in Nat /\ c[a + (j - 1)] \in Nat /\ c[a] <= c[a + (j - 1)]
        /\ c[a + j] <= c[b] /\ c[a] <= c[a + j]
    BY <1>4, <2>1
  <2>4. CASE w[a + j] = "*"
    <3>1. c[a + (j - 1)] <= c[a + j]
      BY <2>1, <2>4 DEF Aligns
    <3> QED
      BY <1>1, <2>2, <2>3, <2>4, <3>1
  <2>5. CASE w[a + j] # "*"
    <3>1. c[a + j] = c[a + (j - 1)] + 1 /\ w[a + j] \in {s[c[a + j]], "?"}
      BY <2>1, <2>5 DEF Aligns
    <3>2. d[j] = d[j - 1] + 1 /\ d[j] \in 1 .. c[b] - c[a] /\ c[a] + d[j] = c[a + j]
      <4> DEFINE x == c[a]
                 y == c[a + (j - 1)]
                 z == c[a + j]
                 v == c[b]
      <4>0. /\ x <= y /\ x <= z /\ z <= v /\ v \in Nat /\ x \in Nat /\ y \in Nat /\ z \in Nat /\ z = y + 1
            /\ d[j] = z - x /\ d[j - 1] = y - x
        BY <1>1, <2>2, <2>3, <3>1
      <4> HIDE DEF S, W, d, x, y, z, v
      <4>3. d[j] = d[j - 1] + 1 /\ x + d[j] = z
        BY <4>0
      <4>1. d[j] = d[j - 1] + 1 /\ c[a] + d[j] = c[a + j]
        BY <4>3 DEF x, z
      <4>2. d[j] \in 1 .. v - x
        BY <4>0
      <4> QED
        BY <4>1, <4>2 DEF x, v
    <3>3. S[d[j]] = s[c[a + j]]
      BY <1>3, <3>2
    <3> QED
      BY <2>2, <2>5, <3>1, <3>2, <3>3
  <2> QED
    BY <2>4, <2>5
<1> HIDE DEF S, W, d
<1>8. Aligns(d, S, W)
  BY <1>2, <1>3, <1>6, <1>7 DEF Aligns
<1>9. WildcardMatch(S, W)
  BY <1>2, <1>3, <1>5, <1>8 DEF WildcardMatch
<1> QED
  BY <1>9 DEF S, W

-----------------------------------------------------------------------------
(* Piece by piece, or as a whole. *)

\* The k-th piece of a string.
Piece(t, k) == SubSeq(t, Cut(t, k - 1) + 1, Cut(t, k) - 1)

\* A pattern that matches a string and has as many separators matches it piece by
\* piece: each separator of the pattern stands for one of the string, so that a *
\* is left none.
LEMMA SplitMatch ==
  ASSUME NEW s \in Seq(STRING), NEW w \in Seq(STRING), WildcardMatch(s, w),
         Count(s) = Count(w)
  PROVE  \A k \in 1 .. Count(s) : WildcardMatch(Piece(s, k), Piece(w, k))
<1> PICK c \in [0 .. Len(w) -> 0 .. Len(s)] : Aligns(c, s, w)
  BY DEF WildcardMatch
<1> DEFINE F == Cuts(w)
           G == Cuts(s)
           K == Count(w)
           end == Len(w) + 1
           e == [j \in 0 .. Len(w) + 1 |-> IF j = Len(w) + 1 THEN Len(s) + 1 ELSE c[j]]
           f == [j \in F |-> e[j]]
<1>n. Len(w) \in Nat /\ Len(s) \in Nat /\ DOMAIN w = 1 .. Len(w) /\ DOMAIN s = 1 .. Len(s)
  OBVIOUS
<1>c. \A j \in 0 .. Len(w) : c[j] \in Nat /\ c[j] <= Len(s) /\ e[j] = c[j]
  BY <1>n
<1>l. e[Len(w) + 1] = Len(s) + 1
  BY <1>n
<1>o. \A i, j \in 0 .. Len(w) : i <= j => c[i] <= c[j]
  BY AlignOrdered
<1>F. /\ F \in SUBSET (0 .. Len(w) + 1) /\ G \in SUBSET (0 .. Len(s) + 1)
      /\ Cardinality(F) = Cardinality(G)
  BY CutsNumbered
<1>1. \A j \in F : j = 0 \/ j = Len(w) + 1 \/ (j \in 1 .. Len(w) /\ w[j] = Sep)
  BY <1>n DEF Cuts
<1>2. ASSUME NEW j \in 1 .. Len(w), w[j] = Sep
      PROVE  /\ c[j] = c[j - 1] + 1 /\ c[j] \in 1 .. Len(s) /\ s[c[j]] = Sep
             /\ j - 1 \in 0 .. Len(w) /\ j \in 0 .. Len(w)
  <2>1. c[j] = c[j - 1] + 1 /\ w[j] \in {s[c[j]], "?"}
    BY <1>2 DEF Aligns, Sep
  <2>2. w[j] # "?"
    BY <1>2 DEF Sep
  <2>3. s[c[j]] = Sep
    BY <1>2, <2>1, <2>2
  <2>4. j - 1 \in 0 .. Len(w) /\ j \in 0 .. Len(w)
    BY <1>n
  <2>5. c[j] \in 1 .. Len(s)
    BY <1>c, <2>1, <2>4
  <2> QED
    BY <2>1, <2>3, <2>4, <2>5
<1>3. \A j \in F : e[j] \in G
  <2> SUFFICES ASSUME NEW j \in F PROVE e[j] \in G
    OBVIOUS
  <2>1. CASE j = 0
    <3>1. e[j] = 0
      BY <1>c, <1>n, <2>1 DEF Aligns
    <3> QED
      BY <3>1 DEF Cuts
  <2>2. CASE j = Len(w) + 1
    BY <1>l, <2>2 DEF Cuts
  <2>3. CASE j \in 1 .. Len(w) /\ w[j] = Sep
    <3>1. e[j] \in DOMAIN s /\ s[e[j]] = Sep
      BY <1>c, <1>n, <1>2, <2>3
    <3> QED
      BY <3>1 DEF Cuts
  <2> QED
    BY <1>1, <2>1, <2>2, <2>3
\* What is before a cut of the pattern is before its image.
<1>4. ASSUME NEW i \in 0 .. Len(w), NEW j \in F, i < j
      PROVE  /\ j - 1 \in i .. Len(w) /\ j - 1 \in 0 .. Len(w) /\ e[j] = c[j - 1] + 1
             /\ c[i] < e[j]
  <2>1. CASE j = Len(w) + 1
    <3>1. c[Len(w)] = Len(s)
      BY DEF Aligns
    <3>2. j - 1 = Len(w)
      BY <1>n, <2>1
    <3> QED
      BY <1>4, <1>c, <1>l, <1>n, <2>1, <3>1, <3>2
  <2>2. CASE j \in 1 .. Len(w) /\ w[j] = Sep
    <3>1. /\ e[j] = c[j - 1] + 1 /\ j - 1 \in 0 .. Len(w) /\ i <= j - 1
      BY <1>4, <1>c, <1>2, <2>2
    <3>2. c[i] <= c[j - 1] /\ c[i] \in Nat /\ c[j - 1] \in Nat
      BY <1>c, <1>o, <3>1
    <3> QED
      BY <1>n, <3>1, <3>2
  <2> QED
    BY <1>1, <1>4, <1>n, <2>1, <2>2
<1>5. f \in [F -> G] /\ \A i, j \in F : i < j => f[i] < f[j]
  <2>1. f \in [F -> G]
    BY <1>3
  <2>2. ASSUME NEW i \in F, NEW j \in F, i < j PROVE e[i] < e[j]
    <3>1. i \in 0 .. Len(w)
      BY <1>1, <1>n, <1>F, <2>2
    <3> QED
      BY <1>4, <1>c, <2>2, <3>1
  <2>3. \A i \in F : f[i] = e[i]
    OBVIOUS
  <2> HIDE DEF F, G, e, f
  <2> QED
    BY <2>1, <2>2, <2>3
<1> HIDE DEF F, G, K, e, f
<1>6. \A i \in F : Cardinality(Below(G, f[i])) = Cardinality(Below(F, i))
  <2>1. Len(w) + 1 \in Nat /\ Len(s) + 1 \in Nat
    BY <1>n
  <2> QED
    BY <1>F, <1>5, <2>1, RanksKept
<1>7. \A k \in 0 .. K : Cut(w, k) \in F /\ Cardinality(Below(F, Cut(w, k))) = k
  BY CutsNumbered DEF F, K
<1>8. \A g \in G : Cut(s, Cardinality(Below(G, g))) = g
  BY CutsNumbered DEF G
<1>9. \A k \in 0 .. K : e[Cut(w, k)] = Cut(s, k)
  <2> SUFFICES ASSUME NEW k \in 0 .. K PROVE e[Cut(w, k)] = Cut(s, k)
    OBVIOUS
  <2>1. Cut(w, k) \in F /\ Cardinality(Below(F, Cut(w, k))) = k
    BY <1>7
  <2>2. f[Cut(w, k)] \in G /\ Cardinality(Below(G, f[Cut(w, k)])) = k
    BY <1>5, <1>6, <2>1
  <2>3. f[Cut(w, k)] = Cut(s, k)
    BY <1>8, <2>2
  <2> QED
    BY <2>1, <2>3 DEF f
<1> SUFFICES ASSUME NEW k \in 1 .. K PROVE WildcardMatch(Piece(s, k), Piece(w, k))
  BY DEF K
<1> DEFINE a == Cut(w, k - 1)
           b == Cut(w, k)
<1>k. K \in Nat /\ k - 1 \in 0 .. K /\ k \in 0 .. K
  BY CutsNumbered DEF K
<1>10. a \in F /\ b \in F /\ a < b
  <2>1. a < b
    BY <1>k, CutsNumbered DEF K
  <2> QED
    BY <1>k, <1>7, <2>1
<1>11. e[a] = Cut(s, k - 1) /\ e[b] = Cut(s, k)
  BY <1>k, <1>9
<1> HIDE DEF a, b
<1>12. a \in 0 .. Len(w)
  BY <1>1, <1>10, <1>F, <1>n
<1>13. b - 1 \in a .. Len(w) /\ b - 1 \in 0 .. Len(w) /\ e[b] = c[b - 1] + 1
  BY <1>4, <1>10, <1>12
<1>14. WildcardMatch(SubSeq(s, c[a] + 1, c[b - 1]), SubSeq(w, a + 1, b - 1))
  BY <1>12, <1>13, PartMatch
<1>15. c[a] = Cut(s, k - 1)
  BY <1>11, <1>12, <1>c
<1>16. c[b - 1] = Cut(s, k) - 1
  BY <1>11, <1>13, <1>c
<1> QED
  BY <1>14, <1>15, <1>16 DEF Piece, a, b

\* The k-th piece is what is between two cuts; but for the ends, a cut is at a
\* separator.
LEMMA PieceFacts ==
  ASSUME NEW t \in Seq(STRING), NEW k \in 1 .. Count(t)
  PROVE  /\ Cut(t, k - 1) \in 0 .. Len(t) /\ Cut(t, k) \in 1 .. Len(t) + 1
         /\ Cut(t, k - 1) < Cut(t, k)
         /\ Piece(t, k) \in Seq(STRING)
         /\ Len(Piece(t, k)) = Cut(t, k) - 1 - Cut(t, k - 1)
         /\ \A i \in 1 .. Cut(t, k) - 1 - Cut(t, k - 1) : Piece(t, k)[i] = t[Cut(t, k - 1) + i]
         /\ k < Count(t) => t[Cut(t, k)] = Sep
<1>n. Len(t) \in Nat /\ DOMAIN t = 1 .. Len(t) /\ Count(t) \in Nat
  BY CutsNumbered
<1>k. k - 1 \in 0 .. Count(t) /\ k \in 0 .. Count(t) /\ k - 1 < k /\ Count(t) \in 0 .. Count(t)
  BY <1>n
<1> DEFINE a == Cut(t, k - 1)
           b == Cut(t, k)
<1>1. a \in Cuts(t) /\ b \in Cuts(t) /\ a < b
  <2>1. a < b
    BY <1>k, CutsNumbered
  <2> QED
    BY <1>k, <2>1, CutsNumbered
<1>2. Cuts(t) \in SUBSET (0 .. Len(t) + 1)
  BY CutsNumbered
<1>3. k < Count(t) => t[b] = Sep
  <2> SUFFICES ASSUME k < Count(t) PROVE t[b] = Sep
    OBVIOUS
  <2>1. b < Cut(t, Count(t)) /\ Cut(t, Count(t)) = Len(t) + 1
    <3>1. b < Cut(t, Count(t))
      BY <1>k, CutsNumbered
    <3> QED
      BY <3>1, CutEnds
  <2> HIDE DEF a, b
  <2>2. a \in Nat /\ b \in Nat
    BY <1>1, <1>2
  <2>3. b # 0 /\ b # Len(t) + 1
    BY <1>1, <2>1, <2>2, <1>n
  <2> QED
    BY <1>1, <2>3 DEF Cuts
<1> HIDE DEF a, b
<1>4. a \in 0 .. Len(t) /\ b \in 1 .. Len(t) + 1 /\ a \in Nat /\ b \in Nat
  BY <1>1, <1>2, <1>n
<1>5. /\ a + 1 \in 1 .. Len(t) + 1 /\ b - 1 \in 0 .. Len(t)
      /\ b - 1 - (a + 1) + 1 = b - 1 - a /\ b - 1 - a \in Nat
  BY <1>1, <1>4, <1>n
<1>6. /\ SubSeq(t, a + 1, b - 1) \in Seq(STRING)
      /\ Len(SubSeq(t, a + 1, b - 1)) = b - 1 - a
      /\ \A i \in 1 .. b - 1 - a : SubSeq(t, a + 1, b - 1)[i] = t[a + i]
  <2>1. \A i \in 1 .. b - 1 - a : a + i \in 1 .. Len(t)
    BY <1>4, <1>5, <1>n
  <2> QED
    BY <1>1, <1>4, <1>5, <1>n, <2>1
<1> QED
  BY <1>1, <1>3, <1>4, <1>6 DEF Piece, a, b

\* Every place in a string is in one block: a piece and the cut before it.
LEMMA BlockExists ==
  ASSUME NEW t \in Seq(STRING), NEW j \in 0 .. Len(t)
  PROVE  \E k \in 1 .. Count(t) : Cut(t, k - 1) <= j /\ j < Cut(t, k)
<1> DEFINE K == Count(t)
           T == {k \in 0 .. K : j < Cut(t, k)}
<1>1. K \in Nat /\ Cut(t, 0) = 0 /\ Cut(t, K) = Len(t) + 1 /\ Len(t) \in Nat
  BY CutsNumbered, CutEnds
<1>2. \A k \in 0 .. K : Cut(t, k) \in Nat
  <2>1. \A k \in 0 .. K : Cut(t, k) \in Cuts(t)
    BY CutsNumbered
  <2>2. Cuts(t) \in SUBSET (0 .. Len(t) + 1)
    BY CutsNumbered
  <2> QED
    BY <2>1, <2>2
<1> HIDE DEF K
<1>3. K \in T /\ T \in SUBSET Nat
  BY <1>1
<1>4. PICK k \in T : \A l \in T : k <= l
  <2> HIDE DEF T
  <2> QED
    BY <1>3, Least
<1>5. k # 0
  BY <1>1
<1>6. k \in 1 .. K /\ k - 1 \in 0 .. K /\ k - 1 \notin T
  BY <1>1, <1>4, <1>5
<1>7. Cut(t, k - 1) <= j
  BY <1>2, <1>6
<1> QED
  BY <1>6, <1>7 DEF K

LEMMA BlockUnique ==
  ASSUME NEW t \in Seq(STRING), NEW j \in 0 .. Len(t),
         NEW k \in 1 .. Count(t), Cut(t, k - 1) <= j, j < Cut(t, k),
         NEW l \in 1 .. Count(t), Cut(t, l - 1) <= j, j < Cut(t, l)
  PROVE  k = l
<1>1. ASSUME NEW m \in 1 .. Count(t), NEW n \in 1 .. Count(t), m < n,
             j < Cut(t, m), Cut(t, n - 1) <= j
      PROVE  FALSE
  <2>1. Count(t) \in Nat
    BY CutsNumbered
  <2>2. m \in 0 .. Count(t) /\ n - 1 \in 0 .. Count(t) /\ (m = n - 1 \/ m < n - 1)
    BY <1>1, <2>1
  <2>3. Cut(t, m) = Cut(t, n - 1) \/ Cut(t, m) < Cut(t, n - 1)
    BY <2>2, CutsNumbered
  <2>4. Cut(t, m) \in Int /\ Cut(t, n - 1) \in Int /\ j \in Int
    BY PieceFacts
  <2> QED
    BY <1>1, <2>3, <2>4
<1>2. Count(t) \in Nat
  BY CutsNumbered
<1>3. k < l \/ l < k \/ k = l
  BY <1>2
<1> QED
  BY <1>1, <1>3

\* What matches piece by piece matches as a whole.
LEMMA JoinMatch ==
  ASSUME NEW s \in Seq(STRING), NEW w \in Seq(STRING), Count(s) = Count(w),
         \A k \in 1 .. Count(s) : WildcardMatch(Piece(s, k), Piece(w, k))
  PROVE  WildcardMatch(s, w)
<1> DEFINE K == Count(w)
           size(k) == Len(Piece(w, k))
           part == [k \in 1 .. K |->
                      CHOOSE c \in [0 .. Len(Piece(w, k)) -> 0 .. Len(Piece(s, k))] :
                          Aligns(c, Piece(s, k), Piece(w, k))]
           block == [j \in 0 .. Len(w) |->
                       CHOOSE k \in 1 .. K : Cut(w, k - 1) <= j /\ j < Cut(w, k)]
           at(k, j) == Cut(s, k - 1) + part[k][j - Cut(w, k - 1)]
           c == [j \in 0 .. Len(w) |-> at(block[j], j)]
<1>n. /\ K \in Nat /\ K >= 1 /\ Len(w) \in Nat /\ Len(s) \in Nat
      /\ DOMAIN w = 1 .. Len(w) /\ DOMAIN s = 1 .. Len(s)
  BY CutsNumbered
<1>1. \A k \in 1 .. K :
         /\ part[k] \in [0 .. Len(Piece(w, k)) -> 0 .. Len(Piece(s, k))]
         /\ Aligns(part[k], Piece(s, k), Piece(w, k))
  BY DEF WildcardMatch
<1>2. \A j \in 0 .. Len(w) :
         /\ block[j] \in 1 .. K
         /\ Cut(w, block[j] - 1) <= j /\ j < Cut(w, block[j])
  BY BlockExists
<1>3. \A j \in 0 .. Len(w), k \in 1 .. K :
         Cut(w, k - 1) <= j /\ j < Cut(w, k) => block[j] = k
  <2> SUFFICES ASSUME NEW j \in 0 .. Len(w), NEW k \in 1 .. K,
                      Cut(w, k - 1) <= j, j < Cut(w, k)
               PROVE  block[j] = k
    OBVIOUS
  <2> HIDE DEF block
  <2> QED
    BY <1>2, BlockUnique
<1>4. \A j \in 0 .. Len(w) : c[j] = at(block[j], j)
  OBVIOUS
<1>p. \A k \in 1 .. K :
         /\ Cut(s, k - 1) \in 0 .. Len(s) /\ Cut(s, k) \in 1 .. Len(s) + 1
         /\ Cut(s, k - 1) < Cut(s, k)
         /\ Len(Piece(s, k)) = Cut(s, k) - 1 - Cut(s, k - 1)
         /\ \A i \in 1 .. Cut(s, k) - 1 - Cut(s, k - 1) : Piece(s, k)[i] = s[Cut(s, k - 1) + i]
         /\ k < K => s[Cut(s, k)] = Sep
  BY PieceFacts
<1>q. \A k \in 1 .. K :
         /\ Cut(w, k - 1) \in 0 .. Len(w) /\ Cut(w, k) \in 1 .. Len(w) + 1
         /\ Cut(w, k - 1) < Cut(w, k)
         /\ Len(Piece(w, k)) = Cut(w, k) - 1 - Cut(w, k - 1)
         /\ \A i \in 1 .. Cut(w, k) - 1 - Cut(w, k - 1) : Piece(w, k)[i] = w[Cut(w, k - 1) + i]
         /\ k < K => w[Cut(w, k)] = Sep
  BY PieceFacts
<1> HIDE DEF part, block, c, K
\* The place of a character, by its block.
<1>5. ASSUME NEW k \in 1 .. K, NEW j \in 0 .. Len(w), Cut(w, k - 1) <= j, j < Cut(w, k)
      PROVE  /\ j - Cut(w, k - 1) \in 0 .. Len(Piece(w, k))
             /\ part[k][j - Cut(w, k - 1)] \in 0 .. Cut(s, k) - 1 - Cut(s, k - 1)
             /\ c[j] = Cut(s, k - 1) + part[k][j - Cut(w, k - 1)]
             /\ c[j] \in 0 .. Len(s)
             /\ j = Cut(w, k - 1) => c[j] = Cut(s, k - 1)
             /\ j = Cut(w, k) - 1 => c[j] = Cut(s, k) - 1
  <2> DEFINE x == j - Cut(w, k - 1)
             y == part[k][x]
             A == Cut(s, k - 1)
             B == Cut(s, k)
             C == Cut(w, k - 1)
             D == Cut(w, k)
  <2>1. /\ A \in 0 .. Len(s) /\ B \in 1 .. Len(s) + 1 /\ A < B /\ Len(Piece(s, k)) = B - 1 - A
        /\ C \in 0 .. Len(w) /\ D \in 1 .. Len(w) + 1 /\ C < D /\ Len(Piece(w, k)) = D - 1 - C
    BY <1>p, <1>q
  <2>2. c[j] = A + y
    BY <1>3, <1>4, <1>5
  <2>3. C <= j /\ j < D /\ x = j - C
    BY <1>5
  <2> HIDE DEF A, B, C, D, x
  <2>4. x \in 0 .. D - 1 - C /\ (j = C => x = 0) /\ (j = D - 1 => x = D - 1 - C)
    BY <1>n, <2>1, <2>3
  <2>5. y \in 0 .. B - 1 - A
    BY <1>1, <2>1, <2>4
  <2>6. (x = 0 => y = 0) /\ (x = D - 1 - C => y = B - 1 - A)
    <3>1. part[k][0] = 0 /\ part[k][D - 1 - C] = B - 1 - A
      BY <1>1, <2>1 DEF Aligns
    <3> QED
      BY <3>1
  <2> HIDE DEF y
  <2>7. /\ A + y \in 0 .. Len(s)
        /\ j = C => A + y = A
        /\ j = D - 1 => A + y = B - 1
    BY <1>n, <2>1, <2>4, <2>5, <2>6
  <2> QED
    BY <2>1, <2>2, <2>4, <2>5, <2>7 DEF A, B, C, D, x, y
<1>6. c \in [0 .. Len(w) -> 0 .. Len(s)]
  <2>1. \A j \in 0 .. Len(w) : c[j] \in 0 .. Len(s)
    BY <1>2, <1>5
  <2> QED
    BY <2>1 DEF c
<1>7. c[0] = 0 /\ c[Len(w)] = Len(s)
  <2>1. /\ Cut(w, 0) = 0 /\ Cut(w, K) = Len(w) + 1
        /\ Cut(s, 0) = 0 /\ Cut(s, K) = Len(s) + 1
    BY CutEnds DEF K
  <2>2. /\ 1 \in 1 .. K /\ 1 - 1 = 0 /\ K \in 1 .. K
        /\ 0 \in 0 .. Len(w) /\ Len(w) \in 0 .. Len(w)
    BY <1>n
  <2>3. c[0] = 0
    <3>1. Cut(w, 1 - 1) = 0 /\ 0 < Cut(w, 1) /\ Cut(s, 1 - 1) = 0
      BY <1>q, <2>1, <2>2
    <3> QED
      BY <1>5, <2>2, <3>1
  <2>4. c[Len(w)] = Len(s)
    <3>1. Cut(w, K - 1) <= Len(w) /\ Len(w) < Cut(w, K) /\ Len(w) = Cut(w, K) - 1
      BY <1>n, <1>q, <2>1, <2>2
    <3>2. c[Len(w)] = Cut(s, K) - 1
      BY <1>5, <2>2, <3>1
    <3> QED
      BY <1>n, <2>1, <3>2
  <2> QED
    BY <2>3, <2>4
<1>8. ASSUME NEW j \in 1 .. Len(w)
      PROVE  IF w[j] = "*" THEN c[j - 1] <= c[j]
             ELSE c[j] = c[j - 1] + 1 /\ w[j] \in {s[c[j]], "?"}
  <2>1. j \in 0 .. Len(w) /\ j - 1 \in 0 .. Len(w)
    BY <1>n
  <2> DEFINE k == block[j]
             C == Cut(w, k - 1)
             D == Cut(w, k)
             A == Cut(s, k - 1)
             B == Cut(s, k)
  <2>2. k \in 1 .. K /\ C <= j /\ j < D
    BY <1>2, <2>1
  <2>3. /\ A \in 0 .. Len(s) /\ B \in 1 .. Len(s) + 1 /\ A < B /\ Len(Piece(s, k)) = B - 1 - A
        /\ C \in 0 .. Len(w) /\ D \in 1 .. Len(w) + 1 /\ C < D /\ Len(Piece(w, k)) = D - 1 - C
        /\ \A i \in 1 .. B - 1 - A : Piece(s, k)[i] = s[A + i]
        /\ \A i \in 1 .. D - 1 - C : Piece(w, k)[i] = w[C + i]
    BY <1>p, <1>q, <2>2
  <2>4. CASE j = C
    \* The block begins: both characters are separators.
    <3>1. k - 1 \in 1 .. K
      <4>1. Cut(w, 0) = 0 /\ C # 0
        BY <2>4, CutEnds
      <4>2. k # 1
        BY <4>1
      <4> QED
        BY <1>n, <2>2, <4>2
    <3>2. k - 1 < K
      BY <1>n, <2>2
    <3>3. w[C] = Sep /\ s[A] = Sep
      BY <1>p, <1>q, <3>1, <3>2
    <3>4. Cut(w, (k - 1) - 1) \in Nat /\ Cut(w, (k - 1) - 1) < C
      BY <1>q, <3>1
    <3>5. Cut(w, (k - 1) - 1) <= j - 1 /\ j - 1 < C /\ j - 1 = C - 1
      BY <2>3, <2>4, <3>4
    <3>6. c[j - 1] = A - 1
      BY <1>5, <2>1, <3>1, <3>5
    <3>7. c[j] = A
      BY <1>5, <2>1, <2>2, <2>4
    <3>8. c[j] = c[j - 1] + 1
      BY <2>3, <3>6, <3>7
    <3>9. w[j] = s[c[j]] /\ w[j] # "*"
      BY <2>4, <3>3, <3>7 DEF Sep
    <3> QED
      BY <3>8, <3>9
  <2>5. CASE j # C
    \* Both are in the same piece.
    <3>1. C <= j - 1 /\ j - 1 < D
      BY <2>1, <2>2, <2>3, <2>5
    <3> DEFINE x == j - C
               x1 == (j - 1) - C
               y == part[k][x]
               y1 == part[k][x1]
    <3>2. c[j] = A + y /\ y \in 0 .. B - 1 - A
      BY <1>5, <2>1, <2>2
    <3>3. c[j - 1] = A + y1 /\ y1 \in 0 .. B - 1 - A
      BY <1>5, <2>1, <2>2, <3>1
    <3>4. Aligns(part[k], Piece(s, k), Piece(w, k))
      BY <1>1, <2>2
    <3> HIDE DEF A, B, C, D, k
    <3>5. x \in 1 .. D - 1 - C /\ x1 = x - 1 /\ C + x = j
      BY <2>1, <2>2, <2>3, <2>5, <3>1
    <3>6. IF Piece(w, k)[x] = "*" THEN y1 <= y
          ELSE y = y1 + 1 /\ Piece(w, k)[x] \in {Piece(s, k)[y], "?"}
      BY <2>3, <3>4, <3>5 DEF Aligns
    <3>7. Piece(w, k)[x] = w[j]
      BY <2>3, <3>5
    <3> HIDE DEF x, x1, y, y1
    <3>8. CASE w[j] = "*"
      BY <2>3, <3>2, <3>3, <3>6, <3>7, <3>8
    <3>9. CASE w[j] # "*"
      <4>1. y = y1 + 1 /\ w[j] \in {Piece(s, k)[y], "?"}
        BY <3>6, <3>7, <3>9
      <4>2. y \in 1 .. B - 1 - A /\ A + y = (A + y1) + 1
        BY <2>3, <3>2, <3>3, <4>1
      <4>3. Piece(s, k)[y] = s[c[j]]
        BY <2>3, <3>2, <4>2
      <4> QED
        BY <3>2, <3>3, <3>9, <4>1, <4>2, <4>3
    <3> QED
      BY <3>8, <3>9
  <2> QED
    BY <2>4, <2>5
<1>9. Aligns(c, s, w)
  BY <1>7, <1>8 DEF Aligns
<1> QED
  BY <1>6, <1>9 DEF WildcardMatch

\* String.split drops nothing of a string that does not end in a separator.
LEMMA TrimmedSelf ==
  ASSUME NEW t \in Seq(STRING), t # <<>>, Last(t) # Sep
  PROVE  Trimmed(t) = t
<1> DEFINE S == {0} \cup {i \in DOMAIN t : t[i] # Sep}
<1>1. Len(t) \in Nat /\ Len(t) >= 1 /\ DOMAIN t = 1 .. Len(t) /\ t[Len(t)] # Sep
  BY DEF Last
<1>2. Len(t) \in S /\ \A i \in S : i \in Nat /\ Len(t) >= i
  BY <1>1
<1>3. \A m \in S : (\A i \in S : m >= i) => m = Len(t)
  BY <1>2
<1> HIDE DEF S
<1>4. Max(S) = Len(t)
  BY <1>2, <1>3 DEF Max
<1>5. SubSeq(t, 1, Len(t)) = t
  BY <1>1
<1> QED
  BY <1>4, <1>5 DEF Trimmed, S

LEMMA TrimmedRoot == Trimmed(<<Sep>>) = <<>>
<1>1. {0} \cup {i \in DOMAIN <<Sep>> : <<Sep>>[i] # Sep} = {0}
  OBVIOUS
<1>2. Max({0}) = 0
  BY DEF Max
<1>3. SubSeq(<<Sep>>, 1, 0) = <<>>
  BY DEF Sep
<1> QED
  BY <1>1, <1>2, <1>3 DEF Trimmed

\* Something is left of a string that is not all separators.
LEMMA TrimmedSome ==
  ASSUME NEW t \in Seq(STRING), NEW i \in DOMAIN t, t[i] # Sep
  PROVE  Trimmed(t) \in Seq(STRING) /\ Trimmed(t) # <<>>
<1> DEFINE S == {0} \cup {j \in DOMAIN t : t[j] # Sep}
           T == {d \in Nat : Len(t) - d \in S}
<1>1. Len(t) \in Nat /\ DOMAIN t = 1 .. Len(t) /\ i \in S
  OBVIOUS
<1>2. \A j \in S : j \in Nat /\ j <= Len(t)
  BY <1>1
<1>3. Len(t) - i \in T /\ T \in SUBSET Nat
  BY <1>1, <1>2
<1>4. PICK d \in T : \A e \in T : d <= e
  <2> HIDE DEF T
  <2> QED
    BY <1>3, Least
<1>5. Len(t) - d \in S /\ \A j \in S : Len(t) - d >= j
  <2>1. Len(t) - d \in S /\ d \in Nat
    OBVIOUS
  <2>2. ASSUME NEW j \in S PROVE Len(t) - d >= j
    <3>1. j \in Nat /\ j <= Len(t)
      BY <1>2
    <3>2. Len(t) - j \in Nat /\ Len(t) - (Len(t) - j) = j
      <4> DEFINE n == Len(t)
      <4>1. n \in Nat
        BY <1>1
      <4> HIDE DEF S, T, n
      <4>2. n - j \in Nat /\ n - (n - j) = j
        BY <3>1, <4>1 DEF n
      <4> QED
        BY <4>2 DEF n
    <3>3. Len(t) - j \in T
      <4> HIDE DEF S
      <4> QED
        BY <3>2
    <3>4. d <= Len(t) - j
      BY <1>4, <3>3
    <3> HIDE DEF S, T
    <3> QED
      BY <1>1, <2>1, <3>1, <3>2, <3>4
  <2> QED
    BY <2>1, <2>2
<1> HIDE DEF S, T
<1>6. Max(S) \in S /\ \A j \in S : Max(S) >= j
  BY <1>5 DEF Max
<1>7. Max(S) \in 1 .. Len(t)
  BY <1>1, <1>2, <1>6
<1> DEFINE m == Max(S)
<1> HIDE DEF m
<1>8. m \in 1 .. Len(t)
  BY <1>7 DEF m
<1>9. SubSeq(t, 1, m) \in Seq(STRING) /\ Len(SubSeq(t, 1, m)) = m
  BY <1>1, <1>8
<1>10. SubSeq(t, 1, m) # <<>>
  BY <1>8, <1>9
<1> QED
  BY <1>9, <1>10 DEF Trimmed, m, S

LEMMA PiecesOf ==
  ASSUME NEW t \in Seq(STRING), t # <<>>, Last(t) # Sep
  PROVE  /\ Count(t) \in Nat /\ Count(t) >= 1
         /\ Len(Pieces(t)) = Count(t) /\ DOMAIN Pieces(t) = 1 .. Count(t)
         /\ Pieces(t) # <<>>
         /\ \A k \in 1 .. Count(t) : Pieces(t)[k] = Piece(t, k)
<1>1. Count(t) \in Nat /\ Count(t) >= 1
  BY CutsNumbered
<1>2. Pieces(t) = [k \in 1 .. Count(t) |-> Piece(t, k)]
  BY TrimmedSelf DEF Pieces, Count, Piece
<1>3. Len(Pieces(t)) = Count(t)
  BY <1>1, <1>2
<1>4. Pieces(t) # <<>>
  BY <1>1, <1>3
<1> QED
  BY <1>1, <1>2, <1>3, <1>4

LEMMA PiecesOfRoot == Pieces(<<Sep>>) = <<>>
  BY TrimmedRoot DEF Pieces

LEMMA PiecesOfWildcard ==
  ASSUME NEW r \in Seq(STRING), IsWildcardPath(r)
  PROVE  Len(Pieces(r)) # 0
<1> PICK i \in DOMAIN r : r[i] \in {"*", "?"}
  BY DEF IsWildcardPath
<1>1. r[i] # Sep
  BY DEF Sep
<1> DEFINE t == Trimmed(r)
<1>2. t \in Seq(STRING) /\ t # <<>>
  BY <1>1, TrimmedSome
<1>3. Pieces(r) = [k \in 1 .. Count(t) |-> SubSeq(t, Cut(t, k - 1) + 1, Cut(t, k) - 1)]
  BY <1>2 DEF Pieces, Count
<1> HIDE DEF t
<1>4. Count(t) \in Nat /\ Count(t) >= 1
  BY <1>2, CutsNumbered
<1>5. Len(Pieces(r)) = Count(t)
  BY <1>3, <1>4
<1> QED
  BY <1>4, <1>5

\* A pattern that ends in a separator matches no string that does not.
LEMMA EndMatch ==
  ASSUME NEW s \in Seq(STRING), NEW w \in Seq(STRING), WildcardMatch(s, w), w # <<>>,
         Last(w) = Sep
  PROVE  s # <<>> /\ Last(s) = Sep
<1> PICK c \in [0 .. Len(w) -> 0 .. Len(s)] : Aligns(c, s, w)
  BY DEF WildcardMatch
<1>1. /\ Len(w) \in 1 .. Len(w) /\ Len(w) - 1 \in 0 .. Len(w) /\ w[Len(w)] = "/"
      /\ Len(s) \in Nat
  BY DEF Last, Sep
<1>2. /\ c[Len(w)] = c[Len(w) - 1] + 1 /\ w[Len(w)] \in {s[c[Len(w)]], "?"}
      /\ c[Len(w)] = Len(s)
  BY <1>1 DEF Aligns
<1>3. s[Len(s)] = Sep /\ Len(s) # 0
  BY <1>1, <1>2 DEF Sep
<1> QED
  BY <1>3 DEF Last

-----------------------------------------------------------------------------
(* The two matchings of a policy. *)

\* A path is the root or ends in a name.
LEMMA PathEnds ==
  ASSUME NEW p, IsPath(p)
  PROVE  /\ p \in Seq(STRING) /\ p # <<>> /\ Len(p) \in Nat /\ Len(p) >= 1
         /\ p[1] = Sep /\ DOMAIN p = 1 .. Len(p)
         /\ p = <<Sep>> \/ (Last(p) # Sep /\ Trimmed(p) = p /\ Len(p) > 1)
<1>1. p \in Seq(STRING) /\ p # <<>> /\ p[1] = Sep /\ (Last(p) = Sep => p = <<Sep>>)
  BY DEF IsPath
<1>2. Len(p) \in Nat /\ Len(p) >= 1 /\ DOMAIN p = 1 .. Len(p)
  BY <1>1
<1>3. CASE Last(p) # Sep
  <2>1. Len(p) # 1
    BY <1>1, <1>3 DEF Last
  <2> QED
    BY <1>1, <1>2, <1>3, <2>1, TrimmedSelf
<1> QED
  BY <1>1, <1>2, <1>3

\* The manager compares paths up to a separator at the end.
LEMMA ExactMatch ==
  ASSUME NEW p, IsPath(p), NEW r \in Seq(STRING)
  PROVE  /\ p = r => comparePathsForExactMatch(p, r)
         /\ comparePathsForExactMatch(p, r) /\ ~OpenEnded(r) => p = r
<1>1. p = r => comparePathsForExactMatch(p, r)
  BY DEF comparePathsForExactMatch
<1>2. ASSUME comparePathsForExactMatch(p, r), ~OpenEnded(r) PROVE p = r
  <2>1. WithSep(p) = WithSep(r) /\ r # <<>> /\ (r = <<Sep>> \/ Last(r) # Sep)
    BY <1>2 DEF comparePathsForExactMatch, OpenEnded
  <2>2. /\ p \in Seq(STRING) /\ p # <<>> /\ (p = <<Sep>> \/ Last(p) # Sep)
        /\ Sep \in STRING
    BY PathEnds DEF Sep
  <2>3. Last(<<Sep>>) = Sep /\ WithSep(<<Sep>>) = <<Sep>>
    BY DEF Last, WithSep, Sep
  <2>4. ASSUME NEW t \in Seq(STRING), t # <<>>, Last(t) # Sep
        PROVE  WithSep(t) = Append(t, Sep) /\ Len(Append(t, Sep)) > 1
    <3>1. Len(t) >= 1 /\ Len(Append(t, Sep)) = Len(t) + 1
      BY <2>4
    <3> QED
      BY <2>4, <3>1 DEF WithSep
  <2>5. Len(<<Sep>>) = 1
    BY DEF Sep
  <2>6. CASE p = <<Sep>>
    <3>0. WithSep(r) = <<Sep>>
      BY <2>1, <2>3, <2>6
    <3>1. ~(Len(WithSep(r)) > 1)
      <4>1. ~(1 > 1)
        OBVIOUS
      <4> QED
        BY <2>5, <3>0, <4>1, Zenon
    <3> QED
      BY <2>1, <2>4, <2>6, <3>1
  <2>7. CASE Last(p) # Sep
    <3>1. Len(WithSep(p)) > 1 /\ WithSep(p) = Append(p, Sep)
      BY <2>2, <2>4, <2>7
    <3>2. r # <<Sep>>
      <4> SUFFICES ASSUME r = <<Sep>> PROVE FALSE
        OBVIOUS
      <4>1. WithSep(p) = <<Sep>>
        BY <2>1, <2>3, Zenon
      <4>2. ~(1 > 1)
        OBVIOUS
      <4> QED
        BY <2>5, <3>1, <4>1, <4>2, Zenon
    <3>3. Append(p, Sep) = Append(r, Sep)
      BY <2>1, <2>4, <3>1, <3>2
    <3>4. /\ SubSeq(Append(p, Sep), 1, Len(Append(p, Sep)) - 1) = p
          /\ SubSeq(Append(r, Sep), 1, Len(Append(r, Sep)) - 1) = r
      BY <2>2
    <3> QED
      BY <3>3, <3>4
  <2> QED
    BY <2>2, <2>6, <2>7
<1> QED
  BY <1>1, <1>2

\* The parents of a path are its beginnings, up to a separator or as a whole; they
\* are those of the manager as well.
LEMMA ParentsAre ==
  ASSUME NEW p, IsPath(p)
  PROVE  /\ Parents(p) \subseteq Seq(STRING)
         /\ \A q \in Parents(p) : IsPrefix(q, p)
         /\ p # <<Sep>> => \A i \in DOMAIN p : p[i] = Sep => SubSeq(p, 1, i - 1) \in Parents(p)
<1>p. /\ p \in Seq(STRING) /\ p # <<>> /\ Len(p) \in Nat /\ DOMAIN p = 1 .. Len(p)
      /\ p = <<Sep>> \/ Trimmed(p) = p
  BY PathEnds
<1>1. CASE p = <<Sep>>
  <2>1. Parents(p) = {}
    <3>1. DOMAIN <<>> = {}
      OBVIOUS
    <3>2. Trimmed(p) = <<>>
      BY <1>1, TrimmedRoot
    <3> QED
      BY <1>p, <3>1, <3>2 DEF Parents
  <2> QED
    BY <1>1, <2>1
<1>2. CASE p # <<Sep>>
  <2>1. Parents(p) = {SubSeq(p, 1, i - 1) : i \in {j \in DOMAIN p : p[j] = Sep}} \cup {p}
    BY <1>p, <1>2 DEF Parents
  <2>2. ASSUME NEW i \in DOMAIN p
        PROVE  SubSeq(p, 1, i - 1) \in Seq(STRING) /\ IsPrefix(SubSeq(p, 1, i - 1), p)
    <3>1. i - 1 \in 0 .. Len(p)
      BY <1>p
    <3> DEFINE n == i - 1
               q == SubSeq(p, 1, n)
    <3> HIDE DEF n
    <3>2. n \in 0 .. Len(p)
      BY <3>1 DEF n
    <3>3. q \in Seq(STRING) /\ Len(q) = n
      BY <1>p, <3>2
    <3>4. SubSeq(q, 1, n) = q
      BY <3>2, <3>3
    <3>5. IsPrefix(q, p)
      BY <1>p, <3>2, <3>3, <3>4 DEF IsPrefix
    <3> QED
      BY <3>3, <3>5 DEF n
  <2>3. IsPrefix(p, p)
    BY <1>p DEF IsPrefix
  <2> QED
    BY <1>p, <2>1, <2>2, <2>3
<1> QED
  BY <1>1, <1>2

\* What the agent matches the manager matches as well, but for what Agree names.
LEMMA AgentThenManager ==
  ASSUME NEW acl, NEW p, IsPath(p), NEW r \in Seq(STRING), rulePathMatched(acl, p, r)
  PROVE  Agree(acl, p, r)
<1>p. /\ p \in Seq(STRING) /\ p # <<>> /\ Len(p) \in Nat /\ DOMAIN p = 1 .. Len(p)
      /\ p[1] = Sep /\ (p = <<Sep>> \/ Last(p) # Sep)
  BY PathEnds
<1>1. CASE acl.recursiveInd = 1 /\ IsWildcardPath(r) /\ isRecursiveWildCardMatch(p, r)
  BY <1>1 DEF Agree, matchHdfsPolicy
<1>2. CASE acl.recursiveInd = 1 /\ ~IsWildcardPath(r) /\ IsPrefix(r, p)
  <2> SUFFICES ASSUME p[Len(r) + 1] = Sep, p # r PROVE matchHdfsPolicy(acl, p, r)
    BY <1>2, ExactMatch DEF Agree, matchHdfsPolicy
  <2>1. Len(r) \in Nat /\ Len(r) <= Len(p) /\ r = SubSeq(p, 1, Len(r))
    BY <1>2 DEF IsPrefix
  <2>2. Len(r) < Len(p)
    <3>1. Len(r) = Len(p) => r = p
      <4>1. SubSeq(p, 1, Len(p)) = p
        BY <1>p
      <4> QED
        BY <2>1, <4>1, Zenon
    <3> DEFINE m == Len(r)
               n == Len(p)
    <3>2. m \in Nat /\ n \in Nat /\ m <= n /\ m # n
      BY <1>p, <2>1, <3>1
    <3> HIDE DEF m, n
    <3>3. m < n
      BY <3>2
    <3> QED
      BY <3>3 DEF m, n
  <2>3. Len(r) + 1 \in DOMAIN p /\ (Len(r) + 1) - 1 = Len(r)
    BY <1>p, <2>1, <2>2
  <2>4. CASE p = <<Sep>>
    <3>1. Len(r) = 0
      BY <2>1, <2>2, <2>4 DEF Sep
    <3>2. r = <<>>
      BY <3>1
    <3>3. WithSep(<<>>) = WithSep(<<Sep>>)
      BY DEF WithSep, Last, Sep
    <3> QED
      BY <2>4, <3>2, <3>3 DEF matchHdfsPolicy, comparePathsForExactMatch
  <2>5. CASE p # <<Sep>>
    <3>1. r \in Parents(p)
      BY <2>1, <2>3, <2>5, ParentsAre
    <3>2. WildcardMatch(r, r)
      BY <1>2, PlainMatch
    <3> QED
      BY <1>2, <3>1, <3>2 DEF matchHdfsPolicy, isRecursiveWildCardMatch
  <2> QED
    BY <2>4, <2>5
<1>3. CASE acl.recursiveInd # 1 /\ IsWildcardPath(r) /\ WildcardMatch(p, r)
  <2> SUFFICES ASSUME Len(Pieces(p)) = Len(Pieces(r)) PROVE nonRecursiveWildCardMatch(p, r)
    BY <1>3 DEF Agree, matchHdfsPolicy
  <2>1. p # <<Sep>>
    <3>1. Len(<<>>) = 0
      OBVIOUS
    <3> QED
      BY <1>3, <3>1, PiecesOfRoot, PiecesOfWildcard
  <2>2. r # <<>> /\ Last(r) # Sep
    <3>1. r # <<>>
      BY <1>3 DEF IsWildcardPath
    <3> QED
      BY <1>3, <1>p, <2>1, <3>1, EndMatch
  <2>3. /\ DOMAIN Pieces(p) = 1 .. Count(p) /\ Pieces(p) # <<>> /\ Count(p) = Count(r)
        /\ \A k \in 1 .. Count(p) : Pieces(p)[k] = Piece(p, k) /\ Pieces(r)[k] = Piece(r, k)
    BY <1>p, <2>1, <2>2, PiecesOf
  <2>4. \A k \in 1 .. Count(p) : WildcardMatch(Piece(p, k), Piece(r, k))
    BY <1>3, <1>p, <2>3, SplitMatch
  <2> QED
    BY <2>3, <2>4 DEF nonRecursiveWildCardMatch
<1>4. CASE acl.recursiveInd # 1 /\ p = r
  BY <1>4, ExactMatch DEF Agree, matchHdfsPolicy
<1> QED
  BY <1>1, <1>2, <1>3, <1>4 DEF rulePathMatched

\* What the manager matches the agent matches as well, unless the resource of the
\* policy ends in a separator or is empty.
LEMMA ManagerThenAgent ==
  ASSUME NEW acl, NEW p, IsPath(p), NEW r \in Seq(STRING), matchHdfsPolicy(acl, p, r),
         ~OpenEnded(r)
  PROVE  rulePathMatched(acl, p, r)
<1>p. /\ p \in Seq(STRING) /\ p # <<>> /\ Len(p) \in Nat /\ DOMAIN p = 1 .. Len(p)
      /\ p[1] = Sep /\ (p = <<Sep>> \/ Last(p) # Sep) /\ ~IsWildcardPath(p)
  BY PathEnds DEF IsPath
<1>1. CASE p = r
  <2>1. IsPrefix(p, p)
    BY <1>p DEF IsPrefix
  <2> QED
    BY <1>1, <1>p, <2>1 DEF rulePathMatched
<1>2. CASE acl.recursiveInd = 1 /\ r = <<Sep>>
  <2> DEFINE x == SubSeq(<<Sep>>, 1, 1)
             y == SubSeq(p, 1, 1)
  <2>0. <<Sep>> \in Seq(STRING) /\ Len(<<Sep>>) = 1 /\ <<Sep>>[1] = Sep /\ 1 <= Len(p)
    BY <1>p DEF Sep
  <2>1. x \in Seq(STRING) /\ Len(x) = 1 /\ x[1] = Sep
    <3> DEFINE root == <<Sep>>
    <3>1. root \in Seq(STRING) /\ Len(root) = 1 /\ root[1] = Sep
      BY <2>0
    <3> HIDE DEF root
    <3>2. SubSeq(root, 1, Len(root)) = root
      BY <3>1
    <3> QED
      BY <3>1, <3>2 DEF root
  <2>2. y \in Seq(STRING) /\ Len(y) = 1 /\ y[1] = Sep
    BY <1>p, <2>0
  <2> HIDE DEF x, y
  <2>5. x = y
    BY <2>1, <2>2
  <2>3. IsPrefix(<<Sep>>, p)
    BY <2>0, <2>5 DEF IsPrefix, x, y
  <2>4. ~IsWildcardPath(<<Sep>>)
    BY DEF IsWildcardPath, Sep
  <2> QED
    BY <1>2, <2>3, <2>4 DEF rulePathMatched
<1>3. CASE acl.recursiveInd = 1 /\ isRecursiveWildCardMatch(p, r)
  <2>1. CASE IsWildcardPath(r)
    BY <1>3, <2>1 DEF rulePathMatched
  <2>2. CASE ~IsWildcardPath(r)
    <3>1. PICK q \in Parents(p) : WildcardMatch(q, r)
      BY <1>3 DEF isRecursiveWildCardMatch
    <3>2. q \in Seq(STRING) /\ IsPrefix(q, p)
      BY ParentsAre
    <3>3. q = r
      BY <2>2, <3>1, <3>2, PlainMatch
    <3> QED
      BY <1>3, <2>2, <3>2, <3>3 DEF rulePathMatched
  <2> QED
    BY <2>1, <2>2
<1>4. CASE acl.recursiveInd # 1 /\ nonRecursiveWildCardMatch(p, r)
  <2>1. p # <<Sep>> /\ r # <<Sep>>
    <3>1. Len(<<>>) = 0 /\ (Len(Pieces(p)) = 0 => Pieces(p) = <<>> \/ p = <<Sep>>)
      BY <1>p, PiecesOf
    <3> QED
      BY <1>4, <3>1, PiecesOfRoot DEF nonRecursiveWildCardMatch
  <2>2. r # <<>> /\ Last(r) # Sep
    BY <2>1 DEF OpenEnded
  <2>3. /\ DOMAIN Pieces(p) = 1 .. Count(p) /\ Len(Pieces(p)) = Count(p)
        /\ Len(Pieces(r)) = Count(r)
        /\ (\A k \in 1 .. Count(p) : Pieces(p)[k] = Piece(p, k))
        /\ (\A k \in 1 .. Count(r) : Pieces(r)[k] = Piece(r, k))
    BY <1>p, <2>1, <2>2, PiecesOf
  <2>4. Count(p) = Count(r)
    BY <1>4, <2>3 DEF nonRecursiveWildCardMatch
  <2>5. \A k \in 1 .. Count(p) : WildcardMatch(Piece(p, k), Piece(r, k))
    BY <1>4, <2>3, <2>4 DEF nonRecursiveWildCardMatch
  <2>6. WildcardMatch(p, r)
    BY <1>p, <2>4, <2>5, JoinMatch
  <2>7. ~IsWildcardPath(r) => p = r
    BY <1>p, <2>6, PlainMatch
  <2> QED
    BY <1>4, <2>6, <2>7 DEF rulePathMatched
<1> QED
  BY <1>1, <1>2, <1>3, <1>4, ExactMatch DEF matchHdfsPolicy

\* The agent and the policy manager agree on every path and every resource of a
\* policy.
THEOREM SameAnswer ==
  \A acl : \A p \in Path \ {<<>>}, r \in Seq(STRING) : Agree(acl, p, r)
<1> SUFFICES ASSUME NEW acl, NEW p \in Path \ {<<>>}, NEW r \in Seq(STRING)
             PROVE  Agree(acl, p, r)
  OBVIOUS
<1>1. IsPath(p)
  BY PathAssumption
<1>2. rulePathMatched(acl, p, r) => Agree(acl, p, r)
  BY <1>1, AgentThenManager
<1>3. matchHdfsPolicy(acl, p, r) /\ ~OpenEnded(r) => rulePathMatched(acl, p, r)
  BY <1>1, ManagerThenAgent
<1> QED
  BY <1>2, <1>3 DEF Agree

-----------------------------------------------------------------------------
(* The cache of audit flags. *)

\* The answer of the policy matching is a truth value, whatever the container.
LEMMA AuditedBoolean == \A p : isAuditLogEnabledByACL(policyContainer, p) \in BOOLEAN
  BY DEF isAuditLogEnabledByACL

\* What is answered depends on the container only.
USE DEF Audited

\* An empty cache is fresh.
LEMMA InitFresh == FlagInit => FlagIInv
  BY FlagAssumption DEF FlagInit, FlagIInv, FlagTypeOK, FreshUnlessRaced, CacheIsFresh, ComputedFresh, NoFlags

\* A new policy makes stale what handlers have in hand, which raced records,
\* and what is cached, which is not claimed to be fresh before the clear.
LEMMA SetPolicyPreserves == FlagIInv /\ SetPolicy => FlagIInv'
<1> SUFFICES ASSUME FlagIInv, SetPolicy PROVE FlagIInv'
  OBVIOUS
<1>1. FlagTypeOK'
  BY DEF FlagIInv, FlagTypeOK, SetPolicy, Putting
<1>2. FreshUnlessRaced'
  BY DEF SetPolicy, FreshUnlessRaced, CacheIsFresh
<1>3. ComputedFresh'
  <2> SUFFICES ASSUME ~raced', NEW h \in Handler, handlerPc'[h] = "put" PROVE FALSE
    BY DEF ComputedFresh
  <2> QED
    BY DEF SetPolicy, Putting, FlagIInv, FlagTypeOK
<1> QED
  BY <1>1, <1>2, <1>3 DEF FlagIInv

\* A clear that meets no put empties the cache.
LEMMA ClearPreserves == FlagIInv /\ Clear => FlagIInv'
<1> SUFFICES ASSUME FlagIInv, Clear PROVE FlagIInv'
  OBVIOUS
<1>1. FlagTypeOK'
  BY DEF FlagIInv, FlagTypeOK, Clear, Putting
<1>2. FreshUnlessRaced'
  <2> SUFFICES ASSUME ~raced' PROVE CacheIsFresh'
    BY DEF FreshUnlessRaced
  <2>1. ~Putting
    BY DEF Clear, Putting
  <2>2. \A p \in Path : cachedAuditFlag'[p] = NoFlag
    BY <2>1 DEF Clear
  <2> QED
    BY <2>2 DEF CacheIsFresh
<1>3. ComputedFresh'
  BY DEF FlagIInv, FlagTypeOK, Clear, ComputedFresh, Putting
<1> QED
  BY <1>1, <1>2, <1>3 DEF FlagIInv

\* What a handler puts was computed from the current policy.
LEMMA PutPreserves == ASSUME FlagIInv, NEW h \in Handler, Put(h) PROVE FlagIInv'
<1> PICK full \in BOOLEAN :
      cachedAuditFlag' =
          [IF full THEN NoFlags ELSE cachedAuditFlag EXCEPT ![path[h]] = ret[h]]
  BY DEF Put
<1>t. /\ cachedAuditFlag \in [Path -> BOOLEAN \cup {NoFlag}]
      /\ NoFlags \in [Path -> BOOLEAN \cup {NoFlag}]
      /\ path[h] \in Path /\ ret[h] \in BOOLEAN
  BY DEF FlagIInv, FlagTypeOK, NoFlags
<1>1. FlagTypeOK'
  <2>1. cachedAuditFlag' \in [Path -> BOOLEAN \cup {NoFlag}]
    BY <1>t
  <2> QED
    BY <2>1 DEF FlagIInv, FlagTypeOK, Put
<1>2. FreshUnlessRaced'
  <2> SUFFICES ASSUME ~raced, refreshPc = "idle",
                      NEW p \in Path, cachedAuditFlag'[p] # NoFlag
               PROVE  cachedAuditFlag'[p] = Audited(p)
    BY DEF FreshUnlessRaced, CacheIsFresh, Put
  <2>1. CASE p = path[h]
    <3>1. cachedAuditFlag'[p] = ret[h]
      BY <1>t, <2>1
    <3>2. ret[h] = Audited(path[h])
      BY DEF FlagIInv, ComputedFresh, Put
    <3> QED
      BY <3>1, <3>2, <2>1
  <2>2. CASE p # path[h]
    <3>1. cachedAuditFlag'[p] = cachedAuditFlag[p]
      BY <1>t, <2>2 DEF NoFlags
    <3> QED
      BY <3>1 DEF FlagIInv, FreshUnlessRaced, CacheIsFresh
  <2> QED
    BY <2>1, <2>2
<1>3. ComputedFresh'
  BY DEF FlagIInv, FlagTypeOK, Put, ComputedFresh
<1> QED
  BY <1>1, <1>2, <1>3 DEF FlagIInv

\* The steps before leave the cache alone; Compute reads the current policy.
LEMMA AskPreserves ==
  ASSUME FlagIInv, NEW h \in Handler,
         (\E p \in Path : Hit(h, p) \/ Miss(h, p)) \/ Compute(h)
  PROVE  FlagIInv'
<1>1. CASE \E p \in Path : Hit(h, p)
  <2> PICK p \in Path : Hit(h, p)
    BY <1>1
  <2>1. FlagTypeOK'
    BY DEF FlagIInv, FlagTypeOK, Hit, flagVars
  <2>2. ComputedFresh'
    BY DEF FlagIInv, FlagTypeOK, ComputedFresh, Hit, flagVars
  <2> QED
    BY <2>1, <2>2 DEF FlagIInv, Hit, flagVars, FreshUnlessRaced, CacheIsFresh
<1>2. CASE \E p \in Path : Miss(h, p)
  <2> PICK p \in Path : Miss(h, p)
    BY <1>2
  <2>1. FlagTypeOK'
    BY DEF FlagIInv, FlagTypeOK, Miss
  <2>2. ComputedFresh'
    BY DEF FlagIInv, FlagTypeOK, ComputedFresh, Miss
  <2> QED
    BY <2>1, <2>2 DEF FlagIInv, Miss, FreshUnlessRaced, CacheIsFresh
<1>3. CASE Compute(h)
  <2>1. FlagTypeOK'
    BY <1>3, AuditedBoolean DEF FlagIInv, FlagTypeOK, Compute
  <2>2. ComputedFresh'
    BY <1>3 DEF FlagIInv, FlagTypeOK, ComputedFresh, Compute
  <2> QED
    BY <1>3, <2>1, <2>2 DEF FlagIInv, Compute, FreshUnlessRaced, CacheIsFresh
<1> QED
  BY <1>1, <1>2, <1>3

\* What the steps keep holds always.
LEMMA FlagInvariant == FlagSpec => []FlagIInv
<1>1. FlagIInv /\ [FlagNext]_flagVars => FlagIInv'
  <2> SUFFICES ASSUME FlagIInv, [FlagNext]_flagVars PROVE FlagIInv'
    OBVIOUS
  <2>1. CASE UNCHANGED flagVars
    BY <2>1 DEF flagVars, FlagIInv, FlagTypeOK, FreshUnlessRaced, CacheIsFresh, ComputedFresh
  <2> QED
    BY <2>1, SetPolicyPreserves, ClearPreserves, PutPreserves, AskPreserves DEF FlagNext
<1> QED
  BY InitFresh, <1>1, PTL DEF FlagSpec

\* No stale audit flag survives a change of policy that no handler raced.
THEOREM FlagFresh == FlagSpec => []FreshUnlessRaced
<1>1. FlagIInv => FreshUnlessRaced
  BY DEF FlagIInv
<1> QED
  BY <1>1, FlagInvariant, PTL

-----------------------------------------------------------------------------
(* The bound of the cache. *)

\* A set with one more element.
LEMMA OneMore ==
  ASSUME NEW S, NEW x, IsFiniteSet(S)
  PROVE  IsFiniteSet(S \cup {x}) /\ Cardinality(S \cup {x}) <= Cardinality(S) + 1
<1>1. Cardinality(S) \in Nat
  BY FS_CardinalityType
<1>2. CASE x \in S
  <2>1. Cardinality(S \cup {x}) = Cardinality(S)
    BY <1>2, FS_AddElement
  <2> QED
    BY <1>1, <2>1, FS_AddElement
<1>3. CASE x \notin S
  <2>1. Cardinality(S \cup {x}) = Cardinality(S) + 1
    BY <1>3, FS_AddElement
  <2> QED
    BY <1>1, <2>1, FS_AddElement
<1> QED
  BY <1>2, <1>3

\* The cache that is emptied when it is full and then gets one more entry.
LEMMA PutBounded ==
  ASSUME FlagTypeOK, EntriesBounded, NEW h \in Handler, Put(h), ~raced
  PROVE  EntriesBounded'
<1>1. PICK full \in BOOLEAN :
        /\ full = (Cardinality(Entries) > MaxEntries)
        /\ cachedAuditFlag' =
               [IF full THEN NoFlags ELSE cachedAuditFlag EXCEPT ![path[h]] = ret[h]]
  BY DEF Put, SeemsFull
<1>2. IsFiniteSet(Entries) /\ Cardinality(Entries) \in Nat
  BY FS_CardinalityType DEF EntriesBounded
<1>3. /\ cachedAuditFlag \in [Path -> BOOLEAN \cup {NoFlag}] /\ path[h] \in Path
      /\ ret[h] # NoFlag
  BY FlagAssumption DEF FlagTypeOK
<1>4. CASE Cardinality(Entries) > MaxEntries
  <2>1. full
    BY <1>1, <1>4, Zenon
  <2>2. Entries' = {path[h]}
    BY <1>1, <1>3, <2>1 DEF Entries, NoFlags
  <2>3. IsFiniteSet({path[h]}) /\ Cardinality({path[h]}) = 1
    BY FS_Singleton
  <2>4. 1 <= MaxEntries + 1
    BY FlagAssumption
  <2> QED
    BY <2>2, <2>3, <2>4, Zenon DEF EntriesBounded
<1>5. CASE ~(Cardinality(Entries) > MaxEntries)
  <2> DEFINE both == Entries \cup {path[h]}
  <2>1. ~full
    BY <1>1, <1>5, Zenon
  <2>2. Entries' = both
    BY <1>1, <1>3, <2>1 DEF Entries
  <2>3. IsFiniteSet(both) /\ Cardinality(both) <= Cardinality(Entries) + 1
    BY <1>2, OneMore
  <2>4. Cardinality(both) \in Nat
    BY <2>3, FS_CardinalityType
  <2>5. Cardinality(both) <= MaxEntries + 1
    BY <1>2, <1>5, <2>3, <2>4, FlagAssumption
  <2> HIDE DEF both
  <2> QED
    BY <2>2, <2>3, <2>5, Zenon DEF EntriesBounded
<1> QED
  BY <1>4, <1>5

\* The cache never holds more than one entry above its bound, unless a change of
\* policy met a handler about to put one.
THEOREM FlagBounded == FlagSpec => []CacheBounded
<1>1. FlagInit => raced \/ EntriesBounded
  <2> SUFFICES ASSUME FlagInit PROVE EntriesBounded
    OBVIOUS
  <2>1. Entries = {}
    BY DEF FlagInit, Entries, NoFlags
  <2> QED
    BY <2>1, FS_EmptySet, FlagAssumption DEF EntriesBounded
<1>2. FlagIInv /\ (raced \/ EntriesBounded) /\ [FlagNext]_flagVars => (raced \/ EntriesBounded)'
  <2>0. [FlagNext]_flagVars => (raced => raced')
    BY DEF FlagNext, SetPolicy, Clear, Hit, Miss, Compute, Put, flagVars
  <2> SUFFICES ASSUME FlagIInv, EntriesBounded, ~raced, ~raced', [FlagNext]_flagVars
               PROVE  EntriesBounded'
    BY <2>0, Zenon
  <2>1. ASSUME cachedAuditFlag' = cachedAuditFlag PROVE EntriesBounded'
    BY <2>1 DEF EntriesBounded, Entries
  <2>2. CASE Clear
    <3>1. \A p \in Path : cachedAuditFlag'[p] = NoFlag
      BY <2>2 DEF Clear
    <3>2. Entries' = {}
      BY <3>1 DEF Entries
    <3> QED
      BY <3>2, FS_EmptySet, FlagAssumption DEF EntriesBounded
  <2>3. ASSUME NEW h \in Handler, Put(h) PROVE EntriesBounded'
    BY <2>3, PutBounded DEF FlagIInv
  <2> QED
    BY <2>1, <2>2, <2>3 DEF FlagNext, SetPolicy, Hit, Miss, Compute, flagVars
<1>3. (raced \/ EntriesBounded) => CacheBounded
  BY DEF CacheBounded, EntriesBounded
<1> QED
  BY <1>1, <1>2, <1>3, FlagInvariant, PTL DEF FlagSpec

-----------------------------------------------------------------------------

USE FlagAssumption, NameNodeAssumption

LEMMA NormalPath == \A p \in InodePath : p \in Path /\ Normal(p) \in Path
  BY DEF Normal

LEMMA NoCheckType == NoCheck \in [path : InodePath, action : Action]
  BY DEF NoCheck

\* At first nobody asks for anything.
LEMMA InitNameNode == NameNodeInit => NameNodeIInv
<1> SUFFICES ASSUME NameNodeInit PROVE NameNodeIInv
  OBVIOUS
<1>1. FlagTypeOK
  BY InitFresh DEF NameNodeInit, FlagIInv
<1>v. VerifierTypeOK
  BY Zenon DEF NameNodeInit, VerifierTypeOK
<1>2. NameNodeTypeOK
  BY <1>1, <1>v, NoCheckType DEF NameNodeInit, NameNodeTypeOK, Phases, Outcomes
<1> QED
  BY <1>2 DEF NameNodeIInv, AskedSoFar, AskedBy, GrantedByThePolicy, GrantedTo, NameNodeInit

-----------------------------------------------------------------------------
(* The steps on audit flags are those of AuditFlag. *)

\* A step of the name node is a step of AuditFlag or leaves its state alone.
LEMMA StepIsFlagStep ==
  NameNodeTypeOK /\ [NameNodeNext]_nameNodeVars => [FlagNext]_flagVars
<1> SUFFICES ASSUME NameNodeTypeOK, [NameNodeNext]_nameNodeVars PROVE [FlagNext]_flagVars
  OBVIOUS
<1>e. ASSUME NEW h \in Handler, ToBeWritten(h) PROVE event(h).path \in Path
  BY <1>e DEF ToBeWritten, event, NameNodeTypeOK, Event
<1>1. CASE UNCHANGED nameNodeVars
  BY <1>1 DEF nameNodeVars
<1>2. CASE Refresh
  BY <1>2 DEF Refresh, FlagNext
<1>3. ASSUME NEW h \in Handler,
             \/ CheckPermission(h) \/ Check(h) \/ CheckNoInode(h)
             \/ Authorize(h) \/ AuthorizeNothing(h) \/ HadoopCheck(h) \/ Return(h)
             \/ WriteNothing(h) \/ WriteFails(h)
      PROVE  UNCHANGED flagVars
  BY <1>3 DEF CheckPermission, Check, CheckNoInode, Authorize, AuthorizeNothing, HadoopCheck,
              Return, WriteNothing, WriteFails
<1>4. ASSUME NEW h \in Handler,
             WriteCached(h) \/ AskPolicy(h) \/ AnswerByPolicy(h) \/ WriteComputed(h)
      PROVE  FlagNext
  BY <1>4, <1>e DEF WriteCached, AskPolicy, AnswerByPolicy, WriteComputed, FlagNext
<1> QED
  BY <1>1, <1>2, <1>3, <1>4 DEF NameNodeNext

LEMMA FlagTypePreserved ==
  ASSUME FlagTypeOK, [FlagNext]_flagVars PROVE FlagTypeOK'
<1>1. CASE SetPolicy
  BY <1>1 DEF SetPolicy, FlagTypeOK
<1>2. CASE Clear
  BY <1>2 DEF Clear, FlagTypeOK
<1>3. ASSUME NEW h \in Handler, NEW p \in Path, Hit(h, p) \/ Miss(h, p) PROVE FlagTypeOK'
  BY <1>3 DEF Hit, Miss, FlagTypeOK, flagVars
<1>4. ASSUME NEW h \in Handler, Compute(h) PROVE FlagTypeOK'
  BY <1>4, AuditedBoolean DEF Compute, FlagTypeOK, Audited
<1>5. ASSUME NEW h \in Handler, Put(h) PROVE FlagTypeOK'
  <2> PICK full \in BOOLEAN :
        cachedAuditFlag' =
            [IF full THEN NoFlags ELSE cachedAuditFlag EXCEPT ![path[h]] = ret[h]]
    BY <1>5 DEF Put
  <2>1. /\ cachedAuditFlag \in [Path -> BOOLEAN \cup {NoFlag}]
        /\ NoFlags \in [Path -> BOOLEAN \cup {NoFlag}]
        /\ ret[h] \in BOOLEAN
    BY DEF FlagTypeOK, NoFlags
  <2>2. cachedAuditFlag' \in [Path -> BOOLEAN \cup {NoFlag}]
    BY <2>1
  <2> QED
    BY <1>5, <2>2 DEF Put, FlagTypeOK
<1>6. CASE UNCHANGED flagVars
  BY <1>6 DEF flagVars, FlagTypeOK
<1> QED
  BY <1>1, <1>2, <1>3, <1>4, <1>5, <1>6 DEF FlagNext

-----------------------------------------------------------------------------
(* The invariant. *)

\* An event has the type of events.
LEMMA LogEventType ==
  ASSUME NameNodeTypeOK, NEW h \in Handler, NEW module \in {"xasecure", "hadoop"},
         NEW p \in Path, NEW action \in Action, NEW granted \in BOOLEAN,
         LogEvent(h, module, p, action, granted)
  PROVE  /\ currentValidatedLogEvent' \in [Handler -> Event \cup {NoEvent}]
         /\ own' \in [Handler -> BOOLEAN]
<1>1. user[h] \in User
  BY DEF NameNodeTypeOK
<1>2. [module |-> module, user |-> user[h], path |-> p, action |-> action,
       accessGranted |-> granted] \in Event
  BY <1>1 DEF Event
<1> QED
  BY <1>2 DEF LogEvent, NameNodeTypeOK

\* The result of an authorisation leaves the types as they are.
LEMMA DecidedType ==
  ASSUME NameNodeTypeOK, NEW h \in Handler, NEW granted \in BOOLEAN, Decided(h, granted)
  PROVE  /\ currentValidatedLogEvent' \in [Handler -> Event \cup {NoEvent}]
         /\ own' \in [Handler -> BOOLEAN]
         /\ phase' \in [Handler -> Phases]
         /\ outcome' \in [Handler -> Outcomes]
         /\ checked' \in [Handler -> [path : InodePath, action : Action]]
<1>1. checked[h] \in [path : InodePath, action : Action]
  BY DEF NameNodeTypeOK
<1>2. Normal(checked[h].path) \in Path /\ checked[h].action \in Action
  BY <1>1, NormalPath
<1>3. /\ currentValidatedLogEvent' \in [Handler -> Event \cup {NoEvent}]
      /\ own' \in [Handler -> BOOLEAN]
  BY <1>2, LogEventType DEF Decided
<1>4. phase' \in [Handler -> Phases] /\ outcome' \in [Handler -> Outcomes]
  BY DEF Decided, NameNodeTypeOK, Phases, Outcomes, Passes, Refuses, Goto, Ends
<1>5. checked' \in [Handler -> [path : InodePath, action : Action]]
  BY <1>1, NoCheckType DEF Decided, CheckEnds, NameNodeTypeOK
<1> QED
  BY <1>3, <1>4, <1>5

LEMMA VerifierTypePreserved ==
  ASSUME NameNodeTypeOK, [NameNodeNext]_nameNodeVars PROVE VerifierTypeOK'
<1>1. UNCHANGED <<addHadoopAuth, verifier>> /\ (authorizer' = authorizer \/ authorizer' = TRUE)
  BY DEF nameNodeVars, NameNodeNext, Refresh, CheckPermission, Check, CheckNoInode, Authorize,
         AuthorizeNothing, HadoopCheck, Return, WriteNothing, WriteFails, WriteCached,
         AskPolicy, AnswerByPolicy, WriteComputed, configVars
<1>2. VerifierTypeOK
  BY DEF NameNodeTypeOK
<1> QED
  BY <1>1, <1>2, Zenon DEF VerifierTypeOK

\* The types of a request's variables are kept by every step.
LEMMA TypePreserved ==
  ASSUME NameNodeTypeOK, [NameNodeNext]_nameNodeVars PROVE NameNodeTypeOK'
<1>f. FlagTypeOK'
  BY StepIsFlagStep, FlagTypePreserved DEF NameNodeTypeOK
<1>v. VerifierTypeOK'
  BY VerifierTypePreserved
<1>1. CASE UNCHANGED nameNodeVars
  BY <1>1, <1>f, <1>v DEF nameNodeVars, configVars, requestVars, checkVars, eventVars, endVars,
                    NameNodeTypeOK
<1>2. CASE Refresh
  BY <1>2, <1>f, <1>v DEF Refresh, configVars, requestVars, checkVars, eventVars, endVars,
                    NameNodeTypeOK
<1>3. ASSUME NEW h \in Handler,
             \/ CheckPermission(h) \/ Check(h) \/ CheckNoInode(h)
             \/ Authorize(h) \/ AuthorizeNothing(h) \/ HadoopCheck(h) \/ Return(h)
      PROVE  NameNodeTypeOK'
  <2> USE DEF NameNodeTypeOK, configVars, requestVars, checkVars, eventVars, endVars, Goto, Ends
  <2>1. CASE CheckPermission(h)
    BY <2>1, <1>f, <1>v DEF CheckPermission, Phases, Outcomes
  <2>2. CASE Check(h)
    BY <2>2, <1>f, <1>v DEF Check, Phases
  <2>3. CASE CheckNoInode(h)
    <3>1. /\ currentValidatedLogEvent' \in [Handler -> Event \cup {NoEvent}]
          /\ own' \in [Handler -> BOOLEAN]
      <4> PICK action \in Action : LogEvent(h, "hadoop", <<>>, action, TRUE)
        BY <2>3 DEF CheckNoInode
      <4>1. <<>> \in Path
        OBVIOUS
      <4> QED
        BY <4>1, LogEventType
    <3>2. checks' \in [Handler -> Nat] /\ overtaken' \in [Handler -> BOOLEAN]
      BY <2>3 DEF CheckNoInode
    <3>3. UNCHANGED <<configVars, phase, requestVars, checked, accessTypes, endVars>>
      BY <2>3 DEF CheckNoInode
    <3> QED
      BY <3>1, <3>2, <3>3, <1>f, <1>v
  <2>4. CASE Authorize(h)
    <3>p. PICK granted \in BOOLEAN :
          /\ accessTypes' = [accessTypes EXCEPT ![h] = IF granted THEN Tail(@) ELSE <<>>]
          /\ IF granted /\ Len(accessTypes[h]) > 1
             THEN UNCHANGED <<phase, eventVars, outcome, checked>>
             ELSE Decided(h, granted)
      BY <2>4 DEF Authorize
    <3>1. accessTypes' \in [Handler -> Seq(STRING)]
      <4>1. accessTypes[h] \in Seq(STRING) /\ accessTypes[h] # <<>>
        BY <2>4 DEF Authorize
      <4>2. Tail(accessTypes[h]) \in Seq(STRING) /\ <<>> \in Seq(STRING)
        BY <4>1
      <4> QED
        BY <4>2, <3>p
    <3>2. CASE granted /\ Len(accessTypes[h]) > 1
      <4>1. /\ UNCHANGED <<phase, currentValidatedLogEvent, own, outcome, checked>>
            /\ UNCHANGED <<user, requests, checks, written, overtaken>>
        BY <2>4, <3>p, <3>2 DEF Authorize
      <4> QED
        BY <3>1, <4>1, <1>f, <1>v
    <3>3. CASE Decided(h, granted)
      <4>1. UNCHANGED <<user, requests, checks, written, overtaken>>
        BY <2>4 DEF Authorize
      <4>2. /\ currentValidatedLogEvent' \in [Handler -> Event \cup {NoEvent}]
            /\ own' \in [Handler -> BOOLEAN]
            /\ phase' \in [Handler -> Phases]
            /\ outcome' \in [Handler -> Outcomes]
            /\ checked' \in [Handler -> [path : InodePath, action : Action]]
        BY <3>3, DecidedType
      <4> QED
        BY <3>1, <4>1, <4>2, <1>f, <1>v
    <3> QED
      BY <3>p, <3>2, <3>3
  <2>5. CASE AuthorizeNothing(h)
    <3>1. Decided(h, FALSE)
      BY <2>5 DEF AuthorizeNothing
    <3>2. accessTypes' \in [Handler -> Seq(STRING)]
      BY <2>5 DEF AuthorizeNothing
    <3> QED
      BY <2>5, <3>1, <3>2, DecidedType, <1>f, <1>v DEF AuthorizeNothing
  <2>6. CASE HadoopCheck(h)
    <3> PICK granted \in BOOLEAN :
          LogEvent(h, "hadoop", checked[h].path, checked[h].action, granted)
      BY <2>6 DEF HadoopCheck
    <3>1. checked[h] \in [path : InodePath, action : Action]
      OBVIOUS
    <3>2. /\ currentValidatedLogEvent' \in [Handler -> Event \cup {NoEvent}]
          /\ own' \in [Handler -> BOOLEAN]
      BY <3>1, NormalPath, LogEventType
    <3>3. checked' \in [Handler -> [path : InodePath, action : Action]]
      BY <2>6, <3>1, NoCheckType DEF HadoopCheck, CheckEnds
    <3>4. phase' \in [Handler -> Phases] /\ outcome' \in [Handler -> Outcomes]
      BY <2>6 DEF HadoopCheck, Passes, Refuses, Phases, Outcomes
    <3> QED
      BY <2>6, <3>2, <3>3, <3>4, <1>f, <1>v DEF HadoopCheck
  <2>7. CASE Return(h)
    BY <2>7, <1>f, <1>v DEF Return, Phases, Outcomes
  <2> QED
    BY <1>3, <2>1, <2>2, <2>3, <2>4, <2>5, <2>6, <2>7
<1>4. ASSUME NEW h \in Handler,
             \/ WriteNothing(h) \/ WriteFails(h)
             \/ WriteCached(h) \/ AskPolicy(h) \/ AnswerByPolicy(h) \/ WriteComputed(h)
      PROVE  NameNodeTypeOK'
  <2> USE DEF NameNodeTypeOK, configVars, requestVars, checkVars, eventVars, endVars, Goto, Ends
  <2>1. CASE WriteNothing(h) \/ WriteFails(h)
    BY <2>1, <1>f, <1>v DEF WriteNothing, WriteFails, Phases, Outcomes
  <2>2. CASE AskPolicy(h) \/ AnswerByPolicy(h)
    BY <2>2, <1>f, <1>v DEF AskPolicy, AnswerByPolicy, Phases
  <2>3. CASE WriteCached(h) \/ WriteComputed(h)
    BY <2>3, <1>f, <1>v DEF WriteCached, WriteComputed, Write, event, Phases
  <2> QED
    BY <1>4, <2>1, <2>2, <2>3
<1> QED
  BY <1>1, <1>2, <1>3, <1>4 DEF NameNodeNext

\* What is asked for next, and what is left to ask for.
LEMMA HeadOrTail ==
  ASSUME NEW s \in Seq(STRING), s # <<>>
  PROVE  /\ Head(s) \in ToSet(s) /\ ToSet(Tail(s)) \subseteq ToSet(s)
         /\ \A t \in ToSet(s) : t = Head(s) \/ t \in ToSet(Tail(s))
         /\ Len(s) > 1 => Tail(s) # <<>>
         /\ Len(s) <= 1 => ToSet(Tail(s)) = {}
<1>1. Len(s) \in Nat /\ Len(s) > 0 /\ DOMAIN s = 1 .. Len(s)
  OBVIOUS
<1>2. /\ Len(Tail(s)) = Len(s) - 1
      /\ \A i \in 1 .. Len(s) - 1 : Tail(s)[i] = s[i + 1]
      /\ DOMAIN Tail(s) = 1 .. Len(s) - 1
  BY <1>1
<1>3. Head(s) = s[1]
  OBVIOUS
<1>4. ASSUME NEW i \in 1 .. Len(s) PROVE s[i] = Head(s) \/ s[i] \in ToSet(Tail(s))
  <2>1. CASE i = 1
    BY <2>1, <1>3
  <2>2. CASE i # 1
    <3>1. i - 1 \in DOMAIN Tail(s) /\ Tail(s)[i - 1] = s[i]
      BY <1>1, <1>2, <2>2
    <3> QED
      BY <3>1 DEF ToSet
  <2> QED
    BY <2>1, <2>2
<1>5. ASSUME NEW i \in DOMAIN Tail(s) PROVE Tail(s)[i] \in ToSet(s)
  <2>1. i + 1 \in DOMAIN s /\ Tail(s)[i] = s[i + 1]
    BY <1>1, <1>2
  <2> QED
    BY <2>1 DEF ToSet
<1>6. Len(s) > 1 => Tail(s) # <<>>
  <2>1. ASSUME NEW t \in Seq(STRING), Len(t) # 0 PROVE t # <<>>
    BY <2>1
  <2>2. Tail(s) \in Seq(STRING)
    OBVIOUS
  <2>3. Len(s) > 1 => Len(Tail(s)) # 0
    <3>1. ASSUME NEW n \in Nat, NEW l, l = n - 1, n > 1 PROVE l # 0
      BY <3>1
    <3>2. Len(s) \in Nat /\ Len(Tail(s)) = Len(s) - 1
      BY <1>1, <1>2
    <3> QED
      BY <3>1, <3>2, Zenon
  <2> QED
    BY <2>1, <2>2, <2>3
<1>7. Len(s) <= 1 => ToSet(Tail(s)) = {}
  BY <1>1, <1>2 DEF ToSet
<1> QED
  BY <1>1, <1>3, <1>4, <1>5, <1>6, <1>7 DEF ToSet
\* The end of an authorisation leaves an event that is what the policy says, if
\* the policy stayed the same.
LEMMA DecidedEvent ==
  ASSUME NameNodeTypeOK, NEW h \in Handler, NEW granted \in BOOLEAN, Decided(h, granted),
         phase[h] = "authorize"
  PROVE  LET e == currentValidatedLogEvent'[h]
         IN  /\ e.module = "xasecure" /\ e.accessGranted = granted /\ e.user = user[h]
             /\ e.path = Normal(checked[h].path) /\ e.action = checked[h].action
             /\ phase'[h] # "authorize"
  BY DEF Decided, LogEvent, NameNodeTypeOK, Phases, Passes, Refuses, Goto

\* What concerns the handlers that do not move is kept.
LEMMA OthersKept ==
  ASSUME NameNodeIInv, NEW g \in Handler, UNCHANGED <<policyContainer, verifier>>,
         /\ phase'[g] = phase[g] /\ user'[g] = user[g] /\ checked'[g] = checked[g]
         /\ accessTypes'[g] = accessTypes[g] /\ own'[g] = own[g]
         /\ currentValidatedLogEvent'[g] = currentValidatedLogEvent[g]
         /\ overtaken'[g] = overtaken[g]
  PROVE  AskedBy(g)' /\ GrantedTo(g)'
<1>1. AskedBy(g) /\ GrantedTo(g)
  BY DEF NameNodeIInv, AskedSoFar, GrantedByThePolicy
<1>2. AskedBy(g)'
  BY <1>1 DEF AskedBy
<1>3. GrantedTo(g)'
  BY <1>1 DEF GrantedTo, event
<1> QED
  BY <1>2, <1>3

\* A check asks one access type after another; if the policy stays the same,
\* what it grants is what the policy says of all of them.
LEMMA AuthorizePreserves ==
  ASSUME NameNodeIInv, NEW h \in Handler, Authorize(h)
  PROVE  AskedBy(h)' /\ GrantedTo(h)'
<1> DEFINE p == Normal(checked[h].path)
           all == AccessTypes[checked[h].action]
           left == accessTypes[h]
           Says(t) == isAccessGranted(policyContainer, p, t, user[h])
<1>1. /\ phase[h] = "authorize" /\ verifier /\ left # <<>> /\ left \in Seq(STRING)
      /\ UNCHANGED <<policyContainer, verifier, user, overtaken>>
  BY DEF Authorize, flagVars, configVars, requestVars, NameNodeIInv, NameNodeTypeOK
<1>2. /\ ToSet(left) \subseteq ToSet(all)
      /\ ~overtaken[h] => \A t \in ToSet(all) \ ToSet(left) : Says(t)
  BY <1>1 DEF NameNodeIInv, AskedSoFar, AskedBy
<1>3. all # <<>>
  <2>1. Head(left) \in ToSet(all)
    BY <1>1, <1>2, HeadOrTail
  <2>2. ToSet(<<>>) = {}
    BY DEF ToSet
  <2> QED
    BY <2>1, <2>2
<1>4. PICK granted \in BOOLEAN :
        /\ granted = Says(Head(left))
        /\ accessTypes' = [accessTypes EXCEPT ![h] = IF granted THEN Tail(@) ELSE <<>>]
        /\ IF granted /\ Len(left) > 1
           THEN UNCHANGED <<phase, eventVars, outcome, checked>>
           ELSE Decided(h, granted)
  BY DEF Authorize
<1>5. accessTypes'[h] = IF granted THEN Tail(left) ELSE <<>>
  BY <1>4 DEF NameNodeIInv, NameNodeTypeOK
<1>6. CASE granted /\ Len(left) > 1
  <2>1. accessTypes'[h] = Tail(left) /\ UNCHANGED <<phase, checked>>
    BY <1>4, <1>5, <1>6
  <2>2. Tail(left) # <<>> /\ ToSet(Tail(left)) \subseteq ToSet(all)
    BY <1>1, <1>2, <1>6, HeadOrTail
  <2>3. ~overtaken[h] => \A t \in ToSet(all) \ ToSet(Tail(left)) : Says(t)
    BY <1>1, <1>2, <1>4, <1>6, HeadOrTail
  <2>4. AskedBy(h)'
    BY <1>1, <2>1, <2>2, <2>3 DEF AskedBy
  <2>5. GrantedTo(h)'
    BY <1>1, <2>1 DEF GrantedTo
  <2> QED
    BY <2>4, <2>5
<1>7. CASE Decided(h, granted) /\ ~(granted /\ Len(left) > 1)
  <2>1. /\ phase'[h] # "authorize"
        /\ event(h)'.accessGranted = granted /\ event(h)'.user = user[h]
        /\ event(h)'.path = p /\ event(h)'.action = checked[h].action
    BY <1>1, <1>7, DecidedEvent DEF NameNodeIInv, event
  <2>2. ~overtaken[h] => (granted <=> \A t \in ToSet(all) : Says(t))
    <3>1. CASE granted
      <4>1. Len(left) <= 1
        BY <1>1, <1>7, <3>1
      <4>2. \A t \in ToSet(left) : t = Head(left)
        BY <1>1, <4>1, HeadOrTail
      <4> QED
        BY <1>2, <1>4, <3>1, <4>2
    <3>2. CASE ~granted
      BY <1>1, <1>2, <1>4, <3>2, HeadOrTail
    <3> QED
      BY <3>1, <3>2
  <2>3. AskedBy(h)'
    BY <2>1 DEF AskedBy
  <2>4. GrantedTo(h)'
    BY <1>1, <1>3, <2>1, <2>2 DEF GrantedTo
  <2> QED
    BY <2>3, <2>4
<1> QED
  BY <1>4, <1>6, <1>7

\* With nobody to ask, or nothing to ask for, nothing is granted.
LEMMA AuthorizeNothingPreserves ==
  ASSUME NameNodeIInv, NEW h \in Handler, AuthorizeNothing(h)
  PROVE  AskedBy(h)' /\ GrantedTo(h)'
<1>1. /\ phase[h] = "authorize" /\ Decided(h, FALSE)
      /\ ~verifier \/ accessTypes[h] = <<>>
      /\ UNCHANGED <<policyContainer, verifier, user, overtaken>>
  BY DEF AuthorizeNothing, flagVars, configVars, requestVars
<1>2. ~verifier \/ AccessTypes[checked[h].action] = <<>>
  BY <1>1 DEF NameNodeIInv, AskedSoFar, AskedBy
<1>3. /\ phase'[h] # "authorize" /\ event(h)'.accessGranted = FALSE
      /\ event(h)'.action = checked[h].action
  BY <1>1, DecidedEvent DEF NameNodeIInv, event
<1>4. AskedBy(h)'
  BY <1>3 DEF AskedBy
<1>5. GrantedTo(h)'
  BY <1>1, <1>2, <1>3 DEF GrantedTo
<1> QED
  BY <1>4, <1>5

\* Every step keeps what was asked for and what was granted.
LEMMA GrantsPreserved ==
  ASSUME NameNodeIInv, [NameNodeNext]_nameNodeVars
  PROVE  \A g \in Handler : AskedBy(g)' /\ GrantedTo(g)'
<1> USE DEF NameNodeTypeOK, flagVars, configVars, requestVars, checkVars, eventVars, endVars,
            Goto, Ends
<1>t. NameNodeTypeOK
  BY DEF NameNodeIInv
<1>i. \A g \in Handler : AskedBy(g) /\ GrantedTo(g)
  BY DEF NameNodeIInv, AskedSoFar, GrantedByThePolicy
<1> TAKE g \in Handler
<1>1. CASE UNCHANGED nameNodeVars
  BY <1>1, OthersKept DEF nameNodeVars
<1>2. CASE Refresh
  <2>1. overtaken'[g] /\ UNCHANGED <<phase, checked, accessTypes>>
    BY <1>2 DEF Refresh
  <2>2. AskedBy(g)'
    BY <1>i, <2>1 DEF AskedBy
  <2>3. GrantedTo(g)'
    BY <2>1 DEF GrantedTo
  <2> QED
    BY <2>2, <2>3
<1>3. ASSUME NEW h \in Handler, CheckPermission(h) PROVE AskedBy(g)' /\ GrantedTo(g)'
  <2>1. CASE g = h
    BY <1>t, <1>3, <2>1 DEF CheckPermission, AskedBy, GrantedTo
  <2>2. CASE g # h
    BY <1>t, <1>3, <2>2, OthersKept DEF CheckPermission
  <2> QED
    BY <2>1, <2>2
<1>4. ASSUME NEW h \in Handler, Check(h) PROVE AskedBy(g)' /\ GrantedTo(g)'
  <2>1. CASE g = h
    <3>1. accessTypes'[h] = AccessTypes[checked'[h].action] /\ phase'[h] = "authorize"
      BY <1>t, <1>4 DEF Check
    <3>2. AskedBy(g)'
      BY <2>1, <3>1 DEF AskedBy
    <3>3. GrantedTo(g)'
      BY <2>1, <3>1 DEF GrantedTo
    <3> QED
      BY <3>2, <3>3
  <2>2. CASE g # h
    BY <1>t, <1>4, <2>2, OthersKept DEF Check
  <2> QED
    BY <2>1, <2>2
<1>5. ASSUME NEW h \in Handler, CheckNoInode(h) PROVE AskedBy(g)' /\ GrantedTo(g)'
  <2>1. CASE g = h
    <3>1. event(h)'.module = "hadoop" /\ phase'[h] # "authorize"
      BY <1>t, <1>5 DEF CheckNoInode, LogEvent, event
    <3> QED
      BY <2>1, <3>1 DEF AskedBy, GrantedTo
  <2>2. CASE g # h
    BY <1>t, <1>5, <2>2, OthersKept DEF CheckNoInode, LogEvent
  <2> QED
    BY <2>1, <2>2
<1>6. ASSUME NEW h \in Handler, Authorize(h) \/ AuthorizeNothing(h)
      PROVE  AskedBy(g)' /\ GrantedTo(g)'
  <2>1. CASE g = h
    BY <1>6, <2>1, AuthorizePreserves, AuthorizeNothingPreserves
  <2>2. CASE g # h
    BY <1>t, <1>6, <2>2, OthersKept
       DEF Authorize, AuthorizeNothing, Decided, LogEvent, CheckEnds, Passes, Refuses
  <2> QED
    BY <2>1, <2>2
<1>7. ASSUME NEW h \in Handler, HadoopCheck(h) PROVE AskedBy(g)' /\ GrantedTo(g)'
  <2>1. CASE g = h
    <3>1. event(h)'.module = "hadoop" /\ phase'[h] # "authorize"
      BY <1>t, <1>7 DEF HadoopCheck, LogEvent, Passes, Refuses, event
    <3> QED
      BY <2>1, <3>1 DEF AskedBy, GrantedTo
  <2>2. CASE g # h
    BY <1>t, <1>7, <2>2, OthersKept DEF HadoopCheck, LogEvent, CheckEnds, Passes, Refuses
  <2> QED
    BY <2>1, <2>2
<1>8. ASSUME NEW h \in Handler,
             \/ Return(h) \/ WriteNothing(h) \/ WriteFails(h) \/ WriteCached(h)
             \/ AskPolicy(h) \/ AnswerByPolicy(h) \/ WriteComputed(h)
      PROVE  AskedBy(g)' /\ GrantedTo(g)'
  <2>1. UNCHANGED <<policyContainer, configVars, user, checkVars, eventVars, overtaken>>
    BY <1>8 DEF Return, WriteNothing, WriteFails, WriteCached, AskPolicy, AnswerByPolicy,
                WriteComputed, Hit, Miss, Compute, Put
  <2>2. phase'[g] = phase[g] \/ (phase[g] # "authorize" /\ phase'[g] # "authorize")
    BY <1>t, <1>8 DEF Return, WriteNothing, WriteFails, WriteCached, AskPolicy,
                      AnswerByPolicy, WriteComputed, Write
  <2>3. CASE phase'[g] = phase[g]
    BY <2>1, <2>3, OthersKept
  <2>4. CASE phase[g] # "authorize" /\ phase'[g] # "authorize"
    <3>1. AskedBy(g)'
      BY <2>4 DEF AskedBy
    <3>2. GrantedTo(g)'
      BY <1>i, <2>1, <2>4 DEF GrantedTo, event
    <3> QED
      BY <3>1, <3>2
  <2> QED
    BY <2>2, <2>3, <2>4
<1> QED
  BY <1>1, <1>2, <1>3, <1>4, <1>5, <1>6, <1>7, <1>8 DEF NameNodeNext

LEMMA NameNodeInvariant == NameNodeSpec => []NameNodeIInv
<1>1. NameNodeIInv /\ [NameNodeNext]_nameNodeVars => NameNodeIInv'
  BY TypePreserved, GrantsPreserved DEF NameNodeIInv, AskedSoFar, GrantedByThePolicy
<1> QED
  BY <1>1, InitNameNode, PTL DEF NameNodeSpec

\* The variables of the agent keep their types, whatever Hadoop checks and
\* whatever policies come.
THEOREM NameNodeTyped == NameNodeSpec => []NameNodeTypeOK
<1>1. NameNodeIInv => NameNodeTypeOK
  BY DEF NameNodeIInv
<1> QED
  BY <1>1, NameNodeInvariant, PTL

\* A check grants exactly what the policy says of all the access types of its
\* action, unless the policy was refreshed since the check began.
THEOREM NameNodeGrants == NameNodeSpec => []GrantedByThePolicy
<1>1. NameNodeIInv => GrantedByThePolicy
  BY DEF NameNodeIInv
<1> QED
  BY <1>1, NameNodeInvariant, PTL

\* The agent uses the cache of audit flags as AuditFlag says it is used.
THEOREM NameNodeIsFlag == NameNodeSpec => FlagSpec
<1>1. NameNodeInit => FlagInit
  BY DEF NameNodeInit
<1>2. NameNodeTypeOK /\ [NameNodeNext]_nameNodeVars => [FlagNext]_flagVars
  BY StepIsFlagStep
<1> QED
  BY <1>1, <1>2, NameNodeTyped, PTL DEF NameNodeSpec, FlagSpec

\* So the cached flags are those of the current policy, unless a refresh met a
\* handler between the computation of a flag and its put.
THEOREM NameNodeFresh == NameNodeSpec => []FreshUnlessRaced
  BY NameNodeIsFlag, FlagFresh, PTL

-----------------------------------------------------------------------------
\* Whatever Hadoop checks, the audit record of a request tells what came of it.

LEMMA InitRecord == NameNodeInit => RecordIInv
  BY DEF NameNodeInit, RecordIInv, EventIsOwn, WrittenIsEvent, Answered

\* What concerns the handlers that do not move is kept.
LEMMA OtherRecordsKept ==
  ASSUME RecordIInv, NEW g \in Handler,
         UNCHANGED <<policyContainer, refreshPc, raced>>,
         /\ phase'[g] = phase[g] /\ user'[g] = user[g] /\ own'[g] = own[g]
         /\ currentValidatedLogEvent'[g] = currentValidatedLogEvent[g]
         /\ checks'[g] = checks[g] /\ outcome'[g] = outcome[g] /\ written'[g] = written[g]
         /\ path'[g] = path[g] /\ overtaken'[g] = overtaken[g]
  PROVE  EventIsOwn(g)' /\ WrittenIsEvent(g)'
<1>1. EventIsOwn(g) /\ WrittenIsEvent(g)
  BY DEF RecordIInv
<1>2. EventIsOwn(g)'
  BY <1>1 DEF EventIsOwn, event, Answered
<1>3. WrittenIsEvent(g)'
  BY <1>1 DEF WrittenIsEvent, event, Answered, Auditable
<1> QED
  BY <1>2, <1>3

\* The event of a check is of the request, and nothing has been written.
LEMMA CheckedRecord ==
  ASSUME NameNodeTypeOK, RecordIInv, NEW h \in Handler,
         NEW module, NEW p, NEW action, NEW granted \in BOOLEAN,
         NoEvent # [module |-> module, user |-> user[h], path |-> p, action |-> action,
                    accessGranted |-> granted],
         LogEvent(h, module, p, action, granted),
         phase[h] # "idle", UNCHANGED <<user, written>>,
         \/ phase'[h] = "checkPermission" /\ granted
         \/ phase'[h] = "hadoop"
         \/ phase'[h] = "writeLog" /\ ~granted /\ outcome'[h] = "refused"
         \/ phase'[h] = "idle" /\ outcome'[h] = "failed"
  PROVE  EventIsOwn(h)' /\ WrittenIsEvent(h)'
<1>1. /\ event(h)' # NoEvent /\ event(h)'.user = user[h] /\ event(h)'.accessGranted = granted
      /\ own'[h]
  BY DEF LogEvent, event, NameNodeTypeOK
<1>2. written[h] = NoEvent
  BY DEF RecordIInv, WrittenIsEvent
<1>3. ~Answered(h)'
  BY DEF Answered
<1>4. CASE phase'[h] = "checkPermission" /\ granted
  <2>1. granted = TRUE
    BY <1>4
  <2> QED
    BY <1>1, <1>2, <1>3, <1>4, <2>1 DEF EventIsOwn, WrittenIsEvent
<1>5. CASE phase'[h] = "writeLog" /\ ~granted /\ outcome'[h] = "refused"
  <2>1. granted = FALSE
    BY <1>5
  <2>2. event(h)'.accessGranted = (outcome'[h] # "refused")
    BY <1>1, <1>5, <2>1
  <2> QED
    BY <1>1, <1>2, <1>3, <1>5, <2>2 DEF EventIsOwn, WrittenIsEvent
<1>6. CASE phase'[h] \in {"hadoop", "idle"}
  BY <1>1, <1>2, <1>3, <1>6 DEF EventIsOwn, WrittenIsEvent
<1> QED
  BY <1>4, <1>5, <1>6

\* An event that is logged is one.
LEMMA LoggedIsEvent ==
  ASSUME NameNodeTypeOK, NEW h \in Handler, NEW module \in {"xasecure", "hadoop"},
         NEW p \in Path, NEW action \in Action, NEW granted \in BOOLEAN
  PROVE  NoEvent # [module |-> module, user |-> user[h], path |-> p, action |-> action,
                    accessGranted |-> granted]
<1> DEFINE e == [module |-> module, user |-> user[h], path |-> p, action |-> action,
                 accessGranted |-> granted]
<1>1. user[h] \in User
  BY DEF NameNodeTypeOK
<1>2. e \in Event
  BY <1>1 DEF Event
<1> HIDE DEF e
<1>3. NoEvent # e
  BY <1>2
<1> QED
  BY <1>3 DEF e

\* The decision of the agent leaves its event.
LEMMA DecidedRecord ==
  ASSUME NameNodeTypeOK, RecordIInv, NEW h \in Handler, NEW granted \in BOOLEAN,
         Decided(h, granted), phase[h] = "authorize", UNCHANGED <<user, written>>
  PROVE  EventIsOwn(h)' /\ WrittenIsEvent(h)'
<1>1. checked[h] \in [path : InodePath, action : Action]
  BY DEF NameNodeTypeOK
<1>2. Normal(checked[h].path) \in Path /\ checked[h].action \in Action
  BY <1>1, NormalPath
<1>3. LogEvent(h, "xasecure", Normal(checked[h].path), checked[h].action, granted)
  BY DEF Decided
<1>4. \/ phase'[h] = "checkPermission" /\ granted
      \/ phase'[h] = "hadoop"
      \/ phase'[h] = "writeLog" /\ ~granted /\ outcome'[h] = "refused"
  BY DEF Decided, Passes, Refuses, Goto, Ends, NameNodeTypeOK
<1>5. NoEvent # [module |-> "xasecure", user |-> user[h], path |-> Normal(checked[h].path),
                 action |-> checked[h].action, accessGranted |-> granted]
  BY <1>2, LoggedIsEvent
<1> QED
  BY <1>3, <1>4, <1>5, CheckedRecord

\* So does that of Hadoop.
LEMMA HadoopRecord ==
  ASSUME NameNodeTypeOK, RecordIInv, NEW h \in Handler, HadoopCheck(h)
  PROVE  EventIsOwn(h)' /\ WrittenIsEvent(h)'
<1>1. checked[h] \in [path : InodePath, action : Action]
  BY DEF NameNodeTypeOK
<1>2. PICK granted \in BOOLEAN :
        LogEvent(h, "hadoop", checked[h].path, checked[h].action, granted)
  BY DEF HadoopCheck
<1>3. currentValidatedLogEvent'[h].accessGranted = granted
  BY <1>2 DEF LogEvent, NameNodeTypeOK
<1>4. \/ granted /\ phase'[h] = "checkPermission"
      \/ ~granted /\ phase'[h] = "writeLog" /\ outcome'[h] = "refused"
      \/ phase'[h] = "idle" /\ outcome'[h] = "failed"
  BY <1>3 DEF HadoopCheck, Passes, Refuses, Goto, Ends, NameNodeTypeOK
<1>5. NoEvent # [module |-> "hadoop", user |-> user[h], path |-> checked[h].path,
                 action |-> checked[h].action, accessGranted |-> granted]
  BY <1>1, NormalPath, LoggedIsEvent
<1>6. phase[h] = "hadoop" /\ UNCHANGED <<user, written>>
  BY DEF HadoopCheck, requestVars
<1> QED
  BY <1>2, <1>4, <1>5, <1>6, CheckedRecord

\* The end of a request writes its event, if the answer it got is that of the
\* policy, or was got while the policy changed.
LEMMA WriteRecord ==
  ASSUME NameNodeTypeOK, RecordIInv, NEW h \in Handler, NEW enabled \in BOOLEAN,
         phase[h] \in {"writeLog", "isAuditLogEnabled"}, Write(h, enabled),
         UNCHANGED <<policyContainer, refreshPc, raced, user, own, currentValidatedLogEvent,
                     checks, outcome, overtaken>>,
         refreshPc = "idle" /\ ~raced => enabled = Audited(event(h).path)
  PROVE  EventIsOwn(h)' /\ WrittenIsEvent(h)'
<1>1. phase'[h] = "idle" /\ written'[h] = IF enabled THEN event(h) ELSE NoEvent
  BY DEF Write, Goto, NameNodeTypeOK
<1>2. event(h)' = event(h)
  BY DEF event
<1>3. EventIsOwn(h)
  BY DEF RecordIInv
<1>4. EventIsOwn(h)'
  BY <1>1, <1>2, <1>3 DEF EventIsOwn
<1>5. Auditable(h)' => written'[h] = event(h)
  BY <1>1, <1>2 DEF Auditable
<1>6. WrittenIsEvent(h)'
  BY <1>1, <1>2, <1>5 DEF WrittenIsEvent
<1> QED
  BY <1>4, <1>6

\* Every step keeps what the events and the records say.
LEMMA RecordPreserved ==
  ASSUME NameNodeTypeOK, FlagIInv, RecordIInv, [NameNodeNext]_nameNodeVars
  PROVE  RecordIInv'
<1> SUFFICES ASSUME NEW g \in Handler PROVE EventIsOwn(g)' /\ WrittenIsEvent(g)'
  BY DEF RecordIInv
<1> USE DEF configVars, requestVars, checkVars, eventVars, endVars, Goto, Ends
<1>i. EventIsOwn(g) /\ WrittenIsEvent(g)
  BY DEF RecordIInv
<1>1. CASE UNCHANGED nameNodeVars
  BY <1>1, OtherRecordsKept DEF nameNodeVars, flagVars
<1>2. CASE Refresh
  <2>1. /\ UNCHANGED <<phase, user, own, currentValidatedLogEvent, checks, outcome, written, path>>
        /\ overtaken'[g]
    BY <1>2 DEF Refresh, SetPolicy, Clear
  <2>2. EventIsOwn(g)'
    BY <1>i, <2>1 DEF EventIsOwn, event, Answered
  <2>3. WrittenIsEvent(g)'
    BY <1>i, <2>1 DEF WrittenIsEvent, event, Answered, Auditable
  <2> QED
    BY <2>2, <2>3
<1>3. ASSUME NEW h \in Handler, CheckPermission(h) \/ Check(h)
      PROVE  EventIsOwn(g)' /\ WrittenIsEvent(g)'
  <2>1. CASE g # h
    BY <1>3, <2>1, OtherRecordsKept DEF CheckPermission, Check, flagVars, NameNodeTypeOK
  <2>2. CASE g = h /\ CheckPermission(h)
    <3>1. /\ phase'[g] = "checkPermission" /\ checks'[g] = 0 /\ ~own'[g]
          /\ written'[g] = NoEvent
      BY <2>2 DEF CheckPermission, NameNodeTypeOK
    <3> QED
      BY <3>1 DEF EventIsOwn, WrittenIsEvent, Answered
  <2>3. CASE g = h /\ Check(h)
    <3>1. /\ phase[g] = "checkPermission" /\ phase'[g] = "authorize"
          /\ UNCHANGED <<user, own, currentValidatedLogEvent, written>>
      BY <2>3 DEF Check, NameNodeTypeOK
    <3> QED
      BY <1>i, <3>1 DEF EventIsOwn, WrittenIsEvent, event, Answered
  <2> QED
    BY <1>3, <2>1, <2>2, <2>3
<1>4. ASSUME NEW h \in Handler, CheckNoInode(h) PROVE EventIsOwn(g)' /\ WrittenIsEvent(g)'
  <2>1. CASE g # h
    BY <1>4, <2>1, OtherRecordsKept DEF CheckNoInode, LogEvent, flagVars, NameNodeTypeOK
  <2>2. CASE g = h
    <3>1. PICK action \in Action : LogEvent(h, "hadoop", <<>>, action, TRUE)
      BY <1>4 DEF CheckNoInode
    <3>2. NoEvent # [module |-> "hadoop", user |-> user[h], path |-> <<>>,
                     action |-> action, accessGranted |-> TRUE]
      <4>1. <<>> \in Path
        OBVIOUS
      <4> QED
        BY <4>1, LoggedIsEvent
    <3>3. /\ phase[h] = "checkPermission" /\ phase'[h] = "checkPermission"
          /\ UNCHANGED <<user, written>>
      BY <1>4 DEF CheckNoInode
    <3> QED
      BY <2>2, <3>1, <3>2, <3>3, CheckedRecord
  <2> QED
    BY <2>1, <2>2
<1>5. ASSUME NEW h \in Handler, Authorize(h) \/ AuthorizeNothing(h)
      PROVE  EventIsOwn(g)' /\ WrittenIsEvent(g)'
  <2>1. /\ UNCHANGED <<policyContainer, refreshPc, raced, user, checks, written, path, overtaken>>
        /\ phase[h] = "authorize"
    BY <1>5 DEF Authorize, AuthorizeNothing, flagVars
  <2>2. CASE UNCHANGED <<phase, eventVars, outcome, checked>>
    BY <2>1, <2>2, OtherRecordsKept
  <2>3. ASSUME NEW granted \in BOOLEAN, Decided(h, granted)
        PROVE  EventIsOwn(g)' /\ WrittenIsEvent(g)'
    <3>1. CASE g = h
      BY <2>1, <2>3, <3>1, DecidedRecord
    <3>2. CASE g # h
      BY <2>1, <2>3, <3>2, OtherRecordsKept
         DEF Decided, LogEvent, Passes, Refuses, NameNodeTypeOK
    <3> QED
      BY <3>1, <3>2
  <2> QED
    BY <1>5, <2>2, <2>3 DEF Authorize, AuthorizeNothing
<1>6. ASSUME NEW h \in Handler, HadoopCheck(h) PROVE EventIsOwn(g)' /\ WrittenIsEvent(g)'
  <2>1. CASE g # h
    BY <1>6, <2>1, OtherRecordsKept
       DEF HadoopCheck, LogEvent, Passes, Refuses, flagVars, NameNodeTypeOK
  <2> QED
    BY <1>6, <2>1, HadoopRecord
<1>7. ASSUME NEW h \in Handler, Return(h) \/ WriteNothing(h) \/ WriteFails(h)
      PROVE  EventIsOwn(g)' /\ WrittenIsEvent(g)'
  <2>1. CASE g # h
    BY <1>7, <2>1, OtherRecordsKept
       DEF Return, WriteNothing, WriteFails, flagVars, NameNodeTypeOK
  <2>2. CASE g = h
    <3>1. /\ UNCHANGED <<flagVars, user, own, currentValidatedLogEvent, checks, written, overtaken>>
          /\ phase[g] \in {"checkPermission", "writeLog"}
      BY <1>7, <2>2 DEF Return, WriteNothing, WriteFails
    <3>2. written[g] = NoEvent
      BY <1>i, <3>1 DEF WrittenIsEvent
    <3>3. CASE phase'[g] = "idle" /\ outcome'[g] = "failed"
      BY <1>i, <3>1, <3>2, <3>3 DEF EventIsOwn, WrittenIsEvent, event, Answered
    <3>4. CASE /\ phase[g] = "checkPermission" /\ phase'[g] = "writeLog"
               /\ outcome'[g] \in {"allowed", "refusedElsewhere"}
      <4>1. outcome'[g] # "refused"
        BY <3>4
      <4>2. own[g] => event(g).accessGranted = (outcome'[g] # "refused")
        BY <1>i, <3>4, <4>1 DEF EventIsOwn
      <4> QED
        BY <1>i, <3>1, <3>2, <3>4, <4>2 DEF EventIsOwn, WrittenIsEvent, event, Answered
    <3>5. CASE WriteNothing(g)
      <4>1. /\ ~ToBeWritten(g) /\ phase[g] = "writeLog" /\ phase'[g] = "idle"
            /\ outcome' = outcome
        BY <3>5 DEF WriteNothing, NameNodeTypeOK
      <4>2. ~Auditable(g)'
        BY <1>i, <3>1, <4>1 DEF EventIsOwn, ToBeWritten, Auditable, event
      <4>3. EventIsOwn(g)'
        BY <1>i, <3>1, <4>1 DEF EventIsOwn, event
      <4> QED
        BY <3>1, <3>2, <4>1, <4>2, <4>3 DEF WrittenIsEvent
    <3> QED
      BY <1>7, <2>2, <3>3, <3>4, <3>5 DEF Return, WriteFails, NameNodeTypeOK
  <2> QED
    BY <2>1, <2>2
<1>8. ASSUME NEW h \in Handler, AskPolicy(h) \/ AnswerByPolicy(h)
      PROVE  EventIsOwn(g)' /\ WrittenIsEvent(g)'
  <2>1. UNCHANGED <<policyContainer, refreshPc, raced, user, own, currentValidatedLogEvent,
                    checks, outcome, written, overtaken>>
    BY <1>8 DEF AskPolicy, AnswerByPolicy, Miss, Compute
  <2>2. CASE g # h \/ AnswerByPolicy(h)
    BY <1>8, <2>1, <2>2, OtherRecordsKept
       DEF AskPolicy, AnswerByPolicy, Miss, Compute, NameNodeTypeOK, FlagTypeOK
  <2>3. CASE g = h /\ AskPolicy(h)
    <3>1. /\ phase[g] = "writeLog" /\ phase'[g] = "isAuditLogEnabled"
          /\ path'[g] = event(g).path
      BY <2>3 DEF AskPolicy, Miss, NameNodeTypeOK, FlagTypeOK
    <3> QED
      BY <1>i, <2>1, <3>1 DEF EventIsOwn, WrittenIsEvent, event, Answered
  <2> QED
    BY <1>8, <2>2, <2>3
<1>9. ASSUME NEW h \in Handler, WriteCached(h) \/ WriteComputed(h)
      PROVE  EventIsOwn(g)' /\ WrittenIsEvent(g)'
  <2>1. /\ UNCHANGED <<policyContainer, refreshPc, raced, user, own, currentValidatedLogEvent,
                       checks, outcome, path, overtaken>>
        /\ phase[h] \in {"writeLog", "isAuditLogEnabled"}
    BY <1>9 DEF WriteCached, WriteComputed, Hit, Put, flagVars
  <2>2. CASE g # h
    BY <1>9, <2>1, <2>2, OtherRecordsKept DEF WriteCached, WriteComputed, Write, NameNodeTypeOK
  <2>3. CASE g = h /\ WriteCached(h)
    <3>1. /\ Write(h, cachedAuditFlag[event(h).path]) /\ cachedAuditFlag[event(h).path] # NoFlag
          /\ event(h).path \in Path
      BY <2>3 DEF WriteCached, Hit, ToBeWritten, event, NameNodeTypeOK, Event
    <3>2. cachedAuditFlag[event(h).path] \in BOOLEAN
      BY <3>1 DEF NameNodeTypeOK, FlagTypeOK
    <3>3. refreshPc = "idle" /\ ~raced => cachedAuditFlag[event(h).path] = Audited(event(h).path)
      BY <3>1 DEF FlagIInv, FreshUnlessRaced, CacheIsFresh
    <3> QED
      BY <2>1, <2>3, <3>1, <3>2, <3>3, WriteRecord
  <2>4. CASE g = h /\ WriteComputed(h)
    <3>1. /\ Write(h, ret[h]) /\ handlerPc[h] = "put" /\ path[h] = event(h).path
      BY <1>i, <2>4 DEF WriteComputed, Put, WrittenIsEvent
    <3>2. ret[h] \in BOOLEAN
      BY DEF NameNodeTypeOK, FlagTypeOK
    <3>3. ~raced => ret[h] = Audited(event(h).path)
      BY <3>1 DEF FlagIInv, ComputedFresh
    <3> QED
      BY <2>1, <2>4, <3>1, <3>2, <3>3, WriteRecord
  <2> QED
    BY <1>9, <2>2, <2>3, <2>4
<1> QED
  BY <1>1, <1>2, <1>3, <1>4, <1>5, <1>6, <1>7, <1>8, <1>9 DEF NameNodeNext

\* The audit record of a request that was answered is of its own last check, with
\* its result, and is missing only where the policy does not ask for it or changed.
THEOREM NameNodeAudits == NameNodeSpec => []AuditTellsWhatHappened
<1>1. NameNodeTypeOK /\ FlagIInv /\ RecordIInv /\ [NameNodeNext]_nameNodeVars => RecordIInv'
  BY RecordPreserved
<1>2. NameNodeSpec => []FlagIInv
  BY NameNodeIsFlag, FlagInvariant, PTL
<1>3. NameNodeSpec => []RecordIInv
  BY <1>1, <1>2, InitRecord, NameNodeTyped, PTL DEF NameNodeSpec
<1>4. RecordIInv => AuditTellsWhatHappened
  BY DEF RecordIInv, EventIsOwn, WrittenIsEvent, AuditTellsWhatHappened, Answered
<1> QED
  BY <1>3, <1>4, PTL

\* Whatever policies are set, agent and policy manager agree on what they are about.
THEOREM NameNodeMatchersAgree == NameNodeSpec => []MatchersAgree
<1>1. Disagreed = {}
  BY PathAssumption, SameAnswer DEF Disagreed
<1>2. MatchersAgree
  BY <1>1 DEF MatchersAgree
<1> QED
  BY <1>2, PTL
=============================================================================
