--------------------- MODULE PolicyDistribution_proofs ---------------------
(***************************************************************************)
(* First the policy manager, for any number of requests, names,            *)
(* permissions and rows: it takes two transactions that give a name at the *)
(* same time for two rows to have it, and a delete or an update that was   *)
(* overtaken for the latest time of the repository to go back.  Then an    *)
(* agent polling it: comparing that time and the number of resources tells *)
(* the agent whether its policy is current, unless stamps come late.       *)
(***************************************************************************)
EXTENDS PolicyDistribution, FiniteSetTheorems, WellFoundedInduction, TLAPS

Ops == {"insert", "update", "rename", "delete", "grant", "revoke"}

\* Nothing is there to begin with.
LEMMA InitEstablishes == AdminInit => AdminIInv
  BY AdminAssumption DEF AdminInit, AdminIInv, AdminTypeOK, TransactionOK, RowsLocked,
     ReferencedRowExists, Flushed, GiversContend, GivenNameIsNew, NoDuplicateNames, Rows, Id

\* A request that begins changes no row: if it gives a name, no other row has it at
\* that time, and a request that is already giving it becomes a contender.
LEMMA BeginPreserves ==
  ASSUME AdminIInv, NEW r \in Request, NEW op \in Ops, NEW i \in Id, NEW n \in Name,
         NEW P \in SUBSET Perm, NEW D \in SUBSET Perm,
         Begin(r, op, i, n, P, D),
         op \in Naming => \A j \in Rows : row[j].name = n => j = i,
         op = "revoke" => P = {},
         nextId' \in 1 .. MaxId + 1, UNCHANGED <<row, clock>>
  PROVE  AdminIInv'
<1> DEFINE t == [op |-> op, id |-> i, name |-> n, perms |-> P, dropped |-> D,
                 time |-> IF op \in Stamping THEN clock ELSE 0,
                 phase |-> "checked", base |-> "current"]
<1> USE DEF AdminIInv
<1>1. /\ tx' = [tx EXCEPT ![r] = t]
      /\ tx \in [Request -> Tx \cup {Idle}]
      /\ tx[r] = Idle
  BY DEF Begin, AdminTypeOK
<1>2. t \in Tx /\ (op \in Stamping => t.time # 0)
  <2>1. (IF op \in Stamping THEN clock ELSE 0) \in 0 .. MaxTime
    BY AdminAssumption DEF AdminTypeOK
  <2>2. t \in Tx
    BY <2>1 DEF Tx, Ops
  <2>3. clock # 0
    BY AdminAssumption DEF AdminTypeOK
  <2> QED
    BY <2>2, <2>3
<1>3. /\ tx'[r] = t
      /\ \A s \in Request \ {r} : tx'[s] = tx[s]
  BY <1>1
<1>4. contended' = IF op \in Naming /\ Giving(n) # {} THEN contended \cup {n} ELSE contended
  BY DEF Begin, Contend
<1>5. contended \subseteq contended' /\ contended' \subseteq Name
  BY <1>4 DEF AdminTypeOK
<1>6. AdminTypeOK'
  BY <1>1, <1>2, <1>5 DEF AdminTypeOK
<1>7. TransactionOK'
  BY <1>2, <1>3 DEF TransactionOK
<1>8. \A s \in Request : Flushed(s)' => s # r /\ Flushed(s) /\ tx'[s] = tx[s]
  BY <1>3 DEF Flushed
<1>9. RowsLocked'
  BY <1>8 DEF RowsLocked
<1>10. ReferencedRowExists'
  BY <1>8 DEF ReferencedRowExists
<1>11. GiversContend'
  <2> SUFFICES ASSUME NEW q \in Request, NEW s \in Request, q # s,
                      tx'[q] # Idle, tx'[s] # Idle,
                      {tx'[q].op, tx'[s].op} \subseteq Naming, tx'[q].name = tx'[s].name
               PROVE  tx'[q].name \in contended'
    BY DEF GiversContend
  <2>1. CASE q = r
    BY <1>3, <1>4, <2>1 DEF Giving
  <2>2. CASE s = r
    BY <1>3, <1>4, <2>2 DEF Giving
  <2>3. CASE q # r /\ s # r
    BY <1>3, <1>5, <2>3 DEF GiversContend
  <2> QED
    BY <2>1, <2>2, <2>3
<1>12. GivenNameIsNew'
  BY <1>3, <1>5 DEF GivenNameIsNew, Rows
<1>13. NoDuplicateNames'
  BY <1>5 DEF NoDuplicateNames, Rows
<1> QED
  BY <1>6, <1>7, <1>9, <1>10, <1>11, <1>12, <1>13

\* What a flush does to its transaction.
LEMMA FlushEffect ==
  ASSUME AdminIInv, NEW r \in Request, Flush(r)
  PROVE  /\ tx[r] # Idle /\ tx[r] \in Tx /\ tx[r].phase = "checked"
         /\ tx'[r] \in Tx
         /\ tx'[r].op = tx[r].op /\ tx'[r].id = tx[r].id /\ tx'[r].name = tx[r].name
         /\ tx'[r].perms = tx[r].perms /\ tx'[r].base = tx[r].base
         /\ tx'[r].op \in Stamping =>
               tx'[r].time # 0 /\ tx[r].time <= tx'[r].time /\ tx'[r].time <= clock
         /\ tx'[r].op \notin Stamping => tx'[r].time = 0
         /\ \A s \in Request \ {r} : tx'[s] = tx[s]
         /\ tx' \in [Request -> Tx \cup {Idle}]
         /\ UNCHANGED <<row, nextId, clock, contended>>
<1>1. /\ tx[r] # Idle /\ tx[r] \in Tx /\ tx[r].phase = "checked"
      /\ tx \in [Request -> Tx \cup {Idle}] /\ clock \in 1 .. MaxTime
      /\ tx[r].op \in Stamping => tx[r].time # 0
      /\ UNCHANGED <<row, nextId, clock, contended>>
  BY DEF Flush, AdminIInv, AdminTypeOK, TransactionOK
<1>2. PICK t \in IF tx[r].op \in Stamping THEN tx[r].time .. clock ELSE {0} :
         tx' = [tx EXCEPT ![r].time = t, ![r].phase = "flushed"]
  BY DEF Flush
<1>3. /\ t \in 0 .. MaxTime
      /\ tx[r].op \in Stamping => t # 0 /\ tx[r].time <= t /\ t <= clock
      /\ tx[r].op \notin Stamping => t = 0
  <2>1. tx[r].time \in 0 .. MaxTime
    BY <1>1 DEF Tx
  <2> QED
    BY <1>1, <1>2, <2>1, AdminAssumption
<1>4. tx' = [tx EXCEPT ![r] = [tx[r] EXCEPT !.time = t, !.phase = "flushed"]]
  BY <1>1, <1>2
<1> DEFINE u == [tx[r] EXCEPT !.time = t, !.phase = "flushed"]
<1>5. /\ u \in Tx
      /\ u.op = tx[r].op /\ u.id = tx[r].id /\ u.name = tx[r].name
      /\ u.perms = tx[r].perms /\ u.base = tx[r].base /\ u.time = t
  BY <1>1, <1>3 DEF Tx
<1>6. tx'[r] = u /\ (\A s \in Request \ {r} : tx'[s] = tx[s])
      /\ tx' \in [Request -> Tx \cup {Idle}]
  BY <1>1, <1>4, <1>5
<1> QED
  BY <1>1, <1>3, <1>5, <1>6

\* A request flushes when nobody has the row locked, and adds perm maps to a row that
\* exists only.
LEMMA FlushPreserves == ASSUME AdminIInv, NEW r \in Request, Flush(r) PROVE AdminIInv'
<1> USE DEF AdminIInv
<1>1. /\ tx[r] # Idle
      /\ tx'[r].op = tx[r].op /\ tx'[r].id = tx[r].id /\ tx'[r].name = tx[r].name
      /\ tx'[r].perms = tx[r].perms
      /\ tx'[r].op \in Stamping => tx'[r].time # 0
      /\ \A s \in Request \ {r} : tx'[s] = tx[s]
      /\ tx' \in [Request -> Tx \cup {Idle}]
      /\ UNCHANGED <<row, nextId, clock, contended>>
  BY FlushEffect
<1>2. AdminTypeOK'
  BY <1>1 DEF AdminTypeOK
<1>3. TransactionOK'
  BY <1>1 DEF TransactionOK
<1>4. \A s \in Request \ {r} : Flushed(s)' <=> Flushed(s)
  BY <1>1 DEF Flushed
<1>5. RowsLocked'
  <2> SUFFICES ASSUME NEW q \in Request, NEW s \in Request, q # s, Flushed(q)', Flushed(s)',
                      tx'[q].id = tx'[s].id
               PROVE  ~Conflicting(tx'[q].op, tx'[s].op)
    BY DEF RowsLocked
  <2>1. ~Locked(r)
    BY DEF Flush
  <2>2. CASE q = r
    BY <1>1, <1>4, <2>1, <2>2 DEF Locked, Conflicting
  <2>3. CASE s = r
    BY <1>1, <1>4, <2>1, <2>3 DEF Locked, Conflicting
  <2>4. CASE q # r /\ s # r
    BY <1>1, <1>4, <2>4 DEF RowsLocked
  <2> QED
    BY <2>2, <2>3, <2>4
<1>6. ReferencedRowExists'
  <2>1. ForeignKeyHolds(tx[r])
    BY DEF Flush
  <2> QED
    BY <1>1, <1>4, <2>1 DEF ReferencedRowExists, ForeignKeyHolds
<1>7. GiversContend'
  <2> SUFFICES ASSUME NEW q \in Request, NEW s \in Request, q # s,
                      tx'[q] # Idle, tx'[s] # Idle,
                      {tx'[q].op, tx'[s].op} \subseteq Naming, tx'[q].name = tx'[s].name
               PROVE  tx'[q].name \in contended'
    BY DEF GiversContend
  <2>1. \A x \in {q, s} : tx[x] # Idle /\ tx'[x].op = tx[x].op /\ tx'[x].name = tx[x].name
    BY <1>1
  <2> QED
    BY <1>1, <2>1 DEF GiversContend
<1>8. GivenNameIsNew'
  <2> SUFFICES ASSUME NEW s \in Request, NEW j \in Rows', tx'[s] # Idle,
                      tx'[s].op \in Naming, tx'[s].id # j, tx'[s].name = row'[j].name
               PROVE  tx'[s].name \in contended'
    BY DEF GivenNameIsNew
  <2>1. /\ tx[s] # Idle /\ tx'[s].op = tx[s].op /\ tx'[s].name = tx[s].name
        /\ tx'[s].id = tx[s].id
    BY <1>1
  <2> QED
    BY <1>1, <2>1 DEF GivenNameIsNew, Rows
<1>9. NoDuplicateNames'
  BY <1>1 DEF NoDuplicateNames, Rows
<1> QED
  BY <1>2, <1>3, <1>5, <1>6, <1>7, <1>8, <1>9

\* The row a transaction leaves is of its type, and has another name only if the
\* transaction was giving it; no permission is added to a row that is gone.
LEMMA CommittedRow ==
  ASSUME AdminIInv, NEW r \in Request, Flushed(r)
  PROVE  LET old == row[tx[r].id]
             new == Committed(tx[r])
         IN  /\ new \in Row \cup {NoRow}
             /\ tx[r].op \in Naming /\ new # NoRow => new.name = tx[r].name
             /\ tx[r].op \notin Naming /\ new # NoRow =>
                   old # NoRow /\ new.name = old.name
             /\ tx[r].op \in Stamping /\ new # NoRow => new.time = tx[r].time
             /\ tx[r].op \in PermsOnly /\ new # NoRow =>
                   old # NoRow /\ new.time = old.time
             /\ tx[r].op = "delete" => new = NoRow
             /\ tx[r].op # "delete" /\ old # NoRow => new # NoRow
             /\ tx[r].op \notin {"delete", "insert"} /\ old = NoRow => new = NoRow
<1> DEFINE t == tx[r]
           old == row[t.id]
<1>1. /\ t \in Tx /\ row \in [Id -> Row \cup {NoRow}] /\ old \in Row \cup {NoRow}
      /\ t.op \in Stamping => t.time \in 1 .. MaxTime
  <2>1. /\ t \in Tx /\ t # Idle /\ row \in [Id -> Row \cup {NoRow}]
    BY DEF AdminIInv, AdminTypeOK, Flushed
  <2>2. t.op \in Stamping => t.time # 0
    BY <2>1 DEF AdminIInv, TransactionOK
  <2>3. t.time \in 0 .. MaxTime /\ t.id \in Id
    BY <2>1 DEF Tx
  <2> QED
    BY <2>1, <2>2, <2>3, AdminAssumption
<1>2. CASE t.op = "insert"
  <2>1. Committed(t) = [name |-> t.name, perms |-> t.perms, time |-> t.time]
    BY <1>2 DEF Committed
  <2>2. Committed(t) \in Row
    BY <1>1, <1>2, <2>1 DEF Row, Tx, Stamping
  <2> QED
    BY <1>2, <2>1, <2>2, NullAssumption DEF Naming, PermsOnly, Stamping
<1>3. CASE t.op = "delete"
  <2>1. Committed(t) = NoRow
    BY <1>3 DEF Committed
  <2> QED
    BY <1>3, <2>1 DEF Naming, PermsOnly, Stamping
<1>4. CASE t.op \notin {"insert", "delete"} /\ old = NoRow
  <2>1. t.perms = {}
    BY <1>4 DEF AdminIInv, ReferencedRowExists
  <2>2. Committed(t) = NoRow
    BY <1>4, <2>1 DEF Committed
  <2> QED
    BY <1>4, <2>2
<1>5. CASE t.op \notin {"insert", "delete"} /\ old # NoRow
  <2>1. Committed(t) = Changed(t, old)
    BY <1>5 DEF Committed
  <2>2. /\ Changed(t, old).name = IF t.op = "rename" THEN t.name ELSE old.name
        /\ Changed(t, old).perms = (old.perms \ t.dropped) \cup t.perms
        /\ Changed(t, old).time = IF t.op \in Stamping THEN t.time ELSE old.time
    BY DEF Changed
  <2>3. old \in Row
    BY <1>1, <1>5
  <2>4. /\ (IF t.op = "rename" THEN t.name ELSE old.name) \in Name
        /\ (old.perms \ t.dropped) \cup t.perms \in SUBSET Perm
        /\ (IF t.op \in Stamping THEN t.time ELSE old.time) \in 1 .. MaxTime
    BY <1>1, <2>3 DEF Row, Tx
  <2>5. Changed(t, old) \in Row
    BY <2>4 DEF Changed, Row
  <2>6. Committed(t) # NoRow
    BY <2>1, <2>5, NullAssumption
  <2>7. t.op \in Ops
    BY <1>1 DEF Tx, Ops
  <2> QED
    BY <1>5, <2>1, <2>2, <2>5, <2>6, <2>7 DEF Naming, PermsOnly, Stamping, Ops
<1> QED
  BY <1>2, <1>3, <1>4, <1>5

\* A commit ends its transaction and may mark others as overtaken.
LEMMA CommitEffect ==
  ASSUME AdminIInv, NEW r \in Request, Commit(r)
  PROVE  /\ Flushed(r) /\ tx[r] # Idle /\ tx[r] \in Tx /\ tx[r].id \in Id
         /\ row \in [Id -> Row \cup {NoRow}]
         /\ row'[tx[r].id] = Committed(tx[r])
         /\ \A j \in Id \ {tx[r].id} : row'[j] = row[j]
         /\ tx'[r] = Idle
         /\ tx' \in [Request -> Tx \cup {Idle}]
         /\ \A s \in Request \ {r} :
               /\ tx'[s] # Idle => tx[s] # Idle
               /\ tx'[s] # Idle =>
                     /\ tx[s] \in Tx /\ tx'[s].op = tx[s].op /\ tx'[s].id = tx[s].id
                     /\ tx'[s].name = tx[s].name /\ tx'[s].perms = tx[s].perms
                     /\ tx'[s].time = tx[s].time /\ tx'[s].phase = tx[s].phase
                     /\ tx'[s].base = "current" =>
                           tx[s].base = "current" /\ ~Overtaken(s, r)
         /\ UNCHANGED <<nextId, clock, contended>>
<1>1. /\ Flushed(r) /\ tx[r] # Idle /\ tx[r] \in Tx /\ tx[r].id \in Id
      /\ row \in [Id -> Row \cup {NoRow}] /\ tx \in [Request -> Tx \cup {Idle}]
      /\ row' = [row EXCEPT ![tx[r].id] = Committed(tx[r])]
      /\ UNCHANGED <<nextId, clock, contended>>
  BY DEF Commit, Flushed, AdminIInv, AdminTypeOK, Tx
<1>2. tx' = [s \in Request |->
               IF s = r THEN Idle
               ELSE IF Overtaken(s, r) THEN [tx[s] EXCEPT !.base = "replaced"]
               ELSE tx[s]]
  BY DEF Commit
<1>3. ASSUME NEW s \in Request \ {r}
      PROVE  /\ tx'[s] \in Tx \cup {Idle}
             /\ tx'[s] # Idle => tx[s] # Idle
             /\ tx'[s] # Idle =>
                   /\ tx[s] \in Tx /\ tx'[s].op = tx[s].op /\ tx'[s].id = tx[s].id
                   /\ tx'[s].name = tx[s].name /\ tx'[s].perms = tx[s].perms
                   /\ tx'[s].time = tx[s].time /\ tx'[s].phase = tx[s].phase
                   /\ tx'[s].base = "current" => tx[s].base = "current" /\ ~Overtaken(s, r)
  <2>1. CASE Overtaken(s, r)
    <3> DEFINE u == [tx[s] EXCEPT !.base = "replaced"]
    <3>1. tx[s] # Idle /\ tx[s] \in Tx
      BY <1>1, <2>1 DEF Overtaken
    <3>2. tx'[s] = u
      BY <1>2, <2>1
    <3>3. /\ u \in Tx /\ u.op = tx[s].op /\ u.id = tx[s].id /\ u.name = tx[s].name
          /\ u.perms = tx[s].perms /\ u.time = tx[s].time /\ u.phase = tx[s].phase
          /\ u.base = "replaced"
      BY <3>1 DEF Tx
    <3> QED
      BY <3>1, <3>2, <3>3
  <2>2. CASE ~Overtaken(s, r)
    BY <1>1, <1>2, <2>2
  <2> QED
    BY <2>1, <2>2
<1>4. tx'[r] = Idle /\ tx' \in [Request -> Tx \cup {Idle}]
  BY <1>2, <1>3
<1> QED
  BY <1>1, <1>3, <1>4

\* A commit gives a row only the name its transaction was giving, which other rows
\* have, and other requests are giving, only if it was contended for.
LEMMA CommitPreserves == ASSUME AdminIInv, NEW r \in Request, Commit(r) PROVE AdminIInv'
<1> DEFINE k == tx[r].id
           new == Committed(tx[r])
<1> USE DEF AdminIInv
<1>1. /\ Flushed(r) /\ tx[r] # Idle /\ tx[r] \in Tx /\ k \in Id
      /\ row'[k] = new
      /\ \A j \in Id \ {k} : row'[j] = row[j]
      /\ tx'[r] = Idle
      /\ contended' = contended
  BY CommitEffect
<1>2. \A s \in Request : tx'[s] # Idle =>
         /\ s # r /\ tx[s] # Idle /\ tx[s] \in Tx
         /\ tx'[s].op = tx[s].op /\ tx'[s].id = tx[s].id /\ tx'[s].name = tx[s].name
         /\ tx'[s].perms = tx[s].perms /\ tx'[s].time = tx[s].time
         /\ tx'[s].phase = tx[s].phase
  BY CommitEffect
<1>3. AdminTypeOK'
  <2>1. row' \in [Id -> Row \cup {NoRow}]
    <3>1. row' = [row EXCEPT ![k] = new] /\ new \in Row \cup {NoRow}
      BY <1>1, CommittedRow DEF Commit
    <3> QED
      BY <3>1 DEF AdminTypeOK
  <2>2. tx' \in [Request -> Tx \cup {Idle}] /\ UNCHANGED <<nextId, clock, contended>>
    BY CommitEffect
  <2> QED
    BY <2>1, <2>2 DEF AdminTypeOK
<1>4. TransactionOK'
  BY <1>2 DEF TransactionOK
<1>5. RowsLocked'
  BY <1>2 DEF RowsLocked, Flushed
<1>6. ReferencedRowExists'
  <2> SUFFICES ASSUME NEW s \in Request, Flushed(s)', tx'[s].perms # {}, tx'[s].op # "insert"
               PROVE  row'[tx'[s].id] # NoRow
    BY DEF ReferencedRowExists
  <2>1. /\ s # r /\ Flushed(s) /\ tx[s].perms # {} /\ tx[s].op # "insert"
        /\ tx'[s].id = tx[s].id /\ tx[s].id \in Id
    BY <1>2 DEF Flushed, Tx
  <2>2. row[tx[s].id] # NoRow
    BY <2>1 DEF ReferencedRowExists
  <2>3. CASE tx[s].id = k
    <3>1. ~Conflicting(tx[r].op, tx[s].op)
      BY <1>1, <2>1, <2>3 DEF RowsLocked
    <3>2. tx[r].op # "delete" \/ tx[s].op = "revoke"
      BY <3>1 DEF Conflicting
    <3>3. CASE tx[r].op = "delete"
      BY <1>2, <2>1, <3>2, <3>3 DEF TransactionOK, Flushed
    <3>4. CASE tx[r].op # "delete"
      BY <1>1, <2>1, <2>2, <2>3, <3>4, CommittedRow
    <3> QED
      BY <3>3, <3>4
  <2>4. CASE tx[s].id # k
    BY <1>1, <2>1, <2>2, <2>4
  <2> QED
    BY <2>3, <2>4
<1>7. GiversContend'
  BY <1>1, <1>2 DEF GiversContend
<1>8. /\ Rows' \subseteq Rows \cup {k}
      /\ \A j \in Rows' \ {k} : j \in Rows /\ row'[j] = row[j]
  BY <1>1 DEF Rows
<1>9. CASE tx[r].op \in Naming /\ new # NoRow
  <2>1. row'[k].name = tx[r].name
    BY <1>1, <1>9, CommittedRow
  <2>2. GivenNameIsNew'
    <3> SUFFICES ASSUME NEW s \in Request, NEW j \in Rows', tx'[s] # Idle,
                        tx'[s].op \in Naming, tx'[s].id # j, tx'[s].name = row'[j].name
                 PROVE  tx'[s].name \in contended
      BY <1>1 DEF GivenNameIsNew
    <3>1. /\ s # r /\ tx[s] # Idle /\ tx[s].op \in Naming /\ tx[s].id # j
          /\ tx'[s].name = tx[s].name
      BY <1>2
    <3>2. CASE j = k
      BY <1>1, <1>9, <2>1, <3>1, <3>2 DEF GiversContend
    <3>3. CASE j # k
      BY <1>8, <3>1, <3>3 DEF GivenNameIsNew
    <3> QED
      BY <3>2, <3>3
  <2>3. NoDuplicateNames'
    <3> SUFFICES ASSUME NEW i \in Rows', NEW j \in Rows', row'[i].name = row'[j].name, i # j
                 PROVE  row'[i].name \in contended
      BY <1>1 DEF NoDuplicateNames
    <3>1. CASE i = k
      BY <1>1, <1>8, <1>9, <2>1, <3>1 DEF GivenNameIsNew
    <3>2. CASE j = k
      BY <1>1, <1>8, <1>9, <2>1, <3>2 DEF GivenNameIsNew
    <3>3. CASE i # k /\ j # k
      BY <1>8, <3>3 DEF NoDuplicateNames
    <3> QED
      BY <3>1, <3>2, <3>3
  <2> QED
    BY <1>3, <1>4, <1>5, <1>6, <1>7, <2>2, <2>3
<1>10. CASE ~(tx[r].op \in Naming /\ new # NoRow)
  <2>1. \A j \in Rows' : j \in Rows /\ row'[j].name = row[j].name
    BY <1>1, <1>8, <1>10, CommittedRow DEF Rows
  <2>2. GivenNameIsNew'
    <3> SUFFICES ASSUME NEW s \in Request, NEW j \in Rows', tx'[s] # Idle,
                        tx'[s].op \in Naming, tx'[s].id # j, tx'[s].name = row'[j].name
                 PROVE  tx'[s].name \in contended
      BY <1>1 DEF GivenNameIsNew
    <3> QED
      BY <1>2, <2>1 DEF GivenNameIsNew
  <2>3. NoDuplicateNames'
    BY <1>1, <2>1 DEF NoDuplicateNames
  <2> QED
    BY <1>3, <1>4, <1>5, <1>6, <1>7, <2>2, <2>3
<1> QED
  BY <1>9, <1>10

\* A rollback only takes a request away.
LEMMA RollbackPreserves == ASSUME AdminIInv, NEW r \in Request, Rollback(r) PROVE AdminIInv'
<1>1. tx' = [tx EXCEPT ![r] = Idle] /\ UNCHANGED <<row, nextId, clock, contended>>
  BY DEF Rollback
<1>2. tx \in [Request -> Tx \cup {Idle}]
  BY DEF AdminIInv, AdminTypeOK
<1>3. tx'[r] = Idle /\ \A s \in Request \ {r} : tx'[s] = tx[s]
  BY <1>1, <1>2
<1> QED
  BY <1>1, <1>2, <1>3 DEF AdminIInv, AdminTypeOK, TransactionOK, RowsLocked, ReferencedRowExists,
     Flushed, GiversContend, GivenNameIsNew, NoDuplicateNames, Rows

\* Every operation of a request begins with checks that meet BeginPreserves' conditions.
LEMMA RequestPreserves ==
  ASSUME AdminIInv, NEW r \in Request, RequestStep(r) PROVE AdminIInv'
<1> USE DEF Ops, Naming
<1>1. /\ nextId \in 1 .. MaxId + 1
      /\ \A i \in Rows : i \in Id /\ row[i] \in Row /\ row[i].perms \in SUBSET Perm
  BY DEF AdminIInv, AdminTypeOK, Rows, Row
<1>2. ASSUME NEW n \in Name, NEW P \in SUBSET Perm, Named(n) = {}, Insert(r, n, P),
             UNCHANGED <<row, clock>>
      PROVE  AdminIInv'
  <2>1. nextId \in Id /\ nextId' \in 1 .. MaxId + 1 /\ Begin(r, "insert", nextId, n, P, {})
    BY <1>1, <1>2, AdminAssumption DEF Insert, Id
  <2>2. \A j \in Rows : row[j].name # n
    BY <1>2 DEF Named
  <2> QED
    BY <1>2, <2>1, <2>2, BeginPreserves
<1>3. ASSUME NEW n \in Name, NEW P \in SUBSET Perm, CreateResource(r, n, P) PROVE AdminIInv'
  BY <1>2, <1>3 DEF CreateResource
<1>4. ASSUME NEW i \in Id, NEW n \in Name, NEW P \in SUBSET Perm, UpdateResource(r, i, n, P)
      PROVE  AdminIInv'
  <2> DEFINE op == IF n = row[i].name THEN "update" ELSE "rename"
  <2>1. \A j \in Rows : row[j].name = n => j = i
    BY <1>4 DEF UpdateResource, RefusedAsDuplicate, SameLong, Named
  <2>2. /\ i \in Rows /\ row[i].perms \in SUBSET Perm
        /\ Begin(r, op, i, n, P \ row[i].perms, row[i].perms \ P)
        /\ UNCHANGED <<row, nextId, clock>>
    BY <1>1, <1>4 DEF UpdateResource, Rows
  <2>3. P \ row[i].perms \in SUBSET Perm /\ row[i].perms \ P \in SUBSET Perm
    BY <2>2
  <2>4. op \in Ops /\ op # "revoke"
    OBVIOUS
  <2> HIDE DEF op
  <2> QED
    BY <1>1, <2>1, <2>2, <2>3, <2>4, BeginPreserves
<1>5. ASSUME NEW i \in Id, DeleteResource(r, i) PROVE AdminIInv'
  <2>1. row[i].name \in Name /\ row[i].perms \in SUBSET Perm
    BY <1>5 DEF DeleteResource, AdminIInv, AdminTypeOK, Row
  <2> QED
    BY <1>1, <1>5, <2>1, BeginPreserves DEF DeleteResource
<1>6. ASSUME NEW n \in Name, NEW P \in SUBSET Perm, GrantResource(r, n, P) PROVE AdminIInv'
  <2>1. CASE Named(n) = {} /\ Insert(r, n, P)
    BY <1>2, <1>6, <2>1 DEF GrantResource
  <2>2. ASSUME NEW i \in Named(n), NEW Q \in SUBSET Perm, NEW D \in SUBSET Perm,
               Begin(r, "grant", i, n, Q, D), UNCHANGED nextId
        PROVE  AdminIInv'
    BY <1>1, <1>6, <2>2, BeginPreserves DEF GrantResource, Named
  <2>3. CASE /\ \E i \in Named(n) :
                   \/ Begin(r, "grant", i, n, P \ row[i].perms, {})
                   \/ \E D \in SUBSET (row[i].perms \ P) : Begin(r, "grant", i, n, P, D)
             /\ UNCHANGED nextId
    <3> PICK i \in Named(n) :
           \/ Begin(r, "grant", i, n, P \ row[i].perms, {})
           \/ \E D \in SUBSET (row[i].perms \ P) : Begin(r, "grant", i, n, P, D)
      BY <2>3
    <3>1. row[i].perms \in SUBSET Perm
      BY <1>1 DEF Named
    <3>2. CASE Begin(r, "grant", i, n, P \ row[i].perms, {})
      BY <2>2, <2>3, <3>2
    <3>3. CASE \E D \in SUBSET (row[i].perms \ P) : Begin(r, "grant", i, n, P, D)
      <4> PICK D \in SUBSET (row[i].perms \ P) : Begin(r, "grant", i, n, P, D)
        BY <3>3
      <4>1. D \in SUBSET Perm
        BY <3>1
      <4> QED
        BY <2>2, <2>3, <4>1
    <3> QED
      BY <3>2, <3>3
  <2> QED
    BY <1>6, <2>1, <2>3 DEF GrantResource
<1>7. ASSUME NEW n \in Name, NEW P \in SUBSET Perm, RevokeResource(r, n, P) PROVE AdminIInv'
  <2> PICK i \in Named(n) : Begin(r, "revoke", i, n, {}, P \cap row[i].perms)
    BY <1>7 DEF RevokeResource
  <2>1. i \in Id /\ P \cap row[i].perms \in SUBSET Perm
    BY DEF Named, Rows
  <2> QED
    BY <1>1, <1>7, <2>1, BeginPreserves DEF RevokeResource
<1> QED
  BY <1>3, <1>4, <1>5, <1>6, <1>7, FlushPreserves, CommitPreserves, RollbackPreserves
     DEF RequestStep

\* The inductive invariant holds of every behaviour.
THEOREM AdminInductive == AdminSpec => []AdminIInv
<1>1. AdminIInv /\ [AdminNext]_adminVars => AdminIInv'
  <2> SUFFICES ASSUME AdminIInv, [AdminNext]_adminVars PROVE AdminIInv'
    OBVIOUS
  <2>1. CASE \E r \in Request : RequestStep(r)
    BY <2>1, RequestPreserves
  <2>2. CASE Tick \/ UNCHANGED adminVars
    <3>1. UNCHANGED <<row, nextId, tx, contended>> /\ clock' \in 1 .. MaxTime
      BY <2>2, AdminAssumption DEF Tick, adminVars, AdminIInv, AdminTypeOK
    <3> QED
      BY <3>1 DEF AdminIInv, AdminTypeOK, TransactionOK, RowsLocked, ReferencedRowExists,
         Flushed, GiversContend, GivenNameIsNew, NoDuplicateNames, Rows
  <2> QED
    BY <2>1, <2>2 DEF AdminNext
<1> QED
  BY <1>1, InitEstablishes, PTL DEF AdminSpec

\* The tables are always of their type: no permission is added to a row that was
\* deleted.
THEOREM AdminTypeCorrect == AdminSpec => []AdminTypeOK
  BY AdminInductive, PTL DEF AdminIInv

\* createXResource and updateXResource: two rows have a name only if two
\* transactions were giving it at the same time.
THEOREM AdminNoDuplicates == AdminSpec => []NoDuplicateNames
  BY AdminInductive, PTL DEF AdminIInv

-----------------------------------------------------------------------------
(* The latest time of a repository.                                         *)

\* A nonempty set of times has a latest one: its distance from the bound is the
\* least.
LEMMA MaxOfTimes ==
  ASSUME NEW S \in SUBSET (1 .. MaxTime), S # {}
  PROVE  Max(S) \in S /\ \A y \in S : y <= Max(S)
<1> DEFINE T == {n \in Nat : \E x \in S : n = MaxTime - x}
           Less == OpToRel(<, Nat)
<1>1. \A x \in S : x \in Nat /\ MaxTime - x \in Nat
  BY AdminAssumption
<1>2. T \subseteq Nat /\ T # {}
  BY <1>1
<1>3. PICK m \in T : \A n \in T : ~(<<n, m>> \in Less)
  <2> HIDE DEF T, Less
  <2>1. IsWellFoundedOn(Less, Nat)
    BY NatLessThanWellFounded DEF Less
  <2> QED
    BY <1>2, <2>1, WFMin
<1>4. \A n \in T : ~(n < m)
  BY <1>2, <1>3 DEF OpToRel
<1>5. PICK x \in S : m = MaxTime - x
  OBVIOUS
<1>6. \A y \in S : x >= y
  BY <1>1, <1>4, <1>5, AdminAssumption
<1>7. Max(S) \in S /\ \A y \in S : Max(S) >= y
  BY <1>6 DEF Max
<1> QED
  BY <1>1, <1>7

\* LastUpdated is the time of some row, and of none a lesser one.
LEMMA LastUpdatedIsMax ==
  ASSUME AdminIInv, Rows # {}
  PROVE  /\ LastUpdated \in Nat
         /\ \E i \in Rows : row[i].time = LastUpdated
         /\ \A i \in Rows : row[i].time <= LastUpdated
<1> DEFINE S == {row[i].time : i \in Rows}
<1>1. S \in SUBSET (1 .. MaxTime) /\ S # {}
  BY DEF AdminIInv, AdminTypeOK, Rows, Row
<1>2. LastUpdated = Max(S)
  BY DEF LastUpdated
<1> HIDE DEF S
<1>3. Max(S) \in S /\ \A y \in S : y <= Max(S)
  BY <1>1, MaxOfTimes
<1> QED
  BY <1>1, <1>2, <1>3, AdminAssumption DEF S

\* Stamps are taken from the clock, which no row is ahead of.  A row gets a later one
\* than a request that has read it only if that request has not flushed, and then it
\* counts as overtaken.
LEMMA StampsPreserved ==
  ASSUME AdminIInv, StampsOrdered, [AdminNext]_adminVars PROVE StampsOrdered'
<1>1. /\ clock \in Nat
      /\ \A i \in Rows : row[i] \in Row /\ row[i].time \in Nat /\ i \in Id
      /\ \A r \in Request : tx[r] # Idle => tx[r] \in Tx /\ tx[r].time \in Nat /\ tx[r].id \in Id
  <2>1. 0 .. MaxTime \subseteq Nat /\ 1 .. MaxTime \subseteq Nat
    BY AdminAssumption
  <2> QED
    BY <2>1 DEF AdminIInv, AdminTypeOK, Row, Rows, Tx
<1>2. ASSUME NEW r \in Request, Commit(r) PROVE StampsOrdered'
  <2> DEFINE k == tx[r].id
             new == Committed(tx[r])
  <2>1. /\ Flushed(r) /\ tx[r] # Idle /\ tx[r] \in Tx /\ k \in Id /\ clock' = clock
        /\ row'[k] = new
        /\ \A j \in Id \ {k} : row'[j] = row[j]
    BY <1>2, CommitEffect
  <2>2. \A s \in Request : tx'[s] # Idle =>
           /\ s # r /\ tx[s] # Idle /\ tx'[s].op = tx[s].op /\ tx'[s].id = tx[s].id
           /\ tx'[s].time = tx[s].time
           /\ tx'[s].base = "current" => tx[s].base = "current" /\ ~Overtaken(s, r)
    BY <1>2, CommitEffect
  <2>3. new # NoRow =>
           \/ tx[r].op \in Stamping /\ new.time = tx[r].time
           \/ tx[r].op \in PermsOnly /\ row[k] # NoRow /\ new.time = row[k].time
    BY <2>1, CommittedRow DEF Tx, Stamping, PermsOnly
  <2>4. new # NoRow => new.time <= clock
    BY <2>1, <2>3 DEF StampsOrdered, Rows
  <2>5. \A i \in Rows' : row'[i].time <= clock'
    BY <2>1, <2>4 DEF StampsOrdered, Rows
  <2>6. \A s \in Request : tx'[s] # Idle => tx'[s].time <= clock'
    BY <2>1, <2>2 DEF StampsOrdered
  <2>7. ASSUME NEW s \in Request, tx'[s] # Idle, tx'[s].op \in Stamping,
               tx'[s].base = "current", row'[tx'[s].id] # NoRow
        PROVE  row'[tx'[s].id].time <= tx'[s].time
    <3>1. /\ s # r /\ tx[s] # Idle /\ tx[s].op \in Stamping /\ tx'[s].id = tx[s].id
          /\ tx'[s].time = tx[s].time /\ tx[s].base = "current" /\ ~Overtaken(s, r)
          /\ tx[s] \in Tx /\ tx[s].id \in Id
      BY <1>1, <2>2, <2>7
    <3>2. row[tx[s].id] # NoRow => row[tx[s].id].time <= tx[s].time
      BY <3>1 DEF StampsOrdered
    <3>3. CASE tx[s].id # k
      BY <2>1, <2>7, <3>1, <3>2, <3>3
    <3>4. CASE tx[s].id = k
      <4>1. tx[r].op \notin Stamping
        <5>1. CASE tx[s].phase = "checked"
          BY <3>1, <3>4, <5>1 DEF Overtaken
        <5>2. CASE tx[s].phase = "flushed"
          BY <2>1, <3>1, <3>4, <5>2
             DEF AdminIInv, RowsLocked, Flushed, Conflicting, Stamping
        <5> QED
          BY <3>1, <5>1, <5>2 DEF Tx
      <4> QED
        BY <2>1, <2>3, <2>7, <3>1, <3>2, <3>4, <4>1
    <3> QED
      BY <3>3, <3>4
  <2> QED
    BY <2>5, <2>6, <2>7 DEF StampsOrdered
<1>3. ASSUME NEW r \in Request, Rollback(r) PROVE StampsOrdered'
  <2>1. /\ UNCHANGED <<row, clock>> /\ tx'[r] = Idle
        /\ \A s \in Request \ {r} : tx'[s] = tx[s]
    BY <1>3 DEF Rollback, AdminIInv, AdminTypeOK
  <2> QED
    BY <2>1 DEF StampsOrdered, Rows
<1>4. ASSUME NEW r \in Request, NEW op, NEW i \in Id, NEW n, NEW P, NEW D,
             Begin(r, op, i, n, P, D), UNCHANGED <<row, clock>>
      PROVE  StampsOrdered'
  <2>1. /\ tx'[r].op = op /\ tx'[r].id = i
        /\ tx'[r].time = IF op \in Stamping THEN clock ELSE 0
        /\ \A s \in Request \ {r} : tx'[s] = tx[s]
    BY <1>4 DEF Begin, AdminIInv, AdminTypeOK
  <2>2. row[i] # NoRow => row[i].time <= clock
    BY DEF StampsOrdered, Rows
  <2>3. tx'[r].time <= clock
    BY <1>1, <2>1
  <2>4. tx'[r].op \in Stamping /\ row[tx'[r].id] # NoRow => row[tx'[r].id].time <= tx'[r].time
    BY <2>1, <2>2
  <2> QED
    BY <1>4, <2>1, <2>3, <2>4 DEF StampsOrdered, Rows
<1>5. ASSUME NEW r \in Request, Flush(r) PROVE StampsOrdered'
  <2>1. /\ tx[r] # Idle
        /\ tx'[r].op = tx[r].op /\ tx'[r].id = tx[r].id /\ tx'[r].base = tx[r].base
        /\ tx'[r].op \in Stamping => tx[r].time <= tx'[r].time /\ tx'[r].time <= clock
        /\ tx'[r].op \notin Stamping => tx'[r].time = 0
        /\ tx'[r] \in Tx /\ tx[r] \in Tx
        /\ \A s \in Request \ {r} : tx'[s] = tx[s]
        /\ UNCHANGED <<row, clock>>
    BY <1>5, FlushEffect
  <2>2. tx'[r].time \in Nat /\ tx[r].time \in Nat
    BY <2>1, AdminAssumption DEF Tx
  <2>3. tx'[r].time <= clock
    BY <1>1, <2>1, <2>2
  <2>4. tx'[r].op \in Stamping /\ tx'[r].base = "current" /\ row[tx'[r].id] # NoRow =>
           row[tx'[r].id].time <= tx'[r].time
    <3> SUFFICES ASSUME tx'[r].op \in Stamping, tx'[r].base = "current", row[tx[r].id] # NoRow
                 PROVE  row[tx[r].id].time <= tx'[r].time
      BY <2>1
    <3>1. row[tx[r].id].time <= tx[r].time
      BY <2>1 DEF StampsOrdered
    <3>2. row[tx[r].id].time \in Nat
      BY <1>1, <2>1 DEF Rows
    <3> QED
      BY <2>1, <2>2, <3>1, <3>2
  <2> QED
    BY <2>1, <2>3, <2>4 DEF StampsOrdered, Rows
<1>6. CASE Tick \/ UNCHANGED adminVars
  <2>1. UNCHANGED <<row, tx>> /\ clock <= clock' /\ clock' \in Nat
    BY <1>1, <1>6 DEF Tick, adminVars
  <2> QED
    BY <1>1, <2>1 DEF StampsOrdered, Rows
<1>7. ASSUME NEW r \in Request, NEW n, NEW P, Insert(r, n, P), UNCHANGED <<row, clock>>
      PROVE  StampsOrdered'
  <2>1. nextId \in Id /\ Begin(r, "insert", nextId, n, P, {})
    BY <1>7, AdminAssumption DEF Insert, Id, AdminIInv, AdminTypeOK
  <2> QED
    BY <1>4, <1>7, <2>1
<1>8. ASSUME NEW r \in Request, NEW n, NEW P, GrantResource(r, n, P) PROVE StampsOrdered'
  <2>1. Named(n) \subseteq Id /\ UNCHANGED <<row, clock>>
    BY <1>8 DEF Named, Rows, GrantResource
  <2>2. CASE Insert(r, n, P)
    BY <1>7, <2>1, <2>2
  <2>3. CASE \E i \in Named(n) :
                \/ Begin(r, "grant", i, n, P \ row[i].perms, {})
                \/ \E D \in SUBSET (row[i].perms \ P) : Begin(r, "grant", i, n, P, D)
    BY <1>4, <2>1, <2>3
  <2> QED
    BY <1>8, <2>2, <2>3 DEF GrantResource
<1>9. ASSUME NEW r \in Request, NEW n, NEW P, RevokeResource(r, n, P) PROVE StampsOrdered'
  BY <1>4, <1>9 DEF RevokeResource, Named, Rows
<1>10. ASSUME NEW r \in Request, NEW i \in Id, NEW n, NEW P, UpdateResource(r, i, n, P)
       PROVE  StampsOrdered'
  BY <1>4, <1>10 DEF UpdateResource
<1>11. ASSUME NEW r \in Request, NEW i \in Id, DeleteResource(r, i) PROVE StampsOrdered'
  BY <1>4, <1>11 DEF DeleteResource
<1>12. ASSUME NEW r \in Request, NEW n, NEW P, CreateResource(r, n, P) PROVE StampsOrdered'
  BY <1>7, <1>12 DEF CreateResource
<1>13. ASSUME NEW r \in Request, RequestStep(r) PROVE StampsOrdered'
  BY <1>2, <1>3, <1>5, <1>8, <1>9, <1>10, <1>11, <1>12, <1>13 DEF RequestStep
<1> QED
  BY <1>6, <1>13 DEF AdminNext

\* At the start no row is stamped and no request has a stamp.
LEMMA InitStamps == AdminInit => StampsOrdered
  BY DEF AdminInit, StampsOrdered, Rows

\* The latest time is taken away by a delete or by an update that was overtaken.
LEMMA LatestLost ==
  ASSUME AdminIInv, AdminIInv', StampsOrdered, NEW r \in Request, Commit(r),
         LastUpdated' < LastUpdated
  PROVE  /\ Flushed(r) /\ tx'[r] = Idle
         /\ row[tx[r].id].time = LastUpdated
         /\ \/ tx[r].op = "delete"
            \/ tx[r].op \in Stamping /\ tx[r].base = "replaced"
<1> DEFINE k == tx[r].id
<1>1. /\ Flushed(r) /\ tx[r] # Idle /\ tx[r] \in Tx /\ k \in Id /\ tx'[r] = Idle
      /\ row'[k] = Committed(tx[r])
      /\ \A j \in Id \ {k} : row'[j] = row[j]
  BY CommitEffect
<1>2. /\ LastUpdated \in Nat /\ LastUpdated' \in Nat
      /\ Rows # {}
      /\ \A i \in Rows' : row'[i].time <= LastUpdated'
  <2>1. Rows # {} => LastUpdated \in Nat
    BY LastUpdatedIsMax
  <2>2. Rows = {} => LastUpdated = 0
    BY DEF LastUpdated
  <2>3. Rows' # {} => LastUpdated' \in Nat /\ \A i \in Rows' : row'[i].time <= LastUpdated'
    <3> SUFFICES ASSUME Rows' # {}
                 PROVE  LastUpdated' \in Nat /\ \A i \in Rows' : row'[i].time <= LastUpdated'
      OBVIOUS
    <3> DEFINE S == {row'[i].time : i \in Rows'}
    <3>1. S \in SUBSET (1 .. MaxTime) /\ S # {}
      <4>1. row' \in [Id -> Row \cup {NoRow}]
        BY DEF AdminIInv, AdminTypeOK
      <4> QED
        BY <4>1 DEF Rows, Row
    <3>2. LastUpdated' = Max(S)
      BY DEF LastUpdated
    <3> HIDE DEF S
    <3>3. Max(S) \in S /\ \A y \in S : y <= Max(S)
      BY <3>1, MaxOfTimes
    <3> QED
      BY <3>1, <3>2, <3>3, AdminAssumption DEF S
  <2>4. Rows' = {} => LastUpdated' = 0
    BY DEF LastUpdated
  <2> QED
    BY <2>1, <2>2, <2>3, <2>4
<1>3. PICK m \in Rows : row[m].time = LastUpdated
  BY <1>2, LastUpdatedIsMax
<1>4. m \in Id /\ row[m] \in Row /\ row[m] # NoRow
  BY DEF Rows, AdminIInv, AdminTypeOK
<1>5. ~(row'[m] # NoRow /\ row'[m].time >= LastUpdated)
  <2>1. ASSUME row'[m] # NoRow, row'[m].time >= LastUpdated PROVE FALSE
    <3>1. m \in Rows' /\ row'[m].time \in Nat
      BY <1>4, <2>1, AdminAssumption DEF Rows, AdminIInv, AdminTypeOK, Row
    <3> QED
      BY <1>2, <2>1, <3>1
  <2> QED
    BY <2>1
<1>6. m = k
  BY <1>1, <1>2, <1>3, <1>4, <1>5
<1>7. ASSUME tx[r].op # "delete" PROVE tx[r].op \in Stamping /\ tx[r].base = "replaced"
  <2>1. Committed(tx[r]) # NoRow
    BY <1>1, <1>4, <1>6, <1>7, CommittedRow
  <2>2. tx[r].op \notin PermsOnly
    BY <1>1, <1>2, <1>3, <1>5, <1>6, <2>1, CommittedRow
  <2>3. tx[r].op \in Stamping
    BY <1>1, <1>7, <2>2 DEF Tx, Stamping, PermsOnly
  <2>4. tx[r].base # "current"
    <3>1. ASSUME tx[r].base = "current" PROVE FALSE
      <4>1. row[m].time <= tx[r].time
        BY <1>1, <1>4, <1>6, <2>3, <3>1 DEF StampsOrdered
      <4>2. Committed(tx[r]).time = tx[r].time
        BY <1>1, <2>1, <2>3, CommittedRow
      <4> QED
        BY <1>1, <1>3, <1>5, <1>6, <2>1, <4>1, <4>2
    <3> QED
      BY <3>1
  <2> QED
    BY <1>1, <2>3, <2>4 DEF Tx
<1> QED
  BY <1>1, <1>3, <1>6, <1>7

\* Every other step leaves the rows as they are.
LEMMA RowsChangeByCommit ==
  ASSUME [AdminNext]_adminVars, ~ \E r \in Request : Commit(r)
  PROVE  LastUpdated' = LastUpdated
<1>1. row' = row
  BY DEF AdminNext, RequestStep, CreateResource, GrantResource, RevokeResource,
     UpdateResource, DeleteResource, Flush, Rollback, Tick, adminVars
<1> QED
  BY <1>1 DEF LastUpdated, Rows

\* updateXResource and JPABeanCallbacks: the time agents compare with goes back only
\* because a resource that carried it is deleted, or is updated by a transaction that
\* had read it before it was stamped so and flushed afterwards.
THEOREM AdminLastUpdated == AdminSpec => LastUpdatedAdvances
<1>1. AdminIInv /\ AdminIInv' /\ StampsOrdered /\ [AdminNext]_adminVars =>
        [ LastUpdated' < LastUpdated =>
            \E r \in Request :
                /\ Flushed(r) /\ tx'[r] = Idle
                /\ row[tx[r].id].time = LastUpdated
                /\ \/ tx[r].op = "delete"
                   \/ tx[r].op \in Stamping /\ tx[r].base = "replaced" ]_adminVars
  <2> SUFFICES ASSUME AdminIInv, AdminIInv', StampsOrdered, [AdminNext]_adminVars,
                      LastUpdated' < LastUpdated
               PROVE  \E r \in Request :
                         /\ Flushed(r) /\ tx'[r] = Idle
                         /\ row[tx[r].id].time = LastUpdated
                         /\ \/ tx[r].op = "delete"
                            \/ tx[r].op \in Stamping /\ tx[r].base = "replaced"
    OBVIOUS
  <2>1. LastUpdated \in Nat
    BY LastUpdatedIsMax DEF LastUpdated
  <2>2. CASE \E r \in Request : Commit(r)
    BY <2>2, LatestLost
  <2>3. CASE ~ \E r \in Request : Commit(r)
    <3>1. LastUpdated' = LastUpdated
      BY <2>3, RowsChangeByCommit
    <3> QED
      BY <2>1, <3>1
  <2> QED
    BY <2>2, <2>3
<1>2. AdminIInv /\ StampsOrdered /\ [AdminNext]_adminVars => StampsOrdered'
  BY StampsPreserved
<1> QED
  BY <1>1, <1>2, AdminInductive, InitStamps, PTL DEF AdminSpec, LastUpdatedAdvances

-----------------------------------------------------------------------------

\* What the document says of a row.
Item(i) == [id |-> i, name |-> row[i].name, perms |-> row[i].perms]

\* No row is stamped later than newest.
StampsBelowNewest == newest \in Nat /\ \A i \in Rows : row[i].time <= newest

\* The policy the agent holds has its resources once, is not ahead of newest, and has
\* every row as it is now that is not stamped later.
KeptIsPast ==
    watcherContainer # NoPolicy =>
        /\ lastModifiedTime = watcherContainer.time
        /\ watcherContainer.time \in Nat /\ watcherContainer.time <= newest
        /\ IsFiniteSet(watcherContainer.body)
        /\ watcherContainer.count = Cardinality(watcherContainer.body)
        /\ \A i \in Rows :
              Item(i) \in watcherContainer.body \/ row[i].time > watcherContainer.time

\* The inductive invariant behind KeptPolicyIsCurrent.
DistIInv == StampsBelowNewest /\ (late \/ KeptIsPast)

\* With an agent that polls it the policy manager does what PolicyAdmin says: polls and
\* the agent's own steps change none of its state.
THEOREM DistIsAdmin == DistSpec => AdminSpec
<1>1. DistInit => AdminInit
  BY DEF DistInit
<1>2. [DistNext]_distVars => [AdminNext]_adminVars
  BY DEF DistNext, AgentStep, Poll, CommitRequest, OtherRequestStep, AdminNext, RequestStep,
         distVars
<1> QED
  BY <1>1, <1>2, PTL DEF DistSpec, AdminSpec

\* At first there are no rows, and no agent holds a policy.
LEMMA InitKept == DistInit => DistIInv
BY DEF DistInit, AgentInit, FreshProcess, AdminInit, DistIInv, StampsBelowNewest, KeptIsPast,
       Rows

\* The document has each row once.
LEMMA DocumentOfRows ==
  ASSUME AdminIInv, StampsBelowNewest
  PROVE  /\ IsFiniteSet(Document.body) /\ Cardinality(Document.body) = Cardinality(Rows)
         /\ Document.count = Cardinality(Rows) /\ Document.time = LastUpdated
         /\ \A i \in Rows : Item(i) \in Document.body
         /\ \A x \in Document.body : \E i \in Rows : x = Item(i)
         /\ LastUpdated \in Nat /\ LastUpdated <= newest
         /\ \A i \in Rows : row[i].time <= LastUpdated
<1>1. IsFiniteSet(Rows)
  <2>1. IsFiniteSet(Id)
    BY AdminAssumption, FS_Interval DEF Id
  <2> QED
    BY <2>1, FS_Subset DEF Rows
<1>2. Document.body = {Item(i) : i \in Rows}
  BY DEF Document, Item
<1>3. IsFiniteSet(Document.body) /\ Cardinality(Document.body) = Cardinality(Rows)
  <2> DEFINE f == [i \in Rows |-> Item(i)]
  <2>1. \A i \in Rows : Item(i).id = i
    BY DEF Item
  <2>2. f \in Bijection(Rows, Document.body)
    <3>1. f \in Injection(Rows, Document.body)
      BY <1>2, <2>1 DEF Injection, IsInjective
    <3>2. f \in Surjection(Rows, Document.body)
      BY <1>2 DEF Surjection
    <3> QED
      BY <3>1, <3>2 DEF Bijection
  <2> QED
    BY <1>1, <2>2, FS_Bijection DEF ExistsBijection
<1>4. LastUpdated \in Nat /\ LastUpdated <= newest /\ \A i \in Rows : row[i].time <= LastUpdated
  <2>1. CASE Rows = {}
    BY <2>1 DEF LastUpdated, StampsBelowNewest
  <2>2. CASE Rows # {}
    BY <2>2, LastUpdatedIsMax DEF StampsBelowNewest
  <2> QED
    BY <2>1, <2>2
<1>5. Document.count = Cardinality(Rows) /\ Document.time = LastUpdated
  BY DEF Document
<1> QED
  BY <1>2, <1>3, <1>4, <1>5

\* A poll keeps the policy or takes over the document.
LEMMA PollKeeps ==
  ASSUME AdminIInv, DistIInv, Poll PROVE DistIInv'
<1>1. UNCHANGED <<row, newest, late>>
  BY DEF Poll, adminVars, historyVars
<1>2. StampsBelowNewest'
  BY <1>1 DEF DistIInv, StampsBelowNewest, Rows
<1>3. CASE UNCHANGED <<watcherContainer, lastModifiedTime>>
  BY <1>1, <1>2, <1>3 DEF DistIInv, KeptIsPast, Rows, Item
<1>4. CASE PollAccept(Document)
  <2>1. watcherContainer' = Document /\ lastModifiedTime' = Document.time
    BY <1>4 DEF PollAccept
  <2>2. Rows' = Rows /\ \A i \in Rows : Item(i)' = Item(i)
    BY <1>1 DEF Rows, Item
  <2> HIDE DEF DistIInv
  <2>3. KeptIsPast'
    BY <1>1, <2>1, <2>2, DocumentOfRows DEF KeptIsPast, DistIInv
  <2> QED
    BY <1>2, <2>3 DEF DistIInv
<1> QED
  BY <1>3, <1>4 DEF Poll, PollNotModified, PollSame

\* The greater of two numbers.
LEMMA MaxOfTwo ==
  ASSUME NEW m \in Nat, NEW n \in Nat
  PROVE  Max({m, n}) \in Nat /\ m <= Max({m, n}) /\ n <= Max({m, n})
<1>1. \E x \in {m, n} : \A y \in {m, n} : x >= y
  OBVIOUS
<1>2. Max({m, n}) \in {m, n} /\ \A y \in {m, n} : Max({m, n}) >= y
  BY <1>1 DEF Max
<1> QED
  BY <1>2

\* What a commit creates or changes is stamped later than all before, or is late.
LEMMA CommitKeeps ==
  ASSUME AdminIInv, DistIInv, NEW r \in Request, CommitRequest(r) PROVE DistIInv'
<1>1. /\ Commit(r) /\ Flushed(r) /\ tx[r] \in Tx /\ tx[r] # Idle
      /\ row'[tx[r].id] = Committed(tx[r])
      /\ \A j \in Id \ {tx[r].id} : row'[j] = row[j]
  BY CommitEffect DEF CommitRequest
<1>2. /\ tx[r].id \in Id /\ tx[r].time \in Nat /\ newest \in Nat
      /\ \A i \in Rows : i \in Id /\ row[i].time \in Nat
  <2>1. \A i \in Rows : i \in Id /\ row[i] \in Row
    BY DEF Rows, AdminIInv, AdminTypeOK
  <2> QED
    BY <1>1, <2>1, AdminAssumption DEF Tx, DistIInv, StampsBelowNewest, Row
<1>3. \A i \in Rows' : i # tx[r].id => i \in Rows /\ row'[i] = row[i]
  BY <1>1 DEF Rows
<1>4. UNCHANGED <<watcherContainer, lastModifiedTime>>
  BY DEF CommitRequest, agentVars, watcherVars
<1>5. CASE tx[r].op \in Stamping /\ Committed(tx[r]) # NoRow
  <2>1. newest' = Max({newest, tx[r].time}) /\ late' = (late \/ tx[r].time <= newest)
    BY <1>5 DEF CommitRequest, Stamping, PermsOnly
  <2>2. newest' \in Nat /\ newest <= newest' /\ tx[r].time <= newest'
    BY <1>2, <2>1, MaxOfTwo
  <2>3. row'[tx[r].id].time = tx[r].time
    BY <1>1, <1>5, CommittedRow
  <2>4. StampsBelowNewest'
    BY <1>2, <1>3, <2>2, <2>3 DEF DistIInv, StampsBelowNewest
  <2>5. ASSUME ~late' PROVE KeptIsPast'
    <3>1. ~late /\ tx[r].time > newest
      <4>1. ~late /\ ~(tx[r].time <= newest)
        BY <2>1, <2>5
      <4> QED
        BY <1>2, <4>1
    <3> SUFFICES ASSUME watcherContainer # NoPolicy PROVE KeptIsPast'
      BY <1>4 DEF KeptIsPast
    <3>2. \A i \in Rows' :
            Item(i)' \in watcherContainer.body \/ row'[i].time > watcherContainer.time
      <4> SUFFICES ASSUME NEW i \in Rows'
                   PROVE  Item(i)' \in watcherContainer.body
                             \/ row'[i].time > watcherContainer.time
        OBVIOUS
      <4>1. CASE i = tx[r].id
        BY <1>2, <2>3, <3>1, <4>1 DEF DistIInv, KeptIsPast
      <4>2. CASE i # tx[r].id
        BY <1>3, <3>1, <4>2 DEF DistIInv, KeptIsPast, Item
      <4> QED
        BY <4>1, <4>2
    <3> QED
      BY <1>2, <1>4, <2>2, <3>1, <3>2 DEF DistIInv, KeptIsPast
  <2> QED
    BY <2>4, <2>5 DEF DistIInv
<1>6. CASE tx[r].op \notin PermsOnly /\ Committed(tx[r]) = NoRow
  <2>1. UNCHANGED <<newest, late>>
    BY <1>6 DEF CommitRequest, historyVars
  <2>2. tx[r].id \notin Rows'
    BY <1>1, <1>6 DEF Rows
  <2>3. \A i \in Rows' : i \in Rows /\ row'[i] = row[i]
    BY <1>3, <2>2
  <2>4. \A i \in Rows' : Item(i)' = Item(i)
    BY <2>3 DEF Item
  <2> QED
    BY <1>4, <2>1, <2>3, <2>4 DEF DistIInv, StampsBelowNewest, KeptIsPast
<1>7. CASE tx[r].op \in PermsOnly
  <2>1. late' = TRUE /\ newest' = newest
    BY <1>7 DEF CommitRequest, PermsOnly, Stamping
  <2>2. tx[r].id \in Rows' => tx[r].id \in Rows /\ row'[tx[r].id].time = row[tx[r].id].time
    BY <1>1, <1>2, <1>7, CommittedRow DEF Rows
  <2> QED
    BY <1>3, <2>1, <2>2 DEF DistIInv, StampsBelowNewest
<1>8. tx[r].op \in Stamping \/ tx[r].op \in PermsOnly \/ Committed(tx[r]) = NoRow
  BY <1>1, CommittedRow DEF Tx, Stamping, PermsOnly
<1>9. tx[r].op \in Stamping => tx[r].op \notin PermsOnly
  BY DEF Stamping, PermsOnly
<1> QED
  BY <1>5, <1>6, <1>7, <1>8, <1>9

\* The steps that are left touch neither the rows nor the watcher's policy.
LEMMA OthersKeep ==
  ASSUME DistIInv, UNCHANGED <<row, newest, late, watcherContainer, lastModifiedTime>>
  PROVE  DistIInv'
BY DEF DistIInv, StampsBelowNewest, KeptIsPast, Rows, Item

\* An agent that keeps its policy holds the repository's: what it holds has every row
\* that is not stamped later, and as many as there are.
THEOREM DistKeptIsCurrent == DistSpec => []KeptPolicyIsCurrent
<1>1. ASSUME AdminIInv, DistIInv, [DistNext]_distVars PROVE DistIInv'
  <2>1. CASE Poll
    BY <1>1, <2>1, PollKeeps
  <2>2. CASE \E r \in Request : CommitRequest(r)
    BY <1>1, <2>2, CommitKeeps
  <2>3. CASE OnChangeStep /\ UNCHANGED <<adminVars, historyVars>>
    <3>1. UNCHANGED watcherVars
      BY <2>3 DEF OnChangeStep, DoSetPolicyContainer, DoOpenCache, DoWriteCache, DoNotify, DoApply
    <3> QED
      BY <1>1, <2>3, <3>1, OthersKeep DEF watcherVars, adminVars, historyVars
  <2>4. CASE MainStep /\ UNCHANGED <<adminVars, historyVars>>
    <3>1. UNCHANGED watcherVars
      BY <2>4 DEF MainStep, MainStartWatcher, MainConfigure, MainRegister, MainSave,
                  MainSerialise, MainOpenCache, MainWriteCache, MainNotify, MainApply
    <3> QED
      BY <1>1, <2>4, <3>1, OthersKeep DEF watcherVars, adminVars, historyVars
  <2>5. CASE OtherRequestStep
    <3>1. row' = row
      BY <2>5 DEF OtherRequestStep, AdminNext, RequestStep, CreateResource, GrantResource,
                  RevokeResource, UpdateResource, DeleteResource, Flush, Rollback, Tick
    <3> QED
      BY <1>1, <2>5, <3>1, OthersKeep
         DEF OtherRequestStep, agentVars, watcherVars, historyVars
  <2>6. CASE UNCHANGED distVars
    BY <1>1, <2>6, OthersKeep DEF distVars, agentVars, watcherVars, adminVars, historyVars
  <2> QED
    BY <1>1, <2>1, <2>2, <2>3, <2>4, <2>5, <2>6 DEF DistNext, AgentStep
<1>2. ASSUME AdminIInv, DistIInv PROVE KeptPolicyIsCurrent
  <2> SUFFICES ASSUME ~late, watcherContainer # NoPolicy, WillKeepPolicy
               PROVE  watcherContainer.body = Document.body
    BY DEF KeptPolicyIsCurrent
  <2> HIDE DEF DistIInv
  <2>1. KeptIsPast /\ StampsBelowNewest
    BY <1>2 DEF DistIInv
  <2>2. LastUpdated <= watcherContainer.time
        /\ Cardinality(Rows) = Cardinality(watcherContainer.body)
    BY <1>2, <2>1, DocumentOfRows
       DEF WillKeepPolicy, NoChangeSince, IsNewer, PolicyCount, KeptIsPast
  <2>3. Document.body \subseteq watcherContainer.body
    <3> SUFFICES ASSUME NEW i \in Rows PROVE Item(i) \in watcherContainer.body
      BY <1>2, <2>1, DocumentOfRows
    <3>1. row[i].time <= LastUpdated /\ LastUpdated \in Nat
      BY <1>2, <2>1, DocumentOfRows
    <3>2. row[i].time \in Nat
      BY <1>2, AdminAssumption DEF AdminIInv, AdminTypeOK, Rows, Row
    <3> QED
      BY <2>1, <2>2, <3>1, <3>2 DEF KeptIsPast
  <2>4. IsFiniteSet(watcherContainer.body)
        /\ Cardinality(Document.body) = Cardinality(watcherContainer.body)
    BY <1>2, <2>1, <2>2, DocumentOfRows DEF KeptIsPast
  <2> QED
    BY <2>3, <2>4, FS_Subset
<1>3. DistSpec => []AdminIInv
  BY DistIsAdmin, AdminInductive
<1> QED
  BY <1>1, <1>2, <1>3, InitKept, PTL DEF DistSpec

-----------------------------------------------------------------------------
(* The agent of the composition is the agent of PolicyAgent.                *)

\* What the policy manager sends is a policy an agent can hold.
LEMMA DocumentIsPolicy == ASSUME AdminIInv PROVE Document \in Policy
<1> DEFINE Body == {[id |-> i, name |-> row[i].name, perms |-> row[i].perms] : i \in Rows}
<1>1. Rows \subseteq Id /\ \A i \in Rows : row[i] \in Row
  BY DEF Rows, AdminIInv, AdminTypeOK
<1>2. Body \subseteq [id : Id, name : Name, perms : SUBSET Perm]
  BY <1>1 DEF Row
<1>3. Cardinality(Rows) \in 0 .. MaxId
  <2>1. IsFiniteSet(Id) /\ Cardinality(Id) = MaxId
    BY AdminAssumption, FS_Interval DEF Id
  <2>2. IsFiniteSet(Rows) /\ Cardinality(Rows) <= MaxId
    BY <1>1, <2>1, FS_Subset
  <2>3. Cardinality(Rows) \in Nat
    BY <2>2, FS_CardinalityType
  <2> QED
    BY <2>2, <2>3, AdminAssumption
<1>4. LastUpdated \in 0 .. MaxTime
  <2>1. CASE Rows = {}
    BY <2>1, AdminAssumption DEF LastUpdated
  <2>2. CASE Rows # {}
    <3>1. PICK i \in Rows : row[i].time = LastUpdated
      BY <2>2, LastUpdatedIsMax
    <3> QED
      BY <1>1, <3>1, AdminAssumption DEF Row
  <2> QED
    BY <2>1, <2>2
<1>5. Document = [time |-> LastUpdated, count |-> Cardinality(Rows), body |-> Body]
  BY DEF Document
<1> HIDE DEF Body
<1>6. Document \in [time : 0 .. MaxTime, count : 0 .. MaxId,
                    body : SUBSET [id : Id, name : Name, perms : SUBSET Perm]]
  BY <1>2, <1>3, <1>4, <1>5
<1> QED
  BY <1>6, DocumentAssumption

\* The agent polling this policy manager is an agent as PolicyAgent describes it: the
\* answers are among those it is ready for, and requests leave it alone.
THEOREM DistIsAgent == DistSpec => AgentSpec
<1>1. DistInit => AgentInit
  BY DEF DistInit
<1>2. ASSUME AdminIInv, [DistNext]_distVars PROVE [AgentNext]_agentVars
  <2>1. CASE Poll
    BY <1>2, <2>1, DocumentIsPolicy DEF Poll, AgentNext, PollStep
  <2>2. CASE OnChangeStep \/ MainStep
    BY <2>2 DEF AgentNext
  <2>3. CASE UNCHANGED agentVars
    BY <2>3
  <2> QED
    BY <1>2, <2>1, <2>2, <2>3
       DEF DistNext, AgentStep, CommitRequest, OtherRequestStep, distVars
<1> QED
  BY <1>1, <1>2, DistIsAdmin, AdminInductive, PTL DEF DistSpec, AgentSpec
=============================================================================
