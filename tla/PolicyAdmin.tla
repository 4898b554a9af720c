---------------------------- MODULE PolicyAdmin ----------------------------
(***************************************************************************)
(* The policies of one repository in the policy manager (AssetMgr) and     *)
(* what it answers to an agent's poll (getLatestRepoPolicy).               *)
(*                                                                         *)
(* Every REST call is one database transaction.  It checks against what    *)
(* is committed (Begin), writes its changes when no other transaction has  *)
(* the row locked (Flush), and commits later, or is rolled back; in        *)
(* between other calls do the same.  JPABeanCallbacks stamps a row in the  *)
(* server, before the statement that may have to wait for the lock is      *)
(* sent, and the row carries no version: what was committed meanwhile is   *)
(* not noticed.  Times have the granularity of the update_time column, one *)
(* second, so that several transactions can be stamped with the same time. *)
(***************************************************************************)
EXTENDS Naturals, FiniteSets, FiniteSetsExt

CONSTANTS
    Name,            \* resource names
    Perm,            \* permissions, each of a user or group
    Request,         \* the server's request threads
    NoRow,           \* no row with this id
    Idle,            \* a request thread with no transaction
    MaxId,           \* bound on the rows ever inserted
    MaxTime,         \* bound on the clock, in seconds
    LongCacheMax,    \* up to here equal Longs are the same object (127 in a JVM)
    GrantsSupported  \* Hive and HBase repositories accept grant and revoke

ASSUME AdminAssumption ==
    /\ MaxId \in Nat /\ MaxTime \in Nat \ {0} /\ LongCacheMax \in Nat
    /\ GrantsSupported \in BOOLEAN

Id == 1 .. MaxId
Row == [name : Name, perms : SUBSET Perm, time : 1 .. MaxTime]

ASSUME NullAssumption == NoRow \notin Row

VARIABLES
    row,       \* the committed table x_resource with its perm maps
    nextId,    \* AUTO_INCREMENT, not rolled back
    clock,     \* DateUtil.getUTCDate() in seconds
    tx,        \* the open transaction of each request
    contended  \* the names two transactions were giving at the same time

adminVars == <<row, nextId, clock, tx, contended>>

\* What a transaction will do to a row (an update that gives another name is a
\* rename): the permissions it adds and drops, and the row's new time (from the
\* flush on; before, the time it began; 0 if it stamps nothing).  base tells whether
\* the row was stamped anew between its checks and its flush.
Tx == [op : {"insert", "update", "rename", "delete", "grant", "revoke"}, id : Id,
       name : Name, perms : SUBSET Perm, dropped : SUBSET Perm, time : 0 .. MaxTime,
       phase : {"checked", "flushed"}, base : {"current", "replaced"}]

AdminTypeOK ==
    /\ row \in [Id -> Row \cup {NoRow}]
    /\ nextId \in 1 .. MaxId + 1
    /\ clock \in 1 .. MaxTime
    /\ tx \in [Request -> Tx \cup {Idle}]
    /\ contended \subseteq Name

AdminInit ==
    /\ row = [i \in Id |-> NoRow]
    /\ nextId = 1
    /\ clock = 1
    /\ tx = [r \in Request |-> Idle]
    /\ contended = {}

-----------------------------------------------------------------------------
Rows == {i \in Id : row[i] # NoRow}
Named(n) == {i \in Rows : row[i].name = n}

PermsOnly == {"grant", "revoke"}
Stamping == {"insert", "update", "rename"}
Naming == {"insert", "rename"}

\* A new perm map locks the row it refers to against changes, not against other
\* perm maps; deleting perm maps does not lock the row.
Conflicting(op1, op2) == "revoke" \notin {op1, op2} /\ {op1, op2} # {"grant"}
Flushed(r) == tx[r] # Idle /\ tx[r].phase = "flushed"
Locked(r) ==
    \E s \in Request \ {r} :
        Flushed(s) /\ tx[s].id = tx[r].id /\ Conflicting(tx[s].op, tx[r].op)

\* The foreign key of x_perm_map: no perm map is added to a row that is gone, and
\* no row is deleted while it has one that the transaction has not seen.
ForeignKeyHolds(t) ==
    /\ t.perms # {} => t.op = "insert" \/ row[t.id] # NoRow
    /\ t.op = "delete" /\ row[t.id] # NoRow => row[t.id].perms \subseteq t.dropped

\* XXResource.getMaxUpdateTimeForAssetName, 0 for an empty repository.
LastUpdated == IF Rows = {} THEN 0 ELSE Max({row[i].time : i \in Rows})

\* The document getLatestRepoPolicy sends with status 200.
Document ==
    [time  |-> LastUpdated,
     count |-> Cardinality(Rows),
     body  |-> {[id |-> i, name |-> row[i].name, perms |-> row[i].perms] : i \in Rows}]

\* Variant: the number of policies is not compared.
NoChangeSinceTime(epoch, policyCount) == epoch = LastUpdated

\* getLatestRepoPolicy's test for status 304.
NoChangeSince(epoch, policyCount) ==
    epoch = LastUpdated /\ policyCount = Cardinality(Rows)

-----------------------------------------------------------------------------
Giving(n) == {r \in Request : tx[r] # Idle /\ tx[r].op \in Naming /\ tx[r].name = n}
Contend(op, n) ==
    contended' = IF op \in Naming /\ Giving(n) # {} THEN contended \cup {n} ELSE contended

\* The checks have passed: what the transaction will do is settled by what it has
\* read.
Begin(r, op, i, n, P, D) ==
    /\ tx[r] = Idle
    /\ tx' = [tx EXCEPT ![r] =
              [op |-> op, id |-> i, name |-> n, perms |-> P, dropped |-> D,
               time |-> IF op \in Stamping THEN clock ELSE 0, phase |-> "checked", base |-> "current"]]
    /\ Contend(op, n)

Insert(r, n, P) ==
    /\ nextId <= MaxId
    /\ Begin(r, "insert", nextId, n, P, {})
    /\ nextId' = nextId + 1

\* Variant: no search for the name.
CreateResourceUnchecked(r, n, P) ==
    /\ Insert(r, n, P)
    /\ UNCHANGED <<row, clock>>

\* createXResource refuses a name that a committed row has.
CreateResource(r, n, P) ==
    /\ Named(n) = {}
    /\ Insert(r, n, P)
    /\ UNCHANGED <<row, clock>>

\* updateXResource refuses a name that another row has, and compares the ids of
\* the rows as references to do so.
SameLong(i, j) == i = j /\ i <= LongCacheMax
RefusedAsDuplicate(i, n) == \E j \in Named(n) : ~SameLong(j, i)

\* Only the columns that differ from those read are written.
UpdateResource(r, i, n, P) ==
    /\ row[i] # NoRow
    /\ ~RefusedAsDuplicate(i, n)
    /\ Begin(r, IF n = row[i].name THEN "update" ELSE "rename", i, n,
             P \ row[i].perms, row[i].perms \ P)
    /\ UNCHANGED <<row, nextId, clock>>

DeleteResource(r, i) ==
    /\ row[i] # NoRow
    /\ Begin(r, "delete", i, row[i].name, {}, row[i].perms)
    /\ UNCHANGED <<row, nextId, clock>>

\* grantXResource creates a missing resource; on an existing one it creates the
\* perm maps that are missing, or replaces those (D, and P anew) of the same users
\* and groups.
GrantResource(r, n, P) ==
    /\ GrantsSupported
    /\ P # {}
    /\ \/ Named(n) = {} /\ Insert(r, n, P)
       \/ /\ \E i \in Named(n) :
                \/ Begin(r, "grant", i, n, P \ row[i].perms, {})
                \/ \E D \in SUBSET (row[i].perms \ P) : Begin(r, "grant", i, n, P, D)
          /\ UNCHANGED nextId
    /\ UNCHANGED <<row, clock>>

\* revokeXResource deletes the perm maps it finds.
RevokeResource(r, n, P) ==
    /\ GrantsSupported
    /\ P # {}
    /\ \E i \in Named(n) : Begin(r, "revoke", i, n, {}, P \cap row[i].perms)
    /\ UNCHANGED <<row, nextId, clock>>

\* Variant of Flush: the row keeps a time that is sent to the server.
FlushSentTime(r) ==
    /\ tx[r] # Idle /\ tx[r].phase = "checked"
    /\ ~Locked(r)
    /\ ForeignKeyHolds(tx[r])
    /\ \E t \in IF tx[r].op \in Stamping THEN 1 .. clock ELSE {0} :
        tx' = [tx EXCEPT ![r].time = t, ![r].phase = "flushed"]
    /\ UNCHANGED <<row, nextId, clock, contended>>

\* Variant of Flush: the row is not stamped.
FlushUnstamped(r) ==
    /\ tx[r] # Idle /\ tx[r].phase = "checked"
    /\ ~Locked(r)
    /\ ForeignKeyHolds(tx[r])
    /\ tx' = [tx EXCEPT ![r].time = 0, ![r].phase = "flushed"]
    /\ UNCHANGED <<row, nextId, clock, contended>>

\* The statements are carried out once the row can be locked.  The row was stamped
\* in the server somewhere between the checks and then.
Flush(r) ==
    /\ tx[r] # Idle /\ tx[r].phase = "checked"
    /\ ~Locked(r)
    /\ ForeignKeyHolds(tx[r])
    /\ \E t \in IF tx[r].op \in Stamping THEN tx[r].time .. clock ELSE {0} :
        tx' = [tx EXCEPT ![r].time = t, ![r].phase = "flushed"]
    /\ UNCHANGED <<row, nextId, clock, contended>>

\* The row that transaction t leaves.  Of a row that is gone a statement finds
\* nothing to change.
Changed(t, old) ==
    [name  |-> IF t.op = "rename" THEN t.name ELSE old.name,
     perms |-> (old.perms \ t.dropped) \cup t.perms,
     time  |-> IF t.op \in Stamping THEN t.time ELSE old.time]
Committed(t) ==
    CASE t.op = "insert" -> [name |-> t.name, perms |-> t.perms, time |-> t.time]
      [] t.op = "delete" -> NoRow
      [] OTHER -> IF t.perms = {} /\ row[t.id] = NoRow THEN NoRow
                  ELSE Changed(t, row[t.id])

\* Another request has read the row that r stamps anew and has not flushed yet.
Overtaken(s, r) ==
    /\ tx[s] # Idle /\ tx[s].id = tx[r].id /\ tx[s].phase = "checked"
    /\ {tx[s].op, tx[r].op} \subseteq Stamping

Commit(r) ==
    /\ Flushed(r)
    /\ row' = [row EXCEPT ![tx[r].id] = Committed(tx[r])]
    /\ tx' = [s \in Request |->
                IF s = r THEN Idle
                ELSE IF Overtaken(s, r) THEN [tx[s] EXCEPT !.base = "replaced"]
                ELSE tx[s]]
    /\ UNCHANGED <<nextId, clock, contended>>

Rollback(r) ==
    /\ tx[r] # Idle
    /\ tx' = [tx EXCEPT ![r] = Idle]
    /\ UNCHANGED <<row, nextId, clock, contended>>

Tick ==
    /\ clock < MaxTime
    /\ clock' = clock + 1
    /\ UNCHANGED <<row, nextId, tx, contended>>

RequestStep(r) ==
    \/ \E n \in Name, P \in SUBSET Perm :
         \/ CreateResource(r, n, P)
         \/ GrantResource(r, n, P)
         \/ RevokeResource(r, n, P)
         \/ \E i \in Id : UpdateResource(r, i, n, P)
    \/ \E i \in Id : DeleteResource(r, i)
    \/ Flush(r)
    \/ Commit(r)
    \/ Rollback(r)

AdminNext ==
    \/ \E r \in Request : RequestStep(r)
    \/ Tick

AdminSpec == AdminInit /\ [][AdminNext]_adminVars

-----------------------------------------------------------------------------
\* createXResource and updateXResource look for a row of the name, the database
\* does not: two rows have a name only if two transactions were giving it at
\* the same time, whatever was renamed, deleted or rolled back meanwhile.
NoDuplicateNames ==
    \A i, j \in Rows : row[i].name = row[j].name /\ i # j => row[i].name \in contended

\* The time agents compare their epoch with goes back in two ways only: a resource
\* that carried it is deleted, or is given an older stamp by a transaction that had
\* read it before the newer one was committed and then came to lock it.  Who flushes
\* after reading the latest stamp never sets it back, whoever waits or commits.
LastUpdatedAdvances ==
    [][ LastUpdated' < LastUpdated =>
            \E r \in Request :
                /\ Flushed(r) /\ tx'[r] = Idle
                /\ row[tx[r].id].time = LastUpdated
                /\ \/ tx[r].op = "delete"
                   \/ tx[r].op \in Stamping /\ tx[r].base = "replaced" ]_adminVars

-----------------------------------------------------------------------------
(* The inductive invariant behind NoDuplicateNames, proved in               *)
(* PolicyDistribution_proofs.                                               *)

\* What is flushed by two requests on a row does not conflict.
RowsLocked ==
    \A r, s \in Request :
        r # s /\ Flushed(r) /\ Flushed(s) /\ tx[r].id = tx[s].id
            => ~Conflicting(tx[r].op, tx[s].op)

\* A row exists while an uncommitted perm map refers to it.
ReferencedRowExists ==
    \A r \in Request :
        Flushed(r) /\ tx[r].perms # {} /\ tx[r].op # "insert" => row[tx[r].id] # NoRow

\* Two requests that are giving the same name contend for it.
GiversContend ==
    \A r, s \in Request :
        (/\ r # s /\ tx[r] # Idle /\ tx[s] # Idle
         /\ {tx[r].op, tx[s].op} \subseteq Naming
         /\ tx[r].name = tx[s].name)
            => tx[r].name \in contended

\* The search for duplicates: another row has the name that a request is giving
\* only if it was contended for.
GivenNameIsNew ==
    \A r \in Request, j \in Rows :
        (/\ tx[r] # Idle /\ tx[r].op \in Naming
         /\ tx[r].id # j /\ tx[r].name = row[j].name)
            => tx[r].name \in contended

\* What is to be the time of a row is one, and a revocation adds no permission.
TransactionOK ==
    \A r \in Request : tx[r] # Idle =>
        /\ tx[r].op \in Stamping => tx[r].time # 0
        /\ tx[r].op = "revoke" => tx[r].perms = {}

AdminIInv ==
    /\ AdminTypeOK
    /\ TransactionOK
    /\ RowsLocked
    /\ ReferencedRowExists
    /\ GiversContend
    /\ GivenNameIsNew
    /\ NoDuplicateNames

\* The one behind LastUpdatedAdvances: no stamp is ahead of the clock, and a row
\* that waits for the commit of a new stamp has no later one, unless it was stamped
\* between the checks and the flush.
StampsOrdered ==
    /\ \A i \in Rows : row[i].time <= clock
    /\ \A r \in Request : tx[r] # Idle => tx[r].time <= clock
    /\ \A r \in Request :
        (/\ tx[r] # Idle /\ tx[r].op \in Stamping /\ tx[r].base = "current"
         /\ row[tx[r].id] # NoRow)
            => row[tx[r].id].time <= tx[r].time
=============================================================================
