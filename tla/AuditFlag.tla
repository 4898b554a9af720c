----------------------------- MODULE AuditFlag -----------------------------
(***************************************************************************)
(* The cache URLBasedAuthDB of the HDFS agent keeps of the answers of      *)
(* isAuditLogEnabled.  Any number of handler threads of the name node ask, *)
(* while the thread that refreshes the policy replaces it and then clears  *)
(* the cache.  The cache is a HashMap: its put is done in a block          *)
(* synchronized on it, its get and the clear of a new policy are not.      *)
(***************************************************************************)
EXTENDS HdfsPolicy, FiniteSets

CONSTANTS
    Handler,      \* the threads that ask
    Path,         \* the paths they ask about
    Container,    \* the policy containers the refresher may bring
    NoFlag,       \* no entry for the path
    MaxEntries    \* MAX_NO_OF_AUDIT_CACHE_ENTRIES

ASSUME FlagAssumption == NoFlag \notin BOOLEAN /\ MaxEntries \in Nat /\ Path # {}

VARIABLES
    policyContainer,
    cachedAuditFlag,
    refreshPc,         \* the refreshing thread in setPolicyContainer
    handlerPc,         \* each handler in isAuditLogEnabled
    path,              \* the path each handler asks about
    ret,               \* the answer each handler computed
    raced              \* an answer was computed and not yet put while
                       \* setPolicyContainer took a step

flagVars == <<policyContainer, cachedAuditFlag, refreshPc, handlerPc, path, ret, raced>>

\* Every variable has its type.
FlagTypeOK ==
    /\ policyContainer \in Container \cup {NoContainer}
    /\ cachedAuditFlag \in [Path -> BOOLEAN \cup {NoFlag}]
    /\ refreshPc \in {"idle", "clear"}
    /\ handlerPc \in [Handler -> {"idle", "compute", "put"}]
    /\ path \in [Handler -> Path]
    /\ ret \in [Handler -> BOOLEAN]
    /\ raced \in BOOLEAN

\* The answer of the policy that is current.
Audited(p) == isAuditLogEnabledByACL(policyContainer, p)

NoFlags == [p \in Path |-> NoFlag]

FlagInit ==
    /\ policyContainer = NoContainer
    /\ cachedAuditFlag = NoFlags
    /\ refreshPc = "idle"
    /\ handlerPc = [h \in Handler |-> "idle"]
    /\ path = [h \in Handler |-> CHOOSE p \in Path : TRUE]
    /\ ret = [h \in Handler |-> FALSE]
    /\ raced = FALSE

-----------------------------------------------------------------------------
(* setPolicyContainer, which is synchronized on the URLBasedAuthDB.        *)

Putting == \E h \in Handler : handlerPc[h] = "put"

\* Variant: the cache is not cleared.
SetPolicyOnly ==
    /\ refreshPc = "idle"
    /\ policyContainer' \in Container
    /\ raced' = (raced \/ Putting)
    /\ UNCHANGED <<refreshPc, cachedAuditFlag, handlerPc, path, ret>>

SetPolicy ==
    /\ refreshPc = "idle"
    /\ policyContainer' \in Container
    /\ refreshPc' = "clear"
    /\ raced' = (raced \/ Putting)
    /\ UNCHANGED <<cachedAuditFlag, handlerPc, path, ret>>

\* A put that enlarges the table meanwhile can save entries from the clear.
Clear ==
    /\ refreshPc = "clear"
    /\ refreshPc' = "idle"
    /\ \E kept \in SUBSET Path :
        /\ kept # {} => Putting
        /\ cachedAuditFlag' =
               [p \in Path |-> IF p \in kept THEN cachedAuditFlag[p] ELSE NoFlag]
    /\ raced' = (raced \/ Putting)
    /\ UNCHANGED <<policyContainer, handlerPc, path, ret>>

-----------------------------------------------------------------------------
(* isAuditLogEnabled *)

\* The cached answer, if there is one: it is returned and nothing else is done.
Hit(h, p) ==
    /\ handlerPc[h] = "idle"
    /\ cachedAuditFlag[p] # NoFlag
    /\ UNCHANGED flagVars

\* No answer is found; one that is there can be missed while another thread
\* changes the map.
Miss(h, p) ==
    /\ handlerPc[h] = "idle"
    /\ cachedAuditFlag[p] = NoFlag \/ Putting \/ refreshPc = "clear"
    /\ path' = [path EXCEPT ![h] = p]
    /\ handlerPc' = [handlerPc EXCEPT ![h] = "compute"]
    /\ UNCHANGED <<policyContainer, cachedAuditFlag, refreshPc, ret, raced>>

\* Variant: no policy that audits the path leaves the answer open.
ComputeNull(h) ==
    /\ handlerPc[h] = "compute"
    /\ ret' = [ret EXCEPT ![h] = IF Audited(path[h]) THEN TRUE ELSE NoFlag]
    /\ handlerPc' = [handlerPc EXCEPT ![h] = "put"]
    /\ UNCHANGED <<policyContainer, cachedAuditFlag, refreshPc, path, raced>>

\* isAuditLogEnabledByACL, on the policy that is current now.
Compute(h) ==
    /\ handlerPc[h] = "compute"
    /\ ret' = [ret EXCEPT ![h] = Audited(path[h])]
    /\ handlerPc' = [handlerPc EXCEPT ![h] = "put"]
    /\ UNCHANGED <<policyContainer, cachedAuditFlag, refreshPc, path, raced>>

Entries == {p \in Path : cachedAuditFlag[p] # NoFlag}

\* Variant: the cache is never emptied.
PutAnyway(h) ==
    /\ handlerPc[h] = "put"
    /\ cachedAuditFlag' = [cachedAuditFlag EXCEPT ![path[h]] = ret[h]]
    /\ handlerPc' = [handlerPc EXCEPT ![h] = "idle"]
    /\ UNCHANGED <<policyContainer, refreshPc, path, ret, raced>>

\* The size of the map is wrong for good when a clear and a put overlapped.
SeemsFull(full) == raced \/ full = (Cardinality(Entries) > MaxEntries)

\* The synchronized block: a full cache is emptied first.
Put(h) ==
    /\ handlerPc[h] = "put"
    /\ \E full \in BOOLEAN :
        /\ SeemsFull(full)
        /\ cachedAuditFlag' =
               [IF full THEN NoFlags ELSE cachedAuditFlag EXCEPT ![path[h]] = ret[h]]
    /\ handlerPc' = [handlerPc EXCEPT ![h] = "idle"]
    /\ UNCHANGED <<policyContainer, refreshPc, path, ret, raced>>

-----------------------------------------------------------------------------
FlagNext ==
    \/ SetPolicy
    \/ Clear
    \/ \E h \in Handler :
        \/ \E p \in Path : Hit(h, p) \/ Miss(h, p)
        \/ Compute(h)
        \/ Put(h)

FlagSpec == FlagInit /\ [][FlagNext]_flagVars

-----------------------------------------------------------------------------
\* Once a new policy is in place every cached answer is that of the current one:
\* cachedAuditFlag "needs to be cleaned when ruleList changes".
CacheIsFresh ==
    refreshPc = "idle" =>
        \A p \in Path : cachedAuditFlag[p] # NoFlag => cachedAuditFlag[p] = Audited(p)

\* That holds as long as setPolicyContainer met no handler between the computation
\* of an answer and its put: the policy is replaced before the cache is cleared.
FreshUnlessRaced == raced \/ CacheIsFresh

\* The cache does not outgrow its bound by more than one entry, on the same
\* condition.
CacheBounded == raced \/ Cardinality(Entries) <= MaxEntries + 1

\* What is proved of the size of the cache.
EntriesBounded == IsFiniteSet(Entries) /\ Cardinality(Entries) <= MaxEntries + 1

\* The inductive invariant behind FreshUnlessRaced: an answer not yet put is
\* that of the current policy as well.
ComputedFresh ==
    raced \/ \A h \in Handler : handlerPc[h] = "put" => ret[h] = Audited(path[h])
FlagIInv == FlagTypeOK /\ FreshUnlessRaced /\ ComputedFresh
=============================================================================
