--------------------------- MODULE PolicyRefresh ---------------------------
(***************************************************************************)
(* One agent polling an idealised policy manager over an unreliable link.  *)
(* The policy manager holds one policy document per repository; what a     *)
(* poll needs of AssetMgr.getLatestRepoPolicy is that it answers 304 when  *)
(* the agent's epoch and policy count are those of the document, and 200   *)
(* with the document otherwise.  Every publication has a later time than   *)
(* the one before; module PolicyDistribution replaces this assumption by   *)
(* the times the policy manager really assigns.                            *)
(***************************************************************************)
EXTENDS PolicyAgent

CONSTANTS
    MaxRestarts,    \* bound on the restarts of the agent
    MaxTroubles     \* bound on the times the policy manager becomes unavailable

ASSUME BoundAssumption == MaxRestarts \in Nat /\ MaxTroubles \in Nat

VARIABLES
    serverPolicy,   \* the document the policy manager would send now
    serverStatus,   \* "ok", "error" (an error status) or "down" (no response)
    restarts,       \* restarts so far
    troubles        \* times serverStatus left "ok" so far

serverVars == <<serverPolicy, serverStatus, troubles>>
refreshVars == <<agentVars, serverVars, restarts>>

RefreshTypeOK ==
    /\ AgentTypeOK
    /\ serverPolicy \in Policy
    /\ serverStatus \in {"ok", "error", "down"}
    /\ restarts \in 0 .. MaxRestarts
    /\ troubles \in 0 .. MaxTroubles

RefreshInit ==
    /\ AgentInit
    /\ serverPolicy \in {p \in Policy : \A q \in Policy : p.time <= q.time}
    /\ serverStatus = "ok"
    /\ restarts = 0
    /\ troubles = 0

-----------------------------------------------------------------------------
(* The policy manager, as the agent sees it.                                *)

Publish ==
    /\ \E p \in Policy : p.time > serverPolicy.time /\ serverPolicy' = p
    /\ UNCHANGED <<agentVars, serverStatus, troubles, restarts>>

Trouble ==
    /\ serverStatus = "ok"
    /\ troubles < MaxTroubles
    /\ troubles' = troubles + 1
    /\ serverStatus' \in {"error", "down"}
    /\ UNCHANGED <<agentVars, serverPolicy, restarts>>

Recover ==
    /\ serverStatus # "ok"
    /\ serverStatus' = "ok"
    /\ UNCHANGED <<agentVars, serverPolicy, troubles, restarts>>

\* getLatestRepoPolicy's test for status 304.
UpToDate ==
    /\ serverPolicy.time = lastModifiedTime
    /\ serverPolicy.count = PolicyCount(watcherContainer)

Poll ==
    /\ \/ serverStatus = "ok" /\ ~UpToDate /\ PollAccept(serverPolicy)
       \/ serverStatus = "ok" /\ UpToDate /\ PollNotModified
       \/ serverStatus = "error" /\ PollErrorStatus
       \/ serverStatus = "down" /\ PollException
    /\ UNCHANGED <<serverVars, restarts>>

RestartAgent ==
    /\ restarts < MaxRestarts
    /\ restarts' = restarts + 1
    /\ Restart
    /\ UNCHANGED serverVars

ServerStep == Publish \/ Trouble \/ Recover

AgentStep ==
    \/ Poll
    \/ OnChangeStep /\ UNCHANGED <<serverVars, restarts>>
    \/ MainStep /\ UNCHANGED <<serverVars, restarts>>

RefreshNext == ServerStep \/ AgentStep \/ RestartAgent

(***************************************************************************)
(* The watcher polls for ever (its loop ends only by an exception), each   *)
(* thread that can take a step does, and the policy manager is repaired.   *)
(* Nothing is assumed of publications, troubles or restarts.               *)
(***************************************************************************)
RefreshFairness ==
    /\ WF_refreshVars(Poll)
    /\ WF_refreshVars(OnChangeStep /\ UNCHANGED <<serverVars, restarts>>)
    /\ WF_refreshVars(MainStep /\ UNCHANGED <<serverVars, restarts>>)
    /\ WF_refreshVars(Recover)

RefreshSpec == RefreshInit /\ [][RefreshNext]_refreshVars
FairRefreshSpec == RefreshSpec /\ RefreshFairness

-----------------------------------------------------------------------------
(* What holds of the poll loop and of its two threads.                      *)

Settled == pollPc = "idle" /\ mainPc = "ready"

\* Within one life of the process an older policy is enforced after a newer
\* one only by falling back on the cache file or by the registration of the
\* listener, which can be overtaken by the watcher.
NoRollback ==
    [][ (/\ enforced # NoPolicy /\ enforced' # NoPolicy
         /\ enforced'.time < enforced.time)
        => policyCacheLoadedOnce \/ mainPc = "apply" ]_refreshVars

\* The cache file is damaged only while somebody writes it, as long as no write
\* failed or was cut short by a restart and main did not write it as well.
CacheIntact ==
    ~SaveFaults /\ restarts = 0 /\ cacheFile = Corrupt
        => pollPc = "write" \/ mainPc = "write" \/ mainPolicy # NoPolicy

\* A watcher that found the policy changed saves it and has it enforced, once
\* main is done, unless the process stops first.
AcceptedIsSavedAndEnforced ==
    \A p \in Policy :
        (mainPc = "ready" /\ pollPc = "set" /\ cacheModfied /\ watcherContainer = p)
            ~> ((enforced = p /\ cacheFile = p) \/ mainPc = "construct")

\* A policy published after the agent last asked reaches enforcement, unless it
\* is replaced, the process stops, or the watcher thread is dead.
PublishedIsEnforced ==
    \A p \in Policy :
        (mainPc = "ready" /\ serverPolicy = p /\ watcherContainer # p)
            ~> (enforced = p \/ serverPolicy # p \/ mainPc # "ready" \/ pollPc = "dead")

\* The same of ConfigWatcher, which does not enforce a policy that it took from
\* the cache file because there was no response.
PublishedIsEnforcedOrCached ==
    \A p \in Policy :
        (mainPc = "ready" /\ serverPolicy = p /\ watcherContainer # p)
            ~> ( \/ enforced = p \/ serverPolicy # p \/ mainPc # "ready" \/ pollPc = "dead"
                 \/ watcherContainer = p /\ policyCacheLoadedOnce)

\* "Policy Manager not available, using the last stored Policy File"
\* (ConfigWatcher.fetchPolicyfromCahce): an agent that has loaded the cached
\* policy enforces some policy once its threads are done.  True of Jersey2 only.
CachedPolicyIsUsed ==
    Settled /\ policyCacheLoadedOnce => enforced # NoPolicy
=============================================================================
