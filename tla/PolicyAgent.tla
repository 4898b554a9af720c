---------------------------- MODULE PolicyAgent ----------------------------
(***************************************************************************)
(* The policy refresher of an enforcement agent (HDFS, Hive, HBase, Storm  *)
(* and, in its Jersey2 variant, Knox): ConfigWatcher polls the policy      *)
(* manager, PolicyRefresher keeps the policy it found, writes the policy   *)
(* cache file and notifies the listener, and URLBasedAuthDB enforces what  *)
(* it was last notified of.                                                *)
(*                                                                         *)
(* Two threads touch this state.  "main" is the thread that calls          *)
(* URLBasedAuthDB.getInstance(): it runs the first poll synchronously      *)
(* inside the constructors, starts the watcher thread, and then registers  *)
(* the listener.  "watcher" is the daemon thread that polls for ever.      *)
(* Nothing of PolicyRefresher.doOnChange is synchronized, so every field   *)
(* access that the other thread can observe is a step of its own.          *)
(*                                                                         *)
(* The module is open: what the policy manager answers is a parameter of   *)
(* the poll actions.  PolicyRefresh and PolicyDistribution close it.       *)
(***************************************************************************)
EXTENDS Naturals

CONSTANTS
    Policy,            \* the policy documents: records with a time and a count
    NoPolicy,          \* the null PolicyContainer
    Absent, Corrupt,   \* the cache file does not exist / does not parse
    Jersey2,           \* TRUE: Jersey2ConfigWatcher and Jersey2PolicyRefresher
    CacheConfigured,   \* lastStoredFileName is set
    SaveAsConfigured,  \* saveAsFileName is set
    SaveFaults         \* opening or writing the cache file may fail

(***************************************************************************)
(* A policy document carries last_updated (time), the number of its        *)
(* resources (count: what getPolicyCount returns for it) and its contents. *)
(***************************************************************************)
ASSUME PolicyAssumption ==
    /\ \A p \in Policy : p.time \in Nat /\ p.count \in Nat
    /\ NoPolicy \notin Policy /\ Absent \notin Policy /\ Corrupt \notin Policy
    /\ NoPolicy # Absent /\ NoPolicy # Corrupt /\ Absent # Corrupt

ASSUME ConfigAssumption ==
    /\ Jersey2 \in BOOLEAN
    /\ CacheConfigured \in BOOLEAN
    /\ SaveAsConfigured \in BOOLEAN
    /\ SaveFaults \in BOOLEAN

VARIABLES
    pollPc,                 \* where the polling thread is
    watcherContainer,       \* ConfigWatcher.policyContainer
    lastModifiedTime,       \* ConfigWatcher.lastModifiedTime, sent as "epoch"
    policyCacheLoadedOnce,  \* ConfigWatcher.policyCacheLoadedOnce
    cacheModfied,           \* ConfigWatcher.cacheModfied
    mainPc,                 \* where the initialising thread is
    mainPolicy,             \* the policy main has read and is saving or applying
    watcherDaemon,          \* PolicyRefresher.watcherDaemon # null
    refresherContainer,     \* PolicyRefresher.policyContainer
    policyChangeListener,   \* PolicyRefresher.policyChangeListener # null
    enforced,               \* URLBasedAuthDB.policyContainer
    cacheFile               \* the contents of the last stored policy file

watcherVars == <<watcherContainer, lastModifiedTime, policyCacheLoadedOnce, cacheModfied>>
mainVars == <<mainPc, mainPolicy, watcherDaemon, policyChangeListener>>
agentVars == <<pollPc, watcherVars, mainVars, refresherContainer, enforced, cacheFile>>

OptPolicy == Policy \cup {NoPolicy}

AgentTypeOK ==
    /\ pollPc \in {"idle", "set", "open", "write", "notify", "apply", "dead"}
    /\ watcherContainer \in OptPolicy
    /\ lastModifiedTime \in Nat
    /\ policyCacheLoadedOnce \in BOOLEAN
    /\ cacheModfied \in BOOLEAN
    /\ mainPc \in {"construct", "constructed", "configure", "register",
                   "save", "serialise", "open", "write", "notify", "apply", "ready"}
    /\ mainPolicy \in OptPolicy
    /\ watcherDaemon \in BOOLEAN
    /\ refresherContainer \in OptPolicy
    /\ policyChangeListener \in BOOLEAN
    /\ enforced \in OptPolicy
    /\ cacheFile \in Policy \cup {Absent, Corrupt}

(***************************************************************************)
(* A fresh process: the objects do not exist yet; the cache file is what   *)
(* an earlier process left.                                                *)
(***************************************************************************)
FreshProcess ==
    /\ pollPc = "idle"
    /\ watcherContainer = NoPolicy
    /\ lastModifiedTime = 0
    /\ policyCacheLoadedOnce = FALSE
    /\ cacheModfied = FALSE
    /\ mainPc = "construct"
    /\ mainPolicy = NoPolicy
    /\ watcherDaemon = FALSE
    /\ refresherContainer = NoPolicy
    /\ policyChangeListener = FALSE
    /\ enforced = NoPolicy

AgentInit == FreshProcess /\ cacheFile = Absent

-----------------------------------------------------------------------------
(* One poll: ConfigWatcher.isFileChanged, by main inside the constructor    *)
(* and by the watcher thread ever after.                                    *)

PolicyCount(p) == IF p = NoPolicy THEN 0 ELSE p.count

\* The first poll is made by the constructor of ConfigWatcher; later ones
\* need the started thread.
StartPoll ==
    /\ pollPc = "idle"
    /\ mainPc = "construct" \/ watcherDaemon
    /\ mainPc' = IF mainPc = "construct" THEN "constructed" ELSE mainPc
    /\ UNCHANGED <<mainPolicy, watcherDaemon, policyChangeListener,
                   refresherContainer, enforced, cacheFile>>

\* isFileChanged clears cacheModfied first; the Jersey2 variant has no such flag.
Unmodified == cacheModfied' = FALSE

\* Variant: the times are not compared.
IsNewerCount(p) == p.count # PolicyCount(watcherContainer)

IsNewer(p) ==
    \/ p.time > lastModifiedTime
    \/ p.count # PolicyCount(watcherContainer)

\* Status 200 and the document differs from the one held.
PollAccept(p) ==
    /\ StartPoll
    /\ IsNewer(p)
    /\ watcherContainer' = p
    /\ lastModifiedTime' = p.time
    /\ policyCacheLoadedOnce' = (Jersey2 /\ policyCacheLoadedOnce)
    /\ cacheModfied' = TRUE
    /\ pollPc' = "set"

\* Status 200 with no change in time and count.
PollSame(p) ==
    /\ StartPoll
    /\ ~IsNewer(p)
    /\ Unmodified
    /\ pollPc' = "idle"
    /\ UNCHANGED <<watcherContainer, lastModifiedTime, policyCacheLoadedOnce>>

\* Status 304.
PollNotModified ==
    /\ StartPoll
    /\ Unmodified
    /\ pollPc' = "idle"
    /\ UNCHANGED <<watcherContainer, lastModifiedTime, policyCacheLoadedOnce>>

\* Variants of LoadCache: the epoch is forgotten; the load is not remembered.
LoadCacheKeepsEpoch ==
    IF policyCacheLoadedOnce
    THEN UNCHANGED <<watcherContainer, lastModifiedTime, policyCacheLoadedOnce>>
    ELSE /\ cacheFile \in Policy
         /\ watcherContainer' = cacheFile
         /\ UNCHANGED lastModifiedTime
         /\ policyCacheLoadedOnce' = TRUE
LoadCacheForgets ==
    /\ cacheFile \in Policy
    /\ watcherContainer' = cacheFile
    /\ lastModifiedTime' = cacheFile.time
    /\ UNCHANGED policyCacheLoadedOnce

\* fetchPolicyfromCahce found a policy: the one loaded earlier, or the file.
LoadCache ==
    IF policyCacheLoadedOnce
    THEN UNCHANGED <<watcherContainer, lastModifiedTime, policyCacheLoadedOnce>>
    ELSE /\ cacheFile \in Policy
         /\ watcherContainer' = cacheFile
         /\ lastModifiedTime' = cacheFile.time
         /\ policyCacheLoadedOnce' = TRUE

CacheUsable == policyCacheLoadedOnce \/ cacheFile \in Policy

\* A null file name and a file that does not parse both throw out of
\* fetchPolicyfromCahce, and out of the catch block that calls it again.
FetchThrows ==
    /\ ~policyCacheLoadedOnce
    /\ ~CacheConfigured \/ cacheFile = Corrupt

\* An empty file parses to null, which is stored before it is dereferenced.
ThreadDies ==
    /\ pollPc' = "dead"
    /\ \/ UNCHANGED watcherContainer
       \/ FetchThrows /\ cacheFile = Corrupt /\ watcherContainer' = NoPolicy
    /\ UNCHANGED policyCacheLoadedOnce

\* Variant: a cached policy is loaded but not reported as a change.
PollErrorStatusSilent ==
    /\ StartPoll
    /\ Unmodified
    /\ CacheUsable
    /\ LoadCache
    /\ pollPc' = "idle"

\* Any other status: a cached policy counts as a change and is enforced.
PollErrorStatus ==
    /\ StartPoll
    /\ Unmodified
    /\ \/ /\ CacheUsable
          /\ LoadCache
          /\ pollPc' = "set"
       \/ /\ FetchThrows
          /\ ThreadDies
          /\ UNCHANGED lastModifiedTime
       \/ /\ ~CacheUsable /\ ~FetchThrows
          /\ pollPc' = "idle"
          /\ UNCHANGED <<watcherContainer, lastModifiedTime, policyCacheLoadedOnce>>

\* Variant: what ConfigWatcher does, for Jersey2 as well.
PollExceptionSilent ==
    /\ StartPoll
    /\ Unmodified
    /\ CacheUsable
    /\ LoadCache
    /\ pollPc' = "idle"

\* No response at all, or a body that does not parse (catch Throwable): the
\* cached policy is loaded but only Jersey2 treats it as a change; without one
\* the exception leaves run() and the thread is gone.
PollException ==
    /\ StartPoll
    /\ Unmodified
    /\ \/ /\ CacheUsable
          /\ LoadCache
          /\ pollPc' = IF Jersey2 THEN "set" ELSE "idle"
       \/ /\ ~CacheUsable
          /\ lastModifiedTime' = IF FetchThrows THEN lastModifiedTime ELSE 0
          /\ ThreadDies

-----------------------------------------------------------------------------
(* Saving: savePolicyToFile and savePolicyToCacheFile.  The dated copy that *)
(* savePolicyToFile makes is never read and is left out.  The cache file is *)
(* truncated when it is opened and has its new contents when it is closed.  *)

\* Variant: nothing is saved once there is a watcher thread.
ShouldSaveFirstOnly == CacheConfigured /\ ~watcherDaemon

ShouldSave ==
    /\ CacheConfigured
    /\ IF Jersey2
       THEN SaveAsConfigured /\ mainPc \notin {"construct", "constructed", "configure"}
       ELSE ~watcherDaemon \/ cacheModfied

\* FileWriter truncates, or throws an IOException that is only logged.
OpenOk == cacheFile' = Corrupt
OpenFails == SaveFaults /\ UNCHANGED cacheFile

\* PrintWriter hides a failed write.  Two writers that both opened the file
\* before either closed it write over each other from offset zero.
CloseCache(p) ==
    \/ cacheFile' = p
    \/ /\ cacheFile \notin {Corrupt, p}
       /\ cacheFile' = Corrupt
    \/ /\ SaveFaults
       /\ cacheFile' = Corrupt

-----------------------------------------------------------------------------
(* PolicyRefresher.doOnChange, run by the polling thread.                   *)

DoSetPolicyContainer ==
    /\ pollPc = "set"
    /\ refresherContainer' = watcherContainer
    /\ pollPc' = "open"
    /\ UNCHANGED <<watcherVars, mainVars, enforced, cacheFile>>

DoOpenCache ==
    /\ pollPc = "open"
    /\ \/ ShouldSave /\ OpenOk /\ pollPc' = "write"
       \/ ShouldSave /\ OpenFails /\ pollPc' = "notify"
       \/ ~ShouldSave /\ UNCHANGED cacheFile /\ pollPc' = "notify"
    /\ UNCHANGED <<watcherVars, mainVars, refresherContainer, enforced>>

\* Variant: the writer is not closed.
DoWriteCacheUnclosed ==
    /\ pollPc = "write"
    /\ pollPc' = "notify"
    /\ UNCHANGED <<watcherVars, mainVars, refresherContainer, enforced, cacheFile>>

DoWriteCache ==
    /\ pollPc = "write"
    /\ CloseCache(refresherContainer)
    /\ pollPc' = "notify"
    /\ UNCHANGED <<watcherVars, mainVars, refresherContainer, enforced>>

\* The listener is null until main has registered it.
DoNotify ==
    /\ pollPc = "notify"
    /\ pollPc' = IF policyChangeListener THEN "apply" ELSE "idle"
    /\ UNCHANGED <<watcherVars, mainVars, refresherContainer, enforced, cacheFile>>

\* URLBasedAuthDB.setPolicyContainer, which is synchronized.
DoApply ==
    /\ pollPc = "apply"
    /\ enforced' = refresherContainer
    /\ pollPc' = "idle"
    /\ UNCHANGED <<watcherVars, mainVars, refresherContainer, cacheFile>>

-----------------------------------------------------------------------------
(* URLBasedAuthDB.getInstance on the main thread.                           *)

\* Variant: the thread is not assigned to the field.
MainStartWatcherUnassigned ==
    /\ mainPc = "constructed"
    /\ pollPc \in {"idle", "dead"}
    /\ mainPc' = "configure"
    /\ UNCHANGED <<pollPc, watcherVars, mainPolicy, watcherDaemon, policyChangeListener,
                   refresherContainer, enforced, cacheFile>>

\* checkFileWatchDogThread: an exception in the constructor is only logged and
\* leaves watcherDaemon null; nothing tries again.
MainStartWatcher ==
    /\ mainPc = "constructed"
    /\ pollPc \in {"idle", "dead"}
    /\ watcherDaemon' = (pollPc = "idle")
    /\ mainPc' = "configure"
    /\ UNCHANGED <<pollPc, watcherVars, mainPolicy, policyChangeListener,
                   refresherContainer, enforced, cacheFile>>

\* setSaveAsFileName, setLastStoredFileName: the watcher is already running.
MainConfigure ==
    /\ mainPc = "configure"
    /\ mainPc' = "register"
    /\ UNCHANGED <<pollPc, watcherVars, mainPolicy, watcherDaemon,
                   policyChangeListener, refresherContainer, enforced, cacheFile>>

\* Variant: the field is not set.
MainRegisterNothing ==
    /\ mainPc = "register"
    /\ mainPc' = "save"
    /\ UNCHANGED <<pollPc, watcherVars, mainPolicy, watcherDaemon, policyChangeListener,
                   refresherContainer, enforced, cacheFile>>

\* setPolicyChangeListener sets the field ...
MainRegister ==
    /\ mainPc = "register"
    /\ policyChangeListener' = TRUE
    /\ mainPc' = "save"
    /\ UNCHANGED <<pollPc, watcherVars, mainPolicy, watcherDaemon,
                   refresherContainer, enforced, cacheFile>>

\* ConfigWatcher resets cacheModfied at the begin of a poll, long before it has
\* an answer; an idle watcher may be in the middle of one.
MayBePolling == ~Jersey2 /\ watcherDaemon /\ pollPc = "idle"

\* Variant: the null check is missing.
MainSaveUnchecked ==
    /\ mainPc = "save"
    /\ mainPc' = IF ShouldSave THEN "serialise" ELSE "notify"
    /\ UNCHANGED <<pollPc, watcherVars, mainPolicy, watcherDaemon, policyChangeListener,
                   refresherContainer, enforced, cacheFile>>

\* ... then looks for a policy to save and to notify ...
MainSave ==
    /\ mainPc = "save"
    /\ \/ /\ refresherContainer = NoPolicy
          /\ mainPc' = "ready"
       \/ /\ refresherContainer # NoPolicy
          /\ ShouldSave
          /\ mainPc' = "serialise"
       \/ /\ refresherContainer # NoPolicy
          /\ ~ShouldSave \/ MayBePolling
          /\ mainPc' = "notify"
    /\ UNCHANGED <<pollPc, watcherVars, mainPolicy, watcherDaemon, policyChangeListener,
                   refresherContainer, enforced, cacheFile>>

\* ... which it turns into JSON before it opens the file.
MainSerialise ==
    /\ mainPc = "serialise"
    /\ mainPolicy' = refresherContainer
    /\ mainPc' = "open"
    /\ UNCHANGED <<pollPc, watcherVars, watcherDaemon, policyChangeListener,
                   refresherContainer, enforced, cacheFile>>

MainOpenCache ==
    /\ mainPc = "open"
    /\ \/ OpenOk /\ mainPc' = "write"
       \/ OpenFails /\ mainPc' = "notify"
    /\ UNCHANGED <<pollPc, watcherVars, mainPolicy, watcherDaemon,
                   policyChangeListener, refresherContainer, enforced>>

MainWriteCache ==
    /\ mainPc = "write"
    /\ CloseCache(mainPolicy)
    /\ mainPc' = "notify"
    /\ UNCHANGED <<pollPc, watcherVars, mainPolicy, watcherDaemon,
                   policyChangeListener, refresherContainer, enforced>>

\* The argument of OnPolicyChange is read here and applied one step later.
MainNotify ==
    /\ mainPc = "notify"
    /\ mainPolicy' = refresherContainer
    /\ mainPc' = "apply"
    /\ UNCHANGED <<pollPc, watcherVars, watcherDaemon, policyChangeListener,
                   refresherContainer, enforced, cacheFile>>

MainApply ==
    /\ mainPc = "apply"
    /\ enforced' = mainPolicy
    /\ mainPc' = "ready"
    /\ UNCHANGED <<pollPc, watcherVars, mainPolicy, watcherDaemon,
                   policyChangeListener, refresherContainer, cacheFile>>

-----------------------------------------------------------------------------
\* The process stops, anywhere, and starts again; only the file survives.
Restart ==
    /\ pollPc' = "idle"
    /\ watcherContainer' = NoPolicy
    /\ lastModifiedTime' = 0
    /\ policyCacheLoadedOnce' = FALSE
    /\ cacheModfied' = FALSE
    /\ mainPc' = "construct"
    /\ mainPolicy' = NoPolicy
    /\ watcherDaemon' = FALSE
    /\ refresherContainer' = NoPolicy
    /\ policyChangeListener' = FALSE
    /\ enforced' = NoPolicy
    /\ UNCHANGED cacheFile

OnChangeStep ==
    \/ DoSetPolicyContainer
    \/ DoOpenCache
    \/ DoWriteCache
    \/ DoNotify
    \/ DoApply

MainStep ==
    \/ MainStartWatcher
    \/ MainConfigure
    \/ MainRegister
    \/ MainSave
    \/ MainSerialise
    \/ MainOpenCache
    \/ MainWriteCache
    \/ MainNotify
    \/ MainApply

PollStep ==
    \/ \E p \in Policy : PollAccept(p) \/ PollSame(p)
    \/ PollNotModified
    \/ PollErrorStatus
    \/ PollException

AgentNext == PollStep \/ OnChangeStep \/ MainStep \/ Restart

\* The agent with a policy manager that may answer anything.
AgentSpec == AgentInit /\ [][AgentNext]_agentVars

-----------------------------------------------------------------------------
(* Invariants, whatever the policy manager answers.                         *)

\* The epoch a live watcher sends is the time of the policy it holds, however
\* it came by it (a response, the cache file, or a reset to zero): otherwise
\* the policy manager answers 304 for a policy the agent does not have.
EpochMatchesContainer ==
    pollPc # "dead" =>
        lastModifiedTime = IF watcherContainer = NoPolicy THEN 0 ELSE watcherContainer.time

\* Between polls the Jersey2 refresher holds the policy its watcher holds: all
\* its polls that change the one run doOnChange, which copies it to the other.
RefresherFollowsWatcher ==
    Jersey2 /\ pollPc = "idle" /\ mainPc # "construct"
        => refresherContainer = watcherContainer

\* checkFileWatchDogThread gives up when the first poll throws: the process
\* then lives on without a watcher, and must not hold or enforce any policy.
NoWatcherNoPolicy ==
    mainPc \notin {"construct", "constructed"} /\ ~watcherDaemon
        => /\ pollPc = "dead"
           /\ refresherContainer = NoPolicy
           /\ enforced = NoPolicy

-----------------------------------------------------------------------------
(* The inductive invariant behind them, proved in                           *)
(* PolicyRefresh_proofs.                                                    *)

\* Each thread has a policy in hand wherever it goes on to write one.
PolicyInHand ==
    /\ policyCacheLoadedOnce \/ pollPc = "set" => watcherContainer \in Policy
    /\ pollPc \in {"open", "write"} => refresherContainer \in Policy
    /\ mainPc = "serialise" => refresherContainer \in Policy
    /\ mainPc \in {"open", "write"} => mainPolicy \in Policy

\* The listener is there exactly from its registration on, and nothing is
\* enforced before.
ListenerRegistered ==
    /\ policyChangeListener <=>
           mainPc \notin {"construct", "constructed", "configure", "register"}
    /\ ~policyChangeListener => pollPc # "apply" /\ enforced = NoPolicy

\* How far the first poll can get before there is a watcher thread.
FirstPoll ==
    /\ mainPc \in {"construct", "constructed"} => ~watcherDaemon
    /\ mainPc = "construct" =>
           /\ pollPc = "idle"
           /\ watcherContainer = NoPolicy
           /\ refresherContainer = NoPolicy
    /\ mainPc = "constructed" /\ pollPc = "dead" => refresherContainer = NoPolicy
    /\ ~watcherDaemon => mainPc \in {"construct", "constructed", "configure",
                                    "register", "save", "ready"}

\* Only a poll that is still to be copied separates the two containers.
ContainersAgree ==
    Jersey2 /\ pollPc \notin {"set", "dead"} => refresherContainer = watcherContainer

AgentIInv ==
    /\ AgentTypeOK
    /\ PolicyInHand
    /\ ListenerRegistered
    /\ FirstPoll
    /\ ContainersAgree
    /\ EpochMatchesContainer
    /\ NoWatcherNoPolicy
=============================================================================
