------------------------ MODULE PolicyRefresh_proofs ------------------------
(***************************************************************************)
(* Safety of the policy refresher, for every set of policies, both         *)
(* variants and every configuration: first of PolicyAgent, against a       *)
(* policy manager that may answer anything, then of the closed system.     *)
(***************************************************************************)
EXTENDS PolicyRefresh, TLAPS

\* A fresh process holds nothing.
LEMMA InitEstablishes == AgentInit => AgentIInv
<1> SUFFICES ASSUME AgentInit PROVE AgentIInv
  OBVIOUS
<1> USE PolicyAssumption DEF AgentInit, FreshProcess
<1>1. AgentTypeOK
  BY DEF AgentTypeOK, OptPolicy
<1>2. PolicyInHand
  BY DEF PolicyInHand
<1>3. ListenerRegistered
  BY DEF ListenerRegistered
<1>4. FirstPoll
  BY DEF FirstPoll
<1>5. ContainersAgree
  BY DEF ContainersAgree
<1>6. EpochMatchesContainer
  BY DEF EpochMatchesContainer
<1>7. NoWatcherNoPolicy
  BY DEF NoWatcherNoPolicy
<1> QED
  BY <1>1, <1>2, <1>3, <1>4, <1>5, <1>6, <1>7 DEF AgentIInv

\* A poll that finds nothing new only moves main out of the constructor.
LEMMA IdlePollPreserves ==
    ASSUME AgentIInv, StartPoll, pollPc' = "idle", Unmodified,
           UNCHANGED <<watcherContainer, lastModifiedTime, policyCacheLoadedOnce>>
    PROVE  AgentIInv'
<1> USE PolicyAssumption DEF StartPoll, Unmodified, AgentIInv
<1>1. AgentTypeOK'
  BY DEF AgentTypeOK, OptPolicy
<1>2. PolicyInHand'
  BY DEF PolicyInHand, FirstPoll
<1>3. ListenerRegistered'
  BY DEF ListenerRegistered, FirstPoll
<1>4. FirstPoll'
  BY DEF FirstPoll
<1>5. ContainersAgree'
  BY DEF ContainersAgree, FirstPoll
<1>6. EpochMatchesContainer'
  BY DEF EpochMatchesContainer
<1>7. NoWatcherNoPolicy'
  BY DEF NoWatcherNoPolicy, FirstPoll
<1> QED
  BY <1>1, <1>2, <1>3, <1>4, <1>5, <1>6, <1>7 DEF AgentIInv

\* A poll that reports a change is followed by doOnChange.
LEMMA ChangePollPreserves ==
    ASSUME AgentIInv, StartPoll, pollPc' = "set",
           watcherContainer' \in Policy, lastModifiedTime' = watcherContainer'.time,
           policyCacheLoadedOnce' \in BOOLEAN, cacheModfied' \in BOOLEAN
    PROVE  AgentIInv'
<1> USE PolicyAssumption DEF StartPoll, AgentIInv
<1>1. AgentTypeOK'
  BY DEF AgentTypeOK, OptPolicy
<1>2. PolicyInHand'
  BY DEF PolicyInHand, FirstPoll
<1>3. ListenerRegistered'
  BY DEF ListenerRegistered, FirstPoll
<1>4. FirstPoll'
  BY DEF FirstPoll
<1>5. ContainersAgree'
  BY DEF ContainersAgree, FirstPoll
<1>6. EpochMatchesContainer'
  BY DEF EpochMatchesContainer
<1>7. NoWatcherNoPolicy'
  BY DEF NoWatcherNoPolicy, FirstPoll
<1> QED
  BY <1>1, <1>2, <1>3, <1>4, <1>5, <1>6, <1>7 DEF AgentIInv

\* A poll that throws ends the thread.
LEMMA DyingPollPreserves ==
    ASSUME AgentIInv, StartPoll, ThreadDies, Unmodified, lastModifiedTime' \in Nat
    PROVE  AgentIInv'
<1> USE PolicyAssumption DEF StartPoll, Unmodified, AgentIInv, ThreadDies, FetchThrows
<1>1. AgentTypeOK'
  BY DEF AgentTypeOK, OptPolicy
<1>2. PolicyInHand'
  BY DEF PolicyInHand, FirstPoll
<1>3. ListenerRegistered'
  BY DEF ListenerRegistered, FirstPoll
<1>4. FirstPoll'
  BY DEF FirstPoll
<1>5. ContainersAgree'
  BY DEF ContainersAgree, FirstPoll
<1>6. EpochMatchesContainer'
  BY DEF EpochMatchesContainer
<1>7. NoWatcherNoPolicy'
  BY DEF NoWatcherNoPolicy, FirstPoll
<1> QED
  BY <1>1, <1>2, <1>3, <1>4, <1>5, <1>6, <1>7 DEF AgentIInv

\* What LoadCache leaves in the watcher's fields.
LEMMA LoadedCache ==
    ASSUME AgentIInv, pollPc = "idle", LoadCache
    PROVE  /\ watcherContainer' \in Policy
           /\ lastModifiedTime' = watcherContainer'.time
           /\ policyCacheLoadedOnce' \in BOOLEAN
<1> USE PolicyAssumption DEF LoadCache
<1>1. CASE policyCacheLoadedOnce
  BY <1>1 DEF AgentIInv, AgentTypeOK, PolicyInHand, EpochMatchesContainer
<1>2. CASE ~policyCacheLoadedOnce
  BY <1>2
<1> QED
  BY <1>1, <1>2

\* ConfigWatcher keeps quiet about a policy it loads for want of a response.
LEMMA SilentLoadPreserves ==
    ASSUME AgentIInv, StartPoll, Unmodified, LoadCache, ~Jersey2, pollPc' = "idle"
    PROVE  AgentIInv'
<1> USE PolicyAssumption, LoadedCache DEF StartPoll, Unmodified, AgentIInv
<1>1. AgentTypeOK'
  BY DEF AgentTypeOK, OptPolicy
<1>2. PolicyInHand'
  BY DEF PolicyInHand, FirstPoll
<1>3. ListenerRegistered'
  BY DEF ListenerRegistered, FirstPoll
<1>4. FirstPoll'
  BY DEF FirstPoll
<1>5. ContainersAgree'
  BY DEF ContainersAgree, FirstPoll
<1>6. EpochMatchesContainer'
  BY DEF EpochMatchesContainer
<1>7. NoWatcherNoPolicy'
  BY DEF NoWatcherNoPolicy, FirstPoll
<1> QED
  BY <1>1, <1>2, <1>3, <1>4, <1>5, <1>6, <1>7 DEF AgentIInv

\* Every answer to a poll is one of the cases above; the Jersey2 variant of a
\* poll without response is a change, the other is silent.
LEMMA PollPreserves == AgentIInv /\ PollStep => AgentIInv'
<1> SUFFICES ASSUME AgentIInv, PollStep PROVE AgentIInv'
  OBVIOUS
<1>1. ASSUME NEW p \in Policy, PollAccept(p) PROVE AgentIInv'
  <2>1. policyCacheLoadedOnce' \in BOOLEAN
    BY <1>1 DEF PollAccept
  <2> QED
    BY <1>1, <2>1, ChangePollPreserves DEF PollAccept
<1>2. ASSUME NEW p \in Policy, PollSame(p) PROVE AgentIInv'
  BY <1>2, IdlePollPreserves DEF PollSame
<1>3. CASE PollNotModified
  BY <1>3, IdlePollPreserves DEF PollNotModified
<1>4. CASE PollErrorStatus
  <2>1. StartPoll /\ Unmodified /\ cacheModfied' \in BOOLEAN
    BY <1>4 DEF PollErrorStatus, Unmodified
  <2>2. CASE LoadCache /\ pollPc' = "set"
    BY <2>1, <2>2, LoadedCache, ChangePollPreserves DEF StartPoll
  <2>3. CASE ThreadDies /\ UNCHANGED lastModifiedTime
    BY <2>1, <2>3, DyingPollPreserves DEF AgentIInv, AgentTypeOK
  <2>4. CASE /\ pollPc' = "idle"
             /\ UNCHANGED <<watcherContainer, lastModifiedTime, policyCacheLoadedOnce>>
    BY <2>1, <2>4, IdlePollPreserves
  <2> QED
    BY <1>4, <2>2, <2>3, <2>4 DEF PollErrorStatus
<1>5. CASE PollException
  <2>1. StartPoll /\ Unmodified /\ cacheModfied' \in BOOLEAN
    BY <1>5 DEF PollException, Unmodified
  <2>2. CASE LoadCache /\ pollPc' = "set"
    BY <2>1, <2>2, LoadedCache, ChangePollPreserves DEF StartPoll
  <2>3. CASE LoadCache /\ ~Jersey2 /\ pollPc' = "idle"
    BY <2>1, <2>3, SilentLoadPreserves
  <2>4. CASE ThreadDies /\ lastModifiedTime' \in Nat
    BY <2>1, <2>4, DyingPollPreserves
  <2> QED
    BY <1>5, <2>2, <2>3, <2>4 DEF PollException, AgentIInv, AgentTypeOK
<1> QED
  BY <1>1, <1>2, <1>3, <1>4, <1>5 DEF PollStep

\* doOnChange copies what the poll reported; the listener decides where it ends.
LEMMA ChangePreserves == AgentIInv /\ OnChangeStep => AgentIInv'
<1> SUFFICES ASSUME AgentIInv, OnChangeStep PROVE AgentIInv'
  OBVIOUS
<1> USE PolicyAssumption, ConfigAssumption
    DEF AgentIInv, AgentTypeOK, PolicyInHand, ListenerRegistered, FirstPoll,
        ContainersAgree, EpochMatchesContainer, NoWatcherNoPolicy, OptPolicy,
        watcherVars, mainVars
<1>1. CASE DoSetPolicyContainer
  BY <1>1 DEF DoSetPolicyContainer
<1>2. CASE DoOpenCache
  BY <1>2 DEF DoOpenCache, OpenOk, OpenFails
<1>3. CASE DoWriteCache
  BY <1>3 DEF DoWriteCache, CloseCache
<1>4. CASE DoNotify
  BY <1>4 DEF DoNotify
<1>5. CASE DoApply
  BY <1>5 DEF DoApply
<1> QED
  BY <1>1, <1>2, <1>3, <1>4, <1>5 DEF OnChangeStep

\* The initialising thread finds a policy in the refresher or has nothing to do.
LEMMA MainPreserves == AgentIInv /\ MainStep => AgentIInv'
<1> SUFFICES ASSUME AgentIInv, MainStep PROVE AgentIInv'
  OBVIOUS
<1> USE PolicyAssumption, ConfigAssumption
    DEF AgentIInv, AgentTypeOK, PolicyInHand, ListenerRegistered, FirstPoll,
        ContainersAgree, EpochMatchesContainer, NoWatcherNoPolicy, OptPolicy,
        watcherVars
<1>1. CASE MainStartWatcher
  BY <1>1 DEF MainStartWatcher
<1>2. CASE MainConfigure
  BY <1>2 DEF MainConfigure
<1>3. CASE MainRegister
  BY <1>3 DEF MainRegister
<1>4. CASE MainSave
  BY <1>4 DEF MainSave
<1>5. CASE MainSerialise
  BY <1>5 DEF MainSerialise
<1>6. CASE MainOpenCache
  BY <1>6 DEF MainOpenCache, OpenOk, OpenFails
<1>7. CASE MainWriteCache
  BY <1>7 DEF MainWriteCache, CloseCache
<1>8. CASE MainNotify
  BY <1>8 DEF MainNotify
<1>9. CASE MainApply
  BY <1>9 DEF MainApply
<1> QED
  BY <1>1, <1>2, <1>3, <1>4, <1>5, <1>6, <1>7, <1>8, <1>9 DEF MainStep

\* A restart makes a fresh process; the cache file may be anything.
LEMMA RestartPreserves == AgentIInv /\ Restart => AgentIInv'
<1> SUFFICES ASSUME AgentIInv, Restart PROVE AgentIInv'
  OBVIOUS
<1> USE PolicyAssumption DEF Restart, AgentIInv
<1>1. AgentTypeOK'
  BY DEF AgentTypeOK, OptPolicy
<1>2. PolicyInHand'
  BY DEF PolicyInHand, FirstPoll
<1>3. ListenerRegistered'
  BY DEF ListenerRegistered, FirstPoll
<1>4. FirstPoll'
  BY DEF FirstPoll
<1>5. ContainersAgree'
  BY DEF ContainersAgree, FirstPoll
<1>6. EpochMatchesContainer'
  BY DEF EpochMatchesContainer
<1>7. NoWatcherNoPolicy'
  BY DEF NoWatcherNoPolicy, FirstPoll
<1> QED
  BY <1>1, <1>2, <1>3, <1>4, <1>5, <1>6, <1>7 DEF AgentIInv

\* The invariant is about the agent's variables only.
LEMMA StutterPreserves == AgentIInv /\ UNCHANGED agentVars => AgentIInv'
BY DEF agentVars, watcherVars, mainVars, AgentIInv, AgentTypeOK, PolicyInHand,
   ListenerRegistered, FirstPoll, ContainersAgree, EpochMatchesContainer,
   NoWatcherNoPolicy, OptPolicy, PolicyCount

\* The inductive invariant holds of every behaviour.
THEOREM AgentInductive == AgentSpec => []AgentIInv
<1>1. AgentIInv /\ [AgentNext]_agentVars => AgentIInv'
  BY PollPreserves, ChangePreserves, MainPreserves, RestartPreserves, StutterPreserves
     DEF AgentNext
<1> QED
  BY <1>1, InitEstablishes, PTL DEF AgentSpec

\* Type correctness: in particular, no thread ever writes a null policy to the
\* cache file, whichever of the two saves it.
THEOREM AgentTypeCorrect == AgentSpec => []AgentTypeOK
BY AgentInductive, PTL DEF AgentIInv

\* isFileChanged: the epoch a live watcher sends is that of the policy it holds.
THEOREM AgentEpoch == AgentSpec => []EpochMatchesContainer
BY AgentInductive, PTL DEF AgentIInv

\* checkFileWatchDogThread: a process without a watcher holds no policy.
THEOREM AgentNoWatcher == AgentSpec => []NoWatcherNoPolicy
BY AgentInductive, PTL DEF AgentIInv

\* Jersey2: between polls the refresher holds the policy of its watcher.
THEOREM AgentFollows == AgentSpec => []RefresherFollowsWatcher
<1>1. AgentIInv => RefresherFollowsWatcher
  BY DEF AgentIInv, ContainersAgree, RefresherFollowsWatcher
<1> QED
  BY <1>1, AgentInductive, PTL

-----------------------------------------------------------------------------

\* The types of what is not the agent's: RefreshTypeOK is this and AgentTypeOK.
ServerTypeOK ==
    /\ serverPolicy \in Policy
    /\ serverStatus \in {"ok", "error", "down"}
    /\ restarts \in 0 .. MaxRestarts
    /\ troubles \in 0 .. MaxTroubles

\* What the policy manager sends is always one of the policies.
LEMMA ServerTypeInductive ==
  /\ RefreshInit => ServerTypeOK
  /\ ServerTypeOK /\ [RefreshNext]_refreshVars => ServerTypeOK'
<1> USE BoundAssumption
<1>1. RefreshInit => ServerTypeOK
  BY DEF RefreshInit, ServerTypeOK
<1>2. ASSUME ServerTypeOK, [RefreshNext]_refreshVars PROVE ServerTypeOK'
  <2> USE <1>2 DEF ServerTypeOK
  <2>1. CASE ServerStep
    BY <2>1 DEF ServerStep, Publish, Trouble, Recover
  <2>2. CASE RestartAgent
    BY <2>2 DEF RestartAgent, serverVars
  <2>3. CASE AgentStep
    BY <2>3 DEF AgentStep, Poll, serverVars
  <2>4. CASE UNCHANGED refreshVars
    BY <2>4 DEF refreshVars, serverVars
  <2> QED
    BY <2>1, <2>2, <2>3, <2>4 DEF RefreshNext
<1> QED
  BY <1>1, <1>2

\* A step of the closed system is a step of the agent or leaves it alone.
LEMMA StepIsAgentStep ==
  ServerTypeOK /\ [RefreshNext]_refreshVars => [AgentNext]_agentVars
<1> SUFFICES ASSUME ServerTypeOK, [RefreshNext]_refreshVars PROVE [AgentNext]_agentVars
  OBVIOUS
<1>1. CASE ServerStep
  BY <1>1 DEF ServerStep, Publish, Trouble, Recover
<1>2. CASE Poll
  BY <1>2 DEF Poll, PollStep, AgentNext, ServerTypeOK
<1>3. CASE OnChangeStep \/ MainStep
  BY <1>3 DEF AgentNext
<1>4. CASE RestartAgent
  BY <1>4 DEF RestartAgent, AgentNext
<1>5. CASE UNCHANGED refreshVars
  BY <1>5 DEF refreshVars
<1> QED
  BY <1>1, <1>2, <1>3, <1>4, <1>5 DEF RefreshNext, AgentStep

\* The agent polling one policy manager over an unreliable link behaves as the
\* agent that may be answered anything at any time.
THEOREM RefreshIsAgent == RefreshSpec => AgentSpec
<1>1. RefreshInit => AgentInit
  BY DEF RefreshInit
<1> QED
  BY <1>1, ServerTypeInductive, StepIsAgentStep, PTL DEF RefreshSpec, AgentSpec

\* The types of the closed system; the bounds on outages and restarts hold.
THEOREM RefreshTypeCorrect == RefreshSpec => []RefreshTypeOK
<1>1. AgentTypeOK /\ ServerTypeOK => RefreshTypeOK
  BY DEF RefreshTypeOK, ServerTypeOK
<1> QED
  BY <1>1, RefreshIsAgent, AgentTypeCorrect, ServerTypeInductive, PTL DEF RefreshSpec

\* So what it sends as epoch is always the time of the policy it holds.
THEOREM RefreshEpoch == RefreshSpec => []EpochMatchesContainer
  BY RefreshIsAgent, AgentEpoch

\* And a process that ended up without a watcher holds and enforces no policy.
THEOREM RefreshNoWatcher == RefreshSpec => []NoWatcherNoPolicy
  BY RefreshIsAgent, AgentNoWatcher

-----------------------------------------------------------------------------
(* What is held comes to be enforced.                                          *)

\* The polling thread has a change in hand.
Holding == {"set", "open", "write", "notify", "apply"}

\* The inductive invariant behind CachedPolicyIsUsed: a change goes from the watcher by
\* the refresher to enforcement, and what the refresher holds is enforced once neither
\* thread is about to do so.
HeldIsEnforced ==
    /\ pollPc \in Holding => watcherContainer \in Policy
    /\ pollPc \in Holding \ {"set"} => refresherContainer = watcherContainer
    /\ mainPc \in {"serialise", "open", "write", "notify"} => refresherContainer \in Policy
    /\ mainPc = "apply" => mainPolicy \in Policy
    /\ pollPc \in {"idle", "set", "dead"} /\ mainPc = "ready" /\ refresherContainer # NoPolicy
           => enforced # NoPolicy

LEMMA InitHeld == AgentInit => HeldIsEnforced
BY DEF AgentInit, FreshProcess, HeldIsEnforced, Holding

\* A poll leaves the refresher alone and has a policy where it reports a change.
LEMMA PollHeld == ASSUME AgentIInv, HeldIsEnforced, PollStep PROVE HeldIsEnforced'
<1>1. /\ pollPc = "idle"
      /\ mainPc' = IF mainPc = "construct" THEN "constructed" ELSE mainPc
      /\ UNCHANGED <<mainPolicy, refresherContainer, enforced>>
      /\ pollPc' \in {"idle", "set", "dead"}
  BY DEF PollStep, PollAccept, PollSame, PollNotModified, PollErrorStatus, PollException,
         StartPoll, ThreadDies
<1>2. pollPc' = "set" => watcherContainer' \in Policy
  BY DEF AgentIInv, PolicyInHand, PollStep, PollAccept, PollSame, PollNotModified,
         PollErrorStatus, PollException, LoadCache, ThreadDies
<1> QED
  BY <1>1, <1>2 DEF HeldIsEnforced, Holding

\* doOnChange hands it on; once the listener is registered it ends with enforcement.
LEMMA ChangeHeld == ASSUME AgentIInv, HeldIsEnforced, OnChangeStep PROVE HeldIsEnforced'
<1> USE PolicyAssumption DEF HeldIsEnforced, Holding, watcherVars, mainVars
<1>1. CASE DoSetPolicyContainer
  BY <1>1 DEF DoSetPolicyContainer
<1>2. CASE DoOpenCache
  BY <1>2 DEF DoOpenCache
<1>3. CASE DoWriteCache
  BY <1>3 DEF DoWriteCache
<1>4. CASE DoNotify
  BY <1>4 DEF DoNotify, AgentIInv, ListenerRegistered
<1>5. CASE DoApply
  BY <1>5 DEF DoApply
<1> QED
  BY <1>1, <1>2, <1>3, <1>4, <1>5 DEF OnChangeStep

\* Main applies what the refresher held when it had registered the listener.
LEMMA MainHeld == ASSUME AgentIInv, HeldIsEnforced, MainStep PROVE HeldIsEnforced'
<1> USE PolicyAssumption DEF HeldIsEnforced, Holding, watcherVars, AgentIInv, AgentTypeOK,
        OptPolicy
<1>1. CASE MainStartWatcher
  BY <1>1 DEF MainStartWatcher
<1>2. CASE MainConfigure
  BY <1>2 DEF MainConfigure
<1>3. CASE MainRegister
  BY <1>3 DEF MainRegister
<1>4. CASE MainSave
  BY <1>4 DEF MainSave
<1>5. CASE MainSerialise
  BY <1>5 DEF MainSerialise
<1>6. CASE MainOpenCache
  BY <1>6 DEF MainOpenCache
<1>7. CASE MainWriteCache
  BY <1>7 DEF MainWriteCache
<1>8. CASE MainNotify
  BY <1>8 DEF MainNotify
<1>9. CASE MainApply
  BY <1>9 DEF MainApply
<1> QED
  BY <1>1, <1>2, <1>3, <1>4, <1>5, <1>6, <1>7, <1>8, <1>9 DEF MainStep

\* With any answers of the policy manager, in both variants.
THEOREM AgentHeld == AgentSpec => []HeldIsEnforced
<1>1. ASSUME AgentIInv, HeldIsEnforced, [AgentNext]_agentVars PROVE HeldIsEnforced'
  <2>1. CASE Restart
    BY <2>1 DEF Restart, HeldIsEnforced, Holding
  <2>2. CASE UNCHANGED agentVars
    BY <1>1, <2>2 DEF HeldIsEnforced, Holding, agentVars, watcherVars, mainVars
  <2> QED
    BY <1>1, <2>1, <2>2, PollHeld, ChangeHeld, MainHeld DEF AgentNext
<1> QED
  BY <1>1, InitHeld, AgentInductive, PTL DEF AgentSpec

\* An agent of the Jersey2 variant that fell back on the cache file enforces a policy
\* when its threads are done.
THEOREM RefreshCachedIsUsed == Jersey2 => (RefreshSpec => []CachedPolicyIsUsed)
<1>1. ASSUME Jersey2, AgentIInv, HeldIsEnforced PROVE CachedPolicyIsUsed
  BY <1>1, PolicyAssumption
     DEF AgentIInv, PolicyInHand, ContainersAgree, HeldIsEnforced, CachedPolicyIsUsed, Settled
<1> SUFFICES ASSUME Jersey2 PROVE RefreshSpec => []CachedPolicyIsUsed
  OBVIOUS
<1>2. AgentIInv /\ HeldIsEnforced => CachedPolicyIsUsed
  BY <1>1
<1> QED
  BY <1>2, RefreshIsAgent, AgentInductive, AgentHeld, PTL

-----------------------------------------------------------------------------
(* Who can damage the cache file.                                              *)

\* The inductive invariant behind CacheIntact: in the first life of the process, until
\* main has taken a policy to save, the file is damaged just while the watcher writes it.
WriterDamages ==
    ~SaveFaults /\ restarts = 0 /\ mainPolicy = NoPolicy
        => (cacheFile = Corrupt <=> pollPc = "write")

\* The cache file is damaged only while somebody writes it, or after both threads did,
\* unless writes fail or the process was stopped in the middle of one.
THEOREM RefreshCacheIntact == RefreshSpec => []CacheIntact
<1>1. RefreshInit => WriterDamages
  BY PolicyAssumption DEF RefreshInit, AgentInit, FreshProcess, WriterDamages
<1>2. ASSUME RefreshTypeOK, AgentIInv, HeldIsEnforced, WriterDamages, [RefreshNext]_refreshVars
      PROVE  WriterDamages'
  <2> USE <1>2, PolicyAssumption, ConfigAssumption
      DEF WriterDamages, watcherVars, mainVars, serverVars
  <2>1. CASE ServerStep
    BY <2>1 DEF ServerStep, Publish, Trouble, Recover, agentVars
  <2>2. CASE Poll
    <3>1. pollPc = "idle" /\ pollPc' \in {"idle", "set", "dead"}
          /\ UNCHANGED <<mainPolicy, cacheFile, restarts>>
      BY <2>2 DEF Poll, PollAccept, PollNotModified, PollErrorStatus, PollException,
                  StartPoll, ThreadDies
    <3> QED
      BY <3>1
  <2>3. CASE OnChangeStep /\ UNCHANGED <<serverVars, restarts>>
    <3> USE <2>3
    <3>1. CASE DoOpenCache
      BY <3>1 DEF DoOpenCache, OpenOk, OpenFails
    <3>2. CASE DoWriteCache
      BY <3>2 DEF DoWriteCache, CloseCache, AgentIInv, PolicyInHand
    <3>3. CASE DoSetPolicyContainer \/ DoNotify \/ DoApply
      BY <3>3 DEF DoSetPolicyContainer, DoNotify, DoApply
    <3> QED
      BY <3>1, <3>2, <3>3 DEF OnChangeStep
  <2>4. CASE MainStep /\ UNCHANGED <<serverVars, restarts>>
    <3> USE <2>4
    <3>1. CASE MainSerialise \/ MainNotify
      BY <3>1 DEF MainSerialise, MainNotify, HeldIsEnforced
    <3>2. CASE MainOpenCache \/ MainWriteCache
      BY <3>2 DEF MainOpenCache, MainWriteCache, AgentIInv, PolicyInHand
    <3>3. CASE MainStartWatcher \/ MainConfigure \/ MainRegister \/ MainSave \/ MainApply
      BY <3>3 DEF MainStartWatcher, MainConfigure, MainRegister, MainSave, MainApply
    <3> QED
      BY <3>1, <3>2, <3>3 DEF MainStep
  <2>5. CASE RestartAgent
    <3>1. restarts' = restarts + 1 /\ restarts \in Nat
      BY <2>5, BoundAssumption DEF RestartAgent, RefreshTypeOK
    <3> QED
      BY <3>1
  <2>6. CASE UNCHANGED refreshVars
    BY <2>6 DEF refreshVars, agentVars
  <2> QED
    BY <2>1, <2>2, <2>3, <2>4, <2>5, <2>6 DEF RefreshNext, AgentStep
<1>3. WriterDamages => CacheIntact
  BY DEF WriterDamages, CacheIntact
<1> QED
  BY <1>1, <1>2, <1>3, RefreshTypeCorrect, RefreshIsAgent, AgentInductive, AgentHeld, PTL
     DEF RefreshSpec

-----------------------------------------------------------------------------
(* Enforcement does not go back.                                               *)

\* The inductive invariant behind NoRollback: nothing that an agent holds, or its cache
\* file, is newer than what the policy manager sends; and nothing that it has handed on
\* is newer than what its watcher holds, unless that came from the cache file.
NoneIsNewer ==
    /\ \A p \in {watcherContainer, refresherContainer, mainPolicy, enforced, cacheFile} \cap Policy :
           p.time <= serverPolicy.time
    /\ ~policyCacheLoadedOnce /\ watcherContainer # NoPolicy =>
           \A p \in {refresherContainer, mainPolicy, enforced} \cap Policy :
               p.time <= watcherContainer.time

\* Polls take over what is sent or what is in the file.
LEMMA PollNotNewer == ASSUME RefreshTypeOK, AgentIInv, NoneIsNewer, Poll PROVE NoneIsNewer'
<1> USE PolicyAssumption DEF NoneIsNewer
<1>1. UNCHANGED <<mainPolicy, refresherContainer, enforced, cacheFile, serverPolicy>>
  BY DEF Poll, PollAccept, PollNotModified, PollErrorStatus, PollException, StartPoll, serverVars
<1>2. serverPolicy \in Policy /\ serverPolicy.time \in Nat
  BY DEF RefreshTypeOK
<1>3. CASE watcherContainer' = serverPolicy
  BY <1>1, <1>2, <1>3
<1>4. CASE UNCHANGED <<watcherContainer, policyCacheLoadedOnce>>
  BY <1>1, <1>4
<1>5. CASE watcherContainer' = cacheFile /\ policyCacheLoadedOnce'
  BY <1>1, <1>5
<1>6. CASE watcherContainer' = NoPolicy
  BY <1>1, <1>6
<1> QED
  BY <1>3, <1>4, <1>5, <1>6 DEF Poll, PollAccept, PollNotModified, PollErrorStatus, PollException,
         LoadCache, ThreadDies

\* Both threads hand on what they hold.
LEMMA HandingOnNotNewer ==
  ASSUME RefreshTypeOK, AgentIInv, HeldIsEnforced, NoneIsNewer, OnChangeStep \/ MainStep,
         UNCHANGED serverVars
  PROVE  NoneIsNewer'
<1> USE PolicyAssumption DEF NoneIsNewer, watcherVars, mainVars, serverVars
<1>1. CASE DoSetPolicyContainer
  BY <1>1 DEF DoSetPolicyContainer
<1>2. CASE DoOpenCache \/ DoNotify
  BY <1>2 DEF DoOpenCache, OpenOk, OpenFails, DoNotify
<1>3. CASE DoWriteCache
  BY <1>3 DEF DoWriteCache, CloseCache
<1>4. CASE DoApply
  BY <1>4 DEF DoApply
<1>5. CASE MainSerialise \/ MainNotify
  BY <1>5 DEF MainSerialise, MainNotify
<1>6. CASE MainOpenCache \/ MainWriteCache
  BY <1>6 DEF MainOpenCache, MainWriteCache, OpenOk, OpenFails, CloseCache
<1>7. CASE MainApply
  BY <1>7 DEF MainApply
<1>8. CASE MainStartWatcher \/ MainConfigure \/ MainRegister \/ MainSave
  BY <1>8 DEF MainStartWatcher, MainConfigure, MainRegister, MainSave
<1> QED
  BY <1>1, <1>2, <1>3, <1>4, <1>5, <1>6, <1>7, <1>8 DEF OnChangeStep, MainStep

LEMMA StepNotNewer ==
  ASSUME RefreshTypeOK, AgentIInv, HeldIsEnforced, NoneIsNewer, [RefreshNext]_refreshVars
  PROVE  NoneIsNewer'
<1>1. CASE Publish
  <2>1. /\ serverPolicy.time <= serverPolicy'.time
        /\ serverPolicy.time \in Nat /\ serverPolicy'.time \in Nat
        /\ UNCHANGED agentVars
    BY <1>1, PolicyAssumption DEF Publish, RefreshTypeOK
  <2> QED
    BY <2>1, PolicyAssumption DEF NoneIsNewer, agentVars, watcherVars, mainVars
<1>2. CASE Trouble \/ Recover \/ UNCHANGED refreshVars
  BY <1>2 DEF Trouble, Recover, refreshVars, serverVars, NoneIsNewer, agentVars, watcherVars, mainVars
<1>3. CASE RestartAgent
  BY <1>3, PolicyAssumption DEF RestartAgent, Restart, serverVars, NoneIsNewer
<1> QED
  BY <1>1, <1>2, <1>3, PollNotNewer, HandingOnNotNewer DEF RefreshNext, ServerStep, AgentStep

\* Within one life of the process an older policy is enforced after a newer one only by
\* falling back on the cache file, or by main, which the watcher can overtake.
THEOREM RefreshNoRollback == RefreshSpec => NoRollback
<1>1. RefreshInit => NoneIsNewer
  BY PolicyAssumption DEF RefreshInit, AgentInit, FreshProcess, NoneIsNewer
<1>2. ASSUME RefreshTypeOK, AgentIInv, HeldIsEnforced, NoneIsNewer, [RefreshNext]_refreshVars,
             enforced # NoPolicy, enforced' # NoPolicy, enforced'.time < enforced.time
      PROVE  policyCacheLoadedOnce \/ mainPc = "apply"
  <2>1. CASE DoApply
    <3>1. /\ enforced' = watcherContainer /\ watcherContainer \in Policy
          /\ enforced \in Policy
      BY <1>2, <2>1 DEF DoApply, HeldIsEnforced, Holding, AgentIInv, AgentTypeOK, OptPolicy
    <3>2. ~policyCacheLoadedOnce => enforced.time <= watcherContainer.time
      BY <1>2, <3>1, PolicyAssumption DEF NoneIsNewer
    <3> QED
      BY <1>2, <3>1, <3>2, PolicyAssumption
  <2>2. CASE MainApply
    BY <2>2 DEF MainApply
  <2>3. CASE RestartAgent
    BY <1>2, <2>3 DEF RestartAgent, Restart
  <2>4. CASE UNCHANGED enforced
    <3>1. enforced \in Policy
      BY <1>2 DEF AgentIInv, AgentTypeOK, OptPolicy
    <3> QED
      BY <1>2, <2>4, <3>1, PolicyAssumption
  <2> QED
    BY <1>2, <2>1, <2>2, <2>3, <2>4
       DEF RefreshNext, ServerStep, Publish, Trouble, Recover, AgentStep, Poll, PollAccept,
           PollNotModified, PollErrorStatus, PollException, StartPoll, OnChangeStep,
           DoSetPolicyContainer, DoOpenCache, DoWriteCache, DoNotify, MainStep,
           MainStartWatcher, MainConfigure, MainRegister, MainSave, MainSerialise,
           MainOpenCache, MainWriteCache, MainNotify, refreshVars, agentVars
<1>3. RefreshSpec => [](RefreshTypeOK /\ AgentIInv /\ HeldIsEnforced)
  BY RefreshTypeCorrect, RefreshIsAgent, AgentInductive, AgentHeld, PTL
<1> QED
  BY <1>1, <1>2, <1>3, StepNotNewer, PTL DEF RefreshSpec, NoRollback
=============================================================================
