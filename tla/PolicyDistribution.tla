------------------------- MODULE PolicyDistribution -------------------------
(***************************************************************************)
(* An agent polling the policy manager: PolicyAgent closed with the        *)
(* answers PolicyAdmin gives.  A poll is one transaction of the policy     *)
(* manager too and reads one snapshot of what is committed.                *)
(***************************************************************************)
EXTENDS PolicyAgent, PolicyAdmin

(***************************************************************************)
(* The agent can hold every document the policy manager may send.          *)
(***************************************************************************)
ASSUME DocumentAssumption ==
    [time : 0 .. MaxTime, count : 0 .. MaxId,
     body : SUBSET [id : Id, name : Name, perms : SUBSET Perm]] \subseteq Policy

VARIABLES
    newest,   \* the latest time any committed transaction was stamped with
    late      \* some change was committed with no later stamp than that

historyVars == <<newest, late>>
distVars == <<agentVars, adminVars, historyVars>>

DistInit ==
    /\ AgentInit
    /\ AdminInit
    /\ newest = 0
    /\ late = FALSE

Poll ==
    /\ \/ NoChangeSince(lastModifiedTime, PolicyCount(watcherContainer)) /\ PollNotModified
       \/ /\ ~NoChangeSince(lastModifiedTime, PolicyCount(watcherContainer))
          /\ PollAccept(Document) \/ PollSame(Document)
    /\ UNCHANGED <<adminVars, historyVars>>

\* The watcher thread, and main.
AgentStep ==
    \/ Poll
    \/ (OnChangeStep \/ MainStep) /\ UNCHANGED <<adminVars, historyVars>>

\* Grants and revocations stamp nothing.  A delete does not either: it is seen by
\* the number of rows.  An update of a row that is gone has no effect.
CommitRequest(r) ==
    /\ Commit(r)
    /\ CASE tx[r].op \in Stamping /\ Committed(tx[r]) # NoRow ->
                /\ newest' = Max({newest, tx[r].time})
                /\ late' = (late \/ tx[r].time <= newest)
         [] tx[r].op \in PermsOnly -> late' = TRUE /\ UNCHANGED newest
         [] OTHER -> UNCHANGED historyVars
    /\ UNCHANGED agentVars

OtherRequestStep ==
    /\ AdminNext
    /\ ~\E r \in Request : Commit(r)
    /\ UNCHANGED <<agentVars, historyVars>>

DistNext ==
    \/ AgentStep
    \/ \E r \in Request : CommitRequest(r)
    \/ OtherRequestStep

DistSpec == DistInit /\ [][DistNext]_distVars

-----------------------------------------------------------------------------
\* Whatever the policy manager answers to the next poll, the agent will keep
\* the policy it holds.
WillKeepPolicy ==
    \/ NoChangeSince(lastModifiedTime, PolicyCount(watcherContainer))
    \/ ~IsNewer(Document)

\* An agent that keeps its policy holds the repository's: resources are stamped
\* with distinct times in the order they are committed, and then comparing the
\* latest time and the number of resources is enough, whatever is deleted.
KeptPolicyIsCurrent ==
    ~late /\ watcherContainer # NoPolicy /\ WillKeepPolicy
        => watcherContainer.body = Document.body

\* "No change since last update" (getLatestRepoPolicy, the message of status
\* 304): the agent holds the repository's policy.
NotModifiedIsTrue ==
    (/\ watcherContainer # NoPolicy
     /\ NoChangeSince(lastModifiedTime, PolicyCount(watcherContainer)))
        => watcherContainer.body = Document.body
=============================================================================
