------------------------ MODULE MCPolicyDistribution ------------------------
\* A small instance of PolicyDistribution for TLC.
EXTENDS PolicyDistribution, TLC

MCPolicy ==
    [time : 0 .. MaxTime, count : 0 .. MaxId,
     body : SUBSET [id : Id, name : Name, perms : SUBSET Perm]]

Symmetry == Permutations(Request) \cup Permutations(Name)

\* Nothing is claimed of what an agent holds after a commit that is not stamped
\* later than those before it: from there on only the policy manager is explored.
Timely == late => AgentInit

\* What an agent does with a policy it has taken over neither reads nor changes what
\* it polls with: the policy manager need not be explored in the middle of it.  A poll
\* reads committed rows only: it can be made right after the commit, when the request
\* that committed is idle.
AgentFirst ==
    /\ \/ pollPc \in {"idle", "dead"} /\ mainPc \in {"construct", "ready"}
       \/ UNCHANGED adminVars
    /\ (\E r \in Request : tx[r] = Idle) \/ UNCHANGED agentVars

\* Nor do the copies of the policy that it has handed on; and newest serves to find the
\* first late commit only.
Polling ==
    <<adminVars, late, IF late THEN 0 ELSE newest,
      watcherContainer, lastModifiedTime, pollPc, mainPc, watcherDaemon,
      refresherContainer = NoPolicy>>
=============================================================================
