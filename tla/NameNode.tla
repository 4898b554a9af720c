------------------------------ MODULE NameNode ------------------------------
(***************************************************************************)
(* The agent inside the name node.  HadoopAuthClassTransformer puts calls  *)
(* of XaSecureFSPermissionChecker around two methods of Hadoop's           *)
(* FSPermissionChecker: checkPermission, which a handler thread calls once *)
(* for a request, and check, which checkPermission calls for some inodes.  *)
(* Each check leaves an event in a ThreadLocal; the end of checkPermission *)
(* writes the audit log from it, if the policy says so (AuditFlag).        *)
(*                                                                         *)
(* What Hadoop does in these methods is open: which inodes it checks and   *)
(* how many, what its own permissions allow, what else refuses a request.  *)
(***************************************************************************)
EXTENDS AuditFlag

CONSTANTS
    Action,         \* FsAction
    AccessTypes,    \* access2ActionListMapper: the access types of each action
    InodePath,      \* what getFullPathName returns; the root's is empty
    ExcludedUser,   \* excludeUsers
    NoEvent,        \* no event in the ThreadLocal, or none written
    MaxChecks,      \* bound: checks of a request
    MaxRequests     \* bound: requests of all handlers

Event ==
    [module : {"xasecure", "hadoop"}, user : User, path : Path, action : Action,
     accessGranted : BOOLEAN]

ASSUME NameNodeAssumption ==
    /\ NoEvent \notin Event
    /\ User # {} /\ Action # {}
    /\ <<>> \in InodePath /\ InodePath \cup {<<Sep>>} \subseteq Path
    /\ AccessTypes \in [Action -> Seq(STRING)]

\* A path as getFullPathName makes it: absolute, and it ends in a separator only at
\* the root.  That no name has a wildcard is assumed in HdfsPolicy as well.
IsPath(p) ==
    /\ p \in Seq(STRING) /\ ~IsWildcardPath(p)
    /\ p # <<>> /\ p[1] = Sep
    /\ Last(p) = Sep => p = <<Sep>>

ASSUME PathAssumption ==
    /\ \A p \in Path \ {<<>>} : IsPath(p)
    /\ \A pc \in Container : \A i \in DOMAIN pc : pc[i].resourceList \subseteq Seq(STRING)

VARIABLES
    addHadoopAuth,     \* configuration: Hadoop's permissions are asked as well
    verifier,          \* configuration: an access verifier can be created
    authorizer,        \* it has been, by the first check that needed it
    phase,             \* each handler in checkPermission
    user,              \* ugi of each request
    checked,           \* the inode's path and the action of the check under way
    accessTypes,       \* the access types not yet asked for
    currentValidatedLogEvent,
    written,           \* the audit record of the latest request
    \* Not in the code:
    checks, requests,  \* for the bounds
    own,               \* the event was made in this request
    outcome,           \* how the latest request ended
    overtaken          \* a policy was set since the latest check began

configVars == <<addHadoopAuth, verifier, authorizer>>
requestVars == <<user, requests>>
checkVars == <<checked, accessTypes, checks>>
eventVars == <<currentValidatedLogEvent, own>>
endVars == <<written, outcome>>
nameNodeVars == <<flagVars, configVars, phase, requestVars, checkVars, eventVars, endVars,
                  overtaken>>

Phases == {"idle", "checkPermission", "authorize", "hadoop", "writeLog", "isAuditLogEnabled"}
Outcomes == {"none", "allowed", "refused", "refusedElsewhere", "failed"}

\* The type of the configuration and of the access verifier.
VerifierTypeOK ==
    addHadoopAuth \in BOOLEAN /\ verifier \in BOOLEAN /\ authorizer \in BOOLEAN

\* Every variable has its type.
NameNodeTypeOK ==
    /\ FlagTypeOK
    /\ VerifierTypeOK
    /\ phase \in [Handler -> Phases]
    /\ user \in [Handler -> User]
    /\ checked \in [Handler -> [path : InodePath, action : Action]]
    /\ accessTypes \in [Handler -> Seq(STRING)]
    /\ currentValidatedLogEvent \in [Handler -> Event \cup {NoEvent}]
    /\ written \in [Handler -> Event \cup {NoEvent}]
    /\ checks \in [Handler -> Nat] /\ requests \in Nat
    /\ own \in [Handler -> BOOLEAN]
    /\ outcome \in [Handler -> Outcomes]
    /\ overtaken \in [Handler -> BOOLEAN]

\* The parameters of check out of a check.
NoCheck == [path |-> <<>>, action |-> CHOOSE action \in Action : TRUE]

NameNodeInit ==
    /\ FlagInit
    /\ addHadoopAuth \in BOOLEAN /\ verifier \in BOOLEAN /\ authorizer = FALSE
    /\ phase = [h \in Handler |-> "idle"]
    /\ user = [h \in Handler |-> CHOOSE u \in User : TRUE]
    /\ checked = [h \in Handler |-> NoCheck]
    /\ accessTypes = [h \in Handler |-> <<>>]
    /\ currentValidatedLogEvent = [h \in Handler |-> NoEvent]
    /\ written = [h \in Handler |-> NoEvent]
    /\ checks = [h \in Handler |-> 0] /\ requests = 0
    /\ own = [h \in Handler |-> FALSE]
    /\ outcome = [h \in Handler |-> "none"]
    /\ overtaken = [h \in Handler |-> FALSE]

-----------------------------------------------------------------------------
(* A request *)

CheckPermission(h) ==
    /\ phase[h] = "idle" /\ requests < MaxRequests
    /\ \E u \in User : user' = [user EXCEPT ![h] = u]
    /\ phase' = [phase EXCEPT ![h] = "checkPermission"]
    /\ requests' = requests + 1
    /\ checks' = [checks EXCEPT ![h] = 0]
    /\ own' = [own EXCEPT ![h] = FALSE]
    /\ written' = [written EXCEPT ![h] = NoEvent]
    /\ outcome' = [outcome EXCEPT ![h] = "none"]
    /\ UNCHANGED <<flagVars, configVars, checked, accessTypes, currentValidatedLogEvent,
                   overtaken>>

\* logEvent: the event of an earlier check is replaced.
LogEvent(h, module, p, action, granted) ==
    /\ currentValidatedLogEvent' =
           [currentValidatedLogEvent EXCEPT ![h] =
               [module |-> module, user |-> user[h], path |-> p, action |-> action,
                accessGranted |-> granted]]
    /\ own' = [own EXCEPT ![h] = TRUE]

Goto(h, where) == phase' = [phase EXCEPT ![h] = where]
Ends(h, how) == outcome' = [outcome EXCEPT ![h] = how]

\* check is called for an inode.
Check(h) ==
    /\ phase[h] = "checkPermission" /\ checks[h] < MaxChecks
    /\ \E p \in InodePath, action \in Action :
        /\ checked' = [checked EXCEPT ![h] = [path |-> p, action |-> action]]
        /\ accessTypes' = [accessTypes EXCEPT ![h] = AccessTypes[action]]
    /\ Goto(h, "authorize")
    /\ checks' = [checks EXCEPT ![h] = @ + 1]
    /\ overtaken' = [overtaken EXCEPT ![h] = FALSE]
    /\ UNCHANGED <<flagVars, configVars, requestVars, eventVars, endVars>>

\* check without an inode: the agent leaves it to Hadoop, which lets it pass.
CheckNoInode(h) ==
    /\ phase[h] = "checkPermission" /\ checks[h] < MaxChecks
    /\ \E action \in Action : LogEvent(h, "hadoop", <<>>, action, TRUE)
    /\ checks' = [checks EXCEPT ![h] = @ + 1]
    /\ overtaken' = [overtaken EXCEPT ![h] = FALSE]
    /\ UNCHANGED <<flagVars, configVars, phase, requestVars, checked, accessTypes, endVars>>

\* AuthorizeAccessForUser takes the root by its other name, which the events of
\* Hadoop's check do not.
Normal(p) == IF p = <<>> THEN <<Sep>> ELSE p

\* The check ends with an event: it lets the request go on, refuses it, or fails.
Passes(h) == Goto(h, "checkPermission") /\ UNCHANGED outcome
Refuses(h) == Goto(h, "writeLog") /\ Ends(h, "refused")
CheckEnds(h) ==
    checked' = [checked EXCEPT ![h] = IF phase'[h] = "hadoop" THEN @ ELSE NoCheck]

\* The result of AuthorizeAccessForUser, and what check makes of it.
Decided(h, granted) ==
    /\ LogEvent(h, "xasecure", Normal(checked[h].path), checked[h].action, granted)
    /\ \/ granted /\ Passes(h)
       \/ ~granted /\ addHadoopAuth /\ Goto(h, "hadoop") /\ UNCHANGED outcome
       \/ ~granted /\ ~addHadoopAuth /\ Refuses(h)
    /\ CheckEnds(h)

\* Variant: all access types are asked for, and the answer for the last one counts.
AuthorizeLast(h) ==
    /\ phase[h] = "authorize" /\ verifier /\ accessTypes[h] # <<>>
    /\ authorizer' = TRUE
    /\ accessTypes' = [accessTypes EXCEPT ![h] = Tail(@)]
    /\ IF Len(accessTypes[h]) > 1
       THEN UNCHANGED <<phase, eventVars, outcome, checked>>
       ELSE Decided(h, isAccessGranted(policyContainer, Normal(checked[h].path),
                                       Head(accessTypes[h]), user[h]))
    /\ UNCHANGED <<flagVars, addHadoopAuth, verifier, requestVars, checks, written,
                   overtaken>>

\* One access type is asked for, on the policy that is current now; the first
\* that is not granted ends it.
Authorize(h) ==
    /\ phase[h] = "authorize" /\ verifier /\ accessTypes[h] # <<>>
    /\ authorizer' = TRUE
    /\ \E granted \in BOOLEAN :
        /\ granted = isAccessGranted(policyContainer, Normal(checked[h].path),
                                     Head(accessTypes[h]), user[h])
        /\ accessTypes' = [accessTypes EXCEPT ![h] = IF granted THEN Tail(@) ELSE <<>>]
        /\ IF granted /\ Len(accessTypes[h]) > 1
           THEN UNCHANGED <<phase, eventVars, outcome, checked>>
           ELSE Decided(h, granted)
    /\ UNCHANGED <<flagVars, addHadoopAuth, verifier, requestVars, checks, written,
                   overtaken>>

\* Without an access verifier, or for an action of no access type, nothing is
\* granted.
AuthorizeNothing(h) ==
    /\ phase[h] = "authorize" /\ (~verifier \/ accessTypes[h] = <<>>)
    /\ Decided(h, FALSE)
    /\ accessTypes' = [accessTypes EXCEPT ![h] = <<>>]
    /\ UNCHANGED <<flagVars, configVars, requestVars, checks, written, overtaken>>

\* Variant: the event is left only where Hadoop's check refuses.
HadoopCheckUnlogged(h) ==
    /\ phase[h] = "hadoop"
    /\ \/ Passes(h) /\ UNCHANGED eventVars
       \/ /\ LogEvent(h, "hadoop", checked[h].path, checked[h].action, FALSE)
          /\ Refuses(h) \/ (Goto(h, "idle") /\ Ends(h, "failed"))
    /\ CheckEnds(h)
    /\ UNCHANGED <<flagVars, configVars, requestVars, accessTypes, checks, written, overtaken>>

\* The body of Hadoop's check: it passes, refuses, or fails otherwise.
HadoopCheck(h) ==
    /\ phase[h] = "hadoop"
    /\ \E granted \in BOOLEAN :
        LogEvent(h, "hadoop", checked[h].path, checked[h].action, granted)
    /\ \/ currentValidatedLogEvent'[h].accessGranted /\ Passes(h)
       \/ ~currentValidatedLogEvent'[h].accessGranted /\ Refuses(h)
       \/ ~currentValidatedLogEvent'[h].accessGranted /\ Goto(h, "idle") /\ Ends(h, "failed")
    /\ CheckEnds(h)
    /\ UNCHANGED <<flagVars, configVars, requestVars, accessTypes, checks, written, overtaken>>

\* The body of checkPermission ends: writeLog follows unless it failed with
\* anything but an AccessControlException.
Return(h) ==
    /\ phase[h] = "checkPermission"
    /\ \/ Goto(h, "writeLog") /\ \E how \in {"allowed", "refusedElsewhere"} : Ends(h, how)
       \/ Goto(h, "idle") /\ Ends(h, "failed")
    /\ UNCHANGED <<flagVars, configVars, requestVars, checkVars, eventVars, written, overtaken>>

-----------------------------------------------------------------------------
(* writeLog *)

event(h) == currentValidatedLogEvent[h]

\* There is an event, and its user is not one of those whose events are skipped.
ToBeWritten(h) == event(h) # NoEvent /\ event(h).user \notin ExcludedUser

WriteNothing(h) ==
    /\ phase[h] = "writeLog" /\ ~ToBeWritten(h)
    /\ Goto(h, "idle")
    /\ UNCHANGED <<flagVars, configVars, requestVars, checkVars, eventVars, endVars, overtaken>>

\* As long as no check needed the access verifier, or without one, there is
\* nobody to ask, and the request fails.
WriteFails(h) ==
    /\ phase[h] = "writeLog" /\ ToBeWritten(h) /\ ~authorizer
    /\ Goto(h, "idle") /\ Ends(h, "failed")
    /\ UNCHANGED <<flagVars, configVars, requestVars, checkVars, eventVars, written, overtaken>>

\* The end of writeLog, with the answer of isAuditLogEnabled.
Write(h, enabled) ==
    /\ Goto(h, "idle")
    /\ written' = [written EXCEPT ![h] = IF enabled THEN event(h) ELSE NoEvent]

WriteCached(h) ==
    /\ phase[h] = "writeLog" /\ ToBeWritten(h) /\ authorizer
    /\ Hit(h, event(h).path)
    /\ Write(h, cachedAuditFlag[event(h).path])
    /\ UNCHANGED <<configVars, requestVars, checkVars, eventVars, outcome, overtaken>>

AskPolicy(h) ==
    /\ phase[h] = "writeLog" /\ ToBeWritten(h) /\ authorizer
    /\ Miss(h, event(h).path)
    /\ Goto(h, "isAuditLogEnabled")
    /\ UNCHANGED <<configVars, requestVars, checkVars, eventVars, endVars, overtaken>>

AnswerByPolicy(h) ==
    /\ phase[h] = "isAuditLogEnabled" /\ Compute(h)
    /\ UNCHANGED <<configVars, phase, requestVars, checkVars, eventVars, endVars, overtaken>>

WriteComputed(h) ==
    /\ phase[h] = "isAuditLogEnabled" /\ Put(h)
    /\ Write(h, ret[h])
    /\ UNCHANGED <<configVars, requestVars, checkVars, eventVars, outcome, overtaken>>

-----------------------------------------------------------------------------
Refresh ==
    /\ SetPolicy \/ Clear
    /\ overtaken' = [h \in Handler |-> TRUE]
    /\ UNCHANGED <<configVars, phase, requestVars, checkVars, eventVars, endVars>>

NameNodeNext ==
    \/ Refresh
    \/ \E h \in Handler :
        \/ CheckPermission(h) \/ Check(h) \/ CheckNoInode(h)
        \/ Authorize(h) \/ AuthorizeNothing(h) \/ HadoopCheck(h) \/ Return(h)
        \/ WriteNothing(h) \/ WriteFails(h)
        \/ WriteCached(h) \/ AskPolicy(h) \/ AnswerByPolicy(h) \/ WriteComputed(h)

NameNodeSpec == NameNodeInit /\ [][NameNodeNext]_nameNodeVars

-----------------------------------------------------------------------------
\* The event of the latest check tells what the policy says.
GrantedTo(h) ==
    LET e == event(h)
    IN  own[h] /\ ~overtaken[h] /\ phase[h] # "authorize" /\ e.module = "xasecure" =>
            e.accessGranted =
                (/\ verifier
                 /\ AccessTypes[e.action] # <<>>
                 /\ \A t \in ToSet(AccessTypes[e.action]) :
                       isAccessGranted(policyContainer, e.path, t, e.user))

\* What the agent granted or denied is what the policy says of every access type
\* of the action, although each is asked for on its own: unless the policy was
\* being refreshed since the check began, the container is the same for all.
GrantedByThePolicy == \A h \in Handler : GrantedTo(h)

\* What the check under way asked for so far was granted.
AskedBy(h) ==
    phase[h] = "authorize" =>
        LET all == AccessTypes[checked[h].action]
        IN  /\ ToSet(accessTypes[h]) \subseteq ToSet(all)
            /\ accessTypes[h] = <<>> => all = <<>>
            /\ ~overtaken[h] => \A t \in ToSet(all) \ ToSet(accessTypes[h]) :
                  isAccessGranted(policyContainer, Normal(checked[h].path), t, user[h])

\* The inductive invariant behind GrantedByThePolicy.
AskedSoFar == \A h \in Handler : AskedBy(h)
NameNodeIInv == NameNodeTypeOK /\ AskedSoFar /\ GrantedByThePolicy

\* The request came to an end that its caller sees as an answer.
Answered(h) == phase[h] = "idle" /\ outcome[h] \in {"allowed", "refused", "refusedElsewhere"}

\* Nothing interfered with the event of the request, and the policy audits it.
Auditable(h) ==
    /\ own[h] /\ ~overtaken[h] /\ refreshPc = "idle" /\ ~raced
    /\ user[h] \notin ExcludedUser
    /\ Audited(event(h).path)

\* The audit record of a request tells the result of its last check: the refusal
\* if a check refused it.  It is of another request only if this one made no
\* check (the ThreadLocal is never emptied).  And it is missing only for a path
\* that is not audited, an excluded user, or about a refresh of the policy.
AuditTellsWhatHappened ==
    \A h \in Handler :
        Answered(h) =>
            /\ written[h] # NoEvent /\ checks[h] > 0 =>
                  /\ written[h].user = user[h]
                  /\ written[h].accessGranted = (outcome[h] # "refused")
            /\ Auditable(h) => written[h] = event(h)

\* An event made in the request is of its user, and what it says is what the
\* request comes to; there is one after each check.
EventIsOwn(h) ==
    /\ own[h] => event(h) # NoEvent /\ event(h).user = user[h]
    /\ checks[h] > 0 /\ phase[h] \notin {"authorize", "hadoop"} => own[h]
    /\ own[h] /\ phase[h] = "checkPermission" => event(h).accessGranted = TRUE
    /\ own[h] /\ (phase[h] \in {"writeLog", "isAuditLogEnabled"} \/ Answered(h)) =>
          event(h).accessGranted = (outcome[h] # "refused")

\* Only the event is written, and only at the end of a request.
WrittenIsEvent(h) ==
    /\ written[h] = NoEvent \/ (phase[h] = "idle" /\ written[h] = event(h))
    /\ phase[h] = "isAuditLogEnabled" => path[h] = event(h).path
    /\ Answered(h) /\ Auditable(h) => written[h] = event(h)

\* The inductive invariant behind AuditTellsWhatHappened.
RecordIInv == \A h \in Handler : EventIsOwn(h) /\ WrittenIsEvent(h)

\* A resource that ends in a separator or is empty: the manager takes it for the
\* path without the separator, and for the root.
OpenEnded(r) == r = <<>> \/ (r # <<Sep>> /\ Last(r) = Sep)

\* The agent enforces a policy wherever the policy manager takes it to apply (its
\* delegated administrators are found by matchHdfsPolicy), and elsewhere only
\* where the two differ by what they do: a recursive path covers the names that
\* begin like it, the * of a path that is not recursive crosses separators, and
\* only the manager makes nothing of a separator at the end.
Agree(acl, p, r) ==
    IF rulePathMatched(acl, p, r)
    THEN \/ matchHdfsPolicy(acl, p, r)
         \/ ~IsWildcardPath(r) /\ acl.recursiveInd = 1 /\ p[Len(r) + 1] # Sep
         \/ IsWildcardPath(r) /\ acl.recursiveInd # 1 /\ Len(Pieces(p)) # Len(Pieces(r))
    ELSE ~matchHdfsPolicy(acl, p, r) \/ OpenEnded(r)

\* The containers with a policy on which agent and policy manager do not agree.
Disagreed ==
    {pc \in Container : \E i \in DOMAIN pc, p \in Path \ {<<>>} :
        \E r \in pc[i].resourceList : ~Agree(pc[i], p, r)}

MatchersAgree == policyContainer \notin Disagreed
=============================================================================
