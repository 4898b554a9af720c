--------------------------- MODULE UserGroupSync ----------------------------
(***************************************************************************)
(* The synchronisation of Unix users and groups with the policy manager:   *)
(* UserGroupSync with UnixUserGroupBuilder as source and                   *)
(* PolicyMgrUserGroupBuilder as sink.                                      *)
(*                                                                         *)
(* The source reads /etc/group and /etc/passwd whenever the time of one    *)
(* differs from the time noted after it was read.  The sink keeps a copy   *)
(* of what the policy manager has, loaded once, compares every user with   *)
(* it and makes one call for each thing that is missing or too much.       *)
(* A call that fails may have been carried out or not; it ends the         *)
(* process, except before the initial load is done, which is repeated.     *)
(*                                                                         *)
(* With LdapUserGroupBuilder as source there are no times: the directory   *)
(* is searched every cycle, and a user whose update fails is passed over.  *)
(* groupFile and passwdFile are the directory then: the entries that are   *)
(* a member of each group, and NoLine for a user without an entry.         *)
(***************************************************************************)
EXTENDS Naturals, FiniteSets

CONSTANTS
    User, Group,
    System,         \* users with an id below usergroupSync.unix.minUserId
    GroupContent,   \* the contents /etc/group may have, of those of GroupLines
    PasswdContent,  \* the contents /etc/passwd may have, of those of PasswdLines
    NoLine,         \* a group or user without a line in its file
    Unknown,        \* a user the sink has not found in the policy manager
    NoGroup,        \* no group has been created for the next membership
    MaxChanges,     \* bound on the changes of the files
    MaxFailures,    \* bound on the calls that fail
    MaxRestarts     \* bound on the restarts after the process has ended

GroupLines == [Group -> {NoLine} \cup SUBSET User]
PasswdLines == [User -> {NoLine} \cup Group]

ASSUME SyncAssumption ==
    /\ System \subseteq User
    /\ GroupContent \subseteq GroupLines /\ PasswdContent \subseteq PasswdLines
    /\ Unknown \notin User /\ \A S \in SUBSET Group : Unknown # S
    /\ NoLine \notin Group /\ NoGroup \notin Group
    /\ MaxChanges \in Nat /\ MaxFailures \in Nat /\ MaxRestarts \in Nat

VARIABLES
    ldap,                         \* the source is LdapUserGroupBuilder
    groupFile, passwdFile,        \* the members of each group; the group of each user
    groupTime, passwdTime,        \* when they were modified, in seconds
    pc,                           \* where the thread is
    initDone,                     \* initDone of UserGroupSync.run
    names,                        \* groupId2groupNameMap
    listed, list,                 \* user2GroupListMap: its users, and their groups
    groupModified, passwdModified,\* groupFileModifiedAt, passwordFileModiiedAt
    todo,                         \* the users updateSink has not handed to the sink yet
    job,                          \* what addOrUpdateUser still has to do for its user
    known,                        \* the groups of each XUserInfo of the sink
    knownGroups,                  \* groupName2XGroupInfoMap
    db,                           \* the tables of the policy manager
    failures, restarts, changes,  \* counted for their bounds
    raced,                        \* the files that changed unnoticeably
    refused,                      \* a deletion was refused since the files were read
    misled,                       \* the users passed over, of whom the copy may be wrong
    unlinked                      \* what this process has deleted

files == <<groupFile, passwdFile, groupTime, passwdTime, changes>>
source == <<ldap, names, listed, list, groupModified, passwdModified>>
sink == <<known, knownGroups>>
history == <<raced, refused, misled, unlinked>>
syncVars == <<files, source, sink, history, pc, initDone, todo, job, db, failures, restarts>>

NoJob == [user |-> Unknown, add |-> {}, del |-> {}, group |-> NoGroup]
Job == [user : User, add : SUBSET Group, del : SUBSET Group, group : Group \cup {NoGroup}]
Pc == {"load", "group", "groupStamp", "passwd", "passwdStamp", "users",
       "login", "user", "link", "sleep", "dead"}
Time == 0 .. MaxChanges + 1
\* x_portal_user, x_user, x_group, and the number of rows x_group_users has of a pair.
Tables == [logins : SUBSET User, users : SUBSET User, groups : SUBSET Group,
           links : [User \X Group -> Nat]]

Linked(u) == {g \in Group : db.links[<<u, g>>] > 0}
GroupsIn(lines, u) == {g \in Group : lines[g] # NoLine /\ u \in lines[g]}
\* What the files or the directory say now: the groups of a user, and who is a user.
Source(u) ==
    IF ldap
    THEN {g \in GroupsIn(groupFile, u) : passwdFile[u] # NoLine}
    ELSE GroupsIn(groupFile, u)
             \cup {g \in Group : u \notin System /\ passwdFile[u] = g /\ groupFile[g] # NoLine}
Users == {u \in User : IF ldap THEN passwdFile[u] # NoLine ELSE Source(u) # {}}

SyncTypeOK ==
    /\ ldap \in BOOLEAN
    /\ groupFile \in GroupContent /\ passwdFile \in PasswdContent
    /\ {groupTime, passwdTime, groupModified, passwdModified} \subseteq Time
    /\ pc \in Pc /\ initDone \in BOOLEAN
    /\ names \subseteq Group /\ listed \subseteq User /\ list \in [User -> SUBSET Group]
    /\ todo \subseteq User
    /\ job \in Job \cup {NoJob}
    /\ known \in [User -> {Unknown} \cup SUBSET Group] /\ knownGroups \subseteq Group
    /\ db \in Tables
    /\ failures \in 0 .. MaxFailures /\ restarts \in 0 .. MaxRestarts /\ changes \in 0 .. MaxChanges
    /\ raced \subseteq {"group", "passwd"} /\ refused \in BOOLEAN /\ misled \subseteq User
    /\ unlinked \in [User -> SUBSET Group]

SyncInit ==
    /\ ldap \in BOOLEAN
    /\ groupFile \in GroupContent /\ passwdFile \in PasswdContent
    /\ groupTime = 1 /\ passwdTime = 1 /\ groupModified = 0 /\ passwdModified = 0
    /\ pc = "load" /\ initDone = FALSE
    /\ names = {} /\ listed = {} /\ list = [u \in User |-> {}] /\ todo = {} /\ job = NoJob
    /\ known = [u \in User |-> Unknown] /\ knownGroups = {}
    /\ db = [logins |-> {}, users |-> {}, groups |-> {},
             links |-> [pair \in User \X Group |-> 0]]
    /\ failures = 0 /\ restarts = 0 /\ changes = 0
    /\ raced = {} /\ refused = FALSE /\ misled = {} /\ unlinked = [u \in User |-> {}]

-----------------------------------------------------------------------------
(* The files and the directory.  Two changes in one second leave a file the  *)
(* same time.                                                                *)

ChangeGroupFile ==
    /\ changes < MaxChanges /\ changes' = changes + 1
    /\ groupFile' \in GroupContent \ {groupFile}
    /\ groupTime' \in {groupTime, groupTime + (IF ldap THEN 0 ELSE 1)}
    /\ raced' = IF ~ldap /\ (pc = "groupStamp" \/ (pc # "group" /\ groupTime' = groupModified))
                THEN raced \cup {"group"} ELSE raced
    /\ UNCHANGED <<passwdFile, passwdTime, source, sink, refused, misled, unlinked, pc, initDone,
                   todo, job, db, failures, restarts>>

ChangePasswdFile ==
    /\ changes < MaxChanges /\ changes' = changes + 1
    /\ passwdFile' \in PasswdContent \ {passwdFile}
    /\ passwdTime' \in {passwdTime, passwdTime + (IF ldap THEN 0 ELSE 1)}
    /\ raced' = IF ~ldap /\ (pc = "passwdStamp" \/ passwdTime' = passwdModified)
                THEN raced \cup {"passwd"} ELSE raced
    /\ UNCHANGED <<groupFile, groupTime, source, sink, refused, misled, unlinked, pc, initDone,
                   todo, job, db, failures, restarts>>

-----------------------------------------------------------------------------
(* The source: buildUserGroupInfo, isChanged and updateSink.                 *)

\* buildUnixGroupList
ReadGroupFile ==
    /\ pc = "group" /\ ~ldap
    /\ names' = {g \in Group : groupFile[g] # NoLine}
    /\ list' = [u \in User |-> GroupsIn(groupFile, u)]
    /\ raced' = raced \ {"group"} /\ refused' = FALSE
    /\ pc' = "groupStamp"
    /\ UNCHANGED <<files, ldap, listed, groupModified, passwdModified, sink, misled, unlinked,
                   initDone, todo, job, db, failures, restarts>>

StampGroupFile ==
    /\ pc = "groupStamp"
    /\ groupModified' = groupTime
    /\ pc' = "passwd"
    /\ UNCHANGED <<files, ldap, names, listed, list, passwdModified, sink, history, initDone,
                   todo, job, db, failures, restarts>>

\* Variant of PrimaryGroup: for every user, whatever his id.
PrimaryGroupOfAll(u) == {passwdFile[u]} \cap names

\* Variant of PrimaryGroup: a group that was not read is put in the list as null.
PrimaryGroupOrNull(u) ==
    IF u \in System THEN {} ELSE {IF passwdFile[u] \in names THEN passwdFile[u] ELSE NoLine}

\* buildUnixUserList.  The group of a user with too small an id is left out; the user
\* is not, where /etc/group has him as a member.
PrimaryGroup(u) == IF u \in System THEN {} ELSE {passwdFile[u]} \cap names
ReadPasswdFile ==
    /\ pc = "passwd"
    /\ list' = [u \in User |-> list[u] \cup PrimaryGroup(u)]
    /\ raced' = raced \ {"passwd"}
    /\ pc' = "passwdStamp"
    /\ UNCHANGED <<files, ldap, names, listed, groupModified, passwdModified, sink, refused,
                   misled, unlinked, initDone, todo, job, db, failures, restarts>>

StampPasswdFile ==
    /\ pc = "passwdStamp"
    /\ passwdModified' = passwdTime
    /\ listed' = {u \in User : list[u] # {}}
    /\ todo' = listed'
    /\ pc' = "users"
    /\ UNCHANGED <<files, ldap, names, list, groupModified, sink, history, initDone, job, db,
                   failures, restarts>>

\* LdapUserGroupBuilder.updateSink: a user without groups is handed to the sink as well.
Search ==
    /\ pc = "group" /\ ldap
    /\ listed' = Users /\ list' = [u \in User |-> Source(u)]
    /\ todo' = listed'
    /\ refused' = FALSE
    /\ pc' = "users"
    /\ UNCHANGED <<files, ldap, names, groupModified, passwdModified, sink, raced, misled, unlinked,
                   initDone, job, db, failures, restarts>>

\* Variant of Changed: the password file alone is looked at.
ChangedPasswd == ldap \/ passwdModified # passwdTime

Changed == ldap \/ passwdModified # passwdTime \/ groupModified # groupTime

\* syncUserGroup, after the sleep.
FindChanged ==
    /\ pc = "sleep" /\ Changed
    /\ pc' = "group"
    /\ UNCHANGED <<files, source, sink, history, initDone, todo, job, db, failures, restarts>>

-----------------------------------------------------------------------------
(* The sink.                                                                 *)

\* The sink that run() creates before every attempt at the initial load: init reads
\* groups, users and memberships.  The source builds its lists in its own init too,
\* and again at once in updateSink.
Load ==
    /\ pc = "load"
    /\ known' = [u \in User |-> IF u \in db.users THEN Linked(u) ELSE Unknown]
    /\ knownGroups' = db.groups
    /\ unlinked' = [u \in User |-> {}]
    /\ pc' = "group"
    /\ UNCHANGED <<files, source, raced, refused, misled, initDone, todo, job, db, failures,
                   restarts>>

\* Variant of Fail: a user is passed over whatever the source.
FailAndGoOn ==
    /\ failures < MaxFailures /\ failures' = failures + 1
    /\ job' = NoJob
    /\ IF job # NoJob
       THEN /\ pc' = "users"
            /\ misled' = IF ldap THEN misled \cup {job.user} ELSE misled
            /\ UNCHANGED todo
       ELSE /\ pc' = IF initDone THEN "dead" ELSE "load"
            /\ todo' = {}
            /\ UNCHANGED misled
    /\ UNCHANGED <<files, source, sink, raced, refused, unlinked, initDone, restarts>>

\* An exception: LdapUserGroupBuilder catches those of addOrUpdateUser.
Fail ==
    /\ failures < MaxFailures /\ failures' = failures + 1
    /\ job' = NoJob
    /\ IF ldap /\ job # NoJob
       THEN /\ pc' = "users"
            /\ misled' = misled \cup {job.user}
            /\ UNCHANGED todo
       ELSE /\ pc' = IF initDone THEN "dead" ELSE "load"
            /\ todo' = {}
            /\ UNCHANGED misled
    /\ UNCHANGED <<files, source, sink, raced, refused, unlinked, initDone, restarts>>

\* The search of the directory fails, at its start or on the way.
SearchFails == ldap /\ pc \in {"group", "users"} /\ Fail /\ UNCHANGED db

\* A Unix file cannot be read to its end, or a line of it has too few fields.  What was
\* read of it is not used: the next reading begins with empty maps.
ReadFails == ~ldap /\ pc \in {"group", "passwd"} /\ Fail /\ UNCHANGED db

LoadFails == pc = "load" /\ Fail /\ UNCHANGED db

\* A call that leaves the tables as given: it is answered, or it fails, carried out
\* or not.
Call(tables, answered) ==
    \/ /\ db' = tables
       /\ answered
       /\ UNCHANGED <<files, source, initDone, todo, failures, restarts>>
    \/ db' \in {db, tables} /\ Fail

\* Variant of NoLongerIn: the groups that are not in the files at all.
NoLongerThere(u) == known[u] \ names

\* delGroups
NoLongerIn(u) == known[u] \ list[u]

\* addOrUpdateUser
StartUser ==
    /\ pc = "users"
    /\ \E u \in todo :
        /\ todo' = todo \ {u}
        /\ IF known[u] = Unknown
           THEN /\ job' = [user |-> u, add |-> list[u], del |-> {}, group |-> NoGroup]
                /\ pc' = "login"
           ELSE /\ job' = [user |-> u, add |-> list[u] \ known[u], del |-> NoLongerIn(u),
                           group |-> NoGroup]
                /\ pc' = "link"
    /\ UNCHANGED <<files, source, sink, history, initDone, db, failures, restarts>>

\* addMUser
AddLogin ==
    /\ pc = "login"
    /\ Call([db EXCEPT !.logins = @ \cup {job.user}],
            pc' = "user" /\ UNCHANGED <<sink, history, job>>)

\* addXUserInfo
AddUser ==
    /\ pc = "user"
    /\ Call([db EXCEPT !.users = @ \cup {job.user}],
            /\ known' = [known EXCEPT ![job.user] = {}]
            /\ pc' = "link"
            /\ UNCHANGED <<knownGroups, history, job>>)

\* addXGroupInfo: the membership of the group is the next call.
AddGroup ==
    /\ pc = "link" /\ job.group = NoGroup
    /\ \E g \in job.add \ knownGroups :
        Call([db EXCEPT !.groups = @ \cup {g}],
             /\ knownGroups' = knownGroups \cup {g}
             /\ job' = [job EXCEPT !.group = g]
             /\ UNCHANGED <<known, history, pc>>)

\* Variant of WithLink: what is answered is not added to the copy.
WithLinkForgotten(u, g) == known

WithLink(u, g) == [known EXCEPT ![u] = @ \cup {g}]

\* createXGroupUserWithOutLogin: a row is inserted whether there is one or not.
WithLinkRow(links, u, g) == [links EXCEPT ![<<u, g>>] = @ + 1]

\* addXUserGroupInfo
AddLink ==
    /\ pc = "link"
    /\ \E g \in IF job.group = NoGroup THEN job.add \cap knownGroups ELSE {job.group} :
        Call([db EXCEPT !.links = WithLinkRow(@, job.user, g)],
             /\ known' = WithLink(job.user, g)
             /\ job' = [job EXCEPT !.add = @ \ {g}, !.group = NoGroup]
             /\ UNCHANGED <<knownGroups, history, pc>>)

\* deleteXGroupAndXUser: every row of the pair.
WithoutLinks(links, u, g) == [links EXCEPT ![<<u, g>>] = 0]

\* The status of deleteXGroupAndXUser, which returns nothing, and the one that
\* delXUserGroupInfo expects.
Deleted == 204
DeletionExpected == 200
WithoutGroup(u, g) ==
    IF Deleted = DeletionExpected THEN [known EXCEPT ![u] = @ \ {g}] ELSE known

\* delXUserGroupInfo.  An answer with an error is like any other.
DeleteLink ==
    /\ pc = "link" /\ job.add = {}
    /\ \E g \in job.del \cap knownGroups :
        \/ Call([db EXCEPT !.links = WithoutLinks(@, job.user, g)],
                /\ known' = WithoutGroup(job.user, g)
                /\ unlinked' = [unlinked EXCEPT ![job.user] = @ \cup {g}]
                /\ job' = [job EXCEPT !.del = @ \ {g}]
                /\ UNCHANGED <<knownGroups, raced, refused, misled, pc>>)
        \/ /\ failures < MaxFailures /\ failures' = failures + 1
           /\ refused' = TRUE
           /\ job' = [job EXCEPT !.del = @ \ {g}]
           /\ UNCHANGED <<files, source, sink, raced, misled, unlinked, pc, initDone, todo, db,
                          restarts>>

EndUser ==
    /\ pc = "link" /\ job.add = {} /\ job.del \cap knownGroups = {}
    /\ job' = NoJob
    /\ pc' = "users"
    /\ UNCHANGED <<files, source, sink, history, initDone, todo, db, failures, restarts>>

EndUpdate ==
    /\ pc = "users" /\ todo = {}
    /\ initDone' = TRUE
    /\ pc' = "sleep"
    /\ UNCHANGED <<files, source, sink, history, todo, job, db, failures, restarts>>

\* The service is started again, by whoever finds it gone.
Restart ==
    /\ pc = "dead"
    /\ restarts < MaxRestarts /\ restarts' = restarts + 1
    /\ pc' = "load" /\ initDone' = FALSE
    /\ groupModified' = 0 /\ passwdModified' = 0
    /\ UNCHANGED <<files, ldap, names, listed, list, sink, history, todo, job, db, failures>>

ThreadNext ==
    \/ Load \/ LoadFails \/ ReadGroupFile \/ StampGroupFile \/ ReadPasswdFile \/ StampPasswdFile
    \/ ReadFails \/ Search \/ SearchFails
    \/ StartUser \/ AddLogin \/ AddUser \/ AddGroup \/ AddLink \/ DeleteLink \/ EndUser \/ EndUpdate
    \/ FindChanged

SyncNext == ThreadNext \/ ChangeGroupFile \/ ChangePasswdFile \/ Restart

\* The thread is scheduled and every call is answered or fails.
SyncSpec == SyncInit /\ [][SyncNext]_syncVars /\ WF_syncVars(ThreadNext)

-----------------------------------------------------------------------------
\* The policy manager checks nothing when it inserts a membership: that there is one
\* row of each is up to the sink, through failures and restarts.  A lost answer about a
\* user that is then passed over is the one way to more.
NoDuplicateLinks == \A u \in User \ misled, g \in Group : db.links[<<u, g>>] <= 1

\* The copy in the sink has the users and memberships that the policy manager has,
\* and besides these only memberships that this process has deleted.
Running == pc \notin {"load", "dead"}
CopyIsTrue ==
    Running => \A u \in User \ misled :
        IF u \in db.users
        THEN known[u] # Unknown /\ Linked(u) \subseteq known[u]
                /\ known[u] \subseteq Linked(u) \cup unlinked[u]
        ELSE known[u] = Unknown

\* When an update has ended, the users that were read have the groups that were read
\* and no others, except for those deleted before, and unless a deletion was refused.
UpdateIsComplete ==
    (pc = "sleep" /\ ~refused) =>
        \A u \in listed \ misled :
            Linked(u) \subseteq list[u] /\ list[u] \subseteq Linked(u) \cup unlinked[u]

\* A change of the files is read, unless it came between the reading of a file and
\* the look at its time, or in the second in which the file was modified last.
ChangesAreRead ==
    (pc = "sleep" /\ ~Changed /\ raced = {}) => \A u \in User : list[u] = Source(u)

\* Once the files change no more, the policy manager has what they say, with the same
\* exceptions, or the process has ended.  A user passed over once may keep or miss a
\* membership that the copy is wrong about.
InSync ==
    \A u \in Users \ misled :
        Linked(u) \subseteq Source(u) /\ Source(u) \subseteq Linked(u) \cup unlinked[u]
EventuallyInSync == <>[](pc = "dead" \/ refused \/ raced # {} \/ InSync)

\* "user, groups would be synced again at the end of each sync interval"
\* (install.properties): a user has the groups that were read for him, if no call failed.
GroupsAreSynced ==
    (pc = "sleep" /\ failures = 0) => \A u \in User : list[u] \subseteq Linked(u)
=============================================================================
