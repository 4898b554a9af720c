------------------------ MODULE UserGroupSync_proofs ------------------------
(***************************************************************************)
(* Proofs about UserGroupSync: the types, the copy that the sink keeps,    *)
(* and the one row of each membership, whatever fails and restarts.        *)
(***************************************************************************)
EXTENDS UserGroupSync, TLAPS

\* The times count the changes.
TimesOK == groupTime <= changes + 1 /\ passwdTime <= changes + 1

\* What is left to do for a user fits the copy: only memberships are added that the
\* copy does not have.
AtUser == pc \in {"login", "user", "link"}
JobOK ==
    /\ IF AtUser THEN job \in Job ELSE job = NoJob
    /\ pc \in {"login", "user"} => known[job.user] = Unknown /\ job.group = NoGroup
    /\ pc = "link" => /\ known[job.user] \in SUBSET Group
                      /\ job.add \cap known[job.user] = {}
                      /\ job.group \in job.add \cup {NoGroup}

\* The users of the copy are stored, and only users that are stored have memberships.
StoredOK ==
    \A u \in User :
        /\ known[u] # Unknown => u \in db.users
        /\ u \notin db.users => \A g \in Group : db.links[<<u, g>>] = 0

SyncIInv == SyncTypeOK /\ TimesOK /\ JobOK /\ StoredOK /\ NoDuplicateLinks /\ CopyIsTrue

\* Linked, of given tables.
LinkedIn(tables, u) == {g \in Group : tables.links[<<u, g>>] > 0}

\* Tables that differ from db at most in what they have about u, where u has become a
\* user or was one, with one row of each membership again unless u was passed over.
ForUser(u, tables) ==
    /\ tables \in Tables
    /\ \A v \in User \ {u} :
        /\ v \in tables.users <=> v \in db.users
        /\ \A g \in Group : tables.links[<<v, g>>] = db.links[<<v, g>>]
    /\ u \in db.users => u \in tables.users
    /\ u \notin tables.users => \A g \in Group : tables.links[<<u, g>>] = 0
    /\ u \notin misled => \A g \in Group : tables.links[<<u, g>>] <= 1

\* The sets of groups are no Unknown, and Unknown is no user.
LEMMA UnknownApart ==
  /\ Unknown \notin User /\ NoJob \notin Job /\ NoJob.user = Unknown
  /\ \A S \in SUBSET Group : S # Unknown
  /\ NoGroup \notin Group
BY SyncAssumption DEF NoJob, Job

LEMMA InitOK == SyncInit => SyncIInv
<1> SUFFICES ASSUME SyncInit PROVE SyncIInv
  OBVIOUS
<1> USE SyncAssumption
<1>1. SyncTypeOK
  <2>1. db \in Tables
    BY DEF SyncInit, Tables
  <2>2. {groupTime, passwdTime, groupModified, passwdModified} \subseteq Time
    BY DEF SyncInit, Time
  <2>3. /\ pc \in Pc /\ names \subseteq Group /\ listed \subseteq User /\ todo \subseteq User
        /\ knownGroups \subseteq Group /\ raced \subseteq {"group", "passwd"} /\ misled \subseteq User
    BY DEF SyncInit, Pc
  <2>4. /\ list \in [User -> SUBSET Group] /\ unlinked \in [User -> SUBSET Group]
        /\ known \in [User -> {Unknown} \cup SUBSET Group]
    BY DEF SyncInit
  <2>5. failures \in 0 .. MaxFailures /\ restarts \in 0 .. MaxRestarts /\ changes \in 0 .. MaxChanges
    BY DEF SyncInit
  <2>6. /\ ldap \in BOOLEAN /\ initDone \in BOOLEAN /\ refused \in BOOLEAN
        /\ job \in Job \cup {NoJob}
        /\ groupFile \in GroupContent /\ passwdFile \in PasswdContent
    BY DEF SyncInit
  <2> QED
    BY <2>1, <2>2, <2>3, <2>4, <2>5, <2>6 DEF SyncTypeOK
<1>2. TimesOK /\ JobOK
  BY DEF SyncInit, TimesOK, JobOK, AtUser
<1>3. NoDuplicateLinks /\ StoredOK
  BY DEF SyncInit, NoDuplicateLinks, StoredOK
<1> QED
  BY <1>1, <1>2, <1>3 DEF SyncIInv, CopyIsTrue, Running, SyncInit

\* A call that fails: the process ends or starts over, or the user is passed over.
LEMMA FailPreserves ==
  ASSUME SyncIInv, Fail, NEW tables, db' \in {db, tables},
         tables = db \/ (job \in Job /\ ForUser(job.user, tables))
  PROVE  SyncIInv'
<1> USE UnknownApart
<1>1. db' \in Tables
  BY DEF SyncIInv, SyncTypeOK, ForUser
<1>2. SyncTypeOK'
  <2>1. pc' \in Pc
    BY DEF Fail, Pc
  <2>2. misled' \subseteq User
    BY DEF SyncIInv, SyncTypeOK, Fail, Job
  <2>3. failures' \in 0 .. MaxFailures
    BY SyncAssumption DEF SyncIInv, SyncTypeOK, Fail
  <2> QED
    BY <1>1, <2>1, <2>2, <2>3 DEF SyncIInv, SyncTypeOK, Fail, files, source, sink
<1>3. TimesOK' /\ JobOK'
  BY DEF SyncIInv, TimesOK, JobOK, AtUser, Fail, files, source, sink
<1>4. NoDuplicateLinks'
  <2> SUFFICES ASSUME NEW u \in User, u \notin misled', NEW g \in Group
               PROVE  db'.links[<<u, g>>] <= 1
    BY DEF NoDuplicateLinks
  <2>1. u \notin misled
    BY DEF Fail
  <2>2. db.links[<<u, g>>] <= 1
    BY <2>1 DEF SyncIInv, NoDuplicateLinks
  <2>3. tables.links[<<u, g>>] <= 1
    BY <2>1, <2>2 DEF ForUser, Job
  <2> QED
    BY <2>2, <2>3
<1>s. StoredOK'
  <2> SUFFICES ASSUME NEW u \in User
               PROVE  /\ known[u] # Unknown => u \in db'.users
                      /\ u \notin db'.users => \A g \in Group : db'.links[<<u, g>>] = 0
    BY DEF StoredOK, Fail, sink
  <2> QED
    BY DEF SyncIInv, StoredOK, ForUser
<1>5. CopyIsTrue'
  <2> SUFFICES ASSUME Running', NEW u \in User, u \notin misled'
               PROVE  IF u \in db'.users
                      THEN known'[u] # Unknown /\ Linked(u)' \subseteq known'[u]
                              /\ known'[u] \subseteq Linked(u)' \cup unlinked'[u]
                      ELSE known'[u] = Unknown
    BY DEF CopyIsTrue
  <2>1. ldap /\ job # NoJob /\ misled' = misled \cup {job.user}
    BY DEF Fail, Running
  <2>2. u \notin misled /\ u # job.user
    BY <2>1
  <2>3. Running
    BY <2>1 DEF SyncIInv, JobOK, AtUser, Running
  <2>4. (u \in db'.users <=> u \in db.users) /\ Linked(u)' = Linked(u)
    BY <2>2 DEF ForUser, Linked
  <2> QED
    BY <2>2, <2>3, <2>4 DEF SyncIInv, CopyIsTrue, Fail, sink
<1> QED
  BY <1>2, <1>3, <1>4, <1>s, <1>5 DEF SyncIInv

\* Steps that leave the sink, its job and the tables alone, between users.
LEMMA IdlePreserves ==
  ASSUME SyncIInv, UNCHANGED <<db, sink, misled, job, unlinked>>, SyncTypeOK', TimesOK',
         AtUser' <=> AtUser, pc' = pc \/ ~AtUser, Running' => Running
  PROVE  SyncIInv'
<1>1. JobOK'
  BY DEF SyncIInv, JobOK, AtUser, sink
<1>2. NoDuplicateLinks' /\ StoredOK'
  BY DEF SyncIInv, NoDuplicateLinks, StoredOK, sink
<1>3. CopyIsTrue'
  BY DEF SyncIInv, CopyIsTrue, Linked, sink
<1> QED
  BY <1>1, <1>2, <1>3 DEF SyncIInv

\* The files change.
LEMMA ChangePreserves ==
  ASSUME SyncIInv, ChangeGroupFile \/ ChangePasswdFile PROVE SyncIInv'
<1>1. TimesOK' /\ changes' \in 0 .. MaxChanges
  BY SyncAssumption DEF SyncIInv, SyncTypeOK, TimesOK, ChangeGroupFile, ChangePasswdFile, Time
<1>2. {groupTime, passwdTime, groupModified, passwdModified}' \subseteq Time
  BY <1>1, SyncAssumption
     DEF SyncIInv, SyncTypeOK, TimesOK, ChangeGroupFile, ChangePasswdFile, Time, source
<1>3. SyncTypeOK'
  BY <1>1, <1>2
     DEF SyncIInv, SyncTypeOK, ChangeGroupFile, ChangePasswdFile, source, sink
<1>4. UNCHANGED <<db, sink, misled, job, unlinked, pc>>
  BY DEF ChangeGroupFile, ChangePasswdFile
<1>5. (AtUser' <=> AtUser) /\ (Running' => Running)
  BY <1>4 DEF AtUser, Running
<1> QED
  BY <1>1, <1>3, <1>4, <1>5, IdlePreserves

\* The source reads the files or the directory; a cycle starts or ends; a restart.
SourceNext ==
    \/ ReadGroupFile \/ StampGroupFile \/ ReadPasswdFile \/ StampPasswdFile
    \/ Search \/ FindChanged \/ EndUpdate \/ Restart

LEMMA SourcePreserves ==
  ASSUME SyncIInv, SourceNext PROVE SyncIInv'
<1>1. UNCHANGED <<db, sink, misled, job, unlinked, groupTime, passwdTime, changes,
                  groupFile, passwdFile, ldap, failures, knownGroups>>
  BY DEF SourceNext, ReadGroupFile, StampGroupFile, ReadPasswdFile, StampPasswdFile, Search,
         FindChanged, EndUpdate, Restart, files, source, history, sink
<1>2. ~AtUser /\ ~AtUser' /\ (Running' => Running)
  BY DEF SourceNext, ReadGroupFile, StampGroupFile, ReadPasswdFile, StampPasswdFile, Search,
         FindChanged, EndUpdate, Restart, AtUser, Running
<1>3. TimesOK'
  BY <1>1 DEF SyncIInv, TimesOK
<1>4. SyncTypeOK'
  <2>1. pc' \in Pc /\ initDone' \in BOOLEAN
    BY DEF SyncIInv, SyncTypeOK, SourceNext, ReadGroupFile, StampGroupFile, ReadPasswdFile,
           StampPasswdFile, Search, FindChanged, EndUpdate, Restart, Pc
  <2>2. {groupTime, passwdTime, groupModified, passwdModified}' \subseteq Time
    BY SyncAssumption
       DEF SyncIInv, SyncTypeOK, SourceNext, ReadGroupFile, StampGroupFile, ReadPasswdFile,
           StampPasswdFile, Search, FindChanged, EndUpdate, Restart, Time, files, source
  <2>3. names' \subseteq Group /\ listed' \subseteq User /\ todo' \subseteq User
    BY DEF SyncIInv, SyncTypeOK, SourceNext, ReadGroupFile, StampGroupFile, ReadPasswdFile,
           StampPasswdFile, Search, FindChanged, EndUpdate, Restart, Users, source
  <2>4. list' \in [User -> SUBSET Group]
    <3>1. CASE ReadGroupFile
      BY <3>1 DEF ReadGroupFile, GroupsIn
    <3>2. CASE ReadPasswdFile
      BY <3>2 DEF ReadPasswdFile, PrimaryGroup, SyncIInv, SyncTypeOK
    <3>3. CASE Search
      BY <3>3 DEF Search, Source, GroupsIn
    <3> QED
      BY <3>1, <3>2, <3>3
         DEF SyncIInv, SyncTypeOK, SourceNext, StampGroupFile, StampPasswdFile, FindChanged,
             EndUpdate, Restart, source
  <2>5. raced' \subseteq {"group", "passwd"} /\ refused' \in BOOLEAN
    BY DEF SyncIInv, SyncTypeOK, SourceNext, ReadGroupFile, StampGroupFile, ReadPasswdFile,
           StampPasswdFile, Search, FindChanged, EndUpdate, Restart, history
  <2>6. restarts' \in 0 .. MaxRestarts
    BY SyncAssumption
       DEF SyncIInv, SyncTypeOK, SourceNext, ReadGroupFile, StampGroupFile, ReadPasswdFile,
           StampPasswdFile, Search, FindChanged, EndUpdate, Restart
  <2> QED
    BY <1>1, <2>1, <2>2, <2>3, <2>4, <2>5, <2>6 DEF SyncIInv, SyncTypeOK, sink
<1> QED
  BY <1>1, <1>2, <1>3, <1>4, IdlePreserves

\* The initial load takes over what the policy manager has.
LEMMA LoadPreserves ==
  ASSUME SyncIInv, Load PROVE SyncIInv'
<1> USE UnknownApart
<1>1. known' \in [User -> {Unknown} \cup SUBSET Group]
  BY DEF Load, Linked
<1>2. pc' \in Pc /\ knownGroups' \subseteq Group /\ unlinked' \in [User -> SUBSET Group]
  BY DEF Load, Pc, SyncIInv, SyncTypeOK, Tables
<1>3. SyncTypeOK' /\ TimesOK'
  BY <1>1, <1>2 DEF SyncIInv, SyncTypeOK, TimesOK, Load, files, source
<1>4. JobOK' /\ NoDuplicateLinks' /\ StoredOK'
  BY DEF SyncIInv, JobOK, AtUser, NoDuplicateLinks, StoredOK, Load
<1>5. CopyIsTrue'
  <2>1. \A u \in User : Linked(u)' = Linked(u) /\ Linked(u) \in SUBSET Group
    BY DEF Linked, Load
  <2> QED
    BY <2>1 DEF CopyIsTrue, Load
<1> QED
  BY <1>3, <1>4, <1>5 DEF SyncIInv

\* A user is taken up: what his job adds is not in the copy.
LEMMA StartUserPreserves ==
  ASSUME SyncIInv, StartUser PROVE SyncIInv'
<1> USE UnknownApart
<1> PICK u \in todo :
      /\ todo' = todo \ {u}
      /\ IF known[u] = Unknown
         THEN /\ job' = [user |-> u, add |-> list[u], del |-> {}, group |-> NoGroup]
              /\ pc' = "login"
         ELSE /\ job' = [user |-> u, add |-> list[u] \ known[u], del |-> NoLongerIn(u),
                         group |-> NoGroup]
              /\ pc' = "link"
  BY DEF StartUser
<1>1. u \in User /\ list[u] \in SUBSET Group /\ known[u] \in {Unknown} \cup SUBSET Group
  BY DEF SyncIInv, SyncTypeOK
<1>2. job' \in Job /\ job'.user = u /\ job'.group = NoGroup
      /\ (known[u] # Unknown => job'.add \cap known[u] = {})
  BY <1>1 DEF Job, NoLongerIn
<1>3. UNCHANGED <<db, known, misled, unlinked, files>>
  BY DEF StartUser, sink, history
<1>4. SyncTypeOK' /\ TimesOK'
  <2>1. pc' \in Pc /\ todo' \subseteq User
    BY DEF Pc, SyncIInv, SyncTypeOK
  <2> QED
    BY <1>2, <1>3, <2>1 DEF SyncIInv, SyncTypeOK, TimesOK, StartUser, files, source, sink, history
<1>5. JobOK'
  BY <1>1, <1>2, <1>3 DEF JobOK, AtUser
<1>6. NoDuplicateLinks' /\ StoredOK' /\ CopyIsTrue'
  BY <1>3 DEF SyncIInv, NoDuplicateLinks, StoredOK, CopyIsTrue, Running, Linked, StartUser
<1> QED
  BY <1>4, <1>5, <1>6 DEF SyncIInv

\* The user of a job, and what the copy has of him while a call is made.
LEMMA JobUser ==
  ASSUME SyncIInv, AtUser
  PROVE  /\ job \in Job /\ job.user \in User /\ job.add \in SUBSET Group /\ db \in Tables
         /\ Running
         /\ job.user \notin db.users => \A g \in Group : db.links[<<job.user, g>>] = 0
         /\ known[job.user] # Unknown => job.user \in db.users
         /\ job.user \notin misled =>
              /\ \A g \in Group : db.links[<<job.user, g>>] <= 1
              /\ IF job.user \in db.users
                 THEN /\ known[job.user] # Unknown
                      /\ LinkedIn(db, job.user) \subseteq known[job.user]
                      /\ known[job.user] \subseteq LinkedIn(db, job.user) \cup unlinked[job.user]
                 ELSE known[job.user] = Unknown
BY DEF SyncIInv, SyncTypeOK, JobOK, AtUser, Job, NoDuplicateLinks, StoredOK, CopyIsTrue, Running, Linked, LinkedIn

\* A call that is answered: the tables and the copy change for the user of the job only.
LEMMA AnsweredPreserves ==
  ASSUME SyncIInv, AtUser, ForUser(job.user, db'), SyncTypeOK', TimesOK', JobOK',
         misled' = misled, Running' => Running,
         known'[job.user] # Unknown => job.user \in db'.users,
         \A u \in User \ {job.user} : known'[u] = known[u] /\ unlinked'[u] = unlinked[u],
         (Running /\ job.user \notin misled) =>
             IF job.user \in db'.users
             THEN /\ known'[job.user] # Unknown
                  /\ LinkedIn(db', job.user) \subseteq known'[job.user]
                  /\ known'[job.user] \subseteq LinkedIn(db', job.user) \cup unlinked'[job.user]
             ELSE known'[job.user] = Unknown
  PROVE  SyncIInv'
<1>1. NoDuplicateLinks'
  <2> SUFFICES ASSUME NEW u \in User, u \notin misled, NEW g \in Group
               PROVE  db'.links[<<u, g>>] <= 1
    BY DEF NoDuplicateLinks
  <2>1. db.links[<<u, g>>] <= 1
    BY DEF SyncIInv, NoDuplicateLinks
  <2> QED
    BY <2>1 DEF ForUser
<1>s. StoredOK'
  <2> SUFFICES ASSUME NEW u \in User
               PROVE  /\ known'[u] # Unknown => u \in db'.users
                      /\ u \notin db'.users => \A g \in Group : db'.links[<<u, g>>] = 0
    BY DEF StoredOK
  <2>1. CASE u = job.user
    BY <2>1 DEF ForUser
  <2>2. CASE u # job.user
    BY <2>2 DEF SyncIInv, StoredOK, ForUser
  <2> QED
    BY <2>1, <2>2
<1>2. CopyIsTrue'
  <2> SUFFICES ASSUME Running', NEW u \in User, u \notin misled
               PROVE  IF u \in db'.users
                      THEN known'[u] # Unknown /\ Linked(u)' \subseteq known'[u]
                              /\ known'[u] \subseteq Linked(u)' \cup unlinked'[u]
                      ELSE known'[u] = Unknown
    BY DEF CopyIsTrue
  <2>1. CASE u = job.user
    BY <2>1 DEF Linked, LinkedIn
  <2>2. CASE u # job.user
    <3>1. (u \in db'.users <=> u \in db.users) /\ Linked(u)' = Linked(u)
      BY <2>2 DEF ForUser, Linked
    <3> QED
      BY <2>2, <3>1 DEF SyncIInv, CopyIsTrue
  <2> QED
    BY <2>1, <2>2
<1> QED
  BY <1>1, <1>s, <1>2 DEF SyncIInv

LEMMA AddLoginPreserves ==
  ASSUME SyncIInv, AddLogin PROVE SyncIInv'
<1> USE UnknownApart
<1> DEFINE T == [db EXCEPT !.logins = @ \cup {job.user}]
<1>1. AtUser
  BY DEF AddLogin, AtUser
<1>2. T \in Tables /\ T.users = db.users /\ T.links = db.links
  BY <1>1, JobUser DEF Tables
<1>3. ForUser(job.user, T)
  BY <1>1, <1>2, JobUser DEF ForUser
<1>4. CASE db' \in {db, T} /\ Fail
  BY <1>1, <1>3, <1>4, JobUser, FailPreserves
<1>5. CASE /\ db' = T
           /\ pc' = "user" /\ UNCHANGED <<sink, history, job>>
           /\ UNCHANGED <<files, source, initDone, todo, failures, restarts>>
  <2>1. SyncTypeOK' /\ TimesOK'
    BY <1>2, <1>5
       DEF SyncIInv, SyncTypeOK, TimesOK, Pc, sink, history, files, source
  <2>2. JobOK'
    BY <1>1, <1>5 DEF SyncIInv, JobOK, AtUser, AddLogin, sink
  <2>3. LinkedIn(db', job.user) = LinkedIn(db, job.user) /\ db'.users = db.users
    BY <1>2, <1>5 DEF LinkedIn
  <2>4. ForUser(job.user, db') /\ Running /\ misled' = misled /\ known' = known
        /\ unlinked' = unlinked
    BY <1>1, <1>3, <1>5, JobUser DEF sink, history
  <2> HIDE DEF T
  <2> QED
    BY <1>1, <1>5, <2>1, <2>2, <2>3, <2>4, JobUser, AnsweredPreserves
<1> QED
  BY <1>4, <1>5 DEF AddLogin, Call

LEMMA AddUserPreserves ==
  ASSUME SyncIInv, AddUser PROVE SyncIInv'
<1> USE UnknownApart
<1> DEFINE T == [db EXCEPT !.users = @ \cup {job.user}]
<1>1. AtUser /\ known[job.user] = Unknown
  BY DEF AddUser, AtUser, SyncIInv, JobOK
<1>2. T \in Tables /\ T.users = db.users \cup {job.user} /\ T.links = db.links
  BY <1>1, JobUser DEF Tables
<1>3. ForUser(job.user, T)
  BY <1>1, <1>2, JobUser DEF ForUser
<1>4. CASE db' \in {db, T} /\ Fail
  BY <1>1, <1>3, <1>4, JobUser, FailPreserves
<1>5. CASE /\ db' = T
           /\ known' = [known EXCEPT ![job.user] = {}]
           /\ pc' = "link" /\ UNCHANGED <<knownGroups, history, job>>
           /\ UNCHANGED <<files, source, initDone, todo, failures, restarts>>
  <2>1. known \in [User -> {Unknown} \cup SUBSET Group]
    BY DEF SyncIInv, SyncTypeOK
  <2>2. known' \in [User -> {Unknown} \cup SUBSET Group] /\ known'[job.user] = {}
        /\ \A u \in User \ {job.user} : known'[u] = known[u]
    BY <1>1, <1>5, <2>1, JobUser
  <2>3. SyncTypeOK' /\ TimesOK'
    BY <1>2, <1>5, <2>2
       DEF SyncIInv, SyncTypeOK, TimesOK, Pc, sink, history, files, source
  <2>4. JobOK'
    BY <1>1, <1>5, <2>2, JobUser DEF SyncIInv, JobOK, AtUser, AddUser
  <2>5. job.user \notin misled => LinkedIn(db', job.user) = {}
    \* The copy says that the user is not stored.
    BY <1>1, <1>2, <1>5, JobUser DEF LinkedIn
  <2>6. ForUser(job.user, db') /\ Running /\ misled' = misled /\ unlinked' = unlinked
        /\ job.user \in db'.users
    BY <1>1, <1>2, <1>3, <1>5, JobUser DEF history
  <2> HIDE DEF T
  <2> QED
    BY <1>1, <2>2, <2>3, <2>4, <2>5, <2>6, AnsweredPreserves
<1> QED
  BY <1>4, <1>5 DEF AddUser, Call

LEMMA AddGroupPreserves ==
  ASSUME SyncIInv, AddGroup PROVE SyncIInv'
<1> USE UnknownApart
<1> PICK g \in job.add \ knownGroups :
      Call([db EXCEPT !.groups = @ \cup {g}],
           /\ knownGroups' = knownGroups \cup {g}
           /\ job' = [job EXCEPT !.group = g]
           /\ UNCHANGED <<known, history, pc>>)
  BY DEF AddGroup
<1> DEFINE T == [db EXCEPT !.groups = @ \cup {g}]
<1>1. AtUser
  BY DEF AddGroup, AtUser
<1>2. g \in Group /\ T \in Tables /\ T.users = db.users /\ T.links = db.links
  BY <1>1, JobUser DEF Tables
<1>3. ForUser(job.user, T)
  BY <1>1, <1>2, JobUser DEF ForUser
<1>4. CASE db' \in {db, T} /\ Fail
  BY <1>1, <1>3, <1>4, JobUser, FailPreserves
<1>5. CASE /\ db' = T
           /\ knownGroups' = knownGroups \cup {g}
           /\ job' = [job EXCEPT !.group = g]
           /\ UNCHANGED <<known, history, pc>>
           /\ UNCHANGED <<files, source, initDone, todo, failures, restarts>>
  <2>1. job' \in Job /\ job'.user = job.user /\ job'.add = job.add /\ job'.group = g
    BY <1>1, <1>2, <1>5, JobUser DEF Job
  <2>2. SyncTypeOK' /\ TimesOK'
    BY <1>2, <1>5, <2>1
       DEF SyncIInv, SyncTypeOK, TimesOK, history, files, source
  <2>3. JobOK'
    BY <1>1, <1>5, <2>1 DEF SyncIInv, JobOK, AtUser, AddGroup
  <2>4. LinkedIn(db', job.user) = LinkedIn(db, job.user) /\ db'.users = db.users
    BY <1>2, <1>5 DEF LinkedIn
  <2>5. ForUser(job.user, db') /\ Running /\ misled' = misled /\ known' = known
        /\ unlinked' = unlinked
    BY <1>1, <1>3, <1>5, JobUser DEF history
  <2> HIDE DEF T
  <2> QED
    BY <1>1, <2>2, <2>3, <2>4, <2>5, JobUser, AnsweredPreserves
<1> QED
  BY <1>4, <1>5 DEF Call

\* The tables with a membership that the copy does not have.
LEMMA AddedLink ==
  ASSUME SyncIInv, AtUser, NEW g \in job.add, known[job.user] \in SUBSET Group,
         g \notin known[job.user]
  PROVE  LET T == [db EXCEPT !.links = WithLinkRow(@, job.user, g)]
         IN  /\ T \in Tables /\ T.users = db.users /\ T.groups = db.groups
             /\ T.links[<<job.user, g>>] = db.links[<<job.user, g>>] + 1
             /\ \A v \in User, h \in Group :
                  (v # job.user \/ h # g) => T.links[<<v, h>>] = db.links[<<v, h>>]
             /\ job.user \in db.users
             /\ job.user \notin misled => db.links[<<job.user, g>>] = 0
             /\ ForUser(job.user, T)
<1> USE UnknownApart
<1> DEFINE T == [db EXCEPT !.links = WithLinkRow(@, job.user, g)]
<1>1. g \in Group
  BY JobUser
<1>2. /\ T \in Tables /\ T.users = db.users /\ T.groups = db.groups
      /\ T.links[<<job.user, g>>] = db.links[<<job.user, g>>] + 1
      /\ \A v \in User, h \in Group :
           (v # job.user \/ h # g) => T.links[<<v, h>>] = db.links[<<v, h>>]
  <2>1. db.links \in [User \X Group -> Nat]
    BY <1>1, JobUser DEF Tables
  <2>2. [db.links EXCEPT ![<<job.user, g>>] = @ + 1] \in [User \X Group -> Nat]
    BY <1>1, <2>1, JobUser
  <2>3. T.links = [db.links EXCEPT ![<<job.user, g>>] = @ + 1]
        /\ T.users = db.users /\ T.groups = db.groups /\ T \in Tables
    <3>1. WithLinkRow(db.links, job.user, g) \in [User \X Group -> Nat]
      BY <2>2 DEF WithLinkRow
    <3>2. /\ T.links = WithLinkRow(db.links, job.user, g) /\ T \in Tables
          /\ T.users = db.users /\ T.groups = db.groups
      BY <1>1, <3>1, JobUser DEF Tables
    <3> QED
      BY <3>2 DEF WithLinkRow
  <2>4. <<job.user, g>> \in User \X Group
    BY <1>1, JobUser
  <2>5. ASSUME NEW v \in User, NEW h \in Group, v # job.user \/ h # g
        PROVE  T.links[<<v, h>>] = db.links[<<v, h>>]
    BY <2>1, <2>3, <2>4, <2>5
  <2>6. T.links[<<job.user, g>>] = db.links[<<job.user, g>>] + 1
    BY <2>1, <2>3, <2>4
  <2> QED
    BY <2>3, <2>5, <2>6
<1>3. job.user \in db.users
  BY <1>1, JobUser
<1>4. job.user \notin misled => db.links[<<job.user, g>>] = 0
  BY <1>1, <1>3, JobUser DEF LinkedIn, Tables
<1>5. ForUser(job.user, T)
  BY <1>1, <1>2, <1>3, <1>4, JobUser DEF ForUser
<1> QED
  BY <1>2, <1>3, <1>4, <1>5

\* The membership that is added is in neither the copy nor the tables.
LEMMA AddLinkPreserves ==
  ASSUME SyncIInv, AddLink PROVE SyncIInv'
<1> USE UnknownApart
<1> PICK g \in IF job.group = NoGroup THEN job.add \cap knownGroups ELSE {job.group} :
      Call([db EXCEPT !.links = WithLinkRow(@, job.user, g)],
           /\ known' = WithLink(job.user, g)
           /\ job' = [job EXCEPT !.add = @ \ {g}, !.group = NoGroup]
           /\ UNCHANGED <<knownGroups, history, pc>>)
  BY DEF AddLink
<1> DEFINE T == [db EXCEPT !.links = WithLinkRow(@, job.user, g)]
<1>1. AtUser
  BY DEF AddLink, AtUser
<1>2. g \in job.add /\ g \in Group /\ known[job.user] \in SUBSET Group
      /\ g \notin known[job.user]
  BY <1>1, JobUser DEF SyncIInv, JobOK, AddLink
<1>3. /\ T \in Tables /\ T.users = db.users
      /\ T.links[<<job.user, g>>] = db.links[<<job.user, g>>] + 1
      /\ \A v \in User, h \in Group :
           (v # job.user \/ h # g) => T.links[<<v, h>>] = db.links[<<v, h>>]
      /\ job.user \in db.users
      /\ job.user \notin misled => db.links[<<job.user, g>>] = 0
      /\ ForUser(job.user, T)
  BY <1>1, <1>2, AddedLink
<1>7. CASE db' \in {db, T} /\ Fail
  BY <1>1, <1>3, <1>7, JobUser, FailPreserves
<1>8. CASE /\ db' = T
           /\ known' = WithLink(job.user, g)
           /\ job' = [job EXCEPT !.add = @ \ {g}, !.group = NoGroup]
           /\ UNCHANGED <<knownGroups, history, pc>>
           /\ UNCHANGED <<files, source, initDone, todo, failures, restarts>>
  <2>1. job' \in Job /\ job'.user = job.user /\ job'.add = job.add \ {g} /\ job'.group = NoGroup
    BY <1>1, <1>8, JobUser DEF Job
  <2>2. known' \in [User -> {Unknown} \cup SUBSET Group]
        /\ known'[job.user] = known[job.user] \cup {g}
        /\ \A u \in User \ {job.user} : known'[u] = known[u]
    <3>1. known \in [User -> {Unknown} \cup SUBSET Group]
      BY DEF SyncIInv, SyncTypeOK
    <3> QED
      BY <1>1, <1>2, <1>8, <3>1, JobUser DEF WithLink
  <2>3. SyncTypeOK' /\ TimesOK'
    <3>1. db' \in Tables
      BY <1>3, <1>8
    <3> HIDE DEF T
    <3> QED
      BY <1>8, <2>1, <2>2, <3>1
         DEF SyncIInv, SyncTypeOK, TimesOK, history, files, source
  <2>4. JobOK'
    BY <1>1, <1>2, <1>8, <2>1, <2>2 DEF SyncIInv, JobOK, AtUser, AddLink
  <2>5. db'.users = db.users
        /\ (job.user \notin misled => LinkedIn(db', job.user) = LinkedIn(db, job.user) \cup {g})
    BY <1>1, <1>2, <1>3, <1>8, JobUser DEF LinkedIn
  <2>6. ForUser(job.user, db') /\ Running /\ misled' = misled /\ unlinked' = unlinked
    BY <1>1, <1>3, <1>8, JobUser DEF history
  <2>7. job.user \notin misled =>
          /\ known'[job.user] # Unknown
          /\ LinkedIn(db', job.user) \subseteq known'[job.user]
          /\ known'[job.user] \subseteq LinkedIn(db', job.user) \cup unlinked'[job.user]
    BY <1>1, <1>2, <1>3, <2>2, <2>5, <2>6, JobUser
  <2> HIDE DEF T
  <2> QED
    BY <1>1, <1>3, <2>2, <2>3, <2>4, <2>5, <2>6, <2>7, JobUser, AnsweredPreserves
<1> QED
  BY <1>7, <1>8 DEF Call

\* The tables without a membership.
LEMMA DeletedLink ==
  ASSUME SyncIInv, AtUser, NEW g \in Group
  PROVE  LET T == [db EXCEPT !.links = WithoutLinks(@, job.user, g)]
         IN  /\ T \in Tables /\ T.users = db.users /\ T.groups = db.groups
             /\ T.links[<<job.user, g>>] = 0
             /\ \A v \in User, h \in Group :
                  (v # job.user \/ h # g) => T.links[<<v, h>>] = db.links[<<v, h>>]
             /\ ForUser(job.user, T)
<1> USE UnknownApart
<1> DEFINE T == [db EXCEPT !.links = WithoutLinks(@, job.user, g)]
<1>1. /\ T \in Tables /\ T.users = db.users /\ T.groups = db.groups
      /\ T.links[<<job.user, g>>] = 0
      /\ \A v \in User, h \in Group :
           (v # job.user \/ h # g) => T.links[<<v, h>>] = db.links[<<v, h>>]
  <2>1. db.links \in [User \X Group -> Nat]
    BY JobUser DEF Tables
  <2>2. <<job.user, g>> \in User \X Group
    BY JobUser
  <2>3. WithoutLinks(db.links, job.user, g) \in [User \X Group -> Nat]
    BY <2>1, <2>2 DEF WithoutLinks
  <2>4. T.links = WithoutLinks(db.links, job.user, g) /\ T \in Tables
        /\ T.users = db.users /\ T.groups = db.groups
    BY <2>3, JobUser DEF Tables
  <2>5. ASSUME NEW v \in User, NEW h \in Group, v # job.user \/ h # g
        PROVE  T.links[<<v, h>>] = db.links[<<v, h>>]
    BY <2>1, <2>2, <2>4, <2>5 DEF WithoutLinks
  <2>6. T.links[<<job.user, g>>] = 0
    BY <2>1, <2>2, <2>4 DEF WithoutLinks
  <2> QED
    BY <2>4, <2>5, <2>6
<1>2. ForUser(job.user, T)
  BY <1>1, JobUser DEF ForUser
<1> QED
  BY <1>1, <1>2

\* The membership that is deleted stays in the copy.
LEMMA DeleteLinkPreserves ==
  ASSUME SyncIInv, DeleteLink PROVE SyncIInv'
<1> USE UnknownApart
<1> PICK g \in job.del \cap knownGroups :
      \/ Call([db EXCEPT !.links = WithoutLinks(@, job.user, g)],
              /\ known' = WithoutGroup(job.user, g)
              /\ unlinked' = [unlinked EXCEPT ![job.user] = @ \cup {g}]
              /\ job' = [job EXCEPT !.del = @ \ {g}]
              /\ UNCHANGED <<knownGroups, raced, refused, misled, pc>>)
      \/ /\ failures < MaxFailures /\ failures' = failures + 1
         /\ refused' = TRUE
         /\ job' = [job EXCEPT !.del = @ \ {g}]
         /\ UNCHANGED <<files, source, sink, raced, misled, unlinked, pc, initDone, todo, db,
                        restarts>>
  BY DEF DeleteLink
<1> DEFINE T == [db EXCEPT !.links = WithoutLinks(@, job.user, g)]
<1>1. AtUser
  BY DEF DeleteLink, AtUser
<1>2. g \in Group
  BY <1>1, JobUser DEF Job
<1>3. /\ T \in Tables /\ T.users = db.users
      /\ T.links[<<job.user, g>>] = 0
      /\ \A v \in User, h \in Group :
           (v # job.user \/ h # g) => T.links[<<v, h>>] = db.links[<<v, h>>]
      /\ ForUser(job.user, T)
  BY <1>1, <1>2, DeletedLink
<1>5. CASE db' \in {db, T} /\ Fail
  BY <1>1, <1>3, <1>5, JobUser, FailPreserves
<1>6. job.del \ {g} \in SUBSET Group
  BY <1>1, JobUser DEF Job
<1>7. ASSUME job' = [job EXCEPT !.del = @ \ {g}]
      PROVE  job' \in Job /\ job'.user = job.user /\ job'.add = job.add /\ job'.group = job.group
  BY <1>1, <1>6, <1>7, JobUser DEF Job
<1>8. CASE /\ db' = T
           /\ known' = WithoutGroup(job.user, g)
           /\ unlinked' = [unlinked EXCEPT ![job.user] = @ \cup {g}]
           /\ job' = [job EXCEPT !.del = @ \ {g}]
           /\ UNCHANGED <<knownGroups, raced, refused, misled, pc>>
           /\ UNCHANGED <<files, source, initDone, todo, failures, restarts>>
  <2>1. known' = known
    BY <1>8 DEF WithoutGroup, Deleted, DeletionExpected
  <2>2. unlinked \in [User -> SUBSET Group]
    BY DEF SyncIInv, SyncTypeOK
  <2>3. /\ unlinked' \in [User -> SUBSET Group]
        /\ unlinked'[job.user] = unlinked[job.user] \cup {g}
        /\ \A u \in User \ {job.user} : unlinked'[u] = unlinked[u]
    BY <1>1, <1>2, <1>8, <2>2, JobUser
  <2>4. SyncTypeOK' /\ TimesOK'
    <3>1. db' \in Tables
      BY <1>3, <1>8
    <3> HIDE DEF T
    <3> QED
      BY <1>7, <1>8, <2>1, <2>3, <3>1 DEF SyncIInv, SyncTypeOK, TimesOK, files, source
  <2>5. JobOK'
    BY <1>1, <1>7, <1>8, <2>1 DEF SyncIInv, JobOK, AtUser, DeleteLink
  <2>6. db'.users = db.users /\ LinkedIn(db', job.user) = LinkedIn(db, job.user) \ {g}
    BY <1>1, <1>2, <1>3, <1>8, JobUser DEF LinkedIn
  <2>7. ForUser(job.user, db') /\ misled' = misled /\ (Running' => Running)
    BY <1>3, <1>8 DEF Running
  <2>8. job.user \notin misled =>
          IF job.user \in db'.users
          THEN /\ known'[job.user] # Unknown
               /\ LinkedIn(db', job.user) \subseteq known'[job.user]
               /\ known'[job.user] \subseteq LinkedIn(db', job.user) \cup unlinked'[job.user]
          ELSE known'[job.user] = Unknown
    BY <1>1, <2>1, <2>3, <2>6, JobUser DEF LinkedIn
  <2> HIDE DEF T
  <2> QED
    BY <1>1, <2>1, <2>3, <2>4, <2>5, <2>6, <2>7, <2>8, JobUser, AnsweredPreserves
<1>9. CASE /\ failures < MaxFailures /\ failures' = failures + 1
           /\ refused' = TRUE
           /\ job' = [job EXCEPT !.del = @ \ {g}]
           /\ UNCHANGED <<files, source, sink, raced, misled, unlinked, pc, initDone, todo, db,
                          restarts>>
  <2>1. failures' \in 0 .. MaxFailures
    BY <1>9, SyncAssumption DEF SyncIInv, SyncTypeOK
  <2>2. SyncTypeOK' /\ TimesOK'
    BY <1>7, <1>9, <2>1 DEF SyncIInv, SyncTypeOK, TimesOK, files, source, sink
  <2>3. JobOK'
    BY <1>1, <1>7, <1>9 DEF SyncIInv, JobOK, AtUser, DeleteLink, sink
  <2>4. NoDuplicateLinks' /\ StoredOK' /\ CopyIsTrue'
    BY <1>9 DEF SyncIInv, NoDuplicateLinks, StoredOK, CopyIsTrue, Running, Linked, sink
  <2> QED
    BY <2>2, <2>3, <2>4 DEF SyncIInv
<1> QED
  BY <1>5, <1>8, <1>9 DEF Call

LEMMA EndUserPreserves ==
  ASSUME SyncIInv, EndUser PROVE SyncIInv'
<1>1. SyncTypeOK' /\ TimesOK'
  BY DEF SyncIInv, SyncTypeOK, TimesOK, EndUser, Pc, files, source, sink, history
<1>2. JobOK'
  BY DEF JobOK, AtUser, EndUser
<1>3. NoDuplicateLinks' /\ StoredOK' /\ CopyIsTrue'
  BY DEF SyncIInv, NoDuplicateLinks, StoredOK, CopyIsTrue, Running, Linked, EndUser, sink, history
<1> QED
  BY <1>1, <1>2, <1>3 DEF SyncIInv

\* Every step preserves the invariant.
LEMMA StepPreserves == SyncIInv /\ [SyncNext]_syncVars => SyncIInv'
<1> SUFFICES ASSUME SyncIInv, [SyncNext]_syncVars PROVE SyncIInv'
  OBVIOUS
<1>1. CASE LoadFails \/ ReadFails \/ SearchFails
  BY <1>1, FailPreserves DEF LoadFails, ReadFails, SearchFails
<1>2. CASE UNCHANGED syncVars
  BY <1>2 DEF syncVars, files, source, sink, history, SyncIInv, SyncTypeOK, TimesOK, JobOK,
              AtUser, StoredOK, NoDuplicateLinks, CopyIsTrue, Running, Linked
<1>3. CASE SyncNext /\ ~(LoadFails \/ ReadFails \/ SearchFails)
  BY <1>3, ChangePreserves, SourcePreserves, LoadPreserves, StartUserPreserves,
     AddLoginPreserves, AddUserPreserves, AddGroupPreserves, AddLinkPreserves,
     DeleteLinkPreserves, EndUserPreserves
     DEF SyncNext, ThreadNext, SourceNext
<1> QED
  BY <1>1, <1>2, <1>3

\* The files, the copy, the job and the tables keep their types.
THEOREM SyncTyped == SyncSpec => []SyncTypeOK
<1>1. SyncIInv => SyncTypeOK
  BY DEF SyncIInv
<1> QED
  BY InitOK, StepPreserves, <1>1, PTL DEF SyncSpec

\* The copy of the sink is true of every user that was not passed over: it is through
\* failures because the process ends with the copy, or starts over with a new one.
THEOREM CopyStaysTrue == SyncSpec => []CopyIsTrue
<1>1. SyncIInv => CopyIsTrue
  BY DEF SyncIInv
<1> QED
  BY InitOK, StepPreserves, <1>1, PTL DEF SyncSpec

\* No membership of a user that was not passed over is inserted twice, though the policy
\* manager does not look.
THEOREM LinksOnce == SyncSpec => []NoDuplicateLinks
<1>1. SyncIInv => NoDuplicateLinks
  BY DEF SyncIInv
<1> QED
  BY InitOK, StepPreserves, <1>1, PTL DEF SyncSpec

-----------------------------------------------------------------------------
(* What the source has read.  ReadIInv: from the reading of a file on, what    *)
(* was read is what the file says, or the file is seen to have changed.        *)

\* The groups, and their members, are those of the file.
GroupsRead ==
    /\ names = {g \in Group : groupFile[g] # NoLine}
    /\ \A u \in User : list[u] = GroupsIn(groupFile, u)
\* The lists are what the files say.
AllRead == \A u \in User : list[u] = Source(u)

\* The file has changed since it was read, noticeably or not.
GroupOld == "group" \in raced \/ groupModified # groupTime
PasswdOld == "passwd" \in raced \/ passwdModified # passwdTime

\* Where the thread is once the files have been read.
SinkPc == {"users", "login", "user", "link", "sleep"}
\* The inductive invariant behind ChangesAreRead.
ReadIInv ==
    /\ groupModified <= groupTime /\ passwdModified <= passwdTime
    /\ ~ldap =>
        /\ pc = "groupStamp" => GroupsRead \/ "group" \in raced
        /\ pc = "passwd" => GroupsRead \/ GroupOld
        /\ pc = "passwdStamp" => AllRead \/ GroupOld \/ "passwd" \in raced
        /\ pc \in SinkPc => AllRead \/ GroupOld \/ PasswdOld

LEMMA InitRead == SyncInit => ReadIInv
BY DEF SyncInit, ReadIInv, SinkPc

\* The files change, unnoticeably only if raced says so.
LEMMA ChangeKeepsRead ==
  ASSUME SyncIInv, ReadIInv, ChangeGroupFile \/ ChangePasswdFile PROVE ReadIInv'
<1>1. {groupTime, passwdTime, groupModified, passwdModified} \subseteq Nat
  BY SyncAssumption DEF SyncIInv, SyncTypeOK, Time
<1>2. UNCHANGED <<ldap, pc, names, list, groupModified, passwdModified>>
  BY DEF ChangeGroupFile, ChangePasswdFile, source
<1>3. CASE ChangeGroupFile
  <2>1. groupModified <= groupTime' /\ UNCHANGED <<passwdFile, passwdTime>>
    BY <1>1, <1>3 DEF ChangeGroupFile, ReadIInv
  <2>2. CASE ~ldap
    <3>1. groupTime' \in {groupTime, groupTime + 1} /\ ldap = FALSE /\ raced \subseteq raced'
      BY <1>3, <2>2 DEF ChangeGroupFile, SyncIInv, SyncTypeOK
    <3>2. pc = "groupStamp" => "group" \in raced'
      BY <1>3, <2>2 DEF ChangeGroupFile
    <3>3. pc \notin {"group", "groupStamp"} => GroupOld'
      BY <1>1, <1>2, <1>3, <2>2, <3>1 DEF ChangeGroupFile, ReadIInv, GroupOld
    <3> QED
      BY <1>2, <2>1, <3>2, <3>3 DEF ReadIInv, SinkPc
  <2> QED
    BY <1>2, <2>1, <2>2 DEF ReadIInv
<1>4. CASE ChangePasswdFile
  <2>1. passwdModified <= passwdTime' /\ UNCHANGED <<groupFile, groupTime>>
    BY <1>1, <1>4 DEF ChangePasswdFile, ReadIInv
  <2>2. CASE ~ldap
    <3>1. passwdTime' \in {passwdTime, passwdTime + 1} /\ raced \subseteq raced'
          /\ ("group" \in raced' <=> "group" \in raced)
      BY <1>4, <2>2 DEF ChangePasswdFile
    <3>2. pc = "passwdStamp" => "passwd" \in raced'
      BY <1>4, <2>2 DEF ChangePasswdFile
    <3>3. PasswdOld'
      BY <1>1, <1>2, <1>4, <2>2, <3>1 DEF ChangePasswdFile, ReadIInv, PasswdOld
    <3>4. (GroupsRead' <=> GroupsRead) /\ (GroupOld' <=> GroupOld)
      BY <1>2, <2>1, <3>1 DEF GroupsRead, GroupsIn, GroupOld
    <3> QED
      BY <1>2, <2>1, <3>1, <3>2, <3>3, <3>4 DEF ReadIInv
  <2> QED
    BY <1>2, <2>1, <2>2 DEF ReadIInv
<1> QED
  BY <1>3, <1>4

\* The source reads a file and then looks at its time.
LEMMA SourceReads ==
  ASSUME SyncIInv, ReadIInv,
         ReadGroupFile \/ StampGroupFile \/ ReadPasswdFile \/ StampPasswdFile
  PROVE  ReadIInv'
<1>1. UNCHANGED <<ldap, groupFile, passwdFile, groupTime, passwdTime>>
  BY DEF ReadGroupFile, StampGroupFile, ReadPasswdFile, StampPasswdFile, files
<1>2. {groupTime, passwdTime, groupModified, passwdModified} \subseteq Nat
  BY SyncAssumption DEF SyncIInv, SyncTypeOK, Time
<1>3. groupModified' <= groupTime' /\ passwdModified' <= passwdTime'
  BY <1>1, <1>2
     DEF ReadIInv, ReadGroupFile, StampGroupFile, ReadPasswdFile, StampPasswdFile
<1>4. CASE ReadGroupFile
  <2>1. GroupsRead'
    BY <1>1, <1>4 DEF ReadGroupFile, GroupsRead, GroupsIn
  <2> QED
    BY <1>3, <1>4, <2>1 DEF ReadIInv, ReadGroupFile, SinkPc
<1>5. CASE StampGroupFile
  <2>1. UNCHANGED <<names, list, raced>> /\ pc = "groupStamp" /\ pc' = "passwd"
    BY <1>5 DEF StampGroupFile, history
  <2>2. GroupsRead' <=> GroupsRead
    BY <1>1, <2>1 DEF GroupsRead, GroupsIn
  <2> QED
    BY <1>1, <1>3, <2>1, <2>2 DEF ReadIInv, SinkPc, GroupOld
<1>6. CASE ReadPasswdFile
  <2>1. UNCHANGED <<names, groupModified, passwdModified>> /\ pc = "passwd"
        /\ pc' = "passwdStamp"
        /\ ("group" \in raced' <=> "group" \in raced)
        /\ list' = [u \in User |-> list[u] \cup PrimaryGroup(u)]
    BY <1>6 DEF ReadPasswdFile
  <2>2. GroupOld' <=> GroupOld
    BY <1>1, <2>1 DEF GroupOld
  <2>3. ASSUME ~ldap, GroupsRead PROVE AllRead'
    <3> SUFFICES ASSUME NEW u \in User PROVE list'[u] = Source(u)
      BY <1>1 DEF AllRead, Source, GroupsIn
    <3>1. list'[u] = GroupsIn(groupFile, u) \cup PrimaryGroup(u)
      BY <2>1, <2>3 DEF GroupsRead
    <3>2. PrimaryGroup(u)
            = {g \in Group : u \notin System /\ passwdFile[u] = g /\ groupFile[g] # NoLine}
      BY <2>3 DEF PrimaryGroup, GroupsRead
    <3> QED
      BY <2>3, <3>1, <3>2 DEF Source
  <2> QED
    BY <1>1, <1>3, <2>1, <2>2, <2>3 DEF ReadIInv, SinkPc
<1>7. CASE StampPasswdFile
  <2>1. UNCHANGED <<names, list, raced, groupModified>> /\ pc = "passwdStamp" /\ pc' = "users"
    BY <1>7 DEF StampPasswdFile, history
  <2>2. (AllRead' <=> AllRead) /\ (GroupOld' <=> GroupOld)
    BY <1>1, <2>1 DEF AllRead, Source, GroupsIn, GroupOld
  <2>3. "passwd" \in raced => PasswdOld'
    BY <2>1 DEF PasswdOld
  <2> QED
    BY <1>1, <1>3, <2>1, <2>2, <2>3 DEF ReadIInv
<1> QED
  BY <1>4, <1>5, <1>6, <1>7

\* The other steps leave alone what was read, and go to the sink only from the sink.
LEMMA OthersKeepRead ==
  ASSUME SyncIInv, ReadIInv, [SyncNext]_syncVars,
         ~(ChangeGroupFile \/ ChangePasswdFile),
         ~(ReadGroupFile \/ StampGroupFile \/ ReadPasswdFile \/ StampPasswdFile)
  PROVE  ReadIInv'
<1>1. CASE Search
  BY <1>1 DEF ReadIInv, Search, files
<1>2. CASE Restart
  BY <1>2, SyncAssumption DEF ReadIInv, Restart, files, SinkPc, SyncIInv, SyncTypeOK, Time
<1>3. CASE ~(Search \/ Restart)
  <2>1. UNCHANGED <<files, source, raced>>
    BY <1>3 DEF SyncNext, ThreadNext, Load, LoadFails, ReadFails, SearchFails, Fail, StartUser,
                AddLogin, AddUser, AddGroup, AddLink, DeleteLink, Call, EndUser, EndUpdate, FindChanged,
                files, source, history, syncVars
  <2>2. ~ldap => \/ pc' \in {"load", "dead", "group"}
                 \/ pc \in SinkPc /\ pc' \in SinkPc
                 \/ pc' = pc
    BY <1>3 DEF SyncNext, ThreadNext, Load, LoadFails, ReadFails, SearchFails, Fail, StartUser,
                AddLogin, AddUser, AddGroup, AddLink, DeleteLink, Call, EndUser, EndUpdate, FindChanged,
                syncVars, SinkPc
  <2>3. /\ GroupsRead' <=> GroupsRead
        /\ AllRead' <=> AllRead
        /\ GroupOld' <=> GroupOld
        /\ PasswdOld' <=> PasswdOld
    BY <2>1 DEF files, source, GroupsRead, AllRead, GroupsIn, Source, GroupOld, PasswdOld
  <2>4. UNCHANGED <<ldap, groupTime, passwdTime, groupModified, passwdModified, raced>>
    BY <2>1 DEF files, source
  <2> QED
    BY <2>2, <2>3, <2>4 DEF ReadIInv, SinkPc
<1> QED
  BY <1>1, <1>2, <1>3

\* A change of the files that came at no unlucky moment is read.
THEOREM ChangesRead == SyncSpec => []ChangesAreRead
<1>1. SyncIInv /\ ReadIInv /\ [SyncNext]_syncVars => ReadIInv'
  BY ChangeKeepsRead, SourceReads, OthersKeepRead
<1>2. ReadIInv => ChangesAreRead
  BY DEF ReadIInv, ChangesAreRead, Changed, AllRead, GroupOld, PasswdOld, SinkPc
<1> QED
  BY InitOK, StepPreserves, InitRead, <1>1, <1>2, PTL DEF SyncSpec

-----------------------------------------------------------------------------
(* What an update leaves.                                                      *)

\* Groups are created before their memberships, and the sink knows them.
GroupsStored ==
    /\ knownGroups \subseteq db.groups
    /\ \A u \in User : Linked(u) \subseteq db.groups /\ (Running => Linked(u) \subseteq knownGroups)
    /\ job.group \in knownGroups \cup {NoGroup}

\* The users that are done have what was read.
Complete(u) == Linked(u) \subseteq list[u] /\ list[u] \subseteq Linked(u) \cup unlinked[u]
DoneComplete ==
    AtUser \/ pc \in {"users", "sleep"} =>
        \A u \in (listed \ todo) \ misled : u # job.user => refused \/ Complete(u)

\* The job of a user has all that separates him from what was read.
JobCompletes ==
    AtUser /\ job.user \notin misled /\ ~refused =>
        /\ job.add \subseteq list[job.user] /\ job.del \cap list[job.user] = {}
        /\ pc # "link" => list[job.user] \subseteq job.add
        /\ pc = "link" => /\ list[job.user] \subseteq job.add \cup known[job.user]
                          /\ Linked(job.user) \subseteq list[job.user] \cup job.del

\* The inductive invariant behind UpdateIsComplete.
UpdateIInv ==
    GroupsStored /\ DoneComplete /\ JobCompletes /\ (pc = "sleep" => todo = {})

LEMMA InitUpdate == SyncInit => UpdateIInv
<1> SUFFICES ASSUME SyncInit PROVE UpdateIInv
  OBVIOUS
<1>1. \A u \in User : Linked(u) = {}
  BY DEF SyncInit, Linked
<1>2. GroupsStored
  BY <1>1 DEF SyncInit, GroupsStored, NoJob
<1> QED
  BY <1>2 DEF SyncInit, UpdateIInv, DoneComplete, JobCompletes, AtUser

\* A call that fails: nothing is claimed of its user, and nothing changes for others.
LEMMA FailCompletes ==
  ASSUME SyncIInv, UpdateIInv, Fail, NEW tables, db' \in {db, tables},
         \/ tables = db
         \/ /\ AtUser /\ ForUser(job.user, tables) /\ db.groups \subseteq tables.groups
            /\ \A g \in Group : tables.links[<<job.user, g>>] > 0 =>
                  g \in Linked(job.user) \cup knownGroups
  PROVE  UpdateIInv'
<1> USE UnknownApart
<1>1. \A u \in User : u # job.user => Linked(u)' = Linked(u)
  BY DEF ForUser, Linked
<1>2. db.groups \subseteq db'.groups
  OBVIOUS
<1>3. \A u \in User : Linked(u)' \subseteq Linked(u) \cup knownGroups
  BY DEF Linked, ForUser
<1>4. job' = NoJob /\ UNCHANGED <<knownGroups, listed, list, unlinked, refused>>
  BY DEF Fail, source, sink
<1>5. ASSUME AtUser' \/ pc' \in {"users", "sleep"} \/ Running'
      PROVE  /\ pc' = "users" /\ AtUser /\ Running /\ misled' = misled \cup {job.user}
             /\ todo' = todo
  BY <1>5 DEF Fail, AtUser, Running, SyncIInv, JobOK
<1>6. GroupsStored'
  <2>1. knownGroups' \subseteq db'.groups /\ job'.group = NoGroup
    BY <1>2, <1>4 DEF UpdateIInv, GroupsStored, NoJob
  <2>2. ASSUME NEW u \in User
        PROVE  Linked(u)' \subseteq db'.groups /\ (Running' => Linked(u)' \subseteq knownGroups')
    BY <1>2, <1>3, <1>4, <1>5 DEF UpdateIInv, GroupsStored
  <2> QED
    BY <2>1, <2>2 DEF GroupsStored
<1>7. DoneComplete'
  <2> SUFFICES ASSUME AtUser' \/ pc' \in {"users", "sleep"},
                      NEW u \in (listed' \ todo') \ misled'
               PROVE  refused' \/ Complete(u)'
    BY DEF DoneComplete
  <2>1. u \in (listed \ todo) \ misled /\ u # job.user /\ u \in User /\ AtUser
    BY <1>4, <1>5 DEF SyncIInv, SyncTypeOK
  <2>2. refused \/ Complete(u)
    BY <2>1 DEF UpdateIInv, DoneComplete
  <2> QED
    BY <1>1, <1>4, <2>1, <2>2 DEF Complete
<1>8. JobCompletes' /\ (pc' = "sleep" => todo' = {})
  BY <1>5 DEF JobCompletes, AtUser
<1> QED
  BY <1>6, <1>7, <1>8 DEF UpdateIInv

\* A call that is answered changes what there is and what is left to do for its user.
LEMMA AnsweredCompletes ==
  ASSUME SyncIInv, UpdateIInv, AtUser, AtUser', job'.user = job.user,
         ForUser(job.user, db'), db.groups \subseteq db'.groups,
         UNCHANGED <<source, todo, misled, refused>>,
         \A u \in User \ {job.user} : unlinked'[u] = unlinked[u],
         knownGroups \subseteq knownGroups', knownGroups' \subseteq db'.groups,
         job'.group \in knownGroups' \cup {NoGroup},
         \A g \in Group : db'.links[<<job.user, g>>] > 0 => g \in Linked(job.user) \cup knownGroups,
         JobCompletes'
  PROVE  UpdateIInv'
<1>1. \A u \in User : u # job.user => Linked(u)' = Linked(u)
  BY DEF ForUser, Linked
<1>2. \A u \in User : Linked(u)' \subseteq Linked(u) \cup knownGroups
  BY <1>1 DEF Linked
<1>3. Running
  BY DEF AtUser, Running
<1>4. GroupsStored'
  <2>1. \A u \in User : Linked(u) \subseteq knownGroups
    BY <1>3 DEF UpdateIInv, GroupsStored
  <2> QED
    BY <1>2, <2>1 DEF GroupsStored
<1>5. DoneComplete'
  <2> SUFFICES ASSUME NEW u \in (listed' \ todo') \ misled', u # job'.user
               PROVE  refused' \/ Complete(u)'
    BY DEF DoneComplete
  <2>1. u \in (listed \ todo) \ misled /\ u # job.user /\ u \in User
    BY DEF SyncIInv, SyncTypeOK, source
  <2>2. refused \/ Complete(u)
    BY <2>1 DEF UpdateIInv, DoneComplete
  <2> QED
    BY <1>1, <2>1, <2>2 DEF Complete, source
<1>6. pc' # "sleep"
  BY DEF AtUser
<1> QED
  BY <1>4, <1>5, <1>6 DEF UpdateIInv

LEMMA AddLoginCompletes ==
  ASSUME SyncIInv, UpdateIInv, AddLogin PROVE UpdateIInv'
<1> DEFINE T == [db EXCEPT !.logins = @ \cup {job.user}]
<1>1. AtUser /\ Running
  BY DEF AddLogin, AtUser, Running
<1>2. T \in Tables /\ T.users = db.users /\ T.links = db.links /\ T.groups = db.groups
  BY <1>1, JobUser DEF Tables
<1>3. ForUser(job.user, T)
  BY <1>1, <1>2, JobUser DEF ForUser
<1>4. \A g \in Group : T.links[<<job.user, g>>] > 0 => g \in Linked(job.user) \cup knownGroups
  BY <1>2 DEF Linked
<1>5. CASE db' \in {db, T} /\ Fail
  <2> HIDE DEF T
  <2> QED
    BY <1>1, <1>2, <1>3, <1>4, <1>5, FailCompletes
<1>6. CASE /\ db' = T
           /\ pc' = "user" /\ UNCHANGED <<sink, history, job>>
           /\ UNCHANGED <<files, source, initDone, todo, failures, restarts>>
  <2>1. AtUser' /\ UNCHANGED <<job, known, knownGroups, list, misled, refused, unlinked>>
    BY <1>6 DEF AtUser, sink, history, source
  <2>2. JobCompletes'
    BY <1>1, <1>6, <2>1 DEF UpdateIInv, JobCompletes, AddLogin
  <2>3. knownGroups \subseteq db.groups /\ job.group \in knownGroups \cup {NoGroup}
    BY DEF UpdateIInv, GroupsStored
  <2> HIDE DEF T
  <2> QED
    BY <1>1, <1>2, <1>3, <1>4, <1>6, <2>1, <2>2, <2>3, AnsweredCompletes
<1> QED
  BY <1>5, <1>6 DEF AddLogin, Call

LEMMA AddUserCompletes ==
  ASSUME SyncIInv, UpdateIInv, AddUser PROVE UpdateIInv'
<1> DEFINE T == [db EXCEPT !.users = @ \cup {job.user}]
<1>1. AtUser /\ known[job.user] = Unknown
  BY DEF AddUser, AtUser, SyncIInv, JobOK
<1>2. T \in Tables /\ T.users = db.users \cup {job.user} /\ T.links = db.links
      /\ T.groups = db.groups
  BY <1>1, JobUser DEF Tables
<1>3. ForUser(job.user, T)
  BY <1>1, <1>2, JobUser DEF ForUser
<1>4. \A g \in Group : T.links[<<job.user, g>>] > 0 => g \in Linked(job.user) \cup knownGroups
  BY <1>2 DEF Linked
<1>5. CASE db' \in {db, T} /\ Fail
  <2> HIDE DEF T
  <2> QED
    BY <1>1, <1>2, <1>3, <1>4, <1>5, FailCompletes
<1>6. CASE /\ db' = T
           /\ known' = [known EXCEPT ![job.user] = {}]
           /\ pc' = "link" /\ UNCHANGED <<knownGroups, history, job>>
           /\ UNCHANGED <<files, source, initDone, todo, failures, restarts>>
  <2>1. AtUser' /\ UNCHANGED <<job, knownGroups, list, misled, refused, unlinked>>
    BY <1>6 DEF AtUser, history, source
  <2>2. job.user \notin misled => LinkedIn(db, job.user) = {}
    BY <1>1, JobUser DEF LinkedIn
  <2>3. job.user \notin misled => Linked(job.user)' = {}
    BY <1>2, <1>6, <2>2 DEF Linked, LinkedIn
  <2>4. JobCompletes'
    BY <1>1, <1>6, <2>1, <2>3 DEF UpdateIInv, JobCompletes, AddUser
  <2>5. knownGroups \subseteq db.groups /\ job.group \in knownGroups \cup {NoGroup}
    BY DEF UpdateIInv, GroupsStored
  <2> HIDE DEF T
  <2> QED
    BY <1>1, <1>2, <1>3, <1>4, <1>6, <2>1, <2>4, <2>5, AnsweredCompletes
<1> QED
  BY <1>5, <1>6 DEF AddUser, Call

LEMMA AddGroupCompletes ==
  ASSUME SyncIInv, UpdateIInv, AddGroup PROVE UpdateIInv'
<1> PICK g \in job.add \ knownGroups :
      Call([db EXCEPT !.groups = @ \cup {g}],
           /\ knownGroups' = knownGroups \cup {g}
           /\ job' = [job EXCEPT !.group = g]
           /\ UNCHANGED <<known, history, pc>>)
  BY DEF AddGroup
<1> DEFINE T == [db EXCEPT !.groups = @ \cup {g}]
<1>1. AtUser
  BY DEF AddGroup, AtUser
<1>2. T \in Tables /\ T.users = db.users /\ T.links = db.links /\ T.groups = db.groups \cup {g}
  BY <1>1, JobUser DEF Tables
<1>3. ForUser(job.user, T)
  BY <1>1, <1>2, JobUser DEF ForUser
<1>4. \A h \in Group : T.links[<<job.user, h>>] > 0 => h \in Linked(job.user) \cup knownGroups
  BY <1>2 DEF Linked
<1>5. CASE db' \in {db, T} /\ Fail
  <2> HIDE DEF T
  <2> QED
    BY <1>1, <1>2, <1>3, <1>4, <1>5, FailCompletes
<1>6. CASE /\ db' = T
           /\ knownGroups' = knownGroups \cup {g}
           /\ job' = [job EXCEPT !.group = g]
           /\ UNCHANGED <<known, history, pc>>
           /\ UNCHANGED <<files, source, initDone, todo, failures, restarts>>
  <2>1. AtUser' /\ UNCHANGED <<known, list, misled, refused, unlinked>>
    BY <1>1, <1>6 DEF AtUser, history, source
  <2>2. /\ job'.user = job.user /\ job'.add = job.add /\ job'.del = job.del /\ job'.group = g
    BY <1>1, <1>6, JobUser DEF Job
  <2>3. Linked(job.user)' = Linked(job.user)
    BY <1>2, <1>6, <2>2 DEF Linked
  <2>4. JobCompletes'
    BY <1>1, <1>6, <2>1, <2>2, <2>3 DEF UpdateIInv, JobCompletes
  <2>5. knownGroups \subseteq db.groups
    BY DEF UpdateIInv, GroupsStored
  <2> HIDE DEF T
  <2> QED
    BY <1>1, <1>2, <1>3, <1>4, <1>6, <2>1, <2>2, <2>4, <2>5, AnsweredCompletes
<1> QED
  BY <1>5, <1>6 DEF Call

LEMMA AddLinkCompletes ==
  ASSUME SyncIInv, UpdateIInv, AddLink PROVE UpdateIInv'
<1> PICK g \in IF job.group = NoGroup THEN job.add \cap knownGroups ELSE {job.group} :
      Call([db EXCEPT !.links = WithLinkRow(@, job.user, g)],
           /\ known' = WithLink(job.user, g)
           /\ job' = [job EXCEPT !.add = @ \ {g}, !.group = NoGroup]
           /\ UNCHANGED <<knownGroups, history, pc>>)
  BY DEF AddLink
<1> DEFINE T == [db EXCEPT !.links = WithLinkRow(@, job.user, g)]
<1>1. AtUser /\ pc = "link"
  BY DEF AddLink, AtUser
<1>2. g \in job.add /\ g \in Group /\ g \in knownGroups /\ known[job.user] \in SUBSET Group
      /\ g \notin known[job.user]
  BY <1>1, JobUser DEF SyncIInv, JobOK, AddLink, UpdateIInv, GroupsStored
<1>3. /\ T.groups = db.groups /\ ForUser(job.user, T)
      /\ \A h \in Group : h # g => T.links[<<job.user, h>>] = db.links[<<job.user, h>>]
  BY <1>1, <1>2, AddedLink, JobUser
<1>4. \A h \in Group : T.links[<<job.user, h>>] > 0 => h \in Linked(job.user) \cup {g}
  BY <1>3 DEF Linked
<1>5. CASE db' \in {db, T} /\ Fail
  <2> HIDE DEF T
  <2> QED
    BY <1>1, <1>2, <1>3, <1>4, <1>5, FailCompletes
<1>6. CASE /\ db' = T
           /\ known' = WithLink(job.user, g)
           /\ job' = [job EXCEPT !.add = @ \ {g}, !.group = NoGroup]
           /\ UNCHANGED <<knownGroups, history, pc>>
           /\ UNCHANGED <<files, source, initDone, todo, failures, restarts>>
  <2>1. AtUser' /\ UNCHANGED <<list, misled, refused, unlinked>>
    BY <1>1, <1>6 DEF AtUser, history, source
  <2>2. /\ job'.user = job.user /\ job'.add = job.add \ {g} /\ job'.del = job.del
        /\ job'.group = NoGroup
    BY <1>1, <1>6, JobUser DEF Job
  <2>3. known'[job.user] = known[job.user] \cup {g}
    BY <1>1, <1>2, <1>6, JobUser DEF WithLink, SyncIInv, SyncTypeOK
  <2>4. Linked(job.user)' \subseteq Linked(job.user) \cup {g}
    BY <1>4, <1>6, <2>2 DEF Linked
  <2>5. JobCompletes'
    BY <1>1, <1>2, <1>6, <2>1, <2>2, <2>3, <2>4 DEF UpdateIInv, JobCompletes
  <2>6. knownGroups \subseteq db.groups
    BY DEF UpdateIInv, GroupsStored
  <2> HIDE DEF T
  <2> QED
    BY <1>1, <1>2, <1>3, <1>4, <1>6, <2>1, <2>2, <2>5, <2>6, AnsweredCompletes
       DEF history
<1> QED
  BY <1>5, <1>6 DEF Call

LEMMA DeleteLinkCompletes ==
  ASSUME SyncIInv, UpdateIInv, DeleteLink PROVE UpdateIInv'
<1> PICK g \in job.del \cap knownGroups :
      \/ Call([db EXCEPT !.links = WithoutLinks(@, job.user, g)],
              /\ known' = WithoutGroup(job.user, g)
              /\ unlinked' = [unlinked EXCEPT ![job.user] = @ \cup {g}]
              /\ job' = [job EXCEPT !.del = @ \ {g}]
              /\ UNCHANGED <<knownGroups, raced, refused, misled, pc>>)
      \/ /\ failures < MaxFailures /\ failures' = failures + 1
         /\ refused' = TRUE
         /\ job' = [job EXCEPT !.del = @ \ {g}]
         /\ UNCHANGED <<files, source, sink, raced, misled, unlinked, pc, initDone, todo, db,
                        restarts>>
  BY DEF DeleteLink
<1> DEFINE T == [db EXCEPT !.links = WithoutLinks(@, job.user, g)]
<1>1. AtUser /\ pc = "link"
  BY DEF DeleteLink, AtUser
<1>2. g \in Group
  BY <1>1, JobUser DEF Job
<1>3. /\ T.groups = db.groups /\ ForUser(job.user, T)
      /\ T.links[<<job.user, g>>] = 0
      /\ \A h \in Group : h # g => T.links[<<job.user, h>>] = db.links[<<job.user, h>>]
  BY <1>1, <1>2, DeletedLink, JobUser
<1>4. \A h \in Group : T.links[<<job.user, h>>] > 0 => h \in Linked(job.user) \ {g}
  BY <1>3 DEF Linked
<1>5. CASE db' \in {db, T} /\ Fail
  <2> HIDE DEF T
  <2> QED
    BY <1>1, <1>2, <1>3, <1>4, <1>5, FailCompletes
<1>6. ASSUME job' = [job EXCEPT !.del = @ \ {g}]
      PROVE  /\ job'.user = job.user /\ job'.add = job.add /\ job'.del = job.del \ {g}
             /\ job'.group = job.group
  BY <1>1, <1>6, JobUser DEF Job
<1>7. CASE /\ db' = T
           /\ known' = WithoutGroup(job.user, g)
           /\ unlinked' = [unlinked EXCEPT ![job.user] = @ \cup {g}]
           /\ job' = [job EXCEPT !.del = @ \ {g}]
           /\ UNCHANGED <<knownGroups, raced, refused, misled, pc>>
           /\ UNCHANGED <<files, source, initDone, todo, failures, restarts>>
  <2>1. AtUser' /\ known' = known /\ list' = list
    BY <1>1, <1>7 DEF AtUser, WithoutGroup, Deleted, DeletionExpected, source
  <2>2. \A u \in User \ {job.user} : unlinked'[u] = unlinked[u]
    BY <1>1, <1>7, JobUser DEF SyncIInv, SyncTypeOK
  <2>3. Linked(job.user)' \subseteq Linked(job.user) \ {g}
    BY <1>4, <1>6, <1>7 DEF Linked
  <2>4. JobCompletes'
    BY <1>1, <1>6, <1>7, <2>1, <2>3 DEF UpdateIInv, JobCompletes
  <2>5. knownGroups \subseteq db.groups /\ job.group \in knownGroups \cup {NoGroup}
    BY DEF UpdateIInv, GroupsStored
  <2> HIDE DEF T
  <2> QED
    BY <1>1, <1>3, <1>4, <1>6, <1>7, <2>1, <2>2, <2>4, <2>5, AnsweredCompletes
<1>8. CASE /\ failures < MaxFailures /\ failures' = failures + 1
           /\ refused' = TRUE
           /\ job' = [job EXCEPT !.del = @ \ {g}]
           /\ UNCHANGED <<files, source, sink, raced, misled, unlinked, pc, initDone, todo, db,
                          restarts>>
  <2>1. GroupsStored'
    BY <1>6, <1>8 DEF UpdateIInv, GroupsStored, Linked, Running, sink
  <2> QED
    BY <1>1, <1>8, <2>1 DEF UpdateIInv, DoneComplete, JobCompletes
<1> QED
  BY <1>5, <1>7, <1>8 DEF Call

\* The job of a user is what separates the copy from what was read.
LEMMA StartUserCompletes ==
  ASSUME SyncIInv, UpdateIInv, StartUser PROVE UpdateIInv'
<1> USE UnknownApart
<1> PICK u \in todo :
      /\ todo' = todo \ {u}
      /\ IF known[u] = Unknown
         THEN /\ job' = [user |-> u, add |-> list[u], del |-> {}, group |-> NoGroup]
              /\ pc' = "login"
         ELSE /\ job' = [user |-> u, add |-> list[u] \ known[u], del |-> NoLongerIn(u),
                         group |-> NoGroup]
              /\ pc' = "link"
  BY DEF StartUser
<1>1. /\ u \in User /\ job = NoJob /\ Running
      /\ UNCHANGED <<db, known, knownGroups, listed, list, misled, refused, unlinked>>
  BY DEF SyncIInv, SyncTypeOK, JobOK, AtUser, Running, StartUser, source, sink, history
<1>2. job'.user = u /\ job'.group = NoGroup /\ \A v \in User : Linked(v)' = Linked(v)
  BY <1>1 DEF Linked
<1>3. GroupsStored'
  BY <1>1, <1>2 DEF UpdateIInv, GroupsStored
<1>4. DoneComplete'
  <2> SUFFICES ASSUME NEW v \in (listed \ todo') \ misled, v # u
               PROVE  refused \/ Complete(v)'
    BY <1>1, <1>2 DEF DoneComplete
  <2>1. v \in User /\ v \in (listed \ todo) \ misled /\ v # job.user
    BY <1>1 DEF SyncIInv, SyncTypeOK
  <2>2. refused \/ Complete(v)
    BY <2>1 DEF UpdateIInv, DoneComplete, StartUser
  <2> QED
    BY <1>1, <1>2, <2>1, <2>2 DEF Complete
<1>5. JobCompletes'
  <2>1. known[u] # Unknown /\ u \notin misled => Linked(u) \subseteq known[u]
    BY <1>1 DEF SyncIInv, CopyIsTrue, StoredOK
  <2> QED
    BY <1>1, <1>2, <2>1 DEF JobCompletes, NoLongerIn
<1>6. pc' # "sleep"
  OBVIOUS
<1> QED
  BY <1>3, <1>4, <1>5, <1>6 DEF UpdateIInv

\* When nothing is left to do for a user, he has what was read.
LEMMA EndUserCompletes ==
  ASSUME SyncIInv, UpdateIInv, EndUser PROVE UpdateIInv'
<1> USE UnknownApart
<1>1. /\ AtUser /\ Running /\ job.add = {} /\ job.del \cap knownGroups = {}
      /\ job' = NoJob /\ pc = "link" /\ pc' = "users"
      /\ UNCHANGED <<db, known, knownGroups, listed, list, misled, refused, unlinked, todo>>
  BY DEF EndUser, AtUser, Running, source, sink, history
<1>2. \A v \in User : Linked(v)' = Linked(v)
  BY <1>1 DEF Linked
<1>3. GroupsStored'
  BY <1>1, <1>2 DEF UpdateIInv, GroupsStored, NoJob
<1>4. job.user \in User /\ (job.user \notin misled => refused \/ Complete(job.user))
  <2>1. Linked(job.user) \subseteq knownGroups
    BY <1>1, JobUser DEF UpdateIInv, GroupsStored
  <2>2. job.user \notin misled =>
          known[job.user] \subseteq Linked(job.user) \cup unlinked[job.user]
    BY <1>1, JobUser DEF SyncIInv, CopyIsTrue, JobOK
  <2> QED
    BY <1>1, <2>1, <2>2, JobUser DEF UpdateIInv, JobCompletes, Complete
<1>5. DoneComplete'
  <2> SUFFICES ASSUME NEW v \in (listed \ todo) \ misled
               PROVE  refused \/ Complete(v)'
    BY <1>1 DEF DoneComplete
  <2>1. v \in User
    BY DEF SyncIInv, SyncTypeOK
  <2>2. refused \/ Complete(v)
    BY <1>1, <1>4, <2>1 DEF UpdateIInv, DoneComplete
  <2> QED
    BY <1>1, <1>2, <2>1, <2>2 DEF Complete
<1> QED
  BY <1>1, <1>3, <1>5 DEF UpdateIInv, JobCompletes, AtUser

\* The steps of no user: an update begins with all users to do, and ends with none.
LEMMA SourceCompletes ==
  ASSUME SyncIInv, UpdateIInv, SourceNext \/ Load PROVE UpdateIInv'
<1> USE UnknownApart
<1>1. /\ UNCHANGED <<db, misled, job>> /\ ~AtUser' /\ ~AtUser /\ job = NoJob
      /\ (Running' => Running \/ Load)
  BY DEF SourceNext, ReadGroupFile, StampGroupFile, ReadPasswdFile, StampPasswdFile, Search,
         FindChanged, EndUpdate, Restart, Load, AtUser, Running, history, SyncIInv, JobOK
<1>2. knownGroups' = IF Load THEN db.groups ELSE knownGroups
  BY DEF SourceNext, ReadGroupFile, StampGroupFile, ReadPasswdFile, StampPasswdFile, Search,
         FindChanged, EndUpdate, Restart, Load, sink
<1>3. GroupsStored'
  BY <1>1, <1>2 DEF UpdateIInv, GroupsStored, Linked, NoJob
<1>4. DoneComplete'
  <2>1. CASE StampPasswdFile \/ Search
    BY <2>1 DEF StampPasswdFile, Search, DoneComplete
  <2>2. CASE EndUpdate
    <3>1. pc = "users" /\ UNCHANGED <<db, job, listed, list, todo, misled, refused, unlinked>>
      BY <2>2 DEF EndUpdate, source, sink, history
    <3> QED
      BY <3>1 DEF UpdateIInv, DoneComplete, Complete, Linked
  <2> QED
    BY <2>1, <2>2 DEF SourceNext, ReadGroupFile, StampGroupFile, ReadPasswdFile, FindChanged,
                      Restart, Load, DoneComplete, AtUser
<1>5. JobCompletes' /\ (pc' = "sleep" => todo' = {})
  BY <1>1 DEF JobCompletes, SourceNext, ReadGroupFile, StampGroupFile, ReadPasswdFile,
              StampPasswdFile, Search, FindChanged, EndUpdate, Restart, Load
<1> QED
  BY <1>3, <1>4, <1>5 DEF UpdateIInv

\* The changes of the files change nothing of it.
LEMMA ChangeCompletes ==
  ASSUME UpdateIInv,
         UNCHANGED <<db, knownGroups, known, job, pc, listed, list, todo, misled, refused, unlinked>>
  PROVE  UpdateIInv'
BY DEF UpdateIInv, GroupsStored, DoneComplete, JobCompletes, Complete, Linked, AtUser, Running

\* After an update the users have the groups that were read for them.
THEOREM UpdatesComplete == SyncSpec => []UpdateIsComplete
<1>1. ASSUME SyncIInv, UpdateIInv, [SyncNext]_syncVars PROVE UpdateIInv'
  <2>1. CASE LoadFails \/ ReadFails \/ SearchFails
    BY <1>1, <2>1, FailCompletes DEF LoadFails, ReadFails, SearchFails
  <2>2. CASE ChangeGroupFile \/ ChangePasswdFile \/ UNCHANGED syncVars
    <3>1. UNCHANGED <<db, knownGroups, known, job, pc, listed, list, todo, misled, refused,
                      unlinked>>
      BY <2>2 DEF ChangeGroupFile, ChangePasswdFile, syncVars, source, sink, history
    <3> QED
      BY <1>1, <3>1, ChangeCompletes
  <2> QED
    BY <1>1, <2>1, <2>2, AddLoginCompletes, AddUserCompletes, AddGroupCompletes,
       AddLinkCompletes, DeleteLinkCompletes, StartUserCompletes, EndUserCompletes,
       SourceCompletes
       DEF SyncNext, ThreadNext, SourceNext
<1>2. SyncIInv /\ UpdateIInv => UpdateIsComplete
  <2> SUFFICES ASSUME SyncIInv, UpdateIInv, pc = "sleep", ~refused, NEW u \in listed \ misled
               PROVE  Complete(u)
    BY DEF UpdateIsComplete, Complete
  <2>1. todo = {} /\ u \in User /\ job = NoJob
    BY DEF UpdateIInv, SyncIInv, SyncTypeOK, JobOK, AtUser
  <2> QED
    BY <2>1, UnknownApart DEF UpdateIInv, DoneComplete
<1> QED
  BY InitOK, StepPreserves, InitUpdate, <1>1, <1>2, PTL DEF SyncSpec
=============================================================================
