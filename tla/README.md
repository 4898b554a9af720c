# A verification project for Argus

Argus adds central administration of authorization to Hadoop services. A **policy manager** (a web
application over a database) keeps, for every *repository* (a Hadoop service), the *resources* with the
permissions of users and groups: the policies. An **agent** inside each service polls the policy manager
for the policies of its repository, enforces them, keeps a cache file of them for the times at which the
policy manager cannot be reached, and writes audit events to a database. A **synchroniser** copies users
and groups to the policy manager.

This directory holds TLA+ modules for the parts of the system whose behaviour over time is hard to test,
configurations that check them with TLC on small instances, and theorems about them that TLAPS checks for
all values of the constants. `PROJECT.json` is the machine-readable index: which lines of the source every
definition stands for, what every run checks, a mutated definition per property that makes the property
fail, the hazards of the code, and the theorems.

## The system

| component (source) | state | operations | interacts by |
|---|---|---|---|
| policy refresher of an agent (`agents-impl/.../pdp/config`) | the watcher's container, epoch and flags; the refresher's container and listener; the cache file | poll, load the cache, save, notify, register, restart | HTTP poll of the policy manager; call-back into the agent's `URLBasedAuthDB`; the cache file |
| HDFS agent (`hdfs-agent`, `agents-impl/.../pdp/hdfs`) | the policy in force; a cache of audit flags; an event per handler thread | `checkPermission` and `check` of the name node as rewritten by the transformer, `AuthorizeAccessForUser`, `writeLog`, `setPolicyContainer`, `isAccessGranted`, `isAuditLogEnabled` | called by the handler threads of the name node and by the refresher; logs to an audit provider |
| policy manager: resources (`security-admin/.../biz/AssetMgr`) | tables `x_resource`, `x_perm_map`, `x_audit_map` | create, update, delete, grant, revoke, download | REST calls of administrators and agents, one transaction each |
| administration console (`security-admin/.../webapp/scripts`) | the rows of a policy form, with the ids of the permissions | open, edit, validate, save | REST calls of the policy manager |
| audit providers (`agents-audit/.../provider`) | the queue; one transaction per thread; the list of uncommitted events; the connection | log, flush, start, stop, shutdown hook | called by the handler threads; JPA to the audit database |
| user and group synchronisation (`ugsync`) | file times, the lists read; the copy of what the policy manager has | initial load, cycle, add users, groups and memberships, delete memberships | the Unix files or a directory; REST calls of the policy manager |
| `HdfsFileAppender` (`agents-common`) | a sink in HDFS, a local cache file, a watcher thread | append, roll over, replay the cache | HDFS, the local file system |
| policy matching of the Hive, HBase, Knox and Storm agents, and their authorizers | the rules | match a request against them | called by the services |
| administration: users, sessions, search; look-up client; Unix authentication; embedded server; installer; credentials | database rows, connections | requests | HTTP, sockets |

The hard behaviours, in the order in which they matter:

* **Distribution of policies.** A poll compares two numbers (time of the last update, number of resources)
  to decide whether the agent is up to date; these come from transactions that overlap and from a clock
  of one second. Whoever is told "not modified" wrongly enforces an old policy for an unbounded time.
* **The refresher's two threads.** The initialising thread makes the first poll, starts the watcher thread
  and registers the listener while the watcher polls; almost nothing of it is synchronized. Outages lead
  through the cache file, to a dead watcher, or to a policy that is loaded but not enforced.
* **Auditing.** Threads with transactions of their own share a list, a connection and a `ThreadLocal` that
  reconnecting replaces for all; the asynchronous variant adds a bounded queue and a shutdown hook.
* **The name node's handlers.** Access types are asked for one at a time on a policy that may be replaced in
  between; the audit record is made from an event that several checks overwrite and no request clears; the audit
  flags are filled by handlers while a new policy clears them.
* **Two writers of one policy.** An administrator has a policy open in a form while agents grant, replace and
  revoke its permissions: the form holds ids of rows that may be gone when it is saved.
* **Synchronisation of users.** A copy that is loaded once is trusted for ever; calls fail with their effect
  done or not; files change between the reading and the look at their time.

## Modules

| module | models | composed of |
|---|---|---|
| `PolicyAgent` | `ConfigWatcher`, `PolicyRefresher` (and the Jersey2 variants, by a constant), the enforced policy | open: the answers to polls are arbitrary |
| `PolicyRefresh` | one agent, a policy manager with one document, outages, restarts | `PolicyAgent` |
| `PolicyAdmin` | create, update, delete, grant and revoke as transactions; the test for status 304 | |
| `PolicyDistribution` | an agent polling that policy manager | `PolicyAgent`, `PolicyAdmin` |
| `DbAuditProvider` | `log` and `flush` of the database provider, step by step, with JPA's entity managers | open: who calls it is left open |
| `SyncAudit` | many threads calling it directly | `DbAuditProvider` |
| `AuditTrail` | what asynchronous auditing promises (abstract) | |
| `AsyncAudit` | queue, consumer thread, batches, shutdown hook | `DbAuditProvider`; implements `AuditTrail` |
| `HdfsPolicy` | which policies are about a path, as the agent and as the policy manager find it; whom they grant what; what is audited (operators only) | |
| `AuditFlag` | `isAuditLogEnabled` against `setPolicyContainer` | `HdfsPolicy` |
| `NameNode` | the agent inside the name node: checks, events, audit records, refresh of the policy | implements `AuditFlag`, on `HdfsPolicy` |
| `PolicyPermissions` | what the permissions of a policy promise to those who change them (abstract) | |
| `PolicyEditor` | the permissions of one policy: the console's form, save, grant, replace, revoke | implements `PolicyPermissions` |
| `UserGroupSync` | `UserGroupSync` with either source and its sink, and the tables of the policy manager | |
| `MC...` | instances for TLC | |
| `..._proofs` | theorems about the module of that name | those of `PolicyRefresh`, `PolicyDistribution` and `NameNode` also hold the theorems about `PolicyAgent`, `PolicyAdmin` and `AuditFlag`; those of `SyncAudit` and `AsyncAudit` share the lemmas of `DbAuditProvider_proofs` |

A definition whose comment begins with "Variant" is a mutated form of the one that follows it; `PROJECT.json` names
the property it breaks. No specification uses it.

### How the state and the steps correspond to the code

*PolicyAgent.* Variables bear the names of the fields (`lastModifiedTime`, `policyCacheLoadedOnce`,
`cacheModfied`); `watcherContainer` and `refresherContainer` are the two fields `policyContainer`.
`pollPc` and `mainPc` are the program counters of the two threads. A poll (`isFileChanged`) is one step: its
reads and writes of the watcher's fields are not seen by the other thread, except that `cacheModfied` is reset
when it begins (`MayBePolling`), and one step decides among all outcomes: 200 with or without change, 304, another status, no usable response.
`doOnChange` is five steps, since the initialising thread sees the refresher's fields between them, and
so is `setPolicyChangeListener`. Saving opens (and so truncates) the file in one step and closes it in
another: a crash between the two leaves a file that does not parse, as do two overlapping writers. A
policy document is a record of its time, its number of resources and (in `PolicyDistribution`) its
contents.

*PolicyAdmin.* A REST call is three steps: its checks on what is committed (`Begin`, a part of each of the five operations), which settle what it
will add to a row and take from it; the statements (`Flush`); and the commit, or at any time a rollback. `onPreUpdate` stamps a row in the server
before the `UPDATE` is sent, which then waits for the row: the stamp that `Flush` writes is any time from the checks on, the wait for the lock lies
in between (`Locked`), and as the tables have no version nobody notices that the row was stamped anew meanwhile (`base`). `Conflicting` says which
operations wait for each other: the owner of a new perm map holds the row it refers to against changes but not against other
perm maps, and deleting perm maps does not touch the row. `ForeignKeyHolds` refuses a perm map of a row that is gone,
and the deletion of a row with perm maps the transaction has not seen. An update writes the columns it changes only, and a statement about a row
that is gone changes nothing. A perm map is identified with its permission; how ids tell perm maps apart is the matter of `PolicyEditor`.
`nextId` is not rolled back. `clock` counts seconds because `update_time` is a `DATETIME`. `SameLong` is Java's `==` of two `Long` objects.

*DbAuditProvider.* `em[t]` is what `DaoManager`'s `ThreadLocal` holds for thread t: whether its transaction
is active and which events were persisted in it. `LoseAllEms` is what replacing that `ThreadLocal` does.
Every point of `log()` where another thread can come in between is a step. `mUncommitted` is an
unsynchronized list: an `add` that overlaps another `add` or `clear` may be lost, a `clear` undone.
A failing database call is a branch of the step that makes it; a commit that fails may have been done.

*AsyncAudit.* `queueEvent` and the test in `dequeueEvent` are single steps, both being synchronized on the
queue. The consumer's calls go through the steps of `DbAuditProvider`, the calls of `MultiDestAuditProvider`
between them being a loop over one destination.

*HdfsPolicy.* A string is a sequence of characters, so that prefixes, separators and wildcards mean what they mean in the
code. `isRecursiveWildCardMatch` cuts a path at its separators, `WildcardMatch` is `FilenameUtils.wildcardMatch`, and
`Pieces` is what `String.split` leaves, which drops empty pieces at the end. Both are defined without recursion: a string matches a pattern if
there is an alignment (`Aligns`: where in the string the first j characters of the pattern end), and the pieces are what is between the cuts in their order. The manager's
matching is for a path without wildcards; one with wildcards it fills with random characters first.

*AuditFlag.* `get`, `put` and `clear` of the `HashMap` overlap as the locks allow: a `get` can miss an entry, a `clear` beside
a `put` that enlarges the table can leave entries and make the recorded size wrong for good.

*NameNode.* `phase[h]` says where handler h is in the methods that the transformer rewrote. Hadoop's own code is open: how many inodes
it checks, with which actions, what its own permissions say, and whether anything else refuses the request or it fails
with another exception (after which `writeLog` is not called). `Authorize` asks for one access type and reads
the policy at that moment; `Decided` is what `check` makes of the answer. `authorizer` is created by the first check that needs
it, if the configuration names one that can be created (`verifier`). `currentValidatedLogEvent` is the `ThreadLocal`:
it outlives its request.

*PolicyEditor.* A perm map is a user or group and a type of permission, with a name that makes it one row of the table; `in` and `copy` only
tell rows of the same content apart: a row is `Stored` or its client's own, and gets an id of the stored ones when it is committed, the ids left
being given out in order (`CommittedMap`). Rows of the form keep an id per type that was checked (`_vPermList`), `New` for
one checked since, and an element of `Gone` for one whose perm map was deleted since the form was opened: the form still knows whose it was, and sends it for this member only, while the other members
of the row have no id and are stored anew (`Sent`). `EditedList` is every edit
the page offers; `Accepted` is `onSave` with `formValidation`, which reports on one row. A transaction reads and writes in
one step and commits in another, so that two can overlap; `updatePermGroup` regroups in the order of a hash map, which is any order
(`Regroupings`).

*PolicyPermissions* knows none of this: `granted` is one set of pairs of a user or group and a type, `shown` what each form shows of it, `pending` the
requests that were asked for and not answered. It promises that a form opens with `granted`; that a request which no other has overtaken gives and takes
exactly what it names, and a save makes `granted` what its form shows; and that an overtaken grant, replacement or revocation still gives and takes nothing
that it does not name. It promises nothing of an overtaken save, and of forms and saves nothing after a race or a stale id (`raced`, `stale`); after a race a
revocation may leave what was stored twice.

*UserGroupSync.* `pc` is the thread in `UserGroupSync.run`; each REST call is a step, after which the tables and the copy differ by it.
`Call` has the outcomes of a call: answered; failed and not carried out; failed and carried out. What an exception leads to depends on the source (`Fail`):
the Unix source lets it through, which ends the process once the initial load is done, the directory's catches those about one user. `ReadFails` is a
file that cannot be read to its end or has a line with too few fields; the half-filled lists are left out, as the next reading begins with empty ones.
`groupFile` and `passwdFile` stand for the directory when `ldap`.

### What is assumed

* A write of a field without `volatile` is seen by the next read of the other thread (`mStopThread`,
  `policyContainer`, `policyChangeListener`, `watcherDaemon`). The Java memory model does not promise it. For `mStopThread`
  the consumer reads it under the queue's lock when the queue is empty; for the fields of the refresher a poll with its I/O
  lies between.
  In `NameNode` a handler sees the policy that was set last.
* `HashMap.get` and `put` that overlap lose or miss entries but end, and return no foreign entry.
* The dated copy of the policy that `savePolicyToFile` writes is never read; it is left out.
* A transaction is isolated and atomic, reads what is committed when it checks, and a poll reads one snapshot.
* Nobody but `ugsync` writes the policy manager's tables of users and groups: an administrator can, and what the copy of `UserGroupSync` then misses is not
  claimed to be there.

### Variables that record history

Some properties hold except after an event that the code cannot make good. A variable records that event, so
that the property says exactly what is left:

* `late` (PolicyDistribution): some create or update was committed with a stamp that is not later than one
  committed before it, or a grant or revocation was committed. It happens when two changes fall in one second or commit
  in the inverse order of their stamps, of one row too, when an update waits for its lock. An agent that polled in between has the epoch and, if the number of resources is the
  same too, is answered 304: it enforces the older policy until some other change. `KeptPolicyIsCurrent` says that this
  and the grants are the only ways to it.
* `contended` (PolicyAdmin): the names that two open transactions were giving at a time. `NoDuplicateNames` says
  that only those names can come to have two rows.
* `base` of a transaction (PolicyAdmin): `"replaced"` if the row was stamped anew by another between the checks and the flush. Such a transaction may set
  the latest time of the repository back without deleting anything; `LastUpdatedAdvances` says that only it and a deletion can. An agent is told of it, as times are
  compared for equality, but takes the answer for an older policy (`IsNewer`) and keeps what it has until a later change.
* `early`, `failures` (DbAuditProvider): an event was logged before `start()`; the database failed.
* `raced` (AuditFlag): a new policy was set, or the cache cleared, while a handler had an answer to put. The answer of the
  old policy is then cached for the new one, against the comment that the cache "needs to be cleaned when ruleList changes".
* `overtaken` (NameNode): a policy was set since the handler's latest check began. `own`: the event was made in the present request.
  `outcome`: what the caller of the latest request saw.
* `raced` (PolicyEditor): a transaction was committed over one it had not seen. `stale`: a form sent an id that was gone.
* `raced` (UserGroupSync): a file changed between its reading and the look at its time, or twice in a second. `misled`: users passed over
  after a failure (directory only). `refused`: a deletion was answered with an error since the last reading. `unlinked`: what
  this process has deleted, which the copy keeps.
* `policyCacheLoadedOnce` and `mainPc` play the same part in `NoRollback` without an extra variable.

## Runs

All runs use TLC with two workers and end within five minutes.

| run | asks | bounds, and why they are enough |
|---|---|---|
| `refresh_watcher` | Hadoop variant: is the epoch that of the container, does a process without a watcher hold no policy, who can damage the cache file, when may enforcement go back, is an accepted policy saved and enforced, does a published one arrive | three publication times and two counts (a policy before, during and after), two outages, one restart: an outage before and after the restart, and two policies in flight between the two threads |
| `refresh_jersey2` | Jersey2 variant with failing writes: do watcher and refresher agree between polls, is every published policy enforced, does an agent that fell back on the cache enforce a policy | as above, one outage |
| `refresh_cache_unused` (violated) | is a cached policy that was loaded enforced | as above |
| `name_node` | is what is granted what the policy says of all access types, does the audit record tell the result of its own request, are cached flags current and bounded, do agent and manager agree on what a policy is about | two handlers, two requests of two checks each, an action of two access types (a refresh between them), three containers with plain, recursive, wildcard and disabled policies that grant to a user, a group and everybody, five paths with the two names of the root, `/a`, `/ab` and `/a/b`; a cache of one entry; one user excluded from auditing |
| `console_editor` | is `PolicyPermissions` implemented (forms show what is granted, requests do what they name), when is a permission stored twice, what does the validation let through, what is left after a revocation | two groups and one user (a row with two members, a list of one), two types, one administrator and one agent, two rows (`MaxRows`: as many as there are groups, or users, to add to them), two edits, two perm maps for a pair (`MaxCopies`;
no commit of the run needs a third, so `CopiesLeft` cuts off nothing). The constraint: a second edit only with at most one perm map and no agent, and no form after a race or a stale save, as nothing is claimed of those |
| `console_saved` (violated) | is what the form shows granted after its save | no edits at all |
| `dist_concurrent` | may a name get two rows, may the latest time of a repository go back, does an agent that keeps its policy hold the current one | two names, one permission, two requests, two rows, two seconds: enough for a request that reads, waits for the lock of another that stamps a second later, and commits after it; create, delete, rename, grant and revoke between polls. After `late` the agent is left in its initial state, as nothing is claimed of it (`Timely`). `AgentFirst` lets an agent finish what it does with a policy before the manager goes on, and poll only when some request is idle: the one does not touch the manager's state, and a poll reads committed rows only, so either can be moved to there without a difference to any property. `Polling` leaves out of a state what the agent handed on, which no later poll reads |
| `dist_grant` (violated) | is "not modified" true, with grants | one row |
| `sync_threads` | can synchronous auditing store twice, or lose an event without a failure | two threads, three events, one failure: an event each and one that follows, a reconnection in between |
| `async_trail` | is the abstract audit trail implemented; queue bound; shutdown; liveness | four events, queue of two, batch of two, one failure: an overflow, a full and a partial batch, one lost |
| `ugsync` | is a membership inserted once, is the copy right, does an update leave what was read, is a change noticed, is the policy manager in step in the end | two users (one with an id below the minimum), two groups of which one may have no line, both sources, two changes, two failures, one restart: a failure in the initial load and one after it, a change while a file is read and one after |
| `ugsync_readded` (violated) | has a user the groups that were read for him, if no call failed | as above, no failure |

### Fairness

`FairRefreshSpec` has weak fairness of the poll (`ConfigWatcher.run` is an endless loop with a sleep), of the
steps of `doOnChange` and of the initialising thread (threads that are running and wait for nothing), and of
`Recover`: an outage ends. The poll is disabled once the watcher is dead, so nothing is promised then.
No fairness is assumed of publications, outages and restarts. `FairAsyncSpec` has weak fairness of the consumer
thread and of the shutdown hook: the JVM runs both; `waitToComplete` looks at the queue again and again, and
with a service that logs for ever it need not end: the number of events is bounded. Nothing is assumed of the service
or of the begin of the shutdown. `SyncSpec` of `UserGroupSync` has weak fairness of the thread, which is one loop that sleeps between its
cycles and waits for nothing but answers, which come or fail; none of changes and restarts, so `EventuallyInSync` says
nothing of a process that has ended. `NameNode` and `PolicyEditor` state no liveness: when a request is answered is up to Hadoop, when a form is saved
to the administrator.

### Where the code departs from what it says

1. `refresh_cache_unused`: `ConfigWatcher.isFileChanged` returns false after it loaded the cached policy for want
   of a response. The policy is not enforced, and as the epoch is now that of the cache, the policy manager
   answers 304 from then on. `Jersey2ConfigWatcher` returns true there.
2. `dist_grant`: `grantXResource` and `revokeXResource` change permissions without updating the resource, so agents are
   answered 304.
3. `console_saved`: `updateXResource` passes over the ids of a form that are no longer stored, and deletes what is stored under
   others. After an agent replaced the permissions of a policy that is open in a form, the save takes away what the form shows.
4. `ugsync_readded`: `delXUserGroupInfo` expects status 200 and the call is answered 204, so the copy keeps a membership
   that was deleted; a user put back into a group does not get it again until the process is restarted.

And without a run of their own, as the models have them but nothing in the repository says otherwise, or the fact is a
matter of one line:

* `updateXResource` compares ids with `!=` on `Long` objects (`SameLong`): beyond 127 every update that keeps the name is refused as a duplicate.
* With several threads, `mUncommitted` cleared by one thread makes the `flush()` of another return without a commit.
* An audit flag computed from the old policy can be cached for the new one (`raced` of `AuditFlag`).
* The root inode's path is empty. `AuthorizeAccessForUser` takes it for "/" (`Normal`), the events of Hadoop's own check do not: the audit flag
  that is asked for then is that of the empty path.
* The `ThreadLocal` event is never cleared: a request that makes no check writes the record of the thread's earlier request. `AuditTellsWhatHappened` is
  about requests with a check for this reason.
* Before the first check that needs the access verifier, or when it cannot be created, `writeLog` fails on it, though Hadoop allowed the request (`WriteFails`).
* A refusal that comes from elsewhere in Hadoop (the owner's test, for instance) is recorded as the result of the last check, which granted.
* Of several policies about a path the last decides whether it is audited, even a disabled one: the order of the download matters.
* On the agent a recursive plain path is a prefix of strings ("/a" covers "/ab"), and the `*` of one that is not recursive crosses separators; on the
  manager neither holds. A resource that ends in a separator ("/a/"; nothing between the form and the agent removes it) the manager takes for the path before it,
  while on the agent it matches no path by itself, and covers only what is below. An empty resource ("a,,b") the manager takes for the root. `SameAnswer` proves that these are the only differences.
* `install.properties` says to "avoid creating UNIX system-level users", but a user below the minimum id is sent if `/etc/group` has him as
  a member (`PrimaryGroup`).
* Users who are no longer in the files are not looked at: they keep their groups.
* A failed call after the initial load ends the process, and with it the authentication service that runs in it.

## Theorems

TLAPS proves for all values of the constants, from the named assumptions on them only (types of the
constants; the null values are not policies, events or rows; in `PolicyDistribution` the documents that can be made of the tables are policies; in `NameNode` a path is absolute, has no wildcards and ends in a separator only at the root; in `PolicyEditor` the users, groups and types are
finitely many):

| theorem | says |
|---|---|
| `AgentInductive` | `AgentIInv` holds in every state of `AgentSpec`, whatever the policy manager answers, in both variants |
| `AgentTypeCorrect`, `AgentEpoch`, `AgentNoWatcher`, `AgentFollows` | types, epoch, no policy without a watcher, refresher and watcher agree: they follow from it |
| `RefreshIsAgent` | the closed system `RefreshSpec` implements `AgentSpec`; so `RefreshEpoch` and `RefreshNoWatcher`; with the types of the manager and the link, `RefreshTypeCorrect` |
| `AdminInductive` | `AdminIInv` holds in every state of `AdminSpec`; so `AdminTypeCorrect` and `AdminNoDuplicates`: two rows have a name only if it was contended for |
| `AdminLastUpdated` | the latest time of a repository goes back only by the deletion of a row that carried it, or by an older stamp on such a row, of a transaction that was overtaken before its flush |
| `DistIsAdmin`, `DistIsAgent` | with an agent polling it the policy manager still implements `AdminSpec`, and the agent `AgentSpec`, so that what is proved of each holds of both together |
| `DistKeptIsCurrent` | an agent that the next poll will leave its policy holds the repository's, unless `late` |
| `AgentHeld` | when neither thread is handing a policy on and the refresher holds one, a policy is enforced; so, for the Jersey2 variant, `RefreshCachedIsUsed`: an agent that fell back on its cache enforces a policy |
| `RefreshCacheIntact` | the cache file is damaged only while it is written or after both threads wrote it, unless writes fail or a restart came in the middle of one |
| `RefreshNoRollback` | within one life of the process enforcement goes back only by falling back on the cache, or by main, which the watcher has overtaken |
| `SyncStoredOnce`, `SyncNothingLost` | any number of threads logging synchronously store no event twice, through failures of every call; and without failures lose none |
| `AsyncTyped`, `AsyncQueueBounded` | types; the queue stays within its maximum, for any maximum and size of resumption |
| `AsyncShutdownStores` | with no trouble, what was accepted when `waitToComplete` found the queue empty is stored when `stop` returns |
| `AsyncImplementsTrail` | `AsyncSpec` implements `AuditTrail`: stored once, in order, lost only with trouble |
| `EditorTyped` | the types of `PolicyEditor`: what forms and transactions refer to is stored or known to be gone |
| `MapsOnce`, `FormShows` | without a race no permission is stored twice; without a race and a stale save a row of the form shows what is granted, and no more |
| `RevokeTakes` | a revocation leaves nobody what it took away, unless it was stored twice or overtaken |
| `EditorImplements` | `EditorSpec` implements `PolicyPermissions`: all that perm maps, permGroups, ids and rows come to is one set of pairs, which each request changes in one step by what it names |
| `NoneHalfFilledSaved`, `SavedDoesSomething` | the validation: no half-filled row is dropped silently, but for the list of users; what is saved grants or audits something |
| `FlagFresh`, `FlagBounded` | cached audit flags are current and not more than one above the bound unless raced, for any number of handlers, paths and policies |
| `NameNodeTyped`, `NameNodeGrants` | types; what a check grants is what the policy says of all access types of its action, unless a policy was set meanwhile |
| `NameNodeIsFlag` | `NameNodeSpec` implements `FlagSpec`; so `NameNodeFresh` |
| `NameNodeAudits` | the audit record of an answered request is that of its own last check, with its result |
| `SameAnswer`, `NameNodeMatchersAgree` | for every policy, path and resource of any length agent and policy manager agree on whether the policy is about the path, but for the differences listed above; so the containers in force are never among `Disagreed` |
| `SyncTyped` (of `UserGroupSync`), `CopyStaysTrue`, `LinksOnce` | types; the sink's copy agrees with the policy manager, through failures and restarts; a membership is inserted once |
| `ChangesRead` | a file that counts as read is what was read, unless it changed while it was read |
| `UpdatesComplete` | after a cycle the policy manager has what was read of every user read and not passed over, but for refused deletions |

*PolicyAgent.* The epoch is right only if every way to a container is known: `AgentIInv` adds to it that each thread has a policy
in hand wherever it goes on to write one (`PolicyInHand`; without it a null policy could be saved and the types fail), that
there is a listener exactly from the registration on and nothing is enforced before (`ListenerRegistered`), how far the
process can be while there is no watcher (`FirstPoll`, which is what `NoWatcherNoPolicy` needs), and that the containers of
the Jersey2 variant differ only before `DoSetPolicyContainer` (`ContainersAgree`). The proof goes by the steps of `AgentNext`;
polls are grouped by what they leave (idle, change, dead thread, silent load). `RefreshIsAgent` needs only that what
the policy manager sends is a policy.

`HeldIsEnforced`, for `AgentHeld`, follows a policy from the watcher by the refresher to the listener: what a thread is about to hand on is a
policy, and a thread that is done has handed on what the refresher holds. `CachedPolicyIsUsed` is about the Jersey2 variant, whose refresher
always has what its watcher loaded (`AgentFollows`); the other variant does not have the property, which is the run `refresh_cache_unused`.
`WriterDamages`, for `RefreshCacheIntact`: until main has taken a policy to save, the watcher is the only writer, and the file is damaged exactly
between its opening and its closing. `NoneIsNewer`, for `RefreshNoRollback`: nothing the agent or its file holds is newer than what the policy manager
sends, and nothing it handed on is newer than what its watcher holds unless that came from the file; so a poll can only bring something newer.

*PolicyAdmin.* `NoDuplicateNames` speaks of committed rows, but what makes it true is decided earlier, when a transaction makes its checks.
`AdminIInv` therefore adds what holds of open transactions: they share a row only where their locks allow it (`RowsLocked`), the row that a flushed perm map
refers to exists (`ReferencedRowExists`, from the foreign key and the locks; without it a perm map could commit to a deleted row and the types fail), two that
give the same name have contended for it (`GiversContend`), and so has one that gives a name which another row has by now (`GivenNameIsNew`, the steps from
the checks to the commit). `BeginPreserves`, `FlushPreserves` and `CommitPreserves` are its three parts. `AdminLastUpdated` needs `StampsOrdered` besides: a row
that an open transaction will stamp has no later stamp than the transaction's, unless it was stamped anew since the checks: a commit that stamps the row
finds the others that are to stamp it not flushed, by `RowsLocked`, and they are then marked (`Overtaken`). That a nonempty set of times has a
maximum is proved from the well-foundedness of `<`.

*PolicyDistribution.* Why two numbers are enough, when stamps do not come late: `DistIInv` says that no row is stamped later than `newest`, and that the
policy an agent holds has every row, as it is now, that is not stamped later than the policy (`KeptIsPast`). What a commit creates or changes
is then stamped later; a delete only takes a row away. If the latest time is that of the policy, all rows are in it; if their number is the
same too, nothing else is, both being finite (`DocumentOfRows`: the document has each row once). The times are numbers and locked rows
exist by `AdminIInv`, which `DistIsAdmin` brings over. `DistIsAgent` needs of the manager that every answer is a policy (`DocumentIsPolicy`), which
its types give: there are at most as many rows as ids, and the latest time is one of theirs.

*DbAuditProvider.* The module leaves open who calls it, and so do its lemmas: what a step of a thread does to what is due to it (the events in its
transaction, and the one in its hand that is not there yet) is one of six things: keep, drop one, drop the batch, put one into the transaction, store one
without a transaction, store the batch (`OwnMoved`). `DueOnce` says that what is due to one thread is due to no other and not stored, and no transaction
has it twice; `Ready` that where no call fails a thread has its transaction from `begin` to `commit`.

*SyncAudit.* `StoredOnce` is not inductive: an event that is stored could still be due. `OnceIInv` is `DueOnce` and that all this was logged before,
which makes a new event different from all of it. For `NothingLostWithoutFailure`, `CalmIInv` adds that the provider is connected once it has started,
that nothing was logged before, and that each thread is `Ready`; a thread that clears `mUncommitted` in the presence of another then takes only the other's
wish to commit, not its event.

*AsyncAudit.* `QueueIInv` keeps the type of the queue and of `dropping` and the bound. `ThresholdBounded` is the arithmetic of the
two thresholds, a percentage included. `TypeIInv` adds to the types that what is queued, due or stored was offered (`Contained`). For the shutdown,
`ShutdownIInv` says that without trouble `mUncommitted` is what is in the consumer's transaction (`CalmDb`), so that a `flush` that finds nothing to do leaves nothing;
that what was promised is due or stored and the last flush empties the transaction (`CalmPromise`); and that the hook ends after the consumer (`Ending`).
`AsyncImplementsTrail` maps what waits to the transaction, the event in hand and the queue, in this order: taking an event from the queue or persisting it
moves it within this sequence and is a stutter, a commit moves a prefix to the database, and whatever drops an event is trouble.

*HdfsPolicy.* `SameAnswer` has two halves. What the agent matches the manager matches (`AgentThenManager`): the hard case is a pattern that is not recursive. Where it has as many
separators as the path, the alignment takes its cuts one by one to those of the path (a map between finite sets of as many numbers that keeps their order keeps their ranks, `RanksKept`),
so that each piece is matched by a part of the alignment (`SplitMatch`). What the manager matches the agent matches (`ManagerThenAgent`): the alignments of the pieces, put one behind
the other, are one of the path (`JoinMatch`), and a pattern without wildcards matches itself only (`PlainMatch`). The induction over the characters is done on a least
counterexample (`Least`, from the well-foundedness of the numbers), as induction theorems cannot be instantiated.

*AuditFlag.* `FlagIInv` adds to freshness that what a handler is about to put is the answer of the current policy, unless raced
(`ComputedFresh`). `EntriesBounded` adds that the entries are finitely many, without which their number says nothing;
`OneMore` is the step from the table before a `put` to the one after.

*NameNode.* Access types are asked for one by one, so that `GrantedByThePolicy` needs to know of the ones before:
`AskedSoFar` says that what was asked for since the check began was granted, by the policy that is still in force unless overtaken.
`NameNodeIsFlag` is the refinement, variables unchanged: each step is one of `FlagNext` or leaves `flagVars` alone. `NameNodeAudits` rests on it and on
`RecordIInv`: the event of a request that made a check is of its user and tells what the request will come to (`EventIsOwn`), and
only the event is written, where the flag is that of the policy (`WrittenIsEvent`, by `FlagIInv`).

*UserGroupSync.* `CopyIsTrue` and `NoDuplicateLinks` need each other: a row is inserted twice only if the copy misses it.
`SyncIInv` adds the times (`TimesOK`), what the job of a user may still contain (`JobOK`: what is to be added is not in the copy)
and that users of the copy are stored and only stored users have memberships (`StoredOK`). `FailPreserves` and `AnsweredPreserves` are the two outcomes of
`Call`, common to the five calls. The copy is claimed only while the process runs, as it is loaded anew after a restart; and of a user passed
over by the directory's source nothing is claimed.
For `ChangesRead`, `ReadIInv` goes with the reader: from the reading of a file on, what was read is what the file says, or the file is seen to have
changed, or it changed before its time was looked at (`raced`). For `UpdatesComplete`, `UpdateIInv` adds to `SyncIInv` that groups are stored and known before
memberships in them (`GroupsStored`), that the users a cycle is done with have what was read (`DoneComplete`), and that the job of the user
at hand has all that separates him from it (`JobCompletes`).

*PolicyEditor.* `TypeIInv` gives each id of a form the type it is kept for, and says what a transaction may still refer to; a commit takes its deletions out of
all the others' `seen` and out of all forms, which is why it is kept. What a transaction writes was computed when it began. `Fresh` says that it still is
what the operation makes of the present state, as long as no other was committed meanwhile: so the effect of a commit can be read off `SaveResult`, `GrantResult`,
`ReplaceResult` and `RevokeResult`. `Orderly` then says that without a race each pair is stored once, nobody is in two permGroups and nobody is in two rows of a form: each
of the three needs the other two, as a save stores the rows of a form, a form shows the permGroups, and a grant regroups what is stored. `GroupsFull` is
`FormShowsWhatIsGranted` of one permGroup; it needs that `updatePermGroup` joins only equal sets of types, which `SameTypes` compares by their number and
one inclusion: enough if no type is there twice, which is `Orderly` again. `RevokeTakesAway` needs no more than `Fresh` and that a regrouping is of the same perm maps.
`EditorImplements` maps a form to the product of the members and types of its rows, and a transaction to what it was asked. A form shows what is granted as it opens because
rows are products (`GroupsFull`, `ListShows`); what another commit deletes from it only becomes one of `Gone`, and is still shown (`ShownSame`). The effect of a commit
is what it has not seen and what it writes (`CommitGrants`). Of a transaction that is not overtaken `Fresh` says what it writes; of one that is,
`Confined` is needed: what it has seen and does not write, it takes, and what it writes it has seen or gives. That is kept when others delete from both.
For the validation, `SavedSound` is said of the form while its save is under way, when it is not edited but may lose ids to another commit: a lost id
stays in its row as one of `Gone`, so that no row becomes half-filled or empty. Which row is reported is `Min` or `Max` of a set of indices; that these exist is a lemma.

Of the properties that the runs check, these are only model-checked: liveness (`PublishedIsEnforced`, `PublishedIsEnforcedOrCached`, `AcceptedIsSavedAndEnforced`,
`EventuallyStored`, `ShutdownCompletes`, `EventuallyInSync`), as the prover does not do fairness.

## Not modelled, and not covered

* The components listed as `not_modelled` in `PROJECT.json`, with the reason there: input and output, command line tools, web pages;
  the matching of Hive, HBase, Knox and Storm, which are pure functions of a request; and `HdfsFileAppender`, which no configuration in
  the repository names.
* Most of the lines of the repository. Of its JavaScript, nine lines in ten are libraries (jQuery, globalize, bootstrap and others, some in several
  versions) that are no part of Argus; of what is left, the modules model the editing and saving of permissions, and leave
  routing, tables and templates out. The system's own logic is in Java.
* Of the policy manager's `AssetMgr`: assets, audit maps beyond whether there is one, transaction logs, child resources, reports.
* Of the audit providers: several destinations behind one queue, log4j and HDFS as destinations.
* Of `ugsync`: paging, the conversion of names to one case, the mock run.
* A race at startup that no property rules out: the initialising thread can write an older policy to the cache file
  after the watcher wrote a newer one. It stays until the next accepted policy; the model has it, and `AcceptedIsSavedAndEnforced` is about
  the time after the initialisation for this reason.
* Hazards that no model reaches. The singleton `URLBasedAuthDB` is published before `init()` has registered it (`URLBasedAuthDB.java:76`), and `PolicyRefresher`'s fields are
  shared without synchronization (`PolicyRefresher.java:60`): what can follow is a matter of the memory model. A destination of `MultiDestAuditProvider` that throws keeps the
  event from the ones after it (`:71`), and an exception of `persist` reaches the thread that authorises (`BaseDao.java:111`). Names of permission groups that
  `XPolicyService.java:614` makes can collide. `PolicyMgrUserGroupBuilder.java:316` pages without end when an answer never reaches the total. And the roll-over of `HdfsFileAppender`.

## Plan

In the order of what a fault would cost:

1. **Done**: `PolicyAgent`, `PolicyRefresh`, `PolicyAdmin`, `PolicyDistribution`, the audit modules, `HdfsPolicy`, `AuditFlag`, `NameNode`,
   `PolicyEditor`, `UserGroupSync`, and their theorems.
2. `HivePolicy`, `HBasePolicy`: the matching of the other agents against what the policy manager takes a policy to cover.
3. `MultiDest`: a failing destination among several; synchronous exceptions that reach the authorizer.
4. Sessions and authentication of the administration site.
5. Proofs: with new modules. Of the present ones, paths that have wildcards themselves (`HdfsPolicy` leaves them out).
