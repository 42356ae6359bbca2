# A verification project for Krill

Krill is an RPKI Certificate Authority (CA) and publication server, written in
Rust, with a web interface, Lagosta, that it serves as a bundle. This directory holds
TLA+ models of its parts, the TLC configurations that check them on small instances,
and proofs that TLAPS checks for all instances. Paths are relative to the root of the
source tree (`src/...` is the Rust code, `lagosta/js/app.js` the bundle).

Contents: 1 the system; 2 the modules and how they correspond to the code; 3 the
runs; 4 fairness; 5 the proofs; 6 where code and documentation disagree;
7 deviations that the properties name as exceptions; 8 what is not modelled.

## 1. The system

| part | code | what it does | module |
|---|---|---|---|
| key-value store | `src/commons/eventsourcing/kv.rs`, `locks.rs` | files in a directory per handle; `store` replaces a file atomically, `store_new` creates and then writes it | in `WalStore`, `AggregateStore` |
| write-ahead log store | `src/commons/eventsourcing/wal.rs` | change sets appended to a log, snapshots, pruning | `WalStore`, `AppendLog` |
| aggregate store | `src/commons/eventsourcing/store.rs`, `agg.rs`, `cmd.rs`, `evt.rs`, `listener.rs` | event sourcing: commands become events, saved one by one, with a snapshot and an info file; recovery at start-up | `AggregateStore` |
| publication server | `src/pubd/manager.rs`, `repository.rs`, `src/commons/api/rrdp.rs` | publishers, their objects, RFC 8181 requests, RRDP and rsync output | `PublicationServer`, `RrdpRetention`, `RrdpDeltas`, `RrdpFiles` |
| CA: classes and keys | `src/daemon/ca/certauth.rs`, `rc.rs`, `keys.rs` | resource classes under parents, key life cycle and key roll | `KeyRoll` |
| CA: published objects | `src/daemon/ca/publishing.rs` | manifest, CRL and objects per key; moving to another repository | `KeyRoll`, `ChildCerts`, `SignedObjects` |
| CA: parents | `src/daemon/ca/manager.rs` | RFC 6492 synchronisation with parents | `KeyRoll` |
| CA: children | `src/daemon/ca/child.rs`, `certauth.rs` | certificates for child CAs, suspension, revocation | `ChildCerts` |
| task queue, scheduler | `src/daemon/mq.rs`, `scheduler.rs` | a queue of tasks with times, one worker, event listeners that plan tasks | `Scheduler` |
| life of a CA | `src/daemon/ca/manager.rs` | creating, configuring, deleting a CA beside the tasks | `Scheduler` |
| CA: ROAs, ASPAs, BGPSec | `src/daemon/ca/routes.rs`, `aspa.rs`, `bgpsec.rs` | signed objects that follow what the operator has configured | `SignedObjects` |
| web interface | `lagosta/js/app.js` | session, pages and requests in the browser of a user | `Lagosta` |
| CA: RTA | `src/daemon/ca/rta.rs` | resource tagged attestations | not modelled |
| status store | `src/daemon/ca/status.rs` | last exchange with every parent, child and repository | not modelled |
| signers | `src/commons/crypto/` | keys in files, KMIP or PKCS#11 devices | not modelled |
| authentication | `src/daemon/auth/` | admin token, users in a file, OpenID Connect; session cache | not modelled |
| upgrades | `src/upgrades/` | migration of stored data between versions | not modelled |
| BGP analysis | `src/commons/bgp/` | compares announcements with ROAs | not modelled |
| API, HTTP, CLI, configuration | `src/daemon/krillserver.rs`, `src/daemon/http/`, `src/cli/`, `src/daemon/config.rs` | input and output around the managers | not modelled |

How the parts interact. Every state of a CA and of the publication server is in
one of the two stores. A command to a CA makes events; before they are saved
`CaObjectsStore` (a pre-save listener) updates the objects to publish and saves
those; after they are saved `TaskQueue` (a post-save listener) plans tasks: to
publish, to contact a parent. The scheduler runs these tasks one at a time, and
HTTP requests run beside it. Publishing is an RFC 8181 exchange with a publication
server, in the same process or elsewhere, which stages the changes until the next
RRDP update. The modules are cut along these lines: a module that builds on
another takes its guarantees as atomic steps (a command of `ChildCerts`, `KeyRoll`
or `PublicationServer` is one step, which `AggregateStore` and `WalStore` justify,
and where they do not, as for a crash between the save of CaObjects and that of the
events, the module has the crash itself).

## 2. Modules

Each module has the code's state as variables, one action per operation or step,
and comments that name the functions. History variables record what a property
needs to know of the past, and do not restrict the behaviour.

**`WalStore`** (wal.rs, kv.rs), one handle. An instance is the sequence of its change
sets, its revision the length. `snapshot` and `wal` are the files, `cache` the
instance in memory. `send_command`, `add` and `remove` hold the handle's write lock
for their whole duration and are the `writer`; `update_snapshot` holds it only to
read and is the `updater`. Every file operation is a step, a crash can come between
any two, and a file that was created and not yet written is `Torn`.
**`AppendLog`** is the abstract specification: a handle is created, grows by one
change set at a time, and is removed. `WalStore` implements it (`DiskIsAppendOnlyLog`)
with the log that replaying the files gives, so that snapshots, pruning, caching and
restarts are invisible to callers.

**`AggregateStore`** (store.rs, kv.rs), one handle. An aggregate is the sequence of its
events. A command writes its own file, its event files, renames three snapshots and
writes `info.json`, each a step. Start-up either warms the cache or recovers
(`always_recover_data`), file by file as well.

**`PublicationServer`** (pubd/, rrdp.rs). Publishers in two stores, their objects, the
staged elements, snapshot, deltas and serial. Handlers interleave: `publish`
checks, verifies and then applies. An element is a pair of an old and a new hash.
**`RrdpRetention`** has the two truncation functions as operators, which
**`RrdpDeltas`** runs over time, with the ages of the deltas only. **`RrdpFiles`** is what
`write_repository` does on disk: delta files, snapshot, the rename of the notification
file, the removal of old files, then the directories for rsync (`tmp-<serial>` is
written, `current` becomes `old`, `tmp-<serial>` becomes `current`, `old` is removed).
Each is a step at which the write can fail or the server can stop. The scheduled write
and that of a session reset can be under way at the same time; only the part for rsync
has a lock.

**`KeyRoll`** (keys.rs, rc.rs, certauth.rs, publishing.rs, manager.rs). One CA, one parent,
one class at a time: the keys by role, the object sets of CaObjects by role, the
deprecated repositories, what is published where, and what the parent has certified.
`worker` is the task of the scheduler: a synchronisation with the parent is several
requests, of which each request and each answer can be lost, and between which the
operator can act.

**`ChildCerts`** (child.rs, certauth.rs, rc.rs, publishing.rs, manager.rs). A CA as a
parent: the children with their state and entitlements, the issued and suspended
certificates by key, the published ones and the CRL. A request of a child is handled
in up to two commands, between which it can be overtaken.

**`Scheduler`** (mq.rs, scheduler.rs, manager.rs). The queue, the running task, the steps
of `delete_ca`, and how the repository compares with the objects of each CA. Times are
abstracted: any queued task can be next, so the order of tasks is arbitrary.

**`SignedObjects`** (routes.rs, aspa.rs, bgpsec.rs, certauth.rs, rc.rs, publishing.rs). What
the operator has configured, the objects that the class has issued for it, by name, and
those that CaObjects publishes. `Roas::update` with its four modes and two thresholds is
the operator `RoaUpdate`, which gives for each name whether its object is kept, dropped or
issued, and likewise for ASPAs and router certificates. The actions are the commands that
change definitions, the renewals, and what the class goes through: a first certificate,
one with other resources, activation of a new key, removal. Each command can be cut off
by a crash after CaObjects was saved. A behaviour has definitions of one of the three
families (`focus`), which share no state in the code either.

**`Lagosta`** (lagosta/js/app.js, whose sources are in app.js.map). An action is one callback:
what the user does, or the handler of one answer with all that it calls up to its next
request. `stored` is the token in localStorage, `header` the one that `apiClient` sends,
`page` the current route, `calls` the requests in flight. `beforeEach` reads what is stored
when a navigation begins and uses it when the server has answered; a navigation that was
overtaken by another is no longer `pending`, as in vue-router. Any answer can be late, an
error, or carry a new token.

`TypeOK` in each module documents the variables. Section 5 says where it is proved.

The `MC_*` modules give the constants values. Two of them have an extra variable that
says which of two instances a behaviour is about, so that one run asks both questions.
Operators whose comment begins with "Mutant" or describes a mistake are altered forms of the definition that follows
them; they are part of no specification, and serve to show that each property can
be violated by a plausible mistake in the code that it is about.

## 3. Runs

TLC explores every reachable state of these instances. "pass" runs find no
violation; each "violation" run exhibits a disagreement (section 6).

| run | configuration | properties |
|---|---|---|
| `wal_store` | two change sets, three revisions, one removal | `AckedDurable` `CacheCurrent` `CacheMonotonic` `DiskIsAppendOnlyLog` |
| `aggregate` | three commands of up to two events, two crashes | `AckedDurable` `EventsLeadToState` `NothingBeyondState` `ComesUp` |
| `publication` | two Krill CAs, one request at a time; or another publisher with overlapping requests, which sends any delta | `RrdpFollowsPublishers` `DeltasLeadToSnapshot` `DeltasAcceptable` |
| `publication_staged` (violation) | one publisher, one request at a time | `RrdpAlwaysFollowsPublishers` |
| `rrdp` | up to six deltas, ages to 5; or the files of two sessions with three serials | `MaximumUnlessBurst` `ProtectedKept` `OldDropped` `NotificationComplete` `WritesMakeUp` |
| `keyroll` | two repositories, three keys, two entitlements, one removal of the parent, no crash | `ObjectsFollowKeys` `CertifiedWherePublished` `ContentIsTracked` |
| `keyroll_crash` | two keys, one crash | `UsedKeysNotRevoked` `PendingIsCertified` `RollsFinish` |
| `child_certs` | one child with one key, three certificates, two CA keys, two classes | `PublishedIsIssued` `NoneOverclaims` `PublishedNotRevoked` `CertsFollowChild` `WithdrawnIsRevoked` |
| `child_apply` (violation) | the same with one certificate | `EventsApply` |
| `signed_objects` | two ASes, two prefixes, one provider, two routers, two keys, two classes, one crash | `RoasFollowRoutes` `ObjectsFollowDefinitions` `PublishedIsSigned` `UpdateIsStable` |
| `scheduler` | one CA; no bound on requests, failures or restarts | `PublicationPlanned` `RecurringPlanned` `RrdpPlanned` `DeletedIsClean` `PublishedEventually` |
| `lagosta` | two CAs, one token, two requests in flight | `LogoutSticks` `HeaderIsStored` `ShownIsSelected` `LogoutEnds` |

What they show:

- *Stores.* Apart from the cases of section 7, what a command has acknowledged survives every
  crash, wherever it hits (`AckedDurable`, in both stores). The cache of the write-ahead store is what the
  files lead to (`CacheCurrent`) and never goes back (`CacheMonotonic`). With recovery
  at each start, the event files lead to the aggregate (`EventsLeadToState`) and there
  are none beyond it that the next command would collide with (`NothingBeyondState`).
  Krill comes up after crashes during recovery (`ComesUp`).
- *Publication.* At every URI the snapshot with the staged elements is what the
  publishers have (`RrdpFollowsPublishers`). The retained deltas lead without a gap to
  the snapshot (`DeltasLeadToSnapshot`), and a relying party accepts each of them
  (`DeltasAcceptable`). The protected deltas are kept and old ones dropped.
- *Files.* Whichever step of a write fails, or is the last before the server stops, every
  file that the notification file names is there (`NotificationComplete`), and a later write
  that is completed leaves the notification file and the rsync directory as if none had
  failed (`WritesMakeUp`).
- *Keys.* CaObjects, which sees only events, has exactly the sets of the certified keys
  (`ObjectsFollowKeys`). No key in use is to be revoked (`UsedKeysNotRevoked`).
  Certificates point at the repository where their key publishes, and no repository with
  content is lost sight of during migrations. Pending keys get certified and rolls finish
  although requests and answers get lost.
- *Children.* What CaObjects publishes is what the CA has issued, nothing overclaims,
  nothing published is on the CRL, a child that is suspended, removed or revoked has
  nothing published, and what is withdrawn is revoked.
- *Signed objects.* Each route whose prefix the CA holds is in exactly one ROA, however often
  the CA goes from one ROA for each route to one for each AS and back (`RoasFollowRoutes`),
  ASPA objects and router certificates are those of the definitions
  (`ObjectsFollowDefinitions`), what is published is what the CA has, signed by its current
  key (`PublishedIsSigned`), and an update that follows another changes nothing
  (`UpdateIsStable`).
- *Web interface.* No late answer undoes a logout (`LogoutSticks`), the token sent is the
  token stored (`HeaderIsStored`), the details shown are those of the CA selected
  (`ShownIsSelected`), and a logout takes the user from the pages with data (`LogoutEnds`).
- *Scheduler.* Every change of a CA's objects has a publication planned, recurring tasks
  never stop to recur, accepted changes get to RRDP, a deleted CA leaves nothing behind,
  and the repository gets to the current objects.

Bounds, and why they are enough. Each is a named constant of its module.

- `MaxRevision = 3`: snapshot, pruned file, live file and torn file at once, at different
  revisions; a fourth adds only a second pruned one.
- `MaxCommands = 3`, `MaxEvents = 2`, `MaxCrashes = 2`: a command that succeeded, one that
  was interrupted between its events, and one that follows; crashes of the command, and of the
  recovery from it. `MaxCrashes = 3` holds as well, and takes three times as long.
- `MaxSerial = 3`, `MaxNr = 2` deltas: a delta is dropped, a session reset comes with staged
  elements and with deltas, any number of times. Two contents per URI are what an update needs.
  Two Krill CAs with disjoint base URIs, one of them with a single content, or one publisher
  with two handlers. Symmetry exchanges the two contents of each.
- `MaxAge` is above the two ages that matter; older is the same as that old.
- In `rrdp`, for files, `MaxFileSerial = 3` and `MaxSession = 2`: a delta that was dropped, one that
  is kept and one that is new, and the serials of one session used again in the next.
- `MaxKeys = 3`: a roll, and the start of the next. `CleanAttempts = 1` instead of 5: one
  failure before giving up, and one that gives up.
- `MaxCerts = 3`: a certificate, its replacement, and one that follows a suspension. One child
  with one key: children do not share keys, and the code treats keys one by one. The two
  resources are symmetric.
- `Aggregate = Deaggregate = 2` with four routes: both thresholds are crossed, also within an
  AS, and by a change of resources. `MaxKeys = 2`, `MaxClasses = 2`: a key roll, or a class that
  is lost and comes back. Prefixes are symmetric.
- `MaxCalls = 2`, `Links` without the public test bed and onboarding pages, which have no data
  of a CA: an answer can meet any one other request in flight. The user goes on without a
  bound. One token: a request is sent with it, with the one typed in, or with none. Two tokens
  hold as well, and take twice as long. The proofs have none of these bounds.
- One CA in `scheduler`: tasks name one CA, and CAs share only the worker, which any
  queued task can get next. Nothing else is bounded.

Deadlock is checked except for `WalStore`, `AggregateStore` and the two modules of `MC_Rrdp`,
where a bound, or a failed start, stops the system.

## 4. Fairness

- `AggregateStore`: a running process goes on, and one that has stopped is started again.
  Krill is run as a service.
- `KeyRoll`: the worker goes on (weak fairness); the synchronisation with the parent is done
  again and again, since it plans itself again whatever its result (`RecurringPlanned` of
  `Scheduler` shows this); requests that are repeated for ever are answered in the end
  (strong fairness). Nothing is assumed of operators, of the parent's entitlements, or of
  activations.
- `Scheduler`: no task runs for ever, `delete_ca` ends, and every task in the queue gets its
  turn: the queue is ordered by time, and a task that is planned later is behind those that
  are due. A repository that is tried again and again is reached, and manifests are re-issued
  before they expire. `PublishedEventually` is about behaviours in which requests and
  restarts end: a change could otherwise overtake every publication.
- `Lagosta`: every request is answered or fails in the end, kind by kind; the browser sees to
  it. Nothing is assumed of the user, of what the answers say, or of their order.

## 5. Proofs

`WalStoreProofs` proves, for every set of change sets and every bound:

- `TypeCorrect`: `Spec => []TypeOK`;
- `InductiveInvariant`: `Spec => []IInv`;
- `Durability`: `Spec => []AckedDurable`;
- `CacheIsCurrent`: `Spec => []CacheCurrent`;
- `Implementation`: `Spec => DiskIsAppendOnlyLog`, that is, the store implements `AppendLog`;
- `CacheGrows`: `Spec => CacheMonotonic`.

The only assumption is `WalStoreAssumption`: the bounds are natural numbers, the markers for no
instance and for a torn file differ, no marker is an instance, and the one for a torn file is no
change set. TLC evaluates it in `wal_store`.

`AckedDurable` is not inductive: it says nothing of what the threads have in hand. `IInv`
says that, as long as no files of a removed instance were left behind, there is one history
`t` which the files hold (`Holds`: the snapshot is a prefix of `t`, every change set after it
has its file, only the one after the end may be torn) and of which each thread knows a part
(`Knows`: the cache is `t` until a command's file is written, and the command's own copy is
without the last change set after that; the updater has a prefix that is not shorter than the
snapshot, and prunes only below the snapshot).
Each action keeps `t` or extends it by the change set that it wrote. The lemma
`ReplayGivesHistory` says that replaying gives `t` back from any such prefix, so that neither
a snapshot nor pruning changes what a restart loads.

For the refinement the log is mapped to what a restart would load (`DiskLog`), which is `t`
(`RestartFindsHistory`). `IInv` says nothing when files of a removed instance are left, so it takes
a second invariant, `NoneRemoved`: before remove is called there are none, and update_snapshot works for
the instance that is on disk. A step then leaves `t`, or appends to it. `CacheMonotonic` also holds
after removals, where there may be no such `t`; its invariant `CacheOfWriter` is about the cache
alone: it is empty during add and remove, and a command works with the instance in it.

`RrdpProofs` proves, for any limits on the number and age of deltas:

- `AgesSorted`: `DeltasSpec => []DeltasTypeOK`, the ages grow from the newest delta to the oldest;
- `MaximumCorrect`: `DeltasSpec => []MaximumUnlessBurst`;
- `ProtectedDeltasKept` and `OldDeltasDropped`: `DeltasSpec => ProtectedKept`, and likewise `OldDropped`;

and for any publishers, URIs, contents, limits and number of handlers:

- `PublicationTypes`, and `PublicationInvariant`: `Spec => []PublicationInv`;
- `RrdpCorrect`: `Spec => []RrdpFollowsPublishers`;
- `DeltasCorrect`: `Spec => []DeltasLeadToSnapshot`;
- `DeltasAccepted`: `Spec => []DeltasAcceptable`.

`RrdpRetentionAssumption` and `RrdpDeltasAssumption` say that limits and bounds are natural numbers.
(That the minimum time may be beyond the maximum is why `OldDropped` exempts deltas that are still
young.) `PublicationServerAssumption` says that the base URIs of publishers are disjoint, and so are the
contents that belong at different URIs, as the contents of signed objects are. Both loops over the
deltas are `LoopUntil`, of which `LoopFacts` says that they end at the first position at which they
break; `KeptFacts` concludes that what an update keeps are the newest deltas, whatever the limits.
`RrdpFollowsPublishers` is not inductive: it says nothing of the staged elements one by one, nor of the
deltas that were verified and are yet to be applied. `PublicationInv` adds that the objects of a
publisher are its own, at most one at a URI that is not `doubtful` (`PublishersOK`); that a staged element
fits the snapshot, so that the next delta can be accepted (`StagedOK`); that each kept delta leads from
the snapshot before it to the next (`DeltasOK`); and that a verified delta is for its publisher's own
URIs and contents (`RequestsOK`). The lemma `Staging` is the heart: where a delta fits what its publisher
has, folding it into what is staged (`Restage`) leaves an element that fits the snapshot, and RRDP will
serve what the publisher has after it. TLC has checked `PublicationInv` on the instance of
`publication`.

`ServedProofs` is about what is served to the outside: the files, and the web interface. For any number
of sessions and serials it proves:

- `NotificationCorrect`: `FilesSpec => []NotificationComplete`;
- `WritesCorrect`: `FilesSpec => []WritesMakeUp`.

`FilesSpec` is the part of `MC_Rrdp` about files, and `RrdpFilesAssumption` says that there is a session
and a serial. `NotificationComplete` is not inductive, since a write does not write the files of
deltas that the notification file has. `FilesInv` adds that the write under way is for the content
that is stored and has done what its step requires (`Done`), and that the notification file has all
deltas up to its serial that the content still keeps (`Follows`). The lemma `DeltasComplete`
concludes that the deltas taken over and the new ones are those of the content.

`SignedObjectsProofs` proves, for all sets of ASes, prefixes, providers and routers, all thresholds and
all bounds:

- `TypeCorrect`: `Spec => []TypeOK`;
- `RoasCorrect`: `Spec => []RoasFollowRoutes`;
- `DefinitionsCorrect`: `Spec => []ObjectsFollowDefinitions`;
- `PublishedCorrect`: `Spec => []PublishedIsSigned`;
- `UpdatesSettle`: `Spec => []UpdateIsStable`.

It assumes `SignedObjectsAssumption`: the thresholds and bounds are natural numbers, every router
has an AS, sets of routes can be counted, and the markers differ from what they stand beside.
`RoasFollowRoutes` is not
inductive: while the ROAs are exempt (`stale`) it says nothing of them, but the next update
compares with what is there. `IInv` says that the ROAs are at all times those for some set of
routes, all simple or all aggregates without a gap (`RoasFor`), and that this set is the relevant
routes unless `stale`. The lemmas say what `RoaUpdate` makes of such ROAs in each of the four modes,
that renewing keeps what objects say, and that `Apply` takes CaObjects where it takes the CA at
all names that no crash left ahead. The thresholds decide only the mode, so that which routes have ROAs
does not depend on them. `UpdateIsStable` does: `RoasFor` also says that there are few enough routes
where the ROAs are simple, or many enough where they are aggregates, for the next update to stay with
them (`FewEnough`, `ManyEnough`), provided that the second threshold is not beyond the first.

`ServedProofs` also proves, for any sets of CAs and tokens, any pages to go to and any number of requests
in flight:

- `LogoutCorrect`: `Spec => []LogoutSticks`;
- `HeaderCorrect`: `Spec => []HeaderIsStored`;
- `DetailsCorrect`: `Spec => []ShownIsSelected`.

The first two are inductive as they stand. The third is not: it says nothing of the requests whose
answers will be shown. `Awaited` adds that a getCA request that still reaches its page is for the CA
of this page, unless requests race, and that there is one only on the page of a CA.

`SchedulerProofs` proves, for any set of CAs:

- `InductiveInvariant`: `Spec => []IInv`, from which follow
- `PublicationCorrect`, `RecurringCorrect`, `RrdpCorrect` and `DeletionCorrect`, that
  `PublicationPlanned`, `RecurringPlanned`, `RrdpPlanned` and `DeletedIsClean` always hold.

`SchedulerAssumption` says that the marker for nothing is no CA, no running task and no step of
`delete_ca`. `PublicationPlanned` and `RecurringPlanned` need each other and three more facts. The start
task works from a list of CAs that it read before: what a CA that is not on this list needs is planned
already (`ListedOrPlanned`). A SyncRepo that has read the objects sends what they are now, or another one
comes after it (`ReadIsCurrent`). When `delete_ca` removes the tasks of a handle, there is no CA of that
name, or it is one of those that the properties exempt (`TasksOfGone`). `DeletedIsClean` needs that a
repository is clean, or given up, before the CA is dropped (`CleanBeforeDrop`).

`ChildCertsProofs` proves, for any children, keys and resources, and any bounds:

- `TypeCorrect`, and `InductiveInvariant`: `Spec => []IInv`;
- `PublishedIsIssuedCorrect`, `NoneOverclaimsCorrect`, `PublishedNotRevokedCorrect` and
  `CertsFollowChildCorrect`, that the four invariants of `child_certs` always hold;
- `WithdrawnIsRevokedCorrect`: `Spec => WithdrawnIsRevoked`.

`ChildCertsAssumption` says that no two children share a key, that bounds are natural numbers, and that
the markers differ from what they stand beside. The invariants lean on each other: what an update
publishes depends on what the child holds, and what it revokes on what was published. `IInv` adds that
the serial number of a certificate names its key and was given out before (`Numbered`), so that a new
one is on no CRL; that a key that has not strayed has an issued or a suspended certificate, not both
(`OneCert`); that nothing is in use in a class that is yet to come, or by a child that is not known
(`ChildInv`); and that there are no certificates without a class. The lemmas `PublishedAfter` and
`IssuedAfterAt` say what one update does to one key, in CaObjects, where the last of its four parts
counts, and in the CA. With `OneCert` both come to the same, and without it they need not: this is why
`PublishedIsIssued` and `CertsFollowChild` exempt `strayed` keys.

`KeyRollInvariant` and `KeyRollProofs` prove, for any set of repositories and any bounds:

- `TypeCorrect`, and `InductiveInvariant`: `Spec => []IInv`;
- `UsedKeysNotRevokedCorrect`: `Spec => []UsedKeysNotRevoked`, with crashes;
- `ObjectsFollowKeysCorrect` and `CertifiedWherePublishedCorrect`: `Spec => [](crashes = 0 =>
  ObjectsFollowKeys)`, and likewise `CertifiedWherePublished`;
- `ContentIsTrackedCorrect`: `MaxCrashes = 0 => (Spec => ContentIsTracked)`.

A crash in the model is one between the save of CaObjects and that of the events of the CA. After it
the two disagree, so the last three are about executions that had none so far; `keyroll` checks them
under the same condition. `KeyRollAssumption` says that bounds are natural numbers and that the markers
differ from what they stand beside. `IInv` has the shape of `KeyState` and that no two keys are the same
(`KeyInv`). It says of the worker, which holds keys that it read before a request, that what it will
revoke is in no use (`WorkerInv`, `TaskInv`), and that a certificate that is under way fits the pending
key if it gets to it, as long as the entitlements have not changed (`QuietWorker`, `Fits`). Without a
crash the sets of CaObjects are those of the keys, and only the set of the key that is being replaced has
an old repository (`FollowInv`): that is what makes `CertifiedWherePublished` inductive.

The attempt to prove `ContentIsTracked` changed what it says. The task that cleans deprecated
repositories walks over the entries that it read at its beginning (`manager.rs:1469`). There can be two
for one repository, and when the CA gives up on one of them, all entries for that repository go,
also one that was added since and was never tried. That takes more keys than the bounds of
`keyroll` allow. `GivesUp` is therefore about the entry that the task holds, and not about the one in
CaObjects.

Only model-checked: the invariants of `AggregateStore` (`AckedDurable`, `EventsLeadToState`,
`NothingBeyondState`), and all liveness (`ComesUp`, `LogoutEnds`, `PublishedEventually`,
`PendingIsCertified`, `RollsFinish`). Liveness under fairness is out of the prover's reach. Recovery of an
aggregate goes through commands and events of which any may be missing, and has no proof yet.

## 6. Where code and documentation disagree

- `publication_staged`: an object that is updated and then withdrawn before the next RRDP
  update stays in the RRDP snapshot in its old form. `apply_rrdp_staged`
  (`src/pubd/repository.rs:838`) stages a withdraw of the hash that the snapshot never had,
  although its comment says that "withdraws should always remove any staged publishes or
  updates."
- `child_apply`: a child that revokes its key in a class that the CA has lost makes `apply`
  (`src/daemon/ca/certauth.rs:175`) panic, of which `agg.rs:38` says "This MUST not result in
  any errors".

Met while modelling, without a run of their own:

- README.md:395 says "half completed transactions will be discarded on restore", but
  `warm_aggregate` (`src/commons/eventsourcing/store.rs:191`) applies the events of an
  interrupted command before it archives them, so that the first of them stay in the
  aggregate. `EventsLeadToState` and `NothingBeyondState` are for starts with recovery.
- `scheduler.rs:318` says "just keep trying" of an RRDP update that failed, but when it is the
  writing that failed the retry finds nothing staged, and does not write (`pubd/manager.rs:190`).
- A comment of App.vue says "Ensure the top bar reflects the current (not) logged in state.", but
  the event is emitted where nobody hears it: after a failed logout the top bar shows the user.

## 7. Deviations that the properties name as exceptions

In these cases the code leaves a property's path. The models have them; a history variable,
or a condition in the property, names them, and the property is checked for all else.
The hazards in PROJECT.json say where in the code each begins.

- *WAL*: a snapshot update that overlaps a removal stores its snapshot after it, and the
  instance is back after a restart (`leftover`).
- *Aggregates*: a command file of a refused command, whose number is used again, misleads
  recovery; a start without snapshot gets no further than an event file that was archived
  (`strayed`); a torn init event prevents every start (`ComesUp`).
- *Publication*: two overlapping requests of one publisher are both verified before the first
  is applied; creation and removal of a publisher can overlap; a staged
  update is replaced by a withdraw (section 6). The URIs are `doubtful` from then on. The maximum number
  of deltas does not hold after a burst (`burst`).
- *Files*: two writes at the same time can leave a notification file that names files which are
  gone, and later writes of the session trust it (`crossed`); a crash or an error before `old` is removed
  leaves it there, so that `current` can no longer be renamed and rsync stays as it is until
  `old` is removed by hand; a write that failed is made up for only by the next publication
  (`failed`).
- *Keys*: a certificate that the current key needs during a migration gets the URIs of the new
  repository; a crash between the saves of CaObjects and of the CA can leave a roll that never
  finishes, or lose a migration's old repository; a CA without class forgets the repository it
  leaves; a class added for entitlements of a parent that was removed meanwhile is never
  certified; giving up on a deprecated repository also forgets a later deprecation of it (section 5);
  the staging time is measured from the creation of the class.
- *Children*: an unsuspended certificate stays on the CRL, since the revocation to remove is
  compared by time as well (`woken`); suspended certificates of a removed child stay, and a
  request that is overtaken by a suspension leaves an issued and a suspended certificate for
  one key, on which the CA and CaObjects then disagree (`strayed`). A certificate without
  resources can be issued.
- *Signed objects*: activating a key with other resources than the old one signs all objects again
  as they are; an ASPA definition that is removed and added in one update is gone, and its object
  stays, if the providers are the same, and makes `apply` panic if they are not
  (`aspas_definitions_update` asks the definitions from before the update, `certauth.rs:1845`)
  (`stale`). Objects that CaObjects saved before a crash are published although the CA has not issued
  them (`ahead`). With a deaggregation threshold beyond the other, which the configuration accepts,
  every update goes from one kind of ROAs to the other.
- *Web interface*: the answer for a CA that was selected before is shown as that of the current one
  (`racing`); a logout answered on the interstitial page stops a navigation that waits there, and leaves
  the page empty (`Ended`); a new token of an earlier session replaces that of a later login; a guard
  that was overtaken still ends the session.
- *Scheduler*: `delete_ca` leaves CaObjects, so that its objects are re-issued for ever and
  come back with a CA of the same name (`leftover`); a running task of a deleted CA, or for a
  removed parent, plans itself again for ever; a synchronisation that has read its elements
  publishes them after the clean-up, and a failed clean-up is not repeated (`uncleaned`); a
  CA made anew before `delete_ca` is done loses its tasks (`raced`); a manifest can be
  re-issued without a publication being planned (`quiet`); with many CAs no publication is
  planned at a start, and a CA left without objects then keeps the published ones; staged RRDP
  changes have no task after a restart (`unnoticed`); the check for inactive children is not
  planned for CAs made after the start (`born`); a CA that is deleted while the start tasks are
  planned stops the server; RRDP files that could not be written are not written again before
  the next change.

## 8. What is not modelled

Cryptography, encodings and messages: a certificate, manifest or message is what the
properties tell apart. Times, except where a guard compares them. Errors of single file
operations other than crashes, except in `RrdpFiles`. Several parents, or several classes at a
time, of one CA. Input and output (API, HTTP, CLI, configuration). And of the parts of section 1:

- *Status store*: what it says decides which children are suspended. The models let any child be
  suspended at any time, and so do not depend on it.
- *Upgrades*: they run once, before any of the parts here, on the data of an old release. A stop between
  the moves of directories with which they end is listed as a hazard.
- *Signers and authentication*: what can go wrong depends on devices and services outside of Krill.
  In `Lagosta` the server may answer anything; in the other modules a key signs what it is asked to.
- *RTA, BGP analysis*: nothing else depends on them. The analysis is a function of its inputs.
- *Trust anchor*: a CA without parent; as a parent it does what `ChildCerts` has.
- *Lagosta*: what pages show beside the details of a CA, and the forms. The bundle is a minified
  file in which all of the application is on line 130, so that the map from definitions to
  lines cannot be finer than that line; the rest of its lines are libraries.
