# LamaSync: a TLA+ verification project

LamaSync keeps folders of several machines in sync or backed up through rclone
and restic. A **server** (packages/server) keeps the configuration and all
coordination state in SQLite; a **daemon** on every machine (packages/daemon)
runs the transfers; a CLI, a web UI and an Android **companion** talk to the
server. This project models the coordination protocols between them, checks them
with TLC on small instances and proves what matters most with TLAPS.

Contents: [inventory](#inventory), [plan](#plan), [modules](#modules),
[runs](#runs), [bounds](#bounds), [fairness](#fairness), [proofs](#proofs),
[where the code and its own words disagree](#findings),
[what is left out](#left-out).

## Inventory

`PROJECT.json` lists every component with its sources and its status (modelled,
partly, not modelled), and under `hazards` what is hard to test, at the line where
it bites. In brief:

| Component | State | Hard because of | Correct when | Module |
|---|---|---|---|---|
| Destination lock (`routes/operations.ts`, `lock.ts`, `runLocked`) | row of `folder_locks` per destination; in-process `activeLocks` | late requests, retries, TTL, crashes, edits of the destination | one writing host per destination while its row stands; no live row is stolen; orphans are freed | `DestinationLock` |
| Action queue (`routes/actions.ts`, `pollActions`) | `queued_actions` with leases, in-flight set of the daemon | a GET that claims and is retried, lost acks, restart by an action | one outcome and one audit row; run again only when that is owed | `ActionQueue` |
| Report queue (`report-queue.ts`) | a JSON-lines file | a flush awaits between read and rewrite | bounded; what it holds at rest is delivered | `ReportQueue` |
| Seed jobs (`seed-jobs.ts`, `seed-runner.ts`, `seed-lease-supervisor.ts`) | job row with phase, lease and facts | two hosts, stages longer than the lease, cancellation | completed means published; a side at work is not reaped; jobs end | `SeedJob` |
| Seed archive and relay (`seed-archive.ts`, `seed-transport.ts`) | source tree, archive, relay objects, target | edits during packing, users of the target, failures | what is published is a state of the source; no user file is lost | `SeedArchive` |
| Seed pilot gate (`seed-pilot.ts`) | pilot, probes, jobs | verdicts of probes that arrive after a rotation | a seed runs only through a bucket both hosts proved | `SeedPilot` |
| Mount switch and mounts (`switchToMount`, `mounts.ts`, `systemd.ts`) | mode, local files, trash, unit, children | several steps that can each fail, trash on disk, timer in memory | some place keeps each version; the mount follows the config | `MountSwitch` |
| Config registry (`config-revision.ts`, `routes/*`) | rows, revisions, pauses | a bump before or after the write it belongs to | a revision names one config | `HostConfig` |
| Config refresh, scheduler, folder watch | cached config, timers, debounce state | overlapping refreshes, clamped timers, changes during a run | newest config, no early run, no change lost | `FolderTriggers`, `FolderRuns` |
| Executor and bisync baseline, keyed mutex, interventions | listing pair, filter fingerprint, marker | recovery after half-done steps | no stale listings; no seed over local files | `Bisync` |
| Folder health (`folder-health.ts`) | last report per assignment | late, lost and overtaken reports | what is shown belongs to the assignment and converges | `FolderHealth` |
| Mobile uploads (`mobile-uploads.ts`, `UploadWorker.kt`) | rows, staged and published files, queue item | idempotency, crash between rename and commit, versioned names | published once; DONE means published; it settles | `MobileUpload` |
| Automatic protection (`MediaDiscoveryEngine.kt` ...) | records, cursor, watermark | two lanes, edits during an upload, process death | protected means uploaded; visible rows become protected | `AutoProtect` |
| Enrollment, mobile sessions (`mobile-store.ts`, `CompanionRepository.kt`) | enrollments, tokens, sessions, sockets | rotation against exchange, cleanup retried after a new pairing | nothing revoked is live; a newer pairing is spared | `Enrollment` |
| Pairing and host identity (`routes/pairing.ts`, `hosts.ts`) | codes, keys, host rows, rows that name a host | two exchanges, expiry, renaming, deletion under a running daemon | one key per code, distinct names of computers, what names a host follows its id | `HostIdentity` |
| Browse jobs (`browse-jobs.ts`) | job rows, guards, size cache | rclone outlives the server, guards by exact path | one writer, nothing moved is lost, sizes not older than a write | `BrowseJobs` |
| Server deploys (`routes/server-deploys.ts`, deploy-agent) | deploy rows, agent | the recorder is restarted by what it records | a deploy ends with one outcome | `ServerDeploy` |
| Live progress (`live-progress.ts`, both) | reporter, registry in memory | sends that end out of order | what is observed is sent, what ended leaves | `LiveProgress` |
| Web UI, CLI, Android screens, LAN peer, local socket, retention, snapshots, apps, notifications, scripts | | | | not modelled, see [Left out](#left-out) |

How they interact. A daemon polls the server for actions and sends heartbeats;
both are request and answer over HTTP with a client timeout of 30 s, after which
the server may or may not have carried the request out. A run takes the
destination lock, transfers under a 30 s heartbeat, releases the lock and posts a
report, which goes to the report queue when the server cannot be reached. Actions
start most of what is not scheduled: syncs, refreshes, updates, interventions and
the two halves of a seed job. Every write of the operator bumps the revision of
the hosts it concerns, which is how daemons learn to fetch. On the daemon
everything runs on one event loop, so the atomic steps are the stretches between
two awaits; on the server a handler that stays on SQLite is one step, and one that
awaits a child process, a file or a bucket is several.

## Plan

Modelled and checked: everything the table names a module for; proved: every safety
property of the runs.

Next, in this order:

1. Models: the restore jobs of restic snapshots and the retention sweep, which
   share rows with the action queue; app snapshots against an upload in flight.
2. Proofs: the safety of these.

## Modules

An abstract specification stands above a detailed one in one place: `FolderRuns`
says what the daemon promises of the runs of a folder (they do not overlap; a
change is followed by a run that begins after it), and `FolderTriggers` is shown
to implement it through `Promise == INSTANCE FolderRuns WITH ...`, a run being the
head of the mutex' queue.

**Composites.** Runs are few and questions many, so protocols that share no state
are put side by side in one module, `MCTransfers`, `MCDelivery`, `MCFolders`, `MCFleet`,
`MCJobs`, `MCServices`, `MCCompanion` and `MCLockLiveness`. Its variable `part` is
chosen once and names the protocol that runs; the others keep their initial state.
State spaces add up in place of multiplying. An interaction between the parts of
one composite is thereby not explored; each part contains its own environment
(requests in flight, crashes, the other hosts).

**DestinationLock.** `folderLocks` is the table by destination key, a row being
`[by, age, id]`; `age` stands for the time since `acquired_at`. `dbKey` is the
key the server derives from its assignment rows, `cfgKey` the one the daemon
derives from its cached config, so `EditDestination` and `RefreshConfig` let them
differ. `phase`, `tries`, `runKey`, `lockId` and `aborted` are the local
variables of a run (`acquireLockWithRetry`, `runLocked`), `activeLocks` the
module-level map of lock.ts. Requests are in `acquires` and `releases`;
`AcquireTimeout`, `ReleaseReturns` and `Crash` may leave them there unattended.
`AcquireAttempt` tests the in-process guard before the request and
`AcquireGranted` sets it after the answer, as the code does. `switching` are the
assignments whose mode is being switched, under a lock of which no run knows; its
releases are in `keyless`. `exposed` is a history variable for `CrossHostExclusion`.

**ActionQueue.** `status`, `leaseAge`, `created` and `logged` are the table and
its audit rows. A *loop* is one invocation that drains claimed actions: `boot` is
the reclaim at start-up, the others are calls of `pollActions`. `stage`, `batch`
and `current` are its progress. `PollRetry` is the API client repeating the GET
that claims. `fresh` is a history variable for `RerunsAreOwed`.

**ReportQueue.** `file` is the queue file, `lines[f]` what flush `f` has read and
not yet sent. A flush is a series of steps, one per send, that ends with the
rewrite of the file.

**SeedJob.** `phase`, `owner`, `age` and `facts` are the row; `relay` and
`published` are what is in the bucket and on the target. Each side's run is
`pc`, `at` and `latched`; a run goes `entering`, `asked`, `working` through its
phases, and through `checking` and `acting` where the code verifies its authority
before something irreversible. An action whose ack is lost, or whose daemon
crashes, is run again, as the action queue does. Every failure draws on `MaxFaults`.

**SeedArchive.** The bytes of a seed: the walk that makes the manifest path by
path, the tar that reads later, the comparison after it, upload, download,
extraction, verification, the three steps of `publishStagedTree`, the resync that
validates. A path is a directory with one file; a content is a version number; what
a stat shows may survive an edit.

**SeedPilot.** The operator's writes, the probe that reads its target, awaits and
records a verdict for what it read, the rotation of keys that invalidates it, the
admission of jobs and the relay space in each host's config.

**MountSwitch.** `local`, `remote` and the trash directories `bins` map each file to
the edit that wrote it. `switchToMount`, `switchToSync`, the reconcilers, the
systemd unit and the plain rclone child are actions with a program counter; the
user edits whatever is visible at the path.

**HostConfig.** Each write of a route is one action that stamps what it wrote and
bumps hosts; a config is equal to another exactly when it is made of the same
writes. `served[h]` is what the daemon of `h` last fetched. `bumps`
holds the requests that have written and not yet bumped.

**HostIdentity.** Codes, keys, `client.toml` and host rows; `Rename` changes
the name first and the id when the daemon registers under it. The tables that name a
host are two sets of ids: `configured` (assignments, protections), which a deletion
takes away, and `trail` (actions, log, conflicts, restic rows, events, lock holders),
which it leaves. `left` is a history variable: the ids whose trail belongs to no host
since a deletion or a report.

**FolderTriggers.** `history` are the configs the server gave out, `hostConfig`,
`cacheFile` and `applied` the three copies that can differ, `timers` and `slot` the
scheduler, `ctl` the watch controller, `queue` the folder's `KeyedMutex`. Delays are
counted in ticks with `MaxDelay` for the 32-bit limit of one timer.

**Bisync.** `dir` is the workdir (listing pair, the rules it was made `under`, the
fingerprint `fp`, the `marker` of a pending forced resync), `run` the run that holds
the mutex, `plan` and `ask` an intervention on its way. rclone is external: a clean
exit leaves the pair of what it was given.

**FolderHealth.** Facts change, a daemon probes and sends, reports travel, the
server keeps the last accepted one per assignment and derives the state.

**MobileUpload.** `item` and `copy` are the phone's queue row and staged bytes,
`work` the worker, `net`, `srv` and `reply` a request on its way, in a handler and
answered, `row`, `stage`, `obj`, `hist` the server's rows and files per name. An
automatic item that collides goes on to its next versioned name; the attempt number
stands for name, key and path.

**AutoProtect, Enrollment, BrowseJobs, ServerDeploy, LiveProgress** are described
in their headers; each has one action per handler or per stretch between awaits.

A definition called "A mutant" or "Mutant of X" is not part of the model: it is a
plausible bug in the code X stands for, kept to show that the property it is paired
with in `PROJECT.json` notices it.

## Runs

| Run | Module | Asks |
|---|---|---|
| `transfers` | `MCTransfers` | With crashes, retries, late requests and a mode switch, do two hosts ever transfer into one destination without one of the causes `exposed` records (`CrossHostExclusion`), or is a live row taken over (`LockKept`)? Is a published seed a state of the source (`SeedIsSnapshot`), and does its publication lose a file of the target's users (`PublishSparesFiles`)? Does bisync ever use the listings of one set of rules under another (`RulesKept`), acknowledge rules its pair was not made with (`AcknowledgedIsListed`) or overwrite the approved side (`SeedKeepsLocal`)? |
| `lock_liveness` | `MCLockLiveness` | Are orphaned rows freed, and does a run whose row no longer covers its destination end? |
| `folders` | `MCFolders` | Does some place keep each version through a switch to a mount and back, and does the mount follow the config? Is the health shown the assignment's own, and does it converge? |
| `fleet` | `MCFleet` | Does a revision name one config (`ConfigSafety`)? One key per pairing code, distinct names of computers, no configuration of a host that is gone, and no record lost by a move to a new id (`IdentityHolds`)? Does a seed run only through a proven bucket, one per pair? |
| `jobs` | `MCJobs` | One audit row per action, restarts only after their update is recorded, no execution that nobody owes; one writer of a destination, no size older than a write, nothing moved is lost; whatever is accepted gets an outcome |
| `services` | `MCServices` | A completed seed is published, a side at work is not up for reaping, a seed ends; the report file is bounded and delivered; a deploy ends with one outcome; progress is sent, kept within its cap and cleared |
| `delivery` | `MCDelivery` | An upload is published under one name, DONE means published, and a transfer that began settles; a folder's lost or refused baseline comes back |
| `companion` | `MCCompanion` | Protected means uploaded, visible media comes to be protected; nothing of a revoked device is live, cleanup spares a newer pairing |
| `triggers` | `MCFolderTriggers` | One tracked timer, no trigger of an older config, no early cron, the newest config is reached, `FolderRuns` is implemented |
| `no_rules` | `Bisync` | ends in a violation, see [Findings](#findings) |
| `switch_back` | `MountSwitch` | ends in a violation, see [Findings](#findings) |
| `partial_access` | `AutoProtect` | ends in a violation, see [Findings](#findings) |

Each run finishes within three minutes on two workers.

## Bounds

*Locks.* Two hosts are enough for every conflict, since each rule compares the
caller with one row, and two lock ids let a late release of an earlier run, or the
handle of a run whose id was replaced, meet the row of a later one. A TTL of two ticks
tells "fresh", "about to lapse" and "lapsed" apart; one is enough for liveness. Two
attempts give a retry. One assignment may be switched (`Switchable`), in
`transfers`; edits of destinations, which `Retargets` bounds, are in
`lock_liveness`. Several assignments of one host with one destination are left to the
theorems, which speak of any number of them.
*Seed files.* Two paths, so that one is read before and one after an edit; two edits;
one file of the target's users; one fault.
*Folders.* Two files, one reconciler beside the switch, two edits, two changes of the
config, one fault. Two assignments in succession and two reports in flight let a
report meet another assignment than its own.
*Fleet.* Two hosts (one watched by a daemon), a folder and three writes reach every
pair of a write and a bump around a fetch. Two machines and two keys contend for a code, and
the phone may enroll under the name of a computer. Two probes and a rotation let a verdict arrive for what is no longer there.
*Jobs.* Two actions give a batch with one waiting behind the other, two polls the
overlap that `pollingActions` excludes. Two browse jobs over two directories and two
names meet in a source, a destination and the full one.
*Services.* A seed has its two sides, a lease of two ticks and a grace of one. Three
reports with a limit of two reach the trim; two flushes overlap. Three deploys exceed
the history of two. Two runs exceed a registry of one.
*Uploads.* One chunk, one versioned name beyond the first, one fault. The theorems say
the same for any of these; the inductive invariant was also model-checked with two
versioned names.
*Companion.* One row, two lanes, two revisions and two events of the user; two
enrollments and two web sessions.
*Bisync.* Two sets of rules and the empty one (in `delivery` and `no_rules` one and the
empty one), two versions, one retry, one fault; `no_rules` needs no fault and no retry.
*Triggers.* Two revisions, a second fetcher beside the heartbeat, two changes, a queue
of two, an occurrence two timer limits away, one fault.

`MaxFaults` and its kin bound crashes, lost requests and failed stages together: one
or two lets a fault strike, in most modules, the recovery from the first; the small
report queue affords four. All other constants of a `.cfg` that begin with `Max` bound
a counter of the environment.

Where time matters, `Timely` states the code's own margin (a renewal ten times per
lease) as a guard of `Tick`, in the seed jobs; the run of the action queue drops it, and
the lock has no such guard: its heartbeats may stay out for a whole TTL.

Deadlock is checked in `lock_liveness`, `triggers` and `switch_back`.
Elsewhere the system may stop: a seed, an upload, a deploy or a job ends, and the
bounded environment runs out.

## Fairness

Only what the code keeps doing is fair: the event loop finishes what it started
(every await ends by the client's timeout), timers fire, the service manager starts
the daemon, the server answers, time passes. Crashes, losses, edits, cancellations and
new work need not happen; a transfer must end only once it is aborted. The reaper of
seed jobs is fair because it runs in the server's daily timer; a server that is
restarted more often than that never reaps. Strong fairness stands in two places, for
an attempt that is repeated for ever and may succeed each time: the delivery of a
health report among reports that may be lost, and the upload of a staged item, which
an edit may withdraw and stage again. A composite states the fairness of each of its
parts for the behaviours in which that part runs.

## Proofs

| Theorem | Statement | Assumes |
|---|---|---|
| `TransfersProofs!TypeCorrect` | `Spec => []TypeOK` | |
| `TransfersProofs!LiveLockKept` | `Spec => LockKept` | |
| `TransfersProofs!Exclusion` | `Spec => []CrossHostExclusion` | |
| `TransfersProofs!PublishedSeedIsSnapshot` | `TransfersSpec => []SeedIsSnapshot` | |
| `TransfersProofs!PublicationSparesFiles` | `TransfersSpec => PublishSparesFiles` | |
| `TransfersProofs!RulesNotMixed` | `TransfersSpec => []RulesKept` | |
| `TransfersProofs!AcknowledgedListed` | `TransfersSpec => []AcknowledgedIsListed` | |
| `TransfersProofs!AuthorityKept` | `TransfersSpec => SeedKeepsLocal` | |
| `FoldersProofs!FoldersSafe` | `FoldersSpec => []FoldersInvariant` | |
| `FoldersProofs!LastCopyStays` | `FoldersSpec => LastCopyKept` | |
| `JobsProofs!ActionAuditedOnce` | `Spec => []AuditedOnce` | |
| `JobsProofs!RestartOnlyRecorded` | `Spec => []RestartIsRecorded` | |
| `JobsProofs!ExecutionsOwed` | `Spec => RerunsAreOwed` | |
| `JobsProofs!JobsSafe` | `JobsSpec => []JobsInvariant` | |
| `JobsProofs!MovesKeepFiles` | `JobsSpec => MoveLosesNothing` | |
| `ServicesProofs!QueueStaysBounded` | `Reports!Spec => []Reports!QueueBounded` | `LimitsAssumption`: the limit is positive |
| `ServicesProofs!CompletedSeedIsPublished` | `Spec => []CompletedIsPublished` | no operator declares the job completed |
| `ServicesProofs!HealthyJobNotReaped` | `Spec => []HealthyNotReaped` | `Timely` |
| `ServicesProofs!ServicesBounded` | `ServicesSpec => []ServicesInvariant` | `TimeoutsAssumption`: script and health check fit in `STALE_RUNNING_MS` |
| `FleetProofs!RevisionsNameConfigs` | `Spec => []ConfigSafety` | |
| `FleetProofs!IdentitySafe` | `FleetSpec => []IdentityHolds` | |
| `FleetProofs!SeedAuthorized` | `FleetSpec => []SeedIsAuthorized` | |
| `FolderTriggersProofs!TimersTracked` | `Spec => []Inv` | |
| `FolderTriggersProofs!ConfigRules` | `Spec => TriggersFollowConfig` | |
| `FolderTriggersProofs!CronNeverEarly` | `Spec => NeverEarly` | |
| `FolderTriggersProofs!RunsImplementPromise` | `Spec => Promise!Init /\ [][Promise!Next]_(Promise!runVars)` | |
| `MobileUploadProofs!UploadPublishedOnce` | `Spec => []UploadInvariant` | |
| `MobileUploadProofs!DoneMeansPublished` | `Spec => []DoneIsPublished` | |
| `CompanionProofs!ProtectedUploaded` | `CompanionSpec => []ProtectedIsUploaded` | |
| `CompanionProofs!OneGrantKept` | `CompanionSpec => []CompanionInvariant` | |
| `CompanionProofs!PairingKept` | `CompanionSpec => []PairingHolds` | |

All hold for every value of the constants allowed by each module's named assumptions,
which TLC evaluates in the runs. In a composite a step of one protocol leaves the
variables of the others, so its invariant is the conjunction of theirs.

*Exclusion.* The property speaks of two runs; the row connects them. The code does not
keep them apart in all circumstances, so the history variable `exposed` records the
transfers that met one of four: a whole TTL passed without their heartbeat (`Tick`), the
server granted them the row of another key than they write to (`ServeAcquire`), a
release without an id reached their row (`ServeRelease`, `ServeSwitchRelease`), or
another run of their host, whose acquire had replaced the id, released it. The
property says that nothing else lets two hosts overlap, and its inductive invariant
`ExclusionInv` that the row of every run in transfer that is not exposed is its host's and
has not lapsed (`TransfersGuarded`): then two such hosts would both own the one row. To
keep that, it builds on the invariant of the next theorem.

*LiveLockKept.* Here the run's row need not be the one of its destination. What is
left is the handle: a row passes to another host only when it is released, and while a
run transfers under its id only a release that names none can free it (`ServesIdless`: a
boot's that its daemon has given up, or a switch's). `HandleInv` says that an id belongs to one run (`IdsDistinct`), that
the row which carries it is that run's host's (`RowsOfIds`), that no release on its way
carries it while the run transfers (`NotReleased`), and, through `RunInv`, that a run in
transfer has an id and that a daemon waits for a release without one only at boot. `FreshIds`, the
UUIDs nobody refers to, keeps the first of these.

*PublishedSeedIsSnapshot, PublicationSparesFiles.* The walk hashes one path after the
other and tar reads them later, so neither sees one moment, and the argument needs one
that both agree on: it is the start of tar. `PackedAsHashed` says, while tar runs, that
one tree of the past holds every file that tar has packed, or would pack now, as it was
hashed; a file edited since has a version no hash knows, so it can only leave that set.
`Sound` is what remains of it at the end, and it is carried as it stands: from the upload
(`UploadsSound`) to the recorded facts (`FactsSound`), through the digests to what the
target downloads (`DownloadsRecorded`), and to the staged tree, which once verified is
both the archive and the manifest (`StagedFromArchive`). A completed seed rests on
`PeerSynced`, that the remote holds what the source synced, up to the verdict
(`SettledOnPast`). No step before the resync touches a target that holds a user's file
(`publishStagedTree` renames only over what rmdir has removed), which takes no more than
`TargetStands`.

*LastCopyStays.* The steps of the switch, of the reconciliations, the unit and the
timers do a handful of things to files and trash, whatever they do to the mount
(`FileStep`): leave them, hand the trash to the purge timer, restore it, run, fill it,
purge, crash, edit. `LastEditLocal` is the reason no copy is lost: the last edit of a file
made in the directory is there or in a trash, and a trash that may be restored holds
nothing else of that file; otherwise a restore after a failed start would put an old
version over it. A merge keeps it because what is listed is at the destination
(`ListedIsRemote`), so no file of the directory is taken for one removed there, and
because nothing is younger than the last edit (`NewestLast`). `BinOfStart`, a trash that
may be restored belongs to a switch that starts its mount, needs where every task is, so
the control is part of the invariant.

*FoldersSafe.* Of the health, `RowOfFirst` says that a row belongs to the first
assignment of its host, which removing all of a host's assignments takes away with it,
and `OwnedWereMade` that a new assignment is nobody's first while another exists.

*ActionAuditedOnce, RestartOnlyRecorded.* A restart follows from what a loop of the
daemon saw, the outcome is in the server's table. `QueueInv` ties them: an ack
somebody waits for is the only one of the action its loop executes (`AckAttended`,
`OneAck`), so a loop whose ack was answered executes a settled action (`Recorded`),
and settled actions stay settled. That a daemon that is down has no loop under way
(`DownIdle`) keeps the boot reclaim from meeting an ack of the process before it.

*ExecutionsOwed.* An action is executed when a loop comes to it, long after it was
claimed. `OwedInv` adds to `QueueInv` that the loops of a host take turns (`Alone`),
which rests on the boot reclaim working only before the first poll and on
`pollingActions` being set for as long as a poll is at work (`Gated`). So whoever is
handed an action finds none of the host's in flight, and an action that is neither in
flight nor settled is owed (`OwedRest`, with `Recorded` for the acks that were
answered); it stays owed in the batch (`OwedBatch`), since no other loop holds it. The
leases play no part: a row that is reaped under a running action and claimed by a
request nobody waits for is executed by nobody.

*JobsSafe.* That the destinations in memory are those of the jobs at work, each of one
job (`Guarded`), keeps both writers apart and a release from freeing another's guard. A
size is measured and cached in two steps, with writes accepted, ended and left behind by
a dead server in between: `Measurements` says of a measurement of a quiet directory that
no process of a dead server is writing there, and that it stands (`Standing`: no writer,
and what was read is still there) as long as no write was accepted, which the generation
tells. `OrphansUncached` covers the end of a process nobody watches: where one may still
write, no size is cached that claims to be of a quiet directory. A job raises the
generation by two at most (`Numbered`), which bounds it.

*MovesKeepFiles.* `MovesInv` says of every entry a move has copied, and of all of them
once it drains, that source and destination hold the same, the source is gone, or
another job's write was noted.

*QueueStaysBounded.* A flush writes back what it read long before, so the invariant
also bounds what every flush holds.

*CompletedSeedIsPublished.* The fact travels from the rename through the run's phase
and its request to the row, so `SeedInv` says of each that it implies publication. A
run reaches the phase after publication only from the publication, which needs that it
knows its phase whenever it works, which in turn needs that an answer reaches only the
run that waits for it: `Attended` and `OneAnswer`.

*HealthyJobNotReaped.* `LeaseInv` adds to that: a side at work owns a live lease and it
is its turn (`Work`), each side asks only for phases of its own (`Sides`), a progress
request is about the phase its sender is in (`Asked`), and a source that is done with
its upload, or whose archive report nobody waits for any more, has no way back to
earlier phases (`Uploads`, `Archives`). The last two are why a late archive report,
which hands the job over, never takes the lease from a source that started again.

*ServicesBounded.* For the deploys `DeployInv` says that a job at work was claimed no
longer ago than the agent has been busy with it (`OwnClaim`), which the timeouts keep
below the age of reaping (`InTime`), and that at most one job is active (`OneActive`):
so neither the reaper nor another claim can come between. For live progress the type of
`flight`, one send of a state at a time, is the hard part; `SentOnce` says that a state
which was put off, or which nobody has seen, is in no send. A run that
comes into the display raises its count by at most one, and then the least one leaves.

*RevisionsNameConfigs.* The strengthening is `ServedBound`: what a daemon holds has a
revision the row has reached, and the row is there. Then any bump makes it outdated,
and what remains is that each write bumps every host whose config it touches, one
lemma per table. It is what allows `FolderTriggers` to use a revision as the name of a
config.

*IdentitySafe.* The exchange claims the code before it mints the key,
and a claim that fails later does not give it back; `MintedUsed` says that a code some
key was minted from is `used`, which nothing undoes, so the sweep never meets it. A
name that is free (`NameFree`) is nobody's label or id, so a renaming adds a label of one
row, and a registration under a free name moves one row to it. Phones may enroll under
any label, which the code compares with nothing, so `NamesDistinct` speaks of the labels
that no phone uses; see [Findings](#findings). Assignments and protections go with the
row in a deletion and in a move (`ConfigOwned`). Other records stay under a deleted id
and are reported under one whose daemon still runs; `left` notes these ids, and
`TrailFollows` says that every other record names a host that is there: the move to a
new id forgets none.

*SeedAuthorized.* A probe's verdict is recorded only over the revision it was started
for, so a ready verdict of an enabled pilot is one that `passed` for what is written
(`ReadyPassed`), and a write keeps a verdict only of a pilot it disables. What a job was
issued was proven for its pair (`IssuedProven`); an eligible pair's live job has been
issued the space of now (`IssuedNow`), through which a config that is fetched, or a side
that starts, gets only what its job was issued (`SpacesIssued`, `SidesIssued`). That a
pair has one live job is what lets a config name the job it is for.

*FolderTriggers.* The three trigger properties are about the step that starts a run, so
`TriggerInv` describes the state in which a trigger waits: the one live timer is in the
scheduler's map, belongs to the config in force, which enables it, and counts down with
the cron (`TimersFollow`); a watch controller exists only under an enabled config
(`WatchFollows`); a run whose end a controller awaits has a controller (`OwnedRuns`).
The same invariant makes every step a step of `FolderRuns` or a stutter. That the
promised run does begin (the fairness of `FolderRuns`) is `PromiseKept`, which TLC
checks.

*UploadPublishedOnce, DoneMeansPublished.* The reason an intent is published once is
that a name is tried only when every earlier name is somebody else's (`NamesTried`):
of the queue item, the worker, each request on its way and each row. Then of two own
files the later name contradicts the earlier. It needs that a collision is only
answered when the name is taken (`CollisionReal`), that the worker has one call under
way, about the name it is at (`Calls`), and what rows, handlers and files say of each
other between the rename and the commit (`Placed`: `Held` for a handler in the middle,
`Backed` for what is at rest). `Receipts` carries the finalized row through the answer
to the item.

*Bisync.* `Listings` says that a fingerprint on disk is that of the pair beside it
(`Acknowledged`), that a run which found the rules changed has set the fingerprint
aside (`RunKnowsFilter`), and of each stage of a run what pair it may meet
(`PairUsable`, `PairMade`, `RerunClean`). It follows that two sets of rules are never
taken for each other (`RulesKept`). The code computes no fingerprint for an assignment
without rules, so that the empty set is the exception, and the stronger `FreshListings`
is false; see [Findings](#findings). `AuthorityKept` needs that the recovery
keeps the side that was approved (`LocalWins`).

*ProtectedUploaded.* A lane writes whole records back that it read long before, over
what the other lane and the completions have written since, so nothing follows for the
registry alone. `Sound` says of every copy of a record (in the registry, in a worker's
snapshot, among what it found, in a completion between its two locks) that it is no newer
than the row, that the item it waits for is no older than it, and that what it calls
protected is on the server; rows only get newer and the server only gets more, so a copy
stays sound however long it is held. A worker's list holds only records that wait for
protection (`WorkerSound`), since staging a protected one anew would name bytes that are
still to be uploaded.

*OneGrantKept, PairingKept.* A live grant and the token of a registered host name each
other (`GrantsInv`); an enrollment has the authority of the host's own one (`HostsInv`),
which a reconnect reads off the one live grant. Sockets belong to sessions of live grants,
and every transaction that takes a grant closes them. On the app a code is exchanged only
without an unconfirmed removal, which `Confirm` establishes and no step undoes while the
exchange runs (`AppInv`); so what is stored then is never what a retried cleanup erases.

Only model-checked: all liveness properties, with the fairness part of `PromiseKept`
(the prover has no rule for fairness or ENABLED): `OrphanFreed`, `MisdirectedEnds`,
`MountFollowsConfig`, `HealthConverges`, `WorkSettles`, `SeedEnds`, `ServicesSettle`,
`UploadSettles`, `VisibleProtected`, `BaselineReturns` and `ConfigCaughtUp`. Every
invariant and action property the passing runs check is a theorem. None of the modules
declares a recursive operator.

## Findings

Three runs end in a violation of what the repository says of itself:

- `no_rules`: "A changed universe must never silently reuse stale listings"
  (bisync-baseline.ts:198-199). Without any rule (gitignore not respected, which is the
  default, and no patterns) no fingerprint is computed (executor.ts:994) and none compared
  (executor.ts:1059): once the last rule is removed, the listings of the old rules are
  reused without `--resync`. Going back to the old rules is not noticed either.

- `switch_back`: the documentation says that `switch-to-sync` stops the mount and pulls
  the files with a one-way copy (ARCHITECTURE.md:544-545). `switchToSync`
  (packages/daemon/src/index.ts:414) runs the cached assignment, whose effective type is
  still mount, so the executor mounts the folder again.
- `partial_access`: the screen promises that granting full access protects the whole
  camera roll. The history scan of `MediaDiscoveryEngine.kt:333` counts as complete under
  partial access too, with the newest row as its watermark, so that older rows are never
  discovered.

What else was met while modelling, without a run of its own:

*Locks and queues.*
- Two runs of one host on two folders with one destination pass the in-process guard
  together (tested before the await in lock.ts:94, set after it), and the server lets the
  same host in; destination.ts:16 says that writers are serialised. `CrossHostExclusion`
  is stated between hosts. Their rows replace each other, so that the release of one frees
  the row under the other; such a run is in `exposed`.
- Boot-time releases carry no lock id (lock.ts:296). One that arrives after its caller's
  timeout frees the row of the same host's next run, and another host may take the
  destination under it until the next heartbeat.
- The lock of a mode switch is released without key or id (index.ts:361, 1732) and outside
  `runMutex`: it may free the row of a run that began meanwhile. The other way round, the
  run the switch itself starts (index.ts:327) replaces the switch's row and releases it,
  so that the trash and the mount happen without a lock.
- An action waiting in a batch behind a long one is reclaimed (actions.ts:122).
- The deploy agent's timeouts can be set in its environment (deploy-agent/src/index.ts:70-71)
  and nothing compares them with `STALE_RUNNING_MS`, the hypothesis of `ServicesBounded`.
- A report queued while a flush is under way is overwritten (report-queue.ts:78).

*Bisync.*
- A resolved conflict is applied again by each later run, and `newer_wins` takes the
  modification time of the remote for the local one.

*Seeds.*
- The target's cleanup may delete the archive the source is reading or has just stored
  (seed-runner.ts:1084); a cancelled seed may still publish (seed-runner.ts:955).
- A crash between the steps of a publication leaves a staging sibling; a failed upload
  deletes the stored object that is called immutable; the fingerprint of the filter in
  the manifest is never compared (seed-archive.ts:254-256); nothing in production sweeps
  old objects; an edit between publication and resync can be overwritten.
- `DELETE /seed-pilot` says that no seed can run, but a host that holds the space in its
  cached config still runs one, and after a rotation the two sides may use different
  spaces. `activeSeedJobForPair` is about the ordered pair.

*Hosts and config.*
- A change of a host's tailnet address bumps that host only (hosts.ts:646), while
  ARCHITECTURE.md:643-647 has its peers fetch it. `HostConfig!AddressesReachPeers` states
  that; TLC refutes it at once.
- An older answer that arrives after a newer `lastSeen` is not fetched again; a host
  registered anew starts at revision 0 while its daemon compares with `>`; the global
  pause is masked by a shorter pause of the host.
- hosts.ts:346-348 says that "re-registration after a rename keeps working"; a daemon
  whose client.toml carries the new name registers with that name as its id, and its
  device key, bound to the old id, is refused (`HostIdentity!RenamedMayRegister`). A restart before `client.toml` is
  edited undoes the renaming; a failed minting spends the code.
- The enrollment of a phone does not compare its display name with the names of hosts
  (`NamesDistinct` leaves such labels out). When a phone calls itself what a computer is
  renamed to, or first registers as, two rows carry the label, and `POST /register`
  under it (hosts.ts:363-381, `.get` takes any matching row) may move the phone's row.
  The move leaves `api_keys`, `mobile_registrations`, `pause_state`, `dotfile_manifests`,
  folder health, plans and seeds behind (`cascadeHostId`, hosts.ts:92-134); these
  tables are not part of `trail`.
- `DELETE /hosts` (hosts.ts:484-495) deletes assignments, protections with their
  snapshots and the host row. Queued actions, the operation log, conflicts, restic
  snapshots and restore jobs, notification events, the holders of locks and schedules, API
  keys, pauses, manifests, folder health, plans and seeds stay under the dead id, and a
  host that is registered again under it inherits them. A conflict that stayed can meet
  the unique key of that table (schema.ts:256) when another host is moved to the id, and
  the registration fails as a whole. Reports are accepted for an id without a host.
- A snapshot whose protection is deleted, alone or with its host, while it is being
  published is recorded under the deleted protection (apps.ts:1195-1230).

*Folder health.* The fleet check flags a host whose listing of the shared remote is a
small part of a sibling's (server/src/folder-health.ts:414-420), but the report that rides
the next heartbeat (daemon index.ts:1882) has not read the listing, replaces the row and
with it the flag (`FolderHealth!IncompleteStaysFlagged`); "the freshest
report wins" (routes/folder-health.ts) while times of reports are not compared.

*Companion and progress.*
- "At most one HTTP send is in flight" (live-progress.ts:291) does not hold of the
  terminal update.
- Automatic protection: with an empty library NEW_ONLY skips the first photo; rows
  restored from the trash below the watermark are not imported again; the record of a
  cancelled item that was staged never re-arms, against
  docs/spec-296-stage-2-auto-protection.md:170.

Two hazards have no property because the code has the flaw: the in-process guard and the
loss in the report queue's flush.

## Left out

External and abstracted: what rclone, restic, tar, FUSE and S3 do is modelled by what
the code expects of them. Wording, logging, HTTP status codes beyond success and refusal,
statistics and rate limits are left out.

By module: *DestinationLock*, refusals for reasons other than the row.
*SeedJob*, planning, the operator's own progress and lease branches, the coordinator that
only tests use. *SeedArchive*, multipart requests and stream bounds. *MountSwitch*, cache
modes, unit text, a refused lock. *FolderTriggers*, pause windows are a nondeterministic
refusal of a timer's run (their content is in `HostConfig`), and a config has one
assignment. *HostConfig*, the bump of a renaming, shares and exports. *HostIdentity*,
administrators' login and cryptography. *FolderHealth*, history rows and reasons.
*Bisync*, deletions are not told apart from edits; one-way copies, restic and hooks are one
step. *MobileUpload*, the app's own retry timers. *AutoProtect*, toggles per source.
*Enrollment*, device lists. *ServerDeploy*, the script's output and a script that outlives
its timeout. *BrowseJobs*, a failure to write a job's row. *LiveProgress*, fan-out and
reconnecting of sockets.

Not modelled: the web UI, the CLI, Android screens and scripts are clients or
presentation; the LAN peer is a choice at the start of a run that falls back to the
remote, the local socket has no state. Retention, trash and snapshots select versions and
call restic, apps and their storage are CRUD (deleting a protection does race with an
upload in flight and is the next candidate), notifications, drills, fleet health and
statistics are queries and messages.
