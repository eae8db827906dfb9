# Verification of ZFS for OS X

TLA+ models of the concurrent and crash-sensitive core of this port of ZFS,
checked with TLC on small instances, and theorems about some of them that TLAPS
proves for every value of the constants. `PROJECT.json` maps every definition to
the lines of `src/` it models, and lists the runs, the hazards they look at, a
mutant for every property, and the theorems.

## The system, and which module models which part

A change of a file goes through these parts; each has a module.

| Part | Source (`src/module/zfs/`) | Modules |
|---|---|---|
| byte-range locks of a file, and `zfs_read`, `zfs_write`, `zfs_freesp` under them | `zfs_rlock.c`, `zfs_vnops.c`, `zfs_znode.c` | `RangeLock`, `MCRangeLock` |
| transactions, space reservations, sync tasks (snapshots) | `dmu_tx.c`, `dsl_synctask.c`, `dsl_dir.c`, `dsl_pool.c` | `DmuTx`, `DmuTxProofs`, `DmuTxTasks`, `DmuTxSpace`, `MCDmuTx` |
| the versions of one data block | `dbuf.c`, `dmu.c`, `dnode_sync.c` | `Dbuf`, `MCDbuf` |
| intent log, records in memory and `zil_commit` | `zil.c`, `zfs_log.c`, `cmd/ztest/ztest.c` | `ZilCommit`, `ZilCommitProofs`, `ZilCommitRecords`, `MCZilCommit` |
| intent log, chain of blocks, claim and replay | `zil.c` | `Zil`, `MCZil` |
| transaction groups | `txg.c`, `dsl_pool.c` | `Txg`, `TxgOrder`, `TxgProofs` |
| allocation of space | `metaslab.c`, `space_map.c` | `Metaslab`, `MetaslabProofs`, `MCMetaslab`, `SpaceMap` |
| labels and uberblocks | `spa.c`, `vdev_label.c`, `uberblock.c` | `ConfigSync`, `MCConfigSync` |
| configuration locks of a pool and their users | `spa_misc.c`, `spa.c`, `zio.c`, `metaslab.c` | `SpaConfigLock`, `LockProofs`, `MCSpaConfigLock` |
| tear-down lock of a file system | `rrwlock.c` | `Rrwlock`, `LockProofs` |
| lock in a dnode handle | `zrlock.c` | `Zrlock` |

How they interact: a thread takes a range lock, opens a transaction (`DmuTx`),
which joins the open group (`Txg`), dirties blocks in that group (`Dbuf`), logs a
record (`ZilCommit`, `Zil`) and commits. The sync thread takes one group after
the other, has its blocks allocated (`Metaslab`) and written under the
configuration locks (`SpaConfigLock`), and ends with the labels and the uberblock
(`ConfigSync`). Modules that need another part see it from the outside:
`DmuTx`, `Dbuf`, `Zil`, `ZilCommit` and `Metaslab` have groups that open, sync and
are synced in order, which is what `TxgOrder` promises and `Txg` is proved to
implement; `ZilCommit` treats the writing of a record as one step, which `Zil`
takes apart.

Conventions. State has the names of the fields it models. Code that runs under a
mutex without sleeping is one action; a place where the mutex is dropped is a
program counter. A sleep on a condition variable is either a program counter that
a broadcast moves on, or, where the code re-checks its condition in a loop and
every change is broadcast, the guard of the next step. An initial choice of who
takes part (`cast`, `layout`, `workload`) lets one run cover several scenarios
that would be too large together.

## The modules

**Txg** has the fields of `tx_state_t` and `tx_cpu_t` under their names, and a
program counter for the sync thread (`spc`), the quiesce thread (`qpc`), every
transaction (`tpc`) and every waiter (`wpc`). Actions: `txg_hold_open`,
`txg_delay`, `txg_rele_to_quiesce`, `txg_register_callbacks`, `txg_rele_to_sync`,
`txg_do_callbacks`; the steps of `txg_quiesce` (look for work, take the `tc_lock`s one by
one, open the next group, drain the counters CPU by CPU, hand over); the loop of
`txg_sync_thread`, its timer, `spa_sync`; `txg_wait_synced`, `txg_wait_open` and
`txg_sync_stop`. After a hand-over and after a sync the head of the loop is a step
of its own although the mutex is not dropped there: it adds interleavings and
removes none. **TxgOrder** is the abstract specification: transactions join the
open group, groups commit one by one when all that joined are finished, at most
three are uncommitted, and a transaction is notified once and afterwards.

**DmuTx**: a transaction walks through `dmu_tx_assign` (hold the open group, hold
its dnodes one by one, reserve space up the tree of `dsl_dir`s), undoes all of it
on `ERESTART` or an error (`dmu_tx_unassign`), waits as `dmu_tx_wait` says, and
commits. A snapshot is a sync task: checked in open context, queued, executed by
the sync thread, retried on `EAGAIN`. A transaction has a size, its worst-case
estimate, and may remove or overwrite what was there at the start (`frees`). If this
is as much as it writes and no snapshot keeps it, it is net free (`IsNetFree`) and let
through the quota. When its group is written it is charged its size, like any other,
or nothing, as after compression; the old blocks are given back if no snapshot has
been executed meanwhile, and they too may turn out to have had no size. `Size` of a set
of transactions is the space they asked for.

**Dbuf**: one level-0 block with two halves, its dirty records and their buffers,
the read and the write in flight, the ranges freed per group, and the block on
disk. Actors write a half or the whole, free the block, read, assign a loaned
buffer, or write the block for the log (`dmu_sync`). Who waits for a read in
`dbuf_read` does so outside the lock of the dnode (`ReadWait`). `lin` and `image` are history
variables: the contents that explain what was seen, and what each group should
leave.

**RangeLock**: the AVL tree as a function from offsets to entries, with proxies;
locking splits and joins entries as `zfs_range_add_reader` and
`zfs_range_proxify` do. Callers are part of it: reads, writes, appends whose
offset is decided under the lock, extending writes that grow the block size, and
truncation.

**ZilCommit**: the slots `zl_itxg` with their synchronous list and the lists per
object, moved (`zil_async_to_sync`), dropped (`zil_remove_async`), collected
(`zil_get_commit_list`) and cleaned (`zil_clean`) one slot at a time, and the batches of
`zil_commit`, whose writer takes one record after the other. `avl_destroy_nodes` returns
the objects of a slot in some order, so their lists are joined in any (`Joined`). Records
come from `zfs_log_*` or from ztest. Operations on one object are serialised by their
callers.

**Zil**: log blocks with guid and sequence number on several top-level vdevs, each
with a cache: what is on disk, and what is written and not flushed. The rewrite of a
log block dirties no vdev (`zil.c:917`), so a group that syncs is sure to flush only the
vdevs it has allocated or freed on (`Dirtied`), and others if it wrote there;
`zil_flush_vdevs` flushes those of the written blocks. Also the header, the list of `lwb_t`s, and what each group will do. A step
of `zil_commit_writer` is a record, a block (an empty one if the record does not fit or
could not be read), a completed write, or a wait; others
are `zil_create`, `zil_sync`, `zil_suspend`, `zil_resume`, `zil_close`, `zil_claim`, `zil_replay`
record by record, and a crash at any step.

**Metaslab**: the maps `ms_map`, `ms_allocmap`, `ms_freemap`, `ms_defermap`, the
space map object as of the last group and now, and the states on disk a pool may
be opened with. Allocation, free and claim happen while `spa_sync` runs its
passes; loading is two steps, since `ms_lock` is dropped in between.

**SpaceMap**: `space_map_add` and `space_map_remove` on segments; the reference
tree with equal offsets met in any order; `Excise` and `Combine` are the uses
`vdev_dtl_reassess` makes of it.

**ConfigSync**: per disk what survives a crash and what is in its cache; actions
are the writing of blocks, the two rounds of labels, the uberblock, failures
with the retry of `spa_sync`, a crash that keeps any part of the caches, and the
opening of the pool with any subset of the disks.

**SpaConfigLock**: `scl_count`, `scl_writer` and the wanted writers of each lock, and
for every user what it holds and where its call is: running, asleep or woken.
Users are activities and not threads: `spa_sync`, an I/O with its allocation, an I/O
issued from it, `zfs_vfs_getattr`, `arc_read`, and the two kinds of administrators
(`spa_vdev_enter`, `spa_vdev_state_enter`), which the code serialises by the
namespace lock.

**Rrwlock**: a call is one step, or goes to sleep and looks again when woken. The
thread-specific list of read locks is compiled out in this port, so `rrn_find`
finds nothing. **Zrlock**: every access of the counter is a step, since some are
under the mutex and some are not; the build without `ZFS_DEBUG`.

## What the runs check

States and times are those of two to four workers; deadlock is checked where
nothing may stop, and off where bounds or a shutdown end the behaviour.

| Run | Distinct states | What it shows |
|---|---|---|
| `txg_groups` | 61,132 | the inductive invariant `IInv`; `OrderedCommit` (refinement of `TxgOrder`); every waiter returns, a stop included (`WaitersReturn`); callbacks are called though nobody waits (`CallbackIsCalled`) |
| `dmutx_users` | 200,212 | a dnode is changed in one group (`DnodeInOneGroup`); racing transactions keep the quota, but for those that are net free (`QuotaHolds`); nothing stays reserved (`ReservationsEnd`); a task group takes all its snapshots or none (`TasksAreAtomic`); a snapshot is the end of a group (`SnapshotsAreGroups`); `EveryoneReturns` |
| `dbuf_versions` | 820,695 | what is seen of a block is linearizable (`HistoryIsLinear`); the disk gets each group's version (`SyncedIsSnapshot`, `PendingIsFrozen`); buffers do not change under holders (`HoldersKeepTheirData`); the assertions several threads could break (`RecordsAreSound`) |
| `rangelock_callers` | 1,552,124 | the tree is exact, proxies included (`TreeIsExact`); writers exclude (`WritersExclude`); appends leave no hole and block sizes grow safely (`WritersSeeTheFile`); `FreespResizesAlone` |
| `zilcommit_commit` | 2,435,184 | `zil_commit` keeps its promise (`CommittedIsStable`); no record is written twice (`LoggedOnce`); what is left of an object can be replayed (`ObjectsReplay`); no lost wake-up between batches (`WaitersAreServed`) |
| `zil_crash` | 1,547,783 | the chain is sound (`ChainIsSound`); committed operations survive crashes, also during replay (`CommittedSurvives`); replay gives a state the file system was in (`ReplayGivesAPrefix`); no block is leaked, unless the cache of another vdev was lost (`NoBlockLeaks`) |
| `metaslab_crash` | 595,852 | maps in core and on disk agree with what is free (`MapsAreSound`, `DiskIsSound`); `DeferredKeepSyncing`; the states a pool can go back to stay intact (`RewindIsSafe`) |
| `spacemap_walks` | 1,063,276 | segments are the set of integers they stand for, after any walk (`SegmentsAreTheSet`); no assertion fails (`NoPanic`) |
| `configsync_crash` | 1,231,674 | the opened uberblock leads to complete data (`OpenedStateIsComplete`); a reported group is never lost (`SyncedIsDurable`); `FirstCrashLeavesValidLabels` |
| `spaconfiglock_users` | 68,420 | counters are what is held (`LocksAreWhatIsHeld`); changes are alone (`ChangesAreAlone`) and on disk when a command returns (`ChangesAreSynced`); `NobodyStarves` |
| `zrlock_locked_only_at_zero` | violation | the slow path of `zrl_add` loses a concurrent lock, see Deviations |
| `zilcommit_oid` | violation | a remove record with an unset object number drops another file's records, see Deviations |

Every property has a mutant: a plausible bug of a mapped definition (a dropped
guard, a missing reset, a swapped order) that makes TLC find it violated under the
same configuration.

## Bounds, and why they are enough

- `Txg`: one transaction, two waiters, one CPU, groups 4 to 6, history of 3. Three
  groups fill the pipeline; a waiter can stop the pool while another waits. More CPUs
  and transactions matter only to safety, which is proved for any number.
- `DmuTx`: up to three transactions, two tasks, two dnodes, two file systems (one
  with a quota of 3), a pool of 8 units, a write limit of 1. Eight casts: dnodes held
  in opposite orders, a chain of dnodes, a race for the last free space, a full pool
  and a remove, a suspended pool, two of competing snapshots, and an overwrite
  with a snapshot in a file system that is nearly full. The casts also bound
  closings by timer, throttling and suspensions; with one more closing by timer in the
  chain and in the first snapshots (381,774 states) the result is the same.
- `Dbuf`: groups 4 to 7, so that a block has three dirty records and the oldest
  syncs. Ten casts of three actors; two halves tell a lost update from a
  late one. Three writers
  together with a reader (1,232,351 states) give the same result.
- `RangeLock`: three threads (symmetric), one operation each, offsets up to 4, blocks up
  to 2. Three are needed for a reader that overlaps two others, which is what
  creates proxies and splits them.
- `ZilCommit`: ztest with 2 threads, 3 operations, 3 groups and 2 commits; files with
  3 threads, 2 operations, one group and 3 commits, so that three threads meet in two
  batches. `TXG_SIZE` and `TXG_CONCURRENT_STATES` are scaled to 3 and 2, keeping one
  slot more than there are unsynced groups.
- `Zil`: three blocks on two vdevs, one record per block, one operation that may be too
  large for a block, 3 operations, groups to 4, two crashes (the second may meet the
  replay after the first), and one of: a failed allocation, a failed write, data that
  cannot be read for a record, a suspension, a close. With one vdev a block allocated on
  disk always has its predecessor there; two are what it takes to lose it.
- `Metaslab`: three symmetric blocks, groups 4 to 8, two passes per sync, two crashes:
  a freed block passes through `TXG_DEFER_SIZE` groups and back into circulation.
  Groups up to 9 (2,831,514 states) give the same result.
- `SpaceMap`: integers 0 to 4, two changes before a walk; segments join on both sides,
  split, and share offsets.
- `ConfigSync`: two disks, as a stripe with idle groups and one failing write, or as
  a mirror that is opened twice with any subset of its disks; two labels (an even and
  an odd one), a ring of two uberblocks, three groups.
- `SpaConfigLock`: one user of each kind in four casts, one or two changes; scaled group
  constants. Any number of users is proved.
- `Zrlock`: two threads with one reference each suffice for the counterexample;
  `zilcommit_oid`: two threads, two objects, three operations.

## Fairness

Fairness says only that threads run: a step that its thread can take is taken.
No lock is assumed to be fair, and nobody is assumed to call anything.

- `Txg`: weak fairness of the quiesce thread, the sync thread, transactions that
  are inside a group, the callback task queue and waiters that were woken. The timer
  of the sync thread is a premise of `CallbackIsCalled` only; `WaitersReturn` does
  without it. A transaction in a group finishes: kernel code between assignment and
  commit does not wait for the user.
- `DmuTx`: weak fairness of transactions, tasks, the quiesce and the sync thread.
  `EveryoneReturns` is conditional on the pool not staying suspended.
- `SpaConfigLock`: weak fairness of every user that has work; readers come back for
  ever, administrators need not act. `zio_resume_wait`, for a suspended pool, is not
  modelled.

## What is proved

All theorems are about the same definitions the runs use. Each inductive invariant
has also been checked with TLC on a small instance.

**Txg** (`TxgProofs`): for any finite set of
transactions, any number of CPUs and waiters and any bound on groups. Assumptions
(`TxgAssumption`): at least one CPU, a positive first group, and a history of at
least `TXG_CONCURRENT_STATES` entries (the module parameter is not bounded below by
the code; only `HistoryLookups` needs this). What one wants to know, that no transaction is in a group that
syncs, is not inductive: it depends on where the quiesce thread is in its loop over
the CPUs. `IInv` says so: `PipelineInv` (the groups in the four states are
consecutive numbers), `LockInv` (which `tc_lock`s the quiesce thread has, and that
who has one is assigned to the open group), `HoldInv` (who is inside is in the open
group, or in the quiescing one on a CPU not drained yet), `CountInv` (each counter
is the number of those inside), `CallbackInv` and `HistoryInv`. The module
proves the types and the arithmetic of slots, then one lemma per action and
`Invariance`, then the consequences: `HoldersAheadOfSync`, `OneTxgPerSlot`,
`AtMostThreeGroups`, `CallbacksAfterSync`, `HistoryLookups`, `GroupsSyncInOrder`, and
`ImplementsOrder`: every step is a step of `TxgOrder` or a stutter.

**DmuTx** (`DmuTxProofs`, `DmuTxTasks`, `DmuTxSpace`): every safety property of the run,
for any number of transactions, tasks, dnodes, holds, file systems and groups, any
sizes and quotas. Assumptions (`DmuTxAssumption`): the first group is greater than 1,
the transactions are finitely many, casts name known transactions, tasks, dnodes and
file systems, a transaction has a positive size, and a task group names a dataset once.

- `DnodesInOneGroup`. The invariant `IInv` says which of its holds a transaction has
  taken at each point of the loops that take and undo them (`Held`, `HoldsAreExact`;
  a dnode may be held twice by one transaction), and that whoever is inside a group is
  in the open one or in the quiescing one, in the open one while it has a `tc_lock`
  (`TxInv`).
- `SnapshotsStayGroups` and `TasksStayAtomic`. Neither is inductive: a snapshot is the
  end of a group only because nobody can still join a group that is written
  (`PipeInv`, `ContentsInv`), and a task group is atomic because a task waits in the list
  of one slot, once, until its group is synced (`QueueInv`), with no snapshot taken
  before and all or none after (`TaskInv`).
- `ReservationsAlwaysEnd` and `QuotaAlwaysHolds`. The counters are sums over sets of
  transactions, and the invariant names the sets: who has reserved in the pool
  (`PoolInv`) and in each directory (`DirInv`), and who has dirtied a group whose
  estimates are not cleared (`WriteInv`), slot by slot. A reservation is taken and given
  back entry by entry, so that each entry has its own set. Then `InflightCovers`: at any time
  `dsl_dir_space_towrite` and the reservations together count everyone who was let in
  and is not charged yet. So the check of `dsl_dir_tempreserve_impl` bounds what will
  be used when all of them are written (`QuotaInv`), which is what is inductive; that
  `dd_used` is within the quota follows. Net free transactions are let through unchecked
  and can still be charged in full; what those that are written have taken is subtracted,
  so the bound is on the rest, and says nothing of how many of them there may be. Sums are cardinalities of sets of units, which
  the library's theorems about finite sets add and subtract (`SizeUnion`).

**Metaslab** (`MetaslabProofs`): `MapsStaySound`, `DiskStaysSound`, `DeferredAlwaysSync` and
`RewindStaysSafe`, for any blocks, groups, passes and crashes. Assumptions
(`MetaslabAssumption`): the bounds are naturals, the first group positive. The four
properties need each other and more: the allocations of a group wait in its slot
(`AllocInv`, `UsedInv`), frees are in the slot of the syncing group or in the one that is
cleaned (`FreeInv`), a block is in one place (`PartsInv`), the object being written is
what is used less what is not synced (`SmoInv`), and a block of a state on disk was
freed after it if at all, so that it is still deferred (`Kept`, `DiskInv`).

**ZilCommit** (`ZilCommitProofs`, `ZilCommitRecords`): all four properties of its run, for any
threads, objects, workloads and constants with `TXG_SIZE > TXG_CONCURRENT_STATES > 0`
(`ZilCommitAssumption`).

- `NobodyWaitsInVain`. The invariant `BatchInv` ties `zl_next_batch` and `zl_com_batch` to the
  writer: it is alone, it writes the batch after the last committed one, sleepers are in
  that batch or the next, and a sleeper without a writer has a woken thread of its batch.
- `CommitsAreStable`, for ztest's records (with those of the file system it does not hold,
  see Deviations). A commit reaches a record in stages: in its slot's synchronous list,
  in the commit list, in the log (`Stored`, `Listed`, `Logged`). `WantInv` says which stage
  the records of a commit are at, by where its thread is: what lies behind its walk is
  stored; what it waits for is stored, and listed once the writer of its batch or of a
  later one has passed the slot; when the batch is done, it is logged. This is inductive
  since no step takes a record back (`Progress`), which needs to know where the records
  are (`PlaceInv`, `SlotInv`) and that no two groups that are not synced share a slot
  (`GroupInv`, `SlotsDiffer`).
- `RecordsAreLoggedOnce`. A record is in one list only (`OnceInv`): the lists of a slot, the
  commit list and the log have no common records, and none twice.
- `ObjectsCanBeReplayed`. The creation of an object is ahead of the others of its group in
  each list, or done before it (`OrderInv`); and while an object is removed, its
  writes are left only in slots that `zil_remove_async` is still to visit (`StaleInv`).

`LogInv` is the conjunction. `ZilCommitProofs` has what a step does to a slot, and that
`GroupInv`, `RecordInv`, `WantInv` and `StaleInv` are kept, `ZilCommitRecords` the rest and
the theorems. Helpers that serve one lemma are steps of it, not lemmas.

**SpaConfigLock** (`LockProofs`): `CountersAreExact`,
`ChangersAreAlone` and `CommandsReturnSynced`, for any number of users of each kind,
any casts and any values of the group constants with `TXG_DEFER_SIZE > 0`. Assumptions
(`SpaConfigLockAssumption`): the users are finitely many and their kinds are disjoint.
The invariant says of a user that it holds what its place in the code implies, less
or more the locks its call has still to take or give back, in the mode of the call
(`UserInv`); of a lock that its counter is the number of its holders, that the wanted
count is the number of writers asleep on it, and that a writer is alone (`LockInv`);
and that whose change is pending waits for a group that will write it (`DirtyInv`).
The module first proves what a single enter, wait, grant, try and exit does to
it, then one lemma per user.

**Rrwlock** (`LockProofs`, which instantiates the module): `ReadersAreExcluded`, for any threads and any nesting of
reads. The counters are wrong under contention, since a reader that came while a
writer waited is counted in one and leaves by the other. The invariant is that the
count of anonymous readers is exact as long as the other is zero, which is the only
case in which a writer gets in. There is no run for it: the theorem says more than
a small instance would (TLC agrees for three threads with two reads each).

## What is only model-checked

Liveness under fairness is beyond the prover, as is everything about `ENABLED`:
`WaitersReturn`, `CallbackIsCalled`, `EveryoneReturns`, `NobodyStarves`. Induction over data is
possible only where it can be said with a set: "a set of naturals has a least element"
(`Smallest` in `DmuTxTasks`) is provable, what a recursive definition computes for every
input is not, and modules with RECURSIVE operators cannot be used in proofs. This
leaves `RangeLock`, whose walk over a tree is recursive, to TLC. `SpaceMap`, `Dbuf`, `Zil` and
`ConfigSync` are shown for the bounds above only: their invariants relate counts of
references, or the contents of blocks and labels, and have not been found yet.

## Deviations

Places where the code does not do what a comment, a header or an assertion says,
met while modelling. The first two are findings with a run; the others are
described here, and the properties are stated so that they do not hide behind them.

1. `zrlock.c:42` says that a lock can be taken only while there are no references.
   The slow path of `zrl_add` increments the counter with a plain `++` (line 102)
   while `zrl_tryenter` swaps it without the mutex: run `zrlock_locked_only_at_zero`.
   Besides, `zrl_remove` reads the counter again after its decrement (line 116) and
   panics if somebody has locked it since.
2. `zil.c:1577`: `zil_commit` of an object pushes its records. `zfs_log_remove` and
   `zfs_log_rename` do not set `itx_oid`, which `zil_itx_create` leaves uninitialized, and
   `zil_itx_assign` (1311, 1317) uses it: the records of another file may be dropped,
   or those of the renamed one not be pushed. Run `zilcommit_oid`.
3. `zil.c:1477` adds asynchronous records at the end of the synchronous list "to ensure
   the create has happened". This holds within a group; the slots are collected one by
   one (1444), and a create in an earlier slot that was passed already is missed.
   `ObjectsReplay` asks for the creation first within a group.
4. `zil.c:1562` waits for the group if a log write failed, but the writes carry
   `ZIO_FLAG_DONT_PROPAGATE` (920), so the parent does not learn of it (`zio.c:530`).
   `CommittedSurvives` and `NoBlockLeaks` are stated for logs without failed writes.
5. `vdev_label.c:872-877` says how a mirror whose replica was away chooses among
   uberblocks. In a group without changes no uberblock is written (1231), so a
   replica that comes back may have the higher number, and a synced group is lost.
   The mirrored layout of `configsync_crash` has no idle groups.
6. `vdev_label.c:1288-1290` says that after opening all labels are brought up to date
   first. `spa.c:2592` does so only on an import or with a stale cache file; after a
   plain open they stay, and a second crash can leave no valid half. Hence
   `FirstCrashLeavesValidLabels`.
7. `zfs.h:457` and `zdb.c:152` call the deferred frees the safe range of a rewind. The
   deferred maps are in core only: after a crash the blocks are free at once, so
   `RewindIsSafe` starts at the state the pool was opened with.
8. `dmu.h:487-489`: `db_data` changes only when its holder calls one of four functions.
   `dbuf_sync_leaf` does not copy the shared buffer of a record that `dmu_sync` has
   written; a `dbuf_hold` by somebody else then replaces `db_data` under the first holder,
   and `dbuf_write_done` drops the old buffer. `HoldersKeepTheirData` excludes
   casts with the log, and these have no readers.
9. `dbuf_sync_leaf` asserts in its wait loop (`dbuf.c:2473`) that the record is not
   `DR_NOT_OVERRIDDEN`; `dmu_sync_done` sets that when the I/O failed. The model lets
   `dmu_sync` fail and the loop go on, as the code does without assertions.
10. `rrwlock.c:34`: a thread may enter as reader again although a writer waits. With
    `rrn_find` commented out (88) it blocks if no anonymous reader is left; and the
    count of linked readers is never lowered (234), so once a reader was counted
    there every later writer sleeps for ever. Nothing is claimed about progress.
11. `zil.c:973-981` says that a log block would be leaked if its allocation synced before
    the block that points at it is written, "therefore" the transaction is held until
    `zil_lwb_write_done`. Written is not flushed: a group that syncs then flushes the vdev
    of the new block, where it has allocated, and its predecessor may still be in the
    cache of another (`vdev_label.c:1249` goes through the dirty vdevs). If the power goes
    before `zil_flush_vdevs`, the block is allocated and not reachable. `NoBlockLeaks` is
    stated per vdev: a block of it is leaked only if the cache of another was lost.

## What is not modelled

Within the modelled parts:

- `Txg`: `txg_wait_callbacks` and the `txg_list_*` functions.
- `DmuTx`: assignment to a given group, errors of holds (`tx_err`), transactions without
  size, reservations, refquota, adaptation of the write limit, frees of what was written
  since the start, tasks nobody waits for, and the random retries of debug builds. The
  assignment of tasks in a suspended pool is a guard.
- `Dbuf`: `DB_NOFILL`, bonus and spill buffers, indirect blocks, blocks of the meta dnode,
  read errors, freeing of the dnode, holes by compression of zeros, dbufs that are not
  cached. That writers and `zfs_get_data` exclude each other by the range lock is taken
  from `RangeLock`.
- `RangeLock`: writes that end early, and the growth of the block size that is refused
  with `ENOTSUP` (`dnode_set_blksz`): it is when the file has more than one block, which
  are then of the full record size, and this one is constant here. That readers do not keep a writer waiting for ever is a heuristic of the
  code (`r_write_wanted`) and is not stated.
- `ZilCommit`: synchronous records of writes, since nothing sets `z_sync_cnt` on OS X;
  ztest logs some, and its workload has them.
- `Zil`: a second suspender, errors of replay, `WR_INDIRECT`, sizes of log blocks,
  clearing the log on import, separate log devices.
- `Metaslab`: weights, segment sizes, growth of a device, export, the rewind itself.
- `SpaceMap`: the trees by size and the object on disk (a set in `Metaslab`).
- `ConfigSync`: a flush that fails, log and cache devices, the four copies of the ring of
  one disk (written and read together), rewind.
- `SpaConfigLock`: the changes themselves, `zio_resume_wait`, the remaining readers.
  `spa_config_tryenter` with several locks would leave the first ones taken when a later
  one fails; its only caller passes one, and so does the model.

Three hazards known to be there and without a property: the release of a bonus buffer
while its dnode goes (`dbuf.c:2167`), the dirty time log written while it is reassessed
(`vdev.c:2698`), and the re-execution of suspended I/O (`zio.c:1492`).

Parts without a module:

- DSL datasets, properties, delegation, dead lists: run by one thread in syncing context,
  or look-ups. Deduplication tables: likewise.
- Scrub and resilver, sending and receiving: need the tree of blocks with births and
  snapshots.
- vdev states and types, the I/O queue and the read-ahead cache: arithmetic on blocks, I/O
  to the operating system, and ordering heuristics under one mutex.
- ARC: `Dbuf` has the calls it makes; the header states are left out.
- dnodes: holds, ranges and the handle lock are in `DmuTx`, `Dbuf` and `Zrlock`; allocating and
  moving them is left out.
- The zio pipeline: its locks, allocations and outcomes appear in four modules; waiting for
  children and re-execution do not. Compression and checksums are byte-level algorithms.
- Opening, importing and exporting a pool beyond the choice of labels and uberblock; the
  async thread; history and error logs; fault management.
- ZAP, system attributes, AVL trees, name/value pairs, Unicode, reference counts:
  sequential libraries.
- The file system layer beyond range locks and logging, OS X and Linux glue, volumes (a
  stub), ioctls, user-space libraries, commands and test programs: adapters, front ends
  and argument handling, or dependent on the vnode layer of the kernel.

The modules cover the core that many threads share, which is a small share of the lines
of the repository: most of the rest is sequential, or talks to an operating system.

## Running it

`tlc -config X.cfg M` with the pairs of module and configuration in `PROJECT.json`
checks a run, in a few minutes at most; `tlapm M.tla` checks the proofs of the
modules `TxgProofs`, `DmuTxProofs`, `DmuTxTasks`, `DmuTxSpace`, `LockProofs`, `MetaslabProofs`,
`ZilCommitProofs` and `ZilCommitRecords`, in up to ten minutes each.
