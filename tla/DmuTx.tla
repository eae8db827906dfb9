------------------------------- MODULE DmuTx -------------------------------
(***************************************************************************)
(* Transactions and sync tasks: dmu_tx.c, dsl_synctask.c, and the space    *)
(* reservations of dsl_dir.c and dsl_pool.c.                               *)
(*                                                                         *)
(* A transaction declares the dnodes it will change, is assigned to the    *)
(* open group, reserves space in its dsl_dir and all its ancestors,        *)
(* dirties its data and commits.  A dnode may be changed in one group at   *)
(* a time only, so a transaction that meets a dnode of the previous group  *)
(* undoes its assignment and waits.  Snapshots are sync tasks: checked in  *)
(* open context, executed by the sync thread, retried on EAGAIN.           *)
(*                                                                         *)
(* The groups are those of module Txg, seen from their users: the cpu      *)
(* locks appear as "no transaction is being assigned", the sleeps of       *)
(* txg_wait_open/synced as guards, and the timer as a bounded number of    *)
(* groups closed without a request.                                        *)
(***************************************************************************)
EXTENDS Integers, Sequences, FiniteSets, FiniteSetsExt

CONSTANTS
    Txs,            \* dmu_tx_t
    Tasks,          \* sync task groups
    Dnodes,
    Dirs,           \* file systems: children of the pool's root directory
    Casts,          \* what the transactions and tasks do; see Init
    Quota,          \* Quota[d]: dd_quota of a file system
    PoolSize,       \* dsl_pool_adjustedsize(); one more for a net free
    WriteLimit,     \* dp_write_limit
    TaskSpace,      \* dstg_space * 3
    CONTINUE,       \* failmode is ZIO_FAILURE_MODE_CONTINUE
    FirstTxg        \* tx_open_txg at the start

ASSUME DmuTxAssumption ==
    /\ FirstTxg \in Nat /\ FirstTxg > 1
    /\ "root" \notin Dirs /\ IsFiniteSet(Txs)
    /\ Quota \in [Dirs -> Nat]
    /\ \A cs \in Casts :
         /\ cs.used \in [Dirs -> Nat]
         /\ \A t \in DOMAIN cs.tx :
              /\ t \in Txs
              /\ cs.tx[t].dir \in Dirs
              /\ cs.tx[t].holds \in Seq(Dnodes)
              /\ cs.tx[t].asize \in Nat \ {0} /\ cs.tx[t].frees \in Nat
         /\ \A k \in DOMAIN cs.task :
              /\ k \in Tasks
              /\ cs.task[k].on \in Seq(Dirs) /\ cs.task[k].on # <<>>
              /\ \A i, j \in DOMAIN cs.task[k].on :
                   cs.task[k].on[i] = cs.task[k].on[j] => i = j

TXG_SIZE == 4
TXG_DEFER_SIZE == 2
Slot(txg) == txg % TXG_SIZE
Slots == 0 .. TXG_SIZE - 1
AllDirs == Dirs \cup {"root"}

VARIABLES
    cast,
    (* the groups *)
    tx_open_txg, quiescing, tx_quiesced_txg, tx_syncing_txg, tx_synced_txg,
    tx_quiesce_txg_waiting, tx_sync_txg_waiting, phase,
    suspended, timers, throttles, suspends,
    (* the transactions *)
    pc, tx_txg, tx_lasttried_txg,
    needassign,     \* index of tx_needassign_txh in tx_holds, 0 for NULL
    idx,            \* the loop over tx_holds
    until,          \* the group a sleep in dmu_tx_wait() waits for
    err,
    tx_lastsnap_txg,
    netfree,        \* the last try was let through as one that frees
    (* the dnodes *)
    dn_assigned_txg,
    dn_tx_holds,    \* dn_tx_holds[n]: the holds <<t, i>> that are counted
    (* space *)
    dd_used, dd_space_towrite, dd_tempreserved,
    dp_space_towrite, dp_tempreserved,
    freeing,        \* frees of the group that is written
    deferred,       \* frees of the last groups, newest first
    (* sync tasks and datasets *)
    kpc, k_txg, dstg_err, dp_sync_tasks,
    contents,       \* contents[d]: transactions written to the dataset
    snaps,          \* snapshots: [ds, name, txg, by, has]
    ds_prev_snap_txg, ds_trysnap_txg

pipeVars == <<tx_open_txg, quiescing, tx_quiesced_txg, tx_syncing_txg,
              tx_synced_txg, phase>>
reqVars == <<tx_quiesce_txg_waiting, tx_sync_txg_waiting>>
envVars == <<suspended, timers, throttles, suspends>>
txVars == <<pc, tx_txg, tx_lasttried_txg, needassign, idx, until, err>>
estVars == <<tx_lastsnap_txg, netfree>>
dnVars == <<dn_assigned_txg, dn_tx_holds>>
resVars == <<dd_space_towrite, dd_tempreserved, dp_space_towrite,
             dp_tempreserved>>
diskVars == <<dd_used, freeing, deferred, contents>>
taskVars == <<kpc, k_txg, dstg_err, dp_sync_tasks, snaps, ds_prev_snap_txg,
              ds_trysnap_txg>>
vars == <<cast, estVars, pipeVars, reqVars, envVars, txVars, dnVars, resVars,
          diskVars, taskVars>>

(* cast.tx[t]: [dir, asize, frees, how, holds]: t writes at most asize,    *)
(* and removes or overwrites what was in its file system at the start, of  *)
(* size frees; holds is a sequence of dnodes.  cast.task[k]: [name, on],   *)
(* on a sequence of datasets; cast.used: what the file systems use at the  *)
(* start; cast.MaxTimer, MaxThrottle and MaxSuspend: how often the timer   *)
(* runs out, memory is short, and the pool is suspended.  Who is not in    *)
(* the cast never runs.                                                    *)
op(t) == cast.tx[t]
holds(t) == op(t).holds
Ancestry(d) == {d, "root"}

UsedAtStart(d) ==
    IF d = "root" THEN MapThenSumSet(LAMBDA f : cast.used[f], Dirs)
                  ELSE cast.used[d]

Init ==
    /\ cast \in Casts
    /\ tx_open_txg = FirstTxg /\ quiescing = 0 /\ tx_quiesced_txg = 0
    /\ tx_syncing_txg = 0 /\ tx_synced_txg = FirstTxg - 1 /\ phase = "idle"
    /\ tx_quiesce_txg_waiting = 0 /\ tx_sync_txg_waiting = 0
    /\ suspended = FALSE /\ timers = 0 /\ throttles = 0 /\ suspends = 0
    /\ pc = [t \in Txs |-> IF t \in DOMAIN cast.tx THEN "start" ELSE "failed"]
    /\ tx_txg = [t \in Txs |-> 0] /\ tx_lasttried_txg = [t \in Txs |-> 0]
    /\ needassign = [t \in Txs |-> 0] /\ idx = [t \in Txs |-> 1]
    /\ until = [t \in Txs |-> 0]
    /\ err = [t \in Txs |-> "0"]
    /\ tx_lastsnap_txg = [t \in Txs |-> 0] /\ netfree = [t \in Txs |-> FALSE]
    /\ dn_assigned_txg = [n \in Dnodes |-> 0]
    /\ dn_tx_holds = [n \in Dnodes |-> {}]
    /\ dd_used = [d \in AllDirs |-> UsedAtStart(d)]
    /\ dd_space_towrite = [d \in AllDirs |-> [g \in Slots |-> 0]]
    /\ dd_tempreserved = [d \in AllDirs |-> [g \in Slots |-> 0]]
    /\ dp_space_towrite = [g \in Slots |-> 0]
    /\ dp_tempreserved = [g \in Slots |-> 0]
    /\ freeing = 0 /\ deferred = [i \in 1 .. TXG_DEFER_SIZE |-> 0]
    /\ kpc = [k \in Tasks |->
                 IF k \in DOMAIN cast.task THEN "start" ELSE "returned"]
    /\ k_txg = [k \in Tasks |-> 0]
    /\ dstg_err = [k \in Tasks |-> "0"]
    /\ dp_sync_tasks = [g \in Slots |-> <<>>]
    /\ contents = [d \in Dirs |-> {}]
    /\ snaps = {} /\ ds_prev_snap_txg = [d \in Dirs |-> 0]
    /\ ds_trysnap_txg = [d \in Dirs |-> 0]

-----------------------------------------------------------------------------
(* Groups.  A transaction is inside its group from txg_hold_open to        *)
(* txg_rele_to_sync, and holds a tc_lock until txg_rele_to_quiesce.        *)

TcLocked ==
    {"hold", "dirs", "root", "undo", "undoroot", "undodir", "unassign"}
Inside == TcLocked \cup
    {"drop", "assigned", "commit", "cleardir", "clearroot", "leave"}
TaskInside == {"check", "queued"}
Holders(g) ==
    {t \in Txs : pc[t] \in Inside /\ tx_txg[t] = g}
      \cup {k \in Tasks : kpc[k] \in TaskInside /\ k_txg[k] = g}

\* txg_sync_thread() wants a group: someone waits for one, or the timer ran
\* out.
SyncThreadAsks ==
    /\ tx_syncing_txg = 0 /\ tx_quiesced_txg = 0
    /\ tx_quiesce_txg_waiting < tx_open_txg + 1
    /\ \/ tx_synced_txg < tx_sync_txg_waiting /\ timers' = timers
       \/ timers < cast.MaxTimer /\ timers' = timers + 1
    /\ tx_quiesce_txg_waiting' = tx_open_txg + 1
    /\ UNCHANGED <<cast, estVars, pipeVars, tx_sync_txg_waiting, suspended,
                   throttles, suspends, txVars, dnVars, resVars, diskVars,
                   taskVars>>

\* txg_quiesce(): the open group is closed under all the tc_locks.
QuiesceGuard == \A t \in Txs : pc[t] \notin TcLocked
Quiesce ==
    /\ quiescing = 0 /\ tx_quiesced_txg = 0
    /\ tx_open_txg < tx_quiesce_txg_waiting
    /\ QuiesceGuard
    /\ tx_open_txg' = tx_open_txg + 1
    /\ quiescing' = tx_open_txg
    /\ UNCHANGED <<cast, estVars, tx_quiesced_txg, tx_syncing_txg,
                   tx_synced_txg, phase, reqVars, envVars, txVars, dnVars,
                   resVars, diskVars, taskVars>>

Quiesced ==
    /\ quiescing # 0 /\ Holders(quiescing) = {}
    /\ tx_quiesced_txg' = quiescing /\ quiescing' = 0
    /\ UNCHANGED <<cast, estVars, tx_open_txg, tx_syncing_txg, tx_synced_txg,
                   phase, reqVars, envVars, txVars, dnVars, resVars, diskVars,
                   taskVars>>

SyncStart ==
    /\ tx_syncing_txg = 0 /\ tx_quiesced_txg # 0
    /\ tx_syncing_txg' = tx_quiesced_txg /\ tx_quiesced_txg' = 0
    /\ phase' = "datasets"
    /\ UNCHANGED <<cast, estVars, tx_open_txg, quiescing, tx_synced_txg,
                   reqVars, envVars, txVars, dnVars, resVars, diskVars,
                   taskVars>>

-----------------------------------------------------------------------------
(* Writing a group: dsl_pool_sync().                                       *)

InGroup(g, d) ==
    {t \in Txs : pc[t] = "done" /\ tx_txg[t] = g /\ d \in {op(t).dir, "root"}}
\* The units of space that transactions ask for, and how many they are.
Units(tx, ts) == UNION {{t} \X (1 .. tx[t].asize) : t \in ts}
Size(tx, ts) == Cardinality(Units(tx, ts))
\* dsl_dataset_block_born() charges every block that is written.
Written(g, d) == Size(cast.tx, InGroup(g, d))
\* dsl_dataset_block_kill() gives back what is younger than the last
\* snapshot; the blocks that t removes or overwrites are older than any.
Freed(g, d) ==
    LET from == {t \in InGroup(g, d) : ds_prev_snap_txg[op(t).dir] = 0}
    IN  Cardinality(UNION {{t} \X (1 .. op(t).frees) : t \in from})

\* The datasets.  What is written takes all of the estimate or, compressed,
\* nothing of it; so did what it replaces.
SyncDatasets ==
    /\ phase = "datasets" /\ ~suspended
    /\ \E full, gone \in BOOLEAN :
         /\ dd_used' = [d \in AllDirs |->
               dd_used[d] + (IF full THEN Written(tx_syncing_txg, d) ELSE 0)
                 - (IF gone THEN Freed(tx_syncing_txg, d) ELSE 0)]
         /\ freeing' = IF gone THEN Freed(tx_syncing_txg, "root") ELSE 0
    /\ contents' = [d \in Dirs |->
                       contents[d] \cup InGroup(tx_syncing_txg, d)]
    /\ phase' = "dirs"
    /\ UNCHANGED <<cast, estVars, tx_open_txg, quiescing, tx_quiesced_txg,
                   tx_syncing_txg, tx_synced_txg, reqVars, envVars, txVars,
                   dnVars, resVars, deferred, taskVars>>

\* dsl_dir_sync() of every dirty directory, then the MOS.
SyncDirs ==
    /\ phase = "dirs" /\ ~suspended
    /\ dd_space_towrite' = [d \in AllDirs |->
          [dd_space_towrite[d] EXCEPT ![Slot(tx_syncing_txg)] = 0]]
    /\ phase' = "tasks"
    /\ UNCHANGED <<cast, estVars, tx_open_txg, quiescing, tx_quiesced_txg,
                   tx_syncing_txg, tx_synced_txg, reqVars, envVars, txVars,
                   dnVars, dd_tempreserved, dp_space_towrite, dp_tempreserved,
                   diskVars, taskVars>>

Deferred == deferred[1] + deferred[2]

\* dsl_dataset_snapshot_check() of one dataset.
SnapshotError_same_txg(k, d, txg) ==
    IF \E s \in snaps : s.ds = d /\ s.name = cast.task[k].name
    THEN "EEXIST" ELSE "0"
SnapshotError(k, d, txg) ==
    IF ds_prev_snap_txg[d] >= txg THEN "EAGAIN"
    ELSE IF \E s \in snaps : s.ds = d /\ s.name = cast.task[k].name
    THEN "EEXIST" ELSE "0"

\* The check notes the group when it finds nothing wrong with the dataset,
\* whatever becomes of the others.
Tried(k, txg) ==
    [d \in Dirs |->
       IF /\ \E i \in DOMAIN cast.task[k].on : cast.task[k].on[i] = d
          /\ SnapshotError(k, d, txg) = "0"
       THEN txg ELSE ds_trysnap_txg[d]]

\* dsl_dataset_prev_snap_txg(): the last snapshot, or one that was tried in
\* a group that is not yet synced.
PrevSnapTxg(d) ==
    Max({ds_prev_snap_txg[d],
         IF ds_trysnap_txg[d] > tx_synced_txg THEN ds_trysnap_txg[d] ELSE 0})

\* The loop over the tasks of a group keeps the last error.
CheckTasks(k, txg) ==
    LET on == cast.task[k].on
        bad == {i \in DOMAIN on : SnapshotError(k, on[i], txg) # "0"}
    IN  IF bad = {} THEN "0" ELSE SnapshotError(k, on[Max(bad)], txg)

\* The syncfuncs run on all the datasets of the group or on none.
Executed_each(k, e) ==
    {d \in {cast.task[k].on[i] : i \in DOMAIN cast.task[k].on} :
       SnapshotError(k, d, tx_syncing_txg) = "0"}
Executed(k, e) ==
    IF e = "0" THEN {cast.task[k].on[i] : i \in DOMAIN cast.task[k].on} ELSE {}

\* dsl_sync_task_group_sync() of the first task group of the list.
SyncTask(k) ==
    LET g == Slot(tx_syncing_txg)
        full == dd_used["root"] + TaskSpace > PoolSize - Deferred
        e == IF full THEN "ENOSPC" ELSE CheckTasks(k, tx_syncing_txg)
    IN  /\ phase = "tasks" /\ dp_sync_tasks[g] # <<>>
        /\ k = Head(dp_sync_tasks[g])
        /\ dp_sync_tasks' = [dp_sync_tasks EXCEPT ![g] = Tail(@)]
        /\ dstg_err' = [dstg_err EXCEPT ![k] = e]
        /\ snaps' = snaps \cup
              {[ds |-> d, name |-> cast.task[k].name, txg |-> tx_syncing_txg,
                by |-> k, has |-> contents[d]] : d \in Executed(k, e)}
        /\ ds_prev_snap_txg' = [d \in Dirs |->
              IF d \in Executed(k, e) THEN tx_syncing_txg ELSE ds_prev_snap_txg[d]]
        /\ ds_trysnap_txg' = IF full THEN ds_trysnap_txg
                                      ELSE Tried(k, tx_syncing_txg)
        /\ UNCHANGED <<cast, estVars, pipeVars, reqVars, envVars, txVars,
                       dnVars, resVars, diskVars, kpc, k_txg>>

\* The end of dsl_pool_sync() and of spa_sync(): frees are deferred for
\* TXG_DEFER_SIZE groups, the labels are written.
SyncDone ==
    /\ phase = "tasks" /\ ~suspended
    /\ dp_sync_tasks[Slot(tx_syncing_txg)] = <<>>
    /\ dp_space_towrite' = [dp_space_towrite EXCEPT ![Slot(tx_syncing_txg)] = 0]
    /\ deferred' = <<freeing, deferred[1]>> /\ freeing' = 0
    /\ tx_synced_txg' = tx_syncing_txg /\ tx_syncing_txg' = 0
    /\ phase' = "idle"
    /\ UNCHANGED <<cast, estVars, tx_open_txg, quiescing, tx_quiesced_txg,
                   reqVars, envVars, txVars, dnVars, dd_space_towrite,
                   dd_tempreserved, dp_tempreserved, dd_used, contents,
                   taskVars>>

\* zio_suspend() and zio_resume(): while the pool is suspended no group can
\* be written.
Suspend ==
    /\ ~suspended /\ suspends < cast.MaxSuspend
    /\ suspended' = TRUE /\ suspends' = suspends + 1
    /\ UNCHANGED <<cast, estVars, pipeVars, reqVars, timers, throttles, txVars,
                   dnVars, resVars, diskVars, taskVars>>

Resume ==
    /\ suspended /\ suspended' = FALSE
    /\ UNCHANGED <<cast, estVars, pipeVars, reqVars, timers, throttles,
                   suspends, txVars, dnVars, resVars, diskVars, taskVars>>

-----------------------------------------------------------------------------
(* dmu_tx_assign(): dmu_tx_try_assign() step by step.                      *)

Goto(t, where) == pc' = [pc EXCEPT ![t] = where]
Set(f, t, v) == [f EXCEPT ![t] = v]

\* A suspended pool: EIO or, after dmu_tx_unassign() of nothing, a wait.
AssignSuspended(t) ==
    /\ pc[t] = "start" /\ suspended
    /\ IF CONTINUE /\ op(t).how # "TXG_WAIT"
       THEN err' = Set(err, t, "EIO") /\ Goto(t, "failed")
       ELSE err' = Set(err, t, "ERESTART") /\ Goto(t, "wait")
    /\ UNCHANGED <<cast, estVars, pipeVars, reqVars, envVars, tx_txg,
                   tx_lasttried_txg, needassign, idx, until, dnVars, resVars,
                   diskVars, taskVars>>

HoldOpen(t) ==
    /\ pc[t] = "start" /\ ~suspended
    /\ tx_txg' = Set(tx_txg, t, tx_open_txg)
    /\ needassign' = Set(needassign, t, 0)
    /\ idx' = Set(idx, t, 1)
    /\ Goto(t, "hold")
    /\ UNCHANGED <<cast, estVars, pipeVars, reqVars, envVars, tx_lasttried_txg,
                   until, err, dnVars, resVars, diskVars, taskVars>>

\* One turn of the loop over tx_holds, under dn_mtx.
OtherGroup_never(n, t) == FALSE
OtherGroup(n, t) == dn_assigned_txg[n] = tx_txg[t] - 1
HoldDnode(t) ==
    /\ pc[t] = "hold" /\ idx[t] <= Len(holds(t))
    /\ LET n == holds(t)[idx[t]] IN
       IF OtherGroup(n, t)
       THEN /\ needassign' = Set(needassign, t, idx[t])
            /\ err' = Set(err, t, "ERESTART")
            /\ Goto(t, "unassign")
            /\ UNCHANGED <<idx, dnVars>>
       ELSE /\ dn_assigned_txg' =
                 IF dn_assigned_txg[n] = 0
                 THEN Set(dn_assigned_txg, n, tx_txg[t]) ELSE dn_assigned_txg
            /\ dn_tx_holds' = Set(dn_tx_holds, n,
                                  dn_tx_holds[n] \cup {<<t, idx[t]>>})
            /\ idx' = Set(idx, t, idx[t] + 1)
            /\ UNCHANGED <<needassign, err, pc>>
    /\ UNCHANGED <<cast, estVars, pipeVars, reqVars, envVars, tx_txg,
                   tx_lasttried_txg, until, resVars, diskVars, taskVars>>

\* arc_tempreserve_space(): too little memory for the moment.
MemoryThrottle(t) ==
    /\ pc[t] = "hold" /\ idx[t] > Len(holds(t))
    /\ throttles < cast.MaxThrottle /\ throttles' = throttles + 1
    /\ err' = Set(err, t, "ERESTART")
    /\ Goto(t, "unassign")
    /\ UNCHANGED <<cast, estVars, pipeVars, reqVars, suspended, timers,
                   suspends, tx_txg, tx_lasttried_txg, needassign, idx, until,
                   dnVars, resVars, diskVars, taskVars>>

\* fsize >= asize: what t removes or overwrites is as much as it writes.  It
\* can be freed unless a snapshot was there when t made its estimates
\* (dsl_dataset_block_freeable()) or has come since.
IsNetFree(t) ==
    /\ op(t).frees >= op(t).asize
    /\ tx_lastsnap_txg[t] = 0
    /\ PrevSnapTxg(op(t).dir) <= tx_lastsnap_txg[t]

\* The estimates, then dsl_pool_tempreserve_space(): the limit of one group.
ReservePool(t) ==
    LET g == Slot(tx_txg[t])
        reserved == dp_space_towrite[g] + dp_tempreserved[g] \div 2
    IN  /\ pc[t] = "hold" /\ idx[t] > Len(holds(t))
        /\ IF reserved > 0 /\ reserved > WriteLimit
           THEN /\ err' = Set(err, t, "ERESTART") /\ Goto(t, "unassign")
                /\ UNCHANGED dp_tempreserved
           ELSE /\ dp_tempreserved' = [dp_tempreserved EXCEPT
                                         ![g] = @ + op(t).asize]
                /\ Goto(t, "dirs")
                /\ UNCHANGED err
        /\ netfree' = Set(netfree, t, IsNetFree(t))
        /\ UNCHANGED <<cast, tx_lastsnap_txg, pipeVars, reqVars, envVars,
                       tx_txg, tx_lasttried_txg, needassign, idx, until,
                       dnVars, dd_space_towrite, dd_tempreserved,
                       dp_space_towrite, diskVars, taskVars>>

SumSlots(f) == f[0] + f[1] + f[2] + f[3]
EstInflight_towrite(d) == SumSlots(dd_space_towrite[d])
EstInflight(d) == SumSlots(dd_space_towrite[d]) + SumSlots(dd_tempreserved[d])

\* dsl_dir_tempreserve_impl() of one directory, under its dd_lock: "0", or
\* why there is no room.  A quota of 0 is none.
ReserveError(t, d) ==
    LET used == dd_used[d]
        est == EstInflight(d)
        free == netfree[t]
        quota == IF d = "root"
                 THEN PoolSize + (IF free THEN 1 ELSE 0) - Deferred
                 ELSE Quota[d]
    IN  IF (d # "root" /\ (free \/ quota = 0)) \/ used + est < quota THEN "0"
        ELSE IF \/ est > 0 \/ used < quota
                \/ d = "root" /\ used < quota + Deferred
        THEN "ERESTART"
        ELSE IF d = "root" THEN "ENOSPC" ELSE "EDQUOT"

\* One level of the reservation: the file system, then the pool.  When the
\* last one agrees dmu_tx_assign() is done.
ReserveDir(t) ==
    LET d == IF pc[t] = "dirs" THEN op(t).dir ELSE "root"
        e == ReserveError(t, d)
    IN  /\ pc[t] \in {"dirs", "root"}
        /\ IF e = "0"
           THEN /\ dd_tempreserved' = [dd_tempreserved EXCEPT
                     ![d][Slot(tx_txg[t])] = @ + op(t).asize]
                /\ Goto(t, IF d = "root" THEN "assigned" ELSE "root")
                /\ UNCHANGED err
           ELSE /\ err' = Set(err, t, e)
                /\ Goto(t, IF d = "root" THEN "undoroot" ELSE "undo")
                /\ UNCHANGED dd_tempreserved
        /\ UNCHANGED <<cast, estVars, pipeVars, reqVars, envVars, tx_txg,
                       tx_lasttried_txg, needassign, idx, until, dnVars,
                       dd_space_towrite, dp_space_towrite, dp_tempreserved,
                       diskVars, taskVars>>

\* dsl_dir_tempreserve_clear(), one entry of the list after the other.
ClearPool(t, next) ==
    /\ dp_tempreserved' = [dp_tempreserved EXCEPT
                             ![Slot(tx_txg[t])] = @ - op(t).asize]
    /\ Goto(t, next)
    /\ UNCHANGED dd_tempreserved
ClearDir(t, d, next) ==
    /\ dd_tempreserved' = [dd_tempreserved EXCEPT
                             ![d][Slot(tx_txg[t])] = @ - op(t).asize]
    /\ Goto(t, next)
    /\ UNCHANGED dp_tempreserved

\* The file system or the pool has refused.
ReserveUndo(t) ==
    /\ \/ pc[t] = "undo" /\ ClearPool(t, "unassign")
       \/ pc[t] = "undoroot" /\ ClearPool(t, "undodir")
       \/ pc[t] = "undodir" /\ ClearDir(t, op(t).dir, "unassign")
    /\ UNCHANGED <<cast, estVars, pipeVars, reqVars, envVars, tx_txg,
                   tx_lasttried_txg, needassign, idx, until, err, dnVars,
                   dd_space_towrite, dp_space_towrite, diskVars, taskVars>>

-----------------------------------------------------------------------------
(* dmu_tx_unassign(), dmu_tx_wait()                                        *)

\* txg_rele_to_quiesce()
Unassign(t) ==
    /\ pc[t] = "unassign"
    /\ idx' = Set(idx, t, 1)
    /\ Goto(t, "drop")
    /\ UNCHANGED <<cast, estVars, pipeVars, reqVars, envVars, tx_txg,
                   tx_lasttried_txg, needassign, until, err, dnVars, resVars,
                   diskVars, taskVars>>

\* cv_broadcast(dn_notxholds)
Woken_lost(n) == pc
Woken(n) ==
    [u \in Txs |-> IF pc[u] = "dsleep" /\ holds(u)[needassign[u]] = n
                   THEN "dwait" ELSE pc[u]]

\* Drop the hold of t on its idx-th dnode, under dn_mtx.
DropHold(t) ==
    LET n == holds(t)[idx[t]]
        left == dn_tx_holds[n] \ {<<t, idx[t]>>}
    IN  /\ dn_tx_holds' = Set(dn_tx_holds, n, left)
        /\ dn_assigned_txg' = IF left = {} THEN Set(dn_assigned_txg, n, 0)
                                           ELSE dn_assigned_txg
        /\ pc' = IF left = {} THEN Woken(n) ELSE pc
        /\ idx' = Set(idx, t, idx[t] + 1)

LastHold(t) == IF needassign[t] = 0 THEN Len(holds(t)) ELSE needassign[t] - 1

UnassignDrop(t) ==
    /\ pc[t] = "drop" /\ idx[t] <= LastHold(t)
    /\ DropHold(t)
    /\ UNCHANGED <<cast, estVars, pipeVars, reqVars, envVars, tx_txg,
                   tx_lasttried_txg, needassign, until, err, resVars, diskVars,
                   taskVars>>

\* txg_rele_to_sync() and the end of dmu_tx_unassign(); a TXG_NOWAIT caller
\* answers ERESTART with dmu_tx_wait() too.
UnassignDone(t) ==
    /\ pc[t] = "drop" /\ idx[t] > LastHold(t)
    /\ tx_lasttried_txg' = Set(tx_lasttried_txg, t, tx_txg[t])
    /\ tx_txg' = Set(tx_txg, t, 0)
    /\ Goto(t, IF err[t] = "ERESTART" THEN "wait" ELSE "failed")
    /\ UNCHANGED <<cast, estVars, pipeVars, reqVars, envVars, needassign, idx,
                   until, err, dnVars, resVars, diskVars, taskVars>>

Larger(a, b) == IF a < b THEN b ELSE a

\* dmu_tx_wait(): for a group to be synced, for the dnode, or for the next
\* group to open.
Wait(t) ==
    /\ pc[t] = "wait"
    /\ IF suspended \/ tx_lasttried_txg[t] = 0
       THEN /\ until' = Set(until, t, tx_synced_txg + 1)
            /\ tx_sync_txg_waiting' =
                 Larger(tx_sync_txg_waiting, tx_synced_txg + 1)
            /\ Goto(t, "synced")
            /\ UNCHANGED tx_quiesce_txg_waiting
       ELSE IF needassign[t] # 0
       THEN /\ Goto(t, "dwait")
            /\ UNCHANGED <<until, reqVars>>
       ELSE /\ until' = Set(until, t, tx_lasttried_txg[t] + 1)
            /\ tx_quiesce_txg_waiting' =
                 Larger(tx_quiesce_txg_waiting, tx_lasttried_txg[t] + 1)
            /\ Goto(t, "open")
            /\ UNCHANGED tx_sync_txg_waiting
    /\ UNCHANGED <<cast, estVars, pipeVars, envVars, tx_txg, tx_lasttried_txg,
                   needassign, idx, err, dnVars, resVars, diskVars, taskVars>>

\* The way back to dmu_tx_try_assign().  The TXG_NOWAIT caller aborts its
\* transaction and comes with a new one, which makes its estimates anew.
Retry(t) ==
    /\ Goto(t, "start")
    /\ tx_lasttried_txg' = IF op(t).how = "TXG_WAIT" THEN tx_lasttried_txg
                           ELSE Set(tx_lasttried_txg, t, 0)
    /\ needassign' = IF pc[t] = "dwait" \/ op(t).how # "TXG_WAIT"
                     THEN Set(needassign, t, 0) ELSE needassign
    /\ tx_lastsnap_txg' =
         IF op(t).how = "TXG_WAIT" THEN tx_lastsnap_txg
         ELSE Set(tx_lastsnap_txg, t, PrevSnapTxg(op(t).dir))
    /\ UNCHANGED <<cast, netfree, pipeVars, reqVars, envVars, tx_txg, idx,
                   until, err, dnVars, resVars, diskVars, taskVars>>

WaitDnode(t) ==
    /\ pc[t] = "dwait"
    /\ IF dn_assigned_txg[holds(t)[needassign[t]]] = tx_lasttried_txg[t] - 1
       THEN /\ Goto(t, "dsleep")
            /\ UNCHANGED <<cast, estVars, pipeVars, reqVars, envVars, tx_txg,
                           tx_lasttried_txg, needassign, idx, until, err,
                           dnVars, resVars, diskVars, taskVars>>
       ELSE Retry(t)

WaitOver(t) ==
    /\ \/ pc[t] = "synced" /\ tx_synced_txg >= until[t]
       \/ pc[t] = "open" /\ tx_open_txg >= until[t]
    /\ Retry(t)

-----------------------------------------------------------------------------
(* The body of the transaction, dmu_tx_commit()                            *)

\* dsl_dir_willuse_space(), from dbuf_dirty()
WillUse(t) ==
    LET g == Slot(tx_txg[t]) IN
    /\ pc[t] = "assigned"
    /\ dp_space_towrite' = [dp_space_towrite EXCEPT ![g] = @ + op(t).asize]
    /\ dd_space_towrite' = [d \in AllDirs |->
          IF d \in Ancestry(op(t).dir)
          THEN [dd_space_towrite[d] EXCEPT ![g] = @ + op(t).asize]
          ELSE dd_space_towrite[d]]
    /\ idx' = Set(idx, t, 1)
    /\ Goto(t, "commit")
    /\ UNCHANGED <<cast, estVars, pipeVars, reqVars, envVars, tx_txg,
                   tx_lasttried_txg, needassign, until, err, dnVars,
                   dd_tempreserved, dp_tempreserved, diskVars, taskVars>>

CommitDrop(t) ==
    /\ pc[t] = "commit" /\ idx[t] <= Len(holds(t))
    /\ DropHold(t)
    /\ UNCHANGED <<cast, estVars, pipeVars, reqVars, envVars, tx_txg,
                   tx_lasttried_txg, needassign, until, err, resVars, diskVars,
                   taskVars>>

CommitClear_early(t) ==
    /\ pc[t] = "commit" /\ idx[t] > Len(holds(t))
    /\ Goto(t, "done")
    /\ UNCHANGED <<cast, estVars, pipeVars, reqVars, envVars, tx_txg,
                   tx_lasttried_txg, needassign, idx, until, err, dnVars,
                   resVars, diskVars, taskVars>>
CommitClear(t) ==
    /\ \/ pc[t] = "commit" /\ idx[t] > Len(holds(t)) /\ ClearPool(t, "cleardir")
       \/ pc[t] = "cleardir" /\ ClearDir(t, op(t).dir, "clearroot")
       \/ pc[t] = "clearroot" /\ ClearDir(t, "root", "leave")
    /\ UNCHANGED <<cast, estVars, pipeVars, reqVars, envVars, tx_txg,
                   tx_lasttried_txg, needassign, idx, until, err, dnVars,
                   dd_space_towrite, dp_space_towrite, diskVars, taskVars>>

\* txg_rele_to_sync()
CommitDone(t) ==
    /\ pc[t] = "leave"
    /\ Goto(t, "done")
    /\ UNCHANGED <<cast, estVars, pipeVars, reqVars, envVars, tx_txg,
                   tx_lasttried_txg, needassign, idx, until, err, dnVars,
                   resVars, diskVars, taskVars>>

-----------------------------------------------------------------------------
(* dsl_sync_task_group_wait(), for snapshots                               *)

TaskGoto(k, where) == kpc' = [kpc EXCEPT ![k] = where]

\* The transaction of the task holds no dnode and reserves nothing.
TaskAssign(k) ==
    /\ kpc[k] = "start" /\ ~suspended
    /\ k_txg' = Set(k_txg, k, tx_open_txg)
    /\ TaskGoto(k, "check")
    /\ UNCHANGED <<cast, estVars, pipeVars, reqVars, envVars, txVars, dnVars,
                   resVars, diskVars, dstg_err, dp_sync_tasks, snaps,
                   ds_prev_snap_txg, ds_trysnap_txg>>

\* The preliminary check, and the entry into dp_sync_tasks.
TaskCheck(k) ==
    /\ kpc[k] = "check"
    /\ dstg_err' = Set(dstg_err, k, CheckTasks(k, k_txg[k]))
    /\ IF dstg_err'[k] # "0"
       THEN TaskGoto(k, "returned") /\ UNCHANGED dp_sync_tasks
       ELSE /\ dp_sync_tasks' = [dp_sync_tasks EXCEPT
                                   ![Slot(k_txg[k])] = Append(@, k)]
            /\ TaskGoto(k, "queued")
    /\ ds_trysnap_txg' = Tried(k, k_txg[k])
    /\ UNCHANGED <<cast, estVars, pipeVars, reqVars, envVars, txVars, dnVars,
                   resVars, diskVars, k_txg, snaps, ds_prev_snap_txg>>

\* dmu_tx_commit() and txg_wait_synced(); after EAGAIN a second, longer wait.
TaskSleep(k, from, to, txg) ==
    /\ kpc[k] = from
    /\ tx_sync_txg_waiting' = Larger(tx_sync_txg_waiting, txg)
    /\ TaskGoto(k, to)
    /\ UNCHANGED <<cast, estVars, pipeVars, tx_quiesce_txg_waiting, envVars,
                   txVars, dnVars, resVars, diskVars, k_txg, dstg_err,
                   dp_sync_tasks, snaps, ds_prev_snap_txg, ds_trysnap_txg>>
TaskCommit(k) == TaskSleep(k, "queued", "synced", k_txg[k])
TaskAgain(k) ==
    /\ tx_synced_txg >= k_txg[k] /\ dstg_err[k] = "EAGAIN"
    /\ TaskSleep(k, "synced", "again", k_txg[k] + TXG_DEFER_SIZE)

TaskWake(k) ==
    /\ \/ /\ kpc[k] = "synced" /\ tx_synced_txg >= k_txg[k]
          /\ dstg_err[k] # "EAGAIN" /\ TaskGoto(k, "returned")
       \/ /\ kpc[k] = "again" /\ tx_synced_txg >= k_txg[k] + TXG_DEFER_SIZE
          /\ TaskGoto(k, "start")
    /\ UNCHANGED <<cast, estVars, pipeVars, reqVars, envVars, txVars, dnVars,
                   resVars, diskVars, k_txg, dstg_err, dp_sync_tasks, snaps,
                   ds_prev_snap_txg, ds_trysnap_txg>>

-----------------------------------------------------------------------------
TxStep(t) ==
    \/ AssignSuspended(t) \/ HoldOpen(t) \/ HoldDnode(t)
    \/ MemoryThrottle(t) \/ ReservePool(t) \/ ReserveDir(t) \/ ReserveUndo(t)
    \/ Unassign(t) \/ UnassignDrop(t) \/ UnassignDone(t)
    \/ Wait(t) \/ WaitDnode(t) \/ WaitOver(t)
    \/ WillUse(t) \/ CommitDrop(t) \/ CommitClear(t) \/ CommitDone(t)
TaskStep(k) ==
    TaskAssign(k) \/ TaskCheck(k) \/ TaskCommit(k) \/ TaskAgain(k) \/ TaskWake(k)
SyncStep ==
    SyncStart \/ SyncDatasets \/ SyncDirs \/ (\E k \in Tasks : SyncTask(k))
      \/ SyncDone
GroupStep == SyncThreadAsks \/ Quiesce \/ Quiesced \/ SyncStep

AllReturned ==
    /\ \A t \in Txs : pc[t] \in {"done", "failed"}
    /\ \A k \in Tasks : kpc[k] = "returned"

Next ==
    \/ \E t \in Txs : TxStep(t)
    \/ \E k \in Tasks : TaskStep(k)
    \/ GroupStep \/ Suspend \/ Resume

Spec == Init /\ [][Next]_vars

\* The two threads of txg.c run, and so do the callers; nobody promises that
\* a suspended pool is resumed.
FairSpec ==
    /\ Spec
    /\ \A t \in Txs : WF_vars(TxStep(t))
    /\ \A k \in Tasks : WF_vars(TaskStep(k))
    /\ WF_vars(SyncThreadAsks) /\ WF_vars(Quiesce) /\ WF_vars(Quiesced)
    /\ WF_vars(SyncStep)

-----------------------------------------------------------------------------
(* Properties                                                              *)

\* A dnode is changed in one group at a time: whoever holds it is in the
\* group of dn_assigned_txg, which is 0 exactly when nobody holds it (the
\* assertions of dmu_tx_try_assign(), dmu_tx_unassign() and
\* dmu_tx_commit()).
DnodeInOneGroup ==
    \A n \in Dnodes :
      /\ \A h \in dn_tx_holds[n] : dn_assigned_txg[n] = tx_txg[h[1]]
      /\ dn_assigned_txg[n] = 0 <=> dn_tx_holds[n] = {}

\* The last group that is written to the datasets.
Through ==
    IF phase \in {"dirs", "tasks"} THEN tx_syncing_txg ELSE tx_synced_txg

\* Where a transaction is when its file system has let it in.
Dirty == {"commit", "cleardir", "clearroot", "leave", "done"}
LetIn == Dirty \cup {"root", "assigned"}

\* Those that were let in under the quota, and those that are written and
\* were let in without it, as net free.
Admitted(d) ==
    {t \in Txs : pc[t] \in LetIn /\ op(t).dir = d /\ ~netfree[t]}
Exempt(d) ==
    {t \in Txs : /\ pc[t] = "done" /\ op(t).dir = d /\ netfree[t]
                 /\ tx_txg[t] <= Through}

\* The "one free hit" of dsl_dir_tempreserve_impl(); a file system may be
\* over its quota from the start.
WithinQuota(d, used) ==
    Quota[d] # 0 =>
      \/ used < Quota[d]
      \/ used <= cast.used[d]
      \/ \E t \in Admitted(d) : used < Quota[d] + op(t).asize

\* The quota check of dsl_dir_tempreserve_impl() counts what is on disk, what
\* is dirty and what is reserved, so that however many transactions race for
\* the last free space a file system exceeds its quota by less than one of
\* them, and by what the net free ones have written.  These are let through
\* unchecked, and give nothing back when a snapshot is executed between
\* their assignment and their group (the "small window" that the comment of
\* dsl_dataset_prev_snap_txg() admits) or when the old blocks were
\* compressed.
QuotaHolds ==
    \A d \in Dirs : WithinQuota(d, dd_used[d] - Size(cast.tx, Exempt(d)))

\* dsl_dir_sync() and dsl_pool_sync() assert that nothing is reserved any
\* more in the group they write: a reservation is cleared before its
\* transaction leaves the group, on the error paths as well.
ReservationsEnd ==
    tx_syncing_txg # 0 =>
        /\ dp_tempreserved[Slot(tx_syncing_txg)] = 0
        /\ \A d \in AllDirs : dd_tempreserved[d][Slot(tx_syncing_txg)] = 0

\* dsl_sync_task_group_wait() tells the truth: a group that returned 0 has
\* taken all its snapshots, once each and in one txg; one that returned an
\* error has taken none.
TasksAreAtomic ==
    \A k \in DOMAIN cast.task :
      LET mine == {s \in snaps : s.by = k} IN
      kpc[k] = "returned" =>
        IF dstg_err[k] = "0"
        THEN /\ Cardinality(mine) = Len(cast.task[k].on)
             /\ Cardinality({s.txg : s \in mine}) = 1
        ELSE mine = {}

\* A snapshot is the dataset at the end of its group: it has exactly the
\* transactions of the groups up to its own, and no other snapshot of the
\* dataset has the same txg or name.
SnapshotsAreGroups ==
    \A s \in snaps :
      /\ s.has = {t \in Txs : /\ pc[t] = "done" /\ op(t).dir = s.ds
                              /\ tx_txg[t] <= s.txg}
      /\ \A r \in snaps :
           r # s /\ r.ds = s.ds => r.txg # s.txg /\ r.name # s.name

\* As long as the pool does not stay suspended every dmu_tx_assign() and
\* every sync task returns, whatever the waits for dnodes, groups and space
\* are (dmu_tx_assign() "will only fail if we're truly out of space").
EveryoneReturns == <>[]~suspended => <>AllReturned

-----------------------------------------------------------------------------
(* The inductive invariant behind DnodeInOneGroup: which of its holds a    *)
(* transaction has taken at each point of the code.                        *)

Held(t) ==
    CASE pc[t] = "hold" -> 1 .. idx[t] - 1
      [] pc[t] \in {"dirs", "root", "assigned", "undo", "undoroot", "undodir"} ->
           1 .. Len(holds(t))
      [] pc[t] = "unassign" -> 1 .. LastHold(t)
      [] pc[t] = "drop" -> idx[t] .. LastHold(t)
      [] pc[t] = "commit" -> idx[t] .. Len(holds(t))
      [] OTHER -> {}

PCs == Inside \cup {"start", "wait", "dwait", "dsleep", "synced", "open",
                    "done", "failed"}

TypeOK ==
    /\ cast \in Casts
    /\ tx_open_txg \in Nat /\ tx_open_txg > 1
    /\ quiescing \in {0, tx_open_txg - 1}
    /\ pc \in [Txs -> PCs]
    /\ tx_txg \in [Txs -> Nat]
    /\ idx \in [Txs -> Nat \ {0}]
    /\ needassign \in [Txs -> Nat]
    /\ dn_assigned_txg \in [Dnodes -> Nat]
    /\ dn_tx_holds \in [Dnodes -> SUBSET (Txs \X Nat)]

\* Whoever is inside a group is in the open or the quiescing one, and in the
\* open one while it holds a tc_lock; an index stays within the holds.
TxInv(t) ==
    /\ pc[t] # "failed" => t \in DOMAIN cast.tx
    /\ pc[t] \in TcLocked => tx_txg[t] = tx_open_txg
    /\ pc[t] \in Inside =>
         tx_txg[t] = tx_open_txg \/ (quiescing # 0 /\ tx_txg[t] = quiescing)
    /\ pc[t] = "hold" => idx[t] <= Len(holds(t)) + 1
    /\ pc[t] \in {"hold", "dirs", "root", "assigned", "undo", "undoroot",
                 "undodir"} => needassign[t] = 0
    /\ needassign[t] # 0 => needassign[t] \in DOMAIN holds(t)

HoldsAreExact ==
    /\ \A n \in Dnodes : \A h \in dn_tx_holds[n] :
         h[2] \in Held(h[1]) /\ holds(h[1])[h[2]] = n
    /\ \A t \in Txs : \A i \in Held(t) : <<t, i>> \in dn_tx_holds[holds(t)[i]]

IInv == TypeOK /\ (\A t \in Txs : TxInv(t)) /\ HoldsAreExact /\ DnodeInOneGroup

-----------------------------------------------------------------------------
(* The inductive invariant behind TasksAreAtomic and SnapshotsAreGroups.   *)

\* At most one group is closed and not yet syncing, and one is syncing.
PipeInv ==
    /\ tx_synced_txg \in Nat
    /\ tx_quiesced_txg \in {0, tx_open_txg - 1}
    /\ quiescing = 0 \/ tx_quiesced_txg = 0
    /\ tx_syncing_txg \in {0, tx_synced_txg + 1}
    /\ tx_open_txg = tx_synced_txg + 1 + (IF tx_syncing_txg = 0 THEN 0 ELSE 1)
                       + (IF quiescing = 0 /\ tx_quiesced_txg = 0 THEN 0 ELSE 1)
    /\ phase \in {"idle", "datasets", "dirs", "tasks"}
    /\ phase = "idle" <=> tx_syncing_txg = 0

DoneThrough(d, g) ==
    {t \in Txs : pc[t] = "done" /\ op(t).dir = d /\ tx_txg[t] <= g}

ContentsInv == contents = [d \in Dirs |-> DoneThrough(d, Through)]

SnapInv ==
    /\ ds_prev_snap_txg \in [Dirs -> Nat]
    /\ \A d \in Dirs : ds_prev_snap_txg[d] <= Through
    /\ \A s \in snaps : /\ s.ds \in Dirs /\ s.txg \in Nat
                         /\ s.txg <= ds_prev_snap_txg[s.ds]
                         /\ s.has = DoneThrough(s.ds, s.txg)
    /\ \A r, s \in snaps :
         r # s /\ r.ds = s.ds => r.txg # s.txg /\ r.name # s.name

\* What is in the list of a group is there once, and waits for this group.
QueueInv ==
    /\ dp_sync_tasks \in [Slots -> Seq(Tasks)]
    /\ \A g \in Slots : \A i \in DOMAIN dp_sync_tasks[g] :
         LET q == dp_sync_tasks[g][i]
         IN  /\ kpc[q] \in {"queued", "synced"} /\ Slot(k_txg[q]) = g
             /\ tx_synced_txg < k_txg[q] /\ k_txg[q] <= tx_open_txg
             /\ \A j \in DOMAIN dp_sync_tasks[g] : dp_sync_tasks[g][j] = q => j = i

IsQueued(k) ==
    \E g \in Slots : \E i \in DOMAIN dp_sync_tasks[g] : dp_sync_tasks[g][i] = k
Taken(k) == {s \in snaps : s.by = k}

\* A group of tasks that was executed: all of it or nothing.
Outcome(k) ==
    IF dstg_err[k] = "0"
    THEN /\ {s.ds : s \in Taken(k)} =
              {cast.task[k].on[i] : i \in DOMAIN cast.task[k].on}
         /\ \A r, s \in Taken(k) : r.txg = s.txg /\ (r.ds = s.ds => r = s)
    ELSE Taken(k) = {}

TaskInv(k) ==
    /\ kpc[k] \in {"start", "check", "queued", "synced", "again", "returned"}
    /\ kpc[k] # "returned" => k \in DOMAIN cast.task
    /\ kpc[k] = "check" =>
         k_txg[k] = tx_open_txg \/ (quiescing # 0 /\ k_txg[k] = quiescing)
    /\ kpc[k] \in {"start", "check", "again"} \/ IsQueued(k) => Taken(k) = {}
    /\ kpc[k] \in {"queued", "synced", "returned"} /\ ~IsQueued(k) =>
         (k \in DOMAIN cast.task => Outcome(k))

TasksInv ==
    /\ DOMAIN kpc = Tasks /\ k_txg \in [Tasks -> Nat] /\ DOMAIN dstg_err = Tasks
    /\ QueueInv
    /\ \A k \in Tasks : TaskInv(k)

-----------------------------------------------------------------------------
(* The inductive invariant behind ReservationsEnd and QuotaHolds: whose    *)
(* space every counter counts.                                             *)

\* The last group whose estimates dsl_dir_sync() has cleared.
Cleared == IF phase = "tasks" THEN tx_syncing_txg ELSE tx_synced_txg

InPool == {"dirs", "root", "assigned", "commit", "undo", "undoroot"}
InDir(d) ==
    {"assigned", "commit", "cleardir"} \cup
      (IF d = "root" THEN {"clearroot"} ELSE {"root", "undoroot", "undodir"})

PoolReservers(g) == {t \in Txs : pc[t] \in InPool /\ Slot(tx_txg[t]) = g}
DirReservers(d, g) ==
    {t \in Txs : /\ pc[t] \in InDir(d)
                 /\ d \in Ancestry(op(t).dir) /\ Slot(tx_txg[t]) = g}
Writers(d, g) ==
    {t \in Txs : /\ pc[t] \in Dirty /\ tx_txg[t] > Cleared
                 /\ d \in Ancestry(op(t).dir) /\ Slot(tx_txg[t]) = g}

PoolInv ==
    /\ dp_tempreserved \in [Slots -> Nat]
    /\ \A g \in Slots : dp_tempreserved[g] = Size(cast.tx, PoolReservers(g))
DirInv ==
    /\ dd_tempreserved \in [AllDirs -> [Slots -> Nat]]
    /\ \A d \in AllDirs, g \in Slots :
         dd_tempreserved[d][g] = Size(cast.tx, DirReservers(d, g))
WriteInv ==
    /\ dd_space_towrite \in [AllDirs -> [Slots -> Nat]]
    /\ \A d \in AllDirs, g \in Slots :
         dd_space_towrite[d][g] = Size(cast.tx, Writers(d, g))

\* A transaction that committed has a group that was opened.
DoneBefore == \A t \in Txs : pc[t] = "done" => tx_txg[t] <= tx_open_txg

\* Transactions of the quota that dd_used does not count yet, and what is
\* used when all of them are written.
Uncharged(d) == {t \in Admitted(d) : tx_txg[t] > Through}
Promised(d) ==
    dd_used[d] + Size(cast.tx, Uncharged(d)) - Size(cast.tx, Exempt(d))

QuotaInv ==
    /\ DOMAIN netfree = Txs
    /\ \A d \in Dirs : dd_used[d] \in Int /\ WithinQuota(d, Promised(d))
=============================================================================
