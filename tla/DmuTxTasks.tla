----------------------------- MODULE DmuTxTasks -----------------------------
(***************************************************************************)
(* Proofs about the sync tasks of module DmuTx: groups of tasks are atomic *)
(* and a snapshot is the dataset at the end of a group, for any number of  *)
(* transactions, tasks and datasets.                                       *)
(***************************************************************************)
EXTENDS DmuTxProofs, FiniteSetTheorems

SyncInv == IInv /\ PipeInv /\ ContentsInv /\ SnapInv /\ TasksInv

-----------------------------------------------------------------------------
(* Arithmetic.                                                             *)

\* A set of natural numbers has a smallest element.
LEMMA Smallest ==
    ASSUME NEW T, T \subseteq Nat, T # {}
    PROVE  \E x \in T : \A y \in T : x <= y
  <1> DEFINE R == {ss \in Nat \X Nat : ss[1] < ss[2]}
  <1>1. IsWellFoundedOn(R, Nat)
    BY Zenon, NatLessThanWellFounded DEF OpToRel
  <1>2. \A x, y \in Nat : <<y, x>> \in R <=> y < x
    BY Zenon
  <1> HIDE DEF R
  <1>3. \E x \in T : \A y \in T : ~(<<y, x>> \in R)
    BY Zenon, <1>1, WFMin
  <1> PICK x \in T : \A y \in T : ~(<<y, x>> \in R)
    BY Zenon, <1>3
  <1>4. \A y \in T : ~(y < x)
    BY Zenon, <1>2
  <1>5. \A y \in T : x <= y
    BY <1>4
  <1> QED
    BY Zenon, <1>5

\* A set of indices has a largest element, the one that Max chooses.
LEMMA MaxIn ==
    ASSUME NEW n \in Nat, NEW S, S \subseteq 1 .. n, S # {}
    PROVE  Max(S) \in S
  <1> DEFINE T == {n - x : x \in S}
  <1>1. T \subseteq Nat /\ T # {}
    <2>1. \A x \in S : n - x \in Nat
      OBVIOUS
    <2> QED
      BY Zenon, <2>1
  <1>2. PICK m \in T : \A y \in T : m <= y
    BY Zenon, <1>1, Smallest
  <1>3. PICK x \in S : m = n - x
    BY Zenon
  <1>4. \A y \in S : n - y \in T
    BY Zenon
  <1>5. \A y \in S : x >= y
    <2> HIDE DEF T
    <2> TAKE y \in S
    <2>1. n - x <= n - y
      BY Zenon, <1>2, <1>3, <1>4
    <2> QED
      BY <2>1
  <1> QED
    BY Zenon, <1>3, <1>5 DEF Max

-----------------------------------------------------------------------------
(* The transactions: whoever commits is in a group that is not written.    *)

\* A step of a transaction changes none of what is settled.
LEMMA TxStepSettles ==
    ASSUME IInv, PipeInv, NEW t \in Txs, TxStep(t)
    PROVE  /\ UNCHANGED <<cast, pipeVars, taskVars, contents>>
           /\ \A u \in Txs : /\ pc[u] = "done" => pc'[u] = "done" /\ tx_txg'[u] = tx_txg[u]
                             /\ pc'[u] = "done" /\ pc[u] # "done" => tx_txg'[u] > Through
  <1>1. pc \in [Txs -> PCs] /\ tx_txg \in [Txs -> Nat]
    BY Zenon DEF IInv, TypeOK
  <1>2. CASE AssignSuspended(t) \/ HoldOpen(t) \/ HoldDnode(t) \/ MemoryThrottle(t)
    BY Zenon, <1>1, <1>2 DEF AssignSuspended, HoldOpen, HoldDnode, MemoryThrottle, Goto, Set, diskVars
  <1>3. CASE ReservePool(t) \/ ReserveDir(t) \/ ReserveUndo(t)
    BY Zenon, <1>1, <1>3 DEF ReservePool, ReserveDir, ReserveUndo, ClearPool, ClearDir, Goto, Set,
                              diskVars
  <1>4. CASE Unassign(t) \/ UnassignDone(t) \/ Wait(t) \/ WaitDnode(t) \/ WaitOver(t)
    BY Zenon, <1>1, <1>4 DEF Unassign, UnassignDone, Wait, WaitDnode, WaitOver, Retry, Goto, Set, diskVars
  <1>5. CASE UnassignDrop(t) \/ CommitDrop(t)
    BY Zenon, <1>1, <1>5 DEF UnassignDrop, CommitDrop, DropHold, Woken, diskVars
  <1>6. CASE WillUse(t) \/ CommitClear(t)
    BY Zenon, <1>1, <1>6 DEF WillUse, CommitClear, ClearPool, ClearDir, Goto, Set, diskVars
  <1>7. CASE CommitDone(t)
    <2>1. pc[t] = "leave" /\ pc' = [pc EXCEPT ![t] = "done"] /\ UNCHANGED tx_txg
      BY Zenon, <1>7 DEF CommitDone, Goto
    <2>2. tx_txg[t] > Through
      BY Zenon, <2>1, InsideIsLater DEF Inside
    <2> QED
      BY Zenon, <1>1, <1>7, <2>1, <2>2 DEF CommitDone, diskVars
  <1> QED
    BY Zenon, <1>2, <1>3, <1>4, <1>5, <1>6, <1>7 DEF TxStep

-----------------------------------------------------------------------------
(* The parts of the invariant that a step leaves alone.                    *)

\* A step that settles no transaction, writes no dataset and takes no
\* snapshot.
LEMMA SettledKeep ==
    ASSUME IInv, PipeInv, ContentsInv, SnapInv, tx_txg' \in [Txs -> Nat],
           UNCHANGED <<cast, contents, snaps, ds_prev_snap_txg>>, Through' = Through,
           \A u \in Txs : /\ pc[u] = "done" => pc'[u] = "done" /\ tx_txg'[u] = tx_txg[u]
                          /\ pc'[u] = "done" /\ pc[u] # "done" => tx_txg'[u] > Through
    PROVE  ContentsInv' /\ SnapInv'
  <1>1. Through \in Nat
    BY DEF PipeInv, Through
  <1>2. \A u \in Txs : \A g \in Nat : g <= Through =>
          (pc'[u] = "done" /\ tx_txg'[u] <= g <=> pc[u] = "done" /\ tx_txg[u] <= g)
    BY <1>1 DEF IInv, TypeOK
  <1>3. ContentsInv'
    BY <1>1, <1>2 DEF ContentsInv, DoneThrough, op
  <1>4. ASSUME NEW s \in snaps
        PROVE  /\ s.ds \in Dirs /\ s.txg \in Nat
               /\ s.txg <= ds_prev_snap_txg[s.ds]
               /\ s.has = DoneThrough(s.ds, s.txg)'
    <2>1. /\ s.ds \in Dirs /\ s.txg \in Nat /\ s.txg <= ds_prev_snap_txg[s.ds]
          /\ s.has = DoneThrough(s.ds, s.txg) /\ ds_prev_snap_txg[s.ds] \in Nat
          /\ ds_prev_snap_txg[s.ds] <= Through
      BY Zenon DEF SnapInv
    <2>2. s.txg <= Through
      BY <1>1, <2>1
    <2> QED
      BY Zenon, <1>2, <2>1, <2>2 DEF DoneThrough, op
  <1>5. SnapInv'
    BY Zenon, <1>4 DEF SnapInv
  <1> QED
    BY Zenon, <1>3, <1>5

\* A step that changes neither a task nor a snapshot.
LEMMA TasksKeep ==
    ASSUME TasksInv, UNCHANGED <<cast, taskVars>>,
           \A k \in Tasks : kpc[k] = "check" =>
             k_txg[k] = tx_open_txg' \/ (quiescing' # 0 /\ k_txg[k] = quiescing'),
           \A g \in Slots : \A i \in DOMAIN dp_sync_tasks[g] :
             tx_synced_txg' < k_txg[dp_sync_tasks[g][i]] /\ k_txg[dp_sync_tasks[g][i]] <= tx_open_txg'
    PROVE  TasksInv'
  <1>1. QueueInv'
    BY DEF TasksInv, QueueInv, taskVars
  <1>2. ASSUME NEW k \in Tasks PROVE TaskInv(k)'
    <2>1. TaskInv(k) /\ (IsQueued(k)' <=> IsQueued(k)) /\ Taken(k)' = Taken(k) /\ (Outcome(k)' <=> Outcome(k))
      BY DEF TasksInv, IsQueued, Taken, Outcome, taskVars
    <2> QED
      BY Zenon, <2>1 DEF TaskInv, taskVars
  <1> QED
    BY Zenon, <1>1, <1>2 DEF TasksInv, taskVars

\* A step that touches neither the groups nor the tasks.
LEMMA TxKeeps ==
    ASSUME SyncInv, IInv', PipeInv', UNCHANGED <<cast, pipeVars, taskVars, contents>>,
           \A u \in Txs : /\ pc[u] = "done" => pc'[u] = "done" /\ tx_txg'[u] = tx_txg[u]
                          /\ pc'[u] = "done" /\ pc[u] # "done" => tx_txg'[u] > Through
    PROVE  SyncInv'
  <1>2. Through' = Through /\ tx_txg' \in [Txs -> Nat]
    BY Zenon DEF Through, pipeVars, IInv, TypeOK
  <1>3. ContentsInv' /\ SnapInv'
    BY Zenon, <1>2, SettledKeep DEF SyncInv, taskVars
  <1>4. TasksInv'
    <2>1. \A k \in Tasks : kpc[k] = "check" =>
             k_txg[k] = tx_open_txg' \/ (quiescing' # 0 /\ k_txg[k] = quiescing')
      BY Zenon DEF SyncInv, TasksInv, TaskInv, pipeVars
    <2>2. \A g \in Slots : \A i \in DOMAIN dp_sync_tasks[g] :
             tx_synced_txg' < k_txg[dp_sync_tasks[g][i]] /\ k_txg[dp_sync_tasks[g][i]] <= tx_open_txg'
      BY Zenon DEF SyncInv, TasksInv, QueueInv, pipeVars
    <2> QED
      BY Zenon, <2>1, <2>2, TasksKeep DEF SyncInv
  <1> QED
    BY Zenon, <1>3, <1>4 DEF SyncInv

-----------------------------------------------------------------------------
(* The groups.                                                             *)

\* The steps of the groups that write nothing.
LEMMA GroupKeeps ==
    ASSUME SyncInv, IInv', PipeInv', Quiesce \/ Quiesced \/ SyncStart \/ SyncDirs
    PROVE  SyncInv'
  <1>1. UNCHANGED <<cast, txVars, contents, taskVars, tx_synced_txg>>
    BY Zenon DEF Quiesce, Quiesced, SyncStart, SyncDirs, diskVars
  <1>2. UNCHANGED <<cast, pc, tx_txg, contents, snaps, ds_prev_snap_txg>>
    BY Zenon, <1>1 DEF txVars, taskVars
  <1>4. Through' = Through
    BY Zenon DEF SyncInv, PipeInv, Through, Quiesce, Quiesced, SyncStart, SyncDirs
  <1>5. ContentsInv' /\ SnapInv'
    BY Zenon, <1>2, <1>4, SettledKeep DEF SyncInv, IInv, TypeOK
  <1>6. ASSUME NEW k \in Tasks, kpc[k] = "check"
        PROVE  k_txg[k] = tx_open_txg' \/ (quiescing' # 0 /\ k_txg[k] = quiescing')
    <2>1. /\ k_txg[k] = tx_open_txg \/ (quiescing # 0 /\ k_txg[k] = quiescing)
          /\ tx_open_txg # 0
      BY <1>6 DEF SyncInv, TasksInv, TaskInv, IInv, TypeOK
    <2>2. CASE Quiesced
      <3>1. k \notin Holders(quiescing)
        BY Zenon, <2>2 DEF Quiesced
      <3>2. k_txg[k] # quiescing
        BY Zenon, <1>6, <3>1 DEF Holders, TaskInside
      <3> QED
        BY Zenon, <2>1, <2>2, <3>2 DEF Quiesced
    <2> QED
      BY Zenon, <2>1, <2>2 DEF Quiesce, SyncStart, SyncDirs
  <1>7. ASSUME NEW g \in Slots, NEW i \in DOMAIN dp_sync_tasks[g]
        PROVE  /\ tx_synced_txg' < k_txg[dp_sync_tasks[g][i]]
               /\ k_txg[dp_sync_tasks[g][i]] <= tx_open_txg'
    <2> DEFINE k == dp_sync_tasks[g][i]
    <2>1. tx_synced_txg < k_txg[k] /\ k_txg[k] <= tx_open_txg
      BY Zenon DEF SyncInv, TasksInv, QueueInv
    <2>2. k \in Tasks /\ k_txg[k] \in Nat
      BY DEF SyncInv, TasksInv, QueueInv
    <2>3. tx_open_txg' \in {tx_open_txg, tx_open_txg + 1} /\ tx_open_txg \in Nat
      BY Zenon DEF SyncInv, IInv, TypeOK, Quiesce, Quiesced, SyncStart, SyncDirs
    <2> QED
      BY <1>1, <2>1, <2>2, <2>3
  <1>8. TasksInv'
    BY Zenon, <1>1, <1>6, <1>7, TasksKeep DEF SyncInv
  <1> QED
    BY Zenon, <1>5, <1>8 DEF SyncInv

\* The group is written to the datasets.
LEMMA SyncDatasetsKeeps ==
    ASSUME SyncInv, IInv', PipeInv', SyncDatasets
    PROVE  SyncInv'
  <1>1. /\ UNCHANGED <<cast, txVars, taskVars, tx_synced_txg, tx_syncing_txg>>
        /\ UNCHANGED <<tx_open_txg, quiescing, tx_quiesced_txg, tx_synced_txg>>
        /\ phase = "datasets" /\ phase' = "dirs"
        /\ contents' = [d \in Dirs |-> contents[d] \cup InGroup(tx_syncing_txg, d)]
    BY Zenon DEF SyncDatasets
  <1>3. /\ Through = tx_synced_txg /\ Through' = tx_syncing_txg
        /\ tx_syncing_txg = tx_synced_txg + 1 /\ tx_synced_txg \in Nat
    BY Zenon, <1>1 DEF SyncInv, PipeInv, Through
  <1>4. ContentsInv'
    <2>1. ASSUME NEW d \in Dirs
          PROVE  DoneThrough(d, tx_syncing_txg) = DoneThrough(d, tx_synced_txg) \cup InGroup(tx_syncing_txg, d)
      <3>1. d # "root"
        BY Zenon, DmuTxAssumption
      <3>2. \A t \in Txs : tx_txg[t] \in Nat
        BY Zenon DEF SyncInv, IInv, TypeOK
      <3> QED
        BY <1>3, <3>1, <3>2 DEF DoneThrough, InGroup
    <2>2. \A d \in Dirs : DoneThrough(d, Through)' = DoneThrough(d, tx_syncing_txg)
      BY Zenon, <1>1, <1>3 DEF DoneThrough, txVars, op
    <2>3. contents' = [d \in Dirs |-> DoneThrough(d, tx_syncing_txg)]
      BY Zenon, <1>1, <1>3, <2>1 DEF SyncInv, ContentsInv
    <2> QED
      BY Zenon, <2>2, <2>3 DEF ContentsInv
  <1>5. SnapInv'
    <2>1. \A s \in snaps : DoneThrough(s.ds, s.txg)' = DoneThrough(s.ds, s.txg)
      BY Zenon, <1>1 DEF DoneThrough, txVars, op
    <2>2. \A d \in Dirs : ds_prev_snap_txg[d] <= Through'
      BY <1>3 DEF SyncInv, SnapInv
    <2> QED
      BY Zenon, <1>1, <2>1, <2>2 DEF SyncInv, SnapInv, taskVars
  <1>6. TasksInv'
    <2>1. \A k \in Tasks : kpc[k] = "check" =>
             k_txg[k] = tx_open_txg' \/ (quiescing' # 0 /\ k_txg[k] = quiescing')
      BY Zenon, <1>1 DEF SyncInv, TasksInv, TaskInv
    <2>2. \A g \in Slots : \A i \in DOMAIN dp_sync_tasks[g] :
             tx_synced_txg' < k_txg[dp_sync_tasks[g][i]] /\ k_txg[dp_sync_tasks[g][i]] <= tx_open_txg'
      BY <1>1 DEF SyncInv, TasksInv, QueueInv
    <2> QED
      BY Zenon, <1>1, <2>1, <2>2, TasksKeep DEF SyncInv
  <1> QED
    BY Zenon, <1>4, <1>5, <1>6 DEF SyncInv

\* The group is synced: none of its tasks is left.
LEMMA SyncDoneKeeps ==
    ASSUME SyncInv, IInv', PipeInv', SyncDone
    PROVE  SyncInv'
  <1>1. /\ UNCHANGED <<cast, txVars, contents, taskVars>>
        /\ UNCHANGED <<tx_open_txg, quiescing, tx_quiesced_txg>>
        /\ tx_synced_txg' = tx_syncing_txg /\ tx_syncing_txg' = 0
        /\ phase = "tasks" /\ phase' = "idle"
        /\ dp_sync_tasks[Slot(tx_syncing_txg)] = <<>>
    BY Zenon DEF SyncDone
  <1>2. tx_syncing_txg = tx_synced_txg + 1 /\ tx_synced_txg \in Nat
    BY Zenon, <1>1 DEF SyncInv, PipeInv
  <1>4. Through' = Through
    BY Zenon, <1>1 DEF Through
  <1>5. ContentsInv' /\ SnapInv'
    BY Zenon, <1>1, <1>4, SettledKeep DEF SyncInv, IInv, TypeOK, txVars, taskVars
  <1>6. ASSUME NEW g \in Slots, NEW i \in DOMAIN dp_sync_tasks[g]
        PROVE  /\ tx_synced_txg' < k_txg[dp_sync_tasks[g][i]]
               /\ k_txg[dp_sync_tasks[g][i]] <= tx_open_txg'
    <2> DEFINE k == dp_sync_tasks[g][i]
    <2>1. tx_synced_txg < k_txg[k] /\ k_txg[k] <= tx_open_txg /\ Slot(k_txg[k]) = g
      BY Zenon DEF SyncInv, TasksInv, QueueInv
    <2>2. k \in Tasks /\ k_txg[k] \in Nat
      BY DEF SyncInv, TasksInv, QueueInv
    <2>3. k_txg[k] # tx_syncing_txg
      BY <1>1, <2>1
    <2> QED
      BY <1>1, <1>2, <2>1, <2>2, <2>3
  <1>7. TasksInv'
    <2>1. \A k \in Tasks : kpc[k] = "check" =>
             k_txg[k] = tx_open_txg' \/ (quiescing' # 0 /\ k_txg[k] = quiescing')
      BY Zenon, <1>1 DEF SyncInv, TasksInv, TaskInv
    <2> QED
      BY Zenon, <1>1, <1>6, <2>1, TasksKeep DEF SyncInv
  <1> QED
    BY Zenon, <1>5, <1>7 DEF SyncInv

-----------------------------------------------------------------------------
(* The tasks.                                                              *)

\* The loop over the checks finds an error if there is one.
LEMMA CheckTasksResult ==
    ASSUME cast \in Casts, NEW k \in DOMAIN cast.task, NEW txg
    PROVE  /\ CheckTasks(k, txg) = "0" =>
                \A i \in DOMAIN cast.task[k].on : SnapshotError(k, cast.task[k].on[i], txg) = "0"
           /\ CheckTasks(k, txg) # "ENOSPC"
  <1> DEFINE on == cast.task[k].on
             bad == {i \in DOMAIN on : SnapshotError(k, on[i], txg) # "0"}
  <1>1. on \in Seq(Dirs)
    BY Zenon, DmuTxAssumption
  <1>2. Len(on) \in Nat /\ bad \subseteq 1 .. Len(on)
    BY <1>1
  <1>3. bad # {} => Max(bad) \in bad
    BY Zenon, <1>2, MaxIn
  <1>4. CheckTasks(k, txg) = IF bad = {} THEN "0" ELSE SnapshotError(k, on[Max(bad)], txg)
    BY Zenon DEF CheckTasks
  <1>5. \A d : SnapshotError(k, d, txg) \in {"0", "EAGAIN", "EEXIST"}
    BY Zenon DEF SnapshotError
  <1> HIDE DEF bad
  <1>6. CheckTasks(k, txg) = "0" => bad = {}
    <2>1. bad # {} => SnapshotError(k, on[Max(bad)], txg) # "0"
      BY Zenon, <1>3 DEF bad
    <2> QED
      BY Zenon, <1>4, <2>1
  <1>7. bad = {} => \A i \in DOMAIN on : SnapshotError(k, on[i], txg) = "0"
    BY Zenon DEF bad
  <1>8. CheckTasks(k, txg) # "ENOSPC"
    BY Zenon, <1>4, <1>5
  <1> QED
    BY Zenon, <1>6, <1>7, <1>8

\* A step of a group of tasks outside dsl_sync_task_group_sync(), apart from
\* the check.
LEMMA TaskMoves ==
    ASSUME SyncInv, IInv', NEW k \in Tasks,
           TaskAssign(k) \/ TaskCommit(k) \/ TaskAgain(k) \/ TaskWake(k)
    PROVE  TasksInv'
  <1>1. /\ UNCHANGED <<cast, tx_open_txg, quiescing, tx_synced_txg, dstg_err, dp_sync_tasks, snaps>>
        /\ k_txg' \in [Tasks -> Nat]
        /\ \A j \in Tasks : kpc[j] # "start" => k_txg'[j] = k_txg[j]
        /\ DOMAIN kpc' = Tasks
        /\ \A j \in Tasks \ {k} : kpc'[j] = kpc[j] /\ k_txg'[j] = k_txg[j]
    BY DEF SyncInv, IInv, TypeOK, TasksInv, TaskAssign, TaskCommit, TaskAgain, TaskWake, TaskSleep,
           TaskGoto, Set, pipeVars
  <1>2. \/ kpc[k] = "start" /\ kpc'[k] = "check" /\ k_txg'[k] = tx_open_txg
        \/ kpc[k] = "queued" /\ kpc'[k] = "synced"
        \/ kpc[k] = "synced" /\ kpc'[k] = "again" /\ tx_synced_txg >= k_txg[k] /\ dstg_err[k] = "EAGAIN"
        \/ kpc[k] = "synced" /\ kpc'[k] = "returned" /\ tx_synced_txg >= k_txg[k]
        \/ kpc[k] = "again" /\ kpc'[k] = "start"
    BY Zenon DEF SyncInv, TasksInv, TaskAssign, TaskCommit, TaskAgain, TaskWake, TaskSleep, TaskGoto, Set
  <1>3. ASSUME NEW j \in Tasks
        PROVE  /\ TaskInv(j) /\ (IsQueued(j)' <=> IsQueued(j)) /\ Taken(j)' = Taken(j)
               /\ (Outcome(j)' <=> Outcome(j))
    BY <1>1 DEF SyncInv, TasksInv, IsQueued, Taken, Outcome
  <1>4. IsQueued(k) => kpc[k] \in {"queued", "synced"} /\ tx_synced_txg < k_txg[k]
    BY Zenon DEF SyncInv, TasksInv, QueueInv, IsQueued
  <1>5. IsQueued(k) => ~(tx_synced_txg >= k_txg[k])
    <2>1. tx_synced_txg \in Nat /\ k_txg[k] \in Nat
      BY Zenon DEF SyncInv, PipeInv, TasksInv
    <2> QED
      BY <1>4, <2>1
  <1>6. QueueInv'
    <2> SUFFICES ASSUME NEW g \in Slots, NEW i \in DOMAIN dp_sync_tasks[g]
                 PROVE  LET m == dp_sync_tasks[g][i]
                        IN  kpc'[m] \in {"queued", "synced"} /\ k_txg'[m] = k_txg[m]
      BY <1>1 DEF SyncInv, TasksInv, QueueInv
    <2> DEFINE m == dp_sync_tasks[g][i]
    <2>1. m \in Tasks /\ kpc[m] \in {"queued", "synced"} /\ IsQueued(m)
      <3>1. dp_sync_tasks[g] \in Seq(Tasks) /\ kpc[m] \in {"queued", "synced"}
        BY Zenon DEF SyncInv, TasksInv, QueueInv
      <3>2. m \in Tasks
        BY <3>1
      <3>3. IsQueued(m)
        BY Zenon DEF IsQueued
      <3> QED
        BY Zenon, <3>1, <3>2, <3>3
    <2> QED
      BY Zenon, <1>1, <1>2, <1>5, <2>1
  <1>7. ASSUME NEW j \in Tasks \ {k} PROVE TaskInv(j)'
    BY <1>1, <1>3 DEF TaskInv
  <1>8. TaskInv(k)'
    BY Zenon, <1>1, <1>2, <1>3, <1>4, <1>5 DEF TaskInv, Outcome
  <1> QED
    BY Zenon, <1>1, <1>6, <1>7, <1>8 DEF SyncInv, TasksInv

\* The preliminary check: an error returns, otherwise the group of tasks is
\* appended to the list of its txg.
LEMMA TaskCheckKeeps ==
    ASSUME SyncInv, IInv', NEW k \in Tasks, TaskCheck(k)
    PROVE  TasksInv'
  <1> DEFINE h == Slot(k_txg[k])
             old == dp_sync_tasks[h]
  <1>1. /\ UNCHANGED <<cast, tx_open_txg, quiescing, tx_synced_txg, k_txg, snaps>>
        /\ kpc[k] = "check" /\ dstg_err' = [dstg_err EXCEPT ![k] = CheckTasks(k, k_txg[k])]
    BY Zenon DEF TaskCheck, Set, pipeVars
  <1>2. /\ TaskInv(k) /\ k \in DOMAIN cast.task /\ Taken(k) = {} /\ k_txg[k] \in Nat /\ h \in Slots
        /\ dstg_err'[k] = CheckTasks(k, k_txg[k])
        /\ \A j \in Tasks \ {k} : dstg_err'[j] = dstg_err[j]
        /\ DOMAIN dstg_err' = Tasks
    BY Zenon, <1>1, SlotType DEF SyncInv, TasksInv, TaskInv
  <1>3. ~IsQueued(k)
    BY Zenon, <1>1 DEF IsQueued, SyncInv, TasksInv, QueueInv
  <1>4. tx_synced_txg < k_txg[k] /\ k_txg[k] <= tx_open_txg
    <2>1. k_txg[k] = tx_open_txg \/ (quiescing # 0 /\ k_txg[k] = quiescing)
      BY Zenon, <1>1, <1>2 DEF TaskInv
    <2>2. PipeInv /\ tx_open_txg \in Nat /\ quiescing \in {0, tx_open_txg - 1}
      BY Zenon DEF SyncInv, IInv, TypeOK
    <2> QED
      BY <2>1, <2>2 DEF PipeInv
  <1>5. \A j \in Tasks : Taken(j)' = Taken(j)
    BY Zenon, <1>1 DEF Taken
  <1>6. \A j \in Tasks \ {k} : Outcome(j)' <=> Outcome(j)
    <2> TAKE j \in Tasks \ {k}
    <2>1. cast' = cast /\ dstg_err'[j] = dstg_err[j] /\ Taken(j)' = Taken(j)
      BY Zenon, <1>1, <1>2, <1>5
    <2> QED
      BY <2>1 DEF Outcome
  <1>7. CASE dstg_err'[k] # "0"
    <2>1. kpc' = [kpc EXCEPT ![k] = "returned"] /\ UNCHANGED dp_sync_tasks
      BY Zenon, <1>7 DEF TaskCheck, TaskGoto
    <2>2. /\ kpc'[k] = "returned" /\ DOMAIN kpc' = Tasks
          /\ \A j \in Tasks \ {k} : kpc'[j] = kpc[j]
      BY Zenon, <2>1 DEF SyncInv, TasksInv
    <2>3. \A j \in Tasks : IsQueued(j)' <=> IsQueued(j)
      BY Zenon, <2>1 DEF IsQueued
    <2>4. QueueInv'
      <3> SUFFICES ASSUME NEW g \in Slots, NEW i \in DOMAIN dp_sync_tasks[g]
                   PROVE  kpc'[dp_sync_tasks[g][i]] = kpc[dp_sync_tasks[g][i]]
        BY <1>1, <2>1 DEF SyncInv, TasksInv, QueueInv
      <3>1. dp_sync_tasks[g][i] \in Tasks /\ IsQueued(dp_sync_tasks[g][i])
        BY DEF SyncInv, TasksInv, QueueInv, IsQueued
      <3> QED
        BY Zenon, <1>3, <2>2, <3>1
    <2>5. ASSUME NEW j \in Tasks \ {k} PROVE TaskInv(j)'
      BY Zenon, <1>1, <1>5, <1>6, <2>2, <2>3 DEF TaskInv, SyncInv, TasksInv
    <2>6. TaskInv(k)'
      BY Zenon, <1>1, <1>2, <1>3, <1>5, <1>7, <2>2, <2>3 DEF TaskInv, Outcome
    <2> QED
      BY Zenon, <1>1, <1>2, <2>2, <2>4, <2>5, <2>6 DEF SyncInv, TasksInv
  <1>8. CASE dstg_err'[k] = "0"
    <2>1. kpc' = [kpc EXCEPT ![k] = "queued"] /\ dp_sync_tasks' = [dp_sync_tasks EXCEPT ![h] = Append(old, k)]
      BY Zenon, <1>8 DEF TaskCheck, TaskGoto
    <2>2. /\ kpc'[k] = "queued" /\ DOMAIN kpc' = Tasks
          /\ \A j \in Tasks \ {k} : kpc'[j] = kpc[j]
      BY Zenon, <2>1 DEF SyncInv, TasksInv
    <2>3. old \in Seq(Tasks) /\ dp_sync_tasks \in [Slots -> Seq(Tasks)]
      BY Zenon, <1>2 DEF SyncInv, TasksInv, QueueInv
    <2>4. /\ dp_sync_tasks' \in [Slots -> Seq(Tasks)]
          /\ \A g \in Slots \ {h} : dp_sync_tasks'[g] = dp_sync_tasks[g]
          /\ dp_sync_tasks'[h] = Append(old, k)
      BY <1>2, <2>1, <2>3
    <2>5. /\ Len(old) \in Nat /\ DOMAIN old = 1 .. Len(old) /\ DOMAIN Append(old, k) = 1 .. Len(old) + 1
          /\ Append(old, k)[Len(old) + 1] = k
          /\ \A i \in 1 .. Len(old) : Append(old, k)[i] = old[i]
      BY <2>3
    <2>6. \A g \in Slots : \A i \in DOMAIN dp_sync_tasks[g] :
            dp_sync_tasks[g][i] \in Tasks /\ dp_sync_tasks[g][i] # k
      BY <1>3, <2>3 DEF IsQueued
    <2>7. IsQueued(k)' /\ \A j \in Tasks \ {k} : IsQueued(j)' <=> IsQueued(j)
      <3>1. IsQueued(k)'
        BY <1>2, <2>4, <2>5 DEF IsQueued
      <3>2. ASSUME NEW j \in Tasks \ {k} PROVE IsQueued(j)' <=> IsQueued(j)
        <4>1. (\E i \in DOMAIN dp_sync_tasks'[h] : dp_sync_tasks'[h][i] = j) <=> \E i \in DOMAIN old : old[i] = j
          BY <2>4, <2>5
        <4>2. \A g \in Slots : (\E i \in DOMAIN dp_sync_tasks'[g] : dp_sync_tasks'[g][i] = j)
                                 <=> \E i \in DOMAIN dp_sync_tasks[g] : dp_sync_tasks[g][i] = j
          BY Zenon, <2>4, <4>1
        <4> QED
          BY Zenon, <4>2 DEF IsQueued
      <3> QED
        BY Zenon, <3>1, <3>2
    <2>8. QueueInv'
      <3>1. ASSUME NEW g \in Slots, NEW i \in DOMAIN dp_sync_tasks'[g]
            PROVE  LET m == dp_sync_tasks'[g][i]
                   IN  /\ kpc'[m] \in {"queued", "synced"} /\ Slot(k_txg[m]) = g
                       /\ tx_synced_txg < k_txg[m] /\ k_txg[m] <= tx_open_txg
                       /\ \A j \in DOMAIN dp_sync_tasks'[g] : dp_sync_tasks'[g][j] = m => j = i
        <4>1. CASE g # h
          BY <2>2, <2>4, <2>6, <4>1 DEF SyncInv, TasksInv, QueueInv
        <4>2. CASE g = h /\ i = Len(old) + 1
          <5>1. dp_sync_tasks'[g][i] = k
            BY Zenon, <2>4, <2>5, <4>2
          <5>2. \A j \in 1 .. Len(old) : dp_sync_tasks'[g][j] # k
            BY <1>2, <2>4, <2>5, <2>6, <4>2
          <5>3. \A j \in DOMAIN dp_sync_tasks'[g] : dp_sync_tasks'[g][j] = k => j = i
            BY <2>4, <2>5, <4>2, <5>2
          <5> QED
            BY Zenon, <1>4, <2>2, <4>2, <5>1, <5>3
        <4>3. CASE g = h /\ i \in 1 .. Len(old)
          <5>1. dp_sync_tasks'[g][i] = old[i] /\ old[i] # k /\ old[i] \in Tasks
            BY Zenon, <2>4, <2>5, <2>6, <4>3
          <5>2. \A j \in DOMAIN dp_sync_tasks'[g] : dp_sync_tasks'[g][j] = old[i] => j = i
            <6>1. \A j \in 1 .. Len(old) : old[j] = old[i] => j = i
              BY <1>2, <2>5, <4>3 DEF SyncInv, TasksInv, QueueInv
            <6>2. ASSUME NEW j \in 1 .. Len(old) + 1, Append(old, k)[j] = old[i] PROVE j = i
              <7>1. j # Len(old) + 1
                BY Zenon, <2>5, <5>1, <6>2
              <7>2. j \in 1 .. Len(old)
                BY <2>5, <7>1
              <7> QED
                BY Zenon, <2>5, <6>1, <6>2, <7>2
            <6> QED
              BY Zenon, <2>4, <2>5, <4>3, <6>2
          <5>3. /\ kpc[old[i]] \in {"queued", "synced"} /\ Slot(k_txg[old[i]]) = g
                /\ tx_synced_txg < k_txg[old[i]] /\ k_txg[old[i]] <= tx_open_txg
            BY <1>2, <2>5, <4>3 DEF SyncInv, TasksInv, QueueInv
          <5> QED
            BY Zenon, <2>2, <5>1, <5>2, <5>3
        <4> QED
          BY <2>4, <2>5, <4>1, <4>2, <4>3
      <3> QED
        BY Zenon, <1>1, <2>4, <3>1 DEF QueueInv
    <2>9. ASSUME NEW j \in Tasks \ {k} PROVE TaskInv(j)'
      BY Zenon, <1>1, <1>5, <1>6, <2>2, <2>7 DEF TaskInv, SyncInv, TasksInv
    <2>10. TaskInv(k)'
      BY Zenon, <1>1, <1>2, <1>5, <2>2, <2>7 DEF TaskInv
    <2> QED
      BY Zenon, <1>1, <1>2, <2>2, <2>8, <2>9, <2>10 DEF SyncInv, TasksInv
  <1> QED
    BY Zenon, <1>7, <1>8

\* What dsl_sync_task_group_sync() adds.
NewSnaps(k, ds) ==
    {[ds |-> d, name |-> cast.task[k].name, txg |-> tx_syncing_txg,
      by |-> k, has |-> contents[d]] : d \in ds}

\* The first group of tasks in the list of the syncing group, and what it does.
LEMMA SyncTaskFacts ==
    ASSUME SyncInv, NEW k \in Tasks, SyncTask(k)
    PROVE  LET g == Slot(tx_syncing_txg)
               list == dp_sync_tasks[g]
           IN  /\ UNCHANGED <<cast, pipeVars, txVars, contents, kpc, k_txg>>
               /\ phase = "tasks" /\ tx_syncing_txg \in Nat /\ g \in Slots
               /\ list \in Seq(Tasks) /\ list # <<>> /\ k = Head(list)
               /\ dp_sync_tasks' = [dp_sync_tasks EXCEPT ![g] = Tail(list)]
               /\ Taken(k) = {} /\ k \in DOMAIN cast.task
               /\ DOMAIN dstg_err' = Tasks /\ \A j \in Tasks \ {k} : dstg_err'[j] = dstg_err[j]
               /\ \E E \in SUBSET Dirs :
                    /\ snaps' = snaps \cup NewSnaps(k, E)
                    /\ ds_prev_snap_txg' = [d \in Dirs |->
                         IF d \in E THEN tx_syncing_txg ELSE ds_prev_snap_txg[d]]
                    /\ \A d \in E : SnapshotError(k, d, tx_syncing_txg) = "0"
                    /\ E = IF dstg_err'[k] = "0"
                           THEN {cast.task[k].on[i] : i \in DOMAIN cast.task[k].on} ELSE {}
  <1> DEFINE g == Slot(tx_syncing_txg)
             list == dp_sync_tasks[g]
             e == IF dd_used["root"] + TaskSpace > PoolSize - Deferred
                  THEN "ENOSPC" ELSE CheckTasks(k, tx_syncing_txg)
             E == Executed(k, e)
  <1>1. /\ phase = "tasks" /\ list # <<>> /\ k = Head(list)
        /\ dp_sync_tasks' = [dp_sync_tasks EXCEPT ![g] = Tail(list)]
        /\ dstg_err' = [dstg_err EXCEPT ![k] = e]
        /\ snaps' = snaps \cup NewSnaps(k, E)
        /\ ds_prev_snap_txg' = [d \in Dirs |-> IF d \in E THEN tx_syncing_txg ELSE ds_prev_snap_txg[d]]
        /\ UNCHANGED <<cast, pipeVars, txVars, contents, kpc, k_txg>>
    BY Zenon DEF SyncTask, NewSnaps, diskVars
  <1>2. tx_syncing_txg \in Nat /\ g \in Slots
    BY <1>1, SlotType DEF SyncInv, PipeInv
  <1>3. list \in Seq(Tasks) /\ DOMAIN dstg_err = Tasks
    BY Zenon, <1>2 DEF SyncInv, TasksInv, QueueInv
  <1>4. 1 \in DOMAIN list /\ list[1] = k
    BY <1>1, <1>3
  <1>5. kpc[k] \in {"queued", "synced"} /\ IsQueued(k)
    BY Zenon, <1>2, <1>4 DEF SyncInv, TasksInv, QueueInv, IsQueued
  <1>6. Taken(k) = {} /\ k \in DOMAIN cast.task /\ cast \in Casts
    BY Zenon, <1>5 DEF SyncInv, TasksInv, TaskInv, IInv, TypeOK
  <1>7. /\ dstg_err'[k] = e /\ DOMAIN dstg_err' = Tasks
        /\ \A j \in Tasks \ {k} : dstg_err'[j] = dstg_err[j]
    BY Zenon, <1>1, <1>3
  <1>8. E = IF e = "0" THEN {cast.task[k].on[i] : i \in DOMAIN cast.task[k].on} ELSE {}
    BY Zenon DEF Executed
  <1>9. E \in SUBSET Dirs
    <2>1. cast.task[k].on \in Seq(Dirs)
      BY Zenon, <1>6, DmuTxAssumption
    <2>2. \A i \in DOMAIN cast.task[k].on : cast.task[k].on[i] \in Dirs
      BY <2>1
    <2> QED
      BY <1>8, <2>2
  <1>10. e = "0" => CheckTasks(k, tx_syncing_txg) = "0"
    BY Zenon
  <1> HIDE DEF e, E
  <1>11. \A d \in E : SnapshotError(k, d, tx_syncing_txg) = "0"
    <2>1. CASE e = "0"
      <3>1. \A i \in DOMAIN cast.task[k].on : SnapshotError(k, cast.task[k].on[i], tx_syncing_txg) = "0"
        BY Zenon, <1>6, <1>10, <2>1, CheckTasksResult
      <3> QED
        BY Zenon, <1>8, <2>1, <3>1
    <2> QED
      BY Zenon, <1>8, <2>1
  <1>12. E = IF dstg_err'[k] = "0" THEN {cast.task[k].on[i] : i \in DOMAIN cast.task[k].on} ELSE {}
    BY Zenon, <1>7, <1>8
  <1> HIDE DEF g, list
  <1>13. \E F \in SUBSET Dirs :
           /\ snaps' = snaps \cup NewSnaps(k, F)
           /\ ds_prev_snap_txg' = [d \in Dirs |-> IF d \in F THEN tx_syncing_txg ELSE ds_prev_snap_txg[d]]
           /\ \A d \in F : SnapshotError(k, d, tx_syncing_txg) = "0"
           /\ F = IF dstg_err'[k] = "0" THEN {cast.task[k].on[i] : i \in DOMAIN cast.task[k].on} ELSE {}
    BY Zenon, <1>1, <1>9, <1>11, <1>12
  <1> QED
    BY Zenon, <1>1, <1>2, <1>3, <1>6, <1>7, <1>13 DEF g, list

\* The fields of the new snapshots.
LEMMA NewSnapFields ==
    ASSUME NEW k, NEW E, NEW s \in NewSnaps(k, E)
    PROVE  /\ s.ds \in E /\ s.name = cast.task[k].name /\ s.txg = tx_syncing_txg
           /\ s.by = k /\ s.has = contents[s.ds]
           /\ \A r \in NewSnaps(k, E) : r.ds = s.ds => r = s
  BY DEF NewSnaps

\* A snapshot is the dataset as it is when the group is written.
LEMMA SyncTaskSnaps ==
    ASSUME SyncInv, NEW k \in Tasks, SyncTask(k)
    PROVE  SnapInv'
  <1>1. PICK E \in SUBSET Dirs :
          /\ snaps' = snaps \cup NewSnaps(k, E)
          /\ ds_prev_snap_txg' = [d \in Dirs |-> IF d \in E THEN tx_syncing_txg ELSE ds_prev_snap_txg[d]]
          /\ \A d \in E : SnapshotError(k, d, tx_syncing_txg) = "0"
    BY Zenon, SyncTaskFacts
  <1>2. UNCHANGED <<cast, pc, tx_txg>> /\ Through = tx_syncing_txg /\ Through' = tx_syncing_txg
        /\ tx_syncing_txg \in Nat
    BY Zenon, SyncTaskFacts DEF Through, pipeVars, txVars
  <1>3. /\ ds_prev_snap_txg \in [Dirs -> Nat]
        /\ \A d \in Dirs : ds_prev_snap_txg[d] <= tx_syncing_txg
    BY Zenon, <1>2 DEF SyncInv, SnapInv
  <1>4. /\ ds_prev_snap_txg' \in [Dirs -> Nat]
        /\ \A d \in Dirs : ds_prev_snap_txg'[d] <= tx_syncing_txg /\ ds_prev_snap_txg[d] <= ds_prev_snap_txg'[d]
        /\ \A d \in E : ds_prev_snap_txg'[d] = tx_syncing_txg
    BY <1>1, <1>2, <1>3
  <1>5. \A d \in E : /\ ds_prev_snap_txg[d] < tx_syncing_txg
                     /\ \A s \in snaps : s.ds = d => s.name # cast.task[k].name
    BY <1>1, <1>2, <1>3 DEF SnapshotError
  <1>6. \A d \in Dirs : contents[d] = DoneThrough(d, tx_syncing_txg)
    BY Zenon, <1>2 DEF SyncInv, ContentsInv
  <1>7. \A d, txg : DoneThrough(d, txg)' = DoneThrough(d, txg)
    BY Zenon, <1>2 DEF DoneThrough, op
  <1>8. ASSUME NEW s \in snaps'
        PROVE  /\ s.ds \in Dirs /\ s.txg \in Nat /\ s.txg <= ds_prev_snap_txg'[s.ds]
               /\ s.has = DoneThrough(s.ds, s.txg)
    <2>1. CASE s \in snaps
      <3>1. /\ s.ds \in Dirs /\ s.txg \in Nat /\ s.txg <= ds_prev_snap_txg[s.ds]
            /\ s.has = DoneThrough(s.ds, s.txg)
        BY Zenon, <2>1 DEF SyncInv, SnapInv
      <3> QED
        BY <1>3, <1>4, <3>1
    <2>2. CASE s \in NewSnaps(k, E)
      <3>1. s.ds \in E /\ s.txg = tx_syncing_txg /\ s.has = contents[s.ds]
        BY <2>2, NewSnapFields
      <3> QED
        BY Zenon, <1>2, <1>4, <1>6, <3>1
    <2> QED
      BY Zenon, <1>1, <2>1, <2>2
  <1>9. ASSUME NEW r \in snaps, NEW s \in NewSnaps(k, E), r.ds = s.ds
        PROVE  r.txg # s.txg /\ r.name # s.name
    <2>1. s.ds \in E /\ s.txg = tx_syncing_txg /\ s.name = cast.task[k].name
      BY NewSnapFields
    <2>2. r.txg \in Nat /\ r.txg <= ds_prev_snap_txg[r.ds] /\ ds_prev_snap_txg[r.ds] \in Nat
      BY Zenon, <1>3, <1>9, <2>1 DEF SyncInv, SnapInv
    <2> QED
      BY <1>2, <1>5, <1>9, <2>1, <2>2
  <1>10. ASSUME NEW r \in snaps', NEW s \in snaps', r # s, r.ds = s.ds
         PROVE  r.txg # s.txg /\ r.name # s.name
    <2>1. CASE r \in snaps /\ s \in snaps
      BY Zenon, <1>10, <2>1 DEF SyncInv, SnapInv
    <2>2. CASE r \in NewSnaps(k, E) /\ s \in NewSnaps(k, E)
      BY <1>10, <2>2, NewSnapFields
    <2> QED
      BY Zenon, <1>1, <1>9, <1>10, <2>1, <2>2
  <1> QED
    BY Zenon, <1>2, <1>4, <1>7, <1>8, <1>10 DEF SnapInv

\* The executed group of tasks leaves the list, and has all of its snapshots
\* or none.
LEMMA SyncTaskTasks ==
    ASSUME SyncInv, NEW k \in Tasks, SyncTask(k)
    PROVE  TasksInv'
  <1> DEFINE g == Slot(tx_syncing_txg)
             list == dp_sync_tasks[g]
             on == {cast.task[k].on[i] : i \in DOMAIN cast.task[k].on}
  <1>1. /\ UNCHANGED <<cast, tx_open_txg, quiescing, tx_synced_txg, kpc, k_txg>>
        /\ g \in Slots /\ list \in Seq(Tasks) /\ list # <<>> /\ k = Head(list)
        /\ dp_sync_tasks' = [dp_sync_tasks EXCEPT ![g] = Tail(list)]
        /\ Taken(k) = {} /\ k \in DOMAIN cast.task
        /\ DOMAIN dstg_err' = Tasks /\ \A j \in Tasks \ {k} : dstg_err'[j] = dstg_err[j]
    BY Zenon, SyncTaskFacts DEF pipeVars
  <1>2. PICK E \in SUBSET Dirs : /\ snaps' = snaps \cup NewSnaps(k, E)
                                 /\ E = IF dstg_err'[k] = "0" THEN on ELSE {}
    BY Zenon, SyncTaskFacts
  <1> HIDE DEF on
  <1>3. /\ Len(list) \in Nat \ {0} /\ DOMAIN list = 1 .. Len(list) /\ list[1] = k
        /\ Tail(list) \in Seq(Tasks) /\ DOMAIN Tail(list) = 1 .. Len(list) - 1
        /\ \A i \in 1 .. Len(list) - 1 : i + 1 \in DOMAIN list /\ Tail(list)[i] = list[i + 1]
    BY <1>1
  <1>4. dp_sync_tasks \in [Slots -> Seq(Tasks)]
    BY Zenon DEF SyncInv, TasksInv, QueueInv
  <1>5. /\ dp_sync_tasks' \in [Slots -> Seq(Tasks)] /\ dp_sync_tasks'[g] = Tail(list)
        /\ \A h \in Slots \ {g} : dp_sync_tasks'[h] = dp_sync_tasks[h]
    BY Zenon, <1>1, <1>3, <1>4
  <1>6. \A i, j \in DOMAIN list : list[i] = list[j] => i = j
    BY Zenon, <1>1 DEF SyncInv, TasksInv, QueueInv
  <1>7. Slot(k_txg[k]) = g
    BY <1>1, <1>3 DEF SyncInv, TasksInv, QueueInv
  <1>8. ~IsQueued(k)'
    <2>1. ASSUME NEW i \in DOMAIN Tail(list) PROVE Tail(list)[i] # k
      BY <1>3, <1>6
    <2>2. ASSUME NEW h \in Slots \ {g}, NEW i \in DOMAIN dp_sync_tasks[h] PROVE dp_sync_tasks[h][i] # k
      BY <1>7 DEF SyncInv, TasksInv, QueueInv
    <2> QED
      BY Zenon, <1>5, <2>1, <2>2 DEF IsQueued
  <1>9. \A j \in Tasks \ {k} : IsQueued(j)' <=> IsQueued(j)
    <2> TAKE j \in Tasks \ {k}
    <2>1. (\E i \in DOMAIN Tail(list) : Tail(list)[i] = j) <=> \E i \in DOMAIN list : list[i] = j
      <3>1. ASSUME NEW i \in DOMAIN list, list[i] = j PROVE \E m \in DOMAIN Tail(list) : Tail(list)[m] = j
        <4>1. i # 1 /\ i - 1 \in 1 .. Len(list) - 1
          BY <1>3, <3>1
        <4>2. Tail(list)[i - 1] = list[(i - 1) + 1]
          BY Zenon, <1>3, <4>1
        <4>3. (i - 1) + 1 = i
          BY <1>3
        <4> QED
          BY Zenon, <1>3, <3>1, <4>1, <4>2, <4>3
      <3> QED
        BY Zenon, <1>3, <3>1
    <2> QED
      BY <1>1, <1>5, <2>1 DEF IsQueued
  <1>10. QueueInv'
    <2>1. ASSUME NEW h \in Slots, NEW i \in DOMAIN dp_sync_tasks'[h]
          PROVE  LET m == dp_sync_tasks'[h][i]
                 IN  /\ kpc[m] \in {"queued", "synced"} /\ Slot(k_txg[m]) = h
                     /\ tx_synced_txg < k_txg[m] /\ k_txg[m] <= tx_open_txg
                     /\ \A j \in DOMAIN dp_sync_tasks'[h] : dp_sync_tasks'[h][j] = m => j = i
      <3>1. CASE h # g
        BY <1>5, <3>1 DEF SyncInv, TasksInv, QueueInv
      <3>2. CASE h = g
        <4>1. dp_sync_tasks'[h][i] = list[i + 1] /\ i + 1 \in DOMAIN list /\ i \in 1 .. Len(list) - 1
          BY Zenon, <1>3, <1>5, <3>2
        <4>2. \A j \in DOMAIN dp_sync_tasks'[h] : dp_sync_tasks'[h][j] = list[i + 1] => j = i
          <5> TAKE j \in DOMAIN dp_sync_tasks'[h]
          <5>1. j \in 1 .. Len(list) - 1 /\ dp_sync_tasks'[h][j] = list[j + 1] /\ j + 1 \in DOMAIN list
            BY Zenon, <1>3, <1>5, <3>2
          <5>2. list[j + 1] = list[i + 1] => j + 1 = i + 1
            BY Zenon, <1>6, <4>1, <5>1
          <5> QED
            BY <4>1, <5>1, <5>2
        <4>3. LET m == list[i + 1]
              IN  /\ kpc[m] \in {"queued", "synced"} /\ Slot(k_txg[m]) = g
                  /\ tx_synced_txg < k_txg[m] /\ k_txg[m] <= tx_open_txg
          BY <1>1, <4>1 DEF SyncInv, TasksInv, QueueInv
        <4> QED
          BY Zenon, <3>2, <4>1, <4>2, <4>3
      <3> QED
        BY Zenon, <3>1, <3>2
    <2> QED
      BY <1>1, <1>5, <2>1 DEF QueueInv
  <1>11. \A j \in Tasks \ {k} : Taken(j)' = Taken(j)
    <2> TAKE j \in Tasks \ {k}
    <2>1. \A s \in NewSnaps(k, E) : s.by # j
      BY NewSnapFields
    <2> QED
      BY Zenon, <1>2, <2>1 DEF Taken
  <1>12. ASSUME NEW j \in Tasks \ {k} PROVE TaskInv(j)'
    <2>1. TaskInv(j) /\ Taken(j)' = Taken(j) /\ (IsQueued(j)' <=> IsQueued(j)) /\ dstg_err'[j] = dstg_err[j]
      BY Zenon, <1>1, <1>9, <1>11 DEF SyncInv, TasksInv
    <2>2. Outcome(j)' <=> Outcome(j)
      <3>1. {s.ds : s \in Taken(j)'} = {s.ds : s \in Taken(j)}
        BY Zenon, <2>1
      <3>2. {cast.task[j].on[i] : i \in DOMAIN cast.task[j].on}' =
              {cast.task[j].on[i] : i \in DOMAIN cast.task[j].on}
        BY Zenon, <1>1
      <3>3. CASE dstg_err[j] = "0"
        <4> DEFINE Same(T) == \A r, s \in T : r.txg = s.txg /\ (r.ds = s.ds => r = s)
        <4>1. Same(Taken(j)') <=> Same(Taken(j))
          <5> HIDE DEF Same
          <5> QED
            BY Zenon, <2>1
        <4>2. Outcome(j) <=> /\ {s.ds : s \in Taken(j)} =
                                  {cast.task[j].on[i] : i \in DOMAIN cast.task[j].on}
                             /\ Same(Taken(j))
          BY Zenon, <3>3 DEF Outcome
        <4>3. Outcome(j)' <=> /\ {s.ds : s \in Taken(j)'} =
                                   {cast.task[j].on[i] : i \in DOMAIN cast.task[j].on}'
                              /\ Same(Taken(j)')
          BY Zenon, <2>1, <3>3 DEF Outcome
        <4> HIDE DEF Same
        <4> QED
          BY Zenon, <3>1, <3>2, <4>1, <4>2, <4>3
      <3>4. CASE dstg_err[j] # "0"
        BY Zenon, <2>1, <3>4 DEF Outcome
      <3> QED
        BY Zenon, <3>3, <3>4
    <2> QED
      BY Zenon, <1>1, <2>1, <2>2 DEF TaskInv
  <1>13. Taken(k)' = NewSnaps(k, E)
    <2>1. \A s \in NewSnaps(k, E) : s.by = k
      BY NewSnapFields
    <2> QED
      BY <1>1, <1>2, <2>1 DEF Taken
  <1>14. Outcome(k)'
    <2>1. CASE dstg_err'[k] = "0"
      <3>1. {s.ds : s \in NewSnaps(k, E)} = E
        <4>1. \A s \in NewSnaps(k, E) : s.ds \in E
          BY Zenon, NewSnapFields
        <4>2. \A d \in E : \E s \in NewSnaps(k, E) : s.ds = d
          <5> TAKE d \in E
          <5> DEFINE s == [ds |-> d, name |-> cast.task[k].name, txg |-> tx_syncing_txg,
                           by |-> k, has |-> contents[d]]
          <5>1. s \in NewSnaps(k, E)
            BY Zenon DEF NewSnaps
          <5>2. s.ds = d
            BY Zenon
          <5> QED
            BY Zenon, <5>1, <5>2
        <4> QED
          BY Zenon, <4>1, <4>2
      <3>2. \A r, s \in NewSnaps(k, E) : r.txg = s.txg /\ (r.ds = s.ds => r = s)
        BY NewSnapFields
      <3> QED
        <4>1. on' = on /\ E = on
          BY Zenon, <1>1, <1>2, <2>1 DEF on
        <4>2. {s.ds : s \in Taken(k)'} = on'
          BY Zenon, <1>13, <3>1, <4>1
        <4>3. \A r, s \in Taken(k)' : r.txg = s.txg /\ (r.ds = s.ds => r = s)
          BY Zenon, <1>13, <3>2
        <4> QED
          BY Zenon, <2>1, <4>2, <4>3 DEF Outcome, on
    <2>2. CASE dstg_err'[k] # "0"
      <3>1. NewSnaps(k, E) = {}
        BY Zenon, <1>2, <2>2 DEF NewSnaps
      <3> QED
        BY Zenon, <1>13, <2>2, <3>1 DEF Outcome
    <2> QED
      BY Zenon, <2>1, <2>2
  <1>15. TaskInv(k)'
    <2>1. kpc[k] \in {"queued", "synced"}
      BY <1>1, <1>3 DEF SyncInv, TasksInv, QueueInv
    <2> QED
      BY Zenon, <1>1, <1>8, <1>14, <2>1 DEF TaskInv
  <1> QED
    BY Zenon, <1>1, <1>10, <1>12, <1>15 DEF SyncInv, TasksInv

-----------------------------------------------------------------------------
\* At the start nothing is written, and no task runs.
LEMMA InitSyncInv == Init => SyncInv
  <1> SUFFICES ASSUME Init PROVE SyncInv
    BY Zenon
  <1>1. IInv /\ PipeInv
    BY Zenon, InitIInv, InitPipeInv
  <1>3. ContentsInv /\ SnapInv
    <2>1. \A t \in Txs : pc[t] # "done"
      BY Zenon DEF Init
    <2>2. \A d, g : DoneThrough(d, g) = {}
      BY Zenon, <2>1 DEF DoneThrough
    <2>3. ContentsInv
      BY Zenon, <2>2 DEF Init, ContentsInv
    <2>4. Through = FirstTxg - 1
      BY Zenon DEF Init, Through
    <2>5. snaps = {} /\ ds_prev_snap_txg = [d \in Dirs |-> 0]
      BY Zenon DEF Init
    <2>6. 0 <= FirstTxg - 1 /\ 0 \in Nat
      BY DmuTxAssumption
    <2> QED
      BY Zenon, <2>3, <2>4, <2>5, <2>6 DEF SnapInv
  <1>4. TasksInv
    <2>1. \A g \in Slots : DOMAIN dp_sync_tasks[g] = {}
      BY DEF Init
    <2>2. QueueInv
      BY <2>1 DEF Init, QueueInv
    <2>3. \A k \in Tasks : Taken(k) = {} /\ ~IsQueued(k)
      BY Zenon, <2>1 DEF Init, Taken, IsQueued
    <2>4. \A k \in Tasks : TaskInv(k)
      BY Zenon, <2>3 DEF Init, TaskInv
    <2> QED
      BY Zenon, <2>2, <2>4 DEF Init, TasksInv
  <1> QED
    BY Zenon, <1>1, <1>3, <1>4 DEF SyncInv

\* Every step keeps the invariant.
LEMMA NextSyncInv == SyncInv /\ [Next]_vars => SyncInv'
  <1> SUFFICES ASSUME SyncInv, [Next]_vars PROVE SyncInv'
    BY Zenon
  <1>1. IInv' /\ PipeInv'
    BY Zenon, NextIInv, NextPipeInv DEF SyncInv
  <1>2. ASSUME NEW t \in Txs, TxStep(t) PROVE SyncInv'
    BY Zenon, <1>1, <1>2, TxStepSettles, TxKeeps DEF SyncInv
  <1>3. ASSUME NEW k \in Tasks, TaskStep(k) PROVE SyncInv'
    <2>1. UNCHANGED <<cast, pipeVars, txVars, contents, snaps, ds_prev_snap_txg>>
      BY ZenonT(30), <1>3 DEF TaskStep, TaskAssign, TaskCheck, TaskCommit, TaskAgain, TaskSleep, TaskWake, diskVars
    <2>2. TasksInv'
      BY Zenon, <1>1, <1>3, TaskMoves, TaskCheckKeeps DEF TaskStep
    <2>3. Through' = Through
      BY Zenon, <2>1 DEF Through, pipeVars
    <2>4. ContentsInv' /\ SnapInv'
      BY Zenon, <1>1, <2>1, <2>3, SettledKeep DEF SyncInv, IInv, TypeOK, txVars
    <2> QED
      BY Zenon, <1>1, <2>2, <2>4 DEF SyncInv
  <1>4. CASE SyncThreadAsks \/ Suspend \/ Resume \/ UNCHANGED vars
    <2>1. UNCHANGED <<cast, pipeVars, txVars, contents, taskVars>>
      BY Zenon, <1>4 DEF SyncThreadAsks, Suspend, Resume, vars, diskVars
    <2> QED
      BY Zenon, <1>1, <2>1, TxKeeps DEF txVars
  <1>5. ASSUME NEW k \in Tasks, SyncTask(k) PROVE SyncInv'
    <2>1. UNCHANGED <<cast, pipeVars, txVars, contents>>
      BY Zenon, <1>5 DEF SyncTask, diskVars
    <2>3. ContentsInv'
      BY Zenon, <2>1 DEF SyncInv, ContentsInv, DoneThrough, Through, op, pipeVars, txVars
    <2> QED
      BY Zenon, <1>1, <1>5, <2>3, SyncTaskSnaps, SyncTaskTasks DEF SyncInv
  <1> QED
    BY Zenon, <1>1, <1>2, <1>3, <1>4, <1>5, GroupKeeps, SyncDatasetsKeeps, SyncDoneKeeps
       DEF Next, GroupStep, SyncStep

\* The invariant of the groups, the datasets and the tasks.
THEOREM SyncInvariant == Spec => []SyncInv
  BY InitSyncInv, NextSyncInv, PTL DEF Spec

\* A snapshot has exactly the transactions of the groups up to its own,
\* whatever was committed while dsl_dataset_snapshot_sync() ran.
THEOREM SnapshotsStayGroups == Spec => []SnapshotsAreGroups
  <1>1. SyncInv => SnapshotsAreGroups
    BY Zenon DEF SyncInv, SnapInv, SnapshotsAreGroups, DoneThrough
  <1> QED
    BY <1>1, SyncInvariant, PTL

\* dsl_sync_task_group_wait() tells the truth: 0 for all the snapshots, in
\* one txg; an error for none.
THEOREM TasksStayAtomic == Spec => []TasksAreAtomic
  <1>1. SyncInv => TasksAreAtomic
    <2> SUFFICES ASSUME SyncInv, NEW k \in DOMAIN cast.task, kpc[k] = "returned"
                 PROVE  IF dstg_err[k] = "0"
                        THEN /\ Cardinality(Taken(k)) = Len(cast.task[k].on)
                             /\ Cardinality({s.txg : s \in Taken(k)}) = 1
                        ELSE Taken(k) = {}
      BY Zenon DEF TasksAreAtomic, Taken
    <2> DEFINE on == cast.task[k].on
    <2>1. /\ k \in Tasks /\ on \in Seq(Dirs) /\ on # <<>>
          /\ \A i, j \in DOMAIN on : on[i] = on[j] => i = j
      BY Zenon, DmuTxAssumption DEF SyncInv, IInv, TypeOK
    <2>2. ~IsQueued(k)
      BY Zenon DEF IsQueued, SyncInv, TasksInv, QueueInv
    <2>3. Outcome(k)
      BY Zenon, <2>1, <2>2 DEF SyncInv, TasksInv, TaskInv
    <2>4. CASE dstg_err[k] = "0"
      <3>1. /\ {s.ds : s \in Taken(k)} = {on[i] : i \in DOMAIN on}
            /\ \A r, s \in Taken(k) : r.txg = s.txg /\ (r.ds = s.ds => r = s)
        BY Zenon, <2>3, <2>4 DEF Outcome
      <3> HIDE DEF on
      <3>2. Len(on) \in Nat /\ DOMAIN on = 1 .. Len(on) /\ 1 \in DOMAIN on
        BY <2>1
      <3> DEFINE f == [i \in 1 .. Len(on) |-> CHOOSE s \in Taken(k) : s.ds = on[i]]
      <3>3. \A i \in 1 .. Len(on) : f[i] \in Taken(k) /\ f[i].ds = on[i]
        <4> TAKE i \in 1 .. Len(on)
        <4>1. \E s \in Taken(k) : s.ds = on[i]
          BY Zenon, <3>1, <3>2
        <4> QED
          BY Zenon, <4>1
      <3> HIDE DEF f
      <3>4. \A s \in Taken(k) : \E i \in 1 .. Len(on) : f[i] = s
        <4> TAKE s \in Taken(k)
        <4>1. s.ds \in {on[i] : i \in DOMAIN on}
          BY Zenon, <3>1
        <4>2. PICK i \in DOMAIN on : s.ds = on[i]
          BY Zenon, <4>1
        <4> QED
          BY <3>1, <3>2, <3>3, <4>2
      <3>5. \A i, j \in 1 .. Len(on) : f[i] = f[j] => i = j
        BY <2>1, <3>2, <3>3
      <3>6. f \in [1 .. Len(on) -> Taken(k)]
        BY Zenon, <3>3 DEF f
      <3>7. f \in Bijection(1 .. Len(on), Taken(k))
        BY Zenon, <3>4, <3>5, <3>6 DEF Bijection, Injection, Surjection, IsInjective
      <3>8. Cardinality(Taken(k)) = Len(on)
        BY Zenon, <3>2, <3>7, FS_CountingElements DEF ExistsBijection
      <3>9. {s.txg : s \in Taken(k)} = {f[1].txg}
        BY <3>1, <3>2, <3>3
      <3> QED
        BY Zenon, <2>4, <3>8, <3>9, FS_Singleton DEF on
    <2> QED
      BY Zenon, <2>3, <2>4 DEF Outcome
  <1> QED
    BY <1>1, SyncInvariant, PTL
=============================================================================
