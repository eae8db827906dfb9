-------------------------------- MODULE Txg --------------------------------
(***************************************************************************)
(* Transaction groups: module/zfs/txg.c.                                   *)
(*                                                                         *)
(* Every change of a pool belongs to a numbered transaction group (txg).   *)
(* A group is open while transactions join it, quiescing while the ones    *)
(* inside it finish, quiesced when it waits for the sync thread, syncing   *)
(* while spa_sync() writes it, and synced afterwards.  A quiesce thread    *)
(* and a sync thread move groups along; at most one group is in each of    *)
(* the last states, so the per-group state of the whole program lives in   *)
(* arrays of TXG_SIZE slots indexed by txg & TXG_MASK.                     *)
(*                                                                         *)
(* Code that runs under tx_sync_lock without sleeping is one action; a     *)
(* sleep on a condition variable is a "..._wait" program counter and a     *)
(* broadcast moves its sleepers to the matching "..._check".  tx_open_txg  *)
(* changes outside tx_sync_lock, under all the tc_locks, which are taken   *)
(* one by one.                                                             *)
(***************************************************************************)
EXTENDS Integers, FiniteSets

CONSTANTS
    Txs,                \* transactions (dmu_tx_t), each used once
    Waiters,            \* threads that call txg_wait_synced/open, sync_stop
    max_ncpus,          \* number of tx_cpu_t
    FirstTxg,           \* the txg that txg_init() is called with
    MaxTxg,             \* bound: the last txg that anything asks for
    zfs_txg_history     \* length of the statistics list

TXG_SIZE == 4
TXG_CONCURRENT_STATES == 3
TXG_DEFER_SIZE == 2

ASSUME TxgAssumption ==
    /\ IsFiniteSet(Txs)
    /\ {"free", "quiesce"} \cap Txs = {}
    /\ max_ncpus \in Nat \ {0}
    /\ FirstTxg \in Nat \ {0}
    /\ MaxTxg \in Nat
    /\ zfs_txg_history \in Nat
    /\ zfs_txg_history >= TXG_CONCURRENT_STATES

Cpus == 0 .. max_ncpus - 1
Slots == 0 .. TXG_SIZE - 1
Slot(txg) == txg % TXG_SIZE

VARIABLES
    (* tx_state_t *)
    tx_open_txg, tx_quiesced_txg, tx_syncing_txg, tx_synced_txg,
    tx_sync_txg_waiting, tx_quiesce_txg_waiting, tx_exiting,
    tx_commit_cb_taskq, \* callbacks dispatched and not yet called
    called,             \* transactions whose callback has been called
    (* tx_cpu_t *)
    tc_lock,            \* tc_lock[c]: "free", "quiesce" or a transaction
    tc_count,           \* tc_count[c][g]
    tc_callbacks,       \* tc_callbacks[c][g]: transactions with a callback
    history,            \* txgs on dp_txg_history
    (* the threads *)
    spc,                \* txg_sync_thread
    qpc, q_txg, q_cpu,  \* txg_quiesce_thread, its txg and its loop index
    tpc, th_cpu, th_txg,\* the transactions and their txg_handle_t
    wpc, w_txg,         \* the waiters and what they wait for
    stopping            \* txg_sync_stop() has been called

syncVars == <<tx_quiesced_txg, tx_syncing_txg, tx_synced_txg>>
reqVars == <<tx_sync_txg_waiting, tx_quiesce_txg_waiting>>
cbVars == <<tx_commit_cb_taskq, called>>
cpuVars == <<tc_lock, tc_count, tc_callbacks>>
qVars == <<qpc, q_txg, q_cpu>>
thVars == <<th_cpu, th_txg>>
wVars == <<wpc, w_txg>>
vars == <<tx_open_txg, syncVars, reqVars, tx_exiting, cbVars, cpuVars,
          history, spc, qVars, tpc, thVars, wVars, stopping>>

\* txg_init() followed by txg_sync_start().
Init ==
    /\ tx_open_txg = FirstTxg
    /\ tx_quiesced_txg = 0 /\ tx_syncing_txg = 0 /\ tx_synced_txg = 0
    /\ tx_sync_txg_waiting = 0 /\ tx_quiesce_txg_waiting = 0
    /\ tx_exiting = FALSE
    /\ tx_commit_cb_taskq = {} /\ called = {}
    /\ tc_lock = [c \in Cpus |-> "free"]
    /\ tc_count = [c \in Cpus |-> [g \in Slots |-> 0]]
    /\ tc_callbacks = [c \in Cpus |-> [g \in Slots |-> {}]]
    /\ history = {FirstTxg}
    /\ spc = "more_check"
    /\ qpc = "check" /\ q_txg = 0 /\ q_cpu = 0
    /\ tpc = [t \in Txs |-> "new"]
    /\ th_cpu = [t \in Txs |-> 0] /\ th_txg = [t \in Txs |-> 0]
    /\ wpc = [w \in Waiters |-> "idle"] /\ w_txg = [w \in Waiters |-> 0]
    /\ stopping = FALSE

-----------------------------------------------------------------------------
(* Condition variables: who a broadcast wakes.                             *)

WakeSyncMore_lost == spc' = spc
WakeSyncMore == spc' = IF spc = "more_wait" THEN "more_check" ELSE spc
WakeAll(pcs, from, to) ==
    [x \in DOMAIN pcs |-> IF pcs[x] = from THEN to ELSE pcs[x]]
WakeQuiesceMore ==
    /\ qpc' = IF qpc = "more_wait" THEN "check" ELSE qpc
    /\ tpc' = WakeAll(tpc, "delay", "locked")

Larger(a, b) == IF a < b THEN b ELSE a

-----------------------------------------------------------------------------
(* Transactions                                                            *)

Holding == {"locked", "delay", "late", "held", "registered"}

txg_hold_open(t, c) ==
    /\ tpc[t] = "new" /\ ~stopping
    /\ tc_lock[c] = "free"
    /\ tc_lock' = [tc_lock EXCEPT ![c] = t]
    /\ tc_count' = [tc_count EXCEPT ![c][Slot(tx_open_txg)] = @ + 1]
    /\ th_cpu' = [th_cpu EXCEPT ![t] = c]
    /\ th_txg' = [th_txg EXCEPT ![t] = tx_open_txg]
    /\ tpc' = [tpc EXCEPT ![t] = "locked"]
    /\ UNCHANGED <<tx_open_txg, syncVars, reqVars, tx_exiting, cbVars,
                   tc_callbacks, history, spc, qVars, wVars, stopping>>

txg_stalled == tx_quiesce_txg_waiting > tx_open_txg

\* txg_delay(), called with tc_lock held from dsl_pool_tempreserve_space():
\* the transaction goes to sleep on tx_quiesce_more_cv.  A broadcast lets it
\* look again; when its tick is over it goes on.
txg_delay(t) ==
    /\ tpc[t] = "locked"
    /\ tx_open_txg <= th_txg[t]
    /\ tx_synced_txg # th_txg[t] - 1
    /\ tx_syncing_txg < th_txg[t] - 1
    /\ ~txg_stalled
    /\ tpc' = [tpc EXCEPT ![t] = "delay"]
    /\ UNCHANGED <<tx_open_txg, syncVars, reqVars, tx_exiting, cbVars, cpuVars,
                   history, spc, qVars, thVars, wVars, stopping>>

DelayTimeout(t) ==
    /\ tpc[t] = "delay"
    /\ tpc' = [tpc EXCEPT ![t] = "late"]
    /\ UNCHANGED <<tx_open_txg, syncVars, reqVars, tx_exiting, cbVars, cpuVars,
                   history, spc, qVars, thVars, wVars, stopping>>

txg_rele_to_quiesce(t) ==
    /\ tpc[t] \in {"locked", "late"}
    /\ tc_lock' = [tc_lock EXCEPT ![th_cpu[t]] = "free"]
    /\ tpc' = [tpc EXCEPT ![t] = "held"]
    /\ UNCHANGED <<tx_open_txg, syncVars, reqVars, tx_exiting, cbVars, tc_count,
                   tc_callbacks, history, spc, qVars, thVars, wVars, stopping>>

txg_register_callbacks(t) ==
    LET c == th_cpu[t] g == Slot(th_txg[t]) IN
    /\ tpc[t] = "held"
    /\ tc_lock[c] = "free"
    /\ tc_callbacks' = [tc_callbacks EXCEPT ![c][g] = @ \cup {t}]
    /\ tpc' = [tpc EXCEPT ![t] = "registered"]
    /\ UNCHANGED <<tx_open_txg, syncVars, reqVars, tx_exiting, cbVars, tc_lock,
                   tc_count, history, spc, qVars, thVars, wVars, stopping>>

txg_rele_to_sync(t) ==
    LET c == th_cpu[t] g == Slot(th_txg[t]) IN
    /\ tpc[t] \in {"held", "registered"}
    /\ tc_lock[c] = "free"
    /\ tc_count' = [tc_count EXCEPT ![c][g] = @ - 1]
    /\ qpc' = IF /\ tc_count[c][g] = 1
                 /\ qpc = "cv_wait" /\ q_cpu = c /\ Slot(q_txg) = g
              THEN "drain" ELSE qpc
    /\ tpc' = [tpc EXCEPT ![t] = "done"]
    /\ th_cpu' = [th_cpu EXCEPT ![t] = 0]   \* NULL
    /\ UNCHANGED <<tx_open_txg, syncVars, reqVars, tx_exiting, cbVars, tc_lock,
                   tc_callbacks, history, spc, q_txg, q_cpu, th_txg, wVars,
                   stopping>>

-----------------------------------------------------------------------------
(* The quiesce thread                                                      *)

QuiesceReady_eager == tx_open_txg < tx_quiesce_txg_waiting
QuiesceReady ==
    tx_open_txg < tx_quiesce_txg_waiting /\ tx_quiesced_txg = 0

\* txg_quiesce_thread(): the loop head, holding tx_sync_lock.
QuiesceCheck ==
    /\ qpc = "check"
    /\ \/ /\ tx_exiting
          /\ qpc' = "exited"
          /\ wpc' = WakeAll(wpc, "exit_wait", "exit_check")
          /\ UNCHANGED <<q_txg, q_cpu>>
       \/ /\ ~tx_exiting
          /\ ~QuiesceReady
          /\ qpc' = "more_wait"
          /\ UNCHANGED <<q_txg, q_cpu, wpc>>
       \/ /\ ~tx_exiting
          /\ QuiesceReady
          /\ q_txg' = tx_open_txg
          /\ q_cpu' = 0
          /\ qpc' = "lock"
          /\ UNCHANGED wpc
    /\ UNCHANGED <<tx_open_txg, syncVars, reqVars, tx_exiting, cbVars, cpuVars,
                   history, spc, tpc, thVars, w_txg, stopping>>

\* txg_quiesce(): take the tc_locks one after the other ...
QuiesceLock ==
    /\ qpc = "lock" /\ q_cpu < max_ncpus
    /\ tc_lock[q_cpu] = "free"
    /\ tc_lock' = [tc_lock EXCEPT ![q_cpu] = "quiesce"]
    /\ q_cpu' = q_cpu + 1
    /\ UNCHANGED <<tx_open_txg, syncVars, reqVars, tx_exiting, cbVars, tc_count,
                   tc_callbacks, history, spc, qpc, q_txg, tpc, thVars, wVars,
                   stopping>>

\* dsl_pool_txg_history_add(): the list keeps the youngest entries.
dsl_pool_txg_history_add(txg) ==
    history' = {x \in history \cup {txg} : x + zfs_txg_history > txg}

\* ... open the next group, enter it in the statistics list, and let the
\* transactions in ...
QuiesceOpen ==
    /\ qpc = "lock" /\ q_cpu = max_ncpus
    /\ tx_open_txg' = tx_open_txg + 1
    /\ dsl_pool_txg_history_add(tx_open_txg + 1)
    /\ tc_lock' = [c \in Cpus |-> "free"]
    /\ q_cpu' = 0
    /\ qpc' = "drain"
    /\ UNCHANGED <<syncVars, reqVars, tx_exiting, cbVars, tc_count,
                   tc_callbacks, spc, q_txg, tpc, thVars, wVars, stopping>>

Drained_open == tc_count[q_cpu][Slot(tx_open_txg)] = 0
Drained == tc_count[q_cpu][Slot(q_txg)] = 0

\* ... and wait, tx_cpu by tx_cpu, until nobody is left in the old group.
QuiesceDrain ==
    /\ qpc = "drain" /\ q_cpu < max_ncpus
    /\ tc_lock[q_cpu] = "free"
    /\ \/ /\ Drained
          /\ q_cpu' = q_cpu + 1
          /\ UNCHANGED qpc
       \/ /\ ~Drained
          /\ qpc' = "cv_wait"
          /\ UNCHANGED q_cpu
    /\ UNCHANGED <<tx_open_txg, syncVars, reqVars, tx_exiting, cbVars, cpuVars,
                   history, spc, q_txg, tpc, thVars, wVars, stopping>>

\* Hand the group to the sync thread and go back to the loop head: broadcast
\* tx_sync_more_cv and tx_quiesce_done_cv.
QuiesceHandoff ==
    /\ qpc = "drain" /\ q_cpu = max_ncpus
    /\ tx_quiesced_txg' = q_txg
    /\ spc' = CASE spc = "more_wait" -> "more_check"
                [] spc = "done_wait" -> "done_check"
                [] OTHER -> spc
    /\ wpc' = WakeAll(wpc, "open_wait", "open_check")
    /\ qpc' = "check" /\ q_txg' = 0 /\ q_cpu' = 0
    /\ UNCHANGED <<tx_open_txg, tx_syncing_txg, tx_synced_txg, reqVars,
                   tx_exiting, cbVars, cpuVars, history, tpc, thVars, w_txg,
                   stopping>>

-----------------------------------------------------------------------------
(* The sync thread                                                         *)

\* The second loop of txg_sync_thread() and what follows it, up to the call
\* of spa_sync(): ask for a group and sleep, exit, or consume the quiesced
\* group.
SyncLoop ==
    /\ \/ /\ tx_exiting
          /\ spc' = "exited"
          /\ wpc' = WakeAll(wpc, "exit_wait", "exit_check")
          /\ UNCHANGED <<syncVars, tx_quiesce_txg_waiting, qpc, tpc>>
       \/ /\ ~tx_exiting /\ tx_quiesced_txg = 0
          /\ tx_quiesce_txg_waiting' =
                Larger(tx_quiesce_txg_waiting, tx_open_txg + 1)
          /\ WakeQuiesceMore
          /\ spc' = "done_wait"
          /\ UNCHANGED <<syncVars, wpc>>
       \/ /\ ~tx_exiting /\ tx_quiesced_txg # 0
          /\ tx_syncing_txg' = tx_quiesced_txg
          /\ tx_quiesced_txg' = 0
          /\ WakeQuiesceMore
          /\ spc' = "syncing"
          /\ UNCHANGED <<tx_synced_txg, tx_quiesce_txg_waiting, wpc>>
    /\ UNCHANGED <<tx_open_txg, tx_sync_txg_waiting, tx_exiting, cbVars,
                   cpuVars, history, q_txg, q_cpu, thVars, w_txg, stopping>>

NothingToSync ==
    /\ ~tx_exiting
    /\ tx_synced_txg >= tx_sync_txg_waiting
    /\ tx_quiesced_txg = 0

\* The first loop of txg_sync_thread().
SyncCheck ==
    /\ spc = "more_check"
    /\ \/ /\ NothingToSync
          /\ spc' = "more_wait"
          /\ UNCHANGED <<tx_open_txg, syncVars, reqVars, tx_exiting, cbVars,
                         cpuVars, history, qVars, tpc, thVars, wVars, stopping>>
       \/ /\ ~NothingToSync
          /\ SyncLoop

\* zfs_txg_timeout has passed, or a scan is active: do not wait any longer.
SyncTimeout ==
    /\ spc \in {"more_check", "more_wait"}
    /\ NothingToSync
    /\ tx_open_txg < MaxTxg
    /\ SyncLoop

SyncRetry ==
    /\ spc = "done_check"
    /\ SyncLoop

\* What txg_dispatch_callbacks() collects, tx_cpu by tx_cpu.
Callbacks_but_last(g) == UNION {tc_callbacks[c][g] : c \in Cpus \ {max_ncpus - 1}}
Callbacks(g) == UNION {tc_callbacks[c][g] : c \in Cpus}

\* spa_sync() has returned: txg_dispatch_callbacks() included.
SyncDone ==
    /\ spc = "syncing"
    /\ tx_synced_txg' = tx_syncing_txg
    /\ tx_syncing_txg' = 0
    /\ wpc' = WakeAll(wpc, "synced_wait", "synced_check")
    /\ tx_commit_cb_taskq' =
          tx_commit_cb_taskq \cup Callbacks(Slot(tx_syncing_txg))
    /\ tc_callbacks' = [c \in Cpus |->
          [tc_callbacks[c] EXCEPT ![Slot(tx_syncing_txg)] = {}]]
    /\ spc' = "more_check"
    /\ UNCHANGED <<tx_open_txg, tx_quiesced_txg, reqVars, tx_exiting, called,
                   tc_lock, tc_count, history, qVars, tpc, thVars, w_txg,
                   stopping>>

\* txg_do_callbacks() on a thread of the task queue.
txg_do_callbacks(t) ==
    /\ t \in tx_commit_cb_taskq
    /\ tx_commit_cb_taskq' = tx_commit_cb_taskq \ {t}
    /\ called' = called \cup {t}
    /\ UNCHANGED <<tx_open_txg, syncVars, reqVars, tx_exiting, cpuVars, history,
                   spc, qVars, tpc, thVars, wVars, stopping>>
-----------------------------------------------------------------------------
(* Waiting for a group                                                     *)

\* The loop of txg_wait_synced() for thread w that waits for txg: return, or
\* broadcast tx_sync_more_cv and sleep.  txg_sync_stop() continues after it.
SyncedLoop(w, txg) ==
    /\ \/ /\ tx_synced_txg >= txg
          /\ wpc' = [wpc EXCEPT ![w] = IF stopping THEN "stop" ELSE "idle"]
          /\ w_txg' = [w_txg EXCEPT ![w] = 0]
          /\ UNCHANGED spc
       \/ /\ tx_synced_txg < txg
          /\ WakeSyncMore
          /\ wpc' = [wpc EXCEPT ![w] = "synced_wait"]
          /\ w_txg' = [w_txg EXCEPT ![w] = txg]
    /\ UNCHANGED <<tx_open_txg, syncVars, tx_quiesce_txg_waiting, tx_exiting,
                   cbVars, cpuVars, history, qVars, tpc, thVars>>

\* A caller names a txg it knows of, or 0 for all that has been done so far.
txg_wait_synced(w, arg) ==
    LET txg == IF arg = 0 THEN tx_open_txg + TXG_DEFER_SIZE ELSE arg IN
    /\ wpc[w] = "idle" /\ ~stopping
    /\ txg <= MaxTxg
    /\ tx_sync_txg_waiting' = Larger(tx_sync_txg_waiting, txg)
    /\ SyncedLoop(w, txg)
    /\ UNCHANGED stopping

SyncedWoken(w) ==
    /\ wpc[w] = "synced_check"
    /\ SyncedLoop(w, w_txg[w])
    /\ UNCHANGED <<tx_sync_txg_waiting, stopping>>

OpenLoop(w, txg) ==
    /\ \/ /\ tx_open_txg >= txg
          /\ wpc' = [wpc EXCEPT ![w] = "idle"]
          /\ w_txg' = [w_txg EXCEPT ![w] = 0]
          /\ UNCHANGED <<qpc, tpc>>
       \/ /\ tx_open_txg < txg
          /\ WakeQuiesceMore
          /\ wpc' = [wpc EXCEPT ![w] = "open_wait"]
          /\ w_txg' = [w_txg EXCEPT ![w] = txg]
    /\ UNCHANGED <<tx_open_txg, syncVars, tx_sync_txg_waiting, tx_exiting,
                   cbVars, cpuVars, history, spc, q_txg, q_cpu, thVars,
                   stopping>>

txg_wait_open(w, arg) ==
    LET txg == IF arg = 0 THEN tx_open_txg + 1 ELSE arg IN
    /\ wpc[w] = "idle" /\ ~stopping
    /\ txg <= MaxTxg
    /\ tx_quiesce_txg_waiting' = Larger(tx_quiesce_txg_waiting, txg)
    /\ OpenLoop(w, txg)

OpenWoken(w) ==
    /\ wpc[w] = "open_check"
    /\ OpenLoop(w, w_txg[w])
    /\ UNCHANGED tx_quiesce_txg_waiting

-----------------------------------------------------------------------------
(* txg_sync_stop(): spa_unload() calls it when nobody uses the pool.       *)

\* tx_open_txg is read before txg_wait_synced() takes tx_sync_lock.
txg_sync_stop(w) ==
    /\ ~stopping
    /\ \A t \in Txs : tpc[t] \notin Holding
    /\ \A x \in Waiters : wpc[x] = "idle"
    /\ tx_open_txg + TXG_DEFER_SIZE <= MaxTxg
    /\ stopping' = TRUE
    /\ w_txg' = [w_txg EXCEPT ![w] = tx_open_txg + TXG_DEFER_SIZE]
    /\ wpc' = [wpc EXCEPT ![w] = "stop_call"]
    /\ UNCHANGED <<tx_open_txg, syncVars, reqVars, tx_exiting, cbVars, cpuVars,
                   history, spc, qVars, tpc, thVars>>

StopCall(w) ==
    /\ wpc[w] = "stop_call"
    /\ tx_sync_txg_waiting' = Larger(tx_sync_txg_waiting, w_txg[w])
    /\ SyncedLoop(w, w_txg[w])
    /\ UNCHANGED stopping

\* Set tx_exiting, broadcast on the condition variables of both threads and
\* sleep on tx_exit_cv.
StopExit(w) ==
    /\ wpc[w] = "stop"
    /\ tx_exiting' = TRUE
    /\ spc' = CASE spc = "more_wait" -> "more_check"
                [] spc = "done_wait" -> "done_check"
                [] OTHER -> spc
    /\ WakeQuiesceMore
    /\ wpc' = [wpc EXCEPT ![w] = "exit_wait"]
    /\ UNCHANGED <<tx_open_txg, syncVars, reqVars, cbVars, cpuVars, history,
                   q_txg, q_cpu, thVars, w_txg, stopping>>

\* Woken on tx_exit_cv: go on when tx_threads is 0.
StopWoken(w) ==
    /\ wpc[w] = "exit_check"
    /\ \/ /\ spc = "exited" /\ qpc = "exited"
          /\ tx_exiting' = FALSE
          /\ wpc' = [wpc EXCEPT ![w] = "stopped"]
       \/ /\ ~(spc = "exited" /\ qpc = "exited")
          /\ wpc' = [wpc EXCEPT ![w] = "exit_wait"]
          /\ UNCHANGED tx_exiting
    /\ UNCHANGED <<tx_open_txg, syncVars, reqVars, cbVars, cpuVars, history,
                   spc, qVars, tpc, thVars, w_txg, stopping>>

-----------------------------------------------------------------------------
(* The specification                                                       *)

TxNext(t) ==
    \/ \E c \in Cpus : txg_hold_open(t, c)
    \/ txg_delay(t) \/ DelayTimeout(t) \/ txg_rele_to_quiesce(t)
    \/ txg_register_callbacks(t) \/ txg_rele_to_sync(t) \/ txg_do_callbacks(t)

QuiesceNext ==
    QuiesceCheck \/ QuiesceLock \/ QuiesceOpen \/ QuiesceDrain \/ QuiesceHandoff

SyncNext == SyncCheck \/ SyncRetry \/ SyncDone

WaiterCall(w) ==
    \/ \E arg \in {0} \cup FirstTxg .. tx_open_txg : txg_wait_synced(w, arg)
    \/ \E arg \in {0} \cup FirstTxg .. tx_open_txg + 1 : txg_wait_open(w, arg)
    \/ txg_sync_stop(w)

WaiterRun(w) ==
    SyncedWoken(w) \/ OpenWoken(w) \/ StopCall(w) \/ StopExit(w) \/ StopWoken(w)

Next ==
    \/ \E t \in Txs : TxNext(t)
    \/ QuiesceNext
    \/ SyncNext
    \/ SyncTimeout
    \/ \E w \in Waiters : WaiterCall(w) \/ WaiterRun(w)

Spec == Init /\ [][Next]_vars

\* Threads keep running and a transaction that has been assigned commits
\* (dmu_tx_commit() must be called); nobody has to start anything, and the
\* timeout of the sync thread need not come.
Fairness ==
    /\ WF_vars(QuiesceNext)
    /\ WF_vars(SyncNext)
    /\ \A t \in Txs :
          /\ WF_vars(DelayTimeout(t))
          /\ WF_vars(txg_rele_to_quiesce(t))
          /\ WF_vars(txg_rele_to_sync(t))
          /\ WF_vars(txg_do_callbacks(t))
    /\ \A w \in Waiters : WF_vars(WaiterRun(w))

FairSpec == Spec /\ Fairness

\* The sync thread's timeout comes whenever it sleeps long enough.
TimerRuns == WF_vars(SyncTimeout)
-----------------------------------------------------------------------------
(* Properties                                                              *)

TypeOK ==
    /\ tx_open_txg \in Nat /\ tx_quiesced_txg \in Nat
    /\ tx_syncing_txg \in Nat /\ tx_synced_txg \in Nat
    /\ tx_sync_txg_waiting \in Nat /\ tx_quiesce_txg_waiting \in Nat
    /\ tx_exiting \in BOOLEAN /\ stopping \in BOOLEAN
    /\ tx_commit_cb_taskq \subseteq Txs /\ called \subseteq Txs
    /\ tc_lock \in [Cpus -> Txs \cup {"free", "quiesce"}]
    /\ tc_count \in [Cpus -> [Slots -> Int]]
    /\ tc_callbacks \in [Cpus -> [Slots -> SUBSET Txs]]
    /\ history \subseteq Nat
    /\ spc \in {"more_check", "more_wait", "done_check", "done_wait",
                "syncing", "exited"}
    /\ qpc \in {"check", "more_wait", "lock", "drain", "cv_wait", "exited"}
    /\ q_txg \in Nat /\ q_cpu \in 0 .. max_ncpus
    /\ tpc \in [Txs -> {"new", "done"} \cup Holding]
    /\ th_cpu \in [Txs -> Cpus] /\ th_txg \in [Txs -> Nat]
    /\ wpc \in [Waiters -> {"idle", "synced_check", "synced_wait",
                            "open_check", "open_wait", "stop_call", "stop",
                            "exit_check", "exit_wait", "stopped"}]
    /\ w_txg \in [Waiters -> Nat]

\* The last txg that is on disk: tx_synced_txg starts at 0, not at the txg
\* before the first.
LastSynced == IF tx_synced_txg = 0 THEN FirstTxg - 1 ELSE tx_synced_txg

\* No transaction is inside a group once it has been handed over: whoever
\* holds a txg holds one younger than the quiesced, the syncing and the
\* synced one, so spa_sync() never writes a group that is still changing.
HoldersAreAhead ==
    \A t \in Txs : tpc[t] \in Holding =>
        /\ th_txg[t] > tx_quiesced_txg
        /\ th_txg[t] > tx_syncing_txg
        /\ th_txg[t] > tx_synced_txg

\* The transactions counted in slot g of tx_cpu c.
Inside(c, g) ==
    {t \in Txs : tpc[t] \in Holding /\ th_cpu[t] = c /\ Slot(th_txg[t]) = g}

\* The ring of TXG_SIZE counters never mixes two groups: every transaction
\* counted in a slot of a tx_cpu_t belongs to the same txg.
SlotsHoldOneTxg ==
    \A c \in Cpus, g \in Slots :
        /\ tc_count[c][g] = Cardinality(Inside(c, g))
        /\ \A t, u \in Inside(c, g) : th_txg[t] = th_txg[u]

\* At most TXG_CONCURRENT_STATES groups exist that are not synced, which is
\* what lets TXG_SIZE slots suffice.
PipelineDepth ==
    /\ LastSynced < tx_open_txg
    /\ tx_open_txg <= LastSynced + TXG_CONCURRENT_STATES

\* txg_dispatch_callbacks() takes the callbacks of exactly the group that has
\* been synced, without tc_lock: a dispatched callback's txg is on disk, and
\* one still on a list belongs to a txg that is not.
CallbacksFollowSync ==
    /\ \A t \in tx_commit_cb_taskq \cup called : th_txg[t] <= tx_synced_txg
    /\ \A c \in Cpus, g \in Slots, t \in Txs :
          t \in tc_callbacks[c][g] => th_txg[t] > LastSynced

\* dsl_pool_txg_history_get() finds every group the two threads look up; its
\* result is used without a test for NULL.
HistoryIsFound ==
    /\ tx_open_txg \in history
    /\ qpc \in {"drain", "cv_wait"} => q_txg \in history
    /\ tx_quiesced_txg # 0 => tx_quiesced_txg \in history
    /\ tx_syncing_txg # 0 => tx_syncing_txg \in history

\* Groups are synced one by one, in the order of their numbers.
SyncedInOrder ==
    [][tx_synced_txg' # tx_synced_txg => tx_synced_txg' = LastSynced + 1]_vars

\* txg_wait_synced() and txg_wait_open() return, even if the timeout of the
\* sync thread never comes: the broadcasts suffice and none is lost.
WaitsReturn ==
    \A w \in Waiters :
        /\ wpc[w] = "synced_wait" ~> wpc[w] \in {"idle", "stop"}
        /\ wpc[w] = "open_wait" ~> wpc[w] = "idle"

\* txg_sync_stop() finishes: both threads see tx_exiting and go.
StopFinishes == stopping ~> \E w \in Waiters : wpc[w] = "stopped"

\* Whoever waits for groups returns: see the two properties above.
WaitersReturn == WaitsReturn /\ StopFinishes

\* What a transaction has done reaches the disk by itself within the bound,
\* and its callback is called, although nobody waits for the group: the
\* timeout of the sync thread is enough.
CallbackIsCalled ==
    TimerRuns => \A t \in Txs :
        (tpc[t] = "registered" /\ th_txg[t] < MaxTxg) ~> t \in called

\* txg.c implements the ordered commit of groups: see TxgOrder.
Order == INSTANCE TxgOrder WITH
            open <- tx_open_txg,
            committed <- LastSynced,
            group <- th_txg,
            finished <- {t \in Txs : tpc[t] = "done"},
            notified <- called
OrderedCommit == Order!Spec
-----------------------------------------------------------------------------
(* The inductive invariant behind the safety properties                    *)

Quiescing == qpc \in {"drain", "cv_wait"}

\* The groups that are not synced are consecutive: syncing, quiesced or
\* quiescing, open.
LastHanded == IF tx_syncing_txg # 0 THEN tx_syncing_txg ELSE LastSynced
LastClosed == IF tx_quiesced_txg # 0 THEN tx_quiesced_txg ELSE LastHanded

PipelineInv ==
    /\ LastSynced >= FirstTxg - 1
    /\ tx_syncing_txg # 0 <=> spc = "syncing"
    /\ tx_syncing_txg # 0 => tx_syncing_txg = LastSynced + 1
    /\ tx_quiesced_txg # 0 => tx_quiesced_txg = LastHanded + 1
    /\ qpc = "lock" \/ Quiescing => tx_quiesced_txg = 0
    /\ qpc = "lock" => q_txg = tx_open_txg
    /\ Quiescing => q_txg = LastHanded + 1
    /\ tx_open_txg = (IF Quiescing THEN q_txg ELSE LastClosed) + 1

LockInv ==
    /\ \A c \in Cpus : tc_lock[c] = "quiesce" <=> qpc = "lock" /\ c < q_cpu
    /\ \A t \in Txs : tpc[t] \in {"locked", "delay", "late"} =>
          tc_lock[th_cpu[t]] = t /\ th_txg[t] = tx_open_txg

\* A transaction is inside the open group, or inside the quiescing one on a
\* tx_cpu that the quiesce thread has still to drain.
HoldInv ==
    \A t \in Txs :
        /\ tpc[t] = "new" => th_txg[t] = 0
        /\ tpc[t] # "new" => th_txg[t] \in FirstTxg .. tx_open_txg
        /\ tpc[t] \in Holding =>
              \/ th_txg[t] = tx_open_txg
              \/ Quiescing /\ th_txg[t] = q_txg /\ th_cpu[t] >= q_cpu

CountInv == \A c \in Cpus, g \in Slots : tc_count[c][g] = Cardinality(Inside(c, g))

CallbackInv ==
    /\ \A c \in Cpus, g \in Slots, t \in Txs : t \in tc_callbacks[c][g] =>
          /\ tpc[t] \in {"registered", "done"}
          /\ Slot(th_txg[t]) = g
          /\ th_txg[t] > LastSynced
    /\ \A t \in tx_commit_cb_taskq \cup called :
          tpc[t] = "done" /\ th_txg[t] <= tx_synced_txg
    /\ tx_commit_cb_taskq \cap called = {}

HistoryInv ==
    history = {x \in FirstTxg .. tx_open_txg : x + zfs_txg_history > tx_open_txg}

IInv ==
    TypeOK /\ PipelineInv /\ LockInv /\ HoldInv /\ CountInv /\ CallbackInv
    /\ HistoryInv
=============================================================================
