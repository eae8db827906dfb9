----------------------------- MODULE TxgProofs -----------------------------
(***************************************************************************)
(* Proofs about Txg, for any number of CPUs, transactions and waiters and  *)
(* any length of the run: the safety properties follow from IInv, and every *)
(* step is a step of TxgOrder.                                             *)
(***************************************************************************)
EXTENDS Txg, FiniteSetTheorems, TLAPS

\* A step that at most wakes threads: the quiesce thread from more_wait, the
\* sync thread from its sleeps, delayed transactions.  The waiters, the
\* requests and tx_exiting are free.
Quiet ==
    /\ UNCHANGED <<tx_open_txg, syncVars, cbVars, cpuVars, history, q_txg,
                   q_cpu, thVars>>
    /\ spc' = spc \/ (spc # "syncing" /\ spc' # "syncing")
    /\ qpc' = qpc \/ {qpc, qpc'} \subseteq {"check", "more_wait", "exited"}
    /\ tpc' = tpc \/ tpc' = WakeAll(tpc, "delay", "locked")

\* The ring: two txgs less than TXG_SIZE apart that share a slot are equal.
LEMMA SlotLemma ==
    ASSUME NEW a \in Nat, NEW b \in Nat, a <= b, b < a + 4, Slot(a) = Slot(b)
    PROVE  a = b
BY DEF Slot, TXG_SIZE

LEMMA SlotType == \A a \in Nat : Slot(a) \in Slots
BY DEF Slot, TXG_SIZE, Slots

-----------------------------------------------------------------------------
(* The initial state                                                       *)

LEMMA InitIInv == Init => IInv
<1> SUFFICES ASSUME Init PROVE IInv
  BY Zenon
<1> USE TxgAssumption
<1>1. TypeOK
  <2>1. 0 \in Cpus
    BY DEF Cpus
  <2>2. th_cpu \in [Txs -> Cpus]
    BY Zenon, <2>1 DEF Init
  <2>3. tc_lock \in [Cpus -> Txs \cup {"free", "quiesce"}]
    BY Zenon DEF Init
  <2>4. /\ tc_count \in [Cpus -> [Slots -> Int]]
        /\ tc_callbacks \in [Cpus -> [Slots -> SUBSET Txs]]
    BY DEF Init
  <2>5. tpc \in [Txs -> {"new", "done"} \cup Holding] /\ th_txg \in [Txs -> Nat]
    BY Zenon DEF Init
  <2>6. /\ wpc \in [Waiters -> {"idle", "synced_check", "synced_wait",
                            "open_check", "open_wait", "stop_call", "stop",
                            "exit_check", "exit_wait", "stopped"}]
        /\ w_txg \in [Waiters -> Nat]
    BY Zenon DEF Init
  <2>7. tx_exiting \in BOOLEAN /\ stopping \in BOOLEAN
    BY Zenon DEF Init
  <2>8. history \subseteq Nat /\ q_cpu \in 0 .. max_ncpus
    BY DEF Init
  <2> HIDE TxgAssumption
  <2> QED
    BY Zenon, <2>2, <2>3, <2>4, <2>5, <2>6, <2>7, <2>8, TxgAssumption DEF Init, TypeOK
<1>2. PipelineInv
  BY DEF Init, PipelineInv, Quiescing, LastHanded, LastClosed, LastSynced
<1>3. LockInv
  BY Zenon DEF Init, LockInv, Cpus
<1>4. HoldInv
  BY Zenon DEF Init, HoldInv, Holding
<1>5. CountInv
  <2>1. \A c \in Cpus, g \in Slots : Inside(c, g) = {}
    BY Zenon DEF Init, Inside, Holding
  <2>2. \A c \in Cpus, g \in Slots : tc_count[c][g] = 0
    BY Zenon DEF Init
  <2> QED
    BY Zenon, <2>1, <2>2, FS_EmptySet DEF CountInv
<1>6. CallbackInv
  BY Zenon DEF Init, CallbackInv
<1>7. HistoryInv
  BY DEF Init, HistoryInv, TXG_CONCURRENT_STATES
<1> QED
  BY Zenon, <1>1, <1>2, <1>3, <1>4, <1>5, <1>6, <1>7 DEF IInv

-----------------------------------------------------------------------------
(* Steps that move no group                                                *)

LEMMA QuietInv == ASSUME TypeOK', IInv, Quiet PROVE IInv'
<1> USE TxgAssumption
<1>1. tpc' \in [Txs -> {"new", "done"} \cup Holding]
      /\ \A t \in Txs : /\ tpc'[t] = tpc[t] \/ (tpc[t] = "delay" /\ tpc'[t] = "locked")
                        /\ tpc'[t] \in Holding <=> tpc[t] \in Holding
  BY DEF Quiet, WakeAll, IInv, TypeOK, Holding
<1>2. Quiescing' <=> Quiescing
  BY Zenon DEF Quiet, Quiescing
<1>3. PipelineInv'
  BY Zenon, <1>2 DEF Quiet, IInv, PipelineInv, LastHanded, LastClosed, LastSynced, syncVars
<1>4. LockInv'
  BY Zenon, <1>1 DEF Quiet, IInv, LockInv, cpuVars, thVars
<1>5. HoldInv'
  BY Zenon, <1>1, <1>2 DEF Quiet, IInv, HoldInv, thVars
<1>6. CountInv'
  <2>1. \A c \in Cpus, g \in Slots : Inside(c, g)' = Inside(c, g)
    BY Zenon, <1>1 DEF Quiet, Inside, thVars
  <2> QED
    BY Zenon, <2>1 DEF Quiet, IInv, CountInv, cpuVars
<1>7. CallbackInv'
  BY <1>1 DEF Quiet, IInv, TypeOK, CallbackInv, cbVars, cpuVars, thVars,
               syncVars, LastSynced
<1>8. HistoryInv'
  BY Zenon DEF Quiet, IInv, HistoryInv
<1> QED
  BY Zenon, <1>3, <1>4, <1>5, <1>6, <1>7, <1>8 DEF IInv

-----------------------------------------------------------------------------
(* Types                                                                   *)

LEMMA TypeStep == ASSUME TypeOK, [Next]_vars PROVE TypeOK'
<1> USE TxgAssumption DEF TypeOK, syncVars, reqVars, cbVars, cpuVars, qVars,
                          thVars, wVars
<1>1. ASSUME NEW t \in Txs, NEW c \in Cpus, txg_hold_open(t, c) PROVE TypeOK'
  BY <1>1, SlotType DEF txg_hold_open, Holding
<1>2. ASSUME NEW t \in Txs, txg_delay(t) \/ DelayTimeout(t) PROVE TypeOK'
  BY <1>2 DEF txg_delay, DelayTimeout, Holding
<1>3. ASSUME NEW t \in Txs, txg_rele_to_quiesce(t) PROVE TypeOK'
  BY <1>3 DEF txg_rele_to_quiesce, Holding
<1>4. ASSUME NEW t \in Txs, txg_register_callbacks(t) PROVE TypeOK'
  BY <1>4, SlotType DEF txg_register_callbacks, Holding
<1>5. ASSUME NEW t \in Txs, txg_rele_to_sync(t) PROVE TypeOK'
  <2>1. 0 \in Cpus
    BY DEF Cpus
  <2>2. tc_count' \in [Cpus -> [Slots -> Int]]
    BY <1>5, SlotType DEF txg_rele_to_sync
  <2>3. th_cpu' \in [Txs -> Cpus] /\ tpc' \in [Txs -> {"new", "done"} \cup Holding]
    BY Zenon, <1>5, <2>1 DEF txg_rele_to_sync
  <2> QED
    BY Zenon, <1>5, <2>2, <2>3 DEF txg_rele_to_sync
<1>6. ASSUME NEW t \in Txs, txg_do_callbacks(t) PROVE TypeOK'
  BY <1>6 DEF txg_do_callbacks
<1>7. CASE QuiesceCheck
  BY <1>7 DEF QuiesceCheck, WakeAll
<1>8. CASE QuiesceLock
  BY <1>8 DEF QuiesceLock, Cpus
<1>9. CASE QuiesceOpen
  <2>1. q_cpu' \in 0 .. max_ncpus /\ tx_open_txg' \in Nat
    BY <1>9 DEF QuiesceOpen, dsl_pool_txg_history_add
  <2>3. history' \subseteq history \cup {tx_open_txg + 1}
    BY Zenon, <1>9 DEF QuiesceOpen, dsl_pool_txg_history_add
  <2>2. tc_lock' \in [Cpus -> Txs \cup {"free", "quiesce"}]
    BY Zenon, <1>9 DEF QuiesceOpen, dsl_pool_txg_history_add
  <2> QED
    BY Zenon, <1>9, <2>1, <2>2, <2>3 DEF QuiesceOpen
<1>10. CASE QuiesceDrain
  BY <1>10 DEF QuiesceDrain, Drained
<1>11. CASE QuiesceHandoff
  BY <1>11 DEF QuiesceHandoff, WakeAll
<1>12. ASSUME SyncLoop PROVE TypeOK'
  BY <1>12 DEF SyncLoop, WakeAll, WakeQuiesceMore, Larger, Holding
<1>13. CASE SyncCheck
  BY <1>13, <1>12 DEF SyncCheck
<1>14. CASE SyncTimeout \/ SyncRetry
  BY Zenon, <1>14, <1>12 DEF SyncTimeout, SyncRetry
<1>15. CASE SyncDone
  <2>1. tx_commit_cb_taskq' \subseteq Txs
    BY <1>15, SlotType DEF SyncDone, Callbacks
  <2>2. tc_callbacks' \in [Cpus -> [Slots -> SUBSET Txs]]
    BY Zenon, <1>15, SlotType DEF SyncDone, Callbacks
  <2> QED
    BY Zenon, <1>15, <2>1, <2>2 DEF SyncDone, WakeAll
<1>16. ASSUME NEW w \in Waiters, NEW txg \in Nat, SyncedLoop(w, txg),
              tx_sync_txg_waiting' \in Nat, stopping' = stopping
       PROVE  TypeOK'
  BY <1>16 DEF SyncedLoop, WakeSyncMore
<1>17. ASSUME NEW w \in Waiters, NEW txg \in Nat, OpenLoop(w, txg),
              tx_quiesce_txg_waiting' \in Nat
       PROVE  TypeOK'
  <2>1. tpc' \in [Txs -> {"new", "done"} \cup Holding]
    BY <1>17 DEF OpenLoop, WakeQuiesceMore, WakeAll, Holding
  <2>2. qpc' \in {"check", "more_wait", "lock", "drain", "cv_wait", "exited"}
    BY Zenon, <1>17 DEF OpenLoop, WakeQuiesceMore
  <2>3. /\ wpc' \in [Waiters -> {"idle", "synced_check", "synced_wait",
                             "open_check", "open_wait", "stop_call", "stop",
                             "exit_check", "exit_wait", "stopped"}]
        /\ w_txg' \in [Waiters -> Nat]
    <3>1. PICK p \in {"idle", "open_wait"}, x \in {0, txg} :
              /\ wpc' = [wpc EXCEPT ![w] = p]
              /\ w_txg' = [w_txg EXCEPT ![w] = x]
      BY Zenon, <1>17 DEF OpenLoop
    <3> QED
      BY <3>1
  <2>4. UNCHANGED <<tx_open_txg, syncVars, tx_sync_txg_waiting, tx_exiting,
                    cbVars, cpuVars, history, spc, q_txg, q_cpu, thVars,
                    stopping>>
    BY Zenon, <1>17 DEF OpenLoop
  <2> QED
    BY Zenon, <1>17, <2>1, <2>2, <2>3, <2>4
<1>18. ASSUME NEW w \in Waiters, WaiterCall(w) PROVE TypeOK'
  <2>1. ASSUME NEW arg \in {0} \cup FirstTxg .. tx_open_txg,
               txg_wait_synced(w, arg)
        PROVE  TypeOK'
    <3> DEFINE txg == IF arg = 0 THEN tx_open_txg + TXG_DEFER_SIZE ELSE arg
    <3>1. txg \in Nat
      BY DEF TXG_DEFER_SIZE
    <3> QED
      BY Zenon, <2>1, <3>1, <1>16 DEF txg_wait_synced, Larger
  <2>2. ASSUME NEW arg \in {0} \cup FirstTxg .. tx_open_txg + 1,
               txg_wait_open(w, arg)
        PROVE  TypeOK'
    <3> DEFINE txg == IF arg = 0 THEN tx_open_txg + 1 ELSE arg
    <3>1. txg \in Nat
      OBVIOUS
    <3> QED
      BY Zenon, <2>2, <3>1, <1>17 DEF txg_wait_open, Larger
  <2>3. CASE txg_sync_stop(w)
    BY <2>3 DEF txg_sync_stop, TXG_DEFER_SIZE
  <2> QED
    BY Zenon, <1>18, <2>1, <2>2, <2>3 DEF WaiterCall
<1>19. ASSUME NEW w \in Waiters, WaiterRun(w) PROVE TypeOK'
  <2>1. CASE SyncedWoken(w)
    BY Zenon, <2>1, <1>16 DEF SyncedWoken
  <2>2. CASE OpenWoken(w)
    BY Zenon, <2>2, <1>17 DEF OpenWoken
  <2>3. CASE StopCall(w)
    BY Zenon, <2>3, <1>16 DEF StopCall, Larger
  <2>4. CASE StopExit(w)
    BY Zenon, <2>4 DEF StopExit, WakeQuiesceMore, WakeAll, Holding
  <2>5. CASE StopWoken(w)
    BY <2>5 DEF StopWoken
  <2> QED
    BY Zenon, <1>19, <2>1, <2>2, <2>3, <2>4, <2>5 DEF WaiterRun
<1>20. CASE UNCHANGED vars
  BY <1>20 DEF vars
<1> QED
  BY Zenon, <1>1, <1>2, <1>3, <1>4, <1>5, <1>6, <1>7, <1>8, <1>9, <1>10, <1>11, <1>13,
     <1>14, <1>15, <1>18, <1>19, <1>20
  DEF Next, TxNext, QuiesceNext, SyncNext

-----------------------------------------------------------------------------
(* What the pipeline invariant says about the txgs in use                  *)

\* The parts of TypeOK, for the provers' sake.
NumTypes ==
    /\ tx_open_txg \in Nat /\ tx_quiesced_txg \in Nat
    /\ tx_syncing_txg \in Nat /\ tx_synced_txg \in Nat
    /\ q_txg \in Nat /\ q_cpu \in 0 .. max_ncpus
TxTypes ==
    /\ tx_commit_cb_taskq \subseteq Txs /\ called \subseteq Txs
    /\ tpc \in [Txs -> {"new", "done"} \cup Holding]
    /\ th_cpu \in [Txs -> Cpus] /\ th_txg \in [Txs -> Nat]
CpuTypes ==
    /\ tc_lock \in [Cpus -> Txs \cup {"free", "quiesce"}]
    /\ tc_count \in [Cpus -> [Slots -> Int]]
    /\ tc_callbacks \in [Cpus -> [Slots -> SUBSET Txs]]

LEMMA TypeParts == ASSUME TypeOK PROVE NumTypes /\ TxTypes /\ CpuTypes
BY Zenon DEF TypeOK, NumTypes, TxTypes, CpuTypes

\* How far apart the txgs in use are.
Bounded ==
    /\ LastSynced \in Nat /\ LastSynced >= FirstTxg - 1
    /\ LastSynced < tx_open_txg /\ tx_open_txg <= LastSynced + 3
    /\ FirstTxg <= tx_open_txg
    /\ tx_quiesced_txg < tx_open_txg
    /\ tx_syncing_txg < tx_open_txg
    /\ tx_synced_txg < tx_open_txg
    /\ tx_quiesced_txg # 0 => /\ tx_quiesced_txg >= FirstTxg
                              /\ tx_open_txg = tx_quiesced_txg + 1
    /\ tx_syncing_txg # 0 => /\ tx_syncing_txg >= FirstTxg
                             /\ tx_open_txg <= tx_syncing_txg + 2
    /\ Quiescing => /\ q_txg + 1 = tx_open_txg
                    /\ q_txg > tx_syncing_txg
                    /\ q_txg > tx_synced_txg
                    /\ q_txg > LastSynced
                    /\ tx_quiesced_txg = 0
                    /\ q_txg >= FirstTxg

LEMMA IInvFacts == ASSUME IInv PROVE NumTypes /\ TxTypes /\ CpuTypes /\ Bounded
<1>1. NumTypes /\ TxTypes /\ CpuTypes
  BY Zenon, TypeParts DEF IInv
<1>2. PipelineInv
  BY Zenon DEF IInv
<1>3. LastSynced \in Nat /\ LastSynced >= FirstTxg - 1 /\ tx_synced_txg <= LastSynced
  BY <1>1, <1>2, TxgAssumption DEF NumTypes, PipelineInv, LastSynced
<1>4. LastHanded \in Nat /\ LastHanded <= LastSynced + 1 /\ LastSynced <= LastHanded
      /\ (tx_syncing_txg # 0 => tx_syncing_txg = LastSynced + 1 /\ LastHanded = tx_syncing_txg)
  BY <1>1, <1>2, <1>3 DEF NumTypes, PipelineInv, LastHanded
<1>5. /\ tx_quiesced_txg # 0 => /\ tx_quiesced_txg = LastHanded + 1
                                /\ ~Quiescing /\ tx_open_txg = LastHanded + 2
      /\ tx_quiesced_txg = 0 /\ ~Quiescing => tx_open_txg = LastHanded + 1
      /\ Quiescing => /\ tx_quiesced_txg = 0 /\ q_txg = LastHanded + 1
                      /\ tx_open_txg = q_txg + 1
  BY <1>1, <1>2, <1>4 DEF NumTypes, PipelineInv, LastClosed
<1> QED
  BY <1>1, <1>3, <1>4, <1>5, TxgAssumption DEF NumTypes, Bounded

-----------------------------------------------------------------------------

-----------------------------------------------------------------------------
(* Transactions                                                            *)

LEMMA HoldOpenInv ==
    ASSUME IInv, TypeOK', NEW t \in Txs, NEW c \in Cpus, txg_hold_open(t, c)
    PROVE  IInv'
<1> USE TxgAssumption DEF IInv, syncVars, cbVars, qVars
<1>1. NumTypes /\ TxTypes /\ CpuTypes /\ Bounded
  BY Zenon, IInvFacts
<1>2. PICK g \in Slots : g = Slot(tx_open_txg)
  BY Zenon, <1>1, SlotType DEF NumTypes
<1>3. tpc[t] = "new" /\ tpc' = [tpc EXCEPT ![t] = "locked"]
  BY Zenon DEF txg_hold_open
<1>4. \A u \in Txs : u # t => /\ tpc'[u] = tpc[u]
                              /\ th_cpu'[u] = th_cpu[u]
                              /\ th_txg'[u] = th_txg[u]
  BY Zenon, <1>1 DEF txg_hold_open, TxTypes
<1>5. tpc'[t] = "locked" /\ th_cpu'[t] = c /\ th_txg'[t] = tx_open_txg
  BY Zenon, <1>1 DEF txg_hold_open, TxTypes
<1>6. PipelineInv'
  BY Zenon DEF txg_hold_open, PipelineInv, Quiescing, LastHanded, LastClosed, LastSynced
<1>7. LockInv'
  <2>1. tc_lock[c] = "free" /\ tc_lock' = [tc_lock EXCEPT ![c] = t]
    BY Zenon DEF txg_hold_open
  <2>2. t # "quiesce" /\ t # "free"
    BY Zenon
  <2> QED
    BY <1>1, <1>4, <1>5, <2>1, <2>2
    DEF txg_hold_open, LockInv, TxTypes, CpuTypes
<1>8. HoldInv'
  <2>1. th_txg'[t] \in FirstTxg .. tx_open_txg'
    BY <1>1, <1>5 DEF txg_hold_open, NumTypes, Bounded
  <2>2. Quiescing' = Quiescing /\ q_txg' = q_txg /\ q_cpu' = q_cpu
        /\ tx_open_txg' = tx_open_txg
    BY Zenon DEF txg_hold_open, Quiescing
  <2> QED
    BY <1>4, <1>5, <2>1, <2>2 DEF HoldInv
<1>9. CountInv'
  <2>1. IsFiniteSet(Inside(c, g)) /\ t \notin Inside(c, g)
    BY Zenon, <1>3, FS_Subset DEF Inside, Holding
  <2>2. Inside(c, g)' = Inside(c, g) \cup {t}
    BY <1>2, <1>3, <1>4, <1>5 DEF Inside, Holding
  <2>3. Cardinality(Inside(c, g)') = Cardinality(Inside(c, g)) + 1
    BY <2>1, <2>2, FS_AddElement, Zenon
  <2>4. \A d \in Cpus, h \in Slots : <<d, h>> # <<c, g>> =>
           Inside(d, h)' = Inside(d, h)
    BY <1>2, <1>3, <1>4, <1>5 DEF Inside, Holding
  <2>5. /\ tc_count'[c][g] = tc_count[c][g] + 1
        /\ \A d \in Cpus, h \in Slots : <<d, h>> # <<c, g>> =>
              tc_count'[d][h] = tc_count[d][h]
    BY Zenon, <1>1, <1>2 DEF txg_hold_open, CpuTypes
  <2> QED
    BY <1>2, <2>3, <2>4, <2>5 DEF CountInv
<1>10. CallbackInv'
  BY <1>1, <1>3, <1>4 DEF txg_hold_open, CallbackInv, LastSynced, TxTypes
<1>11. HistoryInv'
  BY Zenon DEF txg_hold_open, HistoryInv
<1> QED
  BY Zenon, <1>6, <1>7, <1>8, <1>9, <1>10, <1>11

LEMMA ReleToQuiesceInv ==
    ASSUME IInv, TypeOK', NEW t \in Txs, txg_rele_to_quiesce(t)
    PROVE  IInv'
<1> USE TxgAssumption DEF IInv, syncVars, cbVars, qVars, thVars
<1>1. NumTypes /\ TxTypes /\ CpuTypes /\ Bounded
  BY Zenon, IInvFacts
<1>2. /\ tpc[t] \in {"locked", "late"} /\ tpc'[t] = "held"
      /\ \A u \in Txs : u # t => tpc'[u] = tpc[u]
      /\ th_cpu' = th_cpu /\ th_txg' = th_txg /\ tx_open_txg' = tx_open_txg
  BY Zenon, <1>1 DEF txg_rele_to_quiesce, TxTypes
<1>3. PipelineInv'
  BY Zenon DEF txg_rele_to_quiesce, PipelineInv, Quiescing, LastHanded, LastClosed,
         LastSynced
<1>4. LockInv'
  <2>1. /\ th_cpu[t] \in Cpus /\ tc_lock[th_cpu[t]] = t
        /\ tc_lock' = [tc_lock EXCEPT ![th_cpu[t]] = "free"]
        /\ qpc' = qpc /\ q_cpu' = q_cpu
    BY Zenon, <1>1, <1>2 DEF txg_rele_to_quiesce, LockInv, TxTypes
  <2>2. t # "quiesce" /\ t # "free"
    BY Zenon
  <2> QED
    BY <1>1, <1>2, <2>1, <2>2 DEF LockInv, TxTypes, CpuTypes
<1>5. HoldInv'
  BY <1>2 DEF txg_rele_to_quiesce, HoldInv, Quiescing, Holding
<1>6. CountInv'
  <2>1. \A c \in Cpus, g \in Slots : Inside(c, g)' = Inside(c, g)
    BY <1>2 DEF Inside, Holding
  <2> QED
    BY <2>1 DEF txg_rele_to_quiesce, CountInv
<1>7. CallbackInv'
  BY <1>1, <1>2 DEF txg_rele_to_quiesce, CallbackInv, LastSynced, TxTypes
<1>8. HistoryInv'
  BY Zenon DEF txg_rele_to_quiesce, HistoryInv
<1> QED
  BY Zenon, <1>3, <1>4, <1>5, <1>6, <1>7, <1>8

\* txg_delay() and its timeout leave the transaction where it is.
LEMMA DelayInv ==
    ASSUME IInv, TypeOK', NEW t \in Txs, txg_delay(t) \/ DelayTimeout(t)
    PROVE  IInv'
<1> USE TxgAssumption DEF IInv, syncVars, cbVars, cpuVars, qVars, thVars
<1>1. NumTypes /\ TxTypes /\ CpuTypes /\ Bounded
  BY Zenon, IInvFacts
<1>2. /\ {tpc[t], tpc'[t]} \subseteq {"locked", "delay", "late"}
      /\ \A u \in Txs : u # t => tpc'[u] = tpc[u]
  BY Zenon, <1>1 DEF txg_delay, DelayTimeout, TxTypes
<1>3. UNCHANGED <<tx_open_txg, syncVars, cbVars, cpuVars, history, spc, qVars,
                  thVars>>
  BY Zenon DEF txg_delay, DelayTimeout
<1>4. PipelineInv'
  BY <1>3, Zenon DEF PipelineInv, Quiescing, LastHanded, LastClosed, LastSynced
<1>5. LockInv'
  BY Zenon, <1>2, <1>3 DEF LockInv
<1>6. HoldInv'
  BY <1>2, <1>3 DEF HoldInv, Quiescing, Holding
<1>7. CountInv'
  <2>1. \A c \in Cpus, g \in Slots : Inside(c, g)' = Inside(c, g)
    BY <1>2, <1>3 DEF Inside, Holding
  <2> QED
    BY <2>1, <1>3 DEF CountInv
<1>8. CallbackInv'
  <2>1. \A u \in Txs : tpc[u] \in {"registered", "done"} =>
           tpc'[u] \in {"registered", "done"} /\ (tpc[u] = "done" => tpc'[u] = "done")
    BY Zenon, <1>2, <1>3
  <2>2. LastSynced' = LastSynced
    BY Zenon, <1>3 DEF LastSynced
  <2>3. \A c_1 \in Cpus, g_1 \in Slots, u \in Txs : u \in tc_callbacks'[c_1][g_1] =>
          /\ tpc'[u] \in {"registered", "done"}
          /\ Slot(th_txg'[u]) = g_1
          /\ th_txg'[u] > LastSynced'
    BY <1>3, <2>1, <2>2 DEF CallbackInv
  <2>4. tx_commit_cb_taskq \cup called \subseteq Txs
    BY Zenon, <1>1 DEF TxTypes
  <2>5. \A u \in tx_commit_cb_taskq' \cup called' :
          tpc'[u] = "done" /\ th_txg'[u] <= tx_synced_txg'
    BY Zenon, <1>3, <2>1, <2>4 DEF CallbackInv
  <2> QED
    BY Zenon, <1>3, <2>3, <2>5 DEF CallbackInv
<1>9. HistoryInv'
  BY Zenon, <1>3 DEF HistoryInv
<1> QED
  BY <1>4, <1>5, <1>6, <1>7, <1>8, <1>9

LEMMA RegisterInv ==
    ASSUME IInv, TypeOK', NEW t \in Txs, txg_register_callbacks(t)
    PROVE  IInv'
<1> USE TxgAssumption DEF IInv, syncVars, cbVars, qVars, thVars
<1>1. NumTypes /\ TxTypes /\ CpuTypes /\ Bounded
  BY Zenon, IInvFacts
<1>2. /\ tpc[t] = "held" /\ tpc'[t] = "registered"
      /\ \A u \in Txs : u # t => tpc'[u] = tpc[u]
  BY Zenon, <1>1 DEF txg_register_callbacks, TxTypes
<1>3. UNCHANGED <<tx_open_txg, syncVars, cbVars, tc_lock, tc_count, history,
                  spc, qVars, thVars>>
  BY Zenon DEF txg_register_callbacks
<1>4. PipelineInv'
  BY <1>3, Zenon DEF PipelineInv, Quiescing, LastHanded, LastClosed, LastSynced
<1>5. LockInv'
  BY Zenon, <1>2, <1>3 DEF LockInv
<1>6. HoldInv'
  BY <1>2, <1>3 DEF HoldInv, Quiescing, Holding
<1>7. CountInv'
  <2>1. \A c \in Cpus, g \in Slots : Inside(c, g)' = Inside(c, g)
    BY Zenon, <1>2, <1>3 DEF Inside, Holding
  <2> QED
    BY <2>1, <1>3 DEF CountInv
<1>8. CallbackInv'
  <2>1. Slot(th_txg[t]) \in Slots /\ th_cpu[t] \in Cpus
    BY Zenon, <1>1, SlotType DEF TxTypes
  <2>2. th_txg[t] > LastSynced
    BY Zenon, <1>1, <1>2 DEF HoldInv, Holding, TxTypes, Bounded
  <2>3. \A c \in Cpus, g \in Slots, u \in Txs : u \in tc_callbacks'[c][g] =>
           u \in tc_callbacks[c][g] \/ (u = t /\ g = Slot(th_txg[t]))
    BY <1>1, <2>1 DEF txg_register_callbacks, CpuTypes
  <2>4. LastSynced' = LastSynced
    BY Zenon, <1>3 DEF LastSynced
  <2>5. \A c \in Cpus, g \in Slots, u \in Txs : u \in tc_callbacks'[c][g] =>
          /\ tpc'[u] \in {"registered", "done"}
          /\ Slot(th_txg'[u]) = g
          /\ th_txg'[u] > LastSynced'
    BY <1>2, <1>3, <2>2, <2>3, <2>4 DEF CallbackInv
  <2> QED
    BY <1>1, <1>2, <1>3, <2>5 DEF CallbackInv, TxTypes
<1>9. HistoryInv'
  BY Zenon, <1>3 DEF HistoryInv
<1> QED
  BY Zenon, <1>4, <1>5, <1>6, <1>7, <1>8, <1>9

LEMMA ReleToSyncInv ==
    ASSUME IInv, TypeOK', NEW t \in Txs, txg_rele_to_sync(t)
    PROVE  IInv'
<1> USE TxgAssumption DEF IInv, syncVars, cbVars
<1>1. NumTypes /\ TxTypes /\ CpuTypes /\ Bounded
  BY Zenon, IInvFacts
<1>2. PICK c \in Cpus, g \in Slots : c = th_cpu[t] /\ g = Slot(th_txg[t])
  BY Zenon, <1>1, SlotType DEF TxTypes
<1>3. /\ tpc[t] \in {"held", "registered"} /\ tpc'[t] = "done"
      /\ \A u \in Txs : u # t => tpc'[u] = tpc[u] /\ th_cpu'[u] = th_cpu[u]
  BY Zenon, <1>1 DEF txg_rele_to_sync, TxTypes
<1>4. UNCHANGED <<tx_open_txg, syncVars, cbVars, tc_lock, tc_callbacks, history,
                  spc, q_txg, q_cpu, th_txg>>
  BY Zenon DEF txg_rele_to_sync
<1>5. qpc' = qpc \/ (qpc = "cv_wait" /\ qpc' = "drain")
  BY Zenon DEF txg_rele_to_sync
<1>6. Quiescing' = Quiescing
  BY <1>5 DEF Quiescing
<1>7. PipelineInv'
  BY <1>4, <1>5, <1>6, Zenon DEF PipelineInv, LastHanded, LastClosed, LastSynced
<1>8. LockInv'
  BY <1>3, <1>4, <1>5 DEF LockInv
<1>9. HoldInv'
  BY <1>3, <1>4, <1>6 DEF HoldInv, Holding
<1>10. CountInv'
  <2>1. IsFiniteSet(Inside(c, g)) /\ t \in Inside(c, g)
    BY Zenon, <1>2, <1>3, FS_Subset DEF Inside, Holding
  <2>2. Inside(c, g)' = Inside(c, g) \ {t}
    BY Zenon, <1>3, <1>4 DEF Inside, Holding
  <2>3. Cardinality(Inside(c, g)') = Cardinality(Inside(c, g)) - 1
    BY <2>1, <2>2, FS_RemoveElement, Zenon
  <2>4. \A d \in Cpus, h \in Slots : <<d, h>> # <<c, g>> =>
           Inside(d, h)' = Inside(d, h)
    BY <1>2, <1>3, <1>4 DEF Inside, Holding
  <2>5. /\ tc_count'[c][g] = tc_count[c][g] - 1
        /\ \A d \in Cpus, h \in Slots : <<d, h>> # <<c, g>> =>
              tc_count'[d][h] = tc_count[d][h]
    BY Zenon, <1>1, <1>2 DEF txg_rele_to_sync, CpuTypes
  <2> QED
    BY <2>3, <2>4, <2>5 DEF CountInv
<1>11. CallbackInv'
  <2>1. \A u \in Txs : tpc[u] \in {"registered", "done"} =>
           tpc'[u] \in {"registered", "done"} /\ (tpc[u] = "done" => tpc'[u] = "done")
    BY Zenon, <1>3, <1>4
  <2>2. LastSynced' = LastSynced
    BY Zenon, <1>4 DEF LastSynced
  <2>3. \A c_1 \in Cpus, g_1 \in Slots, u \in Txs : u \in tc_callbacks'[c_1][g_1] =>
          /\ tpc'[u] \in {"registered", "done"}
          /\ Slot(th_txg'[u]) = g_1
          /\ th_txg'[u] > LastSynced'
    BY <1>4, <2>1, <2>2 DEF CallbackInv
  <2>4. tx_commit_cb_taskq \cup called \subseteq Txs
    BY Zenon, <1>1 DEF TxTypes
  <2>5. \A u \in tx_commit_cb_taskq' \cup called' :
          tpc'[u] = "done" /\ th_txg'[u] <= tx_synced_txg'
    BY Zenon, <1>4, <2>1, <2>4 DEF CallbackInv
  <2> QED
    BY Zenon, <1>4, <2>3, <2>5 DEF CallbackInv
<1>12. HistoryInv'
  BY Zenon, <1>4 DEF HistoryInv
<1> QED
  BY Zenon, <1>7, <1>8, <1>9, <1>10, <1>11, <1>12

LEMMA DoCallbacksInv ==
    ASSUME IInv, TypeOK', NEW t \in Txs, txg_do_callbacks(t)
    PROVE  IInv'
<1> USE DEF IInv, syncVars, cpuVars, qVars, thVars
<1>1. UNCHANGED <<tx_open_txg, syncVars, cpuVars, history, spc, qVars, tpc,
                  thVars>>
  BY Zenon DEF txg_do_callbacks
<1>2. PipelineInv'
  BY Zenon, <1>1 DEF PipelineInv, Quiescing, LastHanded, LastClosed, LastSynced
<1>3. LockInv' /\ HistoryInv'
  BY Zenon, <1>1 DEF LockInv, HistoryInv
<1>4. HoldInv'
  BY Zenon, <1>1 DEF HoldInv, Quiescing
<1>5. CountInv'
  BY Zenon, <1>1 DEF CountInv, Inside
<1>6. CallbackInv'
  BY <1>1 DEF txg_do_callbacks, CallbackInv, LastSynced
<1> QED
  BY Zenon, <1>2, <1>3, <1>4, <1>5, <1>6

-----------------------------------------------------------------------------
(* The quiesce thread                                                      *)

LEMMA QuiesceCheckInv ==
    ASSUME IInv, TypeOK', QuiesceCheck
    PROVE  IInv'
<1> USE DEF IInv
<1>1. CASE qpc' # "lock"
  <2>1. Quiet
    BY Zenon, <1>1 DEF QuiesceCheck, Quiet
  <2> QED
    BY Zenon, <2>1, QuietInv
<1>2. CASE qpc' = "lock"
  <2> USE DEF syncVars, cbVars, cpuVars, thVars
  <2>1. /\ qpc = "check" /\ tx_quiesced_txg = 0
        /\ q_txg' = tx_open_txg /\ q_cpu' = 0
        /\ UNCHANGED <<tx_open_txg, syncVars, cbVars, cpuVars, history, spc,
                       tpc, thVars>>
    BY Zenon, <1>2 DEF QuiesceCheck, QuiesceReady
  <2>2. ~Quiescing /\ ~Quiescing'
    BY Zenon, <1>2, <2>1 DEF Quiescing
  <2>3. PipelineInv'
    BY Zenon, <1>2, <2>1, <2>2 DEF PipelineInv, LastHanded, LastClosed, LastSynced
  <2>4. LockInv'
    BY <1>2, <2>1 DEF LockInv, Cpus
  <2>5. HoldInv'
    BY Zenon, <2>1, <2>2 DEF HoldInv
  <2>6. CountInv' /\ HistoryInv'
    BY Zenon, <2>1 DEF CountInv, Inside, HistoryInv
  <2>7. CallbackInv'
    BY <2>1 DEF CallbackInv, LastSynced
  <2> QED
    BY Zenon, <2>3, <2>4, <2>5, <2>6, <2>7
<1> QED
  BY <1>1, <1>2

LEMMA QuiesceLockInv ==
    ASSUME IInv, TypeOK', QuiesceLock
    PROVE  IInv'
<1> USE TxgAssumption DEF IInv, syncVars, cbVars, thVars
<1>1. NumTypes /\ TxTypes /\ CpuTypes /\ Bounded
  BY Zenon, IInvFacts
<1>2. /\ qpc = "lock" /\ qpc' = "lock" /\ ~Quiescing /\ ~Quiescing'
      /\ UNCHANGED <<tx_open_txg, syncVars, cbVars, tc_count, tc_callbacks,
                     history, spc, q_txg, tpc, thVars>>
  BY Zenon DEF QuiesceLock, Quiescing
<1>3. PipelineInv'
  BY <1>2, Zenon DEF PipelineInv, LastHanded, LastClosed, LastSynced
<1>4. LockInv'
  <2>1. /\ q_cpu \in Cpus /\ tc_lock[q_cpu] = "free" /\ q_cpu' = q_cpu + 1
        /\ tc_lock' = [tc_lock EXCEPT ![q_cpu] = "quiesce"]
    BY <1>1 DEF QuiesceLock, Cpus, NumTypes
  <2>2. \A c \in Cpus : tc_lock'[c] = "quiesce" <=> c < q_cpu'
    BY <1>1, <1>2, <2>1 DEF LockInv, Cpus, NumTypes, CpuTypes
  <2>3. \A t \in Txs : tpc[t] \in {"locked", "delay", "late"} =>
           th_cpu[t] # q_cpu /\ tc_lock'[th_cpu[t]] = t
    BY <1>1, <2>1 DEF LockInv, TxTypes, CpuTypes
  <2> QED
    BY Zenon, <1>2, <2>2, <2>3 DEF LockInv
<1>5. HoldInv'
  BY Zenon, <1>2 DEF HoldInv
<1>6. CountInv' /\ HistoryInv'
  BY Zenon, <1>2 DEF CountInv, Inside, HistoryInv
<1>7. CallbackInv'
  BY <1>2 DEF CallbackInv, LastSynced
<1> QED
  BY Zenon, <1>3, <1>4, <1>5, <1>6, <1>7

LEMMA QuiesceOpenInv ==
    ASSUME IInv, TypeOK', QuiesceOpen
    PROVE  IInv'
<1> USE TxgAssumption DEF IInv, syncVars, cbVars, thVars
<1>1. NumTypes /\ TxTypes /\ CpuTypes /\ Bounded
  BY Zenon, IInvFacts
<1>2. /\ qpc = "lock" /\ q_cpu = max_ncpus /\ qpc' = "drain" /\ q_cpu' = 0
      /\ tx_open_txg' = tx_open_txg + 1
      /\ UNCHANGED <<syncVars, cbVars, tc_count, tc_callbacks, spc, q_txg, tpc,
                     thVars>>
  BY Zenon DEF QuiesceOpen
<1>3. ~Quiescing /\ Quiescing'
  BY Zenon, <1>2 DEF Quiescing
<1>4. \A t \in Txs : tpc[t] \notin {"locked", "delay", "late"}
  <2>1. \A c \in Cpus : tc_lock[c] = "quiesce"
    BY <1>1, <1>2 DEF LockInv, Cpus, NumTypes
  <2> QED
    BY <1>1, <2>1 DEF LockInv, TxTypes
<1>5. PipelineInv'
  BY Zenon, <1>1, <1>2, <1>3
  DEF PipelineInv, LastHanded, LastClosed, LastSynced, NumTypes
<1>6. LockInv'
  <2>1. \A c \in Cpus : tc_lock'[c] = "free"
    BY Zenon DEF QuiesceOpen
  <2> QED
    BY Zenon, <1>2, <1>4, <2>1 DEF LockInv
<1>7. HoldInv'
  <2>1. q_txg' = tx_open_txg
    BY Zenon, <1>2 DEF PipelineInv
  <2>2. \A t \in Txs : th_cpu'[t] >= q_cpu'
    BY <1>1, <1>2 DEF Cpus, TxTypes
  <2> QED
    BY <1>1, <1>2, <1>3, <2>1, <2>2 DEF HoldInv, TxTypes, NumTypes
<1>8. CountInv'
  BY Zenon, <1>2 DEF CountInv, Inside
<1>9. CallbackInv'
  BY <1>2 DEF CallbackInv, LastSynced
<1>10. HistoryInv'
  <2>1. FirstTxg <= tx_open_txg
    BY Zenon, <1>1 DEF Bounded
  <2>2. /\ tx_open_txg \in Nat /\ FirstTxg \in Nat
        /\ zfs_txg_history \in Nat /\ zfs_txg_history >= 3
    BY Zenon, <1>1 DEF TXG_CONCURRENT_STATES, NumTypes
  <2>3. history' = {x \in history \cup {tx_open_txg + 1} :
                       x + zfs_txg_history > tx_open_txg + 1}
    BY Zenon DEF QuiesceOpen, dsl_pool_txg_history_add
  <2>4. \A x : x \in history' <=> /\ x \in FirstTxg .. tx_open_txg + 1
                                  /\ x + zfs_txg_history > tx_open_txg + 1
    BY <2>1, <2>2, <2>3 DEF HistoryInv
  <2> QED
    BY Zenon, <1>2, <2>4 DEF HistoryInv
<1> QED
  BY Zenon, <1>5, <1>6, <1>7, <1>8, <1>9, <1>10

LEMMA QuiesceDrainInv ==
    ASSUME IInv, TypeOK', QuiesceDrain
    PROVE  IInv'
<1> USE TxgAssumption DEF IInv, syncVars, cbVars, cpuVars, thVars
<1>1. NumTypes /\ TxTypes /\ CpuTypes /\ Bounded
  BY Zenon, IInvFacts
<1>2. /\ qpc = "drain" /\ q_cpu < max_ncpus /\ Quiescing /\ Quiescing'
      /\ qpc' \in {"drain", "cv_wait"}
      /\ UNCHANGED <<tx_open_txg, syncVars, cbVars, cpuVars, history, spc, q_txg,
                     tpc, thVars>>
  BY Zenon DEF QuiesceDrain, Quiescing
<1>3. PipelineInv'
  BY <1>2, Zenon DEF PipelineInv, LastHanded, LastClosed, LastSynced
<1>4. LockInv'
  BY Zenon, <1>2 DEF LockInv
<1>5. HoldInv'
  <2>1. CASE q_cpu' = q_cpu
    BY Zenon, <1>2, <2>1 DEF HoldInv
  <2>2. CASE q_cpu' # q_cpu
    <3>1. q_cpu' = q_cpu + 1 /\ tc_count[q_cpu][Slot(q_txg)] = 0
      BY Zenon, <2>2 DEF QuiesceDrain, Drained
    <3>2. q_cpu \in Cpus /\ Slot(q_txg) \in Slots
      BY <1>1, <1>2, SlotType DEF Cpus, NumTypes
    <3>3. Inside(q_cpu, Slot(q_txg)) = {}
      <4>1. IsFiniteSet(Inside(q_cpu, Slot(q_txg)))
        BY Zenon, FS_Subset DEF Inside
      <4>2. Cardinality(Inside(q_cpu, Slot(q_txg))) = 0
        BY Zenon, <3>1, <3>2 DEF CountInv
      <4> QED
        BY Zenon, <4>1, <4>2, FS_EmptySet
    <3>4. \A t \in Txs : tpc[t] \in Holding /\ th_txg[t] = q_txg => th_cpu[t] # q_cpu
      BY Zenon, <3>3 DEF Inside
    <3>5. \A t \in Txs : tpc[t] \in Holding /\ th_txg[t] = q_txg /\ th_cpu[t] >= q_cpu
                            => th_cpu[t] >= q_cpu'
      <4>1. q_cpu \in Int /\ \A t \in Txs : th_cpu[t] \in Int
        BY <1>1 DEF Cpus, NumTypes, TxTypes
      <4> QED
        BY <3>1, <3>4, <4>1
    <3> QED
      BY Zenon, <1>2, <3>5 DEF HoldInv
  <2> QED
    BY Zenon, <2>1, <2>2
<1>6. CountInv' /\ HistoryInv'
  BY Zenon, <1>2 DEF CountInv, Inside, HistoryInv
<1>7. CallbackInv'
  BY <1>2 DEF CallbackInv, LastSynced
<1> QED
  BY Zenon, <1>3, <1>4, <1>5, <1>6, <1>7

LEMMA QuiesceHandoffInv ==
    ASSUME IInv, TypeOK', QuiesceHandoff
    PROVE  IInv'
<1> USE TxgAssumption DEF IInv, cbVars, cpuVars, thVars
<1>1. NumTypes /\ TxTypes /\ CpuTypes /\ Bounded
  BY Zenon, IInvFacts
<1>2. /\ qpc = "drain" /\ q_cpu = max_ncpus /\ qpc' = "check"
      /\ tx_quiesced_txg' = q_txg
      /\ spc' = "syncing" <=> spc = "syncing"
      /\ UNCHANGED <<tx_open_txg, tx_syncing_txg, tx_synced_txg, cbVars, cpuVars,
                     history, tpc, thVars>>
  BY Zenon DEF QuiesceHandoff
<1>3. Quiescing /\ ~Quiescing' /\ LastSynced' = LastSynced /\ LastHanded' = LastHanded
  BY Zenon, <1>2 DEF Quiescing, LastHanded, LastSynced
<1>4. PipelineInv'
  BY <1>1, <1>2, <1>3 DEF PipelineInv, LastClosed, Bounded
<1>5. LockInv'
  BY Zenon, <1>2 DEF LockInv
<1>6. HoldInv'
  <2>1. \A t \in Txs : ~(th_cpu[t] >= q_cpu)
    BY <1>1, <1>2 DEF Cpus, NumTypes, TxTypes
  <2> QED
    BY Zenon, <1>2, <2>1 DEF HoldInv
<1>7. CountInv' /\ HistoryInv'
  BY Zenon, <1>2 DEF CountInv, Inside, HistoryInv
<1>8. CallbackInv'
  BY <1>2 DEF CallbackInv, LastSynced
<1> QED
  BY Zenon, <1>4, <1>5, <1>6, <1>7, <1>8

-----------------------------------------------------------------------------
(* The sync thread                                                         *)

LEMMA SyncLoopInv ==
    ASSUME IInv, TypeOK', SyncLoop, spc # "syncing"
    PROVE  IInv'
<1> USE DEF IInv
<1>1. CASE spc' # "syncing"
  <2>1. Quiet
    BY Zenon, <1>1 DEF SyncLoop, Quiet, WakeQuiesceMore
  <2> QED
    BY Zenon, <2>1, QuietInv
<1>2. CASE spc' = "syncing"
  <2> USE DEF cbVars, cpuVars, thVars
  <2>1. /\ tx_quiesced_txg # 0 /\ tx_syncing_txg' = tx_quiesced_txg
        /\ tx_quiesced_txg' = 0 /\ WakeQuiesceMore
        /\ UNCHANGED <<tx_open_txg, tx_synced_txg, cbVars, cpuVars, history,
                       q_txg, q_cpu, thVars>>
    BY Zenon, <1>2 DEF SyncLoop
  <2>2. tx_syncing_txg = 0 /\ ~Quiescing /\ qpc # "lock"
    BY Zenon, <2>1 DEF PipelineInv
  <2>3. ~Quiescing' /\ qpc' # "lock"
    BY Zenon, <2>1, <2>2 DEF Quiescing, WakeQuiesceMore
  <2>0. TxTypes
    BY Zenon, IInvFacts
  <2>4. \A t \in Txs : /\ tpc'[t] = tpc[t] \/ (tpc[t] = "delay" /\ tpc'[t] = "locked")
                       /\ tpc'[t] \in Holding <=> tpc[t] \in Holding
    BY Zenon, <2>1, <2>0 DEF WakeQuiesceMore, WakeAll, Holding, TxTypes
  <2>5. PipelineInv'
    BY Zenon, <1>2, <2>1, <2>2, <2>3 DEF PipelineInv, LastHanded, LastClosed, LastSynced
  <2>6. LockInv'
    BY Zenon, <2>1, <2>2, <2>3, <2>4 DEF LockInv
  <2>7. HoldInv'
    BY Zenon, <2>1, <2>2, <2>3, <2>4 DEF HoldInv
  <2>8. CountInv'
    <3>1. \A c \in Cpus, g \in Slots : Inside(c, g)' = Inside(c, g)
      BY Zenon, <2>1, <2>4 DEF Inside
    <3> QED
      BY Zenon, <2>1, <3>1 DEF CountInv
  <2>9. CallbackInv'
    <3>1. \A t \in Txs : tpc[t] \in {"registered", "done"} => tpc'[t] = tpc[t]
      BY Zenon, <2>4
    <3>2. LastSynced' = LastSynced
      BY Zenon, <2>1 DEF LastSynced
    <3>3. \A c \in Cpus, g \in Slots, t \in Txs : t \in tc_callbacks'[c][g] =>
            /\ tpc'[t] \in {"registered", "done"}
            /\ Slot(th_txg'[t]) = g
            /\ th_txg'[t] > LastSynced'
      BY <2>1, <3>1, <3>2 DEF CallbackInv
    <3>4. \A t \in tx_commit_cb_taskq' \cup called' :
            tpc'[t] = "done" /\ th_txg'[t] <= tx_synced_txg'
      BY Zenon, <2>1, <2>0, <3>1 DEF CallbackInv, TxTypes
    <3> QED
      BY Zenon, <2>1, <3>3, <3>4 DEF CallbackInv
  <2>10. HistoryInv'
    BY Zenon, <2>1 DEF HistoryInv
  <2> QED
    BY Zenon, <2>5, <2>6, <2>7, <2>8, <2>9, <2>10
<1> QED
  BY Zenon, <1>1, <1>2

\* The callbacks in the slot of the syncing txg are of that txg, and their
\* transactions have finished.
LEMMA SlotOfSyncing ==
    ASSUME IInv, tx_syncing_txg # 0,
           NEW c \in Cpus, NEW t \in Txs,
           t \in tc_callbacks[c][Slot(tx_syncing_txg)]
    PROVE  th_txg[t] = tx_syncing_txg /\ tpc[t] = "done"
<1> USE DEF IInv
<1>1. /\ NumTypes /\ TxTypes /\ CpuTypes /\ Bounded
      /\ Slot(tx_syncing_txg) \in Slots
  BY Zenon, IInvFacts, SlotType DEF NumTypes
<1>2. /\ tpc[t] \in {"registered", "done"} /\ th_txg[t] > LastSynced
      /\ Slot(th_txg[t]) = Slot(tx_syncing_txg)
  BY <1>1 DEF CallbackInv
<1>3. th_txg[t] <= tx_open_txg
  BY <1>1, <1>2 DEF HoldInv, TxTypes, NumTypes
<1>4. tx_syncing_txg = LastSynced + 1
  BY Zenon DEF PipelineInv
<1>5. tx_syncing_txg <= th_txg[t] /\ th_txg[t] < tx_syncing_txg + 4
  BY <1>1, <1>2, <1>3, <1>4 DEF TxTypes, NumTypes, Bounded
<1>6. th_txg[t] = tx_syncing_txg
  BY Zenon, <1>1, <1>2, <1>5, SlotLemma DEF TxTypes, NumTypes
<1>7. tpc[t] # "registered"
  BY <1>1, <1>6 DEF HoldInv, Holding, TxTypes, NumTypes, Bounded
<1> QED
  BY Zenon, <1>2, <1>6, <1>7

LEMMA SyncDoneInv ==
    ASSUME IInv, TypeOK', SyncDone
    PROVE  IInv'
<1> USE DEF IInv, qVars, thVars
<1>1. NumTypes /\ TxTypes /\ CpuTypes /\ Bounded
  BY Zenon, IInvFacts
<1>2. /\ spc = "syncing" /\ spc' = "more_check" /\ tx_syncing_txg' = 0
      /\ tx_synced_txg' = tx_syncing_txg
      /\ UNCHANGED <<tx_open_txg, tx_quiesced_txg, called, tc_lock, tc_count,
                     history, qVars, tpc, thVars>>
  BY Zenon DEF SyncDone, Callbacks
<1>3. /\ tx_syncing_txg # 0 /\ tx_syncing_txg = LastSynced + 1
      /\ LastSynced' = tx_syncing_txg
  BY Zenon, <1>2 DEF PipelineInv, LastSynced
<1>4. PipelineInv'
  <2>1. LastHanded' = LastHanded
    BY Zenon, <1>2, <1>3 DEF LastHanded
  <2>2. LastClosed' = LastClosed /\ Quiescing' = Quiescing
    BY Zenon, <1>2, <2>1 DEF LastClosed, Quiescing
  <2>3. LastSynced' >= FirstTxg - 1
    BY <1>1, <1>3, TxgAssumption DEF Bounded
  <2> QED
    BY Zenon, <1>2, <2>1, <2>2, <2>3 DEF PipelineInv
<1>5. LockInv' /\ HistoryInv'
  BY Zenon, <1>2 DEF LockInv, HistoryInv
<1>6. HoldInv'
  BY Zenon, <1>2 DEF HoldInv, Quiescing
<1>7. CountInv'
  BY Zenon, <1>2 DEF CountInv, Inside
<1>8. CallbackInv'
  <2> DEFINE s == Slot(tx_syncing_txg)
  <2>1. s \in Slots
    BY Zenon, <1>1, SlotType DEF NumTypes
  <2>2. ASSUME NEW c \in Cpus, NEW g \in Slots, NEW t \in Txs,
               t \in tc_callbacks'[c][g]
        PROVE  /\ tpc'[t] \in {"registered", "done"}
               /\ Slot(th_txg'[t]) = g
               /\ th_txg'[t] > LastSynced'
    <3>1. t \in tc_callbacks[c][g] /\ g # s
      BY Zenon, <1>1, <2>1, <2>2 DEF SyncDone, CpuTypes
    <3>2. /\ tpc[t] \in {"registered", "done"} /\ Slot(th_txg[t]) = g
          /\ th_txg[t] > LastSynced
      BY Zenon, <3>1 DEF CallbackInv
    <3>3. th_txg[t] # tx_syncing_txg
      BY Zenon, <3>1, <3>2
    <3> QED
      BY <1>1, <1>2, <1>3, <3>2, <3>3 DEF TxTypes, NumTypes, Bounded
  <2>3. ASSUME NEW t \in tx_commit_cb_taskq' \cup called'
        PROVE  /\ tpc'[t] = "done" /\ th_txg'[t] <= tx_synced_txg'
    <3>1. CASE t \in tx_commit_cb_taskq \cup called
      <4>1. t \in Txs /\ tpc[t] = "done" /\ th_txg[t] <= tx_synced_txg
        BY Zenon, <1>1, <3>1 DEF CallbackInv, TxTypes
      <4>2. tx_synced_txg <= LastSynced
        BY <1>1, TxgAssumption DEF LastSynced, NumTypes
      <4> QED
        BY <1>1, <1>2, <1>3, <4>1, <4>2 DEF TxTypes, NumTypes, Bounded
    <3>2. CASE t \notin tx_commit_cb_taskq \cup called
      <4>1. PICK c \in Cpus : t \in tc_callbacks[c][s]
        BY Zenon, <2>3, <3>2, <1>2 DEF SyncDone, Callbacks
      <4>2. t \in Txs
        BY Zenon, <1>1, <2>1, <4>1 DEF CpuTypes
      <4> QED
        BY <1>1, <1>2, <1>3, <4>1, <4>2, SlotOfSyncing DEF NumTypes
    <3> QED
      BY Zenon, <3>1, <3>2
  <2>4. tx_commit_cb_taskq' \cap called' = {}
    <3>1. ASSUME NEW t \in called, NEW c \in Cpus, t \in tc_callbacks[c][s]
          PROVE  FALSE
      <4>1. t \in Txs /\ th_txg[t] <= tx_synced_txg
        BY Zenon, <1>1 DEF CallbackInv, TxTypes
      <4>2. th_txg[t] = tx_syncing_txg
        BY Zenon, <1>3, <3>1, <4>1, SlotOfSyncing
      <4> QED
        BY <1>1, <1>3, <4>1, <4>2, TxgAssumption
        DEF LastSynced, NumTypes, Bounded
    <3> QED
      BY <3>1, <1>2 DEF SyncDone, Callbacks, CallbackInv
  <2> QED
    BY Zenon, <2>2, <2>3, <2>4 DEF CallbackInv
<1> QED
  BY Zenon, <1>4, <1>5, <1>6, <1>7, <1>8

-----------------------------------------------------------------------------
(* Every step                                                              *)

LEMMA WaiterQuiet ==
    ASSUME NEW w \in Waiters, WaiterCall(w) \/ WaiterRun(w)
    PROVE  Quiet
<1>1. ASSUME NEW txg, SyncedLoop(w, txg) PROVE Quiet
  BY Zenon, <1>1 DEF SyncedLoop, Quiet, WakeSyncMore, qVars
<1>2. ASSUME NEW txg, OpenLoop(w, txg) PROVE Quiet
  BY Zenon, <1>2 DEF OpenLoop, Quiet, WakeQuiesceMore
<1>3. CASE WaiterCall(w)
  <2>1. CASE \E arg \in {0} \cup FirstTxg .. tx_open_txg : txg_wait_synced(w, arg)
    BY <1>1, <2>1, Zenon DEF txg_wait_synced
  <2>2. CASE \E arg \in {0} \cup FirstTxg .. tx_open_txg + 1 : txg_wait_open(w, arg)
    BY <1>2, <2>2, Zenon DEF txg_wait_open
  <2>3. CASE txg_sync_stop(w)
    BY Zenon, <2>3 DEF txg_sync_stop, Quiet, qVars
  <2> QED
    BY Zenon, <1>3, <2>1, <2>2, <2>3 DEF WaiterCall
<1>4. CASE SyncedWoken(w) \/ StopCall(w)
  BY <1>1, <1>4, Zenon DEF SyncedWoken, StopCall
<1>5. CASE OpenWoken(w)
  BY Zenon, <1>2, <1>5 DEF OpenWoken
<1>6. CASE StopExit(w)
  BY Zenon, <1>6 DEF StopExit, Quiet, WakeQuiesceMore
<1>7. CASE StopWoken(w)
  BY Zenon, <1>7 DEF StopWoken, Quiet, qVars
<1> QED
  BY Zenon, <1>3, <1>4, <1>5, <1>6, <1>7 DEF WaiterRun

LEMMA StepIInv == ASSUME IInv, [Next]_vars PROVE IInv'
<1>1. TypeOK'
  BY Zenon, TypeStep DEF IInv
<1>2. ASSUME NEW t \in Txs, TxNext(t) PROVE IInv'
  BY Zenon, <1>1, <1>2, HoldOpenInv, DelayInv, ReleToQuiesceInv, RegisterInv,
     ReleToSyncInv, DoCallbacksInv DEF TxNext
<1>3. CASE QuiesceNext
  BY Zenon, <1>1, <1>3, QuiesceCheckInv, QuiesceLockInv, QuiesceOpenInv,
     QuiesceDrainInv, QuiesceHandoffInv DEF QuiesceNext
<1>4. CASE SyncCheck
  <2>1. CASE SyncLoop
    BY Zenon, <1>1, <1>4, <2>1, SyncLoopInv DEF SyncCheck
  <2>2. CASE ~SyncLoop
    <3>1. Quiet
      BY Zenon, <1>4, <2>2 DEF SyncCheck, Quiet, qVars
    <3> QED
      BY Zenon, <1>1, <3>1, QuietInv
  <2> QED
    BY Zenon, <2>1, <2>2
<1>5. CASE SyncTimeout \/ SyncRetry
  BY Zenon, <1>1, <1>5, SyncLoopInv DEF SyncTimeout, SyncRetry
<1>6. CASE SyncDone
  BY Zenon, <1>1, <1>6, SyncDoneInv
<1>7. ASSUME NEW w \in Waiters, WaiterCall(w) \/ WaiterRun(w) PROVE IInv'
  BY Zenon, <1>1, <1>7, WaiterQuiet, QuietInv
<1>8. CASE UNCHANGED vars
  <2>1. Quiet
    BY Zenon, <1>8 DEF vars, Quiet, qVars
  <2> QED
    BY Zenon, <1>1, <2>1, QuietInv
<1> QED
  BY Zenon, <1>2, <1>3, <1>4, <1>5, <1>6, <1>7, <1>8 DEF Next, SyncNext

(***************************************************************************)
(* IInv holds in every reachable state of txg.c's threads, whatever the    *)
(* number of CPUs and transactions and however long the pool is open.      *)
(***************************************************************************)
THEOREM Invariance == Spec => []IInv
<1>1. Init => IInv
  BY Zenon, InitIInv
<1>2. IInv /\ [Next]_vars => IInv'
  BY Zenon, StepIInv
<1> QED
  BY <1>1, <1>2, PTL DEF Spec

-----------------------------------------------------------------------------

\* Every field and local variable of txg.c keeps its type.
THEOREM TypeCorrect == Spec => []TypeOK
<1>1. IInv => TypeOK
  BY Zenon DEF IInv
<1> QED
  BY <1>1, Invariance, PTL

\* spa_sync() never writes a group in which a transaction still is.
THEOREM HoldersAheadOfSync == Spec => []HoldersAreAhead
<1>1. IInv => HoldersAreAhead
  <2> SUFFICES ASSUME IInv, NEW t \in Txs, tpc[t] \in Holding
               PROVE  /\ th_txg[t] > tx_quiesced_txg
                      /\ th_txg[t] > tx_syncing_txg
                      /\ th_txg[t] > tx_synced_txg
    BY Zenon DEF HoldersAreAhead
  <2>1. NumTypes /\ TxTypes /\ Bounded
    BY Zenon, IInvFacts
  <2>2. th_txg[t] = tx_open_txg \/ (Quiescing /\ th_txg[t] = q_txg)
    BY Zenon DEF IInv, HoldInv
  <2>3. CASE th_txg[t] = tx_open_txg
    BY Zenon, <2>1, <2>3 DEF Bounded
  <2>4. CASE Quiescing /\ th_txg[t] = q_txg
    <3>1. q_txg >= 1
      BY <2>1, <2>4, TxgAssumption DEF NumTypes, Bounded
    <3> QED
      BY <2>1, <2>4, <3>1 DEF NumTypes, Bounded
  <2> QED
    BY Zenon, <2>2, <2>3, <2>4
<1> QED
  BY <1>1, Invariance, PTL

\* The ring of per-CPU counters never mixes two groups.
THEOREM OneTxgPerSlot == Spec => []SlotsHoldOneTxg
<1>1. IInv => SlotsHoldOneTxg
  <2> SUFFICES ASSUME IInv, NEW c \in Cpus, NEW g \in Slots,
                      NEW t \in Inside(c, g), NEW u \in Inside(c, g)
               PROVE  th_txg[t] = th_txg[u]
    BY Zenon DEF SlotsHoldOneTxg, IInv, CountInv
  <2>1. NumTypes /\ TxTypes /\ Bounded
    BY Zenon, IInvFacts
  <2>2. \A x \in Inside(c, g) : /\ th_txg[x] \in Nat /\ Slot(th_txg[x]) = g
                                /\ th_txg[x] <= tx_open_txg
                                /\ tx_open_txg <= th_txg[x] + 1
    BY <2>1 DEF IInv, HoldInv, Inside, TxTypes, NumTypes, Bounded
  <2>3. /\ th_txg[t] <= th_txg[u] => th_txg[u] < th_txg[t] + 4
        /\ ~(th_txg[t] <= th_txg[u]) =>
              th_txg[u] <= th_txg[t] /\ th_txg[t] < th_txg[u] + 4
    BY <2>1, <2>2 DEF NumTypes
  <2> QED
    BY Zenon, <2>2, <2>3, SlotLemma
<1> QED
  BY <1>1, Invariance, PTL

\* At most three groups are not synced.
THEOREM AtMostThreeGroups == Spec => []PipelineDepth
<1>1. IInv => PipelineDepth
  BY Zenon, IInvFacts DEF PipelineDepth, TXG_CONCURRENT_STATES, Bounded
<1> QED
  BY <1>1, Invariance, PTL

\* A commit callback runs only when its group is on disk, and no callback of a
\* group on disk is left behind.
THEOREM CallbacksAfterSync == Spec => []CallbacksFollowSync
<1>1. IInv => CallbacksFollowSync
  BY Zenon DEF IInv, CallbackInv, CallbacksFollowSync
<1> QED
  BY <1>1, Invariance, PTL

\* dsl_pool_txg_history_get() finds what the threads look up.
THEOREM HistoryLookups == Spec => []HistoryIsFound
<1>1. IInv => HistoryIsFound
  <2> SUFFICES ASSUME IInv PROVE HistoryIsFound
    BY Zenon
  <2>1. NumTypes /\ Bounded /\ HistoryInv
    BY Zenon, IInvFacts DEF IInv
  <2>2. /\ FirstTxg <= tx_open_txg
        /\ Quiescing => q_txg >= FirstTxg /\ q_txg + 1 = tx_open_txg
    BY Zenon, <2>1 DEF Bounded
  <2>5. \A x \in FirstTxg .. tx_open_txg : tx_open_txg <= x + 2 => x \in history
    BY <2>1, TxgAssumption DEF HistoryInv, TXG_CONCURRENT_STATES, NumTypes
  <2> QED
    BY <2>1, <2>2, <2>5, TxgAssumption
    DEF HistoryIsFound, Quiescing, NumTypes, Bounded
<1> QED
  BY <1>1, Invariance, PTL

-----------------------------------------------------------------------------
(* What steps do to the abstract state                                     *)

\* A step other than SyncDone leaves tx_synced_txg alone.
LEMMA OnlySyncDone ==
    ASSUME [Next]_vars, tx_synced_txg' # tx_synced_txg PROVE SyncDone
<1> USE DEF syncVars
<1>1. ASSUME NEW t \in Txs, TxNext(t) PROVE FALSE
  BY Zenon, <1>1 DEF TxNext, txg_hold_open, txg_delay, DelayTimeout,
     txg_rele_to_quiesce, txg_register_callbacks, txg_rele_to_sync,
     txg_do_callbacks
<1>2. ASSUME QuiesceNext PROVE FALSE
  BY Zenon, <1>2 DEF QuiesceNext, QuiesceCheck, QuiesceLock, QuiesceOpen, QuiesceDrain,
     QuiesceHandoff
<1>3. ASSUME SyncCheck \/ SyncRetry \/ SyncTimeout PROVE FALSE
  BY Zenon, <1>3 DEF SyncCheck, SyncRetry, SyncTimeout, SyncLoop
<1>4. ASSUME NEW w \in Waiters, WaiterCall(w) \/ WaiterRun(w) PROVE FALSE
  BY Zenon, <1>4 DEF WaiterCall, WaiterRun, txg_wait_synced, txg_wait_open,
     txg_sync_stop, SyncedWoken, OpenWoken, StopCall, StopExit, StopWoken,
     SyncedLoop, OpenLoop
<1>5. ~UNCHANGED vars
  BY Zenon DEF vars
<1> QED
  BY Zenon, <1>1, <1>2, <1>3, <1>4, <1>5 DEF Next, SyncNext

\* Groups reach the disk one by one, in order.
THEOREM GroupsSyncInOrder == Spec => SyncedInOrder
<1>1. ASSUME IInv, [Next]_vars
      PROVE  [tx_synced_txg' # tx_synced_txg =>
                 tx_synced_txg' = LastSynced + 1]_vars
  <2>1. SyncDone => tx_synced_txg' = LastSynced + 1
    BY Zenon, <1>1 DEF IInv, PipelineInv, SyncDone
  <2> QED
    BY Zenon, <1>1, <2>1, OnlySyncDone
<1> QED
  BY <1>1, Invariance, PTL DEF Spec, SyncedInOrder

-----------------------------------------------------------------------------
(* txg.c implements the ordered commit of groups                           *)

\* The state TxgOrder sees.
Abstract == <<tx_open_txg, LastSynced, th_txg, {t \in Txs : tpc[t] = "done"}, called>>

LEMMA QuietAbstract == ASSUME TxTypes, Quiet PROVE UNCHANGED Abstract
<1>1. \A t \in Txs : tpc'[t] = "done" <=> tpc[t] = "done"
  BY Zenon DEF Quiet, WakeAll, TxTypes
<1>2. {t \in Txs : tpc[t] = "done"}' = {t \in Txs : tpc[t] = "done"}
  BY Zenon, <1>1
<1> QED
  BY Zenon, <1>2 DEF Quiet, Abstract, LastSynced, syncVars, thVars, cbVars

\* Steps that are stuttering steps of TxgOrder.
LEMMA StutterAbstract ==
    ASSUME TxTypes,
           \/ \E t \in Txs : txg_delay(t) \/ DelayTimeout(t)
                             \/ txg_rele_to_quiesce(t) \/ txg_register_callbacks(t)
           \/ QuiesceCheck \/ QuiesceLock \/ QuiesceDrain \/ QuiesceHandoff
           \/ SyncLoop \/ SyncCheck \/ SyncTimeout \/ SyncRetry
    PROVE  UNCHANGED Abstract
<1>1. /\ UNCHANGED <<tx_open_txg, tx_synced_txg, th_txg, called>>
      /\ \/ tpc' = tpc
         \/ tpc' = WakeAll(tpc, "delay", "locked")
         \/ \E t \in Txs, p \in Holding : tpc[t] # "done" /\ tpc' = [tpc EXCEPT ![t] = p]
  <2> USE DEF syncVars, cbVars, thVars, Holding
  <2>1. ASSUME NEW t \in Txs,
               txg_delay(t) \/ DelayTimeout(t)
               \/ txg_rele_to_quiesce(t) \/ txg_register_callbacks(t)
        PROVE  <1>1!1 /\ \E p \in Holding : tpc[t] # "done" /\ tpc' = [tpc EXCEPT ![t] = p]
    BY Zenon, <2>1 DEF txg_delay, DelayTimeout, txg_rele_to_quiesce,
                txg_register_callbacks
  <2>2. CASE QuiesceCheck \/ QuiesceLock \/ QuiesceDrain \/ QuiesceHandoff
    BY Zenon, <2>2 DEF QuiesceCheck, QuiesceLock, QuiesceDrain, QuiesceHandoff
  <2>3. CASE SyncLoop \/ SyncCheck \/ SyncTimeout \/ SyncRetry
    BY Zenon, <2>3 DEF SyncLoop, SyncCheck, SyncTimeout, SyncRetry, WakeQuiesceMore
  <2> QED
    BY Zenon, <2>1, <2>2, <2>3
<1>2. \A t \in Txs : tpc'[t] = "done" <=> tpc[t] = "done"
  BY Zenon, <1>1 DEF WakeAll, Holding, TxTypes
<1>3. {t \in Txs : tpc[t] = "done"}' = {t \in Txs : tpc[t] = "done"}
  BY Zenon, <1>2
<1> QED
  BY Zenon, <1>1, <1>3 DEF Abstract, LastSynced

LEMMA HoldIsJoin ==
    ASSUME IInv, NEW t \in Txs, NEW c \in Cpus, txg_hold_open(t, c)
    PROVE  Order!Join(t)
<1>1. TxTypes /\ tpc[t] = "new" /\ th_txg[t] = 0
  BY Zenon, IInvFacts DEF IInv, HoldInv, txg_hold_open
<1>2. {u \in Txs : tpc[u] = "done"}' = {u \in Txs : tpc[u] = "done"}
  BY Zenon, <1>1 DEF txg_hold_open, TxTypes
<1> QED
  BY Zenon, <1>1, <1>2 DEF txg_hold_open, Order!Join, LastSynced, syncVars, cbVars

LEMMA ReleIsFinish ==
    ASSUME IInv, NEW t \in Txs, txg_rele_to_sync(t)
    PROVE  Order!Finish(t)
<1>1. NumTypes /\ TxTypes /\ Bounded /\ tpc[t] \in {"held", "registered"}
  BY Zenon, IInvFacts DEF IInv, txg_rele_to_sync
<1>2. th_txg[t] > LastSynced
  BY Zenon, <1>1 DEF IInv, HoldInv, Holding, TxTypes, NumTypes, Bounded
<1>3. {u \in Txs : tpc[u] = "done"}' = {u \in Txs : tpc[u] = "done"} \cup {t}
  BY Zenon, <1>1 DEF txg_rele_to_sync, TxTypes
<1> QED
  BY Zenon, <1>1, <1>2, <1>3
  DEF txg_rele_to_sync, Order!Finish, LastSynced, syncVars, cbVars

LEMMA DoCallbacksIsNotify ==
    ASSUME IInv, NEW t \in Txs, txg_do_callbacks(t)
    PROVE  Order!Notify(t)
<1>1. NumTypes /\ TxTypes
  BY Zenon, IInvFacts
<1>2. t \notin called /\ tpc[t] = "done" /\ th_txg[t] <= tx_synced_txg
  BY Zenon DEF IInv, CallbackInv, txg_do_callbacks
<1>3. th_txg[t] <= LastSynced
  BY <1>1, <1>2, TxgAssumption DEF LastSynced, NumTypes, TxTypes
<1> QED
  BY Zenon, <1>2, <1>3 DEF txg_do_callbacks, Order!Notify, LastSynced, syncVars, thVars

LEMMA OpenIsAdvance ==
    ASSUME IInv, QuiesceOpen
    PROVE  Order!Advance
<1>1. tx_open_txg < LastSynced + 3
  <2>1. NumTypes /\ Bounded /\ PipelineInv /\ ~Quiescing /\ qpc = "lock"
    BY Zenon, IInvFacts DEF IInv, QuiesceOpen, Quiescing
  <2> QED
    BY <2>1 DEF NumTypes, Bounded, PipelineInv, LastClosed, LastHanded
<1> QED
  BY Zenon, <1>1
  DEF QuiesceOpen, Order!Advance, Order!Depth, LastSynced, syncVars, thVars, cbVars

LEMMA SyncDoneIsCommit ==
    ASSUME IInv, SyncDone
    PROVE  Order!Commit
<1>1. NumTypes /\ TxTypes /\ Bounded
  BY Zenon, IInvFacts
<1>2. /\ tx_syncing_txg # 0 /\ tx_syncing_txg = LastSynced + 1
      /\ LastSynced' = LastSynced + 1
  BY Zenon DEF IInv, PipelineInv, LastSynced, SyncDone
<1>3. LastSynced + 1 < tx_open_txg
  BY Zenon, <1>1, <1>2 DEF Bounded
<1>4. \A t \in Txs : th_txg[t] = LastSynced + 1 => tpc[t] = "done"
  <2> SUFFICES ASSUME NEW t \in Txs, th_txg[t] = LastSynced + 1
               PROVE  tpc[t] = "done"
    BY Zenon
  <2>1. tpc[t] # "new"
    BY Zenon, <1>2 DEF IInv, HoldInv
  <2>2. tpc[t] \notin Holding
    BY <1>1, <1>2, <1>3 DEF IInv, HoldInv, TxTypes, NumTypes, Bounded
  <2> QED
    BY Zenon, <1>1, <2>1, <2>2 DEF TxTypes
<1> QED
  BY Zenon, <1>2, <1>3, <1>4 DEF SyncDone, Order!Commit, thVars, cbVars

(***************************************************************************)
(* The threads, locks and counters of txg.c implement TxgOrder: a          *)
(* transaction is in the group that was open when it started, groups are   *)
(* committed in order and only when all their transactions have finished,  *)
(* and a transaction hears of it once, afterwards.                         *)
(***************************************************************************)
THEOREM ImplementsOrder == Spec => OrderedCommit
<1>1. Init => Order!Init
  BY Zenon DEF Init, Order!Init, LastSynced
<1>2. ASSUME IInv, [Next]_vars PROVE [Order!Next]_(Order!ovars)
  <2>1. TxTypes /\ (UNCHANGED Abstract => UNCHANGED Order!ovars)
    BY Zenon, <1>2, IInvFacts DEF Abstract, Order!ovars
  <2>2. ASSUME NEW t \in Txs, TxNext(t) PROVE [Order!Next]_(Order!ovars)
    BY Zenon, <1>2, <2>1, <2>2, HoldIsJoin, ReleIsFinish, DoCallbacksIsNotify,
       StutterAbstract DEF TxNext, Order!Next
  <2>3. CASE QuiesceNext
    BY Zenon, <1>2, <2>1, <2>3, OpenIsAdvance, StutterAbstract
    DEF QuiesceNext, Order!Next
  <2>4. CASE SyncNext \/ SyncTimeout
    BY Zenon, <1>2, <2>1, <2>4, SyncDoneIsCommit, StutterAbstract
    DEF SyncNext, Order!Next
  <2>5. ASSUME NEW w \in Waiters, WaiterCall(w) \/ WaiterRun(w)
        PROVE  UNCHANGED Abstract
    BY Zenon, <2>1, <2>5, WaiterQuiet, QuietAbstract
  <2>6. CASE UNCHANGED vars
    BY Zenon, <2>1, <2>6
    DEF vars, Abstract, LastSynced, syncVars, thVars, cbVars
  <2> QED
    BY Zenon, <1>2, <2>1, <2>2, <2>3, <2>4, <2>5, <2>6 DEF Next
<1> QED
  BY <1>1, <1>2, Invariance, PTL DEF Spec, OrderedCommit, Order!Spec
=============================================================================
