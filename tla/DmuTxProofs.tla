---------------------------- MODULE DmuTxProofs ----------------------------
(***************************************************************************)
(* Proof that module DmuTx keeps every dnode in one group at a time, for   *)
(* any number of transactions and dnodes.                                  *)
(***************************************************************************)
EXTENDS DmuTx, TLAPS

\* What the steps of the groups, of the tasks and of the outside world leave
\* alone.
txState == <<cast, txVars, dnVars>>

\* The holds taken by a transaction depend on nothing but its own state.
LEMMA HeldSame ==
    ASSUME NEW t, pc'[t] = pc[t], idx'[t] = idx[t],
           needassign'[t] = needassign[t], cast' = cast
    PROVE  Held(t)' = Held(t)
  BY Zenon DEF Held, LastHold, holds, op

\* A transaction of the cast has a sequence of dnodes.
LEMMA HoldsType ==
    ASSUME TypeOK, NEW t \in DOMAIN cast.tx
    PROVE  holds(t) \in Seq(Dnodes)
  BY Zenon, DmuTxAssumption DEF TypeOK, holds, op

\* What a transaction holds are dnodes.
LEMMA HeldDnode ==
    ASSUME IInv, NEW u \in Txs, NEW i \in Held(u)
    PROVE  holds(u)[i] \in Dnodes
  <1>1. pc[u] \in Inside /\ TxInv(u) /\ idx[u] \in Nat \ {0} /\ needassign[u] \in Nat
    BY Zenon DEF IInv, TypeOK, Held, Inside, TcLocked
  <1>2. holds(u) \in Seq(Dnodes)
    BY Zenon, <1>1, HoldsType DEF IInv, TxInv, Inside, TcLocked
  <1>3. Len(holds(u)) \in Nat /\ DOMAIN holds(u) = 1 .. Len(holds(u))
    BY <1>2
  <1>4. LastHold(u) \in Int /\ LastHold(u) <= Len(holds(u))
    BY <1>1, <1>3 DEF TxInv, LastHold
  <1>5. i \in 1 .. Len(holds(u))
    <2>1. \/ pc[u] = "hold" /\ i \in 1 .. idx[u] - 1
          \/ i \in 1 .. Len(holds(u)) \/ i \in 1 .. LastHold(u)
          \/ i \in idx[u] .. LastHold(u) \/ i \in idx[u] .. Len(holds(u))
      BY Zenon DEF Held
    <2>2. pc[u] = "hold" => idx[u] <= Len(holds(u)) + 1
      BY Zenon, <1>1 DEF TxInv
    <2> QED
      BY <1>1, <1>3, <1>4, <2>1, <2>2
  <1> QED
    BY <1>2, <1>5

\* The initial state: nobody holds anything.
LEMMA InitIInv == Init => IInv
  <1> SUFFICES ASSUME Init PROVE IInv
    BY Zenon
  <1>1. TypeOK
    BY DmuTxAssumption DEF Init, TypeOK, PCs
  <1>2. \A t \in Txs : TxInv(t)
    BY Zenon DEF Init, TxInv, TcLocked, Inside
  <1>3. \A t \in Txs : Held(t) = {}
    BY Zenon DEF Init, Held
  <1>4. HoldsAreExact
    BY Zenon, <1>3 DEF Init, HoldsAreExact
  <1>5. DnodeInOneGroup
    BY Zenon DEF Init, DnodeInOneGroup
  <1> QED
    BY Zenon, <1>1, <1>2, <1>4, <1>5 DEF IInv

\* Steps that change neither the transactions nor the open group.
LEMMA OthersIInv ==
    ASSUME IInv, UNCHANGED txState, UNCHANGED <<tx_open_txg, quiescing>>
    PROVE  IInv'
  <1>1. TypeOK'
    BY Zenon DEF IInv, TypeOK, txState, txVars, dnVars
  <1>2. \A t \in Txs : Held(t)' = Held(t)
    BY Zenon, HeldSame DEF txState, txVars
  <1>3. \A t \in Txs : TxInv(t)'
    BY Zenon DEF IInv, TxInv, holds, op, txState, txVars
  <1>4. HoldsAreExact'
    BY <1>2 DEF IInv, TypeOK, HoldsAreExact, holds, op, txState, dnVars
  <1>5. DnodeInOneGroup'
    BY Zenon DEF IInv, DnodeInOneGroup, txState, txVars, dnVars
  <1> QED
    BY Zenon, <1>1, <1>3, <1>4, <1>5 DEF IInv

\* Closing a group: nobody holds a tc_lock, so that nobody inside is required
\* to be in the open group.
LEMMA QuiesceIInv ==
    ASSUME IInv, Quiesce
    PROVE  IInv'
  <1> USE DEF Quiesce
  <1>1. TypeOK'
    BY DEF IInv, TypeOK, txVars, dnVars
  <1>2. \A t \in Txs : Held(t)' = Held(t)
    BY Zenon, HeldSame DEF txVars
  <1>3. ASSUME NEW t \in Txs PROVE TxInv(t)'
    <2>1. TxInv(t) /\ pc[t] \notin TcLocked /\ pc'[t] = pc[t]
      BY Zenon DEF IInv, QuiesceGuard, txVars
    <2>2. pc[t] \in Inside => tx_txg[t] = tx_open_txg
      BY Zenon, <2>1 DEF TxInv
    <2>3. tx_open_txg # 0
      BY DEF IInv, TypeOK
    <2> QED
      BY Zenon, <2>1, <2>2, <2>3 DEF TxInv, txVars, holds, op
  <1>4. HoldsAreExact'
    BY <1>2 DEF IInv, TypeOK, HoldsAreExact, holds, op, txVars, dnVars
  <1>5. DnodeInOneGroup'
    BY Zenon DEF IInv, DnodeInOneGroup, txVars, dnVars
  <1> QED
    BY Zenon, <1>1, <1>3, <1>4, <1>5 DEF IInv

\* The quiescing group is left only when nobody is inside.
LEMMA QuiescedIInv ==
    ASSUME IInv, Quiesced
    PROVE  IInv'
  <1> USE DEF Quiesced
  <1>1. TypeOK'
    BY Zenon DEF IInv, TypeOK, txVars, dnVars
  <1>2. \A t \in Txs : Held(t)' = Held(t)
    BY Zenon, HeldSame DEF txVars
  <1>3. ASSUME NEW t \in Txs PROVE TxInv(t)'
    <2>1. pc[t] \in Inside => tx_txg[t] # quiescing
      BY Zenon DEF Holders
    <2> QED
      BY Zenon, <2>1 DEF IInv, TxInv, txVars, holds, op
  <1>4. HoldsAreExact'
    BY SMTT(30), <1>2 DEF IInv, TypeOK, HoldsAreExact, holds, op, txVars, dnVars
  <1>5. DnodeInOneGroup'
    BY Zenon DEF IInv, DnodeInOneGroup, txVars, dnVars
  <1> QED
    BY Zenon, <1>1, <1>3, <1>4, <1>5 DEF IInv

\* What a step of t leaves alone in the transaction u.
SameTx(u) ==
    /\ pc'[u] = pc[u] /\ idx'[u] = idx[u]
    /\ needassign'[u] = needassign[u] /\ tx_txg'[u] = tx_txg[u]

\* A step of one transaction that takes and drops no hold.
LEMMA OwnStepIInv ==
    ASSUME IInv, NEW t \in Txs, TypeOK', TxInv(t)', Held(t)' = Held(t),
           Held(t) = {} \/ tx_txg'[t] = tx_txg[t],
           \A u \in Txs \ {t} : SameTx(u),
           UNCHANGED <<cast, tx_open_txg, quiescing, dnVars>>
    PROVE  IInv'
  <1>1. \A u \in Txs : Held(u)' = Held(u)
    BY Zenon, HeldSame DEF SameTx
  <1>2. \A u \in Txs : TxInv(u)'
    BY SMTT(30) DEF IInv, TxInv, SameTx, holds, op
  <1>3. HoldsAreExact'
    BY <1>1 DEF IInv, TypeOK, HoldsAreExact, holds, op, dnVars
  <1>4. DnodeInOneGroup'
    <2>1. ASSUME NEW n \in Dnodes, NEW h \in dn_tx_holds[n]
          PROVE  tx_txg'[h[1]] = tx_txg[h[1]]
      <3>1. h[1] \in Txs /\ h[2] \in Held(h[1])
        BY <2>1 DEF IInv, TypeOK, HoldsAreExact
      <3> QED
        BY Zenon, <3>1 DEF SameTx
    <2> QED
      BY Zenon, <2>1 DEF IInv, DnodeInOneGroup, dnVars
  <1> QED
    BY Zenon, <1>2, <1>3, <1>4 DEF IInv

(* Entering dmu_tx_try_assign(), with the pool suspended or a group held. *)
LEMMA StartIInv ==
    ASSUME IInv, NEW t \in Txs, AssignSuspended(t) \/ HoldOpen(t)
    PROVE  IInv'
  <1>1. TypeOK'
    BY DEF IInv, TypeOK, AssignSuspended, HoldOpen, Goto, Set, PCs, Inside,
           TcLocked, dnVars, pipeVars
  <1>2. Held(t) = {} /\ Held(t)' = {}
    BY DEF IInv, TypeOK, AssignSuspended, HoldOpen, Goto, Set, Held
  <1>3. TxInv(t)'
    BY DEF IInv, TypeOK, TxInv, AssignSuspended, HoldOpen, Goto, Set, Inside,
           TcLocked, pipeVars, holds, op
  <1>4. \A u \in Txs \ {t} : SameTx(u)
    BY Zenon DEF IInv, TypeOK, SameTx, AssignSuspended, HoldOpen, Goto, Set
  <1>5. UNCHANGED <<cast, tx_open_txg, quiescing, dnVars>>
    BY Zenon DEF AssignSuspended, HoldOpen, pipeVars
  <1> QED
    BY Zenon, <1>1, <1>2, <1>3, <1>4, <1>5, OwnStepIInv

\* Reserving space: all the holds are taken and stay.
LEMMA ReserveIInv ==
    ASSUME IInv, NEW t \in Txs,
           MemoryThrottle(t) \/ ReservePool(t) \/ ReserveDir(t) \/ ReserveUndo(t)
    PROVE  IInv'
  <1>1. /\ pc' = [pc EXCEPT ![t] = pc'[t]]
        /\ \/ pc[t] = "hold" /\ idx[t] > Len(holds(t))
              /\ pc'[t] \in {"unassign", "dirs"}
           \/ /\ pc[t] \in {"dirs", "root"}
              /\ pc'[t] \in {"undo", "undoroot", "root", "assigned"}
           \/ /\ pc[t] \in {"undo", "undoroot", "undodir"}
              /\ pc'[t] \in {"undodir", "unassign"}
    <2>1. pc \in [Txs -> PCs]
      BY Zenon DEF IInv, TypeOK
    <2>2. CASE MemoryThrottle(t)
      BY Zenon, <2>1, <2>2 DEF MemoryThrottle, Goto
    <2>3. CASE ReservePool(t)
      BY Zenon, <2>1, <2>3 DEF ReservePool, Goto
    <2>4. CASE ReserveDir(t)
      BY Zenon, <2>1, <2>4 DEF ReserveDir, Goto
    <2>5. CASE ReserveUndo(t)
      BY Zenon, <2>1, <2>5 DEF ReserveUndo, ClearPool, ClearDir, Goto
    <2> QED
      BY Zenon, <2>2, <2>3, <2>4, <2>5
  <1>2. UNCHANGED <<cast, tx_open_txg, quiescing, dnVars, tx_txg, idx,
                    needassign>>
    BY Zenon DEF MemoryThrottle, ReservePool, ReserveDir, ReserveUndo, pipeVars
  <1>3. TypeOK'
    BY Zenon, <1>1, <1>2 DEF IInv, TypeOK, PCs, Inside, TcLocked, dnVars
  <1>4. /\ needassign[t] = 0 /\ t \in DOMAIN cast.tx
        /\ pc[t] = "hold" => idx[t] = Len(holds(t)) + 1
        /\ Len(holds(t)) \in Nat
    <2>1. TxInv(t) /\ idx[t] \in Nat
      BY Zenon DEF IInv, TypeOK
    <2>2. t \in DOMAIN cast.tx /\ needassign[t] = 0
      BY Zenon, <1>1, <2>1 DEF TxInv
    <2>3. Len(holds(t)) \in Nat
      <3>1. holds(t) \in Seq(Dnodes)
        BY Zenon, <2>2, HoldsType DEF IInv
      <3> QED
        BY <3>1
    <2>4. pc[t] = "hold" => idx[t] = Len(holds(t)) + 1
      <3>1. pc[t] = "hold" => idx[t] <= Len(holds(t)) + 1 /\ idx[t] > Len(holds(t))
        BY Zenon, <1>1, <2>1 DEF TxInv
      <3> QED
        BY <2>1, <2>3, <3>1
    <2> QED
      BY Zenon, <2>2, <2>3, <2>4
  <1>5. Held(t) = 1 .. Len(holds(t)) /\ Held(t)' = 1 .. Len(holds(t))
    BY <1>1, <1>2, <1>4 DEF Held, LastHold, holds, op, IInv, TypeOK
  <1>6. TxInv(t)'
    BY Zenon, <1>1, <1>2 DEF IInv, TypeOK, TxInv, Inside, TcLocked, holds, op
  <1>7. \A u \in Txs \ {t} : SameTx(u)
    BY Zenon, <1>1, <1>2 DEF IInv, TypeOK, SameTx
  <1> QED
    BY Zenon, <1>2, <1>3, <1>5, <1>6, <1>7, OwnStepIInv

(* The steps of dmu_tx_unassign() that touch no dnode. *)
LEMMA UnassignIInv ==
    ASSUME IInv, NEW t \in Txs, Unassign(t) \/ UnassignDone(t)
    PROVE  IInv'
  <1>1. /\ UNCHANGED <<cast, tx_open_txg, quiescing, dnVars, needassign>>
        /\ TxInv(t) /\ idx[t] \in Nat \ {0} /\ needassign[t] \in Nat
    BY Zenon DEF IInv, TypeOK, Unassign, UnassignDone, pipeVars
  <1>2. TypeOK'
    BY DEF IInv, TypeOK, Unassign, UnassignDone, Goto, Set, PCs, Inside,
           TcLocked, dnVars, pipeVars
  <1>3. \A u \in Txs \ {t} : SameTx(u)
    BY Zenon DEF IInv, TypeOK, SameTx, Unassign, UnassignDone, Goto, Set
  <1>4. CASE Unassign(t)
    <2>1. /\ pc[t] = "unassign" /\ pc'[t] = "drop" /\ idx'[t] = 1
          /\ tx_txg'[t] = tx_txg[t]
      BY Zenon, <1>4 DEF IInv, TypeOK, Unassign, Goto, Set
    <2>2. LastHold(t)' = LastHold(t)
      BY Zenon, <1>1 DEF LastHold, holds, op
    <2>3. Held(t)' = Held(t)
      BY Zenon, <2>1, <2>2 DEF Held
    <2>4. TxInv(t)'
      BY Zenon, <1>1, <2>1 DEF TxInv, Inside, TcLocked, holds, op
    <2> QED
      BY Zenon, <1>1, <1>2, <1>3, <2>1, <2>3, <2>4, OwnStepIInv
  <1>5. CASE UnassignDone(t)
    <2>1. /\ pc[t] = "drop" /\ idx[t] > LastHold(t)
          /\ pc'[t] \in {"wait", "failed"}
      BY Zenon, <1>5 DEF IInv, TypeOK, UnassignDone, Goto
    <2>2. LastHold(t) \in Nat
      <3>1. t \in DOMAIN cast.tx
        BY Zenon, <1>1, <2>1 DEF TxInv
      <3>2. Len(holds(t)) \in Nat
        BY <3>1, HoldsType DEF IInv
      <3> QED
        BY <1>1, <3>2 DEF LastHold
    <2>3. Held(t) = {} /\ Held(t)' = {}
      BY SMTT(30), <1>1, <2>1, <2>2 DEF Held
    <2>4. TxInv(t)'
      BY Zenon, <1>1, <2>1 DEF TxInv, Inside, TcLocked, holds, op
    <2> QED
      BY Zenon, <1>1, <1>2, <1>3, <2>3, <2>4, OwnStepIInv
  <1> QED
    BY Zenon, <1>4, <1>5

(* The steps of dmu_tx_wait(). *)
LEMMA WaitIInv ==
    ASSUME IInv, NEW t \in Txs, Wait(t) \/ WaitDnode(t) \/ WaitOver(t)
    PROVE  IInv'
  <1>1. /\ pc[t] \in {"wait", "dwait", "synced", "open"}
        /\ pc' = [pc EXCEPT ![t] = pc'[t]]
        /\ pc'[t] \in {"synced", "dwait", "open", "start", "dsleep"}
        /\ needassign' = [needassign EXCEPT ![t] = needassign'[t]]
        /\ needassign'[t] \in {0, needassign[t]}
        /\ UNCHANGED <<cast, tx_open_txg, quiescing, dnVars, tx_txg, idx>>
    <2>1. pc \in [Txs -> PCs] /\ needassign \in [Txs -> Nat]
      BY Zenon DEF IInv, TypeOK
    <2>2. CASE Wait(t)
      BY Zenon, <2>1, <2>2 DEF Wait, Goto, pipeVars
    <2>3. ASSUME Retry(t), pc[t] \in {"dwait", "synced", "open"}
          PROVE  <1>1!:
      BY ZenonT(30), <2>1, <2>3 DEF Retry, Goto, Set, pipeVars
    <2>4. CASE WaitDnode(t)
      BY ZenonT(30), <2>1, <2>3, <2>4 DEF WaitDnode, Goto, pipeVars
    <2>5. CASE WaitOver(t)
      BY Zenon, <2>3, <2>5 DEF WaitOver
    <2> QED
      BY Zenon, <2>2, <2>4, <2>5
  <1>2. TypeOK'
    BY <1>1 DEF IInv, TypeOK, PCs, dnVars
  <1>3. Held(t) = {} /\ Held(t)' = {}
    BY Zenon, <1>1 DEF Held
  <1>4. TxInv(t)'
    BY Zenon, <1>1 DEF IInv, TxInv, Inside, TcLocked, holds, op
  <1>5. \A u \in Txs \ {t} : SameTx(u)
    BY Zenon, <1>1 DEF IInv, TypeOK, SameTx
  <1> QED
    BY Zenon, <1>1, <1>2, <1>3, <1>4, <1>5, OwnStepIInv

(* The steps of a commit that touch no dnode. *)
LEMMA CommitIInv ==
    ASSUME IInv, NEW t \in Txs, WillUse(t) \/ CommitClear(t) \/ CommitDone(t)
    PROVE  IInv'
  <1>1. /\ UNCHANGED <<cast, tx_open_txg, quiescing, dnVars, needassign,
                       tx_txg>>
        /\ TxInv(t) /\ idx[t] \in Nat \ {0}
    BY Zenon DEF IInv, TypeOK, WillUse, CommitClear, CommitDone, pipeVars
  <1>2. TypeOK'
    <2>1. /\ pc' = [pc EXCEPT ![t] = pc'[t]]
          /\ pc'[t] \in {"commit", "cleardir", "clearroot", "leave", "done"}
          /\ idx' = [idx EXCEPT ![t] = 1] \/ idx' = idx
      <3>1. pc \in [Txs -> PCs]
        BY Zenon DEF IInv, TypeOK
      <3> QED
        BY Zenon, <3>1 DEF WillUse, CommitClear, ClearPool, ClearDir, CommitDone, Goto, Set
    <2>2. pc' \in [Txs -> PCs] /\ idx' \in [Txs -> Nat \ {0}]
      BY <2>1 DEF IInv, TypeOK, PCs, Inside
    <2> QED
      BY Zenon, <1>1, <2>2 DEF IInv, TypeOK, dnVars
  <1>3. \A u \in Txs \ {t} : SameTx(u)
    BY Zenon DEF IInv, TypeOK, SameTx, WillUse, CommitClear, ClearPool, ClearDir,
                 CommitDone, Goto, Set
  <1>4. holds(t)' = holds(t)
    BY Zenon, <1>1 DEF holds, op
  <1>5. CASE WillUse(t)
    <2>1. pc[t] = "assigned" /\ pc'[t] = "commit" /\ idx'[t] = 1
      BY Zenon, <1>5 DEF IInv, TypeOK, WillUse, Goto, Set
    <2>2. Held(t)' = Held(t)
      BY Zenon, <1>4, <2>1 DEF Held
    <2>3. TxInv(t)'
      BY ZenonT(30), <1>1, <1>4, <2>1 DEF TxInv, Inside, TcLocked
    <2> QED
      BY ZenonT(30), <1>1, <1>2, <1>3, <2>2, <2>3, OwnStepIInv
  <1>6. CASE CommitClear(t) \/ CommitDone(t)
    <2>1. /\ \/ pc[t] = "commit" /\ idx[t] > Len(holds(t)) /\ pc'[t] = "cleardir"
             \/ pc[t] = "cleardir" /\ pc'[t] = "clearroot"
             \/ pc[t] = "clearroot" /\ pc'[t] = "leave"
             \/ pc[t] = "leave" /\ pc'[t] = "done"
          /\ Len(holds(t)) \in Nat
      <3>1. t \in DOMAIN cast.tx
        BY ZenonT(30), <1>1, <1>6 DEF TxInv, CommitClear, CommitDone
      <3>2. Len(holds(t)) \in Nat
        BY <3>1, HoldsType DEF IInv
      <3> QED
        BY Zenon, <1>6, <3>2 DEF IInv, TypeOK, CommitClear, ClearPool, ClearDir,
                                 CommitDone, Goto
    <2>2. Held(t) = {} /\ Held(t)' = {}
      BY SMTT(30), <1>1, <2>1 DEF Held
    <2>3. TxInv(t)'
      BY ZenonT(30), <1>1, <1>4, <2>1 DEF TxInv, Inside, TcLocked
    <2> QED
      BY ZenonT(30), <1>1, <1>2, <1>3, <2>2, <2>3, OwnStepIInv
  <1> QED
    BY Zenon, <1>5, <1>6

-----------------------------------------------------------------------------

\* One hold is taken.  The dnode is free or in the open group: its holders
\* are in the open or in the quiescing group, and the latter was excluded.
LEMMA HoldDnodeIInv ==
    ASSUME IInv, NEW t \in Txs, HoldDnode(t)
    PROVE  IInv'
  <1> DEFINE n == holds(t)[idx[t]]
  <1>0. /\ pc[t] = "hold" /\ TxInv(t) /\ t \in DOMAIN cast.tx
        /\ needassign[t] = 0 /\ tx_txg[t] = tx_open_txg
        /\ idx[t] \in Nat \ {0} /\ idx[t] <= Len(holds(t))
    BY Zenon DEF IInv, TypeOK, TxInv, HoldDnode, TcLocked
  <1>1. Len(holds(t)) \in Nat /\ n \in Dnodes /\ idx[t] \in DOMAIN holds(t)
    BY <1>0, HoldsType DEF IInv
  <1>2. UNCHANGED <<cast, tx_open_txg, quiescing, tx_txg>>
    BY Zenon DEF HoldDnode, pipeVars
  <1>3. CASE OtherGroup(n, t)
    <2>1. /\ pc' = [pc EXCEPT ![t] = "unassign"]
          /\ needassign' = [needassign EXCEPT ![t] = idx[t]]
          /\ UNCHANGED <<idx, dnVars>>
      BY Zenon, <1>3 DEF HoldDnode, Goto, Set
    <2>2. TypeOK'
      BY Zenon, <1>0, <1>2, <2>1 DEF IInv, TypeOK, PCs, Inside, TcLocked, dnVars
    <2>3. Held(t) = 1 .. idx[t] - 1
      BY Zenon, <1>0 DEF Held
    <2>4. Held(t)' = 1 .. idx[t] - 1
      BY Zenon, <1>0, <2>1 DEF Held, LastHold, IInv, TypeOK
    <2>5. TxInv(t)'
      BY Zenon, <1>0, <1>1, <1>2, <2>1 DEF IInv, TypeOK, TxInv, Inside, TcLocked, holds, op
    <2>6. \A u \in Txs \ {t} : SameTx(u)
      BY Zenon, <1>2, <2>1 DEF IInv, TypeOK, SameTx
    <2> QED
      BY Zenon, <1>2, <2>1, <2>2, <2>3, <2>4, <2>5, <2>6, OwnStepIInv
  <1>5. idx[t] \in Nat \ {0}
    BY Zenon DEF IInv, TypeOK
  <1>4. CASE ~OtherGroup(n, t)
    <2>1. /\ dn_assigned_txg' =
               IF dn_assigned_txg[n] = 0
               THEN [dn_assigned_txg EXCEPT ![n] = tx_txg[t]]
               ELSE dn_assigned_txg
          /\ dn_tx_holds' = [dn_tx_holds EXCEPT
                               ![n] = dn_tx_holds[n] \cup {<<t, idx[t]>>}]
          /\ idx' = [idx EXCEPT ![t] = idx[t] + 1]
          /\ UNCHANGED <<pc, needassign>>
      BY Zenon, <1>4 DEF HoldDnode, Set
    <2>2. TypeOK'
      <3>1. idx[t] + 1 \in Nat \ {0} /\ tx_txg[t] \in Nat /\ <<t, idx[t]>> \in Txs \X Nat
        BY <1>5 DEF IInv, TypeOK
      <3>2. dn_tx_holds[n] \cup {<<t, idx[t]>>} \in SUBSET (Txs \X Nat)
        BY Zenon, <1>1, <3>1 DEF IInv, TypeOK
      <3>3. /\ idx' \in [Txs -> Nat \ {0}] /\ dn_assigned_txg' \in [Dnodes -> Nat]
            /\ dn_tx_holds' \in [Dnodes -> SUBSET (Txs \X Nat)]
        BY Zenon, <2>1, <3>1, <3>2 DEF IInv, TypeOK
      <3> QED
        BY Zenon, <1>2, <2>1, <3>3 DEF IInv, TypeOK
    <2>3. \A u \in Txs : TxInv(u)'
      BY SMTT(30), <1>0, <1>1, <1>2, <2>1 DEF IInv, TypeOK, TxInv, holds, op
    <2>4. dn_assigned_txg[n] \in {0, tx_txg[t]}
      <3>1. CASE dn_tx_holds[n] = {}
        BY Zenon, <1>1, <3>1 DEF IInv, DnodeInOneGroup
      <3>2. CASE dn_tx_holds[n] # {}
        <4>1. PICK h \in dn_tx_holds[n] : TRUE
          BY Zenon, <3>2
        <4>2. /\ h[1] \in Txs /\ h[2] \in Held(h[1])
              /\ dn_assigned_txg[n] = tx_txg[h[1]]
          BY <1>1, <4>1 DEF IInv, TypeOK, HoldsAreExact, DnodeInOneGroup
        <4>3. pc[h[1]] \in Inside
          BY Zenon, <4>2 DEF Held, Inside, TcLocked
        <4>4. tx_txg[h[1]] = tx_open_txg \/ tx_txg[h[1]] = tx_open_txg - 1
          BY Zenon, <4>2, <4>3 DEF IInv, TypeOK, TxInv
        <4> QED
          BY Zenon, <1>0, <1>4, <4>2, <4>4 DEF OtherGroup
      <3> QED
        BY Zenon, <3>1, <3>2
    <2>5. dn_assigned_txg'[n] = tx_txg[t] /\ tx_txg[t] # 0
      BY <1>0, <1>1, <2>1, <2>4 DEF IInv, TypeOK
    <2>6. /\ \A u \in Txs \ {t} : Held(u)' = Held(u)
          /\ Held(t) = 1 .. idx[t] - 1 /\ Held(t)' = 1 .. idx[t]
      <3>1. \A u \in Txs \ {t} : Held(u)' = Held(u)
        BY Zenon, <1>2, <2>1, HeldSame DEF IInv, TypeOK
      <3> QED
        BY <1>0, <2>1, <3>1 DEF Held, IInv, TypeOK
    <2>7. HoldsAreExact'
      <3>1. ASSUME NEW m \in Dnodes, NEW h \in dn_tx_holds'[m]
            PROVE  h[2] \in Held(h[1])' /\ holds(h[1])[h[2]] = m
        <4>1. CASE h \in dn_tx_holds[m]
          <5>1. h[1] \in Txs /\ h[2] \in Held(h[1]) /\ holds(h[1])[h[2]] = m
            BY <4>1 DEF IInv, TypeOK, HoldsAreExact
          <5>2. Held(t) \subseteq Held(t)'
            BY <1>5, <2>6
          <5> QED
            BY Zenon, <2>6, <5>1, <5>2
        <4>2. CASE m = n /\ h = <<t, idx[t]>>
          BY <1>0, <2>6, <4>2
        <4> QED
          BY Zenon, <1>1, <2>1, <3>1, <4>1, <4>2 DEF IInv, TypeOK
      <3>2. ASSUME NEW u \in Txs, NEW i \in Held(u)'
            PROVE  <<u, i>> \in dn_tx_holds'[holds(u)[i]]
        <4>1. CASE i \in Held(u)
          <5>1. <<u, i>> \in dn_tx_holds[holds(u)[i]]
            BY Zenon, <4>1 DEF IInv, HoldsAreExact
          <5>2. holds(u)[i] \in Dnodes
            BY Zenon, <4>1, HeldDnode
          <5>3. CASE holds(u)[i] = n
            BY Zenon, <1>1, <2>1, <5>1, <5>3 DEF IInv, TypeOK
          <5>4. CASE holds(u)[i] # n
            BY Zenon, <1>1, <2>1, <5>1, <5>2, <5>4 DEF IInv, TypeOK
          <5> QED
            BY Zenon, <5>3, <5>4
        <4>2. CASE i \notin Held(u)
          <5>1. u = t
            BY Zenon, <2>6, <3>2, <4>2
          <5>2. i \in 1 .. idx[t] /\ i \notin 1 .. idx[t] - 1
            BY Zenon, <2>6, <3>2, <4>2, <5>1
          <5>3. i = idx[t]
            BY <1>5, <5>2
          <5> QED
            BY Zenon, <1>1, <2>1, <5>1, <5>3 DEF IInv, TypeOK
        <4> QED
          BY Zenon, <4>1, <4>2
      <3>3. \A u : holds(u)' = holds(u)
        BY Zenon, <1>2 DEF holds, op
      <3> QED
        BY Zenon, <3>1, <3>2, <3>3 DEF HoldsAreExact
    <2>8. DnodeInOneGroup'
      <3>1. /\ \A h \in dn_tx_holds[n] : tx_txg[t] = tx_txg[h[1]]
            /\ dn_tx_holds'[n] = dn_tx_holds[n] \cup {<<t, idx[t]>>}
        BY Zenon, <1>1, <2>1, <2>4, <2>5 DEF IInv, TypeOK, DnodeInOneGroup
      <3>2. ASSUME NEW m \in Dnodes, m # n
            PROVE  /\ dn_tx_holds'[m] = dn_tx_holds[m]
                   /\ dn_assigned_txg'[m] = dn_assigned_txg[m]
        BY Zenon, <2>1, <3>2 DEF IInv, TypeOK
      <3>3. \A h \in dn_tx_holds'[n] : tx_txg[t] = tx_txg[h[1]]
        <4> TAKE h \in dn_tx_holds'[n]
        <4>1. h \in dn_tx_holds[n] \/ h = <<t, idx[t]>>
          BY Zenon, <3>1
        <4> QED
          BY <3>1, <4>1
      <3> QED
        BY ZenonT(30), <1>1, <1>2, <2>5, <3>1, <3>2, <3>3 DEF IInv, DnodeInOneGroup
    <2> QED
      BY Zenon, <2>2, <2>3, <2>7, <2>8 DEF IInv
  <1> QED
    BY Zenon, <1>3, <1>4

(* DnodeInOneGroup for one dnode. *)
Belongs(n) ==
    /\ \A h \in dn_tx_holds[n] : dn_assigned_txg[n] = tx_txg[h[1]]
    /\ dn_assigned_txg[n] = 0 <=> dn_tx_holds[n] = {}

\* One hold is dropped, by dmu_tx_unassign() or by dmu_tx_commit(); the last
\* one frees the dnode and wakes the sleepers.
LEMMA DropIInv ==
    ASSUME IInv, NEW t \in Txs, UnassignDrop(t) \/ CommitDrop(t)
    PROVE  IInv'
  <1> DEFINE n == holds(t)[idx[t]]
             left == dn_tx_holds[n] \ {<<t, idx[t]>>}
             last == IF pc[t] = "drop" THEN LastHold(t) ELSE Len(holds(t))
  <1>0. /\ pc[t] \in {"drop", "commit"} /\ TxInv(t) /\ t \in DOMAIN cast.tx
        /\ idx[t] \in Nat \ {0} /\ idx[t] <= last /\ DropHold(t)
        /\ UNCHANGED <<cast, tx_open_txg, quiescing, tx_txg, needassign>>
    BY Zenon DEF IInv, TypeOK, TxInv, UnassignDrop, CommitDrop, pipeVars
  <1>1. /\ Len(holds(t)) \in Nat /\ last \in Nat /\ last <= Len(holds(t))
        /\ idx[t] \in DOMAIN holds(t) /\ n \in Dnodes
    <2>1. holds(t) \in Seq(Dnodes)
      BY Zenon, <1>0, HoldsType DEF IInv
    <2>2. last \in Nat /\ last <= Len(holds(t))
      BY SMTT(30), <1>0, <2>1 DEF LastHold, IInv, TypeOK, TxInv
    <2>3. Len(holds(t)) \in Nat /\ DOMAIN holds(t) = 1 .. Len(holds(t))
      BY <2>1
    <2>4. idx[t] \in DOMAIN holds(t)
      BY <1>0, <2>2, <2>3
    <2>5. n \in Dnodes
      BY <2>1, <2>4
    <2> QED
      BY Zenon, <2>2, <2>3, <2>4, <2>5
  <1>2. Held(t) = idx[t] .. last
    BY Zenon, <1>0 DEF Held
  <1>3. /\ dn_tx_holds' = [dn_tx_holds EXCEPT ![n] = left]
        /\ dn_assigned_txg' = IF left = {}
                              THEN [dn_assigned_txg EXCEPT ![n] = 0]
                              ELSE dn_assigned_txg
        /\ pc' = IF left = {} THEN Woken(n) ELSE pc
        /\ idx' = [idx EXCEPT ![t] = idx[t] + 1]
    BY Zenon, <1>0 DEF DropHold, Set
  <1>4. /\ pc' \in [Txs -> PCs]
        /\ \A u \in Txs : \/ pc'[u] = pc[u]
                          \/ pc[u] = "dsleep" /\ pc'[u] = "dwait"
    BY Zenon, <1>3 DEF IInv, TypeOK, Woken, PCs
  <1>5. pc'[t] = pc[t]
    BY Zenon, <1>0, <1>4
  <1>6. TypeOK'
    <2>1. /\ idx' \in [Txs -> Nat \ {0}]
          /\ dn_assigned_txg' \in [Dnodes -> Nat]
      BY SMTT(30), <1>0, <1>1, <1>3 DEF IInv, TypeOK
    <2>2. dn_tx_holds' \in [Dnodes -> SUBSET (Txs \X Nat)]
      <3>1. left \in SUBSET (Txs \X Nat)
        BY Zenon, <1>1 DEF IInv, TypeOK
      <3> QED
        BY Zenon, <1>1, <1>3, <3>1 DEF IInv, TypeOK
    <2> QED
      BY Zenon, <1>0, <1>4, <2>1, <2>2 DEF IInv, TypeOK
  <1>7. \A u \in Txs : TxInv(u)'
    <2> TAKE u \in Txs
    <2>1. /\ TxInv(u) /\ needassign'[u] = needassign[u]
          /\ tx_txg'[u] = tx_txg[u] /\ holds(u)' = holds(u)
          /\ DOMAIN cast'.tx = DOMAIN cast.tx
      BY Zenon, <1>0 DEF IInv, holds, op
    <2>2. pc[u] = "hold" => idx'[u] = idx[u]
      BY Zenon, <1>0, <1>3 DEF IInv, TypeOK
    <2>3. CASE pc'[u] = pc[u]
      BY Zenon, <1>0, <2>1, <2>2, <2>3 DEF TxInv
    <2>4. CASE pc[u] = "dsleep" /\ pc'[u] = "dwait"
      BY Zenon, <2>1, <2>4 DEF TxInv, Inside, TcLocked
    <2> QED
      BY Zenon, <1>4, <2>3, <2>4
  <1>8. Held(t)' = (idx[t] + 1) .. last
    BY ZenonT(30), <1>0, <1>3, <1>5 DEF Held, LastHold, holds, op, IInv, TypeOK
  <1>9. \A u \in Txs \ {t} : Held(u)' = Held(u)
    <2> TAKE u \in Txs \ {t}
    <2>1. CASE pc'[u] = pc[u]
      BY Zenon, <1>0, <1>3, <2>1, HeldSame DEF IInv, TypeOK
    <2>2. CASE pc[u] = "dsleep" /\ pc'[u] = "dwait"
      BY Zenon, <2>2 DEF Held
    <2> QED
      BY Zenon, <1>4, <2>1, <2>2
  <1>10. \A u : holds(u)' = holds(u)
    BY Zenon, <1>0 DEF holds, op
  <1>11. HoldsAreExact'
    <2>1. ASSUME NEW m \in Dnodes, NEW h \in dn_tx_holds'[m]
          PROVE  h[2] \in Held(h[1])' /\ holds(h[1])[h[2]] = m
      <3>1. h \in dn_tx_holds[m] /\ (m = n => h # <<t, idx[t]>>)
        BY Zenon, <1>1, <1>3, <2>1 DEF IInv, TypeOK
      <3>2. /\ h \in Txs \X Nat /\ h[2] \in Held(h[1])
            /\ holds(h[1])[h[2]] = m
        BY Zenon, <3>1 DEF IInv, TypeOK, HoldsAreExact
      <3>3. h[1] = t => h[2] # idx[t]
        <4>1. h = <<h[1], h[2]>>
          BY <3>2
        <4> QED
          BY Zenon, <3>1, <3>2, <4>1
      <3> QED
        BY <1>0, <1>1, <1>2, <1>8, <1>9, <3>2, <3>3
    <2>2. ASSUME NEW u \in Txs, NEW i \in Held(u)'
          PROVE  <<u, i>> \in dn_tx_holds'[holds(u)[i]]
      <3>1. i \in Held(u) /\ <<u, i>> # <<t, idx[t]>>
        BY <1>0, <1>1, <1>2, <1>8, <1>9, <2>2
      <3>2. <<u, i>> \in dn_tx_holds[holds(u)[i]]
        BY Zenon, <3>1 DEF IInv, HoldsAreExact
      <3>3. CASE holds(u)[i] = n
        BY Zenon, <1>1, <1>3, <3>1, <3>2, <3>3 DEF IInv, TypeOK
      <3>4. CASE holds(u)[i] # n
        BY Zenon, <1>1, <1>3, <3>1, <3>2, <3>4, HeldDnode DEF IInv, TypeOK
      <3> QED
        BY Zenon, <3>3, <3>4
    <2> QED
      BY Zenon, <1>10, <2>1, <2>2 DEF HoldsAreExact
  <1>12. DnodeInOneGroup'
    <2>1. <<t, idx[t]>> \in dn_tx_holds[n]
      <3>1. idx[t] \in Held(t)
        BY <1>0, <1>1, <1>2
      <3> QED
        BY Zenon, <3>1 DEF IInv, HoldsAreExact
    <2>2. /\ dn_tx_holds'[n] = left
          /\ dn_assigned_txg'[n] = IF left = {} THEN 0 ELSE dn_assigned_txg[n]
          /\ dn_assigned_txg[n] # 0
      <3>1. dn_assigned_txg[n] # 0
        BY Zenon, <1>1, <2>1 DEF IInv, DnodeInOneGroup
      <3> QED
        BY Zenon, <1>1, <1>3, <3>1 DEF IInv, TypeOK
    <2>3. ASSUME NEW m \in Dnodes, m # n
          PROVE  /\ dn_tx_holds'[m] = dn_tx_holds[m]
                 /\ dn_assigned_txg'[m] = dn_assigned_txg[m]
      BY Zenon, <1>3, <2>3 DEF IInv, TypeOK
    <2>4. \A m \in Dnodes : Belongs(m)
      BY Zenon DEF IInv, DnodeInOneGroup, Belongs
    <2>5. ASSUME NEW m \in Dnodes PROVE Belongs(m)'
      <3>1. CASE m # n
        <4>1. /\ Belongs(m) /\ tx_txg' = tx_txg
              /\ dn_tx_holds'[m] = dn_tx_holds[m] /\ dn_assigned_txg'[m] = dn_assigned_txg[m]
          BY Zenon, <1>0, <2>3, <2>4, <3>1
        <4> QED
          BY Zenon, <4>1 DEF Belongs
      <3>2. CASE m = n
        BY Zenon, <1>0, <2>2, <2>4, <3>2 DEF Belongs
      <3> QED
        BY Zenon, <3>1, <3>2
    <2> QED
      BY Zenon, <2>5 DEF DnodeInOneGroup, Belongs
  <1> QED
    BY Zenon, <1>6, <1>7, <1>11, <1>12 DEF IInv

\* IInv is preserved by every step.
LEMMA NextIInv == IInv /\ [Next]_vars => IInv'
  <1> SUFFICES ASSUME IInv, [Next]_vars PROVE IInv'
    BY Zenon
  <1>1. ASSUME NEW t \in Txs, TxStep(t) PROVE IInv'
    BY Zenon, <1>1, StartIInv, HoldDnodeIInv, ReserveIInv, UnassignIInv, DropIInv,
       WaitIInv, CommitIInv DEF TxStep
  <1>2. ASSUME NEW k \in Tasks, TaskStep(k) PROVE IInv'
    <2>1. UNCHANGED txState /\ UNCHANGED <<tx_open_txg, quiescing>>
      BY ZenonT(30), <1>2 DEF TaskStep, TaskAssign, TaskCheck, TaskCommit, TaskAgain,
                  TaskSleep, TaskWake, txState, pipeVars
    <2> QED
      BY Zenon, <2>1, OthersIInv
  <1>3. CASE SyncThreadAsks \/ SyncStep \/ Suspend \/ Resume
    <2>1. CASE SyncThreadAsks \/ Suspend \/ Resume
      <3>1. UNCHANGED txState /\ UNCHANGED <<tx_open_txg, quiescing>>
        BY Zenon, <2>1 DEF SyncThreadAsks, Suspend, Resume, txState, pipeVars
      <3> QED
        BY Zenon, <3>1, OthersIInv
    <2>2. CASE SyncStep
      <3>1. UNCHANGED txState /\ UNCHANGED <<tx_open_txg, quiescing>>
        BY Zenon, <2>2 DEF SyncStep, SyncStart, SyncDatasets, SyncDirs, SyncTask,
                    SyncDone, txState, pipeVars
      <3> QED
        BY Zenon, <3>1, OthersIInv
    <2> QED
      BY Zenon, <1>3, <2>1, <2>2
  <1>4. CASE Quiesce
    BY Zenon, <1>4, QuiesceIInv
  <1>5. CASE Quiesced
    BY Zenon, <1>5, QuiescedIInv
  <1>6. CASE UNCHANGED vars
    <2>1. UNCHANGED txState /\ UNCHANGED <<tx_open_txg, quiescing>>
      BY Zenon, <1>6 DEF vars, txState, pipeVars
    <2> QED
      BY Zenon, <2>1, OthersIInv
  <1> QED
    BY Zenon, <1>1, <1>2, <1>3, <1>4, <1>5, <1>6 DEF Next, GroupStep

\* Whatever the number of transactions, of dnodes and of holds: the
\* transactions that hold a dnode are all in the group dn_assigned_txg, and a
\* dnode without holders is free, as dmu_tx_try_assign() asserts.
THEOREM DnodesInOneGroup == Spec => []DnodeInOneGroup
  <1>1. IInv => DnodeInOneGroup
    BY Zenon DEF IInv
  <1> QED
    BY InitIInv, NextIInv, <1>1, PTL DEF Spec

-----------------------------------------------------------------------------
(* The groups and their slots.                                             *)

\* Four groups in a row have four slots.
LEMMA SlotsDiffer ==
    ASSUME NEW a \in Nat, NEW b \in Nat, a - b < 4, b - a < 4, Slot(a) = Slot(b)
    PROVE  a = b
  BY DEF Slot, TXG_SIZE

\* The slot of a group.
LEMMA SlotType == ASSUME NEW a \in Nat PROVE Slot(a) \in Slots
  BY DEF Slot, Slots, TXG_SIZE

\* Inside a group that is not yet written to the datasets.
LEMMA InsideIsLater ==
    ASSUME IInv, PipeInv, NEW t \in Txs, pc[t] \in Inside
    PROVE  tx_txg[t] \in Nat /\ tx_txg[t] > Through
  BY DEF IInv, TypeOK, TxInv, PipeInv, Through

\* At the start the open group follows the last synced one.
LEMMA InitPipeInv == Init => PipeInv
  BY DmuTxAssumption DEF Init, PipeInv

\* The groups move through the pipeline one after the other.
LEMMA NextPipeInv == IInv /\ PipeInv /\ [Next]_vars => PipeInv'
  <1> SUFFICES ASSUME IInv, PipeInv, [Next]_vars PROVE PipeInv'
    BY Zenon
  <1>1. CASE UNCHANGED pipeVars
    BY Zenon, <1>1 DEF PipeInv, pipeVars
  <1>2. CASE Quiesce
    <2>1. /\ tx_open_txg' = tx_open_txg + 1 /\ quiescing' = tx_open_txg /\ quiescing = 0
          /\ tx_quiesced_txg = 0 /\ UNCHANGED <<tx_quiesced_txg, tx_syncing_txg, tx_synced_txg, phase>>
      BY Zenon, <1>2 DEF Quiesce
    <2>2. tx_open_txg \in Nat \ {0}
      BY DEF PipeInv
    <2> QED
      BY <2>1, <2>2 DEF PipeInv
  <1>3. CASE Quiesced
    BY Zenon, <1>3 DEF IInv, TypeOK, PipeInv, Quiesced
  <1>4. CASE SyncStart
    BY <1>4 DEF IInv, TypeOK, PipeInv, SyncStart
  <1>5. CASE SyncDatasets
    BY Zenon, <1>5 DEF PipeInv, SyncDatasets
  <1>6. CASE SyncDirs
    BY Zenon, <1>6 DEF PipeInv, SyncDirs
  <1>7. CASE SyncDone
    BY <1>7 DEF PipeInv, SyncDone
  <1>8. ASSUME NEW t \in Txs, TxStep(t) PROVE UNCHANGED pipeVars
    <2>1. CASE AssignSuspended(t) \/ HoldOpen(t) \/ HoldDnode(t) \/ MemoryThrottle(t)
      BY Zenon, <2>1 DEF AssignSuspended, HoldOpen, HoldDnode, MemoryThrottle
    <2>2. CASE ReservePool(t) \/ ReserveDir(t) \/ ReserveUndo(t)
      BY Zenon, <2>2 DEF ReservePool, ReserveDir, ReserveUndo
    <2>3. CASE Unassign(t) \/ UnassignDone(t) \/ UnassignDrop(t)
      BY Zenon, <2>3 DEF Unassign, UnassignDone, UnassignDrop
    <2>4. CASE Wait(t) \/ WaitDnode(t) \/ WaitOver(t)
      BY Zenon, <2>4 DEF Wait, WaitDnode, WaitOver, Retry
    <2>5. CASE WillUse(t) \/ CommitClear(t) \/ CommitDrop(t) \/ CommitDone(t)
      BY Zenon, <2>5 DEF WillUse, CommitClear, CommitDrop, CommitDone
    <2> QED
      BY Zenon, <1>8, <2>1, <2>2, <2>3, <2>4, <2>5 DEF TxStep
  <1>9. ASSUME NEW k \in Tasks, TaskStep(k) PROVE UNCHANGED pipeVars
    BY ZenonT(30), <1>9 DEF TaskStep, TaskAssign, TaskCheck, TaskCommit, TaskAgain, TaskSleep,
         TaskWake
  <1>10. ASSUME NEW k \in Tasks, SyncTask(k) PROVE UNCHANGED pipeVars
    BY Zenon, <1>10 DEF SyncTask
  <1>11. ASSUME SyncThreadAsks \/ Suspend \/ Resume PROVE UNCHANGED pipeVars
    BY Zenon, <1>11 DEF SyncThreadAsks, Suspend, Resume
  <1>12. ASSUME UNCHANGED vars PROVE UNCHANGED pipeVars
    BY Zenon, <1>12 DEF vars
  <1> QED
    BY Zenon, <1>1, <1>2, <1>3, <1>4, <1>5, <1>6, <1>7, <1>8, <1>9, <1>10, <1>11, <1>12
       DEF Next, GroupStep, SyncStep
=============================================================================
