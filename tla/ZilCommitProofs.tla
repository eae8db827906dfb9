-------------------------- MODULE ZilCommitProofs --------------------------
(***************************************************************************)
(* Proofs about zil_commit(), for any number of threads, objects, groups   *)
(* and records: a batch that is waited for is written (NobodyWaitsInVain). *)
(* NextGroup, NextWant and NextStale show that a step keeps the parts of   *)
(* the invariant about groups, about what commits promise and about        *)
(* removed objects; module ZilCommitRecords has the other parts.           *)
(***************************************************************************)
EXTENDS ZilCommit, TLAPS

-----------------------------------------------------------------------------
(* Batches.                                                                *)

\* A thread starts something, or ends it.
LEMMA IdleType ==
    /\ Idle.pc = "idle"
    /\ Idle \in [pc : Batched \cup {"idle", "drop", "move", "tosync"},
                 kind : {"none", "remove", "rename"}, obj : Objs \cup {NoObj},
                 oid : Objs \cup {NoObj}, txg : Nat, walk : Nat, end : Nat, batch : Nat,
                 want : SUBSET Nat]
  BY Zenon DEF Idle

\* The invariant that batches need.
Inv == ThreadTypes /\ BatchInv

\* At the start nobody commits.
LEMMA InitInv == Init => Inv
  <1> SUFFICES ASSUME Init PROVE Inv
    BY Zenon
  <1>1. ThreadTypes
    BY Zenon, IdleType DEF Init, ThreadTypes, ThreadType
  <1>2. \A t \in Threads : th[t].pc = "idle"
    BY Zenon, IdleType DEF Init
  <1>3. writer \in BOOLEAN
    BY Zenon DEF Init
  <1> QED
    BY <1>1, <1>2, <1>3 DEF Init, Inv, BatchInv, Writing

\* Every step keeps the invariant.
LEMMA NextInv == Inv /\ [Next]_vars => Inv'
  \* Whoever is not at zl_lock leaves the batches alone.
  <1>OutsideKeeps.
    ASSUME BatchInv, UNCHANGED batchVars,
           \A t \in Threads : \/ th'[t].pc = th[t].pc /\ th'[t].batch = th[t].batch
                              \/ th[t].pc \notin Batched /\ th'[t].pc \notin Batched
    PROVE  BatchInv'
    BY <1>OutsideKeeps DEF BatchInv, batchVars, Batched, Writing
  \* The groups and the log's slots have nothing to do with batches.
  <1>GroupKeeps.
    ASSUME Inv, UNCHANGED workload, Quiesce \/ Synced \/ zil_clean
    PROVE  Inv'
    <2> USE <1>GroupKeeps
    <2>1. ThreadTypes'
      BY DEF Inv, ThreadTypes, ThreadType, Quiesce, Synced, zil_clean
    <2>2. UNCHANGED <<batchVars, th>>
      BY Zenon DEF Quiesce, Synced, zil_clean
    <2> QED
      BY Zenon, <2>1, <2>2, <1>OutsideKeeps DEF Inv
  \* An operation of one record.
  <1>LogOneKeeps.
    ASSUME Inv, UNCHANGED workload, NEW t \in Threads, NEW o \in Objs, Create(t, o) \/ Write(t, o)
    PROVE  Inv'
    <2> USE <1>LogOneKeeps
    <2>1. UNCHANGED <<batchVars, th, groupVars>> /\ ops' = ops + 1
      BY Zenon DEF Create, Write, LogOne
    <2>2. \E kind \in {"create", "write"} : records' = records \cup {Record(kind, o)}
      BY Zenon DEF Create, Write, LogOne
    <2>3. ThreadTypes'
      BY <2>1, <2>2 DEF Inv, ThreadTypes, ThreadType, Record, groupVars
    <2> QED
      BY Zenon, <2>1, <2>3, <1>OutsideKeeps DEF Inv
  \* The start of a removal, a renaming or a commit.
  <1>StartKeeps.
    ASSUME Inv, UNCHANGED <<workload, groupVars, batchVars, ops, records>>, NEW t \in Threads,
           th[t].pc = "idle",
           NEW r \in [pc : {"drop", "move", "tosync"}, kind : {"none", "remove", "rename"},
                      obj : Objs \cup {NoObj}, oid : Objs \cup {NoObj}, txg : Nat, walk : Nat,
                      end : Nat, batch : Nat, want : SUBSET Nat],
           th' = [th EXCEPT ![t] = r]
    PROVE  Inv'
    <2> USE <1>StartKeeps
    <2>1. ThreadTypes'
      BY Zenon DEF Inv, ThreadTypes, ThreadType, groupVars
    <2>2. \A u \in Threads : \/ th'[u].pc = th[u].pc /\ th'[u].batch = th[u].batch
                             \/ th[u].pc \notin Batched /\ th'[u].pc \notin Batched
      BY Zenon DEF Inv, ThreadTypes, ThreadType, Batched, Writing
    <2> QED
      BY Zenon, <2>1, <2>2, <1>OutsideKeeps DEF Inv
  \* One slot of zil_remove_async(), zil_async_to_sync() or zil_get_commit_list().
  <1>WalkKeeps.
    ASSUME Inv, UNCHANGED <<workload, groupVars, batchVars, ops, records>>, NEW t \in Threads,
           th' = [th EXCEPT ![t].walk = @ + 1]
    PROVE  Inv'
    <2> USE <1>WalkKeeps
    <2>1. ThreadTypes'
      BY DEF Inv, ThreadTypes, ThreadType, groupVars
    <2>2. \A u \in Threads : th'[u].pc = th[u].pc /\ th'[u].batch = th[u].batch
      BY Zenon DEF Inv, ThreadTypes, ThreadType
    <2> QED
      BY Zenon, <2>1, <2>2, <1>OutsideKeeps DEF Inv
  \* The record of a removal or a renaming.
  <1>LogLastKeeps.
    ASSUME Inv, UNCHANGED workload, NEW t \in Threads, LogLast(t)
    PROVE  Inv'
    <2> USE <1>LogLastKeeps
    <2>1. UNCHANGED <<batchVars, groupVars>> /\ ops' = ops + 1 /\ th' = [th EXCEPT ![t] = Idle]
          /\ th[t].pc \in {"drop", "move"}
      BY Zenon DEF LogLast
    <2>2. \A r \in records' : r \in records \/ r.id = ops + 1
      BY DEF LogLast
    <2>3. ThreadTypes'
      BY <2>1, <2>2, IdleType DEF Inv, ThreadTypes, ThreadType, groupVars
    <2>4. \A u \in Threads : \/ th'[u].pc = th[u].pc /\ th'[u].batch = th[u].batch
                             \/ th[u].pc \notin Batched /\ th'[u].pc \notin Batched
      BY Zenon, <2>1, IdleType DEF Inv, ThreadTypes, ThreadType, Batched, Writing
    <2> QED
      BY Zenon, <2>1, <2>3, <2>4, <1>OutsideKeeps DEF Inv
  \* A thread that finds no writer becomes the writer of the next batch.
  <1>BecomeWriterKeeps.
    ASSUME Inv, UNCHANGED <<workload, groupVars, ops, records>>, NEW t \in Threads, ~writer,
           th[t].pc \in {"tosync", "woken"}, NEW b \in Nat, b = com_batch + 1, BecomeWriter(t, b)
    PROVE  Inv'
    <2> USE <1>BecomeWriterKeeps
    <2>1. ThreadTypes'
      <3>1. th[t] \in ThreadType /\ synced + 1 \in Nat /\ synced + TXG_CONCURRENT_STATES \in Nat
        BY ZilCommitAssumption DEF Inv, ThreadTypes
      <3>2. [th[t] EXCEPT !.pc = "collect", !.batch = b, !.walk = synced + 1,
                          !.end = synced + TXG_CONCURRENT_STATES] \in ThreadType
        BY Zenon, <3>1 DEF ThreadType, Batched, Writing
      <3>3. th' = [th EXCEPT ![t] = [th[t] EXCEPT !.pc = "collect", !.batch = b, !.walk = synced + 1,
                                            !.end = synced + TXG_CONCURRENT_STATES]]
        BY Zenon, <3>1 DEF BecomeWriter, Inv, ThreadTypes, ThreadType
      <3> QED
        BY Zenon, <3>2, <3>3 DEF Inv, ThreadTypes, groupVars
    <2>2. \A u \in Threads : IF u = t THEN th'[u].pc = "collect" /\ th'[u].batch = b ELSE th'[u] = th[u]
      BY DEF Inv, ThreadTypes, ThreadType, BecomeWriter
    <2>3. \A u \in Threads : th[u].pc \notin Writing
      BY Zenon DEF Inv, BatchInv
    <2>4. com_batch' = com_batch /\ com_batch \in Nat /\ writer' = TRUE /\ next_batch' = com_batch + 2
      BY DEF Inv, BatchInv, BecomeWriter
    <2>5. writer' \in BOOLEAN
      BY Zenon, <2>4
    <2>6. \A u \in Threads : th[u].pc \in {"waiting", "woken"} => th[u].batch <= com_batch + 1
      BY Zenon DEF Inv, BatchInv
    <2>7. \A u \in Threads : th[u].pc = "waiting" => th[u].batch > com_batch
      BY Zenon DEF Inv, BatchInv
    <2>8. BatchInv'
      BY <2>2, <2>3, <2>4, <2>5, <2>6, <2>7 DEF Inv, ThreadTypes, ThreadType, BatchInv, Writing
    <2> QED
      BY Zenon, <2>1, <2>8 DEF Inv
  \* A thread that finds a writer waits, for its own batch.
  <1>WaitKeeps.
    ASSUME Inv, UNCHANGED <<workload, groupVars, batchVars, ops, records>>, NEW t \in Threads, writer,
           th[t].pc \in {"tosync", "woken"}, NEW b \in Nat, com_batch < b, b <= next_batch,
           th' = [th EXCEPT ![t].pc = "waiting", ![t].batch = b]
    PROVE  Inv'
    <2> USE <1>WaitKeeps
    <2>1. ThreadTypes'
      <3>1. th[t] \in ThreadType
        BY Zenon DEF Inv, ThreadTypes
      <3>2. [th[t] EXCEPT !.pc = "waiting", !.batch = b] \in ThreadType
        BY Zenon, <3>1 DEF ThreadType, Batched
      <3>3. th' = [th EXCEPT ![t] = [th[t] EXCEPT !.pc = "waiting", !.batch = b]]
        BY Zenon, <3>1 DEF Inv, ThreadTypes, ThreadType
      <3> QED
        BY Zenon, <3>2, <3>3 DEF Inv, ThreadTypes, groupVars
    <2>2. \A u \in Threads : IF u = t THEN th'[u].pc = "waiting" /\ th'[u].batch = b ELSE th'[u] = th[u]
      BY Zenon DEF Inv, ThreadTypes, ThreadType
    <2>3. BatchInv'
      BY <2>2 DEF Inv, ThreadTypes, ThreadType, BatchInv, batchVars, Writing
    <2> QED
      BY Zenon, <2>1, <2>3 DEF Inv
  \* zil_commit() takes zl_lock.
  <1>EnterKeeps. ASSUME Inv, UNCHANGED workload, NEW t \in Threads, Enter(t) PROVE Inv'
    <2> USE <1>EnterKeeps
    <2>1. UNCHANGED <<workload, groupVars, ops, records>> /\ th[t].pc = "tosync"
      BY Zenon DEF Enter
    <2>2. CASE ~writer /\ BecomeWriter(t, next_batch)
      BY <2>1, <2>2, <1>BecomeWriterKeeps DEF Inv, BatchInv
    <2>3. CASE writer /\ th' = [th EXCEPT ![t].pc = "waiting", ![t].batch = next_batch] /\ UNCHANGED batchVars
      <3>1. next_batch \in Nat /\ com_batch < next_batch /\ next_batch <= next_batch
        BY DEF Inv, BatchInv
      <3> QED
        BY Zenon, <2>1, <2>3, <3>1, <1>WaitKeeps
    <2> QED
      BY Zenon, <2>2, <2>3 DEF Enter, MyBatch
  \* zil_commit() returns from cv_wait().
  <1>WokenKeeps. ASSUME Inv, UNCHANGED workload, NEW t \in Threads, Woken(t) PROVE Inv'
    <2> USE <1>WokenKeeps
    <2> DEFINE b == th[t].batch
    <2>1. UNCHANGED <<workload, groupVars, ops, records>> /\ th[t].pc = "woken" /\ b \in Nat
      BY Zenon DEF Woken, Inv, ThreadTypes, ThreadType
    <2>2. b <= next_batch
      BY Zenon, <2>1 DEF Inv, BatchInv
    <2>3. CASE b <= com_batch /\ th' = [th EXCEPT ![t] = Idle] /\ UNCHANGED batchVars
      <3>1. ThreadTypes'
        BY Zenon, <2>1, <2>3, IdleType DEF Inv, ThreadTypes, ThreadType, groupVars
      <3>2. \A u \in Threads : IF u = t THEN th'[u].pc = "idle" ELSE th'[u] = th[u]
        BY Zenon, <2>3, IdleType DEF Inv, ThreadTypes, ThreadType
      <3>3. BatchInv'
        BY <2>1, <2>3, <3>2 DEF Inv, ThreadTypes, ThreadType, BatchInv, batchVars, Writing
      <3> QED
        BY Zenon, <3>1, <3>3 DEF Inv
    <2>4. CASE b > com_batch /\ ~writer /\ BecomeWriter(t, b)
      <3>1. b = com_batch + 1
        BY <2>1, <2>2, <2>4 DEF Inv, BatchInv
      <3> QED
        BY Zenon, <2>1, <2>4, <3>1, <1>BecomeWriterKeeps
    <2>5. CASE b > com_batch /\ writer /\ th' = [th EXCEPT ![t].pc = "waiting"] /\ UNCHANGED batchVars
      <3>1. th' = [th EXCEPT ![t].pc = "waiting", ![t].batch = b]
        BY Zenon, <2>5 DEF Inv, ThreadTypes, ThreadType
      <3>2. com_batch < b
        BY Zenon, <2>1, <2>5 DEF Inv, BatchInv
      <3> QED
        BY Zenon, <2>1, <2>2, <2>5, <3>1, <3>2, <1>WaitKeeps
    <2> QED
      BY Zenon, <2>3, <2>4, <2>5 DEF Woken
  \* zil_commit_writer() leaves the writer the writer.
  <1>WriterKeeps. ASSUME Inv, UNCHANGED workload, NEW t \in Threads, zil_commit_writer(t) PROVE Inv'
    <2> USE <1>WriterKeeps
    <2>1. UNCHANGED <<workload, groupVars, batchVars, ops, records>> /\ th[t].pc = "collect"
      BY Zenon DEF zil_commit_writer
    <2>2. CASE th' = [th EXCEPT ![t].pc = "written"]
      <3>1. ThreadTypes'
        BY <2>1, <2>2 DEF Inv, ThreadTypes, ThreadType, groupVars, Batched, Writing
      <3>2. \A u \in Threads : IF u = t THEN th'[u].pc = "written" /\ th'[u].batch = th[u].batch ELSE th'[u] = th[u]
        BY Zenon, <2>2 DEF Inv, ThreadTypes, ThreadType
      <3>3. BatchInv'
        BY <2>1, <3>2 DEF Inv, BatchInv, batchVars, Writing
      <3> QED BY Zenon, <3>1, <3>3 DEF Inv
    <2>3. CASE th' = th
      <3>1. ThreadTypes'
        BY Zenon, <2>1, <2>3 DEF Inv, ThreadTypes, ThreadType, groupVars
      <3> QED BY Zenon, <2>1, <2>3, <3>1, <1>OutsideKeeps DEF Inv
    <2> QED BY Zenon, <2>2, <2>3 DEF zil_commit_writer
  \* The writer is done: its batch returns, and if threads wait for the next
  \* batch one of them is woken.
  <1>CommitDoneKeeps. ASSUME Inv, UNCHANGED workload, NEW t \in Threads, CommitDone(t) PROVE Inv'
    <2> USE <1>CommitDoneKeeps
    <2> DEFINE b == th[t].batch
    <2>1. UNCHANGED <<workload, groupVars, next_batch, ops, records>> /\ com_batch' = b /\ writer' = FALSE
          /\ th[t].pc = "written"
      BY Zenon DEF CommitDone
    <2>2. /\ b = com_batch + 1 /\ next_batch = b + 1 /\ b \in Nat
          /\ \A u \in Threads : th[u].pc \in Writing => u = t
          /\ \A u \in Threads : th[u].pc = "waiting" => th[u].batch \in {b, b + 1}
      <3>1. b = com_batch + 1 /\ writer /\ \A u \in Threads : th[u].pc \in Writing => u = t
        BY Zenon, <2>1 DEF Inv, BatchInv, Writing
      <3>2. next_batch = b + 1 /\ b \in Nat
        BY <3>1 DEF Inv, BatchInv
      <3>3. \A u \in Threads : th[u].pc = "waiting" => th[u].batch \in Nat /\ th[u].batch > com_batch /\ th[u].batch <= b + 1
        BY <3>2 DEF Inv, BatchInv, ThreadTypes, ThreadType
      <3> QED
        BY <3>1, <3>2, <3>3 DEF Inv, BatchInv
    <2>3. Waiting(b) = {u \in Threads : th[u].pc = "waiting" /\ th[u].batch = b}
          /\ Waiting(b + 1) = {u \in Threads : th[u].pc = "waiting" /\ th[u].batch = b + 1}
      BY <2>2 DEF Waiting
    <2> PICK next \in Signal(b + 1) :
             th' = [x \in Threads |->
                      IF x = t THEN Idle
                      ELSE IF x \in next \cup Broadcast(b) THEN [th[x] EXCEPT !.pc = "woken"]
                      ELSE th[x]]
      BY Zenon DEF CommitDone
    <2>4. next \subseteq Waiting(b + 1) /\ (Waiting(b + 1) # {} => next # {})
      BY Zenon DEF Signal
    <2>5. /\ th'[t] = Idle
          /\ \A x \in Threads : x # t =>
               IF x \in next \cup Waiting(b) THEN th'[x].pc = "woken" /\ th'[x].batch = th[x].batch
               ELSE th'[x] = th[x]
      BY Zenon DEF Inv, ThreadTypes, ThreadType, Broadcast
    <2>6. ThreadTypes'
      <3>1. \A x \in Threads : th'[x] \in ThreadType
        BY IdleType DEF Inv, ThreadTypes, ThreadType, Batched
      <3> QED
        BY <2>1, <3>1 DEF Inv, ThreadTypes, ThreadType, groupVars
    <2>7. writer' \in BOOLEAN
      BY Zenon, <2>1
    <2>8. \A x \in Threads : th'[x].pc \notin Writing
      BY Zenon, <2>2, <2>3, <2>4, <2>5, IdleType DEF Writing
    <2>9. \A x \in Threads : th'[x].pc \in {"waiting", "woken"} => th'[x].batch <= next_batch'
      BY <2>1, <2>2, <2>3, <2>4, <2>5, IdleType DEF Inv, BatchInv, ThreadTypes, ThreadType
    <2>10. ASSUME NEW x \in Threads, th'[x].pc = "waiting"
           PROVE  th'[x].batch > b /\ \E w \in Threads : th'[w].pc = "woken" /\ th'[w].batch = th'[x].batch
      <3>1. x # t /\ th'[x] = th[x] /\ x \notin Waiting(b)
        BY Zenon, <2>5, <2>10, IdleType
      <3>2. th[x].batch = b + 1 /\ x \in Waiting(b + 1)
        BY Zenon, <2>2, <2>3, <2>10, <3>1
      <3>3. PICK w \in next : w \in Waiting(b + 1) /\ w # t
        BY Zenon, <2>1, <2>3, <2>4, <3>2
      <3>4. th'[w].pc = "woken" /\ th'[w].batch = b + 1 /\ w \in Threads
        BY Zenon, <2>3, <2>5, <3>3
      <3> QED
        BY <2>2, <3>1, <3>2, <3>4
    <2>11. BatchInv'
      BY Zenon, <2>1, <2>2, <2>7, <2>8, <2>9, <2>10 DEF BatchInv
    <2> QED
      BY Zenon, <2>6, <2>11 DEF Inv
  <1> SUFFICES ASSUME Inv, [Next]_vars PROVE Inv'
    BY Zenon
  <1>1. CASE UNCHANGED vars
    <2>1. ThreadTypes' /\ UNCHANGED <<batchVars, th>>
      BY Zenon, <1>1 DEF Inv, ThreadTypes, ThreadType, vars, groupVars, batchVars
    <2> QED BY Zenon, <2>1, <1>OutsideKeeps DEF Inv
  <1>2. CASE Next
    <2>1. UNCHANGED workload /\ workload.threads \subseteq Threads
      BY Zenon, <1>2, ZilCommitAssumption DEF Next, Inv, ThreadTypes, ThreadType
    <2>2. CASE Quiesce \/ Synced \/ zil_clean
      BY Zenon, <2>1, <2>2, <1>GroupKeeps
    <2>3. ASSUME NEW t \in Threads, NEW o \in Objs,
                 Create(t, o) \/ Write(t, o) \/ RemoveObj(t, o) \/ Rename(t, o)
          PROVE  Inv'
      <3>1. CASE Create(t, o) \/ Write(t, o)
        BY Zenon, <2>1, <3>1, <1>LogOneKeeps
      <3>2. ASSUME NEW kind \in {"remove", "rename"}, NEW pc \in {"drop", "move"}, Start(t, kind, pc, o)
            PROVE  Inv'
        <4>1. PICK oid \in Objs \cup {NoObj} :
                th' = [th EXCEPT ![t] = [Idle EXCEPT !.pc = pc, !.kind = kind, !.obj = o, !.oid = oid,
                                              !.txg = open, !.walk = synced + 1,
                                              !.end = synced + TXG_CONCURRENT_STATES]]
          BY Zenon, <3>2 DEF Start, ItxOid
        <4>2. [Idle EXCEPT !.pc = pc, !.kind = kind, !.obj = o, !.oid = oid, !.txg = open,
                           !.walk = synced + 1, !.end = synced + TXG_CONCURRENT_STATES]
                \in [pc : {"drop", "move", "tosync"}, kind : {"none", "remove", "rename"},
                      obj : Objs \cup {NoObj}, oid : Objs \cup {NoObj}, txg : Nat, walk : Nat,
                      end : Nat, batch : Nat, want : SUBSET Nat]
          <5>1. open \in Nat /\ synced + 1 \in Nat /\ synced + TXG_CONCURRENT_STATES \in Nat
            BY ZilCommitAssumption DEF Inv, ThreadTypes
          <5> QED
            BY Zenon, <5>1 DEF Idle
        <4> QED
          BY Zenon, <2>1, <3>2, <4>1, <4>2, <1>StartKeeps DEF Start
      <3> QED
        BY Zenon, <2>3, <3>1, <3>2 DEF RemoveObj, Rename
    <2>4. ASSUME NEW t \in Threads, NEW o \in Objs \cup {NoObj}, CommitStart(t, o)
          PROVE  Inv'
      <3>1. Wanted(o) \subseteq Nat
        BY Zenon DEF Wanted, Inv, ThreadTypes, ThreadType
      <3>2. [Idle EXCEPT !.pc = "tosync", !.oid = o, !.want = Wanted(o), !.walk = synced + 1,
                         !.end = synced + TXG_CONCURRENT_STATES]
                \in [pc : {"drop", "move", "tosync"}, kind : {"none", "remove", "rename"},
                      obj : Objs \cup {NoObj}, oid : Objs \cup {NoObj}, txg : Nat, walk : Nat,
                      end : Nat, batch : Nat, want : SUBSET Nat]
        <4>1. synced + 1 \in Nat /\ synced + TXG_CONCURRENT_STATES \in Nat
          BY ZilCommitAssumption DEF Inv, ThreadTypes
        <4> QED
          BY Zenon, <3>1, <4>1 DEF Idle
      <3> QED
        BY Zenon, <2>1, <2>4, <3>2, <1>StartKeeps DEF CommitStart
    <2>5. ASSUME NEW t \in Threads, Running(t)
          PROVE  Inv'
      <3>1. CASE zil_remove_async(t) \/ zil_async_to_sync(t) \/ zil_get_commit_list(t)
        BY Zenon, <2>1, <3>1, <1>WalkKeeps DEF zil_remove_async, zil_async_to_sync, zil_get_commit_list
      <3> QED
        BY Zenon, <2>1, <2>5, <3>1, <1>LogLastKeeps, <1>EnterKeeps, <1>WokenKeeps, <1>WriterKeeps, <1>CommitDoneKeeps DEF Running
    <2> QED
      BY Zenon, <1>2, <2>1, <2>2, <2>3, <2>4, <2>5 DEF Next
  <1> QED BY Zenon, <1>1, <1>2

\* Threads that wait on the same condition variable wait for the same batch,
\* and while they wait somebody writes or one of them was woken to write:
\* zil_commit() returns once the writers do.
THEOREM NobodyWaitsInVain == Spec => []WaitersAreServed
  <1>1. Inv => WaitersAreServed
    <2> SUFFICES ASSUME Inv, NEW t \in Threads, th[t].pc = "waiting"
                 PROVE  /\ th[t].batch > com_batch
                        /\ \A u \in Waiting(th[t].batch) : th[u].batch = th[t].batch
                        /\ \/ writer /\ \E w \in Threads : th[w].pc \in {"collect", "written"}
                           \/ \E w \in Threads : th[w].pc = "woken" /\ th[w].batch = th[t].batch
      BY Zenon DEF WaitersAreServed, TwoCvsAreEnough
    <2>1. \A u \in Threads : th[u].pc = "waiting" => th[u].batch \in {com_batch + 1, com_batch + 2}
      <3>1. \A u \in Threads : th[u].pc = "waiting" =>
              th[u].batch \in Nat /\ th[u].batch > com_batch /\ th[u].batch <= com_batch + 2
        BY DEF Inv, BatchInv, ThreadTypes, ThreadType
      <3> QED
        BY <3>1 DEF Inv, BatchInv
    <2>2. \A u \in Waiting(th[t].batch) : th[u].batch = th[t].batch
      BY <2>1 DEF Waiting, Inv, BatchInv
    <2> QED
      BY Zenon, <2>2 DEF Inv, BatchInv, Writing
  <1> QED
    BY <1>1, InitInv, NextInv, PTL DEF Spec

-----------------------------------------------------------------------------
(* Threads and records.                                                    *)

\* A list that was emptied has no records.
LEMMA EmptySeq == ASSUME NEW S PROVE <<>> \in Seq(S) /\ Range(<<>>) = {} /\ IsInjective(<<>>)
  <1>1. <<>> \in Seq(S) /\ DOMAIN <<>> = 1 .. 0 /\ 1 .. 0 = {}
    OBVIOUS
  <1>2. DOMAIN <<>> = {}
    BY <1>1
  <1> QED BY Zenon, <1>1, <1>2 DEF Range, IsInjective

\* A thread that is idle commits nothing.
LEMMA IdleWant == Idle.want = {} /\ Idle.pc = "idle"
  BY Zenon DEF Idle

\* What is known of the records, wherever they are.
MemInv == ThreadTypes /\ GroupInv /\ RecordInv /\ SlotInv /\ PlaceInv /\ OnceInv /\ OrderInv

\* A new record is assigned.
Assigned(rec, sync) ==
    /\ rec \in Rec /\ rec.id = ops + 1 /\ synced < rec.txg /\ rec.txg <= open
    /\ sync \in BOOLEAN /\ (sync \/ rec.kind = "write")
    /\ itxg' = zil_itx_assign(rec, sync) /\ records' = records \cup {rec} /\ ops' = ops + 1
    /\ UNCHANGED <<workload, groupVars, dropped, list, log>>

\* Operations of one record.
LEMMA LogOneAssigns ==
    ASSUME MemInv, NEW t \in Threads, NEW o \in Objs, Create(t, o) \/ Write(t, o), UNCHANGED workload
    PROVE  /\ \E kind \in {"create", "write"}, sync \in BOOLEAN :
                 Assigned(Record(kind, o), sync) /\ Record(kind, o).id = ops + 1
           /\ ~Locked(o) /\ exists' \subseteq Objs /\ UNCHANGED <<th, acked, batchVars, groupVars>>
  <1>1. PICK kind \in {"create", "write"}, sync \in BOOLEAN :
          LogOne(t, kind, o, sync) /\ (sync \/ kind = "write")
    BY Zenon DEF Create, Write
  <1>2. Record(kind, o) \in Rec /\ Record(kind, o).id = ops + 1 /\ Record(kind, o).txg = open
        /\ Record(kind, o).kind = kind
    BY DEF Record, Rec, MemInv, ThreadTypes, GroupInv
  <1>3. synced < open /\ open <= open
    BY DEF MemInv, GroupInv, ThreadTypes
  <1>4. /\ itxg' = zil_itx_assign(Record(kind, o), sync) /\ records' = records \cup {Record(kind, o)}
        /\ ops' = ops + 1 /\ UNCHANGED <<groupVars, dropped, list, log, th, acked, batchVars>> /\ ~Locked(o)
    BY Zenon, <1>1 DEF LogOne
  <1>5. Assigned(Record(kind, o), sync)
    BY Zenon, <1>1, <1>2, <1>3, <1>4 DEF Assigned
  <1>6. exists' \subseteq Objs
    BY Zenon DEF Create, Write, MemInv, GroupInv
  <1> QED BY Zenon, <1>2, <1>4, <1>5, <1>6

\* The record of a removal or a renaming.
LastRecord(t) == [id |-> ops + 1, kind |-> th[t].kind, obj |-> th[t].obj, txg |-> th[t].txg]

\* A removal or a renaming ends with one record, for the list that every commit
\* takes.
LEMMA LogLastAssigns ==
    ASSUME MemInv, NEW t \in Threads, LogLast(t), UNCHANGED workload
    PROVE  Assigned(LastRecord(t), TRUE) /\ LastRecord(t).id = ops + 1
  <1>1. th[t].pc \in {"drop", "move"}
    BY Zenon DEF LogLast
  <1>2. synced < th[t].txg /\ th[t].txg <= open /\ th[t].kind # "none" /\ th[t].obj \in Objs
    BY Zenon, <1>1 DEF MemInv, GroupInv
  <1>3. th[t].kind \in {"none", "remove", "rename"} /\ th[t].txg \in Nat /\ ops \in Nat /\ synced \in Nat
    BY DEF MemInv, ThreadTypes, ThreadType
  <1>4. LastRecord(t) \in Rec /\ LastRecord(t).id = ops + 1 /\ LastRecord(t).txg = th[t].txg
    BY <1>2, <1>3 DEF LastRecord, Rec
  <1>5. /\ itxg' = zil_itx_assign(LastRecord(t), TRUE) /\ records' = records \cup {LastRecord(t)}
        /\ ops' = ops + 1 /\ UNCHANGED <<groupVars, dropped, list, log>>
    BY Zenon DEF LogLast, LastRecord
  <1> QED BY Zenon, <1>2, <1>4, <1>5 DEF Assigned

-----------------------------------------------------------------------------
(* Threads that commit.                                                    *)

\* Thread t goes on in state pc, for batch b: a writer has its walk before it.
Turned(t, pc, b) ==
    /\ \A x \in Threads : x # t => th'[x] = th[x]
    /\ th'[t].pc = pc /\ th'[t].batch = b /\ th'[t].want = th[t].want
    /\ pc = "collect" => th'[t].walk = synced + 1 /\ th'[t].end = synced + TXG_CONCURRENT_STATES

\* The ways on from each state of a thread that commits.
LEMMA BecomeTurns ==
    ASSUME MemInv, NEW t \in Threads, NEW b, BecomeWriter(t, b)
    PROVE  Turned(t, "collect", b)
  BY DEF BecomeWriter, Turned, MemInv, ThreadTypes, ThreadType

\* A thread that enters writes, or waits for who does.
LEMMA EnterTurns ==
    ASSUME MemInv, NEW t \in Threads, Enter(t)
    PROVE  /\ th[t].pc = "tosync" /\ th[t].walk > th[t].end /\ com_batch' = com_batch
           /\ UNCHANGED <<groupVars, exists, itxVars, list, log, ops, commits, records, acked>>
           /\ \/ ~writer /\ Turned(t, "collect", next_batch)
              \/ writer /\ Turned(t, "waiting", next_batch)
  <1>1. /\ th[t].pc = "tosync" /\ th[t].walk > th[t].end
        /\ UNCHANGED <<groupVars, exists, itxVars, list, log, ops, commits, records, acked>>
    BY Zenon DEF Enter
  <1>2. CASE ~writer /\ BecomeWriter(t, next_batch)
    BY Zenon, <1>1, <1>2, BecomeTurns DEF BecomeWriter
  <1>3. CASE writer /\ th' = [th EXCEPT ![t].pc = "waiting", ![t].batch = next_batch] /\ UNCHANGED batchVars
    <2>1. Turned(t, "waiting", next_batch)
      BY <1>3 DEF Turned, MemInv, ThreadTypes, ThreadType
    <2> QED BY Zenon, <1>1, <1>3, <2>1 DEF batchVars
  <1> QED BY Zenon, <1>2, <1>3 DEF Enter, MyBatch

\* A thread that was woken returns, writes, or waits again.
LEMMA WokenTurns ==
    ASSUME MemInv, NEW t \in Threads, Woken(t)
    PROVE  /\ th[t].pc = "woken" /\ com_batch' = com_batch
           /\ UNCHANGED <<groupVars, exists, itxVars, list, log, ops, commits, records>>
           /\ \/ th[t].batch <= com_batch /\ th' = [th EXCEPT ![t] = Idle] /\ acked' = acked \cup th[t].want
              \/ ~writer /\ Turned(t, "collect", th[t].batch) /\ acked' = acked
              \/ writer /\ Turned(t, "waiting", th[t].batch) /\ acked' = acked
  <1>1. /\ th[t].pc = "woken"
        /\ UNCHANGED <<groupVars, exists, itxVars, list, log, ops, commits, records>>
    BY Zenon DEF Woken
  <1>2. CASE ~writer /\ BecomeWriter(t, th[t].batch) /\ acked' = acked
    BY Zenon, <1>1, <1>2, BecomeTurns DEF BecomeWriter
  <1>3. CASE writer /\ th' = [th EXCEPT ![t].pc = "waiting"] /\ UNCHANGED batchVars /\ acked' = acked
    <2>1. Turned(t, "waiting", th[t].batch)
      BY <1>3 DEF Turned, MemInv, ThreadTypes, ThreadType
    <2> QED BY Zenon, <1>1, <1>3, <2>1 DEF batchVars
  <1>4. CASE /\ th[t].batch <= com_batch /\ UNCHANGED batchVars
             /\ th' = [th EXCEPT ![t] = Idle] /\ acked' = acked \cup th[t].want
    BY Zenon, <1>1, <1>4 DEF batchVars
  <1> QED BY Zenon, <1>2, <1>3, <1>4 DEF Woken

\* The writer writes a record, or is done with writing.
LEMMA WriterTurns ==
    ASSUME MemInv, NEW t \in Threads, zil_commit_writer(t)
    PROVE  /\ th[t].pc = "collect" /\ th[t].walk > th[t].end /\ com_batch' = com_batch
           /\ UNCHANGED <<groupVars, exists, itxVars, batchVars, ops, commits, records, acked>>
           /\ \/ list # <<>> /\ th' = th
              \/ list = <<>> /\ Turned(t, "written", th[t].batch)
  <1>1. /\ th[t].pc = "collect" /\ th[t].walk > th[t].end
        /\ UNCHANGED <<groupVars, exists, itxVars, batchVars, ops, commits, records, acked>>
    BY Zenon DEF zil_commit_writer
  <1>2. ASSUME th' = [th EXCEPT ![t].pc = "written"] PROVE Turned(t, "written", th[t].batch)
    BY <1>2 DEF Turned, MemInv, ThreadTypes, ThreadType
  <1> QED BY Zenon, <1>1, <1>2 DEF zil_commit_writer, batchVars

-----------------------------------------------------------------------------
(* Slots.                                                                  *)

\* Two groups with the same slot are the same, or far apart.
LEMMA SlotsDiffer ==
    ASSUME NEW a \in Nat, NEW b \in Nat, a - b < TXG_SIZE, b - a < TXG_SIZE, a % TXG_SIZE = b % TXG_SIZE
    PROVE  a = b
  \* Division with remainder, and what a smaller quotient means.
  <1>Division.
    ASSUME NEW n \in Nat, n > 0, NEW i \in Nat, NEW x \in Nat, NEW r \in Nat, x = i \div n, r = i % n
    PROVE  i - r = n * x
    BY <1>Division
  \* Multiples of a number lie that number apart.
  <1>Quotients.
    ASSUME NEW n \in Nat, n > 0, NEW x \in Nat, NEW y \in Nat, x > y
    PROVE  n * x >= n * y + n
    <2> USE <1>Quotients
    <2>1. PICK d \in Nat : x = y + 1 + d
      <3>1. x - y - 1 \in Nat /\ x = y + 1 + (x - y - 1)
        OBVIOUS
      <3> QED BY <3>1
    <2>2. n * x = n * y + n + n * d
      BY <2>1
    <2>3. n * d \in Nat /\ n * y \in Nat /\ n * x \in Nat
      OBVIOUS
    <2> QED BY <2>2, <2>3
  <1> DEFINE n == TXG_SIZE
             x == a \div n
             y == b \div n
             r == a % n
  <1>1. n \in Nat /\ n > 0
    BY ZilCommitAssumption
  <1>2. x \in Nat /\ y \in Nat /\ r \in Nat
    BY <1>1
  <1>3. a - r = n * x /\ b - r = n * y
    BY <1>1, <1>2, <1>Division
  <1>4. n * x \in Nat /\ n * y \in Nat
    BY <1>1, <1>2
  <1>5. a - b < n /\ b - a < n
    OBVIOUS
  <1> HIDE DEF n, x, y, r
  <1>6. CASE x > y
    <2>1. n * x >= n * y + n
      BY <1>1, <1>2, <1>6, <1>Quotients
    <2> QED BY <2>1, <1>1, <1>2, <1>3, <1>4, <1>5
  <1>7. CASE y > x
    <2>1. n * y >= n * x + n
      BY <1>1, <1>2, <1>7, <1>Quotients
    <2> QED BY <2>1, <1>1, <1>2, <1>3, <1>4, <1>5
  <1>8. CASE x = y
    BY <1>2, <1>3, <1>8
  <1> QED BY <1>2, <1>6, <1>7, <1>8

\* Every group has a slot.
LEMMA SlotOf == ASSUME NEW a \in Nat PROVE a % TXG_SIZE \in Slots
  BY ZilCommitAssumption DEF Slots

\* An empty slot.
Empty(n) == [EmptyItxg EXCEPT !.txg = n]

\* What an empty slot has.
LEMMA EmptyType ==
    ASSUME NEW n \in Nat
    PROVE  /\ Empty(n) \in SlotType /\ Empty(n).txg = n /\ Empty(n).sync = <<>>
           /\ \A o \in Objs : Empty(n).async[o] = <<>>
  <1>1. <<>> \in Seq(Rec)
    BY EmptySeq
  <1> QED
    BY Zenon, <1>1 DEF Empty, EmptyItxg, SlotType

\* A record is added at the end.
LEMMA AppendRange ==
    ASSUME NEW S, NEW q \in Seq(S), NEW e \in S
    PROVE  Append(q, e) \in Seq(S) /\ Range(Append(q, e)) = Range(q) \cup {e}
  <1>1. Append(q, e) \in Seq(S)
    OBVIOUS
  <1>2. Range(Append(q, e)) \subseteq Range(q) \cup {e}
    BY DEF Range
  <1>3. Range(q) \subseteq Range(Append(q, e))
    <2> SUFFICES ASSUME NEW i \in DOMAIN q PROVE \E j \in DOMAIN Append(q, e) : Append(q, e)[j] = q[i]
      BY DEF Range
    <2>1. i \in DOMAIN Append(q, e) /\ Append(q, e)[i] = q[i]
      OBVIOUS
    <2> QED BY <2>1
  <1>4. e \in Range(Append(q, e))
    <2>1. Len(q) + 1 \in DOMAIN Append(q, e) /\ Append(q, e)[Len(q) + 1] = e
      OBVIOUS
    <2> QED BY <2>1 DEF Range
  <1> QED BY <1>1, <1>2, <1>3, <1>4

\* Two sequences one after the other.
LEMMA ConcatRange ==
    ASSUME NEW S, NEW q \in Seq(S), NEW w \in Seq(S)
    PROVE  q \o w \in Seq(S) /\ Range(q \o w) = Range(q) \cup Range(w)
  <1>1. q \o w \in Seq(S)
    OBVIOUS
  <1>2. Range(q \o w) \subseteq Range(q) \cup Range(w)
    <2> SUFFICES ASSUME NEW i \in DOMAIN (q \o w)
                 PROVE  (\E j \in DOMAIN q : q[j] = (q \o w)[i]) \/ (\E j \in DOMAIN w : w[j] = (q \o w)[i])
      BY DEF Range
    <2>1. CASE i <= Len(q)
      BY <2>1
    <2>2. CASE i > Len(q)
      <3>1. i - Len(q) \in DOMAIN w /\ w[i - Len(q)] = (q \o w)[i]
        BY <2>2
      <3> QED BY <3>1
    <2> QED BY <2>1, <2>2
  <1>3. Range(q) \subseteq Range(q \o w)
    <2> SUFFICES ASSUME NEW i \in DOMAIN q PROVE \E j \in DOMAIN (q \o w) : (q \o w)[j] = q[i]
      BY DEF Range
    <2>1. i \in DOMAIN (q \o w) /\ (q \o w)[i] = q[i]
      OBVIOUS
    <2> QED BY <2>1
  <1>4. Range(w) \subseteq Range(q \o w)
    <2> SUFFICES ASSUME NEW i \in DOMAIN w PROVE \E j \in DOMAIN (q \o w) : (q \o w)[j] = w[i]
      BY DEF Range
    <2>1. Len(q) + i \in DOMAIN (q \o w) /\ (q \o w)[Len(q) + i] = w[i]
      OBVIOUS
    <2> QED BY <2>1
  <1> QED BY <1>1, <1>2, <1>3, <1>4

\* What zil_itx_assign() finds in the slot, or makes of it.
Base(rec) == LET s == rec.txg % TXG_SIZE
             IN  IF itxg[s].txg = rec.txg THEN itxg[s] ELSE [EmptyItxg EXCEPT !.txg = rec.txg]

\* The slot of the new record: base is what is kept of what was there.
Shape(rec, sync, s, base) ==
    /\ s = rec.txg % TXG_SIZE /\ itxg'[s].txg = rec.txg
    /\ itxg' \in [Slots -> SlotType] /\ \A x \in Slots : x # s => itxg'[x] = itxg[x]
    /\ base = itxg[s] \/ (base.sync = <<>> /\ \A o \in Objs : base.async[o] = <<>>)
    /\ base.txg = rec.txg
    /\ \A r \in Range(itxg[s].sync) : r.txg <= synced \/ r \in Range(base.sync)
    /\ \A o \in Objs : \A r \in Range(itxg[s].async[o]) : r.txg <= synced \/ r \in Range(base.async[o])
    /\ itxg'[s].sync = IF sync THEN Append(base.sync, rec) ELSE base.sync
    /\ \A o \in Objs : itxg'[s].async[o] =
         IF ~sync /\ o = rec.obj THEN Append(base.async[o], rec) ELSE base.async[o]

\* zil_itx_assign() adds the record to its slot, and what it throws away has
\* synced.
LEMMA AssignShape ==
    ASSUME MemInv, NEW rec, NEW sync, Assigned(rec, sync)
    PROVE  \E s \in Slots, base \in SlotType : Shape(rec, sync, s, base)
  \* Whatever is dropped from a slot has reached the disk in its group.
  <1>BaseFacts.
    ASSUME ThreadTypes, GroupInv, RecordInv, SlotInv, NEW e \in Rec, synced < e.txg, e.txg <= open,
           NEW s, s = e.txg % TXG_SIZE
    PROVE  /\ s \in Slots /\ Base(e) \in SlotType /\ Base(e).txg = e.txg
           /\ \/ Base(e) = itxg[s]
              \/ /\ Base(e).sync = <<>> /\ \A o \in Objs : Base(e).async[o] = <<>>
                 /\ \A r \in Range(itxg[s].sync) : r.txg <= synced
                 /\ \A o \in Objs : \A r \in Range(itxg[s].async[o]) : r.txg <= synced
    <2> USE <1>BaseFacts
    <2>1. e.txg \in Nat /\ synced \in Nat /\ open \in Nat
      BY DEF Rec, ThreadTypes
    <2>2. s \in Slots
      BY <2>1, SlotOf
    <2>3. itxg[s] \in SlotType
      BY <2>2 DEF SlotInv
    <2>4. CASE itxg[s].txg = e.txg
      BY <2>2, <2>3, <2>4 DEF Base
    <2>5. CASE itxg[s].txg # e.txg
      <3>1. ASSUME NEW r \in records, r.txg = itxg[s].txg PROVE r.txg <= synced
        <4>1. r.txg \in Nat /\ r.txg # 0 /\ r.txg <= open
          BY DEF RecordInv, Rec
        <4>2. r.txg % TXG_SIZE = s
          BY Zenon, <2>2, <3>1, <4>1 DEF SlotInv
        <4>3. open - synced < TXG_SIZE
          BY <2>1, ZilCommitAssumption DEF GroupInv
        <4>4. ~(synced < r.txg)
          <5> SUFFICES ASSUME synced < r.txg PROVE FALSE
            OBVIOUS
          <5>1. r.txg - e.txg < TXG_SIZE /\ e.txg - r.txg < TXG_SIZE
            BY <2>1, <4>1, <4>3, ZilCommitAssumption
          <5> QED BY Zenon, <5>1, <2>1, <4>1, <4>2, <3>1, <2>5, SlotsDiffer
        <4> QED BY <4>1, <4>4, <2>1
      <3>2. Base(e) = Empty(e.txg)
        BY Zenon, <2>5 DEF Base, Empty
      <3>3. /\ \A r \in Range(itxg[s].sync) : r \in records /\ r.txg = itxg[s].txg
            /\ \A o \in Objs : \A r \in Range(itxg[s].async[o]) : r \in records /\ r.txg = itxg[s].txg
        BY Zenon, <2>2 DEF SlotInv
      <3>4. /\ \A r \in Range(itxg[s].sync) : r.txg <= synced
            /\ \A o \in Objs : \A r \in Range(itxg[s].async[o]) : r.txg <= synced
        BY Zenon, <3>1, <3>3
      <3>5. /\ Base(e) \in SlotType /\ Base(e).txg = e.txg /\ Base(e).sync = <<>>
            /\ \A o \in Objs : Base(e).async[o] = <<>>
        BY <2>1, <3>2, EmptyType
      <3> QED BY Zenon, <2>2, <3>4, <3>5
    <2> QED BY Zenon, <2>4, <2>5
  \* The slot after zil_itx_assign().
  <1>AssignEffect.
    ASSUME SlotInv, NEW e \in Rec, NEW b \in BOOLEAN, itxg' = zil_itx_assign(e, b),
           NEW s \in Slots, s = e.txg % TXG_SIZE, Base(e) \in SlotType
    PROVE  /\ itxg' \in [Slots -> SlotType] /\ \A x \in Slots : x # s => itxg'[x] = itxg[x]
           /\ itxg'[s].txg = Base(e).txg
           /\ itxg'[s].sync = IF b THEN Append(Base(e).sync, e) ELSE Base(e).sync
           /\ \A o \in Objs : itxg'[s].async[o] =
                IF ~b /\ o = e.obj THEN Append(Base(e).async[o], e) ELSE Base(e).async[o]
    <2> USE <1>AssignEffect
    <2> DEFINE slot == Base(e)
               new == IF b THEN [slot EXCEPT !.sync = Append(@, e)]
                      ELSE [slot EXCEPT !.async[e.obj] = Append(@, e)]
    <2>1. itxg' = [itxg EXCEPT ![s] = new]
      BY Zenon DEF zil_itx_assign, Base
    <2>2. e.obj \in Objs
      BY DEF Rec
    <2>3. /\ slot.sync \in Seq(Rec) /\ slot.async \in [Objs -> Seq(Rec)]
          /\ Append(slot.sync, e) \in Seq(Rec) /\ Append(slot.async[e.obj], e) \in Seq(Rec)
      BY <2>2, AppendRange DEF SlotType
    <2> HIDE DEF slot
    <2>4. slot \in SlotType
      BY DEF slot
    <2>5. /\ new \in SlotType /\ new.txg = slot.txg
          /\ new.sync = IF b THEN Append(slot.sync, e) ELSE slot.sync
          /\ \A o \in Objs : new.async[o] =
               IF ~b /\ o = e.obj THEN Append(slot.async[o], e) ELSE slot.async[o]
      BY <2>2, <2>3, <2>4 DEF SlotType
    <2> HIDE DEF new
    <2>6. itxg \in [Slots -> SlotType]
      BY DEF SlotInv
    <2>7. itxg' \in [Slots -> SlotType] /\ itxg'[s] = new /\ \A x \in Slots : x # s => itxg'[x] = itxg[x]
      BY Zenon, <2>1, <2>5, <2>6
    <2> QED BY Zenon, <2>5, <2>7 DEF slot
  <1> DEFINE s == rec.txg % TXG_SIZE
             base == Base(rec)
  <1>1. /\ s \in Slots /\ base \in SlotType /\ base.txg = rec.txg
        /\ \/ base = itxg[s]
           \/ /\ base.sync = <<>> /\ \A o \in Objs : base.async[o] = <<>>
              /\ \A r \in Range(itxg[s].sync) : r.txg <= synced
              /\ \A o \in Objs : \A r \in Range(itxg[s].async[o]) : r.txg <= synced
    BY Zenon, <1>BaseFacts DEF Assigned, MemInv
  <1>2. /\ itxg' \in [Slots -> SlotType] /\ \A x \in Slots : x # s => itxg'[x] = itxg[x]
        /\ itxg'[s].txg = base.txg
        /\ itxg'[s].sync = IF sync THEN Append(base.sync, rec) ELSE base.sync
        /\ \A o \in Objs : itxg'[s].async[o] =
             IF ~sync /\ o = rec.obj THEN Append(base.async[o], rec) ELSE base.async[o]
    BY Zenon, <1>1, <1>AssignEffect DEF Assigned, MemInv
  <1> HIDE DEF base
  <1>3. /\ \A r \in Range(itxg[s].sync) : r.txg <= synced \/ r \in Range(base.sync)
        /\ \A o \in Objs : \A r \in Range(itxg[s].async[o]) : r.txg <= synced \/ r \in Range(base.async[o])
    BY Zenon, <1>1
  <1>4. s = rec.txg % TXG_SIZE
    OBVIOUS
  <1> HIDE DEF s
  <1> s \in Slots /\ base \in SlotType
    BY Zenon, <1>1
  <1> WITNESS s \in Slots, base \in SlotType
  <1> QED
    BY Zenon, <1>1, <1>2, <1>3, <1>4 DEF Shape

\* What the lists of this slot have.
Ranges(rec, sync, s, base) ==
    /\ Range(base.sync) \subseteq Range(itxg[s].sync)
    /\ \A r \in Range(base.sync) : r.txg = rec.txg
    /\ Range(itxg'[s].sync) = Range(base.sync) \cup (IF sync THEN {rec} ELSE {})
    /\ \A o \in Objs :
         /\ Range(base.async[o]) \subseteq Range(itxg[s].async[o])
         /\ \A r \in Range(base.async[o]) : r.txg = rec.txg
         /\ Range(itxg'[s].async[o]) = Range(base.async[o]) \cup (IF ~sync /\ o = rec.obj THEN {rec} ELSE {})

\* The lists of the slot have what they had of the group, and the new record.
LEMMA AssignRanges ==
    ASSUME MemInv, NEW rec, NEW sync, Assigned(rec, sync), NEW s \in Slots, NEW base \in SlotType,
           Shape(rec, sync, s, base)
    PROVE  Ranges(rec, sync, s, base)
  <1>1. base.sync \in Seq(Rec) /\ \A o \in Objs : base.async[o] \in Seq(Rec)
    BY DEF SlotType
  <1>2. rec \in Rec /\ sync \in BOOLEAN
    BY Zenon DEF Assigned
  <1>3. Range(itxg'[s].sync) = Range(base.sync) \cup (IF sync THEN {rec} ELSE {})
    BY <1>1, <1>2, AppendRange DEF Shape
  <1>4. \A o \in Objs : Range(itxg'[s].async[o]) = Range(base.async[o]) \cup (IF ~sync /\ o = rec.obj THEN {rec} ELSE {})
    BY <1>1, <1>2, AppendRange DEF Shape
  <1>5. CASE base = itxg[s]
    <2>1. /\ \A r \in Range(itxg[s].sync) : r.txg = itxg[s].txg
          /\ \A o \in Objs : \A r \in Range(itxg[s].async[o]) : r.txg = itxg[s].txg
      BY Zenon DEF MemInv, SlotInv
    <2>2. Range(base.sync) = Range(itxg[s].sync) /\ \A o \in Objs : Range(base.async[o]) = Range(itxg[s].async[o])
      BY Zenon, <1>5
    <2>3. itxg[s].txg = rec.txg
      BY Zenon, <1>5 DEF Shape
    <2> QED BY Zenon, <1>3, <1>4, <2>1, <2>2, <2>3 DEF Ranges
  <1>6. CASE base.sync = <<>> /\ \A o \in Objs : base.async[o] = <<>>
    <2>1. Range(base.sync) = {} /\ \A o \in Objs : Range(base.async[o]) = {}
      BY Zenon, <1>6, EmptySeq
    <2> QED BY Zenon, <1>3, <1>4, <2>1 DEF Ranges
  <1> QED BY Zenon, <1>5, <1>6 DEF Shape

\* Lists of records were emptied, and nothing else.
Shrunk ==
    /\ itxg' \in [Slots -> SlotType] /\ UNCHANGED <<synced, list, log, records>>
    /\ \A s \in Slots :
         /\ itxg'[s].sync \in {itxg[s].sync, <<>>}
         /\ \A o \in Objs : itxg'[s].async[o] \in {itxg[s].async[o], <<>>}
         /\ \/ itxg'[s].txg = itxg[s].txg
            \/ itxg'[s].txg = 0 /\ itxg'[s].sync = <<>> /\ \A o \in Objs : itxg'[s].async[o] = <<>>

\* zil_clean() empties the slot of a group that has synced.
LEMMA CleanShrinks ==
    ASSUME MemInv, zil_clean
    PROVE  /\ Shrunk /\ UNCHANGED <<dropped, ops, open>>
           /\ \A s \in Slots : s # synced % TXG_SIZE => itxg'[s] = itxg[s]
  <1> DEFINE x == synced % TXG_SIZE
  <1>1. x \in Slots
    BY SlotOf DEF MemInv, ThreadTypes
  <1>2. EmptyItxg = Empty(0)
    BY DEF EmptyItxg, Empty
  <1>3. EmptyItxg \in SlotType /\ EmptyItxg.txg = 0 /\ EmptyItxg.sync = <<>>
        /\ \A o \in Objs : EmptyItxg.async[o] = <<>>
    BY <1>2, EmptyType
  <1>4. itxg' = [itxg EXCEPT ![x] = EmptyItxg] /\ UNCHANGED <<synced, list, log, records, dropped, ops, open>>
    BY Zenon DEF zil_clean
  <1> HIDE DEF x
  <1>5. itxg \in [Slots -> SlotType]
    BY DEF MemInv, SlotInv
  <1>6. itxg' \in [Slots -> SlotType] /\ itxg'[x] = EmptyItxg /\ \A s \in Slots : s # x => itxg'[s] = itxg[s]
    BY Zenon, <1>1, <1>3, <1>4, <1>5
  <1> QED BY Zenon, <1>3, <1>4, <1>6 DEF Shrunk, x

\* zil_remove_async() empties a list of an object: ztest drops its own.
LEMMA DropShape ==
    ASSUME MemInv, NEW t \in Threads, zil_remove_async(t)
    PROVE  /\ Shrunk /\ UNCHANGED <<ops, open, groupVars>> /\ dropped \subseteq dropped'
           /\ \A s \in Slots : itxg'[s].sync = itxg[s].sync /\ itxg'[s].txg = itxg[s].txg
           /\ \A s \in Slots, o \in Objs :
                \/ itxg'[s].async[o] = itxg[s].async[o]
                \/ /\ o = th[t].oid /\ s = th[t].walk % TXG_SIZE
                   /\ \A r \in Range(itxg[s].async[o]) : r.obj = th[t].obj => r.id \in dropped'
           /\ \A s \in Slots : s = th[t].walk % TXG_SIZE /\ itxg[s].txg = th[t].walk /\ th[t].oid \in Objs =>
                itxg'[s].async[th[t].oid] = <<>>
  <1> DEFINE s == th[t].walk % TXG_SIZE
             oid == th[t].oid
             gone == Dropped(s, oid)
  <1>1. s \in Slots /\ oid \in Objs \cup {NoObj}
    BY SlotOf DEF MemInv, ThreadTypes, ThreadType
  <1>2. itxg \in [Slots -> SlotType] /\ itxg[s] \in SlotType
    BY <1>1 DEF MemInv, SlotInv
  <1>3. UNCHANGED <<synced, list, log, records, ops, open, groupVars>>
    BY Zenon DEF zil_remove_async, groupVars
  <1>4. CASE itxg[s].txg = th[t].walk /\ gone # <<>>
    <2>1. oid \in Objs /\ gone = itxg[s].async[oid]
      BY Zenon, <1>1, <1>4 DEF Dropped
    <2>2. /\ itxg' = [itxg EXCEPT ![s].async[oid] = <<>>]
          /\ dropped' = dropped \cup {r.id : r \in {x \in Range(gone) : x.obj = th[t].obj}}
      BY Zenon, <1>4 DEF zil_remove_async
    <2>3. \A r \in Range(itxg[s].async[oid]) : r.obj = th[t].obj => r.id \in dropped'
      BY Zenon, <2>1, <2>2
    <2> HIDE DEF s, oid, gone
    <2>4. <<>> \in Seq(Rec)
      BY EmptySeq
    <2>5. /\ itxg' \in [Slots -> SlotType] /\ \A x \in Slots : x # s => itxg'[x] = itxg[x]
          /\ itxg'[s].sync = itxg[s].sync /\ itxg'[s].txg = itxg[s].txg
          /\ itxg'[s].async[oid] = <<>> /\ \A o \in Objs : o # oid => itxg'[s].async[o] = itxg[s].async[o]
      BY <1>1, <1>2, <2>1, <2>2, <2>4 DEF SlotType
    <2>6. dropped \subseteq dropped'
      BY Zenon, <2>2
    <2>7. Shrunk
      BY Zenon, <1>3, <2>5 DEF Shrunk
    <2> QED BY Zenon, <1>1, <1>3, <2>3, <2>5, <2>6, <2>7 DEF s, oid
  <1>5. CASE ~(itxg[s].txg = th[t].walk /\ gone # <<>>)
    <2>1. UNCHANGED <<itxg, dropped>>
      BY Zenon, <1>5 DEF zil_remove_async, itxVars
    <2>2. ASSUME itxg[s].txg = th[t].walk, oid \in Objs PROVE itxg[s].async[oid] = <<>>
      BY Zenon, <1>5, <2>2, ZilCommitAssumption DEF Dropped
    <2>3. Shrunk
      BY Zenon, <1>2, <1>3, <2>1 DEF Shrunk
    <2> QED BY Zenon, <1>3, <2>1, <2>2, <2>3
  <1> QED BY Zenon, <1>4, <1>5

\* What is moved: the lists of the objects os.
MovedTo(s, q, os) ==
    /\ itxg' \in [Slots -> SlotType] /\ \A x \in Slots : x # s => itxg'[x] = itxg[x]
    /\ itxg'[s].txg = itxg[s].txg /\ itxg'[s].sync = itxg[s].sync \o q
    /\ \A o \in Objs : itxg'[s].async[o] = IF o \in os THEN <<>> ELSE itxg[s].async[o]
    /\ IsInjective(q)
    /\ \A o \in os : Range(itxg[s].async[o]) \subseteq Range(q)
    /\ \A r \in Range(q) : \E o \in os : r \in Range(itxg[s].async[o])

\* zil_async_to_sync() moves the lists of one object or of all of them.
LEMMA MoveShape ==
    ASSUME MemInv, NEW t \in Threads, zil_async_to_sync(t)
    PROVE  \/ UNCHANGED itxg /\ itxg[th[t].walk % TXG_SIZE].txg # th[t].walk
           \/ \E q \in Seq(Rec), os \in SUBSET Objs :
                /\ MovedTo(th[t].walk % TXG_SIZE, q, os)
                /\ th[t].oid = NoObj => os = Objs
                /\ th[t].oid # NoObj => os = {th[t].oid}
  \* The lists of all objects, one after the other.
  <1>JoinedFacts.
    ASSUME NEW s \in Slots, NEW q \in Joined(itxg[s].async)
    PROVE  /\ q \in Seq(Rec) /\ IsInjective(q)
           /\ \A o \in Objs : Range(itxg[s].async[o]) \subseteq Range(q)
           /\ \A r \in Range(q) : \E o \in Objs : r \in Range(itxg[s].async[o])
    <2> USE <1>JoinedFacts
    <2> DEFINE async == itxg[s].async
               recs == UNION {Range(async[o]) : o \in Objs}
    <2>1. recs \subseteq records
      <3> SUFFICES ASSUME NEW o \in Objs, NEW r \in Range(async[o]) PROVE r \in records
        BY Zenon
      <3> QED BY Zenon DEF MemInv, SlotInv
    <2>2. PICK n \in 0 .. Cardinality(recs) : q \in [1 .. n -> recs]
      BY Zenon DEF Joined
    <2>3. /\ IsInjective(q)
          /\ \A o \in Objs : \E k \in 0 .. Len(q) - Len(async[o]) :
               \A i \in DOMAIN async[o] : q[k + i] = async[o][i]
      BY Zenon DEF Joined
    <2>4. recs \subseteq Rec
      BY Zenon, <2>1 DEF MemInv, RecordInv
    <2>5. \A o \in Objs : async[o] \in Seq(Rec)
      BY DEF MemInv, SlotInv, SlotType
    <2>6. \A r \in recs : \E o \in Objs : r \in Range(async[o])
      BY Zenon
    <2> HIDE DEF async, recs
    <2>7. q \in Seq(Rec) /\ DOMAIN q = 1 .. Len(q)
      BY <2>2, <2>4
    <2>8. ASSUME NEW o \in Objs PROVE Range(async[o]) \subseteq Range(q)
      <3>1. PICK k \in 0 .. Len(q) - Len(async[o]) : \A i \in DOMAIN async[o] : q[k + i] = async[o][i]
        BY Zenon, <2>3
      <3>2. \A i \in DOMAIN async[o] : k + i \in DOMAIN q
        BY <2>5, <2>7
      <3> QED BY Zenon, <3>1, <3>2 DEF Range
    <2>9. \A r \in Range(q) : r \in recs
      BY <2>2 DEF Range
    <2> QED BY Zenon, <2>3, <2>6, <2>7, <2>8, <2>9 DEF async
  <1> DEFINE s == th[t].walk % TXG_SIZE
             oid == th[t].oid
  <1>1. s \in Slots /\ oid \in Objs \cup {NoObj}
    BY SlotOf DEF MemInv, ThreadTypes, ThreadType
  <1>2. itxg \in [Slots -> SlotType] /\ itxg[s] \in SlotType
    BY <1>1 DEF MemInv, SlotInv
  <1>3. itxg[s].sync \in Seq(Rec) /\ itxg[s].async \in [Objs -> Seq(Rec)] /\ <<>> \in Seq(Rec)
    BY <1>2, EmptySeq DEF SlotType
  <1>4. CASE itxg[s].txg = th[t].walk
    <2>1. PICK slot \in Moved(itxg[s], oid) : itxg' = [itxg EXCEPT ![s] = slot]
      BY Zenon, <1>4 DEF zil_async_to_sync
    <2>2. CASE oid # NoObj
      <3> DEFINE q == itxg[s].async[oid]
      <3>1. oid \in Objs /\ q \in Seq(Rec)
        BY <1>1, <1>3, <2>2
      <3>2. slot = [itxg[s] EXCEPT !.sync = @ \o q, !.async[oid] = <<>>]
        BY Zenon, <2>1, <2>2 DEF Moved
      <3>3. itxg[s].sync \o q \in Seq(Rec)
        BY <1>3, <3>1, ConcatRange
      <3>4. IsInjective(q)
        BY Zenon, <1>1, <3>1 DEF MemInv, OnceInv
      <3>5. q = itxg[s].async[oid]
        OBVIOUS
      <3> HIDE DEF s, oid, q
      <3>6. /\ slot \in SlotType /\ slot.txg = itxg[s].txg /\ slot.sync = itxg[s].sync \o q
            /\ \A o \in Objs : slot.async[o] = IF o \in {oid} THEN <<>> ELSE itxg[s].async[o]
        BY Zenon, <1>2, <1>3, <3>1, <3>2, <3>3 DEF SlotType
      <3>7. itxg' \in [Slots -> SlotType] /\ itxg'[s] = slot /\ \A x \in Slots : x # s => itxg'[x] = itxg[x]
        BY Zenon, <1>1, <1>2, <2>1, <3>6
      <3>8. MovedTo(s, q, {oid})
        BY Zenon, <3>1, <3>4, <3>5, <3>6, <3>7 DEF MovedTo
      <3>9. {oid} \in SUBSET Objs
        BY Zenon, <3>1
      <3> QED BY Zenon, <2>2, <3>1, <3>8, <3>9 DEF s, oid
    <2>3. CASE oid = NoObj
      <3>1. PICK q \in Joined(itxg[s].async) :
              slot = [itxg[s] EXCEPT !.sync = @ \o q, !.async = [x \in Objs |-> <<>>]]
        BY Zenon, <2>1, <2>3 DEF Moved
      <3>2. /\ q \in Seq(Rec) /\ IsInjective(q)
            /\ \A o \in Objs : Range(itxg[s].async[o]) \subseteq Range(q)
            /\ \A r \in Range(q) : \E o \in Objs : r \in Range(itxg[s].async[o])
        BY Zenon, <1>1, <1>JoinedFacts
      <3>3. itxg[s].sync \o q \in Seq(Rec)
        BY <1>3, <3>2, ConcatRange
      <3> HIDE DEF s, oid
      <3>4. /\ slot \in SlotType /\ slot.txg = itxg[s].txg /\ slot.sync = itxg[s].sync \o q
            /\ \A o \in Objs : slot.async[o] = <<>>
        BY Zenon, <1>2, <1>3, <3>1, <3>3 DEF SlotType
      <3>5. itxg' \in [Slots -> SlotType] /\ itxg'[s] = slot /\ \A x \in Slots : x # s => itxg'[x] = itxg[x]
        BY Zenon, <1>1, <1>2, <2>1, <3>4
      <3>6. MovedTo(s, q, Objs)
        BY Zenon, <3>2, <3>4, <3>5 DEF MovedTo
      <3>7. Objs \in SUBSET Objs
        BY Zenon
      <3> QED BY Zenon, <2>3, <3>2, <3>6, <3>7 DEF s, oid
    <2> QED BY Zenon, <2>2, <2>3
  <1>5. CASE itxg[s].txg # th[t].walk
    BY Zenon, <1>5 DEF zil_async_to_sync
  <1> QED BY Zenon, <1>4, <1>5

\* The list of slot s is taken.
CollectedFrom(s) ==
    /\ itxg' \in [Slots -> SlotType] /\ \A x \in Slots : x # s => itxg'[x] = itxg[x]
    /\ itxg'[s].txg = itxg[s].txg /\ itxg'[s].sync = <<>>
    /\ \A o \in Objs : itxg'[s].async[o] = itxg[s].async[o]
    /\ list' = list \o itxg[s].sync

\* zil_get_commit_list() takes the list of the slot it is at.
LEMMA CollectShape ==
    ASSUME MemInv, NEW t \in Threads, zil_get_commit_list(t)
    PROVE  \/ UNCHANGED <<itxg, list>> /\ itxg[th[t].walk % TXG_SIZE].txg # th[t].walk
           \/ CollectedFrom(th[t].walk % TXG_SIZE)
  <1> DEFINE s == th[t].walk % TXG_SIZE
  <1>1. s \in Slots
    BY SlotOf DEF MemInv, ThreadTypes, ThreadType
  <1>2. itxg \in [Slots -> SlotType] /\ itxg[s] \in SlotType /\ <<>> \in Seq(Rec)
    BY <1>1, EmptySeq DEF MemInv, SlotInv
  <1>3. CASE itxg[s].txg = th[t].walk
    <2>1. list' = list \o itxg[s].sync /\ itxg' = [itxg EXCEPT ![s].sync = <<>>]
      BY Zenon, <1>3 DEF zil_get_commit_list
    <2> HIDE DEF s
    <2>2. /\ itxg' \in [Slots -> SlotType] /\ \A x \in Slots : x # s => itxg'[x] = itxg[x]
          /\ itxg'[s].txg = itxg[s].txg /\ itxg'[s].sync = <<>>
          /\ \A o \in Objs : itxg'[s].async[o] = itxg[s].async[o]
      BY <1>1, <1>2, <2>1 DEF SlotType
    <2>3. CollectedFrom(s)
      BY Zenon, <2>1, <2>2 DEF CollectedFrom
    <2> QED BY Zenon, <2>3 DEF s
  <1>4. CASE itxg[s].txg # th[t].walk
    BY Zenon, <1>4 DEF zil_get_commit_list
  <1> QED BY Zenon, <1>3, <1>4

-----------------------------------------------------------------------------
(* Records of removed objects.                                             *)

\* What is left in a list of an object was there.
AsyncKept(o) ==
    \A s \in Slots : itxg'[s].async[o] # <<>> =>
        itxg'[s].async[o] = itxg[s].async[o] /\ itxg'[s].txg = itxg[s].txg

\* A thread that removes an object has as much of its walk before it as it had.
SameDrop(x) ==
    th'[x].pc = "drop" => /\ th[x].pc = "drop" /\ th'[x].obj = th[x].obj
                          /\ th'[x].walk = th[x].walk /\ th'[x].end = th[x].end

\* The first half of StaleInv, for thread t.
Ahead(t) ==
    \A s \in Slots : th[t].pc = "drop" /\ itxg[s].txg > synced /\ itxg[s].async[th[t].obj] # <<>> =>
        th[t].walk <= itxg[s].txg /\ itxg[s].txg <= th[t].end

\* The second half of StaleInv, for object o.
NoneStale(o) ==
    \A s \in Slots : itxg[s].txg > synced => \A r \in Range(itxg[s].async[o]) :
        ~\E q \in records : q.kind = "remove" /\ q.obj = o /\ q.id > r.id

\* No record of a removed object is left where a commit of the object finds it.
LEMMA NextStale == ASSUME MemInv, StaleInv, Next, SlotInv' PROVE StaleInv'
  \* The two halves of StaleInv: removals on their way, and removals that are
  \* done.
  <1>StaleHalves.
    ASSUME SlotInv PROVE StaleInv <=> (Ztest => (\A t \in Threads : Ahead(t)) /\ \A o \in Objs : NoneStale(o))
    <2> USE <1>StaleHalves
    <2>1. DOMAIN itxg = Slots
      BY DEF SlotInv
    <2> QED BY Zenon, <2>1 DEF StaleInv, NoStaleRecords, Ahead, NoneStale
  <1>StaleHalvesNext.
    ASSUME UNCHANGED workload,
           Ztest => (\A t \in Threads : Ahead(t)') /\ \A o \in Objs : NoneStale(o)'
    PROVE  StaleInv'
    <2> USE <1>StaleHalvesNext
    <2>1. DOMAIN itxg' = Slots
      BY DEF SlotInv
    <2> QED BY Zenon, <2>1 DEF StaleInv, NoStaleRecords, Ahead, NoneStale, Ztest
  \* A removal on its way still has before it what it must drop.
  <1>AheadKept.
    ASSUME NEW t \in Threads, Ahead(t), SameDrop(t), AsyncKept(th[t].obj), synced' \in Nat,
           synced <= synced'
    PROVE  Ahead(t)'
    <2> USE <1>AheadKept
    <2> SUFFICES ASSUME NEW s \in Slots, th'[t].pc = "drop", itxg'[s].txg > synced', itxg'[s].async[th'[t].obj] # <<>>
                 PROVE  th'[t].walk <= itxg'[s].txg /\ itxg'[s].txg <= th'[t].end
      BY Zenon DEF Ahead
    <2>1. /\ th[t].pc = "drop" /\ th'[t].obj = th[t].obj /\ th'[t].walk = th[t].walk /\ th'[t].end = th[t].end
          /\ itxg'[s].txg = itxg[s].txg /\ itxg[s].async[th[t].obj] # <<>>
      BY Zenon DEF SameDrop, AsyncKept
    <2>2. itxg[s].txg > synced
      <3>1. itxg[s].txg \in Nat /\ synced \in Nat
        BY DEF MemInv, SlotInv, SlotType, ThreadTypes
      <3> QED BY <2>1, <3>1
    <2> QED BY Zenon, <2>1, <2>2 DEF Ahead
  \* An object that is not removed keeps no records from before its last
  \* removal.
  <1>NoneStaleKept.
    ASSUME NEW o \in Objs, NoneStale(o), AsyncKept(o), synced' \in Nat, synced <= synced',
           \A q \in records' \ records : q.kind = "remove" => q.obj # o
    PROVE  NoneStale(o)'
    <2> USE <1>NoneStaleKept
    <2> SUFFICES ASSUME NEW s \in Slots, itxg'[s].txg > synced', NEW r \in Range(itxg'[s].async[o]),
                        NEW q \in records', q.kind = "remove", q.obj = o, q.id > r.id
                 PROVE  FALSE
      BY Zenon DEF NoneStale
    <2>1. itxg'[s].async[o] # <<>>
      BY EmptySeq DEF Range
    <2>2. itxg'[s].async[o] = itxg[s].async[o] /\ itxg'[s].txg = itxg[s].txg
      BY Zenon, <2>1 DEF AsyncKept
    <2>3. itxg[s].txg > synced
      <3>1. itxg[s].txg \in Nat /\ synced \in Nat
        BY DEF MemInv, SlotInv, SlotType, ThreadTypes
      <3> QED BY <2>2, <3>1
    <2>4. q \in records
      BY Zenon
    <2> QED BY Zenon, <2>2, <2>3, <2>4 DEF NoneStale
  \* Steps that put no record into a list of an object.
  <1>StaleKept.
    ASSUME UNCHANGED <<workload, records>>, synced' \in Nat, synced <= synced',
           \A o \in Objs : AsyncKept(o), \A x \in Threads : SameDrop(x)
    PROVE  StaleInv'
    <2> USE <1>StaleKept
    <2>1. SUFFICES ASSUME Ztest PROVE (\A t \in Threads : Ahead(t)') /\ \A o \in Objs : NoneStale(o)'
      BY Zenon, <1>StaleHalvesNext
    <2>2. (\A t \in Threads : Ahead(t)) /\ \A o \in Objs : NoneStale(o)
      BY Zenon, <2>1, <1>StaleHalves DEF MemInv
    <2>3. ASSUME NEW t \in Threads PROVE Ahead(t)'
      <3>1. CASE th'[t].pc # "drop"
        BY Zenon, <3>1 DEF Ahead
      <3>2. CASE th'[t].pc = "drop"
        <4>1. th[t].obj \in Objs
          BY Zenon, <3>2 DEF SameDrop, MemInv, GroupInv
        <4> QED BY Zenon, <2>2, <4>1, <1>AheadKept
      <3> QED BY Zenon, <3>1, <3>2
    <2>4. ASSUME NEW o \in Objs PROVE NoneStale(o)'
      BY Zenon, <2>2, <1>NoneStaleKept
    <2> QED BY Zenon, <2>3, <2>4
  \* A new record: nobody removes its object, or all of its writes are gone.
  <1>StaleAssigned.
    ASSUME NEW rec, NEW sync, Assigned(rec, sync), Ztest, \A x \in Threads : SameDrop(x),
           ~sync => rec.kind = "write" /\ \A x \in Threads : th[x].pc = "drop" => th[x].obj # rec.obj,
           rec.kind = "remove" => \A s \in Slots : itxg[s].txg > synced => itxg[s].async[rec.obj] = <<>>
    PROVE  StaleInv'
    <2> USE <1>StaleAssigned
    <2>1. PICK s \in Slots, base \in SlotType : Shape(rec, sync, s, base)
      BY Zenon, AssignShape
    <2>2. /\ rec \in Rec /\ rec.id = ops + 1 /\ records' = records \cup {rec} /\ synced' = synced /\ workload' = workload
          /\ sync \in BOOLEAN /\ synced < rec.txg
      BY Zenon DEF Assigned, groupVars
    <2>3. ASSUME NEW o \in Objs, sync \/ o # rec.obj PROVE AsyncKept(o)
      <3> SUFFICES ASSUME NEW x \in Slots, itxg'[x].async[o] # <<>>
                   PROVE  itxg'[x].async[o] = itxg[x].async[o] /\ itxg'[x].txg = itxg[x].txg
        BY Zenon DEF AsyncKept
      <3>1. CASE x # s
        BY Zenon, <2>1, <3>1 DEF Shape
      <3>2. CASE x = s
        <4>1. itxg'[s].async[o] = base.async[o] /\ itxg'[s].txg = base.txg
          BY Zenon, <2>1, <2>3 DEF Shape
        <4>2. base = itxg[s]
          BY Zenon, <2>1, <3>2, <4>1 DEF Shape
        <4> QED BY Zenon, <3>2, <4>1, <4>2
      <3> QED BY Zenon, <3>1, <3>2
    <2>4. (\A t \in Threads : Ahead(t)) /\ \A o \in Objs : NoneStale(o)
      BY Zenon, <1>StaleHalves DEF MemInv
    <2>5. synced' \in Nat /\ synced <= synced' /\ ops \in Nat /\ rec.obj \in Objs /\ rec.txg \in Nat
      BY <2>2 DEF MemInv, ThreadTypes, Rec
    <2>6. ASSUME NEW t \in Threads PROVE Ahead(t)'
      <3>1. CASE th'[t].pc # "drop"
        BY Zenon, <3>1 DEF Ahead
      <3>2. CASE th'[t].pc = "drop"
        <4>1. th[t].obj \in Objs /\ th[t].pc = "drop"
          BY Zenon, <3>2 DEF SameDrop, MemInv, GroupInv
        <4>2. AsyncKept(th[t].obj)
          BY Zenon, <2>3, <4>1
        <4> QED BY Zenon, <2>4, <2>5, <4>1, <4>2, <1>AheadKept
      <3> QED BY Zenon, <3>1, <3>2
    <2>7. ASSUME NEW o \in Objs PROVE NoneStale(o)'
      <3>1. CASE ~sync /\ o = rec.obj
        <4> SUFFICES ASSUME NEW x \in Slots, itxg'[x].txg > synced, NEW r \in Range(itxg'[x].async[o]),
                            NEW q \in records', q.kind = "remove", q.obj = o, q.id > r.id
                     PROVE  FALSE
          BY Zenon, <2>2 DEF NoneStale
        <4>1. q \in records /\ q.id <= ops /\ q.id \in Nat
          BY <2>2, <3>1 DEF MemInv, RecordInv, Rec
        <4>2. r # rec
          BY <2>2, <2>5, <4>1
        <4>3. Ranges(rec, sync, s, base)
          BY Zenon, <2>1, AssignRanges
        <4>4. r \in Range(itxg[x].async[o])
          <5>1. CASE x = s
            BY <3>1, <4>2, <4>3, <5>1 DEF Ranges
          <5>2. CASE x # s
            BY Zenon, <2>1, <5>2 DEF Shape
          <5> QED BY Zenon, <5>1, <5>2
        <4>5. itxg[x].txg > synced
          <5>1. CASE x = s
            <6>1. r \in Range(base.async[o]) /\ Range(base.async[o]) \subseteq Range(itxg[s].async[o])
              BY <3>1, <4>2, <4>3, <5>1 DEF Ranges
            <6>2. r.txg = rec.txg
              BY Zenon, <4>3, <6>1 DEF Ranges
            <6>3. r.txg = itxg[s].txg
              BY <6>1 DEF MemInv, SlotInv
            <6> QED BY <2>2, <2>5, <5>1, <6>2, <6>3 DEF MemInv, ThreadTypes
          <5>2. CASE x # s
            BY Zenon, <2>1, <5>2 DEF Shape
          <5> QED BY Zenon, <5>1, <5>2
        <4> QED BY Zenon, <2>4, <4>1, <4>4, <4>5 DEF NoneStale
      <3>2. CASE sync \/ o # rec.obj
        <4>1. AsyncKept(o)
          BY Zenon, <2>3, <3>2
        <4>2. CASE rec.kind = "remove" /\ o = rec.obj
          <5>1. ASSUME NEW x \in Slots, itxg'[x].txg > synced PROVE itxg'[x].async[o] = <<>>
            BY Zenon, <4>1, <4>2, <5>1 DEF AsyncKept
          <5>2. Range(<<>>) = {}
            BY EmptySeq
          <5> QED BY Zenon, <2>2, <5>1, <5>2 DEF NoneStale
        <4>3. CASE ~(rec.kind = "remove" /\ o = rec.obj)
          <5>1. \A q \in records' \ records : q.kind = "remove" => q.obj # o
            BY Zenon, <2>2, <4>3
          <5> QED BY Zenon, <2>4, <2>5, <4>1, <5>1, <1>NoneStaleKept
        <4> QED BY Zenon, <4>2, <4>3
      <3> QED BY Zenon, <3>1, <3>2
    <2> QED BY Zenon, <2>2, <2>6, <2>7, <1>StaleHalvesNext
  \* Who steps does not remove an object.
  <1>OtherDrops.
    ASSUME NEW t \in Threads, \A x \in Threads : x # t => th'[x] = th[x], th'[t].pc # "drop"
    PROVE  \A x \in Threads : SameDrop(x)
    BY Zenon, <1>OtherDrops DEF SameDrop
  \* Lists that are left or emptied.
  <1>ShrunkKept. ASSUME Shrunk, NEW o \in Objs PROVE AsyncKept(o)
    BY Zenon, <1>ShrunkKept DEF Shrunk, AsyncKept
  \* A removal that starts has all slots that may have records before it.
  <1>StaleStarts.
    ASSUME NEW t \in Threads, NEW o \in Objs, RemoveObj(t, o), UNCHANGED workload
    PROVE  StaleInv'
    <2> USE <1>StaleStarts
    <2>1. PICK oid \in ItxOid(o) :
            th' = [th EXCEPT ![t] = [Idle EXCEPT !.pc = "drop", !.kind = "remove", !.obj = o, !.oid = oid,
                                                 !.txg = open, !.walk = synced + 1,
                                                 !.end = synced + TXG_CONCURRENT_STATES]]
      BY Zenon DEF RemoveObj, Start
    <2>2. /\ \A x \in Threads : x # t => th'[x] = th[x]
          /\ th'[t].obj = o /\ th'[t].walk = synced + 1 /\ th'[t].end = synced + TXG_CONCURRENT_STATES
      BY <2>1 DEF Idle, MemInv, ThreadTypes
    <2>3. UNCHANGED <<itxg, synced, records>>
      BY Zenon DEF RemoveObj, Start, itxVars, groupVars
    <2>4. synced' \in Nat /\ synced <= synced' /\ open \in Nat
      BY <2>3 DEF MemInv, ThreadTypes
    <2>5. \A x \in Objs : AsyncKept(x)
      BY Zenon, <2>3 DEF AsyncKept
    <2>6. SUFFICES ASSUME Ztest PROVE (\A x \in Threads : Ahead(x)') /\ \A x \in Objs : NoneStale(x)'
      BY Zenon, <1>StaleHalvesNext
    <2>7. (\A x \in Threads : Ahead(x)) /\ \A x \in Objs : NoneStale(x)
      BY Zenon, <2>6, <1>StaleHalves DEF MemInv
    <2>8. \A x \in Objs : NoneStale(x)'
      BY Zenon, <2>3, <2>7 DEF NoneStale
    <2>9. ASSUME NEW x \in Threads, x # t PROVE Ahead(x)'
      BY Zenon, <2>2, <2>3, <2>7, <2>9 DEF Ahead
    <2>10. Ahead(t)'
      <3> SUFFICES ASSUME NEW s \in Slots, itxg[s].txg > synced, itxg[s].async[o] # <<>>
                   PROVE  synced + 1 <= itxg[s].txg /\ itxg[s].txg <= synced + TXG_CONCURRENT_STATES
        BY Zenon, <2>2, <2>3 DEF Ahead
      <3>1. itxg[s].async[o] \in Seq(Rec) /\ itxg[s].txg \in Nat
        BY DEF MemInv, SlotInv, SlotType
      <3>2. itxg[s].async[o][1] \in Range(itxg[s].async[o])
        BY <3>1 DEF Range
      <3>3. PICK r \in Range(itxg[s].async[o]) : TRUE
        BY Zenon, <3>2
      <3>4. r \in records /\ r.txg = itxg[s].txg
        BY <3>3 DEF MemInv, SlotInv
      <3>5. r.txg <= open /\ open <= synced + TXG_CONCURRENT_STATES
        BY Zenon, <3>4 DEF MemInv, RecordInv, GroupInv
      <3> QED BY <2>3, <2>4, <3>1, <3>4, <3>5, ZilCommitAssumption
    <2> QED BY Zenon, <2>8, <2>9, <2>10
  \* One step of a removal leaves nothing in the slot it visits.
  <1>StaleDrops.
    ASSUME NEW t \in Threads, zil_remove_async(t), UNCHANGED workload
    PROVE  StaleInv'
    <2> USE <1>StaleDrops
    <2>1. UNCHANGED <<synced, records>> /\ \A o \in Objs : AsyncKept(o)
      BY Zenon, DropShape, <1>ShrunkKept DEF Shrunk
    <2>2. /\ \A x \in Threads : x # t => th'[x] = th[x]
          /\ th'[t].walk = th[t].walk + 1 /\ th'[t].obj = th[t].obj /\ th'[t].end = th[t].end
      BY DEF zil_remove_async, MemInv, ThreadTypes, ThreadType
    <2>3. th[t].pc = "drop" /\ th[t].obj \in Objs /\ th[t].walk \in Nat /\ th[t].end \in Nat
      BY DEF zil_remove_async, MemInv, GroupInv, ThreadTypes, ThreadType
    <2>4. synced' \in Nat /\ synced <= synced'
      BY <2>1 DEF MemInv, ThreadTypes
    <2>6. SUFFICES ASSUME Ztest PROVE (\A x \in Threads : Ahead(x)') /\ \A x \in Objs : NoneStale(x)'
      BY Zenon, <1>StaleHalvesNext
    <2>7. (\A x \in Threads : Ahead(x)) /\ \A x \in Objs : NoneStale(x)
      BY Zenon, <2>6, <1>StaleHalves DEF MemInv
    <2>8. \A x \in Objs : NoneStale(x)'
      BY Zenon, <2>1, <2>4, <2>7, <1>NoneStaleKept
    <2>9. ASSUME NEW x \in Threads, x # t PROVE Ahead(x)'
      <3>1. CASE th'[x].pc # "drop"
        BY Zenon, <3>1 DEF Ahead
      <3>2. CASE th'[x].pc = "drop"
        <4>1. SameDrop(x) /\ th[x].obj \in Objs
          BY Zenon, <2>2, <2>9, <3>2 DEF SameDrop, MemInv, GroupInv
        <4> QED BY Zenon, <2>1, <2>4, <2>7, <4>1, <1>AheadKept
      <3> QED BY Zenon, <3>1, <3>2
    <2>10. Ahead(t)'
      <3> SUFFICES ASSUME NEW s \in Slots, itxg'[s].txg > synced, itxg'[s].async[th[t].obj] # <<>>
                   PROVE  th[t].walk + 1 <= itxg'[s].txg /\ itxg'[s].txg <= th[t].end
        BY Zenon, <2>1, <2>2 DEF Ahead
      <3>1. itxg'[s].async[th[t].obj] = itxg[s].async[th[t].obj] /\ itxg'[s].txg = itxg[s].txg
        BY Zenon, <2>1, <2>3 DEF AsyncKept
      <3>2. th[t].walk <= itxg[s].txg /\ itxg[s].txg <= th[t].end
        BY Zenon, <2>3, <2>7, <3>1 DEF Ahead
      <3>3. itxg[s].txg # th[t].walk
        <4> SUFFICES ASSUME itxg[s].txg = th[t].walk PROVE FALSE
          OBVIOUS
        <4>1. itxg[s].txg # 0
          BY <3>1, <2>1 DEF MemInv, ThreadTypes
        <4>2. s = th[t].walk % TXG_SIZE
          BY <4>1 DEF MemInv, SlotInv
        <4>3. th[t].oid = th[t].obj
          BY Zenon, <2>3, <2>6 DEF MemInv, GroupInv
        <4> QED BY Zenon, <2>3, <4>2, <4>3, DropShape
      <3>4. itxg[s].txg \in Nat
        BY DEF MemInv, SlotInv, SlotType
      <3> QED BY <2>3, <3>1, <3>2, <3>3, <3>4
    <2> QED BY Zenon, <2>8, <2>9, <2>10
  <1>1. UNCHANGED workload /\ workload.threads \subseteq Threads
    BY ZilCommitAssumption DEF Next, MemInv, ThreadTypes
  <1>2. CASE ~Ztest
    BY Zenon, <1>1, <1>2 DEF StaleInv, Ztest
  <1>3. SUFFICES ASSUME Ztest PROVE StaleInv'
    BY Zenon, <1>2
  <1>4. ASSUME UNCHANGED <<itxg, synced, records>>, \A x \in Threads : SameDrop(x) PROVE StaleInv'
    <2>1. synced' \in Nat /\ synced <= synced'
      BY <1>4 DEF MemInv, ThreadTypes
    <2>2. \A o \in Objs : AsyncKept(o)
      BY Zenon, <1>4 DEF AsyncKept
    <2> QED BY Zenon, <1>1, <1>4, <2>1, <2>2, <1>StaleKept
  <1>5. CASE Quiesce \/ Synced
    <2>1. UNCHANGED <<itxg, th, records>> /\ synced' \in Nat /\ synced <= synced'
      BY <1>5 DEF Quiesce, Synced, itxVars, MemInv, ThreadTypes
    <2>2. (\A o \in Objs : AsyncKept(o)) /\ \A x \in Threads : SameDrop(x)
      BY Zenon, <2>1 DEF AsyncKept, SameDrop
    <2> QED BY Zenon, <1>1, <2>1, <2>2, <1>StaleKept
  <1>6. CASE zil_clean
    <2>1. Shrunk /\ th' = th
      BY Zenon, <1>6, CleanShrinks DEF zil_clean
    <2>2. UNCHANGED <<synced, records>> /\ synced' \in Nat /\ synced <= synced'
      BY <2>1 DEF Shrunk, MemInv, ThreadTypes
    <2>3. \A x \in Threads : SameDrop(x)
      BY Zenon, <2>1 DEF SameDrop
    <2> QED BY Zenon, <1>1, <2>1, <2>2, <2>3, <1>ShrunkKept, <1>StaleKept
  <1>7. ASSUME NEW t \in Threads, NEW o \in Objs, Create(t, o) \/ Write(t, o) PROVE StaleInv'
    <2>1. PICK kind \in {"create", "write"}, sync \in BOOLEAN : Assigned(Record(kind, o), sync)
      BY Zenon, <1>1, <1>7, LogOneAssigns
    <2>2. ~Locked(o) /\ th' = th
      BY Zenon, <1>1, <1>7, LogOneAssigns
    <2>3. Record(kind, o).kind = kind /\ Record(kind, o).obj = o
      BY Zenon DEF Record
    <2>4. \A x \in Threads : th[x].pc = "drop" => th[x].obj # o
      <3>1. \A x \in Threads : th[x].pc = "drop" => th[x].kind \in {"remove", "rename"}
        BY DEF MemInv, GroupInv, ThreadTypes, ThreadType
      <3> QED BY Zenon, <2>2, <3>1 DEF Locked
    <2>5. \A x \in Threads : SameDrop(x)
      BY Zenon, <2>2 DEF SameDrop
    <2>6. kind # "remove" /\ (~sync => kind = "write")
      BY <2>1, <2>3 DEF Assigned
    <2> QED BY Zenon, <1>1, <1>3, <2>1, <2>3, <2>4, <2>5, <2>6, <1>StaleAssigned
  <1>8. ASSUME NEW t \in Threads, NEW o \in Objs, RemoveObj(t, o) \/ Rename(t, o) PROVE StaleInv'
    BY Zenon, <1>1, <1>3, <1>8, <1>StaleStarts DEF Rename
  <1>9. ASSUME NEW t \in Threads, NEW o \in Objs \cup {NoObj}, CommitStart(t, o) PROVE StaleInv'
    <2>1. (\A x \in Threads : x # t => th'[x] = th[x]) /\ th'[t].pc = "tosync"
      BY <1>9 DEF CommitStart, Idle, MemInv, ThreadTypes
    <2>2. th'[t].pc # "drop" /\ UNCHANGED <<itxg, synced, records>>
      BY <1>9, <2>1 DEF CommitStart, itxVars, groupVars
    <2> QED BY Zenon, <1>4, <2>1, <2>2, <1>OtherDrops
  <1>10. ASSUME NEW t \in Threads, Running(t) PROVE StaleInv'
    <2>1. CASE zil_remove_async(t)
      BY Zenon, <1>1, <2>1, <1>StaleDrops
    <2>2. CASE LogLast(t)
      <3>1. Assigned(LastRecord(t), TRUE) /\ LastRecord(t).obj = th[t].obj
        BY Zenon, <1>1, <2>2, LogLastAssigns DEF LastRecord
      <3>2. th[t].pc = "drop" /\ th[t].walk > th[t].end /\ th[t].walk \in Nat /\ th[t].end \in Nat
        BY <1>3, <2>2 DEF LogLast, MemInv, GroupInv, ThreadTypes, ThreadType
      <3>3. Ahead(t)
        BY Zenon, <1>3, <1>StaleHalves DEF MemInv
      <3>4. ASSUME NEW s \in Slots, itxg[s].txg > synced PROVE itxg[s].async[th[t].obj] = <<>>
        <4>1. itxg[s].txg \in Nat
          BY DEF MemInv, SlotInv, SlotType
        <4>2. ~(th[t].walk <= itxg[s].txg /\ itxg[s].txg <= th[t].end)
          BY <3>2, <4>1
        <4> QED BY Zenon, <3>2, <3>3, <3>4, <4>2 DEF Ahead
      <3>5. \A x \in Threads : SameDrop(x)
        <4>1. (\A x \in Threads : x # t => th'[x] = th[x]) /\ th'[t].pc # "drop"
          BY Zenon, <2>2, IdleWant DEF LogLast, MemInv, ThreadTypes
        <4> QED BY Zenon, <4>1, <1>OtherDrops
      <3> QED BY Zenon, <1>1, <1>3, <3>1, <3>4, <3>5, <1>StaleAssigned
    <2>3. CASE zil_async_to_sync(t) \/ zil_get_commit_list(t)
      <3>1. UNCHANGED <<groupVars, synced, records>> /\ th' = [th EXCEPT ![t].walk = @ + 1] /\ th[t].pc # "drop"
        BY Zenon, <2>3 DEF zil_async_to_sync, zil_get_commit_list, groupVars
      <3>2. (\A x \in Threads : x # t => th'[x] = th[x]) /\ th'[t].pc # "drop"
        BY <3>1 DEF MemInv, ThreadTypes, ThreadType
      <3>3. \A x \in Threads : SameDrop(x)
        BY Zenon, <3>2, <1>OtherDrops
      <3>4. CASE UNCHANGED itxg
        BY Zenon, <1>4, <3>1, <3>3, <3>4
      <3>5. synced' \in Nat /\ synced <= synced'
        BY <3>1 DEF MemInv, ThreadTypes
      <3>6. ASSUME NEW s \in Slots, NEW q, NEW os, MovedTo(s, q, os) PROVE \A o \in Objs : AsyncKept(o)
        BY Zenon, <3>6 DEF MovedTo, AsyncKept
      <3>7. ASSUME NEW s \in Slots, CollectedFrom(s) PROVE \A o \in Objs : AsyncKept(o)
        BY Zenon, <3>7 DEF CollectedFrom, AsyncKept
      <3>8. th[t].walk % TXG_SIZE \in Slots
        BY SlotOf DEF MemInv, ThreadTypes, ThreadType
      <3>9. CASE \A o \in Objs : AsyncKept(o)
        BY Zenon, <1>1, <3>1, <3>3, <3>5, <3>9, <1>StaleKept
      <3>10. CASE zil_async_to_sync(t)
        BY Zenon, <3>4, <3>6, <3>8, <3>9, <3>10, MoveShape
      <3>11. CASE zil_get_commit_list(t)
        BY Zenon, <3>4, <3>7, <3>8, <3>9, <3>11, CollectShape
      <3> QED BY Zenon, <2>3, <3>10, <3>11
    <2>4. CASE Enter(t) \/ Woken(t) \/ zil_commit_writer(t)
      <3>1. UNCHANGED <<itxg, synced, records>>
        BY Zenon, <2>4 DEF Enter, Woken, zil_commit_writer, itxVars, groupVars
      <3>2. ASSUME NEW pc, NEW b, Turned(t, pc, b), pc # "drop" PROVE StaleInv'
        BY Zenon, <1>4, <3>1, <3>2, <1>OtherDrops DEF Turned
      <3>3. CASE th' = [th EXCEPT ![t] = Idle]
        <4>1. (\A x \in Threads : x # t => th'[x] = th[x]) /\ th'[t].pc # "drop"
          BY <3>3, IdleWant DEF MemInv, ThreadTypes
        <4> QED BY Zenon, <1>4, <3>1, <4>1, <1>OtherDrops
      <3>4. CASE th' = th
        BY Zenon, <1>4, <3>1, <3>4 DEF SameDrop
      <3>5. "collect" # "drop" /\ "waiting" # "drop" /\ "written" # "drop"
        OBVIOUS
      <3> QED BY Zenon, <2>4, <3>2, <3>3, <3>4, <3>5, EnterTurns, WokenTurns, WriterTurns
    <2>5. CASE CommitDone(t)
      <3>1. UNCHANGED <<itxg, synced, records>>
        BY Zenon, <2>5 DEF CommitDone, itxVars, groupVars
      <3>2. PICK woken : th' = [x \in Threads |-> IF x = t THEN Idle
                                 ELSE IF x \in woken THEN [th[x] EXCEPT !.pc = "woken"] ELSE th[x]]
        BY Zenon, <2>5 DEF CommitDone
      <3>3. \A x \in Threads : SameDrop(x)
        BY <3>2, IdleWant DEF SameDrop, MemInv, ThreadTypes, ThreadType
      <3> QED BY Zenon, <1>4, <3>1, <3>3
    <2> QED BY Zenon, <1>10, <2>1, <2>2, <2>3, <2>4, <2>5 DEF Running
  <1> QED BY <1>1, <1>5, <1>6, <1>7, <1>8, <1>9, <1>10 DEF Next

-----------------------------------------------------------------------------
(* Groups and records.                                                     *)

\* A thread that removes or renames keeps its group and its object.
SameTx(x) ==
    th'[x].pc \in {"drop", "move"} =>
        /\ th'[x].pc = th[x].pc /\ th'[x].txg = th[x].txg /\ th'[x].kind = th[x].kind
        /\ th'[x].obj = th[x].obj /\ th'[x].oid = th[x].oid

\* A thread wants nothing new.
SameWant(x) == th'[x].want \subseteq th[x].want

\* The groups and the records stay right, whatever happens.
LEMMA NextGroup == ASSUME MemInv, Next PROVE GroupInv' /\ RecordInv'
  \* Threads that do not start keep what GroupInv says of them.
  <1>SameGroup.
    ASSUME UNCHANGED <<workload, groupVars>>, exists' \subseteq Objs, \A x \in Threads : SameTx(x)
    PROVE  GroupInv'
    BY Zenon, <1>SameGroup DEF MemInv, GroupInv, SameTx, groupVars, Ztest, MaxTxg
  \* No record is logged.
  <1>SameRecords.
    ASSUME UNCHANGED <<records, ops, open>>, \A x \in Threads : SameWant(x),
           acked' \subseteq acked \cup UNION {th[x].want : x \in Threads}
    PROVE  RecordInv'
    BY <1>SameRecords DEF MemInv, RecordInv, SameWant
  \* A record is logged.
  <1>MoreRecords.
    ASSUME NEW rec, NEW sync, Assigned(rec, sync), UNCHANGED acked, \A x \in Threads : SameWant(x)
    PROVE  RecordInv'
    <2> USE <1>MoreRecords
    <2>1. /\ rec \in Rec /\ rec.id = ops + 1 /\ rec.txg <= open /\ records' = records \cup {rec}
          /\ ops' = ops + 1 /\ open' = open /\ ops \in Nat
      BY Zenon DEF Assigned, groupVars, MemInv, ThreadTypes
    <2>2. records' \subseteq Rec
      BY Zenon, <2>1 DEF MemInv, RecordInv
    <2>3. \A r \in records' : r.id <= ops' /\ r.txg <= open'
      BY <2>1 DEF MemInv, RecordInv, Rec
    <2>6. \A r, q \in records' : r.id = q.id => r = q
      BY <2>1 DEF MemInv, RecordInv, Rec
    <2>4. 0 .. ops \subseteq 0 .. ops'
      BY <2>1
    <2>5. acked' \subseteq 0 .. ops' /\ \A t \in Threads : th'[t].want \subseteq 0 .. ops'
      BY Zenon, <2>4 DEF MemInv, RecordInv, SameWant
    <2> QED BY Zenon, <2>2, <2>3, <2>5, <2>6 DEF RecordInv
  \* One more step of a walk, or one more state of a thread.
  <1>WalkSame.
    ASSUME NEW t \in Threads, th' = [th EXCEPT ![t].walk = @ + 1]
    PROVE  \A x \in Threads : SameTx(x) /\ SameWant(x)
    BY <1>WalkSame DEF MemInv, ThreadTypes, ThreadType, SameTx, SameWant
  \* A thread that becomes idle wants nothing.
  <1>IdleSame.
    ASSUME NEW t \in Threads, th' = [th EXCEPT ![t] = Idle]
    PROVE  \A x \in Threads : SameTx(x) /\ SameWant(x)
    BY <1>IdleSame, IdleWant DEF MemInv, ThreadTypes, ThreadType, SameTx, SameWant
  \* A thread that changes its state only wants what it wanted.
  <1>StateSame.
    ASSUME NEW t \in Threads, \A x \in Threads : x # t => th'[x] = th[x], th'[t].want = th[t].want,
           th'[t].pc \in Batched
    PROVE  \A x \in Threads : SameTx(x) /\ SameWant(x)
    BY <1>StateSame DEF SameTx, SameWant, Batched, Writing
  \* A removal or renaming starts with the open group.
  <1>StartGroup.
    ASSUME NEW t \in Threads, NEW o \in Objs, RemoveObj(t, o) \/ Rename(t, o), UNCHANGED workload
    PROVE  GroupInv' /\ RecordInv'
    <2> USE <1>StartGroup
    <2>1. PICK pc \in {"drop", "move"}, kind \in {"remove", "rename"}, oid \in ItxOid(o) :
            /\ th' = [th EXCEPT ![t] = [Idle EXCEPT !.pc = pc, !.kind = kind, !.obj = o, !.oid = oid,
                                                    !.txg = open, !.walk = synced + 1,
                                                    !.end = synced + TXG_CONCURRENT_STATES]]
            /\ Ztest => pc = "drop"
      BY Zenon DEF RemoveObj, Rename, Start
    <2>2. /\ \A x \in Threads : x # t => th'[x] = th[x]
          /\ th'[t].pc = pc /\ th'[t].kind = kind /\ th'[t].obj = o /\ th'[t].oid = oid /\ th'[t].txg = open
          /\ th'[t].want = {}
      BY <2>1 DEF Idle, MemInv, ThreadTypes
    <2>3. UNCHANGED <<groupVars, ops, records, acked, open, synced, cleaning>> /\ exists' \subseteq Objs
      BY Zenon DEF RemoveObj, Rename, Start, groupVars, MemInv, GroupInv
    <2>4. Ztest => oid = o
      BY Zenon DEF ItxOid
    <2>5. synced < open /\ open <= open
      BY DEF MemInv, GroupInv, ThreadTypes
    <2>6. GroupInv'
      <3>1. ASSUME NEW x \in Threads, th'[x].pc \in {"drop", "move"}
            PROVE  /\ synced < th'[x].txg /\ th'[x].txg <= open /\ th'[x].kind # "none" /\ th'[x].obj \in Objs
                   /\ Ztest => th'[x].pc = "drop" /\ th'[x].oid = th'[x].obj
        <4>1. CASE x = t
          BY <2>1, <2>2, <2>4, <2>5, <4>1
        <4>2. CASE x # t
          BY Zenon, <2>2, <3>1, <4>2 DEF MemInv, GroupInv
        <4> QED BY Zenon, <4>1, <4>2
      <3> QED BY Zenon, <2>3, <3>1 DEF MemInv, GroupInv, Ztest, MaxTxg
    <2>7. \A x \in Threads : SameWant(x)
      BY Zenon, <2>2 DEF SameWant
    <2>8. RecordInv'
      BY Zenon, <2>3, <2>7, <1>SameRecords
    <2> QED BY Zenon, <2>6, <2>8
  \* A commit starts, for records that there are.
  <1>CommitStartGroup.
    ASSUME NEW t \in Threads, NEW o \in Objs \cup {NoObj}, CommitStart(t, o), UNCHANGED workload
    PROVE  GroupInv' /\ RecordInv'
    <2> USE <1>CommitStartGroup
    <2>1. /\ \A x \in Threads : x # t => th'[x] = th[x]
          /\ th'[t].pc = "tosync" /\ th'[t].want = Wanted(o)
      BY DEF CommitStart, Idle, MemInv, ThreadTypes
    <2>2. UNCHANGED <<groupVars, ops, records, acked, open>> /\ exists' \subseteq Objs
      BY Zenon DEF CommitStart, groupVars, MemInv, GroupInv
    <2>3. \A x \in Threads : SameTx(x)
      BY <2>1 DEF SameTx
    <2>4. GroupInv'
      BY Zenon, <2>2, <2>3, <1>SameGroup
    <2>5. Wanted(o) \subseteq 0 .. ops
      BY DEF Wanted, MemInv, RecordInv, Rec, ThreadTypes
    <2>6. \A x \in Threads : th'[x].want \subseteq 0 .. ops
      BY Zenon, <2>1, <2>5 DEF MemInv, RecordInv
    <2>7. RecordInv'
      BY Zenon, <2>2, <2>6 DEF MemInv, RecordInv
    <2> QED BY Zenon, <2>4, <2>7
  <1>1. UNCHANGED workload /\ workload.threads \subseteq Threads
    BY ZilCommitAssumption DEF Next, MemInv, ThreadTypes
  <1>2. exists \subseteq Objs
    BY Zenon DEF MemInv, GroupInv
  <1>3. CASE Quiesce \/ Synced
    <2>1. UNCHANGED <<exists, th, ops, records, acked>>
      BY Zenon, <1>3 DEF Quiesce, Synced
    <2>2. open \in Nat /\ synced \in Nat /\ TXG_CONCURRENT_STATES \in Nat /\ \A t \in Threads : th[t].txg \in Nat
      BY ZilCommitAssumption DEF MemInv, ThreadTypes, ThreadType
    <2>3. /\ synced' < open' /\ open' <= MaxTxg /\ open' <= synced' + TXG_CONCURRENT_STATES
          /\ cleaning' \in BOOLEAN /\ open <= open' /\ open' \in Nat
      <3>1. MaxTxg \in Nat
        BY ZilCommitAssumption DEF MaxTxg, MemInv, ThreadTypes
      <3>2. CASE Quiesce
        BY <2>2, <3>1, <3>2 DEF Quiesce, MemInv, GroupInv
      <3>3. CASE Synced
        BY <2>2, <3>1, <3>3 DEF Synced, MemInv, GroupInv
      <3> QED BY Zenon, <1>3, <3>2, <3>3
    <2>4. ASSUME NEW t \in Threads, th[t].pc \in {"drop", "move"} PROVE synced' < th[t].txg /\ th[t].txg <= open'
      <3>1. synced < th[t].txg /\ th[t].txg <= open
        BY Zenon, <2>4 DEF MemInv, GroupInv
      <3>2. CASE Quiesce
        BY <2>2, <3>1, <3>2 DEF Quiesce
      <3>3. CASE Synced
        BY <2>2, <3>1, <3>3 DEF Synced
      <3> QED BY Zenon, <1>3, <3>2, <3>3
    <2>5. GroupInv'
      BY Zenon, <1>1, <2>1, <2>3, <2>4 DEF MemInv, GroupInv, Ztest, MaxTxg
    <2>6. \A r \in records : r.txg <= open'
      BY <2>2, <2>3 DEF MemInv, RecordInv, Rec
    <2>7. RecordInv'
      BY Zenon, <2>1, <2>6 DEF MemInv, RecordInv
    <2> QED BY Zenon, <2>5, <2>7
  <1>4. CASE zil_clean
    <2>1. UNCHANGED <<exists, th, ops, records, acked, open, synced>> /\ cleaning' = FALSE
      BY Zenon, <1>4 DEF zil_clean
    <2>2. GroupInv'
      BY Zenon, <1>1, <2>1 DEF MemInv, GroupInv, Ztest, MaxTxg
    <2>3. RecordInv'
      BY Zenon, <2>1 DEF MemInv, RecordInv
    <2> QED BY Zenon, <2>2, <2>3
  <1>5. ASSUME NEW t \in Threads, NEW o \in Objs, Create(t, o) \/ Write(t, o) PROVE GroupInv' /\ RecordInv'
    <2>1. PICK kind \in {"create", "write"}, sync \in BOOLEAN : Assigned(Record(kind, o), sync)
      BY Zenon, <1>1, <1>5, LogOneAssigns
    <2>2. exists' \subseteq Objs /\ UNCHANGED <<th, acked, groupVars>>
      BY Zenon, <1>1, <1>5, LogOneAssigns
    <2>3. \A x \in Threads : SameTx(x) /\ SameWant(x)
      BY Zenon, <2>2 DEF SameTx, SameWant
    <2> QED BY Zenon, <1>1, <2>1, <2>2, <2>3, <1>SameGroup, <1>MoreRecords
  <1>6. ASSUME NEW t \in Threads, NEW o \in Objs, RemoveObj(t, o) \/ Rename(t, o) PROVE GroupInv' /\ RecordInv'
    BY Zenon, <1>1, <1>6, <1>StartGroup
  <1>7. ASSUME NEW t \in Threads, NEW o \in Objs \cup {NoObj}, CommitStart(t, o) PROVE GroupInv' /\ RecordInv'
    BY Zenon, <1>1, <1>7, <1>CommitStartGroup
  <1>8. ASSUME NEW t \in Threads, Running(t) PROVE GroupInv' /\ RecordInv'
    <2>1. ASSUME UNCHANGED <<groupVars, exists, ops, records>>, \A x \in Threads : SameTx(x) /\ SameWant(x),
                 acked' \subseteq acked \cup th[t].want
          PROVE  GroupInv' /\ RecordInv'
      <3>1. acked' \subseteq acked \cup UNION {th[x].want : x \in Threads} /\ open' = open
        BY Zenon, <2>1 DEF groupVars
      <3> QED BY Zenon, <1>1, <1>2, <2>1, <3>1, <1>SameGroup, <1>SameRecords
    <2>2. CASE zil_remove_async(t) \/ zil_async_to_sync(t) \/ zil_get_commit_list(t)
      <3>1. UNCHANGED <<groupVars, exists, ops, records, acked>> /\ th' = [th EXCEPT ![t].walk = @ + 1]
        BY Zenon, <2>2 DEF zil_remove_async, zil_async_to_sync, zil_get_commit_list
      <3> QED BY Zenon, <2>1, <3>1, <1>WalkSame
    <2>3. CASE LogLast(t)
      <3>1. UNCHANGED <<groupVars, exists, acked>> /\ th' = [th EXCEPT ![t] = Idle]
        BY Zenon, <2>3 DEF LogLast
      <3> QED BY Zenon, <1>1, <1>2, <2>3, <3>1, <1>IdleSame, LogLastAssigns, <1>SameGroup, <1>MoreRecords
    <2>4. CASE Enter(t) \/ Woken(t) \/ zil_commit_writer(t)
      <3>1. UNCHANGED <<groupVars, exists, ops, records>> /\ acked' \subseteq acked \cup th[t].want
        BY Zenon, <2>4 DEF Enter, Woken, zil_commit_writer
      <3>2. CASE th' = [th EXCEPT ![t] = Idle]
        BY Zenon, <2>1, <3>1, <3>2, <1>IdleSame
      <3>3. CASE th' = th
        BY Zenon, <2>1, <3>1, <3>3 DEF SameTx, SameWant
      <3>4. ASSUME NEW pc \in Batched, NEW b, Turned(t, pc, b) PROVE GroupInv' /\ RecordInv'
        BY Zenon, <2>1, <3>1, <3>4, <1>StateSame DEF Turned
      <3>5. "collect" \in Batched /\ "waiting" \in Batched /\ "written" \in Batched
        BY DEF Batched, Writing
      <3> QED BY Zenon, <2>4, <3>2, <3>3, <3>4, <3>5, EnterTurns, WokenTurns, WriterTurns
    <2>5. CASE CommitDone(t)
      <3>1. UNCHANGED <<groupVars, exists, ops, records>> /\ acked' \subseteq acked \cup th[t].want
        BY Zenon, <2>5 DEF CommitDone
      <3>2. PICK woken : th' = [x \in Threads |-> IF x = t THEN Idle
                                 ELSE IF x \in woken THEN [th[x] EXCEPT !.pc = "woken"] ELSE th[x]]
        BY Zenon, <2>5 DEF CommitDone
      <3>3. \A x \in Threads : SameTx(x) /\ SameWant(x)
        BY <3>2, IdleWant DEF SameTx, SameWant, MemInv, ThreadTypes, ThreadType
      <3> QED BY Zenon, <2>1, <3>1, <3>3
    <2> QED BY Zenon, <1>8, <2>2, <2>3, <2>4, <2>5 DEF Running
  <1> QED BY <1>1, <1>3, <1>4, <1>5, <1>6, <1>7, <1>8 DEF Next

-----------------------------------------------------------------------------
(* What a commit promises.                                                 *)

\* No record falls back, or is lost.
Progress ==
    /\ dropped \subseteq dropped'
    /\ \A r \in records :
         /\ Logged(r) => Logged(r)'
         /\ Listed(r) => Listed(r)'
         /\ Stored(r) => Stored(r)'
         /\ Ztest /\ InAsync(r) => Stored(r)' \/ r.id \in dropped' \/ InAsync(r)'

\* The parts of WantInv: what has been promised, what thread t wants, and what
\* writer w does for thread t.
AckedLogged == \A r \in records : r.id \in acked \ dropped => Logged(r)

Wants(t) ==
    \A r \in records : r.id \in th[t].want \ dropped =>
         /\ th[t].pc = "tosync" => /\ r.txg <= th[t].end /\ (r.kind = "write" => th[t].oid \in {NoObj, r.obj})
                                   /\ r.txg < th[t].walk => Stored(r)
         /\ th[t].pc \in Batched => Stored(r) /\ (th[t].batch <= com_batch => Logged(r))

Writes(w, t) ==
    \A r \in records :
         /\ th[w].pc \in Writing /\ th[t].pc \in Batched /\ th[t].batch <= th[w].batch
         /\ r.id \in th[t].want \ dropped
         => /\ th[w].pc = "collect" => r.txg <= th[w].end /\ (r.txg < th[w].walk => Listed(r))
            /\ th[w].pc = "written" => Logged(r)

Parts == AckedLogged /\ (\A t \in Threads : Wants(t)) /\ \A w, t \in Threads : Writes(w, t)

\* The records a step adds are not wanted by anybody.
Fresh == \A r \in records' \ records : r.id \notin acked /\ \A x \in Threads : r.id \notin th[x].want

\* A thread is as it was, or does not commit.
Still(x) == th'[x] = th[x] \/ th'[x].pc \in {"idle", "drop", "move"}

\* The steps of a commit reach every record of the slot they are at.
Reaches ==
    \A t \in Threads : \A r \in records :
      /\ zil_async_to_sync(t) /\ th[t].oid \in {NoObj, r.obj} /\ r.txg = th[t].walk /\ InAsync(r) => Stored(r)'
      /\ zil_get_commit_list(t) /\ r.txg = th[t].walk /\ Stored(r) => Listed(r)'

\* What is promised of the records that commits are for is kept.
LEMMA NextWant == ASSUME MemInv, BatchInv, WantInv, Next, Progress, Reaches PROVE WantInv'
  \* WantInv by its parts.
  <1>WantParts. WantInv <=> (Ztest => Parts)
    BY Zenon DEF WantInv, Parts, AckedLogged, Wants, Writes
  <1>WantPartsNext. ASSUME Ztest => Parts', UNCHANGED workload PROVE WantInv'
    BY Zenon, <1>WantPartsNext DEF WantInv, Parts, AckedLogged, Wants, Writes, Ztest
  \* A record that was just assigned is wanted by nobody.
  <1>NewFresh.
    ASSUME NEW rec, NEW sync, Assigned(rec, sync)
    PROVE  Fresh
    <2> USE <1>NewFresh
    <2>1. rec.id = ops + 1 /\ records' = records \cup {rec}
      BY Zenon DEF Assigned
    <2>2. ops + 1 \notin 0 .. ops
      BY DEF MemInv, ThreadTypes
    <2> QED BY Zenon, <2>1, <2>2 DEF Fresh, MemInv, RecordInv
  \* Who returns from a commit has all it wants in the log.
  <1>AckedKept.
    ASSUME Progress, Fresh, AckedLogged, NEW t \in Threads,
           acked' = acked \/ (acked' = acked \cup th[t].want
                              /\ \A r \in records : r.id \in th[t].want \ dropped => Logged(r))
    PROVE  AckedLogged'
    <2> USE <1>AckedKept
    <2> SUFFICES ASSUME NEW r \in records', r.id \in acked', r.id \notin dropped' PROVE Logged(r)'
      BY Zenon DEF AckedLogged
    <2>1. r \in records
      BY DEF Fresh
    <2>2. Logged(r)
      BY <2>1 DEF AckedLogged, Progress
    <2> QED BY Zenon, <2>1, <2>2 DEF Progress
  \* Nobody returns from a commit.
  <1>AckedSame.
    ASSUME Fresh, AckedLogged, UNCHANGED acked
    PROVE  AckedLogged'
    BY <1>AckedSame DEF AckedLogged, Fresh, Progress
  \* Threads that do not commit.
  <1>Quiet. {"idle", "drop", "move"} \cap (Batched \cup {"tosync"}) = {}
    BY DEF Batched, Writing
  \* What a thread wants stays as reachable as it was,
  <1>WantsKept.
    ASSUME Fresh, NEW t \in Threads, Still(t), Wants(t), com_batch' = com_batch
    PROVE  Wants(t)'
    <2> USE <1>WantsKept
    <2>1. CASE th'[t].pc \in {"idle", "drop", "move"}
      <3>1. th'[t].pc # "tosync" /\ th'[t].pc \notin Batched
        BY Zenon, <2>1, <1>Quiet
      <3> QED BY Zenon, <3>1 DEF Wants
    <2>2. CASE th'[t] = th[t]
      <3>1. ASSUME NEW r \in records', r.id \in th[t].want, r.id \notin dropped'
            PROVE  r \in records /\ r.id \in th[t].want \ dropped
        BY Zenon, <3>1 DEF Fresh, Progress
      <3> QED BY Zenon, <2>2, <3>1 DEF Wants, Progress
    <2> QED BY Zenon, <2>1, <2>2 DEF Still
  \* and what a writer has done for it stays done.
  <1>WritesKept.
    ASSUME Fresh, NEW w \in Threads, NEW t \in Threads, Writes(w, t), th'[w] = th[w],
           th[t].pc \in Batched, th'[t].batch = th[t].batch, th'[t].want = th[t].want
    PROVE  Writes(w, t)'
    <2> USE <1>WritesKept
    <2>1. ASSUME NEW r \in records', r.id \in th[t].want, r.id \notin dropped'
          PROVE  r \in records /\ r.id \in th[t].want \ dropped
      BY Zenon, <2>1 DEF Fresh, Progress
    <2> QED BY Zenon, <2>1 DEF Writes, Progress
  \* The same when both go on as they were, or do not commit.
  <1>WritesStill.
    ASSUME Fresh, NEW w \in Threads, NEW t \in Threads, Writes(w, t), Still(w), Still(t)
    PROVE  Writes(w, t)'
    <2> USE <1>WritesStill
    <2>1. CASE th'[w].pc \notin Writing \/ th'[t].pc \notin Batched
      BY Zenon, <2>1 DEF Writes
    <2>2. CASE th'[w].pc \in Writing /\ th'[t].pc \in Batched
      <3>1. th'[w] = th[w] /\ th'[t] = th[t]
        BY Zenon, <2>2, <1>Quiet DEF Still, Batched
      <3> QED BY Zenon, <2>2, <3>1, <1>WritesKept
    <2> QED BY Zenon, <2>1, <2>2
  \* Steps of threads that do not commit, and of the rest of the system.
  <1>PartsKept.
    ASSUME Fresh, Parts, \A x \in Threads : Still(x), com_batch' = com_batch, AckedLogged'
    PROVE  Parts'
    BY Zenon, <1>PartsKept, <1>WantsKept, <1>WritesStill DEF Parts
  \* A record in the groups that are open or syncing is in the walk that starts.
  <1>InWalk.
    ASSUME NEW r \in records
    PROVE  r.txg <= synced + TXG_CONCURRENT_STATES /\ (r.txg < synced + 1 => Logged(r))
    <2> USE <1>InWalk
    <2>1. r.txg \in Nat /\ synced \in Nat /\ open \in Nat /\ TXG_CONCURRENT_STATES \in Nat
      BY ZilCommitAssumption DEF MemInv, RecordInv, Rec, ThreadTypes
    <2>2. r.txg <= open /\ open <= synced + TXG_CONCURRENT_STATES
      BY Zenon DEF MemInv, RecordInv, GroupInv
    <2>3. r.txg < synced + 1 => r.txg <= synced
      BY <2>1
    <2> QED BY <2>1, <2>2, <2>3 DEF Logged
  \* A commit starts.
  <1>PartsStart.
    ASSUME Parts, NEW t \in Threads, NEW o \in Objs \cup {NoObj}, CommitStart(t, o)
    PROVE  Parts'
    <2> USE <1>PartsStart
    <2>1. /\ \A x \in Threads : x # t => th'[x] = th[x]
          /\ th'[t].pc = "tosync" /\ th'[t].want = Wanted(o) /\ th'[t].oid = o
          /\ th'[t].walk = synced + 1 /\ th'[t].end = synced + TXG_CONCURRENT_STATES
      BY DEF CommitStart, Idle, MemInv, ThreadTypes
    <2>2. UNCHANGED <<records, com_batch, acked>>
      BY Zenon DEF CommitStart, batchVars
    <2>3. Fresh
      BY Zenon, <2>2 DEF Fresh
    <2>4. AckedLogged'
      BY Zenon, <2>2, <2>3, <1>AckedKept DEF Parts
    <2>5. "tosync" \notin Batched /\ "tosync" \notin Writing
      BY DEF Batched, Writing
    <2>6. Wants(t)'
      <3> SUFFICES ASSUME NEW r \in records, r.id \in Wanted(o)
                   PROVE  /\ r.txg <= synced + TXG_CONCURRENT_STATES /\ (r.kind = "write" => o \in {NoObj, r.obj})
                          /\ r.txg < synced + 1 => Stored(r)'
        BY Zenon, <2>1, <2>2, <2>5 DEF Wants
      <3>1. r.kind = "write" => o \in {NoObj, r.obj}
        <4>1. PICK x \in records : x.id = r.id /\ (o = NoObj \/ x.obj = o \/ x.kind # "write")
          BY Zenon DEF Wanted
        <4>2. x = r
          BY Zenon, <4>1 DEF MemInv, RecordInv
        <4> QED BY Zenon, <4>1, <4>2
      <3>2. r.txg < synced + 1 => Stored(r)'
        BY Zenon, <1>InWalk DEF Progress, Stored, Listed
      <3> QED BY Zenon, <3>1, <3>2, <1>InWalk
    <2>7. ASSUME NEW x \in Threads, x # t PROVE Wants(x)'
      BY Zenon, <2>1, <2>2, <2>3, <2>7, <1>WantsKept DEF Parts, Still
    <2>8. ASSUME NEW w \in Threads, NEW x \in Threads PROVE Writes(w, x)'
      <3>1. CASE w = t \/ x = t
        BY Zenon, <2>1, <2>5, <3>1 DEF Writes
      <3>2. CASE w # t /\ x # t
        BY Zenon, <2>1, <2>3, <3>2, <1>WritesStill DEF Parts, Still
      <3> QED BY Zenon, <3>1, <3>2
    <2> QED BY Zenon, <2>4, <2>6, <2>7, <2>8 DEF Parts
  \* One slot of zil_async_to_sync() of a commit.
  <1>PartsMove.
    ASSUME Parts, Ztest, NEW t \in Threads, zil_async_to_sync(t), UNCHANGED workload
    PROVE  Parts'
    <2> USE <1>PartsMove
    <2>1. /\ \A x \in Threads : x # t => th'[x] = th[x]
          /\ th'[t].pc = th[t].pc /\ th'[t].want = th[t].want /\ th'[t].oid = th[t].oid
          /\ th'[t].walk = th[t].walk + 1 /\ th'[t].end = th[t].end /\ th[t].walk \in Nat
      BY DEF zil_async_to_sync, MemInv, ThreadTypes, ThreadType
    <2>2. UNCHANGED <<records, com_batch, acked>> /\ th[t].pc \in {"tosync", "move"}
      BY Zenon DEF zil_async_to_sync, batchVars
    <2>3. Fresh
      BY Zenon, <2>2 DEF Fresh
    <2>4. AckedLogged'
      BY Zenon, <2>2, <2>3, <1>AckedKept DEF Parts
    <2>5. th'[t].pc \notin Batched /\ th'[t].pc \notin Writing
      BY <2>1, <2>2 DEF Batched, Writing
    <2>6. Wants(t)'
      <3> SUFFICES ASSUME NEW r \in records, r.id \in th[t].want, r.id \notin dropped', th[t].pc = "tosync"
                   PROVE  /\ r.txg <= th[t].end /\ (r.kind = "write" => th[t].oid \in {NoObj, r.obj})
                          /\ r.txg < th[t].walk + 1 => Stored(r)'
        BY Zenon, <2>1, <2>2, <2>5 DEF Wants
      <3>1. r.id \notin dropped
        BY Zenon DEF Progress
      <3>2. /\ r.txg <= th[t].end /\ (r.kind = "write" => th[t].oid \in {NoObj, r.obj})
            /\ r.txg < th[t].walk => Stored(r)
        BY Zenon, <3>1 DEF Parts, Wants
      <3>3. ASSUME r.txg = th[t].walk PROVE Stored(r)'
        <4>1. CASE Stored(r)
          BY Zenon, <4>1 DEF Progress
        <4>2. CASE ~Stored(r)
          <5>1. r.kind = "write" /\ InAsync(r)
            BY Zenon, <3>1, <4>2 DEF MemInv, PlaceInv
          <5> QED BY Zenon, <3>2, <3>3, <5>1 DEF Reaches
        <4> QED BY Zenon, <4>1, <4>2
      <3>4. r.txg < th[t].walk + 1 => r.txg < th[t].walk \/ r.txg = th[t].walk
        BY <2>1 DEF MemInv, RecordInv, Rec
      <3> QED BY Zenon, <3>2, <3>3, <3>4 DEF Progress
    <2>7. ASSUME NEW x \in Threads, x # t PROVE Wants(x)'
      BY Zenon, <2>1, <2>2, <2>3, <2>7, <1>WantsKept DEF Parts, Still
    <2>8. ASSUME NEW w \in Threads, NEW x \in Threads PROVE Writes(w, x)'
      <3>1. CASE w = t \/ x = t
        BY Zenon, <2>5, <3>1 DEF Writes
      <3>2. CASE w # t /\ x # t
        BY Zenon, <2>1, <2>3, <3>2, <1>WritesStill DEF Parts, Still
      <3> QED BY Zenon, <3>1, <3>2
    <2> QED BY Zenon, <2>4, <2>6, <2>7, <2>8 DEF Parts
  \* A thread becomes the writer.
  <1>PartsWriter.
    ASSUME Parts, NEW t \in Threads, NEW b, ~writer, Turned(t, "collect", b),
           UNCHANGED <<records, com_batch, acked>>,
           \A r \in records : r.id \in th[t].want \ dropped => Stored(r) /\ (b <= com_batch => Logged(r))
    PROVE  Parts'
    <2> USE <1>PartsWriter
    <2>1. /\ \A x \in Threads : x # t => th'[x] = th[x]
          /\ th'[t].pc = "collect" /\ th'[t].batch = b /\ th'[t].want = th[t].want
          /\ th'[t].walk = synced + 1 /\ th'[t].end = synced + TXG_CONCURRENT_STATES
      BY Zenon DEF Turned
    <2>2. Fresh
      BY Zenon DEF Fresh
    <2>3. AckedLogged'
      BY Zenon, <2>2, <1>AckedKept DEF Parts
    <2>4. "collect" # "tosync" /\ "collect" # "written"
      OBVIOUS
    <2>5. Wants(t)'
      BY Zenon, <2>1, <2>4 DEF Wants, Progress
    <2>6. ASSUME NEW x \in Threads, x # t PROVE Wants(x)'
      BY Zenon, <2>1, <2>2, <2>6, <1>WantsKept DEF Parts, Still
    <2>7. ASSUME NEW w \in Threads, NEW x \in Threads PROVE Writes(w, x)'
      <3>1. CASE w = t
        <4>1. \A r \in records : r.txg <= synced + TXG_CONCURRENT_STATES /\ (r.txg < synced + 1 => Listed(r)')
          BY Zenon, <1>InWalk DEF Progress, Listed
        <4> QED BY Zenon, <2>1, <2>4, <3>1, <4>1 DEF Writes
      <3>2. CASE w # t
        <4>1. th'[w].pc \notin Writing
          BY Zenon, <2>1, <3>2 DEF BatchInv
        <4> QED BY Zenon, <4>1 DEF Writes
      <3> QED BY Zenon, <3>1, <3>2
    <2> QED BY Zenon, <2>3, <2>5, <2>6, <2>7 DEF Parts
  \* A thread waits for a writer.
  <1>PartsWait.
    ASSUME Parts, NEW t \in Threads, NEW b, Turned(t, "waiting", b),
           UNCHANGED <<records, com_batch, acked>>,
           \A r \in records : r.id \in th[t].want \ dropped => Stored(r) /\ (b <= com_batch => Logged(r)),
           (th[t].pc \in Batched /\ b = th[t].batch) \/ \A w \in Threads : th[w].pc \in Writing => ~(b <= th[w].batch)
    PROVE  Parts'
    <2> USE <1>PartsWait
    <2>1. /\ \A x \in Threads : x # t => th'[x] = th[x]
          /\ th'[t].pc = "waiting" /\ th'[t].batch = b /\ th'[t].want = th[t].want
      BY Zenon DEF Turned
    <2>2. Fresh
      BY Zenon DEF Fresh
    <2>3. AckedLogged'
      BY Zenon, <2>2, <1>AckedKept DEF Parts
    <2>4. "waiting" # "tosync" /\ "waiting" \notin Writing
      BY DEF Writing
    <2>5. Wants(t)'
      BY Zenon, <2>1, <2>4 DEF Wants, Progress
    <2>6. ASSUME NEW x \in Threads, x # t PROVE Wants(x)'
      BY Zenon, <2>1, <2>2, <2>6, <1>WantsKept DEF Parts, Still
    <2>7. ASSUME NEW w \in Threads, NEW x \in Threads PROVE Writes(w, x)'
      <3>1. CASE w = t
        BY Zenon, <2>1, <2>4, <3>1 DEF Writes
      <3>2. CASE w # t /\ x # t
        BY Zenon, <2>1, <2>2, <3>2, <1>WritesStill DEF Parts, Still
      <3>3. CASE w # t /\ x = t
        <4>1. CASE th[t].pc \in Batched /\ b = th[t].batch
          BY Zenon, <2>1, <2>2, <3>3, <4>1, <1>WritesKept DEF Parts
        <4>2. CASE \A v \in Threads : th[v].pc \in Writing => ~(b <= th[v].batch)
          BY Zenon, <2>1, <3>3, <4>2 DEF Writes
        <4> QED BY Zenon, <4>1, <4>2
      <3> QED BY Zenon, <3>1, <3>2, <3>3
    <2> QED BY Zenon, <2>3, <2>5, <2>6, <2>7 DEF Parts
  \* One slot of zil_get_commit_list().
  <1>PartsCollect.
    ASSUME Parts, NEW t \in Threads, zil_get_commit_list(t), UNCHANGED workload
    PROVE  Parts'
    <2> USE <1>PartsCollect
    <2>1. /\ \A x \in Threads : x # t => th'[x] = th[x]
          /\ th'[t].pc = th[t].pc /\ th'[t].want = th[t].want /\ th'[t].batch = th[t].batch
          /\ th'[t].walk = th[t].walk + 1 /\ th'[t].end = th[t].end /\ th[t].walk \in Nat
      BY DEF zil_get_commit_list, MemInv, ThreadTypes, ThreadType
    <2>2. UNCHANGED <<records, com_batch, acked>> /\ th[t].pc = "collect"
      BY Zenon DEF zil_get_commit_list, batchVars
    <2>3. Fresh
      BY Zenon, <2>2 DEF Fresh
    <2>4. AckedLogged'
      BY Zenon, <2>2, <2>3, <1>AckedKept DEF Parts
    <2>5. "collect" # "tosync" /\ "collect" # "written" /\ "collect" \in Batched
      BY DEF Batched, Writing
    <2>6. Wants(t)'
      BY Zenon, <2>1, <2>2, <2>5 DEF Parts, Wants, Progress
    <2>7. ASSUME NEW x \in Threads, x # t PROVE Wants(x)'
      BY Zenon, <2>1, <2>2, <2>3, <2>7, <1>WantsKept DEF Parts, Still
    <2>8. ASSUME NEW x \in Threads PROVE Writes(t, x)'
      <3>0. th'[x].pc = th[x].pc /\ th'[x].want = th[x].want /\ th'[x].batch = th[x].batch
        BY Zenon, <2>1
      <3> SUFFICES ASSUME NEW r \in records, th[t].pc \in Writing, th[x].pc \in Batched, th[x].batch <= th[t].batch,
                          r.id \in th[x].want, r.id \notin dropped'
                   PROVE  r.txg <= th[t].end /\ (r.txg < th[t].walk + 1 => Listed(r)')
        BY Zenon, <2>1, <2>2, <2>5, <3>0 DEF Writes
      <3>1. r.id \notin dropped
        BY Zenon DEF Progress
      <3>2. r.txg <= th[t].end /\ (r.txg < th[t].walk => Listed(r))
        BY Zenon, <2>2, <3>1 DEF Parts, Writes
      <3>3. Stored(r)
        BY Zenon, <3>1 DEF Parts, Wants
      <3>4. r.txg = th[t].walk => Listed(r)'
        BY Zenon, <3>3 DEF Reaches
      <3>5. r.txg < th[t].walk + 1 => r.txg < th[t].walk \/ r.txg = th[t].walk
        BY <2>1 DEF MemInv, RecordInv, Rec
      <3> QED BY Zenon, <3>2, <3>4, <3>5 DEF Progress
    <2>9. ASSUME NEW w \in Threads, w # t, NEW x \in Threads PROVE Writes(w, x)'
      <3>1. CASE x # t
        BY Zenon, <2>1, <2>3, <2>9, <3>1, <1>WritesStill DEF Parts, Still
      <3>2. CASE x = t
        BY Zenon, <2>1, <2>2, <2>3, <2>5, <2>9, <3>2, <1>WritesKept DEF Parts
      <3> QED BY Zenon, <3>1, <3>2
    <2> QED BY Zenon, <2>4, <2>6, <2>7, <2>8, <2>9 DEF Parts
  \* The writer has written the whole list.
  <1>PartsWritten.
    ASSUME Parts, NEW t \in Threads, th[t].pc = "collect", th[t].walk > th[t].end, list = <<>>,
           Turned(t, "written", th[t].batch), UNCHANGED <<records, com_batch, acked>>
    PROVE  Parts'
    <2> USE <1>PartsWritten
    <2>1. /\ \A x \in Threads : x # t => th'[x] = th[x]
          /\ th'[t].pc = "written" /\ th'[t].want = th[t].want /\ th'[t].batch = th[t].batch
      BY Zenon DEF Turned
    <2>2. Fresh
      BY Zenon DEF Fresh
    <2>3. AckedLogged'
      BY Zenon, <2>2, <1>AckedKept DEF Parts
    <2>4. /\ "written" # "tosync" /\ "written" # "collect" /\ "collect" \in Batched /\ "written" \in Batched
          /\ "collect" \in Writing
      BY DEF Batched, Writing
    <2>5. Wants(t)'
      BY Zenon, <2>1, <2>4 DEF Parts, Wants, Progress
    <2>6. ASSUME NEW x \in Threads, x # t PROVE Wants(x)'
      BY Zenon, <2>1, <2>2, <2>6, <1>WantsKept DEF Parts, Still
    <2>7. ASSUME NEW x \in Threads PROVE Writes(t, x)'
      <3>0. th'[x].want = th[x].want /\ th'[x].batch = th[x].batch /\ (th'[x].pc \in Batched => th[x].pc \in Batched)
        BY Zenon, <2>1, <2>4
      <3> SUFFICES ASSUME NEW r \in records, th[x].pc \in Batched, th[x].batch <= th[t].batch,
                          r.id \in th[x].want, r.id \notin dropped'
                   PROVE  Logged(r)'
        BY Zenon, <2>1, <2>4, <3>0 DEF Writes
      <3>1. r.id \notin dropped
        BY Zenon DEF Progress
      <3>2. r.txg <= th[t].end /\ (r.txg < th[t].walk => Listed(r))
        BY Zenon, <2>4, <3>1 DEF Parts, Writes
      <3>3. r.txg < th[t].walk
        BY <3>2 DEF MemInv, RecordInv, Rec, ThreadTypes, ThreadType
      <3>4. Range(<<>>) = {}
        BY EmptySeq
      <3>5. Logged(r)
        BY Zenon, <3>2, <3>3, <3>4 DEF Listed
      <3> QED BY Zenon, <3>5 DEF Progress
    <2>8. ASSUME NEW w \in Threads, w # t, NEW x \in Threads PROVE Writes(w, x)'
      <3>1. CASE x # t
        BY Zenon, <2>1, <2>2, <2>8, <3>1, <1>WritesStill DEF Parts, Still
      <3>2. CASE x = t
        BY Zenon, <2>1, <2>2, <2>4, <2>8, <3>2, <1>WritesKept DEF Parts
      <3> QED BY Zenon, <3>1, <3>2
    <2> QED BY Zenon, <2>3, <2>5, <2>6, <2>7, <2>8 DEF Parts
  \* The end of zil_commit() for the writer: what its batch wants is in the log.
  <1>PartsDone.
    ASSUME Parts, NEW t \in Threads, CommitDone(t)
    PROVE  Parts'
    <2> USE <1>PartsDone
    <2>1. PICK woken : /\ woken \subseteq {x \in Threads : th[x].pc = "waiting"}
                       /\ th' = [x \in Threads |-> IF x = t THEN Idle
                                  ELSE IF x \in woken THEN [th[x] EXCEPT !.pc = "woken"] ELSE th[x]]
      <3>1. PICK next \in Signal(th[t].batch + 1) :
              th' = [x \in Threads |-> IF x = t THEN Idle
                       ELSE IF x \in next \cup Broadcast(th[t].batch) THEN [th[x] EXCEPT !.pc = "woken"] ELSE th[x]]
        BY Zenon DEF CommitDone
      <3>2. next \cup Broadcast(th[t].batch) \subseteq {x \in Threads : th[x].pc = "waiting"}
        BY <3>1 DEF Signal, Broadcast, Waiting
      <3> QED BY Zenon, <3>1, <3>2
    <2>2. UNCHANGED records /\ acked' = acked \cup th[t].want /\ com_batch' = th[t].batch /\ th[t].pc = "written"
      BY Zenon DEF CommitDone
    <2>3. Fresh
      BY Zenon, <2>2 DEF Fresh
    <2>4. /\ "written" \in Batched /\ "written" \in Writing /\ "idle" \notin Batched \cup Writing
          /\ "waiting" \in Batched /\ "woken" \notin Writing /\ "woken" # "tosync" /\ "idle" # "tosync"
      BY DEF Batched, Writing
    <2>5. th[t].batch \in Nat
      BY DEF MemInv, ThreadTypes, ThreadType
    <2>6. ASSUME NEW x \in Threads, th[x].pc \in Batched, th[x].batch <= th[t].batch, NEW r \in records,
                 r.id \in th[x].want \ dropped
          PROVE  Logged(r)
      BY Zenon, <2>2, <2>4, <2>6 DEF Parts, Writes
    <2>7. AckedLogged'
      <3>1. th[t].batch <= th[t].batch
        BY <2>5
      <3>2. \A r \in records : r.id \in th[t].want \ dropped => Logged(r)
        BY Zenon, <2>2, <2>4, <2>6, <3>1
      <3> QED BY Zenon, <2>2, <2>3, <3>2, <1>AckedKept DEF Parts
    <2>8. th'[t].pc = "idle"
      BY <2>1, IdleWant
    <2>9. ASSUME NEW x \in Threads, x # t
          PROVE  \/ th'[x] = th[x]
                 \/ /\ th'[x].pc = "woken" /\ th[x].pc = "waiting" /\ th'[x].want = th[x].want
                    /\ th'[x].batch = th[x].batch
      BY <2>1, <2>9 DEF MemInv, ThreadTypes, ThreadType
    <2>10. ASSUME NEW x \in Threads PROVE Wants(x)'
      <3>1. CASE x = t
        BY Zenon, <2>4, <2>8, <3>1 DEF Wants
      <3>2. CASE x # t
        <4> SUFFICES ASSUME NEW r \in records, r.id \in th'[x].want, r.id \notin dropped'
                     PROVE  /\ th'[x].pc = "tosync" =>
                                 /\ r.txg <= th'[x].end /\ (r.kind = "write" => th'[x].oid \in {NoObj, r.obj})
                                 /\ r.txg < th'[x].walk => Stored(r)'
                            /\ th'[x].pc \in Batched => Stored(r)' /\ (th'[x].batch <= th[t].batch => Logged(r)')
          BY Zenon, <2>2 DEF Wants
        <4>1. r.id \notin dropped
          BY Zenon DEF Progress
        <4>2. th'[x].want = th[x].want /\ th'[x].batch = th[x].batch /\ (th'[x].pc \in Batched => th[x].pc \in Batched)
          BY Zenon, <2>4, <2>9, <3>2
        <4>3. th'[x].pc \in Batched => Stored(r)' /\ (th'[x].batch <= th[t].batch => Logged(r)')
          BY Zenon, <2>6, <4>1, <4>2 DEF Parts, Wants, Progress
        <4>4. CASE th'[x] = th[x]
          BY Zenon, <4>1, <4>3, <4>4 DEF Parts, Wants, Progress
        <4>5. CASE th'[x].pc = "woken"
          BY Zenon, <2>4, <4>3, <4>5
        <4> QED BY Zenon, <2>9, <3>2, <4>4, <4>5
      <3> QED BY Zenon, <3>1, <3>2
    <2>11. ASSUME NEW w \in Threads, NEW x \in Threads PROVE Writes(w, x)'
      <3>0. \A u \in Threads : th[u].pc \in Writing => u = t
        BY Zenon, <2>2, <2>4 DEF BatchInv
      <3>1. th'[w].pc \notin Writing
        BY Zenon, <2>4, <2>8, <2>9, <3>0
      <3> QED BY Zenon, <3>1 DEF Writes
    <2> QED BY Zenon, <2>7, <2>10, <2>11 DEF Parts
  <1>1. UNCHANGED workload /\ workload.threads \subseteq Threads
    BY ZilCommitAssumption DEF Next, MemInv, ThreadTypes
  <1>2. SUFFICES ASSUME Ztest PROVE Parts'
    BY Zenon, <1>1, <1>WantPartsNext
  <1>3. Parts
    BY Zenon, <1>2, <1>WantParts
  <1>4. ASSUME NEW rec, NEW sync, Assigned(rec, sync), UNCHANGED <<com_batch, acked>>, \A x \in Threads : Still(x)
        PROVE  Parts'
    <2>1. Fresh
      BY Zenon, <1>4, <1>NewFresh
    <2>2. AckedLogged'
      BY Zenon, <1>1, <1>3, <1>4, <2>1, <1>AckedSame DEF Parts
    <2> QED BY Zenon, <1>1, <1>3, <1>4, <2>1, <2>2, <1>PartsKept
  <1>5. ASSUME UNCHANGED <<records, com_batch, acked>>, \A x \in Threads : Still(x) PROVE Parts'
    <2>1. Fresh
      BY Zenon, <1>5 DEF Fresh
    <2>2. AckedLogged'
      BY Zenon, <1>1, <1>3, <1>5, <2>1, <1>AckedSame DEF Parts
    <2> QED BY Zenon, <1>1, <1>3, <1>5, <2>1, <2>2, <1>PartsKept
  <1>7. CASE Quiesce \/ Synced \/ zil_clean
    <2>1. UNCHANGED <<records, com_batch, acked, th>>
      BY Zenon, <1>7 DEF Quiesce, Synced, zil_clean, batchVars
    <2> QED BY Zenon, <1>5, <2>1 DEF Still
  <1>8. ASSUME NEW t \in Threads, NEW o \in Objs, Create(t, o) \/ Write(t, o) PROVE Parts'
    <2>1. PICK kind \in {"create", "write"}, sync \in BOOLEAN : Assigned(Record(kind, o), sync)
      BY Zenon, <1>1, <1>8, LogOneAssigns
    <2>2. UNCHANGED <<th, acked, com_batch>>
      BY Zenon, <1>1, <1>8, LogOneAssigns DEF batchVars
    <2> QED BY Zenon, <1>4, <2>1, <2>2 DEF Still
  <1>9. ASSUME NEW t \in Threads, NEW o \in Objs, RemoveObj(t, o) \/ Rename(t, o) PROVE Parts'
    <2>1. PICK pc \in {"drop", "move"}, kind \in {"remove", "rename"}, oid \in ItxOid(o) :
            th' = [th EXCEPT ![t] = [Idle EXCEPT !.pc = pc, !.kind = kind, !.obj = o, !.oid = oid,
                                                 !.txg = open, !.walk = synced + 1,
                                                 !.end = synced + TXG_CONCURRENT_STATES]]
      BY Zenon, <1>9 DEF RemoveObj, Rename, Start
    <2>2. (\A x \in Threads : x # t => th'[x] = th[x]) /\ th'[t].pc = pc
      BY <2>1 DEF Idle, MemInv, ThreadTypes
    <2>3. UNCHANGED <<records, com_batch, acked>>
      BY Zenon, <1>9 DEF RemoveObj, Rename, Start, batchVars
    <2> QED BY Zenon, <1>5, <2>2, <2>3 DEF Still
  <1>10. ASSUME NEW t \in Threads, NEW o \in Objs \cup {NoObj}, CommitStart(t, o) PROVE Parts'
    BY Zenon, <1>1, <1>3, <1>10, <1>PartsStart
  <1>11. ASSUME NEW t \in Threads, Running(t) PROVE Parts'
    <2>1. CASE zil_remove_async(t)
      <3>1. (\A x \in Threads : x # t => th'[x] = th[x]) /\ th'[t].pc = "drop"
        BY <2>1 DEF zil_remove_async, MemInv, ThreadTypes, ThreadType
      <3>2. UNCHANGED <<records, com_batch, acked>>
        BY Zenon, <2>1 DEF zil_remove_async, batchVars
      <3> QED BY Zenon, <1>5, <3>1, <3>2 DEF Still
    <2>2. CASE LogLast(t)
      <3>1. (\A x \in Threads : x # t => th'[x] = th[x]) /\ th'[t].pc = "idle"
        BY Zenon, <2>2, IdleWant DEF LogLast, MemInv, ThreadTypes
      <3>2. UNCHANGED <<com_batch, acked>>
        BY Zenon, <2>2 DEF LogLast, batchVars
      <3> QED BY Zenon, <1>1, <1>4, <2>2, <3>1, <3>2, LogLastAssigns DEF Still
    <2>3. CASE zil_async_to_sync(t)
      BY Zenon, <1>1, <1>2, <1>3, <2>3, <1>PartsMove
    <2>4. CASE zil_get_commit_list(t)
      BY Zenon, <1>1, <1>3, <2>4, <1>PartsCollect
    <2>5. CASE Enter(t)
      <3>1. /\ th[t].pc = "tosync" /\ th[t].walk > th[t].end /\ UNCHANGED <<records, com_batch, acked>>
            /\ \/ ~writer /\ Turned(t, "collect", next_batch)
               \/ writer /\ Turned(t, "waiting", next_batch)
        BY Zenon, <2>5, EnterTurns
      <3>2. ~(next_batch <= com_batch)
        BY DEF BatchInv
      <3>3. ASSUME NEW r \in records, r.id \in th[t].want \ dropped PROVE Stored(r)
        <4>1. r.txg <= th[t].end /\ (r.txg < th[t].walk => Stored(r))
          BY Zenon, <1>3, <3>1, <3>3 DEF Parts, Wants
        <4>2. r.txg < th[t].walk
          BY <3>1, <4>1 DEF MemInv, RecordInv, Rec, ThreadTypes, ThreadType
        <4> QED BY Zenon, <4>1, <4>2
      <3>4. CASE ~writer /\ Turned(t, "collect", next_batch)
        BY Zenon, <1>1, <1>3, <3>1, <3>2, <3>3, <3>4, <1>PartsWriter
      <3>5. CASE writer /\ Turned(t, "waiting", next_batch)
        <4>1. \A w \in Threads : th[w].pc \in Writing => ~(next_batch <= th[w].batch)
          BY <3>5 DEF BatchInv
        <4> QED BY Zenon, <1>1, <1>3, <3>1, <3>2, <3>3, <3>5, <4>1, <1>PartsWait
      <3> QED BY Zenon, <3>1, <3>4, <3>5
    <2>6. CASE Woken(t)
      <3>1. /\ th[t].pc = "woken" /\ UNCHANGED <<records, com_batch>> /\ "woken" \in Batched
            /\ \/ th[t].batch <= com_batch /\ th' = [th EXCEPT ![t] = Idle] /\ acked' = acked \cup th[t].want
               \/ ~writer /\ Turned(t, "collect", th[t].batch) /\ acked' = acked
               \/ writer /\ Turned(t, "waiting", th[t].batch) /\ acked' = acked
        BY Zenon, <2>6, WokenTurns DEF Batched
      <3>2. \A r \in records : r.id \in th[t].want \ dropped => Stored(r) /\ (th[t].batch <= com_batch => Logged(r))
        BY Zenon, <1>3, <3>1 DEF Parts, Wants
      <3>3. CASE th[t].batch <= com_batch /\ th' = [th EXCEPT ![t] = Idle] /\ acked' = acked \cup th[t].want
        <4>1. Fresh
          BY Zenon, <3>1 DEF Fresh
        <4>2. AckedLogged'
          BY Zenon, <1>1, <1>3, <3>2, <3>3, <4>1, <1>AckedKept DEF Parts
        <4>3. (\A x \in Threads : x # t => th'[x] = th[x]) /\ th'[t].pc = "idle"
          BY <3>3, IdleWant DEF MemInv, ThreadTypes
        <4>4. \A x \in Threads : Still(x)
          BY Zenon, <4>3 DEF Still
        <4> QED BY Zenon, <1>1, <1>3, <3>1, <4>1, <4>2, <4>4, <1>PartsKept
      <3>4. CASE ~writer /\ Turned(t, "collect", th[t].batch) /\ acked' = acked
        BY Zenon, <1>1, <1>3, <3>1, <3>2, <3>4, <1>PartsWriter
      <3>5. CASE writer /\ Turned(t, "waiting", th[t].batch) /\ acked' = acked
        BY Zenon, <1>1, <1>3, <3>1, <3>2, <3>5, <1>PartsWait
      <3> QED BY Zenon, <3>1, <3>3, <3>4, <3>5
    <2>7. CASE zil_commit_writer(t)
      <3>1. /\ th[t].pc = "collect" /\ th[t].walk > th[t].end /\ UNCHANGED <<records, com_batch, acked>>
            /\ th' = th \/ (list = <<>> /\ Turned(t, "written", th[t].batch))
        BY Zenon, <2>7, WriterTurns
      <3>2. CASE th' = th
        BY Zenon, <1>5, <3>1, <3>2 DEF Still
      <3>3. CASE list = <<>> /\ Turned(t, "written", th[t].batch)
        BY Zenon, <1>1, <1>3, <3>1, <3>3, <1>PartsWritten
      <3> QED BY Zenon, <3>1, <3>2, <3>3
    <2>8. CASE CommitDone(t)
      BY Zenon, <1>1, <1>3, <2>8, <1>PartsDone
    <2> QED BY Zenon, <1>11, <2>1, <2>2, <2>3, <2>4, <2>5, <2>6, <2>7, <2>8 DEF Running
  <1> QED BY <1>1, <1>7, <1>8, <1>9, <1>10, <1>11 DEF Next
=============================================================================
