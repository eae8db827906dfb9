----------------------------- MODULE ZilCommit -----------------------------
(***************************************************************************)
(* The records of the intent log in memory, and the threads that commit    *)
(* them: zil_itx_assign(), zil_remove_async(), zil_async_to_sync(),        *)
(* zil_get_commit_list(), zil_clean() and zil_commit() of                  *)
(* module/zfs/zil.c, called by the log functions of the file system        *)
(* (zfs_log.c) or of ztest (ztest.c).                                      *)
(*                                                                         *)
(* A record waits in the slot of its group: in a list that every commit    *)
(* takes, or in a list of its object that zil_commit() of this object has  *)
(* to move there first.  Slots are locked one at a time.  One thread       *)
(* writes for a batch of threads, and the others wait for it.  How the     *)
(* records get to the disk is left to Zil: here they are stable when the   *)
(* writer is done.                                                         *)
(***************************************************************************)
EXTENDS Integers, Sequences, FiniteSets, Functions

CONSTANTS
    Threads,
    Objs, NoObj,            \* objects; NoObj is the foid 0, and any other one
    Workloads,              \* who uses the log, see workload
    TXG_SIZE,
    TXG_CONCURRENT_STATES

ASSUME ZilCommitAssumption ==
    /\ NoObj \notin Objs
    /\ {TXG_SIZE, TXG_CONCURRENT_STATES} \subseteq Nat \ {0} /\ TXG_SIZE > TXG_CONCURRENT_STATES
    /\ \A w \in Workloads : /\ w.threads \subseteq Threads /\ w.ztest \in BOOLEAN
                             /\ {w.ops, w.commits} \subseteq Nat /\ w.txgs \in Nat \ {0}

VARIABLES
    workload,       \* the threads, whether ztest or the file system logs the
                    \* records, and how much there is of everything
    open, synced,   \* the open group, and spa_last_synced_txg()
    cleaning,       \* zil_clean() has not been called for the last group yet
    exists,         \* objects that exist
    itxg,           \* zl_itxg
    list,           \* zl_itx_commit_list
    next_batch, com_batch, writer,  \* zl_next_batch, zl_com_batch, zl_writer
    th,             \* what each thread does
    log,            \* records that were written to the log
    ops, commits,   \* calls so far
    records,        \* every record that was ever logged
    dropped,        \* records that were dropped with their own object
    acked           \* records zil_commit() has promised to keep

itxVars == <<itxg, dropped>>
batchVars == <<next_batch, com_batch, writer>>
groupVars == <<open, synced, cleaning>>
vars == <<workload, groupVars, exists, itxVars, list, batchVars, th, log, ops, commits, records, acked>>

Ztest == workload.ztest
MaxOps == workload.ops
MaxTxg == workload.txgs
MaxCommits == workload.commits

EmptyItxg == [txg |-> 0, sync |-> <<>>, async |-> [o \in Objs |-> <<>>]]
Idle == [pc |-> "idle", kind |-> "none", obj |-> NoObj, oid |-> NoObj, txg |-> 0, walk |-> 0,
         end |-> 0, batch |-> 0, want |-> {}]

Init ==
    /\ workload \in Workloads
    /\ open = 1 /\ synced = 0 /\ cleaning = FALSE /\ exists = {}
    /\ itxg = [s \in 0 .. TXG_SIZE - 1 |-> EmptyItxg] /\ list = <<>>
    /\ next_batch = 1 /\ com_batch = 0 /\ writer = FALSE
    /\ th = [t \in Threads |-> Idle]
    /\ log = <<>> /\ ops = 0 /\ commits = 0 /\ records = {} /\ dropped = {} /\ acked = {}

-----------------------------------------------------------------------------
(* Transaction groups.                                                     *)

Quiesce ==
    /\ open < MaxTxg /\ open < synced + TXG_CONCURRENT_STATES
    /\ open' = open + 1
    /\ UNCHANGED <<synced, cleaning, exists, itxVars, list, batchVars, th, log, ops, commits,
                   records, acked>>

\* A group syncs once no thread holds it.
Synced ==
    /\ synced + 1 < open /\ ~cleaning
    /\ \A t \in Threads : th[t].txg # synced + 1
    /\ synced' = synced + 1 /\ cleaning' = TRUE
    /\ UNCHANGED <<open, exists, itxVars, list, batchVars, th, log, ops, commits, records, acked>>

\* Mutant: the slot of the next group is emptied.
zil_clean_next ==
    /\ cleaning
    /\ cleaning' = FALSE
    /\ itxg' = [itxg EXCEPT ![(synced + 1) % TXG_SIZE] = EmptyItxg]
    /\ UNCHANGED <<open, synced, exists, dropped, list, batchVars, th, log, ops, commits, records,
                   acked>>

zil_clean ==
    /\ cleaning
    /\ cleaning' = FALSE
    /\ itxg' = [itxg EXCEPT ![synced % TXG_SIZE] = EmptyItxg]
    /\ UNCHANGED <<open, synced, exists, dropped, list, batchVars, th, log, ops, commits, records,
                   acked>>

-----------------------------------------------------------------------------
(* Operations, and the records they log.                                   *)

\* zil_itx_assign(): what is left of an older group in the slot is dropped.
zil_itx_assign(rec, sync) ==
    LET s == rec.txg % TXG_SIZE
        slot == IF itxg[s].txg = rec.txg THEN itxg[s] ELSE [EmptyItxg EXCEPT !.txg = rec.txg]
    IN  [itxg EXCEPT ![s] = IF sync THEN [slot EXCEPT !.sync = Append(@, rec)]
                            ELSE [slot EXCEPT !.async[rec.obj] = Append(@, rec)]]

\* An object is locked while it is removed or renamed.
Locked(o) == \E t \in Threads : th[t].obj = o /\ th[t].kind \in {"remove", "rename"}

Record(kind, o) == [id |-> ops + 1, kind |-> kind, obj |-> o, txg |-> open]

\* The operation of one record, by thread t.
LogOne(t, kind, o, sync) ==
    /\ th[t].pc = "idle" /\ ops < MaxOps /\ ~Locked(o)
    /\ ops' = ops + 1
    /\ itxg' = zil_itx_assign(Record(kind, o), sync)
    /\ records' = records \cup {Record(kind, o)}
    /\ UNCHANGED <<groupVars, dropped, list, batchVars, th, log, commits, acked>>

Create(t, o) ==
    /\ o \notin exists
    /\ exists' = exists \cup {o}
    /\ LogOne(t, "create", o, TRUE)

\* A write, truncation or change of attributes.  Only ztest logs some of them
\* like other records: nothing ever sets z_sync_cnt on OS X.
Write(t, o) ==
    /\ o \in exists
    /\ exists' = exists
    /\ \E sync \in IF Ztest THEN BOOLEAN ELSE {FALSE} : LogOne(t, "write", o, sync)

\* The values itx_oid may have: zfs_log_remove() and zfs_log_rename() do not
\* set it, and zil_itx_create() does not clear it.
ItxOid(o) == IF Ztest THEN {o} ELSE Objs \cup {NoObj}

\* The start of zil_itx_assign() for a record of an object that is removed or
\* renamed, with a transaction in the open group.
Start(t, kind, pc, o) ==
    /\ th[t].pc = "idle" /\ ops < MaxOps /\ o \in exists /\ ~Locked(o)
    /\ \E oid \in ItxOid(o) :
         th' = [th EXCEPT ![t] = [Idle EXCEPT !.pc = pc, !.kind = kind, !.obj = o, !.oid = oid,
                                              !.txg = open, !.walk = synced + 1,
                                              !.end = synced + TXG_CONCURRENT_STATES]]
    /\ UNCHANGED <<groupVars, itxVars, list, batchVars, log, ops, commits, records, acked>>

RemoveObj(t, o) == Start(t, "remove", "drop", o) /\ exists' = exists \ {o}
Rename(t, o) == ~Ztest /\ Start(t, "rename", "move", o) /\ UNCHANGED exists

\* Mutant: nothing is dropped from the slot of the open group.
Dropped_notopen(s, o) ==
    IF o = NoObj \/ itxg[s].txg = open THEN <<>> ELSE itxg[s].async[o]

\* The records zil_remove_async() takes from a slot.
Dropped(s, o) == IF o = NoObj THEN <<>> ELSE itxg[s].async[o]

\* One slot of zil_remove_async().
zil_remove_async(t) ==
    LET s == th[t].walk % TXG_SIZE
        gone == Dropped(s, th[t].oid)
    IN  /\ th[t].pc = "drop" /\ th[t].walk <= th[t].end
        /\ th' = [th EXCEPT ![t].walk = @ + 1]
        /\ IF itxg[s].txg = th[t].walk /\ gone # <<>>
           THEN /\ itxg' = [itxg EXCEPT ![s].async[th[t].oid] = <<>>]
                /\ dropped' = dropped \cup {r.id : r \in {x \in Range(gone) : x.obj = th[t].obj}}
           ELSE UNCHANGED itxVars
        /\ UNCHANGED <<groupVars, exists, list, batchVars, log, ops, commits, records, acked>>

\* The record of the removal or the renaming itself.
LogLast(t) ==
    LET rec == [id |-> ops + 1, kind |-> th[t].kind, obj |-> th[t].obj, txg |-> th[t].txg]
    IN  /\ th[t].pc \in {"drop", "move"} /\ th[t].walk > th[t].end
        /\ itxg' = zil_itx_assign(rec, TRUE)
        /\ records' = records \cup {rec}
        /\ ops' = ops + 1
        /\ th' = [th EXCEPT ![t] = Idle]
        /\ UNCHANGED <<groupVars, exists, dropped, list, batchVars, log, commits, acked>>

-----------------------------------------------------------------------------
(* Committing.                                                             *)

\* What zil_commit() of an object has to make stable: records of operations
\* before it, of this object or of directories.
Wanted(o) == {r.id : r \in {x \in records : o = NoObj \/ x.obj = o \/ x.kind # "write"}}

CommitStart(t, o) ==
    /\ th[t].pc = "idle" /\ commits < MaxCommits
    /\ commits' = commits + 1
    /\ th' = [th EXCEPT ![t] = [Idle EXCEPT !.pc = "tosync", !.oid = o, !.want = Wanted(o),
                                            !.walk = synced + 1,
                                            !.end = synced + TXG_CONCURRENT_STATES]]
    /\ UNCHANGED <<groupVars, exists, itxVars, list, batchVars, log, ops, records, acked>>

\* The lists of all objects one after the other, in some order.
Joined(async) ==
    LET recs == UNION {Range(async[o]) : o \in Objs}
    IN  {q \in UNION {[1 .. n -> recs] : n \in 0 .. Cardinality(recs)} :
           /\ IsInjective(q)
           /\ \A o \in Objs : \E k \in 0 .. Len(q) - Len(async[o]) :
                \A i \in DOMAIN async[o] : q[k + i] = async[o][i]}

\* Mutant: the list of the object stays, and its records are committed again.
Moved_copied(slot, o) ==
    IF o # NoObj THEN {[slot EXCEPT !.sync = @ \o slot.async[o]]}
    ELSE {[slot EXCEPT !.sync = @ \o q] : q \in Joined(slot.async)}

\* A slot after zil_async_to_sync() has moved the list of an object, or all.
Moved(slot, o) ==
    IF o # NoObj THEN {[slot EXCEPT !.sync = @ \o slot.async[o], !.async[o] = <<>>]}
    ELSE {[slot EXCEPT !.sync = @ \o q, !.async = [x \in Objs |-> <<>>]] : q \in Joined(slot.async)}

\* One slot of zil_async_to_sync(), for a commit or a renaming.
zil_async_to_sync(t) ==
    LET s == th[t].walk % TXG_SIZE
    IN  /\ th[t].pc \in {"tosync", "move"} /\ th[t].walk <= th[t].end
        /\ th' = [th EXCEPT ![t].walk = @ + 1]
        /\ IF itxg[s].txg = th[t].walk
           THEN \E slot \in Moved(itxg[s], th[t].oid) : itxg' = [itxg EXCEPT ![s] = slot]
           ELSE itxg' = itxg
        /\ UNCHANGED <<groupVars, exists, dropped, list, batchVars, log, ops, commits, records,
                       acked>>

\* Thread t becomes the writer, for batch b.
BecomeWriter(t, b) ==
    /\ writer' = TRUE /\ next_batch' = next_batch + 1
    /\ th' = [th EXCEPT ![t].pc = "collect", ![t].batch = b, ![t].walk = synced + 1,
                        ![t].end = synced + TXG_CONCURRENT_STATES]
    /\ UNCHANGED com_batch

\* The batch of a thread that enters.
MyBatch == next_batch

\* zil_commit() has moved the records, and takes zl_lock.
Enter(t) ==
    /\ th[t].pc = "tosync" /\ th[t].walk > th[t].end
    /\ \/ ~writer /\ BecomeWriter(t, MyBatch)
       \/ writer /\ th' = [th EXCEPT ![t].pc = "waiting", ![t].batch = MyBatch]
          /\ UNCHANGED batchVars
    /\ UNCHANGED <<groupVars, exists, itxVars, list, log, ops, commits, records, acked>>

\* zil_commit() returns from cv_wait(): its batch is committed, or somebody
\* else writes, or it becomes the writer.
Woken(t) ==
    /\ th[t].pc = "woken"
    /\ \/ /\ th[t].batch <= com_batch
          /\ th' = [th EXCEPT ![t] = Idle] /\ acked' = acked \cup th[t].want
          /\ UNCHANGED batchVars
       \/ /\ th[t].batch > com_batch /\ acked' = acked
          /\ \/ ~writer /\ BecomeWriter(t, th[t].batch)
             \/ writer /\ th' = [th EXCEPT ![t].pc = "waiting"] /\ UNCHANGED batchVars
    /\ UNCHANGED <<groupVars, exists, itxVars, list, log, ops, commits, records>>

\* One slot of zil_get_commit_list().
zil_get_commit_list(t) ==
    LET s == th[t].walk % TXG_SIZE
    IN  /\ th[t].pc = "collect" /\ th[t].walk <= th[t].end
        /\ th' = [th EXCEPT ![t].walk = @ + 1]
        /\ IF itxg[s].txg = th[t].walk
           THEN list' = list \o itxg[s].sync /\ itxg' = [itxg EXCEPT ![s].sync = <<>>]
           ELSE UNCHANGED <<list, itxg>>
        /\ UNCHANGED <<groupVars, exists, dropped, batchVars, log, ops, commits, records, acked>>

\* zil_commit_writer(): the next record is written, unless its group has synced.
zil_commit_writer(t) ==
    /\ th[t].pc = "collect" /\ th[t].walk > th[t].end
    /\ \/ /\ list # <<>> /\ list' = Tail(list)
          /\ log' = IF Head(list).txg > synced THEN Append(log, Head(list)) ELSE log
          /\ th' = th
       \/ /\ list = <<>> /\ UNCHANGED <<list, log>>
          /\ th' = [th EXCEPT ![t].pc = "written"]
    /\ UNCHANGED <<groupVars, exists, itxVars, batchVars, ops, commits, records, acked>>

\* Threads that wait for a batch on the condition variable b % 2.
Waiting(b) == {t \in Threads : th[t].pc = "waiting" /\ th[t].batch % 2 = b % 2}

Broadcast(b) == Waiting(b)

\* Mutant: the writer wakes nobody of the next batch.
Signal_none(b) == {{}}
\* cv_signal(): one waiter, if there is any.
Signal(b) == IF Waiting(b) = {} THEN {{}} ELSE {{w} : w \in Waiting(b)}

\* The end of zil_commit() for the writer.
CommitDone(t) ==
    /\ th[t].pc = "written"
    /\ com_batch' = th[t].batch /\ writer' = FALSE
    /\ \E next \in Signal(th[t].batch + 1) :
         th' = [x \in Threads |->
                  IF x = t THEN Idle
                  ELSE IF x \in next \cup Broadcast(th[t].batch) THEN [th[x] EXCEPT !.pc = "woken"]
                  ELSE th[x]]
    /\ acked' = acked \cup th[t].want
    /\ UNCHANGED <<groupVars, exists, itxVars, list, next_batch, log, ops, commits, records>>

Running(t) ==
    \/ zil_remove_async(t) \/ LogLast(t) \/ zil_async_to_sync(t) \/ Enter(t) \/ Woken(t)
    \/ zil_get_commit_list(t) \/ zil_commit_writer(t) \/ CommitDone(t)

Next ==
    /\ \/ Quiesce \/ Synced \/ zil_clean
       \/ \E t \in workload.threads, o \in Objs :
            Create(t, o) \/ Write(t, o) \/ RemoveObj(t, o) \/ Rename(t, o)
       \/ \E t \in workload.threads, o \in Objs \cup {NoObj} : CommitStart(t, o)
       \/ \E t \in workload.threads : Running(t)
    /\ UNCHANGED workload

Spec == Init /\ [][Next]_vars

-----------------------------------------------------------------------------
TypeOK ==
    /\ open \in 1 .. MaxTxg /\ synced \in 0 .. open - 1 /\ cleaning \in BOOLEAN
    /\ exists \subseteq Objs /\ writer \in BOOLEAN
    /\ \A s \in DOMAIN itxg : itxg[s].txg # 0 => itxg[s].txg % TXG_SIZE = s
    /\ \A t \in Threads :
         th[t].pc \in {"idle", "drop", "move", "tosync", "waiting", "woken", "collect", "written"}
    /\ Range(log) \cup Range(list) \subseteq records

\* zil.c:1577-1579: when zil_commit() returns, every record of an earlier
\* operation that it is for is in the log, or its group is on disk, or the
\* object was removed.
CommittedIsStable ==
    \A r \in records : r.id \in acked => \/ r.txg <= synced
                                         \/ r \in Range(log)
                                         \/ r.id \in dropped

\* Types; and no record is written to the log twice, though several threads move and
\* collect the records of the same slots.
LoggedOnce == TypeOK /\ IsInjective(log)

\* zil.c:1592: two condition variables are enough.  Threads that wait on the
\* same one wait for the same batch, which is not committed.
TwoCvsAreEnough ==
    \A t \in Threads : th[t].pc = "waiting" =>
        /\ th[t].batch > com_batch
        /\ \A u \in Waiting(th[t].batch) : th[u].batch = th[t].batch

\* zil.c:1303-1308: once an object was removed, no record of it is left that a
\* commit of a new object with its number would write.  The records of the
\* file system do not hold the number.
NoStaleRecords == Ztest =>
    \A s \in DOMAIN itxg, o \in Objs : itxg[s].txg > synced =>
        \A r \in Range(itxg[s].async[o]) :
            ~\E q \in records : q.kind = "remove" /\ q.obj = o /\ q.id > r.id

\* Whether record c was written before the i-th record of the log, or is not
\* needed any more.
Before(c, i) == c.txg <= synced \/ \E j \in 1 .. i - 1 : log[j] = c

\* zil.c:1477-1478: within a group, the record that creates an object is
\* written before the others of the object.
CreateFirstInGroup ==
    \A i \in DOMAIN log : \A c \in records :
        c.kind = "create" /\ c.obj = log[i].obj /\ c.id < log[i].id /\ c.txg = log[i].txg
            => Before(c, i)

\* What is left of the records of an object makes sense to whoever replays it:
\* nothing from before its removal, and its creation first.
ObjectsReplay == NoStaleRecords /\ CreateFirstInGroup

\* Nobody waits in vain: while threads wait for a batch somebody writes, or one
\* of them was woken to write, though cv_signal() wakes only one thread of the
\* next batch and a new thread may become the writer before it runs.
WaitersAreServed ==
    TwoCvsAreEnough /\ \A t \in Threads : th[t].pc = "waiting" =>
        \/ writer /\ \E w \in Threads : th[w].pc \in {"collect", "written"}
        \/ \E w \in Threads : th[w].pc = "woken" /\ th[w].batch = th[t].batch

-----------------------------------------------------------------------------
(* The inductive invariant behind WaitersAreServed.                        *)

Writing == {"collect", "written"}
Batched == Writing \cup {"waiting", "woken"}

ThreadType == [pc : Batched \cup {"idle", "drop", "move", "tosync"},
               kind : {"none", "remove", "rename"}, obj : Objs \cup {NoObj},
               oid : Objs \cup {NoObj}, txg : Nat, walk : Nat, end : Nat, batch : Nat,
               want : SUBSET Nat]

ThreadTypes ==
    /\ workload \in Workloads /\ open \in Nat /\ synced \in Nat /\ ops \in Nat
    /\ \A r \in records : r.id \in Nat
    /\ th \in [Threads -> ThreadType]

\* There is one writer at most, for the batch after the last committed one, and
\* who waits is in that batch or in the next one.
BatchInv ==
    /\ com_batch \in Nat /\ writer \in BOOLEAN
    /\ next_batch = com_batch + (IF writer THEN 2 ELSE 1)
    /\ writer => \E t \in Threads : th[t].pc \in Writing
    /\ \A t \in Threads : th[t].pc \in Writing =>
         /\ writer /\ th[t].batch = com_batch + 1
         /\ \A u \in Threads : th[u].pc \in Writing => u = t
    /\ \A t \in Threads : th[t].pc \in {"waiting", "woken"} => th[t].batch <= next_batch
    /\ \A t \in Threads : th[t].pc = "waiting" =>
         /\ th[t].batch > com_batch
         /\ writer \/ \E w \in Threads : th[w].pc = "woken" /\ th[w].batch = th[t].batch

-----------------------------------------------------------------------------
(* The inductive invariant behind CommittedIsStable, LoggedOnce and         *)
(* ObjectsReplay.                                                          *)

Slots == 0 .. TXG_SIZE - 1

Rec == [id : Nat, kind : {"create", "write", "remove", "rename"}, obj : Objs, txg : Nat \ {0}]
SlotType == [txg : Nat, sync : Seq(Rec), async : [Objs -> Seq(Rec)]]

\* No more groups are open or syncing than there are slots, less one.
GroupInv ==
    /\ synced < open /\ open <= MaxTxg /\ open <= synced + TXG_CONCURRENT_STATES
    /\ cleaning \in BOOLEAN /\ exists \subseteq Objs
    /\ \A t \in Threads : th[t].pc \in {"drop", "move"} =>
         /\ synced < th[t].txg /\ th[t].txg <= open /\ th[t].kind # "none" /\ th[t].obj \in Objs
         /\ Ztest => th[t].pc = "drop" /\ th[t].oid = th[t].obj

RecordInv ==
    /\ records \subseteq Rec
    /\ \A r \in records : r.id <= ops /\ r.txg <= open /\ \A q \in records : r.id = q.id => r = q
    /\ acked \subseteq 0 .. ops /\ \A t \in Threads : th[t].want \subseteq 0 .. ops

\* A slot has records of one group, and its lists of objects have writes of them.
SlotInv ==
    /\ itxg \in [Slots -> SlotType]
    /\ \A s \in Slots : itxg[s].txg # 0 => itxg[s].txg % TXG_SIZE = s
    /\ \A s \in Slots : \A r \in Range(itxg[s].sync) : r \in records /\ r.txg = itxg[s].txg
    /\ \A s \in Slots, o \in Objs : \A r \in Range(itxg[s].async[o]) :
         r \in records /\ r.txg = itxg[s].txg /\ r.obj = o /\ r.kind = "write"
    /\ {list, log} \subseteq Seq(Rec) /\ Range(log) \cup Range(list) \subseteq records

InSync(r) == r \in Range(itxg[r.txg % TXG_SIZE].sync)
InAsync(r) == r \in Range(itxg[r.txg % TXG_SIZE].async[r.obj])

\* How far a record has come: to disk, to the commit list, or to a list that
\* every commit takes.
Logged(r) == r.txg <= synced \/ r \in Range(log)
Listed(r) == Logged(r) \/ r \in Range(list)
Stored(r) == Listed(r) \/ InSync(r)

\* Only writes are anywhere else, and only ztest never loses one.
PlaceInv ==
    \A r \in records : Stored(r) \/ (r.kind = "write" /\ (Ztest => r.id \in dropped \/ InAsync(r)))

\* No record is in two places.
OnceInv ==
    /\ IsInjective(log) /\ IsInjective(list) /\ Range(log) \cap Range(list) = {}
    /\ \A s \in Slots : /\ IsInjective(itxg[s].sync)
                         /\ Range(itxg[s].sync) \cap (Range(log) \cup Range(list)) = {}
    /\ \A s \in Slots, o \in Objs :
         /\ IsInjective(itxg[s].async[o])
         /\ Range(itxg[s].async[o]) \cap (Range(log) \cup Range(list) \cup Range(itxg[s].sync)) = {}

\* Records of creations that are still needed.
Creates == {c \in records : c.kind = "create" /\ c.txg > synced}

\* Before every record of a sequence comes the creation of its object in its
\* group, unless it is done already.
Ordered(seq, creates, done) ==
    \A i \in DOMAIN seq : \A c \in creates :
        c.obj = seq[i].obj /\ c.id < seq[i].id /\ c.txg = seq[i].txg =>
            c \in done \/ \E j \in 1 .. i - 1 : seq[j] = c

OrderInv ==
    /\ Ordered(log, Creates, {}) /\ Ordered(list, Creates, Range(log))
    /\ \A s \in Slots : Ordered(itxg[s].sync, Creates, Range(log) \cup Range(list))

\* While an object is being removed its writes are left only in the slots that
\* zil_remove_async() is still to visit.
StaleInv == Ztest =>
    /\ \A t \in Threads, s \in Slots :
         th[t].pc = "drop" /\ itxg[s].txg > synced /\ itxg[s].async[th[t].obj] # <<>> =>
            th[t].walk <= itxg[s].txg /\ itxg[s].txg <= th[t].end
    /\ NoStaleRecords

\* What the records that a thread commits have come to, unless they were dropped.
WantInv == Ztest =>
    /\ \A r \in records : r.id \in acked \ dropped => Logged(r)
    /\ \A t \in Threads : \A r \in records : r.id \in th[t].want \ dropped =>
         /\ th[t].pc = "tosync" => /\ r.txg <= th[t].end /\ (r.kind = "write" => th[t].oid \in {NoObj, r.obj})
                                   /\ r.txg < th[t].walk => Stored(r)
         /\ th[t].pc \in Batched => Stored(r) /\ (th[t].batch <= com_batch => Logged(r))
    /\ \A w, t \in Threads : \A r \in records :
         /\ th[w].pc \in Writing /\ th[t].pc \in Batched /\ th[t].batch <= th[w].batch
         /\ r.id \in th[t].want \ dropped
         => /\ th[w].pc = "collect" => r.txg <= th[w].end /\ (r.txg < th[w].walk => Listed(r))
            /\ th[w].pc = "written" => Logged(r)
=============================================================================
