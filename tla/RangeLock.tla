----------------------------- MODULE RangeLock -----------------------------
(***************************************************************************)
(* The byte-range locks of one file (zfs_rlock.c) and the callers that     *)
(* read, write, append to and truncate the file under them (zfs_read(),    *)
(* zfs_write(), zfs_freesp()).                                             *)
(*                                                                         *)
(* The AVL tree is a function from the start offset of an entry to the     *)
(* entry; an entry whose owner is NoThread is a proxy.  Everything between *)
(* mutex_enter() and cv_wait() or mutex_exit() of z_range_lock is one      *)
(* step.                                                                   *)
(***************************************************************************)
EXTENDS Integers, FiniteSets, FiniteSetsExt

CONSTANTS
    Threads,
    NoThread,
    UINT64_MAX,     \* the end of the offset space
    MaxBlk,         \* z_max_blksz
    Kinds,          \* the operations the threads perform
    MaxOps          \* bound on the operations of one thread

ASSUME RangeAssumption ==
    /\ NoThread \notin Threads
    /\ UINT64_MAX \in Nat \ {0, 1} /\ MaxBlk \in Nat \ {0} /\ MaxOps \in Nat \ {0}
    /\ Kinds \subseteq {"read", "write", "append", "freesp"}

VARIABLES
    tree,           \* z_range_avl
    z_size, z_blksz,
    pc, op,         \* where a thread is, and what it was asked to do
    rl,             \* rl[t]: r_off and r_len of t's handle
    waits,          \* waits[t]: offset of the entry on whose cv t sleeps
    ops             \* operations left to each thread

znode == <<tree, z_size, z_blksz>>
vars == <<tree, z_size, z_blksz, pc, op, rl, waits, ops>>

NULL == -1
FileEnd == UINT64_MAX - 1

-----------------------------------------------------------------------------
(* The tree.                                                               *)

End(tr, p) == p + tr[p].len
Or(S) == IF S = {} THEN NULL ELSE Min(S)
AvlBefore(tr, off) == LET S == {p \in DOMAIN tr : p < off} IN IF S = {} THEN NULL ELSE Max(S)
AvlAfter(tr, off) == Or({p \in DOMAIN tr : p > off})

Entry(len, cnt, type, owner) ==
    [len |-> len, cnt |-> cnt, type |-> type, owner |-> owner,
     write_wanted |-> FALSE, read_wanted |-> FALSE]
Put(tr, off, e) == [p \in DOMAIN tr \cup {off} |-> IF p = off THEN e ELSE tr[p]]

\* Mutant: an entry that begins before the range is overlooked.
WriterBlocker_after(tr, off, len) ==
    LET after == AvlAfter(tr, off)
    IN  IF off \in DOMAIN tr THEN off
        ELSE IF after # NULL /\ after < off + len THEN after
        ELSE NULL

\* The entry a writer of [off, off + len) has to wait for, or NULL.
WriterBlocker(tr, off, len) ==
    LET after == AvlAfter(tr, off)
        before == AvlBefore(tr, off)
    IN  IF off \in DOMAIN tr THEN off
        ELSE IF after # NULL /\ after < off + len THEN after
        ELSE IF before # NULL /\ End(tr, before) > off THEN before
        ELSE NULL

\* The first entry a reader of [off, off + len) has to wait for, or NULL: a
\* writer's, or one that a writer waits for.
ReaderBlocker(tr, off, len) ==
    Or({p \in DOMAIN tr : /\ p < off + len /\ off < End(tr, p)
                          /\ tr[p].type = "writer" \/ tr[p].write_wanted})

zfs_range_proxify(tr, p) ==
    IF tr[p].owner = NoThread THEN tr
    ELSE [tr EXCEPT ![p] = Entry(@.len, 1, "reader", NoThread)]

\* Mutant: the rear proxy starts with one reference.
zfs_range_split_fresh(tr, p, off) ==
    LET rear == Entry(End(tr, p) - off, 1, "reader", NoThread)
        front == [zfs_range_proxify(tr, p) EXCEPT ![p].len = off - p]
    IN  Put(front, off, rear)

zfs_range_split(tr, p, off) ==
    LET rear == Entry(End(tr, p) - off, tr[p].cnt, "reader", NoThread)
        front == [zfs_range_proxify(tr, p) EXCEPT ![p].len = off - p]
    IN  Put(front, off, rear)

zfs_range_new_proxy(tr, off, len) == Put(tr, off, Entry(len, 1, "reader", NoThread))

Bump(tr, p) == [tr EXCEPT ![p].cnt = @ + 1]

\* The forward search of zfs_range_add_reader(): share every entry up to end,
\* fill the gaps.
RECURSIVE ShareForward(_, _, _, _)
ShareForward(tr, prev, next, end) ==
    IF next = NULL \/ end <= next
    THEN zfs_range_new_proxy(tr, End(tr, prev), end - End(tr, prev))
    ELSE LET filled == IF prev # NULL /\ End(tr, prev) < next
                       THEN zfs_range_new_proxy(tr, End(tr, prev), next - End(tr, prev))
                       ELSE tr
             shared == Bump(zfs_range_proxify(filled, next), next)
         IN  CASE end = End(tr, next) -> shared
               [] end < End(tr, next) -> Bump(zfs_range_split(filled, next, end), next)
               [] OTHER -> ShareForward(shared, next, AvlAfter(shared, next), end)

zfs_range_add_reader(tr, t, off, len) ==
    LET prev == AvlBefore(tr, off + 1)
        overlaps == prev # NULL /\ End(tr, prev) > off
        cut == IF overlaps /\ prev # off THEN zfs_range_split(tr, prev, off) ELSE tr
        next == IF overlaps THEN off ELSE AvlAfter(tr, off)
        begun == IF off < next THEN zfs_range_new_proxy(cut, off, next - off) ELSE cut
    IN  IF next = NULL \/ off + len <= next
        THEN Put(tr, off, Entry(len, 1, "reader", t))
        ELSE ShareForward(begun, NULL, next, off + len)

-----------------------------------------------------------------------------
(* The lock.                                                               *)

Holds(t) == pc[t] \in {"held", "write", "unlock"}
IsReader(t) == op[t].kind = "read"

\* Mutant: a truncation locks only the range it was called for.
Request_asked(t) == [off |-> op[t].off, len |-> op[t].len]

\* The range zfs_range_lock() was called for.
Request(t) ==
    IF op[t].kind = "freesp" /\ op[t].whole THEN [off |-> 0, len |-> UINT64_MAX]
    ELSE [off |-> op[t].off, len |-> op[t].len]

ISP2(n) == \E k \in 0 .. n : n = 2^k
MayGrow == ~ISP2(z_blksz) \/ z_blksz < MaxBlk

\* What a writer locks: an append starts at the end of the file, and a write
\* that may have to grow the block size takes the whole file.
WriterRange(t) ==
    LET off == IF op[t].kind = "append" THEN z_size ELSE Request(t).off
        len == Request(t).len
    IN  IF Max({z_size, off + len}) > z_blksz /\ MayGrow
        THEN [off |-> 0, len |-> UINT64_MAX]
        ELSE [off |-> off, len |-> len]

Sleep(t, p, flagged) ==
    /\ tree' = flagged
    /\ waits' = [waits EXCEPT ![t] = p]
    /\ pc' = [pc EXCEPT ![t] = "sleep"]
    /\ UNCHANGED <<z_size, z_blksz, op, rl, ops>>

Grant(t, r, tr) ==
    /\ tree' = tr
    /\ rl' = [rl EXCEPT ![t] = r]
    /\ pc' = [pc EXCEPT ![t] = "held"]
    /\ UNCHANGED <<z_size, z_blksz, op, waits, ops>>

zfs_range_lock_writer(t) ==
    LET r == WriterRange(t)
        blocker == WriterBlocker(tree, r.off, r.len)
    IN  /\ pc[t] = "lock" /\ ~IsReader(t)
        /\ \/ /\ blocker = NULL
              /\ Grant(t, r, Put(tree, r.off, Entry(r.len, 1, "writer", t)))
           \/ /\ blocker # NULL
              /\ Sleep(t, blocker, [tree EXCEPT ![blocker].write_wanted = TRUE])

zfs_range_lock_reader(t) ==
    LET r == Request(t)
        blocker == ReaderBlocker(tree, r.off, r.len)
    IN  /\ pc[t] = "lock" /\ IsReader(t)
        /\ \/ /\ blocker = NULL
              /\ Grant(t, r, zfs_range_add_reader(tree, t, r.off, r.len))
           \/ /\ blocker # NULL
              /\ Sleep(t, blocker, [tree EXCEPT ![blocker].read_wanted = TRUE])

\* The entries t's handle stands for: itself, or the proxies that replaced it.
Members(t) ==
    LET off == rl[t].off IN
    IF off \in DOMAIN tree /\ tree[off].owner = t THEN {off}
    ELSE {p \in DOMAIN tree : off <= p /\ p < off + rl[t].len}

\* The broadcasts of the entries that leave the tree.
Woken(gone) ==
    {u \in Threads : /\ waits[u] \in gone
                     /\ IF IsReader(u) THEN tree[waits[u]].read_wanted
                        ELSE tree[waits[u]].write_wanted}

\* zfs_range_unlock(), after which t goes on at label next.
Unlock(t, next) ==
    LET gone == {p \in Members(t) : tree[p].cnt = 1} IN
    /\ tree' = [p \in DOMAIN tree \ gone |->
                    IF p \in Members(t) THEN [tree[p] EXCEPT !.cnt = @ - 1]
                    ELSE tree[p]]
    /\ pc' = [u \in Threads |-> IF u = t THEN next
                                ELSE IF u \in Woken(gone) THEN "lock" ELSE pc[u]]
    /\ waits' = [u \in Threads |-> IF u \in Woken(gone) THEN NULL ELSE waits[u]]

\* zfs_range_reduce(): the only entry shrinks and moves, its sleepers wake.
zfs_range_reduce(t, off, len) ==
    /\ tree' = Put([p \in DOMAIN tree \ {rl[t].off} |-> tree[p]], off,
                   [tree[rl[t].off] EXCEPT !.len = len])
    /\ rl' = [rl EXCEPT ![t] = [off |-> off, len |-> len]]
    /\ LET woken == Woken({rl[t].off}) IN
       /\ pc' = [u \in Threads |-> IF u = t THEN "write"
                                   ELSE IF u \in woken THEN "lock" ELSE pc[u]]
       /\ waits' = [u \in Threads |-> IF u \in woken THEN NULL ELSE waits[u]]

-----------------------------------------------------------------------------
(* The callers.                                                            *)

Requests ==
    LET range == {r \in [off : 0 .. FileEnd, len : 0 .. FileEnd] : r.off + r.len <= FileEnd}
    IN  {[kind |-> k, off |-> r.off, len |-> r.len, whole |-> FALSE] :
            k \in {"read", "write"}, r \in {q \in range : q.len > 0}}
        \cup {[kind |-> "append", off |-> 0, len |-> n, whole |-> FALSE] : n \in 1 .. FileEnd}
        \cup {[kind |-> "freesp", off |-> r.off, len |-> r.len, whole |-> FALSE] :
            r \in range}

\* A thread enters zfs_read(), zfs_write() or zfs_freesp(); the latter looks
\* at the size of the file before it has any lock.
Call(t) ==
    /\ pc[t] = "idle" /\ ops[t] > 0
    /\ \E r \in {q \in Requests : q.kind \in Kinds} :
         op' = [op EXCEPT ![t] = [r EXCEPT !.whole =
                    r.kind = "freesp" /\ (r.len = 0 \/ r.off + r.len > z_size)]]
    /\ ops' = [ops EXCEPT ![t] = @ - 1]
    /\ pc' = [pc EXCEPT ![t] = "lock"]
    /\ UNCHANGED <<znode, rl, waits>>

\* Where a write begins: an append that locked the whole file starts at the
\* end of it.
woff(t) ==
    IF op[t].kind # "append" THEN op[t].off
    ELSE IF rl[t].len = UINT64_MAX THEN z_size ELSE rl[t].off

\* zfs_write() has the lock: find out where to write, and how much fits.
WriteBegin(t) ==
    /\ pc[t] = "held" /\ op[t].kind \in {"write", "append"}
    /\ IF woff(t) >= FileEnd
       THEN pc' = [pc EXCEPT ![t] = "unlock"] /\ UNCHANGED op
       ELSE /\ pc' = [pc EXCEPT ![t] = "write"]
            /\ op' = [op EXCEPT ![t].off = woff(t),
                                ![t].len = Min({@, FileEnd - woff(t)})]
    /\ UNCHANGED <<znode, rl, waits, ops>>

\* A file of more than one block keeps its block size.  So does one that had
\* more (ENOTSUP), but its blocks have full size already, as long as MaxBlk is
\* the same.
zfs_grow_blocksize(size) ==
    z_blksz' = IF size <= z_blksz \/ z_size > z_blksz THEN z_blksz ELSE size

\* zfs_write(): the locked range is larger than the write; grow the block size
\* and give the rest of the file back.
WriteGrow(t) ==
    /\ pc[t] = "write" /\ rl[t].len = UINT64_MAX
    /\ zfs_grow_blocksize(Min({Max({z_size, op[t].off + op[t].len}), MaxBlk}))
    /\ zfs_range_reduce(t, op[t].off, op[t].len)
    /\ UNCHANGED <<z_size, op, ops>>

\* zfs_write(): write as much as fits a block and move the end of the file.
WriteChunk(t) ==
    /\ pc[t] = "write" /\ rl[t].len # UINT64_MAX
    /\ LET n == Min({op[t].len, MaxBlk - (op[t].off % MaxBlk)}) IN
       /\ z_size' = Max({z_size, op[t].off + n})
       /\ op' = [op EXCEPT ![t].off = @ + n, ![t].len = @ - n]
       /\ pc' = [pc EXCEPT ![t] = IF op[t].len = n THEN "unlock" ELSE "write"]
    /\ UNCHANGED <<tree, z_blksz, rl, waits, ops>>

\* zfs_write(), zfs_freesp(): over quota, or no transaction to be had.
GiveUp(t) ==
    /\ \/ pc[t] = "write"
       \/ pc[t] = "held" /\ op[t].kind = "freesp"
    /\ pc' = [pc EXCEPT ![t] = "unlock"]
    /\ UNCHANGED <<znode, op, rl, waits, ops>>

\* Mutant: the size is not checked again.
LostRace_unchecked(t) == FALSE

\* zfs_freesp(): the file became shorter before the lock was granted.
LostRace(t) ==
    /\ ~op[t].whole
    /\ op[t].off + op[t].len > z_size

FreespRelock(t) ==
    /\ pc[t] = "held" /\ op[t].kind = "freesp" /\ LostRace(t)
    /\ Unlock(t, "lock")
    /\ op' = [op EXCEPT ![t].whole = TRUE]
    /\ UNCHANGED <<z_size, z_blksz, rl, ops>>

\* zfs_freesp(): truncate, extend or punch a hole.
Freesp(t) ==
    LET end == op[t].off + op[t].len IN
    /\ pc[t] = "held" /\ op[t].kind = "freesp" /\ ~LostRace(t)
    /\ IF op[t].len = 0 /\ z_size = op[t].off /\ op[t].off # 0
       THEN UNCHANGED <<z_size, z_blksz>>
       ELSE /\ z_size' = IF end > z_size \/ op[t].len = 0 THEN end ELSE z_size
            /\ IF end > z_size /\ MayGrow
               THEN zfs_grow_blocksize(Min({end, MaxBlk})) ELSE UNCHANGED z_blksz
    /\ pc' = [pc EXCEPT ![t] = "unlock"]
    /\ UNCHANGED <<tree, op, rl, waits, ops>>

\* zfs_read() and the end of the others.
zfs_range_unlock(t) ==
    /\ \/ pc[t] = "unlock"
       \/ pc[t] = "held" /\ IsReader(t)
    /\ Unlock(t, "idle")
    /\ UNCHANGED <<z_size, z_blksz, op, rl, ops>>

-----------------------------------------------------------------------------
Init ==
    /\ tree = [p \in {} |-> Entry(0, 0, "reader", NoThread)]
    /\ z_size \in 0 .. FileEnd
    /\ z_blksz = Min({Max({z_size, 1}), MaxBlk})
    /\ pc = [t \in Threads |-> "idle"]
    /\ op = [t \in Threads |-> [kind |-> "read", off |-> 0, len |-> 0, whole |-> FALSE]]
    /\ rl = [t \in Threads |-> [off |-> 0, len |-> 0]]
    /\ waits = [t \in Threads |-> NULL]
    /\ ops = [t \in Threads |-> MaxOps]

Step(t) ==
    \/ zfs_range_lock_writer(t) \/ zfs_range_lock_reader(t)
    \/ WriteBegin(t) \/ WriteGrow(t) \/ WriteChunk(t) \/ GiveUp(t)
    \/ FreespRelock(t) \/ Freesp(t) \/ zfs_range_unlock(t)

Finished ==
    /\ \A t \in Threads : pc[t] = "idle" /\ ops[t] = 0
    /\ UNCHANGED vars

Next == (\E t \in Threads : Call(t) \/ Step(t)) \/ Finished

Spec == Init /\ [][Next]_vars

-----------------------------------------------------------------------------
Covers(r, x) == r.off <= x /\ x < r.off + r.len
Bytes == 0 .. UINT64_MAX - 1

TypeOK ==
    /\ DOMAIN tree \subseteq Bytes
    /\ \A p \in DOMAIN tree :
         tree[p] \in [len : 1 .. UINT64_MAX, cnt : 1 .. Cardinality(Threads),
                      type : {"reader", "writer"}, owner : Threads \cup {NoThread},
                      write_wanted : BOOLEAN, read_wanted : BOOLEAN]
    /\ z_size \in 0 .. FileEnd /\ z_blksz \in 1 .. MaxBlk
    /\ pc \in [Threads -> {"idle", "lock", "sleep", "held", "write", "unlock"}]
    /\ rl \in [Threads -> [off : Bytes, len : 0 .. UINT64_MAX]]
    /\ waits \in [Threads -> Bytes \cup {NULL}]
    /\ \A t \in Threads : pc[t] = "sleep" <=> waits[t] # NULL

\* Exclusive means exclusive: no byte a writer has locked is locked by anybody
\* else, through over-locking, reducing, splitting and sharing.
WritersExclude ==
    \A t, u \in Threads :
        t # u /\ Holds(t) /\ Holds(u) /\ ~IsReader(t) =>
            \A x \in Bytes : ~(Covers(rl[t], x) /\ Covers(rl[u], x))

\* The proxies account for the readers byte by byte: the one entry that covers
\* a byte counts the handles that cover it, and a byte without an entry is not
\* locked by anybody.
CountsAreExact ==
    \A x \in Bytes :
        LET entries == {p \in DOMAIN tree : p <= x /\ x < End(tree, p)}
            holders == {t \in Threads : Holds(t) /\ Covers(rl[t], x)}
        IN  /\ Cardinality(entries) <= 1
            /\ \A p \in entries : tree[p].cnt = Cardinality(holders)
            /\ entries = {} => holders = {}

\* What zfs_range_unlock_reader() walks along: the proxies of a handle begin
\* where the handle begins, follow each other without a gap and end with it.
ProxiesTileTheHandle ==
    \A t \in Threads :
        Holds(t) =>
            /\ rl[t].off \in DOMAIN tree
            /\ \A p \in Members(t) :
                 \/ End(tree, p) = rl[t].off + rl[t].len
                 \/ End(tree, p) \in Members(t)

\* No wakeup is lost: the entry a thread sleeps on is in the tree and knows
\* about the sleeper (a split or a proxy would have forgotten it).
SleeperIsKnown ==
    \A t \in Threads :
        pc[t] = "sleep" =>
            /\ waits[t] \in DOMAIN tree
            /\ IF IsReader(t) THEN tree[waits[t]].read_wanted
               ELSE tree[waits[t]].write_wanted

\* An append writes where the file ends, or ended before somebody wrote behind
\* it: it never leaves a hole, so the file does not shrink under it.
AppendLeavesNoHole ==
    \A t \in Threads :
        pc[t] = "write" /\ op[t].kind = "append" => op[t].off <= z_size

\* The size zfs_freesp() decides by is still the size when it sets it: it
\* changes size and block size only while nobody else has a lock on the file.
FreespResizesAlone ==
    [][\A t \in Threads :
        Freesp(t) /\ <<z_size, z_blksz>>' # <<z_size, z_blksz>> =>
            \A u \in Threads \ {t} : ~Holds(u)]_vars

\* A file of more than one block has blocks of full size: zfs_write() and
\* zfs_freesp() have grown the first one before they let the file outgrow it.
SecondBlockNeedsFullSize ==
    z_size > z_blksz => ~MayGrow

\* What zfs_write() still has to write is locked, also after it gave the rest
\* of the file back.
WritesAreLocked ==
    \A t \in Threads :
        pc[t] = "write" =>
            \A x \in Bytes : Covers(op[t], x) => Covers(rl[t], x)

\* The tree is sound: types, exact counts, proxies that tile the handles, and
\* entries that know who sleeps on them.
TreeIsExact == TypeOK /\ CountsAreExact /\ ProxiesTileTheHandle /\ SleeperIsKnown

\* Writers find the file as their lock promises: appends leave no hole, only
\* files with blocks of full size have a second one, and what zfs_write() has
\* still to write is locked.
WritersSeeTheFile == AppendLeavesNoHole /\ SecondBlockNeedsFullSize /\ WritesAreLocked
=============================================================================
