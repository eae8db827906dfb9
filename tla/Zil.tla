-------------------------------- MODULE Zil --------------------------------
(***************************************************************************)
(* The intent log of one file system, module/zfs/zil.c: writing records    *)
(* into a chain of log blocks, freeing the chain as transaction groups     *)
(* sync, suspending and closing the log, and after a loss of power         *)
(* claiming and replaying it.                                              *)
(*                                                                         *)
(* An operation is a number, in the order of the calls.  A log block is    *)
(* valid for a block pointer if it has the pointer's guid and sequence     *)
(* number: that is what the checksum of a log block verifies.  What is     *)
(* written and not yet flushed may or may not survive a crash, and every   *)
(* top-level vdev has a cache of its own.  Blocks can be reused as soon as *)
(* the group that freed them has synced.                                   *)
(***************************************************************************)
EXTENDS Integers, Sequences, FiniteSets, FiniteSetsExt, SequencesExt

CONSTANTS
    Blks, NoBlk,            \* addresses of log blocks
    Vdevs,                  \* top-level vdevs: each is the set of its blocks
    LwbSize,                \* records that fit into a log block
    Big,                    \* operations whose record may fit into no block
    TXG_CONCURRENT_STATES,  \* groups that are open, quiescing or syncing
    TXG_DEFER_SIZE,
    MaxOps, MaxTxg,         \* bounds on operations and groups,
    MaxCrashes,             \* losses of power,
    MaxEvents               \* failed allocations, log blocks that cannot be written, data
                            \* that cannot be read for a record, and calls of zil_suspend()
                            \* and zil_close()

ASSUME ZilAssumption ==
    /\ UNION Vdevs = Blks /\ \A v, w \in Vdevs : v # w => v \cap w = {}
    /\ NoBlk \notin Blks /\ LwbSize \in Nat \ {0} /\ Big \subseteq 1 .. MaxOps
    /\ TXG_CONCURRENT_STATES \in Nat \ {0} /\ TXG_DEFER_SIZE \in Nat
    /\ {MaxOps, MaxTxg, MaxCrashes, MaxEvents} \subseteq Nat

VARIABLES
    open, synced,   \* tx_open_txg, and the last group that is on disk
    syncing,        \* zil_sync() has been called for the group synced + 1
    grp,            \* grp[txg]: what an unsynced group will do
    stable,         \* the header, allocated blocks and operations on disk
    disk, pend,     \* log blocks: on disk, and written but not flushed
    alloc,          \* blocks that cannot be allocated
    zh,             \* *zl_header
    mode,           \* whether the file system is mounted, and the pool open
    itxs,           \* synchronous records that are not committed yet
    todo,           \* zl_itx_commit_list
    batch,          \* the records this commit is for
    pc,             \* where zil_commit_writer() is
    target,         \* the group it waits for
    lwbs,           \* zl_lwb_list
    lwb,            \* zil_commit_writer()'s lwb is not NULL; it is the last one
    lr_seq,         \* zl_lr_seq
    tree,           \* zl_vdev_tree
    destroy,        \* zl_destroy_txg and zl_keep_first
    suspend,        \* where zil_suspend() is
    replaying,      \* records that were replayed since the file system was mounted
    guid,           \* a new guid for a log chain
    op, crashes, events,    \* what is bounded
    errors,         \* log blocks that could not be written
    acked,          \* operations zil_commit() has promised to keep
    dropped,        \* those whose file was gone when they were to be logged
    lost,           \* vdevs whose cache the last crash has caught
    history         \* the operations when the file system went down

poolVars == <<open, synced, syncing, grp, stable>>
diskVars == <<disk, pend>>
writerVars == <<todo, batch, pc, target, lwb, tree>>
logVars == <<lwbs, lr_seq, destroy>>
boundVars == <<crashes, events, errors>>
ghostVars == <<acked, dropped, lost, history>>
vars == <<poolVars, diskVars, alloc, zh, mode, itxs, writerVars, logVars, suspend,
          replaying, guid, op, boundVars, ghostVars>>

Hole == [addr |-> NoBlk, birth |-> 0, guid |-> 0, seq |-> 0]
NoHeader == [log |-> Hole, claim_txg |-> 0, claim_blk_seq |-> 0, claim_lr_seq |-> 0,
             replay_seq |-> 0, replay_needed |-> FALSE]
Unwritten == [guid |-> 0, seq |-> 0, next |-> Hole, recs |-> <<>>, done |-> TRUE]
EmptyGroup == [ds |-> FALSE, alloc |-> {}, free |-> {}, ops |-> <<>>, replayed |-> 0]

\* The operations the file system has seen, in the order of their groups.
Applied == stable.fs \o FlattenSeq([i \in 1 .. open - synced |-> grp[synced + i].ops])

Init ==
    /\ open = 1 /\ synced = 0 /\ syncing = FALSE
    /\ grp = [txg \in 1 .. MaxTxg |-> EmptyGroup]
    /\ stable = [zh |-> NoHeader, alloc |-> {}, fs |-> <<>>]
    /\ disk = [a \in Blks |-> Unwritten] /\ pend = [a \in Blks |-> Unwritten]
    /\ alloc = {} /\ zh = NoHeader /\ mode = "up"
    /\ itxs = <<>> /\ todo = <<>> /\ batch = {} /\ pc = "idle" /\ target = 0
    /\ lwbs = <<>> /\ lwb = FALSE /\ lr_seq = 0 /\ tree = {}
    /\ destroy = [txg |-> 0, keep_first |-> FALSE]
    /\ suspend = "no" /\ replaying = 0 /\ guid = 0 /\ op = 0
    /\ crashes = 0 /\ events = 0 /\ errors = 0
    /\ acked = {} /\ dropped = {} /\ lost = {} /\ history = <<>>

-----------------------------------------------------------------------------
(* Transaction groups.                                                     *)

\* An operation changes the file system and logs a record.
Operation ==
    /\ mode = "up" /\ op < MaxOps
    /\ op' = op + 1
    /\ grp' = [grp EXCEPT ![open].ops = Append(@, op'), ![open].ds = TRUE]
    /\ \E big \in {b \in BOOLEAN : b => op' \in Big} :
         itxs' = Append(itxs, [id |-> op', txg |-> open, big |-> big])
    /\ UNCHANGED <<open, synced, syncing, stable, diskVars, alloc, zh, mode, writerVars,
                   logVars, suspend, replaying, guid, boundVars, ghostVars>>

Quiesce ==
    /\ mode # "down" /\ open < MaxTxg /\ open < synced + TXG_CONCURRENT_STATES
    /\ open' = open + 1
    /\ UNCHANGED <<synced, syncing, grp, stable, diskVars, alloc, zh, mode, itxs, writerVars,
                   logVars, suspend, replaying, guid, op, boundVars, ghostVars>>

\* How many log blocks at the head of the list a group can free.
Freeable(txg) ==
    LET done(l) == ~l.buf /\ l.max <= txg
    IN  Max({n \in 0 .. Len(lwbs) : \A i \in 1 .. n : done(lwbs[i])})

Remaining(txg) == SubSeq(lwbs, Freeable(txg) + 1, Len(lwbs))

\* The header zil_sync() starts from: a log that was destroyed in this group has
\* no header, or keeps its first block under a new guid.
HeaderAfter(txg) ==
    IF destroy.txg # txg
    THEN [zh EXCEPT !.replay_seq = IF grp[txg].replayed # 0 THEN grp[txg].replayed ELSE @]
    ELSE IF destroy.keep_first
         THEN [NoHeader EXCEPT !.log = [zh.log EXCEPT !.guid = guid + 1, !.seq = 1]]
         ELSE NoHeader

\* Mutant: the header is not moved on.
LogAfter_kept(txg) == HeaderAfter(txg).log

\* The first block of the log after that.
LogAfter(txg) ==
    IF lwbs = <<>> THEN HeaderAfter(txg).log
    ELSE IF Remaining(txg) = <<>> THEN Hole ELSE Head(Remaining(txg)).blk

\* A group does not sync while it is open, or a log block holds it.
Syncable(txg) == txg < open /\ \A i \in DOMAIN lwbs : lwbs[i].tx # txg

\* zil_sync(), in the first pass of spa_sync().  It is only called if the
\* dataset is dirty.
zil_sync ==
    LET txg == synced + 1
        freed == {lwbs[i].blk.addr : i \in 1 .. Freeable(txg)}
    IN  /\ mode # "down" /\ ~syncing /\ Syncable(txg)
        /\ syncing' = TRUE
        /\ IF grp[txg].ds
           THEN /\ zh' = [HeaderAfter(txg) EXCEPT !.log = LogAfter(txg)]
                /\ lwbs' = Remaining(txg)
                /\ grp' = [grp EXCEPT ![txg].free = @ \cup freed]
                /\ guid' = IF destroy.txg = txg /\ destroy.keep_first THEN guid + 1 ELSE guid
           ELSE UNCHANGED <<zh, lwbs, grp, guid>>
        /\ UNCHANGED <<open, synced, stable, diskVars, alloc, mode, itxs, writerVars, lr_seq,
                       destroy, suspend, replaying, op, boundVars, ghostVars>>

\* zio_flush() of some vdevs: what has been written to them reaches the disk.
Written(a) == pend[a] # Unwritten /\ pend[a].done
Flush(vdevs) ==
    LET flushed == {a \in UNION vdevs : Written(a)}
    IN  /\ disk' = [a \in Blks |-> IF a \in flushed THEN pend[a] ELSE disk[a]]
        /\ pend' = [a \in Blks |-> IF a \in flushed THEN Unwritten ELSE pend[a]]

\* vdev_config_sync() flushes the vdevs the group has dirtied: those where it
\* allocates or frees a block.  A log block dirties nothing when it is written,
\* but other blocks of the group may be on any vdev.
Dirtied(txg) == {v \in Vdevs : v \cap (grp[txg].alloc \cup grp[txg].free) # {}}

\* The group is on disk, and zil_clean() drops its records.
SyncDone ==
    LET txg == synced + 1 IN
    /\ syncing
    /\ \E vdevs \in SUBSET Vdevs : Dirtied(txg) \subseteq vdevs /\ Flush(vdevs)
    /\ syncing' = FALSE /\ synced' = txg
    /\ stable' = [zh |-> zh, alloc |-> (stable.alloc \cup grp[txg].alloc) \ grp[txg].free,
                  fs |-> stable.fs \o grp[txg].ops]
    /\ alloc' = alloc \ grp[txg].free
    /\ grp' = [grp EXCEPT ![txg] = EmptyGroup]
    /\ itxs' = SelectSeq(itxs, LAMBDA itx : itx.txg > txg)
    /\ UNCHANGED <<open, zh, mode, writerVars, logVars, suspend, replaying, guid, op,
                   boundVars, ghostVars>>

-----------------------------------------------------------------------------
(* Writing the log: zil_commit_writer(), one thread at a time.             *)

zil_alloc_lwb(bp, txg) ==
    [blk |-> bp, recs |-> <<>>, max |-> txg, buf |-> TRUE, zio |-> FALSE, issued |-> FALSE,
     tx |-> 0]

\* zio_alloc_zil() in the open group: any free block, or none.
zio_alloc_zil(addr) ==
    /\ addr \in Blks \ alloc \/ (addr = NoBlk /\ events < MaxEvents)
    /\ alloc' = alloc \cup ({addr} \ {NoBlk})
    /\ grp' = [grp EXCEPT ![open].ds = TRUE, ![open].alloc = @ \cup ({addr} \ {NoBlk})]

\* A failed allocation is counted.
Events(addr) == IF addr = NoBlk THEN events + 1 ELSE events

zil_get_commit_list == SelectSeq(itxs, LAMBDA itx : itx.txg > synced)

Suspended == suspend # "no"

\* The commit list is taken, and the last log block is continued.
CommitStart ==
    /\ mode = "up" /\ pc = "idle" /\ itxs # <<>>
    /\ todo' = zil_get_commit_list
    /\ itxs' = <<>>
    /\ batch' = {itxs[i].id : i \in DOMAIN itxs}
    /\ lwb' = (~Suspended /\ lwbs # <<>>)
    /\ pc' = IF ~Suspended /\ lwbs = <<>> THEN "create" ELSE "fill"
    /\ suspend' = IF suspend = "set" THEN "commit" ELSE suspend
    /\ UNCHANGED <<poolVars, diskVars, alloc, zh, mode, target, tree, logVars, replaying,
                   guid, op, boundVars, ghostVars>>

\* zil_create(): once the log was destroyed, take the block in the header, or
\* allocate one and wait until it is in the header.
zil_create ==
    /\ pc = "create" /\ synced >= destroy.txg
    /\ \/ /\ zh.log # Hole
          /\ lwbs' = <<zil_alloc_lwb(zh.log, 0)>>
          /\ lwb' = TRUE /\ pc' = "fill"
          /\ UNCHANGED <<alloc, grp, events, guid, target>>
       \/ /\ zh.log = Hole
          /\ \E addr \in Blks \cup {NoBlk} :
               /\ zio_alloc_zil(addr) /\ events' = Events(addr)
               /\ lwb' = (addr # NoBlk)
               /\ lwbs' = IF addr = NoBlk THEN <<>>
                          ELSE <<zil_alloc_lwb([addr |-> addr, birth |-> open, guid |-> guid + 1,
                                                seq |-> 1], open)>>
          /\ guid' = guid + 1
          /\ target' = open /\ pc' = "created"
    /\ UNCHANGED <<open, synced, syncing, stable, diskVars, zh, mode, itxs, todo, batch, tree,
                   lr_seq, destroy, suspend, replaying, op, crashes, errors, ghostVars>>

\* The new block is in the header, or the group of a record that was not
\* logged is on disk.
Created ==
    /\ pc \in {"created", "group"} /\ synced >= target
    /\ pc' = "fill"
    /\ UNCHANGED <<poolVars, diskVars, alloc, zh, mode, itxs, todo, batch, target, lwb, tree,
                   logVars, suspend, replaying, guid, op, boundVars, ghostVars>>

NextBlk(addr) ==
    IF addr = NoBlk THEN Hole
    ELSE [addr |-> addr, birth |-> open, guid |-> Last(lwbs).blk.guid,
          seq |-> Last(lwbs).blk.seq + 1]

\* Mutant: the group in which the next block was allocated is not held.
Started_nohold(addr) ==
    Append(Front(lwbs), [Last(lwbs) EXCEPT !.zio = TRUE, !.issued = TRUE])
    \o (IF addr = NoBlk THEN <<>> ELSE <<zil_alloc_lwb(NextBlk(addr), open)>>)

\* The list after the last block was sent off, which holds the open group.
Started(addr) ==
    Append(Front(lwbs), [Last(lwbs) EXCEPT !.zio = TRUE, !.issued = TRUE, !.tx = open])
    \o (IF addr = NoBlk THEN <<>> ELSE <<zil_alloc_lwb(NextBlk(addr), open)>>)

\* zil_lwb_write_start(): allocate the next block, and start writing the last
\* one, which points to it.
zil_lwb_write_start(addr) ==
    /\ zio_alloc_zil(addr)
    /\ pend' = [pend EXCEPT ![Last(lwbs).blk.addr] =
                   [guid |-> Last(lwbs).blk.guid, seq |-> Last(lwbs).blk.seq,
                    next |-> NextBlk(addr), recs |-> Last(lwbs).recs, done |-> FALSE]]
    /\ tree' = IF addr = NoBlk THEN tree
               ELSE tree \cup {v \in Vdevs : Last(lwbs).blk.addr \in v}
    /\ lwb' = (addr # NoBlk)

\* The list with the record of itx in its last block.
Logged(list, itx) ==
    Append(Front(list),
           [Last(list) EXCEPT !.zio = TRUE,
                              !.recs = Append(@, [id |-> itx.id, txg |-> itx.txg, seq |-> lr_seq + 1]),
                              !.max = Max({@, itx.txg})])

\* zil_lwb_commit() for the first record of the commit list.  A record of a
\* group that has synced is not needed, and one that comes after a failed
\* allocation is left to the group.
SkipRecord ==
    /\ pc = "fill" /\ todo # <<>>
    /\ Head(todo).txg <= synced \/ ~lwb
    /\ todo' = Tail(todo)
    /\ UNCHANGED <<poolVars, diskVars, alloc, zh, mode, itxs, batch, pc, target, lwb, tree,
                   logVars, suspend, replaying, guid, op, boundVars, ghostVars>>

\* zil_lwb_write_init()
Inited(list) == Append(Front(list), [Last(list) EXCEPT !.zio = TRUE])

\* The record goes into the last block unless zl_get_data() cannot read the
\* data: then its group has to sync or, if a later operation has removed or
\* truncated the file, the record is dropped.  (If the group has synced since
\* the record was looked at, it is dropped as in SkipRecord.)
PutRecord(list) ==
    \/ /\ lwbs' = Logged(list, Head(todo)) /\ lr_seq' = lr_seq + 1
       /\ UNCHANGED <<pc, target, events, dropped>>
    \/ /\ events < MaxEvents /\ events' = events + 1
       /\ lwbs' = Inited(list) /\ lr_seq' = lr_seq
       /\ \/ pc' = "group" /\ target' = Head(todo).txg /\ dropped' = dropped
          \/ /\ op > Head(todo).id /\ dropped' = dropped \cup {Head(todo).id}
             /\ UNCHANGED <<pc, target>>

LogRecord ==
    /\ pc = "fill" /\ todo # <<>> /\ Head(todo).txg > synced /\ lwb
    /\ ~Head(todo).big
    /\ todo' = Tail(todo)
    /\ \/ /\ Len(Last(lwbs).recs) < LwbSize
          /\ PutRecord(lwbs)
          /\ UNCHANGED <<alloc, grp, pend, tree, lwb>>
       \/ /\ Len(Last(lwbs).recs) = LwbSize
          /\ \E addr \in Blks \cup {NoBlk} :
               /\ zil_lwb_write_start(addr)
               /\ IF addr = NoBlk
                  THEN /\ lwbs' = Started(addr) /\ events' = Events(addr)
                       /\ UNCHANGED <<lr_seq, pc, target, dropped>>
                  ELSE PutRecord(Started(addr))
    /\ UNCHANGED <<open, synced, syncing, stable, disk, zh, mode, itxs, batch, destroy,
                   suspend, replaying, guid, op, crashes, errors, acked, lost, history>>

\* A record that does not fit into a new block either waits for its group.
\* The new block stays empty, and is written all the same.
BigRecord ==
    /\ pc = "fill" /\ todo # <<>> /\ Head(todo).txg > synced /\ lwb
    /\ Head(todo).big
    /\ todo' = Tail(todo)
    /\ \E addr \in Blks \cup {NoBlk} :
         /\ zil_lwb_write_start(addr) /\ events' = Events(addr)
         /\ IF addr = NoBlk THEN lwbs' = Started(addr) /\ UNCHANGED <<pc, target>>
            ELSE lwbs' = Inited(Started(addr)) /\ pc' = "group" /\ target' = Head(todo).txg
    /\ UNCHANGED <<open, synced, syncing, stable, disk, zh, mode, itxs, batch, lr_seq, destroy,
                   suspend, replaying, guid, op, crashes, errors, ghostVars>>

\* All records are in blocks: the last block goes out if it was meant to have
\* any.
LastBlock ==
    /\ pc = "fill" /\ todo = <<>>
    /\ pc' = "wait"
    /\ \/ /\ lwb /\ Last(lwbs).zio
          /\ \E addr \in Blks \cup {NoBlk} :
               /\ zil_lwb_write_start(addr) /\ events' = Events(addr)
               /\ lwbs' = Started(addr)
       \/ /\ ~(lwb /\ Last(lwbs).zio)
          /\ UNCHANGED <<alloc, grp, events, pend, tree, lwb, lwbs>>
    /\ UNCHANGED <<open, synced, syncing, stable, disk, zh, mode, itxs, todo, batch, target, lr_seq,
                   destroy, suspend, replaying, guid, op, crashes, errors, ghostVars>>

\* zil_lwb_write_done(): the buffer is gone and the group is released.  The
\* block was written, or it was not: no error gets past this point, because of
\* ZIO_FLAG_DONT_PROPAGATE.
zil_lwb_write_done(i) ==
    LET a == lwbs[i].blk.addr IN
    /\ i \in DOMAIN lwbs /\ lwbs[i].issued /\ lwbs[i].buf
    /\ lwbs' = [lwbs EXCEPT ![i].buf = FALSE, ![i].zio = FALSE, ![i].tx = 0]
    /\ \/ pend' = [pend EXCEPT ![a].done = TRUE] /\ UNCHANGED <<events, errors>>
       \/ /\ events < MaxEvents /\ events' = events + 1 /\ errors' = errors + 1
          /\ pend' = [pend EXCEPT ![a] = Unwritten]
    /\ UNCHANGED <<poolVars, disk, alloc, zh, mode, itxs, writerVars, lr_seq, destroy, suspend,
                   replaying, guid, op, crashes, ghostVars>>

\* Mutant: the disks are not flushed.
FlushVdevs_none == UNCHANGED diskVars
zil_flush_vdevs == Flush(tree)

\* The blocks are written and flushed.  If a block could not be allocated, the
\* groups have to sync.
WaitBlocks ==
    /\ pc = "wait" /\ \A i \in DOMAIN lwbs : ~lwbs[i].issued \/ ~lwbs[i].buf
    /\ zil_flush_vdevs
    /\ tree' = {}
    /\ IF lwb THEN pc' = "idle" /\ acked' = acked \cup batch /\ batch' = {} /\ target' = 0
       ELSE pc' = "sync" /\ target' = open + TXG_DEFER_SIZE /\ UNCHANGED <<acked, batch>>
    /\ lwb' = FALSE
    /\ UNCHANGED <<poolVars, alloc, zh, mode, itxs, todo, logVars, suspend,
                   replaying, guid, op, boundVars, dropped, lost, history>>

WaitSync ==
    /\ pc = "sync" /\ synced >= target
    /\ pc' = "idle" /\ acked' = acked \cup batch /\ batch' = {} /\ target' = 0
    /\ suspend' = IF suspend = "commit" THEN "destroy" ELSE suspend
    /\ UNCHANGED <<poolVars, diskVars, alloc, zh, mode, itxs, todo, lwb, tree, logVars,
                   replaying, guid, op, boundVars, dropped, lost, history>>

-----------------------------------------------------------------------------
(* Reading, destroying, suspending and closing the log.                    *)

\* zil_read_log_block(): the block is the one bp means, and has a successor.
zil_read_log_block(bp) ==
    /\ bp # Hole
    /\ disk[bp.addr].guid = bp.guid /\ disk[bp.addr].seq = bp.seq
    /\ disk[bp.addr].next # Hole

\* zil_parse(): the block pointers on the chain, the last of which may lead to
\* nothing, and the records in them.  A log that was claimed ends where the
\* claim has ended.
zil_parse ==
    LET N == Cardinality(Blks)
        bp[n \in 0 .. N] ==
            IF n = 0 THEN zh.log
            ELSE IF zil_read_log_block(bp[n - 1]) THEN disk[bp[n - 1].addr].next ELSE Hole
        claimed(b) == zh.claim_txg = 0 \/ b.seq <= zh.claim_blk_seq
        blocks == SelectSeq([n \in 1 .. N + 1 |-> bp[n - 1]], LAMBDA b : b # Hole /\ claimed(b))
        read == SelectSeq(blocks, zil_read_log_block)
        recs == FlattenSeq([n \in DOMAIN read |-> disk[read[n].addr].recs])
    IN  [blocks |-> blocks,
         recs |-> SelectSeq(recs, LAMBDA r : zh.claim_txg = 0 \/ r.seq <= zh.claim_lr_seq)]

\* zil_destroy(): free the blocks in memory or, if there are none, the ones on
\* the disk; zil_sync() clears the header.
zil_destroy(keep_first) ==
    LET blocks == IF lwbs # <<>> THEN {lwbs[i].blk.addr : i \in DOMAIN lwbs}
                  ELSE IF keep_first THEN {}
                  ELSE {zil_parse.blocks[i].addr : i \in DOMAIN zil_parse.blocks}
    IN  /\ synced >= destroy.txg
        /\ IF zh.log = Hole THEN UNCHANGED <<destroy, grp, lwbs>>
           ELSE /\ destroy' = [txg |-> open, keep_first |-> keep_first]
                /\ grp' = [grp EXCEPT ![open].ds = TRUE, ![open].free = @ \cup blocks]
                /\ lwbs' = <<>>

\* zil_suspend(): set zl_suspend, commit everything, destroy the log.
SuspendSet ==
    /\ mode = "up" /\ suspend = "no" /\ events < MaxEvents
    /\ suspend' = "set" /\ events' = events + 1
    /\ UNCHANGED <<poolVars, diskVars, alloc, zh, mode, itxs, writerVars, logVars, replaying, guid,
                   op, crashes, errors, ghostVars>>

SuspendNothing ==
    /\ suspend = "set" /\ pc = "idle" /\ itxs = <<>>
    /\ suspend' = "destroy"
    /\ UNCHANGED <<poolVars, diskVars, alloc, zh, mode, itxs, writerVars, logVars, replaying, guid,
                   op, boundVars, ghostVars>>

SuspendDestroy ==
    /\ suspend = "destroy"
    /\ zil_destroy(FALSE)
    /\ suspend' = "suspended"
    /\ UNCHANGED <<open, synced, syncing, stable, diskVars, alloc, zh, mode, itxs, writerVars,
                   lr_seq, replaying, guid, op, boundVars, ghostVars>>

zil_resume ==
    /\ suspend = "suspended"
    /\ suspend' = "no"
    /\ UNCHANGED <<poolVars, diskVars, alloc, zh, mode, itxs, writerVars, logVars, replaying, guid,
                   op, boundVars, ghostVars>>

\* What zil_close() waits for: everything is committed, and the group of the
\* last block has synced.
Closeable ==
    /\ mode = "up" /\ suspend = "no" /\ pc = "idle" /\ itxs = <<>>
    /\ lwbs # <<>> => synced >= Last(lwbs).max

zil_close ==
    /\ Closeable /\ events < MaxEvents
    /\ mode' = "closed" /\ events' = events + 1
    /\ lwbs' = <<>>
    /\ history' = Applied
    /\ UNCHANGED <<poolVars, diskVars, alloc, zh, itxs, writerVars, lr_seq, destroy, suspend,
                   replaying, guid, op, crashes, errors, acked, dropped, lost>>

-----------------------------------------------------------------------------
(* Loss of power, and mounting the file system.                            *)

Crash ==
    /\ mode # "down" /\ crashes < MaxCrashes
    /\ crashes' = crashes + 1
    /\ mode' = "down"
    /\ \E kept \in SUBSET {a \in Blks : pend[a] # Unwritten} :
         /\ disk' = [a \in Blks |-> IF a \in kept THEN [pend[a] EXCEPT !.done = TRUE] ELSE disk[a]]
         /\ lost' = {v \in Vdevs : \E a \in v : Written(a) /\ a \notin kept}
    /\ pend' = [a \in Blks |-> Unwritten]
    /\ open' = synced + 1 /\ syncing' = FALSE
    /\ grp' = [txg \in 1 .. MaxTxg |-> EmptyGroup]
    /\ alloc' = stable.alloc /\ zh' = stable.zh
    /\ itxs' = <<>> /\ todo' = <<>> /\ batch' = {} /\ pc' = "idle" /\ target' = 0
    /\ lwbs' = <<>> /\ lwb' = FALSE /\ lr_seq' = 0 /\ tree' = {}
    /\ destroy' = [txg |-> 0, keep_first |-> FALSE]
    /\ suspend' = "no" /\ replaying' = 0
    /\ history' = IF mode \in {"up", "closed"} THEN Applied ELSE history
    /\ UNCHANGED <<synced, stable, guid, op, events, errors, acked, dropped>>

\* The blocks on the chain that were allocated in groups that are lost.
Claimed(p) == {p.blocks[i].addr : i \in {j \in DOMAIN p.blocks : p.blocks[j].birth >= open}}

\* zil_claim(), when the pool is opened: blocks are allocated again, and the
\* header says how far the log goes.
zil_claim ==
    LET p == zil_parse
    IN  /\ mode = "down" /\ open <= MaxTxg
        /\ mode' = "claimed" /\ lost' = {}
        /\ IF zh.claim_txg = 0 /\ zh.log # Hole
           THEN /\ zh' = [zh EXCEPT
                            !.claim_txg = open,
                            !.claim_blk_seq = Last(p.blocks).seq,
                            !.claim_lr_seq = IF p.recs = <<>> THEN 0 ELSE Last(p.recs).seq,
                            !.replay_needed = p.recs # <<>> \/ Len(p.blocks) > 1]
                /\ alloc' = alloc \cup Claimed(p)
                /\ grp' = [grp EXCEPT ![open].ds = TRUE, ![open].alloc = Claimed(p)]
           ELSE UNCHANGED <<zh, alloc, grp>>
        /\ UNCHANGED <<open, synced, syncing, stable, diskVars, itxs, writerVars, logVars, suspend,
                       replaying, guid, op, boundVars, acked, dropped, history>>

\* zil_replay(), when the file system is mounted.  The pool was opened only
\* once the claims had synced.
zil_replay ==
    /\ mode \in {"claimed", "closed"} /\ synced >= zh.claim_txg
    /\ replaying' = 0
    /\ IF zh.replay_needed
       THEN mode' = "replay" /\ UNCHANGED <<destroy, grp, lwbs>>
       ELSE mode' = "replayed" /\ zil_destroy(TRUE)
    /\ UNCHANGED <<open, synced, syncing, stable, diskVars, alloc, zh, itxs, writerVars, lr_seq,
                   suspend, guid, op, boundVars, ghostVars>>

\* Mutant: the records of groups that have synced are replayed again.
Replayable_all(r) == r.seq > zh.replay_seq
\* A record that was not replayed before and whose group was lost.
Replayable(r) == r.seq > zh.replay_seq /\ r.txg >= zh.claim_txg

\* zil_replay_log_record(), and zil_replaying() in the same transaction.
zil_replay_log_record ==
    LET r == zil_parse.recs[replaying + 1] IN
    /\ mode = "replay" /\ replaying < Len(zil_parse.recs)
    /\ replaying' = replaying + 1
    /\ grp' = IF Replayable(r)
              THEN [grp EXCEPT ![open].ops = Append(@, r.id), ![open].replayed = r.seq, ![open].ds = TRUE]
              ELSE grp
    /\ UNCHANGED <<open, synced, syncing, stable, diskVars, alloc, zh, mode, itxs, writerVars,
                   logVars, suspend, guid, op, boundVars, ghostVars>>

\* The log was replayed and is destroyed.
ReplayDone ==
    /\ mode = "replay" /\ replaying = Len(zil_parse.recs)
    /\ zil_destroy(FALSE)
    /\ mode' = "replayed"
    /\ UNCHANGED <<open, synced, syncing, stable, diskVars, alloc, zh, itxs, writerVars, lr_seq,
                   suspend, replaying, guid, op, boundVars, ghostVars>>

Mounted ==
    /\ mode = "replayed" /\ (destroy.keep_first \/ synced >= destroy.txg)
    /\ mode' = "up"
    /\ UNCHANGED <<poolVars, diskVars, alloc, zh, itxs, writerVars, logVars, suspend, replaying,
                   guid, op, boundVars, ghostVars>>

\* Somebody else uses a free block.
Overwrite(a) ==
    /\ mode # "down" /\ a \notin alloc /\ disk[a] # Unwritten
    /\ disk' = [disk EXCEPT ![a] = Unwritten]
    /\ UNCHANGED <<poolVars, pend, alloc, zh, mode, itxs, writerVars, logVars, suspend, replaying,
                   guid, op, boundVars, ghostVars>>

Next ==
    \/ Operation \/ Quiesce \/ zil_sync \/ SyncDone
    \/ CommitStart \/ zil_create \/ Created \/ SkipRecord \/ LogRecord \/ BigRecord \/ LastBlock
    \/ \E i \in DOMAIN lwbs : zil_lwb_write_done(i)
    \/ WaitBlocks \/ WaitSync
    \/ SuspendSet \/ SuspendNothing \/ SuspendDestroy \/ zil_resume \/ zil_close
    \/ Crash \/ zil_claim \/ zil_replay \/ zil_replay_log_record \/ ReplayDone \/ Mounted
    \/ \E a \in Blks : Overwrite(a)

Spec == Init /\ [][Next]_vars

-----------------------------------------------------------------------------
TypeOK ==
    /\ open \in 1 .. MaxTxg + 1 /\ synced \in 0 .. open - 1 /\ syncing \in BOOLEAN
    /\ alloc \subseteq Blks /\ stable.alloc \subseteq Blks
    /\ mode \in {"up", "closed", "down", "claimed", "replay", "replayed"}
    /\ pc \in {"idle", "create", "created", "group", "fill", "wait", "sync"}
    /\ suspend \in {"no", "set", "commit", "destroy", "suspended"}
    /\ lwb => pc # "idle" /\ lwbs # <<>>
    /\ acked \subseteq 1 .. op

\* zil.c:1577: an operation that zil_commit() has returned for is there after
\* any number of crashes, also one during replay, unless its file was gone when
\* it was to be logged, and if no log block failed to be written: zil_commit()
\* does not learn of such a failure.
CommittedSurvives ==
    mode = "replayed" /\ errors = 0 => acked \subseteq Range(Applied) \cup dropped

\* Replaying gives a state the file system was in before the crash: every
\* record once, in the order of the operations, and none without the ones
\* before it, apart from the writes to files that were gone.
ReplayGivesAPrefix ==
    LET kept(ops) == SelectSeq(ops, LAMBDA id : id \notin dropped)
    IN  mode = "replayed" => IsPrefix(kept(Applied), kept(history))

\* zil.c:973-981: whenever the power goes, every block that is allocated on
\* disk can be found from the header on disk, so that none is leaked, if no log
\* block failed to be written.  The comment relies on the transaction that is
\* held until the block before is written; a group that syncs then flushes the
\* vdev of the new block, and only this one for sure.  So a block can be
\* leaked, but only if the crash has caught the cache of another vdev.
NoBlockLeaks ==
    mode = "down" /\ errors = 0 =>
        \A v \in Vdevs :
          stable.alloc \cap v \subseteq {zil_parse.blocks[i].addr : i \in DOMAIN zil_parse.blocks}
            \/ ~(lost \subseteq {v})

\* A block is freed once, and not while it is in use.
FreedOnce ==
    /\ \A txg \in synced + 1 .. open :
         /\ grp[txg].free \subseteq alloc
         /\ \A later \in txg + 1 .. open : grp[txg].free \cap grp[later].free = {}
    /\ \A i \in DOMAIN lwbs :
         /\ lwbs[i].blk.addr \in alloc
         /\ \A txg \in synced + 1 .. open : lwbs[i].blk.addr \notin grp[txg].free
         /\ \A j \in DOMAIN lwbs : lwbs[i].blk.addr = lwbs[j].blk.addr => i = j

\* zil.c:580: the header points to the first block of the list, also while
\* zil_sync() frees blocks and others write new ones.
HeaderIsHead ==
    lwbs # <<>> /\ pc \notin {"create", "created"} => zh.log = Head(lwbs).blk

\* zil.c:382: a log that was claimed stays readable up to the end of the claim.
ClaimStaysReadable ==
    mode \in {"claimed", "replay"} /\ zh.claim_txg # 0 =>
        /\ Last(zil_parse.blocks).seq = zh.claim_blk_seq
        /\ zh.claim_lr_seq = IF zil_parse.recs = <<>> THEN 0 ELSE Last(zil_parse.recs).seq

\* zil.c:1900: when zil_close() is done waiting, one block is left at most.
CloseLeavesOneBlock == Closeable => Len(lwbs) <= 1

\* zil.c:1918: a snapshot is taken with an empty intent log.
SuspendedLogIsEmpty ==
    suspend = "suspended" /\ synced >= destroy.txg => stable.zh.log = Hole /\ lwbs = <<>>

\* The chain of log blocks is sound: types, the header points to its head, no
\* block of it is freed twice or in use twice, a claimed log stays readable, and
\* zil_suspend() and zil_close() leave as much of it as their callers need.
ChainIsSound ==
    /\ TypeOK /\ HeaderIsHead /\ FreedOnce /\ ClaimStaysReadable
    /\ SuspendedLogIsEmpty /\ CloseLeavesOneBlock
=============================================================================
