----------------------------- MODULE ConfigSync -----------------------------
(***************************************************************************)
(* How a transaction group becomes the state of the pool on disk:          *)
(* spa_sync() writes the blocks, vdev_config_sync() the labels and the     *)
(* uberblock, and after a loss of power vdev_uberblock_load() and          *)
(* vdev_label_read_config() choose what to open.                           *)
(*                                                                         *)
(* A disk has a volatile write cache.  A crash keeps any part of what is   *)
(* in the caches; zio_flush() makes a leaf's cache permanent.  A flush and *)
(* the writes that follow it are one step: a crash between the two is a    *)
(* crash after the step that keeps none of the writes.  The copies of the  *)
(* uberblock ring in the labels of one leaf are written and read together  *)
(* and are modelled as one.                                                *)
(***************************************************************************)
EXTENDS Integers, FiniteSets, FiniteSetsExt

CONSTANTS
    Leaves,             \* the disks
    Layouts,            \* the pools there may be, see layout
    VDEV_LABELS,        \* labels of a disk, even: half of them are even
    VDEV_UBERBLOCK_COUNT,
    SPA_DVAS_PER_BP,    \* vdevs that get the uberblock if no label changes
    MaxTxg              \* bound on the transaction groups

ASSUME ConfigAssumption ==
    /\ \A l \in Layouts : DOMAIN l.top = Leaves /\ l.idle \in BOOLEAN /\ l.opens \in Nat /\ l.errors \in Nat
    /\ VDEV_LABELS \in Nat \ {0, 1} /\ VDEV_UBERBLOCK_COUNT \in Nat \ {0, 1}
    /\ SPA_DVAS_PER_BP \in Nat \ {0}
    /\ MaxTxg \in Nat

VARIABLES
    layout,     \* the top-level vdev of every disk, whether there are groups in
                \* which nothing changes, and the bounds below
    disk,       \* disk[leaf][location]: what survives a crash
    cache,      \* cache[leaf]: the locations with a newer value in the cache
    avail,      \* the leaves that could be opened
    pc,         \* where spa_sync() is; "down" after a crash
    txg,        \* spa_syncing_txg
    ub,         \* spa_uberblock
    ubsync,     \* spa_ubsync: the uberblock that was loaded or synced last
    durable,    \* what the last group that was reported as synced leads to
    root,       \* what the root block pointer leads to: <<vdev, txg, opens>>
    config,     \* config[top]: version of the in-core configuration of top
    dirty,      \* spa_config_dirty_list
    written,    \* vdevs with blocks of this group: spa_vdev_txg_list
    svd,        \* the vdevs that are to get the uberblock
    update,     \* SPA_ASYNC_CONFIG_UPDATE has been requested
    opens,      \* number of times the pool was opened, and the clock
    errors      \* writes that have failed

vars == <<layout, disk, cache, avail, pc, txg, ub, ubsync, durable, root, config, dirty, written,
          svd, update, opens, errors>>

TopOf == layout.top
Tops == {TopOf[leaf] : leaf \in Leaves}
IdleGroups == layout.idle
MaxOpens == layout.opens    \* how often the pool is opened
MaxErrors == layout.errors  \* how many writes of labels and uberblocks fail

LeavesOf(T) == {leaf \in avail : TopOf[leaf] \in T}
Slot(t) == <<"ub", t % VDEV_UBERBLOCK_COUNT>>
LabelAt(l) == <<"label", l>>
Labels == 0 .. VDEV_LABELS - 1

\* zio_flush() of the vdevs T, seen from a given cache.
Flushed(T) ==
    [leaf \in Leaves |-> IF leaf \in LeavesOf(T)
                         THEN [loc \in DOMAIN cache[leaf] \cup DOMAIN disk[leaf] |->
                                 IF loc \in DOMAIN cache[leaf] THEN cache[leaf][loc]
                                 ELSE disk[leaf][loc]]
                         ELSE disk[leaf]]

\* What is left in the caches after that, plus the new writes of every leaf.
Cached(T, new) ==
    [leaf \in Leaves |->
        LET old == IF leaf \in LeavesOf(T) THEN {} ELSE DOMAIN cache[leaf]
        IN  [loc \in old \cup DOMAIN new[leaf] |->
                IF loc \in DOMAIN new[leaf] THEN new[leaf][loc] ELSE cache[leaf][loc]]]

NoWrites == [leaf \in Leaves |-> [loc \in {} |-> {}]]

\* The writes of value[leaf] to the locations at[leaf], for some of the leaves.
Writes(at, value) ==
    [leaf \in Leaves |-> IF leaf \in DOMAIN at THEN [loc \in at[leaf] |-> value[leaf]]
                         ELSE NoWrites[leaf]]

-----------------------------------------------------------------------------
\* A new pool with that layout.
Created(first) ==
    /\ disk = [leaf \in Leaves |->
                  [loc \in {LabelAt(l) : l \in Labels} \cup {Slot(1)} |->
                      IF loc = Slot(1) THEN first ELSE [txg |-> 1, config |-> <<1, 0>>]]]
    /\ cache = NoWrites
    /\ avail = Leaves
    /\ pc = "idle"
    /\ txg = 1 /\ ub = first /\ ubsync = first /\ durable = {}
    /\ root = {} /\ config = first.config
    /\ dirty = {} /\ written = {} /\ svd = {}
    /\ update = FALSE
    /\ opens = 0 /\ errors = 0

Init ==
    /\ layout \in Layouts
    /\ Created([txg |-> 1, time |-> 0, root |-> {}, config |-> [t \in Tops |-> <<1, 0>>]])

\* spa_sync(), up to the point where the dirty data has converged: blocks go
\* to the vdevs W, and the configurations of the vdevs D have changed.  A
\* changed configuration is itself written (spa_sync_config_object()).
spa_sync(W, D) ==
    /\ pc = "idle" /\ txg < MaxTxg
    /\ dirty \cup D # {} \/ ~IdleGroups => W # {}
    /\ txg' = txg + 1
    /\ written' = W
    /\ root' = root \cup {<<top, txg', opens>> : top \in W}
    /\ config' = [top \in Tops |-> IF top \in D THEN <<txg', opens>> ELSE config[top]]
    /\ dirty' = dirty \cup D
    /\ cache' = Cached({}, Writes([leaf \in LeavesOf(W) |-> {<<"data", txg', opens>>}],
                                  [leaf \in LeavesOf(W) |-> TRUE]))
    /\ pc' = "config"
    /\ UNCHANGED <<disk, avail, ub, ubsync, durable, svd, update, opens, errors>>

\* The vdevs that are to get the uberblock: all of them with their labels, or
\* a random few.
SyncTargets ==
    IF dirty # {} THEN {Tops}
    ELSE kSubset(Min({SPA_DVAS_PER_BP, Cardinality(Tops)}), Tops)

\* Mutant: the caches are not flushed before the uberblock is written.
BlocksFlushed_none == {}
\* The vdevs whose blocks of this group are flushed first.
BlocksFlushed == written

\* Mutant: all labels at once.
LabelWrites_all(l) == LeavesOf(dirty) \X Labels
\* The labels l, l + 2, ... of the dirty vdevs, and those of them that a write
\* error spares.
LabelWrites(l) == {<<leaf, k>> \in LeavesOf(dirty) \X Labels : k % 2 = l}

vdev_label_sync(ok) ==
    Writes([leaf \in LeavesOf(dirty) |-> {LabelAt(w[2]) : w \in {v \in ok : v[1] = leaf}}],
           [leaf \in LeavesOf(dirty) |-> [txg |-> txg, config |-> config[TopOf[leaf]]]])

\* vdev_label_sync_list() up to its flush: every dirty vdev needs one good
\* write, or the call fails.
vdev_label_sync_list(l, flush, next) ==
    \E ok \in SUBSET LabelWrites(l) :
        /\ errors' = errors + Cardinality(LabelWrites(l) \ ok)
        /\ errors' <= MaxErrors
        /\ disk' = Flushed(flush)
        /\ cache' = Cached(flush, vdev_label_sync(ok))
        /\ pc' = IF \A top \in dirty : \E w \in ok : TopOf[w[1]] = top THEN next ELSE "failed"

\* vdev_config_sync(): nothing to do, or flush the blocks of this group and
\* write the even labels.
ConfigSync ==
    LET new == [txg |-> txg, time |-> opens, root |-> root, config |-> config] IN
    /\ pc = "config"
    /\ ub' = IF ub.txg < txg THEN new ELSE ub
    /\ svd' \in SyncTargets
    /\ \/ /\ ub.txg < txg /\ written = {} /\ dirty = {}
          /\ pc' = "done"
          /\ UNCHANGED <<disk, cache, errors>>
       \/ /\ ~(ub.txg < txg /\ written = {} /\ dirty = {})
          /\ vdev_label_sync_list(0, BlocksFlushed, "uberblock")
    /\ UNCHANGED <<avail, txg, ubsync, durable, root, config, dirty, written, update, opens>>

\* The even labels are flushed; the uberblock goes to the leaves of svd.  One
\* good write is enough.
UberblockSync ==
    /\ pc = "uberblock"
    /\ \E ok \in SUBSET LeavesOf(svd) :
         /\ errors' = errors + Cardinality(LeavesOf(svd) \ ok)
         /\ errors' <= MaxErrors
         /\ disk' = Flushed(dirty)
         /\ cache' = Cached(dirty, Writes([leaf \in ok |-> {Slot(ub.txg)}],
                                          [leaf \in ok |-> ub]))
         /\ pc' = IF ok # {} THEN "odd" ELSE "failed"
    /\ UNCHANGED <<avail, txg, ub, ubsync, durable, root, config, dirty, written, svd, update, opens>>

\* The uberblocks are flushed, then the odd labels are written.
OddLabels ==
    /\ pc = "odd"
    /\ vdev_label_sync_list(1, svd, "done")
    /\ UNCHANGED <<avail, txg, ub, ubsync, durable, root, config, dirty, written, svd, update, opens>>

\* An error: the writes that were good are flushed, and spa_sync() tries again,
\* at once and then whenever the pool is resumed.
Retry ==
    /\ pc = "failed"
    /\ disk' = Flushed(dirty)
    /\ cache' = Cached(dirty, NoWrites)
    /\ pc' = "config"
    /\ UNCHANGED <<avail, txg, ub, ubsync, durable, root, config, dirty, written, svd, update, opens, errors>>

\* The odd labels are flushed and the transaction group is on disk.
SyncDone ==
    /\ pc = "done"
    /\ disk' = Flushed(dirty)
    /\ cache' = Cached(dirty, NoWrites)
    /\ dirty' = {}
    /\ ubsync' = ub
    /\ durable' = IF written # {} THEN root ELSE durable
    /\ pc' = "idle"
    /\ UNCHANGED <<avail, txg, ub, root, config, written, svd, update, opens, errors>>

-----------------------------------------------------------------------------
(* Loss of power, and opening the pool.                                    *)

\* Any part of what is in the caches may have reached the disks.
Crash ==
    /\ pc # "down"
    /\ \E kept \in {k \in [Leaves -> SUBSET UNION {DOMAIN cache[leaf] : leaf \in Leaves}] :
                       \A leaf \in Leaves : k[leaf] \subseteq DOMAIN cache[leaf]} :
         disk' = [leaf \in Leaves |->
                     [loc \in kept[leaf] \cup DOMAIN disk[leaf] |->
                         IF loc \in kept[leaf] THEN cache[leaf][loc] ELSE disk[leaf][loc]]]
    /\ cache' = NoWrites
    /\ pc' = "down"
    /\ UNCHANGED <<avail, txg, ub, ubsync, durable, root, config, dirty, written, svd, update, opens, errors>>

Uberblocks(leaf) ==
    {disk[leaf][loc] : loc \in {Slot(t) : t \in 1 .. MaxTxg} \cap DOMAIN disk[leaf]}

\* Mutant: uberblocks of the same group are told apart by chance.
vdev_uberblock_compare_txg(a, b) == a.txg > b.txg

\* Among uberblocks with equal txg, the one with the latest timestamp.
vdev_uberblock_compare(a, b) ==
    a.txg > b.txg \/ (a.txg = b.txg /\ a.time > b.time)

\* The uberblocks vdev_uberblock_load() can settle on when A can be opened.
BestUberblocks(A) ==
    LET all == UNION {Uberblocks(leaf) : leaf \in A}
    IN  {u \in all : \A v \in all : ~vdev_uberblock_compare(v, u)}

\* vdev_label_read_config(): the configuration in the first of the newest labels
\* of the leaf that are not newer than t, or none.
vdev_label_read_config(leaf, t) ==
    LET label(l) == disk[leaf][LabelAt(l)]
        valid == {l \in Labels : label(l).txg <= t}
        newest == {l \in valid : \A k \in valid : label(k).txg <= label(l).txg}
    IN  {label(l).config : l \in {n \in newest : \A k \in newest : n <= k}}

HasBlock(A, b) ==
    \E leaf \in A : TopOf[leaf] = b[1] /\ <<"data", b[2], b[3]>> \in DOMAIN disk[leaf]

\* The replicas at hand suffice: these are all the disks, or every vdev can be
\* opened and they have the state the pool was in when it was last used.
\* Opening older replicas alone makes a second pool, which no code can tell.
Sufficient(A) ==
    \/ A = Leaves
    \/ /\ \A top \in Tops : \E leaf \in A : TopOf[leaf] = top
       /\ \A b \in ubsync.root : HasBlock(A, b)
       /\ \E leaf \in A : \E u \in Uberblocks(leaf) : u.root = ubsync.root

\* An import wants the labels brought up to date, an open does not.
NeedUpdate(import) == import

\* spa_load().  An open leaves the labels alone; an import asks for all of them
\* to be brought up to date (spa_config_update()) some time later.
spa_load(A, import) ==
    /\ pc = "down" /\ opens < MaxOpens
    /\ Sufficient(A)
    /\ avail' = A
    /\ \E u \in BestUberblocks(A) :
         /\ ub' = u /\ ubsync' = u
         /\ txg' = u.txg /\ root' = u.root /\ config' = u.config
    /\ dirty' = {} /\ written' = {} /\ svd' = {}
    /\ update' = NeedUpdate(import)
    /\ opens' = opens + 1
    /\ pc' = "idle"
    /\ UNCHANGED <<disk, cache, durable, errors>>

\* spa_config_update(SPA_CONFIG_UPDATE_POOL)
spa_config_update ==
    /\ pc = "idle" /\ update
    /\ update' = FALSE
    /\ dirty' = Tops
    /\ UNCHANGED <<disk, cache, avail, pc, txg, ub, ubsync, durable, root, config, written, svd, opens, errors>>

Next ==
    /\ \/ \E W, D \in SUBSET Tops : spa_sync(W, D)
       \/ ConfigSync \/ UberblockSync \/ OddLabels \/ Retry \/ SyncDone
       \/ Crash
       \/ \E A \in SUBSET Leaves, import \in BOOLEAN : spa_load(A, import)
       \/ spa_config_update
    /\ UNCHANGED layout

Spec == Init /\ [][Next]_vars

-----------------------------------------------------------------------------
TypeOK ==
    /\ DOMAIN disk = Leaves /\ DOMAIN cache = Leaves
    /\ avail \subseteq Leaves
    /\ pc \in {"idle", "config", "uberblock", "odd", "failed", "done", "down"}
    /\ txg \in 1 .. MaxTxg /\ ub.txg <= txg /\ ubsync.txg <= ub.txg
    /\ dirty \subseteq Tops /\ written \subseteq Tops /\ svd \subseteq Tops
    /\ update \in BOOLEAN
    /\ opens \in 0 .. MaxOpens /\ errors \in 0 .. MaxErrors

\* Whatever the moment of the crash, the uberblock that is opened leads only to
\* blocks that are on the disks.
OpenedStateIsComplete ==
    TypeOK /\ \A A \in SUBSET Leaves :
        pc = "down" /\ Sufficient(A) => \A u \in BestUberblocks(A) : \A b \in u.root : HasBlock(A, b)

\* A group that spa_sync() has reported as synced is never lost, also when a
\* replica that was away comes back with an uberblock of an abandoned group of
\* the same number.
SyncedIsDurable ==
    pc = "down" =>
        \A A \in SUBSET Leaves :
            Sufficient(A) => \A u \in BestUberblocks(A) : durable \subseteq u.root

\* Of every vdev, the label of some leaf describes it as of the uberblock.
LabelFits ==
    \A u \in BestUberblocks(Leaves), top \in Tops :
        \E leaf \in Leaves : TopOf[leaf] = top /\ vdev_label_read_config(leaf, u.txg) = {u.config[top]}

\* vdev_label.c:1256-1262 and 1267-1280: between the two rounds of labels, one
\* half of the labels is valid with respect to the newest uberblock.  This
\* holds until the pool is opened for the second time.
FirstCrashLeavesValidLabels ==
    pc = "down" /\ opens = 0 => LabelFits
=============================================================================
