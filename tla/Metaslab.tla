------------------------------ MODULE Metaslab ------------------------------
(***************************************************************************)
(* The allocation of space in one metaslab, module/zfs/metaslab.c and      *)
(* space_map.c: allocation, free and claim of blocks, the loading of the   *)
(* map of free space, and metaslab_sync() and metaslab_sync_done(), which  *)
(* spa_sync() calls through vdev_sync() and vdev_sync_done() while other   *)
(* threads allocate for later transaction groups.                          *)
(*                                                                         *)
(* Blocks are of one size, and a space map is the set of its blocks.  The  *)
(* space map object on disk, a log of allocations and frees, is the set of *)
(* blocks it says are allocated.  ms_lock is dropped while a map is        *)
(* loaded, which takes two steps.  metaslab_sync() drops it too, around    *)
(* space_map_truncate() and the writes of space_map_sync(), and yet is one *)
(* step: meanwhile others change ms_map and the maps of later groups only, *)
(* which it has read before or does not read.  All else that is done under *)
(* ms_lock is one step.                                                    *)
(***************************************************************************)
EXTENDS Integers, FiniteSets

CONSTANTS
    Blocks,
    FirstTxg, MaxTxg,    \* the group that created the pool; the last one that opens
    MaxPass,             \* the passes of spa_sync() that free blocks
    MaxCrashes

TXG_SIZE == 4
TXG_CONCURRENT_STATES == 3
TXG_DEFER_SIZE == 2

ASSUME MetaslabAssumption ==
    FirstTxg \in Nat \ {0} /\ MaxTxg \in Nat /\ MaxPass \in Nat /\ MaxCrashes \in Nat

Slots == 0 .. TXG_SIZE - 1
DeferSlots == 0 .. TXG_DEFER_SIZE - 1
Slot(txg) == txg % TXG_SIZE
TXG_CLEAN(txg) == txg - 1

VARIABLES
    ms_map, sm,                  \* the free blocks, and whether they are loaded
    active,                      \* METASLAB_ACTIVE_MASK of ms_weight
    ms_allocmap, ms_freemap, ms_defermap,
    ms_smo, ms_smo_syncing,      \* the space map object as of the last group, and now
    ms_list,                     \* the slots of vdev_ms_list the metaslab is in
    open, last, sync, pass,      \* the open and the last synced group; spa_sync()
    birth, used, flight,         \* the group of a block; those in use, or being written
    disk,                        \* the states on disk a pool can go back to
    opened, claims, crashes      \* the state the pool was opened with; what to claim

maps == <<ms_map, sm, active>>
txgs == <<open, last, sync, pass>>
pool == <<disk, opened, claims, crashes>>
vars == <<maps, ms_allocmap, ms_freemap, ms_defermap, ms_smo, ms_smo_syncing, ms_list, txgs,
          birth, used, flight, pool>>

Txg == last + 1                  \* the group that syncs, or will sync next

\* metaslab_init() with an existing space map object.
Fresh(smo) ==
    /\ ms_map' = {} /\ sm' = "unloaded" /\ active' = FALSE
    /\ ms_allocmap' = [s \in Slots |-> {}] /\ ms_freemap' = [s \in Slots |-> {}]
    /\ ms_defermap' = [d \in DeferSlots |-> {}]
    /\ ms_smo' = smo /\ ms_smo_syncing' = smo /\ ms_list' = {}

Init ==
    /\ ms_map = {} /\ sm = "unloaded" /\ active = FALSE
    /\ ms_allocmap = [s \in Slots |-> {}] /\ ms_freemap = [s \in Slots |-> {}]
    /\ ms_defermap = [d \in DeferSlots |-> {}]
    /\ ms_smo = {} /\ ms_smo_syncing = {} /\ ms_list = {}
    /\ open = FirstTxg + 1 /\ last = FirstTxg /\ sync = "idle" /\ pass = 0
    /\ birth = [b \in Blocks |-> 0] /\ used = {} /\ flight = {}
    /\ disk = [t \in {FirstTxg} |-> [live |-> {}, smo |-> {}]]
    /\ opened = FirstTxg /\ claims = {} /\ crashes = 0

-----------------------------------------------------------------------------
(* Loading of the map.                                                     *)

\* metaslab_activate() of a metaslab that is not loaded, until space_map_load()
\* has read the object and gets ms_lock back.
LoadStart ==
    /\ sm = "unloaded" /\ sm' = "loading"
    /\ UNCHANGED <<ms_map, active, ms_allocmap, ms_freemap, ms_defermap, ms_smo, ms_smo_syncing,
                   ms_list, txgs, birth, used, flight, pool>>

Deferred == UNION {ms_defermap[d] : d \in DeferSlots}

\* Mutant: the deferred frees are not taken out of the map.
Loaded_all == Blocks \ ms_smo
\* The map when it is loaded.
Loaded == Blocks \ (ms_smo \cup Deferred)

\* The rest of space_map_load() and of metaslab_activate().
LoadDone ==
    /\ sm = "loading"
    /\ \/ sm' = "loaded" /\ ms_map' = Loaded /\ active' = TRUE
       \/ sm' = "unloaded" /\ UNCHANGED <<ms_map, active>>
    /\ UNCHANGED <<ms_allocmap, ms_freemap, ms_defermap, ms_smo, ms_smo_syncing, ms_list, txgs,
                   birth, used, flight, pool>>

\* metaslab_group_alloc() finds no segment that is large enough, or
\* metaslab_sync_reassess() finds the map fragmented.
metaslab_passivate ==
    /\ active /\ sm = "loaded" /\ active' = FALSE
    /\ UNCHANGED <<ms_map, sm, ms_allocmap, ms_freemap, ms_defermap, ms_smo, ms_smo_syncing,
                   ms_list, txgs, birth, used, flight, pool>>

-----------------------------------------------------------------------------
(* Blocks.                                                                 *)

\* The groups blocks are allocated for: the syncing one, by spa_sync(), and the
\* open one and the one that quiesces, by dmu_sync() and the intent log.
AllocTxgs == {t \in {Txg, open - 1, open} : t > last /\ ~(t = Txg /\ sync = "committed")}

\* vdev_dirty() is called for the first block of a group only.
Dirtied(map, txg) == IF map[Slot(txg)] = {} THEN ms_list \cup {Slot(txg)} ELSE ms_list

\* metaslab_group_alloc() of a loaded metaslab.
metaslab_alloc(b, txg) ==
    /\ claims = {} /\ txg \in AllocTxgs
    /\ sm = "loaded" /\ b \in ms_map
    /\ active' = TRUE /\ ms_map' = ms_map \ {b} /\ UNCHANGED sm
    /\ ms_list' = Dirtied(ms_allocmap, txg)
    /\ ms_allocmap' = [ms_allocmap EXCEPT ![Slot(txg)] = @ \cup {b}]
    /\ birth' = [birth EXCEPT ![b] = txg] /\ used' = used \cup {b} /\ flight' = flight \cup {b}
    /\ UNCHANGED <<ms_freemap, ms_defermap, ms_smo, ms_smo_syncing, txgs, pool>>

WriteDone(b) ==
    /\ b \in flight /\ flight' = flight \ {b}
    /\ UNCHANGED <<maps, ms_allocmap, ms_freemap, ms_defermap, ms_smo, ms_smo_syncing, ms_list,
                   txgs, birth, used, pool>>

\* metaslab_free() with now, of a block whose write has failed or whose second
\* copy could not be allocated.
metaslab_free_now(b) ==
    /\ b \in flight /\ flight' = flight \ {b} /\ used' = used \ {b}
    /\ ms_allocmap' = [ms_allocmap EXCEPT ![Slot(birth[b])] = @ \ {b}]
    /\ ms_map' = ms_map \cup {b}
    /\ UNCHANGED <<sm, active, ms_freemap, ms_defermap, ms_smo, ms_smo_syncing, ms_list, txgs,
                   birth, pool>>

\* metaslab_free() by spa_sync(), of a block the syncing group does not use.
metaslab_free(b) ==
    /\ sync = "syncing" /\ pass < MaxPass
    /\ b \in used \ flight /\ birth[b] <= Txg
    /\ used' = used \ {b}
    /\ ms_list' = Dirtied(ms_freemap, Txg)
    /\ ms_freemap' = [ms_freemap EXCEPT ![Slot(Txg)] = @ \cup {b}]
    /\ UNCHANGED <<maps, ms_allocmap, ms_defermap, ms_smo, ms_smo_syncing, txgs, birth, flight,
                   pool>>

\* metaslab_claim() of a block of the intent log, in the first group.
metaslab_claim(b) ==
    /\ b \in claims /\ sm = "loaded" /\ b \in ms_map
    /\ claims' = claims \ {b} /\ ms_map' = ms_map \ {b} /\ active' = TRUE /\ UNCHANGED sm
    /\ ms_list' = Dirtied(ms_allocmap, Txg)
    /\ ms_allocmap' = [ms_allocmap EXCEPT ![Slot(Txg)] = @ \cup {b}]
    /\ birth' = [birth EXCEPT ![b] = Txg] /\ used' = used \cup {b}
    /\ UNCHANGED <<ms_freemap, ms_defermap, ms_smo, ms_smo_syncing, txgs, flight, disk, opened,
                   crashes>>

-----------------------------------------------------------------------------
(* Transaction groups.                                                     *)

\* At most TXG_CONCURRENT_STATES groups are open, quiesce and sync.
Concurrent == open - last < TXG_CONCURRENT_STATES

NextGroup ==
    /\ claims = {} /\ open < MaxTxg /\ Concurrent
    /\ open' = open + 1
    /\ UNCHANGED <<maps, ms_allocmap, ms_freemap, ms_defermap, ms_smo, ms_smo_syncing, ms_list,
                   last, sync, pass, birth, used, flight, pool>>

\* Writes for a group are over when it syncs.
Quiet == \A b \in flight : birth[b] # Txg

spa_sync ==
    /\ sync = "idle" /\ Txg < open /\ Quiet
    /\ sync' = "syncing" /\ pass' = 0
    /\ UNCHANGED <<maps, ms_allocmap, ms_freemap, ms_defermap, ms_smo, ms_smo_syncing, ms_list,
                   open, last, birth, used, flight, pool>>

\* The blocks allocated for groups after txg.
Future(txg) == UNION {ms_allocmap[Slot(txg + i)] : i \in 1 .. TXG_CONCURRENT_STATES - 1}

\* Mutant: the allocations of later groups are forgotten.
Condensed_now(freed) == Blocks \ UNION {ms_map, freed, Deferred}
\* The allocated blocks, from what is in core.
Condensed(freed) == Blocks \ UNION {ms_map, freed, Deferred, Future(Txg)}

\* vdev_sync() and metaslab_sync(), in one of the passes of spa_sync().  The
\* object is condensed in the first pass if that is worth while.
metaslab_sync ==
    LET s == Slot(Txg)
        clean == Slot(TXG_CLEAN(Txg))
        freed == ms_freemap[clean] \cup ms_freemap[s]
    IN  /\ sync = "syncing" /\ s \in ms_list /\ Quiet
        /\ pass' = IF pass = MaxPass THEN pass ELSE pass + 1
        /\ ms_list' = (ms_list \ {s}) \cup {clean}
        /\ ms_allocmap' = [ms_allocmap EXCEPT ![s] = {}]
        /\ ms_freemap' = [ms_freemap EXCEPT ![s] = {}, ![clean] = freed]
        /\ \/ ms_smo_syncing' = (ms_smo_syncing \cup ms_allocmap[s]) \ ms_freemap[s]
           \/ /\ sm = "loaded" /\ pass = 0 /\ ms_allocmap[s] \cup ms_freemap[s] # {}
              /\ ms_smo_syncing' = Condensed(freed)
        /\ UNCHANGED <<maps, ms_defermap, ms_smo, open, last, sync, birth, used, flight, pool>>

\* The uberblock is written: the group is on disk.
vdev_config_sync ==
    LET live == {b \in used : birth[b] <= Txg}
    IN  /\ sync = "syncing" /\ Slot(Txg) \notin ms_list
        /\ Quiet
        /\ sync' = "committed"
        /\ disk' = [t \in {u \in DOMAIN disk : u >= Txg - TXG_DEFER_SIZE} \cup {Txg} |->
                      IF t = Txg THEN [live |-> {<<b, birth[b]>> : b \in live}, smo |-> ms_smo_syncing]
                      ELSE disk[t]]
        /\ UNCHANGED <<maps, ms_allocmap, ms_freemap, ms_defermap, ms_smo, ms_smo_syncing,
                       ms_list, open, last, pass, birth, used, flight, opened, claims, crashes>>

\* Whether the map is evicted: it is not active, and all allocations have synced.
Evictable(txg) == ~active /\ Future(txg) = {}

\* Mutant: a metaslab with deferred frees is left alone.
Redirty_never(space) == {}
\* The slot the metaslab must be in to sync again, if it has deferred frees.
Redirty(space) == IF space = {} THEN {} ELSE {Slot(Txg + 1)}

\* Mutant: frees are deferred for one group.
DeferSlot_one(txg) == 0
\* The defermap of a group.
DeferSlot(txg) == txg % TXG_DEFER_SIZE

\* vdev_sync_done(), and metaslab_sync_done() if the metaslab was dirty: the
\* oldest deferred frees can be allocated again.  metaslab_sync_reassess() and
\* metaslab_weight() may find that the metaslab is not to be preferred.
metaslab_sync_done ==
    LET clean == Slot(TXG_CLEAN(Txg))
        d == DeferSlot(Txg)
        defermap == [ms_defermap EXCEPT ![d] = ms_freemap[clean]]
        map == IF sm = "loaded" THEN ms_map \cup ms_defermap[d] ELSE ms_map
    IN  /\ sync = "committed" /\ sync' = "idle" /\ last' = Txg
        /\ \/ /\ clean \in ms_list /\ sm # "loading"
              /\ ms_defermap' = defermap
              /\ ms_freemap' = [ms_freemap EXCEPT ![clean] = {}]
              /\ ms_smo' = ms_smo_syncing
              /\ ms_list' = (ms_list \ {clean}) \cup Redirty(UNION {defermap[e] : e \in DeferSlots})
              /\ \/ sm = "loaded" /\ Evictable(Txg) /\ ms_map' = {} /\ sm' = "unloaded"
                 \/ ~(sm = "loaded" /\ Evictable(Txg)) /\ ms_map' = map /\ sm' = sm
              /\ active' \in {active, FALSE}
           \/ clean \notin ms_list /\ UNCHANGED <<maps, ms_defermap, ms_freemap, ms_smo, ms_list>>
        /\ UNCHANGED <<ms_allocmap, ms_smo_syncing, open, pass, birth, used, flight, pool>>

-----------------------------------------------------------------------------
\* The pool is lost and opened again with what is on disk.  The log has some of
\* the blocks that were written for groups that did not sync.
Newest == CHOOSE t \in DOMAIN disk : \A u \in DOMAIN disk : u <= t

Crash ==
    /\ crashes < MaxCrashes /\ crashes' = crashes + 1
    /\ Newest < MaxTxg
    /\ Fresh(disk[Newest].smo)
    /\ open' = Newest + 1 /\ last' = Newest /\ sync' = "idle" /\ pass' = 0
    /\ used' = {e[1] : e \in disk[Newest].live} /\ flight' = {}
    /\ \E log \in SUBSET {b \in (used \ flight) \cup claims : birth[b] > Newest} : claims' = log
    /\ opened' = Newest
    /\ UNCHANGED <<birth, disk>>

Next ==
    \/ LoadStart \/ LoadDone \/ metaslab_passivate
    \/ \E b \in Blocks, txg \in AllocTxgs : metaslab_alloc(b, txg)
    \/ \E b \in Blocks :
         WriteDone(b) \/ metaslab_free_now(b) \/ metaslab_free(b) \/ metaslab_claim(b)
    \/ NextGroup \/ spa_sync \/ metaslab_sync \/ vdev_config_sync \/ metaslab_sync_done
    \/ Crash

Spec == Init /\ [][Next]_vars

-----------------------------------------------------------------------------
TypeOK ==
    /\ ms_map \subseteq Blocks /\ sm \in {"unloaded", "loading", "loaded"} /\ active \in BOOLEAN
    /\ ms_allocmap \in [Slots -> SUBSET Blocks] /\ ms_freemap \in [Slots -> SUBSET Blocks]
    /\ ms_defermap \in [DeferSlots -> SUBSET Blocks]
    /\ ms_smo \subseteq Blocks /\ ms_smo_syncing \subseteq Blocks /\ ms_list \subseteq Slots
    /\ open - last \in 1 .. TXG_CONCURRENT_STATES
    /\ used \subseteq Blocks /\ flight \subseteq used /\ claims \subseteq Blocks

\* A loaded map has exactly the blocks that nothing uses and no freed block
\* waits for a group: nothing is allocated twice, freed twice or lost, however
\* loading, eviction and allocation for later groups interleave with a sync
\* (space_map.c:102 and 168 panic on the first two).
MapIsWhatIsFree ==
    sm = "loaded" =>
        ms_map = Blocks \ UNION {used, Deferred, UNION {ms_freemap[s] : s \in Slots}}

\* The space map object that was written with a group has exactly the blocks the
\* group uses, also if it was condensed (metaslab.c:1003-1007).
SpaceMapIsExact ==
    \A t \in DOMAIN disk : disk[t].smo = {e[1] : e \in disk[t].live}

\* metaslab.c:1116-1120: a map that is not loaded misses no allocation when it
\* is loaded, and an allocation can be undone.
UnsyncedMeansLoaded ==
    (\E s \in Slots : ms_allocmap[s] # {}) => sm = "loaded"

\* metaslab.c:1109-1113: a metaslab that has deferred frees is in every group
\* until they are back in circulation.
DeferredKeepSyncing ==
    sync # "committed" /\ Deferred # {} =>
        Slot(Txg) \in ms_list \/ Slot(TXG_CLEAN(Txg)) \in ms_list

\* All blocks of the intent log can be claimed.
ClaimsAreFree == claims \cap ms_smo = {} /\ claims \cap used = {}

Intact(t) == \A e \in disk[t].live : birth[e[1]] = e[2]

\* While a pool is open the last TXG_DEFER_SIZE states it has written, and the
\* one it was opened with, are intact: no block they use is allocated again.
RewindIsSafe == \A t \in DOMAIN disk : t >= opened => Intact(t)

\* The maps in core are sound: types, nothing unsynced is forgotten, and a
\* loaded map is what is free.
MapsAreSound == TypeOK /\ UnsyncedMeansLoaded /\ MapIsWhatIsFree

\* The space map on disk is sound, also for the intent log that is claimed next.
DiskIsSound == SpaceMapIsExact /\ ClaimsAreFree

-----------------------------------------------------------------------------
(* The inductive invariant behind these properties.                        *)

Unsynced == UNION {ms_allocmap[s] : s \in Slots}
Freed == UNION {ms_freemap[s] : s \in Slots}

Types ==
    /\ TypeOK
    /\ sync \in {"idle", "syncing", "committed"}
    /\ open \in Nat /\ last \in Nat \ {0} /\ opened \in Nat /\ opened <= last
    /\ sync # "idle" => Txg < open
    /\ birth \in [Blocks -> Nat]

\* The allocations of a group wait in the slot of the group until it syncs.
AllocInv ==
    \A s \in Slots : \A b \in ms_allocmap[s] :
        /\ birth[b] \in Txg .. open /\ Slot(birth[b]) = s
        /\ b \in used \/ (b \in ms_freemap[Slot(Txg)] /\ birth[b] = Txg)
        /\ s \in ms_list

\* A block that is in use belongs to a group that has synced or syncs, or waits
\* for its group; one that is being written waits.
UsedInv ==
    /\ \A b \in used : birth[b] <= Txg \/ b \in ms_allocmap[Slot(birth[b])]
    /\ \A b \in flight : b \in ms_allocmap[Slot(birth[b])]

\* Freed blocks are in the slot of the syncing group, or in the one before it
\* when metaslab_sync() has put them there.
FreeInv ==
    /\ \A s \in Slots : ms_freemap[s] # {} =>
         /\ s \in ms_list
         /\ \/ s = Slot(Txg) /\ sync = "syncing"
            \/ s = Slot(TXG_CLEAN(Txg)) /\ sync # "idle"
    /\ sync = "committed" => Slot(Txg) \notin ms_list

\* A block is in use, freed or deferred, and not twice.
PartsInv ==
    /\ \A s \in Slots : ms_freemap[s] \cap (used \cup Deferred) = {}
    /\ \A r, s \in Slots : r # s => ms_freemap[r] \cap ms_freemap[s] = {}
    /\ \A d, e \in DeferSlots : d # e => ms_defermap[d] \cap ms_defermap[e] = {}
    /\ used \cap Deferred = {}

\* What the objects and a map that is not loaded are.
SmoInv ==
    /\ ms_smo_syncing = (used \cup ms_freemap[Slot(Txg)]) \ Unsynced
    /\ sm # "loaded" => ms_map = {} /\ Unsynced = {} /\ ms_smo = used \cup Freed

\* DeferredKeepSyncing, also for a group that is on disk already.
DeferInv == Deferred # {} /\ sync = "committed" => Slot(TXG_CLEAN(Txg)) \in ms_list

\* Nothing else happens until the intent log is claimed.
ClaimInv == claims # {} => sync = "idle" /\ Freed = {} /\ Deferred = {} /\ flight = {} /\ open = Txg

\* The last group on disk, and how far it goes back.
OnDisk == IF sync = "committed" THEN Txg ELSE last

\* A block that group t on disk uses was freed after t, if at all.
Kept(t, b) ==
    /\ b \in UNION {used, Freed, Deferred}
    /\ b \in Freed => t < Txg
    /\ b \in ms_defermap[DeferSlot(Txg + 1)] => t < Txg - 1
    /\ b \in ms_defermap[DeferSlot(Txg)] => t < Txg - 2

DiskInv ==
    /\ OnDisk \in DOMAIN disk
    /\ \A t \in DOMAIN disk :
         /\ t \in Nat \ {0} /\ t <= OnDisk /\ OnDisk - TXG_DEFER_SIZE <= t
         /\ disk[t].live \subseteq Blocks \X (0 .. t)
         /\ disk[t].smo \subseteq Blocks
         /\ t >= opened => \A e \in disk[t].live : Kept(t, e[1])

IInv ==
    /\ Types /\ AllocInv /\ UsedInv /\ FreeInv /\ PartsInv /\ SmoInv /\ DeferInv /\ ClaimInv
    /\ DiskInv /\ MapIsWhatIsFree /\ SpaceMapIsExact /\ DeferredKeepSyncing /\ ClaimsAreFree
    /\ RewindIsSafe
=============================================================================
