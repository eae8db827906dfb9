--------------------------- MODULE MetaslabProofs ---------------------------
(***************************************************************************)
(* Proofs about Metaslab, for any set of blocks and any number of groups,  *)
(* passes and crashes: the invariants of allocation and of the states on   *)
(* disk follow from IInv, which every step keeps.                          *)
(***************************************************************************)
EXTENDS Metaslab, TLAPS

\* The slots of the groups that are in use at the same time.
LEMMA SlotFacts ==
    ASSUME NEW t \in Nat \ {0}
    PROVE  /\ Slot(t) \in Slots /\ Slot(t - 1) \in Slots /\ Slot(t) # Slot(t - 1)
           /\ Slot(t + 1) \in Slots /\ Slot(t + 2) \in Slots
           /\ Slots = {Slot(t - 1), Slot(t), Slot(t + 1), Slot(t + 2)}
           /\ \A u, v \in t - 1 .. t + 2 : Slot(u) = Slot(v) => u = v
  BY DEF Slot, Slots, TXG_SIZE

\* The two slots of deferred frees take turns.
LEMMA DeferFacts ==
    ASSUME NEW t \in Nat
    PROVE  /\ DeferSlots = {DeferSlot(t), DeferSlot(t + 1)}
           /\ DeferSlot(t) # DeferSlot(t + 1)
           /\ DeferSlot(t + 2) = DeferSlot(t)
  BY DEF DeferSlot, DeferSlots, TXG_DEFER_SIZE

\* A new pool has no blocks in use.
LEMMA InitIInv == Init => IInv
  <1> SUFFICES ASSUME Init PROVE IInv
    BY Zenon DEF IInv
  <1> USE MetaslabAssumption
  <1>1. Slot(Txg) \in Slots
    BY Zenon, SlotFacts DEF Init, Txg
  <1>2. DiskInv
    BY DEF Init, DiskInv, Txg, OnDisk, TXG_DEFER_SIZE
  <1>3. Unsynced = {} /\ Freed = {} /\ Deferred = {}
    BY Zenon DEF Init, Unsynced, Freed, Deferred
  <1>4. Types
    <2>1. ms_allocmap \in [Slots -> SUBSET Blocks] /\ ms_freemap \in [Slots -> SUBSET Blocks]
          /\ ms_defermap \in [DeferSlots -> SUBSET Blocks] /\ birth \in [Blocks -> Nat]
      BY Zenon DEF Init
    <2>2. open - last \in 1 .. TXG_CONCURRENT_STATES /\ open \in Nat /\ last \in Nat \ {0}
      BY DEF Init, TXG_CONCURRENT_STATES
    <2>3. active \in BOOLEAN
      BY Zenon DEF Init
    <2> QED
      BY <2>1, <2>2, <2>3 DEF Init, Types, TypeOK
  <1> QED
    BY Zenon, <1>1, <1>2, <1>3, <1>4 DEF Init, IInv, Txg, AllocInv, UsedInv,
         FreeInv, PartsInv, SmoInv, DeferInv, ClaimInv, MapIsWhatIsFree, SpaceMapIsExact,
         DeferredKeepSyncing, ClaimsAreFree, RewindIsSafe, Intact

-----------------------------------------------------------------------------
(* Steps that move no block.                                               *)

\* Nothing happens.
LEMMA StutterKeeps == ASSUME IInv, UNCHANGED vars PROVE IInv'
  <1>1. Types'
    BY Zenon DEF IInv, vars, maps, txgs, pool, Txg, Types, TypeOK
  <1> QED
    BY <1>1 DEF IInv, vars, maps, txgs, pool, Txg, AllocInv, UsedInv, FreeInv, PartsInv,
         SmoInv, DeferInv, ClaimInv, DiskInv, Kept, OnDisk, Unsynced, Freed, Deferred,
         MapIsWhatIsFree, SpaceMapIsExact, DeferredKeepSyncing, ClaimsAreFree, RewindIsSafe, Intact

\* metaslab_activate() starts to load the map.
LEMMA LoadStartKeeps == ASSUME IInv, LoadStart PROVE IInv'
  BY DEF IInv, LoadStart, txgs, pool, Txg, Types, TypeOK, AllocInv, UsedInv, FreeInv, PartsInv,
         SmoInv, DeferInv, ClaimInv, DiskInv, Kept, OnDisk, Unsynced, Freed, Deferred,
         MapIsWhatIsFree, SpaceMapIsExact, DeferredKeepSyncing, ClaimsAreFree, RewindIsSafe, Intact

\* The map that was read is what is free, whatever synced in the meantime.
LEMMA LoadDoneKeeps == ASSUME IInv, LoadDone PROVE IInv'
  <1>1. MapIsWhatIsFree'
    BY DEF IInv, LoadDone, Loaded, SmoInv, Freed, Deferred, MapIsWhatIsFree
  <1>2. Types'
    BY Zenon DEF IInv, LoadDone, Loaded, txgs, pool, Types, TypeOK, Txg
  <1> QED
    BY <1>1, <1>2 DEF IInv, LoadDone, Loaded, txgs, pool, Txg, AllocInv, UsedInv, FreeInv,
         PartsInv, SmoInv, DeferInv, ClaimInv, DiskInv, Kept, OnDisk, Unsynced, Freed, Deferred,
         SpaceMapIsExact, DeferredKeepSyncing, ClaimsAreFree, RewindIsSafe, Intact

\* metaslab_passivate() changes the weight only.
LEMMA PassivateKeeps == ASSUME IInv, metaslab_passivate PROVE IInv'
  <1>1. Types'
    BY Zenon DEF IInv, metaslab_passivate, txgs, pool, Types, TypeOK, Txg
  <1> QED
    BY <1>1 DEF IInv, metaslab_passivate, txgs, pool, Txg, AllocInv, UsedInv, FreeInv, PartsInv,
         SmoInv, DeferInv, ClaimInv, DiskInv, Kept, OnDisk, Unsynced, Freed, Deferred,
         MapIsWhatIsFree, SpaceMapIsExact, DeferredKeepSyncing, ClaimsAreFree, RewindIsSafe, Intact

\* A block has been written.
LEMMA WriteDoneKeeps == ASSUME IInv, NEW b \in Blocks, WriteDone(b) PROVE IInv'
  BY DEF IInv, WriteDone, maps, txgs, pool, Txg, Types, TypeOK, AllocInv, UsedInv, FreeInv,
         PartsInv, SmoInv, DeferInv, ClaimInv, DiskInv, Kept, OnDisk, Unsynced, Freed, Deferred,
         MapIsWhatIsFree, SpaceMapIsExact, DeferredKeepSyncing, ClaimsAreFree, RewindIsSafe, Intact

\* A group opens.
LEMMA NextGroupKeeps == ASSUME IInv, NextGroup PROVE IInv'
  <1>1. Types' /\ AllocInv'
    BY DEF IInv, NextGroup, Concurrent, TXG_CONCURRENT_STATES, maps, pool, Txg, Types, TypeOK, AllocInv
  <1> QED
    BY <1>1 DEF IInv, NextGroup, maps, pool, Txg, UsedInv, FreeInv, PartsInv, SmoInv, DeferInv,
       ClaimInv, DiskInv, Kept, OnDisk, Unsynced, Freed, Deferred, MapIsWhatIsFree,
       SpaceMapIsExact, DeferredKeepSyncing, ClaimsAreFree, RewindIsSafe, Intact

\* spa_sync() starts with the next group.
LEMMA SpaSyncKeeps == ASSUME IInv, spa_sync PROVE IInv'
  BY DEF IInv, spa_sync, maps, pool, Txg, Types, TypeOK, AllocInv, UsedInv, FreeInv, PartsInv,
         SmoInv, DeferInv, ClaimInv, DiskInv, Kept, OnDisk, Unsynced, Freed, Deferred,
         MapIsWhatIsFree, SpaceMapIsExact, DeferredKeepSyncing, ClaimsAreFree, RewindIsSafe, Intact

-----------------------------------------------------------------------------
(* Blocks.                                                                 *)

\* A block that is free in the map is used by no group on disk that counts.
LEMMA FreeIsNotKept ==
    ASSUME IInv, NEW b \in ms_map
    PROVE  /\ sm = "loaded"
           /\ b \notin used /\ b \notin Freed /\ b \notin Deferred /\ b \notin Unsynced
           /\ \A t \in DOMAIN disk : t >= opened => \A e \in disk[t].live : e[1] # b
  <1>1. sm = "loaded"
    BY Zenon DEF IInv, SmoInv
  <1>2. b \notin used /\ b \notin Freed /\ b \notin Deferred
    BY Zenon, <1>1 DEF IInv, MapIsWhatIsFree, Freed
  <1>3. b \notin Unsynced
    BY <1>2, SlotFacts DEF IInv, Types, AllocInv, Unsynced, Freed, Txg
  <1> QED
    BY Zenon, <1>1, <1>2, <1>3 DEF IInv, DiskInv, Kept

\* A block is allocated for group t, by metaslab_alloc() or metaslab_claim().
LEMMA TakeKeeps ==
    ASSUME IInv, NEW b \in ms_map, NEW t \in Txg .. open, sync = "committed" => t # Txg,
           ms_map' = ms_map \ {b}, ms_list' = Dirtied(ms_allocmap, t),
           ms_allocmap' = [ms_allocmap EXCEPT ![Slot(t)] = @ \cup {b}],
           birth' = [birth EXCEPT ![b] = t], used' = used \cup {b},
           UNCHANGED <<sm, ms_freemap, ms_defermap, ms_smo, ms_smo_syncing, txgs, disk, opened>>
    PROVE  /\ (AllocInv /\ FreeInv /\ PartsInv /\ SmoInv /\ DeferInv /\ DiskInv)'
           /\ (MapIsWhatIsFree /\ SpaceMapIsExact /\ DeferredKeepSyncing /\ RewindIsSafe)'
           /\ \A c \in used' : birth'[c] <= Txg' \/ c \in ms_allocmap'[Slot(birth'[c])]
           /\ b \in ms_allocmap'[Slot(birth'[b])]
           /\ \A c \in Blocks \ {b} : c \in ms_allocmap[Slot(birth[c])] => c \in ms_allocmap'[Slot(birth'[c])]
           /\ ms_allocmap' \in [Slots -> SUBSET Blocks] /\ ms_list' \subseteq Slots
           /\ birth' \in [Blocks -> Nat] /\ Txg' = Txg /\ b \in Blocks
  <1> DEFINE s == Slot(Txg)
  <1>1. b \in Blocks /\ t \in Nat /\ Txg' = Txg /\ Txg \in Nat \ {0} /\ open \in Nat /\ open <= Txg + 2
    BY DEF IInv, Types, TypeOK, TXG_CONCURRENT_STATES, txgs, Txg
  <1>2. Slot(t) \in Slots /\ s \in Slots /\ Slot(Txg - 1) \in Slots /\ (Slot(t) = s => t = Txg)
        /\ Slot(t) # Slot(Txg - 1)
    BY <1>1, SlotFacts
  <1>3. /\ sm = "loaded" /\ b \notin used /\ b \notin Freed /\ b \notin Deferred /\ b \notin Unsynced
        /\ \A u \in DOMAIN disk : u >= opened => \A e \in disk[u].live : e[1] # b
    BY Zenon, FreeIsNotKept
  <1>4. ms_list' \subseteq Slots /\ ms_list \subseteq ms_list' /\ Slot(t) \in ms_list'
        /\ ms_list' \subseteq ms_list \cup {Slot(t)}
    BY Zenon, <1>2 DEF IInv, Types, TypeOK, AllocInv, Dirtied
  <1>5. ms_allocmap' \in [Slots -> SUBSET Blocks] /\ birth' \in [Blocks -> Nat]
    BY Zenon, <1>1, <1>2 DEF IInv, Types, TypeOK
  <1>6. \A c \in Blocks : \A r \in Slots : c \in ms_allocmap'[r] <=> c \in ms_allocmap[r] \/ (c = b /\ r = Slot(t))
    BY Zenon, <1>1, <1>2 DEF IInv, Types, TypeOK
  <1>7. \A c \in Blocks : birth'[c] = IF c = b THEN t ELSE birth[c]
    BY Zenon, <1>1 DEF IInv, Types
  <1>8. AllocInv'
    BY <1>1, <1>2, <1>3, <1>4, <1>5, <1>6, <1>7 DEF IInv, Types, TypeOK, AllocInv, Unsynced, txgs
  <1>9. FreeInv'
    BY Zenon, <1>1, <1>2, <1>4 DEF IInv, FreeInv, txgs, TXG_CLEAN
  <1>10. PartsInv' /\ DeferInv' /\ DeferredKeepSyncing' /\ MapIsWhatIsFree'
    BY <1>1, <1>3, <1>4 DEF IInv, PartsInv, DeferInv, DeferredKeepSyncing, MapIsWhatIsFree, Deferred, Freed, txgs
  <1>11. SmoInv'
    BY <1>1, <1>2, <1>3, <1>5, <1>6 DEF IInv, SmoInv, Unsynced, Freed, Types, TypeOK
  <1>12. DiskInv' /\ SpaceMapIsExact' /\ RewindIsSafe'
    BY <1>1, <1>3, <1>7 DEF IInv, DiskInv, Kept, OnDisk, Freed, Deferred, SpaceMapIsExact, RewindIsSafe, Intact, txgs
  <1>13. \A c \in used' : birth'[c] <= Txg' \/ c \in ms_allocmap'[Slot(birth'[c])]
    BY <1>1, <1>2, <1>6, <1>7, SlotFacts DEF IInv, UsedInv, Types, TypeOK
  <1>14. b \in ms_allocmap'[Slot(birth'[b])]
    BY Zenon, <1>1, <1>2, <1>6, <1>7
  <1>15. \A c \in Blocks \ {b} : c \in ms_allocmap[Slot(birth[c])] => c \in ms_allocmap'[Slot(birth'[c])]
    BY <1>6, <1>7 DEF Slot, Slots, TXG_SIZE, IInv, Types
  <1> QED
    BY Zenon, <1>1, <1>4, <1>5, <1>8, <1>9, <1>10, <1>11, <1>12, <1>13, <1>14, <1>15

\* metaslab_group_alloc() takes a block for one of the groups that are not
\* on disk.
LEMMA AllocKeeps ==
    ASSUME IInv, NEW b \in Blocks, NEW t \in AllocTxgs, metaslab_alloc(b, t)
    PROVE  IInv'
  <1> /\ Types /\ AllocInv /\ UsedInv /\ FreeInv /\ PartsInv /\ SmoInv /\ DeferInv /\ ClaimInv
      /\ DiskInv /\ MapIsWhatIsFree /\ SpaceMapIsExact /\ DeferredKeepSyncing /\ ClaimsAreFree
      /\ RewindIsSafe
    BY Zenon DEF IInv
  <1>1. b \in ms_map /\ t \in Txg .. open /\ (sync = "committed" => t # Txg)
    BY DEF Types, TypeOK, AllocTxgs, metaslab_alloc, Txg, TXG_CONCURRENT_STATES
  <1>2. /\ (AllocInv /\ FreeInv /\ PartsInv /\ SmoInv /\ DeferInv /\ DiskInv)'
        /\ (MapIsWhatIsFree /\ SpaceMapIsExact /\ DeferredKeepSyncing /\ RewindIsSafe)'
        /\ \A c \in used' : birth'[c] <= Txg' \/ c \in ms_allocmap'[Slot(birth'[c])]
        /\ b \in ms_allocmap'[Slot(birth'[b])]
        /\ \A c \in Blocks \ {b} : c \in ms_allocmap[Slot(birth[c])] => c \in ms_allocmap'[Slot(birth'[c])]
        /\ ms_allocmap' \in [Slots -> SUBSET Blocks] /\ ms_list' \subseteq Slots
        /\ birth' \in [Blocks -> Nat] /\ Txg' = Txg /\ b \in Blocks
    BY Zenon, <1>1, TakeKeeps DEF metaslab_alloc, pool
  <1>3. Types'
    BY Zenon, <1>2 DEF Types, TypeOK, metaslab_alloc, txgs, pool
  <1>4. UsedInv'
    BY Zenon, <1>2 DEF Types, TypeOK, UsedInv, metaslab_alloc
  <1>5. ClaimInv' /\ ClaimsAreFree'
    BY Zenon DEF metaslab_alloc, pool, ClaimInv, ClaimsAreFree
  <1> QED
    BY Zenon, <1>2, <1>3, <1>4, <1>5 DEF IInv

\* metaslab_claim() takes a block of the intent log.
LEMMA ClaimKeeps ==
    ASSUME IInv, NEW b \in Blocks, metaslab_claim(b)
    PROVE  IInv'
  <1> /\ Types /\ AllocInv /\ UsedInv /\ FreeInv /\ PartsInv /\ SmoInv /\ DeferInv /\ ClaimInv
      /\ DiskInv /\ MapIsWhatIsFree /\ SpaceMapIsExact /\ DeferredKeepSyncing /\ ClaimsAreFree
      /\ RewindIsSafe
    BY Zenon DEF IInv
  <1>1. b \in ms_map /\ Txg \in Txg .. open /\ sync = "idle"
    BY DEF Types, TypeOK, ClaimInv, metaslab_claim, Txg, TXG_CONCURRENT_STATES
  <1>2. /\ (AllocInv /\ FreeInv /\ PartsInv /\ SmoInv /\ DeferInv /\ DiskInv)'
        /\ (MapIsWhatIsFree /\ SpaceMapIsExact /\ DeferredKeepSyncing /\ RewindIsSafe)'
        /\ \A c \in used' : birth'[c] <= Txg' \/ c \in ms_allocmap'[Slot(birth'[c])]
        /\ b \in ms_allocmap'[Slot(birth'[b])]
        /\ \A c \in Blocks \ {b} : c \in ms_allocmap[Slot(birth[c])] => c \in ms_allocmap'[Slot(birth'[c])]
        /\ ms_allocmap' \in [Slots -> SUBSET Blocks] /\ ms_list' \subseteq Slots
        /\ birth' \in [Blocks -> Nat] /\ Txg' = Txg /\ b \in Blocks
    BY Zenon, <1>1, TakeKeeps DEF metaslab_claim
  <1>3. Types'
    BY Zenon, <1>2 DEF Types, TypeOK, metaslab_claim, txgs
  <1>4. UsedInv'
    BY Zenon, <1>2 DEF Types, TypeOK, UsedInv, metaslab_claim
  <1>5. ClaimInv' /\ ClaimsAreFree'
    BY <1>2 DEF metaslab_claim, txgs, ClaimInv, ClaimsAreFree, Freed, Deferred
  <1> QED
    BY Zenon, <1>2, <1>3, <1>4, <1>5 DEF IInv

\* metaslab_free() undoes an allocation that has not synced: no group on disk
\* has the block.
LEMMA FreeNowKeeps ==
    ASSUME IInv, NEW b \in Blocks, metaslab_free_now(b)
    PROVE  IInv'
  <1> /\ Types /\ AllocInv /\ UsedInv /\ FreeInv /\ PartsInv /\ SmoInv /\ DeferInv /\ ClaimInv
      /\ DiskInv /\ MapIsWhatIsFree /\ SpaceMapIsExact /\ DeferredKeepSyncing /\ ClaimsAreFree
      /\ RewindIsSafe
    BY Zenon DEF IInv
  <1>0. /\ flight' = flight \ {b} /\ used' = used \ {b} /\ ms_map' = ms_map \cup {b}
        /\ UNCHANGED <<sm, active, ms_freemap, ms_defermap, ms_smo, ms_smo_syncing, ms_list, open, last,
                       sync, pass, birth, disk, opened, claims, crashes>>
    BY Zenon DEF metaslab_free_now, txgs, pool
  <1> DEFINE s == Slot(birth[b])
  <1>1. /\ Txg' = Txg /\ Txg \in Nat \ {0} /\ open <= Txg + 2 /\ s \in Slots /\ Slot(Txg) \in Slots
        /\ b \in used /\ b \in ms_allocmap[s] /\ birth[b] \in Txg .. open /\ b \in Unsynced
    <2>1. Txg' = Txg /\ Txg \in Nat \ {0} /\ open <= Txg + 2 /\ Slot(Txg) \in Slots /\ birth[b] \in Nat
      BY SlotFacts DEF Types, TypeOK, TXG_CONCURRENT_STATES, metaslab_free_now, txgs, Txg
    <2>2. s \in Slots
      BY <2>1 DEF Slot, Slots, TXG_SIZE
    <2>3. b \in used /\ b \in ms_allocmap[s]
      BY Zenon DEF Types, TypeOK, UsedInv, metaslab_free_now
    <2> QED
      BY <2>1, <2>2, <2>3 DEF AllocInv, Unsynced
  <1>2. sm = "loaded" /\ b \notin Freed /\ b \notin Deferred
    BY Zenon, <1>1 DEF SmoInv, PartsInv, Freed
  <1>3. \A c \in Blocks : \A r \in Slots : c \in ms_allocmap'[r] <=> c \in ms_allocmap[r] /\ ~(c = b /\ r = s)
    BY Zenon, <1>1 DEF Types, TypeOK, metaslab_free_now
  <1>4. ms_allocmap' \in [Slots -> SUBSET Blocks]
    BY Zenon, <1>1 DEF Types, TypeOK, metaslab_free_now
  <1>5. \A r \in Slots : b \in ms_allocmap[r] => r = s
    BY Zenon DEF AllocInv
  <1>6. Types'
    BY Zenon, <1>0, <1>1, <1>4 DEF Types, TypeOK
  <1>7. AllocInv'
    BY <1>0, <1>1, <1>3, <1>4, <1>5 DEF AllocInv
  <1>8. UsedInv'
    BY <1>0, <1>1, <1>3, <1>4 DEF Types, TypeOK, UsedInv, Slot, Slots, TXG_SIZE
  <1>9. FreeInv' /\ DeferInv' /\ DeferredKeepSyncing' /\ PartsInv' /\ MapIsWhatIsFree'
    BY <1>0, <1>1, <1>2 DEF FreeInv, DeferInv, DeferredKeepSyncing, PartsInv, MapIsWhatIsFree,
         Deferred, Freed
  <1>10. SmoInv'
    BY <1>0, <1>1, <1>2, <1>3, <1>4, <1>5 DEF Types, TypeOK, SmoInv, Unsynced, Freed
  <1>11. \A t \in DOMAIN disk : t >= opened => \A e \in disk[t].live : e[1] # b
    <2> SUFFICES ASSUME NEW t \in DOMAIN disk, t >= opened, NEW e \in disk[t].live, e[1] = b
                 PROVE  FALSE
      BY Zenon
    <2>1. birth[b] <= t /\ t <= OnDisk
      BY DEF DiskInv, RewindIsSafe, Intact
    <2>2. sync = "committed" => birth[b] # Txg
      BY Zenon, <1>1 DEF AllocInv, FreeInv
    <2> QED
      BY <1>1, <2>1, <2>2 DEF OnDisk, Txg, Types, DiskInv
  <1>12. DiskInv' /\ SpaceMapIsExact' /\ RewindIsSafe'
    BY <1>0, <1>1, <1>11 DEF DiskInv, Kept, OnDisk, Freed, Deferred, SpaceMapIsExact, RewindIsSafe,
         Intact
  <1>13. ClaimInv' /\ ClaimsAreFree'
    BY Zenon, <1>0, <1>1 DEF ClaimInv, ClaimsAreFree, Freed, Deferred
  <1> QED
    BY Zenon, <1>6, <1>7, <1>8, <1>9, <1>10, <1>12, <1>13 DEF IInv

\* spa_sync() frees a block: the groups on disk are older and keep it.
LEMMA FreeKeeps ==
    ASSUME IInv, NEW b \in Blocks, metaslab_free(b)
    PROVE  IInv'
  <1> /\ Types /\ AllocInv /\ UsedInv /\ FreeInv /\ PartsInv /\ SmoInv /\ DeferInv /\ ClaimInv
      /\ DiskInv /\ MapIsWhatIsFree /\ SpaceMapIsExact /\ DeferredKeepSyncing /\ ClaimsAreFree
      /\ RewindIsSafe
    BY Zenon DEF IInv
  <1>0. /\ used' = used \ {b}
        /\ UNCHANGED <<ms_map, sm, active, ms_allocmap, ms_defermap, ms_smo, ms_smo_syncing, open, last,
                       sync, pass, birth, flight, disk, opened, claims, crashes>>
    BY Zenon DEF metaslab_free, maps, txgs, pool
  <1> DEFINE s == Slot(Txg)
  <1>1. /\ Txg' = Txg /\ Txg \in Nat \ {0} /\ open <= Txg + 2 /\ s \in Slots /\ Slot(Txg - 1) \in Slots
        /\ b \in used /\ b \notin flight /\ sync = "syncing" /\ birth[b] <= Txg
    BY SlotFacts DEF Types, TypeOK, TXG_CONCURRENT_STATES, metaslab_free, txgs, Txg
  <1>2. ms_list' \subseteq Slots /\ ms_list \subseteq ms_list' /\ s \in ms_list'
    BY Zenon, <1>1 DEF Types, TypeOK, FreeInv, Dirtied, metaslab_free
  <1>3. ms_freemap' \in [Slots -> SUBSET Blocks]
        /\ \A r \in Slots : ms_freemap'[r] = IF r = s THEN ms_freemap[s] \cup {b} ELSE ms_freemap[r]
    BY Zenon, <1>1 DEF Types, TypeOK, metaslab_free
  <1>4. Freed' = Freed \cup {b} /\ Deferred' = Deferred /\ Unsynced' = Unsynced
        /\ b \notin Freed /\ b \notin Deferred
    BY <1>0, <1>1, <1>3 DEF PartsInv, Freed, Deferred, Unsynced
  <1>5. Types'
    BY Zenon, <1>0, <1>1, <1>2, <1>3 DEF Types, TypeOK
  <1>6. AllocInv' /\ UsedInv'
    BY <1>0, <1>1, <1>2, <1>3 DEF AllocInv, UsedInv
  <1>7. FreeInv' /\ DeferInv' /\ DeferredKeepSyncing'
    BY Zenon, <1>0, <1>1, <1>2, <1>3, <1>4 DEF FreeInv, DeferInv, DeferredKeepSyncing
  <1>8. PartsInv' /\ MapIsWhatIsFree'
    BY <1>0, <1>1, <1>3, <1>4 DEF PartsInv, MapIsWhatIsFree, Freed
  <1>9. SmoInv'
    BY Zenon, <1>0, <1>1, <1>3, <1>4 DEF SmoInv
  <1>10. DiskInv' /\ SpaceMapIsExact' /\ RewindIsSafe'
    BY <1>0, <1>1, <1>4 DEF Types, DiskInv, Kept, OnDisk, SpaceMapIsExact, RewindIsSafe, Intact, Txg
  <1>11. ClaimInv' /\ ClaimsAreFree'
    BY Zenon, <1>0, <1>1 DEF ClaimInv, ClaimsAreFree
  <1> QED
    BY Zenon, <1>5, <1>6, <1>7, <1>8, <1>9, <1>10, <1>11 DEF IInv

-----------------------------------------------------------------------------
(* Groups.                                                                 *)

\* metaslab_sync() writes the allocations and frees of the group; the object
\* it leaves is the same whether it was condensed or not.
LEMMA SyncKeeps == ASSUME IInv, metaslab_sync PROVE IInv'
  <1> /\ Types /\ AllocInv /\ UsedInv /\ FreeInv /\ PartsInv /\ SmoInv /\ DeferInv /\ ClaimInv
      /\ DiskInv /\ MapIsWhatIsFree /\ SpaceMapIsExact /\ DeferredKeepSyncing /\ ClaimsAreFree
      /\ RewindIsSafe
    BY Zenon DEF IInv
  <1> DEFINE s == Slot(Txg)
             clean == Slot(Txg - 1)
  <1>1. /\ Txg' = Txg /\ Txg \in Nat \ {0} /\ open \in Nat /\ open <= Txg + 2
        /\ s \in Slots /\ clean \in Slots /\ s # clean
        /\ Slots = {clean, s, Slot(Txg + 1), Slot(Txg + 2)} /\ Slot(Txg + 1) # s /\ Slot(Txg + 2) # s
        /\ \A u \in Txg .. open : Slot(u) # clean /\ (Slot(u) = s => u = Txg)
    BY SlotFacts DEF Types, TypeOK, TXG_CONCURRENT_STATES, metaslab_sync, Txg
  <1>2. sync = "syncing" /\ s \in ms_list /\ Quiet /\ ms_list' = (ms_list \ {s}) \cup {clean}
    BY Zenon DEF metaslab_sync, TXG_CLEAN
  <1>0. UNCHANGED <<ms_map, sm, active, ms_defermap, ms_smo, open, last, sync, birth, used, flight,
                    disk, opened, claims, crashes>>
    BY Zenon DEF metaslab_sync, maps, pool
  <1>3. /\ ms_allocmap' \in [Slots -> SUBSET Blocks]
        /\ \A r \in Slots : ms_allocmap'[r] = IF r = s THEN {} ELSE ms_allocmap[r]
    BY Zenon, <1>1 DEF Types, TypeOK, metaslab_sync
  <1>4. /\ ms_freemap' \in [Slots -> SUBSET Blocks]
        /\ \A r \in Slots : ms_freemap'[r] = IF r = s THEN {}
                                             ELSE IF r = clean THEN ms_freemap[clean] \cup ms_freemap[s]
                                             ELSE ms_freemap[r]
    BY Zenon, <1>1 DEF Types, TypeOK, metaslab_sync, TXG_CLEAN
  <1>5. ms_allocmap[clean] = {} /\ (\A r \in Slots : r # s /\ r # clean => ms_freemap[r] = {})
    BY Zenon, <1>1 DEF Types, TypeOK, AllocInv, FreeInv, TXG_CLEAN
  <1>6. Freed' = Freed /\ Freed = ms_freemap[clean] \cup ms_freemap[s]
    BY <1>1, <1>4, <1>5 DEF Freed
  <1>7. Unsynced' = Future(Txg) /\ Unsynced = Unsynced' \cup ms_allocmap[s]
    <2>1. Future(Txg) = ms_allocmap[Slot(Txg + 1)] \cup ms_allocmap[Slot(Txg + 2)]
      BY <1>1 DEF Future, TXG_CONCURRENT_STATES
    <2> QED
      BY <1>1, <1>3, <1>5, <2>1 DEF Unsynced
  <1>8. Deferred' = Deferred
    BY Zenon, <1>0 DEF Deferred
  <1>9. ms_smo_syncing' = used \ Unsynced'
    <2>1. CASE ms_smo_syncing' = (ms_smo_syncing \cup ms_allocmap[s]) \ ms_freemap[s]
      <3>1. \A b \in ms_allocmap[s] : b \notin Unsynced' /\ b \in used \cup ms_freemap[s]
        BY <1>1, <1>3 DEF AllocInv, Unsynced
      <3>2. ms_freemap[s] \cap used = {}
        BY Zenon, <1>1 DEF PartsInv
      <3> QED
        BY Zenon, <1>7, <2>1, <3>1, <3>2 DEF SmoInv
    <2>2. CASE sm = "loaded" /\ ms_smo_syncing' = Condensed(ms_freemap[clean] \cup ms_freemap[s])
      <3>1. ms_map = Blocks \ UNION {used, Deferred, Freed}
        BY Zenon, <2>2 DEF MapIsWhatIsFree, Freed
      <3>2. used \cap Freed = {} /\ used \cap Deferred = {} /\ used \subseteq Blocks
        BY DEF Types, TypeOK, PartsInv, Freed
      <3> QED
        BY <1>6, <1>7, <2>2, <3>1, <3>2 DEF Condensed
    <2> QED
      BY Zenon, <2>1, <2>2 DEF metaslab_sync, TXG_CLEAN
  <1>10. Types'
    BY Zenon, <1>0, <1>1, <1>2, <1>3, <1>4, <1>9 DEF Types, TypeOK, metaslab_sync
  <1>11. AllocInv'
    BY <1>0, <1>1, <1>2, <1>3, <1>4 DEF AllocInv
  <1>12. UsedInv'
    BY <1>0, <1>1, <1>2, <1>3 DEF Types, TypeOK, UsedInv, AllocInv, Quiet, Slot, Slots, TXG_SIZE
  <1>13. FreeInv' /\ DeferInv' /\ DeferredKeepSyncing'
    BY Zenon, <1>0, <1>1, <1>2, <1>4, <1>5, <1>8 DEF FreeInv, DeferInv, DeferredKeepSyncing, TXG_CLEAN
  <1>14. PartsInv' /\ MapIsWhatIsFree'
    <2>1. PartsInv'
      BY <1>0, <1>1, <1>4, <1>5, <1>8 DEF PartsInv
    <2> QED
      BY Zenon, <1>0, <1>6, <1>8, <2>1 DEF MapIsWhatIsFree, Freed
  <1>15. SmoInv'
    BY Zenon, <1>0, <1>1, <1>4, <1>6, <1>7, <1>9 DEF SmoInv
  <1>16. DiskInv' /\ SpaceMapIsExact' /\ RewindIsSafe'
    BY Zenon, <1>0, <1>1, <1>6, <1>8 DEF DiskInv, Kept, OnDisk, SpaceMapIsExact, RewindIsSafe, Intact
  <1>17. ClaimInv' /\ ClaimsAreFree'
    BY Zenon, <1>0, <1>2 DEF ClaimInv, ClaimsAreFree
  <1> QED
    BY Zenon, <1>10, <1>11, <1>12, <1>13, <1>14, <1>15, <1>16, <1>17 DEF IInv

\* The uberblock makes the group the newest state on disk, with the object that
\* metaslab_sync() has left.
LEMMA ConfigSyncKeeps == ASSUME IInv, vdev_config_sync PROVE IInv'
  <1> /\ Types /\ AllocInv /\ UsedInv /\ FreeInv /\ PartsInv /\ SmoInv /\ DeferInv /\ ClaimInv
      /\ DiskInv /\ MapIsWhatIsFree /\ SpaceMapIsExact /\ DeferredKeepSyncing /\ ClaimsAreFree
      /\ RewindIsSafe
    BY Zenon DEF IInv
  <1> DEFINE s == Slot(Txg)
             clean == Slot(Txg - 1)
             live == {b \in used : birth[b] <= Txg}
  <1>1. /\ Txg' = Txg /\ Txg \in Nat \ {0} /\ open \in Nat /\ open <= Txg + 2
        /\ s \in Slots /\ clean \in Slots /\ s # clean
        /\ \A u \in Txg .. open : Slot(u) = s => u = Txg
    <2>1. Txg' = Txg /\ Txg \in Nat \ {0} /\ open \in Nat /\ open <= Txg + 2
      BY DEF Types, TypeOK, TXG_CONCURRENT_STATES, vdev_config_sync, Txg
    <2> QED
      BY <2>1, SlotFacts
  <1>0. UNCHANGED <<ms_map, sm, active, ms_allocmap, ms_freemap, ms_defermap, ms_smo, ms_smo_syncing,
                    ms_list, open, last, pass, birth, used, flight, opened, claims, crashes>>
    BY Zenon DEF vdev_config_sync, maps
  <1>2. sync = "syncing" /\ sync' = "committed" /\ s \notin ms_list /\ Quiet
    BY Zenon DEF vdev_config_sync
  <1>3. ms_freemap[s] = {} /\ ms_allocmap[s] = {}
    BY Zenon, <1>1, <1>2 DEF FreeInv, AllocInv
  <1>4. DOMAIN disk' = {u \in DOMAIN disk : u >= Txg - 2} \cup {Txg}
    BY Zenon DEF vdev_config_sync, TXG_DEFER_SIZE
  <1>5. disk'[Txg].smo = ms_smo_syncing /\ disk'[Txg].live = {<<b, birth[b]>> : b \in live}
    <2> DEFINE new == [live |-> {<<b, birth[b]>> : b \in live}, smo |-> ms_smo_syncing]
    <2>1. disk'[Txg] = new
      BY Zenon DEF vdev_config_sync
    <2>2. new.smo = ms_smo_syncing /\ new.live = {<<b, birth[b]>> : b \in live}
      BY Zenon
    <2> QED BY Zenon, <2>1, <2>2
  <1>6. \A t \in DOMAIN disk' : t # Txg => t \in DOMAIN disk /\ disk'[t] = disk[t]
    BY Zenon DEF vdev_config_sync
  <1>7. ms_smo_syncing = live
    <2>1. ms_smo_syncing = used \ Unsynced
      BY Zenon, <1>3 DEF SmoInv
    <2>2. \A b \in used : b \in Unsynced => birth[b] > Txg
      BY <1>1, <1>3 DEF Types, TypeOK, AllocInv, Unsynced
    <2>3. \A b \in used : birth[b] > Txg => b \in Unsynced
      BY <1>1 DEF Types, TypeOK, UsedInv, Unsynced, Slot, Slots, TXG_SIZE
    <2> QED
      BY <1>1, <2>1, <2>2, <2>3 DEF Types, TypeOK
  <1>8. Freed' = Freed /\ Deferred' = Deferred /\ Unsynced' = Unsynced
    BY Zenon, <1>0 DEF Freed, Deferred, Unsynced
  <1>9. Types'
    BY Zenon, <1>0, <1>1, <1>2 DEF Types, TypeOK
  <1>10. AllocInv' /\ UsedInv' /\ PartsInv' /\ SmoInv' /\ MapIsWhatIsFree'
    BY Zenon, <1>0, <1>1, <1>8 DEF AllocInv, UsedInv, PartsInv, SmoInv, MapIsWhatIsFree, Freed
  <1>11. FreeInv' /\ DeferInv' /\ DeferredKeepSyncing'
    BY Zenon, <1>0, <1>1, <1>2, <1>3, <1>8 DEF FreeInv, DeferInv, DeferredKeepSyncing, TXG_CLEAN
  <1>12. SpaceMapIsExact'
    <2>1. disk'[Txg].smo = {e[1] : e \in disk'[Txg].live}
      <3>1. \A e \in disk'[Txg].live : e[1] \in live
        BY <1>5
      <3>2. \A b \in live : <<b, birth[b]>> \in disk'[Txg].live /\ <<b, birth[b]>>[1] = b
        BY Zenon, <1>5
      <3>3. \A b \in live : \E e \in disk'[Txg].live : e[1] = b
        BY Zenon, <3>2
      <3> HIDE DEF live
      <3>4. live = {e[1] : e \in disk'[Txg].live}
        BY Zenon, <3>1, <3>3
      <3> QED
        BY Zenon, <1>7, <1>5, <3>4
    <2> QED
      BY Zenon, <1>6, <2>1 DEF SpaceMapIsExact
  <1>13. \A e \in disk'[Txg].live : e[1] \in used /\ e[2] = birth[e[1]] /\ e \in Blocks \X (0 .. Txg)
    BY <1>1, <1>5 DEF Types, TypeOK
  <1>14. RewindIsSafe'
    BY Zenon, <1>0, <1>6, <1>13 DEF RewindIsSafe, Intact
  <1>15. DiskInv'
    <2>1. \A t \in DOMAIN disk : t < Txg
      BY <1>1, <1>2 DEF Types, DiskInv, OnDisk, Txg
    <2>2. \A b \in used : b \notin Freed /\ b \notin Deferred
      BY Zenon DEF PartsInv, Freed
    <2>3. OnDisk' = Txg /\ opened' = opened /\ ms_defermap' = ms_defermap /\ used' = used
      BY Zenon, <1>0, <1>1, <1>2 DEF OnDisk
    <2>4. \A t \in DOMAIN disk' : t >= opened => \A e \in disk'[t].live : Kept(t, e[1])'
      <3> SUFFICES ASSUME NEW t \in DOMAIN disk', t >= opened, NEW e \in disk'[t].live
                   PROVE  Kept(t, e[1])'
        BY Zenon
      <3>1. CASE t = Txg
        <4>1. ms_defermap[DeferSlot(Txg)] \subseteq Deferred /\ ms_defermap[DeferSlot(Txg + 1)] \subseteq Deferred
          BY Zenon, <1>1, DeferFacts DEF Deferred
        <4> QED
          BY Zenon, <1>1, <1>8, <1>13, <2>2, <2>3, <3>1, <4>1 DEF Kept
      <3>2. CASE t # Txg
        BY Zenon, <1>1, <1>8, <1>6, <2>3, <3>2 DEF DiskInv, Kept
      <3> QED BY Zenon, <3>1, <3>2
    <2> QED
      <3>1. ASSUME NEW t \in DOMAIN disk'
            PROVE  /\ t \in Nat \ {0} /\ t <= Txg /\ Txg - 2 <= t
                   /\ disk'[t].live \subseteq Blocks \X (0 .. t) /\ disk'[t].smo \subseteq Blocks
        <4>1. CASE t = Txg
          BY <1>1, <1>7, <1>13, <1>5, <4>1 DEF Types, TypeOK
        <4>2. CASE t # Txg
          BY <1>1, <1>4, <1>6, <2>1, <4>2 DEF DiskInv
        <4> QED BY Zenon, <4>1, <4>2
      <3> QED
        BY Zenon, <1>4, <2>3, <2>4, <3>1 DEF DiskInv, TXG_DEFER_SIZE
  <1>16. ClaimInv' /\ ClaimsAreFree'
    BY Zenon, <1>0, <1>2 DEF ClaimInv, ClaimsAreFree
  <1> QED
    BY Zenon, <1>9, <1>10, <1>11, <1>12, <1>14, <1>15, <1>16 DEF IInv

\* metaslab_sync_done() moves the frees of the group to the deferred ones and
\* gives the oldest deferred ones back: no group on disk uses those any more.
LEMMA SyncDoneKeeps == ASSUME IInv, metaslab_sync_done PROVE IInv'
  <1> /\ Types /\ AllocInv /\ UsedInv /\ FreeInv /\ PartsInv /\ SmoInv /\ DeferInv /\ ClaimInv
      /\ DiskInv /\ MapIsWhatIsFree /\ SpaceMapIsExact /\ DeferredKeepSyncing /\ ClaimsAreFree
      /\ RewindIsSafe
    BY Zenon DEF IInv
  <1> DEFINE s == Slot(Txg)
             clean == Slot(Txg - 1)
             d == DeferSlot(Txg)
             e == DeferSlot(Txg + 1)
  <1>1. /\ Txg' = Txg + 1 /\ Txg \in Nat \ {0} /\ open \in Nat /\ open <= Txg + 2 /\ Txg < open
        /\ s \in Slots /\ clean \in Slots /\ s # clean /\ Slot(Txg + 1) \in Slots /\ Slot(Txg + 1) # clean
        /\ Slots = {clean, s, Slot(Txg + 1), Slot(Txg + 2)}
        /\ \A u \in Txg .. open : Slot(u) # clean /\ (Slot(u) = s => u = Txg)
    BY SlotFacts DEF Types, TypeOK, TXG_CONCURRENT_STATES, metaslab_sync_done, Txg
  <1>2. DeferSlots = {d, e} /\ d # e /\ DeferSlot(Txg') = e /\ DeferSlot(Txg' + 1) = d
    BY <1>1, DeferFacts
  <1>3. /\ sync = "committed" /\ sync' = "idle" /\ last' = Txg
        /\ UNCHANGED <<ms_allocmap, ms_smo_syncing, open, pass, birth, used, flight, pool>>
    BY Zenon DEF metaslab_sync_done
  <1>4. ms_freemap[s] = {} /\ ms_allocmap[s] = {} /\ ms_allocmap[clean] = {}
    BY Zenon, <1>1, <1>3 DEF FreeInv, AllocInv
  <1>5. (\A r \in Slots : r # clean => ms_freemap[r] = {}) /\ Freed = ms_freemap[clean]
    <2>1. \A r \in Slots : r # clean => ms_freemap[r] = {}
      BY Zenon, <1>3 DEF FreeInv, TXG_CLEAN
    <2> QED BY <1>1, <2>1 DEF Freed
  <1>6. Deferred = ms_defermap[d] \cup ms_defermap[e]
    BY Zenon, <1>2 DEF Deferred
  <1>7. claims = {} /\ claims' = {}
    BY Zenon, <1>3 DEF ClaimInv, pool
  <1>8. ms_smo_syncing = used \ Unsynced /\ Unsynced' = Unsynced
    BY Zenon, <1>3, <1>4 DEF SmoInv, Unsynced
  <1>20. clean \in ms_list =>
            /\ ms_defermap' = [ms_defermap EXCEPT ![d] = ms_freemap[clean]]
            /\ ms_list' = (ms_list \ {clean}) \cup Redirty(UNION {ms_defermap'[f] : f \in DeferSlots})
    <2>1. clean \in ms_list =>
            /\ ms_defermap' = [ms_defermap EXCEPT ![d] = ms_freemap[clean]]
            /\ ms_list' = (ms_list \ {clean})
                 \cup Redirty(UNION {[ms_defermap EXCEPT ![d] = ms_freemap[clean]][f] : f \in DeferSlots})
      BY Zenon DEF metaslab_sync_done, TXG_CLEAN
    <2> QED
      BY <2>1
  \* What is freed and deferred after the step.
  <1>9. /\ ms_freemap' = [r \in Slots |-> {}] /\ ms_defermap' \in [DeferSlots -> SUBSET Blocks]
        /\ ms_defermap'[e] = ms_defermap[e] /\ ms_defermap'[d] = Freed
        /\ ms_list' \subseteq Slots /\ ms_list \ {clean} \subseteq ms_list'
        /\ ms_map' \subseteq Blocks /\ sm' \in {"unloaded", "loading", "loaded"}
    <2>1. CASE clean \in ms_list
      <3>1. /\ ms_defermap' = [ms_defermap EXCEPT ![d] = ms_freemap[clean]]
            /\ ms_freemap' = [ms_freemap EXCEPT ![clean] = {}]
            /\ ms_list' = (ms_list \ {clean}) \cup Redirty(UNION {ms_defermap'[f] : f \in DeferSlots})
            /\ ms_map' \in {{}, ms_map, ms_map \cup ms_defermap[d]} /\ sm' \in {"unloaded", sm}
        <4>1. ms_freemap' = [ms_freemap EXCEPT ![clean] = {}]
          BY Zenon, <2>1 DEF metaslab_sync_done, TXG_CLEAN
        <4>2. ms_map' \in {{}, ms_map, ms_map \cup ms_defermap[d]} /\ sm' \in {"unloaded", sm}
          BY Zenon, <2>1 DEF metaslab_sync_done, TXG_CLEAN
        <4> QED
          BY Zenon, <1>20, <2>1, <4>1, <4>2
      <3>2. ms_freemap' = [r \in Slots |-> {}]
        BY Zenon, <1>1, <1>5, <3>1 DEF Types, TypeOK
      <3>3. ms_list' \subseteq Slots
        BY Zenon, <1>1, <3>1 DEF Types, TypeOK, Redirty
      <3> QED
        BY Zenon, <1>1, <1>2, <1>5, <3>1, <3>2, <3>3 DEF Types, TypeOK
    <2>2. CASE clean \notin ms_list
      <3>1. UNCHANGED <<maps, ms_defermap, ms_freemap, ms_list>>
        BY Zenon, <2>2 DEF metaslab_sync_done, TXG_CLEAN
      <3>2. ms_freemap[clean] = {} /\ Deferred = {}
        BY Zenon, <1>1, <1>3, <2>2 DEF FreeInv, DeferInv, TXG_CLEAN
      <3>3. ms_freemap' = [r \in Slots |-> {}]
        BY Zenon, <1>1, <1>5, <3>1, <3>2 DEF Types, TypeOK
      <3> QED
        BY Zenon, <1>2, <1>5, <1>6, <3>1, <3>2, <3>3 DEF Types, TypeOK, maps
    <2> QED BY Zenon, <2>1, <2>2
  <1>10. Freed' = {} /\ Deferred' = ms_defermap[e] \cup Freed
    BY <1>2, <1>9 DEF Freed, Deferred
  <1>11. /\ used \cap Freed = {} /\ used \cap Deferred = {} /\ Freed \cap Deferred = {}
         /\ ms_defermap[d] \cap ms_defermap[e] = {}
    BY Zenon, <1>1, <1>2, <1>5 DEF PartsInv
  <1>12. Types'
    <2>1. active' \in BOOLEAN
      BY Zenon DEF Types, TypeOK, metaslab_sync_done, maps
    <2>2. ms_smo' \subseteq Blocks
      BY Zenon DEF Types, TypeOK, metaslab_sync_done
    <2>3. ms_freemap' \in [Slots -> SUBSET Blocks]
      BY Zenon, <1>9
    <2>4. open' - last' \in 1 .. TXG_CONCURRENT_STATES
      BY <1>1, <1>3 DEF TXG_CONCURRENT_STATES
    <2> QED
      BY <1>1, <1>3, <1>7, <1>9, <2>1, <2>2, <2>3, <2>4 DEF Types, TypeOK, Txg, pool
  <1>13. AllocInv'
    BY <1>1, <1>3, <1>4, <1>9 DEF Types, TypeOK, AllocInv
  <1>14. UsedInv' /\ FreeInv' /\ DeferInv' /\ ClaimInv' /\ ClaimsAreFree'
    BY <1>1, <1>3, <1>7, <1>9 DEF Types, TypeOK, UsedInv, FreeInv, DeferInv, ClaimInv, ClaimsAreFree
  <1>15. PartsInv'
    <2>1. \A r \in Slots : ms_freemap'[r] = {}
      BY Zenon, <1>9
    <2>2. used' \cap Deferred' = {} /\ ms_defermap'[d] \cap ms_defermap'[e] = {}
      BY Zenon, <1>3, <1>6, <1>9, <1>10, <1>11
    <2> QED
      BY Zenon, <1>2, <2>1, <2>2 DEF PartsInv
  <1>16. DeferredKeepSyncing'
    <2>1. CASE clean \in ms_list
      <3>1. ms_list' = (ms_list \ {clean}) \cup Redirty(UNION {ms_defermap'[f] : f \in DeferSlots})
        BY Zenon, <1>20, <2>1
      <3> QED
        BY Zenon, <1>1, <3>1 DEF Redirty, DeferredKeepSyncing, Deferred
    <2>2. CASE clean \notin ms_list
      <3>1. Deferred' = {}
        BY Zenon, <1>1, <1>3, <1>5, <1>6, <1>10, <2>2 DEF FreeInv, DeferInv, TXG_CLEAN
      <3> QED
        BY Zenon, <3>1 DEF DeferredKeepSyncing
    <2> QED BY Zenon, <2>1, <2>2
  <1>17. SmoInv' /\ MapIsWhatIsFree'
    <2>1. ms_smo_syncing' = (used \cup ms_freemap[Slot(Txg)])' \ Unsynced'
      <3>1. ms_freemap'[Slot(Txg')] = {}
        BY Zenon, <1>1, <1>9
      <3> QED
        BY Zenon, <1>3, <1>8, <3>1
    <2>2. Unsynced = {} => ms_smo_syncing = used
      BY Zenon, <1>8
    <2>3. CASE clean \notin ms_list
      <3>1. UNCHANGED <<maps, ms_smo>> /\ Freed = {} /\ Deferred = {}
        BY Zenon, <1>1, <1>3, <1>5, <2>3 DEF metaslab_sync_done, TXG_CLEAN, FreeInv, DeferInv
      <3> QED
        BY <1>3, <1>6, <1>8, <1>10, <2>1, <3>1 DEF SmoInv, MapIsWhatIsFree, Freed, maps
    <2>4. CASE clean \in ms_list /\ sm = "loaded" /\ sm' = "unloaded"
      <3>1. ms_smo' = ms_smo_syncing /\ ms_map' = {} /\ Future(Txg) = {}
        BY Zenon, <2>4 DEF metaslab_sync_done, TXG_CLEAN, Evictable
      <3>2. Future(Txg) = ms_allocmap[Slot(Txg + 1)] \cup ms_allocmap[Slot(Txg + 2)]
        BY <1>1 DEF Future, TXG_CONCURRENT_STATES
      <3>3. Unsynced = {}
        BY Zenon, <1>1, <1>4, <3>1, <3>2 DEF Unsynced
      <3> QED
        BY Zenon, <1>3, <1>8, <1>10, <2>1, <2>2, <2>4, <3>1, <3>3 DEF SmoInv, MapIsWhatIsFree
    <2>5. CASE clean \in ms_list /\ sm = "loaded" /\ sm' # "unloaded"
      <3>1. sm' = "loaded" /\ ms_map' = ms_map \cup ms_defermap[d]
        BY Zenon, <2>5 DEF metaslab_sync_done, TXG_CLEAN
      <3>2. ms_map = Blocks \ UNION {used, Deferred, Freed}
        BY Zenon, <2>5 DEF MapIsWhatIsFree, Freed
      <3>3. ms_defermap[d] \subseteq Blocks
        BY Zenon, <1>2 DEF Types, TypeOK
      <3>4. ms_map' = Blocks \ UNION {used', Deferred', Freed'}
        BY <1>3, <1>6, <1>10, <1>11, <3>1, <3>2, <3>3
      <3> QED
        BY Zenon, <2>1, <3>1, <3>4 DEF SmoInv, MapIsWhatIsFree, Freed
    <2>6. CASE clean \in ms_list /\ sm # "loaded"
      <3>1. sm' = sm /\ ms_map' = ms_map /\ ms_smo' = ms_smo_syncing
        BY Zenon, <2>6 DEF metaslab_sync_done, TXG_CLEAN
      <3> QED
        BY Zenon, <1>3, <1>8, <1>10, <2>1, <2>2, <2>6, <3>1 DEF SmoInv, MapIsWhatIsFree
    <2> QED BY Zenon, <2>3, <2>4, <2>5, <2>6
  <1>18. SpaceMapIsExact' /\ RewindIsSafe'
    BY Zenon, <1>3 DEF SpaceMapIsExact, RewindIsSafe, Intact, pool
  <1>19. DiskInv'
    <2>1. OnDisk = Txg /\ OnDisk' = Txg /\ disk' = disk /\ opened' = opened
      BY Zenon, <1>1, <1>3 DEF OnDisk, pool
    <2>2. ASSUME NEW t \in DOMAIN disk, t >= opened, NEW f \in disk[t].live
          PROVE  Kept(t, f[1])'
      <3>1. t \in Nat /\ t <= Txg /\ Txg - 2 <= t /\ Kept(t, f[1])
        BY Zenon, <2>1, <2>2 DEF DiskInv, TXG_DEFER_SIZE
      <3>2. f[1] \notin ms_defermap[d]
        BY <1>1, <3>1 DEF Kept
      <3> QED
        BY <1>1, <1>2, <1>3, <1>6, <1>9, <1>10, <3>1, <3>2 DEF Kept
    <2> QED
      BY Zenon, <2>1, <2>2 DEF DiskInv
  <1> QED
    BY Zenon, <1>12, <1>13, <1>14, <1>15, <1>16, <1>17, <1>18, <1>19 DEF IInv

\* The pool is opened with the newest state on disk, which is intact: its
\* blocks are in use, and no block of the intent log is among them.
LEMMA CrashKeeps == ASSUME IInv, Crash PROVE IInv'
  <1> /\ Types /\ AllocInv /\ UsedInv /\ FreeInv /\ PartsInv /\ SmoInv /\ DeferInv /\ ClaimInv
      /\ DiskInv /\ MapIsWhatIsFree /\ SpaceMapIsExact /\ DeferredKeepSyncing /\ ClaimsAreFree
      /\ RewindIsSafe
    BY Zenon DEF IInv
  <1>1. /\ Newest = OnDisk /\ OnDisk \in DOMAIN disk /\ OnDisk \in Nat \ {0} /\ OnDisk >= opened
    BY DEF Newest, OnDisk, Types, DiskInv, Txg
  <1> DEFINE n == OnDisk
             live == {e[1] : e \in disk[n].live}
  <1>2. /\ Fresh(disk[n].smo) /\ open' = n + 1 /\ last' = n /\ sync' = "idle" /\ opened' = n
        /\ used' = live /\ flight' = {} /\ UNCHANGED <<birth, disk>>
        /\ \A b \in claims' : b \in used \cup claims /\ birth[b] > n
    BY Zenon, <1>1 DEF Crash
  <1>3. disk[n].smo = live /\ live \subseteq Blocks
    BY Zenon, <1>1 DEF SpaceMapIsExact, DiskInv
  <1>4. \A b \in live : birth[b] \in 0 .. n
    BY Zenon, <1>1 DEF RewindIsSafe, Intact, DiskInv
  <1>5. /\ ms_map' = {} /\ sm' = "unloaded" /\ active' = FALSE /\ ms_list' = {}
        /\ ms_allocmap' = [s \in Slots |-> {}] /\ ms_freemap' = [s \in Slots |-> {}]
        /\ ms_defermap' = [d \in DeferSlots |-> {}] /\ ms_smo' = live /\ ms_smo_syncing' = live
    BY Zenon, <1>2, <1>3 DEF Fresh
  <1> HIDE DEF live, n
  <1>6. Unsynced' = {} /\ Freed' = {} /\ Deferred' = {} /\ Txg' = n + 1 /\ n \in Nat \ {0}
        /\ Slot(Txg') \in Slots
    BY <1>1, <1>2, <1>5, SlotFacts DEF Unsynced, Freed, Deferred, Txg, n
  <1>7. Types'
    <2>1. active' \in BOOLEAN
      BY Zenon, <1>5
    <2>2. open' - last' \in 1 .. TXG_CONCURRENT_STATES
      BY <1>2, <1>6 DEF TXG_CONCURRENT_STATES
    <2>3. ms_allocmap' \in [Slots -> SUBSET Blocks] /\ ms_freemap' \in [Slots -> SUBSET Blocks]
          /\ ms_defermap' \in [DeferSlots -> SUBSET Blocks]
      BY Zenon, <1>5
    <2>4. open' \in Nat /\ last' \in Nat \ {0} /\ opened' \in Nat /\ opened' <= last'
      BY <1>2, <1>6
    <2>5. claims' \subseteq Blocks
      BY Zenon, <1>2 DEF Types, TypeOK
    <2> QED
      BY Zenon, <1>2, <1>3, <1>5, <2>1, <2>2, <2>3, <2>4, <2>5 DEF Types, TypeOK
  <1>8. AllocInv' /\ UsedInv' /\ FreeInv' /\ DeferInv' /\ DeferredKeepSyncing' /\ MapIsWhatIsFree'
    BY <1>2, <1>4, <1>5, <1>6 DEF AllocInv, UsedInv, FreeInv, DeferInv, DeferredKeepSyncing, MapIsWhatIsFree
  <1>9. PartsInv' /\ SmoInv'
    BY Zenon, <1>2, <1>5, <1>6 DEF PartsInv, SmoInv
  <1>10. ClaimInv' /\ ClaimsAreFree'
    BY <1>2, <1>4, <1>5, <1>6 DEF ClaimInv, ClaimsAreFree
  <1>11. SpaceMapIsExact' /\ RewindIsSafe'
    BY <1>1, <1>2 DEF SpaceMapIsExact, RewindIsSafe, Intact, DiskInv, n
  <1>12. DiskInv'
    <2>1. OnDisk' = n /\ disk' = disk /\ opened' = n
      BY Zenon, <1>2 DEF OnDisk
    <2>2. ASSUME NEW t \in DOMAIN disk, t >= n, NEW e \in disk[t].live
          PROVE  Kept(t, e[1])'
      <3>1. t = n
        BY <1>1, <2>2 DEF DiskInv, n
      <3>2. e[1] \in used'
        BY Zenon, <1>2, <3>1 DEF live
      <3>3. DeferSlot(Txg') \in DeferSlots /\ DeferSlot(Txg' + 1) \in DeferSlots
        <4>1. Txg' \in Nat
          BY <1>6
        <4> QED
          BY Zenon, <4>1, DeferFacts
      <3> QED
        BY Zenon, <1>5, <1>6, <3>2, <3>3 DEF Kept
    <2> QED
      BY Zenon, <1>1, <2>1, <2>2 DEF DiskInv, n
  <1> QED
    BY Zenon, <1>7, <1>8, <1>9, <1>10, <1>11, <1>12 DEF IInv

-----------------------------------------------------------------------------
\* Every step keeps the invariant.
LEMMA NextIInv == IInv /\ [Next]_vars => IInv'
  BY Zenon, LoadStartKeeps, LoadDoneKeeps, PassivateKeeps, AllocKeeps, WriteDoneKeeps, FreeNowKeeps,
     FreeKeeps, ClaimKeeps, NextGroupKeeps, SpaSyncKeeps, SyncKeeps, ConfigSyncKeeps, SyncDoneKeeps,
     CrashKeeps, StutterKeeps DEF Next

\* The inductive invariant holds in every reachable state.
THEOREM Invariant == Spec => []IInv
  BY InitIInv, NextIInv, PTL DEF Spec

\* A loaded map is exactly what is free, and a map with allocations that have
\* not synced stays loaded: space_map_add() and space_map_remove() find no
\* block twice or missing.
THEOREM MapsStaySound == Spec => []MapsAreSound
  <1>1. IInv => MapsAreSound
    BY DEF IInv, Types, MapsAreSound, UnsyncedMeansLoaded, SmoInv, Unsynced
  <1> QED
    BY <1>1, Invariant, PTL

\* The space map object of every group on disk has exactly the blocks of that
\* group, condensed or not, and the blocks of the intent log can be claimed.
THEOREM DiskStaysSound == Spec => []DiskIsSound
  <1>1. IInv => DiskIsSound
    BY Zenon DEF IInv, DiskIsSound
  <1> QED
    BY <1>1, Invariant, PTL

\* A metaslab with deferred frees is dirty in every group until they are given
\* back.
THEOREM DeferredAlwaysSync == Spec => []DeferredKeepSyncing
  <1>1. IInv => DeferredKeepSyncing
    BY Zenon DEF IInv
  <1> QED
    BY <1>1, Invariant, PTL

\* No block of the last TXG_DEFER_SIZE groups on disk is allocated again while
\* the pool can go back to them.
THEOREM RewindStaysSafe == Spec => []RewindIsSafe
  <1>1. IInv => RewindIsSafe
    BY Zenon DEF IInv
  <1> QED
    BY <1>1, Invariant, PTL
=============================================================================
