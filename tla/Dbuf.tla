-------------------------------- MODULE Dbuf --------------------------------
(***************************************************************************)
(* One level-0 data block of a file: dbuf.c, with dmu_sync() of dmu.c and  *)
(* the freed ranges of dnode.c and dnode_sync.c.                           *)
(*                                                                         *)
(* Up to three groups have a version of the block at the same time.  The   *)
(* newest one is in db_buf; an older one is in the dirty record of its     *)
(* group, which points to db_buf itself until somebody would disturb it    *)
(* there: then one of the two gets a copy.  Writers, readers, a free, the  *)
(* intent log (dmu_sync) and the sync thread meet in the dbuf with db_mtx  *)
(* held for a few lines at a time.                                         *)
(*                                                                         *)
(* A step is a section under db_mtx, or what is done between two of them.  *)
(* db_dirtycnt and the holds with a txg as tag change together with the    *)
(* list of records, and are read off it.  A block has two halves, so that  *)
(* two writers can share it.                                               *)
(***************************************************************************)
EXTENDS Integers, Sequences, FiniteSets, FiniteSetsExt, Functions

CONSTANTS
    Casts,      \* what the actors do: functions from actors to operations
    FirstTxg,   \* the open group at the start
    LastTxg     \* bound: the last group that is opened

Writes == {"lo", "hi", "full", "loan"}

Zero == <<0, 0>>
Junk == <<-1, -1>>      \* what arc_buf_alloc() returns
Hole == <<>>            \* BP_IS_HOLE
Nil == 0                \* no buffer; buffers are 1 .. 6
IO == 0                 \* the hold of a read in flight
Bufs == 1 .. 6
Groups == FirstTxg - 1 .. LastTxg

VARIABLES
    cast,
    open, synced,
    sync,       \* the sync thread: idle, free, range, leaf, write, done
    pc, grp,    \* per actor: next step; group of its transaction
    ptr,        \* per actor: the db_data it is copying from or to
    db,         \* the dbuf, its dirty records and their buffers
    rd,         \* the data a read in flight will return
    wr,         \* the write in flight: [buf, over]
    bp,         \* *db_blkptr: Hole or the data of the block it points to
    dn_ranges,  \* the groups whose dn_ranges contain the block
    (* history *)
    lin,        \* contents that explain what was seen so far
    image       \* image[g]: the block when the last change of g was done

groupVars == <<open, synced>>
vars == <<cast, open, synced, sync, pc, grp, ptr, db, rd, wr, bp, dn_ranges,
          lin, image>>

Actors == DOMAIN cast
Txs == {t \in Actors : cast[t] \in Writes \cup {"free"}}
Active == {t \in Txs : pc[t] \notin {"start", "end"}}
Written(t, content) ==
    CASE cast[t] = "lo" -> <<t, content[2]>>
      [] cast[t] = "hi" -> <<content[1], t>>
      [] cast[t] = "free" -> Zero
      [] OTHER -> <<t, t>>
-----------------------------------------------------------------------------
(* The dbuf as a value: what a section under db_mtx does to it.            *)

Absent == [db_state |-> "none", db_buf |-> Nil, db_freed_in_flight |-> FALSE,
           db_data_pending |-> 0, db_last_dirty |-> <<>>, holders |-> {},
           heap |-> [i \in {} |-> Zero]]

Dirtycnt(d) == Len(d.db_last_dirty)
Holds(d) == Cardinality(d.holders) + Dirtycnt(d)
Records(d) == DOMAIN d.db_last_dirty
RecordOf(d, g) == {i \in Records(d) : d.db_last_dirty[i].dr_txg = g}
Used(d) == ({d.db_buf} \cup {d.db_last_dirty[i].dr_data : i \in Records(d)})
             \ {Nil}

(* arc_buf_remove_ref() of the buffers nobody points to any more. *)
Drop(d) == [d EXCEPT !.heap = Restrict(d.heap, Used(d))]

(* arc_buf_alloc(): an anonymous buffer that holds the given data. *)
NewBuf(d) == Min(Bufs \ Used(d))
Alloc(d, content) ==
    [d EXCEPT !.heap = [i \in DOMAIN d.heap \cup {NewBuf(d)} |->
        IF i = NewBuf(d) THEN [data |-> content, released |-> TRUE]
                         ELSE d.heap[i]]]
Data(d, i) == d.heap[i].data

(* dbuf_set_data() with a buffer that was just allocated. *)
SetNew(d, content, state) ==
    [Alloc(d, content) EXCEPT !.db_buf = NewBuf(d), !.db_state = state]
SetNull(d) == [d EXCEPT !.db_buf = Nil, !.db_state = "UNCACHED"]

arc_release(d, i) == [d EXCEPT !.heap[i].released = TRUE]

(* Mutant: the old group goes on sharing the buffer. *)
dbuf_fix_old_data_shared(d) == d

(* The data of the last record is given a buffer of its own when somebody  *)
(* holds the dbuf; otherwise the dbuf gives its buffer up to the record.   *)
dbuf_fix_old_data(d) ==
    IF d.db_last_dirty = <<>> \/ d.db_last_dirty[1].dr_data # d.db_buf THEN d
    ELSE IF Holds(d) > Dirtycnt(d)
    THEN [Alloc(d, Data(d, d.db_buf)) EXCEPT
             !.db_last_dirty[1].dr_data = NewBuf(d)]
    ELSE SetNull(d)

(* Mutant: the block written for the log is kept. *)
dbuf_unoverride_kept(d, i) == d

dbuf_unoverride(d, i) ==
    IF d.db_last_dirty[i].dr_override = "no" THEN d
    ELSE arc_release([d EXCEPT !.db_last_dirty[i].dr_override = "no",
                               !.db_last_dirty[i].dr_overridden_by = Hole],
                     d.db_last_dirty[i].dr_data)

NewRecord(d, g) ==
    [d EXCEPT !.db_last_dirty =
        <<[dr_txg |-> g, dr_data |-> d.db_buf, dr_override |-> "no",
           dr_overridden_by |-> Hole]>> \o d.db_last_dirty,
     !.db_freed_in_flight = FALSE]

dbuf_dirty(d, g) ==
    IF RecordOf(d, g) # {}
    THEN dbuf_unoverride(d, CHOOSE i \in RecordOf(d, g) : TRUE)
    ELSE NewRecord(dbuf_fix_old_data(arc_release(d, d.db_buf)), g)

(* What dbuf_rele_and_unlock() does when the last hold goes. *)
dbuf_rele(d) ==
    IF Holds(d) > 0 THEN d
    ELSE IF d.db_buf = Nil \/ d.heap[d.db_buf].released THEN Absent ELSE d

(* dbuf_undirty() without the early return for a dbuf that is held. *)
RemoveRecord(d, i) ==
    [d EXCEPT !.db_last_dirty =
        SubSeq(@, 1, i - 1) \o SubSeq(@, i + 1, Len(@))]
dbuf_undirty(d, g) ==
    LET i == CHOOSE i \in RecordOf(d, g) : TRUE
        r == Drop(RemoveRecord(dbuf_unoverride(d, i), i))
    IN IF Holds(r) = 0 THEN Absent ELSE r

(* dbuf_free_range() for the dbuf, after dbuf_undirty() returned 0. *)
Bzero(d) ==
    IF d.db_state # "CACHED" THEN d
    ELSE [arc_release(d, d.db_buf) EXCEPT !.heap[d.db_buf].data = Zero]
ClearFreed(d, g) ==
    CASE d.db_state \in {"none", "UNCACHED"} -> d
      [] d.db_state \in {"READ", "FILL"} ->
            [d EXCEPT !.db_freed_in_flight = TRUE]
      [] d.db_state = "CACHED" /\ Holds(d) = 0 -> Absent
      [] d.db_state = "CACHED" /\ Holds(d) > 0 /\ d.db_last_dirty = <<>> ->
            Bzero(d)
      [] OTHER -> IF d.db_last_dirty[1].dr_txg = g
                  THEN Bzero(dbuf_unoverride(d, 1))
                  ELSE Bzero(dbuf_fix_old_data(d))

(* dbuf_assign_arcbuf() when only the caller holds the dbuf. *)
AssignSwap(d, g, content) ==
    LET a == SetNew(d, content, "FILL")
        own == /\ d.db_state = "CACHED"
               /\ d.db_last_dirty # <<>>
               /\ d.db_last_dirty[1].dr_txg = g
    IN Drop(IF own THEN [a EXCEPT !.db_last_dirty[1].dr_data = a.db_buf]
                   ELSE a)
-----------------------------------------------------------------------------
(* Locks.  db_mtx is held between two steps only while dbuf_read_impl()    *)
(* looks at the freed ranges; dn_struct_rwlock is held as writer by        *)
(* dnode_free_range().                                                     *)

db_mtx_free == \A a \in Actors : pc[a] # "check"
struct_free == \A a \in Actors : pc[a] \notin {"undirty", "clear"}

(* An actor that goes on to copy data has read the pointer db_data. *)
Goto(a, label) ==
    /\ pc' = [pc EXCEPT ![a] = label]
    /\ ptr' = [ptr EXCEPT ![a] =
                 IF label \in {"copy", "late", "modify"} THEN db'.db_buf
                                                         ELSE Nil]

(* What a reader in open context would find in the block. *)
BlockFreed == dn_ranges # {}
OnDisk == IF bp = Hole \/ BlockFreed THEN Zero ELSE bp
Visible ==
    CASE db.db_state \in {"CACHED", "FILL"} -> Data(db, db.db_buf)
      [] db.db_state = "READ" -> IF db.db_freed_in_flight THEN Zero ELSE rd
      [] OTHER -> OnDisk

(* The contents that result when some of the operations in progress take   *)
(* effect, in some order.                                                  *)
Orders(S) == {f \in UNION {[1 .. n -> S] : n \in 0 .. Cardinality(S)} :
                \A i, j \in DOMAIN f : f[i] = f[j] => i = j}
Effect(content, order) ==
    LET after[i \in 0 .. Len(order)] ==
          IF i = 0 THEN content ELSE Written(order[i], after[i - 1])
    IN after[Len(order)]
Extended == UNION {{[data |-> Effect(l.data, o), done |-> l.done \cup Range(o)]
                      : o \in Orders(Active \ l.done)} : l \in lin}

(* Somebody looked at the block, through the pointer it has. *)
At(i) == IF i \in DOMAIN db.heap THEN Data(db, i) ELSE Junk
Seen(content) == lin' = {l \in Extended : l.data = content}

(* A transaction is done: it must have taken effect.  The last one of its  *)
(* group leaves the image of the group.                                    *)
Finished(t) ==
    LET ended == {[data |-> l.data, done |-> l.done \ {t}] :
                    l \in {m \in Extended : t \in m.done}}
    IN IF Active = {t}
       THEN /\ lin' = {l \in ended : l.data = Visible}
            /\ image' = [u \in Groups |->
                           IF u >= grp[t] THEN Visible ELSE image[u]]
       ELSE lin' = ended /\ UNCHANGED image

history == <<lin, image>>
diskVars == <<rd, wr, bp>>
-----------------------------------------------------------------------------
(* The groups: open, quiescing and syncing.                                *)

Advance ==
    /\ open < LastTxg /\ open < synced + 3
    /\ \A t \in Active : grp[t] >= open
    /\ open' = open + 1
    /\ UNCHANGED <<cast, synced, sync, pc, ptr, grp, db, diskVars, dn_ranges,
                   history>>

(* dmu_tx_assign(): the dnode is in one group at a time.  The writers and  *)
(* zfs_get_data() exclude each other by the range lock of the file.        *)
SameGroup == \A u \in Active : grp[u] = open
Begin(t) ==
    /\ t \in Txs /\ pc[t] = "start"
    /\ SameGroup
    /\ \A z \in Actors : cast[z] = "log" => pc[z] \in {"start", "end"}
    /\ grp' = [grp EXCEPT ![t] = open]
    /\ UNCHANGED db
    /\ Goto(t, IF cast[t] = "free" THEN "free" ELSE "hold")
    /\ UNCHANGED <<cast, groupVars, sync, diskVars, dn_ranges, history>>

BeginRead(r) ==
    /\ cast[r] = "read" /\ pc[r] = "start"
    /\ UNCHANGED db
    /\ Goto(r, "hold")
    /\ UNCHANGED <<cast, groupVars, sync, grp, diskVars, dn_ranges,
                   history>>

(* zfs_get_data() for the record of a write that is in the log's lists. *)
BeginLog(z) ==
    /\ cast[z] = "log" /\ pc[z] = "start"
    /\ Active = {}
    /\ \E t \in Txs : /\ cast[t] \in Writes /\ pc[t] = "end"
                      /\ grp' = [grp EXCEPT ![z] = grp[t]]
    /\ UNCHANGED db
    /\ Goto(z, "hold")
    /\ UNCHANGED <<cast, groupVars, sync, diskVars, dn_ranges, history>>

Commit(t) ==
    /\ pc[t] = "commit"
    /\ UNCHANGED db
    /\ Goto(t, "end")
    /\ Finished(t)
    /\ UNCHANGED <<cast, groupVars, sync, grp, diskVars, dn_ranges>>
-----------------------------------------------------------------------------
(* Holding and reading.                                                    *)

(* A dbuf that gave the sync thread its own buffer gets a new one, in case *)
(* the holder dirties it. *)
HoldCopy(d) ==
    IF /\ d.db_state = "CACHED" /\ d.db_data_pending # 0
       /\ \E i \in RecordOf(d, d.db_data_pending) :
             d.db_last_dirty[i].dr_data = d.db_buf
    THEN SetNew(d, Data(d, d.db_buf), "CACHED")
    ELSE d

dbuf_hold(a) ==
    /\ pc[a] = "hold" /\ db_mtx_free /\ struct_free
    /\ LET d == IF db.db_state = "none"
                THEN [db EXCEPT !.db_state = "UNCACHED"] ELSE HoldCopy(db)
       IN db' = [d EXCEPT !.holders = @ \cup {a}]
    /\ Goto(a, CASE cast[a] = "full" -> "noread"
                 [] cast[a] = "loan" -> "assign"
                 [] OTHER -> "read")
    /\ UNCHANGED <<cast, groupVars, sync, grp, diskVars, dn_ranges, history>>

AfterRead(a) == CASE cast[a] = "read" -> "copy"
                  [] cast[a] = "log" -> "log"
                  [] OTHER -> "dirty"

(* dbuf_read() up to the first look at the block pointer. *)
dbuf_read(a) ==
    /\ pc[a] = "read" /\ db_mtx_free /\ struct_free
    /\ \/ /\ db.db_state = "CACHED"
          /\ UNCHANGED db
          /\ Goto(a, AfterRead(a))
       \/ /\ db.db_state = "UNCACHED" /\ bp = Hole
          /\ db' = SetNew(db, Zero, "CACHED")
          /\ Goto(a, AfterRead(a))
       \/ /\ db.db_state = "UNCACHED" /\ bp # Hole
          /\ UNCHANGED db
          /\ Goto(a, "check")
       \/ /\ db.db_state \in {"READ", "FILL"}
          /\ UNCHANGED db
          /\ Goto(a, "await")
    /\ UNCHANGED <<cast, groupVars, sync, grp, diskVars, dn_ranges, history>>

(* Mutant: the freed ranges are not consulted. *)
ReadsZero_nofreed == bp = Hole

(* The freed ranges, and the block pointer again.  The thread that issues  *)
(* the read waits for it like the others, without the lock. *)
ReadsZero == BlockFreed \/ bp = Hole
dbuf_read_impl(a) ==
    /\ pc[a] = "check"
    /\ IF ReadsZero
       THEN /\ db' = SetNew(db, Zero, "CACHED")
            /\ Goto(a, AfterRead(a))
            /\ UNCHANGED rd
       ELSE /\ db' = [db EXCEPT !.db_state = "READ", !.holders = @ \cup {IO}]
            /\ Goto(a, "await")
            /\ rd' = bp
    /\ UNCHANGED <<cast, groupVars, sync, grp, wr, bp, dn_ranges, history>>

(* The wait at the end of dbuf_read(), without dn_struct_rwlock. *)
ReadWait(a) ==
    /\ pc[a] = "await" /\ db_mtx_free
    /\ db.db_state \notin {"READ", "FILL"}
    /\ UNCHANGED db
    /\ Goto(a, AfterRead(a))
    /\ UNCHANGED <<cast, groupVars, sync, grp, diskVars, dn_ranges, history>>

dbuf_read_done ==
    /\ db.db_state = "READ" /\ db_mtx_free
    /\ LET zero == db.db_freed_in_flight
           d == SetNew(db, IF zero THEN Zero ELSE rd, "CACHED")
       IN db' = dbuf_rele([d EXCEPT !.heap[d.db_buf].released = zero,
                                    !.db_freed_in_flight = FALSE,
                                    !.holders = @ \ {IO}])
    /\ rd' = Hole
    /\ UNCHANGED <<cast, groupVars, sync, pc, ptr, grp, wr, bp, dn_ranges, history>>

(* A reader copies the data out, holding nothing but its hold. *)
Look(r) ==
    /\ pc[r] = "copy"
    /\ Seen(At(ptr[r]))
    /\ UNCHANGED db
    /\ Goto(r, "rele")
    /\ UNCHANGED <<cast, groupVars, sync, grp, diskVars, dn_ranges, image>>

dbuf_rele_hold(a) ==
    /\ pc[a] = "rele" /\ db_mtx_free
    /\ db' = dbuf_rele([db EXCEPT !.holders = @ \ {a}])
    /\ Goto(a, IF a \in Txs THEN "commit" ELSE "end")
    /\ UNCHANGED <<cast, groupVars, sync, grp, diskVars, dn_ranges, history>>

(* The ARC evicts a buffer that is on disk and not held. *)
dbuf_do_evict ==
    /\ db.db_state = "CACHED" /\ db_mtx_free
    /\ Holds(db) = 0
    /\ db' = Absent
    /\ UNCHANGED <<cast, groupVars, sync, pc, ptr, grp, diskVars, dn_ranges,
                   history>>
-----------------------------------------------------------------------------
(* Writing.                                                                *)

Busy == db.db_state \in {"READ", "FILL"}

(* dbuf_noread(): the old contents are not needed. *)
dbuf_noread(t) ==
    /\ pc[t] = "noread" /\ db_mtx_free
    /\ ~Busy
    /\ db' = IF db.db_state = "UNCACHED" THEN SetNew(db, Junk, "FILL") ELSE db
    /\ Goto(t, "dirty")
    /\ UNCHANGED <<cast, groupVars, sync, grp, diskVars, dn_ranges, history>>

(* Mutant: the buffer is replaced while others read it. *)
OthersHold_never == FALSE

(* dbuf_assign_arcbuf() up to its dbuf_dirty(): a dbuf that somebody else  *)
(* holds keeps its buffer, and the data will be copied. *)
OthersHold == Holds(db) - 1 > Dirtycnt(db)
dbuf_assign_arcbuf(t) ==
    /\ pc[t] = "assign" /\ db_mtx_free
    /\ ~Busy
    /\ IF db.db_state = "CACHED" /\ OthersHold
       THEN UNCHANGED db /\ Goto(t, "dirty")
       ELSE /\ db' = AssignSwap(db, grp[t], <<t, t>>)
            /\ Goto(t, "dirty_swapped")
    /\ UNCHANGED <<cast, groupVars, sync, grp, diskVars, dn_ranges, history>>

(* dbuf_dirty().  A new record takes the block off the ranges freed in its *)
(* group, and is linked to its parent with dn_struct_rwlock held. *)
Dirty(t) ==
    /\ pc[t] \in {"dirty", "dirty_swapped"} /\ db_mtx_free
    /\ LET new == RecordOf(db, grp[t]) = {}
           swapped == pc[t] = "dirty_swapped"
       IN /\ db' = dbuf_dirty(db, grp[t])
          /\ dn_ranges' = IF new THEN dn_ranges \ {grp[t]} ELSE dn_ranges
          /\ Goto(t, CASE new /\ swapped -> "link_swapped"
                       [] new /\ ~swapped -> "link"
                       [] ~new /\ swapped -> "filldone"
                       [] OTHER -> "modify")
    /\ UNCHANGED <<cast, groupVars, sync, grp, diskVars, history>>

Link(t) ==
    /\ pc[t] \in {"link", "link_swapped"} /\ struct_free
    /\ UNCHANGED db
    /\ Goto(t, IF pc[t] = "link" THEN "modify" ELSE "filldone")
    /\ UNCHANGED <<cast, groupVars, sync, grp, diskVars, dn_ranges,
                   history>>

(* The caller's bcopy() or uiomove() into db_data. *)
Modify(t) ==
    /\ pc[t] = "modify"
    /\ db' = [db EXCEPT !.heap[ptr[t]].data = Written(t, @)]
    /\ Goto(t, IF cast[t] = "full" THEN "filldone" ELSE "rele")
    /\ UNCHANGED <<cast, groupVars, sync, grp, diskVars, dn_ranges, history>>

FillFreed(d) == [d EXCEPT !.heap[d.db_buf].data = Zero,
                          !.db_freed_in_flight = FALSE]
dbuf_fill_done(t) ==
    /\ pc[t] = "filldone" /\ db_mtx_free
    /\ LET d == IF db.db_freed_in_flight THEN FillFreed(db) ELSE db
       IN db' = IF db.db_state = "FILL" THEN [d EXCEPT !.db_state = "CACHED"]
                                        ELSE db
    /\ Goto(t, "rele")
    /\ UNCHANGED <<cast, groupVars, sync, grp, diskVars, dn_ranges, history>>
-----------------------------------------------------------------------------
(* dnode_free_range(): the range, then dbuf_free_range() with its two      *)
(* sections under db_mtx.                                                  *)

dnode_free_range(t) ==
    /\ pc[t] = "free" /\ db_mtx_free /\ struct_free
    /\ dn_ranges' = dn_ranges \cup {grp[t]}
    /\ UNCHANGED db
    /\ Goto(t, "undirty")
    /\ UNCHANGED <<cast, groupVars, sync, grp, diskVars, history>>

(* A dbuf that is held stays dirty, and must not be freed by the sync. *)
Undirty(t) ==
    /\ pc[t] = "undirty" /\ db_mtx_free
    /\ LET dirty == RecordOf(db, grp[t]) # {}
           held == Holds(db) > Dirtycnt(db)
       IN /\ db' = IF dirty /\ ~held THEN dbuf_undirty(db, grp[t]) ELSE db
          /\ dn_ranges' = IF dirty /\ held THEN dn_ranges \ {grp[t]}
                                           ELSE dn_ranges
    /\ Goto(t, "clear")
    /\ UNCHANGED <<cast, groupVars, sync, grp, diskVars, history>>

Clear(t) ==
    /\ pc[t] = "clear" /\ db_mtx_free
    /\ db' = ClearFreed(db, grp[t])
    /\ Goto(t, "commit")
    /\ UNCHANGED <<cast, groupVars, sync, grp, diskVars, dn_ranges, history>>
-----------------------------------------------------------------------------
(* dmu_sync(): the intent log writes the block before its group does.      *)

Syncing == IF sync = "idle" THEN synced ELSE synced + 1

dmu_sync(z) ==
    /\ pc[z] = "log" /\ db_mtx_free
    /\ LET g == grp[z]
           late == g > synced /\ g <= Syncing
           mine == RecordOf(db, g)
       IN IF late
          THEN /\ UNCHANGED db
               /\ Goto(z, "late")
          ELSE IF /\ g > synced
                  /\ \E i \in mine : db.db_last_dirty[i].dr_override = "no"
          THEN /\ db' = [db EXCEPT !.db_last_dirty =
                           [i \in Records(db) |-> IF i \in mine
                              THEN [@[i] EXCEPT !.dr_override = "in"]
                              ELSE @[i]]]
               /\ Goto(z, "logging")
          ELSE /\ UNCHANGED db
               /\ Goto(z, "rele")
    /\ UNCHANGED <<cast, groupVars, sync, grp, diskVars, dn_ranges, history>>

(* The write is done, or has failed: dmu_sync_done(). *)
Overridden(d, g) ==
    [d EXCEPT !.db_last_dirty = [i \in Records(d) |->
       IF d.db_last_dirty[i].dr_txg # g THEN d.db_last_dirty[i]
       ELSE [d.db_last_dirty[i] EXCEPT
               !.dr_override = "done",
               !.dr_overridden_by = Data(d, d.db_last_dirty[i].dr_data)]],
     !.heap = [i \in DOMAIN d.heap |->
       IF \E r \in RecordOf(d, g) : d.db_last_dirty[r].dr_data = i
       THEN [d.heap[i] EXCEPT !.released = FALSE] ELSE d.heap[i]]]
dmu_sync_done(z) ==
    /\ pc[z] = "logging" /\ db_mtx_free
    /\ \/ db' = Overridden(db, grp[z])
       \/ db' = [db EXCEPT !.db_last_dirty = [i \in Records(db) |->
                   IF i \in RecordOf(db, grp[z])
                   THEN [@[i] EXCEPT !.dr_override = "no"] ELSE @[i]]]
    /\ Goto(z, "rele")
    /\ UNCHANGED <<cast, groupVars, sync, grp, diskVars, dn_ranges, history>>

(* The group is being synced: a block of its own for the log. *)
dmu_sync_late_arrival(z) ==
    /\ pc[z] = "late"
    /\ Seen(At(ptr[z]))
    /\ UNCHANGED db
    /\ Goto(z, "rele")
    /\ UNCHANGED <<cast, groupVars, sync, grp, diskVars, dn_ranges, image>>
-----------------------------------------------------------------------------
(* The sync thread.                                                        *)

Quiesced == synced + 1 < open /\ \A t \in Active : grp[t] # synced + 1
SyncStart ==
    /\ sync = "idle" /\ Quiesced
    /\ sync' = IF synced + 1 \in dn_ranges THEN "free" ELSE "leaf"
    /\ UNCHANGED <<cast, groupVars, pc, ptr, grp, db, diskVars, dn_ranges, history>>

(* dnode_sync(): the block pointers first, then the range. *)
dnode_sync_free_range ==
    /\ sync = "free"
    /\ bp' = Hole
    /\ sync' = "range"
    /\ UNCHANGED <<cast, groupVars, pc, ptr, grp, db, rd, wr, dn_ranges, history>>
RemoveRange ==
    /\ sync = "range"
    /\ dn_ranges' = dn_ranges \ {Syncing}
    /\ sync' = "leaf"
    /\ UNCHANGED <<cast, groupVars, pc, ptr, grp, db, diskVars, history>>

(* Mutant: the buffer is written in place. *)
LeafCopies_never(d, r) == FALSE

(* A held buffer that the record still shares with the dbuf is copied for  *)
(* the write.  A block dmu_sync() wrote is not written again. *)
LeafCopies(d, r) == /\ Holds(d) > 1
                    /\ r.dr_override # "done"
                    /\ r.dr_data = d.db_buf
SyncLeaf ==
    /\ sync = "leaf" /\ db_mtx_free
    /\ \E i \in RecordOf(db, Syncing) :
          LET r == db.db_last_dirty[i]
              d == IF LeafCopies(db, r)
                   THEN [Alloc(db, Data(db, db.db_buf)) EXCEPT
                           !.db_last_dirty[i].dr_data = NewBuf(db)]
                   ELSE db
          IN /\ r.dr_override # "in"
             /\ db' = [d EXCEPT !.db_data_pending = Syncing,
                                !.db_last_dirty[i].dr_override = "no",
                                !.db_last_dirty[i].dr_overridden_by = Hole]
             /\ wr' = [buf |-> d.db_last_dirty[i].dr_data,
                       over |-> r.dr_overridden_by]
    /\ sync' = "write"
    /\ UNCHANGED <<cast, groupVars, pc, ptr, grp, rd, bp, dn_ranges, history>>

NoWrite == [buf |-> Nil, over |-> Hole]
dbuf_write_ready ==
    /\ sync = "write"
    /\ bp' = IF wr.over # Hole THEN wr.over ELSE Data(db, wr.buf)
    /\ sync' = "done"
    /\ UNCHANGED <<cast, groupVars, pc, ptr, grp, db, rd, wr, dn_ranges, history>>

dbuf_write_done ==
    /\ sync = "done" /\ db_mtx_free
    /\ LET i == CHOOSE i \in RecordOf(db, db.db_data_pending) : TRUE
           w == IF wr.over # Hole THEN db
                ELSE [db EXCEPT !.heap[wr.buf].released = FALSE]
           d == Drop(RemoveRecord(w, i))
       IN db' = dbuf_rele([d EXCEPT !.db_data_pending = 0])
    /\ wr' = NoWrite
    /\ sync' = "leaf"
    /\ UNCHANGED <<cast, groupVars, pc, ptr, grp, rd, bp, dn_ranges, history>>

SyncDone ==
    /\ sync = "leaf" /\ RecordOf(db, Syncing) = {}
    /\ synced' = synced + 1
    /\ sync' = "idle"
    /\ UNCHANGED <<cast, open, pc, ptr, grp, db, diskVars, dn_ranges, history>>
-----------------------------------------------------------------------------
Init ==
    /\ cast \in Casts
    /\ open = FirstTxg /\ synced = FirstTxg - 1 /\ sync = "idle"
    /\ pc = [a \in Actors |-> "start"] /\ grp = [a \in Actors |-> 0]
    /\ ptr = [a \in Actors |-> Nil]
    /\ db = Absent /\ rd = Hole /\ wr = NoWrite
    /\ bp \in {Hole, <<9, 9>>}
    /\ dn_ranges = {}
    /\ lin = {[data |-> IF bp = Hole THEN Zero ELSE bp, done |-> {}]}
    /\ image = [g \in Groups |-> IF bp = Hole THEN Zero ELSE bp]

SyncThread == \/ SyncStart \/ dnode_sync_free_range \/ RemoveRange
              \/ SyncLeaf \/ dbuf_write_ready \/ dbuf_write_done \/ SyncDone

Start(a) == Begin(a) \/ BeginRead(a) \/ BeginLog(a)
Step(a) == \/ Commit(a)
           \/ dbuf_hold(a) \/ dbuf_read(a) \/ dbuf_read_impl(a) \/ ReadWait(a)
           \/ Look(a) \/ dbuf_rele_hold(a)
           \/ dbuf_noread(a) \/ dbuf_assign_arcbuf(a) \/ Dirty(a) \/ Link(a)
           \/ Modify(a) \/ dbuf_fill_done(a)
           \/ dnode_free_range(a) \/ Undirty(a) \/ Clear(a)
           \/ dmu_sync(a) \/ dmu_sync_done(a) \/ dmu_sync_late_arrival(a)

(* Everything was done and written: all other ends are deadlocks. *)
Terminated == /\ \A a \in Actors : pc[a] = "end"
              /\ open = LastTxg /\ synced = LastTxg - 1
              /\ UNCHANGED vars

Next == \/ Advance \/ SyncThread \/ dbuf_read_done \/ dbuf_do_evict
        \/ \E a \in Actors : Start(a) \/ Step(a)
        \/ Terminated

Spec == Init /\ [][Next]_vars
-----------------------------------------------------------------------------
(* What readers and the log saw of the block, and what is in it when no    *)
(* transaction is in progress, is explained by some order of the writes    *)
(* and frees in which each takes effect at once, between its assignment    *)
(* and its commit.  The copies of dbuf_fix_old_data(), dbuf_sync_leaf()    *)
(* and dbuf_hold(), the swap of dbuf_assign_arcbuf() and a read or fill    *)
(* that meets a free leave no other trace.  The casts have readers or the  *)
(* log and not both: what a reader sees of a block that dmu_sync() has     *)
(* written is left out, see the README on dbuf_sync_leaf(). *)
HistoryIsLinear == lin # {}

(* Between two syncs the disk holds the block as the last transaction of   *)
(* the synced group left it: nothing of a later group leaks into the       *)
(* write, and nothing of the group is missing. *)
SyncedIsSnapshot ==
    sync = "idle" => image[synced] = IF bp = Hole THEN Zero ELSE bp

(* From dbuf_sync_leaf() to dbuf_write_done() the buffer of the write      *)
(* exists and keeps the data of its group, whenever the I/O reads it.      *)
PendingIsFrozen ==
    sync \in {"write", "done"} /\ wr.over = Hole =>
        /\ wr.buf \in DOMAIN db.heap
        /\ Data(db, wr.buf) = image[Syncing]

(* A holder copies from or to db_data without a lock: until it is done,    *)
(* db_data stays what it was when the holder read it.  dmu.h:487 says the  *)
(* pointer changes only when its holder calls dmu_buf_read(),              *)
(* dmu_buf_will_dirty() or dmu_buf_will_fill().  A block that dmu_sync()   *)
(* has written is an exception, which the README describes. *)
Logged == \E z \in Actors : cast[z] = "log"
HoldersKeepTheirData ==
    ~Logged => \A a \in Actors : ptr[a] # Nil => ptr[a] = db.db_buf

(* The assertions of dbuf.c that several threads could break: at most      *)
(* three records, of unsynced groups, newest first (1240, 1119), each with *)
(* a buffer of its own; a write in flight is the oldest one (2660); a      *)
(* dbuf is dirtied with data in it (1094), undirtied or unoverridden never *)
(* while dmu_sync() writes it (815); uncached dbufs have no buffer (578);  *)
(* nobody who waits for a read finds its data gone again (718). *)
RecordsAreSound ==
    LET l == db.db_last_dirty IN
    /\ Len(l) <= 3
    /\ \A i, j \in DOMAIN l : i < j => /\ l[i].dr_txg > l[j].dr_txg
                                       /\ l[i].dr_data # l[j].dr_data
    /\ \A i \in DOMAIN l : l[i].dr_txg > synced
    /\ db.db_data_pending # 0 => RecordOf(db, db.db_data_pending) = {Len(l)}
    /\ db.db_state \in {"none", "UNCACHED", "READ"} <=> db.db_buf = Nil
    /\ \A a \in Actors :
         /\ pc[a] = "await" => db.db_state \in {"READ", "FILL", "CACHED"}
         /\ pc[a] \in {"dirty", "dirty_swapped"} =>
              db.db_state \in {"CACHED", "FILL"}
         /\ pc[a] \in {"dirty", "dirty_swapped", "undirty", "clear"} =>
              \A i \in RecordOf(db, grp[a]) : /\ l[i].dr_override # "in"
                                              /\ l[i].dr_txg # db.db_data_pending
=============================================================================
