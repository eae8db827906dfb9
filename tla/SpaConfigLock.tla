--------------------------- MODULE SpaConfigLock ---------------------------
(***************************************************************************)
(* The configuration locks of a pool, module/zfs/spa_misc.c:               *)
(* spa_config_enter(), spa_config_tryenter() and spa_config_exit(), and    *)
(* the threads that use them: spa_sync(), writes of others and an I/O that *)
(* a write waits for (zio.c, metaslab.c), zfs_vfs_getattr(), reads of      *)
(* cache devices (arc.c), and administrators who change the configuration  *)
(* (spa_vdev_enter()) or the state of a device (spa_vdev_state_enter()).   *)
(*                                                                         *)
(* A call takes or gives back its locks one by one, each under its mutex.  *)
(* An I/O is entered by one thread and left by another one: a user of this *)
(* model is an activity, and only writers are told from each other.        *)
(***************************************************************************)
EXTENDS Integers, FiniteSets, FiniteSetsExt

CONSTANTS
    Sync, Getattrs, Reads, Admins, Offlines,
    Ios, Child,                              \* writes, and an I/O one of them waits for
    NoUser,
    TXG_CONCURRENT_STATES, TXG_DEFER_SIZE,
    Casts                                    \* who takes part, see cast

SCL_CONFIG == 0
SCL_STATE == 1
SCL_L2ARC == 2
SCL_ALLOC == 3
SCL_ZIO == 4
SCL_FREE == 5
SCL_VDEV == 6
SCL_ALL == 0 .. 6
SCL_STATE_ALL == {SCL_STATE, SCL_L2ARC, SCL_ZIO}

Users == Ios \cup Getattrs \cup Reads \cup Admins \cup Offlines \cup {Sync, Child}

ASSUME SpaConfigLockAssumption ==
    /\ NoUser \notin Users /\ {TXG_CONCURRENT_STATES, TXG_DEFER_SIZE} \subseteq Nat
    /\ TXG_DEFER_SIZE > 0
    /\ IsFiniteSet(Users)
    /\ Ios \cap (Getattrs \cup Reads \cup Admins \cup Offlines \cup {Sync, Child}) = {}
    /\ Getattrs \cap (Reads \cup Admins \cup Offlines \cup {Sync, Child}) = {}
    /\ Reads \cap (Admins \cup Offlines \cup {Sync, Child}) = {}
    /\ Admins \cap (Offlines \cup {Sync, Child}) = {}
    /\ Offlines \cap {Sync, Child} = {} /\ Sync # Child
    /\ \A c \in Casts : c.users \subseteq Users /\ c.changes \in Nat

VARIABLES
    cast,       \* the users that there are besides spa_sync(), and MaxChanges
    scl,        \* spa_config_lock[]: scl_count, scl_writer and scl_write_wanted
    call,       \* the call a user is in: what it is, and the locks that are left
    held,       \* held[u]: the locks u holds, as "R" or "W"
    pc,         \* what a user does after its call
    dirty,      \* whose changes are on spa_state_dirty_list and spa_config_dirty_list
    left,       \* left[u]: how many groups must sync before txg_wait_synced() returns
    changes     \* how often administrators have acted and labels were not written

vars == <<cast, scl, call, held, pc, dirty, left, changes>>

\* How often administrators act or labels cannot be written.
MaxChanges == cast.changes

NoCall == [op |-> "none", rw |-> "R", locks |-> {}, todo |-> {}, at |-> "run"]

Init ==
    /\ cast \in Casts
    /\ scl = [l \in SCL_ALL |-> [count |-> 0, writer |-> NoUser, wanted |-> 0]]
    /\ call = [u \in Users |-> NoCall]
    /\ held = [u \in Users |-> [l \in {} |-> "R"]]
    /\ pc = [u \in Users |-> IF u = Child THEN "off" ELSE "start"]
    /\ dirty = [state |-> {}, config |-> {}]
    /\ left = [u \in Users |-> 0]
    /\ changes = 0

-----------------------------------------------------------------------------
(* The locks.                                                              *)

\* Mutant: the highest lock comes first.
NextLock_last(u) == Max(call[u].todo)
\* The lock a user takes next.
NextLock(u) == Min(call[u].todo)

\* Mutant: readers do not wait for writers that wait.
MayRead_greedy(l) == scl[l].writer = NoUser
\* Mutant: a writer that does not wait any more is forgotten.
MayRead_shared(l) == scl[l].wanted = 0
MayRead(l) == scl[l].writer = NoUser /\ scl[l].wanted = 0
\* Mutant: writers do not wait for readers.
MayWrite_shared(l) == scl[l].writer = NoUser
MayWrite(l) == scl[l].count = 0

Grant(u, l) ==
    /\ held' = [held EXCEPT ![u] = [k \in DOMAIN @ \cup {l} |-> IF k = l THEN call[u].rw ELSE @[k]]]
    /\ call' = [call EXCEPT ![u].todo = @ \ {l}, ![u].at = "run"]

\* One lock of spa_config_enter() as reader.
EnterReader(u) ==
    LET l == NextLock(u) IN
    /\ call[u].op = "enter" /\ call[u].rw = "R" /\ call[u].todo # {} /\ call[u].at # "wait"
    /\ \/ MayRead(l) /\ Grant(u, l) /\ scl' = [scl EXCEPT ![l].count = @ + 1]
       \/ ~MayRead(l) /\ call' = [call EXCEPT ![u].at = "wait"] /\ UNCHANGED <<scl, held>>
    /\ UNCHANGED <<pc, dirty, left, changes>>

\* How often scl_write_wanted counts a writer that runs.
Counted(u) == IF call[u].at = "woken" THEN 1 ELSE 0

\* One lock of spa_config_enter() as writer.  scl_write_wanted counts it from
\* when it starts to wait until it runs again.
EnterWriter(u) ==
    LET l == NextLock(u)
        wanted == scl[l].wanted - Counted(u)
    IN  /\ call[u].op = "enter" /\ call[u].rw = "W" /\ call[u].todo # {} /\ call[u].at # "wait"
        /\ \/ MayWrite(l) /\ Grant(u, l)
              /\ scl' = [scl EXCEPT ![l] = [count |-> @.count + 1, writer |-> u, wanted |-> wanted]]
           \/ ~MayWrite(l) /\ call' = [call EXCEPT ![u].at = "wait"]
              /\ scl' = [scl EXCEPT ![l].wanted = wanted + 1] /\ UNCHANGED held
        /\ UNCHANGED <<pc, dirty, left, changes>>

\* The locks spa_config_tryenter() gives back when it fails at lock l: the
\* others of the call, also those it has not taken.
Undo(u, l) == call[u].locks \ {l}

\* One lock of spa_config_tryenter(), which is only used for reading.
TryEnter(u) ==
    LET l == NextLock(u) IN
    /\ call[u].op = "try" /\ call[u].todo # {}
    /\ \/ MayRead(l) /\ Grant(u, l) /\ scl' = [scl EXCEPT ![l].count = @ + 1] /\ UNCHANGED pc
       \/ /\ ~MayRead(l) /\ UNCHANGED <<scl, held>>
          /\ call' = [call EXCEPT ![u].op = "exit", ![u].todo = Undo(u, l)]
          /\ pc' = [pc EXCEPT ![u] = "start"]
    /\ UNCHANGED <<dirty, left, changes>>

\* Whether a user that leaves a lock wakes those who wait for it.
Wakes(l) == scl[l].count = 1

\* One lock of spa_config_exit().
Exit(u) ==
    LET l == Max(call[u].todo)
        waiters == {w \in Users : call[w].at = "wait" /\ NextLock(w) = l}
    IN  /\ call[u].op = "exit" /\ call[u].todo # {}
        /\ scl' = [scl EXCEPT ![l].count = @ - 1,
                              ![l].writer = IF scl[l].count = 1 THEN NoUser ELSE @]
        /\ held' = [held EXCEPT ![u] = [k \in DOMAIN @ \ {l} |-> @[k]]]
        /\ call' = [w \in Users |->
                      IF w = u THEN [call[u] EXCEPT !.todo = @ \ {l}]
                      ELSE IF Wakes(l) /\ w \in waiters THEN [call[w] EXCEPT !.at = "woken"]
                      ELSE call[w]]
        /\ UNCHANGED <<pc, dirty, left, changes>>

-----------------------------------------------------------------------------
(* The users.  Do(u, from, op, locks, rw, to): user u at from, whose last  *)
(* call has returned, makes a call and continues at to.                    *)

Do(u, from, op, locks, rw, to) ==
    /\ pc[u] = from /\ call[u].todo = {}
    /\ call' = [call EXCEPT ![u] = [op |-> op, rw |-> rw, locks |-> locks, todo |-> locks,
                                    at |-> "run"]]
    /\ pc' = [pc EXCEPT ![u] = to]
    /\ UNCHANGED <<scl, held>>

Same == UNCHANGED <<dirty, left, changes>>

\* In metaslab_alloc_dva() a device is asked whether it can be used.
AskDevice(u) ==
    \/ Do(u, "allocatable", "enter", {SCL_ZIO}, "R", "allocated")
    \/ Do(u, "allocated", "exit", {SCL_ZIO}, "R", "activate")

\* A step of metaslab_alloc().
Allocate(u, from, to) ==
    \/ Do(u, from, "enter", {SCL_ALLOC}, "R", "allocatable")
    \/ AskDevice(u)
    \/ Do(u, "activate", "exit", {SCL_ALLOC}, "R", to)

\* metaslab_activate() in metaslab_alloc(): a space map has to be read, by an
\* I/O that is waited for.
Activate(u, to) ==
    \/ /\ pc[u] = "activate" /\ call[u].todo = {} /\ pc[Child] = "off"
       /\ pc' = [pc EXCEPT ![u] = "wait", ![Child] = "start"]
       /\ UNCHANGED <<scl, call, held>>
    \/ pc[Child] = "off" /\ call[Child].todo = {} /\ Do(u, "wait", "exit", {SCL_ALLOC}, "R", to)

\* A zio enters SCL_ZIO before it goes to the devices.
zio_vdev_io_start(u, from) == Do(u, from, "enter", {SCL_ZIO}, "R", "issued")
\* It leaves SCL_ZIO when the devices are done.
zio_vdev_io_assess(u, to) == Do(u, "issued", "exit", {SCL_ZIO}, "R", to)
OnDevices(u, from, to) == zio_vdev_io_start(u, from) \/ zio_vdev_io_assess(u, to)

\* The lock of metaslab_free().
FreeLock == SCL_FREE

\* A step of metaslab_free().
Free(u, from, to) ==
    \/ Do(u, from, "enter", {FreeLock}, "R", "freed")
    \/ Do(u, "freed", "exit", {FreeLock}, "R", to)

\* spa_sync(): pending changes of device states become changes of the
\* configuration, which needs the locks as writer; blocks are allocated,
\* written and freed; the labels are written, again if that fails.
SyncStart == Do(Sync, "start", "enter", {SCL_CONFIG}, "R", "state") /\ Same
SyncState == Do(Sync, "state", "enter", {SCL_STATE}, "R", "check") /\ Same
SyncUpgrade ==
    /\ dirty.state # {}
    /\ Do(Sync, "check", "exit", {SCL_CONFIG, SCL_STATE}, "R", "upgrade") /\ Same
SyncWriter == Do(Sync, "upgrade", "enter", {SCL_CONFIG, SCL_STATE}, "W", "convert") /\ Same
SyncConvert ==
    /\ Do(Sync, "convert", "exit", {SCL_CONFIG, SCL_STATE}, "W", "again")
    /\ dirty' = [state |-> {}, config |-> dirty.config \cup dirty.state] /\ UNCHANGED <<left, changes>>
SyncAgain == Do(Sync, "again", "enter", {SCL_CONFIG, SCL_STATE}, "R", "check") /\ Same
SyncClean == dirty.state = {} /\ Do(Sync, "check", "exit", {SCL_STATE}, "R", "alloc") /\ Same
SyncIo ==
    /\ \/ Allocate(Sync, "alloc", "io")
       \/ OnDevices(Sync, "io", "free")
       \/ Free(Sync, "free", "labels")
    /\ Same
SyncLabels == Do(Sync, "labels", "enter", {SCL_STATE}, "R", "write") /\ Same
SyncFail ==
    /\ changes < MaxChanges
    /\ Do(Sync, "write", "exit", {SCL_STATE}, "R", "labels")
    /\ changes' = changes + 1 /\ UNCHANGED <<dirty, left>>
SyncWrite == Do(Sync, "write", "exit", {SCL_STATE}, "R", "done") /\ Same
SyncDone ==
    /\ Do(Sync, "done", "exit", {SCL_CONFIG}, "R", "start")
    /\ dirty' = [dirty EXCEPT !.config = {}]
    /\ left' = [u \in Users |-> IF left[u] = 0 THEN 0 ELSE left[u] - 1]
    /\ UNCHANGED changes

spa_sync ==
    \/ SyncStart \/ SyncState \/ SyncUpgrade \/ SyncWriter \/ SyncConvert \/ SyncAgain \/ SyncClean
    \/ SyncIo \/ SyncLabels \/ SyncFail \/ SyncWrite \/ SyncDone

\* A write allocates its blocks before it goes to the devices, and its child
\* frees a block in zio_done().
zio(u) ==
    /\ \/ u \in Ios /\ Allocate(u, "start", "io")
       \/ u \in Ios /\ Activate(u, "io")
       \/ u \in Ios /\ OnDevices(u, "io", "start")
       \/ u = Child /\ OnDevices(u, "start", "free")
       \/ u = Child /\ Free(u, "free", "off")
    /\ Same

\* The name of the pool is read under all locks.
zfs_vfs_getattr(u) ==
    /\ \/ Do(u, "start", "enter", SCL_ALL, "R", "name")
       \/ Do(u, "name", "exit", SCL_ALL, "R", "start")
    /\ Same

\* A read from a cache device: not if the device is about to go.
arc_read(u) ==
    /\ \/ Do(u, "start", "try", {SCL_L2ARC}, "R", "read")
       \/ Do(u, "read", "exit", {SCL_L2ARC}, "R", "start")
    /\ Same

\* spa_vdev_enter(), under the mutexes of the name space and of the devices.
spa_vdev_enter(u) ==
    /\ changes < MaxChanges
    /\ \A a \in Admins : pc[a] = "start"
    /\ Do(u, "start", "enter", SCL_ALL, "W", "change")
    /\ changes' = changes + 1 /\ UNCHANGED <<dirty, left>>

\* spa_vdev_exit(): a change waits until the group has synced that was the next
\* one to sync when it began, and a device that goes is freed under all locks.
spa_vdev_exit(u) ==
    \/ /\ Do(u, "change", "exit", SCL_ALL, "W", "sync")
       /\ \/ dirty' = [dirty EXCEPT !.config = @ \cup {u}] /\ left' = [left EXCEPT ![u] = 1]
          \/ UNCHANGED <<dirty, left>>
       /\ UNCHANGED changes
    \/ left[u] = 0 /\ Do(u, "sync", "enter", SCL_ALL, "W", "freed") /\ Same
    \/ left[u] = 0 /\ Do(u, "sync", "none", {}, "W", "start") /\ Same
    \/ Do(u, "freed", "exit", SCL_ALL, "W", "start") /\ Same

spa_vdev_state_enter(u) ==
    /\ changes < MaxChanges
    /\ Do(u, "start", "enter", SCL_STATE_ALL, "W", "change")
    /\ changes' = changes + 1 /\ UNCHANGED <<dirty, left>>

\* Mutant: the wait is for the next group that finishes.
WaitFor_next == {1}
\* How many groups txg_wait_synced(dp, 0) waits for: those up to the open one,
\* of which at most TXG_CONCURRENT_STATES are there, and TXG_DEFER_SIZE more.
WaitFor == {ahead + TXG_DEFER_SIZE : ahead \in 1 .. TXG_CONCURRENT_STATES}

\* spa_vdev_state_exit(): a change waits until it has synced.
spa_vdev_state_exit(u) ==
    \/ /\ Do(u, "change", "exit", SCL_STATE_ALL, "W", "sync")
       /\ \/ /\ dirty' = [dirty EXCEPT !.state = @ \cup {u}]
             /\ \E n \in WaitFor : left' = [left EXCEPT ![u] = n]
          \/ UNCHANGED <<dirty, left>>
       /\ UNCHANGED changes
    \/ left[u] = 0 /\ Do(u, "sync", "none", {}, "W", "start") /\ Same

\* A step of u inside a call, and between calls once it has started.
InCall(u) == EnterReader(u) \/ EnterWriter(u) \/ TryEnter(u) \/ Exit(u)
Continue(u) ==
    \/ InCall(u)
    \/ u \in Ios \cup {Child} /\ zio(u)
    \/ u \in Getattrs /\ zfs_vfs_getattr(u)
    \/ u \in Reads /\ arc_read(u)
    \/ u \in Admins /\ spa_vdev_exit(u)
    \/ u \in Offlines /\ spa_vdev_state_exit(u)
    \/ u = Sync /\ spa_sync

Present(u) == u \in cast.users \cup {Sync, Child}

Next ==
    /\ \/ \E u \in Users : Present(u) /\ Continue(u)
       \/ \E u \in Admins : Present(u) /\ spa_vdev_enter(u)
       \/ \E u \in Offlines : Present(u) /\ spa_vdev_state_enter(u)
    /\ UNCHANGED cast

Spec == Init /\ [][Next]_vars

\* Every user goes on, and the readers come back for ever; administrators need
\* not act.
FairSpec == Spec /\ \A u \in Users : WF_vars(Present(u) /\ Continue(u) /\ UNCHANGED cast)

-----------------------------------------------------------------------------
Holders(l) == {u \in Users : l \in DOMAIN held[u]}

TypeOK ==
    /\ \A l \in SCL_ALL : scl[l].count \in Nat /\ scl[l].wanted \in Nat
                          /\ scl[l].writer \in Users \cup {NoUser}
    /\ \A u \in Users : call[u].at \in {"run", "wait", "woken"} /\ call[u].todo \subseteq SCL_ALL
    /\ changes \in 0 .. MaxChanges

\* The state of a lock is what its users have: as many readers as scl_count
\* says, or the one writer scl_writer names (spa_misc.c:350), also after
\* spa_config_tryenter() has failed.
LocksAreWhatIsHeld ==
    TypeOK /\ \A l \in SCL_ALL :
        /\ scl[l].count = Cardinality(Holders(l))
        /\ scl[l].writer # NoUser =>
             Holders(l) = {scl[l].writer} /\ held[scl[l].writer][l] = "W"
        /\ \A u \in Holders(l) : held[u][l] = "W" => scl[l].writer = u

\* spa_misc.c:148-151: while the configuration changes nobody reads it, and
\* while the state of a device changes there is no I/O.
ChangesAreAlone ==
    /\ \A a \in Admins : pc[a] = "change" /\ call[a].todo = {} =>
         \A u \in Users \ {a} : DOMAIN held[u] = {}
    /\ \A a \in Offlines : pc[a] = "change" /\ call[a].todo = {} =>
         \A u \in Users \ {a} : DOMAIN held[u] \cap SCL_STATE_ALL = {}

\* spa_misc.c:1020-1025 and 929-933: when zpool(1M) returns, the change of the
\* configuration or of a device's state has been written with a group, also if
\* it came while a group was syncing that had converted its changes already.
ChangesAreSynced ==
    \A u \in Admins \cup Offlines : pc[u] = "start" => u \notin dirty.state \cup dirty.config

\* spa_misc.c:161-162: a writer is not starved by readers, however often these
\* come back.
WriterGetsIn ==
    \A u \in Admins \cup Offlines \cup {Sync} :
        call[u].at = "wait" /\ call[u].rw = "W" ~> call[u].todo = {}

\* spa_misc.c:153-156 and 187-190: spa_sync() does not block on locks it holds
\* itself, nor on those of an I/O it waits for or of administrators.
SyncsFinish == pc[Sync] = "state" ~> pc[Sync] = "start"

\* Nobody is starved: neither writers by readers nor spa_sync() by anybody.
NobodyStarves == WriterGetsIn /\ SyncsFinish

-----------------------------------------------------------------------------
(* The inductive invariant: which locks a user holds at each point of its  *)
(* code, and how the counters of a lock follow from that.                  *)

\* What zio(u) and SyncIo hold at p.
OfIo(p) ==
    (IF p \in {"allocatable", "allocated", "activate", "wait"} THEN {SCL_ALLOC} ELSE {})
    \cup (IF p \in {"allocated", "issued"} THEN {SCL_ZIO} ELSE {})
    \cup (IF p = "freed" THEN {SCL_FREE} ELSE {})

\* What spa_sync() holds at p.
OfSync(p) ==
    IF p \in {"start", "upgrade", "again"} THEN {}
    ELSE {SCL_CONFIG} \cup (IF p \in {"check", "convert", "write"} THEN {SCL_STATE} ELSE OfIo(p))

\* What u holds at p when its call has returned.
At(u, p) ==
    CASE u \in Admins -> IF p \in {"change", "freed"} THEN SCL_ALL ELSE {}
      [] u \in Offlines -> IF p = "change" THEN SCL_STATE_ALL ELSE {}
      [] u \in Getattrs -> IF p = "name" THEN SCL_ALL ELSE {}
      [] u \in Reads -> IF p = "read" THEN {SCL_L2ARC} ELSE {}
      [] u = Sync -> OfSync(p)
      [] OTHER -> OfIo(p)
Mode(u, p) == IF u \in Admins \cup Offlines \/ p = "convert" THEN "W" ELSE "R"

\* What u holds in the middle of a call.
Has(u) == IF call[u].op = "exit" THEN At(u, pc[u]) \cup call[u].todo
                                 ELSE At(u, pc[u]) \ call[u].todo

Types ==
    /\ cast \in Casts /\ changes \in 0 .. MaxChanges
    /\ scl \in [SCL_ALL -> [count : Nat, writer : Users \cup {NoUser}, wanted : Nat]]
    /\ call \in [Users -> [op : {"none", "enter", "try", "exit"}, rw : {"R", "W"},
                           locks : SUBSET SCL_ALL, todo : SUBSET SCL_ALL,
                           at : {"run", "wait", "woken"}]]
    /\ DOMAIN held = Users
    /\ DOMAIN pc = Users
    /\ dirty \in [state : SUBSET Users, config : SUBSET Users]
    /\ left \in [Users -> Nat]

UserInv(u) ==
    /\ DOMAIN held[u] = Has(u)
    /\ \A l \in Has(u) : held[u][l] = call[u].rw
    /\ IF call[u].op = "exit" THEN call[u].todo \cap At(u, pc[u]) = {}
                              ELSE call[u].todo \subseteq At(u, pc[u])
    /\ At(u, pc[u]) # {} => call[u].rw = Mode(u, pc[u])
    /\ call[u].at # "run" => call[u].op = "enter" /\ call[u].todo # {}
    /\ call[u].op = "try" => u \in Reads /\ call[u].locks = {SCL_L2ARC}

\* The writers that scl_write_wanted counts.
Waiting(l) == {u \in Users : /\ call[u].rw = "W" /\ call[u].at # "run"
                             /\ NextLock(u) = l}

LockInv(l) ==
    /\ scl[l].count = Cardinality(Holders(l))
    /\ scl[l].wanted = Cardinality(Waiting(l))
    /\ \A u \in Holders(l) : IF held[u][l] = "W" THEN Holders(l) = {u} /\ scl[l].writer = u
                                                 ELSE scl[l].writer = NoUser
    /\ Holders(l) = {} => scl[l].writer = NoUser

\* Whose change is not written yet waits for a group that will do it: the one
\* that is syncing, if it has not converted the state changes, or the next.
BeforeConvert == {"start", "state", "check", "upgrade", "convert", "again"}
DirtyInv ==
    /\ \A u \in dirty.state :
         pc[u] = "sync" /\ left[u] > 0 /\ (pc[Sync] \in BeforeConvert \/ left[u] > 1)
    /\ \A u \in dirty.config : pc[u] = "sync" /\ left[u] > 0
    /\ dirty.state \subseteq Offlines /\ dirty.config \subseteq Offlines \cup Admins

IInv == Types /\ (\A u \in Users : UserInv(u)) /\ (\A l \in SCL_ALL : LockInv(l)) /\ DirtyInv
=============================================================================
