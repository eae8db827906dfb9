------------------------------- MODULE Zrlock -------------------------------
(***************************************************************************)
(* The zero-reference lock of module/zfs/zrlock.c: a reference count that  *)
(* can be locked only while it is zero.  dnode.c keeps one in every dnode  *)
(* handle, so that dnode_move() can move a dnode nobody looks at.          *)
(*                                                                         *)
(* zr_refcount is read and written with and without zr_mtx, so every       *)
(* access to it is a step of its own: the compare-and-swaps are atomic,    *)
(* the plain "zr_refcount++" of the slow path of zrl_add() is a load and a *)
(* store.  Only the compilation without ZFS_DEBUG is modelled: zr_owner    *)
(* and zr_caller are debugging aids.                                       *)
(***************************************************************************)
EXTENDS Integers

CONSTANTS
    Threads,    \* kernel threads that use the lock
    NoThread,   \* the owner of a free mutex
    MaxHeld     \* bound on the references one thread holds at a time

ZRL_LOCKED == -1

VARIABLES
    zr_refcount,    \* the counter
    zr_mtx,         \* the thread that owns zr_mtx, or NoThread
    zr_cv,          \* threads asleep on zr_cv
    pc,             \* pc[t]: where thread t is
    n,              \* n[t]: t's local copy of the counter
    held            \* held[t]: references t has been granted and not returned

vars == <<zr_refcount, zr_mtx, zr_cv, pc, n, held>>

zrl_init ==
    /\ zr_refcount = 0
    /\ zr_mtx = NoThread
    /\ zr_cv = {}
    /\ pc = [t \in Threads |-> "idle"]
    /\ n = [t \in Threads |-> 0]
    /\ held = [t \in Threads |-> 0]

Goto(t, l) == pc' = [pc EXCEPT ![t] = l]

\* A thread that owns the lock does not take references (dnode_move() does
\* not look up the dnode it is moving).
Idle(t) == pc[t] = "idle"

Grant(t) == held' = [held EXCEPT ![t] = @ + 1]

-----------------------------------------------------------------------------
(* zrl_add()                                                               *)

\* The first read of the counter, and the read a failed compare-and-swap
\* returns: retry the swap, or take the slow path if the lock is held.
LookAgain(t) ==
    /\ n' = [n EXCEPT ![t] = zr_refcount]
    /\ Goto(t, IF zr_refcount = ZRL_LOCKED THEN "add_mutex" ELSE "add_cas")
    /\ UNCHANGED <<zr_refcount, zr_mtx, zr_cv, held>>

AddLoad(t) ==
    /\ Idle(t)
    /\ held[t] < MaxHeld
    /\ LookAgain(t)

AddCas(t) ==
    /\ pc[t] = "add_cas"
    /\ \/ /\ zr_refcount = n[t]
          /\ zr_refcount' = n[t] + 1
          /\ Grant(t)
          /\ Goto(t, "idle")
          /\ UNCHANGED <<zr_mtx, zr_cv, n>>
       \/ /\ zr_refcount # n[t]
          /\ LookAgain(t)

\* mutex_enter(), or the return of cv_wait() after a wakeup.
AddMutex(t) ==
    /\ pc[t] = "add_mutex"
    /\ t \notin zr_cv
    /\ zr_mtx = NoThread
    /\ zr_mtx' = t
    /\ Goto(t, "add_test")
    /\ UNCHANGED <<zr_refcount, zr_cv, n, held>>

AddTest(t) ==
    /\ pc[t] = "add_test"
    /\ \/ /\ zr_refcount = ZRL_LOCKED
          /\ zr_cv' = zr_cv \cup {t}
          /\ zr_mtx' = NoThread
          /\ Goto(t, "add_mutex")
       \/ /\ zr_refcount # ZRL_LOCKED
          /\ Goto(t, "add_inc_load")
          /\ UNCHANGED <<zr_cv, zr_mtx>>
    /\ UNCHANGED <<zr_refcount, n, held>>

AddIncLoad(t) ==
    /\ pc[t] = "add_inc_load"
    /\ n' = [n EXCEPT ![t] = zr_refcount]
    /\ Goto(t, "add_inc_store")
    /\ UNCHANGED <<zr_refcount, zr_mtx, zr_cv, held>>

AddIncStore(t) ==
    /\ pc[t] = "add_inc_store"
    /\ zr_refcount' = n[t] + 1
    /\ zr_mtx' = NoThread
    /\ Grant(t)
    /\ Goto(t, "idle")
    /\ UNCHANGED <<zr_cv, n>>

-----------------------------------------------------------------------------
(* zrl_remove(): an atomic decrement, then a second, separate read of the  *)
(* counter that decides about the panic.                                   *)

zrl_remove(t) ==
    /\ Idle(t)
    /\ held[t] > 0
    /\ zr_refcount' = zr_refcount - 1
    /\ held' = [held EXCEPT ![t] = @ - 1]
    /\ Goto(t, "remove_check")
    /\ UNCHANGED <<zr_mtx, zr_cv, n>>

RemoveCheck(t) ==
    /\ pc[t] = "remove_check"
    /\ Goto(t, IF zr_refcount < 0 THEN "panic" ELSE "idle")
    /\ UNCHANGED <<zr_refcount, zr_mtx, zr_cv, n, held>>

-----------------------------------------------------------------------------
(* zrl_tryenter() and zrl_exit()                                           *)

TryLoad(t) ==
    /\ Idle(t)
    /\ held[t] = 0
    /\ n' = [n EXCEPT ![t] = zr_refcount]
    /\ Goto(t, IF zr_refcount = 0 THEN "try_cas" ELSE "idle")
    /\ UNCHANGED <<zr_refcount, zr_mtx, zr_cv, held>>

TryCas(t) ==
    /\ pc[t] = "try_cas"
    /\ \/ /\ zr_refcount = 0
          /\ zr_refcount' = ZRL_LOCKED
          /\ Goto(t, "owner")
       \/ /\ zr_refcount # 0
          /\ Goto(t, "idle")
          /\ UNCHANGED zr_refcount
    /\ UNCHANGED <<zr_mtx, zr_cv, n, held>>

zrl_exit(t) ==
    /\ pc[t] = "owner"
    /\ zr_mtx = NoThread
    /\ zr_refcount' = 0
    /\ zr_cv' = {}
    /\ Goto(t, "idle")
    /\ UNCHANGED <<zr_mtx, n, held>>

-----------------------------------------------------------------------------
(* The specification                                                       *)

Panicked == \E t \in Threads : pc[t] = "panic"

Next ==
    /\ ~Panicked
    /\ \E t \in Threads :
          \/ AddLoad(t) \/ AddCas(t) \/ AddMutex(t) \/ AddTest(t) \/ AddIncLoad(t)
          \/ AddIncStore(t) \/ zrl_remove(t) \/ RemoveCheck(t) \/ TryLoad(t) \/ TryCas(t)
          \/ zrl_exit(t)

Spec == zrl_init /\ [][Next]_vars

-----------------------------------------------------------------------------
Owner(t) == pc[t] = "owner"

\* zrlock.c:42, "A ZRL can be locked only while there are zero references":
\* no thread owns the lock while another one has been granted a reference.
LockedOnlyAtZero ==
    \A t, u \in Threads : Owner(t) => held[u] = 0
=============================================================================
