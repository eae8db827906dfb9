------------------------------ MODULE Rrwlock ------------------------------
(***************************************************************************)
(* The re-entrant reader/writer lock of module/zfs/rrwlock.c, which guards *)
(* a file system against being torn down (z_teardown_lock).                *)
(*                                                                         *)
(* Every call runs under rr_lock and can sleep only on rr_cv, so a call is *)
(* one action that either completes or goes to sleep; a broadcast lets the *)
(* sleepers look again.  The fast paths of the kernel build are the slow   *)
(* paths for the states in which they are taken.  In this port the         *)
(* thread-specific data that records which locks a thread reads is         *)
(* compiled out: rrn_find() and rrn_find_and_remove() never find anything. *)
(***************************************************************************)
EXTENDS Integers, FiniteSets

CONSTANTS
    Threads,
    NoThread,       \* rr_writer is NULL
    MaxReads,       \* bound on the read holds of one thread
    MaxLinked       \* bound on rr_linked_rcount, which nothing ever lowers

VARIABLES
    rr_writer, rr_anon_rcount, rr_linked_rcount, rr_writer_wanted,
    pc,             \* "idle", or asleep on rr_cv / woken in one of the loops
    reads           \* the read holds: <<t, i>> is one that thread t has

vars == <<rr_writer, rr_anon_rcount, rr_linked_rcount, rr_writer_wanted, pc, reads>>

rrw_init ==
    /\ rr_writer = NoThread
    /\ rr_anon_rcount = 0 /\ rr_linked_rcount = 0
    /\ rr_writer_wanted = FALSE
    /\ pc = [t \in Threads |-> "idle"]
    /\ reads = {}

\* cv_broadcast(&rrl->rr_cv)
Woken(pcs) ==
    [t \in Threads |-> CASE pcs[t] = "read_sleep" -> "read_woken"
                         [] pcs[t] = "write_sleep" -> "write_woken"
                         [] OTHER -> pcs[t]]

Holds(t) == {h \in reads : h[1] = t}
Free(t) == {<<t, i>> : i \in 1 .. MaxReads} \ reads

\* The look at the thread-specific list is commented out.
rrn_find(t) == FALSE

-----------------------------------------------------------------------------
ReadBlocked(t) ==
    \/ rr_writer # NoThread
    \/ rr_writer_wanted /\ rr_anon_rcount = 0 /\ ~rrn_find(t)

CountReader(t) ==
    IF rr_writer_wanted
    THEN /\ rr_linked_rcount < MaxLinked
         /\ rr_linked_rcount' = rr_linked_rcount + 1
         /\ UNCHANGED rr_anon_rcount
    ELSE /\ rr_anon_rcount' = rr_anon_rcount + 1
         /\ UNCHANGED rr_linked_rcount

rrw_enter_read(t) ==
    /\ \/ pc[t] = "idle" /\ rr_writer # t /\ Free(t) # {}
       \/ pc[t] = "read_woken"
    /\ \/ /\ ReadBlocked(t)
          /\ pc' = [pc EXCEPT ![t] = "read_sleep"]
          /\ UNCHANGED <<rr_anon_rcount, rr_linked_rcount, reads>>
       \/ /\ ~ReadBlocked(t)
          /\ CountReader(t)
          /\ \E h \in Free(t) : reads' = reads \cup {h}
          /\ pc' = [pc EXCEPT ![t] = "idle"]
    /\ UNCHANGED <<rr_writer, rr_writer_wanted>>

WriteBlocked ==
    rr_anon_rcount > 0 \/ rr_linked_rcount > 0 \/ rr_writer # NoThread

rrw_enter_write(t) ==
    /\ \/ pc[t] = "idle" /\ rr_writer # t /\ Holds(t) = {}
       \/ pc[t] = "write_woken"
    /\ \/ /\ WriteBlocked
          /\ rr_writer_wanted' = TRUE
          /\ pc' = [pc EXCEPT ![t] = "write_sleep"]
          /\ UNCHANGED rr_writer
       \/ /\ ~WriteBlocked
          /\ rr_writer_wanted' = FALSE
          /\ rr_writer' = t
          /\ pc' = [pc EXCEPT ![t] = "idle"]
    /\ UNCHANGED <<rr_anon_rcount, rr_linked_rcount, reads>>

\* The two ways of rrw_exit() that return a read hold.  Both lower the
\* anonymous count, whichever count the hold was entered under: that is what
\* rrn_find_and_remove() not finding the hold comes to.
ExitRead(t) ==
    /\ pc[t] = "idle"
    /\ rr_writer = NoThread
    /\ \E h \in Holds(t) : reads' = reads \ {h}
    /\ rr_anon_rcount' = rr_anon_rcount - 1
    /\ pc' = IF rr_anon_rcount' = 0 THEN Woken(pc) ELSE pc
    /\ UNCHANGED <<rr_writer, rr_writer_wanted, rr_linked_rcount>>

ExitWrite(t) ==
    /\ rr_writer = t
    /\ rr_writer' = NoThread
    /\ pc' = Woken(pc)
    /\ UNCHANGED <<rr_anon_rcount, rr_linked_rcount, rr_writer_wanted, reads>>

rrw_exit(t) == ExitRead(t) \/ ExitWrite(t)

-----------------------------------------------------------------------------
Next ==
    \E t \in Threads : rrw_enter_read(t) \/ rrw_enter_write(t) \/ rrw_exit(t)

Spec == rrw_init /\ [][Next]_vars

-----------------------------------------------------------------------------
\* As long as no reader has come while a writer waited, rr_anon_rcount is the
\* number of read holds.  Nothing ever lowers rr_linked_rcount, so a writer
\* that finds it zero can trust the other count.
AnonymousReadersAreCounted ==
    rr_linked_rcount = 0 => rr_anon_rcount = Cardinality(reads)

\* The inductive invariant.
IInv ==
    /\ rr_linked_rcount \in Nat
    /\ IsFiniteSet(reads)
    /\ AnonymousReadersAreCounted
    /\ rr_writer # NoThread => reads = {}

\* While the writer has the file system to itself nobody reads it, though the
\* counters that decide about it go wrong under contention.
WriterExcludesReaders == rr_writer # NoThread => reads = {}
=============================================================================
