------------------------------ MODULE TxgOrder ------------------------------
(***************************************************************************)
(* What transaction groups promise to the rest of the program, without     *)
(* threads, locks, counters or condition variables.  A transaction joins   *)
(* the open group and finishes later.  Groups are committed one by one in  *)
(* order; one is committed only when no transaction can join it any more   *)
(* and all that joined have finished; at most Depth groups are not         *)
(* committed.  A transaction is notified once, after its group.            *)
(***************************************************************************)
EXTENDS Integers

CONSTANTS Txs, FirstTxg

Depth == 3

VARIABLES open, committed, group, finished, notified

ovars == <<open, committed, group, finished, notified>>

Init ==
    /\ open = FirstTxg
    /\ committed = FirstTxg - 1
    /\ group = [t \in Txs |-> 0]
    /\ finished = {}
    /\ notified = {}

Join(t) ==
    /\ group[t] = 0
    /\ group' = [group EXCEPT ![t] = open]
    /\ UNCHANGED <<open, committed, finished, notified>>

Finish(t) ==
    /\ group[t] > committed /\ t \notin finished
    /\ finished' = finished \cup {t}
    /\ UNCHANGED <<open, committed, group, notified>>

Advance ==
    /\ open < committed + Depth
    /\ open' = open + 1
    /\ UNCHANGED <<committed, group, finished, notified>>

Commit ==
    /\ committed + 1 < open
    /\ \A t \in Txs : group[t] = committed + 1 => t \in finished
    /\ committed' = committed + 1
    /\ UNCHANGED <<open, group, finished, notified>>

Notify(t) ==
    /\ t \in finished \ notified
    /\ group[t] <= committed
    /\ notified' = notified \cup {t}
    /\ UNCHANGED <<open, committed, group, finished>>

Next ==
    \/ Advance
    \/ Commit
    \/ \E t \in Txs : Join(t) \/ Finish(t) \/ Notify(t)

Spec == Init /\ [][Next]_ovars
=============================================================================
