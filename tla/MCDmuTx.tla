------------------------------ MODULE MCDmuTx ------------------------------
(* Casts for module DmuTx: who competes for dnodes, for space, for a       *)
(* snapshot.                                                               *)
EXTENDS DmuTx, TLC

CONSTANTS a, b, c, x, y, fs, gs, j, k

MCQuota == fs :> 3 @@ gs :> 0
MCUsed(f, g) == fs :> f @@ gs :> g

Op(dir, asize, how, on) ==
    [dir |-> dir, asize |-> asize, frees |-> 0, how |-> how, holds |-> on]
Overwrite(dir, asize, how, on) ==
    [dir |-> dir, asize |-> asize, frees |-> asize, how |-> how, holds |-> on]
Snap(name, on) == [name |-> name, on |-> on]
None == [t \in {} |-> 0]
Cast(tx, task, used, timer, throttle, suspend) ==
    [tx |-> tx, task |-> task, used |-> used, MaxTimer |-> timer,
     MaxThrottle |-> throttle, MaxSuspend |-> suspend]

MCCasts ==
  { \* dnodes held in opposite orders, one of them twice
    Cast(a :> Op(fs, 1, "TXG_WAIT", <<x, y>>)
           @@ b :> Op(gs, 1, "TXG_NOWAIT", <<y, x, y>>),
         None, MCUsed(0, 0), 1, 0, 0),
    \* a chain of dnodes
    Cast(a :> Op(gs, 1, "TXG_WAIT", <<x>>) @@ b :> Op(gs, 1, "TXG_WAIT", <<y>>)
           @@ c :> Op(gs, 1, "TXG_NOWAIT", <<x, y>>),
         None, MCUsed(0, 0), 0, 0, 0),
    \* the last free space of a file system
    Cast(a :> Op(fs, 2, "TXG_WAIT", <<x>>)
           @@ b :> Op(fs, 2, "TXG_WAIT", <<y>>),
         None, MCUsed(2, 0), 1, 0, 0),
    \* a full pool and a remove
    Cast(a :> Op(gs, 1, "TXG_WAIT", <<x>>)
           @@ b :> Overwrite(fs, 1, "TXG_NOWAIT", <<y>>),
         None, MCUsed(4, 4), 1, 0, 0),
    \* a suspended pool and short memory
    Cast(a :> Op(gs, 1, "TXG_WAIT", <<x>>)
           @@ b :> Op(gs, 1, "TXG_NOWAIT", <<x>>),
         None, MCUsed(0, 0), 0, 1, 1),
    \* a recursive snapshot and another one of the same dataset
    Cast(a :> Op(fs, 1, "TXG_WAIT", <<x>>),
         j :> Snap("s", <<fs, gs>>) @@ k :> Snap("t", <<fs>>),
         MCUsed(0, 0), 0, 0, 0),
    \* two snapshots of one name, in a pool that may be full
    Cast(a :> Op(gs, 1, "TXG_WAIT", <<x>>),
         j :> Snap("s", <<fs, gs>>) @@ k :> Snap("s", <<gs>>),
         MCUsed(3, 4), 0, 0, 0),
    \* an overwrite in a file system that is nearly full, and a snapshot
    Cast(a :> Overwrite(fs, 2, "TXG_NOWAIT", <<x>>)
           @@ b :> Op(fs, 2, "TXG_WAIT", <<y>>),
         j :> Snap("s", <<fs>>), MCUsed(2, 0), 0, 0, 0) }
=============================================================================
