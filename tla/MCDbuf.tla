------------------------------- MODULE MCDbuf -------------------------------
(* Casts for module Dbuf: who meets whom in the block.                     *)
EXTENDS Dbuf, TLC

MCCasts ==
  { \* versions in three groups, and a reader of two
    1 :> "lo" @@ 2 :> "hi" @@ 3 :> "lo",
    1 :> "lo" @@ 2 :> "hi" @@ 4 :> "read",
    \* a free among writes and reads
    1 :> "lo" @@ 2 :> "free" @@ 3 :> "hi",
    1 :> "full" @@ 2 :> "free" @@ 4 :> "read",
    1 :> "full" @@ 2 :> "lo" @@ 3 :> "free",
    \* loaned buffers
    1 :> "loan" @@ 2 :> "lo" @@ 4 :> "read",
    1 :> "loan" @@ 2 :> "free" @@ 3 :> "loan",
    \* the intent log, without readers: dmu_sync() leaves a buffer that is
    \* not copied for them when it is synced
    1 :> "lo" @@ 2 :> "loan" @@ 5 :> "log",
    1 :> "full" @@ 2 :> "free" @@ 5 :> "log",
    1 :> "lo" @@ 5 :> "log" @@ 6 :> "log" }
=============================================================================
