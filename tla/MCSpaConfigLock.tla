-------------------------- MODULE MCSpaConfigLock --------------------------
(* Who takes part, for TLC. *)
EXTENDS SpaConfigLock

CONSTANTS io, getattr, read, admin, offline

FourCasts ==
    {[users |-> {io, admin, offline}, changes |-> 1],
     [users |-> {getattr, offline}, changes |-> 1],
     [users |-> {read, admin}, changes |-> 2],
     [users |-> {admin, offline}, changes |-> 2]}
=============================================================================
