---------------------------- MODULE MCConfigSync ----------------------------
(* Layouts of the pool for TLC. *)
EXTENDS ConfigSync, TLC

CONSTANTS a, b, top, top2

Striped ==
    [top |-> [leaf \in {a, b} |-> IF leaf = a THEN top ELSE top2], idle |-> TRUE, opens |-> 1, errors |-> 1]
Mirrored == [top |-> [leaf \in {a, b} |-> top], idle |-> FALSE, opens |-> 2, errors |-> 0]
Both == {Striped, Mirrored}
=============================================================================
