------------------------------ MODULE SpaceMap ------------------------------
(***************************************************************************)
(* Space maps and reference trees, module/zfs/space_map.c: a set of        *)
(* integers kept as a tree of segments, and the computation of unions,     *)
(* intersections and the like by reference counts, as vdev_dtl_reassess()  *)
(* of module/zfs/vdev.c uses it for the dirty time logs of a device.       *)
(*                                                                         *)
(* A tree of segments is the set of its segments.  The nodes of a          *)
(* reference tree with equal offsets are ordered by their addresses, so a  *)
(* walk may meet them in any order.                                        *)
(***************************************************************************)
EXTENDS Integers, FiniteSets, FiniteSetsExt

CONSTANTS
    Size,       \* sm_size of the maps, which start at 0
    MaxOps      \* how many operations there are between two walks

ASSUME SpaceMapAssumption == Size \in Nat \ {0} /\ MaxOps \in Nat

\* The maps that are computed from, and the one that is computed.
Inputs == {"one", "two"}
Maps == Inputs \cup {"out"}
Nothing == -1

VARIABLES
    root, space,    \* sm_root and sm_space of the maps
    set,            \* what the maps should be
    tree,           \* the nodes of the reference tree that the walk has not met
    walk,           \* space_map_ref_generate_map()
    ops,
    panic           \* a VERIFY() or zfs_panic_recover() was met

vars == <<root, space, set, tree, walk, ops, panic>>

Idle == [on |-> FALSE, into |-> "out", start |-> Nothing, refcnt |-> 0, minref |-> 0]

Init ==
    /\ root = [m \in Maps |-> {}] /\ space = [m \in Maps |-> 0] /\ set = [m \in Maps |-> {}]
    /\ tree = {} /\ walk = Idle /\ ops = 0 /\ panic = FALSE

-----------------------------------------------------------------------------
(* Segments.                                                               *)

\* The segments avl_find() may find for a range.
Overlapping(segs, start, end) == {ss \in segs : ss.start < end /\ ss.end > start}

\* The segments after space_map_add() of a range that overlaps none.
Added(segs, start, end) ==
    LET before == {ss \in segs : ss.end = start}
        after == {ss \in segs : ss.start = end}
    IN  (segs \ (before \cup after)) \cup
          {[start |-> Min({start} \cup {ss.start : ss \in before}),
            end |-> Max({end} \cup {ss.end : ss \in after})]}

AddPanics(m, start, end) ==
    start = end \/ Overlapping(root[m], start, end) # {} \/ space[m] + (end - start) > Size

\* The segments after space_map_remove() of a range that lies in segment ss.
Removed(segs, ss, start, end) ==
    (segs \ {ss}) \cup {r \in {[start |-> ss.start, end |-> start], [start |-> end, end |-> ss.end]} :
                          r.start # r.end}

\* What space_map_contains() may answer: avl_find() returns one of the segments
\* that overlap the range.
Contains(segs, start, end) ==
    IF Overlapping(segs, start, end) = {} THEN {FALSE}
    ELSE {ss.start <= start /\ ss.end >= end : ss \in Overlapping(segs, start, end)}

AddTo(m, start, end) ==
    /\ panic' = (panic \/ AddPanics(m, start, end))
    /\ root' = [root EXCEPT ![m] = Added(@, start, end)]
    /\ space' = [space EXCEPT ![m] = @ + (end - start)]

\* space_map_add() of a range that is not in the map.
space_map_add(m, start, end) ==
    /\ ~walk.on /\ ops < MaxOps /\ ops' = ops + 1
    /\ set[m] \cap start .. end - 1 = {}
    /\ AddTo(m, start, end)
    /\ set' = [set EXCEPT ![m] = @ \cup start .. end - 1]
    /\ UNCHANGED <<tree, walk>>

\* vdev_dtl_dirty() of one transaction group, which may be in the map already.
vdev_dtl_dirty(m, txg) ==
    /\ ~walk.on /\ ops < MaxOps /\ ops' = ops + 1
    /\ \/ TRUE \in Contains(root[m], txg, txg + 1) /\ UNCHANGED <<root, space, panic>>
       \/ FALSE \in Contains(root[m], txg, txg + 1) /\ AddTo(m, txg, txg + 1)
    /\ set' = [set EXCEPT ![m] = @ \cup {txg}]
    /\ UNCHANGED <<tree, walk>>

\* space_map_remove() of a range that is in the map.
space_map_remove(m, start, end) ==
    /\ ~walk.on /\ ops < MaxOps /\ ops' = ops + 1
    /\ start .. end - 1 \subseteq set[m]
    /\ \E ss \in Overlapping(root[m], start, end) :
         /\ panic' = (panic \/ ss.start > start \/ ss.end < end \/ space[m] < end - start)
         /\ root' = [root EXCEPT ![m] = Removed(@, ss, start, end)]
    /\ space' = [space EXCEPT ![m] = @ - (end - start)]
    /\ set' = [set EXCEPT ![m] = @ \ (start .. end - 1)]
    /\ UNCHANGED <<tree, walk>>

-----------------------------------------------------------------------------
(* Reference trees.                                                        *)

\* space_map_ref_add_seg(): why tells apart nodes that are otherwise equal.
RefSeg(start, end, refcnt, why) ==
    {[offset |-> start, refcnt |-> refcnt, why |-> <<why, "start">>],
     [offset |-> end, refcnt |-> -refcnt, why |-> <<why, "end">>]}

\* space_map_ref_add_map().
RefMap(m, refcnt) == UNION {RefSeg(ss.start, ss.end, refcnt, m) : ss \in root[m]}

\* space_map_ref_generate_map() empties map m and starts a walk: m is to have
\* those integers whose count is minref or more, which should be those of result.
Generate(m, nodes, minref, result) ==
    /\ ~walk.on /\ ops' = 0
    /\ tree' = nodes /\ walk' = [Idle EXCEPT !.on = TRUE, !.into = m, !.minref = minref]
    /\ root' = [root EXCEPT ![m] = {}] /\ space' = [space EXCEPT ![m] = 0]
    /\ set' = [set EXCEPT ![m] = result]
    /\ UNCHANGED panic

\* Mutant: the scrubbed part is taken away from both maps.
ScrubCount_one == 1
\* The count of DTL_SCRUB, which is added to 1 for DTL_MISSING and -1 for the
\* scrubbed part.
ScrubCount == 2

\* How vdev_dtl_reassess() computes the DTL_MISSING of a leaf, "one", after a
\* scrub up to txg: its DTL_SCRUB, "two", replaces what was scrubbed.
Excise(txg) ==
    Generate("one", RefMap("one", 1) \cup RefSeg(0, txg, -1, "scrubbed") \cup RefMap("two", ScrubCount), 1,
             (set["one"] \ (0 .. txg - 1)) \cup set["two"])

\* How vdev_dtl_reassess() computes a map of an interior device from those of
\* its two children: their union or intersection.
Combine(minref) ==
    Generate("out", RefMap("one", 1) \cup RefMap("two", 1), minref,
             IF minref = 1 THEN set["one"] \cup set["two"] ELSE set["one"] \cap set["two"])

\* Mutant: segments without integers are added too.
IsSegment_empty(start, end) == TRUE
\* Whether the walk adds a segment.
IsSegment(start, end) == end > start

\* The walk meets a node.
Meet(sr) ==
    LET refcnt == walk.refcnt + sr.refcnt
        adds == refcnt < walk.minref /\ walk.start # Nothing /\ IsSegment(walk.start, sr.offset)
    IN  /\ walk.on /\ sr \in tree /\ \A other \in tree : sr.offset <= other.offset
        /\ tree' = tree \ {sr}
        /\ walk' = [walk EXCEPT !.refcnt = refcnt,
                                !.start = IF refcnt < walk.minref THEN Nothing
                                          ELSE IF @ = Nothing THEN sr.offset ELSE @]
        /\ \/ adds /\ AddTo(walk.into, walk.start, sr.offset)
           \/ ~adds /\ UNCHANGED <<root, space, panic>>
        /\ UNCHANGED <<set, ops>>

\* The end of the walk, with its assertions.
Finish ==
    /\ walk.on /\ tree = {} /\ walk' = Idle
    /\ panic' = (panic \/ walk.refcnt # 0 \/ walk.start # Nothing)
    /\ UNCHANGED <<root, space, set, tree, ops>>

Next ==
    \/ \E m \in Inputs, start \in 0 .. Size - 1, end \in 1 .. Size :
         start < end /\ (space_map_add(m, start, end) \/ space_map_remove(m, start, end))
    \/ \E m \in Inputs, txg \in 0 .. Size - 1 : vdev_dtl_dirty(m, txg)
    \/ \E txg \in 1 .. Size : Excise(txg)
    \/ \E minref \in {1, 2} : Combine(minref)
    \/ \E sr \in tree : Meet(sr)
    \/ Finish

Spec == Init /\ [][Next]_vars

-----------------------------------------------------------------------------
TypeOK ==
    /\ \A m \in Maps : root[m] \subseteq [start : 0 .. Size, end : 0 .. Size] /\ space[m] \in 0 .. Size
    /\ walk.start \in {Nothing} \cup 0 .. Size /\ ops \in 0 .. MaxOps

\* space_map_contains() looks at one segment only: it answers right for every
\* range because adjacent segments are always merged.
ContainsIsExact ==
    ~walk.on => \A m \in Maps, start \in 0 .. Size - 1, end \in 1 .. Size :
        start < end => Contains(root[m], start, end) = {start .. end - 1 \subseteq set[m]}

\* The segments of a map are its integers, and after a walk in any order these
\* are the ones with enough references: the scrubbed part is replaced
\* (vdev.c:1717-1731), and unions and intersections are right
\* (space_map.c:499-500).
SegmentsAreTheSet ==
    TypeOK /\ ContainsIsExact /\ \A m \in Maps : ~walk.on =>
        /\ UNION {ss.start .. ss.end - 1 : ss \in root[m]} = set[m]
        /\ space[m] = Cardinality(set[m])

\* Neither the checks of space_map_add() and space_map_remove() nor the
\* assertions of space_map_ref_generate_map() fail (space_map.c:90-109, 166-175
\* and 614-615).
NoPanic == ~panic
=============================================================================
