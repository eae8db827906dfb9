-------------------------- MODULE ZilCommitRecords --------------------------
(***************************************************************************)
(* Proofs about the records of zil_commit(), for any number of threads,    *)
(* objects, groups and records: no record is logged twice, what was        *)
(* committed is stable, and the log can be replayed.  A record is always   *)
(* in one place, and NextMem shows that no step loses or repeats one.      *)
(***************************************************************************)
EXTENDS ZilCommitProofs

-----------------------------------------------------------------------------
(* Where records are, and in which order.                                  *)

\* Where a step leaves the records.
LEMMA ProgressPlaces ==
    ASSUME PlaceInv, Progress, UNCHANGED workload,
           \A r \in records' \ records : Stored(r)' \/ (r.kind = "write" /\ InAsync(r)')
    PROVE  PlaceInv'
  BY Zenon DEF PlaceInv, Progress, Ztest

\* A sequence stays ordered when more records are done, or older objects are
\* created.
LEMMA OrderedWeaker ==
    ASSUME NEW q, NEW c1, NEW c2, NEW d1, NEW d2, Ordered(q, c1, d1), d1 \subseteq d2,
           \A c \in c2 : c \in c1 \/ \A i \in DOMAIN q : ~(c.id < q[i].id)
    PROVE  Ordered(q, c2, d2)
  BY Zenon DEF Ordered

\* An empty sequence is ordered.
LEMMA OrderedEmpty == ASSUME NEW c, NEW d PROVE Ordered(<<>>, c, d)
  BY DEF Ordered

\* A record may be added once the creation of its object is done or before it.
LEMMA OrderedAppend ==
    ASSUME NEW q \in Seq(Rec), NEW e \in Rec, NEW creates, NEW done, Ordered(q, creates, done),
           \A c \in creates : c.obj = e.obj /\ c.id < e.id /\ c.txg = e.txg => c \in done \cup Range(q)
    PROVE  Ordered(Append(q, e), creates, done)
  <1> SUFFICES ASSUME NEW i \in DOMAIN Append(q, e), NEW c \in creates, c.obj = Append(q, e)[i].obj,
                      c.id < Append(q, e)[i].id, c.txg = Append(q, e)[i].txg, c \notin done
               PROVE  \E j \in 1 .. i - 1 : Append(q, e)[j] = c
    BY Zenon DEF Ordered
  <1>1. CASE i \in DOMAIN q
    <2>0. i \in 1 .. Len(q) /\ Len(q) \in Nat /\ \A j \in 1 .. Len(q) : Append(q, e)[j] = q[j]
      BY <1>1
    <2>1. Append(q, e)[i] = q[i] /\ \A j \in 1 .. i - 1 : Append(q, e)[j] = q[j]
      BY <2>0
    <2>2. \E j \in 1 .. i - 1 : q[j] = c
      BY Zenon, <1>1, <2>1 DEF Ordered
    <2> QED BY Zenon, <2>1, <2>2
  <1>2. CASE i \notin DOMAIN q
    <2>1. i = Len(q) + 1 /\ Append(q, e)[i] = e
      BY <1>2
    <2>2. PICK j \in DOMAIN q : q[j] = c
      BY <2>1 DEF Range
    <2>3. j \in 1 .. i - 1 /\ Append(q, e)[j] = c
      BY <2>1, <2>2
    <2> QED BY Zenon, <2>3
  <1> QED BY Zenon, <1>1, <1>2

\* A new record added at the end is there once.
LEMMA AppendOnce ==
    ASSUME NEW S, NEW q \in Seq(S), NEW e \in S, IsInjective(q), e \notin Range(q)
    PROVE  IsInjective(Append(q, e))
  BY DEF IsInjective, Range

\* A record that is assigned is in one list, which stays ordered.
LEMMA AssignedMem ==
    ASSUME MemInv, NEW rec, NEW sync, Assigned(rec, sync)
    PROVE  Progress /\ PlaceInv' /\ SlotInv' /\ OnceInv' /\ OrderInv'
  \* The new record goes where it belongs.
  <1>AssignSlots. SlotInv'
    <2>1. PICK s \in Slots, base \in SlotType : Shape(rec, sync, s, base)
      BY Zenon, AssignShape
    <2>0. /\ s = rec.txg % TXG_SIZE /\ itxg'[s].txg = rec.txg /\ base.txg = rec.txg
          /\ \A x \in Slots : x # s => itxg'[x] = itxg[x]
      BY Zenon, <2>1 DEF Shape
    <2>2. Ranges(rec, sync, s, base)
      BY Zenon, <2>1, AssignRanges
    <2>3. records' = records \cup {rec} /\ (sync \/ rec.kind = "write")
      BY Zenon DEF Assigned
    <2>4. /\ \A x \in Slots : itxg[x].txg # 0 => itxg[x].txg % TXG_SIZE = x
          /\ \A x \in Slots : \A r \in Range(itxg[x].sync) : r \in records /\ r.txg = itxg[x].txg
          /\ \A x \in Slots, o \in Objs : \A r \in Range(itxg[x].async[o]) :
               r \in records /\ r.txg = itxg[x].txg /\ r.obj = o /\ r.kind = "write"
      BY Zenon DEF MemInv, SlotInv
    <2>5. \A x \in Slots : itxg'[x].txg # 0 => itxg'[x].txg % TXG_SIZE = x
      <3> SUFFICES ASSUME NEW x \in Slots, itxg'[x].txg # 0 PROVE itxg'[x].txg % TXG_SIZE = x
        BY Zenon
      <3>1. CASE x = s
        BY Zenon, <2>0, <3>1
      <3>2. CASE x # s
        BY Zenon, <2>0, <2>4, <3>2
      <3> QED BY Zenon, <3>1, <3>2
    <2>6. \A x \in Slots : \A r \in Range(itxg'[x].sync) : r \in records' /\ r.txg = itxg'[x].txg
      <3> SUFFICES ASSUME NEW x \in Slots, NEW r \in Range(itxg'[x].sync) PROVE r \in records' /\ r.txg = itxg'[x].txg
        BY Zenon
      <3>1. CASE x # s
        <4>1. Range(itxg'[x].sync) = Range(itxg[x].sync) /\ itxg'[x].txg = itxg[x].txg
          BY Zenon, <2>0, <3>1
        <4> QED BY Zenon, <2>3, <2>4, <4>1
      <3>2. CASE x = s
        <4>1. r \in Range(base.sync) \/ r = rec
          BY Zenon, <2>2, <3>2 DEF Ranges
        <4> QED BY Zenon, <2>0, <2>2, <2>3, <2>4, <3>2, <4>1 DEF Ranges
      <3> QED BY Zenon, <3>1, <3>2
    <2>7. \A x \in Slots, o \in Objs : \A r \in Range(itxg'[x].async[o]) :
               r \in records' /\ r.txg = itxg'[x].txg /\ r.obj = o /\ r.kind = "write"
      <3> SUFFICES ASSUME NEW x \in Slots, NEW o \in Objs, NEW r \in Range(itxg'[x].async[o])
                   PROVE  r \in records' /\ r.txg = itxg'[x].txg /\ r.obj = o /\ r.kind = "write"
        BY Zenon
      <3>1. CASE x # s
        <4>1. Range(itxg'[x].async[o]) = Range(itxg[x].async[o]) /\ itxg'[x].txg = itxg[x].txg
          BY Zenon, <2>0, <3>1
        <4>2. r \in records /\ r.txg = itxg[x].txg /\ r.obj = o /\ r.kind = "write"
          BY <2>4, <4>1
        <4> QED BY Zenon, <2>3, <4>1, <4>2
      <3>2. CASE x = s
        <4>1. r \in Range(base.async[o]) \/ (r = rec /\ ~sync /\ o = rec.obj)
          BY Zenon, <2>2, <3>2 DEF Ranges
        <4>2. CASE r \in Range(base.async[o])
          <5>1. r \in Range(itxg[s].async[o]) /\ r.txg = rec.txg
            BY Zenon, <2>2, <4>2 DEF Ranges
          <5> QED BY <2>0, <2>3, <2>4, <3>2, <5>1
        <4>3. CASE r = rec /\ ~sync /\ o = rec.obj
          BY Zenon, <2>0, <2>3, <3>2, <4>3
        <4> QED BY Zenon, <4>1, <4>2, <4>3
      <3> QED BY Zenon, <3>1, <3>2
    <2>8. ({list, log} \subseteq Seq(Rec) /\ Range(log) \cup Range(list) \subseteq records)'
      BY <2>3 DEF MemInv, SlotInv, Assigned
    <2> QED
      BY Zenon, <2>1, <2>5, <2>6, <2>7, <2>8 DEF SlotInv, Shape
  \* Nothing is lost from the slot: what was there of another group has synced.
  <1>AssignProgress. Progress /\ PlaceInv'
    <2>1. PICK s \in Slots, base \in SlotType : Shape(rec, sync, s, base)
      BY Zenon, AssignShape
    <2>0. /\ s = rec.txg % TXG_SIZE /\ itxg'[s].txg = rec.txg /\ base.txg = rec.txg
          /\ \A x \in Slots : x # s => itxg'[x] = itxg[x]
      BY Zenon, <2>1 DEF Shape
    <2>2. Ranges(rec, sync, s, base)
      BY Zenon, <2>1, AssignRanges
    <2>3. UNCHANGED <<synced, dropped, list, log, workload>> /\ records' = records \cup {rec} /\ rec \in Rec
          /\ (sync \/ rec.kind = "write")
      BY Zenon DEF Assigned, groupVars
    <2>4. \A r \in records : r \in Rec
      BY Zenon DEF MemInv, RecordInv
    <2>5. \A r \in Rec : r.txg % TXG_SIZE \in Slots /\ r.obj \in Objs
      BY SlotOf DEF Rec
    <2>6. \A r \in records : (Logged(r) => Logged(r)') /\ (Listed(r) => Listed(r)')
      BY Zenon, <2>3 DEF Logged, Listed
    <2>7. \A r \in records : InSync(r) => Logged(r)' \/ InSync(r)'
      <3> SUFFICES ASSUME NEW r \in records, InSync(r), ~Logged(r)' PROVE InSync(r)'
        BY Zenon
      <3>1. CASE r.txg % TXG_SIZE = s
        <4>1. r \in Range(base.sync)
          BY Zenon, <2>1, <2>3, <3>1 DEF InSync, Logged, Shape
        <4> QED BY Zenon, <2>2, <3>1, <4>1 DEF InSync, Ranges
      <3>2. CASE r.txg % TXG_SIZE # s
        BY Zenon, <2>0, <2>4, <2>5, <3>2 DEF InSync
      <3> QED BY Zenon, <3>1, <3>2
    <2>8. \A r \in records : InAsync(r) => Logged(r)' \/ InAsync(r)'
      <3> SUFFICES ASSUME NEW r \in records, InAsync(r), ~Logged(r)' PROVE InAsync(r)'
        BY Zenon
      <3>1. CASE r.txg % TXG_SIZE = s
        <4>1. r \in Range(base.async[r.obj])
          BY Zenon, <2>1, <2>3, <2>4, <2>5, <3>1 DEF InAsync, Logged, Shape
        <4> QED BY Zenon, <2>2, <2>4, <2>5, <3>1, <4>1 DEF InAsync, Ranges
      <3>2. CASE r.txg % TXG_SIZE # s
        BY Zenon, <2>0, <2>4, <2>5, <3>2 DEF InAsync
      <3> QED BY Zenon, <3>1, <3>2
    <2>9. Progress
      BY Zenon, <2>3, <2>6, <2>7, <2>8 DEF Progress, Stored, Listed
    <2>10. CASE sync
      <3>1. Stored(rec)'
        BY Zenon, <2>0, <2>2, <2>10 DEF Stored, InSync, Ranges
      <3> QED BY Zenon, <2>3, <2>9, <3>1, ProgressPlaces DEF MemInv
    <2>11. CASE ~sync
      <3>1. InAsync(rec)'
        BY Zenon, <2>0, <2>2, <2>3, <2>5, <2>11 DEF InAsync, Ranges
      <3> QED BY Zenon, <2>3, <2>9, <2>11, <3>1, ProgressPlaces DEF MemInv
    <2> QED BY Zenon, <2>10, <2>11, <2>9
  \* A new record is nowhere yet.
  <1>FreshRecord.
    ASSUME rec.id = ops + 1
    PROVE  /\ rec \notin records /\ rec \notin Range(log) /\ rec \notin Range(list)
           /\ \A s \in Slots : /\ rec \notin Range(itxg[s].sync)
                               /\ \A o \in Objs : rec \notin Range(itxg[s].async[o])
    <2> USE <1>FreshRecord
    <2>1. rec \notin records
      BY DEF MemInv, RecordInv, ThreadTypes
    <2> QED BY Zenon, <2>1 DEF MemInv, SlotInv
  \* The new record is in one place.
  <1>AssignOnce. OnceInv'
    <2>1. PICK s \in Slots, base \in SlotType : Shape(rec, sync, s, base)
      BY Zenon, AssignShape
    <2>2. Ranges(rec, sync, s, base)
      BY Zenon, <2>1, AssignRanges
    <2>3. UNCHANGED <<list, log>> /\ rec \in Rec /\ sync \in BOOLEAN /\ rec.id = ops + 1
      BY Zenon DEF Assigned
    <2>4. /\ rec \notin Range(log) /\ rec \notin Range(list)
          /\ rec \notin Range(base.sync) /\ \A o \in Objs : rec \notin Range(base.async[o])
      BY <2>2, <2>3, <1>FreshRecord DEF Ranges
    <2>5. IsInjective(base.sync) /\ \A o \in Objs : IsInjective(base.async[o])
      BY <2>1, EmptySeq DEF Shape, MemInv, OnceInv
    <2>6. base.sync \in Seq(Rec) /\ \A o \in Objs : base.async[o] \in Seq(Rec)
      BY DEF SlotType
    <2>7. \A x \in Slots : x # s => itxg'[x] = itxg[x]
      BY Zenon, <2>1 DEF Shape
    <2>8. IsInjective(itxg'[s].sync) /\ Range(itxg'[s].sync) \cap (Range(log) \cup Range(list)) = {}
      <3>1. IsInjective(itxg'[s].sync)
        BY <2>1, <2>3, <2>4, <2>5, <2>6, AppendOnce DEF Shape
      <3>2. Range(itxg[s].sync) \cap (Range(log) \cup Range(list)) = {}
        BY Zenon DEF MemInv, OnceInv
      <3> QED BY <3>1, <3>2, <2>2, <2>4 DEF Ranges
    <2>9. \A o \in Objs :
            /\ IsInjective(itxg'[s].async[o])
            /\ Range(itxg'[s].async[o]) \cap (Range(log) \cup Range(list) \cup Range(itxg'[s].sync)) = {}
      <3> SUFFICES ASSUME NEW o \in Objs
                   PROVE  /\ IsInjective(itxg'[s].async[o])
                          /\ Range(itxg'[s].async[o]) \cap (Range(log) \cup Range(list) \cup Range(itxg'[s].sync)) = {}
        BY Zenon
      <3>1. IsInjective(itxg'[s].async[o])
        BY <2>1, <2>3, <2>4, <2>5, <2>6, AppendOnce DEF Shape
      <3>2. Range(itxg[s].async[o]) \cap (Range(log) \cup Range(list) \cup Range(itxg[s].sync)) = {}
        BY Zenon DEF MemInv, OnceInv
      <3>3. /\ Range(itxg'[s].async[o]) = Range(base.async[o]) \cup (IF ~sync /\ o = rec.obj THEN {rec} ELSE {})
            /\ Range(base.async[o]) \subseteq Range(itxg[s].async[o])
            /\ Range(base.sync) \subseteq Range(itxg[s].sync)
            /\ Range(itxg'[s].sync) = Range(base.sync) \cup (IF sync THEN {rec} ELSE {})
        BY Zenon, <2>2 DEF Ranges
      <3> QED BY <3>1, <3>2, <3>3, <2>4
    <2>10. IsInjective(log) /\ IsInjective(list) /\ Range(log) \cap Range(list) = {}
      BY Zenon DEF MemInv, OnceInv
    <2>11. \A x \in Slots : x # s =>
             /\ IsInjective(itxg'[x].sync) /\ Range(itxg'[x].sync) \cap (Range(log) \cup Range(list)) = {}
             /\ \A o \in Objs :
                  /\ IsInjective(itxg'[x].async[o])
                  /\ Range(itxg'[x].async[o]) \cap (Range(log) \cup Range(list) \cup Range(itxg'[x].sync)) = {}
      BY <2>7 DEF MemInv, OnceInv
    <2> QED BY <2>3, <2>8, <2>9, <2>10, <2>11 DEF OnceInv
  \* The creation of an object is in its place before any later record is logged.
  <1>AssignOrder. OrderInv'
    <2>1. PICK s \in Slots, base \in SlotType : Shape(rec, sync, s, base)
      BY Zenon, AssignShape
    <2>2. Ranges(rec, sync, s, base)
      BY Zenon, <2>1, AssignRanges
    <2>3. UNCHANGED <<synced, list, log>> /\ rec \in Rec /\ sync \in BOOLEAN /\ rec.id = ops + 1
          /\ records' = records \cup {rec} /\ synced < rec.txg
      BY Zenon DEF Assigned, groupVars
    <2>4. base.sync \in Seq(Rec) /\ itxg \in [Slots -> SlotType]
      BY DEF SlotType, MemInv, SlotInv
    <2>5. \A r \in records : ~(rec.id < r.id)
      BY <2>3 DEF MemInv, RecordInv, ThreadTypes
    <2>6. \A c \in Creates' : c \in Creates \/ c = rec
      BY Zenon, <2>3 DEF Creates
    <2>7. ASSUME NEW q, NEW done, Range(q) \subseteq records, Ordered(q, Creates, done)
          PROVE  Ordered(q, Creates', done)
      <3>1. \A i \in DOMAIN q : ~(rec.id < q[i].id)
        BY Zenon, <2>5, <2>7 DEF Range
      <3> HIDE DEF Creates
      <3> QED BY Zenon, <2>6, <2>7, <3>1, OrderedWeaker
    <2>8. Ordered(log, Creates', {}) /\ Ordered(list, Creates', Range(log))
      BY Zenon, <2>7 DEF MemInv, SlotInv, OrderInv
    <2>9. ASSUME NEW x \in Slots PROVE Ordered(itxg[x].sync, Creates', Range(log) \cup Range(list))
      BY Zenon, <2>7 DEF MemInv, SlotInv, OrderInv
    <2>10. Ordered(base.sync, Creates', Range(log) \cup Range(list))
      <3>1. CASE base = itxg[s]
        BY Zenon, <2>9, <3>1
      <3>2. CASE base.sync = <<>>
        BY Zenon, <3>2, OrderedEmpty
      <3> QED BY Zenon, <2>1, <3>1, <3>2 DEF Shape
    <2>11. \A c \in Creates' : c.obj = rec.obj /\ c.id < rec.id /\ c.txg = rec.txg
                                => c \in (Range(log) \cup Range(list)) \cup Range(base.sync)
      <3> SUFFICES ASSUME NEW c \in Creates', c.id < rec.id, c.txg = rec.txg,
                          c \notin Range(log), c \notin Range(list)
                   PROVE  c \in Range(base.sync)
        BY Zenon
      <3>1. c # rec
        BY <2>3 DEF Rec
      <3>2. c \in records /\ c.kind = "create" /\ ~(c.txg <= synced)
        BY <2>3, <2>6, <3>1 DEF Creates, MemInv, RecordInv, Rec, ThreadTypes
      <3>3. InSync(c)
        BY Zenon, <3>2 DEF MemInv, PlaceInv, Stored, Listed, Logged
      <3>4. c \in Range(itxg[s].sync)
        BY Zenon, <2>1, <3>3 DEF InSync, Shape
      <3> QED BY Zenon, <2>1, <3>2, <3>4 DEF Shape
    <2>12. Ordered(itxg'[s].sync, Creates', Range(log) \cup Range(list))
      <3>1. CASE sync
        <4>1. itxg'[s].sync = Append(base.sync, rec)
          BY Zenon, <2>1, <3>1 DEF Shape
        <4>2. Ordered(Append(base.sync, rec), Creates', Range(log) \cup Range(list))
          BY Zenon, <2>3, <2>4, <2>10, <2>11, OrderedAppend
        <4> QED BY Zenon, <4>1, <4>2
      <3>2. CASE ~sync
        BY Zenon, <2>1, <2>10, <3>2 DEF Shape
      <3> QED BY Zenon, <3>1, <3>2
    <2>13. \A x \in Slots : Ordered(itxg'[x].sync, Creates', Range(log) \cup Range(list))
      <3> SUFFICES ASSUME NEW x \in Slots, x # s PROVE Ordered(itxg'[x].sync, Creates', Range(log) \cup Range(list))
        BY Zenon, <2>12
      <3>1. itxg'[x].sync = itxg[x].sync
        BY Zenon, <2>1 DEF Shape
      <3> QED BY Zenon, <2>9, <3>1
    <2> QED BY Zenon, <2>3, <2>8, <2>13 DEF OrderInv
  <1> QED BY Zenon, <1>AssignSlots, <1>AssignProgress, <1>AssignOnce, <1>AssignOrder

\* A step that leaves the records alone.
LEMMA OtherMem ==
    ASSUME MemInv, UNCHANGED <<workload, synced, itxg, dropped, list, log, records>>
    PROVE  Progress /\ PlaceInv' /\ SlotInv' /\ OnceInv' /\ OrderInv'
  <1>1. SlotInv' /\ OnceInv'
    BY DEF MemInv, SlotInv, OnceInv
  <1>2. UNCHANGED Creates
    BY Zenon DEF Creates
  <1>3. OrderInv'
    BY Zenon, <1>2 DEF MemInv, OrderInv
  <1>4. Progress
    BY Zenon DEF Progress, Stored, Listed, Logged, InSync, InAsync
  <1> QED BY Zenon, <1>1, <1>3, <1>4, ProgressPlaces DEF MemInv

\* Sequences without common records have no record twice together.
LEMMA ConcatOnce ==
    ASSUME NEW S, NEW q \in Seq(S), NEW w \in Seq(S), IsInjective(q), IsInjective(w),
           Range(q) \cap Range(w) = {}
    PROVE  IsInjective(q \o w)
  <1> SUFFICES ASSUME NEW a \in DOMAIN (q \o w), NEW b \in DOMAIN (q \o w), (q \o w)[a] = (q \o w)[b]
               PROVE  a = b
    BY DEF IsInjective
  <1>1. \A i \in DOMAIN (q \o w) : \/ i \in DOMAIN q /\ (q \o w)[i] = q[i]
                                   \/ i - Len(q) \in DOMAIN w /\ (q \o w)[i] = w[i - Len(q)]
    OBVIOUS
  <1>2. \A i \in DOMAIN q, j \in DOMAIN w : q[i] # w[j]
    BY DEF Range
  <1>3. CASE a \in DOMAIN q /\ b \in DOMAIN q /\ (q \o w)[a] = q[a] /\ (q \o w)[b] = q[b]
    BY <1>3 DEF IsInjective
  <1>4. CASE a - Len(q) \in DOMAIN w /\ b - Len(q) \in DOMAIN w
             /\ (q \o w)[a] = w[a - Len(q)] /\ (q \o w)[b] = w[b - Len(q)]
    <2>1. a - Len(q) = b - Len(q)
      BY <1>4 DEF IsInjective
    <2> QED BY <2>1
  <1> QED BY <1>1, <1>2, <1>3, <1>4

\* Two sequences are ordered together when the second is ordered after the
\* first.
LEMMA OrderedConcat ==
    ASSUME NEW q \in Seq(Rec), NEW w \in Seq(Rec), NEW creates, NEW done, Ordered(q, creates, done),
           Ordered(w, creates, done \cup Range(q))
    PROVE  Ordered(q \o w, creates, done)
  <1> SUFFICES ASSUME NEW i \in DOMAIN (q \o w), NEW c \in creates, c.obj = (q \o w)[i].obj,
                      c.id < (q \o w)[i].id, c.txg = (q \o w)[i].txg, c \notin done
               PROVE  \E j \in 1 .. i - 1 : (q \o w)[j] = c
    BY Zenon DEF Ordered
  <1>1. CASE i \in DOMAIN q
    <2>1. (q \o w)[i] = q[i] /\ \A j \in 1 .. i - 1 : (q \o w)[j] = q[j]
      BY <1>1
    <2>2. c.obj = q[i].obj /\ c.id < q[i].id /\ c.txg = q[i].txg
      BY <2>1
    <2>3. \E j \in 1 .. i - 1 : q[j] = c
      BY Zenon, <1>1, <2>2 DEF Ordered
    <2> QED BY Zenon, <2>1, <2>3
  <1>2. CASE i \notin DOMAIN q
    <2>1. i - Len(q) \in DOMAIN w /\ (q \o w)[i] = w[i - Len(q)] /\ i > Len(q)
      BY <1>2
    <2>2. c \in Range(q) \/ \E j \in 1 .. i - Len(q) - 1 : w[j] = c
      BY Zenon, <2>1 DEF Ordered
    <2>3. CASE c \in Range(q)
      <3>1. PICK j \in DOMAIN q : q[j] = c
        BY <2>3 DEF Range
      <3>2. j \in 1 .. i - 1 /\ (q \o w)[j] = c
        BY <2>1, <3>1
      <3> QED BY Zenon, <3>2
    <2>4. CASE \E j \in 1 .. i - Len(q) - 1 : w[j] = c
      <3>1. PICK j \in 1 .. i - Len(q) - 1 : w[j] = c
        BY <2>4
      <3>2. Len(q) + j \in 1 .. i - 1 /\ (q \o w)[Len(q) + j] = c
        BY <2>1, <3>1
      <3> QED BY Zenon, <3>2
    <2> QED BY Zenon, <2>2, <2>3, <2>4
  <1> QED BY Zenon, <1>1, <1>2

\* zil_async_to_sync() loses no record, and moves those of the slot it is at.
LEMMA MoveMem ==
    ASSUME MemInv, NEW t \in Threads, zil_async_to_sync(t), UNCHANGED workload
    PROVE  /\ Progress /\ PlaceInv' /\ SlotInv' /\ OnceInv' /\ OrderInv'
           /\ \A r \in records : th[t].oid \in {NoObj, r.obj} /\ r.txg = th[t].walk /\ InAsync(r) => Stored(r)'
  \* The ranges of the lists of the slot.
  <1>MovedRanges.
    ASSUME NEW s \in Slots, NEW q \in Seq(Rec), NEW os \in SUBSET Objs, MovedTo(s, q, os)
    PROVE  /\ Range(itxg'[s].sync) = Range(itxg[s].sync) \cup Range(q)
           /\ \A o \in Objs : Range(itxg'[s].async[o]) = IF o \in os THEN {} ELSE Range(itxg[s].async[o])
           /\ \A r \in Range(q) : r \in records /\ r.txg = itxg[s].txg /\ r.kind = "write" /\ r.obj \in os
           /\ Range(q) \cap (Range(log) \cup Range(list) \cup Range(itxg[s].sync)) = {}
    <2> USE <1>MovedRanges
    <2>1. itxg[s].sync \in Seq(Rec) /\ Range(<<>>) = {}
      BY EmptySeq DEF MemInv, SlotInv, SlotType
    <2>2. Range(itxg'[s].sync) = Range(itxg[s].sync) \cup Range(q)
      <3>1. itxg'[s].sync = itxg[s].sync \o q
        BY Zenon DEF MovedTo
      <3> QED BY <2>1, <3>1, ConcatRange
    <2>3. \A o \in Objs : Range(itxg'[s].async[o]) = IF o \in os THEN {} ELSE Range(itxg[s].async[o])
      BY Zenon, <2>1 DEF MovedTo
    <2>4. ASSUME NEW r \in Range(q)
          PROVE  /\ r \in records /\ r.txg = itxg[s].txg /\ r.kind = "write" /\ r.obj \in os
                 /\ r \notin Range(log) /\ r \notin Range(list) /\ r \notin Range(itxg[s].sync)
      <3>1. PICK o \in os : r \in Range(itxg[s].async[o])
        BY Zenon, <2>4 DEF MovedTo
      <3>2. o \in Objs
        BY Zenon
      <3>3. r \in records /\ r.txg = itxg[s].txg /\ r.kind = "write" /\ r.obj = o
        BY <3>1, <3>2 DEF MemInv, SlotInv
      <3>4. Range(itxg[s].async[o]) \cap (Range(log) \cup Range(list) \cup Range(itxg[s].sync)) = {}
        BY Zenon, <3>2 DEF MemInv, OnceInv
      <3> QED BY Zenon, <3>1, <3>3, <3>4
    <2> QED BY <2>2, <2>3, <2>4
  \* The records stay in the slot of their group.
  <1>MovedSlots.
    ASSUME NEW s \in Slots, NEW q \in Seq(Rec), NEW os \in SUBSET Objs, MovedTo(s, q, os),
           UNCHANGED <<list, log, records>>
    PROVE  SlotInv'
    <2> USE <1>MovedSlots
    <2>1. \A x \in Slots : itxg'[x].txg # 0 => itxg'[x].txg % TXG_SIZE = x
      <3>1. \A x \in Slots : itxg'[x].txg = itxg[x].txg
        BY DEF MovedTo
      <3>2. \A x \in Slots : itxg[x].txg # 0 => itxg[x].txg % TXG_SIZE = x
        BY Zenon DEF MemInv, SlotInv
      <3> QED BY <3>1, <3>2
    <2>2. ASSUME NEW x \in Slots, NEW r \in Range(itxg'[x].sync) PROVE r \in records /\ r.txg = itxg'[x].txg
      <3>1. CASE x # s
        BY <2>2, <3>1 DEF MovedTo, MemInv, SlotInv
      <3>2. CASE x = s
        <4>1. r \in Range(itxg[s].sync) \/ r \in Range(q)
          BY <2>2, <3>2, <1>MovedRanges
        <4>2. itxg'[s].txg = itxg[s].txg
          BY Zenon DEF MovedTo
        <4>3. r \in records /\ r.txg = itxg[s].txg
          BY <4>1, <1>MovedRanges DEF MemInv, SlotInv
        <4> QED BY Zenon, <3>2, <4>2, <4>3
      <3> QED BY Zenon, <3>1, <3>2
    <2>3. ASSUME NEW x \in Slots, NEW o \in Objs, NEW r \in Range(itxg'[x].async[o])
          PROVE  r \in records /\ r.txg = itxg'[x].txg /\ r.obj = o /\ r.kind = "write"
      <3>1. r \in Range(itxg[x].async[o]) /\ itxg'[x].txg = itxg[x].txg
        <4>1. CASE x # s
          BY Zenon, <2>3, <4>1 DEF MovedTo
        <4>2. CASE x = s
          BY Zenon, <2>3, <4>2, <1>MovedRanges DEF MovedTo
        <4> QED BY Zenon, <4>1, <4>2
      <3> QED BY <3>1 DEF MemInv, SlotInv
    <2>4. itxg' \in [Slots -> SlotType]
      BY Zenon DEF MovedTo
    <2> QED BY <2>1, <2>2, <2>3, <2>4 DEF SlotInv, MemInv
  \* No record is moved to where it was already.
  <1>MovedOnce.
    ASSUME NEW s \in Slots, NEW q \in Seq(Rec), NEW os \in SUBSET Objs, MovedTo(s, q, os),
           UNCHANGED <<list, log, records>>
    PROVE  OnceInv'
    <2> USE <1>MovedOnce
    <2>1. /\ Range(itxg'[s].sync) = Range(itxg[s].sync) \cup Range(q)
          /\ \A o \in Objs : Range(itxg'[s].async[o]) = IF o \in os THEN {} ELSE Range(itxg[s].async[o])
          /\ \A r \in Range(q) : r.obj \in os
          /\ Range(q) \cap (Range(log) \cup Range(list) \cup Range(itxg[s].sync)) = {}
      BY Zenon, <1>MovedRanges
    <2>2. ASSUME NEW x \in Slots
          PROVE  IsInjective(itxg'[x].sync) /\ Range(itxg'[x].sync) \cap (Range(log) \cup Range(list)) = {}
      <3>1. CASE x # s
        BY Zenon, <3>1 DEF MovedTo, MemInv, OnceInv
      <3>2. CASE x = s
        <4>1. itxg[s].sync \in Seq(Rec)
          BY DEF MemInv, SlotInv, SlotType
        <4>2. IsInjective(itxg[s].sync) /\ Range(itxg[s].sync) \cap (Range(log) \cup Range(list)) = {}
          BY Zenon DEF MemInv, OnceInv
        <4>3. IsInjective(q) /\ itxg'[s].sync = itxg[s].sync \o q
          BY Zenon DEF MovedTo
        <4>4. IsInjective(itxg'[s].sync)
          BY <2>1, <4>1, <4>2, <4>3, ConcatOnce
        <4> QED BY <2>1, <3>2, <4>2, <4>4
      <3> QED BY Zenon, <3>1, <3>2
    <2>3. ASSUME NEW x \in Slots, NEW o \in Objs
          PROVE  /\ IsInjective(itxg'[x].async[o])
                 /\ Range(itxg'[x].async[o]) \cap (Range(log) \cup Range(list) \cup Range(itxg'[x].sync)) = {}
      <3>1. /\ IsInjective(itxg[x].async[o])
            /\ Range(itxg[x].async[o]) \cap (Range(log) \cup Range(list) \cup Range(itxg[x].sync)) = {}
        BY Zenon DEF MemInv, OnceInv
      <3>2. CASE x # s
        BY Zenon, <3>1, <3>2 DEF MovedTo
      <3>3. CASE x = s /\ o \in os
        BY Zenon, <2>1, <3>3, EmptySeq DEF MovedTo
      <3>4. CASE x = s /\ o \notin os
        <4>1. itxg'[s].async[o] = itxg[s].async[o]
          BY Zenon, <3>4 DEF MovedTo
        <4>2. \A r \in Range(itxg[s].async[o]) : r.obj = o
          BY DEF MemInv, SlotInv
        <4> QED BY <2>1, <3>1, <3>4, <4>1, <4>2
      <3> QED BY Zenon, <3>2, <3>3, <3>4
    <2> QED BY <2>2, <2>3 DEF OnceInv, MemInv
  \* The creation of an object is in the list that every commit takes before the
  \* writes are moved there.
  <1>MovedOrder.
    ASSUME NEW s \in Slots, NEW q \in Seq(Rec), NEW os \in SUBSET Objs, MovedTo(s, q, os),
           UNCHANGED <<synced, list, log, records>>
    PROVE  OrderInv'
    <2> USE <1>MovedOrder
    <2> DEFINE done == Range(log) \cup Range(list)
    <2>1. UNCHANGED Creates
      BY Zenon DEF Creates
    <2>2. Ordered(itxg[s].sync, Creates, done)
      BY Zenon DEF MemInv, OrderInv
    <2>3. itxg[s].sync \in Seq(Rec)
      BY DEF MemInv, SlotInv, SlotType
    <2>4. Ordered(q, Creates, done \cup Range(itxg[s].sync))
      <3> SUFFICES ASSUME NEW i \in DOMAIN q, NEW c \in Creates, c.txg = q[i].txg, c \notin done
                   PROVE  c \in Range(itxg[s].sync)
        BY Zenon DEF Ordered
      <3>0. q[i] \in Range(q)
        BY Zenon DEF Range
      <3>1. q[i] \in records /\ q[i].txg = itxg[s].txg
        <4>1. \A r \in Range(q) : r \in records /\ r.txg = itxg[s].txg
          BY <1>MovedRanges
        <4> QED BY Zenon, <3>0, <4>1
      <3>2. c \in records /\ c.kind = "create" /\ ~(c.txg <= synced)
        <4>1. c \in records /\ c.kind = "create" /\ c.txg > synced
          BY Zenon DEF Creates
        <4>2. c.txg \in Nat /\ synced \in Nat
          BY <4>1 DEF MemInv, RecordInv, Rec, ThreadTypes
        <4> QED BY <4>1, <4>2
      <3>3. InSync(c)
        BY Zenon, <3>2 DEF MemInv, PlaceInv, Stored, Listed, Logged
      <3>4. c.txg # 0
        BY <3>2 DEF MemInv, RecordInv, Rec
      <3>5. c.txg % TXG_SIZE = s
        BY <3>1, <3>4 DEF MemInv, SlotInv
      <3> QED BY Zenon, <3>3, <3>5 DEF InSync
    <2>5. Ordered(itxg[s].sync \o q, Creates, done)
      BY Zenon, <2>2, <2>3, <2>4, OrderedConcat
    <2>6. ASSUME NEW x \in Slots PROVE Ordered(itxg'[x].sync, Creates, done)
      <3>1. CASE x = s
        BY Zenon, <2>5, <3>1 DEF MovedTo
      <3>2. CASE x # s
        BY Zenon, <3>2 DEF MovedTo, MemInv, OrderInv
      <3> QED BY Zenon, <3>1, <3>2
    <2> QED BY Zenon, <2>1, <2>6 DEF OrderInv, MemInv
  \* No record is lost on the way.
  <1>MovedProgress.
    ASSUME NEW s \in Slots, NEW q \in Seq(Rec), NEW os \in SUBSET Objs, MovedTo(s, q, os),
           UNCHANGED <<synced, list, log, records, dropped, workload>>
    PROVE  /\ Progress /\ PlaceInv'
           /\ \A r \in records : InAsync(r) /\ r.txg % TXG_SIZE = s /\ r.obj \in os => Stored(r)'
    <2> USE <1>MovedProgress
    <2>1. ASSUME NEW r \in records
          PROVE  /\ InSync(r) => InSync(r)'
                 /\ InAsync(r) => InAsync(r)' \/ InSync(r)'
                 /\ InAsync(r) /\ r.txg % TXG_SIZE = s /\ r.obj \in os => InSync(r)'
      <3>1. r.txg % TXG_SIZE \in Slots /\ r.obj \in Objs
        BY SlotOf DEF MemInv, RecordInv, Rec
      <3>2. CASE r.txg % TXG_SIZE # s
        BY Zenon, <3>1, <3>2 DEF MovedTo, InSync, InAsync
      <3>3. CASE r.txg % TXG_SIZE = s
        <4>1. /\ Range(itxg'[s].sync) = Range(itxg[s].sync) \cup Range(q)
              /\ Range(itxg'[s].async[r.obj]) = IF r.obj \in os THEN {} ELSE Range(itxg[s].async[r.obj])
          BY <3>1, <1>MovedRanges
        <4>2. r.obj \in os => Range(itxg[s].async[r.obj]) \subseteq Range(q)
          BY Zenon DEF MovedTo
        <4> QED BY Zenon, <3>3, <4>1, <4>2 DEF InSync, InAsync
      <3> QED BY Zenon, <3>2, <3>3
    <2>2. Progress
      BY <2>1 DEF Progress, Stored, Listed, Logged
    <2> QED BY Zenon, <2>1, <2>2, ProgressPlaces DEF MemInv, Stored
  <1> DEFINE s == th[t].walk % TXG_SIZE
  <1>1. s \in Slots
    BY SlotOf DEF MemInv, ThreadTypes, ThreadType
  <1>2. UNCHANGED <<synced, list, log, records, dropped, groupVars>>
    BY Zenon DEF zil_async_to_sync, groupVars
  <1>3. CASE UNCHANGED itxg /\ itxg[s].txg # th[t].walk
    <2>1. Progress /\ PlaceInv' /\ SlotInv' /\ OnceInv' /\ OrderInv'
      BY Zenon, <1>2, <1>3, OtherMem
    <2>2. ASSUME NEW r \in records, r.txg = th[t].walk PROVE ~InAsync(r)
      <3>1. r.obj \in Objs
        BY DEF MemInv, RecordInv, Rec
      <3> QED BY <1>1, <1>3, <2>2, <3>1 DEF InAsync, MemInv, SlotInv
    <2> QED BY Zenon, <2>1, <2>2
  <1>4. CASE \E q \in Seq(Rec), os \in SUBSET Objs :
               /\ MovedTo(s, q, os)
               /\ th[t].oid = NoObj => os = Objs
               /\ th[t].oid # NoObj => os = {th[t].oid}
    <2>1. PICK q \in Seq(Rec), os \in SUBSET Objs :
               /\ MovedTo(s, q, os)
               /\ th[t].oid = NoObj => os = Objs
               /\ th[t].oid # NoObj => os = {th[t].oid}
      BY Zenon, <1>4
    <2>2. Progress /\ PlaceInv' /\ SlotInv' /\ OnceInv' /\ OrderInv'
      BY Zenon, <1>1, <1>2, <2>1, <1>MovedSlots, <1>MovedOnce, <1>MovedOrder, <1>MovedProgress
    <2>3. \A r \in records : InAsync(r) /\ r.txg % TXG_SIZE = s /\ r.obj \in os => Stored(r)'
      BY Zenon, <1>1, <1>2, <2>1, <1>MovedProgress
    <2>4. ASSUME NEW r \in records, th[t].oid \in {NoObj, r.obj}, r.txg = th[t].walk, InAsync(r) PROVE Stored(r)'
      <3>1. r.obj \in Objs
        BY DEF MemInv, RecordInv, Rec
      <3>2. r.obj \in os
        BY Zenon, <2>1, <2>4, <3>1
      <3> QED BY Zenon, <2>3, <2>4, <3>2
    <2> QED BY Zenon, <2>2, <2>4
  <1> QED BY Zenon, <1>3, <1>4, MoveShape

\* zil_get_commit_list() loses no record, and takes those of the slot it is at.
LEMMA CollectMem ==
    ASSUME MemInv, NEW t \in Threads, zil_get_commit_list(t), UNCHANGED workload
    PROVE  /\ Progress /\ PlaceInv' /\ SlotInv' /\ OnceInv' /\ OrderInv'
           /\ \A r \in records : r.txg = th[t].walk /\ Stored(r) => Listed(r)'
  \* Taking the list of one slot.
  <1>CollectedMem.
    ASSUME NEW s \in Slots, CollectedFrom(s), UNCHANGED <<synced, log, records, dropped, workload>>
    PROVE  /\ Progress /\ PlaceInv' /\ SlotInv' /\ OnceInv' /\ OrderInv'
           /\ \A r \in records : InSync(r) /\ r.txg % TXG_SIZE = s => Listed(r)'
    <2> USE <1>CollectedMem
    <2>1. list \in Seq(Rec) /\ itxg[s].sync \in Seq(Rec) /\ Range(<<>>) = {} /\ IsInjective(<<>>)
      BY EmptySeq DEF MemInv, SlotInv, SlotType
    <2>2. list' = list \o itxg[s].sync /\ list' \in Seq(Rec) /\ Range(list') = Range(list) \cup Range(itxg[s].sync)
      BY <2>1, ConcatRange DEF CollectedFrom
    <2>3. Range(itxg'[s].sync) = {} /\ IsInjective(itxg'[s].sync)
      BY Zenon, <2>1 DEF CollectedFrom
    <2>4. \A x \in Slots : x # s => itxg'[x] = itxg[x]
      BY Zenon DEF CollectedFrom
    <2>5. \A x \in Slots : itxg'[x].txg = itxg[x].txg /\ \A o \in Objs : itxg'[x].async[o] = itxg[x].async[o]
      BY Zenon DEF CollectedFrom
    <2>6. SlotInv'
      <3>1. \A x \in Slots : itxg[x].txg # 0 => itxg[x].txg % TXG_SIZE = x
        BY Zenon DEF MemInv, SlotInv
      <3>2. ASSUME NEW x \in Slots, NEW r \in Range(itxg'[x].sync) PROVE r \in records /\ r.txg = itxg'[x].txg
        <4>1. x # s /\ itxg'[x] = itxg[x]
          BY Zenon, <2>3, <2>4, <3>2
        <4> QED BY <3>2, <4>1 DEF MemInv, SlotInv
      <3>3. ASSUME NEW x \in Slots, NEW o \in Objs, NEW r \in Range(itxg'[x].async[o])
            PROVE  r \in records /\ r.txg = itxg'[x].txg /\ r.obj = o /\ r.kind = "write"
        BY <2>5, <3>3 DEF MemInv, SlotInv
      <3>4. Range(itxg[s].sync) \subseteq records /\ log \in Seq(Rec) /\ Range(log) \cup Range(list) \subseteq records
        BY DEF MemInv, SlotInv
      <3>5. Range(log) \cup Range(list') \subseteq records
        BY Zenon, <2>2, <3>4
      <3>6. itxg' \in [Slots -> SlotType]
        BY Zenon DEF CollectedFrom
      <3> QED BY <2>2, <2>5, <3>1, <3>2, <3>3, <3>4, <3>5, <3>6 DEF SlotInv
    <2>7. OnceInv'
      <3>1. IsInjective(log) /\ IsInjective(list) /\ Range(log) \cap Range(list) = {}
        BY Zenon DEF MemInv, OnceInv
      <3>2. IsInjective(itxg[s].sync) /\ Range(itxg[s].sync) \cap (Range(log) \cup Range(list)) = {}
        BY Zenon DEF MemInv, OnceInv
      <3>3. IsInjective(list') /\ Range(log) \cap Range(list') = {}
        <4>1. IsInjective(list \o itxg[s].sync)
          BY <2>1, <3>1, <3>2, ConcatOnce
        <4> QED BY <2>2, <3>1, <3>2, <4>1
      <3>4. ASSUME NEW x \in Slots, NEW y \in Slots, x # y,
                   NEW r \in Range(itxg[x].sync) \cup UNION {Range(itxg[x].async[o]) : o \in Objs}
            PROVE  r \notin Range(itxg[y].sync)
        <4>1. r \in records /\ r.txg = itxg[x].txg
          BY <3>4 DEF MemInv, SlotInv
        <4>2. r.txg # 0
          BY <4>1 DEF MemInv, RecordInv, Rec
        <4>3. itxg[x].txg % TXG_SIZE = x
          BY <4>1, <4>2 DEF MemInv, SlotInv
        <4>4. ASSUME r \in Range(itxg[y].sync) PROVE itxg[y].txg % TXG_SIZE = y /\ r.txg = itxg[y].txg
          BY <4>2, <4>4 DEF MemInv, SlotInv
        <4> QED BY <3>4, <4>1, <4>3, <4>4
      <3>5. ASSUME NEW x \in Slots
            PROVE  IsInjective(itxg'[x].sync) /\ Range(itxg'[x].sync) \cap (Range(log) \cup Range(list')) = {}
        <4>1. CASE x = s
          BY Zenon, <2>3, <4>1
        <4>2. CASE x # s
          <5>1. itxg'[x] = itxg[x] /\ Range(itxg[x].sync) \cap Range(itxg[s].sync) = {}
            BY <2>4, <3>4, <4>2
          <5>2. IsInjective(itxg[x].sync) /\ Range(itxg[x].sync) \cap (Range(log) \cup Range(list)) = {}
            BY Zenon DEF MemInv, OnceInv
          <5> QED BY <2>2, <5>1, <5>2
        <4> QED BY Zenon, <4>1, <4>2
      <3>6. ASSUME NEW x \in Slots, NEW o \in Objs
            PROVE  /\ IsInjective(itxg'[x].async[o])
                   /\ Range(itxg'[x].async[o]) \cap (Range(log) \cup Range(list') \cup Range(itxg'[x].sync)) = {}
        <4>1. /\ IsInjective(itxg[x].async[o])
              /\ Range(itxg[x].async[o]) \cap (Range(log) \cup Range(list) \cup Range(itxg[x].sync)) = {}
          BY Zenon DEF MemInv, OnceInv
        <4>2. Range(itxg[x].async[o]) \cap Range(itxg[s].sync) = {}
          BY <3>4, <4>1
        <4>3. itxg'[x].async[o] = itxg[x].async[o] /\ Range(itxg'[x].sync) \subseteq Range(itxg[x].sync)
          BY Zenon, <2>3, <2>4, <2>5
        <4> QED BY <2>2, <4>1, <4>2, <4>3
      <3> QED BY <3>1, <3>3, <3>5, <3>6 DEF OnceInv
    <2>8. OrderInv'
      <3>1. UNCHANGED Creates
        BY Zenon DEF Creates
      <3>2. Ordered(log, Creates, {}) /\ Ordered(list, Creates, Range(log))
        BY Zenon DEF MemInv, OrderInv
      <3>3. Ordered(itxg[s].sync, Creates, Range(log) \cup Range(list))
        BY Zenon DEF MemInv, OrderInv
      <3>4. Ordered(list', Creates, Range(log))
        BY Zenon, <2>1, <2>2, <3>2, <3>3, OrderedConcat
      <3>5. ASSUME NEW x \in Slots PROVE Ordered(itxg'[x].sync, Creates, Range(log) \cup Range(list'))
        <4>1. CASE x = s
          BY Zenon, <4>1, OrderedEmpty DEF CollectedFrom
        <4>2. CASE x # s
          <5>1. Ordered(itxg[x].sync, Creates, Range(log) \cup Range(list))
            BY Zenon DEF MemInv, OrderInv
          <5>2. Ordered(itxg[x].sync, Creates, Range(log) \cup Range(list'))
            BY Zenon, <2>2, <5>1, OrderedWeaker
          <5> QED BY Zenon, <2>4, <4>2, <5>2
        <4> QED BY Zenon, <4>1, <4>2
      <3> QED BY Zenon, <3>1, <3>2, <3>4, <3>5 DEF OrderInv
    <2>9. ASSUME NEW r \in records
          PROVE  /\ InSync(r) => InSync(r)' \/ r \in Range(list')
                 /\ InAsync(r) => InAsync(r)'
                 /\ InSync(r) /\ r.txg % TXG_SIZE = s => r \in Range(list')
      <3>1. r.txg % TXG_SIZE \in Slots /\ r.obj \in Objs
        BY SlotOf DEF MemInv, RecordInv, Rec
      <3>2. CASE r.txg % TXG_SIZE # s
        BY Zenon, <2>4, <3>1, <3>2 DEF InSync, InAsync
      <3>3. CASE r.txg % TXG_SIZE = s
        BY Zenon, <2>2, <2>5, <3>1, <3>3 DEF InSync, InAsync
      <3> QED BY Zenon, <3>2, <3>3
    <2>10. Progress
      BY <2>2, <2>9 DEF Progress, Stored, Listed, Logged
    <2> QED BY Zenon, <2>6, <2>7, <2>8, <2>9, <2>10, ProgressPlaces DEF MemInv, Listed
  <1> DEFINE s == th[t].walk % TXG_SIZE
  <1>1. s \in Slots
    BY SlotOf DEF MemInv, ThreadTypes, ThreadType
  <1>2. UNCHANGED <<synced, log, records, dropped, groupVars>>
    BY Zenon DEF zil_get_commit_list, groupVars
  <1>3. CASE UNCHANGED <<itxg, list>> /\ itxg[s].txg # th[t].walk
    <2>1. Progress /\ PlaceInv' /\ SlotInv' /\ OnceInv' /\ OrderInv'
      BY Zenon, <1>2, <1>3, OtherMem
    <2>2. ASSUME NEW r \in records, r.txg = th[t].walk PROVE ~InSync(r)
      BY <1>1, <1>3, <2>2 DEF InSync, MemInv, SlotInv
    <2> QED BY Zenon, <2>1, <2>2 DEF Progress, Stored
  <1>4. CASE CollectedFrom(s)
    <2>1. /\ Progress /\ PlaceInv' /\ SlotInv' /\ OnceInv' /\ OrderInv'
          /\ \A r \in records : InSync(r) /\ r.txg % TXG_SIZE = s => Listed(r)'
      BY Zenon, <1>1, <1>2, <1>4, <1>CollectedMem
    <2> QED BY Zenon, <2>1 DEF Progress, Stored
  <1> QED BY Zenon, <1>3, <1>4, CollectShape

\* The steps of the records.
LEMMA NextMem ==
    ASSUME MemInv, Next
    PROVE  Progress /\ PlaceInv' /\ SlotInv' /\ OnceInv' /\ OrderInv'
  \* Emptied lists break none of the parts about slots.
  <1>ShrunkSlots.
    ASSUME Shrunk
    PROVE  SlotInv'
    <2> USE <1>ShrunkSlots
    <2>1. Range(<<>>) = {}
      BY EmptySeq
    <2>2. \A s \in Slots : itxg'[s].txg # 0 => itxg'[s].txg % TXG_SIZE = s
      BY Zenon DEF Shrunk, MemInv, SlotInv
    <2>3. ASSUME NEW s \in Slots, NEW r \in Range(itxg'[s].sync) PROVE r \in records /\ r.txg = itxg'[s].txg
      <3>1. itxg'[s].sync = itxg[s].sync /\ itxg'[s].txg = itxg[s].txg
        BY Zenon, <2>1, <2>3 DEF Shrunk
      <3> QED BY Zenon, <2>3, <3>1 DEF MemInv, SlotInv
    <2>4. ASSUME NEW s \in Slots, NEW o \in Objs, NEW r \in Range(itxg'[s].async[o])
          PROVE  r \in records /\ r.txg = itxg'[s].txg /\ r.obj = o /\ r.kind = "write"
      <3>1. itxg'[s].async[o] = itxg[s].async[o] /\ itxg'[s].txg = itxg[s].txg
        BY Zenon, <2>1, <2>4 DEF Shrunk
      <3> QED BY <2>4, <3>1 DEF MemInv, SlotInv
    <2> QED BY <2>2, <2>3, <2>4 DEF SlotInv, Shrunk, MemInv
  \* Emptied lists have no record twice,
  <1>ShrunkOnce.
    ASSUME Shrunk
    PROVE  OnceInv'
    <2> USE <1>ShrunkOnce
    <2>1. Range(<<>>) = {} /\ IsInjective(<<>>)
      BY EmptySeq
    <2>2. UNCHANGED <<list, log>>
      BY Zenon DEF Shrunk
    <2>3. ASSUME NEW s \in Slots
          PROVE  IsInjective(itxg'[s].sync) /\ Range(itxg'[s].sync) \cap (Range(log) \cup Range(list)) = {}
      BY <2>1 DEF Shrunk, MemInv, OnceInv
    <2>4. ASSUME NEW s \in Slots, NEW o \in Objs
          PROVE  /\ IsInjective(itxg'[s].async[o])
                 /\ Range(itxg'[s].async[o]) \cap (Range(log) \cup Range(list) \cup Range(itxg'[s].sync)) = {}
      <3>1. /\ IsInjective(itxg[s].async[o])
            /\ Range(itxg[s].async[o]) \cap (Range(log) \cup Range(list) \cup Range(itxg[s].sync)) = {}
        BY Zenon DEF MemInv, OnceInv
      <3>2. itxg'[s].sync \in {itxg[s].sync, <<>>} /\ itxg'[s].async[o] \in {itxg[s].async[o], <<>>}
        BY Zenon DEF Shrunk
      <3> QED BY <2>1, <3>1, <3>2
    <2> QED BY <2>2, <2>3, <2>4 DEF OnceInv, MemInv
  \* and nothing in the wrong order.
  <1>ShrunkOrder.
    ASSUME Shrunk
    PROVE  OrderInv'
    <2> USE <1>ShrunkOrder
    <2>1. UNCHANGED <<list, log, Creates>>
      BY Zenon DEF Shrunk, Creates
    <2>2. ASSUME NEW s \in Slots PROVE Ordered(itxg'[s].sync, Creates, Range(log) \cup Range(list))
      <3>1. CASE itxg'[s].sync = itxg[s].sync
        BY Zenon, <3>1 DEF MemInv, OrderInv
      <3>2. CASE itxg'[s].sync = <<>>
        BY Zenon, <3>2, OrderedEmpty
      <3> QED BY Zenon, <3>1, <3>2 DEF Shrunk
    <2> QED BY Zenon, <2>1, <2>2 DEF OrderInv, MemInv
  \* The first record is taken away.
  <1>TailRange.
    ASSUME NEW S, NEW q \in Seq(S), q # <<>>
    PROVE  /\ Head(q) \in S /\ Tail(q) \in Seq(S) /\ Range(q) = {Head(q)} \cup Range(Tail(q))
    <2> USE <1>TailRange
    <2>1. Head(q) \in S /\ Tail(q) \in Seq(S) /\ Head(q) = q[1] /\ 1 \in DOMAIN q
      OBVIOUS
    <2>2. Range(q) \subseteq {Head(q)} \cup Range(Tail(q))
      <3> SUFFICES ASSUME NEW i \in DOMAIN q, i # 1 PROVE \E j \in DOMAIN Tail(q) : Tail(q)[j] = q[i]
        BY <2>1 DEF Range
      <3>1. i - 1 \in DOMAIN Tail(q) /\ Tail(q)[i - 1] = q[i]
        OBVIOUS
      <3> QED BY <3>1
    <2>3. Range(Tail(q)) \subseteq Range(q)
      <3> SUFFICES ASSUME NEW i \in DOMAIN Tail(q) PROVE \E j \in DOMAIN q : q[j] = Tail(q)[i]
        BY DEF Range
      <3>1. i + 1 \in DOMAIN q /\ q[i + 1] = Tail(q)[i]
        OBVIOUS
      <3> QED BY <3>1
    <2> QED BY <2>1, <2>2, <2>3 DEF Range
  \* The first record of a list is in it once.
  <1>TailOnce.
    ASSUME NEW S, NEW q \in Seq(S), q # <<>>, IsInjective(q)
    PROVE  IsInjective(Tail(q)) /\ Head(q) \notin Range(Tail(q))
    <2> USE <1>TailOnce
    <2>1. \A i \in DOMAIN Tail(q) : i \in Nat \ {0} /\ i + 1 \in DOMAIN q /\ q[i + 1] = Tail(q)[i]
      OBVIOUS
    <2>2. Head(q) = q[1] /\ 1 \in DOMAIN q
      OBVIOUS
    <2> QED BY <2>1, <2>2 DEF IsInjective, Range
  \* The rest of a list is ordered once its first record is done.
  <1>OrderedTail.
    ASSUME NEW q \in Seq(Rec), q # <<>>, NEW creates, NEW d1, NEW d2, Ordered(q, creates, d1),
           d1 \subseteq d2, Head(q) \in creates => Head(q) \in d2
    PROVE  Ordered(Tail(q), creates, d2)
    <2> USE <1>OrderedTail
    <2> SUFFICES ASSUME NEW i \in DOMAIN Tail(q), NEW c \in creates, c.obj = Tail(q)[i].obj,
                        c.id < Tail(q)[i].id, c.txg = Tail(q)[i].txg, c \notin d2
                 PROVE  \E j \in 1 .. i - 1 : Tail(q)[j] = c
      BY Zenon DEF Ordered
    <2>1. i + 1 \in DOMAIN q /\ Tail(q)[i] = q[i + 1] /\ i \in Nat
      OBVIOUS
    <2>2. PICK j \in 1 .. i + 1 - 1 : q[j] = c
      <3>1. c.obj = q[i + 1].obj /\ c.id < q[i + 1].id /\ c.txg = q[i + 1].txg /\ c \notin d1
        BY <2>1
      <3> DEFINE n == i + 1
      <3>2. n \in DOMAIN q /\ c.obj = q[n].obj /\ c.id < q[n].id /\ c.txg = q[n].txg
        BY <2>1, <3>1
      <3> HIDE DEF n
      <3>3. \E j \in 1 .. n - 1 : q[j] = c
        BY Zenon, <3>1, <3>2 DEF Ordered
      <3> QED BY <3>3 DEF n
    <2>3. j # 1
      BY <2>2
    <2>4. j - 1 \in 1 .. i - 1 /\ Tail(q)[j - 1] = c
      BY <2>1, <2>2, <2>3
    <2> QED BY Zenon, <2>4
  \* zil_clean() throws away what has synced.
  <1>CleanProgress.
    ASSUME zil_clean, UNCHANGED workload
    PROVE  Progress /\ PlaceInv'
    <2> USE <1>CleanProgress
    <2>1. /\ UNCHANGED <<dropped, synced, list, log, records>>
          /\ \A s \in Slots : s # synced % TXG_SIZE => itxg'[s] = itxg[s]
      BY Zenon, CleanShrinks DEF Shrunk
    <2>2. ASSUME NEW r \in records, ~(r.txg <= synced)
          PROVE  itxg'[r.txg % TXG_SIZE] = itxg[r.txg % TXG_SIZE]
      <3>1. r.txg \in Nat /\ synced \in Nat /\ open \in Nat /\ r.txg <= open
        BY DEF MemInv, RecordInv, ThreadTypes, Rec
      <3>2. r.txg - synced < TXG_SIZE /\ synced - r.txg < TXG_SIZE /\ r.txg # synced
        BY <2>2, <3>1, ZilCommitAssumption DEF MemInv, GroupInv
      <3>3. r.txg % TXG_SIZE # synced % TXG_SIZE
        BY Zenon, <3>1, <3>2, SlotsDiffer
      <3> QED BY Zenon, <2>1, <3>1, <3>3, SlotOf
    <2>3. ASSUME NEW r \in records, ~(r.txg <= synced) PROVE InSync(r)' = InSync(r) /\ InAsync(r)' = InAsync(r)
      BY Zenon, <2>2, <2>3 DEF InSync, InAsync
    <2>4. Progress
      BY <2>1, <2>3 DEF Progress, Stored, Listed, Logged
    <2> QED BY Zenon, <2>1, <2>4, ProgressPlaces DEF MemInv
  \* zil_remove_async() drops writes of the object that is removed.
  <1>DropProgress.
    ASSUME NEW t \in Threads, zil_remove_async(t), UNCHANGED workload
    PROVE  Progress /\ PlaceInv'
    <2> USE <1>DropProgress
    <2>1. /\ UNCHANGED <<synced, list, log, records>> /\ dropped \subseteq dropped'
          /\ \A s \in Slots : itxg'[s].sync = itxg[s].sync
      BY Zenon, DropShape DEF Shrunk
    <2>2. ASSUME NEW r \in records
          PROVE  InSync(r)' = InSync(r) /\ (Ztest /\ InAsync(r) => r.id \in dropped' \/ InAsync(r)')
      <3>1. r.txg % TXG_SIZE \in Slots /\ r.obj \in Objs
        BY SlotOf DEF MemInv, RecordInv, Rec
      <3>2. InSync(r)' = InSync(r)
        BY Zenon, <2>1, <3>1 DEF InSync
      <3>3. ASSUME Ztest, InAsync(r), ~InAsync(r)' PROVE r.id \in dropped'
        <4> DEFINE s == r.txg % TXG_SIZE
        <4>1. itxg'[s].async[r.obj] # itxg[s].async[r.obj]
          BY Zenon, <3>3 DEF InAsync
        <4>2. r.obj = th[t].oid /\ \A x \in Range(itxg[s].async[r.obj]) : x.obj = th[t].obj => x.id \in dropped'
          BY Zenon, <3>1, <4>1, DropShape
        <4>3. th[t].oid = th[t].obj
          BY Zenon, <3>3 DEF MemInv, GroupInv, zil_remove_async
        <4> QED BY Zenon, <3>3, <4>2, <4>3 DEF InAsync
      <3> QED BY Zenon, <3>2, <3>3
    <2>3. Progress
      BY <2>1, <2>2 DEF Progress, Stored, Listed, Logged
    <2> QED BY Zenon, <2>1, <2>3, ProgressPlaces DEF MemInv
  \* zil_commit_writer() writes the first record of the list, unless its group
  \* has synced.
  <1>WrittenMem.
    ASSUME list # <<>>, list' = Tail(list),
           log' = IF Head(list).txg > synced THEN Append(log, Head(list)) ELSE log,
           UNCHANGED <<synced, itxg, records, dropped, workload>>
    PROVE  Progress /\ PlaceInv' /\ SlotInv' /\ OnceInv' /\ OrderInv'
    <2> USE <1>WrittenMem
    <2> DEFINE r == Head(list)
    <2>1. list \in Seq(Rec) /\ log \in Seq(Rec) /\ Range(list) \subseteq records /\ Range(log) \subseteq records
      BY DEF MemInv, SlotInv
    <2>2. r \in Rec /\ list' \in Seq(Rec) /\ Range(list) = {r} \cup Range(list')
      BY Zenon, <2>1, <1>TailRange
    <2>3. /\ IsInjective(log) /\ IsInjective(list) /\ Range(log) \cap Range(list) = {}
          /\ \A s \in Slots : /\ IsInjective(itxg[s].sync)
                              /\ Range(itxg[s].sync) \cap (Range(log) \cup Range(list)) = {}
          /\ \A s \in Slots, o \in Objs :
               /\ IsInjective(itxg[s].async[o])
               /\ Range(itxg[s].async[o]) \cap (Range(log) \cup Range(list) \cup Range(itxg[s].sync)) = {}
      BY Zenon DEF MemInv, OnceInv
    <2>4. IsInjective(list') /\ r \notin Range(list')
      BY Zenon, <2>1, <2>3, <1>TailOnce
    <2>5. synced \in Nat /\ r.txg \in Nat
      BY <2>2 DEF MemInv, ThreadTypes, Rec
    <2>6. UNCHANGED Creates
      BY Zenon DEF Creates
    <2>7. Ordered(log, Creates, {}) /\ Ordered(list, Creates, Range(log))
          /\ \A s \in Slots : Ordered(itxg[s].sync, Creates, Range(log) \cup Range(list))
      BY Zenon DEF MemInv, OrderInv
    <2>8. ASSUME Range(log') \subseteq Range(log) \cup {r}, Range(log) \subseteq Range(log'),
                 r.txg <= synced \/ r \in Range(log'), log' \in Seq(Rec), IsInjective(log'),
                 Ordered(log', Creates, {}), r \in Creates => r \in Range(log')
          PROVE  Progress /\ PlaceInv' /\ SlotInv' /\ OnceInv' /\ OrderInv'
      <3>1. Range(log') \cup Range(list') \subseteq Range(log) \cup Range(list)
        BY Zenon, <2>2, <2>8
      <3>2. SlotInv'
        <4>1. {list', log'} \subseteq Seq(Rec) /\ Range(log') \cup Range(list') \subseteq records
          BY Zenon, <2>1, <2>2, <2>8, <3>1
        <4> QED BY <4>1 DEF MemInv, SlotInv
      <3>3. OnceInv'
        <4>1. Range(log') \cap Range(list') = {}
          BY <2>2, <2>3, <2>4, <2>8
        <4>2. ASSUME NEW s \in Slots PROVE Range(itxg[s].sync) \cap (Range(log') \cup Range(list')) = {}
          BY Zenon, <2>3, <3>1
        <4>3. ASSUME NEW s \in Slots, NEW o \in Objs
              PROVE  Range(itxg[s].async[o]) \cap (Range(log') \cup Range(list') \cup Range(itxg[s].sync)) = {}
          BY Zenon, <2>3, <3>1
        <4> QED BY Zenon, <2>3, <2>4, <2>8, <4>1, <4>2, <4>3 DEF OnceInv
      <3>4. OrderInv'
        <4>1. Ordered(list', Creates, Range(log'))
          BY Zenon, <2>1, <2>7, <2>8, <1>OrderedTail
        <4>2. ASSUME NEW s \in Slots PROVE Ordered(itxg[s].sync, Creates, Range(log') \cup Range(list'))
          <5>1. Ordered(itxg[s].sync, Creates, Range(log) \cup Range(list))
            BY Zenon, <2>7
          <5>2. CASE r \in Range(log')
            <6>1. Range(log) \cup Range(list) \subseteq Range(log') \cup Range(list')
              BY Zenon, <2>2, <2>8, <5>2
            <6> QED BY Zenon, <5>1, <6>1, OrderedWeaker
          <5>3. CASE r \notin Range(log')
            <6>1. r \notin Creates
              BY Zenon, <2>8, <5>3
            <6>2. Range(log) \cup Range(list) \subseteq Range(log') \cup Range(list') \cup {r}
              BY Zenon, <2>2, <2>8
            <6> HIDE DEF r
            <6> QED BY Zenon, <5>1, <6>1, <6>2 DEF Ordered
          <5> QED BY Zenon, <5>2, <5>3
        <4> QED BY Zenon, <2>6, <2>8, <4>1, <4>2 DEF OrderInv
      <3>5. Progress
        BY <2>2, <2>8 DEF Progress, Stored, Listed, Logged, InSync, InAsync
      <3> QED BY Zenon, <3>2, <3>3, <3>4, <3>5, ProgressPlaces DEF MemInv
    <2>9. CASE r.txg > synced
      <3>1. log' = Append(log, r) /\ Range(log') = Range(log) \cup {r} /\ log' \in Seq(Rec)
        BY <2>1, <2>2, <2>9, AppendRange
      <3>2. r \notin Range(log)
        BY Zenon, <2>2, <2>3
      <3> HIDE DEF r
      <3>3. IsInjective(log')
        <4>1. IsInjective(Append(log, r))
          BY <2>1, <2>2, <2>3, <3>2, AppendOnce
        <4> QED BY Zenon, <3>1, <4>1
      <3>4. \A c \in Creates : c.obj = r.obj /\ c.id < r.id /\ c.txg = r.txg => c \in {} \cup Range(log)
        <4>1. 1 \in DOMAIN list /\ r = list[1] /\ 1 .. 1 - 1 = {}
          BY <2>1 DEF r
        <4> QED BY Zenon, <2>7, <4>1 DEF Ordered
      <3>5. Ordered(log', Creates, {})
        <4>1. Ordered(Append(log, r), Creates, {})
          BY Zenon, <2>1, <2>2, <2>7, <3>4, OrderedAppend
        <4> QED BY Zenon, <3>1, <4>1
      <3> QED BY Zenon, <2>8, <3>1, <3>3, <3>5
    <2>10. CASE ~(r.txg > synced)
      <3>1. log' = log
        BY <2>10
      <3>2. r \notin Creates /\ r.txg <= synced
        BY <2>5, <2>10 DEF Creates
      <3> HIDE DEF r
      <3> QED BY Zenon, <2>1, <2>3, <2>7, <2>8, <3>1, <3>2
    <2> QED BY Zenon, <2>9, <2>10
  \* The steps of the groups.
  <1>GroupMem.
    ASSUME Quiesce \/ Synced, UNCHANGED workload
    PROVE  Progress /\ PlaceInv' /\ SlotInv' /\ OnceInv' /\ OrderInv'
    <2> USE <1>GroupMem
    <2>1. UNCHANGED <<itxg, dropped, list, log, records>> /\ synced \in Nat /\ synced' \in Nat /\ synced <= synced'
      BY DEF Quiesce, Synced, itxVars, MemInv, ThreadTypes
    <2>2. SlotInv' /\ OnceInv'
      BY <2>1 DEF MemInv, SlotInv, OnceInv
    <2>3. Creates' \subseteq Creates
      BY <2>1 DEF Creates, MemInv, RecordInv, Rec
    <2>4. OrderInv'
      BY Zenon, <2>1, <2>3, OrderedWeaker DEF MemInv, OrderInv
    <2>5. \A r \in records : r.txg <= synced => r.txg <= synced'
      BY <2>1 DEF MemInv, RecordInv, Rec
    <2>6. Progress
      BY Zenon, <2>1, <2>5 DEF Progress, Stored, Listed, Logged, InSync, InAsync
    <2> QED BY Zenon, <2>1, <2>2, <2>4, <2>6, ProgressPlaces DEF MemInv
  <1>1. UNCHANGED workload /\ workload.threads \subseteq Threads
    BY ZilCommitAssumption DEF Next, MemInv, ThreadTypes
  <1>2. CASE Quiesce \/ Synced
    BY Zenon, <1>1, <1>2, <1>GroupMem
  <1>3. CASE zil_clean
    BY Zenon, <1>1, <1>3, CleanShrinks, <1>CleanProgress, <1>ShrunkSlots, <1>ShrunkOnce, <1>ShrunkOrder
  <1>4. ASSUME NEW t \in Threads, NEW o \in Objs, Create(t, o) \/ Write(t, o)
        PROVE  Progress /\ PlaceInv' /\ SlotInv' /\ OnceInv' /\ OrderInv'
    BY Zenon, <1>1, <1>4, LogOneAssigns, AssignedMem
  <1>5. ASSUME NEW t \in Threads, NEW o \in Objs \cup {NoObj}, RemoveObj(t, o) \/ Rename(t, o) \/ CommitStart(t, o)
        PROVE  Progress /\ PlaceInv' /\ SlotInv' /\ OnceInv' /\ OrderInv'
    <2>1. UNCHANGED <<synced, itxg, dropped, list, log, records>>
      BY Zenon, <1>5 DEF RemoveObj, Rename, Start, CommitStart, groupVars, itxVars
    <2> QED BY Zenon, <1>1, <2>1, OtherMem
  <1>6. ASSUME NEW t \in Threads, Running(t)
        PROVE  Progress /\ PlaceInv' /\ SlotInv' /\ OnceInv' /\ OrderInv'
    <2>1. CASE zil_remove_async(t)
      BY Zenon, <1>1, <2>1, DropShape, <1>DropProgress, <1>ShrunkSlots, <1>ShrunkOnce, <1>ShrunkOrder
    <2>2. CASE LogLast(t)
      BY Zenon, <1>1, <2>2, LogLastAssigns, AssignedMem
    <2>3. CASE zil_async_to_sync(t)
      BY Zenon, <1>1, <2>3, MoveMem
    <2>4. CASE zil_get_commit_list(t)
      BY Zenon, <1>1, <2>4, CollectMem
    <2>5. CASE Enter(t) \/ Woken(t) \/ CommitDone(t)
      <3>1. UNCHANGED <<synced, itxg, dropped, list, log, records>>
        BY Zenon, <2>5 DEF Enter, Woken, CommitDone, groupVars, itxVars
      <3> QED BY Zenon, <1>1, <3>1, OtherMem
    <2>6. CASE zil_commit_writer(t)
      <3>1. UNCHANGED <<synced, itxg, dropped, records>>
        BY Zenon, <2>6 DEF zil_commit_writer, groupVars, itxVars
      <3>2. CASE UNCHANGED <<list, log>>
        BY Zenon, <1>1, <3>1, <3>2, OtherMem
      <3>3. CASE /\ list # <<>> /\ list' = Tail(list)
                 /\ log' = IF Head(list).txg > synced THEN Append(log, Head(list)) ELSE log
        BY Zenon, <1>1, <3>1, <3>3, <1>WrittenMem
      <3> QED BY Zenon, <2>6, <3>2, <3>3 DEF zil_commit_writer
    <2> QED BY Zenon, <1>6, <2>1, <2>2, <2>3, <2>4, <2>5, <2>6 DEF Running
  <1> QED BY <1>1, <1>2, <1>3, <1>4, <1>5, <1>6 DEF Next

-----------------------------------------------------------------------------
(* The whole invariant.                                                    *)

\* The inductive invariant.
LogInv == MemInv /\ BatchInv /\ StaleInv /\ WantInv

\* At the start there are no records.
LEMMA InitLog == Init => LogInv
  <1> SUFFICES ASSUME Init PROVE LogInv
    BY Zenon
  <1>1. ThreadTypes /\ BatchInv
    BY Zenon, InitInv DEF Inv
  <1>2. \A t \in Threads : th[t] = Idle
    BY Zenon DEF Init
  <1>3. records = {} /\ acked = {} /\ list = <<>> /\ log = <<>> /\ exists = {} /\ open = 1 /\ synced = 0
    BY Zenon DEF Init
  <1>4. Idle.pc = "idle" /\ Idle.want = {} /\ Idle.pc \notin Batched \cup Writing
    BY IdleWant DEF Batched, Writing
  <1>5. GroupInv
    <2>1. MaxTxg \in Nat /\ MaxTxg > 0 /\ TXG_CONCURRENT_STATES \in Nat /\ TXG_CONCURRENT_STATES > 0
      BY ZilCommitAssumption DEF MaxTxg, Init
    <2>2. synced < open /\ open <= MaxTxg /\ open <= synced + TXG_CONCURRENT_STATES
      BY <1>3, <2>1
    <2>3. \A t \in Threads : th[t].pc \notin {"drop", "move"}
      BY <1>2, <1>4
    <2>4. cleaning \in BOOLEAN /\ exists \subseteq Objs
      BY Zenon, <1>3 DEF Init
    <2> QED BY Zenon, <2>2, <2>3, <2>4 DEF GroupInv
  <1>6. RecordInv
    BY Zenon, <1>2, <1>3, <1>4 DEF RecordInv
  <1>7. itxg \in [Slots -> SlotType] /\ \A s \in Slots : itxg[s] = Empty(0)
    <2>1. EmptyItxg = Empty(0)
      BY DEF EmptyItxg, Empty
    <2>2. Empty(0) \in SlotType
      BY EmptyType
    <2> QED BY Zenon, <2>1, <2>2 DEF Init, Slots
  <1>8. /\ <<>> \in Seq(Rec) /\ Range(<<>>) = {} /\ IsInjective(<<>>)
        /\ Empty(0).txg = 0 /\ Empty(0).sync = <<>> /\ \A o \in Objs : Empty(0).async[o] = <<>>
    BY EmptySeq, EmptyType
  <1>9. SlotInv
    BY Zenon, <1>3, <1>7, <1>8 DEF SlotInv
  <1>10. PlaceInv
    BY Zenon, <1>3 DEF PlaceInv
  <1>11. OnceInv
    BY <1>3, <1>7, <1>8 DEF OnceInv
  <1>12. OrderInv
    BY Zenon, <1>3, <1>7, <1>8, OrderedEmpty DEF OrderInv
  <1>13. StaleInv
    <2>1. DOMAIN itxg = Slots
      BY <1>7
    <2> QED BY Zenon, <1>2, <1>3, <1>4, <1>7, <1>8, <2>1 DEF StaleInv, NoStaleRecords
  <1>14. WantInv
    BY Zenon, <1>3 DEF WantInv
  <1> QED BY Zenon, <1>1, <1>5, <1>6, <1>9, <1>10, <1>11, <1>12, <1>13, <1>14 DEF LogInv, MemInv

\* Every step keeps the whole invariant.
LEMMA NextLog == LogInv /\ [Next]_vars => LogInv'
  <1> SUFFICES ASSUME LogInv, [Next]_vars PROVE LogInv'
    BY Zenon
  <1>1. ThreadTypes' /\ BatchInv'
    BY Zenon, NextInv DEF LogInv, MemInv, Inv
  <1>2. CASE Next
    <2>1. Progress /\ PlaceInv' /\ SlotInv' /\ OnceInv' /\ OrderInv'
      BY Zenon, <1>2, NextMem DEF LogInv
    <2>2. Reaches
      BY Zenon, <1>2, MoveMem, CollectMem DEF LogInv, Reaches, Next
    <2> QED BY Zenon, <1>1, <1>2, <2>1, <2>2, NextGroup, NextStale, NextWant DEF LogInv, MemInv
  <1>3. CASE UNCHANGED vars
    <2>1. /\ UNCHANGED <<workload, open, synced, cleaning, exists, itxg, dropped, list, com_batch, th, log, ops>>
          /\ UNCHANGED <<records, acked>>
      BY Zenon, <1>3 DEF vars, groupVars, itxVars, batchVars
    <2>2. PlaceInv' /\ SlotInv' /\ OnceInv' /\ OrderInv'
      BY Zenon, <2>1, OtherMem DEF LogInv
    <2>3. GroupInv' /\ RecordInv'
      BY Zenon, <2>1 DEF LogInv, MemInv, GroupInv, RecordInv, Ztest, MaxTxg
    <2>4. StaleInv'
      <3>1. workload' = workload /\ itxg' = itxg /\ synced' = synced /\ records' = records /\ th' = th
        BY Zenon, <2>1
      <3>2. NoStaleRecords' <=> NoStaleRecords
        BY <3>1 DEF NoStaleRecords, Ztest
      <3> QED BY <3>1, <3>2 DEF LogInv, StaleInv, Ztest
    <2>5. WantInv'
      BY Zenon, <2>1 DEF LogInv, WantInv, Ztest, Logged, Listed, Stored, InSync
    <2> QED BY Zenon, <1>1, <2>2, <2>3, <2>4, <2>5 DEF LogInv, MemInv
  <1> QED BY Zenon, <1>2, <1>3

\* zil.c:1577-1579, for ztest: when zil_commit() returns, every record that it is
\* for is in the log, or its group is on disk, or it was dropped with its own
\* object, for any number of threads, objects, groups and records.
THEOREM CommitsAreStable == Spec => [](Ztest => CommittedIsStable)
  <1>1. LogInv => (Ztest => CommittedIsStable)
    BY Zenon DEF LogInv, WantInv, CommittedIsStable, Logged
  <1> QED BY <1>1, InitLog, NextLog, PTL DEF Spec

\* Threads that move and collect the records of the same slots write no record
\* twice, and records, groups and threads keep their types.
THEOREM RecordsAreLoggedOnce == Spec => []LoggedOnce
  <1>1. LogInv => LoggedOnce
    <2> SUFFICES ASSUME LogInv PROVE LoggedOnce
      BY Zenon
    <2>1. open \in 1 .. MaxTxg /\ synced \in 0 .. open - 1
      <3>1. MaxTxg \in Nat
        BY ZilCommitAssumption DEF MaxTxg, LogInv, MemInv, ThreadTypes
      <3> QED BY <3>1 DEF LogInv, MemInv, GroupInv, ThreadTypes
    <2>2. cleaning \in BOOLEAN /\ exists \subseteq Objs /\ writer \in BOOLEAN
      BY Zenon DEF LogInv, MemInv, GroupInv, BatchInv
    <2>3. DOMAIN itxg = Slots
      BY DEF LogInv, MemInv, SlotInv
    <2>4. (\A s \in Slots : itxg[s].txg # 0 => itxg[s].txg % TXG_SIZE = s) /\ Range(log) \cup Range(list) \subseteq records
      BY Zenon DEF LogInv, MemInv, SlotInv
    <2>5. \A t \in Threads :
            th[t].pc \in {"idle", "drop", "move", "tosync", "waiting", "woken", "collect", "written"}
      BY DEF LogInv, MemInv, ThreadTypes, ThreadType, Batched, Writing
    <2> QED BY Zenon, <2>1, <2>2, <2>3, <2>4, <2>5 DEF LoggedOnce, TypeOK, LogInv, MemInv, OnceInv
  <1> QED BY <1>1, InitLog, NextLog, PTL DEF Spec

\* The log of an object can be replayed: for ztest no record from before a
\* removal is left for a new object with the number, and the record that creates
\* an object comes before the others of its group.
THEOREM ObjectsCanBeReplayed == Spec => []ObjectsReplay
  <1>1. LogInv => ObjectsReplay
    <2> SUFFICES ASSUME LogInv PROVE ObjectsReplay
      BY Zenon
    <2>1. NoStaleRecords
      BY Zenon DEF LogInv, StaleInv, NoStaleRecords
    <2>2. ASSUME NEW i \in DOMAIN log, NEW c \in records, c.kind = "create", c.obj = log[i].obj,
                 c.id < log[i].id, c.txg = log[i].txg
          PROVE  Before(c, i)
      <3>1. c.txg <= synced \/ c \in Creates
        <4>1. c.txg \in Nat /\ synced \in Nat
          BY DEF LogInv, MemInv, RecordInv, Rec, ThreadTypes
        <4>2. c.txg <= synced \/ c.txg > synced
          BY <4>1
        <4> QED BY Zenon, <2>2, <4>2 DEF Creates
      <3> QED BY Zenon, <2>2, <3>1 DEF Before, LogInv, MemInv, OrderInv, Ordered
    <2> QED BY Zenon, <2>1, <2>2 DEF ObjectsReplay, CreateFirstInGroup
  <1> QED BY <1>1, InitLog, NextLog, PTL DEF Spec
=============================================================================
