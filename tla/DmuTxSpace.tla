----------------------------- MODULE DmuTxSpace -----------------------------
(***************************************************************************)
(* Proofs about the space reservations of module DmuTx: they end before    *)
(* their group is written, and they keep the file systems within their     *)
(* quotas, for any number of transactions of any size.                     *)
(***************************************************************************)
EXTENDS DmuTxProofs, FiniteSetTheorems

GroupInv == IInv /\ PipeInv

SpaceInv == GroupInv /\ DoneBefore /\ PoolInv /\ DirInv /\ WriteInv /\ QuotaInv

-----------------------------------------------------------------------------
(* Sums of sizes.                                                          *)

\* The units of one transaction.
LEMMA Product ==
    ASSUME NEW t, NEW n \in Nat
    PROVE  IsFiniteSet({t} \X (1 .. n)) /\ Cardinality({t} \X (1 .. n)) = n
  <1>1. IsFiniteSet({t}) /\ Cardinality({t}) = 1
    BY Zenon, FS_Singleton
  <1>2. IsFiniteSet(1 .. n)
    BY FS_Interval
  <1>3. Cardinality(1 .. n) = IF 1 > n THEN 0 ELSE n - 1 + 1
    BY FS_Interval
  <1>4. Cardinality(1 .. n) = n
    BY <1>3
  <1>5. IsFiniteSet({t} \X (1 .. n)) /\ Cardinality({t} \X (1 .. n)) = Cardinality({t}) * Cardinality(1 .. n)
    BY Zenon, <1>1, <1>2, FS_Product
  <1> QED
    BY <1>1, <1>4, <1>5

\* Finitely many of them have finitely many units.
LEMMA UnionFinite ==
    ASSUME NEW ts, IsFiniteSet(ts), NEW n \in [ts -> Nat]
    PROVE  IsFiniteSet(UNION {{t} \X (1 .. n[t]) : t \in ts})
  <1> DEFINE f == [t \in ts |-> {t} \X (1 .. n[t])]
             parts == {{t} \X (1 .. n[t]) : t \in ts}
  <1>1. f \in Surjection(ts, parts)
    BY Zenon DEF Surjection
  <1>2. IsFiniteSet(parts)
    BY Zenon, <1>1, FS_Surjection
  <1>3. ASSUME NEW t \in ts PROVE IsFiniteSet({t} \X (1 .. n[t]))
    BY Zenon, Product
  <1>4. \A T \in parts : IsFiniteSet(T)
    BY Zenon, <1>3
  <1> HIDE DEF parts
  <1>5. IsFiniteSet(UNION parts)
    BY Zenon, <1>2, <1>4, FS_UNION
  <1> QED
    BY Zenon, <1>5 DEF parts

\* The units of transactions of the cast are finitely many.
LEMMA UnitsFinite ==
    ASSUME NEW cs \in Casts, NEW ts, ts \subseteq DOMAIN cs.tx
    PROVE  IsFiniteSet(Units(cs.tx, ts)) /\ Size(cs.tx, ts) \in Nat
  <1> DEFINE n == [t \in ts |-> cs.tx[t].asize]
  <1>1. IsFiniteSet(ts)
    BY Zenon, DmuTxAssumption, FS_Subset
  <1>2. n \in [ts -> Nat] /\ \A t \in ts : n[t] = cs.tx[t].asize
    <2>1. \A t \in ts : cs.tx[t].asize \in Nat
      BY Zenon, DmuTxAssumption
    <2> QED
      BY Zenon, <2>1
  <1> HIDE DEF n
  <1>3. Units(cs.tx, ts) = UNION {{t} \X (1 .. n[t]) : t \in ts}
    <2>1. {{t} \X (1 .. n[t]) : t \in ts} = {{t} \X (1 .. cs.tx[t].asize) : t \in ts}
      BY Zenon, <1>2
    <2> QED
      BY Zenon, <2>1 DEF Units
  <1>4. IsFiniteSet(Units(cs.tx, ts))
    <2>1. n \in [ts -> Nat]
      BY Zenon, <1>2
    <2>2. IsFiniteSet(UNION {{t} \X (1 .. n[t]) : t \in ts})
      BY Zenon, <1>1, <2>1, UnionFinite
    <2> QED
      BY Zenon, <1>3, <2>2
  <1> QED
    BY Zenon, <1>4, FS_CardinalityType DEF Size

\* Disjoint sets add up.
LEMMA SizeUnion ==
    ASSUME NEW cs \in Casts, NEW S, NEW T, S \subseteq DOMAIN cs.tx, T \subseteq DOMAIN cs.tx
    PROVE  /\ Size(cs.tx, S \cup T) <= Size(cs.tx, S) + Size(cs.tx, T)
           /\ S \cap T = {} => Size(cs.tx, S \cup T) = Size(cs.tx, S) + Size(cs.tx, T)
  <1>1. /\ IsFiniteSet(Units(cs.tx, S)) /\ IsFiniteSet(Units(cs.tx, T))
        /\ Size(cs.tx, S) \in Nat /\ Size(cs.tx, T) \in Nat
    BY Zenon, UnitsFinite
  <1>2. Units(cs.tx, S \cup T) = Units(cs.tx, S) \cup Units(cs.tx, T)
    BY Zenon DEF Units
  <1>3. Size(cs.tx, S \cup T) = Size(cs.tx, S) + Size(cs.tx, T) - Cardinality(Units(cs.tx, S) \cap Units(cs.tx, T))
    BY Zenon, <1>1, <1>2, FS_Union DEF Size
  <1>4. Cardinality(Units(cs.tx, S) \cap Units(cs.tx, T)) \in Nat
    BY Zenon, <1>1, FS_Intersection, FS_CardinalityType
  <1>5. S \cap T = {} => Units(cs.tx, S) \cap Units(cs.tx, T) = {}
    BY DEF Units
  <1>6. S \cap T = {} => Cardinality(Units(cs.tx, S) \cap Units(cs.tx, T)) = 0
    BY Zenon, <1>5, FS_EmptySet
  <1> QED
    BY <1>1, <1>3, <1>4, <1>6

\* Four sets.
LEMMA SizeFour ==
    ASSUME NEW cs \in Casts, NEW S, NEW T, NEW U, NEW V, S \subseteq DOMAIN cs.tx,
           T \subseteq DOMAIN cs.tx, U \subseteq DOMAIN cs.tx, V \subseteq DOMAIN cs.tx
    PROVE  Size(cs.tx, (S \cup T) \cup (U \cup V)) <=
             Size(cs.tx, S) + Size(cs.tx, T) + Size(cs.tx, U) + Size(cs.tx, V)
  <1>1. S \cup T \subseteq DOMAIN cs.tx /\ U \cup V \subseteq DOMAIN cs.tx
    BY Zenon
  <1>2. (S \cup T) \cup (U \cup V) \subseteq DOMAIN cs.tx
    BY Zenon
  <1>3. /\ Size(cs.tx, S \cup T) <= Size(cs.tx, S) + Size(cs.tx, T)
        /\ Size(cs.tx, U \cup V) <= Size(cs.tx, U) + Size(cs.tx, V)
        /\ Size(cs.tx, (S \cup T) \cup (U \cup V)) <= Size(cs.tx, S \cup T) + Size(cs.tx, U \cup V)
    BY Zenon, <1>1, SizeUnion
  <1>4. /\ Size(cs.tx, S) \in Nat /\ Size(cs.tx, T) \in Nat /\ Size(cs.tx, U) \in Nat
        /\ Size(cs.tx, V) \in Nat /\ Size(cs.tx, S \cup T) \in Nat /\ Size(cs.tx, U \cup V) \in Nat
        /\ Size(cs.tx, (S \cup T) \cup (U \cup V)) \in Nat
    BY Zenon, <1>1, <1>2, UnitsFinite
  <1> QED
    BY <1>3, <1>4

\* One transaction.
LEMMA SizeOne ==
    ASSUME NEW cs \in Casts, NEW t \in DOMAIN cs.tx
    PROVE  Size(cs.tx, {t}) = cs.tx[t].asize /\ cs.tx[t].asize \in Nat
  <1>1. cs.tx[t].asize \in Nat
    BY Zenon, DmuTxAssumption
  <1>2. Units(cs.tx, {t}) = {t} \X (1 .. cs.tx[t].asize)
    <2>1. {{u} \X (1 .. cs.tx[u].asize) : u \in {t}} = {{t} \X (1 .. cs.tx[t].asize)}
      BY Zenon
    <2> QED
      BY Zenon, <2>1 DEF Units
  <1> QED
    BY Zenon, <1>1, <1>2, Product DEF Size

\* A transaction more.
LEMMA SizeAdd ==
    ASSUME NEW cs \in Casts, NEW S, S \subseteq DOMAIN cs.tx, NEW t \in DOMAIN cs.tx, t \notin S
    PROVE  Size(cs.tx, S \cup {t}) = Size(cs.tx, S) + cs.tx[t].asize
  <1>1. {t} \subseteq DOMAIN cs.tx /\ S \cap {t} = {}
    BY Zenon
  <1>2. Size(cs.tx, S \cup {t}) = Size(cs.tx, S) + Size(cs.tx, {t})
    BY Zenon, <1>1, SizeUnion
  <1> QED
    BY Zenon, <1>2, SizeOne

\* A transaction less.
LEMMA SizeRemove ==
    ASSUME NEW cs \in Casts, NEW S, S \subseteq DOMAIN cs.tx, NEW t \in S
    PROVE  Size(cs.tx, S \ {t}) = Size(cs.tx, S) - cs.tx[t].asize /\ cs.tx[t].asize \in Nat /\ Size(cs.tx, S) \in Nat
                        /\ Size(cs.tx, S \ {t}) \in Nat
  <1>1. S = (S \ {t}) \cup {t} /\ S \ {t} \subseteq DOMAIN cs.tx /\ t \notin S \ {t}
    BY Zenon
  <1>2. Size(cs.tx, (S \ {t}) \cup {t}) = Size(cs.tx, S \ {t}) + cs.tx[t].asize
    BY Zenon, <1>1, SizeAdd
  <1>3. Size(cs.tx, S) = Size(cs.tx, S \ {t}) + cs.tx[t].asize
    BY Zenon, <1>1, <1>2
  <1>4. Size(cs.tx, S \ {t}) \in Nat /\ Size(cs.tx, S) \in Nat /\ cs.tx[t].asize \in Nat
    BY Zenon, <1>1, UnitsFinite, SizeOne
  <1> QED
    BY <1>3, <1>4

\* Fewer transactions, less space.
LEMMA SizeSubset ==
    ASSUME NEW cs \in Casts, NEW S, NEW T, S \subseteq T, T \subseteq DOMAIN cs.tx
    PROVE  Size(cs.tx, S) <= Size(cs.tx, T)
  <1>1. IsFiniteSet(Units(cs.tx, T)) /\ Units(cs.tx, S) \subseteq Units(cs.tx, T)
    BY Zenon, UnitsFinite DEF Units
  <1> QED
    BY Zenon, <1>1, FS_Subset DEF Size

\* No transaction.
LEMMA SizeEmpty == ASSUME NEW tx PROVE Size(tx, {}) = 0
  BY Zenon, FS_EmptySet DEF Size, Units

-----------------------------------------------------------------------------
(* Who is counted is in the cast.                                          *)

\* The sets behind the counters are sets of transactions of the cast.
LEMMA Members ==
    ASSUME IInv
    PROVE  /\ cast \in Casts
           /\ \A g : PoolReservers(g) \subseteq DOMAIN cast.tx
           /\ \A d, g : DirReservers(d, g) \subseteq DOMAIN cast.tx
           /\ \A d, g : Writers(d, g) \subseteq DOMAIN cast.tx
           /\ \A d : /\ Admitted(d) \subseteq DOMAIN cast.tx
                     /\ Uncharged(d) \subseteq DOMAIN cast.tx
                     /\ Exempt(d) \subseteq DOMAIN cast.tx
  <1>1. \A t \in Txs : pc[t] # "failed" => t \in DOMAIN cast.tx
    BY Zenon DEF IInv, TxInv
  <1>2. \A d : "failed" \notin InPool \cup InDir(d) \cup Dirty \cup LetIn
    BY Zenon DEF InPool, InDir, Dirty, LetIn
  <1> QED
    BY <1>1, <1>2 DEF IInv, TypeOK, PoolReservers, DirReservers, Writers, Admitted, Uncharged, Exempt

\* What a group gives back is a number of units.
LEMMA FreedType == ASSUME IInv, NEW g, NEW d PROVE Freed(g, d) \in Nat
  <1> DEFINE from == {t \in InGroup(g, d) : ds_prev_snap_txg[op(t).dir] = 0}
             n == [t \in from |-> op(t).frees]
  <1>1. cast \in Casts /\ from \subseteq DOMAIN cast.tx
    BY Zenon DEF IInv, TypeOK, TxInv, InGroup
  <1>2. IsFiniteSet(from)
    BY Zenon, <1>1, DmuTxAssumption, FS_Subset
  <1>3. n \in [from -> Nat] /\ \A t \in from : n[t] = op(t).frees
    <2>1. \A t \in from : op(t).frees \in Nat
      BY Zenon, <1>1, DmuTxAssumption DEF op
    <2> QED
      BY Zenon, <2>1
  <1>4. Freed(g, d) = Cardinality(UNION {{t} \X (1 .. op(t).frees) : t \in from})
    BY Zenon DEF Freed
  <1> HIDE DEF n, from
  <1>5. {{t} \X (1 .. n[t]) : t \in from} = {{t} \X (1 .. op(t).frees) : t \in from}
    BY Zenon, <1>3
  <1>6. n \in [from -> Nat]
    BY Zenon, <1>3
  <1>7. IsFiniteSet(UNION {{t} \X (1 .. n[t]) : t \in from})
    BY Zenon, <1>2, <1>6, UnionFinite
  <1>8. IsFiniteSet(UNION {{t} \X (1 .. op(t).frees) : t \in from})
    BY Zenon, <1>5, <1>7
  <1> QED
    BY Zenon, <1>4, <1>8, FS_CardinalityType

-----------------------------------------------------------------------------
(* What a step does to each counter.                                       *)

\* Nobody reserves in the pool or stops to.
LEMMA PoolKeep ==
    ASSUME PoolInv, UNCHANGED <<cast, dp_tempreserved>>,
           \A u \in Txs : /\ pc'[u] \in InPool <=> pc[u] \in InPool
                          /\ pc[u] \in InPool => tx_txg'[u] = tx_txg[u]
    PROVE  PoolInv'
  <1>1. \A g \in Slots : PoolReservers(g)' = PoolReservers(g)
    BY Zenon DEF PoolReservers
  <1>2. \A g \in Slots : Size(cast.tx, PoolReservers(g))' = Size(cast.tx, PoolReservers(g))
    BY Zenon, <1>1
  <1> QED
    BY Zenon, <1>2 DEF PoolInv

\* t reserves in the pool.
LEMMA PoolAdd ==
    ASSUME IInv, PoolInv, NEW t \in DOMAIN cast.tx, UNCHANGED <<cast, tx_txg>>,
           t \in Txs, pc[t] \notin InPool, pc'[t] \in InPool,
           \A u \in Txs \ {t} : pc'[u] = pc[u],
           dp_tempreserved' = [dp_tempreserved EXCEPT ![Slot(tx_txg[t])] = @ + op(t).asize]
    PROVE  PoolInv'
  <1> DEFINE h == Slot(tx_txg[t])
  <1>1. h \in Slots /\ op(t).asize \in Nat
    BY Zenon, SlotType, SizeOne, Members DEF IInv, TypeOK, op
  <1>2. \A g \in Slots : PoolReservers(g)' = IF g = h THEN PoolReservers(g) \cup {t} ELSE PoolReservers(g)
    BY DEF PoolReservers
  <1>3. t \notin PoolReservers(h)
    BY Zenon DEF PoolReservers
  <1>4. Size(cast.tx, PoolReservers(h) \cup {t}) = Size(cast.tx, PoolReservers(h)) + op(t).asize
    BY Zenon, <1>3, SizeAdd, Members DEF op
  <1>5. \A g \in Slots : Size(cast.tx, PoolReservers(g))' =
          IF g = h THEN Size(cast.tx, PoolReservers(g) \cup {t}) ELSE Size(cast.tx, PoolReservers(g))
    BY Zenon, <1>2
  <1> HIDE DEF h
  <1>6. dp_tempreserved' = [dp_tempreserved EXCEPT ![h] = dp_tempreserved[h] + op(t).asize]
    BY Zenon DEF h
  <1>7. /\ dp_tempreserved' \in [Slots -> Nat]
        /\ \A g \in Slots : dp_tempreserved'[g] =
             IF g = h THEN dp_tempreserved[g] + op(t).asize ELSE dp_tempreserved[g]
    <2>1. dp_tempreserved \in [Slots -> Nat] /\ dp_tempreserved[h] + op(t).asize \in Nat
      BY <1>1 DEF PoolInv
    <2> QED
      BY Zenon, <1>1, <1>6, <2>1
  <1>8. \A g \in Slots : dp_tempreserved[g] = Size(cast.tx, PoolReservers(g))
    BY Zenon DEF PoolInv
  <1>9. ASSUME NEW g \in Slots PROVE dp_tempreserved'[g] = Size(cast.tx, PoolReservers(g))'
    <2>1. CASE g = h
      BY Zenon, <1>4, <1>5, <1>7, <1>8, <2>1
    <2>2. CASE g # h
      BY Zenon, <1>5, <1>7, <1>8, <2>2
    <2> QED
      BY Zenon, <2>1, <2>2
  <1> QED
    BY Zenon, <1>7, <1>9 DEF PoolInv

\* t stops to.
LEMMA PoolDrop ==
    ASSUME IInv, PoolInv, NEW t \in DOMAIN cast.tx, UNCHANGED <<cast, tx_txg>>,
           t \in Txs, pc[t] \in InPool, pc'[t] \notin InPool,
           \A u \in Txs \ {t} : pc'[u] = pc[u],
           dp_tempreserved' = [dp_tempreserved EXCEPT ![Slot(tx_txg[t])] = @ - op(t).asize]
    PROVE  PoolInv'
  <1> DEFINE h == Slot(tx_txg[t])
  <1>1. h \in Slots
    BY Zenon, SlotType DEF IInv, TypeOK
  <1>2. \A g \in Slots : PoolReservers(g)' = IF g = h THEN PoolReservers(g) \ {t} ELSE PoolReservers(g)
    BY DEF PoolReservers
  <1>3. t \in PoolReservers(h)
    BY Zenon DEF PoolReservers
  <1>4. /\ Size(cast.tx, PoolReservers(h) \ {t}) = Size(cast.tx, PoolReservers(h)) - op(t).asize
        /\ Size(cast.tx, PoolReservers(h) \ {t}) \in Nat
    BY Zenon, <1>3, SizeRemove, Members DEF op
  <1>5. \A g \in Slots : Size(cast.tx, PoolReservers(g))' =
          IF g = h THEN Size(cast.tx, PoolReservers(g) \ {t}) ELSE Size(cast.tx, PoolReservers(g))
    BY Zenon, <1>2
  <1> HIDE DEF h
  <1>6. dp_tempreserved' = [dp_tempreserved EXCEPT ![h] = dp_tempreserved[h] - op(t).asize]
    BY Zenon DEF h
  <1>7. \A g \in Slots : dp_tempreserved[g] = Size(cast.tx, PoolReservers(g))
    BY Zenon DEF PoolInv
  <1>8. /\ dp_tempreserved' \in [Slots -> Nat]
        /\ \A g \in Slots : dp_tempreserved'[g] =
             IF g = h THEN dp_tempreserved[g] - op(t).asize ELSE dp_tempreserved[g]
    <2>1. dp_tempreserved \in [Slots -> Nat]
      BY Zenon DEF PoolInv
    <2>2. dp_tempreserved[h] - op(t).asize \in Nat
      BY Zenon, <1>1, <1>4, <1>7
    <2> QED
      BY Zenon, <1>1, <1>6, <2>1, <2>2
  <1>9. ASSUME NEW g \in Slots PROVE dp_tempreserved'[g] = Size(cast.tx, PoolReservers(g))'
    <2>1. CASE g = h
      BY Zenon, <1>4, <1>5, <1>7, <1>8, <2>1
    <2>2. CASE g # h
      BY Zenon, <1>5, <1>7, <1>8, <2>2
    <2> QED
      BY Zenon, <2>1, <2>2
  <1> QED
    BY Zenon, <1>8, <1>9 DEF PoolInv

\* Nobody reserves in a directory or stops to.
LEMMA DirKeep ==
    ASSUME DirInv, UNCHANGED <<cast, dd_tempreserved>>,
           \A u \in Txs : \A d \in AllDirs :
             /\ pc'[u] \in InDir(d) <=> pc[u] \in InDir(d)
             /\ pc[u] \in InDir(d) => tx_txg'[u] = tx_txg[u]
    PROVE  DirInv'
  <1>1. \A d \in AllDirs, g \in Slots : DirReservers(d, g)' = DirReservers(d, g)
    BY Zenon DEF DirReservers, op
  <1>2. \A d \in AllDirs, g \in Slots : Size(cast.tx, DirReservers(d, g))' = Size(cast.tx, DirReservers(d, g))
    BY Zenon, <1>1
  <1> QED
    BY Zenon, <1>2 DEF DirInv

\* t reserves in the directory e.
LEMMA DirAdd ==
    ASSUME IInv, DirInv, NEW t \in DOMAIN cast.tx, UNCHANGED <<cast, tx_txg>>,
           t \in Txs, NEW e \in AllDirs, e \in Ancestry(op(t).dir),
           pc[t] \notin InDir(e), pc'[t] \in InDir(e),
           \A d \in AllDirs \ {e} :
              d \in Ancestry(op(t).dir) => (pc'[t] \in InDir(d) <=> pc[t] \in InDir(d)),
           \A u \in Txs \ {t} : pc'[u] = pc[u],
           dd_tempreserved' = [dd_tempreserved EXCEPT ![e][Slot(tx_txg[t])] = @ + op(t).asize]
    PROVE  DirInv'
  <1> DEFINE h == Slot(tx_txg[t])
  <1>1. h \in Slots /\ op(t).asize \in Nat
    BY Zenon, SlotType, SizeOne, Members DEF IInv, TypeOK, op
  <1>2. \A d \in AllDirs, g \in Slots : DirReservers(d, g)' =
          IF d = e /\ g = h THEN DirReservers(d, g) \cup {t} ELSE DirReservers(d, g)
    <2> TAKE d \in AllDirs, g \in Slots
    <2>1. CASE d = e
      BY <2>1 DEF DirReservers, op
    <2>2. CASE d # e
      BY <2>2 DEF DirReservers, op
    <2> QED
      BY Zenon, <2>1, <2>2
  <1>3. t \notin DirReservers(e, h)
    BY Zenon DEF DirReservers
  <1>4. Size(cast.tx, DirReservers(e, h) \cup {t}) = Size(cast.tx, DirReservers(e, h)) + op(t).asize
    BY Zenon, <1>3, SizeAdd, Members DEF op
  <1>5. \A d \in AllDirs, g \in Slots : Size(cast.tx, DirReservers(d, g))' =
          IF d = e /\ g = h THEN Size(cast.tx, DirReservers(d, g) \cup {t}) ELSE Size(cast.tx, DirReservers(d, g))
    BY Zenon, <1>2
  <1> HIDE DEF h
  <1>6. dd_tempreserved' = [dd_tempreserved EXCEPT ![e] =
                              [dd_tempreserved[e] EXCEPT ![h] = dd_tempreserved[e][h] + op(t).asize]]
    BY Zenon DEF h, DirInv
  <1>7. dd_tempreserved' \in [AllDirs -> [Slots -> Nat]]
    <2>1. [dd_tempreserved[e] EXCEPT ![h] = dd_tempreserved[e][h] + op(t).asize] \in [Slots -> Nat]
      BY <1>1 DEF DirInv
    <2> QED
      BY Zenon, <1>6, <2>1 DEF DirInv
  <1>8. \A d \in AllDirs, g \in Slots : dd_tempreserved'[d][g] =
          IF d = e /\ g = h THEN dd_tempreserved[d][g] + op(t).asize ELSE dd_tempreserved[d][g]
    BY <1>1, <1>6 DEF DirInv
  <1>9. ASSUME NEW d \in AllDirs, NEW g \in Slots
        PROVE  dd_tempreserved'[d][g] = Size(cast.tx, DirReservers(d, g))'
    <2>1. dd_tempreserved[d][g] = Size(cast.tx, DirReservers(d, g))
      BY Zenon DEF DirInv
    <2>2. CASE d = e /\ g = h
      BY <1>4, <1>5, <1>8, <2>1, <2>2
    <2>3. CASE ~(d = e /\ g = h)
      BY <1>5, <1>8, <2>1, <2>3
    <2> QED
      BY Zenon, <2>2, <2>3
  <1> QED
    BY Zenon, <1>7, <1>9 DEF DirInv

\* t stops to.
LEMMA DirDrop ==
    ASSUME IInv, DirInv, NEW t \in DOMAIN cast.tx, UNCHANGED <<cast, tx_txg>>,
           t \in Txs, NEW e \in AllDirs, e \in Ancestry(op(t).dir),
           pc[t] \in InDir(e), pc'[t] \notin InDir(e),
           \A d \in AllDirs \ {e} :
              d \in Ancestry(op(t).dir) => (pc'[t] \in InDir(d) <=> pc[t] \in InDir(d)),
           \A u \in Txs \ {t} : pc'[u] = pc[u],
           dd_tempreserved' = [dd_tempreserved EXCEPT ![e][Slot(tx_txg[t])] = @ - op(t).asize]
    PROVE  DirInv'
  <1> DEFINE h == Slot(tx_txg[t])
  <1>1. h \in Slots
    BY Zenon, SlotType DEF IInv, TypeOK
  <1>2. \A d \in AllDirs, g \in Slots : DirReservers(d, g)' =
          IF d = e /\ g = h THEN DirReservers(d, g) \ {t} ELSE DirReservers(d, g)
    <2> TAKE d \in AllDirs, g \in Slots
    <2>1. CASE d = e
      BY <2>1 DEF DirReservers, op
    <2>2. CASE d # e
      BY <2>2 DEF DirReservers, op
    <2> QED
      BY Zenon, <2>1, <2>2
  <1>3. t \in DirReservers(e, h)
    BY Zenon DEF DirReservers
  <1>4. /\ Size(cast.tx, DirReservers(e, h) \ {t}) = Size(cast.tx, DirReservers(e, h)) - op(t).asize
        /\ Size(cast.tx, DirReservers(e, h) \ {t}) \in Nat
    BY Zenon, <1>3, SizeRemove, Members DEF op
  <1>5. \A d \in AllDirs, g \in Slots : Size(cast.tx, DirReservers(d, g))' =
          IF d = e /\ g = h THEN Size(cast.tx, DirReservers(d, g) \ {t}) ELSE Size(cast.tx, DirReservers(d, g))
    BY Zenon, <1>2
  <1> HIDE DEF h
  <1>6. dd_tempreserved' = [dd_tempreserved EXCEPT ![e] =
                              [dd_tempreserved[e] EXCEPT ![h] = dd_tempreserved[e][h] - op(t).asize]]
    BY Zenon DEF h, DirInv
  <1>7. dd_tempreserved[e][h] - op(t).asize \in Nat
    BY Zenon, <1>1, <1>4 DEF DirInv
  <1>8. dd_tempreserved' \in [AllDirs -> [Slots -> Nat]]
    <2>1. [dd_tempreserved[e] EXCEPT ![h] = dd_tempreserved[e][h] - op(t).asize] \in [Slots -> Nat]
      BY Zenon, <1>1, <1>7 DEF DirInv
    <2> QED
      BY Zenon, <1>6, <2>1 DEF DirInv
  <1>9. \A d \in AllDirs, g \in Slots : dd_tempreserved'[d][g] =
          IF d = e /\ g = h THEN dd_tempreserved[d][g] - op(t).asize ELSE dd_tempreserved[d][g]
    BY <1>1, <1>6 DEF DirInv
  <1>10. ASSUME NEW d \in AllDirs, NEW g \in Slots
         PROVE  dd_tempreserved'[d][g] = Size(cast.tx, DirReservers(d, g))'
    <2>1. dd_tempreserved[d][g] = Size(cast.tx, DirReservers(d, g))
      BY Zenon DEF DirInv
    <2>2. CASE d = e /\ g = h
      BY <1>4, <1>5, <1>9, <2>1, <2>2
    <2>3. CASE ~(d = e /\ g = h)
      BY Zenon, <1>5, <1>9, <2>1, <2>3
    <2> QED
      BY Zenon, <2>2, <2>3
  <1> QED
    BY Zenon, <1>8, <1>10 DEF DirInv

\* Nobody dirties a directory, and no estimate is cleared.
LEMMA WriteKeep ==
    ASSUME WriteInv, UNCHANGED <<cast, dd_space_towrite>>, Cleared' = Cleared,
           \A u \in Txs : /\ pc'[u] \in Dirty <=> pc[u] \in Dirty
                          /\ pc[u] \in Dirty => tx_txg'[u] = tx_txg[u]
    PROVE  WriteInv'
  <1>1. \A d \in AllDirs, g \in Slots : Writers(d, g)' = Writers(d, g)
    BY Zenon DEF Writers, op
  <1>2. \A d \in AllDirs, g \in Slots : Size(cast.tx, Writers(d, g))' = Size(cast.tx, Writers(d, g))
    BY Zenon, <1>1
  <1> QED
    BY Zenon, <1>2 DEF WriteInv

\* dsl_dir_willuse_space()
LEMMA WriteAdd ==
    ASSUME GroupInv, WriteInv, NEW t \in Txs, WillUse(t)
    PROVE  WriteInv'
  <1> DEFINE h == Slot(tx_txg[t])
             up == Ancestry(op(t).dir)
  <1>1. /\ UNCHANGED <<cast, tx_txg>> /\ pc[t] = "assigned" /\ pc'[t] = "commit"
        /\ \A u \in Txs \ {t} : pc'[u] = pc[u]
        /\ Cleared' = Cleared
    BY Zenon DEF WillUse, Goto, GroupInv, IInv, TypeOK, Cleared, pipeVars
  <1>2. t \in DOMAIN cast.tx /\ IInv /\ cast \in Casts
    BY Zenon, <1>1 DEF GroupInv, IInv, TypeOK, TxInv
  <1>3. h \in Slots /\ op(t).asize \in Nat
    BY Zenon, <1>2, SlotType, SizeOne DEF IInv, TypeOK, op
  <1>4. tx_txg[t] > Cleared
    <2>1. tx_txg[t] \in Nat /\ tx_txg[t] > Through
      BY Zenon, <1>1, InsideIsLater DEF GroupInv, Inside
    <2>2. Through \in Nat /\ Cleared \in Nat /\ Cleared <= Through
      BY DEF GroupInv, PipeInv, Through, Cleared
    <2> QED
      BY <2>1, <2>2
  <1>5. \A d \in AllDirs, g \in Slots : Writers(d, g)' =
          IF d \in up /\ g = h THEN Writers(d, g) \cup {t} ELSE Writers(d, g)
    BY <1>1, <1>4 DEF Writers, op, Dirty
  <1>6. \A d \in AllDirs : t \notin Writers(d, h)
    BY Zenon, <1>1 DEF Writers, Dirty
  <1>7. \A d \in AllDirs : Size(cast.tx, Writers(d, h) \cup {t}) = Size(cast.tx, Writers(d, h)) + op(t).asize
    BY Zenon, <1>2, <1>6, SizeAdd, Members DEF op
  <1>8. \A d \in AllDirs, g \in Slots : Size(cast.tx, Writers(d, g))' =
          IF d \in up /\ g = h THEN Size(cast.tx, Writers(d, g) \cup {t}) ELSE Size(cast.tx, Writers(d, g))
    BY Zenon, <1>1, <1>5
  <1>9. dd_space_towrite' = [d \in AllDirs |-> IF d \in up
          THEN [dd_space_towrite[d] EXCEPT ![h] = dd_space_towrite[d][h] + op(t).asize]
          ELSE dd_space_towrite[d]]
    BY Zenon DEF WillUse
  <1> HIDE DEF h, up
  <1>10. ASSUME NEW d \in AllDirs
         PROVE  /\ dd_space_towrite'[d] \in [Slots -> Nat]
                /\ \A g \in Slots : dd_space_towrite'[d][g] =
                     IF d \in up /\ g = h THEN dd_space_towrite[d][g] + op(t).asize ELSE dd_space_towrite[d][g]
    <2>1. dd_space_towrite[d] \in [Slots -> Nat] /\ dd_space_towrite[d][h] + op(t).asize \in Nat
      BY <1>3 DEF WriteInv
    <2>2. CASE d \in up
      <3>1. dd_space_towrite'[d] = [dd_space_towrite[d] EXCEPT ![h] = dd_space_towrite[d][h] + op(t).asize]
        BY Zenon, <1>9, <2>2
      <3> QED
        BY Zenon, <1>3, <2>1, <2>2, <3>1
    <2>3. CASE d \notin up
      BY Zenon, <1>9, <2>1, <2>3
    <2> QED
      BY Zenon, <2>2, <2>3
  <1>11. dd_space_towrite' \in [AllDirs -> [Slots -> Nat]]
    BY Zenon, <1>9, <1>10
  <1>12. ASSUME NEW d \in AllDirs, NEW g \in Slots
         PROVE  dd_space_towrite'[d][g] = Size(cast.tx, Writers(d, g))'
    <2>1. dd_space_towrite[d][g] = Size(cast.tx, Writers(d, g))
      BY Zenon DEF WriteInv
    <2>2. CASE d \in up /\ g = h
      BY Zenon, <1>7, <1>8, <1>10, <2>1, <2>2
    <2>3. CASE ~(d \in up /\ g = h)
      BY Zenon, <1>8, <1>10, <2>1, <2>3
    <2> QED
      BY Zenon, <2>2, <2>3
  <1> QED
    BY Zenon, <1>11, <1>12 DEF WriteInv

\* dsl_dir_sync() of the syncing group: nobody else has its slot.
LEMMA WriteClear ==
    ASSUME GroupInv, DoneBefore, WriteInv, SyncDirs
    PROVE  WriteInv'
  <1> DEFINE h == Slot(tx_syncing_txg)
  <1>1. /\ UNCHANGED <<cast, pc, tx_txg, tx_syncing_txg, tx_synced_txg>> /\ phase = "dirs" /\ phase' = "tasks"
        /\ dd_space_towrite' = [d \in AllDirs |-> [dd_space_towrite[d] EXCEPT ![h] = 0]]
    BY Zenon DEF SyncDirs, txVars
  <1>2. /\ tx_syncing_txg = tx_synced_txg + 1 /\ tx_synced_txg \in Nat /\ h \in Slots
        /\ Cleared = tx_synced_txg /\ Cleared' = tx_syncing_txg
        /\ tx_open_txg \in Nat /\ tx_open_txg < tx_syncing_txg + 3
    BY <1>1, SlotType DEF GroupInv, PipeInv, IInv, TypeOK, Cleared
  <1>3. ASSUME NEW t \in Txs, pc[t] \in Dirty, tx_txg[t] > tx_synced_txg
        PROVE  tx_txg[t] \in Nat /\ (tx_txg[t] > tx_syncing_txg <=> Slot(tx_txg[t]) # h)
    <2>1. tx_txg[t] \in Nat /\ tx_txg[t] <= tx_open_txg
      BY <1>3 DEF GroupInv, DoneBefore, IInv, TypeOK, TxInv, Inside, Dirty
    <2>2. Slot(tx_txg[t]) = h => tx_txg[t] = tx_syncing_txg
      BY <1>2, <1>3, <2>1, SlotsDiffer
    <2> QED
      BY <1>2, <1>3, <2>1, <2>2
  <1>4. \A d \in AllDirs, g \in Slots : Writers(d, g)' = IF g = h THEN {} ELSE Writers(d, g)
    <2> TAKE d \in AllDirs, g \in Slots
    <2>1. \A t \in Txs : pc[t] \in Dirty /\ Slot(tx_txg[t]) = g =>
            (tx_txg[t] > tx_syncing_txg <=> (tx_txg[t] > tx_synced_txg /\ g # h))
      BY <1>2, <1>3 DEF GroupInv, IInv, TypeOK
    <2>2. Writers(d, g)' = {t \in Txs : /\ pc[t] \in Dirty /\ tx_txg[t] > tx_syncing_txg
                                         /\ d \in Ancestry(op(t).dir) /\ Slot(tx_txg[t]) = g}
      BY Zenon, <1>1, <1>2 DEF Writers, op
    <2>3. Writers(d, g) = {t \in Txs : /\ pc[t] \in Dirty /\ tx_txg[t] > tx_synced_txg
                                        /\ d \in Ancestry(op(t).dir) /\ Slot(tx_txg[t]) = g}
      BY Zenon, <1>2 DEF Writers
    <2> QED
      BY Zenon, <2>1, <2>2, <2>3
  <1>5. \A d \in AllDirs, g \in Slots : Size(cast.tx, Writers(d, g))' =
          IF g = h THEN 0 ELSE Size(cast.tx, Writers(d, g))
    BY Zenon, <1>1, <1>4, SizeEmpty
  <1> HIDE DEF h
  <1>6. ASSUME NEW d \in AllDirs
        PROVE  /\ dd_space_towrite'[d] \in [Slots -> Nat]
               /\ \A g \in Slots : dd_space_towrite'[d][g] = IF g = h THEN 0 ELSE dd_space_towrite[d][g]
    <2>1. dd_space_towrite[d] \in [Slots -> Nat] /\ dd_space_towrite'[d] = [dd_space_towrite[d] EXCEPT ![h] = 0]
      BY Zenon, <1>1 DEF WriteInv
    <2> QED
      BY <1>2, <2>1
  <1>7. dd_space_towrite' \in [AllDirs -> [Slots -> Nat]]
    BY Zenon, <1>1, <1>6
  <1>8. \A d \in AllDirs, g \in Slots : dd_space_towrite'[d][g] = Size(cast.tx, Writers(d, g))'
    BY <1>5, <1>6 DEF WriteInv
  <1> QED
    BY Zenon, <1>7, <1>8 DEF WriteInv

-----------------------------------------------------------------------------
(* What a step does to the space that is used or promised.                 *)

\* dsl_dir_space_towrite() and the reservations count everybody who was let
\* in and is not charged yet.
LEMMA InflightCovers ==
    ASSUME GroupInv, DirInv, WriteInv, NEW d \in Dirs
    PROVE  Size(cast.tx, Uncharged(d)) <= EstInflight(d) /\ EstInflight(d) \in Nat
  <1> DEFINE wr == (Writers(d, 0) \cup Writers(d, 1)) \cup (Writers(d, 2) \cup Writers(d, 3))
             re == (DirReservers(d, 0) \cup DirReservers(d, 1)) \cup (DirReservers(d, 2) \cup DirReservers(d, 3))
  <1>1. cast \in Casts /\ IInv /\ d \in AllDirs /\ d # "root"
    BY Zenon, DmuTxAssumption DEF GroupInv, IInv, TypeOK, AllDirs
  <1>2. Slots = {0, 1, 2, 3}
    BY DEF Slots, TXG_SIZE
  <1>3. ASSUME NEW t \in Uncharged(d) PROVE t \in wr \cup re
    <2>1. t \in Txs /\ pc[t] \in LetIn /\ op(t).dir = d /\ tx_txg[t] > Through /\ tx_txg[t] \in Nat
      BY Zenon DEF Uncharged, Admitted, GroupInv, IInv, TypeOK
    <2>2. Slot(tx_txg[t]) \in {0, 1, 2, 3}
      BY Zenon, <1>2, <2>1, SlotType
    <2>3. tx_txg[t] > Cleared
      <3>1. Through \in Nat /\ Cleared \in Nat /\ Cleared <= Through
        BY DEF GroupInv, PipeInv, Through, Cleared
      <3> QED
        BY <2>1, <3>1
    <2>4. CASE pc[t] \in Dirty
      <3>1. t \in Writers(d, Slot(tx_txg[t]))
        BY Zenon, <2>1, <2>3, <2>4 DEF Writers, Ancestry
      <3> QED
        BY Zenon, <2>2, <3>1
    <2>5. CASE pc[t] \in {"root", "assigned"}
      <3>1. t \in DirReservers(d, Slot(tx_txg[t]))
        BY Zenon, <1>1, <2>1, <2>5 DEF DirReservers, Ancestry, InDir
      <3> QED
        BY Zenon, <2>2, <3>1
    <2> QED
      BY Zenon, <2>1, <2>4, <2>5 DEF LetIn
  <1>4. \A g : Writers(d, g) \subseteq DOMAIN cast.tx /\ DirReservers(d, g) \subseteq DOMAIN cast.tx
    BY Zenon, <1>1, Members
  <1>5. wr \subseteq DOMAIN cast.tx /\ re \subseteq DOMAIN cast.tx /\ Uncharged(d) \subseteq wr \cup re
    BY Zenon, <1>3, <1>4
  <1>6. /\ Size(cast.tx, Uncharged(d)) \in Nat /\ Size(cast.tx, wr) \in Nat
        /\ Size(cast.tx, re) \in Nat /\ Size(cast.tx, wr \cup re) \in Nat
    <2>1. Uncharged(d) \subseteq DOMAIN cast.tx /\ wr \cup re \subseteq DOMAIN cast.tx
      BY Zenon, <1>5
    <2> QED
      BY Zenon, <1>1, <1>5, <2>1, UnitsFinite
  <1>7. Size(cast.tx, Uncharged(d)) <= Size(cast.tx, wr) + Size(cast.tx, re)
    <2>1. Size(cast.tx, Uncharged(d)) <= Size(cast.tx, wr \cup re)
      BY Zenon, <1>1, <1>5, SizeSubset
    <2>2. Size(cast.tx, wr \cup re) <= Size(cast.tx, wr) + Size(cast.tx, re)
      BY Zenon, <1>1, <1>5, SizeUnion
    <2> QED
      BY <1>6, <2>1, <2>2
  <1>8. /\ dd_space_towrite[d] \in [{0, 1, 2, 3} -> Nat]
        /\ dd_tempreserved[d] \in [{0, 1, 2, 3} -> Nat]
    BY Zenon, <1>1, <1>2 DEF WriteInv, DirInv
  <1>9. Size(cast.tx, wr) <= SumSlots(dd_space_towrite[d]) /\ SumSlots(dd_space_towrite[d]) \in Nat
    <2>1. \A g \in {0, 1, 2, 3} : dd_space_towrite[d][g] = Size(cast.tx, Writers(d, g))
      BY Zenon, <1>1, <1>2 DEF WriteInv
    <2>2. Size(cast.tx, wr) <= Size(cast.tx, Writers(d, 0)) + Size(cast.tx, Writers(d, 1))
                                + Size(cast.tx, Writers(d, 2)) + Size(cast.tx, Writers(d, 3))
      BY Zenon, <1>1, <1>4, SizeFour
    <2> QED
      BY <1>8, <2>1, <2>2 DEF SumSlots
  <1>10. Size(cast.tx, re) <= SumSlots(dd_tempreserved[d]) /\ SumSlots(dd_tempreserved[d]) \in Nat
    <2>1. \A g \in {0, 1, 2, 3} : dd_tempreserved[d][g] = Size(cast.tx, DirReservers(d, g))
      BY Zenon, <1>1, <1>2 DEF DirInv
    <2>2. Size(cast.tx, re) <= Size(cast.tx, DirReservers(d, 0)) + Size(cast.tx, DirReservers(d, 1))
                                + Size(cast.tx, DirReservers(d, 2)) + Size(cast.tx, DirReservers(d, 3))
      BY Zenon, <1>1, <1>4, SizeFour
    <2> QED
      BY <1>8, <2>1, <2>2 DEF SumSlots
  <1> HIDE DEF wr, re
  <1> QED
    BY <1>6, <1>7, <1>9, <1>10 DEF EstInflight

\* The summands of what is promised are numbers.
LEMMA PromisedType ==
    ASSUME IInv, NEW d \in Dirs, dd_used[d] \in Int
    PROVE  /\ Size(cast.tx, Uncharged(d)) \in Nat /\ Size(cast.tx, Exempt(d)) \in Nat
           /\ Promised(d) \in Int /\ Quota[d] \in Nat /\ cast.used[d] \in Nat
           /\ \A t \in Admitted(d) : op(t).asize \in Nat
  <1>1. /\ cast \in Casts /\ Admitted(d) \subseteq DOMAIN cast.tx
        /\ Uncharged(d) \subseteq DOMAIN cast.tx /\ Exempt(d) \subseteq DOMAIN cast.tx
    BY Zenon, Members
  <1>2. Size(cast.tx, Uncharged(d)) \in Nat /\ Size(cast.tx, Exempt(d)) \in Nat
    BY Zenon, <1>1, UnitsFinite
  <1>3. Promised(d) \in Int
    BY <1>2 DEF Promised
  <1>4. Quota[d] \in Nat /\ cast.used[d] \in Nat /\ \A t \in Admitted(d) : op(t).asize \in Nat
    BY Zenon, <1>1, DmuTxAssumption DEF op
  <1> QED
    BY Zenon, <1>2, <1>3, <1>4

\* A step after which no more is used or promised.
LEMMA QuotaKeep ==
    ASSUME IInv, QuotaInv, UNCHANGED cast, DOMAIN netfree' = Txs,
           \A d \in Dirs : /\ dd_used'[d] \in Int /\ Promised(d)' \in Int
                           /\ Promised(d)' <= Promised(d) /\ Admitted(d) \subseteq Admitted(d)'
    PROVE  QuotaInv'
  <1>1. ASSUME NEW d \in Dirs
        PROVE  Quota[d] # 0 => \/ Promised(d)' < Quota[d]
                               \/ Promised(d)' <= cast.used[d]
                               \/ \E t \in Admitted(d)' : Promised(d)' < Quota[d] + op(t).asize
    <2>1. /\ Promised(d) \in Int /\ Quota[d] \in Nat /\ cast.used[d] \in Nat
          /\ \A t \in Admitted(d) : op(t).asize \in Nat
      BY Zenon, PromisedType DEF QuotaInv
    <2>2. Promised(d)' \in Int /\ Promised(d)' <= Promised(d) /\ Admitted(d) \subseteq Admitted(d)'
      BY Zenon
    <2>3. Quota[d] # 0 => \/ Promised(d) < Quota[d]
                          \/ Promised(d) <= cast.used[d]
                          \/ \E t \in Admitted(d) : Promised(d) < Quota[d] + op(t).asize
      BY Zenon DEF QuotaInv, WithinQuota
    <2>4. ASSUME NEW t \in Admitted(d), Promised(d) < Quota[d] + op(t).asize
          PROVE  t \in Admitted(d)' /\ Promised(d)' < Quota[d] + op(t).asize
      BY <2>1, <2>2, <2>4
    <2>5. Promised(d) < Quota[d] => Promised(d)' < Quota[d]
      BY <2>1, <2>2
    <2>6. Promised(d) <= cast.used[d] => Promised(d)' <= cast.used[d]
      BY <2>1, <2>2
    <2> QED
      BY Zenon, <2>3, <2>4, <2>5, <2>6
  <1> QED
    BY Zenon, <1>1 DEF QuotaInv, WithinQuota, op

\* A step of which dsl_dir_tempreserve_impl() is not part, and that charges
\* nothing.
LEMMA QuotaStays ==
    ASSUME IInv, QuotaInv, UNCHANGED <<cast, dd_used>>, Through' = Through, DOMAIN netfree' = Txs,
           \A u \in Txs : /\ pc'[u] \in LetIn <=> pc[u] \in LetIn
                          /\ pc[u] \in LetIn => tx_txg'[u] = tx_txg[u] /\ netfree'[u] = netfree[u]
                          /\ pc[u] = "done" => pc'[u] = "done"
                          /\ pc'[u] = "done" => pc[u] = "done" \/ ~(tx_txg[u] <= Through)
    PROVE  QuotaInv'
  <1>1. ASSUME NEW d \in Dirs
        PROVE  /\ dd_used'[d] \in Int /\ Promised(d)' \in Int
               /\ Promised(d)' <= Promised(d) /\ Admitted(d) \subseteq Admitted(d)'
    <2>1. Admitted(d)' = Admitted(d)
      BY Zenon DEF Admitted, op
    <2>2. Uncharged(d)' = Uncharged(d)
      BY Zenon, <2>1 DEF Uncharged, Admitted
    <2>3. Exempt(d)' = Exempt(d)
      BY Zenon DEF Exempt, op, LetIn, Dirty
    <2>4. Promised(d)' = Promised(d)
      BY Zenon, <2>2, <2>3 DEF Promised
    <2>5. dd_used[d] \in Int
      BY Zenon DEF QuotaInv
    <2>6. Promised(d) \in Int
      BY Zenon, <2>5, PromisedType
    <2>7. Promised(d) <= Promised(d)
      BY <2>6
    <2> QED
      BY Zenon, <2>1, <2>4, <2>5, <2>6, <2>7
  <1> QED
    BY Zenon, <1>1, QuotaKeep

\* What a step of t in dsl_dir_tempreserve_impl() means for a directory that
\* is not its own, or when t is net free.
LEMMA QuotaOther ==
    ASSUME IInv, QuotaInv, UNCHANGED <<cast, dd_used, tx_txg, netfree>>, Through' = Through,
           NEW t \in Txs, pc[t] # "done", pc'[t] # "done", \A u \in Txs \ {t} : pc'[u] = pc[u],
           NEW d \in Dirs, d # op(t).dir \/ netfree[t]
    PROVE  dd_used'[d] \in Int /\ WithinQuota(d, Promised(d))'
  <1>1. Admitted(d)' = Admitted(d)
    BY Zenon DEF Admitted, op
  <1>2. Uncharged(d)' = Uncharged(d)
    BY Zenon, <1>1 DEF Uncharged
  <1>3. Exempt(d)' = Exempt(d)
    BY Zenon DEF Exempt, op
  <1>4. Promised(d)' = Promised(d)
    BY Zenon, <1>2, <1>3 DEF Promised
  <1> QED
    BY Zenon, <1>1, <1>4 DEF QuotaInv, WithinQuota, op

\* dsl_dir_tempreserve_impl() lets t in.
LEMMA QuotaAdd ==
    ASSUME GroupInv, DirInv, WriteInv, QuotaInv, NEW t \in Txs, ReserveDir(t),
           pc[t] = "dirs", pc'[t] = "root"
    PROVE  QuotaInv'
  <1>1. /\ UNCHANGED <<cast, dd_used, tx_txg, netfree>> /\ Through' = Through
        /\ \A u \in Txs \ {t} : pc'[u] = pc[u]
    BY Zenon DEF ReserveDir, Goto, Through, estVars, pipeVars, diskVars, GroupInv, IInv, TypeOK
  <1>2. IInv /\ cast \in Casts /\ t \in DOMAIN cast.tx
    BY Zenon DEF GroupInv, IInv, TypeOK, TxInv
  <1>3. op(t).dir \in Dirs /\ op(t).dir # "root" /\ op(t).asize \in Nat
    BY <1>2, DmuTxAssumption DEF op
  <1>4. ReserveError(t, op(t).dir) = "0"
    BY Zenon, <1>2, <1>3 DEF ReserveDir, Goto, IInv, TypeOK
  <1>5. ~netfree[t] /\ Quota[op(t).dir] # 0 =>
          dd_used[op(t).dir] + EstInflight(op(t).dir) < Quota[op(t).dir]
    BY Zenon, <1>3, <1>4 DEF ReserveError
  <1>6. tx_txg[t] > Through
    BY Zenon, InsideIsLater DEF GroupInv, Inside, TcLocked
  <1>7. ASSUME NEW d \in Dirs PROVE dd_used'[d] \in Int /\ WithinQuota(d, Promised(d))'
    <2>1. CASE d = op(t).dir /\ ~netfree[t]
      <3>1. Admitted(d)' = Admitted(d) \cup {t}
        BY Zenon, <1>1, <2>1 DEF Admitted, op, LetIn
      <3>2. Uncharged(d)' = Uncharged(d) \cup {t} /\ t \notin Uncharged(d)
        BY Zenon, <1>1, <1>6, <3>1 DEF Uncharged, Admitted, LetIn, Dirty
      <3>3. Exempt(d)' = Exempt(d)
        BY Zenon, <1>1 DEF Exempt, op
      <3>4. Size(cast.tx, Uncharged(d) \cup {t}) = Size(cast.tx, Uncharged(d)) + op(t).asize
        BY Zenon, <1>2, <3>2, Members, SizeAdd DEF op
      <3>5. Promised(d)' = dd_used[d] + (Size(cast.tx, Uncharged(d)) + op(t).asize) - Size(cast.tx, Exempt(d))
        BY Zenon, <1>1, <3>2, <3>3, <3>4 DEF Promised
      <3>6. dd_used[d] \in Int
        BY Zenon DEF QuotaInv
      <3>7. /\ Size(cast.tx, Uncharged(d)) \in Nat /\ Size(cast.tx, Exempt(d)) \in Nat
            /\ Quota[d] \in Nat
        BY Zenon, <1>2, <3>6, PromisedType
      <3>8. Size(cast.tx, Uncharged(d)) <= EstInflight(d) /\ EstInflight(d) \in Nat
        BY Zenon, InflightCovers
      <3>9. Quota[d] # 0 => Promised(d)' < Quota[d] + op(t).asize
        BY <1>3, <1>5, <2>1, <3>5, <3>6, <3>7, <3>8
      <3> QED
        BY Zenon, <1>1, <3>1, <3>6, <3>9 DEF WithinQuota, op
    <2>2. CASE ~(d = op(t).dir /\ ~netfree[t])
      BY Zenon, <1>1, <1>2, <2>2, QuotaOther
    <2> QED
      BY Zenon, <2>1, <2>2
  <1> QED
    BY Zenon, <1>1, <1>7 DEF QuotaInv

\* The pool refuses t, which its file system had let in.
LEMMA QuotaBack ==
    ASSUME GroupInv, QuotaInv, NEW t \in Txs, ReserveDir(t), pc[t] = "root", pc'[t] = "undoroot"
    PROVE  QuotaInv'
  <1>1. /\ UNCHANGED <<cast, dd_used, tx_txg, netfree>> /\ Through' = Through
        /\ \A u \in Txs \ {t} : pc'[u] = pc[u]
    BY Zenon DEF ReserveDir, Goto, Through, estVars, pipeVars, diskVars, GroupInv, IInv, TypeOK
  <1>2. IInv /\ cast \in Casts
    BY Zenon DEF GroupInv, IInv, TypeOK
  <1>3. tx_txg[t] > Through
    BY Zenon, InsideIsLater DEF GroupInv, Inside, TcLocked
  <1>4. ASSUME NEW d \in Dirs PROVE dd_used'[d] \in Int /\ WithinQuota(d, Promised(d))'
    <2>1. CASE d = op(t).dir /\ ~netfree[t]
      <3>1. Admitted(d)' = Admitted(d) \ {t} /\ t \in Admitted(d)
        BY Zenon, <1>1, <2>1 DEF Admitted, op, LetIn, Dirty
      <3>2. Uncharged(d)' = Uncharged(d) \ {t} /\ t \in Uncharged(d)
        BY Zenon, <1>1, <1>3, <3>1 DEF Uncharged
      <3>3. Exempt(d)' = Exempt(d)
        BY Zenon, <1>1 DEF Exempt, op
      <3>4. Size(cast.tx, Uncharged(d) \ {t}) = Size(cast.tx, Uncharged(d)) - op(t).asize
        BY Zenon, <1>2, <3>2, Members, SizeRemove DEF op
      <3>5. Promised(d)' = dd_used[d] + (Size(cast.tx, Uncharged(d)) - op(t).asize) - Size(cast.tx, Exempt(d))
        BY Zenon, <1>1, <3>2, <3>3, <3>4 DEF Promised
      <3>6. dd_used[d] \in Int
        BY Zenon DEF QuotaInv
      <3>7. /\ Size(cast.tx, Uncharged(d)) \in Nat /\ Size(cast.tx, Exempt(d)) \in Nat
            /\ Quota[d] \in Nat /\ cast.used[d] \in Nat /\ Promised(d) \in Int
            /\ \A u \in Admitted(d) : op(u).asize \in Nat
        BY Zenon, <1>2, <3>6, PromisedType
      <3>8. Promised(d)' = Promised(d) - op(t).asize
        BY <3>1, <3>5, <3>6, <3>7 DEF Promised
      <3>9. Quota[d] # 0 => \/ Promised(d) < Quota[d]
                            \/ Promised(d) <= cast.used[d]
                            \/ \E u \in Admitted(d) : Promised(d) < Quota[d] + op(u).asize
        BY Zenon DEF QuotaInv, WithinQuota
      <3>10. op(t).asize \in Nat
        BY Zenon, <3>1, <3>7
      <3>11. Promised(d) < Quota[d] \/ Promised(d) < Quota[d] + op(t).asize => Promised(d)' < Quota[d]
        BY <3>7, <3>8, <3>10
      <3>12. Promised(d) <= cast.used[d] => Promised(d)' <= cast.used[d]
        BY <3>7, <3>8, <3>10
      <3>13. ASSUME NEW u \in Admitted(d), u # t, Promised(d) < Quota[d] + op(u).asize
             PROVE  u \in Admitted(d)' /\ Promised(d)' < Quota[d] + op(u).asize
        BY <3>1, <3>7, <3>8, <3>10, <3>13
      <3>14. Quota[d] # 0 => \/ Promised(d)' < Quota[d]
                             \/ Promised(d)' <= cast.used[d]
                             \/ \E u \in Admitted(d)' : Promised(d)' < Quota[d] + op(u).asize
        BY Zenon, <3>9, <3>11, <3>12, <3>13
      <3> QED
        BY Zenon, <1>1, <3>6, <3>14 DEF WithinQuota, op
    <2>2. CASE ~(d = op(t).dir /\ ~netfree[t])
      BY Zenon, <1>1, <1>2, <2>2, QuotaOther
    <2> QED
      BY Zenon, <2>1, <2>2
  <1> QED
    BY Zenon, <1>1, <1>4 DEF QuotaInv

\* dsl_dataset_block_born() and dsl_dataset_block_kill(): what was promised
\* is charged, all of it at most, and so is what the exempted ones write.
LEMMA QuotaCharge ==
    ASSUME GroupInv, QuotaInv, SyncDatasets
    PROVE  QuotaInv'
  <1>1. /\ UNCHANGED <<cast, pc, tx_txg, netfree>>
        /\ Through = tx_synced_txg /\ Through' = tx_syncing_txg
        /\ tx_syncing_txg = tx_synced_txg + 1 /\ tx_synced_txg \in Nat
    BY Zenon DEF SyncDatasets, Through, estVars, txVars, GroupInv, PipeInv
  <1>2. IInv /\ cast \in Casts /\ tx_txg \in [Txs -> Nat]
    BY Zenon DEF GroupInv, IInv, TypeOK
  <1>3. PICK full \in BOOLEAN, gone \in BOOLEAN :
          dd_used' = [d \in AllDirs |->
             dd_used[d] + (IF full THEN Written(tx_syncing_txg, d) ELSE 0)
               - (IF gone THEN Freed(tx_syncing_txg, d) ELSE 0)]
    BY Zenon DEF SyncDatasets
  <1>4. ASSUME NEW d \in Dirs
        PROVE  /\ dd_used'[d] \in Int /\ Promised(d)' \in Int
               /\ Promised(d)' <= Promised(d) /\ Admitted(d) \subseteq Admitted(d)'
    <2> DEFINE G == InGroup(tx_syncing_txg, d)
               C == {t \in G : ~netfree[t]}
               N == {t \in G : netfree[t]}
               U == Uncharged(d)
               V == Uncharged(d)'
               E == Exempt(d)
               F == Exempt(d)'
    <2>1. d \in AllDirs /\ d # "root"
      BY Zenon, DmuTxAssumption DEF AllDirs
    <2>2. Admitted(d)' = Admitted(d)
      BY Zenon, <1>1 DEF Admitted, op
    <2>3. C \subseteq U
      BY <1>1, <1>2, <2>1 DEF InGroup, Uncharged, Admitted, LetIn, Dirty
    <2>4. V \subseteq U \ C
      BY <1>1, <1>2, <2>2 DEF InGroup, Uncharged, Admitted, op
    <2>5. E \cup N \subseteq F
      BY <1>1, <1>2, <2>1 DEF InGroup, Exempt, op
    <2>6. E \cap N = {} /\ C \cap N = {} /\ G = C \cup N
      BY <1>1, <1>2 DEF InGroup, Exempt
    <2>7. U \subseteq DOMAIN cast.tx /\ E \subseteq DOMAIN cast.tx /\ G \subseteq DOMAIN cast.tx
      BY Zenon, <1>2, Members DEF IInv, TxInv, InGroup
    <2>8. F \subseteq DOMAIN cast.tx
      BY Zenon, <1>1, <1>2 DEF Exempt, IInv, TxInv
    <2>9. /\ Written(tx_syncing_txg, d) = Size(cast.tx, G)
          /\ Promised(d)' = dd_used'[d] + Size(cast.tx, V) - Size(cast.tx, F)
          /\ Promised(d) = dd_used[d] + Size(cast.tx, U) - Size(cast.tx, E)
      BY Zenon, <1>1 DEF Written, Promised
    <2>10. Freed(tx_syncing_txg, d) \in Nat
      BY Zenon, <1>2, FreedType
    <2>11. dd_used'[d] = dd_used[d] + (IF full THEN Written(tx_syncing_txg, d) ELSE 0)
                           - (IF gone THEN Freed(tx_syncing_txg, d) ELSE 0)
      BY Zenon, <1>3, <2>1
    <2>12. dd_used[d] \in Int
      BY Zenon DEF QuotaInv
    <2> HIDE DEF G, C, N, U, V, E, F
    <2>13. /\ V \subseteq DOMAIN cast.tx /\ C \subseteq DOMAIN cast.tx /\ N \subseteq DOMAIN cast.tx
           /\ V \cup C \subseteq U /\ V \cap C = {}
      BY Zenon, <2>3, <2>4, <2>6, <2>7
    <2>14. /\ Size(cast.tx, V) \in Nat /\ Size(cast.tx, C) \in Nat /\ Size(cast.tx, U) \in Nat
           /\ Size(cast.tx, N) \in Nat /\ Size(cast.tx, E) \in Nat /\ Size(cast.tx, F) \in Nat
           /\ Size(cast.tx, G) \in Nat
      BY Zenon, <1>2, <2>7, <2>8, <2>13, UnitsFinite
    <2>15. Size(cast.tx, V) + Size(cast.tx, C) <= Size(cast.tx, U)
      <3>1. Size(cast.tx, V \cup C) = Size(cast.tx, V) + Size(cast.tx, C)
        BY Zenon, <1>2, <2>13, SizeUnion
      <3>2. Size(cast.tx, V \cup C) <= Size(cast.tx, U)
        BY Zenon, <1>2, <2>7, <2>13, SizeSubset
      <3> QED
        BY Zenon, <3>1, <3>2
    <2>16. Size(cast.tx, E) + Size(cast.tx, N) <= Size(cast.tx, F)
      <3>1. Size(cast.tx, E \cup N) = Size(cast.tx, E) + Size(cast.tx, N)
        BY Zenon, <1>2, <2>6, <2>7, <2>13, SizeUnion
      <3>2. Size(cast.tx, E \cup N) <= Size(cast.tx, F)
        BY Zenon, <1>2, <2>5, <2>8, SizeSubset
      <3> QED
        BY Zenon, <3>1, <3>2
    <2>17. Size(cast.tx, G) = Size(cast.tx, C) + Size(cast.tx, N)
      BY Zenon, <1>2, <2>6, <2>13, SizeUnion
    <2>18. dd_used'[d] \in Int /\ dd_used'[d] <= dd_used[d] + Size(cast.tx, C) + Size(cast.tx, N)
      BY <2>9, <2>10, <2>11, <2>12, <2>14, <2>17
    <2>19. Promised(d)' \in Int /\ Promised(d)' <= Promised(d)
      BY <2>9, <2>12, <2>14, <2>15, <2>16, <2>18
    <2> QED
      BY Zenon, <2>2, <2>18, <2>19
  <1>5. DOMAIN netfree' = Txs
    BY Zenon, <1>1 DEF QuotaInv
  <1> QED
    BY Zenon, <1>1, <1>2, <1>4, <1>5, QuotaKeep

-----------------------------------------------------------------------------
(* The steps.                                                              *)

Counted == InPool \cup LetIn \cup {"undodir"}

\* A step that moves nobody into or out of a counter.
LEMMA QuietKeeps ==
    ASSUME SpaceInv, UNCHANGED <<cast, dd_used, dd_space_towrite, dd_tempreserved, dp_tempreserved>>,
           Through' = Through, Cleared' = Cleared, tx_open_txg' \in Nat, tx_open_txg <= tx_open_txg',
           \A u \in Txs : \/ pc'[u] = pc[u] /\ tx_txg'[u] = tx_txg[u]
                          \/ pc[u] = "leave" /\ pc'[u] = "done" /\ tx_txg'[u] = tx_txg[u]
                          \/ pc[u] \notin Counted /\ pc'[u] \notin Counted,
           DOMAIN netfree' = DOMAIN netfree, \A u \in Txs : pc[u] \in LetIn => netfree'[u] = netfree[u]
    PROVE  DoneBefore' /\ PoolInv' /\ DirInv' /\ WriteInv' /\ QuotaInv'
  <1> USE DEF Counted, LetIn, Dirty
  <1>1. IInv /\ GroupInv /\ DoneBefore /\ PoolInv /\ DirInv /\ WriteInv /\ QuotaInv
    BY Zenon DEF SpaceInv, GroupInv
  <1>2. DoneBefore'
    <2>1. \A u \in Txs : tx_txg[u] \in Nat /\ (pc[u] \in {"leave", "done"} => tx_txg[u] <= tx_open_txg) /\ tx_open_txg \in Nat
      BY <1>1 DEF IInv, TypeOK, TxInv, DoneBefore, Inside
    <2> QED
      BY <2>1 DEF DoneBefore
  <1>3. PoolInv'
    BY Zenon, <1>1, PoolKeep DEF InPool
  <1>4. DirInv'
    <2>1. \A d \in AllDirs : \A s \in InDir(d) : s \in Counted /\ s # "leave" /\ s # "done"
      BY DEF InDir, InPool
    <2>2. \A u \in Txs : \A d \in AllDirs :
            /\ pc'[u] \in InDir(d) <=> pc[u] \in InDir(d)
            /\ pc[u] \in InDir(d) => tx_txg'[u] = tx_txg[u]
      <3> HIDE DEF Counted
      <3> QED
        BY Zenon, <2>1
    <2> QED
      BY Zenon, <1>1, <2>2, DirKeep
  <1>5. WriteInv'
    BY Zenon, <1>1, WriteKeep
  <1>6. QuotaInv'
    <2>1. DOMAIN netfree' = Txs
      BY Zenon, <1>1 DEF QuotaInv
    <2>2. ASSUME NEW u \in Txs, pc[u] = "leave" PROVE ~(tx_txg[u] <= Through)
      <3>1. tx_txg[u] > Through /\ tx_txg[u] \in Nat /\ Through \in Nat
        BY <1>1, <2>2, InsideIsLater DEF GroupInv, Inside, IInv, TypeOK, PipeInv, Through
      <3>2. \A a, b \in Nat : a > b => ~(a <= b)
        OBVIOUS
      <3> QED
        BY Zenon, <3>1, <3>2
    <2>3. \A u \in Txs : /\ pc'[u] \in LetIn <=> pc[u] \in LetIn
                         /\ pc[u] \in LetIn => tx_txg'[u] = tx_txg[u] /\ netfree'[u] = netfree[u]
                         /\ pc[u] = "done" => pc'[u] = "done"
                         /\ pc'[u] = "done" => pc[u] = "done" \/ ~(tx_txg[u] <= Through)
      BY Zenon, <2>2
    <2> QED
      BY Zenon, <1>1, <2>1, <2>3, QuotaStays
  <1> QED
    BY Zenon, <1>2, <1>3, <1>4, <1>5, <1>6

\* A step of a transaction that reserves, releases and dirties nothing.
LEMMA TxQuiet ==
    ASSUME SpaceInv, NEW t \in Txs,
           \/ AssignSuspended(t) \/ HoldOpen(t) \/ HoldDnode(t) \/ MemoryThrottle(t)
           \/ Unassign(t) \/ UnassignDrop(t) \/ UnassignDone(t)
           \/ Wait(t) \/ WaitDnode(t) \/ WaitOver(t) \/ CommitDrop(t) \/ CommitDone(t)
           \/ ReservePool(t) /\ pc'[t] = "unassign"
    PROVE  DoneBefore' /\ PoolInv' /\ DirInv' /\ WriteInv' /\ QuotaInv'
  <1> DEFINE Quiet ==
        /\ UNCHANGED <<cast, dd_used, dd_space_towrite, dd_tempreserved, dp_tempreserved, pipeVars>>
        /\ \A u \in Txs : \/ pc'[u] = pc[u] /\ tx_txg'[u] = tx_txg[u]
                          \/ pc[u] = "leave" /\ pc'[u] = "done" /\ tx_txg'[u] = tx_txg[u]
                          \/ pc[u] \notin Counted /\ pc'[u] \notin Counted
        /\ DOMAIN netfree' = DOMAIN netfree /\ \A u \in Txs : pc[u] \in LetIn => netfree'[u] = netfree[u]
  <1>1. pc \in [Txs -> PCs] /\ tx_txg \in [Txs -> Nat] /\ tx_open_txg \in Nat
        /\ DOMAIN netfree = Txs
    BY Zenon DEF SpaceInv, GroupInv, IInv, TypeOK, QuotaInv
  <1> USE DEF Counted, InPool, LetIn, Dirty, Goto, Set, resVars, diskVars, estVars
  <1>2. ASSUME AssignSuspended(t) \/ HoldOpen(t) \/ HoldDnode(t) \/ MemoryThrottle(t) PROVE Quiet
    BY Zenon, <1>1, <1>2 DEF AssignSuspended, HoldOpen, HoldDnode, MemoryThrottle
  <1>3. ASSUME Unassign(t) \/ UnassignDone(t) \/ CommitDone(t) PROVE Quiet
    BY Zenon, <1>1, <1>3 DEF Unassign, UnassignDone, CommitDone
  <1>4. ASSUME Wait(t) \/ WaitDnode(t) \/ WaitOver(t) PROVE Quiet
    BY Zenon, <1>1, <1>4 DEF Wait, WaitDnode, WaitOver, Retry
  <1>5. ASSUME UnassignDrop(t) \/ CommitDrop(t) PROVE Quiet
    <2>1. /\ UNCHANGED <<cast, dd_used, dd_space_towrite, dd_tempreserved, dp_tempreserved, pipeVars>>
          /\ UNCHANGED <<tx_txg, netfree>>
      BY Zenon, <1>5 DEF UnassignDrop, CommitDrop
    <2>2. pc' = pc \/ \E n : pc' = Woken(n)
      BY Zenon, <1>5 DEF UnassignDrop, CommitDrop, DropHold
    <2>3. ASSUME NEW u \in Txs PROVE pc'[u] = pc[u] \/ (pc[u] = "dsleep" /\ pc'[u] = "dwait")
      BY Zenon, <2>2 DEF Woken
    <2>4. "dsleep" \notin Counted /\ "dwait" \notin Counted
      BY DEF Counted
    <2>5. Quiet
      <3> HIDE DEF Counted, LetIn
      <3> QED
        BY Zenon, <2>1, <2>3, <2>4
    <2> QED
      BY Zenon, <2>5
  <1>6. ASSUME ReservePool(t) /\ pc'[t] = "unassign" PROVE Quiet
    BY Zenon, <1>1, <1>6 DEF ReservePool
  <1>7. Quiet
    BY Zenon, <1>2, <1>3, <1>4, <1>5, <1>6
  <1> HIDE DEF Counted, LetIn
  <1>8. Through' = Through /\ Cleared' = Cleared /\ tx_open_txg' = tx_open_txg
    BY Zenon, <1>7 DEF Through, Cleared, pipeVars
  <1>9. tx_open_txg' \in Nat /\ tx_open_txg <= tx_open_txg'
    BY <1>1, <1>8
  <1> QED
    BY Zenon, <1>7, <1>8, <1>9, QuietKeeps

\* What the steps that move a counter have in common.
LEMMA TxMoves ==
    ASSUME SpaceInv, NEW t \in Txs,
           ReservePool(t) \/ ReserveDir(t) \/ ReserveUndo(t) \/ WillUse(t) \/ CommitClear(t)
    PROVE  /\ UNCHANGED <<cast, tx_txg, dd_used, pipeVars>> /\ Through' = Through /\ Cleared' = Cleared
           /\ pc[t] \in Inside /\ pc'[t] \notin {"hold", "done"} /\ \A u \in Txs \ {t} : pc'[u] = pc[u]
           /\ t \in DOMAIN cast.tx /\ op(t).dir \in Dirs /\ op(t).dir # "root"
           /\ IInv /\ GroupInv /\ DoneBefore /\ PoolInv /\ DirInv /\ WriteInv /\ QuotaInv
           /\ DoneBefore' /\ DOMAIN netfree' = Txs
           /\ \A u \in Txs : pc[u] # "hold" => netfree'[u] = netfree[u]
           /\ pc[t] # "done" /\ "hold" \notin LetIn
  <1>1. /\ IInv /\ GroupInv /\ DoneBefore /\ PoolInv /\ DirInv /\ WriteInv /\ QuotaInv
        /\ pc \in [Txs -> PCs]
    BY Zenon DEF SpaceInv, GroupInv, IInv, TypeOK
  <1>2. UNCHANGED <<cast, tx_txg, dd_used, pipeVars>>
    BY Zenon DEF ReservePool, ReserveDir, ReserveUndo, WillUse, CommitClear, diskVars
  <1>3. /\ pc[t] \in Inside /\ pc'[t] \notin {"hold", "done"} /\ \A u \in Txs \ {t} : pc'[u] = pc[u]
    BY Zenon, <1>1 DEF ReservePool, ReserveDir, ReserveUndo, WillUse, CommitClear, ClearPool, ClearDir,
                       Goto, Inside, TcLocked
  <1>4. t \in DOMAIN cast.tx /\ cast \in Casts
    BY Zenon, <1>1, <1>3 DEF IInv, TxInv, TypeOK, Inside, TcLocked
  <1>5. op(t).dir \in Dirs /\ op(t).dir # "root"
    BY <1>4, DmuTxAssumption DEF op
  <1>6. Through' = Through /\ Cleared' = Cleared
    BY Zenon, <1>2 DEF pipeVars, Through, Cleared
  <1>7. DoneBefore'
    BY Zenon, <1>1, <1>2, <1>3 DEF DoneBefore, pipeVars
  <1>8. DOMAIN netfree' = Txs /\ \A u \in Txs : pc[u] # "hold" => netfree'[u] = netfree[u]
    <2>1. DOMAIN netfree = Txs
      BY Zenon, <1>1 DEF QuotaInv
    <2>2. CASE ReservePool(t)
      BY Zenon, <2>1, <2>2 DEF ReservePool, Set
    <2>3. CASE ReserveDir(t) \/ ReserveUndo(t) \/ WillUse(t) \/ CommitClear(t)
      BY Zenon, <2>1, <2>3 DEF ReserveDir, ReserveUndo, WillUse, CommitClear, estVars
    <2> QED
      BY Zenon, <2>2, <2>3
  <1>9. pc[t] # "done" /\ "hold" \notin LetIn
    BY Zenon, <1>3 DEF Inside, TcLocked, LetIn, Dirty
  <1> QED
    BY Zenon, <1>1, <1>2, <1>3, <1>4, <1>5, <1>6, <1>7, <1>8, <1>9

\* A step of t that leaves it in its file system, or out of it.
LEMMA TxStays ==
    ASSUME SpaceInv, NEW t \in Txs,
           ReservePool(t) \/ ReserveDir(t) \/ ReserveUndo(t) \/ WillUse(t) \/ CommitClear(t),
           pc'[t] \in LetIn <=> pc[t] \in LetIn
    PROVE  QuotaInv'
  <1>1. /\ UNCHANGED <<cast, tx_txg, dd_used>> /\ Through' = Through
        /\ \A u \in Txs \ {t} : pc'[u] = pc[u]
        /\ IInv /\ QuotaInv /\ pc'[t] # "done" /\ pc[t] # "done" /\ "hold" \notin LetIn
        /\ DOMAIN netfree' = Txs /\ \A u \in Txs : pc[u] # "hold" => netfree'[u] = netfree[u]
    BY Zenon, TxMoves
  <1>2. \A u \in Txs : /\ pc'[u] \in LetIn <=> pc[u] \in LetIn
                       /\ pc[u] \in LetIn => tx_txg'[u] = tx_txg[u] /\ netfree'[u] = netfree[u]
                       /\ pc[u] = "done" => pc'[u] = "done"
                       /\ pc'[u] = "done" => pc[u] = "done" \/ ~(tx_txg[u] <= Through)
    BY Zenon, <1>1
  <1> QED
    BY Zenon, <1>1, <1>2, QuotaStays

\* dsl_pool_tempreserve_space()
LEMMA ReservePoolKeeps ==
    ASSUME SpaceInv, NEW t \in Txs, ReservePool(t), pc'[t] # "unassign"
    PROVE  DoneBefore' /\ PoolInv' /\ DirInv' /\ WriteInv' /\ QuotaInv'
  <1>1. /\ UNCHANGED <<cast, tx_txg, dd_used, pipeVars>> /\ Through' = Through /\ Cleared' = Cleared
        /\ \A u \in Txs \ {t} : pc'[u] = pc[u]
        /\ t \in DOMAIN cast.tx
        /\ IInv /\ PoolInv /\ DirInv /\ WriteInv /\ QuotaInv /\ DoneBefore'
    BY Zenon, TxMoves
  <1>2. /\ pc[t] = "hold" /\ pc'[t] = "dirs" /\ UNCHANGED <<dd_tempreserved, dd_space_towrite>>
        /\ dp_tempreserved' = [dp_tempreserved EXCEPT ![Slot(tx_txg[t])] = @ + op(t).asize]
    BY Zenon, <1>1 DEF ReservePool, Goto, IInv, TypeOK
  <1>3. PoolInv'
    BY Zenon, <1>1, <1>2, PoolAdd DEF InPool
  <1>4. DirInv'
    BY Zenon, <1>1, <1>2, DirKeep DEF InDir
  <1>5. WriteInv'
    BY Zenon, <1>1, <1>2, WriteKeep DEF Dirty
  <1>6. QuotaInv'
    BY Zenon, <1>2, TxStays DEF LetIn, Dirty
  <1> QED
    BY Zenon, <1>1, <1>3, <1>4, <1>5, <1>6

\* dsl_dir_tempreserve_impl()
LEMMA ReserveDirKeeps ==
    ASSUME SpaceInv, NEW t \in Txs, ReserveDir(t)
    PROVE  DoneBefore' /\ PoolInv' /\ DirInv' /\ WriteInv' /\ QuotaInv'
  <1>1. /\ UNCHANGED <<cast, tx_txg, dd_used, pipeVars>> /\ Through' = Through /\ Cleared' = Cleared
        /\ \A u \in Txs \ {t} : pc'[u] = pc[u]
        /\ t \in DOMAIN cast.tx /\ op(t).dir \in Dirs /\ op(t).dir # "root"
        /\ IInv /\ GroupInv /\ PoolInv /\ DirInv /\ WriteInv /\ QuotaInv /\ DoneBefore'
    BY Zenon, TxMoves
  <1>2. UNCHANGED dd_space_towrite /\ pc \in [Txs -> PCs]
    BY Zenon, <1>1 DEF ReserveDir, IInv, TypeOK
  <1>3. {op(t).dir, "root"} \subseteq AllDirs /\ {op(t).dir, "root"} = Ancestry(op(t).dir)
    BY Zenon, <1>1 DEF AllDirs, Ancestry
  <1>4. CASE pc[t] = "dirs" /\ ReserveError(t, op(t).dir) = "0"
    <2>1. /\ pc'[t] = "root" /\ UNCHANGED dp_tempreserved
          /\ dd_tempreserved' = [dd_tempreserved EXCEPT ![op(t).dir][Slot(tx_txg[t])] = @ + op(t).asize]
      BY Zenon, <1>1, <1>2, <1>4 DEF ReserveDir, Goto
    <2>2. PoolInv'
      BY Zenon, <1>1, <1>4, <2>1, PoolKeep DEF InPool
    <2>3. DirInv'
      <3>1. /\ pc[t] \notin InDir(op(t).dir) /\ pc'[t] \in InDir(op(t).dir)
            /\ \A d \in AllDirs \ {op(t).dir} : d \in Ancestry(op(t).dir) =>
                 (pc'[t] \in InDir(d) <=> pc[t] \in InDir(d))
        BY Zenon, <1>1, <1>4, <2>1 DEF InDir, Ancestry
      <3> QED
        BY Zenon, <1>1, <1>3, <2>1, <3>1, DirAdd
    <2>4. WriteInv'
      BY Zenon, <1>1, <1>2, <1>4, <2>1, WriteKeep DEF Dirty
    <2>5. QuotaInv'
      BY Zenon, <1>1, <1>4, <2>1, QuotaAdd
    <2> QED
      BY Zenon, <1>1, <2>2, <2>3, <2>4, <2>5
  <1>5. CASE pc[t] = "dirs" /\ ReserveError(t, op(t).dir) # "0"
    <2>1. pc'[t] = "undo" /\ UNCHANGED <<dp_tempreserved, dd_tempreserved>>
      BY Zenon, <1>1, <1>2, <1>5 DEF ReserveDir, Goto
    <2>2. PoolInv'
      BY Zenon, <1>1, <1>5, <2>1, PoolKeep DEF InPool
    <2>3. DirInv'
      BY Zenon, <1>1, <1>5, <2>1, DirKeep DEF InDir
    <2>4. WriteInv'
      BY Zenon, <1>1, <1>2, <1>5, <2>1, WriteKeep DEF Dirty
    <2>5. QuotaInv'
      BY Zenon, <1>5, <2>1, TxStays DEF LetIn, Dirty
    <2> QED
      BY Zenon, <1>1, <2>2, <2>3, <2>4, <2>5
  <1>6. CASE pc[t] = "root" /\ ReserveError(t, "root") = "0"
    <2>1. /\ pc'[t] = "assigned" /\ UNCHANGED dp_tempreserved
          /\ dd_tempreserved' = [dd_tempreserved EXCEPT !["root"][Slot(tx_txg[t])] = @ + op(t).asize]
      BY Zenon, <1>1, <1>2, <1>6 DEF ReserveDir, Goto
    <2>2. PoolInv'
      BY Zenon, <1>1, <1>6, <2>1, PoolKeep DEF InPool
    <2>3. DirInv'
      <3>1. /\ pc[t] \notin InDir("root") /\ pc'[t] \in InDir("root")
            /\ \A d \in AllDirs \ {"root"} : d \in Ancestry(op(t).dir) =>
                 (pc'[t] \in InDir(d) <=> pc[t] \in InDir(d))
        BY Zenon, <1>1, <1>6, <2>1 DEF InDir, Ancestry
      <3> QED
        BY Zenon, <1>1, <1>3, <2>1, <3>1, DirAdd
    <2>4. WriteInv'
      BY Zenon, <1>1, <1>2, <1>6, <2>1, WriteKeep DEF Dirty
    <2>5. QuotaInv'
      BY Zenon, <1>6, <2>1, TxStays DEF LetIn, Dirty
    <2> QED
      BY Zenon, <1>1, <2>2, <2>3, <2>4, <2>5
  <1>7. CASE pc[t] = "root" /\ ReserveError(t, "root") # "0"
    <2>1. pc'[t] = "undoroot" /\ UNCHANGED <<dp_tempreserved, dd_tempreserved>>
      BY Zenon, <1>1, <1>2, <1>7 DEF ReserveDir, Goto
    <2>2. PoolInv'
      BY Zenon, <1>1, <1>7, <2>1, PoolKeep DEF InPool
    <2>3. DirInv'
      BY Zenon, <1>1, <1>7, <2>1, DirKeep DEF InDir
    <2>4. WriteInv'
      BY Zenon, <1>1, <1>2, <1>7, <2>1, WriteKeep DEF Dirty
    <2>5. QuotaInv'
      BY Zenon, <1>1, <1>7, <2>1, QuotaBack
    <2> QED
      BY Zenon, <1>1, <2>2, <2>3, <2>4, <2>5
  <1>8. pc[t] \in {"dirs", "root"}
    BY Zenon DEF ReserveDir
  <1> QED
    BY Zenon, <1>4, <1>5, <1>6, <1>7, <1>8

\* One entry of dsl_dir_tempreserve_clear(), the pool's.
LEMMA ClearPoolKeeps ==
    ASSUME SpaceInv, NEW t \in Txs, NEW next \in PCs, ClearPool(t, next),
           \/ ReserveUndo(t) /\ <<pc[t], next>> \in {<<"undo", "unassign">>, <<"undoroot", "undodir">>}
           \/ CommitClear(t) /\ pc[t] = "commit" /\ next = "cleardir"
    PROVE  DoneBefore' /\ PoolInv' /\ DirInv' /\ WriteInv' /\ QuotaInv'
  <1>1. /\ UNCHANGED <<cast, tx_txg>> /\ Cleared' = Cleared
        /\ \A u \in Txs \ {t} : pc'[u] = pc[u]
        /\ t \in DOMAIN cast.tx
        /\ IInv /\ PoolInv /\ DirInv /\ WriteInv /\ DoneBefore'
    BY Zenon, TxMoves
  <1>2. /\ pc'[t] = next /\ UNCHANGED <<dd_space_towrite, dd_tempreserved>>
        /\ dp_tempreserved' = [dp_tempreserved EXCEPT ![Slot(tx_txg[t])] = @ - op(t).asize]
    BY Zenon, <1>1 DEF ReserveUndo, CommitClear, ClearPool, Goto, IInv, TypeOK
  <1>3. <<pc[t], pc'[t]>> \in {<<"undo", "unassign">>, <<"undoroot", "undodir">>, <<"commit", "cleardir">>}
    BY Zenon, <1>2
  <1>4. PoolInv'
    <2>1. pc[t] \in InPool /\ pc'[t] \notin InPool
      BY <1>3 DEF InPool
    <2> QED
      BY Zenon, <1>1, <1>2, <2>1, PoolDrop
  <1>5. DirInv'
    <2>1. \A d \in AllDirs : pc'[t] \in InDir(d) <=> pc[t] \in InDir(d)
      BY <1>3 DEF InDir
    <2> QED
      BY Zenon, <1>1, <1>2, <2>1, DirKeep
  <1>6. WriteInv'
    <2>1. pc'[t] \in Dirty <=> pc[t] \in Dirty
      BY <1>3 DEF Dirty
    <2> QED
      BY Zenon, <1>1, <1>2, <2>1, WriteKeep
  <1>7. QuotaInv'
    <2>1. pc'[t] \in LetIn <=> pc[t] \in LetIn
      BY <1>3 DEF LetIn, Dirty
    <2> QED
      BY Zenon, <2>1, TxStays
  <1> QED
    BY Zenon, <1>1, <1>4, <1>5, <1>6, <1>7

\* And a directory's.
LEMMA ClearDirKeeps ==
    ASSUME SpaceInv, NEW t \in Txs, NEW d, NEW next \in PCs, ClearDir(t, d, next),
           \/ ReserveUndo(t) /\ d = op(t).dir /\ <<pc[t], next>> = <<"undodir", "unassign">>
           \/ CommitClear(t) /\ d = op(t).dir /\ <<pc[t], next>> = <<"cleardir", "clearroot">>
           \/ CommitClear(t) /\ d = "root" /\ <<pc[t], next>> = <<"clearroot", "leave">>
    PROVE  DoneBefore' /\ PoolInv' /\ DirInv' /\ WriteInv' /\ QuotaInv'
  <1>1. /\ UNCHANGED <<cast, tx_txg>> /\ Cleared' = Cleared
        /\ \A u \in Txs \ {t} : pc'[u] = pc[u]
        /\ t \in DOMAIN cast.tx /\ op(t).dir \in Dirs /\ op(t).dir # "root"
        /\ IInv /\ PoolInv /\ DirInv /\ WriteInv /\ DoneBefore'
    BY Zenon, TxMoves
  <1>2. /\ pc'[t] = next /\ UNCHANGED <<dd_space_towrite, dp_tempreserved>>
        /\ dd_tempreserved' = [dd_tempreserved EXCEPT ![d][Slot(tx_txg[t])] = @ - op(t).asize]
    BY Zenon, <1>1 DEF ReserveUndo, CommitClear, ClearDir, Goto, IInv, TypeOK
  <1>3. /\ <<pc[t], pc'[t]>> \in {<<"undodir", "unassign">>, <<"cleardir", "clearroot">>, <<"clearroot", "leave">>}
        /\ d = IF pc[t] = "clearroot" THEN "root" ELSE op(t).dir
    BY <1>2
  <1>4. d \in AllDirs /\ d \in Ancestry(op(t).dir)
    BY Zenon, <1>1, <1>3 DEF AllDirs, Ancestry
  <1>5. PoolInv'
    <2>1. pc'[t] \in InPool <=> pc[t] \in InPool
      BY <1>3 DEF InPool
    <2> QED
      BY Zenon, <1>1, <1>2, <2>1, PoolKeep
  <1>6. DirInv'
    <2> op(t).dir # "root"
      BY Zenon, <1>1
    <2>1. pc[t] \in InDir(d) /\ pc'[t] \notin InDir(d)
      BY <1>3 DEF InDir
    <2>2. \A e \in AllDirs \ {d} : e \in Ancestry(op(t).dir) => (pc'[t] \in InDir(e) <=> pc[t] \in InDir(e))
      BY <1>3 DEF InDir, Ancestry
    <2> QED
      BY Zenon, <1>1, <1>2, <1>4, <2>1, <2>2, DirDrop
  <1>7. WriteInv'
    <2>1. pc'[t] \in Dirty <=> pc[t] \in Dirty
      BY <1>3 DEF Dirty
    <2> QED
      BY Zenon, <1>1, <1>2, <2>1, WriteKeep
  <1>8. QuotaInv'
    <2>1. pc'[t] \in LetIn <=> pc[t] \in LetIn
      BY <1>3 DEF LetIn, Dirty
    <2> QED
      BY Zenon, <2>1, TxStays
  <1> QED
    BY Zenon, <1>1, <1>5, <1>6, <1>7, <1>8

\* dsl_dir_tempreserve_clear(), when a directory has refused and from
\* dmu_tx_commit()
LEMMA ClearKeeps ==
    ASSUME SpaceInv, NEW t \in Txs, ReserveUndo(t) \/ CommitClear(t)
    PROVE  DoneBefore' /\ PoolInv' /\ DirInv' /\ WriteInv' /\ QuotaInv'
  <1>1. {"unassign", "undodir", "cleardir", "clearroot", "leave"} \subseteq PCs
    BY Zenon DEF PCs, Inside, TcLocked
  <1>2. CASE ReserveUndo(t)
    <2>1. \/ pc[t] = "undo" /\ ClearPool(t, "unassign")
          \/ pc[t] = "undoroot" /\ ClearPool(t, "undodir")
          \/ pc[t] = "undodir" /\ ClearDir(t, op(t).dir, "unassign")
      BY Zenon, <1>2 DEF ReserveUndo
    <2> QED
      BY Zenon, <1>1, <1>2, <2>1, ClearPoolKeeps, ClearDirKeeps
  <1>3. CASE CommitClear(t)
    <2>1. \/ pc[t] = "commit" /\ ClearPool(t, "cleardir")
          \/ pc[t] = "cleardir" /\ ClearDir(t, op(t).dir, "clearroot")
          \/ pc[t] = "clearroot" /\ ClearDir(t, "root", "leave")
      BY Zenon, <1>3 DEF CommitClear
    <2> QED
      BY Zenon, <1>1, <1>3, <2>1, ClearPoolKeeps, ClearDirKeeps
  <1> QED
    BY Zenon, <1>2, <1>3

\* dsl_dir_willuse_space()
LEMMA WillUseKeeps ==
    ASSUME SpaceInv, NEW t \in Txs, WillUse(t)
    PROVE  DoneBefore' /\ PoolInv' /\ DirInv' /\ WriteInv' /\ QuotaInv'
  <1>1. /\ UNCHANGED <<cast, tx_txg, dd_used>> /\ Through' = Through
        /\ \A u \in Txs \ {t} : pc'[u] = pc[u]
        /\ IInv /\ GroupInv /\ PoolInv /\ DirInv /\ WriteInv /\ QuotaInv /\ DoneBefore'
    BY Zenon, TxMoves
  <1>2. pc[t] = "assigned" /\ pc'[t] = "commit" /\ UNCHANGED <<dd_tempreserved, dp_tempreserved>>
    BY Zenon, <1>1 DEF WillUse, Goto, IInv, TypeOK
  <1>3. PoolInv'
    BY Zenon, <1>1, <1>2, PoolKeep DEF InPool
  <1>4. DirInv'
    BY Zenon, <1>1, <1>2, DirKeep DEF InDir
  <1>5. WriteInv'
    BY Zenon, <1>1, WriteAdd
  <1>6. QuotaInv'
    BY Zenon, <1>2, TxStays DEF LetIn, Dirty
  <1> QED
    BY Zenon, <1>1, <1>3, <1>4, <1>5, <1>6

\* The steps of the groups that write no estimate away and charge nothing.
LEMMA GroupQuiet ==
    ASSUME SpaceInv,
           \/ SyncThreadAsks \/ Quiesce \/ Quiesced \/ SyncStart \/ SyncDone \/ Suspend \/ Resume
           \/ (\E k \in Tasks : SyncTask(k)) \/ (\E k \in Tasks : TaskStep(k))
    PROVE  DoneBefore' /\ PoolInv' /\ DirInv' /\ WriteInv' /\ QuotaInv'
  <1>1. tx_open_txg \in Nat /\ PipeInv
    BY Zenon DEF SpaceInv, GroupInv, IInv, TypeOK
  <1>2. /\ UNCHANGED <<cast, pc, tx_txg, netfree, dd_used, dd_space_towrite, dd_tempreserved, dp_tempreserved>>
        /\ tx_open_txg' \in {tx_open_txg, tx_open_txg + 1} /\ Through' = Through /\ Cleared' = Cleared
    <2> USE DEF txVars, estVars, resVars, diskVars, pipeVars, Through, Cleared
    <2>1. CASE SyncThreadAsks \/ Suspend \/ Resume
      BY Zenon, <2>1 DEF SyncThreadAsks, Suspend, Resume
    <2>2. CASE Quiesce \/ Quiesced
      BY Zenon, <2>2 DEF Quiesce, Quiesced
    <2>3. CASE SyncStart
      BY Zenon, <1>1, <2>3 DEF SyncStart, PipeInv
    <2>4. CASE SyncDone
      BY Zenon, <2>4 DEF SyncDone
    <2>5. CASE \E k \in Tasks : SyncTask(k)
      BY Zenon, <2>5 DEF SyncTask
    <2>6. CASE \E k \in Tasks : TaskStep(k)
      BY Zenon, <2>6 DEF TaskStep, TaskAssign, TaskCheck, TaskCommit, TaskAgain, TaskWake, TaskSleep
    <2> QED
      BY Zenon, <2>1, <2>2, <2>3, <2>4, <2>5, <2>6
  <1>3. tx_open_txg' \in Nat /\ tx_open_txg <= tx_open_txg'
    BY <1>1, <1>2
  <1>4. \A u \in Txs : pc'[u] = pc[u] /\ tx_txg'[u] = tx_txg[u]
    BY Zenon, <1>2
  <1> QED
    BY Zenon, <1>2, <1>3, <1>4, QuietKeeps

\* dsl_pool_sync()
LEMMA SyncKeeps ==
    ASSUME SpaceInv, SyncDatasets \/ SyncDirs
    PROVE  DoneBefore' /\ PoolInv' /\ DirInv' /\ WriteInv' /\ QuotaInv'
  <1>1. /\ UNCHANGED <<cast, pc, tx_txg, netfree, dd_tempreserved, dp_tempreserved, tx_open_txg>>
        /\ IInv /\ GroupInv /\ DoneBefore /\ PoolInv /\ DirInv /\ WriteInv /\ QuotaInv
    BY Zenon DEF SyncDatasets, SyncDirs, txVars, estVars, resVars, SpaceInv, GroupInv
  <1>2. DoneBefore'
    BY Zenon, <1>1 DEF DoneBefore
  <1>3. PoolInv'
    BY Zenon, <1>1, PoolKeep
  <1>4. DirInv'
    BY Zenon, <1>1, DirKeep
  <1>5. CASE SyncDatasets
    <2>1. UNCHANGED dd_space_towrite /\ Cleared' = Cleared
      BY Zenon, <1>5 DEF SyncDatasets, resVars, Cleared
    <2>2. WriteInv'
      BY Zenon, <1>1, <2>1, WriteKeep
    <2> QED
      BY Zenon, <1>1, <1>2, <1>3, <1>4, <1>5, <2>2, QuotaCharge
  <1>6. CASE SyncDirs
    <2>1. UNCHANGED dd_used /\ Through' = Through
      BY Zenon, <1>6 DEF SyncDirs, diskVars, Through
    <2>2. QuotaInv'
      BY Zenon, <1>1, <2>1, QuotaStays DEF QuotaInv
    <2> QED
      BY Zenon, <1>1, <1>2, <1>3, <1>4, <1>6, <2>2, WriteClear
  <1> QED
    BY Zenon, <1>5, <1>6

\* The initial states satisfy the invariant: nothing is reserved.
LEMMA InitSpaceInv == Init => SpaceInv
  <1> SUFFICES ASSUME Init PROVE SpaceInv
    BY Zenon
  <1>1. GroupInv
    BY Zenon, InitIInv, InitPipeInv DEF GroupInv
  <1>2. \A t \in Txs : pc[t] \in {"start", "failed"}
    BY Zenon DEF Init
  <1>3. /\ \A g : PoolReservers(g) = {}
        /\ \A d, g : DirReservers(d, g) = {} /\ Writers(d, g) = {}
        /\ \A d : Uncharged(d) = {} /\ Exempt(d) = {}
    BY Zenon, <1>2 DEF PoolReservers, DirReservers, Writers, Admitted, Uncharged, Exempt, InPool, InDir, Dirty, LetIn
  <1>4. /\ \A g : Size(cast.tx, PoolReservers(g)) = 0
        /\ \A d, g : Size(cast.tx, DirReservers(d, g)) = 0 /\ Size(cast.tx, Writers(d, g)) = 0
        /\ \A d : Size(cast.tx, Uncharged(d)) = 0 /\ Size(cast.tx, Exempt(d)) = 0
    BY Zenon, <1>3, SizeEmpty
  <1>5. DoneBefore
    BY Zenon, <1>2 DEF DoneBefore
  <1>6. PoolInv
    BY Zenon, <1>4 DEF Init, PoolInv
  <1>7. DirInv
    BY Zenon, <1>4 DEF Init, DirInv
  <1>8. WriteInv
    BY Zenon, <1>4 DEF Init, WriteInv
  <1>9. QuotaInv
    <2>1. \A d \in Dirs : dd_used[d] = cast.used[d] /\ cast.used[d] \in Nat
      BY Zenon, DmuTxAssumption DEF Init, UsedAtStart, AllDirs
    <2>2. \A d \in Dirs : dd_used[d] \in Int /\ dd_used[d] + 0 - 0 <= cast.used[d]
      BY <2>1
    <2>3. DOMAIN netfree = Txs
      BY Zenon DEF Init
    <2>4. \A d \in Dirs : Promised(d) <= cast.used[d]
      BY Zenon, <1>4, <2>2 DEF Promised
    <2> QED
      BY Zenon, <2>2, <2>3, <2>4 DEF QuotaInv, WithinQuota
  <1> QED
    BY Zenon, <1>1, <1>5, <1>6, <1>7, <1>8, <1>9 DEF SpaceInv

\* Every step preserves it.
LEMMA NextSpaceInv == SpaceInv /\ [Next]_vars => SpaceInv'
  <1> SUFFICES ASSUME SpaceInv, [Next]_vars PROVE SpaceInv'
    BY Zenon
  <1>1. GroupInv'
    BY Zenon, NextIInv, NextPipeInv DEF SpaceInv, GroupInv
  <1>2. DoneBefore' /\ PoolInv' /\ DirInv' /\ WriteInv' /\ QuotaInv'
    <2>1. ASSUME NEW t \in Txs, TxStep(t)
          PROVE  DoneBefore' /\ PoolInv' /\ DirInv' /\ WriteInv' /\ QuotaInv'
      BY Zenon, <2>1, TxQuiet, ReservePoolKeeps, ReserveDirKeeps, WillUseKeeps, ClearKeeps DEF TxStep
    <2>2. CASE (\E k \in Tasks : TaskStep(k)) \/ Suspend \/ Resume
      BY Zenon, <2>2, GroupQuiet
    <2>3. CASE GroupStep
      BY Zenon, <2>3, GroupQuiet, SyncKeeps DEF GroupStep, SyncStep
    <2>4. CASE UNCHANGED vars
      <3>1. /\ UNCHANGED <<cast, pc, tx_txg, netfree, dd_used, dd_space_towrite, dd_tempreserved, dp_tempreserved>>
            /\ tx_open_txg' = tx_open_txg /\ tx_open_txg \in Nat /\ Through' = Through /\ Cleared' = Cleared
        BY Zenon, <2>4 DEF vars, estVars, pipeVars, txVars, resVars, diskVars, Through, Cleared, SpaceInv, GroupInv, IInv, TypeOK
      <3>2. tx_open_txg' \in Nat /\ tx_open_txg <= tx_open_txg'
        BY <3>1
      <3>3. \A u \in Txs : pc'[u] = pc[u] /\ tx_txg'[u] = tx_txg[u]
        BY Zenon, <3>1
      <3> QED
        BY Zenon, <3>1, <3>2, <3>3, QuietKeeps
    <2> QED
      BY Zenon, <2>1, <2>2, <2>3, <2>4 DEF Next
  <1> QED
    BY Zenon, <1>1, <1>2 DEF SpaceInv

\* Every counter of reserved and dirty space is the sum over the
\* transactions that dmu_tx_try_assign() and dmu_tx_commit() have it count.
THEOREM SpaceInvariant == Spec => []SpaceInv
  <1>1. Init => SpaceInv
    BY Zenon, InitSpaceInv
  <1>2. SpaceInv /\ [Next]_vars => SpaceInv'
    BY Zenon, NextSpaceInv
  <1> QED
    BY <1>1, <1>2, PTL DEF Spec

\* The assertions of dsl_dir_sync() and dsl_pool_sync(): nothing is
\* reserved in the group that is written, since a transaction gives its
\* reservation back before it leaves its group and the groups that can have
\* a transaction inside have other slots.
THEOREM ReservationsAlwaysEnd == Spec => []ReservationsEnd
  <1>1. SpaceInv => ReservationsEnd
    <2> SUFFICES ASSUME SpaceInv, tx_syncing_txg # 0
                 PROVE  /\ dp_tempreserved[Slot(tx_syncing_txg)] = 0
                        /\ \A d \in AllDirs : dd_tempreserved[d][Slot(tx_syncing_txg)] = 0
      BY Zenon DEF ReservationsEnd
    <2> DEFINE h == Slot(tx_syncing_txg)
    <2>1. IInv /\ PipeInv /\ PoolInv /\ DirInv
      BY Zenon DEF SpaceInv, GroupInv
    <2>2. tx_syncing_txg \in Nat /\ h \in Slots
      BY <2>1, SlotType DEF PipeInv
    <2>3. ASSUME NEW t \in Txs, pc[t] \in Inside PROVE Slot(tx_txg[t]) # h
      <3>1. /\ tx_txg[t] \in Nat /\ tx_txg[t] > tx_syncing_txg /\ tx_txg[t] < tx_syncing_txg + 3
        BY <2>1, <2>3 DEF IInv, TypeOK, TxInv, PipeInv
      <3> QED
        BY <2>2, <3>1, SlotsDiffer
    <2>4. PoolReservers(h) = {} /\ \A d \in AllDirs : DirReservers(d, h) = {}
      BY Zenon, <2>3 DEF PoolReservers, DirReservers, InPool, InDir, Inside, TcLocked
    <2>5. Size(cast.tx, PoolReservers(h)) = 0 /\ \A d \in AllDirs : Size(cast.tx, DirReservers(d, h)) = 0
      BY Zenon, <2>4, SizeEmpty
    <2> QED
      BY Zenon, <2>1, <2>2, <2>5 DEF PoolInv, DirInv
  <1> QED
    BY <1>1, SpaceInvariant, PTL

\* However many transactions race for the last free space of a file system,
\* it exceeds its quota by less than one of them (the "one free hit" of
\* dsl_dir_tempreserve_impl()), apart from what was written by those that
\* were let in as net free.
THEOREM QuotaAlwaysHolds == Spec => []QuotaHolds
  <1>1. SpaceInv => QuotaHolds
    <2> SUFFICES ASSUME SpaceInv, NEW d \in Dirs
                 PROVE  WithinQuota(d, dd_used[d] - Size(cast.tx, Exempt(d)))
      BY Zenon DEF QuotaHolds
    <2> DEFINE used == dd_used[d] - Size(cast.tx, Exempt(d))
    <2>1. IInv /\ QuotaInv /\ dd_used[d] \in Int
      BY Zenon DEF SpaceInv, GroupInv, QuotaInv
    <2>2. /\ Size(cast.tx, Uncharged(d)) \in Nat /\ Size(cast.tx, Exempt(d)) \in Nat
          /\ Promised(d) \in Int /\ Quota[d] \in Nat /\ cast.used[d] \in Nat
          /\ \A t \in Admitted(d) : op(t).asize \in Nat
      BY Zenon, <2>1, PromisedType
    <2>3. used \in Int /\ used <= Promised(d)
      <3>1. \A a \in Int, b, c \in Nat : a - c \in Int /\ a - c <= a + b - c
        OBVIOUS
      <3>2. Promised(d) = dd_used[d] + Size(cast.tx, Uncharged(d)) - Size(cast.tx, Exempt(d))
        BY Zenon DEF Promised
      <3> QED
        BY Zenon, <2>1, <2>2, <3>1, <3>2
    <2>4. Quota[d] # 0 => \/ Promised(d) < Quota[d]
                          \/ Promised(d) <= cast.used[d]
                          \/ \E t \in Admitted(d) : Promised(d) < Quota[d] + op(t).asize
      BY Zenon, <2>1 DEF QuotaInv, WithinQuota
    <2> HIDE DEF used
    <2>5. ASSUME NEW t \in Admitted(d), Promised(d) < Quota[d] + op(t).asize
          PROVE  used < Quota[d] + op(t).asize
      BY <2>2, <2>3, <2>5
    <2>6. /\ Promised(d) < Quota[d] => used < Quota[d]
          /\ Promised(d) <= cast.used[d] => used <= cast.used[d]
      BY <2>2, <2>3
    <2>7. Quota[d] # 0 => \/ used < Quota[d] \/ used <= cast.used[d]
                          \/ \E t \in Admitted(d) : used < Quota[d] + op(t).asize
      BY Zenon, <2>4, <2>5, <2>6
    <2> QED
      BY Zenon, <2>7 DEF used, WithinQuota
  <1> QED
    BY <1>1, SpaceInvariant, PTL

=============================================================================
