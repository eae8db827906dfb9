---------------------------- MODULE LockProofs ----------------------------
(***************************************************************************)
(* Proofs about the locks of a pool and of a file system.  First, the      *)
(* safety properties of module SpaConfigLock for any number of writes,     *)
(* readers and administrators: the counters of a configuration lock are    *)
(* what its users hold, whoever changes the configuration or the state of  *)
(* a device is alone, and no command returns before its change is on disk. *)
(* Second, that the writer of a re-entrant reader/writer lock, module      *)
(* Rrwlock, excludes the readers.                                          *)
(***************************************************************************)
EXTENDS SpaConfigLock, FiniteSetTheorems, TLAPS

LocksInv == (\A u \in Users : UserInv(u)) /\ (\A l \in SCL_ALL : LockInv(l))

Calls == [op : {"none", "enter", "try", "exit"}, rw : {"R", "W"},
          locks : SUBSET SCL_ALL, todo : SUBSET SCL_ALL, at : {"run", "wait", "woken"}]

\* A call with locks to take or to give back has a first and a last one.
LEMMA Extremes ==
    ASSUME NEW S \in SUBSET SCL_ALL, S # {}
    PROVE  Min(S) \in S /\ Max(S) \in S
  <1>1. \E x \in S : \A y \in S : x <= y
    <2> SUFFICES ASSUME \A x \in S : \E y \in S : y < x PROVE FALSE
      BY DEF SCL_ALL
    <2>1. 0 \notin S
      BY DEF SCL_ALL
    <2>2. 1 \notin S
      BY <2>1 DEF SCL_ALL
    <2>3. 2 \notin S
      BY <2>1, <2>2 DEF SCL_ALL
    <2>4. 3 \notin S
      BY <2>1, <2>2, <2>3 DEF SCL_ALL
    <2>5. 4 \notin S
      BY <2>1, <2>2, <2>3, <2>4 DEF SCL_ALL
    <2>6. 5 \notin S
      BY <2>1, <2>2, <2>3, <2>4, <2>5 DEF SCL_ALL
    <2>7. 6 \notin S
      BY <2>1, <2>2, <2>3, <2>4, <2>5, <2>6 DEF SCL_ALL
    <2>8. PICK x \in S : TRUE
      BY Zenon
    <2>9. x \in 0 .. 6
      BY Zenon DEF SCL_ALL
    <2> QED
      BY <2>1, <2>2, <2>3, <2>4, <2>5, <2>6, <2>7, <2>9
  <1>2. \E x \in S : \A y \in S : x >= y
    <2> SUFFICES ASSUME \A x \in S : \E y \in S : y > x PROVE FALSE
      BY DEF SCL_ALL
    <2>1. 6 \notin S
      BY DEF SCL_ALL
    <2>2. 5 \notin S
      BY <2>1 DEF SCL_ALL
    <2>3. 4 \notin S
      BY <2>1, <2>2 DEF SCL_ALL
    <2>4. 3 \notin S
      BY <2>1, <2>2, <2>3 DEF SCL_ALL
    <2>5. 2 \notin S
      BY <2>1, <2>2, <2>3, <2>4 DEF SCL_ALL
    <2>6. 1 \notin S
      BY <2>1, <2>2, <2>3, <2>4, <2>5 DEF SCL_ALL
    <2>7. 0 \notin S
      BY <2>1, <2>2, <2>3, <2>4, <2>5, <2>6 DEF SCL_ALL
    <2>8. PICK x \in S : TRUE
      BY Zenon
    <2>9. x \in 0 .. 6
      BY Zenon DEF SCL_ALL
    <2> QED
      BY <2>1, <2>2, <2>3, <2>4, <2>5, <2>6, <2>7, <2>9
  <1> QED
    BY Zenon, <1>1, <1>2 DEF Min, Max

\* The kinds of users are distinct: what each of them holds.
LEMMA Kinds ==
    ASSUME NEW p
    PROVE  /\ \A u \in Admins : At(u, p) = IF p \in {"change", "freed"} THEN SCL_ALL ELSE {}
           /\ \A u \in Offlines : At(u, p) = IF p = "change" THEN SCL_STATE_ALL ELSE {}
           /\ \A u \in Getattrs : At(u, p) = IF p = "name" THEN SCL_ALL ELSE {}
           /\ \A u \in Reads : At(u, p) = IF p = "read" THEN {SCL_L2ARC} ELSE {}
           /\ \A u \in Ios \cup {Child} : At(u, p) = OfIo(p)
           /\ At(Sync, p) = OfSync(p)
  BY Zenon, SpaConfigLockAssumption DEF At

\* What the steps of an I/O hold.
LEMMA IoLocks ==
    /\ OfIo("start") = {} /\ OfIo("alloc") = {} /\ OfIo("io") = {} /\ OfIo("free") = {}
    /\ OfIo("off") = {} /\ OfIo("labels") = {}
    /\ OfIo("allocatable") = {SCL_ALLOC} /\ OfIo("activate") = {SCL_ALLOC}
    /\ OfIo("wait") = {SCL_ALLOC} /\ OfIo("issued") = {SCL_ZIO} /\ OfIo("freed") = {SCL_FREE}
    /\ OfIo("allocated") = {SCL_ALLOC, SCL_ZIO}
  BY Zenon DEF OfIo

\* The users of a lock are finitely many.
LEMMA FiniteHolders ==
    ASSUME NEW l
    PROVE  /\ IsFiniteSet(Holders(l)) /\ Cardinality(Holders(l)) \in Nat
           /\ IsFiniteSet(Waiting(l)) /\ Cardinality(Waiting(l)) \in Nat
  <1>1. Holders(l) \subseteq Users /\ Waiting(l) \subseteq Users
    BY Zenon DEF Holders, Waiting
  <1> QED
    BY Zenon, <1>1, FS_Subset, FS_CardinalityType, SpaConfigLockAssumption

\* Nobody holds anything in the beginning.
LEMMA InitIInv == Init => IInv
  <1> SUFFICES ASSUME Init PROVE IInv
    BY Zenon
  <1>1. \A u \in Users : At(u, pc[u]) = {} /\ call[u] = NoCall /\ held[u] = [l \in {} |-> "R"]
    <2> TAKE u \in Users
    <2>1. pc[u] \in {"start", "off"} /\ (pc[u] = "off" => u = Child)
          /\ call[u] = NoCall /\ held[u] = [l \in {} |-> "R"]
      BY Zenon DEF Init
    <2>2. At(u, pc[u]) = {}
      <3>1. OfSync("start") = {}
        BY Zenon DEF OfSync
      <3>2. CASE u \in Ios \cup {Child}
        BY <2>1, <3>2, Kinds, IoLocks
      <3>3. CASE u = Sync
        BY Zenon, <2>1, <3>1, <3>3, Kinds, SpaConfigLockAssumption
      <3>4. CASE u \in Admins \cup Offlines \cup Getattrs \cup Reads
        BY <2>1, <3>4, Kinds, Zenon
      <3> QED
        BY Zenon, <3>2, <3>3, <3>4 DEF Users
    <2> QED
      BY Zenon, <2>1, <2>2
  <1>2. Types
    <2>1. cast.changes \in Nat
      BY Zenon, SpaConfigLockAssumption DEF Init
    <2>2. NoCall \in Calls
      BY Zenon DEF NoCall, Calls
    <2>3. call \in [Users -> Calls]
      BY Zenon, <2>2 DEF Init
    <2> QED
      BY <2>1, <2>3 DEF Init, Types, MaxChanges, Calls
  <1>3. \A u \in Users : UserInv(u)
    <2> TAKE u \in Users
    <2>1. call[u].op = "none" /\ call[u].todo = {} /\ call[u].at = "run"
      BY <1>1 DEF NoCall
    <2>2. Has(u) = {} /\ DOMAIN held[u] = {}
      BY Zenon, <1>1, <2>1 DEF Has
    <2> QED
      BY Zenon, <1>1, <2>1, <2>2 DEF UserInv
  <1>4. \A l \in SCL_ALL : LockInv(l)
    <2> TAKE l \in SCL_ALL
    <2>1. Holders(l) = {} /\ Waiting(l) = {}
      BY <1>1 DEF Holders, Waiting, NoCall
    <2> QED
      BY Zenon, <2>1, FS_EmptySet DEF LockInv, Init
  <1>5. DirtyInv
    BY Zenon DEF Init, DirtyInv
  <1> QED
    BY Zenon, <1>2, <1>3, <1>4, <1>5 DEF IInv

-----------------------------------------------------------------------------
\* A user is not concerned by what others do.
LEMMA SameUser ==
    ASSUME NEW v, UserInv(v), held'[v] = held[v], call'[v] = call[v], pc'[v] = pc[v]
    PROVE  UserInv(v)'
  <1>1. Has(v)' = Has(v) /\ At(v, pc[v])' = At(v, pc[v])
    BY Zenon DEF Has, At
  <1> QED
    BY Zenon, <1>1 DEF UserInv, Mode

\* A call fits the code around it: it takes what is not held, or gives back
\* what is, and is made in the mode of the locks that are held.
Fits(u, from, op, locks, rw, to) ==
    /\ IF op = "exit" THEN locks \subseteq At(u, from) /\ At(u, to) = At(u, from) \ locks
                      ELSE locks \cap At(u, from) = {} /\ At(u, to) = At(u, from) \cup locks
    /\ At(u, from) # {} => rw = Mode(u, from)
    /\ At(u, to) # {} => rw = Mode(u, to)
    /\ op = "try" => u \in Reads /\ locks = {SCL_L2ARC}

\* The locks a user holds stay the same when it makes a call.
LEMMA DoKeeps ==
    ASSUME IInv, NEW u \in Users, NEW from, NEW op \in {"none", "enter", "try", "exit"},
           NEW locks \in SUBSET SCL_ALL, NEW rw \in {"R", "W"}, NEW to,
           Do(u, from, op, locks, rw, to), Fits(u, from, op, locks, rw, to)
    PROVE  /\ LocksInv' /\ call' \in [Users -> Calls] /\ DOMAIN pc' = Users
           /\ pc' = [pc EXCEPT ![u] = to] /\ UNCHANGED <<scl, held>>
  <1> DEFINE new == [op |-> op, rw |-> rw, locks |-> locks, todo |-> locks, at |-> "run"]
  <1>1. /\ call \in [Users -> Calls] /\ DOMAIN pc = Users
        /\ pc[u] = from /\ call[u].todo = {} /\ UserInv(u)
    BY Zenon DEF IInv, Types, Calls, Do
  <1>2. /\ call' = [call EXCEPT ![u] = new] /\ pc' = [pc EXCEPT ![u] = to]
        /\ scl' = scl /\ held' = held
    BY Zenon DEF Do
  <1>3. new \in Calls
    BY Zenon DEF Calls
  <1>4. call'[u] = new /\ pc'[u] = to
    BY Zenon, <1>1, <1>2
  <1>5. \A v \in Users \ {u} : call'[v] = call[v] /\ pc'[v] = pc[v]
    BY Zenon, <1>1, <1>2
  <1>6. Has(u) = At(u, from)
    BY Zenon, <1>1 DEF Has
  <1>7. Has(u)' = At(u, from)
    <2>1. CASE op = "exit"
      BY <1>4, <2>1 DEF Has, Fits
    <2>2. CASE op # "exit"
      BY <1>4, <2>2 DEF Has, Fits
    <2> QED
      BY Zenon, <2>1, <2>2
  <1>8. UserInv(u)'
    <2>1. /\ DOMAIN held[u] = At(u, from)
          /\ \A l \in At(u, from) : held[u][l] = rw
      BY Zenon, <1>1, <1>6 DEF UserInv, Fits
    <2>2. IF op = "exit" THEN locks \cap At(u, to) = {} ELSE locks \subseteq At(u, to)
      BY Zenon DEF Fits
    <2> QED
      BY <1>2, <1>4, <1>7, <2>1, <2>2 DEF UserInv, Fits
  <1>9. \A v \in Users \ {u} : UserInv(v)'
    BY Zenon, <1>2, <1>5, SameUser DEF IInv
  <1>10. \A l \in SCL_ALL : LockInv(l)'
    <2> TAKE l \in SCL_ALL
    <2>1. Holders(l)' = Holders(l)
      BY Zenon, <1>2 DEF Holders
    <2>2. u \notin Waiting(l) /\ u \notin Waiting(l)'
      BY <1>1, <1>4 DEF UserInv, Waiting
    <2>3. Waiting(l)' = Waiting(l)
      BY Zenon, <1>5, <2>2 DEF Waiting, NextLock
    <2> QED
      BY Zenon, <1>2, <2>1, <2>3 DEF IInv, LockInv
  <1>11. call' \in [Users -> Calls] /\ DOMAIN pc' = Users
    BY Zenon, <1>1, <1>2, <1>3
  <1>12. \A v \in Users : UserInv(v)'
    BY Zenon, <1>8, <1>9
  <1> QED
    BY Zenon, <1>2, <1>10, <1>11, <1>12 DEF LocksInv

-----------------------------------------------------------------------------
\* The lock that is taken next is not held.
LEMMA NextIsFree ==
    ASSUME IInv, NEW u \in Users, call[u].op # "exit", call[u].todo # {}
    PROVE  /\ NextLock(u) \in call[u].todo /\ NextLock(u) \in SCL_ALL
           /\ u \notin Holders(NextLock(u)) /\ NextLock(u) \in At(u, pc[u])
  <1>1. call[u].todo \in SUBSET SCL_ALL /\ UserInv(u)
    BY Zenon DEF IInv, Types
  <1>2. NextLock(u) \in call[u].todo
    BY Zenon, <1>1, Extremes DEF NextLock
  <1> QED
    BY Zenon, <1>1, <1>2 DEF UserInv, Has, Holders

\* A user is granted the next lock of its call: it holds one lock more, and
\* does not wait any more.
LEMMA GrantKeeps ==
    ASSUME IInv, NEW u \in Users, call[u].op # "exit", call[u].todo # {},
           Grant(u, NextLock(u)), UNCHANGED pc
    PROVE  /\ \A v \in Users : UserInv(v)'
           /\ call' \in [Users -> Calls] /\ DOMAIN held' = Users
           /\ \A k \in SCL_ALL :
                 /\ Holders(k)' = IF k = NextLock(u) THEN Holders(k) \cup {u} ELSE Holders(k)
                 /\ Waiting(k)' = Waiting(k) \ {u}
                 /\ \A v \in Holders(k) : held'[v][k] = held[v][k]
           /\ held'[u][NextLock(u)] = call[u].rw
  <1> DEFINE l == NextLock(u)
             new == [call[u] EXCEPT !.todo = @ \ {l}, !.at = "run"]
             h == [k \in DOMAIN held[u] \cup {l} |-> IF k = l THEN call[u].rw ELSE held[u][k]]
  <1>1. /\ call \in [Users -> Calls] /\ DOMAIN held = Users /\ UserInv(u)
    BY Zenon DEF IInv, Types, Calls
  <1>2. /\ call' = [call EXCEPT ![u] = new] /\ held' = [held EXCEPT ![u] = h]
    BY Zenon DEF Grant
  <1>3. /\ l \in call[u].todo /\ l \in SCL_ALL /\ u \notin Holders(l) /\ l \in At(u, pc[u])
    BY Zenon, NextIsFree
  <1>4. /\ new \in Calls /\ new.op = call[u].op /\ new.rw = call[u].rw
        /\ new.todo = call[u].todo \ {l} /\ new.at = "run" /\ new.locks = call[u].locks
    BY <1>1, Zenon DEF Calls
  <1>5. /\ call'[u] = new /\ held'[u] = h
        /\ \A v \in Users \ {u} : call'[v] = call[v] /\ held'[v] = held[v]
    BY Zenon, <1>1, <1>2
  <1>6. /\ DOMAIN h = DOMAIN held[u] \cup {l} /\ h[l] = call[u].rw
        /\ \A k \in DOMAIN held[u] \ {l} : h[k] = held[u][k]
    BY Zenon
  <1>7. Has(u)' = Has(u) \cup {l}
    BY Zenon, <1>3, <1>4, <1>5 DEF Has
  <1>8. UserInv(u)'
    BY <1>1, <1>4, <1>5, <1>6, <1>7 DEF UserInv, Mode
  <1>9. \A v \in Users \ {u} : UserInv(v)'
    BY Zenon, <1>5, SameUser DEF IInv
  <1>10. ASSUME NEW k \in SCL_ALL
         PROVE  /\ Holders(k)' = IF k = l THEN Holders(k) \cup {u} ELSE Holders(k)
                /\ Waiting(k)' = Waiting(k) \ {u}
                /\ \A v \in Holders(k) : held'[v][k] = held[v][k]
    <2>1. Holders(k)' = IF k = l THEN Holders(k) \cup {u} ELSE Holders(k)
      BY <1>5, <1>6 DEF Holders
    <2>2. u \notin Waiting(k)'
      BY <1>4, <1>5, Zenon DEF Waiting
    <2>3. Waiting(k)' = Waiting(k) \ {u}
      BY <1>5, <2>2 DEF Waiting, NextLock
    <2>4. ASSUME NEW v \in Holders(k) PROVE held'[v][k] = held[v][k]
      <3>1. CASE v = u
        BY Zenon, <1>3, <1>5, <1>6, <3>1 DEF Holders
      <3>2. CASE v # u
        BY Zenon, <1>5, <3>2 DEF Holders
      <3> QED
        BY Zenon, <3>1, <3>2
    <2> QED
      BY Zenon, <2>1, <2>3, <2>4
  <1>11. call' \in [Users -> Calls] /\ DOMAIN held' = Users
    BY Zenon, <1>1, <1>2, <1>4
  <1> QED
    BY Zenon, <1>5, <1>6, <1>8, <1>9, <1>10, <1>11

\* A user starts to wait, or finds when it is woken that it has to wait again.
LEMMA WaitKeeps ==
    ASSUME IInv, NEW u \in Users, call[u].op = "enter", call[u].todo # {},
           call' = [call EXCEPT ![u].at = "wait"], UNCHANGED <<held, pc>>
    PROVE  /\ \A v \in Users : UserInv(v)'
           /\ call' \in [Users -> Calls]
           /\ \A k \in SCL_ALL :
                 /\ Holders(k)' = Holders(k)
                 /\ Waiting(k)' = IF k = NextLock(u) /\ call[u].rw = "W"
                                  THEN Waiting(k) \cup {u} ELSE Waiting(k)
  <1> DEFINE new == [call[u] EXCEPT !.at = "wait"]
  <1>1. /\ call \in [Users -> Calls] /\ DOMAIN held = Users /\ UserInv(u)
    BY Zenon DEF IInv, Types, Calls
  <1>2. /\ new \in Calls /\ new.op = call[u].op /\ new.rw = call[u].rw
        /\ new.todo = call[u].todo /\ new.at = "wait" /\ new.locks = call[u].locks
    BY Zenon, <1>1 DEF Calls
  <1>3. /\ call'[u] = new /\ \A v \in Users \ {u} : call'[v] = call[v]
    BY Zenon, <1>1
  <1>4. UserInv(u)'
    <2>1. Has(u)' = Has(u)
      BY Zenon, <1>2, <1>3 DEF Has
    <2> QED
      BY Zenon, <1>1, <1>2, <1>3, <2>1 DEF UserInv, Mode
  <1>5. \A v \in Users \ {u} : UserInv(v)'
    BY Zenon, <1>3, SameUser DEF IInv
  <1>6. ASSUME NEW k \in SCL_ALL
        PROVE  Waiting(k)' = IF k = NextLock(u) /\ call[u].rw = "W"
                             THEN Waiting(k) \cup {u} ELSE Waiting(k)
    <2>1. NextLock(u)' = NextLock(u)
      BY Zenon, <1>2, <1>3 DEF NextLock
    <2>2. u \in Waiting(k)' <=> k = NextLock(u) /\ call[u].rw = "W"
      BY <1>2, <1>3, <2>1, Zenon DEF Waiting
    <2>3. u \in Waiting(k) => k = NextLock(u) /\ call[u].rw = "W"
      BY Zenon DEF Waiting
    <2>4. \A v \in Users \ {u} : v \in Waiting(k)' <=> v \in Waiting(k)
      BY Zenon, <1>3 DEF Waiting, NextLock
    <2>5. Waiting(k) \subseteq Users /\ Waiting(k)' \subseteq Users
      BY Zenon DEF Waiting
    <2> QED
      BY <2>2, <2>3, <2>4, <2>5
  <1>7. \A k \in SCL_ALL : Holders(k)' = Holders(k)
    BY Zenon DEF Holders
  <1>8. call' \in [Users -> Calls]
    BY Zenon, <1>1, <1>2
  <1> QED
    BY Zenon, <1>4, <1>5, <1>6, <1>7, <1>8

\* The part of Types that the steps of a call can change.
LockTypes ==
    /\ scl \in [SCL_ALL -> [count : Nat, writer : Users \cup {NoUser}, wanted : Nat]]
    /\ call \in [Users -> Calls] /\ DOMAIN held = Users

\* A lock is not concerned by what is done to others.
LEMMA SameLock ==
    ASSUME NEW k, LockInv(k), scl'[k] = scl[k], Holders(k)' = Holders(k),
           Waiting(k)' = Waiting(k), \A v \in Holders(k) : held'[v][k] = held[v][k]
    PROVE  LockInv(k)'
  BY Zenon DEF LockInv

\* A reader enters a lock without a writer.
LEMMA ReaderKeeps ==
    ASSUME IInv, NEW u \in Users, call[u].op # "exit", call[u].todo # {}, call[u].rw = "R",
           MayRead(NextLock(u)), Grant(u, NextLock(u)), UNCHANGED pc,
           scl' = [scl EXCEPT ![NextLock(u)].count = @ + 1]
    PROVE  LocksInv' /\ LockTypes'
  <1> DEFINE l == NextLock(u)
  <1>1. l \in SCL_ALL /\ u \notin Holders(l)
    BY Zenon, NextIsFree
  <1>2. /\ scl \in [SCL_ALL -> [count : Nat, writer : Users \cup {NoUser}, wanted : Nat]]
        /\ \A k \in SCL_ALL : LockInv(k)
    BY Zenon DEF IInv, Types
  <1>3. /\ scl' \in [SCL_ALL -> [count : Nat, writer : Users \cup {NoUser}, wanted : Nat]]
        /\ scl'[l].count = scl[l].count + 1 /\ scl'[l].writer = scl[l].writer
        /\ scl'[l].wanted = scl[l].wanted /\ \A k \in SCL_ALL \ {l} : scl'[k] = scl[k]
    BY <1>1, <1>2
  <1>4. ASSUME NEW k \in SCL_ALL
        PROVE  /\ Holders(k)' = IF k = l THEN Holders(k) \cup {u} ELSE Holders(k)
               /\ Waiting(k)' = Waiting(k)
    <2>1. u \notin Waiting(k)
      BY Zenon DEF Waiting
    <2>2. /\ Holders(k)' = IF k = l THEN Holders(k) \cup {u} ELSE Holders(k)
          /\ Waiting(k)' = Waiting(k) \ {u}
      BY Zenon, GrantKeeps
    <2> QED
      BY Zenon, <2>1, <2>2
  <1>5. ASSUME NEW k \in SCL_ALL, k # l PROVE LockInv(k)'
    <2>1. Holders(k)' = Holders(k) /\ Waiting(k)' = Waiting(k)
      BY Zenon, <1>4, <1>5
    <2>2. \A v \in Holders(k) : held'[v][k] = held[v][k]
      BY Zenon, GrantKeeps
    <2> QED
      BY Zenon, <1>2, <1>3, <1>5, <2>1, <2>2, SameLock
  <1>6. ASSUME NEW k \in SCL_ALL, k = l PROVE LockInv(k)'
    <2>1. Holders(k)' = Holders(k) \cup {u} /\ Waiting(k)' = Waiting(k)
      BY Zenon, <1>4, <1>6
    <2>2. Cardinality(Holders(k)') = Cardinality(Holders(k)) + 1
      BY <1>1, <1>6, <2>1, FS_AddElement, FiniteHolders, Zenon
    <2>3. /\ \A v \in Holders(k) : held'[v][k] = held[v][k]
          /\ held'[u][k] = "R"
      BY Zenon, <1>6, GrantKeeps
    <2>4. scl[k].writer = NoUser /\ NoUser \notin Users /\ Holders(k) \subseteq Users
      BY Zenon, <1>6, SpaConfigLockAssumption DEF MayRead, Holders
    <2>5. \A v \in Holders(k) : held[v][k] # "W"
      BY Zenon, <1>2, <2>4 DEF LockInv
    <2> QED
      BY <1>2, <1>3, <1>6, <2>1, <2>2, <2>3, <2>4, <2>5 DEF LockInv
  <1>7. \A k \in SCL_ALL : LockInv(k)'
    BY Zenon, <1>5, <1>6
  <1> QED
    BY Zenon, <1>3, <1>7, GrantKeeps DEF LocksInv, LockTypes

\* A writer enters a lock that nobody holds, and is not wanted any more.
LEMMA WriterKeeps ==
    ASSUME IInv, NEW u \in Users, call[u].op = "enter", call[u].todo # {}, call[u].rw = "W",
           call[u].at # "wait", MayWrite(NextLock(u)), Grant(u, NextLock(u)), UNCHANGED pc,
           scl' = [scl EXCEPT ![NextLock(u)] =
                     [count |-> @.count + 1, writer |-> u,
                      wanted |-> scl[NextLock(u)].wanted - Counted(u)]]
    PROVE  LocksInv' /\ LockTypes'
  <1> DEFINE l == NextLock(u)
  <1>1. l \in SCL_ALL
    BY Zenon, NextIsFree
  <1>2. /\ scl \in [SCL_ALL -> [count : Nat, writer : Users \cup {NoUser}, wanted : Nat]]
        /\ \A k \in SCL_ALL : LockInv(k)
    BY Zenon DEF IInv, Types
  <1>3. Holders(l) = {} /\ scl[l].count = 0
    BY Zenon, <1>1, <1>2, FiniteHolders, FS_EmptySet DEF LockInv, MayWrite
  <1>4. scl[l].wanted - Counted(u) = Cardinality(Waiting(l) \ {u})
    <2>1. u \in Waiting(l) <=> call[u].at = "woken"
      BY Zenon DEF Waiting, IInv, Types
    <2>2. scl[l].wanted = Cardinality(Waiting(l)) /\ IsFiniteSet(Waiting(l))
          /\ Cardinality(Waiting(l)) \in Nat
      BY Zenon, <1>1, <1>2, FiniteHolders DEF LockInv
    <2>3. Cardinality(Waiting(l) \ {u}) =
            IF u \in Waiting(l) THEN Cardinality(Waiting(l)) - 1 ELSE Cardinality(Waiting(l))
      BY <2>2, FS_RemoveElement, Zenon
    <2> QED
      BY <2>1, <2>2, <2>3 DEF Counted
  <1>5. Cardinality(Waiting(l) \ {u}) \in Nat
    BY FiniteHolders, FS_RemoveElement, FS_CardinalityType, Zenon
  <1>6. /\ scl' \in [SCL_ALL -> [count : Nat, writer : Users \cup {NoUser}, wanted : Nat]]
        /\ scl'[l].count = 1 /\ scl'[l].writer = u
        /\ scl'[l].wanted = Cardinality(Waiting(l) \ {u})
        /\ \A k \in SCL_ALL \ {l} : scl'[k] = scl[k]
    BY <1>1, <1>2, <1>3, <1>4, <1>5
  <1>7. ASSUME NEW k \in SCL_ALL
        PROVE  /\ Holders(k)' = IF k = l THEN Holders(k) \cup {u} ELSE Holders(k)
               /\ Waiting(k)' = Waiting(k) \ {u}
    BY Zenon, GrantKeeps
  <1>8. ASSUME NEW k \in SCL_ALL, k # l PROVE LockInv(k)'
    <2>1. u \notin Waiting(k)
      BY Zenon, <1>8 DEF Waiting
    <2>2. Holders(k)' = Holders(k) /\ Waiting(k)' = Waiting(k)
      BY Zenon, <1>7, <1>8, <2>1
    <2>3. \A v \in Holders(k) : held'[v][k] = held[v][k]
      BY Zenon, GrantKeeps
    <2> QED
      BY Zenon, <1>2, <1>6, <1>8, <2>2, <2>3, SameLock
  <1>9. ASSUME NEW k \in SCL_ALL, k = l PROVE LockInv(k)'
    <2>1. Holders(k)' = {u} /\ Waiting(k)' = Waiting(k) \ {u}
      BY Zenon, <1>3, <1>7, <1>9
    <2>2. Cardinality(Holders(k)') = 1
      BY <2>1, FS_Singleton, Zenon
    <2>3. held'[u][k] = "W"
      BY Zenon, <1>9, GrantKeeps
    <2> QED
      BY Zenon, <1>6, <1>9, <2>1, <2>2, <2>3 DEF LockInv
  <1>10. \A k \in SCL_ALL : LockInv(k)'
    BY Zenon, <1>8, <1>9
  <1> QED
    BY Zenon, <1>6, <1>10, GrantKeeps DEF LocksInv, LockTypes

\* A writer that has to wait is counted once by scl_write_wanted.
LEMMA WriterWaits ==
    ASSUME IInv, NEW u \in Users, call[u].op = "enter", call[u].todo # {}, call[u].rw = "W",
           call[u].at # "wait", call' = [call EXCEPT ![u].at = "wait"], UNCHANGED <<held, pc>>,
           scl' = [scl EXCEPT ![NextLock(u)].wanted = scl[NextLock(u)].wanted - Counted(u) + 1]
    PROVE  LocksInv' /\ LockTypes'
  <1> DEFINE l == NextLock(u)
  <1>1. l \in SCL_ALL
    BY Zenon, NextIsFree
  <1>2. /\ scl \in [SCL_ALL -> [count : Nat, writer : Users \cup {NoUser}, wanted : Nat]]
        /\ \A k \in SCL_ALL : LockInv(k)
    BY Zenon DEF IInv, Types
  <1>3. scl[l].wanted - Counted(u) + 1 = Cardinality(Waiting(l) \cup {u})
    <2>1. u \in Waiting(l) <=> call[u].at = "woken"
      BY Zenon DEF Waiting, IInv, Types
    <2>2. scl[l].wanted = Cardinality(Waiting(l)) /\ IsFiniteSet(Waiting(l))
          /\ Cardinality(Waiting(l)) \in Nat
      BY Zenon, <1>1, <1>2, FiniteHolders DEF LockInv
    <2>3. Cardinality(Waiting(l) \cup {u}) =
            IF u \in Waiting(l) THEN Cardinality(Waiting(l)) ELSE Cardinality(Waiting(l)) + 1
      BY <2>2, FS_AddElement, Zenon
    <2> QED
      BY <2>1, <2>2, <2>3 DEF Counted
  <1>4. Cardinality(Waiting(l) \cup {u}) \in Nat
    BY FiniteHolders, FS_AddElement, FS_CardinalityType, Zenon
  <1>5. /\ scl' \in [SCL_ALL -> [count : Nat, writer : Users \cup {NoUser}, wanted : Nat]]
        /\ scl'[l].count = scl[l].count /\ scl'[l].writer = scl[l].writer
        /\ scl'[l].wanted = Cardinality(Waiting(l) \cup {u})
        /\ \A k \in SCL_ALL \ {l} : scl'[k] = scl[k]
    BY Zenon, <1>1, <1>2, <1>3, <1>4
  <1>6. ASSUME NEW k \in SCL_ALL
        PROVE  /\ Holders(k)' = Holders(k)
               /\ Waiting(k)' = IF k = l THEN Waiting(k) \cup {u} ELSE Waiting(k)
    BY WaitKeeps, Zenon
  <1>7. ASSUME NEW k \in SCL_ALL, k # l PROVE LockInv(k)'
    BY Zenon, <1>2, <1>5, <1>6, <1>7, SameLock
  <1>8. ASSUME NEW k \in SCL_ALL, k = l PROVE LockInv(k)'
    <2>1. Holders(k)' = Holders(k) /\ Waiting(k)' = Waiting(k) \cup {u}
      BY Zenon, <1>6, <1>8
    <2> QED
      BY <1>2, <1>5, <1>8, <2>1 DEF LockInv
  <1>9. \A k \in SCL_ALL : LockInv(k)'
    BY Zenon, <1>7, <1>8
  <1>10. DOMAIN held' = Users
    BY Zenon DEF IInv, Types
  <1> QED
    BY <1>5, <1>9, <1>10, WaitKeeps, Zenon DEF LocksInv, LockTypes

\* A reader that has to wait is not counted.
LEMMA ReaderWaits ==
    ASSUME IInv, NEW u \in Users, call[u].op = "enter", call[u].todo # {}, call[u].rw = "R",
           call' = [call EXCEPT ![u].at = "wait"], UNCHANGED <<scl, held, pc>>
    PROVE  LocksInv' /\ LockTypes'
  <1>1. ASSUME NEW k \in SCL_ALL PROVE LockInv(k)'
    <2>1. Holders(k)' = Holders(k) /\ Waiting(k)' = Waiting(k)
      BY WaitKeeps, Zenon
    <2> QED
      BY Zenon, <2>1, SameLock DEF IInv
  <1>2. LockTypes'
    BY WaitKeeps, Zenon DEF LockTypes, IInv, Types
  <1> QED
    BY <1>1, <1>2, WaitKeeps, Zenon DEF LocksInv

\* spa_config_tryenter() for one lock has nothing to give back when it fails.
LEMMA TryFails ==
    ASSUME IInv, NEW u \in Users, call[u].op = "try", call[u].todo # {},
           call' = [call EXCEPT ![u].op = "exit", ![u].todo = Undo(u, NextLock(u))],
           pc' = [pc EXCEPT ![u] = "start"], UNCHANGED <<scl, held>>
    PROVE  LocksInv' /\ LockTypes' /\ DOMAIN pc' = Users
  <1> DEFINE new == [call[u] EXCEPT !.op = "exit", !.todo = {}]
  <1>1. /\ call \in [Users -> Calls] /\ DOMAIN held = Users /\ DOMAIN pc = Users /\ UserInv(u)
    BY Zenon DEF IInv, Types, Calls
  <1>2. u \in Reads /\ call[u].locks = {SCL_L2ARC} /\ call[u].at = "run"
    BY Zenon, <1>1 DEF UserInv, Calls
  <1>3. At(u, pc[u]) \subseteq {SCL_L2ARC} /\ At(u, "start") = {}
    BY <1>2, Kinds, Zenon
  <1>4. call[u].todo = {SCL_L2ARC} /\ At(u, pc[u]) = {SCL_L2ARC}
    BY Zenon, <1>1, <1>3 DEF UserInv
  <1>5. NextLock(u) = SCL_L2ARC
    BY <1>4, NextIsFree, Zenon
  <1>6. call' = [call EXCEPT ![u] = new]
    BY <1>1, <1>2, <1>5, Zenon DEF Undo
  <1>7. new \in Calls /\ new.op = "exit" /\ new.todo = {} /\ new.at = "run"
    BY <1>1, <1>2, Zenon DEF Calls
  <1>8. /\ call'[u] = new /\ pc'[u] = "start"
        /\ \A v \in Users \ {u} : call'[v] = call[v] /\ pc'[v] = pc[v]
    BY <1>1, <1>6, Zenon
  <1>9. Has(u)' = {} /\ DOMAIN held[u] = {}
    <2>1. Has(u)' = {}
      BY <1>3, <1>7, <1>8, Zenon DEF Has
    <2>2. Has(u) = {}
      BY Zenon, <1>4 DEF Has
    <2> QED
      BY Zenon, <1>1, <2>1, <2>2 DEF UserInv
  <1>10. UserInv(u)'
    <2>1. /\ call'[u].op = "exit" /\ call'[u].todo = {} /\ call'[u].at = "run"
          /\ At(u, pc[u])' = {}
      BY <1>3, <1>7, <1>8, Zenon DEF At
    <2> QED
      BY Zenon, <1>9, <2>1 DEF UserInv
  <1>11. \A v \in Users \ {u} : UserInv(v)'
    BY <1>8, SameUser, Zenon DEF IInv
  <1>12. ASSUME NEW k \in SCL_ALL PROVE LockInv(k)'
    <2>1. Holders(k)' = Holders(k)
      BY Zenon DEF Holders
    <2>2. u \notin Waiting(k) /\ u \notin Waiting(k)'
      BY <1>2, <1>7, <1>8, Zenon DEF Waiting
    <2>3. Waiting(k)' = Waiting(k)
      <3>1. \A v \in Users \ {u} : call'[v] = call[v]
        BY <1>8, Zenon
      <3> QED
        BY ONLY Zenon, <2>2, <3>1 DEF Waiting, NextLock
    <2> QED
      BY Zenon, <2>1, <2>3, SameLock DEF IInv
  <1>13. LockTypes' /\ DOMAIN pc' = Users
    <2>1. call' \in [Users -> Calls]
      BY <1>1, <1>6, <1>7, Zenon
    <2> QED
      BY Zenon, <1>1, <2>1 DEF LockTypes, IInv, Types
  <1>14. \A v \in Users : UserInv(v)'
    BY Zenon, <1>10, <1>11
  <1> QED
    BY Zenon, <1>12, <1>13, <1>14 DEF LocksInv

\* A user gives a lock back, and may wake those that wait for it.
LEMMA ExitKeeps ==
    ASSUME IInv, NEW u \in Users, Exit(u)
    PROVE  LocksInv' /\ LockTypes'
  <1> DEFINE l == Max(call[u].todo)
             new == [call[u] EXCEPT !.todo = @ \ {l}]
             h == [k \in DOMAIN held[u] \ {l} |-> held[u][k]]
  <1>1. /\ call \in [Users -> Calls] /\ DOMAIN held = Users /\ UserInv(u)
        /\ call[u].op = "exit" /\ call[u].todo # {} /\ pc' = pc
    BY Zenon DEF IInv, Types, Calls, Exit
  <1>2. l \in call[u].todo /\ l \in SCL_ALL
    <2>1. call[u].todo \in SUBSET SCL_ALL
      BY Zenon, <1>1 DEF Calls
    <2> QED
      BY Zenon, <1>1, <2>1, Extremes
  <1>3. /\ new \in Calls /\ new.op = "exit" /\ new.rw = call[u].rw
        /\ new.todo = call[u].todo \ {l} /\ new.at = call[u].at
    BY Zenon, <1>1 DEF Calls
  <1>4. /\ held' = [held EXCEPT ![u] = h] /\ call'[u] = new /\ DOMAIN call' = Users
        /\ held'[u] = h /\ \A v \in Users \ {u} : held'[v] = held[v]
    BY Zenon, <1>1 DEF Exit
  <1>5. ASSUME NEW v \in Users \ {u}
        PROVE  /\ call'[v] \in Calls /\ call'[v].op = call[v].op /\ call'[v].rw = call[v].rw
               /\ call'[v].todo = call[v].todo /\ call'[v].locks = call[v].locks
               /\ (call'[v].at = "run" <=> call[v].at = "run")
    <2>1. call[v] \in Calls
      BY Zenon, <1>1
    <2>2. \/ call'[v] = call[v]
          \/ call'[v] = [call[v] EXCEPT !.at = "woken"] /\ call[v].at = "wait"
      BY Zenon DEF Exit
    <2> QED
      BY Zenon, <2>1, <2>2 DEF Calls
  <1>6. ASSUME NEW v \in Users \ {u} PROVE UserInv(v)'
    <2>1. Has(v)' = Has(v) /\ pc'[v] = pc[v]
      BY <1>1, <1>5, Zenon DEF Has
    <2>2. UserInv(v)
      BY Zenon DEF IInv
    <2> QED
      BY <1>4, <1>5, <2>1, <2>2 DEF UserInv
  <1>7. Has(u) = At(u, pc[u]) \cup call[u].todo /\ Has(u)' = Has(u) \ {l}
    <2>1. l \notin At(u, pc[u])
      BY Zenon, <1>1, <1>2 DEF UserInv
    <2> QED
      BY <1>1, <1>3, <1>4, <2>1 DEF Has
  <1>8. UserInv(u)'
    <2>1. DOMAIN h = Has(u)' /\ \A k \in Has(u)' : h[k] = call[u].rw
      BY Zenon, <1>1, <1>7 DEF UserInv
    <2>2. call[u].at = "run" /\ call[u].todo \cap At(u, pc[u]) = {}
      BY Zenon, <1>1 DEF UserInv
    <2> QED
      BY <1>1, <1>3, <1>4, <2>1, <2>2 DEF UserInv
  <1>9. call' \in [Users -> Calls]
    <2>1. call' = [w \in Users |-> call'[w]]
      BY Zenon DEF Exit
    <2>2. \A w \in Users : call'[w] \in Calls
      BY <1>3, <1>4, <1>5, ZenonT(30)
    <2> QED
      BY Zenon, <2>1, <2>2
  <1>10. ASSUME NEW k \in SCL_ALL
         PROVE  /\ Holders(k)' = IF k = l THEN Holders(k) \ {u} ELSE Holders(k)
                /\ Waiting(k)' = Waiting(k)
                /\ \A v \in Holders(k)' : held'[v][k] = held[v][k]
    <2>1. Holders(k)' = IF k = l THEN Holders(k) \ {u} ELSE Holders(k)
      BY <1>4 DEF Holders
    <2>2. u \notin Waiting(k) /\ u \notin Waiting(k)'
      <3>1. call[u].at = "run" /\ call'[u].at = "run"
        BY <1>1, <1>3, <1>4 DEF UserInv
      <3> QED
        BY Zenon, <3>1 DEF Waiting
    <2>3. \A v \in Users \ {u} : v \in Waiting(k)' <=> v \in Waiting(k)
      BY Zenon, <1>5 DEF Waiting, NextLock
    <2>4. Waiting(k) \subseteq Users /\ Waiting(k)' \subseteq Users
      BY Zenon DEF Waiting
    <2>5. ASSUME NEW v \in Holders(k)' PROVE held'[v][k] = held[v][k]
      <3>1. CASE v = u
        BY Zenon, <1>4, <2>5, <3>1 DEF Holders
      <3>2. CASE v # u
        BY Zenon, <1>4, <3>2 DEF Holders
      <3> QED
        BY Zenon, <3>1, <3>2
    <2> QED
      BY <2>1, <2>2, <2>3, <2>4, <2>5
  <1>11. /\ scl \in [SCL_ALL -> [count : Nat, writer : Users \cup {NoUser}, wanted : Nat]]
         /\ \A k \in SCL_ALL : LockInv(k)
    BY Zenon DEF IInv, Types
  <1>12. u \in Holders(l) /\ scl[l].count = Cardinality(Holders(l)) /\ IsFiniteSet(Holders(l))
         /\ Cardinality(Holders(l) \ {u}) = scl[l].count - 1 /\ scl[l].count - 1 \in Nat
    <2>1. u \in Holders(l)
      BY Zenon, <1>1, <1>2, <1>7 DEF Holders, UserInv
    <2>2. scl[l].count = Cardinality(Holders(l)) /\ IsFiniteSet(Holders(l))
      BY Zenon, <1>2, <1>11, FiniteHolders DEF LockInv
    <2>3. Cardinality(Holders(l) \ {u}) = scl[l].count - 1
      BY <2>1, <2>2, FS_RemoveElement, Zenon
    <2>4. Cardinality(Holders(l) \ {u}) \in Nat
      BY <2>2, FS_RemoveElement, FS_CardinalityType, Zenon
    <2> QED
      BY Zenon, <2>1, <2>2, <2>3, <2>4
  <1>13. /\ scl' \in [SCL_ALL -> [count : Nat, writer : Users \cup {NoUser}, wanted : Nat]]
         /\ scl'[l].count = scl[l].count - 1 /\ scl'[l].wanted = scl[l].wanted
         /\ scl'[l].writer = IF scl[l].count = 1 THEN NoUser ELSE scl[l].writer
         /\ \A k \in SCL_ALL \ {l} : scl'[k] = scl[k]
    <2>1. scl' = [scl EXCEPT ![l].count = @ - 1,
                             ![l].writer = IF scl[l].count = 1 THEN NoUser ELSE @]
      BY Zenon DEF Exit
    <2>2. \A k \in SCL_ALL \ {l} : scl'[k] = scl[k]
      BY Zenon, <1>2, <1>11, <2>1
    <2>3. scl'[l] = [count |-> scl[l].count - 1, wanted |-> scl[l].wanted,
                     writer |-> IF scl[l].count = 1 THEN NoUser ELSE scl[l].writer]
      BY <1>2, <1>11, <2>1, Zenon
    <2>4. scl'[l] \in [count : Nat, writer : Users \cup {NoUser}, wanted : Nat]
      BY <1>2, <1>11, <1>12, <2>3
    <2>5. DOMAIN scl' = SCL_ALL /\ scl' = [k \in SCL_ALL |-> scl'[k]]
      BY <1>11, <2>1, Zenon
    <2>6. scl' \in [SCL_ALL -> [count : Nat, writer : Users \cup {NoUser}, wanted : Nat]]
      BY <1>11, <2>2, <2>4, <2>5, Zenon
    <2> QED
      BY <2>2, <2>3, <2>6
  <1>14. ASSUME NEW k \in SCL_ALL, k # l PROVE LockInv(k)'
    <2>1. Holders(k)' = Holders(k) /\ Waiting(k)' = Waiting(k)
      BY Zenon, <1>10, <1>14
    <2>2. \A v \in Holders(k) : held'[v][k] = held[v][k]
      BY Zenon, <1>10, <2>1
    <2> QED
      BY Zenon, <1>11, <1>13, <1>14, <2>1, <2>2, SameLock
  <1>15. ASSUME NEW k \in SCL_ALL, k = l PROVE LockInv(k)'
    <2>1. Holders(k)' = Holders(k) \ {u} /\ Waiting(k)' = Waiting(k)
      BY <1>10, <1>15, Zenon
    <2>2. Cardinality(Holders(k)') = scl'[k].count
      BY Zenon, <1>12, <1>13, <1>15, <2>1
    <2>3. Holders(k)' = {} <=> scl[k].count = 1
      <3>1. IsFiniteSet(Holders(k)')
        BY <1>12, <1>15, <2>1, FS_RemoveElement, SMTT(30)
      <3> QED
        <4>1. Cardinality(Holders(k)') = 0 <=> Holders(k)' = {}
          BY Zenon, <3>1, FS_EmptySet
        <4>2. scl'[k].count = scl[k].count - 1 /\ scl[k].count - 1 \in Nat
              /\ scl[k].count \in Nat
          BY Zenon, <1>11, <1>12, <1>13, <1>15
        <4> QED
          BY <2>2, <4>1, <4>2
    <2>4. ASSUME NEW v \in Holders(k)'
          PROVE  held'[v][k] # "W" /\ scl'[k].writer = NoUser
      <3>1. v \in Holders(k) /\ v # u /\ held'[v][k] = held[v][k] /\ u \in Holders(k)
        BY Zenon, <1>10, <1>12, <1>15, <2>1, <2>4
      <3>2. held[v][k] # "W" /\ scl[k].writer = NoUser
        BY Zenon, <1>11, <3>1 DEF LockInv
      <3> QED
        BY <1>13, <1>15, <3>1, <3>2, Zenon
    <2>5. scl'[k].wanted = Cardinality(Waiting(k)')
      BY Zenon, <1>11, <1>13, <1>15, <2>1 DEF LockInv
    <2>6. Holders(k)' = {} => scl'[k].writer = NoUser
      BY Zenon, <1>13, <1>15, <2>3
    <2> QED
      BY Zenon, <2>2, <2>4, <2>5, <2>6 DEF LockInv
  <1>16. \A k \in SCL_ALL : LockInv(k)'
    BY Zenon, <1>14, <1>15
  <1>17. \A v \in Users : UserInv(v)'
    BY Zenon, <1>6, <1>8
  <1>18. DOMAIN held' = Users
    BY Zenon, <1>1, <1>4
  <1> QED
    BY Zenon, <1>9, <1>13, <1>16, <1>17, <1>18 DEF LocksInv, LockTypes

-----------------------------------------------------------------------------

\* What every step keeps of the locks and of their users.
Kept == LocksInv' /\ LockTypes' /\ DOMAIN pc' = Users

\* A step inside a call.  Only a failed attempt to enter changes where a user is.
LEMMA InCallKeeps ==
    ASSUME IInv, NEW u \in Users, InCall(u)
    PROVE  /\ Kept /\ UNCHANGED <<dirty, left, changes>>
           /\ \A v \in Users \ Reads : pc'[v] = pc[v]
  <1>1. DOMAIN pc = Users /\ call[u].rw \in {"R", "W"} /\ UserInv(u)
    BY Zenon DEF IInv, Types
  <1>2. CASE EnterReader(u)
    <2>1. CASE MayRead(NextLock(u)) /\ Grant(u, NextLock(u))
               /\ scl' = [scl EXCEPT ![NextLock(u)].count = @ + 1]
      BY <1>1, <1>2, <2>1, ReaderKeeps, Zenon DEF EnterReader, Kept
    <2>2. CASE call' = [call EXCEPT ![u].at = "wait"] /\ UNCHANGED <<scl, held>>
      BY <1>1, <1>2, <2>2, ReaderWaits, Zenon DEF EnterReader, Kept
    <2> QED
      BY Zenon, <1>2, <2>1, <2>2 DEF EnterReader
  <1>3. CASE EnterWriter(u)
    <2>1. CASE MayWrite(NextLock(u)) /\ Grant(u, NextLock(u))
               /\ scl' = [scl EXCEPT ![NextLock(u)] =
                            [count |-> @.count + 1, writer |-> u,
                             wanted |-> scl[NextLock(u)].wanted - Counted(u)]]
      BY <1>1, <1>3, <2>1, WriterKeeps, Zenon DEF EnterWriter, Kept
    <2>2. CASE call' = [call EXCEPT ![u].at = "wait"] /\ UNCHANGED held
               /\ scl' = [scl EXCEPT ![NextLock(u)].wanted =
                            scl[NextLock(u)].wanted - Counted(u) + 1]
      BY <1>1, <1>3, <2>2, WriterWaits, Zenon DEF EnterWriter, Kept
    <2> QED
      BY Zenon, <1>3, <2>1, <2>2 DEF EnterWriter
  <1>4. CASE TryEnter(u)
    <2>1. call[u].op = "try" /\ call[u].todo # {} /\ u \in Reads
      BY Zenon, <1>1, <1>4 DEF TryEnter, UserInv
    <2>2. CASE MayRead(NextLock(u)) /\ Grant(u, NextLock(u)) /\ UNCHANGED pc
               /\ scl' = [scl EXCEPT ![NextLock(u)].count = @ + 1]
      <3>1. call[u].rw = "R"
        <4>1. NextLock(u) \in At(u, pc[u])
          BY Zenon, <2>1, NextIsFree
        <4>2. u \notin Admins \cup Offlines
          BY Zenon, <2>1, SpaConfigLockAssumption
        <4>3. pc[u] = "read"
          BY Zenon, <2>1, <4>1, Kinds
        <4> QED
          BY Zenon, <1>1, <4>1, <4>2, <4>3 DEF UserInv, Mode
      <3> QED
        BY <1>1, <1>4, <2>1, <2>2, <3>1, ReaderKeeps, Zenon DEF TryEnter, Kept
    <2>3. CASE /\ UNCHANGED <<scl, held>> /\ pc' = [pc EXCEPT ![u] = "start"]
               /\ call' = [call EXCEPT ![u].op = "exit", ![u].todo = Undo(u, NextLock(u))]
      <3>1. Kept
        BY <2>1, <2>3, TryFails, Zenon DEF Kept
      <3> QED
        BY Zenon, <1>1, <1>4, <2>1, <2>3, <3>1 DEF TryEnter
    <2> QED
      BY Zenon, <1>4, <2>2, <2>3 DEF TryEnter
  <1>5. CASE Exit(u)
    BY <1>1, <1>5, ExitKeeps, Zenon DEF Exit, Kept
  <1> QED
    BY Zenon, <1>2, <1>3, <1>4, <1>5 DEF InCall

\* User u has gone on to another point of its code, and the others have not.
Moved(u, from, to) == /\ Kept /\ pc[u] = from /\ pc'[u] = to
                      /\ \A v \in Users \ {u} : pc'[v] = pc[v]

\* A call that fits the code around it.
LEMMA Called ==
    ASSUME IInv, NEW u \in Users, NEW from, NEW op \in {"none", "enter", "try", "exit"},
           NEW locks \in SUBSET SCL_ALL, NEW rw \in {"R", "W"}, NEW to,
           Do(u, from, op, locks, rw, to), Fits(u, from, op, locks, rw, to)
    PROVE  Moved(u, from, to)
  <1>1. /\ LocksInv' /\ call' \in [Users -> Calls] /\ DOMAIN pc' = Users
        /\ pc' = [pc EXCEPT ![u] = to] /\ UNCHANGED <<scl, held>>
    BY DoKeeps, Zenon
  <1>2. DOMAIN pc = Users /\ pc[u] = from
    BY Zenon DEF IInv, Types, Do
  <1>3. LockTypes'
    BY Zenon, <1>1 DEF LockTypes, IInv, Types
  <1> QED
    BY Zenon, <1>1, <1>2, <1>3 DEF Kept, Moved

\* The names of the locks of a call are those of locks.
LEMMA LockNames ==
    /\ {SCL_CONFIG} \in SUBSET SCL_ALL /\ {SCL_STATE} \in SUBSET SCL_ALL
    /\ {SCL_L2ARC} \in SUBSET SCL_ALL /\ {SCL_ALLOC} \in SUBSET SCL_ALL
    /\ {SCL_ZIO} \in SUBSET SCL_ALL /\ {SCL_FREE} \in SUBSET SCL_ALL
    /\ {SCL_CONFIG, SCL_STATE} \in SUBSET SCL_ALL /\ SCL_STATE_ALL \in SUBSET SCL_ALL
    /\ {} \in SUBSET SCL_ALL /\ SCL_ALL \in SUBSET SCL_ALL
  BY DEF SCL_CONFIG, SCL_STATE, SCL_L2ARC, SCL_ALLOC, SCL_ZIO, SCL_FREE, SCL_STATE_ALL, SCL_ALL

\* The points of spa_sync() outside its I/O.
NotIo == {"start", "state", "upgrade", "again", "check", "convert", "write"}
\* p is a point of an I/O of u.
OnIo(u, p) == p # "convert" /\ (u = Sync => p \notin NotIo)
\* A call for lock l leads an I/O from one point to the other.
Moves(op, l, from, to) ==
    IF op = "enter" THEN l \notin OfIo(from) /\ OfIo(to) = OfIo(from) \cup {l}
                    ELSE l \in OfIo(from) /\ OfIo(to) = OfIo(from) \ {l}

\* What an I/O does to one lock fits, for spa_sync() too, which holds SCL_CONFIG.
LEMMA IoFits ==
    ASSUME NEW u \in Ios \cup {Child, Sync}, NEW from, NEW to, OnIo(u, from), OnIo(u, to),
           NEW l \in {SCL_ALLOC, SCL_ZIO, SCL_FREE}, NEW op \in {"enter", "exit"},
           Moves(op, l, from, to)
    PROVE  Fits(u, from, op, {l}, "R", to)
  <1>1. u \notin Admins \cup Offlines
    BY Zenon, SpaConfigLockAssumption
  <1>2. \/ At(u, from) = OfIo(from) /\ At(u, to) = OfIo(to)
        \/ At(u, from) = {SCL_CONFIG} \cup OfIo(from) /\ At(u, to) = {SCL_CONFIG} \cup OfIo(to)
    <2>1. CASE u = Sync
      BY Zenon, <2>1, Kinds DEF OfSync, NotIo, OnIo
    <2>2. CASE u # Sync
      BY Zenon, <2>2, Kinds
    <2> QED
      BY Zenon, <2>1, <2>2
  <1>3. SCL_CONFIG \notin {SCL_ALLOC, SCL_ZIO, SCL_FREE}
    BY DEF SCL_CONFIG, SCL_ALLOC, SCL_ZIO, SCL_FREE
  <1>4. Mode(u, from) = "R" /\ Mode(u, to) = "R"
    BY Zenon, <1>1 DEF Mode, OnIo
  <1>5. IF op = "exit" THEN {l} \subseteq At(u, from) /\ At(u, to) = At(u, from) \ {l}
                       ELSE {l} \cap At(u, from) = {} /\ At(u, to) = At(u, from) \cup {l}
    <2>1. CASE op = "enter"
      BY Zenon, <1>2, <1>3, <2>1 DEF Moves
    <2>2. CASE op = "exit"
      BY Zenon, <1>2, <1>3, <2>2 DEF Moves
    <2> QED
      BY Zenon, <2>1, <2>2
  <1> QED
    BY Zenon, <1>4, <1>5 DEF Fits

\* An I/O enters or leaves one lock.
LEMMA IoCall ==
    ASSUME IInv, NEW u \in Ios \cup {Child, Sync}, NEW from, NEW to, OnIo(u, from), OnIo(u, to),
           NEW l \in {SCL_ALLOC, SCL_ZIO, SCL_FREE}, NEW op \in {"enter", "exit"},
           Moves(op, l, from, to), Do(u, from, op, {l}, "R", to)
    PROVE  Moved(u, from, to)
  <1>1. u \in Users /\ {l} \in SUBSET SCL_ALL
    BY Zenon, LockNames DEF Users
  <1>2. Fits(u, from, op, {l}, "R", to)
    BY Zenon, IoFits
  <1>3. op \in {"none", "enter", "try", "exit"} /\ "R" \in {"R", "W"}
    BY Zenon
  <1> QED
    BY Zenon, <1>1, <1>2, <1>3, Called

\* What a step of an I/O of u keeps.
IoKeeps(u) == /\ Kept /\ OnIo(u, pc[u]) /\ OnIo(u, pc'[u])
              /\ \A v \in Users \ {u} : pc'[v] = pc[v]

\* A step of metaslab_alloc().
LEMMA AllocateKeeps ==
    ASSUME IInv, NEW u \in Ios \cup {Sync}, NEW from \in {"start", "alloc"},
           from = "start" => u # Sync, Allocate(u, from, "io")
    PROVE  IoKeeps(u)
  <1>1. /\ OnIo(u, from) /\ OnIo(u, "allocatable") /\ OnIo(u, "allocated")
        /\ OnIo(u, "activate") /\ OnIo(u, "io")
    BY Zenon DEF OnIo, NotIo
  <1>2. /\ Moves("enter", SCL_ALLOC, from, "allocatable")
        /\ Moves("enter", SCL_ZIO, "allocatable", "allocated")
        /\ Moves("exit", SCL_ZIO, "allocated", "activate")
        /\ Moves("exit", SCL_ALLOC, "activate", "io")
    BY IoLocks DEF Moves, SCL_ALLOC, SCL_ZIO
  <1>3. CASE Do(u, from, "enter", {SCL_ALLOC}, "R", "allocatable")
    BY Zenon, <1>1, <1>2, <1>3, IoCall DEF IoKeeps, Moved
  <1>4. CASE Do(u, "allocatable", "enter", {SCL_ZIO}, "R", "allocated")
    BY Zenon, <1>1, <1>2, <1>4, IoCall DEF IoKeeps, Moved
  <1>5. CASE Do(u, "allocated", "exit", {SCL_ZIO}, "R", "activate")
    BY <1>1, <1>2, <1>5, IoCall DEF IoKeeps, Moved
  <1>6. CASE Do(u, "activate", "exit", {SCL_ALLOC}, "R", "io")
    BY <1>1, <1>2, <1>6, IoCall DEF IoKeeps, Moved
  <1> QED
    BY Zenon, <1>3, <1>4, <1>5, <1>6 DEF Allocate, AskDevice

\* A step of a zio that goes to the devices, and of metaslab_free().
LEMMA DevicesKeeps ==
    ASSUME IInv, NEW u \in Ios \cup {Child, Sync}, NEW from \in {"start", "io", "free"},
           NEW to \in {"start", "free", "labels", "off"}, OnIo(u, from), OnIo(u, to),
           OnDevices(u, from, to) \/ Free(u, from, to)
    PROVE  IoKeeps(u)
  <1>1. OnIo(u, "issued") /\ OnIo(u, "freed")
    BY Zenon DEF OnIo, NotIo
  <1>2. /\ Moves("enter", SCL_ZIO, from, "issued") /\ Moves("exit", SCL_ZIO, "issued", to)
        /\ Moves("enter", SCL_FREE, from, "freed") /\ Moves("exit", SCL_FREE, "freed", to)
    BY Zenon, IoLocks DEF Moves, SCL_FREE, SCL_ZIO
  <1>3. CASE Do(u, from, "enter", {SCL_ZIO}, "R", "issued")
    BY <1>1, <1>2, <1>3, IoCall, Zenon DEF IoKeeps, Moved
  <1>4. CASE Do(u, "issued", "exit", {SCL_ZIO}, "R", to)
    BY <1>1, <1>2, <1>4, IoCall, SMTT(30) DEF IoKeeps, Moved
  <1>5. CASE Do(u, from, "enter", {SCL_FREE}, "R", "freed")
    BY Zenon, <1>1, <1>2, <1>5, IoCall DEF IoKeeps, Moved
  <1>6. CASE Do(u, "freed", "exit", {SCL_FREE}, "R", to)
    BY <1>1, <1>2, <1>6, IoCall DEF IoKeeps, Moved
  <1> QED
    BY Zenon, <1>3, <1>4, <1>5, <1>6 DEF OnDevices, zio_vdev_io_start,
       zio_vdev_io_assess, Free, FreeLock

\* The I/O that a write waits for starts when the write stops.
LEMMA ActivateKeeps ==
    ASSUME IInv, NEW u \in Ios, pc[u] = "activate", pc[Child] = "off",
           pc' = [pc EXCEPT ![u] = "wait", ![Child] = "start"], UNCHANGED <<scl, call, held>>
    PROVE  Kept /\ \A v \in Users \ (Ios \cup {Child}) : pc'[v] = pc[v]
  <1>1. DOMAIN pc = Users /\ u \in Users /\ Child \in Users /\ u # Child
        /\ {u, Child} \cap (Admins \cup Offlines) = {}
    BY SpaConfigLockAssumption DEF IInv, Types, Users
  <1>2. /\ pc'[u] = "wait" /\ pc'[Child] = "start" /\ DOMAIN pc' = Users
        /\ \A v \in Users \ {u, Child} : pc'[v] = pc[v]
    BY Zenon, <1>1
  <1>3. ASSUME NEW v \in Users
        PROVE  At(v, pc[v])' = At(v, pc[v]) /\ Mode(v, pc[v])' = Mode(v, pc[v])
    <2>1. CASE v \in {u, Child}
      <3>1. At(v, pc'[v]) = At(v, pc[v])
        <4>1. v \in Ios \cup {Child}
          BY Zenon, <2>1
        <4>2. At(v, pc'[v]) = OfIo(pc'[v]) /\ At(v, pc[v]) = OfIo(pc[v])
          BY Zenon, <4>1, Kinds
        <4>3. OfIo(pc'[v]) = OfIo(pc[v])
          BY Zenon, <1>2, <2>1, IoLocks
        <4> QED
          BY Zenon, <4>2, <4>3
      <3>2. Mode(v, pc'[v]) = Mode(v, pc[v])
        BY Zenon, <1>1, <1>2, <2>1 DEF Mode
      <3>3. At(v, pc[v])' = At(v, pc'[v])
        BY Zenon DEF At
      <3>4. Mode(v, pc[v])' = Mode(v, pc'[v])
        BY Zenon DEF Mode
      <3> QED
        BY Zenon, <3>1, <3>2, <3>3, <3>4
    <2>2. CASE v \notin {u, Child}
      BY Zenon, <1>2, <2>2 DEF At, Mode
    <2> QED
      BY Zenon, <2>1, <2>2
  <1>4. ASSUME NEW v \in Users PROVE UserInv(v)'
    <2>1. Has(v)' = Has(v)
      BY <1>3, Zenon DEF Has
    <2> QED
      BY <1>3, <2>1, Zenon DEF UserInv, IInv
  <1>5. ASSUME NEW k \in SCL_ALL PROVE LockInv(k)'
    <2>1. Holders(k)' = Holders(k) /\ Waiting(k)' = Waiting(k)
      BY Zenon DEF Holders, Waiting, NextLock
    <2> QED
      BY Zenon, <2>1, SameLock DEF IInv
  <1>6. LockTypes'
    BY Zenon DEF LockTypes, IInv, Types, Calls
  <1> QED
    BY Zenon, <1>2, <1>4, <1>5, <1>6 DEF Kept, LocksInv

\* A step of a write, or of the I/O it waits for.
LEMMA ZioKeeps ==
    ASSUME IInv, NEW u \in Ios \cup {Child}, zio(u)
    PROVE  /\ Kept /\ UNCHANGED <<dirty, left, changes>>
           /\ \A v \in Admins \cup Offlines \cup {Sync} : pc'[v] = pc[v]
  <1>1. /\ UNCHANGED <<dirty, left, changes>> /\ u # Sync
        /\ (Admins \cup Offlines \cup {Sync}) \cap (Ios \cup {Child}) = {}
        /\ Admins \cup Offlines \cup {Sync} \subseteq Users
    BY Zenon, SpaConfigLockAssumption DEF zio, Same, Users
  <1>2. \A p \in {"start", "io", "free", "off", "wait"} : OnIo(u, p)
    BY Zenon, <1>1 DEF OnIo
  <1>3. ASSUME IoKeeps(u) PROVE Kept /\ \A v \in Users \ (Ios \cup {Child}) : pc'[v] = pc[v]
    BY Zenon, <1>3 DEF IoKeeps
  <1>4. CASE u \in Ios /\ Allocate(u, "start", "io")
    BY Zenon, <1>1, <1>3, <1>4, AllocateKeeps
  <1>5. CASE u \in Ios /\ Activate(u, "io")
    <2>1. CASE Do(u, "wait", "exit", {SCL_ALLOC}, "R", "io")
      <3>1. Moves("exit", SCL_ALLOC, "wait", "io")
        BY Zenon, IoLocks DEF Moves
      <3>2. IoKeeps(u)
        BY <1>2, <2>1, <3>1, IoCall DEF IoKeeps, Moved
      <3> QED
        BY Zenon, <1>1, <1>3, <3>2
    <2>2. CASE /\ pc[u] = "activate" /\ pc[Child] = "off"
               /\ pc' = [pc EXCEPT ![u] = "wait", ![Child] = "start"]
               /\ UNCHANGED <<scl, call, held>>
      BY <1>1, <1>5, <2>2, ActivateKeeps, Zenon
    <2> QED
      BY Zenon, <1>5, <2>1, <2>2 DEF Activate
  <1>6. CASE OnDevices(u, "io", "start")
    BY Zenon, <1>1, <1>2, <1>3, <1>6, DevicesKeeps
  <1>7. CASE OnDevices(u, "start", "free")
    BY Zenon, <1>1, <1>2, <1>3, <1>7, DevicesKeeps
  <1>8. CASE Free(u, "free", "off")
    BY Zenon, <1>1, <1>2, <1>3, <1>8, DevicesKeeps
  <1> QED
    BY Zenon, <1>4, <1>5, <1>6, <1>7, <1>8 DEF zio

-----------------------------------------------------------------------------
\* A step of a reader of all locks or of a reader of a cache device.
Reading(u) == (u \in Getattrs /\ zfs_vfs_getattr(u)) \/ (u \in Reads /\ arc_read(u))

\* The calls of readers fit each other.
LEMMA ReaderCalls ==
    ASSUME IInv, NEW u \in Users, Reading(u)
    PROVE  /\ Kept /\ UNCHANGED <<dirty, left, changes>>
           /\ \A v \in Admins \cup Offlines \cup {Sync} : pc'[v] = pc[v]
  <1>1. /\ UNCHANGED <<dirty, left, changes>>
        /\ u \notin Admins \cup Offlines \cup {Sync}
        /\ Admins \cup Offlines \cup {Sync} \subseteq Users
    BY Zenon, SpaConfigLockAssumption DEF Reading, zfs_vfs_getattr, arc_read, Same, Users
  <1>2. \A p \in {"start", "name", "read"} : Mode(u, p) = "R"
    BY Zenon, <1>1 DEF Mode
  <1>3. ASSUME NEW from, NEW to, Moved(u, from, to)
        PROVE  Kept /\ \A v \in Admins \cup Offlines \cup {Sync} : pc'[v] = pc[v]
    BY Zenon, <1>1, <1>3 DEF Moved
  <1>4. CASE u \in Getattrs /\ zfs_vfs_getattr(u)
    <2>1. At(u, "start") = {} /\ At(u, "name") = SCL_ALL
      BY <1>4, Kinds, Zenon
    <2>2. Fits(u, "start", "enter", SCL_ALL, "R", "name")
          /\ Fits(u, "name", "exit", SCL_ALL, "R", "start")
      BY Zenon, <1>2, <2>1 DEF Fits
    <2>3. CASE Do(u, "start", "enter", SCL_ALL, "R", "name")
      BY <1>1, <1>3, <2>2, <2>3, LockNames, Called, Zenon
    <2>4. CASE Do(u, "name", "exit", SCL_ALL, "R", "start")
      BY Zenon, <1>1, <1>3, <2>2, <2>4, LockNames, Called
    <2> QED
      BY Zenon, <1>4, <2>3, <2>4 DEF zfs_vfs_getattr
  <1>5. CASE u \in Reads /\ arc_read(u)
    <2>1. At(u, "start") = {} /\ At(u, "read") = {SCL_L2ARC}
      BY Zenon, <1>5, Kinds
    <2>2. Fits(u, "start", "try", {SCL_L2ARC}, "R", "read")
          /\ Fits(u, "read", "exit", {SCL_L2ARC}, "R", "start")
      BY Zenon, <1>2, <1>5, <2>1 DEF Fits
    <2>3. CASE Do(u, "start", "try", {SCL_L2ARC}, "R", "read")
      BY Zenon, <1>1, <1>3, <2>2, <2>3, LockNames, Called
    <2>4. CASE Do(u, "read", "exit", {SCL_L2ARC}, "R", "start")
      BY Zenon, <1>1, <1>3, <2>2, <2>4, LockNames, Called
    <2> QED
      BY Zenon, <1>5, <2>3, <2>4 DEF arc_read
  <1> QED
    BY Zenon, <1>4, <1>5 DEF Reading

\* What spa_sync() holds where it makes a call of its own.
LEMMA SyncLocks ==
    /\ At(Sync, "start") = {} /\ At(Sync, "upgrade") = {} /\ At(Sync, "again") = {}
    /\ \A p \in {"state", "alloc", "labels", "done"} : At(Sync, p) = {SCL_CONFIG}
    /\ \A p \in {"check", "convert", "write"} : At(Sync, p) = {SCL_CONFIG, SCL_STATE}
    /\ \A p : Mode(Sync, p) = IF p = "convert" THEN "W" ELSE "R"
  <1>1. \A p \in {"state", "alloc", "labels", "done"} : OfIo(p) = {}
    BY Zenon DEF OfIo
  <1>2. \A p : Mode(Sync, p) = IF p = "convert" THEN "W" ELSE "R"
    BY Zenon, SpaConfigLockAssumption DEF Mode
  <1>3. \A p : At(Sync, p) = OfSync(p)
    BY Kinds, Zenon
  <1> QED
    BY Zenon, <1>1, <1>2, <1>3 DEF OfSync

\* The calls of spa_sync() fit each other.
LEMMA SyncFits ==
    /\ Fits(Sync, "start", "enter", {SCL_CONFIG}, "R", "state")
    /\ Fits(Sync, "state", "enter", {SCL_STATE}, "R", "check")
    /\ Fits(Sync, "check", "exit", {SCL_CONFIG, SCL_STATE}, "R", "upgrade")
    /\ Fits(Sync, "upgrade", "enter", {SCL_CONFIG, SCL_STATE}, "W", "convert")
    /\ Fits(Sync, "convert", "exit", {SCL_CONFIG, SCL_STATE}, "W", "again")
    /\ Fits(Sync, "again", "enter", {SCL_CONFIG, SCL_STATE}, "R", "check")
    /\ Fits(Sync, "check", "exit", {SCL_STATE}, "R", "alloc")
    /\ Fits(Sync, "labels", "enter", {SCL_STATE}, "R", "write")
    /\ Fits(Sync, "write", "exit", {SCL_STATE}, "R", "labels")
    /\ Fits(Sync, "write", "exit", {SCL_STATE}, "R", "done")
    /\ Fits(Sync, "done", "exit", {SCL_CONFIG}, "R", "start")
  <1>1. SCL_CONFIG # SCL_STATE
    BY DEF SCL_CONFIG, SCL_STATE
  <1> QED
    BY <1>1, SyncLocks, SMTT(60) DEF Fits

\* What a step keeps of the changes and of those who wait for them.
DataTypes ==
    /\ dirty \in [state : SUBSET Users, config : SUBSET Users]
    /\ left \in [Users -> Nat] /\ changes \in 0 .. MaxChanges

\* A change that waits for a group goes on waiting.
LEMMA DirtyStays ==
    ASSUME IInv, UNCHANGED <<dirty, left>>, \A v \in Admins \cup Offlines : pc'[v] = pc[v],
           pc[Sync] \in BeforeConvert => pc'[Sync] \in BeforeConvert \/ dirty.state = {}
    PROVE  DirtyInv'
  BY Zenon DEF IInv, DirtyInv

\* A step of spa_sync().
LEMMA SyncKeeps ==
    ASSUME IInv, spa_sync, cast' = cast
    PROVE  Kept /\ DirtyInv' /\ DataTypes'
  <1>1. /\ Sync \in Users /\ Admins \cup Offlines \subseteq Users \ {Sync}
        /\ DirtyInv /\ DataTypes /\ MaxChanges' = MaxChanges /\ MaxChanges \in Nat
    BY Zenon, SpaConfigLockAssumption DEF Users, IInv, Types, DataTypes, MaxChanges
  <1>2. ASSUME NEW from, NEW to, Moved(Sync, from, to), UNCHANGED <<dirty, left>>,
               changes' \in 0 .. MaxChanges,
               from \in BeforeConvert => to \in BeforeConvert \/ dirty.state = {}
        PROVE  Kept /\ DirtyInv' /\ DataTypes'
    <2>1. DirtyInv'
      BY Zenon, <1>1, <1>2, DirtyStays DEF Moved
    <2> QED
      BY Zenon, <1>1, <1>2, <2>1 DEF Moved, DataTypes
  <1>3. Same => changes' \in 0 .. MaxChanges /\ UNCHANGED <<dirty, left>>
    BY Zenon, <1>1 DEF Same, DataTypes
  <1> USE LockNames
  <1>4. CASE SyncStart
    <2>1. Moved(Sync, "start", "state") /\ Same
      <3>1. Do(Sync, "start", "enter", {SCL_CONFIG}, "R", "state") /\ Same
        BY Zenon, <1>4 DEF SyncStart
      <3>2. Fits(Sync, "start", "enter", {SCL_CONFIG}, "R", "state")
        BY Zenon, SyncFits
      <3> QED
        BY Zenon, <1>1, <3>1, <3>2, Called
    <2> QED
      BY Zenon, <1>2, <1>3, <2>1 DEF BeforeConvert
  <1>5. CASE SyncState
    <2>1. Moved(Sync, "state", "check") /\ Same
      <3>1. Do(Sync, "state", "enter", {SCL_STATE}, "R", "check") /\ Same
        BY Zenon, <1>5 DEF SyncState
      <3>2. Fits(Sync, "state", "enter", {SCL_STATE}, "R", "check")
        BY Zenon, SyncFits
      <3> QED
        BY Zenon, <1>1, <3>1, <3>2, Called
    <2> QED
      BY Zenon, <1>2, <1>3, <2>1 DEF BeforeConvert
  <1>6. CASE SyncUpgrade
    <2>1. Moved(Sync, "check", "upgrade") /\ Same
      <3>1. Do(Sync, "check", "exit", {SCL_CONFIG, SCL_STATE}, "R", "upgrade") /\ Same
        BY Zenon, <1>6 DEF SyncUpgrade
      <3>2. Fits(Sync, "check", "exit", {SCL_CONFIG, SCL_STATE}, "R", "upgrade")
        BY Zenon, SyncFits
      <3> QED
        BY Zenon, <1>1, <3>1, <3>2, Called
    <2> QED
      BY Zenon, <1>2, <1>3, <2>1 DEF BeforeConvert
  <1>7. CASE SyncWriter
    <2>1. Moved(Sync, "upgrade", "convert") /\ Same
      <3>1. Do(Sync, "upgrade", "enter", {SCL_CONFIG, SCL_STATE}, "W", "convert") /\ Same
        BY Zenon, <1>7 DEF SyncWriter
      <3>2. Fits(Sync, "upgrade", "enter", {SCL_CONFIG, SCL_STATE}, "W", "convert")
        BY Zenon, SyncFits
      <3> QED
        BY Zenon, <1>1, <3>1, <3>2, Called
    <2> QED
      BY Zenon, <1>2, <1>3, <2>1 DEF BeforeConvert
  <1>8. CASE SyncAgain
    <2>1. Moved(Sync, "again", "check") /\ Same
      <3>1. Do(Sync, "again", "enter", {SCL_CONFIG, SCL_STATE}, "R", "check") /\ Same
        BY Zenon, <1>8 DEF SyncAgain
      <3>2. Fits(Sync, "again", "enter", {SCL_CONFIG, SCL_STATE}, "R", "check")
        BY Zenon, SyncFits
      <3> QED
        BY Zenon, <1>1, <3>1, <3>2, Called
    <2> QED
      BY Zenon, <1>2, <1>3, <2>1 DEF BeforeConvert
  <1>9. CASE SyncClean
    <2>1. Moved(Sync, "check", "alloc") /\ Same /\ dirty.state = {}
      <3>1. Do(Sync, "check", "exit", {SCL_STATE}, "R", "alloc") /\ Same /\ dirty.state = {}
        BY Zenon, <1>9 DEF SyncClean
      <3>2. Fits(Sync, "check", "exit", {SCL_STATE}, "R", "alloc")
        BY Zenon, SyncFits
      <3> QED
        BY Zenon, <1>1, <3>1, <3>2, Called
    <2> QED
      BY Zenon, <1>2, <1>3, <2>1 DEF BeforeConvert
  <1>10. CASE SyncLabels
    <2>1. Moved(Sync, "labels", "write") /\ Same
      <3>1. Do(Sync, "labels", "enter", {SCL_STATE}, "R", "write") /\ Same
        BY Zenon, <1>10 DEF SyncLabels
      <3>2. Fits(Sync, "labels", "enter", {SCL_STATE}, "R", "write")
        BY Zenon, SyncFits
      <3> QED
        BY Zenon, <1>1, <3>1, <3>2, Called
    <2> QED
      BY Zenon, <1>2, <1>3, <2>1 DEF BeforeConvert
  <1>11. CASE SyncWrite
    <2>1. Moved(Sync, "write", "done") /\ Same
      <3>1. Do(Sync, "write", "exit", {SCL_STATE}, "R", "done") /\ Same
        BY Zenon, <1>11 DEF SyncWrite
      <3>2. Fits(Sync, "write", "exit", {SCL_STATE}, "R", "done")
        BY Zenon, SyncFits
      <3> QED
        BY Zenon, <1>1, <3>1, <3>2, Called
    <2> QED
      BY Zenon, <1>2, <1>3, <2>1 DEF BeforeConvert
  <1>12. CASE SyncFail
    <2>1. Moved(Sync, "write", "labels")
      <3>1. Do(Sync, "write", "exit", {SCL_STATE}, "R", "labels")
        BY Zenon, <1>12 DEF SyncFail
      <3>2. Fits(Sync, "write", "exit", {SCL_STATE}, "R", "labels")
        BY Zenon, SyncFits
      <3> QED
        BY Zenon, <1>1, <3>1, <3>2, Called
    <2>2. changes' \in 0 .. MaxChanges /\ UNCHANGED <<dirty, left>>
      BY <1>1, <1>12 DEF SyncFail, DataTypes
    <2> QED
      BY Zenon, <1>2, <2>1, <2>2 DEF BeforeConvert
  <1>13. CASE SyncConvert
    <2>1. Moved(Sync, "convert", "again")
      <3>1. Do(Sync, "convert", "exit", {SCL_CONFIG, SCL_STATE}, "W", "again")
        BY Zenon, <1>13 DEF SyncConvert
      <3>2. Fits(Sync, "convert", "exit", {SCL_CONFIG, SCL_STATE}, "W", "again")
        BY Zenon, SyncFits
      <3> QED
        BY Zenon, <1>1, <3>1, <3>2, Called
    <2>2. dirty' = [state |-> {}, config |-> dirty.config \cup dirty.state]
          /\ UNCHANGED <<left, changes>>
      BY Zenon, <1>13 DEF SyncConvert
    <2>3. DataTypes'
      BY Zenon, <1>1, <2>2 DEF DataTypes
    <2>4. DirtyInv'
      BY Zenon, <1>1, <2>1, <2>2 DEF DirtyInv, Moved
    <2> QED
      BY <2>1, <2>3, <2>4, Zenon DEF Moved
  <1>14. CASE SyncDone
    <2>1. Moved(Sync, "done", "start")
      <3>1. Do(Sync, "done", "exit", {SCL_CONFIG}, "R", "start")
        BY Zenon, <1>14 DEF SyncDone
      <3>2. Fits(Sync, "done", "exit", {SCL_CONFIG}, "R", "start")
        BY Zenon, SyncFits
      <3> QED
        BY Zenon, <1>1, <3>1, <3>2, Called
    <2>2. /\ dirty' = [dirty EXCEPT !.config = {}] /\ changes' = changes
          /\ left' = [u \in Users |-> IF left[u] = 0 THEN 0 ELSE left[u] - 1]
      BY Zenon, <1>14 DEF SyncDone
    <2>3. DataTypes'
      BY <1>1, <2>2 DEF DataTypes
    <2>4. dirty'.config = {} /\ dirty'.state = dirty.state
      BY Zenon, <1>1, <2>2 DEF DataTypes
    <2>5. ASSUME NEW u \in dirty.state PROVE pc'[u] = "sync" /\ left'[u] > 0
      <3>1. pc[u] = "sync" /\ left[u] > 1 /\ u \in Users \ {Sync} /\ left[u] \in Nat
        BY Zenon, <1>1, <2>1 DEF DirtyInv, Moved, BeforeConvert, DataTypes
      <3> QED
        BY <2>1, <2>2, <3>1 DEF Moved
    <2>6. pc'[Sync] \in BeforeConvert
      BY Zenon, <2>1 DEF Moved, BeforeConvert
    <2>7. DirtyInv'
      BY Zenon, <1>1, <2>4, <2>5, <2>6 DEF DirtyInv
    <2> QED
      BY Zenon, <2>1, <2>3, <2>7 DEF Moved
  <1>15. CASE SyncIo
    <2>1. \A p \in {"alloc", "io", "free", "labels"} : OnIo(Sync, p)
      BY Zenon DEF OnIo, NotIo
    <2>2. IoKeeps(Sync) /\ Same
      <3>1. CASE Allocate(Sync, "alloc", "io")
        BY Zenon, <1>15, <3>1, AllocateKeeps DEF SyncIo
      <3>2. CASE OnDevices(Sync, "io", "free")
        BY Zenon, <1>15, <2>1, <3>2, DevicesKeeps DEF SyncIo
      <3>3. CASE Free(Sync, "free", "labels")
        BY Zenon, <1>15, <2>1, <3>3, DevicesKeeps DEF SyncIo
      <3> QED
        BY Zenon, <1>15, <3>1, <3>2, <3>3 DEF SyncIo
    <2>3. Moved(Sync, pc[Sync], pc'[Sync])
      BY Zenon, <2>2 DEF IoKeeps, Moved
    <2>4. pc[Sync] \notin BeforeConvert
      BY Zenon, <2>2 DEF IoKeeps, OnIo, NotIo, BeforeConvert
    <2> QED
      BY Zenon, <1>2, <1>3, <2>2, <2>3, <2>4
  <1> QED
    BY Zenon, <1>4, <1>5, <1>6, <1>7, <1>8, <1>9, <1>10, <1>11, <1>12,
       <1>13, <1>14, <1>15 DEF spa_sync

\* An administrator whose change is on no list goes on.
LEMMA AdminMoves ==
    ASSUME IInv, cast' = cast, NEW u \in Admins \cup Offlines, NEW from, NEW to,
           Moved(u, from, to), from # "sync" \/ left[u] = 0,
           UNCHANGED <<dirty, left>>, changes' \in 0 .. MaxChanges
    PROVE  Kept /\ DirtyInv' /\ DataTypes'
  <1>1. /\ u \in Users \ {Sync} /\ Sync \in Users /\ Admins \cup Offlines \subseteq Users
        /\ DirtyInv /\ DataTypes /\ MaxChanges' = MaxChanges
    BY Zenon, SpaConfigLockAssumption DEF Users, IInv, Types, DataTypes, MaxChanges
  <1>2. u \notin dirty.state \cup dirty.config
    BY <1>1 DEF DirtyInv, DataTypes, Moved
  <1>3. DirtyInv'
    BY Zenon, <1>1, <1>2 DEF DirtyInv, Moved
  <1> QED
    BY <1>1, <1>3, Zenon DEF Moved, DataTypes

\* A step of an administrator who changes the configuration.
LEMMA AdminKeeps ==
    ASSUME IInv, cast' = cast, NEW u \in Admins, spa_vdev_enter(u) \/ spa_vdev_exit(u)
    PROVE  Kept /\ DirtyInv' /\ DataTypes'
  <1>1. /\ u \in Users \ {Sync} /\ Sync \in Users /\ Admins \cup Offlines \subseteq Users
        /\ DirtyInv /\ DataTypes /\ MaxChanges' = MaxChanges /\ MaxChanges \in Nat
    BY Zenon, SpaConfigLockAssumption DEF Users, IInv, Types, DataTypes, MaxChanges
  <1>2. /\ At(u, "start") = {} /\ At(u, "sync") = {} /\ At(u, "change") = SCL_ALL
        /\ At(u, "freed") = SCL_ALL /\ \A p : Mode(u, p) = "W"
    BY Kinds, Zenon DEF Mode
  <1>3. /\ Fits(u, "start", "enter", SCL_ALL, "W", "change")
        /\ Fits(u, "change", "exit", SCL_ALL, "W", "sync")
        /\ Fits(u, "sync", "enter", SCL_ALL, "W", "freed")
        /\ Fits(u, "sync", "none", {}, "W", "start")
        /\ Fits(u, "freed", "exit", SCL_ALL, "W", "start")
    BY Zenon, <1>2 DEF Fits
  <1>4. Same => changes' \in 0 .. MaxChanges /\ UNCHANGED <<dirty, left>>
    BY Zenon, <1>1 DEF Same, DataTypes
  <1> USE LockNames
  <1>5. CASE spa_vdev_enter(u)
    <2>1. Moved(u, "start", "change")
      BY <1>1, <1>3, <1>5, Called, Zenon DEF spa_vdev_enter
    <2>2. changes' \in 0 .. MaxChanges /\ UNCHANGED <<dirty, left>>
      BY <1>1, <1>5 DEF spa_vdev_enter, DataTypes
    <2> QED
      BY Zenon, <2>1, <2>2, AdminMoves
  <1>6. CASE Do(u, "change", "exit", SCL_ALL, "W", "sync") /\ Same
    <2>1. Moved(u, "change", "sync")
      BY Zenon, <1>1, <1>3, <1>6, Called
    <2> QED
      BY Zenon, <1>4, <1>6, <2>1, AdminMoves
  <1>7. CASE /\ Do(u, "change", "exit", SCL_ALL, "W", "sync") /\ UNCHANGED changes
             /\ dirty' = [dirty EXCEPT !.config = @ \cup {u}] /\ left' = [left EXCEPT ![u] = 1]
    <2>1. Moved(u, "change", "sync")
      BY <1>1, <1>3, <1>7, Called, Zenon
    <2>2. DataTypes'
      BY Zenon, <1>1, <1>7 DEF DataTypes
    <2>3. dirty'.config = dirty.config \cup {u} /\ dirty'.state = dirty.state
      BY Zenon, <1>1, <1>7 DEF DataTypes
    <2>4. /\ left'[u] = 1 /\ pc'[u] = "sync" /\ u \notin dirty.state
          /\ \A v \in Users \ {u} : left'[v] = left[v] /\ pc'[v] = pc[v]
      BY Zenon, <1>1, <1>7, <2>1 DEF DataTypes, Moved, DirtyInv
    <2>5. DirtyInv'
      BY <1>1, <2>3, <2>4 DEF DirtyInv, DataTypes
    <2> QED
      BY Zenon, <2>1, <2>2, <2>5 DEF Moved
  <1>8. CASE left[u] = 0 /\ Do(u, "sync", "enter", SCL_ALL, "W", "freed") /\ Same
    <2>1. Moved(u, "sync", "freed")
      BY <1>1, <1>3, <1>8, Called, Zenon
    <2> QED
      BY Zenon, <1>4, <1>8, <2>1, AdminMoves
  <1>9. CASE left[u] = 0 /\ Do(u, "sync", "none", {}, "W", "start") /\ Same
    <2>1. Moved(u, "sync", "start")
      BY Zenon, <1>1, <1>3, <1>9, Called
    <2> QED
      BY Zenon, <1>4, <1>9, <2>1, AdminMoves
  <1>10. CASE Do(u, "freed", "exit", SCL_ALL, "W", "start") /\ Same
    <2>1. Moved(u, "freed", "start")
      BY <1>1, <1>3, <1>10, Called, Zenon
    <2> QED
      BY Zenon, <1>4, <1>10, <2>1, AdminMoves
  <1> QED
    BY <1>5, <1>6, <1>7, <1>8, <1>9, <1>10, Zenon DEF spa_vdev_exit, Same

\* A step of an administrator who changes the state of a device.
LEMMA OfflineKeeps ==
    ASSUME IInv, cast' = cast, NEW u \in Offlines,
           spa_vdev_state_enter(u) \/ spa_vdev_state_exit(u)
    PROVE  Kept /\ DirtyInv' /\ DataTypes'
  <1>1. /\ u \in Users \ {Sync} /\ Sync \in Users /\ Admins \cup Offlines \subseteq Users
        /\ DirtyInv /\ DataTypes /\ MaxChanges' = MaxChanges /\ MaxChanges \in Nat
    BY Zenon, SpaConfigLockAssumption DEF Users, IInv, Types, DataTypes, MaxChanges
  <1>2. /\ At(u, "start") = {} /\ At(u, "sync") = {} /\ At(u, "change") = SCL_STATE_ALL
        /\ \A p : Mode(u, p) = "W"
    BY Kinds, Zenon DEF Mode
  <1>3. /\ Fits(u, "start", "enter", SCL_STATE_ALL, "W", "change")
        /\ Fits(u, "change", "exit", SCL_STATE_ALL, "W", "sync")
        /\ Fits(u, "sync", "none", {}, "W", "start")
    BY Zenon, <1>2 DEF Fits
  <1>4. Same => changes' \in 0 .. MaxChanges /\ UNCHANGED <<dirty, left>>
    BY Zenon, <1>1 DEF Same, DataTypes
  <1> USE LockNames
  <1>5. CASE spa_vdev_state_enter(u)
    <2>1. Moved(u, "start", "change")
      BY Zenon, <1>1, <1>3, <1>5, Called DEF spa_vdev_state_enter
    <2>2. changes' \in 0 .. MaxChanges /\ UNCHANGED <<dirty, left>>
      BY <1>1, <1>5 DEF spa_vdev_state_enter, DataTypes
    <2> QED
      BY Zenon, <2>1, <2>2, AdminMoves
  <1>6. CASE Do(u, "change", "exit", SCL_STATE_ALL, "W", "sync") /\ Same
    <2>1. Moved(u, "change", "sync")
      BY Zenon, <1>1, <1>3, <1>6, Called
    <2> QED
      BY Zenon, <1>4, <1>6, <2>1, AdminMoves
  <1>7. CASE /\ Do(u, "change", "exit", SCL_STATE_ALL, "W", "sync") /\ UNCHANGED changes
             /\ dirty' = [dirty EXCEPT !.state = @ \cup {u}]
             /\ \E n \in WaitFor : left' = [left EXCEPT ![u] = n]
    <2>1. Moved(u, "change", "sync")
      BY Zenon, <1>1, <1>3, <1>7, Called
    <2>2. PICK n \in WaitFor : left' = [left EXCEPT ![u] = n]
      BY <1>7, Zenon
    <2>3. n \in Nat /\ n > 1
      BY SpaConfigLockAssumption DEF WaitFor
    <2>4. DataTypes'
      BY Zenon, <1>1, <1>7, <2>2, <2>3 DEF DataTypes
    <2>5. dirty'.state = dirty.state \cup {u} /\ dirty'.config = dirty.config
      BY Zenon, <1>1, <1>7 DEF DataTypes
    <2>6. /\ left'[u] > 1 /\ left'[u] > 0 /\ pc'[u] = "sync"
          /\ \A v \in Users \ {u} : left'[v] = left[v] /\ pc'[v] = pc[v]
      BY <1>1, <2>1, <2>2, <2>3 DEF DataTypes, Moved
    <2>7. DirtyInv'
      BY Zenon, <1>1, <2>5, <2>6 DEF DirtyInv, DataTypes
    <2> QED
      BY Zenon, <2>1, <2>4, <2>7 DEF Moved
  <1>8. CASE left[u] = 0 /\ Do(u, "sync", "none", {}, "W", "start") /\ Same
    <2>1. Moved(u, "sync", "start")
      BY Zenon, <1>1, <1>3, <1>8, Called
    <2> QED
      BY Zenon, <1>4, <1>8, <2>1, AdminMoves
  <1> QED
    BY Zenon, <1>5, <1>6, <1>7, <1>8 DEF spa_vdev_state_exit, Same

-----------------------------------------------------------------------------
\* The parts of the invariant make it up.
LEMMA Parts ==
    ASSUME IInv, cast' = cast, Kept, DirtyInv', DataTypes'
    PROVE  IInv'
  <1>1. cast \in Casts
    BY Zenon DEF IInv, Types
  <1>2. Types'
    BY Zenon, <1>1 DEF Types, Kept, LockTypes, DataTypes, Calls
  <1> QED
    BY Zenon, <1>2 DEF IInv, Kept, LocksInv

\* A step that changes neither the lists of changes nor where those who wait
\* for them and spa_sync() are.
LEMMA OtherKeeps ==
    ASSUME IInv, cast' = cast, Kept, UNCHANGED <<dirty, left, changes>>,
           \A v \in Admins \cup Offlines \cup {Sync} : pc'[v] = pc[v]
    PROVE  IInv'
  <1>1. DirtyInv'
    BY Zenon, DirtyStays
  <1>2. DataTypes'
    BY Zenon DEF IInv, Types, DataTypes, MaxChanges
  <1> QED
    BY Zenon, <1>1, <1>2, Parts

\* Every step of the locks and of their users preserves the invariant.
LEMMA NextIInv == IInv /\ [Next]_vars => IInv'
  <1> SUFFICES ASSUME IInv, [Next]_vars PROVE IInv'
    BY Zenon
  <1>1. CASE UNCHANGED vars
    <2>1. \A u \in Users : UserInv(u)'
      BY Zenon, <1>1, SameUser DEF IInv, vars
    <2>2. ASSUME NEW k \in SCL_ALL PROVE LockInv(k)'
      <3>1. Holders(k)' = Holders(k) /\ Waiting(k)' = Waiting(k)
        BY <1>1, Zenon DEF vars, Holders, Waiting, NextLock
      <3> QED
        BY Zenon, <1>1, <3>1, SameLock DEF vars, IInv
    <2>3. Types' /\ DirtyInv'
      BY Zenon, <1>1 DEF vars, IInv, Types, MaxChanges, DirtyInv
    <2> QED
      BY Zenon, <2>1, <2>2, <2>3 DEF IInv
  <1>2. CASE Next
    <2>1. cast' = cast /\ Admins \subseteq Users /\ Offlines \subseteq Users
      BY Zenon, <1>2 DEF Next, Users
    <2>2. ASSUME NEW u \in Users, Continue(u) PROVE IInv'
      <3>1. CASE InCall(u)
        <4>1. Admins \cup Offlines \cup {Sync} \subseteq Users \ Reads
          BY Zenon, SpaConfigLockAssumption DEF Users
        <4> QED
          BY Zenon, <2>1, <3>1, <4>1, InCallKeeps, OtherKeeps
      <3>2. CASE u \in Ios \cup {Child} /\ zio(u)
        BY Zenon, <2>1, <3>2, ZioKeeps, OtherKeeps
      <3>3. CASE Reading(u)
        BY Zenon, <2>1, <3>3, ReaderCalls, OtherKeeps
      <3>4. (u \in Getattrs /\ zfs_vfs_getattr(u)) \/ (u \in Reads /\ arc_read(u)) => Reading(u)
        BY Zenon DEF Reading
      <3>5. CASE u \in Admins /\ spa_vdev_exit(u)
        BY Zenon, <2>1, <3>5, AdminKeeps, Parts
      <3>6. CASE u \in Offlines /\ spa_vdev_state_exit(u)
        BY Zenon, <2>1, <3>6, OfflineKeeps, Parts
      <3>7. CASE u = Sync /\ spa_sync
        BY Zenon, <2>1, <3>7, SyncKeeps, Parts
      <3> QED
        BY <2>2, <3>1, <3>2, <3>3, <3>4, <3>5, <3>6, <3>7, Zenon DEF Continue
    <2>3. ASSUME NEW u \in Admins, spa_vdev_enter(u) PROVE IInv'
      BY Zenon, <2>1, <2>3, AdminKeeps, Parts
    <2>4. ASSUME NEW u \in Offlines, spa_vdev_state_enter(u) PROVE IInv'
      BY Zenon, <2>1, <2>4, OfflineKeeps, Parts
    <2> QED
      BY Zenon, <1>2, <2>2, <2>3, <2>4 DEF Next
  <1> QED
    BY Zenon, <1>1, <1>2

\* The inductive invariant: every user holds what its place in the code and its
\* call say, and the counters of the locks follow from that.
THEOREM Invariant == Spec => []IInv
  <1> QED
    BY InitIInv, NextIInv, PTL DEF Spec

\* scl_count and scl_writer are who holds a lock (spa_misc.c:350).
THEOREM CountersAreExact == Spec => []LocksAreWhatIsHeld
  <1>1. IInv => LocksAreWhatIsHeld
    <2> SUFFICES ASSUME IInv PROVE LocksAreWhatIsHeld
      BY Zenon
    <2>1. TypeOK
      BY Zenon DEF IInv, Types, TypeOK
    <2>2. ASSUME NEW l \in SCL_ALL
          PROVE  /\ scl[l].count = Cardinality(Holders(l))
                 /\ scl[l].writer # NoUser =>
                      Holders(l) = {scl[l].writer} /\ held[scl[l].writer][l] = "W"
                 /\ \A u \in Holders(l) : held[u][l] = "W" => scl[l].writer = u
      BY Zenon DEF IInv, LockInv
    <2> QED
      BY Zenon, <2>1, <2>2 DEF LocksAreWhatIsHeld
  <1> QED
    BY <1>1, Invariant, PTL

\* Who changes the configuration, or the state of a device, is alone
\* (spa_misc.c:148-151).
THEOREM ChangersAreAlone == Spec => []ChangesAreAlone
  <1>1. IInv => ChangesAreAlone
    <2> SUFFICES ASSUME IInv PROVE ChangesAreAlone
      BY Zenon
    <2>1. ASSUME NEW a \in Admins \cup Offlines, pc[a] = "change", call[a].todo = {}
          PROVE  \A l \in At(a, "change") : l \in SCL_ALL => Holders(l) = {a}
      <3>1. a \in Users /\ UserInv(a)
        BY Zenon DEF IInv, Users
      <3>2. Has(a) = At(a, "change")
        BY Zenon, <2>1 DEF Has
      <3>3. ASSUME NEW l \in At(a, "change"), l \in SCL_ALL PROVE Holders(l) = {a}
        <4>1. l \in DOMAIN held[a] /\ held[a][l] = "W"
          BY Zenon, <2>1, <3>1, <3>2 DEF UserInv, Mode
        <4> QED
          BY <3>1, <3>3, <4>1, Zenon DEF IInv, LockInv, Holders
      <3> QED
        BY Zenon, <3>3
    <2>2. ASSUME NEW u \in Users PROVE DOMAIN held[u] \subseteq SCL_ALL
      <3>1. \A p : OfIo(p) \subseteq SCL_ALL
        BY Zenon, LockNames DEF OfIo
      <3>2. \A p : OfSync(p) \subseteq SCL_ALL
        BY Zenon, <3>1, LockNames DEF OfSync
      <3>3. At(u, pc[u]) \subseteq SCL_ALL
        <4>1. CASE u \in Ios \cup {Child}
          BY <3>1, <4>1, Kinds
        <4>2. CASE u = Sync
          BY <3>2, <4>2, Kinds
        <4>3. CASE u \in Admins
          BY <4>3, Kinds, Zenon
        <4>4. CASE u \in Offlines
          BY Zenon, <4>4, Kinds, LockNames
        <4>5. CASE u \in Getattrs
          BY Zenon, <4>5, Kinds
        <4>6. CASE u \in Reads
          BY <4>6, Kinds, LockNames
        <4> QED
          BY <4>1, <4>2, <4>3, <4>4, <4>5, <4>6, Zenon DEF Users
      <3>4. call[u].todo \subseteq SCL_ALL /\ UserInv(u)
        BY Zenon DEF IInv, Types
      <3> QED
        BY Zenon, <3>3, <3>4 DEF UserInv, Has
    <2>3. ASSUME NEW a \in Admins, pc[a] = "change", call[a].todo = {},
                 NEW u \in Users \ {a}
          PROVE  DOMAIN held[u] = {}
      <3>1. At(a, "change") = SCL_ALL
        BY Kinds, Zenon
      <3>2. \A l \in SCL_ALL : u \notin Holders(l)
        BY Zenon, <2>1, <2>3, <3>1
      <3> QED
        BY Zenon, <2>2, <3>2 DEF Holders
    <2>4. ASSUME NEW a \in Offlines, pc[a] = "change", call[a].todo = {},
                 NEW u \in Users \ {a}
          PROVE  DOMAIN held[u] \cap SCL_STATE_ALL = {}
      <3>1. At(a, "change") = SCL_STATE_ALL /\ SCL_STATE_ALL \subseteq SCL_ALL
        BY Kinds, LockNames, Zenon
      <3>2. \A l \in SCL_STATE_ALL : u \notin Holders(l)
        BY Zenon, <2>1, <2>4, <3>1
      <3> QED
        BY Zenon, <3>2 DEF Holders
    <2> QED
      BY Zenon, <2>3, <2>4 DEF ChangesAreAlone
  <1> QED
    BY <1>1, Invariant, PTL

\* When a command has returned, its change is on no list of changes that are
\* still to be written (spa_misc.c:1020-1025 and 929-933).
THEOREM CommandsReturnSynced == Spec => []ChangesAreSynced
  <1>1. IInv => ChangesAreSynced
    BY Zenon DEF IInv, DirtyInv, ChangesAreSynced
  <1> QED
    BY <1>1, Invariant, PTL

-----------------------------------------------------------------------------
(* The writer of a re-entrant reader/writer lock excludes the readers, for *)
(* any number of threads and of nested reads, although rrw_exit() lowers   *)
(* rr_anon_rcount also for holds that were entered under rr_linked_rcount. *)

CONSTANTS Threads, NoThread, MaxReads, MaxLinked
VARIABLES rr_writer, rr_anon_rcount, rr_linked_rcount, rr_writer_wanted, rr_pc, reads

R == INSTANCE Rrwlock WITH pc <- rr_pc

\* What module Rrwlock counts is what the theorems about finite sets are about.
LEMMA RrwCounts ==
    ASSUME NEW S
    PROVE  (R!IsFiniteSet(S) <=> IsFiniteSet(S)) /\ R!Cardinality(S) = Cardinality(S)
  <1>1. R!IsFiniteSet(S) <=> IsFiniteSet(S)
    BY Zenon DEF R!IsFiniteSet, IsFiniteSet
  <1>2. R!Cardinality(S) = Cardinality(S)
    BY Zenon DEF R!Cardinality, Cardinality
  <1> QED BY <1>1, <1>2

\* rrw_init() starts with no holds and both counts zero.
LEMMA RrwInitIInv == R!rrw_init => R!IInv
  <1>1. IsFiniteSet({}) /\ Cardinality({}) = 0
    BY FS_EmptySet
  <1> QED BY <1>1, RrwCounts DEF R!rrw_init, R!IInv, R!AnonymousReadersAreCounted

\* A read that enters is counted in one of the two counts.
LEMMA RrwEnterReadIInv ==
    ASSUME NEW t \in Threads, R!IInv, R!rrw_enter_read(t)
    PROVE  R!IInv'
  <1> USE DEF R!IInv, R!AnonymousReadersAreCounted
  <1>1. CASE R!ReadBlocked(t) /\ UNCHANGED <<rr_anon_rcount, rr_linked_rcount, reads>>
    BY <1>1 DEF R!rrw_enter_read
  <1>2. CASE ~R!ReadBlocked(t) /\ R!CountReader(t) /\ \E h \in R!Free(t) : reads' = reads \cup {h}
    <2>1. PICK h \in R!Free(t) : reads' = reads \cup {h}
      BY <1>2
    <2>2. h \notin reads
      BY DEF R!Free
    <2>3. IsFiniteSet(reads') /\ Cardinality(reads') = Cardinality(reads) + 1
      BY <2>1, <2>2, FS_AddElement, RrwCounts
    <2>4. rr_writer = NoThread /\ rr_writer' = NoThread
      BY <1>2 DEF R!ReadBlocked, R!rrw_enter_read
    <2>5. CASE rr_writer_wanted
      BY <2>3, <2>4, <2>5, <1>2, RrwCounts DEF R!CountReader
    <2>6. CASE ~rr_writer_wanted
      BY <2>3, <2>4, <2>6, <1>2, RrwCounts DEF R!CountReader
    <2> QED BY <2>5, <2>6
  <1> QED BY <1>1, <1>2 DEF R!rrw_enter_read

\* A writer that gets in has found both counts zero, so no read hold is left.
LEMMA RrwEnterWriteIInv ==
    ASSUME NEW t \in Threads, R!IInv, R!rrw_enter_write(t)
    PROVE  R!IInv'
  <1> USE DEF R!IInv, R!AnonymousReadersAreCounted
  <1>1. CASE R!WriteBlocked /\ UNCHANGED rr_writer
    BY <1>1 DEF R!rrw_enter_write
  <1>2. CASE ~R!WriteBlocked
    <2>1. Cardinality(reads) \in Nat /\ (Cardinality(reads) = 0 <=> reads = {})
      BY FS_CardinalityType, FS_EmptySet, RrwCounts
    <2>2. rr_linked_rcount = 0 /\ ~(rr_anon_rcount > 0)
      BY <1>2 DEF R!WriteBlocked
    <2>3. reads = {}
      BY <2>1, <2>2, RrwCounts
    <2> QED BY <2>3 DEF R!rrw_enter_write
  <1> QED BY <1>1, <1>2 DEF R!rrw_enter_write

\* rrw_exit() of a read lowers the anonymous count, which only has to be exact
\* while nobody was counted as linked.
LEMMA RrwExitReadIInv ==
    ASSUME NEW t \in Threads, R!IInv, R!ExitRead(t)
    PROVE  R!IInv'
  <1> USE DEF R!IInv, R!AnonymousReadersAreCounted
  <1>1. PICK h \in R!Holds(t) : reads' = reads \ {h}
    BY DEF R!ExitRead
  <1>2. h \in reads
    BY DEF R!Holds
  <1>3. IsFiniteSet(reads') /\ Cardinality(reads') = Cardinality(reads) - 1
    BY <1>1, <1>2, FS_RemoveElement, RrwCounts
  <1> QED BY <1>3, RrwCounts DEF R!ExitRead

\* rrw_exit() of the writer touches no hold and no count.
LEMMA RrwExitWriteIInv ==
    ASSUME NEW t \in Threads, R!IInv, R!ExitWrite(t)
    PROVE  R!IInv'
  BY DEF R!ExitWrite, R!IInv, R!AnonymousReadersAreCounted

\* For any threads: a writer inside rrw_enter(RW_WRITER) .. rrw_exit() never
\* meets a reader, that is, the file system is torn down by one thread alone.
THEOREM ReadersAreExcluded == R!Spec => []R!WriterExcludesReaders
  <1>1. R!rrw_init => R!IInv
    BY RrwInitIInv
  <1>2. R!IInv /\ [R!Next]_R!vars => R!IInv'
    <2> SUFFICES ASSUME R!IInv, [R!Next]_R!vars PROVE R!IInv'
      OBVIOUS
    <2>1. CASE R!Next
      BY <2>1, RrwEnterReadIInv, RrwEnterWriteIInv, RrwExitReadIInv, RrwExitWriteIInv DEF R!Next, R!rrw_exit
    <2>2. CASE UNCHANGED R!vars
      BY <2>2 DEF R!vars, R!IInv, R!AnonymousReadersAreCounted
    <2> QED BY <2>1, <2>2
  <1>3. R!IInv => R!WriterExcludesReaders
    BY DEF R!IInv, R!WriterExcludesReaders
  <1> QED BY <1>1, <1>2, <1>3, PTL DEF R!Spec
=============================================================================
