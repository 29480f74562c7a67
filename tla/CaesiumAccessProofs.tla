------------------------- MODULE CaesiumAccessProofs ------------------------
(***************************************************************************)
(* The inductive invariants of Caesium, and that the steps of memory       *)
(* accesses preserve them: both steps of a non-atomic read and write, the  *)
(* atomic write and the compare and swap.                                  *)
(***************************************************************************)
EXTENDS Caesium, CaesiumHeapProofs, FiniteSetTheorems, TLAPS

-----------------------------------------------------------------------------
(* The inductive invariants *)

\* Of every program.
IInv == TypeOK /\ HeapStateInvariant

\* Of a program without Na2Ord: every step but those of DerefNa2Bare and
\* AssignNa2Bare preserves it.
LInv == LockStatesExact /\ AccessCompletes /\ ReadStable

\* What AccessCompletes and ReadStable say of one thread.
AccessOK(t) ==
  /\ redex[t] = "Na2Deref" => /\ heap_at(hs_heap, acc[t].l, acc[t].ly, RSt \ {0})
                              /\ value_at(hs_heap, acc[t].l, acc[t].ly) = acc[t].v
  /\ redex[t] = "Na2Assign" => heap_at(hs_heap, acc[t].l, acc[t].ly, {WSt})

\* The two invariants about accesses, thread by thread.
LEMMA AccessOKs ==
  AccessCompletes /\ ReadStable <=> \A t \in Thread : AccessOK(t)
  BY Zenon DEF AccessCompletes, ReadStable, AccessOK

\* An access record holds a location, a layout and bytes for the cells of the two.
LEMMA AccessType ==
  /\ \A x \in access : x.l \in target /\ x.ly \in AccessLayout /\ x.v \in [cells(x.l, x.ly) -> mbyte]
  /\ \A l \in target, ly \in AccessLayout : \A v \in [cells(l, ly) -> mbyte] :
       [l |-> l, ly |-> ly, v |-> v] \in access
<1> DEFINE A(l, ly) == [l : {l}, ly : {ly}, v : [cells(l, ly) -> mbyte]]
<1>1. access = UNION {A(k, y) : k \in target, y \in AccessLayout}
  BY DEF access
<1> HIDE DEF A
<1>2. ASSUME NEW x \in access
      PROVE  x.l \in target /\ x.ly \in AccessLayout /\ x.v \in [cells(x.l, x.ly) -> mbyte]
  <2>1. PICK l \in target, ly \in AccessLayout : x \in A(l, ly)
    BY <1>1
  <2>2. x.l = l /\ x.ly = ly /\ x.v \in [cells(l, ly) -> mbyte]
    BY Zenon, <2>1 DEF A
  <2> QED BY Zenon, <2>2
<1>3. ASSUME NEW l \in target, NEW ly \in AccessLayout, NEW v \in [cells(l, ly) -> mbyte]
      PROVE  [l |-> l, ly |-> ly, v |-> v] \in access
  <2>1. [l |-> l, ly |-> ly, v |-> v] \in A(l, ly)
    BY Zenon DEF A
  <2> QED BY <2>1, <1>1
<1> QED BY Zenon, <1>2, <1>3

\* NoAccess cannot be mistaken for an access: its location is NULL.
LEMMA NoAccessType == NoAccess \notin access
  BY Zenon, AccessType, HeapAssumption DEF NoAccess, NULL_loc, target

\* What TypeOK says of the heap, the allocation table and the accesses in progress.
LEMMA TypeFacts ==
  ASSUME TypeOK
  PROVE  /\ Heap(hs_heap)
         /\ Allocs(hs_allocs)
         /\ \A t \in Thread : redex[t] \in {"Na2Deref", "Na2Assign"} => acc[t] \in access
  BY Zenon DEF TypeOK, Heap, Allocs

\* Nothing is known of Cardinality but these facts.
LEMMA Count ==
  /\ Cardinality({}) = 0
  /\ \A S \in SUBSET Thread : /\ IsFiniteSet(S)
                              /\ Cardinality(S) \in Nat
                              /\ Cardinality(S) = 0 <=> S = {}
  /\ \A S \in SUBSET Thread : \A t \in Thread \ S : Cardinality(S \cup {t}) = Cardinality(S) + 1
  /\ \A S \in SUBSET Thread : \A t \in S : Cardinality(S \ {t}) = Cardinality(S) - 1
  /\ \A S \in SUBSET Thread : Cardinality(S) = 1 => \E t \in Thread : S = {t}
  /\ \A t \in Thread : Cardinality({t}) = 1
<1>1. \A S \in SUBSET Thread : IsFiniteSet(S)
  BY Zenon, FS_Subset, CaesiumAssumption
<1>2. \A S \in SUBSET Thread : Cardinality(S) \in Nat
  BY Zenon, <1>1, FS_CardinalityType
<1>3. Cardinality({}) = 0
  BY Zenon, FS_EmptySet
<1>4. \A S \in SUBSET Thread : Cardinality(S) = 0 <=> S = {}
  BY Zenon, <1>1, FS_EmptySet
<1>5. \A S \in SUBSET Thread : \A t \in Thread \ S : Cardinality(S \cup {t}) = Cardinality(S) + 1
  BY Zenon, <1>1, FS_AddElement
<1>6. \A S \in SUBSET Thread : \A t \in S : Cardinality(S \ {t}) = Cardinality(S) - 1
  BY Zenon, <1>1, FS_RemoveElement
<1>7. \A S \in SUBSET Thread : Cardinality(S) = 1 => \E t \in Thread : S = {t}
  BY Zenon, <1>1, FS_Singleton
<1>8. \A t \in Thread : Cardinality({t}) = 1
  BY Zenon, FS_Singleton
<1> QED
  BY <1>1, <1>2, <1>3, <1>4, <1>5, <1>6, <1>7, <1>8

\* What the lock state of a cell (lock_state, heap.v) tells about the accesses to it.
LEMMA LockFacts ==
  ASSUME LockStatesExact, NEW a \in DOMAIN hs_heap
  PROVE  /\ hs_heap[a].hc_lock_state = 0 => Readers(a) = {} /\ Writers(a) = {}
         /\ hs_heap[a].hc_lock_state \in RSt =>
              hs_heap[a].hc_lock_state = Cardinality(Readers(a)) /\ Writers(a) = {}
         /\ hs_heap[a].hc_lock_state = WSt =>
              Readers(a) = {} /\ \E u \in Thread : Writers(a) = {u}
<1>1. Readers(a) \in SUBSET Thread /\ Writers(a) \in SUBSET Thread
  BY Zenon DEF Readers, Writers
<1> QED
  BY <1>1, Count DEF LockStatesExact, WSt, RSt

-----------------------------------------------------------------------------
(* The steps on existing cells *)

\* A step on the cells S, which no other thread is in the middle of accessing,
\* does not disturb the accesses of the others.
LEMMA Undisturbed ==
  ASSUME NEW t \in Thread, NEW S, NEW v, NEW lk, Updated(hs_heap, S, v, lk, hs_heap'),
         \A u \in Thread : AccessOK(u),
         \A a \in S : Readers(a) \subseteq {t} /\ Writers(a) \subseteq {t},
         \A u \in Thread \ {t} : redex'[u] = redex[u] /\ acc'[u] = acc[u]
  PROVE  \A u \in Thread \ {t} : AccessOK(u)'
<1> SUFFICES ASSUME NEW u \in Thread \ {t} PROVE AccessOK(u)'
  BY Zenon
<1> DEFINE C == cells(acc[u].l, acc[u].ly)
<1>1. redex'[u] = redex[u] /\ acc'[u] = acc[u]
  BY Zenon
<1>2. CASE redex[u] \in {"Na2Deref", "Na2Assign"}
  <2>1. C \cap S = {}
    BY Zenon, <1>2 DEF Readers, Writers
  <2>2. C \subseteq DOMAIN hs_heap
    BY Zenon, <1>2 DEF AccessOK, heap_at
  <2>3. \A a \in C : a \in DOMAIN hs_heap' /\ hs_heap'[a] = hs_heap[a]
    BY Zenon, <2>1, <2>2 DEF Updated
  <2>4. value_at(hs_heap', acc[u].l, acc[u].ly) = value_at(hs_heap, acc[u].l, acc[u].ly)
    BY Zenon, <2>3 DEF value_at
  <2>5. ASSUME NEW lks, heap_at(hs_heap, acc[u].l, acc[u].ly, lks)
        PROVE  heap_at(hs_heap', acc[u].l, acc[u].ly, lks)
    BY <2>3, <2>5 DEF heap_at
  <2> QED BY Zenon, <1>1, <2>4, <2>5 DEF AccessOK
<1>3. CASE redex[u] \notin {"Na2Deref", "Na2Assign"}
  BY Zenon, <1>1, <1>3 DEF AccessOK
<1> QED BY Zenon, <1>2, <1>3

\* What LockStatesExact says of one cell.
LockExact(a) ==
  \/ hs_heap[a].hc_lock_state = Cardinality(Readers(a)) /\ Writers(a) = {}
  \/ /\ hs_heap[a].hc_lock_state = WSt
     /\ Readers(a) = {}
     /\ Cardinality(Writers(a)) = 1

\* Only the cells S of an update need a look.
LEMMA LocksStep ==
  ASSUME LockStatesExact, NEW S, NEW v, NEW lk, Updated(hs_heap, S, v, lk, hs_heap'),
         \A a : a \notin S => Readers(a)' = Readers(a) /\ Writers(a)' = Writers(a),
         \A a \in S : LockExact(a)'
  PROVE  LockStatesExact'
<1> SUFFICES ASSUME NEW a \in DOMAIN hs_heap, a \notin S PROVE LockExact(a)'
  BY Zenon DEF LockStatesExact, LockExact, Updated
<1>1. hs_heap'[a] = hs_heap[a]
  BY Zenon DEF Updated
<1>2. LockExact(a)
  BY Zenon DEF LockStatesExact, LockExact
<1> QED BY Zenon, <1>1, <1>2 DEF LockExact

\* The first step of a non-atomic read (DerefS with Na1Ord) counts the reader in.
LEMMA DerefNa1Step ==
  ASSUME IInv, NEW t \in Thread, NEW l \in target, NEW ly \in AccessLayout, DerefNa1(t, l, ly)
  PROVE  IInv' /\ (LInv => LInv')
<1> DEFINE S == cells(l, ly)
           v == value_at(hs_heap, l, ly)
           lk == [a \in S |-> hs_heap[a].hc_lock_state + 1]
<1>1. S \in SUBSET DOMAIN hs_heap /\ \A a \in S : hs_heap[a].hc_lock_state \in RSt
  BY Zenon, HeapAtCells DEF DerefNa1
<1>2. Heap(hs_heap) /\ v \in [S -> mbyte] /\ lk \in [S -> lock_state]
  BY <1>1, ValueType, TypeFacts DEF IInv, lock_state, RSt
<1>3. Updated(hs_heap, S, v, lk, hs_heap')
  <2>1. Updated(hs_heap, S, v, lk, heap_upd(hs_heap, v, lk))
    BY Zenon, <1>1, <1>2, HeapUpd
  <2> QED BY Zenon, <2>1 DEF DerefNa1
<1>4. HeapStateInvariant'
  <2>1. heap_state_invariant(hs_heap', hs_allocs)
    BY Zenon, <1>3, UpdInvariant DEF IInv, HeapStateInvariant
  <2> QED BY Zenon, <2>1 DEF HeapStateInvariant, DerefNa1
<1>5. /\ redex[t] = "eval"
      /\ redex' = [redex EXCEPT ![t] = "Na2Deref"]
      /\ acc' = [acc EXCEPT ![t] = [l |-> l, ly |-> ly, v |-> v]]
      /\ hs_allocs' = hs_allocs /\ stack' = stack
  BY Zenon DEF DerefNa1, Goes
<1>6. [l |-> l, ly |-> ly, v |-> v] \in access
  BY Zenon, <1>2, AccessType
<1>7. TypeOK'
  BY <1>3, <1>5, <1>6, NoAccessType DEF IInv, TypeOK, Updated, Heap, Redex
<1>8. IInv'
  BY Zenon, <1>4, <1>7 DEF IInv
<1> SUFFICES ASSUME LInv PROVE LInv'
  BY Zenon, <1>8
<1>9. /\ \A a : Writers(a)' = Writers(a)
      /\ \A a \in S : Readers(a)' = Readers(a) \cup {t} /\ t \notin Readers(a)
      /\ \A a : a \notin S => Readers(a)' = Readers(a)
  BY <1>5 DEF Readers, Writers, IInv, TypeOK
<1>10. LockStatesExact'
  <2>1. ASSUME NEW a \in S PROVE LockExact(a)'
    <3>1. Readers(a) \in SUBSET Thread
      BY Zenon DEF Readers
    <3>2. hs_heap[a].hc_lock_state = Cardinality(Readers(a)) /\ Writers(a) = {}
      BY Zenon, <1>1, LockFacts DEF LInv
    <3>3. hs_heap'[a].hc_lock_state = hs_heap[a].hc_lock_state + 1
      BY Zenon, <1>3 DEF Updated
    <3> QED BY <3>1, <3>2, <3>3, <1>9, Count DEF LockExact
  <2> QED BY Zenon, <2>1, <1>3, <1>9, LocksStep DEF LInv
<1>11. \A u \in Thread : AccessOK(u)'
  <2> SUFFICES ASSUME NEW u \in Thread PROVE AccessOK(u)'
    BY Zenon
  <2>1. CASE u = t
    <3>1. redex'[u] = "Na2Deref" /\ acc'[u] = [l |-> l, ly |-> ly, v |-> v]
      BY Zenon, <1>5, <2>1 DEF IInv, TypeOK
    <3>2. heap_at(hs_heap', l, ly, RSt \ {0})
      BY <1>1, <1>3 DEF DerefNa1, heap_at, Updated, RSt
    <3>3. value_at(hs_heap', l, ly) = v
      BY Zenon, <1>1, <1>3 DEF value_at, Updated
    <3> QED BY <3>1, <3>2, <3>3 DEF AccessOK
  <2>2. CASE u # t
    <3>1. redex'[u] = redex[u] /\ acc'[u] = acc[u]
      BY Zenon, <1>5, <2>2 DEF IInv, TypeOK
    <3>2. AccessOK(u)
      BY Zenon, AccessOKs DEF LInv
    <3>3. \A a \in DOMAIN hs_heap : /\ a \in DOMAIN hs_heap'
                                    /\ hs_heap'[a].hc_alloc_id = hs_heap[a].hc_alloc_id
                                    /\ hs_heap'[a].hc_value = hs_heap[a].hc_value
                                    /\ \/ hs_heap'[a].hc_lock_state = hs_heap[a].hc_lock_state
                                       \/ /\ hs_heap[a].hc_lock_state \in Nat
                                          /\ hs_heap'[a].hc_lock_state = hs_heap[a].hc_lock_state + 1
      BY Zenon, <1>1, <1>3 DEF Updated, RSt, value_at
    <3>4. CASE redex[u] = "Na2Deref"
      BY <3>1, <3>2, <3>3, <3>4 DEF AccessOK, heap_at, value_at, RSt
    <3>5. CASE redex[u] = "Na2Assign"
      BY <3>1, <3>2, <3>3, <3>5 DEF AccessOK, heap_at, WSt
    <3> QED BY Zenon, <3>1, <3>4, <3>5 DEF AccessOK
  <2> QED BY Zenon, <2>1, <2>2
<1> QED
  BY Zenon, <1>10, <1>11 DEF LInv, AccessOK, AccessCompletes, ReadStable

\* The second step of a non-atomic read (DerefS with Na2Ord) counts the reader out.
LEMMA DerefNa2Step ==
  ASSUME IInv, NEW t \in Thread, DerefNa2(t)
  PROVE  IInv' /\ (LInv => LInv')
<1> DEFINE l == acc[t].l
           ly == acc[t].ly
           S == cells(l, ly)
           v == value_at(hs_heap, l, ly)
           lk == [a \in S |-> hs_heap[a].hc_lock_state - 1]
<1>1. S \in SUBSET DOMAIN hs_heap /\ \A a \in S : hs_heap[a].hc_lock_state \in RSt \ {0}
  BY Zenon, HeapAtCells DEF DerefNa2
<1>2. Heap(hs_heap) /\ v \in [S -> mbyte] /\ lk \in [S -> lock_state]
  BY <1>1, ValueType, TypeFacts DEF IInv, lock_state, RSt
<1>3. Updated(hs_heap, S, v, lk, hs_heap')
  <2>1. Updated(hs_heap, S, v, lk, heap_upd(hs_heap, v, lk))
    BY Zenon, <1>1, <1>2, HeapUpd
  <2> QED BY Zenon, <2>1 DEF DerefNa2
<1>4. HeapStateInvariant'
  <2>1. heap_state_invariant(hs_heap', hs_allocs)
    BY <1>3, UpdInvariant DEF IInv, HeapStateInvariant
  <2> QED BY Zenon, <2>1 DEF HeapStateInvariant, DerefNa2
<1>5. /\ redex[t] = "Na2Deref"
      /\ redex' = [redex EXCEPT ![t] = "eval"]
      /\ acc' = [acc EXCEPT ![t] = NoAccess]
      /\ hs_allocs' = hs_allocs /\ stack' = stack
  BY Zenon DEF DerefNa2, Goes
<1>6. TypeOK'
  BY Zenon, <1>3, <1>5, NoAccessType DEF IInv, TypeOK, Updated, Heap, Redex
<1>7. IInv'
  BY Zenon, <1>4, <1>6 DEF IInv
<1> SUFFICES ASSUME LInv PROVE LInv'
  BY Zenon, <1>7
<1>8. /\ \A a : Writers(a)' = Writers(a)
      /\ \A a \in S : Readers(a)' = Readers(a) \ {t} /\ t \in Readers(a)
      /\ \A a : a \notin S => Readers(a)' = Readers(a)
  BY Zenon, <1>5 DEF Readers, Writers, IInv, TypeOK
<1>9. \A a \in S : LockExact(a)' /\ hs_heap'[a].hc_lock_state = Cardinality(Readers(a)')
  <2> TAKE a \in S
  <2>1. Readers(a) \in SUBSET Thread
    BY Zenon DEF Readers
  <2>2. hs_heap[a].hc_lock_state = Cardinality(Readers(a)) /\ Writers(a) = {}
    BY Zenon, <1>1, LockFacts DEF LInv
  <2>3. hs_heap'[a].hc_lock_state = hs_heap[a].hc_lock_state - 1
    BY Zenon, <1>3 DEF Updated
  <2> QED BY <2>1, <2>2, <2>3, <1>8, Count DEF LockExact
<1>10. LockStatesExact'
  BY Zenon, <1>3, <1>8, <1>9, LocksStep DEF LInv
<1>11. \A u \in Thread : AccessOK(u)'
  <2> SUFFICES ASSUME NEW u \in Thread PROVE AccessOK(u)'
    BY Zenon
  <2>1. CASE u = t
    BY Zenon, <1>5, <2>1 DEF IInv, TypeOK, AccessOK
  <2>2. CASE u # t
    <3>1. redex'[u] = redex[u] /\ acc'[u] = acc[u]
      BY Zenon, <1>5, <2>2 DEF IInv, TypeOK
    <3>2. AccessOK(u)
      BY Zenon, AccessOKs DEF LInv
    <3>3. \A a \in DOMAIN hs_heap : /\ a \in DOMAIN hs_heap'
                                    /\ hs_heap'[a].hc_alloc_id = hs_heap[a].hc_alloc_id
                                    /\ hs_heap'[a].hc_value = hs_heap[a].hc_value
                                    /\ a \notin S => hs_heap'[a] = hs_heap[a]
      BY Zenon, <1>1, <1>3 DEF Updated, value_at
    <3>4. CASE redex[u] = "Na2Deref"
      \* Cells that t and u both read have at least the reader u left.
      <4>1. ASSUME NEW a \in cells(acc[u].l, acc[u].ly), a \in S
            PROVE  hs_heap'[a].hc_lock_state \in RSt \ {0}
        <5>1. u \in Readers(a)'
          BY Zenon, <3>1, <3>4, <4>1 DEF Readers
        <5>2. Readers(a)' \in SUBSET Thread
          BY Zenon DEF Readers
        <5>3. hs_heap'[a].hc_lock_state = Cardinality(Readers(a)')
          BY Zenon, <1>9, <4>1
        <5> QED BY Zenon, <5>1, <5>2, <5>3, Count DEF RSt
      <4> QED BY <3>1, <3>2, <3>3, <3>4, <4>1 DEF AccessOK, heap_at, value_at
    <3>5. CASE redex[u] = "Na2Assign"
      <4>1. \A a \in cells(acc[u].l, acc[u].ly) : a \notin S
        BY <1>1, <3>2, <3>5 DEF AccessOK, heap_at, RSt, WSt
      <4> QED BY Zenon, <3>1, <3>2, <3>3, <3>5, <4>1 DEF AccessOK, heap_at
    <3> QED BY Zenon, <3>1, <3>4, <3>5 DEF AccessOK
  <2> QED BY Zenon, <2>1, <2>2
<1> QED
  BY Zenon, <1>10, <1>11 DEF LInv, AccessOK, AccessCompletes, ReadStable

\* The first step of a non-atomic write (AssignS with Na1Ord) locks the cells.
LEMMA AssignNa1Step ==
  ASSUME IInv, NEW t \in Thread, NEW l \in target, NEW ly \in AccessLayout,
         NEW w \in [cells(l, ly) -> mbyte], AssignNa1(t, l, ly, w)
  PROVE  IInv' /\ (LInv => LInv')
<1> DEFINE S == cells(l, ly)
           v == value_at(hs_heap, l, ly)
           lk == [a \in S |-> WSt]
<1>1. S \in SUBSET DOMAIN hs_heap /\ \A a \in S : hs_heap[a].hc_lock_state = 0
  BY HeapAtCells DEF AssignNa1
<1>2. Heap(hs_heap) /\ v \in [S -> mbyte] /\ lk \in [S -> lock_state]
  BY Zenon, <1>1, ValueType, TypeFacts DEF IInv, lock_state
<1>3. Updated(hs_heap, S, v, lk, hs_heap')
  <2>1. Updated(hs_heap, S, v, lk, heap_upd(hs_heap, v, lk))
    BY Zenon, <1>1, <1>2, HeapUpd
  <2> QED BY Zenon, <2>1 DEF AssignNa1
<1>4. HeapStateInvariant'
  <2>1. heap_state_invariant(hs_heap', hs_allocs)
    BY Zenon, <1>3, UpdInvariant DEF IInv, HeapStateInvariant
  <2> QED BY Zenon, <2>1 DEF HeapStateInvariant, AssignNa1
<1>5. /\ redex[t] = "eval"
      /\ redex' = [redex EXCEPT ![t] = "Na2Assign"]
      /\ acc' = [acc EXCEPT ![t] = [l |-> l, ly |-> ly, v |-> w]]
      /\ hs_allocs' = hs_allocs /\ stack' = stack
  BY Zenon DEF AssignNa1, Goes
<1>6. [l |-> l, ly |-> ly, v |-> w] \in access
  BY Zenon, AccessType
<1>7. TypeOK'
  BY <1>3, <1>5, <1>6, NoAccessType DEF IInv, TypeOK, Updated, Heap, Redex
<1>8. IInv'
  BY Zenon, <1>4, <1>7 DEF IInv
<1> SUFFICES ASSUME LInv PROVE LInv'
  BY Zenon, <1>8
<1>9. /\ \A a : Readers(a)' = Readers(a)
      /\ \A a \in S : Writers(a)' = Writers(a) \cup {t}
      /\ \A a : a \notin S => Writers(a)' = Writers(a)
  BY Zenon, <1>5 DEF Readers, Writers, IInv, TypeOK
<1>10. \A a \in S : Readers(a) = {} /\ Writers(a) = {}
  BY Zenon, <1>1, LockFacts DEF LInv
<1>11. LockStatesExact'
  <2>1. ASSUME NEW a \in S PROVE LockExact(a)'
    <3>1. hs_heap'[a].hc_lock_state = WSt
      BY Zenon, <1>3 DEF Updated
    <3>2. Readers(a)' = {} /\ Writers(a)' = {t}
      BY Zenon, <1>9, <1>10
    <3> QED BY Zenon, <3>1, <3>2, Count DEF LockExact
  <2> QED BY Zenon, <2>1, <1>3, <1>9, LocksStep DEF LInv
<1>12. \A u \in Thread \ {t} : AccessOK(u)'
  <2>1. \A u \in Thread : AccessOK(u)
    BY Zenon, AccessOKs DEF LInv
  <2>2. \A u \in Thread \ {t} : redex'[u] = redex[u] /\ acc'[u] = acc[u]
    BY Zenon, <1>5 DEF IInv, TypeOK
  <2> QED BY Zenon, <2>1, <2>2, <1>3, <1>10, Undisturbed
<1>13. AccessOK(t)'
  <2>1. redex'[t] = "Na2Assign" /\ acc'[t] = [l |-> l, ly |-> ly, v |-> w]
    BY Zenon, <1>5 DEF IInv, TypeOK
  <2>2. heap_at(hs_heap', l, ly, {WSt})
    BY Zenon, <1>1, <1>3 DEF AssignNa1, heap_at, Updated
  <2> QED BY <2>1, <2>2 DEF AccessOK
<1> QED
  BY Zenon, <1>11, <1>12, <1>13 DEF LInv, AccessOK, AccessCompletes, ReadStable

\* The second step of a non-atomic write (AssignS with Na2Ord) writes and unlocks the cells.
LEMMA AssignNa2Step ==
  ASSUME IInv, NEW t \in Thread, AssignNa2(t)
  PROVE  IInv' /\ (LInv => LInv')
<1> DEFINE l == acc[t].l
           ly == acc[t].ly
           S == cells(l, ly)
           v == acc[t].v
           lk == [a \in S |-> 0]
<1>1. S \in SUBSET DOMAIN hs_heap /\ \A a \in S : hs_heap[a].hc_lock_state = WSt
  BY HeapAtCells DEF AssignNa2
<1>2. /\ redex[t] = "Na2Assign"
      /\ redex' = [redex EXCEPT ![t] = "eval"]
      /\ acc' = [acc EXCEPT ![t] = NoAccess]
      /\ hs_allocs' = hs_allocs /\ stack' = stack
  BY Zenon DEF AssignNa2, Goes
<1>3. Heap(hs_heap) /\ v \in [S -> mbyte] /\ lk \in [S -> lock_state]
  BY Zenon, <1>2, AccessType, TypeFacts DEF IInv, lock_state, RSt
<1>4. Updated(hs_heap, S, v, lk, hs_heap')
  <2>1. Updated(hs_heap, S, v, lk, heap_upd(hs_heap, v, lk))
    BY Zenon, <1>1, <1>3, HeapUpd
  <2> QED BY Zenon, <2>1 DEF AssignNa2
<1>5. HeapStateInvariant'
  <2>1. heap_state_invariant(hs_heap', hs_allocs)
    BY <1>4, UpdInvariant DEF IInv, HeapStateInvariant
  <2> QED BY Zenon, <2>1 DEF HeapStateInvariant, AssignNa2
<1>6. TypeOK'
  BY Zenon, <1>4, <1>2, NoAccessType DEF IInv, TypeOK, Updated, Heap, Redex
<1>7. IInv'
  BY Zenon, <1>5, <1>6 DEF IInv
<1> SUFFICES ASSUME LInv PROVE LInv'
  BY Zenon, <1>7
<1>8. /\ \A a : Readers(a)' = Readers(a)
      /\ \A a \in S : Writers(a)' = Writers(a) \ {t} /\ t \in Writers(a)
      /\ \A a : a \notin S => Writers(a)' = Writers(a)
  BY Zenon, <1>2 DEF Readers, Writers, IInv, TypeOK
<1>9. \A a \in S : Readers(a) = {} /\ Writers(a) = {t}
  BY Zenon, <1>1, <1>8, LockFacts DEF LInv
<1>10. LockStatesExact'
  <2>1. ASSUME NEW a \in S PROVE LockExact(a)'
    <3>1. hs_heap'[a].hc_lock_state = 0
      BY Zenon, <1>4 DEF Updated
    <3>2. Readers(a)' = {} /\ Writers(a)' = {}
      BY Zenon, <1>8, <1>9
    <3> QED BY Zenon, <3>1, <3>2, Count DEF LockExact
  <2> QED BY Zenon, <2>1, <1>4, <1>8, LocksStep DEF LInv
<1>11. \A u \in Thread \ {t} : AccessOK(u)'
  <2>1. \A u \in Thread : AccessOK(u)
    BY Zenon, AccessOKs DEF LInv
  <2>2. \A u \in Thread \ {t} : redex'[u] = redex[u] /\ acc'[u] = acc[u]
    BY Zenon, <1>2 DEF IInv, TypeOK
  <2> QED BY <2>1, <2>2, <1>4, <1>9, Undisturbed
<1>12. AccessOK(t)'
  BY Zenon, <1>2 DEF IInv, TypeOK, AccessOK
<1> QED
  BY Zenon, <1>10, <1>11, <1>12 DEF LInv, AccessOK, AccessCompletes, ReadStable

\* AssignSc, CasFail and CasSuc write bytes w to idle cells in one step.
Overwrite(l, ly, w) ==
  /\ heap_at(hs_heap, l, ly, {0})
  /\ hs_heap' = heap_upd(hs_heap, w, [a \in cells(l, ly) |-> 0])
  /\ UNCHANGED <<hs_allocs, redex, acc, stack>>

\* An atomic write of w to unlocked cells, which is what AssignSc, CasFail and CasSuc
\* have in common.
LEMMA OverwriteStep ==
  ASSUME IInv, NEW l \in target, NEW ly \in AccessLayout,
         NEW w \in [cells(l, ly) -> mbyte], Overwrite(l, ly, w)
  PROVE  IInv' /\ (LInv => LInv')
<1> DEFINE S == cells(l, ly)
           lk == [a \in S |-> 0]
<1>1. S \in SUBSET DOMAIN hs_heap /\ \A a \in S : hs_heap[a].hc_lock_state = 0
  BY HeapAtCells DEF Overwrite
<1>2. Heap(hs_heap) /\ lk \in [S -> lock_state]
  BY Zenon, TypeFacts DEF IInv, lock_state, RSt
<1>3. Updated(hs_heap, S, w, lk, hs_heap')
  <2>1. Updated(hs_heap, S, w, lk, heap_upd(hs_heap, w, lk))
    BY Zenon, <1>1, <1>2, HeapUpd
  <2> QED BY Zenon, <2>1 DEF Overwrite
<1>4. HeapStateInvariant'
  <2>1. heap_state_invariant(hs_heap', hs_allocs)
    BY Zenon, <1>3, UpdInvariant DEF IInv, HeapStateInvariant
  <2> QED BY Zenon, <2>1 DEF HeapStateInvariant, Overwrite
<1>5. hs_allocs' = hs_allocs /\ redex' = redex /\ acc' = acc /\ stack' = stack
  BY Zenon DEF Overwrite
<1>6. TypeOK'
  BY Zenon, <1>3, <1>5 DEF IInv, TypeOK, Updated, Heap
<1>7. IInv'
  BY Zenon, <1>4, <1>6 DEF IInv
<1> SUFFICES ASSUME LInv PROVE LInv'
  BY Zenon, <1>7
<1>8. \A a : Readers(a)' = Readers(a) /\ Writers(a)' = Writers(a)
  BY Zenon, <1>5 DEF Readers, Writers
<1>9. \A a \in S : Readers(a) = {} /\ Writers(a) = {}
  BY Zenon, <1>1, LockFacts DEF LInv
<1>10. LockStatesExact'
  <2>1. ASSUME NEW a \in S PROVE LockExact(a)'
    <3>1. hs_heap'[a].hc_lock_state = 0
      BY Zenon, <1>3 DEF Updated
    <3> QED BY Zenon, <3>1, <1>8, <1>9, Count DEF LockExact
  <2> QED BY Zenon, <2>1, <1>3, <1>8, LocksStep DEF LInv
<1>11. \A u \in Thread : AccessOK(u)'
  <2> TAKE u \in Thread
  <2>1. CASE redex[u] \in {"Na2Deref", "Na2Assign"}
    <3>1. AccessOK(u)
      BY Zenon, AccessOKs DEF LInv
    <3>2. \A a \in cells(acc[u].l, acc[u].ly) : a \in DOMAIN hs_heap /\ a \notin S
      BY Zenon, <2>1, <3>1, <1>9 DEF AccessOK, heap_at, Readers, Writers
    <3>3. \A a \in cells(acc[u].l, acc[u].ly) : a \in DOMAIN hs_heap' /\ hs_heap'[a] = hs_heap[a]
      BY Zenon, <1>3, <3>2 DEF Updated
    <3>4. redex'[u] = redex[u] /\ acc'[u] = acc[u]
      BY Zenon, <1>5
    <3>5. /\ value_at(hs_heap', acc[u].l, acc[u].ly) = value_at(hs_heap, acc[u].l, acc[u].ly)
          /\ \A lks : heap_at(hs_heap, acc[u].l, acc[u].ly, lks)
                      => heap_at(hs_heap', acc[u].l, acc[u].ly, lks)
      BY <3>3, SameCells, Zenon
    <3> QED BY Zenon, <3>1, <3>4, <3>5 DEF AccessOK
  <2>2. CASE redex[u] \notin {"Na2Deref", "Na2Assign"}
    BY Zenon, <2>2, <1>5 DEF AccessOK
  <2> QED BY Zenon, <2>1, <2>2
<1> QED
  BY Zenon, <1>10, <1>11 DEF LInv, AccessOK, AccessCompletes, ReadStable

\* The atomic write (AssignS with ScOrd).
LEMMA AssignScStep ==
  ASSUME IInv, NEW t \in Thread, NEW l \in target, NEW ly \in AccessLayout,
         NEW w \in [cells(l, ly) -> mbyte], AssignSc(t, l, ly, w)
  PROVE  IInv' /\ (LInv => LInv')
  BY Zenon, OverwriteStep DEF AssignSc, Overwrite

\* The compare and swap that succeeds (CasSucS).
LEMMA CasSucStep ==
  ASSUME IInv, NEW t \in Thread, NEW l1 \in target, NEW l2 \in target, NEW ly \in AccessLayout,
         NEW w \in [cells(l1, ly) -> mbyte], CasSuc(t, l1, l2, ly, w)
  PROVE  IInv' /\ (LInv => LInv')
  BY Zenon, OverwriteStep DEF CasSuc, Overwrite

\* The compare and swap that fails and writes back what it found (CasFailS).
LEMMA CasFailStep ==
  ASSUME IInv, NEW t \in Thread, NEW l1 \in target, NEW l2 \in target, NEW ly \in AccessLayout,
         CasFail(t, l1, l2, ly)
  PROVE  IInv' /\ (LInv => LInv')
<1> DEFINE w == [a \in cells(l2, ly) |-> hs_heap[l1.addr + a - l2.addr].hc_value]
<1>1. \A a \in cells(l1, ly) : hs_heap[a].hc_value \in mbyte
  <2>1. \A a \in cells(l1, ly) : hs_heap[a] \in heap_cell
    BY Zenon, HeapAtCells, TypeFacts DEF CasFail, IInv, Heap
  <2> QED BY Zenon, <2>1 DEF heap_cell
<1>2. \A a \in cells(l2, ly) : l1.addr + a - l2.addr \in cells(l1, ly)
  BY CaesiumAssumption, HeapAssumption DEF cells, target, addr, layout
<1>3. w \in [cells(l2, ly) -> mbyte]
  BY Zenon, <1>1, <1>2
<1>4. Overwrite(l2, ly, w)
  BY Zenon DEF CasFail, Overwrite
<1> QED
  BY Zenon, <1>3, <1>4, OverwriteStep

\* An access that is written with Na2Ord (DerefS, AssignS) disturbs the accesses of
\* other threads, but not the types and the blocks.
LEMMA BareNa2Step ==
  ASSUME IInv, NEW t \in Thread, NEW l \in target, NEW ly \in AccessLayout,
         \/ DerefNa2Bare(t, l, ly)
         \/ \E w \in [cells(l, ly) -> mbyte] : AssignNa2Bare(t, l, ly, w)
  PROVE  IInv'
<1> DEFINE S == cells(l, ly)
<1>1. Heap(hs_heap) /\ S \in SUBSET DOMAIN hs_heap
  BY Zenon, TypeFacts, HeapAtCells DEF DerefNa2Bare, AssignNa2Bare, IInv
<1>2. hs_allocs' = hs_allocs /\ redex' = redex /\ acc' = acc /\ stack' = stack
  BY Zenon DEF DerefNa2Bare, AssignNa2Bare
<1>3. PICK v \in [S -> mbyte], lk \in [S -> lock_state] : hs_heap' = heap_upd(hs_heap, v, lk)
  <2>1. CASE DerefNa2Bare(t, l, ly)
    <3> DEFINE v == value_at(hs_heap, l, ly)
               lk == [a \in S |-> hs_heap[a].hc_lock_state - 1]
    <3>1. \A a \in S : hs_heap[a].hc_lock_state \in RSt \ {0}
      BY Zenon, <2>1, HeapAtCells DEF DerefNa2Bare
    <3>2. v \in [S -> mbyte] /\ lk \in [S -> lock_state]
      BY <1>1, <3>1, ValueType DEF lock_state, RSt
    <3>3. hs_heap' = heap_upd(hs_heap, v, lk)
      BY Zenon, <2>1 DEF DerefNa2Bare
    <3> HIDE DEF v, lk
    <3> QED BY <3>2, <3>3, Zenon
  <2>2. ASSUME NEW w \in [S -> mbyte], AssignNa2Bare(t, l, ly, w)
        PROVE  \E v \in [S -> mbyte], lk \in [S -> lock_state] : hs_heap' = heap_upd(hs_heap, v, lk)
    <3> DEFINE lk == [a \in S |-> 0]
    <3>1. lk \in [S -> lock_state]
      BY Zenon DEF lock_state, RSt
    <3>2. hs_heap' = heap_upd(hs_heap, w, lk)
      BY Zenon, <2>2 DEF AssignNa2Bare
    <3> HIDE DEF lk
    <3> QED BY <3>1, <3>2, Zenon
  <2> QED BY Zenon, <2>1, <2>2
<1>4. Updated(hs_heap, S, v, lk, hs_heap')
  BY Zenon, <1>1, <1>3, HeapUpd
<1>5. HeapStateInvariant'
  <2>1. heap_state_invariant(hs_heap', hs_allocs)
    BY Zenon, <1>4, UpdInvariant DEF IInv, HeapStateInvariant
  <2> QED BY Zenon, <1>2, <2>1 DEF HeapStateInvariant
<1>6. TypeOK'
  BY Zenon, <1>2, <1>4 DEF IInv, TypeOK, Updated, Heap
<1> QED BY Zenon, <1>5, <1>6 DEF IInv

=============================================================================
