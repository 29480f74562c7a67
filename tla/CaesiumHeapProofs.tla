-------------------------- MODULE CaesiumHeapProofs -------------------------
(***************************************************************************)
(* What the operations on heaps and allocation tables of CaesiumHeap do,   *)
(* and that each of them preserves heap_state_invariant.                   *)
(***************************************************************************)
EXTENDS CaesiumHeap, TLAPS

\* A heap of the type that TypeOK states.
Heap(h) == DOMAIN h \subseteq addr /\ h \in [DOMAIN h -> heap_cell]
Allocs(als) == DOMAIN als \subseteq AllocId /\ als \in [DOMAIN als -> allocation]

\* The blocks that an allocation or deallocation is about.
Blocks(bs) == \A x \in DOMAIN bs : bs[x].l \in target /\ bs[x].ly \in layout

-----------------------------------------------------------------------------
(* What the operations on heaps and allocation tables do. *)

\* g is h with the bytes v and the lock states lk on the cells S.
Updated(h, S, v, lk, g) ==
  /\ Heap(g)
  /\ DOMAIN g = DOMAIN h
  /\ \A a \in DOMAIN h : g[a].hc_alloc_id = h[a].hc_alloc_id
  /\ \A a \in S : g[a].hc_lock_state = lk[a] /\ g[a].hc_value = v[a]
  /\ \A a \in DOMAIN h \ S : g[a] = h[a]

\* g is h with the new blocks bs.
AllocatedHeap(h, bs, g) ==
  /\ Heap(g)
  /\ DOMAIN g = DOMAIN h \cup block_cells(bs)
  /\ block_cells(bs) \cap DOMAIN h = {}
  /\ \A a \in DOMAIN h : g[a] = h[a]
  /\ \A x \in DOMAIN bs : \A a \in cells(bs[x].l, bs[x].ly) : g[a].hc_alloc_id = bs[x].l.prov
  /\ \A a \in block_cells(bs) : g[a].hc_lock_state = 0

\* r is als with the new blocks bs.
AllocatedAllocs(als, bs, kind, r) ==
  /\ Allocs(r)
  /\ DOMAIN r = DOMAIN als \cup block_ids(bs)
  /\ \A aid \in DOMAIN als : r[aid] = als[aid]
  /\ \A x \in DOMAIN bs : /\ bs[x].l.prov \notin DOMAIN als
                          /\ r[bs[x].l.prov] = live_allocation(bs[x], kind)

\* g is h without the blocks bs.
FreedHeap(h, bs, g) ==
  /\ Heap(g)
  /\ DOMAIN g = DOMAIN h \ block_cells(bs)
  /\ \A a \in DOMAIN g : g[a] = h[a]

\* r is als with the blocks bs dead.
FreedAllocs(als, bs, r) ==
  /\ Allocs(r)
  /\ DOMAIN r = DOMAIN als
  /\ \A aid \in DOMAIN als :
       r[aid] = IF aid \in block_ids(bs) THEN killed(als[aid]) ELSE als[aid]

\* The cells and allocation ids of blocks are those of some block each.
LEMMA BlockCells ==
  ASSUME NEW bs
  PROVE  /\ \A x \in DOMAIN bs : \A a \in cells(bs[x].l, bs[x].ly) : a \in block_cells(bs)
         /\ \A a \in block_cells(bs) : \E x \in DOMAIN bs : a \in cells(bs[x].l, bs[x].ly)
         /\ \A x \in DOMAIN bs : bs[x].l.prov \in block_ids(bs)
         /\ \A aid \in block_ids(bs) : \E x \in DOMAIN bs : aid = bs[x].l.prov
  BY Zenon DEF block_cells, block_ids

\* What heap_upd does to a heap.
LEMMA HeapUpd ==
  ASSUME NEW h, Heap(h), NEW S \in SUBSET DOMAIN h,
         NEW v \in [S -> mbyte], NEW lk \in [S -> lock_state]
  PROVE  Updated(h, S, v, lk, heap_upd(h, v, lk))
  BY Zenon DEF Heap, heap_upd, heap_cell, Updated

\* What alloc_heap does to a heap in which the blocks can be allocated.
LEMMA AllocHeap ==
  ASSUME NEW h, Heap(h), NEW als, NEW bs, Blocks(bs), can_alloc(h, als, bs),
         NEW v \in [block_cells(bs) -> mbyte]
  PROVE  AllocatedHeap(h, bs, alloc_heap(h, bs, v))
<1> DEFINE C(a) == CHOOSE x \in DOMAIN bs : a \in cells(bs[x].l, bs[x].ly)
           g == alloc_heap(h, bs, v)
<1>1. \A a \in block_cells(bs) : C(a) \in DOMAIN bs /\ a \in cells(bs[C(a)].l, bs[C(a)].ly)
  BY Zenon DEF block_cells
<1>2. \A x \in DOMAIN bs : \A a \in cells(bs[x].l, bs[x].ly) : a \in block_cells(bs) /\ C(a) = x
  BY <1>1 DEF block_cells, can_alloc
<1>3. block_cells(bs) \cap DOMAIN h = {}
  BY Zenon, <1>1 DEF can_alloc
<1>4. block_cells(bs) \subseteq addr
  <2>1. \A x \in DOMAIN bs : /\ bs[x].l.addr \in addr /\ bs[x].ly.ly_size \in Nat
                             /\ bs[x].l.addr + bs[x].ly.ly_size <= max_alloc_end
    BY DEF can_alloc, Blocks, target, layout
  <2>2. \A x \in DOMAIN bs : cells(bs[x].l, bs[x].ly) \subseteq addr
    <3> SUFFICES ASSUME NEW m, m \in addr, NEW n \in Nat, m + n <= max_alloc_end
                 PROVE  m .. (m + n - 1) \subseteq addr
      BY Zenon, <2>1 DEF cells
    <3> QED BY HeapAssumption DEF addr, max_alloc_end
  <2> QED BY Zenon, <2>2 DEF block_cells
<1>5. DOMAIN g = DOMAIN h \cup block_cells(bs)
  BY Zenon DEF alloc_heap
<1>6. \A a \in block_cells(bs) :
        g[a] = [hc_alloc_id |-> bs[C(a)].l.prov, hc_lock_state |-> 0, hc_value |-> v[a]]
  BY Zenon DEF alloc_heap
<1>7. \A a \in DOMAIN h : g[a] = h[a]
  BY Zenon, <1>3 DEF alloc_heap
<1>8. \A a \in block_cells(bs) : g[a] \in heap_cell
  <2> TAKE a \in block_cells(bs)
  <2>1. bs[C(a)].l.prov \in AllocId
    BY Zenon, <1>1 DEF Blocks, target
  <2>2. v[a] \in mbyte
    BY Zenon
  <2>3. 0 \in lock_state
    BY Zenon DEF lock_state, RSt
  <2> HIDE DEF C
  <2>4. g[a] = [hc_alloc_id |-> bs[C(a)].l.prov, hc_lock_state |-> 0, hc_value |-> v[a]]
    BY Zenon, <1>6
  <2> HIDE DEF g
  <2> QED BY <2>1, <2>2, <2>3, <2>4 DEF heap_cell
<1>9. Heap(g)
  <2>1. g \in [DOMAIN g -> heap_cell]
    BY Zenon, <1>5, <1>7, <1>8 DEF Heap, alloc_heap
  <2> QED BY Zenon, <2>1, <1>4, <1>5 DEF Heap
<1> QED
  BY <1>2, <1>3, <1>5, <1>6, <1>7, <1>9 DEF AllocatedHeap

\* What alloc_allocs does to the allocation table.
LEMMA AllocAllocs ==
  ASSUME NEW h, NEW als, Allocs(als), NEW bs, Blocks(bs), can_alloc(h, als, bs),
         NEW kind \in alloc_kind
  PROVE  AllocatedAllocs(als, bs, kind, alloc_allocs(als, bs, kind))
<1> DEFINE D(aid) == CHOOSE x \in DOMAIN bs : bs[x].l.prov = aid
           r == alloc_allocs(als, bs, kind)
<1>1. DOMAIN r = DOMAIN als \cup block_ids(bs)
  BY Zenon DEF alloc_allocs
<1>2. \A x \in DOMAIN bs : bs[x].l.prov \in block_ids(bs) /\ D(bs[x].l.prov) = x
  BY Zenon DEF can_alloc, block_ids
<1>3. \A x \in DOMAIN bs : bs[x].l.prov \notin DOMAIN als
  BY Zenon DEF can_alloc
<1>4. \A x \in DOMAIN bs : r[bs[x].l.prov] = live_allocation(bs[x], kind)
  BY Zenon, <1>2 DEF alloc_allocs
<1>5. \A aid \in DOMAIN als : r[aid] = als[aid]
  BY Zenon, <1>3 DEF alloc_allocs, block_ids
<1>6. \A x \in DOMAIN bs : live_allocation(bs[x], kind) \in allocation
  BY Zenon DEF Blocks, target, layout, live_allocation, allocation
<1>7. \A aid \in DOMAIN r : r[aid] \in allocation
  BY <1>1, <1>4, <1>5, <1>6 DEF Allocs, block_ids
<1>8. r \in [DOMAIN r -> allocation]
  BY Zenon, <1>7 DEF alloc_allocs
<1>9. DOMAIN r \subseteq AllocId
  BY Zenon, <1>1 DEF can_alloc, Allocs, block_ids
<1> QED
  BY Zenon, <1>1, <1>3, <1>4, <1>5, <1>8, <1>9 DEF Allocs, AllocatedAllocs

\* What free_heap does to a heap.
LEMMA FreeHeap ==
  ASSUME NEW h, Heap(h), NEW bs
  PROVE  FreedHeap(h, bs, free_heap(h, bs))
  BY Zenon DEF Heap, free_heap, FreedHeap

\* A killed allocation differs from the allocation in being dead only.
LEMMA Killed ==
  ASSUME NEW al \in allocation
  PROVE  /\ killed(al) \in allocation
         /\ killed(al).al_alive = FALSE
         /\ killed(al).al_kind = al.al_kind
         /\ killed(al).al_start = al.al_start
         /\ killed(al).al_len = al.al_len
  BY Zenon DEF killed, allocation

\* What free_allocs does to the allocation table.
LEMMA FreeAllocs ==
  ASSUME NEW als, Allocs(als), NEW bs
  PROVE  FreedAllocs(als, bs, free_allocs(als, bs))
  BY Zenon, Killed DEF Allocs, free_allocs, FreedAllocs

-----------------------------------------------------------------------------
(* heap_state_invariant: the lemmas heap_update_heap_state_invariant,      *)
(* alloc_new_blocks_invariant and free_blocks_invariant of heap.v.         *)

\* Changing bytes and lock states preserves heap_state_invariant
\* (heap_update_heap_state_invariant, heap.v).
LEMMA UpdInvariant ==
  ASSUME NEW h, NEW S, NEW v, NEW lk, NEW g, Updated(h, S, v, lk, g),
         NEW als, heap_state_invariant(h, als)
  PROVE  heap_state_invariant(g, als)
  BY Zenon DEF Updated, heap_state_invariant, heap_state_heap_cell_in_range_alloc,
       heap_state_heap_cell_alloc_alive, heap_state_alloc_alive_in_heap

\* The addresses of the allocation of a block are its cells.
LEMMA BlockAllocation ==
  ASSUME NEW bs, Blocks(bs), NEW x \in DOMAIN bs, NEW kind
  PROVE  /\ live_allocation(bs[x], kind).al_alive
         /\ \A a \in addr : in_allocation(a, live_allocation(bs[x], kind))
                              <=> a \in cells(bs[x].l, bs[x].ly)
<1>1. bs[x].l.addr \in Nat /\ bs[x].ly.ly_size \in Nat
  BY HeapAssumption DEF Blocks, target, layout, addr
<1> QED
  BY <1>1, HeapAssumption DEF live_allocation, al_end, in_allocation, cells, addr

\* Allocating blocks preserves heap_state_invariant (alloc_new_block_invariant, heap.v).
LEMMA AllocInvariant ==
  ASSUME NEW h, NEW als, NEW bs, NEW kind, NEW g, NEW r, Blocks(bs), can_alloc(h, als, bs),
         AllocatedHeap(h, bs, g), AllocatedAllocs(als, bs, kind, r),
         heap_state_invariant(h, als)
  PROVE  heap_state_invariant(g, r)
<1>1. \A x \in DOMAIN bs :
        /\ r[bs[x].l.prov].al_alive
        /\ \A a \in addr : in_allocation(a, r[bs[x].l.prov]) <=> a \in cells(bs[x].l, bs[x].ly)
  <2>1. \A x \in DOMAIN bs : r[bs[x].l.prov] = live_allocation(bs[x], kind)
    BY Zenon DEF AllocatedAllocs
  <2> QED BY <2>1, BlockAllocation
<1>13. \A x \in DOMAIN bs : allocation_in_range(r[bs[x].l.prov])
  <2> TAKE x \in DOMAIN bs
  <2>1. r[bs[x].l.prov] = live_allocation(bs[x], kind)
    BY Zenon DEF AllocatedAllocs
  <2>2. /\ min_alloc_start <= bs[x].l.addr
        /\ bs[x].l.addr + bs[x].ly.ly_size <= max_alloc_end
    BY Zenon DEF can_alloc
  <2> QED BY <2>1, <2>2 DEF live_allocation, allocation_in_range, al_end
<1>2. \A a \in DOMAIN g : \/ a \in DOMAIN h /\ g[a] = h[a]
                          \/ \E x \in DOMAIN bs : /\ a \in cells(bs[x].l, bs[x].ly)
                                                  /\ g[a].hc_alloc_id = bs[x].l.prov
  BY BlockCells DEF AllocatedHeap
<1>3. DOMAIN g \subseteq addr
  BY Zenon DEF AllocatedHeap, Heap
<1>4. \A aid \in DOMAIN r : \/ aid \in DOMAIN als /\ r[aid] = als[aid]
                            \/ \E x \in DOMAIN bs : aid = bs[x].l.prov
  BY Zenon, BlockCells DEF AllocatedAllocs
<1>5. \A aid \in DOMAIN als : aid \in DOMAIN r /\ r[aid] = als[aid]
  BY Zenon, BlockCells DEF AllocatedAllocs
<1>6. \A x \in DOMAIN bs : bs[x].l.prov \in DOMAIN r
  BY Zenon, BlockCells DEF AllocatedAllocs
<1>7. /\ DOMAIN h \subseteq DOMAIN g
      /\ \A x \in DOMAIN bs : cells(bs[x].l, bs[x].ly) \subseteq DOMAIN g
      /\ \A x \in DOMAIN bs : cells(bs[x].l, bs[x].ly) \cap DOMAIN h = {}
  BY Zenon, BlockCells DEF AllocatedHeap
<1>8. heap_state_heap_cell_in_range_alloc(g, r)
  BY Zenon, <1>1, <1>2, <1>3, <1>5, <1>6 DEF heap_state_invariant, heap_state_heap_cell_in_range_alloc
<1>9. heap_state_heap_cell_alloc_alive(g, r)
  BY <1>1, <1>2, <1>5, <1>6 DEF heap_state_invariant, heap_state_heap_cell_alloc_alive, alloc_id_alive
<1>10. heap_state_alloc_in_range(r)
  BY Zenon, <1>13, <1>4 DEF heap_state_invariant, heap_state_alloc_in_range
<1>11. heap_state_alloc_disjoint(r)
  <2> SUFFICES ASSUME NEW id1 \in DOMAIN r, NEW id2 \in DOMAIN r, id1 # id2,
                      r[id1].al_alive, r[id2].al_alive, NEW a \in addr,
                      in_allocation(a, r[id1]), in_allocation(a, r[id2])
               PROVE  FALSE
    BY Zenon DEF heap_state_alloc_disjoint, alloc_id_alive
  <2>1. ASSUME NEW id \in DOMAIN als, r[id].al_alive, in_allocation(a, r[id])
        PROVE  a \in DOMAIN h
    BY Zenon, <2>1, <1>5 DEF heap_state_invariant, heap_state_alloc_alive_in_heap, alloc_id_alive
  <2>2. CASE id1 \in DOMAIN als /\ id2 \in DOMAIN als
    BY Zenon, <2>2, <1>5 DEF heap_state_invariant, heap_state_alloc_disjoint, alloc_id_alive
  <2>3. CASE id1 \in DOMAIN als /\ \E x \in DOMAIN bs : id2 = bs[x].l.prov
    BY Zenon, <2>1, <2>3, <1>1, <1>7
  <2>4. CASE id2 \in DOMAIN als /\ \E x \in DOMAIN bs : id1 = bs[x].l.prov
    BY Zenon, <2>1, <2>4, <1>1, <1>7
  <2>5. CASE (\E x \in DOMAIN bs : id1 = bs[x].l.prov) /\ \E x \in DOMAIN bs : id2 = bs[x].l.prov
    BY Zenon, <2>5, <1>1 DEF can_alloc
  <2> QED BY Zenon, <2>2, <2>3, <2>4, <2>5, <1>4
<1>12. heap_state_alloc_alive_in_heap(g, r)
  BY Zenon, <1>1, <1>4, <1>7 DEF heap_state_invariant, heap_state_alloc_alive_in_heap, alloc_id_alive
<1> QED
  BY Zenon, <1>8, <1>9, <1>10, <1>11, <1>12 DEF heap_state_invariant

\* Freeing blocks preserves heap_state_invariant (free_block_invariant, heap.v).
LEMMA FreeInvariant ==
  ASSUME NEW h, Heap(h), NEW als, Allocs(als), NEW bs, NEW kind, NEW g, NEW r,
         Blocks(bs), can_free(h, als, bs, kind), FreedHeap(h, bs, g), FreedAllocs(als, bs, r),
         heap_state_invariant(h, als)
  PROVE  heap_state_invariant(g, r)
<1>1. \A x \in DOMAIN bs :
        /\ bs[x].l.prov \in DOMAIN als
        /\ als[bs[x].l.prov].al_alive
        /\ \A a \in addr : in_allocation(a, als[bs[x].l.prov]) <=> a \in cells(bs[x].l, bs[x].ly)
  BY BlockAllocation DEF can_free
<1>2. /\ DOMAIN g = DOMAIN h \ block_cells(bs)
      /\ \A a \in DOMAIN g : g[a] = h[a]
      /\ DOMAIN h \subseteq addr
  BY Zenon DEF FreedHeap, Heap
<1>3. /\ DOMAIN r = DOMAIN als
      /\ \A aid \in DOMAIN r : r[aid] = IF aid \in block_ids(bs) THEN killed(als[aid]) ELSE als[aid]
  BY Zenon DEF FreedAllocs
<1>4. \A aid \in DOMAIN als : als[aid] \in allocation
  BY Zenon DEF Allocs
<1>5. \A aid \in DOMAIN r :
        /\ r[aid].al_start = als[aid].al_start
        /\ r[aid].al_len = als[aid].al_len
        /\ r[aid].al_alive <=> als[aid].al_alive /\ aid \notin block_ids(bs)
  BY Zenon, <1>3, <1>4, Killed
<1>8. \A aid \in DOMAIN r : \A a : in_allocation(a, r[aid]) <=> in_allocation(a, als[aid])
  BY Zenon, <1>5 DEF in_allocation, al_end
<1>9. \A a \in DOMAIN g : h[a].hc_alloc_id \notin block_ids(bs)
  BY <1>1, <1>2, BlockCells DEF heap_state_invariant, heap_state_heap_cell_in_range_alloc
<1>10. heap_state_heap_cell_in_range_alloc(g, r)
  BY Zenon, <1>2, <1>3, <1>8 DEF heap_state_invariant, heap_state_heap_cell_in_range_alloc
<1>11. heap_state_heap_cell_alloc_alive(g, r)
  BY Zenon, <1>2, <1>3, <1>5, <1>9 DEF heap_state_invariant, heap_state_heap_cell_alloc_alive, alloc_id_alive
<1>12. heap_state_alloc_in_range(r)
  BY Zenon, <1>3, <1>5 DEF heap_state_invariant, heap_state_alloc_in_range, allocation_in_range, al_end
<1>13. heap_state_alloc_disjoint(r)
  BY Zenon, <1>3, <1>5, <1>8 DEF heap_state_invariant, heap_state_alloc_disjoint, alloc_id_alive
<1>14. heap_state_alloc_alive_in_heap(g, r)
  <2> SUFFICES ASSUME NEW aid \in DOMAIN r, r[aid].al_alive, NEW a \in addr, in_allocation(a, r[aid])
               PROVE  a \in DOMAIN g
    BY Zenon DEF heap_state_alloc_alive_in_heap, alloc_id_alive
  <2>1. a \in DOMAIN h
    BY Zenon, <1>3, <1>5, <1>8 DEF heap_state_invariant, heap_state_alloc_alive_in_heap, alloc_id_alive
  <2>2. ASSUME NEW x \in DOMAIN bs, a \in cells(bs[x].l, bs[x].ly) PROVE FALSE
    BY <2>2, <1>1, <1>3, <1>5, <1>8, BlockCells DEF heap_state_invariant, heap_state_alloc_disjoint, alloc_id_alive
  <2> QED BY Zenon, <2>1, <2>2, <1>2, BlockCells
<1> QED
  BY Zenon, <1>10, <1>11, <1>12, <1>13, <1>14 DEF heap_state_invariant

-----------------------------------------------------------------------------
(* Cells of a location *)

\* Cells that heap_at finds exist.
LEMMA HeapAtCells ==
  ASSUME NEW h, NEW l, NEW ly, NEW lks, heap_at(h, l, ly, lks)
  PROVE  /\ cells(l, ly) \in SUBSET DOMAIN h
         /\ \A a \in cells(l, ly) : h[a].hc_lock_state \in lks
  BY Zenon DEF heap_at

\* The value at a location is a sequence of bytes, one for each cell.
LEMMA ValueType ==
  ASSUME NEW h, Heap(h), NEW l, NEW ly, cells(l, ly) \in SUBSET DOMAIN h
  PROVE  value_at(h, l, ly) \in [cells(l, ly) -> mbyte]
<1>1. \A a \in cells(l, ly) : h[a] \in heap_cell
  BY Zenon DEF Heap
<1>2. \A a \in cells(l, ly) : h[a].hc_value \in mbyte
  BY Zenon, <1>1 DEF heap_cell
<1> QED
  BY Zenon, <1>2 DEF value_at

\* A heap g that has the same cells at a location as h holds the same there.
LEMMA SameCells ==
  ASSUME NEW h, NEW g, NEW l, NEW ly, \A a \in cells(l, ly) : a \in DOMAIN g /\ g[a] = h[a]
  PROVE  /\ value_at(g, l, ly) = value_at(h, l, ly)
         /\ \A lks : heap_at(h, l, ly, lks) => heap_at(g, l, ly, lks)
<1>1. value_at(g, l, ly) = value_at(h, l, ly)
  BY Zenon DEF value_at
<1>2. ASSUME NEW lks, heap_at(h, l, ly, lks) PROVE heap_at(g, l, ly, lks)
  BY <1>2 DEF heap_at
<1> QED BY Zenon, <1>1, <1>2

=============================================================================
