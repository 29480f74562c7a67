---------------------------- MODULE CaesiumHeap -----------------------------
(***************************************************************************)
(* The memory of Caesium, the C semantics underneath RefinedC              *)
(* (theories/caesium/heap.v): a heap of bytes, each with the allocation    *)
(* that owns it and a lock state for the detection of data races, and the  *)
(* table of all allocations ever made.                                     *)
(*                                                                         *)
(* A heap is a function h whose domain is the set of allocated addresses;  *)
(* an allocation table is a function als from the identifiers used so far. *)
(* A value in memory is a function from the addresses it occupies to their *)
(* bytes.  Option results are sets with at most one element.               *)
(***************************************************************************)
EXTENDS Integers, FiniteSets

CONSTANTS
  AllocId,   \* allocation identifiers
  Byte,      \* the defined bytes, without provenance
  MPoison,   \* the undefined byte
  MaxAddr    \* the largest address, 2^64 - 1 in the code

ASSUME HeapAssumption ==
  /\ MaxAddr \in Nat
  /\ MPoison \notin Byte
  /\ AllocId \cap {"ProvNull", "ProvFnPtr", "ProvAllocNone"} = {}

mbyte == Byte \cup {MPoison}

addr == 0 .. MaxAddr

\* ProvAlloc (Some aid) is aid itself.
loc == [prov : AllocId \cup {"ProvNull", "ProvFnPtr", "ProvAllocNone"}, addr : addr]

NULL_loc == [prov |-> "ProvNull", addr |-> 0]

\* The locations that blocks and accesses are at.
target == [prov : AllocId, addr : addr]

\* The state of a cell being written, or RSt n as the number n of its readers.
WSt == -1
RSt == Nat
lock_state == RSt \cup {WSt}

heap_cell == [hc_alloc_id : AllocId, hc_lock_state : lock_state, hc_value : mbyte]

\* Types of layouts and of the table's entries.
layout == [ly_size : Nat, ly_align : Nat \ {0}]
alloc_kind == {"HeapAlloc", "StackAlloc", "GlobalAlloc"}
allocation == [al_start : addr, al_len : Nat, al_alive : BOOLEAN, al_kind : alloc_kind]

-----------------------------------------------------------------------------
(* Cells *)

\* The addresses of a block of ly's size at l.
cells(l, ly) == l.addr .. (l.addr + ly.ly_size - 1)

has_layout_loc(l, ly) == l.addr % ly.ly_align = 0

\* heap_at: l is aligned for ly and all of its cells are there, belong to the
\* allocation of l, and are in one of the lock states lks.
heap_at(h, l, ly, lks) ==
  /\ l.prov \in AllocId
  /\ has_layout_loc(l, ly)
  /\ \A a \in cells(l, ly) :
       /\ a \in DOMAIN h
       /\ h[a].hc_alloc_id = l.prov
       /\ h[a].hc_lock_state \in lks

\* The value that heap_at finds at l.
value_at(h, l, ly) == [a \in cells(l, ly) |-> h[a].hc_value]

\* heap_upd on cells that exist: they get the bytes v and the lock states lk.
heap_upd(h, v, lk) ==
  [a \in DOMAIN h |->
     IF a \in DOMAIN v
     THEN [hc_alloc_id |-> h[a].hc_alloc_id, hc_lock_state |-> lk[a], hc_value |-> v[a]]
     ELSE h[a]]

-----------------------------------------------------------------------------
(* Allocations *)

min_alloc_start == 1
max_alloc_end == MaxAddr - 1

al_end(al) == al.al_start + al.al_len

allocation_in_range(al) == min_alloc_start <= al.al_start /\ al_end(al) <= max_alloc_end

\* The addresses of an allocation.
in_allocation(a, al) == al.al_start <= a /\ a < al_end(al)

killed(al) == [al EXCEPT !.al_alive = FALSE]

alloc_id_alive(als, aid) == aid \in DOMAIN als /\ als[aid].al_alive

block_alive(als, l) == l.prov \in AllocId /\ alloc_id_alive(als, l.prov)

heap_state_loc_in_bounds(als, l, n) ==
  /\ l.prov \in DOMAIN als
  /\ allocation_in_range(als[l.prov])
  /\ als[l.prov].al_start <= l.addr
  /\ l.addr + n <= al_end(als[l.prov])

valid_ptr(als, l) == block_alive(als, l) /\ heap_state_loc_in_bounds(als, l, 0)

\* Whether two pointers compare equal; {} if the comparison is undefined.
heap_loc_eq(als, l1, l2) ==
  LET AgainstNull(l) == l.prov = "ProvFnPtr" \/ heap_state_loc_in_bounds(als, l, 0)
  IN {b \in BOOLEAN :
        \/ l1 = NULL_loc /\ l2 = NULL_loc /\ b
        \/ l1 = NULL_loc /\ AgainstNull(l2) /\ ~b
        \/ l2 = NULL_loc /\ AgainstNull(l1) /\ ~b
        \/ /\ \/ l1.prov = "ProvFnPtr" /\ l2.prov = "ProvFnPtr"
              \/ valid_ptr(als, l1) /\ valid_ptr(als, l2)
           /\ b = (l1.addr = l2.addr)}

-----------------------------------------------------------------------------
(* alloc_new_blocks and free_blocks, on the blocks bs, a function from the *)
(* names of the blocks to records with the location l and the layout ly.   *)

block_cells(bs) == UNION {cells(bs[x].l, bs[x].ly) : x \in DOMAIN bs}
block_ids(bs) == {bs[x].l.prov : x \in DOMAIN bs}

\* The table's entry for a new block.
live_allocation(b, kind) ==
  [al_start |-> b.l.addr, al_len |-> b.ly.ly_size, al_alive |-> TRUE, al_kind |-> kind]

\* Mutant: an identifier may be used again once its allocation is dead.
can_alloc_reuse(h, als, bs) ==
  /\ \A x \in DOMAIN bs :
       /\ bs[x].l.prov \in AllocId /\ ~alloc_id_alive(als, bs[x].l.prov)
       /\ min_alloc_start <= bs[x].l.addr
       /\ bs[x].l.addr + bs[x].ly.ly_size <= max_alloc_end
       /\ cells(bs[x].l, bs[x].ly) \cap DOMAIN h = {}
  /\ \A x, y \in DOMAIN bs : x # y =>
       /\ bs[x].l.prov # bs[y].l.prov
       /\ cells(bs[x].l, bs[x].ly) \cap cells(bs[y].l, bs[y].ly) = {}

\* Mutant: heap_range_free does not look at the last cell.
can_alloc_overlap(h, als, bs) ==
  /\ \A x \in DOMAIN bs :
       /\ bs[x].l.prov \in AllocId \ DOMAIN als
       /\ min_alloc_start <= bs[x].l.addr
       /\ bs[x].l.addr + bs[x].ly.ly_size <= max_alloc_end
       /\ bs[x].l.addr .. (bs[x].l.addr + bs[x].ly.ly_size - 2) \cap DOMAIN h = {}
  /\ \A x, y \in DOMAIN bs : x # y =>
       /\ bs[x].l.prov # bs[y].l.prov
       /\ cells(bs[x].l, bs[x].ly) \cap cells(bs[y].l, bs[y].ly) = {}

\* Every block is new: an identifier never used before, a range of free
\* addresses inside the allocatable memory, also with respect to each other.
can_alloc(h, als, bs) ==
  /\ \A x \in DOMAIN bs :
       /\ bs[x].l.prov \in AllocId \ DOMAIN als
       /\ min_alloc_start <= bs[x].l.addr
       /\ bs[x].l.addr + bs[x].ly.ly_size <= max_alloc_end
       /\ cells(bs[x].l, bs[x].ly) \cap DOMAIN h = {}
  /\ \A x, y \in DOMAIN bs : x # y =>
       /\ bs[x].l.prov # bs[y].l.prov
       /\ cells(bs[x].l, bs[x].ly) \cap cells(bs[y].l, bs[y].ly) = {}

\* heap_alloc of all blocks, with the bytes v.
alloc_heap(h, bs, v) ==
  [a \in DOMAIN h \cup block_cells(bs) |->
     IF a \in block_cells(bs)
     THEN [hc_alloc_id |-> bs[CHOOSE x \in DOMAIN bs : a \in cells(bs[x].l, bs[x].ly)].l.prov,
           hc_lock_state |-> 0,
           hc_value |-> v[a]]
     ELSE h[a]]

alloc_allocs(als, bs, kind) ==
  [aid \in DOMAIN als \cup block_ids(bs) |->
     IF aid \in block_ids(bs)
     THEN live_allocation(bs[CHOOSE x \in DOMAIN bs : bs[x].l.prov = aid], kind)
     ELSE als[aid]]

\* Mutant: a block can be freed while it is being read or written.
can_free_busy(h, als, bs, kind) ==
  /\ \A x \in DOMAIN bs :
       /\ bs[x].l.prov \in DOMAIN als
       /\ als[bs[x].l.prov] = live_allocation(bs[x], kind)
  /\ \A x, y \in DOMAIN bs : x # y => bs[x].l.prov # bs[y].l.prov

\* Every block is exactly a live allocation of that kind, and nothing is
\* being read or written in it.
can_free(h, als, bs, kind) ==
  /\ \A x \in DOMAIN bs :
       /\ bs[x].l.prov \in DOMAIN als
       /\ als[bs[x].l.prov] = live_allocation(bs[x], kind)
       /\ \A a \in cells(bs[x].l, bs[x].ly) :
            /\ a \in DOMAIN h
            /\ h[a].hc_alloc_id = bs[x].l.prov
            /\ h[a].hc_lock_state = 0
  /\ \A x, y \in DOMAIN bs : x # y => bs[x].l.prov # bs[y].l.prov

\* Mutant: heap_free leaves the last cell of a block behind.
free_heap_short(h, bs) ==
  [a \in DOMAIN h \ {c \in block_cells(bs) : c + 1 \in block_cells(bs)} |-> h[a]]

free_heap(h, bs) == [a \in DOMAIN h \ block_cells(bs) |-> h[a]]

free_allocs(als, bs) ==
  [aid \in DOMAIN als |->
     IF aid \in block_ids(bs) THEN killed(als[aid]) ELSE als[aid]]

-----------------------------------------------------------------------------
(* heap_state_invariant *)

heap_state_heap_cell_in_range_alloc(h, als) ==
  \A a \in DOMAIN h :
    h[a].hc_alloc_id \in DOMAIN als /\ in_allocation(a, als[h[a].hc_alloc_id])

heap_state_heap_cell_alloc_alive(h, als) ==
  \A a \in DOMAIN h : alloc_id_alive(als, h[a].hc_alloc_id)

heap_state_alloc_in_range(als) == \A aid \in DOMAIN als : allocation_in_range(als[aid])

heap_state_alloc_disjoint(als) ==
  \A id1, id2 \in DOMAIN als :
    id1 # id2 /\ alloc_id_alive(als, id1) /\ alloc_id_alive(als, id2) =>
      \A a \in addr : ~(in_allocation(a, als[id1]) /\ in_allocation(a, als[id2]))

heap_state_alloc_alive_in_heap(h, als) ==
  \A aid \in DOMAIN als : alloc_id_alive(als, aid) =>
    \A a \in addr : in_allocation(a, als[aid]) => a \in DOMAIN h

heap_state_invariant(h, als) ==
  /\ heap_state_heap_cell_in_range_alloc(h, als)
  /\ heap_state_heap_cell_alloc_alive(h, als)
  /\ heap_state_alloc_in_range(als)
  /\ heap_state_alloc_disjoint(als)
  /\ heap_state_alloc_alive_in_heap(h, als)

=============================================================================
