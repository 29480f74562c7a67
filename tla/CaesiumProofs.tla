---------------------------- MODULE CaesiumProofs ---------------------------
(***************************************************************************)
(* The steps that allocate and free blocks preserve the invariants of      *)
(* CaesiumAccessProofs too, and what follows from them for every run.      *)
(***************************************************************************)
EXTENDS CaesiumAccessProofs

-----------------------------------------------------------------------------
(* Allocation and deallocation *)

\* A step that neither begins nor ends an access.
Quiet ==
  /\ acc' = acc
  /\ \A u \in Thread : \/ redex'[u] = redex[u]
                       \/ /\ redex[u] \notin {"Na2Deref", "Na2Assign"}
                          /\ redex'[u] \notin {"Na2Deref", "Na2Assign"}

\* Such a step leaves the readers and writers of every cell alone.
LEMMA QuietReaders ==
  ASSUME Quiet
  PROVE  \A a : Readers(a)' = Readers(a) /\ Writers(a)' = Writers(a)
  BY Zenon DEF Quiet, Readers, Writers

\* A step that leaves alone every cell that some thread is accessing.
LEMMA QuietAccesses ==
  ASSUME Quiet, \A u \in Thread : AccessOK(u),
         \A a \in DOMAIN hs_heap : Readers(a) # {} \/ Writers(a) # {} =>
           a \in DOMAIN hs_heap' /\ hs_heap'[a] = hs_heap[a]
  PROVE  \A u \in Thread : AccessOK(u)'
<1> TAKE u \in Thread
<1>1. CASE redex[u] \in {"Na2Deref", "Na2Assign"}
  <2>1. redex'[u] = redex[u] /\ acc'[u] = acc[u]
    BY Zenon, <1>1 DEF Quiet
  <2>2. \A a \in cells(acc[u].l, acc[u].ly) :
          a \in DOMAIN hs_heap /\ (Readers(a) # {} \/ Writers(a) # {})
    BY Zenon, <1>1 DEF AccessOK, heap_at, Readers, Writers
  <2>3. \A a \in cells(acc[u].l, acc[u].ly) : a \in DOMAIN hs_heap' /\ hs_heap'[a] = hs_heap[a]
    BY Zenon, <2>2
  <2>4. /\ value_at(hs_heap', acc[u].l, acc[u].ly) = value_at(hs_heap, acc[u].l, acc[u].ly)
        /\ \A lks : heap_at(hs_heap, acc[u].l, acc[u].ly, lks)
                    => heap_at(hs_heap', acc[u].l, acc[u].ly, lks)
    BY <2>3, SameCells, Zenon
  <2> QED BY Zenon, <2>1, <2>4 DEF AccessOK
<1>2. CASE redex[u] \notin {"Na2Deref", "Na2Assign"}
  BY Zenon, <1>2 DEF Quiet, AccessOK
<1> QED BY Zenon, <1>1, <1>2

\* A quiet step that allocates blocks preserves the invariants about the heap.
LEMMA AllocStep ==
  ASSUME IInv, Quiet, NEW bs, NEW kind \in alloc_kind, NEW v \in [block_cells(bs) -> mbyte],
         Blocks(bs), can_alloc(hs_heap, hs_allocs, bs),
         hs_heap' = alloc_heap(hs_heap, bs, v),
         hs_allocs' = alloc_allocs(hs_allocs, bs, kind)
  PROVE  /\ Heap(hs_heap') /\ Allocs(hs_allocs')
         /\ HeapStateInvariant' /\ (LInv => LInv')
<1>1. AllocatedHeap(hs_heap, bs, hs_heap')
  BY Zenon, TypeFacts, AllocHeap DEF IInv
<1>2. AllocatedAllocs(hs_allocs, bs, kind, hs_allocs')
  BY TypeFacts, AllocAllocs, Zenon DEF IInv
<1>3. HeapStateInvariant'
  <2>1. heap_state_invariant(hs_heap', hs_allocs')
    BY Zenon, <1>1, <1>2, AllocInvariant DEF IInv, HeapStateInvariant
  <2> QED BY Zenon, <2>1 DEF HeapStateInvariant
<1>4. Heap(hs_heap') /\ Allocs(hs_allocs')
  BY Zenon, <1>1, <1>2 DEF AllocatedHeap, AllocatedAllocs
<1> SUFFICES ASSUME LInv PROVE LInv'
  BY Zenon, <1>3, <1>4
<1>5. \A u \in Thread : AccessOK(u)
  BY Zenon, AccessOKs DEF LInv
<1>6. LockStatesExact'
  <2> SUFFICES ASSUME NEW a \in DOMAIN hs_heap' PROVE LockExact(a)'
    BY Zenon DEF LockStatesExact, LockExact
  <2>1. CASE a \in DOMAIN hs_heap
    <3>1. hs_heap'[a] = hs_heap[a] /\ LockExact(a)
      BY Zenon, <2>1, <1>1 DEF AllocatedHeap, LInv, LockStatesExact, LockExact
    <3> QED BY Zenon, <3>1, QuietReaders DEF LockExact
  <2>2. CASE a \notin DOMAIN hs_heap
    <3>1. hs_heap'[a].hc_lock_state = 0
      BY Zenon, <2>2, <1>1 DEF AllocatedHeap
    <3>2. Readers(a) = {} /\ Writers(a) = {}
      BY Zenon, <2>2, <1>5 DEF AccessOK, heap_at, Readers, Writers
    <3> QED BY Zenon, <3>1, <3>2, QuietReaders, Count DEF LockExact
  <2> QED BY Zenon, <2>1, <2>2
<1>7. \A u \in Thread : AccessOK(u)'
  BY Zenon, <1>1, <1>5, QuietAccesses DEF AllocatedHeap
<1> QED
  BY Zenon, <1>6, <1>7 DEF LInv, AccessOK, AccessCompletes, ReadStable

\* A quiet step that frees blocks preserves the invariants about the heap.
LEMMA FreeStep ==
  ASSUME IInv, Quiet, NEW bs, NEW kind, Blocks(bs),
         can_free(hs_heap, hs_allocs, bs, kind),
         hs_heap' = free_heap(hs_heap, bs),
         hs_allocs' = free_allocs(hs_allocs, bs)
  PROVE  /\ Heap(hs_heap') /\ Allocs(hs_allocs')
         /\ HeapStateInvariant' /\ (LInv => LInv')
<1>1. FreedHeap(hs_heap, bs, hs_heap')
  BY Zenon, TypeFacts, FreeHeap DEF IInv
<1>2. FreedAllocs(hs_allocs, bs, hs_allocs')
  BY Zenon, TypeFacts, FreeAllocs DEF IInv
<1>3. HeapStateInvariant'
  <2>1. heap_state_invariant(hs_heap', hs_allocs')
    BY <1>1, <1>2, TypeFacts, FreeInvariant DEF IInv, HeapStateInvariant
  <2> QED BY Zenon, <2>1 DEF HeapStateInvariant
<1>4. Heap(hs_heap') /\ Allocs(hs_allocs')
  BY Zenon, <1>1, <1>2 DEF FreedHeap, FreedAllocs
<1> SUFFICES ASSUME LInv PROVE LInv'
  BY Zenon, <1>3, <1>4
<1>5. \A a \in block_cells(bs) : Readers(a) = {} /\ Writers(a) = {}
  <2> TAKE a \in block_cells(bs)
  <2>1. a \in DOMAIN hs_heap /\ hs_heap[a].hc_lock_state = 0
    BY BlockCells DEF can_free
  <2> QED BY Zenon, <2>1, LockFacts DEF LInv
<1>6. LockStatesExact'
  BY Zenon, <1>1, QuietReaders DEF FreedHeap, LInv, LockStatesExact
<1>7. \A u \in Thread : AccessOK(u)'
  <2>1. \A u \in Thread : AccessOK(u)
    BY Zenon, AccessOKs DEF LInv
  <2> QED BY Zenon, <1>1, <1>5, <2>1, QuietAccesses DEF FreedHeap
<1> QED
  BY Zenon, <1>6, <1>7 DEF LInv, AccessOK, AccessCompletes, ReadStable

\* A single block is a set of blocks.
LEMMA OneBlockType ==
  ASSUME NEW l \in target, NEW ly \in AccessLayout
  PROVE  Blocks(one_block(l, ly)) /\ block_cells(one_block(l, ly)) = cells(l, ly)
  BY Zenon, CaesiumAssumption DEF Blocks, one_block, block_cells

\* The blocks of a frame are blocks.
LEMMA FrameType ==
  /\ \A f \in Fn : \A ls \in [Vars(f) -> target] : frame_at(f, ls) \in frame
  /\ \A bs \in frame : Blocks(bs)
<1> DEFINE F(f) == {frame_at(f, ls) : ls \in [Vars(f) -> target]}
<1>1. \A f \in Fn : \A ls \in [Vars(f) -> target] : frame_at(f, ls) \in F(f) /\ Blocks(frame_at(f, ls))
  BY Zenon, CaesiumAssumption DEF Blocks, frame_at
<1>2. frame = UNION {F(f) : f \in Fn}
  BY Zenon DEF frame
<1>3. \A f \in Fn : \A bs \in F(f) : \E ls \in [Vars(f) -> target] : bs = frame_at(f, ls)
  BY Zenon
<1> HIDE DEF F
<1> QED BY <1>1, <1>2, <1>3

\* AllocS and FreeS, the steps of the program that allocate and free one block.
LEMMA BlockActionStep ==
  ASSUME IInv, NEW t \in Thread, NEW l \in target, NEW ly \in AccessLayout,
         \/ Free(t, l, ly)
         \/ \E v \in [cells(l, ly) -> mbyte] : Alloc(t, l, ly, v)
  PROVE  IInv' /\ (LInv => LInv')
<1>1. Quiet /\ redex' = redex /\ acc' = acc /\ stack' = stack
  BY Zenon DEF Free, Alloc, Quiet
<1>2. CASE Free(t, l, ly)
  <2>1. /\ Heap(hs_heap') /\ Allocs(hs_allocs')
        /\ HeapStateInvariant' /\ (LInv => LInv')
    BY Zenon, <1>1, <1>2, OneBlockType, FreeStep DEF Free
  <2> QED BY Zenon, <2>1, <1>1 DEF IInv, TypeOK, Heap, Allocs
<1>3. ASSUME NEW v \in [cells(l, ly) -> mbyte], Alloc(t, l, ly, v)
      PROVE  IInv' /\ (LInv => LInv')
  <2>1. /\ Heap(hs_heap') /\ Allocs(hs_allocs')
        /\ HeapStateInvariant' /\ (LInv => LInv')
    <3>1. v \in [block_cells(one_block(l, ly)) -> mbyte] /\ Blocks(one_block(l, ly))
      BY Zenon, OneBlockType
    <3>2. "HeapAlloc" \in alloc_kind
      BY Zenon DEF alloc_kind
    <3>3. /\ can_alloc(hs_heap, hs_allocs, one_block(l, ly))
          /\ hs_heap' = alloc_heap(hs_heap, one_block(l, ly), v)
          /\ hs_allocs' = alloc_allocs(hs_allocs, one_block(l, ly), "HeapAlloc")
      BY Zenon, <1>3 DEF Alloc
    <3> QED BY Zenon, <1>1, <3>1, <3>2, <3>3, AllocStep
  <2> QED BY Zenon, <2>1, <1>1 DEF IInv, TypeOK, Heap, Allocs
<1> QED BY Zenon, <1>2, <1>3

\* A call (CallS) that allocates the blocks of its arguments and local variables.
LEMMA CallStep ==
  ASSUME IInv, NEW t \in Thread, NEW f \in Fn, NEW ls \in [Vars(f) -> target],
         NEW v \in [block_cells(frame_at(f, ls)) -> mbyte], Call(t, f, frame_at(f, ls), v)
  PROVE  IInv' /\ (LInv => LInv')
<1> DEFINE bs == frame_at(f, ls)
<1>1. bs \in frame /\ Blocks(bs)
  BY Zenon, FrameType
<1>2. /\ redex[t] \in {"eval", "call_main"} /\ redex' = [redex EXCEPT ![t] = "eval"]
      /\ acc' = acc
      /\ stack' = [stack EXCEPT ![t] = Append(stack[t], bs)] /\ Len(stack[t]) < MaxDepth
  BY Zenon DEF Call, Goes
<1>3. Quiet
  BY Zenon, <1>2 DEF Quiet, IInv, TypeOK
<1>4. /\ Heap(hs_heap') /\ Allocs(hs_allocs')
      /\ HeapStateInvariant' /\ (LInv => LInv')
  <2>1. "StackAlloc" \in alloc_kind
    BY Zenon DEF alloc_kind
  <2>2. /\ can_alloc(hs_heap, hs_allocs, bs)
        /\ hs_heap' = alloc_heap(hs_heap, bs, v)
        /\ hs_allocs' = alloc_allocs(hs_allocs, bs, "StackAlloc")
    BY Zenon DEF Call
  <2> HIDE DEF bs
  <2> QED BY Zenon, <1>1, <1>3, <2>1, <2>2, AllocStep DEF bs
<1>5. /\ Append(stack[t], bs) \in Seq(frame) /\ Append(stack[t], bs) # <<>>
      /\ Len(Append(stack[t], bs)) <= MaxDepth
  <2>1. stack[t] \in Seq(frame) /\ MaxDepth \in Nat
    BY Zenon, CaesiumAssumption DEF IInv, TypeOK
  <2> HIDE DEF bs
  <2> QED BY <1>1, <1>2, <2>1
<1>6. TypeOK'
  <2> HIDE DEF bs
  <2> QED BY Zenon, <1>2, <1>4, <1>5 DEF IInv, TypeOK, Heap, Allocs, Redex
<1> QED BY Zenon, <1>4, <1>6 DEF IInv

\* A stack without its top frame.
LEMMA Pop ==
  ASSUME NEW S, NEW s \in Seq(S), NEW n \in Nat, n + 1 = Len(s)
  PROVE  /\ SubSeq(s, 1, n) \in Seq(S)
         /\ Len(SubSeq(s, 1, n)) = n
         /\ \A i \in 1 .. n : SubSeq(s, 1, n)[i] = s[i]
<1>1. Len(SubSeq(s, 1, n)) = n
  OBVIOUS
<1>2. SubSeq(s, 1, n) \in Seq(S) /\ \A i \in 1 .. n : SubSeq(s, 1, n)[i] = s[i]
  OBVIOUS
<1> QED
  BY <1>1, <1>2, Zenon

\* The empty stack, and stacks that are not empty.
LEMMA EmptySequence ==
  /\ \A S : <<>> \in Seq(S) /\ Len(<<>>) = 0
  /\ \A S : \A s \in Seq(S) : s # <<>> => Len(s) \in Nat \ {0}
  OBVIOUS

\* The return from a function (ReturnS), which frees the blocks of its frame.
LEMMA ReturnStep ==
  ASSUME IInv, NEW t \in Thread, Return(t)
  PROVE  IInv' /\ (LInv => LInv')
<1> DEFINE n == Len(stack[t])
           bs == stack[t][n]
           to == IF n = 1 THEN "val" ELSE "eval"
<1>1. /\ redex[t] = "eval" /\ redex' = [redex EXCEPT ![t] = to]
      /\ acc' = acc
      /\ stack' = [stack EXCEPT ![t] = SubSeq(stack[t], 1, n - 1)]
  BY Zenon DEF Return, Goes
<1>2. stack[t] \in Seq(frame) /\ n \in Nat /\ n > 0 /\ n <= MaxDepth /\ MaxDepth \in Nat
  BY <1>1, CaesiumAssumption DEF IInv, TypeOK
<1>3. bs \in frame /\ Blocks(bs)
  BY <1>2, FrameType
<1>4. Quiet
  BY Zenon, <1>1 DEF Quiet, IInv, TypeOK
<1>5. /\ Heap(hs_heap') /\ Allocs(hs_allocs')
      /\ HeapStateInvariant' /\ (LInv => LInv')
  <2>1. /\ can_free(hs_heap, hs_allocs, bs, "StackAlloc")
        /\ hs_heap' = free_heap(hs_heap, bs)
        /\ hs_allocs' = free_allocs(hs_allocs, bs)
    BY Zenon DEF Return
  <2> HIDE DEF bs
  <2> QED BY Zenon, <1>3, <1>4, <2>1, FreeStep
<1>6. /\ SubSeq(stack[t], 1, n - 1) \in Seq(frame)
      /\ Len(SubSeq(stack[t], 1, n - 1)) = n - 1
      /\ n # 1 => SubSeq(stack[t], 1, n - 1) # <<>>
  <2>1. PICK m \in Nat : m = n - 1 /\ m + 1 = Len(stack[t])
    BY <1>2
  <2>2. SubSeq(stack[t], 1, m) \in Seq(frame) /\ Len(SubSeq(stack[t], 1, m)) = m
    BY <1>2, <2>1, Pop, Zenon
  <2>3. m # 0 => SubSeq(stack[t], 1, m) # <<>>
    BY <2>1, <2>2, EmptySequence, Zenon
  <2>4. n # 1 => m # 0
    BY <1>2, <2>1
  <2> QED BY Zenon, <2>1, <2>2, <2>3, <2>4
<1>7. TypeOK'
  <2>1. to \in Redex /\ to \notin {"Na2Deref", "Na2Assign"} /\ (to = "eval" => n # 1)
    BY Zenon DEF Redex
  <2> HIDE DEF to, bs
  <2> QED BY <1>1, <1>2, <1>5, <1>6, <2>1 DEF IInv, TypeOK, Heap, Allocs
<1> QED BY Zenon, <1>5, <1>7 DEF IInv

\* A step by which a thread runs out of memory.
Fails(t) == AllocFail(t) \/ \E f \in Fn : CallFail(t, f)

\* A thread out of memory spins (CallFailS, AllocFailS), or nothing happens.
LEMMA IdleStep ==
  ASSUME IInv, (\E t \in Thread : Fails(t)) \/ UNCHANGED vars
  PROVE  IInv' /\ (LInv => LInv')
<1>1. CASE UNCHANGED vars
  BY <1>1 DEF vars, IInv, LInv, TypeOK, HeapStateInvariant, LockStatesExact, AccessCompletes, ReadStable,
     Readers, Writers
<1>2. ASSUME NEW t \in Thread, Fails(t) PROVE IInv' /\ (LInv => LInv')
  <2>1. Quiet /\ hs_heap' = hs_heap /\ hs_allocs' = hs_allocs /\ stack' = stack /\ acc' = acc
    BY Zenon, <1>2 DEF Quiet, Fails, AllocFail, CallFail, Goes, IInv, TypeOK
  <2>2. TypeOK'
    BY Zenon, <1>2 DEF Fails, AllocFail, CallFail, Goes, IInv, TypeOK, Redex
  <2>3. IInv'
    BY Zenon, <2>1, <2>2 DEF IInv, HeapStateInvariant
  <2> SUFFICES ASSUME LInv PROVE LInv'
    BY Zenon, <2>3
  <2>4. LockStatesExact'
    BY Zenon, <2>1, QuietReaders DEF LInv, LockStatesExact
  <2>5. \A u \in Thread : AccessOK(u)'
    <3>1. \A u \in Thread : AccessOK(u)
      BY Zenon, AccessOKs DEF LInv
    <3> QED BY Zenon, <2>1, <3>1, QuietAccesses
  <2> QED BY Zenon, <2>4, <2>5 DEF LInv, AccessOK, AccessCompletes, ReadStable
<1> QED BY Zenon, <1>1, <1>2

\* The accesses that a program without Na2Ord does not contain.
BareNa2(t, l, ly) ==
  DerefNa2Bare(t, l, ly) \/ \E v \in [cells(l, ly) -> mbyte] : AssignNa2Bare(t, l, ly, v)

\* Every step preserves the first invariant, and the second one too unless it is an
\* access written with Na2Ord.
LEMMA StepPreserves ==
  ASSUME IInv, [Next]_vars
  PROVE  /\ IInv'
         /\ \/ LInv => LInv'
            \/ \E t \in Thread, l \in target, ly \in AccessLayout : BareNa2(t, l, ly)
<1>1. CASE UNCHANGED vars
  BY Zenon, <1>1, IdleStep
<1>2. ASSUME NEW t \in Thread, NEW l \in target, NEW ly \in AccessLayout,
             \/ DerefNa1(t, l, ly)
             \/ Free(t, l, ly)
             \/ \E v \in [cells(l, ly) -> mbyte] :
                  AssignNa1(t, l, ly, v) \/ AssignSc(t, l, ly, v) \/ Alloc(t, l, ly, v)
             \/ \E l2 \in target :
                  \/ CasFail(t, l, l2, ly)
                  \/ \E v \in [cells(l, ly) -> mbyte] : CasSuc(t, l, l2, ly, v)
      PROVE  IInv' /\ (LInv => LInv')
  BY Zenon, <1>2, DerefNa1Step, AssignNa1Step, AssignScStep, CasFailStep, CasSucStep, BlockActionStep
<1>3. ASSUME NEW t \in Thread, NEW l \in target, NEW ly \in AccessLayout, BareNa2(t, l, ly)
      PROVE  IInv'
  BY Zenon, <1>3, BareNa2Step DEF BareNa2
<1>4. ASSUME NEW t \in Thread, DerefNa2(t) \/ AssignNa2(t) \/ Return(t) \/ Fails(t)
      PROVE  IInv' /\ (LInv => LInv')
  BY Zenon, <1>4, DerefNa2Step, AssignNa2Step, ReturnStep, IdleStep
<1>5. ASSUME NEW t \in Thread, NEW f \in Fn, NEW ls \in [Vars(f) -> target],
             NEW v \in [block_cells(frame_at(f, ls)) -> mbyte], Call(t, f, frame_at(f, ls), v)
      PROVE  IInv' /\ (LInv => LInv')
  BY Zenon, <1>5, CallStep
<1> QED
  BY <1>1, <1>2, <1>3, <1>4, <1>5 DEF Next, BareNa2, Fails

\* The initial state, in which the globals are allocated, satisfies both invariants.
LEMMA InitInvariant ==
  ASSUME Init
  PROVE  IInv /\ LInv
<1> DEFINE G(ls) == [x \in DOMAIN GlobalVars |-> [l |-> ls[x], ly |-> GlobalVars[x]]]
<1>1. PICK ls \in [DOMAIN GlobalVars -> target] :
        /\ can_alloc(<<>>, <<>>, G(ls))
        /\ \E v \in [block_cells(G(ls)) -> mbyte] : hs_heap = alloc_heap(<<>>, G(ls), v)
        /\ hs_allocs = alloc_allocs(<<>>, G(ls), "GlobalAlloc")
  BY Zenon DEF Init
<1>2. PICK v \in [block_cells(G(ls)) -> mbyte] : hs_heap = alloc_heap(<<>>, G(ls), v)
  BY Zenon, <1>1
<1>3. Blocks(G(ls))
  BY Zenon, CaesiumAssumption DEF Blocks
<1>4. Heap(<<>>) /\ Allocs(<<>>) /\ heap_state_invariant(<<>>, <<>>)
  BY DEF Heap, Allocs, heap_state_invariant, heap_state_heap_cell_in_range_alloc,
     heap_state_heap_cell_alloc_alive, heap_state_alloc_in_range, heap_state_alloc_disjoint,
     heap_state_alloc_alive_in_heap
<1>5. "GlobalAlloc" \in alloc_kind
  BY Zenon DEF alloc_kind
<1> HIDE DEF G
<1>6. AllocatedHeap(<<>>, G(ls), hs_heap)
  BY Zenon, <1>1, <1>2, <1>3, <1>4, AllocHeap
<1>7. AllocatedAllocs(<<>>, G(ls), "GlobalAlloc", hs_allocs)
  BY <1>1, <1>3, <1>4, <1>5, AllocAllocs, Zenon
<1>8. heap_state_invariant(hs_heap, hs_allocs)
  BY Zenon, <1>1, <1>3, <1>4, <1>6, <1>7, AllocInvariant
<1>9. /\ \A t \in Thread : redex[t] = "call_main" /\ acc[t] = NoAccess /\ stack[t] = <<>>
      /\ redex \in [Thread -> {"call_main"}]
      /\ acc \in [Thread -> {NoAccess}]
      /\ stack \in [Thread -> {<<>>}]
  BY Zenon DEF Init
<1>10. TypeOK
  <2>1. Heap(hs_heap) /\ Allocs(hs_allocs)
    BY Zenon, <1>6, <1>7 DEF AllocatedHeap, AllocatedAllocs
  <2>2. <<>> \in Seq(frame) /\ Len(<<>>) <= MaxDepth
    BY EmptySequence, CaesiumAssumption
  <2>3. \A t \in Thread : Len(stack[t]) <= MaxDepth /\ stack[t] \in Seq(frame)
    BY Zenon, <1>9, <2>2
  <2>4. redex \in [Thread -> Redex]
    BY Zenon, <1>9 DEF Redex
  <2> QED BY Zenon, <2>1, <2>3, <2>4, <1>9 DEF TypeOK, Heap, Allocs
<1>11. \A a \in DOMAIN hs_heap : hs_heap[a].hc_lock_state = 0 /\ Readers(a) = {} /\ Writers(a) = {}
  BY <1>6, <1>9 DEF AllocatedHeap, Readers, Writers
<1>12. LockStatesExact
  BY Zenon, <1>11, Count DEF LockStatesExact
<1> QED
  BY Zenon, <1>8, <1>9, <1>10, <1>12 DEF IInv, LInv, HeapStateInvariant, AccessCompletes, ReadStable

\* IInv is an invariant.
LEMMA Invariance == Spec => []IInv
<1>1. Init => IInv
  BY Zenon, InitInvariant
<1>2. IInv /\ [Next]_vars => IInv'
  BY Zenon, StepPreserves
<1> QED
  BY <1>1, <1>2, PTL DEF Spec

\* TypeOK holds of every run of every program, whatever the threads, the functions,
\* the layouts, the orders and the size of the address space are.
THEOREM TypeCorrect == Spec => []TypeOK
<1>1. IInv => TypeOK
  BY Zenon DEF IInv
<1> QED BY <1>1, Invariance, PTL

\* heap_state_invariant (heap.v) holds in every reachable state: no step of a program,
\* in any interleaving, breaks it. heap.v and lang.v (preserves_invariant) state this
\* for the steps one by one.
THEOREM HeapStateCorrect == Spec => []HeapStateInvariant
<1>1. IInv => HeapStateInvariant
  BY Zenon DEF IInv
<1> QED BY <1>1, Invariance, PTL

\* LInv is an invariant of programs without Na2Ord.
LEMMA LockInvariance ==
  ASSUME NoBareNa2
  PROVE  Spec => []LInv
<1>1. Init => LInv
  BY Zenon, InitInvariant
<1>2. IInv /\ LInv /\ [Next]_vars => LInv'
  <2>1. \A t, l, ly : ~BareNa2(t, l, ly)
    BY Zenon DEF BareNa2, NoBareNa2, DerefNa2Bare, AssignNa2Bare
  <2> QED BY Zenon, <2>1, StepPreserves
<1> QED
  BY <1>1, <1>2, Invariance, PTL DEF Spec

\* In programs without Na2Ord, which are those the frontend emits, the lock state of
\* every cell counts exactly the threads that are between the two steps of a
\* non-atomic access to it (DerefS and AssignS, lang.v).
THEOREM LockStatesCorrect == NoBareNa2 => (Spec => []LockStatesExact)
<1> SUFFICES ASSUME NoBareNa2 PROVE Spec => []LockStatesExact
  BY Zenon
<1>1. LInv => LockStatesExact
  BY Zenon DEF LInv
<1> QED BY <1>1, LockInvariance, PTL

\* In the same programs the second step of every non-atomic access finds the cells as
\* its first step left them: still allocated, still locked for it and, for a read,
\* with the same bytes.
THEOREM AccessesCorrect == NoBareNa2 => (Spec => [](AccessCompletes /\ ReadStable))
<1> SUFFICES ASSUME NoBareNa2 PROVE Spec => [](AccessCompletes /\ ReadStable)
  BY Zenon
<1>1. LInv => AccessCompletes /\ ReadStable
  BY Zenon DEF LInv
<1> QED BY <1>1, LockInvariance, PTL

=============================================================================
