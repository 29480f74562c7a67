------------------------ MODULE CaesiumStackProofs --------------------------
(***************************************************************************)
(* Caesium, continued: allocations only die, globals do not, pointers tell *)
(* live objects apart, and the live stack allocations are the variables of *)
(* the frames.  All of it holds of programs with any memory orders.        *)
(***************************************************************************)
EXTENDS CaesiumProofs

-----------------------------------------------------------------------------
(* The steps that change the table of allocations *)

AllocatesStep(bs, kind) ==
  /\ Blocks(bs)
  /\ \A x, y \in DOMAIN bs : x # y => bs[x].l.prov # bs[y].l.prov
  /\ AllocatedAllocs(hs_allocs, bs, kind, hs_allocs')

FreesStep(bs, kind) ==
  /\ FreedAllocs(hs_allocs, bs, hs_allocs')
  /\ \A x \in DOMAIN bs : hs_allocs[bs[x].l.prov] = live_allocation(bs[x], kind)

\* AllocS and FreeS change the table by one block of the heap and not the stacks.
LEMMA HeapBlockTable ==
  ASSUME TypeOK, NEW t \in Thread, NEW l \in target, NEW ly \in AccessLayout
  PROVE  /\ Free(t, l, ly) => FreesStep(one_block(l, ly), "HeapAlloc") /\ stack' = stack
         /\ \A v : Alloc(t, l, ly, v) =>
              AllocatesStep(one_block(l, ly), "HeapAlloc") /\ stack' = stack
<1>1. ASSUME Free(t, l, ly)
      PROVE  FreesStep(one_block(l, ly), "HeapAlloc") /\ stack' = stack
  BY Zenon, <1>1, TypeFacts, FreeAllocs DEF Free, FreesStep, can_free
<1>2. ASSUME NEW v, Alloc(t, l, ly, v)
      PROVE  AllocatesStep(one_block(l, ly), "HeapAlloc") /\ stack' = stack
  <2>1. /\ can_alloc(hs_heap, hs_allocs, one_block(l, ly))
        /\ hs_allocs' = alloc_allocs(hs_allocs, one_block(l, ly), "HeapAlloc")
        /\ stack' = stack
    BY Zenon, <1>2 DEF Alloc
  <2>2. "HeapAlloc" \in alloc_kind
    BY Zenon DEF alloc_kind
  <2>3. Allocs(hs_allocs) /\ Blocks(one_block(l, ly))
    BY Zenon, TypeFacts, OneBlockType
  <2>4. AllocatedAllocs(hs_allocs, one_block(l, ly), "HeapAlloc", hs_allocs')
    BY <2>1, <2>2, <2>3, AllocAllocs, Zenon
  <2> QED BY Zenon, <2>1, <2>3, <2>4 DEF AllocatesStep, can_alloc
<1> QED BY Zenon, <1>1, <1>2

\* A call changes the table by the blocks of the new frame.
LEMMA CallTable ==
  ASSUME TypeOK, NEW t \in Thread, NEW f \in Fn, NEW ls \in [Vars(f) -> target], NEW v,
         Call(t, f, frame_at(f, ls), v)
  PROVE  AllocatesStep(frame_at(f, ls), "StackAlloc")
<1>1. /\ can_alloc(hs_heap, hs_allocs, frame_at(f, ls))
      /\ hs_allocs' = alloc_allocs(hs_allocs, frame_at(f, ls), "StackAlloc")
  BY Zenon DEF Call
<1>2. "StackAlloc" \in alloc_kind
  BY Zenon DEF alloc_kind
<1>3. Allocs(hs_allocs) /\ Blocks(frame_at(f, ls))
  BY Zenon, TypeFacts, FrameType
<1>4. AllocatedAllocs(hs_allocs, frame_at(f, ls), "StackAlloc", hs_allocs')
  BY <1>1, <1>2, <1>3, AllocAllocs, Zenon
<1> QED BY Zenon, <1>1, <1>3, <1>4 DEF AllocatesStep, can_alloc

\* A return kills the blocks of the frame on top of the stack.
LEMMA ReturnTable ==
  ASSUME TypeOK, NEW t \in Thread, Return(t)
  PROVE  FreesStep(stack[t][Len(stack[t])], "StackAlloc")
<1> DEFINE bs == stack[t][Len(stack[t])]
<1>1. /\ can_free(hs_heap, hs_allocs, bs, "StackAlloc")
      /\ hs_allocs' = free_allocs(hs_allocs, bs)
  BY Zenon DEF Return
<1> HIDE DEF bs
<1>2. FreesStep(bs, "StackAlloc")
  BY Zenon, <1>1, TypeFacts, FreeAllocs DEF FreesStep, can_free
<1> QED BY Zenon, <1>2 DEF bs

\* Every step allocates blocks, frees blocks other than globals, or leaves the table
\* alone.
LEMMA TableStep ==
  ASSUME TypeOK, [Next]_vars
  PROVE  \/ \E bs, kind : AllocatesStep(bs, kind)
         \/ \E bs, kind : FreesStep(bs, kind) /\ kind # "GlobalAlloc"
         \/ hs_allocs' = hs_allocs
<1>1. CASE UNCHANGED vars
  BY Zenon, <1>1 DEF vars
<1>2. ASSUME NEW t \in Thread, NEW l \in target, NEW ly \in AccessLayout,
             Free(t, l, ly) \/ \E v \in [cells(l, ly) -> mbyte] : Alloc(t, l, ly, v)
      PROVE  \/ \E bs, kind : AllocatesStep(bs, kind)
             \/ \E bs, kind : FreesStep(bs, kind) /\ kind # "GlobalAlloc"
  BY <1>2, HeapBlockTable
<1>3. ASSUME NEW t \in Thread, NEW l \in target, NEW ly \in AccessLayout,
             \/ DerefNa1(t, l, ly) \/ BareNa2(t, l, ly)
             \/ \E v \in [cells(l, ly) -> mbyte] : AssignNa1(t, l, ly, v) \/ AssignSc(t, l, ly, v)
             \/ \E l2 \in target :
                  \/ CasFail(t, l, l2, ly)
                  \/ \E v \in [cells(l, ly) -> mbyte] : CasSuc(t, l, l2, ly, v)
      PROVE  hs_allocs' = hs_allocs
  BY Zenon, <1>3 DEF DerefNa1, BareNa2, DerefNa2Bare, AssignNa1, AssignNa2Bare, AssignSc, CasFail, CasSuc
<1>4. ASSUME NEW t \in Thread, DerefNa2(t) \/ AssignNa2(t) \/ Fails(t)
      PROVE  hs_allocs' = hs_allocs
  BY Zenon, <1>4 DEF DerefNa2, AssignNa2, Fails, AllocFail, CallFail
<1>5. ASSUME NEW t \in Thread, Return(t)
      PROVE  \E bs, kind : FreesStep(bs, kind) /\ kind # "GlobalAlloc"
  BY <1>5, ReturnTable
<1>6. ASSUME NEW t \in Thread, NEW f \in Fn, NEW ls \in [Vars(f) -> target],
             NEW v \in [block_cells(frame_at(f, ls)) -> mbyte], Call(t, f, frame_at(f, ls), v)
      PROVE  \E bs, kind : AllocatesStep(bs, kind)
  BY Zenon, <1>6, CallTable
<1> QED
  BY <1>1, <1>2, <1>3, <1>4, <1>5, <1>6 DEF Next, BareNa2, Fails

\* An allocation identifier stands for one allocation for ever: once in the
\* table it stays there with the same range and kind, and dies at most once.
THEOREM AllocsCorrect == Spec => AllocsOnlyDie
<1>1. TypeOK /\ [Next]_vars =>
        [/\ DOMAIN hs_allocs \subseteq DOMAIN hs_allocs'
         /\ \A aid \in DOMAIN hs_allocs :
              hs_allocs'[aid] = hs_allocs[aid] \/ hs_allocs'[aid] = killed(hs_allocs[aid])]_vars
  <2> DEFINE D == /\ DOMAIN hs_allocs \subseteq DOMAIN hs_allocs'
                  /\ \A aid \in DOMAIN hs_allocs :
                       \/ hs_allocs'[aid] = hs_allocs[aid]
                       \/ hs_allocs'[aid] = killed(hs_allocs[aid])
  <2> SUFFICES ASSUME TypeOK, [Next]_vars PROVE D
    BY Zenon
  <2>1. ASSUME NEW bs, NEW kind, AllocatesStep(bs, kind) PROVE D
    BY Zenon, <2>1 DEF AllocatesStep, AllocatedAllocs
  <2>2. ASSUME NEW bs, NEW kind, FreesStep(bs, kind) PROVE D
    BY Zenon, <2>2 DEF FreesStep, FreedAllocs
  <2>3. CASE hs_allocs' = hs_allocs
    BY Zenon, <2>3
  <2> HIDE DEF D
  <2> QED BY Zenon, <2>1, <2>2, <2>3, TableStep
<1> QED
  BY <1>1, TypeCorrect, PTL DEF Spec, AllocsOnlyDie

\* The first half of GlobalsOutlive.
GlobalsAlive ==
  \A aid \in DOMAIN hs_allocs :
    hs_allocs[aid].al_kind = "GlobalAlloc" => hs_allocs[aid].al_alive

\* New allocations are alive, and no step frees a global.
LEMMA GlobalsStep ==
  ASSUME TypeOK, GlobalsAlive, [Next]_vars
  PROVE  GlobalsAlive'
<1>1. ASSUME NEW bs, NEW kind, AllocatesStep(bs, kind) PROVE GlobalsAlive'
  <2>1. \A b : live_allocation(b, kind).al_alive
    BY Zenon DEF live_allocation
  <2> QED BY <1>1, <2>1, BlockCells DEF GlobalsAlive, AllocatesStep, AllocatedAllocs
<1>2. ASSUME NEW bs, NEW kind, FreesStep(bs, kind), kind # "GlobalAlloc" PROVE GlobalsAlive'
  <2>1. \A b : live_allocation(b, kind).al_kind = kind
    BY Zenon DEF live_allocation
  <2>2. \A aid \in block_ids(bs) : hs_allocs[aid].al_kind # "GlobalAlloc"
    BY <1>2, <2>1, BlockCells DEF FreesStep
  <2>3. \A aid \in DOMAIN hs_allocs : killed(hs_allocs[aid]).al_kind = hs_allocs[aid].al_kind
    BY Zenon, Killed, TypeFacts DEF Allocs
  <2> QED BY Zenon, <1>2, <2>2, <2>3 DEF GlobalsAlive, FreesStep, FreedAllocs
<1>3. CASE hs_allocs' = hs_allocs
  BY Zenon, <1>3 DEF GlobalsAlive
<1> QED BY Zenon, <1>1, <1>2, <1>3, TableStep

\* No FreeS and no return of any program reaches a global variable: all of its cells
\* stay its own for ever.
THEOREM GlobalsCorrect == Spec => []GlobalsOutlive
<1>1. Init => GlobalsAlive
  <2> SUFFICES ASSUME Init PROVE GlobalsAlive
    BY Zenon
  <2>1. PICK bs : hs_allocs = alloc_allocs(<<>>, bs, "GlobalAlloc")
    BY Zenon DEF Init
  <2>2. \A b : live_allocation(b, "GlobalAlloc").al_alive
    BY Zenon DEF live_allocation
  <2> QED BY <2>1, <2>2 DEF GlobalsAlive, alloc_allocs
<1>2. TypeOK /\ GlobalsAlive /\ [Next]_vars => GlobalsAlive'
  BY Zenon, GlobalsStep
<1>3. TypeOK /\ HeapStateInvariant /\ GlobalsAlive => GlobalsOutlive
  <2> SUFFICES ASSUME TypeOK, HeapStateInvariant, GlobalsAlive,
                      NEW aid \in DOMAIN hs_allocs, hs_allocs[aid].al_kind = "GlobalAlloc"
               PROVE  /\ hs_allocs[aid].al_alive
                      /\ \A a \in addr : in_allocation(a, hs_allocs[aid]) =>
                           a \in DOMAIN hs_heap /\ hs_heap[a].hc_alloc_id = aid
    BY Zenon DEF GlobalsOutlive
  <2>1. alloc_id_alive(hs_allocs, aid)
    BY Zenon DEF GlobalsAlive, alloc_id_alive
  <2>2. ASSUME NEW a \in addr, in_allocation(a, hs_allocs[aid])
        PROVE  a \in DOMAIN hs_heap /\ hs_heap[a].hc_alloc_id = aid
    <3>1. a \in DOMAIN hs_heap
      BY Zenon, <2>1, <2>2 DEF HeapStateInvariant, heap_state_invariant, heap_state_alloc_alive_in_heap
    <3>2. /\ hs_heap[a].hc_alloc_id \in DOMAIN hs_allocs
          /\ in_allocation(a, hs_allocs[hs_heap[a].hc_alloc_id])
          /\ alloc_id_alive(hs_allocs, hs_heap[a].hc_alloc_id)
      BY Zenon, <3>1 DEF HeapStateInvariant, heap_state_invariant, heap_state_heap_cell_in_range_alloc,
         heap_state_heap_cell_alloc_alive
    <3> QED
      BY <2>1, <2>2, <3>1, <3>2 DEF HeapStateInvariant, heap_state_invariant, heap_state_alloc_disjoint
  <2> QED BY Zenon, <2>1, <2>2 DEF alloc_id_alive
<1> QED
  BY <1>1, <1>2, <1>3, TypeCorrect, HeapStateCorrect, PTL DEF Spec

\* Pointers to cells of live allocations compare equal exactly when they are
\* the same pointer, and no pointer compares equal to NULL.
THEOREM PointersCorrect == Spec => []PointersTellApart
<1>1. TypeOK /\ HeapStateInvariant => PointersTellApart
  <2> SUFFICES ASSUME TypeOK, HeapStateInvariant PROVE PointersTellApart
    BY Zenon
  <2>1. ASSUME NEW l \in loc, l # NULL_loc
        PROVE  TRUE \notin heap_loc_eq(hs_allocs, l, NULL_loc)
    <3>1. NULL_loc.prov = "ProvNull" /\ ~valid_ptr(hs_allocs, NULL_loc)
      BY Zenon, HeapAssumption DEF NULL_loc, valid_ptr, block_alive
    <3> QED BY Zenon, <2>1, <3>1 DEF heap_loc_eq
  <2>2. ASSUME NEW l1 \in target, NEW l2 \in target,
               block_alive(hs_allocs, l1), in_allocation(l1.addr, hs_allocs[l1.prov]),
               block_alive(hs_allocs, l2), in_allocation(l2.addr, hs_allocs[l2.prov])
        PROVE  heap_loc_eq(hs_allocs, l1, l2) = {l1 = l2}
    <3>1. /\ l1.prov \in AllocId /\ l2.prov \in AllocId /\ l1.addr \in addr /\ l2.addr \in addr
          /\ l1.prov \notin {"ProvNull", "ProvFnPtr"} /\ l2.prov \notin {"ProvNull", "ProvFnPtr"}
          /\ l1 # NULL_loc /\ l2 # NULL_loc
      BY HeapAssumption DEF target, NULL_loc
    <3>2. /\ l1.prov \in DOMAIN hs_allocs /\ hs_allocs[l1.prov].al_alive
          /\ l2.prov \in DOMAIN hs_allocs /\ hs_allocs[l2.prov].al_alive
      BY Zenon, <2>2 DEF block_alive, alloc_id_alive
    <3>3. hs_allocs[l1.prov] \in allocation /\ hs_allocs[l2.prov] \in allocation
      BY Zenon, <3>2 DEF TypeOK
    <3>4. valid_ptr(hs_allocs, l1) /\ valid_ptr(hs_allocs, l2)
      BY <2>2, <3>1, <3>2, <3>3, HeapAssumption
         DEF valid_ptr, heap_state_loc_in_bounds, in_allocation, al_end, HeapStateInvariant,
             heap_state_invariant, heap_state_alloc_in_range, allocation, addr
    <3>5. l1.addr = l2.addr => l1.prov = l2.prov
      BY Zenon, <2>2, <3>1, <3>2
         DEF HeapStateInvariant, heap_state_invariant, heap_state_alloc_disjoint, alloc_id_alive
    <3>6. (l1.addr = l2.addr) = (l1 = l2)
      BY <3>5 DEF target
    <3> QED BY Zenon, <3>1, <3>4, <3>6 DEF heap_loc_eq
  <2> QED BY <2>1, <2>2 DEF PointersTellApart
<1> QED
  BY <1>1, TypeCorrect, HeapStateCorrect, PTL

-----------------------------------------------------------------------------
(* The frames.  FramesAreTheStack, with the variables of the frames as     *)
(* triples t, i, x.                                                        *)

IsSlot(s, t, i, x) == t \in Thread /\ i \in 1 .. Len(s[t]) /\ x \in DOMAIN s[t][i]
id(s, t, i, x) == s[t][i][x].l.prov

SlotsAlive ==
  \A t, i, x : IsSlot(stack, t, i, x) =>
    /\ id(stack, t, i, x) \in DOMAIN hs_allocs
    /\ hs_allocs[id(stack, t, i, x)] = live_allocation(stack[t][i][x], "StackAlloc")

SlotsDistinct ==
  \A t, i, x, u, j, y :
    IsSlot(stack, t, i, x) /\ IsSlot(stack, u, j, y) /\ id(stack, t, i, x) = id(stack, u, j, y) => t = u /\ i = j /\ x = y

SlotsComplete ==
  \A aid \in DOMAIN hs_allocs :
    hs_allocs[aid].al_alive /\ hs_allocs[aid].al_kind = "StackAlloc"
      => \E t, i, x : IsSlot(stack, t, i, x) /\ id(stack, t, i, x) = aid

SInv == SlotsAlive /\ SlotsDistinct /\ SlotsComplete

\* A frame has a block for each variable of its function.
LEMMA FrameVars ==
  \A bs \in frame : DOMAIN bs \subseteq UNION {Vars(f) : f \in Fn}
<1> SUFFICES ASSUME NEW bs \in frame PROVE DOMAIN bs \subseteq UNION {Vars(f) : f \in Fn}
  BY Zenon
<1> DEFINE F(f) == {frame_at(f, ls) : ls \in [Vars(f) -> target]}
<1>1. frame = UNION {F(f) : f \in Fn}
  BY Zenon DEF frame
<1>2. \A f \in Fn : \A b \in F(f) : DOMAIN b = Vars(f)
  BY Zenon DEF frame_at
<1> HIDE DEF F
<1>3. PICK f \in Fn : bs \in F(f)
  BY Zenon, <1>1
<1> QED BY Zenon, <1>2, <1>3

\* Slots and slot, of the property, in terms of IsSlot and id.
LEMMA SlotsAreSlots ==
  ASSUME TypeOK
  PROVE  /\ \A s \in Slots : /\ IsSlot(stack, s.t, s.i, s.x) /\ slot(s) = stack[s.t][s.i][s.x]
                             /\ s = [t |-> s.t, i |-> s.i, x |-> s.x]
         /\ \A t, i, x : IsSlot(stack, t, i, x) => [t |-> t, i |-> i, x |-> x] \in Slots
<1> DEFINE X == UNION {Vars(f) : f \in Fn}
<1>1. ASSUME NEW s \in Slots
      PROVE  /\ IsSlot(stack, s.t, s.i, s.x) /\ slot(s) = stack[s.t][s.i][s.x]
             /\ s = [t |-> s.t, i |-> s.i, x |-> s.x]
  <2> HIDE DEF X
  <2>1. s \in [t : Thread, i : 1 .. MaxDepth, x : X] /\ s.i <= Len(stack[s.t]) /\ s.x \in DOMAIN stack[s.t][s.i]
    BY Zenon DEF Slots, X
  <2>2. Len(stack[s.t]) \in Nat
    BY <2>1 DEF TypeOK
  <2> QED BY <2>1, <2>2, CaesiumAssumption DEF IsSlot, slot
<1>2. ASSUME NEW t, NEW i, NEW x, IsSlot(stack, t, i, x)
      PROVE  [t |-> t, i |-> i, x |-> x] \in Slots
  <2>1. stack[t] \in Seq(frame) /\ Len(stack[t]) \in Nat /\ Len(stack[t]) <= MaxDepth
    BY <1>2 DEF IsSlot, TypeOK
  <2>2. i \in 1 .. MaxDepth /\ i <= Len(stack[t]) /\ stack[t][i] \in frame
    BY <1>2, <2>1, CaesiumAssumption DEF IsSlot
  <2>3. x \in X
    BY Zenon, <1>2, <2>2, FrameVars DEF IsSlot
  <2> HIDE DEF X
  <2> QED BY Zenon, <1>2, <2>2, <2>3 DEF Slots, IsSlot, X
<1> QED BY Zenon, <1>1, <1>2

\* The three invariants together are FramesAreTheStack.
LEMMA SlotInvariants ==
  ASSUME TypeOK, SInv
  PROVE  FramesAreTheStack
<1>1. \A s \in Slots :
        /\ slot(s).l.prov \in DOMAIN hs_allocs
        /\ hs_allocs[slot(s).l.prov] = live_allocation(slot(s), "StackAlloc")
  BY SlotsAreSlots DEF SInv, SlotsAlive, id
<1>2. \A s1, s2 \in Slots : slot(s1).l.prov = slot(s2).l.prov => s1 = s2
  <2> SUFFICES ASSUME NEW s1 \in Slots, NEW s2 \in Slots, slot(s1).l.prov = slot(s2).l.prov
               PROVE  s1 = s2
    BY Zenon
  <2>1. /\ IsSlot(stack, s1.t, s1.i, s1.x) /\ IsSlot(stack, s2.t, s2.i, s2.x)
        /\ id(stack, s1.t, s1.i, s1.x) = id(stack, s2.t, s2.i, s2.x)
    BY Zenon, SlotsAreSlots DEF id
  <2>2. s1.t = s2.t /\ s1.i = s2.i /\ s1.x = s2.x
    BY Zenon, <2>1 DEF SInv, SlotsDistinct
  <2> QED BY Zenon, <2>2, SlotsAreSlots
<1>3. ASSUME NEW aid \in DOMAIN hs_allocs, hs_allocs[aid].al_alive,
             hs_allocs[aid].al_kind = "StackAlloc"
      PROVE  \E s \in Slots : slot(s).l.prov = aid
  <2>1. PICK t, i, x : IsSlot(stack, t, i, x) /\ id(stack, t, i, x) = aid
    BY Zenon, <1>3 DEF SInv, SlotsComplete
  <2>2. [t |-> t, i |-> i, x |-> x] \in Slots
    BY Zenon, <2>1, SlotsAreSlots
  <2> QED BY Zenon, <2>1, <2>2 DEF slot, id
<1> QED
  BY Zenon, <1>1, <1>2, <1>3 DEF FramesAreTheStack

\* A step that leaves the stacks alone and neither allocates nor frees for them.
LEMMA SameStack ==
  ASSUME TypeOK, SInv, stack' = stack,
         \/ hs_allocs' = hs_allocs
         \/ \E bs, kind : kind # "StackAlloc" /\ AllocatesStep(bs, kind)
         \/ \E bs, kind : kind # "StackAlloc" /\ FreesStep(bs, kind)
  PROVE  SInv'
<1>1. \A t, i, x : IsSlot(stack', t, i, x) = IsSlot(stack, t, i, x) /\ id(stack', t, i, x) = id(stack, t, i, x)
  BY Zenon DEF IsSlot, id
<1>2. SlotsDistinct'
  BY <1>1 DEF SInv, SlotsDistinct
<1>3. CASE hs_allocs' = hs_allocs
  BY <1>1, <1>2, <1>3 DEF SInv, SlotsAlive, SlotsComplete
<1>4. ASSUME NEW bs, NEW kind, kind # "StackAlloc", AllocatesStep(bs, kind) PROVE SInv'
  <2>1. SlotsAlive'
    BY <1>1, <1>4 DEF SInv, SlotsAlive, AllocatesStep, AllocatedAllocs
  <2>2. \A aid \in DOMAIN hs_allocs' \ DOMAIN hs_allocs : hs_allocs'[aid].al_kind # "StackAlloc"
    <3>1. \A x \in DOMAIN bs : live_allocation(bs[x], kind).al_kind = kind
      BY Zenon DEF live_allocation
    <3> QED BY <1>4, <3>1, BlockCells DEF AllocatesStep, AllocatedAllocs
  <2>3. SlotsComplete'
    BY <1>1, <1>4, <2>2 DEF SInv, SlotsComplete, AllocatesStep, AllocatedAllocs
  <2> QED BY Zenon, <1>2, <2>1, <2>3 DEF SInv
<1>5. ASSUME NEW bs, NEW kind, kind # "StackAlloc", FreesStep(bs, kind) PROVE SInv'
  <2>1. \A aid \in block_ids(bs) : hs_allocs[aid].al_kind = kind
    <3>1. \A x \in DOMAIN bs : live_allocation(bs[x], kind).al_kind = kind
      BY Zenon DEF live_allocation
    <3> QED BY <1>5, <3>1, BlockCells DEF FreesStep
  <2>2. \A t, i, x : IsSlot(stack, t, i, x) => id(stack, t, i, x) \notin block_ids(bs)
    <3>1. \A t, i, x : live_allocation(stack[t][i][x], "StackAlloc").al_kind = "StackAlloc"
      BY Zenon DEF live_allocation
    <3> QED BY <1>5, <2>1, <3>1 DEF SInv, SlotsAlive
  <2>3. SlotsAlive'
    BY <1>1, <1>5, <2>2 DEF SInv, SlotsAlive, FreesStep, FreedAllocs
  <2>4. \A aid \in DOMAIN hs_allocs : hs_allocs'[aid].al_alive => hs_allocs'[aid] = hs_allocs[aid]
    BY <1>5, Killed, TypeFacts DEF Allocs, FreesStep, FreedAllocs
  <2>5. SlotsComplete'
    BY <1>1, <1>5, <2>4 DEF SInv, SlotsComplete, FreesStep, FreedAllocs
  <2> QED BY Zenon, <1>2, <2>3, <2>5 DEF SInv
<1> QED BY Zenon, <1>3, <1>4, <1>5

\* How a call and a return change the stack of thread t.
Pushes(t, bs) == stack' = [stack EXCEPT ![t] = Append(stack[t], bs)]
Pops(t, n) == stack' = [stack EXCEPT ![t] = SubSeq(stack[t], 1, n)]

\* A call pushes a frame of new allocations.
LEMMA PushFrame ==
  ASSUME TypeOK, SInv, NEW t \in Thread, NEW bs \in frame,
         AllocatesStep(bs, "StackAlloc"), Pushes(t, bs)
  PROVE  SInv'
<1>0. stack \in [Thread -> Seq(frame)] /\ stack[t] \in Seq(frame)
  BY Zenon DEF TypeOK
<1>1. PICK m : m = Len(stack[t]) + 1
  BY Zenon
<1>2. /\ stack'[t][m] = bs
      /\ \A i : i \in 1 .. Len(stack'[t]) <=> i \in 1 .. Len(stack[t]) \/ i = m
      /\ \A i \in 1 .. Len(stack[t]) : stack'[t][i] = stack[t][i] /\ i # m
      /\ \A u \in Thread \ {t} : stack'[u] = stack[u]
  <2>1. Len(stack[t]) \in Nat
    BY <1>0
  <2>2. stack'[t] = Append(stack[t], bs) /\ \A u \in Thread \ {t} : stack'[u] = stack[u]
    BY Zenon, <1>0 DEF Pushes
  <2>3. /\ Len(stack'[t]) = Len(stack[t]) + 1
        /\ stack'[t][Len(stack[t]) + 1] = bs
        /\ \A i \in 1 .. Len(stack[t]) : stack'[t][i] = stack[t][i]
    BY <1>0, <2>2
  <2> QED BY <1>1, <2>1, <2>2, <2>3
<1>3. \A u, i, x : IsSlot(stack', u, i, x) <=>
        IsSlot(stack, u, i, x) \/ (u = t /\ i = m /\ x \in DOMAIN bs)
  BY Zenon, <1>2 DEF IsSlot
<1>4. \A u, i, x : IsSlot(stack, u, i, x) => /\ stack'[u][i][x] = stack[u][i][x]
                                             /\ id(stack', u, i, x) = id(stack, u, i, x)
                                             /\ ~(u = t /\ i = m)
  BY Zenon, <1>2 DEF IsSlot, id
<1>5. \A x \in DOMAIN bs : stack'[t][m][x] = bs[x] /\ id(stack', t, m, x) = bs[x].l.prov
  BY Zenon, <1>2 DEF id
<1>6. /\ \A aid \in DOMAIN hs_allocs : aid \in DOMAIN hs_allocs' /\ hs_allocs'[aid] = hs_allocs[aid]
      /\ \A x \in DOMAIN bs : /\ bs[x].l.prov \in DOMAIN hs_allocs'
                              /\ bs[x].l.prov \notin DOMAIN hs_allocs
                              /\ hs_allocs'[bs[x].l.prov] = live_allocation(bs[x], "StackAlloc")
      /\ \A x, y \in DOMAIN bs : x # y => bs[x].l.prov # bs[y].l.prov
      /\ \A aid \in DOMAIN hs_allocs' \ DOMAIN hs_allocs : \E x \in DOMAIN bs : aid = bs[x].l.prov
  BY Zenon, BlockCells DEF AllocatesStep, AllocatedAllocs
<1>7. SlotsAlive'
  <2> SUFFICES ASSUME NEW u, NEW i, NEW x, IsSlot(stack', u, i, x)
               PROVE  /\ id(stack', u, i, x) \in DOMAIN hs_allocs'
                      /\ hs_allocs'[id(stack', u, i, x)] = live_allocation(stack'[u][i][x], "StackAlloc")
    BY Zenon DEF SlotsAlive
  <2>1. CASE IsSlot(stack, u, i, x)
    <3>1. id(stack', u, i, x) = id(stack, u, i, x) /\ stack'[u][i][x] = stack[u][i][x]
      BY <2>1, <1>4 DEF id
    <3>2. /\ id(stack, u, i, x) \in DOMAIN hs_allocs
          /\ hs_allocs[id(stack, u, i, x)] = live_allocation(stack[u][i][x], "StackAlloc")
      BY <2>1 DEF SInv, SlotsAlive
    <3> QED BY <3>1, <3>2, <1>6, Zenon
  <2>2. CASE u = t /\ i = m /\ x \in DOMAIN bs
    <3>1. id(stack', u, i, x) = bs[x].l.prov /\ stack'[u][i][x] = bs[x]
      BY Zenon, <2>2, <1>5
    <3> QED BY <2>2, <3>1, <1>6, Zenon
  <2> QED BY <2>1, <2>2, <1>3
<1>8. SlotsDistinct'
  <2> SUFFICES ASSUME NEW u, NEW i, NEW x, NEW w, NEW j, NEW y, IsSlot(stack', u, i, x), IsSlot(stack', w, j, y),
                      id(stack', u, i, x) = id(stack', w, j, y)
               PROVE  u = w /\ i = j /\ x = y
    BY DEF SlotsDistinct
  <2>1. CASE IsSlot(stack, u, i, x) /\ IsSlot(stack, w, j, y)
    <3>1. id(stack, u, i, x) = id(stack, w, j, y)
      BY <2>1, <1>4 DEF id
    <3> QED BY Zenon, <2>1, <3>1 DEF SInv, SlotsDistinct
  <2>2. \A p, k, z : IsSlot(stack, p, k, z) => id(stack', p, k, z) \in DOMAIN hs_allocs
    BY <1>4 DEF SInv, SlotsAlive, id
  <2> QED BY <2>1, <2>2, <1>3, <1>5, <1>6
<1>9. SlotsComplete'
  <2> SUFFICES ASSUME NEW aid \in DOMAIN hs_allocs', hs_allocs'[aid].al_alive,
                      hs_allocs'[aid].al_kind = "StackAlloc"
               PROVE  \E u, i, x : IsSlot(stack', u, i, x) /\ id(stack', u, i, x) = aid
    BY Zenon DEF SlotsComplete
  <2>1. CASE aid \in DOMAIN hs_allocs
    <3>1. PICK u, i, x : IsSlot(stack, u, i, x) /\ id(stack, u, i, x) = aid
      BY Zenon, <2>1, <1>6 DEF SInv, SlotsComplete
    <3> QED BY <3>1, <1>3, <1>4 DEF id
  <2>2. CASE aid \notin DOMAIN hs_allocs
    <3>1. PICK x \in DOMAIN bs : aid = bs[x].l.prov
      BY Zenon, <2>2, <1>6
    <3> QED BY Zenon, <3>1, <1>3, <1>5
  <2> QED BY Zenon, <2>1, <2>2
<1> QED BY Zenon, <1>7, <1>8, <1>9 DEF SInv

\* A return pops a frame whose allocations die.
LEMMA PopFrame ==
  ASSUME TypeOK, SInv, NEW t \in Thread, NEW n \in Nat, NEW m, m = n + 1, m = Len(stack[t]),
         FreesStep(stack[t][m], "StackAlloc"), Pops(t, n)
  PROVE  SInv'
<1> DEFINE bs == stack[t][m]
<1>1. stack \in [Thread -> Seq(frame)] /\ stack[t] \in Seq(frame)
  BY Zenon DEF TypeOK
<1>2. /\ Len(SubSeq(stack[t], 1, n)) = n
      /\ \A i \in 1 .. n : SubSeq(stack[t], 1, n)[i] = stack[t][i]
  BY <1>1, Pop, Zenon
<1>3. /\ m \in 1 .. Len(stack[t])
      /\ \A i : i \in 1 .. Len(stack'[t]) <=> i \in 1 .. Len(stack[t]) /\ i # m
      /\ \A i \in 1 .. Len(stack'[t]) : stack'[t][i] = stack[t][i]
      /\ \A u \in Thread \ {t} : stack'[u] = stack[u]
  <2>1. stack'[t] = SubSeq(stack[t], 1, n) /\ \A u \in Thread \ {t} : stack'[u] = stack[u]
    BY <1>1, Zenon DEF Pops
  <2>2. Len(stack'[t]) = n /\ \A i \in 1 .. n : stack'[t][i] = stack[t][i]
    BY <1>2, <2>1, Zenon
  <2> QED BY <2>1, <2>2
<1>4. \A u, i, x : IsSlot(stack', u, i, x) <=> IsSlot(stack, u, i, x) /\ ~(u = t /\ i = m)
  BY Zenon, <1>3 DEF IsSlot
<1>5. \A u, i, x : IsSlot(stack', u, i, x) =>
        stack'[u][i][x] = stack[u][i][x] /\ id(stack', u, i, x) = id(stack, u, i, x)
  BY Zenon, <1>3 DEF IsSlot, id
<1>6. \A x \in DOMAIN bs : IsSlot(stack, t, m, x) /\ id(stack, t, m, x) = bs[x].l.prov
  BY Zenon, <1>3 DEF IsSlot, id
<1> HIDE DEF bs
<1>7. /\ DOMAIN hs_allocs' = DOMAIN hs_allocs
      /\ \A aid \in DOMAIN hs_allocs :
           hs_allocs'[aid] = IF aid \in block_ids(bs) THEN killed(hs_allocs[aid]) ELSE hs_allocs[aid]
  BY Zenon DEF FreesStep, FreedAllocs, bs
<1>8. \A aid \in block_ids(bs) : \E x \in DOMAIN bs : aid = bs[x].l.prov
  BY Zenon, BlockCells
<1>9. \A u, i, x : IsSlot(stack', u, i, x) => id(stack, u, i, x) \notin block_ids(bs)
  BY <1>4, <1>6, <1>8 DEF SInv, SlotsDistinct
<1>10. SlotsAlive'
  <2> SUFFICES ASSUME NEW u, NEW i, NEW x, IsSlot(stack', u, i, x)
               PROVE  /\ id(stack', u, i, x) \in DOMAIN hs_allocs'
                      /\ hs_allocs'[id(stack', u, i, x)] = live_allocation(stack'[u][i][x], "StackAlloc")
    BY Zenon DEF SlotsAlive
  <2>1. /\ id(stack, u, i, x) \in DOMAIN hs_allocs
        /\ hs_allocs[id(stack, u, i, x)] = live_allocation(stack[u][i][x], "StackAlloc")
    BY <1>4 DEF SInv, SlotsAlive
  <2>2. id(stack', u, i, x) = id(stack, u, i, x) /\ stack'[u][i][x] = stack[u][i][x]
    BY <1>5 DEF id
  <2>3. id(stack, u, i, x) \in DOMAIN hs_allocs' /\ hs_allocs'[id(stack, u, i, x)] = hs_allocs[id(stack, u, i, x)]
    BY <2>1, <1>7, <1>9
  <2> QED BY <2>1, <2>2, <2>3, Zenon
<1>11. SlotsDistinct'
  BY <1>4, <1>5 DEF SInv, SlotsDistinct, id
<1>12. SlotsComplete'
  <2> SUFFICES ASSUME NEW aid \in DOMAIN hs_allocs', hs_allocs'[aid].al_alive,
                      hs_allocs'[aid].al_kind = "StackAlloc"
               PROVE  \E u, i, x : IsSlot(stack', u, i, x) /\ id(stack', u, i, x) = aid
    BY Zenon DEF SlotsComplete
  <2>1. aid \notin block_ids(bs) /\ hs_allocs'[aid] = hs_allocs[aid]
    BY Zenon, <1>7, Killed, TypeFacts DEF Allocs
  <2>2. PICK u, i, x : IsSlot(stack, u, i, x) /\ id(stack, u, i, x) = aid
    BY Zenon, <2>1, <1>7 DEF SInv, SlotsComplete
  <2>3. ~(u = t /\ i = m)
    BY Zenon, <2>1, <2>2, BlockCells DEF IsSlot, id, bs
  <2> QED BY <2>2, <2>3, <1>4, <1>5 DEF id
<1> QED BY Zenon, <1>10, <1>11, <1>12 DEF SInv

\* Every step preserves the invariants about frames.
LEMMA SlotStep ==
  ASSUME TypeOK, SInv, [Next]_vars
  PROVE  SInv'
<1>1. ASSUME NEW t \in Thread, NEW l \in target, NEW ly \in AccessLayout,
             Free(t, l, ly) \/ \E v \in [cells(l, ly) -> mbyte] : Alloc(t, l, ly, v)
      PROVE  SInv'
  BY Zenon, <1>1, HeapBlockTable, SameStack
<1>2. ASSUME NEW t \in Thread, NEW l \in target, NEW ly \in AccessLayout,
             \/ DerefNa1(t, l, ly) \/ BareNa2(t, l, ly)
             \/ \E v \in [cells(l, ly) -> mbyte] : AssignNa1(t, l, ly, v) \/ AssignSc(t, l, ly, v)
             \/ \E l2 \in target :
                  \/ CasFail(t, l, l2, ly)
                  \/ \E v \in [cells(l, ly) -> mbyte] : CasSuc(t, l, l2, ly, v)
      PROVE  SInv'
  <2>1. hs_allocs' = hs_allocs /\ stack' = stack
    BY Zenon, <1>2 DEF DerefNa1, BareNa2, DerefNa2Bare, AssignNa1, AssignNa2Bare, AssignSc, CasFail, CasSuc
  <2> QED BY Zenon, <2>1, SameStack
<1>3. ASSUME NEW t \in Thread, DerefNa2(t) \/ AssignNa2(t) \/ Fails(t)
      PROVE  SInv'
  BY Zenon, <1>3, SameStack DEF DerefNa2, AssignNa2, Fails, AllocFail, CallFail
<1>4. ASSUME NEW t \in Thread, NEW f \in Fn, NEW ls \in [Vars(f) -> target],
             NEW v \in [block_cells(frame_at(f, ls)) -> mbyte], Call(t, f, frame_at(f, ls), v)
      PROVE  SInv'
  <2>1. Pushes(t, frame_at(f, ls))
    BY Zenon, <1>4 DEF Call, Pushes
  <2> QED BY <2>1, <1>4, CallTable, FrameType, PushFrame
<1>5. ASSUME NEW t \in Thread, Return(t) PROVE SInv'
  <2>1. stack[t] \in Seq(frame) /\ stack[t] # <<>>
    BY Zenon, <1>5 DEF Return, TypeOK
  <2>a. Len(stack[t]) \in Nat \ {0}
    BY Zenon, <2>1, EmptySequence
  <2>b. PICK m \in Nat \ {0} : m = Len(stack[t])
    BY Zenon, <2>a
  <2>2. PICK n \in Nat : n = m - 1 /\ m = n + 1
    OBVIOUS
  <2>3. Pops(t, n)
    BY Zenon, <1>5, <2>b, <2>2 DEF Return, Pops
  <2>4. FreesStep(stack[t][m], "StackAlloc")
    BY Zenon, <1>5, <2>b, ReturnTable
  <2> QED BY <2>b, <2>2, <2>3, <2>4, PopFrame, Zenon
<1>6. CASE UNCHANGED vars
  BY Zenon, <1>6, SameStack DEF vars
<1> QED
  BY <1>1, <1>2, <1>3, <1>4, <1>5, <1>6 DEF Next, BareNa2, Fails

\* All stacks are empty at first, and no allocation is of kind StackAlloc.
LEMMA SlotInit ==
  ASSUME Init
  PROVE  SInv
<1> DEFINE G(ls) == [x \in DOMAIN GlobalVars |-> [l |-> ls[x], ly |-> GlobalVars[x]]]
<1>1. PICK ls \in [DOMAIN GlobalVars -> target] :
        /\ can_alloc(<<>>, <<>>, G(ls))
        /\ hs_allocs = alloc_allocs(<<>>, G(ls), "GlobalAlloc")
  BY Zenon DEF Init
<1>2. Blocks(G(ls))
  BY Zenon, CaesiumAssumption DEF Blocks
<1>3. Allocs(<<>>) /\ "GlobalAlloc" \in alloc_kind
  BY DEF Allocs, alloc_kind
<1> HIDE DEF G
<1>4. AllocatedAllocs(<<>>, G(ls), "GlobalAlloc", hs_allocs)
  BY <1>1, <1>2, <1>3, AllocAllocs, Zenon
<1>5. \A b : live_allocation(b, "GlobalAlloc").al_kind # "StackAlloc"
  BY Zenon DEF live_allocation
<1>6. \A aid \in DOMAIN hs_allocs : hs_allocs[aid].al_kind # "StackAlloc"
  BY <1>4, <1>5, BlockCells DEF AllocatedAllocs
<1>7. \A t \in Thread : Len(stack[t]) = 0
  BY Zenon DEF Init
<1>8. \A t, i, x : ~IsSlot(stack, t, i, x)
  BY <1>7 DEF IsSlot
<1> QED
  BY Zenon, <1>6, <1>8 DEF SInv, SlotsAlive, SlotsDistinct, SlotsComplete

\* Stack discipline, for every program: the live stack allocations are exactly
\* the variables of the active calls of all threads, one allocation each.
THEOREM FramesCorrect == Spec => []FramesAreTheStack
<1>1. Init => SInv
  BY Zenon, SlotInit
<1>2. TypeOK /\ SInv /\ [Next]_vars => SInv'
  BY Zenon, SlotStep
<1>3. TypeOK /\ SInv => FramesAreTheStack
  BY Zenon, SlotInvariants
<1> QED
  BY <1>1, <1>2, <1>3, TypeCorrect, PTL DEF Spec

=============================================================================
