------------------------------ MODULE Caesium -------------------------------
(***************************************************************************)
(* The operational semantics of Caesium (theories/caesium/lang.v), as far  *)
(* as it changes the memory: a fixed set of threads, each of which runs    *)
(* arbitrary code from a call of its main function on.  Every rule of      *)
(* expr_step and stmt_step that changes the state is an action, whose      *)
(* guard is the premise of the rule; a thread at an operation whose guard  *)
(* is false is stuck, which is how Caesium makes it undefined behaviour.   *)
(* Control flow, operators and Sc reads leave the state alone.  A program  *)
(* may mention any location, so an action may use any; which memory orders *)
(* it may mention is the constant SourceOrder.                             *)
(***************************************************************************)
EXTENDS CaesiumHeap, Sequences

CONSTANTS
  Thread,          \* the threads, fixed from the start
  Fn,              \* the functions: layouts of the arguments and local variables
  GlobalVars,      \* the layouts of the global variables, by name
  AccessLayout,    \* the layouts of the accesses and of heap blocks
  bytes_per_addr,  \* the largest size of a compare-and-swap
  SourceOrder,     \* the memory orders that occur in the text of the program
  MaxDepth         \* bound on the depth of the call stacks

order == {"ScOrd", "Na1Ord", "Na2Ord"}

Vars(f) == DOMAIN f.f_args \cup DOMAIN f.f_local_vars
layout_of(f, x) == IF x \in DOMAIN f.f_args THEN f.f_args[x] ELSE f.f_local_vars[x]

ASSUME CaesiumAssumption ==
  /\ IsFiniteSet(Thread)
  /\ AccessLayout \subseteq layout
  /\ \A x \in DOMAIN GlobalVars : GlobalVars[x] \in layout
  /\ \A f \in Fn : DOMAIN f.f_args \cap DOMAIN f.f_local_vars = {}
  /\ \A f \in Fn : \A x \in Vars(f) : layout_of(f, x) \in layout
  /\ bytes_per_addr \in Nat
  /\ SourceOrder \subseteq order
  /\ MaxDepth \in Nat

VARIABLES
  hs_heap,     \* the cells
  hs_allocs,   \* the allocations
  redex,       \* what each thread is about to reduce
  acc,         \* the operands of a non-atomic access between its two steps
  stack        \* the blocks of each thread's stack frames (rf_locs), innermost last

vars == <<hs_heap, hs_allocs, redex, acc, stack>>

\* "call_main" is initial_prog, "eval" any expression or statement of a
\* function body as written, "Na2Deref" and "Na2Assign" the Na2Ord access that
\* DerefS and AssignS put in place of a Na1Ord one, "val" a finished thread.
Redex == {"call_main", "eval", "Na2Deref", "Na2Assign", "AllocFailed", "val"}

NoAccess == [l |-> NULL_loc, ly |-> [ly_size |-> 0, ly_align |-> 1], v |-> <<>>]

\* The blocks of the variables of f at the locations ls.
frame_at(f, ls) == [x \in Vars(f) |-> [l |-> ls[x], ly |-> layout_of(f, x)]]

frame == UNION {{frame_at(f, ls) : ls \in [Vars(f) -> target]} : f \in Fn}

\* The operands of an access of layout ly at l: for a read the value found at
\* its first step, for a write the value to be written.
access ==
  UNION {[l : {l}, ly : {ly}, v : [cells(l, ly) -> mbyte]] : l \in target, ly \in AccessLayout}

Goes(t, to) == redex' = [redex EXCEPT ![t] = to]

-----------------------------------------------------------------------------
(* DerefS: a non-atomic read (Na1Ord) counts as a reader from its first    *)
(* step to its second (Na2Ord).                                            *)

DerefNa1(t, l, ly) ==
  /\ redex[t] = "eval" /\ "Na1Ord" \in SourceOrder
  /\ heap_at(hs_heap, l, ly, RSt)
  /\ hs_heap' = heap_upd(hs_heap, value_at(hs_heap, l, ly),
                         [a \in cells(l, ly) |-> hs_heap[a].hc_lock_state + 1])
  /\ Goes(t, "Na2Deref")
  /\ acc' = [acc EXCEPT ![t] = [l |-> l, ly |-> ly, v |-> value_at(hs_heap, l, ly)]]
  /\ UNCHANGED <<hs_allocs, stack>>

DerefNa2(t) ==
  LET l == acc[t].l  ly == acc[t].ly IN
  /\ redex[t] = "Na2Deref"
  /\ heap_at(hs_heap, l, ly, RSt \ {0})
  /\ hs_heap' = heap_upd(hs_heap, value_at(hs_heap, l, ly),
                         [a \in cells(l, ly) |-> hs_heap[a].hc_lock_state - 1])
  /\ Goes(t, "eval")
  /\ acc' = [acc EXCEPT ![t] = NoAccess]
  /\ UNCHANGED <<hs_allocs, stack>>

\* A read that is written with Na2Ord has no first step: it counts out a reader
\* of l, whichever it is.
DerefNa2Bare(t, l, ly) ==
  /\ redex[t] = "eval" /\ "Na2Ord" \in SourceOrder
  /\ heap_at(hs_heap, l, ly, RSt \ {0})
  /\ hs_heap' = heap_upd(hs_heap, value_at(hs_heap, l, ly),
                         [a \in cells(l, ly) |-> hs_heap[a].hc_lock_state - 1])
  /\ UNCHANGED <<hs_allocs, redex, acc, stack>>

-----------------------------------------------------------------------------
(* AssignS *)

\* The first step of a non-atomic write takes the cells and leaves their bytes.
AssignNa1(t, l, ly, v) ==
  /\ redex[t] = "eval" /\ "Na1Ord" \in SourceOrder
  /\ heap_at(hs_heap, l, ly, {0})
  /\ hs_heap' = heap_upd(hs_heap, value_at(hs_heap, l, ly), [a \in cells(l, ly) |-> WSt])
  /\ Goes(t, "Na2Assign")
  /\ acc' = [acc EXCEPT ![t] = [l |-> l, ly |-> ly, v |-> v]]
  /\ UNCHANGED <<hs_allocs, stack>>

AssignNa2(t) ==
  LET l == acc[t].l  ly == acc[t].ly IN
  /\ redex[t] = "Na2Assign"
  /\ heap_at(hs_heap, l, ly, {WSt})
  /\ hs_heap' = heap_upd(hs_heap, acc[t].v, [a \in cells(l, ly) |-> 0])
  /\ Goes(t, "eval")
  /\ acc' = [acc EXCEPT ![t] = NoAccess]
  /\ UNCHANGED <<hs_allocs, stack>>

\* A write that is written with Na2Ord takes over the cells from a writer of l.
AssignNa2Bare(t, l, ly, v) ==
  /\ redex[t] = "eval" /\ "Na2Ord" \in SourceOrder
  /\ heap_at(hs_heap, l, ly, {WSt})
  /\ hs_heap' = heap_upd(hs_heap, v, [a \in cells(l, ly) |-> 0])
  /\ UNCHANGED <<hs_allocs, redex, acc, stack>>

\* Mutant: a sequentially consistent write may race with non-atomic reads.
AssignScRacy(t, l, ly, v) ==
  /\ redex[t] = "eval" /\ "ScOrd" \in SourceOrder
  /\ heap_at(hs_heap, l, ly, RSt)
  /\ hs_heap' = heap_upd(hs_heap, v, [a \in cells(l, ly) |-> hs_heap[a].hc_lock_state])
  /\ UNCHANGED <<hs_allocs, redex, acc, stack>>

AssignSc(t, l, ly, v) ==
  /\ redex[t] = "eval" /\ "ScOrd" \in SourceOrder
  /\ heap_at(hs_heap, l, ly, {0})
  /\ hs_heap' = heap_upd(hs_heap, v, [a \in cells(l, ly) |-> 0])
  /\ UNCHANGED <<hs_allocs, redex, acc, stack>>

-----------------------------------------------------------------------------
(* CasFailS and CasSucS: l1 is the atomic object, l2 the expected value.   *)

\* val_to_Z_ot of the bytes at l: equal integers are equal byte values, so the
\* function from offsets stands for the integer; {} if a byte is poison.
\* BoolOp's restriction to 0 and 1 is left out, which allows more steps.
val_to_Z_ot(l, ly) ==
  {z \in {[i \in 0 .. (ly.ly_size - 1) |-> hs_heap[l.addr + i].hc_value]} :
     \A i \in DOMAIN z : z[i] # MPoison}

\* Mutant: the expected value may be written while others read it.
CasFailRacy(t, l1, l2, ly) ==
  /\ redex[t] = "eval"
  /\ ly.ly_size <= bytes_per_addr
  /\ heap_at(hs_heap, l1, ly, RSt)
  /\ heap_at(hs_heap, l2, ly, RSt)
  /\ \E z1 \in val_to_Z_ot(l1, ly), z2 \in val_to_Z_ot(l2, ly) : z1 # z2
  /\ hs_heap' = heap_upd(hs_heap,
                         [a \in cells(l2, ly) |-> hs_heap[l1.addr + a - l2.addr].hc_value],
                         [a \in cells(l2, ly) |-> 0])
  /\ UNCHANGED <<hs_allocs, redex, acc, stack>>

CasFail(t, l1, l2, ly) ==
  /\ redex[t] = "eval"
  /\ ly.ly_size <= bytes_per_addr
  /\ heap_at(hs_heap, l1, ly, RSt)
  /\ heap_at(hs_heap, l2, ly, {0})
  /\ \E z1 \in val_to_Z_ot(l1, ly), z2 \in val_to_Z_ot(l2, ly) : z1 # z2
  /\ hs_heap' = heap_upd(hs_heap,
                         [a \in cells(l2, ly) |-> hs_heap[l1.addr + a - l2.addr].hc_value],
                         [a \in cells(l2, ly) |-> 0])
  /\ UNCHANGED <<hs_allocs, redex, acc, stack>>

CasSuc(t, l1, l2, ly, v) ==
  /\ redex[t] = "eval"
  /\ ly.ly_size <= bytes_per_addr
  /\ heap_at(hs_heap, l1, ly, {0})
  /\ heap_at(hs_heap, l2, ly, RSt)
  /\ \E z1 \in val_to_Z_ot(l1, ly), z2 \in val_to_Z_ot(l2, ly) : z1 = z2
  /\ hs_heap' = heap_upd(hs_heap, v, [a \in cells(l1, ly) |-> 0])
  /\ UNCHANGED <<hs_allocs, redex, acc, stack>>

-----------------------------------------------------------------------------
(* AllocS, FreeS, CallS and ReturnS *)

one_block(l, ly) == [x \in {"block"} |-> [l |-> l, ly |-> ly]]

Alloc(t, l, ly, v) ==
  /\ redex[t] = "eval"
  /\ has_layout_loc(l, ly)
  /\ can_alloc(hs_heap, hs_allocs, one_block(l, ly))
  /\ hs_heap' = alloc_heap(hs_heap, one_block(l, ly), v)
  /\ hs_allocs' = alloc_allocs(hs_allocs, one_block(l, ly), "HeapAlloc")
  /\ UNCHANGED <<redex, acc, stack>>

\* Mutant: any kind of allocation can be freed.
FreeAnyKind(t, l, ly) ==
  /\ redex[t] = "eval"
  /\ has_layout_loc(l, ly)
  /\ \E kind \in alloc_kind : can_free(hs_heap, hs_allocs, one_block(l, ly), kind)
  /\ hs_heap' = free_heap(hs_heap, one_block(l, ly))
  /\ hs_allocs' = free_allocs(hs_allocs, one_block(l, ly))
  /\ UNCHANGED <<redex, acc, stack>>

Free(t, l, ly) ==
  /\ redex[t] = "eval"
  /\ has_layout_loc(l, ly)
  /\ can_free(hs_heap, hs_allocs, one_block(l, ly), "HeapAlloc")
  /\ hs_heap' = free_heap(hs_heap, one_block(l, ly))
  /\ hs_allocs' = free_allocs(hs_allocs, one_block(l, ly))
  /\ UNCHANGED <<redex, acc, stack>>

\* The frame bs has a block for every argument, holding its value, and for
\* every local variable, holding poison.  main has no arguments.
Call(t, f, bs, v) ==
  /\ \/ redex[t] = "eval"
     \/ redex[t] = "call_main" /\ DOMAIN f.f_args = {}
  /\ Len(stack[t]) < MaxDepth
  /\ \A x \in Vars(f) : has_layout_loc(bs[x].l, bs[x].ly)
  /\ can_alloc(hs_heap, hs_allocs, bs)
  /\ \A x \in DOMAIN f.f_local_vars : \A a \in cells(bs[x].l, bs[x].ly) : v[a] = MPoison
  /\ hs_heap' = alloc_heap(hs_heap, bs, v)
  /\ hs_allocs' = alloc_allocs(hs_allocs, bs, "StackAlloc")
  /\ Goes(t, "eval")
  /\ stack' = [stack EXCEPT ![t] = Append(@, bs)]
  /\ UNCHANGED acc

\* Mutant: the return from main goes on running.
ReturnFromMain(t) ==
  LET bs == stack[t][Len(stack[t])] IN
  /\ redex[t] = "eval"
  /\ can_free(hs_heap, hs_allocs, bs, "StackAlloc")
  /\ hs_heap' = free_heap(hs_heap, bs)
  /\ hs_allocs' = free_allocs(hs_allocs, bs)
  /\ stack' = [stack EXCEPT ![t] = SubSeq(@, 1, Len(@) - 1)]
  /\ UNCHANGED <<redex, acc>>

Return(t) ==
  LET bs == stack[t][Len(stack[t])] IN
  /\ redex[t] = "eval"
  /\ can_free(hs_heap, hs_allocs, bs, "StackAlloc")
  /\ hs_heap' = free_heap(hs_heap, bs)
  /\ hs_allocs' = free_allocs(hs_allocs, bs)
  /\ stack' = [stack EXCEPT ![t] = SubSeq(@, 1, Len(@) - 1)]
  /\ Goes(t, IF Len(stack[t]) = 1 THEN "val" ELSE "eval")
  /\ UNCHANGED acc

\* CallFailS and AllocFailS: out of memory, after which the thread loops.
CallFail(t, f) ==
  /\ \/ redex[t] = "eval"
     \/ redex[t] = "call_main" /\ DOMAIN f.f_args = {}
  /\ Goes(t, "AllocFailed")
  /\ UNCHANGED <<hs_heap, hs_allocs, acc, stack>>

AllocFail(t) ==
  /\ redex[t] = "eval"
  /\ Goes(t, "AllocFailed")
  /\ UNCHANGED <<hs_heap, hs_allocs, acc, stack>>

-----------------------------------------------------------------------------
\* Adequacy starts the threads with the global variables allocated, in some
\* place and with some contents.
Init ==
  /\ \E ls \in [DOMAIN GlobalVars -> target] :
       LET bs == [x \in DOMAIN GlobalVars |-> [l |-> ls[x], ly |-> GlobalVars[x]]] IN
       /\ can_alloc(<<>>, <<>>, bs)
       /\ \E v \in [block_cells(bs) -> mbyte] : hs_heap = alloc_heap(<<>>, bs, v)
       /\ hs_allocs = alloc_allocs(<<>>, bs, "GlobalAlloc")
  /\ redex = [t \in Thread |-> "call_main"]
  /\ acc = [t \in Thread |-> NoAccess]
  /\ stack = [t \in Thread |-> <<>>]

Next ==
  \E t \in Thread :
    \/ \E l \in target, ly \in AccessLayout :
         \/ DerefNa1(t, l, ly) \/ DerefNa2Bare(t, l, ly)
         \/ Free(t, l, ly)
         \/ \E v \in [cells(l, ly) -> mbyte] :
              \/ AssignNa1(t, l, ly, v) \/ AssignNa2Bare(t, l, ly, v) \/ AssignSc(t, l, ly, v)
              \/ Alloc(t, l, ly, v)
         \/ \E l2 \in target :
              \/ CasFail(t, l, l2, ly)
              \/ \E v \in [cells(l, ly) -> mbyte] : CasSuc(t, l, l2, ly, v)
    \/ DerefNa2(t)
    \/ AssignNa2(t)
    \/ \E f \in Fn :
         \/ CallFail(t, f)
         \/ \E ls \in [Vars(f) -> target] :
              \E v \in [block_cells(frame_at(f, ls)) -> mbyte] : Call(t, f, frame_at(f, ls), v)
    \/ Return(t)
    \/ AllocFail(t)

Spec == Init /\ [][Next]_vars

-----------------------------------------------------------------------------
(* Properties *)

\* Type invariant: also, only a thread between the two steps of an access has
\* operands, and every thread that runs has a frame.
TypeOK ==
  /\ DOMAIN hs_heap \subseteq addr
  /\ hs_heap \in [DOMAIN hs_heap -> heap_cell]
  /\ DOMAIN hs_allocs \subseteq AllocId
  /\ hs_allocs \in [DOMAIN hs_allocs -> allocation]
  /\ redex \in [Thread -> Redex]
  /\ stack \in [Thread -> Seq(frame)]
  /\ acc \in [Thread -> {NoAccess} \cup access]
  /\ \A t \in Thread :
       /\ acc[t] = NoAccess <=> redex[t] \notin {"Na2Deref", "Na2Assign"}
       /\ redex[t] \in {"eval", "Na2Deref", "Na2Assign"} => stack[t] # <<>>
       /\ Len(stack[t]) <= MaxDepth

\* heap_state_invariant, which expr_step_preserves_invariant and
\* stmt_step_preserves_invariant are about: the cells are those of the live
\* allocations, which are disjoint and never contain address 0 or the last one.
HeapStateInvariant == heap_state_invariant(hs_heap, hs_allocs)

\* The three properties about non-atomic accesses below are claimed of programs
\* that do not contain Na2Ord.  The frontend emits ScOrd and Na1Ord only
\* (coq_pp.ml), and type_use and type_assign reject an access with Na2Ord
\* (programs.v); a program with Na2Ord can count out the reader of another thread.
NoBareNa2 == "Na2Ord" \notin SourceOrder

\* The threads between the two steps of a non-atomic read, or write, of cell a.
Readers(a) == {t \in Thread : redex[t] = "Na2Deref" /\ a \in cells(acc[t].l, acc[t].ly)}
Writers(a) == {t \in Thread : redex[t] = "Na2Assign" /\ a \in cells(acc[t].l, acc[t].ly)}

\* The lock state of every cell counts exactly the non-atomic accesses that
\* are under way: none is lost or left behind by any mix of overlapping reads,
\* writes, compare-and-swaps, allocations and deallocations.
LockStatesExact ==
  \A a \in DOMAIN hs_heap :
    \/ hs_heap[a].hc_lock_state = Cardinality(Readers(a)) /\ Writers(a) = {}
    \/ /\ hs_heap[a].hc_lock_state = WSt
       /\ Readers(a) = {}
       /\ Cardinality(Writers(a)) = 1

\* A non-atomic access that got through its first step is never stuck at its
\* second: nobody can free its cells or change their lock state to one the
\* second step does not accept.  All races are detected at first steps.
AccessCompletes ==
  \A t \in Thread :
    /\ redex[t] = "Na2Deref" => heap_at(hs_heap, acc[t].l, acc[t].ly, RSt \ {0})
    /\ redex[t] = "Na2Assign" => heap_at(hs_heap, acc[t].l, acc[t].ly, {WSt})

\* No torn reads: the bytes a non-atomic read returns at its second step are
\* those that were there at its first.
ReadStable ==
  \A t \in Thread :
    redex[t] = "Na2Deref" => value_at(hs_heap, acc[t].l, acc[t].ly) = acc[t].v

\* The variables of the frames of all threads.
Slots == {s \in [t : Thread, i : 1 .. MaxDepth, x : UNION {Vars(f) : f \in Fn}] :
            s.i <= Len(stack[s.t]) /\ s.x \in DOMAIN stack[s.t][s.i]}
slot(s) == stack[s.t][s.i][s.x]

\* The live stack allocations are exactly the variables of the frames of all
\* threads, each its own allocation: returns free neither too little nor too
\* much, and FreeS never reaches a variable.
FramesAreTheStack ==
  /\ \A s \in Slots :
       /\ slot(s).l.prov \in DOMAIN hs_allocs
       /\ hs_allocs[slot(s).l.prov] = live_allocation(slot(s), "StackAlloc")
  /\ \A s1, s2 \in Slots : slot(s1).l.prov = slot(s2).l.prov => s1 = s2
  /\ \A aid \in DOMAIN hs_allocs :
       hs_allocs[aid].al_alive /\ hs_allocs[aid].al_kind = "StackAlloc"
         => \E s \in Slots : slot(s).l.prov = aid

\* The global variables live as long as the program, with all their cells: no
\* return and no FreeS, whatever the pointer it is given, reaches them.
GlobalsOutlive ==
  \A aid \in DOMAIN hs_allocs :
    hs_allocs[aid].al_kind = "GlobalAlloc" =>
      /\ hs_allocs[aid].al_alive
      /\ \A a \in addr : in_allocation(a, hs_allocs[aid]) =>
           a \in DOMAIN hs_heap /\ hs_heap[a].hc_alloc_id = aid

\* Identifiers are never reused and a dead allocation stays dead, with the
\* range and the kind it always had: a dangling pointer stays dangling.
AllocsOnlyDie ==
  [][/\ DOMAIN hs_allocs \subseteq DOMAIN hs_allocs'
     /\ \A aid \in DOMAIN hs_allocs :
          hs_allocs'[aid] = hs_allocs[aid] \/ hs_allocs'[aid] = killed(hs_allocs[aid])]_vars

\* Pointer comparison (heap_loc_eq) compares addresses and yet tells objects
\* apart: pointers to cells of live allocations compare equal only if they are
\* the same pointer, and no other pointer compares equal to NULL.
PointersTellApart ==
  /\ \A l1, l2 \in target :
       /\ block_alive(hs_allocs, l1) /\ in_allocation(l1.addr, hs_allocs[l1.prov])
       /\ block_alive(hs_allocs, l2) /\ in_allocation(l2.addr, hs_allocs[l2.prov])
       => heap_loc_eq(hs_allocs, l1, l2) = {l1 = l2}
  /\ \A l \in loc \ {NULL_loc} : TRUE \notin heap_loc_eq(hs_allocs, l, NULL_loc)

=============================================================================
