----------------------------- MODULE MCCaesium ------------------------------
(***************************************************************************)
(* Instances of Caesium: two threads, and a memory of a few bytes, so that *)
(* allocations are forced next to each other, addresses are reused, and    *)
(* memory and identifiers run out.                                         *)
(***************************************************************************)
EXTENDS Caesium, TLC

ly(n, align) == [ly_size |-> n, ly_align |-> align]

\* main has one variable of one byte, leaf one argument of one byte.
mc_main == [f_args |-> <<>>, f_local_vars |-> [x \in {"x"} |-> ly(1, 1)]]
mc_leaf == [f_args |-> [x \in {"p"} |-> ly(1, 1)], f_local_vars |-> <<>>]
mc_nothing == [f_args |-> <<>>, f_local_vars |-> <<>>]

\* Accesses: threads without variables use a global of two bytes, and the heap.
mc_Fn_access == {mc_nothing}
mc_GlobalVars_access == [x \in {"g"} |-> ly(2, 1)]
mc_AccessLayout_access == {ly(1, 1), ly(2, 1)}

\* Blocks: the variables of two levels of calls, and the heap.
mc_Fn_blocks == {mc_main, mc_leaf}
mc_GlobalVars_blocks == <<>>
mc_AccessLayout_blocks == {ly(1, 1)}

\* The memory orders that coq_pp.ml emits.
mc_SourceOrder_frontend == {"ScOrd", "Na1Ord"}

Symm == Permutations(AllocId) \cup Permutations(Thread)
=============================================================================
