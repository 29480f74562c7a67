# A TLA+ model of RefinedC's C semantics and of the C code it verifies

RefinedC translates annotated C into Caesium, a C semantics in Coq, and proves
the annotated specifications in Coq. The repository therefore has two kinds of
transition systems: Caesium itself, which every result of RefinedC rests on, and
the concurrent and stateful C programs verified with it. This project models
both, one module per component, checks small instances with TLC and proves the
main properties with TLAPS for every value of the constants.

## Inventory

| part | state | operations | what is hard about it |
|---|---|---|---|
| Caesium memory (`theories/caesium/heap.v`) | cells with owner and lock state; table of allocations | allocate, free, read, update, compare pointers | reuse of addresses, dangling pointers, both ends of memory |
| Caesium steps (`lang.v`) | threads, stack frames | reads and writes in two steps, atomic writes, CAS, malloc/free, call/return | races of overlapping accesses, freeing under an access |
| ticket lock (`linux/pkvm/spinlock.c`) | `owner`, `next` | init, lock, unlock | running out of tickets, the two-store reset |
| spinlock, lock, latch (`examples/`) | one atomic flag | lock, unlock, lock both | lock order, waiting |
| memory pool, slab (`mpool.c`, `malloc1.c`) | chunk list, entry list, fallback | init, add chunk, alloc, free, alloc contiguous, fini | fallback chains under several locks, splitting chunks |
| buddy allocator (`page_alloc.c`) | free areas, page orders, reference counts | init, alloc, get, put | splitting and coalescing, stale orders |
| early allocator (`early_alloc.c`) | base, cur, end | init, alloc | 32-bit sizes |
| page-table entries (`pgtable.c`) | one entry | set table, set leaf, invalidate | masks and shifts |
| linked lists (`no_proofs/list.c`) | nodes | add, delete, move, splice | aliasing of neighbours |
| scheduler (`examples/scheduler`) | queues, priority bitmap | poll, enqueue, dequeue, dispatch | bitmap against queues, starvation by input |
| hash map, B-tree, queue | tables, nodes | insert, remove, find | tombstones, splits, tail pointer |
| frontend (`frontend/`) | project files | init, check, clean | repeated runs |
| Lithium, type system (`theories/`) | none at run time | | proved in Coq |

`PROJECT.json` lists every part with its status, and the hazards by source line.

## Modules

| module | models | role |
|---|---|---|
| `AbstractLock` | the lock token of the two `spinlock.h` | abstract specification |
| `TicketLock` | `linux/pkvm/spinlock.c` | one action per access to `owner` or `next` |
| `TicketLockProofs` | | theorems about `TicketLock` |
| `CaesiumHeap` | `heap.v`, `loc.v`, `layout.v` | operators on heaps and allocation tables |
| `Caesium` | the rules of `lang.v` that change the state | one action per rule and step |
| `CaesiumHeapProofs`, `CaesiumAccessProofs`, `CaesiumProofs`, `CaesiumStackProofs` | | lemmas on heaps, accesses, blocks; the last two hold the theorems |
| `MCTicketLock`, `MCCaesium` | | instances for TLC |

### Ticket lock

`owner` and `next` are the two `_Atomic u16` fields; `ticket` and `pc` are local
to each thread. All accesses are sequentially consistent, so each is one action.
`NO_TICKET` is `LAST_TICKET + 1` as in the code; additions wrap at the width of
the tickets, which is a parameter instead of 16 bits. A compare-and-exchange is
`TakeTicket` or `LoseTicket`. The two stores of the reset are two actions.
A thread unlocks only after locking, as the token in the header requires.

### Caesium

A heap is a function from allocated addresses to cells; the allocation table is
a function from the identifiers used so far. Lock state `RSt n` is the number
`n`, `WSt` is -1. A rule's premise is its action's guard: where no action is
enabled for an operation, Caesium is stuck, which is its undefined behaviour.
The program is arbitrary: an action may use any location and any value, typed or
not. The one thing that is fixed is which memory orders occur in the text of the
program, the constant `SourceOrder`. `DerefS` and `AssignS` become one action per
memory order. `DerefNa1` and `AssignNa1` are the first steps of non-atomic accesses
(`Na1Ord`), and `DerefNa2` and `AssignNa2` the second steps that these rules put in
their place. `Na2Ord` is also part of the syntax, so a program could start with a
second step: `DerefNa2Bare` and `AssignNa2Bare`, enabled if `SourceOrder` contains
`Na2Ord`. Such a step counts out a reader, or takes the lock of a writer, that may
be another thread. `LockStatesExact`, `AccessCompletes` and `ReadStable` are
therefore claimed only of programs without `Na2Ord` (`NoBareNa2`). These are the
programs RefinedC deals with: `coq_pp.ml` emits `ScOrd` and `Na1Ord` only (lines
207-217, 235-243 and 326-329; no order means `Na1Ord`, `notation.v` 13, 62 and 92),
and `type_use` and `type_assign` (`programs.v` 1382 and 1100) and the proof rules of
`lifting.v` (223 and 1173) exclude `Na2Ord`. All other properties hold of programs
with any orders.

A byte is poison or an abstract value. A value stands for an `MByte` without its provenance or for a pointer fragment; what
happens to the provenance of integers is therefore not covered. A
compare-and-swap compares integers, and `val_to_Z` ignores provenance, so two
integers are equal exactly if their functions from offsets to byte values are.
The model's `val_to_Z_ot` is undefined only for poison. The code's is also
undefined for pointer fragments, for Booleans other than 0 and 1 and for
operand types that are not integers, so the model allows more
compare-and-swaps than the code; the safety properties hold for those too.

A frame is a function from the variables of a function to blocks, and `Return` frees all of them in one step,
like `free_blocks`. Alignment is enforced, the default configuration. Left out,
because they change no state: operators, control flow, `CopyAllocId`, `Sc` reads,
`mem_cast`, the function table. Address space and call depth are bounded by
`MaxAddr` (`2^64 - 1` in the code) and `MaxDepth` (unbounded in the code).

## Runs

| run | instance | distinct states | checks |
|---|---|---|---|
| `ticket_lock` | 3 threads, tickets 0-2 | 6383 | `MutualExclusion`, `TicketPartition`, `HalfResetIsInert`, `ResetWhenDrained`, `FirstComeFirstServed`, `ImplementsLock` |
| `ticket_lock_live` | 3 threads, tickets 0-1 | 2057 | `TicketIsServed`, `SomeoneAcquires` |
| `caesium_access` | 2 threads, 3 bytes, accesses of 1 and 2 bytes, orders of the frontend | 30024 | `LockStatesExact`, `AccessCompletes`, `ReadStable`, `PointersTellApart`, `GlobalsOutlive` |
| `caesium_blocks` | 2 threads, call depth 2, 2 bytes, all orders | 12202 | `TypeOK`, `HeapStateInvariant`, `FramesAreTheStack`, `AllocsOnlyDie` |

All four pass. Why the bounds are enough to be interesting: with as many
tickets as threads or fewer, the dispenser runs out while threads wait, and is
reset any number of times. Three bytes hold a two-byte global and one heap byte,
so accesses overlap in part and blocks touch both ends of memory; addresses are
reused after a free, and both memory and identifiers run out. Identifiers bound
the number of allocations in a behaviour: three in `caesium_access`, four in
`caesium_blocks`. Compare-and-swap is limited to one byte in `caesium_access`
(`bytes_per_addr = 1`), which makes the premise on its size matter. Threads and
identifiers are symmetric in both Caesium runs, which check no liveness.
Deadlock is not checked for Caesium: threads finish, and stuck threads are its
undefined behaviour. It is checked for the ticket lock.

Fairness: `FairSpec` assumes weak fairness of each thread's steps once it has
called `hyp_spin_lock`, critical section included. The code spins and never
blocks, so this says that every thread keeps being scheduled and that critical
sections end. Nothing forces a thread to ask for the lock. No strong fairness is
assumed, and so a single thread may lose the race for a ticket forever;
`SomeoneAcquires` is what the code does guarantee.

## Proofs

From `LastTicketAssumption` (`LAST_TICKET` is a natural number) alone,
`TicketLockProofs` proves all six safety properties of `ticket_lock`, for any set
of threads. The inductive invariant `IInv` is `TicketPartition`, with types and what each
thread knows at its next access: a ticket about to be taken is not `NO_TICKET`;
the branch taken in unlock still fits `owner`; between the stores of a reset
`owner` is 0, `next` is `NO_TICKET`, and only one thread is there. Mutual
exclusion alone is not inductive: it needs that tickets are distinct and that
the holder's is `owner`. The refinement maps the holders to the threads between
the read of `owner` that ends locking and the store that begins to give up.

From `HeapAssumption` and `CaesiumAssumption` (well-formed layouts, distinct names
of variables, finitely many threads, `SourceOrder` a set of memory orders), the
Caesium modules prove every property of the two Caesium runs. There are two
invariants, one on top of the other. `IInv`, the conjunction of `TypeOK` and
`HeapStateInvariant`, is inductive for every `SourceOrder`. `LInv`, the conjunction of
`LockStatesExact`, `AccessCompletes` and `ReadStable`, is preserved by every step
other than `DerefNa2Bare` and `AssignNa2Bare`, and the theorems `LockStatesCorrect`
and `AccessesCorrect` have the hypothesis `NoBareNa2`. That an access completes needs
exact lock states (nobody else may free or write its cells), exact lock states
need that a freed cell has no access under way, and that a new block is not under
an access needs that accesses are to allocated cells. `AllocsOnlyDie` follows step
by step, `PointersTellApart` from the heap invariant and types; `GlobalsOutlive` and
`FramesAreTheStack` have inductions of their own on top, without `NoBareNa2`.

Only model-checked: the two liveness properties, which are out of the prover's
reach. The proofs cover every size of memory and any number of threads, but
`MaxDepth` stays a parameter.

## Not modelled

See the components with status `not_modelled`: Lithium and the type system are
Coq proofs without a state; the translation of the frontend is a pure function
of a compiler's syntax trees; the remaining C code is planned below.

## Plan

1. Locks: the test-and-set spinlock as a second refinement of `AbstractLock`;
   `sl_lock_both` and deadlock; `lock.c` and `latch.c` on top.
2. Memory pool composed with `AbstractLock`: no entry in two places, none lost,
   alloc/free/fini through fallback chains; slab and early allocators.
3. Buddy allocator: free blocks are aligned, disjoint and maximal; counts.
4. Scheduler: bitmap agrees with queues; highest priority first; liveness under
   what is assumed of the input.
5. Data structures against abstract ones: hash map, B-tree, queue, linked lists,
   search trees; sorting and page-table operators against references.
6. Frontend project life cycle; integer operators of Caesium.
7. Proofs: refinement of the spinlock, conservation of pool entries, bitmap and
   queue agreement, ordered as above.
