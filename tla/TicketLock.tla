----------------------------- MODULE TicketLock -----------------------------
(***************************************************************************)
(* The ticket lock of linux/pkvm/spinlock.c (hyp_spin_lock and             *)
(* hyp_spin_unlock), used by any number of threads.  owner and next are    *)
(* sequentially consistent _Atomic u16 fields, so every access to them is  *)
(* a step of its own; everything else a thread does is local to it.        *)
(*                                                                         *)
(* The width of the tickets is the parameter LAST_TICKET (USHRT_MAX - 1 in *)
(* the code), so that small instances exhaust and reset the dispenser.     *)
(***************************************************************************)
EXTENDS Integers

CONSTANTS
  Thread,       \* the threads sharing the lock
  LAST_TICKET   \* the largest ticket that is given to a thread

ASSUME LastTicketAssumption == LAST_TICKET \in Nat

NO_TICKET == LAST_TICKET + 1

\* The values of a u16, whatever its width is scaled to.
U16 == 0 .. NO_TICKET

VARIABLES
  owner,    \* lock->owner
  next,     \* lock->next
  ticket,   \* the local variable "ticket" of each thread
  pc        \* where each thread is

vars == <<owner, next, ticket, pc>>

\* Outside, or inside the critical section, or about to execute the named
\* access of hyp_spin_lock or hyp_spin_unlock.
Location == {"outside", "read_next", "cas_next", "read_owner", "critical",
             "unlock_read", "unlock_incr", "unlock_reset", "reset_next"}

Transition(t, from, to) ==
  /\ pc[t] = from
  /\ pc' = [pc EXCEPT ![t] = to]

\* hyp_spin_lock_init.
Init ==
  /\ owner = 0
  /\ next = 0
  /\ ticket = [t \in Thread |-> 0]
  /\ pc = [t \in Thread |-> "outside"]

-----------------------------------------------------------------------------
(* hyp_spin_lock *)

\* The thread calls hyp_spin_lock.
Call(t) ==
  /\ Transition(t, "outside", "read_next")
  /\ UNCHANGED <<owner, next, ticket>>

\* Mutant: a thread does not wait for the reset of the dispenser.
ReadNextNoWait(t) ==
  /\ Transition(t, "read_next", "cas_next")
  /\ ticket' = [ticket EXCEPT ![t] = next]
  /\ UNCHANGED <<owner, next>>

\* The inner loop: ticket = lock->next, again while it is NO_TICKET.
ReadNext(t) ==
  /\ Transition(t, "read_next",
                IF next = NO_TICKET THEN "read_next" ELSE "cas_next")
  /\ ticket' = [ticket EXCEPT ![t] = next]
  /\ UNCHANGED <<owner, next>>

\* atomic_compare_exchange_strong finds the ticket still there and takes it.
TakeTicket(t) ==
  /\ Transition(t, "cas_next", "read_owner")
  /\ next = ticket[t]
  /\ next' = (ticket[t] + 1) % (NO_TICKET + 1)
  /\ UNCHANGED <<owner, ticket>>

\* Mutant: the result of the compare-and-exchange is ignored.
LoseTicketIgnored(t) ==
  /\ Transition(t, "cas_next", "read_owner")
  /\ next # ticket[t]
  /\ ticket' = [ticket EXCEPT ![t] = next]
  /\ UNCHANGED <<owner, next>>

\* It finds another value, which it stores in ticket; the outer loop repeats.
LoseTicket(t) ==
  /\ Transition(t, "cas_next", "read_next")
  /\ next # ticket[t]
  /\ ticket' = [ticket EXCEPT ![t] = next]
  /\ UNCHANGED <<owner, next>>

\* Mutant: while(lock->owner > ticket){}
ReadOwnerEarly(t) ==
  /\ Transition(t, "read_owner",
                IF owner <= ticket[t] THEN "critical" ELSE "read_owner")
  /\ UNCHANGED <<owner, next, ticket>>

\* while(lock->owner != ticket){}
ReadOwner(t) ==
  /\ Transition(t, "read_owner",
                IF owner = ticket[t] THEN "critical" ELSE "read_owner")
  /\ UNCHANGED <<owner, next, ticket>>

-----------------------------------------------------------------------------
(* hyp_spin_unlock *)

\* The holder calls hyp_spin_unlock.
CallUnlock(t) ==
  /\ Transition(t, "critical", "unlock_read")
  /\ UNCHANGED <<owner, next, ticket>>

\* Mutants: no test for the last ticket; the reset one ticket early.
UnlockReadNoTest(t) ==
  /\ Transition(t, "unlock_read", "unlock_incr")
  /\ ticket' = [ticket EXCEPT ![t] = owner]
  /\ UNCHANGED <<owner, next>>
UnlockReadEarlyReset(t) ==
  /\ Transition(t, "unlock_read",
                IF owner + 1 >= LAST_TICKET THEN "unlock_reset" ELSE "unlock_incr")
  /\ ticket' = [ticket EXCEPT ![t] = owner]
  /\ UNCHANGED <<owner, next>>

\* ticket = lock->owner, and the test for the last ticket.
UnlockRead(t) ==
  /\ Transition(t, "unlock_read",
                IF owner = LAST_TICKET THEN "unlock_reset" ELSE "unlock_incr")
  /\ ticket' = [ticket EXCEPT ![t] = owner]
  /\ UNCHANGED <<owner, next>>

\* Mutant: the next ticket is skipped.
UnlockIncrSkip(t) ==
  /\ Transition(t, "unlock_incr", "outside")
  /\ owner' = (ticket[t] + 2) % (NO_TICKET + 1)
  /\ UNCHANGED <<next, ticket>>

\* lock->owner = ticket + 1
UnlockIncr(t) ==
  /\ Transition(t, "unlock_incr", "outside")
  /\ owner' = (ticket[t] + 1) % (NO_TICKET + 1)
  /\ UNCHANGED <<next, ticket>>

\* lock->owner = 0, the first store of the reset.
UnlockReset(t) ==
  /\ Transition(t, "unlock_reset", "reset_next")
  /\ owner' = 0
  /\ UNCHANGED <<next, ticket>>

\* Mutant: the second store of the reset is forgotten.
ResetNextMissing(t) ==
  /\ Transition(t, "reset_next", "outside")
  /\ UNCHANGED <<owner, next, ticket>>

\* lock->next = 0, the second one.
ResetNext(t) ==
  /\ Transition(t, "reset_next", "outside")
  /\ next' = 0
  /\ UNCHANGED <<owner, ticket>>

-----------------------------------------------------------------------------
Step(t) ==
  \/ ReadNext(t) \/ TakeTicket(t) \/ LoseTicket(t) \/ ReadOwner(t)
  \/ CallUnlock(t) \/ UnlockRead(t)
  \/ UnlockIncr(t) \/ UnlockReset(t) \/ ResetNext(t)

Next == \E t \in Thread : Call(t) \/ Step(t)

Spec == Init /\ [][Next]_vars

\* A thread that has called hyp_spin_lock keeps running, and its critical
\* section ends; nothing forces a thread to ask for the lock.
FairSpec == Spec /\ \A t \in Thread : WF_vars(Step(t))

-----------------------------------------------------------------------------
(* Properties *)

\* The types, which the proofs start from.
TypeOK ==
  /\ owner \in U16
  /\ next \in U16
  /\ ticket \in [Thread -> U16]
  /\ pc \in [Thread -> Location]

\* Between the return of hyp_spin_lock and the store to owner by which
\* hyp_spin_unlock gives the lock up.
Holding(t) ==
  pc[t] \in {"critical", "unlock_read", "unlock_incr", "unlock_reset"}

\* In possession of a ticket that has not been used up.
HasTicket(t) == pc[t] = "read_owner" \/ Holding(t)

\* Mutual exclusion: hyp_spin_lock returns to a thread only while no other
\* thread is between its own return from hyp_spin_lock and the store by which
\* hyp_spin_unlock gives the lock up, resets of the dispenser included.
MutualExclusion == \A t, u \in Thread : Holding(t) /\ Holding(u) => t = u

\* The partition of the tickets that hyp_spinlock_t_invariant keeps in ghost
\* state: the tickets from owner to next - 1 are each with exactly one thread,
\* all others are in the pool, and the holder has ticket owner.  While
\* hyp_spin_unlock is between the two stores of a reset no thread has one.
TicketPartition ==
  /\ owner <= next /\ owner # NO_TICKET
  /\ \A t, u \in Thread :
       HasTicket(t) /\ HasTicket(u) /\ ticket[t] = ticket[u] => t = u
  /\ {ticket[t] : t \in {u \in Thread : HasTicket(u)}} =
       IF \E t \in Thread : pc[t] = "reset_next" THEN {} ELSE owner .. (next - 1)
  /\ \A t \in Thread : Holding(t) => ticket[t] = owner

\* The inductive invariant: what each thread still knows of the shared fields
\* at its next access to them, on top of the partition.
IInv ==
  /\ TypeOK
  /\ TicketPartition
  /\ \A t \in Thread :
       /\ pc[t] = "cas_next" => ticket[t] # NO_TICKET
       /\ pc[t] = "unlock_incr" => owner # LAST_TICKET
       /\ pc[t] = "unlock_reset" => owner = LAST_TICKET
       /\ pc[t] = "reset_next" => owner = 0 /\ next = NO_TICKET
  /\ \A t, u \in Thread : pc[t] = "reset_next" /\ pc[u] = "reset_next" => t = u

\* "The waiting threads have to wait until all the threads that have a ticket
\* already are done": the dispenser goes back to 0 only when no thread has a
\* ticket, so no ticket is ever given a second time while it is in use.
ResetWhenDrained ==
  [][next' < next => \A t \in Thread : ~HasTicket(t) /\ ~HasTicket(t)']_vars

\* A reset that is half done is inert: between the stores lock->owner = 0 and
\* lock->next = 0 the fields stay as the first store left them, all other
\* threads are outside or still without a ticket, and none of them has an
\* expected value with which its compare-and-exchange could succeed.
HalfResetIsInert ==
  \A t \in Thread : pc[t] = "reset_next" =>
    /\ owner = 0 /\ next = NO_TICKET
    /\ \A u \in Thread \ {t} :
         /\ pc[u] \in {"outside", "read_next", "cas_next"}
         /\ pc[u] = "cas_next" => ticket[u] # next

\* First come, first served: a thread that takes a ticket queues behind every
\* waiting thread, and the lock goes to the waiting thread with the smallest
\* ticket, across resets of the dispenser too.
FirstComeFirstServed ==
  [][\A t, u \in Thread : t # u /\ pc[t] = "read_owner" =>
       /\ ~HasTicket(u) /\ HasTicket(u)' => ticket[t] < ticket'[u]
       /\ ~Holding(u) /\ Holding(u)' => ticket[u] < ticket[t]]_vars

\* The ticket lock is a lock: hyp_spin_lock acquires the abstract lock with
\* the read of owner that ends it, hyp_spin_unlock releases it with its store.
Abstract == INSTANCE AbstractLock WITH holders <- {t \in Thread : Holding(t)}
ImplementsLock == Abstract!Spec

\* A thread that has taken a ticket gets the lock (no ticket is lost and no
\* reset strands a waiter).
TicketIsServed ==
  \A t \in Thread : pc[t] = "read_owner" ~> pc[t] = "critical"

\* As long as some thread is trying to get a ticket, the lock keeps being
\* acquired: waiting for the reset of the dispenser never deadlocks.  A single
\* thread may lose the race for a ticket forever.
SomeoneAcquires ==
  (\E t \in Thread : pc[t] \in {"read_next", "cas_next"})
     ~> \E t \in Thread : pc[t] = "critical"

=============================================================================
