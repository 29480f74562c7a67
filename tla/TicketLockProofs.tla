-------------------------- MODULE TicketLockProofs --------------------------
(***************************************************************************)
(* The ticket lock is correct for every number of threads and tickets.     *)
(***************************************************************************)
EXTENDS TicketLock, TLAPS

USE LastTicketAssumption

\* TicketPartition without its set equality, which the provers handle badly.
Partition ==
  /\ owner <= next /\ owner # NO_TICKET
  /\ \A t, u \in Thread :
       HasTicket(t) /\ HasTicket(u) /\ ticket[t] = ticket[u] => t = u
  /\ \A t \in Thread : HasTicket(t) =>
       /\ owner <= ticket[t] /\ ticket[t] < next
       /\ \A u \in Thread : pc[u] # "reset_next"
  /\ (\A u \in Thread : pc[u] # "reset_next") =>
       \A i \in U16 : owner <= i /\ i < next =>
         \E t \in Thread : HasTicket(t) /\ ticket[t] = i
  /\ \A t \in Thread : Holding(t) => ticket[t] = owner

\* Both forms of the partition of the tickets say the same.
LEMMA PartitionEquivalence == TypeOK => (TicketPartition <=> Partition)
<1> SUFFICES ASSUME TypeOK PROVE TicketPartition <=> Partition
  OBVIOUS
<1> DEFINE Given == {ticket[t] : t \in {u \in Thread : HasTicket(u)}}
<1>1. CASE \E u \in Thread : pc[u] = "reset_next"
  BY <1>1 DEF TicketPartition, Partition
<1>2. CASE \A u \in Thread : pc[u] # "reset_next"
  <2>1. Given = owner .. (next - 1) <=>
          /\ \A t \in Thread : HasTicket(t) => ticket[t] \in owner .. (next - 1)
          /\ \A i \in owner .. (next - 1) : i \in Given
    OBVIOUS
  <2>2. \A i \in owner .. (next - 1) : i \in U16
    BY DEF TypeOK, U16, NO_TICKET
  <2>3. \A i \in U16 : i \in owner .. (next - 1) <=> owner <= i /\ i < next
    BY DEF TypeOK, U16, NO_TICKET
  <2>4. \A t \in Thread : ticket[t] \in U16
    BY DEF TypeOK
  <2> QED
    BY <1>2, <2>1, <2>2, <2>3, <2>4 DEF TicketPartition, Partition
<1> QED
  BY <1>1, <1>2

\* What a thread knows of the shared fields at its next access to them.
ThreadFacts ==
  /\ \A t \in Thread :
       /\ pc[t] = "cas_next" => ticket[t] # NO_TICKET
       /\ pc[t] = "unlock_incr" => owner # LAST_TICKET
       /\ pc[t] = "unlock_reset" => owner = LAST_TICKET
       /\ pc[t] = "reset_next" => owner = 0 /\ next = NO_TICKET
  /\ \A t, u \in Thread : pc[t] = "reset_next" /\ pc[u] = "reset_next" => t = u

\* The inductive invariant in terms of Partition.
LEMMA IInvParts == IInv <=> TypeOK /\ Partition /\ ThreadFacts
BY PartitionEquivalence DEF IInv, ThreadFacts

\* The fields and the program counters keep their types.
LEMMA TypeStep == TypeOK /\ [Next]_vars => TypeOK'
<1> SUFFICES ASSUME TypeOK, [Next]_vars PROVE TypeOK'
  OBVIOUS
<1> USE DEF TypeOK, Transition, Location
<1>1. \A n \in U16 : (n + 1) % (NO_TICKET + 1) \in U16
  BY DEF U16, NO_TICKET
<1>2. 0 \in U16
  BY DEF U16, NO_TICKET
<1>3. CASE UNCHANGED vars
  BY <1>3 DEF vars
<1>4. ASSUME NEW t \in Thread, Call(t) \/ Step(t) PROVE TypeOK'
  BY <1>1, <1>2, <1>4 DEF Call, Step, ReadNext, TakeTicket, LoseTicket,
     ReadOwner, CallUnlock, UnlockRead, UnlockIncr, UnlockReset, ResetNext
<1> QED
  BY <1>3, <1>4 DEF Next

\* Every step of the two functions keeps the partition of the tickets and the
\* facts the threads rely on.
LEMMA PartitionStep ==
  TypeOK /\ Partition /\ ThreadFacts /\ [Next]_vars => (Partition /\ ThreadFacts)'
<1> SUFFICES ASSUME TypeOK, Partition, ThreadFacts, [Next]_vars
             PROVE  (Partition /\ ThreadFacts)'
  OBVIOUS
<1> USE DEF Partition, ThreadFacts, HasTicket, Holding, U16, NO_TICKET
<1>1. CASE UNCHANGED vars
  BY <1>1 DEF vars
<1>2. ASSUME NEW t \in Thread, Call(t) PROVE (Partition /\ ThreadFacts)'
  BY <1>2 DEF Call, Transition, TypeOK
<1>3. ASSUME NEW t \in Thread, ReadNext(t) PROVE (Partition /\ ThreadFacts)'
  BY <1>3 DEF ReadNext, Transition, TypeOK
<1>4. ASSUME NEW t \in Thread, TakeTicket(t) PROVE (Partition /\ ThreadFacts)'
  BY <1>4 DEF TakeTicket, Transition, TypeOK
<1>5. ASSUME NEW t \in Thread, LoseTicket(t) PROVE (Partition /\ ThreadFacts)'
  BY <1>5 DEF LoseTicket, Transition, TypeOK
<1>6. ASSUME NEW t \in Thread, ReadOwner(t) PROVE (Partition /\ ThreadFacts)'
  BY <1>6 DEF ReadOwner, Transition, TypeOK
<1>7. ASSUME NEW t \in Thread, CallUnlock(t) PROVE (Partition /\ ThreadFacts)'
  BY <1>7 DEF CallUnlock, Transition, TypeOK
<1>8. ASSUME NEW t \in Thread, UnlockRead(t) PROVE (Partition /\ ThreadFacts)'
  BY <1>8 DEF UnlockRead, Transition, TypeOK
<1>9. ASSUME NEW t \in Thread, UnlockIncr(t) PROVE (Partition /\ ThreadFacts)'
  BY <1>9 DEF UnlockIncr, Transition, TypeOK
<1>10. ASSUME NEW t \in Thread, UnlockReset(t) PROVE (Partition /\ ThreadFacts)'
  BY <1>10 DEF UnlockReset, Transition, TypeOK
<1>11. ASSUME NEW t \in Thread, ResetNext(t) PROVE (Partition /\ ThreadFacts)'
  BY <1>11 DEF ResetNext, Transition, TypeOK
<1> QED
  BY <1>1, <1>2, <1>3, <1>4, <1>5, <1>6, <1>7, <1>8, <1>9, <1>10, <1>11
  DEF Next, Step

\* The inductive invariant holds initially and after every step.
LEMMA Invariance == Spec => []IInv
<1>1. Init => IInv
  <2> SUFFICES ASSUME Init PROVE TypeOK /\ Partition /\ ThreadFacts
    BY IInvParts
  <2> QED
    BY DEF Init, TypeOK, Partition, ThreadFacts, U16, NO_TICKET, Location,
           HasTicket, Holding
<1>2. IInv /\ [Next]_vars => IInv'
  <2> SUFFICES ASSUME IInv, [Next]_vars PROVE IInv'
    OBVIOUS
  <2>1. (TypeOK /\ Partition /\ ThreadFacts)'
    BY IInvParts, TypeStep, PartitionStep
  <2>2. (TypeOK => (TicketPartition <=> Partition))'
    BY PartitionEquivalence, PTL
  <2> QED
    BY <2>1, <2>2 DEF IInv, ThreadFacts
<1> QED
  BY <1>1, <1>2, PTL DEF Spec

\* The ghost partition that the RefinedC proof of the lock keeps in
\* hyp_spinlock_t_invariant is an invariant of the code.
THEOREM PartitionCorrect == Spec => []TicketPartition
<1>1. IInv => TicketPartition
  BY DEF IInv
<1> QED
  BY <1>1, Invariance, PTL

\* At most one thread is between its hyp_spin_lock and its hyp_spin_unlock.
THEOREM MutualExclusionCorrect == Spec => []MutualExclusion
<1>1. IInv => MutualExclusion
  BY DEF IInv, TicketPartition, MutualExclusion, HasTicket
<1> QED
  BY <1>1, Invariance, PTL

\* hyp_spin_unlock resets the dispenser only when no ticket is in use.
THEOREM ResetCorrect == Spec => ResetWhenDrained
<1>1. IInv /\ [Next]_vars =>
        [next' < next => \A t \in Thread : ~HasTicket(t) /\ ~HasTicket(t)']_vars
  <2> SUFFICES ASSUME IInv, Next, next' < next, NEW u \in Thread
               PROVE  ~HasTicket(u) /\ ~HasTicket(u)'
    BY DEF vars
  <2>1. TypeOK /\ Partition /\ ThreadFacts
    BY IInvParts
  <2>2. PICK t \in Thread : Call(t) \/ Step(t)
    BY DEF Next
  <2>3. ~TakeTicket(t)
    BY <2>1 DEF TakeTicket, TypeOK, ThreadFacts, Transition, U16, NO_TICKET
  <2>4. ResetNext(t)
    BY <2>1, <2>2, <2>3 DEF TypeOK, U16, Call, Step, ReadNext, LoseTicket,
       ReadOwner, CallUnlock, UnlockRead, UnlockIncr, UnlockReset
  <2> QED
    BY <2>1, <2>4 DEF ResetNext, Transition, Partition, HasTicket, Holding, TypeOK
<1> QED
  BY <1>1, Invariance, PTL DEF Spec, ResetWhenDrained

\* While hyp_spin_unlock is between the two stores of a reset, no other thread can
\* take a ticket or change a field.
THEOREM HalfResetCorrect == Spec => []HalfResetIsInert
<1>1. IInv => HalfResetIsInert
  <2> SUFFICES ASSUME IInv, NEW t \in Thread, pc[t] = "reset_next"
               PROVE  /\ owner = 0 /\ next = NO_TICKET
                      /\ \A u \in Thread \ {t} :
                           /\ pc[u] \in {"outside", "read_next", "cas_next"}
                           /\ pc[u] = "cas_next" => ticket[u] # next
    BY DEF HalfResetIsInert
  <2>1. TypeOK /\ Partition /\ ThreadFacts
    BY IInvParts
  <2>2. owner = 0 /\ next = NO_TICKET
    BY <2>1 DEF ThreadFacts
  <2>3. ASSUME NEW u \in Thread \ {t} PROVE pc[u] \in {"outside", "read_next", "cas_next"}
    <3>1. ~HasTicket(u)
      BY <2>1 DEF Partition
    <3>2. pc[u] # "reset_next"
      BY <2>1 DEF ThreadFacts
    <3> QED
      BY <2>1, <3>1, <3>2 DEF HasTicket, Holding, TypeOK, Location
  <2>4. \A u \in Thread : pc[u] = "cas_next" => ticket[u] # next
    BY <2>1, <2>2 DEF ThreadFacts
  <2> QED
    BY <2>2, <2>3, <2>4
<1> QED
  BY <1>1, Invariance, PTL

\* Tickets are served in the order in which they were taken.
THEOREM OrderCorrect == Spec => FirstComeFirstServed
<1> DEFINE Fair(t, u) ==
      t # u /\ pc[t] = "read_owner" =>
        /\ ~HasTicket(u) /\ HasTicket(u)' => ticket[t] < ticket'[u]
        /\ ~Holding(u) /\ Holding(u)' => ticket[u] < ticket[t]
<1>1. IInv /\ [Next]_vars => [\A t, u \in Thread : Fair(t, u)]_vars
  <2> SUFFICES ASSUME IInv, Next, NEW t \in Thread, NEW u \in Thread
               PROVE  Fair(t, u)
    BY DEF vars
  <2>1. TypeOK /\ Partition /\ ThreadFacts
    BY IInvParts
  <2>2. PICK s \in Thread : Call(s) \/ Step(s)
    BY DEF Next
  <2>3. CASE s = u
    BY <2>1, <2>2, <2>3 DEF Call, Step, ReadNext, TakeTicket, LoseTicket,
       ReadOwner, CallUnlock, UnlockRead, UnlockIncr, UnlockReset, ResetNext,
       Transition, TypeOK, Partition, HasTicket, Holding, U16, NO_TICKET
  <2>4. CASE s # u
    BY <2>1, <2>2, <2>4 DEF Call, Step, ReadNext, TakeTicket, LoseTicket,
       ReadOwner, CallUnlock, UnlockRead, UnlockIncr, UnlockReset, ResetNext,
       Transition, TypeOK, HasTicket, Holding
  <2> QED
    BY <2>3, <2>4
<1> QED
  BY <1>1, Invariance, PTL DEF Spec, FirstComeFirstServed

\* The ticket lock implements the abstract lock.
THEOREM LockCorrect == Spec => ImplementsLock
<1> DEFINE H == {t \in Thread : Holding(t)}
<1>1. Init => Abstract!Init
  BY DEF Init, Abstract!Init, Holding
<1>2. IInv /\ IInv' /\ [Next]_vars => [Abstract!Next]_H
  <2> SUFFICES ASSUME IInv, IInv', Next PROVE Abstract!Next \/ H' = H
    BY DEF vars, Holding
  <2>1. TypeOK /\ MutualExclusion /\ MutualExclusion'
    BY DEF IInv, TicketPartition, MutualExclusion, HasTicket
  <2>2. PICK t \in Thread : Call(t) \/ Step(t)
    BY DEF Next
  <2>3. \A u \in Thread : u # t => (Holding(u)' <=> Holding(u))
    BY <2>1, <2>2 DEF Call, Step, ReadNext, TakeTicket, LoseTicket,
       ReadOwner, CallUnlock, UnlockRead, UnlockIncr, UnlockReset, ResetNext,
       Transition, TypeOK, Holding
  <2>4. CASE Holding(t) /\ ~Holding(t)'
    <3>1. H = {t} /\ H' = {}
      BY <2>1, <2>3, <2>4 DEF MutualExclusion
    <3> QED
      BY <3>1 DEF Abstract!Next, Abstract!Release
  <2>5. CASE ~Holding(t) /\ Holding(t)'
    <3>1. H = {} /\ H' = {t}
      BY <2>1, <2>3, <2>5 DEF MutualExclusion
    <3> QED
      BY <3>1 DEF Abstract!Next, Abstract!Acquire
  <2>6. CASE Holding(t) <=> Holding(t)'
    BY <2>3, <2>6
  <2> QED
    BY <2>4, <2>5, <2>6
<1> QED
  BY <1>1, <1>2, Invariance, PTL DEF Spec, ImplementsLock, Abstract!Spec

=============================================================================
