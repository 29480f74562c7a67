---------------------------- MODULE AbstractLock ----------------------------
(***************************************************************************)
(* What the specifications of hyp_spin_lock and hyp_spin_unlock (the token *)
(* in linux/pkvm/include/nvhe/spinlock.h) and of sl_lock and sl_unlock     *)
(* (examples/include/spinlock.h) promise: there is one lock token, which   *)
(* locking hands to the caller and unlocking takes back.                   *)
(***************************************************************************)
CONSTANT Thread

VARIABLE holders   \* the threads that have the token, at most one

Init == holders = {}

Acquire(t) == holders = {} /\ holders' = {t}

Release(t) == holders = {t} /\ holders' = {}

Next == \E t \in Thread : Acquire(t) \/ Release(t)

Spec == Init /\ [][Next]_holders

=============================================================================
