----------------------------- MODULE KeyedMutex -----------------------------
(***************************************************************************)
(* What a lock keyed by a name promises: at most one holder per key, and a *)
(* key is taken only while nobody holds it.  fs.go names two such locks,   *)
(* "the lock to synchronize objects" (ol) and "the lock to synchronize     *)
(* bucket" (bl).                                                           *)
(***************************************************************************)
CONSTANTS Procs, Keys

VARIABLE holders    \* holders[k]: the processes that hold key k

Init == holders = [k \in Keys |-> {}]

Acquire(g, k) ==
    /\ holders[k] = {}
    /\ holders' = [holders EXCEPT ![k] = {g}]

Release(g, k) ==
    /\ holders[k] = {g}
    /\ holders' = [holders EXCEPT ![k] = {}]

Next == \E g \in Procs, k \in Keys : Acquire(g, k) \/ Release(g, k)

Spec == Init /\ [][Next]_holders
=============================================================================
