---------------------------- MODULE ObjectLocker ----------------------------
(***************************************************************************)
(* objectLocker of objs.go: a map from a key to the channel its waiters    *)
(* block on.  The key is locked while the map has an entry for it; unlock  *)
(* closes the channel, which wakes every waiter, and removes the entry.    *)
(*                                                                         *)
(* Each critical section of objectLocker.mtx is one step.  The receive     *)
(* from the channel is outside the mutex, so a goroutine may hold on to a  *)
(* channel that has left the map, and may lose the key to another          *)
(* goroutine between being woken and looking at the map again.             *)
(*                                                                         *)
(* A goroutine holds at most one key of one locker at a time, which is how *)
(* objs.go uses it: one object lock, then one bucket lock of the other     *)
(* locker.  unlock runs once per lock() there, so the sync.Once never      *)
(* suppresses a call and is not modelled.                                  *)
(***************************************************************************)
EXTENDS FiniteSets

CONSTANTS
    Procs,      \* goroutines
    Keys,       \* object (or bucket) identifiers
    Chans,      \* channel values; one that nobody refers to is made anew
    NoChan      \* no entry in the map, or no channel received from

ASSUME NoChanAssumption == NoChan \notin Chans

VARIABLES
    waiters,    \* objectLocker.waiters
    closed,     \* the channels close() was called on
    pc,         \* where the goroutine is: idle, lock, wait or held
    req,        \* the key of its current or last lock(id)
    ch          \* the waitCh it received from the map

vars == <<waiters, closed, pc, req, ch>>

TypeOK ==
    /\ waiters \in [Keys -> Chans \union {NoChan}]
    /\ closed \subseteq Chans
    /\ pc \in [Procs -> {"idle", "lock", "wait", "held"}]
    /\ req \in [Procs -> Keys]
    /\ ch \in [Procs -> Chans \union {NoChan}]

Referenced(c) ==
    \/ \E k \in Keys : waiters[k] = c
    \/ \E g \in Procs : ch[g] = c

Init ==
    /\ waiters = [k \in Keys |-> NoChan]
    /\ closed = {}
    /\ pc = [g \in Procs |-> "idle"]
    /\ req \in [Procs -> Keys]
    /\ ch = [g \in Procs |-> NoChan]

-----------------------------------------------------------------------------
\* Faulty variants of the steps below, which the properties must notice.

\* Claim that overwrites an entry without looking for one.
ClaimNoCheck(g) ==
    /\ pc[g] = "lock"
    /\ \E c \in Chans :
          /\ ~Referenced(c)
          /\ waiters' = [waiters EXCEPT ![req[g]] = c]
          /\ closed' = closed \ {c}
    /\ pc' = [pc EXCEPT ![g] = "held"]
    /\ UNCHANGED <<req, ch>>

\* Waking straight into the lock, without looking at the map again.
WakeIntoHeld(g) ==
    /\ pc[g] = "wait"
    /\ ch[g] \in closed
    /\ pc' = [pc EXCEPT ![g] = "held"]
    /\ ch' = [ch EXCEPT ![g] = NoChan]
    /\ UNCHANGED <<waiters, closed, req>>

\* Unlock that drops the entry and does not close its channel.
UnlockNoClose(g) ==
    /\ pc[g] = "held"
    /\ waiters' = [waiters EXCEPT ![req[g]] = NoChan]
    /\ pc' = [pc EXCEPT ![g] = "idle"]
    /\ UNCHANGED <<closed, req, ch>>

\* Unlock that closes the channel and leaves the entry in the map.
UnlockKeepEntry(g) ==
    /\ pc[g] = "held"
    /\ closed' = closed \union {waiters[req[g]]}
    /\ pc' = [pc EXCEPT ![g] = "idle"]
    /\ UNCHANGED <<waiters, req, ch>>

-----------------------------------------------------------------------------
\* A goroutine calls lock(k).
Call(g, k) ==
    /\ pc[g] = "idle"
    /\ pc' = [pc EXCEPT ![g] = "lock"]
    /\ req' = [req EXCEPT ![g] = k]
    /\ UNCHANGED <<waiters, closed, ch>>

\* The key has no entry: make its channel and own the key.
Claim(g) ==
    /\ pc[g] = "lock"
    /\ waiters[req[g]] = NoChan
    /\ \E c \in Chans :
          /\ ~Referenced(c)
          /\ waiters' = [waiters EXCEPT ![req[g]] = c]
          /\ closed' = closed \ {c}
    /\ pc' = [pc EXCEPT ![g] = "held"]
    /\ UNCHANGED <<req, ch>>

\* The key has an entry: take its channel and block on it.
Queue(g) ==
    /\ pc[g] = "lock"
    /\ waiters[req[g]] # NoChan
    /\ ch' = [ch EXCEPT ![g] = waiters[req[g]]]
    /\ pc' = [pc EXCEPT ![g] = "wait"]
    /\ UNCHANGED <<waiters, closed, req>>

\* The receive returns because the channel is closed: look at the map again.
Wake(g) ==
    /\ pc[g] = "wait"
    /\ ch[g] \in closed
    /\ pc' = [pc EXCEPT ![g] = "lock"]
    /\ ch' = [ch EXCEPT ![g] = NoChan]
    /\ UNCHANGED <<waiters, closed, req>>

\* Close the channel of the key and drop the entry.
Unlock(g) ==
    /\ pc[g] = "held"
    /\ closed' = closed \union {waiters[req[g]]}
    /\ waiters' = [waiters EXCEPT ![req[g]] = NoChan]
    /\ pc' = [pc EXCEPT ![g] = "idle"]
    /\ UNCHANGED <<req, ch>>

Next ==
    \E g \in Procs :
        \/ \E k \in Keys : Call(g, k)
        \/ Claim(g)
        \/ Queue(g)
        \/ Wake(g)
        \/ Unlock(g)

Spec == Init /\ [][Next]_vars

\* A goroutine that can run does run, and every holder unlocks: the callers
\* release by defer.  Nothing obliges a goroutine to call lock.
Fairness ==
    \A g \in Procs : WF_vars(Claim(g) \/ Queue(g) \/ Wake(g) \/ Unlock(g))

FairSpec == Spec /\ Fairness

-----------------------------------------------------------------------------
Holds(g, k) == pc[g] = "held" /\ req[g] = k

\* No two goroutines are between lock and unlock of one key, although a
\* woken waiter and a newcomer race for the entry.
MutualExclusion ==
    \A g, h \in Procs : pc[g] = "held" /\ pc[h] = "held" /\ req[g] = req[h] => g = h

\* A blocked goroutine is never forgotten: its channel is closed already, or
\* it is the channel in the map that the holder of the key will close.
NoLostWakeup ==
    \A g \in Procs : pc[g] = "wait" =>
        /\ ch[g] # NoChan
        /\ ch[g] \in closed \/ waiters[req[g]] = ch[g]

\* What makes the two inductive: an entry means a holder and the other way
\* round, an entry's channel is open, and two entries never share a channel.
EntryMeansHeld ==
    /\ \A k \in Keys : waiters[k] # NoChan <=> \E g \in Procs : Holds(g, k)
    /\ \A k \in Keys : waiters[k] \notin closed
    /\ \A k, l \in Keys : waiters[k] = waiters[l] /\ waiters[k] # NoChan => k = l

IInv == TypeOK /\ MutualExclusion /\ NoLostWakeup /\ EntryMeansHeld

\* Whoever blocks in lock is woken, however the others call and unlock.
WaiterWoken == \A g \in Procs : pc[g] = "wait" ~> pc[g] = "lock"

\* The locker is a mutex per key.
Mutex ==
    INSTANCE KeyedMutex WITH
        holders <- [k \in Keys |-> {g \in Procs : Holds(g, k)}]

\* The waiters map implements the keyed mutex of KeyedMutex.tla: a key is
\* taken only when no goroutine holds it, and given back only by its holder.
ImplementsKeyedMutex == Mutex!Spec
=============================================================================
