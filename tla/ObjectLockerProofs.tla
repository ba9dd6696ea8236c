------------------------- MODULE ObjectLockerProofs -------------------------
(***************************************************************************)
(* The keyed lock of objs.go is a mutex for every set of goroutines, keys  *)
(* and channels, and never forgets a waiter.                               *)
(***************************************************************************)
EXTENDS ObjectLocker, TLAPS

LEMMA InitIInv == Init => IInv
BY NoChanAssumption DEF Init, IInv, TypeOK, MutualExclusion, NoLostWakeup, EntryMeansHeld, Holds

LEMMA CallIInv ==
    ASSUME IInv, NEW g \in Procs, NEW k \in Keys, Call(g, k)
    PROVE  IInv'
<1> USE DEF Call
<1>1. TypeOK'
  BY DEF IInv, TypeOK
<1>2. MutualExclusion' /\ NoLostWakeup'
  BY DEF IInv, TypeOK, MutualExclusion, NoLostWakeup
<1>3. EntryMeansHeld'
  <2>1. ASSUME NEW h \in Procs, NEW l \in Keys PROVE Holds(h, l)' <=> Holds(h, l)
    BY DEF IInv, TypeOK, Holds
  <2>2. QED
    BY <2>1 DEF IInv, TypeOK, EntryMeansHeld
<1>4. QED
  BY <1>1, <1>2, <1>3 DEF IInv

LEMMA ClaimIInv ==
    ASSUME IInv, NEW g \in Procs, Claim(g)
    PROVE  IInv'
<1> PICK c \in Chans :
        /\ ~Referenced(c)
        /\ waiters' = [waiters EXCEPT ![req[g]] = c]
        /\ closed' = closed \ {c}
  BY DEF Claim
<1>1. c # NoChan /\ req[g] \in Keys
  BY NoChanAssumption DEF IInv, TypeOK
<1>2. TypeOK'
  BY DEF Claim, IInv, TypeOK
<1>3. \A h \in Procs : pc[h] = "held" => req[h] # req[g]
  BY <1>1 DEF Claim, IInv, TypeOK, EntryMeansHeld, Holds
<1>4. MutualExclusion'
  BY <1>3 DEF Claim, IInv, TypeOK, MutualExclusion
<1>5. NoLostWakeup'
  \* Nobody waits on c, and nobody waits for the key that had no entry but
  \* on a channel that is closed.
  BY <1>1 DEF Claim, IInv, TypeOK, NoLostWakeup, Referenced
<1>6. EntryMeansHeld'
  <2>1. ASSUME NEW h \in Procs, NEW l \in Keys
        PROVE  Holds(h, l)' <=> Holds(h, l) \/ (h = g /\ l = req[g])
    BY DEF Claim, IInv, TypeOK, Holds
  <2>2. \A k \in Keys : waiters'[k] = IF k = req[g] THEN c ELSE waiters[k]
    BY <1>1 DEF IInv, TypeOK
  <2>3. (\A k \in Keys : waiters[k] # NoChan <=> \E h \in Procs : Holds(h, k))'
    BY <1>1, <2>1, <2>2 DEF IInv, TypeOK, EntryMeansHeld
  <2>4. (\A k \in Keys : waiters[k] \notin closed)'
    BY <2>2 DEF IInv, TypeOK, EntryMeansHeld
  <2>5. (\A k, l \in Keys : waiters[k] = waiters[l] /\ waiters[k] # NoChan => k = l)'
    BY <2>2 DEF IInv, TypeOK, EntryMeansHeld, Referenced
  <2>6. QED
    BY <2>3, <2>4, <2>5 DEF EntryMeansHeld
<1>7. QED
  BY <1>2, <1>4, <1>5, <1>6 DEF IInv

LEMMA QueueIInv ==
    ASSUME IInv, NEW g \in Procs, Queue(g)
    PROVE  IInv'
<1> USE DEF Queue
<1>1. TypeOK'
  BY DEF IInv, TypeOK
<1>2. MutualExclusion' /\ NoLostWakeup'
  BY DEF IInv, TypeOK, MutualExclusion, NoLostWakeup
<1>3. EntryMeansHeld'
  <2>1. ASSUME NEW h \in Procs, NEW l \in Keys PROVE Holds(h, l)' <=> Holds(h, l)
    BY DEF IInv, TypeOK, Holds
  <2>2. QED
    BY <2>1 DEF IInv, TypeOK, EntryMeansHeld
<1>4. QED
  BY <1>1, <1>2, <1>3 DEF IInv

LEMMA WakeIInv ==
    ASSUME IInv, NEW g \in Procs, Wake(g)
    PROVE  IInv'
<1> USE DEF Wake
<1>1. TypeOK'
  BY DEF IInv, TypeOK
<1>2. MutualExclusion' /\ NoLostWakeup'
  BY DEF IInv, TypeOK, MutualExclusion, NoLostWakeup
<1>3. EntryMeansHeld'
  <2>1. ASSUME NEW h \in Procs, NEW l \in Keys PROVE Holds(h, l)' <=> Holds(h, l)
    BY DEF IInv, TypeOK, Holds
  <2>2. QED
    BY <2>1 DEF IInv, TypeOK, EntryMeansHeld
<1>4. QED
  BY <1>1, <1>2, <1>3 DEF IInv

LEMMA UnlockIInv ==
    ASSUME IInv, NEW g \in Procs, Unlock(g)
    PROVE  IInv'
<1>1. req[g] \in Keys /\ Holds(g, req[g])
  BY DEF Unlock, IInv, TypeOK, Holds
<1>2. waiters[req[g]] \in Chans
  BY <1>1 DEF IInv, TypeOK, EntryMeansHeld
<1>3. TypeOK'
  BY <1>2 DEF Unlock, IInv, TypeOK
<1>4. MutualExclusion'
  BY DEF Unlock, IInv, TypeOK, MutualExclusion
<1>5. NoLostWakeup'
  \* A waiter for the key holds the channel that is being closed.
  BY <1>1 DEF Unlock, IInv, TypeOK, NoLostWakeup
<1>6. EntryMeansHeld'
  <2>1. ASSUME NEW h \in Procs, NEW l \in Keys
        PROVE  Holds(h, l)' <=> Holds(h, l) /\ l # req[g]
    BY DEF Unlock, IInv, TypeOK, MutualExclusion, Holds
  <2>2. \A k \in Keys : waiters'[k] = IF k = req[g] THEN NoChan ELSE waiters[k]
    BY <1>1 DEF Unlock, IInv, TypeOK
  <2>3. closed' = closed \union {waiters[req[g]]} /\ NoChan \notin closed'
    BY <1>2, NoChanAssumption DEF Unlock, IInv, TypeOK
  <2>4. (\A k \in Keys : waiters[k] # NoChan <=> \E h \in Procs : Holds(h, k))'
    BY <2>1, <2>2 DEF IInv, EntryMeansHeld
  <2>5. (\A k \in Keys : waiters[k] \notin closed)'
    BY <1>1, <1>2, <2>2, <2>3, NoChanAssumption DEF IInv, EntryMeansHeld
  <2>6. (\A k, l \in Keys : waiters[k] = waiters[l] /\ waiters[k] # NoChan => k = l)'
    BY <2>2 DEF IInv, EntryMeansHeld
  <2>7. QED
    BY <2>4, <2>5, <2>6 DEF EntryMeansHeld
<1>7. QED
  BY <1>3, <1>4, <1>5, <1>6 DEF IInv

LEMMA StutterIInv == IInv /\ UNCHANGED vars => IInv'
BY DEF IInv, TypeOK, MutualExclusion, NoLostWakeup, EntryMeansHeld, Holds, vars

LEMMA NextIInv == IInv /\ [Next]_vars => IInv'
<1> SUFFICES ASSUME IInv, [Next]_vars PROVE IInv'
  OBVIOUS
<1>1. ASSUME NEW g \in Procs, NEW k \in Keys, Call(g, k) PROVE IInv'
  BY <1>1, CallIInv
<1>2. ASSUME NEW g \in Procs, Claim(g) PROVE IInv'
  BY <1>2, ClaimIInv
<1>3. ASSUME NEW g \in Procs, Queue(g) PROVE IInv'
  BY <1>3, QueueIInv
<1>4. ASSUME NEW g \in Procs, Wake(g) PROVE IInv'
  BY <1>4, WakeIInv
<1>5. ASSUME NEW g \in Procs, Unlock(g) PROVE IInv'
  BY <1>5, UnlockIInv
<1>6. CASE UNCHANGED vars
  BY <1>6, StutterIInv
<1>7. QED
  BY <1>1, <1>2, <1>3, <1>4, <1>5, <1>6 DEF Next

LEMMA SpecIInv == Spec => []IInv
<1>1. Init => IInv
  BY InitIInv
<1>2. IInv /\ [Next]_vars => IInv'
  BY NextIInv
<1>3. QED
  BY <1>1, <1>2, PTL DEF Spec

-----------------------------------------------------------------------------
\* The variables keep their types (objs.go:28-43).
THEOREM LockerTypeCorrect == Spec => []TypeOK
BY SpecIInv, PTL DEF IInv

\* objectLocker.lock excludes: two goroutines are never both past lock(id)
\* for one id, whatever the number of waiters and however unlock and a
\* newcomer's lock interleave (objs.go:45-77).
THEOREM LockerMutualExclusion == Spec => []MutualExclusion
BY SpecIInv, PTL DEF IInv

\* A goroutine blocked on a channel is blocked on a channel that is closed, or
\* on the one the present holder of its key will close (objs.go:47-62, 70-76).
THEOREM LockerNoLostWakeup == Spec => []NoLostWakeup
BY SpecIInv, PTL DEF IInv

-----------------------------------------------------------------------------
Owners(k) == {g \in Procs : Holds(g, k)}

LEMMA OwnersAtMostOne ==
    ASSUME IInv, NEW g \in Procs, NEW k \in Keys, Holds(g, k)
    PROVE  Owners(k) = {g}
BY DEF IInv, MutualExclusion, Holds, Owners

LEMMA OwnersUnchanged ==
    ASSUME IInv, UNCHANGED req,
           \A g \in Procs : pc'[g] = "held" <=> pc[g] = "held"
    PROVE  UNCHANGED [k \in Keys |-> Owners(k)]
<1>1. ASSUME NEW k \in Keys PROVE Owners(k)' = Owners(k)
  BY DEF Owners, Holds
<1>2. QED
  BY <1>1

\* Every step of the locker is a step of the keyed mutex, or leaves its
\* holders alone: acquiring finds no holder, releasing is by the holder.
THEOREM LockerImplementsKeyedMutex == Spec => ImplementsKeyedMutex
<1> DEFINE owners == [k \in Keys |-> Owners(k)]
<1>1. Init => Mutex!Init
  BY DEF Init, Mutex!Init, Holds
<1>2. IInv /\ [Next]_vars => [Mutex!Next]_owners
  <2> SUFFICES ASSUME IInv, [Next]_vars
               PROVE  Mutex!Next \/ UNCHANGED owners
    OBVIOUS
  <2>1. ASSUME NEW g \in Procs, NEW k \in Keys, Call(g, k) PROVE UNCHANGED owners
    <3>1. ASSUME NEW l \in Keys PROVE Owners(l)' = Owners(l)
      BY <2>1 DEF Call, Owners, Holds, IInv, TypeOK
    <3>2. QED
      BY <3>1
  <2>2. ASSUME NEW g \in Procs, Claim(g) PROVE Mutex!Next
    <3>1. req[g] \in Keys
      BY DEF IInv, TypeOK
    <3>2. Owners(req[g]) = {}
      BY <2>2, <3>1 DEF Claim, IInv, EntryMeansHeld, Owners
    <3>3. ASSUME NEW l \in Keys
          PROVE  Owners(l)' = IF l = req[g] THEN {g} ELSE Owners(l)
      BY <2>2, <3>2 DEF Claim, Owners, Holds, IInv, TypeOK
    <3>4. owners' = [owners EXCEPT ![req[g]] = {g}]
      BY <3>3
    <3>5. Mutex!Acquire(g, req[g])
      BY <3>1, <3>2, <3>4 DEF Mutex!Acquire, Owners
    <3>6. QED
      BY <3>1, <3>5 DEF Mutex!Next
  <2>3. ASSUME NEW g \in Procs, Queue(g) PROVE UNCHANGED owners
    BY <2>3, OwnersUnchanged DEF Queue, IInv, TypeOK
  <2>4. ASSUME NEW g \in Procs, Wake(g) PROVE UNCHANGED owners
    BY <2>4, OwnersUnchanged DEF Wake, IInv, TypeOK
  <2>5. ASSUME NEW g \in Procs, Unlock(g) PROVE Mutex!Next
    <3>1. req[g] \in Keys /\ Holds(g, req[g])
      BY <2>5 DEF Unlock, IInv, TypeOK, Holds
    <3>2. Owners(req[g]) = {g}
      BY <3>1, OwnersAtMostOne
    <3>3. ASSUME NEW l \in Keys
          PROVE  Owners(l)' = IF l = req[g] THEN {} ELSE Owners(l)
      BY <2>5, <3>2 DEF Unlock, Owners, Holds, IInv, TypeOK
    <3>4. owners' = [owners EXCEPT ![req[g]] = {}]
      BY <3>3
    <3>5. Mutex!Release(g, req[g])
      BY <3>1, <3>2, <3>4 DEF Mutex!Release, Owners
    <3>6. QED
      BY <3>1, <3>5 DEF Mutex!Next
  <2>6. CASE UNCHANGED vars
    BY <2>6, OwnersUnchanged DEF vars
  <2>7. QED
    BY <2>1, <2>2, <2>3, <2>4, <2>5, <2>6 DEF Next
<1>3. [Mutex!Next]_owners <=> [Mutex!Next]_([k \in Keys |-> {g \in Procs : Holds(g, k)}])
  BY DEF Owners
<1>4. QED
  BY <1>1, <1>2, <1>3, SpecIInv, PTL DEF Spec, ImplementsKeyedMutex, Mutex!Spec
=============================================================================
