-------------------------------- MODULE Evict --------------------------------
(***************************************************************************)
(* FS.Evict of objs.go: drop the local data of a file that the object      *)
(* storage has.  The whole call holds fs.mtx, also while it waits for the  *)
(* lock of the object.  It does not take the lock of the bucket.           *)
(***************************************************************************)
EXTENDS FileSystem

\* Faulty variant of EvictCall: CurrentRefs is not looked at.
EvictCallInUse(c, p) ==
    /\ Begin(c)
    /\ mtx = NoClient
    /\ Exists(p) /\ Present(p) /\ meta[p].obj # NoObj
    /\ meta[p].mtime = data[p].mtime
    /\ CanWLock(p)
    /\ mtx' = c
    /\ call' = [call EXCEPT ![c] = [Idle EXCEPT !.pc = "evictLock", !.path = p,
                                                !.lock = "W", !.obj = meta[p].obj]]
    /\ UNCHANGED <<disk, ol, bl, task, handle, now>>

\* Everything that is checked before the object is locked.  A call that has
\* nothing to do, or may not touch the file, changes nothing.
EvictCall(c, p) ==
    /\ Begin(c)
    /\ mtx = NoClient
    /\ Exists(p) /\ Present(p) /\ meta[p].obj # NoObj
    /\ meta[p].mtime = data[p].mtime
    /\ CanWLock(p) /\ Unreferenced(p)
    /\ mtx' = c
    /\ call' = [call EXCEPT ![c] = [Idle EXCEPT !.pc = "evictLock", !.path = p,
                                                !.lock = "W", !.obj = meta[p].obj]]
    /\ UNCHANGED <<disk, ol, bl, task, handle, now>>

Evicting(c, step) == call[c].pc = step

\* Deferred: unlock the object and the path, leave fs.mtx.
EvictReturn(c) ==
    /\ OL!Release(c, call[c].obj)
    /\ mtx' = NoClient
    /\ Return(c)

EvictLock(c) ==
    /\ Evicting(c, "evictLock")
    /\ OL!Acquire(c, call[c].obj)
    /\ call' = [call EXCEPT ![c] = [@ EXCEPT !.pc = "evictLoad"]]
    /\ UNCHANGED <<disk, mtx, bl, task, handle, now, left>>

\* The bucket has the object.  The file may be being written: what is there
\* of it may already include the record.
EvictLoad(c) ==
    /\ Evicting(c, "evictLoad")
    /\ objs[call[c].obj] # NoRecord
    /\ call' = [call EXCEPT ![c] = [@ EXCEPT !.pc = "evictHash",
                                             !.nonce = objs[call[c].obj].nonce]]
    /\ UNCHANGED <<disk, locks, task, handle, now, left>>

\* The bucket does not load, or does not have the object.
EvictLoadFails(c) ==
    /\ Evicting(c, "evictLoad")
    /\ objs[call[c].obj] = NoRecord \/ BucketOf[call[c].obj] \in torn
    /\ EvictReturn(c)
    /\ UNCHANGED <<disk, bl, task, handle, now, left>>

\* Faulty variant of EvictHash: equal mtimes are trusted.
EvictTrustingTime(c) ==
    /\ Evicting(c, "evictHash")
    /\ call' = [call EXCEPT ![c] = [@ EXCEPT !.pc = "evictRemove"]]
    /\ UNCHANGED <<disk, locks, task, handle, now, left>>

\* Only a file with the hash of the object is dropped.
EvictHash(c) ==
    /\ Evicting(c, "evictHash")
    /\ \/ /\ <<call[c].nonce, data[call[c].path].content>> = call[c].obj
          /\ call' = [call EXCEPT ![c] = [@ EXCEPT !.pc = "evictRemove"]]
          /\ UNCHANGED <<mtx, ol>>
       \/ /\ <<call[c].nonce, data[call[c].path].content>> # call[c].obj
          /\ EvictReturn(c)
    /\ UNCHANGED <<disk, bl, task, handle, now, left>>

EvictRemove(c) ==
    /\ Evicting(c, "evictRemove")
    /\ data' = [data EXCEPT ![call[c].path] = NoData]
    /\ EvictReturn(c)
    /\ UNCHANGED <<meta, objs, torn, bl, task, handle, now, left>>

EvictStep(c) ==
    \/ EvictLock(c) \/ EvictLoad(c) \/ EvictLoadFails(c) \/ EvictHash(c) \/ EvictRemove(c)
=============================================================================
