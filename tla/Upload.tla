------------------------------- MODULE Upload -------------------------------
(***************************************************************************)
(* FS.Upload of objs.go.  The call checks that the file can be locked for  *)
(* writing and that nobody has it open, and unlocks it again before it     *)
(* waits for its task: uploadLock is declared and never set.  So           *)
(* runUploadTask reads the file four times (statClean, hash, deflate test, *)
(* encode) and writes its metadata, all without fs.mtx and without a lock  *)
(* of the path, under the locks of the object and of its bucket.           *)
(***************************************************************************)
EXTENDS FileSystem

\* FS.Upload, the section under fs.mtx.
UploadCall(c, p, e) ==
    /\ Begin(c)
    /\ mtx = NoClient
    /\ Exists(p)
    /\ CanWLock(p) /\ Unreferenced(p)
    /\ call' = [call EXCEPT ![c] = [Idle EXCEPT !.pc = "uploadStat", !.path = p, !.scheme = e]]
    /\ UNCHANGED <<disk, locks, task, handle, now>>

Uploading(c, step) == call[c].pc = step

\* An error before the task owns an object: there is no such file, or it has
\* no data, or the file cannot be read.
UploadQuits(c) ==
    /\ call[c].pc \in {"uploadStat", "uploadHash"}
    /\ Return(c)
    /\ UNCHANGED <<disk, locks, task, handle, now, left>>

\* An error once it owns an object and its bucket, but for those of the two
\* writes: the data is gone or cannot be read, the work directory cannot be
\* written, the engine refuses, or a file cannot be opened to be written.
UploadFails(c) ==
    /\ call[c].pc \in {"uploadPlan", "uploadEncode", "uploadTransfer", "uploadTruncate",
                       "uploadTruncateMeta"}
    /\ Return(c)
    /\ ReleaseObject(c, call[c].obj)
    /\ UNCHANGED <<disk, mtx, task, handle, now, left>>

-----------------------------------------------------------------------------
\* statClean at the start of the task: size and mtime are kept to the end.
UploadStat(c) ==
    /\ Uploading(c, "uploadStat")
    /\ LET p == call[c].path
       IN  /\ Exists(p) /\ Present(p)
           /\ call' = [call EXCEPT ![c] = [@ EXCEPT !.pc = "uploadHash",
                          !.size = Size[data[p].content], !.mtime = data[p].mtime]]
    /\ UNCHANGED <<disk, locks, task, handle, now, left>>

\* Faulty variant of UploadHash: the file is never copied to the hasher.
UploadHashNonceOnly(c) ==
    /\ Uploading(c, "uploadHash")
    /\ LET p == call[c].path
       IN  /\ Present(p)
           /\ call' = [call EXCEPT ![c] = [@ EXCEPT !.pc = "uploadLock",
                          !.obj = <<call[c].nonce, Empty>>]]
    /\ UNCHANGED <<disk, locks, task, handle, now, left>>

\* Hash the nonce and the file.
UploadHash(c) ==
    /\ Uploading(c, "uploadHash")
    /\ LET p == call[c].path
       IN  /\ Present(p)
           /\ call' = [call EXCEPT ![c] = [@ EXCEPT !.pc = "uploadLock",
                          !.obj = <<call[c].nonce, data[p].content>>]]
    /\ UNCHANGED <<disk, locks, task, handle, now, left>>

UploadLock(c) ==
    /\ Uploading(c, "uploadLock")
    /\ OL!Acquire(c, call[c].obj)
    /\ call' = [call EXCEPT ![c] = [@ EXCEPT !.pc = "uploadMatch"]]
    /\ UNCHANGED <<disk, mtx, bl, task, handle, now, left>>

\* Faulty variant of LoadBucket: start from an empty bucket.
LoadNoBucket(b) == NoBucketFile

\* The bucket file as it is loaded, with a record for the object.
LoadBucket(b) == [id \in ObjIds |-> IF BucketOf[id] = b THEN objs[id] ELSE NoRecord]
NewRecord(sz, n) == [size |-> sz, nonce |-> n, at |-> [s \in Schemes |-> NoContent]]

\* The record under this identifier is of another object.
Collides(id, n, sz) == objs[id] # NoRecord /\ (objs[id].nonce # n \/ objs[id].size # sz)

\* Faulty variant of UploadOccupy: an empty bucket file is an empty bucket.
UploadOccupyEmptied(c) ==
    LET id == call[c].obj
        loaded == LoadBucket(BucketOf[id])
    IN  /\ Uploading(c, "uploadMatch")
        /\ ~Collides(id, call[c].nonce, call[c].size)
        /\ BL!Acquire(c, BucketOf[id])
        /\ call' = [call EXCEPT ![c] = [@ EXCEPT !.pc = "uploadPlan", !.bkt =
               IF loaded[id] = NoRecord
               THEN [loaded EXCEPT ![id] = NewRecord(call[c].size, call[c].nonce)]
               ELSE loaded]]
        /\ UNCHANGED <<disk, mtx, ol, task, handle, now, left>>

\* Faulty variant of UploadOccupy: no bucket lock.
UploadOccupyUnlocked(c) ==
    LET id == call[c].obj
        loaded == LoadBucket(BucketOf[id])
    IN  /\ Uploading(c, "uploadMatch")
        /\ BucketOf[id] \notin torn
        /\ ~Collides(id, call[c].nonce, call[c].size)
        /\ call' = [call EXCEPT ![c] = [@ EXCEPT !.pc = "uploadPlan", !.bkt =
               IF loaded[id] = NoRecord
               THEN [loaded EXCEPT ![id] = NewRecord(call[c].size, call[c].nonce)]
               ELSE loaded]]
        /\ UNCHANGED <<disk, mtx, ol, bl, task, handle, now, left>>

\* Lock and load the bucket; occupy the identifier.
UploadOccupy(c) ==
    LET id == call[c].obj
        b == BucketOf[id]
        loaded == LoadBucket(b)
    IN  /\ Uploading(c, "uploadMatch")
        /\ b \notin torn
        /\ ~Collides(id, call[c].nonce, call[c].size)
        /\ BL!Acquire(c, b)
        /\ call' = [call EXCEPT ![c] = [@ EXCEPT !.pc = "uploadPlan", !.bkt =
               IF loaded[id] = NoRecord
               THEN [loaded EXCEPT ![id] = NewRecord(call[c].size, call[c].nonce)]
               ELSE loaded]]
        /\ UNCHANGED <<disk, mtx, ol, task, handle, now, left>>

\* Collision: give both locks back and hash again with the next nonce.
UploadNextNonce(c) ==
    LET id == call[c].obj
    IN  /\ Uploading(c, "uploadMatch")
        /\ BucketOf[id] \notin torn /\ bl[BucketOf[id]] = {}
        /\ Collides(id, call[c].nonce, call[c].size)
        /\ call[c].nonce < MaxNonce
        /\ OL!Release(c, id)
        /\ call' = [call EXCEPT ![c] = [@ EXCEPT !.pc = "uploadHash", !.obj = NoObj,
                                                 !.nonce = call[c].nonce + 1]]
        /\ UNCHANGED <<disk, mtx, bl, task, handle, now, left>>

\* The bucket file cannot be read, or does not load.
UploadLoadFails(c) ==
    /\ Uploading(c, "uploadMatch")
    /\ bl[BucketOf[call[c].obj]] = {}
    /\ OL!Release(c, call[c].obj)
    /\ Return(c)
    /\ UNCHANGED <<disk, mtx, bl, task, handle, now, left>>

-----------------------------------------------------------------------------
Storages(c) == {s \in Schemes : call[c].bkt[call[c].obj].at[s] # NoContent}

\* With no storage yet, a second read of the file decides whether the object
\* is kept inline: by its size, taken at the start, or its deflated size.
UploadPlan(c) ==
    LET p == call[c].path
        Next(step, inline) ==
            /\ call' = [call EXCEPT ![c] = [@ EXCEPT !.pc = step, !.inline = inline]]
            /\ UNCHANGED <<disk, locks, task, handle, now, left>>
    IN  /\ Uploading(c, "uploadPlan")
        /\ \/ /\ Storages(c) = {} /\ Present(p)
              /\ Next("uploadEncode", \/ call[c].size <= InlineMaxSize
                                      \/ /\ Flate[data[p].content] < call[c].size
                                         /\ Flate[data[p].content] <= InlineMaxSize)
           \/ Base64 \in Storages(c) /\ Next("uploadTruncate", TRUE)
           \/ Storages(c) # {} /\ Base64 \notin Storages(c) /\ Next("uploadEncode", FALSE)

\* Storage s of the object now holds b.
Stored(bkt, id, s, b) == [bkt EXCEPT ![id].at[s] = b]

\* A third read of the file is what gets stored.
UploadEncode(c) ==
    LET p == call[c].path
        id == call[c].obj
    IN  /\ Uploading(c, "uploadEncode")
        /\ Present(p)
        /\ call' = [call EXCEPT ![c] =
               IF call[c].inline
               THEN [@ EXCEPT !.pc = "uploadTruncate",
                              !.bkt = Stored(call[c].bkt, id, Base64, data[p].content)]
               ELSE [@ EXCEPT !.pc = "uploadTransfer", !.enc = data[p].content]]
        /\ UNCHANGED <<disk, locks, task, handle, now, left>>

\* Faulty variant of UploadTransfer: the metadata is saved before the bucket.
UploadTransferNoBucket(c) ==
    /\ Uploading(c, "uploadTransfer")
    /\ call' = [call EXCEPT ![c] = [@ EXCEPT !.pc = "uploadTruncateMeta", !.enc = NoContent]]
    /\ UNCHANGED <<disk, locks, task, handle, now, left>>

\* Engine.Upload (engine/host/disk.go) gives back the old URI if the blob there
\* has as many bytes, as it has for the same content, or the URI of a new blob.
UploadResults(old, new) == IF old = NoContent THEN {new} ELSE {old, new}

UploadTransfer(c) ==
    LET id == call[c].obj
        e == call[c].scheme
        old == call[c].bkt[id].at[e]
    IN  /\ Uploading(c, "uploadTransfer")
        /\ \E b \in UploadResults(old, call[c].enc) :
              call' = [call EXCEPT ![c] =
                  [@ EXCEPT !.pc = "uploadTruncate", !.enc = NoContent,
                            !.bkt = Stored(call[c].bkt, id, e, b)]]
        /\ UNCHANGED <<disk, locks, task, handle, now, left>>

\* os.WriteFile of the bucket file empties it, then writes it.
UploadTruncateBucket(c) ==
    /\ Uploading(c, "uploadTruncate")
    /\ torn' = torn \union {BucketOf[call[c].obj]}
    /\ call' = [call EXCEPT ![c] = [@ EXCEPT !.pc = "uploadBucket"]]
    /\ UNCHANGED <<meta, data, objs, locks, task, handle, now, left>>

UploadWriteBucket(c) ==
    LET b == BucketOf[call[c].obj]
    IN  /\ Uploading(c, "uploadBucket")
        /\ objs' = [id \in ObjIds |-> IF BucketOf[id] = b THEN call[c].bkt[id] ELSE objs[id]]
        /\ torn' = torn \ {b}
        /\ call' = [call EXCEPT ![c] = [@ EXCEPT !.pc = "uploadTruncateMeta"]]
        /\ UNCHANGED <<meta, data, locks, task, handle, now, left>>

\* The write fails: the file stays empty, or has a part that does not load.
\* The records are gone, and the locks are given back.
UploadWriteBucketFails(c) ==
    LET b == BucketOf[call[c].obj]
    IN  /\ Uploading(c, "uploadBucket")
        /\ objs' = [id \in ObjIds |-> IF BucketOf[id] = b THEN NoRecord ELSE objs[id]]
        /\ torn' = torn \union {b}
        /\ Return(c)
        /\ ReleaseObject(c, call[c].obj)
        /\ UNCHANGED <<meta, data, mtx, task, handle, now, left>>

\* os.WriteFile of the metadata file, likewise, and the return of the task:
\* the object, and the mtime of the file when the task started.
UploadTruncateMeta(c) ==
    /\ Uploading(c, "uploadTruncateMeta")
    /\ meta' = [meta EXCEPT ![call[c].path] = TornMeta]
    /\ call' = [call EXCEPT ![c] = [@ EXCEPT !.pc = "uploadMeta"]]
    /\ UNCHANGED <<data, objs, torn, locks, task, handle, now, left>>

\* Faulty variant of UploadWriteMeta: the time of the upload is recorded.
UploadWriteMetaNow(c) ==
    /\ Uploading(c, "uploadMeta")
    /\ meta' = [meta EXCEPT ![call[c].path] = [obj |-> call[c].obj, mtime |-> now]]
    /\ Return(c)
    /\ ReleaseObject(c, call[c].obj)
    /\ UNCHANGED <<data, objs, torn, mtx, task, handle, now, left>>

UploadWriteMeta(c) ==
    /\ Uploading(c, "uploadMeta")
    /\ meta' = [meta EXCEPT ![call[c].path] = [obj |-> call[c].obj, mtime |-> call[c].mtime]]
    /\ Return(c)
    /\ ReleaseObject(c, call[c].obj)
    /\ UNCHANGED <<data, objs, torn, mtx, task, handle, now, left>>

\* The write fails: the metadata file stays empty.
UploadWriteMetaFails(c) ==
    /\ Uploading(c, "uploadMeta")
    /\ Return(c)
    /\ ReleaseObject(c, call[c].obj)
    /\ UNCHANGED <<disk, mtx, task, handle, now, left>>

UploadStep(c) ==
    \/ UploadStat(c) \/ UploadHash(c) \/ UploadQuits(c) \/ UploadLock(c)
    \/ UploadOccupy(c) \/ UploadNextNonce(c) \/ UploadLoadFails(c)
    \/ UploadPlan(c) \/ UploadEncode(c) \/ UploadTransfer(c) \/ UploadFails(c)
    \/ UploadTruncateBucket(c) \/ UploadWriteBucket(c) \/ UploadWriteBucketFails(c)
    \/ UploadTruncateMeta(c) \/ UploadWriteMeta(c) \/ UploadWriteMetaFails(c)
=============================================================================
