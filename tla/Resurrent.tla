------------------------------ MODULE Resurrent ------------------------------
(***************************************************************************)
(* One FS and the goroutines that call it, any call at any time: what the  *)
(* package offers to a program that embeds it.  Module Commands restricts  *)
(* the calls to those the command line and the mount make.                 *)
(***************************************************************************)
EXTENDS Upload, Evict, Files

CONSTANT OpenFlags      \* the flags files are opened with

ASSUME FlagAssumption == OpenFlags \subseteq Flags

\* The steps of calls and tasks under way.
Progress ==
    \/ \E c \in Clients :
          \/ UploadStep(c) \/ EvictStep(c)
          \/ DownloadReturn(c) \/ OpenFileAgain(c)
    \/ \E k \in TaskKeys : TaskStep(k)

FileCall(c) ==
    \/ \E p \in Paths :
          \/ \E f \in OpenFlags : OpenFile(c, p, f) \/ OpenFileDownloads(c, p, f)
          \/ Remove(c, p)
          \/ \E t \in Paths : Rename(c, p, t) \/ RenameFails(c, p, t)
    \/ Write(c)
    \/ Close(c)

StorageCall(c) ==
    \E p \in Paths :
        \/ \E e \in Engines : UploadCall(c, p, e)
        \/ DownloadCall(c, p)
        \/ EvictCall(c, p)

\* All calls have returned and all files are closed: the system may stop, or
\* make calls that change nothing.
Quiet ==
    /\ \A c \in Clients : call[c] = Idle /\ handle[c] = NoHandle
    /\ \A k \in TaskKeys : task[k] = NoTask
    /\ UNCHANGED vars

Next == Progress \/ (\E c \in Clients : FileCall(c) \/ StorageCall(c)) \/ Quiet

Spec == Init /\ [][Next]_vars

\* Go never leaves every goroutine that can run unscheduled: while a call or
\* a task can go on, one of them does.  This is less than the scheduler gives
\* (each goroutine runs in the end), and with the calls bounded it is enough.
\* Nothing makes a client call, or close a file.
Fairness == WF_vars(Progress)

FairSpec == Spec /\ Fairness

-----------------------------------------------------------------------------
\* The steps of an upload that own the object, and those that own the bucket.
OwnsBucketAt == {"uploadPlan", "uploadEncode", "uploadTransfer", "uploadTruncate",
                 "uploadBucket", "uploadTruncateMeta", "uploadMeta"}
OwnsObjectAt == OwnsBucketAt \union {"uploadMatch"} \union {"evictLoad", "evictHash", "evictRemove"}
TaskOwnsBucketAt == {"inline", "inlineWrite", "inlineTime", "fetch", "move"}
TaskOwnsObjectAt == TaskOwnsBucketAt \union {"bucket"}

ClientLocks(c) ==
    /\ call[c].pc \in OwnsObjectAt => ol[call[c].obj] = {c}
    /\ call[c].pc \in OwnsBucketAt => bl[BucketOf[call[c].obj]] = {c}

TaskLocks(k) ==
    task[k] # NoTask =>
        /\ task[k].step \in TaskOwnsObjectAt => ol[k[2]] = {k}
        /\ task[k].step \in TaskOwnsBucketAt => bl[BucketOf[k[2]]] = {k}

Writes(c, b) == call[c].pc = "uploadBucket" /\ BucketOf[call[c].obj] = b

\* A write of the bucket file has failed, or a crash has cut it short.
Lost(b) == b \in torn /\ \A c \in Clients : ~Writes(c, b)

\* Whoever works on an object or a bucket is its only owner, and a bucket
\* file that does not load is one that the upload that owns it writes, or
\* one that is lost: nobody works with what it had.
LockDiscipline ==
    /\ \A c \in Clients : ClientLocks(c)
    /\ \A k \in TaskKeys : TaskLocks(k)
    /\ \A c \in Clients : call[c].pc \in OwnsBucketAt => ~Lost(BucketOf[call[c].obj])

\* The object a file refers to has a record, held by at least one storage,
\* or its bucket is lost: the bucket is saved before the metadata, by the
\* upload that owns both locks, and nobody else's save of the bucket drops
\* the record.
Backed(id) == objs[id] # NoRecord /\ \E s \in Schemes : objs[id].at[s] # NoContent

ReferencedObjectsBacked ==
    \A p \in Paths :
        Exists(p) /\ meta[p].obj # NoObj => Backed(meta[p].obj) \/ Lost(BucketOf[meta[p].obj])

\* Record new has all that old has.
Extends(new, old) ==
    old # NoRecord =>
        /\ new # NoRecord
        /\ new.nonce = old.nonce /\ new.size = old.size
        /\ \A s \in Schemes : old.at[s] # NoContent => new.at[s] # NoContent

\* No upload undoes another's: a record, once made, keeps its nonce and size
\* and every storage it has, though two uploads of objects that share a
\* bucket both rewrite the whole file.  Only a write that fails loses any.
RecordsOnlyGrow ==
    [][\A id \in ObjIds :
          \/ Extends(objs'[id], objs[id])
          \/ \E c \in Clients :
                UploadWriteBucketFails(c) /\ BucketOf[call[c].obj] = BucketOf[id]]_vars

\* A task that is not done has somebody waiting for it who holds the tree
\* lock of its destination: the only thing that keeps Remove, Rename and
\* Evict away from the file it writes, as the task takes no lock of its own.
TaskHoldsPath ==
    \A k \in TaskKeys : task[k] # NoTask /\ task[k].step # "done" =>
        \E c \in Waiting(k) : call[c].lock # "none"

\* Evict drops no file that is open: at the step that removes the data, no
\* File's inode goes with it.
EvictSparesOpenFiles ==
    [][\A c, d \in Clients :
          EvictRemove(c) /\ handle[d] # NoHandle => handle[d].inode # call[c].path]_vars

\* Every call returns: no deadlock of fs.mtx, object locks, bucket locks and
\* doneCh, whatever the order of the calls.
EveryCallReturns == \A c \in Clients : call[c].pc # "idle" ~> call[c].pc = "idle"

-----------------------------------------------------------------------------
\* What the locals of a call and of a task are known to be between its steps,
\* and what the locks keep true of the records they are about: the parts that
\* make the invariants above inductive.
ClientLocals(c) ==
    /\ call[c].pc # "idle" => call[c].path \in Paths
    /\ call[c].pc \in OwnsObjectAt \union {"uploadLock", "evictLock"} => call[c].obj \in ObjIds
    /\ call[c].pc = "uploadTransfer" => call[c].enc # NoContent

\* A task finds the record it has read still there, and one on the fast path
\* the content in it.
TaskLocals(k) ==
    task[k] # NoTask =>
        /\ task[k].step = "move" => task[k].got # NoContent
        /\ task[k].step \in {"inline", "inlineWrite", "fetch"} => objs[k[2]] # NoRecord
        /\ task[k].step \in {"inline", "inlineWrite"} => objs[k[2]].at[Base64] # NoContent

\* The bucket that an upload will save has all records of the bucket file,
\* one of the object, and by the time it is saved a storage for it.
SavesBucketAt == OwnsBucketAt \ {"uploadTruncateMeta", "uploadMeta"}

UploadLocals(c) ==
    LET id == call[c].obj
    IN  /\ call[c].pc \in SavesBucketAt =>
              /\ \A x \in ObjIds : BucketOf[x] = BucketOf[id] => Extends(call[c].bkt[x], objs[x])
              /\ call[c].bkt[id] # NoRecord
        /\ call[c].pc \in {"uploadTruncate", "uploadBucket"} =>
              \E s \in Schemes : call[c].bkt[id].at[s] # NoContent
        /\ call[c].pc \in {"uploadTruncateMeta", "uploadMeta"} => Backed(id)

\* A lost bucket file stays so, as no upload loads it, and only the records
\* it had are missing.
ClientLocksBut(c, lost) ==
    ClientLocks(c) /\ (call[c].pc \in OwnsBucketAt => BucketOf[call[c].obj] \notin lost)

LocksBut(lost) ==
    /\ \A c \in Clients : ClientLocksBut(c, lost)
    /\ \A k \in TaskKeys : TaskLocks(k)
    /\ lost \subseteq torn
    /\ \A b \in torn \ lost : \E c \in Clients : Writes(c, b)

BackedBut(lost) ==
    \A p \in Paths :
        Exists(p) /\ meta[p].obj # NoObj => Backed(meta[p].obj) \/ BucketOf[meta[p].obj] \in lost

\* What holds but for the buckets lost so far.
InvBut(lost) ==
    /\ TypeOK /\ LocksBut(lost) /\ BackedBut(lost)
    /\ \A c \in Clients : ClientLocals(c) /\ UploadLocals(c)
    /\ \A k \in TaskKeys : TaskLocals(k)

Gone(lost) == \A id \in ObjIds : BucketOf[id] \in lost => objs[id] = NoRecord

\* The inductive invariant.
IInv == \E lost \in SUBSET Buckets : InvBut(lost) /\ Gone(lost)

-----------------------------------------------------------------------------
\* What comments in the code promise and some interleavings do not keep.

\* "they said they have downloaded that file, so it must complete" (files.go:744)
DownloadedBeforeReopen ==
    \A c \in Clients :
        \/ call[c].pc = "openAgain"
        \/ call[c].pc = "downloadReturn" /\ call[c].ok
        => Present(call[c].path)

\* "If so, wait for that download task to be done" (files.go:714): a File is
\* handed out only when no task is writing its path.
OpenWaitsForTask ==
    [][\A c \in Clients : handle[c] = NoHandle /\ handle'[c] # NoHandle =>
          \A k \in TaskKeys : k[1] = handle'[c].node /\ task[k] # NoTask => task[k].step = "done"]_vars

\* An object "is indexed by its SHA256 hash" (format/object.go:11): what its
\* storages hold is what was hashed.
ObjectIntegrity ==
    \A id \in ObjIds : objs[id] # NoRecord =>
        \A s \in Schemes : objs[id].at[s] \in {NoContent, id[2]}
=============================================================================
