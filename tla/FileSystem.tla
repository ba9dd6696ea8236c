----------------------------- MODULE FileSystem -----------------------------
(***************************************************************************)
(* The state the calls of a resurrent FS share, and the primitives they    *)
(* are made of: metadata and data of the files under "files/", the object  *)
(* buckets under "objs/", the locks, the download tasks, the open files.   *)
(*                                                                         *)
(* Files are regular files directly under the root, so the tree lock is a  *)
(* readers-writer lock per path.  Downloads of modules Download, uploads   *)
(* of module Upload, evictions of module Evict and the file calls of       *)
(* module Files are steps over these variables; module Resurrent composes  *)
(* them.                                                                   *)
(***************************************************************************)
EXTENDS Integers, FiniteSets

CONSTANTS
    Paths,          \* files of the tree
    Clients,        \* goroutines that call the FS; an upload's task is its caller
    Contents,       \* what a file can hold
    Empty,          \* the content of a file created or truncated
    Torn,           \* what a reader sees of a file that is being written
    Engines,        \* object storages of resurrent.yaml
    Base64,         \* the scheme of an object kept inline in its record
    Size, Flate,    \* bytes of a content, as it is and deflated
    InlineMaxSize,  \* inline_max_size
    MaxNonce,       \* bound on the nonces tried
    Buckets,        \* files under objs/
    BucketOf,       \* the bucket of an object identifier
    OnDemand,       \* paths matched by download_on_demand
    MaxTime,        \* bound on the clock, in ticks
    TicksPerMicro,  \* clock ticks in a microsecond
    MaxCalls,       \* bound on the calls made
    SeedKinds,      \* the states a file may start in
    NoClient, NoPath, NoObj, NoMeta, TornMeta, NoData, NoRecord, NoContent,
    NoTask, NoHandle, Exile

Bytes == Contents \union {Torn}
Schemes == Engines \union {Base64}

\* SHA-256 is collision free here: an identifier is what was hashed, the
\* nonce and the content.
ObjIds == (0..MaxNonce) \X Bytes
Times == 0..MaxTime

ASSUME ContentAssumption ==
    /\ Empty \in Contents
    /\ Torn \notin Contents
    /\ NoContent \notin Bytes
    /\ Size \in [Bytes -> Nat]
    /\ Flate \in [Bytes -> Nat]
    /\ InlineMaxSize \in Nat

ASSUME BoundAssumption ==
    /\ MaxNonce \in Nat
    /\ MaxTime \in Nat
    /\ MaxCalls \in Nat
    /\ TicksPerMicro \in Nat \ {0}

ASSUME SetAssumption ==
    /\ BucketOf \in [ObjIds -> Buckets]
    /\ OnDemand \subseteq Paths
    /\ SeedKinds \subseteq {"absent", "local", "synced", "evicted"}
    /\ Engines # {} /\ Base64 \notin Engines
    /\ Exile \notin Paths
    /\ NoPath \notin Paths
    /\ NoClient \notin Clients
    /\ NoObj \notin ObjIds

VARIABLES
    meta,       \* files/M.<name>: the object and modification time recorded
    data,       \* files/F.<name>: the content on disk and its mtime
    objs,       \* the records in the bucket files
    torn,       \* bucket files truncated and not written again
    mtx,        \* the client inside fs.mtx across steps
    ol, bl,     \* the owners of fs.ol and fs.bl
    task,       \* fs.downloadTasks
    call,       \* the call each client is in, with its local variables
    handle,     \* the open file of each client
    now,        \* the clock
    left        \* calls that may still be made

disk == <<meta, data, objs, torn>>
locks == <<mtx, ol, bl>>
vars == <<meta, data, objs, torn, mtx, ol, bl, task, call, handle, now, left>>

\* format.FileMeta: the object and ModifiedAt (an uploaded file has both).
Metas == [obj : ObjIds \union {NoObj}, mtime : Times]
Files == [content : Bytes, mtime : Times]

\* format.Object: at[s] is what the storage named s holds of it, decoded.  A
\* storage URI names a blob that is written once, so the blob stands for it.
Records == [size : Nat, nonce : 0..MaxNonce, at : [Schemes -> Bytes \union {NoContent}]]
BucketFiles == [ObjIds -> Records \union {NoRecord}]

\* Key of fs.downloadTasks: where to, and which object.
TaskKeys == Paths \X ObjIds
Owners == Clients \union TaskKeys

ASSUME DistinctAssumption ==
    /\ Clients \cap TaskKeys = {}
    /\ NoRecord \notin Records
    /\ {NoMeta, TornMeta} \cap Metas = {} /\ NoData \notin Files

OL == INSTANCE KeyedMutex WITH Procs <- Owners, Keys <- ObjIds, holders <- ol
BL == INSTANCE KeyedMutex WITH Procs <- Owners, Keys <- Buckets, holders <- bl

\* "done" is the moment between close(doneCh) and the removal from the map.
TaskSteps == {"lock", "bucket", "inline", "inlineWrite", "inlineTime", "fetch", "move", "done"}
Tasks == [step : TaskSteps, mtime : Times, got : Bytes \union {NoContent}, ok : BOOLEAN]

Flags == SUBSET {"create", "excl", "trunc"}

Steps == {"idle",
          "downloadWait", "downloadReturn", "openWait", "openAgain",
          "uploadStat", "uploadHash", "uploadLock", "uploadMatch", "uploadPlan",
          "uploadEncode", "uploadTransfer", "uploadTruncate", "uploadBucket",
          "uploadTruncateMeta", "uploadMeta",
          "evictLock", "evictLoad", "evictHash", "evictRemove"}

Calls == [pc : Steps, path : Paths \union {NoPath}, lock : {"none", "R", "W"},
          obj : ObjIds \union {NoObj}, nonce : 0..MaxNonce, flags : Flags,
          size : Nat, mtime : Times, scheme : Schemes, inline : BOOLEAN,
          enc : Bytes \union {NoContent}, bkt : BucketFiles, ok : BOOLEAN]

NoBucketFile == [id \in ObjIds |-> NoRecord]

Idle == [pc |-> "idle", path |-> NoPath, lock |-> "none", obj |-> NoObj, nonce |-> 0,
         flags |-> {}, size |-> 0, mtime |-> 0, scheme |-> Base64, inline |-> FALSE,
         enc |-> NoContent, bkt |-> NoBucketFile, ok |-> FALSE]

\* A File: the path its tree lock node stands at and the path its inode is
\* linked at, each Exile once removed.
Handles == [node : Paths \union {Exile}, inode : Paths \union {Exile}]

TypeOK ==
    /\ meta \in [Paths -> Metas \union {NoMeta, TornMeta}]
    /\ data \in [Paths -> Files \union {NoData}]
    /\ objs \in BucketFiles
    /\ torn \subseteq Buckets
    /\ mtx \in Clients \union {NoClient}
    /\ ol \in [ObjIds -> SUBSET Owners]
    /\ bl \in [Buckets -> SUBSET Owners]
    /\ task \in [TaskKeys -> Tasks \union {NoTask}]
    /\ call \in [Clients -> Calls]
    /\ handle \in [Clients -> Handles \union {NoHandle}]
    /\ now \in Times
    /\ left \in 0..MaxCalls

-----------------------------------------------------------------------------
\* The states files start in: none, written and never uploaded, uploaded, or
\* uploaded and evicted; an uploaded content is inline or in every engine.
SeedRecord(c) ==
    LET inline == Size[c] <= InlineMaxSize \/ Flate[c] <= InlineMaxSize
    IN  [size |-> Size[c], nonce |-> 0,
         at |-> [s \in Schemes |-> IF inline = (s = Base64) THEN c ELSE NoContent]]

Init ==
    \E kind \in [Paths -> SeedKinds], content \in [Paths -> Contents], t \in Times :
        LET uploaded == {content[p] : p \in {q \in Paths : kind[q] \in {"synced", "evicted"}}}
        IN  /\ meta = [p \in Paths |->
                  CASE kind[p] = "absent" -> NoMeta
                    [] kind[p] = "local" -> [obj |-> NoObj, mtime |-> 0]
                    [] OTHER -> [obj |-> <<0, content[p]>>, mtime |-> t]]
            /\ data = [p \in Paths |->
                  IF kind[p] \in {"local", "synced"}
                  THEN [content |-> content[p], mtime |-> t] ELSE NoData]
            /\ objs = [id \in ObjIds |->
                  IF id[1] = 0 /\ id[2] \in uploaded THEN SeedRecord(id[2]) ELSE NoRecord]
            /\ now = t
            /\ torn = {}
            /\ mtx = NoClient
            /\ ol = [id \in ObjIds |-> {}]
            /\ bl = [b \in Buckets |-> {}]
            /\ task = [k \in TaskKeys |-> NoTask]
            /\ call = [c \in Clients |-> Idle]
            /\ handle = [c \in Clients |-> NoHandle]
            /\ left = MaxCalls

-----------------------------------------------------------------------------
\* statClean: an empty metadata file counts as none.
Exists(p) == meta[p] \notin {NoMeta, TornMeta}
Present(p) == data[p] # NoData

\* The tree lock, only ever tried, and only inside fs.mtx.  A call holds the
\* lock of its path.
CanRLock(p) == \A c \in Clients : call[c].lock = "W" => call[c].path # p
CanWLock(p) == \A c \in Clients : call[c].lock # "none" => call[c].path # p

\* PathLock.CurrentRefs is 1: no File stands at the path.
Unreferenced(p) == \A c \in Clients : handle[c] # NoHandle => handle[c].node # p

\* A call starts.
Begin(c) ==
    /\ call[c].pc = "idle"
    /\ left > 0
    /\ left' = left - 1

Return(c) == call' = [call EXCEPT ![c] = Idle]

\* Time does not run backwards, and may stand still between two writes.
Tick == now' \in {now, now + 1} \cap Times

\* Release of the object and of the bucket lock by the deferred unlocks.
ReleaseObject(owner, id) ==
    /\ OL!Release(owner, id)
    /\ BL!Release(owner, BucketOf[id])
=============================================================================
