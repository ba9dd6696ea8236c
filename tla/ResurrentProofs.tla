-------------------------- MODULE ResurrentProofs --------------------------
(***************************************************************************)
(* What holds of an FS for every set of paths, clients, contents and       *)
(* engines, and for every bound: types, the discipline of object and       *)
(* bucket locks, that files refer only to recorded objects, and that no    *)
(* save of a bucket loses a record.  The invariant is proved but for the   *)
(* bucket files that are lost: what failed writes and crashes have left    *)
(* empty or partial.                                                       *)
(***************************************************************************)
EXTENDS Crashes, TLAPS

LEMMA IdleType == Idle \in Calls
<1>1. NoBucketFile \in BucketFiles
  BY DEF NoBucketFile, BucketFiles
<1>2. 0 \in Times /\ 0 \in 0..MaxNonce /\ Base64 \in Schemes
  BY BoundAssumption DEF Times, Schemes
<1>3. QED
  BY <1>1, <1>2 DEF Idle, Calls, Steps, Flags

LEMMA WokenType ==
    ASSUME NEW cl \in Calls, NEW good \in BOOLEAN
    PROVE  Woken(cl, good) \in Calls
<1>1. [cl EXCEPT !.pc = "downloadReturn", !.ok = good] \in Calls
  BY DEF Calls, Steps
<1>2. [cl EXCEPT !.pc = "openAgain"] \in Calls
  BY DEF Calls, Steps
<1>3. QED
  BY <1>1, <1>2, IdleType DEF Woken

\* What the types of the state give about one call, one task, one file.
LEMMA CallType ==
    ASSUME TypeOK, NEW c \in Clients
    PROVE  call[c] \in Calls
BY DEF TypeOK

LEMMA TaskType ==
    ASSUME TypeOK, NEW k \in TaskKeys, task[k] # NoTask
    PROVE  task[k] \in Tasks
BY DEF TypeOK

LEMMA FileType ==
    ASSUME TypeOK, NEW p \in Paths
    PROVE  /\ Present(p) => data[p] \in Files
           /\ Exists(p) => meta[p] \in Metas
BY DEF TypeOK, Present, Exists

LEMMA ModTimeType ==
    ASSUME NEW t \in Times
    PROVE  ModTime(t) \in Times
<1>1. t \in Nat /\ t <= MaxTime /\ MaxTime \in Nat /\ TicksPerMicro \in Nat \ {0}
  BY BoundAssumption DEF Times
<1>2. t % TicksPerMicro \in 0..t
  BY <1>1
<1>3. QED
  BY <1>1, <1>2 DEF ModTime, Times

LEMMA TickType ==
    ASSUME Tick PROVE now' \in Times
BY DEF Tick
-----------------------------------------------------------------------------
\* A call, or a task, that goes on as before, or has nothing to do with an
\* object before and after the step.
Undisturbed(d) ==
    \/ call'[d] = call[d]
    \/ call[d].pc \notin OwnsObjectAt /\ call'[d].pc \notin OwnsObjectAt

TaskUndisturbed(k) ==
    \/ task'[k] = task[k]
    \/ task'[k] = NoTask
    \/ task'[k].step \notin TaskOwnsObjectAt

\* The locks that a step of o moves are free or its own.
MovesOwnLocks(o) ==
    /\ \A id \in ObjIds : ol'[id] # ol[id] => ol[id] \in {{}, {o}}
    /\ \A b \in Buckets : bl'[b] # bl[b] => bl[b] \in {{}, {o}}

\* A step in which nobody owns anything new and no object changes.
Outside ==
    /\ UNCHANGED <<objs, torn, ol, bl>>
    /\ \A d \in Clients : Undisturbed(d)
    /\ \A k \in TaskKeys : TaskUndisturbed(k)

\* Nobody but o loses or gains a lock in a step of o.
LEMMA OthersKeepLocks ==
    ASSUME NEW lost, InvBut(lost), NEW o \in Owners, MovesOwnLocks(o)
    PROVE  /\ \A d \in Clients : d # o /\ Undisturbed(d) => ClientLocksBut(d, lost)'
           /\ \A k \in TaskKeys : k # o /\ TaskUndisturbed(k) => TaskLocks(k)'
<1>1. ASSUME NEW d \in Clients, d # o, Undisturbed(d)
      PROVE  ClientLocksBut(d, lost)'
  <2>1. CASE call'[d] = call[d]
    <3>1. call[d].pc \in OwnsObjectAt => call[d].obj \in ObjIds /\ BucketOf[call[d].obj] \in Buckets
      BY SetAssumption DEF InvBut, ClientLocals
    <3>2. ClientLocksBut(d, lost)
      BY DEF InvBut, LocksBut
    <3>3. {d} \notin {{}, {o}}
      BY <1>1
    <3>4. QED
      BY <2>1, <3>1, <3>2, <3>3 DEF ClientLocksBut, ClientLocks, MovesOwnLocks, OwnsObjectAt
  <2>2. CASE call'[d].pc \notin OwnsObjectAt
    BY <2>2 DEF ClientLocksBut, ClientLocks, OwnsObjectAt
  <2>3. QED
    BY <1>1, <2>1, <2>2 DEF Undisturbed
<1>2. ASSUME NEW k \in TaskKeys, k # o, TaskUndisturbed(k)
      PROVE  TaskLocks(k)'
  <2>1. CASE task'[k] = task[k]
    <3>1. k[2] \in ObjIds /\ BucketOf[k[2]] \in Buckets
      BY SetAssumption DEF TaskKeys
    <3>2. TaskLocks(k)
      BY DEF InvBut, LocksBut
    <3>3. {k} \notin {{}, {o}}
      BY <1>2
    <3>4. QED
      BY <2>1, <3>1, <3>2, <3>3 DEF TaskLocks, MovesOwnLocks
  <2>2. CASE task'[k] = NoTask \/ task'[k].step \notin TaskOwnsObjectAt
    BY <2>2 DEF TaskLocks, TaskOwnsObjectAt
  <2>3. QED
    BY <1>2, <2>1, <2>2 DEF TaskUndisturbed
<1>3. QED
  BY <1>1, <1>2

\* Undisturbed calls and tasks keep what is known of their locals as long as
\* the records stay.
LEMMA UndisturbedLocals ==
    ASSUME NEW lost, InvBut(lost), UNCHANGED objs
    PROVE  /\ \A d \in Clients : Undisturbed(d) => UploadLocals(d)'
           /\ \A k \in TaskKeys : TaskUndisturbed(k) => TaskLocals(k)'
<1>1. ASSUME NEW d \in Clients, Undisturbed(d)
      PROVE  UploadLocals(d)'
  <2>1. CASE call'[d] = call[d]
    BY <2>1 DEF InvBut, UploadLocals, Backed
  <2>2. CASE call'[d].pc \notin OwnsObjectAt
    BY <2>2 DEF UploadLocals, SavesBucketAt, OwnsObjectAt, OwnsBucketAt
  <2>3. QED
    BY <1>1, <2>1, <2>2 DEF Undisturbed
<1>2. ASSUME NEW k \in TaskKeys, TaskUndisturbed(k)
      PROVE  TaskLocals(k)'
  <2>1. CASE task'[k] = task[k]
    BY <2>1 DEF InvBut, TaskLocals
  <2>2. CASE task'[k] = NoTask \/ task'[k].step \notin TaskOwnsObjectAt
    BY <2>2 DEF TaskLocals, TaskOwnsObjectAt, TaskOwnsBucketAt
  <2>3. QED
    BY <1>2, <2>1, <2>2 DEF TaskUndisturbed
<1>3. QED
  BY <1>1, <1>2

\* A bucket file stays truncated only as long as its writer is at work.
LEMMA WritersStay ==
    ASSUME NEW lost, InvBut(lost), torn' \subseteq torn, \A d \in Clients : Undisturbed(d)
    PROVE  \A b \in torn' \ lost : \E c \in Clients : Writes(c, b)'
<1> SUFFICES ASSUME NEW b \in torn' \ lost
             PROVE  \E c \in Clients : Writes(c, b)'
  OBVIOUS
<1>1. PICK c \in Clients : Writes(c, b)
  BY DEF InvBut, LocksBut
<1>2. call'[c] = call[c]
  BY <1>1 DEF Writes, Undisturbed, OwnsObjectAt, OwnsBucketAt
<1>3. QED
  BY <1>1, <1>2 DEF Writes

LEMMA OutsideStep ==
    ASSUME NEW lost, InvBut(lost), Outside
    PROVE  /\ LocksBut(lost)'
           /\ \A c \in Clients : UploadLocals(c)'
           /\ \A k \in TaskKeys : TaskLocals(k)'
<1>1. ASSUME NEW c \in Clients PROVE ClientLocksBut(c, lost)'
  <2>1. CASE call'[c] = call[c]
    BY <2>1 DEF Outside, InvBut, LocksBut, ClientLocksBut, ClientLocks
  <2>2. CASE call'[c].pc \notin OwnsObjectAt
    BY <2>2 DEF ClientLocksBut, ClientLocks, OwnsObjectAt
  <2>3. QED
    BY <2>1, <2>2 DEF Outside, Undisturbed
<1>2. ASSUME NEW k \in TaskKeys PROVE TaskLocks(k)'
  <2>1. CASE task'[k] = task[k]
    BY <2>1 DEF Outside, InvBut, LocksBut, TaskLocks
  <2>2. CASE task'[k] = NoTask \/ task'[k].step \notin TaskOwnsObjectAt
    BY <2>2 DEF TaskLocks, TaskOwnsObjectAt
  <2>3. QED
    BY <2>1, <2>2 DEF Outside, TaskUndisturbed
<1>3. \A b \in torn' \ lost : \E c \in Clients : Writes(c, b)'
  BY WritersStay DEF Outside
<1>4. lost \subseteq torn'
  BY DEF Outside, InvBut, LocksBut
<1>5. QED
  BY <1>1, <1>2, <1>3, <1>4, UndisturbedLocals DEF LocksBut, Outside

\* References stay backed when files only take over each other's.
LEMMA ReferencesKept ==
    ASSUME NEW lost, InvBut(lost), UNCHANGED objs,
           \A p \in Paths : Exists(p)' /\ meta'[p].obj # NoObj =>
               \E q \in Paths : Exists(q) /\ meta'[p].obj = meta[q].obj
    PROVE  BackedBut(lost)'
BY DEF InvBut, BackedBut, Backed
-----------------------------------------------------------------------------
\* The calls on files.
LEMMA OutsideInv ==
    ASSUME NEW lost, InvBut(lost),
           Outside, TypeOK', \A c \in Clients : ClientLocals(c)', BackedBut(lost)'
    PROVE  InvBut(lost)'
BY OutsideStep DEF InvBut

\* A step that only touches files and handles.
LEMMA FilesOnly ==
    ASSUME NEW lost, InvBut(lost), UNCHANGED <<objs, torn, mtx, ol, bl, task, call>>,
           meta' \in [Paths -> Metas \union {NoMeta, TornMeta}],
           data' \in [Paths -> Files \union {NoData}],
           handle' \in [Clients -> Handles \union {NoHandle}],
           now' \in Times, left' \in 0..MaxCalls,
           BackedBut(lost)'
    PROVE  InvBut(lost)'
<1>1. TypeOK'
  BY DEF InvBut, TypeOK
<1>2. Outside
  BY DEF Outside, Undisturbed, TaskUndisturbed
<1>3. \A c \in Clients : ClientLocals(c)'
  BY DEF InvBut, ClientLocals
<1>4. QED
  BY <1>1, <1>2, <1>3, OutsideInv

LEMMA BeginType ==
    ASSUME TypeOK, NEW c \in Clients, Begin(c)
    PROVE  left' \in 0..MaxCalls
BY BoundAssumption DEF TypeOK, Begin

LEMMA EmptyFileType ==
    ASSUME NEW t \in Times, NEW b \in Bytes
    PROVE  [content |-> b, mtime |-> t] \in Files
BY DEF Files

LEMMA NewMetaType == [obj |-> NoObj, mtime |-> 0] \in Metas
BY BoundAssumption DEF Metas, Times

\* An open keeps the types, and no file refers to another object after it.
LEMMA OpenDataType ==
    ASSUME NEW lost, InvBut(lost),
           NEW c \in Clients, NEW p \in Paths, NEW f, OpenData(c, p, f), UNCHANGED objs
    PROVE  /\ meta' \in [Paths -> Metas \union {NoMeta, TornMeta}]
           /\ data' \in [Paths -> Files \union {NoData}]
           /\ handle' \in [Clients -> Handles \union {NoHandle}]
           /\ now' \in Times
           /\ BackedBut(lost)'
<1>1. TypeOK
  BY DEF InvBut
<1>2. meta' \in [Paths -> Metas \union {NoMeta, TornMeta}]
  BY <1>1, NewMetaType DEF OpenData, TypeOK
<1>3. now' \in Times
  BY <1>1, TickType DEF OpenData, TypeOK
<1>4. [content |-> Empty, mtime |-> now'] \in Files
  BY <1>3, EmptyFileType, ContentAssumption DEF Bytes
<1>5. data' \in [Paths -> Files \union {NoData}]
  BY <1>1, <1>4 DEF OpenData, TypeOK
<1>6. handle' \in [Clients -> Handles \union {NoHandle}]
  BY <1>1 DEF OpenData, TypeOK, Handles
<1>7. ASSUME NEW q \in Paths, Exists(q)', meta'[q].obj # NoObj
      PROVE  Exists(q) /\ meta'[q].obj = meta[q].obj
  BY <1>1, <1>7 DEF OpenData, TypeOK, Exists
<1>8. BackedBut(lost)'
  BY <1>7, ReferencesKept
<1>9. QED
  BY <1>2, <1>3, <1>5, <1>6, <1>8

LEMMA OpenFileInv ==
    ASSUME NEW lost, InvBut(lost),
           NEW c \in Clients, NEW p \in Paths, NEW f \in Flags, OpenFile(c, p, f)
    PROVE  InvBut(lost)'
BY BeginType, OpenDataType, FilesOnly DEF OpenFile, locks, InvBut

LEMMA WriteInv ==
    ASSUME NEW lost, InvBut(lost), NEW c \in Clients, Write(c)
    PROVE  InvBut(lost)'
<1>1. TypeOK /\ left' \in 0..MaxCalls /\ now' \in Times
  BY BeginType, TickType DEF Write, InvBut
<1>2. PICK b \in Contents : data' = [data EXCEPT ![handle[c].inode] = [content |-> b, mtime |-> now']]
  BY DEF Write
<1>3. [content |-> b, mtime |-> now'] \in Files
  BY <1>1, EmptyFileType DEF Bytes
<1>4. data' \in [Paths -> Files \union {NoData}]
  BY <1>1, <1>2, <1>3 DEF TypeOK
<1>5. BackedBut(lost)'
  BY ReferencesKept DEF Write, Exists
<1>6. QED
  BY <1>1, <1>4, <1>5, FilesOnly DEF Write, locks, TypeOK

LEMMA CloseInv ==
    ASSUME NEW lost, InvBut(lost), NEW c \in Clients, Close(c)
    PROVE  InvBut(lost)'
<1>1. TypeOK
  BY DEF InvBut
<1>2. BackedBut(lost)'
  BY ReferencesKept DEF Close, disk, Exists
<1>3. QED
  BY <1>1, <1>2, FilesOnly DEF Close, disk, locks, TypeOK

LEMMA MovedType ==
    ASSUME TypeOK, NEW nodeOf \in [Places -> Places], NEW inodeOf \in [Places -> Places]
    PROVE  Moved(nodeOf, inodeOf) \in [Clients -> Handles \union {NoHandle}]
<1>1. ASSUME NEW c \in Clients, handle[c] # NoHandle
      PROVE  [node |-> nodeOf[handle[c].node], inode |-> inodeOf[handle[c].inode]] \in Handles
  <2>1. handle[c] \in Handles
    BY <1>1 DEF TypeOK
  <2>2. handle[c].node \in Places /\ handle[c].inode \in Places
    BY <2>1 DEF Handles, Places
  <2>3. QED
    BY <2>2 DEF Handles, Places
<1>2. QED
  BY <1>1 DEF Moved

LEMMA RemoveInv ==
    ASSUME NEW lost, InvBut(lost), NEW c \in Clients, NEW p \in Paths, Remove(c, p)
    PROVE  InvBut(lost)'
<1>1. TypeOK /\ left' \in 0..MaxCalls
  BY BeginType DEF Remove, InvBut
<1>2. /\ meta' \in [Paths -> Metas \union {NoMeta, TornMeta}]
      /\ data' \in [Paths -> Files \union {NoData}]
  BY <1>1 DEF Remove, TypeOK
<1>3. [Same EXCEPT ![p] = Exile] \in [Places -> Places]
  BY DEF Same, Places
<1>4. handle' \in [Clients -> Handles \union {NoHandle}]
  BY <1>1, <1>3, MovedType DEF Remove
<1>5. ASSUME NEW q \in Paths, Exists(q)'
      PROVE  Exists(q) /\ meta'[q].obj = meta[q].obj
  BY <1>1, <1>5 DEF Remove, TypeOK, Exists
<1>6. BackedBut(lost)'
  BY <1>5, ReferencesKept DEF Remove
<1>7. QED
  BY <1>1, <1>2, <1>4, <1>6, FilesOnly DEF Remove, locks, TypeOK

LEMMA RenameInv ==
    ASSUME NEW lost, InvBut(lost),
           NEW c \in Clients, NEW p \in Paths, NEW t \in Paths, Rename(c, p, t)
    PROVE  InvBut(lost)'
<1>1. TypeOK /\ left' \in 0..MaxCalls
  BY BeginType DEF Rename, InvBut
<1>2. /\ meta' \in [Paths -> Metas \union {NoMeta, TornMeta}]
      /\ data' \in [Paths -> Files \union {NoData}]
  BY <1>1 DEF Rename, TypeOK
<1>3. /\ [Same EXCEPT ![p] = t, ![t] = IF Exists(t) THEN Exile ELSE p] \in [Places -> Places]
      /\ [Same EXCEPT ![p] = t, ![t] = Exile] \in [Places -> Places]
  BY DEF Same, Places
<1>4. handle' \in [Clients -> Handles \union {NoHandle}]
  BY <1>1, <1>3, MovedType DEF Rename
<1>5. ASSUME NEW q \in Paths, Exists(q)', meta'[q].obj # NoObj
      PROVE  \E r \in Paths : Exists(r) /\ meta'[q].obj = meta[r].obj
  <2>1. meta'[q] = IF q = p THEN NoMeta ELSE IF q = t THEN meta[p] ELSE meta[q]
    BY <1>1 DEF Rename, TypeOK
  <2>2. QED
    BY <1>5, <2>1 DEF Exists
<1>6. BackedBut(lost)'
  BY <1>5, ReferencesKept DEF Rename
<1>7. QED
  BY <1>1, <1>2, <1>4, <1>6, FilesOnly DEF Rename, locks, TypeOK

LEMMA RenameFailsInv ==
    ASSUME NEW lost, InvBut(lost),
           NEW c \in Clients, NEW p \in Paths, NEW t \in Paths, RenameFails(c, p, t)
    PROVE  InvBut(lost)'
<1>1. TypeOK /\ left' \in 0..MaxCalls
  BY BeginType DEF RenameFails, InvBut
<1>2. /\ meta' \in [Paths -> Metas \union {NoMeta, TornMeta}]
      /\ data' \in [Paths -> Files \union {NoData}]
  BY <1>1 DEF RenameFails, TypeOK
<1>3. [Same EXCEPT ![t] = Exile] \in [Places -> Places]
  BY DEF Same, Places
<1>4. handle' \in [Clients -> Handles \union {NoHandle}]
  BY <1>1, <1>3, MovedType DEF RenameFails, TypeOK
<1>5. ASSUME NEW q \in Paths, Exists(q)'
      PROVE  Exists(q) /\ meta'[q].obj = meta[q].obj
  BY <1>1, <1>5 DEF RenameFails, TypeOK, Exists
<1>6. BackedBut(lost)'
  BY <1>5, ReferencesKept DEF RenameFails
<1>7. QED
  BY <1>1, <1>2, <1>4, <1>6, FilesOnly DEF RenameFails, locks, TypeOK

LEMMA QuietInv ==
    ASSUME NEW lost, InvBut(lost), UNCHANGED vars
    PROVE  InvBut(lost)'
<1>1. TypeOK
  BY DEF InvBut
<1>2. BackedBut(lost)'
  BY ReferencesKept DEF vars, Exists
<1>3. QED
  BY <1>1, <1>2, FilesOnly DEF vars, TypeOK
-----------------------------------------------------------------------------
\* The steps of a call that owns nothing.
Outsider(cl) ==
    /\ cl \in Calls
    /\ cl.pc \notin OwnsObjectAt
    /\ cl.pc # "idle" => cl.path \in Paths
    /\ cl.pc \in {"uploadLock", "evictLock"} => cl.obj \in ObjIds

LEMMA OutsiderStep ==
    ASSUME NEW lost, InvBut(lost), NEW c \in Clients, call[c].pc \notin OwnsObjectAt,
           NEW cl, Outsider(cl), call' = [call EXCEPT ![c] = cl]
    PROVE  /\ call' \in [Clients -> Calls]
           /\ \A d \in Clients : Undisturbed(d) /\ ClientLocals(d)'
<1>1. call \in [Clients -> Calls]
  BY DEF InvBut, TypeOK
<1>2. call' \in [Clients -> Calls]
  BY <1>1 DEF Outsider
<1>3. ASSUME NEW d \in Clients
      PROVE  Undisturbed(d) /\ ClientLocals(d)'
  <2>1. CASE d = c
    <3>1. call'[d] = cl
      BY <1>1, <2>1
    <3>2. cl.pc # "uploadTransfer"
      BY DEF Outsider, OwnsObjectAt, OwnsBucketAt
    <3>3. QED
      BY <2>1, <3>1, <3>2 DEF Outsider, Undisturbed, ClientLocals
  <2>2. CASE d # c
    <3>1. call'[d] = call[d]
      BY <1>1, <2>2
    <3>2. QED
      BY <3>1 DEF Undisturbed, InvBut, ClientLocals
  <2>3. QED
    BY <2>1, <2>2
<1>4. QED
  BY <1>2, <1>3

LEMMA IdleOutsider == Outsider(Idle)
<1>1. Idle.pc = "idle"
  BY DEF Idle
<1>2. QED
  BY <1>1, IdleType DEF Outsider, OwnsObjectAt, OwnsBucketAt

\* A step that only changes the call of c, and the clock of calls or fs.mtx.
LEMMA OutsiderInv ==
    ASSUME NEW lost, InvBut(lost), NEW c \in Clients, call[c].pc \notin OwnsObjectAt,
           NEW cl, Outsider(cl), call' = [call EXCEPT ![c] = cl],
           UNCHANGED <<disk, ol, bl, task, handle, now>>,
           mtx' \in Clients \union {NoClient}, left' \in 0..MaxCalls
    PROVE  InvBut(lost)'
<1>1. /\ call' \in [Clients -> Calls]
      /\ \A d \in Clients : Undisturbed(d) /\ ClientLocals(d)'
  BY OutsiderStep
<1>2. TypeOK'
  BY <1>1 DEF InvBut, TypeOK, disk
<1>3. Outside
  BY <1>1 DEF Outside, TaskUndisturbed, disk
<1>4. BackedBut(lost)'
  BY ReferencesKept DEF disk, Exists
<1>5. QED
  BY <1>1, <1>2, <1>3, <1>4, OutsideInv

LEMMA UploadCallInv ==
    ASSUME NEW lost, InvBut(lost),
           NEW c \in Clients, NEW p \in Paths, NEW e \in Engines, UploadCall(c, p, e)
    PROVE  InvBut(lost)'
<1> DEFINE cl == [Idle EXCEPT !.pc = "uploadStat", !.path = p, !.scheme = e]
<1>1. Outsider(cl)
  <2>1. cl \in Calls
    BY IdleType DEF Calls, Steps, Schemes
  <2>2. cl.pc = "uploadStat" /\ cl.path = p
    BY IdleType DEF Calls
  <2>3. QED
    BY <2>1, <2>2 DEF Outsider, OwnsObjectAt, OwnsBucketAt
<1>2. call[c].pc \notin OwnsObjectAt /\ left' \in 0..MaxCalls
  BY BeginType DEF UploadCall, Begin, InvBut, OwnsObjectAt, OwnsBucketAt
<1>3. QED
  BY <1>1, <1>2, OutsiderInv DEF UploadCall, locks, InvBut, TypeOK

LEMMA EvictCallInv ==
    ASSUME NEW lost, InvBut(lost), NEW c \in Clients, NEW p \in Paths, EvictCall(c, p)
    PROVE  InvBut(lost)'
<1> DEFINE cl == [Idle EXCEPT !.pc = "evictLock", !.path = p, !.lock = "W", !.obj = meta[p].obj]
<1>1. Outsider(cl)
  <2>1. meta[p].obj \in ObjIds
    BY FileType DEF EvictCall, InvBut, Metas
  <2>2. cl \in Calls
    BY <2>1, IdleType DEF Calls, Steps
  <2>3. cl.pc = "evictLock" /\ cl.path = p /\ cl.obj = meta[p].obj
    BY IdleType DEF Calls
  <2>4. QED
    BY <2>1, <2>2, <2>3 DEF Outsider, OwnsObjectAt, OwnsBucketAt
<1>2. call[c].pc \notin OwnsObjectAt /\ left' \in 0..MaxCalls
  BY BeginType DEF EvictCall, Begin, InvBut, OwnsObjectAt, OwnsBucketAt
<1>3. QED
  BY <1>1, <1>2, OutsiderInv DEF EvictCall, InvBut, TypeOK

\* A call that waits, and what it is once its task is done.
LEMMA WokenOutsider ==
    ASSUME NEW cl, Outsider(cl), cl.pc \in {"downloadWait", "openWait"}, NEW good \in BOOLEAN
    PROVE  Outsider(Woken(cl, good))
<1>1. cl \in Calls /\ cl.path \in Paths /\ Woken(cl, good) \in Calls
  BY WokenType DEF Outsider
<1>2. CASE cl.pc = "downloadWait"
  <2>1. /\ Woken(cl, good).pc = "downloadReturn"
        /\ Woken(cl, good).path = cl.path
    BY <1>1, <1>2 DEF Woken, Calls
  <2>2. QED
    BY <1>1, <2>1 DEF Outsider, OwnsObjectAt, OwnsBucketAt
<1>3. CASE cl.pc = "openWait" /\ good
  <2>1. /\ Woken(cl, good).pc = "openAgain"
        /\ Woken(cl, good).path = cl.path
    BY <1>1, <1>3 DEF Woken, Calls
  <2>2. QED
    BY <1>1, <2>1 DEF Outsider, OwnsObjectAt, OwnsBucketAt
<1>4. CASE cl.pc = "openWait" /\ ~good
  BY <1>4, IdleOutsider DEF Woken
<1>5. QED
  BY <1>2, <1>3, <1>4

\* A call that needs an object finds its task or starts one.
LEMMA FindOrNewTaskInv ==
    ASSUME NEW lost, InvBut(lost), NEW c \in Clients, call[c].pc = "idle",
           NEW cl, Outsider(cl), cl.pc \in {"downloadWait", "openWait"},
           Exists(cl.path), cl.obj \in ObjIds,
           FindOrNewTask(c, cl),
           UNCHANGED <<disk, locks, handle, now>>, left' \in 0..MaxCalls
    PROVE  InvBut(lost)'
<1> DEFINE k == <<cl.path, cl.obj>>
           finished == task[k] # NoTask /\ task[k].step = "done"
           new == IF finished THEN Woken(cl, task[k].ok) ELSE cl
<1>1. TypeOK /\ cl.path \in Paths /\ k \in TaskKeys /\ meta[cl.path].mtime \in Times
  BY FileType DEF InvBut, Outsider, TaskKeys, Metas
<1>2. Outsider(new)
  <2>1. finished => task[k].ok \in BOOLEAN
    BY <1>1, TaskType DEF Tasks
  <2>2. QED
    BY <2>1, WokenOutsider
<1>3. call' = [call EXCEPT ![c] = new]
  BY DEF FindOrNewTask
<1>4. call[c].pc \notin OwnsObjectAt
  BY DEF OwnsObjectAt, OwnsBucketAt
<1>5. /\ call' \in [Clients -> Calls]
      /\ \A d \in Clients : Undisturbed(d) /\ ClientLocals(d)'
  <2> HIDE DEF new
  <2>1. QED
    BY <1>2, <1>3, <1>4, OutsiderStep
<1>6. task' \in [TaskKeys -> Tasks \union {NoTask}] /\ \A j \in TaskKeys : TaskUndisturbed(j)
  <2> DEFINE t == NewTask(meta[cl.path].mtime)
  <2>1. t \in Tasks /\ t.step = "lock"
    BY <1>1 DEF NewTask, Tasks, TaskSteps
  <2>2. task' = task \/ task' = [task EXCEPT ![k] = t]
    BY DEF FindOrNewTask
  <2> HIDE DEF t
  <2>3. task' \in [TaskKeys -> Tasks \union {NoTask}]
    BY <1>1, <2>1, <2>2 DEF TypeOK
  <2>4. ASSUME NEW j \in TaskKeys
        PROVE  task'[j] = task[j] \/ task'[j] = t
    BY <1>1, <2>2 DEF TypeOK
  <2>5. QED
    BY <2>1, <2>3, <2>4 DEF TaskUndisturbed, TaskOwnsObjectAt, TaskOwnsBucketAt
<1>7. TypeOK'
  BY <1>1, <1>5, <1>6 DEF TypeOK, disk, locks
<1>8. Outside
  BY <1>5, <1>6 DEF Outside, disk, locks
<1>9. BackedBut(lost)'
  BY ReferencesKept DEF disk, Exists
<1>10. QED
  BY <1>5, <1>7, <1>8, <1>9, OutsideInv

LEMMA DownloadCallInv ==
    ASSUME NEW lost, InvBut(lost), NEW c \in Clients, NEW p \in Paths, DownloadCall(c, p)
    PROVE  InvBut(lost)'
<1> DEFINE cl == [Idle EXCEPT !.pc = "downloadWait", !.path = p, !.lock = "W", !.obj = meta[p].obj]
<1>1. meta[p].obj \in ObjIds
  BY FileType DEF DownloadCall, InvBut, Metas
<1>2. cl \in Calls
  BY <1>1, IdleType DEF Calls, Steps
<1>3. cl.pc = "downloadWait" /\ cl.path = p /\ cl.obj = meta[p].obj
  BY IdleType DEF Calls
<1>4. Outsider(cl)
  BY <1>2, <1>3 DEF Outsider, OwnsObjectAt, OwnsBucketAt
<1>5. /\ call[c].pc = "idle" /\ left' \in 0..MaxCalls
      /\ Exists(p) /\ FindOrNewTask(c, cl)
      /\ UNCHANGED <<disk, locks, handle, now>>
  BY BeginType DEF DownloadCall, Begin, InvBut
<1> HIDE DEF cl
<1>6. QED
  BY <1>1, <1>3, <1>4, <1>5, FindOrNewTaskInv

LEMMA OpenFileDownloadsInv ==
    ASSUME NEW lost, InvBut(lost),
           NEW c \in Clients, NEW p \in Paths, NEW f \in Flags, OpenFileDownloads(c, p, f)
    PROVE  InvBut(lost)'
<1> DEFINE cl == [Idle EXCEPT !.pc = "openWait", !.path = p, !.lock = "R",
                              !.obj = meta[p].obj, !.flags = f]
<1>1. meta[p].obj \in ObjIds
  BY FileType DEF OpenFileDownloads, NeedsObject, InvBut, Metas
<1>2. cl \in Calls
  BY <1>1, IdleType DEF Calls, Steps
<1>3. cl.pc = "openWait" /\ cl.path = p /\ cl.obj = meta[p].obj
  BY IdleType DEF Calls
<1>4. Outsider(cl)
  BY <1>2, <1>3 DEF Outsider, OwnsObjectAt, OwnsBucketAt
<1>5. /\ call[c].pc = "idle" /\ left' \in 0..MaxCalls
      /\ Exists(p) /\ FindOrNewTask(c, cl)
      /\ UNCHANGED <<disk, locks, handle, now>>
  BY BeginType DEF OpenFileDownloads, NeedsObject, Begin, InvBut
<1> HIDE DEF cl
<1>6. QED
  BY <1>1, <1>3, <1>4, <1>5, FindOrNewTaskInv

LEMMA ReturnInv ==
    ASSUME NEW lost, InvBut(lost), NEW c \in Clients, call[c].pc \notin OwnsObjectAt, Return(c),
           UNCHANGED <<disk, locks, task, handle, now, left>>
    PROVE  InvBut(lost)'
BY IdleOutsider, OutsiderInv DEF Return, locks, InvBut, TypeOK

LEMMA DownloadReturnInv ==
    ASSUME NEW lost, InvBut(lost), NEW c \in Clients, DownloadReturn(c)
    PROVE  InvBut(lost)'
BY ReturnInv DEF DownloadReturn, OwnsObjectAt, OwnsBucketAt

LEMMA OpenFileAgainInv ==
    ASSUME NEW lost, InvBut(lost), NEW c \in Clients, OpenFileAgain(c)
    PROVE  InvBut(lost)'
<1> DEFINE p == call[c].path
<1>1. TypeOK /\ p \in Paths /\ call[c].pc \notin OwnsObjectAt
  BY DEF OpenFileAgain, InvBut, ClientLocals, OwnsObjectAt, OwnsBucketAt
<1>2. UNCHANGED <<objs, torn, mtx, ol, bl, task, left>>
  BY DEF OpenFileAgain, locks
<1>3. /\ meta' \in [Paths -> Metas \union {NoMeta, TornMeta}]
      /\ data' \in [Paths -> Files \union {NoData}]
      /\ handle' \in [Clients -> Handles \union {NoHandle}]
      /\ now' \in Times
      /\ BackedBut(lost)'
  <2>1. CASE OpenData(c, p, call[c].flags)
    BY <1>1, <1>2, <2>1, OpenDataType
  <2>2. CASE UNCHANGED <<meta, data, handle, now>>
    BY <1>1, <1>2, <2>2, ReferencesKept DEF TypeOK, Exists
  <2>3. QED
    BY <2>1, <2>2 DEF OpenFileAgain
<1>4. /\ call' \in [Clients -> Calls]
      /\ \A d \in Clients : Undisturbed(d) /\ ClientLocals(d)'
  BY <1>1, IdleOutsider, OutsiderStep DEF OpenFileAgain, Return
<1>5. TypeOK'
  BY <1>1, <1>2, <1>3, <1>4 DEF TypeOK
<1>6. Outside
  BY <1>2, <1>4 DEF Outside, TaskUndisturbed
<1>7. QED
  BY <1>3, <1>4, <1>5, <1>6, OutsideInv

LEMMA TaskDeleteInv ==
    ASSUME NEW lost, InvBut(lost), NEW k \in TaskKeys, TaskDelete(k)
    PROVE  InvBut(lost)'
<1>1. TypeOK'
  BY DEF TaskDelete, disk, locks, InvBut, TypeOK
<1>2. Outside
  BY DEF TaskDelete, disk, locks, InvBut, TypeOK, Outside, Undisturbed, TaskUndisturbed
<1>3. \A c \in Clients : ClientLocals(c)'
  BY DEF TaskDelete, InvBut, ClientLocals
<1>4. BackedBut(lost)'
  BY ReferencesKept DEF TaskDelete, disk, Exists
<1>5. QED
  BY <1>1, <1>2, <1>3, <1>4, OutsideInv

LEMMA UploadStatInv ==
    ASSUME NEW lost, InvBut(lost), NEW c \in Clients, UploadStat(c)
    PROVE  InvBut(lost)'
<1> DEFINE p == call[c].path
           cl == [call[c] EXCEPT !.pc = "uploadHash", !.size = Size[data[p].content],
                                 !.mtime = data[p].mtime]
<1>1. TypeOK /\ call[c] \in Calls /\ p \in Paths /\ call[c].pc \notin OwnsObjectAt
  BY CallType DEF UploadStat, Uploading, InvBut, ClientLocals, OwnsObjectAt, OwnsBucketAt
<1>2. Present(p) /\ call' = [call EXCEPT ![c] = cl] /\ UNCHANGED <<disk, locks, task, handle, now, left>>
  BY DEF UploadStat
<1>3. Size[data[p].content] \in Nat /\ data[p].mtime \in Times
  BY <1>1, <1>2, FileType, ContentAssumption DEF Files
<1>4. cl \in Calls /\ cl.pc = "uploadHash" /\ cl.path = p
  BY <1>1, <1>3 DEF Calls, Steps
<1>5. Outsider(cl)
  BY <1>1, <1>4 DEF Outsider, OwnsObjectAt, OwnsBucketAt
<1> HIDE DEF cl
<1>6. QED
  BY <1>1, <1>2, <1>5, OutsiderInv DEF locks, TypeOK

LEMMA UploadHashInv ==
    ASSUME NEW lost, InvBut(lost), NEW c \in Clients, UploadHash(c)
    PROVE  InvBut(lost)'
<1> DEFINE p == call[c].path
           cl == [call[c] EXCEPT !.pc = "uploadLock", !.obj = <<call[c].nonce, data[p].content>>]
<1>1. TypeOK /\ call[c] \in Calls /\ p \in Paths /\ call[c].pc \notin OwnsObjectAt
  BY CallType DEF UploadHash, Uploading, InvBut, ClientLocals, OwnsObjectAt, OwnsBucketAt
<1>2. Present(p) /\ call' = [call EXCEPT ![c] = cl] /\ UNCHANGED <<disk, locks, task, handle, now, left>>
  BY DEF UploadHash
<1>3. call[c].nonce \in 0..MaxNonce /\ data[p].content \in Bytes
  BY <1>1, <1>2, FileType DEF Files, Calls
<1>4. <<call[c].nonce, data[p].content>> \in ObjIds
  BY <1>3 DEF ObjIds
<1>5. cl \in Calls /\ cl.pc = "uploadLock" /\ cl.path = p /\ cl.obj \in ObjIds
  BY <1>1, <1>4 DEF Calls, Steps
<1>6. Outsider(cl)
  BY <1>1, <1>5 DEF Outsider, OwnsObjectAt, OwnsBucketAt
<1> HIDE DEF cl
<1>7. QED
  BY <1>1, <1>2, <1>6, OutsiderInv DEF locks, TypeOK

LEMMA UploadQuitsInv ==
    ASSUME NEW lost, InvBut(lost), NEW c \in Clients, UploadQuits(c)
    PROVE  InvBut(lost)'
BY ReturnInv DEF UploadQuits, OwnsObjectAt, OwnsBucketAt

-----------------------------------------------------------------------------
\* The steps of a call that owns an object.
LEMMA ObjectLockMoves ==
    ASSUME TypeOK, NEW o \in Owners, NEW id \in ObjIds,
           OL!Acquire(o, id) \/ OL!Release(o, id)
    PROVE  /\ ol' \in [ObjIds -> SUBSET Owners]
           /\ \A x \in ObjIds : ol'[x] # ol[x] => ol[x] \in {{}, {o}}
           /\ OL!Acquire(o, id) => ol'[id] = {o}
BY DEF TypeOK, OL!Acquire, OL!Release

LEMMA BucketLockMoves ==
    ASSUME TypeOK, NEW o \in Owners, NEW b \in Buckets,
           BL!Acquire(o, b) \/ BL!Release(o, b)
    PROVE  /\ bl' \in [Buckets -> SUBSET Owners]
           /\ \A x \in Buckets : bl'[x] # bl[x] => bl[x] \in {{}, {o}}
           /\ BL!Acquire(o, b) => bl'[b] = {o}
BY DEF TypeOK, BL!Acquire, BL!Release

LEMMA ReleaseMoves ==
    ASSUME TypeOK, NEW o \in Owners, NEW id \in ObjIds, ReleaseObject(o, id)
    PROVE  /\ ol' \in [ObjIds -> SUBSET Owners]
           /\ bl' \in [Buckets -> SUBSET Owners]
           /\ MovesOwnLocks(o)
<1>1. BucketOf[id] \in Buckets
  BY SetAssumption
<1>2. QED
  BY <1>1, ObjectLockMoves, BucketLockMoves DEF ReleaseObject, MovesOwnLocks

\* A step of one call, with whatever locks it moves, that leaves the records
\* alone.
LEMMA WorkerInv ==
    ASSUME NEW lost, InvBut(lost), NEW c \in Clients,
           NEW cl \in Calls, call' = [call EXCEPT ![c] = cl],
           UNCHANGED <<objs, task>>,
           MovesOwnLocks(c),
           \A b \in torn' : (b \in torn /\ ~Writes(c, b)) \/ Writes(c, b)',
           torn \subseteq torn',
           TypeOK', ClientLocals(c)', ClientLocksBut(c, lost)', UploadLocals(c)',
           BackedBut(lost)'
    PROVE  InvBut(lost)'
<1>1. \A d \in Clients : d # c => call'[d] = call[d]
  BY DEF InvBut, TypeOK
<1>2. /\ \A d \in Clients : d # c => Undisturbed(d)
      /\ \A k \in TaskKeys : k # c /\ TaskUndisturbed(k)
  BY <1>1, DistinctAssumption DEF Undisturbed, TaskUndisturbed
<1>3. /\ \A d \in Clients : ClientLocksBut(d, lost)'
      /\ \A k \in TaskKeys : TaskLocks(k)'
  BY <1>2, OthersKeepLocks DEF Owners
<1>4. \A b \in torn' \ lost : \E d \in Clients : Writes(d, b)'
  <2> SUFFICES ASSUME NEW b \in torn' \ lost, b \in torn, ~Writes(c, b)
               PROVE  \E d \in Clients : Writes(d, b)'
    OBVIOUS
  <2>1. PICK d \in Clients : Writes(d, b)
    BY DEF InvBut, LocksBut
  <2>2. QED
    BY <1>1, <2>1 DEF Writes
<1>5. LocksBut(lost)'
  BY <1>3, <1>4 DEF InvBut, LocksBut
<1>6. \A d \in Clients : ClientLocals(d)' /\ UploadLocals(d)'
  BY <1>1, <1>2, UndisturbedLocals DEF InvBut, ClientLocals
<1>7. \A k \in TaskKeys : TaskLocals(k)'
  BY <1>2, UndisturbedLocals
<1>8. QED
  BY <1>5, <1>6, <1>7 DEF InvBut

\* A call that ends and gives its locks back.
LEMMA LeavesInv ==
    ASSUME NEW lost, InvBut(lost), NEW c \in Clients, call[c].pc # "uploadBucket", Return(c),
           UNCHANGED <<objs, torn, task, handle, now, left>>,
           ol' \in [ObjIds -> SUBSET Owners], bl' \in [Buckets -> SUBSET Owners],
           MovesOwnLocks(c),
           meta' \in [Paths -> Metas \union {NoMeta, TornMeta}],
           data' \in [Paths -> Files \union {NoData}],
           mtx' \in Clients \union {NoClient},
           BackedBut(lost)'
    PROVE  InvBut(lost)'
<1>1. call' = [call EXCEPT ![c] = Idle] /\ call'[c] = Idle /\ call' \in [Clients -> Calls]
  BY IdleType DEF InvBut, TypeOK, Return
<1>2. TypeOK'
  BY <1>1 DEF InvBut, TypeOK
<1>3. ClientLocals(c)' /\ ClientLocksBut(c, lost)' /\ UploadLocals(c)'
  BY <1>1
     DEF Idle, ClientLocals, ClientLocksBut, ClientLocks, UploadLocals, SavesBucketAt, OwnsObjectAt, OwnsBucketAt
<1>4. \A b \in torn' : b \in torn /\ ~Writes(c, b)
  BY DEF Writes
<1>5. QED
  BY <1>1, <1>2, <1>3, <1>4, IdleType, WorkerInv

LEMMA UploadFailsInv ==
    ASSUME NEW lost, InvBut(lost), NEW c \in Clients,
           UploadFails(c) \/ UploadWriteMetaFails(c)
    PROVE  InvBut(lost)'
<1>1. /\ call[c].pc \in OwnsObjectAt /\ call[c].pc # "uploadBucket"
      /\ Return(c) /\ ReleaseObject(c, call[c].obj)
      /\ UNCHANGED <<disk, mtx, task, handle, now, left>>
  BY DEF UploadFails, UploadWriteMetaFails, Uploading, OwnsObjectAt, OwnsBucketAt
<1>2. TypeOK /\ call[c].obj \in ObjIds
  BY <1>1 DEF InvBut, ClientLocals
<1>3. /\ ol' \in [ObjIds -> SUBSET Owners] /\ bl' \in [Buckets -> SUBSET Owners]
      /\ MovesOwnLocks(c)
  BY <1>1, <1>2, ReleaseMoves DEF Owners
<1>4. BackedBut(lost)'
  BY <1>1, ReferencesKept DEF disk, Exists
<1>5. QED
  BY <1>1, <1>2, <1>3, <1>4, LeavesInv DEF disk, TypeOK

LEMMA UploadLoadFailsInv ==
    ASSUME NEW lost, InvBut(lost), NEW c \in Clients, UploadLoadFails(c)
    PROVE  InvBut(lost)'
<1>1. TypeOK /\ call[c].obj \in ObjIds /\ call[c].pc # "uploadBucket"
  BY DEF UploadLoadFails, Uploading, OwnsObjectAt, InvBut, ClientLocals
<1>2. ol' \in [ObjIds -> SUBSET Owners] /\ MovesOwnLocks(c)
  BY <1>1, ObjectLockMoves DEF UploadLoadFails, Owners, MovesOwnLocks
<1>3. BackedBut(lost)'
  BY ReferencesKept DEF UploadLoadFails, disk, Exists
<1>4. QED
  BY <1>1, <1>2, <1>3, LeavesInv DEF UploadLoadFails, disk, TypeOK

LEMMA UploadWriteMetaInv ==
    ASSUME NEW lost, InvBut(lost), NEW c \in Clients, UploadWriteMeta(c)
    PROVE  InvBut(lost)'
<1> DEFINE m == [obj |-> call[c].obj, mtime |-> call[c].mtime]
<1>1. /\ TypeOK /\ call[c].obj \in ObjIds /\ call[c].pc # "uploadBucket"
      /\ call[c].mtime \in Times /\ Backed(call[c].obj)
  BY CallType DEF UploadWriteMeta, Uploading, OwnsObjectAt, OwnsBucketAt, InvBut, ClientLocals,
                  UploadLocals, Calls
<1>2. /\ ol' \in [ObjIds -> SUBSET Owners] /\ bl' \in [Buckets -> SUBSET Owners]
      /\ MovesOwnLocks(c)
  BY <1>1, ReleaseMoves DEF UploadWriteMeta, Owners
<1>3. meta' \in [Paths -> Metas \union {NoMeta, TornMeta}]
  BY <1>1 DEF UploadWriteMeta, TypeOK, Metas
<1>4. BackedBut(lost)'
  <2>1. ASSUME NEW p \in Paths
        PROVE  meta'[p] = meta[p] \/ meta'[p] = m
    BY <1>1 DEF UploadWriteMeta, TypeOK
  <2>2. QED
    BY <1>1, <2>1 DEF InvBut, BackedBut, Exists, Backed, UploadWriteMeta
<1>5. QED
  BY <1>1, <1>2, <1>3, <1>4, LeavesInv DEF UploadWriteMeta, TypeOK

\* A step of an upload that keeps or takes locks and goes on.
LEMMA GoesOnInv ==
    ASSUME NEW lost, InvBut(lost), NEW c \in Clients, call[c].pc # "uploadBucket",
           NEW cl \in Calls, call' = [call EXCEPT ![c] = cl],
           cl.path = call[c].path, call[c].path \in Paths,
           cl.obj \in ObjIds \/ cl.pc = "uploadHash",
           UNCHANGED <<objs, torn, data, mtx, task, handle, now, left>>,
           ol' \in [ObjIds -> SUBSET Owners], bl' \in [Buckets -> SUBSET Owners],
           MovesOwnLocks(c),
           meta' \in [Paths -> Metas \union {NoMeta, TornMeta}],
           cl.pc = "uploadTransfer" => cl.enc # NoContent,
           ClientLocksBut(c, lost)', UploadLocals(c)', BackedBut(lost)'
    PROVE  InvBut(lost)'
<1>1. call'[c] = cl /\ call' \in [Clients -> Calls]
  BY DEF InvBut, TypeOK
<1>2. TypeOK'
  BY <1>1 DEF InvBut, TypeOK
<1>3. ClientLocals(c)'
  BY <1>1 DEF ClientLocals, OwnsObjectAt, OwnsBucketAt
<1>4. \A b \in torn' : b \in torn /\ ~Writes(c, b)
  BY DEF Writes
<1>5. QED
  BY <1>2, <1>3, <1>4, WorkerInv

LEMMA UploadLockInv ==
    ASSUME NEW lost, InvBut(lost), NEW c \in Clients, UploadLock(c)
    PROVE  InvBut(lost)'
<1> DEFINE cl == [call[c] EXCEPT !.pc = "uploadMatch"]
<1>1. /\ TypeOK /\ call[c] \in Calls /\ call[c].pc # "uploadBucket"
      /\ call[c].path \in Paths /\ call[c].obj \in ObjIds
  BY CallType DEF UploadLock, Uploading, InvBut, ClientLocals
<1>2. /\ ol' \in [ObjIds -> SUBSET Owners] /\ MovesOwnLocks(c)
      /\ ol'[call[c].obj] = {c}
  BY <1>1, ObjectLockMoves DEF UploadLock, Owners, MovesOwnLocks
<1>3. cl \in Calls /\ cl.pc = "uploadMatch" /\ cl.path = call[c].path /\ cl.obj = call[c].obj
  BY <1>1 DEF Calls, Steps
<1>4. call' = [call EXCEPT ![c] = cl] /\ call'[c] = cl
  BY <1>1 DEF UploadLock, TypeOK
<1> HIDE DEF cl
<1>5. ClientLocksBut(c, lost)' /\ UploadLocals(c)'
  BY <1>2, <1>3, <1>4 DEF ClientLocksBut, ClientLocks, UploadLocals, SavesBucketAt, OwnsBucketAt
<1>6. BackedBut(lost)'
  BY ReferencesKept DEF UploadLock, disk, Exists
<1>7. QED
  BY <1>1, <1>2, <1>3, <1>4, <1>5, <1>6, GoesOnInv DEF UploadLock, disk, TypeOK

LEMMA NewRecordType ==
    ASSUME NEW sz \in Nat, NEW n \in 0..MaxNonce
    PROVE  NewRecord(sz, n) \in Records /\ NewRecord(sz, n) # NoRecord
BY DistinctAssumption DEF NewRecord, Records

LEMMA UploadOccupyInv ==
    ASSUME NEW lost, InvBut(lost), NEW c \in Clients, UploadOccupy(c)
    PROVE  InvBut(lost)'
<1> DEFINE id == call[c].obj
           loaded == LoadBucket(BucketOf[id])
           bkt == IF loaded[id] = NoRecord
                  THEN [loaded EXCEPT ![id] = NewRecord(call[c].size, call[c].nonce)]
                  ELSE loaded
           cl == [call[c] EXCEPT !.pc = "uploadPlan", !.bkt = bkt]
<1>1. /\ TypeOK /\ call[c] \in Calls /\ call[c].pc = "uploadMatch"
      /\ call[c].path \in Paths /\ id \in ObjIds /\ BucketOf[id] \in Buckets \ lost
      /\ ol[id] = {c}
  BY CallType, SetAssumption
     DEF UploadOccupy, Uploading, InvBut, LocksBut, ClientLocksBut, ClientLocks, ClientLocals, OwnsObjectAt
<1>2. /\ bl' \in [Buckets -> SUBSET Owners] /\ MovesOwnLocks(c)
      /\ bl'[BucketOf[id]] = {c} /\ UNCHANGED ol
  BY <1>1, BucketLockMoves DEF UploadOccupy, Owners, MovesOwnLocks
<1>3. /\ bkt \in BucketFiles /\ bkt[id] # NoRecord
      /\ \A x \in ObjIds : BucketOf[x] = BucketOf[id] => Extends(bkt[x], objs[x])
  <2>1. NewRecord(call[c].size, call[c].nonce) \in Records \ {NoRecord}
    BY <1>1, NewRecordType DEF Calls
  <2>2. /\ loaded \in BucketFiles
        /\ \A x \in ObjIds : BucketOf[x] = BucketOf[id] => loaded[x] = objs[x]
    BY <1>1 DEF LoadBucket, BucketFiles, TypeOK
  <2> HIDE DEF loaded
  <2>3. bkt \in BucketFiles /\ bkt[id] # NoRecord
    BY <1>1, <2>1, <2>2 DEF BucketFiles
  <2>4. \A x \in ObjIds : BucketOf[x] = BucketOf[id] => bkt[x] = objs[x] \/ objs[x] = NoRecord
    BY <1>1, <2>2 DEF BucketFiles
  <2> HIDE DEF bkt
  <2>5. QED
    BY <2>3, <2>4 DEF Extends
<1>4. call' = [call EXCEPT ![c] = cl] /\ call'[c] = cl
  BY <1>1 DEF UploadOccupy, TypeOK
<1> HIDE DEF bkt
<1>5. /\ cl \in Calls /\ cl.pc = "uploadPlan" /\ cl.path = call[c].path
      /\ cl.obj = id /\ cl.bkt = bkt
  BY <1>1, <1>3 DEF Calls, Steps
<1> HIDE DEF cl
<1>6. ClientLocksBut(c, lost)'
  BY <1>1, <1>2, <1>4, <1>5 DEF ClientLocksBut, ClientLocks
<1>7. UploadLocals(c)'
  BY <1>3, <1>4, <1>5 DEF UploadLocals, UploadOccupy, disk
<1>8. BackedBut(lost)'
  BY ReferencesKept DEF UploadOccupy, disk, Exists
<1>9. /\ UNCHANGED <<objs, torn, data, mtx, task, handle, now, left>>
      /\ meta' \in [Paths -> Metas \union {NoMeta, TornMeta}]
      /\ ol' \in [ObjIds -> SUBSET Owners]
  BY <1>1 DEF UploadOccupy, disk, TypeOK
<1>10. call[c].pc # "uploadBucket" /\ cl.pc # "uploadTransfer"
  BY <1>1, <1>5
<1>11. QED
  BY <1>1, <1>2, <1>4, <1>5, <1>6, <1>7, <1>8, <1>9, <1>10, GoesOnInv

LEMMA UploadNextNonceInv ==
    ASSUME NEW lost, InvBut(lost), NEW c \in Clients, UploadNextNonce(c)
    PROVE  InvBut(lost)'
<1> DEFINE id == call[c].obj
           cl == [call[c] EXCEPT !.pc = "uploadHash", !.obj = NoObj, !.nonce = call[c].nonce + 1]
<1>1. /\ TypeOK /\ call[c] \in Calls /\ call[c].pc = "uploadMatch"
      /\ call[c].path \in Paths /\ id \in ObjIds
  BY CallType DEF UploadNextNonce, Uploading, InvBut, ClientLocals, OwnsObjectAt
<1>2. ol' \in [ObjIds -> SUBSET Owners] /\ MovesOwnLocks(c)
  BY <1>1, ObjectLockMoves DEF UploadNextNonce, Owners, MovesOwnLocks
<1>3. call[c].nonce + 1 \in 0..MaxNonce
  BY <1>1, BoundAssumption DEF UploadNextNonce, Calls
<1>4. cl \in Calls /\ cl.pc = "uploadHash" /\ cl.path = call[c].path
  BY <1>1, <1>3 DEF Calls, Steps
<1>5. call' = [call EXCEPT ![c] = cl] /\ call'[c] = cl
  BY <1>1 DEF UploadNextNonce, TypeOK
<1> HIDE DEF cl
<1>6. ClientLocksBut(c, lost)' /\ UploadLocals(c)'
  BY <1>4, <1>5
     DEF ClientLocksBut, ClientLocks, UploadLocals, SavesBucketAt, OwnsObjectAt, OwnsBucketAt
<1>7. BackedBut(lost)'
  BY ReferencesKept DEF UploadNextNonce, disk, Exists
<1>8. /\ UNCHANGED <<objs, torn, data, mtx, task, handle, now, left>>
      /\ meta' \in [Paths -> Metas \union {NoMeta, TornMeta}]
      /\ bl' \in [Buckets -> SUBSET Owners]
  BY <1>1 DEF UploadNextNonce, disk, TypeOK
<1>9. QED
  BY <1>1, <1>2, <1>4, <1>5, <1>6, <1>7, <1>8, GoesOnInv

\* A record that is extended is extended further.
LEMMA ExtendsTransitive ==
    ASSUME NEW r1, NEW r2, NEW r3, Extends(r3, r2), Extends(r2, r1)
    PROVE  Extends(r3, r1)
BY DEF Extends

\* The bucket with one more storage in the record of an object.
LEMMA StoredType ==
    ASSUME NEW bkt \in BucketFiles, NEW id \in ObjIds, bkt[id] # NoRecord,
           NEW s \in Schemes, NEW b \in Bytes
    PROVE  /\ Stored(bkt, id, s, b) \in BucketFiles
           /\ Stored(bkt, id, s, b)[id] # NoRecord
           /\ Stored(bkt, id, s, b)[id].at[s] # NoContent
           /\ \A x \in ObjIds : Extends(Stored(bkt, id, s, b)[x], bkt[x])
<1> DEFINE old == bkt[id]
           new == [old EXCEPT !.at = [old.at EXCEPT ![s] = b]]
           stored == Stored(bkt, id, s, b)
<1>1. old \in Records
  BY DEF BucketFiles
<1>2. /\ new \in Records
      /\ new.size = old.size /\ new.nonce = old.nonce
      /\ new.at = [old.at EXCEPT ![s] = b]
  BY <1>1 DEF Records
<1>3. old.at \in [Schemes -> Bytes \union {NoContent}]
  BY <1>1 DEF Records
<1>4. stored = [bkt EXCEPT ![id] = new]
  BY DEF Stored
<1> HIDE DEF new, old, stored
<1>5. new # NoRecord /\ new.at[s] = b /\ b # NoContent
  BY <1>2, <1>3, DistinctAssumption, ContentAssumption
<1>6. Extends(new, old)
  BY <1>2, <1>3, <1>5 DEF Extends
<1>7. /\ stored \in BucketFiles /\ stored[id] = new
      /\ \A x \in ObjIds : x # id => stored[x] = bkt[x]
  BY <1>2, <1>4 DEF BucketFiles
<1>8. \A x \in ObjIds : Extends(bkt[x], bkt[x])
  BY DEF Extends
<1>9. QED
  BY <1>5, <1>6, <1>7, <1>8 DEF old, stored

\* A step of an upload towards the save of its bucket, which may add to it.
LEMMA PreparesInv ==
    ASSUME NEW lost, InvBut(lost), NEW c \in Clients,
           call[c].pc \in SavesBucketAt \ {"uploadBucket"},
           NEW cl \in Calls, call' = [call EXCEPT ![c] = cl],
           cl.path = call[c].path, cl.obj = call[c].obj,
           cl.pc \in SavesBucketAt \ {"uploadBucket"},
           cl.bkt[cl.obj] # NoRecord,
           \A x \in ObjIds : Extends(cl.bkt[x], call[c].bkt[x]),
           cl.pc = "uploadTruncate" => \E s \in Schemes : cl.bkt[cl.obj].at[s] # NoContent,
           cl.pc = "uploadTransfer" => cl.enc # NoContent,
           UNCHANGED <<disk, locks, task, handle, now, left>>
    PROVE  InvBut(lost)'
<1>1. TypeOK /\ call'[c] = cl /\ call[c].pc \in OwnsBucketAt /\ cl.pc \in OwnsBucketAt
  BY DEF InvBut, TypeOK, SavesBucketAt
<1>2. /\ call[c].path \in Paths /\ call[c].obj \in ObjIds
      /\ ol[call[c].obj] = {c} /\ bl[BucketOf[call[c].obj]] = {c}
      /\ BucketOf[call[c].obj] \notin lost
  BY <1>1
     DEF InvBut, ClientLocals, LocksBut, ClientLocksBut, ClientLocks, OwnsObjectAt, OwnsBucketAt
<1>3. ClientLocksBut(c, lost)'
  BY <1>1, <1>2 DEF ClientLocksBut, ClientLocks, locks
<1>4. UploadLocals(c)'
  <2>1. \A x \in ObjIds : BucketOf[x] = BucketOf[cl.obj] => Extends(cl.bkt[x], objs[x])
    BY <1>1, ExtendsTransitive DEF InvBut, UploadLocals
  <2>2. QED
    BY <1>1, <2>1 DEF UploadLocals, SavesBucketAt, disk
<1>5. BackedBut(lost)'
  BY ReferencesKept DEF disk, Exists
<1>6. QED
  BY <1>1, <1>2, <1>3, <1>4, <1>5, GoesOnInv
     DEF disk, locks, TypeOK, MovesOwnLocks, SavesBucketAt

LEMMA UploadPlanInv ==
    ASSUME NEW lost, InvBut(lost), NEW c \in Clients, UploadPlan(c)
    PROVE  InvBut(lost)'
<1>1. /\ TypeOK /\ call[c] \in Calls /\ call[c].pc = "uploadPlan"
      /\ call[c].bkt[call[c].obj] # NoRecord
  BY CallType DEF UploadPlan, Uploading, InvBut, UploadLocals, SavesBucketAt, OwnsBucketAt
<1>2. ASSUME NEW step \in {"uploadEncode", "uploadTruncate"}, NEW inline \in BOOLEAN,
             call' = [call EXCEPT ![c] = [@ EXCEPT !.pc = step, !.inline = inline]],
             UNCHANGED <<disk, locks, task, handle, now, left>>,
             step = "uploadTruncate" => Base64 \in Storages(c)
      PROVE  InvBut(lost)'
  <2> DEFINE cl == [call[c] EXCEPT !.pc = step, !.inline = inline]
  <2>1. /\ cl \in Calls /\ cl.pc = step /\ cl.path = call[c].path
        /\ cl.obj = call[c].obj /\ cl.bkt = call[c].bkt
    BY <1>1 DEF Calls, Steps
  <2>2. call' = [call EXCEPT ![c] = cl]
    BY <1>2
  <2> HIDE DEF cl
  <2>3. cl.pc = "uploadTruncate" => \E s \in Schemes : cl.bkt[cl.obj].at[s] # NoContent
    BY <1>2, <2>1 DEF Storages
  <2>4. \A x \in ObjIds : Extends(cl.bkt[x], call[c].bkt[x])
    BY <2>1 DEF Extends
  <2>5. cl.pc \in SavesBucketAt \ {"uploadBucket"} /\ call[c].pc \in SavesBucketAt \ {"uploadBucket"}
    BY <1>1, <2>1 DEF SavesBucketAt, OwnsBucketAt
  <2>6. QED
    BY <1>1, <1>2, <2>1, <2>2, <2>3, <2>4, <2>5, PreparesInv
<1>3. QED
  BY <1>2 DEF UploadPlan

LEMMA UploadEncodeInv ==
    ASSUME NEW lost, InvBut(lost), NEW c \in Clients, UploadEncode(c)
    PROVE  InvBut(lost)'
<1> DEFINE p == call[c].path
           id == call[c].obj
           stored == Stored(call[c].bkt, id, Base64, data[p].content)
           cl1 == [call[c] EXCEPT !.pc = "uploadTruncate", !.bkt = stored]
           cl2 == [call[c] EXCEPT !.pc = "uploadTransfer", !.enc = data[p].content]
<1>1. /\ TypeOK /\ call[c] \in Calls /\ call[c].pc = "uploadEncode"
      /\ p \in Paths /\ id \in ObjIds /\ call[c].bkt[id] # NoRecord
      /\ call[c].bkt \in BucketFiles /\ Base64 \in Schemes
      /\ call[c].pc \in SavesBucketAt \ {"uploadBucket"}
  BY CallType DEF UploadEncode, Uploading, InvBut, UploadLocals, ClientLocals, Calls, Schemes,
                  SavesBucketAt, OwnsBucketAt, OwnsObjectAt
<1>2. CASE Present(p) /\ UNCHANGED <<disk, locks, task, handle, now, left>>
           /\ call' = [call EXCEPT ![c] = cl1]
  <2>1. data[p].content \in Bytes
    BY <1>1, <1>2, FileType DEF Files
  <2>2. /\ stored \in BucketFiles /\ stored[id] # NoRecord /\ stored[id].at[Base64] # NoContent
        /\ \A x \in ObjIds : Extends(stored[x], call[c].bkt[x])
    BY <1>1, <2>1, StoredType
  <2> HIDE DEF stored
  <2>3. /\ cl1 \in Calls /\ cl1.pc = "uploadTruncate" /\ cl1.path = p
        /\ cl1.obj = id /\ cl1.bkt = stored
    BY <1>1, <2>2 DEF Calls, Steps
  <2>4. cl1.pc \in SavesBucketAt \ {"uploadBucket"}
    BY <2>3 DEF SavesBucketAt, OwnsBucketAt
  <2> HIDE DEF cl1
  <2>5. QED
    BY <1>1, <1>2, <2>2, <2>3, <2>4, PreparesInv
<1>3. CASE Present(p) /\ UNCHANGED <<disk, locks, task, handle, now, left>>
           /\ call' = [call EXCEPT ![c] = cl2]
  <2>1. data[p].content \in Bytes /\ data[p].content # NoContent
    BY <1>1, <1>3, FileType, ContentAssumption DEF Files
  <2>2. /\ cl2 \in Calls /\ cl2.pc = "uploadTransfer" /\ cl2.path = p /\ cl2.obj = id
        /\ cl2.bkt = call[c].bkt /\ cl2.enc # NoContent
    BY <1>1, <2>1 DEF Calls, Steps
  <2>3. cl2.pc \in SavesBucketAt \ {"uploadBucket"}
    BY <2>2 DEF SavesBucketAt, OwnsBucketAt
  <2> HIDE DEF cl2
  <2>4. \A x \in ObjIds : Extends(cl2.bkt[x], call[c].bkt[x])
    BY <2>2 DEF Extends
  <2>5. QED
    BY <1>1, <1>3, <2>2, <2>3, <2>4, PreparesInv
<1>4. /\ Present(p) /\ UNCHANGED <<disk, locks, task, handle, now, left>>
      /\ call' = [call EXCEPT ![c] = IF call[c].inline THEN cl1 ELSE cl2]
  BY DEF UploadEncode
<1> HIDE DEF cl1, cl2, p
<1>5. QED
  BY <1>2, <1>3, <1>4

LEMMA UploadTransferInv ==
    ASSUME NEW lost, InvBut(lost), NEW c \in Clients, UploadTransfer(c)
    PROVE  InvBut(lost)'
<1> DEFINE id == call[c].obj
           e == call[c].scheme
           old == call[c].bkt[id].at[e]
           stored(b) == Stored(call[c].bkt, id, e, b)
           cl(b) == [call[c] EXCEPT !.pc = "uploadTruncate", !.enc = NoContent, !.bkt = stored(b)]
<1>1. /\ TypeOK /\ call[c] \in Calls /\ call[c].pc = "uploadTransfer"
      /\ id \in ObjIds /\ call[c].bkt[id] # NoRecord
      /\ call[c].bkt \in BucketFiles /\ e \in Schemes
      /\ call[c].pc \in SavesBucketAt \ {"uploadBucket"}
      /\ call[c].enc \in Bytes
  BY CallType DEF UploadTransfer, Uploading, InvBut, UploadLocals, ClientLocals, Calls,
                  SavesBucketAt, OwnsBucketAt, OwnsObjectAt
<1>2. ASSUME NEW b \in UploadResults(old, call[c].enc),
             call' = [call EXCEPT ![c] = cl(b)],
             UNCHANGED <<disk, locks, task, handle, now, left>>
      PROVE  InvBut(lost)'
  <2>1. old \in Bytes \union {NoContent}
    BY <1>1 DEF BucketFiles, Records
  <2>2. b \in Bytes
    BY <1>1, <1>2, <2>1 DEF UploadResults
  <2>3. /\ stored(b) \in BucketFiles /\ stored(b)[id] # NoRecord
        /\ stored(b)[id].at[e] # NoContent
        /\ \A x \in ObjIds : Extends(stored(b)[x], call[c].bkt[x])
    BY <1>1, <2>2, StoredType
  <2> HIDE DEF stored
  <2>4. /\ cl(b) \in Calls /\ cl(b).pc = "uploadTruncate" /\ cl(b).path = call[c].path
        /\ cl(b).obj = id /\ cl(b).bkt = stored(b)
    BY <1>1, <2>3 DEF Calls, Steps
  <2>5. cl(b).pc \in SavesBucketAt \ {"uploadBucket"}
    BY <2>4 DEF SavesBucketAt, OwnsBucketAt
  <2> HIDE DEF cl
  <2>6. QED
    BY <1>1, <1>2, <2>3, <2>4, <2>5, PreparesInv
<1>3. /\ \E b \in UploadResults(old, call[c].enc) : call' = [call EXCEPT ![c] = cl(b)]
      /\ UNCHANGED <<disk, locks, task, handle, now, left>>
  BY DEF UploadTransfer
<1> HIDE DEF cl
<1>4. QED
  BY <1>2, <1>3

LEMMA UploadTruncateBucketInv ==
    ASSUME NEW lost, InvBut(lost), NEW c \in Clients, UploadTruncateBucket(c)
    PROVE  InvBut(lost)'
<1> DEFINE id == call[c].obj
           cl == [call[c] EXCEPT !.pc = "uploadBucket"]
<1>1. /\ TypeOK /\ call[c] \in Calls /\ call[c].pc = "uploadTruncate"
      /\ call[c].path \in Paths /\ id \in ObjIds /\ BucketOf[id] \in Buckets \ lost
      /\ ol[id] = {c} /\ bl[BucketOf[id]] = {c}
  BY CallType, SetAssumption
     DEF UploadTruncateBucket, Uploading, InvBut, LocksBut, ClientLocksBut, ClientLocks, ClientLocals,
         OwnsObjectAt, OwnsBucketAt
<1>2. /\ cl \in Calls /\ cl.pc = "uploadBucket" /\ cl.path = call[c].path
      /\ cl.obj = id /\ cl.bkt = call[c].bkt
  BY <1>1 DEF Calls, Steps
<1>3. call' = [call EXCEPT ![c] = cl] /\ call'[c] = cl
  BY <1>1 DEF UploadTruncateBucket, TypeOK
<1>4. /\ UNCHANGED <<meta, data, objs, mtx, ol, bl, task, handle, now, left>>
      /\ torn' = torn \union {BucketOf[id]}
  BY DEF UploadTruncateBucket, locks
<1> HIDE DEF cl
<1>5. call' \in [Clients -> Calls]
  BY <1>1, <1>2, <1>3 DEF TypeOK
<1>6. TypeOK'
  BY <1>1, <1>4, <1>5 DEF TypeOK
<1>7. ClientLocals(c)' /\ ClientLocksBut(c, lost)'
  BY <1>1, <1>2, <1>3, <1>4 DEF ClientLocals, ClientLocksBut, ClientLocks
<1>8. UploadLocals(c)'
  BY <1>1, <1>2, <1>3, <1>4 DEF InvBut, UploadLocals, SavesBucketAt, OwnsBucketAt
<1>9. \A b \in torn' : (b \in torn /\ ~Writes(c, b)) \/ Writes(c, b)'
  BY <1>1, <1>2, <1>3, <1>4 DEF Writes
<1>10. MovesOwnLocks(c) /\ BackedBut(lost)'
  BY <1>4, ReferencesKept DEF MovesOwnLocks, Exists
<1>11. QED
  BY <1>2, <1>3, <1>4, <1>6, <1>7, <1>8, <1>9, <1>10, WorkerInv

LEMMA UploadTruncateMetaInv ==
    ASSUME NEW lost, InvBut(lost), NEW c \in Clients, UploadTruncateMeta(c)
    PROVE  InvBut(lost)'
<1> DEFINE cl == [call[c] EXCEPT !.pc = "uploadMeta"]
<1>1. /\ TypeOK /\ call[c] \in Calls /\ call[c].pc = "uploadTruncateMeta"
      /\ call[c].path \in Paths /\ call[c].obj \in ObjIds /\ ClientLocksBut(c, lost)
  BY CallType
     DEF UploadTruncateMeta, Uploading, InvBut, LocksBut, ClientLocals, OwnsObjectAt, OwnsBucketAt
<1>2. /\ cl \in Calls /\ cl.pc = "uploadMeta" /\ cl.path = call[c].path
      /\ cl.obj = call[c].obj /\ cl.bkt = call[c].bkt
  BY <1>1 DEF Calls, Steps
<1>3. call' = [call EXCEPT ![c] = cl] /\ call'[c] = cl
  BY <1>1 DEF UploadTruncateMeta, TypeOK
<1>4. /\ UNCHANGED <<data, objs, torn, mtx, ol, bl, task, handle, now, left>>
      /\ meta' = [meta EXCEPT ![call[c].path] = TornMeta]
  BY DEF UploadTruncateMeta, locks
<1> HIDE DEF cl
<1>5. meta' \in [Paths -> Metas \union {NoMeta, TornMeta}]
  BY <1>1, <1>4 DEF TypeOK
<1>6. ClientLocksBut(c, lost)'
  BY <1>1, <1>2, <1>3, <1>4 DEF ClientLocksBut, ClientLocks, OwnsObjectAt, OwnsBucketAt
<1>7. UploadLocals(c)'
  BY <1>1, <1>2, <1>3, <1>4 DEF InvBut, UploadLocals, SavesBucketAt, Backed
<1>8. BackedBut(lost)'
  <2>1. ASSUME NEW p \in Paths, Exists(p)'
        PROVE  Exists(p) /\ meta'[p] = meta[p]
    BY <1>1, <1>4, <2>1 DEF Exists, TypeOK
  <2>2. QED
    BY <1>4, <2>1, ReferencesKept
<1>9. MovesOwnLocks(c) /\ ol' \in [ObjIds -> SUBSET Owners] /\ bl' \in [Buckets -> SUBSET Owners]
  BY <1>1, <1>4 DEF MovesOwnLocks, TypeOK
<1>10. QED
  BY <1>1, <1>2, <1>3, <1>4, <1>5, <1>6, <1>7, <1>8, <1>9, GoesOnInv

\* The save of a bucket: the one step that changes records.
LEMMA WriteBucketExtends ==
    ASSUME NEW lost, InvBut(lost), NEW c \in Clients, UploadWriteBucket(c)
    PROVE  /\ objs' \in BucketFiles
           /\ \A x \in ObjIds : Extends(objs'[x], objs[x])
           /\ \A x \in ObjIds : BucketOf[x] # BucketOf[call[c].obj] => objs'[x] = objs[x]
           /\ Backed(call[c].obj)'
<1> DEFINE id == call[c].obj
<1>1. /\ TypeOK /\ call[c].bkt \in BucketFiles /\ id \in ObjIds
      /\ \A x \in ObjIds : BucketOf[x] = BucketOf[id] => Extends(call[c].bkt[x], objs[x])
      /\ call[c].bkt[id] # NoRecord
      /\ \E s \in Schemes : call[c].bkt[id].at[s] # NoContent
  BY CallType
     DEF UploadWriteBucket, Uploading, InvBut, ClientLocals, UploadLocals, Calls,
         SavesBucketAt, OwnsBucketAt, OwnsObjectAt
<1>2. \A x \in ObjIds : objs'[x] = IF BucketOf[x] = BucketOf[id] THEN call[c].bkt[x] ELSE objs[x]
  BY DEF UploadWriteBucket
<1>3. objs' \in BucketFiles
  BY <1>1 DEF UploadWriteBucket, TypeOK, BucketFiles
<1>4. \A x \in ObjIds : Extends(objs[x], objs[x])
  BY DEF Extends
<1>5. call'[c].obj = id
  BY CallType DEF UploadWriteBucket, InvBut, TypeOK, Calls
<1>6. Backed(call[c].obj)'
  BY <1>1, <1>2, <1>5 DEF Backed
<1>7. QED
  BY <1>1, <1>2, <1>3, <1>4, <1>6

LEMMA UploadWriteBucketInv ==
    ASSUME NEW lost, InvBut(lost), NEW c \in Clients, UploadWriteBucket(c)
    PROVE  InvBut(lost)'
<1> DEFINE id == call[c].obj
           cl == [call[c] EXCEPT !.pc = "uploadTruncateMeta"]
<1>1. /\ TypeOK /\ call[c] \in Calls /\ call[c].pc = "uploadBucket"
      /\ call[c].path \in Paths /\ id \in ObjIds /\ BucketOf[id] \in Buckets \ lost
      /\ ol[id] = {c} /\ bl[BucketOf[id]] = {c}
  BY CallType, SetAssumption
     DEF UploadWriteBucket, Uploading, InvBut, LocksBut, ClientLocksBut, ClientLocks, ClientLocals,
         OwnsObjectAt, OwnsBucketAt
<1>2. /\ cl \in Calls /\ cl.pc = "uploadTruncateMeta" /\ cl.path = call[c].path
      /\ cl.obj = id
  BY <1>1 DEF Calls, Steps
<1>3. /\ call' = [call EXCEPT ![c] = cl] /\ call'[c] = cl
      /\ \A d \in Clients : d # c => call'[d] = call[d]
  BY <1>1 DEF UploadWriteBucket, TypeOK
<1>4. /\ UNCHANGED <<meta, data, mtx, ol, bl, task, handle, now, left>>
      /\ torn' = torn \ {BucketOf[id]}
  BY DEF UploadWriteBucket, locks
<1> HIDE DEF cl
<1>5. /\ objs' \in BucketFiles
      /\ \A x \in ObjIds : Extends(objs'[x], objs[x])
      /\ \A x \in ObjIds : BucketOf[x] # BucketOf[id] => objs'[x] = objs[x]
      /\ Backed(id)'
  BY WriteBucketExtends
<1>6. \A x \in ObjIds : Backed(x) => Backed(x)'
  BY <1>5 DEF Extends, Backed
<1>7. TypeOK'
  <2>1. call' \in [Clients -> Calls]
    BY <1>1, <1>2, <1>3 DEF TypeOK
  <2>2. QED
    BY <1>1, <1>4, <1>5, <2>1 DEF TypeOK
<1>8. BackedBut(lost)'
  BY <1>1, <1>4, <1>6, FileType DEF InvBut, BackedBut, Exists, Metas
<1>9. ASSUME NEW d \in Clients
      PROVE  ClientLocals(d)' /\ ClientLocksBut(d, lost)' /\ UploadLocals(d)'
  <2>1. CASE d = c
    BY <1>1, <1>2, <1>3, <1>4, <1>5, <2>1
       DEF ClientLocals, ClientLocksBut, ClientLocks, UploadLocals, SavesBucketAt
  <2>2. CASE d # c
    <3>1. /\ ClientLocals(d) /\ ClientLocksBut(d, lost) /\ UploadLocals(d) /\ call'[d] = call[d]
          /\ {d} # {c}
      BY <1>3, <2>2 DEF InvBut, LocksBut
    <3>2. ClientLocals(d)' /\ ClientLocksBut(d, lost)'
      BY <1>4, <3>1 DEF ClientLocals, ClientLocksBut, ClientLocks
    <3>3. call[d].pc \in SavesBucketAt => BucketOf[call[d].obj] # BucketOf[id]
      BY <1>1, <3>1 DEF ClientLocksBut, ClientLocks, SavesBucketAt
    <3>4. call[d].pc \in OwnsBucketAt => call[d].obj \in ObjIds
      BY <3>1 DEF ClientLocals, OwnsObjectAt
    <3>5. UploadLocals(d)'
      BY <1>5, <1>6, <3>1, <3>3, <3>4 DEF UploadLocals, SavesBucketAt, OwnsBucketAt
    <3>6. QED
      BY <3>2, <3>5
  <2>3. QED
    BY <2>1, <2>2
<1>10. ASSUME NEW k \in TaskKeys
       PROVE  TaskLocks(k)' /\ TaskLocals(k)'
  <2>1. TaskLocks(k) /\ TaskLocals(k) /\ {k} # {c} /\ k[2] \in ObjIds
    BY DistinctAssumption DEF InvBut, LocksBut, TaskKeys
  <2>2. TaskLocks(k)'
    BY <1>4, <2>1 DEF TaskLocks
  <2>3. task[k] # NoTask /\ task[k].step \in TaskOwnsBucketAt => BucketOf[k[2]] # BucketOf[id]
    BY <1>1, <2>1 DEF TaskLocks
  <2>4. TaskLocals(k)'
    BY <1>4, <1>5, <2>1, <2>3 DEF TaskLocals, TaskOwnsBucketAt
  <2>5. QED
    BY <2>2, <2>4
<1>11. lost \subseteq torn' /\ \A b \in torn' \ lost : \E d \in Clients : Writes(d, b)'
  <2> SUFFICES ASSUME NEW b \in torn \ lost, b # BucketOf[id]
               PROVE  \E d \in Clients : Writes(d, b)'
    BY <1>1, <1>4 DEF InvBut, LocksBut
  <2>1. PICK d \in Clients : Writes(d, b)
    BY DEF InvBut, LocksBut
  <2>2. d # c
    BY <2>1 DEF Writes
  <2>3. QED
    BY <1>3, <2>1, <2>2 DEF Writes
<1>12. QED
  BY <1>7, <1>8, <1>9, <1>10, <1>11 DEF InvBut, LocksBut

\* The write that fails: its bucket is one more that is lost.
LEMMA UploadWriteBucketFailsInv ==
    ASSUME NEW lost, InvBut(lost), NEW c \in Clients, UploadWriteBucketFails(c),
           NEW b, b = BucketOf[call[c].obj]
    PROVE  /\ b \in Buckets
           /\ InvBut(lost \union {b})'
           /\ \A x \in ObjIds : objs'[x] = IF BucketOf[x] = b THEN NoRecord ELSE objs[x]
<1> DEFINE id == call[c].obj
<1>1. /\ TypeOK /\ call[c].pc = "uploadBucket"
      /\ id \in ObjIds /\ b \in Buckets \ lost
      /\ ol[id] = {c} /\ bl[b] = {c}
  BY SetAssumption
     DEF UploadWriteBucketFails, Uploading, InvBut, LocksBut, ClientLocksBut, ClientLocks,
         ClientLocals, OwnsObjectAt, OwnsBucketAt
<1>2. /\ call' = [call EXCEPT ![c] = Idle] /\ call'[c] = Idle /\ call' \in [Clients -> Calls]
      /\ \A d \in Clients : d # c => call'[d] = call[d]
  BY <1>1, IdleType DEF UploadWriteBucketFails, Return, TypeOK
<1>3. /\ UNCHANGED <<meta, data, mtx, task, handle, now, left>>
      /\ torn' = torn \union {b}
      /\ \A x \in ObjIds : objs'[x] = IF BucketOf[x] = b THEN NoRecord ELSE objs[x]
  BY DEF UploadWriteBucketFails
<1>4. objs' \in BucketFiles
  BY <1>1 DEF UploadWriteBucketFails, TypeOK, BucketFiles
<1>5. /\ ol' \in [ObjIds -> SUBSET Owners] /\ bl' \in [Buckets -> SUBSET Owners]
      /\ MovesOwnLocks(c)
  BY <1>1, ReleaseMoves DEF UploadWriteBucketFails, Owners
<1>6. TypeOK'
  BY <1>1, <1>2, <1>3, <1>4, <1>5 DEF TypeOK
<1>7. BackedBut(lost \union {b})'
  BY <1>1, <1>3, FileType DEF InvBut, BackedBut, Backed, Exists, Metas
<1>8. ASSUME NEW d \in Clients
      PROVE  ClientLocals(d)' /\ ClientLocksBut(d, lost \union {b})' /\ UploadLocals(d)'
  <2>1. CASE d = c
    BY <1>2, <2>1
       DEF Idle, ClientLocals, ClientLocksBut, ClientLocks, UploadLocals, SavesBucketAt,
           OwnsObjectAt, OwnsBucketAt
  <2>2. CASE d # c
    <3>1. /\ ClientLocals(d) /\ ClientLocksBut(d, lost) /\ UploadLocals(d) /\ call'[d] = call[d]
          /\ {d} # {c} /\ Undisturbed(d)
      BY <1>2, <2>2 DEF InvBut, LocksBut, Undisturbed
    <3>2. ClientLocals(d)' /\ ClientLocksBut(d, lost)'
      BY <1>5, <2>2, <3>1, OthersKeepLocks DEF ClientLocals, Owners
    <3>3. call[d].pc \in OwnsBucketAt => BucketOf[call[d].obj] # b
      BY <1>1, <3>1 DEF ClientLocksBut, ClientLocks
    <3>4. call[d].pc \in OwnsBucketAt => call[d].obj \in ObjIds
      BY <3>1 DEF ClientLocals, OwnsObjectAt
    <3>5. UploadLocals(d)'
      BY <1>3, <3>1, <3>3, <3>4 DEF UploadLocals, SavesBucketAt, OwnsBucketAt, Backed
    <3>6. QED
      BY <3>1, <3>2, <3>3, <3>5 DEF ClientLocksBut
  <2>3. QED
    BY <2>1, <2>2
<1>9. ASSUME NEW k \in TaskKeys
      PROVE  TaskLocks(k)' /\ TaskLocals(k)'
  <2>1. TaskLocks(k) /\ TaskLocals(k) /\ {k} # {c} /\ k # c /\ k[2] \in ObjIds
    BY DistinctAssumption DEF InvBut, LocksBut, TaskKeys
  <2>2. TaskLocks(k)'
    BY <1>3, <1>5, <2>1, OthersKeepLocks DEF TaskUndisturbed, Owners
  <2>3. task[k] # NoTask /\ task[k].step \in TaskOwnsBucketAt => BucketOf[k[2]] # b
    BY <1>1, <2>1 DEF TaskLocks
  <2>4. TaskLocals(k)'
    BY <1>3, <2>1, <2>3 DEF TaskLocals, TaskOwnsBucketAt
  <2>5. QED
    BY <2>2, <2>4
<1>10. /\ lost \union {b} \subseteq torn'
       /\ \A x \in torn' \ (lost \union {b}) : \E d \in Clients : Writes(d, x)'
  <2>1. lost \union {b} \subseteq torn'
    BY <1>3 DEF InvBut, LocksBut
  <2>2. ASSUME NEW x \in torn \ lost, x # b
        PROVE  \E d \in Clients : Writes(d, x)'
    <3>1. PICK d \in Clients : Writes(d, x)
      BY <2>2 DEF InvBut, LocksBut
    <3>2. d # c
      BY <2>2, <3>1 DEF Writes
    <3>3. QED
      BY <1>2, <3>1, <3>2 DEF Writes
  <2>3. QED
    BY <1>3, <2>1, <2>2
<1>11. QED
  BY <1>1, <1>3, <1>6, <1>7, <1>8, <1>9, <1>10 DEF InvBut, LocksBut

-----------------------------------------------------------------------------
\* The steps of an eviction.
LEMMA EvictLockInv ==
    ASSUME NEW lost, InvBut(lost), NEW c \in Clients, EvictLock(c)
    PROVE  InvBut(lost)'
<1> DEFINE cl == [call[c] EXCEPT !.pc = "evictLoad"]
<1>1. /\ TypeOK /\ call[c] \in Calls /\ call[c].pc # "uploadBucket"
      /\ call[c].path \in Paths /\ call[c].obj \in ObjIds
  BY CallType DEF EvictLock, Evicting, InvBut, ClientLocals
<1>2. /\ ol' \in [ObjIds -> SUBSET Owners] /\ MovesOwnLocks(c)
      /\ ol'[call[c].obj] = {c}
  BY <1>1, ObjectLockMoves DEF EvictLock, Owners, MovesOwnLocks
<1>3. cl \in Calls /\ cl.pc = "evictLoad" /\ cl.path = call[c].path /\ cl.obj = call[c].obj
  BY <1>1 DEF Calls, Steps
<1>4. call' = [call EXCEPT ![c] = cl] /\ call'[c] = cl
  BY <1>1 DEF EvictLock, TypeOK
<1> HIDE DEF cl
<1>5. ClientLocksBut(c, lost)' /\ UploadLocals(c)'
  BY <1>2, <1>3, <1>4 DEF ClientLocksBut, ClientLocks, UploadLocals, SavesBucketAt, OwnsBucketAt
<1>6. BackedBut(lost)'
  BY ReferencesKept DEF EvictLock, disk, Exists
<1>7. QED
  BY <1>1, <1>2, <1>3, <1>4, <1>5, <1>6, GoesOnInv DEF EvictLock, disk, TypeOK

\* An eviction that goes on under its lock.
LEMMA EvictGoesOnInv ==
    ASSUME NEW lost, InvBut(lost), NEW c \in Clients, call[c].pc \in {"evictLoad", "evictHash"},
           NEW cl \in Calls, call' = [call EXCEPT ![c] = cl],
           cl.path = call[c].path, cl.obj = call[c].obj, cl.pc \in {"evictHash", "evictRemove"},
           UNCHANGED <<disk, locks, task, handle, now, left>>
    PROVE  InvBut(lost)'
<1>1. TypeOK /\ call'[c] = cl
  BY DEF InvBut, TypeOK
<1>2. call[c].path \in Paths /\ call[c].obj \in ObjIds /\ ol[call[c].obj] = {c}
  BY DEF InvBut, ClientLocals, LocksBut, ClientLocksBut, ClientLocks, OwnsObjectAt
<1>3. ClientLocksBut(c, lost)' /\ UploadLocals(c)'
  BY <1>1, <1>2
     DEF ClientLocksBut, ClientLocks, UploadLocals, SavesBucketAt, OwnsBucketAt, locks
<1>4. BackedBut(lost)'
  BY ReferencesKept DEF disk, Exists
<1>5. QED
  BY <1>1, <1>2, <1>3, <1>4, GoesOnInv DEF disk, locks, TypeOK, MovesOwnLocks

LEMMA EvictReturnMoves ==
    ASSUME NEW lost, InvBut(lost),
           NEW c \in Clients, call[c].pc \in {"evictLoad", "evictHash", "evictRemove"},
           EvictReturn(c), UNCHANGED bl
    PROVE  /\ ol' \in [ObjIds -> SUBSET Owners] /\ bl' \in [Buckets -> SUBSET Owners]
           /\ MovesOwnLocks(c)
           /\ mtx' \in Clients \union {NoClient}
           /\ Return(c)
<1>1. TypeOK /\ call[c].obj \in ObjIds
  BY DEF InvBut, ClientLocals, OwnsObjectAt
<1>2. QED
  BY <1>1, ObjectLockMoves DEF EvictReturn, Owners, MovesOwnLocks, TypeOK

LEMMA EvictLoadInv ==
    ASSUME NEW lost, InvBut(lost), NEW c \in Clients, EvictLoad(c)
    PROVE  InvBut(lost)'
<1> DEFINE cl == [call[c] EXCEPT !.pc = "evictHash", !.nonce = objs[call[c].obj].nonce]
<1>1. TypeOK /\ call[c] \in Calls /\ call[c].obj \in ObjIds
  BY CallType DEF EvictLoad, Evicting, InvBut, ClientLocals, OwnsObjectAt
<1>2. objs[call[c].obj].nonce \in 0..MaxNonce
  BY <1>1 DEF EvictLoad, TypeOK, BucketFiles, Records
<1>3. cl \in Calls /\ cl.pc = "evictHash" /\ cl.path = call[c].path /\ cl.obj = call[c].obj
  BY <1>1, <1>2 DEF Calls, Steps
<1>4. /\ call' = [call EXCEPT ![c] = cl] /\ call[c].pc = "evictLoad"
      /\ UNCHANGED <<disk, locks, task, handle, now, left>>
  BY DEF EvictLoad, Evicting
<1> HIDE DEF cl
<1>5. QED
  BY <1>3, <1>4, EvictGoesOnInv

LEMMA EvictLoadFailsInv ==
    ASSUME NEW lost, InvBut(lost), NEW c \in Clients, EvictLoadFails(c)
    PROVE  InvBut(lost)'
<1>1. TypeOK /\ call[c].pc = "evictLoad" /\ EvictReturn(c)
      /\ UNCHANGED <<disk, bl, task, handle, now, left>>
  BY DEF EvictLoadFails, Evicting, InvBut
<1>2. BackedBut(lost)'
  BY <1>1, ReferencesKept DEF disk, Exists
<1>3. QED
  BY <1>1, <1>2, EvictReturnMoves, LeavesInv DEF disk, TypeOK

LEMMA EvictHashInv ==
    ASSUME NEW lost, InvBut(lost), NEW c \in Clients, EvictHash(c)
    PROVE  InvBut(lost)'
<1> DEFINE cl == [call[c] EXCEPT !.pc = "evictRemove"]
<1>1. /\ TypeOK /\ call[c] \in Calls /\ call[c].pc = "evictHash"
      /\ UNCHANGED <<disk, bl, task, handle, now, left>>
  BY CallType DEF EvictHash, Evicting, InvBut
<1>2. CASE call' = [call EXCEPT ![c] = cl] /\ UNCHANGED <<mtx, ol>>
  <2>1. cl \in Calls /\ cl.pc = "evictRemove" /\ cl.path = call[c].path /\ cl.obj = call[c].obj
    BY <1>1 DEF Calls, Steps
  <2> HIDE DEF cl
  <2>2. QED
    BY <1>1, <1>2, <2>1, EvictGoesOnInv DEF locks
<1>3. CASE EvictReturn(c)
  <2>1. BackedBut(lost)'
    BY <1>1, ReferencesKept DEF disk, Exists
  <2>2. QED
    BY <1>1, <1>3, <2>1, EvictReturnMoves, LeavesInv DEF disk, TypeOK
<1>4. QED
  BY <1>2, <1>3 DEF EvictHash

LEMMA EvictRemoveInv ==
    ASSUME NEW lost, InvBut(lost), NEW c \in Clients, EvictRemove(c)
    PROVE  InvBut(lost)'
<1>1. TypeOK /\ call[c].pc = "evictRemove" /\ EvictReturn(c)
      /\ UNCHANGED <<meta, objs, torn, bl, task, handle, now, left>>
  BY DEF EvictRemove, Evicting, InvBut
<1>2. data' \in [Paths -> Files \union {NoData}]
  BY <1>1 DEF EvictRemove, TypeOK
<1>3. BackedBut(lost)'
  BY <1>1, ReferencesKept DEF Exists
<1>4. QED
  BY <1>1, <1>2, <1>3, EvictReturnMoves, LeavesInv DEF TypeOK

-----------------------------------------------------------------------------
\* The steps of a task.
LEMMA TaskInv ==
    ASSUME NEW lost, InvBut(lost), NEW k \in TaskKeys,
           NEW t \in Tasks, task' = [task EXCEPT ![k] = t],
           UNCHANGED <<meta, objs, torn, mtx, now, left>>,
           data' \in [Paths -> Files \union {NoData}],
           handle' \in [Clients -> Handles \union {NoHandle}],
           call' \in [Clients -> Calls],
           \A d \in Clients : Undisturbed(d) /\ ClientLocals(d)',
           ol' \in [ObjIds -> SUBSET Owners], bl' \in [Buckets -> SUBSET Owners],
           MovesOwnLocks(k), TaskLocks(k)', TaskLocals(k)'
    PROVE  InvBut(lost)'
<1>1. task' \in [TaskKeys -> Tasks \union {NoTask}] /\ \A j \in TaskKeys : j # k => task'[j] = task[j]
  BY DEF InvBut, TypeOK
<1>2. TypeOK'
  BY <1>1 DEF InvBut, TypeOK
<1>3. /\ \A d \in Clients : d # k
      /\ \A j \in TaskKeys : j # k => TaskUndisturbed(j)
  BY <1>1, DistinctAssumption DEF TaskUndisturbed
<1>4. /\ \A d \in Clients : ClientLocksBut(d, lost)'
      /\ \A j \in TaskKeys : TaskLocks(j)'
  BY <1>3, OthersKeepLocks DEF Owners
<1>5. /\ \A d \in Clients : UploadLocals(d)'
      /\ \A j \in TaskKeys : TaskLocals(j)'
  BY <1>3, UndisturbedLocals
<1>6. lost \subseteq torn' /\ \A b \in torn' \ lost : \E d \in Clients : Writes(d, b)'
  BY WritersStay DEF InvBut, LocksBut
<1>7. BackedBut(lost)'
  BY ReferencesKept DEF Exists
<1>8. QED
  BY <1>2, <1>4, <1>5, <1>6, <1>7 DEF InvBut, LocksBut

\* A task goes on to another step.
LEMMA TaskGoesOnInv ==
    ASSUME NEW lost, InvBut(lost), NEW k \in TaskKeys, task[k] # NoTask,
           NEW t \in Tasks, task' = [task EXCEPT ![k] = t],
           UNCHANGED <<meta, objs, torn, mtx, call, handle, now, left>>,
           data' \in [Paths -> Files \union {NoData}],
           ol' \in [ObjIds -> SUBSET Owners], bl' \in [Buckets -> SUBSET Owners],
           MovesOwnLocks(k),
           t.step \in TaskOwnsObjectAt => ol'[k[2]] = {k},
           t.step \in TaskOwnsBucketAt => bl'[BucketOf[k[2]]] = {k},
           t.step = "move" => t.got # NoContent,
           t.step \in {"inline", "inlineWrite", "fetch"} => objs[k[2]] # NoRecord,
           t.step \in {"inline", "inlineWrite"} => objs[k[2]].at[Base64] # NoContent
    PROVE  InvBut(lost)'
<1>1. TypeOK /\ task'[k] = t
  BY DEF InvBut, TypeOK
<1>2. TaskLocks(k)' /\ TaskLocals(k)'
  BY <1>1 DEF TaskLocks, TaskLocals
<1>3. \A d \in Clients : Undisturbed(d) /\ ClientLocals(d)'
  BY DEF Undisturbed, InvBut, ClientLocals
<1>4. QED
  BY <1>1, <1>2, <1>3, TaskInv DEF TypeOK

\* A task is done: the calls that wait for it are woken and own nothing.
LEMMA FinishInv ==
    ASSUME NEW lost, InvBut(lost),
           NEW k \in TaskKeys, task[k] # NoTask, NEW good \in BOOLEAN, Finish(k, good),
           UNCHANGED <<meta, objs, torn, mtx, now, left>>,
           data' \in [Paths -> Files \union {NoData}],
           handle' \in [Clients -> Handles \union {NoHandle}],
           ol' \in [ObjIds -> SUBSET Owners], bl' \in [Buckets -> SUBSET Owners],
           MovesOwnLocks(k)
    PROVE  InvBut(lost)'
<1> DEFINE t == [task[k] EXCEPT !.step = "done", !.ok = good, !.got = NoContent]
<1>1. TypeOK
  BY DEF InvBut
<1>2. t \in Tasks /\ t.step = "done"
  BY <1>1, TaskType DEF Tasks, TaskSteps
<1>3. task' = [task EXCEPT ![k] = t] /\ task'[k] = t
  BY <1>1 DEF Finish, TypeOK
<1> HIDE DEF t
<1>4. TaskLocks(k)' /\ TaskLocals(k)'
  BY <1>2, <1>3 DEF TaskLocks, TaskLocals, TaskOwnsObjectAt, TaskOwnsBucketAt
<1>5. ASSUME NEW d \in Clients
      PROVE  Undisturbed(d) /\ ClientLocals(d)' /\ call'[d] \in Calls
  <2>1. CASE d \in Waiting(k)
    <3>1. call[d].pc \in {"downloadWait", "openWait"} /\ Outsider(call[d])
      BY <1>1, <2>1, CallType
         DEF Waiting, Outsider, InvBut, ClientLocals, OwnsObjectAt, OwnsBucketAt
    <3>2. Outsider(Woken(call[d], good)) /\ call'[d] = Woken(call[d], good)
      BY <2>1, <3>1, WokenOutsider DEF Finish
    <3>3. QED
      BY <3>1, <3>2 DEF Outsider, Undisturbed, ClientLocals, OwnsObjectAt, OwnsBucketAt
  <2>2. CASE d \notin Waiting(k)
    <3>1. call'[d] = call[d]
      BY <2>2 DEF Finish
    <3>2. QED
      BY <1>1, <3>1, CallType DEF Undisturbed, InvBut, ClientLocals
  <2>3. QED
    BY <2>1, <2>2
<1>6. call' \in [Clients -> Calls]
  <2>1. call' = [d \in Clients |-> call'[d]]
    BY DEF Finish
  <2>2. QED
    BY <1>5, <2>1
<1>7. QED
  BY <1>2, <1>3, <1>4, <1>5, <1>6, TaskInv

LEMMA KeyType ==
    ASSUME NEW k \in TaskKeys
    PROVE  k \in Owners /\ k[1] \in Paths /\ k[2] \in ObjIds /\ BucketOf[k[2]] \in Buckets
BY SetAssumption DEF TaskKeys, Owners

\* A task that only changes its step.
LEMMA TaskAtType ==
    ASSUME NEW lost, InvBut(lost), NEW k \in TaskKeys, task[k] # NoTask, NEW s \in TaskSteps
    PROVE  /\ [task[k] EXCEPT !.step = s] \in Tasks
           /\ [task[k] EXCEPT !.step = s].step = s
<1>1. task[k] \in Tasks
  BY TaskType DEF InvBut
<1>2. QED
  BY <1>1 DEF Tasks

LEMMA TaskLockInv ==
    ASSUME NEW lost, InvBut(lost), NEW k \in TaskKeys, TaskLock(k)
    PROVE  InvBut(lost)'
<1> DEFINE t == [task[k] EXCEPT !.step = "bucket"]
<1>1. /\ TypeOK /\ task[k] # NoTask /\ task' = [task EXCEPT ![k] = t]
      /\ OL!Acquire(k, k[2]) /\ UNCHANGED <<disk, mtx, bl, call, handle, now, left>>
  BY DEF TaskLock, At, GoOn, InvBut
<1>2. t \in Tasks /\ t.step = "bucket"
  BY <1>1, TaskAtType DEF TaskSteps
<1> HIDE DEF t
<1>3. ol' \in [ObjIds -> SUBSET Owners] /\ MovesOwnLocks(k) /\ ol'[k[2]] = {k}
  BY <1>1, KeyType, ObjectLockMoves DEF MovesOwnLocks
<1>4. QED
  BY <1>1, <1>2, <1>3, TaskGoesOnInv DEF disk, TypeOK, TaskOwnsBucketAt

LEMMA TaskLoadInv ==
    ASSUME NEW lost, InvBut(lost), NEW k \in TaskKeys, TaskLoad(k)
    PROVE  InvBut(lost)'
<1> DEFINE s == IF IsInline(objs[k[2]]) THEN "inline" ELSE "fetch"
           t == [task[k] EXCEPT !.step = s]
<1>1. /\ TypeOK /\ task[k] # NoTask /\ task[k].step = "bucket"
      /\ task' = [task EXCEPT ![k] = t]
      /\ BL!Acquire(k, BucketOf[k[2]]) /\ UNCHANGED <<disk, mtx, ol, call, handle, now, left>>
  BY DEF TaskLoad, At, GoOn, InvBut
<1>2. objs[k[2]] # NoRecord /\ (s = "inline" => objs[k[2]].at[Base64] # NoContent)
  BY DEF TaskLoad, Readable, IsInline
<1>3. s \in {"inline", "fetch"}
  OBVIOUS
<1> HIDE DEF s
<1>4. t \in Tasks /\ t.step = s
  <2>1. s \in TaskSteps
    BY <1>3 DEF TaskSteps
  <2>2. QED
    BY <1>1, <2>1, TaskAtType
<1> HIDE DEF t
<1>5. bl' \in [Buckets -> SUBSET Owners] /\ MovesOwnLocks(k) /\ bl'[BucketOf[k[2]]] = {k}
  BY <1>1, KeyType, BucketLockMoves DEF MovesOwnLocks
<1>6. ol'[k[2]] = {k}
  BY <1>1 DEF InvBut, LocksBut, TaskLocks, TaskOwnsObjectAt
<1>7. QED
  BY <1>1, <1>2, <1>3, <1>4, <1>5, <1>6, TaskGoesOnInv DEF disk, TypeOK

LEMMA TaskLoadFailsInv ==
    ASSUME NEW lost, InvBut(lost), NEW k \in TaskKeys, TaskLoadFails(k)
    PROVE  InvBut(lost)'
<1>1. /\ TypeOK /\ task[k] # NoTask /\ Finish(k, FALSE)
      /\ OL!Release(k, k[2]) /\ UNCHANGED <<disk, mtx, bl, handle, now, left>>
  BY DEF TaskLoadFails, At, InvBut
<1>2. ol' \in [ObjIds -> SUBSET Owners] /\ MovesOwnLocks(k)
  BY <1>1, KeyType, ObjectLockMoves DEF MovesOwnLocks
<1>3. QED
  BY <1>1, <1>2, FinishInv DEF disk, TypeOK

\* A task that ends and gives both locks back.
LEMMA TaskEndsInv ==
    ASSUME NEW lost, InvBut(lost), NEW k \in TaskKeys, task[k] # NoTask, NEW good \in BOOLEAN,
           Finish(k, good), ReleaseObject(k, k[2]),
           UNCHANGED <<meta, objs, torn, mtx, now, left>>,
           data' \in [Paths -> Files \union {NoData}],
           handle' \in [Clients -> Handles \union {NoHandle}]
    PROVE  InvBut(lost)'
<1>1. /\ ol' \in [ObjIds -> SUBSET Owners] /\ bl' \in [Buckets -> SUBSET Owners]
      /\ MovesOwnLocks(k)
  BY KeyType, ReleaseMoves DEF InvBut
<1>2. QED
  BY <1>1, FinishInv

LEMMA TaskInlineCreateInv ==
    ASSUME NEW lost, InvBut(lost), NEW k \in TaskKeys, TaskInlineCreate(k)
    PROVE  InvBut(lost)'
<1> DEFINE t == [task[k] EXCEPT !.step = "inlineWrite"]
<1>1. /\ TypeOK /\ task[k] # NoTask /\ task[k].step = "inline"
      /\ task' = [task EXCEPT ![k] = t]
      /\ data' = [data EXCEPT ![k[1]] = [content |-> Torn, mtime |-> now]]
      /\ UNCHANGED <<meta, objs, torn, locks, call, handle, now, left>>
  BY DEF TaskInlineCreate, At, GoOn, InvBut
<1>2. t \in Tasks /\ t.step = "inlineWrite"
  BY <1>1, TaskAtType DEF TaskSteps
<1> HIDE DEF t
<1>3. data' \in [Paths -> Files \union {NoData}]
  BY <1>1, KeyType, EmptyFileType DEF TypeOK, Bytes
<1>4. ol'[k[2]] = {k} /\ bl'[BucketOf[k[2]]] = {k} /\ MovesOwnLocks(k)
  BY <1>1 DEF InvBut, LocksBut, TaskLocks, TaskOwnsObjectAt, TaskOwnsBucketAt, MovesOwnLocks,
              locks
<1>5. objs[k[2]] # NoRecord /\ objs[k[2]].at[Base64] # NoContent
  BY <1>1 DEF InvBut, TaskLocals
<1>6. QED
  BY <1>1, <1>2, <1>3, <1>4, <1>5, TaskGoesOnInv DEF TypeOK, locks

LEMMA TaskInlineCreateFailsInv ==
    ASSUME NEW lost, InvBut(lost), NEW k \in TaskKeys, TaskInlineCreateFails(k)
    PROVE  InvBut(lost)'
BY TaskEndsInv DEF TaskInlineCreateFails, At, disk, InvBut, TypeOK

\* The content that a task on the fast path writes.
LEMMA InlineType ==
    ASSUME NEW lost, InvBut(lost), NEW k \in TaskKeys, At(k, "inlineWrite")
    PROVE  objs[k[2]].at[Base64] \in Bytes
<1>1. objs[k[2]] \in Records /\ objs[k[2]].at[Base64] # NoContent
  BY KeyType DEF InvBut, TypeOK, BucketFiles, TaskLocals, At
<1>2. QED
  BY <1>1 DEF Records, Schemes

LEMMA TaskInlineCopyInv ==
    ASSUME NEW lost, InvBut(lost), NEW k \in TaskKeys, TaskInlineCopy(k)
    PROVE  InvBut(lost)'
<1> DEFINE t == [task[k] EXCEPT !.step = "inlineTime"]
<1>1. /\ TypeOK /\ task[k] # NoTask /\ task[k].step = "inlineWrite"
      /\ task' = [task EXCEPT ![k] = t]
      /\ UNCHANGED <<meta, objs, torn, locks, call, handle, now, left>>
  BY DEF TaskInlineCopy, At, GoOn, InvBut
<1>2. t \in Tasks /\ t.step = "inlineTime"
  BY <1>1, TaskAtType DEF TaskSteps
<1> HIDE DEF t
<1>3. Copied(k) \subseteq Bytes
  BY InlineType DEF TaskInlineCopy, Copied, Bytes
<1>4. data' \in [Paths -> Files \union {NoData}]
  BY <1>1, <1>3, KeyType, EmptyFileType DEF TaskInlineCopy, TypeOK
<1>5. ol'[k[2]] = {k} /\ bl'[BucketOf[k[2]]] = {k} /\ MovesOwnLocks(k)
  BY <1>1 DEF InvBut, LocksBut, TaskLocks, TaskOwnsObjectAt, TaskOwnsBucketAt, MovesOwnLocks,
              locks
<1>6. QED
  BY <1>1, <1>2, <1>4, <1>5, TaskGoesOnInv DEF TypeOK, locks

LEMMA TaskInlineTimeInv ==
    ASSUME NEW lost, InvBut(lost), NEW k \in TaskKeys, TaskInlineTime(k)
    PROVE  InvBut(lost)'
<1>1. task[k] # NoTask /\ Finish(k, TRUE) /\ ReleaseObject(k, k[2])
      /\ UNCHANGED <<meta, objs, torn, mtx, handle, now, left>>
  BY DEF TaskInlineTime, At
<1>2. data[k[1]].content \in Bytes /\ ModTime(task[k].mtime) \in Times
  BY KeyType, FileType, ModTimeType, TaskType DEF TaskInlineTime, At, InvBut, Files, Tasks
<1>3. data' \in [Paths -> Files \union {NoData}]
  BY <1>2, KeyType, EmptyFileType DEF TaskInlineTime, InvBut, TypeOK
<1>4. QED
  BY <1>1, <1>3, TaskEndsInv DEF InvBut, TypeOK

LEMMA TaskInlineCopyFailsInv ==
    ASSUME NEW lost, InvBut(lost), NEW k \in TaskKeys, TaskInlineCopyFails(k)
    PROVE  InvBut(lost)'
<1>1. task[k] # NoTask /\ Finish(k, FALSE) /\ ReleaseObject(k, k[2])
      /\ UNCHANGED <<meta, objs, torn, mtx, handle, now, left>>
  BY DEF TaskInlineCopyFails, At
<1>2. {Torn, objs[k[2]].at[Base64]} \subseteq Bytes
  BY InlineType DEF TaskInlineCopyFails, Bytes
<1>3. data' \in [Paths -> Files \union {NoData}]
  BY <1>2, KeyType, EmptyFileType DEF TaskInlineCopyFails, InvBut, TypeOK
<1>4. QED
  BY <1>1, <1>3, TaskEndsInv DEF InvBut, TypeOK

LEMMA TaskInlineTimeFailsInv ==
    ASSUME NEW lost, InvBut(lost), NEW k \in TaskKeys, TaskInlineTimeFails(k)
    PROVE  InvBut(lost)'
BY TaskEndsInv DEF TaskInlineTimeFails, At, disk, InvBut, TypeOK

LEMMA TaskFetchInv ==
    ASSUME NEW lost, InvBut(lost), NEW k \in TaskKeys, TaskFetch(k)
    PROVE  InvBut(lost)'
<1>1. PICK e \in Engines :
          /\ objs[k[2]].at[e] # NoContent
          /\ task' = [task EXCEPT ![k] = [@ EXCEPT !.step = "move", !.got = objs[k[2]].at[e]]]
  BY DEF TaskFetch
<1> DEFINE b == objs[k[2]].at[e]
           t == [task[k] EXCEPT !.step = "move", !.got = b]
<1>2. /\ TypeOK /\ task[k] # NoTask /\ task[k].step = "fetch"
      /\ UNCHANGED <<disk, locks, call, handle, now, left>>
  BY DEF TaskFetch, At, InvBut
<1>3. ol[k[2]] = {k} /\ bl[BucketOf[k[2]]] = {k}
  BY <1>2 DEF InvBut, LocksBut, TaskLocks, TaskOwnsObjectAt, TaskOwnsBucketAt
<1>4. objs[k[2]].at[e] \in Bytes
  <2>1. objs[k[2]] \in Records
    BY <1>2, KeyType DEF InvBut, TaskLocals, TypeOK, BucketFiles
  <2>2. QED
    BY <1>1, <2>1 DEF Records, Schemes
<1>5. t \in Tasks /\ t.step = "move" /\ t.got # NoContent
  <2>1. "move" \in TaskSteps
    BY DEF TaskSteps
  <2>2. b \in Bytes /\ b # NoContent
    BY <1>1, <1>4
  <2> HIDE DEF b
  <2>3. task[k] \in Tasks
    BY <1>2, TaskType
  <2>4. t \in Tasks /\ t.step = "move" /\ t.got = b
    BY <2>1, <2>2, <2>3 DEF Tasks
  <2>5. QED
    BY <2>2, <2>4
<1>6. task' = [task EXCEPT ![k] = t]
  BY <1>1
<1> HIDE DEF t
<1>7. MovesOwnLocks(k)
  BY <1>2 DEF MovesOwnLocks, locks
<1>8. QED
  BY <1>2, <1>3, <1>5, <1>6, <1>7, TaskGoesOnInv DEF TypeOK, disk, locks

LEMMA TaskFetchFailsInv ==
    ASSUME NEW lost, InvBut(lost), NEW k \in TaskKeys, TaskFetchFails(k)
    PROVE  InvBut(lost)'
BY TaskEndsInv DEF TaskFetchFails, At, disk, InvBut, TypeOK

LEMMA TaskMoveInv ==
    ASSUME NEW lost, InvBut(lost), NEW k \in TaskKeys, TaskMove(k)
    PROVE  InvBut(lost)'
<1>1. /\ TypeOK /\ task[k] # NoTask /\ task[k].step = "move"
      /\ Finish(k, TRUE) /\ ReleaseObject(k, k[2])
      /\ UNCHANGED <<meta, objs, torn, mtx, now, left>>
  BY DEF TaskMove, At, InvBut
<1>2. task[k].got \in Bytes /\ ModTime(task[k].mtime) \in Times
  <2>1. task[k] \in Tasks /\ task[k].got # NoContent
    BY <1>1, TaskType DEF InvBut, TaskLocals
  <2>2. QED
    BY <2>1, ModTimeType DEF Tasks
<1>3. data' \in [Paths -> Files \union {NoData}]
  BY <1>1, <1>2, KeyType, EmptyFileType DEF TaskMove, TypeOK
<1>4. handle' \in [Clients -> Handles \union {NoHandle}]
  <2>1. \A h \in Handles : [h EXCEPT !.inode = Exile] \in Handles
    BY DEF Handles
  <2>2. QED
    BY <1>1, <2>1 DEF TaskMove, TypeOK
<1>5. QED
  BY <1>1, <1>3, <1>4, TaskEndsInv

LEMMA TaskStepInv ==
    ASSUME NEW lost, InvBut(lost), NEW k \in TaskKeys, TaskStep(k)
    PROVE  InvBut(lost)'
BY TaskLockInv, TaskLoadInv, TaskLoadFailsInv, TaskInlineCreateInv, TaskInlineCopyInv,
   TaskInlineTimeInv, TaskInlineCreateFailsInv, TaskInlineCopyFailsInv,
   TaskInlineTimeFailsInv, TaskFetchInv, TaskFetchFailsInv, TaskMoveInv, TaskDeleteInv
   DEF TaskStep

-----------------------------------------------------------------------------
\* The initial states.
LEMMA SeedRecordType ==
    ASSUME NEW c \in Contents
    PROVE  /\ SeedRecord(c) \in Records
           /\ SeedRecord(c) # NoRecord
           /\ \E s \in Schemes : SeedRecord(c).at[s] # NoContent
<1> DEFINE inline == Size[c] <= InlineMaxSize \/ Flate[c] <= InlineMaxSize
           at == [s \in Schemes |-> IF inline = (s = Base64) THEN c ELSE NoContent]
<1>1. SeedRecord(c) = [size |-> Size[c], nonce |-> 0, at |-> at]
  BY DEF SeedRecord
<1>2. at \in [Schemes -> Bytes \union {NoContent}] /\ Size[c] \in Nat /\ 0 \in 0..MaxNonce
  BY ContentAssumption, BoundAssumption DEF Bytes
<1>3. \E s \in Schemes : at[s] # NoContent
  <2>1. PICK e \in Engines : e # Base64
    BY SetAssumption
  <2>2. CASE inline
    BY <2>2, ContentAssumption DEF Schemes, Bytes
  <2>3. CASE ~inline
    BY <2>1, <2>3, ContentAssumption DEF Schemes, Bytes
  <2>4. QED
    BY <2>2, <2>3
<1> HIDE DEF at
<1>4. [size |-> Size[c], nonce |-> 0, at |-> at] \in Records
  BY <1>2 DEF Records
<1>5. QED
  BY <1>1, <1>3, <1>4, DistinctAssumption

LEMMA InitIInv == Init => IInv
<1> SUFFICES ASSUME Init PROVE InvBut({}) /\ Gone({})
  BY DEF IInv
<1>1. PICK kind \in [Paths -> SeedKinds], content \in [Paths -> Contents], t \in Times :
        LET uploaded == {content[p] : p \in {q \in Paths : kind[q] \in {"synced", "evicted"}}}
        IN  /\ meta = [p \in Paths |->
                  CASE kind[p] = "absent" -> NoMeta
                    [] kind[p] = "local" -> [obj |-> NoObj, mtime |-> 0]
                    [] OTHER -> [obj |-> <<0, content[p]>>, mtime |-> t]]
            /\ data = [p \in Paths |->
                  IF kind[p] \in {"local", "synced"}
                  THEN [content |-> content[p], mtime |-> t] ELSE NoData]
            /\ objs = [id \in ObjIds |->
                  IF id[1] = 0 /\ id[2] \in uploaded THEN SeedRecord(id[2]) ELSE NoRecord]
            /\ now = t
            /\ torn = {}
            /\ mtx = NoClient
            /\ ol = [id \in ObjIds |-> {}]
            /\ bl = [b \in Buckets |-> {}]
            /\ task = [k \in TaskKeys |-> NoTask]
            /\ call = [c \in Clients |-> Idle]
            /\ handle = [c \in Clients |-> NoHandle]
            /\ left = MaxCalls
  BY DEF Init
<1> DEFINE uploaded == {content[p] : p \in {q \in Paths : kind[q] \in {"synced", "evicted"}}}
<1>2. \A p \in Paths : <<0, content[p]>> \in ObjIds
  BY <1>1, BoundAssumption DEF ObjIds, Bytes
<1>3. meta \in [Paths -> Metas \union {NoMeta, TornMeta}]
  <2>1. \A p \in Paths : [obj |-> <<0, content[p]>>, mtime |-> t] \in Metas
    BY <1>1, <1>2 DEF Metas
  <2>2. QED
    BY <1>1, <2>1, NewMetaType
<1>4. data \in [Paths -> Files \union {NoData}]
  BY <1>1, EmptyFileType DEF Bytes
<1>5. uploaded \subseteq Contents
  BY <1>1
<1>6. /\ objs \in BucketFiles
      /\ \A id \in ObjIds : id[1] = 0 /\ id[2] \in uploaded => Backed(id)
  BY <1>1, <1>5, SeedRecordType DEF BucketFiles, Backed
<1>7. TypeOK
  <2>1. 0 \in 0..MaxCalls /\ left \in 0..MaxCalls
    BY <1>1, BoundAssumption
  <2>2. QED
    BY <1>1, <1>3, <1>4, <1>6, <2>1, IdleType DEF TypeOK
<1>8. \A p \in Paths : Exists(p) /\ meta[p].obj # NoObj =>
          kind[p] \in {"synced", "evicted"} /\ meta[p].obj = <<0, content[p]>>
  <2> SUFFICES ASSUME NEW p \in Paths, Exists(p), meta[p].obj # NoObj
               PROVE  kind[p] \in {"synced", "evicted"} /\ meta[p].obj = <<0, content[p]>>
    OBVIOUS
  <2>1. kind[p] \in {"absent", "local", "synced", "evicted"}
    BY <1>1, SetAssumption
  <2>2. kind[p] # "absent"
    BY <1>1 DEF Exists
  <2>3. kind[p] # "local"
    BY <1>1
  <2>4. QED
    BY <1>1, <2>1, <2>2, <2>3
<1>9. BackedBut({})
  <2> SUFFICES ASSUME NEW p \in Paths, Exists(p), meta[p].obj # NoObj
               PROVE  Backed(meta[p].obj)
    BY DEF BackedBut
  <2>1. content[p] \in uploaded /\ meta[p].obj = <<0, content[p]>>
    BY <1>8
  <2>2. QED
    BY <1>2, <1>6, <2>1
<1>10. \A c \in Clients : call[c].pc = "idle"
  BY <1>1 DEF Idle
<1>11. LocksBut({})
  BY <1>1, <1>10
     DEF LocksBut, ClientLocksBut, ClientLocks, TaskLocks, OwnsObjectAt, OwnsBucketAt
<1>12. /\ \A c \in Clients : ClientLocals(c) /\ UploadLocals(c)
       /\ \A k \in TaskKeys : TaskLocals(k)
  BY <1>1, <1>10 DEF ClientLocals, UploadLocals, TaskLocals, OwnsObjectAt, OwnsBucketAt,
                     SavesBucketAt
<1>13. QED
  BY <1>7, <1>9, <1>11, <1>12 DEF InvBut, Gone

-----------------------------------------------------------------------------
\* The steps of one client, and every step.
LEMMA UploadStepInv ==
    ASSUME NEW lost, InvBut(lost), NEW c \in Clients, UploadStep(c), ~UploadWriteBucketFails(c)
    PROVE  InvBut(lost)'
BY UploadStatInv, UploadHashInv, UploadQuitsInv, UploadLockInv, UploadOccupyInv,
   UploadNextNonceInv, UploadLoadFailsInv, UploadPlanInv, UploadEncodeInv, UploadTransferInv,
   UploadFailsInv, UploadTruncateBucketInv, UploadWriteBucketInv, UploadTruncateMetaInv,
   UploadWriteMetaInv DEF UploadStep

LEMMA EvictStepInv ==
    ASSUME NEW lost, InvBut(lost), NEW c \in Clients, EvictStep(c)
    PROVE  InvBut(lost)'
BY EvictLockInv, EvictLoadInv, EvictLoadFailsInv, EvictHashInv, EvictRemoveInv DEF EvictStep

LEMMA FileCallInv ==
    ASSUME NEW lost, InvBut(lost), NEW c \in Clients, FileCall(c)
    PROVE  InvBut(lost)'
BY OpenFileInv, OpenFileDownloadsInv, RemoveInv, RenameInv, RenameFailsInv, WriteInv,
   CloseInv, FlagAssumption DEF FileCall

LEMMA StorageCallInv ==
    ASSUME NEW lost, InvBut(lost), NEW c \in Clients, StorageCall(c)
    PROVE  InvBut(lost)'
BY UploadCallInv, DownloadCallInv, EvictCallInv DEF StorageCall

LEMMA NextInv ==
    ASSUME NEW lost, InvBut(lost), [Next]_vars, \A c \in Clients : ~UploadWriteBucketFails(c)
    PROVE  InvBut(lost)'
<1>1. CASE Progress
  BY <1>1, UploadStepInv, EvictStepInv, DownloadReturnInv, OpenFileAgainInv, TaskStepInv
     DEF Progress
<1>2. ASSUME NEW c \in Clients, FileCall(c) \/ StorageCall(c)
      PROVE  InvBut(lost)'
  BY <1>2, FileCallInv, StorageCallInv
<1>3. CASE Quiet \/ UNCHANGED vars
  BY <1>3, QuietInv DEF Quiet
<1>4. QED
  BY <1>1, <1>2, <1>3 DEF Next

\* Only the writes of bucket files change records.
LEMMA RecordsKept ==
    ASSUME [Next]_vars, \A c \in Clients : ~UploadWriteBucket(c) /\ ~UploadWriteBucketFails(c)
    PROVE  UNCHANGED objs
<1>1. ASSUME NEW c \in Clients, UploadStep(c) PROVE UNCHANGED objs
  <2>1. UploadFails(c) \/ UploadQuits(c) \/ UploadWriteMetaFails(c) => UNCHANGED objs
    BY DEF UploadFails, UploadQuits, UploadWriteMetaFails, disk
  <2>2. UploadStat(c) \/ UploadHash(c) \/ UploadLock(c) => UNCHANGED objs
    BY DEF UploadStat, UploadHash, UploadLock, disk
  <2>3. UploadOccupy(c) \/ UploadNextNonce(c) \/ UploadLoadFails(c) => UNCHANGED objs
    BY DEF UploadOccupy, UploadNextNonce, UploadLoadFails, disk
  <2>4. UploadPlan(c) \/ UploadEncode(c) \/ UploadTransfer(c) => UNCHANGED objs
    BY DEF UploadPlan, UploadEncode, UploadTransfer, disk
  <2>5. UploadTruncateBucket(c) \/ UploadTruncateMeta(c) \/ UploadWriteMeta(c) => UNCHANGED objs
    BY DEF UploadTruncateBucket, UploadTruncateMeta, UploadWriteMeta
  <2>6. QED
    BY <1>1, <2>1, <2>2, <2>3, <2>4, <2>5 DEF UploadStep
<1>2. ASSUME NEW c \in Clients, EvictStep(c) PROVE UNCHANGED objs
  BY <1>2 DEF EvictStep, EvictLock, EvictLoad, EvictLoadFails, EvictHash, EvictRemove, disk
<1>3. ASSUME NEW k \in TaskKeys, TaskStep(k) PROVE UNCHANGED objs
  <2>1. TaskInlineCreate(k) \/ TaskInlineCopy(k) \/ TaskInlineTime(k) => UNCHANGED objs
    BY DEF TaskInlineCreate, TaskInlineCopy, TaskInlineTime
  <2>2. \/ TaskInlineCreateFails(k) \/ TaskInlineCopyFails(k) \/ TaskInlineTimeFails(k)
        => UNCHANGED objs
    BY DEF TaskInlineCreateFails, TaskInlineCopyFails, TaskInlineTimeFails, disk
  <2>3. QED
    BY <1>3, <2>1, <2>2 DEF TaskStep, TaskLock, TaskLoad, TaskLoadFails, TaskFetch,
       TaskFetchFails, TaskMove, TaskDelete, disk
<1>4. ASSUME NEW c \in Clients, DownloadReturn(c) \/ OpenFileAgain(c) PROVE UNCHANGED objs
  BY <1>4 DEF DownloadReturn, OpenFileAgain, disk
<1>5. ASSUME NEW c \in Clients, FileCall(c) PROVE UNCHANGED objs
  BY <1>5
     DEF FileCall, OpenFile, OpenFileDownloads, Remove, Rename, RenameFails, Write, Close, disk
<1>6. ASSUME NEW c \in Clients, StorageCall(c) PROVE UNCHANGED objs
  BY <1>6 DEF StorageCall, UploadCall, DownloadCall, EvictCall, disk
<1>7. QED
  BY <1>1, <1>2, <1>3, <1>4, <1>5, <1>6 DEF Next, Progress, Quiet, vars

\* What a lost bucket had stays gone: no upload saves that bucket again.
LEMMA GoneStays ==
    ASSUME NEW lost, InvBut(lost), Gone(lost), [Next]_vars,
           \A c \in Clients : ~UploadWriteBucketFails(c)
    PROVE  Gone(lost)'
<1>1. ASSUME NEW c \in Clients, UploadWriteBucket(c)
      PROVE  Gone(lost)'
  <2>1. BucketOf[call[c].obj] \notin lost
    BY <1>1
       DEF UploadWriteBucket, Uploading, InvBut, LocksBut, ClientLocksBut, OwnsBucketAt
  <2>2. \A x \in ObjIds : BucketOf[x] # BucketOf[call[c].obj] => objs'[x] = objs[x]
    BY <1>1, WriteBucketExtends
  <2>3. QED
    BY <2>1, <2>2 DEF Gone
<1>2. CASE \A c \in Clients : ~UploadWriteBucket(c)
  BY <1>2, RecordsKept DEF Gone
<1>3. QED
  BY <1>1, <1>2

LEMMA NextIInv ==
    ASSUME IInv, [Next]_vars
    PROVE  IInv'
<1>1. PICK lost \in SUBSET Buckets : InvBut(lost) /\ Gone(lost)
  BY DEF IInv
<1>2. ASSUME NEW c \in Clients, UploadWriteBucketFails(c)
      PROVE  IInv'
  <2> SUFFICES ASSUME NEW b, b = BucketOf[call[c].obj]
               PROVE  IInv'
    OBVIOUS
  <2>1. /\ b \in Buckets
        /\ InvBut(lost \union {b})'
        /\ \A x \in ObjIds : objs'[x] = IF BucketOf[x] = b THEN NoRecord ELSE objs[x]
    BY <1>1, <1>2, UploadWriteBucketFailsInv
  <2>2. Gone(lost \union {b})'
    BY <1>1, <2>1 DEF Gone
  <2>3. lost \union {b} \in SUBSET Buckets
    BY <1>1, <2>1
  <2>4. QED
    BY <2>1, <2>2, <2>3 DEF IInv
<1>3. CASE \A c \in Clients : ~UploadWriteBucketFails(c)
  BY <1>1, <1>3, NextInv, GoneStays DEF IInv
<1>4. QED
  BY <1>2, <1>3

\* What the invariant says that does not depend on what is lost.
LEMMA InvariantParts ==
    ASSUME IInv
    PROVE  /\ TypeOK /\ LockDiscipline /\ ReferencedObjectsBacked
           /\ \A c \in Clients : ClientLocals(c) /\ UploadLocals(c)
           /\ \A k \in TaskKeys : TaskLocals(k)
<1>1. PICK lost \in SUBSET Buckets : InvBut(lost) /\ Gone(lost)
  BY DEF IInv
<1>2. \A b \in Buckets : Lost(b) <=> b \in lost
  <2>1. ASSUME NEW b \in lost, NEW c \in Clients PROVE ~Writes(c, b)
    BY <1>1 DEF Writes, InvBut, LocksBut, ClientLocksBut, OwnsBucketAt
  <2>2. QED
    BY <1>1, <2>1 DEF InvBut, LocksBut, Lost
<1>3. ASSUME NEW c \in Clients, call[c].pc \in OwnsBucketAt
      PROVE  ~Lost(BucketOf[call[c].obj])
  <2>1. call[c].obj \in ObjIds /\ BucketOf[call[c].obj] \notin lost
    BY <1>1, <1>3 DEF InvBut, LocksBut, ClientLocksBut, ClientLocals, OwnsObjectAt
  <2>2. QED
    BY <1>2, <2>1, SetAssumption
<1>4. LockDiscipline
  BY <1>1, <1>3 DEF LockDiscipline, InvBut, LocksBut, ClientLocksBut
<1>5. ReferencedObjectsBacked
  <2> SUFFICES ASSUME NEW p \in Paths, Exists(p), meta[p].obj # NoObj, ~Backed(meta[p].obj)
               PROVE  Lost(BucketOf[meta[p].obj])
    BY DEF ReferencedObjectsBacked
  <2>1. meta[p].obj \in ObjIds /\ BucketOf[meta[p].obj] \in lost
    BY <1>1, FileType DEF InvBut, BackedBut, Metas
  <2>2. QED
    BY <1>2, <2>1, SetAssumption
<1>6. QED
  BY <1>1, <1>4, <1>5 DEF InvBut

\* A record that is there is none of those lost.
LEMMA RecordsNotLost ==
    ASSUME IInv, NEW p \in Paths, Exists(p), meta[p].obj # NoObj, objs[meta[p].obj] # NoRecord
    PROVE  Backed(meta[p].obj)
<1>1. PICK lost \in SUBSET Buckets : InvBut(lost) /\ Gone(lost)
  BY DEF IInv
<1>2. meta[p].obj \in ObjIds
  BY <1>1, FileType DEF InvBut, Metas
<1>3. QED
  BY <1>1, <1>2 DEF InvBut, BackedBut, Gone

\* The inductive invariant: locks and their owners, the records of a bucket
\* against the memory of who works on it, and the references to objects.
THEOREM SpecIInv == Spec => []IInv
BY InitIInv, NextIInv, PTL DEF Spec

-----------------------------------------------------------------------------
\* Every variable keeps its type, the locals of calls and tasks included.
THEOREM TypeCorrect == Spec => []TypeOK
<1>1. IInv => TypeOK
  BY InvariantParts
<1>2. QED
  BY <1>1, SpecIInv, PTL

\* Uploads, downloads and evictions keep to the locks of fs.ol and fs.bl:
\* whoever works on an object or a bucket is its only owner, for any number
\* of goroutines, files, objects and buckets.
THEOREM LocksAreExclusive == Spec => []LockDiscipline
<1>1. IInv => LockDiscipline
  BY InvariantParts
<1>2. QED
  BY <1>1, SpecIInv, PTL

\* A file never refers to an object that no storage holds, unless the write
\* of its bucket file has failed: the order of the two saves of runUploadTask,
\* and the bucket lock under which the other records of the bucket are read
\* and written back.
THEOREM ReferencesAreBacked == Spec => []ReferencedObjectsBacked
<1>1. IInv => ReferencedObjectsBacked
  BY InvariantParts
<1>2. QED
  BY <1>1, SpecIInv, PTL

\* No upload undoes another's: each save of a bucket file keeps every record
\* of it, with its nonce, its size and the storages that hold the object, and
\* one that fails loses no record of another bucket.
THEOREM UploadsKeepRecords == Spec => RecordsOnlyGrow
<1> DEFINE Kept(id) ==
             \/ Extends(objs'[id], objs[id])
             \/ \E c \in Clients :
                   UploadWriteBucketFails(c) /\ BucketOf[call[c].obj] = BucketOf[id]
<1>1. ASSUME IInv, [Next]_vars
      PROVE  [\A id \in ObjIds : Kept(id)]_vars
  <2>1. PICK lost \in SUBSET Buckets : InvBut(lost)
    BY <1>1 DEF IInv
  <2>2. ASSUME NEW c \in Clients, UploadWriteBucket(c), NEW id \in ObjIds
        PROVE  Kept(id)
    <3>1. Extends(objs'[id], objs[id])
      BY <2>1, <2>2, WriteBucketExtends
    <3>2. QED
      BY <3>1
  <2>3. ASSUME NEW c \in Clients, UploadWriteBucketFails(c), NEW id \in ObjIds
        PROVE  Kept(id)
    <3>1. objs'[id] = IF BucketOf[id] = BucketOf[call[c].obj] THEN NoRecord ELSE objs[id]
      BY <2>3 DEF UploadWriteBucketFails
    <3>2. Extends(objs[id], objs[id])
      BY DEF Extends
    <3>3. QED
      BY <2>3, <3>1, <3>2
  <2>4. ASSUME \A c \in Clients : ~UploadWriteBucket(c) /\ ~UploadWriteBucketFails(c),
               NEW id \in ObjIds
        PROVE  Kept(id)
    BY <1>1, <2>4, RecordsKept DEF Extends
  <2> HIDE DEF Kept
  <2>5. QED
    BY <2>2, <2>3, <2>4
<1>2. QED
  BY <1>1, SpecIInv, PTL DEF Spec, RecordsOnlyGrow

-----------------------------------------------------------------------------
\* A crash: the buckets whose files are empty at that moment are lost.
LEMMA CrashRestartInv ==
    ASSUME NEW lost, InvBut(lost), CrashRestart
    PROVE  IInv'
<1> SUFFICES ASSUME NEW l, l = torn PROVE InvBut(l)' /\ Gone(l)'
  <2>1. torn \in SUBSET Buckets
    BY DEF InvBut, TypeOK
  <2>2. QED
    BY <2>1 DEF IInv
<1>1. /\ call' = [c \in Clients |-> Idle] /\ Idle.pc = "idle" /\ Idle \in Calls
      /\ task' = [k \in TaskKeys |-> NoTask]
      /\ UNCHANGED <<meta, data, torn, now>> /\ left' \in 0..MaxCalls
      /\ TypeOK /\ lost \subseteq torn /\ BackedBut(lost)
  BY IdleType, BoundAssumption DEF CrashRestart, Idle, InvBut, TypeOK, LocksBut
<1>2. /\ objs' \in BucketFiles
      /\ \A id \in ObjIds : BucketOf[id] \notin torn => objs'[id] = objs[id]
  BY <1>1 DEF CrashRestart, TypeOK, BucketFiles
<1>3. TypeOK'
  BY <1>1, <1>2 DEF CrashRestart, TypeOK
<1>4. LocksBut(l)'
  BY <1>1 DEF LocksBut, ClientLocksBut, ClientLocks, TaskLocks, OwnsObjectAt, OwnsBucketAt
<1>5. BackedBut(l)'
  <2> SUFFICES ASSUME NEW p \in Paths, Exists(p), meta[p].obj # NoObj, BucketOf[meta[p].obj] \notin torn
               PROVE  Backed(meta[p].obj)'
    BY <1>1 DEF BackedBut, Exists, Backed
  <2>1. meta[p].obj \in ObjIds /\ Backed(meta[p].obj)
    BY <1>1, FileType DEF BackedBut, Metas
  <2>2. QED
    BY <1>1, <1>2, <2>1 DEF Backed
<1>6. \A c \in Clients : ClientLocals(c)' /\ UploadLocals(c)'
  BY <1>1 DEF ClientLocals, UploadLocals, SavesBucketAt, OwnsObjectAt, OwnsBucketAt
<1>7. \A k \in TaskKeys : TaskLocals(k)'
  BY <1>1 DEF TaskLocals
<1>8. Gone(l)'
  BY <1>1 DEF Gone, CrashRestart
<1>9. QED
  BY <1>3, <1>4, <1>5, <1>6, <1>7, <1>8 DEF InvBut

LEMMA CrashIInvNext ==
    ASSUME IInv, [CrashNext]_vars
    PROVE  IInv'
<1>1. PICK lost \in SUBSET Buckets : InvBut(lost)
  BY DEF IInv
<1>2. CASE CrashRestart
  BY <1>1, <1>2, CrashRestartInv
<1>3. CASE [Next]_vars
  BY <1>3, NextIInv
<1>4. QED
  BY <1>2, <1>3 DEF CrashNext

\* The inductive invariant over any number of crashes and restarts too: a
\* crash loses bucket files as a failed write does.
THEOREM CrashSpecInv == CrashSpec => []IInv
BY InitIInv, CrashIInvNext, PTL DEF CrashSpec

\* Wherever the process dies and however often, the object of a file keeps its
\* record and a storage, unless its bucket file was one being written.
THEOREM CrashesTearOneBucket == CrashSpec => []BackedUnlessTorn
<1>1. IInv => BackedUnlessTorn
  BY DEF IInv, InvBut, LocksBut, BackedBut, BackedUnlessTorn
<1>2. QED
  BY <1>1, CrashSpecInv, PTL

LEMMA WholeBuckets ==
    ASSUME NEW lost, InvBut(lost)
    PROVE  UploadsLoadWholeBuckets
<1> SUFFICES ASSUME NEW c \in Clients, call[c].pc \in OwnsBucketAt \ {"uploadBucket"},
                    BucketOf[call[c].obj] \in torn
             PROVE  FALSE
  BY DEF UploadsLoadWholeBuckets
<1>1. bl[BucketOf[call[c].obj]] = {c} /\ BucketOf[call[c].obj] \notin lost
  BY DEF InvBut, LocksBut, ClientLocksBut, ClientLocks
<1>2. PICK d \in Clients : Writes(d, BucketOf[call[c].obj])
  BY <1>1 DEF InvBut, LocksBut
<1>3. bl[BucketOf[call[c].obj]] = {d}
  BY <1>2 DEF Writes, InvBut, LocksBut, ClientLocksBut, ClientLocks, OwnsBucketAt
<1>4. QED
  BY <1>1, <1>2, <1>3 DEF Writes

\* No upload takes a bucket file that a crash has emptied for an empty bucket,
\* and saves it with its own record alone.
THEOREM LostBucketsAreNoticed == CrashSpec => []UploadsLoadWholeBuckets
<1>1. IInv => UploadsLoadWholeBuckets
  BY WholeBuckets DEF IInv
<1>2. QED
  BY <1>1, CrashSpecInv, PTL
=============================================================================
