--------------------------- MODULE CommandProofs ---------------------------
(***************************************************************************)
(* What the commands add to the locks, for every number of workers, files, *)
(* objects and engines: no file changes under an upload or an eviction, no *)
(* path leaves an object while the object is fetched for it, and so what   *)
(* is stored, dropped and brought back is the content an object names.     *)
(***************************************************************************)
EXTENDS Commands, PathLockProofs

\* All of the inductive invariant that is about commands.
Coherent ==
    /\ OwnCallsOnly
    /\ ObjectIntegrity /\ DownloadedBeforeReopen
    /\ \A c \in Clients : UploadCurrent(c) /\ EvictCurrent(c) /\ WaiterLocks(c) /\ HandleLinked(c)
    /\ \A k \in TaskKeys : TaskCurrent(k)

NoTasks == \A k \in TaskKeys : task[k] = NoTask
NoHandles == \A c \in Clients : handle[c] = NoHandle
AwaitAt == {"downloadWait", "downloadReturn", "openWait", "openAgain"}

\* The step a call is at tells the command.
LEMMA CommandOfStep ==
    ASSUME OwnCallsOnly, NEW c \in Clients
    PROVE  /\ call[c].pc \in UploadAt => command = "upload"
           /\ call[c].pc \in EvictAt => command = "evict"
           /\ call[c].pc \in {"downloadWait", "downloadReturn"} => command = "download"
           /\ call[c].pc \in {"openWait", "openAgain"} => command \in {"touch", "mount"}
BY DEF OwnCallsOnly, StepsOf, UploadAt, EvictAt, OwnsBucketAt

\* And the command tells which calls there are.
LEMMA UploadsOnly ==
    ASSUME OwnCallsOnly, command = "upload"
    PROVE  NoTasks /\ NoHandles /\ \A d \in Clients : call[d].pc \in UploadAt \union {"idle"}
BY DEF OwnCallsOnly, StepsOf, NoTasks, NoHandles

LEMMA EvictsOnly ==
    ASSUME OwnCallsOnly, command = "evict"
    PROVE  NoTasks /\ NoHandles /\ \A d \in Clients : call[d].pc \in EvictAt \union {"idle"}
BY DEF OwnCallsOnly, StepsOf, NoTasks, NoHandles

LEMMA AwaitsOnly ==
    ASSUME OwnCallsOnly, command \notin {"upload", "evict"}
    PROVE  \A d \in Clients : call[d].pc \in AwaitAt \union {"idle"}
BY DEF OwnCallsOnly, StepsOf, AwaitAt

\* While an upload command runs, the uploads are all there is to look at.
LEMMA UploadPhase ==
    ASSUME command' = "upload", NoTasks', NoHandles',
           \A d \in Clients : call'[d].pc \in UploadAt \union {"idle"} /\ UploadCurrent(d)',
           ObjectIntegrity'
    PROVE  Coherent'
<1>1. OwnCallsOnly'
  BY DEF OwnCallsOnly, StepsOf, NoTasks, NoHandles
<1>2. ASSUME NEW d \in Clients
      PROVE  /\ call'[d].pc \notin EvictAt \union AwaitAt
             /\ EvictCurrent(d)' /\ WaiterLocks(d)' /\ HandleLinked(d)'
  <2>1. call'[d].pc \notin EvictAt \union AwaitAt
    BY DEF UploadAt, OwnsBucketAt, EvictAt, AwaitAt
  <2>2. QED
    BY <2>1 DEF EvictCurrent, WaiterLocks, HandleLinked, NoHandles, AwaitAt
<1>3. DownloadedBeforeReopen'
  BY <1>2 DEF DownloadedBeforeReopen, AwaitAt
<1>4. QED
  BY <1>1, <1>2, <1>3 DEF Coherent, TaskCurrent, NoTasks

\* Likewise for evict.
LEMMA EvictPhase ==
    ASSUME command' = "evict", NoTasks', NoHandles',
           \A d \in Clients : call'[d].pc \in EvictAt \union {"idle"} /\ EvictCurrent(d)',
           ObjectIntegrity'
    PROVE  Coherent'
<1>1. OwnCallsOnly'
  BY DEF OwnCallsOnly, StepsOf, NoTasks, NoHandles
<1>2. ASSUME NEW d \in Clients
      PROVE  /\ call'[d].pc \notin UploadAt \union AwaitAt
             /\ UploadCurrent(d)' /\ WaiterLocks(d)' /\ HandleLinked(d)'
  <2>1. call'[d].pc \notin UploadAt \union AwaitAt
    BY DEF UploadAt, OwnsBucketAt, EvictAt, AwaitAt
  <2>2. WaiterLocks(d)' /\ HandleLinked(d)'
    BY <2>1 DEF WaiterLocks, HandleLinked, NoHandles, AwaitAt
  <2>3. UploadCurrent(d)'
    BY <2>1 DEF UploadCurrent, UploadAt, SavesBucketAt, OwnsBucketAt
  <2>4. QED
    BY <2>1, <2>2, <2>3
<1>3. DownloadedBeforeReopen'
  BY <1>2 DEF DownloadedBeforeReopen, AwaitAt
<1>4. QED
  BY <1>1, <1>2, <1>3 DEF Coherent, TaskCurrent, NoTasks

\* And for the commands that open or fetch files.
LEMMA AwaitPhase ==
    ASSUME OwnCallsOnly', ObjectIntegrity', DownloadedBeforeReopen',
           \A d \in Clients :
               call'[d].pc \in AwaitAt \union {"idle"} /\ WaiterLocks(d)' /\ HandleLinked(d)',
           \A k \in TaskKeys : TaskCurrent(k)'
    PROVE  Coherent'
<1>1. ASSUME NEW d \in Clients
      PROVE  UploadCurrent(d)' /\ EvictCurrent(d)'
  <2>1. call'[d].pc \notin UploadAt \union EvictAt
    BY DEF UploadAt, OwnsBucketAt, EvictAt, AwaitAt
  <2>2. EvictCurrent(d)'
    BY <2>1 DEF EvictCurrent
  <2>3. UploadCurrent(d)'
    BY <2>1 DEF UploadCurrent, UploadAt, SavesBucketAt, OwnsBucketAt
  <2>4. QED
    BY <2>2, <2>3
<1>2. QED
  BY <1>1 DEF Coherent

\* Between two commands, and while mv or rm runs, nothing is under way.
LEMMA NoCallPhase ==
    ASSUME NoTasks', NoHandles', \A d \in Clients : call'[d] = Idle, ObjectIntegrity'
    PROVE  Coherent'
<1>1. \A d \in Clients : call'[d].pc = "idle"
  BY DEF Idle
<1>2. OwnCallsOnly'
  BY <1>1 DEF OwnCallsOnly, NoTasks, NoHandles, Finished
<1>3. ASSUME NEW d \in Clients
      PROVE  WaiterLocks(d)' /\ HandleLinked(d)'
  BY <1>1 DEF WaiterLocks, HandleLinked, NoHandles
<1>4. DownloadedBeforeReopen' /\ \A k \in TaskKeys : TaskCurrent(k)'
  BY <1>1 DEF DownloadedBeforeReopen, TaskCurrent, NoTasks
<1>5. QED
  BY <1>1, <1>2, <1>3, <1>4, AwaitPhase

-----------------------------------------------------------------------------
\* The steps of an upload.  One that leaves the records alone owes only what
\* is known of its own locals.
LEMMA UploadFrame ==
    ASSUME TypeOK, Coherent, command = "upload", NEW c \in Clients,
           UNCHANGED <<data, task, handle, command>>,
           NEW cl, call' = [call EXCEPT ![c] = cl], cl.pc \in UploadAt \union {"idle"},
           UploadCurrent(c)', ObjectIntegrity'
    PROVE  Coherent'
<1>2. NoTasks /\ NoHandles /\ \A d \in Clients : call[d].pc \in UploadAt \union {"idle"}
  BY UploadsOnly DEF Coherent
<1>3. ASSUME NEW d \in Clients
      PROVE  call'[d].pc \in UploadAt \union {"idle"} /\ UploadCurrent(d)'
  <2>1. CASE d = c
    BY <2>1 DEF TypeOK
  <2>2. CASE d # c
    <3>1. call'[d] = call[d]
      BY <2>2 DEF TypeOK
    <3>2. QED
      BY <1>2, <3>1 DEF Coherent, UploadCurrent, Present
  <2>3. QED
    BY <2>1, <2>2
<1>4. NoTasks' /\ NoHandles' /\ command' = "upload"
  BY <1>2 DEF NoTasks, NoHandles
<1>5. QED
  BY <1>3, <1>4, UploadPhase

LEMMA IntegrityKept ==
    ASSUME ObjectIntegrity, UNCHANGED objs
    PROVE  ObjectIntegrity'
BY DEF ObjectIntegrity

\* An upload returns without having saved the bucket.
LEMMA UploadLeaves ==
    ASSUME TypeOK, Coherent, NEW c \in Clients, call[c].pc \in UploadAt, Return(c),
           UNCHANGED <<data, objs, task, handle, command>>
    PROVE  Coherent'
<1>1. call' = [call EXCEPT ![c] = Idle] /\ Idle.pc = "idle"
  BY DEF Return, Idle
<1>2. call'[c].pc = "idle"
  BY <1>1 DEF TypeOK
<1>3. UploadCurrent(c)'
  BY <1>2 DEF UploadCurrent, UploadAt, SavesBucketAt, OwnsBucketAt
<1>4. ObjectIntegrity'
  BY IntegrityKept DEF Coherent
<1> HIDE DEF Idle
<1>5. QED
  BY <1>1, <1>3, <1>4, UploadFrame, CommandOfStep DEF Coherent

\* What is known of an upload that has locals cl.
ReadsAt == UploadAt \ {"uploadStat", "uploadHash"}
KeepsContent(bkt, id) ==
    \A x \in ObjIds : BucketOf[x] = BucketOf[id] /\ bkt[x] # NoRecord => Holds(bkt[x], x)

Knows(cl) ==
    /\ Present(cl.path) /\ data[cl.path].mtime = cl.mtime
    /\ cl.pc \in ReadsAt => data[cl.path].content = cl.obj[2]
    /\ cl.pc = "uploadTransfer" => cl.enc = cl.obj[2]
    /\ cl.pc \in SavesBucketAt => KeepsContent(cl.bkt, cl.obj)

LEMMA UploadKnows ==
    ASSUME Coherent, NEW c \in Clients, call[c].pc \in UploadAt \ {"uploadStat"}
    PROVE  Knows(call[c])
BY DEF Coherent, UploadCurrent, Knows, KeepsContent, ReadsAt

LEMMA UploadGoesOn ==
    ASSUME TypeOK, Coherent, NEW c \in Clients, call[c].pc \in UploadAt,
           UNCHANGED <<data, objs, task, handle, command>>,
           NEW cl, call' = [call EXCEPT ![c] = cl], cl.pc \in UploadAt, Knows(cl)
    PROVE  Coherent'
<1>1. call'[c] = cl
  BY DEF TypeOK
<1>2. UploadCurrent(c)'
  BY <1>1 DEF UploadCurrent, Knows, KeepsContent, ReadsAt, Present
<1>3. ObjectIntegrity'
  BY IntegrityKept DEF Coherent
<1>4. QED
  BY <1>2, <1>3, UploadFrame, CommandOfStep DEF Coherent

\* The upload keeps its file in mind and prepares the bucket it will save.
LEMMA UploadPrepares ==
    ASSUME TypeOK, Coherent, NEW c \in Clients, call[c].pc \in ReadsAt,
           UNCHANGED <<data, objs, task, handle, command>>,
           NEW cl, call' = [call EXCEPT ![c] = cl], cl.pc \in ReadsAt \ {"uploadTransfer"},
           cl.path = call[c].path, cl.mtime = call[c].mtime, cl.obj = call[c].obj,
           cl.pc \in SavesBucketAt => KeepsContent(cl.bkt, cl.obj)
    PROVE  Coherent'
<1>1. call[c].pc \in UploadAt /\ cl.pc \in UploadAt
  BY DEF ReadsAt
<1>2. Knows(call[c])
  BY UploadKnows DEF ReadsAt
<1>3. Knows(cl)
  BY <1>2 DEF Knows
<1>4. QED
  BY <1>1, <1>3, UploadGoesOn

LEMMA UploadStatCoherent ==
    ASSUME TypeOK, Coherent, NEW c \in Clients, UploadStat(c), UNCHANGED command
    PROVE  Coherent'
<1> DEFINE p == call[c].path
           cl == [call[c] EXCEPT !.pc = "uploadHash", !.size = Size[data[p].content],
                                 !.mtime = data[p].mtime]
<1>1. call[c].pc \in UploadAt /\ UNCHANGED <<data, objs, task, handle>> /\ call[c] \in Calls
  BY DEF UploadStat, Uploading, UploadAt, disk, TypeOK
<1>2. Present(p) /\ call' = [call EXCEPT ![c] = cl]
  BY DEF UploadStat
<1>3. cl.pc = "uploadHash" /\ cl.path = p /\ cl.mtime = data[p].mtime
  BY <1>1 DEF Calls
<1>4. Knows(cl) /\ cl.pc \in UploadAt
  BY <1>2, <1>3 DEF Knows, UploadAt, ReadsAt, SavesBucketAt, OwnsBucketAt
<1> HIDE DEF cl
<1>5. QED
  BY <1>1, <1>2, <1>4, UploadGoesOn

LEMMA UploadHashCoherent ==
    ASSUME TypeOK, Coherent, NEW c \in Clients, UploadHash(c), UNCHANGED command
    PROVE  Coherent'
<1> DEFINE p == call[c].path
           cl == [call[c] EXCEPT !.pc = "uploadLock", !.obj = <<call[c].nonce, data[p].content>>]
<1>1. /\ call[c].pc = "uploadHash" /\ call[c].pc \in UploadAt
      /\ UNCHANGED <<data, objs, task, handle>> /\ call[c] \in Calls
  BY DEF UploadHash, Uploading, UploadAt, disk, TypeOK
<1>2. call' = [call EXCEPT ![c] = cl]
  BY DEF UploadHash
<1>3. /\ cl.pc = "uploadLock" /\ cl.path = p /\ cl.mtime = call[c].mtime
      /\ cl.obj[2] = data[p].content
  BY <1>1 DEF Calls
<1>4. Knows(call[c])
  BY <1>1, UploadKnows
<1>5. Knows(cl) /\ cl.pc \in UploadAt
  BY <1>3, <1>4 DEF Knows, UploadAt, ReadsAt, SavesBucketAt, OwnsBucketAt
<1> HIDE DEF cl
<1>6. QED
  BY <1>1, <1>2, <1>5, UploadGoesOn

LEMMA UploadLockCoherent ==
    ASSUME TypeOK, Coherent, NEW c \in Clients, UploadLock(c), UNCHANGED command
    PROVE  Coherent'
<1> DEFINE cl == [call[c] EXCEPT !.pc = "uploadMatch"]
<1>1. /\ call[c].pc = "uploadLock" /\ call[c] \in Calls /\ call' = [call EXCEPT ![c] = cl]
      /\ UNCHANGED <<data, objs, task, handle>>
  BY DEF UploadLock, Uploading, disk, TypeOK
<1>2. call[c].pc \in ReadsAt
  BY <1>1 DEF ReadsAt, UploadAt
<1>3. cl.pc = "uploadMatch" /\ cl.path = call[c].path /\ cl.mtime = call[c].mtime /\ cl.obj = call[c].obj
  BY <1>1 DEF Calls
<1>4. cl.pc \in ReadsAt \ {"uploadTransfer"} /\ cl.pc \notin SavesBucketAt
  BY <1>3 DEF ReadsAt, UploadAt, SavesBucketAt, OwnsBucketAt
<1> HIDE DEF cl
<1>5. QED
  BY <1>1, <1>2, <1>3, <1>4, UploadPrepares

\* The bucket loaded holds what the records on disk hold, and the record
\* added holds nothing yet.
LEMMA UploadOccupyCoherent ==
    ASSUME TypeOK, Coherent, NEW c \in Clients, UploadOccupy(c), UNCHANGED command
    PROVE  Coherent'
<1> DEFINE id == call[c].obj
           loaded == LoadBucket(BucketOf[id])
           new == NewRecord(call[c].size, call[c].nonce)
           bkt == IF loaded[id] = NoRecord THEN [loaded EXCEPT ![id] = new] ELSE loaded
           cl == [call[c] EXCEPT !.pc = "uploadPlan", !.bkt = bkt]
<1>1. /\ call[c].pc = "uploadMatch" /\ call[c] \in Calls /\ call' = [call EXCEPT ![c] = cl]
      /\ UNCHANGED <<data, objs, task, handle>>
  BY DEF UploadOccupy, Uploading, disk, TypeOK
<1>2. call[c].pc \in ReadsAt
  BY <1>1 DEF ReadsAt, UploadAt
<1>3. KeepsContent(bkt, id)
  <2>1. ASSUME NEW x \in ObjIds, BucketOf[x] = BucketOf[id], bkt[x] # NoRecord
        PROVE  Holds(bkt[x], x)
    <3>1. loaded \in [ObjIds -> {objs[y] : y \in ObjIds} \union {NoRecord}] /\ loaded[x] = objs[x]
      BY <2>1 DEF LoadBucket
    <3>2. bkt[x] = objs[x] \/ bkt[x] = new
      BY <3>1
    <3>3. Holds(new, x)
      BY DEF Holds, NewRecord
    <3>4. objs[x] # NoRecord => Holds(objs[x], x)
      BY DEF Coherent, ObjectIntegrity, Holds
    <3> HIDE DEF bkt, new
    <3>5. QED
      BY <2>1, <3>2, <3>3, <3>4
  <2> HIDE DEF bkt
  <2>2. QED
    BY <2>1 DEF KeepsContent
<1> HIDE DEF bkt
<1>4. /\ cl.pc = "uploadPlan" /\ cl.path = call[c].path /\ cl.mtime = call[c].mtime
      /\ cl.obj = id /\ cl.bkt = bkt
  BY <1>1 DEF Calls
<1>5. cl.pc \in ReadsAt \ {"uploadTransfer"}
  BY <1>4 DEF ReadsAt, UploadAt, OwnsBucketAt
<1> HIDE DEF cl
<1>6. QED
  BY <1>1, <1>2, <1>3, <1>4, <1>5, UploadPrepares

LEMMA UploadNextNonceCoherent ==
    ASSUME TypeOK, Coherent, NEW c \in Clients, UploadNextNonce(c), UNCHANGED command
    PROVE  Coherent'
<1> DEFINE cl == [call[c] EXCEPT !.pc = "uploadHash", !.obj = NoObj, !.nonce = call[c].nonce + 1]
<1>1. /\ call[c].pc = "uploadMatch" /\ call[c] \in Calls /\ call' = [call EXCEPT ![c] = cl]
      /\ UNCHANGED <<data, objs, task, handle>>
  BY DEF UploadNextNonce, Uploading, disk, TypeOK
<1>2. call[c].pc \in UploadAt /\ Knows(call[c])
  BY <1>1, UploadKnows DEF UploadAt
<1>3. cl.pc = "uploadHash" /\ cl.path = call[c].path /\ cl.mtime = call[c].mtime
  BY <1>1 DEF Calls
<1>4. Knows(cl) /\ cl.pc \in UploadAt
  BY <1>2, <1>3 DEF Knows, UploadAt, ReadsAt, SavesBucketAt, OwnsBucketAt
<1> HIDE DEF cl
<1>5. QED
  BY <1>1, <1>2, <1>4, UploadGoesOn

\* Storing the content of an object keeps every record true to its name.
LEMMA StoredKeepsContent ==
    ASSUME NEW bkt \in BucketFiles, NEW id \in ObjIds, bkt[id] # NoRecord, NEW s \in Schemes,
           KeepsContent(bkt, id)
    PROVE  KeepsContent(Stored(bkt, id, s, id[2]), id)
<1> DEFINE new == Stored(bkt, id, s, id[2])
<1>1. bkt[id] \in Records /\ new[id] = [bkt[id] EXCEPT !.at[s] = id[2]]
  BY DEF BucketFiles, Stored
<1>2. Holds(bkt[id], id)
  BY DEF KeepsContent
<1>3. Holds(new[id], id)
  BY <1>1, <1>2 DEF Holds, Records
<1>4. \A x \in ObjIds \ {id} : new[x] = bkt[x]
  BY DEF BucketFiles, Stored
<1>5. QED
  BY <1>3, <1>4 DEF KeepsContent

LEMMA UploadPlanCoherent ==
    ASSUME TypeOK, Coherent, NEW c \in Clients, UploadPlan(c), UNCHANGED command
    PROVE  Coherent'
<1>1. /\ call[c].pc = "uploadPlan" /\ call[c] \in Calls
      /\ UNCHANGED <<data, objs, task, handle>>
  BY DEF UploadPlan, Uploading, disk, TypeOK
<1>2. call[c].pc \in ReadsAt /\ call[c].pc \in UploadAt
  BY <1>1 DEF ReadsAt, UploadAt, OwnsBucketAt
<1>3. PICK step \in {"uploadEncode", "uploadTruncate"}, inline \in BOOLEAN :
          call' = [call EXCEPT ![c] = [@ EXCEPT !.pc = step, !.inline = inline]]
  BY DEF UploadPlan
<1> DEFINE cl == [call[c] EXCEPT !.pc = step, !.inline = inline]
<1>4. /\ cl.pc = step /\ cl.path = call[c].path /\ cl.mtime = call[c].mtime
      /\ cl.obj = call[c].obj /\ cl.bkt = call[c].bkt /\ call' = [call EXCEPT ![c] = cl]
  BY <1>1, <1>3 DEF Calls
<1>5. KeepsContent(call[c].bkt, call[c].obj)
  BY <1>1, <1>2, UploadKnows DEF Knows, SavesBucketAt, OwnsBucketAt
<1>6. cl.pc \in ReadsAt \ {"uploadTransfer"}
  BY <1>4 DEF ReadsAt, UploadAt, OwnsBucketAt
<1> HIDE DEF cl
<1>7. QED
  BY <1>1, <1>2, <1>4, <1>5, <1>6, UploadPrepares

\* What is encoded is what was hashed: the file is still the same.
LEMMA UploadEncodeCoherent ==
    ASSUME IInv, Coherent, NEW c \in Clients, UploadEncode(c), UNCHANGED command
    PROVE  Coherent'
<1> DEFINE p == call[c].path
           id == call[c].obj
           kept == [call[c] EXCEPT !.pc = "uploadTruncate",
                                   !.bkt = Stored(call[c].bkt, id, Base64, data[p].content)]
           sent == [call[c] EXCEPT !.pc = "uploadTransfer", !.enc = data[p].content]
<1>1. /\ TypeOK /\ call[c].pc = "uploadEncode" /\ call[c] \in Calls
      /\ UNCHANGED <<data, objs, task, handle>>
  BY InvariantParts DEF UploadEncode, Uploading, disk, TypeOK
<1>2. call[c].pc \in ReadsAt /\ call[c].pc \in UploadAt
  BY <1>1 DEF ReadsAt, UploadAt, OwnsBucketAt
<1>3. Knows(call[c]) /\ data[p].content = id[2] /\ KeepsContent(call[c].bkt, id)
  BY <1>1, <1>2, UploadKnows DEF Knows, SavesBucketAt, OwnsBucketAt
<1>4. CASE call' = [call EXCEPT ![c] = kept]
  <2>1. /\ kept.pc = "uploadTruncate" /\ kept.path = p /\ kept.mtime = call[c].mtime
        /\ kept.obj = id /\ kept.bkt = Stored(call[c].bkt, id, Base64, id[2])
    BY <1>1, <1>3 DEF Calls
  <2>2. id \in ObjIds /\ call[c].bkt[id] # NoRecord /\ call[c].bkt \in BucketFiles
    BY <1>1, InvariantParts
       DEF ClientLocals, UploadLocals, OwnsObjectAt, OwnsBucketAt, SavesBucketAt, Calls
  <2>3. KeepsContent(kept.bkt, kept.obj)
    BY <1>3, <2>1, <2>2, StoredKeepsContent DEF Schemes
  <2>4. kept.pc \in ReadsAt \ {"uploadTransfer"}
    BY <2>1 DEF ReadsAt, UploadAt, OwnsBucketAt
  <2> HIDE DEF kept
  <2>5. QED
    BY <1>1, <1>2, <1>4, <2>1, <2>3, <2>4, UploadPrepares
<1>5. CASE call' = [call EXCEPT ![c] = sent]
  <2>1. /\ sent.pc = "uploadTransfer" /\ sent.path = p /\ sent.mtime = call[c].mtime
        /\ sent.obj = id /\ sent.bkt = call[c].bkt /\ sent.enc = id[2]
    BY <1>1, <1>3 DEF Calls
  <2>2. Knows(sent) /\ sent.pc \in UploadAt
    BY <1>3, <2>1 DEF Knows, UploadAt, OwnsBucketAt
  <2> HIDE DEF sent
  <2>3. QED
    BY <1>1, <1>2, <1>5, <2>2, UploadGoesOn
<1>6. QED
  BY <1>4, <1>5 DEF UploadEncode

\* The blob an engine gives back, old or new, has the content too.
LEMMA UploadTransferCoherent ==
    ASSUME IInv, Coherent, NEW c \in Clients, UploadTransfer(c), UNCHANGED command
    PROVE  Coherent'
<1> DEFINE id == call[c].obj
           e == call[c].scheme
           old == call[c].bkt[id].at[e]
<1>1. /\ TypeOK /\ call[c].pc = "uploadTransfer" /\ call[c] \in Calls
      /\ UNCHANGED <<data, objs, task, handle>>
  BY InvariantParts DEF UploadTransfer, Uploading, disk, TypeOK
<1>2. call[c].pc \in ReadsAt /\ call[c].pc \in UploadAt
  BY <1>1 DEF ReadsAt, UploadAt, OwnsBucketAt
<1>3. Knows(call[c]) /\ call[c].enc = id[2] /\ KeepsContent(call[c].bkt, id)
  BY <1>1, <1>2, UploadKnows DEF Knows, SavesBucketAt, OwnsBucketAt
<1>4. /\ id \in ObjIds /\ call[c].bkt[id] # NoRecord /\ call[c].bkt \in BucketFiles
      /\ e \in Schemes
  BY <1>1, InvariantParts
     DEF ClientLocals, UploadLocals, OwnsObjectAt, OwnsBucketAt, SavesBucketAt, Calls
<1>5. ASSUME NEW b \in UploadResults(old, call[c].enc),
             call' = [call EXCEPT ![c] = [@ EXCEPT !.pc = "uploadTruncate", !.enc = NoContent,
                                                   !.bkt = Stored(call[c].bkt, id, e, b)]]
      PROVE  Coherent'
  <2> DEFINE cl == [call[c] EXCEPT !.pc = "uploadTruncate", !.enc = NoContent,
                                   !.bkt = Stored(call[c].bkt, id, e, b)]
  <2>1. Holds(call[c].bkt[id], id)
    BY <1>3, <1>4 DEF KeepsContent
  <2>2. b = id[2]
    BY <1>3, <1>4, <1>5, <2>1 DEF UploadResults, Holds
  <2>3. /\ cl.pc = "uploadTruncate" /\ cl.path = call[c].path /\ cl.mtime = call[c].mtime
        /\ cl.obj = id /\ cl.bkt = Stored(call[c].bkt, id, e, id[2])
        /\ call' = [call EXCEPT ![c] = cl]
    BY <1>1, <1>5, <2>2 DEF Calls
  <2>4. KeepsContent(cl.bkt, cl.obj)
    BY <1>3, <1>4, <2>3, StoredKeepsContent
  <2>5. cl.pc \in ReadsAt \ {"uploadTransfer"}
    BY <2>3 DEF ReadsAt, UploadAt, OwnsBucketAt
  <2> HIDE DEF cl
  <2>6. QED
    BY <1>1, <1>2, <2>3, <2>4, <2>5, UploadPrepares
<1>6. QED
  BY <1>5 DEF UploadTransfer

LEMMA UploadTruncateBucketCoherent ==
    ASSUME TypeOK, Coherent, NEW c \in Clients, UploadTruncateBucket(c), UNCHANGED command
    PROVE  Coherent'
<1> DEFINE cl == [call[c] EXCEPT !.pc = "uploadBucket"]
<1>1. /\ call[c].pc = "uploadTruncate" /\ call[c] \in Calls /\ call' = [call EXCEPT ![c] = cl]
      /\ UNCHANGED <<data, objs, task, handle>>
  BY DEF UploadTruncateBucket, Uploading, TypeOK
<1>2. call[c].pc \in ReadsAt
  BY <1>1 DEF ReadsAt, UploadAt, OwnsBucketAt
<1>3. /\ cl.pc = "uploadBucket" /\ cl.path = call[c].path /\ cl.mtime = call[c].mtime
      /\ cl.obj = call[c].obj /\ cl.bkt = call[c].bkt
  BY <1>1 DEF Calls
<1>4. KeepsContent(cl.bkt, cl.obj)
  BY <1>1, <1>2, <1>3, UploadKnows DEF Knows, ReadsAt, SavesBucketAt, OwnsBucketAt
<1>5. cl.pc \in ReadsAt \ {"uploadTransfer"}
  BY <1>3 DEF ReadsAt, UploadAt, OwnsBucketAt
<1> HIDE DEF cl
<1>6. QED
  BY <1>1, <1>2, <1>3, <1>4, <1>5, UploadPrepares

\* Saving the bucket puts nothing into the storages but what was hashed.
LEMMA UploadWriteBucketCoherent ==
    ASSUME TypeOK, Coherent, NEW c \in Clients, UploadWriteBucket(c), UNCHANGED command
    PROVE  Coherent'
<1> DEFINE cl == [call[c] EXCEPT !.pc = "uploadTruncateMeta"]
<1>1. /\ call[c].pc = "uploadBucket" /\ call[c] \in Calls /\ call' = [call EXCEPT ![c] = cl]
      /\ UNCHANGED <<data, task, handle>>
  BY DEF UploadWriteBucket, Uploading, TypeOK
<1>2. call[c].pc \in UploadAt \ {"uploadStat"}
  BY <1>1 DEF UploadAt, OwnsBucketAt
<1>3. Knows(call[c]) /\ KeepsContent(call[c].bkt, call[c].obj)
  BY <1>1, <1>2, UploadKnows DEF Knows, SavesBucketAt, OwnsBucketAt
<1>4. ObjectIntegrity'
  <2>1. ASSUME NEW id \in ObjIds, objs'[id] # NoRecord PROVE Holds(objs'[id], id)
    <3>1. objs'[id] = IF BucketOf[id] = BucketOf[call[c].obj] THEN call[c].bkt[id] ELSE objs[id]
      BY DEF UploadWriteBucket
    <3>2. QED
      BY <1>3, <2>1, <3>1 DEF KeepsContent, Coherent, ObjectIntegrity, Holds
  <2>2. QED
    BY <2>1 DEF ObjectIntegrity, Holds
<1>5. call'[c] = cl
  BY <1>1 DEF TypeOK
<1>6. /\ cl.pc = "uploadTruncateMeta" /\ cl.path = call[c].path /\ cl.mtime = call[c].mtime
      /\ cl.obj = call[c].obj
  BY <1>1 DEF Calls
<1> HIDE DEF cl
<1>7. UploadCurrent(c)'
  <2>1. call[c].pc \in ReadsAt /\ cl.pc \notin SavesBucketAt
    BY <1>1, <1>6 DEF ReadsAt, UploadAt, SavesBucketAt, OwnsBucketAt
  <2>2. QED
    BY <1>1, <1>3, <1>5, <1>6, <2>1 DEF UploadCurrent, Knows, Present
<1>8. cl.pc \in UploadAt
  BY <1>6 DEF UploadAt, OwnsBucketAt
<1>9. QED
  BY <1>1, <1>2, <1>4, <1>7, <1>8, UploadFrame, CommandOfStep DEF Coherent

LEMMA UploadTruncateMetaCoherent ==
    ASSUME TypeOK, Coherent, NEW c \in Clients, UploadTruncateMeta(c), UNCHANGED command
    PROVE  Coherent'
<1> DEFINE cl == [call[c] EXCEPT !.pc = "uploadMeta"]
<1>1. /\ call[c].pc = "uploadTruncateMeta" /\ call[c] \in Calls /\ call' = [call EXCEPT ![c] = cl]
      /\ UNCHANGED <<data, objs, task, handle>>
  BY DEF UploadTruncateMeta, Uploading, TypeOK
<1>2. call[c].pc \in ReadsAt
  BY <1>1 DEF ReadsAt, UploadAt, OwnsBucketAt
<1>3. cl.pc = "uploadMeta" /\ cl.path = call[c].path /\ cl.mtime = call[c].mtime /\ cl.obj = call[c].obj
  BY <1>1 DEF Calls
<1>4. cl.pc \in ReadsAt \ {"uploadTransfer"} /\ cl.pc \notin SavesBucketAt
  BY <1>3 DEF ReadsAt, UploadAt, SavesBucketAt, OwnsBucketAt
<1> HIDE DEF cl
<1>5. QED
  BY <1>1, <1>2, <1>3, <1>4, UploadPrepares

\* A failed write leaves no record of the bucket, so none that is false.
LEMMA UploadWriteBucketFailsCoherent ==
    ASSUME TypeOK, Coherent, NEW c \in Clients, UploadWriteBucketFails(c), UNCHANGED command
    PROVE  Coherent'
<1>1. /\ call[c].pc = "uploadBucket" /\ UNCHANGED <<data, task, handle>>
      /\ call' = [call EXCEPT ![c] = Idle] /\ Idle.pc = "idle"
  BY DEF UploadWriteBucketFails, Uploading, Return, Idle
<1>2. \A id \in ObjIds : objs'[id] \in {NoRecord, objs[id]}
  BY DEF UploadWriteBucketFails
<1>3. ObjectIntegrity'
  BY <1>2 DEF Coherent, ObjectIntegrity
<1> HIDE DEF Idle
<1>4. UploadCurrent(c)'
  <2>1. call'[c].pc = "idle"
    BY <1>1 DEF TypeOK
  <2>2. QED
    BY <2>1 DEF UploadCurrent, UploadAt, SavesBucketAt, OwnsBucketAt
<1>5. command = "upload"
  BY <1>1, CommandOfStep DEF Coherent, UploadAt, OwnsBucketAt
<1>6. QED
  BY <1>1, <1>3, <1>4, <1>5, UploadFrame

\* The other ends of an upload.
LEMMA UploadEndsCoherent ==
    ASSUME TypeOK, Coherent, NEW c \in Clients,
           \/ UploadWriteMeta(c) \/ UploadLoadFails(c) \/ UploadQuits(c) \/ UploadFails(c)
           \/ UploadWriteMetaFails(c),
           UNCHANGED command
    PROVE  Coherent'
<1>1. CASE UploadWriteMeta(c) \/ UploadWriteMetaFails(c)
  <2>1. call[c].pc \in UploadAt /\ Return(c) /\ UNCHANGED <<data, objs, task, handle>>
    BY <1>1 DEF UploadWriteMeta, UploadWriteMetaFails, Uploading, UploadAt, OwnsBucketAt, disk
  <2>2. QED
    BY <2>1, UploadLeaves
<1>2. CASE UploadLoadFails(c) \/ UploadQuits(c) \/ UploadFails(c)
  <2>1. call[c].pc \in UploadAt /\ Return(c) /\ UNCHANGED <<data, objs, task, handle>>
    BY <1>2
       DEF UploadLoadFails, UploadQuits, UploadFails, Uploading, UploadAt, OwnsBucketAt, disk
  <2>2. QED
    BY <2>1, UploadLeaves
<1>3. QED
  BY <1>1, <1>2

LEMMA UploadStepCoherent ==
    ASSUME IInv, Coherent, NEW c \in Clients, UploadStep(c), UNCHANGED command
    PROVE  Coherent'
<1>1. TypeOK
  BY InvariantParts
<1>2. QED
  BY <1>1, UploadStatCoherent, UploadHashCoherent, UploadLockCoherent, UploadOccupyCoherent,
     UploadNextNonceCoherent, UploadPlanCoherent, UploadEncodeCoherent, UploadTransferCoherent,
     UploadTruncateBucketCoherent, UploadWriteBucketCoherent, UploadWriteBucketFailsCoherent,
     UploadTruncateMetaCoherent, UploadEndsCoherent DEF UploadStep

LEMMA UploadCallCoherent ==
    ASSUME TypeOK, Coherent, command = "upload", NEW c \in Clients, NEW p \in Paths, NEW e,
           UploadCall(c, p, e), UNCHANGED command
    PROVE  Coherent'
<1> DEFINE cl == [Idle EXCEPT !.pc = "uploadStat", !.path = p, !.scheme = e]
<1>1. call' = [call EXCEPT ![c] = cl] /\ cl.pc = "uploadStat" /\ call'[c] = cl
  BY IdleType DEF UploadCall, TypeOK, Calls
<1> HIDE DEF cl
<1>2. UploadCurrent(c)'
  BY <1>1 DEF UploadCurrent, SavesBucketAt, OwnsBucketAt
<1>3. ObjectIntegrity'
  BY IntegrityKept DEF UploadCall, disk, Coherent
<1>4. cl.pc \in UploadAt
  BY <1>1 DEF UploadAt
<1>5. QED
  BY <1>1, <1>2, <1>3, <1>4, UploadFrame DEF UploadCall, disk

-----------------------------------------------------------------------------
\* An eviction has fs.mtx, so it is the only one.
LEMMA EvictFrame ==
    ASSUME TypeOK, Coherent, command = "evict", NEW c \in Clients, mtx \in {NoClient, c},
           UNCHANGED <<objs, task, handle, command>>,
           NEW cl, call' = [call EXCEPT ![c] = cl], cl.pc \in EvictAt \union {"idle"},
           EvictCurrent(c)'
    PROVE  Coherent'
<1>1. NoTasks /\ NoHandles /\ \A d \in Clients : call[d].pc \in EvictAt \union {"idle"}
  BY EvictsOnly DEF Coherent
<1>2. ASSUME NEW d \in Clients
      PROVE  call'[d].pc \in EvictAt \union {"idle"} /\ EvictCurrent(d)'
  <2>1. CASE d = c
    BY <2>1 DEF TypeOK
  <2>2. CASE d # c
    <3>1. call'[d] = call[d]
      BY <2>2 DEF TypeOK
    <3>2. call[d].pc \notin EvictAt
      BY <2>2, SetAssumption DEF Coherent, EvictCurrent
    <3>3. QED
      BY <1>1, <3>1, <3>2 DEF EvictCurrent
  <2>3. QED
    BY <2>1, <2>2
<1>3. NoTasks' /\ NoHandles' /\ command' = "evict"
  BY <1>1 DEF NoTasks, NoHandles
<1>4. ObjectIntegrity'
  BY IntegrityKept DEF Coherent
<1>5. QED
  BY <1>2, <1>3, <1>4, EvictPhase

LEMMA EvictCallCoherent ==
    ASSUME TypeOK, Coherent, command = "evict", NEW c \in Clients, NEW p \in Paths,
           EvictCall(c, p), UNCHANGED command
    PROVE  Coherent'
<1> DEFINE cl == [Idle EXCEPT !.pc = "evictLock", !.path = p, !.lock = "W", !.obj = meta[p].obj]
<1>1. /\ call' = [call EXCEPT ![c] = cl] /\ call'[c] = cl
      /\ cl.pc = "evictLock" /\ cl.path = p /\ cl.obj = meta[p].obj
  BY IdleType DEF EvictCall, TypeOK, Calls
<1> HIDE DEF cl
<1>2. EvictCurrent(c)'
  BY <1>1 DEF EvictCall, EvictCurrent, Exists, Present, disk
<1>3. cl.pc \in EvictAt
  BY <1>1 DEF EvictAt
<1>4. QED
  BY <1>1, <1>2, <1>3, EvictFrame DEF EvictCall, disk

\* Only a content found under the name of the object is dropped.
LEMMA EvictStepCoherent ==
    ASSUME TypeOK, Coherent, NEW c \in Clients, EvictStep(c), UNCHANGED command
    PROVE  Coherent'
<1>1. call[c].pc \in EvictAt /\ call[c] \in Calls
  BY DEF EvictStep, EvictLock, EvictLoad, EvictLoadFails, EvictHash, EvictRemove, Evicting, EvictAt,
         TypeOK
<1>2. command = "evict" /\ mtx = c /\ EvictCurrent(c)
  BY <1>1, CommandOfStep DEF Coherent, EvictCurrent
<1>3. UNCHANGED <<meta, objs, task, handle>>
  BY DEF EvictStep, EvictLock, EvictLoad, EvictLoadFails, EvictHash, EvictRemove, disk
<1>4. CASE EvictReturn(c)
  <2>1. call' = [call EXCEPT ![c] = Idle] /\ call'[c] = Idle /\ Idle.pc = "idle"
    BY <1>4 DEF EvictReturn, Return, TypeOK, Idle
  <2>2. EvictCurrent(c)'
    BY <2>1 DEF EvictCurrent, EvictAt
  <2> HIDE DEF Idle
  <2>3. QED
    BY <1>2, <1>3, <2>1, <2>2, EvictFrame
<1>5. ASSUME NEW cl, call' = [call EXCEPT ![c] = cl], UNCHANGED <<mtx, data>>,
             cl.pc \in EvictAt, cl.path = call[c].path, cl.obj = call[c].obj,
             cl.pc \in {"evictHash", "evictRemove"} => objs[call[c].obj] # NoRecord,
             cl.pc = "evictRemove" => data[call[c].path].content = call[c].obj[2]
      PROVE  Coherent'
  <2>1. call'[c] = cl
    BY <1>5 DEF TypeOK
  <2>2. EvictCurrent(c)'
    BY <1>1, <1>2, <1>3, <1>5, <2>1 DEF EvictCurrent, Exists, Present
  <2>3. QED
    BY <1>2, <1>3, <1>5, <2>2, EvictFrame
<1>6. CASE EvictLock(c)
  <2> DEFINE cl == [call[c] EXCEPT !.pc = "evictLoad"]
  <2>1. /\ call' = [call EXCEPT ![c] = cl] /\ cl.pc = "evictLoad" /\ cl.path = call[c].path
        /\ cl.obj = call[c].obj /\ UNCHANGED <<mtx, data>>
    BY <1>1, <1>6 DEF EvictLock, Calls, disk
  <2> HIDE DEF cl
  <2>2. QED
    BY <1>5, <2>1 DEF EvictAt
<1>7. CASE EvictLoad(c)
  <2> DEFINE cl == [call[c] EXCEPT !.pc = "evictHash", !.nonce = objs[call[c].obj].nonce]
  <2>1. /\ call' = [call EXCEPT ![c] = cl] /\ cl.pc = "evictHash" /\ cl.path = call[c].path
        /\ cl.obj = call[c].obj /\ UNCHANGED <<mtx, data>> /\ objs[call[c].obj] # NoRecord
    BY <1>1, <1>7 DEF EvictLoad, Calls, disk, locks, Readable
  <2> HIDE DEF cl
  <2>2. QED
    BY <1>5, <2>1 DEF EvictAt
<1>8. CASE EvictHash(c)
  <2> DEFINE cl == [call[c] EXCEPT !.pc = "evictRemove"]
  <2>1. CASE <<call[c].nonce, data[call[c].path].content>> = call[c].obj
    <3>1. /\ call' = [call EXCEPT ![c] = cl] /\ cl.pc = "evictRemove" /\ cl.path = call[c].path
          /\ cl.obj = call[c].obj /\ UNCHANGED <<mtx, data>>
          /\ data[call[c].path].content = call[c].obj[2]
          /\ objs[call[c].obj] # NoRecord
      BY <1>1, <1>2, <1>8, <2>1 DEF EvictHash, Evicting, EvictCurrent, Calls, disk
    <3> HIDE DEF cl
    <3>2. QED
      BY <1>5, <3>1 DEF EvictAt
  <2>2. QED
    BY <1>4, <1>8, <2>1 DEF EvictHash
<1>9. CASE EvictLoadFails(c) \/ EvictRemove(c)
  BY <1>4, <1>9 DEF EvictLoadFails, EvictRemove
<1>10. QED
  BY <1>6, <1>7, <1>8, <1>9 DEF EvictStep

-----------------------------------------------------------------------------
\* The commands that open or fetch files.  What a step leaves of the files
\* that matter to somebody: the destinations of tasks, what a call has waited
\* for, and what refers to an object.
DestinationsKept ==
    \A k \in TaskKeys : Running(k) =>
        /\ Exists(k[1])' /\ meta'[k[1]].obj = meta[k[1]].obj
        /\ Present(k[1])' <=> Present(k[1])
        /\ command # "mount" => data'[k[1]] = data[k[1]]

ArrivalsKept ==
    \A d \in Clients :
        call[d].pc \in {"openAgain", "downloadReturn"} /\ Present(call[d].path) =>
            data'[call[d].path] # NoData

ReferencesFilled ==
    \A p \in Paths : Exists(p)' /\ meta'[p].obj # NoObj =>
        Present(p)' \/ (Exists(p) /\ meta[p].obj # NoObj /\ ~Present(p))

LEMMA OwnCallsKept ==
    ASSUME OwnCallsOnly, UNCHANGED command,
           \A d \in Clients : call'[d].pc \in {"idle", call[d].pc} \union StepsOf(command),
           \A k \in TaskKeys : task'[k] # NoTask =>
               task[k] # NoTask \/ command \in {"download", "touch", "mount"},
           \A d \in Clients : handle'[d] # NoHandle =>
               handle[d] # NoHandle \/ command \in {"touch", "mount"},
           command = "touch" => walked' # {}
    PROVE  OwnCallsOnly'
BY DEF OwnCallsOnly, StepsOf

\* A step of a client that leaves the tasks alone.
LEMMA AwaitFrame ==
    ASSUME TypeOK, Coherent, command \notin {"upload", "evict"},
           UNCHANGED <<objs, task, command>>,
           NEW c \in Clients, \A d \in Clients \ {c} : call'[d] = call[d],
           call'[c] \in {call[c], Idle},
           OwnCallsOnly', \A d \in Clients : HandleLinked(d)',
           DestinationsKept, ArrivalsKept, ReferencesFilled
    PROVE  Coherent'
<1>1. \A d \in Clients : call[d].pc \in AwaitAt \union {"idle"}
  BY AwaitsOnly DEF Coherent
<1>2. \A d \in Clients : call'[d] \in {call[d], Idle}
  OBVIOUS
<1>3. Idle.pc = "idle"
  BY DEF Idle
<1> HIDE DEF Idle
<1>4. ASSUME NEW d \in Clients
      PROVE  call'[d].pc \in AwaitAt \union {"idle"} /\ WaiterLocks(d)'
  <2>1. CASE call'[d] = call[d]
    BY <1>1, <2>1 DEF Coherent, WaiterLocks
  <2>2. CASE call'[d] = Idle
    BY <1>3, <2>2 DEF WaiterLocks
  <2>3. QED
    BY <1>2, <2>1, <2>2
<1>5. DownloadedBeforeReopen'
  <2>1. ASSUME NEW d \in Clients,
               call'[d].pc = "openAgain" \/ (call'[d].pc = "downloadReturn" /\ call'[d].ok)
        PROVE  data'[call[d].path] # NoData /\ call'[d] = call[d]
    <3>1. call'[d] = call[d]
      BY <1>2, <1>3, <2>1
    <3>2. Present(call[d].path)
      BY <2>1, <3>1 DEF Coherent, DownloadedBeforeReopen
    <3>3. QED
      BY <2>1, <3>1, <3>2 DEF ArrivalsKept
  <2>2. QED
    BY <2>1 DEF DownloadedBeforeReopen, Present
<1>6. ASSUME NEW k \in TaskKeys PROVE TaskCurrent(k)'
  <2>1. TaskCurrent(k) /\ task'[k] = task[k] /\ k[1] \in Paths
    BY DEF Coherent, TaskKeys
  <2>2. CASE Running(k)
    BY <2>1, <2>2 DEF DestinationsKept, TaskCurrent, Running
  <2>3. CASE ~Running(k)
    BY <2>1, <2>3 DEF ReferencesFilled, TaskCurrent, Running, Exists, Present
  <2>4. QED
    BY <2>2, <2>3
<1>7. ObjectIntegrity'
  BY IntegrityKept DEF Coherent
<1>8. QED
  BY <1>4, <1>5, <1>6, <1>7, AwaitPhase

\* A step that changes no file keeps them all.
LEMMA FilesKept ==
    ASSUME Coherent, UNCHANGED <<meta, data>>
    PROVE  DestinationsKept /\ ArrivalsKept /\ ReferencesFilled
<1>1. \A k \in TaskKeys : Running(k) => Exists(k[1])
  BY DEF Coherent, TaskCurrent, Running
<1>3. DestinationsKept
  BY <1>1 DEF DestinationsKept, Exists, Present
<1>4. ArrivalsKept
  BY DEF ArrivalsKept, Present
<1>5. ReferencesFilled
  BY DEF ReferencesFilled, Exists, Present
<1>6. QED
  BY <1>3, <1>4, <1>5

\* A handle, or a call under way, is more than a finished command has.
LEMMA TouchWalked ==
    ASSUME OwnCallsOnly, command = "touch",
           \/ \E c \in Clients : call[c].pc # "idle" \/ handle[c] # NoHandle
           \/ \E k \in TaskKeys : task[k] # NoTask
    PROVE  walked # {}
BY DEF OwnCallsOnly, Finished, Idle

LEMMA DownloadReturnCoherent ==
    ASSUME TypeOK, Coherent, NEW c \in Clients, DownloadReturn(c), UNCHANGED <<command, walked>>
    PROVE  Coherent'
<1>1. /\ call' = [call EXCEPT ![c] = Idle] /\ UNCHANGED <<meta, data, objs, task, handle>>
      /\ call[c].pc = "downloadReturn"
  BY DEF DownloadReturn, Return, disk
<1>2. command = "download"
  BY <1>1, CommandOfStep DEF Coherent
<1>3. call'[c] = Idle /\ (\A d \in Clients \ {c} : call'[d] = call[d]) /\ Idle.pc = "idle"
  BY <1>1 DEF TypeOK, Idle
<1> HIDE DEF Idle
<1>4. OwnCallsOnly'
  BY <1>1, <1>2, <1>3, OwnCallsKept DEF Coherent
<1>5. DestinationsKept /\ ArrivalsKept /\ ReferencesFilled
  BY <1>1, FilesKept
<1>6. \A d \in Clients : HandleLinked(d)'
  BY <1>1 DEF Coherent, HandleLinked, Exists, Present
<1>7. QED
  BY <1>1, <1>2, <1>3, <1>4, <1>5, <1>6, AwaitFrame

LEMMA CloseCoherent ==
    ASSUME TypeOK, Coherent, NEW c \in Clients, Close(c), command \in {"touch", "mount"},
           UNCHANGED <<command, walked>>
    PROVE  Coherent'
<1>1. /\ UNCHANGED <<meta, data, objs, task, call>> /\ handle[c] # NoHandle
      /\ \A d \in Clients : handle'[d] \in {NoHandle, handle[d]}
  BY DEF Close, disk, TypeOK
<1>2. OwnCallsOnly'
  BY <1>1, OwnCallsKept, TouchWalked DEF Coherent
<1>3. DestinationsKept /\ ArrivalsKept /\ ReferencesFilled
  BY <1>1, FilesKept
<1>4. \A d \in Clients : HandleLinked(d)'
  BY <1>1 DEF Coherent, HandleLinked, Exists, Present
<1>5. QED
  BY <1>1, <1>2, <1>3, <1>4, AwaitFrame

LEMMA WriteCoherent ==
    ASSUME IInv, Coherent, NEW c \in Clients, Write(c), command = "mount", UNCHANGED command
    PROVE  Coherent'
<1>0. TypeOK /\ TypeOK'
  <2>1. PICK lost \in SUBSET Buckets : InvBut(lost)
    BY DEF IInv
  <2>2. InvBut(lost)'
    BY <2>1, WriteInv
  <2>3. QED
    BY <2>1, <2>2 DEF InvBut
<1>1. /\ UNCHANGED <<meta, objs, task, call, handle>>
      /\ \A q \in Paths : q # handle[c].inode => data'[q] = data[q]
      /\ handle[c] # NoHandle /\ handle[c].inode # Exile
  BY <1>0 DEF Write, TypeOK
<1>2. Present(handle[c].inode) /\ handle[c].inode \in Paths
  BY <1>0, <1>1 DEF Coherent, HandleLinked, TypeOK, Handles
<1>3. data'[handle[c].inode] # NoData
  <2>1. PICK b \in Contents : data' = [data EXCEPT ![handle[c].inode] = [content |-> b, mtime |-> now']]
    BY DEF Write
  <2>2. [content |-> b, mtime |-> now'] \in Files
    BY <1>0, EmptyFileType DEF TypeOK, Bytes
  <2>3. QED
    BY <1>0, <1>1, <1>2, <2>1, <2>2, DistinctAssumption DEF TypeOK
<1>4. \A q \in Paths : data'[q] # NoData <=> data[q] # NoData
  BY <1>1, <1>2, <1>3 DEF Present
<1>5. OwnCallsOnly'
  BY <1>1, OwnCallsKept DEF Coherent
<1>6. DestinationsKept
  BY <1>1, <1>4 DEF DestinationsKept, Coherent, TaskCurrent, Running, TaskKeys, Exists, Present
<1>7. ArrivalsKept /\ ReferencesFilled
  <2>1. \A d \in Clients : call[d].pc # "idle" => call[d].path \in Paths
    BY InvariantParts DEF ClientLocals
  <2>2. QED
    BY <1>1, <1>4, <2>1 DEF ArrivalsKept, ReferencesFilled, Exists, Present
<1>8. \A d \in Clients : HandleLinked(d)'
  <2>1. ASSUME NEW d \in Clients, handle[d] # NoHandle PROVE handle[d].inode \in Paths \union {Exile}
    BY <1>0, <2>1 DEF TypeOK, Handles
  <2>2. QED
    BY <1>1, <1>4, <2>1 DEF Coherent, HandleLinked, Exists, Present
<1>9. QED
  BY <1>0, <1>1, <1>5, <1>6, <1>7, <1>8, AwaitFrame

\* An open disturbs nothing: it truncates only where nothing is under way, and
\* a file whose object is being fetched is not there to be opened.
LEMMA OpenDataKeeps ==
    ASSUME IInv, Coherent, NEW c \in Clients, NEW p \in Paths, NEW f \in Flags,
           Found(p, f), ~NeedsObject(p, f), OpenData(c, p, f),
           "trunc" \in f => \A k \in TaskKeys : ~Running(k)
    PROVE  /\ \A d \in Clients : HandleLinked(d)'
           /\ DestinationsKept /\ ArrivalsKept /\ ReferencesFilled
<1>0. /\ meta \in [Paths -> Metas \union {NoMeta, TornMeta}]
      /\ data \in [Paths -> Files \union {NoData}]
      /\ handle \in [Clients -> Handles \union {NoHandle}]
      /\ now \in Times /\ NoObj \notin ObjIds
  BY SetAssumption, InvariantParts DEF TypeOK
<1>1. [obj |-> NoObj, mtime |-> 0] \notin {NoMeta, TornMeta}
  BY NewMetaType, DistinctAssumption
<1>2. [content |-> Empty, mtime |-> now'] # NoData
  <2>1. now' \in Times
    BY <1>0, TickType DEF OpenData
  <2>2. QED
    BY <2>1, EmptyFileType, ContentAssumption, DistinctAssumption DEF Bytes
<1>3. /\ \A q \in Paths : q # p => meta'[q] = meta[q] /\ data'[q] = data[q]
      /\ meta'[p] = IF meta[p] = NoMeta THEN [obj |-> NoObj, mtime |-> 0] ELSE meta[p]
      /\ data'[p] \in {data[p], [content |-> Empty, mtime |-> now']}
      /\ data'[p] # data[p] => ~Present(p) \/ "trunc" \in f
      /\ data'[p] # NoData
  BY <1>0, <1>2 DEF OpenData, Present
<1>4. meta'[p] \notin {NoMeta, TornMeta}
  BY <1>1, <1>3 DEF Found, Exists
<1>5. \A q \in Paths : (Exists(q) => meta'[q] = meta[q]) /\ (data[q] # NoData => data'[q] # NoData)
  BY <1>2, <1>3 DEF Exists
<1>6. ASSUME NEW d \in Clients PROVE HandleLinked(d)'
  <2>1. CASE d = c
    <3>1. handle'[d] = [node |-> p, inode |-> p]
      BY <1>0, <2>1 DEF OpenData
    <3>2. QED
      BY <1>3, <1>4, <3>1 DEF HandleLinked, Exists, Present
  <2>2. CASE d # c
    <3>1. handle'[d] = handle[d]
      BY <1>0, <2>2 DEF OpenData
    <3>2. handle[d] # NoHandle => handle[d].inode \in Paths \union {Exile}
      BY <1>0 DEF Handles
    <3>3. HandleLinked(d)
      BY DEF Coherent
    <3>4. QED
      BY <1>5, <3>1, <3>2, <3>3 DEF HandleLinked, Exists, Present
  <2>3. QED
    BY <2>1, <2>2
<1>7. DestinationsKept
  <2>1. ASSUME NEW k \in TaskKeys, Running(k)
        PROVE  /\ Exists(k[1])' /\ meta'[k[1]].obj = meta[k[1]].obj
               /\ Present(k[1])' <=> Present(k[1])
               /\ data'[k[1]] = data[k[1]]
    <3>1. k[1] \in Paths /\ k[2] \in ObjIds /\ Exists(k[1]) /\ meta[k[1]].obj = k[2]
      BY <2>1 DEF Coherent, TaskCurrent, Running, TaskKeys
    <3>2. meta'[k[1]] = meta[k[1]]
      BY <1>5, <3>1
    <3>3. k[1] = p => Present(p)
      BY <1>0, <2>1, <3>1 DEF NeedsObject
    <3>4. data'[k[1]] = data[k[1]]
      BY <1>3, <2>1, <3>1, <3>3
    <3>5. QED
      BY <3>1, <3>2, <3>4 DEF Exists, Present
  <2>2. QED
    BY <2>1 DEF DestinationsKept
<1>8. ArrivalsKept
  <2>1. \A d \in Clients : call[d].pc # "idle" => call[d].path \in Paths
    BY InvariantParts DEF ClientLocals
  <2>2. QED
    BY <1>5, <2>1 DEF ArrivalsKept, Present
<1>9. ReferencesFilled
  BY <1>3 DEF ReferencesFilled, Exists, Present
<1>10. QED
  BY <1>6, <1>7, <1>8, <1>9

LEMMA OpenFileCoherent ==
    ASSUME IInv, Coherent, NEW c \in Clients, NEW p \in Paths, NEW f \in Flags, OpenFile(c, p, f),
           command \in {"touch", "mount"}, UNCHANGED command,
           command = "touch" => walked' # {},
           "trunc" \in f => \A k \in TaskKeys : ~Running(k)
    PROVE  Coherent'
<1>1. TypeOK /\ UNCHANGED <<objs, task, call>> /\ handle \in [Clients -> Handles \union {NoHandle}]
  BY InvariantParts DEF OpenFile, TypeOK
<1>2. /\ \A d \in Clients : HandleLinked(d)'
      /\ DestinationsKept /\ ArrivalsKept /\ ReferencesFilled
  BY OpenDataKeeps DEF OpenFile
<1>3. OwnCallsOnly'
  BY <1>1, OwnCallsKept DEF Coherent
<1>4. QED
  BY <1>1, <1>2, <1>3, AwaitFrame

LEMMA OpenFileAgainCoherent ==
    ASSUME IInv, Coherent, NEW c \in Clients, OpenFileAgain(c), UNCHANGED <<command, walked>>
    PROVE  Coherent'
<1>1. /\ TypeOK /\ UNCHANGED <<objs, task>> /\ call[c].pc = "openAgain"
      /\ call' = [call EXCEPT ![c] = Idle] /\ Idle.pc = "idle"
  BY InvariantParts DEF OpenFileAgain, Return, Idle
<1>2. call'[c] = Idle /\ \A d \in Clients \ {c} : call'[d] = call[d]
  BY <1>1 DEF TypeOK
<1>3. command \in {"touch", "mount"}
  BY <1>1, CommandOfStep DEF Coherent
<1>4. /\ "trunc" \notin call[c].flags /\ call[c].path \in Paths /\ call[c].flags \in Flags
  BY <1>1, InvariantParts DEF Coherent, WaiterLocks, ClientLocals, TypeOK, Calls
<1> HIDE DEF Idle
<1>5. OwnCallsOnly'
  BY <1>1, <1>2, <1>3, OwnCallsKept, TouchWalked DEF Coherent
<1>6. /\ \A d \in Clients : HandleLinked(d)'
      /\ DestinationsKept /\ ArrivalsKept /\ ReferencesFilled
  <2>1. CASE UNCHANGED <<meta, data, handle, now>>
    <3>1. \A d \in Clients : HandleLinked(d)'
      BY <2>1 DEF Coherent, HandleLinked, Exists, Present
    <3>2. QED
      BY <2>1, <3>1, FilesKept
  <2>2. CASE /\ Found(call[c].path, call[c].flags) /\ ~NeedsObject(call[c].path, call[c].flags)
             /\ OpenData(c, call[c].path, call[c].flags)
    BY <1>4, <2>2, OpenDataKeeps
  <2>3. QED
    BY <2>1, <2>2 DEF OpenFileAgain
<1>7. QED
  BY <1>1, <1>2, <1>3, <1>5, <1>6, AwaitFrame

-----------------------------------------------------------------------------
\* Remove and Rename need the paths they touch unlocked, so neither is the
\* destination of a task, nor has anybody waited for it.
LEMMA UnlockedKept ==
    ASSUME IInv, Coherent, TaskHoldsPath,
           \A q \in Paths : ~CanWLock(q) => meta'[q] = meta[q] /\ data'[q] = data[q]
    PROVE  DestinationsKept /\ ArrivalsKept
<1>1. ASSUME NEW k \in TaskKeys, Running(k)
      PROVE  /\ Exists(k[1])' /\ meta'[k[1]].obj = meta[k[1]].obj
             /\ Present(k[1])' <=> Present(k[1])
             /\ data'[k[1]] = data[k[1]]
  <2>1. PICK d \in Waiting(k) : call[d].lock # "none"
    BY <1>1 DEF TaskHoldsPath, Running
  <2>2. d \in Clients /\ call[d].path = k[1] /\ k[1] \in Paths
    BY <2>1 DEF Waiting, TaskKeys
  <2>3. meta'[k[1]] = meta[k[1]] /\ data'[k[1]] = data[k[1]]
    BY <2>1, <2>2 DEF CanWLock
  <2>4. Exists(k[1])
    BY <1>1 DEF Coherent, TaskCurrent, Running
  <2>5. QED
    BY <2>3, <2>4 DEF Exists, Present
<1>2. ASSUME NEW d \in Clients, call[d].pc \in {"openAgain", "downloadReturn"}, Present(call[d].path)
      PROVE  data'[call[d].path] # NoData
  <2>1. call[d].path \in Paths /\ call[d].lock # "none"
    BY <1>2, InvariantParts DEF ClientLocals, Coherent, WaiterLocks
  <2>2. data'[call[d].path] = data[call[d].path]
    BY <2>1 DEF CanWLock
  <2>3. QED
    BY <1>2, <2>2 DEF Present
<1>3. QED
  BY <1>1, <1>2 DEF DestinationsKept, ArrivalsKept

\* Handles that move together with their files stay linked.
LEMMA MovedLinked ==
    ASSUME TypeOK, Coherent, NEW nodeOf \in [Places -> Places], NEW inodeOf \in [Places -> Places],
           handle' = Moved(nodeOf, inodeOf), nodeOf[Exile] = Exile, inodeOf[Exile] = Exile,
           \A x \in Paths : Exists(x) /\ Present(x) =>
               /\ nodeOf[x] = inodeOf[x]
               /\ inodeOf[x] # Exile => meta'[inodeOf[x]] \notin {NoMeta, TornMeta} /\ data'[inodeOf[x]] # NoData
    PROVE  /\ \A d \in Clients : HandleLinked(d)'
           /\ \A d \in Clients : handle'[d] # NoHandle => handle[d] # NoHandle
<1>1. ASSUME NEW d \in Clients, handle'[d] # NoHandle
      PROVE  /\ handle[d] # NoHandle
             /\ handle'[d] = [node |-> nodeOf[handle[d].node], inode |-> inodeOf[handle[d].inode]]
  BY <1>1 DEF Moved
<1>2. ASSUME NEW d \in Clients, handle'[d] # NoHandle PROVE HandleLinked(d)'
  <2>1. handle[d].node = handle[d].inode /\ handle[d].inode \in Places
    BY <1>1, <1>2 DEF TypeOK, Handles, Places, Coherent, HandleLinked
  <2>2. handle[d].inode # Exile => Exists(handle[d].inode) /\ Present(handle[d].inode)
    BY <1>1, <1>2 DEF Coherent, HandleLinked
  <2>3. /\ handle'[d].node = nodeOf[handle[d].inode]
        /\ handle'[d].inode = inodeOf[handle[d].inode]
    <3>1. handle'[d] = [node |-> nodeOf[handle[d].node], inode |-> inodeOf[handle[d].inode]]
      BY <1>1, <1>2, Zenon
    <3>2. QED
      BY <2>1, <3>1
  <2>4. CASE handle[d].inode = Exile
    BY <2>3, <2>4 DEF HandleLinked
  <2>5. CASE handle[d].inode # Exile
    <3>1. /\ handle[d].inode \in Paths /\ Exists(handle[d].inode) /\ Present(handle[d].inode)
      BY <2>1, <2>2, <2>5 DEF Places
    <3> DEFINE x == handle[d].inode
    <3>2. /\ nodeOf[x] = inodeOf[x]
          /\ inodeOf[x] # Exile => meta'[inodeOf[x]] \notin {NoMeta, TornMeta} /\ data'[inodeOf[x]] # NoData
      BY <3>1
    <3>3. QED
      BY <2>3, <3>2 DEF HandleLinked, Exists, Present
  <2>6. QED
    BY <2>4, <2>5
<1>3. ASSUME NEW d \in Clients PROVE HandleLinked(d)'
  BY <1>2 DEF HandleLinked
<1>4. QED
  BY <1>1, <1>3

\* What Remove and Rename owe to the rest.
LEMMA MovesCoherent ==
    ASSUME IInv, Coherent, TaskHoldsPath, command \in {"mv", "rm", "mount"}, UNCHANGED command,
           UNCHANGED <<objs, task, call>>, NEW c \in Clients,
           \A q \in Paths : ~CanWLock(q) => meta'[q] = meta[q] /\ data'[q] = data[q],
           \A d \in Clients : HandleLinked(d)',
           \A d \in Clients : handle'[d] # NoHandle => handle[d] # NoHandle,
           ReferencesFilled
    PROVE  Coherent'
<1>1. TypeOK /\ DestinationsKept /\ ArrivalsKept
  BY UnlockedKept, InvariantParts
<1>2. OwnCallsOnly'
  BY OwnCallsKept DEF Coherent
<1>3. QED
  BY <1>1, <1>2, AwaitFrame

LEMMA RemoveCoherent ==
    ASSUME IInv, Coherent, TaskHoldsPath, NEW c \in Clients, NEW p \in Paths, Remove(c, p),
           command \in {"rm", "mount"}, UNCHANGED command
    PROVE  Coherent'
<1> DEFINE to == [Same EXCEPT ![p] = Exile]
<1>1. /\ to \in [Places -> Places] /\ to[Exile] = Exile /\ to[p] = Exile
      /\ \A x \in Paths \ {p} : to[x] = x
      /\ handle' = Moved(to, to)
  BY SetAssumption DEF Remove, Same, Places
<1>2. /\ TypeOK /\ CanWLock(p) /\ UNCHANGED <<objs, task, call>>
      /\ meta'[p] = NoMeta /\ data'[p] = NoData
      /\ \A x \in Paths \ {p} : meta'[x] = meta[x] /\ data'[x] = data[x]
  BY InvariantParts DEF Remove, TypeOK
<1> HIDE DEF to
<1>3. /\ \A d \in Clients : HandleLinked(d)'
      /\ \A d \in Clients : handle'[d] # NoHandle => handle[d] # NoHandle
  <2>1. \A x \in Paths : Exists(x) /\ Present(x) =>
            (to[x] # Exile => meta'[to[x]] \notin {NoMeta, TornMeta} /\ data'[to[x]] # NoData)
    BY <1>1, <1>2 DEF Exists, Present
  <2>2. QED
    BY <1>1, <1>2, <2>1, MovedLinked
<1>4. ReferencesFilled
  BY <1>2 DEF ReferencesFilled, Exists, Present
<1>5. QED
  BY <1>2, <1>3, <1>4, MovesCoherent

LEMMA RenameCoherent ==
    ASSUME IInv, Coherent, TaskHoldsPath, NEW c \in Clients, NEW s \in Paths, NEW t \in Paths,
           Rename(c, s, t), command \in {"mv", "mount"}, UNCHANGED command
    PROVE  Coherent'
<1> DEFINE nodeOf == [Same EXCEPT ![s] = t, ![t] = IF Exists(t) THEN Exile ELSE s]
           inodeOf == [Same EXCEPT ![s] = t, ![t] = Exile]
<1>1. /\ s # t /\ CanWLock(s) /\ CanWLock(t) /\ Exists(s) /\ Present(s) /\ TypeOK
      /\ UNCHANGED <<objs, task, call>>
  BY InvariantParts DEF Rename
<1>2. /\ nodeOf \in [Places -> Places] /\ inodeOf \in [Places -> Places]
      /\ nodeOf[Exile] = Exile /\ inodeOf[Exile] = Exile
      /\ nodeOf[s] = t /\ inodeOf[s] = t /\ inodeOf[t] = Exile /\ (Exists(t) => nodeOf[t] = Exile)
      /\ \A x \in Paths \ {s, t} : nodeOf[x] = x /\ inodeOf[x] = x
      /\ handle' = Moved(nodeOf, inodeOf)
  BY <1>1, SetAssumption DEF Rename, Same, Places
<1>3. /\ meta'[t] = meta[s] /\ data'[t] = data[s] /\ meta'[s] = NoMeta /\ data'[s] = NoData
      /\ \A x \in Paths \ {s, t} : meta'[x] = meta[x] /\ data'[x] = data[x]
  BY <1>1 DEF Rename, TypeOK
<1> HIDE DEF nodeOf, inodeOf
<1>4. /\ \A d \in Clients : HandleLinked(d)'
      /\ \A d \in Clients : handle'[d] # NoHandle => handle[d] # NoHandle
  <2>1. \A x \in Paths : Exists(x) /\ Present(x) =>
            /\ nodeOf[x] = inodeOf[x]
            /\ inodeOf[x] # Exile =>
                  meta'[inodeOf[x]] \notin {NoMeta, TornMeta} /\ data'[inodeOf[x]] # NoData
    BY <1>1, <1>2, <1>3 DEF Exists, Present
  <2>2. QED
    BY <1>1, <1>2, <2>1, MovedLinked
<1>5. ReferencesFilled
  BY <1>1, <1>3 DEF ReferencesFilled, Exists, Present
<1>6. QED
  BY <1>1, <1>3, <1>4, <1>5, MovesCoherent

LEMMA RenameFailsCoherent ==
    ASSUME IInv, Coherent, TaskHoldsPath, NEW c \in Clients, NEW s \in Paths, NEW t \in Paths,
           RenameFails(c, s, t), command \in {"mv", "mount"}, UNCHANGED command
    PROVE  Coherent'
<1> DEFINE to == [Same EXCEPT ![t] = Exile]
<1>1. /\ to \in [Places -> Places] /\ to[Exile] = Exile /\ to[t] = Exile
      /\ \A x \in Paths \ {t} : to[x] = x
  BY SetAssumption DEF Same, Places
<1>2. /\ TypeOK /\ CanWLock(t) /\ UNCHANGED <<objs, task, call>>
      /\ meta'[t] = NoMeta
      /\ \A x \in Paths \ {t} : meta'[x] = meta[x] /\ data'[x] = data[x]
      /\ IF Exists(t) THEN handle' = Moved(to, to) ELSE UNCHANGED handle
  BY InvariantParts DEF RenameFails, TypeOK
<1> HIDE DEF to
<1>3. /\ \A d \in Clients : HandleLinked(d)'
      /\ \A d \in Clients : handle'[d] # NoHandle => handle[d] # NoHandle
  <2>1. CASE Exists(t)
    <3>1. \A x \in Paths : Exists(x) /\ Present(x) =>
              (to[x] # Exile => meta'[to[x]] \notin {NoMeta, TornMeta} /\ data'[to[x]] # NoData)
      BY <1>1, <1>2 DEF Exists, Present
    <3>2. QED
      BY <1>1, <1>2, <2>1, <3>1, MovedLinked
  <2>2. CASE ~Exists(t)
    <3>1. ASSUME NEW d \in Clients PROVE HandleLinked(d)'
      <4>1. HandleLinked(d) /\ UNCHANGED handle
        BY <1>2, <2>2 DEF Coherent
      <4>2. handle[d] # NoHandle /\ handle[d].inode # Exile =>
                handle[d].inode \in Paths \ {t}
        BY <1>2, <2>2, <4>1 DEF HandleLinked, TypeOK, Handles
      <4>3. QED
        BY <1>2, <4>1, <4>2 DEF HandleLinked, Exists, Present
    <3>2. QED
      BY <1>2, <2>2, <3>1
  <2>3. QED
    BY <2>1, <2>2
<1>4. ReferencesFilled
  BY <1>2 DEF ReferencesFilled, Exists, Present
<1>5. \A q \in Paths : ~CanWLock(q) => meta'[q] = meta[q] /\ data'[q] = data[q]
  BY <1>2
<1>6. QED
  BY <1>2, <1>3, <1>4, <1>5, MovesCoherent

-----------------------------------------------------------------------------
\* A call that needs an object starts a task for it, or joins the one there
\* is.  A task that has succeeded is not found: the data would be there.
LEMMA JoinsCoherent ==
    ASSUME IInv, Coherent, NEW c \in Clients, call[c].pc = "idle", NEW cl \in Calls,
           cl.path \in Paths, Exists(cl.path), ~Present(cl.path),
           cl.obj = meta[cl.path].obj, cl.obj \in ObjIds,
           \/ cl.pc = "downloadWait" /\ cl.lock = "W" /\ command = "download"
           \/ /\ cl.pc = "openWait" /\ cl.lock = "R" /\ "trunc" \notin cl.flags
              /\ command \in {"touch", "mount"},
           FindOrNewTask(c, cl), UNCHANGED <<meta, data, objs, handle, command>>,
           command = "touch" => walked' # {}
    PROVE  Coherent'
<1> DEFINE k == <<cl.path, cl.obj>>
<1>1. /\ k \in TaskKeys /\ k[1] = cl.path /\ k[2] = cl.obj
      /\ call \in [Clients -> Calls] /\ task \in [TaskKeys -> Tasks \union {NoTask}]
  BY InvariantParts DEF TaskKeys, TypeOK
<1>2. \A d \in Clients \ {c} : call'[d] = call[d]
  BY <1>1 DEF FindOrNewTask
<1>3. /\ \A j \in TaskKeys \ {k} : task'[j] = task[j]
      /\ task[k] # NoTask => task'[k] = task[k]
      /\ task[k] = NoTask => task'[k] = NewTask(meta[cl.path].mtime)
  BY <1>1 DEF FindOrNewTask
<1>4. command \notin {"upload", "evict"}
  OBVIOUS
<1>5. \A d \in Clients : call[d].pc \in AwaitAt \union {"idle"}
  BY <1>4, AwaitsOnly DEF Coherent
<1>6. call'[c] = cl \/ call'[c] = Idle
      \/ (call'[c] = [cl EXCEPT !.pc = "downloadReturn", !.ok = FALSE] /\ cl.pc = "downloadWait")
  <2>1. CASE task[k] # NoTask /\ task[k].step = "done"
    <3>1. ~task[k].ok /\ task[k].ok \in BOOLEAN
      <4>1. task[k].ok \in BOOLEAN
        BY <1>1, <2>1, TaskType, InvariantParts DEF Tasks
      <4>2. ~task[k].ok
        BY <1>1, <2>1, SetAssumption DEF Coherent, TaskCurrent
      <4>3. QED
        BY <4>1, <4>2
    <3>2. call'[c] = Woken(cl, FALSE)
      <4>1. task[k].ok = FALSE
        BY <3>1
      <4>2. call'[c] = Woken(cl, task[k].ok)
        BY <1>1, <2>1 DEF FindOrNewTask
      <4>3. QED
        BY <4>1, <4>2
    <3>3. QED
      BY <3>2 DEF Woken
  <2>2. CASE ~(task[k] # NoTask /\ task[k].step = "done")
    BY <1>1, <2>2 DEF FindOrNewTask
  <2>3. QED
    BY <2>1, <2>2
<1>7. /\ Idle.pc = "idle"
      /\ [cl EXCEPT !.pc = "downloadReturn", !.ok = FALSE].pc = "downloadReturn"
      /\ [cl EXCEPT !.pc = "downloadReturn", !.ok = FALSE].ok = FALSE
      /\ [cl EXCEPT !.pc = "downloadReturn", !.ok = FALSE].lock = cl.lock
  BY DEF Idle, Calls
<1> HIDE DEF Idle
<1>8. /\ call'[c].pc \in {"idle", "downloadWait", "downloadReturn", "openWait"}
      /\ call'[c].pc = "downloadReturn" => call'[c].ok = FALSE
      /\ WaiterLocks(c)'
      /\ call'[c].pc \in {"idle"} \union StepsOf(command)
  <2>1. CASE call'[c] = cl
    BY <2>1 DEF WaiterLocks, StepsOf
  <2>2. CASE call'[c] = Idle
    BY <1>7, <2>2 DEF WaiterLocks
  <2>3. CASE call'[c] = [cl EXCEPT !.pc = "downloadReturn", !.ok = FALSE] /\ cl.pc = "downloadWait"
    BY <1>7, <2>3 DEF WaiterLocks, StepsOf
  <2>4. QED
    BY <1>6, <2>1, <2>2, <2>3
<1>9. OwnCallsOnly'
  <2>1. \A d \in Clients : call'[d].pc \in {"idle", call[d].pc} \union StepsOf(command)
    BY <1>2, <1>8
  <2>2. QED
    BY <2>1, OwnCallsKept DEF Coherent
<1>10. ASSUME NEW d \in Clients
       PROVE  call'[d].pc \in AwaitAt \union {"idle"} /\ WaiterLocks(d)' /\ HandleLinked(d)'
  <2>1. HandleLinked(d)'
    BY DEF Coherent, HandleLinked, Exists, Present
  <2>2. CASE d = c
    BY <1>8, <2>1, <2>2 DEF AwaitAt
  <2>3. CASE d # c
    BY <1>2, <1>5, <2>1, <2>3 DEF Coherent, WaiterLocks
  <2>4. QED
    BY <2>2, <2>3
<1>11. DownloadedBeforeReopen'
  <2>1. ASSUME NEW d \in Clients,
               call'[d].pc = "openAgain" \/ (call'[d].pc = "downloadReturn" /\ call'[d].ok)
        PROVE  data'[call'[d].path] # NoData
    <3>1. d # c
      BY <1>8, <2>1
    <3>2. call'[d] = call[d]
      BY <1>2, <3>1
    <3>3. QED
      BY <2>1, <3>2 DEF Coherent, DownloadedBeforeReopen, Present
  <2>2. QED
    BY <2>1 DEF DownloadedBeforeReopen, Present
<1>12. ASSUME NEW j \in TaskKeys PROVE TaskCurrent(j)'
  <2>1. CASE task'[j] = task[j]
    BY <2>1 DEF Coherent, TaskCurrent, Exists, Present
  <2>2. CASE j = k /\ task'[j] = NewTask(meta[cl.path].mtime)
    <3>1. task'[j].step = "lock"
      BY <2>2 DEF NewTask
    <3>2. Exists(j[1])' /\ ~Present(j[1])' /\ meta'[j[1]].obj = j[2]
      BY <1>1, <2>2 DEF Exists, Present
    <3>3. QED
      BY <3>1, <3>2 DEF TaskCurrent
  <2>3. QED
    BY <1>3, <2>1, <2>2
<1>13. ObjectIntegrity'
  BY IntegrityKept DEF Coherent
<1>14. QED
  BY <1>9, <1>10, <1>11, <1>12, <1>13, AwaitPhase

LEMMA DownloadCallCoherent ==
    ASSUME IInv, Coherent, NEW c \in Clients, NEW p \in Paths, DownloadCall(c, p),
           command = "download", UNCHANGED command
    PROVE  Coherent'
<1> DEFINE cl == [Idle EXCEPT !.pc = "downloadWait", !.path = p, !.lock = "W", !.obj = meta[p].obj]
<1>1. /\ call[c].pc = "idle" /\ Exists(p) /\ ~Present(p) /\ meta[p].obj # NoObj
      /\ FindOrNewTask(c, cl) /\ UNCHANGED <<meta, data, objs, handle>>
  BY DEF DownloadCall, Begin, disk
<1>2. meta[p].obj \in ObjIds
  BY <1>1, FileType, InvariantParts DEF Metas
<1>3. /\ cl \in Calls /\ cl.pc = "downloadWait" /\ cl.path = p /\ cl.obj = meta[p].obj
      /\ cl.lock = "W"
  BY <1>2, IdleType DEF Calls, Steps
<1> HIDE DEF cl
<1>4. QED
  BY <1>1, <1>2, <1>3, JoinsCoherent

LEMMA OpenFileDownloadsCoherent ==
    ASSUME IInv, Coherent, NEW c \in Clients, NEW p \in Paths, NEW f \in Flags,
           OpenFileDownloads(c, p, f), command \in {"touch", "mount"}, UNCHANGED command,
           command = "touch" => walked' # {}
    PROVE  Coherent'
<1> DEFINE cl == [Idle EXCEPT !.pc = "openWait", !.path = p, !.lock = "R",
                              !.obj = meta[p].obj, !.flags = f]
<1>1. /\ call[c].pc = "idle" /\ Exists(p) /\ ~Present(p) /\ meta[p].obj # NoObj
      /\ "trunc" \notin f
      /\ FindOrNewTask(c, cl) /\ UNCHANGED <<meta, data, objs, handle>>
  BY DEF OpenFileDownloads, Begin, disk, NeedsObject
<1>2. meta[p].obj \in ObjIds
  BY <1>1, FileType, InvariantParts DEF Metas
<1>3. /\ cl \in Calls /\ cl.pc = "openWait" /\ cl.path = p /\ cl.obj = meta[p].obj
      /\ cl.lock = "R" /\ cl.flags = f
  BY <1>2, IdleType DEF Calls, Steps
<1> HIDE DEF cl
<1>4. QED
  BY <1>1, <1>2, <1>3, JoinsCoherent

-----------------------------------------------------------------------------
\* The steps of a task that is not done, the only one for its path: it gives
\* no other content away, and wakes nobody but its own callers.
LEMMA OneTaskPerPath ==
    ASSUME Coherent, NEW j \in TaskKeys, NEW k \in TaskKeys, Running(j), Running(k), j[1] = k[1]
    PROVE  j = k
<1>1. meta[j[1]].obj = j[2] /\ meta[k[1]].obj = k[2]
  BY DEF Coherent, TaskCurrent, Running
<1>2. QED
  BY <1>1 DEF TaskKeys

TaskWakes(k, good) ==
    \A d \in Clients : call'[d] = call[d] \/ (d \in Waiting(k) /\ call'[d] = Woken(call[d], good))

LEMMA WokenCall ==
    ASSUME Coherent, NEW k \in TaskKeys, NEW d \in Waiting(k), call[d] \in Calls, NEW good \in BOOLEAN,
           call'[d] = Woken(call[d], good)
    PROVE  /\ call'[d].pc \in AwaitAt \union {"idle"}
           /\ call'[d].pc \in {"idle"} \union StepsOf(command)
           /\ WaiterLocks(d)'
           /\ call'[d].pc = "openAgain" \/ (call'[d].pc = "downloadReturn" /\ call'[d].ok) =>
                 good /\ call'[d].path = k[1]
<1>1. d \in Clients /\ call[d].pc \in {"downloadWait", "openWait"} /\ call[d].path = k[1]
  BY DEF Waiting
<1>2. CASE call[d].pc = "downloadWait"
  <2>1. /\ call'[d].pc = "downloadReturn" /\ call'[d].ok = good
        /\ call'[d].path = k[1] /\ call'[d].lock = call[d].lock
    BY <1>1, <1>2 DEF Woken, Calls
  <2>2. command = "download" /\ call[d].lock = "W"
    BY <1>1, <1>2, CommandOfStep DEF Coherent, WaiterLocks
  <2>3. QED
    BY <2>1, <2>2 DEF AwaitAt, StepsOf, WaiterLocks
<1>3. CASE call[d].pc = "openWait" /\ good
  <2>1. /\ call'[d].pc = "openAgain" /\ call'[d].flags = call[d].flags
        /\ call'[d].path = k[1] /\ call'[d].lock = call[d].lock
    BY <1>1, <1>3 DEF Woken, Calls
  <2>2. command \in {"touch", "mount"} /\ call[d].lock = "R" /\ "trunc" \notin call[d].flags
    BY <1>1, <1>3, CommandOfStep DEF Coherent, WaiterLocks
  <2>3. QED
    BY <1>3, <2>1, <2>2 DEF AwaitAt, StepsOf, WaiterLocks
<1>4. CASE call[d].pc = "openWait" /\ ~good
  <2>1. call'[d].pc = "idle"
    BY <1>4 DEF Woken, Idle
  <2>2. QED
    BY <2>1 DEF WaiterLocks
<1>5. QED
  BY <1>1, <1>2, <1>3, <1>4

LEMMA TaskFrame ==
    ASSUME IInv, Coherent, NEW k \in TaskKeys, Running(k), NEW good \in BOOLEAN, TaskWakes(k, good),
           UNCHANGED <<meta, objs, handle, command, walked>>,
           \A q \in Paths \ {k[1]} : data'[q] = data[q],
           good \/ Present(k[1]) => data'[k[1]] # NoData,
           \A j \in TaskKeys \ {k} : task'[j] = task[j], TaskCurrent(k)'
    PROVE  Coherent'
<1>1. /\ call \in [Clients -> Calls] /\ handle \in [Clients -> Handles \union {NoHandle}]
      /\ k[1] \in Paths
  BY KeyType, InvariantParts DEF TypeOK
<1>2. command \in {"download", "touch", "mount"}
  BY DEF Coherent, OwnCallsOnly, Running
<1>3. \A d \in Clients : call[d].pc \in AwaitAt \union {"idle"}
  BY <1>2, AwaitsOnly DEF Coherent
<1>4. \A q \in Paths : Present(q) => data'[q] # NoData
  BY DEF Present
<1>5. ASSUME NEW d \in Clients
      PROVE  /\ call'[d].pc \in AwaitAt \union {"idle"}
             /\ call'[d].pc \in {"idle", call[d].pc} \union StepsOf(command)
             /\ WaiterLocks(d)'
             /\ call'[d].pc = "openAgain" \/ (call'[d].pc = "downloadReturn" /\ call'[d].ok) =>
                   data'[call'[d].path] # NoData
  <2>1. CASE call'[d] = call[d]
    <3>1. WaiterLocks(d)'
      BY <2>1 DEF Coherent, WaiterLocks
    <3>2. ASSUME call[d].pc = "openAgain" \/ (call[d].pc = "downloadReturn" /\ call[d].ok)
          PROVE  data'[call[d].path] # NoData
      <4>1. Present(call[d].path) /\ call[d].path \in Paths
        BY <3>2, InvariantParts DEF Coherent, DownloadedBeforeReopen, ClientLocals
      <4>2. QED
        BY <1>4, <4>1
    <3>3. QED
      BY <1>3, <2>1, <3>1, <3>2
  <2>2. CASE d \in Waiting(k) /\ call'[d] = Woken(call[d], good)
    <3>1. /\ call'[d].pc \in AwaitAt \union {"idle"}
          /\ call'[d].pc \in {"idle"} \union StepsOf(command)
          /\ WaiterLocks(d)'
          /\ call'[d].pc = "openAgain" \/ (call'[d].pc = "downloadReturn" /\ call'[d].ok) =>
                 good /\ call'[d].path = k[1]
      BY <1>1, <2>2, WokenCall
    <3>2. QED
      BY <3>1
  <2>3. QED
    BY <2>1, <2>2 DEF TaskWakes
<1>6. OwnCallsOnly'
  BY <1>2, <1>5, OwnCallsKept, TouchWalked DEF Coherent, Running
<1>7. ASSUME NEW d \in Clients PROVE HandleLinked(d)'
  BY <1>1, <1>4 DEF Coherent, HandleLinked, Exists, Present, Handles
<1>8. DownloadedBeforeReopen'
  BY <1>5 DEF DownloadedBeforeReopen, Present
<1>9. ASSUME NEW j \in TaskKeys PROVE TaskCurrent(j)'
  <2>1. CASE j = k
    BY <2>1
  <2>2. CASE j # k /\ Running(j)
    <3>1. j[1] # k[1] /\ j[1] \in Paths /\ task'[j] = task[j]
      BY <2>2, OneTaskPerPath, KeyType
    <3>2. data'[j[1]] = data[j[1]]
      BY <3>1
    <3>3. QED
      BY <3>1, <3>2 DEF Coherent, TaskCurrent, Exists, Present
  <2>3. CASE j # k /\ ~Running(j)
    <3>1. j[1] \in Paths /\ task'[j] = task[j]
      BY <2>3, KeyType
    <3>2. Present(j[1]) => data'[j[1]] # NoData
      BY <1>4, <3>1
    <3>3. QED
      BY <2>3, <3>1, <3>2 DEF Coherent, TaskCurrent, Running, Exists, Present
  <2>4. QED
    BY <2>1, <2>2, <2>3
<1>10. ObjectIntegrity'
  BY IntegrityKept DEF Coherent
<1>11. QED
  BY <1>5, <1>6, <1>7, <1>8, <1>9, <1>10, AwaitPhase

LEMMA TaskFinishes ==
    ASSUME IInv, Coherent, NEW k \in TaskKeys, Running(k), NEW good \in BOOLEAN, Finish(k, good),
           UNCHANGED <<meta, objs, handle, command, walked>>,
           \A q \in Paths \ {k[1]} : data'[q] = data[q],
           good \/ Present(k[1]) => data'[k[1]] # NoData
    PROVE  Coherent'
<1>1. task[k] \in Tasks /\ task \in [TaskKeys -> Tasks \union {NoTask}]
  BY TaskType, InvariantParts DEF TypeOK, Running
<1>2. /\ task'[k].step = "done" /\ task'[k].ok = good
      /\ \A j \in TaskKeys \ {k} : task'[j] = task[j]
  BY <1>1 DEF Finish, Tasks
<1>3. TaskWakes(k, good)
  BY DEF TaskWakes, Finish
<1>4. TaskCurrent(k)'
  BY <1>2 DEF TaskCurrent, Present
<1>5. QED
  BY <1>2, <1>3, <1>4, TaskFrame

LEMMA TaskGoesOn ==
    ASSUME IInv, Coherent, NEW k \in TaskKeys, Running(k), NEW t,
           task' = [task EXCEPT ![k] = t], t.step \in TaskSteps \ {"done"},
           t.step = "move" => t.got = k[2][2],
           UNCHANGED <<meta, objs, call, handle, command, walked>>,
           \A q \in Paths \ {k[1]} : data'[q] = data[q],
           IF t.step \in {"inlineWrite", "inlineTime"}
           THEN data'[k[1]] # NoData ELSE UNCHANGED data /\ ~Present(k[1]),
           command # "mount" =>
               /\ t.step = "inlineWrite" => data'[k[1]].content = Torn
               /\ t.step = "inlineTime" => data'[k[1]].content = k[2][2]
    PROVE  Coherent'
<1>1. task'[k] = t /\ \A j \in TaskKeys \ {k} : task'[j] = task[j]
  BY InvariantParts DEF TypeOK
<1>2. Exists(k[1]) /\ meta[k[1]].obj = k[2]
  BY DEF Coherent, TaskCurrent, Running
<1>3. TaskCurrent(k)'
  BY <1>1, <1>2 DEF TaskCurrent, Exists, Present
<1>4. TaskWakes(k, FALSE)
  BY DEF TaskWakes
<1>5. QED
  BY <1>1, <1>3, <1>4, TaskFrame

LEMMA TaskStepCoherent ==
    ASSUME IInv, Coherent, NEW k \in TaskKeys, TaskStep(k), UNCHANGED <<command, walked>>
    PROVE  Coherent'
<1>0. /\ TypeOK /\ task \in [TaskKeys -> Tasks \union {NoTask}]
      /\ data \in [Paths -> Files \union {NoData}] /\ call \in [Clients -> Calls]
      /\ handle \in [Clients -> Handles \union {NoHandle}]
      /\ k[1] \in Paths /\ k[2] \in ObjIds
      /\ TaskCurrent(k) /\ TaskLocals(k)
  BY KeyType, InvariantParts DEF TypeOK, Coherent
<1>1. ASSUME NEW s \in TaskSteps, task[k] # NoTask
      PROVE  [task[k] EXCEPT !.step = s].step = s
  BY <1>1, TaskAtType
<1>2. CASE TaskLock(k) \/ TaskLoad(k)
  <2>1. PICK s \in {"bucket", "inline", "fetch"} :
            task' = [task EXCEPT ![k] = [task[k] EXCEPT !.step = s]]
    BY <1>2 DEF TaskLock, TaskLoad, GoOn
  <2>2. /\ Running(k) /\ ~Present(k[1])
        /\ UNCHANGED <<meta, data, objs, call, handle>>
    BY <1>0, <1>2 DEF TaskLock, TaskLoad, At, Running, TaskCurrent, disk
  <2> DEFINE t == [task[k] EXCEPT !.step = s]
  <2>3. t.step = s
    BY <1>1, <2>2 DEF Running, TaskSteps
  <2> HIDE DEF t
  <2>4. QED
    BY <2>1, <2>2, <2>3, TaskGoesOn DEF t, TaskSteps
<1>3. CASE TaskInlineCreate(k)
  <2> DEFINE t == [task[k] EXCEPT !.step = "inlineWrite"]
             new == [content |-> Torn, mtime |-> now]
  <2>1. /\ task' = [task EXCEPT ![k] = t]
        /\ Running(k) /\ ~Present(k[1])
        /\ data' = [data EXCEPT ![k[1]] = new]
        /\ UNCHANGED <<meta, objs, call, handle>>
    BY <1>3 DEF TaskInlineCreate, GoOn, At, Running
  <2>2. t.step = "inlineWrite"
    BY <1>1, <2>1 DEF Running, TaskSteps
  <2>3. new # NoData
    <3>1. new \in Files
      BY <1>0 DEF TypeOK, Files, Bytes
    <3>2. QED
      BY <3>1, DistinctAssumption
  <2> HIDE DEF t, new
  <2>4. /\ \A q \in Paths \ {k[1]} : data'[q] = data[q]
        /\ data'[k[1]] # NoData
    BY <1>0, <2>1, <2>3
  <2>5. data'[k[1]].content = Torn
    BY <1>0, <2>1 DEF new
  <2>6. QED
    BY <2>1, <2>2, <2>4, <2>5, TaskGoesOn DEF TaskSteps
<1>4. CASE TaskFetch(k)
  <2>1. PICK e \in Engines :
            /\ objs[k[2]].at[e] # NoContent
            /\ task' = [task EXCEPT ![k] = [task[k] EXCEPT !.step = "move", !.got = objs[k[2]].at[e]]]
    BY <1>4 DEF TaskFetch
  <2>2. /\ Running(k) /\ ~Present(k[1]) /\ objs[k[2]] # NoRecord
        /\ UNCHANGED <<meta, data, objs, call, handle>>
    BY <1>0, <1>4 DEF TaskFetch, At, Running, TaskCurrent, TaskLocals, disk
  <2>3. objs[k[2]].at[e] = k[2][2]
    BY <1>0, <2>1, <2>2 DEF Coherent, ObjectIntegrity, Schemes
  <2> DEFINE t == [task[k] EXCEPT !.step = "move", !.got = objs[k[2]].at[e]]
  <2>4. t.step = "move" /\ t.got = k[2][2]
    <3>1. task[k] \in Tasks
      BY <1>0, <2>2, TaskType DEF Running
    <3>2. QED
      BY <2>3, <3>1 DEF Tasks
  <2> HIDE DEF t
  <2>5. QED
    BY <2>1, <2>2, <2>4, TaskGoesOn DEF t, TaskSteps
<1>5. CASE \/ TaskLoadFails(k) \/ TaskInlineCreateFails(k) \/ TaskInlineTimeFails(k)
           \/ TaskFetchFails(k)
  <2>1. /\ Running(k) /\ Finish(k, FALSE)
        /\ UNCHANGED <<meta, data, objs, handle>>
    BY <1>5
       DEF TaskLoadFails, TaskInlineCreateFails, TaskInlineTimeFails, TaskFetchFails, At, Running,
           disk
  <2>2. QED
    BY <2>1, TaskFinishes DEF Present
<1>6. CASE TaskInlineCopy(k)
  <2> DEFINE t == [task[k] EXCEPT !.step = "inlineTime"]
  <2>1. /\ task' = [task EXCEPT ![k] = t] /\ Running(k) /\ task[k].step = "inlineWrite"
        /\ UNCHANGED <<meta, objs, call, handle>>
    BY <1>6 DEF TaskInlineCopy, GoOn, At, Running
  <2>2. t.step = "inlineTime"
    BY <1>1, <2>1 DEF Running, TaskSteps
  <2>3. objs[k[2]] # NoRecord /\ objs[k[2]].at[Base64] \in Bytes /\ objs[k[2]].at[Base64] = k[2][2]
    <3>1. objs[k[2]] # NoRecord /\ objs[k[2]].at[Base64] # NoContent
      BY <1>0, <2>1 DEF Running, TaskLocals
    <3>2. objs[k[2]].at[Base64] \in Bytes
      BY <1>0, <3>1 DEF TypeOK, BucketFiles, Records, Schemes
    <3>3. objs[k[2]].at[Base64] = k[2][2]
      BY <1>0, <3>1 DEF Coherent, ObjectIntegrity, Schemes
    <3>4. QED
      BY <3>1, <3>2, <3>3
  <2>4. PICK b \in Copied(k) : data' = [data EXCEPT ![k[1]] = [content |-> b, mtime |-> now]]
    BY <1>6 DEF TaskInlineCopy
  <2>5. b \in Bytes /\ (command # "mount" => b = k[2][2])
    <3>1. command # "mount" => data[k[1]].content = Torn
      BY <1>0, <2>1 DEF TaskCurrent, Running
    <3>2. QED
      BY <2>3, <2>4, <3>1 DEF Copied, Bytes
  <2>6. /\ \A q \in Paths \ {k[1]} : data'[q] = data[q]
        /\ data'[k[1]] = [content |-> b, mtime |-> now]
    BY <1>0, <2>4
  <2>7. data'[k[1]] # NoData
    <3>1. [content |-> b, mtime |-> now] \in Files
      BY <1>0, <2>5 DEF TypeOK, Files
    <3>2. QED
      BY <2>6, <3>1, DistinctAssumption
  <2>8. command # "mount" => data'[k[1]].content = k[2][2]
    BY <2>5, <2>6
  <2> HIDE DEF t
  <2>9. QED
    BY <2>1, <2>2, <2>6, <2>7, <2>8, TaskGoesOn DEF TaskSteps
<1>7. CASE TaskInlineTime(k) \/ TaskInlineCopyFails(k)
  <2>1. PICK good \in BOOLEAN : Finish(k, good)
    BY <1>7 DEF TaskInlineTime, TaskInlineCopyFails
  <2>2. /\ Running(k) /\ UNCHANGED <<meta, objs, handle>>
        /\ task[k].step \in {"inlineWrite", "inlineTime"}
    BY <1>7 DEF TaskInlineTime, TaskInlineCopyFails, At, Running
  <2>3. data[k[1]] \in Files /\ task[k].mtime \in Times /\ now \in Times
    BY <1>0, <2>2, TaskType DEF TaskCurrent, Present, Running, Tasks, TypeOK
  <2>4. PICK new \in Files : data' = [data EXCEPT ![k[1]] = new]
    <3>1. CASE TaskInlineTime(k)
      <4>1. ModTime(task[k].mtime) \in Times /\ data[k[1]].content \in Bytes
        BY <2>3, ModTimeType DEF Files
      <4>2. QED
        BY <3>1, <4>1 DEF TaskInlineTime, Files
    <3>2. CASE TaskInlineCopyFails(k)
      <4>1. objs[k[2]].at[Base64] \in Bytes
        <5>1. objs[k[2]] # NoRecord /\ objs[k[2]].at[Base64] # NoContent
          BY <1>0, <3>2 DEF TaskInlineCopyFails, At, TaskLocals
        <5>2. QED
          BY <1>0, <5>1 DEF TypeOK, BucketFiles, Records, Schemes
      <4>2. CASE UNCHANGED data
        <5>1. data' = [data EXCEPT ![k[1]] = data[k[1]]]
          BY <1>0, <4>2
        <5>2. QED
          BY <2>3, <5>1
      <4>3. ASSUME NEW b \in {Torn, objs[k[2]].at[Base64]},
                   data' = [data EXCEPT ![k[1]] = [content |-> b, mtime |-> now]]
            PROVE  \E new \in Files : data' = [data EXCEPT ![k[1]] = new]
        <5>1. [content |-> b, mtime |-> now] \in Files
          BY <2>3, <4>1 DEF Files, Bytes
        <5>2. QED
          BY <4>3, <5>1
      <4>4. QED
        BY <3>2, <4>2, <4>3 DEF TaskInlineCopyFails
    <3>3. QED
      BY <1>7, <3>1, <3>2
  <2>5. data'[k[1]] # NoData /\ \A q \in Paths \ {k[1]} : data'[q] = data[q]
    BY <1>0, <2>4, DistinctAssumption
  <2>6. QED
    BY <2>1, <2>2, <2>5, TaskFinishes
<1>8. CASE TaskMove(k)
  <2>1. /\ Running(k) /\ Finish(k, TRUE) /\ UNCHANGED <<meta, objs>> /\ ~Present(k[1])
        /\ task[k].got = k[2][2]
    BY <1>0, <1>8 DEF TaskMove, At, Running, TaskCurrent
  <2> DEFINE new == [content |-> task[k].got, mtime |-> ModTime(task[k].mtime)]
  <2>2. new \in Files /\ new # NoData
    <3>1. task[k].mtime \in Times
      BY <1>0, <2>1, TaskType DEF Running, Tasks
    <3>2. new \in Files
      BY <1>0, <2>1, <3>1, ModTimeType DEF Files, ObjIds
    <3>3. QED
      BY <3>2, DistinctAssumption
  <2>3. data' = [data EXCEPT ![k[1]] = new]
    BY <1>8 DEF TaskMove
  <2> HIDE DEF new
  <2>4. data'[k[1]] # NoData /\ \A q \in Paths \ {k[1]} : data'[q] = data[q]
    BY <1>0, <2>2, <2>3
  <2>5. UNCHANGED handle
    <3>1. \A d \in Clients : handle[d] # NoHandle => handle[d].inode # k[1]
      BY <1>0, <2>1, SetAssumption DEF Coherent, HandleLinked
    <3>2. handle' = [d \in Clients |-> handle[d]]
      BY <1>8, <3>1 DEF TaskMove
    <3>3. QED
      BY <1>0, <3>2
  <2>6. QED
    BY <2>1, <2>4, <2>5, TaskFinishes
<1>9. CASE TaskDelete(k)
  <2>1. /\ UNCHANGED <<meta, data, objs, call, handle>> /\ ~Running(k) /\ task[k] # NoTask
        /\ task'[k] = NoTask /\ \A j \in TaskKeys \ {k} : task'[j] = task[j]
    BY <1>0, <1>9 DEF TaskDelete, At, Running, disk
  <2>2. command \in {"download", "touch", "mount"}
    BY <2>1 DEF Coherent, OwnCallsOnly
  <2>3. \A d \in Clients : call[d].pc \in AwaitAt \union {"idle"}
    BY <2>2, AwaitsOnly DEF Coherent
  <2>4. OwnCallsOnly'
    BY <2>1, <2>2, OwnCallsKept, TouchWalked DEF Coherent
  <2>5. ASSUME NEW d \in Clients PROVE WaiterLocks(d)' /\ HandleLinked(d)'
    BY <2>1 DEF Coherent, WaiterLocks, HandleLinked, Exists, Present
  <2>6. ASSUME NEW j \in TaskKeys PROVE TaskCurrent(j)'
    BY <2>1 DEF Coherent, TaskCurrent, Exists, Present
  <2>7. DownloadedBeforeReopen' /\ ObjectIntegrity'
    BY <2>1, IntegrityKept DEF Coherent, DownloadedBeforeReopen, Present
  <2>8. QED
    BY <2>1, <2>3, <2>4, <2>5, <2>6, <2>7, AwaitPhase
<1>10. QED
  BY <1>2, <1>3, <1>4, <1>5, <1>6, <1>7, <1>8, <1>9 DEF TaskStep

-----------------------------------------------------------------------------
\* Every step of a command is a step of the FS, but for the flags of touch.
LEMMA CommandSteps ==
    ASSUME [CommandNext]_allVars
    PROVE  [Next]_vars \/ \E c \in Clients, p \in Paths : Touch(c, p)
<1>1. CASE UNCHANGED vars
  BY <1>1
<1>2. CASE \E kind \in Kinds : Run(kind)
  BY <1>2 DEF Run
<1>3. ASSUME NEW c \in Clients, NEW p \in Paths, CommandCall(c, p)
      PROVE  Next \/ Touch(c, p)
  BY <1>3 DEF CommandCall, Upload1, Download1, Evict1, Mv, Rm, Next, StorageCall, FileCall
<1>4. ASSUME NEW c \in Clients, Mount(c) \/ Close(c) PROVE Next
  BY <1>4 DEF Mount, Next, FileCall
<1>5. CASE Progress \/ Quiet
  BY <1>5 DEF Next
<1>6. QED
  BY <1>1, <1>2, <1>3, <1>4, <1>5 DEF CommandNext, allVars

LEMMA CommandNextIInv ==
    ASSUME IInv, TaskHoldsPath, [CommandNext]_allVars
    PROVE  IInv' /\ TaskHoldsPath'
<1>1. CASE [Next]_vars
  BY <1>1, NextIInv, NextHolds, InvariantParts
<1>2. ASSUME NEW c \in Clients, NEW p \in Paths, Touch(c, p)
      PROVE  IInv' /\ TaskHoldsPath'
  <2>0. PICK lost \in SUBSET Buckets : InvBut(lost) /\ Gone(lost)
    BY DEF IInv
  <2>1. PICK f \in Flags : OpenFile(c, p, f) \/ OpenFileDownloads(c, p, f)
    BY <1>2, KindAssumption DEF Touch
  <2>2. CASE OpenFile(c, p, f)
    <3>1. ByItself(c) /\ UNCHANGED objs
      BY <2>2, CallAlone, InvariantParts DEF OpenFile
    <3>2. InvBut(lost)' /\ Gone(lost)'
      BY <2>0, <2>2, <3>1, OpenFileInv DEF Gone
    <3>3. QED
      BY <3>1, <3>2, AloneHolds DEF IInv
  <2>3. CASE OpenFileDownloads(c, p, f)
    <3>1. InvBut(lost)' /\ UNCHANGED objs
      BY <2>0, <2>3, OpenFileDownloadsInv DEF OpenFileDownloads, disk
    <3>2. TaskHoldsPath'
      BY <2>3, StartHolds, InvariantParts
    <3>3. QED
      BY <2>0, <3>1, <3>2 DEF IInv, Gone
  <2>4. QED
    BY <2>1, <2>2, <2>3
<1>3. QED
  BY <1>1, <1>2, CommandSteps

\* A command starts when nothing is left of the one before.
LEMMA StillCoherent ==
    ASSUME Coherent, UNCHANGED vars, UNCHANGED command, UNCHANGED walked
    PROVE  Coherent'
BY DEF vars, Coherent, OwnCallsOnly, StepsOf, Finished, ObjectIntegrity, DownloadedBeforeReopen,
       UploadCurrent, EvictCurrent, WaiterLocks, HandleLinked, TaskCurrent, Holds, Exists, Present

LEMMA RunCoherent ==
    ASSUME Coherent, NEW kind, Run(kind)
    PROVE  Coherent'
<1>1. NoTasks' /\ NoHandles' /\ \A d \in Clients : call'[d] = Idle
  BY DEF Run, Finished, NoTasks, NoHandles, vars
<1>2. ObjectIntegrity'
  BY IntegrityKept DEF Run, vars, Coherent
<1>3. QED
  BY <1>1, <1>2, NoCallPhase

LEMMA CommandCallCoherent ==
    ASSUME IInv, Coherent, TaskHoldsPath, NEW c \in Clients, NEW p \in Paths, CommandCall(c, p),
           UNCHANGED command
    PROVE  Coherent'
<1>0. TypeOK
  BY InvariantParts
<1>1. CASE Upload1(c, p)
  BY <1>0, <1>1, UploadCallCoherent DEF Upload1
<1>2. CASE Download1(c, p)
  BY <1>2, DownloadCallCoherent DEF Download1
<1>3. CASE Evict1(c, p)
  BY <1>0, <1>3, EvictCallCoherent DEF Evict1
<1>4. CASE Touch(c, p)
  <2>1. command = "touch" /\ walked = {} /\ walked' # {}
    BY <1>4 DEF Touch, Once
  <2>2. \A k \in TaskKeys : ~Running(k)
    BY <2>1 DEF Coherent, OwnCallsOnly, Finished, Running
  <2>3. PICK f \in Flags : OpenFile(c, p, f) \/ OpenFileDownloads(c, p, f)
    BY <1>4, KindAssumption DEF Touch
  <2>4. QED
    BY <2>1, <2>2, <2>3, OpenFileCoherent, OpenFileDownloadsCoherent
<1>5. CASE Mv(c, p)
  <2>1. command = "mv" /\ \E t \in Paths : Rename(c, p, t) \/ RenameFails(c, p, t)
    BY <1>5 DEF Mv
  <2>2. QED
    BY <2>1, RenameCoherent, RenameFailsCoherent
<1>6. CASE Rm(c, p)
  BY <1>6, RemoveCoherent DEF Rm
<1>7. QED
  BY <1>1, <1>2, <1>3, <1>4, <1>5, <1>6 DEF CommandCall

LEMMA MountCoherent ==
    ASSUME IInv, Coherent, TaskHoldsPath, NEW c \in Clients, Mount(c), UNCHANGED <<command, walked>>
    PROVE  Coherent'
<1>0. TypeOK /\ command = "mount"
  BY InvariantParts DEF Mount
<1>1. ASSUME NEW p \in Paths, NEW f \in OpenFlags, OpenFile(c, p, f) \/ OpenFileDownloads(c, p, f)
      PROVE  Coherent'
  <2>1. f \in Flags /\ "trunc" \notin f
    BY FlagAssumption, MountAssumption
  <2>2. QED
    BY <1>0, <1>1, <2>1, OpenFileCoherent, OpenFileDownloadsCoherent
<1>2. ASSUME NEW p \in Paths, Remove(c, p) PROVE Coherent'
  BY <1>0, <1>2, RemoveCoherent
<1>3. ASSUME NEW p \in Paths, NEW t \in Paths, Rename(c, p, t) \/ RenameFails(c, p, t)
      PROVE  Coherent'
  BY <1>0, <1>3, RenameCoherent, RenameFailsCoherent
<1>4. CASE Write(c)
  BY <1>0, <1>4, WriteCoherent
<1>5. CASE Close(c)
  BY <1>0, <1>5, CloseCoherent
<1>6. QED
  BY <1>1, <1>2, <1>3, <1>4, <1>5 DEF Mount, FileCall

LEMMA CommandNextCoherent ==
    ASSUME IInv, Coherent, TaskHoldsPath, [CommandNext]_allVars
    PROVE  Coherent'
<1>0. TypeOK
  BY InvariantParts
<1>1. CASE UNCHANGED allVars
  BY <1>1, StillCoherent DEF allVars, commandVars
<1>2. ASSUME NEW kind \in Kinds, Run(kind) PROVE Coherent'
  BY <1>2, RunCoherent
<1>3. ASSUME NEW c \in Clients, NEW p \in Paths, CommandCall(c, p), UNCHANGED command
      PROVE  Coherent'
  BY <1>3, CommandCallCoherent
<1>4. ASSUME NEW c \in Clients, Mount(c), UNCHANGED commandVars PROVE Coherent'
  BY <1>4, MountCoherent DEF commandVars
<1>5. ASSUME NEW c \in Clients, command = "touch", Close(c), UNCHANGED commandVars PROVE Coherent'
  BY <1>0, <1>5, CloseCoherent DEF commandVars
<1>6. ASSUME NEW c \in Clients,
             UploadStep(c) \/ EvictStep(c) \/ DownloadReturn(c) \/ OpenFileAgain(c),
             UNCHANGED commandVars
      PROVE  Coherent'
  BY <1>0, <1>6, UploadStepCoherent, EvictStepCoherent, DownloadReturnCoherent,
     OpenFileAgainCoherent DEF commandVars
<1>7. ASSUME NEW k \in TaskKeys, TaskStep(k), UNCHANGED commandVars PROVE Coherent'
  BY <1>7, TaskStepCoherent DEF commandVars
<1>8. CASE Quiet /\ UNCHANGED commandVars
  BY <1>8, StillCoherent DEF Quiet, commandVars
<1>9. QED
  BY <1>1, <1>2, <1>3, <1>4, <1>5, <1>6, <1>7, <1>8 DEF CommandNext, Progress

LEMMA CommandInvParts == CommandInv <=> IInv /\ TaskHoldsPath /\ Coherent
BY DEF CommandInv, Coherent

\* The records a seeded FS has hold what their objects are named after.
LEMMA InitIntegrity == Init => ObjectIntegrity
<1> SUFFICES ASSUME Init, NEW id \in ObjIds, objs[id] # NoRecord, NEW s \in Schemes
             PROVE  objs[id].at[s] \in {NoContent, id[2]}
  BY DEF ObjectIntegrity
<1>1. objs[id] = SeedRecord(id[2])
  BY DEF Init
<1>2. QED
  BY <1>1 DEF SeedRecord

LEMMA CommandInitInv == CommandInit => CommandInv
<1> SUFFICES ASSUME CommandInit PROVE CommandInv
  OBVIOUS
<1>1. IInv /\ ObjectIntegrity
  BY InitIInv, InitIntegrity DEF CommandInit
<1>2. /\ \A d \in Clients : call[d] = Idle /\ call[d].pc = "idle" /\ handle[d] = NoHandle
      /\ \A k \in TaskKeys : task[k] = NoTask
  BY DEF CommandInit, Init, Idle
<1>3. TaskHoldsPath /\ OwnCallsOnly /\ DownloadedBeforeReopen /\ \A k \in TaskKeys : TaskCurrent(k)
  BY <1>2 DEF TaskHoldsPath, OwnCallsOnly, Finished, DownloadedBeforeReopen, TaskCurrent
<1>4. ASSUME NEW d \in Clients
      PROVE  UploadCurrent(d) /\ EvictCurrent(d) /\ WaiterLocks(d) /\ HandleLinked(d)
  <2>1. EvictCurrent(d) /\ WaiterLocks(d) /\ HandleLinked(d)
    BY <1>2 DEF EvictCurrent, EvictAt, WaiterLocks, HandleLinked
  <2>2. UploadCurrent(d)
    BY <1>2 DEF UploadCurrent, UploadAt, SavesBucketAt, OwnsBucketAt
  <2>3. QED
    BY <2>1, <2>2
<1>5. QED
  BY <1>1, <1>3, <1>4 DEF CommandInv

LEMMA CommandNextInv ==
    ASSUME CommandInv, [CommandNext]_allVars
    PROVE  CommandInv'
<1>1. IInv /\ TaskHoldsPath /\ Coherent
  BY CommandInvParts
<1>2. IInv' /\ TaskHoldsPath' /\ Coherent'
  BY <1>1, CommandNextIInv, CommandNextCoherent
<1>3. QED
  BY <1>2 DEF CommandInv, Coherent

\* The inductive invariant of the commands: which calls run together, and
\* what each of them knows of its file while it works on it.
THEOREM CommandSpecInv == CommandSpec => []CommandInv
BY CommandInitInv, CommandNextInv, PTL DEF CommandSpec

-----------------------------------------------------------------------------
\* What the storages of an object hold is what its name was hashed from: no
\* file changes between the hash and the transfer of an upload.
THEOREM StoragesHoldWhatWasHashed == CommandSpec => []ObjectIntegrity
<1>1. CommandInv => ObjectIntegrity
  BY DEF CommandInv
<1>2. QED
  BY <1>1, CommandSpecInv, PTL

\* A call whose download succeeded finds the data at its path, whatever calls
\* shared the task with it.
THEOREM DownloadsComplete == CommandSpec => []DownloadedBeforeReopen
<1>1. CommandInv => DownloadedBeforeReopen
  BY DEF CommandInv
<1>2. QED
  BY <1>1, CommandSpecInv, PTL

\* A File reads and writes the file at the path where its node stands, after
\* any Rename, Remove or download, for any number of processes with a mount.
THEOREM FilesKeepTheirNode == CommandSpec => []FilesFollowTheirNode
<1>1. CommandInv => FilesFollowTheirNode
  BY DEF CommandInv, HandleLinked, FilesFollowTheirNode
<1>2. QED
  BY <1>1, CommandSpecInv, PTL

\* The metadata an upload writes tells of the file that is on disk then.
THEOREM UploadsSaveWhatIsThere == CommandSpec => SnapshotIsCurrent
<1>1. ASSUME CommandInv, NEW c \in Clients, UploadWriteMeta(c)
      PROVE  LET p == call[c].path
             IN  /\ Present(p) /\ data[p].content = call[c].obj[2]
                 /\ data[p].mtime = meta'[p].mtime
  <2>1. call[c].pc = "uploadMeta" /\ call[c].path \in Paths
    BY <1>1, InvariantParts DEF UploadWriteMeta, Uploading, CommandInv, ClientLocals
  <2>2. meta'[call[c].path].mtime = call[c].mtime
    BY <1>1, <2>1, InvariantParts DEF UploadWriteMeta, CommandInv, TypeOK
  <2>3. UploadCurrent(c)
    BY <1>1 DEF CommandInv
  <2>4. QED
    BY <2>1, <2>2, <2>3 DEF UploadCurrent, UploadAt, OwnsBucketAt
<1>2. CommandInv /\ [CommandNext]_allVars =>
        [\A c \in Clients :
          UploadWriteMeta(c) =>
              LET p == call[c].path
              IN  /\ Present(p) /\ data[p].content = call[c].obj[2]
                  /\ data[p].mtime = meta'[p].mtime]_allVars
  BY <1>1
<1>3. QED
  BY <1>2, CommandSpecInv, PTL DEF CommandSpec, SnapshotIsCurrent

\* A download task that succeeds leaves at its destination the content the
\* object is named after, and the file still refers to that object. On the fast
\* path under a mount only the content may be another, as the file is seen
\* before its time is set.
THEOREM DownloadsRestore == CommandSpec => DownloadRestores
<1>1. ASSUME CommandInv, NEW k \in TaskKeys,
             TaskMove(k) \/ TaskInlineTime(k)
      PROVE  /\ meta[k[1]].obj = k[2]
             /\ \/ data'[k[1]].content = k[2][2]
                \/ TaskInlineTime(k) /\ command = "mount"
  <2>1. /\ TypeOK /\ TaskCurrent(k) /\ Running(k)
        /\ k[1] \in Paths /\ k[2] \in ObjIds /\ data \in [Paths -> Files \union {NoData}]
    BY <1>1, KeyType, InvariantParts DEF CommandInv, TypeOK, TaskMove, TaskInlineTime, At, Running
  <2>2. meta[k[1]].obj = k[2]
    BY <2>1 DEF TaskCurrent, Running
  <2>3. CASE TaskMove(k)
    <3>1. task[k].got = k[2][2]
      BY <2>1, <2>3 DEF TaskMove, At, TaskCurrent
    <3>2. data'[k[1]] = [content |-> task[k].got, mtime |-> ModTime(task[k].mtime)]
      BY <2>1, <2>3 DEF TaskMove
    <3>3. QED
      BY <2>2, <3>1, <3>2
  <2>4. CASE TaskInlineTime(k) /\ command # "mount"
    <3>1. data[k[1]].content = k[2][2]
      BY <2>1, <2>4 DEF TaskInlineTime, At, TaskCurrent
    <3>2. data'[k[1]] = [content |-> data[k[1]].content, mtime |-> ModTime(task[k].mtime)]
      BY <2>1, <2>4 DEF TaskInlineTime
    <3>3. QED
      BY <2>2, <3>1, <3>2
  <2>5. CASE TaskInlineTime(k) /\ command = "mount"
    BY <2>2, <2>5
  <2>6. QED
    BY <1>1, <2>3, <2>4, <2>5
<1>2. CommandInv /\ [CommandNext]_allVars =>
        [\A k \in TaskKeys :
            TaskMove(k) \/ TaskInlineTime(k) =>
                /\ meta[k[1]].obj = k[2]
                /\ \/ data'[k[1]].content = k[2][2]
                   \/ TaskInlineTime(k) /\ command = "mount"]_allVars
  BY <1>1
<1>3. QED
  BY <1>2, CommandSpecInv, PTL DEF CommandSpec, DownloadRestores

-----------------------------------------------------------------------------
\* Who makes the data of a file go away.
DataStays == \A q \in Paths : Present(q) => data'[q] # NoData

LEMMA NewFile ==
    ASSUME TypeOK, NEW q, NEW b \in Bytes, NEW t \in Times,
           data' = [data EXCEPT ![q] = [content |-> b, mtime |-> t]]
    PROVE  DataStays
<1>1. [content |-> b, mtime |-> t] \in Files
  BY DEF Files
<1>2. [content |-> b, mtime |-> t] # NoData
  BY <1>1, DistinctAssumption
<1> DEFINE new == [content |-> b, mtime |-> t]
<1>3. data' = [data EXCEPT ![q] = new] /\ new # NoData
  BY <1>2
<1> HIDE DEF new
<1>4. QED
  BY <1>3 DEF DataStays, Present, TypeOK

LEMMA TaskLeavesData ==
    ASSUME IInv, NEW k \in TaskKeys, TaskStep(k)
    PROVE  DataStays
<1>1. CASE UNCHANGED data
  BY <1>1 DEF DataStays, Present
<1>2. CASE \/ TaskInlineCreate(k) \/ TaskInlineCopy(k) \/ TaskInlineTime(k)
           \/ TaskInlineCopyFails(k) \/ TaskMove(k)
  <2>1. task[k] # NoTask /\ TypeOK /\ k[2] \in ObjIds /\ now \in Times /\ TaskLocals(k)
    BY <1>2, KeyType, InvariantParts
       DEF TypeOK, TaskInlineCreate, TaskInlineCopy, TaskInlineTime, TaskInlineCopyFails, TaskMove, At
  <2>2. ModTime(task[k].mtime) \in Times /\ task[k].got \in Bytes \union {NoContent}
    BY <2>1, TaskType, ModTimeType DEF Tasks
  <2>3. CASE TaskMove(k)
    <3>1. task[k].got \in Bytes
      BY <2>1, <2>2, <2>3 DEF TaskMove, At, TaskLocals
    <3>2. data' = [data EXCEPT ![k[1]] = [content |-> task[k].got, mtime |-> ModTime(task[k].mtime)]]
      BY <2>3 DEF TaskMove
    <3>3. QED
      BY <2>1, <2>2, <3>1, <3>2, NewFile
  <2>4. CASE TaskInlineCreate(k)
    BY <2>1, <2>4, NewFile DEF TaskInlineCreate, Bytes
  <2>5. CASE TaskInlineTime(k)
    <3>1. data[k[1]].content \in Bytes
      BY <2>1, <2>5, KeyType DEF TaskInlineTime, Present, TypeOK, Files
    <3>2. QED
      BY <2>1, <2>2, <2>5, <3>1, NewFile DEF TaskInlineTime
  <2>6. CASE (TaskInlineCopy(k) \/ TaskInlineCopyFails(k)) /\ ~UNCHANGED data
    <3>1. objs[k[2]] # NoRecord /\ objs[k[2]].at[Base64] # NoContent
      BY <2>1, <2>6 DEF TaskInlineCopy, TaskInlineCopyFails, At, TaskLocals
    <3>2. objs[k[2]].at[Base64] \in Bytes
      BY <2>1, <3>1 DEF TypeOK, BucketFiles, Records, Schemes
    <3>3. PICK b \in {Torn, objs[k[2]].at[Base64]} :
              data' = [data EXCEPT ![k[1]] = [content |-> b, mtime |-> now]]
      BY <2>6 DEF TaskInlineCopy, TaskInlineCopyFails, Copied
    <3>4. b \in Bytes
      BY <3>2 DEF Bytes
    <3>5. QED
      BY <2>1, <3>3, <3>4, NewFile
  <2>7. QED
    BY <1>1, <1>2, <2>3, <2>4, <2>5, <2>6
<1>3. QED
  BY <1>1, <1>2 DEF TaskStep, TaskLock, TaskLoad, TaskLoadFails, TaskInlineCreateFails,
     TaskInlineTimeFails, TaskFetch, TaskFetchFails, TaskDelete, disk

LEMMA OpenLeavesData ==
    ASSUME TypeOK, NEW c \in Clients, NEW p \in Paths, NEW f, OpenData(c, p, f)
    PROVE  DataStays
<1>1. CASE UNCHANGED data
  BY <1>1 DEF DataStays, Present
<1>2. CASE Tick /\ data' = [data EXCEPT ![p] = [content |-> Empty, mtime |-> now']]
  BY <1>2, TickType, ContentAssumption, NewFile DEF Bytes
<1>3. QED
  BY <1>1, <1>2 DEF OpenData

LEMMA WriteLeavesData ==
    ASSUME TypeOK, NEW c \in Clients, Write(c)
    PROVE  DataStays
<1>1. PICK b \in Contents :
          data' = [data EXCEPT ![handle[c].inode] = [content |-> b, mtime |-> now']]
  BY DEF Write
<1>2. now' \in Times /\ b \in Bytes
  BY TickType DEF Write, Bytes
<1>3. QED
  BY <1>1, <1>2, NewFile

\* Remove and Rename take the metadata along.
LEMMA MovesTakeMeta ==
    ASSUME TypeOK, NEW c \in Clients, NEW p \in Paths,
           Remove(c, p) \/ \E t \in Paths : Rename(c, p, t) \/ RenameFails(c, p, t),
           NEW q \in Paths, Exists(q), Present(q), meta'[q] = meta[q]
    PROVE  data'[q] # NoData
<1>1. CASE Remove(c, p)
  BY <1>1 DEF Remove, TypeOK, Exists, Present
<1>2. ASSUME NEW t \in Paths, Rename(c, p, t) PROVE data'[q] # NoData
  BY <1>2 DEF Rename, TypeOK, Exists, Present
<1>3. ASSUME NEW t \in Paths, RenameFails(c, p, t) PROVE data'[q] # NoData
  BY <1>3 DEF RenameFails, TypeOK, Exists, Present
<1>4. QED
  BY <1>1, <1>2, <1>3

LEMMA UploadLeavesData ==
    ASSUME NEW c \in Clients, UploadStep(c)
    PROVE  UNCHANGED data
<1>1. UploadStat(c) \/ UploadHash(c) \/ UploadLock(c) => UNCHANGED data
  BY DEF UploadStat, UploadHash, UploadLock, disk
<1>2. UploadOccupy(c) \/ UploadNextNonce(c) \/ UploadLoadFails(c) => UNCHANGED data
  BY DEF UploadOccupy, UploadNextNonce, UploadLoadFails, disk
<1>3. UploadPlan(c) => UNCHANGED data
  BY DEF UploadPlan, disk
<1>4. UploadEncode(c) \/ UploadTransfer(c) => UNCHANGED data
  BY DEF UploadEncode, UploadTransfer, disk
<1>5. UploadTruncateBucket(c) \/ UploadWriteBucket(c) => UNCHANGED data
  BY DEF UploadTruncateBucket, UploadWriteBucket, disk
<1>6. UploadTruncateMeta(c) \/ UploadWriteMeta(c) => UNCHANGED data
  BY DEF UploadTruncateMeta, UploadWriteMeta
<1>7. UploadWriteBucketFails(c) \/ UploadWriteMetaFails(c) => UNCHANGED data
  BY DEF UploadWriteBucketFails, UploadWriteMetaFails, disk
<1>8. UploadQuits(c) \/ UploadFails(c) => UNCHANGED data
  BY DEF UploadQuits, UploadFails, disk
<1>9. QED
  BY <1>1, <1>2, <1>3, <1>4, <1>5, <1>6, <1>7, <1>8 DEF UploadStep

\* The data of a file goes and its metadata stays: the last step of Evict.
LEMMA OnlyEvictRemoves ==
    ASSUME IInv, [CommandNext]_allVars,
           NEW q \in Paths, Exists(q), Present(q), data'[q] = NoData, meta'[q] = meta[q]
    PROVE  \E c \in Clients : EvictRemove(c) /\ call[c].path = q
<1>0. TypeOK /\ ~DataStays /\ ~UNCHANGED data
  BY InvariantParts DEF DataStays, Present
<1>1. ASSUME NEW c \in Clients, NEW p \in Paths, NEW f,
             OpenFile(c, p, f) \/ OpenFileDownloads(c, p, f)
      PROVE  FALSE
  BY <1>0, <1>1, OpenLeavesData DEF OpenFile, OpenFileDownloads, disk
<1>2. ASSUME NEW c \in Clients, FileCall(c) PROVE FALSE
  <2>1. ~Write(c)
    BY <1>0, WriteLeavesData
  <2>2. ~Close(c)
    BY <1>0 DEF Close, disk
  <2>3. ASSUME NEW p \in Paths
        PROVE  ~(Remove(c, p) \/ \E t \in Paths : Rename(c, p, t) \/ RenameFails(c, p, t))
    BY <1>0, MovesTakeMeta
  <2>4. QED
    BY <1>1, <1>2, <2>1, <2>2, <2>3 DEF FileCall
<1>3. ASSUME NEW c \in Clients, StorageCall(c) PROVE FALSE
  BY <1>0, <1>3 DEF StorageCall, UploadCall, DownloadCall, EvictCall, disk
<1>4. ASSUME NEW c \in Clients, UploadStep(c) \/ DownloadReturn(c) PROVE FALSE
  BY <1>0, <1>4, UploadLeavesData DEF DownloadReturn, disk
<1>5. ASSUME NEW c \in Clients, OpenFileAgain(c) PROVE FALSE
  <2>1. call[c].path \in Paths
    BY <1>5, InvariantParts DEF OpenFileAgain, ClientLocals
  <2>2. OpenData(c, call[c].path, call[c].flags)
    BY <1>0, <1>5 DEF OpenFileAgain
  <2>3. QED
    BY <1>0, <2>1, <2>2, OpenLeavesData
<1>6. ASSUME NEW k \in TaskKeys, TaskStep(k) PROVE FALSE
  BY <1>0, <1>6, TaskLeavesData
<1>7. ASSUME NEW c \in Clients, EvictStep(c)
      PROVE  EvictRemove(c) /\ call[c].path = q
  <2>1. EvictRemove(c)
    BY <1>0, <1>7 DEF EvictStep, EvictLock, EvictLoad, EvictLoadFails, EvictHash, disk
  <2>2. QED
    BY <1>0, <2>1 DEF EvictRemove, TypeOK, Present
<1>8. CASE UNCHANGED vars
  BY <1>0, <1>8 DEF vars
<1>9. ASSUME NEW c \in Clients, NEW p \in Paths, Touch(c, p) PROVE FALSE
  BY <1>1, <1>9 DEF Touch
<1>10. QED
  BY <1>2, <1>3, <1>4, <1>5, <1>6, <1>7, <1>8, <1>9, CommandSteps DEF Next, Progress, Quiet

\* Evict drops a content only when a storage of the object has that very
\* content, so the file that is left can be brought back.
THEOREM EvictsKeepContent == CommandSpec => EvictKeepsContent
<1>1. ASSUME CommandInv, [CommandNext]_allVars, NEW p \in Paths,
             Exists(p), Present(p), ~Present(p)', meta'[p] = meta[p]
      PROVE  /\ Backed(meta[p].obj)
             /\ \E s \in Schemes : objs[meta[p].obj].at[s] = data[p].content
  <2>1. PICK c \in Clients : EvictRemove(c) /\ call[c].path = p
    BY <1>1, OnlyEvictRemoves DEF CommandInv, Present
  <2>2. call[c].pc = "evictRemove" /\ call[c].obj \in ObjIds /\ EvictCurrent(c)
    BY <1>1, <2>1, InvariantParts DEF EvictRemove, Evicting, CommandInv, ClientLocals, OwnsObjectAt
  <2>3. meta[p].obj = call[c].obj /\ data[p].content = call[c].obj[2]
    BY <2>1, <2>2 DEF EvictCurrent, EvictAt
  <2>4. Backed(call[c].obj)
    <3>1. objs[call[c].obj] # NoRecord
      BY <2>2 DEF EvictCurrent, EvictAt
    <3>2. QED
      BY <1>1, <2>2, <2>3, <3>1, SetAssumption, RecordsNotLost DEF CommandInv
  <2>5. PICK s \in Schemes : objs[call[c].obj].at[s] # NoContent
    BY <2>4 DEF Backed
  <2>6. objs[call[c].obj].at[s] = call[c].obj[2]
    BY <1>1, <2>2, <2>4, <2>5 DEF CommandInv, ObjectIntegrity, Backed
  <2>7. QED
    BY <2>3, <2>4, <2>6
<1>2. CommandInv /\ [CommandNext]_allVars =>
        [\A p \in Paths :
          Exists(p) /\ Present(p) /\ ~Present(p)' /\ meta'[p] = meta[p] =>
              /\ Backed(meta[p].obj)
              /\ \E s \in Schemes : objs[meta[p].obj].at[s] = data[p].content]_allVars
  BY <1>1
<1>3. QED
  BY <1>2, CommandSpecInv, PTL DEF CommandSpec, EvictKeepsContent
=============================================================================
