--------------------------- MODULE PathLockProofs ---------------------------
(***************************************************************************)
(* What the tree lock and fs.mtx are good for, for every number of         *)
(* goroutines, files and objects: a task that writes a file has a caller   *)
(* who holds the path for it, and Evict drops no file that is open.        *)
(***************************************************************************)
EXTENDS ResurrentProofs

Waits == {"downloadWait", "openWait"}
Running(k) == task[k] # NoTask /\ task[k].step # "done"

\* A step of a client that was not waiting.
LEMMA OthersWait ==
    ASSUME TaskHoldsPath, NEW c \in Clients, call[c].pc \notin Waits,
           \A d \in Clients \ {c} : call'[d] = call[d],
           \A k \in TaskKeys : Running(k)' => Running(k)
    PROVE  TaskHoldsPath'
<1> SUFFICES ASSUME NEW k \in TaskKeys, task'[k] # NoTask, task'[k].step # "done"
             PROVE  \E d \in Waiting(k)' : call'[d].lock # "none"
  BY DEF TaskHoldsPath
<1>1. Running(k)
  BY DEF Running
<1>2. PICK d \in Waiting(k) : call[d].lock # "none"
  BY <1>1 DEF TaskHoldsPath, Running
<1>3. d \in Clients /\ d # c
  BY <1>2 DEF Waiting, Waits
<1>4. call'[d] = call[d]
  BY <1>3
<1>5. d \in Waiting(k)'
  BY <1>2, <1>3, <1>4 DEF Waiting
<1>6. QED
  BY <1>2, <1>4, <1>5

\* The calls that start a task, or join one, hold the path from then on.
LEMMA FindOrNewTaskHolds ==
    ASSUME TypeOK, TaskHoldsPath, NEW c \in Clients, call[c].pc = "idle",
           NEW cl, cl.pc \in Waits, cl.lock # "none", cl.path \in Paths, cl.obj \in ObjIds,
           FindOrNewTask(c, cl)
    PROVE  TaskHoldsPath'
<1> DEFINE k == <<cl.path, cl.obj>>
<1>0. k \in TaskKeys /\ call \in [Clients -> Calls] /\ task \in [TaskKeys -> Tasks \union {NoTask}]
  BY DEF TaskKeys, TypeOK
<1>1. \A d \in Clients \ {c} : call'[d] = call[d]
  BY <1>0 DEF FindOrNewTask
<1>2. \A j \in TaskKeys \ {k} : task'[j] = task[j]
  BY <1>0 DEF FindOrNewTask
<1>3. CASE task[k] = NoTask
  <2>1. call'[c] = cl
    BY <1>0, <1>3 DEF FindOrNewTask
  <2>2. c \in Waiting(k)'
    BY <2>1 DEF Waiting, Waits
  <2>3. ASSUME NEW j \in TaskKeys, j # k, task'[j] # NoTask, task'[j].step # "done"
        PROVE  \E d \in Waiting(j)' : call'[d].lock # "none"
    <3>1. PICK d \in Waiting(j) : call[d].lock # "none"
      BY <1>2, <2>3 DEF TaskHoldsPath
    <3>2. d \in Clients /\ d # c
      BY <3>1 DEF Waiting
    <3>3. call'[d] = call[d]
      BY <1>1, <3>2
    <3>4. d \in Waiting(j)'
      BY <3>1, <3>2, <3>3 DEF Waiting
    <3>5. QED
      BY <3>1, <3>3, <3>4
  <2>4. QED
    BY <2>1, <2>2, <2>3 DEF TaskHoldsPath
<1>4. CASE task[k] # NoTask
  <2>1. task' = task
    BY <1>4 DEF FindOrNewTask
  <2>2. call[c].pc \notin Waits
    BY DEF Waits
  <2>3. QED
    BY <1>1, <2>1, <2>2, OthersWait DEF Running
<1>5. QED
  BY <1>3, <1>4

\* A task that returns wakes its own waiters and nobody else.
LEMMA FinishHolds ==
    ASSUME TypeOK, TaskHoldsPath, NEW k \in TaskKeys, task[k] # NoTask,
           NEW good \in BOOLEAN, Finish(k, good)
    PROVE  TaskHoldsPath'
<1>0. task[k] \in Tasks /\ task \in [TaskKeys -> Tasks \union {NoTask}]
  BY TaskType DEF TypeOK
<1>1. task'[k].step = "done" /\ \A j \in TaskKeys \ {k} : task'[j] = task[j]
  BY <1>0 DEF Finish, Tasks
<1>2. ASSUME NEW j \in TaskKeys, task'[j] # NoTask, task'[j].step # "done"
      PROVE  \E d \in Waiting(j)' : call'[d].lock # "none"
  <2>1. j # k /\ task'[j] = task[j]
    BY <1>1, <1>2
  <2>2. PICK d \in Waiting(j) : call[d].lock # "none"
    BY <1>2, <2>1 DEF TaskHoldsPath
  <2>3. d \in Clients /\ d \notin Waiting(k)
    BY <2>1, <2>2 DEF Waiting
  <2>4. call'[d] = call[d]
    BY <2>3 DEF Finish
  <2>5. d \in Waiting(j)'
    BY <2>2, <2>3, <2>4 DEF Waiting
  <2>6. QED
    BY <2>2, <2>4, <2>5
<1>3. QED
  BY <1>2 DEF TaskHoldsPath

\* A task that goes on keeps whoever waits for it.
LEMMA TaskGoesOnHolds ==
    ASSUME TypeOK, TaskHoldsPath, NEW k \in TaskKeys, UNCHANGED call,
           task[k] # NoTask, task[k].step # "done",
           \A j \in TaskKeys \ {k} : task'[j] = task[j]
    PROVE  TaskHoldsPath'
<1>1. \A j : Waiting(j)' = Waiting(j)
  BY DEF Waiting
<1>2. QED
  BY <1>1 DEF TaskHoldsPath

LEMMA TaskStepHolds ==
    ASSUME TypeOK, TaskHoldsPath, NEW k \in TaskKeys, TaskStep(k)
    PROVE  TaskHoldsPath'
<1>0. task \in [TaskKeys -> Tasks \union {NoTask}]
  BY DEF TypeOK
<1>1. CASE \/ TaskLock(k) \/ TaskLoad(k) \/ TaskInlineCreate(k) \/ TaskInlineCopy(k)
           \/ TaskFetch(k)
  <2>1. task[k] # NoTask /\ task[k].step # "done" /\ UNCHANGED call
    BY <1>1 DEF TaskLock, TaskLoad, TaskInlineCreate, TaskInlineCopy, TaskFetch, At
  <2>2. \A j \in TaskKeys \ {k} : task'[j] = task[j]
    BY <1>0, <1>1 DEF TaskLock, TaskLoad, TaskInlineCreate, TaskInlineCopy, TaskFetch, GoOn
  <2>3. QED
    BY <2>1, <2>2, TaskGoesOnHolds
<1>2. CASE \/ TaskLoadFails(k) \/ TaskInlineCreateFails(k) \/ TaskInlineCopyFails(k)
           \/ TaskInlineTime(k) \/ TaskInlineTimeFails(k) \/ TaskFetchFails(k) \/ TaskMove(k)
  <2>1. task[k] # NoTask /\ \E good \in BOOLEAN : Finish(k, good)
    BY <1>2 DEF TaskLoadFails, TaskInlineCreateFails, TaskInlineCopyFails, TaskInlineTime,
                TaskInlineTimeFails, TaskFetchFails, TaskMove, At
  <2>2. QED
    BY <2>1, FinishHolds
<1>3. CASE TaskDelete(k)
  <2>1. UNCHANGED call /\ task'[k] = NoTask /\ \A j \in TaskKeys \ {k} : task'[j] = task[j]
    BY <1>0, <1>3 DEF TaskDelete
  <2>2. \A j : Waiting(j)' = Waiting(j)
    BY <2>1 DEF Waiting
  <2>3. QED
    BY <2>1, <2>2 DEF TaskHoldsPath
<1>4. QED
  BY <1>1, <1>2, <1>3 DEF TaskStep

\* A call and its locals: no other call moves, and what it was doing was not
\* to wait for a task.
ByItself(c) == task' = task /\ call[c].pc \notin Waits /\ \A d \in Clients \ {c} : call'[d] = call[d]

LEMMA UploadStepAlone ==
    ASSUME TypeOK, NEW c \in Clients, UploadStep(c)
    PROVE  ByItself(c)
<1>0. call \in [Clients -> Calls]
  BY DEF TypeOK
<1>1. UploadStat(c) \/ UploadHash(c) \/ UploadLock(c) => ByItself(c)
  BY <1>0 DEF UploadStat, UploadHash, UploadLock, Uploading, ByItself, Waits
<1>2. UploadOccupy(c) \/ UploadNextNonce(c) \/ UploadLoadFails(c) => ByItself(c)
  BY <1>0 DEF UploadOccupy, UploadNextNonce, UploadLoadFails, Return, Uploading, ByItself, Waits
<1>3. UploadFails(c) \/ UploadQuits(c) => ByItself(c)
  BY <1>0 DEF UploadFails, UploadQuits, Return, ByItself, Waits
<1>4. UploadPlan(c) \/ UploadEncode(c) \/ UploadTransfer(c) => ByItself(c)
  BY <1>0 DEF UploadPlan, UploadEncode, UploadTransfer, Uploading, ByItself, Waits
<1>5. UploadTruncateBucket(c) \/ UploadWriteBucket(c) => ByItself(c)
  BY <1>0 DEF UploadTruncateBucket, UploadWriteBucket, Uploading, ByItself, Waits
<1>6. UploadTruncateMeta(c) \/ UploadWriteMeta(c) => ByItself(c)
  BY <1>0 DEF UploadTruncateMeta, UploadWriteMeta, Return, Uploading, ByItself, Waits
<1>7. UploadWriteBucketFails(c) \/ UploadWriteMetaFails(c) => ByItself(c)
  BY <1>0 DEF UploadWriteBucketFails, UploadWriteMetaFails, Return, Uploading, ByItself, Waits
<1>8. QED
  BY <1>1, <1>2, <1>3, <1>4, <1>5, <1>6, <1>7 DEF UploadStep

LEMMA EvictStepAlone ==
    ASSUME TypeOK, NEW c \in Clients, EvictStep(c)
    PROVE  ByItself(c)
<1>0. call \in [Clients -> Calls]
  BY DEF TypeOK
<1>1. QED
  BY <1>0 DEF EvictStep, EvictLock, EvictLoad, EvictLoadFails, EvictHash, EvictRemove, EvictReturn,
              Return, Evicting, ByItself, Waits

LEMMA FileStepAlone ==
    ASSUME TypeOK, NEW c \in Clients, DownloadReturn(c) \/ OpenFileAgain(c) \/ Write(c) \/ Close(c)
    PROVE  ByItself(c)
<1>0. call \in [Clients -> Calls]
  BY DEF TypeOK
<1>1. QED
  BY <1>0 DEF DownloadReturn, OpenFileAgain, Return, Write, Close, Begin, ByItself, Waits

LEMMA CallAlone ==
    ASSUME TypeOK, NEW c \in Clients, NEW p \in Paths,
           \/ EvictCall(c, p) \/ Remove(c, p)
           \/ \E t \in Paths : Rename(c, p, t) \/ RenameFails(c, p, t)
           \/ \E f \in Flags : OpenFile(c, p, f)
           \/ \E e \in Engines : UploadCall(c, p, e)
    PROVE  ByItself(c)
<1>0. call \in [Clients -> Calls]
  BY DEF TypeOK
<1>1. EvictCall(c, p) \/ (\E e \in Engines : UploadCall(c, p, e)) => ByItself(c)
  BY <1>0 DEF EvictCall, UploadCall, Begin, ByItself, Waits
<1>2. Remove(c, p) \/ (\E f \in Flags : OpenFile(c, p, f)) => ByItself(c)
  BY DEF Remove, OpenFile, Begin, ByItself, Waits
<1>3. (\E t \in Paths : Rename(c, p, t) \/ RenameFails(c, p, t)) => ByItself(c)
  BY DEF Rename, RenameFails, Begin, ByItself, Waits
<1>4. QED
  BY <1>1, <1>2, <1>3

LEMMA AloneHolds ==
    ASSUME TaskHoldsPath, NEW c \in Clients, ByItself(c)
    PROVE  TaskHoldsPath'
BY OthersWait DEF ByItself, Running

LEMMA StartHolds ==
    ASSUME TypeOK, TaskHoldsPath, NEW c \in Clients, NEW p \in Paths,
           DownloadCall(c, p) \/ \E f \in Flags : OpenFileDownloads(c, p, f)
    PROVE  TaskHoldsPath'
<1>1. call[c].pc = "idle" /\ Exists(p) /\ meta[p].obj # NoObj
  BY DEF DownloadCall, OpenFileDownloads, NeedsObject, Begin
<1>2. meta[p].obj \in ObjIds
  BY <1>1, FileType DEF Metas
<1>3. CASE DownloadCall(c, p)
  <2> DEFINE cl == [Idle EXCEPT !.pc = "downloadWait", !.path = p, !.lock = "W", !.obj = meta[p].obj]
  <2>1. cl.pc = "downloadWait" /\ cl.path = p /\ cl.obj = meta[p].obj /\ cl.lock = "W"
    BY IdleType DEF Calls
  <2>2. FindOrNewTask(c, cl)
    BY <1>3 DEF DownloadCall
  <2> HIDE DEF cl
  <2>3. QED
    BY <1>1, <1>2, <2>1, <2>2, FindOrNewTaskHolds DEF Waits
<1>4. ASSUME NEW f \in Flags, OpenFileDownloads(c, p, f) PROVE TaskHoldsPath'
  <2> DEFINE cl == [Idle EXCEPT !.pc = "openWait", !.path = p, !.lock = "R",
                                !.obj = meta[p].obj, !.flags = f]
  <2>1. cl.pc = "openWait" /\ cl.path = p /\ cl.obj = meta[p].obj /\ cl.lock = "R"
    BY IdleType DEF Calls
  <2>2. FindOrNewTask(c, cl)
    BY <1>4 DEF OpenFileDownloads
  <2> HIDE DEF cl
  <2>3. QED
    BY <1>1, <1>2, <2>1, <2>2, FindOrNewTaskHolds DEF Waits
<1>5. QED
  BY <1>3, <1>4

LEMMA NextHolds ==
    ASSUME TypeOK, TaskHoldsPath, [Next]_vars
    PROVE  TaskHoldsPath'
<1>1. ASSUME NEW c \in Clients, UploadStep(c) \/ EvictStep(c) PROVE TaskHoldsPath'
  BY <1>1, UploadStepAlone, EvictStepAlone, AloneHolds
<1>2. ASSUME NEW c \in Clients, DownloadReturn(c) \/ OpenFileAgain(c) \/ Write(c) \/ Close(c)
      PROVE  TaskHoldsPath'
  BY <1>2, FileStepAlone, AloneHolds
<1>3. ASSUME NEW c \in Clients, NEW p \in Paths,
             \/ EvictCall(c, p) \/ Remove(c, p)
             \/ \E t \in Paths : Rename(c, p, t) \/ RenameFails(c, p, t)
             \/ \E f \in Flags : OpenFile(c, p, f)
             \/ \E e \in Engines : UploadCall(c, p, e)
      PROVE  TaskHoldsPath'
  BY <1>3, CallAlone, AloneHolds
<1>4. ASSUME NEW c \in Clients, NEW p \in Paths,
             DownloadCall(c, p) \/ \E f \in Flags : OpenFileDownloads(c, p, f)
      PROVE  TaskHoldsPath'
  BY <1>4, StartHolds
<1>5. CASE UNCHANGED vars
  <2>1. \A j : Waiting(j)' = Waiting(j)
    BY <1>5 DEF vars, Waiting
  <2>2. QED
    BY <1>5, <2>1 DEF vars, TaskHoldsPath
<1>6. ASSUME NEW c \in Clients, FileCall(c) \/ StorageCall(c) PROVE TaskHoldsPath'
  BY <1>2, <1>3, <1>4, <1>6, FlagAssumption DEF FileCall, StorageCall
<1>7. ASSUME NEW k \in TaskKeys, TaskStep(k) PROVE TaskHoldsPath'
  BY <1>7, TaskStepHolds
<1>8. QED
  BY <1>1, <1>2, <1>5, <1>6, <1>7 DEF Next, Progress, Quiet

\* A task that is not done has a caller waiting for it with the lock of its
\* destination, however many join it and whoever started it.
THEOREM TasksHavePathHolders == Spec => []TaskHoldsPath
<1>1. Init => TaskHoldsPath
  BY DEF Init, TaskHoldsPath
<1>2. TypeOK /\ TaskHoldsPath /\ [Next]_vars => TaskHoldsPath'
  BY NextHolds
<1>3. QED
  BY <1>1, <1>2, TypeCorrect, PTL DEF Spec

-----------------------------------------------------------------------------
\* What Evict relies on: fs.mtx is its own, nobody stands at its path, and an
\* inode that is linked is linked where its File's node stands.
EvictSteps == {"evictLock", "evictLoad", "evictHash", "evictRemove"}
Away(p) == \A d \in Clients : handle[d] # NoHandle => handle[d].node # p
InodeStands(d) == handle[d] # NoHandle => handle[d].inode \in {Exile, handle[d].node}

Spared ==
    /\ \A c \in Clients : call[c].pc \in EvictSteps => mtx = c /\ Away(call[c].path)
    /\ \A d \in Clients : InodeStands(d)

\* A call goes on with evicting, or does not begin to.
NoNewEvict(c) ==
    /\ \A d \in Clients \ {c} : call'[d] = call[d]
    /\ call'[c].pc \in EvictSteps => call[c].pc \in EvictSteps /\ call'[c].path = call[c].path

LEMMA EvictsAsBefore ==
    ASSUME Spared, NEW c \in Clients, NoNewEvict(c), UNCHANGED <<mtx, handle>>
    PROVE  Spared'
<1>1. ASSUME NEW d \in Clients, call'[d].pc \in EvictSteps
      PROVE  call[d].pc \in EvictSteps /\ call'[d].path = call[d].path
  BY <1>1 DEF NoNewEvict
<1>2. QED
  BY <1>1 DEF Spared, Away, InodeStands

\* A step with fs.mtx free moves handles as it likes, inode and node alike.
LEMMA NobodyEvicts ==
    ASSUME Spared, mtx = NoClient, UNCHANGED mtx,
           \A d \in Clients : call'[d].pc \in EvictSteps => call[d].pc \in EvictSteps,
           \A d \in Clients : InodeStands(d)'
    PROVE  Spared'
<1>1. \A d \in Clients : call[d].pc \notin EvictSteps
  BY SetAssumption DEF Spared
<1>2. QED
  BY <1>1 DEF Spared

\* Files are closed, and inodes unlinked, at any time.
LEMMA HandlesShrink ==
    ASSUME Spared, UNCHANGED mtx,
           \A d \in Clients : call'[d].pc \in EvictSteps => call'[d] = call[d],
           \A d \in Clients : handle'[d] # NoHandle =>
               /\ handle[d] # NoHandle /\ handle'[d].node = handle[d].node
               /\ handle'[d].inode \in {Exile, handle[d].inode}
    PROVE  Spared'
<1>1. ASSUME NEW d \in Clients PROVE InodeStands(d)'
  BY DEF Spared, InodeStands
<1>2. ASSUME NEW c \in Clients, call'[c].pc \in EvictSteps
      PROVE  mtx' = c /\ Away(call[c].path)' /\ call'[c].path = call[c].path
  BY <1>2 DEF Spared, Away
<1>3. QED
  BY <1>1, <1>2 DEF Spared, Away

LEMMA UploadStepSpares ==
    ASSUME IInv, Spared, NEW c \in Clients, UploadStep(c)
    PROVE  Spared'
<1>0. TypeOK /\ call \in [Clients -> Calls]
  BY InvariantParts DEF TypeOK
<1>1. \A d \in Clients \ {c} : call'[d] = call[d]
  BY <1>0, UploadStepAlone DEF ByItself
<1>2. call'[c].pc \notin EvictSteps
  <2>1. DOMAIN call = Clients /\ "pc" \in DOMAIN call[c]
    BY <1>0 DEF Calls
  <2>2. \/ UploadFails(c) \/ UploadQuits(c) \/ UploadLoadFails(c) \/ UploadWriteBucketFails(c)
        \/ UploadWriteMeta(c) \/ UploadWriteMetaFails(c)
        => call'[c].pc \notin EvictSteps
    BY <1>0 DEF UploadFails, UploadQuits, UploadLoadFails, UploadWriteBucketFails,
                UploadWriteMeta, UploadWriteMetaFails, Return, Idle, EvictSteps
  <2>3. ASSUME UploadStat(c) PROVE call'[c].pc \notin EvictSteps
    BY <2>1, <2>3 DEF UploadStat, EvictSteps
  <2>4. ASSUME UploadHash(c) PROVE call'[c].pc \notin EvictSteps
    BY <2>1, <2>4 DEF UploadHash, EvictSteps
  <2>5. ASSUME UploadLock(c) PROVE call'[c].pc \notin EvictSteps
    BY <2>1, <2>5 DEF UploadLock, EvictSteps
  <2>6. ASSUME UploadOccupy(c) PROVE call'[c].pc \notin EvictSteps
    BY <2>1, <2>6 DEF UploadOccupy, EvictSteps
  <2>7. ASSUME UploadNextNonce(c) PROVE call'[c].pc \notin EvictSteps
    BY <2>1, <2>7 DEF UploadNextNonce, EvictSteps
  <2>8. ASSUME UploadPlan(c) PROVE call'[c].pc \notin EvictSteps
    <3>1. \E step \in {"uploadEncode", "uploadTruncate"}, inline \in BOOLEAN :
              call' = [call EXCEPT ![c] = [@ EXCEPT !.pc = step, !.inline = inline]]
      BY <2>8 DEF UploadPlan
    <3>2. QED
      BY <2>1, <3>1 DEF EvictSteps
  <2>9. ASSUME UploadEncode(c) PROVE call'[c].pc \notin EvictSteps
    <3> DEFINE kept == Stored(call[c].bkt, call[c].obj, Base64, data[call[c].path].content)
               enc == data[call[c].path].content
    <3>1. \/ call' = [call EXCEPT ![c] = [@ EXCEPT !.pc = "uploadTruncate", !.bkt = kept]]
          \/ call' = [call EXCEPT ![c] = [@ EXCEPT !.pc = "uploadTransfer", !.enc = enc]]
      BY <2>9 DEF UploadEncode
    <3> HIDE DEF kept, enc
    <3>2. QED
      BY <2>1, <3>1 DEF EvictSteps
  <2>10. ASSUME UploadTransfer(c) PROVE call'[c].pc \notin EvictSteps
    <3> DEFINE Kept(b) == Stored(call[c].bkt, call[c].obj, call[c].scheme, b)
    <3>1. \E b \in UploadResults(call[c].bkt[call[c].obj].at[call[c].scheme], call[c].enc) :
              call' = [call EXCEPT ![c] =
                          [@ EXCEPT !.pc = "uploadTruncate", !.enc = NoContent, !.bkt = Kept(b)]]
      BY <2>10 DEF UploadTransfer
    <3> HIDE DEF Kept
    <3>2. QED
      BY <2>1, <3>1 DEF EvictSteps
  <2>11. ASSUME UploadTruncateBucket(c) PROVE call'[c].pc \notin EvictSteps
    BY <2>1, <2>11 DEF UploadTruncateBucket, EvictSteps
  <2>12. ASSUME UploadWriteBucket(c) PROVE call'[c].pc \notin EvictSteps
    BY <2>1, <2>12 DEF UploadWriteBucket, EvictSteps
  <2>13. ASSUME UploadTruncateMeta(c) PROVE call'[c].pc \notin EvictSteps
    BY <2>1, <2>13 DEF UploadTruncateMeta, EvictSteps
  <2>14. QED
    BY <2>2, <2>3, <2>4, <2>5, <2>6, <2>7, <2>8, <2>9, <2>10, <2>11, <2>12, <2>13 DEF UploadStep
<1>3. UNCHANGED <<mtx, handle>>
  <2>1. \/ UploadFails(c) \/ UploadQuits(c) \/ UploadWriteBucketFails(c) \/ UploadWriteMetaFails(c)
        => UNCHANGED <<mtx, handle>>
    BY DEF UploadFails, UploadQuits, UploadWriteBucketFails, UploadWriteMetaFails, locks
  <2>2. QED
    BY <2>1 DEF UploadStep, UploadStat, UploadHash, UploadLock, UploadOccupy, UploadNextNonce,
        UploadLoadFails, UploadPlan, UploadEncode, UploadTransfer, UploadTruncateBucket,
        UploadWriteBucket, UploadTruncateMeta, UploadWriteMeta, locks
<1>4. QED
  BY <1>1, <1>2, <1>3, EvictsAsBefore DEF NoNewEvict

LEMMA EvictStepSpares ==
    ASSUME IInv, Spared, NEW c \in Clients, EvictStep(c)
    PROVE  Spared'
<1>0. TypeOK /\ call \in [Clients -> Calls] /\ call[c].pc \in EvictSteps /\ handle' = handle
  BY InvariantParts DEF TypeOK, EvictStep, EvictLock, EvictLoad, EvictLoadFails, EvictHash, EvictRemove,
         Evicting, EvictSteps
<1>1. \A d \in Clients \ {c} : call'[d] = call[d]
  BY <1>0, EvictStepAlone DEF ByItself
<1>2. CASE mtx' = mtx /\ call'[c].path = call[c].path
  BY <1>0, <1>1, <1>2, EvictsAsBefore DEF NoNewEvict
<1>3. CASE EvictReturn(c)
  <2>1. mtx = c /\ call'[c].pc = "idle"
    BY <1>0, <1>3 DEF Spared, EvictReturn, Return, Idle
  <2>2. \A d \in Clients : call'[d].pc \notin EvictSteps
    BY <1>1, <2>1 DEF Spared, EvictSteps
  <2>3. QED
    BY <1>0, <2>2 DEF Spared, InodeStands
<1>4. \/ mtx' = mtx /\ call'[c].path = call[c].path
      \/ EvictReturn(c)
  <2>1. DOMAIN call = Clients /\ call[c] \in Calls
    BY <1>0
  <2>2. \A pc : [call[c] EXCEPT !.pc = pc].path = call[c].path
    BY <2>1 DEF Calls
  <2>3. CASE EvictLock(c) \/ EvictHash(c)
    BY <2>1, <2>2, <2>3 DEF EvictLock, EvictHash
  <2>4. CASE EvictLoad(c)
    BY <2>1, <2>4 DEF EvictLoad, locks, Calls
  <2>5. CASE EvictLoadFails(c) \/ EvictRemove(c)
    BY <2>5 DEF EvictLoadFails, EvictRemove
  <2>6. QED
    BY <2>3, <2>4, <2>5 DEF EvictStep
<1>5. QED
  BY <1>2, <1>3, <1>4

LEMMA WokenEvictsNot ==
    ASSUME NEW cl \in Calls, NEW good
    PROVE  Woken(cl, good).pc \in {"downloadReturn", "openAgain", "idle"}
BY DEF Woken, Calls, Idle

\* Download and OpenFile begin to wait, or find their task done.
LEMMA StartSpares ==
    ASSUME IInv, Spared, NEW c \in Clients, NEW p \in Paths,
           DownloadCall(c, p) \/ \E f \in Flags : OpenFileDownloads(c, p, f)
    PROVE  Spared'
<1>0. TypeOK /\ call \in [Clients -> Calls]
  BY InvariantParts DEF TypeOK
<1>1. meta[p].obj \in ObjIds
  BY <1>0, FileType DEF DownloadCall, OpenFileDownloads, NeedsObject, Metas
<1>2. PICK cl \in Calls : cl.pc \in Waits /\ FindOrNewTask(c, cl)
  <2>1. CASE DownloadCall(c, p)
    <3> DEFINE cl == [Idle EXCEPT !.pc = "downloadWait", !.path = p, !.lock = "W", !.obj = meta[p].obj]
    <3>1. cl \in Calls /\ cl.pc = "downloadWait"
      BY <1>1, IdleType DEF Calls, Steps
    <3>2. FindOrNewTask(c, cl)
      BY <2>1 DEF DownloadCall
    <3> HIDE DEF cl
    <3>3. QED
      BY <3>1, <3>2 DEF Waits
  <2>2. ASSUME NEW f \in Flags, OpenFileDownloads(c, p, f)
        PROVE  \E cl \in Calls : cl.pc \in Waits /\ FindOrNewTask(c, cl)
    <3> DEFINE cl == [Idle EXCEPT !.pc = "openWait", !.path = p, !.lock = "R",
                                  !.obj = meta[p].obj, !.flags = f]
    <3>1. cl \in Calls /\ cl.pc = "openWait"
      BY <1>1, IdleType DEF Calls, Steps
    <3>2. FindOrNewTask(c, cl)
      BY <2>2 DEF OpenFileDownloads
    <3> HIDE DEF cl
    <3>3. QED
      BY <3>1, <3>2 DEF Waits
  <2>3. QED
    BY <2>1, <2>2
<1>3. NoNewEvict(c)
  <2>1. call'[c].pc \in Waits \union {"downloadReturn", "openAgain", "idle"}
    BY <1>0, <1>2, WokenEvictsNot DEF FindOrNewTask
  <2>2. \A d \in Clients \ {c} : call'[d] = call[d]
    BY <1>0, <1>2 DEF FindOrNewTask
  <2>3. QED
    BY <2>1, <2>2 DEF NoNewEvict, EvictSteps, Waits
<1>4. QED
  BY <1>3, EvictsAsBefore DEF DownloadCall, OpenFileDownloads, locks

LEMMA StorageCallSpares ==
    ASSUME IInv, Spared, NEW c \in Clients, StorageCall(c)
    PROVE  Spared'
<1>0. TypeOK /\ call \in [Clients -> Calls]
  BY InvariantParts DEF TypeOK
<1>1. ASSUME NEW p \in Paths, NEW e \in Engines, UploadCall(c, p, e) PROVE Spared'
  <2>1. NoNewEvict(c)
    BY <1>0, <1>1, IdleType DEF UploadCall, NoNewEvict, EvictSteps, Calls
  <2>2. QED
    BY <1>1, <2>1, EvictsAsBefore DEF UploadCall, locks
<1>2. ASSUME NEW p \in Paths, DownloadCall(c, p) PROVE Spared'
  BY <1>0, <1>2, StartSpares DEF DownloadCall, locks
<1>3. ASSUME NEW p \in Paths, EvictCall(c, p) PROVE Spared'
  <2>1. mtx = NoClient /\ Unreferenced(p) /\ handle' = handle /\ mtx' = c
    BY <1>3 DEF EvictCall
  <2>2. call'[c].path = p /\ \A d \in Clients \ {c} : call'[d] = call[d]
    BY <1>0, <1>3, IdleType DEF EvictCall, Calls
  <2>3. \A d \in Clients : call[d].pc \notin EvictSteps
    BY <2>1, SetAssumption DEF Spared
  <2>4. QED
    BY <2>1, <2>2, <2>3 DEF Spared, Away, Unreferenced, InodeStands
<1>4. QED
  BY <1>1, <1>2, <1>3 DEF StorageCall

LEMMA TaskStepSpares ==
    ASSUME IInv, Spared, NEW k \in TaskKeys, TaskStep(k)
    PROVE  Spared'
<1>0. TypeOK /\ call \in [Clients -> Calls] /\ handle \in [Clients -> Handles \union {NoHandle}]
  BY InvariantParts DEF TypeOK
<1>1. mtx' = mtx
  BY DEF TaskStep, TaskLock, TaskLoad, TaskLoadFails, TaskInlineCreate, TaskInlineCopy,
         TaskInlineTime, TaskInlineCreateFails, TaskInlineCopyFails, TaskInlineTimeFails,
         TaskFetch, TaskFetchFails, TaskMove, TaskDelete, locks
<1>2. \/ call' = call
      \/ \E good \in BOOLEAN : Finish(k, good)
  BY DEF TaskStep, TaskLock, TaskLoad, TaskLoadFails, TaskInlineCreate, TaskInlineCopy,
         TaskInlineTime, TaskInlineCreateFails, TaskInlineCopyFails, TaskInlineTimeFails,
         TaskFetch, TaskFetchFails, TaskMove, TaskDelete
<1>3. ASSUME NEW d \in Clients, call'[d].pc \in EvictSteps PROVE call'[d] = call[d]
  <2>1. CASE call' = call
    BY <2>1
  <2>2. ASSUME NEW good \in BOOLEAN, Finish(k, good) PROVE call'[d] = call[d]
    <3>1. call'[d] = IF d \in Waiting(k) THEN Woken(call[d], good) ELSE call[d]
      BY <2>2 DEF Finish
    <3>2. Woken(call[d], good).pc \in {"downloadReturn", "openAgain", "idle"}
      BY <1>0, WokenEvictsNot
    <3>3. QED
      BY <1>3, <3>1, <3>2 DEF EvictSteps
  <2>3. QED
    BY <1>2, <2>1, <2>2
<1>4. ASSUME NEW d \in Clients, handle'[d] # NoHandle
      PROVE  /\ handle[d] # NoHandle /\ handle'[d].node = handle[d].node
             /\ handle'[d].inode \in {Exile, handle[d].inode}
  <2>1. CASE handle' = handle
    BY <1>4, <2>1
  <2>2. CASE TaskMove(k)
    <3>1. handle'[d] = IF handle[d] # NoHandle /\ handle[d].inode = k[1]
                       THEN [handle[d] EXCEPT !.inode = Exile] ELSE handle[d]
      BY <2>2 DEF TaskMove
    <3>2. handle[d] # NoHandle /\ handle[d] \in Handles
      BY <1>0, <1>4, <3>1
    <3>3. QED
      BY <3>1, <3>2 DEF Handles
  <2>3. TaskMove(k) \/ handle' = handle
    BY DEF TaskStep, TaskLock, TaskLoad, TaskLoadFails, TaskInlineCreate, TaskInlineCopy,
           TaskInlineTime, TaskInlineCreateFails, TaskInlineCopyFails, TaskInlineTimeFails,
           TaskFetch, TaskFetchFails, TaskDelete
  <2>4. QED
    BY <2>1, <2>2, <2>3
<1>5. QED
  BY <1>1, <1>3, <1>4, HandlesShrink

-----------------------------------------------------------------------------
\* Nodes and inodes that are moved alike stay together.
LEMMA MovedStand ==
    ASSUME TypeOK, \A d \in Clients : InodeStands(d),
           NEW nodeOf \in [Places -> Places], NEW inodeOf \in [Places -> Places],
           inodeOf[Exile] = Exile,
           \A x \in Paths : inodeOf[x] \in {Exile, nodeOf[x]},
           handle' = Moved(nodeOf, inodeOf)
    PROVE  \A d \in Clients : InodeStands(d)'
<1> SUFFICES ASSUME NEW d \in Clients, handle'[d] # NoHandle
             PROVE  handle'[d].inode \in {Exile, handle'[d].node}
  BY DEF InodeStands
<1>1. handle[d] # NoHandle
      /\ handle'[d] = [node |-> nodeOf[handle[d].node], inode |-> inodeOf[handle[d].inode]]
  BY DEF Moved
<1>2. handle[d].inode \in Places /\ handle[d].inode \in {Exile, handle[d].node}
  BY <1>1 DEF TypeOK, Handles, Places, InodeStands
<1>3. QED
  BY <1>1, <1>2 DEF Places

LEMMA OpenDataStands ==
    ASSUME TypeOK, \A d \in Clients : InodeStands(d), NEW c \in Clients, NEW p, NEW f,
           OpenData(c, p, f)
    PROVE  \A d \in Clients : InodeStands(d)'
<1>1. handle' = [handle EXCEPT ![c] = [node |-> p, inode |-> p]]
      /\ handle \in [Clients -> Handles \union {NoHandle}]
  BY DEF OpenData, TypeOK
<1>2. QED
  BY <1>1 DEF InodeStands

LEMMA FileCallSpares ==
    ASSUME IInv, Spared, NEW c \in Clients, FileCall(c)
    PROVE  Spared'
<1>0. TypeOK /\ (\A d \in Clients : InodeStands(d)) /\ Same \in [Places -> Places]
      /\ handle \in [Clients -> Handles \union {NoHandle}]
  BY InvariantParts DEF Spared, Same, TypeOK
<1>1. ASSUME NEW p \in Paths, NEW f \in Flags, OpenFile(c, p, f) PROVE Spared'
  BY <1>0, <1>1, OpenDataStands, NobodyEvicts DEF OpenFile, locks
<1>2. ASSUME NEW p \in Paths, NEW f \in Flags, OpenFileDownloads(c, p, f) PROVE Spared'
  BY <1>2, StartSpares
<1>3. ASSUME NEW p \in Paths, Remove(c, p) PROVE Spared'
  <2> DEFINE to == [Same EXCEPT ![p] = Exile]
  <2>1. to \in [Places -> Places] /\ to[Exile] = Exile /\ handle' = Moved(to, to)
    BY <1>3, <1>0 DEF Remove, Same, Places
  <2> HIDE DEF to
  <2>2. \A d \in Clients : InodeStands(d)'
    BY <1>0, <2>1, MovedStand
  <2>3. QED
    BY <1>3, <2>2, NobodyEvicts DEF Remove, locks
<1>4. ASSUME NEW s \in Paths, NEW t \in Paths, Rename(c, s, t) PROVE Spared'
  <2> DEFINE nodeOf == [Same EXCEPT ![s] = t, ![t] = IF Exists(t) THEN Exile ELSE s]
             inodeOf == [Same EXCEPT ![s] = t, ![t] = Exile]
  <2>1. /\ nodeOf \in [Places -> Places] /\ inodeOf \in [Places -> Places]
        /\ inodeOf[Exile] = Exile
        /\ \A x \in Paths : inodeOf[x] \in {Exile, nodeOf[x]}
        /\ handle' = Moved(nodeOf, inodeOf)
    BY <1>4, <1>0, SetAssumption DEF Rename, Same, Places
  <2> HIDE DEF nodeOf, inodeOf
  <2>2. \A d \in Clients : InodeStands(d)'
    BY <1>0, <2>1, MovedStand
  <2>3. QED
    BY <1>4, <2>2, NobodyEvicts DEF Rename, locks
<1>5. ASSUME NEW s \in Paths, NEW t \in Paths, RenameFails(c, s, t) PROVE Spared'
  <2> DEFINE to == [Same EXCEPT ![t] = Exile]
  <2>1. to \in [Places -> Places] /\ to[Exile] = Exile
        /\ (handle' = Moved(to, to) \/ handle' = handle)
    BY <1>5, <1>0 DEF RenameFails, Same, Places
  <2> HIDE DEF to
  <2>2. \A d \in Clients : InodeStands(d)'
    BY <1>0, <2>1, MovedStand DEF InodeStands
  <2>3. QED
    BY <1>5, <2>2, NobodyEvicts DEF RenameFails, locks
<1>6. CASE Write(c)
  BY <1>6, EvictsAsBefore DEF Write, NoNewEvict, locks
<1>7. CASE Close(c)
  BY <1>0, <1>7, HandlesShrink DEF Close, locks
<1>8. QED
  BY <1>1, <1>2, <1>3, <1>4, <1>5, <1>6, <1>7, FlagAssumption DEF FileCall

LEMMA ReturnSpares ==
    ASSUME IInv, Spared, NEW c \in Clients, DownloadReturn(c) \/ OpenFileAgain(c)
    PROVE  Spared'
<1>0. TypeOK /\ call \in [Clients -> Calls] /\ (\A d \in Clients : InodeStands(d))
  BY InvariantParts DEF TypeOK, Spared
<1>1. call'[c].pc = "idle" /\ \A d \in Clients \ {c} : call'[d] = call[d]
  BY <1>0 DEF DownloadReturn, OpenFileAgain, Return, Idle
<1>2. CASE UNCHANGED <<mtx, handle>>
  BY <1>1, <1>2, EvictsAsBefore DEF NoNewEvict, EvictSteps
<1>3. CASE OpenFileAgain(c) /\ OpenData(c, call[c].path, call[c].flags)
  <2>1. \A d \in Clients : InodeStands(d)'
    BY <1>0, <1>3, OpenDataStands
  <2>2. \A d \in Clients : call'[d].pc \in EvictSteps => call[d].pc \in EvictSteps
    BY <1>1 DEF EvictSteps
  <2>3. QED
    BY <1>3, <2>1, <2>2, NobodyEvicts DEF OpenFileAgain, locks
<1>4. QED
  BY <1>2, <1>3 DEF DownloadReturn, OpenFileAgain, locks

LEMMA NextSpares ==
    ASSUME IInv, Spared, [Next]_vars
    PROVE  Spared'
<1>1. CASE UNCHANGED vars
  BY <1>1 DEF vars, Spared, Away, InodeStands
<1>2. QED
  BY <1>1, UploadStepSpares, EvictStepSpares, ReturnSpares, TaskStepSpares, FileCallSpares,
     StorageCallSpares DEF Next, Progress, Quiet

\* At the step that removes the data of a file, nobody has that data open:
\* the check of CurrentRefs at the start of Evict holds until then, since
\* fs.mtx is kept all along.
THEOREM EvictsSpareOpenFiles == Spec => EvictSparesOpenFiles
<1>1. Init => Spared
  BY DEF Init, Spared, Idle, EvictSteps, InodeStands
<1>2. IInv /\ Spared /\ [Next]_vars => Spared'
  BY NextSpares
<1>3. ASSUME IInv, Spared, [Next]_vars
      PROVE  [\A c, d \in Clients :
                 EvictRemove(c) /\ handle[d] # NoHandle => handle[d].inode # call[c].path]_vars
  <2>1. SUFFICES ASSUME NEW c \in Clients, NEW d \in Clients, EvictRemove(c), handle[d] # NoHandle
                 PROVE  handle[d].inode # call[c].path
    OBVIOUS
  <2>2. call[c].pc = "evictRemove" /\ call[c].path \in Paths
    BY <1>3, <2>1, InvariantParts DEF EvictRemove, Evicting, ClientLocals
  <2>3. handle[d].node # call[c].path /\ handle[d].inode \in {Exile, handle[d].node}
    BY <1>3, <2>1, <2>2 DEF Spared, Away, InodeStands, EvictSteps
  <2>4. QED
    BY <2>2, <2>3, SetAssumption
<1>4. QED
  BY <1>1, <1>2, <1>3, SpecIInv, PTL DEF Spec, EvictSparesOpenFiles
=============================================================================
