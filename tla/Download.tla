------------------------------ MODULE Download ------------------------------
(***************************************************************************)
(* FS.Download and the download tasks of objs.go.  A task is keyed by the  *)
(* destination and the object, and shared by every call that needs it: the *)
(* first caller starts it, the others wait on its doneCh.  The task itself *)
(* takes neither fs.mtx nor the tree lock; it relies on its waiters, who   *)
(* hold the tree lock of the destination until it is done.                 *)
(***************************************************************************)
EXTENDS FileSystem

\* parseFilters and the storage list: a record with one storage, inline.
IsInline(rec) == {s \in Schemes : rec.at[s] # NoContent} = {Base64}

\* The bucket file can be loaded and has the object.
Readable(id) == BucketOf[id] \notin torn /\ objs[id] # NoRecord

\* Faulty variant of ModTime: rounded up, to a time still to come.
ModTimeRoundedUp(t) == t + (t % TicksPerMicro)

\* setModtime of set_modtime_linux.go sets the time in whole microseconds.
ModTime(t) == t - (t % TicksPerMicro)

NewTask(t) == [step |-> "lock", mtime |-> t, got |-> NoContent, ok |-> FALSE]

\* Faulty variant of Woken: OpenFile does not look at task.err.
WokenIgnoringError(cl, good) ==
    IF cl.pc = "downloadWait" THEN [cl EXCEPT !.pc = "downloadReturn", !.ok = good]
    ELSE [cl EXCEPT !.pc = "openAgain"]

\* What a caller does once doneCh is closed: Download returns task.err, and
\* OpenFile returns it or tries to open the file again.
Woken(cl, good) ==
    IF cl.pc = "downloadWait" THEN [cl EXCEPT !.pc = "downloadReturn", !.ok = good]
    ELSE IF good THEN [cl EXCEPT !.pc = "openAgain"]
    ELSE Idle

\* findOrNewDownloadTask, by a call whose locals become cl.  The task found
\* may be done already, and then doneCh does not block.
FindOrNewTask(c, cl) ==
    LET k == <<cl.path, cl.obj>>
        finished == task[k] # NoTask /\ task[k].step = "done"
    IN  /\ task' = IF task[k] = NoTask
                   THEN [task EXCEPT ![k] = NewTask(meta[cl.path].mtime)] ELSE task
        /\ call' = [call EXCEPT ![c] = IF finished THEN Woken(cl, task[k].ok) ELSE cl]

Waiting(k) ==
    {c \in Clients : /\ call[c].pc \in {"downloadWait", "openWait"}
                     /\ <<call[c].path, call[c].obj>> = k}

\* Faulty variant of Finish: doneCh is not closed.
FinishWithoutClose(k, good) ==
    /\ task' = [task EXCEPT ![k] = [@ EXCEPT !.step = "done", !.ok = good, !.got = NoContent]]
    /\ call' = call

\* The task returns: task.err is set and doneCh closed, waking the waiters.
Finish(k, good) ==
    /\ task' = [task EXCEPT ![k] = [@ EXCEPT !.step = "done", !.ok = good, !.got = NoContent]]
    /\ call' = [c \in Clients |-> IF c \in Waiting(k) THEN Woken(call[c], good) ELSE call[c]]

GoOn(k, step) == task' = [task EXCEPT ![k] = [@ EXCEPT !.step = step]]

-----------------------------------------------------------------------------
\* Faulty variant of DownloadCall: the path is unlocked with fs.mtx, as in
\* Upload, and not when the task is done.
DownloadCallUnlocking(c, p) ==
    /\ Begin(c)
    /\ mtx = NoClient
    /\ Exists(p) /\ ~Present(p) /\ meta[p].obj # NoObj
    /\ CanWLock(p)
    /\ FindOrNewTask(c, [Idle EXCEPT !.pc = "downloadWait", !.path = p,
                                     !.obj = meta[p].obj])
    /\ UNCHANGED <<disk, locks, handle, now>>

\* Download, the section under fs.mtx.  A call that finds nothing to do, or
\* cannot lock the path, changes nothing.
DownloadCall(c, p) ==
    /\ Begin(c)
    /\ mtx = NoClient
    /\ Exists(p) /\ ~Present(p) /\ meta[p].obj # NoObj
    /\ CanWLock(p)
    /\ FindOrNewTask(c, [Idle EXCEPT !.pc = "downloadWait", !.path = p,
                                     !.lock = "W", !.obj = meta[p].obj])
    /\ UNCHANGED <<disk, locks, handle, now>>

\* Download returns task.err and unlocks the path.
DownloadReturn(c) ==
    /\ call[c].pc = "downloadReturn"
    /\ Return(c)
    /\ UNCHANGED <<disk, locks, task, handle, now, left>>

-----------------------------------------------------------------------------
At(k, step) == task[k] # NoTask /\ task[k].step = step

\* runDownloadTask: lock the object.
TaskLock(k) ==
    /\ At(k, "lock")
    /\ OL!Acquire(k, k[2])
    /\ GoOn(k, "bucket")
    /\ UNCHANGED <<disk, mtx, bl, call, handle, now, left>>

\* Lock the bucket, load it and choose how to fetch the object.
TaskLoad(k) ==
    /\ At(k, "bucket")
    /\ Readable(k[2])
    /\ BL!Acquire(k, BucketOf[k[2]])
    /\ GoOn(k, IF IsInline(objs[k[2]]) THEN "inline" ELSE "fetch")
    /\ UNCHANGED <<disk, mtx, ol, call, handle, now, left>>

\* The bucket cannot be read, or does not have the object.
TaskLoadFails(k) ==
    /\ At(k, "bucket")
    /\ ~Readable(k[2])
    /\ bl[BucketOf[k[2]]] = {}
    /\ OL!Release(k, k[2])
    /\ Finish(k, FALSE)
    /\ UNCHANGED <<disk, mtx, bl, handle, now, left>>

\* The fast path creates the destination itself.
TaskInlineCreate(k) ==
    /\ At(k, "inline")
    /\ ~Present(k[1])
    /\ data' = [data EXCEPT ![k[1]] = [content |-> Torn, mtime |-> now]]
    /\ GoOn(k, "inlineWrite")
    /\ UNCHANGED <<meta, objs, torn, locks, call, handle, now, left>>

\* The inline content cannot be decoded, or the destination not created:
\* O_EXCL refuses one that exists by now.
TaskInlineCreateFails(k) ==
    /\ At(k, "inline")
    /\ ReleaseObject(k, k[2])
    /\ Finish(k, FALSE)
    /\ UNCHANGED <<disk, mtx, handle, now, left>>

\* What the file has when the decoded content has been copied to it: that, or
\* a mixture with what a File opened meanwhile has written.
Copied(k) ==
    LET stored == objs[k[2]].at[Base64]
    IN  IF data[k[1]].content = Torn THEN {stored} ELSE {stored, Torn}

\* The decoded content is copied to the file created before.  The waiters'
\* tree lock keeps that file where it is, but a File opened meanwhile can
\* write to it.
TaskInlineCopy(k) ==
    /\ At(k, "inlineWrite")
    /\ \E b \in Copied(k) : data' = [data EXCEPT ![k[1]] = [content |-> b, mtime |-> now]]
    /\ GoOn(k, "inlineTime")
    /\ UNCHANGED <<meta, objs, torn, locks, call, handle, now, left>>

\* The file is opened again and its mtime set, whatever it holds by then.
TaskInlineTime(k) ==
    /\ At(k, "inlineTime")
    /\ Present(k[1])
    /\ data' = [data EXCEPT ![k[1]] =
                   [content |-> data[k[1]].content, mtime |-> ModTime(task[k].mtime)]]
    /\ ReleaseObject(k, k[2])
    /\ Finish(k, TRUE)
    /\ UNCHANGED <<meta, objs, torn, mtx, handle, now, left>>

\* The copy fails: what has been written of the destination stays, nothing,
\* a part of the content or all of it.
TaskInlineCopyFails(k) ==
    /\ At(k, "inlineWrite")
    /\ \/ UNCHANGED data
       \/ \E b \in {Torn, objs[k[2]].at[Base64]} :
             data' = [data EXCEPT ![k[1]] = [content |-> b, mtime |-> now]]
    /\ ReleaseObject(k, k[2])
    /\ Finish(k, FALSE)
    /\ UNCHANGED <<meta, objs, torn, mtx, handle, now, left>>

\* The file cannot be opened again, or its mtime not set.
TaskInlineTimeFails(k) ==
    /\ At(k, "inlineTime")
    /\ ReleaseObject(k, k[2])
    /\ Finish(k, FALSE)
    /\ UNCHANGED <<disk, mtx, handle, now, left>>

\* The slow path tries the storages until one delivers; all that it writes
\* is in its own work directory.
TaskFetch(k) ==
    /\ At(k, "fetch")
    /\ \E e \in Engines :
          /\ objs[k[2]].at[e] # NoContent
          /\ task' = [task EXCEPT ![k] = [@ EXCEPT !.step = "move", !.got = objs[k[2]].at[e]]]
    /\ UNCHANGED <<disk, locks, call, handle, now, left>>

\* No storage delivers.
TaskFetchFails(k) ==
    /\ At(k, "fetch")
    /\ ReleaseObject(k, k[2])
    /\ Finish(k, FALSE)
    /\ UNCHANGED <<disk, mtx, handle, now, left>>

\* os.Rename of the downloaded file onto the destination, replacing the
\* inode of whoever has opened a file there.
TaskMove(k) ==
    /\ At(k, "move")
    /\ data' = [data EXCEPT ![k[1]] =
                   [content |-> task[k].got, mtime |-> ModTime(task[k].mtime)]]
    /\ handle' = [c \in Clients |->
                     IF handle[c] # NoHandle /\ handle[c].inode = k[1]
                     THEN [handle[c] EXCEPT !.inode = Exile] ELSE handle[c]]
    /\ ReleaseObject(k, k[2])
    /\ Finish(k, TRUE)
    /\ UNCHANGED <<meta, objs, torn, mtx, now, left>>

\* The last deferred function removes the task from fs.downloadTasks.
TaskDelete(k) ==
    /\ At(k, "done")
    /\ task' = [task EXCEPT ![k] = NoTask]
    /\ UNCHANGED <<disk, locks, call, handle, now, left>>

TaskStep(k) ==
    \/ TaskLock(k) \/ TaskLoad(k) \/ TaskLoadFails(k)
    \/ TaskInlineCreate(k) \/ TaskInlineCopy(k) \/ TaskInlineTime(k)
    \/ TaskInlineCreateFails(k) \/ TaskInlineCopyFails(k) \/ TaskInlineTimeFails(k)
    \/ TaskFetch(k) \/ TaskFetchFails(k) \/ TaskMove(k) \/ TaskDelete(k)
=============================================================================
