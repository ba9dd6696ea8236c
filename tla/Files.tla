-------------------------------- MODULE Files --------------------------------
(***************************************************************************)
(* OpenFile, Remove and Rename of files.go, and the calls on an open File. *)
(* A section under fs.mtx is one step.  OpenFile of a file that has only   *)
(* an object shares its download task, holding the tree lock for reading   *)
(* while it waits, and tries again once the task is done.                  *)
(***************************************************************************)
EXTENDS Download

\* openLocalFileClean up to the missing data: O_CREATE makes the metadata,
\* O_EXCL then refuses any there was, and an empty file is not metadata.
Found(p, f) ==
    \/ meta[p] = NoMeta /\ "create" \in f
    \/ Exists(p) /\ ~({"create", "excl"} \subseteq f)

\* The data has to come from the object.
NeedsObject(p, f) ==
    /\ Exists(p) /\ ~Present(p) /\ meta[p].obj # NoObj
    /\ "trunc" \notin f

\* os.OpenFile of the data, which it creates or truncates as the flags say,
\* and the File at the path's node.
OpenData(c, p, f) ==
    /\ Present(p) \/ "create" \in f
    /\ meta' = IF meta[p] = NoMeta
               THEN [meta EXCEPT ![p] = [obj |-> NoObj, mtime |-> 0]] ELSE meta
    /\ IF Present(p) /\ "trunc" \notin f
       THEN UNCHANGED <<data, now>>
       ELSE /\ Tick
            /\ data' = [data EXCEPT ![p] = [content |-> Empty, mtime |-> now']]
    /\ handle' = [handle EXCEPT ![c] = [node |-> p, inode |-> p]]

\* Pass 1 finds the data, or may create it, and OpenFile returns the File.
OpenFile(c, p, f) ==
    /\ Begin(c)
    /\ handle[c] = NoHandle
    /\ mtx = NoClient
    /\ CanRLock(p)
    /\ Found(p, f) /\ ~NeedsObject(p, f)
    /\ OpenData(c, p, f)
    /\ UNCHANGED <<objs, torn, locks, task, call>>

\* Pass 1 needs the object and the path is one to download on demand.
OpenFileDownloads(c, p, f) ==
    /\ Begin(c)
    /\ handle[c] = NoHandle
    /\ mtx = NoClient
    /\ CanRLock(p)
    /\ Found(p, f) /\ NeedsObject(p, f) /\ p \in OnDemand
    /\ FindOrNewTask(c, [Idle EXCEPT !.pc = "openWait", !.path = p, !.lock = "R",
                                     !.obj = meta[p].obj, !.flags = f])
    /\ UNCHANGED <<disk, locks, handle, now>>

\* Pass 2, after the task: a File, or EACCES when the data is still missing.
OpenFileAgain(c) ==
    LET p == call[c].path
        f == call[c].flags
    IN  /\ call[c].pc = "openAgain"
        /\ mtx = NoClient
        /\ IF Found(p, f) /\ ~NeedsObject(p, f) /\ (Present(p) \/ "create" \in f)
           THEN OpenData(c, p, f)
           ELSE UNCHANGED <<meta, data, handle, now>>
        /\ Return(c)
        /\ UNCHANGED <<objs, torn, locks, task, left>>

-----------------------------------------------------------------------------
\* File.Write, WriteAt and Truncate go to the inode, wherever it is linked.
Write(c) ==
    /\ Begin(c)
    /\ call[c].pc = "idle" /\ handle[c] # NoHandle
    /\ handle[c].inode # Exile
    /\ Tick
    /\ \E b \in Contents :
          data' = [data EXCEPT ![handle[c].inode] = [content |-> b, mtime |-> now']]
    /\ UNCHANGED <<meta, objs, torn, locks, task, call, handle>>

\* File.Close frees the node.
Close(c) ==
    /\ call[c].pc = "idle" /\ handle[c] # NoHandle
    /\ handle' = [handle EXCEPT ![c] = NoHandle]
    /\ UNCHANGED <<disk, locks, task, call, now, left>>

-----------------------------------------------------------------------------
\* Where the open files stand after the nodes and the inodes are moved.
Moved(nodeOf, inodeOf) ==
    [c \in Clients |->
        IF handle[c] = NoHandle THEN NoHandle
        ELSE [node |-> nodeOf[handle[c].node], inode |-> inodeOf[handle[c].inode]]]

Places == Paths \union {Exile}
Same == [x \in Places |-> x]

\* Remove deletes the data, then the metadata, and exiles the node.  Without
\* data (a file that is only an object) it fails and changes nothing.
Remove(c, p) ==
    /\ Begin(c)
    /\ mtx = NoClient
    /\ CanWLock(p)
    /\ Exists(p) /\ Present(p)
    /\ data' = [data EXCEPT ![p] = NoData]
    /\ meta' = [meta EXCEPT ![p] = NoMeta]
    /\ handle' = Moved([Same EXCEPT ![p] = Exile], [Same EXCEPT ![p] = Exile])
    /\ UNCHANGED <<objs, torn, locks, task, call, now>>

\* A target there is must have data, which Rename removes first.
Replaceable(t) == Exists(t) => Present(t)

\* Faulty variants of Rename: the target is not locked; its node is not exiled.
RenameOntoLocked(c, s, t) ==
    /\ Begin(c)
    /\ s # t
    /\ mtx = NoClient
    /\ CanWLock(s)
    /\ Exists(s) /\ Present(s) /\ Replaceable(t)
    /\ meta' = [meta EXCEPT ![t] = meta[s], ![s] = NoMeta]
    /\ data' = [data EXCEPT ![t] = data[s], ![s] = NoData]
    /\ handle' = Moved([Same EXCEPT ![s] = t, ![t] = IF Exists(t) THEN Exile ELSE s],
                       [Same EXCEPT ![s] = t, ![t] = Exile])
    /\ UNCHANGED <<objs, torn, locks, task, call, now>>

RenameKeepingNode(c, s, t) ==
    /\ Begin(c)
    /\ s # t
    /\ mtx = NoClient
    /\ CanWLock(s) /\ CanWLock(t)
    /\ Exists(s) /\ Present(s) /\ Replaceable(t)
    /\ meta' = [meta EXCEPT ![t] = meta[s], ![s] = NoMeta]
    /\ data' = [data EXCEPT ![t] = data[s], ![s] = NoData]
    /\ handle' = Moved([Same EXCEPT ![s] = t, ![t] = s], [Same EXCEPT ![s] = t, ![t] = Exile])
    /\ UNCHANGED <<objs, torn, locks, task, call, now>>

\* Rename moves metadata, data and node of the source over the target, whose
\* node is exiled; a target without metadata gives its node to the source.
\* Onto itself it writes the name again, and nothing changes here.
Rename(c, s, t) ==
    /\ Begin(c)
    /\ s # t
    /\ mtx = NoClient
    /\ CanWLock(s) /\ CanWLock(t)
    /\ Exists(s) /\ Present(s) /\ Replaceable(t)
    /\ meta' = [meta EXCEPT ![t] = meta[s], ![s] = NoMeta]
    /\ data' = [data EXCEPT ![t] = data[s], ![s] = NoData]
    /\ handle' = Moved([Same EXCEPT ![s] = t, ![t] = IF Exists(t) THEN Exile ELSE s],
                       [Same EXCEPT ![s] = t, ![t] = Exile])
    /\ UNCHANGED <<objs, torn, locks, task, call, now>>

\* The source has no data: the target is removed, the move fails, and the
\* metadata written for the target is taken back.
RenameFails(c, s, t) ==
    /\ Begin(c)
    /\ s # t
    /\ mtx = NoClient
    /\ CanWLock(s) /\ CanWLock(t)
    /\ Exists(s) /\ ~Present(s) /\ Replaceable(t)
    /\ meta' = [meta EXCEPT ![t] = NoMeta]
    /\ data' = [data EXCEPT ![t] = IF Exists(t) THEN NoData ELSE @]
    /\ handle' = IF Exists(t)
                 THEN Moved([Same EXCEPT ![t] = Exile], [Same EXCEPT ![t] = Exile])
                 ELSE handle
    /\ UNCHANGED <<objs, torn, locks, task, call, now>>
=============================================================================
