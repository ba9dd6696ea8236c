----------------------------- MODULE Directories -----------------------------
(***************************************************************************)
(* Mkdir, OpenFile, Remove, Rename and the listing of directories of       *)
(* files.go, one system call at a time.  A path p has its metadata in      *)
(* "M.", a file its data in "F.", a directory its entries in "D.", all in  *)
(* the "D." of the parent.  Every system call may fail, and the process    *)
(* may die between two of them and be started again.                       *)
(*                                                                         *)
(* A call runs under fs.mtx from start to end, so there is one at a time;  *)
(* open Files and the NodeLocks of adapters outlive it.  A call that is    *)
(* refused at once is left out: it makes the "D." of the parent at most,   *)
(* as ListDir does.  Storages are left to module FileSystem: a file that   *)
(* has an object may have no data.                                         *)
(***************************************************************************)
EXTENDS Naturals, FiniteSets, Sequences, SequencesExt

CONSTANTS
    Paths,      \* the paths there may be, sequences of names after cleanFilterPath
    Users,      \* who may have a File and a NodeLock
    OpenFlags,  \* the flags files are opened with
    MaxCalls,   \* bound on the calls
    NoMeta, TornMeta, NoData, NoHandle, NoLock, Exile, Nothing, Dir

Names == UNION {Range(p) : p \in Paths}
Root == <<>>
Parent(p) == Front(p)
AtOrBelow(p, q) == IsPrefix(q, p)
Below(p, q) == AtOrBelow(p, q) /\ p # q
Apart(p, q) == ~AtOrBelow(p, q) /\ ~AtOrBelow(q, p)
Reroot(p, s, t) == t \o SubSeq(p, Len(s) + 1, Len(p))

ASSUME DirectoriesAssumption ==
    /\ \A p \in Paths :
          p \in Seq(Names) /\ Len(p) > 0 /\ \A n \in 1..Len(p) : SubSeq(p, 1, n) \in Paths
    /\ OpenFlags \subseteq SUBSET {"create", "excl", "trunc"}
    /\ MaxCalls \in Nat
    /\ Exile \notin Seq(Names)

\* The data a file had at first, and that of the files made since.
Ids == {<<"old", p>> : p \in Paths} \union {<<"new", n>> : n \in 1..MaxCalls}
Metas == [type : {"dir", "file"}, obj : BOOLEAN]

\* What is not there is told from what is.
ASSUME AbsenceAssumption ==
    /\ {NoMeta, TornMeta} \cap Metas = {} /\ NoMeta # TornMeta
    /\ NoData \notin Ids
    /\ NoHandle \notin [node : {Exile} \union Seq(Names), id : Ids]
    /\ NoLock \notin Paths
    /\ {Nothing, Dir} \cap [obj : BOOLEAN, data : Ids \union {NoData}] = {} /\ Nothing # Dir

VARIABLES
    meta,       \* M.<name>; TornMeta when it is empty
    file,       \* F.<name>: the identity of the data
    dir,        \* whether D.<name> exists
    call,       \* the call under fs.mtx
    tree,       \* what Stat and ReadDir show of the tree between two calls
    handle,     \* the open File of each user: its node and its data
    lock,       \* the path each user has a NodeLock of
    emptied,    \* metadata that was lost while it was rewritten in place
    spoilt,     \* a system call has failed, or a crash has cut a call short
    left        \* calls that may still be made

disk == <<meta, file, dir>>
vars == <<meta, file, dir, call, tree, handle, lock, emptied, spoilt, left>>

Exists(p) == meta[p] \in Metas
IsDir(p) == Exists(p) /\ meta[p].type = "dir"
IsFile(p) == Exists(p) /\ meta[p].type = "file"

\* What statClean finds at each path.
Shown(m, data) ==
    IF m \notin Metas THEN Nothing ELSE IF m.type = "dir" THEN Dir ELSE [obj |-> m.obj, data |-> data]

View == [p \in Paths |-> Shown(meta[p], file[p])]

Steps == {"idle", "truncate", "write", "mkdir", "open", "dropData", "dropMeta", "move",
          "finish", "undo"}
Kinds == {"mkdir", "open", "remove", "rename", "none"}
Flags == SUBSET {"create", "excl", "trunc"}

\* The locals of a call: new is the metadata it writes, made says that its
\* OpenFile made it, cut that a system call has failed under it.
Calls == [pc : Steps, kind : Kinds, src : Paths \union {Root}, dst : Paths \union {Root},
          new : Metas \union {NoMeta}, flags : Flags, made : BOOLEAN, cut : BOOLEAN]

Idle == [pc |-> "idle", kind |-> "none", src |-> Root, dst |-> Root, new |-> NoMeta,
         flags |-> {}, made |-> FALSE, cut |-> FALSE]

TypeOK ==
    /\ meta \in [Paths -> Metas \union {NoMeta, TornMeta}]
    /\ file \in [Paths -> Ids \union {NoData}]
    /\ dir \in [Paths -> BOOLEAN]
    /\ call \in Calls
    /\ tree \in [Paths -> {Nothing, Dir} \union [obj : BOOLEAN, data : Ids \union {NoData}]]
    /\ handle \in [Users -> [node : {Exile} \union Seq(Names), id : Ids] \union {NoHandle}]
    /\ lock \in [Users -> Paths \union {NoLock}]
    /\ emptied \subseteq Paths
    /\ spoilt \in BOOLEAN
    /\ left \in 0..MaxCalls

\* Any tree of directories, files with data, and evicted files.
Init ==
    /\ meta \in [Paths -> {NoMeta, [type |-> "dir", obj |-> FALSE], [type |-> "file", obj |-> FALSE],
                           [type |-> "file", obj |-> TRUE]}]
    /\ \A p, q \in Paths : Exists(p) /\ Below(p, q) => IsDir(q)
    /\ file = [p \in Paths |-> IF IsFile(p) /\ ~meta[p].obj THEN <<"old", p>> ELSE NoData]
    /\ dir = [p \in Paths |-> IsDir(p)]
    /\ call = Idle
    /\ tree = View
    /\ handle = [u \in Users |-> NoHandle]
    /\ lock = [u \in Users |-> NoLock]
    /\ emptied = {}
    /\ spoilt = FALSE
    /\ left = MaxCalls

-----------------------------------------------------------------------------
Vacant(p) == meta[p] = NoMeta /\ file[p] = NoData /\ ~dir[p]
EmptyDir(p) == \A q \in Paths : Below(q, p) => Vacant(q)

\* ensureDir, which makes the "D." of a directory that has none.
IsParent(q) == q # Root => IsDir(q)
EnsureDir(q) == dir' = IF q = Root THEN dir ELSE [dir EXCEPT ![q] = TRUE]

\* Faulty variant of CanWLock: only a lock of the path itself is noticed.
CanWLockLeaf(p) == \A u \in Users : lock[u] # p

\* The tree lock for writing: a NodeLock reads its path and all above it.
CanWLock(p) == \A u \in Users : lock[u] # NoLock => ~AtOrBelow(lock[u], p)

Begin(locals) ==
    /\ call.pc = "idle" /\ left > 0
    /\ left' = left - 1
    /\ call' = locals
    /\ UNCHANGED <<tree, handle, lock, emptied, spoilt>>

Goto(step) == call' = [call EXCEPT !.pc = step] /\ UNCHANGED <<tree, spoilt>>

\* The call returns; trouble says that a system call has failed.
Return(trouble) ==
    /\ call' = [Idle EXCEPT !.cut = call.cut \/ trouble]
    /\ tree' = View'
    /\ spoilt' = (spoilt \/ trouble)

\* Faulty variant of UndoAfter: the metadata is left behind.
LeaveAfter(trouble) == Return(trouble)

\* The call goes on to the deferred removal of the metadata it made.
UndoAfter(trouble) ==
    /\ call' = [call EXCEPT !.pc = "undo", !.cut = call.cut \/ trouble]
    /\ spoilt' = (spoilt \/ trouble)
    /\ UNCHANGED tree

MkdirCall(p) ==
    /\ CanWLock(p)
    /\ ~Exists(p) /\ IsParent(Parent(p))
    /\ EnsureDir(Parent(p))
    /\ Begin([Idle EXCEPT !.pc = "truncate", !.kind = "mkdir", !.dst = p,
                          !.new = [type |-> "dir", obj |-> FALSE]])
    /\ UNCHANGED <<meta, file>>

\* openLocalFileClean up to the data.  An empty metadata file is none for
\* statClean, and one for O_CREATE, which then does not write it.
OpenCall(p, f) ==
    LET made == "create" \in f /\ meta[p] = NoMeta
    IN  /\ \E u \in Users : handle[u] = NoHandle
        /\ IsParent(Parent(p))
        /\ Exists(p) => ~({"create", "excl"} \subseteq f)
        /\ made \/ Exists(p)
        /\ EnsureDir(Parent(p))
        /\ Begin([Idle EXCEPT !.pc = IF made THEN "truncate" ELSE "open", !.kind = "open",
                              !.dst = p, !.flags = f, !.made = made,
                              !.new = [type |-> "file", obj |-> FALSE]])
        /\ UNCHANGED <<meta, file>>

RemoveCall(p) ==
    /\ CanWLock(p)
    /\ Exists(p)
    /\ Begin([Idle EXCEPT !.pc = "dropData", !.kind = "remove", !.dst = p])
    /\ UNCHANGED disk

\* Rename of one path to another; the locks keep it from one above or below.
RenameCall(s, t) ==
    /\ CanWLock(s) /\ CanWLock(t) /\ Apart(s, t)
    /\ Exists(s) /\ IsParent(Parent(t)) /\ ~IsDir(t)
    /\ \A p \in Paths : Below(p, s) /\ ~Vacant(p) => Reroot(p, s, t) \in Paths
    /\ EnsureDir(Parent(t))
    /\ Begin([Idle EXCEPT !.pc = IF Exists(t) THEN "dropData" ELSE "truncate",
                          !.kind = "rename", !.src = s, !.dst = t, !.new = meta[s]])
    /\ UNCHANGED <<meta, file>>

\* Rename to a name that cleanFilterPath makes the same path.
RenameInPlace(p) ==
    /\ CanWLock(p)
    /\ Exists(p)
    /\ Begin([Idle EXCEPT !.pc = "truncate", !.kind = "rename", !.src = p, !.dst = p,
                          !.new = meta[p]])
    /\ UNCHANGED disk

-----------------------------------------------------------------------------
InPlace == call.kind = "rename" /\ call.src = call.dst

\* os.WriteFile of the metadata: emptied first, then written.
TruncateMeta ==
    /\ call.pc = "truncate"
    /\ UNCHANGED <<file, dir, handle, lock, emptied, left>>
    /\ \/ /\ meta' = [meta EXCEPT ![call.dst] = TornMeta]
          /\ Goto("write")
       \/ UNCHANGED meta /\ Return(TRUE)

WriteMeta ==
    /\ call.pc = "write"
    /\ UNCHANGED <<file, dir, handle, lock, left>>
    /\ \/ /\ meta' = [meta EXCEPT ![call.dst] = call.new]
          /\ IF InPlace THEN Return(FALSE)
             ELSE Goto(IF call.kind = "rename" THEN "move" ELSE call.kind)
          /\ UNCHANGED emptied
       \/ /\ UNCHANGED meta
          /\ emptied' = IF InPlace THEN emptied \union {call.dst} ELSE emptied
          /\ Return(TRUE)

\* os.Mkdir of the data; it fails, too, for a directory that is there.
MakeData ==
    /\ call.pc = "mkdir"
    /\ UNCHANGED <<meta, file, handle, lock, emptied, left>>
    /\ \/ /\ ~dir[call.dst]
          /\ dir' = [dir EXCEPT ![call.dst] = TRUE]
          /\ Return(FALSE)
       \/ UNCHANGED dir /\ UndoAfter(~dir[call.dst])

\* The File of a directory is closed again at once.
OpenDirectory ==
    /\ call.pc = "open" /\ IsDir(call.dst)
    /\ UNCHANGED <<meta, file, handle, lock, emptied, left>>
    /\ \/ EnsureDir(call.dst) /\ Return(FALSE)
       \/ UNCHANGED dir /\ Return(TRUE)

\* Evicted data is not made anew, unless it is to be truncated.
Openable(p) ==
    \/ file[p] # NoData
    \/ "create" \in call.flags /\ (meta[p].obj => "trunc" \in call.flags)

\* Faulty variant of OpenData: the File has what was there before it was made.
OpenDataStale(u) ==
    LET p == call.dst
    IN  /\ call.pc = "open" /\ IsFile(p) /\ Openable(p)
        /\ handle[u] = NoHandle
        /\ file' = IF file[p] = NoData THEN [file EXCEPT ![p] = <<"new", left + 1>>] ELSE file
        /\ handle' = [handle EXCEPT ![u] = [node |-> p, id |-> file[p]]]
        /\ UNCHANGED <<meta, dir, lock, emptied, left>>
        /\ Return(FALSE)

OpenData(u) ==
    LET p == call.dst
    IN  /\ call.pc = "open" /\ IsFile(p) /\ Openable(p)
        /\ handle[u] = NoHandle
        /\ file' = IF file[p] = NoData THEN [file EXCEPT ![p] = <<"new", left + 1>>] ELSE file
        /\ handle' = [handle EXCEPT ![u] = [node |-> p, id |-> file'[p]]]
        /\ UNCHANGED <<meta, dir, lock, emptied, left>>
        /\ Return(FALSE)

OpenDataFails ==
    /\ call.pc = "open" /\ IsFile(call.dst)
    /\ UNCHANGED <<disk, handle, lock, emptied, left>>
    /\ IF call.made THEN UndoAfter(Openable(call.dst)) ELSE Return(Openable(call.dst))

-----------------------------------------------------------------------------
\* os.Remove of the data of the path: of what Remove is about, or of the file
\* that Rename replaces.
Removable(p) == IF IsDir(p) THEN dir[p] /\ EmptyDir(p) ELSE file[p] # NoData

\* Faulty variant of DropData: its failure is passed over.
DropDataRegardless ==
    LET p == call.dst
    IN  /\ call.pc = "dropData"
        /\ UNCHANGED <<meta, handle, lock, emptied, left>>
        /\ file' = IF Removable(p) /\ IsFile(p) THEN [file EXCEPT ![p] = NoData] ELSE file
        /\ dir' = IF Removable(p) /\ IsDir(p) THEN [dir EXCEPT ![p] = FALSE] ELSE dir
        /\ Goto("dropMeta")

DropData ==
    LET p == call.dst
    IN  /\ call.pc = "dropData"
        /\ UNCHANGED <<meta, handle, lock, emptied, left>>
        /\ \/ /\ Removable(p)
              /\ file' = IF IsDir(p) THEN file ELSE [file EXCEPT ![p] = NoData]
              /\ dir' = IF IsDir(p) THEN [dir EXCEPT ![p] = FALSE] ELSE dir
              /\ Goto("dropMeta")
           \/ UNCHANGED <<file, dir>> /\ Return(Removable(p))

\* Faulty variant of MovedTo: the nodes below stay where they are.
MovedToAlone(p, s, t) == IF p = s THEN t ELSE IF p = t THEN s ELSE p

\* treelock.Exchange of two paths, with the nodes below them.
MovedTo(p, s, t) ==
    IF AtOrBelow(p, s) THEN Reroot(p, s, t)
    ELSE IF AtOrBelow(p, t) THEN Reroot(p, t, s) ELSE p

Exchange(s, t) ==
    handle' = [u \in Users |->
        IF handle[u] = NoHandle \/ handle[u].node = Exile THEN handle[u]
        ELSE [handle[u] EXCEPT !.node = MovedTo(@, s, t)]]

ToExile(p) ==
    handle' = [u \in Users |->
        IF handle[u] = NoHandle \/ handle[u].node = Exile THEN handle[u]
        ELSE [handle[u] EXCEPT !.node = IF AtOrBelow(@, p) THEN Exile ELSE @]]

\* Then its metadata goes, and the node; Remove is done.
DropMeta ==
    /\ call.pc = "dropMeta"
    /\ UNCHANGED <<file, dir, lock, emptied, left>>
    /\ \/ /\ meta' = [meta EXCEPT ![call.dst] = NoMeta]
          /\ ToExile(call.dst)
          /\ IF call.kind = "remove" THEN Return(FALSE) ELSE Goto("truncate")
       \/ UNCHANGED <<meta, handle>> /\ Return(TRUE)

\* os.Rename replaces a directory only when that is empty.
Movable(s, t) ==
    IF call.new.type = "file" THEN file[s] # NoData
    ELSE dir[s] /\ (dir[t] => EmptyDir(t))

\* os.Rename of the data, with all that is below a directory, and the nodes.
MoveData ==
    LET s == call.src
        t == call.dst
        swap(f, none) ==
            [p \in Paths |-> IF Below(p, t) /\ Reroot(p, t, s) \in Paths THEN f[Reroot(p, t, s)]
                             ELSE IF Below(p, t) \/ Below(p, s) THEN none ELSE f[p]]
    IN  /\ call.pc = "move"
        /\ \/ /\ Movable(s, t)
              /\ IF call.new.type = "file"
                 THEN /\ file' = [file EXCEPT ![t] = file[s], ![s] = NoData]
                      /\ UNCHANGED <<meta, dir, emptied>>
                 ELSE /\ meta' = swap(meta, NoMeta)
                      /\ file' = swap(file, NoData)
                      /\ dir' = [swap(dir, FALSE) EXCEPT ![t] = TRUE, ![s] = FALSE]
                      /\ emptied' = {IF p \in {s, t} \/ MovedTo(p, s, t) \notin Paths
                                     THEN p ELSE MovedTo(p, s, t) : p \in emptied}
              /\ Exchange(s, t)
              /\ Goto("finish")
           \/ UNCHANGED <<disk, handle, emptied>> /\ UndoAfter(Movable(s, t))
        /\ UNCHANGED <<lock, left>>

\* Faulty variant of Finish: the metadata of the source stays.
FinishWithout ==
    /\ call.pc = "finish"
    /\ UNCHANGED <<disk, handle, lock, emptied, left>>
    /\ Return(FALSE)

\* The deferred removal of the metadata of the source.
Finish ==
    /\ call.pc = "finish"
    /\ UNCHANGED <<file, dir, handle, lock, emptied, left>>
    /\ \/ meta' = [meta EXCEPT ![call.src] = NoMeta] /\ Return(FALSE)
       \/ UNCHANGED meta /\ Return(TRUE)

\* The deferred removal of metadata that has been made in vain.
Undo ==
    /\ call.pc = "undo"
    /\ UNCHANGED <<file, dir, handle, lock, emptied, left>>
    /\ \/ meta' = [meta EXCEPT ![call.dst] = NoMeta] /\ Return(FALSE)
       \/ UNCHANGED meta /\ Return(TRUE)

-----------------------------------------------------------------------------
\* ReadDir and File.Readdir make the "D." of the directory they list.
ListDir(p) ==
    /\ call.pc = "idle"
    /\ IsDir(p)
    /\ EnsureDir(p)
    /\ UNCHANGED <<meta, file, call, tree, handle, lock, emptied, spoilt, left>>

Close(u) ==
    /\ handle[u] # NoHandle
    /\ handle' = [handle EXCEPT ![u] = NoHandle]
    /\ UNCHANGED <<disk, call, tree, lock, emptied, spoilt, left>>

\* Node.TryLock, of a node that stands at a path, and NodeLock.Unlock.
TryLock(u, p) ==
    /\ call.pc = "idle" /\ lock[u] = NoLock
    /\ Exists(p)
    /\ lock' = [lock EXCEPT ![u] = p]
    /\ UNCHANGED <<disk, call, tree, handle, emptied, spoilt, left>>

Unlock(u) ==
    /\ lock[u] # NoLock
    /\ lock' = [lock EXCEPT ![u] = NoLock]
    /\ UNCHANGED <<disk, call, tree, handle, emptied, spoilt, left>>

\* The process dies in a call, and the FS is opened again.
Crash ==
    /\ call.pc # "idle"
    /\ UNCHANGED <<disk, left>>
    /\ emptied' = IF InPlace /\ call.pc = "write" THEN emptied \union {call.dst} ELSE emptied
    /\ handle' = [u \in Users |-> NoHandle]
    /\ lock' = [u \in Users |-> NoLock]
    /\ Return(TRUE)

\* No call under way, and none left to make.
Quiet == call.pc = "idle" /\ left = 0 /\ UNCHANGED vars

CallOn(p) ==
    \/ MkdirCall(p) \/ RemoveCall(p) \/ RenameInPlace(p)
    \/ \E f \in OpenFlags : OpenCall(p, f)
    \/ \E t \in Paths : RenameCall(p, t)

SystemCall ==
    \/ TruncateMeta \/ WriteMeta \/ MakeData \/ OpenDirectory \/ OpenDataFails
    \/ DropData \/ DropMeta \/ MoveData \/ Finish \/ Undo
    \/ \E u \in Users : OpenData(u)

Next ==
    \/ \E p \in Paths : CallOn(p) \/ ListDir(p)
    \/ SystemCall
    \/ \E u \in Users :
          \/ Close(u) \/ Unlock(u)
          \/ \E p \in Paths : TryLock(u, p)
    \/ Crash
    \/ Quiet

Spec == Init /\ [][Next]_vars

-----------------------------------------------------------------------------
\* Metadata is written before the data it is of and removed after it, so
\* whatever fails and wherever the process dies, no data is without the
\* metadata through which it is found.  Only a Rename in place, which
\* rewrites metadata that has data, may lose it.
DataHasMetadata ==
    \A p \in Paths :
        \/ p \in emptied
        \/ InPlace /\ p = call.dst
        \/ (file[p] # NoData => IsFile(p)) /\ (dir[p] => IsDir(p))

\* An open File reads the data of the path its node stands at, through
\* renames of the file and of the directories above it; one in exile reads
\* data that is gone from the tree.  A removal that failed half way leaves a
\* node at a path without its data; and once a directory has lost its
\* metadata, a file renamed to its path takes the nodes of its files along,
\* whose data stays and may then be renamed to anywhere.
FilesFollowTheirNode ==
    call.pc = "idle" /\ emptied = {} =>
        \A u \in Users : handle[u] # NoHandle =>
            \/ handle[u].node \in Paths /\ file[handle[u].node] = handle[u].id
            \/ /\ spoilt \/ handle[u].node = Exile
               /\ \A p \in Paths : file[p] # handle[u].id

\* While nothing has failed a file has data or an object to fetch it from, a
\* directory has its entries, and no data is in two files.
WholeUntilSpoilt ==
    call.pc = "idle" /\ ~spoilt =>
        \A p \in Paths :
            /\ IsFile(p) => file[p] # NoData \/ meta[p].obj
            /\ IsDir(p) => dir[p]
            /\ meta[p] # TornMeta
            /\ \A q \in Paths \ {p} : file[p] # NoData => file[p] # file[q]

\* What has been looked up under a NodeLock stays where it is, and so do the
\* directories above it, until the lock is given back or the process dies.
LockedPathsStay ==
    [][\A u \in Users, p \in Paths :
          lock[u] # NoLock /\ lock'[u] = lock[u] /\ AtOrBelow(lock[u], p) =>
              \/ tree[p] = Nothing
              \/ tree'[p] = tree[p]
              \/ tree[p] # Dir /\ tree'[p] = [obj |-> tree[p].obj, data |-> file'[p]]
                 /\ tree[p].data = NoData]_vars

\* The calls are one step each on the tree that Stat and ReadDir show, or
\* change nothing; one that is cut short changes only its own paths.
Tree == INSTANCE FileTree WITH
            from <- IF call.kind = "rename" THEN call.src ELSE call.dst,
            to <- call.dst, cut <- call.cut

ImplementsFileTree == Tree!Spec

-----------------------------------------------------------------------------
\* What makes the properties above inductive: what a call knows at each of its
\* steps, of its locals, of the disk, and of the tree it will be seen to change.
StepsOf == [none |-> {"idle"},
            mkdir |-> {"truncate", "write", "mkdir", "undo"},
            open |-> {"truncate", "write", "open", "undo"},
            remove |-> {"dropData", "dropMeta"},
            rename |-> {"dropData", "dropMeta", "truncate", "write", "move", "finish", "undo"}]

Renaming == call.kind = "rename" /\ ~InPlace

CallShape ==
    /\ call.pc \in StepsOf[call.kind]
    /\ call.kind # "none" => call.dst \in Paths /\ left < MaxCalls
    /\ call.kind = "mkdir" => call.new = [type |-> "dir", obj |-> FALSE]
    /\ call.kind = "open" => call.new = [type |-> "file", obj |-> FALSE]
    /\ call.kind = "rename" => call.src \in Paths /\ call.new \in Metas
    /\ Renaming => Apart(call.src, call.dst)
    /\ InPlace => call.pc \in {"truncate", "write"}
    /\ call.made => call.kind = "open" /\ "create" \in call.flags
    /\ call.kind = "open" /\ ~call.made => call.pc = "open"

\* There is nothing at a path but its metadata, and nothing below it.
Bare(p) == p \in emptied \/ (file[p] = NoData /\ ~dir[p] /\ EmptyDir(p))

\* The steps with metadata at call.dst, or none, but no data.
Bared ==
    \/ call.pc \in {"truncate", "write"} /\ ~InPlace
    \/ call.pc \in {"mkdir", "dropMeta", "move", "undo"}
    \/ call.pc = "open" /\ call.made

Fits(m, p) == (file[p] # NoData => m.type = "file") /\ (dir[p] => m.type = "dir")

DiskShape ==
    /\ Bared => Bare(call.dst)
    /\ call.pc = "finish" => Bare(call.src)
    /\ call.pc = "truncate" => IF InPlace THEN meta[call.dst] = call.new ELSE ~Exists(call.dst)
    /\ call.pc = "write" => meta[call.dst] = TornMeta
    /\ InPlace => call.dst \in emptied \/ Fits(call.new, call.dst)
    /\ call.pc \in {"mkdir", "move"} \/ (call.made /\ call.pc = "open") =>
          meta[call.dst] = call.new
    /\ call.pc \in {"open", "dropData", "dropMeta"} => Exists(call.dst)
    /\ Renaming /\ call.pc \in {"dropData", "dropMeta"} => IsFile(call.dst)
    /\ call.kind = "mkdir" \/ call.made \/ Renaming => IsParent(Parent(call.dst))
    /\ Renaming => meta[call.src] = call.new
    /\ Renaming /\ call.pc # "finish" =>
          \A p \in Paths : Below(p, call.src) /\ ~Vacant(p) => Reroot(p, call.src, call.dst) \in Paths

\* What is there stands in directories.
Rooted ==
    \A p, q \in Paths : Below(p, q) /\ ~Vacant(p) =>
        IsDir(q) \/ q \in emptied \/ (InPlace /\ q = call.dst /\ call.new.type = "dir")

\* No data is in two files, and new data is not that of an earlier call.
Begun == IF call.pc = "idle" THEN left ELSE left + 1

DataUnique ==
    /\ \A p, q \in Paths : p # q /\ file[p] # NoData => file[p] # file[q]
    /\ \A n \in 1..MaxCalls :
          /\ \A p \in Paths : file[p] = <<"new", n>> => n > Begun
          /\ \A u \in Users : handle[u] # NoHandle /\ handle[u].id = <<"new", n>> => n > Begun

\* Between DropData and DropMeta a node stands at a path without data.
NodesFollowed ==
    emptied = {} =>
        \A u \in Users : handle[u] # NoHandle =>
            \/ handle[u].node \in Paths /\ file[handle[u].node] = handle[u].id
            \/ /\ \/ spoilt \/ handle[u].node = Exile
                  \/ call.pc = "dropMeta" /\ handle[u].node = call.dst
               /\ \A p \in Paths : file[p] # handle[u].id

Whole(p) ==
    /\ IsFile(p) => file[p] # NoData \/ meta[p].obj
    /\ IsDir(p) => dir[p]
    /\ meta[p] # TornMeta

WholeElsewhere ==
    ~spoilt =>
        /\ emptied = {}
        /\ \A p \in Paths :
              \/ p = call.dst /\ (Bared \/ call.pc = "write")
              \/ p = call.src /\ call.pc = "finish"
              \/ Whole(p)
        /\ call.pc = "write" /\ InPlace =>
              /\ call.new.type = "file" => file[call.dst] # NoData \/ call.new.obj
              /\ call.new.type = "dir" => dir[call.dst]

LocksKept ==
    call.pc # "idle" /\ call.kind # "open" =>
        CanWLock(call.dst) /\ (call.kind = "rename" => CanWLock(call.src))

\* There is a file with data at a path in the tree.
HasData(p) == tree[p] \notin {Nothing, Dir} /\ tree[p].data # NoData

\* There is such a file, or a directory with nothing below it.
Deletable(p) ==
    /\ tree[p] = Dir \/ HasData(p)
    /\ tree[p] = Dir => \A q \in Paths : Below(q, p) => tree[q] = Nothing

\* What is at p in the tree once call.src is call.dst, with all below it.
Along(p, q) == IF tree[call.src] = Dir THEN AtOrBelow(p, q) ELSE p = q
MovedEntry(p) ==
    IF Along(p, call.dst)
    THEN LET q == Reroot(p, call.dst, call.src) IN IF q \in Paths THEN tree[q] ELSE Nothing
    ELSE IF Along(p, call.src) THEN Nothing ELSE tree[p]

TreeShape ==
    /\ call.pc = "idle" => tree = View
    /\ call.pc \notin {"idle", "finish"} => \A p \in Paths \ {call.dst} : tree[p] = View[p]
    /\ call.pc = "dropData" \/ (call.pc = "open" /\ ~call.made) => tree[call.dst] = View[call.dst]
    /\ InPlace => tree[call.dst] = Shown(call.new, file[call.dst])
    /\ call.kind = "mkdir" \/ call.made => tree[call.dst] = Nothing
    /\ (call.kind = "mkdir" \/ call.made \/ Renaming) /\ Parent(call.dst) # Root =>
          tree[Parent(call.dst)] = Dir
    /\ call.kind = "remove" => tree[call.dst] # Nothing
    /\ call.kind = "remove" /\ call.pc = "dropMeta" => Deletable(call.dst)
    /\ Renaming =>
          /\ tree[call.src] # Nothing
          /\ call.pc # "dropData" => tree[call.dst] = Nothing \/ HasData(call.dst)
    /\ call.pc = "undo" /\ ~call.cut => call.kind # "open" /\ (Renaming => ~HasData(call.src))
    /\ call.pc = "finish" =>
          /\ tree[call.src] = Dir \/ HasData(call.src)
          /\ \A p \in Paths \ {call.src} : View[p] = MovedEntry(p)

\* The inductive invariant.
DirInv ==
    /\ TypeOK /\ CallShape /\ DataHasMetadata /\ Rooted /\ DiskShape
    /\ DataUnique /\ NodesFollowed /\ WholeElsewhere /\ LocksKept /\ TreeShape
=============================================================================
