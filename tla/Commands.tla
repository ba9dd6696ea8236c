------------------------------- MODULE Commands -------------------------------
(***************************************************************************)
(* The FS as the resurrent command uses it.  Every command opens the FS,   *)
(* makes its calls and closes it, and the lock file lets one command run   *)
(* at a time.  upload and download walk the tree and hand each path to a   *)
(* pool of workers; evict walks it alone; touch, mv and rm make one call;  *)
(* mount serves file calls of any number of processes.                     *)
(***************************************************************************)
EXTENDS Resurrent

CONSTANTS
    Kinds,          \* the commands that are run
    TouchFlags      \* the flags touch opens a file with; a mount uses OpenFlags

ASSUME KindAssumption ==
    /\ Kinds \subseteq {"upload", "download", "evict", "touch", "mv", "rm", "mount"}
    /\ TouchFlags \subseteq Flags

\* The kernel asks the mount to truncate a file it knows by a request of its
\* own, and for one it does not know O_TRUNC adds nothing to O_CREATE.
ASSUME MountAssumption == \A f \in OpenFlags : "trunc" \notin f

VARIABLES
    command,    \* the command that has the lock file
    walked      \* the paths the walk has handed out, with the engine

commandVars == <<command, walked>>
allVars == <<vars, commandVars>>

CommandInit == Init /\ command = "none" /\ walked = {}

\* FS.Close waits for every task before it gives the lock file back, and the
\* command has returned from its calls.
Finished ==
    /\ \A c \in Clients : call[c] = Idle /\ handle[c] = NoHandle
    /\ \A k \in TaskKeys : task[k] = NoTask

Run(kind) ==
    /\ Finished
    /\ left > 0
    /\ command' = kind
    /\ walked' = {}
    /\ UNCHANGED vars

\* The walk hands out a path once; a worker that has it takes it to one
\* engine after the other.
HandOut(p, s) ==
    /\ <<p, s>> \notin walked
    /\ \A c \in Clients : call[c].path # p
    /\ walked' = walked \union {<<p, s>>}

Alone == \A c \in Clients : call[c].pc = "idle"

\* touch, mv and rm make their one call.
Once(p) ==
    /\ walked = {}
    /\ walked' = {<<p, Base64>>}

Upload1(c, p) ==
    command = "upload" /\ \E e \in Engines : HandOut(p, e) /\ UploadCall(c, p, e)
Download1(c, p) == command = "download" /\ HandOut(p, Base64) /\ DownloadCall(c, p)
Evict1(c, p) == command = "evict" /\ Alone /\ HandOut(p, Base64) /\ EvictCall(c, p)
Touch(c, p) ==
    /\ command = "touch" /\ Once(p)
    /\ \E f \in TouchFlags : OpenFile(c, p, f) \/ OpenFileDownloads(c, p, f)
Mv(c, p) ==
    /\ command = "mv" /\ Once(p)
    /\ \E t \in Paths : Rename(c, p, t) \/ RenameFails(c, p, t)
Rm(c, p) == command = "rm" /\ Once(p) /\ Remove(c, p)

CommandCall(c, p) ==
    \/ Upload1(c, p) \/ Download1(c, p) \/ Evict1(c, p)
    \/ Touch(c, p) \/ Mv(c, p) \/ Rm(c, p)

\* A mount serves whatever calls come, until it is stopped.
Mount(c) == command = "mount" /\ FileCall(c)

CommandNext ==
    \/ \E kind \in Kinds : Run(kind)
    \/ \E c \in Clients, p \in Paths : CommandCall(c, p) /\ UNCHANGED command
    \/ \E c \in Clients : Mount(c) /\ UNCHANGED commandVars
    \/ \E c \in Clients : command = "touch" /\ Close(c) /\ UNCHANGED commandVars
    \/ Progress /\ UNCHANGED commandVars
    \/ Quiet /\ UNCHANGED commandVars

CommandSpec == CommandInit /\ [][CommandNext]_allVars

-----------------------------------------------------------------------------
\* Evict drops a content that the object of the file gives back: when data
\* goes and the metadata stays, some storage of the object has the content.
EvictKeepsContent ==
    [][\A p \in Paths :
          Exists(p) /\ Present(p) /\ ~Present(p)' /\ meta'[p] = meta[p] =>
              /\ Backed(meta[p].obj)
              /\ \E s \in Schemes : objs[meta[p].obj].at[s] = data[p].content]_allVars

\* A download task that succeeds leaves the content its object was named
\* after, to a file that still refers to that object; only the content may be
\* another on the fast path under a mount, if a File opened on what the task
\* was writing has changed it.
DownloadRestores ==
    [][\A k \in TaskKeys :
          TaskMove(k) \/ TaskInlineTime(k) =>
              /\ meta[k[1]].obj = k[2]
              /\ \/ data'[k[1]].content = k[2][2]
                 \/ TaskInlineTime(k) /\ command = "mount"]_allVars

\* The metadata an upload writes is about the file on disk at that moment,
\* although it was read and measured several steps ago.
SnapshotIsCurrent ==
    [][\A c \in Clients :
          UploadWriteMeta(c) =>
              LET p == call[c].path
              IN  /\ Present(p) /\ data[p].content = call[c].obj[2]
                  /\ data[p].mtime = meta'[p].mtime]_allVars

\* A File reads and writes the file at the path its node stands at: Rename
\* takes both along, Remove and a replacing Rename exile both, and no
\* download puts another file in its place.
FilesFollowTheirNode ==
    \A c \in Clients : handle[c] # NoHandle => handle[c].node = handle[c].inode

-----------------------------------------------------------------------------
\* What makes the properties above inductive.  The calls of a command are the
\* only ones under way while it has the lock file.
UploadAt == OwnsBucketAt \union {"uploadStat", "uploadHash", "uploadLock", "uploadMatch"}
EvictAt == {"evictLock", "evictLoad", "evictHash", "evictRemove"}

StepsOf(kind) ==
    CASE kind = "upload" -> UploadAt
      [] kind = "evict" -> EvictAt
      [] kind = "download" -> {"downloadWait", "downloadReturn"}
      [] kind \in {"touch", "mount"} -> {"openWait", "openAgain"}
      [] OTHER -> {}

OwnCallsOnly ==
    /\ \A c \in Clients : call[c].pc # "idle" => call[c].pc \in StepsOf(command)
    /\ \A k \in TaskKeys : task[k] # NoTask => command \in {"download", "touch", "mount"}
    /\ \A c \in Clients : handle[c] # NoHandle => command \in {"touch", "mount"}
    /\ command = "touch" /\ walked = {} => Finished

\* A record holds nothing but what the object is named after.
Holds(rec, id) == \A s \in Schemes : rec.at[s] \in {NoContent, id[2]}

\* The file of an upload stays as it was when the upload first looked at it,
\* and all that is to be saved of it is what was hashed.
UploadCurrent(c) ==
    LET p == call[c].path
        id == call[c].obj
    IN  /\ call[c].pc \in UploadAt \ {"uploadStat"} =>
              Present(p) /\ data[p].mtime = call[c].mtime
        /\ call[c].pc \in UploadAt \ {"uploadStat", "uploadHash"} => data[p].content = id[2]
        /\ call[c].pc = "uploadTransfer" => call[c].enc = id[2]
        /\ call[c].pc \in SavesBucketAt =>
              \A x \in ObjIds :
                  BucketOf[x] = BucketOf[id] /\ call[c].bkt[x] # NoRecord => Holds(call[c].bkt[x], x)

\* The file of an eviction stays as it was checked.
EvictCurrent(c) ==
    LET p == call[c].path
    IN  call[c].pc \in EvictAt =>
            /\ mtx = c
            /\ Exists(p) /\ Present(p) /\ meta[p].obj = call[c].obj
            /\ call[c].pc \in {"evictHash", "evictRemove"} => objs[call[c].obj] # NoRecord
            /\ call[c].pc = "evictRemove" => data[p].content = call[c].obj[2]

\* A call that needs an object keeps its path locked, also after the task.
WaiterLocks(c) ==
    /\ call[c].pc \in {"downloadWait", "downloadReturn"} => call[c].lock = "W"
    /\ call[c].pc \in {"openWait", "openAgain"} => call[c].lock = "R" /\ "trunc" \notin call[c].flags

\* A task writes a destination that has no data but its own and refers to its
\* object until the end, and leaves the data there.
TaskCurrent(k) ==
    task[k] # NoTask =>
        /\ task[k].step # "done" => Exists(k[1]) /\ meta[k[1]].obj = k[2]
        /\ task[k].step \in {"inlineWrite", "inlineTime"} => Present(k[1])
        /\ task[k].step \notin {"inlineWrite", "inlineTime", "done"} => ~Present(k[1])
        /\ command # "mount" =>
              /\ task[k].step = "inlineWrite" => data[k[1]].content = Torn
              /\ task[k].step = "inlineTime" => data[k[1]].content = k[2][2]
        /\ task[k].step = "move" => task[k].got = k[2][2]
        /\ task[k].step = "done" /\ task[k].ok /\ Exists(k[1]) /\ meta[k[1]].obj # NoObj =>
              Present(k[1])

\* An open file is linked with its metadata, at the path of its node.
HandleLinked(c) ==
    handle[c] # NoHandle =>
        /\ handle[c].node = handle[c].inode
        /\ handle[c].inode # Exile => Exists(handle[c].inode) /\ Present(handle[c].inode)

\* The inductive invariant.
CommandInv ==
    /\ IInv /\ TaskHoldsPath
    /\ OwnCallsOnly
    /\ ObjectIntegrity /\ DownloadedBeforeReopen
    /\ \A c \in Clients : UploadCurrent(c) /\ EvictCurrent(c) /\ WaiterLocks(c) /\ HandleLinked(c)
    /\ \A k \in TaskKeys : TaskCurrent(k)
=============================================================================
