-------------------------------- MODULE Fuse --------------------------------
(***************************************************************************)
(* The FUSE adapter: the Nodes of node.go, which hold items of the tree    *)
(* lock, and the map fs.m from an item to its Node, for one directory.     *)
(* The bridge of go-fuse and the kernel are external: the tree of inodes   *)
(* with their counts of lookups, and the order in which the kernel lets    *)
(* calls run.  Of Create, Mkdir, Unlink and Rename one runs at a time, as  *)
(* each locks the directory.  A name that is known is looked up again when *)
(* it is used, since the mount gives its entries no time to live, and that *)
(* takes no lock: a Lookup runs beside any of them.  FORGET comes whenever *)
(* the kernel drops an inode.  An inode and the adapter's Node are one     *)
(* object.                                                                 *)
(***************************************************************************)
EXTENDS Naturals, FiniteSets

CONSTANTS
    Names,      \* names in the directory
    Users,      \* the goroutines that serve the kernel's requests
    MaxItems,   \* bound on the items that are allocated
    MaxNodes,   \* bound on the Nodes that are made
    MaxCalls,   \* bound on the requests for names, and on the files opened
    Exile, None

Items == 1..MaxItems
Nodes == 1..MaxNodes
Entries == Names \union {Exile}    \* names of children; a file that was removed has ""

ASSUME FuseAssumption ==
    /\ MaxItems \in Nat /\ MaxNodes \in Nat /\ MaxCalls \in Nat
    /\ IsFiniteSet(Users)
    /\ Exile # None
    /\ {Exile, None} \intersect (Names \union Items \union Nodes \union Users) = {}
    /\ None \notin [item : Items, node : Nodes]

VARIABLES
    tree,       \* the names that have files
    item,       \* items of the tree lock: where they stand, references to them
    leaked,     \* references nobody will give back
    node,       \* the Nodes: their item, whether they hold it, the kernel's lookups
    m,          \* fs.m
    child,      \* the children of the directory's inode, by their names
    stale,      \* names whose child was hung there by a call that came late
    inodeMtx,   \* who holds fs.inodeMtx
    call,       \* the locals of the requests
    handle,     \* the file a request has left open
    forget,     \* Nodes the bridge has dropped, and where OnForget is
    left        \* requests and openings that may still be made

vars == <<tree, item, leaked, node, m, child, stale, inodeMtx, call, handle, forget, left>>

\* A call comes late once the file is moved or removed whose name, stat, it
\* has read (history: the code does not know).
Idle == [pc |-> "idle", op |-> "none", name |-> None, to |-> None, item |-> None, node |-> None,
         stat |-> None, late |-> FALSE]
Ops == {"lookup", "create", "mkdir", "unlink", "rename"}

TypeOK ==
    /\ tree \subseteq Names
    /\ item \in [Items -> [pos : Names \union {Exile, None}, refs : Nat]]
    /\ leaked \in [Items -> Nat]
    /\ node \in [Nodes -> [item : Items \union {None}, held : BOOLEAN, lookups : Nat]]
    /\ m \in [Items -> Nodes \union {None}]
    /\ child \in [Entries -> Nodes \union {None}]
    /\ stale \subseteq Entries
    /\ inodeMtx \in Users \union {None}
    /\ call \in [Users ->
           [pc : {"idle", "open", "derive", "stat", "child", "make", "add", "close", "count",
                  "lock", "change", "relink"},
            op : Ops \union {"none"}, name : Names \union {None}, to : Names \union {None},
            item : Items \union {None}, node : Nodes \union {None},
            stat : Entries \union {None}, late : BOOLEAN]]
    /\ handle \in [Users -> [item : Items, node : Nodes] \union {None}]
    /\ forget \in [Nodes -> {"none", "delete", "free"}]
    /\ left \in 0..MaxCalls

Init ==
    /\ tree \in SUBSET Names
    /\ item = [i \in Items |-> [pos |-> None, refs |-> 0]]
    /\ leaked = [i \in Items |-> 0]
    /\ node = [n \in Nodes |-> [item |-> None, held |-> FALSE, lookups |-> 0]]
    /\ m = [i \in Items |-> None]
    /\ child = [x \in Entries |-> None]
    /\ stale = {}
    /\ inodeMtx = None
    /\ call = [c \in Users |-> Idle]
    /\ handle = [c \in Users |-> None]
    /\ forget = [n \in Nodes |-> "none"]
    /\ left = MaxCalls

-----------------------------------------------------------------------------
\* The tree lock (external): the item that stands at a name, or a new one.
StandsAt(i, x) == item[i].pos = x /\ item[i].refs > 0
Unused(i) == item[i].pos = None
Room == Cardinality({n \in Nodes : node[n].item = None}) >= Cardinality(Users)
Allocated(i, x) ==
    IF \E j \in Items : StandsAt(j, x) THEN StandsAt(i, x)
    ELSE Unused(i) /\ \A j \in Items : Unused(j) => i <= j

Retain(i) == item' = [item EXCEPT ![i].refs = @ + 1]
Free(i) == item' = [item EXCEPT ![i].refs = @ - 1]

At(c, pc) == call[c].pc = pc
Goto(c, pc) == call' = [call EXCEPT ![c].pc = pc]
Done(c) == call' = [call EXCEPT ![c] = Idle]

\* The kernel (external): of the requests that change names one at a time.
Alone == \A d \in Users : call[d].op \in {"none", "lookup"}

Request(c, op, x, y) ==
    /\ At(c, "idle") /\ handle[c] = None
    /\ left > 0 /\ left' = left - 1
    /\ call' = [call EXCEPT ![c] =
           [Idle EXCEPT !.pc = IF op \in {"unlink", "rename"} THEN "lock" ELSE "open",
                        !.op = op, !.name = x, !.to = y]]
    /\ UNCHANGED <<tree, item, leaked, node, m, child, stale, inodeMtx, handle, forget>>

Lookup(c, x) == Request(c, "lookup", x, None)
Create(c, x) == Alone /\ Request(c, "create", x, None)
Mkdir(c, x) == Alone /\ Request(c, "mkdir", x, None)
Unlink(c, x) == Alone /\ Request(c, "unlink", x, None)
Rename(c, x, y) == Alone /\ x # y /\ Request(c, "rename", x, y)

-----------------------------------------------------------------------------
\* OpenFile, after FS.Mkdir in a Mkdir, which takes none that is there.
OpenFile(c, i) ==
    LET x == call[c].name
    IN  /\ At(c, "open")
        /\ \/ call[c].op = "lookup" /\ x \in tree /\ UNCHANGED tree
           \/ call[c].op = "create" /\ tree' = tree \union {x}
           \/ call[c].op = "mkdir" /\ x \notin tree /\ tree' = tree \union {x}
        /\ Allocated(i, x) /\ Room
        /\ item' = [item EXCEPT ![i] = [pos |-> x, refs |-> @.refs + 1]]
        /\ call' = [call EXCEPT ![c].item = i,
               ![c].pc = IF call[c].op = "create" THEN "derive" ELSE "stat"]
        /\ UNCHANGED <<leaked, node, m, child, stale, inodeMtx, handle, forget, left>>

\* There is no such file, or there is one; or the file cannot be opened.
OpenFileFails(c) ==
    /\ At(c, "open")
    /\ Done(c)
    /\ UNCHANGED <<tree, item, leaked, node, m, child, stale, inodeMtx, handle, forget, left>>

\* Create derives a Node for itself, which it frees in the end, and one for
\* the attributes, which nobody frees.
DeriveForAttr(c) ==
    /\ At(c, "derive")
    /\ Retain(call[c].item)
    /\ leaked' = [leaked EXCEPT ![call[c].item] = @ + 1]
    /\ Goto(c, "stat")
    /\ UNCHANGED <<tree, node, m, child, stale, inodeMtx, handle, forget, left>>

\* childInodeForFile: the name comes from File.Stat, before inodeMtx; that of
\* a file that was removed is empty.
StatName(c) ==
    /\ At(c, "stat")
    /\ call' = [call EXCEPT ![c].stat = item[call[c].item].pos, ![c].pc = "child"]
    /\ UNCHANGED <<tree, item, leaked, node, m, child, stale, inodeMtx, handle, forget, left>>

\* The metadata cannot be read, there or where Create does it on its own
\* before: the file is closed.
StatFails(c) ==
    /\ At(c, "derive") \/ At(c, "stat")
    /\ Free(call[c].item)
    /\ Done(c)
    /\ UNCHANGED <<tree, leaked, node, m, child, stale, inodeMtx, handle, forget, left>>

\* GetChild, under inodeMtx; what a late call has hung there comes late too.
GetChild(c) ==
    LET x == call[c].stat
        n == child[x]
    IN  /\ At(c, "child") /\ inodeMtx = None
        /\ IF n = None THEN inodeMtx' = c ELSE UNCHANGED inodeMtx
        /\ call' = [call EXCEPT ![c].node = n, ![c].pc = IF n = None THEN "make" ELSE "close",
                               ![c].late = @ \/ (n # None /\ x \in stale)]
        /\ UNCHANGED <<tree, item, leaked, node, m, child, stale, handle, forget, left>>

\* Faulty variant of CreateNode: the reference of a Node that is not used is
\* not given back.
CreateNodeKept(c, n) ==
    LET i == call[c].item
    IN  /\ At(c, "make")
        /\ IF m[i] # None THEN n = m[i] /\ UNCHANGED <<node, m>>
           ELSE /\ node[n].item = None /\ \A k \in 1..(n - 1) : node[k].item # None
                /\ node' = [node EXCEPT ![n] = [item |-> i, held |-> TRUE, lookups |-> 0]]
                /\ m' = [m EXCEPT ![i] = n]
        /\ Retain(i)
        /\ call' = [call EXCEPT ![c].node = n, ![c].pc = "add"]
        /\ UNCHANGED <<tree, leaked, child, stale, inodeMtx, handle, forget, left>>

\* createNode of a Node that is derived from the file: LoadOrStore.
CreateNode(c, n) ==
    LET i == call[c].item
    IN  /\ At(c, "make")
        /\ IF m[i] # None THEN n = m[i] /\ UNCHANGED <<item, node, m>>
           ELSE /\ node[n].item = None /\ \A k \in 1..(n - 1) : node[k].item # None
                /\ node' = [node EXCEPT ![n] = [item |-> i, held |-> TRUE, lookups |-> 0]]
                /\ m' = [m EXCEPT ![i] = n]
                /\ Retain(i)
        /\ call' = [call EXCEPT ![c].node = n, ![c].pc = "add"]
        /\ UNCHANGED <<tree, leaked, child, stale, inodeMtx, handle, forget, left>>

\* A child under a name is as late as the call that hangs it there, and one
\* under another name than the call's file had is late.
Hang(c, x) ==
    /\ child' = [child EXCEPT ![x] = call[c].node]
    /\ stale' = IF call[c].late \/ call[c].stat # x THEN stale \union {x} ELSE stale \ {x}

AddChild(c) ==
    /\ At(c, "add")
    /\ Hang(c, call[c].stat)
    /\ inodeMtx' = None
    /\ Goto(c, "close")
    /\ UNCHANGED <<tree, item, leaked, node, m, handle, forget, left>>

\* Lookup and Mkdir close the file, Create hands it to the kernel.
CloseFile(c) ==
    /\ At(c, "close")
    /\ IF call[c].op = "create" THEN UNCHANGED item ELSE Free(call[c].item)
    /\ Goto(c, "count")
    /\ UNCHANGED <<tree, leaked, node, m, child, stale, inodeMtx, handle, forget, left>>

\* The bridge (external) counts the lookup and makes sure of the child.
CountLookup(c) ==
    LET n == call[c].node
    IN  /\ At(c, "count")
        /\ node' = [node EXCEPT ![n].lookups = @ + 1]
        /\ Hang(c, call[c].name)
        /\ handle' = IF call[c].op = "create"
                     THEN [handle EXCEPT ![c] = [item |-> call[c].item, node |-> n]] ELSE handle
        /\ Done(c)
        /\ UNCHANGED <<tree, item, leaked, m, inodeMtx, forget, left>>

-----------------------------------------------------------------------------
\* unlinkCheck and Rename open and close the file under inodeMtx, to have the
\* name it has; File.Close twice frees once.
LockInodes(c) ==
    /\ At(c, "lock") /\ inodeMtx = None
    /\ call[c].name \in tree
    /\ inodeMtx' = c
    /\ Goto(c, "change")
    /\ UNCHANGED <<tree, item, leaked, node, m, child, stale, handle, forget, left>>

\* There is no such file.
LockInodesFails(c) ==
    /\ At(c, "lock") /\ inodeMtx = None
    /\ Done(c)
    /\ UNCHANGED <<tree, item, leaked, node, m, child, stale, inodeMtx, handle, forget, left>>

\* FS.Remove and FS.Rename, with treelock.Exchange.
Change(c) ==
    LET x == call[c].name
        y == call[c].to
        late(d) == d # c /\ call[d].stat # None /\ call[d].stat \in {x, y}
        moved(pos) == CASE pos = x -> IF call[c].op = "rename" THEN y ELSE Exile
                        [] pos = y /\ pos # None -> Exile
                        [] OTHER -> pos
    IN  /\ At(c, "change")
        /\ tree' = (tree \ {x}) \union (IF call[c].op = "rename" THEN {y} ELSE {})
        /\ item' = [i \in Items |->
               IF item[i].refs > 0 THEN [item[i] EXCEPT !.pos = moved(@)] ELSE item[i]]
        /\ call' = [d \in Users |-> IF d = c THEN [call[d] EXCEPT !.pc = "relink"]
                                   ELSE [call[d] EXCEPT !.late = @ \/ late(d)]]
        /\ UNCHANGED <<leaked, node, m, child, stale, inodeMtx, handle, forget, left>>

\* A lock, or the system, refuses: nothing has changed.
ChangeFails(c) ==
    /\ At(c, "change")
    /\ inodeMtx' = None
    /\ Done(c)
    /\ UNCHANGED <<tree, item, leaked, node, m, child, stale, handle, forget, left>>

\* Faulty variant of Relink: a Rename leaves the child under its old name.
RelinkUnlinkOnly(c) ==
    LET x == call[c].name
    IN  /\ At(c, "relink")
        /\ child' = IF call[c].op = "rename" THEN child ELSE [child EXCEPT ![x] = None]
        /\ stale' = stale \ {x, call[c].to}
        /\ inodeMtx' = None
        /\ Done(c)
        /\ UNCHANGED <<tree, item, leaked, node, m, handle, forget, left>>

\* RmChild, or MvChild with overwrite.
Relink(c) ==
    LET x == call[c].name
    IN  /\ At(c, "relink")
        /\ child' = IF call[c].op = "rename"
                    THEN [child EXCEPT ![x] = None, ![call[c].to] = child[x]]
                    ELSE [child EXCEPT ![x] = None]
        /\ stale' = (stale \ {x, call[c].to}) \union
               (IF call[c].op = "rename" /\ x \in stale THEN {call[c].to} ELSE {})
        /\ inodeMtx' = None
        /\ Done(c)
        /\ UNCHANGED <<tree, item, leaked, node, m, handle, forget, left>>

\* Node.open, for an inode the kernel knows.
Open(c, n) ==
    LET i == node[n].item
    IN  /\ At(c, "idle") /\ handle[c] = None
        /\ left > 0 /\ left' = left - 1
        /\ node[n].lookups > 0 /\ node[n].held /\ item[i].pos \in tree
        /\ Retain(i)
        /\ handle' = [handle EXCEPT ![c] = [item |-> i, node |-> n]]
        /\ UNCHANGED <<tree, leaked, node, m, child, stale, inodeMtx, call, forget>>

\* File.Release
Release(c) ==
    /\ handle[c] # None
    /\ Free(handle[c].item)
    /\ handle' = [handle EXCEPT ![c] = None]
    /\ UNCHANGED <<tree, leaked, node, m, child, stale, inodeMtx, call, forget, left>>

-----------------------------------------------------------------------------
\* Faulty variant of Forget: OnForget runs every time.
ForgetAgain(n) ==
    /\ node[n].lookups > 0
    /\ \A c \in Users :
          /\ handle[c] # None => handle[c].node # n
          /\ call[c].op \in {"unlink", "rename"} =>
                 \A x \in {call[c].name, call[c].to} \ {None} : child[x] # n
    /\ node' = [node EXCEPT ![n].lookups = 0]
    /\ child' = [x \in Entries |-> IF child[x] = n THEN None ELSE child[x]]
    /\ stale' = {x \in stale : child[x] # n}
    /\ forget' = [forget EXCEPT ![n] = "delete"]
    /\ UNCHANGED <<tree, item, leaked, m, inodeMtx, call, handle, left>>

\* The bridge (external) forgets an inode that the kernel does not use any
\* more; no lock of the adapter keeps it from that.
Forget(n) ==
    /\ node[n].lookups > 0
    /\ \A c \in Users :
          /\ handle[c] # None => handle[c].node # n
          /\ call[c].op \in {"unlink", "rename"} =>
                 \A x \in {call[c].name, call[c].to} \ {None} : child[x] # n
    /\ node' = [node EXCEPT ![n].lookups = 0]
    /\ child' = [x \in Entries |-> IF child[x] = n THEN None ELSE child[x]]
    /\ stale' = {x \in stale : child[x] # n}
    /\ forget' = [forget EXCEPT ![n] = IF @ = "none" /\ node[n].held THEN "delete" ELSE @]
    /\ UNCHANGED <<tree, item, leaked, m, inodeMtx, call, handle, left>>

\* Faulty variant of DeleteNode: fs.m keeps the Node.
KeepNode(n) ==
    /\ forget[n] = "delete"
    /\ forget' = [forget EXCEPT ![n] = "free"]
    /\ UNCHANGED <<tree, item, leaked, node, m, child, stale, inodeMtx, call, handle, left>>

\* OnForget: the deferred fs.m.Delete ...
DeleteNode(n) ==
    /\ forget[n] = "delete"
    /\ m' = [m EXCEPT ![node[n].item] = None]
    /\ forget' = [forget EXCEPT ![n] = "free"]
    /\ UNCHANGED <<tree, item, leaked, node, child, stale, inodeMtx, call, handle, left>>

\* ... and then Node.Free.
FreeNode(n) ==
    /\ forget[n] = "free"
    /\ Free(node[n].item)
    /\ node' = [node EXCEPT ![n].held = FALSE]
    /\ forget' = [forget EXCEPT ![n] = "none"]
    /\ UNCHANGED <<tree, leaked, m, child, stale, inodeMtx, call, handle, left>>

Serve(c) ==
    \/ \E i \in Items : OpenFile(c, i)
    \/ \E n \in Nodes : CreateNode(c, n) \/ Open(c, n)
    \/ OpenFileFails(c) \/ DeriveForAttr(c) \/ StatName(c) \/ StatFails(c)
    \/ GetChild(c) \/ AddChild(c) \/ CloseFile(c) \/ CountLookup(c)
    \/ LockInodes(c) \/ LockInodesFails(c) \/ Change(c) \/ ChangeFails(c)
    \/ Relink(c) \/ Release(c)

\* Every request has been served, and none is left to come.
Quiet == left = 0 /\ (\A c \in Users : At(c, "idle")) /\ UNCHANGED vars

Next ==
    \/ \E c \in Users :
          \/ Serve(c)
          \/ \E x \in Names :
                \/ Lookup(c, x) \/ Create(c, x) \/ Mkdir(c, x) \/ Unlink(c, x)
                \/ \E y \in Names : Rename(c, x, y)
    \/ \E n \in Nodes : Forget(n) \/ DeleteNode(n) \/ FreeNode(n)
    \/ Quiet

Spec == Init /\ [][Next]_vars

-----------------------------------------------------------------------------
\* Who has a reference to an item: Nodes, handles, and the files that calls
\* have open until they close them or hand them to the kernel.
NodeRefs(i) == {n \in Nodes : node[n].held /\ node[n].item = i}
HandleRefs(i) == {c \in Users : handle[c] # None /\ handle[c].item = i}
CallRefs(i) ==
    {c \in Users : call[c].item = i /\
        (call[c].op = "create" \/ call[c].pc \in {"stat", "child", "make", "add", "close"})}

\* Every reference to an item is somebody's, who will give it back; only those
\* of Create's attributes are lost, so that the item of a file that was
\* created is never freed.
RefsAccounted ==
    \A i \in Items :
        item[i].refs = leaked[i] + Cardinality(NodeRefs(i)) + Cardinality(HandleRefs(i))
                                + Cardinality(CallRefs(i))

\* fs.m leads to a Node that holds the item: it is taken out of the map before
\* it lets go, so that LoadOrStore never hands out one that has let go.
MapNamesHolders ==
    \A i \in Items : m[i] # None => node[m[i]].held /\ node[m[i]].item = i

\* An inode hangs under the name its item stands at, through renames and
\* removals, except within the call that moves it, and where a call hung it
\* whose file was moved or removed after the call had read its name.
ChildStandsAtName ==
    inodeMtx = None =>
        \A x \in Names \ stale : child[x] # None /\ node[child[x]].held =>
            item[node[child[x]].item].pos = x
=============================================================================
