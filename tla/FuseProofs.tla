----------------------------- MODULE FuseProofs -----------------------------
(***************************************************************************)
(* The references of the FUSE adapter are accounted for, and its map leads *)
(* to Nodes that hold their items, for any number of names, items, Nodes   *)
(* and goroutines.                                                         *)
(***************************************************************************)
EXTENDS Fuse, Integers, FiniteSetTheorems, TLAPS

\* Where a call is tells which of its locals are set; one that has a handle
\* for the kernel is over.
CallShape(c) ==
    /\ call[c].pc \in {"idle", "open", "lock", "change", "relink"} => call[c].item = None
    /\ call[c].pc \in {"derive", "stat", "child", "make", "add", "close", "count"} =>
           call[c].item \in Items /\ call[c].op \in {"lookup", "create", "mkdir"}
    /\ call[c].pc = "derive" => call[c].op = "create"
    /\ call[c].pc \in {"add", "close", "count"} => call[c].node \in Nodes
    /\ call[c].stat \in
           IF call[c].pc \in {"child", "make", "add", "close", "count"} THEN Entries ELSE {None}
    /\ call[c].pc \in {"idle", "open", "derive", "stat", "lock", "change", "relink"} => ~call[c].late
    /\ call[c].pc # "idle" => call[c].name \in Names /\ handle[c] = None
    /\ call[c].pc \in {"lock", "change", "relink"} =>
           /\ call[c].op \in {"unlink", "rename"}
           /\ call[c].op = "rename" => call[c].to \in Names

\* OnForget runs once for a Node, which holds its item until the end of it
\* and is out of the map before.
NodeShape(n) ==
    /\ node[n].held => node[n].item \in Items
    /\ forget[n] # "none" => node[n].held
    /\ forget[n] = "free" => m[node[n].item] # n

\* An item somebody refers to stands somewhere.
Located == \A i \in Items : item[i].refs > 0 => item[i].pos # None

IInv ==
    /\ TypeOK
    /\ Located
    /\ \A c \in Users : CallShape(c)
    /\ \A n \in Nodes : NodeShape(n)
    /\ RefsAccounted
    /\ MapNamesHolders

-----------------------------------------------------------------------------
LEMMA FiniteRefs ==
    ASSUME NEW i
    PROVE  /\ IsFiniteSet(NodeRefs(i)) /\ IsFiniteSet(HandleRefs(i)) /\ IsFiniteSet(CallRefs(i))
           /\ Cardinality(NodeRefs(i)) \in Nat /\ Cardinality(HandleRefs(i)) \in Nat
           /\ Cardinality(CallRefs(i)) \in Nat
<1>1. IsFiniteSet(Nodes)
  <2>1. 1 \in Int /\ MaxNodes \in Int
    BY FuseAssumption
  <2>2. IsFiniteSet(1..MaxNodes)
    BY <2>1, FS_Interval
  <2>3. QED
    BY <2>2 DEF Nodes
<1>2. NodeRefs(i) \in SUBSET Nodes /\ HandleRefs(i) \in SUBSET Users /\ CallRefs(i) \in SUBSET Users
  BY DEF NodeRefs, HandleRefs, CallRefs
<1>3. IsFiniteSet(NodeRefs(i)) /\ IsFiniteSet(HandleRefs(i)) /\ IsFiniteSet(CallRefs(i))
  BY <1>1, <1>2, FuseAssumption, FS_Subset
<1>4. QED
  BY <1>3, FS_CardinalityType

\* One reference more, and one less.
LEMMA OneMore ==
    ASSUME NEW S, NEW T, NEW x, IsFiniteSet(S), x \notin S, T = S \union {x}
    PROVE  Cardinality(T) = Cardinality(S) + 1
BY FS_AddElement

LEMMA OneLess ==
    ASSUME NEW S, NEW T, NEW x, IsFiniteSet(S), x \in S, T = S \ {x}
    PROVE  Cardinality(T) = Cardinality(S) - 1
BY FS_RemoveElement

\* A step that changes neither items, but for where they stand, nor Nodes,
\* but for their lookups, nor handles, nor what calls have open.
SameRefs ==
    /\ \A i \in Items : item'[i].refs = item[i].refs
    /\ leaked' = leaked
    /\ \A n \in Nodes : node'[n].held = node[n].held /\ node'[n].item = node[n].item
    /\ handle' = handle
    /\ \A i \in Items : CallRefs(i)' = CallRefs(i)

LEMMA SameRefsKeep ==
    ASSUME RefsAccounted, SameRefs
    PROVE  RefsAccounted'
<1>1. \A i \in Items : NodeRefs(i)' = NodeRefs(i) /\ HandleRefs(i)' = HandleRefs(i)
  BY DEF NodeRefs, HandleRefs, SameRefs
<1>2. QED
  BY <1>1 DEF RefsAccounted, SameRefs

\* The parts about Nodes stay when Nodes, map and OnForget do.
LEMMA SameNodesKeep ==
    ASSUME IInv, UNCHANGED <<m, forget>>,
           \A n \in Nodes : node'[n].held = node[n].held /\ node'[n].item = node[n].item
    PROVE  MapNamesHolders' /\ \A n \in Nodes : NodeShape(n)'
BY DEF IInv, MapNamesHolders, NodeShape, TypeOK

LEMMA InitIInv == Init => IInv
<1> SUFFICES ASSUME Init PROVE IInv
  OBVIOUS
<1>1. TypeOK
  BY FuseAssumption DEF Init, TypeOK, Idle, Ops
<1>2. \A c \in Users : CallShape(c)
  BY DEF Init, CallShape, Idle
<1>3. MapNamesHolders /\ \A n \in Nodes : NodeShape(n)
  BY DEF Init, MapNamesHolders, NodeShape
<1>4. RefsAccounted
  <2>1. \A i \in Items : NodeRefs(i) = {} /\ HandleRefs(i) = {} /\ CallRefs(i) = {}
    <3>1. None \notin Items
      BY FuseAssumption
    <3>2. QED
      BY <3>1 DEF Init, NodeRefs, HandleRefs, CallRefs, Idle
  <2>2. Cardinality({}) = 0
    BY FS_EmptySet
  <2>3. \A i \in Items : item[i].refs = 0 /\ leaked[i] = 0
    BY DEF Init
  <2>4. QED
    BY <2>1, <2>2, <2>3 DEF RefsAccounted
<1>5. Located
  BY DEF Init, Located
<1>6. QED
  BY <1>1, <1>2, <1>3, <1>4, <1>5 DEF IInv

\* An item somebody refers to has references.
LEMMA ReferredTo ==
    ASSUME IInv, NEW i \in Items,
           NodeRefs(i) # {} \/ HandleRefs(i) # {} \/ CallRefs(i) # {}
    PROVE  item[i].refs \in Nat /\ item[i].refs > 0
<1>1. \A S : IsFiniteSet(S) /\ S # {} => Cardinality(S) \in Nat /\ Cardinality(S) # 0
  BY FS_EmptySet, FS_CardinalityType
<1>2. \/ Cardinality(NodeRefs(i)) # 0 \/ Cardinality(HandleRefs(i)) # 0
      \/ Cardinality(CallRefs(i)) # 0
  BY <1>1, FiniteRefs
<1>3. leaked[i] \in Nat /\ item[i].refs \in Nat
  BY DEF IInv, TypeOK
<1>4. item[i].refs = leaked[i] + Cardinality(NodeRefs(i)) + Cardinality(HandleRefs(i))
                               + Cardinality(CallRefs(i))
  BY DEF IInv, RefsAccounted
<1>5. /\ Cardinality(NodeRefs(i)) \in Nat /\ Cardinality(HandleRefs(i)) \in Nat
      /\ Cardinality(CallRefs(i)) \in Nat
  BY FiniteRefs
<1>6. QED
  BY <1>2, <1>3, <1>4, <1>5

-----------------------------------------------------------------------------
\* Types, and where calls are.
Calls ==
    [pc : {"idle", "open", "derive", "stat", "child", "make", "add", "close", "count", "lock",
           "change", "relink"},
     op : Ops \union {"none"}, name : Names \union {None}, to : Names \union {None},
     item : Items \union {None}, node : Nodes \union {None},
     stat : Entries \union {None}, late : BOOLEAN]

LEMMA RequestStep ==
    ASSUME IInv, NEW c \in Users, NEW op \in Ops, NEW x \in Names, NEW y \in Names \union {None},
           op = "rename" => y \in Names, Request(c, op, x, y)
    PROVE  TypeOK' /\ \A d \in Users : CallShape(d)'
<1> DEFINE new == [Idle EXCEPT !.pc = IF op \in {"unlink", "rename"} THEN "lock" ELSE "open",
                               !.op = op, !.name = x, !.to = y]
<1>0. /\ new.pc = IF op \in {"unlink", "rename"} THEN "lock" ELSE "open"
      /\ new.op = op /\ new.name = x /\ new.to = y /\ new.item = None /\ new.node = None
      /\ new.stat = None /\ ~new.late /\ new \in Calls
  BY DEF Idle, Calls
<1>1. /\ call' = [call EXCEPT ![c] = new] /\ handle[c] = None
      /\ UNCHANGED <<tree, item, leaked, node, m, child, stale, inodeMtx, handle, forget>>
  BY DEF Request
<1> HIDE DEF new
<1>2. call[c].pc = "idle" /\ left' \in 0..MaxCalls
  BY FuseAssumption DEF Request, At, IInv, TypeOK
<1>3. TypeOK'
  BY <1>0, <1>1, <1>2 DEF IInv, TypeOK, Calls
<1>4. ASSUME NEW d \in Users PROVE CallShape(d)'
  <2>1. call \in [Users -> Calls]
    BY DEF IInv, TypeOK, Calls
  <2>2. CASE d = c
    <3>1. call'[d] = new /\ handle' = handle
      BY <1>1, <2>1, <2>2
    <3>2. QED
      BY <1>0, <1>1, <2>2, <3>1 DEF CallShape, Ops
  <2>3. CASE d # c
    BY <1>1, <2>1, <2>3 DEF CallShape, IInv
  <2>4. QED
    BY <2>2, <2>3
<1>5. QED
  BY <1>3, <1>4

\* A call goes on, and nothing but where it is changes.
LEMMA GotoStep ==
    ASSUME TypeOK, NEW c \in Users, NEW pc, Goto(c, pc),
           pc \in {"idle", "open", "derive", "stat", "child", "make", "add", "close", "count",
                   "lock", "change", "relink"}
    PROVE  /\ call' \in [Users -> Calls] /\ call'[c].pc = pc
           /\ call'[c].op = call[c].op /\ call'[c].name = call[c].name
           /\ call'[c].to = call[c].to /\ call'[c].item = call[c].item
           /\ call'[c].node = call[c].node /\ call'[c].stat = call[c].stat
           /\ call'[c].late = call[c].late
           /\ \A d \in Users \ {c} : call'[d] = call[d]
<1>1. call \in [Users -> Calls]
  BY DEF TypeOK, Calls
<1>2. call' = [call EXCEPT ![c].pc = pc]
  BY DEF Goto
<1>3. QED
  BY <1>1, <1>2 DEF Calls

\* A call that goes on leaves the others where they are.
LEMMA ShapeStep ==
    ASSUME IInv, NEW c \in Users, CallShape(c)',
           \A d \in Users \ {c} : call'[d] = call[d] /\ handle'[d] = handle[d]
    PROVE  \A d \in Users : CallShape(d)'
BY DEF IInv, CallShape

\* References that come and go.
LEMMA RetainStep ==
    ASSUME TypeOK, NEW i \in Items, Retain(i)
    PROVE  /\ item' \in [Items -> [pos : Names \union {Exile, None}, refs : Nat]]
           /\ item'[i].refs = item[i].refs + 1 /\ item'[i].pos = item[i].pos
           /\ \A j \in Items \ {i} : item'[j] = item[j]
<1>1. item[i] \in [pos : Names \union {Exile, None}, refs : Nat]
  BY DEF TypeOK
<1>2. item[i].refs + 1 \in Nat
  BY <1>1
<1>3. QED
  BY <1>2 DEF TypeOK, Retain

LEMMA FreeStep ==
    ASSUME IInv, NEW i \in Items, Free(i),
           NodeRefs(i) # {} \/ HandleRefs(i) # {} \/ CallRefs(i) # {}
    PROVE  /\ item' \in [Items -> [pos : Names \union {Exile, None}, refs : Nat]]
           /\ item'[i].refs = item[i].refs - 1 /\ item'[i].pos = item[i].pos
           /\ \A j \in Items \ {i} : item'[j] = item[j]
<1>1. item[i].refs \in Nat /\ item[i].refs > 0
  BY ReferredTo
<1>2. /\ item \in [Items -> [pos : Names \union {Exile, None}, refs : Nat]]
      /\ item' = [item EXCEPT ![i].refs = @ - 1]
  BY DEF IInv, TypeOK, Free
<1>3. item[i].refs - 1 \in Nat
  BY <1>1
<1>4. item[i] \in [pos : Names \union {Exile, None}, refs : Nat]
  BY <1>2
<1>5. /\ [item[i] EXCEPT !.refs = @ - 1] \in [pos : Names \union {Exile, None}, refs : Nat]
      /\ [item[i] EXCEPT !.refs = @ - 1].refs = item[i].refs - 1
      /\ [item[i] EXCEPT !.refs = @ - 1].pos = item[i].pos
  BY <1>3, <1>4
<1>6. QED
  BY <1>2, <1>5

\* A call goes on, with what it has; one that is overtaken may come late.
Going(d, pc) ==
    /\ call'[d].pc = pc /\ call'[d].op = call[d].op /\ call'[d].name = call[d].name
    /\ call'[d].to = call[d].to /\ call'[d].item = call[d].item /\ call'[d].node = call[d].node
    /\ call'[d].stat = call[d].stat /\ call'[d].late = call[d].late

Overtaken(d) ==
    /\ call'[d].pc = call[d].pc /\ call'[d].op = call[d].op /\ call'[d].name = call[d].name
    /\ call'[d].to = call[d].to /\ call'[d].item = call[d].item /\ call'[d].node = call[d].node
    /\ call'[d].stat = call[d].stat
    /\ call[d].late => call'[d].late
    /\ call[d].stat = None => call'[d].late = call[d].late

LEMMA ChangeStep ==
    ASSUME IInv, NEW c \in Users, Change(c)
    PROVE  /\ call' \in [Users -> Calls] /\ Going(c, "relink")
           /\ \A d \in Users \ {c} :
                 /\ Overtaken(d)
                 /\ call[d].stat \in {call[c].name, call[c].to} \ {None} => call'[d].late
           /\ item' \in [Items -> [pos : Names \union {Exile, None}, refs : Nat]]
           /\ tree' \subseteq Names
           /\ UNCHANGED <<leaked, node, m, child, stale, inodeMtx, handle, forget, left>>
<1>1. /\ call \in [Users -> Calls] /\ CallShape(c) /\ call[c].pc = "change"
      /\ call[c].name \in Names /\ (call[c].op = "rename" => call[c].to \in Names)
      /\ item \in [Items -> [pos : Names \union {Exile, None}, refs : Nat]] /\ tree \subseteq Names
  BY DEF Change, At, CallShape, IInv, TypeOK, Calls
<1>2. call'[c] = [call[c] EXCEPT !.pc = "relink"] /\ DOMAIN call' = Users
  BY DEF Change
<1>3. call'[c] \in Calls /\ Going(c, "relink")
  BY <1>1, <1>2 DEF Going, Calls
<1>4. ASSUME NEW d \in Users \ {c}
      PROVE  /\ call'[d] \in Calls /\ Overtaken(d)
             /\ call[d].stat \in {call[c].name, call[c].to} \ {None} => call'[d].late
  <2> DEFINE late == call[d].late \/
                     (d # c /\ call[d].stat # None /\ call[d].stat \in {call[c].name, call[c].to})
  <2>1. call'[d] = [call[d] EXCEPT !.late = late] /\ late \in BOOLEAN
    BY <1>1 DEF Change, Calls
  <2>2. call[d].stat = None => late = call[d].late
    BY <1>1 DEF Calls
  <2>3. call[d].late => late
    OBVIOUS
  <2>4. call[d].stat \in {call[c].name, call[c].to} \ {None} => late
    OBVIOUS
  <2> HIDE DEF late
  <2>5. call[d] \in Calls
    BY <1>1
  <2>6. QED
    BY <2>1, <2>2, <2>3, <2>4, <2>5 DEF Overtaken, Calls
<1>5. call' \in [Users -> Calls]
  <2>1. \A d \in Users : call'[d] \in Calls
    BY <1>3, <1>4
  <2>2. call' = [d \in Users |-> call'[d]]
    BY DEF Change
  <2>3. QED
    BY <2>1, <2>2
<1>6. item' \in [Items -> [pos : Names \union {Exile, None}, refs : Nat]]
  BY <1>1 DEF Change
<1>7. /\ tree' \subseteq Names
      /\ UNCHANGED <<leaked, node, m, child, stale, inodeMtx, handle, forget, left>>
  BY <1>1 DEF Change
<1>8. QED
  BY <1>3, <1>4, <1>5, <1>6, <1>7

LEMMA ServeStep ==
    ASSUME IInv, NEW c \in Users, Serve(c)
    PROVE  TypeOK' /\ \A d \in Users : CallShape(d)'
<1> USE DEF IInv, At, Done
<1>0. None \notin Items /\ None \notin Nodes /\ None \notin Names /\ Items \subseteq Nat
  BY FuseAssumption DEF Items
<1>1. ASSUME NEW i \in Items, OpenFile(c, i) PROVE TypeOK' /\ \A d \in Users : CallShape(d)'
  BY <1>1 DEF OpenFile, TypeOK, CallShape
<1>2. CASE OpenFileFails(c)
  BY <1>2 DEF OpenFileFails, TypeOK, CallShape, Idle
<1>3. CASE DeriveForAttr(c)
  <2>1. call[c].item \in Items /\ TypeOK /\ CallShape(c) /\ call[c].pc = "derive"
    BY <1>3 DEF DeriveForAttr, CallShape
  <2>2. Retain(call[c].item) /\ Goto(c, "stat")
    BY <1>3 DEF DeriveForAttr
  <2>3. TypeOK'
    BY <1>3, <2>1, <2>2, RetainStep, GotoStep DEF DeriveForAttr, TypeOK, Calls
  <2>4. CallShape(c)'
    BY <1>3, <2>1, <2>2, GotoStep DEF DeriveForAttr, CallShape
  <2>5. QED
    BY <1>3, <2>2, <2>3, <2>4, <2>1, GotoStep, ShapeStep DEF DeriveForAttr
<1>s. CASE StatName(c)
  <2> DEFINE pos == item[call[c].item].pos
  <2>1. /\ call[c].item \in Items /\ call[c].pc = "stat" /\ CallShape(c) /\ ~call[c].late
        /\ call \in [Users -> Calls] /\ call[c] \in Calls
    BY <1>s DEF StatName, CallShape, TypeOK, Calls
  <2>2. /\ call' = [call EXCEPT ![c].stat = pos, ![c].pc = "child"]
        /\ UNCHANGED <<tree, item, leaked, node, m, child, stale, inodeMtx, handle, forget, left>>
    BY <1>s DEF StatName
  <2>3. pos \in Entries
    <3>1. c \in CallRefs(call[c].item)
      BY <2>1 DEF CallRefs
    <3>2. pos \in Names \union {Exile, None} /\ pos # None
      BY <2>1, <3>1, ReferredTo DEF Located, TypeOK
    <3>3. QED
      BY <3>2 DEF Entries
  <2> HIDE DEF pos
  <2>4. /\ call'[c] = [[call[c] EXCEPT !.stat = pos] EXCEPT !.pc = "child"]
        /\ \A d \in Users \ {c} : call'[d] = call[d]
        /\ DOMAIN call' = Users
    BY <2>1, <2>2
  <2>5. /\ call'[c] \in Calls /\ call'[c].pc = "child" /\ call'[c].stat = pos
        /\ call'[c].item = call[c].item /\ call'[c].op = call[c].op
        /\ call'[c].name = call[c].name
    BY <2>1, <2>3, <2>4 DEF Calls
  <2>6. call' \in [Users -> Calls]
    BY <2>1, <2>2, <2>4, <2>5
  <2>7. TypeOK'
    BY <2>2, <2>6 DEF TypeOK, Calls
  <2>8. CallShape(c)'
    BY <2>1, <2>2, <2>3, <2>5 DEF CallShape
  <2>9. QED
    BY <2>2, <2>4, <2>7, <2>8, ShapeStep
<1>f. CASE StatFails(c)
  <2>1. call[c].item \in Items /\ c \in CallRefs(call[c].item)
    BY <1>f DEF StatFails, CallShape, CallRefs
  <2>2. item' \in [Items -> [pos : Names \union {Exile, None}, refs : Nat]]
    BY <1>f, <2>1, FreeStep DEF StatFails
  <2>3. TypeOK'
    BY <1>f, <2>2 DEF StatFails, TypeOK, Idle
  <2>4. QED
    BY <1>f, <2>3 DEF StatFails, TypeOK, CallShape, Idle
<1>4. CASE GetChild(c)
  <2> DEFINE n == child[call[c].stat]
             pc == IF n = None THEN "make" ELSE "close"
             late == call[c].late \/ (n # None /\ call[c].stat \in stale)
  <2>1. /\ TypeOK /\ CallShape(c) /\ call[c].pc = "child" /\ call \in [Users -> Calls]
        /\ call[c] \in Calls
    BY <1>4 DEF GetChild, TypeOK, Calls
  <2>2. n \in Nodes \union {None} /\ pc \in {"make", "close"}
    BY <2>1 DEF CallShape, TypeOK
  <2>3. call' = [call EXCEPT ![c].node = n, ![c].pc = pc, ![c].late = late] /\ late \in BOOLEAN
    BY <1>4, <2>1 DEF GetChild, Calls
  <2>4. /\ inodeMtx' \in Users \union {None}
        /\ UNCHANGED <<tree, item, leaked, node, m, child, stale, handle, forget, left>>
    BY <1>4, <2>1 DEF GetChild, TypeOK
  <2>5. pc = "close" => n \in Nodes
    BY <2>2
  <2> HIDE DEF n, pc, late
  <2>6. /\ call'[c] = [[[call[c] EXCEPT !.node = n] EXCEPT !.pc = pc] EXCEPT !.late = late]
        /\ \A d \in Users \ {c} : call'[d] = call[d]
        /\ DOMAIN call' = Users
    BY <2>1, <2>3
  <2>7. /\ call'[c] \in Calls /\ call'[c].pc = pc /\ call'[c].node = n
        /\ call'[c].item = call[c].item /\ call'[c].op = call[c].op
        /\ call'[c].name = call[c].name /\ call'[c].to = call[c].to
        /\ call'[c].stat = call[c].stat
    BY <2>1, <2>2, <2>3, <2>6 DEF Calls
  <2>8. call' \in [Users -> Calls]
    BY <2>1, <2>3, <2>6, <2>7
  <2>9. TypeOK'
    BY <2>1, <2>4, <2>8 DEF TypeOK, Calls
  <2>10. CallShape(c)'
    BY <2>1, <2>2, <2>4, <2>5, <2>7 DEF CallShape
  <2>11. QED
    BY <2>4, <2>6, <2>9, <2>10, ShapeStep
<1>5. ASSUME NEW n \in Nodes, CreateNode(c, n) PROVE TypeOK' /\ \A d \in Users : CallShape(d)'
  BY <1>5 DEF CreateNode, Retain, TypeOK, CallShape
<1>6. CASE AddChild(c)
  <2>1. TypeOK /\ CallShape(c) /\ Goto(c, "close")
    BY <1>6 DEF AddChild
  <2>2. TypeOK'
    BY <1>6, <2>1, GotoStep DEF AddChild, Hang, TypeOK, Calls, CallShape
  <2>3. CallShape(c)'
    BY <1>6, <2>1, GotoStep DEF AddChild, CallShape
  <2>4. QED
    BY <1>6, <2>1, <2>2, <2>3, GotoStep, ShapeStep DEF AddChild
<1>7. CASE CloseFile(c)
  <2>1. call[c].item \in Items
    BY <1>7 DEF CloseFile, CallShape
  <2>2. c \in CallRefs(call[c].item)
    BY <1>7 DEF CloseFile, CallRefs
  <2>3. TypeOK /\ CallShape(c) /\ Goto(c, "count") /\ call[c].pc = "close"
    BY <1>7 DEF CloseFile
  <2>4. item' \in [Items -> [pos : Names \union {Exile, None}, refs : Nat]]
    <3>1. CASE call[c].op = "create"
      BY <1>7, <3>1 DEF CloseFile, TypeOK
    <3>2. CASE call[c].op # "create"
      BY <1>7, <3>2, <2>1, <2>2, FreeStep DEF CloseFile
    <3>3. QED
      BY <3>1, <3>2
  <2>5. TypeOK'
    BY <1>7, <2>3, <2>4, GotoStep DEF CloseFile, TypeOK, Calls
  <2>6. CallShape(c)'
    BY <1>7, <2>3, GotoStep DEF CloseFile, CallShape
  <2>7. QED
    BY <1>7, <2>3, <2>5, <2>6, GotoStep, ShapeStep DEF CloseFile
<1>8. CASE CountLookup(c)
  <2>1. /\ call[c].item \in Items /\ call[c].node \in Nodes /\ call[c].name \in Names
        /\ handle[c] = None
    BY <1>8 DEF CountLookup, CallShape
  <2>2. TypeOK'
    BY <1>8, <2>1 DEF CountLookup, Hang, Entries, TypeOK, Idle
  <2>3. call'[c] = Idle /\ \A d \in Users \ {c} : call'[d] = call[d] /\ handle'[d] = handle[d]
    BY <1>8 DEF CountLookup, TypeOK
  <2>4. CallShape(c)'
    BY <2>3 DEF CallShape, Idle
  <2>5. QED
    BY <2>2, <2>3, <2>4, ShapeStep
<1>9. CASE LockInodes(c)
  <2>1. TypeOK /\ CallShape(c) /\ Goto(c, "change")
    BY <1>9 DEF LockInodes
  <2>2. TypeOK'
    BY <1>9, <2>1, GotoStep DEF LockInodes, TypeOK, Calls, CallShape
  <2>3. CallShape(c)'
    BY <1>9, <2>1, GotoStep DEF LockInodes, CallShape
  <2>4. QED
    BY <1>9, <2>1, <2>2, <2>3, GotoStep, ShapeStep DEF LockInodes
<1>10. CASE LockInodesFails(c)
  BY <1>10 DEF LockInodesFails, TypeOK, CallShape, Idle
<1>11. CASE Change(c)
  <2>1. TypeOK /\ CallShape(c) /\ call[c].pc = "change"
    BY <1>11 DEF Change
  <2>2. /\ call' \in [Users -> Calls] /\ Going(c, "relink") /\ \A d \in Users \ {c} : Overtaken(d)
        /\ item' \in [Items -> [pos : Names \union {Exile, None}, refs : Nat]]
        /\ tree' \subseteq Names
        /\ UNCHANGED <<leaked, node, m, child, stale, inodeMtx, handle, forget, left>>
    BY <1>11, ChangeStep
  <2>3. TypeOK'
    BY <2>1, <2>2 DEF TypeOK, Calls
  <2>4. CallShape(c)'
    BY <2>1, <2>2 DEF CallShape, Going
  <2>5. ASSUME NEW d \in Users \ {c} PROVE CallShape(d)'
    <3>1. CallShape(d) /\ handle' = handle /\ Overtaken(d) /\ call[d].late \in BOOLEAN
      BY <2>1, <2>2 DEF TypeOK
    <3>2. QED
      BY <3>1 DEF CallShape, Overtaken
  <2>6. QED
    BY <2>3, <2>4, <2>5
<1>12. CASE ChangeFails(c)
  BY <1>12 DEF ChangeFails, TypeOK, CallShape, Idle
<1>13. CASE Relink(c)
  <2>1. /\ call[c].name \in Names /\ (call[c].op = "rename" => call[c].to \in Names)
        /\ child \in [Entries -> Nodes \union {None}] /\ stale \subseteq Entries
    BY <1>13 DEF Relink, CallShape, TypeOK
  <2>2. child' \in [Entries -> Nodes \union {None}] /\ stale' \subseteq Entries
    BY <1>13, <2>1 DEF Relink, Entries
  <2>3. /\ UNCHANGED <<tree, item, leaked, node, m, handle, forget, left>> /\ inodeMtx' = None
        /\ call' = [call EXCEPT ![c] = Idle]
    BY <1>13 DEF Relink
  <2>4. TypeOK'
    BY <2>2, <2>3 DEF TypeOK, Idle
  <2>5. \A d \in Users : CallShape(d)'
    BY <2>3 DEF TypeOK, CallShape, Idle
  <2>6. QED
    BY <2>4, <2>5
<1>14. ASSUME NEW n \in Nodes, Open(c, n) PROVE TypeOK' /\ \A d \in Users : CallShape(d)'
  <2>1. node[n].item \in Items /\ TypeOK
    BY <1>14 DEF Open, NodeShape
  <2>2. item' \in [Items -> [pos : Names \union {Exile, None}, refs : Nat]]
    BY <1>14, <2>1, RetainStep DEF Open
  <2>3. TypeOK'
    BY <1>14, <2>1, <2>2, FuseAssumption DEF Open, TypeOK
  <2>4. QED
    BY <1>14, <2>3 DEF Open, CallShape, TypeOK
<1>15. CASE Release(c)
  <2>1. handle[c].item \in Items
    BY <1>15 DEF Release, TypeOK
  <2>2. c \in HandleRefs(handle[c].item)
    BY <1>15 DEF Release, HandleRefs
  <2>3. item' \in [Items -> [pos : Names \union {Exile, None}, refs : Nat]]
    BY <1>15, <2>1, <2>2, FreeStep DEF Release
  <2>4. TypeOK'
    BY <1>15, <2>3 DEF Release, TypeOK
  <2>5. QED
    BY <1>15, <2>4 DEF Release, TypeOK, CallShape
<1>16. QED
  BY <1>1, <1>2, <1>3, <1>s, <1>f, <1>4, <1>5, <1>6, <1>7, <1>8, <1>9, <1>10, <1>11, <1>12, <1>13,
     <1>14, <1>15 DEF Serve

LEMMA ForgetStep ==
    ASSUME IInv, NEW n \in Nodes, Forget(n) \/ DeleteNode(n) \/ FreeNode(n)
    PROVE  TypeOK' /\ \A d \in Users : CallShape(d)'
<1>1. \A d \in Users : CallShape(d)'
  BY DEF IInv, CallShape, Forget, DeleteNode, FreeNode
<1>2. CASE Forget(n)
  <2>1. node' \in [Nodes -> [item : Items \union {None}, held : BOOLEAN, lookups : Nat]]
    <3>1. /\ node \in [Nodes -> [item : Items \union {None}, held : BOOLEAN, lookups : Nat]]
          /\ node' = [node EXCEPT ![n].lookups = 0]
      BY <1>2 DEF Forget, IInv, TypeOK
    <3>. QED
      BY <3>1
  <2>2. child' \in [Entries -> Nodes \union {None}] /\ stale' \subseteq Entries
    <3>1. child \in [Entries -> Nodes \union {None}] /\ stale \subseteq Entries
      BY DEF IInv, TypeOK
    <3>2. QED
      BY <1>2, <3>1 DEF Forget
  <2>3. forget' \in [Nodes -> {"none", "delete", "free"}]
    BY <1>2 DEF Forget, IInv, TypeOK
  <2>. QED
    BY <1>1, <1>2, <2>1, <2>2, <2>3 DEF Forget, IInv, TypeOK
<1>3. CASE DeleteNode(n)
  BY <1>1, <1>3 DEF DeleteNode, IInv, TypeOK
<1>4. CASE FreeNode(n)
  <2>1. node[n].item \in Items /\ node[n].held
    BY <1>4 DEF FreeNode, IInv, NodeShape
  <2>2. n \in NodeRefs(node[n].item)
    BY <2>1 DEF NodeRefs
  <2>3. item' \in [Items -> [pos : Names \union {Exile, None}, refs : Nat]]
    BY <1>4, <2>1, <2>2, FreeStep DEF FreeNode
  <2>4. QED
    <3>1. /\ node' = [node EXCEPT ![n].held = FALSE] /\ forget' = [forget EXCEPT ![n] = "none"]
          /\ UNCHANGED <<tree, leaked, m, child, stale, inodeMtx, call, handle, left>>
      BY <1>4 DEF FreeNode
    <3>2. node' \in [Nodes -> [item : Items \union {None}, held : BOOLEAN, lookups : Nat]]
      <4>1. \A k \in Nodes : node[k] \in [item : Items \union {None}, held : BOOLEAN, lookups : Nat]
        BY DEF IInv, TypeOK
      <4>2. [node[n] EXCEPT !.held = FALSE] \in
                [item : Items \union {None}, held : BOOLEAN, lookups : Nat]
        BY <4>1, Zenon
      <4>3. node \in [Nodes -> [item : Items \union {None}, held : BOOLEAN, lookups : Nat]]
        BY DEF IInv, TypeOK
      <4>4. QED
        BY <3>1, <4>2, <4>3
    <3>3. TypeOK'
      BY <2>3, <3>1, <3>2 DEF IInv, TypeOK
    <3>4. QED
      BY <1>1, <3>3
<1>5. QED
  BY <1>1, <1>2, <1>3, <1>4

LEMMA TypeStep == IInv /\ [Next]_vars => TypeOK' /\ \A d \in Users : CallShape(d)'
<1> SUFFICES ASSUME IInv, [Next]_vars
             PROVE  TypeOK' /\ \A d \in Users : CallShape(d)'
  OBVIOUS
<1>1. ASSUME NEW c \in Users, Serve(c) PROVE TypeOK' /\ \A d \in Users : CallShape(d)'
  BY <1>1, ServeStep
<1>2. ASSUME NEW c \in Users, NEW x \in Names,
             Lookup(c, x) \/ Create(c, x) \/ Mkdir(c, x) \/ Unlink(c, x)
      PROVE  TypeOK' /\ \A d \in Users : CallShape(d)'
  <2>1. PICK op \in Ops : op # "rename" /\ Request(c, op, x, None)
    BY <1>2 DEF Lookup, Create, Mkdir, Unlink, Ops
  <2>2. QED
    BY <2>1, RequestStep
<1>3. ASSUME NEW c \in Users, NEW x \in Names, NEW y \in Names, Rename(c, x, y)
      PROVE  TypeOK' /\ \A d \in Users : CallShape(d)'
  BY <1>3, RequestStep DEF Rename, Ops
<1>4. ASSUME NEW n \in Nodes, Forget(n) \/ DeleteNode(n) \/ FreeNode(n)
      PROVE  TypeOK' /\ \A d \in Users : CallShape(d)'
  BY <1>4, ForgetStep
<1>5. CASE UNCHANGED vars
  BY <1>5 DEF vars, IInv, TypeOK, CallShape
<1>6. QED
  BY <1>1, <1>2, <1>3, <1>4, <1>5 DEF Next, Quiet

-----------------------------------------------------------------------------
\* Items: who refers to one anew finds it referred to, or opens it at a name.
Settled ==
    \A i \in Items : item'[i].refs > 0 =>
        \/ item[i].refs > 0 /\ item'[i].pos = item[i].pos
        \/ item'[i].pos \in tree'

LEMMA SameItems == ASSUME item' = item PROVE Settled
BY DEF Settled

LEMMA RetainItems ==
    ASSUME IInv, NEW i \in Items, Retain(i),
           NodeRefs(i) # {} \/ HandleRefs(i) # {} \/ CallRefs(i) # {}
    PROVE  Settled /\ \A j \in Items : item'[j].pos = item[j].pos
<1>1. item[i].refs > 0 /\ TypeOK
  BY ReferredTo DEF IInv
<1>2. QED
  BY <1>1, RetainStep DEF Settled

LEMMA FreeItems ==
    ASSUME IInv, NEW i \in Items, Free(i),
           NodeRefs(i) # {} \/ HandleRefs(i) # {} \/ CallRefs(i) # {}
    PROVE  Settled /\ \A j \in Items : item'[j].pos = item[j].pos
<1>1. item[i].refs > 0 /\ item[i].refs \in Nat
  BY ReferredTo
<1>2. QED
  BY <1>1, FreeStep DEF Settled

LEMMA OpenFileItems ==
    ASSUME IInv, NEW c \in Users, NEW i \in Items, OpenFile(c, i)
    PROVE  /\ Settled
           /\ item'[i].pos = call[c].name /\ item[i].pos \in {call[c].name, None}
           /\ \A j \in Items \ {i} : item'[j] = item[j]
<1>1. item \in [Items -> [pos : Names \union {Exile, None}, refs : Nat]]
  BY DEF IInv, TypeOK
<1>2. item'[i].pos = call[c].name /\ \A j \in Items \ {i} : item'[j] = item[j]
  BY <1>1 DEF OpenFile
<1>3. call[c].name \in tree'
  BY DEF OpenFile
<1>4. item[i].pos \in {call[c].name, None}
  BY DEF OpenFile, Allocated, StandsAt, Unused
<1>5. QED
  BY <1>2, <1>3, <1>4 DEF Settled

\* Every step of a call but Change leaves items settled.
LEMMA ServeItems ==
    ASSUME IInv, NEW c \in Users, Serve(c), ~Change(c)
    PROVE  Settled
<1>1. ASSUME NEW i \in Items, OpenFile(c, i) PROVE Settled
  BY <1>1, OpenFileItems
<1>2. CASE DeriveForAttr(c)
  <2>1. Retain(call[c].item) /\ call[c].pc = "derive"
    BY <1>2 DEF DeriveForAttr, At
  <2>2. call[c].item \in Items /\ c \in CallRefs(call[c].item)
    BY <2>1 DEF IInv, CallShape, CallRefs
  <2>3. QED
    BY <2>1, <2>2, RetainItems
<1>3. CASE StatFails(c)
  <2>1. Free(call[c].item) /\ call[c].pc \in {"derive", "stat"}
    BY <1>3 DEF StatFails, At
  <2>2. call[c].item \in Items /\ c \in CallRefs(call[c].item)
    BY <2>1 DEF IInv, CallShape, CallRefs
  <2>3. QED
    BY <2>1, <2>2, FreeItems
<1>4. ASSUME NEW n \in Nodes, CreateNode(c, n) PROVE Settled
  <2>1. call[c].pc = "make" /\ (item' = item \/ Retain(call[c].item))
    BY <1>4 DEF CreateNode, At
  <2>2. call[c].item \in Items /\ c \in CallRefs(call[c].item)
    BY <2>1 DEF IInv, CallShape, CallRefs
  <2>3. QED
    BY <2>1, <2>2, SameItems, RetainItems
<1>5. CASE CloseFile(c)
  <2>1. call[c].pc = "close" /\ (item' = item \/ Free(call[c].item))
    BY <1>5 DEF CloseFile, At
  <2>2. call[c].item \in Items /\ c \in CallRefs(call[c].item)
    BY <2>1 DEF IInv, CallShape, CallRefs
  <2>3. QED
    BY <2>1, <2>2, SameItems, FreeItems
<1>6. ASSUME NEW n \in Nodes, Open(c, n) PROVE Settled
  <2>1. node[n].held /\ Retain(node[n].item)
    BY <1>6 DEF Open
  <2>2. node[n].item \in Items /\ n \in NodeRefs(node[n].item)
    BY <2>1 DEF IInv, NodeShape, NodeRefs
  <2>3. QED
    BY <2>1, <2>2, RetainItems
<1>7. CASE Release(c)
  <2>1. handle[c] # None /\ Free(handle[c].item)
    BY <1>7 DEF Release
  <2>2. handle[c].item \in Items /\ c \in HandleRefs(handle[c].item)
    BY <2>1 DEF IInv, TypeOK, HandleRefs
  <2>3. QED
    BY <2>1, <2>2, FreeItems
<1>8. CASE \/ OpenFileFails(c) \/ StatName(c) \/ GetChild(c) \/ AddChild(c) \/ CountLookup(c)
           \/ LockInodes(c) \/ LockInodesFails(c) \/ ChangeFails(c) \/ Relink(c)
  BY <1>8, SameItems DEF OpenFileFails, StatName, GetChild, AddChild, CountLookup, LockInodes,
                         LockInodesFails, ChangeFails, Relink
<1>9. QED
  BY <1>1, <1>2, <1>3, <1>4, <1>5, <1>6, <1>7, <1>8 DEF Serve

LEMMA FreeNodeItems ==
    ASSUME IInv, NEW n \in Nodes, FreeNode(n)
    PROVE  Settled /\ \A j \in Items : item'[j].pos = item[j].pos
<1>1. node[n].held /\ Free(node[n].item)
  BY DEF FreeNode, IInv, NodeShape
<1>2. node[n].item \in Items /\ n \in NodeRefs(node[n].item)
  BY <1>1 DEF IInv, NodeShape, NodeRefs
<1>3. QED
  BY <1>1, <1>2, FreeItems

LEMMA LocatedStep == IInv /\ TypeOK' /\ [Next]_vars => Located'
<1> SUFFICES ASSUME IInv, TypeOK', [Next]_vars
             PROVE  Located'
  OBVIOUS
<1>0. None \notin Names
  BY FuseAssumption
<1>1. ASSUME Settled PROVE Located'
  BY <1>0, <1>1 DEF Settled, Located, IInv, TypeOK
<1>2. ASSUME NEW c \in Users, Change(c) PROVE Located'
  <2>1. /\ call[c].op \in {"unlink", "rename"} /\ (call[c].op = "rename" => call[c].to \in Names)
        /\ Exile # None /\ item \in [Items -> [pos : Names \union {Exile, None}, refs : Nat]]
    BY <1>2, FuseAssumption DEF Change, At, IInv, CallShape, TypeOK
  <2>2. ASSUME NEW i \in Items, item'[i].refs > 0 PROVE item'[i].pos # None
    <3>1. item[i].refs > 0 /\ item[i].pos # None /\ item[i] \in [pos : Names \union {Exile, None}, refs : Nat]
      BY <1>2, <2>1, <2>2 DEF Change, IInv, Located
    <3>2. CASE item[i].pos = call[c].name
      BY <1>0, <1>2, <2>1, <3>1, <3>2 DEF Change
    <3>3. CASE item[i].pos # call[c].name /\ item[i].pos = call[c].to
      BY <1>0, <1>2, <2>1, <3>1, <3>3 DEF Change
    <3>4. CASE item[i].pos # call[c].name /\ item[i].pos # call[c].to
      BY <1>0, <1>2, <2>1, <3>1, <3>4 DEF Change
    <3>5. QED
      BY <3>2, <3>3, <3>4
  <2>3. QED
    BY <2>2 DEF Located
<1>3. ASSUME NEW c \in Users, NEW op, NEW x, NEW y, Request(c, op, x, y) PROVE Settled
  BY <1>3, SameItems DEF Request
<1>4. ASSUME NEW n \in Nodes, Forget(n) \/ DeleteNode(n) \/ FreeNode(n) PROVE Settled
  BY <1>4, SameItems, FreeNodeItems DEF Forget, DeleteNode
<1>5. CASE UNCHANGED vars
  BY <1>1, <1>5, SameItems DEF vars
<1>6. ASSUME NEW c \in Users, NEW x \in Names,
             \/ Lookup(c, x) \/ Create(c, x) \/ Mkdir(c, x) \/ Unlink(c, x)
             \/ \E y \in Names : Rename(c, x, y)
      PROVE  Settled
  BY <1>3, <1>6 DEF Lookup, Create, Mkdir, Unlink, Rename
<1>7. ASSUME NEW c \in Users, Serve(c) PROVE Located'
  BY <1>1, <1>2, <1>7, ServeItems
<1>8. QED
  BY <1>1, <1>4, <1>5, <1>6, <1>7 DEF Next, Quiet

-----------------------------------------------------------------------------
\* Nodes, the map and OnForget.
LEMMA NodesStep == IInv /\ [Next]_vars => MapNamesHolders' /\ \A n \in Nodes : NodeShape(n)'
<1> SUFFICES ASSUME IInv, [Next]_vars
             PROVE  MapNamesHolders' /\ \A n \in Nodes : NodeShape(n)'
  OBVIOUS
<1> DEFINE Goal == MapNamesHolders' /\ \A n \in Nodes : NodeShape(n)'
<1>0. None \notin Items /\ None \notin Nodes
  BY FuseAssumption
<1>1. ASSUME UNCHANGED <<m, forget, node>> PROVE Goal
  BY <1>1, SameNodesKeep
<1>2. ASSUME NEW c \in Users, NEW op, NEW x, NEW y, Request(c, op, x, y) PROVE Goal
  BY <1>2, <1>1 DEF Request
<1>3. ASSUME NEW c \in Users, NEW n \in Nodes, CreateNode(c, n) PROVE Goal
  <2>1. CASE m[call[c].item] # None
    BY <1>3, <2>1, <1>1 DEF CreateNode
  <2>2. CASE m[call[c].item] = None
    <3>1. call[c].item \in Items
      BY <1>3 DEF CreateNode, At, IInv, CallShape
    <3>2. /\ node' = [node EXCEPT ![n] = [item |-> call[c].item, held |-> TRUE, lookups |-> 0]]
          /\ m' = [m EXCEPT ![call[c].item] = n] /\ forget' = forget /\ node[n].item = None
      BY <1>3, <2>2 DEF CreateNode
    <3>3. ~node[n].held /\ forget[n] = "none"
      BY <1>0, <3>2 DEF IInv, NodeShape, TypeOK
    <3>4. /\ node'[n].item = call[c].item /\ node'[n].held
          /\ \A k \in Nodes \ {n} : node'[k] = node[k]
          /\ m'[call[c].item] = n /\ \A i \in Items \ {call[c].item} : m'[i] = m[i]
      BY <3>1, <3>2 DEF IInv, TypeOK
    <3>5. MapNamesHolders'
      BY <1>0, <3>1, <3>3, <3>4 DEF IInv, MapNamesHolders, TypeOK
    <3>6. ASSUME NEW k \in Nodes PROVE NodeShape(k)'
      BY <3>1, <3>2, <3>3, <3>4 DEF IInv, NodeShape, TypeOK
    <3>7. QED
      BY <3>5, <3>6
  <2>3. QED
    BY <2>1, <2>2
<1>4. ASSUME NEW c \in Users, CountLookup(c) PROVE Goal
  <2>1. \A n \in Nodes : node'[n].held = node[n].held /\ node'[n].item = node[n].item
    BY <1>4 DEF CountLookup, IInv, TypeOK
  <2>2. QED
    BY <1>4, <2>1, SameNodesKeep DEF CountLookup
<1>5. ASSUME NEW c \in Users, Serve(c) PROVE Goal
  <2>1. \/ \E n \in Nodes : CreateNode(c, n)
        \/ CountLookup(c)
        \/ UNCHANGED <<m, forget, node>>
    BY <1>5 DEF Serve, OpenFile, OpenFileFails, DeriveForAttr, StatName, StatFails, GetChild, AddChild, CloseFile,
                LockInodes, LockInodesFails, Change, ChangeFails, Relink, Open, Release
  <2>2. QED
    BY <2>1, <1>1, <1>3, <1>4
<1>6. ASSUME NEW n \in Nodes, Forget(n) PROVE Goal
  <2>1. \A k \in Nodes : node'[k].held = node[k].held /\ node'[k].item = node[k].item
    BY <1>6 DEF Forget, IInv, TypeOK
  <2>2. m' = m /\ forget' = [forget EXCEPT ![n] =
               IF forget[n] = "none" /\ node[n].held THEN "delete" ELSE forget[n]]
    BY <1>6 DEF Forget
  <2>3. MapNamesHolders'
    BY <2>1, <2>2 DEF IInv, MapNamesHolders, TypeOK
  <2>4. ASSUME NEW k \in Nodes PROVE NodeShape(k)'
    BY <2>1, <2>2 DEF IInv, NodeShape, TypeOK
  <2>5. QED
    BY <2>3, <2>4
<1>7. ASSUME NEW n \in Nodes, DeleteNode(n) PROVE Goal
  <2>1. node[n].item \in Items /\ node[n].held
    BY <1>7 DEF DeleteNode, IInv, NodeShape
  <2>2. /\ node' = node /\ m' = [m EXCEPT ![node[n].item] = None]
        /\ forget' = [forget EXCEPT ![n] = "free"]
    BY <1>7 DEF DeleteNode
  <2>3. MapNamesHolders'
    BY <1>0, <2>1, <2>2 DEF IInv, MapNamesHolders, TypeOK
  <2>4. ASSUME NEW k \in Nodes PROVE NodeShape(k)'
    BY <1>0, <2>1, <2>2 DEF IInv, NodeShape, TypeOK
  <2>5. QED
    BY <2>3, <2>4
<1>8. ASSUME NEW n \in Nodes, FreeNode(n) PROVE Goal
  <2>1. /\ node' = [node EXCEPT ![n].held = FALSE] /\ m' = m
        /\ forget' = [forget EXCEPT ![n] = "none"] /\ forget[n] = "free"
    BY <1>8 DEF FreeNode
  <2>2. m[node[n].item] # n
    BY <2>1 DEF IInv, NodeShape
  <2>3. MapNamesHolders'
    BY <2>1, <2>2 DEF IInv, MapNamesHolders, TypeOK
  <2>4. ASSUME NEW k \in Nodes PROVE NodeShape(k)'
    BY <2>1, <2>2 DEF IInv, NodeShape, TypeOK
  <2>5. QED
    BY <2>3, <2>4
<1>9. ASSUME UNCHANGED vars PROVE Goal
  BY <1>9, <1>1 DEF vars
<1> HIDE DEF Goal
<1>10. Goal
  <2>1. ASSUME NEW c \in Users, NEW x \in Names,
               \/ Lookup(c, x) \/ Create(c, x) \/ Mkdir(c, x) \/ Unlink(c, x)
               \/ \E y \in Names : Rename(c, x, y)
        PROVE  Goal
    <3>1. \E op, y : Request(c, op, x, y)
      BY <2>1 DEF Lookup, Create, Mkdir, Unlink, Rename
    <3>2. QED
      BY <3>1, <1>2
  <2>2. QED
    <3>1. ASSUME NEW n \in Nodes, Forget(n) \/ DeleteNode(n) \/ FreeNode(n) PROVE Goal
      BY <3>1, <1>6, <1>7, <1>8
    <3>2. CASE Next
      <4>1. CASE \E c \in Users : Serve(c)
        BY <4>1, <1>5
      <4>2. CASE Quiet
        BY <4>2, <1>9 DEF Quiet
      <4>3. QED
        BY <2>1, <3>1, <3>2, <4>1, <4>2, Zenon DEF Next
    <3>3. QED
      BY <3>2, <1>9
<1>11. QED
  BY <1>10 DEF Goal

-----------------------------------------------------------------------------
\* References.

Opened(d, i) ==
    call[d].item = i /\ (call[d].op = "create" \/ call[d].pc \in {"stat", "child", "make", "add", "close"})

\* A call that has nothing open before and after, or has the same, leaves
\* what calls have open as it is.
LEMMA CallRefsKeep ==
    ASSUME NEW c \in Users, \A d \in Users \ {c} : call'[d] = call[d] \/ Overtaken(d),
           \A i \in Items : Opened(c, i)' <=> Opened(c, i)
    PROVE  \A i \in Items : CallRefs(i)' = CallRefs(i)
<1>1. \A d \in Users \ {c} : \A i \in Items : Opened(d, i)' <=> Opened(d, i)
  BY DEF Opened, Overtaken
<1>2. QED
  BY <1>1 DEF CallRefs, Opened

Total(i) == leaked[i] + Cardinality(NodeRefs(i)) + Cardinality(HandleRefs(i))
                      + Cardinality(CallRefs(i))

\* One item has a reference more, or less, and so have those who refer to it.
LEMMA RefsMove ==
    ASSUME IInv, NEW i \in Items,
           \/ item'[i].refs = item[i].refs + 1 /\ Total(i)' = Total(i) + 1
           \/ item'[i].refs = item[i].refs - 1 /\ Total(i)' = Total(i) - 1,
           \A j \in Items \ {i} :
               /\ item'[j].refs = item[j].refs /\ leaked'[j] = leaked[j]
               /\ NodeRefs(j)' = NodeRefs(j) /\ HandleRefs(j)' = HandleRefs(j)
               /\ CallRefs(j)' = CallRefs(j)
    PROVE  RefsAccounted'
<1>1. item[i].refs = Total(i)
  BY DEF IInv, RefsAccounted, Total
<1>2. item'[i].refs = Total(i)'
  BY <1>1
<1>3. item'[i].refs = leaked'[i] + Cardinality(NodeRefs(i))' + Cardinality(HandleRefs(i))'
                                 + Cardinality(CallRefs(i))'
  BY <1>2 DEF Total
<1>4. ASSUME NEW j \in Items \ {i}
      PROVE  item'[j].refs = leaked'[j] + Cardinality(NodeRefs(j))' + Cardinality(HandleRefs(j))'
                                        + Cardinality(CallRefs(j))'
  BY <1>4 DEF IInv, RefsAccounted
<1>5. QED
  BY <1>3, <1>4 DEF RefsAccounted

\* Who refers to an item, in numbers.
LEMMA Counts ==
    ASSUME TypeOK, NEW i \in Items
    PROVE  /\ leaked[i] \in Nat /\ Cardinality(NodeRefs(i)) \in Nat
           /\ Cardinality(HandleRefs(i)) \in Nat /\ Cardinality(CallRefs(i)) \in Nat
BY FiniteRefs DEF TypeOK

LEMMA QuietCalls ==
    ASSUME IInv, NEW c \in Users,
           \/ OpenFileFails(c) \/ StatName(c) \/ GetChild(c) \/ AddChild(c) \/ LockInodes(c)
           \/ LockInodesFails(c) \/ Change(c) \/ ChangeFails(c) \/ Relink(c)
           \/ \E op, x, y : Request(c, op, x, y)
    PROVE  RefsAccounted'
<1>0. None \notin Items /\ call \in [Users -> Calls] /\ TypeOK
  BY FuseAssumption DEF IInv, TypeOK, Calls
<1>1. UNCHANGED <<leaked, node, handle>>
  BY DEF OpenFileFails, StatName, GetChild, AddChild, LockInodes, LockInodesFails, Change,
         ChangeFails, Relink, Request
<1>2. \A i \in Items : item'[i].refs = item[i].refs
  <2>1. CASE Change(c)
    BY <1>0, <2>1 DEF Change, TypeOK
  <2>2. CASE ~Change(c)
    BY <2>2 DEF OpenFileFails, StatName, GetChild, AddChild, LockInodes, LockInodesFails,
                ChangeFails, Relink, Request
  <2>3. QED
    BY <2>1, <2>2
<1>3. /\ \A d \in Users \ {c} : call'[d] = call[d] \/ Overtaken(d)
      /\ \A i \in Items : Opened(c, i)' <=> Opened(c, i)
  <2>1. ASSUME NEW op, NEW x, NEW y, Request(c, op, x, y)
        PROVE  (\A d \in Users \ {c} : call'[d] = call[d]) /\ call[c].item = None /\ call'[c].item = None
    BY <1>0, <2>1 DEF Request, Idle, At, IInv, CallShape
  <2>2. CASE OpenFileFails(c) \/ LockInodesFails(c) \/ ChangeFails(c) \/ Relink(c)
    <3>1. call[c].item = None
      BY <2>2 DEF OpenFileFails, LockInodesFails, ChangeFails, Relink, At, IInv, CallShape
    <3>2. call' = [call EXCEPT ![c] = Idle]
      BY <2>2 DEF OpenFileFails, LockInodesFails, ChangeFails, Relink, Done
    <3>3. QED
      BY <1>0, <3>1, <3>2 DEF Opened, Idle
  <2>3. CASE GetChild(c) \/ StatName(c)
    BY <1>0, <2>3 DEF GetChild, StatName, At, Opened, Calls
  <2>4. CASE AddChild(c)
    <3>1. call[c].pc = "add" /\ Goto(c, "close")
      BY <2>4 DEF AddChild, At
    <3>2. QED
      BY <1>0, <3>1, GotoStep DEF Opened
  <2>5. CASE LockInodes(c)
    <3>1. call[c].item = None /\ Goto(c, "change")
      BY <2>5 DEF LockInodes, At, IInv, CallShape
    <3>2. QED
      BY <1>0, <3>1, GotoStep DEF Opened
  <2>6. CASE Change(c)
    <3>1. call[c].item = None
      BY <2>6 DEF Change, At, IInv, CallShape
    <3>2. QED
      BY <1>0, <2>6, <3>1, ChangeStep DEF Opened, Going
  <2>7. QED
    BY <1>0, <2>1, <2>2, <2>3, <2>4, <2>5, <2>6 DEF Opened
<1>4. SameRefs
  BY <1>1, <1>2, <1>3, CallRefsKeep DEF SameRefs
<1>5. QED
  BY <1>4, SameRefsKeep DEF IInv

LEMMA OpenFileRefs ==
    ASSUME IInv, NEW c \in Users, NEW i \in Items, OpenFile(c, i)
    PROVE  RefsAccounted'
<1>0. None \notin Items /\ call \in [Users -> Calls] /\ TypeOK
  BY FuseAssumption DEF IInv, TypeOK, Calls
<1>1. call[c].item = None /\ call[c].op \in {"lookup", "create", "mkdir"}
  BY DEF OpenFile, At, IInv, CallShape
<1>2. /\ call'[c].item = i /\ call'[c].op = call[c].op
      /\ call'[c].pc \in {"derive", "stat"} /\ (call[c].op # "create" => call'[c].pc = "stat")
      /\ \A d \in Users \ {c} : call'[d] = call[d]
  BY <1>0 DEF OpenFile, Calls
<1>3. c \notin CallRefs(i) /\ CallRefs(i)' = CallRefs(i) \union {c}
  BY <1>0, <1>1, <1>2 DEF CallRefs
<1>4. \A j \in Items \ {i} : CallRefs(j)' = CallRefs(j)
  BY <1>0, <1>1, <1>2 DEF CallRefs
<1>5. Cardinality(CallRefs(i))' = Cardinality(CallRefs(i)) + 1
  BY <1>3, FiniteRefs, OneMore
<1>6. UNCHANGED <<leaked, node, handle>>
  BY DEF OpenFile
<1>7. \A j \in Items : NodeRefs(j)' = NodeRefs(j) /\ HandleRefs(j)' = HandleRefs(j)
  BY <1>6 DEF NodeRefs, HandleRefs
<1>8. item'[i].refs = item[i].refs + 1 /\ \A j \in Items \ {i} : item'[j].refs = item[j].refs
  BY <1>0 DEF OpenFile, TypeOK
<1>9. Total(i)' = Total(i) + 1
  BY <1>0, <1>5, <1>6, <1>7, Counts DEF Total
<1>10. QED
  BY <1>4, <1>6, <1>7, <1>8, <1>9, RefsMove

LEMMA DeriveForAttrRefs ==
    ASSUME IInv, NEW c \in Users, DeriveForAttr(c), NEW i, i = call[c].item
    PROVE  RefsAccounted'
<1>1. i \in Items /\ TypeOK /\ call[c].op = "create"
  BY DEF DeriveForAttr, At, IInv, CallShape
<1>2. Retain(i) /\ Goto(c, "stat") /\ UNCHANGED <<node, handle>>
  BY DEF DeriveForAttr
<1>3. \A j \in Items : CallRefs(j)' = CallRefs(j)
  BY <1>1, <1>2, GotoStep DEF CallRefs
<1>4. \A j \in Items : NodeRefs(j)' = NodeRefs(j) /\ HandleRefs(j)' = HandleRefs(j)
  BY <1>2 DEF NodeRefs, HandleRefs
<1>5. item'[i].refs = item[i].refs + 1 /\ \A j \in Items \ {i} : item'[j].refs = item[j].refs
  BY <1>1, <1>2, RetainStep
<1>6. leaked'[i] = leaked[i] + 1 /\ leaked[i] \in Nat /\ \A j \in Items \ {i} : leaked'[j] = leaked[j]
  BY <1>1 DEF DeriveForAttr, TypeOK
<1>7. Total(i)' = Total(i) + 1
  BY <1>1, <1>3, <1>4, <1>6, Counts DEF Total
<1>8. QED
  BY <1>1, <1>3, <1>4, <1>5, <1>6, <1>7, RefsMove

LEMMA CreateNodeRefs ==
    ASSUME IInv, NEW c \in Users, NEW n \in Nodes, CreateNode(c, n), NEW i, i = call[c].item
    PROVE  RefsAccounted'
<1>0. None \notin Items /\ call \in [Users -> Calls] /\ TypeOK
  BY FuseAssumption DEF IInv, TypeOK, Calls
<1>1. i \in Items /\ call[c].pc = "make"
  BY DEF CreateNode, At, IInv, CallShape
<1>2. call' = [call EXCEPT ![c].node = n, ![c].pc = "add"] /\ UNCHANGED <<leaked, handle>>
  BY DEF CreateNode
<1>3. (\A d \in Users \ {c} : call'[d] = call[d]) /\ (\A j \in Items : Opened(c, j)' <=> Opened(c, j))
  BY <1>0, <1>1, <1>2 DEF Opened, Calls
<1>4. \A j \in Items : CallRefs(j)' = CallRefs(j) /\ HandleRefs(j)' = HandleRefs(j)
  BY <1>2, <1>3, CallRefsKeep DEF HandleRefs
<1>5. CASE m[i] # None
  <2>1. UNCHANGED <<item, node>>
    BY <1>5 DEF CreateNode
  <2>2. SameRefs
    BY <1>2, <1>4, <2>1 DEF SameRefs
  <2>3. QED
    BY <2>2, SameRefsKeep DEF IInv
<1>6. CASE m[i] = None
  <2>1. /\ node' = [node EXCEPT ![n] = [item |-> i, held |-> TRUE, lookups |-> 0]]
        /\ node[n].item = None /\ Retain(i)
    BY <1>6 DEF CreateNode
  <2>2. /\ node'[n].item = i /\ node'[n].held
        /\ \A k \in Nodes \ {n} : node'[k] = node[k]
    BY <1>0, <2>1 DEF TypeOK
  <2>3. n \notin NodeRefs(i) /\ NodeRefs(i)' = NodeRefs(i) \union {n}
    BY <1>0, <1>1, <2>1, <2>2 DEF NodeRefs
  <2>4. \A j \in Items \ {i} : NodeRefs(j)' = NodeRefs(j)
    BY <1>0, <2>1, <2>2 DEF NodeRefs
  <2>5. Cardinality(NodeRefs(i))' = Cardinality(NodeRefs(i)) + 1
    BY <2>3, FiniteRefs, OneMore
  <2>6. item'[i].refs = item[i].refs + 1 /\ \A j \in Items \ {i} : item'[j].refs = item[j].refs
    BY <1>0, <1>1, <2>1, RetainStep
  <2>7. Total(i)' = Total(i) + 1
    BY <1>0, <1>1, <1>2, <1>4, <2>5, Counts DEF Total
  <2>8. QED
    BY <1>1, <1>2, <1>4, <2>4, <2>6, <2>7, RefsMove
<1>7. QED
  BY <1>5, <1>6

LEMMA CloseFileRefs ==
    ASSUME IInv, NEW c \in Users, CloseFile(c), NEW i, i = call[c].item
    PROVE  RefsAccounted'
<1>0. None \notin Items /\ TypeOK
  BY FuseAssumption DEF IInv
<1>1. i \in Items /\ call[c].pc = "close" /\ Goto(c, "count") /\ c \in CallRefs(i)
  BY DEF CloseFile, At, IInv, CallShape, CallRefs
<1>2. UNCHANGED <<leaked, node, handle>>
  BY DEF CloseFile
<1>3. \A j \in Items : NodeRefs(j)' = NodeRefs(j) /\ HandleRefs(j)' = HandleRefs(j)
  BY <1>2 DEF NodeRefs, HandleRefs
<1>4. CASE call[c].op = "create"
  <2>1. item' = item
    BY <1>4 DEF CloseFile
  <2>2. \A j \in Items : CallRefs(j)' = CallRefs(j)
    BY <1>0, <1>1, <1>4, GotoStep DEF CallRefs
  <2>3. SameRefs
    BY <1>2, <2>1, <2>2 DEF SameRefs
  <2>4. QED
    BY <2>3, SameRefsKeep DEF IInv
<1>5. CASE call[c].op # "create"
  <2>1. Free(i)
    BY <1>5 DEF CloseFile
  <2>2. item'[i].refs = item[i].refs - 1 /\ \A j \in Items \ {i} : item'[j].refs = item[j].refs
    BY <1>1, <2>1, FreeStep
  <2>3. CallRefs(i)' = CallRefs(i) \ {c}
    BY <1>0, <1>1, <1>5, GotoStep DEF CallRefs
  <2>4. \A j \in Items \ {i} : CallRefs(j)' = CallRefs(j)
    BY <1>0, <1>1, GotoStep DEF CallRefs
  <2>5. Cardinality(CallRefs(i))' = Cardinality(CallRefs(i)) - 1
    BY <1>1, <2>3, FiniteRefs, OneLess
  <2>6. Total(i)' = Total(i) - 1
    BY <1>0, <1>1, <1>2, <1>3, <2>5, Counts DEF Total
  <2>7. QED
    BY <1>1, <1>2, <1>3, <2>2, <2>4, <2>6, RefsMove
<1>6. QED
  BY <1>4, <1>5

\* A call that cannot stat its file closes it.
LEMMA StatFailsRefs ==
    ASSUME IInv, NEW c \in Users, StatFails(c), NEW i, i = call[c].item
    PROVE  RefsAccounted'
<1>0. None \notin Items /\ TypeOK /\ call \in [Users -> Calls]
  BY FuseAssumption DEF IInv, TypeOK, Calls
<1>1. i \in Items /\ c \in CallRefs(i)
  BY DEF StatFails, At, IInv, CallShape, CallRefs
<1>2. UNCHANGED <<leaked, node, handle>> /\ Free(i) /\ call' = [call EXCEPT ![c] = Idle]
  BY DEF StatFails, Done
<1>3. \A j \in Items : NodeRefs(j)' = NodeRefs(j) /\ HandleRefs(j)' = HandleRefs(j)
  BY <1>2 DEF NodeRefs, HandleRefs
<1>4. item'[i].refs = item[i].refs - 1 /\ \A j \in Items \ {i} : item'[j].refs = item[j].refs
  BY <1>1, <1>2, FreeStep
<1>5. call'[c].item = None /\ \A d \in Users \ {c} : call'[d] = call[d]
  BY <1>0, <1>2 DEF Idle
<1>6. CallRefs(i)' = CallRefs(i) \ {c} /\ \A j \in Items \ {i} : CallRefs(j)' = CallRefs(j)
  BY <1>0, <1>1, <1>5 DEF CallRefs
<1>7. Cardinality(CallRefs(i))' = Cardinality(CallRefs(i)) - 1
  BY <1>1, <1>6, FiniteRefs, OneLess
<1>8. Total(i)' = Total(i) - 1
  BY <1>0, <1>1, <1>2, <1>3, <1>7, Counts DEF Total
<1>9. QED
  BY <1>1, <1>2, <1>3, <1>4, <1>6, <1>8, RefsMove

\* Create hands its reference over to the handle.
LEMMA CountLookupRefs ==
    ASSUME IInv, NEW c \in Users, CountLookup(c), NEW i, i = call[c].item
    PROVE  RefsAccounted'
<1>0. None \notin Items /\ None \notin [item : Items, node : Nodes] /\ TypeOK
  BY FuseAssumption DEF IInv
<1>1. /\ i \in Items /\ call[c].pc = "count" /\ call[c].node \in Nodes /\ handle[c] = None
  BY DEF CountLookup, At, IInv, CallShape
<1>2. UNCHANGED <<item, leaked>>
  BY DEF CountLookup
<1>3. \A n \in Nodes : node'[n].held = node[n].held /\ node'[n].item = node[n].item
  BY <1>0 DEF CountLookup, TypeOK
<1>4. \A j \in Items : NodeRefs(j)' = NodeRefs(j)
  BY <1>3 DEF NodeRefs
<1>5. call'[c].item = None /\ \A d \in Users \ {c} : call'[d] = call[d]
  BY <1>0 DEF CountLookup, Done, Idle, TypeOK
<1>6. CASE call[c].op = "create"
  <2>1. /\ handle'[c] # None /\ handle'[c].item = i
        /\ \A d \in Users \ {c} : handle'[d] = handle[d]
    BY <1>0, <1>1, <1>6 DEF CountLookup, TypeOK
  <2>2. c \in CallRefs(i) /\ CallRefs(i)' = CallRefs(i) \ {c}
    BY <1>0, <1>1, <1>5, <1>6 DEF CallRefs
  <2>3. c \notin HandleRefs(i) /\ HandleRefs(i)' = HandleRefs(i) \union {c}
    BY <1>1, <2>1 DEF HandleRefs
  <2>4. \A j \in Items \ {i} : CallRefs(j)' = CallRefs(j) /\ HandleRefs(j)' = HandleRefs(j)
    BY <1>0, <1>1, <1>5, <2>1 DEF CallRefs, HandleRefs
  <2>5. /\ Cardinality(CallRefs(i))' = Cardinality(CallRefs(i)) - 1
        /\ Cardinality(HandleRefs(i))' = Cardinality(HandleRefs(i)) + 1
    BY <2>2, <2>3, FiniteRefs, OneLess, OneMore
  <2>6. Total(i)' = Total(i)
    BY <1>0, <1>1, <1>2, <1>4, <2>5, Counts DEF Total
  <2>7. \A j \in Items : Total(j)' = Total(j)
    BY <1>2, <1>4, <2>4, <2>6 DEF Total
  <2>8. QED
    BY <1>2, <2>7 DEF IInv, RefsAccounted, Total
<1>7. CASE call[c].op # "create"
  <2>1. handle' = handle
    BY <1>7 DEF CountLookup
  <2>2. \A j \in Items : CallRefs(j)' = CallRefs(j)
    BY <1>0, <1>1, <1>5, <1>7 DEF CallRefs
  <2>3. SameRefs
    BY <1>2, <1>3, <2>1, <2>2 DEF SameRefs
  <2>4. QED
    BY <2>3, SameRefsKeep DEF IInv
<1>8. QED
  BY <1>6, <1>7

LEMMA OpenRefs ==
    ASSUME IInv, NEW c \in Users, NEW n \in Nodes, Open(c, n), NEW i, i = node[n].item
    PROVE  RefsAccounted'
<1>0. None \notin [item : Items, node : Nodes] /\ TypeOK
  BY FuseAssumption DEF IInv
<1>1. i \in Items /\ handle[c] = None
  BY DEF Open, IInv, NodeShape
<1>2. Retain(i) /\ handle' = [handle EXCEPT ![c] = [item |-> i, node |-> n]]
  BY DEF Open
<1>3. UNCHANGED <<leaked, node, call>>
  BY DEF Open
<1>4. \A j \in Items : NodeRefs(j)' = NodeRefs(j) /\ CallRefs(j)' = CallRefs(j)
  BY <1>3 DEF NodeRefs, CallRefs
<1>5. item'[i].refs = item[i].refs + 1 /\ \A j \in Items \ {i} : item'[j].refs = item[j].refs
  BY <1>0, <1>1, <1>2, RetainStep
<1>6. /\ handle'[c] # None /\ handle'[c].item = i
      /\ \A d \in Users \ {c} : handle'[d] = handle[d]
  BY <1>0, <1>1, <1>2 DEF TypeOK
<1>7. c \notin HandleRefs(i) /\ HandleRefs(i)' = HandleRefs(i) \union {c}
  BY <1>1, <1>6 DEF HandleRefs
<1>8. \A j \in Items \ {i} : HandleRefs(j)' = HandleRefs(j)
  BY <1>1, <1>6 DEF HandleRefs
<1>9. Cardinality(HandleRefs(i))' = Cardinality(HandleRefs(i)) + 1
  BY <1>7, FiniteRefs, OneMore
<1>10. Total(i)' = Total(i) + 1
  BY <1>0, <1>1, <1>3, <1>4, <1>9, Counts DEF Total
<1>11. QED
  BY <1>1, <1>3, <1>4, <1>5, <1>8, <1>10, RefsMove

LEMMA ReleaseRefs ==
    ASSUME IInv, NEW c \in Users, Release(c), NEW i, i = handle[c].item
    PROVE  RefsAccounted'
<1>0. TypeOK
  BY DEF IInv
<1>1. i \in Items /\ handle[c] # None /\ c \in HandleRefs(i)
  BY DEF Release, IInv, TypeOK, HandleRefs
<1>2. Free(i) /\ handle' = [handle EXCEPT ![c] = None]
  BY DEF Release
<1>3. UNCHANGED <<leaked, node, call>>
  BY DEF Release
<1>4. \A j \in Items : NodeRefs(j)' = NodeRefs(j) /\ CallRefs(j)' = CallRefs(j)
  BY <1>3 DEF NodeRefs, CallRefs
<1>5. item'[i].refs = item[i].refs - 1 /\ \A j \in Items \ {i} : item'[j].refs = item[j].refs
  BY <1>1, <1>2, FreeStep
<1>6. handle'[c] = None /\ \A d \in Users \ {c} : handle'[d] = handle[d]
  BY <1>0, <1>2 DEF TypeOK
<1>7. HandleRefs(i)' = HandleRefs(i) \ {c} /\ \A j \in Items \ {i} : HandleRefs(j)' = HandleRefs(j)
  BY <1>1, <1>6 DEF HandleRefs
<1>8. Cardinality(HandleRefs(i))' = Cardinality(HandleRefs(i)) - 1
  BY <1>1, <1>7, FiniteRefs, OneLess
<1>9. Total(i)' = Total(i) - 1
  BY <1>0, <1>1, <1>3, <1>4, <1>8, Counts DEF Total
<1>10. QED
  BY <1>1, <1>3, <1>4, <1>5, <1>7, <1>9, RefsMove

LEMMA FreeNodeRefs ==
    ASSUME IInv, NEW n \in Nodes, FreeNode(n), NEW i, i = node[n].item
    PROVE  RefsAccounted'
<1>0. TypeOK
  BY DEF IInv
<1>1. i \in Items /\ node[n].held /\ n \in NodeRefs(i)
  BY DEF FreeNode, IInv, NodeShape, NodeRefs
<1>2. Free(i) /\ node' = [node EXCEPT ![n].held = FALSE]
  BY DEF FreeNode
<1>3. UNCHANGED <<leaked, handle, call>>
  BY DEF FreeNode
<1>4. \A j \in Items : HandleRefs(j)' = HandleRefs(j) /\ CallRefs(j)' = CallRefs(j)
  BY <1>3 DEF HandleRefs, CallRefs
<1>5. item'[i].refs = item[i].refs - 1 /\ \A j \in Items \ {i} : item'[j].refs = item[j].refs
  BY <1>1, <1>2, FreeStep
<1>6. /\ ~node'[n].held /\ node'[n].item = i
      /\ \A k \in Nodes \ {n} : node'[k] = node[k]
  BY <1>0, <1>2 DEF TypeOK
<1>7. NodeRefs(i)' = NodeRefs(i) \ {n} /\ \A j \in Items \ {i} : NodeRefs(j)' = NodeRefs(j)
  BY <1>1, <1>6 DEF NodeRefs
<1>8. Cardinality(NodeRefs(i))' = Cardinality(NodeRefs(i)) - 1
  BY <1>1, <1>7, FiniteRefs, OneLess
<1>9. Total(i)' = Total(i) - 1
  BY <1>0, <1>1, <1>3, <1>4, <1>8, Counts DEF Total
<1>10. QED
  BY <1>1, <1>3, <1>4, <1>5, <1>7, <1>9, RefsMove

LEMMA RefsStep == IInv /\ [Next]_vars => RefsAccounted'
<1> SUFFICES ASSUME IInv, [Next]_vars
             PROVE  RefsAccounted'
  OBVIOUS
<1>1. ASSUME NEW c \in Users, Serve(c) PROVE RefsAccounted'
  <2>1. ASSUME NEW i \in Items, OpenFile(c, i) PROVE RefsAccounted'
    BY <2>1, OpenFileRefs
  <2>2. ASSUME NEW n \in Nodes, CreateNode(c, n) \/ Open(c, n) PROVE RefsAccounted'
    BY <2>2, CreateNodeRefs, OpenRefs
  <2>3. CASE DeriveForAttr(c) \/ StatFails(c) \/ CloseFile(c) \/ CountLookup(c) \/ Release(c)
    BY <2>3, DeriveForAttrRefs, StatFailsRefs, CloseFileRefs, CountLookupRefs, ReleaseRefs
  <2>4. CASE \/ OpenFileFails(c) \/ StatName(c) \/ GetChild(c) \/ AddChild(c) \/ LockInodes(c)
             \/ LockInodesFails(c) \/ Change(c) \/ ChangeFails(c) \/ Relink(c)
    BY <2>4, QuietCalls
  <2>5. QED
    BY <1>1, <2>1, <2>2, <2>3, <2>4 DEF Serve
<1>2. ASSUME NEW c \in Users, NEW x \in Names,
             \/ Lookup(c, x) \/ Create(c, x) \/ Mkdir(c, x) \/ Unlink(c, x)
             \/ \E y \in Names : Rename(c, x, y)
      PROVE  RefsAccounted'
  <2>1. \E op, to : Request(c, op, x, to)
    BY <1>2 DEF Lookup, Create, Mkdir, Unlink, Rename
  <2>2. QED
    BY <2>1, QuietCalls
<1>3. ASSUME UNCHANGED <<item, leaked, handle, call>>,
             \A n \in Nodes : node'[n].held = node[n].held /\ node'[n].item = node[n].item
      PROVE  RefsAccounted'
  <2>1. SameRefs
    BY <1>3 DEF SameRefs, CallRefs
  <2>2. QED
    BY <2>1, SameRefsKeep DEF IInv
<1>4. ASSUME NEW n \in Nodes, Forget(n) PROVE RefsAccounted'
  BY <1>3, <1>4 DEF Forget, IInv, TypeOK
<1>5. ASSUME NEW n \in Nodes, DeleteNode(n) PROVE RefsAccounted'
  BY <1>3, <1>5 DEF DeleteNode
<1>6. ASSUME NEW n \in Nodes, FreeNode(n) PROVE RefsAccounted'
  BY <1>6, FreeNodeRefs
<1>7. CASE UNCHANGED vars
  BY <1>3, <1>7 DEF vars
<1>8. QED
  BY <1>1, <1>2, <1>4, <1>5, <1>6, <1>7 DEF Next, Quiet

-----------------------------------------------------------------------------
\* The invariant holds in every state.
LEMMA SpecIInv == Spec => []IInv
<1>1. IInv /\ [Next]_vars => IInv'
  BY TypeStep, LocatedStep, NodesStep, RefsStep DEF IInv
<1>2. QED
  BY InitIInv, <1>1, PTL DEF Spec

\* Types: a count of references never goes below zero, so that no item is given
\* back more often than it was taken.
THEOREM TypeCorrect == Spec => []TypeOK
<1>1. IInv => TypeOK
  BY DEF IInv
<1>2. QED
  BY SpecIInv, <1>1, PTL

\* References: every one to an item is of a Node that is held, of a handle or
\* of a call, or was lost by Create, whatever requests run side by side.
THEOREM RefsAreAccounted == Spec => []RefsAccounted
<1>1. IInv => RefsAccounted
  BY DEF IInv
<1>2. QED
  BY SpecIInv, <1>1, PTL

\* The map: fs.m never leads to a Node that has let go of its item.
THEOREM MapIsOfHolders == Spec => []MapNamesHolders
<1>1. IInv => MapNamesHolders
  BY DEF IInv
<1>2. QED
  BY SpecIInv, <1>1, PTL

-----------------------------------------------------------------------------
(***************************************************************************)
(* The inodes of a directory hang under the names their items stand at.    *)
(***************************************************************************)

\* The item of a Node stands at a name, as long as the Node holds it.
Stands(n, x) ==
    /\ node[n].item # None
    /\ node[n].held => item[node[n].item].pos = x

Solo == {"create", "mkdir", "unlink", "rename"}

\* A child that is being moved: nobody opens a file at its old name, no item
\* that is referred to stands there, and who has read the name comes late.
RelinkShape(c) ==
    LET x == call[c].name
    IN  /\ x \notin tree
        /\ \A i \in Items : item[i].refs > 0 => item[i].pos # x
        /\ \A e \in Users : call[e].stat = x => call[e].late
        /\ call[c].op = "rename" /\ child[x] # None /\ x \notin stale => Stands(child[x], call[c].to)

\* What a call knows of names: while it is not late its file has the name it
\* read, and inodeMtx lets nobody else move its child.
NameShape(c) ==
    /\ call[c].pc = "idle" <=> call[c].op = "none"
    /\ call[c].op \in Solo => \A d \in Users \ {c} : call[d].op \in {"none", "lookup"}
    /\ call[c].op = "unlink" => call[c].to = None
    /\ call[c].op = "rename" => call[c].to # call[c].name
    /\ call[c].pc \in {"make", "add", "change", "relink"} => inodeMtx = c
    /\ call[c].pc \in {"child", "make"} /\ ~call[c].late => item[call[c].item].pos = call[c].stat
    /\ call[c].pc \in {"add", "close", "count"} /\ ~call[c].late => Stands(call[c].node, call[c].stat)
    /\ call[c].pc = "relink" => RelinkShape(c)

Moving(x) == \E c \in Users : call[c].pc = "relink" /\ x \in {call[c].name, call[c].to}

ChildShape(x) == child[x] # None /\ x \notin stale => Moving(x) \/ Stands(child[x], x)

NamesInv == (\A c \in Users : NameShape(c)) /\ (\A x \in Entries : ChildShape(x))

-----------------------------------------------------------------------------
\* What every step but Change keeps: Nodes keep their items until they let go
\* of them, and items that stand somewhere stay there.
Kept ==
    /\ \A n \in Nodes : node[n].item # None =>
           node'[n].item = node[n].item /\ (node'[n].held => node[n].held)
    /\ \A i \in Items : item[i].pos # None => item'[i].pos = item[i].pos
    /\ Settled

\* A child that is left where it is, or taken away.
Left(x) == child'[x] \in {child[x], None} /\ (x \in stale /\ child'[x] # None => x \in stale')

LEMMA StandsKeep ==
    ASSUME IInv, Kept, NEW n \in Nodes, NEW x \in Entries, Stands(n, x)
    PROVE  node'[n].item # None /\ (node'[n].held => item'[node'[n].item].pos = x)
<1>1. node[n].item \in Items /\ node'[n].item = node[n].item /\ (node'[n].held => node[n].held)
  BY DEF Stands, Kept, IInv, TypeOK
<1>2. x # None /\ None \notin Items
  BY FuseAssumption DEF Entries
<1>3. QED
  BY <1>1, <1>2 DEF Stands, Kept

\* What a call knows stays true as long as others do not disturb it.
LEMMA ShapeKeeps ==
    ASSUME IInv, NamesInv, Kept, NEW d \in Users, call'[d] = call[d],
           call[d].op \in Solo => \A e \in Users \ {d} : call'[e].op \in {"none", "lookup"},
           call[d].pc \in {"make", "add", "change", "relink"} => inodeMtx' = d,
           call[d].pc = "relink" =>
               /\ call[d].name \notin tree'
               /\ \A e \in Users : call'[e].stat = call[d].name => call'[e].late
               /\ Left(call[d].name) \/ call[d].name \in stale'
    PROVE  NameShape(d)'
<1>1. NameShape(d) /\ CallShape(d)
  BY DEF NamesInv, IInv
<1>2. call[d].pc \in {"child", "make"} /\ ~call[d].late => item'[call[d].item].pos = call[d].stat
  BY <1>1, FuseAssumption DEF NameShape, CallShape, Kept, Entries
<1>3. ASSUME call[d].pc \in {"add", "close", "count"}, ~call[d].late
      PROVE  Stands(call[d].node, call[d].stat)'
  <2>1. call[d].node \in Nodes /\ call[d].stat \in Entries /\ Stands(call[d].node, call[d].stat)
    BY <1>1, <1>3 DEF CallShape, NameShape
  <2>2. QED
    BY <2>1, StandsKeep DEF Stands
<1>4. ASSUME call[d].pc = "relink", NEW x, x = call[d].name PROVE RelinkShape(d)'
  <2>1. /\ x \in Names /\ (call[d].op = "rename" => call[d].to \in Names)
        /\ RelinkShape(d) /\ x \notin tree' /\ (Left(x) \/ x \in stale')
        /\ \A e \in Users : call'[e].stat = x => call'[e].late
    BY <1>1, <1>4 DEF CallShape, NameShape
  <2>2. \A i \in Items : item'[i].refs > 0 => item'[i].pos # x
    BY <1>4, <2>1 DEF RelinkShape, Kept, Settled
  <2>3. ASSUME call[d].op = "rename", child'[x] # None, x \notin stale', NEW n, n = child'[x]
        PROVE  node'[n].item # None /\ (node'[n].held => item'[node'[n].item].pos = call[d].to)
    <3>1. n = child[x] /\ x \notin stale /\ n \in Nodes
      BY <2>1, <2>3 DEF Left, IInv, TypeOK, Entries
    <3>2. Stands(n, call[d].to)
      BY <1>4, <2>1, <2>3, <3>1 DEF RelinkShape
    <3>3. QED
      BY <2>1, <2>3, <3>1, <3>2, StandsKeep DEF Entries
  <2>4. call[d].op = "rename" /\ child'[x] # None /\ x \notin stale' => Stands(child[x], call[d].to)'
    BY <2>3 DEF Stands
  <2>5. QED
    BY <1>4, <2>1, <2>2, <2>4 DEF RelinkShape
<1>5. QED
  BY <1>1, <1>2, <1>3, <1>4 DEF NameShape

\* The name a call has after a step is the one it had, and late if it was, or
\* where an item stands that somebody refers to.
NameKept(c) ==
    \/ call'[c].stat = None
    \/ call'[c].stat = call[c].stat /\ (call[c].late => call'[c].late)
    \/ \E i \in Items : item[i].refs > 0 /\ item[i].pos = call'[c].stat

\* A step of one call that keeps all this, and lets go of inodeMtx only if the
\* call has it, disturbs no other call.
LEMMA OthersKeep ==
    ASSUME IInv, NamesInv, Kept, NEW c \in Users,
           \A d \in Users \ {c} : call'[d] = call[d],
           call'[c].op \in {call[c].op, "none"}, NameKept(c),
           inodeMtx' = inodeMtx \/ inodeMtx \in {None, c},
           call[c].op \in {"none", "lookup"} => tree' = tree,
           \A d \in Users \ {c} :
               call[d].pc = "relink" => Left(call[d].name) \/ call[d].name \in stale'
    PROVE  \A d \in Users \ {c} : NameShape(d)'
<1> SUFFICES ASSUME NEW d \in Users \ {c} PROVE NameShape(d)'
  OBVIOUS
<1>1. call'[d] = call[d] /\ NameShape(d) /\ CallShape(d)
  BY DEF NamesInv, IInv
<1>2. call[d].pc \in {"make", "add", "change", "relink"} => inodeMtx' = d
  BY <1>1, FuseAssumption DEF NameShape, IInv, TypeOK
<1>3. call[d].op \in Solo => \A e \in Users \ {d} : call'[e].op \in {"none", "lookup"}
  BY <1>1 DEF NameShape
<1>4. ASSUME call[d].pc = "relink"
      PROVE  /\ call[d].name \notin tree'
             /\ \A e \in Users : call'[e].stat = call[d].name => call'[e].late
             /\ Left(call[d].name) \/ call[d].name \in stale'
  <2>1. RelinkShape(d) /\ call[d].op \in Solo /\ call[d].name \in Names
    BY <1>1, <1>4 DEF NameShape, CallShape, Solo
  <2>2. tree' = tree
    BY <1>1, <2>1 DEF NameShape
  <2>3. call'[c].stat = call[d].name => call'[c].late
    BY <2>1, FuseAssumption DEF RelinkShape, NameKept
  <2>4. QED
    BY <1>4, <2>1, <2>2, <2>3 DEF RelinkShape
<1>5. QED
  BY <1>1, <1>2, <1>3, <1>4, ShapeKeeps

\* Children that stay where they are, or are taken away, keep their names when
\* no call stops moving them.
LEMMA ChildrenKeep ==
    ASSUME IInv, NamesInv, Kept, NEW x \in Entries, Left(x),
           Moving(x) => Moving(x)'
    PROVE  ChildShape(x)'
<1> SUFFICES ASSUME child'[x] # None, x \notin stale', NEW n, n = child[x]
             PROVE  Moving(x)' \/
                        (node'[n].item # None /\ (node'[n].held => item'[node'[n].item].pos = x))
  BY DEF ChildShape, Stands, Left
<1>1. n \in Nodes /\ ChildShape(x) /\ n # None /\ child'[x] = n /\ x \notin stale
  BY FuseAssumption DEF IInv, TypeOK, NamesInv, Left
<1>2. Moving(x) \/ Stands(n, x)
  BY <1>1 DEF ChildShape
<1>3. CASE Moving(x)
  BY <1>3
<1>4. CASE Stands(n, x)
  BY <1>1, <1>4, StandsKeep
<1>5. QED
  BY <1>2, <1>3, <1>4

LEMMA MovingKeep ==
    ASSUME NEW c \in Users, \A d \in Users \ {c} : call'[d] = call[d],
           call[c].pc # "relink", NEW x
    PROVE  Moving(x) => Moving(x)'
BY DEF Moving

\* A step of one call that leaves children where they are, or takes them away.
LEMMA CallKeeps ==
    ASSUME IInv, NamesInv, Kept, NEW c \in Users,
           \A d \in Users \ {c} : call'[d] = call[d],
           call[c].pc # "relink",
           call'[c].op \in {call[c].op, "none"}, NameKept(c),
           inodeMtx' = inodeMtx \/ inodeMtx \in {None, c},
           call[c].op \in {"none", "lookup"} => tree' = tree,
           \A x \in Entries : Left(x),
           NameShape(c)'
    PROVE  NamesInv'
<1>1. \A d \in Users \ {c} : call[d].pc = "relink" => call[d].name \in Entries
  BY DEF IInv, CallShape, Entries
<1>2. \A d \in Users \ {c} : NameShape(d)'
  BY <1>1, OthersKeep
<1>3. \A x \in Entries : ChildShape(x)'
  BY MovingKeep, ChildrenKeep
<1>4. QED
  BY <1>2, <1>3 DEF NamesInv

LEMMA SameChildren == ASSUME UNCHANGED <<child, stale>> PROVE \A x \in Entries : Left(x)
BY DEF Left

\* A call that is over knows nothing of names.
LEMMA IdleShape ==
    ASSUME IInv, NEW c \in Users, Done(c)
    PROVE  /\ call'[c].op = "none" /\ NameShape(c)' /\ NameKept(c)
           /\ \A d \in Users \ {c} : call'[d] = call[d]
<1>1. call'[c] = Idle /\ \A d \in Users \ {c} : call'[d] = call[d]
  BY DEF Done, IInv, TypeOK
<1>2. QED
  BY <1>1 DEF Idle, NameShape, NameKept, Solo

-----------------------------------------------------------------------------
\* The kernel lets requests that change names run one at a time, and a Lookup
\* beside any.
LEMMA RequestNames ==
    ASSUME IInv, NamesInv, NEW c \in Users, NEW op \in Ops, NEW x, NEW y, Request(c, op, x, y),
           op \in Solo => Alone, op = "unlink" => y = None, op = "rename" => y # x
    PROVE  NamesInv'
<1>1. /\ call'[c].pc \in {"lock", "open"} /\ call'[c].op = op /\ call'[c].name = x
      /\ call'[c].to = y /\ call'[c].stat = None
      /\ \A d \in Users \ {c} : call'[d] = call[d]
      /\ call[c].pc = "idle" /\ UNCHANGED <<tree, item, node, child, stale, inodeMtx>>
  BY DEF Request, Idle, At, IInv, TypeOK
<1>2. Kept
  BY <1>1, SameItems DEF Kept
<1>3. NameShape(c)'
  BY <1>1 DEF NameShape, Ops, Solo, Alone
<1>4. ASSUME NEW d \in Users \ {c} PROVE NameShape(d)'
  <2>1. call'[d] = call[d] /\ NameShape(d) /\ CallShape(d) /\ (op \notin Solo => op = "lookup")
    BY <1>1 DEF NamesInv, IInv, Ops, Solo
  <2>2. call[d].op \in Solo => \A e \in Users \ {d} : call'[e].op \in {"none", "lookup"}
    BY <1>1, <2>1 DEF NameShape, Alone, Solo
  <2>3. ASSUME call[d].pc = "relink"
        PROVE  /\ call[d].name \notin tree'
               /\ \A e \in Users : call'[e].stat = call[d].name => call'[e].late
    BY <1>1, <2>1, <2>3, FuseAssumption DEF NameShape, RelinkShape, CallShape
  <2>4. QED
    BY <1>1, <1>2, <2>1, <2>2, <2>3, ShapeKeeps DEF NameShape, Left
<1>5. \A z \in Entries : ChildShape(z)'
  BY <1>1, <1>2, MovingKeep, ChildrenKeep, SameChildren
<1>6. QED
  BY <1>3, <1>4, <1>5 DEF NamesInv

LEMMA OpenFileNames ==
    ASSUME IInv, NamesInv, NEW c \in Users, NEW i \in Items, OpenFile(c, i)
    PROVE  NamesInv'
<1>1. /\ call[c].pc = "open" /\ call[c].op \in {"lookup", "create", "mkdir"}
      /\ NameShape(c) /\ CallShape(c)
  BY DEF OpenFile, At, IInv, CallShape, NamesInv
<1>2. /\ call'[c].pc \in {"derive", "stat"} /\ call'[c].op = call[c].op
      /\ call'[c].name = call[c].name /\ call'[c].item = i /\ call'[c].to = call[c].to
      /\ call'[c].stat = call[c].stat
      /\ \A d \in Users \ {c} : call'[d] = call[d]
      /\ UNCHANGED <<node, child, stale, inodeMtx>>
  BY DEF OpenFile, IInv, TypeOK
<1>3. Kept
  BY <1>2, OpenFileItems DEF Kept
<1>4. NameShape(c)'
  BY <1>1, <1>2 DEF NameShape
<1>5. NameKept(c)
  BY <1>1, <1>2 DEF CallShape, NameKept
<1>6. call[c].op = "lookup" => tree' = tree
  BY DEF OpenFile
<1>7. QED
  BY <1>1, <1>2, <1>3, <1>4, <1>5, <1>6, SameChildren, CallKeeps

\* Steps that end a call, other than the last of a change.
LEMMA FailsNames ==
    ASSUME IInv, NamesInv, NEW c \in Users,
           OpenFileFails(c) \/ StatFails(c) \/ LockInodesFails(c) \/ ChangeFails(c)
    PROVE  NamesInv'
<1>1. Done(c) /\ UNCHANGED <<tree, node, child, stale>> /\ call[c].pc # "relink"
  BY DEF OpenFileFails, StatFails, LockInodesFails, ChangeFails, At
<1>2. inodeMtx' = inodeMtx \/ inodeMtx = c
  BY DEF OpenFileFails, StatFails, LockInodesFails, ChangeFails, At, NamesInv, NameShape
<1>3. Settled /\ \A j \in Items : item'[j].pos = item[j].pos
  <2>1. CASE StatFails(c)
    <3>1. Free(call[c].item) /\ call[c].pc \in {"derive", "stat"}
      BY <2>1 DEF StatFails, At
    <3>2. call[c].item \in Items /\ c \in CallRefs(call[c].item)
      BY <3>1 DEF IInv, CallShape, CallRefs
    <3>3. QED
      BY <3>1, <3>2, FreeItems
  <2>2. CASE ~StatFails(c)
    BY <2>2, SameItems DEF OpenFileFails, LockInodesFails, ChangeFails
  <2>3. QED
    BY <2>1, <2>2
<1>4. Kept
  BY <1>1, <1>3 DEF Kept
<1>5. QED
  BY <1>1, <1>2, <1>4, IdleShape, SameChildren, CallKeeps

\* A call that goes on, and leaves names as they are.
LEMMA GoesOn ==
    ASSUME IInv, NamesInv, Kept, NEW c \in Users, NEW pc, Goto(c, pc),
           pc \in {"idle", "open", "derive", "stat", "child", "make", "add", "close", "count",
                   "lock", "change", "relink"},
           call[c].pc # "relink", UNCHANGED <<tree, child, stale>>,
           inodeMtx' = inodeMtx \/ inodeMtx \in {None, c}, NameShape(c)'
    PROVE  NamesInv'
<1>1. /\ call'[c].op = call[c].op /\ call'[c].stat = call[c].stat /\ call'[c].late = call[c].late
      /\ \A d \in Users \ {c} : call'[d] = call[d]
  BY GotoStep DEF IInv
<1>2. NameKept(c)
  BY <1>1 DEF NameKept
<1>3. QED
  BY <1>1, <1>2, SameChildren, CallKeeps

LEMMA DeriveForAttrNames ==
    ASSUME IInv, NamesInv, NEW c \in Users, DeriveForAttr(c), NEW i, i = call[c].item
    PROVE  NamesInv'
<1>1. i \in Items /\ TypeOK /\ call[c].pc = "derive" /\ NameShape(c) /\ c \in CallRefs(i)
  BY DEF DeriveForAttr, At, IInv, CallShape, NamesInv, CallRefs
<1>2. Retain(i) /\ Goto(c, "stat") /\ UNCHANGED <<tree, node, child, stale, inodeMtx>>
  BY DEF DeriveForAttr
<1>3. Kept
  BY <1>1, <1>2, RetainItems DEF Kept
<1>4. NameShape(c)'
  BY <1>1, <1>2, GotoStep DEF NameShape
<1>5. QED
  BY <1>1, <1>2, <1>3, <1>4, GoesOn

\* The name a call reads is that of an item the call has open.
LEMMA StatNameNames ==
    ASSUME IInv, NamesInv, NEW c \in Users, StatName(c), NEW i, i = call[c].item
    PROVE  NamesInv'
<1>1. i \in Items /\ call[c].pc = "stat" /\ NameShape(c) /\ c \in CallRefs(i)
  BY DEF StatName, At, IInv, CallShape, NamesInv, CallRefs
<1>2. /\ call'[c].pc = "child" /\ call'[c].op = call[c].op /\ call'[c].name = call[c].name
      /\ call'[c].to = call[c].to /\ call'[c].item = i /\ call'[c].stat = item[i].pos
      /\ \A d \in Users \ {c} : call'[d] = call[d]
      /\ UNCHANGED <<tree, item, node, child, stale, inodeMtx>>
  BY DEF StatName, IInv, TypeOK
<1>3. Kept
  BY <1>2, SameItems DEF Kept
<1>4. NameShape(c)'
  BY <1>1, <1>2 DEF NameShape
<1>5. NameKept(c)
  BY <1>1, <1>2, ReferredTo DEF NameKept
<1>6. QED
  BY <1>1, <1>2, <1>3, <1>4, <1>5, SameChildren, CallKeeps

\* A child that is found stands at the name: while inodeMtx is free no call
\* moves one.
LEMMA GetChildNames ==
    ASSUME IInv, NamesInv, NEW c \in Users, GetChild(c), NEW x, x = call[c].stat,
           NEW n, n = child[x]
    PROVE  NamesInv'
<1>1. /\ call[c].pc = "child" /\ inodeMtx = None /\ NameShape(c) /\ CallShape(c)
      /\ UNCHANGED <<tree, item, node, child, stale>> /\ call \in [Users -> Calls]
  BY DEF GetChild, At, IInv, NamesInv, TypeOK, Calls
<1>2. x \in Entries /\ call[c].item \in Items
  BY <1>1 DEF CallShape
<1>3. /\ call'[c].node = n /\ call'[c].pc = (IF n = None THEN "make" ELSE "close")
      /\ call'[c].op = call[c].op /\ call'[c].name = call[c].name /\ call'[c].item = call[c].item
      /\ call'[c].to = call[c].to /\ call'[c].stat = x
      /\ \A d \in Users \ {c} : call'[d] = call[d]
  BY <1>1 DEF GetChild
<1>4. /\ call[c].late => call'[c].late
      /\ n # None /\ x \in stale => call'[c].late
      /\ n = None /\ ~call'[c].late => ~call[c].late
  BY <1>1 DEF GetChild, Calls
<1>5. Kept
  BY <1>1, SameItems DEF Kept
<1>6. ASSUME n # None, ~call'[c].late PROVE Stands(n, x)
  <2>1. ~Moving(x)
    BY <1>1, FuseAssumption DEF Moving, NamesInv, NameShape
  <2>2. QED
    BY <1>2, <1>4, <1>6, <2>1 DEF NamesInv, ChildShape
<1>7. n = None => inodeMtx' = c
  BY DEF GetChild
<1>8. NameShape(c)'
  BY <1>1, <1>3, <1>4, <1>6, <1>7 DEF NameShape, Stands
<1>9. NameKept(c)
  BY <1>3, <1>4 DEF NameKept
<1>10. QED
  BY <1>1, <1>3, <1>5, <1>8, <1>9, SameChildren, CallKeeps

\* Whether it is a new Node or the one of fs.m, its item is that of the file.
LEMMA CreateNodeNames ==
    ASSUME IInv, NamesInv, NEW c \in Users, NEW n \in Nodes, CreateNode(c, n),
           NEW i, i = call[c].item
    PROVE  NamesInv'
<1>1. /\ call[c].pc = "make" /\ i \in Items /\ TypeOK /\ call[c].stat \in Entries
      /\ inodeMtx = c /\ (~call[c].late => item[i].pos = call[c].stat)
      /\ NameShape(c) /\ call[c].op # "none" /\ c \in CallRefs(i)
  BY DEF CreateNode, At, IInv, CallShape, NamesInv, NameShape, CallRefs
<1>2. /\ call'[c].node = n /\ call'[c].pc = "add" /\ call'[c].op = call[c].op
      /\ call'[c].name = call[c].name /\ call'[c].to = call[c].to
      /\ call'[c].stat = call[c].stat /\ call'[c].late = call[c].late
      /\ \A d \in Users \ {c} : call'[d] = call[d]
      /\ UNCHANGED <<tree, child, stale, inodeMtx>>
  BY <1>1 DEF CreateNode, TypeOK
<1>3. Kept /\ item'[i].pos = item[i].pos /\ node'[n].item = i
  <2>1. CASE m[i] # None
    <3>1. n = m[i] /\ UNCHANGED <<item, node>>
      BY <2>1 DEF CreateNode
    <3>2. QED
      BY <1>1, <2>1, <3>1, SameItems DEF IInv, MapNamesHolders, Kept
  <2>2. CASE m[i] = None
    <3>1. /\ node[n].item = None /\ Retain(i)
          /\ node' = [node EXCEPT ![n] = [item |-> i, held |-> TRUE, lookups |-> 0]]
      BY <2>2 DEF CreateNode
    <3>2. Settled /\ \A j \in Items : item'[j].pos = item[j].pos
      BY <1>1, <3>1, RetainItems
    <3>3. QED
      BY <1>1, <3>1, <3>2 DEF Kept, TypeOK
  <2>3. QED
    BY <2>1, <2>2
<1>4. i # None
  BY <1>1, FuseAssumption
<1>5. NameShape(c)'
  BY <1>1, <1>2, <1>3, <1>4 DEF NameShape, Stands
<1>6. NameKept(c)
  BY <1>2 DEF NameKept
<1>7. QED
  BY <1>1, <1>2, <1>3, <1>5, <1>6, SameChildren, CallKeeps

\* A step that hangs the Node of a call under the name its file has, or under
\* the one it was asked for.
LEMMA HangsNames ==
    ASSUME IInv, NamesInv, NEW c \in Users, NEW n, n = call[c].node, NEW x \in Entries, Hang(c, x),
           call[c].pc \in {"add", "count"}, Kept,
           \A d \in Users \ {c} : call'[d] = call[d],
           call'[c].op \in {call[c].op, "none"}, NameKept(c), tree' = tree,
           inodeMtx' = inodeMtx \/ inodeMtx \in {None, c},
           NameShape(c)'
    PROVE  NamesInv'
<1>1. /\ n \in Nodes /\ call[c].stat \in Entries /\ child \in [Entries -> Nodes \union {None}]
      /\ ~call[c].late => Stands(n, call[c].stat)
  BY DEF IInv, CallShape, TypeOK, NamesInv, NameShape
<1>2. /\ child'[x] = n /\ \A z \in Entries \ {x} : Left(z)
      /\ call[c].late \/ call[c].stat # x => x \in stale'
  BY <1>1 DEF Hang, Left
<1>3. ASSUME NEW d \in Users \ {c}, call[d].pc = "relink"
      PROVE  Left(call[d].name) \/ call[d].name \in stale'
  <2>1. RelinkShape(d) /\ call[d].name \in Entries
    BY <1>3 DEF NamesInv, NameShape, IInv, CallShape, Entries
  <2>2. QED
    BY <1>2, <2>1 DEF RelinkShape
<1>4. \A d \in Users \ {c} : NameShape(d)'
  BY <1>3, OthersKeep
<1>5. ChildShape(x)'
  <2>1. ASSUME x \notin stale'
        PROVE  node'[n].item # None /\ (node'[n].held => item'[node'[n].item].pos = x)
    BY <1>1, <1>2, <2>1, StandsKeep
  <2>2. QED
    BY <1>2, <2>1 DEF ChildShape, Stands
<1>6. \A z \in Entries \ {x} : ChildShape(z)'
  BY <1>2, MovingKeep, ChildrenKeep
<1>7. QED
  BY <1>4, <1>5, <1>6 DEF NamesInv

LEMMA AddChildNames ==
    ASSUME IInv, NamesInv, NEW c \in Users, AddChild(c), NEW n, n = call[c].node
    PROVE  NamesInv'
<1>1. /\ call[c].pc = "add" /\ inodeMtx = c /\ TypeOK /\ NameShape(c)
      /\ n \in Nodes /\ call[c].stat \in Entries /\ (~call[c].late => Stands(n, call[c].stat))
  BY DEF AddChild, At, IInv, CallShape, NamesInv, NameShape
<1>2. Hang(c, call[c].stat) /\ UNCHANGED <<tree, item, node>> /\ Goto(c, "close")
  BY DEF AddChild
<1>3. Kept
  BY <1>2, SameItems DEF Kept
<1>4. ~call[c].late =>
          node'[n].item # None /\ (node'[n].held => item'[node'[n].item].pos = call[c].stat)
  BY <1>1, <1>3, StandsKeep
<1>5. /\ call'[c].pc = "close" /\ call'[c].op = call[c].op /\ call'[c].name = call[c].name
      /\ call'[c].to = call[c].to /\ call'[c].node = n
      /\ call'[c].stat = call[c].stat /\ call'[c].late = call[c].late
      /\ \A d \in Users \ {c} : call'[d] = call[d]
  BY <1>1, <1>2, GotoStep
<1>6. NameShape(c)'
  <2>1. /\ call[c].op # "none"
        /\ call[c].op \in Solo => \A d \in Users \ {c} : call[d].op \in {"none", "lookup"}
        /\ call[c].op = "unlink" => call[c].to = None
        /\ call[c].op = "rename" => call[c].to # call[c].name
    BY <1>1 DEF NameShape
  <2>2. ~call[c].late => Stands(call[c].node, call[c].stat)'
    BY <1>4, <1>5 DEF Stands
  <2>3. QED
    BY <1>5, <2>1, <2>2 DEF NameShape
<1>7. NameKept(c)
  BY <1>5 DEF NameKept
<1>8. QED
  BY <1>1, <1>2, <1>3, <1>5, <1>6, <1>7, HangsNames

LEMMA CloseFileNames ==
    ASSUME IInv, NamesInv, NEW c \in Users, CloseFile(c), NEW i, i = call[c].item,
           NEW n, n = call[c].node
    PROVE  NamesInv'
<1>1. /\ call[c].pc = "close" /\ TypeOK /\ NameShape(c) /\ i \in Items /\ c \in CallRefs(i)
      /\ n \in Nodes /\ call[c].stat \in Entries /\ (~call[c].late => Stands(n, call[c].stat))
  BY DEF CloseFile, At, IInv, CallShape, NamesInv, NameShape, CallRefs
<1>2. /\ UNCHANGED <<tree, node, child, stale, inodeMtx>> /\ Goto(c, "count")
      /\ item' = item \/ Free(i)
  BY DEF CloseFile
<1>3. Kept
  BY <1>1, <1>2, FreeItems, SameItems DEF Kept
<1>4. ~call[c].late =>
          node'[n].item # None /\ (node'[n].held => item'[node'[n].item].pos = call[c].stat)
  BY <1>1, <1>3, StandsKeep
<1>5. NameShape(c)'
  BY <1>1, <1>2, <1>4, GotoStep DEF NameShape, Stands
<1>6. QED
  BY <1>1, <1>2, <1>3, <1>5, GoesOn

LEMMA CountLookupNames ==
    ASSUME IInv, NamesInv, NEW c \in Users, CountLookup(c)
    PROVE  NamesInv'
<1>1. /\ call[c].pc = "count" /\ TypeOK /\ Done(c) /\ UNCHANGED <<tree, item, inodeMtx>>
      /\ call[c].name \in Entries /\ Hang(c, call[c].name)
  BY DEF CountLookup, At, IInv, CallShape, Entries
<1>2. Kept
  BY <1>1, SameItems DEF CountLookup, Kept, TypeOK
<1>3. QED
  BY <1>1, <1>2, IdleShape, HangsNames

-----------------------------------------------------------------------------
LEMMA LockInodesNames ==
    ASSUME IInv, NamesInv, NEW c \in Users, LockInodes(c)
    PROVE  NamesInv'
<1>1. call[c].pc = "lock" /\ TypeOK /\ NameShape(c) /\ Goto(c, "change")
      /\ UNCHANGED <<tree, item, node, child, stale>> /\ inodeMtx = None /\ inodeMtx' = c
  BY DEF LockInodes, At, IInv, NamesInv
<1>2. Kept
  BY <1>1, SameItems DEF Kept
<1>3. NameShape(c)'
  BY <1>1, GotoStep DEF NameShape
<1>4. QED
  BY <1>1, <1>2, <1>3, GoesOn

\* The items that stand at the two names move, and no others; who knows where
\* they stood comes late.
LEMMA ChangeItems ==
    ASSUME IInv, NEW c \in Users, Change(c), NEW x, x = call[c].name, NEW y, y = call[c].to,
           call[c].op = "unlink" => y = None, call[c].op = "rename" => y # x
    PROVE  /\ x \notin tree'
           /\ \A i \in Items :
                 /\ item[i].refs > 0 /\ item[i].pos = x /\ call[c].op = "rename" => item'[i].pos = y
                 /\ item[i].pos \notin {x, y} => item'[i].pos = item[i].pos
                 /\ item'[i].refs > 0 => item'[i].pos # x
<1>1. /\ x \in Names /\ call[c].op \in {"unlink", "rename"} /\ (call[c].op = "rename" => y \in Names)
      /\ x # y /\ x # Exile /\ x # None
      /\ item \in [Items -> [pos : Names \union {Exile, None}, refs : Nat]]
  BY FuseAssumption DEF Change, At, IInv, CallShape, TypeOK
<1>2. x \notin tree'
  BY <1>1 DEF Change
<1>3. ASSUME NEW i \in Items
      PROVE  /\ item[i].refs > 0 /\ item[i].pos = x /\ call[c].op = "rename" => item'[i].pos = y
             /\ item[i].pos \notin {x, y} => item'[i].pos = item[i].pos
             /\ item'[i].refs > 0 => item'[i].pos # x
  <2>1. item[i] \in [pos : Names \union {Exile, None}, refs : Nat]
    BY <1>1
  <2>2. CASE item[i].refs > 0 /\ item[i].pos = x
    BY <1>1, <2>1, <2>2 DEF Change
  <2>3. CASE item[i].refs > 0 /\ item[i].pos \notin {x, y}
    BY <1>1, <2>1, <2>3 DEF Change
  <2>4. CASE item[i].refs > 0 /\ item[i].pos = y
    BY <1>1, <2>1, <2>4, Located DEF Change, IInv, Located
  <2>5. CASE ~(item[i].refs > 0)
    BY <1>1, <2>1, <2>5 DEF Change
  <2>6. QED
    BY <2>2, <2>3, <2>4, <2>5
<1>4. QED
  BY <1>2, <1>3

LEMMA ChangeNames ==
    ASSUME IInv, NamesInv, NEW c \in Users, Change(c), NEW x, x = call[c].name, NEW y, y = call[c].to
    PROVE  NamesInv'
<1>1. /\ call[c].pc = "change" /\ TypeOK /\ NameShape(c) /\ CallShape(c) /\ inodeMtx = c
      /\ call[c].op \in {"unlink", "rename"} /\ (call[c].op = "rename" => y \in Names)
      /\ UNCHANGED <<node, child, stale, inodeMtx>> /\ x # y /\ x \in Names
      /\ call[c].op = "unlink" => y = None
  BY FuseAssumption DEF Change, At, IInv, CallShape, NamesInv, NameShape
<1>2. ASSUME NEW d \in Users \ {c}
      PROVE  /\ call[d].op \in {"none", "lookup"} /\ NameShape(d) /\ CallShape(d)
             /\ call[d].pc \notin {"make", "add", "change", "relink"}
  BY <1>1, <1>2 DEF NameShape, Solo, NamesInv, IInv
<1>3. \A z : ~Moving(z)
  BY <1>1, <1>2 DEF Moving
<1>4. /\ Going(c, "relink")
      /\ \A d \in Users \ {c} :
            Overtaken(d) /\ (call[d].stat \in {x, y} \ {None} => call'[d].late)
  BY ChangeStep
<1>5. ASSUME NEW n \in Nodes, node[n].held PROVE node[n].item \in Items /\ item[node[n].item].refs > 0
  <2>1. node[n].item \in Items /\ n \in NodeRefs(node[n].item)
    BY <1>5 DEF IInv, NodeShape, NodeRefs
  <2>2. QED
    BY <2>1, ReferredTo
<1>6. /\ x \notin tree'
      /\ \A i \in Items :
            /\ item[i].refs > 0 /\ item[i].pos = x /\ call[c].op = "rename" => item'[i].pos = y
            /\ item[i].pos \notin {x, y} => item'[i].pos = item[i].pos
            /\ item'[i].refs > 0 => item'[i].pos # x
  BY <1>1, ChangeItems
<1>7. ASSUME NEW n \in Nodes, NEW z, z \notin {x, y}, Stands(n, z) PROVE Stands(n, z)'
  BY <1>1, <1>5, <1>6, <1>7 DEF Stands
<1>8. ASSUME NEW z \in Entries, child[z] # None, z \notin stale
      PROVE  child[z] \in Nodes /\ Stands(child[z], z)
  BY <1>1, <1>3, <1>8 DEF NamesInv, ChildShape, TypeOK
<1>9. ASSUME NEW z \in Entries PROVE ChildShape(z)'
  <2>1. CASE z \in {x, y}
    BY <1>4, <2>1 DEF ChildShape, Moving, Going
  <2>2. CASE z \notin {x, y}
    <3>1. ASSUME child[z] # None, z \notin stale PROVE Stands(child[z], z)'
      <4>1. \A n \in Nodes : Stands(n, z) => Stands(n, z)'
        BY <1>7, <2>2
      <4>2. child[z] \in Nodes /\ Stands(child[z], z) /\ child' = child
        BY <1>1, <1>8, <3>1
      <4>3. QED
        BY <4>1, <4>2 DEF Stands
    <3>2. QED
      BY <1>1, <3>1 DEF ChildShape, Stands
  <2>3. QED
    BY <2>1, <2>2
<1>10. RelinkShape(c)'
  <2>1. \A e \in Users : call'[e].stat = x => call'[e].late
    <3>1. call'[c].stat = None /\ x # None
      BY <1>1, <1>4, FuseAssumption DEF CallShape, Going
    <3>2. \A e \in Users \ {c} : call'[e].stat = call[e].stat
      BY <1>4 DEF Overtaken
    <3>3. QED
      BY <1>4, <3>1, <3>2
  <2>2. ASSUME call[c].op = "rename", child[x] # None, x \notin stale, NEW n, n = child[x]
        PROVE  node[n].item # None /\ (node[n].held => item'[node[n].item].pos = y)
    <3>1. n \in Nodes /\ Stands(n, x)
      BY <1>1, <1>8, <2>2 DEF Entries
    <3>2. QED
      BY <1>5, <1>6, <2>2, <3>1 DEF Stands
  <2>3. call[c].op = "rename" /\ child'[x] # None /\ x \notin stale' => Stands(child[x], y)'
    BY <1>1, <2>2 DEF Stands
  <2>4. call'[c].name = x /\ call'[c].to = y /\ call'[c].op = call[c].op
    BY <1>4 DEF Going
  <2>5. QED
    BY <1>6, <2>1, <2>3, <2>4 DEF RelinkShape, Stands
<1>11. NameShape(c)'
  <2>1. \A d \in Users \ {c} : call'[d].op \in {"none", "lookup"}
    BY <1>2, <1>4 DEF Overtaken
  <2>2. QED
    BY <1>1, <1>4, <1>10, <2>1 DEF NameShape, Going
<1>12. ASSUME NEW d \in Users \ {c} PROVE NameShape(d)'
  <2>1. /\ Overtaken(d) /\ call[d].stat \in {x, y} \ {None} => call'[d].late
        /\ NameShape(d) /\ CallShape(d) /\ call[d].op \in {"none", "lookup"}
        /\ call[d].pc \notin {"make", "add", "change", "relink"} /\ Overtaken(d)
    BY <1>2, <1>4
  <2>2. ASSUME call[d].pc = "child", ~call'[d].late PROVE item'[call[d].item].pos = call[d].stat
    <3>1. call[d].item \in Items /\ call[d].stat \in Entries /\ ~call[d].late /\ None \notin Entries
      BY <2>1, <2>2, FuseAssumption DEF CallShape, Overtaken, Entries
    <3>2. item[call[d].item].pos = call[d].stat
      BY <2>1, <2>2, <3>1 DEF NameShape
    <3>3. call[d].stat \notin {x, y}
      BY <2>2, <3>1, <1>4
    <3>4. QED
      BY <1>6, <3>1, <3>2, <3>3
  <2>3. ASSUME call[d].pc \in {"close", "count"}, ~call'[d].late
        PROVE  Stands(call[d].node, call[d].stat)'
    <3>1. /\ call[d].node \in Nodes /\ call[d].stat \in Entries /\ ~call[d].late
          /\ None \notin Entries
      BY <2>1, <2>3, FuseAssumption DEF CallShape, Overtaken, Entries
    <3>2. Stands(call[d].node, call[d].stat)
      BY <2>1, <2>3, <3>1 DEF NameShape
    <3>3. call[d].stat \notin {x, y}
      BY <2>3, <3>1, <1>4
    <3>4. /\ node[call[d].node].item # None
          /\ node[call[d].node].held => item'[node[call[d].node].item].pos = call[d].stat
      BY <1>5, <1>6, <3>1, <3>2, <3>3 DEF Stands
    <3>5. call'[d].node = call[d].node /\ call'[d].stat = call[d].stat /\ node' = node
      BY <1>1, <2>1 DEF Overtaken
    <3>6. QED
      BY <3>4, <3>5 DEF Stands
  <2>4. QED
    BY <2>1, <2>2, <2>3 DEF NameShape, Overtaken, Solo, Stands
<1>13. QED
  BY <1>9, <1>11, <1>12 DEF NamesInv

\* The child moves after its item, and what stood at the new name is let go.
LEMMA RelinkNames ==
    ASSUME IInv, NamesInv, NEW c \in Users, Relink(c), NEW x, x = call[c].name, NEW y, y = call[c].to
    PROVE  NamesInv'
<1>1. /\ call[c].pc = "relink" /\ TypeOK /\ NameShape(c) /\ RelinkShape(c) /\ inodeMtx = c /\ x \in Names
      /\ call[c].op \in {"unlink", "rename"} /\ (call[c].op = "rename" => y \in Names)
      /\ Done(c) /\ UNCHANGED <<tree, node, item>> /\ x # y
      /\ call[c].op = "unlink" => y = None
  BY FuseAssumption DEF Relink, At, IInv, CallShape, NamesInv, NameShape
<1>2. \A d \in Users \ {c} : call[d].pc \notin {"make", "add", "change", "relink"}
  BY <1>1 DEF NameShape, NamesInv
<1>3. \A z : Moving(z) => z \in {x, y}
  BY <1>2 DEF Moving
<1>4. NameShape(c)' /\ call'[c].op = "none" /\ \A d \in Users \ {c} : call'[d] = call[d]
  BY <1>1, IdleShape
<1>5. Kept
  BY <1>1, SameItems DEF Kept
<1>6. ASSUME NEW d \in Users \ {c} PROVE NameShape(d)'
  <2>1. call[d].op \in Solo => \A e \in Users \ {d} : call'[e].op \in {"none", "lookup"}
    BY <1>4 DEF NamesInv, NameShape
  <2>2. QED
    BY <1>2, <1>4, <1>5, <2>1, ShapeKeeps
<1>7. ASSUME NEW z \in Entries, z \notin {x, y} PROVE ChildShape(z)'
  <2>1. child'[z] = child[z] /\ (z \in stale => z \in stale') /\ ~Moving(z)
    BY <1>1, <1>3, <1>7 DEF Relink, TypeOK
  <2>2. QED
    BY <1>5, <2>1, ChildrenKeep DEF Left
<1>8. CASE call[c].op = "rename"
  <2>1. /\ child' = [child EXCEPT ![x] = None, ![y] = child[x]]
        /\ child[x] # None /\ x \notin stale => Stands(child[x], y)
        /\ x \in stale => y \in stale'
    BY <1>1, <1>8 DEF Relink, RelinkShape
  <2>2. child'[y] = child[x] /\ child'[x] = None
    BY <1>1, <1>8, <2>1 DEF TypeOK, Entries
  <2>3. ChildShape(y)' /\ ChildShape(x)'
    BY <1>1, <2>1, <2>2 DEF ChildShape, Stands
  <2>4. QED
    BY <1>4, <1>6, <1>7, <2>3 DEF NamesInv
<1>9. CASE call[c].op = "unlink"
  <2>1. child'[x] = None
    BY <1>1, <1>9 DEF Relink, TypeOK, Entries
  <2>2. ChildShape(x)'
    BY <2>1 DEF ChildShape
  <2>3. y \notin Entries
    BY <1>1, <1>9, FuseAssumption DEF Entries
  <2>4. QED
    BY <1>4, <1>6, <1>7, <2>2, <2>3 DEF NamesInv
<1>10. QED
  BY <1>1, <1>8, <1>9

-----------------------------------------------------------------------------
\* Opening and closing a file, and what the bridge forgets.
LEMMA HandleNames ==
    ASSUME IInv, NamesInv, NEW c \in Users, Release(c) \/ \E n \in Nodes : Open(c, n)
    PROVE  Kept /\ UNCHANGED <<tree, child, stale, call, inodeMtx>>
<1>1. UNCHANGED <<tree, node, child, stale, call, inodeMtx>>
  BY DEF Release, Open
<1>2. CASE Release(c)
  <2>1. handle[c].item \in Items /\ c \in HandleRefs(handle[c].item) /\ Free(handle[c].item)
    BY <1>2 DEF Release, IInv, TypeOK, HandleRefs
  <2>2. QED
    BY <1>1, <2>1, FreeItems DEF Kept
<1>3. ASSUME NEW n \in Nodes, Open(c, n) PROVE Kept
  <2>1. node[n].item \in Items /\ Retain(node[n].item) /\ n \in NodeRefs(node[n].item)
    BY <1>3 DEF Open, IInv, NodeShape, NodeRefs
  <2>2. QED
    BY <1>1, <2>1, RetainItems DEF Kept
<1>4. QED
  BY <1>1, <1>2, <1>3

LEMMA ForgetNames ==
    ASSUME IInv, NamesInv, NEW n \in Nodes, Forget(n) \/ DeleteNode(n) \/ FreeNode(n)
    PROVE  /\ Kept /\ UNCHANGED <<tree, call, inodeMtx>>
           /\ \A x \in Entries : Left(x)
<1>1. UNCHANGED <<tree, call, inodeMtx>> /\ TypeOK
  BY DEF Forget, DeleteNode, FreeNode, IInv
<1>2. \A x \in Entries : Left(x)
  <2>1. CASE Forget(n)
    BY <2>1, FuseAssumption DEF Forget, Left
  <2>2. CASE DeleteNode(n) \/ FreeNode(n)
    BY <2>2, SameChildren DEF DeleteNode, FreeNode
  <2>3. QED
    BY <2>1, <2>2
<1>3. CASE Forget(n) \/ DeleteNode(n)
  <2>1. item' = item /\ \A k \in Nodes : node'[k].item = node[k].item /\ node'[k].held = node[k].held
    <3>1. node' = [node EXCEPT ![n].lookups = 0] \/ node' = node
      BY <1>3 DEF Forget, DeleteNode
    <3>2. node \in [Nodes -> [item : Items \union {None}, held : BOOLEAN, lookups : Nat]]
      BY <1>1 DEF TypeOK
    <3>3. \A k \in Nodes : node'[k].item = node[k].item /\ node'[k].held = node[k].held
      BY <3>1, <3>2
    <3>4. item' = item
      BY <1>3 DEF Forget, DeleteNode
    <3>5. QED
      BY <3>3, <3>4
  <2>2. QED
    BY <1>1, <1>2, <2>1, SameItems DEF Kept
<1>4. CASE FreeNode(n)
  <2>1. Settled /\ \A j \in Items : item'[j].pos = item[j].pos
    BY <1>4, FreeNodeItems
  <2>2. node' = [node EXCEPT ![n].held = FALSE]
    BY <1>4 DEF FreeNode
  <2>3. node \in [Nodes -> [item : Items \union {None}, held : BOOLEAN, lookups : Nat]]
    BY <1>1 DEF TypeOK
  <2>4. ASSUME NEW k \in Nodes
        PROVE  node'[k].item = node[k].item /\ (node'[k].held => node[k].held)
    BY <2>2, <2>3
  <2>5. Kept
    BY <2>1, <2>4 DEF Kept
  <2>6. QED
    BY <1>1, <1>2, <2>5
<1>5. QED
  BY <1>1, <1>2, <1>3, <1>4

\* Children that are taken away while no call goes on.
LEMMA AwayNames ==
    ASSUME IInv, NamesInv, Kept, UNCHANGED <<tree, call, inodeMtx>>,
           \A x \in Entries : Left(x)
    PROVE  NamesInv'
<1>1. \A x \in Entries : Moving(x) => Moving(x)'
  BY DEF Moving
<1>2. \A x \in Entries : ChildShape(x)'
  BY <1>1, ChildrenKeep
<1>3. ASSUME NEW d \in Users PROVE NameShape(d)'
  <2>1. NameShape(d) /\ CallShape(d) /\ call' = call /\ inodeMtx' = inodeMtx /\ tree' = tree
    BY DEF NamesInv, IInv
  <2>2. call[d].op \in Solo => \A e \in Users \ {d} : call'[e].op \in {"none", "lookup"}
    BY <2>1 DEF NameShape
  <2>3. call[d].pc = "relink" => RelinkShape(d) /\ call[d].name \in Entries
    BY <2>1 DEF NameShape, CallShape, Entries
  <2>4. call[d].pc = "relink" =>
            /\ call[d].name \notin tree' /\ Left(call[d].name)
            /\ \A e \in Users : call'[e].stat = call[d].name => call'[e].late
    BY <2>1, <2>3 DEF RelinkShape
  <2>5. call[d].pc \in {"make", "add", "change", "relink"} => inodeMtx' = d
    BY <2>1 DEF NameShape
  <2>6. QED
    BY <2>1, <2>2, <2>4, <2>5, ShapeKeeps
<1>4. QED
  BY <1>2, <1>3 DEF NamesInv

LEMMA NamesStep == IInv /\ NamesInv /\ [Next]_vars => NamesInv'
<1> SUFFICES ASSUME IInv, NamesInv, [Next]_vars
             PROVE  NamesInv'
  OBVIOUS
<1>1. ASSUME NEW c \in Users, Serve(c) PROVE NamesInv'
  <2>1. ASSUME NEW i \in Items, OpenFile(c, i) PROVE NamesInv'
    BY <2>1, OpenFileNames
  <2>2. ASSUME NEW n \in Nodes, CreateNode(c, n) PROVE NamesInv'
    BY <2>2, CreateNodeNames
  <2>3. CASE Release(c) \/ \E n \in Nodes : Open(c, n)
    BY <2>3, HandleNames, SameChildren, AwayNames
  <2>4. CASE OpenFileFails(c) \/ StatFails(c) \/ LockInodesFails(c) \/ ChangeFails(c)
    BY <2>4, FailsNames
  <2>5. CASE \/ DeriveForAttr(c) \/ StatName(c) \/ GetChild(c) \/ AddChild(c) \/ CloseFile(c)
             \/ CountLookup(c)
    BY <2>5, DeriveForAttrNames, StatNameNames, GetChildNames, AddChildNames, CloseFileNames,
       CountLookupNames
  <2>6. CASE LockInodes(c) \/ Change(c) \/ Relink(c)
    BY <2>6, LockInodesNames, ChangeNames, RelinkNames
  <2>7. QED
    BY <1>1, <2>1, <2>2, <2>3, <2>4, <2>5, <2>6 DEF Serve
<1>2. ASSUME NEW c \in Users, NEW x \in Names,
             Lookup(c, x) \/ Create(c, x) \/ Mkdir(c, x) \/ Unlink(c, x)
      PROVE  NamesInv'
  BY <1>2, RequestNames DEF Lookup, Create, Mkdir, Unlink, Ops, Solo
<1>3. ASSUME NEW c \in Users, NEW x \in Names, NEW y \in Names, Rename(c, x, y) PROVE NamesInv'
  BY <1>3, RequestNames DEF Rename, Ops
<1>4. ASSUME NEW n \in Nodes, Forget(n) \/ DeleteNode(n) \/ FreeNode(n) PROVE NamesInv'
  BY <1>4, ForgetNames, AwayNames
<1>5. CASE UNCHANGED vars
  <2>1. Kept /\ UNCHANGED <<tree, call, inodeMtx, child, stale>>
    BY <1>5, SameItems DEF vars, Kept
  <2>2. QED
    BY <2>1, SameChildren, AwayNames
<1>6. QED
  BY <1>1, <1>2, <1>3, <1>4, <1>5 DEF Next, Quiet

-----------------------------------------------------------------------------
\* Names: whenever inodeMtx is free, the inode under a name is of the item that
\* stands there, however Lookups, removals, renames and forgetting interleave,
\* unless it was hung there by a call that read the name before a change of it.
THEOREM ChildrenStandAtNames == Spec => []ChildStandsAtName
<1>1. Init => NamesInv
  BY DEF Init, Idle, NamesInv, NameShape, ChildShape, Solo
<1>2. IInv /\ IInv' /\ NamesInv /\ [Next]_vars => NamesInv'
  BY NamesStep
<1>3. IInv /\ NamesInv => ChildStandsAtName
  <2> SUFFICES ASSUME IInv, NamesInv, inodeMtx = None, NEW x \in Names \ stale, child[x] # None,
                      node[child[x]].held
               PROVE  item[node[child[x]].item].pos = x
    BY DEF ChildStandsAtName
  <2>1. ~Moving(x) /\ x \in Entries
    BY FuseAssumption DEF Moving, NamesInv, NameShape, Entries
  <2>2. QED
    BY <2>1 DEF NamesInv, ChildShape, Stands
<1>4. QED
  BY SpecIInv, <1>1, <1>2, <1>3, PTL DEF Spec
=============================================================================
