------------------------------ MODULE FileTree ------------------------------
(***************************************************************************)
(* What the calls on names promise: Mkdir, an OpenFile that creates,       *)
(* Remove and Rename are each one step on a tree of directories and files, *)
(* or change nothing, save for a Rename that fails because its source has  *)
(* no data, which costs the target.  A call that is cut short, by a crash  *)
(* or by a failing system call, changes nothing but its own path, or what  *)
(* is at or below the two paths of a Rename.                               *)
(***************************************************************************)
EXTENDS Naturals, Sequences, SequencesExt

CONSTANTS
    Paths,      \* the paths there may be, sequences of names
    Ids,        \* the data of files, each with an identity
    NoData, Nothing, Dir

Entries == {Nothing, Dir} \union [obj : BOOLEAN, data : Ids \union {NoData}]

Parent(p) == Front(p)
AtOrBelow(p, q) == IsPrefix(q, p)
Apart(p, q) == ~AtOrBelow(p, q) /\ ~AtOrBelow(q, p)

\* Where a path at or below s is once s has become t.
Reroot(p, s, t) == t \o SubSeq(p, Len(s) + 1, Len(p))

VARIABLES
    tree,       \* what stands at each path
    from, to,   \* the paths of the call that ends, one path unless it is a Rename
    cut         \* the call that ends has been cut short

IsFile(p) == tree[p] \notin {Nothing, Dir}
HasData(p) == IsFile(p) /\ tree[p].data # NoData
InDir(p) == Parent(p) # <<>> => tree[Parent(p)] = Dir

MakeDir(p) ==
    /\ tree[p] = Nothing /\ InDir(p)
    /\ tree' = [tree EXCEPT ![p] = Dir]

\* A new file, or new data for a file that has none here.
MakeFile(p, id) ==
    /\ tree[p] = Nothing => InDir(p)
    /\ tree[p] # Dir /\ ~HasData(p)
    /\ tree' = [tree EXCEPT ![p] = [obj |-> IsFile(p) /\ tree[p].obj, data |-> id]]

Delete(p) ==
    /\ IsFile(p) => HasData(p)
    /\ tree[p] # Nothing
    /\ \A q \in Paths : tree[p] = Dir /\ AtOrBelow(q, p) /\ q # p => tree[q] = Nothing
    /\ tree' = [tree EXCEPT ![p] = Nothing]

\* A file replaces a file; whatever is below a directory goes along.
Move(s, t) ==
    /\ Apart(s, t) /\ InDir(t)
    /\ tree[t] # Nothing => HasData(t)
    /\ tree[s] # Dir => HasData(s)
    /\ LET along(p, q) == IF tree[s] = Dir THEN AtOrBelow(p, q) ELSE p = q
           at(p) == IF p \in Paths THEN tree[p] ELSE Nothing
       IN  tree' = [p \in Paths |->
               IF along(p, t) THEN at(Reroot(p, t, s))
               ELSE IF along(p, s) THEN Nothing ELSE tree[p]]

LoseTarget(s, t) ==
    /\ Apart(s, t) /\ tree[s] # Nothing /\ ~HasData(s)
    /\ HasData(t)
    /\ tree' = [tree EXCEPT ![t] = Nothing]

CutShort ==
    /\ cut' /\ to \in Paths
    /\ \A p \in Paths :
          \/ p = to
          \/ from # to /\ (AtOrBelow(p, from) \/ AtOrBelow(p, to))
          \/ tree'[p] = tree[p]

Init == \A p \in Paths : tree[p] # Nothing => InDir(p)

Next ==
    \/ \E p \in Paths :
          \/ MakeDir(p) \/ Delete(p)
          \/ \E id \in Ids : MakeFile(p, id)
    \/ \E s, t \in Paths : Move(s, t) \/ LoseTarget(s, t)
    \/ CutShort

Spec == Init /\ [][Next]_tree
=============================================================================
