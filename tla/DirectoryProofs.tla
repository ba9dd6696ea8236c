-------------------------- MODULE DirectoryProofs --------------------------
(***************************************************************************)
(* Whatever fails and wherever the process dies, the calls on names lose   *)
(* no data but that of a Rename in place, open Files follow their nodes,   *)
(* and each call is one step on the tree or none: for any paths, users and *)
(* number of calls.                                                        *)
(***************************************************************************)
EXTENDS Directories, Integers, SequenceTheorems, TLAPS

\* Paths are compared name by name.
LEMMA BelowPoints ==
    ASSUME NEW S, NEW p \in Seq(S), NEW q \in Seq(S)
    PROVE  AtOrBelow(p, q) <=> Len(q) <= Len(p) /\ \A i \in 1..Len(q) : p[i] = q[i]
<1>0. Len(p) \in Nat /\ Len(q) \in Nat
  BY LenProperties
<1>. DEFINE n == Len(q)
<1>1. /\ SubSeq(q, 1, n) \in Seq(S) /\ Len(SubSeq(q, 1, n)) = n
      /\ \A i \in 1..n : SubSeq(q, 1, n)[i] = q[i]
  <2>1. \A i \in 1..n : q[i] \in S
    BY ElementOfSeq
  <2>. QED
    BY <1>0, <2>1, SubSeqProperties
<1>2. ASSUME n <= Len(p)
      PROVE  /\ SubSeq(p, 1, n) \in Seq(S) /\ Len(SubSeq(p, 1, n)) = n
             /\ \A i \in 1..n : SubSeq(p, 1, n)[i] = p[i]
  <2>1. \A i \in 1..n : p[i] \in S
    BY <1>0, <1>2, ElementOfSeq
  <2>. QED
    BY <1>0, <2>1, SubSeqProperties
<1>3. ASSUME n <= Len(p), \A i \in 1..n : p[i] = q[i]
      PROVE  SubSeq(q, 1, n) = SubSeq(p, 1, n)
  BY <1>0, <1>1, <1>2, <1>3, SeqEqual
<1>4. ASSUME n <= Len(p), SubSeq(q, 1, n) = SubSeq(p, 1, n)
      PROVE  \A i \in 1..n : p[i] = q[i]
  BY <1>1, <1>2, <1>4
<1>. QED
  BY <1>3, <1>4 DEF AtOrBelow, IsPrefix

LEMMA RerootPoints ==
    ASSUME NEW S, NEW p \in Seq(S), NEW s \in Seq(S), NEW t \in Seq(S), AtOrBelow(p, s)
    PROVE  /\ Reroot(p, s, t) \in Seq(S)
           /\ Len(Reroot(p, s, t)) = Len(t) + (Len(p) - Len(s))
           /\ \A i \in 1..Len(t) + (Len(p) - Len(s)) :
                 Reroot(p, s, t)[i] = IF i <= Len(t) THEN t[i] ELSE p[i - Len(t) + Len(s)]
<1>0. Len(p) \in Nat /\ Len(s) \in Nat /\ Len(t) \in Nat /\ Len(s) <= Len(p)
  BY LenProperties, BelowPoints
<1>. DEFINE r == SubSeq(p, Len(s) + 1, Len(p))
<1>1. \A i \in (Len(s) + 1)..Len(p) : p[i] \in S
  BY <1>0, ElementOfSeq
<1>2. /\ r \in Seq(S) /\ Len(r) = Len(p) - Len(s)
      /\ \A i \in 1..(Len(p) - (Len(s) + 1) + 1) : r[i] = p[(Len(s) + 1) + i - 1]
  <2>1. /\ r \in Seq(S) /\ Len(r) = IF Len(s) + 1 <= Len(p) THEN Len(p) - (Len(s) + 1) + 1 ELSE 0
        /\ \A i \in 1..(Len(p) - (Len(s) + 1) + 1) : r[i] = p[(Len(s) + 1) + i - 1]
    <3>. Len(s) + 1 \in Int /\ Len(p) \in Int
      BY <1>0
    <3>. QED
      BY <1>1, SubSeqProperties
  <2>. QED
    BY <2>1, <1>0
<1>. HIDE DEF r
<1>3. /\ t \o r \in Seq(S) /\ Len(t \o r) = Len(t) + Len(r)
      /\ \A i \in 1 .. Len(t) + Len(r) : (t \o r)[i] = IF i <= Len(t) THEN t[i] ELSE r[i - Len(t)]
  BY <1>2, ConcatProperties
<1>4. ASSUME NEW i \in 1..Len(t) + (Len(p) - Len(s)), ~(i <= Len(t))
      PROVE  r[i - Len(t)] = p[i - Len(t) + Len(s)]
  <2>1. i - Len(t) \in 1..(Len(p) - (Len(s) + 1) + 1)
    BY <1>0, <1>4
  <2>2. (Len(s) + 1) + (i - Len(t)) - 1 = i - Len(t) + Len(s)
    BY <1>0, <1>4
  <2>. QED
    BY <1>2, <2>1, <2>2
<1>5. Reroot(p, s, t) = t \o r
  BY DEF Reroot, r
<1>. QED
  BY <1>0, <1>2, <1>3, <1>4, <1>5

\* AtOrBelow is an order in which what is above a path is a chain.
LEMMA BelowRefl ==
    ASSUME NEW S, NEW p \in Seq(S)
    PROVE  AtOrBelow(p, p)
<1>. QED
  BY BelowPoints, LenProperties

LEMMA BelowTrans ==
    ASSUME NEW S, NEW p \in Seq(S), NEW q \in Seq(S), NEW r \in Seq(S),
           AtOrBelow(p, q), AtOrBelow(q, r)
    PROVE  AtOrBelow(p, r)
<1>1. Len(p) \in Nat /\ Len(q) \in Nat /\ Len(r) \in Nat
  BY LenProperties
<1>2. /\ Len(q) <= Len(p) /\ \A i \in 1..Len(q) : p[i] = q[i]
      /\ Len(r) <= Len(q) /\ \A i \in 1..Len(r) : q[i] = r[i]
  BY BelowPoints
<1>3. \A i \in 1..Len(r) : i \in 1..Len(q)
  BY <1>1, <1>2
<1>4. \A i \in 1..Len(r) : p[i] = r[i]
  BY <1>2, <1>3
<1>5. Len(r) <= Len(p)
  BY <1>1, <1>2
<1>. QED
  BY <1>4, <1>5, BelowPoints

LEMMA BelowAnti ==
    ASSUME NEW S, NEW p \in Seq(S), NEW q \in Seq(S), AtOrBelow(p, q), AtOrBelow(q, p)
    PROVE  p = q
<1>1. Len(p) \in Nat /\ Len(q) \in Nat
  BY LenProperties
<1>. QED
  BY <1>1, BelowPoints, SeqEqual

LEMMA BelowChain ==
    ASSUME NEW S, NEW p \in Seq(S), NEW q \in Seq(S), NEW r \in Seq(S),
           AtOrBelow(p, q), AtOrBelow(p, r)
    PROVE  AtOrBelow(q, r) \/ AtOrBelow(r, q)
<1>1. Len(p) \in Nat /\ Len(q) \in Nat /\ Len(r) \in Nat
  BY LenProperties
<1>2. /\ \A i \in 1..Len(q) : p[i] = q[i]
      /\ \A i \in 1..Len(r) : p[i] = r[i]
  BY BelowPoints
<1>3. CASE Len(r) <= Len(q)
  <2>1. \A i \in 1..Len(r) : q[i] = r[i]
    BY <1>1, <1>2, <1>3
  <2>. QED
    BY <1>3, <2>1, BelowPoints
<1>4. CASE Len(q) <= Len(r)
  <2>1. \A i \in 1..Len(q) : r[i] = q[i]
    BY <1>1, <1>2, <1>4
  <2>. QED
    BY <1>4, <2>1, BelowPoints
<1>. QED
  BY <1>1, <1>3, <1>4

LEMMA BelowParent ==
    ASSUME NEW S, NEW p \in Seq(S), Len(p) > 0
    PROVE  /\ Parent(p) \in Seq(S) /\ Below(p, Parent(p))
           /\ \A q \in Seq(S) : Below(p, q) => AtOrBelow(Parent(p), q)
<1>. DEFINE n == Len(p) - 1
<1>1. Len(p) \in Nat \ {0} /\ n \in Nat
  BY LenProperties
<1>2. \A i \in 1..n : p[i] \in S
  BY <1>1, ElementOfSeq
<1>3. /\ SubSeq(p, 1, n) \in Seq(S) /\ Len(SubSeq(p, 1, n)) = n
      /\ \A i \in 1..n : SubSeq(p, 1, n)[i] = p[i]
  <2>1. /\ SubSeq(p, 1, n) \in Seq(S)
        /\ Len(SubSeq(p, 1, n)) = IF 1 <= n THEN n - 1 + 1 ELSE 0
        /\ \A i \in 1..(n - 1 + 1) : SubSeq(p, 1, n)[i] = p[1 + i - 1]
    <3>. 1 \in Int /\ n \in Int
      BY <1>1
    <3>. HIDE DEF n
    <3>. QED
      BY <1>2, SubSeqProperties
  <2>. HIDE DEF n
  <2>. QED
    BY <1>1, <2>1
<1>4. Parent(p) = SubSeq(p, 1, n)
  BY DEF Parent, Front
<1>. HIDE DEF n
<1>5. n < Len(p)
  BY <1>1 DEF n
<1>6. Below(p, Parent(p))
  <2>1. AtOrBelow(p, Parent(p))
    <3>1. /\ Parent(p) \in Seq(S) /\ Len(Parent(p)) <= Len(p)
          /\ \A i \in 1..Len(Parent(p)) : p[i] = Parent(p)[i]
      BY <1>1, <1>3, <1>4, <1>5
    <3>. QED
      BY <3>1, BelowPoints
  <2>. QED
    BY <1>1, <1>3, <1>4, <1>5, <2>1 DEF Below
<1>7. ASSUME NEW q \in Seq(S), Below(p, q)
      PROVE  AtOrBelow(Parent(p), q)
  <2>1. Len(q) \in Nat /\ Len(q) <= Len(p) /\ \A i \in 1..Len(q) : p[i] = q[i]
    BY <1>7, BelowPoints, LenProperties DEF Below
  <2>2. Len(q) # Len(p)
    BY <1>7, <2>1, SeqEqual DEF Below
  <2>3. Len(q) <= n
    BY <1>1, <2>1, <2>2 DEF n
  <2>4. \A i \in 1..Len(q) : i \in 1..n
    BY <1>1, <2>1, <2>3
  <2>5. \A i \in 1..Len(q) : Parent(p)[i] = q[i]
    BY <1>3, <1>4, <2>1, <2>4
  <2>. QED
    BY <1>3, <1>4, <2>3, <2>5, BelowPoints
<1>. QED
  BY <1>3, <1>4, <1>6, <1>7

\* Reroot carries what is at or below s to what is at or below t, and back.
LEMMA RerootInto ==
    ASSUME NEW S, NEW p \in Seq(S), NEW s \in Seq(S), NEW t \in Seq(S), AtOrBelow(p, s)
    PROVE  Reroot(p, s, t) \in Seq(S) /\ AtOrBelow(Reroot(p, s, t), t)
<1>1. Len(p) \in Nat /\ Len(s) \in Nat /\ Len(t) \in Nat /\ Len(s) <= Len(p)
  BY BelowPoints, LenProperties
<1>2. /\ Reroot(p, s, t) \in Seq(S)
      /\ Len(Reroot(p, s, t)) = Len(t) + (Len(p) - Len(s))
      /\ \A i \in 1..Len(t) + (Len(p) - Len(s)) :
            Reroot(p, s, t)[i] = IF i <= Len(t) THEN t[i] ELSE p[i - Len(t) + Len(s)]
  BY RerootPoints
<1>3. ASSUME NEW i \in 1..Len(t)
      PROVE  Reroot(p, s, t)[i] = t[i]
  <2>1. i \in 1..Len(t) + (Len(p) - Len(s)) /\ i <= Len(t)
    BY <1>1
  <2>. QED
    BY <1>2, <2>1
<1>4. Len(t) <= Len(Reroot(p, s, t))
  BY <1>1, <1>2
<1>. QED
  BY <1>2, <1>3, <1>4, BelowPoints

LEMMA RerootBack ==
    ASSUME NEW S, NEW p \in Seq(S), NEW s \in Seq(S), NEW t \in Seq(S), AtOrBelow(p, s)
    PROVE  Reroot(Reroot(p, s, t), t, s) = p
<1>. DEFINE q == Reroot(p, s, t)
<1>1. /\ Len(p) \in Nat /\ Len(s) \in Nat /\ Len(t) \in Nat /\ Len(s) <= Len(p)
      /\ \A i \in 1..Len(s) : p[i] = s[i]
  BY BelowPoints, LenProperties
<1>2. /\ q \in Seq(S)
      /\ Len(q) = Len(t) + (Len(p) - Len(s))
      /\ \A i \in 1..Len(t) + (Len(p) - Len(s)) :
            q[i] = IF i <= Len(t) THEN t[i] ELSE p[i - Len(t) + Len(s)]
  BY RerootPoints
<1>3. q \in Seq(S) /\ AtOrBelow(q, t)
  BY RerootInto
<1>. HIDE DEF q
<1>. DEFINE r == Reroot(q, t, s)
<1>4. /\ r \in Seq(S)
      /\ Len(r) = Len(s) + (Len(q) - Len(t))
      /\ \A i \in 1..Len(s) + (Len(q) - Len(t)) :
            r[i] = IF i <= Len(s) THEN s[i] ELSE q[i - Len(s) + Len(t)]
  BY <1>3, RerootPoints, SMTT(30)
<1>. HIDE DEF r
<1>5. Len(r) = Len(p)
  BY <1>1, <1>2, <1>4
<1>6. ASSUME NEW i \in 1..Len(r)
      PROVE  r[i] = p[i]
  <2>1. i \in 1..Len(p) /\ i \in 1..Len(s) + (Len(q) - Len(t)) /\ i \in Int
    BY <1>1, <1>2, <1>4, <1>5
  <2>2. CASE i <= Len(s)
    BY <1>1, <1>4, <2>1, <2>2
  <2>3. CASE ~(i <= Len(s))
    <3>1. r[i] = q[i - Len(s) + Len(t)]
      BY <1>4, <2>1, <2>3
    <3>2. /\ i - Len(s) + Len(t) \in 1..Len(t) + (Len(p) - Len(s))
          /\ ~(i - Len(s) + Len(t) <= Len(t))
          /\ (i - Len(s) + Len(t)) - Len(t) + Len(s) = i
      BY <1>1, <2>1, <2>3
    <3>. QED
      BY <1>2, <3>1, <3>2
  <2>. QED
    BY <2>2, <2>3
<1>7. r = p
  BY <1>4, <1>5, <1>6, SeqEqual
<1>. QED
  BY <1>7 DEF q, r

LEMMA RerootOrder ==
    ASSUME NEW S, NEW p \in Seq(S), NEW q \in Seq(S), NEW s \in Seq(S), NEW t \in Seq(S),
           AtOrBelow(p, q), AtOrBelow(q, s)
    PROVE  AtOrBelow(Reroot(p, s, t), Reroot(q, s, t))
<1>1. AtOrBelow(p, s)
  BY BelowTrans
<1>2. /\ Len(p) \in Nat /\ Len(q) \in Nat /\ Len(s) \in Nat /\ Len(t) \in Nat
      /\ Len(q) <= Len(p) /\ Len(s) <= Len(q)
      /\ \A i \in 1..Len(q) : p[i] = q[i]
  BY BelowPoints, LenProperties
<1>. DEFINE Points(r, x) ==
              /\ r \in Seq(S) /\ Len(r) = Len(t) + (Len(x) - Len(s))
              /\ \A i \in 1..Len(t) + (Len(x) - Len(s)) :
                    r[i] = IF i <= Len(t) THEN t[i] ELSE x[i - Len(t) + Len(s)]
            a == Reroot(p, s, t)
            b == Reroot(q, s, t)
<1>r. ASSUME NEW x \in Seq(S), AtOrBelow(x, s)
      PROVE  Points(Reroot(x, s, t), x)
  BY <1>r, RerootPoints
<1>. HIDE DEF Points
<1>s. Points(a, p) /\ Points(b, q)
  BY <1>1, <1>r
<1>. HIDE DEF a, b
<1>3. /\ a \in Seq(S) /\ Len(a) = Len(t) + (Len(p) - Len(s))
      /\ \A i \in 1..Len(t) + (Len(p) - Len(s)) :
            a[i] = IF i <= Len(t) THEN t[i] ELSE p[i - Len(t) + Len(s)]
  BY <1>s DEF Points
<1>4. /\ b \in Seq(S) /\ Len(b) = Len(t) + (Len(q) - Len(s))
      /\ \A i \in 1..Len(t) + (Len(q) - Len(s)) :
            b[i] = IF i <= Len(t) THEN t[i] ELSE q[i - Len(t) + Len(s)]
  BY <1>s DEF Points
<1>5. Len(b) <= Len(a)
  BY <1>2, <1>3, <1>4
<1>6. ASSUME NEW i \in 1..Len(b)
      PROVE  a[i] = b[i]
  <2>1. i \in 1..Len(t) + (Len(q) - Len(s)) /\ i \in 1..Len(t) + (Len(p) - Len(s))
    BY <1>2, <1>3, <1>4
  <2>2. CASE i <= Len(t)
    BY <1>3, <1>4, <2>1, <2>2
  <2>3. CASE ~(i <= Len(t))
    <3>1. i - Len(t) + Len(s) \in 1..Len(q)
      BY <1>2, <2>1, <2>3
    <3>. QED
      BY <1>2, <1>3, <1>4, <2>1, <2>3, <3>1
  <2>. QED
    BY <2>2, <2>3
<1>7. AtOrBelow(a, b)
  BY <1>3, <1>4, <1>5, <1>6, BelowPoints
<1>. QED
  BY <1>7 DEF a, b

LEMMA RerootTop ==
    ASSUME NEW S, NEW s \in Seq(S), NEW t \in Seq(S)
    PROVE  Reroot(s, s, t) = t
<1>1. Len(s) \in Nat /\ Len(t) \in Nat
  BY LenProperties
<1>2. SubSeq(s, Len(s) + 1, Len(s)) = <<>>
  BY <1>1, SubSeqEmpty
<1>. QED
  BY <1>2, ConcatEmptySeq DEF Reroot

-----------------------------------------------------------------------------
\* The same of the paths there may be.
LEMMA PathFacts ==
    /\ Root \in Seq(Names)
    /\ \A p \in Paths : p \in Seq(Names) /\ p # Root /\ AtOrBelow(p, p)
    /\ \A p \in Paths : Parent(p) # Root => Parent(p) \in Paths /\ Below(p, Parent(p))
<1>1. Root \in Seq(Names) /\ Len(Root) = 0
  BY EmptySeq DEF Root
<1>2. ASSUME NEW p \in Paths
      PROVE  /\ p \in Seq(Names) /\ p # Root /\ AtOrBelow(p, p)
             /\ Parent(p) # Root => Parent(p) \in Paths /\ Below(p, Parent(p))
  <2>1. p \in Seq(Names) /\ Len(p) > 0 /\ (Len(p) > 1 => Front(p) \in Paths)
    <3>1. p \in Seq(Names) /\ Len(p) > 0 /\ \A n \in 1..Len(p) : SubSeq(p, 1, n) \in Paths
      BY DirectoriesAssumption
    <3>2. Len(p) \in Nat
      BY <3>1, LenProperties
    <3>3. Len(p) > 1 => Len(p) - 1 \in 1..Len(p)
      BY <3>2
    <3>. QED
      BY <3>1, <3>3 DEF Front
  <2>2. p # Root /\ AtOrBelow(p, p) /\ Below(p, Parent(p))
    BY <1>1, <2>1, BelowRefl, BelowParent
  <2>3. ASSUME ~(Len(p) > 1)
        PROVE  Parent(p) = Root
    <3>. DEFINE n == Len(p)
    <3>0. n \in Nat /\ n > 0 /\ ~(n > 1)
      BY <2>1, <2>3, LenProperties
    <3>. HIDE DEF n
    <3>1. n = 1
      BY <3>0
    <3>2. SubSeq(p, 1, n - 1) = <<>>
      BY <3>1, SubSeqEmpty
    <3>. QED
      BY <3>2 DEF Parent, Front, Root, n
  <2>. QED
    BY <2>1, <2>2, <2>3 DEF Parent
<1>. QED
  BY <1>1, <1>2

\* What is above a path that may be may be there, too.
LEMMA AbovePath ==
    ASSUME NEW p \in Paths, NEW q \in Seq(Names), q # Root, AtOrBelow(p, q)
    PROVE  q \in Paths
<1>1. p \in Seq(Names) /\ \A n \in 1..Len(p) : SubSeq(p, 1, n) \in Paths
  BY DirectoriesAssumption
<1>2. Len(q) \in Nat /\ Len(p) \in Nat /\ Len(q) # 0
  BY <1>1, LenProperties, EmptySeq DEF Root
<1>3. Len(q) <= Len(p) /\ SubSeq(q, 1, Len(q)) = SubSeq(p, 1, Len(q))
  BY DEF AtOrBelow, IsPrefix
<1>4. SubSeq(q, 1, Len(q)) = q
  BY SubSeqFull
<1>5. Len(q) \in 1..Len(p)
  BY <1>2, <1>3
<1>. QED
  BY <1>1, <1>3, <1>4, <1>5

LEMMA Chains ==
    ASSUME NEW p \in Seq(Names), NEW q \in Seq(Names), NEW r \in Seq(Names)
    PROVE  /\ AtOrBelow(p, q) /\ AtOrBelow(q, r) => AtOrBelow(p, r)
           /\ AtOrBelow(p, q) /\ AtOrBelow(q, p) => p = q
           /\ AtOrBelow(p, q) /\ AtOrBelow(p, r) => AtOrBelow(q, r) \/ AtOrBelow(r, q)
<1>1. AtOrBelow(p, q) /\ AtOrBelow(q, r) => AtOrBelow(p, r)
  BY BelowTrans
<1>2. AtOrBelow(p, q) /\ AtOrBelow(q, p) => p = q
  BY BelowAnti
<1>3. AtOrBelow(p, q) /\ AtOrBelow(p, r) => AtOrBelow(q, r) \/ AtOrBelow(r, q)
  BY BelowChain
<1>. QED
  BY <1>1, <1>2, <1>3

LEMMA UpToParent ==
    ASSUME NEW p \in Paths, NEW q \in Paths, Below(p, q)
    PROVE  Parent(p) \in Paths /\ AtOrBelow(Parent(p), q)
<1>1. /\ p \in Seq(Names) /\ Len(p) > 0 /\ q \in Seq(Names) /\ Len(q) > 0
  BY DirectoriesAssumption
<1>2. Parent(p) \in Seq(Names) /\ AtOrBelow(Parent(p), q)
  BY <1>1, BelowParent
<1>3. Len(q) <= Len(Parent(p))
  BY <1>1, <1>2, BelowPoints
<1>4. Parent(p) # Root
  BY <1>1, <1>3, LenProperties, EmptySeq DEF Root
<1>. QED
  BY <1>2, <1>4, PathFacts

\* Exchange of two paths, which undoes itself.
LEMMA Moved ==
    ASSUME NEW s \in Seq(Names), NEW t \in Seq(Names), Apart(s, t), NEW p \in Seq(Names)
    PROVE  /\ MovedTo(p, s, t) \in Seq(Names)
           /\ MovedTo(MovedTo(p, s, t), s, t) = p
           /\ AtOrBelow(p, s) <=> AtOrBelow(MovedTo(p, s, t), t)
           /\ AtOrBelow(p, t) <=> AtOrBelow(MovedTo(p, s, t), s)
           /\ ~(AtOrBelow(p, s) /\ AtOrBelow(p, t))
<1>0. ~(AtOrBelow(p, s) /\ AtOrBelow(p, t))
  BY Chains DEF Apart
<1>1. CASE AtOrBelow(p, s)
  <2>1. MovedTo(p, s, t) = Reroot(p, s, t)
    BY <1>1 DEF MovedTo
  <2>2. Reroot(p, s, t) \in Seq(Names) /\ AtOrBelow(Reroot(p, s, t), t)
    BY <1>1, RerootInto
  <2>3. Reroot(Reroot(p, s, t), t, s) = p
    BY <1>1, RerootBack
  <2>4. ~AtOrBelow(Reroot(p, s, t), s)
    BY <2>2, Chains DEF Apart
  <2>. QED
    BY <1>0, <1>1, <2>1, <2>2, <2>3, <2>4 DEF MovedTo
<1>2. CASE AtOrBelow(p, t)
  <2>1. MovedTo(p, s, t) = Reroot(p, t, s)
    BY <1>0, <1>2 DEF MovedTo
  <2>2. Reroot(p, t, s) \in Seq(Names) /\ AtOrBelow(Reroot(p, t, s), s)
    BY <1>2, RerootInto
  <2>3. Reroot(Reroot(p, t, s), s, t) = p
    BY <1>2, RerootBack
  <2>4. ~AtOrBelow(Reroot(p, t, s), t)
    BY <2>2, Chains DEF Apart
  <2>. QED
    BY <1>0, <1>2, <2>1, <2>2, <2>3, <2>4 DEF MovedTo
<1>3. CASE ~AtOrBelow(p, s) /\ ~AtOrBelow(p, t)
  BY <1>3 DEF MovedTo
<1>. QED
  BY <1>1, <1>2, <1>3

LEMMA MovedOrder ==
    ASSUME NEW s \in Seq(Names), NEW t \in Seq(Names), Apart(s, t),
           NEW p \in Seq(Names), NEW q \in Seq(Names), AtOrBelow(q, s) \/ AtOrBelow(q, t)
    PROVE  AtOrBelow(p, q) <=> AtOrBelow(MovedTo(p, s, t), MovedTo(q, s, t))
<1>1. ASSUME NEW a \in Seq(Names), NEW b \in Seq(Names), AtOrBelow(b, s) \/ AtOrBelow(b, t),
             AtOrBelow(a, b)
      PROVE  AtOrBelow(MovedTo(a, s, t), MovedTo(b, s, t))
  <2>1. CASE AtOrBelow(b, s)
    <3>1. AtOrBelow(a, s)
      BY <1>1, <2>1, Chains
    <3>2. AtOrBelow(Reroot(a, s, t), Reroot(b, s, t))
      BY <1>1, <2>1, RerootOrder
    <3>. QED
      BY <2>1, <3>1, <3>2 DEF MovedTo
  <2>2. CASE AtOrBelow(b, t)
    <3>0. AtOrBelow(a, t)
      BY <1>1, <2>2, Chains
    <3>1. ~AtOrBelow(a, s) /\ ~AtOrBelow(b, s)
      BY <1>1, <2>2, <3>0, Moved
    <3>2. AtOrBelow(Reroot(a, t, s), Reroot(b, t, s))
      BY <1>1, <2>2, RerootOrder
    <3>. QED
      BY <2>2, <3>0, <3>1, <3>2 DEF MovedTo
  <2>. QED
    BY <1>1, <2>1, <2>2
<1>2. /\ MovedTo(p, s, t) \in Seq(Names) /\ MovedTo(MovedTo(p, s, t), s, t) = p
      /\ MovedTo(q, s, t) \in Seq(Names) /\ MovedTo(MovedTo(q, s, t), s, t) = q
      /\ AtOrBelow(MovedTo(q, s, t), s) \/ AtOrBelow(MovedTo(q, s, t), t)
  BY Moved
<1>3. AtOrBelow(p, q) => AtOrBelow(MovedTo(p, s, t), MovedTo(q, s, t))
  BY <1>1
<1>4. AtOrBelow(MovedTo(p, s, t), MovedTo(q, s, t)) => AtOrBelow(p, q)
  BY <1>1, <1>2
<1>. QED
  BY <1>3, <1>4

LEMMA MovedTops ==
    ASSUME NEW s \in Seq(Names), NEW t \in Seq(Names), Apart(s, t)
    PROVE  MovedTo(s, s, t) = t /\ MovedTo(t, s, t) = s
<1>1. AtOrBelow(s, s) /\ AtOrBelow(t, t) /\ ~AtOrBelow(t, s)
  BY BelowRefl DEF Apart
<1>. QED
  BY <1>1, RerootTop DEF MovedTo

-----------------------------------------------------------------------------
\* What Stat and ReadDir show is what the types allow.
Entries == {Nothing, Dir} \union [obj : BOOLEAN, data : Ids \union {NoData}]

LEMMA ShownType ==
    ASSUME NEW m, NEW d \in Ids \union {NoData}
    PROVE  Shown(m, d) \in Entries
BY DEF Shown, Entries, Metas

LEMMA ViewType ==
    ASSUME file \in [Paths -> Ids \union {NoData}]
    PROVE  View \in [Paths -> Entries]
BY ShownType DEF View

LEMMA NextViewType ==
    ASSUME file' \in [Paths -> Ids \union {NoData}]
    PROVE  View' \in [Paths -> Entries]
BY ShownType DEF View

\* The locals of a call after each of the ways to go on.
LEMMA CallAt ==
    ASSUME NEW c \in Calls, NEW x \in Steps, NEW d, d = [c EXCEPT !.pc = x]
    PROVE  /\ d \in Calls
           /\ d.pc = x /\ d.cut = c.cut /\ d.kind = c.kind /\ d.src = c.src /\ d.dst = c.dst
           /\ d.new = c.new /\ d.flags = c.flags /\ d.made = c.made
<1>. USE DEF Calls
<1>1. d = [pc |-> x, kind |-> c.kind, src |-> c.src, dst |-> c.dst, new |-> c.new,
           flags |-> c.flags, made |-> c.made, cut |-> c.cut]
  OBVIOUS
<1>. QED
  BY <1>1

LEMMA CallCut ==
    ASSUME NEW c \in Calls, NEW x \in Steps, NEW b \in BOOLEAN,
           NEW d, d = [c EXCEPT !.pc = x, !.cut = b]
    PROVE  /\ d \in Calls
           /\ d.pc = x /\ d.cut = b /\ d.kind = c.kind /\ d.src = c.src /\ d.dst = c.dst
           /\ d.new = c.new /\ d.flags = c.flags /\ d.made = c.made
<1>. USE DEF Calls
<1>1. d = [pc |-> x, kind |-> c.kind, src |-> c.src, dst |-> c.dst, new |-> c.new,
           flags |-> c.flags, made |-> c.made, cut |-> b]
  OBVIOUS
<1>. QED
  BY <1>1

LEMMA IdleIs ==
    /\ Idle \in Calls
    /\ Idle.pc = "idle" /\ Idle.kind = "none" /\ Idle.src = Root /\ Idle.dst = Root
    /\ Idle.new = NoMeta /\ Idle.flags = {} /\ Idle.made = FALSE /\ Idle.cut = FALSE
BY DEF Idle, Calls, Steps, Kinds, Flags

LEMMA IdleCut ==
    ASSUME NEW b \in BOOLEAN, NEW d, d = [Idle EXCEPT !.cut = b]
    PROVE  /\ d \in Calls
           /\ d.pc = "idle" /\ d.cut = b /\ d.kind = "none" /\ d.src = Root /\ d.dst = Root
           /\ d.new = NoMeta /\ d.flags = {} /\ d.made = FALSE
<1>1. /\ d.pc = "idle" /\ d.cut = b /\ d.kind = "none" /\ d.src = Root /\ d.dst = Root
      /\ d.new = NoMeta /\ d.flags = {} /\ d.made = FALSE
  BY Zenon DEF Idle
<1>2. d \in Calls
  BY Zenon, IdleIs DEF Calls
<1>. QED
  BY <1>1, <1>2, Zenon

LEMMA AfterGoto ==
    ASSUME call \in Calls, NEW x \in Steps, Goto(x)
    PROVE  /\ call' \in Calls /\ tree' = tree /\ spoilt' = spoilt
           /\ call'.pc = x /\ call'.cut = call.cut /\ call'.kind = call.kind
           /\ call'.src = call.src /\ call'.dst = call.dst /\ call'.new = call.new
           /\ call'.flags = call.flags /\ call'.made = call.made
<1>1. call' = [call EXCEPT !.pc = x] /\ tree' = tree /\ spoilt' = spoilt
  BY DEF Goto
<1>. QED
  BY <1>1, CallAt

LEMMA AfterUndoAfter ==
    ASSUME call \in Calls, spoilt \in BOOLEAN, NEW b \in BOOLEAN, UndoAfter(b)
    PROVE  /\ call' \in Calls /\ tree' = tree
           /\ spoilt' \in BOOLEAN /\ (spoilt' <=> spoilt \/ b) /\ (call'.cut <=> call.cut \/ b)
           /\ call'.pc = "undo" /\ call'.kind = call.kind
           /\ call'.src = call.src /\ call'.dst = call.dst /\ call'.new = call.new
           /\ call'.flags = call.flags /\ call'.made = call.made
<1>. DEFINE cut == call.cut \/ b
<1>1. cut \in BOOLEAN /\ "undo" \in Steps
  BY DEF Calls, Steps
<1>2. call' = [call EXCEPT !.pc = "undo", !.cut = cut]
  BY DEF UndoAfter
<1>7. tree' = tree /\ spoilt' = (spoilt \/ b)
  BY DEF UndoAfter
<1>3. cut <=> call.cut \/ b
  OBVIOUS
<1>4. spoilt' \in BOOLEAN /\ (spoilt' <=> spoilt \/ b)
  BY <1>7, Zenon
<1>. HIDE DEF cut
<1>5. /\ call' \in Calls /\ call'.cut = cut
      /\ call'.pc = "undo" /\ call'.kind = call.kind
      /\ call'.src = call.src /\ call'.dst = call.dst /\ call'.new = call.new
      /\ call'.flags = call.flags /\ call'.made = call.made
  BY <1>1, <1>2 DEF Calls
<1>6. call'.cut <=> call.cut \/ b
  BY <1>3, <1>5
<1>. QED
  BY <1>4, <1>5, <1>6, <1>7

LEMMA AfterReturn ==
    ASSUME call \in Calls, spoilt \in BOOLEAN, NEW b \in BOOLEAN, Return(b)
    PROVE  /\ call' \in Calls /\ tree' = View'
           /\ spoilt' \in BOOLEAN /\ (spoilt' <=> spoilt \/ b) /\ (call'.cut <=> call.cut \/ b)
           /\ call'.pc = "idle" /\ call'.kind = "none" /\ call'.src = Root /\ call'.dst = Root
           /\ call'.new = NoMeta /\ call'.flags = {} /\ call'.made = FALSE
<1>. DEFINE cut == call.cut \/ b
<1>1. cut \in BOOLEAN
  BY DEF Calls
<1>2. /\ call' = [Idle EXCEPT !.cut = cut] /\ tree' = View'
      /\ spoilt' = (spoilt \/ b)
  BY DEF Return
<1>3. cut <=> call.cut \/ b
  OBVIOUS
<1>4. spoilt' \in BOOLEAN /\ (spoilt' <=> spoilt \/ b)
  BY <1>2, Zenon
<1>. HIDE DEF cut
<1>. QED
  BY <1>1, <1>2, <1>3, <1>4, IdleCut

\* A call has begun.
Started ==
    /\ call.pc = "idle" /\ left > 0 /\ left' = left - 1 /\ left' \in 0..MaxCalls
    /\ tree' = tree /\ handle' = handle /\ lock' = lock /\ emptied' = emptied /\ spoilt' = spoilt
    /\ call' \in Calls /\ call'.cut = FALSE

LEMMA AfterBegin ==
    ASSUME TypeOK, NEW d, Begin(d), d \in Calls, d.cut = FALSE
    PROVE  Started /\ call' = d
<1>1. /\ call.pc = "idle" /\ left > 0 /\ left' = left - 1 /\ call' = d
      /\ tree' = tree /\ handle' = handle /\ lock' = lock /\ emptied' = emptied
      /\ spoilt' = spoilt
  BY DEF Begin
<1>2. left' \in 0..MaxCalls
  BY <1>1, DirectoriesAssumption DEF TypeOK
<1>. QED
  BY <1>1, <1>2, Zenon DEF Started

LEMMA AfterMkdirCall ==
    ASSUME TypeOK, NEW p \in Paths, MkdirCall(p)
    PROVE  /\ Started
           /\ call'.pc = "truncate" /\ call'.kind = "mkdir" /\ call'.src = Root /\ call'.dst = p
           /\ call'.new = [type |-> "dir", obj |-> FALSE] /\ call'.flags = {} /\ call'.made = FALSE
           /\ CanWLock(p) /\ ~Exists(p) /\ IsParent(Parent(p)) /\ EnsureDir(Parent(p))
           /\ meta' = meta /\ file' = file
<1>. DEFINE d == [Idle EXCEPT !.pc = "truncate", !.kind = "mkdir", !.dst = p,
                            !.new = [type |-> "dir", obj |-> FALSE]]
<1>1. /\ d.pc = "truncate" /\ d.kind = "mkdir" /\ d.src = Root /\ d.dst = p
      /\ d.new = [type |-> "dir", obj |-> FALSE] /\ d.flags = {} /\ d.made = FALSE
      /\ d.cut = FALSE
  BY Zenon DEF Idle
<1>2. d \in Calls
  <2>. DEFINE i == Idle
  <2>1. i \in Calls
    BY IdleIs
  <2>2. [type |-> "dir", obj |-> FALSE] \in Metas \union {NoMeta} /\ {} \in Flags /\ "truncate" \in Steps
    BY DEF Steps, Flags, Metas
  <2>. HIDE DEF i
  <2>3. [i EXCEPT !.pc = "truncate", !.kind = "mkdir", !.dst = p,
                            !.new = [type |-> "dir", obj |-> FALSE]] \in Calls
    BY <2>1, <2>2 DEF Calls, Steps, Kinds
  <2>. QED
    BY <2>3 DEF i
<1>3. Begin(d)
  BY DEF MkdirCall
<1>. HIDE DEF d
<1>4. Started /\ call' = d
  BY <1>1, <1>2, <1>3, AfterBegin, Zenon
<1>5. /\ CanWLock(p) /\ ~Exists(p) /\ IsParent(Parent(p)) /\ EnsureDir(Parent(p))
      /\ meta' = meta /\ file' = file
  BY DEF MkdirCall
<1>. QED
  BY <1>1, <1>4, <1>5, Zenon

LEMMA AfterOpenCall ==
    ASSUME TypeOK, NEW p \in Paths, NEW f \in OpenFlags, NEW made \in BOOLEAN,
           made = ("create" \in f /\ meta[p] = NoMeta), OpenCall(p, f)
    PROVE  /\ Started
           /\ call'.pc = (IF made THEN "truncate" ELSE "open") /\ call'.kind = "open" /\ call'.src = Root /\ call'.dst = p
           /\ call'.new = [type |-> "file", obj |-> FALSE] /\ call'.flags = f /\ (call'.made <=> made)
           /\ IsParent(Parent(p)) /\ EnsureDir(Parent(p)) /\ (made \/ Exists(p))
           /\ meta' = meta /\ file' = file
<1>. DEFINE d == [Idle EXCEPT !.pc = IF made THEN "truncate" ELSE "open", !.kind = "open",
                            !.dst = p, !.flags = f, !.made = made,
                            !.new = [type |-> "file", obj |-> FALSE]]
<1>1. /\ d.pc = (IF made THEN "truncate" ELSE "open") /\ d.kind = "open" /\ d.src = Root /\ d.dst = p
      /\ d.new = [type |-> "file", obj |-> FALSE] /\ d.flags = f /\ (d.made <=> made)
      /\ d.cut = FALSE
  BY Zenon DEF Idle
<1>2. d \in Calls
  <2>. DEFINE i == Idle
  <2>1. i \in Calls
    BY IdleIs
  <2>2. [type |-> "file", obj |-> FALSE] \in Metas \union {NoMeta} /\ f \in Flags /\ (IF made THEN "truncate" ELSE "open") \in Steps
    BY DirectoriesAssumption DEF Steps, Flags, Metas
  <2>. HIDE DEF i
  <2>3. [i EXCEPT !.pc = IF made THEN "truncate" ELSE "open", !.kind = "open",
                            !.dst = p, !.flags = f, !.made = made,
                            !.new = [type |-> "file", obj |-> FALSE]] \in Calls
    BY <2>1, <2>2 DEF Calls, Steps, Kinds
  <2>. QED
    BY <2>3 DEF i
<1>3. Begin(d)
  BY DEF OpenCall
<1>. HIDE DEF d
<1>4. Started /\ call' = d
  BY <1>1, <1>2, <1>3, AfterBegin, Zenon
<1>5. /\ IsParent(Parent(p)) /\ EnsureDir(Parent(p)) /\ (made \/ Exists(p))
      /\ meta' = meta /\ file' = file
  BY DEF OpenCall
<1>. QED
  BY <1>1, <1>4, <1>5, Zenon

LEMMA AfterRemoveCall ==
    ASSUME TypeOK, NEW p \in Paths, RemoveCall(p)
    PROVE  /\ Started
           /\ call'.pc = "dropData" /\ call'.kind = "remove" /\ call'.src = Root /\ call'.dst = p
           /\ call'.new = NoMeta /\ call'.flags = {} /\ call'.made = FALSE
           /\ CanWLock(p) /\ Exists(p)
           /\ meta' = meta /\ file' = file /\ dir' = dir
<1>. DEFINE d == [Idle EXCEPT !.pc = "dropData", !.kind = "remove", !.dst = p]
<1>1. /\ d.pc = "dropData" /\ d.kind = "remove" /\ d.src = Root /\ d.dst = p
      /\ d.new = NoMeta /\ d.flags = {} /\ d.made = FALSE
      /\ d.cut = FALSE
  BY Zenon DEF Idle
<1>2. d \in Calls
  <2>. DEFINE i == Idle
  <2>1. i \in Calls
    BY IdleIs
  <2>2. NoMeta \in Metas \union {NoMeta} /\ {} \in Flags /\ "dropData" \in Steps
    BY DEF Steps, Flags, Metas
  <2>. HIDE DEF i
  <2>3. [i EXCEPT !.pc = "dropData", !.kind = "remove", !.dst = p] \in Calls
    BY <2>1, <2>2 DEF Calls, Steps, Kinds
  <2>. QED
    BY <2>3 DEF i
<1>3. Begin(d)
  BY DEF RemoveCall
<1>. HIDE DEF d
<1>4. Started /\ call' = d
  BY <1>1, <1>2, <1>3, AfterBegin, Zenon
<1>5. /\ CanWLock(p) /\ Exists(p)
      /\ meta' = meta /\ file' = file /\ dir' = dir
  BY DEF RemoveCall, disk
<1>. QED
  BY <1>1, <1>4, <1>5, Zenon

LEMMA AfterRenameCall ==
    ASSUME TypeOK, NEW p \in Paths, NEW t \in Paths, RenameCall(p, t)
    PROVE  /\ Started
           /\ call'.pc = (IF Exists(t) THEN "dropData" ELSE "truncate") /\ call'.kind = "rename" /\ call'.src = p /\ call'.dst = t
           /\ call'.new = meta[p] /\ call'.flags = {} /\ call'.made = FALSE
           /\ CanWLock(p) /\ CanWLock(t) /\ Apart(p, t)
           /\ Exists(p) /\ IsParent(Parent(t)) /\ ~IsDir(t) /\ EnsureDir(Parent(t))
           /\ \A q \in Paths : Below(q, p) /\ ~Vacant(q) => Reroot(q, p, t) \in Paths
           /\ meta' = meta /\ file' = file
<1>. DEFINE d == [Idle EXCEPT !.pc = IF Exists(t) THEN "dropData" ELSE "truncate",
                            !.kind = "rename", !.src = p, !.dst = t, !.new = meta[p]]
<1>1. /\ d.pc = (IF Exists(t) THEN "dropData" ELSE "truncate") /\ d.kind = "rename" /\ d.src = p /\ d.dst = t
      /\ d.new = meta[p] /\ d.flags = {} /\ d.made = FALSE
      /\ d.cut = FALSE
  BY Zenon DEF Idle
<1>2. d \in Calls
  <2>. DEFINE i == Idle
  <2>1. i \in Calls
    BY IdleIs
  <2>2. meta[p] \in Metas \union {NoMeta} /\ {} \in Flags /\ (IF Exists(t) THEN "dropData" ELSE "truncate") \in Steps
    BY DEF Steps, Flags, Metas, RenameCall, Exists
  <2>. HIDE DEF i
  <2>3. [i EXCEPT !.pc = IF Exists(t) THEN "dropData" ELSE "truncate",
                            !.kind = "rename", !.src = p, !.dst = t, !.new = meta[p]] \in Calls
    BY <2>1, <2>2 DEF Calls, Steps, Kinds
  <2>. QED
    BY <2>3 DEF i
<1>3. Begin(d)
  BY DEF RenameCall
<1>. HIDE DEF d
<1>4. Started /\ call' = d
  BY <1>1, <1>2, <1>3, AfterBegin, Zenon
<1>5. /\ CanWLock(p) /\ CanWLock(t) /\ Apart(p, t)
      /\ Exists(p) /\ IsParent(Parent(t)) /\ ~IsDir(t) /\ EnsureDir(Parent(t))
      /\ \A q \in Paths : Below(q, p) /\ ~Vacant(q) => Reroot(q, p, t) \in Paths
      /\ meta' = meta /\ file' = file
  BY DEF RenameCall
<1>. QED
  BY <1>1, <1>4, <1>5, Zenon

LEMMA AfterRenameInPlace ==
    ASSUME TypeOK, NEW p \in Paths, RenameInPlace(p)
    PROVE  /\ Started
           /\ call'.pc = "truncate" /\ call'.kind = "rename" /\ call'.src = p /\ call'.dst = p
           /\ call'.new = meta[p] /\ call'.flags = {} /\ call'.made = FALSE
           /\ CanWLock(p) /\ Exists(p)
           /\ meta' = meta /\ file' = file /\ dir' = dir
<1>. DEFINE d == [Idle EXCEPT !.pc = "truncate", !.kind = "rename", !.src = p, !.dst = p,
                            !.new = meta[p]]
<1>1. /\ d.pc = "truncate" /\ d.kind = "rename" /\ d.src = p /\ d.dst = p
      /\ d.new = meta[p] /\ d.flags = {} /\ d.made = FALSE
      /\ d.cut = FALSE
  BY Zenon DEF Idle
<1>2. d \in Calls
  <2>. DEFINE i == Idle
  <2>1. i \in Calls
    BY IdleIs
  <2>2. meta[p] \in Metas \union {NoMeta} /\ {} \in Flags /\ "truncate" \in Steps
    BY DEF Steps, Flags, Metas, RenameInPlace, Exists
  <2>. HIDE DEF i
  <2>3. [i EXCEPT !.pc = "truncate", !.kind = "rename", !.src = p, !.dst = p,
                            !.new = meta[p]] \in Calls
    BY <2>1, <2>2 DEF Calls, Steps, Kinds
  <2>. QED
    BY <2>3 DEF i
<1>3. Begin(d)
  BY DEF RenameInPlace
<1>. HIDE DEF d
<1>4. Started /\ call' = d
  BY <1>1, <1>2, <1>3, AfterBegin, Zenon
<1>5. /\ CanWLock(p) /\ Exists(p)
      /\ meta' = meta /\ file' = file /\ dir' = dir
  BY DEF RenameInPlace, disk
<1>. QED
  BY <1>1, <1>4, <1>5, Zenon

-----------------------------------------------------------------------------
\* Types, and what a call knows of its locals.
DiskType(m, f, d) ==
    /\ m \in [Paths -> Metas \union {NoMeta, TornMeta}]
    /\ f \in [Paths -> Ids \union {NoData}]
    /\ d \in [Paths -> BOOLEAN]

LEMMA TypesKept ==
    ASSUME TypeOK, DiskType(meta', file', dir'), call' \in Calls, tree' \in {tree, View'},
           handle' \in [Users -> [node : {Exile} \union Seq(Names), id : Ids] \union {NoHandle}],
           lock' \in [Users -> Paths \union {NoLock}], emptied' \subseteq Paths,
           spoilt' \in BOOLEAN, left' = left
    PROVE  TypeOK'
<1>1. tree' \in [Paths -> Entries]
  BY NextViewType DEF TypeOK, DiskType, Entries
<1>. QED
  BY <1>1 DEF TypeOK, DiskType, Entries

LEMMA TypesBegun ==
    ASSUME TypeOK, Started, DiskType(meta', file', dir')
    PROVE  TypeOK'
BY DEF TypeOK, DiskType, Started

LEMMA EnsureType ==
    ASSUME TypeOK, NEW q, EnsureDir(q)
    PROVE  dir' \in [Paths -> BOOLEAN]
BY DEF TypeOK, EnsureDir

LEMMA DiskTypeKept ==
    ASSUME TypeOK, UNCHANGED disk
    PROVE  DiskType(meta', file', dir')
BY DEF TypeOK, DiskType, disk

LEMMA StepsOfKinds ==
    /\ StepsOf["none"] = {"idle"}
    /\ StepsOf["mkdir"] = {"truncate", "write", "mkdir", "undo"}
    /\ StepsOf["open"] = {"truncate", "write", "open", "undo"}
    /\ StepsOf["remove"] = {"dropData", "dropMeta"}
    /\ StepsOf["rename"] =
          {"dropData", "dropMeta", "truncate", "write", "move", "finish", "undo"}
BY DEF StepsOf

\* What is under fs.mtx is at a step of its kind.
LEMMA CallKept ==
    ASSUME CallShape, call.kind # "none", left' = left, call'.pc \in StepsOf[call.kind],
           call'.kind = call.kind, call'.src = call.src, call'.dst = call.dst,
           call'.new = call.new, call'.flags = call.flags, call'.made = call.made,
           InPlace => call'.pc \in {"truncate", "write"},
           call.kind = "open" /\ ~call.made => call'.pc = "open"
    PROVE  CallShape'
BY DEF CallShape, Renaming, InPlace

LEMMA CallOver ==
    ASSUME call'.pc = "idle", call'.kind = "none", call'.made = FALSE
    PROVE  CallShape'
BY DEF CallShape, Renaming, InPlace, StepsOf

LEMMA TypeMkdirCall ==
    ASSUME TypeOK, CallShape, NEW p \in Paths, MkdirCall(p)
    PROVE  TypeOK' /\ CallShape'
<1>1. TypeOK'
  BY AfterMkdirCall, EnsureType, TypesBegun DEF TypeOK, DiskType
<1>2. /\ call'.pc = "truncate" /\ call'.kind = "mkdir"
      /\ call'.src = Root /\ call'.dst = p /\ call'.new = [type |-> "dir", obj |-> FALSE]
      /\ call'.made = FALSE /\ left' = left - 1 /\ left \in 0..MaxCalls
  BY AfterMkdirCall DEF Started, TypeOK
<1>3. call'.pc \in StepsOf[call'.kind]
  BY <1>2, StepsOfKinds
<1>4. left' < MaxCalls
  BY <1>2, DirectoriesAssumption
<1>5. ~InPlace' /\ ~Renaming'
  BY <1>2 DEF InPlace, Renaming
<1>6. CallShape'
  BY <1>2, <1>3, <1>4, <1>5 DEF CallShape
<1>. QED
  BY <1>1, <1>6

LEMMA TypeRemoveCall ==
    ASSUME TypeOK, CallShape, NEW p \in Paths, RemoveCall(p)
    PROVE  TypeOK' /\ CallShape'
<1>1. TypeOK'
  BY AfterRemoveCall, TypesBegun DEF TypeOK, DiskType
<1>2. /\ call'.pc = "dropData" /\ call'.kind = "remove"
      /\ call'.src = Root /\ call'.dst = p /\ call'.new = NoMeta
      /\ call'.made = FALSE /\ left' = left - 1 /\ left \in 0..MaxCalls
  BY AfterRemoveCall DEF Started, TypeOK
<1>3. call'.pc \in StepsOf[call'.kind]
  BY <1>2, StepsOfKinds
<1>4. left' < MaxCalls
  BY <1>2, DirectoriesAssumption
<1>5. ~InPlace' /\ ~Renaming'
  BY <1>2 DEF InPlace, Renaming
<1>6. CallShape'
  BY <1>2, <1>3, <1>4, <1>5 DEF CallShape
<1>. QED
  BY <1>1, <1>6

LEMMA TypeRenameCall ==
    ASSUME TypeOK, CallShape, NEW p \in Paths, NEW t \in Paths, RenameCall(p, t)
    PROVE  TypeOK' /\ CallShape'
<1>1. TypeOK'
  BY AfterRenameCall, EnsureType, TypesBegun DEF TypeOK, DiskType
<1>2. /\ call'.pc = (IF Exists(t) THEN "dropData" ELSE "truncate") /\ call'.kind = "rename"
      /\ call'.src = p /\ call'.dst = t /\ call'.new = meta[p]
      /\ call'.made = FALSE /\ left' = left - 1 /\ left \in 0..MaxCalls
  BY AfterRenameCall DEF Started, TypeOK
<1>7. /\ Apart(p, t) /\ p # t /\ meta[p] \in Metas
  <2>1. Exists(p) /\ Apart(p, t)
    BY AfterRenameCall
  <2>. QED
    BY <2>1, PathFacts DEF Exists, Apart
<1>3. call'.pc \in StepsOf[call'.kind]
  BY <1>2, StepsOfKinds
<1>4. left' < MaxCalls
  BY <1>2, DirectoriesAssumption
<1>5. ~InPlace'
  BY <1>2, <1>7 DEF InPlace, Renaming
<1>6. CallShape'
  BY <1>2, <1>3, <1>4, <1>5, <1>7 DEF CallShape
<1>. QED
  BY <1>1, <1>6

LEMMA TypeRenameInPlace ==
    ASSUME TypeOK, CallShape, NEW p \in Paths, RenameInPlace(p)
    PROVE  TypeOK' /\ CallShape'
<1>1. TypeOK'
  BY AfterRenameInPlace, TypesBegun DEF TypeOK, DiskType
<1>2. /\ call'.pc = "truncate" /\ call'.kind = "rename"
      /\ call'.src = p /\ call'.dst = p /\ call'.new = meta[p]
      /\ call'.made = FALSE /\ left' = left - 1 /\ left \in 0..MaxCalls
  BY AfterRenameInPlace DEF Started, TypeOK
<1>7. /\ meta[p] \in Metas
  <2>1. Exists(p)
    BY AfterRenameInPlace
  <2>. QED
    BY <2>1 DEF Exists
<1>3. call'.pc \in StepsOf[call'.kind]
  BY <1>2, StepsOfKinds
<1>4. left' < MaxCalls
  BY <1>2, DirectoriesAssumption
<1>5. ~Renaming'
  BY <1>2, <1>7 DEF InPlace, Renaming
<1>6. CallShape'
  BY <1>2, <1>3, <1>4, <1>5, <1>7 DEF CallShape
<1>. QED
  BY <1>1, <1>6

LEMMA TypeOpenCall ==
    ASSUME TypeOK, CallShape, NEW p \in Paths, NEW f \in OpenFlags, OpenCall(p, f)
    PROVE  TypeOK' /\ CallShape'
<1>. DEFINE made == "create" \in f /\ meta[p] = NoMeta
<1>0. made \in BOOLEAN /\ made = ("create" \in f /\ meta[p] = NoMeta)
  OBVIOUS
<1>7. made => "create" \in f
  OBVIOUS
<1>. HIDE DEF made
<1>1. TypeOK'
  BY <1>0, AfterOpenCall, EnsureType, TypesBegun DEF TypeOK, DiskType
<1>2. /\ call'.pc = (IF made THEN "truncate" ELSE "open") /\ call'.kind = "open"
      /\ call'.dst = p /\ call'.new = [type |-> "file", obj |-> FALSE]
      /\ (call'.made <=> made) /\ call'.flags = f /\ left' = left - 1 /\ left \in 0..MaxCalls
  BY <1>0, AfterOpenCall DEF Started, TypeOK
<1>3. call'.pc \in StepsOf[call'.kind]
  BY <1>2, StepsOfKinds
<1>4. left' < MaxCalls
  BY <1>2, DirectoriesAssumption
<1>5. ~InPlace' /\ ~Renaming'
  BY <1>2 DEF InPlace, Renaming
<1>6. CallShape'
  BY <1>2, <1>3, <1>4, <1>5, <1>7 DEF CallShape
<1>. QED
  BY <1>1, <1>6
\* The step tells the kind of the call.
LEMMA StepKind ==
    ASSUME TypeOK, CallShape
    PROVE  /\ call.pc = "idle" <=> call.kind = "none"
           /\ call.pc # "idle" => call.dst \in Paths
           /\ call.pc \in {"truncate", "write", "undo"} => call.kind \in {"mkdir", "open", "rename"}
           /\ call.pc = "mkdir" => call.kind = "mkdir"
           /\ call.pc = "open" => call.kind = "open"
           /\ call.pc \in {"dropData", "dropMeta"} => call.kind \in {"remove", "rename"}
           /\ call.pc \in {"move", "finish"} => call.kind = "rename"
<1>1. call.pc \in StepsOf[call.kind] /\ call.kind \in Kinds
  BY DEF TypeOK, CallShape, Calls
<1>2. call.kind # "none" => call.dst \in Paths
  BY DEF CallShape
<1>. QED
  BY <1>1, <1>2, StepsOfKinds DEF Kinds

LEMMA TypeReturn ==
    ASSUME TypeOK, DiskType(meta', file', dir'),
           handle' \in [Users -> [node : {Exile} \union Seq(Names), id : Ids] \union {NoHandle}],
           lock' \in [Users -> Paths \union {NoLock}], emptied' \subseteq Paths, left' = left,
           NEW b \in BOOLEAN, Return(b)
    PROVE  TypeOK' /\ CallShape'
<1>1. call \in Calls /\ spoilt \in BOOLEAN
  BY DEF TypeOK
<1>2. /\ call' \in Calls /\ tree' = View' /\ spoilt' \in BOOLEAN
      /\ call'.pc = "idle" /\ call'.kind = "none" /\ call'.made = FALSE
  BY <1>1, AfterReturn
<1>. QED
  BY <1>2, TypesKept, CallOver

LEMMA TypeGoto ==
    ASSUME TypeOK, CallShape, DiskType(meta', file', dir'),
           handle' \in [Users -> [node : {Exile} \union Seq(Names), id : Ids] \union {NoHandle}],
           lock' \in [Users -> Paths \union {NoLock}], emptied' \subseteq Paths, left' = left,
           call.kind # "none", NEW x \in Steps, x \in StepsOf[call.kind], Goto(x),
           InPlace => x = "write", call.kind = "open" /\ ~call.made => x = "open"
    PROVE  TypeOK' /\ CallShape'
<1>1. call \in Calls /\ spoilt \in BOOLEAN
  BY DEF TypeOK
<1>2. /\ call' \in Calls /\ tree' = tree /\ spoilt' = spoilt
      /\ call'.pc = x /\ call'.kind = call.kind
      /\ call'.src = call.src /\ call'.dst = call.dst /\ call'.new = call.new
      /\ call'.flags = call.flags /\ call'.made = call.made
  BY <1>1, AfterGoto
<1>3. TypeOK'
  BY <1>1, <1>2, TypesKept
<1>4. CallShape'
  BY <1>2, CallKept
<1>. QED
  BY <1>3, <1>4

LEMMA TypeUndo ==
    ASSUME TypeOK, CallShape, DiskType(meta', file', dir'),
           handle' \in [Users -> [node : {Exile} \union Seq(Names), id : Ids] \union {NoHandle}],
           lock' \in [Users -> Paths \union {NoLock}], emptied' \subseteq Paths, left' = left,
           call.kind \in {"mkdir", "open", "rename"}, ~InPlace, call.kind = "open" => call.made,
           NEW b \in BOOLEAN, UndoAfter(b)
    PROVE  TypeOK' /\ CallShape'
<1>1. call \in Calls /\ spoilt \in BOOLEAN
  BY DEF TypeOK
<1>2. /\ call' \in Calls /\ tree' = tree /\ spoilt' \in BOOLEAN
      /\ call'.pc = "undo" /\ call'.kind = call.kind
      /\ call'.src = call.src /\ call'.dst = call.dst /\ call'.new = call.new
      /\ call'.flags = call.flags /\ call'.made = call.made
  BY <1>1, AfterUndoAfter
<1>3. TypeOK'
  BY <1>2, TypesKept
<1>4. CallShape'
  BY <1>2, CallKept, StepsOfKinds
<1>. QED
  BY <1>3, <1>4
\* Nothing but the disk and the call changes.
LEMMA FrameType ==
    ASSUME TypeOK, UNCHANGED <<handle, lock, emptied, left>>
    PROVE  /\ handle' \in [Users -> [node : {Exile} \union Seq(Names), id : Ids] \union {NoHandle}]
           /\ lock' \in [Users -> Paths \union {NoLock}] /\ emptied' \subseteq Paths /\ left' = left
BY DEF TypeOK

LEMMA TypeTruncateMeta ==
    ASSUME TypeOK, CallShape, TruncateMeta
    PROVE  TypeOK' /\ CallShape'
<1>1. /\ call.pc = "truncate" /\ UNCHANGED <<handle, lock, emptied, left>>
      /\ DiskType(meta', file', dir')
  BY DEF TruncateMeta, TypeOK, DiskType
<1>2. CASE Goto("write")
  <2>1. call.kind \in {"mkdir", "open", "rename"} /\ (call.kind = "open" => call.made)
    BY <1>1, StepKind DEF CallShape
  <2>2. "write" \in Steps /\ "write" \in StepsOf[call.kind]
    BY <2>1, StepsOfKinds DEF Steps
  <2>. QED
    BY <1>1, <1>2, <2>1, <2>2, FrameType, TypeGoto
<1>3. CASE Return(TRUE)
  BY <1>1, <1>3, FrameType, TypeReturn
<1>. QED
  BY <1>2, <1>3 DEF TruncateMeta

LEMMA TypeWriteMeta ==
    ASSUME TypeOK, CallShape, WriteMeta
    PROVE  TypeOK' /\ CallShape'
<1>1. /\ call.pc = "write" /\ UNCHANGED <<file, dir, handle, lock, left>>
      /\ call.kind \in {"mkdir", "open", "rename"} /\ (call.kind = "open" => call.made)
      /\ call.dst \in Paths
  BY StepKind DEF CallShape, WriteMeta
<1>2. call.new \in Metas
  <2>1. [type |-> "dir", obj |-> FALSE] \in Metas /\ [type |-> "file", obj |-> FALSE] \in Metas
    BY DEF Metas
  <2>. QED
    BY <1>1, <2>1 DEF CallShape
<1>3. CASE meta' = [meta EXCEPT ![call.dst] = call.new] /\ emptied' = emptied
  <2>1. DiskType(meta', file', dir') /\ emptied' \subseteq Paths /\ UNCHANGED <<handle, lock, emptied, left>>
    BY <1>1, <1>2, <1>3 DEF TypeOK, DiskType
  <2>2. CASE Return(FALSE)
    BY <2>1, <2>2, FrameType, TypeReturn
  <2>3. CASE Goto("mkdir") /\ call.kind = "mkdir"
    <3>1. "mkdir" \in Steps /\ "mkdir" \in StepsOf[call.kind] /\ ~InPlace
      BY <2>3, StepsOfKinds DEF Steps, InPlace
    <3>. QED
      BY <1>1, <2>1, <2>3, <3>1, FrameType, TypeGoto
  <2>4. CASE Goto("open") /\ call.kind = "open"
    <3>1. "open" \in Steps /\ "open" \in StepsOf[call.kind] /\ ~InPlace
      BY <2>4, StepsOfKinds DEF Steps, InPlace
    <3>. QED
      BY <1>1, <2>1, <2>4, <3>1, FrameType, TypeGoto
  <2>5. CASE Goto("move") /\ call.kind = "rename" /\ ~InPlace
    <3>1. "move" \in Steps /\ "move" \in StepsOf[call.kind]
      BY <2>5, StepsOfKinds DEF Steps
    <3>. QED
      BY <1>1, <2>1, <2>5, <3>1, FrameType, TypeGoto
  <2>6. CASE Return(TRUE)
    BY <2>1, <2>6, FrameType, TypeReturn
  <2>7. InPlace => Return(FALSE) \/ Return(TRUE)
    BY DEF WriteMeta
  <2>8. ~InPlace => Return(TRUE) \/ Goto(IF call.kind = "rename" THEN "move" ELSE call.kind)
    BY DEF WriteMeta
  <2>. QED
    BY <1>1, <2>2, <2>3, <2>4, <2>5, <2>6, <2>7, <2>8
<1>4. CASE meta' = meta /\ Return(TRUE)
  <2>1. DiskType(meta', file', dir') /\ emptied' \subseteq Paths
    BY <1>1, <1>4 DEF TypeOK, DiskType, WriteMeta
  <2>. QED
    BY <1>1, <1>4, <2>1, TypeReturn DEF TypeOK
<1>. QED
  BY <1>3, <1>4 DEF WriteMeta

LEMMA TypeMakeData ==
    ASSUME TypeOK, CallShape, MakeData
    PROVE  TypeOK' /\ CallShape'
<1>1. /\ call.pc = "mkdir" /\ UNCHANGED <<meta, file, handle, lock, emptied, left>>
      /\ call.kind = "mkdir" /\ call.dst \in Paths /\ ~InPlace
      /\ DiskType(meta', file', dir')
  BY StepKind DEF MakeData, TypeOK, DiskType, InPlace
<1>2. CASE Return(FALSE)
  BY <1>1, <1>2, FrameType, TypeReturn
<1>3. CASE UndoAfter(~dir[call.dst])
  <2>1. (~dir[call.dst]) \in BOOLEAN
    OBVIOUS
  <2>. QED
    BY <1>1, <1>3, <2>1, FrameType, TypeUndo
<1>. QED
  BY <1>2, <1>3 DEF MakeData

LEMMA TypeOpenDirectory ==
    ASSUME TypeOK, CallShape, OpenDirectory
    PROVE  TypeOK' /\ CallShape'
<1>1. /\ UNCHANGED <<meta, file, handle, lock, emptied, left>>
      /\ DiskType(meta', file', dir') /\ (Return(TRUE) \/ Return(FALSE))
  BY EnsureType DEF OpenDirectory, TypeOK, DiskType
<1>. QED
  BY <1>1, FrameType, TypeReturn

LEMMA TypeOpenData ==
    ASSUME TypeOK, CallShape, NEW u \in Users, OpenData(u)
    PROVE  TypeOK' /\ CallShape'
<1>1. /\ call.pc = "open" /\ UNCHANGED <<meta, dir, lock, emptied, left>> /\ Return(FALSE)
      /\ file' = IF file[call.dst] = NoData THEN [file EXCEPT ![call.dst] = <<"new", left + 1>>]
                 ELSE file
      /\ handle' = [handle EXCEPT ![u] = [node |-> call.dst, id |-> file'[call.dst]]]
  BY DEF OpenData
<1>2. call.dst \in Paths /\ left < MaxCalls /\ call.dst \in Seq(Names)
  BY <1>1, StepKind, PathFacts DEF CallShape
<1>3. left + 1 \in 1..MaxCalls
  BY <1>2, DirectoriesAssumption DEF TypeOK
<1>4. <<"new", left + 1>> \in Ids
  BY <1>3 DEF Ids
<1>5. file' \in [Paths -> Ids \union {NoData}] /\ file'[call.dst] \in Ids
  BY <1>1, <1>2, <1>4 DEF TypeOK
<1>6. handle' \in [Users -> [node : {Exile} \union Seq(Names), id : Ids] \union {NoHandle}]
  BY <1>1, <1>2, <1>5 DEF TypeOK
<1>7. DiskType(meta', file', dir') /\ lock' \in [Users -> Paths \union {NoLock}]
      /\ emptied' \subseteq Paths /\ left' = left
  BY <1>1, <1>5 DEF TypeOK, DiskType
<1>. QED
  BY <1>1, <1>6, <1>7, TypeReturn

LEMMA TypeOpenDataFails ==
    ASSUME TypeOK, CallShape, OpenDataFails
    PROVE  TypeOK' /\ CallShape'
<1>. DEFINE b == Openable(call.dst)
<1>1. /\ call.pc = "open" /\ UNCHANGED <<handle, lock, emptied, left>>
      /\ DiskType(meta', file', dir') /\ call.kind = "open" /\ ~InPlace
  BY StepKind, DiskTypeKept DEF OpenDataFails, InPlace
<1>2. b \in BOOLEAN
  BY DEF Openable
<1>3. (call.made /\ UndoAfter(b)) \/ Return(b)
  BY DEF OpenDataFails
<1>. HIDE DEF b
<1>. QED
  BY <1>1, <1>2, <1>3, FrameType, TypeUndo, TypeReturn

LEMMA TypeDropData ==
    ASSUME TypeOK, CallShape, DropData
    PROVE  TypeOK' /\ CallShape'
<1>. DEFINE b == Removable(call.dst)
<1>1. /\ call.pc = "dropData" /\ UNCHANGED <<handle, lock, emptied, left>>
      /\ DiskType(meta', file', dir')
      /\ call.kind \in {"remove", "rename"} /\ call.dst \in Paths /\ ~InPlace
  BY StepKind DEF DropData, TypeOK, DiskType, CallShape
<1>2. b \in BOOLEAN
  <2>1. dir[call.dst] \in BOOLEAN
    BY <1>1 DEF TypeOK
  <2>. QED
    BY <2>1 DEF Removable
<1>3. Goto("dropMeta") \/ Return(b)
  BY DEF DropData
<1>4. "dropMeta" \in Steps /\ "dropMeta" \in StepsOf[call.kind]
  BY <1>1, StepsOfKinds DEF Steps
<1>. HIDE DEF b
<1>. QED
  BY <1>1, <1>2, <1>3, <1>4, FrameType, TypeGoto, TypeReturn

LEMMA TypeDropMeta ==
    ASSUME TypeOK, CallShape, DropMeta
    PROVE  TypeOK' /\ CallShape'
<1>1. /\ call.pc = "dropMeta" /\ UNCHANGED <<file, dir, lock, emptied, left>>
      /\ DiskType(meta', file', dir')
      /\ call.kind \in {"remove", "rename"} /\ call.dst \in Paths /\ ~InPlace
  BY StepKind DEF DropMeta, TypeOK, DiskType, CallShape
<1>2. handle' \in [Users -> [node : {Exile} \union Seq(Names), id : Ids] \union {NoHandle}]
  <2>1. CASE handle' = handle
    BY <2>1 DEF TypeOK
  <2>2. CASE ToExile(call.dst)
    <3>1. ASSUME NEW u \in Users, handle[u] # NoHandle, handle[u].node # Exile
          PROVE  [handle[u] EXCEPT !.node = IF AtOrBelow(@, call.dst) THEN Exile ELSE @]
                 \in [node : {Exile} \union Seq(Names), id : Ids]
      BY <3>1 DEF TypeOK
    <3>. QED
      BY <2>2, <3>1 DEF ToExile, TypeOK
  <2>. QED
    BY <2>1, <2>2 DEF DropMeta
<1>3. Return(FALSE) \/ Return(TRUE) \/ (Goto("truncate") /\ call.kind = "rename")
  BY <1>1 DEF DropMeta
<1>4. "truncate" \in Steps /\ (call.kind = "rename" => "truncate" \in StepsOf[call.kind])
  BY StepsOfKinds DEF Steps
<1>5. /\ lock' \in [Users -> Paths \union {NoLock}] /\ emptied' \subseteq Paths /\ left' = left
  BY <1>1 DEF TypeOK
<1>. QED
  BY <1>1, <1>2, <1>3, <1>4, <1>5, TypeGoto, TypeReturn

LEMMA TypeFinish ==
    ASSUME TypeOK, CallShape, Finish \/ Undo
    PROVE  TypeOK' /\ CallShape'
<1>1. /\ UNCHANGED <<handle, lock, emptied, left>> /\ (Return(FALSE) \/ Return(TRUE))
      /\ DiskType(meta', file', dir')
  BY DEF Finish, Undo, TypeOK, DiskType
<1>. QED
  BY <1>1, FrameType, TypeReturn
\* The two ways MoveData goes, and what it swaps of a directory.
SwapOf(f, none, s, t) ==
    [p \in Paths |-> IF Below(p, t) /\ Reroot(p, t, s) \in Paths THEN f[Reroot(p, t, s)]
                     ELSE IF Below(p, t) \/ Below(p, s) THEN none ELSE f[p]]

MovesFile ==
    /\ call.new.type = "file" /\ file[call.src] # NoData
    /\ file' = [file EXCEPT ![call.dst] = file[call.src], ![call.src] = NoData]
    /\ UNCHANGED <<meta, dir, emptied>>

MovesDir ==
    LET s == call.src
        t == call.dst
    IN  /\ call.new.type # "file" /\ dir[s] /\ (dir[t] => EmptyDir(t))
        /\ meta' = SwapOf(meta, NoMeta, s, t)
        /\ file' = SwapOf(file, NoData, s, t)
        /\ dir' = [SwapOf(dir, FALSE, s, t) EXCEPT ![t] = TRUE, ![s] = FALSE]
        /\ emptied' = {IF p \in {s, t} \/ MovedTo(p, s, t) \notin Paths
                       THEN p ELSE MovedTo(p, s, t) : p \in emptied}

LEMMA MoveCases ==
    ASSUME MoveData
    PROVE  /\ call.pc = "move" /\ UNCHANGED <<lock, left>>
           /\ \/ /\ MovesFile \/ MovesDir
                 /\ Exchange(call.src, call.dst) /\ Goto("finish")
              \/ /\ UNCHANGED <<meta, file, dir, handle, emptied>>
                 /\ UndoAfter(Movable(call.src, call.dst))
<1>1. call.pc = "move" /\ UNCHANGED <<lock, left>>
  BY DEF MoveData
<1>2. CASE UNCHANGED <<disk, handle, emptied>> /\ UndoAfter(Movable(call.src, call.dst))
  BY <1>1, <1>2 DEF disk
<1>3. CASE ~(UNCHANGED <<disk, handle, emptied>> /\ UndoAfter(Movable(call.src, call.dst)))
  <2>1. /\ Movable(call.src, call.dst) /\ Exchange(call.src, call.dst) /\ Goto("finish")
    BY <1>3 DEF MoveData
  <2>2. CASE call.new.type = "file"
    BY <1>1, <1>3, <2>1, <2>2 DEF MoveData, Movable, MovesFile
  <2>3. CASE call.new.type # "file"
    BY <1>1, <1>3, <2>1, <2>3 DEF MoveData, Movable, MovesDir, SwapOf
  <2>. QED
    BY <2>2, <2>3
<1>. QED
  BY <1>2, <1>3

LEMMA TypeMoveData ==
    ASSUME TypeOK, CallShape, MoveData
    PROVE  TypeOK' /\ CallShape'
<1>1. /\ call.pc = "move" /\ UNCHANGED <<lock, left>>
      /\ call.kind = "rename" /\ call.dst \in Paths /\ call.src \in Paths /\ ~InPlace
      /\ Apart(call.src, call.dst) /\ call.src \in Seq(Names) /\ call.dst \in Seq(Names)
  BY MoveCases, StepKind, PathFacts DEF CallShape, Renaming
<1>2. lock' \in [Users -> Paths \union {NoLock}] /\ left' = left
  BY <1>1 DEF TypeOK
<1>3. CASE UNCHANGED <<meta, file, dir, handle, emptied>> /\ UndoAfter(Movable(call.src, call.dst))
  <2>. DEFINE b == Movable(call.src, call.dst)
  <2>1. b \in BOOLEAN
    <3>1. dir[call.src] \in BOOLEAN
      BY <1>1 DEF TypeOK
    <3>. QED
      BY <3>1 DEF Movable
  <2>2. UndoAfter(b) /\ DiskType(meta', file', dir') /\ UNCHANGED <<handle, lock, emptied, left>>
    BY <1>1, <1>3, DiskTypeKept DEF disk
  <2>. HIDE DEF b
  <2>. QED
    BY <1>1, <2>1, <2>2, FrameType, TypeUndo
<1>4. CASE (MovesFile \/ MovesDir) /\ Exchange(call.src, call.dst) /\ Goto("finish")
  <2>1. handle' \in [Users -> [node : {Exile} \union Seq(Names), id : Ids] \union {NoHandle}]
    <3>1. ASSUME NEW u \in Users, handle[u] # NoHandle, handle[u].node # Exile
          PROVE  [handle[u] EXCEPT !.node = MovedTo(@, call.src, call.dst)]
                 \in [node : {Exile} \union Seq(Names), id : Ids]
      <4>1. handle[u] \in [node : {Exile} \union Seq(Names), id : Ids] /\ handle[u].node \in Seq(Names)
        BY <3>1 DEF TypeOK
      <4>2. MovedTo(handle[u].node, call.src, call.dst) \in Seq(Names)
        BY <1>1, <4>1, Moved
      <4>. QED
        BY <4>1, <4>2
    <3>. QED
      BY <1>4, <3>1 DEF Exchange, TypeOK
  <2>2. DiskType(meta', file', dir')
    <3>1. CASE MovesFile
      BY <1>1, <3>1 DEF MovesFile, TypeOK, DiskType
    <3>2. CASE MovesDir
      <4>1. meta' = SwapOf(meta, NoMeta, call.src, call.dst) /\ file' = SwapOf(file, NoData, call.src, call.dst)
            /\ dir' = [SwapOf(dir, FALSE, call.src, call.dst) EXCEPT ![call.dst] = TRUE, ![call.src] = FALSE]
        BY <3>2 DEF MovesDir
      <4>2. meta' \in [Paths -> Metas \union {NoMeta, TornMeta}]
        BY <4>1 DEF SwapOf, TypeOK
      <4>3. file' \in [Paths -> Ids \union {NoData}]
        BY <4>1 DEF SwapOf, TypeOK
      <4>4. SwapOf(dir, FALSE, call.src, call.dst) \in [Paths -> BOOLEAN]
        BY DEF SwapOf, TypeOK
      <4>. QED
        BY <4>1, <4>2, <4>3, <4>4 DEF DiskType
    <3>. QED
      BY <1>4, <3>1, <3>2
  <2>3. emptied' \subseteq Paths
    <3>1. emptied \subseteq Paths
      BY DEF TypeOK
    <3>2. CASE MovesFile
      BY <3>1, <3>2 DEF MovesFile
    <3>3. CASE MovesDir
      <4>1. emptied' = {IF p \in {call.src, call.dst} \/ MovedTo(p, call.src, call.dst) \notin Paths
                        THEN p ELSE MovedTo(p, call.src, call.dst) : p \in emptied}
        BY <3>3 DEF MovesDir
      <4>. QED
        BY <3>1, <4>1
    <3>. QED
      BY <1>4, <3>2, <3>3
  <2>4. "finish" \in Steps /\ "finish" \in StepsOf[call.kind]
    BY <1>1, StepsOfKinds DEF Steps
  <2>. QED
    BY <1>1, <1>2, <1>4, <2>1, <2>2, <2>3, <2>4, TypeGoto
<1>. QED
  BY <1>3, <1>4, MoveCases
LEMMA TypeFrame ==
    ASSUME TypeOK, CallShape, call' = call, left' = left, tree' = tree, spoilt' = spoilt,
           emptied' = emptied, DiskType(meta', file', dir'),
           handle' \in [Users -> [node : {Exile} \union Seq(Names), id : Ids] \union {NoHandle}],
           lock' \in [Users -> Paths \union {NoLock}]
    PROVE  TypeOK' /\ CallShape'
<1>1. TypeOK'
  BY TypesKept DEF TypeOK
<1>2. CallShape'
  BY DEF CallShape, Renaming, InPlace
<1>. QED
  BY <1>1, <1>2

LEMMA TypeCrash ==
    ASSUME TypeOK, CallShape, Crash
    PROVE  TypeOK' /\ CallShape'
<1>1. /\ DiskType(meta', file', dir') /\ left' = left /\ Return(TRUE)
      /\ handle' \in [Users -> [node : {Exile} \union Seq(Names), id : Ids] \union {NoHandle}]
      /\ lock' \in [Users -> Paths \union {NoLock}]
  BY DiskTypeKept DEF Crash, TypeOK
<1>2. emptied' \subseteq Paths
  BY StepKind DEF Crash, TypeOK, InPlace
<1>. QED
  BY <1>1, <1>2, TypeReturn

LEMMA TypeListDir ==
    ASSUME TypeOK, CallShape, NEW p \in Paths, ListDir(p)
    PROVE  TypeOK' /\ CallShape'
<1>1. /\ call' = call /\ left' = left /\ tree' = tree /\ spoilt' = spoilt /\ emptied' = emptied
      /\ meta' = meta /\ file' = file /\ handle' = handle /\ lock' = lock
  BY DEF ListDir
<1>2. DiskType(meta', file', dir')
  BY <1>1, EnsureType DEF DiskType, TypeOK, ListDir
<1>3. /\ handle' \in [Users -> [node : {Exile} \union Seq(Names), id : Ids] \union {NoHandle}]
      /\ lock' \in [Users -> Paths \union {NoLock}]
  BY <1>1 DEF TypeOK
<1>. QED
  BY <1>1, <1>2, <1>3, TypeFrame

LEMMA TypeSame ==
    ASSUME TypeOK, CallShape, UNCHANGED vars
    PROVE  TypeOK' /\ CallShape'
BY DEF TypeOK, CallShape, Renaming, InPlace, vars

LEMMA TypeClose ==
    ASSUME TypeOK, CallShape, NEW u \in Users, Close(u) \/ Unlock(u) \/ \E p \in Paths : TryLock(u, p)
    PROVE  TypeOK' /\ CallShape'
<1>1. /\ call' = call /\ left' = left /\ tree' = tree /\ spoilt' = spoilt /\ emptied' = emptied
      /\ UNCHANGED disk
  BY DEF Close, Unlock, TryLock
<1>2. /\ handle' \in [Users -> [node : {Exile} \union Seq(Names), id : Ids] \union {NoHandle}]
      /\ lock' \in [Users -> Paths \union {NoLock}]
  BY DEF Close, Unlock, TryLock, TypeOK
<1>. QED
  BY <1>1, <1>2, DiskTypeKept, TypeFrame

LEMMA NextTypes ==
    ASSUME TypeOK, CallShape, [Next]_vars
    PROVE  TypeOK' /\ CallShape'
<1>1. ASSUME NEW p \in Paths, CallOn(p)
      PROVE  TypeOK' /\ CallShape'
  BY <1>1, TypeMkdirCall, TypeOpenCall, TypeRemoveCall, TypeRenameCall, TypeRenameInPlace DEF CallOn
<1>2. ASSUME SystemCall
      PROVE  TypeOK' /\ CallShape'
  BY <1>2, TypeTruncateMeta, TypeWriteMeta, TypeMakeData, TypeOpenDirectory, TypeOpenDataFails,
     TypeDropData, TypeDropMeta, TypeMoveData, TypeFinish, TypeOpenData DEF SystemCall
<1>. QED
  BY <1>1, <1>2, TypeListDir, TypeClose, TypeCrash, TypeSame DEF Next, Quiet

LEMMA InitTypes ==
    ASSUME Init
    PROVE  TypeOK /\ CallShape
<1>1. meta \in [Paths -> Metas \union {NoMeta, TornMeta}]
  <2>1. /\ [type |-> "dir", obj |-> FALSE] \in Metas /\ [type |-> "file", obj |-> FALSE] \in Metas
        /\ [type |-> "file", obj |-> TRUE] \in Metas
    BY DEF Metas
  <2>. QED
    BY <2>1 DEF Init
<1>2. file \in [Paths -> Ids \union {NoData}]
  BY DEF Init, Ids
<1>3. dir \in [Paths -> BOOLEAN]
  BY DEF Init, IsDir, Exists
<1>4. tree \in [Paths -> Entries]
  BY <1>2, ViewType DEF Init
<1>5. call \in Calls /\ call.pc = "idle" /\ call.kind = "none" /\ call.made = FALSE
  BY IdleIs DEF Init
<1>6. TypeOK
  <2>1. handle \in [Users -> [node : {Exile} \union Seq(Names), id : Ids] \union {NoHandle}]
        /\ lock \in [Users -> Paths \union {NoLock}]
    BY DEF Init
  <2>2. emptied \subseteq Paths /\ spoilt \in BOOLEAN /\ left \in 0..MaxCalls
    <3>1. emptied = {} /\ spoilt = FALSE /\ left = MaxCalls
      BY DEF Init
    <3>2. MaxCalls \in Nat
      BY DirectoriesAssumption
    <3>3. MaxCalls \in 0..MaxCalls
      BY <3>2
    <3>. QED
      BY <3>1, <3>3
  <2>. QED
    BY <1>1, <1>2, <1>3, <1>4, <1>5, <2>1, <2>2 DEF TypeOK, Entries
<1>7. CallShape
  BY <1>5, StepsOfKinds DEF CallShape, Renaming, InPlace
<1>. QED
  BY <1>6, <1>7
\* Types.
THEOREM TypeCorrect == Spec => []TypeOK
<1>1. Init => TypeOK /\ CallShape
  BY InitTypes
<1>2. TypeOK /\ CallShape /\ [Next]_vars => TypeOK' /\ CallShape'
  BY NextTypes
<1>. QED
  BY <1>1, <1>2, PTL DEF Spec
-----------------------------------------------------------------------------
\* What lies on the disk, when no metadata is being rewritten in place.
DiskInv == TypeOK /\ CallShape /\ DataHasMetadata /\ Rooted /\ DiskShape

Filed ==
    \A p \in Paths : p \in emptied \/ ((file[p] # NoData => IsFile(p)) /\ (dir[p] => IsDir(p)))

Strict == \A p, q \in Paths : Below(p, q) /\ ~Vacant(p) => IsDir(q) \/ q \in emptied

LEMMA Clean ==
    ASSUME DiskInv, ~InPlace \/ call.pc = "truncate"
    PROVE  Filed /\ Strict
<1>1. CASE ~InPlace
  BY <1>1 DEF DiskInv, DataHasMetadata, Rooted, Filed, Strict
<1>2. CASE InPlace /\ call.pc = "truncate"
  <2>1. /\ meta[call.dst] = call.new /\ call.new \in Metas
        /\ call.dst \in emptied \/ Fits(call.new, call.dst)
    BY <1>2 DEF DiskInv, DiskShape, CallShape, InPlace
  <2>2. call.dst \in emptied \/ ((file[call.dst] # NoData => IsFile(call.dst))
                                /\ (dir[call.dst] => IsDir(call.dst)))
    BY <2>1 DEF Fits, IsFile, IsDir, Exists
  <2>3. call.new.type = "dir" => IsDir(call.dst)
    BY <2>1 DEF IsDir, Exists
  <2>4. Filed
    BY <2>2 DEF DiskInv, DataHasMetadata, Filed
  <2>5. Strict
    BY <2>3 DEF DiskInv, Rooted, Strict
  <2>. QED
    BY <2>4, <2>5
<1>. QED
  BY <1>1, <1>2

LEMMA Cleaned ==
    ASSUME Filed', Strict'
    PROVE  DataHasMetadata' /\ Rooted'
BY DEF DataHasMetadata, Rooted, Filed, Strict

LEMMA DiskOver ==
    ASSUME call'.pc = "idle", call'.kind = "none", call'.made = FALSE
    PROVE  DiskShape'
BY DEF DiskShape, Bared, InPlace, Renaming

LEMMA DiskReturn ==
    ASSUME TypeOK, Filed', Strict', NEW b \in BOOLEAN, Return(b)
    PROVE  DataHasMetadata' /\ Rooted' /\ DiskShape'
<1>1. call'.pc = "idle" /\ call'.kind = "none" /\ call'.made = FALSE
  BY AfterReturn DEF TypeOK
<1>. QED
  BY <1>1, Cleaned, DiskOver

\* What is there is there when the disk is the same.
LEMMA SameDisk ==
    ASSUME meta' = meta, file' = file, dir' = dir
    PROVE  /\ \A p \in Paths : /\ Exists(p)' <=> Exists(p)
                               /\ IsDir(p)' <=> IsDir(p)
                               /\ IsFile(p)' <=> IsFile(p)
                               /\ Vacant(p)' <=> Vacant(p)
                               /\ EmptyDir(p)' <=> EmptyDir(p)
           /\ Filed /\ emptied \subseteq emptied' => Filed'
           /\ Strict /\ emptied \subseteq emptied' => Strict'
<1>1. \A p \in Paths : /\ Exists(p)' <=> Exists(p)
                       /\ IsDir(p)' <=> IsDir(p)
                       /\ IsFile(p)' <=> IsFile(p)
                       /\ Vacant(p)' <=> Vacant(p)
  BY DEF Exists, IsDir, IsFile, Vacant
<1>2. \A p \in Paths : EmptyDir(p)' <=> EmptyDir(p)
  BY <1>1 DEF EmptyDir
<1>3. Filed /\ emptied \subseteq emptied' => Filed'
  BY <1>1 DEF Filed
<1>4. Strict /\ emptied \subseteq emptied' => Strict'
  BY <1>1 DEF Strict
<1>. QED
  BY <1>1, <1>2, <1>3, <1>4

\* EnsureDir makes nothing but the "D." of a directory.
LEMMA Ensured ==
    ASSUME TypeOK, meta' = meta, file' = file, emptied' = emptied,
           NEW q, IsParent(q), EnsureDir(q)
    PROVE  /\ \A p \in Paths : /\ Exists(p)' <=> Exists(p)
                               /\ IsDir(p)' <=> IsDir(p)
                               /\ IsFile(p)' <=> IsFile(p)
                               /\ Vacant(p)' <=> Vacant(p)
                               /\ EmptyDir(p)' <=> EmptyDir(p)
                               /\ dir'[p] => dir[p] \/ p = q
                               /\ dir[p] => dir'[p]
           /\ \A p : IsParent(p) => IsParent(p)'
           /\ Filed => Filed'
           /\ Strict => Strict'
<1>1. \A p \in Paths : (dir'[p] => dir[p] \/ (p = q /\ IsDir(p))) /\ (dir[p] => dir'[p])
  BY DEF TypeOK, EnsureDir, IsParent
<1>2. \A p : /\ Exists(p)' <=> Exists(p)
             /\ IsDir(p)' <=> IsDir(p)
             /\ IsFile(p)' <=> IsFile(p)
  BY DEF Exists, IsDir, IsFile
<1>3. \A p \in Paths : IsDir(p) => meta[p] # NoMeta
  BY AbsenceAssumption DEF IsDir, Exists
<1>4. \A p \in Paths : Vacant(p)' <=> Vacant(p)
  BY <1>1, <1>3 DEF Vacant
<1>5. \A p \in Paths : EmptyDir(p)' <=> EmptyDir(p)
  BY <1>4 DEF EmptyDir
<1>6. \A p : IsParent(p) => IsParent(p)'
  BY <1>2 DEF IsParent
<1>7. Filed => Filed'
  BY <1>1, <1>2 DEF Filed
<1>8. Strict => Strict'
  BY <1>2, <1>4 DEF Strict
<1>. QED
  BY <1>1, <1>2, <1>4, <1>5, <1>6, <1>7, <1>8

\* Where there is no metadata there is nothing.
LEMMA NothingThere ==
    ASSUME Filed, Strict, NEW p \in Paths, ~IsDir(p)
    PROVE  /\ p \in emptied \/ (~dir[p] /\ EmptyDir(p))
           /\ ~Exists(p) => Bare(p)
<1>1. p \in emptied \/ (~dir[p] /\ EmptyDir(p))
  BY DEF Filed, Strict, EmptyDir
<1>2. ~Exists(p) => p \in emptied \/ file[p] = NoData
  BY DEF Filed, IsFile
<1>. QED
  BY <1>1, <1>2 DEF Bare
\* Between two calls the disk is clean.
LEMMA CleanIdle ==
    ASSUME DiskInv, call.pc = "idle"
    PROVE  ~InPlace /\ Filed /\ Strict
<1>1. ~InPlace
  BY StepKind DEF DiskInv, InPlace
<1>. QED
  BY <1>1, Clean

LEMMA DiskMkdirCall ==
    ASSUME DiskInv, NEW p \in Paths, MkdirCall(p)
    PROVE  DataHasMetadata' /\ Rooted' /\ DiskShape'
<1>1. /\ call.pc = "idle" /\ emptied' = emptied /\ meta' = meta /\ file' = file
      /\ call'.pc = "truncate" /\ call'.kind = "mkdir" /\ call'.dst = p /\ call'.made = FALSE
      /\ ~Exists(p) /\ IsParent(Parent(p)) /\ EnsureDir(Parent(p))
  BY AfterMkdirCall DEF DiskInv, Started
<1>2. Filed' /\ Strict'
  BY <1>1, CleanIdle, Ensured DEF DiskInv
<1>3. ~Exists(p)' /\ ~IsDir(p)' /\ IsParent(Parent(p))'
  BY <1>1, Ensured DEF DiskInv, IsDir
<1>4. Bare(p)'
  BY <1>2, <1>3 DEF Filed, Strict, EmptyDir, IsFile, IsDir, Bare
<1>5. DiskShape'
  BY <1>1, <1>3, <1>4 DEF DiskShape, Bared, InPlace, Renaming
<1>. QED
  BY <1>2, <1>5, Cleaned

LEMMA DiskOpenCall ==
    ASSUME DiskInv, NEW p \in Paths, NEW f \in OpenFlags, OpenCall(p, f)
    PROVE  DataHasMetadata' /\ Rooted' /\ DiskShape'
<1>. DEFINE made == "create" \in f /\ meta[p] = NoMeta
<1>0. made \in BOOLEAN /\ made = ("create" \in f /\ meta[p] = NoMeta) /\ (made => meta[p] = NoMeta)
  OBVIOUS
<1>. HIDE DEF made
<1>1. /\ call.pc = "idle" /\ emptied' = emptied /\ meta' = meta /\ file' = file
      /\ call'.pc = (IF made THEN "truncate" ELSE "open") /\ call'.kind = "open" /\ call'.dst = p
      /\ (call'.made <=> made)
      /\ (made \/ Exists(p)) /\ IsParent(Parent(p)) /\ EnsureDir(Parent(p))
  BY <1>0, AfterOpenCall DEF DiskInv, Started
<1>2. Filed' /\ Strict'
  BY <1>1, CleanIdle, Ensured DEF DiskInv
<1>3. /\ made => ~Exists(p)'
      /\ ~made => Exists(p)'
      /\ IsParent(Parent(p))'
  BY <1>0, <1>1, Ensured, AbsenceAssumption DEF DiskInv, Exists
<1>4. made => Bare(p)'
  BY <1>2, <1>3 DEF Filed, Strict, EmptyDir, IsFile, IsDir, Bare
<1>5. DiskShape'
  BY <1>1, <1>3, <1>4 DEF DiskShape, Bared, InPlace, Renaming
<1>. QED
  BY <1>2, <1>5, Cleaned

LEMMA DiskRemoveCall ==
    ASSUME DiskInv, NEW p \in Paths, RemoveCall(p)
    PROVE  DataHasMetadata' /\ Rooted' /\ DiskShape'
<1>1. /\ call.pc = "idle" /\ emptied' = emptied /\ meta' = meta /\ file' = file /\ dir' = dir
      /\ call'.pc = "dropData" /\ call'.kind = "remove" /\ call'.dst = p /\ call'.made = FALSE
      /\ Exists(p)
  BY AfterRemoveCall DEF DiskInv, Started
<1>2. Filed' /\ Strict' /\ Exists(p)'
  BY <1>1, CleanIdle, SameDisk
<1>3. DiskShape'
  BY <1>1, <1>2 DEF DiskShape, Bared, InPlace, Renaming
<1>. QED
  BY <1>2, <1>3, Cleaned

LEMMA DiskRenameCall ==
    ASSUME DiskInv, NEW p \in Paths, NEW t \in Paths, RenameCall(p, t)
    PROVE  DataHasMetadata' /\ Rooted' /\ DiskShape'
<1>1. /\ call.pc = "idle" /\ emptied' = emptied /\ meta' = meta /\ file' = file
      /\ call'.pc = (IF Exists(t) THEN "dropData" ELSE "truncate") /\ call'.kind = "rename"
      /\ call'.src = p /\ call'.dst = t /\ call'.new = meta[p] /\ call'.made = FALSE
      /\ Apart(p, t) /\ IsParent(Parent(t)) /\ ~IsDir(t) /\ EnsureDir(Parent(t))
      /\ \A q \in Paths : Below(q, p) /\ ~Vacant(q) => Reroot(q, p, t) \in Paths
  BY AfterRenameCall DEF DiskInv, Started
<1>2. Filed' /\ Strict'
  BY <1>1, CleanIdle, Ensured DEF DiskInv
<1>3. /\ Exists(t)' <=> Exists(t)
      /\ ~IsDir(t)' /\ IsParent(Parent(t))'
      /\ \A q \in Paths : Below(q, p) /\ ~Vacant(q)' => Reroot(q, p, t) \in Paths
  BY <1>1, Ensured DEF DiskInv
<1>4. ~Exists(t)' => Bare(t)'
  BY <1>2, <1>3 DEF Filed, Strict, EmptyDir, IsFile, Bare
<1>5. Exists(t)' => IsFile(t)'
  BY <1>3 DEF Exists, IsDir, IsFile, Metas
<1>6. meta'[p] = call'.new /\ ~InPlace'
  BY <1>1, PathFacts DEF InPlace, Apart
<1>7. DiskShape'
  BY <1>1, <1>3, <1>4, <1>5, <1>6 DEF DiskShape, Bared, Renaming
<1>. QED
  BY <1>2, <1>7, Cleaned

LEMMA DiskRenameInPlace ==
    ASSUME DiskInv, NEW p \in Paths, RenameInPlace(p)
    PROVE  DataHasMetadata' /\ Rooted' /\ DiskShape'
<1>1. /\ call.pc = "idle" /\ emptied' = emptied /\ meta' = meta /\ file' = file /\ dir' = dir
      /\ call'.pc = "truncate" /\ call'.kind = "rename" /\ call'.src = p /\ call'.dst = p
      /\ call'.new = meta[p] /\ call'.made = FALSE
  BY AfterRenameInPlace DEF DiskInv, Started
<1>2. Filed' /\ Strict'
  BY <1>1, CleanIdle, SameDisk
<1>3. meta'[p] = call'.new /\ InPlace' /\ ~Renaming'
  BY <1>1 DEF InPlace, Renaming
<1>4. p \in emptied' \/ Fits(call.new, p)'
  BY <1>2, <1>3 DEF Filed, IsFile, IsDir, Fits
<1>5. DiskShape'
  BY <1>1, <1>3, <1>4 DEF DiskShape, Bared, Fits
<1>. QED
  BY <1>2, <1>5, Cleaned
\* Metadata comes and goes where there is nothing else.
LEMMA MetaChanged ==
    ASSUME TypeOK, Filed, Strict, NEW x \in Paths, Bare(x),
           \A p \in Paths \ {x} : meta'[p] = meta[p], file' = file, dir' = dir, emptied' = emptied,
           meta'[x] # NoMeta => meta[x] # NoMeta \/ IsParent(Parent(x))
    PROVE  /\ Filed' /\ Strict' /\ Bare(x)'
           /\ \A p \in Paths \ {x} : /\ meta'[p] = meta[p]
                                     /\ Exists(p)' <=> Exists(p)
                                     /\ IsDir(p)' <=> IsDir(p)
                                     /\ IsFile(p)' <=> IsFile(p)
                                     /\ Vacant(p)' <=> Vacant(p)
<1>1. \A p \in Paths \ {x} : /\ meta'[p] = meta[p]
                             /\ Exists(p)' <=> Exists(p)
                             /\ IsDir(p)' <=> IsDir(p)
                             /\ IsFile(p)' <=> IsFile(p)
                             /\ Vacant(p)' <=> Vacant(p)
  BY DEF TypeOK, Exists, IsDir, IsFile, Vacant
<1>2. Bare(x)'
  <2>1. EmptyDir(x) => EmptyDir(x)'
    BY <1>1 DEF EmptyDir, Below
  <2>. QED
    BY <2>1 DEF Bare
<1>3. Filed'
  BY <1>1, <1>2 DEF Filed, Bare
<1>4. ASSUME NEW p \in Paths, NEW q \in Paths, Below(p, q), ~Vacant(p)'
      PROVE  IsDir(q)' \/ q \in emptied'
  <2>1. CASE q = x
    BY <1>2, <1>4, <2>1 DEF Bare, EmptyDir
  <2>2. CASE q # x /\ ~Vacant(p)
    BY <1>1, <1>4, <2>2 DEF Strict
  <2>3. CASE q # x /\ Vacant(p)
    <3>1. p = x
      BY <1>1, <1>4, <2>3
    <3>2. meta'[x] # NoMeta /\ meta[x] = NoMeta
      BY <1>1, <1>4, <2>3, <3>1 DEF Vacant
    <3>3. Parent(x) \in Paths /\ AtOrBelow(Parent(x), q) /\ IsDir(Parent(x))
      BY <1>4, <3>1, <3>2, UpToParent, PathFacts DEF IsParent
    <3>4. CASE Parent(x) = q
      BY <1>1, <2>3, <3>3, <3>4
    <3>5. CASE Parent(x) # q
      <4>1. ~Vacant(Parent(x))
        BY <3>3, AbsenceAssumption DEF Vacant, IsDir, Exists
      <4>2. IsDir(q) \/ q \in emptied
        BY <3>3, <3>5, <4>1 DEF Strict, Below
      <4>. QED
        BY <1>1, <2>3, <4>2
    <3>. QED
      BY <3>4, <3>5
  <2>. QED
    BY <2>1, <2>2, <2>3
<1>. QED
  BY <1>1, <1>2, <1>3, <1>4 DEF Strict

LEMMA DiskTruncateMeta ==
    ASSUME DiskInv, TruncateMeta
    PROVE  DataHasMetadata' /\ Rooted' /\ DiskShape'
<1>1. /\ call.pc = "truncate" /\ file' = file /\ dir' = dir /\ emptied' = emptied
      /\ call \in Calls /\ TypeOK /\ CallShape /\ call.dst \in Paths
      /\ call.kind \in {"mkdir", "open", "rename"} /\ (call.kind = "open" => call.made)
      /\ Filed /\ Strict
  BY StepKind, Clean DEF TruncateMeta, DiskInv, TypeOK, CallShape
<1>2. CASE meta' = [meta EXCEPT ![call.dst] = TornMeta] /\ Goto("write")
  <2>1. /\ call'.pc = "write" /\ call'.kind = call.kind /\ call'.src = call.src
        /\ call'.dst = call.dst /\ call'.new = call.new /\ (call'.made <=> call.made)
    BY <1>1, <1>2, AfterGoto DEF Steps
  <2>2. (InPlace' <=> InPlace) /\ (Renaming' <=> Renaming)
    BY <2>1 DEF InPlace, Renaming
  <2>3. meta'[call.dst] = TornMeta
    BY <1>1, <1>2 DEF TypeOK
  <2>4. CASE ~InPlace
    <3>0. PICK x \in Paths : x = call.dst
      BY <1>1
    <3>1. Bare(x) /\ IsParent(Parent(x))
      BY <1>1, <2>4, <3>0 DEF DiskInv, DiskShape, Bared, Renaming
    <3>2. /\ Filed' /\ Strict' /\ Bare(x)'
          /\ \A p \in Paths \ {x} : /\ meta'[p] = meta[p]
                                    /\ IsDir(p)' <=> IsDir(p)
                                    /\ Vacant(p)' <=> Vacant(p)
      <4>1. \A p \in Paths \ {x} : meta'[p] = meta[p]
        BY <1>1, <1>2, <3>0 DEF TypeOK
      <4>. QED
        BY <1>1, <3>1, <4>1, MetaChanged
    <3>3. IsParent(Parent(x))'
      BY <3>1, <3>2, PathFacts DEF IsParent, Below
    <3>4. Renaming => /\ call.src \in Paths /\ call.src # x
                      /\ ~AtOrBelow(x, call.src)
                      /\ meta[call.src] = call.new
                      /\ \A p \in Paths : Below(p, call.src) /\ ~Vacant(p) =>
                             Reroot(p, call.src, x) \in Paths
      BY <1>1, <3>0, PathFacts DEF DiskInv, DiskShape, CallShape, Renaming, Apart
    <3>5. Renaming => /\ meta'[call.src] = call.new
                      /\ \A p \in Paths : Below(p, call.src) /\ ~Vacant(p)' =>
                             Reroot(p, call.src, x) \in Paths
      BY <3>2, <3>4 DEF Below
    <3>6. DiskShape'
      BY <2>1, <2>2, <2>3, <2>4, <3>0, <3>2, <3>3, <3>5 DEF DiskShape, Bared
    <3>. QED
      BY <3>2, <3>6, Cleaned
  <2>5. CASE InPlace
    <3>1. /\ call.new \in Metas /\ meta[call.dst] = call.new
          /\ call.dst \in emptied \/ Fits(call.new, call.dst)
      BY <1>1, <2>5 DEF DiskInv, DiskShape, CallShape, InPlace
    <3>2. \A p \in Paths \ {call.dst} : /\ meta'[p] = meta[p]
                                        /\ IsDir(p)' <=> IsDir(p)
                                        /\ IsFile(p)' <=> IsFile(p)
                                        /\ Vacant(p)' <=> Vacant(p)
      BY <1>1, <1>2 DEF TypeOK, Exists, IsDir, IsFile, Vacant
    <3>3. ~Vacant(call.dst)
      BY <1>1, <3>1, AbsenceAssumption DEF Vacant
    <3>4. DataHasMetadata'
      BY <1>1, <2>1, <2>2, <2>5, <3>2 DEF DataHasMetadata, Filed
    <3>5. Rooted'
      <4>1. ASSUME NEW p \in Paths, NEW q \in Paths, Below(p, q), ~Vacant(p)'
            PROVE  IsDir(q)' \/ q \in emptied' \/ (q = call.dst /\ call.new.type = "dir")
        <5>1. ~Vacant(p)
          BY <3>2, <3>3, <4>1
        <5>2. IsDir(q) \/ q \in emptied
          BY <1>1, <4>1, <5>1 DEF Strict
        <5>. QED
          BY <1>1, <3>1, <3>2, <5>2 DEF IsDir
      <4>. QED
        BY <2>1, <2>2, <2>5, <4>1 DEF Rooted
    <3>6. call.dst \in emptied' \/ Fits(call.new, call.dst)'
      BY <1>1, <2>1, <3>1 DEF Fits
    <3>7. call'.made = FALSE /\ call'.kind = "rename" /\ ~Renaming'
      BY <1>1, <2>1, <2>2, <2>5 DEF InPlace, Renaming, CallShape, Calls
    <3>8. DiskShape'
      BY <2>1, <2>2, <2>3, <2>5, <3>6, <3>7 DEF DiskShape, Bared, Fits
    <3>. QED
      BY <3>4, <3>5, <3>8
  <2>. QED
    BY <2>4, <2>5
<1>3. CASE meta' = meta /\ Return(TRUE)
  BY <1>1, <1>3, SameDisk, DiskReturn
<1>. QED
  BY <1>2, <1>3 DEF TruncateMeta

\* A call that returns leaves the disk as it was.
LEMMA ReturnSame ==
    ASSUME DiskInv, ~InPlace \/ call.pc = "truncate",
           meta' = meta, file' = file, dir' = dir, emptied' = emptied,
           NEW b \in BOOLEAN, Return(b)
    PROVE  DataHasMetadata' /\ Rooted' /\ DiskShape'
<1>1. TypeOK /\ Filed /\ Strict
  BY Clean DEF DiskInv
<1>2. Filed' /\ Strict'
  BY <1>1, SameDisk
<1>. QED
  BY <1>1, <1>2, DiskReturn

\* A call that has made metadata in vain goes on to remove it.
LEMMA UndoSame ==
    ASSUME DiskInv, ~InPlace, Bared, call.kind \in {"mkdir", "open", "rename"},
           call.kind = "open" => call.made,
           meta' = meta, file' = file, dir' = dir, emptied' = emptied,
           NEW b \in BOOLEAN, UndoAfter(b)
    PROVE  DataHasMetadata' /\ Rooted' /\ DiskShape'
<1>1. TypeOK /\ Filed /\ Strict /\ CallShape /\ call.pc # "finish" /\ call.dst \in Paths
  BY Clean, StepKind DEF DiskInv, Bared, CallShape
<1>2. Filed' /\ Strict'
  BY <1>1, SameDisk
<1>3. /\ call'.pc = "undo" /\ call'.kind = call.kind /\ call'.src = call.src
      /\ call'.dst = call.dst /\ call'.new = call.new /\ (call'.made <=> call.made)
  BY <1>1, AfterUndoAfter DEF TypeOK
<1>4. ~InPlace' /\ (Renaming' <=> Renaming)
  BY <1>3 DEF InPlace, Renaming
<1>5. PICK x \in Paths : x = call.dst
  BY <1>1
<1>6. Bare(x) /\ IsParent(Parent(x))
  BY <1>1, <1>5 DEF DiskInv, DiskShape, Renaming
<1>7. Bare(x)' /\ IsParent(Parent(x))'
  BY <1>6 DEF Bare, EmptyDir, Vacant, IsParent, IsDir, Exists
<1>8. Renaming => /\ meta'[call.src] = call.new
                  /\ \A p \in Paths : Below(p, call.src) /\ ~Vacant(p)' =>
                         Reroot(p, call.src, x) \in Paths
  BY <1>1, <1>5 DEF DiskInv, DiskShape, Vacant
<1>9. DiskShape'
  BY <1>3, <1>4, <1>5, <1>7, <1>8 DEF DiskShape, Bared
<1>. QED
  BY <1>2, <1>9, Cleaned

\* The metadata of call.dst is written or removed, and the call goes on.
LEMMA MetaOnly ==
    ASSUME DiskInv, ~InPlace, NEW x \in Paths, x = call.dst, Bare(x), IsParent(Parent(x)),
           call.kind = "mkdir" \/ call.made \/ Renaming,
           \A p \in Paths \ {x} : meta'[p] = meta[p], file' = file, dir' = dir, emptied' = emptied
    PROVE  /\ Filed' /\ Strict' /\ Bare(x)' /\ IsParent(Parent(x))'
           /\ Renaming => meta'[call.src] = call.new
           /\ Renaming /\ call.pc # "finish" =>
                 \A p \in Paths : Below(p, call.src) /\ ~Vacant(p)' =>
                    Reroot(p, call.src, x) \in Paths
<1>1. TypeOK /\ Filed /\ Strict /\ CallShape
  BY Clean DEF DiskInv
<1>2. /\ Filed' /\ Strict' /\ Bare(x)'
      /\ \A p \in Paths \ {x} : /\ meta'[p] = meta[p]
                                /\ IsDir(p)' <=> IsDir(p)
                                /\ Vacant(p)' <=> Vacant(p)
  BY <1>1, MetaChanged
<1>3. IsParent(Parent(x))'
  BY <1>2, PathFacts DEF IsParent, Below
<1>4. Renaming => /\ call.src \in Paths /\ call.src # x
                  /\ ~AtOrBelow(x, call.src)
                  /\ meta[call.src] = call.new
  BY <1>1, PathFacts DEF DiskInv, DiskShape, CallShape, Renaming, Apart
<1>5. Renaming /\ call.pc # "finish" =>
         \A p \in Paths : Below(p, call.src) /\ ~Vacant(p) => Reroot(p, call.src, x) \in Paths
  BY DEF DiskInv, DiskShape
<1>6. Renaming => meta'[call.src] = call.new
  BY <1>2, <1>4
<1>7. Renaming /\ call.pc # "finish" =>
         \A p \in Paths : Below(p, call.src) /\ ~Vacant(p)' => Reroot(p, call.src, x) \in Paths
  BY <1>2, <1>4, <1>5 DEF Below
<1>. QED
  BY <1>2, <1>3, <1>6, <1>7

LEMMA DiskWriteMeta ==
    ASSUME DiskInv, WriteMeta
    PROVE  DataHasMetadata' /\ Rooted' /\ DiskShape'
<1>1. /\ call.pc = "write" /\ file' = file /\ dir' = dir
      /\ call \in Calls /\ TypeOK /\ CallShape /\ call.dst \in Paths
      /\ call.kind \in {"mkdir", "open", "rename"} /\ (call.kind = "open" => call.made)
      /\ meta[call.dst] = TornMeta
  BY StepKind DEF WriteMeta, DiskInv, TypeOK, CallShape, DiskShape
<1>2. PICK x \in Paths : x = call.dst
  BY <1>1
<1>3. CASE meta' = [meta EXCEPT ![call.dst] = call.new] /\ emptied' = emptied /\ ~InPlace
  <2>1. Bare(x) /\ IsParent(Parent(x)) /\ (call.kind = "mkdir" \/ call.made \/ Renaming)
    BY <1>1, <1>2, <1>3 DEF DiskInv, DiskShape, Bared, Renaming
  <2>2. meta'[x] = call.new /\ \A p \in Paths \ {x} : meta'[p] = meta[p]
    BY <1>2, <1>1, <1>3 DEF TypeOK
  <2>3. /\ Filed' /\ Strict' /\ Bare(x)' /\ IsParent(Parent(x))'
        /\ Renaming => meta'[call.src] = call.new
        /\ Renaming => \A p \in Paths : Below(p, call.src) /\ ~Vacant(p)' =>
                          Reroot(p, call.src, x) \in Paths
    BY <1>1, <1>2, <1>3, <2>1, <2>2, MetaOnly
  <2>4. CASE Return(TRUE)
    BY <1>1, <2>3, <2>4, DiskReturn
  <2>5. CASE Goto(IF call.kind = "rename" THEN "move" ELSE call.kind)
    <3>. DEFINE y == IF call.kind = "rename" THEN "move" ELSE call.kind
    <3>1. y \in Steps /\ y \in {"mkdir", "open", "move"}
          /\ (y = "open" => call.kind = "open") /\ Goto(y)
      BY <1>1, <2>5 DEF Steps
    <3>. HIDE DEF y
    <3>2. /\ call'.pc = y /\ call'.kind = call.kind /\ call'.src = call.src
          /\ call'.dst = call.dst /\ call'.new = call.new /\ (call'.made <=> call.made)
      BY <1>1, <3>1, AfterGoto
    <3>3. ~InPlace' /\ (Renaming' <=> Renaming)
      BY <1>3, <3>2 DEF InPlace, Renaming
    <3>4. y = "open" => Exists(x)'
      <4>1. [type |-> "file", obj |-> FALSE] \in Metas
        BY DEF Metas
      <4>2. y = "open" => call.new \in Metas
        BY <1>1, <3>1, <4>1 DEF CallShape
      <4>. QED
        BY <2>2, <4>2 DEF Exists
    <3>5. DiskShape'
      BY <1>2, <2>2, <2>3, <3>1, <3>2, <3>3, <3>4 DEF DiskShape, Bared
    <3>. QED
      BY <2>3, <3>5, Cleaned
  <2>. QED
    BY <1>3, <2>4, <2>5 DEF WriteMeta
<1>4. CASE meta' = [meta EXCEPT ![call.dst] = call.new] /\ emptied' = emptied /\ InPlace
  <2>1. Return(FALSE) \/ Return(TRUE)
    BY <1>4 DEF WriteMeta
  <2>2. /\ call.new \in Metas /\ meta'[x] = call.new /\ (x \in emptied \/ Fits(call.new, x))
        /\ \A p \in Paths \ {x} : meta'[p] = meta[p]
    BY <1>1, <1>2, <1>4 DEF DiskInv, DiskShape, CallShape, InPlace, TypeOK
  <2>3. /\ \A p \in Paths \ {x} : /\ IsDir(p)' <=> IsDir(p)
                                  /\ IsFile(p)' <=> IsFile(p)
        /\ \A p \in Paths : Vacant(p)' => Vacant(p)
        /\ \A p \in Paths : Vacant(p) => Vacant(p)'
    BY <1>1, <1>2, <2>2, AbsenceAssumption DEF IsDir, IsFile, Exists, Vacant
  <2>4. Filed'
    <3>1. \A p \in Paths \ {x} : p \in emptied \/ ((file[p] # NoData => IsFile(p)) /\ (dir[p] => IsDir(p)))
      BY <1>2 DEF DiskInv, DataHasMetadata
    <3>2. x \in emptied \/ ((file[x] # NoData => IsFile(x)') /\ (dir[x] => IsDir(x)'))
      BY <2>2 DEF Fits, IsFile, IsDir, Exists
    <3>. QED
      BY <1>1, <1>4, <2>3, <3>1, <3>2 DEF Filed
  <2>5. Strict'
    <3>1. \A p, q \in Paths : Below(p, q) /\ ~Vacant(p) =>
             IsDir(q) \/ q \in emptied \/ (q = x /\ call.new.type = "dir")
      BY <1>2 DEF DiskInv, Rooted
    <3>2. call.new.type = "dir" => IsDir(x)'
      BY <2>2 DEF IsDir, Exists
    <3>3. ~IsDir(x)
      BY <1>1, <1>2, AbsenceAssumption DEF IsDir, Exists
    <3>. QED
      BY <1>4, <2>3, <3>1, <3>2, <3>3 DEF Strict
  <2>. QED
    BY <1>1, <2>1, <2>4, <2>5, DiskReturn
<1>5. CASE /\ meta' = meta /\ Return(TRUE)
           /\ emptied' = IF InPlace THEN emptied \union {call.dst} ELSE emptied
  <2>1. /\ \A p \in Paths : /\ IsDir(p)' <=> IsDir(p)
                            /\ IsFile(p)' <=> IsFile(p)
                            /\ Vacant(p)' <=> Vacant(p)
    BY <1>1, <1>5, SameDisk
  <2>2. Filed'
    BY <1>1, <1>5, <2>1 DEF DiskInv, DataHasMetadata, Filed
  <2>3. Strict'
    BY <1>1, <1>5, <2>1 DEF DiskInv, Rooted, Strict
  <2>. QED
    BY <1>1, <1>5, <2>2, <2>3, DiskReturn
<1>. QED
  BY <1>3, <1>4, <1>5 DEF WriteMeta

LEMMA DiskMakeData ==
    ASSUME DiskInv, MakeData
    PROVE  DataHasMetadata' /\ Rooted' /\ DiskShape'
<1>1. /\ call.pc = "mkdir" /\ meta' = meta /\ file' = file /\ emptied' = emptied
      /\ call.kind = "mkdir" /\ call.dst \in Paths /\ ~InPlace /\ TypeOK /\ Filed /\ Strict
      /\ meta[call.dst] = [type |-> "dir", obj |-> FALSE] /\ Bared
  BY StepKind, Clean DEF MakeData, DiskInv, InPlace, CallShape, DiskShape, Bared
<1>2. PICK x \in Paths : x = call.dst
  BY <1>1
<1>3. CASE dir' = [dir EXCEPT ![call.dst] = TRUE] /\ Return(FALSE)
  <2>1. \A p \in Paths : p # x => dir'[p] = dir[p]
    BY <1>1, <1>2, <1>3 DEF TypeOK
  <2>2. /\ \A p \in Paths : IsDir(p)' <=> IsDir(p)
        /\ \A p \in Paths : IsFile(p)' <=> IsFile(p)
        /\ IsDir(x)
    <3>1. [type |-> "dir", obj |-> FALSE] \in Metas
      BY DEF Metas
    <3>. QED
      BY <1>1, <1>2, <3>1 DEF IsDir, IsFile, Exists
  <2>3. meta[x] # NoMeta
    BY <2>2, AbsenceAssumption DEF IsDir, Exists
  <2>4. \A p \in Paths : Vacant(p)' <=> Vacant(p)
    BY <1>1, <2>1, <2>3 DEF Vacant
  <2>5. Filed'
    BY <1>1, <2>1, <2>2 DEF Filed
  <2>6. Strict'
    BY <1>1, <2>2, <2>4 DEF Strict
  <2>. QED
    BY <1>1, <1>3, <2>5, <2>6, DiskReturn
<1>4. CASE dir' = dir /\ UndoAfter(~dir[call.dst])
  <2>. DEFINE b == ~dir[call.dst]
  <2>1. b \in BOOLEAN /\ UndoAfter(b)
    BY <1>4
  <2>. HIDE DEF b
  <2>. QED
    BY <1>1, <1>4, <2>1, UndoSame
<1>. QED
  BY <1>3, <1>4 DEF MakeData

LEMMA DiskOpenDirectory ==
    ASSUME DiskInv, OpenDirectory
    PROVE  DataHasMetadata' /\ Rooted' /\ DiskShape'
<1>1. /\ call.pc = "open" /\ meta' = meta /\ file' = file /\ emptied' = emptied /\ IsDir(call.dst)
      /\ ~InPlace /\ TypeOK /\ Filed /\ Strict
  BY StepKind, Clean DEF OpenDirectory, DiskInv, InPlace
<1>2. CASE EnsureDir(call.dst) /\ Return(FALSE)
  <2>1. IsParent(call.dst)
    BY <1>1 DEF IsParent
  <2>2. Filed' /\ Strict'
    BY <1>1, <1>2, <2>1, Ensured
  <2>. QED
    BY <1>1, <1>2, <2>2, DiskReturn
<1>3. CASE dir' = dir /\ Return(TRUE)
  BY <1>1, <1>3, ReturnSame
<1>. QED
  BY <1>2, <1>3 DEF OpenDirectory

LEMMA DiskOpenData ==
    ASSUME DiskInv, NEW u \in Users, OpenData(u)
    PROVE  DataHasMetadata' /\ Rooted' /\ DiskShape'
<1>1. /\ call.pc = "open" /\ meta' = meta /\ dir' = dir /\ emptied' = emptied /\ Return(FALSE)
      /\ IsFile(call.dst) /\ call.dst \in Paths /\ ~InPlace /\ TypeOK /\ Filed /\ Strict
      /\ file' = IF file[call.dst] = NoData THEN [file EXCEPT ![call.dst] = <<"new", left + 1>>]
                 ELSE file
  BY StepKind, Clean DEF OpenData, DiskInv, InPlace
<1>2. PICK x \in Paths : x = call.dst
  BY <1>1
<1>3. \A p \in Paths : p # x => file'[p] = file[p]
  BY <1>1, <1>2 DEF TypeOK
<1>4. /\ \A p \in Paths : IsDir(p)' <=> IsDir(p)
      /\ \A p \in Paths : IsFile(p)' <=> IsFile(p)
      /\ IsFile(x)
  BY <1>1, <1>2 DEF IsDir, IsFile, Exists
<1>5. meta[x] # NoMeta
  BY <1>4, AbsenceAssumption DEF IsFile, Exists
<1>6. \A p \in Paths : Vacant(p)' <=> Vacant(p)
  BY <1>1, <1>3, <1>5 DEF Vacant
<1>7. Filed'
  BY <1>1, <1>3, <1>4 DEF Filed
<1>8. Strict'
  BY <1>1, <1>4, <1>6 DEF Strict
<1>. QED
  BY <1>1, <1>7, <1>8, DiskReturn

LEMMA DiskOpenDataFails ==
    ASSUME DiskInv, OpenDataFails
    PROVE  DataHasMetadata' /\ Rooted' /\ DiskShape'
<1>. DEFINE b == Openable(call.dst)
<1>1. /\ call.pc = "open" /\ meta' = meta /\ file' = file /\ dir' = dir /\ emptied' = emptied
      /\ call.kind = "open" /\ ~InPlace
  BY StepKind DEF OpenDataFails, DiskInv, InPlace, disk
<1>2. b \in BOOLEAN
  BY DEF Openable
<1>3. CASE call.made /\ UndoAfter(b)
  <2>1. Bared
    BY <1>1, <1>3 DEF Bared
  <2>. HIDE DEF b
  <2>. QED
    BY <1>1, <1>2, <1>3, <2>1, UndoSame
<1>4. CASE Return(b)
  <2>. HIDE DEF b
  <2>. QED
    BY <1>1, <1>2, <1>4, ReturnSame
<1>. QED
  BY <1>3, <1>4 DEF OpenDataFails

LEMMA DiskDropData ==
    ASSUME DiskInv, DropData
    PROVE  DataHasMetadata' /\ Rooted' /\ DiskShape'
<1>1. /\ call.pc = "dropData" /\ meta' = meta /\ emptied' = emptied
      /\ call.kind \in {"remove", "rename"} /\ call.dst \in Paths /\ ~InPlace
      /\ TypeOK /\ CallShape /\ Filed /\ Strict /\ Exists(call.dst) /\ ~call.made
      /\ (Renaming => IsFile(call.dst))
  BY StepKind, Clean DEF DropData, DiskInv, CallShape, DiskShape
<1>2. PICK x \in Paths : x = call.dst
  BY <1>1
<1>3. CASE file' = file /\ dir' = dir /\ Return(Removable(call.dst))
  <2>. DEFINE b == Removable(call.dst)
  <2>1. b \in BOOLEAN
    <3>1. dir[call.dst] \in BOOLEAN
      BY <1>1 DEF TypeOK
    <3>. QED
      BY <3>1 DEF Removable
  <2>2. Return(b)
    BY <1>3
  <2>. HIDE DEF b
  <2>. QED
    BY <1>1, <1>3, <2>1, <2>2, ReturnSame
<1>4. CASE /\ Removable(x) /\ Goto("dropMeta")
           /\ file' = IF IsDir(x) THEN file ELSE [file EXCEPT ![x] = NoData]
           /\ dir' = IF IsDir(x) THEN [dir EXCEPT ![x] = FALSE] ELSE dir
  <2>1. /\ \A p \in Paths : p # x => file'[p] = file[p] /\ dir'[p] = dir[p]
        /\ IsDir(x) => file'[x] = file[x] /\ dir'[x] = FALSE
        /\ ~IsDir(x) => file'[x] = NoData /\ dir'[x] = dir[x]
    BY <1>1, <1>4 DEF TypeOK
  <2>2. /\ \A p \in Paths : IsDir(p)' <=> IsDir(p)
        /\ \A p \in Paths : IsFile(p)' <=> IsFile(p)
        /\ \A p \in Paths : Exists(p)' <=> Exists(p)
        /\ meta[x] # NoMeta
    BY <1>1, <1>2, AbsenceAssumption DEF IsDir, IsFile, Exists
  <2>3. \A p \in Paths : Vacant(p)' <=> Vacant(p)
    BY <1>1, <2>1, <2>2 DEF Vacant
  <2>4. Filed'
    BY <1>1, <2>1, <2>2 DEF Filed
  <2>5. Strict'
    BY <1>1, <2>2, <2>3 DEF Strict
  <2>6. x \in emptied \/ EmptyDir(x)'
    <3>1. x \in emptied \/ EmptyDir(x)
      <4>1. CASE IsDir(x)
        BY <1>4, <4>1 DEF Removable
      <4>2. CASE ~IsDir(x)
        BY <1>1, <4>2, NothingThere
      <4>. QED
        BY <4>1, <4>2
    <3>. QED
      BY <2>3, <3>1 DEF EmptyDir
  <2>7. x \in emptied \/ (file'[x] = NoData /\ dir'[x] = FALSE)
    <3>1. x \in emptied \/ ((file[x] # NoData => ~IsDir(x)) /\ (dir[x] => IsDir(x)))
      BY <1>1 DEF Filed, IsFile, IsDir
    <3>2. dir[x] \in BOOLEAN
      BY <1>1 DEF TypeOK
    <3>. QED
      BY <2>1, <3>1, <3>2
  <2>8. Bare(x)'
    BY <1>1, <2>6, <2>7 DEF Bare
  <2>9. /\ call'.pc = "dropMeta" /\ call'.kind = call.kind /\ call'.src = call.src
        /\ call'.dst = call.dst /\ call'.new = call.new /\ (call'.made <=> call.made)
    BY <1>1, <1>4, AfterGoto DEF Steps, TypeOK
  <2>10. ~InPlace' /\ (Renaming' <=> Renaming)
    BY <1>1, <2>9 DEF InPlace, Renaming
  <2>11. Renaming =>
           /\ IsParent(Parent(x))' /\ meta'[call.src] = call.new /\ IsFile(x)'
           /\ \A p \in Paths : Below(p, call.src) /\ ~Vacant(p)' => Reroot(p, call.src, x) \in Paths
    <3>1. Renaming =>
           /\ IsParent(Parent(x)) /\ meta[call.src] = call.new /\ IsFile(x)
           /\ \A p \in Paths : Below(p, call.src) /\ ~Vacant(p) => Reroot(p, call.src, x) \in Paths
      BY <1>1, <1>2 DEF DiskInv, DiskShape
    <3>2. IsParent(Parent(x)) => IsParent(Parent(x))'
      BY <1>1 DEF IsParent, IsDir, Exists
    <3>. QED
      BY <1>1, <2>2, <2>3, <3>1, <3>2
  <2>12. DiskShape'
    BY <1>1, <1>2, <2>2, <2>8, <2>9, <2>10, <2>11 DEF DiskShape, Bared
  <2>. QED
    BY <2>4, <2>5, <2>12, Cleaned
<1>. QED
  BY <1>2, <1>3, <1>4 DEF DropData

LEMMA DiskDropMeta ==
    ASSUME DiskInv, DropMeta
    PROVE  DataHasMetadata' /\ Rooted' /\ DiskShape'
<1>1. /\ call.pc = "dropMeta" /\ file' = file /\ dir' = dir /\ emptied' = emptied
      /\ call.kind \in {"remove", "rename"} /\ call.dst \in Paths /\ ~InPlace
      /\ TypeOK /\ CallShape /\ Filed /\ Strict /\ ~call.made
  BY StepKind, Clean DEF DropMeta, DiskInv, CallShape, DiskShape
<1>2. PICK x \in Paths : x = call.dst
  BY <1>1
<1>3. CASE meta' = meta /\ Return(TRUE)
  BY <1>1, <1>3, ReturnSame
<1>4. CASE meta' = [meta EXCEPT ![x] = NoMeta]
  <2>1. meta'[x] = NoMeta /\ \A p \in Paths \ {x} : meta'[p] = meta[p]
    BY <1>1, <1>4 DEF TypeOK
  <2>2. Bare(x)
    BY <1>1, <1>2 DEF DiskInv, DiskShape, Bared
  <2>3. Filed' /\ Strict' /\ Bare(x)'
    BY <1>1, <2>1, <2>2, MetaChanged
  <2>4. CASE Return(TRUE) \/ Return(FALSE)
    BY <1>1, <2>3, <2>4, DiskReturn
  <2>5. CASE Goto("truncate") /\ call.kind = "rename"
    <3>1. /\ call'.pc = "truncate" /\ call'.kind = call.kind /\ call'.src = call.src
          /\ call'.dst = call.dst /\ call'.new = call.new /\ (call'.made <=> call.made)
      BY <1>1, <2>5, AfterGoto DEF Steps, TypeOK
    <3>2. ~InPlace' /\ Renaming' /\ Renaming
      BY <1>1, <2>5, <3>1 DEF InPlace, Renaming
    <3>3. IsParent(Parent(x))
      BY <1>1, <1>2, <3>2 DEF DiskInv, DiskShape
    <3>4. /\ IsParent(Parent(x))' /\ meta'[call.src] = call.new
          /\ \A p \in Paths : Below(p, call.src) /\ ~Vacant(p)' => Reroot(p, call.src, x) \in Paths
      BY <1>1, <1>2, <2>1, <2>2, <3>2, <3>3, MetaOnly
    <3>5. ~Exists(x)'
      BY <2>1, AbsenceAssumption DEF Exists
    <3>6. DiskShape'
      BY <1>1, <1>2, <2>3, <3>1, <3>2, <3>4, <3>5 DEF DiskShape, Bared
    <3>. QED
      BY <2>3, <3>6, Cleaned
  <2>. QED
    BY <1>1, <2>4, <2>5 DEF DropMeta
<1>. QED
  BY <1>2, <1>3, <1>4 DEF DropMeta

LEMMA DiskFinish ==
    ASSUME DiskInv, Finish
    PROVE  DataHasMetadata' /\ Rooted' /\ DiskShape'
<1>1. /\ call.pc = "finish" /\ file' = file /\ dir' = dir /\ emptied' = emptied
      /\ call.src \in Paths /\ ~InPlace /\ TypeOK /\ Filed /\ Strict /\ Bare(call.src)
  BY StepKind, Clean DEF Finish, DiskInv, CallShape, DiskShape
<1>2. PICK x \in Paths : x = call.src
  BY <1>1
<1>3. CASE meta' = [meta EXCEPT ![call.src] = NoMeta] /\ Return(FALSE)
  <2>1. meta'[x] = NoMeta /\ \A p \in Paths \ {x} : meta'[p] = meta[p]
    BY <1>1, <1>2, <1>3 DEF TypeOK
  <2>2. Filed' /\ Strict'
    BY <1>1, <1>2, <2>1, MetaChanged
  <2>. QED
    BY <1>1, <1>3, <2>2, DiskReturn
<1>4. CASE meta' = meta /\ Return(TRUE)
  BY <1>1, <1>4, ReturnSame
<1>. QED
  BY <1>3, <1>4 DEF Finish

LEMMA DiskUndo ==
    ASSUME DiskInv, Undo
    PROVE  DataHasMetadata' /\ Rooted' /\ DiskShape'
<1>1. /\ call.pc = "undo" /\ file' = file /\ dir' = dir /\ emptied' = emptied
      /\ call.dst \in Paths /\ ~InPlace /\ TypeOK /\ Filed /\ Strict /\ Bare(call.dst)
  BY StepKind, Clean DEF Undo, DiskInv, CallShape, DiskShape, Bared
<1>2. PICK x \in Paths : x = call.dst
  BY <1>1
<1>3. CASE meta' = [meta EXCEPT ![call.dst] = NoMeta] /\ Return(FALSE)
  <2>1. meta'[x] = NoMeta /\ \A p \in Paths \ {x} : meta'[p] = meta[p]
    BY <1>1, <1>2, <1>3 DEF TypeOK
  <2>2. Filed' /\ Strict'
    BY <1>1, <1>2, <2>1, MetaChanged
  <2>. QED
    BY <1>1, <1>3, <2>2, DiskReturn
<1>4. CASE meta' = meta /\ Return(TRUE)
  BY <1>1, <1>4, ReturnSame
<1>. QED
  BY <1>3, <1>4 DEF Undo

LEMMA DiskCrash ==
    ASSUME DiskInv, Crash
    PROVE  DataHasMetadata' /\ Rooted' /\ DiskShape'
<1>1. /\ meta' = meta /\ file' = file /\ dir' = dir /\ Return(TRUE) /\ TypeOK /\ CallShape
      /\ emptied' = IF InPlace /\ call.pc = "write" THEN emptied \union {call.dst} ELSE emptied
  BY DEF Crash, disk, DiskInv
<1>2. Filed' /\ Strict'
  <2>1. CASE InPlace /\ call.pc = "write"
    <3>1. \A p \in Paths : /\ IsDir(p)' <=> IsDir(p)
                           /\ IsFile(p)' <=> IsFile(p)
                           /\ Vacant(p)' <=> Vacant(p)
      BY <1>1, SameDisk
    <3>2. Filed'
      BY <1>1, <2>1, <3>1 DEF DiskInv, DataHasMetadata, Filed
    <3>3. Strict'
      BY <1>1, <2>1, <3>1 DEF DiskInv, Rooted, Strict
    <3>. QED
      BY <3>2, <3>3
  <2>2. CASE ~(InPlace /\ call.pc = "write")
    <3>1. ~InPlace \/ call.pc = "truncate"
      BY <1>1, <2>2 DEF CallShape
    <3>2. Filed /\ Strict
      BY <3>1, Clean
    <3>. QED
      BY <1>1, <2>2, <3>2, SameDisk
  <2>. QED
    BY <2>1, <2>2
<1>. QED
  BY <1>1, <1>2, DiskReturn

-----------------------------------------------------------------------------
\* What MoveData leaves of a directory at each path.
Swapped(s, t) ==
    /\ \A p \in Paths :
          p \in {s, t} \/ (~AtOrBelow(p, s) /\ ~AtOrBelow(p, t)) =>
             /\ meta'[p] = meta[p] /\ file'[p] = file[p]
             /\ p \in emptied => p \in emptied'
    /\ dir'[s] = FALSE /\ dir'[t] = TRUE
    /\ \A p \in Paths : ~AtOrBelow(p, s) /\ ~AtOrBelow(p, t) => dir'[p] = dir[p]
    /\ \A p \in Paths : Below(p, t) /\ MovedTo(p, s, t) \in Paths =>
          /\ meta'[p] = meta[MovedTo(p, s, t)]
          /\ file'[p] = file[MovedTo(p, s, t)]
          /\ dir'[p] = dir[MovedTo(p, s, t)]
          /\ MovedTo(p, s, t) \in emptied => p \in emptied'
    /\ \A p \in Paths : Below(p, s) \/ (Below(p, t) /\ MovedTo(p, s, t) \notin Paths) =>
          meta'[p] = NoMeta /\ file'[p] = NoData /\ dir'[p] = FALSE

LEMMA SwapPoints ==
    ASSUME TypeOK, NEW s \in Paths, NEW t \in Paths, s = call.src, t = call.dst, Apart(s, t), MovesDir
    PROVE  Swapped(s, t)
<1>1. /\ meta' = SwapOf(meta, NoMeta, s, t)
      /\ file' = SwapOf(file, NoData, s, t)
      /\ dir' = [SwapOf(dir, FALSE, s, t) EXCEPT ![t] = TRUE, ![s] = FALSE]
      /\ emptied' = {IF p \in {s, t} \/ MovedTo(p, s, t) \notin Paths
                     THEN p ELSE MovedTo(p, s, t) : p \in emptied}
  BY DEF MovesDir
<1>2. s \in Seq(Names) /\ t \in Seq(Names) /\ s # t /\ AtOrBelow(s, s) /\ AtOrBelow(t, t)
      /\ ~AtOrBelow(s, t) /\ ~AtOrBelow(t, s)
  BY PathFacts DEF Apart
<1>3. \A p \in Paths : ~(AtOrBelow(p, s) /\ AtOrBelow(p, t))
  BY <1>2, PathFacts, Moved
<1>4. \A p \in Paths : Below(p, t) => MovedTo(p, s, t) = Reroot(p, t, s)
  BY <1>3 DEF Below, MovedTo
<1>5. \A p \in Paths : ~AtOrBelow(p, s) /\ ~AtOrBelow(p, t) => MovedTo(p, s, t) = p
  BY DEF MovedTo
<1>6. ASSUME NEW p \in Paths
      PROVE  /\ p \in {s, t} \/ (~AtOrBelow(p, s) /\ ~AtOrBelow(p, t)) =>
                   SwapOf(meta, NoMeta, s, t)[p] = meta[p]
             /\ Below(p, t) /\ MovedTo(p, s, t) \in Paths =>
                   SwapOf(meta, NoMeta, s, t)[p] = meta[MovedTo(p, s, t)]
             /\ Below(p, s) \/ (Below(p, t) /\ MovedTo(p, s, t) \notin Paths) =>
                   SwapOf(meta, NoMeta, s, t)[p] = NoMeta
  BY <1>2, <1>3, <1>4 DEF SwapOf, Below
<1>6a. ASSUME NEW p \in Paths
      PROVE  /\ p \in {s, t} \/ (~AtOrBelow(p, s) /\ ~AtOrBelow(p, t)) =>
                   SwapOf(file, NoData, s, t)[p] = file[p]
             /\ Below(p, t) /\ MovedTo(p, s, t) \in Paths =>
                   SwapOf(file, NoData, s, t)[p] = file[MovedTo(p, s, t)]
             /\ Below(p, s) \/ (Below(p, t) /\ MovedTo(p, s, t) \notin Paths) =>
                   SwapOf(file, NoData, s, t)[p] = NoData
  BY <1>2, <1>3, <1>4 DEF SwapOf, Below
<1>6b. ASSUME NEW p \in Paths
      PROVE  /\ p \in {s, t} \/ (~AtOrBelow(p, s) /\ ~AtOrBelow(p, t)) =>
                   SwapOf(dir, FALSE, s, t)[p] = dir[p]
             /\ Below(p, t) /\ MovedTo(p, s, t) \in Paths =>
                   SwapOf(dir, FALSE, s, t)[p] = dir[MovedTo(p, s, t)]
             /\ Below(p, s) \/ (Below(p, t) /\ MovedTo(p, s, t) \notin Paths) =>
                   SwapOf(dir, FALSE, s, t)[p] = FALSE
  BY <1>2, <1>3, <1>4 DEF SwapOf, Below
<1>7. /\ dir'[s] = FALSE /\ dir'[t] = TRUE
      /\ \A p \in Paths : p # s /\ p # t => dir'[p] = SwapOf(dir, FALSE, s, t)[p]
  <2>1. SwapOf(dir, FALSE, s, t) = [p \in Paths |-> SwapOf(dir, FALSE, s, t)[p]]
    BY DEF SwapOf
  <2>. QED
    BY <1>1, <1>2, <2>1
<1>8. \A p \in emptied : /\ p \in {s, t} \/ MovedTo(p, s, t) \notin Paths => p \in emptied'
                         /\ p \notin {s, t} /\ MovedTo(p, s, t) \in Paths => MovedTo(p, s, t) \in emptied'
  BY <1>1
<1>9. ASSUME NEW p \in Paths, p \in {s, t} \/ (~AtOrBelow(p, s) /\ ~AtOrBelow(p, t))
      PROVE  p \in emptied => p \in emptied'
  BY <1>5, <1>8, <1>9
<1>10. ASSUME NEW p \in Paths, Below(p, t), MovedTo(p, s, t) \in Paths, MovedTo(p, s, t) \in emptied
       PROVE  p \in emptied'
  <2>1. p \in Seq(Names) /\ AtOrBelow(p, t) /\ p # t
    BY <1>10, PathFacts DEF Below
  <2>2. MovedTo(MovedTo(p, s, t), s, t) = p /\ AtOrBelow(MovedTo(p, s, t), s)
    BY <1>2, <2>1, Moved
  <2>3. MovedTo(s, s, t) = t
    BY <1>2, MovedTops
  <2>4. MovedTo(p, s, t) \notin {s, t}
    BY <1>2, <2>1, <2>2, <2>3
  <2>. QED
    BY <1>8, <1>10, <2>2, <2>4
<1>12. \A p \in Paths : Below(p, t) \/ Below(p, s) \/ (~AtOrBelow(p, s) /\ ~AtOrBelow(p, t)) => p # s /\ p # t
  BY <1>2 DEF Below
<1>. QED
  <2>1. /\ \A p \in Paths : p \in {s, t} \/ (~AtOrBelow(p, s) /\ ~AtOrBelow(p, t)) =>
               /\ meta'[p] = meta[p] /\ file'[p] = file[p]
               /\ p \in emptied => p \in emptied'
        /\ \A p \in Paths : ~AtOrBelow(p, s) /\ ~AtOrBelow(p, t) => dir'[p] = dir[p]
    <3>1. ASSUME NEW p \in Paths, p \in {s, t} \/ (~AtOrBelow(p, s) /\ ~AtOrBelow(p, t))
          PROVE  meta'[p] = meta[p] /\ file'[p] = file[p] /\ (p \in emptied => p \in emptied')
      BY <1>1, <1>6, <1>6a, <1>9, <3>1
    <3>2. ASSUME NEW p \in Paths, ~AtOrBelow(p, s), ~AtOrBelow(p, t)
          PROVE  dir'[p] = dir[p]
      BY <1>6b, <1>7, <1>12, <3>2
    <3>. QED
      BY <3>1, <3>2
  <2>2. ASSUME NEW p \in Paths, Below(p, t), MovedTo(p, s, t) \in Paths
        PROVE  /\ meta'[p] = meta[MovedTo(p, s, t)]
               /\ file'[p] = file[MovedTo(p, s, t)]
               /\ dir'[p] = dir[MovedTo(p, s, t)]
               /\ MovedTo(p, s, t) \in emptied => p \in emptied'
    <3>1. meta'[p] = meta[MovedTo(p, s, t)] /\ file'[p] = file[MovedTo(p, s, t)]
      BY <1>1, <1>6, <1>6a, <2>2
    <3>2. dir'[p] = SwapOf(dir, FALSE, s, t)[p]
      BY <1>7, <1>12, <2>2
    <3>3. dir'[p] = dir[MovedTo(p, s, t)]
      BY <1>6b, <2>2, <3>2
    <3>. QED
      BY <1>10, <2>2, <3>1, <3>3
  <2>3. ASSUME NEW p \in Paths, Below(p, s) \/ (Below(p, t) /\ MovedTo(p, s, t) \notin Paths)
        PROVE  meta'[p] = NoMeta /\ file'[p] = NoData /\ dir'[p] = FALSE
    <3>1. meta'[p] = NoMeta /\ file'[p] = NoData
      BY <1>1, <1>6, <1>6a, <2>3
    <3>2. dir'[p] = SwapOf(dir, FALSE, s, t)[p]
      BY <1>7, <1>12, <2>3
    <3>3. dir'[p] = FALSE
      BY <1>6b, <2>3, <3>2
    <3>. QED
      BY <3>1, <3>3
  <2>. QED
    BY <1>7, <2>1, <2>2, <2>3 DEF Swapped

LEMMA DiskMovesDir ==
    ASSUME DiskInv, call.pc = "move", MovesDir,
           NEW s \in Paths, NEW t \in Paths, s = call.src, t = call.dst
    PROVE  /\ Filed' /\ Strict' /\ Bare(s)' /\ IsParent(Parent(t))'
           /\ meta'[s] = call.new /\ meta'[t] = call.new
<1>1. /\ TypeOK /\ CallShape /\ call.kind = "rename" /\ Renaming /\ ~InPlace /\ Filed /\ Strict
      /\ Apart(s, t) /\ Bare(t) /\ IsParent(Parent(t)) /\ meta[s] = call.new /\ meta[t] = call.new
  BY StepKind, Clean DEF DiskInv, CallShape, Renaming, DiskShape, Bared
<1>2. IsDir(s) /\ IsDir(t)
  BY <1>1 DEF CallShape, Renaming, MovesDir, IsDir, Exists, Metas
<1>3. s \in Seq(Names) /\ t \in Seq(Names) /\ s # t /\ AtOrBelow(s, s) /\ AtOrBelow(t, t)
      /\ ~AtOrBelow(s, t) /\ ~AtOrBelow(t, s)
  BY <1>1, PathFacts DEF Apart
<1>4. /\ \A p \in Paths :
             p \in {s, t} \/ (~AtOrBelow(p, s) /\ ~AtOrBelow(p, t)) =>
                /\ meta'[p] = meta[p] /\ file'[p] = file[p]
                /\ p \in emptied => p \in emptied'
      /\ dir'[s] = FALSE /\ dir'[t] = TRUE
      /\ \A p \in Paths : ~AtOrBelow(p, s) /\ ~AtOrBelow(p, t) => dir'[p] = dir[p]
      /\ \A p \in Paths : Below(p, t) /\ MovedTo(p, s, t) \in Paths =>
             /\ meta'[p] = meta[MovedTo(p, s, t)]
             /\ file'[p] = file[MovedTo(p, s, t)]
             /\ dir'[p] = dir[MovedTo(p, s, t)]
             /\ MovedTo(p, s, t) \in emptied => p \in emptied'
      /\ \A p \in Paths : Below(p, s) \/ (Below(p, t) /\ MovedTo(p, s, t) \notin Paths) =>
             meta'[p] = NoMeta /\ file'[p] = NoData /\ dir'[p] = FALSE
  <2>1. Swapped(s, t)
    BY <1>1, SwapPoints
  <2>. QED
    BY <2>1 DEF Swapped
<1>5. \A p \in Paths :
         \/ p \in {s, t} \/ (~AtOrBelow(p, s) /\ ~AtOrBelow(p, t))
         \/ Below(p, s)
         \/ Below(p, t) /\ MovedTo(p, s, t) \in Paths
         \/ Below(p, t) /\ MovedTo(p, s, t) \notin Paths
  BY DEF Below
<1>6. ASSUME NEW p \in Paths
      PROVE  /\ meta'[p] = meta[p] => (IsDir(p)' <=> IsDir(p)) /\ (IsFile(p)' <=> IsFile(p))
             /\ meta'[p] = meta[MovedTo(p, s, t)] =>
                   /\ IsDir(p)' <=> IsDir(MovedTo(p, s, t))
                   /\ IsFile(p)' <=> IsFile(MovedTo(p, s, t))
  BY DEF IsDir, IsFile, Exists
<1>7. Filed'
  <2>1. ASSUME NEW p \in Paths, p \notin emptied'
        PROVE  (file'[p] # NoData => IsFile(p)') /\ (dir'[p] => IsDir(p)')
    <3>1. CASE p = t
      <4>1. file[t] = NoData
        BY <1>1, <1>4, <2>1, <3>1 DEF Bare
      <4>. QED
        BY <1>2, <1>4, <1>6, <3>1, <4>1
    <3>2. CASE p = s
      <4>1. file[s] # NoData => IsFile(s)
        BY <1>1, <1>4, <2>1, <3>2 DEF Filed
      <4>2. ~IsFile(s)
        BY <1>2 DEF IsFile, IsDir
      <4>. QED
        BY <1>4, <3>2, <4>1, <4>2
    <3>3. CASE ~AtOrBelow(p, s) /\ ~AtOrBelow(p, t)
      BY <1>1, <1>4, <1>6, <2>1, <3>3 DEF Filed
    <3>4. CASE Below(p, s) \/ (Below(p, t) /\ MovedTo(p, s, t) \notin Paths)
      BY <1>4, <3>4
    <3>5. CASE Below(p, t) /\ MovedTo(p, s, t) \in Paths
      BY <1>1, <1>4, <1>6, <2>1, <3>5 DEF Filed
    <3>. QED
      BY <1>5, <3>1, <3>2, <3>3, <3>4, <3>5
  <2>. QED
    BY <2>1 DEF Filed
<1>8. ASSUME NEW q \in Paths, ~AtOrBelow(q, s), ~AtOrBelow(q, t), IsDir(q) \/ q \in emptied
      PROVE  IsDir(q)' \/ q \in emptied'
  BY <1>4, <1>6, <1>8
<1>9. ASSUME NEW q \in Paths, Below(t, q)
      PROVE  IsDir(q)' \/ q \in emptied'
  <2>1. ~AtOrBelow(q, t) /\ ~AtOrBelow(q, s)
    BY <1>3, <1>9, PathFacts, Chains DEF Below
  <2>2. ~Vacant(t)
    BY <1>2, AbsenceAssumption DEF Vacant, IsDir, Exists
  <2>. QED
    BY <1>1, <1>8, <1>9, <2>1, <2>2 DEF Strict
<1>10. ASSUME NEW p \in Paths, NEW q \in Paths, Below(p, q), ~Vacant(p)'
       PROVE  IsDir(q)' \/ q \in emptied'
  <2>0. p \in Seq(Names) /\ q \in Seq(Names) /\ AtOrBelow(p, q) /\ p # q
    BY <1>10, PathFacts DEF Below
  <2>1. CASE p = t
    BY <1>9, <1>10, <2>1
  <2>2. CASE p = s
    <3>1. ~AtOrBelow(q, t) /\ ~AtOrBelow(q, s)
      BY <1>3, <2>0, <2>2, Chains
    <3>2. ~Vacant(s)
      BY <1>2, AbsenceAssumption DEF Vacant, IsDir, Exists
    <3>. QED
      BY <1>1, <1>8, <1>10, <2>2, <3>1, <3>2 DEF Strict
  <2>3. CASE ~AtOrBelow(p, s) /\ ~AtOrBelow(p, t)
    <3>1. ~AtOrBelow(q, t) /\ ~AtOrBelow(q, s)
      BY <1>3, <2>0, <2>3, Chains
    <3>2. ~Vacant(p)
      BY <1>4, <1>10, <2>3 DEF Vacant
    <3>. QED
      BY <1>1, <1>8, <1>10, <3>1, <3>2 DEF Strict
  <2>4. CASE Below(p, s) \/ (Below(p, t) /\ MovedTo(p, s, t) \notin Paths)
    BY <1>4, <1>10, <2>4 DEF Vacant
  <2>5. CASE Below(p, t) /\ MovedTo(p, s, t) \in Paths
    <3>1. ~Vacant(MovedTo(p, s, t))
      BY <1>4, <1>10, <2>5 DEF Vacant
    <3>2. CASE AtOrBelow(t, q)
      <4>1. CASE t = q
        BY <1>2, <1>4, <1>6, <4>1
      <4>2. CASE t # q
        BY <1>9, <3>2, <4>2 DEF Below
      <4>. QED
        BY <4>1, <4>2
    <3>3. CASE ~AtOrBelow(t, q)
      <4>. DEFINE r == MovedTo(q, s, t)
      <4>1. AtOrBelow(q, t) /\ q # t
        BY <1>3, <2>0, <2>5, <3>3, Chains DEF Below
      <4>2. /\ r \in Seq(Names) /\ MovedTo(r, s, t) = q /\ AtOrBelow(r, s)
            /\ AtOrBelow(MovedTo(p, s, t), r)
        BY <1>1, <1>3, <2>0, <4>1, Moved, MovedOrder
      <4>3. MovedTo(p, s, t) # r
        BY <1>1, <1>3, <2>0, <4>2, Moved
      <4>. HIDE DEF r
      <4>4. r # Root
        <5>1. Len(s) \in Nat /\ Len(s) > 0 /\ Len(r) \in Nat
          BY <1>3, <4>2, DirectoriesAssumption, LenProperties
        <5>2. Len(s) <= Len(r)
          BY <1>3, <4>2, BelowPoints
        <5>. QED
          BY <5>1, <5>2, EmptySeq DEF Root
      <4>5. r \in Paths
        BY <2>5, <4>2, <4>4, AbovePath
      <4>6. IsDir(r) \/ r \in emptied
        BY <1>1, <2>5, <3>1, <4>2, <4>3, <4>5 DEF Strict, Below
      <4>7. Below(q, t) /\ MovedTo(q, s, t) \in Paths
        BY <4>1, <4>5 DEF Below, r
      <4>. QED
        BY <1>4, <1>6, <4>6, <4>7 DEF r
    <3>. QED
      BY <3>2, <3>3
  <2>. QED
    BY <1>5, <2>1, <2>2, <2>3, <2>4, <2>5
<1>11. Strict'
  BY <1>10 DEF Strict
<1>12. Bare(s)'
  <2>1. s \in emptied' \/ file'[s] = NoData
    <3>1. s \in emptied \/ file[s] = NoData
      BY <1>1, <1>2 DEF Filed, IsFile, IsDir
    <3>. QED
      BY <1>4, <3>1
  <2>2. EmptyDir(s)'
    BY <1>4 DEF EmptyDir, Vacant
  <2>. QED
    BY <1>4, <2>1, <2>2 DEF Bare
<1>13. IsParent(Parent(t))'
  <2>1. CASE Parent(t) # Root
    <3>1. Parent(t) \in Paths /\ Parent(t) \in Seq(Names) /\ AtOrBelow(t, Parent(t)) /\ t # Parent(t)
      BY <2>1, PathFacts DEF Below
    <3>2. ~AtOrBelow(Parent(t), t) /\ ~AtOrBelow(Parent(t), s)
      BY <1>3, <3>1, Chains
    <3>. QED
      BY <1>1, <1>4, <1>6, <2>1, <3>1, <3>2 DEF IsParent
  <2>. QED
    BY <2>1 DEF IsParent
<1>. QED
  BY <1>1, <1>4, <1>7, <1>11, <1>12, <1>13

LEMMA DiskMovesFile ==
    ASSUME DiskInv, call.pc = "move", MovesFile,
           NEW s \in Paths, NEW t \in Paths, s = call.src, t = call.dst
    PROVE  /\ Filed' /\ Strict' /\ Bare(s)' /\ IsParent(Parent(t))'
           /\ meta'[s] = call.new /\ meta'[t] = call.new
<1>1. /\ TypeOK /\ CallShape /\ call.kind = "rename" /\ Renaming /\ ~InPlace /\ Filed /\ Strict
      /\ Apart(s, t) /\ Bare(t) /\ IsParent(Parent(t)) /\ meta[s] = call.new /\ meta[t] = call.new
  BY StepKind, Clean DEF DiskInv, CallShape, Renaming, DiskShape, Bared
<1>2. IsFile(s) /\ IsFile(t) /\ ~IsDir(s)
  BY <1>1 DEF CallShape, Renaming, MovesFile, IsFile, IsDir, Exists
<1>3. /\ meta' = meta /\ dir' = dir /\ emptied' = emptied
      /\ \A p \in Paths : p # s /\ p # t => file'[p] = file[p]
      /\ s # t /\ file'[s] = NoData
  BY <1>1, PathFacts DEF MovesFile, TypeOK, Apart
<1>4. /\ \A p : (IsDir(p)' <=> IsDir(p)) /\ (IsFile(p)' <=> IsFile(p))
      /\ meta[s] # NoMeta /\ meta[t] # NoMeta
  BY <1>2, <1>3, AbsenceAssumption DEF IsDir, IsFile, Exists
<1>5. \A p \in Paths : Vacant(p)' <=> Vacant(p)
  BY <1>3, <1>4 DEF Vacant
<1>6. Filed'
  BY <1>1, <1>2, <1>3, <1>4 DEF Filed
<1>7. Strict'
  BY <1>1, <1>3, <1>4, <1>5 DEF Strict
<1>8. Bare(s)'
  <2>1. s \in emptied \/ (~dir[s] /\ EmptyDir(s))
    BY <1>1, <1>2, NothingThere
  <2>2. EmptyDir(s) => EmptyDir(s)'
    BY <1>5 DEF EmptyDir
  <2>. QED
    BY <1>3, <2>1, <2>2 DEF Bare
<1>9. IsParent(Parent(t))'
  BY <1>1, <1>4 DEF IsParent
<1>. QED
  BY <1>1, <1>3, <1>6, <1>7, <1>8, <1>9

LEMMA DiskMoveData ==
    ASSUME DiskInv, MoveData
    PROVE  DataHasMetadata' /\ Rooted' /\ DiskShape'
<1>1. /\ call.pc = "move" /\ call.kind = "rename" /\ Renaming /\ ~InPlace
      /\ TypeOK /\ call.src \in Paths /\ call.dst \in Paths /\ ~call.made /\ Bared
  BY MoveCases, StepKind DEF DiskInv, CallShape, Renaming, Bared
<1>2. PICK s \in Paths, t \in Paths : s = call.src /\ t = call.dst
  BY <1>1
<1>3. CASE (MovesFile \/ MovesDir) /\ Goto("finish")
  <2>1. /\ Filed' /\ Strict' /\ Bare(s)' /\ IsParent(Parent(t))'
        /\ meta'[s] = call.new /\ meta'[t] = call.new
    BY <1>1, <1>2, <1>3, DiskMovesFile, DiskMovesDir
  <2>2. /\ call'.pc = "finish" /\ call'.kind = call.kind /\ call'.src = call.src
        /\ call'.dst = call.dst /\ call'.new = call.new /\ (call'.made <=> call.made)
    BY <1>1, <1>3, AfterGoto DEF Steps, TypeOK
  <2>3. ~InPlace' /\ Renaming'
    BY <1>1, <2>2 DEF InPlace, Renaming
  <2>4. DiskShape'
    BY <1>1, <1>2, <2>1, <2>2, <2>3 DEF DiskShape, Bared
  <2>. QED
    BY <2>1, <2>4, Cleaned
<1>4. CASE /\ UNCHANGED <<meta, file, dir, handle, emptied>>
           /\ UndoAfter(Movable(call.src, call.dst))
  <2>. DEFINE b == Movable(call.src, call.dst)
  <2>1. b \in BOOLEAN
    <3>1. dir[call.src] \in BOOLEAN
      BY <1>1 DEF TypeOK
    <3>. QED
      BY <3>1 DEF Movable
  <2>2. UndoAfter(b)
    BY <1>4
  <2>. HIDE DEF b
  <2>. QED
    BY <1>1, <1>4, <2>1, <2>2, UndoSame
<1>. QED
  BY <1>3, <1>4, MoveCases

LEMMA DiskFrame ==
    ASSUME DiskInv, call' = call, meta' = meta, file' = file, dir' = dir, emptied' = emptied
    PROVE  DataHasMetadata' /\ Rooted' /\ DiskShape'
<1>1. /\ InPlace' <=> InPlace
      /\ Renaming' <=> Renaming
      /\ Bared' <=> Bared
      /\ \A p : /\ Exists(p)' <=> Exists(p)
                /\ IsDir(p)' <=> IsDir(p)
                /\ IsFile(p)' <=> IsFile(p)
                /\ Vacant(p)' <=> Vacant(p)
      /\ \A m, p : Fits(m, p)' <=> Fits(m, p)
  BY DEF InPlace, Renaming, Bared, Exists, IsDir, IsFile, Vacant, Fits
<1>2. \A p \in Paths : Bare(p)' <=> Bare(p)
  BY <1>1 DEF Bare, EmptyDir
<1>3. DataHasMetadata'
  BY <1>1 DEF DiskInv, DataHasMetadata
<1>4. Rooted'
  BY <1>1 DEF DiskInv, Rooted
<1>5. DiskShape'
  BY DEF DiskInv, DiskShape, InPlace, Renaming, Bared, Exists, IsDir, IsFile, Vacant, Fits,
         Bare, EmptyDir, IsParent
<1>. QED
  BY <1>3, <1>4, <1>5

LEMMA DiskListDir ==
    ASSUME DiskInv, NEW p \in Paths, ListDir(p)
    PROVE  DataHasMetadata' /\ Rooted' /\ DiskShape'
<1>1. /\ call.pc = "idle" /\ IsDir(p) /\ EnsureDir(p) /\ meta' = meta /\ file' = file
      /\ emptied' = emptied /\ call' = call /\ TypeOK
  BY DEF ListDir, DiskInv
<1>2. Filed' /\ Strict'
  BY <1>1, CleanIdle, Ensured DEF IsParent
<1>3. call.kind = "none" /\ ~call.made
  BY <1>1, StepKind DEF DiskInv, CallShape
<1>4. DiskShape'
  BY <1>1, <1>3, DiskOver DEF DiskShape, Bared, InPlace, Renaming
<1>. QED
  BY <1>2, <1>4, Cleaned

LEMMA NextDisk ==
    ASSUME DiskInv, [Next]_vars
    PROVE  DiskInv'
<1>1. TypeOK' /\ CallShape'
  BY NextTypes DEF DiskInv
<1>2. ASSUME NEW p \in Paths, CallOn(p)
      PROVE  DataHasMetadata' /\ Rooted' /\ DiskShape'
  BY <1>2, DiskMkdirCall, DiskOpenCall, DiskRemoveCall, DiskRenameCall, DiskRenameInPlace DEF CallOn
<1>3. ASSUME SystemCall
      PROVE  DataHasMetadata' /\ Rooted' /\ DiskShape'
  BY <1>3, DiskTruncateMeta, DiskWriteMeta, DiskMakeData, DiskOpenDirectory, DiskOpenDataFails,
     DiskDropData, DiskDropMeta, DiskMoveData, DiskFinish, DiskUndo, DiskOpenData DEF SystemCall
<1>4. ASSUME NEW u \in Users, Close(u) \/ Unlock(u) \/ \E p \in Paths : TryLock(u, p)
      PROVE  DataHasMetadata' /\ Rooted' /\ DiskShape'
  BY <1>4, DiskFrame DEF Close, Unlock, TryLock, disk
<1>5. ASSUME UNCHANGED vars
      PROVE  DataHasMetadata' /\ Rooted' /\ DiskShape'
  BY <1>5, DiskFrame DEF vars
<1>6. DataHasMetadata' /\ Rooted' /\ DiskShape'
  BY <1>2, <1>3, <1>4, <1>5, DiskListDir, DiskCrash DEF Next, Quiet
<1>. QED
  BY <1>1, <1>6 DEF DiskInv

LEMMA InitDisk ==
    ASSUME Init
    PROVE  DiskInv
<1>1. TypeOK /\ CallShape /\ call.pc = "idle" /\ call.kind = "none" /\ call.made = FALSE
  BY InitTypes, IdleIs DEF Init
<1>2. DiskShape
  BY <1>1 DEF DiskShape, Bared, InPlace, Renaming
<1>3. DataHasMetadata
  BY DEF Init, DataHasMetadata
<1>4. Rooted
  <2>1. ASSUME NEW p \in Paths, ~Vacant(p)
        PROVE  Exists(p)
    <3>1. meta[p] = NoMeta \/ meta[p] \in Metas
      <4>1. /\ [type |-> "dir", obj |-> FALSE] \in Metas /\ [type |-> "file", obj |-> FALSE] \in Metas
            /\ [type |-> "file", obj |-> TRUE] \in Metas
        BY DEF Metas
      <4>. QED
        BY <4>1 DEF Init
    <3>2. meta[p] = NoMeta => ~IsFile(p) /\ ~IsDir(p)
      BY AbsenceAssumption DEF IsFile, IsDir, Exists
    <3>. QED
      BY <2>1, <3>1, <3>2 DEF Init, Vacant, Exists
  <2>. QED
    BY <2>1 DEF Init, Rooted
<1>. QED
  BY <1>1, <1>2, <1>3, <1>4 DEF DiskInv

\* No data is without the metadata through which it is found.
THEOREM NoDataIsLost == Spec => []DataHasMetadata
<1>1. Init => DiskInv
  BY InitDisk
<1>2. DiskInv /\ [Next]_vars => DiskInv'
  BY NextDisk
<1>3. DiskInv => DataHasMetadata
  BY DEF DiskInv
<1>. QED
  BY <1>1, <1>2, <1>3, PTL DEF Spec

-----------------------------------------------------------------------------
\* No data is in two files.
DataInv == DiskInv /\ DataUnique

\* Calls begin and end; fewer are left.
LEMMA BegunFalls ==
    ASSUME TypeOK, CallShape, [Next]_vars
    PROVE  Begun' <= Begun
<1>0. left \in Nat /\ MaxCalls \in Nat
  BY DirectoriesAssumption DEF TypeOK
<1>1. CASE call.pc = "idle" /\ left' = left - 1 /\ call'.pc # "idle"
  BY <1>0, <1>1 DEF Begun
<1>2. CASE left' = left /\ (call.pc = "idle" => call'.pc = "idle")
  BY <1>0, <1>2 DEF Begun
<1>3. ASSUME NEW p \in Paths, CallOn(p)
      PROVE  call.pc = "idle" /\ left' = left - 1 /\ call'.pc # "idle"
  <2>1. ASSUME NEW f \in OpenFlags, OpenCall(p, f)
        PROVE  Started /\ call'.pc # "idle"
    <3>. DEFINE made == "create" \in f /\ meta[p] = NoMeta
    <3>1. made \in BOOLEAN /\ made = ("create" \in f /\ meta[p] = NoMeta)
      OBVIOUS
    <3>. HIDE DEF made
    <3>. QED
      BY <2>1, <3>1, AfterOpenCall
  <2>2. ASSUME NEW t \in Paths, RenameCall(p, t)
        PROVE  Started /\ call'.pc # "idle"
    <3>1. Started /\ call'.pc = (IF Exists(t) THEN "dropData" ELSE "truncate")
      BY <2>2, AfterRenameCall
    <3>. QED
      BY <3>1
  <2>3. Started /\ call'.pc # "idle"
    BY <1>3, <2>1, <2>2, AfterMkdirCall, AfterRemoveCall, AfterRenameInPlace DEF CallOn
  <2>. QED
    BY <2>3 DEF Started
<1>4. ASSUME SystemCall
      PROVE  left' = left /\ call.pc # "idle"
  BY <1>4 DEF SystemCall, TruncateMeta, WriteMeta, MakeData, OpenDirectory, OpenDataFails, DropData,
              DropMeta, MoveData, Finish, Undo, OpenData
<1>5. ASSUME NEW p \in Paths, ListDir(p)
      PROVE  left' = left /\ call' = call
  BY <1>5 DEF ListDir
<1>6. ASSUME NEW u \in Users, Close(u) \/ Unlock(u) \/ \E p \in Paths : TryLock(u, p)
      PROVE  left' = left /\ call' = call
  BY <1>6 DEF Close, Unlock, TryLock
<1>7. Crash => left' = left /\ call.pc # "idle"
  BY DEF Crash
<1>8. UNCHANGED vars => left' = left /\ call' = call
  BY DEF vars
<1>. QED
  BY <1>1, <1>2, <1>3, <1>4, <1>5, <1>6, <1>7, <1>8 DEF Next, Quiet

LEMMA UniqueKept ==
    ASSUME TypeOK, DataUnique, \A n \in 1..MaxCalls : n > Begun => n > Begun',
           \A p \in Paths : file'[p] = NoData \/ \E q \in Paths : file'[p] = file[q],
           \A p, q \in Paths : p # q /\ file'[p] # NoData => file'[p] # file'[q],
           \A u \in Users : handle'[u] # NoHandle =>
              handle[u] # NoHandle /\ handle'[u].id = handle[u].id
    PROVE  DataUnique'
<1>1. ASSUME NEW n \in 1..MaxCalls
      PROVE  /\ NoData # <<"new", n>>
             /\ \A p \in Paths : file[p] = <<"new", n>> => n > Begun
             /\ \A u \in Users : handle[u] # NoHandle /\ handle[u].id = <<"new", n>> => n > Begun
  <2>1. <<"new", n>> \in Ids
    BY DEF Ids
  <2>. QED
    BY <2>1, AbsenceAssumption DEF DataUnique
<1>2. ASSUME NEW n \in 1..MaxCalls, NEW p \in Paths, file'[p] = <<"new", n>>
      PROVE  n > Begun'
  <2>1. n > Begun
    BY <1>1, <1>2
  <2>. QED
    BY <1>1, <2>1
<1>3. ASSUME NEW n \in 1..MaxCalls, NEW u \in Users, handle'[u] # NoHandle, handle'[u].id = <<"new", n>>
      PROVE  n > Begun'
  <2>1. n > Begun
    BY <1>1, <1>3
  <2>. QED
    BY <1>1, <2>1
<1>. QED
  BY <1>2, <1>3 DEF DataUnique

LEMMA BegunType ==
    ASSUME TypeOK
    PROVE  Begun \in Int
BY DirectoriesAssumption DEF TypeOK, Begun

\* Nodes move; a File keeps its data.
LEMMA NodesExchanged ==
    ASSUME TypeOK, NEW s \in Seq(Names), NEW t \in Seq(Names), Apart(s, t), Exchange(s, t)
    PROVE  \A u \in Users :
              /\ handle'[u] = NoHandle <=> handle[u] = NoHandle
              /\ handle[u] # NoHandle =>
                    /\ handle'[u].id = handle[u].id
                    /\ handle[u].node = Exile => handle'[u].node = Exile
                    /\ handle[u].node # Exile =>
                          /\ handle[u].node \in Seq(Names)
                          /\ handle'[u].node = MovedTo(handle[u].node, s, t)
<1>1. ASSUME NEW u \in Users, handle[u] # NoHandle, handle[u].node # Exile
      PROVE  /\ handle[u].node \in Seq(Names) /\ handle'[u] # NoHandle
             /\ handle'[u].id = handle[u].id /\ handle'[u].node = MovedTo(handle[u].node, s, t)
  <2>1. /\ handle[u] \in [node : {Exile} \union Seq(Names), id : Ids]
        /\ handle[u].node \in Seq(Names)
    BY <1>1 DEF TypeOK
  <2>. DEFINE y == MovedTo(handle[u].node, s, t)
  <2>2. y \in {Exile} \union Seq(Names)
    BY <2>1, Moved
  <2>3. handle'[u] = [handle[u] EXCEPT !.node = y]
    BY <1>1 DEF Exchange
  <2>. HIDE DEF y
  <2>4. /\ handle'[u] \in [node : {Exile} \union Seq(Names), id : Ids]
        /\ handle'[u].node = y /\ handle'[u].id = handle[u].id
    BY <2>1, <2>2, <2>3
  <2>5. handle'[u] # NoHandle
    BY <2>4, AbsenceAssumption
  <2>. QED
    BY <2>1, <2>4, <2>5 DEF y
<1>2. \A u \in Users : handle[u] = NoHandle \/ handle[u].node = Exile => handle'[u] = handle[u]
  BY DEF Exchange
<1>. QED
  BY <1>1, <1>2

LEMMA NodesExiled ==
    ASSUME TypeOK, NEW x \in Seq(Names), ToExile(x)
    PROVE  \A u \in Users :
              /\ handle'[u] = NoHandle <=> handle[u] = NoHandle
              /\ handle[u] # NoHandle =>
                    /\ handle'[u].id = handle[u].id
                    /\ handle[u].node = Exile => handle'[u].node = Exile
                    /\ handle[u].node # Exile =>
                          handle'[u].node = IF AtOrBelow(handle[u].node, x) THEN Exile
                                            ELSE handle[u].node
<1>1. ASSUME NEW u \in Users, handle[u] # NoHandle, handle[u].node # Exile
      PROVE  /\ handle'[u] # NoHandle /\ handle'[u].id = handle[u].id
             /\ handle'[u].node = IF AtOrBelow(handle[u].node, x) THEN Exile ELSE handle[u].node
  <2>1. /\ handle[u] \in [node : {Exile} \union Seq(Names), id : Ids]
        /\ handle[u].node \in Seq(Names)
    BY <1>1 DEF TypeOK
  <2>2. CASE AtOrBelow(handle[u].node, x)
    <3>1. handle'[u] = [handle[u] EXCEPT !.node = Exile]
      BY <1>1, <2>2 DEF ToExile
    <3>2. handle'[u] # NoHandle /\ handle'[u].id = handle[u].id /\ handle'[u].node = Exile
      <4>1. /\ handle'[u] \in [node : {Exile} \union Seq(Names), id : Ids]
            /\ handle'[u].node = Exile /\ handle'[u].id = handle[u].id
        BY <2>1, <3>1
      <4>. QED
        BY <4>1, AbsenceAssumption
    <3>. QED
      BY <2>2, <3>2
  <2>3. CASE ~AtOrBelow(handle[u].node, x)
    <3>1. handle'[u] = [handle[u] EXCEPT !.node = handle[u].node]
      BY <1>1, <2>3 DEF ToExile
    <3>2. handle'[u] # NoHandle /\ handle'[u].id = handle[u].id /\ handle'[u].node = handle[u].node
      <4>1. /\ handle'[u] \in [node : {Exile} \union Seq(Names), id : Ids]
            /\ handle'[u].node = handle[u].node /\ handle'[u].id = handle[u].id
        BY <2>1, <3>1
      <4>. QED
        BY <4>1, AbsenceAssumption
    <3>. QED
      BY <2>3, <3>2
  <2>. QED
    BY <2>2, <2>3
<1>2. \A u \in Users : handle[u] = NoHandle \/ handle[u].node = Exile => handle'[u] = handle[u]
  BY DEF ToExile
<1>. QED
  BY <1>1, <1>2

\* What MoveData brings to each path comes from one of its own.
LEMMA FilesMoved ==
    ASSUME TypeOK, NEW s \in Paths, NEW t \in Paths, s = call.src, t = call.dst, Apart(s, t),
           MovesFile \/ MovesDir,
           \A p, q \in Paths : p # q /\ file[p] # NoData => file[p] # file[q]
    PROVE  /\ \A p \in Paths : file'[p] = NoData \/ \E q \in Paths : file'[p] = file[q]
           /\ \A p, q \in Paths : p # q /\ file'[p] # NoData => file'[p] # file'[q]
<1>1. CASE MovesFile
  <2>1. /\ s # t /\ file'[t] = file[s] /\ file'[s] = NoData /\ file[s] # NoData
        /\ \A p \in Paths : p # s /\ p # t => file'[p] = file[p]
    BY <1>1, PathFacts DEF MovesFile, TypeOK, Apart
  <2>. QED
    BY <2>1
<1>2. CASE MovesDir
  <2>. DEFINE from(p) == IF Below(p, t) THEN MovedTo(p, s, t) ELSE p
  <2>1. Swapped(s, t) /\ s \in Seq(Names) /\ t \in Seq(Names)
    BY <1>2, SwapPoints, PathFacts
  <2>2. ASSUME NEW p \in Paths, file'[p] # NoData
        PROVE  from(p) \in Paths /\ file'[p] = file[from(p)] /\ ~Below(p, s)
    <3>1. ~Below(p, s)
      BY <2>1, <2>2 DEF Swapped
    <3>2. CASE Below(p, t)
      BY <2>1, <2>2, <3>1, <3>2 DEF Swapped
    <3>3. CASE ~Below(p, t)
      <4>1. p \in {s, t} \/ (~AtOrBelow(p, s) /\ ~AtOrBelow(p, t))
        BY <3>1, <3>3 DEF Below
      <4>. QED
        BY <2>1, <3>1, <3>3, <4>1 DEF Swapped
    <3>. QED
      BY <3>1, <3>2, <3>3
  <2>3. ASSUME NEW p \in Paths, Below(p, t)
        PROVE  Below(MovedTo(p, s, t), s) /\ MovedTo(MovedTo(p, s, t), s, t) = p
    <3>1. p \in Seq(Names) /\ AtOrBelow(p, t) /\ p # t
      BY <2>3, PathFacts DEF Below
    <3>2. MovedTo(MovedTo(p, s, t), s, t) = p /\ AtOrBelow(MovedTo(p, s, t), s)
      BY <2>1, <3>1, Moved
    <3>. QED
      BY <2>1, <3>1, <3>2, MovedTops DEF Below
  <2>4. ASSUME NEW p \in Paths, NEW q \in Paths, p # q, file'[p] # NoData, file'[q] # NoData
        PROVE  from(p) # from(q)
    <3>1. ~Below(p, s) /\ ~Below(q, s)
      BY <2>2, <2>4
    <3>. QED
      BY <2>3, <2>4, <3>1
  <2>. HIDE DEF from
  <2>. QED
    BY <2>2, <2>4
<1>. QED
  BY <1>1, <1>2

\* Which steps change what is in files, and who has one open.
LEMMA FilesKept ==
    ASSUME TypeOK, [Next]_vars
    PROVE  \/ file' = file /\ handle' = handle
           \/ DropData \/ DropMeta \/ MoveData
           \/ (\E u \in Users : OpenData(u)) \/ (\E u \in Users : Close(u)) \/ Crash
<1>1. ASSUME NEW p \in Paths, CallOn(p)
      PROVE  file' = file /\ handle' = handle
  BY <1>1 DEF CallOn, MkdirCall, OpenCall, RemoveCall, RenameCall, RenameInPlace, Begin, disk
<1>2. SystemCall => \/ file' = file /\ handle' = handle
                    \/ DropData \/ DropMeta \/ MoveData
                    \/ \E u \in Users : OpenData(u)
  BY DEF SystemCall, TruncateMeta, WriteMeta, MakeData, OpenDirectory, OpenDataFails, Finish, Undo, disk
<1>3. \A p \in Paths : ListDir(p) => file' = file /\ handle' = handle
  BY DEF ListDir
<1>4. \A u \in Users : Unlock(u) \/ (\E p \in Paths : TryLock(u, p)) => file' = file /\ handle' = handle
  BY DEF Unlock, TryLock, disk
<1>5. UNCHANGED vars => file' = file /\ handle' = handle
  BY DEF vars
<1>. QED
  BY <1>1, <1>2, <1>3, <1>4, <1>5 DEF Next, Quiet

LEMMA NextData ==
    ASSUME DataInv, [Next]_vars
    PROVE  DataInv'
<1>1. DiskInv' /\ TypeOK /\ CallShape /\ DataUnique
  BY NextDisk DEF DataInv, DiskInv
<1>. SUFFICES DataUnique'
  BY <1>1 DEF DataInv
<1>2. \A n \in 1..MaxCalls : n > Begun => n > Begun'
  <2>1. Begun' \in Int
    BY <1>1, DirectoriesAssumption DEF DiskInv, TypeOK, Begun
  <2>2. Begun' <= Begun /\ Begun \in Int
    BY <1>1, BegunFalls, BegunType
  <2>. QED
    BY <2>1, <2>2, DirectoriesAssumption
<1>3. \A p, q \in Paths : p # q /\ file[p] # NoData => file[p] # file[q]
  BY <1>1 DEF DataUnique
<1>4. CASE file' = file /\ handle' = handle
  BY <1>1, <1>2, <1>3, <1>4, UniqueKept
<1>5. CASE DropData
  <2>1. handle' = handle /\ call.dst \in Paths /\ \A p \in Paths : file'[p] \in {file[p], NoData}
    BY <1>1, <1>5, StepKind DEF DropData, TypeOK
  <2>. QED
    BY <1>1, <1>2, <1>3, <2>1, UniqueKept
<1>6. CASE DropMeta
  <2>1. file' = file /\ (handle' = handle \/ ToExile(call.dst)) /\ call.dst \in Seq(Names)
    BY <1>1, <1>6, StepKind, PathFacts DEF DropMeta
  <2>2. \A u \in Users : handle'[u] # NoHandle => handle[u] # NoHandle /\ handle'[u].id = handle[u].id
    BY <1>1, <2>1, NodesExiled
  <2>. QED
    BY <1>1, <1>2, <1>3, <2>1, <2>2, UniqueKept
<1>7. CASE MoveData
  <2>1. /\ call.pc = "move" /\ call.kind = "rename" /\ Apart(call.src, call.dst)
        /\ call.src \in Paths /\ call.dst \in Paths
    BY <1>1, <1>7, MoveCases, StepKind DEF CallShape, Renaming
  <2>2. CASE (MovesFile \/ MovesDir) /\ Exchange(call.src, call.dst)
    <3>1. /\ \A p \in Paths : file'[p] = NoData \/ \E q \in Paths : file'[p] = file[q]
          /\ \A p, q \in Paths : p # q /\ file'[p] # NoData => file'[p] # file'[q]
      BY <1>1, <1>3, <2>1, <2>2, FilesMoved
    <3>2. \A u \in Users : handle'[u] # NoHandle => handle[u] # NoHandle /\ handle'[u].id = handle[u].id
      BY <1>1, <2>1, <2>2, PathFacts, NodesExchanged
    <3>. QED
      BY <1>1, <1>2, <3>1, <3>2, UniqueKept
  <2>3. CASE file' = file /\ handle' = handle
    BY <1>4, <2>3
  <2>. QED
    BY <1>7, <2>2, <2>3, MoveCases
<1>8. ASSUME NEW u \in Users, OpenData(u)
      PROVE  DataUnique'
  <2>. DEFINE id == <<"new", left + 1>>
  <2>1. /\ call.pc = "open" /\ call.dst \in Paths /\ left' = left /\ Return(FALSE)
        /\ file' = IF file[call.dst] = NoData THEN [file EXCEPT ![call.dst] = id] ELSE file
        /\ handle' = [handle EXCEPT ![u] = [node |-> call.dst, id |-> file'[call.dst]]]
    BY <1>1, <1>8, StepKind DEF OpenData
  <2>2. PICK x \in Paths : x = call.dst
    BY <2>1
  <2>3. left \in Nat /\ left + 1 \in 1..MaxCalls /\ Begun = left + 1 /\ Begun' = left
    <3>1. call'.pc = "idle"
      BY <1>1, <2>1, AfterReturn DEF TypeOK
    <3>2. left < MaxCalls /\ left \in Nat /\ MaxCalls \in Nat
      BY <1>1, <2>1, StepKind, DirectoriesAssumption DEF CallShape, TypeOK
    <3>. QED
      BY <2>1, <3>1, <3>2 DEF Begun
  <2>4. \A p \in Paths : file[p] # id
    BY <1>1, <2>3 DEF DataUnique
  <2>5. /\ \A p \in Paths : p # x => file'[p] = file[p]
        /\ file'[x] = IF file[x] = NoData THEN id ELSE file[x]
        /\ \A v \in Users : handle'[v] = handle[v] \/ handle'[v] = [node |-> x, id |-> file'[x]]
    BY <1>1, <2>1, <2>2 DEF TypeOK
  <2>6. ASSUME NEW n \in 1..MaxCalls, NEW p \in Paths, file'[p] = <<"new", n>>
        PROVE  n > Begun'
    <3>1. n \in Int
      BY DirectoriesAssumption
    <3>2. CASE file[p] = <<"new", n>>
      <4>1. n > Begun
        BY <1>1, <3>2 DEF DataUnique
      <4>. QED
        BY <2>3, <3>1, <4>1
    <3>3. CASE p = x /\ file'[x] = id
      <4>1. n = left + 1
        BY <2>6, <3>3
      <4>. QED
        BY <2>3, <4>1
    <3>. QED
      BY <2>5, <2>6, <3>2, <3>3
  <2>7. ASSUME NEW n \in 1..MaxCalls, NEW v \in Users, handle'[v] # NoHandle, handle'[v].id = <<"new", n>>
        PROVE  n > Begun'
    <3>1. n \in Int
      BY DirectoriesAssumption
    <3>2. CASE handle'[v] = handle[v]
      <4>1. n > Begun
        BY <1>1, <2>7, <3>2 DEF DataUnique
      <4>. QED
        BY <2>3, <3>1, <4>1
    <3>3. CASE handle'[v] = [node |-> x, id |-> file'[x]]
      BY <2>6, <2>7, <3>3
    <3>. QED
      BY <2>5, <3>2, <3>3
  <2>8. \A p, q \in Paths : p # q /\ file'[p] # NoData => file'[p] # file'[q]
    BY <1>3, <2>4, <2>5
  <2>. QED
    BY <2>6, <2>7, <2>8 DEF DataUnique
<1>9. ASSUME NEW u \in Users, Close(u)
      PROVE  DataUnique'
  <2>1. /\ file' = file
        /\ \A v \in Users : handle'[v] # NoHandle => handle'[v] = handle[v]
    BY <1>1, <1>9 DEF Close, disk, TypeOK
  <2>. QED
    BY <1>1, <1>2, <1>3, <2>1, UniqueKept
<1>10. CASE Crash
  <2>1. file' = file /\ \A v \in Users : handle'[v] = NoHandle
    BY <1>10 DEF Crash, disk
  <2>. QED
    BY <1>1, <1>2, <1>3, <2>1, UniqueKept
<1>. QED
  BY <1>1, <1>4, <1>5, <1>6, <1>7, <1>8, <1>9, <1>10, FilesKept

LEMMA InitData ==
    ASSUME Init
    PROVE  DataInv
<1>1. DiskInv
  BY InitDisk
<1>2. \A p \in Paths : file[p] = NoData \/ file[p] = <<"old", p>>
  BY DEF Init
<1>3. \A p \in Paths, n \in 1..MaxCalls : file[p] # <<"new", n>>
  <2>1. \A n \in 1..MaxCalls : <<"new", n>> \in Ids
    BY DEF Ids
  <2>2. \A n \in 1..MaxCalls, p \in Paths : <<"new", n>> # <<"old", p>>
    OBVIOUS
  <2>. QED
    BY <1>2, <2>1, <2>2, AbsenceAssumption
<1>4. \A u \in Users : handle[u] = NoHandle
  BY DEF Init
<1>5. \A p, q \in Paths : p # q => <<"old", p>> # <<"old", q>>
  OBVIOUS
<1>6. \A p \in Paths : <<"old", p>> # NoData
  BY AbsenceAssumption DEF Ids
<1>7. DataUnique
  BY <1>2, <1>3, <1>4, <1>5, <1>6 DEF DataUnique
<1>. QED
  BY <1>1, <1>7 DEF DataInv

-----------------------------------------------------------------------------
\* Open Files follow their nodes.
Follows(u) ==
    \/ handle[u].node \in Paths /\ file[handle[u].node] = handle[u].id
    \/ /\ \/ spoilt \/ handle[u].node = Exile
          \/ call.pc = "dropMeta" /\ handle[u].node = call.dst
       /\ \A p \in Paths : file[p] # handle[u].id

NodeInv == DataInv /\ NodesFollowed

LEMMA HandleIs ==
    ASSUME TypeOK, NEW u \in Users, handle[u] # NoHandle
    PROVE  /\ handle[u].node \in {Exile} \union Seq(Names) /\ handle[u].id \in Ids
           /\ handle[u].id # NoData
           /\ handle[u].node \in Paths => handle[u].node # Exile
<1>1. handle[u].node \in {Exile} \union Seq(Names) /\ handle[u].id \in Ids
  BY DEF TypeOK
<1>2. Exile \notin Paths
  BY DirectoriesAssumption
<1>. QED
  BY <1>1, <1>2, AbsenceAssumption

\* What has failed or been lost once has been for good.
LEMMA LossStays ==
    ASSUME TypeOK, CallShape, [Next]_vars
    PROVE  /\ spoilt => spoilt'
           /\ emptied' = {} => emptied = {}
<1>1. ASSUME NEW p \in Paths, CallOn(p)
      PROVE  spoilt' = spoilt /\ emptied' = emptied
  BY <1>1 DEF CallOn, MkdirCall, OpenCall, RemoveCall, RenameCall, RenameInPlace, Begin
<1>2. \A b \in BOOLEAN : Return(b) \/ UndoAfter(b) => (spoilt => spoilt')
  BY DEF Return, UndoAfter
<1>3. \A x : Goto(x) => spoilt' = spoilt
  BY DEF Goto
<1>4. ASSUME SystemCall
      PROVE  spoilt => spoilt'
  <2>1. TruncateMeta \/ WriteMeta \/ OpenDirectory \/ DropMeta \/ Finish \/ Undo => (spoilt => spoilt')
    BY <1>2, <1>3 DEF TruncateMeta, WriteMeta, OpenDirectory, DropMeta, Finish, Undo
  <2>2. MakeData \/ OpenDataFails \/ DropData \/ MoveData => (spoilt => spoilt')
    BY <1>3 DEF MakeData, OpenDataFails, DropData, MoveData, Return, UndoAfter
  <2>3. \A u \in Users : OpenData(u) => (spoilt => spoilt')
    BY <1>2 DEF OpenData
  <2>. QED
    BY <1>4, <2>1, <2>2, <2>3 DEF SystemCall
<1>5. ASSUME SystemCall, emptied' = {}
      PROVE  emptied = {}
  <2>1. CASE WriteMeta
    BY <1>5, <2>1 DEF WriteMeta
  <2>2. CASE MoveData
    <3>1. emptied' = emptied \/ MovesDir
      BY <2>2, MoveCases DEF MovesFile
    <3>2. CASE MovesDir
      <4>1. emptied' = {IF p \in {call.src, call.dst} \/ MovedTo(p, call.src, call.dst) \notin Paths
                        THEN p ELSE MovedTo(p, call.src, call.dst) : p \in emptied}
        BY <3>2 DEF MovesDir
      <4>. QED
        BY <1>5, <4>1
    <3>. QED
      BY <1>5, <3>1, <3>2
  <2>3. CASE ~WriteMeta /\ ~MoveData
    BY <1>5, <2>3 DEF SystemCall, TruncateMeta, MakeData, OpenDirectory, OpenDataFails, DropData,
                      DropMeta, Finish, Undo, OpenData
  <2>. QED
    BY <2>1, <2>2, <2>3
<1>6. \A p \in Paths : ListDir(p) => spoilt' = spoilt /\ emptied' = emptied
  BY DEF ListDir
<1>7. \A u \in Users : Close(u) \/ Unlock(u) \/ (\E p \in Paths : TryLock(u, p)) =>
         spoilt' = spoilt /\ emptied' = emptied
  BY DEF Close, Unlock, TryLock
<1>8. Crash => (spoilt => spoilt') /\ (emptied' = {} => emptied = {})
  BY <1>2 DEF Crash
<1>9. UNCHANGED vars => spoilt' = spoilt /\ emptied' = emptied
  BY DEF vars
<1>. QED
  BY <1>1, <1>4, <1>5, <1>6, <1>7, <1>8, <1>9 DEF Next, Quiet

\* A step that leaves files and Files alone does not end a removal either.
LEMMA RemovalKept ==
    ASSUME TypeOK, [Next]_vars, file' = file, handle' = handle, call.pc = "dropMeta",
           ~DropMeta, ~Crash
    PROVE  call' = call
<1>1. ~ \E p \in Paths : CallOn(p)
  BY DEF CallOn, MkdirCall, OpenCall, RemoveCall, RenameCall, RenameInPlace, Begin
<1>2. ~SystemCall
  BY DEF SystemCall, TruncateMeta, WriteMeta, MakeData, OpenDirectory, OpenDataFails, Finish, Undo,
         DropData, MoveData, OpenData
<1>3. \A p \in Paths : ListDir(p) => call' = call
  BY DEF ListDir
<1>4. \A u \in Users : Close(u) \/ Unlock(u) \/ (\E p \in Paths : TryLock(u, p)) => call' = call
  BY DEF Close, Unlock, TryLock
<1>5. UNCHANGED vars => call' = call
  BY DEF vars
<1>. QED
  BY <1>1, <1>2, <1>3, <1>4, <1>5 DEF Next, Quiet

LEMMA FollowedDropData ==
    ASSUME NodeInv, DropData, emptied = {}, spoilt => spoilt', NEW u \in Users, handle[u] # NoHandle, Follows(u)
    PROVE  Follows(u)'
<1>1. /\ call.pc = "dropData" /\ handle' = handle /\ call.dst \in Paths /\ TypeOK /\ CallShape
      /\ \A p, q \in Paths : p # q /\ file[p] # NoData => file[p] # file[q]
  BY StepKind DEF NodeInv, DataInv, DiskInv, DataUnique, DropData
<1>2. PICK x \in Paths : x = call.dst
  BY <1>1
<1>3. handle[u].id # NoData /\ handle' = handle
  BY <1>1, HandleIs
<1>4. CASE file' = file
  BY <1>1, <1>3, <1>4 DEF Follows
<1>5. CASE Goto("dropMeta") /\ file' = [file EXCEPT ![x] = NoData]
  <2>1. /\ call'.pc = "dropMeta" /\ call'.dst = x
        /\ file'[x] = NoData /\ \A p \in Paths : p # x => file'[p] = file[p]
    BY <1>1, <1>2, <1>5, AfterGoto DEF Steps, TypeOK
  <2>2. CASE handle[u].node = x /\ file[x] = handle[u].id
    <3>1. \A p \in Paths : file'[p] # handle[u].id
      BY <1>1, <1>3, <2>1, <2>2
    <3>. QED
      BY <1>3, <2>1, <2>2, <3>1 DEF Follows
  <2>3. CASE handle[u].node \in Paths /\ handle[u].node # x /\ file[handle[u].node] = handle[u].id
    BY <1>3, <2>1, <2>3 DEF Follows
  <2>4. CASE (spoilt \/ handle[u].node = Exile) /\ \A p \in Paths : file[p] # handle[u].id
    BY <1>3, <2>1, <2>4 DEF Follows
  <2>. QED
    BY <1>1, <2>2, <2>3, <2>4 DEF Follows
<1>. QED
  BY <1>2, <1>4, <1>5 DEF DropData

LEMMA FollowedDropMeta ==
    ASSUME NodeInv, DropMeta, emptied = {}, spoilt => spoilt', NEW u \in Users, handle[u] # NoHandle, Follows(u)
    PROVE  Follows(u)'
<1>1. /\ call.pc = "dropMeta" /\ file' = file /\ call.dst \in Paths /\ TypeOK /\ CallShape
      /\ Bare(call.dst)
  BY StepKind DEF NodeInv, DataInv, DiskInv, DropMeta, DiskShape, Bared
<1>2. PICK x \in Paths : x = call.dst
  BY <1>1
<1>3. handle[u].id # NoData /\ x \in Seq(Names)
  BY <1>1, HandleIs, PathFacts
<1>4. CASE handle' = handle /\ Return(TRUE)
  <2>1. spoilt'
    BY <1>1, <1>4, AfterReturn DEF TypeOK
  <2>. QED
    BY <1>1, <1>4, <2>1 DEF Follows
<1>5. CASE ToExile(x)
  <2>1. /\ handle'[u].id = handle[u].id
        /\ handle[u].node = Exile => handle'[u].node = Exile
        /\ handle[u].node # Exile =>
              handle'[u].node = IF AtOrBelow(handle[u].node, x) THEN Exile ELSE handle[u].node
    BY <1>1, <1>3, <1>5, NodesExiled
  <2>2. CASE handle[u].node \in Paths /\ file[handle[u].node] = handle[u].id
    <3>1. ~AtOrBelow(handle[u].node, x)
      BY <1>1, <1>2, <1>3, <2>2 DEF Bare, EmptyDir, Below, Vacant
    <3>2. handle[u].node # Exile
      BY <1>1, <2>2, HandleIs
    <3>. QED
      BY <1>1, <2>1, <2>2, <3>1, <3>2 DEF Follows
  <2>3. CASE /\ spoilt \/ handle[u].node = Exile \/ handle[u].node = x
             /\ \A p \in Paths : file[p] # handle[u].id
    <3>1. spoilt' \/ handle'[u].node = Exile
      BY <1>3, <2>1, <2>3, PathFacts
    <3>. QED
      BY <1>1, <2>1, <2>3, <3>1 DEF Follows
  <2>. QED
    BY <1>2, <2>2, <2>3 DEF Follows
<1>. QED
  BY <1>2, <1>4, <1>5 DEF DropMeta

LEMMA FollowedMoveData ==
    ASSUME NodeInv, MoveData, emptied = {}, spoilt => spoilt', NEW u \in Users, handle[u] # NoHandle, Follows(u)
    PROVE  Follows(u)'
<1>1. /\ call.pc = "move" /\ call.kind = "rename" /\ Renaming /\ TypeOK /\ CallShape
      /\ DiskInv /\ Filed /\ Strict
      /\ call.src \in Paths /\ call.dst \in Paths /\ Apart(call.src, call.dst)
      /\ \A p, q \in Paths : p # q /\ file[p] # NoData => file[p] # file[q]
  BY MoveCases, StepKind, Clean DEF NodeInv, DataInv, DiskInv, DataUnique, CallShape, Renaming
<1>2. PICK s \in Paths, t \in Paths : s = call.src /\ t = call.dst
  BY <1>1
<1>3. /\ handle[u].id # NoData /\ s \in Seq(Names) /\ t \in Seq(Names) /\ Apart(s, t)
      /\ handle[u].node \in Paths => handle[u].node # Exile
      /\ AtOrBelow(s, s) /\ AtOrBelow(t, t) /\ s # t
  BY <1>1, <1>2, HandleIs, PathFacts DEF Apart
<1>4. CASE file' = file /\ handle' = handle
  BY <1>1, <1>4 DEF Follows
<1>5. CASE (MovesFile \/ MovesDir) /\ Exchange(s, t)
  <2>1. /\ handle'[u].id = handle[u].id
        /\ handle[u].node = Exile => handle'[u].node = Exile
        /\ handle[u].node # Exile => handle'[u].node = MovedTo(handle[u].node, s, t)
    BY <1>1, <1>3, <1>5, NodesExchanged
  <2>2. \A p \in Paths : file'[p] = NoData \/ \E q \in Paths : file'[p] = file[q]
    BY <1>1, <1>2, <1>5, FilesMoved
  <2>3. CASE (spoilt \/ handle[u].node = Exile) /\ \A p \in Paths : file[p] # handle[u].id
    <3>1. \A p \in Paths : file'[p] # handle'[u].id
      BY <1>3, <2>1, <2>2, <2>3
    <3>. QED
      BY <2>1, <2>3, <3>1 DEF Follows
  <2>4. CASE handle[u].node \in Paths /\ file[handle[u].node] = handle[u].id
    <3>. DEFINE n == handle[u].node
    <3>1. PICK m \in Paths : m = n
      BY <2>4
    <3>2. /\ file[m] = handle[u].id /\ file[m] # NoData /\ handle'[u].node = MovedTo(m, s, t)
          /\ m \in Seq(Names) /\ ~Vacant(m)
      BY <1>3, <2>1, <2>4, <3>1, PathFacts DEF Vacant
    <3>. HIDE DEF n
    <3>3. ~AtOrBelow(m, t)
      <4>1. Bare(t)
        BY <1>1, <1>2 DEF DiskInv, DiskShape, Bared
      <4>. QED
        BY <3>2, <4>1 DEF Bare, EmptyDir, Below
    <3>4. meta[s] = call.new
      BY <1>1, <1>2 DEF DiskInv, DiskShape
    <3>5. MovedTo(m, s, t) \in Paths /\ file'[MovedTo(m, s, t)] = file[m]
      <4>1. CASE ~AtOrBelow(m, s)
        <5>1. MovedTo(m, s, t) = m /\ m # s /\ m # t
          BY <1>3, <3>3, <4>1 DEF MovedTo
        <5>2. CASE MovesFile
          BY <1>1, <1>2, <5>1, <5>2 DEF MovesFile, TypeOK
        <5>3. CASE MovesDir
          <6>1. Swapped(s, t)
            BY <1>1, <1>2, <5>3, SwapPoints
          <6>. QED
            BY <3>3, <4>1, <5>1, <6>1 DEF Swapped
        <5>. QED
          BY <1>5, <5>1, <5>2, <5>3
      <4>2. CASE AtOrBelow(m, s) /\ MovesFile
        <5>1. ~IsDir(s)
          BY <3>4, <4>2 DEF MovesFile, IsDir
        <5>2. m = s
          BY <1>1, <3>2, <4>2, <5>1 DEF Strict, Below
        <5>. QED
          BY <1>1, <1>2, <1>3, <4>2, <5>2, MovedTops DEF MovesFile, TypeOK
      <4>3. CASE AtOrBelow(m, s) /\ MovesDir
        <5>1. IsDir(s) /\ ~IsFile(s)
          BY <1>1, <1>2, <3>4, <4>3 DEF CallShape, MovesDir, IsDir, IsFile, Exists, Metas
        <5>2. m # s
          BY <1>1, <3>2, <5>1 DEF Filed
        <5>3. Reroot(m, s, t) \in Paths /\ MovedTo(m, s, t) = Reroot(m, s, t)
          BY <1>1, <1>2, <3>2, <4>3, <5>2 DEF DiskInv, DiskShape, Below, MovedTo
        <5>4. /\ MovedTo(MovedTo(m, s, t), s, t) = m /\ AtOrBelow(MovedTo(m, s, t), t)
              /\ MovedTo(t, s, t) = s
          BY <1>3, <3>2, <4>3, Moved, MovedTops
        <5>5. MovedTo(m, s, t) # t
          BY <5>2, <5>4
        <5>6. Swapped(s, t)
          BY <1>1, <1>2, <4>3, SwapPoints
        <5>. QED
          BY <5>3, <5>4, <5>5, <5>6 DEF Swapped, Below
      <4>. QED
        BY <1>5, <4>1, <4>2, <4>3
    <3>. QED
      BY <2>1, <3>2, <3>5 DEF Follows
  <2>. QED
    BY <1>1, <2>3, <2>4 DEF Follows
<1>. QED
  BY <1>2, <1>4, <1>5, MoveCases

LEMMA FollowedOpenData ==
    ASSUME NodeInv, NEW v \in Users, OpenData(v), emptied = {}, spoilt => spoilt',
           NEW u \in Users, handle'[u] # NoHandle, handle[u] # NoHandle => Follows(u)
    PROVE  Follows(u)'
<1>. DEFINE id == <<"new", left + 1>>
<1>1. /\ call.pc = "open" /\ call.dst \in Paths /\ TypeOK /\ CallShape /\ left < MaxCalls
      /\ file' = IF file[call.dst] = NoData THEN [file EXCEPT ![call.dst] = id] ELSE file
      /\ handle' = [handle EXCEPT ![v] = [node |-> call.dst, id |-> file'[call.dst]]]
  BY StepKind DEF OpenData, NodeInv, DataInv, DiskInv, CallShape
<1>2. PICK x \in Paths : x = call.dst
  BY <1>1
<1>3. /\ \A p \in Paths : p # x => file'[p] = file[p]
      /\ file'[x] = IF file[x] = NoData THEN id ELSE file[x]
      /\ \/ handle'[u] = [node |-> x, id |-> file'[x]]
         \/ handle'[u] = handle[u]
  BY <1>1, <1>2 DEF TypeOK
<1>4. CASE handle'[u] = [node |-> x, id |-> file'[x]]
  <2>1. handle'[u].node = x /\ handle'[u].id = file'[x]
    BY <1>4
  <2>. QED
    BY <2>1 DEF Follows
<1>5. CASE handle'[u] = handle[u]
  <2>1. handle[u] # NoHandle /\ Follows(u) /\ handle[u].id # NoData
    BY <1>1, <1>5, HandleIs
  <2>2. handle[u].id # id
    <3>1. left + 1 \in 1..MaxCalls /\ Begun = left + 1 /\ left \in Nat
      BY <1>1, DirectoriesAssumption DEF TypeOK, Begun
    <3>2. handle[u].id = id => left + 1 > left + 1
      BY <2>1, <3>1 DEF NodeInv, DataInv, DataUnique
    <3>. QED
      BY <3>1, <3>2
  <2>3. CASE handle[u].node \in Paths /\ file[handle[u].node] = handle[u].id
    BY <1>3, <1>5, <2>1, <2>3 DEF Follows
  <2>4. CASE (spoilt \/ handle[u].node = Exile) /\ \A p \in Paths : file[p] # handle[u].id
    <3>1. \A p \in Paths : file'[p] # handle[u].id
      BY <1>3, <2>1, <2>2, <2>4
    <3>. QED
      BY <1>5, <2>4, <3>1 DEF Follows
  <2>. QED
    BY <1>1, <2>1, <2>3, <2>4 DEF Follows
<1>. QED
  BY <1>3, <1>4, <1>5

LEMMA NextNodes ==
    ASSUME NodeInv, [Next]_vars
    PROVE  NodeInv'
<1>1. DataInv' /\ TypeOK /\ CallShape
  BY NextData DEF NodeInv, DataInv, DiskInv
<1>2. SUFFICES ASSUME emptied' = {}, NEW u \in Users, handle'[u] # NoHandle
               PROVE  Follows(u)'
  BY <1>1 DEF NodeInv, NodesFollowed, Follows
<1>3. emptied = {} /\ (spoilt => spoilt')
  BY <1>1, <1>2, LossStays
<1>4. handle[u] # NoHandle => Follows(u)
  BY <1>3 DEF NodeInv, NodesFollowed, Follows
<1>5. CASE ~DropMeta /\ ~Crash /\ file' = file /\ handle' = handle
  <2>1. call.pc = "dropMeta" => call' = call
    BY <1>1, <1>5, RemovalKept
  <2>. QED
    BY <1>2, <1>3, <1>4, <1>5, <2>1 DEF Follows
<1>6. CASE DropData
  <2>1. handle' = handle
    BY <1>6 DEF DropData
  <2>. QED
    BY <1>2, <1>3, <1>4, <1>6, <2>1, FollowedDropData
<1>7. CASE DropMeta
  <2>1. call.dst \in Seq(Names) /\ (handle' = handle \/ ToExile(call.dst))
    BY <1>1, <1>7, StepKind, PathFacts DEF DropMeta
  <2>2. handle[u] # NoHandle
    BY <1>1, <1>2, <2>1, NodesExiled
  <2>. QED
    BY <1>3, <1>4, <1>7, <2>2, FollowedDropMeta
<1>8. CASE MoveData
  <2>1. /\ call.src \in Seq(Names) /\ call.dst \in Seq(Names) /\ Apart(call.src, call.dst)
        /\ handle' = handle \/ Exchange(call.src, call.dst)
    BY <1>1, <1>8, MoveCases, StepKind, PathFacts DEF CallShape, Renaming
  <2>2. handle[u] # NoHandle
    BY <1>1, <1>2, <2>1, NodesExchanged
  <2>. QED
    BY <1>3, <1>4, <1>8, <2>2, FollowedMoveData
<1>9. ASSUME NEW v \in Users, OpenData(v)
      PROVE  Follows(u)'
  BY <1>2, <1>3, <1>4, <1>9, FollowedOpenData
<1>10. ASSUME NEW v \in Users, Close(v)
       PROVE  Follows(u)'
  <2>1. file' = file /\ call' = call /\ spoilt' = spoilt /\ handle'[u] = handle[u]
    BY <1>1, <1>2, <1>10 DEF Close, disk, TypeOK
  <2>. QED
    BY <1>2, <1>4, <2>1 DEF Follows
<1>11. ~Crash
  BY <1>2 DEF Crash
<1>. QED
  BY <1>1, <1>5, <1>6, <1>7, <1>8, <1>9, <1>10, <1>11, FilesKept

LEMMA InitNodes ==
    ASSUME Init
    PROVE  NodeInv
BY InitData DEF Init, NodeInv, NodesFollowed

\* An open File reads the data of the path its node stands at.
THEOREM FilesStayWithTheirNode == Spec => []FilesFollowTheirNode
<1>1. Init => NodeInv
  BY InitNodes
<1>2. NodeInv /\ [Next]_vars => NodeInv'
  BY NextNodes
<1>3. NodeInv => FilesFollowTheirNode
  BY DEF NodeInv, NodesFollowed, FilesFollowTheirNode
<1>. QED
  BY <1>1, <1>2, <1>3, PTL DEF Spec

-----------------------------------------------------------------------------
\* Until something fails, all but what a call works on is whole.
WholeInv == DataInv /\ WholeElsewhere

\* The same while nothing has failed.
WholeYet ==
    /\ ~spoilt /\ emptied = {}
    /\ \A p \in Paths :
          \/ p = call.dst /\ (Bared \/ call.pc = "write")
          \/ p = call.src /\ call.pc = "finish"
          \/ Whole(p)
    /\ call.pc = "write" /\ InPlace =>
          /\ call.new.type = "file" => file[call.dst] # NoData \/ call.new.obj
          /\ call.new.type = "dir" => dir[call.dst]

LEMMA WholeAt ==
    ASSUME NEW p \in Paths, Whole(p), meta'[p] = meta[p],
           file[p] # NoData => file'[p] # NoData, dir[p] => dir'[p]
    PROVE  Whole(p)'
BY DEF Whole, IsFile, IsDir, Exists

LEMMA WholeGone ==
    ASSUME NEW p \in Paths, meta'[p] = NoMeta
    PROVE  Whole(p)'
BY AbsenceAssumption DEF Whole, IsFile, IsDir, Exists

\* All is whole when a call has returned.
LEMMA WholeOver ==
    ASSUME call'.pc = "idle", emptied' = {}, \A p \in Paths : Whole(p)'
    PROVE  WholeElsewhere'
BY DEF WholeElsewhere

LEMMA WholeIdle ==
    ASSUME DiskInv, WholeYet, call.pc \notin {"write", "finish"}, ~Bared
    PROVE  \A p \in Paths : Whole(p)
BY DEF WholeYet

LEMMA WholeCallOn ==
    ASSUME DiskInv, WholeYet, NEW q \in Paths, CallOn(q)
    PROVE  WholeElsewhere'
<1>1. call.pc = "idle" /\ TypeOK /\ CallShape /\ ~Bared /\ emptied = {}
  <2>1. call.pc = "idle"
    BY DEF CallOn, MkdirCall, OpenCall, RemoveCall, RenameCall, RenameInPlace, Begin
  <2>. QED
    BY <2>1, StepKind DEF DiskInv, Bared, WholeYet
<1>2. \A p \in Paths : Whole(p)
  BY <1>1, WholeIdle
<1>3. /\ meta' = meta /\ file' = file /\ emptied' = emptied
      /\ \A p \in Paths : dir[p] => dir'[p]
  BY <1>1 DEF CallOn, MkdirCall, OpenCall, RemoveCall, RenameCall, RenameInPlace, Begin, EnsureDir,
              disk, TypeOK
<1>4. \A p \in Paths : Whole(p)'
  BY <1>2, <1>3, WholeAt
<1>5. call'.pc \in {"truncate", "open", "dropData"}
  <2>1. ASSUME NEW f \in OpenFlags, OpenCall(q, f)
        PROVE  call'.pc \in {"truncate", "open"}
    <3>. DEFINE made == "create" \in f /\ meta[q] = NoMeta
    <3>1. made \in BOOLEAN /\ made = ("create" \in f /\ meta[q] = NoMeta)
      OBVIOUS
    <3>. HIDE DEF made
    <3>2. call'.pc = (IF made THEN "truncate" ELSE "open")
      BY <1>1, <2>1, <3>1, AfterOpenCall
    <3>. QED
      BY <3>2
  <2>2. ASSUME NEW t \in Paths, RenameCall(q, t)
        PROVE  call'.pc \in {"truncate", "dropData"}
    <3>1. call'.pc = (IF Exists(t) THEN "dropData" ELSE "truncate")
      BY <1>1, <2>2, AfterRenameCall
    <3>. QED
      BY <3>1
  <2>. QED
    BY <1>1, <2>1, <2>2, AfterMkdirCall, AfterRemoveCall, AfterRenameInPlace DEF CallOn
<1>. QED
  BY <1>1, <1>3, <1>4, <1>5 DEF WholeElsewhere

\* A call that returns without an error has not failed.
LEMMA NoTrouble ==
    ASSUME TypeOK, ~spoilt', NEW b \in BOOLEAN, Return(b) \/ UndoAfter(b)
    PROVE  ~b
BY AfterReturn, AfterUndoAfter DEF TypeOK

LEMMA WholeTruncateMeta ==
    ASSUME DiskInv, WholeYet, ~spoilt', TruncateMeta
    PROVE  WholeElsewhere'
<1>1. /\ call.pc = "truncate" /\ TypeOK /\ CallShape /\ call.dst \in Paths
      /\ file' = file /\ dir' = dir /\ emptied' = {}
  BY StepKind DEF DiskInv, WholeYet, TruncateMeta
<1>2. ~Return(TRUE)
  BY <1>1, NoTrouble
<1>3. meta' = [meta EXCEPT ![call.dst] = TornMeta] /\ Goto("write")
  BY <1>2 DEF TruncateMeta
<1>4. /\ call'.pc = "write" /\ call'.kind = call.kind /\ call'.src = call.src
      /\ call'.dst = call.dst /\ call'.new = call.new
  BY <1>1, <1>3, AfterGoto DEF Steps, TypeOK
<1>5. ASSUME NEW p \in Paths, p # call.dst
      PROVE  Whole(p)'
  <2>1. Whole(p) /\ meta'[p] = meta[p]
    BY <1>1, <1>3, <1>5 DEF WholeYet, TypeOK
  <2>. QED
    BY <1>1, <2>1, WholeAt
<1>6. ASSUME InPlace
      PROVE  /\ call.new.type = "file" => file[call.dst] # NoData \/ call.new.obj
             /\ call.new.type = "dir" => dir[call.dst]
  <2>1. meta[call.dst] = call.new /\ call.new \in Metas /\ ~Bared
    BY <1>1, <1>6 DEF DiskInv, DiskShape, CallShape, InPlace, Bared
  <2>2. Whole(call.dst)
    BY <1>1, <2>1 DEF WholeYet
  <2>. QED
    BY <2>1, <2>2 DEF Whole, IsFile, IsDir, Exists
<1>7. InPlace' <=> InPlace
  BY <1>4 DEF InPlace
<1>. QED
  BY <1>1, <1>4, <1>5, <1>6, <1>7 DEF WholeElsewhere

LEMMA WholeWriteMeta ==
    ASSUME DiskInv, WholeYet, ~spoilt', WriteMeta
    PROVE  WholeElsewhere'
<1>1. /\ call.pc = "write" /\ TypeOK /\ CallShape /\ call.dst \in Paths
      /\ file' = file /\ dir' = dir
      /\ call.kind \in {"mkdir", "open", "rename"} /\ (call.kind = "open" => call.made)
  BY StepKind DEF DiskInv, WriteMeta, CallShape
<1>2. ~Return(TRUE)
  BY <1>1, NoTrouble
<1>3. /\ meta' = [meta EXCEPT ![call.dst] = call.new] /\ emptied' = {}
      /\ IF InPlace THEN Return(FALSE)
         ELSE Goto(IF call.kind = "rename" THEN "move" ELSE call.kind)
  BY <1>2 DEF WriteMeta, WholeYet
<1>4. ASSUME NEW p \in Paths, p # call.dst
      PROVE  Whole(p)'
  <2>1. Whole(p) /\ meta'[p] = meta[p]
    BY <1>1, <1>3, <1>4 DEF WholeYet, TypeOK
  <2>. QED
    BY <1>1, <2>1, WholeAt
<1>5. CASE InPlace
  <2>1. /\ call.new \in Metas /\ meta'[call.dst] = call.new /\ call'.pc = "idle"
        /\ call.new.type = "file" => file[call.dst] # NoData \/ call.new.obj
        /\ call.new.type = "dir" => dir[call.dst]
    BY <1>1, <1>3, <1>5, AfterReturn DEF WholeYet, CallShape, InPlace, TypeOK
  <2>2. PICK x \in Paths : x = call.dst
    BY <1>1
  <2>3. Whole(x)'
    BY <1>1, <2>1, <2>2, AbsenceAssumption DEF Whole, IsFile, IsDir, Exists
  <2>. QED
    BY <1>3, <1>4, <2>1, <2>2, <2>3, WholeOver
<1>6. CASE ~InPlace
  <2>. DEFINE y == IF call.kind = "rename" THEN "move" ELSE call.kind
  <2>1. y \in Steps /\ y \in {"mkdir", "open", "move"} /\ (y = "open" => call.made) /\ Goto(y)
    BY <1>1, <1>3, <1>6 DEF Steps
  <2>. HIDE DEF y
  <2>2. call'.pc = y /\ call'.dst = call.dst /\ (call'.made <=> call.made)
    BY <1>1, <2>1, AfterGoto DEF TypeOK
  <2>3. Bared' /\ call'.pc # "write"
    BY <2>1, <2>2 DEF Bared
  <2>. QED
    BY <1>3, <1>4, <2>2, <2>3 DEF WholeElsewhere
<1>. QED
  BY <1>5, <1>6

LEMMA WholeMakeData ==
    ASSUME DiskInv, WholeYet, ~spoilt', MakeData
    PROVE  WholeElsewhere'
<1>1. /\ call.pc = "mkdir" /\ call.kind = "mkdir" /\ TypeOK /\ CallShape /\ call.dst \in Paths
      /\ meta' = meta /\ file' = file /\ emptied' = {} /\ emptied = {}
      /\ meta[call.dst] = [type |-> "dir", obj |-> FALSE]
      /\ Bare(call.dst)
  BY StepKind DEF DiskInv, WholeYet, MakeData, CallShape, DiskShape, Bared
<1>2. PICK x \in Paths : x = call.dst
  BY <1>1
<1>3. ~dir[x]
  BY <1>1, <1>2 DEF Bare
<1>4. ~UndoAfter(~dir[call.dst])
  <2>. DEFINE b == ~dir[call.dst]
  <2>1. b \in BOOLEAN /\ b
    BY <1>2, <1>3
  <2>. HIDE DEF b
  <2>. QED
    BY <1>1, <2>1, NoTrouble DEF b
<1>5. dir' = [dir EXCEPT ![x] = TRUE] /\ Return(FALSE)
  BY <1>2, <1>4 DEF MakeData
<1>6. ASSUME NEW p \in Paths, p # x
      PROVE  Whole(p)'
  <2>1. Whole(p) /\ dir'[p] = dir[p]
    BY <1>1, <1>2, <1>5, <1>6 DEF WholeYet, TypeOK
  <2>. QED
    BY <1>1, <2>1, WholeAt
<1>7. Whole(x)'
  <2>1. dir'[x] = TRUE
    BY <1>1, <1>5 DEF TypeOK
  <2>2. [type |-> "dir", obj |-> FALSE] \in Metas
    BY DEF Metas
  <2>. QED
    BY <1>1, <1>2, <2>1, <2>2, AbsenceAssumption DEF Whole, IsFile, IsDir, Exists
<1>8. call'.pc = "idle"
  BY <1>1, <1>5, AfterReturn DEF TypeOK
<1>. QED
  BY <1>1, <1>6, <1>7, <1>8, WholeOver

LEMMA WholeOpenDirectory ==
    ASSUME DiskInv, WholeYet, ~spoilt', OpenDirectory
    PROVE  WholeElsewhere'
<1>1. /\ call.pc = "open" /\ TypeOK /\ CallShape /\ call.dst \in Paths /\ IsDir(call.dst)
      /\ meta' = meta /\ file' = file /\ emptied' = {}
  BY StepKind DEF DiskInv, WholeYet, OpenDirectory
<1>2. ~Return(TRUE)
  BY <1>1, NoTrouble
<1>3. EnsureDir(call.dst) /\ Return(FALSE)
  BY <1>2 DEF OpenDirectory
<1>4. ~call.made
  <2>1. call.made => meta[call.dst] = [type |-> "file", obj |-> FALSE]
    BY <1>1 DEF DiskInv, DiskShape, CallShape
  <2>. QED
    BY <1>1, <2>1 DEF IsDir
<1>5. \A p \in Paths : Whole(p)
  BY <1>1, <1>4, WholeIdle DEF Bared
<1>6. \A p \in Paths : dir[p] => dir'[p]
  BY <1>1, <1>3 DEF EnsureDir, TypeOK
<1>7. \A p \in Paths : Whole(p)'
  BY <1>1, <1>5, <1>6, WholeAt
<1>8. call'.pc = "idle"
  BY <1>1, <1>3, AfterReturn DEF TypeOK
<1>. QED
  BY <1>1, <1>7, <1>8, WholeOver

LEMMA WholeOpenData ==
    ASSUME DiskInv, WholeYet, ~spoilt', NEW u \in Users, OpenData(u)
    PROVE  WholeElsewhere'
<1>. DEFINE id == <<"new", left + 1>>
<1>1. /\ call.pc = "open" /\ TypeOK /\ CallShape /\ call.dst \in Paths /\ IsFile(call.dst)
      /\ meta' = meta /\ dir' = dir /\ emptied' = {} /\ Return(FALSE) /\ left < MaxCalls
      /\ file' = IF file[call.dst] = NoData THEN [file EXCEPT ![call.dst] = id] ELSE file
  BY StepKind DEF DiskInv, WholeYet, OpenData, CallShape
<1>2. PICK x \in Paths : x = call.dst
  BY <1>1
<1>3. id # NoData
  <2>1. left + 1 \in 1..MaxCalls
    BY <1>1, DirectoriesAssumption DEF TypeOK
  <2>. QED
    BY <2>1, AbsenceAssumption DEF Ids
<1>4. file'[x] # NoData /\ \A p \in Paths : p # x => file'[p] = file[p]
  BY <1>1, <1>2, <1>3 DEF TypeOK
<1>5. ASSUME NEW p \in Paths, p # x
      PROVE  Whole(p)'
  <2>1. Whole(p)
    BY <1>1, <1>2, <1>5 DEF WholeYet
  <2>. QED
    BY <1>1, <1>4, <1>5, <2>1, WholeAt
<1>6. Whole(x)'
  BY <1>1, <1>2, <1>4, AbsenceAssumption DEF Whole, IsFile, IsDir, Exists
<1>7. call'.pc = "idle"
  BY <1>1, AfterReturn DEF TypeOK
<1>. QED
  BY <1>1, <1>5, <1>6, <1>7, WholeOver

LEMMA WholeOpenDataFails ==
    ASSUME DiskInv, WholeYet, ~spoilt', OpenDataFails
    PROVE  WholeElsewhere'
<1>. DEFINE b == Openable(call.dst)
<1>1. /\ call.pc = "open" /\ TypeOK /\ CallShape /\ call.dst \in Paths
      /\ meta' = meta /\ file' = file /\ dir' = dir /\ emptied' = {}
      /\ IF call.made THEN UndoAfter(b) ELSE Return(b)
  BY StepKind DEF DiskInv, WholeYet, OpenDataFails, disk
<1>2. b \in BOOLEAN
  BY DEF Openable
<1>3. ~b
  <2>. HIDE DEF b
  <2>. QED
    BY <1>1, <1>2, NoTrouble
<1>4. ~call.made
  <2>1. call.made => call.kind = "open" /\ "create" \in call.flags
    BY <1>1 DEF CallShape
  <2>2. call.made => meta[call.dst] = [type |-> "file", obj |-> FALSE]
    BY <1>1, <2>1 DEF DiskInv, DiskShape, CallShape
  <2>. QED
    BY <1>3, <2>1, <2>2 DEF Openable
<1>5. \A p \in Paths : Whole(p)
  BY <1>1, <1>4, WholeIdle DEF Bared
<1>6. \A p \in Paths : Whole(p)'
  BY <1>1, <1>5, WholeAt
<1>7. call'.pc = "idle"
  <2>. HIDE DEF b
  <2>. QED
    BY <1>1, <1>2, <1>4, AfterReturn DEF TypeOK
<1>. QED
  BY <1>1, <1>6, <1>7, WholeOver

LEMMA WholeDropData ==
    ASSUME DiskInv, WholeYet, ~spoilt', DropData
    PROVE  WholeElsewhere'
<1>1. /\ call.pc = "dropData" /\ TypeOK /\ CallShape /\ call.dst \in Paths
      /\ meta' = meta /\ emptied' = {} /\ ~Bared
  BY StepKind DEF DiskInv, WholeYet, DropData, Bared
<1>2. \A p \in Paths : Whole(p)
  BY <1>1, WholeIdle
<1>3. CASE Goto("dropMeta")
  <2>1. \A p \in Paths : p # call.dst => file'[p] = file[p] /\ dir'[p] = dir[p]
    BY <1>1 DEF DropData, TypeOK
  <2>2. \A p \in Paths : p # call.dst => Whole(p)'
    BY <1>1, <1>2, <2>1, WholeAt
  <2>3. call'.pc = "dropMeta" /\ call'.dst = call.dst
    BY <1>1, <1>3, AfterGoto DEF Steps, TypeOK
  <2>. QED
    BY <1>1, <2>2, <2>3 DEF WholeElsewhere, Bared
<1>4. CASE file' = file /\ dir' = dir /\ Return(Removable(call.dst))
  <2>. DEFINE b == Removable(call.dst)
  <2>1. b \in BOOLEAN
    <3>1. dir[call.dst] \in BOOLEAN
      BY <1>1 DEF TypeOK
    <3>. QED
      BY <3>1 DEF Removable
  <2>2. Return(b)
    BY <1>4
  <2>. HIDE DEF b
  <2>3. call'.pc = "idle"
    BY <1>1, <2>1, <2>2, AfterReturn DEF TypeOK
  <2>4. \A p \in Paths : Whole(p)'
    BY <1>1, <1>2, <1>4, WholeAt
  <2>. QED
    BY <1>1, <2>3, <2>4, WholeOver
<1>. QED
  BY <1>3, <1>4 DEF DropData

LEMMA WholeDropMeta ==
    ASSUME DiskInv, WholeYet, ~spoilt', DropMeta
    PROVE  WholeElsewhere'
<1>1. /\ call.pc = "dropMeta" /\ TypeOK /\ CallShape /\ call.dst \in Paths
      /\ file' = file /\ dir' = dir /\ emptied' = {}
  BY StepKind DEF DiskInv, WholeYet, DropMeta
<1>2. ~Return(TRUE)
  BY <1>1, NoTrouble
<1>3. /\ meta' = [meta EXCEPT ![call.dst] = NoMeta]
      /\ Return(FALSE) \/ Goto("truncate")
  BY <1>2 DEF DropMeta
<1>4. PICK x \in Paths : x = call.dst
  BY <1>1
<1>5. /\ meta'[x] = NoMeta
      /\ \A p \in Paths : p # x => meta'[p] = meta[p] /\ Whole(p)
  BY <1>1, <1>3, <1>4 DEF WholeYet, TypeOK
<1>6. \A p \in Paths : Whole(p)'
  BY <1>1, <1>5, WholeAt, WholeGone
<1>7. call'.pc \in {"idle", "truncate"}
  BY <1>1, <1>3, AfterReturn, AfterGoto DEF Steps, TypeOK
<1>. QED
  BY <1>1, <1>6, <1>7 DEF WholeElsewhere

LEMMA WholeMoveData ==
    ASSUME DiskInv, WholeYet, ~spoilt', MoveData
    PROVE  WholeElsewhere'
<1>1. /\ call.pc = "move" /\ call.kind = "rename" /\ Renaming /\ TypeOK /\ CallShape
      /\ call.src \in Paths /\ call.dst \in Paths /\ Apart(call.src, call.dst)
      /\ call.new \in Metas /\ meta[call.src] = call.new /\ meta[call.dst] = call.new
      /\ emptied = {}
  BY MoveCases, StepKind DEF DiskInv, CallShape, Renaming, DiskShape, WholeYet
<1>2. PICK s \in Paths, t \in Paths : s = call.src /\ t = call.dst
  BY <1>1
<1>3. /\ s \in Seq(Names) /\ t \in Seq(Names) /\ Apart(s, t) /\ s # t
      /\ AtOrBelow(s, s) /\ AtOrBelow(t, t)
  BY <1>1, <1>2, PathFacts DEF Apart
<1>4. \A p \in Paths : p # t => Whole(p)
  BY <1>1, <1>2 DEF WholeYet
<1>5. CASE (MovesFile \/ MovesDir) /\ Goto("finish")
  <2>1. call'.pc = "finish" /\ call'.src = s /\ call'.dst = t
    BY <1>1, <1>2, <1>5, AfterGoto DEF Steps, TypeOK
  <2>2. emptied' = {}
    BY <1>1, <1>5 DEF MovesFile, MovesDir
  <2>3. CASE MovesFile
    <3>1. /\ meta' = meta /\ dir' = dir /\ file'[t] # NoData
          /\ \A p \in Paths : p # s /\ p # t => file'[p] = file[p]
      BY <1>1, <1>2, <1>3, <2>3 DEF MovesFile, TypeOK
    <3>2. \A p \in Paths : p # s /\ p # t => Whole(p)'
      BY <1>4, <3>1, WholeAt
    <3>3. Whole(t)'
      BY <1>1, <1>2, <2>3, <3>1, AbsenceAssumption DEF Whole, IsFile, IsDir, Exists, MovesFile
    <3>. QED
      BY <2>1, <2>2, <3>2, <3>3 DEF WholeElsewhere
  <2>4. CASE MovesDir
    <3>1. Swapped(s, t)
      BY <1>1, <1>2, <2>4, SwapPoints
    <3>2. Whole(t)'
      <4>1. meta'[t] = call.new /\ dir'[t] = TRUE
        BY <1>1, <1>2, <3>1 DEF Swapped
      <4>. QED
        BY <1>1, <2>4, <4>1, AbsenceAssumption DEF Whole, IsFile, IsDir, Exists, MovesDir
    <3>3. ASSUME NEW p \in Paths, p # s, p # t
          PROVE  Whole(p)'
      <4>1. CASE ~AtOrBelow(p, s) /\ ~AtOrBelow(p, t)
        <5>1. meta'[p] = meta[p] /\ file'[p] = file[p] /\ dir'[p] = dir[p]
          BY <3>1, <4>1 DEF Swapped
        <5>. QED
          BY <1>4, <3>3, <5>1, WholeAt
      <4>2. CASE Below(p, s) \/ (Below(p, t) /\ MovedTo(p, s, t) \notin Paths)
        BY <3>1, <4>2, WholeGone DEF Swapped
      <4>3. CASE Below(p, t) /\ MovedTo(p, s, t) \in Paths
        <5>1. p \in Seq(Names) /\ AtOrBelow(p, t)
          BY <4>3, PathFacts DEF Below
        <5>2. AtOrBelow(MovedTo(p, s, t), s)
          BY <1>3, <5>1, Moved
        <5>3. MovedTo(p, s, t) # t
          BY <1>3, <5>2 DEF Apart
        <5>4. Whole(MovedTo(p, s, t))
          BY <1>4, <4>3, <5>3
        <5>5. /\ meta'[p] = meta[MovedTo(p, s, t)] /\ file'[p] = file[MovedTo(p, s, t)]
              /\ dir'[p] = dir[MovedTo(p, s, t)]
          BY <3>1, <4>3 DEF Swapped
        <5>. QED
          BY <5>4, <5>5 DEF Whole, IsFile, IsDir, Exists
      <4>. QED
        BY <3>3, <4>1, <4>2, <4>3 DEF Below
    <3>. QED
      BY <2>1, <2>2, <3>2, <3>3 DEF WholeElsewhere
  <2>. QED
    BY <1>5, <2>3, <2>4
<1>6. CASE /\ UNCHANGED <<meta, file, dir, handle, emptied>>
           /\ UndoAfter(Movable(call.src, call.dst))
  <2>. DEFINE b == Movable(call.src, call.dst)
  <2>1. b \in BOOLEAN
    <3>1. dir[call.src] \in BOOLEAN
      BY <1>1 DEF TypeOK
    <3>. QED
      BY <3>1 DEF Movable
  <2>2. UndoAfter(b)
    BY <1>6
  <2>. HIDE DEF b
  <2>3. call'.pc = "undo" /\ call'.dst = t
    BY <1>1, <1>2, <2>1, <2>2, AfterUndoAfter DEF TypeOK
  <2>4. \A p \in Paths : p # t => Whole(p)'
    BY <1>4, <1>6, WholeAt
  <2>. QED
    BY <1>1, <1>6, <2>3, <2>4 DEF WholeElsewhere, Bared
<1>. QED
  BY <1>5, <1>6, MoveCases

LEMMA WholeFinish ==
    ASSUME DiskInv, WholeYet, ~spoilt', Finish \/ Undo
    PROVE  WholeElsewhere'
<1>1. /\ TypeOK /\ CallShape /\ file' = file /\ dir' = dir /\ emptied' = {} /\ call.dst \in Paths
      /\ Finish => call.pc = "finish" /\ call.src \in Paths
      /\ Undo => call.pc = "undo"
  BY StepKind DEF DiskInv, WholeYet, Finish, Undo, CallShape
<1>2. ~Return(TRUE)
  BY <1>1, NoTrouble
<1>3. PICK x \in Paths : /\ meta' = [meta EXCEPT ![x] = NoMeta] /\ Return(FALSE)
                         /\ Finish => x = call.src
                         /\ Undo => x = call.dst
  <2>1. CASE Finish
    BY <1>1, <1>2, <2>1 DEF Finish, Undo
  <2>2. CASE Undo
    BY <1>1, <1>2, <2>2 DEF Finish, Undo
  <2>. QED
    BY <2>1, <2>2
<1>4. \A p \in Paths : p # x => meta'[p] = meta[p] /\ Whole(p)
  BY <1>1, <1>3 DEF WholeYet, TypeOK, Bared
<1>5. meta'[x] = NoMeta
  BY <1>1, <1>3 DEF TypeOK
<1>6. \A p \in Paths : Whole(p)'
  BY <1>1, <1>4, <1>5, WholeAt, WholeGone
<1>7. call'.pc = "idle"
  BY <1>1, <1>3, AfterReturn DEF TypeOK
<1>. QED
  BY <1>1, <1>6, <1>7, WholeOver

LEMMA WholeFrame ==
    ASSUME WholeYet, call' = call, meta' = meta, file' = file, dir' = dir, emptied' = emptied
    PROVE  WholeElsewhere'
<1>1. /\ Bared' <=> Bared
      /\ InPlace' <=> InPlace
  BY DEF Bared, InPlace
<1>2. \A p \in Paths : Whole(p) => Whole(p)'
  BY WholeAt
<1>. QED
  BY <1>1, <1>2 DEF WholeElsewhere, WholeYet

LEMMA WholeListDir ==
    ASSUME DiskInv, WholeYet, NEW p \in Paths, ListDir(p)
    PROVE  WholeElsewhere'
<1>1. /\ call.pc = "idle" /\ call' = call /\ TypeOK /\ CallShape /\ meta' = meta /\ file' = file
      /\ emptied' = {} /\ EnsureDir(p)
  BY DEF ListDir, DiskInv, WholeYet
<1>2. ~Bared
  BY <1>1, StepKind DEF Bared
<1>3. \A q \in Paths : Whole(q)
  BY <1>1, <1>2, WholeIdle
<1>4. \A q \in Paths : dir[q] => dir'[q]
  BY <1>1 DEF EnsureDir, TypeOK
<1>5. \A q \in Paths : Whole(q)'
  BY <1>1, <1>3, <1>4, WholeAt
<1>. QED
  BY <1>1, <1>5, WholeOver

LEMMA NextWhole ==
    ASSUME WholeInv, [Next]_vars
    PROVE  WholeInv'
<1>1. DataInv' /\ TypeOK /\ CallShape /\ DiskInv
  BY NextData DEF WholeInv, DataInv, DiskInv
<1>2. SUFFICES ASSUME ~spoilt'
               PROVE  WholeElsewhere'
  BY <1>1 DEF WholeInv, WholeElsewhere
<1>3. WholeYet
  BY <1>1, <1>2, LossStays DEF WholeInv, WholeElsewhere, WholeYet
<1>4. ASSUME NEW p \in Paths, CallOn(p)
      PROVE  WholeElsewhere'
  BY <1>1, <1>3, <1>4, WholeCallOn
<1>5. ASSUME SystemCall
      PROVE  WholeElsewhere'
  BY <1>1, <1>2, <1>3, <1>5, WholeTruncateMeta, WholeWriteMeta, WholeMakeData, WholeOpenDirectory,
     WholeOpenDataFails, WholeDropData, WholeDropMeta, WholeMoveData, WholeFinish, WholeOpenData
     DEF SystemCall
<1>6. ASSUME NEW u \in Users, Close(u) \/ Unlock(u) \/ \E p \in Paths : TryLock(u, p)
      PROVE  WholeElsewhere'
  BY <1>3, <1>6, WholeFrame DEF Close, Unlock, TryLock, disk
<1>7. ASSUME UNCHANGED vars
      PROVE  WholeElsewhere'
  BY <1>3, <1>7, WholeFrame DEF vars
<1>8. ~Crash
  BY <1>1, <1>2, NoTrouble DEF Crash
<1>. QED
  BY <1>1, <1>3, <1>4, <1>5, <1>6, <1>7, <1>8, WholeListDir DEF Next, Quiet

LEMMA InitWhole ==
    ASSUME Init
    PROVE  WholeInv
<1>1. DataInv /\ call.pc = "idle" /\ emptied = {}
  BY InitData, IdleIs DEF Init
<1>2. ASSUME NEW p \in Paths
      PROVE  Whole(p)
  <2>1. meta[p] # TornMeta
    <3>1. meta[p] = NoMeta \/ meta[p] \in Metas
      <4>1. /\ [type |-> "dir", obj |-> FALSE] \in Metas /\ [type |-> "file", obj |-> FALSE] \in Metas
            /\ [type |-> "file", obj |-> TRUE] \in Metas
        BY DEF Metas
      <4>. QED
        BY <4>1 DEF Init
    <3>. QED
      BY <3>1, AbsenceAssumption
  <2>2. IsDir(p) => dir[p]
    BY DEF Init
  <2>3. IsFile(p) => file[p] # NoData \/ meta[p].obj
    <3>1. <<"old", p>> # NoData
      BY AbsenceAssumption DEF Ids
    <3>. QED
      BY <3>1 DEF Init
  <2>. QED
    BY <2>1, <2>2, <2>3 DEF Whole
<1>. QED
  BY <1>1, <1>2 DEF WholeInv, WholeElsewhere

\* While nothing has failed, what has metadata has its data, once.
THEOREM TreesStayWhole == Spec => []WholeUntilSpoilt
<1>1. Init => WholeInv
  BY InitWhole
<1>2. WholeInv /\ [Next]_vars => WholeInv'
  BY NextWhole
<1>3. WholeInv => WholeUntilSpoilt
  <2>1. ASSUME WholeInv, call.pc = "idle", ~spoilt, NEW p \in Paths
        PROVE  Whole(p) /\ \A q \in Paths \ {p} : file[p] # NoData => file[p] # file[q]
    <3>1. ~Bared
      BY <2>1, StepKind DEF WholeInv, DataInv, DiskInv, Bared
    <3>. QED
      BY <2>1, <3>1 DEF WholeInv, WholeElsewhere, DataInv, DataUnique
  <2>. QED
    BY <2>1 DEF WholeUntilSpoilt, Whole
<1>. QED
  BY <1>1, <1>2, <1>3, PTL DEF Spec

-----------------------------------------------------------------------------
\* What the tree is, to a call under way.
LEMMA ViewAt ==
    ASSUME NEW p \in Paths
    PROVE  View[p] = Shown(meta[p], file[p]) /\ View'[p] = Shown(meta'[p], file'[p])
BY DEF View

LEMMA ShownIs ==
    ASSUME NEW m, NEW d \in Ids \union {NoData}
    PROVE  /\ m \notin Metas <=> Shown(m, d) = Nothing
           /\ m \in Metas /\ m.type = "dir" <=> Shown(m, d) = Dir
           /\ m \in Metas /\ m.type = "file" =>
                 /\ Shown(m, d) = [obj |-> m.obj, data |-> d] /\ Shown(m, d) \notin {Nothing, Dir}
                 /\ Shown(m, d).obj = m.obj /\ Shown(m, d).data = d
<1>1. m \in Metas => m.type \in {"dir", "file"} /\ m.obj \in BOOLEAN
  BY DEF Metas
<1>2. m \in Metas => [obj |-> m.obj, data |-> d] \in [obj : BOOLEAN, data : Ids \union {NoData}]
  BY <1>1
<1>3. m \in Metas => [obj |-> m.obj, data |-> d] \notin {Nothing, Dir}
  BY <1>2, AbsenceAssumption
<1>. QED
  BY <1>1, <1>3, AbsenceAssumption DEF Shown

\* What is seen at a path, between two calls.
LEMMA Seen ==
    ASSUME TypeOK, NEW p \in Paths
    PROVE  /\ ~Exists(p) <=> View[p] = Nothing
           /\ IsDir(p) <=> View[p] = Dir
           /\ IsFile(p) <=> View[p] \notin {Nothing, Dir}
           /\ IsFile(p) => /\ View[p] = [obj |-> meta[p].obj, data |-> file[p]]
                           /\ View[p].obj = meta[p].obj /\ View[p].data = file[p]
<1>1. file[p] \in Ids \union {NoData}
  BY DEF TypeOK
<1>2. meta[p] \in Metas => meta[p].type \in {"dir", "file"}
  BY DEF Metas
<1>. QED
  BY <1>1, <1>2, ViewAt, ShownIs DEF Exists, IsDir, IsFile

LEMMA SameView ==
    ASSUME meta' = meta, file' = file
    PROVE  View' = View
BY DEF View

LEMMA ViewElsewhere ==
    ASSUME NEW x, \A p \in Paths \ {x} : meta'[p] = meta[p] /\ file'[p] = file[p]
    PROVE  \A p \in Paths \ {x} : View'[p] = View[p]
BY ViewAt

LEMMA TreeOver ==
    ASSUME call'.pc = "idle", call'.kind = "none", call'.made = FALSE, tree' = View'
    PROVE  TreeShape'
BY DEF TreeShape, InPlace, Renaming

LEMMA TreeReturn ==
    ASSUME TypeOK, NEW b \in BOOLEAN, Return(b)
    PROVE  TreeShape'
<1>1. call'.pc = "idle" /\ call'.kind = "none" /\ call'.made = FALSE /\ tree' = View'
  BY AfterReturn DEF TypeOK
<1>. QED
  BY <1>1, TreeOver

\* A call goes on that has changed the disk at call.dst at most.
LEMMA TreeGoesOn ==
    ASSUME TreeShape, call.pc \notin {"idle", "finish"},
           tree' = tree, call'.kind = call.kind, call'.src = call.src, call'.dst = call.dst,
           call'.new = call.new, call'.made <=> call.made,
           call'.pc \notin {"idle", "finish", "dropData"},
           call'.pc = "open" => call.made,
           \A p \in Paths \ {call.dst} : View'[p] = View[p],
           InPlace => file'[call.dst] = file[call.dst],
           call.kind = "remove" => Deletable(call.dst),
           Renaming => tree[call.dst] = Nothing \/ HasData(call.dst),
           call'.pc = "undo" /\ ~call'.cut => call.kind # "open" /\ (Renaming => ~HasData(call.src))
    PROVE  TreeShape'
<1>1. /\ InPlace' <=> InPlace
      /\ Renaming' <=> Renaming
  BY DEF InPlace, Renaming
<1>2. \A p : /\ HasData(p)' <=> HasData(p)
             /\ Deletable(p)' <=> Deletable(p)
  BY DEF HasData, Deletable
<1>3. /\ HasData(call.dst)' <=> HasData(call.dst)
      /\ HasData(call.src)' <=> HasData(call.src)
      /\ Deletable(call.dst)' <=> Deletable(call.dst)
  BY DEF HasData, Deletable
<1>4. \A p \in Paths \ {call'.dst} : tree'[p] = View'[p]
  BY DEF TreeShape
<1>5. InPlace' => tree'[call'.dst] = Shown(call'.new, file'[call'.dst])
  BY <1>1 DEF TreeShape
<1>6. /\ call'.kind = "mkdir" \/ call'.made => tree'[call'.dst] = Nothing
      /\ (call'.kind = "mkdir" \/ call'.made \/ Renaming') /\ Parent(call'.dst) # Root =>
            tree'[Parent(call'.dst)] = Dir
      /\ call'.kind = "remove" => tree'[call'.dst] # Nothing
  BY <1>1 DEF TreeShape
<1>7. Renaming' => tree'[call'.src] # Nothing
  BY <1>1 DEF TreeShape
<1>. QED
  BY <1>1, <1>3, <1>4, <1>5, <1>6, <1>7 DEF TreeShape

\* A call begins with the tree as it is seen.
LEMMA TreeStarts ==
    ASSUME TypeOK, TreeShape, Started, meta' = meta, file' = file
    PROVE  /\ tree = View /\ tree' = View' /\ View' = View /\ tree' = tree
           /\ call'.pc \notin {"idle", "finish", "undo", "dropMeta"} /\ ~InPlace'
              /\ (call'.pc = "open" => ~call'.made)
              /\ (call'.kind = "mkdir" \/ call'.made => ~Exists(call'.dst) /\ call'.dst \in Paths)
              /\ (call'.kind = "mkdir" \/ call'.made \/ Renaming' =>
                     IsParent(Parent(call'.dst)) /\ call'.dst \in Paths)
              /\ (call'.kind = "remove" => Exists(call'.dst) /\ call'.dst \in Paths)
              /\ (Renaming' => Exists(call'.src) /\ call'.src \in Paths
                               /\ (call'.pc = "truncate" => ~Exists(call'.dst)) /\ call'.dst \in Paths
                               /\ call'.pc \in {"truncate", "dropData"})
              => TreeShape'
<1>1. tree = View /\ tree' = View' /\ View' = View /\ tree' = tree
  BY SameView DEF TreeShape, Started
<1>2. ASSUME /\ call'.pc \notin {"idle", "finish", "undo", "dropMeta"} /\ ~InPlace'
             /\ (call'.pc = "open" => ~call'.made)
             /\ (call'.kind = "mkdir" \/ call'.made => ~Exists(call'.dst) /\ call'.dst \in Paths)
             /\ (call'.kind = "mkdir" \/ call'.made \/ Renaming' =>
                     IsParent(Parent(call'.dst)) /\ call'.dst \in Paths)
             /\ (call'.kind = "remove" => Exists(call'.dst) /\ call'.dst \in Paths)
             /\ (Renaming' => Exists(call'.src) /\ call'.src \in Paths
                               /\ (call'.pc = "truncate" => ~Exists(call'.dst)) /\ call'.dst \in Paths
                               /\ call'.pc \in {"truncate", "dropData"})
      PROVE  TreeShape'
  <2>1. call'.kind = "mkdir" \/ call'.made => tree'[call'.dst] = Nothing
    BY <1>1, <1>2, Seen
  <2>2. (call'.kind = "mkdir" \/ call'.made \/ Renaming') /\ Parent(call'.dst) # Root =>
            tree'[Parent(call'.dst)] = Dir
    <3>1. ASSUME call'.kind = "mkdir" \/ call'.made \/ Renaming', Parent(call'.dst) # Root
          PROVE  tree'[Parent(call'.dst)] = Dir
      <4>1. PICK q : q = Parent(call'.dst)
        OBVIOUS
      <4>2. q \in Paths /\ IsDir(q)
        BY <1>2, <3>1, <4>1, PathFacts DEF IsParent
      <4>3. View[q] = Dir
        BY <4>2, Seen
      <4>4. tree'[q] = Dir
        BY <1>1, <4>3
      <4>. QED
        BY <4>1, <4>4
    <3>. QED
      BY <3>1
  <2>3. call'.kind = "remove" => tree'[call'.dst] # Nothing
    BY <1>1, <1>2, Seen
  <2>4. Renaming' => /\ tree'[call'.src] # Nothing
                     /\ call'.pc # "dropData" => tree'[call'.dst] = Nothing
    BY <1>1, <1>2, Seen
  <2>. QED
    BY <1>1, <1>2, <2>1, <2>2, <2>3, <2>4 DEF TreeShape
<1>. QED
  BY <1>1, <1>2

LEMMA TreeCallOn ==
    ASSUME TypeOK, TreeShape, NEW p \in Paths, CallOn(p)
    PROVE  TreeShape'
<1>1. ASSUME MkdirCall(p)
      PROVE  TreeShape'
  <2>1. /\ Started /\ call'.pc = "truncate" /\ call'.kind = "mkdir" /\ call'.dst = p
        /\ call'.made = FALSE /\ ~Exists(p) /\ IsParent(Parent(p)) /\ meta' = meta /\ file' = file
    BY <1>1, AfterMkdirCall
  <2>. QED
    BY <2>1, TreeStarts DEF InPlace, Renaming
<1>2. ASSUME RemoveCall(p)
      PROVE  TreeShape'
  <2>1. /\ Started /\ call'.pc = "dropData" /\ call'.kind = "remove" /\ call'.dst = p
        /\ call'.made = FALSE /\ Exists(p) /\ meta' = meta /\ file' = file
    BY <1>2, AfterRemoveCall
  <2>. QED
    BY <2>1, TreeStarts DEF InPlace, Renaming
<1>3. ASSUME NEW t \in Paths, RenameCall(p, t)
      PROVE  TreeShape'
  <2>1. /\ Started /\ call'.pc = (IF Exists(t) THEN "dropData" ELSE "truncate")
        /\ call'.kind = "rename" /\ call'.src = p /\ call'.dst = t
        /\ call'.made = FALSE /\ Exists(p) /\ IsParent(Parent(t)) /\ Apart(p, t)
        /\ meta' = meta /\ file' = file
    BY <1>3, AfterRenameCall
  <2>2. ~InPlace'
    BY <2>1, PathFacts DEF InPlace, Apart
  <2>3. call'.pc \in {"truncate", "dropData"} /\ (call'.pc = "truncate" => ~Exists(t))
    BY <2>1
  <2>. QED
    BY <2>1, <2>2, <2>3, TreeStarts
<1>4. ASSUME NEW f \in OpenFlags, OpenCall(p, f)
      PROVE  TreeShape'
  <2>. DEFINE made == "create" \in f /\ meta[p] = NoMeta
  <2>0. made \in BOOLEAN /\ made = ("create" \in f /\ meta[p] = NoMeta)
    OBVIOUS
  <2>4. made => ~Exists(p)
    BY AbsenceAssumption DEF Exists
  <2>. HIDE DEF made
  <2>1. /\ Started /\ call'.pc = (IF made THEN "truncate" ELSE "open")
        /\ call'.kind = "open" /\ call'.dst = p /\ (call'.made <=> made)
        /\ IsParent(Parent(p)) /\ meta' = meta /\ file' = file
    BY <1>4, <2>0, AfterOpenCall
  <2>2. call'.pc \in {"truncate", "open"} /\ (call'.pc = "open" => ~call'.made)
    BY <2>1
  <2>. QED
    BY <2>1, <2>2, <2>4, TreeStarts DEF InPlace, Renaming
<1>5. ASSUME RenameInPlace(p)
      PROVE  TreeShape'
  <2>1. /\ Started /\ call'.pc = "truncate" /\ call'.kind = "rename" /\ call'.src = p
        /\ call'.dst = p /\ call'.new = meta[p] /\ call'.made = FALSE
        /\ meta' = meta /\ file' = file
    BY <1>5, AfterRenameInPlace
  <2>2. tree = View /\ View' = View /\ tree' = tree
    BY <2>1, TreeStarts
  <2>3. InPlace' /\ ~Renaming'
    BY <2>1 DEF InPlace, Renaming
  <2>4. tree'[p] = Shown(call'.new, file'[p])
    BY <2>1, <2>2, ViewAt
  <2>. QED
    BY <2>1, <2>2, <2>3, <2>4 DEF TreeShape
<1>. QED
  BY <1>1, <1>2, <1>3, <1>4, <1>5 DEF CallOn

LEMMA TreeTruncateMeta ==
    ASSUME DiskInv, TreeShape, TruncateMeta
    PROVE  TreeShape'
<1>1. /\ call.pc = "truncate" /\ TypeOK /\ CallShape /\ file' = file
      /\ call.kind # "remove"
  BY StepKind DEF DiskInv, TruncateMeta
<1>2. CASE Return(TRUE)
  BY <1>1, <1>2, TreeReturn
<1>3. CASE meta' = [meta EXCEPT ![call.dst] = TornMeta] /\ Goto("write")
  <2>1. /\ call'.pc = "write" /\ tree' = tree /\ call'.kind = call.kind /\ call'.src = call.src
        /\ call'.dst = call.dst /\ call'.new = call.new /\ call'.made = call.made
    BY <1>1, <1>3, AfterGoto DEF Steps, TypeOK
  <2>2. \A p \in Paths \ {call.dst} : View'[p] = View[p]
    BY <1>1, <1>3, ViewElsewhere DEF TypeOK
  <2>3. Renaming => tree[call.dst] = Nothing \/ HasData(call.dst)
    BY <1>1 DEF TreeShape
  <2>. QED
    BY <1>1, <2>1, <2>2, <2>3, TreeGoesOn
<1>. QED
  BY <1>2, <1>3 DEF TruncateMeta

LEMMA TreeWriteMeta ==
    ASSUME DiskInv, TreeShape, WriteMeta
    PROVE  TreeShape'
<1>1. /\ call.pc = "write" /\ TypeOK /\ CallShape /\ file' = file
      /\ call.kind \in {"mkdir", "open", "rename"} /\ (call.kind = "open" => call.made)
  BY StepKind DEF DiskInv, WriteMeta, CallShape
<1>2. CASE Return(TRUE) \/ Return(FALSE)
  BY <1>1, <1>2, TreeReturn
<1>3. CASE ~(Return(TRUE) \/ Return(FALSE))
  <2>. DEFINE y == IF call.kind = "rename" THEN "move" ELSE call.kind
  <2>1. /\ y \in Steps /\ y \in {"mkdir", "open", "move"} /\ (y = "open" => call.made) /\ Goto(y)
        /\ meta' = [meta EXCEPT ![call.dst] = call.new]
    BY <1>1, <1>3 DEF WriteMeta, Steps
  <2>. HIDE DEF y
  <2>2. /\ call'.pc = y /\ tree' = tree /\ call'.kind = call.kind /\ call'.src = call.src
        /\ call'.dst = call.dst /\ call'.new = call.new /\ call'.made = call.made
    BY <1>1, <2>1, AfterGoto DEF TypeOK
  <2>3. \A p \in Paths \ {call.dst} : View'[p] = View[p]
    BY <1>1, <2>1, ViewElsewhere DEF TypeOK
  <2>4. Renaming => tree[call.dst] = Nothing \/ HasData(call.dst)
    BY <1>1 DEF TreeShape
  <2>. QED
    BY <1>1, <2>1, <2>2, <2>3, <2>4, TreeGoesOn
<1>. QED
  BY <1>2, <1>3

\* The call goes on to remove what it has made, with the disk as it is.
LEMMA TreeUndoAfter ==
    ASSUME DiskInv, TreeShape, call.pc \notin {"idle", "finish", "dropData"},
           call.kind # "remove", NEW b \in BOOLEAN, UndoAfter(b), meta' = meta, file' = file,
           ~b => call.kind # "open" /\ (Renaming => ~HasData(call.src))
    PROVE  TreeShape'
<1>1. /\ call'.pc = "undo" /\ (call'.cut <=> call.cut \/ b)
      /\ tree' = tree /\ call'.kind = call.kind /\ call'.src = call.src
      /\ call'.dst = call.dst /\ call'.new = call.new /\ call'.made = call.made
  BY AfterUndoAfter DEF DiskInv, TypeOK
<1>2. View' = View
  BY SameView
<1>3. Renaming => tree[call.dst] = Nothing \/ HasData(call.dst)
  BY DEF TreeShape
<1>. QED
  BY <1>1, <1>2, <1>3, TreeGoesOn

LEMMA TreeMakeData ==
    ASSUME DiskInv, TreeShape, MakeData
    PROVE  TreeShape'
<1>1. /\ call.pc = "mkdir" /\ call.kind = "mkdir" /\ TypeOK /\ CallShape /\ call.dst \in Paths
      /\ meta' = meta /\ file' = file
  BY StepKind DEF DiskInv, MakeData
<1>2. CASE Return(FALSE)
  BY <1>1, <1>2, TreeReturn
<1>3. CASE UndoAfter(~dir[call.dst])
  <2>. DEFINE b == ~dir[call.dst]
  <2>1. b \in BOOLEAN /\ UndoAfter(b)
    BY <1>3
  <2>. HIDE DEF b
  <2>2. ~Renaming
    BY <1>1 DEF Renaming
  <2>. QED
    BY <1>1, <2>1, <2>2, TreeUndoAfter
<1>. QED
  BY <1>2, <1>3 DEF MakeData

\* OpenFile of what it has made itself fails only when os.OpenFile does.
LEMMA MadeOpens ==
    ASSUME DiskInv, call.pc = "open", call.made
    PROVE  /\ call.kind = "open" /\ meta[call.dst] = [type |-> "file", obj |-> FALSE]
           /\ meta[call.dst] \in Metas /\ Openable(call.dst) /\ call.dst \in Paths
<1>1. call.kind = "open" /\ "create" \in call.flags /\ call.new = [type |-> "file", obj |-> FALSE]
      /\ call.dst \in Paths
  BY DEF DiskInv, CallShape
<1>2. meta[call.dst] = [type |-> "file", obj |-> FALSE]
  BY <1>1 DEF DiskInv, DiskShape
<1>3. [type |-> "file", obj |-> FALSE] \in Metas
  BY DEF Metas
<1>. QED
  BY <1>1, <1>2, <1>3 DEF Openable

LEMMA TreeOpenDataFails ==
    ASSUME DiskInv, TreeShape, OpenDataFails
    PROVE  TreeShape'
<1>. DEFINE b == Openable(call.dst)
<1>1. /\ call.pc = "open" /\ call.kind = "open" /\ TypeOK /\ CallShape
      /\ meta' = meta /\ file' = file /\ b \in BOOLEAN
      /\ IF call.made THEN UndoAfter(b) ELSE Return(b)
  BY StepKind DEF DiskInv, OpenDataFails, disk, Openable
<1>2. call.made => b
  BY <1>1, MadeOpens
<1>3. ~Renaming
  BY <1>1 DEF Renaming
<1>. HIDE DEF b
<1>4. CASE call.made
  BY <1>1, <1>2, <1>3, <1>4, TreeUndoAfter
<1>5. CASE ~call.made
  BY <1>1, <1>5, TreeReturn
<1>. QED
  BY <1>4, <1>5

LEMMA TreeDropData ==
    ASSUME DiskInv, TreeShape, DropData
    PROVE  TreeShape'
<1>1. /\ call.pc = "dropData" /\ TypeOK /\ CallShape /\ call.dst \in Paths /\ meta' = meta
      /\ call.kind \in {"remove", "rename"} /\ ~InPlace
      /\ Exists(call.dst) /\ (Renaming => IsFile(call.dst))
  BY StepKind DEF DiskInv, DropData, CallShape, DiskShape
<1>2. CASE file' = file /\ dir' = dir /\ Return(Removable(call.dst))
  <2>. DEFINE b == Removable(call.dst)
  <2>1. b \in BOOLEAN
    <3>1. dir[call.dst] \in BOOLEAN
      BY <1>1 DEF TypeOK
    <3>. QED
      BY <3>1 DEF Removable
  <2>2. Return(b)
    BY <1>2
  <2>. HIDE DEF b
  <2>. QED
    BY <1>1, <2>1, <2>2, TreeReturn
<1>3. CASE /\ Removable(call.dst) /\ Goto("dropMeta")
           /\ file' = IF IsDir(call.dst) THEN file ELSE [file EXCEPT ![call.dst] = NoData]
  <2>1. /\ call'.pc = "dropMeta" /\ tree' = tree /\ call'.kind = call.kind /\ call'.src = call.src
        /\ call'.dst = call.dst /\ call'.new = call.new /\ call'.made = call.made
    BY <1>1, <1>3, AfterGoto DEF Steps, TypeOK
  <2>2. \A p \in Paths \ {call.dst} : View'[p] = View[p]
    BY <1>1, <1>3, ViewElsewhere DEF TypeOK
  <2>3. PICK x \in Paths : x = call.dst
    BY <1>1
  <2>4. tree[x] = View[x] /\ \A p \in Paths \ {x} : tree[p] = View[p]
    BY <1>1, <2>3 DEF TreeShape
  <2>5. IsFile(x) => file[x] # NoData
    BY <1>3, <2>3 DEF Removable, IsFile, IsDir
  <2>6. IsFile(x) => HasData(x)
    BY <1>1, <2>4, <2>5, Seen DEF HasData
  <2>7. IsFile(x) \/ IsDir(x)
    BY <1>1, <2>3 DEF IsFile, IsDir, Exists, Metas
  <2>8. tree[x] = Dir => \A q \in Paths : Below(q, x) => tree[q] = Nothing
    <3>1. ASSUME tree[x] = Dir, NEW q \in Paths, Below(q, x)
          PROVE  tree[q] = Nothing
      <4>1. EmptyDir(x)
        BY <1>1, <1>3, <2>3, <2>4, <3>1, Seen DEF Removable
      <4>2. ~Exists(q)
        BY <3>1, <4>1, AbsenceAssumption DEF EmptyDir, Vacant, Exists
      <4>. QED
        BY <1>1, <2>4, <3>1, <4>2, Seen DEF Below
    <3>. QED
      BY <3>1
  <2>9. Deletable(x)
    BY <1>1, <2>4, <2>6, <2>7, <2>8, Seen DEF Deletable
  <2>10. Renaming => HasData(call.dst)
    BY <1>1, <2>3, <2>6
  <2>. QED
    BY <1>1, <2>1, <2>2, <2>3, <2>9, <2>10, TreeGoesOn
<1>. QED
  BY <1>2, <1>3 DEF DropData

LEMMA TreeDropMeta ==
    ASSUME DiskInv, TreeShape, DropMeta
    PROVE  TreeShape'
<1>1. /\ call.pc = "dropMeta" /\ TypeOK /\ CallShape /\ file' = file /\ ~InPlace
  BY DEF DiskInv, DropMeta, CallShape
<1>2. CASE Return(TRUE) \/ Return(FALSE)
  BY <1>1, <1>2, TreeReturn
<1>3. CASE ~(Return(TRUE) \/ Return(FALSE))
  <2>1. meta' = [meta EXCEPT ![call.dst] = NoMeta] /\ call.kind # "remove" /\ Goto("truncate")
    BY <1>3 DEF DropMeta
  <2>2. /\ call'.pc = "truncate" /\ tree' = tree /\ call'.kind = call.kind /\ call'.src = call.src
        /\ call'.dst = call.dst /\ call'.new = call.new /\ call'.made = call.made
    BY <1>1, <2>1, AfterGoto DEF Steps, TypeOK
  <2>3. \A p \in Paths \ {call.dst} : View'[p] = View[p]
    BY <1>1, <2>1, ViewElsewhere DEF TypeOK
  <2>4. Renaming => tree[call.dst] = Nothing \/ HasData(call.dst)
    BY <1>1 DEF TreeShape
  <2>. QED
    BY <1>1, <2>1, <2>2, <2>3, <2>4, TreeGoesOn
<1>. QED
  BY <1>2, <1>3

\* What is seen once the data has been moved.
LEMMA TreeMoveData ==
    ASSUME DiskInv, TreeShape, MoveData
    PROVE  TreeShape'
<1>1. /\ call.pc = "move" /\ call.kind = "rename" /\ Renaming /\ TypeOK /\ CallShape
      /\ call.src \in Paths /\ call.dst \in Paths /\ Apart(call.src, call.dst)
      /\ call.new \in Metas /\ meta[call.src] = call.new /\ meta[call.dst] = call.new
  BY MoveCases, StepKind DEF DiskInv, CallShape, Renaming, DiskShape
<1>2. PICK s \in Paths, t \in Paths : s = call.src /\ t = call.dst
  BY <1>1
<1>3. /\ s \in Seq(Names) /\ t \in Seq(Names) /\ Apart(s, t) /\ s # t
      /\ AtOrBelow(s, s) /\ AtOrBelow(t, t) /\ ~AtOrBelow(s, t) /\ ~AtOrBelow(t, s)
  BY <1>1, <1>2, PathFacts DEF Apart
<1>4. /\ \A p \in Paths \ {t} : tree[p] = View[p]
      /\ tree[s] = View[s]
  BY <1>1, <1>2, <1>3 DEF TreeShape
<1>5. call.new.type \in {"dir", "file"} /\ meta[s] = call.new /\ meta[t] = call.new
  BY <1>1, <1>2 DEF Metas
<1>6. Reroot(t, t, s) = s
  BY <1>3, RerootTop
<1>7. CASE (MovesFile \/ MovesDir) /\ Goto("finish")
  <2>1. /\ call'.pc = "finish" /\ call'.src = s /\ call'.dst = t /\ call'.kind = "rename"
        /\ call'.new = call.new /\ call'.made = call.made /\ tree' = tree
    BY <1>1, <1>2, <1>7, AfterGoto DEF Steps, TypeOK
  <2>2. ASSUME tree[s] = Dir \/ HasData(s), \A p \in Paths \ {s} : View'[p] = MovedEntry(p)
        PROVE  TreeShape'
    <3>1. ~InPlace' /\ Renaming'
      BY <1>3, <2>1 DEF InPlace, Renaming
    <3>2. tree'[s] = Dir \/ HasData(s)'
      BY <2>1, <2>2 DEF HasData
    <3>3. HasData(call.src)' <=> HasData(s)'
      BY <2>1 DEF HasData
    <3>4. \A p : MovedEntry(p)' = MovedEntry(p)
      BY <1>2, <2>1 DEF MovedEntry, Along
    <3>5. tree[t] = Nothing \/ HasData(call.dst)
      BY <1>1, <1>2 DEF TreeShape
    <3>6. tree'[t] = Nothing \/ HasData(call.dst)'
      BY <1>2, <2>1, <3>5 DEF HasData
    <3>7. tree[s] # Nothing /\ (Parent(t) # Root => tree[Parent(t)] = Dir)
      BY <1>1, <1>2 DEF TreeShape
    <3>8. call'.made => tree'[call'.dst] = Nothing
      BY <1>2, <2>1 DEF TreeShape
    <3>. QED
      BY <2>1, <2>2, <3>1, <3>2, <3>3, <3>4, <3>6, <3>7, <3>8 DEF TreeShape
  <2>3. CASE MovesFile
    <3>1. /\ call.new.type = "file" /\ file[s] # NoData /\ meta' = meta
          /\ file' = [file EXCEPT ![t] = file[s], ![s] = NoData]
      BY <1>2, <2>3 DEF MovesFile
    <3>2. file'[t] = file[s] /\ \A p \in Paths : p # s /\ p # t => file'[p] = file[p]
      BY <1>1, <1>3, <3>1 DEF TypeOK
    <3>3. IsFile(s)
      BY <1>1, <1>5, <3>1 DEF IsFile, Exists
    <3>4. HasData(s) /\ tree[s] # Dir
      BY <1>1, <1>4, <3>1, <3>3, Seen DEF HasData
    <3>5. View'[t] = MovedEntry(t)
      <4>1. MovedEntry(t) = tree[s]
        BY <1>2, <1>6, <3>4 DEF MovedEntry, Along
      <4>2. View'[t] = View[s]
        <5>1. View'[t] = Shown(meta'[t], file'[t]) /\ View[s] = Shown(meta[s], file[s])
          BY ViewAt
        <5>2. meta'[t] = meta[s] /\ file'[t] = file[s]
          BY <1>5, <3>1, <3>2
        <5>. QED
          BY <5>1, <5>2
      <4>. QED
        BY <1>4, <4>1, <4>2
    <3>6. ASSUME NEW p \in Paths, p # s, p # t
          PROVE  View'[p] = MovedEntry(p)
      <4>1. MovedEntry(p) = tree[p]
        BY <1>2, <3>4, <3>6 DEF MovedEntry, Along
      <4>2. View'[p] = View[p]
        BY <3>1, <3>2, <3>6, ViewAt
      <4>. QED
        BY <1>4, <3>6, <4>1, <4>2
    <3>. QED
      BY <2>2, <3>4, <3>5, <3>6
  <2>4. CASE MovesDir
    <3>1. Swapped(s, t)
      BY <1>1, <1>2, <2>4, SwapPoints
    <3>2. IsDir(s)
      BY <1>1, <1>5, <2>4 DEF MovesDir, IsDir, Exists
    <3>3. tree[s] = Dir
      BY <1>1, <1>4, <3>2, Seen
    <3>4. \A p : /\ Along(p, t) <=> AtOrBelow(p, t)
                 /\ Along(p, s) <=> AtOrBelow(p, s)
      BY <1>2, <3>3 DEF Along
    <3>5. View'[t] = MovedEntry(t)
      <4>1. MovedEntry(t) = Dir
        BY <1>2, <1>3, <1>6, <3>3, <3>4 DEF MovedEntry
      <4>2. meta'[t] = call.new
        BY <1>5, <3>1 DEF Swapped
      <4>. QED
        BY <1>1, <2>4, <4>1, <4>2, <1>5, ViewAt DEF Shown, MovesDir
    <3>6. ASSUME NEW p \in Paths, p # s, p # t
          PROVE  View'[p] = MovedEntry(p)
      <4>0. p \in Seq(Names)
        BY PathFacts
      <4>1. CASE ~AtOrBelow(p, s) /\ ~AtOrBelow(p, t)
        <5>1. MovedEntry(p) = tree[p]
          BY <1>2, <3>4, <4>1 DEF MovedEntry
        <5>2. meta'[p] = meta[p] /\ file'[p] = file[p]
          BY <3>1, <4>1 DEF Swapped
        <5>. QED
          BY <1>4, <3>6, <5>1, <5>2, ViewAt
      <4>2. CASE AtOrBelow(p, s)
        <5>1. ~AtOrBelow(p, t)
          BY <1>3, <4>0, <4>2, Moved
        <5>2. MovedEntry(p) = Nothing
          BY <1>2, <3>4, <4>2, <5>1 DEF MovedEntry
        <5>3. meta'[p] = NoMeta
          BY <3>1, <3>6, <4>2 DEF Swapped, Below
        <5>. QED
          BY <5>2, <5>3, ViewAt, AbsenceAssumption DEF Shown
      <4>3. CASE AtOrBelow(p, t)
        <5>1. ~AtOrBelow(p, s)
          BY <1>3, <4>0, <4>3, Moved
        <5>2. PICK q : q = MovedTo(p, s, t)
          OBVIOUS
        <5>3. q = Reroot(p, t, s)
          BY <4>3, <5>1, <5>2 DEF MovedTo
        <5>4. MovedEntry(p) = IF q \in Paths THEN tree[q] ELSE Nothing
          BY <1>2, <3>4, <4>3, <5>3 DEF MovedEntry
        <5>5. CASE q \in Paths
          <6>1. AtOrBelow(q, s)
            BY <1>3, <4>0, <4>3, <5>2, Moved
          <6>2. q # t
            BY <1>3, <6>1
          <6>3. meta'[p] = meta[q] /\ file'[p] = file[q]
            BY <3>1, <3>6, <4>3, <5>2, <5>5 DEF Swapped, Below
          <6>. QED
            BY <1>4, <5>4, <5>5, <6>2, <6>3, ViewAt
        <5>6. CASE q \notin Paths
          <6>1. meta'[p] = NoMeta
            BY <3>1, <3>6, <4>3, <5>2, <5>6 DEF Swapped, Below
          <6>. QED
            BY <5>4, <5>6, <6>1, ViewAt, AbsenceAssumption DEF Shown
        <5>. QED
          BY <5>5, <5>6
      <4>. QED
        BY <4>1, <4>2, <4>3
    <3>. QED
      BY <2>2, <3>3, <3>5, <3>6
  <2>. QED
    BY <1>7, <2>3, <2>4
<1>8. CASE /\ UNCHANGED <<meta, file, dir, handle, emptied>>
           /\ UndoAfter(Movable(call.src, call.dst))
  <2>. DEFINE b == Movable(call.src, call.dst)
  <2>1. b \in BOOLEAN
    <3>1. dir[call.src] \in BOOLEAN
      BY <1>1 DEF TypeOK
    <3>. QED
      BY <3>1 DEF Movable
  <2>2. UndoAfter(b)
    BY <1>8
  <2>3. ~b => ~HasData(s)
    <3>1. CASE call.new.type = "file"
      <4>1. IsFile(s)
        BY <1>1, <1>5, <3>1 DEF IsFile, Exists
      <4>2. View[s].data = file[s]
        BY <1>1, <4>1, Seen
      <4>. QED
        BY <1>2, <1>4, <3>1, <4>2 DEF HasData, Movable
    <3>2. CASE call.new.type = "dir"
      <4>1. IsDir(s)
        BY <1>1, <1>5, <3>2 DEF IsDir, Exists
      <4>2. View[s] = Dir
        BY <1>1, <4>1, Seen
      <4>. QED
        BY <1>4, <4>2 DEF HasData
    <3>. QED
      BY <1>5, <3>1, <3>2
  <2>. HIDE DEF b
  <2>. QED
    BY <1>1, <1>2, <1>8, <2>1, <2>2, <2>3, TreeUndoAfter
<1>. QED
  BY <1>7, <1>8, MoveCases

LEMMA TreeFrame ==
    ASSUME TreeShape, call' = call, tree' = tree, meta' = meta, file' = file
    PROVE  TreeShape'
<1>1. View' = View
  BY SameView
<1>2. /\ InPlace' <=> InPlace
      /\ Renaming' <=> Renaming
      /\ HasData(call.dst)' <=> HasData(call.dst)
      /\ HasData(call.src)' <=> HasData(call.src)
      /\ Deletable(call.dst)' <=> Deletable(call.dst)
  BY DEF InPlace, Renaming, HasData, Deletable
<1>3. \A p : MovedEntry(p)' = MovedEntry(p)
  BY DEF MovedEntry, Along
<1>. QED
  BY <1>1, <1>2, <1>3 DEF TreeShape

LEMMA NextTree ==
    ASSUME DiskInv, TreeShape, [Next]_vars
    PROVE  TreeShape'
<1>0. TypeOK
  BY DEF DiskInv
<1>1. ASSUME NEW p \in Paths, CallOn(p)
      PROVE  TreeShape'
  BY <1>0, <1>1, TreeCallOn
<1>2. ASSUME Finish \/ Undo \/ OpenDirectory \/ \E u \in Users : OpenData(u)
      PROVE  TreeShape'
  <2>1. Return(TRUE) \/ Return(FALSE)
    BY <1>2 DEF Finish, Undo, OpenDirectory, OpenData
  <2>. QED
    BY <1>0, <2>1, TreeReturn
<1>3. ASSUME SystemCall
      PROVE  TreeShape'
  BY <1>2, <1>3, TreeTruncateMeta, TreeWriteMeta, TreeMakeData, TreeOpenDataFails, TreeDropData,
     TreeDropMeta, TreeMoveData DEF SystemCall
<1>4. ASSUME NEW u \in Users, Close(u) \/ Unlock(u) \/ \E p \in Paths : TryLock(u, p)
      PROVE  TreeShape'
  BY <1>4, TreeFrame DEF Close, Unlock, TryLock, disk
<1>5. ASSUME UNCHANGED vars
      PROVE  TreeShape'
  BY <1>5, TreeFrame DEF vars
<1>6. ASSUME NEW p \in Paths, ListDir(p)
      PROVE  TreeShape'
  BY <1>6, TreeFrame DEF ListDir
<1>7. ASSUME Crash
      PROVE  TreeShape'
  <2>1. Return(TRUE)
    BY <1>7 DEF Crash
  <2>. QED
    BY <1>0, <2>1, TreeReturn
<1>. QED
  BY <1>1, <1>3, <1>4, <1>5, <1>6, <1>7 DEF Next, Quiet

\* A NodeLock is taken between two calls only.
LEMMA LocksHeld ==
    ASSUME LocksKept, call'.kind = call.kind, call'.src = call.src, call'.dst = call.dst,
           call.pc # "idle", \A u \in Users : lock'[u] \in {lock[u], NoLock}
    PROVE  LocksKept'
BY DEF LocksKept, CanWLock

LEMMA NextLocks ==
    ASSUME TypeOK, CallShape, LocksKept, [Next]_vars
    PROVE  LocksKept'
<1>1. ASSUME NEW p \in Paths, CallOn(p)
      PROVE  LocksKept'
  <2>1. ASSUME MkdirCall(p) \/ RemoveCall(p) \/ RenameInPlace(p)
        PROVE  /\ CanWLock(p) /\ lock' = lock /\ call'.dst = p
               /\ call'.kind = "rename" => call'.src = p
    BY <2>1, AfterMkdirCall, AfterRemoveCall, AfterRenameInPlace DEF Started
  <2>2. ASSUME NEW t \in Paths, RenameCall(p, t)
        PROVE  CanWLock(p) /\ CanWLock(t) /\ lock' = lock /\ call'.dst = t /\ call'.src = p
    BY <2>2, AfterRenameCall DEF Started
  <2>3. ASSUME NEW f \in OpenFlags, OpenCall(p, f)
        PROVE  call'.kind = "open"
    <3>. DEFINE made == "create" \in f /\ meta[p] = NoMeta
    <3>1. made \in BOOLEAN /\ made = ("create" \in f /\ meta[p] = NoMeta)
      OBVIOUS
    <3>. HIDE DEF made
    <3>. QED
      BY <2>3, <3>1, AfterOpenCall
  <2>4. CASE MkdirCall(p) \/ RemoveCall(p) \/ RenameInPlace(p)
    BY <2>1, <2>4 DEF LocksKept, CanWLock
  <2>5. CASE \E t \in Paths : RenameCall(p, t)
    BY <2>2, <2>5 DEF LocksKept, CanWLock
  <2>6. CASE \E f \in OpenFlags : OpenCall(p, f)
    BY <2>3, <2>6 DEF LocksKept
  <2>. QED
    BY <1>1, <2>4, <2>5, <2>6 DEF CallOn
<1>2. ASSUME SystemCall
      PROVE  LocksKept'
  <2>1. lock' = lock
    BY <1>2 DEF SystemCall, TruncateMeta, WriteMeta, MakeData, OpenDirectory, OpenDataFails,
                DropData, DropMeta, MoveData, Finish, Undo, OpenData
  <2>2. \/ call'.pc = "idle"
        \/ call'.kind = call.kind /\ call'.src = call.src /\ call'.dst = call.dst
    <3>1. \/ \E b : Return(b)
          \/ \E b : UndoAfter(b)
          \/ \E x : Goto(x)
      BY <1>2 DEF SystemCall, TruncateMeta, WriteMeta, MakeData, OpenDirectory, OpenDataFails,
                  DropData, DropMeta, MoveData, Finish, Undo, OpenData
    <3>2. ASSUME NEW b, Return(b)
          PROVE  call'.pc = "idle"
      BY <3>2, Zenon DEF Return, Idle
    <3>3. ASSUME NEW b, UndoAfter(b) \/ Goto(b)
          PROVE  call'.kind = call.kind /\ call'.src = call.src /\ call'.dst = call.dst
      <4>1. DOMAIN call = {"pc", "kind", "src", "dst", "new", "flags", "made", "cut"}
        BY DEF TypeOK, Calls
      <4>. QED
        BY <3>3, <4>1, Zenon DEF UndoAfter, Goto, TypeOK, Calls
    <3>. QED
      BY <3>1, <3>2, <3>3
  <2>3. call.pc # "idle"
    BY <1>2 DEF SystemCall, TruncateMeta, WriteMeta, MakeData, OpenDirectory, OpenDataFails,
                DropData, DropMeta, MoveData, Finish, Undo, OpenData
  <2>4. CASE call'.pc = "idle"
    BY <2>4 DEF LocksKept
  <2>. QED
    BY <2>1, <2>2, <2>3, <2>4, LocksHeld
<1>3. ASSUME NEW u \in Users, Close(u) \/ Unlock(u) \/ \E p \in Paths : TryLock(u, p)
      PROVE  LocksKept'
  <2>1. CASE Close(u) \/ Unlock(u)
    <3>1. call' = call /\ \A v \in Users : lock'[v] \in {lock[v], NoLock}
      BY <2>1 DEF Close, Unlock, TypeOK
    <3>2. CASE call.pc = "idle"
      BY <3>1, <3>2 DEF LocksKept
    <3>. QED
      BY <3>1, <3>2, LocksHeld
  <2>2. CASE \E p \in Paths : TryLock(u, p)
    BY <2>2 DEF TryLock, LocksKept
  <2>. QED
    BY <1>3, <2>1, <2>2
<1>4. ASSUME UNCHANGED vars \/ \E p \in Paths : ListDir(p)
      PROVE  LocksKept'
  BY <1>4 DEF vars, ListDir, LocksKept, CanWLock
<1>5. ASSUME Crash
      PROVE  LocksKept'
  <2>1. Return(TRUE)
    BY <1>5 DEF Crash
  <2>2. call'.pc = "idle"
    BY <2>1, AfterReturn DEF TypeOK
  <2>. QED
    BY <2>2 DEF LocksKept
<1>. QED
  BY <1>1, <1>2, <1>3, <1>4, <1>5 DEF Next, Quiet

-----------------------------------------------------------------------------
\* The calls implement FileTree, and go nowhere else.
TreeInv == DiskInv /\ TreeShape

\* What a call leaves alone at a path: all but what it is about and what is
\* below that; an open adds data only where there is none.
Spared(p) ==
    \/ tree[p] = Nothing
    \/ tree'[p] = tree[p]
    \/ /\ tree[p] # Dir /\ tree'[p] = [obj |-> tree[p].obj, data |-> file'[p]]
       /\ tree[p].data = NoData
    \/ call.kind # "open" /\ AtOrBelow(p, call.dst)
    \/ call.kind = "rename" /\ AtOrBelow(p, call.src)

Implements == (Tree!Next \/ tree' = tree) /\ \A p \in Paths : Spared(p)

LEMMA Stutters ==
    ASSUME tree' = tree
    PROVE  Implements
BY DEF Implements, Spared

LEMMA SeenAgain ==
    ASSUME TypeOK, tree' = View', \A p \in Paths : View'[p] = tree[p]
    PROVE  tree' = tree
BY DEF TypeOK, View

LEMMA SeenBut ==
    ASSUME TypeOK, tree' = View', NEW x \in Paths, \A p \in Paths \ {x} : View'[p] = tree[p]
    PROVE  tree' = [tree EXCEPT ![x] = View'[x]]
<1>1. View' = [p \in Paths |-> View'[p]]
  BY DEF View
<1>2. tree = [p \in Paths |-> tree[p]]
  BY DEF TypeOK
<1>. QED
  BY <1>1, <1>2

\* The tree, where the call is not.
LEMMA TreeAt ==
    ASSUME TreeInv, call.pc \notin {"idle", "finish"}
    PROVE  /\ TypeOK /\ CallShape /\ call.dst \in Paths
           /\ \A p \in Paths \ {call.dst} : tree[p] = View[p]
BY StepKind DEF TreeInv, DiskInv, TreeShape

\* A call that is cut short has changed nothing but what is at its path.
LEMMA CutsShort ==
    ASSUME TreeInv, call.pc \notin {"idle", "finish"}, tree' = View', call'.cut,
           \A p \in Paths \ {call.dst} : View'[p] = View[p],
           call.kind = "open" => tree[call.dst] = Nothing \/ View'[call.dst] = tree[call.dst]
    PROVE  Implements
<1>1. call.dst \in Paths /\ \A p \in Paths \ {call.dst} : tree'[p] = tree[p]
  BY TreeAt
<1>2. PICK x \in Paths : x = call.dst
  BY <1>1
<1>3. AtOrBelow(x, x) /\ Tree!AtOrBelow(x, x)
  BY PathFacts DEF AtOrBelow, Tree!AtOrBelow, IsPrefix, Tree!IsPrefix
<1>4. Tree!CutShort
  BY <1>1, <1>2 DEF Tree!CutShort
<1>5. Tree!Next
  BY <1>4 DEF Tree!Next
<1>6. ASSUME NEW p \in Paths
      PROVE  Spared(p)
  BY <1>1, <1>2, <1>3 DEF Spared
<1>. QED
  BY <1>5, <1>6 DEF Implements

\* A call that has made metadata has found nothing there.
LEMMA FoundNothing ==
    ASSUME TreeInv, call.kind = "mkdir" \/ call.made
    PROVE  tree[call.dst] = Nothing
BY DEF TreeInv, TreeShape

LEMMA ImplTruncateMeta ==
    ASSUME TreeInv, TruncateMeta
    PROVE  Implements
<1>1. /\ call.pc = "truncate" /\ TypeOK /\ CallShape /\ file' = file
      /\ call.kind = "open" => call.made
  BY TreeAt DEF TruncateMeta, CallShape
<1>2. CASE Goto("write")
  BY <1>2, Stutters DEF Goto
<1>3. CASE meta' = meta /\ Return(TRUE)
  <2>1. tree' = View' /\ View' = View /\ call'.cut
    BY <1>1, <1>3, AfterReturn, SameView DEF TypeOK
  <2>. QED
    BY <1>1, <2>1, CutsShort, FoundNothing
<1>. QED
  BY <1>1, <1>2, <1>3 DEF TruncateMeta

LEMMA ImplWriteMeta ==
    ASSUME TreeInv, WriteMeta
    PROVE  Implements
<1>1. /\ call.pc = "write" /\ TypeOK /\ CallShape /\ file' = file /\ call.dst \in Paths
      /\ call.kind = "open" => call.made
  BY TreeAt DEF WriteMeta, CallShape
<1>2. CASE Goto(IF call.kind = "rename" THEN "move" ELSE call.kind)
  BY <1>2, Stutters DEF Goto
<1>3. CASE meta' = meta /\ Return(TRUE)
  <2>1. tree' = View' /\ View' = View /\ call'.cut
    BY <1>1, <1>3, AfterReturn, SameView DEF TypeOK
  <2>. QED
    BY <1>1, <2>1, CutsShort, FoundNothing
<1>4. CASE meta' = [meta EXCEPT ![call.dst] = call.new] /\ InPlace /\ Return(FALSE)
  <2>1. tree' = View'
    BY <1>1, <1>4, AfterReturn DEF TypeOK
  <2>2. PICK x \in Paths : x = call.dst
    BY <1>1
  <2>3. tree[x] = Shown(call.new, file[x]) /\ \A p \in Paths \ {x} : tree[p] = View[p]
    BY <1>1, <1>4, <2>2 DEF TreeInv, TreeShape
  <2>4. View'[x] = tree[x]
    <3>1. meta'[x] = call.new /\ file'[x] = file[x]
      BY <1>1, <1>4, <2>2 DEF TypeOK
    <3>. QED
      BY <2>3, <3>1, ViewAt
  <2>5. \A p \in Paths \ {x} : View'[p] = tree[p]
    BY <1>1, <1>4, <2>2, <2>3, ViewElsewhere DEF TypeOK
  <2>. QED
    BY <1>1, <2>1, <2>4, <2>5, SeenAgain, Stutters
<1>. QED
  BY <1>2, <1>3, <1>4 DEF WriteMeta

\* What is below the paths of two trees is the same.
LEMMA SameNames ==
    /\ \A p, q : Tree!AtOrBelow(p, q) <=> AtOrBelow(p, q)
    /\ \A p, q : Tree!Apart(p, q) <=> Apart(p, q)
    /\ \A p, s, t : Tree!Reroot(p, s, t) = Reroot(p, s, t)
    /\ \A p : Tree!Parent(p) = Parent(p)
    /\ \A p : Tree!HasData(p) <=> HasData(p)
    /\ \A p : Tree!IsFile(p) <=> tree[p] \notin {Nothing, Dir}
BY DEF Tree!AtOrBelow, AtOrBelow, Tree!Apart, Apart, Tree!Reroot, Reroot, Tree!Parent, Parent,
       Tree!HasData, Tree!IsFile, HasData, IsPrefix, Tree!IsPrefix, Front, Tree!Front

\* A new entry is made in a directory.
LEMMA InDirectory ==
    ASSUME TreeInv, call.kind = "mkdir" \/ call.made \/ Renaming
    PROVE  Tree!InDir(call.dst)
<1>1. Parent(call.dst) # Root => tree[Parent(call.dst)] = Dir
  BY DEF TreeInv, TreeShape
<1>2. Tree!Parent(call.dst) = Parent(call.dst)
  BY SameNames
<1>. QED
  BY <1>1, <1>2 DEF Tree!InDir, Root

LEMMA ImplMakeData ==
    ASSUME TreeInv, MakeData
    PROVE  Implements
<1>1. /\ call.pc = "mkdir" /\ call.kind = "mkdir" /\ TypeOK /\ CallShape /\ call.dst \in Paths
      /\ meta' = meta /\ file' = file
  BY TreeAt, StepKind DEF MakeData
<1>2. CASE UndoAfter(~dir[call.dst])
  BY <1>2, Stutters DEF UndoAfter
<1>3. CASE Return(FALSE)
  <2>1. tree' = View' /\ View' = View
    BY <1>1, <1>3, AfterReturn, SameView DEF TypeOK
  <2>2. PICK x \in Paths : x = call.dst
    BY <1>1
  <2>3. tree[x] = Nothing /\ Tree!InDir(x)
    BY <1>1, <2>2, FoundNothing, InDirectory
  <2>4. \A p \in Paths \ {x} : tree[p] = View[p]
    BY <1>1, <2>2, TreeAt
  <2>5. View[x] = Dir
    <3>1. meta[x] = [type |-> "dir", obj |-> FALSE]
      BY <1>1, <2>2 DEF TreeInv, DiskInv, DiskShape, CallShape
    <3>2. meta[x] \in Metas /\ meta[x].type = "dir"
      BY <3>1 DEF Metas
    <3>. QED
      BY <1>1, <3>2, Seen DEF IsDir, Exists
  <2>6. tree' = [tree EXCEPT ![x] = Dir]
    BY <1>1, <2>1, <2>4, <2>5, SeenBut
  <2>7. Tree!Next
    BY <2>3, <2>6 DEF Tree!Next, Tree!MakeDir
  <2>8. ASSUME NEW p \in Paths
        PROVE  Spared(p)
    BY <2>1, <2>2, <2>3, <2>4 DEF Spared
  <2>. QED
    BY <2>7, <2>8 DEF Implements
<1>. QED
  BY <1>2, <1>3 DEF MakeData

\* A call that finds a file or a directory and changes nothing that is seen.
LEMMA ImplSame ==
    ASSUME TreeInv, call.pc = "dropData" \/ (call.pc = "open" /\ ~call.made),
           meta' = meta, file' = file, tree' = View'
    PROVE  Implements
<1>1. /\ TypeOK /\ View' = View /\ \A p \in Paths \ {call.dst} : tree[p] = View[p]
      /\ tree[call.dst] = View[call.dst]
  BY TreeAt, SameView DEF TreeInv, TreeShape
<1>. QED
  BY <1>1, SeenAgain, Stutters

LEMMA ImplOpenDirectory ==
    ASSUME TreeInv, OpenDirectory
    PROVE  Implements
<1>1. /\ call.pc = "open" /\ TypeOK /\ DiskInv /\ meta' = meta /\ file' = file
      /\ Return(TRUE) \/ Return(FALSE)
  BY TreeAt DEF OpenDirectory, TreeInv
<1>2. tree' = View'
  BY <1>1 DEF Return
<1>3. ~call.made
  BY <1>1, MadeOpens DEF OpenDirectory, IsDir
<1>. QED
  BY <1>1, <1>2, <1>3, ImplSame

LEMMA ImplOpenDataFails ==
    ASSUME TreeInv, OpenDataFails
    PROVE  Implements
<1>1. call.pc = "open" /\ meta' = meta /\ file' = file
  BY DEF OpenDataFails, disk
<1>2. CASE call.made
  BY <1>2, Stutters DEF OpenDataFails, UndoAfter
<1>3. CASE ~call.made
  <2>1. tree' = View'
    BY <1>3 DEF OpenDataFails, Return
  <2>. QED
    BY <1>1, <1>3, <2>1, ImplSame
<1>. QED
  BY <1>2, <1>3

LEMMA ImplOpenData ==
    ASSUME TreeInv, NEW u \in Users, OpenData(u)
    PROVE  Implements
<1>1. /\ call.pc = "open" /\ call.kind = "open" /\ TypeOK /\ CallShape /\ DiskInv
      /\ call.dst \in Paths /\ left < MaxCalls /\ meta' = meta /\ Return(FALSE)
      /\ IsFile(call.dst)
      /\ file' = IF file[call.dst] = NoData THEN [file EXCEPT ![call.dst] = <<"new", left + 1>>]
                 ELSE file
  BY TreeAt, StepKind DEF OpenData, TreeInv, CallShape
<1>2. tree' = View'
  BY <1>1 DEF Return
<1>3. PICK x \in Paths : x = call.dst
  BY <1>1
<1>4. \A p \in Paths \ {x} : tree[p] = View[p]
  BY <1>1, <1>3, TreeAt
<1>5. \A p \in Paths \ {x} : View'[p] = tree[p]
  BY <1>1, <1>3, <1>4, ViewElsewhere DEF TypeOK
<1>6. CASE ~call.made /\ file[x] # NoData
  BY <1>1, <1>2, <1>3, <1>6, ImplSame
<1>7. CASE call.made \/ file[x] = NoData
  <2>1. PICK id \in Ids : file'[x] = id
    <3>1. left + 1 \in 1..MaxCalls
      BY <1>1, DirectoriesAssumption DEF TypeOK
    <3>2. <<"new", left + 1>> \in Ids
      BY <3>1 DEF Ids
    <3>3. CASE file[x] = NoData
      BY <1>1, <1>3, <3>2, <3>3 DEF TypeOK
    <3>4. CASE file[x] # NoData
      BY <1>1, <1>3, <3>4 DEF TypeOK
    <3>. QED
      BY <3>3, <3>4
  <2>2. /\ meta[x] \in Metas /\ meta[x].type = "file" /\ meta'[x] = meta[x]
        /\ file'[x] \in Ids \union {NoData} /\ file[x] \in Ids \union {NoData}
    BY <1>1, <1>3, <2>1 DEF IsFile, Exists, TypeOK
  <2>3. View'[x] = [obj |-> meta[x].obj, data |-> id]
    <3>1. View'[x] = Shown(meta[x], id)
      BY <2>1, <2>2, ViewAt
    <3>. QED
      BY <2>1, <2>2, <3>1, ShownIs
  <2>4. tree' = [tree EXCEPT ![x] = [obj |-> meta[x].obj, data |-> id]]
    BY <1>1, <1>2, <1>5, <2>3, SeenBut
  <2>5. CASE call.made
    <3>1. tree[x] = Nothing /\ Tree!InDir(x) /\ meta[x].obj = FALSE
      BY <1>1, <1>3, <2>5, FoundNothing, InDirectory, MadeOpens
    <3>2. ~Tree!IsFile(x) /\ ~Tree!HasData(x)
      BY <3>1 DEF Tree!IsFile, Tree!HasData
    <3>3. tree' = [tree EXCEPT ![x] = [obj |-> Tree!IsFile(x) /\ tree[x].obj, data |-> id]]
      BY <2>4, <3>1, <3>2
    <3>4. Tree!MakeFile(x, id)
      BY <3>1, <3>2, <3>3, AbsenceAssumption DEF Tree!MakeFile
    <3>5. Tree!Next
      BY <3>4 DEF Tree!Next
    <3>. QED
      BY <1>2, <1>3, <1>5, <3>1, <3>5 DEF Implements, Spared
  <2>6. CASE ~call.made
    <3>1. tree[x] = View[x]
      BY <1>1, <1>3, <2>6 DEF TreeInv, TreeShape
    <3>2. /\ tree[x] \notin {Nothing, Dir} /\ tree[x].obj = meta[x].obj /\ tree[x].data = NoData
      BY <1>1, <1>3, <1>7, <2>6, <3>1, Seen
    <3>3. Tree!IsFile(x) /\ ~Tree!HasData(x) /\ meta[x].obj \in BOOLEAN
      BY <2>2, <3>2 DEF Tree!IsFile, Tree!HasData, Metas
    <3>4. tree' = [tree EXCEPT ![x] = [obj |-> Tree!IsFile(x) /\ tree[x].obj, data |-> id]]
      <4>1. (Tree!IsFile(x) /\ tree[x].obj) = meta[x].obj
        BY <3>2, <3>3
      <4>. QED
        BY <2>4, <4>1
    <3>5. Tree!MakeFile(x, id)
      BY <3>2, <3>3, <3>4 DEF Tree!MakeFile
    <3>6. Tree!Next
      BY <3>5 DEF Tree!Next
    <3>7. tree'[x] = [obj |-> tree[x].obj, data |-> file'[x]]
      BY <1>2, <2>1, <2>3, <3>2
    <3>. QED
      BY <1>2, <1>3, <1>5, <3>2, <3>6, <3>7 DEF Implements, Spared
  <2>. QED
    BY <2>5, <2>6
<1>. QED
  BY <1>6, <1>7

LEMMA ImplDropData ==
    ASSUME TreeInv, DropData
    PROVE  Implements
<1>1. CASE Goto("dropMeta")
  BY <1>1, Stutters DEF Goto
<1>2. CASE file' = file /\ Return(Removable(call.dst))
  <2>1. call.pc = "dropData" /\ meta' = meta /\ tree' = View'
    BY <1>2 DEF DropData, Return
  <2>. QED
    BY <1>2, <2>1, ImplSame
<1>. QED
  BY <1>1, <1>2 DEF DropData

LEMMA ImplDropMeta ==
    ASSUME TreeInv, DropMeta
    PROVE  Implements
<1>1. /\ call.pc = "dropMeta" /\ call.kind # "open" /\ TypeOK /\ CallShape /\ call.dst \in Paths
      /\ file' = file
  BY TreeAt, StepKind DEF DropMeta
<1>2. CASE Goto("truncate")
  BY <1>2, Stutters DEF Goto
<1>3. CASE meta' = meta /\ Return(TRUE)
  <2>1. tree' = View' /\ View' = View /\ call'.cut
    BY <1>1, <1>3, AfterReturn, SameView DEF TypeOK
  <2>. QED
    BY <1>1, <2>1, CutsShort
<1>4. CASE call.kind = "remove" /\ meta' = [meta EXCEPT ![call.dst] = NoMeta] /\ Return(FALSE)
  <2>1. tree' = View'
    BY <1>1, <1>4, AfterReturn DEF TypeOK
  <2>2. PICK x \in Paths : x = call.dst
    BY <1>1
  <2>3. \A p \in Paths \ {x} : View'[p] = tree[p]
    BY <1>1, <1>4, <2>2, TreeAt, ViewElsewhere DEF TypeOK
  <2>4. View'[x] = Nothing
    <3>1. meta'[x] = NoMeta
      BY <1>1, <1>4, <2>2 DEF TypeOK
    <3>. QED
      BY <3>1, ViewAt, AbsenceAssumption DEF Shown
  <2>5. tree' = [tree EXCEPT ![x] = Nothing]
    BY <1>1, <2>1, <2>3, <2>4, SeenBut
  <2>6. Deletable(x) /\ tree[x] # Nothing
    BY <1>1, <1>4, <2>2 DEF TreeInv, TreeShape
  <2>7. Tree!IsFile(x) => Tree!HasData(x)
    BY <2>6, SameNames DEF Deletable
  <2>8. \A q \in Paths : tree[x] = Dir /\ Tree!AtOrBelow(q, x) /\ q # x => tree[q] = Nothing
    BY <2>6, SameNames DEF Deletable, Below
  <2>9. Tree!Delete(x)
    BY <2>5, <2>6, <2>7, <2>8 DEF Tree!Delete
  <2>10. Tree!Next
    BY <2>9 DEF Tree!Next
  <2>11. ASSUME NEW p \in Paths
         PROVE  Spared(p)
    BY <1>1, <2>1, <2>2, <2>3, PathFacts DEF Spared
  <2>. QED
    BY <2>10, <2>11 DEF Implements
<1>. QED
  BY <1>2, <1>3, <1>4 DEF DropMeta

LEMMA ImplMoveData ==
    ASSUME TreeInv, MoveData
    PROVE  Implements
BY MoveCases, Stutters DEF Goto, UndoAfter

\* What is neither at a path of the Rename nor below one has not moved.
LEMMA FinishAt ==
    ASSUME TreeInv, call.pc = "finish"
    PROVE  /\ TypeOK /\ call.kind = "rename" /\ Renaming /\ call.src \in Paths /\ call.dst \in Paths
           /\ Apart(call.src, call.dst) /\ call.src # call.dst
           /\ tree[call.src] = Dir \/ HasData(call.src)
           /\ tree[call.dst] = Nothing \/ HasData(call.dst)
           /\ \A p \in Paths \ {call.src} : View[p] = MovedEntry(p)
           /\ \A p \in Paths :
                 ~AtOrBelow(p, call.src) /\ ~AtOrBelow(p, call.dst) => View[p] = tree[p]
<1>1. /\ TypeOK /\ CallShape /\ call.kind = "rename" /\ Renaming /\ call.src \in Paths
      /\ call.dst \in Paths /\ Apart(call.src, call.dst)
  BY StepKind DEF TreeInv, DiskInv, CallShape, Renaming
<1>2. /\ tree[call.src] = Dir \/ HasData(call.src)
      /\ tree[call.dst] = Nothing \/ HasData(call.dst)
      /\ \A p \in Paths \ {call.src} : View[p] = MovedEntry(p)
  BY <1>1 DEF TreeInv, TreeShape
<1>3. AtOrBelow(call.src, call.src) /\ AtOrBelow(call.dst, call.dst)
  BY <1>1, PathFacts
<1>4. ASSUME NEW p \in Paths, ~AtOrBelow(p, call.src), ~AtOrBelow(p, call.dst)
      PROVE  View[p] = tree[p]
  BY <1>2, <1>3, <1>4 DEF MovedEntry, Along
<1>. QED
  BY <1>1, <1>2, <1>3, <1>4 DEF Apart

\* A Rename that is cut short when the data has moved.
LEMMA FinishCut ==
    ASSUME TreeInv, call.pc = "finish", meta' = meta, file' = file, tree' = View', call'.cut
    PROVE  Implements
<1>1. PICK s \in Paths, t \in Paths : s = call.src /\ t = call.dst
  BY FinishAt
<1>2. \A p \in Paths : ~AtOrBelow(p, s) /\ ~AtOrBelow(p, t) => tree'[p] = tree[p]
  BY <1>1, FinishAt, SameView
<1>3. Tree!CutShort
  BY <1>1, <1>2, FinishAt, SameNames DEF Tree!CutShort
<1>4. Tree!Next
  BY <1>3 DEF Tree!Next
<1>5. ASSUME NEW p \in Paths
      PROVE  Spared(p)
  BY <1>1, <1>2, FinishAt DEF Spared
<1>. QED
  BY <1>4, <1>5 DEF Implements

LEMMA ImplFinish ==
    ASSUME TreeInv, Finish
    PROVE  Implements
<1>1. call.pc = "finish" /\ file' = file /\ TypeOK /\ call \in Calls /\ spoilt \in BOOLEAN
  BY FinishAt DEF Finish, TypeOK
<1>2. CASE meta' = meta /\ Return(TRUE)
  BY <1>1, <1>2, AfterReturn, FinishCut
<1>3. CASE meta' = [meta EXCEPT ![call.src] = NoMeta] /\ Return(FALSE)
  <2>1. tree' = View'
    BY <1>1, <1>3, AfterReturn
  <2>2. PICK s \in Paths, t \in Paths : s = call.src /\ t = call.dst
    BY <1>1, FinishAt
  <2>3. View'[s] = Nothing /\ \A p \in Paths \ {s} : View'[p] = View[p]
    <3>1. meta'[s] = NoMeta /\ \A p \in Paths \ {s} : meta'[p] = meta[p]
      BY <1>1, <1>3, <2>2 DEF TypeOK
    <3>2. View'[s] = Nothing
      BY <3>1, ViewAt, AbsenceAssumption DEF Shown
    <3>. QED
      BY <1>1, <3>1, <3>2, ViewElsewhere
  <2>4. /\ Apart(s, t) /\ s # t
        /\ tree[s] = Dir \/ HasData(s)
        /\ tree[t] = Nothing \/ HasData(t)
        /\ \A p \in Paths \ {s} : View[p] = MovedEntry(p)
        /\ \A p \in Paths : ~AtOrBelow(p, s) /\ ~AtOrBelow(p, t) => View[p] = tree[p]
    BY <1>1, <2>2, FinishAt
  <2>5. Tree!InDir(t)
    BY <1>1, <2>2, FinishAt, InDirectory
  <2>. DEFINE along(p, q) == IF tree[s] = Dir THEN Tree!AtOrBelow(p, q) ELSE p = q
              at(p) == IF p \in Paths THEN tree[p] ELSE Nothing
              moved(p) == IF along(p, t) THEN at(Tree!Reroot(p, t, s))
                          ELSE IF along(p, s) THEN Nothing ELSE tree[p]
  <2>6. ASSUME NEW p \in Paths, p # s
        PROVE  View'[p] = moved(p)
    <3>1. View'[p] = MovedEntry(p)
      BY <2>3, <2>4, <2>6
    <3>2. (along(p, t) <=> Along(p, t)) /\ (along(p, s) <=> Along(p, s))
      BY <2>2, SameNames DEF Along
    <3>3. Tree!Reroot(p, t, s) = Reroot(p, t, s)
      BY SameNames
    <3>. QED
      BY <2>2, <3>1, <3>2, <3>3 DEF MovedEntry
  <2>7. View'[s] = moved(s)
    <3>1. ~along(s, t)
      BY <2>4, SameNames DEF Apart
    <3>2. along(s, s)
      BY PathFacts, SameNames
    <3>. QED
      BY <2>3, <3>1, <3>2
  <2>8. tree' = [p \in Paths |-> moved(p)]
    <3>1. \A p \in Paths : View'[p] = moved(p)
      BY <2>6, <2>7
    <3>2. View' = [p \in Paths |-> View'[p]]
      BY DEF View
    <3>. HIDE DEF moved
    <3>. QED
      BY <2>1, <3>1, <3>2
  <2>9. Tree!Apart(s, t) /\ (tree[t] # Nothing => Tree!HasData(t))
        /\ (tree[s] # Dir => Tree!HasData(s))
    BY <2>4, SameNames
  <2>10. Tree!Move(s, t)
    BY <2>5, <2>8, <2>9 DEF Tree!Move
  <2>11. Tree!Next
    BY <2>10 DEF Tree!Next
  <2>12. ASSUME NEW p \in Paths
         PROVE  Spared(p)
    <3>1. AtOrBelow(s, s) /\ call.kind = "rename"
      BY <1>1, PathFacts, FinishAt
    <3>2. CASE AtOrBelow(p, s) \/ AtOrBelow(p, t)
      BY <2>2, <3>1, <3>2 DEF Spared
    <3>3. CASE ~AtOrBelow(p, s) /\ ~AtOrBelow(p, t)
      BY <2>1, <2>3, <2>4, <3>1, <3>3 DEF Spared
    <3>. QED
      BY <3>2, <3>3
  <2>. QED
    BY <2>11, <2>12 DEF Implements
<1>. QED
  BY <1>2, <1>3 DEF Finish

LEMMA ImplUndo ==
    ASSUME TreeInv, Undo
    PROVE  Implements
<1>1. /\ call.pc = "undo" /\ TypeOK /\ CallShape /\ call.dst \in Paths /\ file' = file
      /\ call.kind \in {"mkdir", "open", "rename"} /\ (call.kind = "open" => call.made)
      /\ call.kind = "rename" => Renaming
  BY TreeAt, StepKind DEF Undo, CallShape, Renaming
<1>2. PICK x \in Paths : x = call.dst
  BY <1>1
<1>3. PICK b \in BOOLEAN : Return(b) /\ (b \/ meta' = [meta EXCEPT ![x] = NoMeta])
  BY <1>2 DEF Undo
<1>4. tree' = View' /\ (call'.cut <=> call.cut \/ b)
  BY <1>1, <1>3, AfterReturn DEF TypeOK
<1>5. \A p \in Paths \ {x} : View'[p] = View[p] /\ View[p] = tree[p]
  <2>1. \A p \in Paths \ {x} : meta'[p] = meta[p]
    BY <1>1, <1>2 DEF Undo, TypeOK
  <2>2. \A p \in Paths \ {x} : View'[p] = View[p]
    BY <1>1, <2>1, ViewElsewhere
  <2>. QED
    BY <1>1, <1>2, <2>2, TreeAt
<1>6. CASE call.cut \/ b
  BY <1>1, <1>2, <1>4, <1>5, <1>6, CutsShort, FoundNothing
<1>7. CASE ~call.cut /\ ~b
  <2>1. View'[x] = Nothing
    <3>1. meta'[x] = NoMeta
      BY <1>1, <1>3, <1>7 DEF TypeOK
    <3>. QED
      BY <3>1, ViewAt, AbsenceAssumption DEF Shown
  <2>2. call.kind # "open" /\ (Renaming => ~HasData(call.src))
    BY <1>1, <1>7 DEF TreeInv, TreeShape
  <2>3. CASE tree[x] = Nothing
    BY <1>1, <1>4, <1>5, <2>1, <2>3, SeenAgain, Stutters
  <2>4. CASE tree[x] # Nothing
    <3>1. Renaming /\ HasData(x)
      <4>1. call.kind # "mkdir"
        BY <1>2, <2>4, FoundNothing
      <4>2. Renaming
        BY <1>1, <2>2, <4>1
      <4>. QED
        BY <1>1, <1>2, <2>4, <4>2 DEF TreeInv, TreeShape
    <3>2. PICK s \in Paths : s = call.src
      BY <1>1, <3>1 DEF CallShape, Renaming
    <3>3. Apart(s, x) /\ tree[s] # Nothing /\ ~HasData(s)
      BY <1>1, <1>2, <2>2, <3>1, <3>2 DEF TreeInv, TreeShape, CallShape
    <3>4. tree' = [tree EXCEPT ![x] = Nothing]
      BY <1>1, <1>4, <1>5, <2>1, SeenBut
    <3>5. Tree!Apart(s, x) /\ ~Tree!HasData(s) /\ Tree!HasData(x)
      BY <3>1, <3>3, SameNames
    <3>6. Tree!LoseTarget(s, x)
      BY <3>3, <3>4, <3>5 DEF Tree!LoseTarget
    <3>7. Tree!Next
      BY <3>6 DEF Tree!Next
    <3>8. ASSUME NEW p \in Paths
          PROVE  Spared(p)
      BY <1>2, <1>4, <1>5, <2>2, PathFacts DEF Spared
    <3>. QED
      BY <3>7, <3>8 DEF Implements
  <2>. QED
    BY <2>3, <2>4
<1>. QED
  BY <1>6, <1>7

\* A process that dies leaves the tree as the last step before it.
LEMMA ImplCrash ==
    ASSUME TreeInv, Crash
    PROVE  Implements
<1>1. call.pc # "idle" /\ meta' = meta /\ file' = file /\ Return(TRUE) /\ TypeOK /\ CallShape
  BY DEF Crash, disk, TreeInv, DiskInv
<1>2. tree' = View' /\ call'.cut /\ View' = View
  BY <1>1, AfterReturn, SameView DEF TypeOK
<1>3. CASE call.pc = "finish"
  BY <1>1, <1>2, <1>3, FinishCut
<1>4. CASE call.pc # "finish"
  <2>1. ASSUME call.kind = "open"
        PROVE  tree[call.dst] = Nothing \/ View'[call.dst] = tree[call.dst]
    <3>1. CASE call.made
      BY <3>1, FoundNothing
    <3>2. CASE ~call.made
      BY <1>1, <1>2, <2>1, <3>2 DEF CallShape, TreeInv, TreeShape
    <3>. QED
      BY <3>1, <3>2
  <2>. QED
    BY <1>1, <1>2, <1>4, <2>1, CutsShort
<1>. QED
  BY <1>3, <1>4

LEMMA NextImplements ==
    ASSUME TreeInv, [Next]_vars
    PROVE  Implements
<1>1. ASSUME NEW p \in Paths, CallOn(p) \/ ListDir(p)
      PROVE  Implements
  <2>1. tree' = tree
    BY <1>1 DEF CallOn, ListDir, MkdirCall, OpenCall, RemoveCall, RenameCall, RenameInPlace, Begin
  <2>. QED
    BY <2>1, Stutters
<1>2. ASSUME SystemCall
      PROVE  Implements
  BY <1>2, ImplTruncateMeta, ImplWriteMeta, ImplMakeData, ImplOpenDirectory, ImplOpenDataFails,
     ImplDropData, ImplDropMeta, ImplMoveData, ImplFinish, ImplUndo, ImplOpenData DEF SystemCall
<1>3. ASSUME \/ \E u \in Users : Close(u) \/ Unlock(u) \/ \E p \in Paths : TryLock(u, p)
             \/ UNCHANGED vars
      PROVE  Implements
  <2>1. tree' = tree
    BY <1>3 DEF Close, Unlock, TryLock, vars
  <2>. QED
    BY <2>1, Stutters
<1>. QED
  BY <1>1, <1>2, <1>3, ImplCrash DEF Next, Quiet

LEMMA InitTree ==
    ASSUME Init
    PROVE  DiskInv /\ TreeShape /\ LocksKept /\ Tree!Init
<1>1. DiskInv /\ TypeOK /\ call.pc = "idle" /\ call.kind = "none" /\ call.made = FALSE /\ tree = View
  BY InitDisk, IdleIs DEF Init, DiskInv
<1>2. TreeShape
  BY <1>1 DEF TreeShape, InPlace, Renaming
<1>3. LocksKept
  BY <1>1 DEF LocksKept
<1>4. ASSUME NEW p \in Paths, tree[p] # Nothing
      PROVE  Tree!InDir(p)
  <2>1. Exists(p)
    BY <1>1, <1>4, Seen
  <2>2. ASSUME Parent(p) # Root
        PROVE  tree[Parent(p)] = Dir
    <3>1. PICK q \in Paths : q = Parent(p) /\ Below(p, q)
      BY <2>2, PathFacts
    <3>2. IsDir(q)
      BY <2>1, <3>1 DEF Init
    <3>. QED
      BY <1>1, <3>1, <3>2, Seen
  <2>3. Tree!Parent(p) = Parent(p)
    BY SameNames
  <2>. QED
    BY <2>2, <2>3 DEF Tree!InDir, Root
<1>5. Tree!Init
  BY <1>4 DEF Tree!Init
<1>. QED
  BY <1>1, <1>2, <1>3, <1>5

LEMMA LocksSpare ==
    ASSUME DiskInv, TreeShape, LocksKept, [Next]_vars,
           NEW u \in Users, NEW p \in Paths,
           lock[u] # NoLock, lock'[u] = lock[u], AtOrBelow(lock[u], p)
    PROVE  \/ tree[p] = Nothing
           \/ tree'[p] = tree[p]
           \/ /\ tree[p] # Dir /\ tree'[p] = [obj |-> tree[p].obj, data |-> file'[p]]
              /\ tree[p].data = NoData
<1>1. Spared(p)
  BY NextImplements DEF TreeInv, Implements
<1>2. CASE call.pc = "idle"
  <2>1. tree' = tree
    BY <1>2 DEF Next, CallOn, MkdirCall, OpenCall, RemoveCall, RenameCall, RenameInPlace, Begin,
                ListDir, SystemCall, TruncateMeta, WriteMeta, MakeData, OpenDirectory, OpenData,
                OpenDataFails, DropData, DropMeta, MoveData, Finish, Undo, Close, Unlock, TryLock,
                Crash, Quiet, vars
  <2>. QED
    BY <2>1
<1>3. CASE call.pc # "idle"
  <2>1. lock[u] \in Paths /\ lock[u] \in Seq(Names) /\ p \in Seq(Names)
    BY PathFacts DEF DiskInv, TypeOK
  <2>2. ASSUME call.kind # "open", AtOrBelow(p, call.dst)
        PROVE  FALSE
    <3>1. call.dst \in Seq(Names)
      BY <1>3, StepKind, PathFacts DEF DiskInv
    <3>2. AtOrBelow(lock[u], call.dst)
      BY <2>1, <2>2, <3>1, Chains
    <3>. QED
      BY <1>3, <2>2, <3>2 DEF LocksKept, CanWLock
  <2>3. ASSUME call.kind = "rename", AtOrBelow(p, call.src)
        PROVE  FALSE
    <3>1. call.src \in Seq(Names)
      BY <2>3, PathFacts DEF DiskInv, CallShape
    <3>2. AtOrBelow(lock[u], call.src)
      BY <2>1, <2>3, <3>1, Chains
    <3>. QED
      BY <1>3, <2>3, <3>2 DEF LocksKept, CanWLock
  <2>. QED
    BY <1>1, <2>2, <2>3 DEF Spared
<1>. QED
  BY <1>2, <1>3

LEMMA NextLockedTree ==
    ASSUME DiskInv, TreeShape, LocksKept, [Next]_vars
    PROVE  DiskInv' /\ TreeShape' /\ LocksKept'
BY NextDisk, NextTree, NextLocks DEF DiskInv

\* Mkdir, OpenFile, Remove and Rename, each of several system calls, are one
\* step each on the tree that Stat and ReadDir show, or none; what is cut
\* short changes only its own paths.
THEOREM CallsImplementFileTree == Spec => ImplementsFileTree
<1>. DEFINE Inv == DiskInv /\ TreeShape /\ LocksKept
<1>1. Init => Inv /\ Tree!Init
  BY InitTree
<1>2. Inv /\ [Next]_vars => Inv' /\ [Tree!Next]_tree
  BY NextLockedTree, NextImplements DEF TreeInv, Implements
<1>3. ImplementsFileTree <=> Tree!Init /\ [][Tree!Next]_tree
  BY DEF ImplementsFileTree, Tree!Spec
<1>. HIDE DEF Inv
<1>. QED
  BY <1>1, <1>2, <1>3, PTL DEF Spec

\* While a path is locked through a Node, no call takes it or what is above it
\* away, or puts something else in its place.
THEOREM LockedPathsAreKept == Spec => LockedPathsStay
<1>. DEFINE Inv == DiskInv /\ TreeShape /\ LocksKept
            Stay == \A u \in Users, p \in Paths :
                        lock[u] # NoLock /\ lock'[u] = lock[u] /\ AtOrBelow(lock[u], p) =>
                            \/ tree[p] = Nothing
                            \/ tree'[p] = tree[p]
                            \/ tree[p] # Dir /\ tree'[p] = [obj |-> tree[p].obj, data |-> file'[p]]
                               /\ tree[p].data = NoData
<1>1. Init => Inv
  BY InitTree
<1>2. Inv /\ [Next]_vars => Inv' /\ Stay
  BY NextLockedTree, LocksSpare
<1>3. LockedPathsStay <=> [][Stay]_vars
  BY DEF LockedPathsStay
<1>. HIDE DEF Inv, Stay
<1>. QED
  BY <1>1, <1>2, <1>3, PTL DEF Spec

\* The inductive invariant, all of its parts together.
THEOREM SpecDirInv == Spec => []DirInv
<1>. USE DEF DirInv, DiskInv, DataInv, NodeInv, WholeInv
<1>1. Init => DirInv
  BY InitNodes, InitWhole, InitTree
<1>2. DirInv /\ [Next]_vars => DirInv'
  BY NextNodes, NextWhole, NextLockedTree
<1>. QED
  BY <1>1, <1>2, PTL DEF Spec
=============================================================================
