-------------------------- MODULE FilterChainProofs --------------------------
(***************************************************************************)
(* What filterChain.encode and decode return, for chains of any length and *)
(* files of any size, wherever a goroutine fails.                          *)
(***************************************************************************)
EXTENDS FilterChain, Integers, TLAPS

Pcs == {"read", "write", "sent", "closeReader", "closeWriter", "return", "done"}
Locals == [pc : Pcs, got : Nat, last : BOOLEAN, err : BOOLEAN]
Pipes == [full : BOOLEAN, rclosed : BOOLEAN, wclosed : BOOLEAN]

\* Types, without the bounds on the counts.
Typed ==
    /\ chain \in Seq({"flate", "sio"}) /\ mode \in {"encode", "decode"} /\ size \in 0..MaxChunks
    /\ chain \in Chains
    /\ source \in Nat
    /\ stage \in [Stages -> Locals]
    /\ pipe \in [Filters -> Pipes]
    /\ sink \in Nat
    /\ closed \subseteq {"source", "sink"}
    /\ failed \subseteq Stages
    /\ grp \in [err : BOOLEAN, ret : {"none", "nil", "error"}]

Finished(i) == stage[i].pc \in {"closeReader", "closeWriter", "return", "done"}

\* The chunks that have left goroutine i.
Made(i) ==
    IF i = Copier THEN sink ELSE stage[i + 1].got + (IF pipe[i].full THEN 1 ELSE 0)

\* How the chunks that have left a goroutine go with those it has got.
Progress(i) ==
    LET got == stage[i].got
        made == Made(i)
        pc == stage[i].pc
        last == stage[i].last
    IN  /\ got <= Input(i)
        /\ stage[i].err => Finished(i)
        /\ i = Copier =>
              /\ pc # "sent" /\ ~last /\ made <= got
              /\ pc = "read" => made = got
              /\ pc = "write" => made = got - 1
              /\ Finished(i) /\ ~stage[i].err => made = got
        /\ i # Copier /\ mode = "encode" =>
              /\ made <= got + 1
              /\ pc = "read" => made = got /\ ~last
              /\ pc = "write" => made = IF last THEN got ELSE got - 1
              /\ pc = "sent" => made = IF last THEN got + 1 ELSE got
              /\ Finished(i) /\ ~stage[i].err => made = got + 1
        /\ i # Copier /\ mode = "decode" =>
              /\ made < Input(i)
              /\ pc = "read" => made = (IF got = Input(i) THEN got - 1 ELSE got) /\ ~last
              /\ pc = "write" => made = got - 1 /\ got < Input(i) /\ ~last
              /\ pc = "sent" => made = got /\ got < Input(i) /\ ~last
              /\ Finished(i) /\ ~stage[i].err => made = Input(i) - 1 /\ got = Input(i)

\* Goroutines that have met the end with no error above them or of their own
\* have got everything.
GotAll(i) ==
    (Finished(i) \/ stage[i].last) /\ (\A k \in 1..i : ~stage[k].err) => stage[i].got = Input(i)

\* Which ends of a pipe are closed, and who waits at it.
PipeShape(i) ==
    /\ pipe[i].full => stage[i].pc = "sent"
    /\ pipe[i].wclosed <=> stage[i].pc \in {"return", "done"}
    /\ pipe[i].rclosed <=> stage[i + 1].pc \in {"closeWriter", "return", "done"}

Ends ==
    /\ stage[1].pc \in {"closeWriter", "return", "done"} => "source" \in closed
    /\ stage[Copier].pc \in {"return", "done"} => "sink" \in closed

\* What has been read of the source; only the object of a chain with filters
\* can have been cut short.
SourceShape ==
    /\ source + stage[1].got <= Input(1)
    /\ mode = "encode" \/ chain = <<>> => Whole

\* The errgroup.
GroupShape ==
    /\ \A i \in Stages : stage[i].pc = "done" /\ stage[i].err => grp.err
    /\ \A i \in failed : stage[i].err
    /\ grp.ret # "none" => \A i \in Stages : stage[i].pc = "done"
    /\ grp.ret = "nil" => ~grp.err

IInv ==
    /\ Typed
    /\ \A i \in Stages : Progress(i)
    /\ \A i \in Stages : GotAll(i)
    /\ \A i \in Filters : PipeShape(i)
    /\ Ends /\ SourceShape /\ GroupShape
    /\ NothingFailsAlone

-----------------------------------------------------------------------------
\* How many goroutines there are, and how many chunks they get.
LEMMA Shape ==
    ASSUME Typed
    PROVE  /\ Len(chain) \in Nat /\ Copier \in Nat /\ Copier > 0
           /\ Stages = 1..Copier /\ Filters = 1..(Copier - 1)
           /\ 1 \in Stages /\ Copier \in Stages
           /\ \A i \in Stages : i \in Nat /\ i > 0 /\ i <= Copier /\ (i # Copier => i + 1 \in Stages)
           /\ \A i \in Stages : (i # Copier <=> i \in Filters) /\ (i # 1 => i - 1 \in Filters)
           /\ \A i \in Filters : i \in Stages /\ i # Copier /\ i + 1 \in Stages
<1>1. Len(chain) \in Nat
  BY DEF Typed
<1>2. QED
  BY <1>1 DEF Copier, Stages, Filters

LEMMA Inputs ==
    ASSUME Typed
    PROVE  /\ \A i \in Stages : Input(i) \in Nat
           /\ \A i \in Stages : i # Copier =>
                 /\ mode = "encode" => Input(i + 1) = Input(i) + 1
                 /\ mode = "decode" => Input(i + 1) = Input(i) - 1 /\ Input(i) > 0
           /\ Output = Input(Copier)
<1>1. size \in Nat /\ mode \in {"encode", "decode"}
  BY FilterChainAssumption DEF Typed
<1>2. ASSUME NEW i \in Stages
      PROVE  /\ Input(i) \in Nat
             /\ i # Copier =>
                   /\ mode = "encode" => Input(i + 1) = Input(i) + 1
                   /\ mode = "decode" => Input(i + 1) = Input(i) - 1 /\ Input(i) > 0
  <2>1. Copier \in Nat /\ i \in Nat /\ i > 0 /\ i <= Copier
    BY Shape
  <2>2. CASE mode = "encode"
    BY <1>1, <2>1, <2>2 DEF Input
  <2>3. CASE mode = "decode"
    BY <1>1, <2>1, <2>3 DEF Input
  <2>4. QED
    BY <1>1, <2>2, <2>3
<1>3. QED
  BY <1>2 DEF Output

\* A goroutine goes on, or gives up.
LEMMA SetStep ==
    ASSUME Typed, NEW i \in Stages, NEW pc \in Pcs, Set(i, pc)
    PROVE  /\ stage' \in [Stages -> Locals]
           /\ stage'[i].pc = pc /\ stage'[i].got = stage[i].got
           /\ stage'[i].last = stage[i].last /\ stage'[i].err = stage[i].err
           /\ \A j \in Stages \ {i} : stage'[j] = stage[j]
<1>1. stage \in [Stages -> Locals] /\ stage' = [stage EXCEPT ![i].pc = pc]
  BY DEF Typed, Set
<1>2. QED
  BY <1>1 DEF Locals

LEMMA FailStep ==
    ASSUME Typed, NEW i \in Stages, Fail(i)
    PROVE  /\ stage' \in [Stages -> Locals]
           /\ stage'[i].pc = "closeReader" /\ stage'[i].got = stage[i].got
           /\ stage'[i].last = stage[i].last /\ stage'[i].err
           /\ \A j \in Stages \ {i} : stage'[j] = stage[j]
<1>1. stage \in [Stages -> Locals]
      /\ stage' = [stage EXCEPT ![i].pc = "closeReader", ![i].err = TRUE]
  BY DEF Typed, Fail
<1>2. QED
  BY <1>1 DEF Locals, Pcs

-----------------------------------------------------------------------------
LEMMA InitIInv == Init => IInv
<1> SUFFICES ASSUME Init PROVE IInv
  OBVIOUS
<1>1. Len(chain) \in Nat /\ chain \in Seq({"flate", "sio"}) /\ size \in Nat
  BY FilterChainAssumption DEF Init
<1>2. \A i \in Stages : i \in Nat /\ Input(i) \in Nat /\ (i # Copier /\ mode = "decode" => Input(i) > 0)
  BY <1>1 DEF Init, Stages, Copier, Input
<1>3. 1 \in Stages /\ Copier \in Stages /\ \A i \in Filters : i \in Stages /\ i + 1 \in Stages
  BY <1>1 DEF Stages, Copier, Filters
<1>4. Typed
  <2>1. source \in Nat
    BY <1>2, <1>3 DEF Init
  <2>2. NewStage \in Locals /\ NewPipe \in Pipes
    BY DEF NewStage, Locals, Pcs, NewPipe, Pipes
  <2>3. QED
    BY <1>1, <2>1, <2>2 DEF Init, Typed
<1>5. \A i \in Stages : stage[i] = NewStage /\ (i # Copier => i + 1 \in Stages /\ i \in Filters)
  BY <1>1 DEF Init, Stages, Copier, Filters
<1>6. \A i \in Filters : pipe[i] = NewPipe
  BY DEF Init
<1>7. \A i \in Stages : Made(i) = 0
  BY <1>5, <1>6 DEF Made, Init, NewStage, NewPipe
<1>8. \A i \in Stages : Progress(i)
  BY <1>2, <1>5, <1>7 DEF Progress, Finished, NewStage
<1>9. \A i \in Stages : GotAll(i)
  BY <1>5 DEF GotAll, Finished, NewStage
<1>10. \A i \in Filters : PipeShape(i)
  BY <1>3, <1>5, <1>6 DEF PipeShape, NewStage, NewPipe
<1>11. Ends /\ GroupShape /\ NothingFailsAlone
  BY <1>3, <1>5 DEF Ends, GroupShape, NothingFailsAlone, NewStage, Init
<1>12. SourceShape
  <2>1. source <= Input(1) /\ (mode = "encode" \/ chain = <<>> => source = Input(1))
    BY <1>2, <1>3 DEF Init
  <2>2. QED
    BY <1>2, <1>3, <1>5, <2>1 DEF SourceShape, Whole, NewStage, Init
<1>13. QED
  BY <1>4, <1>8, <1>9, <1>10, <1>11, <1>12 DEF IInv

-----------------------------------------------------------------------------
\* What one goroutine does leaves the others where they are.
LEMMA ProgressKeep ==
    ASSUME IInv, UNCHANGED given, NEW i \in Stages, Progress(i)',
           \A j \in Stages \ {i} : stage'[j] = stage[j] /\ Made(j)' = Made(j)
    PROVE  \A j \in Stages' : Progress(j)'
<1>1. Stages' = Stages /\ Copier' = Copier /\ \A j : Input(j)' = Input(j)
  BY DEF given, Stages, Copier, Input
<1>2. ASSUME NEW j \in Stages, j # i PROVE Progress(j)'
  <2>1. Progress(j)
    BY DEF IInv
  <2>2. mode' = mode /\ stage'[j] = stage[j] /\ Made(j)' = Made(j)
    BY <1>2 DEF given
  <2>3. QED
    BY <1>1, <2>1, <2>2 DEF Progress, Finished
<1>3. QED
  BY <1>1, <1>2

LEMMA GotAllKeep ==
    ASSUME IInv, UNCHANGED given, NEW i \in Stages, GotAll(i)', stage[i].err => stage'[i].err,
           \A j \in Stages \ {i} : stage'[j] = stage[j]
    PROVE  \A j \in Stages' : GotAll(j)'
<1>1. Stages' = Stages /\ \A j : Input(j)' = Input(j)
  BY DEF given, Stages, Copier, Input
<1>2. ASSUME NEW j \in Stages, j # i PROVE GotAll(j)'
  <2>1. \A k \in 1..j : k \in Stages
    BY Shape DEF IInv
  <2>2. GotAll(j)
    BY DEF IInv
  <2>3. stage'[j] = stage[j] /\ (Finished(j)' <=> Finished(j))
    BY <1>2 DEF Finished
  <2>4. \A k \in 1..j : stage[k].err => stage'[k].err
    BY <2>1
  <2>5. QED
    BY <1>1, <2>2, <2>3, <2>4 DEF GotAll
<1>3. QED
  BY <1>1, <1>2

\* A goroutine that gives up, in a Write or before.
LEMMA FailIInv ==
    ASSUME IInv, NEW i \in Stages, Fail(i), UNCHANGED <<given, source, sink, closed, grp>>,
           \/ stage[i].pc \in {"read", "write"} /\ pipe' = pipe
           \/ /\ stage[i].pc = "sent" /\ i # Copier
              /\ pipe' = [pipe EXCEPT ![i].full = FALSE],
           failed' \in {failed, failed \union {i}},
           failed' # {} \/ ~Whole
    PROVE  IInv'
<1>0. Typed /\ mode \in {"encode", "decode"} /\ pipe \in [Filters -> Pipes]
  BY DEF IInv, Typed
<1>1. /\ stage' \in [Stages -> Locals]
      /\ stage'[i].pc = "closeReader" /\ stage'[i].got = stage[i].got
      /\ stage'[i].last = stage[i].last /\ stage'[i].err
      /\ \A j \in Stages \ {i} : stage'[j] = stage[j]
  BY <1>0, FailStep
<1>2. Stages' = Stages /\ Filters' = Filters /\ Copier' = Copier /\ \A j : Input(j)' = Input(j)
  BY DEF given, Stages, Filters, Copier, Input
<1>3. /\ pipe' \in [Filters -> Pipes]
      /\ \A j \in Filters \ {i} : pipe'[j] = pipe[j]
      /\ i # Copier => /\ ~pipe'[i].full
                       /\ pipe'[i].rclosed = pipe[i].rclosed /\ pipe'[i].wclosed = pipe[i].wclosed
  <2>1. CASE stage[i].pc \in {"read", "write"} /\ pipe' = pipe
    BY <1>0, <2>1, Shape DEF IInv, PipeShape
  <2>2. CASE stage[i].pc = "sent" /\ i # Copier /\ pipe' = [pipe EXCEPT ![i].full = FALSE]
    <3>1. i \in Filters
      BY <1>0, <2>2, Shape
    <3>2. QED
      BY <1>0, <2>2, <3>1 DEF Pipes
  <2>3. QED
    BY <2>1, <2>2
<1>4. \A j \in Stages : stage'[j].got = stage[j].got
  BY <1>1
<1>5. \A j \in Stages \ {i} : Made(j)' = Made(j)
  BY <1>0, <1>2, <1>3, <1>4, Shape DEF Made
<1>6. Made(i) \in Nat /\ Made(i)' \in Nat /\ Made(i)' <= Made(i)
  <2>1. CASE i = Copier
    BY <1>0, <1>2, <2>1 DEF Made, Typed
  <2>2. CASE i # Copier
    <3>1. i + 1 \in Stages /\ stage[i + 1].got \in Nat
      BY <1>0, <2>2, Shape DEF Typed, Locals
    <3>2. QED
      BY <1>2, <1>3, <1>4, <2>2, <3>1 DEF Made
  <2>3. QED
    BY <2>1, <2>2
<1>7. Typed'
  BY <1>0, <1>1, <1>2, <1>3 DEF Typed, given
<1>8. Progress(i)'
  <2>1. Progress(i) /\ stage[i].got \in Nat /\ Input(i) \in Nat
    BY <1>0, Inputs DEF IInv, Typed, Locals
  <2>2. mode' = mode /\ Copier' = Copier /\ Input(i)' = Input(i)
    BY <1>2 DEF given
  <2>3. Finished(i)' /\ stage'[i].err
    BY <1>1 DEF Finished
  <2>4. i = Copier => stage[i].pc # "sent" /\ ~stage[i].last /\ Made(i) <= stage[i].got
    BY <2>1 DEF Progress
  <2>5. QED
    BY <1>1, <1>6, <2>1, <2>2, <2>3, <2>4 DEF Progress
<1>9. GotAll(i)'
  BY <1>0, <1>1, Shape DEF GotAll
<1>10. \A j \in Filters' : PipeShape(j)'
  <2> SUFFICES ASSUME NEW j \in Filters PROVE PipeShape(j)'
    BY <1>2
  <2>1. PipeShape(j) /\ j \in Stages /\ j + 1 \in Stages /\ j + 1 # j /\ j # Copier
    BY <1>0, Shape DEF IInv
  <2>2. /\ stage[i].pc \in {"read", "write", "sent"}
        /\ \A k \in Stages : k # i => stage'[k].pc = stage[k].pc
    BY <1>1
  <2>3. /\ pipe'[j].full => pipe[j].full /\ j # i
        /\ pipe'[j].wclosed = pipe[j].wclosed /\ pipe'[j].rclosed = pipe[j].rclosed
    BY <1>3, <2>1
  <2>4. QED
    BY <1>1, <2>1, <2>2, <2>3 DEF PipeShape
<1>11. Ends' /\ SourceShape'
  <2>1. 1 \in Stages /\ Copier \in Stages
    BY <1>0, Shape
  <2>2. Ends'
    BY <1>1, <1>2, <2>1 DEF IInv, Ends
  <2>3. source' = source /\ stage'[1].got = stage[1].got /\ Input(1)' = Input(1)
        /\ mode' = mode /\ chain' = chain
    BY <1>2, <1>4, <2>1 DEF given
  <2>4. SourceShape'
    BY <2>3 DEF IInv, SourceShape, Whole
  <2>5. QED
    BY <2>2, <2>4
<1>12. GroupShape'
  <2>1. GroupShape /\ failed \subseteq Stages /\ grp' = grp /\ stage[i].pc # "done"
    BY DEF IInv, Typed
  <2>2. \A k \in Stages : stage'[k].pc = "done" => stage'[k] = stage[k]
    BY <1>1
  <2>3. \A k \in failed' : stage'[k].err
    BY <1>1, <2>1 DEF GroupShape
  <2>4. grp.ret = "none"
    BY <2>1 DEF GroupShape
  <2>5. QED
    BY <1>2, <2>1, <2>2, <2>3, <2>4 DEF GroupShape
<1>13. NothingFailsAlone'
  BY <1>0, <1>2, <1>4, Shape DEF NothingFailsAlone, Whole
<1>14. \A j \in Stages' : Progress(j)' /\ GotAll(j)'
  BY <1>1, <1>5, <1>8, <1>9, ProgressKeep, GotAllKeep
<1>15. QED
  BY <1>7, <1>10, <1>11, <1>12, <1>13, <1>14 DEF IInv

-----------------------------------------------------------------------------
\* The steps of a goroutine that goes on: its errors, and what it is about,
\* are as they were.
LEMMA GoesOn ==
    ASSUME IInv, NEW i \in Stages, UNCHANGED <<given, failed>>,
           Typed', Progress(i)', GotAll(i)',
           \A j \in Stages \ {i} : stage'[j] = stage[j] /\ Made(j)' = Made(j),
           stage'[i].err = stage[i].err,
           source' + stage'[1].got = source + stage[1].got,
           \A j \in Filters : PipeShape(j)',
           Ends', GroupShape'
    PROVE  IInv'
<1>0. Typed
  BY DEF IInv
<1>1. Stages' = Stages /\ Filters' = Filters /\ Input(1)' = Input(1)
  BY DEF given, Stages, Filters, Copier, Input
<1>2. \A j \in Stages' : Progress(j)' /\ GotAll(j)'
  BY ProgressKeep, GotAllKeep
<1>3. mode' = mode /\ chain' = chain
  BY DEF given
<1>4. SourceShape'
  BY <1>1, <1>3 DEF IInv, SourceShape, Whole
<1>5. \A j \in Stages : stage'[j].err = stage[j].err
  OBVIOUS
<1>6. NothingFailsAlone'
  BY <1>1, <1>5 DEF IInv, NothingFailsAlone, Whole
<1>7. QED
  BY <1>1, <1>2, <1>4, <1>6 DEF IInv

\* Ends and errgroup do not notice a goroutine that is not closing anything.
LEMMA NotClosing ==
    ASSUME IInv, NEW i \in Stages, UNCHANGED <<given, closed, failed, grp>>,
           \A j \in Stages \ {i} : stage'[j] = stage[j],
           stage[i].pc \in {"read", "write", "sent"},
           stage'[i].pc \in {"read", "write", "sent", "closeReader"},
           stage'[i].err = stage[i].err
    PROVE  Ends' /\ GroupShape'
<1>0. Typed /\ failed \subseteq Stages /\ Ends /\ GroupShape
  BY DEF IInv, Typed
<1>1. Stages' = Stages /\ Copier' = Copier /\ 1 \in Stages /\ Copier \in Stages
  BY <1>0, Shape DEF given, Stages, Copier
<1>2. Ends'
  BY <1>0, <1>1 DEF Ends
<1>3. \A k \in Stages : stage'[k].err = stage[k].err /\ (stage'[k].pc = "done" => stage[k].pc = "done")
  OBVIOUS
<1>4. grp.ret = "none"
  BY <1>0 DEF GroupShape
<1>5. GroupShape'
  BY <1>0, <1>1, <1>3, <1>4 DEF GroupShape
<1>6. QED
  BY <1>2, <1>5

\* What comes out of a goroutine is never more than the next one gets.
LEMMA MadeBound ==
    ASSUME IInv, NEW i \in Filters
    PROVE  /\ Made(i) \in Nat /\ Made(i) <= Input(i + 1)
           /\ stage[i].pc = "write" \/ (stage[i].pc = "read" /\ mode = "encode")
                  => Made(i) < Input(i + 1)
<1>1. Typed /\ Progress(i) /\ i \in Stages /\ i # Copier /\ mode \in {"encode", "decode"}
  BY Shape DEF IInv, Typed
<1>2. /\ Input(i) \in Nat /\ Input(i + 1) \in Nat
      /\ mode = "encode" => Input(i + 1) = Input(i) + 1
      /\ mode = "decode" => Input(i + 1) = Input(i) - 1 /\ Input(i) > 0
  BY <1>1, Inputs, Shape
<1>3. stage[i].got \in Nat
  BY <1>1 DEF Typed, Locals
<1>4. Made(i) \in Nat
  <2>1. i + 1 \in Stages
    BY <1>1, Shape
  <2>2. QED
    BY <1>1, <2>1 DEF Made, Typed, Locals
<1>5. CASE mode = "encode"
  BY <1>1, <1>2, <1>3, <1>4, <1>5 DEF Progress
<1>6. CASE mode = "decode"
  BY <1>1, <1>2, <1>3, <1>4, <1>6 DEF Progress
<1>7. QED
  BY <1>1, <1>5, <1>6

LEMMA ReceiveIInv ==
    ASSUME IInv, NEW i \in Stages, Receive(i)
    PROVE  IInv'
<1> DEFINE n == stage[i].got + 1
           own == i # Copier /\ mode = "decode" /\ n = Input(i)
           pc == IF ~own THEN "write" ELSE IF Enough(i, n) THEN "closeReader" ELSE "read"
<1>0. Typed /\ mode \in {"encode", "decode"} /\ stage \in [Stages -> Locals]
      /\ pipe \in [Filters -> Pipes] /\ source \in Nat /\ Progress(i)
  BY DEF IInv, Typed
<1>1. /\ stage[i].pc = "read" /\ Readable(i) /\ UNCHANGED <<given, sink, closed, failed, grp>>
      /\ stage' = [stage EXCEPT ![i].got = n, ![i].last = Enough(i, n), ![i].pc = pc]
  BY DEF Receive
<1>2. Enough(i, n) \in BOOLEAN /\ n \in Nat /\ pc \in Pcs
  BY <1>0 DEF Enough, Locals, Pcs
<1>3. /\ stage' \in [Stages -> Locals]
      /\ stage'[i].pc = pc /\ stage'[i].got = n /\ stage'[i].last = Enough(i, n)
      /\ stage'[i].err = stage[i].err
      /\ \A j \in Stages \ {i} : stage'[j] = stage[j]
  <2> HIDE DEF n, pc
  <2>1. QED
    BY <1>0, <1>1, <1>2 DEF Locals
<1>4. Stages' = Stages /\ Filters' = Filters /\ Copier' = Copier /\ \A j : Input(j)' = Input(j)
  BY <1>1 DEF given, Stages, Filters, Copier, Input
<1>5. ~stage[i].err
  BY <1>0, <1>1 DEF Progress, Finished
<1>6. \/ i = 1 /\ source > 0 /\ source' = source - 1 /\ pipe' = pipe
      \/ /\ i # 1 /\ i - 1 \in Filters /\ pipe[i - 1].full /\ source' = source
         /\ pipe' = [pipe EXCEPT ![i - 1].full = FALSE]
  BY <1>0, <1>1, Shape DEF Receive, Readable
<1>7. /\ pipe' \in [Filters -> Pipes]
      /\ \A j \in Filters : /\ pipe'[j].rclosed = pipe[j].rclosed /\ pipe'[j].wclosed = pipe[j].wclosed
                            /\ j # i - 1 => pipe'[j].full = pipe[j].full
                            /\ j = i - 1 => pipe[j].full /\ ~pipe'[j].full
  <2>1. CASE i = 1
    <3>1. \A j \in Filters : j # i - 1
      BY <1>0, <2>1, Shape
    <3>2. QED
      BY <1>0, <1>6, <2>1, <3>1
  <2>2. CASE i # 1
    <3> DEFINE k == i - 1
    <3>1. k \in Filters /\ pipe[k].full /\ pipe' = [pipe EXCEPT ![k].full = FALSE]
      BY <1>6, <2>2
    <3> HIDE DEF k
    <3>2. /\ pipe' \in [Filters -> Pipes] /\ ~pipe'[k].full
          /\ pipe'[k].rclosed = pipe[k].rclosed /\ pipe'[k].wclosed = pipe[k].wclosed
          /\ \A j \in Filters \ {k} : pipe'[j] = pipe[j]
      BY <1>0, <3>1 DEF Pipes
    <3>3. QED
      BY <3>1, <3>2 DEF k
  <2>3. QED
    BY <2>1, <2>2
<1>8. i \in Nat /\ stage[i].got \in Nat /\ Input(i) \in Nat
  BY <1>0, Shape, Inputs DEF Locals
<1>9. \A j \in Stages : Made(j)' = Made(j)
  <2> SUFFICES ASSUME NEW j \in Stages PROVE Made(j)' = Made(j)
    OBVIOUS
  <2>1. CASE j = Copier
    BY <1>1, <1>4, <2>1 DEF Made
  <2>2. CASE j # Copier
    <3>1. j \in Nat /\ j \in Filters /\ j + 1 \in Stages
      BY <1>0, <2>2, Shape
    <3>2. CASE j + 1 = i
      <4>1. j = i - 1
        BY <1>8, <3>1, <3>2
      <4>2. QED
        BY <1>3, <1>4, <1>7, <1>8, <2>2, <3>1, <3>2, <4>1 DEF Made
    <3>3. CASE j + 1 # i
      <4>1. j # i - 1
        BY <1>8, <3>1, <3>3
      <4>2. QED
        BY <1>3, <1>4, <1>7, <2>2, <3>1, <3>3, <4>1 DEF Made
    <3>4. QED
      BY <3>2, <3>3
  <2>3. QED
    BY <2>1, <2>2
<1>10. n <= Input(i) /\ source' \in Nat /\ source' + stage'[1].got = source + stage[1].got
  <2>1. CASE i = 1
    BY <1>0, <1>3, <1>6, <1>8, <2>1 DEF IInv, SourceShape
  <2>2. CASE i # 1
    <3>1. i - 1 \in Filters /\ pipe[i - 1].full /\ source' = source /\ (i - 1) + 1 = i
      BY <1>6, <1>8, <2>2
    <3>2. Made(i - 1) = n
      <4>1. i - 1 # Copier
        BY <1>0, <3>1, Shape
      <4>2. QED
        BY <1>8, <3>1, <4>1 DEF Made
    <3>3. Made(i - 1) <= Input(i)
      BY <3>1, MadeBound
    <3>4. 1 \in Stages /\ stage'[1] = stage[1]
      BY <1>0, <1>3, <2>2, Shape
    <3>5. QED
      BY <1>0, <3>1, <3>2, <3>3, <3>4
  <2>3. QED
    BY <2>1, <2>2
<1>11. Typed'
  BY <1>0, <1>1, <1>3, <1>4, <1>7, <1>10 DEF Typed, given
<1>12. Made(i) = stage[i].got \/ (mode = "decode" /\ i # Copier /\ stage[i].got = Input(i))
  BY <1>0, <1>1 DEF Progress
<1>13. n - 1 = stage[i].got
  BY <1>8
<1>14. Made(i) = n - 1 /\ Made(i)' = n - 1
  BY <1>8, <1>9, <1>10, <1>12, <1>13
<1>15. mode' = mode /\ Copier' = Copier /\ Input(i)' = Input(i) /\ ~stage'[i].err
  BY <1>1, <1>3, <1>4, <1>5 DEF given
<1>16. Progress(i)'
  <2>1. CASE i = Copier
    <3>1. pc = "write" /\ ~Enough(i, n)
      BY <2>1 DEF Enough
    <3>2. QED
      BY <1>3, <1>8, <1>10, <1>14, <1>15, <2>1, <3>1 DEF Progress, Finished
  <2>2. CASE i # Copier /\ mode = "encode"
    <3>1. pc = "write" /\ ~Enough(i, n)
      BY <2>2 DEF Enough
    <3>2. QED
      BY <1>3, <1>8, <1>10, <1>14, <1>15, <2>2, <3>1 DEF Progress, Finished
  <2>3. CASE i # Copier /\ mode = "decode" /\ n # Input(i)
    <3>1. pc = "write" /\ ~Enough(i, n)
      BY <2>3 DEF Enough
    <3>2. QED
      BY <1>3, <1>8, <1>10, <1>14, <1>15, <2>3, <3>1 DEF Progress, Finished
  <2>4. CASE i # Copier /\ mode = "decode" /\ n = Input(i)
    <3>1. pc \in {"closeReader", "read"} /\ (pc = "read" => ~Enough(i, n))
      BY <2>4
    <3>2. QED
      BY <1>3, <1>8, <1>10, <1>14, <1>15, <2>4, <3>1 DEF Progress, Finished
  <2>5. QED
    BY <1>0, <2>1, <2>2, <2>3, <2>4
<1>17. GotAll(i)'
  BY <1>3, <1>15 DEF GotAll, Finished, Enough
<1>18. ASSUME NEW j \in Filters PROVE PipeShape(j)'
  <2>1. PipeShape(j) /\ j \in Stages /\ j + 1 \in Stages
    BY <1>0, Shape DEF IInv
  <2>2. \A k \in Stages : /\ k # i => stage'[k].pc = stage[k].pc
                          /\ k = i => stage[k].pc = "read" /\
                                 stage'[k].pc \in {"read", "write", "closeReader"}
    BY <1>1, <1>3
  <2>3. pipe'[j].full => pipe[j].full
    BY <1>7
  <2>4. QED
    BY <1>7, <2>1, <2>2, <2>3 DEF PipeShape
<1>19. Ends' /\ GroupShape'
  <2>1. stage'[i].pc \in {"read", "write", "sent", "closeReader"}
    BY <1>3
  <2>2. QED
    BY <1>1, <1>3, <2>1, NotClosing
<1> HIDE DEF n, own, pc
<1>20. QED
  BY <1>1, <1>3, <1>9, <1>10, <1>11, <1>16, <1>17, <1>18, <1>19, GoesOn

\* A goroutine at the end of its input has got everything, if nobody above it
\* has failed and the source is whole.
LEMMA EndMeansAll ==
    ASSUME IInv, NEW i \in Stages, AtEOF(i), i = 1 => Whole, \A k \in 1..(i - 1) : ~stage[k].err
    PROVE  stage[i].got = Input(i)
<1>0. Typed /\ mode \in {"encode", "decode"}
  BY DEF IInv, Typed
<1>1. CASE i = 1
  <2>1. stage[1].got \in Nat
    BY <1>0, <1>1 DEF Typed, Locals
  <2>2. QED
    BY <1>1, <2>1 DEF AtEOF, Whole
<1>2. CASE i # 1
  <2> DEFINE u == i - 1
  <2>1. u \in Filters /\ u \in Stages /\ u # Copier /\ u + 1 = i /\ u \in 1..u /\ u \in Nat
    BY <1>0, <1>2, Shape
  <2>2. pipe[u].wclosed /\ ~pipe[u].full /\ ~stage[u].err
    BY <1>2, <2>1 DEF AtEOF
  <2>3. stage[u].pc \in {"return", "done"} /\ Finished(u)
    BY <2>1, <2>2 DEF IInv, PipeShape, Finished
  <2>4. stage[u].got = Input(u)
    BY <2>1, <2>3 DEF IInv, GotAll
  <2>5. Made(u) = Input(u + 1)
    BY <1>0, <2>1, <2>2, <2>3, <2>4, Inputs DEF IInv, Progress
  <2>6. stage[i].got \in Nat
    BY <1>0 DEF Typed, Locals
  <2> HIDE DEF u
  <2>7. QED
    BY <2>1, <2>2, <2>5, <2>6 DEF Made
<1>3. QED
  BY <1>1, <1>2

LEMMA EndOfInputIInv ==
    ASSUME IInv, NEW i \in Stages, EndOfInput(i)
    PROVE  IInv'
<1>0. Typed /\ mode \in {"encode", "decode"} /\ stage \in [Stages -> Locals] /\ Progress(i)
  BY DEF IInv, Typed
<1>1. /\ stage[i].pc = "read" /\ AtEOF(i)
      /\ UNCHANGED <<given, source, pipe, sink, closed, failed, grp>>
  BY DEF EndOfInput
<1>2. Stages' = Stages /\ Filters' = Filters /\ Copier' = Copier /\ \A j : Input(j)' = Input(j)
  BY <1>1 DEF given, Stages, Filters, Copier, Input
<1>3. ~stage[i].err /\ i \in Nat /\ i > 0
  BY <1>0, <1>1, Shape DEF Progress, Finished
<1>4. (\A k \in 1..i : ~stage[k].err) /\ (i = 1 => Whole) => stage[i].got = Input(i)
  <2>1. (\A k \in 1..i : ~stage[k].err) => \A k \in 1..(i - 1) : ~stage[k].err
    BY <1>3
  <2>2. QED
    BY <1>1, <2>1, EndMeansAll
<1>5. i = 1 /\ (mode = "encode" \/ i = Copier) => Whole
  <2>1. i = 1 /\ i = Copier => chain = <<>>
    BY <1>0 DEF Copier, Typed
  <2>2. QED
    BY <2>1 DEF IInv, SourceShape
<1>6. ASSUME /\ stage' \in [Stages -> Locals] /\ \A j \in Stages \ {i} : stage'[j] = stage[j]
             /\ stage'[i].got = stage[i].got /\ stage'[i].err = stage[i].err
             /\ stage'[i].pc \in {"write", "closeReader"}
             /\ Progress(i)' /\ GotAll(i)'
      PROVE  IInv'
  <2>1. \A j \in Stages : Made(j)' = Made(j)
    BY <1>0, <1>1, <1>2, <1>6, Shape DEF Made
  <2>2. Typed'
    BY <1>0, <1>1, <1>2, <1>6 DEF Typed, given
  <2>3. Ends' /\ GroupShape'
    BY <1>1, <1>6, NotClosing
  <2>4. \A j \in Filters : PipeShape(j)'
    <3> SUFFICES ASSUME NEW j \in Filters PROVE PipeShape(j)'
      OBVIOUS
    <3>1. PipeShape(j) /\ j \in Stages /\ j + 1 \in Stages
      BY <1>0, Shape DEF IInv
    <3>2. \A k \in Stages : /\ k # i => stage'[k].pc = stage[k].pc
                            /\ k = i => stage[k].pc = "read" /\
                                   stage'[k].pc \in {"write", "closeReader"}
      BY <1>1, <1>6
    <3>3. pipe' = pipe
      BY <1>1
    <3>4. QED
      BY <3>1, <3>2, <3>3 DEF PipeShape
  <2>5. source' + stage'[1].got = source + stage[1].got
    BY <1>0, <1>1, <1>6, Shape
  <2>6. QED
    BY <1>1, <1>6, <2>1, <2>2, <2>3, <2>4, <2>5, GoesOn
<1>7. CASE i # Copier /\ mode = "encode"
  <2>1. stage' = [stage EXCEPT ![i].pc = "write", ![i].last = TRUE]
    BY <1>7 DEF EndOfInput
  <2>2. /\ stage' \in [Stages -> Locals] /\ \A j \in Stages \ {i} : stage'[j] = stage[j]
        /\ stage'[i].got = stage[i].got /\ stage'[i].err = stage[i].err
        /\ stage'[i].pc = "write" /\ stage'[i].last
    BY <1>0, <2>1 DEF Locals, Pcs
  <2>3. Made(i)' = Made(i) /\ mode' = mode
    BY <1>0, <1>1, <1>2, <1>7, <2>2, Shape DEF Made, given
  <2>4. Progress(i)'
    BY <1>0, <1>1, <1>2, <1>3, <1>7, <2>2, <2>3 DEF Progress, Finished
  <2>5. GotAll(i)'
    <3>1. (\A k \in 1..i : ~stage'[k].err) => \A k \in 1..i : ~stage[k].err
      BY <1>0, <1>3, <2>2, Shape
    <3>2. QED
      BY <1>2, <1>4, <1>5, <1>7, <2>2, <3>1 DEF GotAll
  <2>6. QED
    BY <1>6, <2>2, <2>4, <2>5
<1>8. CASE ~(i # Copier /\ mode = "encode") /\ (i = Copier \/ stage[i].got = Input(i))
  <2>1. Set(i, "closeReader")
    BY <1>8 DEF EndOfInput
  <2>2. /\ stage' \in [Stages -> Locals] /\ \A j \in Stages \ {i} : stage'[j] = stage[j]
        /\ stage'[i].got = stage[i].got /\ stage'[i].err = stage[i].err
        /\ stage'[i].pc = "closeReader" /\ stage'[i].last = stage[i].last
    BY <1>0, <2>1, SetStep DEF Pcs
  <2>3. Made(i)' = Made(i) /\ mode' = mode
    BY <1>0, <1>1, <1>2, <2>2, Shape DEF Made, given
  <2>4. Progress(i)'
    BY <1>0, <1>1, <1>2, <1>3, <1>8, <2>2, <2>3 DEF Progress, Finished
  <2>5. GotAll(i)'
    <3>1. (\A k \in 1..i : ~stage'[k].err) => \A k \in 1..i : ~stage[k].err
      BY <1>0, <1>3, <2>2, Shape
    <3>2. QED
      BY <1>2, <1>4, <1>5, <1>8, <2>2, <3>1 DEF GotAll
  <2>6. QED
    BY <1>6, <2>2, <2>4, <2>5
<1>9. CASE i # Copier /\ mode = "decode" /\ stage[i].got # Input(i)
  <2>1. Fail(i)
    BY <1>9 DEF EndOfInput
  <2>2. failed # {} \/ ~Whole
    <3>1. (\A k \in Stages : ~stage[k].err) => \A k \in 1..i : ~stage[k].err
      BY <1>0, <1>3, Shape
    <3>2. QED
      BY <1>4, <1>9, <3>1 DEF IInv, NothingFailsAlone
  <2>3. QED
    BY <1>1, <2>1, <2>2, FailIInv
<1>10. QED
  BY <1>0, <1>7, <1>8, <1>9

LEMMA WriteIInv ==
    ASSUME IInv, NEW i \in Stages, Write(i)
    PROVE  IInv'
<1>0. Typed /\ mode \in {"encode", "decode"} /\ stage \in [Stages -> Locals] /\ Progress(i)
      /\ pipe \in [Filters -> Pipes] /\ sink \in Nat /\ stage[i].got \in Nat /\ Input(i) \in Nat
  BY Inputs DEF IInv, Typed, Locals
<1>1. stage[i].pc = "write" /\ UNCHANGED <<given, source, closed, failed, grp>>
  BY DEF Write
<1>2. Stages' = Stages /\ Filters' = Filters /\ Copier' = Copier /\ mode' = mode
      /\ \A j : Input(j)' = Input(j)
  BY <1>1 DEF given, Stages, Filters, Copier, Input
<1>3. ~stage[i].err
  BY <1>0, <1>1 DEF Progress, Finished
<1>4. CASE i = Copier
  <2>1. sink' = sink + 1 /\ pipe' = pipe /\ Written(i)
    BY <1>4 DEF Write
  <2>2. ~stage[i].last /\ Made(i) = stage[i].got - 1 /\ Made(i) = sink
    BY <1>0, <1>1, <1>4 DEF Progress, Made
  <2>3. Set(i, "read")
    BY <2>1, <2>2 DEF Written
  <2>4. /\ stage' \in [Stages -> Locals] /\ \A j \in Stages \ {i} : stage'[j] = stage[j]
        /\ stage'[i].got = stage[i].got /\ stage'[i].err = stage[i].err
        /\ stage'[i].pc = "read" /\ stage'[i].last = stage[i].last
    BY <1>0, <2>3, SetStep DEF Pcs
  <2>5. Made(i)' = stage[i].got
    BY <1>0, <1>2, <1>4, <2>1, <2>2 DEF Made
  <2>6. \A j \in Stages \ {i} : Made(j)' = Made(j)
    BY <1>0, <1>2, <1>4, <2>1, <2>4, Shape DEF Made
  <2>7. Progress(i)' /\ GotAll(i)'
    BY <1>0, <1>2, <1>3, <1>4, <2>2, <2>4, <2>5 DEF Progress, GotAll, Finished
  <2>8. Typed'
    BY <1>0, <1>1, <1>2, <2>1, <2>4 DEF Typed, given
  <2>9. Ends' /\ GroupShape'
    BY <1>1, <2>4, NotClosing
  <2>10. ASSUME NEW j \in Filters PROVE PipeShape(j)'
    <3>1. PipeShape(j) /\ j \in Stages /\ j + 1 \in Stages
      BY <1>0, Shape DEF IInv
    <3>2. \A k \in Stages : /\ k # i => stage'[k].pc = stage[k].pc
                            /\ k = i => stage[k].pc = "write" /\ stage'[k].pc = "read"
      BY <1>1, <2>4
    <3>3. QED
      BY <2>1, <3>1, <3>2 DEF PipeShape
  <2>11. source' + stage'[1].got = source + stage[1].got
    BY <1>0, <1>1, <2>4, Shape
  <2>12. QED
    BY <1>1, <2>4, <2>6, <2>7, <2>8, <2>9, <2>10, <2>11, GoesOn
<1>5. CASE i # Copier /\ ~pipe[i].rclosed
  <2>0. i \in Filters /\ i + 1 \in Stages /\ i + 1 # i /\ i \in Nat
    BY <1>0, <1>5, Shape
  <2>1. sink' = sink /\ pipe' = [pipe EXCEPT ![i].full = TRUE] /\ Set(i, "sent")
    BY <1>5 DEF Write
  <2>2. ~pipe[i].full
    BY <1>1, <2>0 DEF IInv, PipeShape
  <2>3. /\ pipe' \in [Filters -> Pipes] /\ pipe'[i].full
        /\ pipe'[i].rclosed = pipe[i].rclosed /\ pipe'[i].wclosed = pipe[i].wclosed
        /\ \A j \in Filters \ {i} : pipe'[j] = pipe[j]
    BY <1>0, <2>0, <2>1 DEF Pipes
  <2>4. /\ stage' \in [Stages -> Locals] /\ \A j \in Stages \ {i} : stage'[j] = stage[j]
        /\ stage'[i].got = stage[i].got /\ stage'[i].err = stage[i].err
        /\ stage'[i].pc = "sent" /\ stage'[i].last = stage[i].last
    BY <1>0, <2>1, SetStep DEF Pcs
  <2>5. Made(i) \in Nat /\ Made(i)' = Made(i) + 1
    <3>1. stage[i + 1].got \in Nat /\ stage'[i + 1].got = stage[i + 1].got
      BY <1>0, <2>0, <2>4 DEF Locals
    <3>2. QED
      BY <1>2, <1>5, <2>2, <2>3, <3>1 DEF Made
  <2>6. \A j \in Stages \ {i} : Made(j)' = Made(j)
    BY <1>0, <1>2, <2>1, <2>3, <2>4, Shape DEF Made
  <2>7. Progress(i)'
    <3>1. CASE mode = "encode"
      BY <1>0, <1>1, <1>2, <1>3, <1>5, <2>4, <2>5, <3>1 DEF Progress, Finished
    <3>2. CASE mode = "decode"
      BY <1>0, <1>1, <1>2, <1>3, <1>5, <2>4, <2>5, <3>2 DEF Progress, Finished
    <3>3. QED
      BY <1>0, <3>1, <3>2
  <2>8. GotAll(i)'
    <3>1. (\A k \in 1..i : ~stage'[k].err) => \A k \in 1..i : ~stage[k].err
      BY <1>0, <2>0, <2>4, Shape
    <3>2. GotAll(i)
      BY DEF IInv
    <3>3. QED
      BY <1>2, <2>4, <3>1, <3>2 DEF GotAll, Finished
  <2>9. Typed'
    BY <1>0, <1>1, <1>2, <2>1, <2>3, <2>4 DEF Typed, given
  <2>10. Ends' /\ GroupShape'
    BY <1>1, <2>4, NotClosing
  <2>11. ASSUME NEW j \in Filters PROVE PipeShape(j)'
    <3>1. PipeShape(j) /\ j \in Stages /\ j + 1 \in Stages
      BY <1>0, Shape DEF IInv
    <3>2. \A k \in Stages : /\ k # i => stage'[k].pc = stage[k].pc
                            /\ k = i => stage[k].pc = "write" /\ stage'[k].pc = "sent"
      BY <1>1, <2>4
    <3>3. /\ pipe'[j].full => j = i \/ pipe[j].full
          /\ pipe'[j].wclosed = pipe[j].wclosed /\ pipe'[j].rclosed = pipe[j].rclosed
      BY <2>3
    <3>4. QED
      BY <3>1, <3>2, <3>3 DEF PipeShape
  <2>12. source' + stage'[1].got = source + stage[1].got
    BY <1>0, <1>1, <2>4, Shape
  <2>13. QED
    BY <1>1, <2>4, <2>6, <2>7, <2>8, <2>9, <2>10, <2>11, <2>12, GoesOn
<1>6. CASE i # Copier /\ pipe[i].rclosed
  <2>1. Fail(i) /\ UNCHANGED <<pipe, sink>>
    BY <1>6 DEF Write
  <2>2. failed # {} \/ ~Whole
    <3>0. i \in Filters /\ i + 1 \in Stages
      BY <1>0, <1>6, Shape
    <3>1. SUFFICES ASSUME failed = {}, Whole PROVE FALSE
      OBVIOUS
    <3>2. \A k \in Stages : ~stage[k].err
      BY <3>1 DEF IInv, NothingFailsAlone
    <3>3. \A k \in 1..(i + 1) : ~stage[k].err
      BY <1>0, <3>0, <3>2, Shape
    <3>4. Finished(i + 1)
      BY <1>6, <3>0 DEF IInv, PipeShape, Finished
    <3>5. stage[i + 1].got = Input(i + 1) /\ Input(i + 1) \in Nat
      BY <1>0, <3>0, <3>3, <3>4, Inputs DEF IInv, GotAll
    <3>6. Made(i) < Input(i + 1)
      BY <1>1, <3>0, MadeBound
    <3>7. Made(i) >= stage[i + 1].got
      BY <1>6, <3>5 DEF Made
    <3>8. QED
      BY <3>0, <3>5, <3>6, <3>7, MadeBound
  <2>3. QED
    BY <1>1, <2>1, <2>2, FailIInv
<1>7. QED
  BY <1>4, <1>5, <1>6

LEMMA WriteReturnsIInv ==
    ASSUME IInv, NEW i \in Stages, WriteReturns(i)
    PROVE  IInv'
<1>0. Typed /\ mode \in {"encode", "decode"} /\ stage \in [Stages -> Locals] /\ Progress(i)
      /\ pipe \in [Filters -> Pipes] /\ stage[i].got \in Nat /\ Input(i) \in Nat
  BY Inputs DEF IInv, Typed, Locals
<1>1. stage[i].pc = "sent" /\ UNCHANGED <<given, source, sink, closed, failed, grp>>
  BY DEF WriteReturns
<1>2. Stages' = Stages /\ Filters' = Filters /\ Copier' = Copier /\ mode' = mode
      /\ \A j : Input(j)' = Input(j)
  BY <1>1 DEF given, Stages, Filters, Copier, Input
<1>3. ~stage[i].err /\ i # Copier
  BY <1>0, <1>1 DEF Progress, Finished
<1>4. i \in Filters /\ i + 1 \in Stages /\ i \in Nat
  BY <1>0, <1>3, Shape
<1>5. CASE ~pipe[i].full /\ Written(i) /\ pipe' = pipe
  <2> DEFINE pc == IF stage[i].last THEN "closeReader" ELSE "read"
  <2>1. Set(i, pc) /\ pc \in {"closeReader", "read"}
    BY <1>5 DEF Written
  <2>2. /\ stage' \in [Stages -> Locals] /\ \A j \in Stages \ {i} : stage'[j] = stage[j]
        /\ stage'[i].got = stage[i].got /\ stage'[i].err = stage[i].err
        /\ stage'[i].pc = pc /\ stage'[i].last = stage[i].last
    BY <1>0, <2>1, SetStep DEF Pcs
  <2>3. \A j \in Stages : Made(j)' = Made(j)
    BY <1>0, <1>1, <1>2, <1>5, <2>2, Shape DEF Made
  <2>4. Progress(i)'
    <3>1. CASE mode = "encode"
      BY <1>0, <1>1, <1>2, <1>3, <2>2, <2>3, <3>1 DEF Progress, Finished
    <3>2. CASE mode = "decode"
      BY <1>0, <1>1, <1>2, <1>3, <2>2, <2>3, <3>2 DEF Progress, Finished
    <3>3. QED
      BY <1>0, <3>1, <3>2
  <2>5. GotAll(i)'
    <3>1. (\A k \in 1..i : ~stage'[k].err) => \A k \in 1..i : ~stage[k].err
      BY <1>0, <1>4, <2>2, Shape
    <3>2. GotAll(i)
      BY DEF IInv
    <3>3. QED
      BY <1>2, <2>2, <3>1, <3>2 DEF GotAll, Finished
  <2>6. Typed'
    BY <1>0, <1>1, <1>2, <1>5, <2>2 DEF Typed, given
  <2>7. Ends' /\ GroupShape'
    BY <1>1, <2>1, <2>2, NotClosing
  <2>8. ASSUME NEW j \in Filters PROVE PipeShape(j)'
    <3>1. PipeShape(j) /\ j \in Stages /\ j + 1 \in Stages
      BY <1>0, Shape DEF IInv
    <3>2. \A k \in Stages : /\ k # i => stage'[k].pc = stage[k].pc
                            /\ k = i => stage[k].pc = "sent" /\ ~pipe[k].full
                                        /\ stage'[k].pc \in {"closeReader", "read"}
      BY <1>1, <1>5, <2>1, <2>2
    <3>3. QED
      BY <1>5, <3>1, <3>2 DEF PipeShape
  <2>9. source' + stage'[1].got = source + stage[1].got
    BY <1>0, <1>1, <2>2, Shape
  <2>10. QED
    BY <1>1, <2>2, <2>3, <2>4, <2>5, <2>6, <2>7, <2>8, <2>9, GoesOn
<1>6. CASE pipe[i].full /\ pipe[i].rclosed /\ Fail(i) /\ pipe' = [pipe EXCEPT ![i].full = FALSE]
  <2>1. failed # {} \/ ~Whole
    <3>1. SUFFICES ASSUME failed = {}, Whole PROVE FALSE
      OBVIOUS
    <3>2. \A k \in Stages : ~stage[k].err
      BY <3>1 DEF IInv, NothingFailsAlone
    <3>3. \A k \in 1..(i + 1) : ~stage[k].err
      BY <1>0, <1>4, <3>2, Shape
    <3>4. Finished(i + 1)
      BY <1>4, <1>6 DEF IInv, PipeShape, Finished
    <3>5. stage[i + 1].got = Input(i + 1) /\ Input(i + 1) \in Nat
      BY <1>0, <1>4, <3>3, <3>4, Inputs DEF IInv, GotAll
    <3>6. Made(i) <= Input(i + 1)
      BY <1>4, MadeBound
    <3>7. Made(i) = stage[i + 1].got + 1
      BY <1>3, <1>6 DEF Made
    <3>8. QED
      BY <3>5, <3>6, <3>7
  <2>2. QED
    BY <1>1, <1>3, <1>6, <2>1, FailIInv
<1>7. QED
  BY <1>5, <1>6 DEF WriteReturns

LEMMA BreakIInv ==
    ASSUME IInv, NEW i \in Stages, Break(i)
    PROVE  IInv'
BY FailIInv DEF Break

-----------------------------------------------------------------------------
\* A goroutine that is through closes its ends and returns.
LEMMA FinishedIInv ==
    ASSUME IInv, NEW i \in Stages, NEW pc \in {"closeWriter", "return", "done"}, Set(i, pc),
           Finished(i), UNCHANGED <<given, source, sink, failed>>,
           pipe' \in [Filters -> Pipes], \A j \in Filters : pipe'[j].full = pipe[j].full,
           closed' \subseteq {"source", "sink"},
           grp' \in [err : BOOLEAN, ret : {"none", "nil", "error"}],
           \A j \in Filters : PipeShape(j)',
           Ends', GroupShape'
    PROVE  IInv'
<1>0. Typed /\ Progress(i) /\ GotAll(i)
  BY DEF IInv
<1>1. Stages' = Stages /\ Filters' = Filters /\ Copier' = Copier /\ mode' = mode
      /\ \A j : Input(j)' = Input(j)
  BY DEF given, Stages, Filters, Copier, Input
<1>2. /\ stage' \in [Stages -> Locals] /\ \A j \in Stages \ {i} : stage'[j] = stage[j]
      /\ stage'[i].got = stage[i].got /\ stage'[i].err = stage[i].err
      /\ stage'[i].pc = pc /\ stage'[i].last = stage[i].last
  BY <1>0, SetStep DEF Pcs
<1>3. \A j \in Stages : Made(j)' = Made(j)
  <2>1. \A j \in Stages : stage'[j].got = stage[j].got
    BY <1>2
  <2>2. QED
    BY <1>0, <1>1, <2>1, Shape DEF Made
<1>4. Finished(i)'
  BY <1>2 DEF Finished
<1>5. Progress(i)'
  <2>1. stage[i].pc \notin {"read", "write", "sent"} /\ stage'[i].pc \notin {"read", "write", "sent"}
    BY <1>2 DEF Finished
  <2>2. QED
    BY <1>0, <1>1, <1>2, <1>3, <1>4, <2>1 DEF Progress
<1>6. GotAll(i)'
  <2>1. (\A k \in 1..i : ~stage'[k].err) => \A k \in 1..i : ~stage[k].err
    BY <1>0, <1>2, Shape
  <2>2. QED
    BY <1>0, <1>1, <1>2, <2>1 DEF GotAll
<1>7. Typed'
  BY <1>0, <1>1, <1>2 DEF Typed, given
<1>8. source' + stage'[1].got = source + stage[1].got
  BY <1>0, <1>2, Shape
<1>9. QED
  BY <1>2, <1>3, <1>5, <1>6, <1>7, <1>8, GoesOn

LEMMA CloseReaderIInv ==
    ASSUME IInv, NEW i \in Stages, CloseReader(i)
    PROVE  IInv'
<1>0. Typed /\ pipe \in [Filters -> Pipes] /\ closed \subseteq {"source", "sink"}
      /\ grp \in [err : BOOLEAN, ret : {"none", "nil", "error"}] /\ Ends /\ GroupShape
  BY DEF IInv, Typed
<1>1. stage[i].pc = "closeReader" /\ Set(i, "closeWriter")
      /\ UNCHANGED <<given, source, sink, failed, grp>>
  BY DEF CloseReader
<1>2. Stages' = Stages /\ Copier' = Copier
  BY <1>1 DEF given, Stages, Copier
<1>3. /\ stage'[i].pc = "closeWriter" /\ stage'[i].err = stage[i].err
      /\ \A j \in Stages \ {i} : stage'[j] = stage[j]
  BY <1>0, <1>1, SetStep DEF Pcs
<1>4. \/ i = 1 /\ closed' = closed \union {"source"} /\ pipe' = pipe
      \/ /\ i # 1 /\ i - 1 \in Filters /\ closed' = closed
         /\ pipe' = [pipe EXCEPT ![i - 1].rclosed = TRUE]
  BY <1>0, Shape DEF CloseReader
<1>5. /\ pipe' \in [Filters -> Pipes]
      /\ \A j \in Filters : /\ pipe'[j].full = pipe[j].full /\ pipe'[j].wclosed = pipe[j].wclosed
                            /\ j # i - 1 => pipe'[j].rclosed = pipe[j].rclosed
                            /\ j = i - 1 => pipe'[j].rclosed
  <2>1. CASE i = 1
    <3>1. \A j \in Filters : j # i - 1
      BY <1>0, <2>1, Shape
    <3>2. QED
      BY <1>0, <1>4, <2>1, <3>1
  <2>2. CASE i # 1
    <3> DEFINE k == i - 1
    <3>1. k \in Filters /\ pipe' = [pipe EXCEPT ![k].rclosed = TRUE]
      BY <1>4, <2>2
    <3> HIDE DEF k
    <3>2. /\ pipe' \in [Filters -> Pipes] /\ pipe'[k].rclosed
          /\ pipe'[k].full = pipe[k].full /\ pipe'[k].wclosed = pipe[k].wclosed
          /\ \A j \in Filters \ {k} : pipe'[j] = pipe[j]
      BY <1>0, <3>1 DEF Pipes
    <3>3. QED
      BY <3>1, <3>2 DEF k
  <2>3. QED
    BY <2>1, <2>2
<1>6. ASSUME NEW j \in Filters PROVE PipeShape(j)'
  <2>1. PipeShape(j) /\ j \in Stages /\ j + 1 \in Stages /\ j \in Nat /\ i \in Nat
    BY <1>0, Shape DEF IInv
  <2>2. \A k \in Stages : /\ k # i => stage'[k].pc = stage[k].pc
                          /\ k = i => stage[k].pc = "closeReader" /\ stage'[k].pc = "closeWriter"
    BY <1>1, <1>3
  <2>3. j = i - 1 <=> j + 1 = i
    BY <2>1
  <2>4. QED
    BY <1>5, <2>1, <2>2, <2>3 DEF PipeShape
<1>7. closed' \subseteq {"source", "sink"} /\ Ends'
  <2>1. 1 \in Stages /\ Copier \in Stages
    BY <1>0, Shape
  <2>2. closed \subseteq closed' /\ closed' \subseteq {"source", "sink"}
        /\ (i = 1 => "source" \in closed')
    BY <1>0, <1>4
  <2>3. QED
    BY <1>0, <1>1, <1>2, <1>3, <2>1, <2>2 DEF Ends
<1>8. GroupShape'
  <2>1. \A k \in Stages : stage'[k].err = stage[k].err /\ (stage'[k].pc = "done" => stage[k].pc = "done")
    BY <1>3
  <2>2. grp.ret = "none" /\ failed \subseteq Stages
    BY <1>0, <1>1 DEF GroupShape, Typed
  <2>3. QED
    BY <1>0, <1>1, <1>2, <2>1, <2>2 DEF GroupShape
<1>9. QED
  BY <1>0, <1>1, <1>5, <1>6, <1>7, <1>8, FinishedIInv DEF Finished

LEMMA CloseWriterIInv ==
    ASSUME IInv, NEW i \in Stages, CloseWriter(i)
    PROVE  IInv'
<1>0. Typed /\ pipe \in [Filters -> Pipes] /\ closed \subseteq {"source", "sink"}
      /\ grp \in [err : BOOLEAN, ret : {"none", "nil", "error"}] /\ Ends /\ GroupShape
  BY DEF IInv, Typed
<1>1. stage[i].pc = "closeWriter" /\ Set(i, "return")
      /\ UNCHANGED <<given, source, sink, failed, grp>>
  BY DEF CloseWriter
<1>2. Stages' = Stages /\ Copier' = Copier
  BY <1>1 DEF given, Stages, Copier
<1>3. /\ stage'[i].pc = "return" /\ stage'[i].err = stage[i].err
      /\ \A j \in Stages \ {i} : stage'[j] = stage[j]
  BY <1>0, <1>1, SetStep DEF Pcs
<1>4. \/ i = Copier /\ closed' = closed \union {"sink"} /\ pipe' = pipe
      \/ /\ i # Copier /\ i \in Filters /\ closed' = closed
         /\ pipe' = [pipe EXCEPT ![i].wclosed = TRUE]
  BY <1>0, Shape DEF CloseWriter
<1>5. /\ pipe' \in [Filters -> Pipes]
      /\ \A j \in Filters : /\ pipe'[j].full = pipe[j].full /\ pipe'[j].rclosed = pipe[j].rclosed
                            /\ j # i => pipe'[j].wclosed = pipe[j].wclosed
                            /\ j = i => pipe'[j].wclosed
  <2>1. CASE i = Copier
    BY <1>0, <1>4, <2>1, Shape
  <2>2. CASE i # Copier
    <3>1. i \in Filters /\ pipe' = [pipe EXCEPT ![i].wclosed = TRUE]
      BY <1>4, <2>2
    <3>2. /\ pipe' \in [Filters -> Pipes] /\ pipe'[i].wclosed
          /\ pipe'[i].full = pipe[i].full /\ pipe'[i].rclosed = pipe[i].rclosed
          /\ \A j \in Filters \ {i} : pipe'[j] = pipe[j]
      BY <1>0, <3>1 DEF Pipes
    <3>3. QED
      BY <3>1, <3>2
  <2>3. QED
    BY <2>1, <2>2
<1>6. ASSUME NEW j \in Filters PROVE PipeShape(j)'
  <2>1. PipeShape(j) /\ j \in Stages /\ j + 1 \in Stages
    BY <1>0, Shape DEF IInv
  <2>2. \A k \in Stages : /\ k # i => stage'[k].pc = stage[k].pc
                          /\ k = i => stage[k].pc = "closeWriter" /\ stage'[k].pc = "return"
    BY <1>1, <1>3
  <2>3. QED
    BY <1>5, <2>1, <2>2 DEF PipeShape
<1>7. closed' \subseteq {"source", "sink"} /\ Ends'
  <2>1. 1 \in Stages /\ Copier \in Stages
    BY <1>0, Shape
  <2>2. closed \subseteq closed' /\ closed' \subseteq {"source", "sink"}
        /\ (i = Copier => "sink" \in closed')
    BY <1>0, <1>4
  <2>3. QED
    BY <1>0, <1>1, <1>2, <1>3, <2>1, <2>2 DEF Ends
<1>8. GroupShape'
  <2>1. \A k \in Stages : stage'[k].err = stage[k].err /\ (stage'[k].pc = "done" => stage[k].pc = "done")
    BY <1>3
  <2>2. grp.ret = "none" /\ failed \subseteq Stages
    BY <1>0, <1>1 DEF GroupShape, Typed
  <2>3. QED
    BY <1>0, <1>1, <1>2, <2>1, <2>2 DEF GroupShape
<1>9. QED
  BY <1>0, <1>1, <1>5, <1>6, <1>7, <1>8, FinishedIInv DEF Finished

LEMMA GoReturnsIInv ==
    ASSUME IInv, NEW i \in Stages, GoReturns(i)
    PROVE  IInv'
<1>0. Typed /\ pipe \in [Filters -> Pipes] /\ closed \subseteq {"source", "sink"}
      /\ grp \in [err : BOOLEAN, ret : {"none", "nil", "error"}] /\ Ends /\ GroupShape
      /\ stage \in [Stages -> Locals]
  BY DEF IInv, Typed
<1>1. stage[i].pc = "return" /\ Set(i, "done")
      /\ UNCHANGED <<given, source, pipe, sink, closed, failed>>
      /\ grp' = [grp EXCEPT !.err = @ \/ stage[i].err]
  BY DEF GoReturns
<1>2. Stages' = Stages /\ Copier' = Copier
  BY <1>1 DEF given, Stages, Copier
<1>3. /\ stage'[i].pc = "done" /\ stage'[i].err = stage[i].err
      /\ \A j \in Stages \ {i} : stage'[j] = stage[j]
  BY <1>0, <1>1, SetStep DEF Pcs
<1>4. /\ grp' \in [err : BOOLEAN, ret : {"none", "nil", "error"}] /\ grp'.ret = grp.ret
      /\ grp.err \/ stage[i].err => grp'.err
  <2> DEFINE e == grp.err \/ stage[i].err
  <2>1. e \in BOOLEAN /\ grp' = [grp EXCEPT !.err = e]
    BY <1>1
  <2> HIDE DEF e
  <2>2. grp' \in [err : BOOLEAN, ret : {"none", "nil", "error"}] /\ grp'.ret = grp.ret
        /\ (e => grp'.err)
    BY <1>0, <2>1
  <2>3. QED
    BY <2>2 DEF e
<1>5. ASSUME NEW j \in Filters PROVE PipeShape(j)'
  <2>1. PipeShape(j) /\ j \in Stages /\ j + 1 \in Stages
    BY <1>0, Shape DEF IInv
  <2>2. \A k \in Stages : /\ k # i => stage'[k].pc = stage[k].pc
                          /\ k = i => stage[k].pc = "return" /\ stage'[k].pc = "done"
    BY <1>1, <1>3
  <2>3. QED
    BY <1>1, <2>1, <2>2 DEF PipeShape
<1>6. Ends'
  <2>1. 1 \in Stages /\ Copier \in Stages
    BY <1>0, Shape
  <2>2. QED
    BY <1>0, <1>1, <1>2, <1>3, <2>1 DEF Ends
<1>7. GroupShape'
  <2>1. \A k \in Stages : stage'[k].err = stage[k].err
                          /\ (stage'[k].pc = "done" => stage[k].pc = "done" \/ k = i)
    BY <1>3
  <2>2. grp.ret = "none" /\ failed \subseteq Stages
    BY <1>0, <1>1 DEF GroupShape, Typed
  <2>3. QED
    BY <1>0, <1>1, <1>2, <1>4, <2>1, <2>2 DEF GroupShape
<1>8. QED
  BY <1>0, <1>1, <1>4, <1>5, <1>6, <1>7, FinishedIInv DEF Finished

LEMMA WaitIInv == IInv /\ Wait => IInv'
<1> SUFFICES ASSUME IInv, Wait PROVE IInv'
  OBVIOUS
<1>1. /\ UNCHANGED <<chain, mode, size, source, stage, pipe, sink, closed, failed>>
      /\ \A i \in Stages : stage[i].pc = "done"
      /\ grp' = [grp EXCEPT !.ret = IF grp.err THEN "error" ELSE "nil"]
      /\ Typed /\ GroupShape
      /\ grp \in [err : BOOLEAN, ret : {"none", "nil", "error"}]
  BY DEF Wait, given, IInv, Typed
<1>2. /\ Stages' = Stages /\ Filters' = Filters /\ Copier' = Copier /\ Whole' = Whole
      /\ \A j : Input(j)' = Input(j)
  BY <1>1 DEF Stages, Filters, Copier, Input, Whole
<1>3. /\ grp' \in [err : BOOLEAN, ret : {"none", "nil", "error"}] /\ grp'.err = grp.err
      /\ grp'.ret = "nil" => ~grp.err
  BY <1>1
<1>4. Typed' /\ GroupShape'
  BY <1>1, <1>2, <1>3 DEF Typed, GroupShape
<1>5. \A j : (Made(j)' = Made(j)) /\ (Finished(j)' <=> Finished(j))
  BY <1>1, <1>2 DEF Made, Finished
<1>6. \A j \in Stages : Progress(j)' /\ GotAll(j)'
  BY <1>1, <1>2, <1>5 DEF IInv, Progress, GotAll
<1>7. (\A j \in Filters : PipeShape(j)') /\ Ends' /\ SourceShape' /\ NothingFailsAlone'
  BY <1>1, <1>2 DEF IInv, PipeShape, Ends, SourceShape, NothingFailsAlone
<1>8. QED
  BY <1>2, <1>4, <1>6, <1>7 DEF IInv

LEMMA StutterIInv == IInv /\ UNCHANGED vars => IInv'
BY DEF IInv, vars, Typed, Progress, GotAll, PipeShape, Ends, SourceShape, GroupShape,
       NothingFailsAlone, Finished, Made, Whole, Input, Stages, Filters, Copier

LEMMA NextIInv == IInv /\ [Next]_vars => IInv'
<1> SUFFICES ASSUME IInv, [Next]_vars PROVE IInv'
  OBVIOUS
<1>1. ASSUME NEW i \in Stages, Step(i) PROVE IInv'
  BY <1>1, ReceiveIInv, EndOfInputIInv, WriteIInv, WriteReturnsIInv, CloseReaderIInv,
     CloseWriterIInv, GoReturnsIInv DEF Step
<1>2. ASSUME NEW i \in Stages, Break(i) PROVE IInv'
  BY <1>2, BreakIInv
<1>3. CASE Wait
  BY <1>3, WaitIInv
<1>4. CASE UNCHANGED vars
  BY <1>4, StutterIInv
<1>5. QED
  BY <1>1, <1>2, <1>3, <1>4 DEF Next, Returned

LEMMA SpecIInv == Spec => []IInv
<1>1. Init => IInv
  BY InitIInv
<1>2. IInv /\ [Next]_vars => IInv'
  BY NextIInv
<1>3. QED
  BY <1>1, <1>2, PTL DEF Spec

-----------------------------------------------------------------------------
\* The state of every goroutine and pipe keeps its type: what a goroutine has
\* counted stays within MaxChunks and one more for each goroutine, what is at
\* the destination within what there is in all, however the chain fails.
THEOREM TypeCorrect == Spec => []TypeOK
<1>1. IInv => TypeOK
  <2> SUFFICES ASSUME IInv PROVE TypeOK
    OBVIOUS
  <2>1. Typed /\ size \in 0..MaxChunks /\ mode \in {"encode", "decode"}
    BY DEF IInv, Typed
  <2>2. 1 \in Stages /\ Copier \in Stages /\ Copier \in Nat /\ MaxChunks \in Nat
    BY <2>1, FilterChainAssumption, Shape
  <2>3. \A i \in Stages : Input(i) \in Nat /\ stage[i].got \in Nat
    BY <2>1, Inputs DEF Typed, Locals
  <2>4. source \in 0..Input(1)
    BY <2>1, <2>2, <2>3 DEF IInv, SourceShape, Typed
  <2>5. sink \in 0..Output
    <3>1. Progress(Copier) /\ Made(Copier) = sink /\ sink \in Nat /\ Output = Input(Copier)
      BY <2>1, <2>2, Inputs DEF IInv, Made, Typed
    <3>2. QED
      BY <2>2, <2>3, <3>1 DEF Progress
  <2>6. ASSUME NEW i \in Stages
        PROVE  stage[i].got \in 0..(MaxChunks + Copier)
    <3>1. Progress(i) /\ i \in Nat /\ i > 0 /\ i <= Copier
      BY <2>1, Shape DEF IInv
    <3>2. Input(i) <= MaxChunks + Copier
      BY <2>1, <2>2, <3>1 DEF Input
    <3>3. QED
      BY <2>2, <2>3, <3>1, <3>2 DEF Progress
  <2>7. stage \in [Stages -> [pc : {"read", "write", "sent", "closeReader", "closeWriter", "return",
                                    "done"},
                              got : 0..(MaxChunks + Copier), last : BOOLEAN, err : BOOLEAN]]
    <3>1. stage \in [Stages -> Locals]
      BY <2>1 DEF Typed
    <3>2. QED
      BY <2>6, <3>1 DEF Locals, Pcs
  <2>8. QED
    BY <2>1, <2>4, <2>5, <2>7 DEF TypeOK, Typed, Pipes
<1>2. QED
  BY <1>1, SpecIInv, PTL

\* nil from encode or decode means that the destination has all of the data,
\* that no goroutine has failed and that the object was not cut short.
THEOREM NilIsComplete == Spec => []NilMeansComplete
<1>1. IInv => NilMeansComplete
  <2> SUFFICES ASSUME IInv, grp.ret = "nil" PROVE sink = Output /\ failed = {} /\ Whole
    BY DEF NilMeansComplete
  <2>1. Typed /\ 1 \in Stages /\ Copier \in Stages
    BY Shape DEF IInv
  <2>2. \A i \in Stages : stage[i].pc = "done" /\ ~stage[i].err
    BY DEF IInv, GroupShape
  <2>3. failed = {}
    BY <2>1, <2>2 DEF IInv, GroupShape, Typed
  <2>4. \A i \in Stages : stage[i].got = Input(i)
    <3> SUFFICES ASSUME NEW i \in Stages PROVE stage[i].got = Input(i)
      OBVIOUS
    <3>1. \A k \in 1..i : k \in Stages
      BY <2>1, Shape
    <3>2. QED
      BY <2>2, <3>1 DEF IInv, GotAll, Finished
  <2>5. Whole
    <3>1. source \in Nat /\ stage[1].got \in Nat /\ source + stage[1].got <= Input(1)
      BY <2>1 DEF IInv, SourceShape, Typed, Locals
    <3>2. QED
      BY <2>1, <2>4, <3>1 DEF Whole
  <2>6. sink = Output
    <3>1. Finished(Copier) /\ Made(Copier) = sink /\ Output = Input(Copier)
      BY <2>1, <2>2, Inputs DEF Finished, Made
    <3>2. QED
      BY <2>1, <2>2, <2>4, <3>1 DEF IInv, Progress
  <2>7. QED
    BY <2>3, <2>5, <2>6
<1>2. QED
  BY <1>1, SpecIInv, PTL

\* When encode or decode returns, everything is closed and every goroutine is
\* done, whatever has failed.
THEOREM AllClosedAtReturn == Spec => []ClosedAtReturn
<1>1. IInv => ClosedAtReturn
  <2> SUFFICES ASSUME IInv, grp.ret # "none"
               PROVE  /\ closed = {"source", "sink"}
                      /\ \A i \in Filters : pipe[i].rclosed /\ pipe[i].wclosed
                      /\ \A i \in Stages : stage[i].pc = "done"
    BY DEF ClosedAtReturn
  <2>1. Typed /\ \A i \in Stages : stage[i].pc = "done"
    BY DEF IInv, GroupShape
  <2>2. closed = {"source", "sink"}
    BY <2>1, Shape DEF IInv, Ends, Typed
  <2>3. \A i \in Filters : pipe[i].rclosed /\ pipe[i].wclosed
    BY <2>1, Shape DEF IInv, PipeShape
  <2>4. QED
    BY <2>1, <2>2, <2>3
<1>2. QED
  BY <1>1, SpecIInv, PTL

\* A flate decoder that closes its pipe early, and every goroutine that is
\* done, does so when nothing is left to write: without a cause nobody fails.
THEOREM NoErrorWithoutCause == Spec => []NothingFailsAlone
<1>1. IInv => NothingFailsAlone
  BY DEF IInv
<1>2. QED
  BY <1>1, SpecIInv, PTL
=============================================================================
