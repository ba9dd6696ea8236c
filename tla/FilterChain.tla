----------------------------- MODULE FilterChain -----------------------------
(***************************************************************************)
(* filterChain.encode and decode of objs.go: one goroutine for each filter *)
(* and one that copies into the destination, joined by io.Pipes, under an  *)
(* errgroup.  A Write to a pipe blocks until it is read, or until the      *)
(* reader is closed.  A goroutine that is done closes its reader, then its *)
(* writer: what is above it fails to write, what is below it meets the end *)
(* of its input, whether the goroutine was successful or not.              *)
(*                                                                         *)
(* Data is chunks that are counted.  A filter that encodes adds a chunk of *)
(* its own once its input ends, and wants to see that chunk to decode.     *)
(***************************************************************************)
EXTENDS Naturals, Sequences

CONSTANTS
    Chains,     \* the chains that are run, as upload puts them in the object
    MaxChunks   \* bound on the chunks of a file

ASSUME FilterChainAssumption ==
    /\ Chains \subseteq Seq({"flate", "sio"})
    /\ MaxChunks \in Nat

VARIABLES
    chain,      \* the filters
    mode,       \* "encode" or "decode"
    size,       \* the chunks of the file that is, or was, encoded
    source,     \* chunks left of the source
    stage,      \* the locals of the goroutines
    pipe,       \* pipe[i] is below goroutine i
    sink,       \* chunks in the destination
    closed,     \* which of source and destination have been closed
    failed,     \* goroutines that failed of their own
    grp         \* the first error of the errgroup and what Wait has returned

vars == <<chain, mode, size, source, stage, pipe, sink, closed, failed, grp>>

Filters == 1..Len(chain)
Copier == Len(chain) + 1
Stages == 1..Copier

\* Decoding runs the chain from its end.
Kind(i) == IF mode = "encode" THEN chain[i] ELSE chain[Copier - i]

\* The chunks goroutine i reads, and all in all the destination gets, when
\* nothing fails.
Input(i) == IF mode = "encode" THEN size + i - 1 ELSE size + Copier - i
Output == Input(Copier)

NewStage == [pc |-> "read", got |-> 0, last |-> FALSE, err |-> FALSE]
NewPipe == [full |-> FALSE, rclosed |-> FALSE, wclosed |-> FALSE]

TypeOK ==
    /\ chain \in Chains /\ mode \in {"encode", "decode"} /\ size \in 0..MaxChunks
    /\ source \in 0..Input(1)
    /\ stage \in [Stages -> [pc : {"read", "write", "sent", "closeReader", "closeWriter", "return",
                                   "done"},
                             got : 0..(MaxChunks + Copier), last : BOOLEAN, err : BOOLEAN]]
    /\ pipe \in [Filters -> [full : BOOLEAN, rclosed : BOOLEAN, wclosed : BOOLEAN]]
    /\ sink \in 0..Output
    /\ closed \subseteq {"source", "sink"}
    /\ failed \subseteq Stages
    /\ grp \in [err : BOOLEAN, ret : {"none", "nil", "error"}]

\* An object that is decoded may have been cut short, if it has filters.
Init ==
    /\ chain \in Chains /\ mode \in {"encode", "decode"} /\ size \in 0..MaxChunks
    /\ \/ source = Input(1)
       \/ mode = "decode" /\ chain # <<>> /\ source \in 0..Input(1)
    /\ stage = [i \in Stages |-> NewStage]
    /\ pipe = [i \in Filters |-> NewPipe]
    /\ sink = 0 /\ closed = {} /\ failed = {}
    /\ grp = [err |-> FALSE, ret |-> "none"]

-----------------------------------------------------------------------------
given == <<chain, mode, size>>

Set(i, pc) == stage' = [stage EXCEPT ![i].pc = pc]
Fail(i) == stage' = [stage EXCEPT ![i].pc = "closeReader", ![i].err = TRUE]

Readable(i) == IF i = 1 THEN source > 0 ELSE pipe[i - 1].full
AtEOF(i) == IF i = 1 THEN source = 0 ELSE pipe[i - 1].wclosed /\ ~pipe[i - 1].full

\* Faulty variant of Enough: the copy stops at the size of the file.
EnoughForSize(i, n) == i = Copier /\ n = size

\* flate's reader is done with the last block and does not look for the end
\* of its input; sio's decides at the end whether the data is authentic.
Enough(i, n) ==
    i # Copier /\ mode = "decode" /\ Kind(i) = "flate" /\ n = Input(i)

\* A decoder keeps the last chunk, which is the filter's own, to itself.
Receive(i) ==
    /\ stage[i].pc = "read" /\ Readable(i)
    /\ LET n == stage[i].got + 1
           own == i # Copier /\ mode = "decode" /\ n = Input(i)
       IN  stage' = [stage EXCEPT ![i].got = n, ![i].last = Enough(i, n),
               ![i].pc = IF ~own THEN "write" ELSE IF Enough(i, n) THEN "closeReader" ELSE "read"]
    /\ IF i = 1 THEN source' = source - 1 /\ UNCHANGED pipe
       ELSE pipe' = [pipe EXCEPT ![i - 1].full = FALSE] /\ UNCHANGED source
    /\ UNCHANGED <<given, sink, closed, failed, grp>>

\* Faulty variant of EndOfInput: the end of the input is the end of the data.
EndOfInputAnywhere(i) ==
    /\ stage[i].pc = "read" /\ AtEOF(i)
    /\ IF i # Copier /\ mode = "encode"
       THEN stage' = [stage EXCEPT ![i].pc = "write", ![i].last = TRUE]
       ELSE Set(i, "closeReader")
    /\ UNCHANGED <<given, source, pipe, sink, closed, failed, grp>>

\* An encoder closes its stream, a decoder misses the last chunk.
EndOfInput(i) ==
    /\ stage[i].pc = "read" /\ AtEOF(i)
    /\ IF i # Copier /\ mode = "encode"
       THEN stage' = [stage EXCEPT ![i].pc = "write", ![i].last = TRUE]
       ELSE IF i = Copier \/ stage[i].got = Input(i)
            THEN Set(i, "closeReader")
            ELSE Fail(i)
    /\ UNCHANGED <<given, source, pipe, sink, closed, failed, grp>>

\* Faulty variant of Written: the last chunk does not end it.
WrittenOn(i) == Set(i, IF stage[i].last THEN "write" ELSE "read")

Written(i) == Set(i, IF stage[i].last THEN "closeReader" ELSE "read")

\* A Write to the pipe offers the data; one to the destination is done.
Write(i) ==
    /\ stage[i].pc = "write"
    /\ \/ i = Copier /\ sink' = sink + 1 /\ Written(i) /\ UNCHANGED pipe
       \/ /\ i # Copier /\ ~pipe[i].rclosed
          /\ pipe' = [pipe EXCEPT ![i].full = TRUE] /\ Set(i, "sent")
          /\ UNCHANGED sink
       \/ i # Copier /\ pipe[i].rclosed /\ Fail(i) /\ UNCHANGED <<pipe, sink>>
    /\ UNCHANGED <<given, source, closed, failed, grp>>

\* ... and returns when it has been read, or fails with io.ErrClosedPipe.
WriteReturns(i) ==
    /\ stage[i].pc = "sent"
    /\ \/ ~pipe[i].full /\ Written(i) /\ UNCHANGED pipe
       \/ /\ pipe[i].full /\ pipe[i].rclosed
          /\ Fail(i)
          /\ pipe' = [pipe EXCEPT ![i].full = FALSE]
    /\ UNCHANGED <<given, source, sink, closed, failed, grp>>

\* Reading the source, the filter, or writing the destination goes wrong.
Break(i) ==
    /\ stage[i].pc \in {"read", "write"}
    /\ Fail(i)
    /\ failed' = failed \union {i}
    /\ UNCHANGED <<given, source, pipe, sink, closed, grp>>

-----------------------------------------------------------------------------
\* Faulty variant of CloseReader: nobody closes the pipe.
CloseNoReader(i) ==
    /\ stage[i].pc = "closeReader"
    /\ Set(i, "closeWriter")
    /\ UNCHANGED <<given, source, pipe, sink, closed, failed, grp>>

\* defer currentReader.Close()
CloseReader(i) ==
    /\ stage[i].pc = "closeReader"
    /\ Set(i, "closeWriter")
    /\ IF i = 1 THEN closed' = closed \union {"source"} /\ UNCHANGED pipe
       ELSE pipe' = [pipe EXCEPT ![i - 1].rclosed = TRUE] /\ UNCHANGED closed
    /\ UNCHANGED <<given, source, sink, failed, grp>>

\* Faulty variant of CloseWriter: the destination stays open.
CloseWriterOfPipe(i) ==
    /\ stage[i].pc = "closeWriter"
    /\ Set(i, "return")
    /\ pipe' = IF i = Copier THEN pipe ELSE [pipe EXCEPT ![i].wclosed = TRUE]
    /\ UNCHANGED <<given, source, sink, closed, failed, grp>>

\* defer pipeWriter.Close(), which is the end of the data below
CloseWriter(i) ==
    /\ stage[i].pc = "closeWriter"
    /\ Set(i, "return")
    /\ IF i = Copier THEN closed' = closed \union {"sink"} /\ UNCHANGED pipe
       ELSE pipe' = [pipe EXCEPT ![i].wclosed = TRUE] /\ UNCHANGED closed
    /\ UNCHANGED <<given, source, sink, failed, grp>>

\* Faulty variant of GoReturns: only the error of the copy counts.
GoReturnsForCopy(i) ==
    /\ stage[i].pc = "return"
    /\ Set(i, "done")
    /\ grp' = [grp EXCEPT !.err = @ \/ (i = Copier /\ stage[i].err)]
    /\ UNCHANGED <<given, source, pipe, sink, closed, failed>>

\* The errgroup keeps the first error there is.
GoReturns(i) ==
    /\ stage[i].pc = "return"
    /\ Set(i, "done")
    /\ grp' = [grp EXCEPT !.err = @ \/ stage[i].err]
    /\ UNCHANGED <<given, source, pipe, sink, closed, failed>>

\* Faulty variant of Wait: the copy is waited for, not the filters.
WaitForCopy ==
    /\ grp.ret = "none"
    /\ stage[Copier].pc = "done"
    /\ grp' = [grp EXCEPT !.ret = IF grp.err THEN "error" ELSE "nil"]
    /\ UNCHANGED <<given, source, stage, pipe, sink, closed, failed>>

Wait ==
    /\ grp.ret = "none"
    /\ \A i \in Stages : stage[i].pc = "done"
    /\ grp' = [grp EXCEPT !.ret = IF grp.err THEN "error" ELSE "nil"]
    /\ UNCHANGED <<given, source, stage, pipe, sink, closed, failed>>

Step(i) ==
    \/ Receive(i) \/ EndOfInput(i) \/ Write(i) \/ WriteReturns(i)
    \/ CloseReader(i) \/ CloseWriter(i) \/ GoReturns(i)

Returned == grp.ret # "none" /\ UNCHANGED vars

Next ==
    \/ \E i \in Stages : Step(i) \/ Break(i)
    \/ Wait
    \/ Returned

\* No goroutine that can go on is kept from it for ever.
Fairness ==
    /\ \A i \in UNION {1..(Len(c) + 1) : c \in Chains} : WF_vars(i \in Stages /\ Step(i))
    /\ WF_vars(Wait)

Spec == Init /\ [][Next]_vars /\ Fairness

-----------------------------------------------------------------------------
\* What was stored is all there.
Whole == source + stage[1].got = Input(1)

\* encode and decode return nil only when the destination has everything: an
\* error of any goroutine, and an object that was cut short, are reported,
\* although the goroutines below have met a proper end of their input.
NilMeansComplete == grp.ret = "nil" => sink = Output /\ failed = {} /\ Whole

\* A goroutine that closes its pipe when it is done never breaks one that
\* still has something to write: no error without a cause.
NothingFailsAlone == failed = {} /\ Whole => \A i \in Stages : ~stage[i].err

\* When encode or decode returns, the source, the destination and both ends
\* of every pipe are closed, and no goroutine is left.
ClosedAtReturn ==
    grp.ret # "none" =>
        /\ closed = {"source", "sink"}
        /\ \A i \in Filters : pipe[i].rclosed /\ pipe[i].wclosed
        /\ \A i \in Stages : stage[i].pc = "done"

\* Whatever fails, nobody is left waiting at a pipe: the caller, who holds
\* the locks of the object, gets an answer.
Terminates == <>(grp.ret # "none")
=============================================================================
