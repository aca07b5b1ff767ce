-------------------------- MODULE MCBatchedFunction --------------------------
(* The functions the batch maker is checked on. *)
EXTENDS BatchedFunction, SmallFunctions

(* A function with the call instructions of its blocks. *)
WithCalls(f, calls) == f @@ [calls |-> calls]

NoCalls(n) == [b \in 1 .. n |-> <<>>]

(* Each way to put one marker into a function of n blocks, with a call     *)
(* before it.                                                              *)
MarkedIn(f, n) ==
  {WithCalls(f, [NoCalls(n) EXCEPT ![m] = <<"call", "batch_begin">>]) : m \in 1 .. n}

SmallBatches == -1 .. 3

(* Four blocks, of which the last returns; loops are possible.  In some    *)
(* functions block 3 is a trap.                                            *)
LoopGraphs == {<<s1, s2, s3, <<>>>> :
  s1 \in UnorderedJumpsInto(2 .. 4), s2 \in UnorderedJumpsInto(2 .. 4), s3 \in UnorderedJumpsInto(3 .. 4)}

TrapGraphs == {<<s1, s2, <<>>, <<>>>> :
  s1 \in UnorderedJumpsInto(2 .. 4), s2 \in UnorderedJumpsInto(3 .. 4)}

Trapping(f, b) == [f EXCEPT !.term[b] = "unreachable"]

LoopFunctions == {FunctionOf(4, g) : g \in LoopGraphs} \cup {Trapping(FunctionOf(4, g), 3) : g \in TrapGraphs}

(* A second marker, in the last block. *)
TwoMarkers(f) == [f EXCEPT !.calls[4] = Append(@, "batch_begin")]

SupportedBatches ==
  LET marked == UNION {MarkedIn(f, 4) : f \in LoopFunctions}
      more == {TwoMarkers(f) : f \in marked}
  IN {f \in marked \cup more : SupportsBatch(f)}

-----------------------------------------------------------------------------

(* Forward graphs of four blocks with exits of any kind, with and without  *)
(* a marker, and with a call through a function pointer, before or after   *)
(* the marker, in one block or another.                                    *)
AnyGraphs ==
  {<<s1, s2, s3, <<>>>> :
     s1 \in UnorderedJumpsInto(2 .. 4), s2 \in UnorderedJumpsInto(3 .. 4) \cup {<<>>},
     s3 \in UnorderedJumpsInto({4}) \cup {<<>>}}

ExitKinds == {"ret", "unreachable"}

AnyFunctions ==
  {[FunctionOf(4, g) EXCEPT
      !.isVoid = void,
      !.term = [b \in 1 .. 4 |-> IF g[b] = <<>> THEN exits[b] ELSE @[b]]] :
     g \in AnyGraphs, exits \in [2 .. 4 -> ExitKinds], void \in BOOLEAN}

IndirectCalls ==
  {[NoCalls(4) EXCEPT ![2] = <<"indirect">>, ![3] = <<"batch_begin">>],
   [NoCalls(4) EXCEPT ![2] = <<"batch_begin">>, ![3] = <<"indirect">>],
   [NoCalls(4) EXCEPT ![2] = <<"batch_begin", "indirect">>]}

AnyBatches ==
  UNION {MarkedIn(f, 4) : f \in AnyFunctions}
  \cup {WithCalls(f, NoCalls(4)) : f \in AnyFunctions}
  \cup {WithCalls(f, calls) : f \in AnyFunctions, calls \in IndirectCalls}
=============================================================================
