----------------------------- MODULE BatchMaker ------------------------------
(***************************************************************************)
(* BatchMaker::run makes of a function that processes one packet a function *)
(* that processes a batch: the code after the marker of the batch becomes  *)
(* the body of a loop over the packets, and a return becomes the store of  *)
(* the packet's result.  This module is the change of the flow graph, step *)
(* by step as in doBatchTransform; the rewriting of the uses of the        *)
(* arguments does not touch the flow graph.                                *)
(*                                                                         *)
(* A function has one more field here, calls: for each block the sequence  *)
(* of its call instructions, of the kinds below.  A call marked            *)
(* "batch_begin" is the annotation that TAS_BATCH_START puts there.        *)
(***************************************************************************)
EXTENDS TASForLoop

CallKinds == {"call", "indirect", "batch_begin"}

CONSTANTS
  BatchInputs,      \* the functions to be transformed
  NullBlock,        \* nullptr
  ExitBlock, TasBlock, ExitingBlock     \* the blocks the pass creates itself

CreatedBlocks == {ExitBlock, TasBlock, ExitingBlock} \cup LoopBlocks

ASSUME CreatedBlockAssumption ==
  /\ NullBlock \notin CreatedBlocks
  /\ ExitBlock \notin {TasBlock, ExitingBlock, PreHeader, Header, Latch}
  /\ TasBlock \notin {ExitingBlock, PreHeader, Header, Latch}
  /\ ExitingBlock \notin {PreHeader, Header, Latch}
  /\ PreHeader \notin {Header, Latch}
  /\ Header # Latch

ASSUME BatchInputAssumption ==
  \A f \in BatchInputs :
    /\ WellFormed(f)
    /\ f.calls \in [Blocks(f) -> Seq(CallKinds)]
    /\ Blocks(f) \cap (CreatedBlocks \cup {NullBlock}) = {}

VARIABLES
  source,               \* NonBatchFunc
  stage,
  B,                    \* BatchFunc; before it is created, the source
  RetBlock,
  marker,               \* ParentBB, the block with the marker
  BatchBB,
  UniqueExitingBlock,
  Returning             \* the blocks in which a return of the source was

bmVars == <<source, stage, B, RetBlock, marker, BatchBB, UniqueExitingBlock, Returning>>

BMInit ==
  /\ source \in BatchInputs
  /\ stage = "start"
  /\ B = source
  /\ RetBlock = NullBlock
  /\ marker = NullBlock
  /\ BatchBB = NullBlock
  /\ UniqueExitingBlock = NullBlock
  /\ Returning = {}

Stop(outcome) ==
  /\ stage' = outcome
  /\ UNCHANGED <<source, B, RetBlock, marker, BatchBB, UniqueExitingBlock, Returning>>

(* Prototype, clone of the blocks, and the index variable: the batched     *)
(* function returns void.                                                  *)
Clone(f) ==
  [layout |-> f.layout, succ |-> f.succ, term |-> f.term, phi |-> f.phi, isVoid |-> TRUE]

CloneFunction ==
  /\ stage = "start"
  /\ B' = Clone(source)
  /\ stage' = "cloned"
  /\ UNCHANGED <<source, RetBlock, marker, BatchBB, UniqueExitingBlock, Returning>>

-----------------------------------------------------------------------------

getReturnInstList(f) == {b \in Blocks(f) : f.term[b] = "ret"}

(* Returns, in storeRetValInPtrArg for a function with a value and in      *)
(* unifyReturnBlock for a void one.  Several returns become jumps to       *)
(* exit_block; the return created for exit_block is not put into it.       *)
JumpFromReturns(returns) ==
  /\ B' = LET g == BlockAtEnd(B, ExitBlock, "none", <<>>) IN
          [g EXCEPT
             !.succ = [b \in Blocks(g) |-> IF b \in returns THEN <<ExitBlock>> ELSE @[b]],
             !.term = [b \in Blocks(g) |-> IF b \in returns THEN "br" ELSE @[b]]]
  /\ Returning' = returns

(* A single return moves to exit_block. *)
SplitAtReturn(b) ==
  /\ B' = SplitBlock(B, b, ExitBlock)
  /\ Returning' = {b}

ReplaceReturns ==
  /\ stage = "cloned"
  /\ LET returns == getReturnInstList(B)
         NotSplit == \A b \in returns : returns # {b}
     IN
     \/ /\ returns = {}
        /\ ~source.isVoid      \* assert(RetBlock != nullptr)
        /\ Stop("aborted")
     \/ /\ \/ \E b \in returns : returns = {b} /\ SplitAtReturn(b)
           \/ NotSplit /\ (returns # {} \/ source.isVoid) /\ JumpFromReturns(returns)
        /\ RetBlock' = ExitBlock
        /\ stage' = "scanning"
        /\ UNCHANGED <<source, marker, BatchBB, UniqueExitingBlock>>

-----------------------------------------------------------------------------

(* findBatchBeginMarkerInstruction goes through all instructions in layout *)
(* order.  It asks the callee of every call whether it is an intrinsic,    *)
(* and an indirect call has none.                                          *)
CallSites(f) ==
  UNION {{<<i, j>> : j \in DOMAIN f.calls[f.layout[i]]} : i \in DOMAIN f.layout}

CallAt(f, site) == f.calls[f.layout[site[1]]][site[2]]

ComesBefore(s, t) == s[1] < t[1] \/ (s[1] = t[1] /\ s[2] < t[2])

EndsScan(f) == {s \in CallSites(f) : CallAt(f, s) # "call"}

FirstOf(sites) == CHOOSE s \in sites : \A t \in sites : ~ComesBefore(t, s)

(* Fault: all callees are asked before a marker is looked for. *)
IndirectCallFirst(f) ==
  LET indirect == {s \in CallSites(f) : CallAt(f, s) = "indirect"}
  IN FirstOf(IF indirect = {} THEN EndsScan(f) ELSE indirect)

FoundCall(f) == FirstOf(EndsScan(f))

findBatchBeginMarker(f) == f.layout[FoundCall(f)[1]]

FindMarker ==
  /\ stage = "scanning"
  /\ \/ /\ EndsScan(source) = {}
        /\ Stop("done")
     \/ /\ EndsScan(source) # {}
        /\ CallAt(source, FoundCall(source)) = "indirect"
        /\ Stop("crashed")
     \/ /\ EndsScan(source) # {}
        /\ CallAt(source, FoundCall(source)) = "batch_begin"
        /\ marker' = findBatchBeginMarker(source)
        /\ stage' = "splitting"
        /\ UNCHANGED <<source, B, RetBlock, BatchBB, UniqueExitingBlock, Returning>>

(* Fault: the result stays in the marker's block. *)
ResultStaysWithMarker == Returning

ResultsAfterSplit ==
  IF marker \in Returning THEN (Returning \ {marker}) \cup {TasBlock} ELSE Returning

(* The instruction after the marker starts the body of the loop.  A result *)
(* stored in the marker's block is stored after the marker.                *)
SplitAtMarker ==
  /\ stage = "splitting"
  /\ B' = SplitBlock(B, marker, TasBlock)
  /\ BatchBB' = TasBlock
  /\ Returning' = ResultsAfterSplit
  /\ stage' = "exiting"
  /\ UNCHANGED <<source, RetBlock, marker, UniqueExitingBlock>>

(* The one block that leaves the body; a new one if several do, which has  *)
(* no terminator.                                                          *)
JoinExits(exits) ==
  LET g == BlockBefore(B, ExitingBlock, RetBlock, "none", <<>>) IN
  [g EXCEPT !.succ = [b \in Blocks(g) |-> IF b \in exits
                                           THEN [@[b] EXCEPT ![1] = ExitingBlock]
                                           ELSE @[b]]]

ChooseExitingBlock ==
  /\ stage = "exiting"
  /\ LET edges == IncomingEdges(B, RetBlock) IN
     \/ /\ edges = {}        \* assert(ExitingBlocks.size() >= 1)
        /\ Stop("aborted")
     \/ /\ \/ \E e \in edges :
                /\ edges = {e}
                /\ UniqueExitingBlock' = e[1]
                /\ UNCHANGED B
           \/ /\ edges # {}
              /\ \A e \in edges : edges # {e}
              /\ UniqueExitingBlock' = ExitingBlock
              /\ B' = JoinExits({e[1] : e \in edges})
        /\ stage' = "looping"
        /\ UNCHANGED <<source, RetBlock, marker, BatchBB, Returning>>

AddEmptyLoop ==
  /\ stage = "looping"
  /\ B' = addEmptyLoop(B, marker, RetBlock)
  /\ stage' = "closing"
  /\ UNCHANGED <<source, RetBlock, marker, BatchBB, UniqueExitingBlock, Returning>>

(* A block without terminator has no successor to be set. *)
SetLoopBody ==
  /\ stage = "closing"
  /\ \/ /\ B.term[UniqueExitingBlock] = "none"
        /\ Stop("crashed")
     \/ /\ B.term[UniqueExitingBlock] # "none"
        /\ B' = setLoopBody(B, BatchBB, UniqueExitingBlock)
        /\ stage' = "done"
        /\ UNCHANGED <<source, RetBlock, marker, BatchBB, UniqueExitingBlock, Returning>>

BMNext ==
  \/ CloneFunction
  \/ ReplaceReturns
  \/ FindMarker
  \/ SplitAtMarker
  \/ ChooseExitingBlock
  \/ AddEmptyLoop
  \/ SetLoopBody
=============================================================================
