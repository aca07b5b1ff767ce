------------------------------ MODULE TASForLoop -----------------------------
(***************************************************************************)
(* The loop that TASForLoop puts into a function: the preheader sets the   *)
(* index to 0, the header goes to the body while the index is below the    *)
(* trip count, the latch increments the index.                             *)
(***************************************************************************)
EXTENDS FlowGraphEdits

CONSTANTS PreHeader, Header, Latch

LoopBlocks == {PreHeader, Header, Latch}

(* Fault: the latch is created but not put into the function. *)
LatchNotInserted(f, Prev, Next) ==
  SetSuccessor(
    BlockBefore(
      BlockBefore(f, PreHeader, Next, "br", <<Header>>),
      Header, Next, "br", <<Latch, Next>>),
    Prev, 1, PreHeader)

(* Fault: the header leaves the loop for the preheader, which starts it    *)
(* again.                                                                  *)
ExitsToPreHeader(f, Prev, Next) ==
  SetSuccessor(
    BlockBefore(
      BlockBefore(
        BlockBefore(f, PreHeader, Next, "br", <<Header>>),
        Header, Next, "br", <<Latch, PreHeader>>),
      Latch, Next, "br", <<Header>>),
    Prev, 1, PreHeader)

(* The constructor: a loop without body between two blocks.  The block     *)
(* before the loop enters it through its second operand if its terminator  *)
(* is a conditional branch, whose operands are the condition and two       *)
(* blocks.                                                                 *)
addEmptyLoop(f, Prev, Next) ==
  LET g == BlockBefore(
             BlockBefore(
               BlockBefore(f, PreHeader, Next, "br", <<Header>>),
               Header, Next, "br", <<Latch, Next>>),
             Latch, Next, "br", <<Header>>)
  IN SetSuccessor(g, Prev, IF SuccSize(g, Prev) = 2 THEN 2 ELSE 1, PreHeader)

(* Fault: the end of the body goes back to the header, past the latch. *)
BodySkipsLatch(f, EntryBB, ExitingBB) ==
  SetSuccessor(SetSuccessor(f, Header, 1, EntryBB), ExitingBB, 1, Header)

setLoopBody(f, EntryBB, ExitingBB) ==
  SetSuccessor(SetSuccessor(f, Header, 1, EntryBB), ExitingBB, 1, Latch)
=============================================================================
