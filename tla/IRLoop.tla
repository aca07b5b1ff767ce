-------------------------------- MODULE IRLoop --------------------------------
(***************************************************************************)
(* The loops that the loop splitter works with.  A loop is the record of   *)
(* its preheader, which sets the index to 0, its header, which goes to the *)
(* body while the index is below the trip count, and its latch, which      *)
(* increments the index.  The function around it is given by the           *)
(* successors of its blocks; blocks are numbers, and 0 is the null block.  *)
(***************************************************************************)
EXTENDS Integers, Sequences, TLC, SequencesExt

NullBlock == 0

setSuccessor(succ, b, s) == [succ EXCEPT ![b][1] = s]

(* Fault: the latch is created but not put into the function. *)
LatchNotInserted(succ, L) ==
  (L.PreHeader :> <<L.Header>>) @@ (L.Header :> <<L.EmptyBody, L.EmptyBody>>)
    @@ (L.EmptyBody :> <<L.Latch>>) @@ succ

(* The four new blocks of a loop without body, not yet reached. *)
constructEmptyLoop(succ, L) ==
  [b \in DOMAIN succ \cup Range(L) |->
     IF b = L.PreHeader THEN <<L.Header>>
     ELSE IF b = L.Header THEN <<L.EmptyBody, L.EmptyBody>>
     ELSE IF b = L.EmptyBody THEN <<L.Latch>>
     ELSE IF b = L.Latch THEN <<L.Header>>
     ELSE succ[b]]

(* Fault: the loop starts again instead of leaving. *)
ExitsToItself(succ, L, ExitBB) == [succ EXCEPT ![L.Header][2] = L.PreHeader]

setExitBlock(succ, L, ExitBB) == [succ EXCEPT ![L.Header][2] = ExitBB]

(* The header goes to the first block, the last block to the latch; what   *)
(* is between them is connected as it was.                                 *)
setLoopBlocks(succ, L, BlockList) ==
  setSuccessor(setSuccessor(succ, L.Header, Head(BlockList)), Last(BlockList), L.Latch)

(* The loop that is in the function already keeps its own blocks. *)
extractLoopSkeleton(loop) ==
  [PreHeader |-> loop.PreHeader, Header |-> loop.Header, Latch |-> loop.Latch]
=============================================================================
