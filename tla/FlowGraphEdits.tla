--------------------------- MODULE FlowGraphEdits ----------------------------
(***************************************************************************)
(* What LLVM's methods that change a flow graph do to it.  A block that    *)
(* has been created without terminator is of kind "none" until it gets     *)
(* one; a function with such a block is not well formed.                   *)
(***************************************************************************)
EXTENDS FlowGraph, SequencesExt

(* A new block with the given terminator at a place of the layout. *)
WithBlock(f, new, place, kind, succ) ==
  LET all == Blocks(f) \cup {new} IN
  [layout |-> InsertAt(f.layout, place, new),
   succ   |-> [b \in all |-> IF b = new THEN succ ELSE f.succ[b]],
   term   |-> [b \in all |-> IF b = new THEN kind ELSE f.term[b]],
   phi    |-> [b \in all |-> IF b = new THEN <<>> ELSE f.phi[b]],
   isVoid |-> f.isVoid]

BlockBefore(f, new, next, kind, succ) ==
  WithBlock(f, new, PositionOf(f.layout, next), kind, succ)

BlockAtEnd(f, new, kind, succ) ==
  WithBlock(f, new, Len(f.layout) + 1, kind, succ)

(* The tail of a block, with its terminator, becomes a block of its own    *)
(* to which the head jumps.  PHI nodes then come from the tail.            *)
SplitBlock(f, b, tail) ==
  LET all == Blocks(f) \cup {tail} IN
  [layout |-> InsertAt(f.layout, PositionOf(f.layout, b) + 1, tail),
   succ   |-> [x \in all |-> CASE x = b -> <<tail>>
                               [] x = tail -> f.succ[b]
                               [] OTHER -> f.succ[x]],
   term   |-> [x \in all |-> CASE x = b -> "br"
                               [] x = tail -> f.term[b]
                               [] OTHER -> f.term[x]],
   phi    |-> [x \in all |-> IF x = tail THEN <<>>
                             ELSE IF x \in Successors(f, b)
                                  THEN ReplaceAll(f.phi[x], b, tail)
                                  ELSE f.phi[x]],
   isVoid |-> f.isVoid]

(* The k-th successor of a block's terminator is replaced. *)
SetSuccessor(f, b, k, s) == [f EXCEPT !.succ[b][k] = s]
=============================================================================
