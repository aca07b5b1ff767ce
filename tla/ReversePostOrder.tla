-------------------------- MODULE ReversePostOrder --------------------------
(***************************************************************************)
(* LLVM's ReversePostOrderTraversal, which both PacketPathAnalysis and     *)
(* BlockPredication use to put the blocks of a function in order: an       *)
(* iterative depth-first search that appends a block when its children are *)
(* exhausted; the traversal is the reverse of that sequence.               *)
(***************************************************************************)
EXTENDS FlowGraph, SequencesExt

VARIABLES
  F,           \* the function
  VisitStack,  \* the blocks being visited with the next child of each
  Visited,     \* the blocks the search has reached
  PostOrder    \* the finished blocks

traversalVars == <<VisitStack, Visited, PostOrder>>

VisitEntry(f) == [block |-> Entry(f), next |-> 1]

Top == VisitStack[Len(VisitStack)]

ReplaceTop(e) == [VisitStack EXCEPT ![Len(VisitStack)] = e]

HasNextChild == Top.next <= SuccSize(F, Top.block)

NextChild == F.succ[Top.block][Top.next]

(* Fault: the child iterator is not incremented. *)
NotAdvanced == Top

Advanced == [Top EXCEPT !.next = @ + 1]

StartTraversal(f) ==
  /\ VisitStack' = <<VisitEntry(f)>>
  /\ Visited' = {Entry(f)}
  /\ PostOrder' = <<>>

(* A child the search has already reached is not entered again. *)
SkipChild ==
  /\ VisitStack # <<>>
  /\ HasNextChild
  /\ NextChild \in Visited
  /\ VisitStack' = ReplaceTop(Advanced)
  /\ UNCHANGED <<Visited, PostOrder>>

EnterChild ==
  /\ VisitStack # <<>>
  /\ HasNextChild
  /\ NextChild \notin Visited
  /\ VisitStack' = Append(ReplaceTop(Advanced), [block |-> NextChild, next |-> 1])
  /\ Visited' = Visited \cup {NextChild}
  /\ UNCHANGED PostOrder

FinishBlock ==
  /\ VisitStack # <<>>
  /\ ~HasNextChild
  /\ PostOrder' = Append(PostOrder, Top.block)
  /\ VisitStack' = Front(VisitStack)
  /\ UNCHANGED Visited

Traverse == SkipChild \/ EnterChild \/ FinishBlock

TraversalEnded == VisitStack = <<>>

(* Fault: the blocks are taken in post order. *)
NotReversed == PostOrder

RPOT == Reverse(PostOrder)
=============================================================================
