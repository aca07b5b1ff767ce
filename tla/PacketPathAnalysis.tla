------------------------- MODULE PacketPathAnalysis -------------------------
(***************************************************************************)
(* PacketPathAnalysis::calculate gives the blocks of a function the mask   *)
(* ids that the linearised function uses to select its path: a branch      *)
(* stores the id of the successor it takes, and a block is executed when   *)
(* the id stored last is its own.  One counter numbers the blocks in the   *)
(* reverse post order; a block with one predecessor and one successor      *)
(* hands the counter's current value on to its successor, so that two      *)
(* blocks can have the same id.                                            *)
(***************************************************************************)
EXTENDS ReversePostOrder

CONSTANT InputFunctions    \* the functions the pass is run on

ASSUME InputAssumption == \A f \in InputFunctions : WellFormed(f)

VARIABLES
  phase,          \* how far the analysis, and later the pass, has come
  cursor,         \* position of the next block in the loop at hand
  MaskIDCounter,
  BlockToMaskID   \* the ids assigned so far, a function on the numbered blocks

analysisVars == <<cursor, MaskIDCounter, BlockToMaskID>>

ppaVars == <<F, traversalVars, phase, analysisVars>>

(* With at most two blocks the order is implicit: calculate returns at once. *)
OrderIsImplicit(f) == Cardinality(Blocks(f)) <= 2

PPAInit ==
  /\ F \in InputFunctions
  /\ phase = IF OrderIsImplicit(F) THEN "analyzed" ELSE "traversing"
  /\ VisitStack = <<VisitEntry(F)>>
  /\ Visited = {Entry(F)}
  /\ PostOrder = <<>>
  /\ cursor = 1
  /\ MaskIDCounter = 0
  /\ BlockToMaskID = <<>>

(* RPOT is computed as a whole before the loop over it starts. *)
TraverseForAnalysis ==
  /\ phase = "traversing"
  /\ Traverse
  /\ UNCHANGED <<F, phase, analysisVars>>

StartNumbering ==
  /\ phase = "traversing"
  /\ TraversalEnded
  /\ phase' = "numbering"
  /\ UNCHANGED <<F, traversalVars, analysisVars>>

Insert(ids, b, id) == [a \in DOMAIN ids \cup {b} |-> IF a = b THEN id ELSE ids[a]]

(* Fault: a join of exactly two paths is taken for straight-line code. *)
ManyPathsConverge(b) == PredSize(F, b) > 2

(* Paths converge at the block. *)
PathsConverge(b) == PredSize(F, b) > 1

(* The counter and the ids after the block's own case: paths that converge *)
(* at a block get a new id.                                                *)
CounterAt(b) == IF PathsConverge(b) THEN MaskIDCounter + 1 ELSE MaskIDCounter

IDsAt(b) == IF PathsConverge(b) THEN Insert(BlockToMaskID, b, CounterAt(b)) ELSE BlockToMaskID

SuccessorID(b) == IF PathsConverge(b) THEN CounterAt(b) + 1 ELSE CounterAt(b)

(* Fault: the successor of a join is forgotten. *)
NumbersAfterStraightLine(b) == SuccSize(F, b) = 1 /\ PredSize(F, b) = 1

(* A block without predecessor does not number its only successor. *)
NumbersSuccessor(b) == SuccSize(F, b) = 1 /\ PredSize(F, b) >= 1

(* The one successor of a block shares the current id, unless paths        *)
(* converge at the block.                                                  *)
NumberOnlySuccessor(b) ==
  /\ NumbersSuccessor(b)
  /\ MaskIDCounter' = SuccessorID(b)
  /\ BlockToMaskID' = Insert(IDsAt(b), F.succ[b][1], SuccessorID(b))

LastEdgeTo(b, s) ==
  CHOOSE k \in DOMAIN F.succ[b] :
    F.succ[b][k] = s /\ \A j \in DOMAIN F.succ[b] : F.succ[b][j] = s => j <= k

(* Fault: the counter is incremented once too often before the first target. *)
SkippedID(b, s) == CounterAt(b) + LastEdgeTo(b, s) + 1

(* Paths diverge: each successor gets a new id, in order. *)
BranchID(b, s) == CounterAt(b) + LastEdgeTo(b, s)

NumberBranchTargets(b) ==
  /\ SuccSize(F, b) > 1
  /\ MaskIDCounter' = CounterAt(b) + SuccSize(F, b)
  /\ BlockToMaskID' =
       [a \in DOMAIN IDsAt(b) \cup Successors(F, b) |->
          IF a \in Successors(F, b) THEN BranchID(b, a) ELSE IDsAt(b)[a]]

NumberNoSuccessor(b) ==
  /\ SuccSize(F, b) <= 1
  /\ ~NumbersSuccessor(b)
  /\ MaskIDCounter' = CounterAt(b)
  /\ BlockToMaskID' = IDsAt(b)

(* One iteration of the loop over the reverse post order. *)
NumberBlock ==
  /\ phase = "numbering"
  /\ cursor <= Len(RPOT)
  /\ \/ NumberOnlySuccessor(RPOT[cursor])
     \/ NumberBranchTargets(RPOT[cursor])
     \/ NumberNoSuccessor(RPOT[cursor])
  /\ cursor' = cursor + 1
  /\ UNCHANGED <<F, traversalVars, phase>>

FinishNumbering ==
  /\ phase = "numbering"
  /\ cursor > Len(RPOT)
  /\ phase' = "analyzed"
  /\ UNCHANGED <<F, traversalVars, analysisVars>>

PPANext == TraverseForAnalysis \/ StartNumbering \/ NumberBlock \/ FinishNumbering

PPASpec == PPAInit /\ [][PPANext]_ppaVars /\ WF_ppaVars(PPANext)

-----------------------------------------------------------------------------

(* Every variable has its type, and the ids given out are at most the      *)
(* counter.                                                                *)
PPATypeOK ==
  /\ WellFormed(F)
  /\ VisitStack \in Seq([block : Blocks(F), next : Nat \ {0}])
  /\ Visited \subseteq Blocks(F)
  /\ PostOrder \in Seq(Blocks(F))
  /\ phase \in {"traversing", "numbering", "analyzed"}
  /\ cursor \in Nat \ {0}
  /\ MaskIDCounter \in Nat
  /\ DOMAIN BlockToMaskID \subseteq Blocks(F)
  /\ \A b \in DOMAIN BlockToMaskID : BlockToMaskID[b] \in 0 .. MaskIDCounter

Analyzed == phase = "analyzed" /\ ~OrderIsImplicit(F)

(* In an acyclic function every edge leads forward in the execution order, *)
(* so that a block selected by the mask is still to come.  The order is    *)
(* the one linearizeControlFlow makes its total execution order.           *)
EdgesLeadForward ==
  Analyzed /\ Acyclic(F) =>
    \A i \in DOMAIN RPOT : \A s \in Successors(F, RPOT[i]) :
      \E j \in DOMAIN RPOT : i < j /\ RPOT[j] = s

(* In an acyclic function no block between the two ends of an edge has the *)
(* id of the edge's target: when the predicates are tested one after the   *)
(* other from the source of the edge on, the first that holds is the       *)
(* target's.  This is what makes it safe to hand an id on to a successor.  *)
MasksSeparateBlocks ==
  Analyzed /\ Acyclic(F) =>
    \A i, j, k \in DOMAIN RPOT :
      /\ i < j /\ j < k
      /\ RPOT[k] \in Successors(F, RPOT[i])
      /\ {RPOT[j], RPOT[k]} \subseteq DOMAIN BlockToMaskID
      => BlockToMaskID[RPOT[j]] # BlockToMaskID[RPOT[k]]

(* When the entry block ends with a real branch, every block that can be   *)
(* the target of a jump has an id, as setPathIDCondition takes for granted *)
(* when it looks the id up.                                                *)
TargetsAreNumbered ==
  Analyzed /\ SuccSize(F, Entry(F)) > 1 =>
    \A i \in DOMAIN RPOT : Successors(F, RPOT[i]) \subseteq DOMAIN BlockToMaskID

(* In an acyclic function the id of a block no longer changes once the     *)
(* loop has passed the block: the ids its predecessors hand out are the    *)
(* ones it is tested with.                                                 *)
PassedBlocksKeepTheirID ==
  [][phase = "numbering" /\ Acyclic(F) =>
       \A i \in 1 .. cursor - 1 :
         RPOT[i] \in DOMAIN BlockToMaskID =>
           BlockToMaskID'[RPOT[i]] = BlockToMaskID[RPOT[i]]]_ppaVars

(* The traversal ends on every function, with cycles or without, and the   *)
(* analysis with it.                                                       *)
AnalysisEnds == <>(phase = "analyzed")
=============================================================================
