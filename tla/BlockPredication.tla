-------------------------- MODULE BlockPredication --------------------------
(***************************************************************************)
(* BlockPredication::run linearises the control flow of a function.  Its   *)
(* exits are unified, every branch stores the mask id of the block it      *)
(* would jump to, and the blocks after the entry (the action blocks) are   *)
(* put in a total order.  Before action block i stands predicate block i,  *)
(* which jumps to the action block if the stored id is that block's and to *)
(* predicate block i+1 otherwise.  An action block continues with the      *)
(* predicate block after it.                                               *)
(*                                                                         *)
(* The analysis of PacketPathAnalysis has run in the constructor, so on    *)
(* the function before its exits are unified.  Predicate blocks are        *)
(* represented by their positions.  The result of the pass is kept in      *)
(* variables of its own: F stays the function with unified exits.          *)
(***************************************************************************)
EXTENDS PacketPathAnalysis

CONSTANTS
  NullBlock,                \* nullptr
  UnifiedReturnBlock,       \* the blocks unifyFunctionExitNodes may create
  UnifiedUnreachableBlock,
  GarbageIDs                \* what a read through MaskIDMap.end() may yield

NewBlocks == {NullBlock, UnifiedReturnBlock, UnifiedUnreachableBlock}

ASSUME BlockAssumption == \A f \in InputFunctions : Blocks(f) \cap NewBlocks = {}

ASSUME GarbageAssumption == GarbageIDs \subseteq Nat

VARIABLES
  source,            \* the function before the pass (history)
  ReturnBlock,
  UnreachableBlock,
  PathIDs,           \* the ids each branch stores, one for each of its targets
  ActionBlocks,
  PredicateIDs,      \* the id each predicate block but the last compares with
  PredicatePhis      \* the two incoming blocks of the PHI node of a predicate block

passVars == <<ReturnBlock, UnreachableBlock, PathIDs, ActionBlocks, PredicateIDs, PredicatePhis>>

bpVars == <<F, traversalVars, phase, analysisVars, source, passVars>>

BPInit ==
  /\ PPAInit
  /\ source = F
  /\ ReturnBlock = NullBlock
  /\ UnreachableBlock = NullBlock
  /\ PathIDs = <<>>
  /\ ActionBlocks = <<>>
  /\ PredicateIDs = <<>>
  /\ PredicatePhis = <<>>

(* The constructor runs the analysis. *)
Analyze == PPANext /\ UNCHANGED <<source, passVars>>

-----------------------------------------------------------------------------

(* A new block at the end of the function to which given blocks now jump. *)
Redirect(f, from, to, kind, incoming) ==
  LET all == Blocks(f) \cup {to} IN
  [layout |-> Append(f.layout, to),
   succ   |-> [b \in all |-> CASE b = to -> <<>>
                               [] b \in from -> <<to>>
                               [] OTHER -> f.succ[b]],
   term   |-> [b \in all |-> CASE b = to -> kind
                               [] b \in from -> "br"
                               [] OTHER -> f.term[b]],
   phi    |-> [b \in all |-> IF b = to THEN incoming ELSE f.phi[b]],
   isVoid |-> f.isVoid]

UnifyUnreachable(f) ==
  LET blocks == BlocksEndingWith(f, "unreachable") IN
  IF Cardinality(blocks) <= 1
    THEN f
    ELSE Redirect(f, blocks, UnifiedUnreachableBlock, "unreachable", <<>>)

UnifyReturns(f) ==
  LET blocks == BlocksEndingWith(f, "ret") IN
  IF Cardinality(blocks) <= 1
    THEN f
    ELSE Redirect(f, blocks, UnifiedReturnBlock, "ret",
                  IF f.isVoid THEN <<>> ELSE SelectSeq(f.layout, LAMBDA b : b \in blocks))

(* The only block that ends in the given way, if there is one. *)
TheBlockEndingWith(f, kind) ==
  LET blocks == BlocksEndingWith(f, kind) IN
  IF blocks = {} THEN NullBlock ELSE CHOOSE b \in blocks : TRUE

unifyFunctionExitNodes ==
  /\ phase = "analyzed"
  /\ F' = UnifyReturns(UnifyUnreachable(F))
  /\ ReturnBlock' = TheBlockEndingWith(F', "ret")
  /\ UnreachableBlock' = TheBlockEndingWith(F', "unreachable")
  /\ phase' = "storing"
  /\ cursor' = 1
  /\ UNCHANGED <<traversalVars, MaskIDCounter, BlockToMaskID, source, PathIDs,
                 ActionBlocks, PredicateIDs, PredicatePhis>>

-----------------------------------------------------------------------------

IsNumbered(b) == b \in DOMAIN BlockToMaskID

(* What MaskIDMap.find(b)->getSecond() gives: for a block without id it    *)
(* reads behind the map's buckets.                                         *)
FoundIDs(b) == IF IsNumbered(b) THEN {BlockToMaskID[b]} ELSE GarbageIDs

(* Fault: the two path ids of a conditional branch are swapped. *)
SwappedStoredIDs(b) ==
  IF SuccSize(F, b) = 2
    THEN {<<y, x>> : x \in FoundIDs(F.succ[b][1]), y \in FoundIDs(F.succ[b][2])}
    ELSE {<<x>> : x \in FoundIDs(F.succ[b][1])}

StoredIDs(b) ==
  IF SuccSize(F, b) = 2
    THEN {<<x, y>> : x \in FoundIDs(F.succ[b][1]), y \in FoundIDs(F.succ[b][2])}
    ELSE {<<x>> : x \in FoundIDs(F.succ[b][1])}

(* The assertion "Sanity check" covers conditional branches only. *)
SanityCheckFails(b) ==
  SuccSize(F, b) = 2 /\ \E s \in Successors(F, b) : ~IsNumbered(s)

(* With an empty map the lookup of an unconditional branch goes through a  *)
(* null pointer.                                                           *)
LookupCrashes(b) == SuccSize(F, b) = 1 /\ DOMAIN BlockToMaskID = {}

StoresPathID(b) == b # ReturnBlock /\ F.term[b] = "br"

Abort == phase' = "aborted"

setPathIDCondition(b) ==
  \/ /\ SanityCheckFails(b) \/ LookupCrashes(b)
     /\ Abort
     /\ UNCHANGED <<cursor, PathIDs>>
  \/ /\ ~SanityCheckFails(b)
     /\ ~LookupCrashes(b)
     /\ \E ids \in StoredIDs(b) :
          PathIDs' = [a \in DOMAIN PathIDs \cup {b} |-> IF a = b THEN ids ELSE PathIDs[a]]
     /\ cursor' = cursor + 1
     /\ UNCHANGED phase

(* One iteration of the loop over the blocks. *)
StorePathID ==
  /\ phase = "storing"
  /\ cursor <= Len(F.layout)
  /\ LET b == F.layout[cursor] IN
     \/ StoresPathID(b) /\ setPathIDCondition(b)
     \/ ~StoresPathID(b) /\ cursor' = cursor + 1 /\ UNCHANGED <<phase, PathIDs>>
  /\ UNCHANGED <<F, traversalVars, MaskIDCounter, BlockToMaskID, source, ReturnBlock,
                 UnreachableBlock, ActionBlocks, PredicateIDs, PredicatePhis>>

StartOrdering ==
  /\ phase = "storing"
  /\ cursor > Len(F.layout)
  /\ StartTraversal(F)
  /\ phase' = "ordering"
  /\ UNCHANGED <<F, analysisVars, source, passVars>>

TraverseForOrder ==
  /\ phase = "ordering"
  /\ Traverse
  /\ UNCHANGED <<F, phase, analysisVars, source, passVars>>

(* The blocks without the unreachable block, which the traversal reaches   *)
(* once if at all.                                                         *)
AllInOrder ==
  IF UnreachableBlock \in ToSet(RPOT)
    THEN RemoveAt(RPOT, PositionOf(RPOT, UnreachableBlock))
    ELSE RPOT

(* The total execution order: without the entry block, which is executed   *)
(* for all paths.  If the entry block is the unreachable block there is    *)
(* none to leave out, and the pass is bound to fail.                       *)
ExecutionOrder == IF AllInOrder = <<>> THEN <<>> ELSE Tail(AllInOrder)

insertPredicateBlocks ==
  /\ phase = "ordering"
  /\ TraversalEnded
  /\ ActionBlocks' = ExecutionOrder
  /\ phase' = "wiring"
  /\ UNCHANGED <<F, traversalVars, analysisVars, source, ReturnBlock, UnreachableBlock,
                 PathIDs, PredicateIDs, PredicatePhis>>

-----------------------------------------------------------------------------

LastAction == Len(ActionBlocks)

(* Fault: the loop does not stop before the return block. *)
AllTerminatorsAreBranches ==
  /\ ActionBlocks # <<>>
  /\ F.term[Entry(F)] = "br"
  /\ \A i \in 1 .. LastAction : F.term[ActionBlocks[i]] = "br"

(* The terminators that are replaced pass cast<BranchInst>, and there is a *)
(* first predicate block to jump to.                                       *)
TerminatorsAreBranches ==
  /\ ActionBlocks # <<>>
  /\ F.term[Entry(F)] = "br"
  /\ \A i \in 1 .. LastAction - 1 : F.term[ActionBlocks[i]] = "br"

setActionBlocksSuccessors ==
  /\ phase = "wiring"
  /\ phase' = IF TerminatorsAreBranches THEN "predicating" ELSE "aborted"
  /\ cursor' = 1
  /\ UNCHANGED <<F, traversalVars, MaskIDCounter, BlockToMaskID, source, passVars>>

(* Fault: predicate block i tests for the block after its action block. *)
ShiftedPredicateID(i) == FoundIDs(ActionBlocks[i + 1])

PredicateID(i) == FoundIDs(ActionBlocks[i])

(* One iteration of the loop over all predicate blocks but the last. *)
SetPredicate ==
  /\ phase = "predicating"
  /\ cursor < LastAction
  /\ \E id \in PredicateID(cursor) : PredicateIDs' = Append(PredicateIDs, id)
  /\ cursor' = cursor + 1
  /\ UNCHANGED <<F, traversalVars, phase, MaskIDCounter, BlockToMaskID, source, ReturnBlock,
                 UnreachableBlock, PathIDs, ActionBlocks, PredicatePhis>>

(* The last predicate block jumps to the return block, whatever the id;    *)
(* a branch to nullptr fails an assertion.                                 *)
SetLastPredicate ==
  /\ phase = "predicating"
  /\ cursor = LastAction
  /\ phase' = IF ReturnBlock = NullBlock THEN "aborted" ELSE "phis"
  /\ cursor' = 1
  /\ UNCHANGED <<F, traversalVars, MaskIDCounter, BlockToMaskID, source, passVars>>

(* The PHI node of an action block moves to its predicate block with its   *)
(* first two values.  The predicate block's predecessors are, in this      *)
(* order, the predicate block and the action block before it; the first    *)
(* predicate block has the entry block only, and an assertion fails on the *)
(* second.  So it does for a PHI node with one value.                      *)
PhiCannotMove(i) ==
  LET phi == F.phi[ActionBlocks[i]] IN phi # <<>> /\ (i = 1 \/ Len(phi) = 1)

(* Fault: the two values of the moved PHI node are swapped. *)
SwappedPhi(i) ==
  LET phi == F.phi[ActionBlocks[i]] IN IF phi = <<>> THEN <<>> ELSE <<phi[2], phi[1]>>

MovedPhi(i) ==
  LET phi == F.phi[ActionBlocks[i]] IN IF phi = <<>> THEN <<>> ELSE SubSeq(phi, 1, 2)

movePhiNodeToPredicateBlock ==
  /\ phase = "phis"
  /\ cursor <= LastAction
  /\ \/ /\ PhiCannotMove(cursor)
        /\ Abort
        /\ UNCHANGED <<cursor, PredicatePhis>>
     \/ /\ ~PhiCannotMove(cursor)
        /\ PredicatePhis' = Append(PredicatePhis, MovedPhi(cursor))
        /\ cursor' = cursor + 1
        /\ UNCHANGED phase
  /\ UNCHANGED <<F, traversalVars, MaskIDCounter, BlockToMaskID, source, ReturnBlock,
                 UnreachableBlock, PathIDs, ActionBlocks, PredicateIDs>>

(* run() returns true. *)
Return ==
  /\ phase = "phis"
  /\ cursor > LastAction
  /\ phase' = "done"
  /\ UNCHANGED <<F, traversalVars, analysisVars, source, passVars>>

Linearize ==
  \/ unifyFunctionExitNodes \/ StorePathID \/ StartOrdering \/ TraverseForOrder
  \/ insertPredicateBlocks \/ setActionBlocksSuccessors \/ SetPredicate
  \/ SetLastPredicate \/ movePhiNodeToPredicateBlock \/ Return

BPNext == Analyze \/ Linearize

BPSpec == BPInit /\ [][BPNext]_bpVars /\ WF_bpVars(BPNext)
=============================================================================
