--------------------------- MODULE PredicatedRun ----------------------------
(***************************************************************************)
(* A run of the function that BlockPredication has made: after the entry   *)
(* block control goes through the predicate blocks one after the other,    *)
(* and from a predicate block whose id is the stored one through its       *)
(* action block.  The meaning of the code that the pass creates in         *)
(* setPathIDCondition, setActionBlocksSuccessors, setPredBlockSuccessors   *)
(* and movePhiNodeToPredicateBlock.                                        *)
(***************************************************************************)
EXTENDS Linearization

CONSTANT Programs    \* the results of the pass that are run

(* The control flow of a program is a linearization of its function. *)
IsLinear(f, ret, pathIDs, actions, predicateIDs) ==
  /\ WellFormed(f)
  /\ actions \in Seq(Blocks(f))
  /\ IsLinearization(f, actions, ret, pathIDs, predicateIDs)
  /\ \A b \in Blocks(f) \ {ret} : \A k \in DOMAIN f.succ[b] : pathIDs[b][k] \in Nat

(* Its PHI nodes merge short-circuit evaluations and have been moved to    *)
(* the predicate blocks.                                                   *)
HasShortCircuitPhis(f, actions, phis) ==
  /\ DOMAIN phis = DOMAIN actions
  /\ \A i \in DOMAIN actions :
       /\ PhiMovesSoundly(f, actions, i)
       /\ phis[i] = f.phi[actions[i]]

(* A program is what the pass makes of a function it handles. *)
IsProgram(f, ret, pathIDs, actions, predicateIDs, phis) ==
  /\ IsLinear(f, ret, pathIDs, actions, predicateIDs)
  /\ HasShortCircuitPhis(f, actions, phis)

ASSUME ProgramAssumption ==
  \A p \in Programs :
    IsProgram(p.f, p.ret, p.pathIDs, p.actions, p.predicateIDs, p.phis)

VARIABLES
  F, ReturnBlock, PathIDs, ActionBlocks, PredicateIDs, PredicatePhis,
  pc,           \* what is executed: a block, or a predicate block
  at,           \* the block executed last
  idx,          \* the position of the predicate block
  MaskID,       \* the variable the pass has added to the function
  reachedFrom,  \* whether an action or a predicate block led to the predicate block
  goal,         \* the target the last branch took in the function (history)
  came,         \* the block executed before (history)
  phiFrom       \* the incoming block whose value the PHI node of the block has

program == <<F, ReturnBlock, PathIDs, ActionBlocks, PredicateIDs, PredicatePhis>>

runVars == <<pc, at, idx, MaskID, reachedFrom, goal, came, phiFrom>>

prVars == <<program, runVars>>

LastPredicate == Len(ActionBlocks)

(* Before the call.  The mask variable is an uninitialised alloca; the     *)
(* entry block stores to it before it is read.                             *)
RunInit ==
  /\ pc = "idle"
  /\ at = Entry(F)
  /\ idx = 1
  /\ MaskID = 0
  /\ reachedFrom = "action"
  /\ goal = Entry(F)
  /\ came = Entry(F)
  /\ phiFrom = Entry(F)

PRInit ==
  /\ \E p \in Programs :
       /\ F = p.f
       /\ ReturnBlock = p.ret
       /\ PathIDs = p.pathIDs
       /\ ActionBlocks = p.actions
       /\ PredicateIDs = p.predicateIDs
       /\ PredicatePhis = p.phis
  /\ RunInit

Call ==
  /\ pc = "idle"
  /\ pc' = "block"
  /\ UNCHANGED <<program, at, idx, MaskID, reachedFrom, goal, came, phiFrom>>

(* The blocks whose terminators the pass replaces by a jump to a predicate *)
(* block.  The last action block keeps its own; it is the return block, or *)
(* else never entered, since the last predicate block jumps to the return  *)
(* block (OnlyRewiredBlocksRun in PredicatedFunction).                     *)
IsRewired(b) ==
  \/ b = Entry(F)
  \/ \E i \in 1 .. LastPredicate - 1 : ActionBlocks[i] = b

(* Fault: an action block jumps to its own predicate block. *)
OwnPredicate(b) == PlaceOf(F, ActionBlocks, b)

(* Fault: an action block skips the predicate block after it. *)
SecondNextPredicate(b) == PlaceOf(F, ActionBlocks, b) + 2

(* Fault: every action block jumps to the first predicate block. *)
FirstPredicate(b) == 1

PredicateAfter(b) == PlaceOf(F, ActionBlocks, b) + 1

StoreAndJump ==
  /\ pc = "block"
  /\ IsRewired(at)
  /\ \E k \in DOMAIN F.succ[at] :
       /\ MaskID' = PathIDs[at][k]
       /\ goal' = F.succ[at][k]
  /\ pc' = "predicate"
  /\ idx' = PredicateAfter(at)
  /\ reachedFrom' = "action"
  /\ UNCHANGED <<program, at, came, phiFrom>>

(* Fault: the values of the moved PHI node are paired the other way round. *)
SwappedPhiSource(i) ==
  IF PredicatePhis[i] = <<>> THEN at
  ELSE PredicatePhis[i][IF reachedFrom = "predicate" THEN 2 ELSE 1]

PhiSource(i) ==
  IF PredicatePhis[i] = <<>> THEN at
  ELSE PredicatePhis[i][IF reachedFrom = "predicate" THEN 1 ELSE 2]

Enter(b) ==
  /\ pc' = "block"
  /\ at' = b
  /\ came' = at
  /\ phiFrom' = PhiSource(idx)
  /\ UNCHANGED <<program, idx, MaskID, reachedFrom, goal>>

(* Fault: the branch on the comparison has its two targets swapped. *)
MaskDiffers(i) == MaskID # PredicateIDs[i]

MaskMatches(i) == MaskID = PredicateIDs[i]

PredicateHolds ==
  /\ pc = "predicate"
  /\ idx < LastPredicate
  /\ MaskMatches(idx)
  /\ Enter(ActionBlocks[idx])

(* Fault: the false path leads to the predicate block itself. *)
SamePredicate(i) == i

NextPredicate(i) == i + 1

PredicateFails ==
  /\ pc = "predicate"
  /\ idx < LastPredicate
  /\ ~MaskMatches(idx)
  /\ idx' = NextPredicate(idx)
  /\ reachedFrom' = "predicate"
  /\ UNCHANGED <<program, pc, at, MaskID, goal, came, phiFrom>>

(* Fault: the last predicate block jumps to its action block. *)
LastActionBlock == ActionBlocks[LastPredicate]

FinalTarget == ReturnBlock

TakeLastPredicate ==
  /\ pc = "predicate"
  /\ idx = LastPredicate
  /\ Enter(FinalTarget)

Return ==
  /\ pc = "block"
  /\ F.term[at] = "ret"
  /\ pc' = "returned"
  /\ UNCHANGED <<program, at, idx, MaskID, reachedFrom, goal, came, phiFrom>>

PRNext ==
  \/ Call \/ StoreAndJump
  \/ PredicateHolds \/ PredicateFails \/ TakeLastPredicate
  \/ Return

PRSpec == PRInit /\ [][PRNext]_prVars /\ WF_prVars(PRNext)

-----------------------------------------------------------------------------

(* The call of the function the pass was given: the predicate blocks are   *)
(* one jump.                                                               *)
StatusOf(p) ==
  CASE p = "block" -> "running"
    [] p = "predicate" -> "jumping"
    [] OTHER -> p

Original ==
  INSTANCE FunctionRun WITH
    f <- F, cur <- at, target <- goal, status <- StatusOf(pc)

(* The linearised function executes the blocks that the branches of the    *)
(* original function decide on, one after the other, and nothing else.     *)
OriginalSpec == Original!Spec

(* Every variable of the run has its type. *)
PRTypeOK ==
  /\ pc \in {"idle", "block", "predicate", "returned"}
  /\ {at, goal, came, phiFrom} \subseteq Blocks(F)
  /\ idx \in 1 .. LastPredicate
  /\ MaskID \in Nat
  /\ reachedFrom \in {"action", "predicate"}

(* While the predicates are tested, the target of the branch is still      *)
(* ahead and no predicate before it holds: control can neither miss the    *)
(* target nor turn into another block.                                     *)
TargetIsAhead ==
  pc = "predicate" =>
    \E p \in idx .. LastPredicate :
      /\ ActionBlocks[p] = goal
      /\ \A i \in idx .. p - 1 : PredicateIDs[i] # MaskID
      /\ p < LastPredicate => PredicateIDs[p] = MaskID

(* A moved PHI node gives the value of the block control came from. *)
PhiHasValueOfPath ==
  pc = "block" /\ at # Entry(F) /\ F.phi[at] # <<>> => phiFrom = came

(* The run executes action blocks in their total order only, so each at    *)
(* most once.                                                              *)
BlocksInOrder ==
  [][at' # at => PlaceOf(F, ActionBlocks, at) < PlaceOf(F, ActionBlocks, at')]_prVars

(* Every call returns. *)
CallReturns == <>(pc = "returned")
=============================================================================
