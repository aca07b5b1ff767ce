------------------------- MODULE PredicatedFunction -------------------------
(***************************************************************************)
(* The block predication of a function, followed by a call of the result:  *)
(* what the unit tests do that compare fn(x) with fn_ref(x).               *)
(***************************************************************************)
EXTENDS BlockPredication, Linearization

VARIABLES pc, at, idx, MaskID, reachedFrom, goal, came, phiFrom

Run == INSTANCE PredicatedRun WITH Programs <- {}

callVars == <<pc, at, idx, MaskID, reachedFrom, goal, came, phiFrom>>

pfVars == <<bpVars, callVars>>

(* The call of the entry block's function waits for the pass. *)
PFInit ==
  /\ BPInit
  /\ Run!RunInit

Predicate ==
  /\ BPNext
  /\ UNCHANGED callVars

CallPredicated ==
  /\ phase = "done"
  /\ Run!PRNext
  /\ UNCHANGED <<traversalVars, phase, analysisVars, source, UnreachableBlock>>

PFNext == Predicate \/ CallPredicated

PFSpec == PFInit /\ [][PFNext]_pfVars /\ WF_pfVars(PFNext)

-----------------------------------------------------------------------------

(* The call of the function before the pass.  The block that unifies its   *)
(* returns, and the jump to it, belong to the block that returns.          *)
OriginalBlock == IF at \in Blocks(source) THEN at ELSE came

Jumping == pc = "predicate" /\ goal \in Blocks(source)

Original ==
  INSTANCE FunctionRun WITH
    f <- source,
    cur <- OriginalBlock,
    target <- IF Jumping THEN goal ELSE OriginalBlock,
    status <- CASE Jumping -> "jumping"
                [] pc \in {"idle", "returned"} -> pc
                [] OTHER -> "running"

(* The functions the pass handles: no cycle, at least three blocks, all    *)
(* of them reached, an entry block that branches two ways, one return and  *)
(* no other exit, and PHI nodes that merge a short-circuit evaluation.     *)
Supported(f) ==
  /\ Acyclic(f)
  /\ Cardinality(Blocks(f)) > 2
  /\ SuccSize(f, Entry(f)) > 1
  /\ \A b \in Blocks(f) :
       /\ f.term[b] \in {"br", "ret"}
       /\ b # Entry(f) => PredSize(f, b) > 0
  /\ Cardinality(BlocksEndingWith(f, "ret")) = 1

(* For a supported function the linearised function executes the blocks    *)
(* that the branches of the original function decide on, one after the     *)
(* other, and nothing else: the unit tests compare fn with fn_ref on this. *)
OriginalSpec ==
  /\ Supported(source) => Original!Init
  /\ [][Supported(source) => [Original!Next]_(Original!vars)]_pfVars

PhisAreShortCircuits ==
  \A i \in DOMAIN ActionBlocks : PhiMovesSoundly(F, ActionBlocks, i)

(* For a supported function the pass makes a linearization of it: it ends  *)
(* with the return block, every branch stores an id that leads to its      *)
(* target.                                                                 *)
MakesLinearization ==
  phase = "done" /\ Supported(source) =>
    IsLinearization(F, ActionBlocks, ReturnBlock, PathIDs, PredicateIDs)

(* The pass fails no assertion on a supported function whose PHI nodes     *)
(* have two values and are not in the first action block.                  *)
SupportedIsNotAborted ==
  phase = "aborted" =>
    ~Supported(source) \/ \E i \in DOMAIN ActionBlocks : PhiCannotMove(i)

(* The value of a PHI node of a supported function belongs to the path     *)
(* that was taken.                                                         *)
PhiHasValueOfPath ==
  phase = "done" /\ Supported(source) /\ PhisAreShortCircuits => Run!PhiHasValueOfPath

(* On any function, also one that is not supported, a run of the result    *)
(* executes only blocks that the pass has given a jump to a predicate      *)
(* block, and the return block: it never leaves the chain of predicates by *)
(* an edge of the original function.                                       *)
OnlyRewiredBlocksRun ==
  pc = "block" => Run!IsRewired(at) \/ (at = ReturnBlock /\ F.term[at] = "ret")

(* On any function the pass ends or aborts, and a call of the result       *)
(* returns, even where the function itself has a cycle.                    *)
PredicatedCallReturns == <>(phase = "aborted" \/ pc = "returned")

(* A moved PHI node has the value of the path that was taken, whatever it  *)
(* merges: what the comment "Handling phi nodes" and the unit tests, which *)
(* compare fn with fn_ref, take for granted.                               *)
EveryPhiHasValueOfPath == phase = "done" => Run!PhiHasValueOfPath
=============================================================================
