------------------------ MODULE PredicatedRunProofs -------------------------
(***************************************************************************)
(* A run of any linearised function, whatever its size, the order of its   *)
(* blocks and their ids, takes the path that the original function takes.  *)
(***************************************************************************)
EXTENDS PredicatedRun, TLAPS

ProgramOK == IsLinear(F, ReturnBlock, PathIDs, ActionBlocks, PredicateIDs)

PhisOK == HasShortCircuitPhis(F, ActionBlocks, PredicatePhis)

Executed == {Entry(F)} \cup {ActionBlocks[i] : i \in DOMAIN ActionBlocks}

Place(b) == PlaceOf(F, ActionBlocks, b)

(* At a block, the target is the block itself; a call starts at the entry. *)
AtBlock ==
  /\ pc # "predicate" => goal = at
  /\ pc = "idle" => at = Entry(F)

(* Control came from the predicate block before exactly if the one tested  *)
(* is not the first after the block executed last.                         *)
FallsInOrder ==
  pc = "predicate" =>
    /\ goal \in Successors(F, at)
    /\ Place(at) < idx
    /\ reachedFrom = IF idx = Place(at) + 1 THEN "action" ELSE "predicate"

ControlTypeOK ==
  /\ pc \in {"idle", "block", "predicate", "returned"}
  /\ {at, goal, came} \subseteq Blocks(F)
  /\ idx \in 1 .. LastPredicate
  /\ MaskID \in Nat
  /\ reachedFrom \in {"action", "predicate"}

(* Where control goes does not depend on the PHI nodes. *)
ControlInv ==
  /\ ProgramOK
  /\ ControlTypeOK
  /\ at \in Executed
  /\ AtBlock
  /\ TargetIsAhead
  /\ FallsInOrder

PhiInv ==
  /\ PhisOK
  /\ phiFrom \in Blocks(F)
  /\ PhiHasValueOfPath

IInv == ControlInv /\ PhiInv

-----------------------------------------------------------------------------

(* The place of an action block is its position. *)
LEMMA PlaceOfAction ==
  ASSUME ProgramOK, NEW i \in DOMAIN ActionBlocks
  PROVE  /\ Place(ActionBlocks[i]) = i
         /\ i \in Nat \ {0}
         /\ ActionBlocks[i] \in Blocks(F)
<1>1. \A j \in DOMAIN ActionBlocks : ActionBlocks[j] = ActionBlocks[i] => j = i
  BY DEF ProgramOK, IsLinear, IsLinearization
<1>2. PositionOf(ActionBlocks, ActionBlocks[i]) = i
  BY <1>1 DEF PositionOf
<1>3. ActionBlocks[i] # Entry(F)
  BY DEF ProgramOK, IsLinear, IsLinearization
<1>4. ActionBlocks \in Seq(Blocks(F))
  BY DEF ProgramOK, IsLinear
<1> QED
  BY <1>2, <1>3, <1>4 DEF Place, PlaceOf

(* The entry block is a block, and its place is before the action blocks. *)
LEMMA PlaceOfEntry ==
  ASSUME ProgramOK
  PROVE  /\ Entry(F) \in Blocks(F)
         /\ Place(Entry(F)) = 0
  BY DEF ProgramOK, IsLinear, WellFormed, Entry, Place, PlaceOf

(* The last action block is the return block, which returns. *)
LEMMA LastIsReturn ==
  ASSUME ProgramOK
  PROVE  /\ LastPredicate \in Nat \ {0}
         /\ DOMAIN ActionBlocks = 1 .. LastPredicate
         /\ ActionBlocks[LastPredicate] = ReturnBlock
         /\ ReturnBlock \in Blocks(F)
         /\ F.term[ReturnBlock] = "ret"
<1>1. ActionBlocks \in Seq(Blocks(F)) /\ ActionBlocks # <<>>
  BY DEF ProgramOK, IsLinear, IsLinearization
<1>2. LastPredicate \in Nat \ {0} /\ DOMAIN ActionBlocks = 1 .. LastPredicate
  BY <1>1 DEF LastPredicate
<1>3. ActionBlocks[LastPredicate] = ReturnBlock /\ F.term[ReturnBlock] = "ret"
  BY DEF ProgramOK, IsLinear, IsLinearization, LastPredicate
<1> QED
  BY <1>1, <1>2, <1>3

(* A branch that is executed finds its target among the action blocks. *)
LEMMA BranchFindsTarget ==
  ASSUME ProgramOK, NEW b \in Executed, b # ReturnBlock, NEW k \in DOMAIN F.succ[b]
  PROVE  /\ b \in Blocks(F)
         /\ F.term[b] = "br"
         /\ FindsTarget(F, ActionBlocks, PathIDs, PredicateIDs, b, k)
<1>1. b \in Blocks(F)
  BY PlaceOfEntry, PlaceOfAction DEF Executed
<1> QED
  BY <1>1 DEF ProgramOK, IsLinear, IsLinearization, Executed

-----------------------------------------------------------------------------

(* A call of a linear program begins. *)
LEMMA RunInitControlInv ==
  ASSUME ProgramOK, RunInit
  PROVE  ControlInv
<1>1. ControlTypeOK
  BY PlaceOfEntry, LastIsReturn DEF RunInit, ControlTypeOK
<1> QED
  BY <1>1 DEF ControlInv, RunInit, AtBlock, TargetIsAhead, FallsInOrder, Executed

LEMMA RunInitPhiInv ==
  ASSUME ProgramOK, PhisOK, RunInit
  PROVE  PhiInv
  BY PlaceOfEntry DEF PhiInv, RunInit, PhiHasValueOfPath

LEMMA InitIInv == PRInit => IInv
<1> SUFFICES ASSUME PRInit PROVE IInv
  OBVIOUS
<1>1. ProgramOK /\ PhisOK
  BY ProgramAssumption DEF PRInit, ProgramOK, PhisOK, IsProgram
<1> QED
  BY <1>1, RunInitControlInv, RunInitPhiInv DEF IInv, PRInit

EntersBlock ==
  /\ pc = "predicate"
  /\ \/ idx < LastPredicate /\ MaskMatches(idx)
     \/ idx = LastPredicate

(* The block entered from a predicate block is the target of the branch.   *)
LEMMA EnterIsRight ==
  ASSUME ControlInv, EntersBlock
  PROVE  ActionBlocks[idx] = goal /\ idx \in DOMAIN ActionBlocks /\ goal \in Executed
<1> USE DEF ControlInv, EntersBlock
<1>1. PICK p \in idx .. LastPredicate :
        /\ ActionBlocks[p] = goal
        /\ \A i \in idx .. p - 1 : PredicateIDs[i] # MaskID
  BY DEF TargetIsAhead
<1>2. p = idx
  BY <1>1, LastIsReturn DEF MaskMatches, ControlTypeOK
<1> QED
  BY <1>1, <1>2, LastIsReturn DEF ControlTypeOK, Executed

(* Its PHI node has the value that belongs to the branch's block. *)
LEMMA PhiSourceIsRight ==
  ASSUME ControlInv, PhisOK, EntersBlock
  PROVE  /\ F.phi[goal] # <<>> => PhiSource(idx) = at
         /\ PhiSource(idx) \in Blocks(F)
<1> USE DEF ControlInv, EntersBlock
<1>1. idx \in DOMAIN ActionBlocks /\ ActionBlocks[idx] = goal
  BY EnterIsRight
<1>2. PhiMovesSoundly(F, ActionBlocks, idx) /\ PredicatePhis[idx] = F.phi[goal]
  BY <1>1 DEF PhisOK, HasShortCircuitPhis
<1>3. at \in Blocks(F) /\ goal \in Successors(F, at)
  BY DEF ControlTypeOK, FallsInOrder
<1>4. ASSUME F.phi[goal] # <<>> PROVE PhiSource(idx) = at
  <2>1. /\ idx > 1
        /\ F.phi[goal][2] = ActionBlocks[idx - 1]
        /\ at \in {F.phi[goal][1], F.phi[goal][2]}
    BY <1>1, <1>2, <1>3, <1>4 DEF PhiMovesSoundly
  <2>2. idx - 1 \in DOMAIN ActionBlocks /\ Place(ActionBlocks[idx - 1]) = idx - 1
    BY <2>1, <1>1, LastIsReturn, PlaceOfAction DEF ControlTypeOK
  <2>3. CASE reachedFrom = "predicate"
    <3>1. at # ActionBlocks[idx - 1]
      BY <2>2, <2>3, LastIsReturn DEF FallsInOrder, ControlTypeOK
    <3> QED
      BY <3>1, <2>1, <2>3, <1>2, <1>4 DEF PhiSource
  <2>4. CASE reachedFrom = "action"
    <3>1. Place(at) = idx - 1
      BY <2>4, <2>2, LastIsReturn, PlaceOfAction, PlaceOfEntry
      DEF FallsInOrder, ControlTypeOK, Executed
    <3>2. at = ActionBlocks[idx - 1]
      BY <3>1, <2>1, <2>2, LastIsReturn, PlaceOfAction, PlaceOfEntry DEF Executed, ControlTypeOK
    <3> QED
      BY <3>2, <2>1, <2>4, <1>2, <1>4 DEF PhiSource
  <2> QED
    BY <2>3, <2>4 DEF ControlTypeOK
<1> QED
  BY <1>2, <1>3, <1>4 DEF PhiSource

-----------------------------------------------------------------------------

(* The program does not change while it runs. *)
LEMMA ProgramStays ==
  ASSUME UNCHANGED program
  PROVE  /\ ProgramOK => ProgramOK'
         /\ PhisOK => PhisOK'
         /\ Executed' = Executed
         /\ LastPredicate' = LastPredicate
         /\ \A b : Place(b)' = Place(b)
<1>1. /\ F' = F
      /\ ActionBlocks' = ActionBlocks
      /\ ReturnBlock' = ReturnBlock
      /\ PathIDs' = PathIDs
      /\ PredicateIDs' = PredicateIDs
      /\ PredicatePhis' = PredicatePhis
  BY DEF program
<1>2. ProgramOK => ProgramOK'
  BY <1>1 DEF ProgramOK
<1>3. PhisOK => PhisOK'
  BY <1>1 DEF PhisOK
<1>4. Executed' = Executed
  BY <1>1 DEF Executed
<1>5. LastPredicate' = LastPredicate
  BY <1>1 DEF LastPredicate
<1>6. \A b : Place(b)' = Place(b)
  BY <1>1 DEF Place
<1> QED
  BY <1>2, <1>3, <1>4, <1>5, <1>6

LEMMA CallKeepsInv ==
  ASSUME ControlInv, Call
  PROVE  ControlInv'
<1> USE DEF ControlInv, Call
<1>1. ProgramOK' /\ Executed' = Executed /\ LastPredicate' = LastPredicate
  BY ProgramStays
<1>2. F' = F
  BY DEF program
<1>3. at = Entry(F)
  BY DEF AtBlock
<1> QED
  BY <1>1, <1>2, <1>3 DEF ControlTypeOK, AtBlock, TargetIsAhead, FallsInOrder

LEMMA StoreAndJumpKeepsInv ==
  ASSUME ControlInv, StoreAndJump
  PROVE  ControlInv'
<1> USE DEF ControlInv
<1>1. ProgramOK' /\ Executed' = Executed /\ LastPredicate' = LastPredicate
      /\ \A b : Place(b)' = Place(b)
  BY ProgramStays DEF StoreAndJump
<1>2. /\ F' = F
      /\ ActionBlocks' = ActionBlocks
      /\ PredicateIDs' = PredicateIDs
      /\ pc' = "predicate"
      /\ at' = at
      /\ came' = came
      /\ phiFrom' = phiFrom
      /\ idx' = Place(at) + 1
      /\ reachedFrom' = "action"
  BY DEF StoreAndJump, program, Place, PredicateAfter
<1>3. PICK k \in DOMAIN F.succ[at] : MaskID' = PathIDs[at][k] /\ goal' = F.succ[at][k]
  BY DEF StoreAndJump
<1>4. at # ReturnBlock
  <2>1. ReturnBlock # Entry(F)
    BY LastIsReturn DEF ProgramOK, IsLinear, IsLinearization
  <2>2. ASSUME NEW i \in 1 .. LastPredicate - 1
        PROVE  ActionBlocks[i] # ReturnBlock
    <3>1. i \in DOMAIN ActionBlocks /\ LastPredicate \in DOMAIN ActionBlocks /\ i # LastPredicate
      BY LastIsReturn
    <3> QED
      BY <3>1, LastIsReturn, PlaceOfAction
  <2> QED
    BY <2>1, <2>2 DEF StoreAndJump, IsRewired
<1>5. /\ at \in Blocks(F)
      /\ FindsTarget(F, ActionBlocks, PathIDs, PredicateIDs, at, k)
  BY <1>4, BranchFindsTarget
<1>6. PICK p \in Place(at) + 1 .. LastPredicate :
        /\ ActionBlocks[p] = goal'
        /\ \A i \in Place(at) + 1 .. p - 1 : PredicateIDs[i] # MaskID'
        /\ p < LastPredicate => PredicateIDs[p] = MaskID'
  BY <1>3, <1>5 DEF FindsTarget, Place, LastPredicate
<1>7. Place(at) \in Nat
  BY PlaceOfAction, PlaceOfEntry DEF Executed
<1>8. ControlTypeOK'
  <2>1. MaskID' \in Nat
    BY <1>3, <1>4, <1>5 DEF ProgramOK, IsLinear
  <2>2. goal' \in Blocks(F)
    BY <1>6, <1>7, LastIsReturn, PlaceOfAction
  <2>3. idx' \in 1 .. LastPredicate
    BY <1>2, <1>6, <1>7, LastIsReturn
  <2> QED
    BY <1>1, <1>2, <2>1, <2>2, <2>3 DEF ControlTypeOK
<1>9. TargetIsAhead'
  BY <1>1, <1>2, <1>6 DEF TargetIsAhead
<1>10. FallsInOrder'
  <2>1. goal' \in Successors(F, at)
    BY <1>3 DEF Successors
  <2>2. Successors(F, at)' = Successors(F, at)
    BY <1>2 DEF Successors
  <2>3. Place(at') = Place(at) /\ Place(at)' = Place(at)
    BY <1>1, <1>2
  <2> QED
    BY <1>2, <1>7, <2>1, <2>2, <2>3 DEF FallsInOrder, Place
<1> QED
  BY <1>1, <1>2, <1>8, <1>9, <1>10 DEF AtBlock

(* Entering the target of the branch. *)
LEMMA EnterKeepsInv ==
  ASSUME ControlInv, pc = "predicate", Enter(goal), goal \in Executed
  PROVE  ControlInv'
<1> USE DEF ControlInv, Enter
<1>1. ProgramOK' /\ Executed' = Executed /\ LastPredicate' = LastPredicate
  BY ProgramStays
<1>2. F' = F
  BY DEF program
<1> QED
  BY <1>1, <1>2 DEF ControlTypeOK, AtBlock, TargetIsAhead, FallsInOrder

LEMMA PredicateHoldsKeepsInv ==
  ASSUME ControlInv, PredicateHolds
  PROVE  ControlInv' /\ EntersBlock /\ Enter(goal)
<1>1. EntersBlock
  BY DEF PredicateHolds, EntersBlock
<1>2. ActionBlocks[idx] = goal /\ goal \in Executed
  BY <1>1, EnterIsRight
<1>3. pc = "predicate" /\ Enter(goal)
  BY <1>2 DEF PredicateHolds
<1> QED
  BY <1>1, <1>2, <1>3, EnterKeepsInv

LEMMA TakeLastPredicateKeepsInv ==
  ASSUME ControlInv, TakeLastPredicate
  PROVE  ControlInv' /\ EntersBlock /\ Enter(goal)
<1>1. EntersBlock
  BY DEF TakeLastPredicate, EntersBlock
<1>2. ActionBlocks[idx] = goal /\ goal \in Executed
  BY <1>1, EnterIsRight
<1>3. ReturnBlock = goal
  BY <1>2, LastIsReturn DEF ControlInv, TakeLastPredicate
<1>4. pc = "predicate" /\ Enter(goal)
  BY <1>3 DEF TakeLastPredicate, FinalTarget
<1> QED
  BY <1>1, <1>2, <1>4, EnterKeepsInv

LEMMA PredicateFailsKeepsInv ==
  ASSUME ControlInv, PredicateFails
  PROVE  ControlInv'
<1> USE DEF ControlInv
<1>1. ProgramOK' /\ Executed' = Executed /\ LastPredicate' = LastPredicate
      /\ \A b : Place(b)' = Place(b)
  BY ProgramStays DEF PredicateFails
<1>2. /\ F' = F
      /\ ActionBlocks' = ActionBlocks
      /\ PredicateIDs' = PredicateIDs
      /\ pc = "predicate" /\ pc' = "predicate"
      /\ UNCHANGED <<at, MaskID, goal, came, phiFrom>>
      /\ idx < LastPredicate
      /\ idx' = idx + 1
      /\ reachedFrom' = "predicate"
      /\ MaskID # PredicateIDs[idx]
  BY DEF PredicateFails, program, MaskMatches, NextPredicate
<1>3. ControlTypeOK'
  BY <1>1, <1>2, LastIsReturn DEF ControlTypeOK
<1>4. TargetIsAhead'
  <2>1. PICK p \in idx .. LastPredicate :
          /\ ActionBlocks[p] = goal
          /\ \A i \in idx .. p - 1 : PredicateIDs[i] # MaskID
          /\ p < LastPredicate => PredicateIDs[p] = MaskID
    BY <1>2 DEF TargetIsAhead
  <2>2. p \in idx + 1 .. LastPredicate
    BY <2>1, <1>2, LastIsReturn DEF ControlTypeOK
  <2>3. \A i \in idx + 1 .. p - 1 : PredicateIDs[i] # MaskID
    BY <2>1, <2>2, LastIsReturn DEF ControlTypeOK
  <2> QED
    BY <1>1, <1>2, <2>1, <2>2, <2>3 DEF TargetIsAhead
<1>5. FallsInOrder'
  <2>1. Successors(F, at)' = Successors(F, at)
    BY <1>2 DEF Successors
  <2>2. Place(at)' = Place(at) /\ Place(at) \in Nat
    BY <1>1, <1>2, PlaceOfAction, PlaceOfEntry DEF Executed
  <2>3. idx' # Place(at) + 1 /\ Place(at) < idx'
    BY <1>2, <2>2, LastIsReturn DEF FallsInOrder, ControlTypeOK
  <2> QED
    BY <1>2, <2>1, <2>2, <2>3 DEF FallsInOrder
<1> QED
  BY <1>1, <1>2, <1>3, <1>4, <1>5 DEF AtBlock

LEMMA ReturnKeepsInv ==
  ASSUME ControlInv, Return
  PROVE  ControlInv'
<1> USE DEF ControlInv, Return
<1>1. ProgramOK' /\ Executed' = Executed /\ LastPredicate' = LastPredicate
  BY ProgramStays
<1>2. F' = F
  BY DEF program
<1> QED
  BY <1>1, <1>2 DEF ControlTypeOK, AtBlock, TargetIsAhead, FallsInOrder

LEMMA StutterKeepsInv ==
  ASSUME ControlInv, UNCHANGED prVars
  PROVE  ControlInv'
<1> USE DEF ControlInv, prVars, runVars
<1>1. ProgramOK' /\ Executed' = Executed /\ LastPredicate' = LastPredicate
      /\ \A b : Place(b)' = Place(b)
  BY ProgramStays
<1>2. F' = F /\ ActionBlocks' = ActionBlocks /\ PredicateIDs' = PredicateIDs
  BY DEF program
<1> QED
  BY <1>1, <1>2 DEF ControlTypeOK, AtBlock, TargetIsAhead, FallsInOrder,
                    Successors, Place

LEMMA NextKeepsControlInv ==
  ASSUME ControlInv, [PRNext]_prVars
  PROVE  ControlInv'
  BY CallKeepsInv, StoreAndJumpKeepsInv, PredicateHoldsKeepsInv, PredicateFailsKeepsInv,
     TakeLastPredicateKeepsInv, ReturnKeepsInv, StutterKeepsInv
  DEF PRNext

LEMMA NextKeepsPhiInv ==
  ASSUME ControlInv, PhiInv, [PRNext]_prVars
  PROVE  PhiInv'
<1>1. CASE PredicateHolds \/ TakeLastPredicate
  <2>1. EntersBlock /\ Enter(goal)
    BY <1>1, PredicateHoldsKeepsInv, TakeLastPredicateKeepsInv
  <2>2. /\ F.phi[goal] # <<>> => PhiSource(idx) = at
        /\ PhiSource(idx) \in Blocks(F)
    BY <2>1, PhiSourceIsRight DEF PhiInv
  <2>3. PhisOK' /\ F' = F /\ at' = goal /\ came' = at /\ phiFrom' = PhiSource(idx)
    BY <2>1, ProgramStays DEF Enter, program, PhiInv
  <2> QED
    BY <2>2, <2>3 DEF PhiInv, PhiHasValueOfPath
<1>2. CASE Call \/ StoreAndJump \/ PredicateFails \/ Return \/ UNCHANGED prVars
  <2>1. UNCHANGED <<program, at, came, phiFrom>>
    BY <1>2 DEF Call, StoreAndJump, PredicateFails, Return, prVars, runVars
  <2>2. pc' = "block" => pc = "block" \/ at = Entry(F)
    BY <1>2 DEF Call, StoreAndJump, PredicateFails, Return, prVars, runVars, ControlInv, AtBlock
  <2>3. PhisOK' /\ F' = F
    BY <2>1, ProgramStays DEF program, PhiInv
  <2> QED
    BY <2>1, <2>2, <2>3 DEF PhiInv, PhiHasValueOfPath
<1> QED
  BY <1>1, <1>2 DEF PRNext

LEMMA Invariance == PRSpec => []IInv
<1>1. IInv /\ [PRNext]_prVars => IInv'
  BY NextKeepsControlInv, NextKeepsPhiInv DEF IInv
<1> QED
  BY InitIInv, <1>1, PTL DEF PRSpec

LEMMA ControlInvariance == PRSpec => []ControlInv
<1>1. IInv => ControlInv
  BY DEF IInv
<1> QED
  BY Invariance, <1>1, PTL

(***************************************************************************)
(* In every state of a run of a linearised function each variable has its  *)
(* type; in particular the run is never past the last predicate block.     *)
(***************************************************************************)
THEOREM TypeCorrect == PRSpec => []PRTypeOK
<1>1. IInv => PRTypeOK
  BY DEF IInv, ControlInv, PhiInv, ControlTypeOK, PRTypeOK
<1> QED
  BY Invariance, <1>1, PTL

(***************************************************************************)
(* While the predicates are tested, the target of the branch is ahead and  *)
(* the first predicate that holds is the target's.                         *)
(***************************************************************************)
THEOREM TargetStaysAhead == PRSpec => []TargetIsAhead
<1>1. IInv => TargetIsAhead
  BY DEF IInv, ControlInv
<1> QED
  BY Invariance, <1>1, PTL

(***************************************************************************)
(* A PHI node that merges a short-circuit evaluation has the value of the  *)
(* path taken, also after the pass has moved it to the predicate block.    *)
(***************************************************************************)
THEOREM PhiIsRight == PRSpec => []PhiHasValueOfPath
<1>1. IInv => PhiHasValueOfPath
  BY DEF IInv, PhiInv
<1> QED
  BY Invariance, <1>1, PTL

(* A step of the run is a step of the call of the original function, or    *)
(* leaves it alone.                                                        *)
LEMMA StepIsOfOriginal ==
  ASSUME ControlInv, [PRNext]_prVars
  PROVE  [Original!Next]_(Original!vars)
<1> USE DEF Original!vars, Original!Next
<1>1. CASE Call
  BY <1>1 DEF Call, program, Original!Call, StatusOf
<1>2. CASE StoreAndJump
  <2>1. goal' \in Original!Successors(F, at)
    BY <1>2 DEF StoreAndJump, Original!Successors
  <2> QED
    BY <1>2, <2>1 DEF StoreAndJump, program, Original!Decide, StatusOf
<1>3. CASE PredicateHolds
  BY <1>3, PredicateHoldsKeepsInv
  DEF PredicateHolds, Enter, program, Original!Jump, StatusOf
<1>4. CASE PredicateFails
  BY <1>4 DEF PredicateFails, program, StatusOf
<1>5. CASE TakeLastPredicate
  BY <1>5, TakeLastPredicateKeepsInv
  DEF TakeLastPredicate, FinalTarget, Enter, program, Original!Jump, StatusOf
<1>6. CASE Return
  BY <1>6 DEF Return, program, Original!EndAt, StatusOf
<1>7. CASE UNCHANGED prVars
  BY <1>7 DEF prVars, program, runVars, StatusOf
<1> QED
  BY <1>1, <1>2, <1>3, <1>4, <1>5, <1>6, <1>7 DEF PRNext

(***************************************************************************)
(* The linearised function implements the original one: it executes the    *)
(* blocks that the branches decide on, in that order, and no other.        *)
(***************************************************************************)
THEOREM ImplementsOriginal == PRSpec => OriginalSpec
<1>1. PRInit => Original!Init
  BY DEF PRInit, RunInit, Original!Init, StatusOf, Original!Entry, Entry
<1> QED
  BY ControlInvariance, StepIsOfOriginal, <1>1, PTL DEF PRSpec, OriginalSpec, Original!Spec

(***************************************************************************)
(* The run executes the action blocks in their total order, each at most   *)
(* once.                                                                   *)
(***************************************************************************)
THEOREM ExecutesInOrder == PRSpec => BlocksInOrder
<1>1. ASSUME ControlInv, PRNext, at' # at
      PROVE  Place(at) < Place(at')
  <2> USE DEF ControlInv
  <2>1. \/ PredicateHolds /\ at' = ActionBlocks[idx]
        \/ TakeLastPredicate /\ at' = ReturnBlock
    BY <1>1 DEF PRNext, Call, StoreAndJump, PredicateHolds, PredicateFails, TakeLastPredicate,
                Return, Enter, FinalTarget
  <2>2. idx \in DOMAIN ActionBlocks /\ at' = ActionBlocks[idx] /\ pc = "predicate"
    BY <1>1, <2>1, LastIsReturn DEF ControlTypeOK, PredicateHolds, TakeLastPredicate
  <2>3. Place(at') = idx
    BY <1>1, <2>2, PlaceOfAction
  <2> QED
    BY <1>1, <2>2, <2>3 DEF FallsInOrder
<1>2. ASSUME ControlInv, [PRNext]_prVars
      PROVE  [at' # at => PlaceOf(F, ActionBlocks, at) < PlaceOf(F, ActionBlocks, at')]_prVars
  BY <1>1, <1>2 DEF Place, prVars, runVars
<1> QED
  BY ControlInvariance, <1>2, PTL DEF PRSpec, BlocksInOrder
=============================================================================
