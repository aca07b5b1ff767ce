----------------------------- MODULE LoopSplitter -----------------------------
(***************************************************************************)
(* LoopSplitter::run: the body of the batch loop is cut after the prefetch *)
(* of each variable that is annotated "expensive", and each part gets a    *)
(* loop of its own, so that a packet's data are fetched while the part is  *)
(* run for the other packets.                                              *)
(*                                                                         *)
(* A source is a record                                                    *)
(*                                                                         *)
(*   succ   the successors of its blocks 1, 2, ..., which are numbered in  *)
(*          layout order; the entry block is 1                             *)
(*   code   for each block the sequence of its instructions <<op, v>>:     *)
(*          "annotate" a variable, "set" it, "deref" it (load it and use   *)
(*          the value as an address at once), "read" it otherwise; for     *)
(*          anything else v is 0: an "indirect" call, a getelementptr,     *)
(*          "gep", any "other"                                             *)
(*   loop   the loop that LoopInfo finds, with its preheader, header,      *)
(*          latch and all its Blocks; the preheader is null if the loop is *)
(*          entered by a conditional branch, the header if there is none   *)
(***************************************************************************)
EXTENDS IRLoop, FiniteSets, FiniteSetsExt

CONSTANT Sources

Entry == 1

SuccessorsOf(s, b) == {s[b][k] : k \in DOMAIN s[b]}

PredecessorsOf(s, b) == {a \in DOMAIN s : b \in SuccessorsOf(s, a)}

(* The header, and all blocks from which the latch is reached without it. *)
NaturalLoop(s, L) ==
  {L.Header} \cup
  {b \in DOMAIN s : \A S \in SUBSET (DOMAIN s \ {L.Header}) :
     L.Latch \in S /\ (\A x \in S : PredecessorsOf(s, x) \ {L.Header} \subseteq S) => b \in S}

Instructions ==
  ({"annotate", "set", "deref", "read"} \X (Nat \ {0})) \cup ({"indirect", "gep", "other"} \X {0})

(* No edge leads to the entry block. *)
IsFlowGraph(s) ==
  /\ s.succ # <<>>
  /\ s.succ \in Seq(Seq(2 .. Len(s.succ)))
  /\ s.code \in [DOMAIN s.succ -> Seq(Instructions)]
  /\ s.loop \in [PreHeader : DOMAIN s.succ \cup {NullBlock}, Header : DOMAIN s.succ \cup {NullBlock},
                 Latch : DOMAIN s.succ \cup {NullBlock}, Blocks : SUBSET DOMAIN s.succ]

(* getLoopPreheader: the one block outside that leads to the header, if it *)
(* leads nowhere else.                                                     *)
IsPreHeader(s, L, b) ==
  /\ s[b] = <<L.Header>>
  /\ \A a \in DOMAIN s \ L.Blocks : L.Header \in SuccessorsOf(s, a) => a = b

(* A loop of LoopInfo is entered at its header only, control comes to all  *)
(* its blocks, and what leads back to the header is the latch.             *)
IsNaturalLoop(s, L) ==
  /\ L.Header \in DOMAIN s
  /\ L.Latch \in DOMAIN s
  /\ L.Blocks = NaturalLoop(s, L)
  /\ \A b \in L.Blocks : L.Header \in SuccessorsOf(s, b) => b = L.Latch
  /\ \A b \in DOMAIN s \ L.Blocks : SuccessorsOf(s, b) \cap L.Blocks \subseteq {L.Header}
  /\ {Entry, L.PreHeader} \cap L.Blocks = {}
  /\ IF L.PreHeader = NullBlock THEN \A b \in DOMAIN s \ L.Blocks : ~IsPreHeader(s, L, b)
     ELSE IsPreHeader(s, L, L.PreHeader)
  /\ \A S \in SUBSET DOMAIN s :
       Entry \in S /\ (\A x \in S : SuccessorsOf(s, x) \subseteq S) => L.Blocks \subseteq S

(* The code takes the loop for one that the batch maker has made: the      *)
(* header goes to the body on the true path and to the exit on the false   *)
(* one, the latch to the header.                                           *)
IsForLoop(s, L) ==
  /\ Len(s[L.Header]) = 2
  /\ s[L.Header][1] \in L.Blocks \ {L.Header, L.Latch}
  /\ s[L.Header][2] \notin L.Blocks
  /\ s[L.Latch] = <<L.Header>>

ASSUME SourceAssumption ==
  \A s \in Sources :
    /\ IsFlowGraph(s)
    /\ IF s.loop.Header = NullBlock
       THEN s.loop = [PreHeader |-> NullBlock, Header |-> NullBlock, Latch |-> NullBlock, Blocks |-> {}]
       ELSE IsNaturalLoop(s.succ, s.loop) /\ IsForLoop(s.succ, s.loop)

VARIABLES
  source,
  succ, code, loop,   \* the function, as it is changed
  stage,
  i,                  \* the counter of the loops of the pass
  AnnotatedVars,
  VarUsePoints,       \* variables, for the loads at which they are first used
  EndBlocks,          \* where the parts of the body end; BodyEnd is the last
  body,               \* the successors of the blocks before the loop is cut
  ExitBlock,
  arrays,             \* the variables whose uses go to an array
  Loops,
  walk,               \* pending calls of traverseLoopBody: block and depth
  Blocks, LoopBlocks

irVars == <<succ, code, loop>>
useVars == <<AnnotatedVars, VarUsePoints>>
loopVars == <<body, ExitBlock, arrays>>
walkVars == <<walk, Blocks, LoopBlocks>>
lsVars == <<source, irVars, stage, i, useVars, EndBlocks, loopVars, Loops, walkVars>>

LSInit ==
  /\ source \in Sources
  /\ succ = source.succ
  /\ code = source.code
  /\ loop = source.loop
  /\ stage = "start"
  /\ i = 1
  /\ AnnotatedVars = <<>>
  /\ VarUsePoints = <<>>
  /\ EndBlocks = <<>>
  /\ body = <<>>
  /\ ExitBlock = NullBlock
  /\ arrays = {}
  /\ Loops = <<>>
  /\ walk = <<>>
  /\ Blocks = <<>>
  /\ LoopBlocks = <<>>

(* The elements of a list that are in a set, in their order. *)
Kept(list, S) ==
  LET kept[k \in 0 .. Len(list)] ==
        IF k = 0 THEN <<>>
        ELSE IF list[k] \in S THEN Append(kept[k - 1], list[k]) ELSE kept[k - 1]
  IN kept[Len(list)]

(* Only the entry block is looked through. *)
detectExpPtrVars(c) ==
  LET annotations == Kept(c[Entry], {inst \in Range(c[Entry]) : inst[1] = "annotate"})
  IN [k \in DOMAIN annotations |-> annotations[k][2]]

HasIndirectCall(c) == \E k \in DOMAIN c[Entry] : c[Entry][k][1] = "indirect"

Places(c, inst) == UNION {{<<b, k>> : k \in {j \in DOMAIN c[b] : c[b][j] = inst}} : b \in DOMAIN c}

IsBefore(p, q) == p[1] < q[1] \/ (p[1] = q[1] /\ p[2] < q[2])

(* The uses of a variable are listed the newest first; the last one in     *)
(* that list is the first one in the layout.                               *)
findEarliestPointerDerefInstruction(c, v) ==
  CHOOSE p \in Places(c, <<"deref", v>>) :
    \A q \in Places(c, <<"deref", v>>) : p = q \/ IsBefore(p, q)

detectExpPtrUses(c, vars) == Kept(vars, {v \in Range(vars) : Places(c, <<"deref", v>>) # {}})

(* The loads that are found are marked, for they are known by pointers. *)
Marked(c, vars) ==
  [b \in DOMAIN c |-> [k \in DOMAIN c[b] |->
     IF \E j \in DOMAIN vars : findEarliestPointerDerefInstruction(c, vars[j]) = <<b, k>>
     THEN <<"point", c[b][k][2]>> ELSE c[b][k]]]

(* A function without use points is left as it is.  The callee of an       *)
(* indirect call is null.                                                  *)
detect ==
  /\ stage = "start"
  /\ IF HasIndirectCall(code)
     THEN stage' = "crashed" /\ UNCHANGED <<code, useVars>>
     ELSE LET vars == detectExpPtrVars(code)
              used == detectExpPtrUses(code, vars)
          IN /\ AnnotatedVars' = vars
             /\ VarUsePoints' = used
             /\ code' = Marked(code, used)
             /\ stage' = IF used = <<>> THEN "unchanged" ELSE "splitting"
  /\ UNCHANGED <<source, succ, loop, i, EndBlocks, loopVars, Loops, walkVars>>

NewBlock == Cardinality(DOMAIN succ) + 1

(* What is before the place of the cut, and the prefetch. *)
insertLLVMPrefetchIntrinsic(b, k, v) ==
  Append(SubSeq(code[b], 1, k - 1), <<"prefetch", v>>)

(* The loop is looked for later, when the rest of the latch is the latch. *)
SplitBlock(b, k, v) ==
  LET all == DOMAIN succ \cup {NewBlock} IN
  /\ code' = [a \in all |-> IF a = b THEN insertLLVMPrefetchIntrinsic(b, k, v)
                            ELSE IF a = NewBlock THEN SubSeq(code[b], k, Len(code[b]))
                            ELSE code[a]]
  /\ succ' = [a \in all |-> IF a = b THEN <<NewBlock>> ELSE IF a = NewBlock THEN succ[b] ELSE succ[a]]
  /\ loop' = [PreHeader |-> IF loop.PreHeader = b THEN NewBlock ELSE loop.PreHeader,
              Header |-> loop.Header,
              Latch |-> IF loop.Latch = b THEN NewBlock ELSE loop.Latch,
              Blocks |-> IF b \in loop.Blocks THEN loop.Blocks \cup {NewBlock} ELSE loop.Blocks]

(* A getelementptr before the use stays with it. *)
SplitPoint(b, k) == IF code[b][k - 1][1] = "gep" THEN k - 1 ELSE k

(* One iteration of prepareForLoopSplit: the block is split between the    *)
(* prefetch and the use.  A use that starts its block fails an assertion.  *)
splitAtUse ==
  /\ stage = "splitting"
  /\ i <= Len(VarUsePoints)
  /\ LET use == CHOOSE p \in Places(code, <<"point", VarUsePoints[i]>>) : TRUE
     IN IF use[2] = 1
        THEN stage' = "aborted" /\ UNCHANGED <<irVars, i, EndBlocks>>
        ELSE /\ SplitBlock(use[1], SplitPoint(use[1], use[2]), VarUsePoints[i])
             /\ EndBlocks' = Append(EndBlocks, use[1])
             /\ i' = i + 1
             /\ UNCHANGED stage
  /\ UNCHANGED <<source, useVars, loopVars, Loops, walkVars>>

(* An edge is the place of its end among the successors of a block. *)
Edges(s, from, to) ==
  UNION {{<<b, k>> : k \in {j \in DOMAIN s[b] : s[b][j] \in to}} : b \in from}

(* getExitBlock has a result only if one edge leaves the loop. *)
ExitEdges(s, L) == Edges(s, L.Blocks, DOMAIN s \ L.Blocks)

BodyBegin(s, L) == s[L.Header][1]

(* getSinglePredecessor, null if several edges lead to the latch, be it    *)
(* from one block.                                                         *)
BodyEndOf(s, L) ==
  LET edges == Edges(s, DOMAIN s, {L.Latch})
  IN IF Cardinality(edges) = 1 THEN (CHOOSE e \in edges : TRUE)[1] ELSE NullBlock

(* Fault: the uses are left on the variable. *)
NoArrays(c, vars) == {}

(* The users of a variable are rewritten, the newest first, until one is   *)
(* in the entry block, which then stays the newest: that is the prefetch   *)
(* if the use point is in the entry block, and otherwise no other block    *)
(* has a user left.                                                        *)
addBatchArrayForIntermediateVars(c, vars) ==
  {v \in Range(vars) : \A k \in DOMAIN c[Entry] : c[Entry][k] # <<"prefetch", v>>}

(* Without a loop the pass gives up, but the function keeps the            *)
(* prefetches; a loop with several exits fails an assertion, and a header  *)
(* that was split a cast in getLoopTripCount.                              *)
findLoop ==
  /\ stage = "splitting"
  /\ i > Len(VarUsePoints)
  /\ IF loop.Header = NullBlock
     THEN stage' = "unchanged" /\ UNCHANGED <<EndBlocks, loopVars, i>>
     ELSE LET exits == ExitEdges(succ, loop)
              edge == CHOOSE e \in exits : TRUE
          IN /\ body' = succ
             /\ arrays' = addBatchArrayForIntermediateVars(code, AnnotatedVars)
             /\ EndBlocks' = Append(EndBlocks, BodyEndOf(succ, loop))
             /\ ExitBlock' = succ[edge[1]][edge[2]]
             /\ i' = 1
             /\ stage' = IF Cardinality(exits) = 1 /\ Len(succ[loop.Header]) = 2
                         THEN "looping" ELSE "aborted"
  /\ UNCHANGED <<source, irVars, useVars, Loops, walkVars>>

(* Fault: a loop for the end of the body, too. *)
LoopForEachEnd == Len(EndBlocks)

(* One new loop for each annotated variable. *)
NumNewLoops == Len(AnnotatedVars)

NewLoop == [PreHeader |-> NewBlock, Header |-> NewBlock + 1, Latch |-> NewBlock + 2,
            EmptyBody |-> NewBlock + 3]

(* One iteration of the loop that creates the new loops. *)
addLoop ==
  /\ stage = "looping"
  /\ i <= NumNewLoops
  /\ succ' = constructEmptyLoop(succ, NewLoop)
  /\ code' = [b \in DOMAIN code \cup Range(NewLoop) |-> IF b \in DOMAIN code THEN code[b] ELSE <<>>]
  /\ Loops' = Append(Loops, NewLoop)
  /\ i' = i + 1
  /\ UNCHANGED <<source, loop, stage, useVars, EndBlocks, loopVars, walkVars>>

(* The entry block goes to the first loop; what was between is passed by. *)
addParentLoop ==
  /\ stage = "looping"
  /\ i > NumNewLoops
  /\ Loops' = Append(Loops, extractLoopSkeleton(loop))
  /\ succ' = setSuccessor(succ, Entry, Loops'[1].PreHeader)
  /\ i' = 1
  /\ stage' = "stitching"
  /\ UNCHANGED <<source, code, loop, useVars, EndBlocks, loopVars, walkVars>>

(* Fault: the next loop is entered at its header, with the old index. *)
EntersHeader(L) == L.Header

getPreHeader(L) == L.PreHeader

(* Each loop goes to the next one. *)
stitchLoop ==
  /\ stage = "stitching"
  /\ i < Len(Loops)
  /\ succ' = setExitBlock(succ, Loops[i], getPreHeader(Loops[i + 1]))
  /\ i' = i + 1
  /\ UNCHANGED <<source, code, loop, stage, useVars, EndBlocks, loopVars, Loops, walkVars>>

stitchLastLoop ==
  /\ stage = "stitching"
  /\ i = Len(Loops)
  /\ succ' = setExitBlock(succ, Loops[i], ExitBlock)
  /\ walk' = <<<<BodyBegin(body, loop), 1>>>>
  /\ stage' = "walking"
  /\ UNCHANGED <<source, code, loop, i, useVars, EndBlocks, loopVars, Loops, Blocks, LoopBlocks>>

BodyEnd == Last(EndBlocks)

(* Fault: the walk goes on behind the end of the body. *)
GoesOn(b) == succ[b]

(* The successors the walk goes on to. *)
Recursion(b) == IF b = BodyEnd THEN <<>> ELSE succ[b]

(* One call of traverseLoopBody: nothing tells blocks that were visited. *)
traverseLoopBody ==
  /\ stage = "walking"
  /\ walk # <<>>
  /\ LET b == walk[1][1]
         depth == walk[1][2]
         visited == Append(Blocks, b)
     IN /\ depth <= Cardinality(DOMAIN succ)
        /\ IF b \in Range(EndBlocks)
           THEN LoopBlocks' = Append(LoopBlocks, visited) /\ Blocks' = <<>>
           ELSE LoopBlocks' = LoopBlocks /\ Blocks' = visited
        /\ walk' = [k \in DOMAIN Recursion(b) |-> <<Recursion(b)[k], depth + 1>>] \o Tail(walk)
  /\ UNCHANGED <<source, irVars, stage, i, useVars, EndBlocks, loopVars, Loops>>

(* A path longer than the function goes round for ever. *)
overflowStack ==
  /\ stage = "walking"
  /\ walk # <<>>
  /\ walk[1][2] > Cardinality(DOMAIN succ)
  /\ stage' = "overflowed"
  /\ UNCHANGED <<source, irVars, i, useVars, EndBlocks, loopVars, Loops, walkVars>>

(* "One extra set in the end" is thrown away. *)
dropExtraSet ==
  /\ stage = "walking"
  /\ walk = <<>>
  /\ IF LoopBlocks = <<>>
     THEN stage' = "undefined" /\ UNCHANGED <<i, LoopBlocks>>
     ELSE stage' = "assigning" /\ i' = 1 /\ LoopBlocks' = Front(LoopBlocks)
  /\ UNCHANGED <<source, irVars, useVars, EndBlocks, loopVars, Loops, walk, Blocks>>

(* Each loop gets one set of blocks.  If there are too few, an element     *)
(* past the end of the vector is read, and anything may happen.            *)
assignBlocks ==
  /\ stage = "assigning"
  /\ i <= Len(Loops)
  /\ IF i <= Len(LoopBlocks)
     THEN succ' = setLoopBlocks(succ, Loops[i], LoopBlocks[i]) /\ i' = i + 1 /\ UNCHANGED stage
     ELSE stage' = "undefined" /\ UNCHANGED <<succ, i>>
  /\ UNCHANGED <<source, code, loop, useVars, EndBlocks, loopVars, Loops, walkVars>>

finish ==
  /\ stage = "assigning"
  /\ i > Len(Loops)
  /\ stage' = "done"
  /\ UNCHANGED <<source, irVars, i, useVars, EndBlocks, loopVars, Loops, walkVars>>

LSNext ==
  \/ detect
  \/ splitAtUse
  \/ findLoop
  \/ addLoop
  \/ addParentLoop
  \/ stitchLoop
  \/ stitchLastLoop
  \/ traverseLoopBody
  \/ overflowStack
  \/ dropExtraSet
  \/ assignBlocks
  \/ finish
=============================================================================
