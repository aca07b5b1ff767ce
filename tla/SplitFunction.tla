---------------------------- MODULE SplitFunction -----------------------------
(***************************************************************************)
(* The loop splitter is run on a function, and the function is called with *)
(* a batch.  A variable that is annotated holds something of the packet    *)
(* that set it; only that packet is of interest here.                      *)
(***************************************************************************)
EXTENDS LoopSplitter

CONSTANTS
  BatchSizes,
  ArrayPlaces,   \* the places of the arrays for the annotated variables
  IndexValues    \* what the index may hold before a preheader sets it

ASSUME SizeAssumption == BatchSizes \subseteq Nat /\ ArrayPlaces \in Nat \ {0}

ASSUME IndexAssumption == IndexValues \subseteq Int /\ IndexValues # {}

VARIABLES
  N,          \* the trip count
  at, idx,
  mem,        \* for each variable the packet whose value is in each place of
              \* its array, and in the variable itself, which is the place
              \* ArrayPlaces; NoPacket before
  foreign,    \* variables from which a packet read another's value (history)
  pos,        \* the block of the body each packet came to last (history)
  status

callVars == <<at, idx, mem, foreign, pos, status>>
sfVars == <<lsVars, N, callVars>>

NoPacket == -1

NotStarted == 0

Variables ==
  (UNION {{source.code[b][k][2] : k \in DOMAIN source.code[b]} : b \in DOMAIN source.code}) \ {0}

SFInit ==
  /\ LSInit
  /\ N \in BatchSizes
  /\ at = NullBlock
  /\ idx = 0
  /\ mem = [v \in Variables |-> [place \in 0 .. ArrayPlaces |-> NoPacket]]
  /\ foreign = {}
  /\ pos = [p \in 0 .. N - 1 |-> NotStarted]
  /\ status = "idle"

Split == LSNext /\ UNCHANGED <<N, callVars>>

(* A function with an edge to a null block cannot be compiled.  The index  *)
(* is an alloca that nothing initialises.                                  *)
Call ==
  /\ stage = "done"
  /\ status = "idle"
  /\ \A b \in DOMAIN succ : NullBlock \notin SuccessorsOf(succ, b)
  /\ at' = Entry
  /\ idx' \in IndexValues
  /\ status' = "running"
  /\ UNCHANGED <<lsVars, N, mem, foreign, pos>>

IsIn(part) == status = "running" /\ \E k \in DOMAIN Loops : at = Loops[k][part]

(* Fault: the body runs once more, with the index equal to the size. *)
RunsOnceMore == idx <= N

RunsBody == idx < N

RunHeader ==
  /\ IsIn("Header")
  /\ at' = IF RunsBody THEN succ[at][1] ELSE succ[at][2]
  /\ UNCHANGED <<lsVars, N, idx, mem, foreign, pos, status>>

RunLatch ==
  /\ IsIn("Latch")
  /\ idx' = idx + 1
  /\ at' = succ[at][1]
  /\ UNCHANGED <<lsVars, N, mem, foreign, pos, status>>

Touched(b) == {code[b][k][2] : k \in {j \in DOMAIN code[b] : code[b][j][1] # "annotate"}} \ {0}

Place(v) == IF at # Entry /\ v \in arrays THEN idx ELSE ArrayPlaces

IsOverrun == at # Entry /\ idx \notin 0 .. ArrayPlaces - 1 /\ Touched(at) \cap arrays # {}

InBody == at \in loop.Blocks \ {loop.Header, loop.Latch}

SetIn(b) == {v \in Touched(b) : \E k \in DOMAIN code[b] : code[b][k] = <<"set", v>>}

(* The variables a block reads before it sets them. *)
ReadFirstIn(c, b) ==
  {v \in {c[b][k][2] : k \in DOMAIN c[b]} : \E k \in DOMAIN c[b] :
     /\ c[b][k] \in {<<"read", v>>, <<"deref", v>>, <<"point", v>>}
     /\ \A j \in 1 .. k - 1 : c[b][j] # <<"set", v>>}

(* Any other block, among them the preheaders, which set the index to 0.   *)
(* The data decide which way it goes on.                                   *)
RunBlock ==
  /\ status = "running"
  /\ ~IsIn("Header")
  /\ ~IsIn("Latch")
  /\ ~IsOverrun
  /\ at' \in SuccessorsOf(succ, at)
  /\ idx' = IF IsIn("PreHeader") THEN 0 ELSE idx
  /\ mem' = [v \in Variables |->
       IF v \in SetIn(at)
       THEN [mem[v] EXCEPT ![Place(v)] = IF InBody THEN idx ELSE NoPacket]
       ELSE mem[v]]
  /\ foreign' = foreign \cup
       (IF InBody THEN {v \in ReadFirstIn(code, at) : mem[v][Place(v)] # idx} ELSE {})
  /\ pos' = IF InBody /\ idx < N THEN [pos EXCEPT ![idx] = at] ELSE pos
  /\ UNCHANGED <<lsVars, N, status>>

Overrun ==
  /\ status = "running"
  /\ IsOverrun
  /\ status' = "overrun"
  /\ UNCHANGED <<lsVars, N, at, idx, mem, foreign, pos>>

Return ==
  /\ status = "running"
  /\ succ[at] = <<>>
  /\ ~IsOverrun
  /\ status' = "returned"
  /\ UNCHANGED <<lsVars, N, at, idx, mem, foreign, pos>>

SFNext ==
  \/ Split
  \/ Call
  \/ RunHeader
  \/ RunLatch
  \/ RunBlock
  \/ Overrun
  \/ Return

SFSpec == SFInit /\ [][SFNext]_sfVars /\ WF_sfVars(SFNext)

-----------------------------------------------------------------------------

SFTypeOK ==
  /\ source \in Sources
  /\ stage \in {"start", "splitting", "looping", "stitching", "walking", "assigning", "done",
                "unchanged", "aborted", "crashed", "overflowed", "undefined"}
  /\ DOMAIN code = DOMAIN succ
  /\ \A b \in DOMAIN succ : SuccessorsOf(succ, b) \subseteq DOMAIN succ \cup {NullBlock}
  /\ AnnotatedVars \in Seq(Variables)
  /\ Range(VarUsePoints) \subseteq Range(AnnotatedVars)
  /\ arrays \subseteq Range(AnnotatedVars)
  /\ loop.Blocks \subseteq DOMAIN succ
  /\ Range(Blocks) \subseteq DOMAIN succ
  /\ status # "idle" => at \in DOMAIN succ
  /\ idx \in IndexValues \cup 0 .. N
  /\ foreign \subseteq Variables
  /\ pos \in [0 .. N - 1 -> DOMAIN succ \cup {NotStarted}]
  /\ status \in {"idle", "running", "overrun", "returned"}

BodyOf(s) == s.loop.Blocks \ {s.loop.Header, s.loop.Latch}

(* All ways from the begin of the body to a block lead through b: without  *)
(* b they stay in a set of blocks that leaves the other one out.           *)
AllPass(s, b, to) ==
  \E S \in SUBSET (BodyOf(s) \ {b, to}) :
    /\ BodyBegin(s.succ, s.loop) \in S \cup {b}
    /\ \A x \in S : SuccessorsOf(s.succ, x) \subseteq S \cup {b}

UsePoint(s, v) == findEarliestPointerDerefInstruction(s.code, v)

HasUsePoint(s, v) == Places(s.code, <<"deref", v>>) # {}

HasAcyclicBody(s) ==
  \A S \in SUBSET BodyOf(s) :
    S # {} => \E b \in S : SuccessorsOf(s.succ, b) \cap S = {}

HasOneEnd(s) == BodyEndOf(s.succ, s.loop) # NullBlock

HasOneExit(s) == Cardinality(ExitEdges(s.succ, s.loop)) = 1

(* A variable has a use point, not at the start of its block, that all     *)
(* packets come to, and is set on all ways to a block that reads it.       *)
SupportsVariable(s, v) ==
  /\ HasUsePoint(s, v)
  /\ UsePoint(s, v)[1] \in BodyOf(s)
  /\ UsePoint(s, v)[2] > 1
  /\ AllPass(s, UsePoint(s, v)[1], s.loop.Latch)
  /\ \A b \in BodyOf(s) : v \in ReadFirstIn(s.code, b) =>
       \E a \in BodyOf(s) \ {b} : <<"set", v>> \in Range(s.code[a]) /\ AllPass(s, a, b)

(* The variables a block reads and has not set since its last use point,   *)
(* where it will be cut, or before the getelementptr in front of it.       *)
TakenIn(s, b, vars) ==
  {v \in {s.code[b][k][2] : k \in DOMAIN s.code[b]} : \E k \in DOMAIN s.code[b] :
     /\ s.code[b][k] \in {<<"read", v>>, <<"deref", v>>}
     /\ \A j \in 1 .. k - 1 : s.code[b][j] = <<"set", v>> =>
          \E w \in Range(vars) : \E l \in j + 1 .. k : UsePoint(s, w) = <<b, l>>}

(* Variables that are used in one block are annotated in that order. *)
SupportsOrder(s, vars) ==
  \A j, k \in DOMAIN vars :
    j < k /\ UsePoint(s, vars[j])[1] = UsePoint(s, vars[k])[1]
      => UsePoint(s, vars[j])[2] < UsePoint(s, vars[k])[2]

(* The entry goes straight to the preheader; no other block goes there, as *)
(* one would if the loop were in another one, but LI.begin() gives an      *)
(* outermost loop.  Somewhere in the body there is a branch.               *)
SupportsLoop(s) ==
  /\ s.loop.Header # NullBlock
  /\ s.loop.PreHeader \notin {NullBlock, Entry}
  /\ s.succ[Entry] = <<s.loop.PreHeader>>
  /\ PredecessorsOf(s.succ, s.loop.PreHeader) = {Entry}
  /\ HasOneExit(s)
  /\ HasOneEnd(s)
  /\ HasAcyclicBody(s)
  /\ \E b \in BodyOf(s) : Len(s.succ[b]) > 1

(* A variable that a part of the body takes from another one is annotated, *)
(* for the others have one place for all packets, and it is used in the    *)
(* body only.                                                              *)
Supported ==
  {s \in Sources :
     LET vars == detectExpPtrVars(s.code) IN
     /\ vars # <<>>
     /\ SupportsLoop(s)
     /\ \A v \in Range(vars) : SupportsVariable(s, v)
     /\ \A b \in DOMAIN s.code \ BodyOf(s) : \A k \in DOMAIN s.code[b] :
          s.code[b][k][1] \in {"annotate", "gep", "other"}
     /\ \A b \in BodyOf(s) : TakenIn(s, b, vars) \subseteq Range(vars)
     /\ SupportsOrder(s, vars)}

(* The pass splits what it supports: it does not fail, nor leave it as it  *)
(* was.  The loops are made for variables, the sets of blocks by the walk; *)
(* that there is a set for each loop after one was dropped depends on how  *)
(* often the walk comes to the end.                                        *)
SupportedIsSplit ==
  source \in Supported => 
    stage \notin {"unchanged", "aborted", "crashed", "overflowed", "undefined"}

IsAnnotatedTwice(s) ==
  LET vars == detectExpPtrVars(s.code) IN \E j, k \in DOMAIN vars : j # k /\ vars[j] = vars[k]

(* Without a cycle, and with one way into the latch, the walk comes to an  *)
(* end, though it forgets where it has been; an assertion stops the pass   *)
(* only for a loop with several exits, a use that starts a block, also     *)
(* because it was split off before, and a use that splits the header.      *)
FailureHasCause ==
  /\ stage = "overflowed" => ~HasOneEnd(source) \/ ~HasAcyclicBody(source)
  /\ stage = "aborted" =>
       \/ ~HasOneExit(source)
       \/ IsAnnotatedTwice(source)
       \/ \E v \in Variables :
            /\ HasUsePoint(source, v)
            /\ UsePoint(source, v)[2] = 1 \/ UsePoint(source, v)[1] = source.loop.Header

(* In the split function each packet reads what itself has put into an     *)
(* annotated variable, although all packets go through one part before     *)
(* the first goes through the next one.                                    *)
ReadsOwnValue == source \in Supported => foreign = {}

(* The arrays are overrun only by a batch that is larger, or outside of    *)
(* the loops: by one as large, for the index is the size behind a loop, or *)
(* if the entry block has another way on than to the first loop, where a   *)
(* variable is used with an index that was not set.                        *)
StaysInArrays ==
  status = "overrun" =>
    N > ArrayPlaces \/ (~InBody /\ (N = ArrayPlaces \/ Len(succ[Entry]) > 1))

Parts == INSTANCE PacketParts WITH
  succ <- body,
  begin <- IF body = <<>> THEN NullBlock ELSE BodyBegin(body, loop),
  end <- IF body = <<>> THEN NullBlock ELSE BodyEnd,
  finished <- status = "returned"

(* The loops together take each packet of a supported function through the *)
(* body as the single loop would have done.                                *)
TakesPacketsThroughBody ==
  Parts!Init /\ [][stage = "done" /\ source \in Supported => [Parts!Next]_(Parts!vars)]_sfVars

(* A batch that fits the arrays ends, if the pass ends at all. *)
SupportedBatchReturns ==
  source \in Supported /\ N <= ArrayPlaces ~> status = "returned"

(* What the class comment promises: one annotated variable and one loop    *)
(* are enough.                                                             *)
PreconditionsSuffice ==
  detectExpPtrVars(source.code) # <<>> /\ source.loop.Header # NullBlock => stage # "undefined"
=============================================================================
