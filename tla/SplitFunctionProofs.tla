-------------------------- MODULE SplitFunctionProofs --------------------------
(***************************************************************************)
(* For functions of any size and batches and arrays of any size: what the  *)
(* loop splitter makes keeps its types, its failures have the causes that  *)
(* are stated, the arrays are overrun only by a batch that is larger, or   *)
(* outside of the loops, and a supported function is split.                *)
(***************************************************************************)
EXTENDS SplitFunction, WellFoundedInduction, FiniteSetTheorems, TLAPS

-----------------------------------------------------------------------------

(* A flow graph of numbered blocks; no edge leads to the entry block. *)
IsNumbered(s, n) ==
  /\ n \in Nat \ {0}
  /\ DOMAIN s = 1 .. n
  /\ \A b \in 1 .. n : s[b] \in Seq(2 .. n)

NoLoop == [PreHeader |-> NullBlock, Header |-> NullBlock, Latch |-> NullBlock, Blocks |-> {}]

Body(L) == L.Blocks \ {L.Header, L.Latch}

(* A loop that is entered at its header and left to it by its latch only,  *)
(* and from all of whose blocks control can stay in it.                    *)
IsLoop(s, L) ==
  /\ L.Header \in L.Blocks /\ L.Latch \in L.Blocks /\ L.Header # L.Latch
  /\ L.Blocks \subseteq DOMAIN s
  /\ Entry \notin L.Blocks
  /\ L.PreHeader \in (DOMAIN s \cup {NullBlock}) \ L.Blocks
  /\ \A b \in L.Blocks \ {L.Latch} : L.Header \notin SuccessorsOf(s, b)
  /\ \A b \in DOMAIN s \ L.Blocks : SuccessorsOf(s, b) \cap L.Blocks \subseteq {L.Header}
  /\ L.PreHeader # NullBlock =>
       \A b \in DOMAIN s \ L.Blocks : L.Header \in SuccessorsOf(s, b) => b = L.PreHeader
  /\ \A b \in L.Blocks : SuccessorsOf(s, b) \cap L.Blocks # {}
  /\ s[L.Latch] = <<L.Header>>
  /\ Len(s[L.Header]) = 2
  /\ s[L.Header][1] \in Body(L)
  /\ s[L.Header][2] \notin L.Blocks

IsLeftAtHeader(s, L) == \A b \in L.Blocks \ {L.Header} : SuccessorsOf(s, b) \subseteq L.Blocks

(* One edge leads to the latch. *)
HasEnd(s, L) ==
  \E e \in DOMAIN s : \E k \in DOMAIN s[e] :
    \A a \in DOMAIN s : \A j \in DOMAIN s[a] : s[a][j] = L.Latch <=> a = e /\ j = k

IsAcyclic(s, L) ==
  \A S \in SUBSET Body(L) : S # {} => \E b \in S : SuccessorsOf(s, b) \cap S = {}

NoDuplicates(list) == \A j, k \in DOMAIN list : list[j] = list[k] => j = k

(* What is known of the code at any time. *)
AllInstructions ==
  ({"annotate", "set", "deref", "read", "point", "prefetch"} \X Variables)
    \cup ({"indirect", "gep", "other"} \X {0})

ListsOK ==
  /\ AnnotatedVars \in Seq(Variables)
  /\ VarUsePoints \in Seq(Variables)
  /\ Range(VarUsePoints) \subseteq Range(AnnotatedVars)
  /\ ~IsAnnotatedTwice(source) => NoDuplicates(VarUsePoints)

(* While blocks are split: each use point is somewhere, and starts a block *)
(* only if it did in the source or was split off.  A use point in the      *)
(* header was there in the source.                                         *)
PointsOK ==
  /\ VarUsePoints # <<>>
  /\ i \in 1 .. Len(VarUsePoints) + 1
  /\ \A j \in DOMAIN VarUsePoints : Places(code, <<"point", VarUsePoints[j]>>) # {}
  /\ \A b \in DOMAIN code, v \in Variables : 1 \in DOMAIN code[b] /\ code[b][1] = <<"point", v>> =>
       \/ \E j \in 1 .. i - 1 : VarUsePoints[j] = v
       \/ HasUsePoint(source, v) /\ UsePoint(source, v)[2] = 1
  /\ loop.Header # NullBlock => \A k \in DOMAIN code[loop.Header], v \in Variables :
       code[loop.Header][k] = <<"point", v>> =>
         HasUsePoint(source, v) /\ UsePoint(source, v)[1] = loop.Header

(* A use point is in the header. *)
SplitsHeader ==
  \E v \in Variables : HasUsePoint(source, v) /\ UsePoint(source, v)[1] = source.loop.Header

(* What the source has of one exit, one end and no cycle, the split        *)
(* function has, too.                                                      *)
KeptLoop(s, L) ==
  /\ IsLoop(s, L)
  /\ HasOneExit(source) => IsLeftAtHeader(s, L)
  /\ HasOneEnd(source) => HasEnd(s, L)
  /\ HasAcyclicBody(source) => IsAcyclic(s, L)

InSplitting == stage \in {"start", "splitting", "unchanged", "crashed", "aborted"}

SplittingOK ==
  /\ IsNumbered(succ, Cardinality(DOMAIN succ))
  /\ loop.Header = source.loop.Header
  /\ loop.Header \in DOMAIN succ \cup {NullBlock}
  /\ loop.Blocks \subseteq DOMAIN succ
  /\ IF loop.Header = NullBlock THEN loop = NoLoop
     ELSE KeptLoop(succ, loop) \/ (Len(succ[loop.Header]) # 2 /\ SplitsHeader)
  /\ EndBlocks \in Seq(Nat)
  /\ Loops = <<>> /\ Blocks = <<>> /\ LoopBlocks = <<>>
  /\ stage = "start" => succ = source.succ /\ code = source.code /\ loop = source.loop /\ i = 1
  /\ stage = "splitting" => PointsOK
  /\ stage # "start" \/ (AnnotatedVars = <<>> /\ VarUsePoints = <<>>)

-----------------------------------------------------------------------------

Size == Cardinality(DOMAIN body)

(* The number of new loops made so far, and the k-th of them. *)
Made == IF stage = "looping" THEN Len(Loops) ELSE NumNewLoops

Skeleton(k) ==
  IF k > NumNewLoops THEN extractLoopSkeleton(loop)
  ELSE [PreHeader |-> Size + 4 * k - 3, Header |-> Size + 4 * k - 2, Latch |-> Size + 4 * k - 1,
        EmptyBody |-> Size + 4 * k]

(* The blocks control is in only while the index is below the size. *)
Inside ==
  Body(loop) \cup {Loops[k].Latch : k \in DOMAIN Loops}
    \cup {Loops[k].EmptyBody : k \in 1 .. Made}
    \cup {loop.Latch}

HeadersMade == {Loops[k].Header : k \in DOMAIN Loops} \cup {loop.Header}

PreHeadersMade == {Loops[k].PreHeader : k \in DOMAIN Loops} \cup {loop.PreHeader}

(* The loop that was found, and the body as it was then. *)
FoundOK ==
  /\ IsNumbered(body, Size)
  /\ loop.Header # NullBlock
  /\ KeptLoop(body, loop)
  /\ IsLeftAtHeader(body, loop)
  /\ ExitBlock = body[loop.Header][2]
  /\ EndBlocks \in Seq(Nat) /\ EndBlocks # <<>>
  /\ BodyEnd = BodyEndOf(body, loop)
  /\ NumNewLoops \in Nat \ {0}

(* The blocks of the new loops have no code but for the index. *)
LoopsOK ==
  /\ stage = "looping" => i = Len(Loops) + 1 /\ i <= NumNewLoops + 1
  /\ stage # "looping" => Len(Loops) = NumNewLoops + 1
  /\ stage = "stitching" => i \in 1 .. Len(Loops)
  /\ stage = "assigning" => i \in 1 .. Len(Loops) + 1
  /\ Loops \in Seq(Range(Loops))
  /\ \A k \in DOMAIN Loops : Loops[k] = Skeleton(k)
  /\ DOMAIN succ = 1 .. Size + 4 * Made
  /\ \A b \in DOMAIN code : b > Size => code[b] = <<>>

IsStitched(k) ==
  \/ stage \in {"looping", "stitching"} /\ k > NumNewLoops
  \/ stage = "stitching" /\ k < i
  \/ stage \notin {"looping", "stitching"}

(* Control comes into the loops only on the first edge of a header, and    *)
(* leaves each at its latch.  It comes to a header from a preheader, and   *)
(* to the first one from the entry block.                                  *)
EdgesOK ==
  /\ \A b \in DOMAIN succ : succ[b] \in Seq(DOMAIN succ \cup {NullBlock})
  /\ \A b \in DOMAIN succ \ (Inside \cup HeadersMade) : SuccessorsOf(succ, b) \cap Inside = {}
  /\ \A h \in HeadersMade : Len(succ[h]) = 2
  /\ \A k \in DOMAIN Loops : IsStitched(k) => succ[Loops[k].Header][2] \notin Inside
  /\ succ[loop.Header][2] \notin Inside
  /\ \A k \in DOMAIN Loops : succ[Loops[k].Latch] = <<Loops[k].Header>>
  /\ loop.PreHeader # NullBlock =>
       \A b \in DOMAIN succ \ (Inside \cup PreHeadersMade) : SuccessorsOf(succ, b) \cap HeadersMade = {}
  /\ stage # "looping" /\ 1 \in DOMAIN succ[Entry] => succ[Entry][1] = Loops[1].PreHeader
  /\ IsStitched(NumNewLoops) => succ[Loops[NumNewLoops].Header][2] = loop.PreHeader
  /\ stage \in {"looping", "stitching", "walking"} =>
       \A b \in DOMAIN body \ {Entry} : succ[b] = body[b]

(* The depth of a call is the number of blocks of a way that leads to it.  *)
IsReachedIn(b, depth) ==
  \E A \in SUBSET (Body(loop) \ {b}) :
    /\ Cardinality(A) = depth - 1
    /\ \A a \in A : SuccessorsOf(body, a) \cap (A \cup {b}) # {}

WalkOK ==
  /\ Blocks \in Seq(2 .. Size)
  /\ stage = "walking" => walk \in Seq((2 .. Size) \X (Nat \ {0}))
  /\ stage = "walking" /\ BodyEnd = NullBlock => \E k \in DOMAIN walk : walk[k][1] \in loop.Blocks
  /\ BodyEnd # NullBlock =>
       /\ stage = "walking" => \A k \in DOMAIN walk :
            /\ walk[k][1] \in Body(loop)
            /\ IsAcyclic(body, loop) => IsReachedIn(walk[k][1], walk[k][2])
       /\ Blocks \in Seq(Body(loop))
       /\ LoopBlocks \in Seq(Seq(Body(loop)) \ {<<>>})
  /\ stage \in {"assigning", "done"} => BodyEnd # NullBlock
  /\ stage = "overflowed" => BodyEnd = NullBlock \/ ~IsAcyclic(body, loop)

LoopingOK == FoundOK /\ LoopsOK /\ EdgesOK /\ WalkOK

-----------------------------------------------------------------------------

Stages ==
  {"start", "splitting", "looping", "stitching", "walking", "assigning", "done",
   "unchanged", "aborted", "crashed", "overflowed", "undefined"}

AbortOK ==
  stage = "aborted" =>
    \/ ~HasOneExit(source)
    \/ IsAnnotatedTwice(source)
    \/ \E v \in Variables :
         /\ HasUsePoint(source, v)
         /\ UsePoint(source, v)[2] = 1 \/ UsePoint(source, v)[1] = source.loop.Header

PassInv ==
  /\ source \in Sources
  /\ stage \in Stages
  /\ DOMAIN code = DOMAIN succ
  /\ \A b \in DOMAIN code : code[b] \in Seq(AllInstructions)
  /\ ListsOK
  /\ arrays \subseteq Range(AnnotatedVars)
  /\ AbortOK
  /\ IF InSplitting THEN SplittingOK ELSE LoopingOK

(* In a loop the index is below the size of the batch.  Outside it may not *)
(* be set, but only if the entry block has two ways on.                    *)
CallInv ==
  /\ N \in Nat
  /\ idx \in IndexValues \cup 0 .. N
  /\ foreign \subseteq Variables
  /\ pos \in [0 .. N - 1 -> DOMAIN succ \cup {NotStarted}]
  /\ status \in {"idle", "running", "overrun", "returned"}
  /\ status # "idle" =>
       /\ stage = "done"
       /\ at \in DOMAIN succ
       /\ \A b \in DOMAIN succ : NullBlock \notin SuccessorsOf(succ, b)
       /\ at \in Inside => idx \in 0 .. N - 1
       /\ at \in HeadersMade => idx \in 0 .. N
       /\ \/ idx \in 0 .. N
          \/ at \in {Entry, Loops[1].PreHeader}
          \/ Len(succ[Entry]) > 1
  /\ status = "overrun" => IsOverrun

SFInv == PassInv /\ CallInv

-----------------------------------------------------------------------------

(* A set of natural numbers has a least element. *)
LEMMA SmallestElement ==
  ASSUME NEW S \in SUBSET Nat, S # {}
  PROVE  \E least \in S : \A k \in S : least <= k
<1> DEFINE R == OpToRel(<, Nat)
<1>1. IsWellFoundedOn(R, Nat)
  BY NatLessThanWellFounded
<1>2. \A j, k \in Nat : <<k, j>> \in R <=> k < j
  BY DEF OpToRel
<1> HIDE DEF R
<1>3. PICK least \in S : \A k \in S : ~(<<k, least>> \in R)
  BY <1>1, WFMin
<1>4. ASSUME NEW k \in S PROVE least <= k
  <2>1. least \in Nat /\ k \in Nat
    OBVIOUS
  <2>2. ~(k < least)
    BY <1>2, <1>3, <2>1
  <2> QED BY <2>1, <2>2
<1> QED BY <1>4

(* A set that contains 0, and with each number below n the next one,       *)
(* contains all numbers up to n.                                           *)
LEMMA CountingUp ==
  ASSUME NEW n \in Nat, NEW S, 0 \in S, \A k \in 1 .. n : k - 1 \in S => k \in S
  PROVE  0 .. n \subseteq S
<1> DEFINE bad == {k \in 0 .. n : k \notin S}
<1> SUFFICES ASSUME bad # {} PROVE FALSE
  OBVIOUS
<1>1. bad \in SUBSET Nat
  OBVIOUS
<1>2. PICK least \in bad : \A k \in bad : least <= k
  BY <1>1, SmallestElement
<1>3. least \in 1 .. n /\ least - 1 \in 0 .. n /\ ~(least <= least - 1)
  BY <1>2
<1>4. least - 1 \in S
  BY <1>2, <1>3
<1> QED BY <1>2, <1>3, <1>4

(* In V, the steps 1 .. n can be taken one after the other from first on. *)
CanStep(n, V, first, step) ==
  n \in Nat /\ first \in V /\ \A k \in 1 .. n : \A x \in V : step[k][x] \in V

Runs(n, V, first, step) ==
  {f \in [0 .. n -> V] : f[0] = first /\ \A k \in 1 .. n : f[k] = step[k][f[k - 1]]}

(* A function over 0 .. n can be defined by recursion. *)
LEMMA RecursionWorks ==
  ASSUME NEW n, NEW V, NEW first, NEW step, CanStep(n, V, first, step)
  PROVE  Runs(n, V, first, step) # {}
<1> USE DEF CanStep
<1> DEFINE Goes(f, m) == f[0] = first /\ \A k \in 1 .. m : f[k] = step[k][f[k - 1]]
           S == {m \in 0 .. n : \E f \in [0 .. m -> V] : Goes(f, m)}
<1>1. 0 \in S
  <2> DEFINE f == [k \in 0 .. 0 |-> first]
  <2>1. f \in [0 .. 0 -> V] /\ Goes(f, 0) /\ 0 \in 0 .. n
    OBVIOUS
  <2> HIDE DEF f, Goes
  <2> QED BY <2>1
<1>2. ASSUME NEW m \in 1 .. n, m - 1 \in S PROVE m \in S
  <2>1. PICK f \in [0 .. m - 1 -> V] : Goes(f, m - 1)
    BY <1>2
  <2> DEFINE g == [k \in 0 .. m |-> IF k < m THEN f[k] ELSE step[m][f[m - 1]]]
  <2>2. g \in [0 .. m -> V]
    <3>1. m - 1 \in 0 .. m - 1 /\ \A k \in 0 .. m : k < m => k \in 0 .. m - 1
      OBVIOUS
    <3>2. step[m][f[m - 1]] \in V
      BY <3>1
    <3> QED BY <3>1, <3>2
  <2>3. Goes(g, m)
    <3>1. g[0] = first
      BY <2>1
    <3>2. ASSUME NEW k \in 1 .. m PROVE g[k] = step[k][g[k - 1]]
      <4>1. g[k - 1] = f[k - 1]
        OBVIOUS
      <4>2. CASE k = m
        BY <4>1, <4>2
      <4>3. CASE k # m
        BY <2>1, <4>1, <4>3
      <4> QED BY <4>2, <4>3
    <3> QED BY <3>1, <3>2
  <2> HIDE DEF g, Goes
  <2> QED BY <2>2, <2>3
<1> HIDE DEF S
<1>3. 0 .. n \subseteq S
  BY <1>1, <1>2, CountingUp
<1>4. n \in S
  BY <1>3
<1> QED BY <1>4 DEF S, Runs

LEMMA AppendRange ==
  ASSUME NEW W, NEW list \in Seq(W), NEW e
  PROVE  Range(Append(list, e)) = Range(list) \cup {e}
<1>1. /\ DOMAIN list = 1 .. Len(list)
      /\ DOMAIN Append(list, e) = 1 .. Len(list) + 1
      /\ \A k \in 1 .. Len(list) : Append(list, e)[k] = list[k]
      /\ Append(list, e)[Len(list) + 1] = e
      /\ Len(list) \in Nat
  OBVIOUS
<1> DEFINE new == Append(list, e)
           n == Len(list)
<1> HIDE DEF new, n
<1>2. \A x \in Range(new) : x \in Range(list) \cup {e}
  <2> SUFFICES ASSUME NEW k \in 1 .. n + 1 PROVE new[k] \in Range(list) \cup {e}
    BY <1>1 DEF Range, new, n
  <2>1. CASE k = n + 1
    BY <1>1, <2>1 DEF new, n
  <2>2. CASE k # n + 1
    <3>1. k \in 1 .. n
      BY <1>1, <2>2 DEF n
    <3> QED BY <1>1, <3>1 DEF Range, new, n
  <2> QED BY <2>1, <2>2
<1>3. ASSUME NEW x \in Range(list) PROVE x \in Range(new)
  <2>1. PICK k \in 1 .. n : x = list[k]
    BY <1>1 DEF Range, n
  <2>2. k \in DOMAIN new /\ new[k] = x
    BY <1>1, <2>1 DEF new, n
  <2> QED BY <2>2 DEF Range
<1>4. e \in Range(new)
  <2>1. n + 1 \in DOMAIN new /\ new[n + 1] = e
    BY <1>1 DEF new, n
  <2> QED BY <2>1 DEF Range
<1> QED BY <1>2, <1>3, <1>4 DEF new

LEMMA AppendNoDuplicates ==
  ASSUME NEW W, NEW list \in Seq(W), NoDuplicates(list), NEW e, e \notin Range(list)
  PROVE  NoDuplicates(Append(list, e))
<1> DEFINE new == Append(list, e)
           n == Len(list)
<1>1. /\ n \in Nat /\ DOMAIN list = 1 .. n /\ DOMAIN new = 1 .. n + 1
      /\ \A k \in 1 .. n : new[k] = list[k]
      /\ new[n + 1] = e
  OBVIOUS
<1> HIDE DEF new, n
<1>2. \A k \in 1 .. n : list[k] # e
  BY <1>1 DEF Range
<1> SUFFICES ASSUME NEW j \in 1 .. n + 1, NEW k \in 1 .. n + 1, new[j] = new[k] PROVE j = k
  BY <1>1 DEF NoDuplicates, new
<1>3. (j \in 1 .. n \/ j = n + 1) /\ (k \in 1 .. n \/ k = n + 1)
  BY <1>1
<1>4. CASE j \in 1 .. n /\ k \in 1 .. n
  BY <1>1, <1>4 DEF NoDuplicates
<1> QED BY <1>1, <1>2, <1>3, <1>4

(* The list is scanned element by element.                                 *)
Scans(kept, list, S) ==
  /\ kept[0] = <<>>
  /\ \A k \in 1 .. Len(list) :
       kept[k] = IF list[k] \in S THEN Append(kept[k - 1], list[k]) ELSE kept[k - 1]

LEMMA KeptScans ==
  ASSUME NEW W, NEW list \in Seq(W), NEW S
  PROVE  \E kept : Scans(kept, list, S) /\ Kept(list, S) = kept[Len(list)]
<1> DEFINE n == Len(list)
           V == Seq(Range(list) \cap S)
           Keeps(g) == g = [k \in 0 .. n |->
                              IF k = 0 THEN <<>>
                              ELSE IF list[k] \in S THEN Append(g[k - 1], list[k]) ELSE g[k - 1]]
           kept == CHOOSE g : Keeps(g)
           step == [k \in 1 .. n |->
                      [x \in V |-> IF list[k] \in S THEN Append(x, list[k]) ELSE x]]
           first == <<>>
<1>1. Kept(list, S) = kept[n]
  BY DEF Kept
<1>2. n \in Nat /\ DOMAIN list = 1 .. n
  OBVIOUS
<1>3. first \in V
  OBVIOUS
<1>4. \A k \in 1 .. n : list[k] \in Range(list)
  BY <1>2 DEF Range
<1>5. \A k \in 1 .. n : \A x \in V : list[k] \in S => Append(x, list[k]) \in V
  BY <1>4
<1>6. \A k \in 1 .. n : \A x \in V : step[k][x] = IF list[k] \in S THEN Append(x, list[k]) ELSE x
  <2> HIDE DEF V, n
  <2> QED OBVIOUS
<1> HIDE DEF step
<1>7. \A k \in 1 .. n : \A x \in V : step[k][x] \in V
  <2> HIDE DEF V, n
  <2> SUFFICES ASSUME NEW k \in 1 .. n, NEW x \in V PROVE step[k][x] \in V
    OBVIOUS
  <2>1. CASE list[k] \in S
    BY <1>5, <1>6, <2>1
  <2>2. CASE list[k] \notin S
    BY <1>6, <2>2
  <2> QED BY <2>1, <2>2
<1>8. \E g : Keeps(g) /\ g \in [0 .. n -> V]
  <2> HIDE DEF V, first, n
  <2>1. CanStep(n, V, first, step)
    BY <1>2, <1>3, <1>7 DEF CanStep
  <2>2. Runs(n, V, first, step) # {}
    BY <2>1, RecursionWorks
  <2>3. PICK g \in [0 .. n -> V] : g[0] = first /\ \A k \in 1 .. n : g[k] = step[k][g[k - 1]]
    BY <2>2 DEF Runs
  <2>4. ASSUME NEW k \in 1 .. n
        PROVE  g[k] = IF list[k] \in S THEN Append(g[k - 1], list[k]) ELSE g[k - 1]
    <3>1. k - 1 \in 0 .. n
      BY <1>2
    <3>2. g[k - 1] \in V
      BY <3>1
    <3>3. g[k] = step[k][g[k - 1]]
      BY <2>3
    <3> QED BY <1>6, <3>2, <3>3
  <2>5. Keeps(g)
    <3>1. g[0] = <<>>
      BY <2>3 DEF first
    <3>2. \A k \in 0 .. n : k = 0 \/ k \in 1 .. n
      BY <1>2
    <3> QED BY <2>4, <3>1, <3>2
  <2> QED BY <2>5
<1>9. Keeps(kept)
  <2> HIDE DEF V, Keeps
  <2> QED BY <1>8
<1> HIDE DEF kept
<1>10. /\ kept[0] = <<>>
       /\ \A k \in 1 .. n : kept[k] = IF list[k] \in S THEN Append(kept[k - 1], list[k]) ELSE kept[k - 1]
  <2>1. 0 \in 0 .. n /\ \A k \in 1 .. n : k \in 0 .. n /\ k # 0
    BY <1>2
  <2> HIDE DEF n
  <2> QED BY <1>9, <2>1
<1> QED BY <1>1, <1>10 DEF Scans

(* What is kept of a list is what is in the set, and nothing twice if the  *)
(* list has nothing twice.                                                 *)
LEMMA KeptList ==
  ASSUME NEW W, NEW list \in Seq(W), NEW S
  PROVE  /\ Kept(list, S) \in Seq(Range(list) \cap S)
         /\ Range(Kept(list, S)) = Range(list) \cap S
         /\ NoDuplicates(list) => NoDuplicates(Kept(list, S))
<1> DEFINE n == Len(list)
           some(k) == {list[j] : j \in {m \in 1 .. k : list[m] \in S}}
           V == Seq(Range(list) \cap S)
<1>1. PICK kept : Scans(kept, list, S) /\ Kept(list, S) = kept[n]
  BY KeptScans
<1>2. n \in Nat /\ DOMAIN list = 1 .. n
  OBVIOUS
<1>3. <<>> \in V
  OBVIOUS
<1>4. \A k \in 1 .. n : list[k] \in Range(list)
  BY <1>2 DEF Range
<1>5. \A k \in 1 .. n : \A x \in V : list[k] \in S => Append(x, list[k]) \in V
  BY <1>4
<1>10. /\ kept[0] = <<>>
       /\ \A k \in 1 .. n : kept[k] = IF list[k] \in S THEN Append(kept[k - 1], list[k]) ELSE kept[k - 1]
  BY <1>1 DEF Scans
<1> DEFINE T == {k \in 0 .. n : /\ kept[k] \in V
                                /\ Range(kept[k]) = some(k)
                                /\ NoDuplicates(list) => NoDuplicates(kept[k])}
<1>11. 0 \in T
  <2>1. some(0) = {}
    OBVIOUS
  <2>2. Range(kept[0]) = {} /\ NoDuplicates(kept[0]) /\ kept[0] \in V
    BY <1>3, <1>10 DEF Range, NoDuplicates
  <2>3. 0 \in 0 .. n
    BY <1>2
  <2> HIDE DEF some, V, n
  <2> QED BY <2>1, <2>2, <2>3
<1>12. ASSUME NEW k \in 1 .. n, k - 1 \in T PROVE k \in T
  <2>1. /\ kept[k - 1] \in V
        /\ Range(kept[k - 1]) = some(k - 1)
        /\ NoDuplicates(list) => NoDuplicates(kept[k - 1])
    BY <1>12
  <2>2. some(k) = IF list[k] \in S THEN some(k - 1) \cup {list[k]} ELSE some(k - 1)
    <3>1. \A j \in 1 .. k : j \in 1 .. k - 1 \/ j = k
      BY <1>2
    <3>2. 1 .. k - 1 \subseteq 1 .. k /\ k \in 1 .. k
      BY <1>2
    <3> QED BY <3>1, <3>2
  <2>3. CASE list[k] \in S
    <3>1. kept[k] = Append(kept[k - 1], list[k])
      BY <1>10, <2>3
    <3>2. Range(kept[k]) = some(k)
      <4> HIDE DEF some
      <4> QED BY <2>1, <2>2, <2>3, <3>1, AppendRange
    <3>3. kept[k] \in V
      BY <1>5, <2>1, <2>3, <3>1
    <3>4. ASSUME NoDuplicates(list) PROVE NoDuplicates(kept[k])
      <4>1. \A j \in 1 .. k - 1 : list[j] # list[k]
        BY <1>2, <3>4 DEF NoDuplicates
      <4>2. list[k] \notin some(k - 1)
        BY <4>1
      <4> HIDE DEF some
      <4> QED BY <2>1, <3>1, <3>4, <4>2, AppendNoDuplicates
    <3> HIDE DEF some
    <3> QED BY <3>2, <3>3, <3>4
  <2>4. CASE list[k] \notin S
    <3> HIDE DEF some
    <3> QED BY <1>10, <2>1, <2>2, <2>4
  <2> QED BY <2>3, <2>4
<1> HIDE DEF T
<1>13. 0 .. n \subseteq T
  BY <1>2, <1>11, <1>12, CountingUp
<1>14. n \in 0 .. n
  BY <1>2
<1>15. n \in T
  BY <1>13, <1>14
<1>16. some(n) = Range(list) \cap S
  BY <1>2 DEF Range
<1> HIDE DEF some, V
<1>17. /\ kept[n] \in V
       /\ Range(kept[n]) = some(n)
       /\ NoDuplicates(list) => NoDuplicates(kept[n])
  BY <1>15 DEF T
<1> QED BY <1>1, <1>16, <1>17 DEF V

(* A list is kept as it is if all that is in it is to be kept.             *)
LEMMA KeptAll ==
  ASSUME NEW W, NEW list \in Seq(W), NEW S, Range(list) \subseteq S
  PROVE  Kept(list, S) = list
<1> DEFINE n == Len(list)
<1>1. PICK kept : Scans(kept, list, S) /\ Kept(list, S) = kept[n]
  BY KeptScans
<1>2. n \in Nat /\ DOMAIN list = 1 .. n /\ \A k \in 1 .. n : list[k] \in W /\ list[k] \in S
  BY DEF Range
<1>3. kept[0] = <<>> /\ \A k \in 1 .. n : kept[k] = Append(kept[k - 1], list[k])
  BY <1>1, <1>2 DEF Scans
<1> DEFINE first(k) == [j \in 1 .. k |-> list[j]]
           T == {k \in 0 .. n : kept[k] = first(k)}
<1>4. 0 \in T
  <2>1. first(0) = <<>> /\ 0 \in 0 .. n
    BY <1>2
  <2> HIDE DEF first
  <2> QED BY <1>3, <2>1
<1>5. ASSUME NEW k \in 1 .. n, k - 1 \in T PROVE k \in T
  <2>1. kept[k] = Append(first(k - 1), list[k])
    BY <1>3, <1>5
  <2>2. first(k - 1) \in [1 .. k - 1 -> W]
    BY <1>2
  <2>3. first(k - 1) \in Seq(W) /\ Len(first(k - 1)) = k - 1
    <3> HIDE DEF first
    <3> QED BY <1>2, <2>2
  <2> DEFINE next == Append(first(k - 1), list[k])
  <2>4. next \in Seq(W) /\ Len(next) = k /\ next[k] = list[k] /\ \A j \in 1 .. k - 1 : next[j] = first(k - 1)[j]
    <3> HIDE DEF first
    <3> QED BY <1>2, <2>3
  <2>5. next = first(k)
    <3>1. \A j \in 1 .. k : next[j] = list[j]
      <4>1. \A j \in 1 .. k : j # k => j \in 1 .. k - 1
        BY <1>2
      <4> HIDE DEF next
      <4> QED BY <2>4, <4>1
    <3> HIDE DEF next
    <3>2. next = [j \in 1 .. Len(next) |-> next[j]]
      BY <2>4
    <3>3. next = [j \in 1 .. k |-> next[j]]
      BY <2>4, <3>2
    <3> QED BY <3>1, <3>3
  <2>6. kept[k] = first(k)
    BY <2>1, <2>5
  <2>7. k \in 0 .. n
    BY <1>2
  <2> QED BY <2>6, <2>7
<1>6. n \in T
  <2> HIDE DEF T
  <2>1. 0 .. n \subseteq T
    BY <1>2, <1>4, <1>5, CountingUp
  <2> QED BY <1>2, <2>1
<1>7. kept[n] = first(n)
  BY <1>6
<1>8. first(n) = list
  <2>1. list = [j \in 1 .. Len(list) |-> list[j]]
    OBVIOUS
  <2> QED BY <2>1
<1> QED BY <1>1, <1>7, <1>8

-----------------------------------------------------------------------------

LEMMA PlacesAre ==
  ASSUME NEW c, NEW inst, NEW p
  PROVE  p \in Places(c, inst) <=> \E b \in DOMAIN c : \E k \in DOMAIN c[b] : p = <<b, k>> /\ c[b][k] = inst
BY DEF Places

IsCode(c) == DOMAIN c \subseteq Nat /\ \A b \in DOMAIN c : c[b] \in Seq(Range(c[b]))

(* The scan for uses ends at one of them, if there is any. *)
LEMMA EarliestUse ==
  ASSUME NEW c, IsCode(c), NEW v, Places(c, <<"deref", v>>) # {}
  PROVE  findEarliestPointerDerefInstruction(c, v) \in Places(c, <<"deref", v>>)
<1> DEFINE P == Places(c, <<"deref", v>>)
           B == {b \in DOMAIN c : \E k \in DOMAIN c[b] : <<b, k>> \in P}
<1>1. \A p \in P : \E b \in DOMAIN c : \E k \in DOMAIN c[b] : p = <<b, k>>
  BY PlacesAre
<1> HIDE DEF P
<1>2. B \in SUBSET Nat /\ B # {}
  <2>1. P # {}
    BY DEF P
  <2>2. PICK p \in P : TRUE
    BY <2>1
  <2>3. PICK b \in DOMAIN c : \E k \in DOMAIN c[b] : p = <<b, k>>
    BY <1>1
  <2>4. b \in B
    BY <2>3
  <2>5. DOMAIN c \in SUBSET Nat
    BY DEF IsCode
  <2> QED BY <2>4, <2>5
<1>3. PICK b \in B : \A a \in B : b <= a
  <2> HIDE DEF B
  <2> QED BY <1>2, SmallestElement
<1> DEFINE K == {k \in DOMAIN c[b] : <<b, k>> \in P}
<1>4. DOMAIN c[b] \subseteq Nat
  BY DEF IsCode
<1>5. K \in SUBSET Nat /\ K # {}
  BY <1>4
<1>6. PICK k \in K : \A j \in K : k <= j
  <2> HIDE DEF K
  <2> QED BY <1>5, SmallestElement
<1>7. <<b, k>> \in P
  OBVIOUS
<1>8. \A q \in P : <<b, k>> = q \/ IsBefore(<<b, k>>, q)
  <2> SUFFICES ASSUME NEW q \in P PROVE <<b, k>> = q \/ IsBefore(<<b, k>>, q)
    OBVIOUS
  <2>0. PICK a \in DOMAIN c : \E j \in DOMAIN c[a] : q = <<a, j>>
    BY <1>1
  <2>1. PICK j \in DOMAIN c[a] : q = <<a, j>>
    BY <2>0
  <2>2. a \in B /\ a \in Nat /\ b \in Nat
    BY <1>2, <2>1
  <2>3. b <= a
    BY <1>3, <2>2
  <2>4. CASE a = b
    <3>1. j \in K /\ j \in Nat /\ k \in Nat
      BY <1>5, <2>1, <2>4
    <3>2. k <= j
      BY <1>6, <3>1
    <3> QED BY <2>1, <2>4, <3>1, <3>2 DEF IsBefore
  <2>5. CASE a # b
    BY <2>1, <2>2, <2>3, <2>5 DEF IsBefore
  <2> QED BY <2>4, <2>5
<1> DEFINE Earliest(p) == p \in P /\ \A q \in P : p = q \/ IsBefore(p, q)
<1>9. \E p \in P : \A q \in P : p = q \/ IsBefore(p, q)
  BY <1>7, <1>8
<1> QED BY <1>9 DEF findEarliestPointerDerefInstruction, P

LEMMA SuccessorsAre ==
  ASSUME NEW s, NEW b
  PROVE  /\ SuccessorsOf(s, b) = {s[b][k] : k \in DOMAIN s[b]}
         /\ \A k \in DOMAIN s[b] : s[b][k] \in SuccessorsOf(s, b)
         /\ \A x \in SuccessorsOf(s, b) : \E k \in DOMAIN s[b] : x = s[b][k]
BY DEF SuccessorsOf

LEMMA NumberedSuccessors ==
  ASSUME NEW n, NEW s, IsNumbered(s, n), NEW b \in DOMAIN s
  PROVE  SuccessorsOf(s, b) \subseteq 2 .. n
<1>1. s[b] \in Seq(2 .. n)
  BY DEF IsNumbered
<1>2. \A k \in DOMAIN s[b] : s[b][k] \in 2 .. n
  <2> DEFINE R == 2 .. n
  <2>1. s[b] \in Seq(R)
    BY <1>1
  <2> HIDE DEF R
  <2>2. \A k \in DOMAIN s[b] : s[b][k] \in R
    BY <2>1
  <2> QED BY <2>2 DEF R
<1> QED BY <1>2 DEF SuccessorsOf

LEMMA NumberedSize ==
  ASSUME NEW n, NEW s, IsNumbered(s, n)
  PROVE  IsFiniteSet(DOMAIN s) /\ Cardinality(DOMAIN s) = n
<1>1. 1 \in Int /\ n \in Int /\ n >= 1 /\ DOMAIN s = 1 .. n
  BY DEF IsNumbered
<1>2. Cardinality(1 .. n) = n
  <2>1. Cardinality(1 .. n) = n - 1 + 1
    BY <1>1, FS_Interval
  <2> QED BY <1>1, <2>1
<1>3. IsFiniteSet(1 .. n)
  BY <1>1, FS_Interval
<1> QED BY <1>1, <1>2, <1>3

LEMMA FiniteImage ==
  ASSUME NEW S, IsFiniteSet(S), NEW f, DOMAIN f = S
  PROVE  IsFiniteSet({f[x] : x \in S})
<1> DEFINE T == {f[x] : x \in S}
           g == [x \in S |-> f[x]]
<1>1. g \in Surjection(S, T)
  BY DEF Surjection
<1> HIDE DEF T, g
<1>2. IsFiniteSet(T)
  BY <1>1, FS_Surjection
<1> QED BY <1>2 DEF T

LEMMA EdgeIn ==
  ASSUME NEW s, NEW from, NEW to, NEW e
  PROVE  e \in Edges(s, from, to) <=>
           \E b \in from : \E k \in DOMAIN s[b] : e = <<b, k>> /\ s[b][k] \in to
BY DEF Edges

LEMMA FiniteEdges ==
  ASSUME NEW n, NEW s, IsNumbered(s, n), NEW from \in SUBSET DOMAIN s, NEW to
  PROVE  IsFiniteSet(Edges(s, from, to))
<1> DEFINE K(b) == {j \in DOMAIN s[b] : s[b][j] \in to}
           E(b) == {<<b, k>> : k \in K(b)}
           f == [b \in from |-> E(b)]
           EE == {f[b] : b \in from}
<1>1. ASSUME NEW b \in from PROVE IsFiniteSet(E(b))
  <2> DEFINE Kb == K(b)
             g == [k \in Kb |-> <<b, k>>]
  <2>1. s[b] \in Seq(2 .. n)
    BY DEF IsNumbered
  <2>2. DOMAIN s[b] = 1 .. Len(s[b]) /\ 1 \in Int /\ Len(s[b]) \in Int
    BY <2>1
  <2>3. IsFiniteSet(DOMAIN s[b])
    <3> DEFINE m == Len(s[b])
    <3> HIDE DEF m
    <3>1. DOMAIN s[b] = 1 .. m /\ m \in Int
      BY <2>2 DEF m
    <3> QED BY <2>2, <3>1, FS_Interval
  <2>4. IsFiniteSet(Kb)
    <3>1. Kb \in SUBSET DOMAIN s[b]
      OBVIOUS
    <3> HIDE DEF Kb
    <3> QED BY <2>3, <3>1, FS_Subset
  <2>5. E(b) = {g[k] : k \in Kb}
    OBVIOUS
  <2>6. DOMAIN g = Kb
    OBVIOUS
  <2> HIDE DEF Kb, g, E
  <2>7. IsFiniteSet({g[k] : k \in Kb})
    BY <2>4, <2>6, FiniteImage
  <2> QED BY <2>5, <2>7
<1>2. IsFiniteSet(from)
  BY NumberedSize, FS_Subset
<1>3. IsFiniteSet(EE)
  <2>1. DOMAIN f = from
    OBVIOUS
  <2> HIDE DEF f
  <2> QED BY <1>2, <2>1, FiniteImage
<1>4. \A T \in EE : IsFiniteSet(T)
  BY <1>1
<1>5. Edges(s, from, to) = UNION EE
  BY DEF Edges
<1> HIDE DEF EE
<1> QED BY <1>3, <1>4, <1>5, FS_UNION

(* One edge leads to the latch, or no end of the body is found. *)
LEMMA EndOf ==
  ASSUME NEW n, NEW s, IsNumbered(s, n), NEW L
  PROVE  /\ BodyEndOf(s, L) = NullBlock <=> ~HasEnd(s, L)
         /\ HasEnd(s, L) =>
              BodyEndOf(s, L) \in DOMAIN s /\ PredecessorsOf(s, L.Latch) = {BodyEndOf(s, L)}
<1> DEFINE E == Edges(s, DOMAIN s, {L.Latch})
<1>1. NullBlock \notin DOMAIN s
  BY DEF IsNumbered, NullBlock
<1>2. \A e : e \in E <=> \E b \in DOMAIN s : \E k \in DOMAIN s[b] : e = <<b, k>> /\ s[b][k] = L.Latch
  BY EdgeIn
<1>3. IsFiniteSet(E)
  BY FiniteEdges
<1>4. BodyEndOf(s, L) = IF Cardinality(E) = 1 THEN (CHOOSE e \in E : TRUE)[1] ELSE NullBlock
  BY DEF BodyEndOf
<1> HIDE DEF E
<1>5. Cardinality(E) = 1 <=> \E e : E = {e}
  BY <1>3, FS_Singleton
<1>6. CASE HasEnd(s, L)
  <2>0. PICK b \in DOMAIN s : \E k \in DOMAIN s[b] :
          \A a \in DOMAIN s : \A j \in DOMAIN s[a] : s[a][j] = L.Latch <=> a = b /\ j = k
    BY <1>6 DEF HasEnd
  <2>1. PICK k \in DOMAIN s[b] :
          \A a \in DOMAIN s : \A j \in DOMAIN s[a] : s[a][j] = L.Latch <=> a = b /\ j = k
    BY <2>0
  <2>2. E = {<<b, k>>}
    BY <1>2, <2>1
  <2>3. (CHOOSE e \in E : TRUE) = <<b, k>>
    BY <2>2
  <2>4. BodyEndOf(s, L) = b
    <3>1. Cardinality(E) = 1
      BY <1>5, <2>2
    <3>2. BodyEndOf(s, L) = <<b, k>>[1]
      BY <1>4, <2>3, <3>1
    <3> QED BY <3>2
  <2>5. PredecessorsOf(s, L.Latch) = {b}
    BY <2>1 DEF PredecessorsOf, SuccessorsOf
  <2> QED BY <1>1, <1>6, <2>4, <2>5
<1>7. CASE ~HasEnd(s, L)
  <2>1. ASSUME NEW e, E = {e} PROVE FALSE
    <3>0. PICK b \in DOMAIN s : \E k \in DOMAIN s[b] : e = <<b, k>> /\ s[b][k] = L.Latch
      BY <1>2, <2>1
    <3>1. PICK k \in DOMAIN s[b] : e = <<b, k>> /\ s[b][k] = L.Latch
      BY <3>0
    <3>2. ASSUME NEW a \in DOMAIN s, NEW j \in DOMAIN s[a] PROVE s[a][j] = L.Latch <=> a = b /\ j = k
      <4>1. s[a][j] = L.Latch => <<a, j>> \in E
        BY <1>2
      <4>2. <<a, j>> \in E => <<a, j>> = <<b, k>>
        BY <2>1, <3>1
      <4>3. <<a, j>> = <<b, k>> => a = b /\ j = k
        OBVIOUS
      <4> QED BY <3>1, <4>1, <4>2, <4>3
    <3> QED BY <1>7, <3>2 DEF HasEnd
  <2> QED BY <1>4, <1>5, <1>7, <2>1
<1> QED BY <1>6, <1>7

(* Each block of a natural loop has a successor in the loop: without one   *)
(* the latch could not be reached from it.                                 *)
LEMMA NaturalLoopGoesOn ==
  ASSUME NEW s, NEW L, IsNaturalLoop(s, L), IsForLoop(s, L), NEW b \in L.Blocks
  PROVE  SuccessorsOf(s, b) \cap L.Blocks # {}
<1>1. /\ L.Blocks = NaturalLoop(s, L) /\ L.Header \in DOMAIN s /\ L.Latch \in DOMAIN s
      /\ \A a \in DOMAIN s \ L.Blocks : SuccessorsOf(s, a) \cap L.Blocks \subseteq {L.Header}
  BY DEF IsNaturalLoop
<1>2. L.Header \in L.Blocks
  BY <1>1 DEF NaturalLoop
<1>3. L.Header \in SuccessorsOf(s, L.Latch)
  <2>1. s[L.Latch] = <<L.Header>>
    BY DEF IsForLoop
  <2>2. 1 \in DOMAIN s[L.Latch] /\ s[L.Latch][1] = L.Header
    BY <2>1
  <2> QED BY <2>2, SuccessorsAre
<1>4. CASE b = L.Header
  <2>1. 1 \in DOMAIN s[b] /\ s[b][1] \in L.Blocks
    BY <1>4 DEF IsForLoop
  <2> QED BY <2>1, SuccessorsAre
<1>5. CASE b # L.Header /\ b = L.Latch
  BY <1>2, <1>3, <1>5
<1>6. CASE b # L.Header /\ b # L.Latch
  <2> SUFFICES ASSUME SuccessorsOf(s, b) \cap L.Blocks = {} PROVE FALSE
    OBVIOUS
  <2> DEFINE S == L.Blocks \ {L.Header, b}
  <2>1. S \in SUBSET (DOMAIN s \ {L.Header})
    BY <1>1 DEF NaturalLoop
  <2>2. L.Latch \in S
    <3>1. L.Latch \in L.Blocks
      BY <1>1 DEF NaturalLoop
    <3>2. L.Latch # L.Header
      BY <1>3 DEF IsForLoop
    <3> QED BY <1>6, <3>1, <3>2
  <2>3. \A x \in S : PredecessorsOf(s, x) \ {L.Header} \subseteq S
    <3> SUFFICES ASSUME NEW x \in S, NEW a \in DOMAIN s, x \in SuccessorsOf(s, a), a # L.Header
                 PROVE  a \in S
      BY DEF PredecessorsOf
    <3>1. a \in L.Blocks
      BY <1>1
    <3>2. a # b
      OBVIOUS
    <3> QED BY <3>1, <3>2
  <2>4. b \in S
    <3> HIDE DEF S
    <3>1. \A T \in SUBSET (DOMAIN s \ {L.Header}) :
            L.Latch \in T /\ (\A x \in T : PredecessorsOf(s, x) \ {L.Header} \subseteq T) => b \in T
      BY <1>1, <1>6 DEF NaturalLoop
    <3> QED BY <2>1, <2>2, <2>3, <3>1
  <2> QED BY <2>4
<1> QED BY <1>4, <1>5, <1>6

(* The false edge of the header leaves a loop, so there is one exit only   *)
(* if no other block is left.                                              *)
LEMMA OneExit ==
  ASSUME NEW n, NEW s, IsNumbered(s, n), NEW L, IsLoop(s, L)
  PROVE  /\ Cardinality(ExitEdges(s, L)) = 1 <=> IsLeftAtHeader(s, L)
         /\ IsLeftAtHeader(s, L) => ExitEdges(s, L) = {<<L.Header, 2>>}
<1>0. \A x : x \in ExitEdges(s, L) <=>
              \E b \in L.Blocks : \E k \in DOMAIN s[b] : x = <<b, k>> /\ s[b][k] \notin L.Blocks
  <2>1. ASSUME NEW b \in L.Blocks, NEW k \in DOMAIN s[b] PROVE s[b][k] \in DOMAIN s
    <3>1. b \in 1 .. n /\ s[b] \in Seq(2 .. n) /\ DOMAIN s = 1 .. n /\ n \in Nat
      BY DEF IsNumbered, IsLoop
    <3>2. s[b][k] \in 2 .. n
      BY <3>1
    <3> QED BY <3>1, <3>2
  <2> QED BY <2>1, EdgeIn DEF ExitEdges
<1> DEFINE E == ExitEdges(s, L)
           e == <<L.Header, 2>>
<1>1. /\ L.Header \in L.Blocks /\ L.Blocks \subseteq DOMAIN s
      /\ Len(s[L.Header]) = 2 /\ s[L.Header][1] \in L.Blocks /\ s[L.Header][2] \notin L.Blocks
      /\ DOMAIN s[L.Header] = 1 .. 2
  <2>1. s[L.Header] \in Seq(2 .. n)
    BY DEF IsNumbered, IsLoop
  <2> QED BY <2>1 DEF IsLoop, Body
<1>2. IsFiniteSet(E)
  BY <1>1, FiniteEdges DEF ExitEdges
<1>3. e \in E
  BY <1>1, <1>0
<1>4. Cardinality(E) = 1 <=> E = {e}
  <2>1. Cardinality(E) = 1 <=> \E x : E = {x}
    <3> HIDE DEF E
    <3> QED BY <1>2, FS_Singleton
  <2> HIDE DEF E, e
  <2> QED BY <1>3, <2>1
<1>5. ASSUME E = {e} PROVE IsLeftAtHeader(s, L)
  <2> SUFFICES ASSUME NEW b \in L.Blocks \ {L.Header}, NEW k \in DOMAIN s[b], s[b][k] \notin L.Blocks
               PROVE  FALSE
    BY DEF IsLeftAtHeader, SuccessorsOf
  <2>1. <<b, k>> \in E
    BY <1>0
  <2> QED BY <1>5, <2>1
<1>6. ASSUME IsLeftAtHeader(s, L) PROVE E = {e}
  <2> SUFFICES ASSUME NEW x \in E PROVE x = e
    BY <1>3
  <2>0. PICK b \in L.Blocks : \E k \in DOMAIN s[b] : x = <<b, k>> /\ s[b][k] \notin L.Blocks
    BY <1>0
  <2>1. PICK k \in DOMAIN s[b] : x = <<b, k>> /\ s[b][k] \notin L.Blocks
    BY <2>0
  <2>2. b = L.Header
    BY <1>6, <2>1, SuccessorsAre DEF IsLeftAtHeader
  <2>3. k \in 1 .. 2 /\ k # 1
    BY <1>1, <2>1, <2>2
  <2> QED BY <2>1, <2>2, <2>3
<1> QED BY <1>4, <1>5, <1>6

LEMMA SourceLoop ==
  ASSUME NEW s \in Sources, s.loop.Header # NullBlock
  PROVE  /\ IsLoop(s.succ, s.loop)
         /\ HasOneExit(s) => IsLeftAtHeader(s.succ, s.loop)
         /\ HasOneEnd(s) => HasEnd(s.succ, s.loop)
         /\ HasAcyclicBody(s) => IsAcyclic(s.succ, s.loop)
<1> DEFINE f == s.succ
           L == s.loop
           n == Len(s.succ)
<1>1. IsFlowGraph(s) /\ IsNaturalLoop(f, L) /\ IsForLoop(f, L)
  BY SourceAssumption
<1>2. n \in Nat \ {0} /\ DOMAIN f = 1 .. n /\ \A b \in 1 .. n : f[b] \in Seq(2 .. n)
  <2>1. f \in Seq(Seq(2 .. n)) /\ f # <<>>
    BY <1>1 DEF IsFlowGraph
  <2> HIDE DEF f
  <2>2. Len(f) \in Nat /\ Len(f) # 0 /\ DOMAIN f = 1 .. Len(f) /\ \A b \in 1 .. Len(f) : f[b] \in Seq(2 .. n)
    BY <2>1
  <2> QED BY <2>2 DEF f
<1>3. IsNumbered(f, n)
  BY <1>2 DEF IsNumbered
<1>4. /\ L.Header \in DOMAIN f /\ L.Latch \in DOMAIN f
      /\ L.Blocks = NaturalLoop(f, L)
      /\ \A b \in L.Blocks : L.Header \in SuccessorsOf(f, b) => b = L.Latch
      /\ \A b \in DOMAIN f \ L.Blocks : SuccessorsOf(f, b) \cap L.Blocks \subseteq {L.Header}
      /\ {Entry, L.PreHeader} \cap L.Blocks = {}
      /\ L.PreHeader \in DOMAIN f \cup {NullBlock}
      /\ L.PreHeader # NullBlock =>
           \A b \in DOMAIN f \ L.Blocks : L.Header \in SuccessorsOf(f, b) => b = L.PreHeader
  BY <1>1 DEF IsNaturalLoop, IsFlowGraph, IsPreHeader
<1>5. /\ Len(f[L.Header]) = 2
      /\ f[L.Header][1] \in L.Blocks \ {L.Header, L.Latch}
      /\ f[L.Header][2] \notin L.Blocks
      /\ f[L.Latch] = <<L.Header>>
  BY <1>1 DEF IsForLoop
<1>6. L.Header # L.Latch
  BY <1>5
<1>7. L.Header \in L.Blocks /\ L.Latch \in L.Blocks /\ L.Blocks \subseteq DOMAIN f
  BY <1>4 DEF NaturalLoop
<1>8. \A b \in L.Blocks : SuccessorsOf(f, b) \cap L.Blocks # {}
  BY <1>1, NaturalLoopGoesOn
<1>9. IsLoop(f, L)
  <2> HIDE DEF f, L
  <2> QED BY <1>4, <1>5, <1>6, <1>7, <1>8 DEF IsLoop, Body
<1>10. HasOneExit(s) => IsLeftAtHeader(f, L)
  <2>1. HasOneExit(s) <=> Cardinality(ExitEdges(f, L)) = 1
    BY DEF HasOneExit
  <2> HIDE DEF f, L, n
  <2> QED BY <1>3, <1>9, <2>1, OneExit
<1>11. HasOneEnd(s) => HasEnd(f, L)
  <2>1. HasOneEnd(s) <=> BodyEndOf(f, L) # NullBlock
    BY DEF HasOneEnd
  <2> HIDE DEF f, L, n
  <2> QED BY <1>3, <2>1, EndOf
<1>12. HasAcyclicBody(s) => IsAcyclic(f, L)
  BY DEF HasAcyclicBody, IsAcyclic, BodyOf, Body
<1> QED BY <1>9, <1>10, <1>11, <1>12

LEMMA SourceShape ==
  ASSUME NEW s \in Sources
  PROVE  /\ IsNumbered(s.succ, Cardinality(DOMAIN s.succ))
         /\ DOMAIN s.code = DOMAIN s.succ
         /\ \A b \in DOMAIN s.succ : s.code[b] \in Seq(Instructions)
         /\ s.loop.Header \in DOMAIN s.succ \cup {NullBlock}
         /\ s.loop.Blocks \subseteq DOMAIN s.succ
         /\ s.loop.Header = NullBlock => s.loop = NoLoop
<1> DEFINE f == s.succ
           n == Len(s.succ)
<1>1. IsFlowGraph(s) /\ (s.loop.Header = NullBlock => s.loop = NoLoop)
  BY SourceAssumption DEF NoLoop
<1>2. n \in Nat \ {0} /\ DOMAIN f = 1 .. n /\ \A b \in 1 .. n : f[b] \in Seq(2 .. n)
  <2>1. f \in Seq(Seq(2 .. n)) /\ f # <<>>
    BY <1>1 DEF IsFlowGraph
  <2> HIDE DEF f
  <2>2. Len(f) \in Nat /\ Len(f) # 0 /\ DOMAIN f = 1 .. Len(f) /\ \A b \in 1 .. Len(f) : f[b] \in Seq(2 .. n)
    BY <2>1
  <2> QED BY <2>2 DEF f
<1>3. IsNumbered(f, n)
  BY <1>2 DEF IsNumbered
<1>4. Cardinality(DOMAIN f) = n
  <2> HIDE DEF f, n
  <2> QED BY <1>3, NumberedSize
<1>5. s.code \in [DOMAIN f -> Seq(Instructions)]
  BY <1>1 DEF IsFlowGraph
<1>6. s.loop.Header \in DOMAIN f \cup {NullBlock} /\ s.loop.Blocks \subseteq DOMAIN f
  BY <1>1 DEF IsFlowGraph
<1> QED BY <1>1, <1>3, <1>4, <1>5, <1>6

-----------------------------------------------------------------------------

(* Block b is split, and its rest is block new, the first new number.  *)
IsSplit(s, t, b, new) ==
  /\ new \in Nat
  /\ IsNumbered(s, new - 1)
  /\ b \in DOMAIN s
  /\ t = [a \in DOMAIN s \cup {new} |-> IF a = b THEN <<new>> ELSE IF a = new THEN s[b] ELSE s[a]]

LoopAfter(L, b, new) ==
  [PreHeader |-> IF L.PreHeader = b THEN new ELSE L.PreHeader,
   Header |-> L.Header,
   Latch |-> IF L.Latch = b THEN new ELSE L.Latch,
   Blocks |-> IF b \in L.Blocks THEN L.Blocks \cup {new} ELSE L.Blocks]

SplitsInto(s, t, b, new) ==
  /\ new \in Nat \ {0} /\ new \notin DOMAIN s /\ b # new /\ b \in DOMAIN s
  /\ DOMAIN t = DOMAIN s \cup {new}
  /\ NullBlock \notin DOMAIN s
  /\ SuccessorsOf(t, b) = {new}
  /\ SuccessorsOf(t, new) = SuccessorsOf(s, b)
  /\ \A a \in DOMAIN s \ {b} : SuccessorsOf(t, a) = SuccessorsOf(s, a)
  /\ \A a \in DOMAIN s : SuccessorsOf(s, a) \subseteq DOMAIN s
  /\ t[new] = s[b] /\ \A a \in DOMAIN s \ {b} : t[a] = s[a]
  /\ IsNumbered(t, new)

LEMMA SplitEdges ==
  ASSUME NEW s, NEW t, NEW b, NEW new, IsSplit(s, t, b, new)
  PROVE  SplitsInto(s, t, b, new)
<1> DEFINE n == new - 1
<1>1. /\ n \in Nat \ {0} /\ DOMAIN s = 1 .. n /\ \A a \in 1 .. n : s[a] \in Seq(2 .. n)
      /\ b \in 1 .. n
  BY DEF IsSplit, IsNumbered
<1>2. new \in Nat /\ new = n + 1
  <2>1. new \in Nat
    BY DEF IsSplit
  <2> QED BY <2>1
<1>3. new \notin 1 .. n /\ 1 .. n + 1 = (1 .. n) \cup {n + 1}
  <2>1. n \in Nat /\ new = n + 1
    BY <1>1, <1>2
  <2> HIDE DEF n
  <2>2. \A a : a \in 1 .. n + 1 <=> a \in 1 .. n \/ a = n + 1
    BY <2>1
  <2>3. new \notin 1 .. n
    BY <2>1
  <2> QED BY <2>2, <2>3
<1>4. t = [a \in (1 .. n) \cup {new} |-> IF a = b THEN <<new>> ELSE IF a = new THEN s[b] ELSE s[a]]
  BY <1>1 DEF IsSplit
<1>5. /\ DOMAIN t = 1 .. new
      /\ t[b] = <<new>> /\ t[new] = s[b] /\ \A a \in (1 .. n) \ {b} : t[a] = s[a]
  <2>1. 1 .. new = (1 .. n) \cup {new}
    <3>1. n + 1 = new
      BY <1>2
    <3> HIDE DEF n
    <3> QED BY <1>3, <3>1
  <2> HIDE DEF n
  <2> QED BY <1>1, <1>3, <1>4, <2>1
<1>6. SuccessorsOf(t, b) = {new}
  BY <1>5 DEF SuccessorsOf
<1>7. SuccessorsOf(t, new) = SuccessorsOf(s, b) /\ \A a \in (1 .. n) \ {b} : SuccessorsOf(t, a) = SuccessorsOf(s, a)
  BY <1>5 DEF SuccessorsOf
<1>8. \A a \in 1 .. n : SuccessorsOf(s, a) \subseteq 1 .. n
  <2> SUFFICES ASSUME NEW a \in 1 .. n PROVE SuccessorsOf(s, a) \subseteq 1 .. n
    OBVIOUS
  <2>1. IsNumbered(s, n)
    BY DEF IsSplit
  <2>2. SuccessorsOf(s, a) \subseteq 2 .. n
    <3> HIDE DEF n
    <3> QED BY <1>1, <2>1, NumberedSuccessors
  <2>3. 2 .. n \subseteq 1 .. n
    BY <1>1
  <2> QED BY <2>2, <2>3
<1>9. \A a \in 1 .. new : t[a] \in Seq(2 .. new)
  <2>1. \A a \in 1 .. n : s[a] \in Seq(2 .. new)
    <3> DEFINE R == 2 .. n
               Q == 2 .. new
    <3>1. R \subseteq Q
      BY <1>1, <1>2
    <3>2. \A a \in 1 .. n : s[a] \in Seq(R)
      BY <1>1
    <3> HIDE DEF R, Q, n
    <3>3. \A a \in 1 .. n : s[a] \in Seq(Q)
      BY <3>1, <3>2
    <3> QED BY <3>3 DEF Q
  <2>2. <<new>> \in Seq(2 .. new)
    <3>1. new \in 2 .. new
      BY <1>1, <1>2
    <3> QED BY <3>1
  <2>3. \A a \in 1 .. new : a \in 1 .. n \/ a = new
    BY <1>1, <1>2
  <2> HIDE DEF n
  <2> QED BY <1>1, <1>5, <2>1, <2>2, <2>3
<1>10. IsNumbered(t, new)
  BY <1>1, <1>2, <1>5, <1>9 DEF IsNumbered
<1>11. DOMAIN t = DOMAIN s \cup {new} /\ new \notin DOMAIN s /\ NullBlock \notin DOMAIN s
  BY <1>1, <1>2, <1>3, <1>5 DEF NullBlock
<1>12. DOMAIN s = 1 .. n /\ b # new /\ b \in DOMAIN s /\ new \in Nat \ {0}
  BY <1>1, <1>2
<1> HIDE DEF n
<1> QED BY <1>5, <1>6, <1>7, <1>8, <1>10, <1>11, <1>12 DEF SplitsInto

(* A loop stays one when any of its blocks but the header is split, or any *)
(* block outside, and it keeps its exit, its end and what cycles it has.   *)
LEMMA SplitLoop ==
  ASSUME NEW s, NEW t, NEW b, NEW new, IsSplit(s, t, b, new),
         NEW L, IsLoop(s, L), b # L.Header
  PROVE  IsLoop(t, LoopAfter(L, b, new))
<1> DEFINE M == LoopAfter(L, b, new)
<1>0. SplitsInto(s, t, b, new)
  BY SplitEdges
<1> USE <1>0 DEF SplitsInto
<1>1. /\ M.Header = L.Header
      /\ M.Latch = IF L.Latch = b THEN new ELSE L.Latch
      /\ M.PreHeader = IF L.PreHeader = b THEN new ELSE L.PreHeader
      /\ M.Blocks = IF b \in L.Blocks THEN L.Blocks \cup {new} ELSE L.Blocks
  BY DEF LoopAfter
<1> HIDE DEF M
<1>2. /\ L.Header \in L.Blocks /\ L.Latch \in L.Blocks /\ L.Header # L.Latch
      /\ L.Blocks \subseteq DOMAIN s
      /\ Entry \notin L.Blocks
      /\ L.PreHeader \in (DOMAIN s \cup {NullBlock}) \ L.Blocks
  BY DEF IsLoop
<1>3. new \notin L.Blocks
  BY <1>2
<1>4. /\ M.Header \in M.Blocks /\ M.Latch \in M.Blocks /\ M.Header # M.Latch
      /\ M.Blocks \subseteq DOMAIN t
  BY <1>1, <1>2, <1>3
<1>5. Entry \notin M.Blocks
  <2>1. Entry \in DOMAIN s
    BY DEF Entry, IsSplit, IsNumbered
  <2> QED BY <1>1, <1>2, <2>1
<1>6. M.PreHeader \in (DOMAIN t \cup {NullBlock}) \ M.Blocks
  <2>1. NullBlock # new
    BY DEF NullBlock
  <2> QED BY <1>1, <1>2, <1>3, <2>1
<1>7. ASSUME NEW a \in M.Blocks \ {M.Latch} PROVE M.Header \notin SuccessorsOf(t, a)
  <2>1. \A c \in L.Blocks \ {L.Latch} : L.Header \notin SuccessorsOf(s, c)
    BY DEF IsLoop
  <2>2. CASE a = b
    BY <1>1, <1>2, <1>3, <2>2
  <2>3. CASE a = new
    BY <1>1, <1>2, <1>3, <2>1, <2>3
  <2>4. CASE a # b /\ a # new
    BY <1>1, <1>2, <2>1, <2>4
  <2> QED BY <2>2, <2>3, <2>4
<1>8. ASSUME NEW a \in DOMAIN t \ M.Blocks PROVE SuccessorsOf(t, a) \cap M.Blocks \subseteq {M.Header}
  <2>1. \A c \in DOMAIN s \ L.Blocks : SuccessorsOf(s, c) \cap L.Blocks \subseteq {L.Header}
    BY DEF IsLoop
  <2>2. CASE a = b
    BY <1>1, <1>2, <1>3, <2>2
  <2>3. CASE a = new
    BY <1>1, <1>2, <1>3, <2>1, <2>3
  <2>4. CASE a # b /\ a # new
    BY <1>1, <1>2, <1>3, <2>1, <2>4
  <2> QED BY <2>2, <2>3, <2>4
<1>13. ASSUME M.PreHeader # NullBlock, NEW a \in DOMAIN t \ M.Blocks, M.Header \in SuccessorsOf(t, a)
       PROVE  a = M.PreHeader
  <2>1. L.PreHeader # NullBlock =>
          \A c \in DOMAIN s \ L.Blocks : L.Header \in SuccessorsOf(s, c) => c = L.PreHeader
    BY DEF IsLoop
  <2>2. L.PreHeader # NullBlock
    <3>1. b # NullBlock
      OBVIOUS
    <3> QED BY <1>1, <1>13, <3>1
  <2>3. CASE a = b
    BY <1>1, <1>2, <1>3, <1>13, <2>3
  <2>4. CASE a = new
    BY <1>1, <1>2, <1>3, <1>13, <2>1, <2>2, <2>4
  <2>5. CASE a # b /\ a # new
    BY <1>1, <1>2, <1>3, <1>13, <2>1, <2>2, <2>5
  <2> QED BY <2>3, <2>4, <2>5
<1>9. ASSUME NEW a \in M.Blocks PROVE SuccessorsOf(t, a) \cap M.Blocks # {}
  <2>1. \A c \in L.Blocks : SuccessorsOf(s, c) \cap L.Blocks # {}
    BY DEF IsLoop
  <2>2. CASE a = b
    BY <1>1, <1>2, <1>3, <2>2
  <2>3. CASE a = new
    BY <1>1, <1>2, <1>3, <2>1, <2>3
  <2>4. CASE a # b /\ a # new
    BY <1>1, <1>2, <1>3, <2>1, <2>4
  <2> QED BY <2>2, <2>3, <2>4
<1>10. t[M.Latch] = <<M.Header>>
  <2>1. s[L.Latch] = <<L.Header>>
    BY DEF IsLoop
  <2> QED BY <1>1, <1>2, <2>1
<1>11. /\ Len(t[M.Header]) = 2
       /\ t[M.Header][1] \in Body(M)
       /\ t[M.Header][2] \notin M.Blocks
  <2>1. t[M.Header] = s[L.Header]
    BY <1>1, <1>2
  <2>2. Len(s[L.Header]) = 2 /\ s[L.Header][1] \in Body(L) /\ s[L.Header][2] \notin L.Blocks
    BY DEF IsLoop
  <2>3. s[L.Header][2] # new
    <3>1. s[L.Header] \in Seq(2 .. new - 1)
      BY <1>2 DEF IsSplit, IsNumbered
    <3>2. s[L.Header][2] \in 2 .. new - 1
      BY <2>2, <3>1
    <3> QED BY <3>2
  <2>4. Body(L) \subseteq Body(M)
    BY <1>1, <1>2, <1>3 DEF Body
  <2> QED BY <1>1, <2>1, <2>2, <2>3, <2>4
<1>12. IsLoop(t, M)
  BY <1>4, <1>5, <1>6, <1>7, <1>8, <1>9, <1>10, <1>11, <1>13 DEF IsLoop
<1> QED BY <1>12 DEF M

LEMMA SplitLeft ==
  ASSUME NEW s, NEW t, NEW b, NEW new, IsSplit(s, t, b, new),
         NEW L, IsLoop(s, L), b # L.Header, IsLeftAtHeader(s, L)
  PROVE  IsLeftAtHeader(t, LoopAfter(L, b, new))
<1> DEFINE M == LoopAfter(L, b, new)
<1>0. SplitsInto(s, t, b, new)
  BY SplitEdges
<1> USE <1>0 DEF SplitsInto
<1>1. M.Header = L.Header /\ M.Blocks = IF b \in L.Blocks THEN L.Blocks \cup {new} ELSE L.Blocks
  BY DEF LoopAfter
<1> HIDE DEF M
<1>2. L.Blocks \subseteq DOMAIN s /\ \A a \in L.Blocks \ {L.Header} : SuccessorsOf(s, a) \subseteq L.Blocks
  BY DEF IsLoop, IsLeftAtHeader
<1>3. ASSUME NEW a \in M.Blocks \ {M.Header} PROVE SuccessorsOf(t, a) \subseteq M.Blocks
  <2>1. CASE a = b
    BY <1>1, <1>2, <2>1
  <2>2. CASE a = new
    BY <1>1, <1>2, <2>2
  <2>3. CASE a # b /\ a # new
    BY <1>1, <1>2, <2>3
  <2> QED BY <2>1, <2>2, <2>3
<1> QED BY <1>3 DEF IsLeftAtHeader, M

LEMMA SplitEnd ==
  ASSUME NEW s, NEW t, NEW b, NEW new, IsSplit(s, t, b, new),
         NEW L, IsLoop(s, L), HasEnd(s, L)
  PROVE  HasEnd(t, LoopAfter(L, b, new))
<1> DEFINE M == LoopAfter(L, b, new)
<1>0. SplitsInto(s, t, b, new)
  BY SplitEdges
<1>1. /\ DOMAIN t = DOMAIN s \cup {new} /\ new \notin DOMAIN s /\ b \in DOMAIN s
      /\ t[new] = s[b] /\ \A a \in DOMAIN s \ {b} : t[a] = s[a]
      /\ \A a \in DOMAIN s : SuccessorsOf(s, a) \subseteq DOMAIN s
  BY <1>0 DEF SplitsInto
<1>2. t[b] = <<new>>
  BY <1>1 DEF IsSplit
<1>3. M.Latch = IF L.Latch = b THEN new ELSE L.Latch
  BY DEF LoopAfter
<1> HIDE DEF M
<1>10. PICK e \in DOMAIN s : \E k \in DOMAIN s[e] :
         \A a \in DOMAIN s : \A j \in DOMAIN s[a] : s[a][j] = L.Latch <=> a = e /\ j = k
  BY DEF HasEnd
<1>4. PICK k \in DOMAIN s[e] :
        \A a \in DOMAIN s : \A j \in DOMAIN s[a] : s[a][j] = L.Latch <=> a = e /\ j = k
  BY <1>10
<1>5. L.Latch \in DOMAIN s
  BY DEF IsLoop
<1>6. \A a \in DOMAIN s : \A j \in DOMAIN s[a] : s[a][j] # new
  BY <1>1 DEF SuccessorsOf
<1>7. DOMAIN t[b] = {1} /\ t[b][1] = new
  BY <1>2
<1>8. CASE b = L.Latch
  <2>1. ASSUME NEW a \in DOMAIN t, NEW j \in DOMAIN t[a] PROVE t[a][j] = new <=> a = b /\ j = 1
    <3>1. CASE a = b
      BY <1>7, <3>1
    <3>2. CASE a # b
      BY <1>1, <1>6, <3>2
    <3> QED BY <3>1, <3>2
  <2> QED BY <1>1, <1>3, <1>7, <1>8, <2>1 DEF HasEnd, M
<1>9. CASE b # L.Latch
  <2> DEFINE d == IF e = b THEN new ELSE e
  <2>1. d \in DOMAIN t /\ k \in DOMAIN t[d]
    BY <1>1, <1>4
  <2>2. ASSUME NEW a \in DOMAIN t, NEW j \in DOMAIN t[a] PROVE t[a][j] = L.Latch <=> a = d /\ j = k
    <3>1. CASE a = b
      BY <1>1, <1>5, <1>7, <3>1
    <3>2. CASE a = new
      BY <1>1, <1>4, <3>2
    <3>3. CASE a # b /\ a # new
      BY <1>1, <1>4, <3>3
    <3> QED BY <3>1, <3>2, <3>3
  <2>3. M.Latch = L.Latch
    BY <1>3, <1>9
  <2> HIDE DEF d
  <2> QED BY <2>1, <2>2, <2>3 DEF HasEnd, M
<1> QED BY <1>8, <1>9

LEMMA SplitAcyclic ==
  ASSUME NEW s, NEW t, NEW b, NEW new, IsSplit(s, t, b, new),
         NEW L, IsLoop(s, L), b # L.Header, IsAcyclic(s, L)
  PROVE  IsAcyclic(t, LoopAfter(L, b, new))
<1> DEFINE M == LoopAfter(L, b, new)
<1>0. SplitsInto(s, t, b, new)
  BY SplitEdges
<1> USE <1>0 DEF SplitsInto
<1>1. /\ M.Header = L.Header
      /\ M.Latch = IF L.Latch = b THEN new ELSE L.Latch
      /\ M.Blocks = IF b \in L.Blocks THEN L.Blocks \cup {new} ELSE L.Blocks
  BY DEF LoopAfter
<1> HIDE DEF M
<1>2. L.Blocks \subseteq DOMAIN s /\ L.Latch \in L.Blocks
  BY DEF IsLoop
<1> SUFFICES ASSUME NEW S \in SUBSET Body(M), S # {}
             PROVE  \E a \in S : SuccessorsOf(t, a) \cap S = {}
  BY DEF IsAcyclic, M
<1>3. S \subseteq DOMAIN s \cup {new} /\ L.Header \notin S
  BY <1>1, <1>2 DEF Body
<1>4. CASE b \in S /\ new \notin S
  BY <1>4
<1>5. CASE b \notin S \/ new \in S
  <2> DEFINE T == IF new \in S THEN (S \ {new}) \cup {b} ELSE S
  <2>1. T \in SUBSET Body(L) /\ T # {}
    <3>1. CASE new \in S
      <4>1. b \in L.Blocks /\ b # L.Latch
        BY <1>1, <1>2, <3>1 DEF Body
      <4> QED BY <1>1, <1>2, <3>1, <4>1 DEF Body
    <3>2. CASE new \notin S
      <4>1. \A a \in S : a \in L.Blocks /\ a # L.Header /\ a # L.Latch
        BY <1>1, <1>2, <1>3, <1>5, <3>2 DEF Body
      <4> QED BY <3>2, <4>1 DEF Body
    <3> QED BY <3>1, <3>2
  <2>2. PICK x \in T : SuccessorsOf(s, x) \cap T = {}
    <3> HIDE DEF T
    <3> QED BY <2>1 DEF IsAcyclic
  <2>3. x \in DOMAIN s /\ new \notin SuccessorsOf(s, x)
    <3>1. x \in DOMAIN s
      <4> HIDE DEF T
      <4> QED BY <1>2, <2>1 DEF Body
    <3> QED BY <3>1
  <2>4. SuccessorsOf(s, x) \cap S = {}
    BY <2>2, <2>3
  <2>5. CASE x = b
    <3>1. new \in S
      BY <1>5, <2>5
    <3> QED BY <2>4, <2>5, <3>1
  <2>6. CASE x # b
    <3>1. x \in S
      BY <2>6
    <3> QED BY <2>3, <2>4, <2>6, <3>1
  <2> QED BY <2>5, <2>6
<1> QED BY <1>4, <1>5

-----------------------------------------------------------------------------

(* An instruction of the source that speaks of a variable names one.       *)
LEMMA SourceInstructions ==
  ASSUME source \in Sources, NEW b \in DOMAIN source.code, NEW k \in DOMAIN source.code[b]
  PROVE  /\ source.code[b][k] \in Instructions
         /\ source.code[b][k] \in AllInstructions
         /\ source.code[b][k][2] # 0 => source.code[b][k][2] \in Variables
<1>1. source.code[b] \in Seq(Instructions)
  BY SourceShape
<1>2. source.code[b][k] \in Instructions
  <2> HIDE DEF Instructions
  <2> QED BY <1>1
<1>3. source.code[b][k][2] # 0 => source.code[b][k][2] \in Variables
  <2> DEFINE V(a) == {source.code[a][j][2] : j \in DOMAIN source.code[a]}
             W == {V(a) : a \in DOMAIN source.code}
  <2>1. source.code[b][k][2] \in V(b)
    OBVIOUS
  <2>2. V(b) \in W
    OBVIOUS
  <2>3. Variables = (UNION W) \ {0}
    BY DEF Variables
  <2> HIDE DEF V, W
  <2> QED BY <2>1, <2>2, <2>3
<1>4. source.code[b][k] \in AllInstructions
  BY <1>2, <1>3 DEF Instructions, AllInstructions
<1> QED BY <1>2, <1>3, <1>4

LEMMA SourceCode ==
  ASSUME source \in Sources
  PROVE  IsCode(source.code) /\ Entry \in DOMAIN source.code
<1>1. DOMAIN source.code = DOMAIN source.succ
  BY SourceShape
<1>2. IsNumbered(source.succ, Cardinality(DOMAIN source.succ))
  BY SourceShape
<1>3. ASSUME NEW b \in DOMAIN source.code PROVE source.code[b] \in Seq(Range(source.code[b]))
  <2> DEFINE list == source.code[b]
  <2>1. list \in Seq(Instructions)
    BY <1>1, SourceShape
  <2> HIDE DEF list
  <2>2. \A k \in 1 .. Len(list) : list[k] \in Range(list)
    BY <2>1 DEF Range
  <2>3. Len(list) \in Nat /\ list = [k \in 1 .. Len(list) |-> list[k]]
    BY <2>1
  <2> DEFINE n == Len(list)
             R == Range(list)
  <2> HIDE DEF n, R
  <2>4. list \in [1 .. n -> R] /\ n \in Nat
    BY <2>2, <2>3 DEF n, R
  <2>5. list \in Seq(R)
    BY <2>4
  <2> QED BY <2>5 DEF list, R
<1> QED BY <1>1, <1>2, <1>3 DEF IsCode, IsNumbered, Entry

(* What the scans of the source find. *)
LEMMA SourceLists ==
  ASSUME source \in Sources, NEW vars, vars = detectExpPtrVars(source.code),
         NEW used, used = detectExpPtrUses(source.code, vars)
  PROVE  /\ vars \in Seq(Variables)
         /\ used \in Seq(Variables)
         /\ Range(used) \subseteq Range(vars)
         /\ \A v \in Range(used) : HasUsePoint(source, v)
         /\ ~IsAnnotatedTwice(source) => NoDuplicates(used)
<1> DEFINE c == source.code
           entry == c[Entry]
           S == {inst \in Range(entry) : inst[1] = "annotate"}
           annotations == Kept(entry, S)
           U == {v \in Range(vars) : Places(c, <<"deref", v>>) # {}}
<1>1. entry \in Seq(Range(entry))
  BY SourceCode DEF IsCode
<1>2. annotations \in Seq(S)
  <2>1. annotations \in Seq(Range(entry) \cap S)
    <3> HIDE DEF entry, S
    <3> QED BY <1>1, KeptList
  <2>2. Range(entry) \cap S = S
    OBVIOUS
  <2> HIDE DEF annotations, S, entry
  <2> QED BY <2>1, <2>2
<1>3. ASSUME NEW inst \in S PROVE inst[2] \in Variables
  <2>1. PICK k \in DOMAIN entry : inst = entry[k]
    BY DEF Range
  <2>2. inst \in Instructions /\ (inst[2] # 0 => inst[2] \in Variables)
    BY <2>1, SourceInstructions, SourceCode
  <2> QED BY <2>2 DEF Instructions
<1>4. vars = [k \in DOMAIN annotations |-> annotations[k][2]]
  BY DEF detectExpPtrVars
<1>5. vars \in Seq(Variables)
  <2> HIDE DEF annotations, S
  <2> QED BY <1>2, <1>3, <1>4
<1>6. used = Kept(vars, U)
  BY DEF detectExpPtrUses
<1>7. /\ used \in Seq(Range(vars) \cap U)
      /\ Range(used) = Range(vars) \cap U
      /\ NoDuplicates(vars) => NoDuplicates(used)
  <2> HIDE DEF U
  <2> QED BY <1>5, <1>6, KeptList
<1>8. Range(vars) \subseteq Variables
  <2>1. \A k \in DOMAIN vars : vars[k] \in Variables
    BY <1>5
  <2> QED BY <2>1 DEF Range
<1>9. used \in Seq(Variables)
  <2> DEFINE W == Range(vars) \cap U
  <2>1. W \subseteq Variables
    BY <1>8
  <2>2. used \in Seq(W)
    BY <1>7
  <2> HIDE DEF W
  <2> QED BY <2>1, <2>2
<1>10. Range(used) \subseteq Range(vars) /\ \A v \in Range(used) : HasUsePoint(source, v)
  BY <1>7 DEF HasUsePoint
<1>11. ~IsAnnotatedTwice(source) => NoDuplicates(vars)
  BY DEF IsAnnotatedTwice, NoDuplicates
<1> QED BY <1>5, <1>7, <1>9, <1>10, <1>11

(* The marks are at the use points of the variables, and nowhere else.     *)
LEMMA MarkedCode ==
  ASSUME source \in Sources, NEW vars \in Seq(Variables),
         \A v \in Range(vars) : HasUsePoint(source, v),
         NEW m, m = Marked(source.code, vars)
  PROVE  /\ DOMAIN m = DOMAIN source.code
         /\ \A b \in DOMAIN m : m[b] \in Seq(AllInstructions)
         /\ \A j \in DOMAIN vars : Places(m, <<"point", vars[j]>>) # {}
         /\ \A b \in DOMAIN m : \A k \in DOMAIN m[b] : \A v \in Variables :
              m[b][k] = <<"point", v>> => HasUsePoint(source, v) /\ UsePoint(source, v) = <<b, k>>
         /\ \A b \in DOMAIN m : DOMAIN m[b] = DOMAIN source.code[b] /\ \A k \in DOMAIN m[b] :
              \/ m[b][k] = source.code[b][k]
              \/ \E v \in Variables : source.code[b][k] = <<"deref", v>> /\ m[b][k] = <<"point", v>>
<1> DEFINE c == source.code
           first(v) == findEarliestPointerDerefInstruction(c, v)
<1>1. ASSUME NEW j \in DOMAIN vars
      PROVE  \E b \in DOMAIN c : \E k \in DOMAIN c[b] :
               first(vars[j]) = <<b, k>> /\ c[b][k] = <<"deref", vars[j]>>
  <2>1. Places(c, <<"deref", vars[j]>>) # {}
    BY DEF HasUsePoint, Range
  <2>2. first(vars[j]) \in Places(c, <<"deref", vars[j]>>)
    BY <2>1, EarliestUse, SourceCode
  <2> HIDE DEF first, c
  <2> QED BY <2>2, PlacesAre
<1>2. DOMAIN m = DOMAIN c
  BY DEF Marked
<1>3. \A b \in DOMAIN c : DOMAIN m[b] = DOMAIN c[b]
  BY DEF Marked
<1>4. \A b \in DOMAIN c : \A k \in DOMAIN c[b] :
        m[b][k] = IF \E j \in DOMAIN vars : first(vars[j]) = <<b, k>> THEN <<"point", c[b][k][2]>> ELSE c[b][k]
  BY DEF Marked
<1> HIDE DEF first
<1>5. ASSUME NEW b \in DOMAIN c, NEW k \in DOMAIN c[b], NEW j \in DOMAIN vars, first(vars[j]) = <<b, k>>
      PROVE  c[b][k] = <<"deref", vars[j]>> /\ m[b][k] = <<"point", vars[j]>> /\ vars[j] \in Variables
  <2>1. c[b][k] = <<"deref", vars[j]>>
    BY <1>1, <1>5
  <2>2. m[b][k] = <<"point", c[b][k][2]>>
    BY <1>4, <1>5
  <2> QED BY <2>1, <2>2
<1>6. ASSUME NEW b \in DOMAIN c PROVE m[b] \in Seq(AllInstructions)
  <2> DEFINE n == Len(c[b])
  <2>1. n \in Nat /\ DOMAIN c[b] = 1 .. n
    BY SourceCode DEF IsCode
  <2>2. m[b] = [k \in 1 .. n |-> m[b][k]]
    BY <2>1 DEF Marked
  <2>3. ASSUME NEW k \in 1 .. n PROVE m[b][k] \in AllInstructions
    <3>1. CASE \E j \in DOMAIN vars : first(vars[j]) = <<b, k>>
      <4>1. PICK j \in DOMAIN vars : first(vars[j]) = <<b, k>>
        BY <3>1
      <4>2. m[b][k] = <<"point", vars[j]>> /\ vars[j] \in Variables
        BY <1>5, <2>1, <4>1
      <4> QED BY <4>2 DEF AllInstructions
    <3>2. CASE ~\E j \in DOMAIN vars : first(vars[j]) = <<b, k>>
      <4>1. m[b][k] = c[b][k]
        BY <1>4, <2>1, <3>2
      <4> QED BY <2>1, <4>1, SourceInstructions
    <3> QED BY <3>1, <3>2
  <2>4. m[b] \in [1 .. n -> AllInstructions]
    <3> HIDE DEF n
    <3> QED BY <2>2, <2>3
  <2> HIDE DEF n
  <2> QED BY <2>1, <2>4
<1>7. ASSUME NEW j \in DOMAIN vars PROVE Places(m, <<"point", vars[j]>>) # {}
  <2>1. PICK b \in DOMAIN c : \E k \in DOMAIN c[b] : first(vars[j]) = <<b, k>>
    BY <1>1
  <2>2. PICK k \in DOMAIN c[b] : first(vars[j]) = <<b, k>>
    BY <2>1
  <2>3. m[b][k] = <<"point", vars[j]>>
    BY <1>5, <2>2
  <2>4. <<b, k>> \in Places(m, <<"point", vars[j]>>)
    BY <1>2, <1>3, <2>3, PlacesAre
  <2> QED BY <2>4
<1>8. ASSUME NEW b \in DOMAIN c, NEW k \in DOMAIN c[b], NEW v \in Variables, m[b][k] = <<"point", v>>
      PROVE  HasUsePoint(source, v) /\ UsePoint(source, v) = <<b, k>>
  <2>1. c[b][k] \in Instructions
    BY SourceInstructions
  <2>2. c[b][k] # <<"point", v>>
    BY <2>1 DEF Instructions
  <2>3. PICK j \in DOMAIN vars : first(vars[j]) = <<b, k>>
    BY <1>4, <1>8, <2>2
  <2>4. v = vars[j]
    BY <1>5, <1>8, <2>3
  <2> QED BY <2>3, <2>4 DEF UsePoint, first, Range
<1>9. ASSUME NEW b \in DOMAIN c, NEW k \in DOMAIN c[b]
      PROVE  m[b][k] = c[b][k] \/ \E v \in Variables : c[b][k] = <<"deref", v>> /\ m[b][k] = <<"point", v>>
  BY <1>4, <1>5
<1> QED BY <1>2, <1>3, <1>6, <1>7, <1>8, <1>9

-----------------------------------------------------------------------------

(* The code of block b is cut before its k-th instruction. *)
IsCut(c, d, b, k, new, v) ==
  /\ b \in DOMAIN c /\ new \notin DOMAIN c
  /\ k \in DOMAIN c[b]
  /\ v \in Variables
  /\ \A a \in DOMAIN c : c[a] \in Seq(AllInstructions)
  /\ d = [a \in DOMAIN c \cup {new} |->
            IF a = b THEN Append(SubSeq(c[b], 1, k - 1), <<"prefetch", v>>)
            ELSE IF a = new THEN SubSeq(c[b], k, Len(c[b])) ELSE c[a]]

CutParts(c, d, b, k, new, v) ==
  /\ DOMAIN d = DOMAIN c \cup {new}
  /\ \A a \in DOMAIN d : d[a] \in Seq(AllInstructions)
  /\ \A a \in DOMAIN c \ {b} : d[a] = c[a]
  /\ k \in Nat \ {0}
  /\ DOMAIN d[b] = 1 .. k
  /\ \A j \in 1 .. k - 1 : j \in DOMAIN c[b] /\ d[b][j] = c[b][j]
  /\ d[b][k] = <<"prefetch", v>>
  /\ d[new][1] = c[b][k]
  /\ \A j \in DOMAIN c[b] : j < k \/ (j - k + 1 \in DOMAIN d[new] /\ d[new][j - k + 1] = c[b][j])

LEMMA CutCode ==
  ASSUME NEW c, NEW d, NEW b, NEW k, NEW new, NEW v, IsCut(c, d, b, k, new, v)
  PROVE  CutParts(c, d, b, k, new, v)
<1> DEFINE I == AllInstructions
           list == c[b]
           n == Len(list)
           head == SubSeq(list, 1, k - 1)
           tail == SubSeq(list, k, n)
           p == <<"prefetch", v>>
<1>1. list \in Seq(I) /\ k \in DOMAIN list /\ v \in Variables /\ b \in DOMAIN c /\ new \notin DOMAIN c
  BY DEF IsCut
<1>2. n \in Nat /\ k \in 1 .. n /\ DOMAIN list = 1 .. n
  <2> HIDE DEF list, I
  <2> QED BY <1>1
<1>3. p \in I
  BY <1>1 DEF AllInstructions
<1>4. /\ head \in Seq(I) /\ Len(head) = k - 1
      /\ \A j \in 1 .. k - 1 : head[j] = list[j]
  <2> HIDE DEF list, I
  <2> QED BY <1>1, <1>2
<1>5. /\ tail \in Seq(I) /\ DOMAIN tail = 1 .. n - k + 1
      /\ \A j \in 1 .. n - k + 1 : tail[j] = list[k + j - 1]
  <2> HIDE DEF list, I
  <2> QED BY <1>1, <1>2
<1>6. /\ Append(head, p) \in Seq(I) /\ DOMAIN Append(head, p) = 1 .. k
      /\ \A j \in 1 .. k - 1 : Append(head, p)[j] = list[j]
      /\ Append(head, p)[k] = p
  <2> HIDE DEF list, I, head, p
  <2> QED BY <1>2, <1>3, <1>4
<1>7. /\ DOMAIN d = DOMAIN c \cup {new}
      /\ d[b] = Append(head, p)
      /\ d[new] = tail
      /\ \A a \in DOMAIN c \ {b} : d[a] = c[a]
  BY <1>1 DEF IsCut
<1> HIDE DEF head, tail
<1>8. \A a \in DOMAIN d : d[a] \in Seq(I)
  <2>1. \A a \in DOMAIN c : c[a] \in Seq(I)
    BY DEF IsCut
  <2> HIDE DEF I
  <2> QED BY <1>5, <1>6, <1>7, <2>1
<1>9. d[new][1] = list[k]
  <2>1. 1 \in 1 .. n - k + 1 /\ k + 1 - 1 = k
    BY <1>2
  <2> QED BY <1>5, <1>7, <2>1
<1>10. \A j \in 1 .. n : j < k \/ (j - k + 1 \in DOMAIN d[new] /\ d[new][j - k + 1] = list[j])
  <2> SUFFICES ASSUME NEW j \in 1 .. n, ~(j < k)
               PROVE  j - k + 1 \in DOMAIN d[new] /\ d[new][j - k + 1] = list[j]
    OBVIOUS
  <2>1. j - k + 1 \in 1 .. n - k + 1 /\ k + (j - k + 1) - 1 = j
    BY <1>2
  <2> HIDE DEF n, list
  <2> QED BY <1>5, <1>7, <2>1
<1>11. k \in Nat \ {0} /\ \A j \in 1 .. k - 1 : j \in 1 .. n
  BY <1>2
<1>12. DOMAIN d[b] = 1 .. k /\ d[b][k] = p /\ \A j \in 1 .. k - 1 : d[b][j] = list[j]
  BY <1>6, <1>7
<1> HIDE DEF n
<1> QED BY <1>2, <1>7, <1>8, <1>9, <1>10, <1>11, <1>12 DEF CutParts

(* A mark in the code is in the code after a cut, too. *)
LEMMA CutKeepsPlaces ==
  ASSUME NEW c, NEW d, NEW b, NEW k, NEW new, NEW v, IsCut(c, d, b, k, new, v),
         NEW inst, Places(c, inst) # {}
  PROVE  Places(d, inst) # {}
<1>1. CutParts(c, d, b, k, new, v)
  BY CutCode
<1>2. PICK a \in DOMAIN c : \E j \in DOMAIN c[a] : c[a][j] = inst
  BY PlacesAre
<1>3. PICK j \in DOMAIN c[a] : c[a][j] = inst
  BY <1>2
<1>4. CASE a # b
  <2>1. a \in DOMAIN d /\ j \in DOMAIN d[a] /\ d[a][j] = inst
    BY <1>1, <1>3, <1>4 DEF CutParts
  <2>2. <<a, j>> \in Places(d, inst)
    BY <2>1, PlacesAre
  <2> QED BY <2>2
<1>5. CASE a = b /\ j < k
  <2>1. c[b] \in Seq(AllInstructions)
    BY DEF IsCut
  <2>2. j \in 1 .. Len(c[b])
    <3> DEFINE list == c[b]
               I == AllInstructions
    <3> HIDE DEF list, I
    <3>1. list \in Seq(I) /\ j \in DOMAIN list
      BY <1>5, <2>1 DEF list, I
    <3>2. j \in 1 .. Len(list)
      BY <3>1
    <3> QED BY <3>2 DEF list
  <2>3. k \in Nat
    BY <1>1 DEF CutParts
  <2>4. j \in 1 .. k - 1 /\ j \in 1 .. k
    BY <1>5, <2>2, <2>3
  <2>5. b \in DOMAIN d /\ j \in DOMAIN d[b] /\ d[b][j] = inst
    BY <1>1, <1>3, <1>5, <2>4 DEF CutParts
  <2>6. <<b, j>> \in Places(d, inst)
    BY <2>5, PlacesAre
  <2> QED BY <2>6
<1>6. CASE a = b /\ ~(j < k)
  <2>1. new \in DOMAIN d /\ j - k + 1 \in DOMAIN d[new] /\ d[new][j - k + 1] = inst
    BY <1>1, <1>3, <1>6 DEF CutParts
  <2>2. <<new, j - k + 1>> \in Places(d, inst)
    BY <2>1, PlacesAre
  <2> QED BY <2>2
<1> QED BY <1>4, <1>5, <1>6

-----------------------------------------------------------------------------

(* A cut is at the use or directly before it. *)
LEMMA CutBefore ==
  ASSUME NEW b \in DOMAIN code, code[b] \in Seq(AllInstructions), NEW k \in DOMAIN code[b], k # 1
  PROVE  /\ SplitPoint(b, k) \in DOMAIN code[b]
         /\ k \in Nat
         /\ SplitPoint(b, k) \in {k - 1, k}
         /\ SplitPoint(b, k) = k \/ code[b][SplitPoint(b, k)][1] = "gep"
<1> DEFINE list == code[b]
           I == AllInstructions
<1>1. list \in Seq(I) /\ k \in DOMAIN list
  OBVIOUS
<1> HIDE DEF list, I
<1>2. k \in Nat /\ k - 1 \in DOMAIN list
  BY <1>1
<1>3. SplitPoint(b, k) = IF list[k - 1][1] = "gep" THEN k - 1 ELSE k
  BY DEF SplitPoint, list
<1>4. /\ SplitPoint(b, k) \in DOMAIN list
      /\ SplitPoint(b, k) \in {k - 1, k}
      /\ SplitPoint(b, k) = k \/ list[SplitPoint(b, k)][1] = "gep"
  BY <1>1, <1>2, <1>3
<1> QED BY <1>2, <1>4 DEF list

LEMMA AnnotatedCode ==
  ASSUME source \in Sources, NEW b \in DOMAIN source.code
  PROVE  source.code[b] \in Seq(AllInstructions)
<1> DEFINE list == source.code[b]
           I == AllInstructions
<1>1. list \in Seq(Instructions)
  BY SourceShape
<1>2. \A k \in DOMAIN list : list[k] \in I
  BY SourceInstructions
<1> HIDE DEF list, I
<1>3. Len(list) \in Nat /\ DOMAIN list = 1 .. Len(list) /\ list = [k \in 1 .. Len(list) |-> list[k]]
  <2> HIDE DEF Instructions
  <2> QED BY <1>1
<1>4. list \in Seq(I)
  BY <1>2, <1>3
<1> QED BY <1>4 DEF list, I

LEMMA InitOK ==
  ASSUME SFInit
  PROVE  SFInv
<1> USE DEF SFInit, LSInit
<1>1. source \in Sources /\ stage = "start" /\ succ = source.succ /\ code = source.code /\ loop = source.loop
  OBVIOUS
<1>2. /\ IsNumbered(succ, Cardinality(DOMAIN succ))
      /\ DOMAIN code = DOMAIN succ
      /\ loop.Header \in DOMAIN succ \cup {NullBlock}
      /\ loop.Blocks \subseteq DOMAIN succ
      /\ loop.Header = NullBlock => loop = NoLoop
  BY <1>1, SourceShape
<1>3. \A b \in DOMAIN code : code[b] \in Seq(AllInstructions)
  BY <1>1, AnnotatedCode
<1>4. loop.Header # NullBlock => KeptLoop(succ, loop)
  BY <1>1, SourceLoop DEF KeptLoop
<1>5. ListsOK
  <2>1. AnnotatedVars = <<>> /\ VarUsePoints = <<>>
    OBVIOUS
  <2>2. <<>> \in Seq(Variables) /\ Range(<<>>) = {} /\ NoDuplicates(<<>>)
    BY DEF Range, NoDuplicates
  <2> QED BY <2>1, <2>2 DEF ListsOK
<1>6. SplittingOK
  BY <1>1, <1>2, <1>4 DEF SplittingOK
<1>7. PassInv
  BY <1>1, <1>2, <1>3, <1>5, <1>6 DEF PassInv, Stages, AbortOK, InSplitting
<1>8. CallInv
  <2>1. N \in Nat
    BY SizeAssumption
  <2> QED BY <2>1 DEF CallInv, NotStarted
<1> QED BY <1>7, <1>8 DEF SFInv

(* What the pass does not change of the source. *)
LEMMA SourceKept ==
  ASSUME UNCHANGED source
  PROVE  Variables' = Variables /\ AllInstructions' = AllInstructions /\ SplitsHeader' = SplitsHeader
<1>1. Variables' = Variables
  BY DEF Variables
<1>2. AllInstructions' = AllInstructions
  BY <1>1 DEF AllInstructions
<1>3. SplitsHeader' = SplitsHeader
  BY <1>1 DEF SplitsHeader
<1> QED BY <1>1, <1>2, <1>3

(* The pass is over when the function is called. *)
LEMMA CallKept ==
  ASSUME CallInv, stage # "done", UNCHANGED <<source, N, callVars>>,
         DOMAIN succ \subseteq DOMAIN succ'
  PROVE  CallInv'
<1>1. status = "idle" /\ UNCHANGED <<N, at, idx, mem, foreign, pos, status>>
  BY DEF CallInv, callVars
<1>2. pos' \in [0 .. N' - 1 -> DOMAIN succ' \cup {NotStarted}]
  BY <1>1 DEF CallInv
<1>3. foreign' \subseteq Variables'
  BY <1>1, SourceKept DEF CallInv
<1> QED BY <1>1, <1>2, <1>3 DEF CallInv

LEMMA DetectStep ==
  ASSUME SFInv, detect, UNCHANGED <<N, callVars>>
  PROVE  SFInv'
<1> DEFINE vars == detectExpPtrVars(code)
           used == detectExpPtrUses(code, vars)
<1>1. /\ stage = "start" /\ stage' \in {"crashed", "unchanged", "splitting"}
      /\ UNCHANGED <<source, succ, loop, i, EndBlocks, body, ExitBlock, arrays, Loops, walk, Blocks, LoopBlocks>>
  BY DEF detect, loopVars, walkVars
<1>0. Variables' = Variables /\ AllInstructions' = AllInstructions /\ SplitsHeader' = SplitsHeader
  BY <1>1, SourceKept
<1>2. PassInv /\ CallInv /\ InSplitting /\ InSplitting' /\ SplittingOK
  BY <1>1 DEF SFInv, PassInv, InSplitting
<1>3. source \in Sources /\ code = source.code /\ i = 1 /\ ListsOK /\ DOMAIN code = DOMAIN succ
  BY <1>1, <1>2 DEF PassInv, SplittingOK
<1>4. CallInv'
  BY <1>1, <1>2, CallKept
<1>5. stage' \in Stages /\ AbortOK'
  BY <1>1 DEF Stages, AbortOK
<1>6. CASE HasIndirectCall(code)
  <2>1. UNCHANGED <<code, AnnotatedVars, VarUsePoints>> /\ stage' = "crashed"
    BY <1>6 DEF detect, useVars
  <2>2. SplittingOK'
    BY <1>0, <1>1, <1>2, <2>1 DEF SplittingOK, KeptLoop
  <2>3. ListsOK'
    BY <1>0, <1>1, <1>3, <2>1 DEF ListsOK
  <2> QED BY <1>0, <1>1, <1>2, <1>4, <1>5, <2>1, <2>2, <2>3 DEF SFInv, PassInv
<1>7. CASE ~HasIndirectCall(code)
  <2>1. /\ AnnotatedVars' = vars /\ VarUsePoints' = used /\ code' = Marked(code, used)
        /\ stage' = IF used = <<>> THEN "unchanged" ELSE "splitting"
    BY <1>7 DEF detect
  <2>2. /\ vars \in Seq(Variables) /\ used \in Seq(Variables) /\ Range(used) \subseteq Range(vars)
        /\ \A v \in Range(used) : HasUsePoint(source, v)
        /\ ~IsAnnotatedTwice(source) => NoDuplicates(used)
    BY <1>3, SourceLists
  <2>3. ListsOK'
    BY <1>0, <1>1, <2>1, <2>2 DEF ListsOK
  <2>4. /\ DOMAIN code' = DOMAIN code
        /\ \A b \in DOMAIN code' : code'[b] \in Seq(AllInstructions)
        /\ \A j \in DOMAIN used : Places(code', <<"point", used[j]>>) # {}
        /\ \A b \in DOMAIN code' : \A k \in DOMAIN code'[b] : \A v \in Variables :
              code'[b][k] = <<"point", v>> => HasUsePoint(source, v) /\ UsePoint(source, v) = <<b, k>>
    <3> DEFINE m == code'
    <3>1. m = Marked(source.code, used)
      BY <1>3, <2>1
    <3> HIDE DEF m, used
    <3>2. used \in Seq(Variables) /\ \A v \in Range(used) : HasUsePoint(source, v)
      BY <2>2
    <3>3. /\ DOMAIN m = DOMAIN source.code
          /\ \A b \in DOMAIN m : m[b] \in Seq(AllInstructions)
          /\ \A j \in DOMAIN used : Places(m, <<"point", used[j]>>) # {}
          /\ \A b \in DOMAIN m : \A k \in DOMAIN m[b] : \A v \in Variables :
                m[b][k] = <<"point", v>> => HasUsePoint(source, v) /\ UsePoint(source, v) = <<b, k>>
      BY <1>3, <3>1, <3>2, MarkedCode
    <3> QED BY <1>3, <3>3 DEF m
  <2> HIDE DEF vars, used
  <2>5. ASSUME stage' = "splitting" PROVE PointsOK'
    <3>1. VarUsePoints' # <<>>
      BY <2>1, <2>5
    <3>2. i' \in 1 .. Len(VarUsePoints') + 1
      <4>1. Len(used) \in Nat
        BY <2>2
      <4> QED BY <1>1, <1>3, <2>1, <4>1
    <3>3. \A j \in DOMAIN VarUsePoints' : Places(code', <<"point", VarUsePoints'[j]>>) # {}
      BY <2>1, <2>4
    <3>4. \A b \in DOMAIN code', v \in Variables : 1 \in DOMAIN code'[b] /\ code'[b][1] = <<"point", v>> =>
            HasUsePoint(source', v) /\ UsePoint(source', v)[2] = 1
      BY <1>1, <2>4
    <3>5. loop'.Header # NullBlock => \A k \in DOMAIN code'[loop'.Header], v \in Variables :
            code'[loop'.Header][k] = <<"point", v>> =>
              HasUsePoint(source', v) /\ UsePoint(source', v)[1] = loop'.Header
      <4>1. loop.Header # NullBlock => loop.Header \in DOMAIN code'
        BY <1>2, <1>3, <2>4 DEF SplittingOK
      <4> QED BY <1>1, <2>4, <4>1
    <3> QED BY <1>0, <3>1, <3>2, <3>3, <3>4, <3>5 DEF PointsOK
  <2>6. SplittingOK'
    BY <1>0, <1>1, <1>2, <2>5 DEF SplittingOK, KeptLoop
  <2>7. arrays' \subseteq Range(AnnotatedVars')
    <3>1. AnnotatedVars = <<>>
      BY <1>1, <1>2 DEF SplittingOK
    <3>2. arrays = {}
      BY <1>2, <3>1 DEF PassInv, Range
    <3> QED BY <1>1, <3>2
  <2> QED BY <1>0, <1>1, <1>2, <1>3, <1>4, <1>5, <2>3, <2>4, <2>6, <2>7 DEF SFInv, PassInv
<1> QED BY <1>6, <1>7

LEMMA SplitStep ==
  ASSUME SFInv, splitAtUse, UNCHANGED <<N, callVars>>
  PROVE  SFInv'
<1> DEFINE v == VarUsePoints[i]
           P == Places(code, <<"point", v>>)
           use == CHOOSE p \in P : TRUE
           new == NewBlock
<1>1. /\ stage = "splitting" /\ i <= Len(VarUsePoints)
      /\ UNCHANGED <<source, AnnotatedVars, VarUsePoints, body, ExitBlock, arrays, Loops, walk, Blocks, LoopBlocks>>
  BY DEF splitAtUse, useVars, loopVars, walkVars
<1>0. Variables' = Variables /\ AllInstructions' = AllInstructions /\ SplitsHeader' = SplitsHeader
  BY <1>1, SourceKept
<1>2. PassInv /\ CallInv /\ SplittingOK /\ PointsOK /\ ListsOK
  BY <1>1 DEF SFInv, PassInv, InSplitting, SplittingOK
<1>3. /\ source \in Sources /\ DOMAIN code = DOMAIN succ
      /\ \A b \in DOMAIN code : code[b] \in Seq(AllInstructions)
      /\ arrays \subseteq Range(AnnotatedVars)
  BY <1>2 DEF PassInv
<1>4. /\ i \in DOMAIN VarUsePoints /\ i \in Nat \ {0} /\ v \in Variables
      /\ Len(VarUsePoints) \in Nat
  <2>1. VarUsePoints \in Seq(Variables) /\ i \in 1 .. Len(VarUsePoints) + 1
    BY <1>2 DEF ListsOK, PointsOK
  <2> QED BY <1>1, <2>1
<1>5. P # {}
  BY <1>2, <1>4 DEF PointsOK
<1>6. use \in P
  <2> HIDE DEF P
  <2> QED BY <1>5
<1>7. PICK b \in DOMAIN code : \E k \in DOMAIN code[b] : use = <<b, k>> /\ code[b][k] = <<"point", v>>
  BY <1>6, PlacesAre
<1>8. PICK k \in DOMAIN code[b] : use = <<b, k>> /\ code[b][k] = <<"point", v>>
  BY <1>7
<1>9. /\ IF k = 1
         THEN stage' = "aborted" /\ UNCHANGED <<irVars, i, EndBlocks>>
         ELSE /\ SplitBlock(b, SplitPoint(b, k), v) /\ EndBlocks' = Append(EndBlocks, b)
              /\ i' = i + 1 /\ stage' = "splitting"
  <2>1. IF use[2] = 1
        THEN stage' = "aborted" /\ UNCHANGED <<irVars, i, EndBlocks>>
        ELSE /\ SplitBlock(use[1], SplitPoint(use[1], use[2]), v) /\ EndBlocks' = Append(EndBlocks, use[1])
             /\ i' = i + 1 /\ UNCHANGED stage
    BY DEF splitAtUse
  <2> HIDE DEF use, v
  <2>2. use[1] = b /\ use[2] = k
    BY <1>8
  <2> QED BY <1>1, <2>1, <2>2
<1>10. ListsOK'
  BY <1>0, <1>1, <1>2 DEF ListsOK
<1>11. stage' \in Stages /\ InSplitting'
  BY <1>9 DEF Stages, InSplitting
<1> HIDE DEF P, use
<1>12. CASE k = 1
  <2>1. stage' = "aborted" /\ UNCHANGED <<succ, code, loop>>
    BY <1>9, <1>12 DEF irVars
  <2>2. \/ \E j \in 1 .. i - 1 : VarUsePoints[j] = v
        \/ HasUsePoint(source, v) /\ UsePoint(source, v)[2] = 1
    BY <1>2, <1>4, <1>8, <1>12 DEF PointsOK
  <2>3. ASSUME NEW j \in 1 .. i - 1, VarUsePoints[j] = v PROVE IsAnnotatedTwice(source)
    <3>1. VarUsePoints \in Seq(Variables)
      BY <1>2 DEF ListsOK
    <3>2. j \in DOMAIN VarUsePoints /\ j # i
      BY <1>4, <3>1
    <3>3. ~NoDuplicates(VarUsePoints)
      BY <1>4, <2>3, <3>2 DEF NoDuplicates
    <3> QED BY <1>2, <3>3 DEF ListsOK
  <2>4. AbortOK'
    BY <1>0, <1>1, <1>4, <2>2, <2>3 DEF AbortOK
  <2>5. SplittingOK'
    BY <1>0, <1>1, <1>2, <1>9, <1>12, <2>1 DEF SplittingOK, KeptLoop
  <2>6. CallInv'
    BY <1>1, <1>2, <2>1, CallKept
  <2> QED BY <1>0, <1>1, <1>3, <1>10, <1>11, <2>1, <2>4, <2>5, <2>6 DEF SFInv, PassInv
<1>13. CASE k # 1
  <2> DEFINE c == SplitPoint(b, k)
  <2>0. c \in DOMAIN code[b] /\ (c = k \/ code[b][c][1] = "gep")
    BY <1>3, <1>8, <1>13, CutBefore
  <2>1. stage' = "splitting" /\ i' = i + 1 /\ SplitBlock(b, c, v)
    BY <1>9, <1>13
  <2> HIDE DEF c
  <2>2. IsNumbered(succ, new - 1) /\ new \in Nat
    <3>1. IsNumbered(succ, Cardinality(DOMAIN succ))
      BY <1>2 DEF SplittingOK
    <3>2. Cardinality(DOMAIN succ) \in Nat
      BY <3>1 DEF IsNumbered
    <3>3. new - 1 = Cardinality(DOMAIN succ) /\ new \in Nat
      BY <3>2 DEF NewBlock
    <3> QED BY <3>1, <3>3
  <2>3. IsSplit(succ, succ', b, new)
    BY <1>3, <2>1, <2>2 DEF IsSplit, SplitBlock
  <2>4. loop' = LoopAfter(loop, b, new)
    BY <2>1 DEF SplitBlock, LoopAfter
  <2>5. new \notin DOMAIN code
    <3>1. SplitsInto(succ, succ', b, new)
      BY <2>3, SplitEdges
    <3> QED BY <1>3, <3>1 DEF SplitsInto
  <2>6. IsCut(code, code', b, c, new, v)
    BY <1>3, <1>4, <2>0, <2>1, <2>5 DEF IsCut, SplitBlock, insertLLVMPrefetchIntrinsic
  <2>7. SplitsInto(succ, succ', b, new) /\ CutParts(code, code', b, c, new, v)
    BY <2>3, <2>6, SplitEdges, CutCode
  <2> HIDE DEF new
  <2> DEFINE h == loop.Header
  <2>8. loop'.Header = h /\ loop'.Blocks = IF b \in loop.Blocks THEN loop.Blocks \cup {new} ELSE loop.Blocks
    BY <2>4 DEF LoopAfter
  <2>9. /\ h = source.loop.Header /\ h \in DOMAIN succ \cup {NullBlock} /\ loop.Blocks \subseteq DOMAIN succ
        /\ IF h = NullBlock THEN loop = NoLoop
           ELSE KeptLoop(succ, loop) \/ (Len(succ[h]) # 2 /\ SplitsHeader)
        /\ Loops = <<>> /\ Blocks = <<>>
    BY <1>2 DEF SplittingOK
  <2>10. IsNumbered(succ', Cardinality(DOMAIN succ'))
    <3>1. IsNumbered(succ', new)
      BY <2>7 DEF SplitsInto
    <3> QED BY <3>1, NumberedSize
  <2>11. DOMAIN succ \subseteq DOMAIN succ' /\ DOMAIN code' = DOMAIN succ' /\ new \in DOMAIN succ'
    BY <1>3, <2>7 DEF SplitsInto, CutParts
  <2>12. ASSUME h = NullBlock PROVE loop' = NoLoop
    <3>1. loop = NoLoop /\ b # NullBlock
      BY <1>3, <2>7, <2>9, <2>12 DEF SplitsInto
    <3> QED BY <2>4, <3>1 DEF LoopAfter, NoLoop
  <2>13. ASSUME h # NullBlock PROVE KeptLoop(succ, loop)' \/ (Len(succ'[h]) # 2 /\ SplitsHeader)
    <3>1. CASE b = h
      <4>1. SplitsHeader
        BY <1>2, <1>4, <1>8, <2>9, <2>13, <3>1 DEF PointsOK, SplitsHeader
      <4>2. Len(succ'[h]) = 1
        <5>1. succ'[b] = <<new>>
          BY <1>3, <2>3 DEF IsSplit
        <5> QED BY <3>1, <5>1
      <4> QED BY <4>1, <4>2
    <3>2. CASE b # h /\ KeptLoop(succ, loop)
      <4> DEFINE s == succ
                 t == succ'
                 L == loop
                 M == loop'
      <4>1. IsSplit(s, t, b, new) /\ IsLoop(s, L) /\ b # L.Header /\ M = LoopAfter(L, b, new)
        BY <2>3, <2>4, <3>2 DEF KeptLoop
      <4>2. /\ HasOneExit(source) => IsLeftAtHeader(s, L)
            /\ HasOneEnd(source) => HasEnd(s, L)
            /\ HasAcyclicBody(source) => IsAcyclic(s, L)
        BY <3>2 DEF KeptLoop
      <4> HIDE DEF s, t, L, M
      <4>3. IsLoop(t, M)
        BY <4>1, SplitLoop
      <4>4. HasOneExit(source) => IsLeftAtHeader(t, M)
        BY <4>1, <4>2, SplitLeft
      <4>5. HasOneEnd(source) => HasEnd(t, M)
        BY <4>1, <4>2, SplitEnd
      <4>6. HasAcyclicBody(source) => IsAcyclic(t, M)
        BY <4>1, <4>2, SplitAcyclic
      <4> QED BY <1>1, <4>3, <4>4, <4>5, <4>6 DEF KeptLoop, t, M
    <3>3. CASE b # h /\ ~KeptLoop(succ, loop)
      <4>1. Len(succ[h]) # 2 /\ SplitsHeader /\ h \in DOMAIN succ
        BY <2>9, <2>13, <3>3
      <4>2. succ'[h] = succ[h]
        BY <2>7, <3>3, <4>1 DEF SplitsInto
      <4> QED BY <4>1, <4>2
    <3> QED BY <3>1, <3>2, <3>3
  <2>14. \A j \in DOMAIN VarUsePoints : Places(code', <<"point", VarUsePoints[j]>>) # {}
    <3> SUFFICES ASSUME NEW j \in DOMAIN VarUsePoints PROVE Places(code', <<"point", VarUsePoints[j]>>) # {}
      OBVIOUS
    <3> DEFINE inst == <<"point", VarUsePoints[j]>>
               before == code
               d == code'
    <3>1. Places(before, inst) # {} /\ IsCut(before, d, b, c, new, v)
      BY <1>2, <2>6 DEF PointsOK
    <3> HIDE DEF inst, before, d
    <3>2. Places(d, inst) # {}
      BY <3>1, CutKeepsPlaces
    <3> QED BY <3>2 DEF d, inst
  <2>15. ASSUME NEW a \in DOMAIN code', NEW w \in Variables, 1 \in DOMAIN code'[a], code'[a][1] = <<"point", w>>
         PROVE  \/ \E j \in 1 .. i : VarUsePoints[j] = w
                \/ HasUsePoint(source, w) /\ UsePoint(source, w)[2] = 1
    <3>1. CASE a = new
      <4>1. code[b][c] = <<"point", w>>
        BY <2>7, <2>15, <3>1 DEF CutParts
      <4>2. v = w
        <5>1. c = k
          BY <2>0, <4>1
        <5> QED BY <1>8, <4>1, <5>1
      <4>3. i \in 1 .. i
        BY <1>4
      <4> QED BY <4>2, <4>3
    <3>2. CASE a \in DOMAIN code
      <4>1. 1 \in DOMAIN code[a] /\ code[a][1] = <<"point", w>>
        <5>1. CASE a = b
          <6>1. c # 1
            BY <2>7, <2>15, <5>1 DEF CutParts
          <6>2. 1 \in 1 .. c - 1
            BY <2>7, <6>1 DEF CutParts
          <6> QED BY <2>7, <2>15, <5>1, <6>2 DEF CutParts
        <5>2. CASE a # b
          BY <2>7, <2>15, <3>2, <5>2 DEF CutParts
        <5> QED BY <5>1, <5>2
      <4>2. \/ \E j \in 1 .. i - 1 : VarUsePoints[j] = w
            \/ HasUsePoint(source, w) /\ UsePoint(source, w)[2] = 1
        BY <1>2, <3>2, <4>1 DEF PointsOK
      <4>3. 1 .. i - 1 \subseteq 1 .. i
        BY <1>4
      <4> QED BY <4>2, <4>3
    <3> QED BY <2>7, <3>1, <3>2 DEF CutParts
  <2>16. ASSUME h # NullBlock, NEW j \in DOMAIN code'[h], NEW w \in Variables, code'[h][j] = <<"point", w>>
         PROVE  HasUsePoint(source, w) /\ UsePoint(source, w)[1] = h
    <3>1. h \in DOMAIN code
      BY <1>3, <2>9, <2>16
    <3>2. j \in DOMAIN code[h] /\ code[h][j] = <<"point", w>>
      <4>1. CASE h = b
        <5>1. j \in 1 .. c /\ c \in Nat \ {0}
          BY <2>7, <2>16, <4>1 DEF CutParts
        <5>2. j # c
          BY <2>7, <2>16, <4>1 DEF CutParts
        <5>3. j \in 1 .. c - 1
          BY <5>1, <5>2
        <5> QED BY <2>7, <2>16, <4>1, <5>3 DEF CutParts
      <4>2. CASE h # b
        BY <2>7, <2>16, <3>1, <4>2 DEF CutParts
      <4> QED BY <4>1, <4>2
    <3> QED BY <1>2, <2>16, <3>2 DEF PointsOK
  <2>17. PointsOK'
    <3>1. VarUsePoints' # <<>> /\ i' \in 1 .. Len(VarUsePoints') + 1
      BY <1>1, <1>2, <1>4, <2>1 DEF PointsOK
    <3>2. i' - 1 = i
      BY <1>4, <2>1
    <3> QED BY <1>0, <1>1, <2>8, <2>14, <2>15, <2>16, <3>1, <3>2 DEF PointsOK
  <2>18. SplittingOK'
    <3>0. EndBlocks' \in Seq(Nat)
      <4>1. b \in Nat /\ EndBlocks \in Seq(Nat)
        BY <1>2, <1>3, <2>2 DEF SplittingOK, IsNumbered
      <4>2. EndBlocks' = Append(EndBlocks, b)
        BY <1>9, <1>13
      <4> QED BY <4>1, <4>2
    <3>1. loop'.Header \in DOMAIN succ' \cup {NullBlock} /\ loop'.Blocks \subseteq DOMAIN succ'
      BY <2>8, <2>9, <2>11
    <3>2. IF loop'.Header = NullBlock THEN loop' = NoLoop
          ELSE KeptLoop(succ, loop)' \/ (Len(succ'[loop'.Header]) # 2 /\ SplitsHeader')
      BY <1>0, <2>8, <2>12, <2>13
    <3> HIDE DEF h
    <3> QED BY <1>1, <1>2, <2>1, <2>8, <2>9, <2>10, <2>17, <3>0, <3>1, <3>2 DEF SplittingOK, h
  <2>19. \A a \in DOMAIN code' : code'[a] \in Seq(AllInstructions')
    BY <1>0, <2>7 DEF CutParts
  <2>20. AbortOK' /\ arrays' \subseteq Range(AnnotatedVars')
    BY <1>1, <1>3, <2>1 DEF AbortOK
  <2>21. CallInv'
    BY <1>1, <1>2, <2>11, CallKept
  <2> QED BY <1>1, <1>3, <1>10, <1>11, <2>11, <2>18, <2>19, <2>20, <2>21 DEF SFInv, PassInv
<1> QED BY <1>12, <1>13

LEMMA FindStep ==
  ASSUME SFInv, findLoop, UNCHANGED <<N, callVars>>
  PROVE  SFInv'
<1> DEFINE E == ExitEdges(succ, loop)
           edge == CHOOSE e \in E : TRUE
           n == Cardinality(DOMAIN succ)
<1>1. /\ stage = "splitting"
      /\ UNCHANGED <<source, succ, code, loop, AnnotatedVars, VarUsePoints, Loops, walk, Blocks, LoopBlocks>>
  BY DEF findLoop, useVars, irVars, walkVars
<1>0. Variables' = Variables /\ AllInstructions' = AllInstructions /\ SplitsHeader' = SplitsHeader
  BY <1>1, SourceKept
<1>2. PassInv /\ CallInv /\ SplittingOK /\ PointsOK /\ ListsOK
  BY <1>1 DEF SFInv, PassInv, InSplitting, SplittingOK
<1>3. /\ source \in Sources /\ DOMAIN code = DOMAIN succ
      /\ \A b \in DOMAIN code : code[b] \in Seq(AllInstructions)
      /\ arrays \subseteq Range(AnnotatedVars)
  BY <1>2 DEF PassInv
<1>4. /\ IsNumbered(succ, n)
      /\ loop.Header = source.loop.Header
      /\ loop.Header # NullBlock => KeptLoop(succ, loop) \/ (Len(succ[loop.Header]) # 2 /\ SplitsHeader)
      /\ EndBlocks \in Seq(Nat) /\ Loops = <<>> /\ Blocks = <<>> /\ LoopBlocks = <<>>
  BY <1>2 DEF SplittingOK
<1>5. ListsOK'
  BY <1>0, <1>1, <1>2 DEF ListsOK
<1>6. CallInv'
  BY <1>1, <1>2, CallKept
<1>7. CASE loop.Header = NullBlock
  <2>1. stage' = "unchanged" /\ UNCHANGED <<EndBlocks, body, ExitBlock, arrays, i>>
    BY <1>7 DEF findLoop, loopVars
  <2>2. SplittingOK'
    BY <1>0, <1>1, <1>2, <2>1 DEF SplittingOK, KeptLoop
  <2>3. AbortOK' /\ stage' \in Stages /\ InSplitting'
    BY <2>1 DEF AbortOK, Stages, InSplitting
  <2> QED BY <1>0, <1>1, <1>3, <1>5, <1>6, <2>1, <2>2, <2>3 DEF SFInv, PassInv
<1>8. CASE loop.Header # NullBlock
  <2>1. /\ body' = succ
        /\ arrays' = addBatchArrayForIntermediateVars(code, AnnotatedVars)
        /\ EndBlocks' = Append(EndBlocks, BodyEndOf(succ, loop))
        /\ ExitBlock' = succ[edge[1]][edge[2]]
        /\ i' = 1
        /\ stage' = IF Cardinality(E) = 1 /\ Len(succ[loop.Header]) = 2 THEN "looping" ELSE "aborted"
    BY <1>8 DEF findLoop
  <2>2. arrays' \subseteq Range(AnnotatedVars')
    BY <1>1, <2>1 DEF addBatchArrayForIntermediateVars
  <2>3. /\ BodyEndOf(succ, loop) \in Nat
        /\ BodyEndOf(succ, loop) = NullBlock <=> ~HasEnd(succ, loop)
        /\ HasEnd(succ, loop) => PredecessorsOf(succ, loop.Latch) = {BodyEndOf(succ, loop)}
    <3> DEFINE s == succ
               L == loop
    <3>1. IsNumbered(s, n) /\ NullBlock \in Nat
      BY <1>4 DEF NullBlock
    <3>2. DOMAIN s \subseteq Nat
      BY <3>1 DEF IsNumbered
    <3> HIDE DEF s, L, n
    <3>3. /\ BodyEndOf(s, L) = NullBlock <=> ~HasEnd(s, L)
          /\ HasEnd(s, L) => BodyEndOf(s, L) \in DOMAIN s /\ PredecessorsOf(s, L.Latch) = {BodyEndOf(s, L)}
      BY <3>1, EndOf
    <3>4. BodyEndOf(s, L) \in Nat
      BY <3>1, <3>2, <3>3
    <3> QED BY <3>3, <3>4 DEF s, L
  <2> DEFINE end == BodyEndOf(succ, loop)
  <2> HIDE DEF end
  <2>4. /\ EndBlocks' \in Seq(Nat) /\ EndBlocks' # <<>> /\ Last(EndBlocks') = end
    BY <1>4, <2>1, <2>3 DEF Last, end
  <2>5. ASSUME KeptLoop(succ, loop)
        PROVE  /\ Cardinality(E) = 1 <=> IsLeftAtHeader(succ, loop)
               /\ IsLeftAtHeader(succ, loop) => E = {<<loop.Header, 2>>}
    <3> DEFINE s == succ
               L == loop
    <3>1. IsNumbered(s, n) /\ IsLoop(s, L)
      BY <1>4, <2>5 DEF KeptLoop
    <3> HIDE DEF s, L, n
    <3>2. /\ Cardinality(ExitEdges(s, L)) = 1 <=> IsLeftAtHeader(s, L)
          /\ IsLeftAtHeader(s, L) => ExitEdges(s, L) = {<<L.Header, 2>>}
      BY <3>1, OneExit
    <3> QED BY <3>2 DEF s, L
  <2> HIDE DEF E
  <2>6. CASE stage' = "aborted"
    <3>1. KeptLoop(succ, loop) => ~HasOneExit(source)
      BY <2>1, <2>5, <2>6 DEF KeptLoop, IsLoop
    <3>2. ~KeptLoop(succ, loop) => SplitsHeader
      BY <1>4, <1>8
    <3>3. AbortOK'
      BY <1>0, <1>1, <3>1, <3>2 DEF AbortOK, SplitsHeader
    <3>4. SplittingOK'
      BY <1>0, <1>1, <1>2, <2>4, <2>6 DEF SplittingOK, KeptLoop
    <3>5. stage' \in Stages /\ InSplitting'
      BY <2>6 DEF Stages, InSplitting
    <3> QED BY <1>0, <1>1, <1>3, <1>5, <1>6, <2>2, <3>3, <3>4, <3>5 DEF SFInv, PassInv
  <2>7. CASE stage' = "looping"
    <3>1. Cardinality(E) = 1 /\ KeptLoop(succ, loop) /\ IsLeftAtHeader(succ, loop) /\ IsLoop(succ, loop)
      BY <1>4, <1>8, <2>1, <2>5, <2>7 DEF KeptLoop
    <3>2. ExitBlock' = succ[loop.Header][2]
      <4>1. edge = <<loop.Header, 2>>
        BY <2>5, <3>1
      <4> HIDE DEF edge
      <4>2. edge[1] = loop.Header /\ edge[2] = 2
        BY <4>1
      <4> QED BY <2>1, <4>2
    <3>3. n \in Nat \ {0} /\ DOMAIN succ = 1 .. n /\ \A b \in 1 .. n : succ[b] \in Seq(2 .. n)
      BY <1>4 DEF IsNumbered
    <3>4. Size' = n
      BY <2>1 DEF Size
    <3>5. FoundOK'
      <4>1. NumNewLoops' \in Nat \ {0}
        <5>1. VarUsePoints # <<>> /\ VarUsePoints \in Seq(Variables) /\ AnnotatedVars \in Seq(Variables)
              /\ Range(VarUsePoints) \subseteq Range(AnnotatedVars)
          BY <1>2 DEF PointsOK, ListsOK
        <5>2. 1 \in DOMAIN VarUsePoints
          BY <5>1
        <5>3. Range(VarUsePoints) # {}
          BY <5>2 DEF Range
        <5>4. AnnotatedVars # <<>>
          BY <5>1, <5>3 DEF Range
        <5> QED BY <1>1, <5>1, <5>4 DEF NumNewLoops
      <4>2. BodyEnd' = BodyEndOf(body', loop')
        BY <1>1, <2>1, <2>4 DEF BodyEnd, end
      <4>3. IsNumbered(body', Size')
        BY <1>4, <2>1, <3>4
      <4>4. KeptLoop(body, loop)' /\ IsLeftAtHeader(body', loop')
        BY <1>1, <2>1, <3>1 DEF KeptLoop
      <4>5. ExitBlock' = body'[loop'.Header][2] /\ loop'.Header # NullBlock
        BY <1>1, <1>8, <2>1, <3>2
      <4> QED BY <2>4, <4>1, <4>2, <4>3, <4>4, <4>5 DEF FoundOK
    <3>6. Made' = 0 /\ Loops' = <<>> /\ DOMAIN Loops' = {} /\ Len(Loops') = 0
      BY <1>1, <1>4, <2>7 DEF Made
    <3>7. LoopsOK'
      <4>1. NumNewLoops' \in Nat
        BY <3>5 DEF FoundOK
      <4>2. i' = Len(Loops') + 1 /\ i' <= NumNewLoops' + 1
        <5> DEFINE m == NumNewLoops'
        <5>1. m \in Nat /\ i' = 1 /\ Len(Loops') = 0
          BY <2>1, <3>6, <4>1
        <5> HIDE DEF m
        <5>2. 1 <= m + 1
          BY <5>1
        <5>3. i' <= m + 1
          BY <5>1, <5>2
        <5> DEFINE len == Len(Loops')
        <5> HIDE DEF len
        <5>4. len = 0
          BY <5>1 DEF len
        <5>5. i' = len + 1
          BY <5>1, <5>4
        <5> QED BY <5>3, <5>5 DEF m, len
      <4>3. DOMAIN succ' = 1 .. Size' + 4 * Made'
        BY <1>1, <3>3, <3>4, <3>6
      <4>4. Loops' \in Seq(Range(Loops'))
        BY <3>6
      <4>5. \A b \in DOMAIN code' : ~(b > Size')
        <5>1. \A b \in 1 .. n : ~(b > n)
          BY <3>3
        <5> HIDE DEF n
        <5> QED BY <1>1, <1>3, <3>3, <3>4, <5>1
      <4> QED BY <2>7, <3>6, <4>2, <4>3, <4>4, <4>5 DEF LoopsOK
    <3>8. Inside' = loop.Blocks \ {loop.Header} /\ HeadersMade' = {loop.Header} /\ PreHeadersMade' = {loop.PreHeader}
      <4>1. 1 .. Made' = {}
        BY <3>6
      <4>2. Inside' = Body(loop) \cup {loop.Latch}
        BY <1>1, <3>6, <4>1 DEF Inside
      <4>3. HeadersMade' = {loop.Header} /\ PreHeadersMade' = {loop.PreHeader}
        BY <1>1, <3>6 DEF HeadersMade, PreHeadersMade
      <4> QED BY <3>1, <4>2, <4>3 DEF Body, IsLoop
    <3>9. EdgesOK'
      <4>1. \A b \in DOMAIN succ : succ[b] \in Seq(DOMAIN succ \cup {NullBlock})
        <5>1. 2 .. n \subseteq DOMAIN succ \cup {NullBlock}
          BY <3>3
        <5> DEFINE R == 2 .. n
                   D == DOMAIN succ \cup {NullBlock}
        <5> HIDE DEF R, D
        <5>2. R \subseteq D /\ \A b \in DOMAIN succ : succ[b] \in Seq(R)
          BY <3>3, <5>1 DEF R, D
        <5>3. \A b \in DOMAIN succ : succ[b] \in Seq(D)
          BY <5>2
        <5> QED BY <5>3 DEF D
      <4>2. \A b \in DOMAIN succ \ loop.Blocks : SuccessorsOf(succ, b) \cap (loop.Blocks \ {loop.Header}) = {}
        BY <3>1 DEF IsLoop
      <4>3. DOMAIN succ \ (Inside' \cup HeadersMade') = DOMAIN succ \ loop.Blocks
        BY <3>1, <3>8 DEF IsLoop
      <4>4. Len(succ[loop.Header]) = 2 /\ succ[loop.Header][2] \notin loop.Blocks
        BY <3>1 DEF IsLoop
      <4>5. ASSUME loop.PreHeader # NullBlock, NEW b \in DOMAIN succ \ (Inside' \cup PreHeadersMade')
            PROVE  loop.Header \notin SuccessorsOf(succ, b)
        BY <3>1, <3>8, <4>5 DEF IsLoop
      <4>6. ~IsStitched(NumNewLoops)' /\ stage' = "looping"
        <5> DEFINE c == NumNewLoops'
        <5>1. c \in Nat
          BY <3>5 DEF FoundOK
        <5> HIDE DEF c
        <5>2. ~(c > c)
          BY <5>1
        <5> QED BY <2>7, <5>2 DEF IsStitched, c
      <4>7. loop'.PreHeader # NullBlock =>
              \A b \in DOMAIN succ' \ (Inside' \cup PreHeadersMade') : SuccessorsOf(succ', b) \cap HeadersMade' = {}
        BY <1>1, <3>8, <4>5
      <4> QED BY <1>1, <2>1, <3>6, <3>8, <4>1, <4>2, <4>3, <4>4, <4>6, <4>7 DEF EdgesOK
    <3>10. WalkOK'
      <4>1. <<>> \in Seq(2 .. Size') /\ <<>> \in Seq(Body(loop')) /\ <<>> \in Seq(Seq(Body(loop')) \ {<<>>})
        OBVIOUS
      <4> QED BY <1>1, <1>4, <2>7, <4>1 DEF WalkOK
    <3>11. AbortOK' /\ stage' \in Stages /\ ~InSplitting'
      BY <2>7 DEF AbortOK, Stages, InSplitting
    <3> QED BY <1>0, <1>1, <1>3, <1>5, <1>6, <2>2, <3>5, <3>7, <3>9, <3>10, <3>11 DEF SFInv, PassInv, LoopingOK
  <2> QED BY <2>1, <2>6, <2>7
<1> QED BY <1>7, <1>8

-----------------------------------------------------------------------------

(* The numbers of the blocks of the loops. *)
Numbering(m) ==
  /\ Size \in Nat \ {0} /\ DOMAIN body = 1 .. Size
  /\ loop.Blocks \subseteq 2 .. Size
  /\ loop.Header \in loop.Blocks /\ loop.Latch \in loop.Blocks /\ loop.Header # loop.Latch
  /\ m = Made /\ m \in Nat /\ m \in 0 .. NumNewLoops /\ NumNewLoops \in Nat \ {0}
  /\ DOMAIN succ = 1 .. Size + 4 * m
  /\ Len(Loops) \in Nat /\ DOMAIN Loops = 1 .. Len(Loops)
  /\ Len(Loops) = m \/ Len(Loops) = NumNewLoops + 1
  /\ stage # "looping" => m = NumNewLoops
  /\ \A k \in 1 .. m :
       /\ k \in DOMAIN Loops
       /\ Loops[k] = [PreHeader |-> Size + 4 * k - 3, Header |-> Size + 4 * k - 2,
                      Latch |-> Size + 4 * k - 1, EmptyBody |-> Size + 4 * k]
  /\ \A k \in DOMAIN Loops : k \in 1 .. m \/
       (k = NumNewLoops + 1 /\ m = NumNewLoops /\ Loops[k] = extractLoopSkeleton(loop))
  /\ \A x \in Inside : x \in loop.Blocks \ {loop.Header} \/ \E k \in 1 .. m : x \in {Size + 4 * k - 1, Size + 4 * k}
  /\ loop.Blocks \ {loop.Header} \subseteq Inside
  /\ \A k \in 1 .. m : Size + 4 * k - 1 \in Inside /\ Size + 4 * k \in Inside
  /\ \A x \in HeadersMade : x = loop.Header \/ \E k \in 1 .. m : x = Size + 4 * k - 2
  /\ loop.Header \in HeadersMade
  /\ \A k \in 1 .. m : Size + 4 * k - 2 \in HeadersMade

LEMMA BlocksAreNumbered ==
  ASSUME FoundOK, LoopsOK
  PROVE  Numbering(Made)
<1> DEFINE m == Made
           n == NumNewLoops
           len == Len(Loops)
<1>1. Size \in Nat \ {0} /\ DOMAIN body = 1 .. Size
  BY DEF FoundOK, IsNumbered
<1>2. /\ loop.Blocks \subseteq DOMAIN body /\ Entry \notin loop.Blocks
      /\ loop.Header \in loop.Blocks /\ loop.Latch \in loop.Blocks /\ loop.Header # loop.Latch
  BY DEF FoundOK, KeptLoop, IsLoop
<1>3. loop.Blocks \subseteq 2 .. Size
  <2> SUFFICES ASSUME NEW x \in loop.Blocks PROVE x \in 2 .. Size
    OBVIOUS
  <2> QED BY <1>1, <1>2 DEF Entry
<1>4. n \in Nat \ {0} /\ len \in Nat /\ DOMAIN Loops = 1 .. len
  <2>1. n \in Nat \ {0}
    BY DEF FoundOK
  <2>2. Loops \in Seq(Range(Loops))
    BY DEF LoopsOK
  <2> QED BY <2>1, <2>2
<1>5. /\ stage = "looping" => m = len /\ len + 1 <= n + 1
      /\ stage # "looping" => m = n /\ len = n + 1
  <2>1. stage = "looping" => i = len + 1 /\ i <= n + 1
    BY DEF LoopsOK
  <2>2. stage # "looping" => len = n + 1
    BY DEF LoopsOK
  <2>3. m = IF stage = "looping" THEN len ELSE n
    BY DEF Made
  <2> HIDE DEF m, n, len
  <2> QED BY <2>1, <2>2, <2>3
<1>6. DOMAIN succ = 1 .. Size + 4 * m
  BY DEF LoopsOK
<1>7. \A k \in DOMAIN Loops : Loops[k] = IF k > n THEN extractLoopSkeleton(loop)
        ELSE [PreHeader |-> Size + 4 * k - 3, Header |-> Size + 4 * k - 2, Latch |-> Size + 4 * k - 1,
              EmptyBody |-> Size + 4 * k]
  BY DEF LoopsOK, Skeleton
<1>8. /\ Inside = Body(loop) \cup {Loops[k].Latch : k \in DOMAIN Loops}
                    \cup {Loops[k].EmptyBody : k \in 1 .. m} \cup {loop.Latch}
      /\ HeadersMade = {Loops[k].Header : k \in DOMAIN Loops} \cup {loop.Header}
  BY DEF Inside, HeadersMade
<1> HIDE DEF m, n, len
<1>9. m \in Nat /\ m \in 0 .. n /\ (len = m \/ len = n + 1) /\ (stage # "looping" => m = n)
  BY <1>4, <1>5
<1>10. ASSUME NEW k \in 1 .. m
       PROVE  /\ k \in DOMAIN Loops
              /\ Loops[k] = [PreHeader |-> Size + 4 * k - 3, Header |-> Size + 4 * k - 2,
                             Latch |-> Size + 4 * k - 1, EmptyBody |-> Size + 4 * k]
  <2>1. k \in DOMAIN Loops /\ ~(k > n)
    BY <1>4, <1>9
  <2> QED BY <1>7, <2>1
<1>11. ASSUME NEW k \in DOMAIN Loops
       PROVE  k \in 1 .. m \/ (k = n + 1 /\ m = n /\ Loops[k] = extractLoopSkeleton(loop))
  <2>1. k \in 1 .. m \/ (k = n + 1 /\ m = n)
    BY <1>4, <1>5
  <2>2. k = n + 1 => k > n
    BY <1>4
  <2> QED BY <1>7, <2>1, <2>2
<1>12. \A k \in 1 .. m : /\ Loops[k].Header = Size + 4 * k - 2
                         /\ Loops[k].Latch = Size + 4 * k - 1
                         /\ Loops[k].EmptyBody = Size + 4 * k
  <2> SUFFICES ASSUME NEW k \in 1 .. m
               PROVE  /\ Loops[k].Header = Size + 4 * k - 2
                      /\ Loops[k].Latch = Size + 4 * k - 1
                      /\ Loops[k].EmptyBody = Size + 4 * k
    OBVIOUS
  <2>1. Loops[k] = [PreHeader |-> Size + 4 * k - 3, Header |-> Size + 4 * k - 2,
                    Latch |-> Size + 4 * k - 1, EmptyBody |-> Size + 4 * k]
    BY <1>10
  <2> QED BY <2>1
<1>13. \A k \in DOMAIN Loops : k \in 1 .. m \/ (Loops[k].Header = loop.Header /\ Loops[k].Latch = loop.Latch)
  BY <1>11 DEF extractLoopSkeleton
<1>14. ASSUME NEW x \in Inside
       PROVE  x \in loop.Blocks \ {loop.Header} \/ \E k \in 1 .. m : x \in {Size + 4 * k - 1, Size + 4 * k}
  <2>1. CASE x \in Body(loop) \/ x = loop.Latch
    BY <1>2, <2>1 DEF Body
  <2>2. ASSUME NEW k \in DOMAIN Loops, x = Loops[k].Latch
        PROVE  x = loop.Latch \/ \E j \in 1 .. m : x \in {Size + 4 * j - 1, Size + 4 * j}
    <3>1. CASE k \in 1 .. m
      <4>1. x = Size + 4 * k - 1
        BY <1>12, <2>2, <3>1
      <4> QED BY <3>1, <4>1
    <3>2. CASE k \notin 1 .. m
      BY <1>13, <2>2, <3>2
    <3> QED BY <3>1, <3>2
  <2>3. ASSUME NEW k \in 1 .. m, x = Loops[k].EmptyBody
        PROVE  \E j \in 1 .. m : x \in {Size + 4 * j - 1, Size + 4 * j}
    <3>1. x = Size + 4 * k
      BY <1>12, <2>3
    <3> QED BY <3>1
  <2> QED BY <1>2, <1>8, <2>1, <2>2, <2>3
<1>15. loop.Blocks \ {loop.Header} \subseteq Inside
  BY <1>8 DEF Body
<1>16. \A k \in 1 .. m : Loops[k].Latch \in Inside /\ Loops[k].EmptyBody \in Inside
  BY <1>8, <1>10
<1>17. ASSUME NEW x \in HeadersMade PROVE x = loop.Header \/ \E k \in 1 .. m : x = Size + 4 * k - 2
  <2>1. ASSUME NEW k \in DOMAIN Loops, x = Loops[k].Header
        PROVE  x = loop.Header \/ \E j \in 1 .. m : x = Size + 4 * j - 2
    BY <1>12, <1>13, <2>1
  <2> QED BY <1>8, <2>1
<1>18. loop.Header \in HeadersMade /\ \A k \in 1 .. m : Loops[k].Header \in HeadersMade
  BY <1>8, <1>10
<1>19. \A k \in 1 .. m : Size + 4 * k - 1 \in Inside /\ Size + 4 * k \in Inside /\ Size + 4 * k - 2 \in HeadersMade
  BY <1>12, <1>16, <1>18
<1> QED BY <1>1, <1>2, <1>3, <1>4, <1>6, <1>9, <1>10, <1>11, <1>14, <1>15, <1>17, <1>18, <1>19
        DEF Numbering, m, n, len

(* Headers and preheaders are not inside, nor are new blocks.              *)
Separate(m) ==
  /\ Inside \subseteq 2 .. Size + 4 * m
  /\ HeadersMade \subseteq 2 .. Size + 4 * m
  /\ Inside \cap HeadersMade = {}
  /\ \A k \in 1 .. m : Size + 4 * k - 3 \notin Inside \cup HeadersMade
  /\ \A x \in 1 .. Size : x \notin loop.Blocks => x \notin Inside \cup HeadersMade
  /\ loop.PreHeader \in (1 .. Size \cup {NullBlock}) \ (Inside \cup HeadersMade)
  /\ Body(loop) \subseteq Inside
  /\ \A k \in DOMAIN Loops : Loops[k].Header \in HeadersMade /\ Loops[k].Latch \in Inside \ Body(loop)

LEMMA BlocksAreSeparate ==
  ASSUME FoundOK, LoopsOK
  PROVE  Separate(Made)
<1> DEFINE m == Made
           n == Size
<1>0. Numbering(m)
  BY BlocksAreNumbered
<1>1. /\ n \in Nat \ {0} /\ loop.Blocks \subseteq 2 .. n
      /\ loop.Header \in loop.Blocks /\ loop.Latch \in loop.Blocks /\ loop.Header # loop.Latch
      /\ m \in Nat
  BY <1>0 DEF Numbering
<1>2. /\ \A x \in Inside : x \in loop.Blocks \ {loop.Header} \/ \E k \in 1 .. m : x \in {n + 4 * k - 1, n + 4 * k}
      /\ \A x \in HeadersMade : x = loop.Header \/ \E k \in 1 .. m : x = n + 4 * k - 2
      /\ loop.Blocks \ {loop.Header} \subseteq Inside
      /\ loop.Header \in HeadersMade
  BY <1>0 DEF Numbering
<1>3. \A k \in DOMAIN Loops : \/ k \in 1 .. m /\ Loops[k].Header = n + 4 * k - 2 /\ Loops[k].Latch = n + 4 * k - 1
                                   /\ n + 4 * k - 2 \in HeadersMade /\ n + 4 * k - 1 \in Inside
                              \/ Loops[k].Header = loop.Header /\ Loops[k].Latch = loop.Latch
  <2> SUFFICES ASSUME NEW k \in DOMAIN Loops, ~(Loops[k].Header = loop.Header /\ Loops[k].Latch = loop.Latch)
               PROVE  k \in 1 .. m /\ Loops[k].Header = n + 4 * k - 2 /\ Loops[k].Latch = n + 4 * k - 1
                        /\ n + 4 * k - 2 \in HeadersMade /\ n + 4 * k - 1 \in Inside
    OBVIOUS
  <2>1. k \in 1 .. m \/ Loops[k] = extractLoopSkeleton(loop)
    BY <1>0 DEF Numbering
  <2>2. k \in 1 .. m
    BY <2>1 DEF extractLoopSkeleton
  <2>3. Loops[k] = [PreHeader |-> n + 4 * k - 3, Header |-> n + 4 * k - 2,
                    Latch |-> n + 4 * k - 1, EmptyBody |-> n + 4 * k]
    BY <1>0, <2>2 DEF Numbering
  <2>4. n + 4 * k - 2 \in HeadersMade /\ n + 4 * k - 1 \in Inside
    BY <1>0, <2>2 DEF Numbering
  <2> HIDE DEF n
  <2> QED BY <2>2, <2>3, <2>4
<1>4. loop.PreHeader \in (1 .. n \cup {NullBlock}) \ loop.Blocks
  <2>1. DOMAIN body = 1 .. n
    BY <1>0 DEF Numbering
  <2> QED BY <2>1 DEF FoundOK, KeptLoop, IsLoop
<1> HIDE DEF m, n
<1>5. \A x \in loop.Blocks : x \in 2 .. n
  BY <1>1
<1>6. ASSUME NEW x \in Inside PROVE x \in 2 .. n + 4 * m
  <2>1. CASE x \in loop.Blocks
    BY <1>1, <1>5, <2>1
  <2>2. ASSUME NEW k \in 1 .. m, x \in {n + 4 * k - 1, n + 4 * k} PROVE x \in 2 .. n + 4 * m
    BY <1>1, <2>2
  <2> QED BY <1>2, <2>1, <2>2
<1>7. ASSUME NEW x \in HeadersMade PROVE x \in 2 .. n + 4 * m
  <2>1. CASE x = loop.Header
    BY <1>1, <1>5, <2>1
  <2>2. ASSUME NEW k \in 1 .. m, x = n + 4 * k - 2 PROVE x \in 2 .. n + 4 * m
    BY <1>1, <2>2
  <2> QED BY <1>2, <2>1, <2>2
<1>8. ASSUME NEW x \in Inside, x \in HeadersMade PROVE FALSE
  <2>1. CASE x \in loop.Blocks \ {loop.Header}
    <3>1. PICK k \in 1 .. m : x = n + 4 * k - 2
      BY <1>2, <1>8, <2>1
    <3>2. x \in 2 .. n
      BY <1>5, <2>1
    <3> QED BY <1>1, <3>1, <3>2
  <2>2. ASSUME NEW k \in 1 .. m, x \in {n + 4 * k - 1, n + 4 * k} PROVE FALSE
    <3>1. CASE x = loop.Header
      <4>1. x \in 2 .. n
        BY <1>1, <1>5, <3>1
      <4> QED BY <1>1, <2>2, <4>1
    <3>2. ASSUME NEW j \in 1 .. m, x = n + 4 * j - 2 PROVE FALSE
      BY <1>1, <2>2, <3>2
    <3> QED BY <1>2, <1>8, <3>1, <3>2
  <2> QED BY <1>2, <2>1, <2>2
<1>9. ASSUME NEW k \in 1 .. m PROVE n + 4 * k - 3 \notin Inside \cup HeadersMade
  <2>1. n + 4 * k - 3 \notin loop.Blocks
    <3>1. n + 4 * k - 3 \notin 2 .. n
      BY <1>1
    <3> QED BY <1>5, <3>1
  <2>2. \A j \in 1 .. m : n + 4 * k - 3 # n + 4 * j - 2 /\ n + 4 * k - 3 # n + 4 * j - 1 /\ n + 4 * k - 3 # n + 4 * j
    BY <1>1
  <2> QED BY <1>1, <1>2, <2>1, <2>2
<1>10. ASSUME NEW x \in 0 .. n, x \notin loop.Blocks PROVE x \notin Inside \cup HeadersMade
  <2>1. \A j \in 1 .. m : x # n + 4 * j - 2 /\ x # n + 4 * j - 1 /\ x # n + 4 * j
    BY <1>1
  <2> QED BY <1>1, <1>2, <1>10, <2>1
<1>11. loop.PreHeader \in (1 .. n \cup {NullBlock}) \ (Inside \cup HeadersMade)
  <2>1. loop.PreHeader \in 0 .. n
    BY <1>1, <1>4 DEF NullBlock
  <2> QED BY <1>4, <1>10, <2>1
<1>12. Body(loop) \subseteq Inside
  BY <1>2 DEF Body
<1>13. ASSUME NEW k \in DOMAIN Loops
       PROVE  Loops[k].Header \in HeadersMade /\ Loops[k].Latch \in Inside \ Body(loop)
  <2>1. CASE Loops[k].Header = loop.Header /\ Loops[k].Latch = loop.Latch
    BY <1>1, <1>2, <2>1 DEF Body
  <2>2. CASE k \in 1 .. m /\ Loops[k].Header = n + 4 * k - 2 /\ Loops[k].Latch = n + 4 * k - 1
              /\ n + 4 * k - 2 \in HeadersMade /\ n + 4 * k - 1 \in Inside
    <3>1. n + 4 * k - 1 \notin 2 .. n
      BY <1>1, <2>2
    <3>2. n + 4 * k - 1 \notin Body(loop)
      BY <1>5, <3>1 DEF Body
    <3> QED BY <2>2, <3>2
  <2> QED BY <1>3, <2>1, <2>2
<1>14. \A x \in 1 .. n : x \in 0 .. n
  OBVIOUS
<1>15. Inside \subseteq 2 .. n + 4 * m /\ HeadersMade \subseteq 2 .. n + 4 * m
  BY <1>6, <1>7
<1> QED BY <1>8, <1>9, <1>10, <1>11, <1>12, <1>13, <1>14, <1>15 DEF Separate, m, n

-----------------------------------------------------------------------------

(* What is not changed once the loop is found. *)
LEMMA FoundKept ==
  ASSUME FoundOK, UNCHANGED <<source, loop, EndBlocks, body, ExitBlock, AnnotatedVars>>
  PROVE  FoundOK' /\ Size' = Size /\ NumNewLoops' = NumNewLoops /\ BodyEnd' = BodyEnd
BY DEF FoundOK, KeptLoop, Size, NumNewLoops, BodyEnd

LEMMA LaterStep ==
  ASSUME SFInv, ~InSplitting, stage # "done",
         UNCHANGED <<source, useVars, arrays, N, callVars>>,
         stage' \in Stages \ {"start", "splitting", "unchanged", "crashed", "aborted"},
         DOMAIN succ \subseteq DOMAIN succ',
         DOMAIN code' = DOMAIN succ', \A b \in DOMAIN code' : code'[b] \in Seq(AllInstructions),
         LoopingOK'
  PROVE  SFInv'
<1>1. PassInv /\ CallInv /\ ListsOK /\ arrays \subseteq Range(AnnotatedVars) /\ source \in Sources
  BY DEF SFInv, PassInv
<1>2. Variables' = Variables /\ AllInstructions' = AllInstructions
  BY SourceKept
<1>3. UNCHANGED <<AnnotatedVars, VarUsePoints>>
  BY DEF useVars
<1>4. ListsOK'
  BY <1>1, <1>2, <1>3 DEF ListsOK
<1>5. CallInv'
  BY <1>1, CallKept
<1>6. ~InSplitting' /\ AbortOK'
  BY DEF InSplitting, AbortOK
<1> QED BY <1>1, <1>2, <1>3, <1>4, <1>5, <1>6 DEF SFInv, PassInv

LEMMA NewLoopBlocks ==
  Range(NewLoop) = {NewBlock, NewBlock + 1, NewBlock + 2, NewBlock + 3}
<1> DEFINE n == NewBlock
           L == [PreHeader |-> n, Header |-> n + 1, Latch |-> n + 2, EmptyBody |-> n + 3]
<1>1. NewLoop = L
  BY DEF NewLoop
<1>2. DOMAIN L = {"PreHeader", "Header", "Latch", "EmptyBody"}
  OBVIOUS
<1>3. L["PreHeader"] = n /\ L["Header"] = n + 1 /\ L["Latch"] = n + 2 /\ L["EmptyBody"] = n + 3
  OBVIOUS
<1> HIDE DEF L, n
<1>4. Range(L) = {n, n + 1, n + 2, n + 3}
  BY <1>2, <1>3 DEF Range
<1> QED BY <1>1, <1>4 DEF n

(* Four blocks are added, numbered from n + 1 on. *)
HasNewLoop(s, t, n) ==
  /\ DOMAIN t = DOMAIN s \cup {n + 1, n + 2, n + 3, n + 4}
  /\ t[n + 1] = <<n + 2>>
  /\ t[n + 2] = <<n + 4, n + 4>>
  /\ t[n + 3] = <<n + 2>>
  /\ t[n + 4] = <<n + 3>>
  /\ \A b \in DOMAIN s : t[b] = s[b]

LEMMA NewLoopEdges ==
  ASSUME NEW n \in Nat, NewBlock = n + 1, DOMAIN succ = 1 .. n,
         succ' = constructEmptyLoop(succ, NewLoop)
  PROVE  HasNewLoop(succ, succ', n)
<1> DEFINE L == NewLoop
<1>1. L = [PreHeader |-> n + 1, Header |-> n + 2, Latch |-> n + 3, EmptyBody |-> n + 4]
  BY DEF NewLoop
<1>2. L.PreHeader = n + 1 /\ L.Header = n + 2 /\ L.Latch = n + 3 /\ L.EmptyBody = n + 4
  BY <1>1
<1>3. Range(L) = {n + 1, n + 2, n + 3, n + 4}
  <2>1. Range(L) = {NewBlock, NewBlock + 1, NewBlock + 2, NewBlock + 3}
    BY NewLoopBlocks
  <2> HIDE DEF L
  <2> QED BY <2>1
<1> HIDE DEF L
<1>4. succ' = [b \in DOMAIN succ \cup {n + 1, n + 2, n + 3, n + 4} |->
                 IF b = n + 1 THEN <<n + 2>>
                 ELSE IF b = n + 2 THEN <<n + 4, n + 4>>
                 ELSE IF b = n + 4 THEN <<n + 3>>
                 ELSE IF b = n + 3 THEN <<n + 2>>
                 ELSE succ[b]]
  BY <1>2, <1>3 DEF constructEmptyLoop, L
<1>5. \A b \in DOMAIN succ : b # n + 1 /\ b # n + 2 /\ b # n + 3 /\ b # n + 4
  OBVIOUS
<1> QED BY <1>4, <1>5 DEF HasNewLoop

(* A loop is added to those that were made before.                         *)
LEMMA LoopAdded ==
  ASSUME SFInv, addLoop, NEW m, m = Made, NEW n, n = Size + 4 * m
  PROVE  /\ m = Len(Loops) /\ m \in Nat /\ i = m + 1 /\ Size \in Nat \ {0} /\ NumNewLoops \in Nat
         /\ n \in Nat /\ n >= 1 /\ DOMAIN succ = 1 .. n
         /\ HasNewLoop(succ, succ', n)
         /\ Range(NewLoop) = {n + 1, n + 2, n + 3, n + 4}
         /\ NewLoop = [PreHeader |-> n + 1, Header |-> n + 2, Latch |-> n + 3, EmptyBody |-> n + 4]
         /\ Len(Loops') = m + 1 /\ DOMAIN Loops' = 1 .. m + 1
         /\ \A k \in 1 .. m : Loops'[k] = Loops[k]
         /\ Loops'[m + 1] = NewLoop
         /\ Loops' \in Seq(Range(Loops'))
<1>1. /\ stage = "looping"
      /\ succ' = constructEmptyLoop(succ, NewLoop)
      /\ Loops' = Append(Loops, NewLoop)
  BY DEF addLoop
<1>2. FoundOK /\ LoopsOK
  BY <1>1 DEF SFInv, PassInv, InSplitting, LoopingOK
<1>3. Numbering(m)
  BY <1>2, BlocksAreNumbered
<1>5. /\ m = Len(Loops) /\ m \in Nat /\ i = m + 1 /\ Size \in Nat \ {0} /\ NumNewLoops \in Nat
      /\ DOMAIN succ = 1 .. Size + 4 * m
  <2>1. m = Len(Loops) /\ i = Len(Loops) + 1
    BY <1>1, <1>2 DEF Made, LoopsOK
  <2> QED BY <1>3, <2>1 DEF Numbering
<1>6. n \in Nat /\ n >= 1 /\ DOMAIN succ = 1 .. n
  BY <1>5
<1>7. NewBlock = n + 1
  <2>1. Cardinality(1 .. n) = n
    <3>1. Cardinality(1 .. n) = n - 1 + 1
      BY <1>6, FS_Interval
    <3> QED BY <1>6, <3>1
  <2> QED BY <1>6, <2>1 DEF NewBlock
<1>8. HasNewLoop(succ, succ', n)
  BY <1>1, <1>6, <1>7, NewLoopEdges
<1>9. Range(NewLoop) = {n + 1, n + 2, n + 3, n + 4}
  <2>1. NewBlock + 1 = n + 2 /\ NewBlock + 2 = n + 3 /\ NewBlock + 3 = n + 4
    BY <1>6, <1>7
  <2> QED BY <1>7, <2>1, NewLoopBlocks
<1>10. NewLoop = [PreHeader |-> n + 1, Header |-> n + 2, Latch |-> n + 3, EmptyBody |-> n + 4]
  BY <1>6, <1>7 DEF NewLoop
<1>11. /\ Loops' = Append(Loops, NewLoop)
       /\ Len(Loops') = m + 1 /\ DOMAIN Loops' = 1 .. m + 1
       /\ \A k \in 1 .. m : Loops'[k] = Loops[k]
       /\ Loops'[m + 1] = NewLoop
       /\ Loops' \in Seq(Range(Loops'))
  <2> DEFINE L == NewLoop
             R == Range(Loops)
  <2>1. Loops \in Seq(R)
    BY <1>2 DEF LoopsOK
  <2> HIDE DEF L, R
  <2>2. Loops' = Append(Loops, L) /\ m = Len(Loops)
    BY <1>1, <1>5 DEF L
  <2>3. /\ Len(Loops') = m + 1 /\ DOMAIN Loops' = 1 .. m + 1
        /\ \A k \in 1 .. m : Loops'[k] = Loops[k]
        /\ Loops'[m + 1] = L
        /\ Loops' \in Seq(R \cup {L})
    BY <2>1, <2>2
  <2>4. Range(Loops') = R \cup {L}
    BY <2>1, <2>2, AppendRange DEF R
  <2> QED BY <2>2, <2>3, <2>4 DEF L
<1> QED BY <1>5, <1>6, <1>8, <1>9, <1>10, <1>11

LEMMA AddLoopStep ==
  ASSUME SFInv, addLoop, UNCHANGED <<N, callVars>>
  PROVE  SFInv'
<1> DEFINE m == Made
           n == Size + 4 * m
<1>1. /\ stage = "looping" /\ i <= NumNewLoops
      /\ succ' = constructEmptyLoop(succ, NewLoop)
      /\ code' = [b \in DOMAIN code \cup Range(NewLoop) |-> IF b \in DOMAIN code THEN code[b] ELSE <<>>]
      /\ Loops' = Append(Loops, NewLoop) /\ i' = i + 1
      /\ UNCHANGED <<source, loop, stage, useVars, EndBlocks, body, ExitBlock, arrays, walk, Blocks, LoopBlocks>>
      /\ UNCHANGED AnnotatedVars
  BY DEF addLoop, loopVars, walkVars, useVars
<1>2. /\ ~InSplitting /\ FoundOK /\ LoopsOK /\ EdgesOK /\ WalkOK
      /\ DOMAIN code = DOMAIN succ /\ \A b \in DOMAIN code : code[b] \in Seq(AllInstructions)
  BY <1>1 DEF SFInv, PassInv, InSplitting, LoopingOK
<1>3. Numbering(m) /\ Separate(m)
  BY <1>2, BlocksAreNumbered, BlocksAreSeparate
<1>4. FoundOK' /\ Size' = Size /\ NumNewLoops' = NumNewLoops /\ BodyEnd' = BodyEnd
  BY <1>1, <1>2, FoundKept
<1>5. /\ m = Len(Loops) /\ m \in Nat /\ i = m + 1 /\ Size \in Nat \ {0} /\ NumNewLoops \in Nat
      /\ DOMAIN succ = 1 .. Size + 4 * m
  BY LoopAdded
<1>6. n \in Nat /\ n >= 1 /\ DOMAIN succ = 1 .. n
  BY LoopAdded
<1>8. HasNewLoop(succ, succ', n)
  BY LoopAdded
<1>9. Range(NewLoop) = {n + 1, n + 2, n + 3, n + 4}
  BY LoopAdded
<1>10. NewLoop = [PreHeader |-> n + 1, Header |-> n + 2, Latch |-> n + 3, EmptyBody |-> n + 4]
  BY LoopAdded
<1>11. /\ Loops' = Append(Loops, NewLoop)
       /\ Len(Loops') = m + 1 /\ DOMAIN Loops' = 1 .. m + 1
       /\ \A k \in 1 .. m : Loops'[k] = Loops[k]
       /\ Loops'[m + 1] = NewLoop
       /\ Loops' \in Seq(Range(Loops'))
  BY <1>1, LoopAdded
<1> HIDE DEF m
<1>12. Made' = m + 1
  BY <1>1, <1>11 DEF Made
<1>13. DOMAIN succ' = 1 .. n + 4 /\ DOMAIN succ \subseteq DOMAIN succ'
  <2>1. DOMAIN succ' = DOMAIN succ \cup {n + 1, n + 2, n + 3, n + 4}
    BY <1>8 DEF HasNewLoop
  <2> HIDE DEF n
  <2>2. 1 .. n + 4 = 1 .. n \cup {n + 1, n + 2, n + 3, n + 4}
    BY <1>6
  <2> QED BY <1>6, <2>1, <2>2
<1>14. LoopsOK'
  <2>1. i' = Len(Loops') + 1 /\ i' <= NumNewLoops' + 1
    <3> DEFINE c == NumNewLoops
    <3>1. c \in Nat /\ i <= c /\ NumNewLoops' = c
      BY <1>1, <1>4, <1>5
    <3> HIDE DEF c
    <3>2. i' = m + 2 /\ i' <= c + 1
      BY <1>1, <1>5, <3>1
    <3> QED BY <1>5, <1>11, <3>1, <3>2
  <2>2. \A k \in DOMAIN Loops' : Loops'[k] = Skeleton(k)'
    <3> SUFFICES ASSUME NEW k \in 1 .. m + 1 PROVE Loops'[k] = Skeleton(k)'
      BY <1>11
    <3>1. Skeleton(k)' = Skeleton(k)
      BY <1>1, <1>4 DEF Skeleton
    <3>2. CASE k \in 1 .. m
      <4>1. k \in DOMAIN Loops
        BY <1>3, <3>2 DEF Numbering
      <4> QED BY <1>2, <1>11, <3>1, <3>2, <4>1 DEF LoopsOK
    <3>3. CASE k = m + 1
      <4>1. ~(k > NumNewLoops)
        BY <1>1, <1>5, <3>3
      <4>2. Size + 4 * k - 3 = n + 1 /\ Size + 4 * k - 2 = n + 2 /\ Size + 4 * k - 1 = n + 3 /\ Size + 4 * k = n + 4
        BY <1>5, <3>3
      <4> HIDE DEF n
      <4> QED BY <1>10, <1>11, <3>1, <3>3, <4>1, <4>2 DEF Skeleton
    <3> QED BY <1>5, <3>2, <3>3
  <2>3. DOMAIN succ' = 1 .. Size' + 4 * Made'
    <3>1. Size' + 4 * Made' = n + 4
      BY <1>4, <1>5, <1>12
    <3> QED BY <1>13, <3>1
  <2>4. \A b \in DOMAIN code' : b > Size' => code'[b] = <<>>
    BY <1>1, <1>2, <1>4 DEF LoopsOK
  <2> QED BY <1>1, <1>11, <2>1, <2>2, <2>3, <2>4 DEF LoopsOK
<1>15. /\ Inside' = Inside \cup {n + 3, n + 4} /\ HeadersMade' = HeadersMade \cup {n + 2}
       /\ PreHeadersMade' = PreHeadersMade \cup {n + 1}
  <2>1. DOMAIN Loops = 1 .. m
    BY <1>3, <1>5 DEF Numbering
  <2>2. 1 .. m + 1 = 1 .. m \cup {m + 1}
    BY <1>5
  <2>3. /\ NewLoop.Header = n + 2 /\ NewLoop.Latch = n + 3 /\ NewLoop.EmptyBody = n + 4
        /\ NewLoop.PreHeader = n + 1
    <3> HIDE DEF n
    <3> QED BY <1>10
  <2>4. {Loops'[k].Latch : k \in DOMAIN Loops'} = {Loops[k].Latch : k \in DOMAIN Loops} \cup {n + 3}
    BY <1>11, <2>1, <2>2, <2>3
  <2>5. {Loops'[k].EmptyBody : k \in 1 .. m + 1} = {Loops[k].EmptyBody : k \in 1 .. m} \cup {n + 4}
    <3>1. \A k \in 1 .. m : Loops'[k].EmptyBody = Loops[k].EmptyBody
      BY <1>11
    <3>2. Loops'[m + 1].EmptyBody = n + 4
      BY <1>11, <2>3
    <3> HIDE DEF n
    <3> QED BY <2>2, <3>1, <3>2
  <2>6. {Loops'[k].Header : k \in DOMAIN Loops'} = {Loops[k].Header : k \in DOMAIN Loops} \cup {n + 2}
    BY <1>11, <2>1, <2>2, <2>3
  <2> DEFINE latches == {Loops[k].Latch : k \in DOMAIN Loops}
             bodies == {Loops[k].EmptyBody : k \in 1 .. m}
             headers == {Loops[k].Header : k \in DOMAIN Loops}
             preheaders == {Loops[k].PreHeader : k \in DOMAIN Loops}
  <2>9. {Loops'[k].PreHeader : k \in DOMAIN Loops'} = preheaders \cup {n + 1}
    BY <1>11, <2>1, <2>2, <2>3
  <2>10. PreHeadersMade' = PreHeadersMade \cup {n + 1}
    <3>1. PreHeadersMade = preheaders \cup {loop.PreHeader}
      BY DEF PreHeadersMade
    <3>2. PreHeadersMade' = preheaders \cup {n + 1} \cup {loop.PreHeader}
      <4> HIDE DEF n, preheaders
      <4> QED BY <1>1, <2>9 DEF PreHeadersMade
    <3> HIDE DEF preheaders, n
    <3> QED BY <3>1, <3>2
  <2>7. Inside = Body(loop) \cup latches \cup bodies \cup {loop.Latch} /\ HeadersMade = headers \cup {loop.Header}
    BY DEF Inside, HeadersMade, m
  <2>8. /\ Inside' = Body(loop) \cup (latches \cup {n + 3}) \cup (bodies \cup {n + 4}) \cup {loop.Latch}
        /\ HeadersMade' = headers \cup {n + 2} \cup {loop.Header}
    <3> HIDE DEF n
    <3> QED BY <1>1, <1>12, <2>4, <2>5, <2>6 DEF Inside, HeadersMade
  <2> HIDE DEF latches, bodies, headers, n
  <2> QED BY <2>7, <2>8, <2>10
<1>16. EdgesOK'
  <2>1. /\ Inside \subseteq DOMAIN succ /\ HeadersMade \subseteq DOMAIN succ
        /\ loop.Header \in HeadersMade /\ loop.Header \in DOMAIN succ
    <3>1. Inside \subseteq 2 .. n /\ HeadersMade \subseteq 2 .. n
      BY <1>3 DEF Separate
    <3>2. loop.Header \in HeadersMade
      BY <1>3 DEF Numbering
    <3> HIDE DEF n
    <3>3. 2 .. n \subseteq 1 .. n
      BY <1>6
    <3> QED BY <1>6, <3>1, <3>2, <3>3
  <2>2. /\ NullBlock \notin {n + 1, n + 2, n + 3, n + 4}
        /\ {n + 1, n + 2, n + 3, n + 4} \cap DOMAIN succ = {}
        /\ n + 1 # n + 2 /\ n + 2 # n + 3 /\ n + 2 # n + 4
    <3> HIDE DEF n
    <3> QED BY <1>6 DEF NullBlock
  <2> HIDE DEF n
  <2>3. /\ DOMAIN succ' = DOMAIN succ \cup {n + 1, n + 2, n + 3, n + 4}
        /\ succ'[n + 1] = <<n + 2>> /\ succ'[n + 2] = <<n + 4, n + 4>>
        /\ succ'[n + 3] = <<n + 2>> /\ succ'[n + 4] = <<n + 3>>
        /\ \A b \in DOMAIN succ : succ'[b] = succ[b]
    BY <1>8 DEF HasNewLoop
  <2> DEFINE D == DOMAIN succ \cup {NullBlock}
             T == DOMAIN succ' \cup {NullBlock}
  <2>4. /\ \A b \in DOMAIN succ : succ[b] \in Seq(D)
        /\ \A b \in DOMAIN succ \ (Inside \cup HeadersMade) : SuccessorsOf(succ, b) \cap Inside = {}
        /\ \A h \in HeadersMade : Len(succ[h]) = 2
        /\ succ[loop.Header][2] \notin Inside
        /\ \A k \in DOMAIN Loops : succ[Loops[k].Latch] = <<Loops[k].Header>>
        /\ loop.PreHeader # NullBlock =>
             \A b \in DOMAIN succ \ (Inside \cup PreHeadersMade) : SuccessorsOf(succ, b) \cap HeadersMade = {}
        /\ \A b \in DOMAIN body \ {Entry} : succ[b] = body[b]
    BY <1>1, <1>2 DEF EdgesOK
  <2>5. \A b \in DOMAIN succ' : succ'[b] \in Seq(T)
    <3>1. D \subseteq T /\ n + 2 \in T /\ n + 3 \in T /\ n + 4 \in T
      BY <2>3
    <3> HIDE DEF D, T
    <3>2. \A b \in DOMAIN succ : succ'[b] \in Seq(T)
      BY <2>3, <2>4, <3>1
    <3>3. \A x \in T : <<x>> \in Seq(T) /\ <<x, x>> \in Seq(T)
      OBVIOUS
    <3>4. succ'[n + 1] \in Seq(T) /\ succ'[n + 2] \in Seq(T) /\ succ'[n + 3] \in Seq(T) /\ succ'[n + 4] \in Seq(T)
      BY <2>3, <3>1, <3>3
    <3> QED BY <2>3, <3>2, <3>4
  <2>6. ASSUME NEW b \in DOMAIN succ' \ (Inside' \cup HeadersMade') PROVE SuccessorsOf(succ', b) \cap Inside' = {}
    <3>1. CASE b \in DOMAIN succ
      <4>1. SuccessorsOf(succ', b) = SuccessorsOf(succ, b) /\ SuccessorsOf(succ, b) \cap Inside = {}
        BY <1>15, <2>3, <2>4, <3>1 DEF SuccessorsOf
      <4>2. \A k \in DOMAIN succ[b] : succ[b][k] \in D
        <5> HIDE DEF D
        <5> QED BY <2>4, <3>1
      <4>3. SuccessorsOf(succ, b) \subseteq D
        BY <4>2 DEF SuccessorsOf
      <4> QED BY <1>15, <2>2, <4>1, <4>3
    <3>2. CASE b = n + 1
      <4>1. SuccessorsOf(succ', b) = {n + 2}
        BY <2>3, <3>2 DEF SuccessorsOf
      <4>2. n + 2 \notin Inside'
        BY <1>15, <2>1, <2>2
      <4> QED BY <4>1, <4>2
    <3> QED BY <1>15, <2>3, <3>1, <3>2
  <2>7. \A h \in HeadersMade' : Len(succ'[h]) = 2
    BY <1>15, <2>1, <2>3, <2>4
  <2>8. \A k \in DOMAIN Loops' : ~IsStitched(k)'
    <3> SUFFICES ASSUME NEW k \in 1 .. m + 1 PROVE ~IsStitched(k)'
      BY <1>11
    <3> DEFINE c == NumNewLoops
    <3>1. c \in Nat /\ i <= c /\ NumNewLoops' = c
      BY <1>1, <1>4, <1>5
    <3> HIDE DEF c
    <3>2. ~(k > c)
      BY <1>5, <3>1
    <3> QED BY <1>1, <3>1, <3>2 DEF IsStitched
  <2>9. succ'[loop'.Header][2] \notin Inside'
    <3>1. loop' = loop /\ succ'[loop.Header] = succ[loop.Header]
      BY <1>1, <2>1, <2>3
    <3>2. succ[loop.Header][2] \in D
      <4> HIDE DEF D
      <4>1. succ[loop.Header] \in Seq(D) /\ Len(succ[loop.Header]) = 2
        BY <2>1, <2>4
      <4> QED BY <4>1
    <3> QED BY <1>15, <2>2, <2>4, <3>1, <3>2
  <2>10. \A k \in DOMAIN Loops' : succ'[Loops'[k].Latch] = <<Loops'[k].Header>>
    <3> SUFFICES ASSUME NEW k \in 1 .. m + 1 PROVE succ'[Loops'[k].Latch] = <<Loops'[k].Header>>
      BY <1>11
    <3>1. CASE k \in 1 .. m
      <4>1. k \in DOMAIN Loops
        BY <1>3, <3>1 DEF Numbering
      <4>2. Loops[k].Latch \in Inside
        BY <1>3, <4>1 DEF Separate
      <4> QED BY <1>11, <2>1, <2>3, <2>4, <3>1, <4>1, <4>2
    <3>2. CASE k = m + 1
      <4>1. Loops'[k].Latch = n + 3 /\ Loops'[k].Header = n + 2
        BY <1>10, <1>11, <3>2
      <4> QED BY <2>3, <4>1
    <3> QED BY <1>5, <3>1, <3>2
  <2>11. \A b \in DOMAIN body' \ {Entry} : succ'[b] = body'[b]
    <3>1. DOMAIN body = 1 .. Size /\ 1 .. Size \subseteq 1 .. Size + 4 * m
      BY <1>3, <1>5 DEF Numbering
    <3>2. DOMAIN body \subseteq DOMAIN succ
      BY <1>5, <3>1
    <3> QED BY <1>1, <2>3, <2>4, <3>2
  <2>12. ASSUME loop'.PreHeader # NullBlock, NEW b \in DOMAIN succ' \ (Inside' \cup PreHeadersMade')
         PROVE  SuccessorsOf(succ', b) \cap HeadersMade' = {}
    <3>1. CASE b \in DOMAIN succ
      <4>1. SuccessorsOf(succ', b) = SuccessorsOf(succ, b) /\ SuccessorsOf(succ, b) \cap HeadersMade = {}
        BY <1>1, <1>15, <2>3, <2>4, <2>12, <3>1 DEF SuccessorsOf
      <4>2. \A k \in DOMAIN succ[b] : succ[b][k] \in D
        <5> HIDE DEF D
        <5> QED BY <2>4, <3>1
      <4>3. SuccessorsOf(succ, b) \subseteq D
        BY <4>2 DEF SuccessorsOf
      <4> QED BY <1>15, <2>2, <4>1, <4>3
    <3>2. CASE b = n + 2
      <4>1. SuccessorsOf(succ', b) = {n + 4}
        BY <2>3, <3>2 DEF SuccessorsOf
      <4>2. n + 4 \notin HeadersMade'
        BY <1>15, <2>1, <2>2
      <4> QED BY <4>1, <4>2
    <3> QED BY <1>15, <2>3, <2>12, <3>1, <3>2
  <2>13. ~IsStitched(NumNewLoops)'
    <3> DEFINE c == NumNewLoops'
    <3>1. c \in Nat
      BY <1>4, <1>5
    <3> HIDE DEF c
    <3>2. ~(c > c)
      BY <3>1
    <3> QED BY <1>1, <3>2 DEF IsStitched, c
  <2> QED BY <1>1, <2>5, <2>6, <2>7, <2>8, <2>9, <2>10, <2>11, <2>12, <2>13 DEF EdgesOK
<1>17. WalkOK'
  <2>1. Blocks' \in Seq(2 .. Size') /\ (BodyEnd' # NullBlock => Blocks' \in Seq(Body(loop')) /\ LoopBlocks' \in Seq(Seq(Body(loop')) \ {<<>>}))
    BY <1>1, <1>2, <1>4 DEF WalkOK
  <2> QED BY <1>1, <2>1 DEF WalkOK
<1>18. DOMAIN code' = DOMAIN succ' /\ \A b \in DOMAIN code' : code'[b] \in Seq(AllInstructions)
  <2>1. DOMAIN code' = DOMAIN succ'
    <3> HIDE DEF n
    <3> QED BY <1>1, <1>2, <1>8, <1>9 DEF HasNewLoop
  <2>2. <<>> \in Seq(AllInstructions)
    OBVIOUS
  <2> QED BY <1>1, <1>2, <2>1, <2>2
<1>19. stage' \in Stages \ {"start", "splitting", "unchanged", "crashed", "aborted"} /\ stage # "done"
  BY <1>1 DEF Stages
<1> QED BY <1>1, <1>2, <1>4, <1>13, <1>14, <1>16, <1>17, <1>18, <1>19, LaterStep DEF LoopingOK

-----------------------------------------------------------------------------

(* In s, whose edges go to D, the j-th edge of b is set to x. *)
SetsEdge(s, D, b, j, x, t) ==
  /\ \A a \in DOMAIN s : s[a] \in Seq(D)
  /\ b \in DOMAIN s
  /\ x \in D
  /\ t = [s EXCEPT ![b][j] = x]

EdgeIs(s, D, b, j, x, t) ==
  /\ DOMAIN t = DOMAIN s
  /\ \A a \in DOMAIN s : t[a] \in Seq(D) /\ Len(t[a]) = Len(s[a]) /\ DOMAIN t[a] = DOMAIN s[a]
  /\ \A a \in DOMAIN s \ {b} : t[a] = s[a]
  /\ \A k \in DOMAIN s[b] : t[b][k] = IF k = j THEN x ELSE s[b][k]

LEMMA EdgeIsSet ==
  ASSUME NEW s, NEW D, NEW b, NEW j, NEW x, NEW t, SetsEdge(s, D, b, j, x, t)
  PROVE  EdgeIs(s, D, b, j, x, t)
<1> USE DEF SetsEdge
<1>1. DOMAIN t = DOMAIN s /\ t[b] = [s[b] EXCEPT ![j] = x] /\ \A a \in DOMAIN s \ {b} : t[a] = s[a]
  OBVIOUS
<1> DEFINE list == s[b]
           n == Len(list)
<1>2. list \in Seq(D)
  OBVIOUS
<1>3. t[b] = [k \in DOMAIN list |-> IF k = j THEN x ELSE list[k]]
  BY <1>1
<1> HIDE DEF list
<1>4. n \in Nat /\ DOMAIN list = 1 .. n /\ \A k \in 1 .. n : list[k] \in D
  BY <1>2
<1>5. t[b] \in Seq(D) /\ Len(t[b]) = n
  <2> HIDE DEF n
  <2> DEFINE u == t[b]
  <2>1. u = [k \in 1 .. n |-> IF k = j THEN x ELSE list[k]]
    BY <1>3, <1>4
  <2>2. u \in [1 .. n -> D]
    BY <1>4, <2>1
  <2> HIDE DEF u
  <2>3. u \in Seq(D) /\ Len(u) = n
    <3>1. n \in Nat
      BY <1>4
    <3>2. u \in Seq(D)
      BY <2>2, <3>1
    <3>3. DOMAIN u = 1 .. n
      BY <2>2
    <3> QED BY <3>1, <3>2, <3>3
  <2> QED BY <2>3 DEF u
<1>6. DOMAIN t[b] = DOMAIN s[b] /\ \A k \in DOMAIN s[b] : t[b][k] = IF k = j THEN x ELSE s[b][k]
  BY <1>3 DEF list
<1> QED BY <1>1, <1>5, <1>6 DEF list, EdgeIs

(* The part of EdgesOK that does not depend on the stage. *)
EdgesAre(s) ==
  /\ Inside \cup HeadersMade \subseteq DOMAIN s
  /\ \A b \in DOMAIN s : s[b] \in Seq(DOMAIN s \cup {NullBlock})
  /\ \A b \in DOMAIN s \ (Inside \cup HeadersMade) : SuccessorsOf(s, b) \cap Inside = {}
  /\ \A h \in HeadersMade : Len(s[h]) = 2
  /\ loop.Header \in HeadersMade
  /\ s[loop.Header][2] \notin Inside
  /\ \A k \in DOMAIN Loops : s[Loops[k].Latch] = <<Loops[k].Header>>
  /\ loop.PreHeader # NullBlock =>
       \A b \in DOMAIN s \ (Inside \cup PreHeadersMade) : SuccessorsOf(s, b) \cap HeadersMade = {}

(* An edge that may be set: the first one of a header, one of the body, or *)
(* one outside.                                                            *)
MaySet(s, b, j, x) ==
  /\ b \in DOMAIN s
  /\ j \in {1, 2}
  /\ x \in DOMAIN s \cup {NullBlock}
  /\ \/ b \in HeadersMade /\ j = 1 /\ x \notin HeadersMade
     \/ b \in Body(loop)
     \/ b \notin Inside /\ x \notin Inside \cup HeadersMade

IsSet(s, t, b, j, x) ==
  /\ DOMAIN t = DOMAIN s
  /\ \A a \in DOMAIN s \ {b} : t[a] = s[a]
  /\ \A h \in HeadersMade : (h # b \/ j = 1) => t[h][2] = s[h][2]
  /\ b \in HeadersMade /\ j = 2 => t[b][2] = x
  /\ \A k \in DOMAIN s[b] : k # j => t[b][k] = s[b][k]
  /\ j \in DOMAIN s[b] => t[b][j] = x
  /\ DOMAIN t[b] = DOMAIN s[b]
  /\ Len(t[b]) = Len(s[b])

LEMMA EdgesStay ==
  ASSUME NEW m, Separate(m), NEW s, EdgesAre(s), NEW b, NEW j, NEW x, MaySet(s, b, j, x),
         NEW t, t = [s EXCEPT ![b][j] = x]
  PROVE  EdgesAre(t) /\ IsSet(s, t, b, j, x)
<1> DEFINE D == DOMAIN s \cup {NullBlock}
<1>1. /\ DOMAIN t = DOMAIN s
      /\ \A a \in DOMAIN s : t[a] \in Seq(D) /\ Len(t[a]) = Len(s[a]) /\ DOMAIN t[a] = DOMAIN s[a]
      /\ \A a \in DOMAIN s \ {b} : t[a] = s[a]
      /\ \A k \in DOMAIN s[b] : t[b][k] = IF k = j THEN x ELSE s[b][k]
  <2>1. SetsEdge(s, D, b, j, x, t)
    BY DEF EdgesAre, MaySet, SetsEdge
  <2> HIDE DEF D
  <2>2. EdgeIs(s, D, b, j, x, t)
    BY <2>1, EdgeIsSet
  <2> QED BY <2>2 DEF EdgeIs
<1>2. /\ Inside \subseteq DOMAIN s /\ HeadersMade \subseteq DOMAIN s /\ loop.Header \in HeadersMade
      /\ \A h \in HeadersMade : Len(s[h]) = 2
      /\ Inside \cap HeadersMade = {} /\ Body(loop) \subseteq Inside
      /\ \A k \in DOMAIN Loops : Loops[k].Latch \in Inside \ Body(loop)
  BY DEF EdgesAre, Separate
<1>3. ASSUME NEW h \in HeadersMade PROVE DOMAIN s[h] = {1, 2}
  <2>1. s[h] \in Seq(D) /\ Len(s[h]) = 2
    BY <1>2, <1>3 DEF EdgesAre
  <2> HIDE DEF D
  <2>2. DOMAIN s[h] = 1 .. 2
    BY <2>1
  <2> QED BY <2>2
<1>4. ASSUME NEW h \in HeadersMade, h # b \/ j = 1 PROVE t[h][2] = s[h][2]
  BY <1>1, <1>2, <1>3, <1>4
<1>5. b \in HeadersMade /\ j = 2 => t[b][2] = x
  BY <1>1, <1>3
<1>6. ASSUME NEW a \in DOMAIN t \ (Inside \cup HeadersMade) PROVE SuccessorsOf(t, a) \cap Inside = {}
  <2>1. SuccessorsOf(s, a) \cap Inside = {}
    BY <1>1 DEF EdgesAre
  <2>2. CASE a # b
    BY <1>1, <2>1, <2>2 DEF SuccessorsOf
  <2>3. CASE a = b
    <3>1. x \notin Inside
      BY <1>2, <2>3 DEF MaySet
    <3>2. ASSUME NEW k \in DOMAIN t[b] PROVE t[b][k] \notin Inside
      <4>1. k \in DOMAIN s[b] /\ s[b][k] \notin Inside
        BY <1>1, <1>6, <2>1, <2>3 DEF SuccessorsOf
      <4> QED BY <1>1, <3>1, <4>1
    <3> QED BY <2>3, <3>2 DEF SuccessorsOf
  <2> QED BY <2>2, <2>3
<1>7. t[loop.Header][2] \notin Inside
  <2>1. s[loop.Header][2] \notin Inside
    BY DEF EdgesAre
  <2>2. CASE loop.Header # b \/ j = 1
    BY <1>2, <1>4, <2>1, <2>2
  <2>3. CASE loop.Header = b /\ j = 2
    <3>1. x \notin Inside
      BY <1>2, <2>3 DEF MaySet
    <3> QED BY <1>2, <1>5, <2>3, <3>1
  <2> QED BY <2>2, <2>3 DEF MaySet
<1>8. ASSUME NEW k \in DOMAIN Loops PROVE t[Loops[k].Latch] = <<Loops[k].Header>>
  <2>1. Loops[k].Latch # b
    BY <1>2 DEF MaySet
  <2> QED BY <1>1, <1>2, <2>1 DEF EdgesAre
<1>9. ASSUME loop.PreHeader # NullBlock, NEW a \in DOMAIN t \ (Inside \cup PreHeadersMade)
       PROVE  SuccessorsOf(t, a) \cap HeadersMade = {}
  <2>1. SuccessorsOf(s, a) \cap HeadersMade = {}
    BY <1>1, <1>9 DEF EdgesAre
  <2>2. CASE a # b
    BY <1>1, <2>1, <2>2 DEF SuccessorsOf
  <2>3. CASE a = b
    <3>1. x \notin HeadersMade
      BY <1>2, <1>9, <2>3 DEF MaySet
    <3>2. ASSUME NEW k \in DOMAIN t[b] PROVE t[b][k] \notin HeadersMade
      <4>1. k \in DOMAIN s[b] /\ s[b][k] \notin HeadersMade
        BY <1>1, <1>9, <2>1, <2>3 DEF SuccessorsOf
      <4> QED BY <1>1, <3>1, <4>1
    <3> QED BY <2>3, <3>2 DEF SuccessorsOf
  <2> QED BY <2>2, <2>3
<1>10. EdgesAre(t)
  <2>1. \A a \in DOMAIN t : t[a] \in Seq(DOMAIN t \cup {NullBlock})
    BY <1>1
  <2>2. \A h \in HeadersMade : Len(t[h]) = 2
    BY <1>1, <1>2
  <2> QED BY <1>1, <1>2, <1>6, <1>7, <1>8, <1>9, <2>1, <2>2 DEF EdgesAre
<1>11. IsSet(s, t, b, j, x)
  <2>1. b \in DOMAIN s
    BY DEF MaySet
  <2> QED BY <1>1, <1>4, <1>5, <2>1 DEF IsSet
<1> QED BY <1>10, <1>11

LEMMA EdgesNow ==
  ASSUME FoundOK, LoopsOK, EdgesOK
  PROVE  EdgesAre(succ)
<1>1. Numbering(Made) /\ Separate(Made)
  BY BlocksAreNumbered, BlocksAreSeparate
<1>2. DOMAIN succ = 1 .. Size + 4 * Made /\ Size \in Nat /\ Made \in Nat /\ loop.Header \in HeadersMade
  BY <1>1 DEF Numbering
<1>3. Inside \subseteq 2 .. Size + 4 * Made /\ HeadersMade \subseteq 2 .. Size + 4 * Made
  BY <1>1 DEF Separate
<1>4. 2 .. Size + 4 * Made \subseteq 1 .. Size + 4 * Made
  <2> DEFINE n == Size + 4 * Made
  <2>1. n \in Nat
    BY <1>2
  <2> HIDE DEF n
  <2>2. 2 .. n \subseteq 1 .. n
    BY <2>1
  <2> QED BY <2>2 DEF n
<1>5. Inside \cup HeadersMade \subseteq DOMAIN succ
  BY <1>2, <1>3, <1>4
<1>6. /\ \A b \in DOMAIN succ : succ[b] \in Seq(DOMAIN succ \cup {NullBlock})
      /\ \A b \in DOMAIN succ \ (Inside \cup HeadersMade) : SuccessorsOf(succ, b) \cap Inside = {}
      /\ \A h \in HeadersMade : Len(succ[h]) = 2
      /\ succ[loop.Header][2] \notin Inside
      /\ \A k \in DOMAIN Loops : succ[Loops[k].Latch] = <<Loops[k].Header>>
      /\ loop.PreHeader # NullBlock =>
           \A b \in DOMAIN succ \ (Inside \cup PreHeadersMade) : SuccessorsOf(succ, b) \cap HeadersMade = {}
  BY Zenon DEF EdgesOK
<1> QED BY Zenon, <1>2, <1>5, <1>6 DEF EdgesAre

-----------------------------------------------------------------------------

(* What is known while the loops are made and stitched. *)
Stitching(m) ==
  /\ ~InSplitting /\ stage # "done"
  /\ FoundOK /\ LoopsOK /\ EdgesOK /\ WalkOK
  /\ DOMAIN code = DOMAIN succ
  /\ \A b \in DOMAIN code : code[b] \in Seq(AllInstructions)
  /\ m = Made
  /\ Numbering(m)
  /\ Separate(m)
  /\ EdgesAre(succ)
  /\ DOMAIN body \subseteq DOMAIN succ
  /\ Entry \in DOMAIN body /\ Entry \notin Inside \cup HeadersMade

(* The blocks there were before are still there. *)
LEMMA BodyIsThere ==
  ASSUME NEW m, Numbering(m), Separate(m)
  PROVE  /\ DOMAIN body \subseteq DOMAIN succ
         /\ Entry \in DOMAIN body /\ Entry \notin Inside \cup HeadersMade
<1> DEFINE n == Size
           B == loop.Blocks
<1>1. n \in Nat \ {0} /\ m \in Nat /\ DOMAIN body = 1 .. n /\ DOMAIN succ = 1 .. n + 4 * m /\ B \subseteq 2 .. n
  BY DEF Numbering
<1>2. \A x \in 1 .. n : x \notin B => x \notin Inside \cup HeadersMade
  BY DEF Separate
<1> HIDE DEF n, B
<1>3. 1 .. n \subseteq 1 .. n + 4 * m /\ 1 \in 1 .. n /\ 1 \notin 2 .. n
  BY <1>1
<1> QED BY <1>1, <1>2, <1>3 DEF Entry

LEMMA StitchingNow ==
  ASSUME SFInv, stage \in {"looping", "stitching", "walking", "assigning"}
  PROVE  Stitching(Made)
<1>1. /\ ~InSplitting /\ FoundOK /\ LoopsOK /\ EdgesOK /\ WalkOK /\ stage # "done"
      /\ DOMAIN code = DOMAIN succ /\ \A b \in DOMAIN code : code[b] \in Seq(AllInstructions)
  BY DEF SFInv, PassInv, InSplitting, LoopingOK
<1>2. Numbering(Made) /\ Separate(Made) /\ EdgesAre(succ)
  BY <1>1, BlocksAreNumbered, BlocksAreSeparate, EdgesNow
<1>3. /\ DOMAIN body \subseteq DOMAIN succ
      /\ Entry \in DOMAIN body /\ Entry \notin Inside \cup HeadersMade
  BY <1>2, BodyIsThere
<1> QED BY <1>1, <1>2, <1>3 DEF Stitching

LEMMA AddParentStep ==
  ASSUME SFInv, addParentLoop, UNCHANGED <<N, callVars>>
  PROVE  SFInv'
<1> DEFINE m == Made
           c == NumNewLoops
           L == extractLoopSkeleton(loop)
           p == Loops'[1].PreHeader
<1>1. /\ stage = "looping" /\ i > c /\ stage' = "stitching"
      /\ Loops' = Append(Loops, L) /\ i' = 1
      /\ succ' = setSuccessor(succ, Entry, p)
      /\ UNCHANGED <<source, code, loop, useVars, EndBlocks, body, ExitBlock, arrays, walk, Blocks, LoopBlocks>>
      /\ UNCHANGED AnnotatedVars
  BY DEF addParentLoop, loopVars, walkVars, useVars
<1>2. Stitching(m)
  BY <1>1, StitchingNow
<1>3. FoundOK' /\ Size' = Size /\ NumNewLoops' = c /\ BodyEnd' = BodyEnd
  BY <1>1, <1>2, FoundKept DEF Stitching
<1>4. m = Len(Loops) /\ i = Len(Loops) + 1 /\ i <= c + 1
  BY <1>1, <1>2 DEF Made, LoopsOK, Stitching
<1>5. Made' = c
  BY <1>1, <1>3 DEF Made
<1> HIDE DEF m, c, L
<1>6. /\ m \in Nat /\ c \in Nat \ {0} /\ Size \in Nat \ {0}
      /\ DOMAIN succ = 1 .. Size + 4 * m /\ DOMAIN Loops = 1 .. m
  BY <1>2, <1>4 DEF Stitching, Numbering, c
<1>7. m = c
  <2>1. i = m + 1
    BY <1>4
  <2> QED BY <1>1, <1>4, <1>6, <2>1
<1>8. /\ Len(Loops') = m + 1 /\ DOMAIN Loops' = 1 .. m + 1
      /\ \A k \in 1 .. m : Loops'[k] = Loops[k]
      /\ Loops'[m + 1] = L
      /\ Loops' \in Seq(Range(Loops'))
  <2> DEFINE R == Range(Loops)
  <2>1. Loops \in Seq(R)
    BY <1>2 DEF LoopsOK, Stitching
  <2> HIDE DEF R
  <2>2. /\ Len(Loops') = m + 1 /\ DOMAIN Loops' = 1 .. m + 1
        /\ \A k \in 1 .. m : Loops'[k] = Loops[k]
        /\ Loops'[m + 1] = L
        /\ Loops' \in Seq(R \cup {L})
    BY <1>1, <1>4, <2>1
  <2>3. Range(Loops') = R \cup {L}
    BY <1>1, <2>1, AppendRange DEF R
  <2> QED BY <2>2, <2>3
<1>9. L.Header = loop.Header /\ L.Latch = loop.Latch /\ L.PreHeader = loop.PreHeader
  BY DEF extractLoopSkeleton, L
<1>10. Inside' = Inside /\ HeadersMade' = HeadersMade /\ PreHeadersMade' = PreHeadersMade
  <2>1. 1 .. m + 1 = 1 .. m \cup {m + 1}
    BY <1>6
  <2> DEFINE latches == {Loops[k].Latch : k \in DOMAIN Loops}
             bodies == {Loops[k].EmptyBody : k \in 1 .. m}
             headers == {Loops[k].Header : k \in DOMAIN Loops}
  <2>2. {Loops'[k].Latch : k \in DOMAIN Loops'} = latches \cup {loop.Latch}
    BY <1>6, <1>8, <1>9, <2>1
  <2>3. {Loops'[k].EmptyBody : k \in 1 .. m} = bodies
    BY <1>8
  <2>4. {Loops'[k].Header : k \in DOMAIN Loops'} = headers \cup {loop.Header}
    BY <1>6, <1>8, <1>9, <2>1
  <2>5. Inside = Body(loop) \cup latches \cup bodies \cup {loop.Latch} /\ HeadersMade = headers \cup {loop.Header}
    BY DEF Inside, HeadersMade, m
  <2>6. /\ Inside' = Body(loop) \cup (latches \cup {loop.Latch}) \cup bodies \cup {loop.Latch}
        /\ HeadersMade' = headers \cup {loop.Header} \cup {loop.Header}
    BY <1>1, <1>5, <1>7, <2>2, <2>3, <2>4 DEF Inside, HeadersMade
  <2> DEFINE preheaders == {Loops[k].PreHeader : k \in DOMAIN Loops}
  <2>7. {Loops'[k].PreHeader : k \in DOMAIN Loops'} = preheaders \cup {loop.PreHeader}
    BY <1>6, <1>8, <1>9, <2>1
  <2>8. PreHeadersMade = preheaders \cup {loop.PreHeader}
    BY DEF PreHeadersMade
  <2>9. PreHeadersMade' = preheaders \cup {loop.PreHeader} \cup {loop.PreHeader}
    BY <1>1, <2>7 DEF PreHeadersMade
  <2> HIDE DEF latches, bodies, headers, preheaders
  <2> QED BY <2>5, <2>6, <2>8, <2>9
<1>11. p = Size + 1 /\ p \in DOMAIN succ /\ p \notin Inside \cup HeadersMade
  <2>1. 1 \in 1 .. m
    BY <1>6, <1>7
  <2>2. Loops[1] = [PreHeader |-> Size + 4 * 1 - 3, Header |-> Size + 4 * 1 - 2,
                    Latch |-> Size + 4 * 1 - 1, EmptyBody |-> Size + 4 * 1]
    BY <1>2, <2>1 DEF Stitching, Numbering
  <2>3. p = Size + 4 * 1 - 3
    BY <1>8, <2>1, <2>2
  <2>4. p \notin Inside \cup HeadersMade
    BY <1>2, <2>1, <2>3 DEF Stitching, Separate
  <2>5. p = Size + 1 /\ p \in 1 .. Size + 4 * m
    BY <1>6, <1>7, <2>3
  <2> QED BY <1>6, <2>4, <2>5
<1>20. p = Loops'[1].PreHeader
  OBVIOUS
<1> HIDE DEF p
<1>12. EdgesAre(succ') /\ IsSet(succ, succ', Entry, 1, p)
  <2>2. Entry \in DOMAIN succ /\ Entry \notin Inside
    BY <1>2 DEF Stitching
  <2> DEFINE s == succ
             t == succ'
  <2>3. MaySet(s, Entry, 1, p)
    BY <1>11, <2>2 DEF MaySet
  <2>4. Separate(m) /\ EdgesAre(s) /\ t = [s EXCEPT ![Entry][1] = p]
    BY <1>1, <1>2 DEF Stitching, setSuccessor
  <2> DEFINE e == Entry
  <2> HIDE DEF s, t, e
  <2>5. MaySet(s, e, 1, p) /\ t = [s EXCEPT ![e][1] = p]
    BY <2>3, <2>4 DEF e
  <2>6. EdgesAre(t) /\ IsSet(s, t, e, 1, p)
    BY <2>4, <2>5, EdgesStay
  <2> QED BY <2>6 DEF s, t, e
<1>13. DOMAIN succ' = DOMAIN succ
  BY <1>12 DEF IsSet
<1>14. LoopsOK'
  <2>1. Len(Loops') = NumNewLoops' + 1 /\ i' \in 1 .. Len(Loops')
    <3>1. i' \in 1 .. m + 1
      BY <1>1, <1>6
    <3> QED BY <1>3, <1>7, <1>8, <3>1
  <2>2. \A k \in DOMAIN Loops' : Loops'[k] = Skeleton(k)'
    <3> SUFFICES ASSUME NEW k \in 1 .. m + 1 PROVE Loops'[k] = Skeleton(k)'
      BY <1>8
    <3>1. Skeleton(k)' = Skeleton(k)
      BY <1>1, <1>3 DEF Skeleton, c
    <3>2. CASE k \in 1 .. m
      BY <1>2, <1>6, <1>8, <3>1, <3>2 DEF LoopsOK, Stitching
    <3>3. CASE k = m + 1
      <4>1. k > c
        BY <1>6, <1>7, <3>3
      <4> QED BY <1>8, <3>1, <3>3, <4>1 DEF Skeleton, c, L
    <3> QED BY <1>6, <3>2, <3>3
  <2>3. DOMAIN succ' = 1 .. Size' + 4 * Made'
    BY <1>3, <1>5, <1>6, <1>7, <1>13
  <2>4. \A b \in DOMAIN code' : b > Size' => code'[b] = <<>>
    BY <1>1, <1>2, <1>3 DEF LoopsOK, Stitching
  <2> QED BY <1>1, <1>8, <2>1, <2>2, <2>3, <2>4 DEF LoopsOK
<1>15. EdgesOK'
  <2>1. \A k \in DOMAIN Loops' : succ'[Loops'[k].Latch] = <<Loops'[k].Header>>
    <3> SUFFICES ASSUME NEW k \in 1 .. m + 1 PROVE succ'[Loops'[k].Latch] = <<Loops'[k].Header>>
      BY <1>8
    <3>1. CASE k \in 1 .. m
      BY <1>6, <1>8, <1>12, <3>1 DEF EdgesAre
    <3>2. CASE k = m + 1
      <4>1. /\ loop.Latch \in DOMAIN body \ {Entry} /\ loop.Latch \in DOMAIN succ
            /\ body[loop.Latch] = <<loop.Header>>
        <5>1. loop.Latch \in loop.Blocks /\ loop.Blocks \subseteq DOMAIN body /\ Entry \notin loop.Blocks
              /\ body[loop.Latch] = <<loop.Header>>
          BY <1>2 DEF Stitching, FoundOK, KeptLoop, IsLoop
        <5>2. DOMAIN body \subseteq DOMAIN succ
          BY <1>2 DEF Stitching
        <5> QED BY <1>6, <5>1, <5>2
      <4>2. succ'[loop.Latch] = <<loop.Header>>
        BY <1>1, <1>2, <1>12, <4>1 DEF Stitching, EdgesOK, IsSet
      <4> QED BY <1>8, <1>9, <3>2, <4>2
    <3> QED BY <1>6, <3>1, <3>2
  <2>2. ASSUME NEW k \in DOMAIN Loops', IsStitched(k)' PROVE succ'[Loops'[k].Header][2] \notin Inside'
    <3>1. k > c
      BY <1>1, <1>3, <1>6, <1>8, <2>2 DEF IsStitched
    <3>2. k = m + 1
      BY <1>6, <1>7, <1>8, <3>1
    <3> QED BY <1>8, <1>9, <1>10, <1>12, <3>2 DEF EdgesAre
  <2>3. \A b \in DOMAIN body' \ {Entry} : succ'[b] = body'[b]
    <3>1. DOMAIN body \subseteq DOMAIN succ
      BY <1>2 DEF Stitching
    <3> QED BY <1>1, <1>2, <1>12, <3>1 DEF Stitching, EdgesOK, IsSet
  <2>4. 1 \in DOMAIN succ'[Entry] => succ'[Entry][1] = Loops'[1].PreHeader
    BY <1>12, <1>20 DEF IsSet
  <2>5. ~IsStitched(NumNewLoops)'
    <3>1. ~(c > c) /\ ~(c < 1)
      BY <1>6
    <3> QED BY <1>1, <1>3, <3>1 DEF IsStitched
  <2> DEFINE t == succ'
  <2>6. /\ DOMAIN t = DOMAIN succ' /\ EdgesAre(t)
        /\ \A k \in DOMAIN Loops' : t[Loops'[k].Latch] = <<Loops'[k].Header>>
        /\ 1 \in DOMAIN t[Entry] => t[Entry][1] = Loops'[1].PreHeader
        /\ \A k \in DOMAIN Loops' : IsStitched(k)' => t[Loops'[k].Header][2] \notin Inside'
        /\ \A b \in DOMAIN body' \ {Entry} : t[b] = body'[b]
    BY <1>12, <2>1, <2>2, <2>3, <2>4
  <2> QED BY <1>1, <1>10, <2>5, <2>6 DEF EdgesOK, EdgesAre
<1>16. WalkOK'
  <2>1. Blocks' \in Seq(2 .. Size') /\ (BodyEnd' # NullBlock => Blocks' \in Seq(Body(loop')) /\ LoopBlocks' \in Seq(Seq(Body(loop')) \ {<<>>}))
    BY <1>1, <1>2, <1>3 DEF WalkOK, Stitching
  <2> QED BY <1>1, <2>1 DEF WalkOK
<1>17. DOMAIN code' = DOMAIN succ' /\ \A b \in DOMAIN code' : code'[b] \in Seq(AllInstructions)
  BY <1>1, <1>2, <1>13 DEF Stitching
<1>18. stage' \in Stages \ {"start", "splitting", "unchanged", "crashed", "aborted"}
  BY <1>1 DEF Stages
<1>19. LoopingOK' /\ ~InSplitting /\ stage # "done"
  BY <1>2, <1>3, <1>14, <1>15, <1>16 DEF LoopingOK, Stitching
<1> QED BY <1>1, <1>13, <1>17, <1>18, <1>19, LaterStep

(* The loops stay as they are while the edges are set. *)
LEMMA LoopsKept ==
  ASSUME NEW m, Stitching(m), stage # "looping", stage' # "looping", DOMAIN succ' = DOMAIN succ,
         UNCHANGED <<source, code, loop, EndBlocks, body, ExitBlock, AnnotatedVars, Loops>>,
         stage' = "stitching" => i' \in 1 .. Len(Loops), stage' = "assigning" => i' \in 1 .. Len(Loops) + 1
  PROVE  /\ FoundOK' /\ LoopsOK'
         /\ Size' = Size /\ NumNewLoops' = NumNewLoops /\ BodyEnd' = BodyEnd
         /\ Inside' = Inside /\ HeadersMade' = HeadersMade /\ PreHeadersMade' = PreHeadersMade
<1>1. FoundOK' /\ Size' = Size /\ NumNewLoops' = NumNewLoops /\ BodyEnd' = BodyEnd
  BY FoundKept DEF Stitching
<1>2. Made' = Made
  BY <1>1 DEF Made
<1>3. Inside' = Inside /\ HeadersMade' = HeadersMade /\ PreHeadersMade' = PreHeadersMade
  BY <1>2 DEF Inside, HeadersMade, PreHeadersMade
<1>4. \A k \in DOMAIN Loops : Skeleton(k)' = Skeleton(k)
  BY <1>1 DEF Skeleton
<1>5. LoopsOK /\ Len(Loops) = NumNewLoops + 1
  BY DEF Stitching, LoopsOK
<1>6. LoopsOK'
  BY <1>1, <1>2, <1>4, <1>5 DEF LoopsOK
<1> QED BY <1>1, <1>3, <1>6

LEMMA EdgesLater ==
  ASSUME EdgesAre(succ'), UNCHANGED <<loop, Loops, body>>, NumNewLoops' = NumNewLoops,
         Inside' = Inside, HeadersMade' = HeadersMade, PreHeadersMade' = PreHeadersMade,
         \A k \in DOMAIN Loops : IsStitched(k)' => succ'[Loops[k].Header][2] \notin Inside,
         1 \in DOMAIN succ'[Entry] => succ'[Entry][1] = Loops[1].PreHeader,
         IsStitched(NumNewLoops)' => succ'[Loops[NumNewLoops].Header][2] = loop.PreHeader,
         stage' \in {"looping", "stitching", "walking"} =>
           \A b \in DOMAIN body \ {Entry} : succ'[b] = body[b]
  PROVE  EdgesOK'
<1> DEFINE t == succ'
<1>1. /\ EdgesAre(t)
      /\ \A k \in DOMAIN Loops : IsStitched(k)' => t[Loops[k].Header][2] \notin Inside
      /\ 1 \in DOMAIN t[Entry] => t[Entry][1] = Loops[1].PreHeader
      /\ IsStitched(NumNewLoops)' => t[Loops[NumNewLoops].Header][2] = loop.PreHeader
      /\ stage' \in {"looping", "stitching", "walking"} => \A b \in DOMAIN body \ {Entry} : t[b] = body[b]
  OBVIOUS
<1> QED BY <1>1 DEF EdgesAre, EdgesOK

(* One edge is set, as it may be. *)
LEMMA SetStep ==
  ASSUME NEW m, Stitching(m), NEW b, NEW j, NEW x, MaySet(succ, b, j, x),
         succ' = [succ EXCEPT ![b][j] = x]
  PROVE  EdgesAre(succ') /\ IsSet(succ, succ', b, j, x) /\ DOMAIN succ' = DOMAIN succ
<1> DEFINE s == succ
           t == succ'
<1>1. Separate(m) /\ EdgesAre(s) /\ MaySet(s, b, j, x) /\ t = [s EXCEPT ![b][j] = x]
  BY DEF Stitching
<1> HIDE DEF s, t
<1>2. EdgesAre(t) /\ IsSet(s, t, b, j, x)
  BY <1>1, EdgesStay
<1>3. DOMAIN t = DOMAIN s
  BY <1>2 DEF IsSet
<1> QED BY <1>2, <1>3 DEF s, t

(* Which blocks a new loop has.                                            *)
LEMMA NewLoopIs ==
  ASSUME NEW m, Numbering(m), NEW k \in 1 .. m
  PROVE  /\ k \in DOMAIN Loops
         /\ Loops[k].PreHeader = Size + 4 * k - 3
         /\ Loops[k].Header = Size + 4 * k - 2
         /\ Loops[k].Latch = Size + 4 * k - 1
<1>1. \A j \in 1 .. m :
        /\ j \in DOMAIN Loops
        /\ Loops[j] = [PreHeader |-> Size + 4 * j - 3, Header |-> Size + 4 * j - 2,
                       Latch |-> Size + 4 * j - 1, EmptyBody |-> Size + 4 * j]
  BY Zenon DEF Numbering
<1>2. /\ k \in DOMAIN Loops
      /\ Loops[k] = [PreHeader |-> Size + 4 * k - 3, Header |-> Size + 4 * k - 2,
                     Latch |-> Size + 4 * k - 1, EmptyBody |-> Size + 4 * k]
  BY <1>1
<1> QED BY <1>2

(* The exit of a loop is set to the preheader of the next one.             *)
LEMMA LoopStitched ==
  ASSUME SFInv, stitchLoop, NEW m, m = Made, NEW h, h = Loops[i].Header, NEW p, p = Loops[i + 1].PreHeader
  PROVE  /\ Stitching(m) /\ m = NumNewLoops /\ Len(Loops) = m + 1
         /\ m \in Nat \ {0} /\ Size \in Nat \ {0} /\ DOMAIN succ = 1 .. Size + 4 * m /\ DOMAIN body = 1 .. Size
         /\ i \in 1 .. m /\ i + 1 \in 1 .. m + 1 /\ DOMAIN Loops = 1 .. m + 1
         /\ h = Size + 4 * i - 2 /\ h \in HeadersMade
         /\ p \in DOMAIN succ \cup {NullBlock} /\ p \notin Inside
         /\ i = m => p = loop.PreHeader
         /\ h \in DOMAIN succ /\ h \notin Inside /\ h \notin DOMAIN body
         /\ EdgesAre(succ') /\ IsSet(succ, succ', h, 2, p) /\ DOMAIN succ' = DOMAIN succ
<1>1. /\ stage = "stitching" /\ i < Len(Loops)
      /\ succ' = [succ EXCEPT ![h][2] = p]
  BY DEF stitchLoop, setExitBlock, getPreHeader
<1>2. Stitching(m)
  BY <1>1, StitchingNow
<1>3. i \in 1 .. Len(Loops) /\ Len(Loops) = NumNewLoops + 1 /\ m = NumNewLoops
  BY <1>1, <1>2 DEF LoopsOK, Stitching, Made
<1>4. /\ m \in Nat \ {0} /\ Size \in Nat \ {0} /\ DOMAIN succ = 1 .. Size + 4 * m /\ DOMAIN body = 1 .. Size
      /\ DOMAIN Loops = 1 .. Len(Loops)
  <2>1. Numbering(m)
    BY <1>2 DEF Stitching
  <2> QED BY <1>3, <2>1 DEF Numbering
<1>5. Len(Loops) = m + 1
  BY <1>3
<1>6. i \in 1 .. m /\ i + 1 \in 1 .. m + 1 /\ DOMAIN Loops = 1 .. m + 1
  BY <1>1, <1>3, <1>4, <1>5
<1>7. h = Size + 4 * i - 2 /\ h \in HeadersMade
  <2>1. h = Size + 4 * i - 2
    BY <1>2, <1>6, NewLoopIs DEF Stitching
  <2>2. i \in DOMAIN Loops
    BY <1>3, <1>4
  <2>3. h \in HeadersMade
    BY <1>2, <2>2 DEF Stitching, Separate
  <2> QED BY <2>1, <2>3
<1>8. p \in DOMAIN succ \cup {NullBlock} /\ p \notin Inside \cup HeadersMade /\ (i = m => p = loop.PreHeader)
  <2>1. CASE i + 1 \in 1 .. m
    <3> DEFINE k == i + 1
    <3>0. k \in 1 .. m
      BY <2>1
    <3> HIDE DEF k
    <3>1. Numbering(m)
      BY <1>2 DEF Stitching
    <3>2. Loops[k].PreHeader = Size + 4 * k - 3
      BY <3>0, <3>1, NewLoopIs
    <3>3. Size + 4 * k - 3 \notin Inside \cup HeadersMade
      BY <1>2, <3>0 DEF Stitching, Separate
    <3>4. Size + 4 * k - 3 \in 1 .. Size + 4 * m
      BY <1>4, <3>0
    <3>5. i # m
      BY <1>4, <2>1
    <3> QED BY <1>4, <3>2, <3>3, <3>4, <3>5 DEF k
  <2>2. CASE i + 1 = m + 1
    <3> DEFINE k == i + 1
    <3>0. k \in DOMAIN Loops /\ k \notin 1 .. m
      BY <1>4, <1>6, <2>2
    <3> HIDE DEF k
    <3>1. Loops[k] = extractLoopSkeleton(loop)
      BY <1>2, <3>0 DEF Stitching, Numbering
    <3>2. loop.PreHeader \in (1 .. Size \cup {NullBlock}) \ (Inside \cup HeadersMade)
      BY <1>2 DEF Stitching, Separate
    <3>3. loop.PreHeader \in (DOMAIN succ \cup {NullBlock}) \ (Inside \cup HeadersMade)
      BY <1>2, <1>4, <3>2 DEF Stitching
    <3> QED BY <3>1, <3>3 DEF extractLoopSkeleton, k
  <2> QED BY <1>4, <1>6, <2>1, <2>2
<1>9. h \in DOMAIN succ /\ h \notin Inside /\ h \notin DOMAIN body
  <2>1. h \in DOMAIN succ /\ h \notin Inside
    BY <1>2, <1>7 DEF Stitching, EdgesAre, Separate
  <2>2. Size + 4 * i - 2 \notin 1 .. Size
    BY <1>4, <1>6
  <2> QED BY <1>4, <1>7, <2>1, <2>2
<1>10. EdgesAre(succ') /\ IsSet(succ, succ', h, 2, p) /\ DOMAIN succ' = DOMAIN succ
  <2>1. MaySet(succ, h, 2, p)
    BY <1>8, <1>9 DEF MaySet
  <2> QED BY <1>1, <1>2, <2>1, SetStep
<1> QED BY <1>2, <1>3, <1>4, <1>5, <1>6, <1>7, <1>8, <1>9, <1>10

LEMMA StitchStep ==
  ASSUME SFInv, stitchLoop, UNCHANGED <<N, callVars>>
  PROVE  SFInv'
<1> DEFINE m == Made
           h == Loops[i].Header
           p == Loops[i + 1].PreHeader
<1>1. /\ stage = "stitching" /\ i < Len(Loops) /\ i' = i + 1
      /\ succ' = [succ EXCEPT ![h][2] = p]
      /\ UNCHANGED <<source, code, loop, stage, useVars, EndBlocks, body, ExitBlock, arrays, Loops, walk, Blocks, LoopBlocks>>
      /\ UNCHANGED AnnotatedVars
  BY DEF stitchLoop, loopVars, walkVars, useVars, setExitBlock, getPreHeader
<1>2. Stitching(m)
  BY LoopStitched
<1>4. /\ m \in Nat \ {0} /\ Size \in Nat \ {0} /\ DOMAIN succ = 1 .. Size + 4 * m /\ DOMAIN body = 1 .. Size
  BY LoopStitched
<1>5. Len(Loops) = m + 1
  BY LoopStitched
<1>6. i \in 1 .. m /\ i + 1 \in 1 .. m + 1 /\ DOMAIN Loops = 1 .. m + 1
  BY LoopStitched
<1>7. h = Size + 4 * i - 2 /\ h \in HeadersMade
  BY LoopStitched
<1>8. p \in DOMAIN succ \cup {NullBlock} /\ p \notin Inside
  BY LoopStitched
<1>9. h \in DOMAIN succ /\ h \notin Inside /\ h \notin DOMAIN body
  BY LoopStitched
<1>10. EdgesAre(succ') /\ IsSet(succ, succ', h, 2, p) /\ DOMAIN succ' = DOMAIN succ
  BY LoopStitched
<1>20. i = m => p = loop.PreHeader
  BY LoopStitched
<1>21. m = NumNewLoops
  BY LoopStitched
<1> HIDE DEF m
<1>11. i' \in 1 .. Len(Loops)
  BY <1>1, <1>5, <1>6
<1>12. /\ FoundOK' /\ LoopsOK'
       /\ Size' = Size /\ NumNewLoops' = NumNewLoops /\ BodyEnd' = BodyEnd
       /\ Inside' = Inside /\ HeadersMade' = HeadersMade /\ PreHeadersMade' = PreHeadersMade
  BY <1>1, <1>2, <1>10, <1>11, LoopsKept
<1> HIDE DEF h, p
<1>13. ASSUME NEW k \in DOMAIN Loops, IsStitched(k)' PROVE succ'[Loops[k].Header][2] \notin Inside
  <2>1. CASE Loops[k].Header = h
    <3>1. succ'[h][2] = p
      BY <1>7, <1>10 DEF IsSet
    <3> QED BY <1>8, <2>1, <3>1
  <2>2. CASE Loops[k].Header # h
    <3>1. k # i
      BY <2>2 DEF h
    <3>2. k > NumNewLoops \/ k < i + 1
      BY <1>1, <1>12, <1>13 DEF IsStitched
    <3>3. IsStitched(k)
      <4>1. k \in Nat
        BY <1>6
      <4>2. k < i \/ k > NumNewLoops
        BY <1>6, <3>1, <3>2, <4>1
      <4> QED BY <1>1, <4>2 DEF IsStitched
    <3>4. succ[Loops[k].Header][2] \notin Inside
      BY <1>2, <3>3 DEF Stitching, EdgesOK
    <3>5. Loops[k].Header \in HeadersMade
      BY <1>2 DEF Stitching, Separate
    <3>6. succ'[Loops[k].Header][2] = succ[Loops[k].Header][2]
      BY <1>10, <2>2, <3>5 DEF IsSet
    <3> QED BY <3>4, <3>6
  <2> QED BY <2>1, <2>2
<1>14. \A b \in DOMAIN body \ {Entry} : succ'[b] = body[b]
  <2>1. \A b \in DOMAIN body \ {Entry} : succ[b] = body[b] /\ b \in DOMAIN succ /\ b # h
    BY <1>1, <1>2, <1>9 DEF Stitching, EdgesOK
  <2> QED BY <1>10, <2>1 DEF IsSet
<1>22. 1 \in DOMAIN succ'[Entry] => succ'[Entry][1] = Loops[1].PreHeader
  <2>1. Entry \in DOMAIN succ /\ Entry # h
    BY <1>2, <1>7 DEF Stitching
  <2>2. succ'[Entry] = succ[Entry]
    BY <1>10, <2>1 DEF IsSet
  <2> QED BY <1>1, <1>2, <2>2 DEF Stitching, EdgesOK
<1>23. ASSUME IsStitched(NumNewLoops)' PROVE succ'[Loops[NumNewLoops].Header][2] = loop.PreHeader
  <2>1. m > m \/ m < i + 1
    BY <1>1, <1>12, <1>21, <1>23 DEF IsStitched
  <2>2. i = m
    BY <1>4, <1>6, <2>1
  <2>3. succ'[h][2] = p
    BY <1>7, <1>10 DEF IsSet
  <2> QED BY <1>20, <1>21, <2>2, <2>3 DEF h
<1>15. EdgesOK'
  BY <1>1, <1>10, <1>12, <1>13, <1>14, <1>22, <1>23, EdgesLater
<1>16. WalkOK'
  <2>1. Blocks' \in Seq(2 .. Size') /\ (BodyEnd' # NullBlock => Blocks' \in Seq(Body(loop')) /\ LoopBlocks' \in Seq(Seq(Body(loop')) \ {<<>>}))
    BY <1>1, <1>2, <1>12 DEF WalkOK, Stitching
  <2> QED BY <1>1, <2>1 DEF WalkOK
<1>17. DOMAIN code' = DOMAIN succ' /\ \A b \in DOMAIN code' : code'[b] \in Seq(AllInstructions)
  BY <1>1, <1>2, <1>10 DEF Stitching
<1>18. stage' \in Stages \ {"start", "splitting", "unchanged", "crashed", "aborted"}
  BY <1>1 DEF Stages
<1>19. LoopingOK' /\ ~InSplitting /\ stage # "done"
  BY <1>2, <1>12, <1>15, <1>16 DEF LoopingOK, Stitching
<1> QED BY <1>1, <1>10, <1>17, <1>18, <1>19, LaterStep

(* The exit of the last loop is set to what it was before.                 *)
LEMMA LastStitched ==
  ASSUME SFInv, stitchLastLoop, NEW m, m = Made, NEW h, h = loop.Header, NEW x, x = ExitBlock
  PROVE  /\ Stitching(m)
         /\ IsLoop(body, loop) /\ Loops[i].Header = h
         /\ succ[h] = body[h] /\ h \in DOMAIN succ /\ h \in HeadersMade /\ h \notin Inside /\ x \notin Inside
         /\ DOMAIN succ[h] = {1, 2} /\ x = succ[h][2]
         /\ EdgesAre(succ') /\ IsSet(succ, succ', h, 2, x) /\ DOMAIN succ' = DOMAIN succ
         /\ succ'[h] = succ[h]
<1> DEFINE begin == BodyBegin(body, loop)
           D == DOMAIN succ \cup {NullBlock}
<1>1. /\ stage = "stitching" /\ i = Len(Loops)
      /\ succ' = [succ EXCEPT ![Loops[i].Header][2] = x]
  BY DEF stitchLastLoop, setExitBlock
<1>2. Stitching(m)
  BY <1>1, StitchingNow
<1>3. /\ KeptLoop(body, loop) /\ IsLoop(body, loop) /\ ExitBlock = body[h][2]
      /\ h \in loop.Blocks /\ loop.Blocks \subseteq DOMAIN body /\ Entry \notin loop.Blocks
      /\ begin \in Body(loop)
  BY <1>2 DEF Stitching, FoundOK, KeptLoop, IsLoop, BodyBegin
<1>4. Loops[i].Header = h
  <2>1. i \in DOMAIN Loops /\ i = NumNewLoops + 1
    <3>1. i = NumNewLoops + 1 /\ i \in 1 .. Len(Loops)
      BY <1>1, <1>2 DEF Stitching, LoopsOK
    <3>2. DOMAIN Loops = 1 .. Len(Loops)
      BY <1>2 DEF Stitching, Numbering
    <3> QED BY <3>1, <3>2
  <2>2. Loops[i] = Skeleton(i)
    BY <1>2, <2>1 DEF Stitching, LoopsOK
  <2>3. i > NumNewLoops
    <3> DEFINE c == NumNewLoops
    <3>1. c \in Nat /\ i = c + 1
      BY <1>2, <2>1 DEF Stitching, FoundOK
    <3> HIDE DEF c
    <3>2. i > c
      BY <3>1
    <3> QED BY <3>2 DEF c
  <2> QED BY <2>2, <2>3 DEF Skeleton, extractLoopSkeleton
<1>5. /\ succ[h] = body[h] /\ h \in DOMAIN succ /\ h \in HeadersMade /\ h \notin Inside
      /\ succ[h] \in Seq(D) /\ Len(succ[h]) = 2 /\ x \notin Inside \cup HeadersMade
  <2>1. h \in DOMAIN body /\ h # Entry /\ h \in DOMAIN succ
    BY <1>2, <1>3 DEF Stitching
  <2>2. succ[h] = body[h]
    BY <1>1, <1>2, <2>1 DEF Stitching, EdgesOK
  <2>3. h \in HeadersMade /\ h \notin Inside /\ succ[h] \in Seq(D) /\ Len(succ[h]) = 2 /\ succ[h][2] \notin Inside
    BY <1>2, <2>1 DEF Stitching, EdgesAre, Separate
  <2>4. x \in 1 .. Size /\ x \notin loop.Blocks
    <3> DEFINE n == Size
    <3>1. n \in Nat \ {0} /\ DOMAIN body = 1 .. n /\ body[h] \in Seq(2 .. n) /\ Len(body[h]) = 2 /\ x = body[h][2]
      BY <1>2, <1>3 DEF Stitching, FoundOK, IsNumbered, IsLoop
    <3> HIDE DEF n
    <3>2. x \in 2 .. n
      BY <3>1
    <3>3. x \in 1 .. n
      BY <3>1, <3>2
    <3> QED BY <1>3, <3>3 DEF n, IsLoop
  <2>5. x \notin HeadersMade
    BY <1>2, <2>4 DEF Stitching, Separate
  <2> QED BY <1>3, <2>1, <2>2, <2>3, <2>5
<1>6. x \in D /\ DOMAIN succ[h] = {1, 2} /\ x = succ[h][2]
  <2> HIDE DEF D
  <2>1. DOMAIN succ[h] = 1 .. 2
    BY <1>5
  <2>2. 2 \in 1 .. 2 /\ 1 .. 2 = {1, 2}
    OBVIOUS
  <2>3. succ[h][2] \in D
    BY <1>5, <2>1, <2>2
  <2> QED BY <1>3, <1>5, <2>1, <2>2, <2>3
<1>7. EdgesAre(succ') /\ IsSet(succ, succ', h, 2, x) /\ DOMAIN succ' = DOMAIN succ
  <2>1. MaySet(succ, h, 2, x)
    BY <1>5, <1>6 DEF MaySet
  <2>2. succ' = [succ EXCEPT ![h][2] = x]
    BY <1>1, <1>4
  <2> QED BY <1>2, <2>1, <2>2, SetStep
<1>9. succ'[h] = succ[h]
  <2>1. succ'[h] \in Seq(D)
    BY <1>5, <1>7 DEF EdgesAre
  <2>2. DOMAIN succ'[h] = {1, 2} /\ succ'[h][1] = succ[h][1] /\ succ'[h][2] = succ[h][2]
    BY <1>6, <1>7 DEF IsSet
  <2> HIDE DEF D
  <2>3. Len(succ'[h]) = 2 /\ Len(succ[h]) = 2
    BY <1>5, <1>7 DEF IsSet
  <2> DEFINE t == succ'[h]
             s == succ[h]
  <2>4. t \in Seq(D) /\ s \in Seq(D) /\ Len(t) = 2 /\ Len(s) = 2 /\ t[1] = s[1] /\ t[2] = s[2]
    BY <1>5, <2>1, <2>2, <2>3
  <2> HIDE DEF t, s
  <2>5. \A k \in 1 .. 2 : t[k] = s[k]
    BY <2>4
  <2>6. t = s
    BY <2>4, <2>5
  <2> QED BY <2>6 DEF t, s
<1> QED BY <1>2, <1>3, <1>4, <1>5, <1>6, <1>7, <1>9

LEMMA StitchLastStep ==
  ASSUME SFInv, stitchLastLoop, UNCHANGED <<N, callVars>>
  PROVE  SFInv'
<1> DEFINE m == Made
           h == loop.Header
           x == ExitBlock
           begin == BodyBegin(body, loop)
<1>1. /\ stage = "stitching" /\ i = Len(Loops) /\ stage' = "walking"
      /\ succ' = [succ EXCEPT ![Loops[i].Header][2] = x]
      /\ walk' = <<<<begin, 1>>>>
      /\ UNCHANGED <<source, code, loop, i, useVars, EndBlocks, body, ExitBlock, arrays, Loops, Blocks, LoopBlocks>>
      /\ UNCHANGED AnnotatedVars
  BY DEF stitchLastLoop, loopVars, useVars, setExitBlock
<1>2. Stitching(m)
  BY LastStitched
<1>3. begin \in Body(loop)
  BY LastStitched DEF IsLoop, BodyBegin
<1>4. Loops[i].Header = h
  BY LastStitched
<1>5. succ[h] = body[h] /\ h \in DOMAIN succ /\ h \in HeadersMade /\ h \notin Inside /\ x \notin Inside
  BY LastStitched
<1>6. x = succ[h][2]
  BY LastStitched
<1>7. EdgesAre(succ') /\ IsSet(succ, succ', h, 2, x) /\ DOMAIN succ' = DOMAIN succ
  BY LastStitched
<1>8. /\ FoundOK' /\ LoopsOK'
      /\ Size' = Size /\ NumNewLoops' = NumNewLoops /\ BodyEnd' = BodyEnd
      /\ Inside' = Inside /\ HeadersMade' = HeadersMade /\ PreHeadersMade' = PreHeadersMade
  BY <1>1, <1>2, <1>7, LoopsKept
<1>9. succ'[h] = succ[h]
  BY LastStitched
<1>10. ASSUME NEW k \in DOMAIN Loops PROVE succ'[Loops[k].Header][2] \notin Inside
  <2>1. CASE Loops[k].Header = h
    BY <1>5, <1>6, <1>9, <2>1
  <2>2. CASE Loops[k].Header # h
    <3>1. k # i
      BY <1>4, <2>2
    <3>2. k \in 1 .. Len(Loops) /\ Len(Loops) \in Nat
      BY <1>2 DEF Stitching, Numbering
    <3>3. k < i
      BY <1>1, <3>1, <3>2
    <3>4. IsStitched(k)
      BY <1>1, <3>3 DEF IsStitched
    <3>5. succ[Loops[k].Header][2] \notin Inside
      BY <1>2, <3>4 DEF Stitching, EdgesOK
    <3>6. Loops[k].Header \in HeadersMade
      BY <1>2 DEF Stitching, Separate
    <3>7. succ'[Loops[k].Header][2] = succ[Loops[k].Header][2]
      BY <1>7, <2>2, <3>6 DEF IsSet
    <3> QED BY <3>5, <3>7
  <2> QED BY <2>1, <2>2
<1>11. \A b \in DOMAIN body \ {Entry} : succ'[b] = body[b]
  <2>1. \A b \in DOMAIN body \ {Entry} : succ[b] = body[b] /\ b \in DOMAIN succ
    BY <1>1, <1>2 DEF Stitching, EdgesOK
  <2> QED BY <1>7, <1>9, <2>1 DEF IsSet
<1>20. \A b \in DOMAIN succ : succ'[b] = succ[b]
  BY <1>7, <1>9 DEF IsSet
<1>21. 1 \in DOMAIN succ'[Entry] => succ'[Entry][1] = Loops[1].PreHeader
  BY <1>1, <1>2, <1>20 DEF Stitching, EdgesOK
<1>22. succ'[Loops[NumNewLoops].Header][2] = loop.PreHeader
  <2> DEFINE c == NumNewLoops
  <2>1. c \in DOMAIN Loops /\ c < i
    <3>1. c \in Nat \ {0} /\ Len(Loops) = c + 1 /\ DOMAIN Loops = 1 .. Len(Loops)
      BY <1>1, <1>2 DEF Stitching, Numbering, LoopsOK
    <3> HIDE DEF c
    <3> QED BY <1>1, <3>1
  <2>2. IsStitched(NumNewLoops)
    BY <1>1, <2>1 DEF IsStitched
  <2>3. Loops[NumNewLoops].Header \in DOMAIN succ
    BY <1>2, <2>1 DEF Stitching, Separate, EdgesAre
  <2> QED BY <1>2, <1>20, <2>2, <2>3 DEF Stitching, EdgesOK
<1>12. EdgesOK'
  BY <1>1, <1>7, <1>8, <1>10, <1>11, <1>21, <1>22, EdgesLater
<1>13. WalkOK'
  <2>1. Blocks' \in Seq(2 .. Size') /\ (BodyEnd' # NullBlock => Blocks' \in Seq(Body(loop')) /\ LoopBlocks' \in Seq(Seq(Body(loop')) \ {<<>>}))
    BY <1>1, <1>2, <1>8 DEF WalkOK, Stitching
  <2>2. begin \in loop.Blocks /\ begin \in 2 .. Size
    BY <1>2, <1>3 DEF Stitching, Numbering, Body
  <2>3. walk' \in Seq((2 .. Size) \X (Nat \ {0})) /\ DOMAIN walk' = {1} /\ walk'[1] = <<begin, 1>>
    <3> DEFINE P == (2 .. Size) \X (Nat \ {0})
    <3>1. <<begin, 1>> \in P
      BY <2>2
    <3> HIDE DEF P, begin
    <3> QED BY <1>1, <3>1 DEF P
  <2>4. walk'[1][1] = begin /\ walk'[1][2] = 1
    BY <2>3
  <2>5. IsReachedIn(begin, 1)
    <3>1. {} \in SUBSET (Body(loop) \ {begin}) /\ Cardinality({}) = 1 - 1
      BY FS_EmptySet
    <3> QED BY <3>1 DEF IsReachedIn
  <2>6. IsReachedIn(begin, 1)'
    <3>1. begin' = begin
      BY <1>1 DEF BodyBegin
    <3> HIDE DEF begin
    <3> QED BY <1>1, <2>5, <3>1 DEF IsReachedIn
  <2>7. begin' = begin
    BY <1>1 DEF BodyBegin
  <2> HIDE DEF begin
  <2>8. BodyEnd' = NullBlock => \E k \in DOMAIN walk' : walk'[k][1] \in loop'.Blocks
    BY <1>1, <2>2, <2>3, <2>4
  <2>9. \A k \in DOMAIN walk' : /\ walk'[k][1] \in Body(loop')
                                /\ IsReachedIn(walk[k][1], walk[k][2])'
    <3> SUFFICES ASSUME NEW k \in {1} PROVE walk'[k][1] \in Body(loop') /\ IsReachedIn(walk[k][1], walk[k][2])'
      BY <2>3
    <3> QED BY <1>1, <1>3, <2>4, <2>6, <2>7
  <2> QED BY <1>1, <1>8, <2>1, <2>3, <2>8, <2>9 DEF WalkOK
<1>14. DOMAIN code' = DOMAIN succ' /\ \A b \in DOMAIN code' : code'[b] \in Seq(AllInstructions)
  BY <1>1, <1>2, <1>7 DEF Stitching
<1>15. stage' \in Stages \ {"start", "splitting", "unchanged", "crashed", "aborted"}
  BY <1>1 DEF Stages
<1>16. LoopingOK' /\ ~InSplitting /\ stage # "done"
  BY <1>2, <1>8, <1>12, <1>13 DEF LoopingOK, Stitching
<1> QED BY <1>1, <1>7, <1>14, <1>15, <1>16, LaterStep

-----------------------------------------------------------------------------

(* From a block of the body that is not its end control stays in the body. *)
LEMMA StaysInBody ==
  ASSUME FoundOK, BodyEnd # NullBlock, NEW b \in Body(loop), b # BodyEnd
  PROVE  SuccessorsOf(body, b) \subseteq Body(loop)
<1>1. IsLoop(body, loop) /\ IsLeftAtHeader(body, loop) /\ IsNumbered(body, Size) /\ BodyEnd = BodyEndOf(body, loop)
  BY DEF FoundOK, KeptLoop
<1>2. PredecessorsOf(body, loop.Latch) = {BodyEnd}
  <2> DEFINE s == body
             L == loop
             n == Size
             e == BodyEnd
  <2>1. IsNumbered(s, n) /\ BodyEndOf(s, L) = e /\ e # NullBlock
    BY <1>1
  <2> HIDE DEF s, L, n, e
  <2>2. PredecessorsOf(s, L.Latch) = {e}
    BY <2>1, EndOf
  <2> QED BY <2>2 DEF s, L, e
<1>3. b \in loop.Blocks /\ b # loop.Header /\ b # loop.Latch /\ b \in DOMAIN body
  BY <1>1 DEF Body, IsLoop
<1>4. SuccessorsOf(body, b) \subseteq loop.Blocks /\ loop.Header \notin SuccessorsOf(body, b)
  BY <1>1, <1>3 DEF IsLeftAtHeader, IsLoop
<1>5. loop.Latch \notin SuccessorsOf(body, b)
  BY <1>2, <1>3 DEF PredecessorsOf
<1> QED BY <1>4, <1>5 DEF Body

(* A way without a cycle gets longer with each step. *)
LEMMA WayGoesOn ==
  ASSUME FoundOK, IsAcyclic(body, loop), NEW b \in Body(loop), NEW depth \in Nat \ {0}, IsReachedIn(b, depth),
         NEW x \in Body(loop), x \in SuccessorsOf(body, b)
  PROVE  IsReachedIn(x, depth + 1)
<1>1. PICK A \in SUBSET (Body(loop) \ {b}) :
        /\ Cardinality(A) = depth - 1
        /\ \A a \in A : SuccessorsOf(body, a) \cap (A \cup {b}) # {}
  BY DEF IsReachedIn
<1> DEFINE S == A \cup {b}
<1>2. S \in SUBSET Body(loop) /\ S # {}
  OBVIOUS
<1>3. x \notin S
  <2> SUFFICES ASSUME x \in S PROVE FALSE
    OBVIOUS
  <2>1. \A a \in S : SuccessorsOf(body, a) \cap S # {}
    BY <1>1
  <2> QED BY <1>2, <2>1 DEF IsAcyclic
<1>4. Cardinality(S) = depth
  <2>1. IsFiniteSet(A)
    <3>1. IsFiniteSet(DOMAIN body)
      <4> DEFINE s == body
                 n == Size
      <4>1. IsNumbered(s, n)
        BY DEF FoundOK
      <4> HIDE DEF s, n
      <4>2. IsFiniteSet(DOMAIN s)
        BY <4>1, NumberedSize
      <4> QED BY <4>2 DEF s
    <3>2. A \subseteq DOMAIN body
      BY DEF FoundOK, KeptLoop, IsLoop, Body
    <3> QED BY <3>1, <3>2, FS_Subset
  <2>2. b \notin A
    OBVIOUS
  <2>3. Cardinality(S) = Cardinality(A) + 1
    BY <2>1, <2>2, FS_AddElement
  <2> QED BY <1>1, <2>3
<1>5. \A a \in S : SuccessorsOf(body, a) \cap (S \cup {x}) # {}
  BY <1>1
<1>6. S \in SUBSET (Body(loop) \ {x}) /\ Cardinality(S) = depth + 1 - 1
  BY <1>2, <1>3, <1>4
<1> HIDE DEF S
<1> QED BY <1>5, <1>6 DEF IsReachedIn

(* The first call is done, and its successors are called. *)
CallsOn(w, list, depth, u) ==
  /\ w # <<>>
  /\ depth \in Nat \ {0}
  /\ u = [k \in DOMAIN list |-> <<list[k], depth + 1>>] \o Tail(w)

IsOneOf(w, list, depth, u, R) ==
  /\ u \in Seq(R \X (Nat \ {0}))
  /\ Len(u) = Len(list) + Len(w) - 1
  /\ \A k \in DOMAIN u : \/ \E j \in DOMAIN list : u[k] = <<list[j], depth + 1>>
                         \/ \E j \in DOMAIN w : u[k] = w[j]
  /\ \A j \in DOMAIN list : \E k \in DOMAIN u : u[k] = <<list[j], depth + 1>>
  /\ \A j \in DOMAIN w \ {1} : \E k \in DOMAIN u : u[k] = w[j]
  /\ list # <<>> => u # <<>> /\ u[1] = <<list[1], depth + 1>>

LEMMA Joined ==
  ASSUME NEW P, NEW a \in Seq(P), NEW b \in Seq(P)
  PROVE  /\ a \o b \in Seq(P) /\ Len(a \o b) = Len(a) + Len(b)
         /\ \A k \in 1 .. Len(a) + Len(b) : (a \o b)[k] = IF k <= Len(a) THEN a[k] ELSE b[k - Len(a)]
OBVIOUS

LEMMA NextCalls ==
  ASSUME NEW R, NEW list \in Seq(R), NEW w \in Seq(R \X (Nat \ {0})), NEW depth, NEW u, CallsOn(w, list, depth, u)
  PROVE  IsOneOf(w, list, depth, u, R)
<1> DEFINE P == R \X (Nat \ {0})
           new == [k \in DOMAIN list |-> <<list[k], depth + 1>>]
           old == Tail(w)
           n == Len(list)
           o == Len(w)
<1>1. n \in Nat /\ DOMAIN list = 1 .. n /\ \A k \in 1 .. n : list[k] \in R
  OBVIOUS
<1>2. depth + 1 \in Nat \ {0}
  BY DEF CallsOn
<1>3. new \in Seq(P) /\ Len(new) = n /\ \A k \in 1 .. n : new[k] = <<list[k], depth + 1>>
  <2>1. \A k \in 1 .. n : <<list[k], depth + 1>> \in P
    BY <1>1, <1>2
  <2>2. new = [k \in 1 .. n |-> <<list[k], depth + 1>>]
    BY <1>1
  <2> HIDE DEF new, P, n
  <2> QED BY <1>1, <2>1, <2>2
<1>4. o \in Nat /\ o >= 1 /\ old \in Seq(P) /\ Len(old) = o - 1 /\ \A k \in 1 .. o - 1 : old[k] = w[k + 1]
  <2>1. w \in Seq(P) /\ w # <<>>
    BY DEF CallsOn
  <2> HIDE DEF P
  <2> QED BY <2>1
<1>5. u = new \o old
  BY DEF CallsOn
<1>6. DOMAIN w = 1 .. o
  OBVIOUS
<1> HIDE DEF new, old, n, o, P
<1>7. /\ u \in Seq(P) /\ DOMAIN u = 1 .. n + o - 1 /\ Len(u) = n + o - 1
      /\ \A k \in 1 .. n : u[k] = new[k]
      /\ \A k \in 1 .. o - 1 : u[n + k] = old[k]
  <2>1. /\ u \in Seq(P) /\ Len(u) = Len(new) + Len(old)
        /\ \A k \in 1 .. Len(new) + Len(old) : u[k] = IF k <= Len(new) THEN new[k] ELSE old[k - Len(new)]
    BY <1>3, <1>4, <1>5, Joined
  <2>2. Len(new) + Len(old) = n + o - 1 /\ DOMAIN u = 1 .. Len(u)
    BY <1>1, <1>3, <1>4, <2>1
  <2>3. \A k \in 1 .. n : k \in 1 .. n + o - 1 /\ k <= n
    BY <1>1, <1>4
  <2>5. \A k \in 1 .. n + o - 1 : u[k] = IF k <= n THEN new[k] ELSE old[k - n]
    BY <1>3, <2>1, <2>2
  <2>6. DOMAIN u = 1 .. n + o - 1 /\ Len(u) = n + o - 1
    BY <2>1, <2>2
  <2>7. \A k \in 1 .. n : u[k] = new[k]
    BY <2>3, <2>5
  <2>8. \A k \in 1 .. o - 1 : u[n + k] = old[k]
    <3> SUFFICES ASSUME NEW k \in 1 .. o - 1 PROVE u[n + k] = old[k]
      OBVIOUS
    <3> DEFINE q == n + k
    <3>1. q \in 1 .. n + o - 1 /\ ~(q <= n) /\ q - n = k
      BY <1>1, <1>4
    <3> HIDE DEF q
    <3>2. u[q] = old[q - n]
      BY <2>5, <3>1
    <3> QED BY <3>1, <3>2 DEF q
  <2> QED BY <2>1, <2>6, <2>7, <2>8
<1>8. ASSUME NEW k \in DOMAIN u
      PROVE  \/ \E j \in DOMAIN list : u[k] = <<list[j], depth + 1>>
             \/ \E j \in DOMAIN w : u[k] = w[j]
  <2>1. CASE k \in 1 .. n
    BY <1>1, <1>3, <1>7, <2>1
  <2>2. CASE k \notin 1 .. n
    <3> DEFINE j == k - n
    <3>1. j \in 1 .. o - 1 /\ j + 1 \in 1 .. o /\ n + j = k
      BY <1>1, <1>4, <1>7, <2>2
    <3> HIDE DEF j
    <3>2. u[k] = w[j + 1]
      BY <1>4, <1>7, <3>1
    <3> QED BY <1>6, <3>1, <3>2
  <2> QED BY <2>1, <2>2
<1>9. ASSUME NEW j \in DOMAIN list PROVE \E k \in DOMAIN u : u[k] = <<list[j], depth + 1>>
  <2>1. j \in 1 .. n + o - 1 /\ j \in 1 .. n
    BY <1>1, <1>4
  <2> QED BY <1>3, <1>7, <2>1
<1>10. ASSUME NEW j \in DOMAIN w \ {1} PROVE \E k \in DOMAIN u : u[k] = w[j]
  <2> DEFINE k == j - 1
  <2>1. k \in 1 .. o - 1 /\ n + k \in 1 .. n + o - 1 /\ k + 1 = j
    <3>1. j \in 1 .. o /\ j # 1
      BY <1>6
    <3> QED BY <1>1, <1>4, <3>1
  <2> HIDE DEF k
  <2>2. u[n + k] = w[j]
    BY <1>4, <1>7, <2>1
  <2> QED BY <1>7, <2>1, <2>2
<1>11. Len(u) = n + o - 1
  BY <1>7
<1>12. ASSUME list # <<>> PROVE u # <<>> /\ u[1] = <<list[1], depth + 1>>
  <2>1. 1 \in 1 .. n /\ 1 \in 1 .. n + o - 1
    BY <1>1, <1>4, <1>12 DEF n
  <2>2. u[1] = <<list[1], depth + 1>>
    BY <1>3, <1>7, <2>1
  <2>3. u # <<>>
    <3>1. 1 \in DOMAIN u
      BY <1>7, <2>1
    <3> QED BY <3>1
  <2> QED BY <2>2, <2>3
<1> QED BY <1>7, <1>8, <1>9, <1>10, <1>11, <1>12 DEF IsOneOf, P, n, o

LEMMA Appended ==
  ASSUME NEW R, NEW list \in Seq(R), NEW e \in R
  PROVE  Append(list, e) \in Seq(R) /\ Append(list, e) # <<>> /\ <<>> \in Seq(R)
<1>1. Append(list, e) \in Seq(R) /\ Len(Append(list, e)) = Len(list) + 1 /\ Len(list) \in Nat
  OBVIOUS
<1>2. Len(<<>>) = 0 /\ <<>> \in Seq(R)
  OBVIOUS
<1> QED BY <1>1, <1>2

LEMMA TraverseStep ==
  ASSUME SFInv, traverseLoopBody, UNCHANGED <<N, callVars>>
  PROVE  SFInv'
<1> DEFINE m == Made
           b == walk[1][1]
           depth == walk[1][2]
           list == Recursion(b)
           visited == Append(Blocks, b)
           R == 2 .. Size
           W == R \X (Nat \ {0})
<1>1. /\ stage = "walking" /\ walk # <<>>
      /\ (LoopBlocks' = Append(LoopBlocks, visited) /\ Blocks' = <<>>) \/ (LoopBlocks' = LoopBlocks /\ Blocks' = visited)
      /\ walk' = [k \in DOMAIN list |-> <<list[k], depth + 1>>] \o Tail(walk)
      /\ UNCHANGED <<source, succ, code, loop, stage, i, useVars, EndBlocks, body, ExitBlock, arrays, Loops>>
      /\ UNCHANGED AnnotatedVars
  BY DEF traverseLoopBody, loopVars, useVars, irVars
<1>2. Stitching(m) /\ FoundOK /\ WalkOK
  BY <1>1, StitchingNow DEF Stitching
<1>3. /\ FoundOK' /\ LoopsOK'
      /\ Size' = Size /\ NumNewLoops' = NumNewLoops /\ BodyEnd' = BodyEnd
      /\ Inside' = Inside /\ HeadersMade' = HeadersMade /\ PreHeadersMade' = PreHeadersMade
  BY <1>1, <1>2, LoopsKept
<1>4. EdgesOK'
  <2>1. EdgesAre(succ')
    BY <1>1, <1>2 DEF Stitching
  <2>2. \A k \in DOMAIN Loops : succ'[Loops[k].Header][2] \notin Inside
    BY <1>1, <1>2 DEF Stitching, EdgesOK, IsStitched
  <2>3. \A a \in DOMAIN body \ {Entry} : succ'[a] = body[a]
    BY <1>1, <1>2 DEF Stitching, EdgesOK
  <2>4. 1 \in DOMAIN succ'[Entry] => succ'[Entry][1] = Loops[1].PreHeader
    BY <1>1, <1>2 DEF Stitching, EdgesOK
  <2>5. succ'[Loops[NumNewLoops].Header][2] = loop.PreHeader
    BY <1>1, <1>2 DEF Stitching, EdgesOK, IsStitched
  <2> QED BY <1>1, <1>3, <2>1, <2>2, <2>3, <2>4, <2>5, EdgesLater
<1>5. walk \in Seq(W) /\ 1 \in DOMAIN walk
  <2>1. walk \in Seq(W)
    BY <1>1, <1>2 DEF WalkOK
  <2> HIDE DEF W
  <2> QED BY <1>1, <2>1
<1>6. b \in R /\ depth \in Nat \ {0}
  <2>1. walk[1] \in W
    <3> HIDE DEF W
    <3> QED BY <1>5
  <2> QED BY <2>1
<1> HIDE DEF m, b, depth
<1>7. b \in DOMAIN body /\ succ[b] = body[b] /\ body[b] \in Seq(R)
  <2>1. DOMAIN body = 1 .. Size /\ Size \in Nat
    BY <1>2 DEF Stitching, Numbering
  <2>2. b \in DOMAIN body /\ b # Entry
    BY <1>6, <2>1 DEF Entry
  <2> QED BY <1>1, <1>2, <2>1, <2>2 DEF Stitching, EdgesOK, FoundOK, IsNumbered
<1>8. list = IF b = BodyEnd THEN <<>> ELSE body[b]
  BY <1>7 DEF Recursion
<1>9. list \in Seq(R)
  <2> HIDE DEF R, list
  <2>1. <<>> \in Seq(R)
    OBVIOUS
  <2> QED BY <1>7, <1>8, <2>1
<1> HIDE DEF list
<1>10. IsOneOf(walk, list, depth, walk', R)
  <2> DEFINE w == walk
             u == walk'
  <2>1. CallsOn(w, list, depth, u) /\ w \in Seq(R \X (Nat \ {0}))
    BY <1>1, <1>5, <1>6 DEF CallsOn
  <2> HIDE DEF w, u, R
  <2>2. IsOneOf(w, list, depth, u, R)
    BY <1>9, <2>1, NextCalls
  <2> QED BY <2>2 DEF w, u
<1>11. ASSUME NEW j \in DOMAIN list
       PROVE  b # BodyEnd /\ list[j] \in SuccessorsOf(body, b)
  <2>1. b # BodyEnd
    BY <1>8, <1>11
  <2> QED BY <1>8, <1>11, <2>1 DEF SuccessorsOf
<1>12. Blocks' \in Seq(R)
  <2> HIDE DEF R
  <2>1. Blocks \in Seq(R)
    BY <1>2 DEF WalkOK, R
  <2>2. visited \in Seq(R) /\ <<>> \in Seq(R)
    BY <1>6, <2>1, Appended
  <2> HIDE DEF visited
  <2> QED BY <1>1, <2>2
<1>13. ASSUME BodyEnd = NullBlock PROVE \E k \in DOMAIN walk' : walk'[k][1] \in loop.Blocks
  <2>1. PICK k \in DOMAIN walk : walk[k][1] \in loop.Blocks
    BY <1>1, <1>2, <1>13 DEF WalkOK
  <2>2. CASE k = 1
    <3>1. b \in loop.Blocks /\ b # BodyEnd
      BY <1>6, <1>13, <2>1, <2>2 DEF b, NullBlock
    <3>2. SuccessorsOf(body, b) \cap loop.Blocks # {}
      BY <1>2, <3>1 DEF FoundOK, KeptLoop, IsLoop
    <3>3. PICK j \in DOMAIN body[b] : body[b][j] \in loop.Blocks
      BY <3>2 DEF SuccessorsOf
    <3>4. j \in DOMAIN list /\ list[j] \in loop.Blocks
      BY <1>8, <3>1, <3>3
    <3>5. PICK q \in DOMAIN walk' : walk'[q] = <<list[j], depth + 1>>
      BY <1>10, <3>4 DEF IsOneOf
    <3>6. walk'[q][1] = list[j]
      BY <3>5
    <3> QED BY <3>4, <3>5, <3>6
  <2>3. CASE k # 1
    <3>1. PICK q \in DOMAIN walk' : walk'[q] = walk[k]
      BY <1>10, <2>1, <2>3 DEF IsOneOf
    <3> QED BY <2>1, <3>1
  <2> QED BY <2>2, <2>3
<1>14. ASSUME BodyEnd # NullBlock
       PROVE  /\ \A k \in DOMAIN walk' :
                   /\ walk'[k][1] \in Body(loop)
                   /\ IsAcyclic(body, loop) => IsReachedIn(walk'[k][1], walk'[k][2])
              /\ Blocks' \in Seq(Body(loop))
              /\ LoopBlocks' \in Seq(Seq(Body(loop)) \ {<<>>})
  <2> DEFINE B == Body(loop)
  <2>1. /\ \A k \in DOMAIN walk : /\ walk[k][1] \in B
                                  /\ IsAcyclic(body, loop) => IsReachedIn(walk[k][1], walk[k][2])
        /\ Blocks \in Seq(B) /\ LoopBlocks \in Seq(Seq(B) \ {<<>>})
    BY <1>1, <1>2, <1>14 DEF WalkOK
  <2>2. b \in B /\ (IsAcyclic(body, loop) => IsReachedIn(b, depth))
    BY <1>5, <2>1 DEF b, depth
  <2>3. ASSUME NEW j \in DOMAIN list
        PROVE  list[j] \in B /\ (IsAcyclic(body, loop) => IsReachedIn(list[j], depth + 1))
    <3>1. b # BodyEnd /\ list[j] \in SuccessorsOf(body, b)
      BY <1>11
    <3>2. list[j] \in B
      <4>1. SuccessorsOf(body, b) \subseteq Body(loop)
        BY <1>2, <1>14, <2>2, <3>1, StaysInBody
      <4> QED BY <3>1, <4>1
    <3> DEFINE x == list[j]
    <3>3. x \in Body(loop) /\ x \in SuccessorsOf(body, b)
      BY <3>1, <3>2
    <3> HIDE DEF x
    <3>4. IsAcyclic(body, loop) => IsReachedIn(x, depth + 1)
      BY <1>2, <1>6, <2>2, <3>3, WayGoesOn
    <3> QED BY <3>2, <3>4 DEF x
  <2>4. ASSUME NEW k \in DOMAIN walk'
        PROVE  walk'[k][1] \in B /\ (IsAcyclic(body, loop) => IsReachedIn(walk'[k][1], walk'[k][2]))
    <3>1. \/ \E j \in DOMAIN list : walk'[k] = <<list[j], depth + 1>>
          \/ \E j \in DOMAIN walk : walk'[k] = walk[j]
      BY <1>10 DEF IsOneOf
    <3>2. ASSUME NEW j \in DOMAIN list, walk'[k] = <<list[j], depth + 1>>
          PROVE  walk'[k][1] \in B /\ (IsAcyclic(body, loop) => IsReachedIn(walk'[k][1], walk'[k][2]))
      <4>1. walk'[k][1] = list[j] /\ walk'[k][2] = depth + 1
        BY <3>2
      <4> HIDE DEF B
      <4> QED BY <2>3, <4>1
    <3>3. ASSUME NEW j \in DOMAIN walk, walk'[k] = walk[j]
          PROVE  walk'[k][1] \in B /\ (IsAcyclic(body, loop) => IsReachedIn(walk'[k][1], walk'[k][2]))
      BY <2>1, <3>3
    <3> QED BY <3>1, <3>2, <3>3
  <2> HIDE DEF B
  <2> DEFINE S == Seq(B) \ {<<>>}
  <2>5. visited \in S /\ visited \in Seq(B) /\ <<>> \in Seq(B)
    BY <2>1, <2>2, Appended
  <2> HIDE DEF visited
  <2>6. Blocks' \in Seq(B)
    BY <1>1, <2>5
  <2>7. LoopBlocks' \in Seq(S)
    <3> HIDE DEF S
    <3>1. LoopBlocks \in Seq(S)
      BY <2>1 DEF S
    <3>2. Append(LoopBlocks, visited) \in Seq(S)
      BY <2>5, <3>1, Appended
    <3> QED BY <1>1, <3>1, <3>2
  <2> QED BY <2>4, <2>6, <2>7 DEF B
<1>15. WalkOK'
  <2>1. walk' \in Seq(W)
    BY <1>10 DEF IsOneOf
  <2>2. Blocks' \in Seq(2 .. Size')
    BY <1>3, <1>12
  <2>3. BodyEnd' = NullBlock => \E k \in DOMAIN walk' : walk'[k][1] \in loop'.Blocks
    BY <1>1, <1>3, <1>13
  <2>4. BodyEnd' # NullBlock =>
           /\ \A k \in DOMAIN walk' : walk'[k][1] \in Body(loop') /\ (IsAcyclic(body', loop') => IsReachedIn(walk[k][1], walk[k][2])')
           /\ Blocks' \in Seq(Body(loop'))
           /\ LoopBlocks' \in Seq(Seq(Body(loop')) \ {<<>>})
    <3>1. \A k \in DOMAIN walk' : IsReachedIn(walk[k][1], walk[k][2])' = IsReachedIn(walk'[k][1], walk'[k][2])
      BY <1>1 DEF IsReachedIn
    <3> QED BY <1>1, <1>3, <1>14, <3>1
  <2>5. walk' \in Seq((2 .. Size') \X (Nat \ {0}))
    BY <1>3, <2>1
  <2> HIDE DEF R, W
  <2> QED BY <1>1, <2>2, <2>3, <2>4, <2>5 DEF WalkOK
<1>16. /\ DOMAIN code' = DOMAIN succ' /\ DOMAIN succ \subseteq DOMAIN succ'
       /\ \A a \in DOMAIN code' : code'[a] \in Seq(AllInstructions)
  BY <1>1, <1>2 DEF Stitching
<1>17. stage' \in Stages \ {"start", "splitting", "unchanged", "crashed", "aborted"}
  BY <1>1 DEF Stages
<1>18. LoopingOK' /\ ~InSplitting /\ stage # "done"
  BY <1>2, <1>3, <1>4, <1>15 DEF LoopingOK, Stitching
<1> QED BY <1>1, <1>16, <1>17, <1>18, LaterStep

(* Once the loops are stitched no edge of theirs leads inside any more. *)
LEMMA LoopingKept ==
  ASSUME NEW m, Stitching(m), stage \in {"walking", "assigning"},
         stage' \in {"assigning", "done", "overflowed", "undefined"},
         UNCHANGED <<source, code, loop, EndBlocks, body, ExitBlock, AnnotatedVars, Loops>>,
         EdgesAre(succ'), DOMAIN succ' = DOMAIN succ, \A h \in HeadersMade : succ'[h][2] = succ[h][2],
         succ'[Entry] = succ[Entry],
         stage' = "assigning" => i' \in 1 .. Len(Loops) + 1
  PROVE  /\ FoundOK' /\ LoopsOK' /\ EdgesOK'
         /\ Size' = Size /\ BodyEnd' = BodyEnd
         /\ ~InSplitting /\ stage # "done"
         /\ stage' \in Stages \ {"start", "splitting", "unchanged", "crashed", "aborted"}
         /\ DOMAIN code' = DOMAIN succ'
         /\ \A b \in DOMAIN code' : code'[b] \in Seq(AllInstructions)
<1>1. /\ FoundOK' /\ LoopsOK' /\ NumNewLoops' = NumNewLoops
      /\ Size' = Size /\ BodyEnd' = BodyEnd
      /\ Inside' = Inside /\ HeadersMade' = HeadersMade /\ PreHeadersMade' = PreHeadersMade
  BY LoopsKept
<1>2. ASSUME NEW k \in DOMAIN Loops PROVE succ'[Loops[k].Header][2] \notin Inside
  <2>1. Loops[k].Header \in HeadersMade
    BY DEF Stitching, Separate
  <2>2. succ[Loops[k].Header][2] \notin Inside
    BY DEF Stitching, EdgesOK, IsStitched
  <2> QED BY <2>1, <2>2
<1>4. 1 \in DOMAIN succ'[Entry] => succ'[Entry][1] = Loops[1].PreHeader
  BY DEF Stitching, EdgesOK
<1>5. succ'[Loops[NumNewLoops].Header][2] = loop.PreHeader
  <2> DEFINE c == NumNewLoops
  <2>1. c \in DOMAIN Loops
    <3>1. Len(Loops) = c + 1
      BY DEF Stitching, LoopsOK
    <3>2. Numbering(m)
      BY DEF Stitching
    <3>3. c \in Nat \ {0}
      BY <3>2, Zenon DEF Numbering
    <3>4. DOMAIN Loops = 1 .. Len(Loops)
      BY <3>2, Zenon DEF Numbering
    <3> HIDE DEF c
    <3> QED BY <3>1, <3>3, <3>4
  <2>2. Loops[c].Header \in HeadersMade
    BY <2>1 DEF Stitching, Separate
  <2>3. succ[Loops[c].Header][2] = loop.PreHeader
    BY DEF Stitching, EdgesOK, IsStitched
  <2> QED BY <2>2, <2>3
<1>3. EdgesOK'
  BY <1>1, <1>2, <1>4, <1>5, EdgesLater
<1> QED BY <1>1, <1>3 DEF Stitching, Stages

LEMMA OverflowStep ==
  ASSUME SFInv, overflowStack, UNCHANGED <<N, callVars>>
  PROVE  SFInv'
<1> DEFINE m == Made
           b == walk[1][1]
           depth == walk[1][2]
           W == (2 .. Size) \X (Nat \ {0})
<1>1. /\ stage = "walking" /\ walk # <<>> /\ depth > Cardinality(DOMAIN succ) /\ stage' = "overflowed"
      /\ UNCHANGED <<source, succ, code, loop, i, useVars, EndBlocks, body, ExitBlock, arrays, Loops, walk, Blocks, LoopBlocks>>
      /\ UNCHANGED AnnotatedVars
  BY DEF overflowStack, loopVars, useVars, irVars, walkVars
<1>2. Stitching(m) /\ FoundOK /\ WalkOK
  BY <1>1, StitchingNow DEF Stitching
<1>3. /\ FoundOK' /\ LoopsOK' /\ EdgesOK'
      /\ Size' = Size /\ BodyEnd' = BodyEnd
      /\ ~InSplitting /\ stage # "done"
      /\ stage' \in Stages \ {"start", "splitting", "unchanged", "crashed", "aborted"}
      /\ DOMAIN code' = DOMAIN succ'
      /\ \A a \in DOMAIN code' : code'[a] \in Seq(AllInstructions)
  <2> HIDE DEF m
  <2>1. /\ EdgesAre(succ') /\ DOMAIN succ' = DOMAIN succ /\ succ'[Entry] = succ[Entry]
        /\ \A h \in HeadersMade : succ'[h][2] = succ[h][2]
    BY <1>1, <1>2 DEF Stitching
  <2> QED BY <1>1, <1>2, <2>1, LoopingKept
<1>4. walk \in Seq(W) /\ 1 \in DOMAIN walk
  <2>1. walk \in Seq(W)
    BY <1>1, <1>2 DEF WalkOK
  <2> HIDE DEF W
  <2> QED BY <1>1, <2>1
<1>5. depth \in Nat \ {0}
  <2>1. walk[1] \in W
    <3> HIDE DEF W
    <3> QED BY <1>4
  <2> QED BY <2>1
<1>6. ASSUME BodyEnd # NullBlock, IsAcyclic(body, loop) PROVE FALSE
  <2>1. b \in Body(loop) /\ IsReachedIn(b, depth)
    BY <1>1, <1>2, <1>4, <1>6 DEF WalkOK
  <2> HIDE DEF b, depth
  <2>2. PICK A \in SUBSET (Body(loop) \ {b}) : Cardinality(A) = depth - 1
    BY <2>1 DEF IsReachedIn
  <2>3. Body(loop) \subseteq DOMAIN succ
    BY <1>2 DEF Stitching, Separate, EdgesAre
  <2>4. IsFiniteSet(DOMAIN succ)
    <3>1. DOMAIN succ = 1 .. Size + 4 * m /\ Size \in Nat /\ m \in Nat
      BY <1>2 DEF Stitching, Numbering
    <3> HIDE DEF m
    <3> DEFINE n == Size + 4 * m
    <3>2. n \in Int /\ 1 \in Int
      BY <3>1
    <3> HIDE DEF n
    <3>3. IsFiniteSet(1 .. n)
      BY <3>2, FS_Interval
    <3> QED BY <3>1, <3>3 DEF n
  <2> DEFINE S == A \cup {b}
  <2>5. S \subseteq DOMAIN succ /\ b \notin A /\ IsFiniteSet(A)
    BY <2>1, <2>3, <2>4, FS_Subset
  <2>6. Cardinality(S) = Cardinality(A) + 1
    BY <2>5, FS_AddElement
  <2>7. Cardinality(S) = depth
    BY <1>5, <2>2, <2>6 DEF depth
  <2> DEFINE D == DOMAIN succ
  <2>8. S \subseteq D /\ IsFiniteSet(D)
    BY <2>4, <2>5
  <2> HIDE DEF S, D
  <2>9. Cardinality(S) \in Nat /\ Cardinality(D) \in Nat /\ Cardinality(S) <= Cardinality(D)
    BY <2>8, FS_Subset, FS_CardinalityType
  <2> QED BY <1>1, <1>5, <2>7, <2>9 DEF D, depth
<1>7. WalkOK'
  <2>1. IsAcyclic(body', loop') = IsAcyclic(body, loop)
    BY <1>1
  <2> QED BY <1>1, <1>2, <1>3, <1>6, <2>1 DEF WalkOK
<1>8. LoopingOK' /\ DOMAIN succ \subseteq DOMAIN succ'
  BY <1>1, <1>3, <1>7 DEF LoopingOK
<1> QED BY <1>1, <1>3, <1>8, LaterStep

LEMMA DropStep ==
  ASSUME SFInv, dropExtraSet, UNCHANGED <<N, callVars>>
  PROVE  SFInv'
<1> DEFINE m == Made
<1>1. /\ stage = "walking" /\ walk = <<>>
      /\ \/ LoopBlocks = <<>> /\ stage' = "undefined" /\ UNCHANGED <<i, LoopBlocks>>
         \/ LoopBlocks # <<>> /\ stage' = "assigning" /\ i' = 1 /\ LoopBlocks' = Front(LoopBlocks)
      /\ UNCHANGED <<source, succ, code, loop, useVars, EndBlocks, body, ExitBlock, arrays, Loops, walk, Blocks>>
      /\ UNCHANGED AnnotatedVars
  BY DEF dropExtraSet, loopVars, useVars, irVars
<1>2. Stitching(m) /\ FoundOK /\ WalkOK
  BY <1>1, StitchingNow DEF Stitching
<1>3. /\ FoundOK' /\ LoopsOK' /\ EdgesOK'
      /\ Size' = Size /\ BodyEnd' = BodyEnd
      /\ ~InSplitting /\ stage # "done"
      /\ stage' \in Stages \ {"start", "splitting", "unchanged", "crashed", "aborted"}
      /\ DOMAIN code' = DOMAIN succ'
      /\ \A a \in DOMAIN code' : code'[a] \in Seq(AllInstructions)
  <2> HIDE DEF m
  <2>1. /\ EdgesAre(succ') /\ DOMAIN succ' = DOMAIN succ /\ succ'[Entry] = succ[Entry]
        /\ \A h \in HeadersMade : succ'[h][2] = succ[h][2]
    BY <1>1, <1>2 DEF Stitching
  <2>2. 1 \in 1 .. Len(Loops) + 1
    <3>1. Len(Loops) \in Nat
      BY <1>2 DEF Stitching, Numbering
    <3> QED BY <3>1
  <2> QED BY <1>1, <1>2, <2>1, <2>2, LoopingKept
<1>4. BodyEnd # NullBlock
  BY <1>1, <1>2 DEF WalkOK
<1>5. /\ Blocks' \in Seq(2 .. Size') /\ Blocks' \in Seq(Body(loop'))
      /\ LoopBlocks \in Seq(Seq(Body(loop')) \ {<<>>})
  BY <1>1, <1>2, <1>3, <1>4 DEF WalkOK
<1>6. LoopBlocks' \in Seq(Seq(Body(loop')) \ {<<>>})
  <2> DEFINE S == Seq(Body(loop')) \ {<<>>}
  <2>1. LoopBlocks \in Seq(S)
    BY <1>5
  <2> HIDE DEF S
  <2>2. ASSUME LoopBlocks # <<>> PROVE Front(LoopBlocks) \in Seq(S)
    BY <2>1, <2>2 DEF Front
  <2>3. LoopBlocks' \in Seq(S)
    BY <1>1, <2>1, <2>2
  <2> QED BY <2>3 DEF S
<1>7. WalkOK'
  BY <1>1, <1>3, <1>4, <1>5, <1>6 DEF WalkOK
<1>8. LoopingOK' /\ DOMAIN succ \subseteq DOMAIN succ'
  BY <1>1, <1>3, <1>7 DEF LoopingOK
<1> QED BY <1>1, <1>3, <1>8, LaterStep

LEMMA FinishStep ==
  ASSUME SFInv, finish, UNCHANGED <<N, callVars>>
  PROVE  SFInv'
<1> DEFINE m == Made
<1>1. /\ stage = "assigning" /\ stage' = "done"
      /\ UNCHANGED <<source, succ, code, loop, i, useVars, EndBlocks, body, ExitBlock, arrays, Loops, walk, Blocks, LoopBlocks>>
      /\ UNCHANGED AnnotatedVars
  BY DEF finish, loopVars, useVars, irVars, walkVars
<1>2. Stitching(m) /\ FoundOK /\ WalkOK
  BY <1>1, StitchingNow DEF Stitching
<1>3. /\ FoundOK' /\ LoopsOK' /\ EdgesOK'
      /\ Size' = Size /\ BodyEnd' = BodyEnd
      /\ ~InSplitting /\ stage # "done"
      /\ stage' \in Stages \ {"start", "splitting", "unchanged", "crashed", "aborted"}
      /\ DOMAIN code' = DOMAIN succ'
      /\ \A a \in DOMAIN code' : code'[a] \in Seq(AllInstructions)
  <2> HIDE DEF m
  <2>1. /\ EdgesAre(succ') /\ DOMAIN succ' = DOMAIN succ /\ succ'[Entry] = succ[Entry]
        /\ \A h \in HeadersMade : succ'[h][2] = succ[h][2]
    BY <1>1, <1>2 DEF Stitching
  <2> QED BY <1>1, <1>2, <2>1, LoopingKept
<1>4. WalkOK'
  BY <1>1, <1>2, <1>3 DEF WalkOK
<1>5. LoopingOK' /\ DOMAIN succ \subseteq DOMAIN succ'
  BY <1>1, <1>3, <1>4 DEF LoopingOK
<1> QED BY <1>1, <1>3, <1>5, LaterStep


(* A loop gets a set of blocks: its header goes to the first one, and the  *)
(* last one to its latch.                                                  *)
LEMMA BlocksAssigned ==
  ASSUME SFInv, assignBlocks, i <= Len(LoopBlocks), NEW m, m = Made,
         NEW h, h = Loops[i].Header, NEW latch, latch = Loops[i].Latch,
         NEW first, first = Head(LoopBlocks[i]), NEW last, last = Last(LoopBlocks[i]),
         NEW t, t = [succ EXCEPT ![h][1] = first]
  PROVE  /\ Stitching(m) /\ i \in 1 .. Len(Loops) /\ Len(Loops) \in Nat /\ i' = i + 1 /\ UNCHANGED stage
         /\ first \in Body(loop) /\ last \in Body(loop)
         /\ h \in HeadersMade /\ latch \in DOMAIN succ
         /\ EdgesAre(t) /\ IsSet(succ, t, h, 1, first)
         /\ EdgesAre(succ') /\ IsSet(t, succ', last, 1, latch)
<1>1. /\ stage = "assigning" /\ i <= Len(Loops)
      /\ succ' = [t EXCEPT ![last][1] = latch] /\ i' = i + 1 /\ UNCHANGED stage
  BY DEF assignBlocks, setLoopBlocks, setSuccessor
<1>2. Stitching(m) /\ WalkOK /\ LoopsOK
  BY <1>1, StitchingNow DEF Stitching
<1>3. LoopBlocks \in Seq(Seq(Body(loop)) \ {<<>>})
  BY <1>1, <1>2 DEF WalkOK
<1>4. Separate(m) /\ EdgesAre(succ) /\ Len(Loops) \in Nat /\ DOMAIN Loops = 1 .. Len(Loops)
  BY <1>2 DEF Stitching, Numbering
<1>5. i \in 1 .. Len(Loops)
  <2>1. i \in 1 .. Len(Loops) + 1
    BY <1>1, <1>2 DEF LoopsOK
  <2> QED BY <1>1, <1>4, <2>1
<1>6. first \in Body(loop) /\ last \in Body(loop)
  <2> DEFINE B == Body(loop)
             S == Seq(B) \ {<<>>}
             list == LoopBlocks[i]
  <2>1. list \in S
    <3>1. LoopBlocks \in Seq(S)
      BY <1>3
    <3> HIDE DEF S
    <3>2. Len(LoopBlocks) \in Nat /\ DOMAIN LoopBlocks = 1 .. Len(LoopBlocks)
      BY <3>1
    <3>3. i \in DOMAIN LoopBlocks
      BY <1>4, <1>5, <3>2
    <3> QED BY <3>1, <3>3
  <2>2. first = Head(list) /\ last = Last(list)
    OBVIOUS
  <2> HIDE DEF B, list
  <2>3. Len(list) \in Nat \ {0} /\ list \in [1 .. Len(list) -> B]
    BY <2>1
  <2>4. list[1] \in B /\ list[Len(list)] \in B
    BY <2>3
  <2>5. Head(list) = list[1]
    BY <2>1
  <2> QED BY <2>2, <2>4, <2>5 DEF B, Last
<1>7. /\ first \in DOMAIN succ /\ last \in DOMAIN succ /\ latch \in DOMAIN succ /\ h \in DOMAIN succ
      /\ h \in HeadersMade /\ first \notin HeadersMade
  <2>1. i \in DOMAIN Loops
    BY <1>4, <1>5
  <2>2. /\ h \in HeadersMade /\ latch \in Inside /\ Body(loop) \subseteq Inside
        /\ Inside \cap HeadersMade = {}
    BY <1>4, <2>1 DEF Separate
  <2>3. Inside \cup HeadersMade \subseteq DOMAIN succ
    BY <1>4 DEF EdgesAre
  <2> QED BY <1>6, <2>2, <2>3
<1>8. MaySet(succ, h, 1, first)
  BY <1>7 DEF MaySet
<1>9. EdgesAre(t) /\ IsSet(succ, t, h, 1, first)
  <2> DEFINE s == succ
  <2>1. Separate(m) /\ EdgesAre(s) /\ MaySet(s, h, 1, first) /\ t = [s EXCEPT ![h][1] = first]
    BY <1>4, <1>8
  <2> HIDE DEF s
  <2>2. EdgesAre(t) /\ IsSet(s, t, h, 1, first)
    BY ONLY <2>1, EdgesStay
  <2> QED BY <2>2 DEF s
<1>10. MaySet(t, last, 1, latch)
  BY <1>6, <1>7, <1>9 DEF MaySet, IsSet
<1>11. EdgesAre(succ') /\ IsSet(t, succ', last, 1, latch)
  <2> DEFINE u == succ'
  <2>1. Separate(m) /\ EdgesAre(t) /\ MaySet(t, last, 1, latch) /\ u = [t EXCEPT ![last][1] = latch]
    BY <1>1, <1>4, <1>9, <1>10
  <2> HIDE DEF u
  <2>2. EdgesAre(u) /\ IsSet(t, u, last, 1, latch)
    BY ONLY <2>1, EdgesStay
  <2> QED BY <2>2 DEF u
<1> QED BY <1>1, <1>2, <1>4, <1>5, <1>6, <1>7, <1>9, <1>11

LEMMA AssignStep ==
  ASSUME SFInv, assignBlocks, UNCHANGED <<N, callVars>>
  PROVE  SFInv'
<1> DEFINE m == Made
           h == Loops[i].Header
           latch == Loops[i].Latch
           list == LoopBlocks[i]
           first == Head(list)
           last == Last(list)
           t == [succ EXCEPT ![h][1] = first]
<1>1. /\ stage = "assigning" /\ i <= Len(Loops)
      /\ \/ i <= Len(LoopBlocks) /\ succ' = [t EXCEPT ![last][1] = latch] /\ i' = i + 1 /\ UNCHANGED stage
         \/ stage' = "undefined" /\ UNCHANGED <<succ, i>>
      /\ UNCHANGED <<source, code, loop, useVars, EndBlocks, body, ExitBlock, arrays, Loops, walk, Blocks, LoopBlocks>>
      /\ UNCHANGED AnnotatedVars
  BY DEF assignBlocks, loopVars, useVars, walkVars, setLoopBlocks, setSuccessor
<1>2. Stitching(m) /\ FoundOK /\ WalkOK /\ LoopsOK
  BY <1>1, StitchingNow DEF Stitching
<1>3. /\ BodyEnd # NullBlock
      /\ Blocks \in Seq(2 .. Size) /\ Blocks \in Seq(Body(loop))
      /\ LoopBlocks \in Seq(Seq(Body(loop)) \ {<<>>})
  BY <1>1, <1>2 DEF WalkOK
<1>4. Separate(m) /\ EdgesAre(succ) /\ Len(Loops) \in Nat /\ DOMAIN Loops = 1 .. Len(Loops)
  BY <1>2 DEF Stitching, Numbering
<1>5. i \in 1 .. Len(Loops)
  <2>1. i \in 1 .. Len(Loops) + 1
    BY <1>1, <1>2 DEF LoopsOK
  <2> QED BY <1>1, <1>4, <2>1
<1>6. /\ EdgesAre(succ') /\ DOMAIN succ' = DOMAIN succ
      /\ \A x \in HeadersMade : succ'[x][2] = succ[x][2]
      /\ succ'[Entry] = succ[Entry]
      /\ stage' \in {"assigning", "undefined"}
      /\ i' \in 1 .. Len(Loops) + 1
  <2>1. CASE stage' = "undefined" /\ UNCHANGED <<succ, i>>
    BY <1>4, <1>5, <2>1
  <2>2. CASE i <= Len(LoopBlocks) /\ i' = i + 1
    <3>1. /\ EdgesAre(succ') /\ IsSet(succ, t, h, 1, first) /\ IsSet(t, succ', last, 1, latch)
          /\ stage' = stage
          /\ h \in HeadersMade /\ last \in Body(loop)
      BY <2>2, BlocksAssigned
    <3> HIDE DEF t, h, first, last, latch
    <3>2. DOMAIN succ' = DOMAIN succ /\ \A x \in HeadersMade : succ'[x][2] = succ[x][2]
      BY <3>1 DEF IsSet
    <3>4. succ'[Entry] = succ[Entry]
      <4>1. Entry \in DOMAIN succ /\ Entry # h /\ Entry # last
        BY <1>2, <3>1 DEF Stitching, Separate
      <4> QED BY <3>1, <4>1 DEF IsSet
    <3>3. i' \in 1 .. Len(Loops) + 1
      BY <1>4, <1>5, <2>2
    <3> QED BY <1>1, <3>1, <3>2, <3>3, <3>4
  <2> QED BY <1>1, <2>1, <2>2
<1>7. /\ FoundOK' /\ LoopsOK' /\ EdgesOK'
      /\ Size' = Size /\ BodyEnd' = BodyEnd
      /\ ~InSplitting /\ stage # "done"
      /\ stage' \in Stages \ {"start", "splitting", "unchanged", "crashed", "aborted"}
      /\ DOMAIN code' = DOMAIN succ'
      /\ \A a \in DOMAIN code' : code'[a] \in Seq(AllInstructions)
  <2> HIDE DEF m
  <2> QED BY <1>1, <1>2, <1>6, LoopingKept
<1>8. WalkOK'
  BY <1>1, <1>2, <1>3, <1>6, <1>7 DEF WalkOK
<1>9. LoopingOK' /\ DOMAIN succ \subseteq DOMAIN succ'
  BY <1>6, <1>7, <1>8 DEF LoopingOK
<1> QED BY <1>1, <1>7, <1>9, LaterStep

-----------------------------------------------------------------------------

(* A call does not change the function. *)
LEMMA PassKept ==
  ASSUME PassInv, UNCHANGED lsVars
  PROVE  /\ PassInv'
         /\ UNCHANGED <<source, succ, code, loop, stage, Loops, arrays>>
         /\ Inside' = Inside /\ HeadersMade' = HeadersMade /\ Variables' = Variables
<1>1. UNCHANGED <<source, succ, code, loop, stage, i, AnnotatedVars, VarUsePoints, EndBlocks, body,
                  ExitBlock, arrays, Loops, walk, Blocks, LoopBlocks>>
  BY DEF lsVars, irVars, useVars, loopVars, walkVars
<1>2. Variables' = Variables /\ AllInstructions' = AllInstructions /\ SplitsHeader' = SplitsHeader
  BY <1>1, SourceKept
<1>3. ListsOK' = ListsOK /\ AbortOK' = AbortOK /\ InSplitting' = InSplitting
  BY <1>1, <1>2 DEF ListsOK, AbortOK, InSplitting
<1>4. PointsOK' = PointsOK
  BY <1>1, <1>2 DEF PointsOK
<1>5. SplittingOK' = SplittingOK
  BY <1>1, <1>2, <1>4 DEF SplittingOK, KeptLoop
<1>6. Size' = Size /\ NumNewLoops' = NumNewLoops /\ BodyEnd' = BodyEnd
  BY <1>1 DEF Size, NumNewLoops, BodyEnd
<1>7. Made' = Made
  BY <1>1, <1>6 DEF Made
<1>8. Inside' = Inside /\ HeadersMade' = HeadersMade /\ PreHeadersMade' = PreHeadersMade
  BY <1>1, <1>7 DEF Inside, HeadersMade, PreHeadersMade
<1>9. FoundOK' = FoundOK
  BY <1>1, <1>6 DEF FoundOK, KeptLoop
<1>10. LoopsOK' = LoopsOK
  <2>1. \A k : Skeleton(k)' = Skeleton(k)
    BY <1>1, <1>6 DEF Skeleton
  <2> QED BY <1>1, <1>6, <1>7, <2>1 DEF LoopsOK
<1>11. EdgesOK' = EdgesOK
  <2>1. \A k : IsStitched(k)' = IsStitched(k)
    BY <1>1, <1>6 DEF IsStitched
  <2> QED BY <1>1, <1>6, <1>8, <2>1 DEF EdgesOK
<1>12. WalkOK' = WalkOK
  <2>1. \A b, depth : IsReachedIn(b, depth)' = IsReachedIn(b, depth)
    BY <1>1 DEF IsReachedIn
  <2> QED BY <1>1, <1>6, <2>1 DEF WalkOK
<1> QED BY <1>1, <1>2, <1>3, <1>5, <1>8, <1>9, <1>10, <1>11, <1>12 DEF PassInv, LoopingOK

(* What is known of the function that is called. *)
LEMMA SplitCode ==
  ASSUME PassInv, stage = "done"
  PROVE  /\ \A b \in DOMAIN succ : succ[b] \in Seq(DOMAIN succ \cup {NullBlock})
         /\ Entry \in DOMAIN succ \ (Inside \cup HeadersMade)
         /\ Inside \cap HeadersMade = {}
         /\ HeadersMade = {Loops[k].Header : k \in DOMAIN Loops}
         /\ \A h \in HeadersMade : DOMAIN succ[h] = {1, 2} /\ succ[h][2] \notin Inside
         /\ \A k \in DOMAIN Loops : /\ Loops[k].Header \in HeadersMade
                                    /\ Loops[k].Latch \in Inside
                                    /\ succ[Loops[k].Latch] = <<Loops[k].Header>>
         /\ \A b \in DOMAIN succ \ (Inside \cup HeadersMade) : SuccessorsOf(succ, b) \cap Inside = {}
         /\ Body(loop) \subseteq Inside
         /\ DOMAIN code = DOMAIN succ
         /\ NullBlock \notin UNION {SuccessorsOf(succ, b) : b \in DOMAIN succ} =>
              \A b \in DOMAIN succ \ (Inside \cup {Loops[k].PreHeader : k \in DOMAIN Loops}) :
                SuccessorsOf(succ, b) \cap HeadersMade = {}
         /\ 1 \in DOMAIN succ[Entry] => succ[Entry][1] = Loops[1].PreHeader
         /\ 1 \in DOMAIN Loops
         /\ Loops[1].PreHeader \in DOMAIN code /\ code[Loops[1].PreHeader] = <<>>
<1>1. FoundOK /\ LoopsOK /\ EdgesOK /\ WalkOK /\ DOMAIN code = DOMAIN succ
  BY DEF PassInv, InSplitting, LoopingOK
<1>2. Numbering(Made) /\ Separate(Made) /\ EdgesAre(succ)
  BY <1>1, BlocksAreNumbered, BlocksAreSeparate, EdgesNow
<1>3. DOMAIN body \subseteq DOMAIN succ /\ Entry \in DOMAIN body /\ Entry \notin Inside \cup HeadersMade
  BY <1>2, BodyIsThere
<1>4. \A b \in DOMAIN succ : succ[b] \in Seq(DOMAIN succ \cup {NullBlock})
  BY <1>1 DEF EdgesOK
<1>5. /\ HeadersMade = {Loops[k].Header : k \in DOMAIN Loops}
      /\ PreHeadersMade = {Loops[k].PreHeader : k \in DOMAIN Loops}
  <2> DEFINE c == NumNewLoops
             k == NumNewLoops + 1
  <2>1. c \in Nat /\ DOMAIN Loops = 1 .. Len(Loops) /\ Len(Loops) = c + 1
    BY <1>1, <1>2 DEF FoundOK, LoopsOK, Numbering
  <2>2. k \in DOMAIN Loops /\ k > NumNewLoops
    <3>1. k = c + 1
      OBVIOUS
    <3> HIDE DEF c, k
    <3>2. k \in DOMAIN Loops /\ k > c
      BY <2>1, <3>1
    <3> QED BY <3>2 DEF c
  <2>3. Loops[k].Header = loop.Header /\ Loops[k].PreHeader = loop.PreHeader
    <3>1. Loops[k] = Skeleton(k)
      BY <1>1, <2>2 DEF LoopsOK
    <3> QED BY <2>2, <3>1 DEF Skeleton, extractLoopSkeleton
  <2> HIDE DEF k
  <2> QED BY <2>2, <2>3 DEF HeadersMade, PreHeadersMade
<1>6. ASSUME NEW h \in HeadersMade PROVE DOMAIN succ[h] = {1, 2} /\ succ[h][2] \notin Inside
  <2> DEFINE D == DOMAIN succ \cup {NullBlock}
  <2>1. succ[h] \in Seq(D) /\ Len(succ[h]) = 2
    BY <1>2, <1>6 DEF EdgesAre
  <2> HIDE DEF D
  <2>2. DOMAIN succ[h] = 1 .. 2
    BY <2>1
  <2>3. succ[h][2] \notin Inside
    <3>1. PICK k \in DOMAIN Loops : h = Loops[k].Header
      BY <1>5, <1>6
    <3>2. IsStitched(k)
      BY DEF IsStitched
    <3> QED BY <1>1, <3>1, <3>2 DEF EdgesOK
  <2> QED BY <2>2, <2>3
<1>7. /\ Inside \cap HeadersMade = {}
      /\ \A k \in DOMAIN Loops : Loops[k].Header \in HeadersMade /\ Loops[k].Latch \in Inside
      /\ Body(loop) \subseteq Inside
  BY <1>2 DEF Separate
<1>8. /\ \A k \in DOMAIN Loops : succ[Loops[k].Latch] = <<Loops[k].Header>>
      /\ \A b \in DOMAIN succ \ (Inside \cup HeadersMade) : SuccessorsOf(succ, b) \cap Inside = {}
  BY <1>2 DEF EdgesAre
<1>9. /\ 1 \in DOMAIN Loops /\ 1 \in 1 .. Made /\ NumNewLoops \in DOMAIN Loops
      /\ DOMAIN succ = 1 .. Size + 4 * Made /\ Size \in Nat /\ Made \in Nat
  <2> DEFINE c == NumNewLoops
             m == Made
  <2>1. /\ c \in Nat \ {0} /\ Len(Loops) = c + 1 /\ DOMAIN Loops = 1 .. Len(Loops) /\ m = c
        /\ DOMAIN succ = 1 .. Size + 4 * m /\ Size \in Nat
    BY <1>1, <1>2 DEF Numbering, LoopsOK
  <2> HIDE DEF c, m
  <2>2. c \in 1 .. c + 1 /\ 1 \in 1 .. c + 1 /\ 1 \in 1 .. c
    BY <2>1
  <2> QED BY <2>1, <2>2 DEF c, m
<1>10. ASSUME NullBlock \notin UNION {SuccessorsOf(succ, b) : b \in DOMAIN succ},
              NEW b \in DOMAIN succ \ (Inside \cup {Loops[k].PreHeader : k \in DOMAIN Loops})
       PROVE  SuccessorsOf(succ, b) \cap HeadersMade = {}
  <2> DEFINE h == Loops[NumNewLoops].Header
  <2>1. h \in HeadersMade /\ h \in DOMAIN succ
    BY <1>2, <1>9 DEF Separate, EdgesAre
  <2>2. succ[h][2] = loop.PreHeader
    BY <1>1 DEF EdgesOK, IsStitched
  <2>3. succ[h][2] \in SuccessorsOf(succ, h)
    BY <1>6, <2>1 DEF SuccessorsOf
  <2> HIDE DEF h
  <2>4. loop.PreHeader # NullBlock
    BY <1>10, <2>1, <2>2, <2>3
  <2> QED BY <1>2, <1>5, <1>10, <2>4 DEF EdgesAre
<1>11. 1 \in DOMAIN succ[Entry] => succ[Entry][1] = Loops[1].PreHeader
  BY <1>1 DEF EdgesOK
<1>12. Loops[1].PreHeader \in DOMAIN code /\ code[Loops[1].PreHeader] = <<>>
  <2> DEFINE n == Size
             m == Made
             p == Loops[1].PreHeader
  <2>1. p = n + 4 * 1 - 3
    BY <1>2, <1>9, NewLoopIs
  <2>2. n \in Nat /\ m \in Nat /\ 1 \in 1 .. m /\ DOMAIN succ = 1 .. n + 4 * m
    BY <1>9
  <2>3. \A b \in DOMAIN code : b > n => code[b] = <<>>
    BY <1>1 DEF LoopsOK
  <2> HIDE DEF n, m, p
  <2>4. p \in 1 .. n + 4 * m /\ p > n
    BY <2>1, <2>2
  <2> QED BY <1>1, <2>2, <2>3, <2>4 DEF p
<1> QED BY <1>1, <1>3, <1>4, <1>5, <1>6, <1>7, <1>8, <1>9, <1>10, <1>11, <1>12

(* What is known of a call. *)
LEMMA CallNow ==
  ASSUME SFInv, status = "running", UNCHANGED <<lsVars, N>>
  PROVE  /\ PassInv' /\ PassInv /\ stage = "done" /\ CallInv
         /\ UNCHANGED <<source, succ, code, loop, stage, Loops, arrays, N>>
         /\ Inside' = Inside /\ HeadersMade' = HeadersMade /\ Variables' = Variables
         /\ at \in DOMAIN succ
         /\ \A b \in DOMAIN succ : NullBlock \notin SuccessorsOf(succ, b)
         /\ at \in Inside => idx \in 0 .. N - 1
         /\ at \in HeadersMade => idx \in 0 .. N
         /\ idx \in 0 .. N \/ at \in {Entry, Loops[1].PreHeader} \/ Len(succ[Entry]) > 1
         /\ idx \in IndexValues \cup 0 .. N /\ N \in Nat
         /\ SuccessorsOf(succ, at) \subseteq DOMAIN succ
<1>1. PassInv /\ CallInv
  BY DEF SFInv
<1>2. /\ stage = "done" /\ at \in DOMAIN succ
      /\ \A b \in DOMAIN succ : NullBlock \notin SuccessorsOf(succ, b)
      /\ at \in Inside => idx \in 0 .. N - 1
      /\ at \in HeadersMade => idx \in 0 .. N
      /\ idx \in 0 .. N \/ at \in {Entry, Loops[1].PreHeader} \/ Len(succ[Entry]) > 1
      /\ idx \in IndexValues \cup 0 .. N /\ N \in Nat
  BY <1>1 DEF CallInv
<1>3. ASSUME NEW k \in DOMAIN succ[at] PROVE succ[at][k] \in DOMAIN succ
  <2> DEFINE D == DOMAIN succ \cup {NullBlock}
  <2>1. succ[at] \in Seq(D)
    BY <1>1, <1>2, SplitCode
  <2> HIDE DEF D
  <2>2. succ[at][k] \in D
    BY <1>3, <2>1
  <2>3. succ[at][k] # NullBlock
    BY <1>2, <1>3 DEF SuccessorsOf
  <2> QED BY <2>2, <2>3 DEF D
<1>4. SuccessorsOf(succ, at) \subseteq DOMAIN succ
  BY <1>3 DEF SuccessorsOf
<1> QED BY <1>1, <1>2, <1>4, PassKept

LEMMA CallStep ==
  ASSUME SFInv, Call
  PROVE  SFInv'
<1>1. /\ stage = "done" /\ status' = "running" /\ at' = Entry
      /\ \A b \in DOMAIN succ : NullBlock \notin SuccessorsOf(succ, b)
      /\ idx' \in IndexValues
      /\ UNCHANGED <<lsVars, N, mem, foreign, pos>>
  BY DEF Call
<1>2. PassInv /\ CallInv
  BY DEF SFInv
<1>3. /\ PassInv' /\ UNCHANGED <<source, succ, code, loop, stage, Loops>>
      /\ Inside' = Inside /\ HeadersMade' = HeadersMade /\ Variables' = Variables
  BY <1>1, <1>2, PassKept
<1>4. Entry \in DOMAIN succ \ (Inside \cup HeadersMade)
  BY <1>1, <1>2, SplitCode
<1>5. at' = Entry /\ at' \in DOMAIN succ' /\ at' \notin Inside' /\ at' \notin HeadersMade'
  BY <1>1, <1>3, <1>4
<1>6. CallInv'
  BY <1>1, <1>2, <1>3, <1>5 DEF CallInv
<1> QED BY <1>3, <1>6 DEF SFInv

LEMMA HeaderStep ==
  ASSUME SFInv, RunHeader
  PROVE  SFInv'
<1>1. /\ status = "running" /\ \E k \in DOMAIN Loops : at = Loops[k].Header
      /\ at' = IF idx < N THEN succ[at][1] ELSE succ[at][2]
      /\ UNCHANGED <<lsVars, N, idx, mem, foreign, pos, status>>
  BY DEF RunHeader, IsIn, RunsBody
<1>2. /\ PassInv' /\ PassInv /\ stage = "done" /\ CallInv /\ N \in Nat
      /\ UNCHANGED <<source, succ, code, loop, stage, Loops, N>>
      /\ Inside' = Inside /\ HeadersMade' = HeadersMade /\ Variables' = Variables
      /\ at \in HeadersMade => idx \in 0 .. N
      /\ SuccessorsOf(succ, at) \subseteq DOMAIN succ
  BY <1>1, CallNow
<1>3. at \in HeadersMade
  BY <1>1, <1>2, SplitCode
<1>4. DOMAIN succ[at] = {1, 2} /\ succ[at][2] \notin Inside
  BY <1>2, <1>3, SplitCode
<1>5. at' \in DOMAIN succ'
  <2>1. succ[at][1] \in SuccessorsOf(succ, at) /\ succ[at][2] \in SuccessorsOf(succ, at)
    BY <1>4 DEF SuccessorsOf
  <2> QED BY <1>1, <1>2, <2>1
<1>6. idx' \in 0 .. N' /\ (at' \in Inside' => idx' \in 0 .. N' - 1)
  BY <1>1, <1>2, <1>3, <1>4
<1>7. CallInv'
  BY <1>1, <1>2, <1>5, <1>6 DEF CallInv
<1> QED BY <1>2, <1>7 DEF SFInv

LEMMA LatchStep ==
  ASSUME SFInv, RunLatch
  PROVE  SFInv'
<1>1. /\ status = "running" /\ idx' = idx + 1 /\ at' = succ[at][1]
      /\ UNCHANGED <<lsVars, N, mem, foreign, pos, status>>
  BY DEF RunLatch, IsIn
<1>2. PICK k \in DOMAIN Loops : at = Loops[k].Latch
  BY DEF RunLatch, IsIn
<1>3. /\ PassInv' /\ PassInv /\ stage = "done" /\ CallInv /\ N \in Nat
      /\ UNCHANGED <<source, succ, code, loop, stage, Loops, N>>
      /\ Inside' = Inside /\ HeadersMade' = HeadersMade /\ Variables' = Variables
      /\ at \in Inside => idx \in 0 .. N - 1
      /\ SuccessorsOf(succ, at) \subseteq DOMAIN succ
  BY <1>1, CallNow
<1>4. /\ at \in Inside /\ Loops[k].Header \in HeadersMade /\ succ[at] = <<Loops[k].Header>>
      /\ Inside \cap HeadersMade = {}
  BY <1>2, <1>3, SplitCode
<1>5. at' = Loops[k].Header /\ at' \in SuccessorsOf(succ, at)
  <2>1. 1 \in DOMAIN succ[at] /\ succ[at][1] = Loops[k].Header
    BY <1>4
  <2> QED BY <1>1, <2>1 DEF SuccessorsOf
<1>6. at' \in DOMAIN succ' /\ at' \notin Inside'
  BY <1>3, <1>4, <1>5
<1>7. idx' \in 0 .. N'
  BY <1>1, <1>3, <1>4
<1>8. CallInv'
  BY <1>1, <1>3, <1>6, <1>7 DEF CallInv
<1> QED BY <1>3, <1>8 DEF SFInv

(* What a block reads is a variable of the source. *)
LEMMA ReadsVariables ==
  ASSUME PassInv, NEW b \in DOMAIN code
  PROVE  ReadFirstIn(code, b) \subseteq Variables
<1> SUFFICES ASSUME NEW v \in ReadFirstIn(code, b) PROVE v \in Variables
  OBVIOUS
<1>1. PICK k \in DOMAIN code[b] : code[b][k] \in {<<"read", v>>, <<"deref", v>>, <<"point", v>>}
  BY DEF ReadFirstIn
<1> DEFINE I == AllInstructions
<1>2. code[b][k] \in I
  <2>1. code[b] \in Seq(I)
    BY DEF PassInv
  <2> HIDE DEF I
  <2> QED BY <2>1
<1>3. code[b][k][1] \in {"read", "deref", "point"} /\ code[b][k][2] = v
  BY <1>1
<1> DEFINE inst == code[b][k]
<1>4. inst \in I /\ inst[1] \in {"read", "deref", "point"} /\ inst[2] = v
  BY <1>2, <1>3
<1> HIDE DEF inst
<1> QED BY <1>4 DEF AllInstructions

LEMMA BlockStep ==
  ASSUME SFInv, RunBlock
  PROVE  SFInv'
<1>1. /\ status = "running" /\ ~IsIn("Header")
      /\ at' \in SuccessorsOf(succ, at)
      /\ idx' = IF IsIn("PreHeader") THEN 0 ELSE idx
      /\ pos' \in {pos, [pos EXCEPT ![idx] = at]}
      /\ foreign' \subseteq foreign \cup ReadFirstIn(code, at)
      /\ UNCHANGED <<lsVars, N, status>>
  BY DEF RunBlock
<1>2. /\ PassInv' /\ PassInv /\ stage = "done" /\ CallInv
      /\ UNCHANGED <<source, succ, code, loop, stage, Loops, N>>
      /\ Inside' = Inside /\ HeadersMade' = HeadersMade /\ Variables' = Variables
      /\ at \in DOMAIN succ
      /\ at \in Inside => idx \in 0 .. N - 1
      /\ idx \in 0 .. N \/ at \in {Entry, Loops[1].PreHeader} \/ Len(succ[Entry]) > 1
      /\ idx \in IndexValues \cup 0 .. N /\ N \in Nat
      /\ \A b \in DOMAIN succ : NullBlock \notin SuccessorsOf(succ, b)
      /\ SuccessorsOf(succ, at) \subseteq DOMAIN succ
  BY <1>1, CallNow
<1>3. at \notin HeadersMade
  <2>1. HeadersMade = {Loops[k].Header : k \in DOMAIN Loops}
    BY <1>2, SplitCode
  <2> QED BY <1>1, <2>1 DEF IsIn
<1>4. at' \in Inside => at \in Inside
  <2>1. at \notin Inside => SuccessorsOf(succ, at) \cap Inside = {}
    BY <1>2, <1>3, SplitCode
  <2> QED BY <1>1, <2>1
<1>9. at \in {Loops[k].PreHeader : k \in DOMAIN Loops} => idx' = 0
  BY <1>1 DEF IsIn
<1>10. idx' \in {idx, 0} /\ 0 \in 0 .. N /\ (N > 0 => 0 \in 0 .. N - 1)
  BY <1>1, <1>2
<1>5. at' \in Inside' => idx' \in 0 .. N' - 1
  <2> SUFFICES ASSUME at' \in Inside PROVE idx' \in 0 .. N - 1
    BY <1>2
  <2>1. idx \in 0 .. N - 1
    BY <1>2, <1>4
  <2> QED BY <1>2, <1>10, <2>1
<1>11. at' \in HeadersMade' => idx' \in 0 .. N'
  <2> SUFFICES ASSUME at' \in HeadersMade PROVE idx' \in 0 .. N
    BY <1>2
  <2>1. CASE at \in Inside
    BY <1>2, <1>10, <2>1
  <2>2. CASE at \in {Loops[k].PreHeader : k \in DOMAIN Loops}
    BY <1>9, <1>10, <2>2
  <2>3. CASE at \notin Inside \cup {Loops[k].PreHeader : k \in DOMAIN Loops}
    <3>1. NullBlock \notin UNION {SuccessorsOf(succ, b) : b \in DOMAIN succ}
      BY <1>2
    <3>2. SuccessorsOf(succ, at) \cap HeadersMade = {}
      BY <1>2, <2>3, <3>1, SplitCode
    <3> QED BY <1>1, <3>2
  <2> QED BY <2>1, <2>2, <2>3
<1>12. idx' \in 0 .. N' \/ at' \in {Entry, Loops'[1].PreHeader} \/ Len(succ'[Entry]) > 1
  <2> SUFFICES ASSUME ~(Len(succ[Entry]) > 1), idx' \notin 0 .. N PROVE at' = Loops[1].PreHeader
    BY <1>2
  <2>1. idx \notin 0 .. N
    BY <1>10
  <2>2. at # Loops[1].PreHeader
    BY <1>2, <1>9, <1>10, SplitCode
  <2>3. at = Entry
    BY <1>2, <2>1, <2>2
  <2>4. PICK k \in DOMAIN succ[Entry] : at' = succ[Entry][k]
    BY <1>1, <2>3 DEF SuccessorsOf
  <2>5. k = 1
    <3> DEFINE D == DOMAIN succ \cup {NullBlock}
               list == succ[Entry]
    <3>1. list \in Seq(D)
      BY <1>2, SplitCode
    <3>2. ~(Len(list) > 1) /\ k \in DOMAIN list
      OBVIOUS
    <3> HIDE DEF D, list
    <3> QED BY <3>1, <3>2
  <2> QED BY <1>2, <2>4, <2>5, SplitCode
<1>13. idx' \in IndexValues \cup 0 .. N'
  BY <1>2, <1>10
<1>6. foreign' \subseteq Variables'
  <2>1. at \in DOMAIN code
    BY <1>2, SplitCode
  <2> QED BY <1>1, <1>2, <2>1, ReadsVariables DEF CallInv
<1>7. pos' \in [0 .. N' - 1 -> DOMAIN succ' \cup {NotStarted}]
  BY <1>1, <1>2 DEF CallInv
<1>8. CallInv'
  BY <1>1, <1>2, <1>5, <1>6, <1>7, <1>11, <1>12, <1>13 DEF CallInv
<1> QED BY <1>2, <1>8 DEF SFInv

LEMMA EndSteps ==
  ASSUME SFInv, Overrun \/ Return
  PROVE  SFInv'
<1>1. /\ status = "running"
      /\ status' = "returned" \/ (status' = "overrun" /\ IsOverrun)
      /\ UNCHANGED <<lsVars, N, at, idx, mem, foreign, pos>>
  BY DEF Overrun, Return
<1>2. /\ PassInv' /\ CallInv /\ stage = "done"
      /\ Inside' = Inside /\ HeadersMade' = HeadersMade /\ Variables' = Variables
      /\ UNCHANGED <<source, succ, code, loop, stage, Loops, arrays, N>>
  BY <1>1, CallNow
<1>3. IsOverrun' = IsOverrun
  BY <1>1, <1>2 DEF IsOverrun, Touched
<1>4. CallInv'
  BY <1>1, <1>2, <1>3 DEF CallInv
<1> QED BY <1>2, <1>4 DEF SFInv

-----------------------------------------------------------------------------

LEMMA InvStep ==
  SFInv /\ [SFNext]_sfVars => SFInv'
<1> SUFFICES ASSUME SFInv, [SFNext]_sfVars PROVE SFInv'
  OBVIOUS
<1>1. CASE Split
  <2>1. LSNext /\ UNCHANGED <<N, callVars>>
    BY <1>1 DEF Split
  <2>2. CASE detect
    BY <2>1, <2>2, DetectStep
  <2>3. CASE splitAtUse
    BY <2>1, <2>3, SplitStep
  <2>4. CASE findLoop
    BY <2>1, <2>4, FindStep
  <2>5. CASE addLoop
    BY <2>1, <2>5, AddLoopStep
  <2>6. CASE addParentLoop
    BY <2>1, <2>6, AddParentStep
  <2>7. CASE stitchLoop
    BY <2>1, <2>7, StitchStep
  <2>8. CASE stitchLastLoop
    BY <2>1, <2>8, StitchLastStep
  <2>9. CASE traverseLoopBody
    BY <2>1, <2>9, TraverseStep
  <2>10. CASE overflowStack
    BY <2>1, <2>10, OverflowStep
  <2>11. CASE dropExtraSet
    BY <2>1, <2>11, DropStep
  <2>12. CASE assignBlocks
    BY <2>1, <2>12, AssignStep
  <2>13. CASE finish
    BY <2>1, <2>13, FinishStep
  <2> QED BY <2>1, <2>2, <2>3, <2>4, <2>5, <2>6, <2>7, <2>8, <2>9, <2>10, <2>11, <2>12, <2>13 DEF LSNext
<1>2. CASE Call
  BY <1>2, CallStep
<1>3. CASE RunHeader
  BY <1>3, HeaderStep
<1>4. CASE RunLatch
  BY <1>4, LatchStep
<1>5. CASE RunBlock
  BY <1>5, BlockStep
<1>6. CASE Overrun \/ Return
  BY <1>6, EndSteps
<1>7. CASE UNCHANGED sfVars
  <2>1. UNCHANGED <<lsVars, N, at, idx, mem, foreign, pos, status>>
    BY <1>7 DEF sfVars, callVars
  <2>2. PassInv /\ CallInv
    BY DEF SFInv
  <2>3. /\ PassInv' /\ Inside' = Inside /\ HeadersMade' = HeadersMade /\ Variables' = Variables
        /\ UNCHANGED <<source, succ, code, loop, stage, Loops, arrays>>
    BY <2>1, <2>2, PassKept
  <2>5. IsOverrun' = IsOverrun
    BY <2>1, <2>3 DEF IsOverrun, Touched
  <2>4. CallInv'
    BY <2>1, <2>2, <2>3, <2>5 DEF CallInv
  <2> QED BY <2>3, <2>4 DEF SFInv
<1> QED BY <1>1, <1>2, <1>3, <1>4, <1>5, <1>6, <1>7 DEF SFNext

(* The code that is made, and a call of it, are at all times as SFInv      *)
(* says.                                                                   *)
THEOREM InvAlways == SFSpec => []SFInv
<1>1. SFInit => SFInv
  BY InitOK
<1>2. SFInv /\ [SFNext]_sfVars => SFInv'
  BY InvStep
<1> QED BY <1>1, <1>2, PTL DEF SFSpec

(* Blocks and variables that the pass notes are those of the function, and *)
(* control stays in it: in any code that the pass has made, of any size,   *)
(* for any batch.                                                          *)
THEOREM SplitTypes == SFSpec => []SFTypeOK
<1>1. SFInv => SFTypeOK
  <2> SUFFICES ASSUME SFInv PROVE SFTypeOK
    OBVIOUS
  <2>1. PassInv /\ CallInv /\ ListsOK
    BY DEF SFInv, PassInv
  <2>2. /\ \A b \in DOMAIN succ : SuccessorsOf(succ, b) \subseteq DOMAIN succ \cup {NullBlock}
        /\ loop.Blocks \subseteq DOMAIN succ
        /\ Range(Blocks) \subseteq DOMAIN succ
    <3>1. CASE InSplitting
      <4> DEFINE n == Cardinality(DOMAIN succ)
      <4>1. IsNumbered(succ, n) /\ loop.Blocks \subseteq DOMAIN succ /\ Blocks = <<>>
        BY <2>1, <3>1 DEF PassInv, SplittingOK
      <4> HIDE DEF n
      <4>2. ASSUME NEW b \in DOMAIN succ PROVE SuccessorsOf(succ, b) \subseteq DOMAIN succ
        <5>1. SuccessorsOf(succ, b) \subseteq 2 .. n
          BY <4>1, NumberedSuccessors
        <5>2. DOMAIN succ = 1 .. n /\ 2 .. n \subseteq 1 .. n
          BY <4>1 DEF IsNumbered
        <5> QED BY <5>1, <5>2
      <4>3. Range(Blocks) = {}
        BY <4>1 DEF Range
      <4> QED BY <4>1, <4>2, <4>3
    <3>2. CASE ~InSplitting
      <4>1. FoundOK /\ LoopsOK /\ EdgesOK /\ WalkOK
        BY <2>1, <3>2 DEF PassInv, LoopingOK
      <4>2. Numbering(Made) /\ Separate(Made) /\ EdgesAre(succ)
        BY <4>1, BlocksAreNumbered, BlocksAreSeparate, EdgesNow
      <4>3. DOMAIN body \subseteq DOMAIN succ /\ DOMAIN body = 1 .. Size /\ Size \in Nat
        BY <4>2, BodyIsThere DEF Numbering
      <4>4. loop.Blocks \subseteq DOMAIN succ
        BY <4>1, <4>3 DEF FoundOK, KeptLoop, IsLoop
      <4>5. ASSUME NEW b \in DOMAIN succ PROVE SuccessorsOf(succ, b) \subseteq DOMAIN succ \cup {NullBlock}
        <5> DEFINE D == DOMAIN succ \cup {NullBlock}
        <5>1. succ[b] \in Seq(D)
          BY <4>2 DEF EdgesAre
        <5> HIDE DEF D
        <5>2. \A k \in DOMAIN succ[b] : succ[b][k] \in D
          BY <5>1
        <5> QED BY <5>2 DEF D, SuccessorsOf
      <4>6. Range(Blocks) \subseteq DOMAIN succ
        <5> DEFINE n == Size
                   R == 2 .. n
        <5>1. Blocks \in Seq(R)
          BY <4>1 DEF WalkOK
        <5>2. R \subseteq DOMAIN succ
          <6>1. R \subseteq 1 .. n
            BY <4>3
          <6> QED BY <4>3, <6>1
        <5> HIDE DEF R
        <5>3. \A k \in DOMAIN Blocks : Blocks[k] \in R
          BY <5>1
        <5> QED BY <5>2, <5>3 DEF Range
      <4> QED BY <4>4, <4>5, <4>6
    <3> QED BY <3>1, <3>2
  <2>3. status # "idle" => at \in DOMAIN succ
    BY <2>1 DEF CallInv
  <2> QED BY <2>1, <2>2, <2>3 DEF PassInv, ListsOK, CallInv, Stages, SFTypeOK
<1> QED BY <1>1, InvAlways, PTL

(* An array is overrun only by a batch that is larger or, outside of the   *)
(* loops, by one as large or if the entry block has another way on.        *)
(* Control comes into a loop of the split function only by the true edge   *)
(* of its header, and to a header from outside only from a preheader, so   *)
(* that the index is set and below the size there.  The entry block goes   *)
(* to the first preheader, which uses no array.                            *)
THEOREM ArraysAreKept == SFSpec => []StaysInArrays
<1>1. SFInv => StaysInArrays
  <2> SUFFICES ASSUME SFInv, status = "overrun"
               PROVE  N > ArrayPlaces \/ (~InBody /\ (N = ArrayPlaces \/ Len(succ[Entry]) > 1))
    BY DEF StaysInArrays
  <2>1. PassInv /\ CallInv
    BY DEF SFInv
  <2>2. /\ stage = "done" /\ IsOverrun
        /\ at \in Inside => idx \in 0 .. N - 1
        /\ idx \in 0 .. N \/ at \in {Entry, Loops[1].PreHeader} \/ Len(succ[Entry]) > 1
    BY <2>1 DEF CallInv
  <2>3. N \in Nat /\ ArrayPlaces \in Nat
    BY <2>1, SizeAssumption DEF CallInv
  <2>4. InBody => at \in Inside
    BY <2>1, <2>2, SplitCode DEF InBody, Body
  <2>5. at # Entry /\ idx \notin 0 .. ArrayPlaces - 1 /\ Touched(at) # {}
    BY <2>2 DEF IsOverrun
  <2>6. at # Loops[1].PreHeader
    <3>1. code[Loops[1].PreHeader] = <<>>
      BY <2>1, <2>2, SplitCode
    <3> QED BY <2>5, <3>1 DEF Touched
  <2>7. CASE idx \in 0 .. N
    <3>1. idx >= ArrayPlaces
      BY <2>3, <2>5, <2>7
    <3> QED BY <2>2, <2>3, <2>4, <2>7, <3>1
  <2>8. CASE idx \notin 0 .. N
    <3>1. at \notin Inside
      BY <2>2, <2>3, <2>8
    <3> QED BY <2>2, <2>4, <2>5, <2>6, <2>8, <3>1
  <2> QED BY <2>7, <2>8
<1> QED BY <1>1, InvAlways, PTL

(* The walk through the body is endless only if there is a cycle in it, or *)
(* if several ways come into the latch, and an assertion stops the pass    *)
(* only for a loop with several exits, a use that starts a block, also     *)
(* because it was split off before, and a use that splits the header: cuts *)
(* that have been made do not bring any of these about.                    *)
THEOREM FailuresHaveCauses == SFSpec => []FailureHasCause
<1>1. SFInv => FailureHasCause
  <2> SUFFICES ASSUME SFInv PROVE FailureHasCause
    OBVIOUS
  <2>1. PassInv /\ AbortOK
    BY DEF SFInv, PassInv
  <2>2. stage = "overflowed" => ~HasOneEnd(source) \/ ~HasAcyclicBody(source)
    <3> SUFFICES ASSUME stage = "overflowed", HasOneEnd(source), HasAcyclicBody(source) PROVE FALSE
      OBVIOUS
    <3>1. FoundOK /\ WalkOK
      BY <2>1 DEF PassInv, InSplitting, LoopingOK
    <3>2. HasEnd(body, loop) /\ IsAcyclic(body, loop)
      BY <3>1 DEF FoundOK, KeptLoop
    <3> DEFINE n == Size
               L == loop
    <3>3. IsNumbered(body, n) /\ HasEnd(body, L) /\ BodyEnd = BodyEndOf(body, L)
      BY <3>1, <3>2 DEF FoundOK
    <3> HIDE DEF n, L
    <3>4. BodyEnd # NullBlock
      BY <3>3, EndOf
    <3> QED BY <3>1, <3>2, <3>4 DEF WalkOK
  <2> QED BY <2>1, <2>2 DEF AbortOK, FailureHasCause
<1> QED BY <1>1, InvAlways, PTL

-----------------------------------------------------------------------------

(* Control comes to all blocks of the body. *)
IsConnected(s, L) ==
  \A S \in SUBSET Body(L) :
    BodyBegin(s, L) \in S /\ (\A b \in S : SuccessorsOf(s, b) \cap Body(L) \subseteq S) => S = Body(L)

(* The blocks of the body that go on in several ways. *)
Branches(s, L) == {b \in Body(L) : Len(s[b]) > 1}

(* Where the use points of the j-th variable are. *)
Points(j) == Places(code, <<"point", VarUsePoints[j]>>)

(* While a supported function is split: each use point is in a block of    *)
(* the body that was not cut yet, has something before it, and comes later *)
(* than those which are taken before it.  A cut block goes to its rest.    *)
CutsOK ==
  /\ Len(VarUsePoints) = Len(AnnotatedVars)
  /\ Len(EndBlocks) = i - 1
  /\ NoDuplicates(EndBlocks)
  /\ \A b \in Range(EndBlocks) : b \in Body(loop) /\ loop.Latch \notin SuccessorsOf(succ, b)
  /\ \A j \in i .. Len(VarUsePoints) : \A p \in Points(j) :
       p[1] \in Body(loop) \ Range(EndBlocks) /\ p[2] > 1
  /\ \A j \in i .. Len(VarUsePoints) : \A k \in j + 1 .. Len(VarUsePoints) :
       \A p \in Points(j) : \A q \in Points(k) : p[1] = q[1] => p[2] < q[2]
  /\ Branches(succ, loop) # {}
  /\ IsConnected(succ, loop)

(* The blocks that were cut; the end of the body is listed with them. *)
Cuts == Range(EndBlocks) \ {BodyEnd}

(* Once the loop is found: each loop that will be made has a cut of its    *)
(* own.                                                                    *)
CutsMade ==
  /\ BodyEnd # NullBlock
  /\ Cuts \subseteq Body(loop)
  /\ Cardinality(Cuts) = NumNewLoops
  /\ Branches(body, loop) # {}
  /\ IsConnected(body, loop)

Pending == {walk[k][1] : k \in DOMAIN walk}

(* The blocks that have been visited, and those the walk will come to from *)
(* the pending calls: each cut that was visited has ended a set of blocks, *)
(* and each pending call will end one more, two of them after a branch.    *)
IsVisited(D) ==
  /\ BodyBegin(body, loop) \in D \cup Pending
  /\ \A b \in D \ {BodyEnd} : SuccessorsOf(body, b) \subseteq D \cup Pending
  /\ Len(LoopBlocks) + Len(walk)
       >= Cardinality(D \cap Cuts) + (IF D \cap Branches(body, loop) = {} THEN 1 ELSE 2)

(* A supported function goes through all stages without a failure.         *)
SplitInv ==
  source \in Supported =>
    /\ stage \notin {"unchanged", "aborted", "crashed", "overflowed", "undefined"}
    /\ stage = "start" => EndBlocks = <<>>
    /\ stage = "splitting" => CutsOK
    /\ ~InSplitting => CutsMade
    /\ stage = "walking" => \E D \in SUBSET Body(loop) : IsVisited(D)
    /\ stage = "assigning" => Len(LoopBlocks) >= NumNewLoops + 1

-----------------------------------------------------------------------------

(* A loop that is cut in its body has its branches and its connections, at *)
(* the rest of the block that is cut.                                      *)
LEMMA SplitConnected ==
  ASSUME NEW s, NEW t, NEW b, NEW new, IsSplit(s, t, b, new),
         NEW L, IsLoop(s, L), b \in Body(L)
  PROVE  /\ Body(LoopAfter(L, b, new)) = Body(L) \cup {new} /\ new \notin Body(L)
         /\ IsConnected(s, L) => IsConnected(t, LoopAfter(L, b, new))
         /\ Branches(s, L) # {} => Branches(t, LoopAfter(L, b, new)) # {}
<1> DEFINE M == LoopAfter(L, b, new)
<1>0. SplitsInto(s, t, b, new)
  BY SplitEdges
<1>1. /\ new \notin DOMAIN s /\ b \in DOMAIN s
      /\ SuccessorsOf(t, b) = {new}
      /\ SuccessorsOf(t, new) = SuccessorsOf(s, b)
      /\ \A a \in DOMAIN s \ {b} : SuccessorsOf(t, a) = SuccessorsOf(s, a)
      /\ t[new] = s[b] /\ \A a \in DOMAIN s \ {b} : t[a] = s[a]
  BY <1>0 DEF SplitsInto
<1>2. /\ L.Header \in L.Blocks /\ L.Latch \in L.Blocks /\ L.Blocks \subseteq DOMAIN s
      /\ b \in L.Blocks /\ b # L.Header /\ b # L.Latch
      /\ s[L.Header][1] \in Body(L)
  BY DEF IsLoop, Body
<1>3. M.Header = L.Header /\ M.Latch = L.Latch /\ M.Blocks = L.Blocks \cup {new}
  BY <1>2 DEF LoopAfter
<1> HIDE DEF M
<1>4. Body(M) = Body(L) \cup {new} /\ new \notin Body(L) /\ Body(L) \subseteq DOMAIN s
  BY <1>1, <1>2, <1>3 DEF Body
<1>5. BodyBegin(t, M) = BodyBegin(s, L)
  BY <1>1, <1>2, <1>3 DEF BodyBegin
<1>6. ASSUME IsConnected(s, L) PROVE IsConnected(t, M)
  <2> SUFFICES ASSUME NEW S \in SUBSET Body(M), BodyBegin(t, M) \in S,
                      \A a \in S : SuccessorsOf(t, a) \cap Body(M) \subseteq S
               PROVE  S = Body(M)
    BY DEF IsConnected
  <2> DEFINE T == S \cap Body(L)
  <2>1. BodyBegin(s, L) \in T
    BY <1>2, <1>5 DEF BodyBegin
  <2>2. ASSUME NEW a \in T PROVE SuccessorsOf(s, a) \cap Body(L) \subseteq T
    <3>1. CASE a = b
      <4>1. new \in S
        BY <1>1, <1>4, <3>1
      <4> QED BY <1>1, <1>4, <3>1, <4>1
    <3>2. CASE a # b
      <4>1. SuccessorsOf(t, a) = SuccessorsOf(s, a)
        BY <1>1, <1>4, <3>2
      <4> QED BY <1>4, <4>1
    <3> QED BY <3>1, <3>2
  <2>3. T = Body(L)
    BY <1>6, <2>1, <2>2 DEF IsConnected
  <2>4. b \in S
    BY <2>3
  <2>5. new \in S
    BY <1>1, <1>4, <2>4
  <2> QED BY <1>4, <2>3, <2>5
<1>7. ASSUME Branches(s, L) # {} PROVE Branches(t, M) # {}
  <2>1. PICK a \in Body(L) : Len(s[a]) > 1
    BY <1>7 DEF Branches
  <2>2. CASE a = b
    BY <1>1, <1>4, <2>1, <2>2 DEF Branches
  <2>3. CASE a # b
    BY <1>1, <1>4, <2>1, <2>3 DEF Branches
  <2> QED BY <2>2, <2>3
<1> QED BY <1>4, <1>6, <1>7 DEF M

(* Where a mark is after a cut, and where it was before.                   *)
LEMMA CutMoves ==
  ASSUME NEW c, NEW d, NEW b, NEW k, NEW new, NEW v, IsCut(c, d, b, k, new, v),
         NEW w, NEW p \in Places(d, <<"point", w>>)
  PROVE  \/ p[1] # new /\ p[1] # b /\ p \in Places(c, <<"point", w>>)
         \/ p[1] = b /\ p[2] < k /\ p \in Places(c, <<"point", w>>)
         \/ /\ p[1] = new /\ p[2] \in Nat
            /\ <<b, p[2] + k - 1>> \in Places(c, <<"point", w>>)
<1> DEFINE inst == <<"point", w>>
           list == c[b]
           n == Len(list)
<1>1. CutParts(c, d, b, k, new, v)
  BY CutCode
<1>2. /\ DOMAIN d = DOMAIN c \cup {new} /\ new \notin DOMAIN c /\ b \in DOMAIN c
      /\ \A a \in DOMAIN c \ {b} : d[a] = c[a]
      /\ k \in Nat \ {0} /\ DOMAIN d[b] = 1 .. k
      /\ \A j \in 1 .. k - 1 : j \in DOMAIN c[b] /\ d[b][j] = c[b][j]
      /\ d[b][k] = <<"prefetch", v>>
  BY <1>1 DEF CutParts, IsCut
<1>3. d[new] = SubSeq(list, k, n) /\ list \in Seq(AllInstructions) /\ k \in DOMAIN list
  BY DEF IsCut
<1>4. /\ n \in Nat /\ DOMAIN list = 1 .. n /\ k \in 1 .. n
      /\ DOMAIN d[new] = 1 .. n - k + 1 /\ \A j \in 1 .. n - k + 1 : d[new][j] = list[k + j - 1]
  <2> HIDE DEF list
  <2>1. n \in Nat /\ DOMAIN list = 1 .. n /\ k \in 1 .. n
    BY <1>3
  <2> DEFINE I == AllInstructions
  <2> HIDE DEF I
  <2>2. list \in Seq(I)
    BY <1>3 DEF I
  <2> QED BY <1>3, <2>1, <2>2
<1>5. PICK a \in DOMAIN d : \E j \in DOMAIN d[a] : p = <<a, j>> /\ d[a][j] = inst
  BY PlacesAre
<1>6. PICK j \in DOMAIN d[a] : p = <<a, j>> /\ d[a][j] = inst
  BY <1>5
<1>7. p[1] = a /\ p[2] = j
  BY <1>6
<1> HIDE DEF list, n
<1>8. CASE a # new /\ a # b
  <2>1. a \in DOMAIN c /\ d[a] = c[a]
    BY <1>2, <1>8
  <2> QED BY <1>6, <1>7, <1>8, <2>1, PlacesAre
<1>9. CASE a = b
  <2>1. j \in 1 .. k /\ j # k
    BY <1>2, <1>6, <1>9
  <2>2. j \in 1 .. k - 1 /\ j < k
    BY <1>2, <2>1
  <2>3. j \in DOMAIN c[b] /\ c[b][j] = inst
    BY <1>2, <1>6, <1>9, <2>2
  <2>4. p \in Places(c, inst)
    BY <1>2, <1>6, <1>9, <2>3, PlacesAre
  <2> QED BY <1>7, <1>9, <2>2, <2>4
<1>10. CASE a = new
  <2>1. j \in 1 .. n - k + 1
    BY <1>4, <1>10
  <2> DEFINE q == j + k - 1
  <2>2. q \in 1 .. n /\ k + j - 1 = q /\ j \in Nat
    BY <1>2, <1>4, <2>1
  <2> HIDE DEF q
  <2>3. list[q] = inst
    BY <1>4, <1>6, <1>10, <2>1, <2>2
  <2>4. <<b, q>> \in Places(c, inst)
    BY <1>2, <1>4, <2>2, <2>3, PlacesAre DEF list
  <2> QED BY <1>7, <1>10, <2>2, <2>4 DEF q
<1> QED BY <1>8, <1>9, <1>10

(* The loop of a source is connected, for control comes to all its blocks. *)
LEMMA SourceConnected ==
  ASSUME NEW s \in Sources, s.loop.Header # NullBlock
  PROVE  IsConnected(s.succ, s.loop)
<1> DEFINE f == s.succ
           L == s.loop
<1>1. IsNaturalLoop(f, L) /\ IsForLoop(f, L)
  BY SourceAssumption
<1>2. IsLoop(f, L)
  BY SourceLoop
<1>3. Entry \in DOMAIN f /\ \A b \in DOMAIN f : SuccessorsOf(f, b) \subseteq DOMAIN f
  <2> DEFINE n == Cardinality(DOMAIN f)
  <2>1. IsNumbered(f, n)
    BY SourceShape
  <2> HIDE DEF f, n
  <2>2. n \in Nat \ {0} /\ DOMAIN f = 1 .. n /\ \A b \in DOMAIN f : SuccessorsOf(f, b) \subseteq 2 .. n
    BY <2>1, NumberedSuccessors DEF IsNumbered
  <2> QED BY <2>2 DEF Entry
<1> HIDE DEF f, L
<1> SUFFICES ASSUME NEW S \in SUBSET Body(L), BodyBegin(f, L) \in S,
                    \A b \in S : SuccessorsOf(f, b) \cap Body(L) \subseteq S
             PROVE  S = Body(L)
  BY DEF IsConnected, f, L
<1> DEFINE T == (DOMAIN f \ L.Blocks) \cup {L.Header, L.Latch} \cup S
<1>4. /\ L.Header \in L.Blocks /\ L.Latch \in L.Blocks /\ L.Blocks \subseteq DOMAIN f /\ Entry \notin L.Blocks
      /\ \A b \in DOMAIN f \ L.Blocks : SuccessorsOf(f, b) \cap L.Blocks \subseteq {L.Header}
      /\ f[L.Latch] = <<L.Header>> /\ Len(f[L.Header]) = 2 /\ f[L.Header][2] \notin L.Blocks
      /\ Body(L) \subseteq L.Blocks
  BY <1>2 DEF IsLoop, Body
<1>5. T \in SUBSET DOMAIN f /\ Entry \in T
  BY <1>3, <1>4
<1>6. ASSUME NEW x \in T PROVE SuccessorsOf(f, x) \subseteq T
  <2>1. CASE x \in DOMAIN f \ L.Blocks
    BY <1>3, <1>4, <2>1
  <2>2. CASE x = L.Latch
    <3>1. SuccessorsOf(f, x) = {L.Header}
      BY <1>4, <2>2 DEF SuccessorsOf
    <3> QED BY <3>1
  <2>3. CASE x = L.Header
    <3> SUFFICES ASSUME NEW k \in DOMAIN f[x] PROVE f[x][k] \in T
      BY DEF SuccessorsOf
    <3>1. f[x][k] \in DOMAIN f
      BY <1>3, <1>4, <2>3, SuccessorsAre
    <3>2. DOMAIN f[x] = 1 .. 2
      <4> DEFINE list == f[x]
      <4>1. Len(list) = 2
        BY <1>4, <2>3
      <4>2. list \in Seq(Nat)
        <5>1. IsNumbered(f, Cardinality(DOMAIN f)) /\ x \in DOMAIN f
          BY <1>4, <2>3, SourceShape DEF f
        <5> DEFINE n == Cardinality(DOMAIN f)
        <5>2. list \in Seq(2 .. n) /\ n \in Nat
          BY <5>1 DEF IsNumbered
        <5> HIDE DEF n, list
        <5> QED BY <5>2
      <4> HIDE DEF list
      <4>3. DOMAIN list = 1 .. 2
        BY <4>1, <4>2
      <4> QED BY <4>3 DEF list
    <3>3. CASE k = 1
      BY <2>3, <3>3 DEF BodyBegin
    <3>4. CASE k # 1
      <4>1. k = 2
        BY <3>2, <3>4
      <4> QED BY <1>4, <2>3, <3>1, <4>1
    <3> QED BY <3>3, <3>4
  <2>4. CASE x \in S
    <3> SUFFICES ASSUME NEW y \in SuccessorsOf(f, x) PROVE y \in T
      OBVIOUS
    <3>1. y \in DOMAIN f
      BY <1>3, <1>4, <2>4
    <3>2. CASE y \in Body(L)
      BY <2>4, <3>2
    <3>3. CASE y \notin Body(L)
      BY <3>1, <3>3 DEF Body
    <3> QED BY <3>2, <3>3
  <2> QED BY <2>1, <2>2, <2>3, <2>4
<1>7. L.Blocks \subseteq T
  <2> HIDE DEF T
  <2> QED BY <1>1, <1>5, <1>6 DEF IsNaturalLoop
<1> QED BY <1>4, <1>7 DEF Body

(* What a supported function has.                                          *)
IsSupported(s, vars) ==
  /\ s \in Sources
  /\ vars # <<>>
  /\ s.loop.Header # NullBlock
  /\ HasOneExit(s) /\ HasOneEnd(s) /\ HasAcyclicBody(s)
  /\ Branches(s.succ, s.loop) # {}
  /\ \A v \in Range(vars) :
       HasUsePoint(s, v) /\ UsePoint(s, v)[1] \in Body(s.loop) /\ UsePoint(s, v)[2] > 1
  /\ \A j, k \in DOMAIN vars :
       j < k /\ UsePoint(s, vars[j])[1] = UsePoint(s, vars[k])[1]
         => UsePoint(s, vars[j])[2] < UsePoint(s, vars[k])[2]
  /\ \A b \in DOMAIN s.code \ Body(s.loop) : \A k \in DOMAIN s.code[b] :
       s.code[b][k][1] \in {"annotate", "gep", "other"}

LEMMA SupportedIs ==
  ASSUME source \in Supported
  PROVE  IsSupported(source, detectExpPtrVars(source.code))
<1> DEFINE s == source
           vars == detectExpPtrVars(s.code)
<1>1. s \in Sources /\ vars # <<>> /\ SupportsLoop(s) /\ SupportsOrder(s, vars)
  BY DEF Supported
<1>2. \A v \in Range(vars) : SupportsVariable(s, v)
  BY DEF Supported
<1>3. \A b \in DOMAIN s.code \ BodyOf(s) : \A k \in DOMAIN s.code[b] : s.code[b][k][1] \in {"annotate", "gep", "other"}
  BY DEF Supported
<1>4. BodyOf(s) = Body(s.loop)
  BY DEF BodyOf, Body
<1>5. Branches(s.succ, s.loop) # {}
  BY <1>1, <1>4 DEF SupportsLoop, Branches
<1> HIDE DEF s, vars
<1>6. s.loop.Header # NullBlock /\ HasOneExit(s) /\ HasOneEnd(s) /\ HasAcyclicBody(s)
  BY <1>1 DEF SupportsLoop
<1>7. \A v \in Range(vars) :
        HasUsePoint(s, v) /\ UsePoint(s, v)[1] \in Body(s.loop) /\ UsePoint(s, v)[2] > 1
  BY <1>2, <1>4 DEF SupportsVariable
<1>8. IsSupported(s, vars)
  BY <1>1, <1>3, <1>4, <1>5, <1>6, <1>7 DEF IsSupported, SupportsOrder
<1> QED BY <1>8 DEF s, vars

(* The pass finds a use point for each variable, and none in the header.   *)
LEMMA SupportedScan ==
  ASSUME NEW vars, IsSupported(source, vars), vars \in Seq(Variables)
  PROVE  /\ ~HasIndirectCall(source.code)
         /\ detectExpPtrUses(source.code, vars) = vars
         /\ ~SplitsHeader
<1> DEFINE c == source.code
           L == source.loop
           U == {v \in Range(vars) : Places(c, <<"deref", v>>) # {}}
<1>1. IsLoop(source.succ, L) /\ DOMAIN c = DOMAIN source.succ /\ Entry \in DOMAIN c
  BY SourceLoop, SourceShape, SourceCode DEF IsSupported
<1>2. Entry \notin Body(L) /\ L.Header \notin Body(L) /\ L.Header \in DOMAIN c
  BY <1>1 DEF IsLoop, Body
<1>3. ASSUME NEW b \in DOMAIN c \ Body(L), NEW k \in DOMAIN c[b] PROVE c[b][k][1] \in {"annotate", "gep", "other"}
  BY DEF IsSupported
<1>4. ~HasIndirectCall(c)
  <2>1. \A k \in DOMAIN c[Entry] : c[Entry][k][1] # "indirect"
    BY <1>1, <1>2, <1>3
  <2> QED BY <2>1 DEF HasIndirectCall
<1>5. detectExpPtrUses(c, vars) = vars
  <2>1. Range(vars) \subseteq U
    BY DEF IsSupported, HasUsePoint
  <2>2. detectExpPtrUses(c, vars) = Kept(vars, U)
    BY DEF detectExpPtrUses
  <2> HIDE DEF U
  <2> QED BY <2>1, <2>2, KeptAll
<1>6. ASSUME NEW v \in Variables, HasUsePoint(source, v), UsePoint(source, v)[1] = L.Header PROVE FALSE
  <2>1. UsePoint(source, v) \in Places(c, <<"deref", v>>)
    BY <1>6, EarliestUse, SourceCode DEF UsePoint, HasUsePoint, IsSupported
  <2>2. PICK b \in DOMAIN c : \E k \in DOMAIN c[b] : UsePoint(source, v) = <<b, k>> /\ c[b][k] = <<"deref", v>>
    BY <2>1, PlacesAre
  <2>3. PICK k \in DOMAIN c[b] : UsePoint(source, v) = <<b, k>> /\ c[b][k] = <<"deref", v>>
    BY <2>2
  <2>4. b = L.Header
    BY <1>6, <2>3
  <2>5. c[b][k][1] = "deref"
    BY <2>3
  <2> QED BY <1>2, <1>3, <2>4, <2>5
<1>7. ~SplitsHeader
  BY <1>6 DEF SplitsHeader
<1> QED BY <1>4, <1>5, <1>7

(* At first no block of the body is cut.                                   *)
LEMMA SupportedDetect ==
  ASSUME SFInv, SplitInv, source \in Supported, detect
  PROVE  stage' = "splitting" /\ CutsOK'
<1> DEFINE vars == detectExpPtrVars(source.code)
           used == detectExpPtrUses(source.code, vars)
<1>1. /\ stage = "start" /\ UNCHANGED <<source, succ, loop, i, EndBlocks>>
      /\ code = source.code /\ succ = source.succ /\ loop = source.loop /\ i = 1 /\ source \in Sources
      /\ EndBlocks = <<>>
  BY DEF detect, SFInv, PassInv, InSplitting, SplittingOK, SplitInv
<1>2. IsSupported(source, vars)
  BY SupportedIs
<1>3. vars \in Seq(Variables)
  <2> HIDE DEF vars, used
  <2> QED BY <1>1, SourceLists DEF vars, used
<1>4. ~HasIndirectCall(source.code) /\ used = vars
  <2> HIDE DEF vars
  <2> QED BY <1>2, <1>3, SupportedScan
<1>5. /\ AnnotatedVars' = vars /\ VarUsePoints' = vars /\ code' = Marked(source.code, vars)
      /\ stage' = "splitting"
  <2>1. vars # <<>>
    BY <1>2 DEF IsSupported
  <2>2. /\ AnnotatedVars' = vars /\ VarUsePoints' = used /\ code' = Marked(source.code, used)
        /\ stage' = IF used = <<>> THEN "unchanged" ELSE "splitting"
    BY <1>1, <1>4 DEF detect
  <2> HIDE DEF vars, used
  <2> QED BY <1>4, <2>1, <2>2
<1> HIDE DEF vars, used
<1>6. \A b \in DOMAIN code' : \A k \in DOMAIN code'[b] : \A v \in Variables :
        code'[b][k] = <<"point", v>> => HasUsePoint(source, v) /\ UsePoint(source, v) = <<b, k>>
  <2>1. \A v \in Range(vars) : HasUsePoint(source, v)
    BY <1>2 DEF IsSupported
  <2> DEFINE m == code'
  <2>2. m = Marked(source.code, vars)
    BY <1>5
  <2> HIDE DEF m
  <2>3. \A b \in DOMAIN m : \A k \in DOMAIN m[b] : \A v \in Variables :
          m[b][k] = <<"point", v>> => HasUsePoint(source, v) /\ UsePoint(source, v) = <<b, k>>
    BY <1>1, <1>3, <2>1, <2>2, MarkedCode
  <2> QED BY <2>3 DEF m
<1>7. Len(vars) \in Nat /\ DOMAIN vars = 1 .. Len(vars) /\ \A j \in DOMAIN vars : vars[j] \in Variables
  BY <1>3
<1>8. ASSUME NEW j \in 1 .. Len(vars), NEW p \in Places(code', <<"point", vars[j]>>)
      PROVE  p = UsePoint(source, vars[j]) /\ vars[j] \in Range(vars)
  <2>0. PICK b \in DOMAIN code' : \E k \in DOMAIN code'[b] : p = <<b, k>> /\ code'[b][k] = <<"point", vars[j]>>
    BY PlacesAre
  <2>1. PICK k \in DOMAIN code'[b] : p = <<b, k>> /\ code'[b][k] = <<"point", vars[j]>>
    BY <2>0
  <2> QED BY <1>6, <1>7, <2>1 DEF Range
<1>9. \A j \in 1 .. Len(vars) : \A p \in Points(j)' : p[1] \in Body(loop') \ Range(EndBlocks') /\ p[2] > 1
  <2> SUFFICES ASSUME NEW j \in 1 .. Len(vars), NEW p \in Places(code', <<"point", vars[j]>>)
               PROVE  p[1] \in Body(loop') \ Range(EndBlocks') /\ p[2] > 1
    BY <1>5 DEF Points
  <2>1. Range(EndBlocks') = {}
    BY <1>1 DEF Range
  <2> QED BY <1>1, <1>2, <1>8, <2>1 DEF IsSupported
<1>10. \A j \in 1 .. Len(vars) : \A k \in j + 1 .. Len(vars) :
         \A p \in Points(j)' : \A q \in Points(k)' : p[1] = q[1] => p[2] < q[2]
  <2> SUFFICES ASSUME NEW j \in 1 .. Len(vars), NEW k \in j + 1 .. Len(vars),
                      NEW p \in Places(code', <<"point", vars[j]>>), NEW q \in Places(code', <<"point", vars[k]>>),
                      p[1] = q[1]
               PROVE  p[2] < q[2]
    BY <1>5 DEF Points
  <2>1. k \in 1 .. Len(vars) /\ j < k
    BY <1>7
  <2>2. p = UsePoint(source, vars[j]) /\ q = UsePoint(source, vars[k])
    BY <1>8, <2>1
  <2> QED BY <1>2, <1>7, <2>1, <2>2 DEF IsSupported
<1>11. Branches(succ', loop') # {} /\ IsConnected(succ', loop')
  <2>1. Branches(source.succ, source.loop) # {} /\ IsConnected(source.succ, source.loop)
    BY <1>1, <1>2, SourceConnected DEF IsSupported
  <2> QED BY <1>1, <2>1
<1>12. Len(EndBlocks') = i' - 1 /\ NoDuplicates(EndBlocks') /\ Range(EndBlocks') = {}
  BY <1>1 DEF NoDuplicates, Range
<1> QED BY <1>1, <1>5, <1>9, <1>10, <1>11, <1>12 DEF CutsOK

(* Block b is cut before its k-th instruction, which is the i-th use point *)
(* or a getelementptr before it.  The later use points are behind the cut, *)
(* or in other blocks.                                                     *)
CutsAt(b, k, new) ==
  /\ stage' = "splitting" /\ UNCHANGED <<source, AnnotatedVars, VarUsePoints>>
  /\ i' = i + 1 /\ EndBlocks' = Append(EndBlocks, b)
  /\ b \in Body(loop) \ Range(EndBlocks) /\ b \in Nat
  /\ k \in Nat
  /\ <<b, k>> \in Points(i) \/ (code[b][k][1] = "gep" /\ <<b, k + 1>> \in Points(i))
  /\ \A j \in i + 1 .. Len(VarUsePoints) : \A p \in Points(j) : b = p[1] => k < p[2]
  /\ IsLoop(succ, loop)
  /\ IsSplit(succ, succ', b, new)
  /\ loop' = LoopAfter(loop, b, new)
  /\ IsCut(code, code', b, k, new, VarUsePoints[i])
  /\ \A j \in i + 1 .. Len(VarUsePoints) : \A p \in Points(j)' :
       \/ p[1] # new /\ p[1] # b /\ p \in Points(j)
       \/ p[1] = new /\ p[2] \in Nat /\ <<b, p[2] + k - 1>> \in Points(j)

LEMMA SupportedCut ==
  ASSUME SFInv, SplitInv, source \in Supported, splitAtUse
  PROVE  \E b \in DOMAIN code : \E k \in DOMAIN code[b] : CutsAt(b, k, NewBlock)
<1> DEFINE v == VarUsePoints[i]
           P == Places(code, <<"point", v>>)
           use == CHOOSE p \in P : TRUE
           new == NewBlock
           n == Len(VarUsePoints)
<1>1. /\ stage = "splitting" /\ i <= n
      /\ UNCHANGED <<source, AnnotatedVars, VarUsePoints>>
  BY DEF splitAtUse, useVars
<1>2. CutsOK /\ SplittingOK /\ PointsOK /\ ListsOK
  BY <1>1 DEF SFInv, PassInv, InSplitting, SplittingOK, SplitInv
<1>3. /\ source \in Sources /\ DOMAIN code = DOMAIN succ
      /\ \A b \in DOMAIN code : code[b] \in Seq(AllInstructions)
  BY DEF SFInv, PassInv
<1>4. /\ i \in DOMAIN VarUsePoints /\ i \in 1 .. n /\ v \in Variables /\ n \in Nat
  <2>1. VarUsePoints \in Seq(Variables) /\ i \in 1 .. n + 1
    BY <1>2 DEF ListsOK, PointsOK
  <2> QED BY <1>1, <2>1
<1>5. use \in P
  <2>1. P # {}
    BY <1>2, <1>4 DEF PointsOK
  <2> HIDE DEF P
  <2> QED BY <2>1
<1>6. PICK b \in DOMAIN code : \E k \in DOMAIN code[b] : use = <<b, k>> /\ code[b][k] = <<"point", v>>
  BY <1>5, PlacesAre
<1>7. PICK k \in DOMAIN code[b] : use = <<b, k>> /\ code[b][k] = <<"point", v>>
  BY <1>6
<1>8. /\ b \in Body(loop) /\ b \notin Range(EndBlocks) /\ k > 1
      /\ \A j \in i + 1 .. n : \A p \in Points(j) : b = p[1] => k < p[2]
  <2> HIDE DEF use
  <2>1. use \in Points(i) /\ i \in i .. n
    BY <1>4, <1>5 DEF Points
  <2>2. use[1] = b /\ use[2] = k
    BY <1>7
  <2> HIDE DEF n, P
  <2>3. /\ use[1] \in Body(loop) \ Range(EndBlocks) /\ use[2] > 1
        /\ \A j \in i + 1 .. n : \A p \in Points(j) : use[1] = p[1] => use[2] < p[2]
    BY <1>2, <2>1 DEF CutsOK, n
  <2> QED BY <2>2, <2>3
<1> DEFINE u == SplitPoint(b, k)
<1>20. /\ u \in DOMAIN code[b]
       /\ k \in Nat /\ u \in {k - 1, k} /\ u \in Nat /\ u <= k
       /\ u = k \/ (u + 1 = k /\ code[b][u][1] = "gep")
  <2>1. code[b] \in Seq(AllInstructions) /\ k # 1
    BY <1>3, <1>8
  <2>2. /\ u \in DOMAIN code[b]
        /\ k \in Nat /\ u \in {k - 1, k}
        /\ u = k \/ code[b][u][1] = "gep"
    BY <2>1, CutBefore
  <2> HIDE DEF u
  <2> QED BY <1>8, <2>2
<1>9. SplitBlock(b, u, v) /\ EndBlocks' = Append(EndBlocks, b) /\ i' = i + 1 /\ stage' = "splitting"
  <2>1. IF use[2] = 1
        THEN stage' = "aborted" /\ UNCHANGED <<irVars, i, EndBlocks>>
        ELSE /\ SplitBlock(use[1], SplitPoint(use[1], use[2]), v) /\ EndBlocks' = Append(EndBlocks, use[1])
             /\ i' = i + 1 /\ UNCHANGED stage
    BY DEF splitAtUse
  <2> HIDE DEF use, v
  <2>2. use[1] = b /\ use[2] = k
    BY <1>7
  <2>3. k # 1
    BY <1>8
  <2> QED BY <1>1, <2>1, <2>2, <2>3
<1> HIDE DEF P, use, u
<1>10. IsNumbered(succ, new - 1) /\ new \in Nat
  <2>1. IsNumbered(succ, Cardinality(DOMAIN succ))
    BY <1>2 DEF SplittingOK
  <2>2. Cardinality(DOMAIN succ) \in Nat
    BY <2>1 DEF IsNumbered
  <2>3. new - 1 = Cardinality(DOMAIN succ) /\ new \in Nat
    BY <2>2 DEF NewBlock
  <2> QED BY <2>1, <2>3
<1>11. IsSplit(succ, succ', b, new)
  BY <1>3, <1>9, <1>10 DEF IsSplit, SplitBlock
<1>12. loop' = LoopAfter(loop, b, new)
  BY <1>9 DEF SplitBlock, LoopAfter
<1>13. SplitsInto(succ, succ', b, new)
  BY <1>11, SplitEdges
<1>14. IsCut(code, code', b, u, new, v)
  <2>1. new \notin DOMAIN code
    BY <1>3, <1>13 DEF SplitsInto
  <2> QED BY <1>3, <1>4, <1>9, <1>20, <2>1 DEF IsCut, SplitBlock, insertLLVMPrefetchIntrinsic
<1>15. IsLoop(succ, loop)
  <2>1. IsSupported(source, detectExpPtrVars(source.code))
    BY SupportedIs
  <2>2. ~SplitsHeader /\ source.loop.Header # NullBlock
    <3> DEFINE vars == detectExpPtrVars(source.code)
               used == detectExpPtrUses(source.code, vars)
    <3>1. vars \in Seq(Variables)
      <4> HIDE DEF vars, used
      <4> QED BY <1>3, SourceLists DEF vars, used
    <3> HIDE DEF vars
    <3> QED BY <2>1, <3>1, SupportedScan DEF IsSupported, vars
  <2> QED BY <1>2, <2>2 DEF SplittingOK, KeptLoop
<1>16. ASSUME NEW j \in i + 1 .. n, NEW p \in Points(j)'
       PROVE  \/ p[1] # new /\ p[1] # b /\ p \in Points(j)
              \/ p[1] = new /\ p[2] \in Nat /\ <<b, p[2] + u - 1>> \in Points(j)
  <2> DEFINE w == VarUsePoints[j]
             c == code
             d == code'
  <2>1. p \in Places(d, <<"point", w>>) /\ Points(j) = Places(c, <<"point", w>>) /\ IsCut(c, d, b, u, new, v)
    BY <1>1, <1>14 DEF Points
  <2> HIDE DEF w, c, d
  <2>2. \/ p[1] # new /\ p[1] # b /\ p \in Points(j)
        \/ p[1] = b /\ p[2] < u /\ p \in Points(j)
        \/ p[1] = new /\ p[2] \in Nat /\ <<b, p[2] + u - 1>> \in Points(j)
    BY <2>1, CutMoves
  <2>3. ASSUME p[1] = b, p[2] < u, p \in Points(j) PROVE FALSE
    <3>1. k < p[2]
      BY <1>8, <2>3
    <3>2. k \in Nat /\ u \in Nat /\ u <= k
      BY <1>20
    <3>3. p[2] \in Nat
      <4>1. PICK a \in DOMAIN c : \E x \in DOMAIN c[a] : p = <<a, x>>
        BY <2>1, <2>3, PlacesAre
      <4>2. PICK x \in DOMAIN c[a] : p = <<a, x>>
        BY <4>1
      <4>3. c[a] \in Seq(AllInstructions)
        BY <1>3 DEF c
      <4>4. x \in Nat
        <5> DEFINE list == c[a]
                   I == AllInstructions
        <5> HIDE DEF list, I
        <5>1. list \in Seq(I) /\ x \in DOMAIN list
          BY <4>3 DEF list, I
        <5> QED BY <5>1
      <4> QED BY <4>2, <4>4
    <3> QED BY <2>3, <3>1, <3>2, <3>3
  <2> QED BY <2>2, <2>3
<1>17. b \in Nat
  BY <1>3, <1>10 DEF IsNumbered
<1>18. <<b, u>> \in Points(i) \/ (code[b][u][1] = "gep" /\ <<b, u + 1>> \in Points(i))
  <2>1. <<b, k>> \in Points(i)
    BY <1>7, PlacesAre DEF Points
  <2> QED BY <1>20, <2>1
<1>21. ASSUME NEW j \in i + 1 .. n, NEW p \in Points(j), b = p[1] PROVE u < p[2]
  <2>1. k < p[2]
    BY <1>8, <1>21
  <2>2. p[2] \in Nat
    <3>1. PICK a \in DOMAIN code : \E x \in DOMAIN code[a] : p = <<a, x>>
      BY PlacesAre DEF Points
    <3>2. PICK x \in DOMAIN code[a] : p = <<a, x>>
      BY <3>1
    <3> DEFINE list == code[a]
               I == AllInstructions
    <3>3. list \in Seq(I) /\ x \in DOMAIN list
      BY <1>3
    <3> HIDE DEF list, I
    <3>4. x \in Nat
      BY <3>3
    <3> QED BY <3>2, <3>4
  <2> QED BY <1>20, <2>1, <2>2
<1> HIDE DEF new
<1>19. CutsAt(b, u, new)
  BY <1>1, <1>8, <1>9, <1>11, <1>12, <1>14, <1>15, <1>16, <1>17, <1>18, <1>20, <1>21 DEF CutsAt
<1> QED BY <1>19, <1>20 DEF new

(* A cut leaves the later use points behind it or in other blocks.         *)
LEMMA SupportedSplit ==
  ASSUME SFInv, SplitInv, source \in Supported, splitAtUse
  PROVE  stage' = "splitting" /\ CutsOK'
<1> DEFINE n == Len(VarUsePoints)
           v == VarUsePoints[i]
           new == NewBlock
<1>1. /\ stage = "splitting" /\ i <= n
      /\ UNCHANGED <<source, AnnotatedVars, VarUsePoints>>
  BY DEF splitAtUse, useVars
<1>2. CutsOK /\ SplittingOK /\ PointsOK /\ ListsOK
  BY <1>1 DEF SFInv, PassInv, InSplitting, SplittingOK, SplitInv
<1>4. i \in 1 .. n /\ n \in Nat
  <2>1. VarUsePoints \in Seq(Variables) /\ i \in 1 .. n + 1
    BY <1>2 DEF ListsOK, PointsOK
  <2> QED BY <1>1, <2>1
<1>5. PICK b \in DOMAIN code : \E k \in DOMAIN code[b] : CutsAt(b, k, new)
  BY SupportedCut
<1>6. PICK k \in DOMAIN code[b] : CutsAt(b, k, new)
  BY <1>5
<1> HIDE DEF new
<1>8. /\ b \in Body(loop) /\ b \notin Range(EndBlocks)
      /\ \A j \in i + 1 .. n : \A p \in Points(j) : b = p[1] => k < p[2]
  BY <1>6 DEF CutsAt
<1>9. EndBlocks' = Append(EndBlocks, b) /\ i' = i + 1 /\ stage' = "splitting"
  BY <1>6 DEF CutsAt
<1>11. IsSplit(succ, succ', b, new)
  BY <1>6 DEF CutsAt
<1>12. loop' = LoopAfter(loop, b, new)
  BY <1>6 DEF CutsAt
<1>13. SplitsInto(succ, succ', b, new)
  BY <1>11, SplitEdges
<1>14. IsCut(code, code', b, k, new, v)
  BY <1>6 DEF CutsAt
<1>15. IsLoop(succ, loop)
  BY <1>6 DEF CutsAt
<1>16. /\ Body(loop') = Body(loop) \cup {new} /\ new \notin Body(loop)
       /\ Branches(succ', loop') # {} /\ IsConnected(succ', loop')
  <2> DEFINE s == succ
             t == succ'
             L == loop
             M == loop'
  <2>1. /\ IsSplit(s, t, b, new) /\ IsLoop(s, L) /\ b \in Body(L) /\ M = LoopAfter(L, b, new)
        /\ IsConnected(s, L) /\ Branches(s, L) # {}
    BY <1>2, <1>8, <1>11, <1>12, <1>15 DEF CutsOK
  <2> HIDE DEF s, t, L, M
  <2>2. /\ Body(M) = Body(L) \cup {new} /\ new \notin Body(L)
        /\ Branches(t, M) # {} /\ IsConnected(t, M)
    BY <2>1, SplitConnected
  <2> QED BY <2>2 DEF t, L, M
<1>17. EndBlocks \in Seq(Nat) /\ b \in Nat
  BY <1>2, <1>6 DEF SplittingOK, CutsAt
<1>18. Range(EndBlocks') = Range(EndBlocks) \cup {b}
  BY <1>9, <1>17, AppendRange
<1>19. NoDuplicates(EndBlocks')
  BY <1>2, <1>8, <1>9, <1>17, AppendNoDuplicates DEF CutsOK
<1>20. Len(EndBlocks') = i' - 1
  <2>1. Len(EndBlocks') = Len(EndBlocks) + 1
    BY <1>9, <1>17
  <2> QED BY <1>2, <1>4, <1>9, <2>1 DEF CutsOK
<1>21. ASSUME NEW a \in Range(EndBlocks') PROVE a \in Body(loop') /\ loop'.Latch \notin SuccessorsOf(succ', a)
  <2>1. loop'.Latch = loop.Latch /\ loop.Latch \in DOMAIN succ
    <3>1. b # loop.Latch
      BY <1>8 DEF Body
    <3> QED BY <1>12, <1>15, <3>1 DEF LoopAfter, IsLoop
  <2>2. CASE a = b
    <3>1. SuccessorsOf(succ', a) = {new} /\ new \notin DOMAIN succ
      BY <1>13, <2>2 DEF SplitsInto
    <3> QED BY <1>8, <1>16, <2>1, <2>2, <3>1
  <2>3. CASE a # b
    <3>1. a \in Range(EndBlocks) /\ a \in Body(loop) /\ loop.Latch \notin SuccessorsOf(succ, a)
      BY <1>2, <1>18, <2>3 DEF CutsOK
    <3>2. a \in DOMAIN succ
      BY <1>15, <3>1 DEF IsLoop, Body
    <3>3. SuccessorsOf(succ', a) = SuccessorsOf(succ, a)
      BY <1>13, <2>3, <3>2 DEF SplitsInto
    <3> QED BY <1>16, <2>1, <3>1, <3>3
  <2> QED BY <2>2, <2>3
<1>22. ASSUME NEW j \in i + 1 .. n, NEW p \in Points(j)'
       PROVE  \/ p[1] # new /\ p[1] # b /\ p \in Points(j)
              \/ p[1] = new /\ p[2] \in Nat /\ <<b, p[2] + k - 1>> \in Points(j)
  BY <1>6, <1>22 DEF CutsAt
<1>23. k \in Nat /\ n \in Nat /\ i \in 1 .. n /\ i' = i + 1 /\ Len(VarUsePoints') = n
  <2>1. CutParts(code, code', b, k, new, v)
    BY <1>14, CutCode
  <2> QED BY <1>1, <1>4, <1>8, <1>9, <2>1 DEF CutParts
<1> HIDE DEF n
<1>24. /\ \A j \in i .. n : \A p \in Points(j) : p[1] \in Body(loop) \ Range(EndBlocks) /\ p[2] > 1
       /\ \A j \in i .. n : \A l \in j + 1 .. n :
            \A p \in Points(j) : \A q \in Points(l) : p[1] = q[1] => p[2] < q[2]
  BY <1>2 DEF CutsOK, n
<1>25. ASSUME NEW j \in i + 1 .. n, NEW p \in Points(j)'
       PROVE  p[1] \in Body(loop') \ Range(EndBlocks') /\ p[2] > 1
  <2>1. j \in i .. n
    BY <1>23
  <2>2. CASE p[1] # new /\ p[1] # b /\ p \in Points(j)
    <3>1. p[1] \in Body(loop) \ Range(EndBlocks) /\ p[2] > 1
      BY <1>24, <2>1, <2>2
    <3> QED BY <1>16, <1>18, <2>2, <3>1
  <2>3. CASE p[1] = new /\ p[2] \in Nat /\ <<b, p[2] + k - 1>> \in Points(j)
    <3> DEFINE q == <<b, p[2] + k - 1>>
    <3>1. q[1] = b /\ q[2] = p[2] + k - 1 /\ q \in Points(j)
      BY <2>3
    <3> HIDE DEF q
    <3>2. k < q[2]
      BY <1>8, <3>1 DEF n
    <3>3. p[2] > 1
      BY <1>23, <2>3, <3>1, <3>2
    <3>4. new \notin Range(EndBlocks')
      BY <1>2, <1>8, <1>16, <1>18 DEF CutsOK
    <3> QED BY <1>16, <2>3, <3>3, <3>4
  <2> QED BY <1>22, <2>2, <2>3 DEF n
<1>26. ASSUME NEW j \in i + 1 .. n, NEW l \in j + 1 .. n, NEW p \in Points(j)', NEW q \in Points(l)', p[1] = q[1]
       PROVE  p[2] < q[2]
  <2>1. j \in i .. n /\ l \in i + 1 .. n
    BY <1>23
  <2>2. CASE p[1] # new /\ p \in Points(j)
    <3>1. q \in Points(l)
      BY <1>22, <1>26, <2>1, <2>2 DEF n
    <3> QED BY <1>24, <1>26, <2>1, <2>2, <3>1
  <2>3. CASE p[1] = new /\ p[2] \in Nat /\ <<b, p[2] + k - 1>> \in Points(j)
    <3> DEFINE x == <<b, p[2] + k - 1>>
               y == <<b, q[2] + k - 1>>
    <3>1. q[2] \in Nat /\ y \in Points(l)
      BY <1>22, <1>26, <2>1, <2>3 DEF n
    <3>2. x[1] = y[1] /\ x[2] = p[2] + k - 1 /\ y[2] = q[2] + k - 1
      OBVIOUS
    <3>3. x \in Points(j)
      BY <2>3
    <3> HIDE DEF x, y
    <3>4. x[2] < y[2]
      BY <1>24, <2>1, <3>1, <3>2, <3>3
    <3> QED BY <1>23, <2>3, <3>1, <3>2, <3>4
  <2> QED BY <1>22, <2>2, <2>3 DEF n
<1> QED BY <1>1, <1>2, <1>9, <1>16, <1>19, <1>20, <1>21, <1>23, <1>25, <1>26 DEF CutsOK

(* A list without duplicates has as many elements as places.               *)
LEMMA DistinctCount ==
  ASSUME NEW W, NEW list \in Seq(W), NoDuplicates(list)
  PROVE  IsFiniteSet(Range(list)) /\ Cardinality(Range(list)) = Len(list)
<1> DEFINE n == Len(list)
           f == [k \in 1 .. n |-> list[k]]
           R == Range(list)
<1>1. n \in Nat /\ DOMAIN list = 1 .. n
  OBVIOUS
<1>2. R = {list[k] : k \in 1 .. n}
  BY <1>1 DEF Range
<1> HIDE DEF n, R
<1>3. f \in Bijection(1 .. n, R)
  BY <1>1, <1>2 DEF Bijection, Injection, Surjection, IsInjective, NoDuplicates
<1>4. IsFiniteSet(1 .. n) /\ Cardinality(1 .. n) = n
  <2>1. n \in Int /\ 1 \in Int /\ (IF 1 > n THEN 0 ELSE n - 1 + 1) = n
    BY <1>1
  <2> QED BY <2>1, FS_Interval
<1>5. ExistsBijection(1 .. n, R)
  BY <1>3 DEF ExistsBijection
<1> QED BY <1>4, <1>5, FS_Bijection DEF n, R

LEMMA SupportedLoop ==
  ASSUME SFInv, source \in Supported
  PROVE  /\ source.loop.Header # NullBlock /\ ~SplitsHeader
         /\ HasOneExit(source) /\ HasOneEnd(source) /\ HasAcyclicBody(source)
<1> DEFINE vars == detectExpPtrVars(source.code)
           used == detectExpPtrUses(source.code, vars)
<1>1. IsSupported(source, vars)
  BY SupportedIs
<1>2. vars \in Seq(Variables)
  <2>1. source \in Sources
    BY DEF SFInv, PassInv
  <2> HIDE DEF vars, used
  <2> QED BY <2>1, SourceLists DEF vars, used
<1> HIDE DEF vars
<1> QED BY <1>1, <1>2, SupportedScan DEF IsSupported

(* The loop that is found has one exit and one end, which was not cut.     *)
LEMMA SupportedFind ==
  ASSUME SFInv, SplitInv, source \in Supported, findLoop
  PROVE  stage' = "looping" /\ CutsMade'
<1> DEFINE end == BodyEndOf(succ, loop)
<1>1. /\ stage = "splitting" /\ i > Len(VarUsePoints)
      /\ UNCHANGED <<source, succ, loop, AnnotatedVars>>
  BY DEF findLoop, irVars, useVars
<1>2. CutsOK /\ SplittingOK /\ PointsOK /\ ListsOK
  BY <1>1 DEF SFInv, PassInv, InSplitting, SplittingOK, SplitInv
<1>3. loop.Header # NullBlock /\ KeptLoop(succ, loop)
  BY <1>2, SupportedLoop DEF SplittingOK
<1>4. IsLoop(succ, loop) /\ IsLeftAtHeader(succ, loop) /\ HasEnd(succ, loop)
  BY <1>3, SupportedLoop DEF KeptLoop
<1>5. /\ Cardinality(ExitEdges(succ, loop)) = 1
      /\ end \in DOMAIN succ /\ end # NullBlock /\ loop.Latch \in SuccessorsOf(succ, end)
  <2> DEFINE s == succ
             L == loop
             n == Cardinality(DOMAIN s)
  <2>1. IsNumbered(s, n)
    BY <1>2 DEF SplittingOK
  <2>2. IsLoop(s, L) /\ IsLeftAtHeader(s, L) /\ HasEnd(s, L)
    BY <1>4
  <2> HIDE DEF s, L, n
  <2>3. Cardinality(ExitEdges(s, L)) = 1
    BY <2>1, <2>2, OneExit
  <2>4. /\ BodyEndOf(s, L) # NullBlock /\ BodyEndOf(s, L) \in DOMAIN s
        /\ PredecessorsOf(s, L.Latch) = {BodyEndOf(s, L)}
    BY <2>1, <2>2, EndOf
  <2>5. L.Latch \in SuccessorsOf(s, BodyEndOf(s, L))
    BY <2>4 DEF PredecessorsOf
  <2> QED BY <2>3, <2>4, <2>5 DEF s, L
<1>6. Len(succ[loop.Header]) = 2
  BY <1>4 DEF IsLoop
<1>7. stage' = "looping" /\ EndBlocks' = Append(EndBlocks, end) /\ body' = succ
  BY <1>3, <1>5, <1>6 DEF findLoop
<1> HIDE DEF end
<1>8. end \notin Range(EndBlocks)
  BY <1>2, <1>5 DEF CutsOK
<1>9. EndBlocks \in Seq(Nat)
  BY <1>2 DEF SplittingOK
<1>10. Range(EndBlocks') = Range(EndBlocks) \cup {end}
  BY <1>7, <1>9, AppendRange
<1>11. BodyEnd' = end
  <2>1. Len(EndBlocks') = Len(EndBlocks) + 1 /\ Append(EndBlocks, end)[Len(EndBlocks) + 1] = end
    BY <1>7, <1>9
  <2>2. Last(EndBlocks') = end
    BY <1>7, <2>1 DEF Last
  <2> QED BY <2>2 DEF BodyEnd
<1>12. Cuts' = Range(EndBlocks)
  BY <1>8, <1>10, <1>11 DEF Cuts
<1>13. Cardinality(Range(EndBlocks)) = NumNewLoops'
  <2>1. Cardinality(Range(EndBlocks)) = Len(EndBlocks)
    BY <1>2, <1>9, DistinctCount DEF CutsOK
  <2>2. i \in 1 .. Len(VarUsePoints) + 1 /\ Len(VarUsePoints) \in Nat
    BY <1>2 DEF PointsOK, ListsOK
  <2>3. i - 1 = Len(VarUsePoints)
    BY <1>1, <2>2
  <2> QED BY <1>1, <1>2, <2>1, <2>3 DEF CutsOK, NumNewLoops
<1>14. Range(EndBlocks) \subseteq Body(loop)
  BY <1>2 DEF CutsOK
<1> QED BY <1>1, <1>2, <1>5, <1>7, <1>11, <1>12, <1>13, <1>14 DEF CutsOK, CutsMade

LEMMA CutsKept ==
  ASSUME CutsMade, UNCHANGED <<loop, EndBlocks, body, AnnotatedVars>>
  PROVE  CutsMade' /\ Cuts' = Cuts /\ BodyEnd' = BodyEnd
BY DEF CutsMade, Cuts, BodyEnd, NumNewLoops, IsConnected

(* The end of the body goes to the latch only, and by one edge.            *)
LEMMA EndIsNoBranch ==
  ASSUME FoundOK, IsAcyclic(body, loop), BodyEnd # NullBlock
  PROVE  /\ BodyEnd \in Body(loop) \ Branches(body, loop)
         /\ SuccessorsOf(body, BodyEnd) \cap Body(loop) = {}
<1>1. /\ IsNumbered(body, Size) /\ IsLoop(body, loop) /\ IsLeftAtHeader(body, loop)
      /\ BodyEnd = BodyEndOf(body, loop)
  BY DEF FoundOK, KeptLoop
<1>2. /\ loop.Blocks \subseteq DOMAIN body /\ Body(loop) \subseteq loop.Blocks
      /\ Body(loop) # {}
      /\ \A b \in Body(loop) : SuccessorsOf(body, b) \cap loop.Blocks # {} /\ loop.Header \notin SuccessorsOf(body, b)
  BY <1>1 DEF IsLoop, Body
<1>3. PICK b \in Body(loop) : SuccessorsOf(body, b) \cap Body(loop) = {}
  BY <1>2 DEF IsAcyclic
<1>4. b = BodyEnd
  BY <1>2, <1>3, StaysInBody
<1>5. SuccessorsOf(body, b) \subseteq {loop.Latch}
  <2>1. SuccessorsOf(body, b) \subseteq loop.Blocks
    BY <1>1 DEF IsLeftAtHeader, Body
  <2> QED BY <1>2, <1>3, <2>1 DEF Body
<1>6. HasEnd(body, loop)
  <2> DEFINE s == body
             L == loop
             n == Size
  <2>1. IsNumbered(s, n) /\ BodyEndOf(s, L) # NullBlock
    BY <1>1
  <2> HIDE DEF s, L, n
  <2>2. HasEnd(s, L)
    BY <2>1, EndOf
  <2> QED BY <2>2 DEF s, L
<1>7. ~(Len(body[b]) > 1)
  <2> SUFFICES ASSUME Len(body[b]) > 1 PROVE FALSE
    OBVIOUS
  <2>1. PICK e \in DOMAIN body : \E k \in DOMAIN body[e] :
          \A a \in DOMAIN body : \A j \in DOMAIN body[a] : body[a][j] = loop.Latch <=> a = e /\ j = k
    BY <1>6 DEF HasEnd
  <2>2. PICK k \in DOMAIN body[e] :
          \A a \in DOMAIN body : \A j \in DOMAIN body[a] : body[a][j] = loop.Latch <=> a = e /\ j = k
    BY <2>1
  <2>3. 1 \in DOMAIN body[b] /\ 2 \in DOMAIN body[b]
    <3> DEFINE R == 2 .. Size
               list == body[b]
    <3>1. list \in Seq(R) /\ Len(list) > 1
      BY <1>1, <1>2 DEF IsNumbered
    <3> HIDE DEF R, list
    <3>2. 1 \in DOMAIN list /\ 2 \in DOMAIN list
      BY <3>1
    <3> QED BY <3>2 DEF list
  <2>4. body[b][1] = loop.Latch /\ body[b][2] = loop.Latch
    BY <1>5, <2>3, SuccessorsAre
  <2>5. b \in DOMAIN body
    BY <1>2
  <2>6. 1 = k /\ 2 = k
    BY <2>2, <2>3, <2>4, <2>5
  <2> QED BY <2>6
<1> QED BY <1>3, <1>4, <1>7 DEF Branches

(* Before the walk nothing was visited, and the begin of the body is next. *)
LEMMA SupportedStart ==
  ASSUME SFInv, SplitInv, source \in Supported, stitchLastLoop
  PROVE  /\ stage' = "walking" /\ CutsMade'
         /\ \E D \in SUBSET Body(loop') : IsVisited(D)'
<1>1. /\ stage = "stitching" /\ stage' = "walking"
      /\ walk' = <<<<BodyBegin(body, loop), 1>>>>
      /\ UNCHANGED <<loop, EndBlocks, body, AnnotatedVars, LoopBlocks>>
  BY DEF stitchLastLoop, useVars, loopVars
<1>2. CutsMade /\ LoopingOK
  BY <1>1 DEF SplitInv, InSplitting, SFInv, PassInv
<1>3. CutsMade' /\ Cuts' = Cuts /\ BodyEnd' = BodyEnd
  BY <1>1, <1>2, CutsKept
<1> DEFINE begin == BodyBegin(body, loop)
<1>4. BodyBegin(body', loop') = begin
  BY <1>1
<1> HIDE DEF begin
<1>5. DOMAIN walk' = {1} /\ walk'[1] = <<begin, 1>> /\ Len(walk') = 1
  BY <1>1 DEF begin
<1>6. begin \in Pending'
  <2>1. walk'[1][1] = begin
    BY <1>5
  <2> QED BY <1>5, <2>1 DEF Pending
<1>7. Len(LoopBlocks') \in Nat
  <2> DEFINE P == Seq(Body(loop)) \ {<<>>}
  <2>1. LoopBlocks \in Seq(P)
    BY <1>2 DEF LoopingOK, WalkOK, CutsMade
  <2> HIDE DEF P
  <2> QED BY <1>1, <2>1
<1>8. Len(LoopBlocks') + Len(walk') >= Cardinality({} \cap Cuts') + 1
  <2>1. Cardinality({} \cap Cuts') = 0
    <3>1. {} \cap Cuts' = {}
      OBVIOUS
    <3> QED BY <3>1, FS_EmptySet
  <2> QED BY <1>5, <1>7, <2>1
<1>9. IsVisited({})'
  <2>1. /\ BodyBegin(body', loop') \in {} \cup Pending'
        /\ \A b \in {} \ {BodyEnd'} : SuccessorsOf(body', b) \subseteq {} \cup Pending'
        /\ Len(LoopBlocks') + Len(walk')
             >= Cardinality({} \cap Cuts') + (IF {} \cap Branches(body', loop') = {} THEN 1 ELSE 2)
    BY <1>4, <1>6, <1>8
  <2> QED BY <2>1 DEF IsVisited
<1> QED BY <1>1, <1>3, <1>9

(* A call visits one more block.  It ends a set of blocks at a cut and at  *)
(* the end of the body, and is followed by one call for each successor.    *)
LEMMA SupportedTraverse ==
  ASSUME SFInv, SplitInv, source \in Supported, traverseLoopBody
  PROVE  /\ stage' = "walking" /\ CutsMade'
         /\ \E D \in SUBSET Body(loop') : IsVisited(D)'
<1> DEFINE b == walk[1][1]
           depth == walk[1][2]
           list == Recursion(b)
           visited == Append(Blocks, b)
           R == 2 .. Size
           W == R \X (Nat \ {0})
<1>1. /\ stage = "walking" /\ stage' = "walking" /\ walk # <<>>
      /\ LoopBlocks' = IF b \in Range(EndBlocks) THEN Append(LoopBlocks, visited) ELSE LoopBlocks
      /\ walk' = [k \in DOMAIN list |-> <<list[k], depth + 1>>] \o Tail(walk)
      /\ UNCHANGED <<loop, EndBlocks, body, AnnotatedVars>>
  <2>1. /\ stage = "walking" /\ walk # <<>>
        /\ UNCHANGED <<loop, stage, EndBlocks, body, AnnotatedVars>>
    BY DEF traverseLoopBody, loopVars, useVars, irVars
  <2>2. walk' = [k \in DOMAIN list |-> <<list[k], depth + 1>>] \o Tail(walk)
    BY DEF traverseLoopBody
  <2>3. LoopBlocks' = IF b \in Range(EndBlocks) THEN Append(LoopBlocks, visited) ELSE LoopBlocks
    BY DEF traverseLoopBody
  <2> HIDE DEF b, depth, list, visited
  <2> QED BY <2>1, <2>2, <2>3
<1>2. CutsMade /\ LoopingOK /\ \E D \in SUBSET Body(loop) : IsVisited(D)
  BY <1>1 DEF SplitInv, InSplitting, SFInv, PassInv
<1>3. CutsMade' /\ Cuts' = Cuts /\ BodyEnd' = BodyEnd
  BY <1>1, <1>2, CutsKept
<1>4. FoundOK /\ LoopsOK /\ EdgesOK /\ WalkOK /\ BodyEnd # NullBlock /\ IsAcyclic(body, loop)
  BY <1>2, SupportedLoop DEF LoopingOK, CutsMade, FoundOK, KeptLoop
<1>5. walk \in Seq(W) /\ 1 \in DOMAIN walk /\ b \in R /\ depth \in Nat \ {0}
  <2>1. walk \in Seq(W)
    BY <1>1, <1>4 DEF WalkOK
  <2> DEFINE w == walk
  <2>2. w \in Seq(W) /\ w # <<>>
    BY <1>1, <2>1
  <2> HIDE DEF W, w
  <2>3. 1 \in DOMAIN w /\ w[1] \in W
    BY <2>2
  <2> QED BY <2>1, <2>3 DEF W, w
<1>6. b \in Body(loop)
  BY <1>1, <1>4, <1>5 DEF WalkOK
<1> HIDE DEF b, depth
<1>7. b \in DOMAIN body /\ succ[b] = body[b] /\ body[b] \in Seq(R) /\ Len(body[b]) >= 1
  <2>1. IsLoop(body, loop) /\ IsNumbered(body, Size)
    BY <1>4 DEF FoundOK, KeptLoop
  <2>2. b \in DOMAIN body /\ b # Entry
    BY <1>6, <2>1 DEF IsLoop, Body
  <2>3. body[b] \in Seq(R)
    BY <2>1, <2>2 DEF IsNumbered
  <2>4. SuccessorsOf(body, b) # {}
    BY <1>6, <2>1 DEF IsLoop, Body
  <2> DEFINE t == body[b]
  <2>5. t \in Seq(R) /\ DOMAIN t # {}
    BY <2>3, <2>4 DEF SuccessorsOf
  <2> HIDE DEF R, t
  <2>6. Len(t) >= 1
    BY <2>5
  <2> QED BY <1>1, <1>4, <2>2, <2>3, <2>6 DEF EdgesOK, t
<1>8. list = IF b = BodyEnd THEN <<>> ELSE body[b]
  BY <1>7 DEF Recursion
<1>9. list \in Seq(R)
  <2> HIDE DEF R, list
  <2>1. <<>> \in Seq(R)
    OBVIOUS
  <2> QED BY <1>7, <1>8, <2>1
<1> HIDE DEF list
<1>10. IsOneOf(walk, list, depth, walk', R)
  <2> DEFINE w == walk
             u == walk'
  <2>1. CallsOn(w, list, depth, u) /\ w \in Seq(R \X (Nat \ {0}))
    BY <1>1, <1>5 DEF CallsOn
  <2> HIDE DEF w, u, R
  <2>2. IsOneOf(w, list, depth, u, R)
    BY <1>9, <2>1, NextCalls
  <2> QED BY <2>2 DEF w, u
<1>11. Pending \subseteq {b} \cup Pending'
  <2> SUFFICES ASSUME NEW k \in DOMAIN walk PROVE walk[k][1] \in {b} \cup Pending'
    BY DEF Pending
  <2>1. CASE k = 1
    BY <2>1 DEF b
  <2>2. CASE k # 1
    <3>1. PICK j \in DOMAIN walk' : walk'[j] = walk[k]
      BY <1>10, <2>2 DEF IsOneOf
    <3>2. walk[k][1] = walk'[j][1]
      BY <3>1
    <3> QED BY <3>2 DEF Pending
  <2> QED BY <2>1, <2>2
<1>12. \A k \in DOMAIN list : list[k] \in Pending'
  <2> SUFFICES ASSUME NEW k \in DOMAIN list PROVE list[k] \in Pending'
    OBVIOUS
  <2>1. PICK j \in DOMAIN walk' : walk'[j] = <<list[k], depth + 1>>
    BY <1>10 DEF IsOneOf
  <2>2. walk'[j][1] = list[k]
    BY <2>1
  <2> QED BY <2>2 DEF Pending
<1>13. PICK D \in SUBSET Body(loop) : IsVisited(D)
  BY <1>2
<1> DEFINE begin == BodyBegin(body, loop)
<1>0. PICK E \in SUBSET Body(loop) : E = D \cup {b}
  BY <1>6
<1>14. begin \in E \cup Pending'
  BY <1>0, <1>11, <1>13 DEF IsVisited
<1>15. ASSUME NEW a \in E, a # BodyEnd PROVE SuccessorsOf(body, a) \subseteq E \cup Pending'
  <2>1. CASE a = b
    BY <1>0, <1>8, <1>12, <1>15, <2>1 DEF SuccessorsOf
  <2>2. CASE a # b
    BY <1>0, <1>11, <1>13, <1>15, <2>2 DEF IsVisited
  <2> QED BY <2>1, <2>2
<1> DEFINE made == Len(LoopBlocks)
           calls == Len(walk)
           c == Cardinality(D \cap Cuts)
           d == Cardinality(E \cap Cuts)
           B == Branches(body, loop)
<1>16. made \in Nat /\ Len(LoopBlocks') = IF b \in Cuts \/ b = BodyEnd THEN made + 1 ELSE made
  <2> DEFINE P == Seq(Body(loop)) \ {<<>>}
             lists == LoopBlocks
  <2>1. lists \in Seq(P)
    BY <1>4 DEF WalkOK
  <2>2. LoopBlocks' = IF b \in Range(EndBlocks) THEN Append(lists, visited) ELSE lists
    BY <1>1
  <2> HIDE DEF P, lists, visited
  <2>3. Len(lists) \in Nat /\ Len(Append(lists, visited)) = Len(lists) + 1
    BY <2>1
  <2>4. b \in Range(EndBlocks) <=> b \in Cuts \/ b = BodyEnd
    <3>1. BodyEnd \in Range(EndBlocks)
      <4> DEFINE ends == EndBlocks
      <4>1. ends \in Seq(Nat) /\ ends # <<>>
        BY <1>4 DEF FoundOK
      <4> HIDE DEF ends
      <4>2. Len(ends) \in DOMAIN ends
        BY <4>1
      <4> QED BY <4>2 DEF BodyEnd, Last, Range, ends
    <3> QED BY <3>1 DEF Cuts
  <2> QED BY <2>2, <2>3, <2>4 DEF lists
<1>17. calls \in Nat /\ Len(walk') = Len(list) + calls - 1
  <2>1. Len(walk) \in Nat
    <3> HIDE DEF W
    <3> QED BY <1>5
  <2> QED BY <1>10, <2>1 DEF IsOneOf
<1>18. /\ c \in Nat /\ d \in Nat
       /\ d <= IF b \in Cuts THEN c + 1 ELSE c
  <2>1. IsFiniteSet(Cuts)
    <3>1. IsFiniteSet(DOMAIN body) /\ Body(loop) \subseteq DOMAIN body
      <4> DEFINE s == body
                 n == Size
      <4>1. IsNumbered(s, n)
        BY <1>4 DEF FoundOK
      <4> HIDE DEF s, n
      <4>2. IsFiniteSet(DOMAIN s)
        BY <4>1, NumberedSize
      <4> QED BY <1>4, <4>2 DEF s, FoundOK, KeptLoop, IsLoop, Body
    <3>2. Cuts \in SUBSET DOMAIN body
      BY <1>2, <3>1 DEF CutsMade
    <3> QED BY <3>1, <3>2, FS_Subset
  <2> DEFINE S == D \cap Cuts
             T == E \cap Cuts
  <2>2. IsFiniteSet(S)
    BY <2>1, FS_Subset
  <2>3. T = IF b \in Cuts THEN S \cup {b} ELSE S
    BY <1>0
  <2> HIDE DEF S, T
  <2>4. /\ Cardinality(S) \in Nat
        /\ Cardinality(S \cup {b}) = IF b \in S THEN Cardinality(S) ELSE Cardinality(S) + 1
    BY <2>2, FS_CardinalityType, FS_AddElement
  <2>5. /\ Cardinality(S) \in Nat /\ Cardinality(T) \in Nat
        /\ Cardinality(T) <= IF b \in Cuts THEN Cardinality(S) + 1 ELSE Cardinality(S)
    BY <2>3, <2>4
  <2> QED BY <2>5 DEF S, T
<1>19. made + calls >= c + (IF D \cap B = {} THEN 1 ELSE 2)
  BY <1>13 DEF IsVisited
<1>20. /\ b # BodyEnd => Len(list) \in Nat /\ Len(list) >= 1 /\ (b \in B => Len(list) >= 2)
       /\ b = BodyEnd => Len(list) = 0 /\ b \notin B /\ b \notin Cuts
  <2>1. ASSUME b # BodyEnd PROVE Len(list) \in Nat /\ Len(list) >= 1 /\ (b \in B => Len(list) >= 2)
    <3>1. Len(list) \in Nat
      <4> HIDE DEF R
      <4> QED BY <1>9
    <3>2. list = body[b]
      BY <1>8, <2>1
    <3>3. b \in B => Len(list) > 1
      BY <3>2 DEF Branches
    <3> QED BY <1>7, <3>1, <3>2, <3>3
  <2>2. ASSUME b = BodyEnd PROVE Len(list) = 0 /\ b \notin B /\ b \notin Cuts
    <3>1. Len(list) = 0
      BY <1>8, <2>2
    <3> QED BY <1>4, <2>2, <3>1, EndIsNoBranch DEF Cuts
  <2> QED BY <2>1, <2>2
<1>21. E \cap B = IF b \in B THEN (D \cap B) \cup {b} ELSE D \cap B
  BY <1>0
<1> HIDE DEF made, calls, c, d, B, begin
<1>22. Len(LoopBlocks') + Len(walk') >= d + (IF E \cap B = {} THEN 1 ELSE 2)
  <2>1. CASE b = BodyEnd
    BY <1>16, <1>17, <1>18, <1>19, <1>20, <1>21, <2>1
  <2>2. CASE b # BodyEnd /\ b \in B
    BY <1>16, <1>17, <1>18, <1>19, <1>20, <2>2
  <2>3. CASE b # BodyEnd /\ b \notin B
    BY <1>16, <1>17, <1>18, <1>19, <1>20, <1>21, <2>3
  <2> QED BY <2>1, <2>2, <2>3
<1>23. IsVisited(E)'
  <2>1. BodyBegin(body', loop') = begin /\ Branches(body', loop') = B
    BY <1>1 DEF begin, B
  <2>2. \A a \in E \ {BodyEnd'} : SuccessorsOf(body', a) \subseteq E \cup Pending'
    BY <1>1, <1>3, <1>15
  <2>3. Cardinality(E \cap Cuts') = d
    BY <1>3 DEF d
  <2>4. /\ BodyBegin(body', loop') \in E \cup Pending'
        /\ Len(LoopBlocks') + Len(walk')
             >= Cardinality(E \cap Cuts') + (IF E \cap Branches(body', loop') = {} THEN 1 ELSE 2)
    BY <1>14, <1>22, <2>1, <2>3
  <2> QED BY <2>2, <2>4 DEF IsVisited
<1>24. E \in SUBSET Body(loop')
  BY <1>1
<1> QED BY <1>1, <1>3, <1>23, <1>24

LEMMA SourceStays ==
  ASSUME LSNext
  PROVE  UNCHANGED source
BY DEF LSNext, detect, splitAtUse, findLoop, addLoop, addParentLoop, stitchLoop, stitchLastLoop,
       traverseLoopBody, overflowStack, dropExtraSet, assignBlocks, finish

LEMMA SupportedStays ==
  ASSUME UNCHANGED source
  PROVE  source' \in Supported' <=> source \in Supported
<1>1. Supported' = Supported
  BY DEF Supported
<1> QED BY <1>1

LEMMA LoopSame ==
  ASSUME SplitInv, UNCHANGED lsVars
  PROVE  SplitInv'
<1>1. /\ UNCHANGED <<source, succ, code, loop, stage, i, AnnotatedVars, VarUsePoints, EndBlocks, body>>
      /\ UNCHANGED <<walk, LoopBlocks>>
  BY DEF lsVars, irVars, useVars, loopVars, walkVars
<1>2. SUFFICES ASSUME source \in Supported PROVE SplitInv'
  BY <1>1, SupportedStays DEF SplitInv
<1>3. CutsOK' <=> CutsOK
  BY <1>1 DEF CutsOK, IsConnected, Points
<1>4. CutsMade' <=> CutsMade
  BY <1>1 DEF CutsMade, Cuts, BodyEnd, NumNewLoops, IsConnected
<1>5. \A D : IsVisited(D)' <=> IsVisited(D)
  BY <1>1 DEF IsVisited, Pending, Cuts, BodyEnd
<1>6. NumNewLoops' = NumNewLoops /\ InSplitting' = InSplitting
  BY <1>1 DEF NumNewLoops, InSplitting
<1> QED BY <1>1, <1>2, <1>3, <1>4, <1>5, <1>6 DEF SplitInv

(* The walk through a supported body does not go round.                    *)
LEMMA SupportedWalkEnds ==
  ASSUME SFInv, SFInv', SplitInv, source \in Supported, overflowStack
  PROVE  FALSE
<1>1. /\ stage = "walking" /\ stage' = "overflowed"
      /\ UNCHANGED <<loop, EndBlocks, body, AnnotatedVars>>
  BY DEF overflowStack, irVars, useVars, loopVars
<1>2. CutsMade /\ FoundOK
  BY <1>1 DEF SplitInv, InSplitting, SFInv, PassInv, LoopingOK
<1>3. BodyEnd # NullBlock /\ IsAcyclic(body, loop)
  BY <1>2, SupportedLoop DEF CutsMade, FoundOK, KeptLoop
<1>4. BodyEnd' # NullBlock /\ IsAcyclic(body', loop')
  BY <1>1, <1>3 DEF BodyEnd
<1>5. BodyEnd' = NullBlock \/ ~IsAcyclic(body', loop')
  BY <1>1 DEF SFInv, PassInv, InSplitting, LoopingOK, WalkOK
<1> QED BY <1>4, <1>5

(* After the walk all blocks have been visited, the branches among them.   *)
LEMMA SupportedDrop ==
  ASSUME SFInv, SplitInv, source \in Supported, dropExtraSet
  PROVE  stage' = "assigning" /\ CutsMade' /\ Len(LoopBlocks') >= NumNewLoops' + 1
<1>1. /\ stage = "walking" /\ walk = <<>>
      /\ UNCHANGED <<loop, EndBlocks, body, AnnotatedVars>>
  BY DEF dropExtraSet, irVars, useVars, loopVars
<1>2. CutsMade /\ LoopingOK /\ \E D \in SUBSET Body(loop) : IsVisited(D)
  BY <1>1 DEF SplitInv, InSplitting, SFInv, PassInv
<1>3. CutsMade' /\ NumNewLoops' = NumNewLoops
  BY <1>1, <1>2, CutsKept DEF NumNewLoops
<1>4. FoundOK /\ WalkOK /\ BodyEnd # NullBlock /\ IsAcyclic(body, loop)
  BY <1>2, SupportedLoop DEF LoopingOK, CutsMade, FoundOK, KeptLoop
<1>5. PICK D \in SUBSET Body(loop) : IsVisited(D)
  BY <1>2
<1>6. Pending = {} /\ Len(walk) = 0
  BY <1>1 DEF Pending
<1>7. D = Body(loop)
  <2>1. BodyBegin(body, loop) \in D
    BY <1>5, <1>6 DEF IsVisited
  <2>2. ASSUME NEW b \in D PROVE SuccessorsOf(body, b) \cap Body(loop) \subseteq D
    <3>1. CASE b = BodyEnd
      BY <1>4, <3>1, EndIsNoBranch
    <3>2. CASE b # BodyEnd
      BY <1>5, <1>6, <3>2 DEF IsVisited
    <3> QED BY <3>1, <3>2
  <2> QED BY <1>2, <2>1, <2>2 DEF CutsMade, IsConnected
<1>8. D \cap Cuts = Cuts /\ D \cap Branches(body, loop) # {}
  BY <1>2, <1>7 DEF CutsMade, Branches
<1>9. NumNewLoops \in Nat
  BY <1>4 DEF FoundOK
<1> DEFINE lists == LoopBlocks
           P == Seq(Body(loop)) \ {<<>>}
<1>10. lists \in Seq(P)
  BY <1>4 DEF WalkOK
<1> HIDE DEF P
<1>11. Len(lists) >= NumNewLoops + 2
  <2>1. Len(lists) \in Nat
    <3> HIDE DEF lists
    <3> QED BY <1>10
  <2>2. Len(lists) + Len(walk) >= Cardinality(Cuts) + 2
    BY <1>5, <1>8 DEF IsVisited
  <2> QED BY <1>2, <1>6, <2>1, <2>2 DEF CutsMade
<1>12. lists # <<>> /\ Len(Front(lists)) = Len(lists) - 1
  <2> HIDE DEF lists
  <2>1. Len(lists) \in Nat /\ Len(lists) > 0
    BY <1>9, <1>10, <1>11
  <2>2. lists # <<>>
    BY <2>1
  <2>3. Front(lists) = SubSeq(lists, 1, Len(lists) - 1)
    BY DEF Front
  <2> DEFINE m == Len(lists) - 1
  <2>4. m \in Nat /\ m <= Len(lists) /\ Len(lists) = m + 1
    BY <2>1
  <2> HIDE DEF m
  <2>5. Len(SubSeq(lists, 1, m)) = m
    BY <1>10, <2>4
  <2> QED BY <2>2, <2>3, <2>5 DEF m
<1>13. stage' = "assigning" /\ LoopBlocks' = Front(lists)
  BY <1>12 DEF dropExtraSet
<1> HIDE DEF lists
<1>14. Len(LoopBlocks') >= NumNewLoops + 1
  <2>1. Len(lists) \in Nat
    BY <1>10
  <2> QED BY <1>9, <1>11, <1>12, <1>13, <2>1
<1> QED BY <1>3, <1>13, <1>14

(* There is a set of blocks for each loop.                                 *)
LEMMA SupportedAssign ==
  ASSUME SFInv, SplitInv, source \in Supported, assignBlocks
  PROVE  stage' = "assigning" /\ CutsMade' /\ Len(LoopBlocks') >= NumNewLoops' + 1
<1>1. /\ stage = "assigning" /\ i <= Len(Loops)
      /\ UNCHANGED <<loop, EndBlocks, body, AnnotatedVars, LoopBlocks>>
  BY DEF assignBlocks, useVars, loopVars, walkVars
<1>2. CutsMade /\ LoopingOK /\ Len(LoopBlocks) >= NumNewLoops + 1
  BY <1>1 DEF SplitInv, InSplitting, SFInv, PassInv
<1>3. CutsMade' /\ NumNewLoops' = NumNewLoops
  BY <1>1, <1>2, CutsKept DEF NumNewLoops
<1>4. Len(LoopBlocks) \in Nat
  <2> DEFINE lists == LoopBlocks
             P == Seq(Body(loop)) \ {<<>>}
  <2>1. lists \in Seq(P)
    BY <1>2 DEF LoopingOK, WalkOK, CutsMade
  <2> HIDE DEF P, lists
  <2>2. Len(lists) \in Nat
    BY <2>1
  <2> QED BY <2>2 DEF lists
<1>5. Len(Loops) = NumNewLoops + 1 /\ i \in 1 .. Len(Loops) + 1 /\ NumNewLoops \in Nat
  BY <1>1, <1>2 DEF LoopingOK, LoopsOK, FoundOK
<1>6. i <= Len(LoopBlocks)
  BY <1>1, <1>2, <1>4, <1>5
<1>7. stage' = "assigning"
  BY <1>1, <1>6 DEF assignBlocks
<1> QED BY <1>1, <1>2, <1>3, <1>7

LEMMA SplitInvStep ==
  ASSUME SFInv, SplitInv, [SFNext]_sfVars, SFInv'
  PROVE  SplitInv'
<1>1. CASE UNCHANGED lsVars
  BY <1>1, LoopSame DEF SplitInv
<1>2. CASE LSNext
  <2>1. UNCHANGED source
    BY <1>2, SourceStays
  <2>2. SUFFICES ASSUME source \in Supported PROVE SplitInv'
    BY <2>1, SupportedStays DEF SplitInv
  <2>3. /\ stage \notin {"unchanged", "aborted", "crashed", "overflowed", "undefined"}
        /\ ~InSplitting => CutsMade
    BY <2>2 DEF SplitInv
  <2>4. CASE detect
    BY <2>2, <2>4, SupportedDetect DEF SplitInv, InSplitting
  <2>5. CASE splitAtUse
    BY <2>2, <2>5, SupportedSplit DEF SplitInv, InSplitting
  <2>6. CASE findLoop
    BY <2>2, <2>6, SupportedFind DEF SplitInv, InSplitting
  <2>7. CASE addLoop \/ addParentLoop \/ stitchLoop \/ finish
    <3>1. /\ stage' \in {"looping", "stitching", "done"} /\ ~InSplitting
          /\ UNCHANGED <<loop, EndBlocks, body, AnnotatedVars>>
      BY <2>7 DEF addLoop, addParentLoop, stitchLoop, finish, InSplitting, irVars, useVars, loopVars
    <3>2. CutsMade'
      BY <2>3, <3>1, CutsKept
    <3> QED BY <3>1, <3>2 DEF SplitInv
  <2>8. CASE stitchLastLoop
    BY <2>2, <2>8, SupportedStart DEF SplitInv
  <2>9. CASE traverseLoopBody
    BY <2>2, <2>9, SupportedTraverse DEF SplitInv
  <2>10. CASE overflowStack
    BY <2>2, <2>10, SupportedWalkEnds
  <2>11. CASE dropExtraSet
    BY <2>2, <2>11, SupportedDrop DEF SplitInv
  <2>12. CASE assignBlocks
    BY <2>2, <2>12, SupportedAssign DEF SplitInv
  <2> QED BY <1>2, <2>4, <2>5, <2>6, <2>7, <2>8, <2>9, <2>10, <2>11, <2>12 DEF LSNext
<1>3. CASE Call \/ RunHeader \/ RunLatch \/ RunBlock \/ Overrun \/ Return
  BY <1>1, <1>3 DEF Call, RunHeader, RunLatch, RunBlock, Overrun, Return
<1>4. CASE UNCHANGED sfVars
  BY <1>1, <1>4 DEF sfVars
<1> QED BY <1>2, <1>3, <1>4 DEF SFNext, Split

(* Of any function that it supports, the pass makes the loops: it does not *)
(* fail, nor leave the function as it was.  There is a set of blocks for   *)
(* each loop after one was dropped, for a branch brings the walk to the    *)
(* end of the body twice.                                                  *)
THEOREM SupportedSplits == SFSpec => []SupportedIsSplit
<1>1. SFInit => SFInv /\ SplitInv
  <2> SUFFICES ASSUME SFInit PROVE SFInv /\ SplitInv
    OBVIOUS
  <2>1. SFInv
    BY InitOK
  <2>2. stage = "start" /\ EndBlocks = <<>>
    BY DEF SFInit, LSInit
  <2>3. SplitInv
    BY <2>2 DEF SplitInv, InSplitting
  <2> QED BY <2>1, <2>3
<1>2. SFInv /\ SplitInv /\ [SFNext]_sfVars => SFInv' /\ SplitInv'
  BY InvStep, SplitInvStep
<1>3. SplitInv => SupportedIsSplit
  BY DEF SplitInv, SupportedIsSplit
<1> QED BY <1>1, <1>2, <1>3, PTL DEF SFSpec
==============================================================================
