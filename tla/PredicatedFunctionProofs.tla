----------------------- MODULE PredicatedFunctionProofs -----------------------
(***************************************************************************)
(* First, what the reverse post order of any function is good for: in an   *)
(* acyclic function every edge leads forward, and a block that can only be *)
(* entered through the last edge of another one comes right behind it.     *)
(* Then the mask ids PacketPathAnalysis gives to the blocks.  Its          *)
(* inductive invariant adds to the one of the traversal what the loop over *)
(* the reverse post order has established for the blocks it passed.        *)
(*                                                                         *)
(* At last the block predication of any function.  A supported function is *)
(* linearised: the second traversal puts the blocks in the order in which  *)
(* the analysis has numbered them, so that the ids that were found to      *)
(* separate them still do.                                                 *)
(***************************************************************************)
EXTENDS PredicatedFunction, FiniteSetTheorems, WellFoundedInduction, TLAPS

(* The least and the greatest element of a set of natural numbers. *)
LEMMA SmallestElement ==
  ASSUME NEW S \in SUBSET Nat, S # {}
  PROVE  \E i \in S : \A k \in S : i <= k
<1> DEFINE R == OpToRel(<, Nat)
<1>1. IsWellFoundedOn(R, Nat)
  BY NatLessThanWellFounded
<1>2. \A i, k \in Nat : <<k, i>> \in R <=> k < i
  BY DEF OpToRel
<1> HIDE DEF R
<1>3. PICK i \in S : \A k \in S : ~(<<k, i>> \in R)
  BY <1>1, WFMin
<1>4. ASSUME NEW k \in S PROVE i <= k
  <2>1. i \in Nat /\ k \in Nat
    OBVIOUS
  <2>2. ~(k < i)
    BY <1>2, <1>3, <2>1
  <2> QED BY <2>1, <2>2
<1> QED BY <1>4

LEMMA GreatestElement ==
  ASSUME NEW n \in Nat, NEW S \in SUBSET (0 .. n), S # {}
  PROVE  \E i \in S : \A k \in S : i >= k
<1> DEFINE T == {n - k : k \in S}
<1>1. T \in SUBSET Nat /\ T # {}
  <2>1. \A k \in 0 .. n : n - k \in Nat
    OBVIOUS
  <2> QED BY <2>1
<1>2. PICK i \in T : \A k \in T : i <= k
  BY <1>1, SmallestElement
<1>3. PICK j \in S : i = n - j
  BY <1>2
<1>4. ASSUME NEW k \in S PROVE j >= k
  <2>1. n - j <= n - k
    BY <1>2, <1>3, <1>4
  <2> QED BY <2>1
<1> QED BY <1>4

-----------------------------------------------------------------------------

StackTypeOK ==
  /\ WellFormed(F)
  /\ VisitStack \in Seq([block : Blocks(F), next : Nat \ {0}])
  /\ Visited \subseteq Blocks(F)
  /\ PostOrder \in Seq(Blocks(F))

OnStack(i) == VisitStack[i].block
NextOf(i) == VisitStack[i].next

(* Each block of the stack was entered from the one below it, and all its  *)
(* successors up to the next one have been reached.                        *)
StackOK ==
  /\ \A i \in DOMAIN VisitStack : NextOf(i) <= SuccSize(F, OnStack(i)) + 1
  /\ \A i \in DOMAIN VisitStack : i + 1 \in DOMAIN VisitStack =>
       NextOf(i) > 1 /\ F.succ[OnStack(i)][NextOf(i) - 1] = OnStack(i + 1)
  /\ \A i \in DOMAIN VisitStack : \A k \in DOMAIN F.succ[OnStack(i)] :
       k < NextOf(i) => F.succ[OnStack(i)][k] \in Visited

(* A block that has been reached is on the stack or finished, once. *)
ReachedOK ==
  /\ \A i \in DOMAIN VisitStack : OnStack(i) \in Visited
  /\ \A k \in DOMAIN PostOrder : PostOrder[k] \in Visited
  /\ \A b \in Visited : \/ \E i \in DOMAIN VisitStack : OnStack(i) = b
                        \/ \E k \in DOMAIN PostOrder : PostOrder[k] = b
  /\ \A i, j \in DOMAIN VisitStack : OnStack(i) = OnStack(j) => i = j
  /\ \A k, l \in DOMAIN PostOrder : PostOrder[k] = PostOrder[l] => k = l
  /\ \A i \in DOMAIN VisitStack, k \in DOMAIN PostOrder : OnStack(i) # PostOrder[k]
  /\ \A b \in Visited \ {Entry(F)} : \E a \in Blocks(F) : b \in Successors(F, a)

(* A block is finished after its successors. *)
OrderOK ==
  Acyclic(F) =>
    \A k \in DOMAIN PostOrder : \A s \in Successors(F, PostOrder[k]) :
      \E j \in DOMAIN PostOrder : j < k /\ PostOrder[j] = s

(* The last edge of a is the only way to v. *)
IsLastEdge(a, v) == a \in Blocks(F) /\ IncomingEdges(F, v) = {<<a, SuccSize(F, a)>>}

(* Such a v is finished right before a is. *)
NeighboursOK ==
  \A a, v \in Blocks(F) : IsLastEdge(a, v) =>
    /\ \A i \in DOMAIN VisitStack : OnStack(i) = v =>
         i > 1 /\ OnStack(i - 1) = a /\ NextOf(i - 1) = SuccSize(F, a) + 1
    /\ \A k \in DOMAIN PostOrder : PostOrder[k] = v =>
         \/ k < Len(PostOrder) /\ PostOrder[k + 1] = a
         \/ /\ k = Len(PostOrder) /\ VisitStack # <<>>
            /\ Top.block = a /\ Top.next = SuccSize(F, a) + 1

TraversalInv == StackTypeOK /\ StackOK /\ ReachedOK /\ OrderOK /\ NeighboursOK

-----------------------------------------------------------------------------

LEMMA WellFormedFacts ==
  ASSUME NEW f, WellFormed(f)
  PROVE  /\ Entry(f) \in Blocks(f)
         /\ IsFiniteSet(Blocks(f))
         /\ \A b \in Blocks(f) :
              /\ f.succ[b] \in Seq(Blocks(f))
              /\ SuccSize(f, b) \in Nat
              /\ DOMAIN f.succ[b] = 1 .. SuccSize(f, b)
              /\ \A k \in DOMAIN f.succ[b] : f.succ[b][k] \in Blocks(f)
              /\ Successors(f, b) \subseteq Blocks(f)
              /\ Entry(f) \notin Successors(f, b)
<1>1. f.layout \in Seq(Blocks(f)) /\ f.layout # <<>>
  BY DEF WellFormed
<1>2. Entry(f) \in Blocks(f)
  BY <1>1 DEF Entry
<1>3. f.succ \in [Blocks(f) -> Seq(Blocks(f))]
  BY DEF WellFormed
<1>4. ASSUME NEW b \in Blocks(f)
      PROVE  /\ f.succ[b] \in Seq(Blocks(f))
             /\ SuccSize(f, b) \in Nat
             /\ DOMAIN f.succ[b] = 1 .. SuccSize(f, b)
             /\ \A k \in DOMAIN f.succ[b] : f.succ[b][k] \in Blocks(f)
  BY <1>3 DEF SuccSize
<1>5. ASSUME NEW b \in Blocks(f) PROVE Successors(f, b) \subseteq Blocks(f)
  BY <1>4 DEF Successors
<1>6. IsFiniteSet(Blocks(f)) /\ \A b \in Blocks(f) : Entry(f) \notin Successors(f, b)
  BY DEF WellFormed
<1> QED BY <1>2, <1>4, <1>5, <1>6

(* The stack and the sequence have elements at their places. *)
LEMMA StackFacts ==
  ASSUME StackTypeOK
  PROVE  /\ Len(VisitStack) \in Nat /\ DOMAIN VisitStack = 1 .. Len(VisitStack)
         /\ Len(PostOrder) \in Nat /\ DOMAIN PostOrder = 1 .. Len(PostOrder)
         /\ \A i \in DOMAIN VisitStack :
              /\ VisitStack[i] = [block |-> OnStack(i), next |-> NextOf(i)]
              /\ OnStack(i) \in Blocks(F) /\ NextOf(i) \in Nat /\ NextOf(i) > 0
         /\ \A k \in DOMAIN PostOrder : PostOrder[k] \in Blocks(F)
         /\ VisitStack # <<>> => /\ Len(VisitStack) \in DOMAIN VisitStack
                                 /\ Top.block = OnStack(Len(VisitStack))
                                 /\ Top.next = NextOf(Len(VisitStack))
<1> DEFINE E == [block : Blocks(F), next : Nat \ {0}]
<1>1. VisitStack \in Seq(E) /\ PostOrder \in Seq(Blocks(F))
  BY DEF StackTypeOK
<1>2. \A i \in DOMAIN VisitStack : VisitStack[i] \in E
  <2> HIDE DEF E
  <2> QED BY <1>1
<1>3. \A i \in DOMAIN VisitStack :
              /\ VisitStack[i] = [block |-> OnStack(i), next |-> NextOf(i)]
              /\ OnStack(i) \in Blocks(F) /\ NextOf(i) \in Nat /\ NextOf(i) > 0
  BY <1>2 DEF OnStack, NextOf
<1>4. Len(VisitStack) \in Nat /\ DOMAIN VisitStack = 1 .. Len(VisitStack)
      /\ (VisitStack # <<>> => Len(VisitStack) \in DOMAIN VisitStack)
  <2> HIDE DEF E
  <2> QED BY <1>1
<1> QED BY <1>1, <1>3, <1>4 DEF Top, OnStack, NextOf

-----------------------------------------------------------------------------

LastPlace == Len(VisitStack)

(* The three steps, place by place. *)
LEMMA AdvanceShape ==
  ASSUME StackTypeOK, VisitStack # <<>>
  PROVE  LET t == ReplaceTop(Advanced)
         IN /\ t \in Seq([block : Blocks(F), next : Nat \ {0}])
            /\ Len(t) = LastPlace
            /\ \A i \in DOMAIN VisitStack :
                 /\ t[i].block = OnStack(i)
                 /\ t[i].next = IF i = LastPlace THEN NextOf(i) + 1 ELSE NextOf(i)
<1> DEFINE E == [block : Blocks(F), next : Nat \ {0}]
           t == ReplaceTop(Advanced)
<1>1. VisitStack \in Seq(E) /\ LastPlace \in DOMAIN VisitStack
  BY StackFacts DEF StackTypeOK, LastPlace
<1>2. Top = [block |-> OnStack(LastPlace), next |-> NextOf(LastPlace)]
  BY <1>1, StackFacts DEF Top, LastPlace
<1>3. Advanced = [block |-> OnStack(LastPlace), next |-> NextOf(LastPlace) + 1]
  BY <1>2 DEF Advanced
<1>4. Advanced \in E
  BY <1>1, <1>3, StackFacts
<1>5. t = [VisitStack EXCEPT ![LastPlace] = Advanced]
  BY DEF ReplaceTop, LastPlace
<1>6. t \in Seq(E) /\ Len(t) = LastPlace
  <2> HIDE DEF E, t
  <2> QED BY <1>1, <1>4, <1>5 DEF LastPlace
<1>7. \A i \in DOMAIN VisitStack : t[i] = IF i = LastPlace THEN Advanced ELSE VisitStack[i]
  BY <1>1, <1>5
<1> QED BY <1>3, <1>6, <1>7, StackFacts DEF OnStack, NextOf

LEMMA SkipShape ==
  ASSUME StackTypeOK, SkipChild, UNCHANGED F
  PROVE  /\ StackTypeOK'
         /\ LastPlace > 0 /\ LastPlace' = LastPlace
         /\ DOMAIN VisitStack' = DOMAIN VisitStack
         /\ \A i \in DOMAIN VisitStack :
              /\ VisitStack'[i].block = OnStack(i)
              /\ VisitStack'[i].next = IF i = LastPlace THEN NextOf(i) + 1 ELSE NextOf(i)
         /\ UNCHANGED <<Visited, PostOrder>>
         /\ NextOf(LastPlace) <= SuccSize(F, OnStack(LastPlace))
         /\ F.succ[OnStack(LastPlace)][NextOf(LastPlace)] \in Visited
<1>1. VisitStack # <<>> /\ VisitStack' = ReplaceTop(Advanced) /\ UNCHANGED <<Visited, PostOrder, F>>
  BY DEF SkipChild
<1>2. LastPlace > 0 /\ LastPlace \in Nat /\ DOMAIN VisitStack = 1 .. LastPlace
  BY <1>1, StackFacts DEF LastPlace
<1>3. /\ VisitStack' \in Seq([block : Blocks(F), next : Nat \ {0}])
      /\ Len(VisitStack') = LastPlace
      /\ \A i \in DOMAIN VisitStack :
           /\ VisitStack'[i].block = OnStack(i)
           /\ VisitStack'[i].next = IF i = LastPlace THEN NextOf(i) + 1 ELSE NextOf(i)
  BY <1>1, AdvanceShape
<1>4. StackTypeOK'
  BY <1>1, <1>3 DEF StackTypeOK
<1>5. DOMAIN VisitStack' = 1 .. LastPlace
  <2> DEFINE E == [block : Blocks(F), next : Nat \ {0}]
  <2>1. VisitStack' \in Seq(E)
    BY <1>3
  <2> HIDE DEF E
  <2> QED BY <1>3, <2>1
<1>6. NextOf(LastPlace) <= SuccSize(F, OnStack(LastPlace))
      /\ F.succ[OnStack(LastPlace)][NextOf(LastPlace)] \in Visited
  BY <1>1, StackFacts DEF SkipChild, HasNextChild, NextChild, LastPlace
<1> QED BY <1>1, <1>2, <1>3, <1>4, <1>5, <1>6 DEF LastPlace

LEMMA EnterShape ==
  ASSUME StackTypeOK, EnterChild, UNCHANGED F
  PROVE  LET child == F.succ[OnStack(LastPlace)][NextOf(LastPlace)]
         IN /\ StackTypeOK'
            /\ LastPlace > 0 /\ LastPlace' = LastPlace + 1
            /\ DOMAIN VisitStack' = 1 .. LastPlace + 1
            /\ \A i \in DOMAIN VisitStack :
                 /\ VisitStack'[i].block = OnStack(i)
                 /\ VisitStack'[i].next = IF i = LastPlace THEN NextOf(i) + 1 ELSE NextOf(i)
            /\ VisitStack'[LastPlace + 1].block = child
            /\ VisitStack'[LastPlace + 1].next = 1
            /\ UNCHANGED PostOrder
            /\ NextOf(LastPlace) <= SuccSize(F, OnStack(LastPlace))
            /\ child \in Blocks(F) \ Visited
            /\ Visited' = Visited \cup {child}
<1> DEFINE child == F.succ[OnStack(LastPlace)][NextOf(LastPlace)]
           E == [block : Blocks(F), next : Nat \ {0}]
           t == ReplaceTop(Advanced)
           e == [block |-> child, next |-> 1]
<1>1. VisitStack # <<>> /\ UNCHANGED <<PostOrder, F>>
  BY DEF EnterChild
<1>2. /\ LastPlace > 0 /\ LastPlace \in Nat /\ DOMAIN VisitStack = 1 .. LastPlace
      /\ OnStack(LastPlace) \in Blocks(F) /\ NextOf(LastPlace) \in Nat /\ NextOf(LastPlace) > 0
      /\ Top.block = OnStack(LastPlace) /\ Top.next = NextOf(LastPlace)
  BY <1>1, StackFacts DEF LastPlace
<1>3. /\ NextChild = child /\ child \notin Visited /\ Visited' = Visited \cup {child}
      /\ NextOf(LastPlace) <= SuccSize(F, OnStack(LastPlace))
      /\ VisitStack' = Append(t, e)
  BY <1>2 DEF EnterChild, HasNextChild, NextChild
<1>4. child \in Blocks(F)
  BY <1>2, <1>3, WellFormedFacts DEF StackTypeOK
<1>5. /\ t \in Seq(E)
      /\ Len(t) = LastPlace
      /\ \A i \in DOMAIN VisitStack :
           /\ t[i].block = OnStack(i)
           /\ t[i].next = IF i = LastPlace THEN NextOf(i) + 1 ELSE NextOf(i)
  BY <1>1, AdvanceShape
<1>6. e \in E
  BY <1>4
<1>7. /\ VisitStack' \in Seq(E) /\ Len(VisitStack') = LastPlace + 1
      /\ DOMAIN VisitStack' = 1 .. LastPlace + 1
      /\ \A i \in 1 .. LastPlace : VisitStack'[i] = t[i]
      /\ VisitStack'[LastPlace + 1] = e
  <2> HIDE DEF E, t, e
  <2> QED BY <1>2, <1>3, <1>5, <1>6
<1>8. StackTypeOK'
  BY <1>1, <1>3, <1>4, <1>7 DEF StackTypeOK
<1> QED BY <1>1, <1>2, <1>3, <1>4, <1>5, <1>7, <1>8 DEF LastPlace

LEMMA FinishShape ==
  ASSUME StackTypeOK, FinishBlock, UNCHANGED F
  PROVE  /\ StackTypeOK'
         /\ LastPlace > 0 /\ LastPlace' = LastPlace - 1
         /\ DOMAIN VisitStack' = 1 .. LastPlace - 1
         /\ \A i \in DOMAIN VisitStack' : VisitStack'[i] = VisitStack[i]
         /\ UNCHANGED Visited
         /\ NextOf(LastPlace) > SuccSize(F, OnStack(LastPlace))
         /\ Len(PostOrder') = Len(PostOrder) + 1
         /\ DOMAIN PostOrder' = 1 .. Len(PostOrder) + 1
         /\ \A k \in DOMAIN PostOrder : PostOrder'[k] = PostOrder[k]
         /\ PostOrder'[Len(PostOrder) + 1] = OnStack(LastPlace)
<1> DEFINE E == [block : Blocks(F), next : Nat \ {0}]
<1>1. VisitStack # <<>> /\ UNCHANGED <<Visited, F>>
  BY DEF FinishBlock
<1>2. /\ LastPlace > 0 /\ LastPlace \in Nat /\ DOMAIN VisitStack = 1 .. LastPlace
      /\ OnStack(LastPlace) \in Blocks(F) /\ NextOf(LastPlace) \in Nat
      /\ Top.block = OnStack(LastPlace) /\ Top.next = NextOf(LastPlace)
  BY <1>1, StackFacts DEF LastPlace
<1>3. SuccSize(F, OnStack(LastPlace)) \in Nat
  BY <1>2, WellFormedFacts DEF StackTypeOK
<1>4. /\ NextOf(LastPlace) > SuccSize(F, OnStack(LastPlace))
      /\ PostOrder' = Append(PostOrder, OnStack(LastPlace))
      /\ VisitStack' = SubSeq(VisitStack, 1, LastPlace - 1)
  BY <1>2, <1>3 DEF FinishBlock, HasNextChild, Front, LastPlace
<1>5. VisitStack \in Seq(E) /\ PostOrder \in Seq(Blocks(F)) /\ Len(VisitStack) = LastPlace
  BY DEF StackTypeOK, LastPlace
<1>6. /\ VisitStack' \in Seq(E) /\ Len(VisitStack') = LastPlace - 1
      /\ DOMAIN VisitStack' = 1 .. LastPlace - 1
      /\ \A i \in DOMAIN VisitStack' : VisitStack'[i] = VisitStack[i]
  <2> HIDE DEF E
  <2> QED BY <1>2, <1>4, <1>5
<1>7. /\ PostOrder' \in Seq(Blocks(F)) /\ Len(PostOrder') = Len(PostOrder) + 1
      /\ DOMAIN PostOrder' = 1 .. Len(PostOrder) + 1
      /\ \A k \in DOMAIN PostOrder : PostOrder'[k] = PostOrder[k]
      /\ PostOrder'[Len(PostOrder) + 1] = OnStack(LastPlace)
  BY <1>2, <1>4, <1>5
<1>8. StackTypeOK'
  BY <1>1, <1>6, <1>7 DEF StackTypeOK
<1> QED BY <1>1, <1>2, <1>4, <1>6, <1>7, <1>8 DEF LastPlace

LEMMA LastEdgeFacts ==
  ASSUME WellFormed(F), NEW a, NEW v, IsLastEdge(a, v)
  PROVE  /\ a \in Blocks(F)
         /\ SuccSize(F, a) \in DOMAIN F.succ[a]
         /\ F.succ[a][SuccSize(F, a)] = v
         /\ \A b \in Blocks(F) : \A k \in DOMAIN F.succ[b] :
              F.succ[b][k] = v => b = a /\ k = SuccSize(F, a)
         /\ v # Entry(F)
<1>1. \A b, k : <<b, k>> \in IncomingEdges(F, v) <=> b \in Blocks(F) /\ k \in DOMAIN F.succ[b] /\ F.succ[b][k] = v
  BY DEF IncomingEdges
<1>2. /\ a \in Blocks(F) /\ SuccSize(F, a) \in DOMAIN F.succ[a] /\ F.succ[a][SuccSize(F, a)] = v
  BY <1>1 DEF IsLastEdge
<1>3. \A b, k : <<b, k>> \in IncomingEdges(F, v) => b = a /\ k = SuccSize(F, a)
  BY DEF IsLastEdge
<1>4. v \in Successors(F, a)
  BY <1>2 DEF Successors
<1>5. v # Entry(F)
  BY <1>2, <1>4, WellFormedFacts
<1> QED BY <1>1, <1>2, <1>3, <1>5

(* The traversal starts with the entry block on its stack. *)
LEMMA TraversalStarts ==
  ASSUME WellFormed(F), VisitStack = <<VisitEntry(F)>>, Visited = {Entry(F)}, PostOrder = <<>>
  PROVE  TraversalInv
<1>1. Entry(F) \in Blocks(F) /\ SuccSize(F, Entry(F)) \in Nat
  BY WellFormedFacts
<1>2. VisitEntry(F) \in [block : Blocks(F), next : Nat \ {0}]
  BY <1>1 DEF VisitEntry
<1>3. /\ VisitStack \in Seq([block : Blocks(F), next : Nat \ {0}])
      /\ DOMAIN VisitStack = {1}
      /\ OnStack(1) = Entry(F) /\ NextOf(1) = 1
  BY <1>2 DEF OnStack, NextOf, VisitEntry
<1>4. StackTypeOK
  BY <1>1, <1>3 DEF StackTypeOK
<1>5. StackOK
  <2>1. DOMAIN F.succ[Entry(F)] = 1 .. SuccSize(F, Entry(F))
    BY <1>1, WellFormedFacts
  <2> QED BY <1>1, <1>3, <2>1 DEF StackOK
<1>6. ReachedOK
  BY <1>3 DEF ReachedOK
<1>7. OrderOK
  BY DEF OrderOK
<1>8. NeighboursOK
  BY <1>3, LastEdgeFacts DEF NeighboursOK
<1> QED BY <1>4, <1>5, <1>6, <1>7, <1>8 DEF TraversalInv

-----------------------------------------------------------------------------

LEMMA SkipKeepsInv ==
  ASSUME TraversalInv, SkipChild, UNCHANGED F
  PROVE  TraversalInv'
<1> DEFINE n == LastPlace
<1>1. /\ StackTypeOK' /\ StackTypeOK
      /\ n > 0 /\ n \in Nat /\ n = Len(VisitStack) /\ Len(VisitStack') = n
      /\ DOMAIN VisitStack = 1 .. n /\ DOMAIN VisitStack' = 1 .. n
      /\ \A i \in 1 .. n : OnStack(i) \in Blocks(F) /\ NextOf(i) \in Nat
      /\ \A i \in 1 .. n : OnStack(i)' = OnStack(i)
      /\ \A i \in 1 .. n : NextOf(i)' = IF i = n THEN NextOf(i) + 1 ELSE NextOf(i)
      /\ UNCHANGED <<Visited, PostOrder, F>>
      /\ NextOf(n) <= SuccSize(F, OnStack(n))
      /\ F.succ[OnStack(n)][NextOf(n)] \in Visited
      /\ VisitStack # <<>>
  BY SkipShape, StackFacts DEF TraversalInv, LastPlace, OnStack, NextOf, SkipChild
<1>2. \A b \in Blocks(F) : SuccSize(F, b) \in Nat /\ DOMAIN F.succ[b] = 1 .. SuccSize(F, b)
  BY <1>1, WellFormedFacts DEF StackTypeOK
<1> HIDE DEF n
<1>3. StackOK'
  <2>1. ASSUME NEW i \in 1 .. n
        PROVE  NextOf(i)' <= SuccSize(F, OnStack(i)) + 1
    <3>1. NextOf(i) <= SuccSize(F, OnStack(i)) + 1
      BY <1>1 DEF TraversalInv, StackOK
    <3>2. OnStack(i) \in Blocks(F) /\ NextOf(i) \in Nat
      BY <1>1
    <3>3. SuccSize(F, OnStack(i)) \in Nat
      BY <1>2, <3>2
    <3>4. CASE i = n
      <4>1. NextOf(i) <= SuccSize(F, OnStack(i)) /\ NextOf(i)' = NextOf(i) + 1
        BY <1>1, <3>4
      <4> QED BY <3>2, <3>3, <4>1
    <3>5. CASE i # n
      BY <1>1, <3>1, <3>5
    <3> QED BY <3>4, <3>5
  <2>2. \A i \in 1 .. n : i + 1 \in 1 .. n =>
          NextOf(i)' > 1 /\ F.succ[OnStack(i)][NextOf(i)' - 1] = OnStack(i + 1)
    BY <1>1 DEF TraversalInv, StackOK
  <2>3. ASSUME NEW i \in 1 .. n, NEW k \in DOMAIN F.succ[OnStack(i)], k < NextOf(i)'
        PROVE  F.succ[OnStack(i)][k] \in Visited
    <3>1. k \in Nat
      BY <1>1, <1>2
    <3>2. CASE k < NextOf(i)
      BY <1>1, <3>2 DEF TraversalInv, StackOK
    <3>3. CASE ~(k < NextOf(i))
      <4>1. i = n /\ k = NextOf(i)
        BY <1>1, <2>3, <3>1, <3>3
      <4> QED BY <1>1, <4>1
    <3> QED BY <3>2, <3>3
  <2> QED BY <1>1, <2>1, <2>2, <2>3 DEF StackOK
<1>4. ReachedOK'
  BY <1>1 DEF TraversalInv, ReachedOK
<1>5. OrderOK'
  BY <1>1 DEF TraversalInv, OrderOK
<1>6. NeighboursOK'
  <2> SUFFICES ASSUME NEW a \in Blocks(F), NEW v \in Blocks(F), IsLastEdge(a, v)
               PROVE  /\ \A i \in 1 .. n : OnStack(i) = v =>
                           i > 1 /\ OnStack(i - 1) = a /\ NextOf(i - 1)' = SuccSize(F, a) + 1
                      /\ \A k \in DOMAIN PostOrder : PostOrder[k] = v =>
                            k < Len(PostOrder) /\ PostOrder[k + 1] = a
    BY <1>1 DEF NeighboursOK, IsLastEdge
  <2>1. \A i \in 1 .. n : OnStack(i) = v =>
          i > 1 /\ OnStack(i - 1) = a /\ NextOf(i - 1) = SuccSize(F, a) + 1
    BY <1>1 DEF TraversalInv, NeighboursOK
  <2>2. \A k \in DOMAIN PostOrder : PostOrder[k] = v =>
          \/ k < Len(PostOrder) /\ PostOrder[k + 1] = a
          \/ OnStack(n) = a /\ NextOf(n) = SuccSize(F, a) + 1
    BY <1>1, StackFacts DEF TraversalInv, NeighboursOK
  <2>3. ~(OnStack(n) = a /\ NextOf(n) = SuccSize(F, a) + 1)
    BY <1>1, <1>2
  <2> QED BY <1>1, <2>1, <2>2, <2>3
<1> QED BY <1>1, <1>3, <1>4, <1>5, <1>6 DEF TraversalInv

LEMMA EnterKeepsInv ==
  ASSUME TraversalInv, EnterChild, UNCHANGED F
  PROVE  TraversalInv'
<1>0. LastPlace \in Nat
  BY StackFacts DEF LastPlace, TraversalInv
<1> PICK n \in Nat : n = LastPlace
  BY <1>0
<1> PICK child : child = F.succ[OnStack(n)][NextOf(n)]
  OBVIOUS
<1>1. /\ StackTypeOK' /\ StackTypeOK
      /\ n > 0 /\ n \in Nat /\ Len(VisitStack) = n /\ Len(VisitStack') = n + 1
      /\ DOMAIN VisitStack = 1 .. n /\ DOMAIN VisitStack' = 1 .. n + 1
      /\ \A i \in 1 .. n : OnStack(i) \in Blocks(F) /\ NextOf(i) \in Nat /\ NextOf(i) > 0
      /\ \A i \in 1 .. n : OnStack(i)' = OnStack(i)
      /\ \A i \in 1 .. n : NextOf(i)' = IF i = n THEN NextOf(i) + 1 ELSE NextOf(i)
      /\ OnStack(n + 1)' = child /\ NextOf(n + 1)' = 1
      /\ UNCHANGED <<PostOrder, F>>
      /\ Visited' = Visited \cup {child}
      /\ child \in Blocks(F) \ Visited
      /\ NextOf(n) <= SuccSize(F, OnStack(n))
      /\ VisitStack # <<>>
  BY EnterShape, StackFacts DEF TraversalInv, LastPlace, OnStack, NextOf, EnterChild
<1>2. \A b \in Blocks(F) : SuccSize(F, b) \in Nat /\ DOMAIN F.succ[b] = 1 .. SuccSize(F, b)
  BY <1>1, WellFormedFacts DEF StackTypeOK
<1>3. OnStack(n) \in Blocks(F) /\ NextOf(n) \in DOMAIN F.succ[OnStack(n)]
  BY <1>1, <1>2
<1>4. child \in Successors(F, OnStack(n))
  BY <1>3 DEF Successors
<1>5. child = F.succ[OnStack(n)][NextOf(n)]
  OBVIOUS
<1>6. PostOrder \in Seq(Blocks(F)) /\ Len(PostOrder) \in Nat
  BY <1>1 DEF StackTypeOK
<1>7. StackOK'
  <2>1. ASSUME NEW i \in 1 .. n + 1
        PROVE  NextOf(i)' <= SuccSize(F, OnStack(i)') + 1
    <3>1. CASE i = n + 1
      BY <1>1, <1>2, <3>1
    <3>2. CASE i = n
      BY <1>1, <1>2, <3>2
    <3>3. CASE i \in 1 .. n /\ i # n
      <4>1. NextOf(i) <= SuccSize(F, OnStack(i)) + 1
        BY <1>1, <3>3 DEF TraversalInv, StackOK
      <4> QED BY <1>1, <3>3, <4>1
    <3> QED BY <1>1, <3>1, <3>2, <3>3
  <2>2. ASSUME NEW i \in 1 .. n + 1, i + 1 \in 1 .. n + 1
        PROVE  NextOf(i)' > 1 /\ F.succ[OnStack(i)'][NextOf(i)' - 1] = OnStack(i + 1)'
    <3>1. CASE i = n
      <4>1. NextOf(i)' = NextOf(n) + 1 /\ NextOf(n) \in Nat /\ NextOf(n) > 0
        BY <1>1, <3>1
      <4>2. NextOf(i)' - 1 = NextOf(n)
        BY <4>1
      <4> QED BY <1>1, <1>5, <3>1, <4>1, <4>2
    <3>2. CASE i # n
      <4>1. i \in 1 .. n /\ i + 1 \in 1 .. n
        BY <1>1, <2>2, <3>2
      <4>2. NextOf(i) > 1 /\ F.succ[OnStack(i)][NextOf(i) - 1] = OnStack(i + 1)
        BY <1>1, <4>1 DEF TraversalInv, StackOK
      <4> QED BY <1>1, <3>2, <4>1, <4>2
    <3> QED BY <3>1, <3>2
  <2>3. ASSUME NEW i \in 1 .. n + 1, NEW k \in DOMAIN F.succ[OnStack(i)'], k < NextOf(i)'
        PROVE  F.succ[OnStack(i)'][k] \in Visited'
    <3>1. CASE i = n + 1
      <4>1. k \in Nat /\ k > 0 /\ k < 1
        BY <1>1, <1>2, <2>3, <3>1
      <4> QED BY <4>1
    <3>2. CASE i \in 1 .. n
      <4>1. OnStack(i)' = OnStack(i) /\ k \in Nat /\ NextOf(i) \in Nat
        BY <1>1, <1>2, <3>2
      <4>2. CASE k < NextOf(i)
        <5>1. F.succ[OnStack(i)][k] \in Visited
          BY <1>1, <3>2, <4>1, <4>2 DEF TraversalInv, StackOK
        <5> QED BY <1>1, <4>1, <5>1
      <4>3. CASE ~(k < NextOf(i))
        <5>1. i = n /\ k = NextOf(n)
          BY <1>1, <2>3, <3>2, <4>1, <4>3
        <5> QED BY <1>1, <1>5, <4>1, <5>1
      <4> QED BY <4>2, <4>3
    <3> QED BY <1>1, <3>1, <3>2
  <2> QED BY <1>1, <2>1, <2>2, <2>3 DEF StackOK
<1>8. ReachedOK'
  <2>1. /\ \A i \in 1 .. n : OnStack(i) \in Visited
        /\ \A k \in DOMAIN PostOrder : PostOrder[k] \in Visited
        /\ \A b \in Visited : \/ \E i \in 1 .. n : OnStack(i) = b
                              \/ \E k \in DOMAIN PostOrder : PostOrder[k] = b
        /\ \A i, j \in 1 .. n : OnStack(i) = OnStack(j) => i = j
        /\ \A k, l \in DOMAIN PostOrder : PostOrder[k] = PostOrder[l] => k = l
        /\ \A i \in 1 .. n, k \in DOMAIN PostOrder : OnStack(i) # PostOrder[k]
        /\ \A b \in Visited \ {Entry(F)} : \E a \in Blocks(F) : b \in Successors(F, a)
    BY <1>1 DEF TraversalInv, ReachedOK
  <2>2. \A i \in 1 .. n + 1 : i \in 1 .. n \/ i = n + 1
    BY <1>1
  <2>3. \A i \in 1 .. n + 1 : OnStack(i)' \in Visited'
    BY <1>1, <2>1, <2>2
  <2>4. \A k \in DOMAIN PostOrder : PostOrder[k] \in Visited'
    BY <1>1, <2>1
  <2>5. \A b \in Visited' : \/ \E i \in 1 .. n + 1 : OnStack(i)' = b
                            \/ \E k \in DOMAIN PostOrder : PostOrder[k] = b
    <3>1. n + 1 \in 1 .. n + 1 /\ \A i \in 1 .. n : i \in 1 .. n + 1
      BY <1>1
    <3> QED BY <1>1, <2>1, <3>1
  <2>6. \A i, j \in 1 .. n + 1 : OnStack(i)' = OnStack(j)' => i = j
    BY <1>1, <2>1, <2>2
  <2>7. \A i \in 1 .. n + 1, k \in DOMAIN PostOrder : OnStack(i)' # PostOrder[k]
    BY <1>1, <2>1, <2>2
  <2>8. \A b \in Visited' \ {Entry(F)} : \E a \in Blocks(F) : b \in Successors(F, a)
    BY <1>1, <1>3, <1>4, <2>1
  <2> QED BY <1>1, <2>1, <2>3, <2>4, <2>5, <2>6, <2>7, <2>8 DEF ReachedOK
<1>9. OrderOK'
  BY <1>1 DEF TraversalInv, OrderOK
<1>10. NeighboursOK'
  <2> SUFFICES ASSUME NEW a \in Blocks(F), NEW v \in Blocks(F), IsLastEdge(a, v)
               PROVE  /\ \A i \in 1 .. n + 1 : OnStack(i)' = v =>
                           i > 1 /\ OnStack(i - 1)' = a /\ NextOf(i - 1)' = SuccSize(F, a) + 1
                      /\ \A k \in DOMAIN PostOrder : PostOrder[k] = v =>
                            k < Len(PostOrder) /\ PostOrder[k + 1] = a
    BY <1>1 DEF NeighboursOK, IsLastEdge
  <2>1. \A i \in 1 .. n : OnStack(i) = v =>
          i > 1 /\ OnStack(i - 1) = a /\ NextOf(i - 1) = SuccSize(F, a) + 1
    BY <1>1 DEF TraversalInv, NeighboursOK
  <2>2. \A k \in DOMAIN PostOrder : PostOrder[k] = v =>
          \/ k < Len(PostOrder) /\ PostOrder[k + 1] = a
          \/ OnStack(n) = a /\ NextOf(n) = SuccSize(F, a) + 1
    BY <1>1, StackFacts DEF TraversalInv, NeighboursOK
  <2>3. ~(OnStack(n) = a /\ NextOf(n) = SuccSize(F, a) + 1)
    BY <1>1, <1>2
  <2>4. ASSUME NEW i \in 1 .. n + 1, OnStack(i)' = v
        PROVE  i > 1 /\ OnStack(i - 1)' = a /\ NextOf(i - 1)' = SuccSize(F, a) + 1
    <3>1. CASE i = n + 1
      <4>1. F.succ[OnStack(n)][NextOf(n)] = v
        BY <1>1, <1>5, <2>4, <3>1
      <4>2. OnStack(n) = a /\ NextOf(n) = SuccSize(F, a)
        BY <1>1, <1>3, <4>1, LastEdgeFacts DEF StackTypeOK
      <4>3. i - 1 = n /\ n \in 1 .. n
        BY <1>1, <3>1
      <4> QED BY <1>1, <3>1, <4>2, <4>3
    <3>2. CASE i \in 1 .. n
      <4>1. i > 1 /\ OnStack(i - 1) = a /\ NextOf(i - 1) = SuccSize(F, a) + 1
        BY <1>1, <2>1, <2>4, <3>2
      <4>2. i - 1 \in 1 .. n /\ i - 1 # n
        BY <1>1, <3>2, <4>1
      <4> QED BY <1>1, <4>1, <4>2
    <3> QED BY <1>1, <3>1, <3>2
  <2> QED BY <1>1, <2>2, <2>3, <2>4
<1> QED BY <1>1, <1>7, <1>8, <1>9, <1>10 DEF TraversalInv

LEMMA FinishKeepsInv ==
  ASSUME TraversalInv, FinishBlock, UNCHANGED F
  PROVE  TraversalInv'
<1>0. LastPlace \in Nat /\ Len(PostOrder) \in Nat
  BY StackFacts DEF LastPlace, TraversalInv
<1> PICK n \in Nat, p \in Nat : n = LastPlace /\ p = Len(PostOrder)
  BY <1>0
<1>1. /\ StackTypeOK' /\ StackTypeOK
      /\ n > 0 /\ Len(VisitStack) = n /\ Len(VisitStack') = n - 1
      /\ DOMAIN VisitStack = 1 .. n /\ DOMAIN VisitStack' = 1 .. n - 1
      /\ \A i \in 1 .. n : OnStack(i) \in Blocks(F) /\ NextOf(i) \in Nat
      /\ \A i \in 1 .. n - 1 : OnStack(i)' = OnStack(i) /\ NextOf(i)' = NextOf(i)
      /\ UNCHANGED <<Visited, F>>
      /\ NextOf(n) > SuccSize(F, OnStack(n))
      /\ Len(PostOrder') = p + 1
      /\ DOMAIN PostOrder = 1 .. p /\ DOMAIN PostOrder' = 1 .. p + 1
      /\ \A k \in 1 .. p : PostOrder'[k] = PostOrder[k]
      /\ PostOrder'[p + 1] = OnStack(n)
      /\ VisitStack # <<>>
      /\ OnStack(n) \in Blocks(F)
  BY FinishShape, StackFacts DEF TraversalInv, LastPlace, OnStack, NextOf, FinishBlock
<1>2. \A b \in Blocks(F) : SuccSize(F, b) \in Nat /\ DOMAIN F.succ[b] = 1 .. SuccSize(F, b)
  BY <1>1, WellFormedFacts DEF StackTypeOK
<1>3. \A i \in 1 .. n - 1 : i \in 1 .. n
  OBVIOUS
<1>4. \A i \in 1 .. n : i \in 1 .. n - 1 \/ i = n
  OBVIOUS
<1>5. \A k \in 1 .. p + 1 : k \in 1 .. p \/ k = p + 1
  OBVIOUS
<1>6. p + 1 \in 1 .. p + 1 /\ \A k \in 1 .. p : k \in 1 .. p + 1
  OBVIOUS
<1>7. /\ \A i \in 1 .. n : NextOf(i) <= SuccSize(F, OnStack(i)) + 1
      /\ \A i \in 1 .. n : i + 1 \in 1 .. n =>
           NextOf(i) > 1 /\ F.succ[OnStack(i)][NextOf(i) - 1] = OnStack(i + 1)
      /\ \A i \in 1 .. n : \A k \in DOMAIN F.succ[OnStack(i)] :
           k < NextOf(i) => F.succ[OnStack(i)][k] \in Visited
  BY <1>1 DEF TraversalInv, StackOK
<1>8. /\ \A i \in 1 .. n : OnStack(i) \in Visited
      /\ \A k \in 1 .. p : PostOrder[k] \in Visited
      /\ \A b \in Visited : \/ \E i \in 1 .. n : OnStack(i) = b
                            \/ \E k \in 1 .. p : PostOrder[k] = b
      /\ \A i, j \in 1 .. n : OnStack(i) = OnStack(j) => i = j
      /\ \A k, l \in 1 .. p : PostOrder[k] = PostOrder[l] => k = l
      /\ \A i \in 1 .. n, k \in 1 .. p : OnStack(i) # PostOrder[k]
      /\ \A b \in Visited \ {Entry(F)} : \E a \in Blocks(F) : b \in Successors(F, a)
  BY <1>1 DEF TraversalInv, ReachedOK
<1>9. n \in 1 .. n
  BY <1>1
<1>10. StackOK'
  <2>1. \A i \in 1 .. n - 1 : i + 1 \in 1 .. n - 1 => i + 1 \in 1 .. n
    OBVIOUS
  <2>2. \A i \in 1 .. n - 1 : NextOf(i)' <= SuccSize(F, OnStack(i)') + 1
    BY <1>1, <1>3, <1>7
  <2>3. \A i \in 1 .. n - 1 : i + 1 \in 1 .. n - 1 =>
           NextOf(i)' > 1 /\ F.succ[OnStack(i)'][NextOf(i)' - 1] = OnStack(i + 1)'
    BY <1>1, <1>3, <1>7, <2>1
  <2>4. \A i \in 1 .. n - 1 : \A k \in DOMAIN F.succ[OnStack(i)'] :
           k < NextOf(i)' => F.succ[OnStack(i)'][k] \in Visited'
    BY <1>1, <1>3, <1>7
  <2> QED BY <1>1, <2>2, <2>3, <2>4 DEF StackOK
<1>11. ReachedOK'
  <2>1. \A i \in 1 .. n - 1 : OnStack(i)' \in Visited'
    BY <1>1, <1>3, <1>8
  <2>2. \A k \in 1 .. p + 1 : PostOrder'[k] \in Visited'
    BY <1>1, <1>5, <1>8, <1>9
  <2>3. \A b \in Visited' : \/ \E i \in 1 .. n - 1 : OnStack(i)' = b
                            \/ \E k \in 1 .. p + 1 : PostOrder'[k] = b
    BY <1>1, <1>4, <1>6, <1>8
  <2>4. \A i, j \in 1 .. n - 1 : OnStack(i)' = OnStack(j)' => i = j
    BY <1>1, <1>3, <1>8
  <2>5. \A k, l \in 1 .. p + 1 : PostOrder'[k] = PostOrder'[l] => k = l
    BY <1>1, <1>5, <1>8, <1>9
  <2>6. ASSUME NEW i \in 1 .. n - 1, NEW k \in 1 .. p + 1 PROVE OnStack(i)' # PostOrder'[k]
    <3>1. i # n /\ i \in 1 .. n
      OBVIOUS
    <3>2. CASE k \in 1 .. p
      BY <1>1, <1>8, <3>1, <3>2
    <3>3. CASE k = p + 1
      BY <1>1, <1>8, <1>9, <3>1, <3>3
    <3> QED BY <1>5, <3>2, <3>3
  <2>7. \A b \in Visited' \ {Entry(F)} : \E a \in Blocks(F) : b \in Successors(F, a)
    BY <1>1, <1>8
  <2> QED BY <1>1, <2>1, <2>2, <2>3, <2>4, <2>5, <2>6, <2>7 DEF ReachedOK
<1>12. OrderOK'
  <2> SUFFICES ASSUME Acyclic(F), NEW k \in 1 .. p + 1, NEW s \in Successors(F, PostOrder'[k])
               PROVE  \E j \in 1 .. p + 1 : j < k /\ PostOrder'[j] = s
    <3>1. Acyclic(F)' = Acyclic(F)
      BY <1>1
    <3>2. \A k : Successors(F, PostOrder[k])' = Successors(F, PostOrder'[k])
      BY <1>1
    <3> QED BY <1>1, <3>1, <3>2 DEF OrderOK
  <2>1. CASE k \in 1 .. p
    <3>1. PICK j \in 1 .. p : j < k /\ PostOrder[j] = s
      BY <1>1, <2>1 DEF TraversalInv, OrderOK
    <3> QED BY <1>1, <1>6, <3>1
  <2>2. CASE k = p + 1
    <3>1. PICK m \in DOMAIN F.succ[OnStack(n)] : F.succ[OnStack(n)][m] = s
      BY <1>1, <2>2 DEF Successors
    <3>2. m \in Nat /\ m <= SuccSize(F, OnStack(n)) /\ SuccSize(F, OnStack(n)) \in Nat
      BY <1>1, <1>2
    <3>3. m < NextOf(n)
      BY <1>1, <1>9, <3>2
    <3>4. s \in Visited
      BY <1>7, <1>9, <3>1, <3>3
    <3>5. ASSUME NEW i \in 1 .. n, OnStack(i) = s PROVE FALSE
      <4> DEFINE S == {OnStack(l) : l \in i .. n}
      <4>1. S \in SUBSET Blocks(F) /\ OnStack(n) \in S /\ s \in S
        BY <1>1, <3>5
      <4>2. PICK b \in S : Successors(F, b) \cap S = {}
        <5> HIDE DEF S
        <5> QED BY <4>1 DEF Acyclic
      <4>3. PICK l \in i .. n : b = OnStack(l)
        BY <4>2
      <4>4. CASE l = n
        BY <2>2, <1>1, <4>1, <4>2, <4>3, <4>4
      <4>5. CASE l # n
        <5>1. l \in 1 .. n /\ l + 1 \in 1 .. n /\ l + 1 \in i .. n
          BY <4>5
        <5>2. NextOf(l) \in Nat /\ NextOf(l) > 1 /\ F.succ[OnStack(l)][NextOf(l) - 1] = OnStack(l + 1)
          BY <1>1, <1>7, <5>1
        <5>3. NextOf(l) <= SuccSize(F, OnStack(l)) + 1 /\ SuccSize(F, OnStack(l)) \in Nat
          BY <1>1, <1>2, <1>7, <5>1
        <5>4. NextOf(l) - 1 \in DOMAIN F.succ[OnStack(l)]
          <6>1. OnStack(l) \in Blocks(F)
            BY <1>1, <5>1
          <6> QED BY <1>2, <5>2, <5>3, <6>1
        <5>5. OnStack(l + 1) \in Successors(F, OnStack(l))
          BY <5>2, <5>4 DEF Successors
        <5>6. OnStack(l + 1) \in S
          BY <5>1
        <5> QED BY <4>2, <4>3, <5>5, <5>6
      <4> QED BY <4>4, <4>5
    <3>6. PICK j \in 1 .. p : PostOrder[j] = s
      BY <1>8, <3>4, <3>5
    <3> QED BY <1>1, <1>6, <2>2, <3>6
  <2> QED BY <1>5, <2>1, <2>2
<1>13. NeighboursOK'
  <2> SUFFICES ASSUME NEW a \in Blocks(F), NEW v \in Blocks(F), IsLastEdge(a, v)
               PROVE  /\ \A i \in 1 .. n - 1 : OnStack(i)' = v =>
                           i > 1 /\ OnStack(i - 1)' = a /\ NextOf(i - 1)' = SuccSize(F, a) + 1
                      /\ \A k \in 1 .. p + 1 : PostOrder'[k] = v =>
                            \/ k < p + 1 /\ PostOrder'[k + 1] = a
                            \/ /\ k = p + 1 /\ VisitStack' # <<>>
                               /\ Top'.block = a /\ Top'.next = SuccSize(F, a) + 1
    <3>1. \A a, v : IsLastEdge(a, v)' = IsLastEdge(a, v)
      BY <1>1 DEF IsLastEdge
    <3> QED BY <1>1, <3>1 DEF NeighboursOK
  <2>1. \A i \in 1 .. n : OnStack(i) = v =>
          i > 1 /\ OnStack(i - 1) = a /\ NextOf(i - 1) = SuccSize(F, a) + 1
    BY <1>1 DEF TraversalInv, NeighboursOK
  <2>2. \A k \in 1 .. p : PostOrder[k] = v =>
          \/ k < p /\ PostOrder[k + 1] = a
          \/ k = p /\ OnStack(n) = a
    <3>1. Top.block = OnStack(n)
      BY <1>1, StackFacts
    <3>2. NeighboursOK
      BY DEF TraversalInv
    <3>3. \A k \in DOMAIN PostOrder : PostOrder[k] = v =>
            \/ k < Len(PostOrder) /\ PostOrder[k + 1] = a
            \/ k = Len(PostOrder) /\ Top.block = a
      BY <3>2 DEF NeighboursOK
    <3> QED BY <1>1, <3>1, <3>3
  <2>3. ASSUME NEW i \in 1 .. n - 1, OnStack(i)' = v
        PROVE  i > 1 /\ OnStack(i - 1)' = a /\ NextOf(i - 1)' = SuccSize(F, a) + 1
    <3>1. i > 1 /\ OnStack(i - 1) = a /\ NextOf(i - 1) = SuccSize(F, a) + 1
      BY <1>1, <1>3, <2>1, <2>3
    <3>2. i - 1 \in 1 .. n - 1
      BY <3>1
    <3> QED BY <1>1, <3>1, <3>2
  <2>4. ASSUME NEW k \in 1 .. p, PostOrder'[k] = v PROVE k < p + 1 /\ PostOrder'[k + 1] = a
    <3>1. PostOrder[k] = v
      BY <1>1, <2>4
    <3>2. CASE k < p /\ PostOrder[k + 1] = a
      <4>1. k + 1 \in 1 .. p
        BY <3>2
      <4> QED BY <1>1, <3>2, <4>1
    <3>3. CASE k = p /\ OnStack(n) = a
      BY <1>1, <3>3
    <3> QED BY <2>2, <3>1, <3>2, <3>3
  <2>5. ASSUME PostOrder'[p + 1] = v
        PROVE  VisitStack' # <<>> /\ Top'.block = a /\ Top'.next = SuccSize(F, a) + 1
    <3>1. n > 1 /\ OnStack(n - 1) = a /\ NextOf(n - 1) = SuccSize(F, a) + 1
      BY <1>1, <1>9, <2>1, <2>5
    <3>2. n - 1 \in 1 .. n - 1
      BY <3>1
    <3>3. VisitStack' # <<>>
      BY <1>1, <3>1
    <3>4. OnStack(n - 1)' = a /\ NextOf(n - 1)' = SuccSize(F, a) + 1
      BY <1>1, <3>1, <3>2
    <3>5. Top' = VisitStack'[n - 1]
      BY <1>1 DEF Top
    <3> QED BY <3>3, <3>4, <3>5 DEF OnStack, NextOf
  <2> QED BY <1>5, <2>3, <2>4, <2>5
<1> QED BY <1>1, <1>10, <1>11, <1>12, <1>13 DEF TraversalInv

(* The invariant is one of the traversal's variables alone. *)
LEMMA TraversalStays ==
  ASSUME TraversalInv, UNCHANGED <<F, VisitStack, Visited, PostOrder>>
  PROVE  TraversalInv'
<1>1. StackTypeOK' /\ StackOK'
  BY DEF TraversalInv, StackTypeOK, StackOK, OnStack, NextOf
<1>2. ReachedOK'
  BY DEF TraversalInv, ReachedOK, OnStack
<1>3. OrderOK'
  <2>1. Acyclic(F)' = Acyclic(F)
    OBVIOUS
  <2> QED BY <2>1 DEF TraversalInv, OrderOK
<1>4. NeighboursOK'
  <2>1. \A a, v : IsLastEdge(a, v)' = IsLastEdge(a, v)
    BY DEF IsLastEdge
  <2> QED BY <2>1 DEF TraversalInv, NeighboursOK, OnStack, NextOf, Top
<1> QED BY <1>1, <1>2, <1>3, <1>4 DEF TraversalInv

(* No step of the traversal breaks the invariant. *)
LEMMA TraverseKeepsInv ==
  ASSUME TraversalInv, Traverse, UNCHANGED F
  PROVE  TraversalInv'
BY SkipKeepsInv, EnterKeepsInv, FinishKeepsInv DEF Traverse

-----------------------------------------------------------------------------

(***************************************************************************)
(* The order of a function does not depend on when it is computed: the     *)
(* search is deterministic, so two searches of the same function end in    *)
(* the same state.                                                         *)
(***************************************************************************)
SearchStates(f) ==
  [stack : Seq([block : Blocks(f), next : Nat \ {0}]),
   visited : SUBSET Blocks(f),
   finished : Seq(Blocks(f))]

SearchStart(f) == [stack |-> <<VisitEntry(f)>>, visited |-> {Entry(f)}, finished |-> <<>>]

Search == [stack |-> VisitStack, visited |-> Visited, finished |-> PostOrder]

Following(f, s) ==
  LET last == Len(s.stack)
      top == s.stack[last]
      child == f.succ[top.block][top.next]
      advanced == [s.stack EXCEPT ![last] = [top EXCEPT !.next = @ + 1]]
  IN IF top.next <= SuccSize(f, top.block)
       THEN IF child \in s.visited
              THEN [s EXCEPT !.stack = advanced]
              ELSE [s EXCEPT !.stack = Append(advanced, [block |-> child, next |-> 1]),
                             !.visited = @ \cup {child}]
       ELSE [s EXCEPT !.stack = Front(@), !.finished = Append(@, top.block)]

HasFollowing(f, s) == s.stack # <<>> /\ Following(f, s) \in SearchStates(f)

IsClosed(f, R) == \A s \in R : HasFollowing(f, s) => Following(f, s) \in R

(* The states a search that is in state s can come to. *)
From(f, s) ==
  {t \in SearchStates(f) : \A R \in SUBSET SearchStates(f) : s \in R /\ IsClosed(f, R) => t \in R}

Searched(f) == From(f, SearchStart(f))

LEMMA SearchBegins ==
  ASSUME StackTypeOK, Search = SearchStart(F)
  PROVE  Search \in Searched(F)
<1>1. Search \in SearchStates(F)
  BY DEF StackTypeOK, Search, SearchStates
<1> QED BY <1>1 DEF Searched, From

LEMMA SearchFollows ==
  ASSUME Traverse
  PROVE  VisitStack # <<>> /\ Search' = Following(F, Search)
<1>1. VisitStack # <<>>
  BY DEF Traverse, SkipChild, EnterChild, FinishBlock
<1>2. Search.stack = VisitStack /\ Search.visited = Visited /\ Search.finished = PostOrder
  BY DEF Search
<1>3. CASE SkipChild
  BY <1>2, <1>3 DEF SkipChild, Search, Following, HasNextChild, NextChild, ReplaceTop, Advanced, Top
<1>4. CASE EnterChild
  <2>1. /\ Top.next <= SuccSize(F, Top.block) /\ F.succ[Top.block][Top.next] \notin Visited
        /\ VisitStack' = Append(ReplaceTop(Advanced), [block |-> F.succ[Top.block][Top.next], next |-> 1])
        /\ Visited' = Visited \cup {F.succ[Top.block][Top.next]}
        /\ PostOrder' = PostOrder
    BY <1>4 DEF EnterChild, HasNextChild, NextChild
  <2>2. Following(F, Search) =
          [Search EXCEPT !.stack = Append(ReplaceTop(Advanced), [block |-> F.succ[Top.block][Top.next], next |-> 1]),
                         !.visited = @ \cup {F.succ[Top.block][Top.next]}]
    BY <1>2, <2>1 DEF Following, ReplaceTop, Advanced, Top
  <2> QED BY <1>1, <2>1, <2>2 DEF Search
<1>5. CASE FinishBlock
  BY <1>2, <1>5 DEF FinishBlock, Search, Following, HasNextChild, Top
<1> QED BY <1>1, <1>3, <1>4, <1>5 DEF Traverse

LEMMA SearchGoesOn ==
  ASSUME Search \in Searched(F), Traverse, UNCHANGED F, StackTypeOK'
  PROVE  (Search \in Searched(F))'
<1>1. Search' \in SearchStates(F)
  BY DEF StackTypeOK, Search, SearchStates
<1>2. HasFollowing(F, Search) /\ Following(F, Search) = Search'
  BY <1>1, SearchFollows DEF HasFollowing, Search
<1>3. ASSUME NEW R \in SUBSET SearchStates(F), SearchStart(F) \in R, IsClosed(F, R)
      PROVE  Search' \in R
  <2>1. Search \in R
    BY <1>3 DEF Searched, From
  <2> QED BY <1>2, <1>3, <2>1 DEF IsClosed
<1>4. Search' \in Searched(F)
  BY <1>1, <1>3 DEF Searched, From
<1> QED BY <1>4

LEMMA SearchEndIsUnique ==
  ASSUME NEW f, NEW s \in Searched(f), NEW t \in Searched(f), s.stack = <<>>, t.stack = <<>>,
         SearchStart(f) \in SearchStates(f)
  PROVE  s = t
<1> DEFINE R == {u \in SearchStates(f) : s \in From(f, u)}
<1>1. SearchStart(f) \in R
  BY DEF Searched
<1>2. ASSUME NEW u \in R, HasFollowing(f, u) PROVE Following(f, u) \in R
  <2>1. Following(f, u) \in SearchStates(f) /\ u.stack # <<>> /\ u \in SearchStates(f) /\ s \in From(f, u)
    BY <1>2 DEF HasFollowing
  <2>2. ASSUME NEW Q \in SUBSET SearchStates(f), Following(f, u) \in Q, IsClosed(f, Q)
        PROVE  s \in Q
    <3>1. IsClosed(f, Q \cup {u}) /\ Q \cup {u} \in SUBSET SearchStates(f)
      BY <2>1, <2>2 DEF IsClosed
    <3>2. s \in Q \cup {u}
      BY <2>1, <3>1 DEF From
    <3> QED BY <2>1, <3>2
  <2>3. s \in SearchStates(f)
    BY DEF Searched, From
  <2>4. s \in From(f, Following(f, u))
    BY <2>2, <2>3 DEF From
  <2> QED BY <2>1, <2>4
<1>3. IsClosed(f, R) /\ R \in SUBSET SearchStates(f)
  BY <1>2 DEF IsClosed
<1>4. t \in R
  BY <1>1, <1>3 DEF Searched, From
<1>5. IsClosed(f, {t}) /\ {t} \in SUBSET SearchStates(f)
  BY DEF IsClosed, HasFollowing, Searched, From
<1>6. s \in {t}
  BY <1>4, <1>5 DEF From
<1> QED BY <1>6

-----------------------------------------------------------------------------

(* In an acyclic function no set of blocks has a way into each of its      *)
(* members from another one.                                               *)
EntersEach(f, S) == \A b \in S : \E a \in S : b \in Successors(f, a)

LEMMA SomeBlockIsFirst ==
  ASSUME NEW f, IsFiniteSet(Blocks(f)), Acyclic(f), NEW M \in SUBSET Blocks(f), M # {}
  PROVE  ~EntersEach(f, M)
<1> SUFFICES ASSUME EntersEach(f, M) PROVE FALSE
  OBVIOUS
<1> DEFINE Sizes == {Cardinality(S) : S \in {T \in SUBSET Blocks(f) : T # {} /\ EntersEach(f, T)}}
<1>1. ASSUME NEW S \in SUBSET Blocks(f) PROVE IsFiniteSet(S) /\ Cardinality(S) \in Nat
  BY FS_Subset, FS_CardinalityType
<1>2. Sizes \in SUBSET Nat /\ Sizes # {}
  BY <1>1
<1>3. PICK n \in Sizes : \A k \in Sizes : n <= k
  BY <1>2, SmallestElement
<1>4. PICK S \in SUBSET Blocks(f) : S # {} /\ EntersEach(f, S) /\ n = Cardinality(S)
  BY <1>3
<1>5. PICK b \in S : Successors(f, b) \cap S = {}
  BY <1>4 DEF Acyclic
<1>6. EntersEach(f, S \ {b}) /\ S \ {b} # {}
  BY <1>4, <1>5 DEF EntersEach
<1>7. Cardinality(S \ {b}) = n - 1
  BY <1>1, <1>4, FS_RemoveElement
<1>8. n - 1 \in Sizes /\ n \in Nat
  <2>1. n - 1 \in Sizes
    BY <1>4, <1>6, <1>7
  <2> QED BY <1>2, <1>3, <2>1
<1> QED BY <1>3, <1>8

(* The traversal of an acyclic function reaches every block, if each but   *)
(* the entry has a predecessor.                                            *)
LEMMA AllFinished ==
  ASSUME TraversalInv, VisitStack = <<>>, Entry(F) \in Visited, Acyclic(F),
         \A b \in Blocks(F) \ {Entry(F)} : IncomingEdges(F, b) # {}
  PROVE  \A b \in Blocks(F) : \E k \in DOMAIN PostOrder : PostOrder[k] = b
<1>1. \A b \in Visited : \E k \in DOMAIN PostOrder : PostOrder[k] = b
  BY DEF TraversalInv, ReachedOK
<1>2. \A b \in Visited : Successors(F, b) \subseteq Visited
  BY <1>1 DEF TraversalInv, OrderOK, ReachedOK
<1>3. \A b \in Blocks(F) \ {Entry(F)} : \E a \in Blocks(F) : b \in Successors(F, a)
  <2> SUFFICES ASSUME NEW b \in Blocks(F) \ {Entry(F)}
               PROVE  \E a \in Blocks(F) : b \in Successors(F, a)
    OBVIOUS
  <2>1. PICK e : e \in IncomingEdges(F, b)
    OBVIOUS
  <2> QED BY <2>1 DEF IncomingEdges, Successors
<1> DEFINE U == Blocks(F) \ Visited
<1>4. EntersEach(F, U)
  BY <1>2, <1>3 DEF EntersEach
<1>5. U = {}
  <2>1. IsFiniteSet(Blocks(F))
    BY DEF TraversalInv, StackTypeOK, WellFormed
  <2> QED BY <1>4, <2>1, SomeBlockIsFirst
<1> QED BY <1>1, <1>5

-----------------------------------------------------------------------------
(* The numbering of the blocks. *)

IDsOK ==
  /\ phase \in {"traversing", "numbering", "analyzed"}
  /\ cursor \in Nat \ {0}
  /\ MaskIDCounter \in Nat
  /\ DOMAIN BlockToMaskID \subseteq Blocks(F)
  /\ \A b \in DOMAIN BlockToMaskID : BlockToMaskID[b] \in 0 .. MaskIDCounter

(* The loop over the order starts when the order is complete. *)
PhaseOK ==
  /\ phase = "traversing" => cursor = 1
  /\ phase = "numbering" => VisitStack = <<>> /\ cursor <= Len(PostOrder) + 1
  /\ Analyzed => VisitStack = <<>> /\ cursor = Len(PostOrder) + 1

(* Behind a real branch in the entry block every block has been numbered. *)
TargetsOK ==
  SuccSize(F, Entry(F)) > 1 =>
    \A i \in 1 .. cursor - 1 : Successors(F, RPOT[i]) \subseteq DOMAIN BlockToMaskID

(* A block at which paths converge has a greater id than all before it. *)
JoinsOK ==
  Acyclic(F) =>
    \A i \in 1 .. cursor - 1 : PathsConverge(RPOT[i]) =>
      /\ RPOT[i] \in DOMAIN BlockToMaskID
      /\ \A j \in 1 .. i - 1 : RPOT[j] \in DOMAIN BlockToMaskID =>
           BlockToMaskID[RPOT[j]] < BlockToMaskID[RPOT[i]]

(* The m-th edge of a is the only way to v, and not the last edge of a. *)
IsInnerEdge(a, m, v) == IncomingEdges(F, v) = {<<a, m>>} /\ m < SuccSize(F, a)

(* The target of such an edge has an id no other block has or will get. *)
BranchesOK ==
  \A i \in 1 .. cursor - 1, v \in Blocks(F) : \A m \in DOMAIN F.succ[RPOT[i]] :
    IsInnerEdge(RPOT[i], m, v) =>
      /\ v \in DOMAIN BlockToMaskID
      /\ BlockToMaskID[v] < MaskIDCounter
      /\ \A b \in DOMAIN BlockToMaskID \ {v} : BlockToMaskID[b] # BlockToMaskID[v]

PPAInv ==
  TraversalInv /\ IDsOK /\ PhaseOK /\ TargetsOK /\ JoinsOK /\ BranchesOK

-----------------------------------------------------------------------------

(* The order is the post order read backwards. *)
LEMMA OrderFacts ==
  ASSUME PostOrder \in Seq(Blocks(F))
  PROVE  /\ Len(RPOT) = Len(PostOrder) /\ DOMAIN RPOT = 1 .. Len(PostOrder)
         /\ \A i \in 1 .. Len(PostOrder) :
              /\ RPOT[i] = PostOrder[(Len(PostOrder) - i) + 1]
              /\ (Len(PostOrder) - i) + 1 \in DOMAIN PostOrder
              /\ RPOT[i] \in Blocks(F)
<1>1. RPOT = [i \in 1 .. Len(PostOrder) |-> PostOrder[(Len(PostOrder) - i) + 1]]
  BY DEF RPOT, Reverse
<1>2. Len(PostOrder) \in Nat /\ DOMAIN PostOrder = 1 .. Len(PostOrder)
  OBVIOUS
<1>3. Len(RPOT) = Len(PostOrder)
  BY <1>1, <1>2
<1>4. \A i \in 1 .. Len(PostOrder) : (Len(PostOrder) - i) + 1 \in DOMAIN PostOrder
  BY <1>2
<1> QED BY <1>1, <1>3, <1>4

(* No block occurs twice in the order. *)
LEMMA OrderInjective ==
  ASSUME TraversalInv
  PROVE  \A i, j \in 1 .. Len(PostOrder) : RPOT[i] = RPOT[j] => i = j
<1>1. PostOrder \in Seq(Blocks(F)) /\ Len(PostOrder) \in Nat
  BY DEF TraversalInv, StackTypeOK
<1>2. \A k, l \in DOMAIN PostOrder : PostOrder[k] = PostOrder[l] => k = l
  BY DEF TraversalInv, ReachedOK
<1>3. ASSUME NEW i \in 1 .. Len(PostOrder), NEW j \in 1 .. Len(PostOrder), RPOT[i] = RPOT[j]
      PROVE  i = j
  <2>1. (Len(PostOrder) - i) + 1 = (Len(PostOrder) - j) + 1
    BY <1>1, <1>2, <1>3, OrderFacts
  <2> QED BY <1>1, <2>1
<1> QED BY <1>3

(* Edges of an acyclic function lead forward in the order. *)
LEMMA ForwardEdges ==
  ASSUME TraversalInv, Acyclic(F)
  PROVE  \A i \in 1 .. Len(PostOrder) : \A s \in Successors(F, RPOT[i]) :
           \E j \in 1 .. Len(PostOrder) : i < j /\ RPOT[j] = s
<1>1. PostOrder \in Seq(Blocks(F)) /\ Len(PostOrder) \in Nat
      /\ DOMAIN PostOrder = 1 .. Len(PostOrder)
  BY DEF TraversalInv, StackTypeOK
<1>2. ASSUME NEW i \in 1 .. Len(PostOrder), NEW s \in Successors(F, RPOT[i])
      PROVE  \E j \in 1 .. Len(PostOrder) : i < j /\ RPOT[j] = s
  <2> DEFINE k == (Len(PostOrder) - i) + 1
  <2>1. k \in DOMAIN PostOrder /\ RPOT[i] = PostOrder[k]
    BY <1>1, OrderFacts
  <2>2. PICK l \in DOMAIN PostOrder : l < k /\ PostOrder[l] = s
    <3> HIDE DEF k
    <3> QED BY <2>1, <1>2 DEF TraversalInv, OrderOK
  <2> DEFINE j == (Len(PostOrder) - l) + 1
  <2>3. j \in 1 .. Len(PostOrder) /\ i < j /\ (Len(PostOrder) - j) + 1 = l
    BY <1>1, <2>2
  <2>4. RPOT[j] = s
    BY <1>1, <2>2, <2>3, OrderFacts
  <2> QED BY <2>3, <2>4
<1> QED BY <1>2

(* A block has finitely many incoming edges, one of them if only one.      *)
LEMMA EdgeFacts ==
  ASSUME WellFormed(F), NEW v \in Blocks(F)
  PROVE  /\ PredSize(F, v) \in Nat
         /\ \A a \in Blocks(F) : \A m \in DOMAIN F.succ[a] : F.succ[a][m] = v =>
              /\ PredSize(F, v) >= 1
              /\ PredSize(F, v) <= 1 => IncomingEdges(F, v) = {<<a, m>>}
         /\ \A e : IncomingEdges(F, v) = {e} => PredSize(F, v) = 1
         /\ \A a, m : <<a, m>> \in IncomingEdges(F, v) =>
              a \in Blocks(F) /\ m \in DOMAIN F.succ[a] /\ F.succ[a][m] = v
<1> DEFINE into == [a \in Blocks(F) |->
                      {<<a, k>> : k \in {j \in DOMAIN F.succ[a] : F.succ[a][j] = v}}]
           T == {into[a] : a \in Blocks(F)}
<1>1. \A a \in Blocks(F) : SuccSize(F, a) \in Nat /\ DOMAIN F.succ[a] = 1 .. SuccSize(F, a)
  BY WellFormedFacts
<1>2. ASSUME NEW a \in Blocks(F) PROVE IsFiniteSet(into[a])
  <2>1. IsFiniteSet({a}) /\ IsFiniteSet(1 .. SuccSize(F, a))
    <3>1. IsFiniteSet({a})
      BY FS_Singleton
    <3>2. 1 \in Int /\ SuccSize(F, a) \in Int
      BY <1>1
    <3>3. IsFiniteSet(1 .. SuccSize(F, a))
      BY <3>2, FS_Interval
    <3> QED BY <3>1, <3>3
  <2>2. IsFiniteSet({a} \X (1 .. SuccSize(F, a)))
    BY <2>1, FS_Product
  <2>3. into[a] \subseteq {a} \X (1 .. SuccSize(F, a))
    BY <1>1
  <2> HIDE DEF into
  <2> QED BY <2>2, <2>3, FS_Subset
<1>3. IsFiniteSet(T)
  <2>1. into \in Surjection(Blocks(F), T)
    <3>1. into \in [Blocks(F) -> T]
      OBVIOUS
    <3>2. \A t \in T : \E s \in Blocks(F) : into[s] = t
      OBVIOUS
    <3> HIDE DEF into, T
    <3> QED BY <3>1, <3>2 DEF Surjection
  <2>2. IsFiniteSet(Blocks(F))
    BY DEF WellFormed
  <2> HIDE DEF into, T
  <2> QED BY <2>1, <2>2, FS_Surjection
<1>4. \A S \in T : IsFiniteSet(S)
  BY <1>2
<1>5. IsFiniteSet(UNION T)
  <2> HIDE DEF T
  <2> QED BY <1>3, <1>4, FS_UNION
<1>6. IncomingEdges(F, v) = UNION T
  BY DEF IncomingEdges
<1>7. PredSize(F, v) \in Nat
  BY <1>5, <1>6, FS_CardinalityType DEF PredSize
<1>8. IsFiniteSet(IncomingEdges(F, v))
  BY <1>5, <1>6
<1>9. \A a, m : <<a, m>> \in IncomingEdges(F, v) <=>
             a \in Blocks(F) /\ m \in DOMAIN F.succ[a] /\ F.succ[a][m] = v
  BY DEF IncomingEdges
<1> HIDE DEF T, into
<1>10. ASSUME NEW a \in Blocks(F), NEW m \in DOMAIN F.succ[a], F.succ[a][m] = v
       PROVE  /\ PredSize(F, v) >= 1
              /\ PredSize(F, v) <= 1 => IncomingEdges(F, v) = {<<a, m>>}
  <2>1. <<a, m>> \in IncomingEdges(F, v)
    BY <1>9, <1>10
  <2>2. PredSize(F, v) # 0
    BY <1>8, <2>1, FS_EmptySet DEF PredSize
  <2>3. ASSUME PredSize(F, v) = 1 PROVE IncomingEdges(F, v) = {<<a, m>>}
    <3>1. \E x : IncomingEdges(F, v) = {x}
      BY <1>8, <2>3, FS_Singleton DEF PredSize
    <3> QED BY <2>1, <3>1
  <2> QED BY <1>7, <2>2, <2>3
<1>11. \A e : IncomingEdges(F, v) = {e} => PredSize(F, v) = 1
  BY FS_Singleton DEF PredSize
<1> QED BY <1>7, <1>9, <1>10, <1>11

(* The last edge from a block to a successor. *)
LEMMA LastEdgeChosen ==
  ASSUME WellFormed(F), NEW b \in Blocks(F), NEW s \in Successors(F, b)
  PROVE  /\ LastEdgeTo(b, s) \in DOMAIN F.succ[b]
         /\ F.succ[b][LastEdgeTo(b, s)] = s
<1> DEFINE S == {k \in DOMAIN F.succ[b] : F.succ[b][k] = s}
<1>1. SuccSize(F, b) \in Nat /\ DOMAIN F.succ[b] = 1 .. SuccSize(F, b)
  BY WellFormedFacts
<1>2. S \in SUBSET (0 .. SuccSize(F, b)) /\ S # {}
  BY <1>1 DEF Successors
<1>3. PICK k \in S : \A j \in S : k >= j
  <2> HIDE DEF S
  <2> QED BY <1>1, <1>2, GreatestElement
<1>4. \A j \in S : j <= k
  BY <1>1, <1>3
<1>5. \E l \in DOMAIN F.succ[b] :
        F.succ[b][l] = s /\ \A j \in DOMAIN F.succ[b] : F.succ[b][j] = s => j <= l
  BY <1>3, <1>4
<1> QED BY <1>5 DEF LastEdgeTo

-----------------------------------------------------------------------------

(* The counter and the ids after the block's own case. *)
LEMMA OwnCase ==
  ASSUME IDsOK, NEW b \in Blocks(F)
  PROVE  /\ CounterAt(b) \in Nat /\ MaskIDCounter <= CounterAt(b)
         /\ PathsConverge(b) => CounterAt(b) = MaskIDCounter + 1
         /\ ~PathsConverge(b) => CounterAt(b) = MaskIDCounter /\ IDsAt(b) = BlockToMaskID
         /\ DOMAIN IDsAt(b) \subseteq Blocks(F)
         /\ DOMAIN BlockToMaskID \subseteq DOMAIN IDsAt(b)
         /\ PathsConverge(b) => b \in DOMAIN IDsAt(b) /\ IDsAt(b)[b] = MaskIDCounter + 1
         /\ \A a \in DOMAIN IDsAt(b) : a # b \/ ~PathsConverge(b) =>
              a \in DOMAIN BlockToMaskID /\ IDsAt(b)[a] = BlockToMaskID[a]
         /\ \A a \in DOMAIN IDsAt(b) : IDsAt(b)[a] \in 0 .. CounterAt(b)
<1>1. MaskIDCounter \in Nat /\ DOMAIN BlockToMaskID \subseteq Blocks(F)
      /\ \A a \in DOMAIN BlockToMaskID : BlockToMaskID[a] \in 0 .. MaskIDCounter
  BY DEF IDsOK
<1>2. CASE PathsConverge(b)
  <2>1. CounterAt(b) = MaskIDCounter + 1
    BY <1>2 DEF CounterAt
  <2>2. IDsAt(b) = [a \in DOMAIN BlockToMaskID \cup {b} |->
                      IF a = b THEN MaskIDCounter + 1 ELSE BlockToMaskID[a]]
    BY <1>2, <2>1 DEF IDsAt, Insert
  <2> QED BY <1>1, <1>2, <2>1, <2>2
<1>3. CASE ~PathsConverge(b)
  BY <1>1, <1>3 DEF CounterAt, IDsAt
<1> QED BY <1>2, <1>3

(* What one iteration does to the ids, with b the block it is at. *)
NumbersSuccessors(b) == SuccSize(F, b) > 1 \/ NumbersSuccessor(b)

LEMMA IterationEffect ==
  ASSUME WellFormed(F), IDsOK, NEW b \in Blocks(F),
         NumberOnlySuccessor(b) \/ NumberBranchTargets(b) \/ NumberNoSuccessor(b)
  PROVE  /\ MaskIDCounter' \in Nat /\ CounterAt(b) <= MaskIDCounter'
         /\ DOMAIN BlockToMaskID' \subseteq Blocks(F)
         /\ DOMAIN IDsAt(b) \subseteq DOMAIN BlockToMaskID'
         /\ \A a \in DOMAIN BlockToMaskID' :
              a \notin Successors(F, b) \/ ~NumbersSuccessors(b) =>
                a \in DOMAIN IDsAt(b) /\ BlockToMaskID'[a] = IDsAt(b)[a]
         /\ NumbersSuccessors(b) =>
              /\ Successors(F, b) \subseteq DOMAIN BlockToMaskID'
              /\ \A s \in Successors(F, b) : BlockToMaskID'[s] \in CounterAt(b) .. MaskIDCounter'
         /\ SuccSize(F, b) > 1 =>
              /\ MaskIDCounter' = CounterAt(b) + SuccSize(F, b)
              /\ \A s \in Successors(F, b) : BlockToMaskID'[s] = BranchID(b, s)
<1>1. CounterAt(b) \in Nat /\ DOMAIN IDsAt(b) \subseteq Blocks(F)
  BY OwnCase
<1>2. /\ SuccSize(F, b) \in Nat /\ DOMAIN F.succ[b] = 1 .. SuccSize(F, b)
      /\ Successors(F, b) \subseteq Blocks(F)
  BY WellFormedFacts
<1>3. CASE NumberOnlySuccessor(b)
  <2>1. /\ MaskIDCounter' = SuccessorID(b)
        /\ BlockToMaskID' = [a \in DOMAIN IDsAt(b) \cup {F.succ[b][1]} |->
                                IF a = F.succ[b][1] THEN SuccessorID(b) ELSE IDsAt(b)[a]]
        /\ SuccSize(F, b) = 1 /\ NumbersSuccessors(b)
    BY <1>3 DEF NumberOnlySuccessor, Insert, NumbersSuccessor, NumbersSuccessors
  <2>2. Successors(F, b) = {F.succ[b][1]}
    BY <1>2, <2>1 DEF Successors
  <2>3. SuccessorID(b) \in Nat /\ CounterAt(b) <= SuccessorID(b)
    BY <1>1 DEF SuccessorID
  <2> HIDE DEF Successors
  <2> QED BY <1>1, <1>2, <2>1, <2>2, <2>3
<1>4. CASE NumberBranchTargets(b)
  <2>1. /\ MaskIDCounter' = CounterAt(b) + SuccSize(F, b)
        /\ BlockToMaskID' = [a \in DOMAIN IDsAt(b) \cup Successors(F, b) |->
                                IF a \in Successors(F, b) THEN BranchID(b, a) ELSE IDsAt(b)[a]]
        /\ NumbersSuccessors(b)
    BY <1>4 DEF NumberBranchTargets, NumbersSuccessors
  <2>2. \A s \in Successors(F, b) : BranchID(b, s) \in CounterAt(b) .. MaskIDCounter'
    <3>1. \A s \in Successors(F, b) : LastEdgeTo(b, s) \in 1 .. SuccSize(F, b)
      BY <1>2, LastEdgeChosen
    <3> QED BY <1>1, <1>2, <2>1, <3>1 DEF BranchID
  <2>3. MaskIDCounter' \in Nat /\ CounterAt(b) <= MaskIDCounter'
    BY <1>1, <1>2, <2>1
  <2> QED BY <1>1, <1>2, <2>1, <2>2, <2>3
<1>5. CASE NumberNoSuccessor(b)
  <2>1. MaskIDCounter' = CounterAt(b) /\ BlockToMaskID' = IDsAt(b)
        /\ ~NumbersSuccessors(b) /\ ~(SuccSize(F, b) > 1)
    BY <1>2, <1>5 DEF NumberNoSuccessor, NumbersSuccessors
  <2> QED BY <1>1, <2>1
<1> QED BY <1>3, <1>4, <1>5

-----------------------------------------------------------------------------

(* The ids of the blocks before an iteration of the loop, after it. *)
LEMMA IterationKeepsIDs ==
  ASSUME WellFormed(F), IDsOK, NEW b \in Blocks(F),
         NumberOnlySuccessor(b) \/ NumberBranchTargets(b) \/ NumberNoSuccessor(b),
         NEW a \in Blocks(F), a \notin Successors(F, b), a # b \/ ~PathsConverge(b)
  PROVE  /\ a \in DOMAIN BlockToMaskID' <=> a \in DOMAIN BlockToMaskID
         /\ a \in DOMAIN BlockToMaskID => BlockToMaskID'[a] = BlockToMaskID[a]
BY OwnCase, IterationEffect

LEMMA IterationIDsOK ==
  ASSUME PPAInv, NumberBlock
  PROVE  IDsOK' /\ RPOT[cursor] \in Blocks(F) /\ cursor <= Len(PostOrder)
<1>1. PostOrder \in Seq(Blocks(F)) /\ WellFormed(F) /\ IDsOK
  BY DEF PPAInv, TraversalInv, StackTypeOK
<1>2. cursor \in Nat \ {0} /\ cursor <= Len(RPOT) /\ UNCHANGED <<F, phase>> /\ cursor' = cursor + 1
  BY <1>1 DEF IDsOK, NumberBlock
<1>3. cursor \in 1 .. Len(PostOrder) /\ RPOT[cursor] \in Blocks(F)
  BY <1>1, <1>2, OrderFacts
<1> DEFINE b == RPOT[cursor]
<1>4. NumberOnlySuccessor(b) \/ NumberBranchTargets(b) \/ NumberNoSuccessor(b)
  BY DEF NumberBlock
<1> HIDE DEF b
<1>5. b \in Blocks(F)
  BY <1>3 DEF b
<1>6. ASSUME NEW a \in DOMAIN BlockToMaskID' PROVE BlockToMaskID'[a] \in 0 .. MaskIDCounter'
  <2>1. MaskIDCounter' \in Nat /\ CounterAt(b) <= MaskIDCounter' /\ CounterAt(b) \in Nat
    BY <1>1, <1>4, <1>5, IterationEffect, OwnCase
  <2>2. CASE a \notin Successors(F, b) \/ ~NumbersSuccessors(b)
    <3>1. a \in DOMAIN IDsAt(b) /\ BlockToMaskID'[a] = IDsAt(b)[a]
      BY <1>1, <1>4, <1>5, <2>2, IterationEffect
    <3>2. IDsAt(b)[a] \in 0 .. CounterAt(b)
      BY <1>1, <1>5, <3>1, OwnCase
    <3> QED BY <2>1, <3>1, <3>2
  <2>3. CASE a \in Successors(F, b) /\ NumbersSuccessors(b)
    <3>1. BlockToMaskID'[a] \in CounterAt(b) .. MaskIDCounter'
      BY <1>1, <1>4, <1>5, <2>3, IterationEffect
    <3> QED BY <2>1, <3>1
  <2> QED BY <2>2, <2>3
<1>7. MaskIDCounter' \in Nat /\ DOMAIN BlockToMaskID' \subseteq Blocks(F)
  BY <1>1, <1>4, <1>5, IterationEffect
<1> QED BY <1>1, <1>2, <1>3, <1>6, <1>7 DEF IDsOK, b

(* What NumberBlock leaves alone, and the block it is at. *)
LEMMA IterationFrame ==
  ASSUME PPAInv, NumberBlock
  PROVE  /\ UNCHANGED <<F, VisitStack, Visited, PostOrder, phase, RPOT>>
         /\ WellFormed(F) /\ IDsOK /\ TraversalInv
         /\ phase = "numbering" /\ VisitStack = <<>>
         /\ Len(PostOrder) \in Nat
         /\ cursor \in 1 .. Len(PostOrder) /\ cursor' = cursor + 1
         /\ RPOT[cursor] \in Blocks(F)
         /\ \/ NumberOnlySuccessor(RPOT[cursor])
            \/ NumberBranchTargets(RPOT[cursor])
            \/ NumberNoSuccessor(RPOT[cursor])
         /\ \A i \in 1 .. Len(PostOrder) : RPOT[i] \in Blocks(F)
<1>1. PostOrder \in Seq(Blocks(F)) /\ WellFormed(F) /\ IDsOK /\ TraversalInv /\ PhaseOK
  BY DEF PPAInv, TraversalInv, StackTypeOK
<1>2. UNCHANGED <<F, VisitStack, Visited, PostOrder, phase>> /\ phase = "numbering"
  BY DEF NumberBlock, traversalVars
<1>3. UNCHANGED RPOT
  BY <1>2 DEF RPOT
<1>4. cursor \in 1 .. Len(PostOrder) /\ cursor' = cursor + 1
  BY <1>1, IterationIDsOK DEF NumberBlock, IDsOK
<1> QED BY <1>1, <1>2, <1>3, <1>4, OrderFacts DEF PhaseOK, NumberBlock

LEMMA IterationTargets ==
  ASSUME PPAInv, NumberBlock
  PROVE  TargetsOK'
<1> PICK c \in Nat, p \in Nat, b \in Blocks(F) : c = cursor /\ b = RPOT[c] /\ p = Len(PostOrder)
  BY IterationFrame
<1>1. /\ UNCHANGED <<F, RPOT>> /\ WellFormed(F) /\ IDsOK /\ TraversalInv /\ VisitStack = <<>>
      /\ c \in 1 .. p /\ cursor' = c + 1 /\ b \in Blocks(F)
      /\ NumberOnlySuccessor(b) \/ NumberBranchTargets(b) \/ NumberNoSuccessor(b)
      /\ \A i \in 1 .. p : RPOT[i] \in Blocks(F)
  BY IterationFrame
<1> SUFFICES ASSUME SuccSize(F, Entry(F)) > 1, NEW i \in 1 .. c
             PROVE  Successors(F, RPOT[i]) \subseteq DOMAIN BlockToMaskID'
  <2>1. \A x : Successors(F, x)' = Successors(F, x) /\ SuccSize(F, x)' = SuccSize(F, x)
    BY <1>1
  <2>2. Entry(F)' = Entry(F) /\ (cursor - 1)' = c
    BY <1>1
  <2> QED BY <1>1, <2>1, <2>2 DEF TargetsOK
<1>2. DOMAIN BlockToMaskID \subseteq DOMAIN BlockToMaskID'
  BY <1>1, IterationEffect, OwnCase
<1>3. CASE i < c
  <2>1. i \in 1 .. cursor - 1
    BY <1>3
  <2> QED BY <1>2, <2>1 DEF PPAInv, TargetsOK
<1>4. CASE i = c
  <2>1. CASE NumbersSuccessors(b)
    BY <1>1, <1>4, <2>1, IterationEffect
  <2>2. CASE ~NumbersSuccessors(b)
    <3>1. SuccSize(F, b) \in Nat /\ DOMAIN F.succ[b] = 1 .. SuccSize(F, b) /\ b # Entry(F)
          /\ ~NumbersSuccessor(b) /\ ~(SuccSize(F, b) > 1)
      BY <1>1, <2>2, WellFormedFacts DEF NumbersSuccessors
    <3>2. CASE SuccSize(F, b) = 0
      BY <1>4, <3>1, <3>2 DEF Successors
    <3>3. CASE SuccSize(F, b) = 1
      <4>1. b \in Visited
        <5>1. \A k \in DOMAIN PostOrder : PostOrder[k] \in Visited
          BY <1>1 DEF TraversalInv, ReachedOK
        <5>2. PostOrder \in Seq(Blocks(F))
          BY <1>1 DEF TraversalInv, StackTypeOK
        <5> QED BY <1>1, <5>1, <5>2, OrderFacts
      <4>2. PICK a \in Blocks(F) : b \in Successors(F, a)
        BY <1>1, <3>1, <4>1 DEF TraversalInv, ReachedOK
      <4>3. PICK m \in DOMAIN F.succ[a] : F.succ[a][m] = b
        BY <4>2 DEF Successors
      <4>4. PredSize(F, b) >= 1
        BY <1>1, <4>3, EdgeFacts
      <4> QED BY <3>1, <3>3, <4>4 DEF NumbersSuccessor
    <3> QED BY <3>1, <3>2, <3>3
  <2> QED BY <2>1, <2>2
<1> QED BY <1>1, <1>3, <1>4

(* In an acyclic function the loop gives no id to a block it has passed. *)
LEMMA PassedKeepIDs ==
  ASSUME PPAInv, NumberBlock, Acyclic(F), NEW i \in 1 .. cursor,
         i # cursor \/ ~PathsConverge(RPOT[cursor])
  PROVE  /\ RPOT[i] \in DOMAIN BlockToMaskID' <=> RPOT[i] \in DOMAIN BlockToMaskID
         /\ RPOT[i] \in DOMAIN BlockToMaskID => BlockToMaskID'[RPOT[i]] = BlockToMaskID[RPOT[i]]
<1> PICK c \in Nat, p \in Nat, b \in Blocks(F) : c = cursor /\ b = RPOT[c] /\ p = Len(PostOrder)
  BY IterationFrame
<1>1. /\ WellFormed(F) /\ IDsOK /\ TraversalInv
      /\ c \in 1 .. p /\ b \in Blocks(F)
      /\ NumberOnlySuccessor(b) \/ NumberBranchTargets(b) \/ NumberNoSuccessor(b)
      /\ \A l \in 1 .. p : RPOT[l] \in Blocks(F)
  BY IterationFrame
<1>2. i \in 1 .. p /\ i <= c
  BY <1>1
<1>3. RPOT[i] \notin Successors(F, b)
  <2> SUFFICES ASSUME RPOT[i] \in Successors(F, b) PROVE FALSE
    OBVIOUS
  <2>1. PICK j \in 1 .. p : c < j /\ RPOT[j] = RPOT[i]
    BY <1>1, ForwardEdges
  <2>2. j = i
    BY <1>1, <1>2, <2>1, OrderInjective
  <2> QED BY <1>2, <2>1, <2>2
<1>4. RPOT[i] # b \/ ~PathsConverge(b)
  BY <1>1, <1>2, OrderInjective
<1>5. RPOT[i] \in Blocks(F)
  BY <1>1, <1>2
<1> QED BY <1>1, <1>3, <1>4, <1>5, IterationKeepsIDs

LEMMA IterationJoins ==
  ASSUME PPAInv, NumberBlock
  PROVE  JoinsOK'
<1> PICK c \in Nat, p \in Nat, b \in Blocks(F) : c = cursor /\ b = RPOT[c] /\ p = Len(PostOrder)
  BY IterationFrame
<1>1. /\ UNCHANGED <<F, RPOT>> /\ WellFormed(F) /\ IDsOK /\ TraversalInv
      /\ c \in 1 .. p /\ cursor' = c + 1 /\ b \in Blocks(F)
      /\ NumberOnlySuccessor(b) \/ NumberBranchTargets(b) \/ NumberNoSuccessor(b)
  BY IterationFrame
<1> SUFFICES ASSUME Acyclic(F), NEW i \in 1 .. c, PathsConverge(RPOT[i])
             PROVE  /\ RPOT[i] \in DOMAIN BlockToMaskID'
                    /\ \A j \in 1 .. i - 1 : RPOT[j] \in DOMAIN BlockToMaskID' =>
                         BlockToMaskID'[RPOT[j]] < BlockToMaskID'[RPOT[i]]
  <2>1. \A x : PathsConverge(x)' = PathsConverge(x)
    BY <1>1 DEF PathsConverge
  <2>2. Acyclic(F)' = Acyclic(F) /\ (cursor - 1)' = c
    BY <1>1
  <2> QED BY <1>1, <2>1, <2>2 DEF JoinsOK
<1>2. \A j \in 1 .. i - 1 : j \in 1 .. c - 1 /\ j \in 1 .. cursor /\ j # cursor
  BY <1>1
<1>3. \A j \in 1 .. i - 1 :
        /\ RPOT[j] \in DOMAIN BlockToMaskID' <=> RPOT[j] \in DOMAIN BlockToMaskID
        /\ RPOT[j] \in DOMAIN BlockToMaskID => BlockToMaskID'[RPOT[j]] = BlockToMaskID[RPOT[j]]
  BY <1>2, PassedKeepIDs
<1>4. CASE i < c
  <2>1. i \in 1 .. cursor - 1 /\ i \in 1 .. cursor /\ i # cursor
    BY <1>1, <1>4
  <2>2. /\ RPOT[i] \in DOMAIN BlockToMaskID
        /\ \A j \in 1 .. i - 1 : RPOT[j] \in DOMAIN BlockToMaskID =>
             BlockToMaskID[RPOT[j]] < BlockToMaskID[RPOT[i]]
    BY <2>1 DEF PPAInv, JoinsOK
  <2>3. RPOT[i] \in DOMAIN BlockToMaskID' /\ BlockToMaskID'[RPOT[i]] = BlockToMaskID[RPOT[i]]
    BY <2>1, <2>2, PassedKeepIDs
  <2> QED BY <1>3, <2>2, <2>3
<1>5. CASE i = c
  <2>1. b \notin Successors(F, b)
    <3> SUFFICES ASSUME b \in Successors(F, b) PROVE FALSE
      OBVIOUS
    <3>1. PICK j \in 1 .. p : c < j /\ RPOT[j] = b
      BY <1>1, ForwardEdges
    <3> QED BY <1>1, <3>1, OrderInjective
  <2>2. b \in DOMAIN IDsAt(b) /\ IDsAt(b)[b] = MaskIDCounter + 1
    BY <1>1, <1>5, OwnCase
  <2>3. b \in DOMAIN BlockToMaskID' /\ BlockToMaskID'[b] = MaskIDCounter + 1
    BY <1>1, <2>1, <2>2, IterationEffect
  <2>4. MaskIDCounter \in Nat /\ \A a \in DOMAIN BlockToMaskID : BlockToMaskID[a] \in 0 .. MaskIDCounter
    BY <1>1 DEF IDsOK
  <2> QED BY <1>3, <1>5, <2>3, <2>4
<1> QED BY <1>4, <1>5

LEMMA IterationBranches ==
  ASSUME PPAInv, NumberBlock
  PROVE  BranchesOK'
<1> PICK c \in Nat, p \in Nat, b \in Blocks(F) : c = cursor /\ b = RPOT[c] /\ p = Len(PostOrder)
  BY IterationFrame
<1>1. /\ UNCHANGED <<F, RPOT>> /\ WellFormed(F) /\ IDsOK /\ TraversalInv
      /\ c \in 1 .. p /\ cursor' = c + 1
      /\ NumberOnlySuccessor(b) \/ NumberBranchTargets(b) \/ NumberNoSuccessor(b)
      /\ \A i \in 1 .. p : RPOT[i] \in Blocks(F)
  BY IterationFrame
<1> SUFFICES ASSUME NEW i \in 1 .. c, NEW v \in Blocks(F), NEW m \in DOMAIN F.succ[RPOT[i]],
                    IsInnerEdge(RPOT[i], m, v)
             PROVE  /\ v \in DOMAIN BlockToMaskID'
                    /\ BlockToMaskID'[v] < MaskIDCounter'
                    /\ \A x \in DOMAIN BlockToMaskID' \ {v} : BlockToMaskID'[x] # BlockToMaskID'[v]
  <2>1. \A a, m, v : IsInnerEdge(a, m, v)' = IsInnerEdge(a, m, v)
    BY <1>1 DEF IsInnerEdge
  <2>2. Blocks(F)' = Blocks(F) /\ (cursor - 1)' = c
    BY <1>1
  <2> QED BY <1>1, <2>1, <2>2 DEF BranchesOK
<1>2. RPOT[i] \in Blocks(F) /\ i \in 1 .. p
  BY <1>1
<1>3. /\ IncomingEdges(F, v) = {<<RPOT[i], m>>} /\ m < SuccSize(F, RPOT[i])
      /\ F.succ[RPOT[i]][m] = v
      /\ \A a \in Blocks(F) : \A k \in DOMAIN F.succ[a] : F.succ[a][k] = v => a = RPOT[i] /\ k = m
  <2>1. IncomingEdges(F, v) = {<<RPOT[i], m>>} /\ m < SuccSize(F, RPOT[i])
    BY DEF IsInnerEdge
  <2>2. \A a, k : <<a, k>> \in IncomingEdges(F, v) => a = RPOT[i] /\ k = m
    BY <2>1
  <2>3. \A a \in Blocks(F) : \A k \in DOMAIN F.succ[a] : F.succ[a][k] = v =>
           <<a, k>> \in IncomingEdges(F, v)
    BY DEF IncomingEdges
  <2>4. <<RPOT[i], m>> \in IncomingEdges(F, v)
    BY <2>1
  <2>5. F.succ[RPOT[i]][m] = v
    BY <1>1, <2>4, EdgeFacts
  <2> QED BY <2>1, <2>2, <2>3, <2>5
<1>4. ~PathsConverge(v)
  <2>1. PredSize(F, v) = 1
    <3>1. \A e : IncomingEdges(F, v) = {e} => PredSize(F, v) = 1
      BY <1>1, EdgeFacts
    <3> QED BY <1>3, <3>1
  <2> QED BY <2>1 DEF PathsConverge
<1>5. /\ CounterAt(b) \in Nat /\ MaskIDCounter \in Nat /\ MaskIDCounter' \in Nat
      /\ MaskIDCounter <= CounterAt(b) /\ CounterAt(b) <= MaskIDCounter'
      /\ \A a \in DOMAIN IDsAt(b) : IDsAt(b)[a] \in 0 .. CounterAt(b)
  BY <1>1, OwnCase, IterationEffect DEF IDsOK
<1>6. CASE i < c
  <2>1. RPOT[i] # b
    BY <1>1, <1>2, <1>6, OrderInjective
  <2>2. v \notin Successors(F, b)
    BY <1>3, <2>1 DEF Successors
  <2>3. /\ v \in DOMAIN BlockToMaskID
        /\ BlockToMaskID[v] < MaskIDCounter
        /\ \A x \in DOMAIN BlockToMaskID \ {v} : BlockToMaskID[x] # BlockToMaskID[v]
    <3>1. i \in 1 .. cursor - 1
      BY <1>6
    <3> QED BY <3>1 DEF PPAInv, BranchesOK
  <2>4. v \in DOMAIN BlockToMaskID' /\ BlockToMaskID'[v] = BlockToMaskID[v]
    <3>1. v # b \/ ~PathsConverge(b)
      BY <1>4
    <3>2. v \in DOMAIN BlockToMaskID'
      BY <1>1, <2>3, OwnCase, IterationEffect
    <3> QED BY <1>1, <2>2, <2>3, <3>1, <3>2, IterationKeepsIDs
  <2>5. BlockToMaskID[v] \in Nat
    BY <1>1, <2>3 DEF IDsOK
  <2>6. ASSUME NEW x \in DOMAIN BlockToMaskID' \ {v} PROVE BlockToMaskID'[x] # BlockToMaskID[v]
    <3>1. CASE x \in Successors(F, b) /\ NumbersSuccessors(b)
      <4>1. BlockToMaskID'[x] \in CounterAt(b) .. MaskIDCounter'
        BY <1>1, <3>1, IterationEffect
      <4> QED BY <1>5, <2>3, <2>5, <4>1
    <3>2. CASE x \notin Successors(F, b) \/ ~NumbersSuccessors(b)
      <4>1. x \in DOMAIN IDsAt(b) /\ BlockToMaskID'[x] = IDsAt(b)[x]
        BY <1>1, <3>2, IterationEffect
      <4>2. CASE x = b /\ PathsConverge(b)
        <5>1. BlockToMaskID'[x] = MaskIDCounter + 1
          BY <1>1, <4>1, <4>2, OwnCase
        <5> QED BY <1>5, <2>3, <2>5, <5>1
      <4>3. CASE x # b \/ ~PathsConverge(b)
        <5>1. x \in DOMAIN BlockToMaskID /\ BlockToMaskID'[x] = BlockToMaskID[x]
          BY <1>1, <4>1, <4>3, OwnCase
        <5> QED BY <2>3, <5>1
      <4> QED BY <4>2, <4>3
    <3> QED BY <3>1, <3>2
  <2> QED BY <1>5, <2>3, <2>4, <2>5, <2>6
<1>7. CASE i = c
  <2>1. RPOT[i] = b
    BY <1>7
  <2>2. SuccSize(F, b) \in Nat /\ DOMAIN F.succ[b] = 1 .. SuccSize(F, b)
    BY <1>1, WellFormedFacts
  <2>3. m \in Nat /\ m > 0 /\ m < SuccSize(F, b) /\ SuccSize(F, b) > 1 /\ F.succ[b][m] = v
    BY <1>3, <2>1, <2>2
  <2>4. v \in Successors(F, b) /\ NumbersSuccessors(b)
    BY <2>1, <2>3 DEF Successors, NumbersSuccessors
  <2>5. LastEdgeTo(b, v) = m
    BY <1>1, <1>3, <2>4, LastEdgeChosen
  <2>6. /\ v \in DOMAIN BlockToMaskID' /\ BlockToMaskID'[v] = CounterAt(b) + m
        /\ MaskIDCounter' = CounterAt(b) + SuccSize(F, b)
        /\ \A s \in Successors(F, b) : BlockToMaskID'[s] = CounterAt(b) + LastEdgeTo(b, s)
    BY <1>1, <2>3, <2>4, <2>5, IterationEffect DEF BranchID
  <2>7. ASSUME NEW x \in DOMAIN BlockToMaskID' \ {v} PROVE BlockToMaskID'[x] # CounterAt(b) + m
    <3>1. CASE x \in Successors(F, b)
      <4>1. LastEdgeTo(b, x) \in DOMAIN F.succ[b] /\ F.succ[b][LastEdgeTo(b, x)] = x
        BY <1>1, <3>1, LastEdgeChosen
      <4>2. LastEdgeTo(b, x) # m /\ LastEdgeTo(b, x) \in Nat
        BY <2>2, <2>3, <4>1
      <4> QED BY <1>5, <2>3, <2>6, <3>1, <4>2
    <3>2. CASE x \notin Successors(F, b)
      <4>1. x \in DOMAIN IDsAt(b) /\ BlockToMaskID'[x] = IDsAt(b)[x]
        BY <1>1, <3>2, IterationEffect
      <4> QED BY <1>5, <2>3, <4>1
    <3> QED BY <3>1, <3>2
  <2> QED BY <1>5, <2>2, <2>3, <2>6, <2>7
<1> QED BY <1>1, <1>6, <1>7

-----------------------------------------------------------------------------

LEMMA InitPPAInv == PPAInit => PPAInv
<1> SUFFICES ASSUME PPAInit PROVE PPAInv
  OBVIOUS
<1>1. WellFormed(F)
  BY InputAssumption DEF PPAInit
<1>2. TraversalInv
  BY <1>1, TraversalStarts DEF PPAInit
<1>3. /\ cursor = 1 /\ MaskIDCounter = 0 /\ BlockToMaskID = <<>>
      /\ phase \in {"traversing", "analyzed"}
      /\ phase = "analyzed" => OrderIsImplicit(F)
  BY DEF PPAInit
<1>4. DOMAIN BlockToMaskID = {}
  BY <1>3
<1>5. IDsOK
  BY <1>3, <1>4 DEF IDsOK
<1>6. PhaseOK
  BY <1>3 DEF PhaseOK, Analyzed
<1>7. 1 .. cursor - 1 = {}
  BY <1>3
<1>8. TargetsOK /\ JoinsOK /\ BranchesOK
  BY <1>7 DEF TargetsOK, JoinsOK, BranchesOK
<1> QED BY <1>2, <1>5, <1>6, <1>8 DEF PPAInv

(* Outside the loop over the order only the traversal and the phase move. *)
LEMMA FrameKeepsIDs ==
  ASSUME PPAInv, UNCHANGED <<F, analysisVars>>, phase' \in {"traversing", "numbering", "analyzed"},
         UNCHANGED PostOrder \/ cursor = 1
  PROVE  IDsOK' /\ TargetsOK' /\ JoinsOK' /\ BranchesOK'
<1>1. UNCHANGED <<F, cursor, MaskIDCounter, BlockToMaskID>>
  BY DEF analysisVars
<1>2. IDsOK'
  BY <1>1 DEF PPAInv, IDsOK
<1>3. CASE cursor = 1
  <2>1. (1 .. cursor - 1)' = {}
    BY <1>1, <1>3
  <2> QED BY <1>2, <2>1 DEF TargetsOK, JoinsOK, BranchesOK
<1>4. CASE UNCHANGED PostOrder
  <2>1. UNCHANGED RPOT
    BY <1>4 DEF RPOT
  <2>2. TargetsOK'
    BY <1>1, <2>1 DEF PPAInv, TargetsOK
  <2>3. JoinsOK'
    <3>1. Acyclic(F)' = Acyclic(F) /\ \A x : PathsConverge(x)' = PathsConverge(x)
      BY <1>1 DEF PathsConverge
    <3> QED BY <1>1, <2>1, <3>1 DEF PPAInv, JoinsOK
  <2>4. BranchesOK'
    <3>1. \A a, m, v : IsInnerEdge(a, m, v)' = IsInnerEdge(a, m, v)
      BY <1>1 DEF IsInnerEdge
    <3> QED BY <1>1, <2>1, <3>1 DEF PPAInv, BranchesOK
  <2> QED BY <1>2, <2>2, <2>3, <2>4
<1> QED BY <1>3, <1>4

LEMMA StepPPAInv == PPAInv /\ [PPANext]_ppaVars => PPAInv'
<1> SUFFICES ASSUME PPAInv, [PPANext]_ppaVars PROVE PPAInv'
  OBVIOUS
<1>1. CASE TraverseForAnalysis
  <2>1. UNCHANGED <<F, phase, analysisVars>> /\ Traverse /\ phase = "traversing"
    BY <1>1 DEF TraverseForAnalysis
  <2>2. TraversalInv'
    BY <2>1, TraverseKeepsInv DEF PPAInv
  <2>3. cursor = 1 /\ UNCHANGED <<F, cursor>>
    BY <2>1 DEF PPAInv, PhaseOK, analysisVars
  <2>4. PhaseOK'
    BY <2>1, <2>3 DEF PhaseOK, Analyzed
  <2>5. phase' \in {"traversing", "numbering", "analyzed"}
    BY <2>1
  <2> QED BY <2>1, <2>2, <2>3, <2>4, <2>5, FrameKeepsIDs DEF PPAInv
<1>2. ASSUME UNCHANGED <<F, traversalVars, analysisVars>>,
             phase' \in {"traversing", "numbering", "analyzed"}, PhaseOK'
      PROVE  PPAInv'
  <2>1. UNCHANGED <<F, VisitStack, Visited, PostOrder>>
    BY <1>2 DEF traversalVars
  <2>2. TraversalInv'
    BY <2>1, TraversalStays DEF PPAInv
  <2> QED BY <1>2, <2>1, <2>2, FrameKeepsIDs DEF PPAInv
<1>3. CASE StartNumbering
  <2>1. PhaseOK'
    <3>1. VisitStack = <<>> /\ cursor = 1 /\ phase' = "numbering" /\ UNCHANGED <<VisitStack, PostOrder, cursor>>
      BY <1>3 DEF StartNumbering, TraversalEnded, PPAInv, PhaseOK, traversalVars, analysisVars
    <3>2. Len(PostOrder) \in Nat
      BY DEF PPAInv, TraversalInv, StackTypeOK
    <3> QED BY <3>1, <3>2 DEF PhaseOK, Analyzed
  <2> QED BY <1>2, <1>3, <2>1 DEF StartNumbering
<1>4. CASE NumberBlock
  <2>1. /\ UNCHANGED <<F, VisitStack, Visited, PostOrder, phase, RPOT>> /\ phase = "numbering"
        /\ VisitStack = <<>> /\ cursor \in 1 .. Len(PostOrder) /\ cursor' = cursor + 1
        /\ Len(PostOrder) \in Nat
    BY <1>4, IterationFrame
  <2>2. PhaseOK'
    BY <2>1 DEF PhaseOK, Analyzed
  <2>3. TraversalInv'
    BY <2>1, TraversalStays DEF PPAInv
  <2> QED BY <1>4, <2>2, <2>3, IterationIDsOK, IterationTargets, IterationJoins, IterationBranches
          DEF PPAInv
<1>5. CASE FinishNumbering
  <2>1. PhaseOK'
    <3>1. /\ VisitStack = <<>> /\ cursor > Len(RPOT) /\ cursor <= Len(PostOrder) + 1
          /\ phase' = "analyzed" /\ UNCHANGED <<F, VisitStack, PostOrder, cursor>>
          /\ PostOrder \in Seq(Blocks(F)) /\ cursor \in Nat
      BY <1>5 DEF FinishNumbering, PPAInv, PhaseOK, IDsOK, TraversalInv, StackTypeOK, traversalVars, analysisVars
    <3>2. cursor = Len(PostOrder) + 1
      BY <3>1, OrderFacts
    <3>3. phase = "numbering"
      BY <1>5 DEF FinishNumbering
    <3> QED BY <3>1, <3>2 DEF PhaseOK, Analyzed
  <2> QED BY <1>2, <1>5, <2>1 DEF FinishNumbering
<1>6. CASE UNCHANGED ppaVars
  <2>1. UNCHANGED <<F, VisitStack, Visited, PostOrder, phase, cursor, MaskIDCounter, BlockToMaskID>>
    BY <1>6 DEF ppaVars, traversalVars, analysisVars
  <2>2. PhaseOK'
    <3>1. OrderIsImplicit(F)' = OrderIsImplicit(F)
      BY <2>1 DEF OrderIsImplicit
    <3> QED BY <2>1, <3>1 DEF PPAInv, PhaseOK, Analyzed
  <2>3. phase' \in {"traversing", "numbering", "analyzed"}
    BY <2>1 DEF PPAInv, IDsOK
  <2> QED BY <1>2, <1>6, <2>2, <2>3 DEF ppaVars
<1> QED BY <1>1, <1>3, <1>4, <1>5, <1>6 DEF PPANext

LEMMA PPAInvariance == PPASpec => []PPAInv
<1> QED BY InitPPAInv, StepPPAInv, PTL DEF PPASpec

-----------------------------------------------------------------------------

(* The variables of the analysis of any function have their types, and no  *)
(* id is above the counter.                                                *)
THEOREM AnalysisTypeCorrect == PPASpec => []PPATypeOK
<1>1. PPAInv => PPATypeOK
  BY DEF PPAInv, TraversalInv, StackTypeOK, IDsOK, PPATypeOK
<1> QED BY <1>1, PPAInvariance, PTL

(* The execution order of any acyclic function takes each block before its *)
(* successors.                                                             *)
THEOREM OrderIsTopological == PPASpec => []EdgesLeadForward
<1>1. PPAInv => EdgesLeadForward
  <2> SUFFICES ASSUME PPAInv, Analyzed, Acyclic(F) PROVE EdgesLeadForward
    BY DEF EdgesLeadForward
  <2>1. TraversalInv /\ DOMAIN RPOT = 1 .. Len(PostOrder)
    BY OrderFacts DEF PPAInv, TraversalInv, StackTypeOK
  <2> QED BY <2>1, ForwardEdges DEF EdgesLeadForward
<1> QED BY <1>1, PPAInvariance, PTL

(* After the loop the targets of all blocks of the order are numbered. *)
LEMMA InvNumbersTargets == PPAInv => TargetsAreNumbered
<1> SUFFICES ASSUME PPAInv, Analyzed, SuccSize(F, Entry(F)) > 1 PROVE TargetsAreNumbered
  BY DEF TargetsAreNumbered
<1>1. DOMAIN RPOT = 1 .. Len(PostOrder) /\ cursor = Len(PostOrder) + 1 /\ Len(PostOrder) \in Nat
  BY OrderFacts DEF PPAInv, TraversalInv, StackTypeOK, PhaseOK
<1>2. \A i \in 1 .. cursor - 1 : Successors(F, RPOT[i]) \subseteq DOMAIN BlockToMaskID
  BY DEF PPAInv, TargetsOK
<1> QED BY <1>1, <1>2 DEF TargetsAreNumbered

(* Behind a real branch in the entry block of any function, every target   *)
(* of a jump has an id when setPathIDCondition asks for it.                *)
THEOREM EveryTargetHasAnID == PPASpec => []TargetsAreNumbered
<1> QED BY InvNumbersTargets, PPAInvariance, PTL

(* A join has a greater id than all before it, the only way to an inner    *)
(* target hands out an id of its own, and a block behind the last edge     *)
(* comes right behind its source.                                          *)
LEMMA InvSeparatesBlocks == PPAInv => MasksSeparateBlocks
<1> SUFFICES ASSUME PPAInv, Analyzed, Acyclic(F),
                    NEW i \in DOMAIN RPOT, NEW j \in DOMAIN RPOT, NEW k \in DOMAIN RPOT,
                    i < j, j < k, RPOT[k] \in Successors(F, RPOT[i]),
                    RPOT[j] \in DOMAIN BlockToMaskID, RPOT[k] \in DOMAIN BlockToMaskID
             PROVE  BlockToMaskID[RPOT[j]] # BlockToMaskID[RPOT[k]]
  BY DEF MasksSeparateBlocks
<1> PICK p \in Nat : p = Len(PostOrder)
  BY DEF PPAInv, TraversalInv, StackTypeOK
<1>1. /\ TraversalInv /\ IDsOK /\ WellFormed(F) /\ PostOrder \in Seq(Blocks(F))
      /\ VisitStack = <<>> /\ cursor = p + 1
  BY DEF PPAInv, PhaseOK, TraversalInv, StackTypeOK
<1>2. /\ i \in 1 .. p /\ j \in 1 .. p /\ k \in 1 .. p
      /\ \A l \in 1 .. p : /\ RPOT[l] = PostOrder[(p - l) + 1]
                           /\ (p - l) + 1 \in DOMAIN PostOrder
                           /\ RPOT[l] \in Blocks(F)
  BY <1>1, OrderFacts
<1>3. i \in 1 .. cursor - 1 /\ j \in 1 .. cursor - 1 /\ k \in 1 .. cursor - 1 /\ j \in 1 .. k - 1
  BY <1>1, <1>2
<1>4. BlockToMaskID[RPOT[j]] \in Nat /\ BlockToMaskID[RPOT[k]] \in Nat
  BY <1>1 DEF IDsOK
<1>5. CASE PathsConverge(RPOT[k])
  <2>1. BlockToMaskID[RPOT[j]] < BlockToMaskID[RPOT[k]]
    BY <1>3, <1>5 DEF PPAInv, JoinsOK
  <2> QED BY <1>4, <2>1
<1>6. CASE ~PathsConverge(RPOT[k])
  <2> PICK a \in Blocks(F), v \in Blocks(F) : a = RPOT[i] /\ v = RPOT[k]
    BY <1>2
  <2>1. PICK m \in DOMAIN F.succ[a] : F.succ[a][m] = v
    BY DEF Successors
  <2>2. PredSize(F, v) \in Nat /\ PredSize(F, v) <= 1
    BY <1>1, <1>6, EdgeFacts DEF PathsConverge
  <2>3. IncomingEdges(F, v) = {<<a, m>>}
    BY <1>1, <2>1, <2>2, EdgeFacts
  <2>4. m \in Nat /\ m <= SuccSize(F, a) /\ SuccSize(F, a) \in Nat
    BY <1>1, WellFormedFacts
  <2>5. CASE m < SuccSize(F, a)
    <3>1. IsInnerEdge(RPOT[i], m, v)
      BY <2>3, <2>5 DEF IsInnerEdge
    <3>2. \A b \in DOMAIN BlockToMaskID \ {v} : BlockToMaskID[b] # BlockToMaskID[v]
      BY <1>3, <3>1 DEF PPAInv, BranchesOK
    <3>3. RPOT[j] # v
      BY <1>1, <1>2, OrderInjective
    <3> QED BY <3>2, <3>3
  <2>6. CASE m = SuccSize(F, a)
    <3>1. IsLastEdge(a, v)
      BY <2>3, <2>6 DEF IsLastEdge
    <3> DEFINE q == (p - k) + 1
    <3>2. q \in DOMAIN PostOrder /\ PostOrder[q] = v /\ q \in Nat
      BY <1>2
    <3>3. q < p /\ PostOrder[q + 1] = a
      <4> HIDE DEF q
      <4>1. NeighboursOK
        BY <1>1 DEF TraversalInv
      <4>2. \/ q < Len(PostOrder) /\ PostOrder[q + 1] = a
            \/ VisitStack # <<>>
        BY <3>1, <3>2, <4>1 DEF NeighboursOK
      <4> QED BY <1>1, <4>2
    <3>4. k - 1 \in 1 .. p /\ (p - (k - 1)) + 1 = q + 1
      <4>1. i \in 1 .. p /\ j \in 1 .. p /\ k \in 1 .. p
        BY <1>2
      <4> QED BY <4>1
    <3>5. RPOT[k - 1] = RPOT[i]
      BY <1>2, <3>3, <3>4
    <3>6. k - 1 = i
      BY <1>1, <1>2, <3>4, <3>5, OrderInjective
    <3> QED BY <1>2, <3>6
  <2> QED BY <2>4, <2>5, <2>6
<1> QED BY <1>5, <1>6

(* In any acyclic function, between the two ends of an edge there is no    *)
(* block with the id of the edge's target.                                 *)
THEOREM MasksSeparate == PPASpec => []MasksSeparateBlocks
<1> QED BY InvSeparatesBlocks, PPAInvariance, PTL

(* In any acyclic function a block the loop has passed keeps its id.       *)
THEOREM PassedIDsAreFinal == PPASpec => PassedBlocksKeepTheirID
<1> DEFINE Kept == phase = "numbering" /\ Acyclic(F) =>
                     \A i \in 1 .. cursor - 1 :
                       RPOT[i] \in DOMAIN BlockToMaskID =>
                         BlockToMaskID'[RPOT[i]] = BlockToMaskID[RPOT[i]]
<1>1. ASSUME PPAInv, [PPANext]_ppaVars PROVE [Kept]_ppaVars
  <2>1. CASE NumberBlock
    <3> SUFFICES ASSUME Acyclic(F), NEW i \in 1 .. cursor - 1, RPOT[i] \in DOMAIN BlockToMaskID
                 PROVE  BlockToMaskID'[RPOT[i]] = BlockToMaskID[RPOT[i]]
      OBVIOUS
    <3>1. cursor \in Nat
      BY <1>1 DEF PPAInv, IDsOK
    <3>2. i \in 1 .. cursor /\ i # cursor
      BY <3>1
    <3> QED BY <1>1, <2>1, <3>2, PassedKeepIDs
  <2>2. CASE TraverseForAnalysis \/ StartNumbering
    BY <2>2 DEF TraverseForAnalysis, StartNumbering
  <2>3. CASE FinishNumbering
    BY <2>3 DEF FinishNumbering, analysisVars
  <2>4. CASE UNCHANGED ppaVars
    BY <2>4
  <2> QED BY <1>1, <2>1, <2>2, <2>3, <2>4 DEF PPANext
<1> QED BY <1>1, PPAInvariance, PTL DEF PPASpec, PassedBlocksKeepTheirID

-----------------------------------------------------------------------------

(* In the given order no block between the two ends of an edge has the id  *)
(* of the edge's target.                                                   *)
SeparatedIn(order) ==
  \A i, j, k \in DOMAIN order :
    i < j /\ j < k /\ order[k] \in Successors(F, order[i]) =>
      BlockToMaskID[order[j]] # BlockToMaskID[order[k]]

(* What the analysis leaves behind: every target has an id, and the blocks *)
(* are separated in the only order a traversal can come to.                *)
NumberedOK ==
  /\ \A b \in Blocks(F) : Successors(F, b) \subseteq DOMAIN BlockToMaskID
  /\ \A s \in Searched(F) : s.stack = <<>> => SeparatedIn(Reverse(s.finished))

ExitsOK ==
  /\ UnreachableBlock = NullBlock
  /\ ReturnBlock \in Blocks(F)
  /\ BlocksEndingWith(F, "ret") = {ReturnBlock}

(* A branch has stored the ids of its targets. *)
HasStored(b) ==
  /\ b \in DOMAIN PathIDs
  /\ \A k \in DOMAIN F.succ[b] : PathIDs[b][k] = BlockToMaskID[F.succ[b][k]]

StoredUpTo(n) == \A c \in 1 .. n : c \in DOMAIN F.layout /\ StoresPathID(F.layout[c]) => HasStored(F.layout[c])

AllStored == \A b \in Blocks(F) : StoresPathID(b) => HasStored(b)

SearchOK == TraversalInv /\ Search \in Searched(F) /\ Entry(F) \in Visited

(* The block at a place of the order: the entry, or an action block. *)
BlockAt(i) == IF i = 0 THEN Entry(F) ELSE ActionBlocks[i]

(* From the source of an edge on, the first action block that has the id   *)
(* of the target is the target.                                            *)
TargetIsNext(i, s) ==
  \E p \in i + 1 .. LastAction :
    /\ ActionBlocks[p] = s
    /\ \A q \in i + 1 .. p - 1 : BlockToMaskID[ActionBlocks[q]] # BlockToMaskID[s]

ActionsOK ==
  /\ ActionBlocks \in Seq(Blocks(F) \ {Entry(F)}) /\ ActionBlocks # <<>>
  /\ ActionBlocks[LastAction] = ReturnBlock
  /\ \A i, j \in 1 .. LastAction : ActionBlocks[i] = ActionBlocks[j] => i = j
  /\ \A i \in 1 .. LastAction : IsNumbered(ActionBlocks[i])
  /\ \A i \in 0 .. LastAction : \A s \in Successors(F, BlockAt(i)) : TargetIsNext(i, s)

PredicatesUpTo(n) ==
  /\ PredicateIDs \in Seq(Nat) /\ Len(PredicateIDs) = n
  /\ \A i \in 1 .. n : PredicateIDs[i] = BlockToMaskID[ActionBlocks[i]]

Analysing == phase \in {"traversing", "numbering", "analyzed"}

AnalysisPart == F = source /\ PPAInv /\ SearchOK /\ PredicateIDs = <<>>

(* What holds of a supported function behind the analysis. *)
CorePart ==
  /\ F = source /\ WellFormed(F) /\ NumberedOK /\ ExitsOK
  /\ \A b \in DOMAIN BlockToMaskID : BlockToMaskID[b] \in Nat

StorePart ==
  /\ phase = "storing" => cursor \in Nat \ {0} /\ StoredUpTo(cursor - 1)
  /\ phase \notin {"storing", "aborted"} => AllStored

OrderPart ==
  /\ phase = "ordering" => SearchOK
  /\ phase \notin {"storing", "ordering"} => ActionsOK

PredicatePart ==
  /\ phase \in {"storing", "ordering", "wiring"} => PredicateIDs = <<>>
  /\ phase = "predicating" => cursor \in 1 .. LastAction /\ PredicatesUpTo(cursor - 1)
  /\ phase \in {"phis", "done"} => PredicatesUpTo(LastAction - 1)
  /\ phase = "phis" => cursor \in Nat \ {0}
  /\ phase = "aborted" => \E i \in DOMAIN ActionBlocks : PhiCannotMove(i)

PassPart == CorePart /\ StorePart /\ OrderPart /\ PredicatePart

PassInv ==
  /\ phase \in {"traversing", "numbering", "analyzed", "storing", "ordering", "wiring",
                "predicating", "phis", "done", "aborted"}
  /\ source \in InputFunctions
  /\ Analysing => AnalysisPart
  /\ ~Analysing /\ Supported(source) => PassPart

-----------------------------------------------------------------------------

(* What is supported. *)
LEMMA SupportedFacts ==
  ASSUME NEW f, WellFormed(f), Supported(f)
  PROVE  /\ Acyclic(f) /\ ~OrderIsImplicit(f)
         /\ SuccSize(f, Entry(f)) > 1
         /\ BlocksEndingWith(f, "unreachable") = {}
         /\ \E b \in Blocks(f) : BlocksEndingWith(f, "ret") = {b}
         /\ \A b \in Blocks(f) \ {Entry(f)} : IncomingEdges(f, b) # {}
         /\ \A b \in Blocks(f) : f.term[b] \in {"br", "ret"}
<1>1. /\ Acyclic(f) /\ SuccSize(f, Entry(f)) > 1 /\ Cardinality(Blocks(f)) > 2
      /\ \A b \in Blocks(f) : f.term[b] \in {"br", "ret"}
      /\ \A b \in Blocks(f) \ {Entry(f)} : PredSize(f, b) > 0
      /\ Cardinality(BlocksEndingWith(f, "ret")) = 1
  BY DEF Supported
<1>2. IsFiniteSet(Blocks(f)) /\ Cardinality(Blocks(f)) \in Nat
  BY FS_CardinalityType DEF WellFormed
<1>3. ~OrderIsImplicit(f)
  BY <1>1, <1>2 DEF OrderIsImplicit
<1>4. BlocksEndingWith(f, "unreachable") = {}
  BY <1>1 DEF BlocksEndingWith
<1>5. \E b : BlocksEndingWith(f, "ret") = {b}
  <2>1. IsFiniteSet(BlocksEndingWith(f, "ret"))
    <3>1. BlocksEndingWith(f, "ret") \in SUBSET Blocks(f)
      BY DEF BlocksEndingWith
    <3> QED BY <1>2, <3>1, FS_Subset
  <2> QED BY <1>1, <2>1, FS_Singleton
<1>6. \E b \in Blocks(f) : BlocksEndingWith(f, "ret") = {b}
  BY <1>5 DEF BlocksEndingWith
<1>7. ASSUME NEW b \in Blocks(f) \ {Entry(f)} PROVE IncomingEdges(f, b) # {}
  <2>1. PredSize(f, b) > 0
    BY <1>1
  <2> QED BY <2>1, FS_EmptySet DEF PredSize
<1> QED BY <1>1, <1>3, <1>4, <1>6, <1>7

(* The exits of a supported function are unified already. *)
LEMMA NothingToUnify ==
  ASSUME NEW f, WellFormed(f), Supported(f)
  PROVE  /\ UnifyReturns(UnifyUnreachable(f)) = f
         /\ TheBlockEndingWith(f, "unreachable") = NullBlock
         /\ BlocksEndingWith(f, "ret") = {TheBlockEndingWith(f, "ret")}
         /\ TheBlockEndingWith(f, "ret") \in Blocks(f)
<1>1. UnifyUnreachable(f) = f
  BY SupportedFacts, FS_EmptySet DEF UnifyUnreachable
<1>2. UnifyReturns(f) = f
  BY DEF UnifyReturns, Supported
<1>3. PICK b \in Blocks(f) : BlocksEndingWith(f, "ret") = {b}
  BY SupportedFacts
<1>4. TheBlockEndingWith(f, "ret") = b
  BY <1>3 DEF TheBlockEndingWith
<1>5. TheBlockEndingWith(f, "unreachable") = NullBlock
  BY SupportedFacts DEF TheBlockEndingWith
<1> QED BY <1>1, <1>2, <1>3, <1>4, <1>5
-----------------------------------------------------------------------------

(* The order holds p blocks, from the entry on all blocks once, and each   *)
(* before its successors.                                                  *)
IsCompleteOrder(p) ==
  /\ p \in Nat /\ p > 1 /\ RPOT \in Seq(Blocks(F)) /\ Len(RPOT) = p
  /\ RPOT[1] = Entry(F)
  /\ \A i, j \in 1 .. p : RPOT[i] = RPOT[j] => i = j
  /\ \A b \in Blocks(F) : \E i \in 1 .. p : RPOT[i] = b
  /\ \A i \in 1 .. p : \A s \in Successors(F, RPOT[i]) : \E j \in 1 .. p : i < j /\ RPOT[j] = s

LEMMA OrderOfSupported ==
  ASSUME SearchOK, VisitStack = <<>>, Supported(F)
  PROVE  IsCompleteOrder(Len(PostOrder))
<1> PICK p : p = Len(PostOrder)
  OBVIOUS
<1>1. /\ TraversalInv /\ WellFormed(F) /\ PostOrder \in Seq(Blocks(F)) /\ Entry(F) \in Visited
      /\ p \in Nat /\ DOMAIN PostOrder = 1 .. p
  BY DEF SearchOK, TraversalInv, StackTypeOK
<1>2. /\ Acyclic(F) /\ SuccSize(F, Entry(F)) > 1
      /\ \A b \in Blocks(F) \ {Entry(F)} : IncomingEdges(F, b) # {}
  BY <1>1, SupportedFacts
<1>3. /\ Len(RPOT) = p /\ DOMAIN RPOT = 1 .. p
      /\ \A i \in 1 .. p : RPOT[i] = PostOrder[(p - i) + 1] /\ RPOT[i] \in Blocks(F)
  BY <1>1, OrderFacts
<1>4. RPOT \in Seq(Blocks(F))
  <2>1. RPOT = [i \in 1 .. p |-> PostOrder[(p - i) + 1]]
    BY <1>1 DEF RPOT, Reverse
  <2>2. \A i \in 1 .. p : PostOrder[(p - i) + 1] \in Blocks(F)
    BY <1>3
  <2> QED BY <1>1, <2>1, <2>2
<1>5. \A i, j \in 1 .. p : RPOT[i] = RPOT[j] => i = j
  BY <1>1, OrderInjective
<1>6. ASSUME NEW b \in Blocks(F) PROVE \E i \in 1 .. p : RPOT[i] = b
  <2>1. PICK k \in 1 .. p : PostOrder[k] = b
    BY <1>1, <1>2, AllFinished
  <2>2. (p - k) + 1 \in 1 .. p /\ (p - ((p - k) + 1)) + 1 = k
    BY <1>1
  <2> QED BY <1>3, <2>1, <2>2
<1>7. \A i \in 1 .. p : \A s \in Successors(F, RPOT[i]) : \E j \in 1 .. p : i < j /\ RPOT[j] = s
  BY <1>1, <1>2, ForwardEdges
<1>8. Entry(F) \in Blocks(F) /\ DOMAIN F.succ[Entry(F)] = 1 .. SuccSize(F, Entry(F))
      /\ SuccSize(F, Entry(F)) \in Nat
  BY <1>1, WellFormedFacts
<1>9. PICK e \in 1 .. p : RPOT[e] = Entry(F)
  BY <1>6, <1>8
<1>10. p > 1
  <2>1. F.succ[Entry(F)][1] \in Successors(F, RPOT[e])
    BY <1>2, <1>8, <1>9 DEF Successors
  <2>2. PICK j \in 1 .. p : e < j
    BY <1>7, <2>1
  <2> QED BY <1>1, <2>2
<1>11. RPOT[1] = Entry(F)
  <2> SUFFICES ASSUME RPOT[1] # Entry(F) PROVE FALSE
    OBVIOUS
  <2>1. 1 \in 1 .. p /\ RPOT[1] \in Blocks(F) \ {Entry(F)}
    BY <1>1, <1>3, <1>10
  <2>2. PICK a \in Blocks(F) : RPOT[1] \in Successors(F, a)
    <3>1. PICK x : x \in IncomingEdges(F, RPOT[1])
      BY <1>2, <2>1
    <3> QED BY <3>1 DEF IncomingEdges, Successors
  <2>3. PICK i \in 1 .. p : RPOT[i] = a
    BY <1>6
  <2>4. PICK j \in 1 .. p : i < j /\ RPOT[j] = RPOT[1]
    BY <1>7, <2>2, <2>3
  <2>5. j = 1
    BY <1>5, <2>1, <2>4
  <2> QED BY <2>3, <2>4, <2>5
<1> QED BY <1>1, <1>3, <1>4, <1>5, <1>6, <1>7, <1>10, <1>11 DEF IsCompleteOrder

(* Two traversals of a function that have ended have found the same order. *)
LEMMA OrderIsUnique ==
  ASSUME SearchOK, VisitStack = <<>>, NEW s \in Searched(F), s.stack = <<>>
  PROVE  s.finished = PostOrder
<1>1. WellFormed(F) /\ Search \in Searched(F) /\ Search.stack = <<>>
  BY DEF SearchOK, TraversalInv, StackTypeOK, Search
<1>2. SearchStart(F) \in SearchStates(F)
  <2>1. Entry(F) \in Blocks(F)
    BY <1>1, WellFormedFacts
  <2>2. VisitEntry(F) \in [block : Blocks(F), next : Nat \ {0}]
    BY <2>1 DEF VisitEntry
  <2> QED BY <2>1, <2>2 DEF SearchStart, SearchStates
<1>3. s = Search
  BY <1>1, <1>2, SearchEndIsUnique
<1> QED BY <1>3 DEF Search

(* When the analysis of a supported function is complete, every target has *)
(* an id and the ids separate the blocks.                                  *)
LEMMA AnalysisNumbers ==
  ASSUME PPAInv, SearchOK, phase = "analyzed", Supported(F)
  PROVE  NumberedOK
<1>1. WellFormed(F)
  BY DEF SearchOK, TraversalInv, StackTypeOK
<1>2. /\ Acyclic(F) /\ ~OrderIsImplicit(F) /\ SuccSize(F, Entry(F)) > 1
      /\ \A b \in Blocks(F) \ {Entry(F)} : IncomingEdges(F, b) # {}
  BY <1>1, SupportedFacts
<1>3. Analyzed /\ VisitStack = <<>>
  BY <1>2 DEF Analyzed, PPAInv, PhaseOK
<1> PICK p : p = Len(PostOrder)
  OBVIOUS
<1>4. /\ p \in Nat /\ p > 1 /\ RPOT \in Seq(Blocks(F)) /\ Len(RPOT) = p
      /\ RPOT[1] = Entry(F)
      /\ \A i, j \in 1 .. p : RPOT[i] = RPOT[j] => i = j
      /\ \A b \in Blocks(F) : \E i \in 1 .. p : RPOT[i] = b
  BY <1>3, OrderOfSupported DEF IsCompleteOrder
<1>5. DOMAIN RPOT = 1 .. p /\ \A i \in 1 .. p : RPOT[i] \in Blocks(F)
  BY <1>4
<1>6. \A b \in Blocks(F) : Successors(F, b) \subseteq DOMAIN BlockToMaskID
  BY <1>2, <1>3, <1>4, <1>5, InvNumbersTargets DEF TargetsAreNumbered
<1>7. \A b \in Blocks(F) \ {Entry(F)} : b \in DOMAIN BlockToMaskID
  <2> SUFFICES ASSUME NEW b \in Blocks(F) \ {Entry(F)} PROVE b \in DOMAIN BlockToMaskID
    OBVIOUS
  <2>1. PICK a \in Blocks(F) : b \in Successors(F, a)
    <3>1. PICK x : x \in IncomingEdges(F, b)
      BY <1>2
    <3> QED BY <3>1 DEF IncomingEdges, Successors
  <2> QED BY <1>6, <2>1
<1>8. SeparatedIn(RPOT)
  <2> SUFFICES ASSUME NEW i \in 1 .. p, NEW j \in 1 .. p, NEW k \in 1 .. p,
                      i < j, j < k, RPOT[k] \in Successors(F, RPOT[i])
               PROVE  BlockToMaskID[RPOT[j]] # BlockToMaskID[RPOT[k]]
    BY <1>5 DEF SeparatedIn
  <2>1. j # 1 /\ k # 1 /\ 1 \in 1 .. p
    BY <1>4
  <2>2. {RPOT[j], RPOT[k]} \subseteq DOMAIN BlockToMaskID
    BY <1>4, <1>5, <1>7, <2>1
  <2> QED BY <1>2, <1>3, <1>5, <2>2, InvSeparatesBlocks DEF MasksSeparateBlocks
<1>9. ASSUME NEW s \in Searched(F), s.stack = <<>> PROVE SeparatedIn(Reverse(s.finished))
  BY <1>3, <1>8, <1>9, OrderIsUnique DEF RPOT
<1> QED BY <1>6, <1>9 DEF NumberedOK
-----------------------------------------------------------------------------

(* The action blocks of a supported function: all its blocks behind the    *)
(* entry, the return block last.                                           *)
LEMMA OrderMakesActions ==
  ASSUME SearchOK, VisitStack = <<>>, Supported(F), NumberedOK, ExitsOK,
         ActionBlocks' = Tail(RPOT), UNCHANGED <<F, BlockToMaskID, ReturnBlock>>
  PROVE  ActionsOK'
<1>1. WellFormed(F)
  BY DEF SearchOK, TraversalInv, StackTypeOK
<1>2. /\ \A b \in Blocks(F) \ {Entry(F)} : IncomingEdges(F, b) # {}
      /\ \A b \in Blocks(F) : F.term[b] \in {"br", "ret"}
  BY <1>1, SupportedFacts
<1> PICK p : p = Len(PostOrder)
  OBVIOUS
<1>3. /\ p \in Nat /\ p > 1 /\ RPOT \in Seq(Blocks(F)) /\ Len(RPOT) = p
      /\ RPOT[1] = Entry(F)
      /\ \A i, j \in 1 .. p : RPOT[i] = RPOT[j] => i = j
      /\ \A b \in Blocks(F) : \E i \in 1 .. p : RPOT[i] = b
      /\ \A i \in 1 .. p : \A s \in Successors(F, RPOT[i]) : \E j \in 1 .. p : i < j /\ RPOT[j] = s
  <2>1. IsCompleteOrder(p)
    BY OrderOfSupported
  <2> QED BY <2>1 DEF IsCompleteOrder
<1> DEFINE A == ActionBlocks'
           n == p - 1
<1>4. /\ n \in Nat \ {0} /\ Len(A) = n /\ A # <<>> /\ A \in Seq(Blocks(F))
      /\ \A i \in 1 .. n : i + 1 \in 1 .. p /\ A[i] = RPOT[i + 1] /\ A[i] \in Blocks(F)
  <2>1. RPOT \in Seq(Blocks(F)) /\ Len(RPOT) = p /\ p \in Nat /\ p > 1
    BY <1>3
  <2>2. n \in Nat \ {0} /\ Len(A) = n /\ A \in Seq(Blocks(F))
    BY <2>1
  <2>3. \A i \in 1 .. n : i + 1 \in 1 .. p /\ A[i] = RPOT[i + 1]
    BY <2>1
  <2>4. A # <<>> /\ \A i \in 1 .. n : A[i] \in Blocks(F)
    <3> HIDE DEF A, n
    <3> QED BY <2>2
  <2> QED BY <2>2, <2>3, <2>4
<1> HIDE DEF A
<1>5. \A i \in 1 .. n : A[i] # Entry(F)
  BY <1>3, <1>4
<1>6. A \in Seq(Blocks(F) \ {Entry(F)})
  BY <1>4, <1>5
<1>7. \A i, j \in 1 .. n : A[i] = A[j] => i = j
  BY <1>3, <1>4
<1>8. ASSUME NEW b \in Blocks(F) \ {Entry(F)} PROVE b \in DOMAIN BlockToMaskID
  <2>1. PICK a \in Blocks(F) : b \in Successors(F, a)
    <3>1. PICK x : x \in IncomingEdges(F, b)
      BY <1>2
    <3> QED BY <3>1 DEF IncomingEdges, Successors
  <2> QED BY <2>1 DEF NumberedOK
<1>9. \A i \in 1 .. n : A[i] \in DOMAIN BlockToMaskID
  BY <1>4, <1>5, <1>8
<1>10. A[n] = ReturnBlock
  <2>1. A[n] = RPOT[p] /\ A[n] \in Blocks(F) /\ p \in 1 .. p
    BY <1>3, <1>4
  <2>2. Successors(F, A[n]) = {}
    <3>1. \A j \in 1 .. p : ~(p < j)
      BY <1>3
    <3>2. \A s \in Successors(F, RPOT[p]) : \E j \in 1 .. p : p < j
      BY <1>3, <2>1
    <3> QED BY <2>1, <3>1, <3>2
  <2>3. F.term[A[n]] # "br"
    <3> SUFFICES ASSUME F.term[A[n]] = "br" PROVE FALSE
      OBVIOUS
    <3>1. SuccSize(F, A[n]) \in {1, 2}
      BY <1>1, <2>1 DEF WellFormed
    <3>2. 1 \in DOMAIN F.succ[A[n]]
      BY <1>1, <2>1, <3>1, WellFormedFacts
    <3> QED BY <2>2, <3>2 DEF Successors
  <2>4. A[n] \in BlocksEndingWith(F, "ret")
    BY <1>2, <2>1, <2>3 DEF BlocksEndingWith
  <2> QED BY <2>4 DEF ExitsOK
<1> DEFINE at_(i) == IF i = 0 THEN Entry(F) ELSE A[i]
<1>11. ASSUME NEW i \in 0 .. n, NEW s \in Successors(F, at_(i))
       PROVE  \E q \in i + 1 .. n :
                /\ A[q] = s
                /\ \A r \in i + 1 .. q - 1 : BlockToMaskID[A[r]] # BlockToMaskID[s]
  <2>1. i + 1 \in 1 .. p /\ at_(i) = RPOT[i + 1]
    BY <1>3, <1>4
  <2>2. PICK j \in 1 .. p : i + 1 < j /\ RPOT[j] = s
    BY <1>3, <1>11, <2>1
  <2>3. j - 1 \in i + 1 .. n /\ A[j - 1] = s
    <3>1. p \in Nat /\ i \in Nat
      BY <1>3, <1>4
    <3>2. j - 1 \in i + 1 .. n /\ j - 1 \in 1 .. n /\ (j - 1) + 1 = j
      BY <2>2, <3>1
    <3> HIDE DEF n
    <3> QED BY <1>4, <2>2, <3>2
  <2>4. ASSUME NEW r \in i + 1 .. (j - 1) - 1 PROVE BlockToMaskID[A[r]] # BlockToMaskID[s]
    <3>1. r + 1 \in 1 .. p /\ i + 1 < r + 1 /\ r + 1 < j /\ A[r] = RPOT[r + 1]
      <4>1. p \in Nat /\ i \in Nat
        BY <1>3, <1>4
      <4>2. r \in 1 .. n /\ i + 1 < r + 1 /\ r + 1 < j
        BY <2>2, <4>1
      <4> HIDE DEF n
      <4> QED BY <1>4, <4>2
    <3>2. SeparatedIn(RPOT)
      <4>1. Search \in Searched(F) /\ Search.stack = <<>> /\ Search.finished = PostOrder
        BY DEF SearchOK, Search
      <4> QED BY <4>1 DEF NumberedOK, RPOT
    <3>3. DOMAIN RPOT = 1 .. p /\ RPOT[j] \in Successors(F, RPOT[i + 1])
      BY <1>3, <1>11, <2>1, <2>2
    <3> HIDE DEF n, at_
    <3> QED BY <2>1, <2>2, <3>1, <3>2, <3>3 DEF SeparatedIn
  <2> QED BY <2>3, <2>4
<1>12. LastAction' = n /\ \A i : BlockAt(i)' = at_(i)
  BY <1>4 DEF LastAction, BlockAt, A
<1>13. ASSUME NEW i \in 0 .. n, NEW s \in Successors(F, at_(i)) PROVE TargetIsNext(i, s)'
  <2>1. PICK q \in i + 1 .. n :
          /\ A[q] = s
          /\ \A r \in i + 1 .. q - 1 : BlockToMaskID[A[r]] # BlockToMaskID[s]
    BY <1>11, <1>13
  <2>2. LastAction' = n /\ BlockToMaskID' = BlockToMaskID /\ A = ActionBlocks'
    BY <1>12 DEF A
  <2> HIDE DEF n, at_
  <2> QED BY <2>1, <2>2 DEF TargetIsNext
<1>14. \A i \in 0 .. LastAction' : \A s \in Successors(F, BlockAt(i))' : TargetIsNext(i, s)'
  <2>1. \A i : Successors(F, BlockAt(i))' = Successors(F, at_(i))
    BY <1>12 DEF Successors
  <2> HIDE DEF n, at_
  <2> QED BY <1>12, <1>13, <2>1
<1>15. \A i \in 1 .. LastAction' : IsNumbered(ActionBlocks[i])'
  BY <1>9, <1>12 DEF IsNumbered, A
<1>16. /\ A \in Seq(Blocks(F)' \ {Entry(F)'}) /\ A[LastAction'] = ReturnBlock'
       /\ \A i, j \in 1 .. LastAction' : A[i] = A[j] => i = j
  <2>1. Blocks(F)' = Blocks(F) /\ Entry(F)' = Entry(F)
    OBVIOUS
  <2> HIDE DEF n
  <2> QED BY <1>6, <1>7, <1>10, <1>12, <2>1
<1> QED BY <1>4, <1>14, <1>15, <1>16 DEF ActionsOK, A
-----------------------------------------------------------------------------

LEMMA InitPassInv == PFInit => PassInv
<1> SUFFICES ASSUME PFInit PROVE PassInv
  OBVIOUS
<1>1. PPAInit /\ source = F /\ PredicateIDs = <<>>
  BY DEF PFInit, BPInit
<1>2. PPAInv
  BY <1>1, InitPPAInv
<1>3. Search = SearchStart(F) /\ Entry(F) \in Visited
  BY <1>1 DEF PPAInit, Search, SearchStart
<1>4. SearchOK
  BY <1>2, <1>3, SearchBegins DEF SearchOK, PPAInv, TraversalInv
<1>5. Analysing /\ source \in InputFunctions
  BY <1>1 DEF PPAInit, Analysing
<1> QED BY <1>1, <1>2, <1>4, <1>5 DEF PassInv, AnalysisPart, Analysing

(* A step of a traversal, and a step that leaves it alone. *)
LEMMA SearchStays ==
  ASSUME SearchOK, UNCHANGED F, Traverse \/ UNCHANGED traversalVars
  PROVE  SearchOK'
<1>1. CASE Traverse
  <2>1. TraversalInv'
    BY <1>1, TraverseKeepsInv DEF SearchOK
  <2>2. Search' \in Searched(F)'
    BY <1>1, <2>1, SearchGoesOn DEF SearchOK, TraversalInv
  <2>3. Visited \subseteq Visited'
    BY <1>1 DEF Traverse, SkipChild, EnterChild, FinishBlock
  <2> QED BY <2>1, <2>2, <2>3 DEF SearchOK, Entry
<1>2. CASE UNCHANGED traversalVars
  <2>1. TraversalInv'
    BY <1>2, TraversalStays DEF SearchOK, traversalVars
  <2>2. Search' = Search /\ Visited' = Visited
    BY <1>2 DEF Search, traversalVars
  <2> QED BY <2>1, <2>2 DEF SearchOK
<1> QED BY <1>1, <1>2

LEMMA AnalyzeKeepsInv ==
  ASSUME PassInv, Analyze
  PROVE  PassInv'
<1>1. PPANext /\ UNCHANGED <<source, passVars>>
  BY DEF Analyze
<1>2. Analysing
  BY <1>1 DEF PPANext, TraverseForAnalysis, StartNumbering, NumberBlock, FinishNumbering, Analysing
<1>3. AnalysisPart
  BY <1>2 DEF PassInv
<1>4. UNCHANGED F /\ (Traverse \/ UNCHANGED traversalVars)
  BY <1>1 DEF PPANext, TraverseForAnalysis, StartNumbering, NumberBlock, FinishNumbering
<1>5. PPAInv'
  BY <1>1, <1>3, StepPPAInv DEF AnalysisPart
<1>6. SearchOK'
  BY <1>3, <1>4, SearchStays DEF AnalysisPart
<1>7. Analysing'
  BY <1>5 DEF PPAInv, IDsOK, Analysing
<1> QED BY <1>1, <1>3, <1>4, <1>5, <1>6, <1>7 DEF PassInv, AnalysisPart, Analysing, passVars

-----------------------------------------------------------------------------

(* What the parts of the invariant are about. *)
LEMMA CoreStays ==
  ASSUME CorePart, UNCHANGED <<F, source, BlockToMaskID, ReturnBlock, UnreachableBlock>>
  PROVE  CorePart'
<1>1. NumberedOK'
  BY DEF CorePart, NumberedOK, SeparatedIn
<1>2. ExitsOK'
  BY DEF CorePart, ExitsOK
<1> QED BY <1>1, <1>2 DEF CorePart

LEMMA StoredStays ==
  ASSUME AllStored, UNCHANGED <<F, PathIDs, BlockToMaskID, ReturnBlock>>
  PROVE  AllStored'
BY DEF AllStored, StoresPathID, HasStored

LEMMA ActionsStay ==
  ASSUME ActionsOK, UNCHANGED <<F, ActionBlocks, BlockToMaskID, ReturnBlock>>
  PROVE  ActionsOK' /\ LastAction' = LastAction
<1>1. LastAction' = LastAction /\ \A i : BlockAt(i)' = BlockAt(i)
  BY DEF LastAction, BlockAt
<1>2. \A i, s : TargetIsNext(i, s)' = TargetIsNext(i, s)
  BY <1>1 DEF TargetIsNext
<1>3. \A b : IsNumbered(b)' = IsNumbered(b)
  BY DEF IsNumbered
<1> QED BY <1>1, <1>2, <1>3 DEF ActionsOK

-----------------------------------------------------------------------------

LEMMA UnifyKeepsInv ==
  ASSUME PassInv, unifyFunctionExitNodes
  PROVE  PassInv'
<1>1. /\ phase = "analyzed" /\ phase' = "storing" /\ cursor' = 1
      /\ F' = UnifyReturns(UnifyUnreachable(F))
      /\ ReturnBlock' = TheBlockEndingWith(F', "ret")
      /\ UnreachableBlock' = TheBlockEndingWith(F', "unreachable")
      /\ UNCHANGED <<BlockToMaskID, source, PredicateIDs>>
  BY DEF unifyFunctionExitNodes
<1>2. F = source /\ PPAInv /\ SearchOK /\ PredicateIDs = <<>>
  BY <1>1 DEF PassInv, Analysing, AnalysisPart
<1>3. ASSUME Supported(source) PROVE PassPart'
  <2>1. WellFormed(F) /\ Supported(F)
    BY <1>2, <1>3 DEF SearchOK, TraversalInv, StackTypeOK
  <2>2. F' = F /\ UnreachableBlock' = NullBlock /\ ReturnBlock' \in Blocks(F)
        /\ BlocksEndingWith(F, "ret") = {ReturnBlock'}
    BY <1>1, <2>1, NothingToUnify
  <2>3. NumberedOK'
    <3>1. NumberedOK
      BY <1>1, <1>2, <2>1, AnalysisNumbers
    <3> QED BY <1>1, <2>2, <3>1 DEF NumberedOK, SeparatedIn
  <2>4. ExitsOK'
    BY <2>2 DEF ExitsOK
  <2>5. \A b \in DOMAIN BlockToMaskID : BlockToMaskID[b] \in Nat
    BY <1>2 DEF PPAInv, IDsOK
  <2>6. CorePart'
    BY <1>1, <1>2, <2>1, <2>2, <2>3, <2>4, <2>5 DEF CorePart
  <2>7. StorePart'
    BY <1>1 DEF StorePart, StoredUpTo
  <2>8. OrderPart' /\ PredicatePart'
    BY <1>1, <1>2 DEF OrderPart, PredicatePart
  <2> QED BY <2>6, <2>7, <2>8 DEF PassPart
<1> QED BY <1>1, <1>3 DEF PassInv, Analysing

(* Every branch of a supported function leads to blocks with an id. *)
LEMMA TargetsHaveIDs ==
  ASSUME CorePart, Supported(F), NEW b \in Blocks(F), F.term[b] = "br"
  PROVE  /\ ~SanityCheckFails(b) /\ ~LookupCrashes(b)
         /\ \A ids \in StoredIDs(b) : \A k \in DOMAIN F.succ[b] : ids[k] = BlockToMaskID[F.succ[b][k]]
<1>1. WellFormed(F) /\ SuccSize(F, b) \in {1, 2} /\ DOMAIN F.succ[b] = 1 .. SuccSize(F, b)
  <2>1. WellFormed(F)
    BY DEF CorePart
  <2>2. SuccSize(F, b) \in {1, 2}
    BY <2>1 DEF WellFormed
  <2> QED BY <2>1, <2>2, WellFormedFacts
<1>2. \A k \in DOMAIN F.succ[b] : F.succ[b][k] \in Successors(F, b)
  BY DEF Successors
<1>3. \A s \in Successors(F, b) : IsNumbered(s)
  BY DEF CorePart, NumberedOK, IsNumbered
<1>4. ~SanityCheckFails(b)
  BY <1>3 DEF SanityCheckFails
<1>5. ~LookupCrashes(b)
  <2>1. F.succ[b][1] \in DOMAIN BlockToMaskID
    BY <1>1, <1>2, <1>3 DEF IsNumbered
  <2> QED BY <2>1 DEF LookupCrashes
<1>6. \A k \in DOMAIN F.succ[b] : FoundIDs(F.succ[b][k]) = {BlockToMaskID[F.succ[b][k]]}
  BY <1>2, <1>3 DEF FoundIDs
<1>7. ASSUME NEW ids \in StoredIDs(b), NEW k \in DOMAIN F.succ[b]
      PROVE  ids[k] = BlockToMaskID[F.succ[b][k]]
  <2>1. CASE SuccSize(F, b) = 1
    BY <1>1, <1>6, <1>7, <2>1 DEF StoredIDs
  <2>2. CASE SuccSize(F, b) = 2
    BY <1>1, <1>6, <1>7, <2>2 DEF StoredIDs
  <2> QED BY <1>1, <2>1, <2>2
<1> QED BY <1>4, <1>5, <1>7

LEMMA StorePathIDKeepsInv ==
  ASSUME PassInv, StorePathID
  PROVE  PassInv'
<1>1. /\ phase = "storing" /\ phase' \in {"storing", "aborted"}
      /\ UNCHANGED <<F, BlockToMaskID, source, ReturnBlock, UnreachableBlock, ActionBlocks, PredicateIDs>>
  BY DEF StorePathID, setPathIDCondition, Abort
<1>2. ASSUME Supported(source) PROVE PassPart'
  <2>1. CorePart /\ StorePart /\ PredicatePart /\ F = source
    BY <1>1, <1>2 DEF PassInv, Analysing, PassPart, CorePart
  <2>2. /\ cursor \in Nat \ {0} /\ StoredUpTo(cursor - 1) /\ PredicateIDs = <<>>
        /\ WellFormed(F) /\ cursor <= Len(F.layout)
    BY <1>1, <2>1 DEF StorePart, PredicatePart, CorePart, StorePathID
  <2>3. cursor \in DOMAIN F.layout /\ F.layout[cursor] \in Blocks(F)
    BY <2>2 DEF WellFormed
  <2> PICK b \in Blocks(F) : b = F.layout[cursor]
    BY <2>3
  <2>4. /\ phase' = "storing" /\ cursor' = cursor + 1
        /\ StoresPathID(b) => HasStored(b)'
        /\ \A a : HasStored(a) => HasStored(a)'
    <3>1. CASE StoresPathID(b)
      <4>1. ~SanityCheckFails(b) /\ ~LookupCrashes(b)
        BY <1>2, <2>1, <2>3, <3>1, TargetsHaveIDs DEF StoresPathID
      <4>2. PICK ids \in StoredIDs(b) :
              PathIDs' = [a \in DOMAIN PathIDs \cup {b} |-> IF a = b THEN ids ELSE PathIDs[a]]
        BY <3>1, <4>1 DEF StorePathID, setPathIDCondition
      <4>3. \A k \in DOMAIN F.succ[b] : ids[k] = BlockToMaskID[F.succ[b][k]]
        BY <1>2, <2>1, <2>3, <3>1, TargetsHaveIDs DEF StoresPathID
      <4>4. phase' = "storing" /\ cursor' = cursor + 1
        BY <1>1, <3>1, <4>1 DEF StorePathID, setPathIDCondition
      <4>0. F' = F /\ BlockToMaskID' = BlockToMaskID
        BY <1>1
      <4>5. HasStored(b)'
        <5>1. b \in DOMAIN PathIDs' /\ PathIDs'[b] = ids
          BY <4>2
        <5> QED BY <4>3, <4>0, <5>1 DEF HasStored
      <4>6. ASSUME NEW a, HasStored(a), a # b PROVE HasStored(a)'
        <5>1. a \in DOMAIN PathIDs' /\ PathIDs'[a] = PathIDs[a]
          BY <4>2, <4>6 DEF HasStored
        <5> QED BY <4>6, <4>0, <5>1 DEF HasStored
      <4>7. \A a : HasStored(a) => HasStored(a)'
        <5> SUFFICES ASSUME NEW a, HasStored(a) PROVE HasStored(a)'
          OBVIOUS
        <5>1. CASE a = b
          BY <4>5, <5>1
        <5>2. CASE a # b
          BY <4>6, <5>2
        <5> QED BY <5>1, <5>2
      <4> QED BY <4>4, <4>5, <4>7
    <3>2. CASE ~StoresPathID(b)
      BY <1>1, <3>2 DEF StorePathID, HasStored
    <3> QED BY <3>1, <3>2
  <2>5. StoredUpTo(cursor - 1)'
    <3>1. \A x : StoresPathID(x)' = StoresPathID(x)
      BY <1>1 DEF StoresPathID
    <3>2. \A c \in 1 .. cursor : c = cursor \/ c \in 1 .. cursor - 1
      BY <2>2
    <3>3. (cursor - 1)' = cursor /\ F' = F
      BY <1>1, <2>2, <2>4
    <3>4. ASSUME NEW c \in 1 .. cursor, c \in DOMAIN F.layout, StoresPathID(F.layout[c]),
                 NEW x, x = F.layout[c]
          PROVE  HasStored(x)'
      <4>1. CASE c = cursor
        <5>1. x = b /\ StoresPathID(x)
          BY <3>4, <4>1
        <5> QED BY <2>4, <5>1
      <4>2. CASE c \in 1 .. cursor - 1
        <5>1. HasStored(F.layout[c])
          BY <2>2, <3>4, <4>2 DEF StoredUpTo
        <5>2. HasStored(x)
          BY <3>4, <5>1
        <5> QED BY <2>4, <5>2
      <4> QED BY <3>2, <4>1, <4>2
    <3> QED BY <3>1, <3>3, <3>4 DEF StoredUpTo
  <2>6. CorePart'
    BY <1>1, <2>1, CoreStays
  <2>7. StorePart'
    BY <2>2, <2>4, <2>5 DEF StorePart
  <2>8. OrderPart' /\ PredicatePart'
    BY <1>1, <2>2, <2>4 DEF OrderPart, PredicatePart
  <2> QED BY <2>6, <2>7, <2>8 DEF PassPart
<1> QED BY <1>1, <1>2 DEF PassInv, Analysing

(* The second traversal begins like the first one. *)
LEMMA SearchStartsAgain ==
  ASSUME WellFormed(F), VisitStack = <<VisitEntry(F)>>, Visited = {Entry(F)}, PostOrder = <<>>
  PROVE  SearchOK
<1>1. TraversalInv
  BY TraversalStarts
<1>2. Search = SearchStart(F)
  BY DEF Search, SearchStart
<1>3. Search \in Searched(F)
  BY <1>1, <1>2, SearchBegins DEF TraversalInv
<1> QED BY <1>1, <1>3 DEF SearchOK

LEMMA SearchStartedAgain ==
  (WellFormed(F) /\ VisitStack = <<VisitEntry(F)>> /\ Visited = {Entry(F)} /\ PostOrder = <<>>
     => SearchOK)'
<1>1. WellFormed(F) /\ VisitStack = <<VisitEntry(F)>> /\ Visited = {Entry(F)} /\ PostOrder = <<>>
        => SearchOK
  BY SearchStartsAgain
<1> QED BY <1>1, PTL

(* At the end of the loop over the layout every branch has stored its ids. *)
LEMMA StartOrderingKeepsInv ==
  ASSUME PassInv, StartOrdering
  PROVE  PassInv'
<1>1. /\ phase = "storing" /\ phase' = "ordering" /\ cursor > Len(F.layout)
      /\ UNCHANGED <<F, cursor, BlockToMaskID, source, ReturnBlock, UnreachableBlock, PathIDs, PredicateIDs>>
      /\ VisitStack' = <<VisitEntry(F)>> /\ Visited' = {Entry(F)} /\ PostOrder' = <<>>
  BY DEF StartOrdering, StartTraversal, analysisVars, passVars
<1>2. ASSUME Supported(source) PROVE PassPart'
  <2>1. CorePart /\ StorePart /\ PredicatePart
    BY <1>1, <1>2 DEF PassInv, Analysing, PassPart
  <2>2. WellFormed(F) /\ cursor \in Nat /\ StoredUpTo(cursor - 1) /\ PredicateIDs = <<>>
    BY <1>1, <2>1 DEF StorePart, PredicatePart, CorePart
  <2>3. AllStored
    <3> SUFFICES ASSUME NEW b \in Blocks(F), StoresPathID(b) PROVE HasStored(b)
      BY DEF AllStored
    <3>1. PICK k \in DOMAIN F.layout : F.layout[k] = b
      BY <2>2 DEF WellFormed
    <3>2. k \in 1 .. cursor - 1
      <4>1. F.layout \in Seq(Blocks(F))
        BY <2>2 DEF WellFormed
      <4> QED BY <1>1, <2>2, <3>1, <4>1
    <3>3. StoresPathID(F.layout[k]) => HasStored(F.layout[k])
      BY <2>2, <3>2 DEF StoredUpTo
    <3> QED BY <3>1, <3>3
  <2>4. AllStored'
    BY <1>1, <2>3, StoredStays
  <2>5. SearchOK'
    <3>1. WellFormed(F)' /\ (VisitStack = <<VisitEntry(F)>>)' /\ (Visited = {Entry(F)})'
      BY <1>1, <2>2
    <3> QED BY <1>1, <3>1, SearchStartedAgain
  <2>6. CorePart'
    BY <1>1, <2>1, CoreStays
  <2> QED BY <1>1, <2>2, <2>4, <2>5, <2>6 DEF PassPart, StorePart, OrderPart, PredicatePart
<1> QED BY <1>1, <1>2 DEF PassInv, Analysing

LEMMA TraverseForOrderKeepsInv ==
  ASSUME PassInv, TraverseForOrder
  PROVE  PassInv'
<1>1. /\ phase = "ordering" /\ phase' = "ordering" /\ Traverse
      /\ UNCHANGED <<F, BlockToMaskID, source, ReturnBlock, UnreachableBlock, PathIDs, PredicateIDs>>
  BY DEF TraverseForOrder, analysisVars, passVars
<1>2. ASSUME Supported(source) PROVE PassPart'
  <2>1. CorePart /\ AllStored /\ SearchOK /\ PredicateIDs = <<>>
    BY <1>1, <1>2 DEF PassInv, Analysing, PassPart, StorePart, OrderPart, PredicatePart
  <2>2. CorePart' /\ AllStored'
    BY <1>1, <2>1, CoreStays, StoredStays
  <2>3. SearchOK'
    BY <1>1, <2>1, SearchStays
  <2> QED BY <1>1, <2>1, <2>2, <2>3 DEF PassPart, StorePart, OrderPart, PredicatePart
<1> QED BY <1>1, <1>2 DEF PassInv, Analysing

LEMMA InsertKeepsInv ==
  ASSUME PassInv, insertPredicateBlocks
  PROVE  PassInv'
<1>1. /\ phase = "ordering" /\ phase' = "wiring" /\ VisitStack = <<>>
      /\ ActionBlocks' = ExecutionOrder
      /\ UNCHANGED <<F, BlockToMaskID, source, ReturnBlock, UnreachableBlock, PathIDs, PredicateIDs>>
  BY DEF insertPredicateBlocks, TraversalEnded, analysisVars
<1>2. ASSUME Supported(source) PROVE PassPart'
  <2>1. CorePart /\ AllStored /\ SearchOK /\ PredicateIDs = <<>>
    BY <1>1, <1>2 DEF PassInv, Analysing, PassPart, StorePart, OrderPart, PredicatePart
  <2>2. CorePart' /\ AllStored'
    BY <1>1, <2>1, CoreStays, StoredStays
  <2>3. F = source /\ NumberedOK /\ ExitsOK /\ Supported(F) /\ source \in InputFunctions
    BY <1>2, <2>1 DEF CorePart, PassInv
  <2>4. ExecutionOrder = Tail(RPOT)
    <3>1. RPOT \in Seq(Blocks(F))
      BY <1>1, <2>1, <2>3, OrderOfSupported DEF IsCompleteOrder
    <3>2. UnreachableBlock \notin Blocks(F)
      BY <2>3, BlockAssumption DEF ExitsOK, NewBlocks
    <3>3. UnreachableBlock \notin ToSet(RPOT)
      BY <3>1, <3>2 DEF ToSet
    <3>4. RPOT # <<>>
      BY <1>1, <2>1, <2>3, OrderOfSupported DEF IsCompleteOrder
    <3> QED BY <3>3, <3>4 DEF ExecutionOrder, AllInOrder
  <2>5. ActionsOK'
    BY <1>1, <2>1, <2>3, <2>4, OrderMakesActions
  <2> QED BY <1>1, <2>1, <2>2, <2>5 DEF PassPart, StorePart, OrderPart, PredicatePart
<1> QED BY <1>1, <1>2 DEF PassInv, Analysing

(* Every action block of a supported function but the last ends with a     *)
(* branch, and so does the entry block.                                    *)
LEMMA ActionsBranch ==
  ASSUME CorePart, ActionsOK, Supported(F)
  PROVE  /\ LastAction \in Nat \ {0} /\ DOMAIN ActionBlocks = 1 .. LastAction
         /\ \A i \in 0 .. LastAction - 1 : BlockAt(i) \in Blocks(F) /\ F.term[BlockAt(i)] = "br"
         /\ TerminatorsAreBranches
<1>1. ActionBlocks \in Seq(Blocks(F)) /\ ActionBlocks # <<>> /\ ActionBlocks[LastAction] = ReturnBlock
      /\ \A i, j \in 1 .. LastAction : ActionBlocks[i] = ActionBlocks[j] => i = j
  BY DEF ActionsOK
<1>2. LastAction \in Nat \ {0} /\ DOMAIN ActionBlocks = 1 .. LastAction
  BY <1>1 DEF LastAction
<1>3. WellFormed(F) /\ ExitsOK
  BY DEF CorePart
<1>4. Entry(F) \in Blocks(F) /\ F.term[Entry(F)] = "br"
  <2>1. Entry(F) \in Blocks(F) /\ SuccSize(F, Entry(F)) > 1
    BY <1>3, SupportedFacts, WellFormedFacts
  <2>2. F.term[Entry(F)] # "ret"
    BY <1>3, <2>1 DEF WellFormed
  <2> QED BY <1>3, <2>1, <2>2, SupportedFacts
<1>5. ASSUME NEW i \in 1 .. LastAction - 1
      PROVE  ActionBlocks[i] \in Blocks(F) /\ F.term[ActionBlocks[i]] = "br"
  <2>1. i \in 1 .. LastAction /\ LastAction \in 1 .. LastAction /\ i # LastAction
    BY <1>2
  <2>2. ActionBlocks[i] \in Blocks(F) /\ ActionBlocks[i] # ReturnBlock
    BY <1>1, <1>2, <2>1
  <2>3. F.term[ActionBlocks[i]] # "ret"
    BY <1>3, <2>2 DEF ExitsOK, BlocksEndingWith
  <2> QED BY <1>3, <2>2, <2>3, SupportedFacts
<1>6. \A i \in 0 .. LastAction - 1 : BlockAt(i) \in Blocks(F) /\ F.term[BlockAt(i)] = "br"
  BY <1>2, <1>4, <1>5 DEF BlockAt
<1> QED BY <1>1, <1>2, <1>4, <1>5, <1>6 DEF TerminatorsAreBranches

LEMMA WireKeepsInv ==
  ASSUME PassInv, setActionBlocksSuccessors
  PROVE  PassInv'
<1>1. /\ phase = "wiring" /\ phase' \in {"predicating", "aborted"} /\ cursor' = 1
      /\ TerminatorsAreBranches => phase' = "predicating"
      /\ UNCHANGED <<F, BlockToMaskID, source, ReturnBlock, UnreachableBlock, PathIDs, ActionBlocks, PredicateIDs>>
  BY DEF setActionBlocksSuccessors, passVars
<1>2. ASSUME Supported(source) PROVE PassPart'
  <2>1. CorePart /\ AllStored /\ ActionsOK /\ PredicateIDs = <<>>
    BY <1>1, <1>2 DEF PassInv, Analysing, PassPart, StorePart, OrderPart, PredicatePart
  <2>2. CorePart' /\ AllStored' /\ ActionsOK' /\ LastAction' = LastAction
    BY <1>1, <2>1, CoreStays, StoredStays, ActionsStay
  <2>3. phase' = "predicating" /\ LastAction \in Nat \ {0}
    BY <1>1, <1>2, <2>1, ActionsBranch DEF CorePart
  <2>4. PredicatesUpTo(cursor - 1)' /\ cursor' \in 1 .. LastAction'
    BY <1>1, <2>1, <2>2, <2>3 DEF PredicatesUpTo
  <2> QED BY <1>1, <2>2, <2>3, <2>4 DEF PassPart, StorePart, OrderPart, PredicatePart
<1> QED BY <1>1, <1>2 DEF PassInv, Analysing

LEMMA SetPredicateKeepsInv ==
  ASSUME PassInv, SetPredicate
  PROVE  PassInv'
<1>1. /\ phase = "predicating" /\ phase' = "predicating"
      /\ cursor < LastAction /\ cursor' = cursor + 1
      /\ \E id \in PredicateID(cursor) : PredicateIDs' = Append(PredicateIDs, id)
      /\ UNCHANGED <<F, BlockToMaskID, source, ReturnBlock, UnreachableBlock, PathIDs, ActionBlocks>>
  BY DEF SetPredicate
<1>2. ASSUME Supported(source) PROVE PassPart'
  <2>1. CorePart /\ AllStored /\ ActionsOK /\ cursor \in 1 .. LastAction /\ PredicatesUpTo(cursor - 1)
    BY <1>1, <1>2 DEF PassInv, Analysing, PassPart, StorePart, OrderPart, PredicatePart
  <2>2. CorePart' /\ AllStored' /\ ActionsOK' /\ LastAction' = LastAction
    BY <1>1, <2>1, CoreStays, StoredStays, ActionsStay
  <2>3. LastAction \in Nat \ {0}
    BY <1>2, <2>1, ActionsBranch DEF CorePart
  <2>4. PredicatesUpTo(cursor - 1)' /\ cursor' \in 1 .. LastAction'
    <3> DEFINE id == BlockToMaskID[ActionBlocks[cursor]]
    <3>1. IsNumbered(ActionBlocks[cursor])
      BY <2>1 DEF ActionsOK
    <3>2. PredicateIDs' = Append(PredicateIDs, id) /\ id \in Nat
      BY <1>1, <2>1, <3>1 DEF PredicateID, FoundIDs, IsNumbered, CorePart
    <3>3. /\ PredicateIDs \in Seq(Nat) /\ Len(PredicateIDs) = cursor - 1
          /\ \A i \in 1 .. cursor - 1 : PredicateIDs[i] = BlockToMaskID[ActionBlocks[i]]
      BY <2>1 DEF PredicatesUpTo
    <3> HIDE DEF id
    <3>4. PredicateIDs' \in Seq(Nat) /\ Len(PredicateIDs') = cursor
      BY <2>1, <2>3, <3>2, <3>3
    <3>5. ASSUME NEW i \in 1 .. cursor PROVE PredicateIDs'[i] = BlockToMaskID[ActionBlocks[i]]
      <4>1. CASE i = cursor
        BY <2>1, <2>3, <3>2, <3>3, <4>1 DEF id
      <4>2. CASE i # cursor
        BY <2>1, <2>3, <3>2, <3>3, <4>2
      <4> QED BY <4>1, <4>2
    <3>6. (cursor - 1)' = cursor /\ cursor' \in 1 .. LastAction
      BY <1>1, <2>1, <2>3
    <3> QED BY <1>1, <2>2, <3>4, <3>5, <3>6 DEF PredicatesUpTo
  <2> QED BY <1>1, <2>2, <2>4 DEF PassPart, StorePart, OrderPart, PredicatePart
<1> QED BY <1>1, <1>2 DEF PassInv, Analysing

LEMMA SetLastPredicateKeepsInv ==
  ASSUME PassInv, SetLastPredicate
  PROVE  PassInv'
<1>1. /\ phase = "predicating" /\ phase' \in {"phis", "aborted"}
      /\ cursor = LastAction /\ cursor' = 1
      /\ ReturnBlock # NullBlock => phase' = "phis"
      /\ UNCHANGED <<F, BlockToMaskID, source, ReturnBlock, UnreachableBlock, PathIDs, ActionBlocks, PredicateIDs>>
  BY DEF SetLastPredicate, passVars
<1>2. ASSUME Supported(source) PROVE PassPart'
  <2>1. CorePart /\ AllStored /\ ActionsOK /\ PredicatesUpTo(cursor - 1)
    BY <1>1, <1>2 DEF PassInv, Analysing, PassPart, StorePart, OrderPart, PredicatePart
  <2>2. CorePart' /\ AllStored' /\ ActionsOK' /\ LastAction' = LastAction
    BY <1>1, <2>1, CoreStays, StoredStays, ActionsStay
  <2>3. ReturnBlock # NullBlock
    BY <2>1, BlockAssumption DEF CorePart, ExitsOK, NewBlocks, PassInv
  <2>4. PredicatesUpTo(LastAction - 1)'
    BY <1>1, <2>1, <2>2 DEF PredicatesUpTo
  <2> QED BY <1>1, <2>2, <2>3, <2>4 DEF PassPart, StorePart, OrderPart, PredicatePart
<1> QED BY <1>1, <1>2 DEF PassInv, Analysing

LEMMA MovePhiKeepsInv ==
  ASSUME PassInv, movePhiNodeToPredicateBlock
  PROVE  PassInv'
<1>1. /\ phase = "phis" /\ cursor <= LastAction
      /\ \/ PhiCannotMove(cursor) /\ phase' = "aborted"
         \/ cursor' = cursor + 1 /\ phase' = "phis"
      /\ UNCHANGED <<F, BlockToMaskID, source, ReturnBlock, UnreachableBlock, PathIDs, ActionBlocks, PredicateIDs>>
  BY DEF movePhiNodeToPredicateBlock, Abort
<1>2. ASSUME Supported(source) PROVE PassPart'
  <2>1. CorePart /\ AllStored /\ ActionsOK /\ PredicatesUpTo(LastAction - 1) /\ cursor \in Nat \ {0}
    BY <1>1, <1>2 DEF PassInv, Analysing, PassPart, StorePart, OrderPart, PredicatePart
  <2>2. CorePart' /\ AllStored' /\ ActionsOK' /\ LastAction' = LastAction
    BY <1>1, <2>1, CoreStays, StoredStays, ActionsStay
  <2>3. PredicatesUpTo(LastAction - 1)'
    BY <1>1, <2>1, <2>2 DEF PredicatesUpTo
  <2>4. phase' = "aborted" => \E i \in DOMAIN ActionBlocks' : PhiCannotMove(i)'
    <3>1. cursor \in DOMAIN ActionBlocks
      BY <1>1, <1>2, <2>1, ActionsBranch DEF CorePart
    <3>2. \A i : PhiCannotMove(i)' = PhiCannotMove(i)
      BY <1>1 DEF PhiCannotMove
    <3> QED BY <1>1, <3>1, <3>2
  <2>5. phase' = "phis" => cursor' \in Nat \ {0}
    BY <1>1, <2>1
  <2> QED BY <1>1, <2>2, <2>3, <2>4, <2>5 DEF PassPart, StorePart, OrderPart, PredicatePart
<1> QED BY <1>1, <1>2 DEF PassInv, Analysing

(* The end of the pass, and a step of the call. *)
LEMMA DoneKeepsInv ==
  ASSUME PassInv, phase \in {"phis", "done"}, phase' = "done",
         UNCHANGED <<F, BlockToMaskID, source, ReturnBlock, UnreachableBlock, PathIDs, ActionBlocks, PredicateIDs>>
  PROVE  PassInv'
<1>1. ASSUME Supported(source) PROVE PassPart'
  <2>1. CorePart /\ AllStored /\ ActionsOK /\ PredicatesUpTo(LastAction - 1)
    BY <1>1 DEF PassInv, Analysing, PassPart, StorePart, OrderPart, PredicatePart
  <2>2. CorePart' /\ AllStored' /\ ActionsOK' /\ LastAction' = LastAction
    BY <2>1, CoreStays, StoredStays, ActionsStay
  <2>3. PredicatesUpTo(LastAction - 1)'
    BY <2>1, <2>2 DEF PredicatesUpTo
  <2> QED BY <2>2, <2>3 DEF PassPart, StorePart, OrderPart, PredicatePart
<1> QED BY <1>1 DEF PassInv, Analysing

LEMMA StutterKeepsInv ==
  ASSUME PassInv, UNCHANGED bpVars
  PROVE  PassInv'
<1>1. UNCHANGED <<F, traversalVars, phase, cursor, BlockToMaskID, source, ReturnBlock,
                  UnreachableBlock, PathIDs, ActionBlocks, PredicateIDs>>
      /\ UNCHANGED ppaVars
  BY DEF bpVars, ppaVars, passVars, analysisVars
<1>2. Analysing' = Analysing
  BY <1>1 DEF Analysing
<1>3. SearchOK => SearchOK'
  BY <1>1, SearchStays
<1>4. ASSUME Analysing PROVE AnalysisPart'
  <2>1. AnalysisPart
    BY <1>4 DEF PassInv
  <2>2. PPAInv'
    BY <1>1, <2>1, StepPPAInv DEF AnalysisPart
  <2> QED BY <1>1, <1>3, <2>1, <2>2 DEF AnalysisPart
<1>5. ASSUME ~Analysing, Supported(source) PROVE PassPart'
  <2>1. PassPart
    BY <1>5 DEF PassInv
  <2>2. CorePart'
    BY <1>1, <2>1, CoreStays DEF PassPart
  <2>3. StorePart'
    <3>1. \A n : StoredUpTo(n) => StoredUpTo(n)'
      BY <1>1 DEF StoredUpTo, HasStored, StoresPathID
    <3>2. AllStored => AllStored'
      BY <1>1, StoredStays
    <3> QED BY <1>1, <2>1, <3>1, <3>2 DEF PassPart, StorePart
  <2>4. OrderPart'
    <3>1. ActionsOK => ActionsOK'
      BY <1>1, ActionsStay
    <3> QED BY <1>1, <1>3, <2>1, <3>1 DEF PassPart, OrderPart
  <2>5. PredicatePart'
    BY <1>1, <2>1 DEF PassPart, PredicatePart, PredicatesUpTo, LastAction, PhiCannotMove
  <2> QED BY <2>2, <2>3, <2>4, <2>5 DEF PassPart
<1> QED BY <1>1, <1>2, <1>4, <1>5 DEF PassInv

LEMMA StepPassInv == PassInv /\ [PFNext]_pfVars => PassInv'
<1> SUFFICES ASSUME PassInv, [PFNext]_pfVars PROVE PassInv'
  OBVIOUS
<1>1. CASE Analyze
  BY <1>1, AnalyzeKeepsInv
<1>2. CASE Linearize
  <2>1. CASE Return
    <3>1. phase = "phis" /\ phase' = "done"
          /\ UNCHANGED <<F, BlockToMaskID, source, ReturnBlock, UnreachableBlock, PathIDs,
                         ActionBlocks, PredicateIDs>>
      BY <2>1 DEF Return, analysisVars, passVars
    <3> QED BY <3>1, DoneKeepsInv
  <2> QED BY <1>2, <2>1, UnifyKeepsInv, StorePathIDKeepsInv, StartOrderingKeepsInv,
             TraverseForOrderKeepsInv, InsertKeepsInv, WireKeepsInv, SetPredicateKeepsInv,
             SetLastPredicateKeepsInv, MovePhiKeepsInv DEF Linearize
<1>3. CASE CallPredicated
  <2>1. UNCHANGED <<F, ReturnBlock, PathIDs, ActionBlocks, PredicateIDs, PredicatePhis>>
    BY <1>3 DEF CallPredicated, Run!PRNext, Run!Call, Run!StoreAndJump, Run!PredicateHolds,
                Run!PredicateFails, Run!TakeLastPredicate, Run!Enter, Run!Return, Run!program
  <2>2. phase = "done" /\ phase' = "done" /\ UNCHANGED <<BlockToMaskID, source, UnreachableBlock>>
    BY <1>3 DEF CallPredicated, analysisVars
  <2> QED BY <2>1, <2>2, DoneKeepsInv
<1>4. CASE UNCHANGED pfVars
  BY <1>4, StutterKeepsInv DEF pfVars
<1> QED BY <1>1, <1>2, <1>3, <1>4 DEF PFNext, Predicate, BPNext

LEMMA PassInvariance == PFSpec => []PassInv
BY InitPassInv, StepPassInv, PTL DEF PFSpec

-----------------------------------------------------------------------------

(* In a state with AllStored, ActionsOK and all predicate ids, a branch    *)
(* finds its target.                                                       *)
LEMMA BranchesFindTargets ==
  ASSUME CorePart, AllStored, ActionsOK, PredicatesUpTo(LastAction - 1), Supported(F),
         NEW i \in 0 .. LastAction - 1, NEW k \in DOMAIN F.succ[BlockAt(i)]
  PROVE  FindsTarget(F, ActionBlocks, PathIDs, PredicateIDs, BlockAt(i), k)
<1> PICK b : b = BlockAt(i)
  OBVIOUS
<1> PICK s : s = F.succ[b][k]
  OBVIOUS
<1>1. /\ LastAction \in Nat \ {0} /\ DOMAIN ActionBlocks = 1 .. LastAction
      /\ b \in Blocks(F) /\ F.term[b] = "br"
  BY ActionsBranch
<1>2. PlaceOf(F, ActionBlocks, b) = i
  <2>1. CASE i = 0
    BY <2>1 DEF PlaceOf, BlockAt
  <2>2. CASE i # 0
    <3>1. i \in DOMAIN ActionBlocks /\ b = ActionBlocks[i]
      BY <1>1, <2>2 DEF BlockAt
    <3>2. b # Entry(F)
      BY <3>1 DEF ActionsOK
    <3>3. \A j \in DOMAIN ActionBlocks : ActionBlocks[j] = b => j = i
      BY <1>1, <3>1 DEF ActionsOK
    <3> QED BY <3>1, <3>2, <3>3 DEF PlaceOf, PositionOf
  <2> QED BY <2>1, <2>2
<1>3. s \in Successors(F, b)
  BY DEF Successors
<1>4. PICK p \in i + 1 .. LastAction :
        /\ ActionBlocks[p] = s
        /\ \A q \in i + 1 .. p - 1 : BlockToMaskID[ActionBlocks[q]] # BlockToMaskID[s]
  <2>1. i \in 0 .. LastAction
    BY <1>1
  <2>2. TargetIsNext(i, s)
    BY <1>3, <2>1 DEF ActionsOK
  <2> QED BY <2>2 DEF TargetIsNext
<1>5. PathIDs[b][k] = BlockToMaskID[s]
  <2>1. b # ReturnBlock
    BY <1>1 DEF CorePart, ExitsOK, BlocksEndingWith
  <2>2. HasStored(b)
    BY <1>1, <2>1 DEF AllStored, StoresPathID
  <2> QED BY <2>2 DEF HasStored
<1>6. \A q \in 1 .. LastAction - 1 : PredicateIDs[q] = BlockToMaskID[ActionBlocks[q]]
  BY DEF PredicatesUpTo
<1>7. \A q \in i + 1 .. p - 1 : PredicateIDs[q] # PathIDs[b][k]
  BY <1>1, <1>4, <1>5, <1>6
<1>8. p < LastAction => PredicateIDs[p] = PathIDs[b][k]
  BY <1>1, <1>4, <1>5, <1>6
<1>9. p \in PlaceOf(F, ActionBlocks, b) + 1 .. Len(ActionBlocks)
  BY <1>2, <1>4 DEF LastAction
<1> QED BY <1>2, <1>4, <1>7, <1>8, <1>9 DEF FindsTarget, LastAction

LEMMA ActionsAreLinear ==
  ASSUME CorePart, AllStored, ActionsOK, PredicatesUpTo(LastAction - 1), Supported(F)
  PROVE  IsLinearization(F, ActionBlocks, ReturnBlock, PathIDs, PredicateIDs)
<1>1. /\ LastAction \in Nat \ {0} /\ DOMAIN ActionBlocks = 1 .. LastAction
      /\ \A i \in 0 .. LastAction - 1 : F.term[BlockAt(i)] = "br"
  BY ActionsBranch
<1>2. /\ ActionBlocks # <<>> /\ ActionBlocks[Len(ActionBlocks)] = ReturnBlock
      /\ \A i, j \in DOMAIN ActionBlocks : ActionBlocks[i] = ActionBlocks[j] => i = j
      /\ Entry(F) \notin {ActionBlocks[i] : i \in DOMAIN ActionBlocks}
  BY <1>1 DEF ActionsOK, LastAction
<1>3. F.term[ReturnBlock] = "ret"
  BY DEF CorePart, ExitsOK, BlocksEndingWith
<1>4. ASSUME NEW b \in ({Entry(F)} \cup {ActionBlocks[i] : i \in DOMAIN ActionBlocks}) \ {ReturnBlock}
      PROVE  /\ F.term[b] = "br"
             /\ \A k \in DOMAIN F.succ[b] : FindsTarget(F, ActionBlocks, PathIDs, PredicateIDs, b, k)
  <2>1. PICK i \in 0 .. LastAction - 1 : b = BlockAt(i)
    <3>1. CASE b = Entry(F)
      BY <1>1, <3>1 DEF BlockAt
    <3>2. CASE b # Entry(F)
      <4>1. PICK i \in 1 .. LastAction : b = ActionBlocks[i]
        BY <1>1, <3>2
      <4>2. i # LastAction
        BY <1>2, <4>1 DEF LastAction
      <4> QED BY <1>1, <4>1, <4>2 DEF BlockAt
    <3> QED BY <3>1, <3>2
  <2> QED BY <1>1, <2>1, BranchesFindTargets
<1> QED BY <1>2, <1>3, <1>4 DEF IsLinearization

(***************************************************************************)
(* Of every supported function the pass makes a linearization: the second  *)
(* traversal finds the order the ids have been given out in, every branch  *)
(* stores the id of its target, and no predicate block on the way to the   *)
(* target's has that id.                                                   *)
(***************************************************************************)
THEOREM SupportedIsLinearized == PFSpec => []MakesLinearization
<1>1. PassInv => MakesLinearization
  <2> SUFFICES ASSUME PassInv, phase = "done", Supported(source)
               PROVE  IsLinearization(F, ActionBlocks, ReturnBlock, PathIDs, PredicateIDs)
    BY DEF MakesLinearization
  <2>1. PassPart
    BY DEF PassInv, Analysing
  <2>2. CorePart /\ AllStored /\ ActionsOK /\ PredicatesUpTo(LastAction - 1) /\ F = source
    BY <2>1 DEF PassPart, StorePart, OrderPart, PredicatePart, CorePart
  <2> QED BY <2>2, ActionsAreLinear
<1> QED BY <1>1, PassInvariance, PTL

(***************************************************************************)
(* On a supported function the pass fails no assertion, reads no id that   *)
(* is missing and casts no terminator that is not a branch; what it can    *)
(* fail on is a PHI node with one value or in the first action block.      *)
(***************************************************************************)
THEOREM SupportedDoesNotAbort == PFSpec => []SupportedIsNotAborted
<1>1. PassInv => SupportedIsNotAborted
  BY DEF PassInv, Analysing, PassPart, PredicatePart, SupportedIsNotAborted
<1> QED BY <1>1, PassInvariance, PTL
-----------------------------------------------------------------------------

(***************************************************************************)
(* The call of the result of the pass.  The proofs about the run of any    *)
(* linear program are used for the program the pass has made.              *)
(***************************************************************************)
RunProofs == INSTANCE PredicatedRunProofs WITH Programs <- {}

MovedPhis == {MovedPhi(i) : i \in 1 .. LastAction}

PhisUpTo(n) ==
  /\ PredicatePhis \in Seq(MovedPhis) /\ Len(PredicatePhis) = n
  /\ \A i \in 1 .. n : PredicatePhis[i] = MovedPhi(i)

MoveInv ==
  Supported(source) =>
    /\ phase \notin {"phis", "done", "aborted"} => PredicatePhis = <<>>
    /\ phase = "phis" => cursor <= LastAction + 1 /\ PhisUpTo(cursor - 1)
    /\ phase = "done" => PhisUpTo(LastAction)

CallInv ==
  Supported(source) =>
    /\ phase # "done" => Run!RunInit
    /\ phase = "done" => RunProofs!ControlInv
    /\ phase = "done" /\ PhisAreShortCircuits => RunProofs!PhiInv

FunctionInv == PassInv /\ MoveInv /\ CallInv

(* The steps of the call are those of the run the proofs are about. *)
LEMMA SameRun == (Run!RunInit <=> RunProofs!RunInit) /\ (Run!PRNext => RunProofs!PRNext)
<1>1. Run!RunInit <=> RunProofs!RunInit
  BY DEF Run!RunInit, RunProofs!RunInit, Run!Entry, RunProofs!Entry
<1>2. Run!PRNext => RunProofs!PRNext
  BY DEF Run!PRNext, Run!Call, Run!StoreAndJump, Run!PredicateHolds, Run!PredicateFails,
         Run!TakeLastPredicate, Run!Return, Run!Enter, Run!IsRewired, Run!LastPredicate,
         Run!PredicateAfter, Run!MaskMatches, Run!FinalTarget, Run!NextPredicate, Run!PhiSource,
         Run!PlaceOf, Run!PositionOf, Run!Entry, Run!program,
         RunProofs!PRNext, RunProofs!Call, RunProofs!StoreAndJump, RunProofs!PredicateHolds,
         RunProofs!PredicateFails, RunProofs!TakeLastPredicate, RunProofs!Return,
         RunProofs!Enter, RunProofs!IsRewired, RunProofs!LastPredicate,
         RunProofs!PredicateAfter, RunProofs!MaskMatches, RunProofs!FinalTarget,
         RunProofs!NextPredicate, RunProofs!PhiSource, RunProofs!PlaceOf, RunProofs!PositionOf,
         RunProofs!Entry, RunProofs!program
<1> QED BY <1>1, <1>2

(* What the pass has made of a supported function is a linear program. *)
LEMMA DoneIsLinear ==
  ASSUME PassInv, phase = "done", Supported(source)
  PROVE  RunProofs!ProgramOK
<1>1. PassPart
  BY DEF PassInv, Analysing
<1>2. /\ CorePart /\ AllStored /\ ActionsOK /\ PredicatesUpTo(LastAction - 1)
      /\ F = source /\ Supported(F) /\ WellFormed(F)
  BY <1>1 DEF PassPart, StorePart, OrderPart, PredicatePart, CorePart
<1>3. IsLinearization(F, ActionBlocks, ReturnBlock, PathIDs, PredicateIDs)
  BY <1>2, ActionsAreLinear
<1>4. ActionBlocks \in Seq(Blocks(F))
  BY <1>2 DEF ActionsOK
<1>5. ASSUME NEW b \in Blocks(F) \ {ReturnBlock}, NEW k \in DOMAIN F.succ[b]
      PROVE  PathIDs[b][k] \in Nat
  <2>1. F.term[b] # "ret"
    BY <1>2 DEF CorePart, ExitsOK, BlocksEndingWith
  <2>2. F.term[b] = "br"
    BY <1>2, <2>1, SupportedFacts
  <2>3. HasStored(b)
    BY <1>2, <2>2 DEF AllStored, StoresPathID
  <2>4. F.succ[b][k] \in DOMAIN BlockToMaskID
    BY <1>2 DEF CorePart, NumberedOK, Successors
  <2> QED BY <1>2, <2>3, <2>4 DEF HasStored, CorePart
<1>6. RunProofs!IsLinearization(F, ActionBlocks, ReturnBlock, PathIDs, PredicateIDs)
  BY <1>3 DEF RunProofs!IsLinearization, RunProofs!FindsTarget, RunProofs!PlaceOf,
              RunProofs!PositionOf, RunProofs!Entry,
              IsLinearization, FindsTarget, PlaceOf, PositionOf, Entry
<1>7. RunProofs!WellFormed(F)
  <2>1. RunProofs!Blocks(F) = Blocks(F) /\ RunProofs!Entry(F) = Entry(F)
        /\ RunProofs!TerminatorKinds = TerminatorKinds
    BY DEF RunProofs!Blocks, Blocks, RunProofs!Entry, Entry, RunProofs!TerminatorKinds, TerminatorKinds
  <2>2. \A b : RunProofs!SuccSize(F, b) = SuccSize(F, b) /\ RunProofs!Successors(F, b) = Successors(F, b)
    BY DEF RunProofs!SuccSize, SuccSize, RunProofs!Successors, Successors
  <2>3. RunProofs!IsFiniteSet(Blocks(F))
    BY <1>2 DEF WellFormed, IsFiniteSet, RunProofs!IsFiniteSet
  <2> QED BY <1>2, <2>1, <2>2, <2>3 DEF RunProofs!WellFormed, WellFormed
<1> QED BY <1>4, <1>5, <1>6, <1>7 DEF RunProofs!ProgramOK, RunProofs!IsLinear, RunProofs!Blocks, Blocks

LEMMA MoveStays ==
  ASSUME UNCHANGED <<F, ActionBlocks, PredicatePhis>>
  PROVE  /\ \A n : PhisUpTo(n) => PhisUpTo(n)'
         /\ LastAction' = LastAction /\ MovedPhis' = MovedPhis
         /\ \A i : MovedPhi(i)' = MovedPhi(i)
<1>1. \A i : MovedPhi(i)' = MovedPhi(i)
  BY DEF MovedPhi
<1>2. LastAction' = LastAction
  BY DEF LastAction
<1>3. MovedPhis' = MovedPhis
  BY <1>1, <1>2 DEF MovedPhis
<1>4. ASSUME NEW n, PhisUpTo(n) PROVE PhisUpTo(n)'
  <2>1. PredicatePhis' = PredicatePhis
    OBVIOUS
  <2> QED BY <1>1, <1>3, <1>4, <2>1 DEF PhisUpTo
<1> QED BY <1>1, <1>2, <1>3, <1>4

(* The PHI nodes are moved one after the other, and once. *)
LEMMA StepMoveInv ==
  ASSUME PassInv, MoveInv, [PFNext]_pfVars
  PROVE  MoveInv'
<1>1. source' = source
  BY DEF PFNext, Predicate, CallPredicated, BPNext, Analyze, Linearize, unifyFunctionExitNodes,
         StorePathID, StartOrdering, TraverseForOrder, insertPredicateBlocks,
         setActionBlocksSuccessors, SetPredicate, SetLastPredicate, movePhiNodeToPredicateBlock,
         Return, pfVars, bpVars
<1> SUFFICES ASSUME Supported(source) PROVE MoveInv'
  BY <1>1 DEF MoveInv
<1>2. phase \notin {"phis", "done", "aborted"} => PredicatePhis = <<>>
  BY DEF MoveInv
<1>3. CASE SetLastPredicate
  <2>1. phase = "predicating" /\ phase' \in {"aborted", "phis"} /\ cursor' = 1
        /\ UNCHANGED <<F, ActionBlocks, PredicatePhis>>
    BY <1>3 DEF SetLastPredicate, passVars
  <2>2. LastAction' = LastAction /\ LastAction \in Nat
    <3>1. CorePart /\ ActionsOK /\ F = source
      BY <2>1 DEF PassInv, Analysing, PassPart, OrderPart, CorePart
    <3> QED BY <2>1, <3>1, MoveStays, ActionsBranch
  <2>3. PhisUpTo(cursor - 1)'
    BY <1>2, <2>1 DEF PhisUpTo
  <2> QED BY <2>1, <2>2, <2>3 DEF MoveInv
<1>4. CASE movePhiNodeToPredicateBlock
  <2>1. phase = "phis" /\ cursor <= LastAction /\ UNCHANGED <<F, ActionBlocks>>
        /\ \/ phase' = "aborted"
           \/ phase' = "phis" /\ cursor' = cursor + 1
              /\ PredicatePhis' = Append(PredicatePhis, MovedPhi(cursor))
    BY <1>4 DEF movePhiNodeToPredicateBlock, Abort
  <2>2. CorePart /\ ActionsOK /\ F = source /\ cursor \in Nat \ {0}
    BY <2>1 DEF PassInv, Analysing, PassPart, OrderPart, PredicatePart, CorePart
  <2>3. LastAction \in Nat
    BY <2>2, ActionsBranch
  <2>4. /\ PredicatePhis \in Seq(MovedPhis) /\ Len(PredicatePhis) = cursor - 1
        /\ \A i \in 1 .. cursor - 1 : PredicatePhis[i] = MovedPhi(i)
    BY <2>1 DEF MoveInv, PhisUpTo
  <2>5. MovedPhi(cursor) \in MovedPhis
    BY <2>1, <2>2, <2>3 DEF MovedPhis
  <2>6. \A i : MovedPhi(i)' = MovedPhi(i)
    BY <2>1 DEF MovedPhi
  <2>7. LastAction' = LastAction /\ MovedPhis' = MovedPhis
    BY <2>1, <2>6 DEF MovedPhis, LastAction
  <2>8. ASSUME phase' = "phis" PROVE PhisUpTo(cursor - 1)'
    <3> PICK e : e = MovedPhi(cursor)
      OBVIOUS
    <3>1. PredicatePhis' = Append(PredicatePhis, e) /\ cursor' = cursor + 1 /\ e \in MovedPhis
      BY <2>1, <2>5, <2>8
    <3>2. PredicatePhis' \in Seq(MovedPhis) /\ Len(PredicatePhis') = cursor
      BY <2>2, <2>4, <3>1
    <3>3. \A i \in 1 .. cursor : PredicatePhis'[i] = IF i = cursor THEN e ELSE PredicatePhis[i]
      BY <2>2, <2>4, <3>1
    <3>4. ASSUME NEW i \in 1 .. cursor PROVE PredicatePhis'[i] = MovedPhi(i)
      <4>1. CASE i = cursor
        BY <3>3, <4>1
      <4>2. CASE i # cursor
        <5>1. i \in 1 .. cursor - 1
          BY <2>2, <4>2
        <5> QED BY <2>4, <3>3, <4>2, <5>1
      <4> QED BY <4>1, <4>2
    <3>5. (cursor - 1)' = cursor
      BY <2>2, <3>1
    <3> QED BY <2>6, <2>7, <3>2, <3>4, <3>5 DEF PhisUpTo
  <2>9. phase' = "phis" => cursor' <= LastAction' + 1
    BY <2>1, <2>2, <2>3, <2>7
  <2> QED BY <2>1, <2>8, <2>9 DEF MoveInv
<1>5. CASE Return
  <2>1. phase = "phis" /\ phase' = "done" /\ cursor > LastAction
        /\ UNCHANGED <<F, ActionBlocks, PredicatePhis>>
    BY <1>5 DEF Return, passVars
  <2>2. CorePart /\ ActionsOK /\ F = source /\ cursor \in Nat \ {0}
    BY <2>1 DEF PassInv, Analysing, PassPart, OrderPart, PredicatePart, CorePart
  <2>3. cursor - 1 = LastAction
    BY <2>1, <2>2, ActionsBranch DEF MoveInv
  <2>4. PhisUpTo(LastAction)'
    BY <2>1, <2>3, MoveStays DEF MoveInv
  <2> QED BY <2>1, <2>4 DEF MoveInv
<1>6. CASE CallPredicated
  <2>1. UNCHANGED <<F, ActionBlocks, PredicatePhis>> /\ phase = "done" /\ phase' = "done"
    BY <1>6 DEF CallPredicated, Run!PRNext, Run!Call, Run!StoreAndJump, Run!PredicateHolds,
                Run!PredicateFails, Run!TakeLastPredicate, Run!Enter, Run!Return, Run!program
  <2> QED BY <2>1, MoveStays DEF MoveInv
<1>7. CASE UNCHANGED pfVars
  <2>1. UNCHANGED <<F, ActionBlocks, PredicatePhis, phase, cursor>>
    BY <1>7 DEF pfVars, bpVars, passVars, analysisVars
  <2> QED BY <2>1, MoveStays DEF MoveInv
<1>8. CASE \/ Analyze \/ unifyFunctionExitNodes \/ StorePathID \/ StartOrdering
           \/ TraverseForOrder \/ insertPredicateBlocks \/ setActionBlocksSuccessors \/ SetPredicate
  <2>1. PredicatePhis' = PredicatePhis /\ phase \notin {"phis", "done", "aborted"}
        /\ phase' \notin {"phis", "done"}
    BY <1>8 DEF Analyze, PPANext, TraverseForAnalysis, StartNumbering, NumberBlock, FinishNumbering,
                unifyFunctionExitNodes, StorePathID, setPathIDCondition, Abort, StartOrdering,
                TraverseForOrder, insertPredicateBlocks, setActionBlocksSuccessors, SetPredicate, passVars
  <2> QED BY <1>2, <2>1 DEF MoveInv
<1> QED BY <1>3, <1>4, <1>5, <1>6, <1>7, <1>8 DEF PFNext, Predicate, BPNext, Linearize

-----------------------------------------------------------------------------

(* A call of the program begins when the pass is done.                     *)
LEMMA DoneStarts ==
  (PassInv /\ MoveInv /\ phase = "done" /\ Supported(source) /\ Run!RunInit =>
     /\ RunProofs!ControlInv
     /\ PhisAreShortCircuits => RunProofs!PhiInv)'
<1>1. PassInv /\ MoveInv /\ phase = "done" /\ Supported(source) /\ Run!RunInit =>
        /\ RunProofs!ControlInv
        /\ PhisAreShortCircuits => RunProofs!PhiInv
  <2> SUFFICES ASSUME PassInv, MoveInv, phase = "done", Supported(source), Run!RunInit
               PROVE  /\ RunProofs!ControlInv
                      /\ PhisAreShortCircuits => RunProofs!PhiInv
    OBVIOUS
  <2>1. RunProofs!ProgramOK /\ RunProofs!RunInit
    BY DoneIsLinear, SameRun
  <2>2. RunProofs!ControlInv
    BY <2>1, RunProofs!RunInitControlInv
  <2>3. ASSUME PhisAreShortCircuits PROVE RunProofs!PhiInv
    <3>1. CorePart /\ ActionsOK /\ Supported(F) /\ WellFormed(F) /\ PhisUpTo(LastAction)
      BY DEF PassInv, MoveInv, Analysing, PassPart, OrderPart, CorePart
    <3>2. DOMAIN ActionBlocks = 1 .. LastAction
      BY <3>1, ActionsBranch
    <3>3. DOMAIN PredicatePhis = 1 .. LastAction
      BY <3>1 DEF PhisUpTo
    <3>4. ASSUME NEW i \in DOMAIN ActionBlocks
          PROVE  RunProofs!PhiMovesSoundly(F, ActionBlocks, i) /\ PredicatePhis[i] = F.phi[ActionBlocks[i]]
      <4> DEFINE phi == F.phi[ActionBlocks[i]]
      <4>1. PhiMovesSoundly(F, ActionBlocks, i)
        BY <2>3 DEF PhisAreShortCircuits
      <4>2. RunProofs!PhiMovesSoundly(F, ActionBlocks, i)
        BY <4>1 DEF PhiMovesSoundly, RunProofs!PhiMovesSoundly, Blocks, RunProofs!Blocks,
                    Successors, RunProofs!Successors
      <4>3. PredicatePhis[i] = MovedPhi(i)
        BY <3>1, <3>2 DEF PhisUpTo
      <4>4. phi \in Seq(Blocks(F))
        <5>1. ActionBlocks[i] \in Blocks(F)
          BY <3>1 DEF ActionsOK
        <5> QED BY <3>1, <5>1 DEF WellFormed
      <4>5. phi # <<>> => Len(phi) = 2
        BY <4>1 DEF PhiMovesSoundly
      <4>6. MovedPhi(i) = IF phi = <<>> THEN <<>> ELSE SubSeq(phi, 1, 2)
        BY DEF MovedPhi
      <4> HIDE DEF phi
      <4>7. phi # <<>> => SubSeq(phi, 1, 2) = phi
        BY <4>4, <4>5
      <4>8. PredicatePhis[i] = phi
        BY <4>3, <4>6, <4>7
      <4> QED BY <4>2, <4>8 DEF phi
    <3>5. RunProofs!PhisOK
      BY <3>2, <3>3, <3>4 DEF RunProofs!PhisOK, RunProofs!HasShortCircuitPhis
    <3> QED BY <2>1, <3>5, RunProofs!RunInitPhiInv
  <2> QED BY <2>2, <2>3
<1> QED BY <1>1, PTL

(* When the pass is done only the call takes steps. *)
LEMMA StepsWhenDone ==
  ASSUME [PFNext]_pfVars, phase = "done"
  PROVE  /\ phase' = "done" /\ UNCHANGED <<F, source, ActionBlocks>>
         /\ [RunProofs!PRNext]_(RunProofs!prVars)
<1>1. CASE CallPredicated
  <2>1. RunProofs!PRNext
    BY <1>1, SameRun DEF CallPredicated
  <2>2. UNCHANGED <<F, ActionBlocks>>
    BY <2>1 DEF RunProofs!PRNext, RunProofs!Call, RunProofs!StoreAndJump, RunProofs!PredicateHolds,
                RunProofs!PredicateFails, RunProofs!TakeLastPredicate, RunProofs!Enter,
                RunProofs!Return, RunProofs!program
  <2> QED BY <1>1, <2>1, <2>2 DEF CallPredicated
<1>2. CASE Predicate
  BY <1>2 DEF Predicate, BPNext, Analyze, PPANext, TraverseForAnalysis, StartNumbering, NumberBlock,
              FinishNumbering, Linearize, unifyFunctionExitNodes, StorePathID, StartOrdering,
              TraverseForOrder, insertPredicateBlocks, setActionBlocksSuccessors, SetPredicate,
              SetLastPredicate, movePhiNodeToPredicateBlock, Return
<1>3. CASE UNCHANGED pfVars
  BY <1>3 DEF pfVars, bpVars, passVars, callVars, RunProofs!prVars, RunProofs!program, RunProofs!runVars
<1> QED BY <1>1, <1>2, <1>3 DEF PFNext

(* Before the pass is done nothing is called. *)
LEMMA StepsBeforeDone ==
  ASSUME [PFNext]_pfVars, phase # "done"
  PROVE  UNCHANGED <<callVars, source>>
<1>1. CASE Predicate
  BY <1>1 DEF Predicate, BPNext, Analyze, Linearize, unifyFunctionExitNodes,
              StorePathID, StartOrdering, TraverseForOrder, insertPredicateBlocks,
              setActionBlocksSuccessors, SetPredicate, SetLastPredicate,
              movePhiNodeToPredicateBlock, Return
<1>2. CASE UNCHANGED pfVars
  BY <1>2 DEF pfVars, bpVars
<1> QED BY <1>1, <1>2 DEF PFNext, CallPredicated

LEMMA InitFunctionInv == PFInit => FunctionInv
<1> SUFFICES ASSUME PFInit PROVE FunctionInv
  OBVIOUS
<1>1. phase \in {"traversing", "analyzed"} /\ PredicatePhis = <<>> /\ Run!RunInit
  BY DEF PFInit, BPInit, PPAInit
<1> QED BY <1>1, InitPassInv DEF FunctionInv, MoveInv, CallInv

(* The entry block is the same before and after the exits are unified, and *)
(* a supported function is the same throughout.                            *)
LEMMA StepCallInv ==
  ASSUME FunctionInv, [PFNext]_pfVars, PassInv', MoveInv'
  PROVE  CallInv'
<1>1. CASE phase = "done"
  <2>1. /\ phase' = "done" /\ UNCHANGED <<F, source, ActionBlocks>>
        /\ [RunProofs!PRNext]_(RunProofs!prVars)
    BY <1>1, StepsWhenDone
  <2>2. ASSUME Supported(source) PROVE RunProofs!ControlInv /\ RunProofs!ControlInv'
    BY <1>1, <2>1, <2>2, RunProofs!NextKeepsControlInv DEF FunctionInv, CallInv
  <2>3. ASSUME Supported(source), PhisAreShortCircuits PROVE RunProofs!PhiInv'
    BY <1>1, <2>1, <2>2, <2>3, RunProofs!NextKeepsPhiInv DEF FunctionInv, CallInv
  <2>4. PhisAreShortCircuits' = PhisAreShortCircuits
    BY <2>1 DEF PhisAreShortCircuits
  <2> QED BY <2>1, <2>2, <2>3, <2>4 DEF CallInv
<1>2. CASE phase # "done"
  <2>1. UNCHANGED <<callVars, source>>
    BY <1>2, StepsBeforeDone
  <2>2. ASSUME Supported(source) PROVE Run!RunInit'
    <3>1. Run!RunInit
      BY <1>2, <2>2 DEF FunctionInv, CallInv
    <3>2. F = source /\ F' = source'
      BY <2>1, <2>2 DEF FunctionInv, PassInv, AnalysisPart, PassPart, CorePart
    <3> QED BY <2>1, <3>1, <3>2 DEF Run!RunInit, callVars, Run!Entry
  <2>3. ASSUME Supported(source), phase' = "done"
        PROVE  RunProofs!ControlInv' /\ (PhisAreShortCircuits => RunProofs!PhiInv)'
    BY <2>1, <2>2, <2>3, DoneStarts
  <2> QED BY <2>1, <2>2, <2>3 DEF CallInv
<1> QED BY <1>1, <1>2

LEMMA FunctionInvariance == PFSpec => []FunctionInv
<1>1. FunctionInv /\ [PFNext]_pfVars => FunctionInv'
  BY StepPassInv, StepMoveInv, StepCallInv DEF FunctionInv
<1> QED BY InitFunctionInv, <1>1, PTL DEF PFSpec

(* In a call of a supported function the original function is followed     *)
(* block by block.                                                         *)
FollowsOriginal ==
  /\ source = F /\ OriginalBlock = at
  /\ (IF Jumping THEN goal ELSE OriginalBlock) = goal
  /\ (CASE Jumping -> "jumping"
        [] pc \in {"idle", "returned"} -> pc
        [] OTHER -> "running") = RunProofs!StatusOf(pc)

LEMMA OriginalState == FunctionInv /\ phase = "done" /\ Supported(source) => FollowsOriginal
<1> SUFFICES ASSUME FunctionInv, phase = "done", Supported(source) PROVE FollowsOriginal
  OBVIOUS
<1>1. F = source
  BY DEF FunctionInv, PassInv, Analysing, PassPart, CorePart
<1>2. RunProofs!ControlInv
  BY DEF FunctionInv, CallInv
<1>3. at \in Blocks(F) /\ goal \in Blocks(F) /\ pc \in {"idle", "block", "predicate", "returned"}
  BY <1>2 DEF RunProofs!ControlInv, RunProofs!ControlTypeOK, RunProofs!Blocks, Blocks
<1>4. pc # "predicate" => goal = at
  BY <1>2 DEF RunProofs!ControlInv, RunProofs!AtBlock
<1>5. OriginalBlock = at /\ (Jumping <=> pc = "predicate")
  BY <1>1, <1>3 DEF OriginalBlock, Jumping
<1> QED BY <1>1, <1>3, <1>4, <1>5 DEF FollowsOriginal, RunProofs!StatusOf

LEMMA OriginalStateNext == (FunctionInv /\ phase = "done" /\ Supported(source) => FollowsOriginal)'
BY OriginalState, PTL

LEMMA StepIsOfOriginal ==
  ASSUME FunctionInv, FunctionInv', [PFNext]_pfVars, Supported(source)
  PROVE  [Original!Next]_(Original!vars)
<1>1. CASE phase # "done"
  <2>1. UNCHANGED <<callVars, source>>
    BY <1>1, StepsBeforeDone
  <2> QED BY <2>1 DEF Original!vars, callVars, OriginalBlock, Jumping
<1>2. CASE phase = "done"
  <2>1. phase' = "done" /\ source' = source /\ [RunProofs!PRNext]_(RunProofs!prVars)
    BY <1>2, StepsWhenDone
  <2>2. [RunProofs!Original!Next]_(RunProofs!Original!vars)
    BY <1>2, <2>1, RunProofs!StepIsOfOriginal DEF FunctionInv, CallInv
  <2>3. FollowsOriginal /\ FollowsOriginal'
    BY <1>2, <2>1, OriginalState, OriginalStateNext
  <2> QED BY <2>2, <2>3
          DEF FollowsOriginal,
              Original!Next, Original!vars, Original!Call, Original!Decide, Original!Jump,
              Original!EndAt, Original!Successors,
              RunProofs!Original!Next, RunProofs!Original!vars, RunProofs!Original!Call,
              RunProofs!Original!Decide, RunProofs!Original!Jump, RunProofs!Original!EndAt,
              RunProofs!Original!Successors
<1> QED BY <1>1, <1>2

(***************************************************************************)
(* Of every supported function the call of what the pass has made of it    *)
(* executes the blocks that the branches of the function decide on, one    *)
(* after the other, and nothing else: from the analysis to the return.     *)
(***************************************************************************)
THEOREM SupportedFollowsOriginal == PFSpec => OriginalSpec
<1>1. ASSUME PFInit, Supported(source) PROVE Original!Init
  <2>1. /\ source = F /\ F \in InputFunctions /\ pc = "idle"
        /\ at = Run!Entry(F) /\ goal = Run!Entry(F)
    BY <1>1 DEF PFInit, BPInit, PPAInit, Run!RunInit
  <2>2. at \in Blocks(source)
    BY <2>1, InputAssumption, WellFormedFacts DEF Run!Entry, Entry
  <2> QED BY <2>1, <2>2 DEF Original!Init, Original!Entry, Run!Entry, OriginalBlock, Jumping
<1>2. FunctionInv /\ FunctionInv' /\ [PFNext]_pfVars
        => [Supported(source) => [Original!Next]_(Original!vars)]_pfVars
  BY StepIsOfOriginal
<1> QED BY <1>1, <1>2, FunctionInvariance, PTL DEF PFSpec, OriginalSpec

(***************************************************************************)
(* A PHI node that merges a short-circuit evaluation has the value of the  *)
(* path taken in every call of what the pass makes of a supported          *)
(* function.                                                               *)
(***************************************************************************)
THEOREM SupportedPhiIsRight == PFSpec => []PhiHasValueOfPath
<1>1. FunctionInv => PhiHasValueOfPath
  <2> SUFFICES ASSUME FunctionInv, phase = "done", Supported(source), PhisAreShortCircuits
               PROVE  Run!PhiHasValueOfPath
    BY DEF PhiHasValueOfPath
  <2>1. RunProofs!PhiInv
    BY DEF FunctionInv, PassInv, CallInv
  <2> QED BY <2>1 DEF RunProofs!PhiInv, RunProofs!PhiHasValueOfPath, Run!PhiHasValueOfPath,
                      RunProofs!Entry, Run!Entry
<1> QED BY <1>1, FunctionInvariance, PTL

-----------------------------------------------------------------------------

(***************************************************************************)
(* Any function, supported or not.  The inductive invariant says what is   *)
(* known of the result without knowing in which order its blocks are: the  *)
(* lists are sequences, and the return block returns.  A predicate block   *)
(* leads to an action block that has been rewired or to the return block.  *)
(***************************************************************************)
ListsOK ==
  /\ \E S : PostOrder \in Seq(S)
  /\ \E S : ActionBlocks \in Seq(S)

ReturnBlockOK ==
  /\ ~Analysing => ReturnBlock = NullBlock \/ F.term[ReturnBlock] = "ret"
  /\ phase \in {"phis", "done"} => ReturnBlock # NullBlock

CallOK ==
  /\ phase # "done" => pc = "idle"
  /\ pc = "idle" => at = Entry(F)
  /\ pc = "predicate" => idx \in Nat \ {0}
  /\ OnlyRewiredBlocksRun

AnyInv == PassInv /\ ListsOK /\ ReturnBlockOK /\ CallOK

LEMMA RemovedFromSequence ==
  ASSUME NEW S, NEW s \in Seq(S), NEW k \in DOMAIN s
  PROVE  RemoveAt(s, k) \in Seq(S)
<1>1. Len(s) \in Nat /\ k \in 1 .. Len(s)
  OBVIOUS
<1>2. SubSeq(s, 1, k - 1) \in Seq(S) /\ SubSeq(s, k + 1, Len(s)) \in Seq(S)
  BY <1>1
<1> QED BY <1>2 DEF RemoveAt

LEMMA OrderIsSequence ==
  ASSUME NEW S, PostOrder \in Seq(S)
  PROVE  ExecutionOrder \in Seq(S)
<1>1. RPOT \in Seq(S)
  <2> PICK p : p = Len(PostOrder)
    OBVIOUS
  <2>1. p \in Nat /\ \A i \in 1 .. p : (p - i) + 1 \in 1 .. p /\ PostOrder[(p - i) + 1] \in S
    OBVIOUS
  <2>2. RPOT = [i \in 1 .. p |-> PostOrder[(p - i) + 1]]
    BY DEF RPOT, Reverse
  <2> QED BY <2>1, <2>2
<1>2. AllInOrder \in Seq(S)
  <2>1. CASE UnreachableBlock \in ToSet(RPOT)
    <3> DEFINE k == PositionOf(RPOT, UnreachableBlock)
    <3>1. k \in DOMAIN RPOT
      BY <2>1 DEF PositionOf, ToSet
    <3> HIDE DEF k
    <3>2. RemoveAt(RPOT, k) \in Seq(S)
      BY <1>1, <3>1, RemovedFromSequence
    <3> QED BY <2>1, <3>2 DEF AllInOrder, k
  <2>2. CASE UnreachableBlock \notin ToSet(RPOT)
    BY <1>1, <2>2 DEF AllInOrder
  <2> QED BY <2>1, <2>2
<1> QED BY <1>2 DEF ExecutionOrder

LEMMA StepListsOK ==
  ASSUME ListsOK, [PFNext]_pfVars
  PROVE  ListsOK'
<1>1. PICK S : PostOrder \in Seq(S)
  BY DEF ListsOK
<1>2. PICK A : ActionBlocks \in Seq(A)
  BY DEF ListsOK
<1>3. \E T : PostOrder' \in Seq(T)
  <2>1. CASE FinishBlock
    <3>1. PostOrder' = Append(PostOrder, Top.block)
      BY <2>1 DEF FinishBlock
    <3> PICK e : e = Top.block
      OBVIOUS
    <3>2. PostOrder \in Seq(S \cup {e})
      BY <1>1
    <3>3. PostOrder' \in Seq(S \cup {e})
      BY <3>1, <3>2
    <3> QED BY <3>3
  <2>2. CASE PostOrder' = <<>>
    BY <2>2
  <2>3. CASE PostOrder' = PostOrder
    BY <1>1, <2>3
  <2>4. FinishBlock \/ PostOrder' = <<>> \/ PostOrder' = PostOrder
    <3>1. CASE Predicate
      BY <3>1 DEF Predicate, BPNext, Analyze, PPANext, TraverseForAnalysis, StartNumbering, NumberBlock,
                  FinishNumbering, Linearize, unifyFunctionExitNodes, StorePathID, StartOrdering,
                  StartTraversal, TraverseForOrder, Traverse, SkipChild, EnterChild,
                  insertPredicateBlocks, setActionBlocksSuccessors, SetPredicate,
                  SetLastPredicate, movePhiNodeToPredicateBlock, Return, traversalVars
    <3>2. CASE CallPredicated
      BY <3>2 DEF CallPredicated, traversalVars
    <3>3. CASE UNCHANGED pfVars
      BY <3>3 DEF pfVars, bpVars, traversalVars
    <3> QED BY <3>1, <3>2, <3>3 DEF PFNext
  <2> QED BY <2>1, <2>2, <2>3, <2>4
<1>4. \E T : ActionBlocks' \in Seq(T)
  <2>1. CASE insertPredicateBlocks
    <3>1. ActionBlocks' = ExecutionOrder
      BY <2>1 DEF insertPredicateBlocks
    <3> QED BY <1>1, <3>1, OrderIsSequence
  <2>2. CASE ActionBlocks' = ActionBlocks
    BY <1>2, <2>2
  <2>3. insertPredicateBlocks \/ ActionBlocks' = ActionBlocks
    <3>1. CASE Predicate
      BY <3>1 DEF Predicate, BPNext, Analyze, Linearize, unifyFunctionExitNodes, StorePathID,
                  StartOrdering, TraverseForOrder, setActionBlocksSuccessors, SetPredicate,
                  SetLastPredicate, movePhiNodeToPredicateBlock, Return, passVars
    <3>2. CASE CallPredicated
      BY <3>2 DEF CallPredicated, Run!PRNext, Run!Call, Run!StoreAndJump, Run!PredicateHolds,
                  Run!PredicateFails, Run!TakeLastPredicate, Run!Enter, Run!Return, Run!program
    <3>3. CASE UNCHANGED pfVars
      BY <3>3 DEF pfVars, bpVars, passVars
    <3> QED BY <3>1, <3>2, <3>3 DEF PFNext
  <2> QED BY <2>1, <2>2, <2>3
<1> QED BY <1>3, <1>4 DEF ListsOK

(* Unifying the exits of any function keeps its entry block.               *)
LEMMA UnifyKeepsEntry ==
  ASSUME NEW f, f.layout \in Seq(Blocks(f)), f.layout # <<>>
  PROVE  Entry(UnifyReturns(UnifyUnreachable(f))) = Entry(f)
<1> DEFINE IsKept(g) == \E S : g.layout \in Seq(S) /\ g.layout # <<>> /\ Entry(g) = Entry(f)
<1>1. ASSUME NEW g, IsKept(g), NEW from, NEW to, NEW kind, NEW incoming
      PROVE  IsKept(Redirect(g, from, to, kind, incoming))
  <2>1. PICK S : g.layout \in Seq(S) /\ g.layout # <<>> /\ Entry(g) = Entry(f)
    BY <1>1
  <2>2. Redirect(g, from, to, kind, incoming).layout = Append(g.layout, to)
    BY DEF Redirect
  <2> PICK list : list = g.layout
    OBVIOUS
  <2>3. list \in Seq(S \cup {to}) /\ list # <<>>
    BY <2>1
  <2>4. Append(list, to) \in Seq(S \cup {to}) /\ Append(list, to) # <<>> /\ Append(list, to)[1] = list[1]
    BY <2>3
  <2> QED BY <2>1, <2>2, <2>4 DEF Entry
<1>2. IsKept(f)
  OBVIOUS
<1>3. ASSUME NEW g, IsKept(g) PROVE IsKept(UnifyUnreachable(g)) /\ IsKept(UnifyReturns(g))
  <2> HIDE DEF IsKept
  <2> QED BY <1>1, <1>3 DEF UnifyUnreachable, UnifyReturns
<1>4. IsKept(UnifyReturns(UnifyUnreachable(f)))
  <2> HIDE DEF IsKept
  <2> QED BY <1>2, <1>3
<1> QED BY <1>4

LEMMA InitAnyInv == PFInit => AnyInv
<1> SUFFICES ASSUME PFInit PROVE AnyInv
  OBVIOUS
<1>1. /\ phase \in {"traversing", "analyzed"} /\ PostOrder = <<>> /\ ActionBlocks = <<>>
      /\ pc = "idle" /\ at = Entry(F)
  BY DEF PFInit, BPInit, PPAInit, Run!RunInit, Run!Entry, Entry
<1>2. ListsOK
  <2>1. <<>> \in Seq({})
    OBVIOUS
  <2> QED BY <1>1, <2>1 DEF ListsOK
<1>3. ReturnBlockOK /\ CallOK
  BY <1>1 DEF ReturnBlockOK, CallOK, Analysing, OnlyRewiredBlocksRun
<1> QED BY <1>2, <1>3, InitPassInv DEF AnyInv

LEMMA StepReturnBlockOK ==
  ASSUME AnyInv, [PFNext]_pfVars
  PROVE  ReturnBlockOK'
<1>1. CASE unifyFunctionExitNodes
  <2>1. ReturnBlock' = TheBlockEndingWith(F', "ret") /\ phase' = "storing"
    BY <1>1 DEF unifyFunctionExitNodes
  <2>2. ReturnBlock' = NullBlock \/ ReturnBlock' \in BlocksEndingWith(F', "ret")
    BY <2>1 DEF TheBlockEndingWith
  <2> QED BY <2>1, <2>2 DEF ReturnBlockOK, BlocksEndingWith
<1>2. CASE SetLastPredicate
  BY <1>2 DEF SetLastPredicate, passVars, AnyInv, ReturnBlockOK, Analysing
<1>3. CASE Analyze
  <2>1. Analysing'
    BY <1>3 DEF Analyze, PPANext, TraverseForAnalysis, StartNumbering, NumberBlock, FinishNumbering,
                Analysing
  <2> QED BY <2>1 DEF ReturnBlockOK, Analysing
<1>4. CASE \/ StorePathID \/ StartOrdering \/ TraverseForOrder \/ insertPredicateBlocks
           \/ setActionBlocksSuccessors \/ SetPredicate
  <2>1. /\ UNCHANGED <<F, ReturnBlock>>
        /\ ~Analysing /\ phase' \notin {"phis", "done"}
    BY <1>4 DEF StorePathID, setPathIDCondition, Abort, StartOrdering, TraverseForOrder,
                insertPredicateBlocks, setActionBlocksSuccessors, SetPredicate, passVars, Analysing
  <2> QED BY <2>1 DEF AnyInv, ReturnBlockOK
<1>5. CASE movePhiNodeToPredicateBlock \/ Return
  BY <1>5 DEF movePhiNodeToPredicateBlock, Abort, Return, passVars, AnyInv, ReturnBlockOK, Analysing
<1>6. CASE CallPredicated
  <2>1. UNCHANGED <<F, ReturnBlock, phase>>
    BY <1>6 DEF CallPredicated, Run!PRNext, Run!Call, Run!StoreAndJump, Run!PredicateHolds,
                Run!PredicateFails, Run!TakeLastPredicate, Run!Enter, Run!Return, Run!program
  <2> QED BY <2>1 DEF AnyInv, ReturnBlockOK, Analysing
<1>7. CASE UNCHANGED pfVars
  BY <1>7 DEF pfVars, bpVars, passVars, AnyInv, ReturnBlockOK, Analysing
<1> QED BY <1>1, <1>2, <1>3, <1>4, <1>5, <1>6, <1>7 DEF PFNext, Predicate, BPNext, Linearize

LEMMA StepCallOK ==
  ASSUME AnyInv, [PFNext]_pfVars
  PROVE  CallOK'
<1>1. PICK S : ActionBlocks \in Seq(S)
  BY DEF AnyInv, ListsOK
<1>2. CASE phase # "done"
  <2>1. UNCHANGED callVars
    BY <1>2, StepsBeforeDone
  <2>2. Entry(F') = Entry(F)
    <3>1. CASE unifyFunctionExitNodes
      <4>1. F' = UnifyReturns(UnifyUnreachable(F)) /\ phase = "analyzed"
        BY <3>1 DEF unifyFunctionExitNodes
      <4>2. WellFormed(F)
        BY <4>1 DEF AnyInv, PassInv, Analysing, AnalysisPart, SearchOK, TraversalInv, StackTypeOK
      <4> QED BY <4>1, <4>2, UnifyKeepsEntry DEF WellFormed
    <3>2. CASE ~unifyFunctionExitNodes
      <4>1. F' = F
        BY <1>2, <3>2
           DEF PFNext, Predicate, BPNext, Analyze, PPANext, TraverseForAnalysis, StartNumbering,
               NumberBlock, FinishNumbering, Linearize, StorePathID, StartOrdering,
               TraverseForOrder, insertPredicateBlocks, setActionBlocksSuccessors, SetPredicate,
               SetLastPredicate, movePhiNodeToPredicateBlock, Return, CallPredicated, pfVars, bpVars
      <4> QED BY <4>1
    <3> QED BY <3>1, <3>2
  <2> QED BY <1>2, <2>1, <2>2 DEF AnyInv, CallOK, callVars, OnlyRewiredBlocksRun
<1>3. CASE phase = "done"
  <2>1. phase' = "done"
    BY <1>3, StepsWhenDone
  <2>2. ReturnBlock # NullBlock /\ F.term[ReturnBlock] = "ret"
    BY <1>3 DEF AnyInv, ReturnBlockOK, Analysing
  <2> USE DEF AnyInv, CallOK, OnlyRewiredBlocksRun, Run!program
  <2>3. CASE UNCHANGED pfVars
    BY <1>3, <2>3 DEF pfVars, bpVars, passVars, callVars, Run!IsRewired, Run!LastPredicate, Run!Entry
  <2>4. CASE CallPredicated
    <3>1. CASE Run!Call
      BY <2>1, <3>1 DEF Run!Call, Run!IsRewired, Run!Entry, Entry
    <3>2. CASE Run!StoreAndJump
      <4>1. /\ pc' = "predicate" /\ idx' = Run!PlaceOf(F, ActionBlocks, at) + 1
            /\ Run!IsRewired(at)
        BY <3>2 DEF Run!StoreAndJump, Run!PredicateAfter
      <4>2. Run!PlaceOf(F, ActionBlocks, at) \in Nat
        <5>1. CASE at = Run!Entry(F)
          BY <5>1 DEF Run!PlaceOf
        <5>2. CASE at # Run!Entry(F)
          <6>1. PICK i \in 1 .. Len(ActionBlocks) - 1 : ActionBlocks[i] = at
            BY <4>1, <5>2 DEF Run!IsRewired, Run!LastPredicate
          <6>2. i \in DOMAIN ActionBlocks /\ DOMAIN ActionBlocks \subseteq Nat
            BY <1>1
          <6>3. Run!PositionOf(ActionBlocks, at) \in DOMAIN ActionBlocks
            BY <6>1, <6>2 DEF Run!PositionOf
          <6> QED BY <5>2, <6>2, <6>3 DEF Run!PlaceOf
        <5> QED BY <5>1, <5>2
      <4> QED BY <2>1, <4>1, <4>2
    <3>3. CASE Run!PredicateHolds
      <4>1. /\ pc = "predicate" /\ pc' = "block" /\ at' = ActionBlocks[idx]
            /\ idx < Len(ActionBlocks) /\ UNCHANGED <<F, ActionBlocks>>
        BY <3>3 DEF Run!PredicateHolds, Run!Enter, Run!LastPredicate
      <4>2. idx \in 1 .. Len(ActionBlocks) - 1
        BY <1>1, <4>1
      <4>3. Run!IsRewired(at)'
        BY <4>1, <4>2 DEF Run!IsRewired, Run!LastPredicate
      <4> QED BY <2>1, <4>1, <4>3
    <3>4. CASE Run!PredicateFails
      <4>1. pc = "predicate" /\ pc' = "predicate" /\ idx' = idx + 1
        BY <3>4 DEF Run!PredicateFails, Run!NextPredicate
      <4> QED BY <2>1, <4>1
    <3>5. CASE Run!TakeLastPredicate
      <4>1. pc' = "block" /\ at' = ReturnBlock /\ UNCHANGED <<F, ReturnBlock>>
        BY <3>5 DEF Run!TakeLastPredicate, Run!Enter, Run!FinalTarget
      <4> QED BY <2>1, <2>2, <4>1
    <3>6. CASE Run!Return
      BY <2>1, <3>6 DEF Run!Return
    <3> QED BY <2>4, <3>1, <3>2, <3>3, <3>4, <3>5, <3>6 DEF CallPredicated, Run!PRNext
  <2>5. CASE Predicate
    BY <1>3, <2>5
       DEF Predicate, BPNext, Analyze, PPANext, TraverseForAnalysis, StartNumbering, NumberBlock,
           FinishNumbering, Linearize, unifyFunctionExitNodes, StorePathID, StartOrdering,
           TraverseForOrder, insertPredicateBlocks, setActionBlocksSuccessors, SetPredicate,
           SetLastPredicate, movePhiNodeToPredicateBlock, Return
  <2> QED BY <2>3, <2>4, <2>5 DEF PFNext
<1> QED BY <1>2, <1>3

(***************************************************************************)
(* Whatever the function the pass was given, a call of the result stays in *)
(* the chain of predicate blocks: every block that is executed has been    *)
(* rewired to the next predicate block, or is the return block.            *)
(***************************************************************************)
THEOREM OnlyRewiredRun == PFSpec => []OnlyRewiredBlocksRun
<1>1. AnyInv /\ [PFNext]_pfVars => AnyInv'
  BY StepPassInv, StepListsOK, StepReturnBlockOK, StepCallOK DEF AnyInv
<1>2. AnyInv => OnlyRewiredBlocksRun
  BY DEF AnyInv, CallOK
<1> QED BY InitAnyInv, <1>1, <1>2, PTL DEF PFSpec
=============================================================================
