------------------------ MODULE BatchedFunctionProofs ------------------------
(***************************************************************************)
(* For functions of any size and batches of any size: if the batch maker   *)
(* supports a function, its batched form implements the loop over packets. *)
(* Of any other function: what the pass leaves is well formed if there is  *)
(* one return, cannot be called if there is not, and keeps the packets of  *)
(* a batch that is not empty in order.                                     *)
(***************************************************************************)
EXTENDS BatchedFunction, WellFoundedInduction, FiniteSetTheorems, TLAPS

(* A set of natural numbers has a least element. *)
LEMMA SmallestElement ==
  ASSUME NEW S \in SUBSET Nat, S # {}
  PROVE  \E i \in S : \A k \in S : i <= k
<1> DEFINE R == OpToRel(<, Nat)
<1>1. IsWellFoundedOn(R, Nat)
  BY NatLessThanWellFounded
<1>2. \A i, k \in Nat : <<k, i>> \in R <=> k < i
  BY DEF OpToRel
<1> HIDE DEF R
<1>3. PICK i \in S : \A k \in S : ~(<<k, i>> \in R)
  BY <1>1, WFMin
<1>4. ASSUME NEW k \in S PROVE i <= k
  <2>1. i \in Nat /\ k \in Nat
    OBVIOUS
  <2>2. ~(k < i)
    BY <1>2, <1>3, <2>1
  <2> QED BY <2>1, <2>2
<1> QED BY <1>4

LEMMA EntryIsBlock ==
  ASSUME NEW f, WellFormed(f) PROVE Entry(f) \in Blocks(f)
<1>1. f.layout \in Seq(Blocks(f)) /\ f.layout # <<>>
  BY DEF WellFormed
<1> QED BY <1>1 DEF Entry

(* What the edits of a flow graph keep of its layout. *)
LaidOut(g) ==
  /\ g.layout \in Seq(Blocks(g))
  /\ g.layout # <<>>
  /\ \A b \in Blocks(g) : \E k \in DOMAIN g.layout : g.layout[k] = b

(* A graph has the fields of a function, and no other. *)
IsGraph(g) ==
  /\ g = [layout |-> g.layout, succ |-> g.succ, term |-> g.term, phi |-> g.phi, isVoid |-> g.isVoid]
  /\ g.succ = [x \in Blocks(g) |-> g.succ[x]]

(* A block that is inserted after the first place moves no block to or     *)
(* from the entry, and loses none.                                         *)
LEMMA InsertKeepsLayout ==
  ASSUME NEW S, NEW s \in Seq(S), s # <<>>, NEW e,
         NEW p \in 2 .. Len(s) + 1
  PROVE  /\ InsertAt(s, p, e) \in Seq(S \cup {e})
         /\ InsertAt(s, p, e) # <<>>
         /\ InsertAt(s, p, e)[1] = s[1]
         /\ \E k \in DOMAIN InsertAt(s, p, e) : InsertAt(s, p, e)[k] = e
         /\ \A j \in DOMAIN s : \E k \in DOMAIN InsertAt(s, p, e) : InsertAt(s, p, e)[k] = s[j]
<1> DEFINE a == SubSeq(s, 1, p - 1)
           z == SubSeq(s, p, Len(s))
           t == InsertAt(s, p, e)
<1>1. Len(s) \in Nat /\ Len(s) >= 1
  OBVIOUS
<1>2. /\ a \in Seq(S) /\ Len(a) = p - 1
      /\ \A k \in 1 .. p - 1 : a[k] = s[k]
  BY <1>1
<1>3. /\ z \in Seq(S) /\ Len(z) = Len(s) - p + 1
      /\ \A k \in 1 .. Len(z) : z[k] = s[p + k - 1]
  BY <1>1
<1>4. t = (a \o <<e>>) \o z
  BY DEF InsertAt
<1>5. a \in Seq(S \cup {e}) /\ z \in Seq(S \cup {e}) /\ <<e>> \in Seq(S \cup {e})
  BY <1>2, <1>3
<1>6. /\ a \o <<e>> \in Seq(S \cup {e})
      /\ Len(a \o <<e>>) = p
      /\ \A k \in 1 .. p - 1 : (a \o <<e>>)[k] = s[k]
      /\ (a \o <<e>>)[p] = e
  BY <1>1, <1>2, <1>5
<1>7. t \in Seq(S \cup {e}) /\ Len(t) = Len(s) + 1
  BY <1>1, <1>3, <1>4, <1>5, <1>6
<1>8. /\ \A k \in 1 .. p : t[k] = (a \o <<e>>)[k]
      /\ \A k \in 1 .. Len(z) : t[p + k] = z[k]
  <2> DEFINE u == a \o <<e>>
  <2>1. u \in Seq(S \cup {e}) /\ Len(u) = p
    BY <1>6
  <2>2. t = u \o z
    BY <1>4
  <2> HIDE DEF a, z, t, u
  <2>3. \A k \in 1 .. Len(u) + Len(z) : t[k] = IF k <= Len(u) THEN u[k] ELSE z[k - Len(u)]
    BY <1>5, <2>1, <2>2
  <2>4. \A k \in 1 .. p : t[k] = u[k]
    BY <1>1, <1>3, <2>1, <2>3
  <2>5. ASSUME NEW k \in 1 .. Len(z) PROVE t[p + k] = z[k]
    <3>1. p + k \in 1 .. Len(u) + Len(z) /\ ~(p + k <= Len(u)) /\ p + k - Len(u) = k
      BY <1>1, <1>3, <2>1
    <3> QED BY <2>3, <3>1
  <2> QED BY <2>4, <2>5 DEF u
<1>9. t[1] = s[1] /\ t[p] = e /\ p \in DOMAIN t
  <2>1. 1 \in 1 .. p - 1 /\ 1 \in 1 .. p /\ p \in 1 .. p /\ p \in 1 .. Len(s) + 1
    BY <1>1
  <2> DEFINE u == a \o <<e>>
  <2>2. /\ \A k \in 1 .. p - 1 : u[k] = s[k]
        /\ u[p] = e
        /\ \A k \in 1 .. p : t[k] = u[k]
    BY <1>6, <1>8
  <2>3. DOMAIN t = 1 .. Len(s) + 1
    BY <1>1, <1>7
  <2> HIDE DEF t, u
  <2> QED BY <2>1, <2>2, <2>3
<1>10. ASSUME NEW j \in DOMAIN s PROVE \E k \in DOMAIN t : t[k] = s[j]
  <2>1. CASE j < p
    BY <1>1, <1>6, <1>7, <1>8, <2>1
  <2>2. CASE j >= p
    <3>1. j - p + 1 \in 1 .. Len(z) /\ j + 1 \in DOMAIN t
      BY <1>1, <1>3, <1>7, <2>2
    <3>2. t[p + (j - p + 1)] = z[j - p + 1] /\ z[j - p + 1] = s[p + (j - p + 1) - 1]
      BY <1>3, <1>8, <3>1
    <3>3. p + (j - p + 1) = j + 1 /\ p + (j - p + 1) - 1 = j
      BY <1>1
    <3> QED BY <3>1, <3>2, <3>3
  <2> QED BY <1>1, <2>1, <2>2
<1> QED BY <1>7, <1>9, <1>10

LEMMA InsertedBlockIsLaidOut ==
  ASSUME NEW f, LaidOut(f), NEW g, NEW new, NEW p \in 2 .. Len(f.layout) + 1,
         g.layout = InsertAt(f.layout, p, new),
         Blocks(g) = Blocks(f) \cup {new}
  PROVE  LaidOut(g) /\ Entry(g) = Entry(f)
<1> DEFINE s == f.layout
           t == g.layout
<1>1. s \in Seq(Blocks(f)) /\ s # <<>>
  BY DEF LaidOut
<1>2. /\ t \in Seq(Blocks(f) \cup {new})
      /\ t # <<>>
      /\ t[1] = s[1]
      /\ \E k \in DOMAIN t : t[k] = new
      /\ \A j \in DOMAIN s : \E k \in DOMAIN t : t[k] = s[j]
  <2> DEFINE S == Blocks(f)
  <2>1. t = InsertAt(s, p, new) /\ p \in 2 .. Len(s) + 1
    OBVIOUS
  <2> HIDE DEF s, t, S
  <2> QED BY <1>1, <2>1, InsertKeepsLayout DEF S
<1>3. ASSUME NEW b \in Blocks(g) PROVE \E k \in DOMAIN t : t[k] = b
  BY <1>2 DEF LaidOut
<1> QED BY <1>2, <1>3 DEF LaidOut, Entry

(* A block that is not the entry is not at the first place. *)
LEMMA PlaceOfOtherBlock ==
  ASSUME NEW f, LaidOut(f), NEW b \in Blocks(f)
  PROVE  /\ PositionOf(f.layout, b) \in 1 .. Len(f.layout)
         /\ b # Entry(f) => PositionOf(f.layout, b) \in 2 .. Len(f.layout) + 1
<1>1. f.layout \in Seq(Blocks(f))
  BY DEF LaidOut
<1>2. PositionOf(f.layout, b) \in DOMAIN f.layout /\ f.layout[PositionOf(f.layout, b)] = b
  BY DEF LaidOut, PositionOf
<1> QED BY <1>1, <1>2 DEF Entry

LEMMA SplitShape ==
  ASSUME NEW f, LaidOut(f), NEW b \in Blocks(f), NEW tail, tail \notin Blocks(f),
         NEW g, g = SplitBlock(f, b, tail)
  PROVE  /\ LaidOut(g) /\ IsGraph(g)
         /\ Entry(g) = Entry(f)
         /\ Blocks(g) = Blocks(f) \cup {tail}
         /\ \A x \in Blocks(f) \cup {tail} : g.succ[x] =
                        (IF x = b THEN <<tail>> ELSE IF x = tail THEN f.succ[b] ELSE f.succ[x])
         /\ \A x \in Blocks(f) \cup {tail} : g.term[x] =
                        (IF x = b THEN "br" ELSE IF x = tail THEN f.term[b] ELSE f.term[x])
<1> DEFINE p == PositionOf(f.layout, b)
<1>1. p \in 1 .. Len(f.layout)
  BY PlaceOfOtherBlock
<1>2. p + 1 \in 2 .. Len(f.layout) + 1
  BY <1>1 DEF LaidOut
<1>3. /\ Blocks(g) = Blocks(f) \cup {tail}
      /\ g.layout = InsertAt(f.layout, p + 1, tail)
  BY DEF SplitBlock, Blocks
<1>4. LaidOut(g) /\ Entry(g) = Entry(f)
  BY <1>2, <1>3, InsertedBlockIsLaidOut
<1>5. /\ \A x \in Blocks(f) \cup {tail} : g.succ[x] =
                     (IF x = b THEN <<tail>> ELSE IF x = tail THEN f.succ[b] ELSE f.succ[x])
      /\ \A x \in Blocks(f) \cup {tail} : g.term[x] =
                     (IF x = b THEN "br" ELSE IF x = tail THEN f.term[b] ELSE f.term[x])
  BY DEF SplitBlock
<1>6. IsGraph(g)
  BY DEF SplitBlock, IsGraph, Blocks
<1> QED BY <1>3, <1>4, <1>5, <1>6

LEMMA BlockBeforeShape ==
  ASSUME NEW f, LaidOut(f), NEW new, new \notin Blocks(f),
         NEW next \in Blocks(f), next # Entry(f), NEW kind, NEW succ,
         NEW g, g = BlockBefore(f, new, next, kind, succ)
  PROVE  /\ LaidOut(g) /\ IsGraph(g)
         /\ Entry(g) = Entry(f)
         /\ Blocks(g) = Blocks(f) \cup {new}
         /\ \A x \in Blocks(f) \cup {new} : g.succ[x] = (IF x = new THEN succ ELSE f.succ[x])
         /\ \A x \in Blocks(f) \cup {new} : g.term[x] = (IF x = new THEN kind ELSE f.term[x])
<1> DEFINE p == PositionOf(f.layout, next)
<1>1. p \in 2 .. Len(f.layout) + 1
  BY PlaceOfOtherBlock
<1>2. /\ Blocks(g) = Blocks(f) \cup {new}
      /\ g.layout = InsertAt(f.layout, p, new)
      /\ \A x \in Blocks(f) \cup {new} : g.succ[x] = (IF x = new THEN succ ELSE f.succ[x])
      /\ \A x \in Blocks(f) \cup {new} : g.term[x] = (IF x = new THEN kind ELSE f.term[x])
  BY DEF BlockBefore, WithBlock, Blocks
<1>3. LaidOut(g) /\ Entry(g) = Entry(f)
  BY <1>1, <1>2, InsertedBlockIsLaidOut
<1>4. IsGraph(g)
  BY DEF BlockBefore, WithBlock, IsGraph, Blocks
<1> QED BY <1>2, <1>3, <1>4

(* The first successor of a block is replaced. *)
LEMMA SetSuccessorShape ==
  ASSUME NEW f, LaidOut(f), IsGraph(f), NEW b \in Blocks(f), NEW s, NEW successors,
         successors = [f.succ[b] EXCEPT ![1] = s],
         NEW g, g = SetSuccessor(f, b, 1, s)
  PROVE  /\ LaidOut(g) /\ IsGraph(g)
         /\ Entry(g) = Entry(f)
         /\ Blocks(g) = Blocks(f)
         /\ g.term = f.term
         /\ \A x \in Blocks(f) : g.succ[x] = (IF x = b THEN successors ELSE f.succ[x])
<1>1. /\ g.layout = f.layout /\ g.term = f.term
      /\ g.succ = [f.succ EXCEPT ![b] = [f.succ[b] EXCEPT ![1] = s]]
      /\ g = [layout |-> g.layout, succ |-> g.succ, term |-> g.term, phi |-> g.phi, isVoid |-> g.isVoid]
  BY DEF SetSuccessor, IsGraph
<1>2. g.succ = [x \in Blocks(f) |-> IF x = b THEN successors ELSE f.succ[x]]
  BY <1>1 DEF IsGraph
<1>3. Blocks(g) = Blocks(f)
  BY <1>2 DEF Blocks
<1>4. IsGraph(g)
  BY <1>1, <1>2, <1>3 DEF IsGraph
<1> QED BY <1>1, <1>2, <1>3, <1>4 DEF LaidOut, Entry

-----------------------------------------------------------------------------
(* The function at the stages of the pass. *)

Unified(f, R) == SplitBlock(Clone(f), R, ExitBlock)

Marked(f, R, m) == SplitBlock(Unified(f, R), m, TasBlock)

Looped(f, R, m) == addEmptyLoop(Marked(f, R, m), m, ExitBlock)

(* The block that stores the result. *)
StoringBlock(R, m) == IF R = m THEN TasBlock ELSE R

Batched(f, R, m) == setLoopBody(Looped(f, R, m), TasBlock, StoringBlock(R, m))

IsNew(f) == Blocks(f) \cap (CreatedBlocks \cup {NullBlock}) = {}

CodeBlocks(f) == Blocks(f) \cup {ExitBlock, TasBlock}

LEMMA MarkedShape ==
  ASSUME NEW f \in BatchInputs, NEW R \in Blocks(f), f.term[R] = "ret", NEW m \in Blocks(f),
         NEW g, g = Marked(f, R, m)
  PROVE  /\ LaidOut(g) /\ IsGraph(g)
         /\ Entry(g) = Entry(f)
         /\ Blocks(g) = CodeBlocks(f)
         /\ \A x \in CodeBlocks(f) : g.succ[x] =
                        (IF x = ExitBlock THEN <<>>
                          ELSE IF x = m THEN <<TasBlock>>
                          ELSE IF x = TasBlock THEN (IF m = R THEN <<ExitBlock>> ELSE f.succ[m])
                          ELSE IF x = R THEN <<ExitBlock>> ELSE f.succ[x])
         /\ \A x \in CodeBlocks(f) : g.term[x] =
                        (IF x = ExitBlock THEN "ret"
                          ELSE IF x = m THEN "br"
                          ELSE IF x = TasBlock THEN (IF m = R THEN "br" ELSE f.term[m])
                          ELSE IF x = R THEN "br" ELSE f.term[x])
<1> DEFINE c == Clone(f)
           u == Unified(f, R)
<1>1. /\ WellFormed(f) /\ IsNew(f)
      /\ ExitBlock \notin Blocks(f) /\ TasBlock \notin Blocks(f) /\ ExitBlock # TasBlock
  BY BatchInputAssumption, CreatedBlockAssumption DEF IsNew, CreatedBlocks
<1>2. LaidOut(c) /\ Entry(c) = Entry(f) /\ Blocks(c) = Blocks(f) /\ c.succ = f.succ /\ c.term = f.term
  BY <1>1 DEF Clone, LaidOut, WellFormed, Blocks, Entry
<1>3. f.succ[R] = <<>>
  BY <1>1 DEF WellFormed, SuccSize
<1>4. /\ LaidOut(u)
      /\ Entry(u) = Entry(f)
      /\ Blocks(u) = Blocks(f) \cup {ExitBlock}
      /\ \A x \in Blocks(f) \cup {ExitBlock} : u.succ[x] =
                     (IF x = R THEN <<ExitBlock>> ELSE IF x = ExitBlock THEN f.succ[R] ELSE f.succ[x])
      /\ \A x \in Blocks(f) \cup {ExitBlock} : u.term[x] =
                     (IF x = R THEN "br" ELSE IF x = ExitBlock THEN f.term[R] ELSE f.term[x])
  BY <1>1, <1>2, SplitShape DEF Unified
<1>5. /\ LaidOut(g) /\ IsGraph(g)
      /\ Entry(g) = Entry(u)
      /\ Blocks(g) = Blocks(u) \cup {TasBlock}
      /\ \A x \in Blocks(u) \cup {TasBlock} : g.succ[x] =
                     (IF x = m THEN <<TasBlock>> ELSE IF x = TasBlock THEN u.succ[m] ELSE u.succ[x])
      /\ \A x \in Blocks(u) \cup {TasBlock} : g.term[x] =
                     (IF x = m THEN "br" ELSE IF x = TasBlock THEN u.term[m] ELSE u.term[x])
  <2>1. m \in Blocks(u) /\ TasBlock \notin Blocks(u)
    BY <1>1, <1>4
  <2>2. g = SplitBlock(u, m, TasBlock)
    BY DEF Marked
  <2> HIDE DEF u
  <2> QED BY <1>4, <2>1, <2>2, SplitShape
<1>6. Blocks(u) \cup {TasBlock} = CodeBlocks(f)
  BY <1>4 DEF CodeBlocks
<1> HIDE DEF c, u
<1>7. \A x \in CodeBlocks(f) : g.succ[x] =
                 (IF x = ExitBlock THEN <<>>
                   ELSE IF x = m THEN <<TasBlock>>
                   ELSE IF x = TasBlock THEN (IF m = R THEN <<ExitBlock>> ELSE f.succ[m])
                   ELSE IF x = R THEN <<ExitBlock>> ELSE f.succ[x])
  BY <1>1, <1>3, <1>4, <1>5, <1>6 DEF CodeBlocks
<1>8. \A x \in CodeBlocks(f) : g.term[x] =
                 (IF x = ExitBlock THEN "ret"
                   ELSE IF x = m THEN "br"
                   ELSE IF x = TasBlock THEN (IF m = R THEN "br" ELSE f.term[m])
                   ELSE IF x = R THEN "br" ELSE f.term[x])
  BY <1>1, <1>4, <1>5, <1>6 DEF CodeBlocks
<1> QED BY <1>4, <1>5, <1>6, <1>7, <1>8

(* Only the block that stores the result comes to the exit. *)
LEMMA OneEdgeToExit ==
  ASSUME NEW f \in BatchInputs, NEW R \in Blocks(f), getReturnInstList(f) = {R}, NEW m \in Blocks(f)
  PROVE  IncomingEdges(Marked(f, R, m), ExitBlock) = {<<StoringBlock(R, m), 1>>}
<1> DEFINE g == Marked(f, R, m)
<1>1. /\ WellFormed(f)
      /\ ExitBlock \notin Blocks(f) /\ TasBlock \notin Blocks(f) /\ ExitBlock # TasBlock
  BY BatchInputAssumption, CreatedBlockAssumption DEF CreatedBlocks
<1>2. f.term[R] = "ret"
  BY DEF getReturnInstList
<1>3. /\ Blocks(g) = CodeBlocks(f)
      /\ \A x \in CodeBlocks(f) : g.succ[x] =
            (IF x = ExitBlock THEN <<>>
               ELSE IF x = m THEN <<TasBlock>>
               ELSE IF x = TasBlock THEN (IF m = R THEN <<ExitBlock>> ELSE f.succ[m])
               ELSE IF x = R THEN <<ExitBlock>> ELSE f.succ[x])
  <2>1. g = Marked(f, R, m)
    OBVIOUS
  <2> HIDE DEF g
  <2> QED BY <1>2, <2>1, MarkedShape
<1> HIDE DEF g
<1>4. ASSUME NEW x \in Blocks(f), NEW k \in DOMAIN f.succ[x]
      PROVE  f.succ[x][k] # ExitBlock
  BY <1>1 DEF WellFormed
<1>5. StoringBlock(R, m) \in CodeBlocks(f) /\ g.succ[StoringBlock(R, m)] = <<ExitBlock>>
  BY <1>1, <1>3 DEF StoringBlock, CodeBlocks
<1>6. ASSUME NEW x \in CodeBlocks(f), NEW k \in DOMAIN g.succ[x], g.succ[x][k] = ExitBlock
      PROVE  x = StoringBlock(R, m) /\ k = 1
  <2>1. CASE x = ExitBlock
    BY <1>3, <1>6, <2>1
  <2>2. CASE x = m
    BY <1>1, <1>3, <1>6, <2>2
  <2>3. CASE x = TasBlock
    <3>1. CASE m = R
      BY <1>1, <1>3, <1>6, <2>3, <3>1 DEF StoringBlock
    <3>2. CASE m # R
      <4>1. g.succ[x] = f.succ[m]
        BY <1>1, <1>3, <2>3, <3>2
      <4> QED BY <1>4, <1>6, <4>1
    <3> QED BY <3>1, <3>2
  <2>4. CASE x \in Blocks(f) /\ x # m
    <3>1. CASE x = R
      BY <1>1, <1>3, <1>6, <2>4, <3>1 DEF StoringBlock
    <3>2. CASE x # R
      <4>1. g.succ[x] = f.succ[x]
        BY <1>1, <1>3, <2>4, <3>2
      <4> QED BY <1>4, <1>6, <2>4, <4>1
    <3> QED BY <3>1, <3>2
  <2> QED BY <2>1, <2>2, <2>3, <2>4 DEF CodeBlocks
<1>7. \A e : e \in IncomingEdges(g, ExitBlock) <=>
               \E x \in CodeBlocks(f) : \E k \in DOMAIN g.succ[x] : g.succ[x][k] = ExitBlock /\ e = <<x, k>>
  BY <1>3 DEF IncomingEdges
<1>8. ASSUME NEW e PROVE e \in IncomingEdges(g, ExitBlock) <=> e = <<StoringBlock(R, m), 1>>
  <2>1. ASSUME e \in IncomingEdges(g, ExitBlock) PROVE e = <<StoringBlock(R, m), 1>>
    BY <1>6, <1>7, <2>1
  <2>2. ASSUME e = <<StoringBlock(R, m), 1>> PROVE e \in IncomingEdges(g, ExitBlock)
    BY <1>5, <1>7, <2>2
  <2> QED BY <2>1, <2>2
<1> QED BY <1>8 DEF g

AllBlocks(f) == CodeBlocks(f) \cup LoopBlocks

LEMMA LoopedShape ==
  ASSUME NEW f \in BatchInputs, NEW R \in Blocks(f), f.term[R] = "ret", NEW m \in Blocks(f)
  PROVE  LET g == Looped(f, R, m)
             c == Marked(f, R, m)
         IN
         /\ LaidOut(g) /\ IsGraph(g)
         /\ Entry(g) = Entry(f)
         /\ Blocks(g) = AllBlocks(f)
         /\ \A x \in CodeBlocks(f) : g.term[x] = c.term[x]
         /\ \A x \in CodeBlocks(f) \ {m} : g.succ[x] = c.succ[x]
         /\ g.succ[m] = <<PreHeader>>
         /\ \A x \in LoopBlocks : g.term[x] = "br"
         /\ g.succ[PreHeader] = <<Header>>
         /\ g.succ[Header] = <<Latch, ExitBlock>>
         /\ g.succ[Latch] = <<Header>>
<1> DEFINE c == Marked(f, R, m)
           p == BlockBefore(c, PreHeader, ExitBlock, "br", <<Header>>)
           h == BlockBefore(p, Header, ExitBlock, "br", <<Latch, ExitBlock>>)
           l == BlockBefore(h, Latch, ExitBlock, "br", <<Header>>)
           g == Looped(f, R, m)
<1>1. /\ WellFormed(f)
      /\ LoopBlocks \cap CodeBlocks(f) = {}
      /\ PreHeader # Header /\ PreHeader # Latch /\ Header # Latch
      /\ ExitBlock \notin Blocks(f)
  BY BatchInputAssumption, CreatedBlockAssumption DEF CreatedBlocks, CodeBlocks, LoopBlocks
<1>2. /\ LaidOut(c) /\ IsGraph(c) /\ Entry(c) = Entry(f)
      /\ Blocks(c) = CodeBlocks(f)
      /\ c.succ[m] = <<TasBlock>>
  <2>1. m \in CodeBlocks(f) /\ m # ExitBlock
    BY <1>1 DEF CodeBlocks
  <2>2. c = Marked(f, R, m)
    OBVIOUS
  <2> HIDE DEF c
  <2>3. /\ LaidOut(c) /\ IsGraph(c) /\ Entry(c) = Entry(f)
        /\ Blocks(c) = CodeBlocks(f)
        /\ \A x \in CodeBlocks(f) : c.succ[x] =
              (IF x = ExitBlock THEN <<>>
                 ELSE IF x = m THEN <<TasBlock>>
                 ELSE IF x = TasBlock THEN (IF m = R THEN <<ExitBlock>> ELSE f.succ[m])
                 ELSE IF x = R THEN <<ExitBlock>> ELSE f.succ[x])
    BY <2>2, MarkedShape
  <2> QED BY <2>1, <2>3
<1>3. ExitBlock # Entry(f) /\ ExitBlock \in CodeBlocks(f) /\ m \in CodeBlocks(f)
  BY <1>1, EntryIsBlock DEF CodeBlocks
<1> HIDE DEF c
<1>4. /\ LaidOut(p) /\ IsGraph(p) /\ Entry(p) = Entry(f)
      /\ Blocks(p) = CodeBlocks(f) \cup {PreHeader}
      /\ \A x \in CodeBlocks(f) : p.succ[x] = c.succ[x] /\ p.term[x] = c.term[x]
      /\ p.succ[PreHeader] = <<Header>> /\ p.term[PreHeader] = "br"
  <2>1. PreHeader \notin CodeBlocks(f)
    BY <1>1 DEF LoopBlocks
  <2> HIDE DEF p
  <2>2. p = BlockBefore(c, PreHeader, ExitBlock, "br", <<Header>>)
    BY DEF p
  <2> QED BY <1>2, <1>3, <2>1, <2>2, BlockBeforeShape
<1> HIDE DEF p
<1>5. /\ LaidOut(h) /\ IsGraph(h) /\ Entry(h) = Entry(f)
      /\ Blocks(h) = CodeBlocks(f) \cup {PreHeader, Header}
      /\ \A x \in CodeBlocks(f) \cup {PreHeader} : h.succ[x] = p.succ[x] /\ h.term[x] = p.term[x]
      /\ h.succ[Header] = <<Latch, ExitBlock>> /\ h.term[Header] = "br"
  <2>1. Header \notin Blocks(p)
    BY <1>1, <1>4 DEF LoopBlocks
  <2> HIDE DEF h
  <2>2. h = BlockBefore(p, Header, ExitBlock, "br", <<Latch, ExitBlock>>)
    BY DEF h
  <2> QED BY <1>3, <1>4, <2>1, <2>2, BlockBeforeShape
<1> HIDE DEF h
<1>6. /\ LaidOut(l) /\ IsGraph(l) /\ Entry(l) = Entry(f)
      /\ Blocks(l) = AllBlocks(f)
      /\ \A x \in CodeBlocks(f) \cup {PreHeader, Header} : l.succ[x] = h.succ[x] /\ l.term[x] = h.term[x]
      /\ l.succ[Latch] = <<Header>> /\ l.term[Latch] = "br"
  <2>1. Latch \notin Blocks(h)
    BY <1>1, <1>5 DEF LoopBlocks
  <2> HIDE DEF l
  <2>2. l = BlockBefore(h, Latch, ExitBlock, "br", <<Header>>)
    BY DEF l
  <2>3. Blocks(h) \cup {Latch} = AllBlocks(f)
    BY <1>5 DEF AllBlocks, LoopBlocks
  <2>4. /\ LaidOut(l) /\ IsGraph(l) /\ Entry(l) = Entry(h)
        /\ Blocks(l) = Blocks(h) \cup {Latch}
        /\ \A x \in Blocks(h) \cup {Latch} : l.succ[x] = IF x = Latch THEN <<Header>> ELSE h.succ[x]
        /\ \A x \in Blocks(h) \cup {Latch} : l.term[x] = IF x = Latch THEN "br" ELSE h.term[x]
    BY <1>3, <1>5, <2>1, <2>2, BlockBeforeShape
  <2> QED BY <1>5, <2>1, <2>3, <2>4
<1>7. l.succ[m] = <<TasBlock>> /\ m \in Blocks(l)
  BY <1>2, <1>3, <1>4, <1>5, <1>6 DEF AllBlocks
<1>8. g = SetSuccessor(l, m, 1, PreHeader)
  <2>1. SuccSize(l, m) = 1
    BY <1>7 DEF SuccSize
  <2> QED BY <2>1 DEF Looped, addEmptyLoop, c, p, h
<1>9. [l.succ[m] EXCEPT ![1] = PreHeader] = <<PreHeader>>
  BY <1>7
<1> HIDE DEF l, g
<1>10. /\ LaidOut(g) /\ IsGraph(g) /\ Entry(g) = Entry(f)
       /\ Blocks(g) = AllBlocks(f)
       /\ g.term = l.term
       /\ \A x \in AllBlocks(f) : g.succ[x] = IF x = m THEN <<PreHeader>> ELSE l.succ[x]
  BY <1>6, <1>7, <1>8, <1>9, SetSuccessorShape
<1>11. \A x \in CodeBlocks(f) : x \in AllBlocks(f) /\ l.term[x] = c.term[x] /\ l.succ[x] = c.succ[x]
  BY <1>4, <1>5, <1>6 DEF AllBlocks
<1>12. /\ \A x \in LoopBlocks : x \in AllBlocks(f) /\ x # m /\ l.term[x] = "br"
       /\ l.succ[PreHeader] = <<Header>>
       /\ l.succ[Header] = <<Latch, ExitBlock>>
       /\ l.succ[Latch] = <<Header>>
  BY <1>1, <1>3, <1>4, <1>5, <1>6 DEF AllBlocks, LoopBlocks
<1>13. PreHeader \in LoopBlocks /\ Header \in LoopBlocks /\ Latch \in LoopBlocks
  BY DEF LoopBlocks
<1> QED BY <1>3, <1>10, <1>11, <1>12, <1>13 DEF g, c

(* What the pass makes of a function: the contract between the pass and    *)
(* the run of its result.                                                  *)
IsBatchLoop(f, R, m, g) ==
  /\ Entry(g) = Entry(f)
  /\ Blocks(g) = AllBlocks(f)
  /\ \A x \in Blocks(f) \ {R, m} : g.succ[x] = f.succ[x] /\ g.term[x] = f.term[x]
  /\ g.succ[m] = <<PreHeader>> /\ g.term[m] = "br"
  /\ R # m => g.succ[TasBlock] = f.succ[m] /\ g.term[TasBlock] = f.term[m]
  /\ g.succ[StoringBlock(R, m)] = <<Latch>> /\ g.term[StoringBlock(R, m)] = "br"
  /\ g.succ[ExitBlock] = <<>> /\ g.term[ExitBlock] = "ret"
  /\ g.succ[PreHeader] = <<Header>>
  /\ g.succ[Header] = <<TasBlock, ExitBlock>>
  /\ g.succ[Latch] = <<Header>>
  /\ \A x \in LoopBlocks : g.term[x] = "br"

(* The pass makes a loop of every function with one return and a marker.   *)
LEMMA MakesBatchLoop ==
  ASSUME NEW f \in BatchInputs, NEW R \in Blocks(f), f.term[R] = "ret", NEW m \in Blocks(f)
  PROVE  LET g == Batched(f, R, m) IN IsBatchLoop(f, R, m, g) /\ LaidOut(g) /\ IsGraph(g)
<1> DEFINE c == Marked(f, R, m)
           l == Looped(f, R, m)
           S == StoringBlock(R, m)
           h == SetSuccessor(l, Header, 1, TasBlock)
           g == Batched(f, R, m)
<1>1. /\ ExitBlock \notin Blocks(f) /\ TasBlock \notin Blocks(f) /\ ExitBlock # TasBlock
      /\ LoopBlocks \cap CodeBlocks(f) = {}
      /\ PreHeader # Header /\ PreHeader # Latch /\ Header # Latch
  BY BatchInputAssumption, CreatedBlockAssumption DEF CreatedBlocks, CodeBlocks, LoopBlocks
<1>2. /\ \A x \in CodeBlocks(f) : c.succ[x] =
            (IF x = ExitBlock THEN <<>>
             ELSE IF x = m THEN <<TasBlock>>
             ELSE IF x = TasBlock THEN (IF m = R THEN <<ExitBlock>> ELSE f.succ[m])
             ELSE IF x = R THEN <<ExitBlock>> ELSE f.succ[x])
      /\ \A x \in CodeBlocks(f) : c.term[x] =
            (IF x = ExitBlock THEN "ret"
             ELSE IF x = m THEN "br"
             ELSE IF x = TasBlock THEN (IF m = R THEN "br" ELSE f.term[m])
             ELSE IF x = R THEN "br" ELSE f.term[x])
  <2>1. c = Marked(f, R, m)
    OBVIOUS
  <2> HIDE DEF c
  <2> QED BY <2>1, MarkedShape
<1>3. /\ LaidOut(l) /\ IsGraph(l)
      /\ Entry(l) = Entry(f)
      /\ Blocks(l) = AllBlocks(f)
      /\ \A x \in CodeBlocks(f) : l.term[x] = c.term[x]
      /\ \A x \in CodeBlocks(f) \ {m} : l.succ[x] = c.succ[x]
      /\ l.succ[m] = <<PreHeader>>
      /\ \A x \in LoopBlocks : l.term[x] = "br"
      /\ l.succ[PreHeader] = <<Header>>
      /\ l.succ[Header] = <<Latch, ExitBlock>>
      /\ l.succ[Latch] = <<Header>>
  BY LoopedShape
<1> HIDE DEF c, l
<1>4. Header \in Blocks(l) /\ S \in Blocks(l) /\ S \in CodeBlocks(f) /\ S # m
  BY <1>1, <1>3 DEF AllBlocks, CodeBlocks, LoopBlocks, StoringBlock
<1>5. /\ LaidOut(h) /\ IsGraph(h)
      /\ Entry(h) = Entry(f)
      /\ Blocks(h) = AllBlocks(f)
      /\ h.term = l.term
      /\ \A x \in AllBlocks(f) : h.succ[x] = IF x = Header THEN <<TasBlock, ExitBlock>> ELSE l.succ[x]
  <2>1. [l.succ[Header] EXCEPT ![1] = TasBlock] = <<TasBlock, ExitBlock>>
    BY <1>3
  <2>2. h = SetSuccessor(l, Header, 1, TasBlock)
    OBVIOUS
  <2> HIDE DEF h
  <2> QED BY <1>3, <1>4, <2>1, <2>2, SetSuccessorShape
<1>6. h.succ[S] = <<ExitBlock>>
  BY <1>1, <1>2, <1>3, <1>4, <1>5 DEF AllBlocks, CodeBlocks, LoopBlocks, StoringBlock
<1>7. g = SetSuccessor(h, S, 1, Latch)
  BY DEF Batched, setLoopBody, l
<1> HIDE DEF h, g, S
<1>8. /\ LaidOut(g) /\ IsGraph(g)
      /\ Entry(g) = Entry(f)
      /\ Blocks(g) = AllBlocks(f)
      /\ g.term = l.term
      /\ \A x \in AllBlocks(f) : g.succ[x] = IF x = S THEN <<Latch>> ELSE h.succ[x]
  <2>1. [h.succ[S] EXCEPT ![1] = Latch] = <<Latch>>
    BY <1>6
  <2> QED BY <1>3, <1>4, <1>5, <1>7, <2>1, SetSuccessorShape
<1>9. \A x \in LoopBlocks : x \in AllBlocks(f) /\ x # S /\ g.term[x] = "br"
  BY <1>1, <1>3, <1>4, <1>8 DEF AllBlocks
<1>10. /\ g.succ[PreHeader] = <<Header>>
       /\ g.succ[Header] = <<TasBlock, ExitBlock>>
       /\ g.succ[Latch] = <<Header>>
  BY <1>1, <1>3, <1>5, <1>8, <1>9 DEF LoopBlocks
<1>11. \A x \in CodeBlocks(f) : x \in AllBlocks(f) /\ x # Header /\ g.term[x] = c.term[x]
  BY <1>1, <1>3, <1>8 DEF AllBlocks, LoopBlocks
<1>12. \A x \in CodeBlocks(f) \ {m, S} : g.succ[x] = c.succ[x]
  BY <1>3, <1>5, <1>8, <1>11
<1>13. g.succ[m] = <<PreHeader>> /\ g.succ[S] = <<Latch>>
  BY <1>3, <1>4, <1>5, <1>8, <1>11 DEF CodeBlocks
<1>14. \A x \in Blocks(f) \ {R, m} : g.succ[x] = f.succ[x] /\ g.term[x] = f.term[x]
  BY <1>1, <1>2, <1>11, <1>12 DEF CodeBlocks, StoringBlock, S
<1>15. R # m => g.succ[TasBlock] = f.succ[m] /\ g.term[TasBlock] = f.term[m]
  BY <1>1, <1>2, <1>11, <1>12 DEF CodeBlocks, StoringBlock, S
<1>16. /\ g.succ[ExitBlock] = <<>> /\ g.term[ExitBlock] = "ret"
       /\ g.term[m] = "br" /\ g.term[S] = "br"
  BY <1>1, <1>2, <1>11, <1>12 DEF CodeBlocks, StoringBlock, S
<1> QED BY <1>8, <1>9, <1>10, <1>13, <1>14, <1>15, <1>16 DEF IsBatchLoop, g, S

-----------------------------------------------------------------------------
(* The fields that the shape of a graph says nothing of. *)

IsRecord(g) ==
  g = [layout |-> g.layout, succ |-> g.succ, term |-> g.term, phi |-> g.phi, isVoid |-> g.isVoid]

HasFields(g, U) ==
  /\ IsRecord(g)
  /\ g.term = [x \in Blocks(g) |-> g.term[x]]
  /\ g.phi \in [Blocks(g) -> Seq(U)]
  /\ g.isVoid = TRUE

LEMMA CloneFields ==
  ASSUME NEW f \in BatchInputs, NEW U, Blocks(f) \subseteq U
  PROVE  HasFields(Clone(f), U)
<1>1. f.term \in [Blocks(f) -> TerminatorKinds] /\ f.phi \in [Blocks(f) -> Seq(Blocks(f))]
  BY BatchInputAssumption DEF WellFormed
<1>2. ASSUME NEW x \in Blocks(f) PROVE f.phi[x] \in Seq(U)
  BY <1>1
<1>3. f.phi \in [Blocks(f) -> Seq(U)]
  BY <1>1, <1>2
<1> QED BY <1>1, <1>3 DEF HasFields, IsRecord, Clone, Blocks

LEMMA SplitFields ==
  ASSUME NEW U, NEW f, HasFields(f, U), NEW b, NEW tail \in U
  PROVE  HasFields(SplitBlock(f, b, tail), U)
<1> DEFINE g == SplitBlock(f, b, tail)
<1>1. ASSUME NEW x \in Blocks(f) PROVE f.phi[x] \in Seq(U) /\ ReplaceAll(f.phi[x], b, tail) \in Seq(U)
  BY DEF HasFields, ReplaceAll
<1>2. <<>> \in Seq(U)
  OBVIOUS
<1> HIDE DEF ReplaceAll
<1>3. g.phi \in [Blocks(f) \cup {tail} -> Seq(U)]
  <2>1. g.phi = [x \in Blocks(f) \cup {tail} |-> g.phi[x]]
    BY DEF SplitBlock
  <2>2. ASSUME NEW x \in Blocks(f) \cup {tail}
        PROVE  g.phi[x] = <<>> \/ (x \in Blocks(f) /\ g.phi[x] \in {f.phi[x], ReplaceAll(f.phi[x], b, tail)})
    BY DEF SplitBlock
  <2> HIDE DEF g
  <2> QED BY <1>1, <1>2, <2>1, <2>2
<1>4. /\ IsRecord(g)
      /\ Blocks(g) = Blocks(f) \cup {tail}
      /\ g.term = [x \in Blocks(g) |-> g.term[x]]
      /\ g.isVoid = f.isVoid
  BY DEF SplitBlock, IsRecord, Blocks
<1> QED BY <1>3, <1>4 DEF HasFields

LEMMA BeforeFields ==
  ASSUME NEW U, NEW f, HasFields(f, U), NEW new, NEW next, NEW kind, NEW succ
  PROVE  HasFields(BlockBefore(f, new, next, kind, succ), U)
<1> DEFINE g == BlockBefore(f, new, next, kind, succ)
<1>1. <<>> \in Seq(U) /\ \A x \in Blocks(f) : f.phi[x] \in Seq(U)
  BY DEF HasFields
<1>2. g.phi \in [Blocks(f) \cup {new} -> Seq(U)]
  BY <1>1 DEF BlockBefore, WithBlock
<1>3. /\ IsRecord(g)
      /\ Blocks(g) = Blocks(f) \cup {new}
      /\ g.term = [x \in Blocks(g) |-> g.term[x]]
      /\ g.isVoid = f.isVoid
  BY DEF BlockBefore, WithBlock, IsRecord, Blocks
<1> QED BY <1>2, <1>3 DEF HasFields

LEMMA RecordSetSuccessor ==
  ASSUME NEW f, IsRecord(f), NEW b, NEW k, NEW s, NEW g, g = SetSuccessor(f, b, k, s)
  PROVE  /\ IsRecord(g)
         /\ g.term = f.term /\ g.phi = f.phi /\ g.isVoid = f.isVoid
         /\ DOMAIN g.succ = DOMAIN f.succ
<1>1. g = [layout |-> f.layout, succ |-> g.succ, term |-> f.term, phi |-> f.phi, isVoid |-> f.isVoid]
  BY DEF SetSuccessor, IsRecord
<1>2. DOMAIN g.succ = DOMAIN f.succ
  BY DEF SetSuccessor, IsRecord
<1> QED BY <1>1, <1>2 DEF IsRecord

LEMMA SetSuccessorFields ==
  ASSUME NEW U, NEW f, HasFields(f, U), NEW b, NEW k, NEW s
  PROVE  HasFields(SetSuccessor(f, b, k, s), U)
<1> DEFINE g == SetSuccessor(f, b, k, s)
<1>1. /\ IsRecord(g)
      /\ g.term = f.term /\ g.phi = f.phi /\ g.isVoid = f.isVoid
      /\ DOMAIN g.succ = DOMAIN f.succ
  BY RecordSetSuccessor DEF HasFields
<1>2. Blocks(g) = Blocks(f)
  BY <1>1 DEF Blocks
<1> QED BY <1>1, <1>2 DEF HasFields

LEMMA BatchedFields ==
  ASSUME NEW f \in BatchInputs, NEW R, NEW m
  PROVE  /\ HasFields(Unified(f, R), Blocks(f) \cup {ExitBlock})
         /\ HasFields(Batched(f, R, m), AllBlocks(f))
<1> DEFINE U == AllBlocks(f)
           c == Marked(f, R, m)
           p == BlockBefore(c, PreHeader, ExitBlock, "br", <<Header>>)
           h == BlockBefore(p, Header, ExitBlock, "br", <<Latch, ExitBlock>>)
           l == BlockBefore(h, Latch, ExitBlock, "br", <<Header>>)
           g == Looped(f, R, m)
<1>1. HasFields(Unified(f, R), Blocks(f) \cup {ExitBlock})
  BY CloneFields, SplitFields DEF Unified
<1>2. Blocks(f) \subseteq U /\ ExitBlock \in U /\ TasBlock \in U
  BY DEF AllBlocks, CodeBlocks
<1> HIDE DEF U
<1>3. HasFields(c, U)
  <2>1. HasFields(Unified(f, R), U)
    BY <1>2, CloneFields, SplitFields DEF Unified
  <2> QED BY <1>2, <2>1, SplitFields DEF Marked
<1> HIDE DEF c
<1>4. HasFields(p, U)
  BY <1>3, BeforeFields
<1> HIDE DEF p
<1>5. HasFields(h, U)
  BY <1>4, BeforeFields
<1> HIDE DEF h
<1>6. HasFields(l, U)
  BY <1>5, BeforeFields
<1>7. \E k : g = SetSuccessor(l, m, k, PreHeader)
  BY DEF Looped, addEmptyLoop, c, p, h
<1> HIDE DEF l, g
<1>8. HasFields(g, U)
  BY <1>6, <1>7, SetSuccessorFields
<1>9. HasFields(SetSuccessor(g, Header, 1, TasBlock), U)
  BY <1>8, SetSuccessorFields
<1> DEFINE e == SetSuccessor(g, Header, 1, TasBlock)
<1>10. Batched(f, R, m) = SetSuccessor(e, StoringBlock(R, m), 1, Latch)
  BY DEF Batched, setLoopBody, g
<1> HIDE DEF e
<1>11. HasFields(Batched(f, R, m), U)
  BY <1>9, <1>10, SetSuccessorFields DEF e
<1> QED BY <1>1, <1>11 DEF U

(* Of a function with one return the pass makes well-formed functions. *)
EndsWell(g, b) ==
  /\ g.succ[b] \in Seq(Blocks(g))
  /\ g.term[b] \in TerminatorKinds
  /\ g.term[b] = "br" => SuccSize(g, b) \in {1, 2}
  /\ g.term[b] = "switch" => SuccSize(g, b) > 0
  /\ g.term[b] \in {"ret", "unreachable"} => SuccSize(g, b) = 0
  /\ Entry(g) \notin Successors(g, b)

LEMMA WellFormedGraph ==
  ASSUME NEW g, LaidOut(g), IsGraph(g), HasFields(g, Blocks(g)), IsFiniteSet(Blocks(g)),
         \A b \in Blocks(g) : EndsWell(g, b)
  PROVE  WellFormed(g)
<1>1. g.layout \in Seq(Blocks(g)) \ {<<>>} /\ Blocks(g) # {}
  BY DEF LaidOut
<1>2. g.succ \in [Blocks(g) -> Seq(Blocks(g))]
  BY DEF IsGraph, EndsWell
<1>3. g.term \in [Blocks(g) -> TerminatorKinds]
  BY DEF HasFields, EndsWell
<1> QED BY <1>1, <1>2, <1>3 DEF WellFormed, HasFields, LaidOut, EndsWell

(* A block that ends as one of a well-formed function does, or jumps to a  *)
(* block that is not the entry. *)
LEMMA CopyEndsWell ==
  ASSUME NEW f, WellFormed(f), NEW a \in Blocks(f), NEW g, Blocks(f) \subseteq Blocks(g),
         Entry(g) = Entry(f), NEW b, g.succ[b] = f.succ[a], g.term[b] = f.term[a]
  PROVE  EndsWell(g, b)
<1>1. f.succ[a] \in Seq(Blocks(f)) /\ f.term[a] \in TerminatorKinds
  BY DEF WellFormed
<1>2. f.succ[a] \in Seq(Blocks(g))
  BY <1>1
<1> QED BY <1>1, <1>2 DEF WellFormed, EndsWell, SuccSize, Successors

LEMMA JumpEndsWell ==
  ASSUME NEW g, NEW s \in Blocks(g), s # Entry(g), NEW b, g.succ[b] = <<s>>, g.term[b] = "br"
  PROVE  EndsWell(g, b)
<1>1. <<s>> \in Seq(Blocks(g)) /\ Len(<<s>>) = 1
  OBVIOUS
<1>2. Successors(g, b) = {s}
  BY DEF Successors
<1> QED BY <1>1, <1>2 DEF EndsWell, SuccSize, TerminatorKinds

LEMMA ReturnEndsWell ==
  ASSUME NEW g, NEW b, g.succ[b] = <<>>, g.term[b] = "ret"
  PROVE  EndsWell(g, b)
<1>1. <<>> \in Seq(Blocks(g)) /\ Len(<<>>) = 0
  OBVIOUS
<1>2. Successors(g, b) = {}
  BY DEF Successors
<1> QED BY <1>1, <1>2 DEF EndsWell, SuccSize, TerminatorKinds

LEMMA UnifiedIsWellFormed ==
  ASSUME NEW f \in BatchInputs, NEW R \in Blocks(f), f.term[R] = "ret"
  PROVE  LET g == Unified(f, R) IN
         WellFormed(g) /\ Blocks(g) = Blocks(f) \cup {ExitBlock} /\ Entry(g) = Entry(f)
<1> DEFINE c == Clone(f)
           g == Unified(f, R)
<1>1. WellFormed(f) /\ ExitBlock \notin Blocks(f) /\ Entry(f) \in Blocks(f)
  BY BatchInputAssumption, EntryIsBlock DEF CreatedBlocks
<1>2. LaidOut(c) /\ Entry(c) = Entry(f) /\ Blocks(c) = Blocks(f) /\ c.succ = f.succ /\ c.term = f.term
  BY <1>1 DEF Clone, LaidOut, WellFormed, Blocks, Entry
<1>3. f.succ[R] = <<>>
  BY <1>1 DEF WellFormed, SuccSize
<1> HIDE DEF c
<1>4. /\ LaidOut(g) /\ IsGraph(g)
      /\ Entry(g) = Entry(f)
      /\ Blocks(g) = Blocks(f) \cup {ExitBlock}
      /\ \A x \in Blocks(f) \cup {ExitBlock} : g.succ[x] =
                     (IF x = R THEN <<ExitBlock>> ELSE IF x = ExitBlock THEN f.succ[R] ELSE f.succ[x])
      /\ \A x \in Blocks(f) \cup {ExitBlock} : g.term[x] =
                     (IF x = R THEN "br" ELSE IF x = ExitBlock THEN f.term[R] ELSE f.term[x])
  <2>1. g = SplitBlock(c, R, ExitBlock)
    BY DEF Unified, c
  <2> HIDE DEF g
  <2> QED BY <1>1, <1>2, <2>1, SplitShape
<1>5. HasFields(g, Blocks(g))
  BY <1>4, BatchedFields
<1> HIDE DEF g
<1>6. IsFiniteSet(Blocks(g))
  BY <1>1, <1>4, FS_AddElement DEF WellFormed
<1>7. ASSUME NEW b \in Blocks(g) PROVE EndsWell(g, b)
  <2>1. CASE b = R
    BY <1>1, <1>4, <2>1, JumpEndsWell
  <2>2. CASE b = ExitBlock
    <3>1. g.succ[b] = <<>> /\ g.term[b] = "ret"
      BY <1>1, <1>3, <1>4, <2>2
    <3> QED BY <3>1, ReturnEndsWell
  <2>3. CASE b \in Blocks(f) \ {R}
    <3>1. g.succ[b] = f.succ[b] /\ g.term[b] = f.term[b]
      BY <1>1, <1>4, <2>3
    <3> QED BY <1>1, <1>4, <2>3, <3>1, CopyEndsWell
  <2> QED BY <1>4, <2>1, <2>2, <2>3
<1>8. WellFormed(g)
  BY <1>4, <1>5, <1>6, <1>7, WellFormedGraph
<1> QED BY <1>4, <1>8 DEF g

LEMMA BatchedIsWellFormed ==
  ASSUME NEW f \in BatchInputs, NEW R \in Blocks(f), f.term[R] = "ret", NEW m \in Blocks(f)
  PROVE  WellFormed(Batched(f, R, m))
<1> DEFINE g == Batched(f, R, m)
<1>1. WellFormed(f) /\ Entry(f) \in Blocks(f) /\ CreatedBlocks \cap Blocks(f) = {}
  BY BatchInputAssumption, EntryIsBlock
<1>2. IsBatchLoop(f, R, m, g) /\ LaidOut(g) /\ IsGraph(g)
  BY MakesBatchLoop
<1>3. Blocks(g) = AllBlocks(f) /\ Entry(g) = Entry(f) /\ HasFields(g, Blocks(g))
  BY <1>2, BatchedFields DEF IsBatchLoop
<1> HIDE DEF g
<1>4. IsFiniteSet(Blocks(g))
  <2>1. IsFiniteSet(CodeBlocks(f))
    <3>1. CodeBlocks(f) = (Blocks(f) \cup {ExitBlock}) \cup {TasBlock}
      BY DEF CodeBlocks
    <3>2. IsFiniteSet(Blocks(f) \cup {ExitBlock})
      BY <1>1, FS_AddElement DEF WellFormed
    <3> QED BY <3>1, <3>2, FS_AddElement
  <2>2. AllBlocks(f) = ((CodeBlocks(f) \cup {PreHeader}) \cup {Header}) \cup {Latch}
    BY DEF AllBlocks, LoopBlocks
  <2>3. IsFiniteSet(CodeBlocks(f) \cup {PreHeader})
    BY <2>1, FS_AddElement
  <2>4. IsFiniteSet((CodeBlocks(f) \cup {PreHeader}) \cup {Header})
    BY <2>3, FS_AddElement
  <2> QED BY <1>3, <2>2, <2>4, FS_AddElement
<1>5. /\ CreatedBlocks \subseteq Blocks(g) \cup {ExitingBlock}
      /\ {PreHeader, Header, Latch, TasBlock, ExitBlock} \subseteq Blocks(g) \ {Entry(g)}
  BY <1>1, <1>3 DEF CreatedBlocks, LoopBlocks, AllBlocks, CodeBlocks
<1>6. ASSUME NEW b \in Blocks(g) PROVE EndsWell(g, b)
  <2>1. CASE b \in Blocks(f) \ {R, m}
    <3>1. g.succ[b] = f.succ[b] /\ g.term[b] = f.term[b] /\ Blocks(f) \subseteq Blocks(g)
      BY <1>2, <1>3, <2>1 DEF IsBatchLoop, AllBlocks, CodeBlocks
    <3> QED BY <1>1, <1>3, <2>1, <3>1, CopyEndsWell
  <2>2. CASE b = TasBlock /\ R # m
    <3>1. g.succ[b] = f.succ[m] /\ g.term[b] = f.term[m] /\ Blocks(f) \subseteq Blocks(g)
      BY <1>2, <1>3, <2>2 DEF IsBatchLoop, AllBlocks, CodeBlocks
    <3> QED BY <1>1, <1>3, <3>1, CopyEndsWell
  <2>3. CASE b \in {m, StoringBlock(R, m), PreHeader, Latch}
    <3>1. \E s \in {PreHeader, Header, Latch} : g.succ[b] = <<s>> /\ g.term[b] = "br"
      BY <1>2, <2>3 DEF IsBatchLoop, LoopBlocks
    <3> QED BY <1>5, <3>1, JumpEndsWell
  <2>4. CASE b = ExitBlock
    BY <1>2, <2>4, ReturnEndsWell DEF IsBatchLoop
  <2>5. CASE b = Header
    <3>1. g.succ[b] = <<TasBlock, ExitBlock>> /\ g.term[b] = "br"
      BY <1>2, <2>5 DEF IsBatchLoop, LoopBlocks
    <3>2. <<TasBlock, ExitBlock>> \in Seq(Blocks(g)) /\ Len(<<TasBlock, ExitBlock>>) = 2
      BY <1>5
    <3>3. Successors(g, b) \subseteq {TasBlock, ExitBlock}
      BY <3>1 DEF Successors
    <3> QED BY <1>5, <3>1, <3>2, <3>3 DEF EndsWell, SuccSize, TerminatorKinds
  <2> QED
    BY <1>3, <2>1, <2>2, <2>3, <2>4, <2>5 DEF AllBlocks, CodeBlocks, LoopBlocks, StoringBlock
<1> QED BY <1>2, <1>3, <1>4, <1>6, WellFormedGraph DEF g

-----------------------------------------------------------------------------
(* The scan for the marker stops at a first call, if it stops. *)
LEMMA FirstExists ==
  ASSUME NEW sites \in SUBSET (Nat \X Nat), sites # {}
  PROVE  FirstOf(sites) \in sites /\ \A t \in sites : ~ComesBefore(t, FirstOf(sites))
<1> DEFINE blocks == {s[1] : s \in sites}
<1>1. PICK i \in blocks : \A k \in blocks : i <= k
  <2>1. blocks \in SUBSET Nat /\ blocks # {}
    OBVIOUS
  <2> QED BY <2>1, SmallestElement
<1> DEFINE calls == {s[2] : s \in {t \in sites : t[1] = i}}
<1>2. PICK j \in calls : \A k \in calls : j <= k
  <2>1. calls \in SUBSET Nat /\ calls # {}
    BY <1>1
  <2> QED BY <2>1, SmallestElement
<1>3. PICK s \in sites : s[1] = i /\ s[2] = j
  BY <1>2
<1>4. ASSUME NEW t \in sites PROVE ~ComesBefore(t, s)
  <2>1. i <= t[1] /\ t[1] \in Nat /\ t[2] \in Nat /\ i \in Nat /\ j \in Nat
    BY <1>1, <1>2
  <2>2. t[1] = i => j <= t[2]
    BY <1>2
  <2> QED BY <1>3, <2>1, <2>2 DEF ComesBefore
<1> QED BY <1>3, <1>4 DEF FirstOf

LEMMA FoundCallIsCall ==
  ASSUME NEW f \in BatchInputs, EndsScan(f) # {}
  PROVE  /\ FoundCall(f) \in EndsScan(f) /\ findBatchBeginMarker(f) \in Blocks(f)
         /\ EndsScan(f) \subseteq Nat \X Nat
         /\ \A t \in EndsScan(f) : ~ComesBefore(t, FoundCall(f))
<1>1. WellFormed(f) /\ f.calls \in [Blocks(f) -> Seq(CallKinds)]
  BY BatchInputAssumption
<1>2. f.layout \in Seq(Blocks(f))
  BY <1>1 DEF WellFormed
<1>3. ASSUME NEW s \in EndsScan(f)
      PROVE  s \in Nat \X Nat /\ f.layout[s[1]] \in Blocks(f)
  <2>1. PICK i \in DOMAIN f.layout : s \in {<<i, j>> : j \in DOMAIN f.calls[f.layout[i]]}
    BY DEF EndsScan, CallSites
  <2>2. f.layout[i] \in Blocks(f) /\ i \in Nat
    BY <1>2
  <2>3. DOMAIN f.calls[f.layout[i]] \subseteq Nat
    BY <1>1, <2>2
  <2> QED BY <2>1, <2>2, <2>3
<1>4. FirstOf(EndsScan(f)) \in EndsScan(f) /\ \A t \in EndsScan(f) : ~ComesBefore(t, FirstOf(EndsScan(f)))
  BY <1>3, FirstExists
<1> QED BY <1>3, <1>4 DEF findBatchBeginMarker, FoundCall

(* What it stops at is an indirect call exactly if no marker comes before  *)
(* one.                                                                    *)
LEMMA FoundCallIsFirst ==
  ASSUME NEW f \in BatchInputs
  PROVE  /\ HasMarker(f) => ~MeetsIndirectCall(f)
         /\ EndsScan(f) = {} => ~MeetsIndirectCall(f)
         /\ EndsScan(f) # {} /\ CallAt(f, FoundCall(f)) = "indirect" => MeetsIndirectCall(f)
<1>1. \A s \in CallSites(f) : CallAt(f, s) # "call" => s \in EndsScan(f)
  BY DEF EndsScan
<1>2. EndsScan(f) = {} => ~MeetsIndirectCall(f)
  BY <1>1 DEF MeetsIndirectCall
<1>3. ASSUME HasMarker(f) PROVE ~MeetsIndirectCall(f)
  <2>1. /\ FoundCall(f) \in CallSites(f) /\ CallAt(f, FoundCall(f)) = "batch_begin"
        /\ \A t \in EndsScan(f) : ~ComesBefore(t, FoundCall(f))
    BY <1>3, FoundCallIsCall DEF HasMarker, EndsScan
  <2> QED BY <1>1, <2>1 DEF MeetsIndirectCall
<1>4. ASSUME EndsScan(f) # {}, CallAt(f, FoundCall(f)) = "indirect" PROVE MeetsIndirectCall(f)
  <2>1. /\ FoundCall(f) \in EndsScan(f) /\ EndsScan(f) \subseteq Nat \X Nat
        /\ \A t \in EndsScan(f) : ~ComesBefore(t, FoundCall(f))
    BY <1>4, FoundCallIsCall
  <2>2. ASSUME NEW t \in CallSites(f), CallAt(f, t) = "batch_begin" PROVE ComesBefore(FoundCall(f), t)
    <3>1. t \in EndsScan(f) /\ t # FoundCall(f) /\ ~ComesBefore(t, FoundCall(f))
      BY <1>1, <1>4, <2>1, <2>2
    <3>2. t = <<t[1], t[2]>> /\ FoundCall(f) = <<FoundCall(f)[1], FoundCall(f)[2]>>
          /\ t[1] \in Nat /\ t[2] \in Nat /\ FoundCall(f)[1] \in Nat /\ FoundCall(f)[2] \in Nat
      BY <2>1, <3>1
    <3>3. t[1] # FoundCall(f)[1] \/ t[2] # FoundCall(f)[2]
      BY <3>1, <3>2
    <3> QED BY <3>1, <3>2, <3>3 DEF ComesBefore
  <2>3. FoundCall(f) \in CallSites(f)
    BY <2>1 DEF EndsScan
  <2> QED BY <1>4, <2>2, <2>3 DEF MeetsIndirectCall
<1> QED BY <1>2, <1>3, <1>4

-----------------------------------------------------------------------------
(* The pass on a function with one return. *)

M == findBatchBeginMarker(source)

ReturnBlockOf(f) == CHOOSE b \in Blocks(f) : getReturnInstList(f) = {b}

R == ReturnBlockOf(source)

S == StoringBlock(R, M)

HasLoop == stage = "done" /\ HasMarker(source)

PassInv ==
  /\ source \in BatchInputs
  /\ HasOneReturn(source)
  /\ N \in BatchSizes
  /\ stage \in {"start", "cloned", "scanning", "splitting", "exiting", "looping", "closing",
                "done", "crashed"}
  /\ stage \in {"start", "cloned", "scanning"} => marker = NullBlock
  /\ stage = "cloned" => B = Clone(source)
  /\ \/ stage \in {"scanning", "splitting", "crashed"}
     \/ stage = "done" /\ ~HasMarker(source)
     => B = Unified(source, R) /\ RetBlock = ExitBlock /\ Returning = {R}
  /\ stage \in {"splitting", "exiting", "looping", "closing"} => HasMarker(source) /\ marker = M
  /\ stage = "done" => marker = IF HasMarker(source) THEN M ELSE NullBlock
  /\ stage = "crashed" => ~HasMarker(source) /\ MeetsIndirectCall(source)
  /\ stage = "done" => ~MeetsIndirectCall(source)
  /\ stage \in {"exiting", "looping", "closing"} => RetBlock = ExitBlock /\ BatchBB = TasBlock
  /\ stage \in {"exiting", "looping", "closing"} \/ HasLoop => Returning = {S}
  /\ stage \in {"looping", "closing"} => UniqueExitingBlock = S
  /\ stage \in {"exiting", "looping"} => B = Marked(source, R, M)
  /\ stage = "closing" => B = Looped(source, R, M)
  /\ HasLoop => B = Batched(source, R, M)

LEMMA OneReturnBlock ==
  ASSUME source \in BatchInputs, HasOneReturn(source)
  PROVE  /\ R \in Blocks(source)
         /\ getReturnInstList(source) = {R}
         /\ source.term[R] = "ret"
         /\ \A b \in Blocks(source) : source.term[b] = "ret" => b = R
<1>1. R \in Blocks(source) /\ getReturnInstList(source) = {R}
  BY DEF HasOneReturn, R, ReturnBlockOf
<1> QED BY <1>1 DEF getReturnInstList

LEMMA MarkerIsBlock ==
  ASSUME source \in BatchInputs, HasMarker(source)
  PROVE  M \in Blocks(source)
BY FoundCallIsCall DEF HasMarker, M

LEMMA PassInvInit == BFInit /\ HasOneReturn(source) => PassInv
BY DEF BFInit, BMInit, PassInv, HasLoop

LEMMA CloneKeepsPass ==
  PassInv /\ CloneFunction /\ N' = N => PassInv'
BY DEF PassInv, CloneFunction, HasLoop, M, R, S, StoringBlock

LEMMA ReturnsKeepPass ==
  PassInv /\ ReplaceReturns /\ N' = N => PassInv'
<1> SUFFICES ASSUME PassInv, ReplaceReturns, N' = N PROVE PassInv'
  OBVIOUS
<1>1. B = Clone(source) /\ getReturnInstList(source) = {R}
  BY OneReturnBlock DEF PassInv, ReplaceReturns
<1>2. getReturnInstList(B) = {R}
  BY <1>1 DEF getReturnInstList, Clone, Blocks
<1>3. /\ SplitAtReturn(R) /\ RetBlock' = ExitBlock /\ stage' = "scanning" /\ stage = "cloned"
      /\ UNCHANGED <<source, marker, BatchBB, UniqueExitingBlock>>
  BY <1>2 DEF ReplaceReturns
<1> QED BY <1>1, <1>3 DEF PassInv, SplitAtReturn, Unified, HasLoop, M, R, S, StoringBlock

LEMMA FindKeepsPass ==
  PassInv /\ FindMarker /\ N' = N => PassInv'
<1> SUFFICES ASSUME PassInv, FindMarker, N' = N PROVE PassInv'
  OBVIOUS
<1>1. /\ stage = "scanning"
      /\ UNCHANGED <<source, B, RetBlock, BatchBB, UniqueExitingBlock, Returning, R, M, HasMarker(source),
                     MeetsIndirectCall(source)>>
  BY DEF FindMarker, Stop, R, M
<1>2. CASE EndsScan(source) = {} /\ stage' = "done" /\ marker' = marker
  <2>1. ~HasMarker(source) /\ ~MeetsIndirectCall(source)
    BY <1>2, FoundCallIsFirst DEF PassInv, HasMarker
  <2> QED BY <1>1, <1>2, <2>1 DEF PassInv, HasLoop
<1>3. CASE EndsScan(source) # {} /\ CallAt(source, FoundCall(source)) = "indirect" /\ Stop("crashed")
  <2>1. MeetsIndirectCall(source) /\ ~HasMarker(source)
    BY <1>3, FoundCallIsFirst DEF PassInv, HasMarker
  <2> QED BY <1>1, <1>3, <2>1 DEF PassInv, HasLoop, Stop
<1>4. CASE HasMarker(source) /\ marker' = M /\ stage' = "splitting"
  BY <1>1, <1>4 DEF PassInv, HasLoop
<1> QED BY <1>2, <1>3, <1>4 DEF FindMarker, Stop, HasMarker, M

LEMMA SplitKeepsPass ==
  PassInv /\ SplitAtMarker /\ N' = N => PassInv'
<1> SUFFICES ASSUME PassInv, SplitAtMarker, N' = N PROVE PassInv'
  OBVIOUS
<1>1. ResultsAfterSplit = {S}
  BY DEF PassInv, SplitAtMarker, ResultsAfterSplit, S, StoringBlock
<1> QED BY <1>1 DEF PassInv, SplitAtMarker, Marked, HasLoop, M, R, S, StoringBlock

LEMMA ChooseKeepsPass ==
  PassInv /\ ChooseExitingBlock /\ N' = N => PassInv'
<1> SUFFICES ASSUME PassInv, ChooseExitingBlock, N' = N PROVE PassInv'
  OBVIOUS
<1>1. IncomingEdges(B, RetBlock) = {<<S, 1>>}
  BY OneReturnBlock, MarkerIsBlock, OneEdgeToExit DEF PassInv, ChooseExitingBlock, S
<1>2. /\ UniqueExitingBlock' = S /\ stage = "exiting" /\ stage' = "looping"
      /\ UNCHANGED <<source, B, RetBlock, marker, BatchBB, Returning>>
  <2> DEFINE edges == IncomingEdges(B, RetBlock)
  <2>1. /\ edges # {}
        /\ \A e \in edges : edges = {e} /\ e[1] = S
    BY <1>1
  <2> HIDE DEF edges
  <2> QED BY <2>1 DEF ChooseExitingBlock, Stop, edges
<1> QED BY <1>2 DEF PassInv, HasLoop, M, R, S, StoringBlock

LEMMA LoopKeepsPass ==
  PassInv /\ AddEmptyLoop /\ N' = N => PassInv'
BY DEF PassInv, AddEmptyLoop, Looped, HasLoop, M, R, S, StoringBlock

LEMMA BodyKeepsPass ==
  PassInv /\ SetLoopBody /\ N' = N => PassInv'
<1> SUFFICES ASSUME PassInv, SetLoopBody, N' = N PROVE PassInv'
  OBVIOUS
<1>1. B = Looped(source, R, M) /\ UniqueExitingBlock = S /\ BatchBB = TasBlock /\ HasMarker(source)
  BY DEF PassInv, SetLoopBody
<1>2. B.term[S] # "none"
  <2>1. /\ source \in BatchInputs /\ R \in Blocks(source) /\ M \in Blocks(source)
        /\ source.term[R] = "ret"
    BY <1>1, OneReturnBlock, MarkerIsBlock DEF PassInv
  <2>2. /\ S \in CodeBlocks(source)
        /\ B.term[S] = Marked(source, R, M).term[S]
    BY <1>1, <2>1, LoopedShape DEF S, StoringBlock, CodeBlocks
  <2> DEFINE c == Marked(source, R, M)
  <2>3. c.term[S] = "br"
    <3>1. c = Marked(source, R, M)
      OBVIOUS
    <3> HIDE DEF c
    <3>2. \A x \in CodeBlocks(source) : c.term[x] =
            (IF x = ExitBlock THEN "ret"
             ELSE IF x = M THEN "br"
             ELSE IF x = TasBlock THEN (IF M = R THEN "br" ELSE source.term[M])
             ELSE IF x = R THEN "br" ELSE source.term[x])
      BY <2>1, <3>1, MarkedShape
    <3>3. S # ExitBlock /\ S # M /\ (S = TasBlock => M = R) /\ (S # TasBlock => S = R)
      BY <2>1, BatchInputAssumption, CreatedBlockAssumption DEF CreatedBlocks, S, StoringBlock
    <3> HIDE DEF S, c
    <3> QED BY <2>2, <3>2, <3>3
  <2> QED BY <2>2, <2>3
<1>3. /\ B' = setLoopBody(B, BatchBB, UniqueExitingBlock) /\ stage' = "done"
      /\ UNCHANGED <<source, RetBlock, marker, BatchBB, UniqueExitingBlock, Returning>>
  BY <1>1, <1>2 DEF SetLoopBody
<1>4. ~MeetsIndirectCall(source)
  BY <1>1, FoundCallIsFirst DEF PassInv
<1> QED BY <1>1, <1>3, <1>4 DEF PassInv, SetLoopBody, Batched, HasLoop, M, R, S, StoringBlock

LEMMA PassKeepsInv == PassInv /\ MakeBatch => PassInv'
BY CloneKeepsPass, ReturnsKeepPass, FindKeepsPass, SplitKeepsPass, ChooseKeepsPass,
   LoopKeepsPass, BodyKeepsPass
   DEF MakeBatch, BMNext

LEMMA RunKeepsPass == PassInv /\ UNCHANGED <<bmVars, N>> => PassInv'
BY DEF PassInv, bmVars, HasLoop, M, R, S, StoringBlock

-----------------------------------------------------------------------------
(* The pass on any function.  A function with no return or with several    *)
(* is left with an exit that has no terminator, and cannot be called.      *)

LEMMA SplitFrame ==
  ASSUME NEW f, NEW b, NEW tail, NEW g, g = SplitBlock(f, b, tail)
  PROVE  /\ IsRecord(g)
         /\ Blocks(g) = Blocks(f) \cup {tail}
         /\ \A x \in Blocks(f) \ {b, tail} : g.term[x] = f.term[x]
BY DEF SplitBlock, IsRecord, Blocks

LEMMA BlockBeforeFrame ==
  ASSUME NEW f, NEW new, NEW next, NEW kind, NEW succ,
         NEW g, g = BlockBefore(f, new, next, kind, succ)
  PROVE  /\ IsRecord(g)
         /\ Blocks(g) = Blocks(f) \cup {new}
         /\ \A x \in Blocks(f) \ {new} : g.term[x] = f.term[x]
BY DEF BlockBefore, WithBlock, IsRecord, Blocks

LEMMA SetSuccessorFrame ==
  ASSUME NEW f, IsRecord(f), NEW b, NEW k, NEW s, NEW g, g = SetSuccessor(f, b, k, s)
  PROVE  IsRecord(g) /\ Blocks(g) = Blocks(f) /\ g.term = f.term
BY RecordSetSuccessor DEF Blocks

LEMMA LoopFrame ==
  ASSUME NEW f, NEW Prev, NEW Next, NEW g, g = addEmptyLoop(f, Prev, Next)
  PROVE  /\ IsRecord(g)
         /\ Blocks(g) = Blocks(f) \cup LoopBlocks
         /\ \A x \in Blocks(f) \ LoopBlocks : g.term[x] = f.term[x]
<1> DEFINE p == BlockBefore(f, PreHeader, Next, "br", <<Header>>)
           h == BlockBefore(p, Header, Next, "br", <<Latch, Next>>)
           l == BlockBefore(h, Latch, Next, "br", <<Header>>)
<1>1. Blocks(p) = Blocks(f) \cup {PreHeader} /\ \A x \in Blocks(f) \ {PreHeader} : p.term[x] = f.term[x]
  BY BlockBeforeFrame
<1>2. \E k : g = SetSuccessor(l, Prev, k, PreHeader)
  BY DEF addEmptyLoop
<1> HIDE DEF p
<1>3. Blocks(h) = Blocks(p) \cup {Header} /\ \A x \in Blocks(p) \ {Header} : h.term[x] = p.term[x]
  BY BlockBeforeFrame
<1> HIDE DEF h
<1>4. /\ IsRecord(l)
      /\ Blocks(l) = Blocks(h) \cup {Latch}
      /\ \A x \in Blocks(h) \ {Latch} : l.term[x] = h.term[x]
  BY BlockBeforeFrame
<1> HIDE DEF l
<1>5. IsRecord(g) /\ Blocks(g) = Blocks(l) /\ g.term = l.term
  BY <1>2, <1>4, SetSuccessorFrame
<1> QED BY <1>1, <1>3, <1>4, <1>5 DEF LoopBlocks

AllStages ==
  {"start", "cloned", "scanning", "splitting", "exiting", "looping", "closing", "done",
   "aborted", "crashed"}

HasExit == stage \notin {"start", "cloned", "aborted"}

ShapeInv ==
  /\ source \in BatchInputs
  /\ N \in BatchSizes
  /\ stage \in AllStages
  /\ stage = "start" => B = source
  /\ stage = "cloned" => B = Clone(source)
  /\ HasExit => IsRecord(B)
  /\ Blocks(source) \subseteq Blocks(B)
  /\ Blocks(B) \subseteq Blocks(source) \cup CreatedBlocks
  /\ RetBlock \in Blocks(B) \cup {NullBlock}
  /\ HasExit => ExitBlock \in Blocks(B)
  /\ marker \in Blocks(source) \cup {NullBlock}
  /\ stage = "splitting" => marker \in Blocks(source)
  /\ BatchBB \in {TasBlock, NullBlock}
  /\ UniqueExitingBlock \in Blocks(B) \cup {NullBlock}
  /\ Returning \subseteq Blocks(B)
  /\ HasExit /\ ~HasOneReturn(source) => B.term[ExitBlock] = "none"

LEMMA ShapeInit == BFInit => ShapeInv
BY DEF BFInit, BMInit, ShapeInv, AllStages, HasExit

LEMMA CloneKeepsShape == ShapeInv /\ CloneFunction /\ N' = N => ShapeInv'
BY DEF ShapeInv, CloneFunction, AllStages, HasExit, Clone, Blocks

LEMMA ReturnsKeepShape == ShapeInv /\ ReplaceReturns /\ N' = N => ShapeInv'
<1> SUFFICES ASSUME ShapeInv, ReplaceReturns, N' = N PROVE ShapeInv'
  OBVIOUS
<1>1. /\ stage = "cloned" /\ B = Clone(source) /\ Blocks(B) = Blocks(source)
      /\ getReturnInstList(B) = getReturnInstList(source)
      /\ ExitBlock \notin Blocks(source) /\ ExitBlock \in CreatedBlocks
  BY BatchInputAssumption DEF ShapeInv, ReplaceReturns, Clone, Blocks, getReturnInstList, CreatedBlocks
<1>2. CASE Stop("aborted")
  BY <1>1, <1>2 DEF ShapeInv, Stop, HasExit, AllStages
<1>3. ASSUME RetBlock' = ExitBlock, stage' = "scanning",
             UNCHANGED <<source, marker, BatchBB, UniqueExitingBlock>>,
             IsRecord(B'), Blocks(B') = Blocks(source) \cup {ExitBlock}, Returning' \subseteq Blocks(source),
             ~HasOneReturn(source) => B'.term[ExitBlock] = "none"
      PROVE  ShapeInv'
  BY <1>1, <1>3 DEF ShapeInv, HasExit, AllStages, HasOneReturn
<1>4. ASSUME NEW b \in getReturnInstList(source), getReturnInstList(source) = {b}, SplitAtReturn(b)
      PROVE  /\ IsRecord(B') /\ Blocks(B') = Blocks(source) \cup {ExitBlock}
             /\ Returning' \subseteq Blocks(source)
             /\ HasOneReturn(source)
  BY <1>1, <1>4, SplitFrame DEF SplitAtReturn, HasOneReturn, getReturnInstList
<1>5. ASSUME JumpFromReturns(getReturnInstList(source))
      PROVE  /\ IsRecord(B') /\ Blocks(B') = Blocks(source) \cup {ExitBlock}
             /\ Returning' \subseteq Blocks(source)
             /\ B'.term[ExitBlock] = "none"
  <2> DEFINE g == BlockAtEnd(B, ExitBlock, "none", <<>>)
             returns == getReturnInstList(source)
  <2>1. IsRecord(g) /\ Blocks(g) = Blocks(source) \cup {ExitBlock} /\ g.term[ExitBlock] = "none"
    BY <1>1 DEF BlockAtEnd, WithBlock, IsRecord, Blocks
  <2>2. /\ B' = [g EXCEPT
                   !.succ = [b \in Blocks(g) |-> IF b \in returns THEN <<ExitBlock>> ELSE @[b]],
                   !.term = [b \in Blocks(g) |-> IF b \in returns THEN "br" ELSE @[b]]]
        /\ Returning' = returns
    BY <1>5 DEF JumpFromReturns
  <2>3. returns \subseteq Blocks(source)
    BY DEF getReturnInstList
  <2> HIDE DEF g, returns
  <2>4. /\ IsRecord(B')
        /\ B'.succ = [b \in Blocks(g) |-> IF b \in returns THEN <<ExitBlock>> ELSE g.succ[b]]
        /\ B'.term = [b \in Blocks(g) |-> IF b \in returns THEN "br" ELSE g.term[b]]
    BY <2>1, <2>2 DEF IsRecord
  <2>5. Blocks(B') = Blocks(g)
    BY <2>4 DEF Blocks
  <2> QED BY <1>1, <2>1, <2>2, <2>3, <2>4, <2>5
<1> QED BY <1>1, <1>2, <1>3, <1>4, <1>5 DEF ReplaceReturns

LEMMA FindKeepsShape == ShapeInv /\ FindMarker /\ N' = N => ShapeInv'
<1> SUFFICES ASSUME ShapeInv, FindMarker, N' = N PROVE ShapeInv'
  OBVIOUS
<1>1. EndsScan(source) # {} => findBatchBeginMarker(source) \in Blocks(source)
  BY FoundCallIsCall DEF ShapeInv
<1> QED BY <1>1 DEF ShapeInv, FindMarker, Stop, HasExit, AllStages, HasOneReturn

LEMMA SplitKeepsShape == ShapeInv /\ SplitAtMarker /\ N' = N => ShapeInv'
<1> SUFFICES ASSUME ShapeInv, SplitAtMarker, N' = N PROVE ShapeInv'
  OBVIOUS
<1>1. /\ marker # ExitBlock /\ TasBlock # ExitBlock /\ TasBlock \in CreatedBlocks
      /\ ExitBlock \in Blocks(B) /\ stage = "splitting" /\ stage' = "exiting"
  BY BatchInputAssumption, CreatedBlockAssumption DEF ShapeInv, SplitAtMarker, CreatedBlocks, HasExit
<1>2. /\ IsRecord(B') /\ Blocks(B') = Blocks(B) \cup {TasBlock}
      /\ B'.term[ExitBlock] = B.term[ExitBlock]
  BY <1>1, SplitFrame DEF SplitAtMarker
<1>3. Returning' \subseteq Blocks(B')
  BY <1>2 DEF ShapeInv, SplitAtMarker, ResultsAfterSplit
<1> QED BY <1>1, <1>2, <1>3 DEF ShapeInv, SplitAtMarker, HasExit, AllStages, HasOneReturn

LEMMA ChooseKeepsShape == ShapeInv /\ ChooseExitingBlock /\ N' = N => ShapeInv'
<1> SUFFICES ASSUME ShapeInv, ChooseExitingBlock, N' = N PROVE ShapeInv'
  OBVIOUS
<1> DEFINE edges == IncomingEdges(B, RetBlock)
           exits == {e[1] : e \in edges}
<1>1. \A e \in edges : e[1] \in Blocks(B)
  BY DEF IncomingEdges
<1>2. CASE Stop("aborted")
  BY <1>2 DEF ShapeInv, Stop, HasExit, AllStages
<1>3. CASE UniqueExitingBlock' \in Blocks(B) /\ B' = B /\ stage' = "looping"
  BY <1>3 DEF ShapeInv, ChooseExitingBlock, Stop, HasExit, AllStages, HasOneReturn
<1>4. CASE UniqueExitingBlock' = ExitingBlock /\ B' = JoinExits(exits) /\ stage' = "looping"
  <2> DEFINE g == BlockBefore(B, ExitingBlock, RetBlock, "none", <<>>)
  <2>1. /\ IsRecord(g) /\ Blocks(g) = Blocks(B) \cup {ExitingBlock}
        /\ \A x \in Blocks(B) \ {ExitingBlock} : g.term[x] = B.term[x]
    BY BlockBeforeFrame
  <2>2. B' = [g EXCEPT !.succ = [b \in Blocks(g) |-> IF b \in exits
                                                     THEN [@[b] EXCEPT ![1] = ExitingBlock]
                                                     ELSE @[b]]]
    BY <1>4 DEF JoinExits
  <2> HIDE DEF g, exits
  <2>3. /\ IsRecord(B') /\ B'.term = g.term
        /\ DOMAIN B'.succ = Blocks(g)
    BY <2>1, <2>2 DEF IsRecord
  <2>4. /\ stage = "exiting" /\ ExitBlock \in Blocks(B) \ {ExitingBlock} /\ ExitingBlock \in CreatedBlocks
        /\ UNCHANGED <<source, RetBlock, marker, BatchBB, Returning>>
    BY <1>4, CreatedBlockAssumption DEF ShapeInv, ChooseExitingBlock, Stop, HasExit, CreatedBlocks
  <2>5. Blocks(B') = Blocks(B) \cup {ExitingBlock} /\ B'.term[ExitBlock] = B.term[ExitBlock]
    BY <2>1, <2>3, <2>4 DEF Blocks
  <2> QED BY <1>4, <2>3, <2>4, <2>5 DEF ShapeInv, HasExit, AllStages, HasOneReturn
<1>5. \/ Stop("aborted")
      \/ UniqueExitingBlock' \in Blocks(B) /\ B' = B /\ stage' = "looping"
      \/ UniqueExitingBlock' = ExitingBlock /\ B' = JoinExits(exits) /\ stage' = "looping"
  <2> HIDE DEF edges
  <2> QED BY <1>1 DEF ChooseExitingBlock, edges
<1> QED BY <1>2, <1>3, <1>4, <1>5

LEMMA LoopKeepsShape == ShapeInv /\ AddEmptyLoop /\ N' = N => ShapeInv'
<1> SUFFICES ASSUME ShapeInv, AddEmptyLoop, N' = N PROVE ShapeInv'
  OBVIOUS
<1>1. /\ stage = "looping" /\ stage' = "closing" /\ ExitBlock \in Blocks(B) \ LoopBlocks
      /\ LoopBlocks \subseteq CreatedBlocks
  BY CreatedBlockAssumption DEF ShapeInv, AddEmptyLoop, HasExit, CreatedBlocks, LoopBlocks
<1>2. /\ IsRecord(B') /\ Blocks(B') = Blocks(B) \cup LoopBlocks
      /\ B'.term[ExitBlock] = B.term[ExitBlock]
  BY <1>1, LoopFrame DEF AddEmptyLoop
<1> QED BY <1>1, <1>2 DEF ShapeInv, AddEmptyLoop, HasExit, AllStages, HasOneReturn

LEMMA BodyKeepsShape == ShapeInv /\ SetLoopBody /\ N' = N => ShapeInv'
<1> SUFFICES ASSUME ShapeInv, SetLoopBody, N' = N PROVE ShapeInv'
  OBVIOUS
<1>1. CASE Stop("crashed")
  BY <1>1 DEF ShapeInv, SetLoopBody, Stop, HasExit, AllStages, HasOneReturn
<1>2. CASE B' = setLoopBody(B, BatchBB, UniqueExitingBlock) /\ stage' = "done"
  <2> DEFINE h == SetSuccessor(B, Header, 1, BatchBB)
  <2>1. IsRecord(B)
    BY DEF ShapeInv, SetLoopBody, HasExit
  <2>2. IsRecord(h) /\ Blocks(h) = Blocks(B) /\ h.term = B.term
    BY <2>1, SetSuccessorFrame
  <2>3. B' = SetSuccessor(h, UniqueExitingBlock, 1, Latch)
    BY <1>2 DEF setLoopBody
  <2> HIDE DEF h
  <2>4. IsRecord(B') /\ Blocks(B') = Blocks(B) /\ B'.term = B.term
    BY <2>2, <2>3, SetSuccessorFrame
  <2> QED BY <1>2, <2>4 DEF ShapeInv, SetLoopBody, Stop, HasExit, AllStages, HasOneReturn
<1> QED BY <1>1, <1>2 DEF SetLoopBody

LEMMA ShapeKept == ShapeInv /\ MakeBatch => ShapeInv'
BY CloneKeepsShape, ReturnsKeepShape, FindKeepsShape, SplitKeepsShape, ChooseKeepsShape,
   LoopKeepsShape, BodyKeepsShape
   DEF MakeBatch, BMNext

LEMMA RunKeepsShape == ShapeInv /\ UNCHANGED <<bmVars, N>> => ShapeInv'
BY DEF ShapeInv, bmVars, HasExit, HasOneReturn

-----------------------------------------------------------------------------
(* What the steps of the run need to know of the program. *)
LEMMA ProgramFacts ==
  ASSUME PassInv, HasLoop
  PROVE  /\ IsBatchLoop(source, R, M, B)
         /\ Returning = {S}
         /\ M \in Blocks(source) /\ R \in Blocks(source)
         /\ \A b \in Blocks(source) : source.term[b] = "ret" => b = R
         /\ Entry(source) \in Blocks(source)
         /\ \A b \in Blocks(source) : Successors(source, b) \subseteq Blocks(source)
         /\ Blocks(source) \cap (CreatedBlocks \cup {NullBlock}) = {}
         /\ source.term[R] = "ret"
         /\ Successors(source, R) = {}
         /\ N \in Int
<1>1. /\ M \in Blocks(source) /\ R \in Blocks(source) /\ source.term[R] = "ret"
      /\ \A b \in Blocks(source) : source.term[b] = "ret" => b = R
  BY OneReturnBlock, MarkerIsBlock DEF PassInv, HasLoop
<1>2. WellFormed(source) /\ Blocks(source) \cap (CreatedBlocks \cup {NullBlock}) = {}
  BY BatchInputAssumption DEF PassInv
<1>3. IsBatchLoop(source, R, M, B)
  BY <1>1, MakesBatchLoop DEF PassInv
<1>4. \A b \in Blocks(source) : Successors(source, b) \subseteq Blocks(source)
  BY <1>2 DEF WellFormed, Successors
<1>5. Successors(source, R) = {}
  BY <1>1, <1>2 DEF WellFormed, SuccSize, Successors
<1> QED BY <1>1, <1>2, <1>3, <1>4, <1>5, EntryIsBlock, BatchSizeAssumption DEF PassInv

(* The places of the run. *)
LEMMA Places ==
  ASSUME PassInv, HasLoop
  PROVE  /\ \A b \in Blocks(source) : b \notin CreatedBlocks /\ b # NullBlock
         /\ {PreHeader, Header, Latch, TasBlock, ExitBlock} \subseteq CreatedBlocks
         /\ NullBlock \notin CreatedBlocks
         /\ PreHeader \notin {Header, Latch, TasBlock, ExitBlock}
         /\ Header \notin {Latch, TasBlock, ExitBlock}
         /\ Latch \notin {TasBlock, ExitBlock}
         /\ TasBlock # ExitBlock
BY ProgramFacts, CreatedBlockAssumption DEF CreatedBlocks, LoopBlocks

-----------------------------------------------------------------------------
(* The run from the first packet on: the index counts the packets that are *)
(* finished.  Control is in every set that the code after the marker does  *)
(* not leave, so it does not come to the marker again.                     *)

InCode ==
  /\ at \in Blocks(source) \ {M}
  /\ idx < N
  /\ \A Q \in SUBSET Blocks(source) : IsAfter(source, M, Q) => at \in Q

InLoop ==
  \/ at = PreHeader /\ idx = 0
  \/ at = Header /\ idx <= BatchLength
  \/ at \in {Latch, TasBlock} /\ idx < N
  \/ at = ExitBlock /\ idx = BatchLength

InBatch ==
  /\ status = "returned" => at = ExitBlock
  /\ idx \in Nat
  /\ written \in Seq(Nat)
  /\ Len(written) = (IF at = Latch THEN idx + 1 ELSE idx)
  /\ \A k \in DOMAIN written : written[k] = k - 1
  /\ InCode \/ InLoop

LEMMA PreHeaderKeepsBatch ==
  ASSUME PassInv, HasLoop, InBatch, RunPreHeader
  PROVE  at' = Header /\ idx = 0 /\ InBatch'
<1>1. /\ status = "running" /\ at = PreHeader /\ idx' = 0
      /\ UNCHANGED <<N, written, region, status>>
  BY DEF RunPreHeader, IsRunningAt
<1>2. at' = Header
  BY <1>1, ProgramFacts DEF RunPreHeader, IsBatchLoop
<1>3. idx = 0 /\ N \in Int
  BY <1>1, Places, ProgramFacts DEF InBatch, InCode, InLoop
<1> QED BY <1>1, <1>2, <1>3, Places DEF InBatch, InLoop, BatchLength

LEMMA HeaderKeepsBatch ==
  ASSUME PassInv, HasLoop, InBatch, RunHeader
  PROVE  /\ at' \in {TasBlock, ExitBlock}
         /\ InBatch'
<1>1. /\ status = "running" /\ at = Header
      /\ UNCHANGED <<bmVars, N, idx, written, region, status>>
  BY DEF RunHeader, IsRunningAt
<1>2. at' = IF idx < N THEN TasBlock ELSE ExitBlock
  BY <1>1, ProgramFacts DEF RunHeader, RunsBody, IsBatchLoop
<1>3. idx <= BatchLength /\ N \in Int
  BY <1>1, Places, ProgramFacts DEF InBatch, InCode, InLoop
<1> QED BY <1>1, <1>2, <1>3, Places DEF InBatch, InLoop, BatchLength

LEMMA LatchKeepsBatch ==
  ASSUME PassInv, HasLoop, InBatch, RunLatch
  PROVE  at' = Header /\ InBatch'
<1>1. /\ status = "running" /\ at = Latch /\ idx' = idx + 1
      /\ UNCHANGED <<bmVars, N, written, region, status>>
  BY DEF RunLatch, IsRunningAt
<1>2. at' = Header
  BY <1>1, ProgramFacts DEF RunLatch, IsBatchLoop
<1>3. idx < N /\ N \in Int
  BY <1>1, Places, ProgramFacts DEF InBatch, InCode, InLoop
<1> QED BY <1>1, <1>2, <1>3, Places DEF InBatch, InLoop, BatchLength

(* The block in the function itself that control is at in the body. *)
BodyBlock == IF at = TasBlock THEN M ELSE at

(* A step from block to block after the marker, or the end of a packet. *)
LEMMA BodyPlace ==
  ASSUME PassInv, HasLoop, InBatch, RunBlock
  PROVE  /\ idx < N
         /\ at = TasBlock \/ InCode
         /\ BodyBlock \in Blocks(source)
         /\ at \notin LoopBlocks
<1>1. at \notin LoopBlocks /\ at' \in Successors(B, at)
  BY DEF RunBlock
<1>2. IsBatchLoop(source, R, M, B) /\ M \in Blocks(source)
  BY ProgramFacts
<1>3. at # ExitBlock
  BY <1>1, <1>2 DEF IsBatchLoop, Successors
<1> QED BY <1>1, <1>2, <1>3 DEF InBatch, InLoop, InCode, LoopBlocks, BodyBlock

LEMMA EndOfPacketKeepsBatch ==
  ASSUME PassInv, HasLoop, InBatch, RunBlock, at = S
  PROVE  BodyBlock = R /\ at' = Latch /\ written' = Append(written, idx) /\ region' = region /\ InBatch'
<1>1. /\ status = "running" /\ at' \in Successors(B, at) /\ UNCHANGED <<bmVars, N, idx, status>>
  BY DEF RunBlock
<1>2. IsBatchLoop(source, R, M, B) /\ Returning = {S} /\ M \in Blocks(source) /\ R \in Blocks(source)
  BY ProgramFacts
<1>3. idx < N /\ (at = TasBlock \/ InCode)
  BY BodyPlace
<1>4. BodyBlock = R /\ at' = Latch
  BY <1>1, <1>2, <1>3, Places DEF IsBatchLoop, Successors, S, StoringBlock, BodyBlock, InCode
<1>5. written' = Append(written, idx) /\ region' = region
  BY <1>2, <1>4, Places DEF RunBlock
<1>6. Len(written) = idx /\ written \in Seq(Nat) /\ idx \in Nat
  BY <1>3, Places DEF InBatch, InCode
<1>7. written' \in Seq(Nat) /\ Len(written') = idx' + 1
  BY <1>1, <1>5, <1>6
<1>8. \A k \in DOMAIN written' : written'[k] = k - 1
  BY <1>5, <1>6 DEF InBatch
<1> QED BY <1>1, <1>3, <1>4, <1>5, <1>6, <1>7, <1>8 DEF InBatch, InLoop

(* The blocks after the marker do not lead back to it. *)
LEMMA BodyDoesNotStartAgain ==
  ASSUME MarkerIsPassedOnce(source), NEW a \in Blocks(source), a = M \/ (InCode /\ a = at)
  PROVE  \A b \in Successors(source, a) :
           /\ b \in Blocks(source) \ {M}
           /\ \A Q \in SUBSET Blocks(source) : IsAfter(source, M, Q) => b \in Q
<1>1. PICK Q \in SUBSET Blocks(source) : IsAfter(source, M, Q)
  BY DEF MarkerIsPassedOnce, M
<1>2. \A P \in SUBSET Blocks(source) : IsAfter(source, M, P) => Successors(source, a) \subseteq P
  BY DEF InCode, IsAfter
<1> QED BY <1>1, <1>2 DEF IsAfter

LEMMA BodyKeepsBatch ==
  ASSUME PassInv, HasLoop, MarkerIsPassedOnce(source), InBatch, RunBlock, at # S
  PROVE  /\ at' \in Successors(source, BodyBlock)
         /\ at' \in Blocks(source) \ {M}
         /\ written' = written /\ region' = region
         /\ InBatch'
<1>1. /\ status = "running" /\ at' \in Successors(B, at)
      /\ UNCHANGED <<bmVars, N, idx, status>>
      /\ M' = M /\ source' = source
  BY DEF RunBlock, M, bmVars
<1>2. /\ IsBatchLoop(source, R, M, B) /\ Returning = {S}
      /\ M \in Blocks(source) /\ R \in Blocks(source)
  BY ProgramFacts
<1>3. /\ idx < N
      /\ at = TasBlock \/ InCode
      /\ BodyBlock \in Blocks(source)
      /\ at \notin LoopBlocks
  BY BodyPlace
<1>4. at' \in Successors(source, BodyBlock)
  <2>1. CASE at = TasBlock
    BY <1>1, <1>2, <2>1 DEF IsBatchLoop, Successors, S, StoringBlock, BodyBlock
  <2>2. CASE InCode
    <3>1. at \in Blocks(source) \ {M, R} /\ at # TasBlock
      BY <1>2, <2>2, Places DEF InCode, S, StoringBlock
    <3> QED BY <1>1, <1>2, <3>1 DEF IsBatchLoop, Successors, BodyBlock
  <2> QED BY <1>3, <2>1, <2>2
<1>5. /\ at' \in Blocks(source) \ {M}
      /\ \A Q \in SUBSET Blocks(source) : IsAfter(source, M, Q) => at' \in Q
  <2>1. BodyBlock = M \/ (InCode /\ BodyBlock = at)
    BY <1>3 DEF BodyBlock
  <2> QED BY <1>3, <1>4, <2>1, BodyDoesNotStartAgain
<1>6. written' = written /\ region' = region
  BY <1>2, <1>5, Places DEF RunBlock
<1>7. at # Latch /\ at' # Latch
  BY <1>3, <1>5, Places DEF LoopBlocks
<1> QED BY <1>1, <1>3, <1>4, <1>5, <1>6, <1>7 DEF InBatch, InCode, IsAfter

(* The run returns only at the exit, with all packets processed. *)
LEMMA ReturnKeepsBatch ==
  ASSUME PassInv, HasLoop, InBatch, EndAt("ret", "returned")
  PROVE  at = ExitBlock /\ idx = BatchLength /\ InBatch'
<1>1. /\ status = "running" /\ B.term[at] = "ret" /\ status' = "returned"
      /\ UNCHANGED <<bmVars, N, at, idx, written, region>>
  BY DEF EndAt
<1>2. /\ IsBatchLoop(source, R, M, B) /\ N \in Int
      /\ M \in Blocks(source) /\ R \in Blocks(source)
      /\ \A b \in Blocks(source) : source.term[b] = "ret" => b = R
  BY ProgramFacts
<1>3. B.term[S] = "br" /\ \A b \in LoopBlocks : B.term[b] = "br"
  BY <1>2 DEF IsBatchLoop, S
<1>4. ~InCode
  <2> SUFFICES ASSUME InCode PROVE FALSE
    OBVIOUS
  <2>1. at = R /\ R # M
    BY <1>1, <1>2 DEF InCode, IsBatchLoop
  <2> QED BY <1>1, <1>3, <2>1 DEF S, StoringBlock
<1>5. at # TasBlock
  <2> SUFFICES ASSUME at = TasBlock PROVE FALSE
    OBVIOUS
  <2>1. R # M
    BY <1>1, <1>3 DEF S, StoringBlock
  <2>2. source.term[M] = "ret"
    BY <1>1, <1>2, <2>1 DEF IsBatchLoop
  <2> QED BY <1>2, <2>1, <2>2
<1>6. at = ExitBlock /\ idx = BatchLength
  BY <1>1, <1>3, <1>4, <1>5 DEF InBatch, InLoop, LoopBlocks
<1> QED BY <1>1, <1>6, Places DEF InBatch, InLoop, BatchLength

LEMMA TrapKeepsBatch ==
  ASSUME InBatch, EndAt("unreachable", "trapped")
  PROVE  InBatch'
BY DEF EndAt, M, bmVars, InBatch, InCode, InLoop, IsAfter, BatchLength

LEMMA StutterKeepsBatch ==
  ASSUME InBatch, UNCHANGED bfVars
  PROVE  InBatch'
BY DEF bfVars, callVars, M, bmVars, InBatch, InCode, InLoop, IsAfter, BatchLength

LEMMA BatchIsInOrder ==
  ASSUME PassInv, HasLoop, InBatch
  PROVE  EachPacketOnce
<1>1. N \in Int
  BY ProgramFacts
<1>2. IF at = Latch THEN idx < N ELSE idx <= BatchLength
  BY <1>1, Places DEF InBatch, InCode, InLoop, BatchLength
<1>3. Len(written) <= BatchLength
  BY <1>1, <1>2 DEF InBatch, BatchLength
<1>4. status = "returned" => Len(written) = BatchLength
  BY Places DEF InBatch, InCode, InLoop
<1> QED BY <1>3, <1>4 DEF InBatch, EachPacketOnce

LEMMA NothingIsInOrder ==
  ASSUME N \in Int, written = <<>>, status # "returned"
  PROVE  EachPacketOnce
BY DEF EachPacketOnce, BatchLength

-----------------------------------------------------------------------------
(* The run of a supported function.  In the prologue control is in every   *)
(* set of blocks that control cannot leave but at the marker, so it is not *)
(* at the return.                                                          *)

MarkerComesFirst(f) ==
  \E P \in SUBSET Blocks(f) : IsBefore(f, findBatchBeginMarker(f), P)

InPrologue ==
  /\ region = "prologue"
  /\ status # "returned"
  /\ idx = 0
  /\ written = <<>>
  /\ at \in Blocks(source)
  /\ \A P \in SUBSET Blocks(source) : IsBefore(source, M, P) => at \in P

InBody == region = "body" /\ InBatch

RunInv ==
  /\ status \in {"idle", "running", "returned", "trapped"}
  /\ status = "idle" => at = NullBlock /\ idx = 0 /\ written = <<>> /\ region = "prologue"
  /\ status # "idle" => HasLoop /\ (InPrologue \/ InBody)

IInv ==
  /\ PassInv
  /\ HasMarker(source) /\ MarkerComesFirst(source) /\ MarkerIsPassedOnce(source)
  /\ RunInv

SupportedInit == BFInit /\ SupportsBatch(source)

LEMMA IInvInit == SupportedInit => IInv
BY PassInvInit DEF SupportedInit, SupportsBatch, MarkerComesFirst, BFInit, IInv, RunInv

(* The blocks before the marker do not return. *)
LEMMA PrologueDoesNotReturn ==
  ASSUME PassInv, HasLoop, MarkerComesFirst(source), InPrologue, at # M
  PROVE  /\ at # R
         /\ \A b \in Successors(source, at) :
              \A P \in SUBSET Blocks(source) : IsBefore(source, M, P) => b \in P
<1>1. PICK P \in SUBSET Blocks(source) : IsBefore(source, M, P)
  BY DEF MarkerComesFirst, M
<1>2. at # R
  BY <1>1, ProgramFacts DEF InPrologue, IsBefore
<1> QED BY <1>2 DEF InPrologue, IsBefore

-----------------------------------------------------------------------------
(* Each step of the run keeps the invariant, and is a step of the loop     *)
(* over packets or no step of it.                                          *)

LoopStep == [Packets!Next]_(Packets!vars)

LEMMA CallStep == ASSUME IInv, Call PROVE RunInv' /\ LoopStep
<1>1. /\ HasLoop /\ stage = "done" /\ status = "idle" /\ status' = "running"
      /\ idx' = 0 /\ UNCHANGED <<bmVars, N, written, region>>
      /\ at = NullBlock /\ idx = 0 /\ written = <<>> /\ region = "prologue"
  BY DEF IInv, RunInv, Call, HasLoop
<1>2. at' = Entry(source) /\ Entry(source) \in Blocks(source)
  BY <1>1, ProgramFacts DEF Call, IInv, IsBatchLoop
<1>3. M' = M /\ source' = source /\ HasLoop'
  BY <1>1 DEF M, bmVars, HasLoop
<1>4. RunInv'
  BY <1>1, <1>2, <1>3 DEF RunInv, InPrologue, IsBefore
<1>5. Packets!Call
  BY <1>1, <1>2, <1>3, Places DEF IInv, Packets!Call, OriginalBlock, CurrentPacket
<1> QED BY <1>4, <1>5 DEF LoopStep, Packets!Next

LEMMA PreHeaderStep == ASSUME IInv, RunPreHeader PROVE RunInv' /\ LoopStep
<1>1. /\ status = "running" /\ at = PreHeader /\ idx' = 0 /\ HasLoop
      /\ UNCHANGED <<bmVars, N, written, region, status>>
  BY DEF IInv, RunInv, RunPreHeader, IsRunningAt
<1>2. M' = M /\ source' = source /\ HasLoop'
  BY <1>1 DEF M, bmVars, HasLoop
<1>3. InBody
  BY <1>1, Places DEF IInv, RunInv, InPrologue
<1>4. at' = Header /\ idx = 0 /\ InBatch'
  BY <1>1, <1>3, PreHeaderKeepsBatch DEF IInv, InBody
<1>5. RunInv'
  BY <1>1, <1>2, <1>3, <1>4 DEF RunInv, InBody
<1>6. UNCHANGED Packets!vars
  BY <1>1, <1>2, <1>4, Places DEF IInv, Packets!vars, OriginalBlock, CurrentPacket, M
<1> QED BY <1>5, <1>6 DEF LoopStep

LEMMA HeaderStep == ASSUME IInv, RunHeader PROVE RunInv' /\ LoopStep
<1>1. /\ status = "running" /\ at = Header /\ HasLoop
      /\ UNCHANGED <<bmVars, N, idx, written, region, status>>
  BY DEF IInv, RunInv, RunHeader, IsRunningAt
<1>2. M' = M /\ source' = source /\ HasLoop'
  BY <1>1 DEF M, bmVars, HasLoop
<1>3. InBody
  BY <1>1, Places DEF IInv, RunInv, InPrologue
<1>4. at' \in {TasBlock, ExitBlock} /\ InBatch'
  BY <1>1, <1>3, HeaderKeepsBatch DEF IInv, InBody
<1>5. RunInv'
  BY <1>1, <1>2, <1>3, <1>4 DEF RunInv, InBody
<1>6. UNCHANGED Packets!vars
  BY <1>1, <1>2, <1>4, Places DEF IInv, Packets!vars, OriginalBlock, CurrentPacket, M
<1> QED BY <1>5, <1>6 DEF LoopStep

LEMMA LatchStep == ASSUME IInv, RunLatch PROVE RunInv' /\ LoopStep
<1>1. /\ status = "running" /\ at = Latch /\ HasLoop /\ idx' = idx + 1
      /\ UNCHANGED <<bmVars, N, written, region, status>>
  BY DEF IInv, RunInv, RunLatch, IsRunningAt
<1>2. M' = M /\ source' = source /\ HasLoop'
  BY <1>1 DEF M, bmVars, HasLoop
<1>3. InBody
  BY <1>1, Places DEF IInv, RunInv, InPrologue
<1>4. at' = Header /\ InBatch'
  BY <1>1, <1>3, LatchKeepsBatch DEF IInv, InBody
<1>5. RunInv'
  BY <1>1, <1>2, <1>3, <1>4 DEF RunInv, InBody
<1>6. UNCHANGED Packets!vars
  BY <1>1, <1>2, <1>4, Places DEF IInv, Packets!vars, OriginalBlock, CurrentPacket, M
<1> QED BY <1>5, <1>6 DEF LoopStep

(* A step from block to block before the marker. *)
LEMMA PrologueStep ==
  ASSUME IInv, RunBlock, HasLoop, InPrologue PROVE RunInv' /\ LoopStep
<1>1. /\ status = "running" /\ at' \in Successors(B, at)
      /\ UNCHANGED <<bmVars, N, idx, status>>
      /\ M' = M /\ source' = source /\ HasLoop'
  BY DEF RunBlock, M, bmVars, HasLoop
<1>2. /\ IsBatchLoop(source, R, M, B) /\ Returning = {S}
      /\ at \in Blocks(source) /\ M \in Blocks(source)
  BY ProgramFacts DEF IInv, InPrologue
<1>3. CASE at = M
  <2>1. at' = PreHeader /\ at \notin Returning
    BY <1>1, <1>2, <1>3, Places DEF IInv, IsBatchLoop, Successors, S, StoringBlock
  <2>2. written' = <<>> /\ region' = "body"
    BY <2>1 DEF RunBlock, InPrologue
  <2>3. InBatch'
    BY <1>1, <2>1, <2>2, Places DEF IInv, InPrologue, InBatch, InLoop
  <2>4. RunInv'
    BY <1>1, <2>2, <2>3 DEF RunInv, InBody
  <2>5. Packets!StartBatch
    BY <1>1, <1>2, <1>3, <2>1, <2>2, Places
       DEF IInv, InPrologue, Packets!StartBatch, OriginalBlock, CurrentPacket, M
  <2> QED BY <2>4, <2>5 DEF LoopStep, Packets!Next
<1>4. CASE at # M
  <2>1. /\ at # R
        /\ \A b \in Successors(source, at) :
             \A P \in SUBSET Blocks(source) : IsBefore(source, M, P) => b \in P
    BY <1>4, PrologueDoesNotReturn DEF IInv
  <2>2. at' \in Successors(source, at) /\ at' \in Blocks(source)
    BY <1>1, <1>2, <1>4, <2>1, ProgramFacts DEF IInv, IsBatchLoop, Successors
  <2>3. written' = <<>> /\ region' = "prologue"
    BY <1>2, <2>1, <2>2, Places DEF IInv, InPrologue, RunBlock, S, StoringBlock
  <2>4. InPrologue'
    BY <1>1, <2>1, <2>2, <2>3 DEF InPrologue, IsBefore
  <2>5. RunInv'
    BY <1>1, <2>4 DEF RunInv
  <2>6. Packets!FollowEdge
    BY <1>1, <1>2, <1>4, <2>2, <2>3, Places
       DEF IInv, InPrologue, Packets!FollowEdge, Packets!Successors, Successors, OriginalBlock, CurrentPacket, M
  <2> QED BY <2>5, <2>6 DEF LoopStep, Packets!Next
<1> QED BY <1>3, <1>4

(* A step from block to block after the marker, or the end of a packet. *)
LEMMA BodyStep ==
  ASSUME IInv, RunBlock, HasLoop, InBody PROVE RunInv' /\ LoopStep
<1>1. /\ status = "running" /\ at' \in Successors(B, at)
      /\ UNCHANGED <<bmVars, N, idx, status>>
      /\ M' = M /\ source' = source /\ HasLoop'
  BY DEF RunBlock, M, bmVars, HasLoop
<1>2. /\ idx < N
      /\ at = TasBlock \/ InCode
      /\ BodyBlock \in Blocks(source)
      /\ at \notin LoopBlocks
  BY BodyPlace DEF IInv, InBody
<1>3. /\ OriginalBlock = BodyBlock
      /\ CurrentPacket = idx
  BY <1>1, <1>2, Places DEF IInv, OriginalBlock, CurrentPacket, BodyBlock, InCode, LoopBlocks, M
<1>4. CASE at = S
  <2>1. /\ BodyBlock = R /\ at' = Latch
        /\ written' = Append(written, idx) /\ region' = "body"
        /\ InBatch'
    BY <1>4, EndOfPacketKeepsBatch DEF IInv, InBody
  <2>2. RunInv'
    BY <1>1, <2>1 DEF RunInv, InBody
  <2>3. Packets!FinishPacket
    <3>1. source.term[R] = "ret"
      BY ProgramFacts DEF IInv
    <3>2. OriginalBlock' = M /\ CurrentPacket' = idx + 1
      BY <1>1, <2>1, Places DEF IInv, OriginalBlock, CurrentPacket, M
    <3> QED BY <1>1, <1>2, <1>3, <2>1, <3>1, <3>2 DEF InBody, Packets!FinishPacket, M
  <2> QED BY <2>2, <2>3 DEF LoopStep, Packets!Next
<1>5. CASE at # S
  <2>1. /\ at' \in Successors(source, BodyBlock)
        /\ at' \in Blocks(source) \ {M}
        /\ written' = written /\ region' = "body"
        /\ InBatch'
    BY <1>5, BodyKeepsBatch DEF IInv, InBody
  <2>2. RunInv'
    BY <1>1, <2>1 DEF RunInv, InBody
  <2>3. Packets!FollowEdge
    <3>1. OriginalBlock' = at' /\ CurrentPacket' = idx
      BY <1>1, <2>1, Places DEF IInv, OriginalBlock, CurrentPacket
    <3> QED BY <1>1, <1>2, <1>3, <2>1, <3>1 DEF InBody, Packets!FollowEdge, Packets!Successors, Successors, M
  <2> QED BY <2>2, <2>3 DEF LoopStep, Packets!Next
<1> QED BY <1>4, <1>5

(* The run ends only at the exit, with all packets processed, or in a trap *)
(* of the function itself.                                                 *)
LEMMA ReturnStep == ASSUME IInv, EndAt("ret", "returned") PROVE RunInv' /\ LoopStep
<1>1. /\ status = "running" /\ B.term[at] = "ret" /\ status' = "returned" /\ HasLoop
      /\ UNCHANGED <<bmVars, N, at, idx, written, region>>
      /\ M' = M /\ source' = source /\ HasLoop'
  BY DEF IInv, RunInv, EndAt, M, bmVars, HasLoop
<1>2. IsBatchLoop(source, R, M, B) /\ N \in Int
  BY <1>1, ProgramFacts DEF IInv
<1>3. InBody
  <2> SUFFICES ASSUME InPrologue PROVE FALSE
    BY <1>1 DEF IInv, RunInv
  <2>1. at = M \/ at # R
    BY <1>1, PrologueDoesNotReturn DEF IInv
  <2>2. at \in Blocks(source) /\ (at # M => source.term[at] # "ret")
    BY <1>1, <2>1, ProgramFacts DEF IInv, InPrologue
  <2> QED BY <1>1, <1>2, <2>1, <2>2 DEF IsBatchLoop
<1>4. at = ExitBlock /\ idx = BatchLength /\ InBatch'
  BY <1>1, <1>3, ReturnKeepsBatch DEF IInv, InBody
<1>5. RunInv'
  BY <1>1, <1>3, <1>4 DEF RunInv, InBody
<1>6. Packets!FinishBatch
  BY <1>1, <1>2, <1>3, <1>4, Places
     DEF IInv, InBody, Packets!FinishBatch, OriginalBlock, CurrentPacket, BatchLength, M
<1> QED BY <1>5, <1>6 DEF LoopStep, Packets!Next

LEMMA TrapStep == ASSUME IInv, EndAt("unreachable", "trapped") PROVE RunInv' /\ LoopStep
<1>1. /\ status = "running" /\ B.term[at] = "unreachable" /\ status' = "trapped" /\ HasLoop
      /\ UNCHANGED <<bmVars, N, at, idx, written, region>>
      /\ M' = M /\ source' = source /\ HasLoop'
  BY DEF IInv, RunInv, EndAt, M, bmVars, HasLoop
<1>2. /\ IsBatchLoop(source, R, M, B)
      /\ M \in Blocks(source) /\ R \in Blocks(source)
  BY <1>1, ProgramFacts DEF IInv
<1>3. at \notin LoopBlocks /\ at # ExitBlock /\ at # M /\ at # S
  BY <1>1, <1>2 DEF IsBatchLoop, S
<1>4. RunInv'
  <2>1. InPrologue => InPrologue'
    BY <1>1 DEF InPrologue, IsBefore
  <2>2. InBody => InBody'
    BY <1>1, TrapKeepsBatch DEF InBody
  <2> QED BY <1>1, <2>1, <2>2 DEF IInv, RunInv
<1>5. CurrentPacket = idx /\ CurrentPacket' = idx
  BY <1>1, <1>3 DEF CurrentPacket, LoopBlocks
<1>6. Packets!Trap
  <2>1. CASE InPrologue
    <3>1. OriginalBlock = at /\ OriginalBlock' = at /\ at # R
      BY <1>1, <1>3, <2>1, Places, PrologueDoesNotReturn DEF IInv, InPrologue, OriginalBlock
    <3>2. source.term[at] = "unreachable"
      BY <1>1, <1>2, <1>3, <2>1, <3>1 DEF InPrologue, IsBatchLoop
    <3> QED BY <1>1, <1>3, <1>5, <2>1, <3>1, <3>2 DEF InPrologue, Packets!Trap, M
  <2>2. CASE InBody
    <3>1. at = TasBlock \/ InCode
      BY <1>3, <2>2 DEF InBody, InBatch, InLoop, LoopBlocks
    <3>2. idx < N /\ OriginalBlock = BodyBlock /\ OriginalBlock' = BodyBlock
      BY <1>1, <1>3, <2>2, <3>1, Places
         DEF IInv, InBody, InBatch, InLoop, InCode, LoopBlocks, OriginalBlock, BodyBlock, M
    <3>3. source.term[BodyBlock] = "unreachable"
      <4>1. CASE at = TasBlock
        BY <1>1, <1>2, <1>3, <4>1 DEF IsBatchLoop, S, StoringBlock, BodyBlock
      <4>2. CASE InCode
        <5>1. at \in Blocks(source) \ {R, M} /\ at # TasBlock
          BY <1>1, <1>3, <4>2, Places DEF IInv, InCode, S, StoringBlock
        <5> QED BY <1>1, <1>2, <5>1 DEF IsBatchLoop, BodyBlock
      <4> QED BY <3>1, <4>1, <4>2
    <3> QED BY <1>1, <1>5, <2>2, <3>2, <3>3 DEF InBody, Packets!Trap, M
  <2> QED BY <1>1, <2>1, <2>2 DEF IInv, RunInv
<1> QED BY <1>4, <1>6 DEF LoopStep, Packets!Next

LEMMA PassIsBefore ==
  ASSUME MakeBatch
  PROVE  stage # "done" /\ source' = source /\ UNCHANGED <<N, callVars>>
BY DEF MakeBatch, BMNext, CloneFunction, ReplaceReturns, FindMarker, SplitAtMarker,
       ChooseExitingBlock, AddEmptyLoop, SetLoopBody, Stop

LEMMA PassStep == ASSUME IInv, MakeBatch PROVE RunInv' /\ LoopStep
<1>1. UNCHANGED <<N, callVars>> /\ stage # "done" /\ source' = source
  BY PassIsBefore
<1>2. status = "idle"
  BY <1>1 DEF IInv, RunInv, HasLoop
<1>3. RunInv'
  BY <1>1, <1>2 DEF IInv, RunInv, callVars
<1>4. UNCHANGED Packets!vars
  BY <1>1, <1>2 DEF Packets!vars, OriginalBlock, CurrentPacket, callVars
<1> QED BY <1>3, <1>4 DEF LoopStep

LEMMA NextKeepsInv == IInv /\ [BFNext]_bfVars => IInv' /\ LoopStep
<1> SUFFICES ASSUME IInv, [BFNext]_bfVars PROVE IInv' /\ LoopStep
  OBVIOUS
<1>1. CASE MakeBatch
  BY <1>1, PassKeepsInv, PassStep, PassIsBefore DEF IInv
<1>2. ASSUME UNCHANGED <<bmVars, N>>, RunInv' PROVE IInv'
  BY <1>2, RunKeepsPass DEF IInv, bmVars
<1>3. CASE Call
  BY <1>2, <1>3, CallStep DEF Call
<1>4. CASE RunPreHeader
  BY <1>2, <1>4, PreHeaderStep DEF RunPreHeader
<1>5. CASE RunHeader
  BY <1>2, <1>5, HeaderStep DEF RunHeader
<1>6. CASE RunLatch
  BY <1>2, <1>6, LatchStep DEF RunLatch
<1>7. CASE RunBlock
  <2>1. HasLoop /\ (InPrologue \/ InBody)
    BY <1>7 DEF IInv, RunInv, RunBlock
  <2> QED BY <1>2, <1>7, <2>1, PrologueStep, BodyStep DEF RunBlock
<1>8. CASE EndAt("ret", "returned")
  BY <1>2, <1>8, ReturnStep DEF EndAt
<1>9. CASE EndAt("unreachable", "trapped")
  BY <1>2, <1>9, TrapStep DEF EndAt
<1>10. CASE UNCHANGED bfVars
  <2>1. RunInv'
    BY <1>10, StutterKeepsBatch
       DEF IInv, RunInv, bfVars, bmVars, callVars, HasLoop, InPrologue, InBody, IsBefore, M
  <2>2. UNCHANGED Packets!vars
    BY <1>10 DEF Packets!vars, OriginalBlock, CurrentPacket, bfVars, bmVars, callVars
  <2> QED BY <1>2, <1>10, <2>1, <2>2 DEF LoopStep, bfVars
<1> QED BY <1>1, <1>3, <1>4, <1>5, <1>6, <1>7, <1>8, <1>9, <1>10 DEF BFNext

LEMMA Invariance == SupportedInit /\ [][BFNext]_bfVars => []IInv
BY IInvInit, NextKeepsInv, PTL

(***************************************************************************)
(* The batched form of a supported function runs the code before the       *)
(* marker once and the code after it for each packet of the batch, in      *)
(* order: it implements the loop over packets.                             *)
(***************************************************************************)
THEOREM BatchImplementsLoop == BFSpec /\ SupportsBatch(source) => PacketLoopSpec
<1>1. SupportedInit => Packets!Init
  BY CreatedBlockAssumption
     DEF CreatedBlocks, LoopBlocks, SupportedInit, BFInit, BMInit, Packets!Init, Packets!Entry,
         Entry, OriginalBlock, CurrentPacket
<1>2. IInv /\ [BFNext]_bfVars => [Packets!Next]_(Packets!vars)
  BY NextKeepsInv DEF LoopStep
<1> QED
  BY Invariance, <1>1, <1>2, PTL DEF BFSpec, SupportedInit, PacketLoopSpec, Packets!Spec

(***************************************************************************)
(* Each packet of the batch gets its result exactly once and in order, and *)
(* no result is stored outside of the batch, also if it is empty.          *)
(***************************************************************************)
THEOREM ResultsInOrder == BFSpec /\ SupportsBatch(source) => []EachPacketOnce
<1>1. ASSUME IInv PROVE EachPacketOnce
  <2>1. CASE written = <<>> /\ status # "returned"
    BY <1>1, <2>1, BatchSizeAssumption, NothingIsInOrder DEF IInv, PassInv
  <2>2. CASE InBody /\ HasLoop
    BY <1>1, <2>2, BatchIsInOrder DEF IInv, InBody
  <2> QED BY <1>1, <2>1, <2>2 DEF IInv, RunInv, InPrologue
<1> QED BY Invariance, <1>1, PTL DEF BFSpec, SupportedInit

-----------------------------------------------------------------------------
(* The run of any function that can be called, which is one with one       *)
(* return.  Before the first packet control may be anywhere in the code of *)
(* the function: a return that comes before the marker finishes the first  *)
(* packet.                                                                 *)

FirstPass ==
  /\ status # "returned"
  /\ idx = 0
  /\ written = <<>>
  /\ at \in Blocks(source)

OpenRun ==
  status # "idle" /\ HasLoop /\ N > 0 /\ MarkerIsPassedOnce(source) => FirstPass \/ InBatch

TypedRun ==
  /\ status \in {"idle", "running", "returned", "trapped"}
  /\ region \in {"prologue", "body"}
  /\ idx \in Nat
  /\ written \in Seq(Nat)
  /\ status = "idle" => at = NullBlock /\ written = <<>>
  /\ status # "idle" => stage = "done" /\ HasOneReturn(source) /\ at \in Blocks(B)

AnyInv ==
  /\ ShapeInv
  /\ HasOneReturn(source) => PassInv
  /\ TypedRun
  /\ OpenRun

LEMMA AnyInit == BFInit => AnyInv
<1> SUFFICES ASSUME BFInit PROVE AnyInv
  OBVIOUS
<1>1. written = <<>> /\ <<>> \in Seq(Nat)
  BY DEF BFInit
<1> QED BY <1>1, ShapeInit, PassInvInit DEF BFInit, AnyInv, TypedRun, OpenRun

(* A function with one return is left well formed. *)
LEMMA DoneIsWellFormed ==
  ASSUME PassInv, stage = "done"
  PROVE  /\ WellFormed(B) /\ Entry(B) = Entry(source)
         /\ ~HasMarker(source) => Blocks(B) = Blocks(source) \cup {ExitBlock}
<1>1. source \in BatchInputs /\ R \in Blocks(source) /\ source.term[R] = "ret"
  BY OneReturnBlock DEF PassInv
<1>2. CASE HasMarker(source)
  BY <1>1, <1>2, MarkerIsBlock, BatchedIsWellFormed, ProgramFacts DEF PassInv, HasLoop, IsBatchLoop
<1>3. CASE ~HasMarker(source)
  BY <1>1, <1>3, UnifiedIsWellFormed DEF PassInv
<1> QED BY <1>2, <1>3

(* The blocks of the loop are executed only if there is a loop. *)
LEMMA LoopIsThere ==
  ASSUME PassInv, stage = "done", at \in Blocks(B), at \in LoopBlocks
  PROVE  HasLoop
<1>1. at \notin Blocks(source) /\ at # ExitBlock
  BY BatchInputAssumption, CreatedBlockAssumption DEF PassInv, CreatedBlocks, LoopBlocks
<1> QED BY <1>1, DoneIsWellFormed DEF HasLoop

LEMMA CallKeepsType == ASSUME AnyInv, Call PROVE TypedRun' /\ OpenRun'
<1>1. /\ stage = "done" /\ status = "idle" /\ status' = "running" /\ IsComplete
      /\ at' = Entry(B) /\ idx' = 0 /\ written' = written /\ written = <<>>
      /\ UNCHANGED <<bmVars, N, region>>
  BY DEF Call, AnyInv, TypedRun
<1>2. HasOneReturn(source)
  BY <1>1 DEF AnyInv, ShapeInv, HasExit, IsComplete
<1>3. /\ WellFormed(B) /\ Entry(B) = Entry(source)
      /\ Entry(B) \in Blocks(B) /\ Entry(source) \in Blocks(source)
  <2>1. WellFormed(B) /\ Entry(B) = Entry(source)
    BY <1>1, <1>2, DoneIsWellFormed DEF AnyInv
  <2>2. WellFormed(source)
    BY BatchInputAssumption DEF AnyInv, ShapeInv
  <2> QED BY <2>1, <2>2, EntryIsBlock
<1>4. TypedRun'
  BY <1>1, <1>2, <1>3 DEF AnyInv, TypedRun, bmVars, HasOneReturn
<1>5. FirstPass'
  BY <1>1, <1>3 DEF FirstPass, bmVars
<1> QED BY <1>4, <1>5 DEF OpenRun

(* What is known of a step of the run. *)
LEMMA Running ==
  ASSUME AnyInv, status = "running"
  PROVE  /\ PassInv /\ stage = "done" /\ HasOneReturn(source) /\ WellFormed(B) /\ at \in Blocks(B)
         /\ at \in LoopBlocks => HasLoop
BY DoneIsWellFormed, LoopIsThere DEF AnyInv, TypedRun

LEMMA PreHeaderKeepsType == ASSUME AnyInv, RunPreHeader PROVE TypedRun' /\ OpenRun'
<1>1. /\ status = "running" /\ at = PreHeader /\ at' = B.succ[PreHeader][1] /\ idx' = 0
      /\ UNCHANGED <<bmVars, N, written, region, status>>
  BY DEF RunPreHeader, IsRunningAt
<1>2. PassInv /\ stage = "done" /\ HasOneReturn(source) /\ HasLoop
  BY <1>1, Running DEF LoopBlocks
<1>3. at' \in Blocks(B)
  BY <1>1, <1>2, ProgramFacts DEF IsBatchLoop, AllBlocks, LoopBlocks
<1>4. TypedRun'
  BY <1>1, <1>2, <1>3 DEF AnyInv, TypedRun, bmVars, HasOneReturn
<1>5. ~FirstPass
  BY <1>1, <1>2, Places DEF FirstPass
<1>6. OpenRun'
  BY <1>1, <1>2, <1>5, PreHeaderKeepsBatch DEF AnyInv, OpenRun, bmVars
<1> QED BY <1>4, <1>6

LEMMA HeaderKeepsType == ASSUME AnyInv, RunHeader PROVE TypedRun' /\ OpenRun'
<1>1. /\ status = "running" /\ at = Header
      /\ at' = IF RunsBody THEN B.succ[Header][1] ELSE B.succ[Header][2]
      /\ UNCHANGED <<bmVars, N, idx, written, region, status>>
  BY DEF RunHeader, IsRunningAt
<1>2. PassInv /\ stage = "done" /\ HasOneReturn(source) /\ HasLoop
  BY <1>1, Running DEF LoopBlocks
<1>3. at' \in Blocks(B)
  BY <1>1, <1>2, ProgramFacts DEF IsBatchLoop, AllBlocks, CodeBlocks
<1>4. TypedRun'
  BY <1>1, <1>2, <1>3 DEF AnyInv, TypedRun, bmVars, HasOneReturn
<1>5. ~FirstPass
  BY <1>1, <1>2, Places DEF FirstPass
<1>6. OpenRun'
  BY <1>1, <1>2, <1>5, HeaderKeepsBatch DEF AnyInv, OpenRun, bmVars
<1> QED BY <1>4, <1>6

LEMMA LatchKeepsType == ASSUME AnyInv, RunLatch PROVE TypedRun' /\ OpenRun'
<1>1. /\ status = "running" /\ at = Latch /\ at' = B.succ[Latch][1] /\ idx' = idx + 1
      /\ UNCHANGED <<bmVars, N, written, region, status>>
  BY DEF RunLatch, IsRunningAt
<1>2. PassInv /\ stage = "done" /\ HasOneReturn(source) /\ HasLoop
  BY <1>1, Running DEF LoopBlocks
<1>3. at' \in Blocks(B)
  BY <1>1, <1>2, ProgramFacts DEF IsBatchLoop, AllBlocks, LoopBlocks
<1>4. TypedRun'
  BY <1>1, <1>2, <1>3 DEF AnyInv, TypedRun, bmVars, HasOneReturn
<1>5. ~FirstPass
  BY <1>1, <1>2, Places DEF FirstPass
<1>6. OpenRun'
  BY <1>1, <1>2, <1>5, LatchKeepsBatch DEF AnyInv, OpenRun, bmVars
<1> QED BY <1>4, <1>6

(* In the first pass control follows the function itself, comes to the     *)
(* marker and starts the loop, or comes to the return and finishes the     *)
(* first packet.                                                           *)
LEMMA FirstPassStep ==
  ASSUME PassInv, HasLoop, N > 0, FirstPass, RunBlock
  PROVE  (FirstPass \/ InBatch)'
<1>1. /\ status = "running" /\ at' \in Successors(B, at)
      /\ UNCHANGED <<bmVars, N, idx, status>>
      /\ idx = 0 /\ written = <<>> /\ source' = source
  BY DEF RunBlock, FirstPass, bmVars
<1>2. /\ IsBatchLoop(source, R, M, B) /\ Returning = {S} /\ N \in Int
      /\ at \in Blocks(source) /\ M \in Blocks(source) /\ R \in Blocks(source)
  BY ProgramFacts DEF FirstPass
<1>3. CASE at = M
  <2>1. at' = PreHeader /\ at \notin Returning
    BY <1>1, <1>2, <1>3, Places DEF IsBatchLoop, Successors, S, StoringBlock
  <2>2. written' = <<>>
    BY <1>1, <2>1 DEF RunBlock
  <2>3. InBatch'
    BY <1>1, <2>1, <2>2, Places DEF InBatch, InLoop
  <2> QED BY <2>3
<1>4. CASE at = R /\ at # M
  <2>1. at' = Latch /\ at \in Returning
    BY <1>1, <1>2, <1>4 DEF IsBatchLoop, Successors, S, StoringBlock
  <2>2. written' = <<0>>
    BY <1>1, <2>1 DEF RunBlock
  <2>3. InBatch'
    BY <1>1, <1>2, <2>1, <2>2, Places DEF InBatch, InLoop
  <2> QED BY <2>3
<1>5. CASE at \notin {M, R}
  <2>1. at' \in Successors(source, at)
    BY <1>1, <1>2, <1>5 DEF IsBatchLoop, Successors
  <2>2. at' \in Blocks(source) /\ at \notin Returning
    BY <1>2, <1>5, <2>1, ProgramFacts, Places DEF S, StoringBlock
  <2>3. written' = <<>>
    BY <1>1, <2>2 DEF RunBlock
  <2>4. FirstPass'
    BY <1>1, <2>2, <2>3 DEF FirstPass
  <2> QED BY <2>4
<1> QED BY <1>3, <1>4, <1>5

LEMMA BlockKeepsType == ASSUME AnyInv, RunBlock PROVE TypedRun' /\ OpenRun'
<1>1. /\ status = "running" /\ at' \in Successors(B, at)
      /\ UNCHANGED <<bmVars, N, idx, status>>
      /\ written' = (IF at \in Returning THEN Append(written, idx) ELSE written)
      /\ region' = (IF at' = PreHeader THEN "body" ELSE region)
  BY DEF RunBlock
<1>2. PassInv /\ stage = "done" /\ HasOneReturn(source) /\ WellFormed(B) /\ at \in Blocks(B)
  BY <1>1, Running
<1>3. at' \in Blocks(B)
  BY <1>1, <1>2 DEF WellFormed, Successors
<1>4. written' \in Seq(Nat)
  BY <1>1 DEF AnyInv, TypedRun
<1>5. TypedRun'
  BY <1>1, <1>2, <1>3, <1>4 DEF AnyInv, TypedRun, bmVars, HasOneReturn
<1>6. ASSUME HasLoop, N > 0, MarkerIsPassedOnce(source) PROVE (FirstPass \/ InBatch)'
  BY <1>1, <1>2, <1>6, FirstPassStep, EndOfPacketKeepsBatch, BodyKeepsBatch DEF AnyInv, OpenRun
<1>7. OpenRun'
  <2>1. (HasLoop /\ N > 0 /\ MarkerIsPassedOnce(source))' <=> HasLoop /\ N > 0 /\ MarkerIsPassedOnce(source)
    BY <1>1 DEF HasLoop, bmVars
  <2> QED BY <1>6, <2>1 DEF OpenRun
<1> QED BY <1>5, <1>7

(* The blocks of the function itself do not return any more. *)
LEMMA FirstPassDoesNotReturn ==
  ASSUME PassInv, HasLoop, FirstPass
  PROVE  B.term[at] # "ret"
<1>1. CASE at = M
  BY <1>1, ProgramFacts DEF IsBatchLoop
<1>2. CASE at = R /\ at # M
  BY <1>2, ProgramFacts DEF IsBatchLoop, S, StoringBlock
<1>3. CASE at \notin {M, R}
  BY <1>3, ProgramFacts DEF FirstPass, IsBatchLoop
<1> QED BY <1>1, <1>2, <1>3

LEMMA ReturnKeepsType == ASSUME AnyInv, EndAt("ret", "returned") PROVE TypedRun' /\ OpenRun'
<1>1. /\ status = "running" /\ status' = "returned" /\ B.term[at] = "ret"
      /\ UNCHANGED <<bmVars, N, at, idx, written, region>>
  BY DEF EndAt
<1>2. PassInv /\ stage = "done" /\ HasOneReturn(source) /\ at \in Blocks(B)
  BY <1>1, Running
<1>3. TypedRun'
  BY <1>1, <1>2 DEF AnyInv, TypedRun, bmVars, HasOneReturn
<1>4. HasLoop /\ (FirstPass \/ InBatch) => InBatch'
  BY <1>1, <1>2, FirstPassDoesNotReturn, ReturnKeepsBatch
<1>5. OpenRun'
  BY <1>1, <1>4 DEF AnyInv, OpenRun, bmVars, HasLoop
<1> QED BY <1>3, <1>5

LEMMA TrapKeepsType == ASSUME AnyInv, EndAt("unreachable", "trapped") PROVE TypedRun' /\ OpenRun'
<1>1. /\ status = "running" /\ status' = "trapped"
      /\ UNCHANGED <<bmVars, N, at, idx, written, region>>
  BY DEF EndAt
<1>2. PassInv /\ stage = "done" /\ HasOneReturn(source) /\ at \in Blocks(B)
  BY <1>1, Running
<1>3. TypedRun'
  BY <1>1, <1>2 DEF AnyInv, TypedRun, bmVars, HasOneReturn
<1>4. FirstPass \/ InBatch => (FirstPass \/ InBatch)'
  BY <1>1, TrapKeepsBatch DEF FirstPass, bmVars
<1>5. OpenRun'
  BY <1>1, <1>4 DEF AnyInv, OpenRun, bmVars, HasLoop
<1> QED BY <1>3, <1>5

LEMMA PassKeepsType == ASSUME AnyInv, MakeBatch PROVE TypedRun' /\ OpenRun'
BY PassIsBefore DEF AnyInv, TypedRun, OpenRun, callVars

LEMMA StutterKeepsType == ASSUME AnyInv, UNCHANGED bfVars PROVE TypedRun' /\ OpenRun'
<1>1. FirstPass \/ InBatch => (FirstPass \/ InBatch)'
  BY StutterKeepsBatch DEF FirstPass, bfVars, bmVars, callVars
<1> QED BY <1>1 DEF AnyInv, TypedRun, OpenRun, HasLoop, HasOneReturn, bfVars, bmVars, callVars

LEMMA NextKeepsAnyInv == AnyInv /\ [BFNext]_bfVars => AnyInv'
<1> SUFFICES ASSUME AnyInv, [BFNext]_bfVars PROVE AnyInv'
  OBVIOUS
<1>1. TypedRun' /\ OpenRun'
  BY CallKeepsType, PreHeaderKeepsType, HeaderKeepsType, LatchKeepsType, BlockKeepsType,
     ReturnKeepsType, TrapKeepsType, PassKeepsType, StutterKeepsType
     DEF BFNext
<1>2. MakeBatch \/ UNCHANGED <<bmVars, N>>
  BY DEF BFNext, Call, RunPreHeader, RunHeader, RunLatch, RunBlock, EndAt, bfVars
<1>3. ShapeInv'
  BY <1>2, ShapeKept, RunKeepsShape DEF AnyInv
<1>4. HasOneReturn(source)' <=> HasOneReturn(source)
  BY <1>2, PassIsBefore DEF bmVars
<1>5. HasOneReturn(source) => PassInv'
  BY <1>2, PassKeepsInv, RunKeepsPass DEF AnyInv
<1> QED BY <1>1, <1>3, <1>4, <1>5 DEF AnyInv

LEMMA AnyInvariance == BFSpec => []AnyInv
BY AnyInit, NextKeepsAnyInv, PTL DEF BFSpec

(***************************************************************************)
(* The variables of the pass and of the call have their types, whatever    *)
(* function the pass is given.                                             *)
(***************************************************************************)
THEOREM BatchTypes == BFSpec => []BMTypeOK
<1>1. AnyInv => BMTypeOK
  BY DEF AnyInv, ShapeInv, TypedRun, BMTypeOK, AllStages
<1> QED BY <1>1, AnyInvariance, PTL

(***************************************************************************)
(* A function with one return is left well formed, with or without a       *)
(* marker, and the pass fails on it exactly if the scan for the marker     *)
(* (findBatchBeginMarkerInstruction) comes to an indirect call first.      *)
(***************************************************************************)
THEOREM OneReturnTransformed == BFSpec => []OneReturnIsTransformed
<1>1. AnyInv => OneReturnIsTransformed
  BY DoneIsWellFormed DEF AnyInv, PassInv, OneReturnIsTransformed
<1> QED BY <1>1, AnyInvariance, PTL

(***************************************************************************)
(* Also a function that can return before it comes to the marker gives     *)
(* each packet of a batch that is not empty its result once and in order.  *)
(***************************************************************************)
THEOREM NonEmptyBatchesInOrder == BFSpec => []NonEmptyBatchInOrder
<1>1. ASSUME AnyInv, marker # NullBlock, N > 0, MarkerIsPassedOnce(source) PROVE EachPacketOnce
  <2>1. N \in Int
    BY <1>1, BatchSizeAssumption DEF AnyInv, ShapeInv
  <2>2. CASE status = "idle"
    BY <1>1, <2>1, <2>2, NothingIsInOrder DEF AnyInv, TypedRun
  <2>3. CASE status # "idle"
    <3>1. PassInv /\ stage = "done"
      BY <1>1, <2>3 DEF AnyInv, TypedRun
    <3>2. HasLoop
      BY <1>1, <3>1 DEF PassInv, HasLoop
    <3>3. FirstPass \/ InBatch
      BY <1>1, <2>3, <3>2 DEF AnyInv, OpenRun
    <3> QED BY <2>1, <3>1, <3>2, <3>3, NothingIsInOrder, BatchIsInOrder DEF FirstPass
  <2> QED BY <2>2, <2>3
<1>2. AnyInv => NonEmptyBatchInOrder
  BY <1>1 DEF NonEmptyBatchInOrder
<1> QED BY <1>2, AnyInvariance, PTL
=============================================================================
