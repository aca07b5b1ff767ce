---------------------------- MODULE SplitRunProofs ----------------------------
(***************************************************************************)
(* How packets go through what the loop splitter makes of a supported      *)
(* function of any size.  All packets come to each cut, and this is still  *)
(* so after blocks were cut; hence each set of blocks that the walk leaves *)
(* begins behind the one before it and ends with its cut.  The loops that  *)
(* get the sets follow one another, so that together they take each packet *)
(* on one way through the body; and what a packet has put into its place   *)
(* of an array is there when it comes to a block that reads it.            *)
(***************************************************************************)
EXTENDS SplitFunctionProofs

-----------------------------------------------------------------------------

(* All ways from the begin of the body to c stay in S before they come to  *)
(* c.                                                                      *)
LeadsTo(s, L, S, c) ==
  /\ S \subseteq Body(L) \ {c}
  /\ BodyBegin(s, L) \in S \cup {c}
  /\ \A x \in S : SuccessorsOf(s, x) \subseteq S \cup {c}

(* All packets come to c. *)
AllCome(s, L, c) == \E S \in SUBSET Body(L) : LeadsTo(s, L, S, c)

(* The loop is entered from the entry only, through its preheader. *)
IsEntered(s, L) ==
  /\ L.PreHeader \in DOMAIN s \ (L.Blocks \cup {Entry})
  /\ s[Entry] = <<L.PreHeader>>
  /\ s[L.PreHeader] = <<L.Header>>
  /\ \A b \in DOMAIN s \ {Entry} : L.PreHeader \notin SuccessorsOf(s, b)
  /\ \A b \in DOMAIN s \ (L.Blocks \cup {L.PreHeader}) : L.Header \notin SuccessorsOf(s, b)

(* Each variable that a block takes from another one is set by a block     *)
(* that all packets come to, and without this one.                         *)
SetsOK(c, s, L) ==
  \A b \in Body(L) : \A v \in ReadFirstIn(c, b) :
    \E a \in Body(L) \ {b} : \E S \in SUBSET (Body(L) \ {b}) :
      <<"set", v>> \in Range(c[a]) /\ LeadsTo(s, L, S, a)

(* Any variable but those in vars is set by the block that reads it, and   *)
(* there is no mark of points between.                                     *)
LocalsOK(c, L, vars, points) ==
  \A b \in Body(L) : \A k \in DOMAIN c[b] : \A v \in Variables \ Range(vars) :
    c[b][k] \in {<<"read", v>>, <<"deref", v>>, <<"point", v>>} =>
      \E j \in 1 .. k - 1 :
        c[b][j] = <<"set", v>> /\ \A l \in j + 1 .. k : \A w \in points : c[b][l] # <<"point", w>>

(* No code outside the body uses a variable. *)
OutsideOK(c, L) ==
  \A b \in DOMAIN c \ Body(L) : \A k \in DOMAIN c[b] : c[b][k][1] \in {"annotate", "gep", "other"}

(* What is kept of a supported function while its blocks are split ...     *)
WaysKept ==
  /\ IsEntered(succ, loop)
  /\ OutsideOK(code, loop)
  /\ \A c \in Range(EndBlocks) : Len(succ[c]) = 1 /\ AllCome(succ, loop, c)
  /\ \A j \in i .. Len(VarUsePoints) : \A p \in Points(j) : AllCome(succ, loop, p[1])
  /\ SetsOK(code, succ, loop)
  /\ LocalsOK(code, loop, AnnotatedVars, {VarUsePoints[j] : j \in i .. Len(VarUsePoints)})

(* ... and afterwards. *)
WaysFound ==
  /\ IsEntered(body, loop)
  /\ OutsideOK(code, loop)
  /\ \A c \in Cuts : Len(body[c]) = 1 /\ AllCome(body, loop, c)
  /\ SetsOK(code, body, loop)
  /\ \A b \in Body(loop) : ReadFirstIn(code, b) \subseteq Range(AnnotatedVars)
  /\ arrays = Range(AnnotatedVars)

(* A block that all packets come to is one also when a block is cut; of    *)
(* that block both parts are.                                              *)
LEMMA WaysAfterCut ==
  ASSUME NEW s, NEW t, NEW b, NEW new, IsSplit(s, t, b, new),
         NEW L, IsLoop(s, L), b \in Body(L),
         NEW S, NEW c \in Body(L), LeadsTo(s, L, S, c)
  PROVE  LET M == LoopAfter(L, b, new) IN
         /\ c # b => LeadsTo(t, M, IF b \in S THEN S \cup {new} ELSE S, c)
         /\ c = b => LeadsTo(t, M, S, b) /\ LeadsTo(t, M, S \cup {b}, new)
<1> DEFINE M == LoopAfter(L, b, new)
<1>0. SplitsInto(s, t, b, new)
  BY SplitEdges
<1>1. Body(M) = Body(L) \cup {new} /\ new \notin Body(L)
  BY SplitConnected
<1>2. /\ SuccessorsOf(t, b) = {new} /\ SuccessorsOf(t, new) = SuccessorsOf(s, b)
      /\ \A a \in Body(L) \ {b} : SuccessorsOf(t, a) = SuccessorsOf(s, a)
      /\ b # new
  BY <1>0 DEF SplitsInto, IsLoop, Body
<1>3. BodyBegin(t, M) = BodyBegin(s, L)
  <2>1. M.Header = L.Header /\ L.Header # b /\ L.Header \in DOMAIN s
    BY DEF LoopAfter, Body, IsLoop
  <2> QED BY <1>0, <2>1 DEF SplitsInto, BodyBegin
<1>4. /\ S \subseteq Body(L) \ {c} /\ BodyBegin(s, L) \in S \cup {c}
      /\ \A x \in S : SuccessorsOf(s, x) \subseteq S \cup {c}
  BY DEF LeadsTo
<1> HIDE DEF M
<1>5. ASSUME c # b PROVE LeadsTo(t, M, IF b \in S THEN S \cup {new} ELSE S, c)
  <2>1. CASE b \in S
    <3>1. ASSUME NEW x \in S \cup {new} PROVE SuccessorsOf(t, x) \subseteq S \cup {new} \cup {c}
      <4>1. CASE x = b
        BY <1>2, <4>1
      <4>2. CASE x = new
        BY <1>2, <1>4, <2>1, <4>2
      <4>3. CASE x # b /\ x # new
        BY <1>2, <1>4, <3>1, <4>3
      <4> QED BY <4>1, <4>2, <4>3
    <3> QED BY <1>1, <1>3, <1>4, <2>1, <3>1 DEF LeadsTo
  <2>2. CASE b \notin S
    BY <1>1, <1>2, <1>3, <1>4, <2>2 DEF LeadsTo
  <2> QED BY <2>1, <2>2
<1>6. ASSUME c = b PROVE LeadsTo(t, M, S, b) /\ LeadsTo(t, M, S \cup {b}, new)
  <2>1. LeadsTo(t, M, S, b)
    BY <1>1, <1>2, <1>3, <1>4, <1>6 DEF LeadsTo
  <2>2. ASSUME NEW x \in S \cup {b} PROVE SuccessorsOf(t, x) \subseteq S \cup {b} \cup {new}
    <3>1. CASE x = b
      BY <1>2, <3>1
    <3>2. CASE x # b
      BY <1>2, <1>4, <1>6, <3>2
    <3> QED BY <3>1, <3>2
  <2>3. LeadsTo(t, M, S \cup {b}, new)
    BY <1>1, <1>3, <1>4, <1>6, <2>2 DEF LeadsTo
  <2> QED BY <2>1, <2>3
<1> QED BY <1>5, <1>6 DEF M

(* All packets still come to it, and then to what was cut off.             *)
LEMMA AllComeAfterCut ==
  ASSUME NEW s, NEW t, NEW b, NEW new, IsSplit(s, t, b, new),
         NEW L, IsLoop(s, L), b \in Body(L),
         NEW c \in Body(L), AllCome(s, L, c)
  PROVE  /\ AllCome(t, LoopAfter(L, b, new), c)
         /\ c = b => AllCome(t, LoopAfter(L, b, new), new)
<1> DEFINE M == LoopAfter(L, b, new)
<1>1. PICK S \in SUBSET Body(L) : LeadsTo(s, L, S, c)
  BY DEF AllCome
<1>2. /\ c # b => LeadsTo(t, M, IF b \in S THEN S \cup {new} ELSE S, c)
      /\ c = b => LeadsTo(t, M, S, b) /\ LeadsTo(t, M, S \cup {b}, new)
  BY <1>1, WaysAfterCut
<1>3. Body(M) = Body(L) \cup {new}
  BY SplitConnected
<1> HIDE DEF M
<1>4. c # b => AllCome(t, M, c)
  <2>1. (IF b \in S THEN S \cup {new} ELSE S) \in SUBSET Body(M)
    BY <1>1, <1>3
  <2> QED BY <1>2, <2>1 DEF AllCome
<1>5. c = b => AllCome(t, M, b) /\ AllCome(t, M, new)
  <2>1. S \in SUBSET Body(M) /\ S \cup {b} \in SUBSET Body(M)
    BY <1>1, <1>3
  <2> QED BY <1>2, <2>1 DEF AllCome
<1> QED BY <1>4, <1>5 DEF M

(* A cut in the body does not change how the loop is entered.              *)
LEMMA EnteredAfterCut ==
  ASSUME NEW s, NEW t, NEW b, NEW new, IsSplit(s, t, b, new),
         NEW L, IsLoop(s, L), b \in Body(L), IsEntered(s, L)
  PROVE  IsEntered(t, LoopAfter(L, b, new))
<1> DEFINE M == LoopAfter(L, b, new)
<1>0. SplitsInto(s, t, b, new)
  BY SplitEdges
<1>1. /\ b \in L.Blocks /\ L.Blocks \subseteq DOMAIN s /\ Entry \notin L.Blocks
      /\ L.PreHeader \in DOMAIN s \ (L.Blocks \cup {Entry})
      /\ s[Entry] = <<L.PreHeader>> /\ s[L.PreHeader] = <<L.Header>>
      /\ b # L.Latch /\ L.Header \in L.Blocks
      /\ \A a \in L.Blocks \ {L.Latch} : L.Header \notin SuccessorsOf(s, a)
  BY DEF IsLoop, Body, IsEntered
<1>2. /\ M.Header = L.Header /\ M.PreHeader = L.PreHeader /\ M.Blocks = L.Blocks \cup {new}
  BY <1>1 DEF LoopAfter
<1>3. /\ DOMAIN t = DOMAIN s \cup {new} /\ new \notin DOMAIN s
      /\ SuccessorsOf(t, b) = {new} /\ SuccessorsOf(t, new) = SuccessorsOf(s, b)
      /\ \A a \in DOMAIN s \ {b} : SuccessorsOf(t, a) = SuccessorsOf(s, a) /\ t[a] = s[a]
  BY <1>0 DEF SplitsInto
<1>4. Entry \in DOMAIN s
  BY DEF IsSplit, IsNumbered, Entry
<1> HIDE DEF M
<1>5. ASSUME NEW a \in DOMAIN t \ {Entry} PROVE L.PreHeader \notin SuccessorsOf(t, a)
  <2>1. \A x \in DOMAIN s \ {Entry} : L.PreHeader \notin SuccessorsOf(s, x)
    BY DEF IsEntered
  <2>2. CASE a = b
    BY <1>1, <1>3, <2>2
  <2>3. CASE a = new
    BY <1>1, <1>3, <2>1, <2>3
  <2>4. CASE a # b /\ a # new
    BY <1>3, <2>1, <2>4
  <2> QED BY <2>2, <2>3, <2>4
<1>6. ASSUME NEW a \in DOMAIN t \ (M.Blocks \cup {M.PreHeader}) PROVE M.Header \notin SuccessorsOf(t, a)
  <2>1. \A x \in DOMAIN s \ (L.Blocks \cup {L.PreHeader}) : L.Header \notin SuccessorsOf(s, x)
    BY DEF IsEntered
  <2>2. a \in DOMAIN s \ (L.Blocks \cup {L.PreHeader}) /\ a # b
    BY <1>1, <1>2, <1>3
  <2> QED BY <1>2, <1>3, <2>1, <2>2
<1>7. t[Entry] = <<L.PreHeader>> /\ t[L.PreHeader] = <<L.Header>>
  BY <1>1, <1>3, <1>4
<1>8. M.PreHeader \in DOMAIN t \ (M.Blocks \cup {Entry})
  BY <1>1, <1>2, <1>3
<1>9. IsEntered(t, M)
  BY <1>2, <1>5, <1>6, <1>7, <1>8 DEF IsEntered
<1> QED BY <1>9 DEF M

(* The code outside of the body is not changed by a cut.                   *)
LEMMA OutsideAfterCut ==
  ASSUME NEW c, NEW d, NEW b, NEW k, NEW new, NEW v, IsCut(c, d, b, k, new, v),
         NEW L, NEW M, Body(M) = Body(L) \cup {new}, b \in Body(L), OutsideOK(c, L)
  PROVE  OutsideOK(d, M)
<1>1. CutParts(c, d, b, k, new, v)
  BY CutCode
<1>2. \A a \in DOMAIN d \ Body(M) : a \in DOMAIN c \ Body(L) /\ a # b /\ d[a] = c[a]
  BY <1>1 DEF CutParts
<1> QED BY <1>2 DEF OutsideOK

(* A variable that is read first at the k-th instruction.                  *)
LEMMA ReadAt ==
  ASSUME NEW c, NEW b, NEW v
  PROVE  v \in ReadFirstIn(c, b) <=>
           \E k \in DOMAIN c[b] :
             /\ c[b][k] \in {<<"read", v>>, <<"deref", v>>, <<"point", v>>}
             /\ \A j \in 1 .. k - 1 : c[b][j] # <<"set", v>>
<1>1. ASSUME NEW k \in DOMAIN c[b], c[b][k] \in {<<"read", v>>, <<"deref", v>>, <<"point", v>>}
      PROVE  v \in {c[b][j][2] : j \in DOMAIN c[b]}
  <2>1. c[b][k][2] = v
    BY <1>1
  <2> QED BY <2>1
<1> QED BY <1>1 DEF ReadFirstIn

(* What a cut block reads first, either of its parts or what it has set    *)
(* before; what it sets, one of its parts sets.                            *)
LEMMA ReadsAfterCut ==
  ASSUME NEW c, NEW d, NEW b, NEW k, NEW new, NEW v, IsCut(c, d, b, k, new, v)
  PROVE  /\ \A a \in DOMAIN c \ {b} : ReadFirstIn(d, a) = ReadFirstIn(c, a)
         /\ ReadFirstIn(d, b) \subseteq ReadFirstIn(c, b)
         /\ \A w \in ReadFirstIn(d, new) : w \in ReadFirstIn(c, b) \/ <<"set", w>> \in Range(d[b])
         /\ \A w : <<"set", w>> \in Range(c[b]) =>
              <<"set", w>> \in Range(d[b]) \/ <<"set", w>> \in Range(d[new])
<1> DEFINE list == c[b]
           n == Len(list)
           tail == d[new]
<1>1. CutParts(c, d, b, k, new, v)
  BY CutCode
<1>2. /\ \A a \in DOMAIN c \ {b} : d[a] = c[a]
      /\ k \in Nat \ {0} /\ DOMAIN d[b] = 1 .. k
      /\ \A j \in 1 .. k - 1 : j \in DOMAIN list /\ d[b][j] = list[j]
      /\ d[b][k] = <<"prefetch", v>>
      /\ \A j \in DOMAIN list : j < k \/ (j - k + 1 \in DOMAIN d[new] /\ d[new][j - k + 1] = list[j])
  BY <1>1 DEF CutParts
<1>3. n \in Nat /\ DOMAIN list = 1 .. n /\ k \in 1 .. n
  <2> DEFINE I == AllInstructions
  <2>1. list \in Seq(I) /\ k \in DOMAIN list
    BY DEF IsCut
  <2> HIDE DEF I, list
  <2> QED BY <2>1
<1>4. DOMAIN tail = 1 .. n - k + 1 /\ \A j \in 1 .. n - k + 1 : tail[j] = list[k + j - 1]
  <2> DEFINE I == AllInstructions
  <2>1. list \in Seq(I) /\ tail = SubSeq(list, k, n)
    BY DEF IsCut
  <2> HIDE DEF I, list, tail
  <2> QED BY <1>3, <2>1
<1>5. ASSUME NEW a \in DOMAIN c \ {b} PROVE ReadFirstIn(d, a) = ReadFirstIn(c, a)
  <2>1. d[a] = c[a]
    BY <1>2
  <2> QED BY <2>1 DEF ReadFirstIn
<1>6. ASSUME NEW w \in ReadFirstIn(d, b) PROVE w \in ReadFirstIn(c, b)
  <2>1. PICK j \in 1 .. k :
          /\ d[b][j] \in {<<"read", w>>, <<"deref", w>>, <<"point", w>>}
          /\ \A x \in 1 .. j - 1 : d[b][x] # <<"set", w>>
    <3>1. w \in ReadFirstIn(d, b)
      BY <1>6
    <3> QED BY <1>2, <3>1 DEF ReadFirstIn
  <2>2. j # k
    BY <1>2, <2>1
  <2>3. j \in 1 .. k - 1 /\ \A x \in 1 .. j - 1 : x \in 1 .. k - 1
    BY <1>2, <2>2
  <2>4. j \in DOMAIN c[b] /\ c[b][j] \in {<<"read", w>>, <<"deref", w>>, <<"point", w>>}
    <3>1. j \in DOMAIN list /\ d[b][j] = list[j]
      BY <1>2, <2>3
    <3> QED BY <2>1, <3>1
  <2>5. \A x \in 1 .. j - 1 : c[b][x] # <<"set", w>>
    <3>1. \A x \in 1 .. j - 1 : d[b][x] = list[x]
      BY <1>2, <2>3
    <3> QED BY <2>1, <3>1
  <2> QED BY <2>4, <2>5, ReadAt
<1> HIDE DEF tail
<1>7. ASSUME NEW w \in ReadFirstIn(d, new), ~(<<"set", w>> \in Range(d[b])) PROVE w \in ReadFirstIn(c, b)
  <2>1. PICK j \in DOMAIN d[new] :
          /\ d[new][j] \in {<<"read", w>>, <<"deref", w>>, <<"point", w>>}
          /\ \A x \in 1 .. j - 1 : d[new][x] # <<"set", w>>
    <3>1. w \in ReadFirstIn(d, new)
      BY <1>7
    <3> QED BY <3>1 DEF ReadFirstIn
  <2>2. j \in 1 .. n - k + 1 /\ d[new][j] = list[k + j - 1] /\ k + j - 1 \in 1 .. n
    <3>1. j \in 1 .. n - k + 1
      BY <1>4, <2>1 DEF tail
    <3>2. d[new][j] = list[k + j - 1]
      BY <1>4, <3>1 DEF tail
    <3> HIDE DEF list, n
    <3>3. k + j - 1 \in 1 .. n
      BY <1>3, <3>1
    <3> QED BY <3>1, <3>2, <3>3
  <2>3. ASSUME NEW x \in 1 .. (k + j - 1) - 1 PROVE list[x] # <<"set", w>>
    <3>1. CASE x < k
      <4>1. x \in 1 .. k - 1 /\ x \in 1 .. k
        BY <1>3, <2>2, <3>1
      <4>2. d[b][x] = list[x] /\ d[b][x] \in Range(d[b])
        BY <1>2, <4>1 DEF Range
      <4> QED BY <1>7, <4>2
    <3>2. CASE x >= k
      <4>1. x - k + 1 \in 1 .. j - 1 /\ x - k + 1 \in 1 .. n - k + 1 /\ k + (x - k + 1) - 1 = x
        <5>1. n \in Nat /\ k \in 1 .. n /\ j \in 1 .. n - k + 1
          BY <1>3, <2>2
        <5> HIDE DEF n
        <5>2. x \in Int /\ x >= k /\ x <= k + j - 2
          BY <3>2, <5>1
        <5> QED BY <5>1, <5>2
      <4>2. d[new][x - k + 1] = list[x]
        <5> DEFINE y == x - k + 1
        <5>1. y \in 1 .. n - k + 1 /\ k + y - 1 = x
          BY <4>1
        <5> HIDE DEF y, list, n
        <5>2. d[new][y] = list[x]
          BY <1>4, <5>1 DEF tail
        <5> QED BY <5>2 DEF y, list
      <4> QED BY <2>1, <4>1, <4>2
    <3> QED BY <1>3, <2>2, <3>1, <3>2
  <2> QED BY <1>3, <2>1, <2>2, <2>3, ReadAt
<1>8. ASSUME NEW w, <<"set", w>> \in Range(c[b]), <<"set", w>> \notin Range(d[b])
      PROVE  <<"set", w>> \in Range(d[new])
  <2>1. PICK j \in DOMAIN list : list[j] = <<"set", w>>
    BY <1>8 DEF Range
  <2>2. ~(j < k)
    <3> SUFFICES ASSUME j < k PROVE FALSE
      OBVIOUS
    <3>1. j \in 1 .. k - 1 /\ j \in 1 .. k
      BY <1>3, <2>1
    <3>2. d[b][j] = <<"set", w>> /\ d[b][j] \in Range(d[b])
      BY <1>2, <2>1, <3>1 DEF Range
    <3> QED BY <1>8, <3>2
  <2>3. j - k + 1 \in DOMAIN d[new] /\ d[new][j - k + 1] = <<"set", w>>
    BY <1>2, <2>1, <2>2
  <2> QED BY <2>3 DEF Range
<1> QED BY <1>5, <1>6, <1>7, <1>8

(* Each variable is still set before it is read: if the block that sets it *)
(* is cut, by one of its parts; and if it is set and read there, by the    *)
(* first part for the second one.                                          *)
LEMMA SetsAfterCut ==
  ASSUME NEW c, NEW d, NEW b, NEW k, NEW new, NEW v, IsCut(c, d, b, k, new, v),
         NEW s, NEW t, IsSplit(s, t, b, new), NEW L, IsLoop(s, L), b \in Body(L),
         Body(L) \subseteq DOMAIN c, AllCome(s, L, b),
         SetsOK(c, s, L)
  PROVE  SetsOK(d, t, LoopAfter(L, b, new))
<1> DEFINE M == LoopAfter(L, b, new)
           Sets(f, a, w) == <<"set", w>> \in Range(f[a])
<1>1. Body(M) = Body(L) \cup {new} /\ new \notin Body(L) /\ b # new
  BY SplitConnected
<1>2. /\ \A a \in DOMAIN c \ {b} : ReadFirstIn(d, a) = ReadFirstIn(c, a)
      /\ ReadFirstIn(d, b) \subseteq ReadFirstIn(c, b)
      /\ \A w \in ReadFirstIn(d, new) : w \in ReadFirstIn(c, b) \/ Sets(d, b, w)
      /\ \A w : Sets(c, b, w) => Sets(d, b, w) \/ Sets(d, new, w)
  BY ReadsAfterCut
<1>3. \A a \in DOMAIN c \ {b} : d[a] = c[a]
  <2>1. CutParts(c, d, b, k, new, v)
    BY CutCode
  <2> QED BY <2>1 DEF CutParts
<1> DEFINE Has(f, g, K, a, S, r, w) == Sets(f, a, w) /\ LeadsTo(g, K, S, a) /\ a \in Body(K) \ {r} /\ S \in SUBSET (Body(K) \ {r})
<1>4. ASSUME NEW r \in Body(L), NEW w \in ReadFirstIn(c, r)
      PROVE  \E a, S : Has(c, s, L, a, S, r, w)
  BY DEF SetsOK
<1>5. ASSUME NEW a \in Body(L), NEW S, LeadsTo(s, L, S, a)
      PROVE  /\ a # b => LeadsTo(t, M, IF b \in S THEN S \cup {new} ELSE S, a)
             /\ a = b => LeadsTo(t, M, S, b) /\ LeadsTo(t, M, S \cup {b}, new)
  BY <1>5, WaysAfterCut
<1> HIDE DEF M, Sets
<1>6. ASSUME NEW r \in Body(M), r # b, r # new, NEW w \in ReadFirstIn(d, r)
      PROVE  \E a, S : Has(d, t, M, a, S, r, w)
  <2>1. r \in Body(L) /\ w \in ReadFirstIn(c, r)
    BY <1>1, <1>2, <1>6
  <2>2. PICK a, S : Has(c, s, L, a, S, r, w)
    BY <1>4, <2>1
  <2>3. CASE a # b
    <3>1. Sets(d, a, w)
      BY <1>3, <2>2, <2>3 DEF Sets
    <3> DEFINE T == IF b \in S THEN S \cup {new} ELSE S
    <3>2. LeadsTo(t, M, T, a) /\ T \in SUBSET (Body(M) \ {r}) /\ a \in Body(M) \ {r}
      BY <1>1, <1>5, <1>6, <2>2, <2>3
    <3> HIDE DEF T
    <3>3. Has(d, t, M, a, T, r, w)
      BY <3>1, <3>2
    <3> QED BY <1>4, <2>1, <3>3
  <2>4. CASE a = b
    <3>1. LeadsTo(t, M, S, b) /\ LeadsTo(t, M, S \cup {b}, new)
      BY <1>5, <2>2, <2>4
    <3>2. S \in SUBSET (Body(M) \ {r}) /\ S \cup {b} \in SUBSET (Body(M) \ {r})
      BY <1>1, <1>6, <2>2
    <3>3. Sets(d, b, w) \/ Sets(d, new, w)
      BY <1>2, <2>2, <2>4
    <3>4. Has(d, t, M, b, S, r, w) \/ Has(d, t, M, new, S \cup {b}, r, w)
      BY <1>1, <1>6, <3>1, <3>2, <3>3
    <3> QED BY <1>4, <2>1, <3>4
  <2> QED BY <2>3, <2>4
<1>7. ASSUME NEW r \in {b, new}, NEW w \in ReadFirstIn(c, b)
      PROVE  \E a, S : Has(d, t, M, a, S, r, w)
  <2>1. PICK a, S : Has(c, s, L, a, S, b, w)
    BY <1>4
  <2>2. Sets(d, a, w) /\ a # b /\ b \notin S /\ a \in Body(M) /\ S \in SUBSET Body(M)
    BY <1>1, <1>3, <2>1 DEF Sets
  <2>3. LeadsTo(t, M, S, a)
    BY <1>5, <2>1, <2>2
  <2>4. Has(d, t, M, a, S, r, w)
    BY <1>1, <2>1, <2>2, <2>3
  <2> QED BY <1>4, <2>4
<1>8. ASSUME NEW w \in ReadFirstIn(d, new), Sets(d, b, w)
      PROVE  \E a, S : Has(d, t, M, a, S, new, w)
  <2>1. PICK S \in SUBSET Body(L) : LeadsTo(s, L, S, b)
    BY DEF AllCome
  <2>2. LeadsTo(t, M, S, b)
    BY <1>5, <2>1
  <2>3. Has(d, t, M, b, S, new, w)
    BY <1>1, <1>8, <2>1, <2>2
  <2> QED BY <2>3
<1>9. ASSUME NEW r \in Body(M), NEW w \in ReadFirstIn(d, r)
      PROVE  \E a, S : Has(d, t, M, a, S, r, w)
  <2>1. CASE r = b
    BY <1>2, <1>7, <1>9, <2>1
  <2>2. CASE r = new
    BY <1>2, <1>7, <1>8, <1>9, <2>2
  <2>3. CASE r # b /\ r # new
    BY <1>6, <1>9, <2>3
  <2> QED BY <2>1, <2>2, <2>3
<1>10. ASSUME NEW r \in Body(M), NEW w \in ReadFirstIn(d, r)
       PROVE  \E a \in Body(M) \ {r} : \E S \in SUBSET (Body(M) \ {r}) :
                <<"set", w>> \in Range(d[a]) /\ LeadsTo(t, M, S, a)
  <2>1. PICK a, S : Has(d, t, M, a, S, r, w)
    BY <1>9, <1>10
  <2>2. /\ <<"set", w>> \in Range(d[a]) /\ LeadsTo(t, M, S, a)
        /\ a \in Body(M) \ {r} /\ S \in SUBSET (Body(M) \ {r})
    BY <2>1 DEF Sets
  <2> QED BY <2>2
<1>11. SetsOK(d, t, M)
  BY <1>9, <1>10 DEF SetsOK
<1> QED BY <1>11 DEF M

(* A variable that is not annotated is still read in the part of a block   *)
(* that sets it.                                                           *)
LEMMA LocalsAfterCut ==
  ASSUME NEW c, NEW d, NEW b, NEW k, NEW new, NEW v, IsCut(c, d, b, k, new, v),
         NEW L, NEW M, Body(M) = Body(L) \cup {new}, new \notin Body(L), b \in Body(L), Body(L) \subseteq DOMAIN c,
         NEW vars, NEW points, NEW rest \in SUBSET points, v \in points,
         c[b][k] = <<"point", v>> \/ (c[b][k][1] = "gep" /\ c[b][k + 1] = <<"point", v>>),
         LocalsOK(c, L, vars, points)
  PROVE  LocalsOK(d, M, vars, rest)
<1> DEFINE list == c[b]
           n == Len(list)
           tail == d[new]
           IsRead(inst, w) == inst \in {<<"read", w>>, <<"deref", w>>, <<"point", w>>}
           IsLocal(f, x, w, p) ==
             \E j \in 1 .. x - 1 : f[j] = <<"set", w>> /\ \A l \in j + 1 .. x : \A y \in p : f[l] # <<"point", y>>
<1>1. CutParts(c, d, b, k, new, v)
  BY CutCode
<1>2. /\ \A a \in DOMAIN c \ {b} : d[a] = c[a]
      /\ k \in Nat \ {0} /\ DOMAIN d[b] = 1 .. k
      /\ \A j \in 1 .. k - 1 : j \in DOMAIN list /\ d[b][j] = list[j]
      /\ d[b][k] = <<"prefetch", v>>
  BY <1>1 DEF CutParts
<1>3. n \in Nat /\ DOMAIN list = 1 .. n /\ k \in 1 .. n
  <2> DEFINE I == AllInstructions
  <2>1. list \in Seq(I) /\ k \in DOMAIN list
    BY DEF IsCut
  <2> HIDE DEF I, list
  <2> QED BY <2>1
<1>4. DOMAIN tail = 1 .. n - k + 1 /\ \A j \in 1 .. n - k + 1 : tail[j] = list[k + j - 1]
  <2> DEFINE I == AllInstructions
  <2>1. list \in Seq(I) /\ tail = SubSeq(list, k, n)
    BY DEF IsCut
  <2> HIDE DEF I, list, tail
  <2> QED BY <1>3, <2>1
<1>5. ASSUME NEW a \in Body(L), NEW x \in DOMAIN c[a], NEW w \in Variables \ Range(vars), IsRead(c[a][x], w)
      PROVE  IsLocal(c[a], x, w, points)
  BY <1>5 DEF LocalsOK
<1>6. ASSUME NEW x \in DOMAIN d[b], NEW w \in Variables \ Range(vars), IsRead(d[b][x], w)
      PROVE  IsLocal(d[b], x, w, rest)
  <2>1. x \in 1 .. k /\ x # k
    BY <1>2, <1>6
  <2>2. x \in 1 .. k - 1 /\ d[b][x] = list[x] /\ x \in DOMAIN list
    BY <1>2, <2>1
  <2>3. IsLocal(list, x, w, points)
    BY <1>5, <1>6, <2>2
  <2>4. PICK j \in 1 .. x - 1 : list[j] = <<"set", w>> /\ \A l \in j + 1 .. x : \A y \in points : list[l] # <<"point", y>>
    BY <2>3
  <2>5. j \in 1 .. k - 1 /\ \A l \in j + 1 .. x : l \in 1 .. k - 1
    BY <1>2, <2>2, <2>4
  <2>6. d[b][j] = <<"set", w>> /\ \A l \in j + 1 .. x : \A y \in rest : d[b][l] # <<"point", y>>
    <3>1. d[b][j] = list[j] /\ \A l \in j + 1 .. x : d[b][l] = list[l]
      BY <1>2, <2>5
    <3>2. \A y \in rest : y \in points
      OBVIOUS
    <3> QED BY <2>4, <3>1, <3>2
  <2> QED BY <2>4, <2>6
<1>7. ASSUME NEW x \in DOMAIN tail, NEW w \in Variables \ Range(vars), IsRead(tail[x], w)
      PROVE  IsLocal(tail, x, w, rest)
  <2> HIDE DEF tail, n, list
  <2>1. x \in 1 .. n - k + 1 /\ k + x - 1 \in 1 .. n /\ tail[x] = list[k + x - 1]
    BY <1>3, <1>4
  <2>2. IsLocal(list, k + x - 1, w, points)
    <3> DEFINE y == k + x - 1
    <3>1. y \in DOMAIN list /\ tail[x] = list[y]
      BY <1>3, <2>1
    <3>2. IsRead(list[y], w)
      BY <1>7, <3>1
    <3> HIDE DEF y, IsRead, IsLocal
    <3>3. IsLocal(list, y, w, points)
      BY <1>5, <3>1, <3>2 DEF list
    <3> QED BY <3>3 DEF y
  <2>3. PICK j \in 1 .. (k + x - 1) - 1 :
          list[j] = <<"set", w>> /\ \A l \in j + 1 .. (k + x - 1) : \A y \in points : list[l] # <<"point", y>>
    BY <2>2
  <2>4. ~(j < k)
    <3> SUFFICES ASSUME j < k PROVE FALSE
      OBVIOUS
    <3>1. k \in j + 1 .. (k + x - 1)
      BY <1>3, <2>1, <2>3
    <3>2. list[k] # <<"point", v>>
      BY <2>3, <3>1
    <3>3. list[k][1] = "gep" /\ list[k + 1] = <<"point", v>>
      BY <3>2 DEF list
    <3>4. x # 1
      <4> SUFFICES ASSUME x = 1 PROVE FALSE
        OBVIOUS
      <4>1. k + x - 1 = k
        BY <1>3
      <4>2. tail[x] = list[k]
        BY <2>1, <4>1
      <4>3. tail[x][1] \in {"read", "deref", "point"}
        BY <1>7
      <4> QED BY <3>3, <4>2, <4>3
    <3>5. k + 1 \in j + 1 .. (k + x - 1)
      BY <1>3, <2>1, <2>3, <3>4
    <3> QED BY <2>3, <3>3, <3>5
  <2> DEFINE z == j - k + 1
  <2>5. z \in 1 .. x - 1 /\ z \in 1 .. n - k + 1 /\ k + z - 1 = j
    BY <1>3, <2>1, <2>3, <2>4
  <2>6. \A l \in z + 1 .. x : l \in 1 .. n - k + 1 /\ k + l - 1 \in j + 1 .. (k + x - 1)
    BY <1>3, <2>1, <2>3, <2>4
  <2> HIDE DEF z
  <2>7. tail[z] = <<"set", w>>
    BY <1>4, <2>3, <2>5
  <2>8. \A l \in z + 1 .. x : \A y \in rest : tail[l] # <<"point", y>>
    BY <1>4, <2>3, <2>6
  <2> QED BY <2>5, <2>7, <2>8
<1>8. ASSUME NEW a \in Body(M), NEW x \in DOMAIN d[a], NEW w \in Variables \ Range(vars), IsRead(d[a][x], w)
      PROVE  IsLocal(d[a], x, w, rest)
  <2> HIDE DEF IsLocal, IsRead
  <2>1. CASE a = b
    BY <1>6, <1>8, <2>1
  <2>2. CASE a = new
    BY <1>7, <1>8, <2>2 DEF tail
  <2>3. CASE a # b /\ a # new
    <3>1. a \in Body(L) /\ d[a] = c[a]
      BY <1>2, <2>3
    <3>2. IsLocal(c[a], x, w, points)
      BY <1>5, <1>8, <3>1
    <3> QED BY <3>1, <3>2 DEF IsLocal
  <2> QED BY <2>1, <2>2, <2>3
<1> QED BY <1>8 DEF LocalsOK

(* Without use points that are left, what a block takes from another one   *)
(* is annotated.                                                           *)
LEMMA LocalsAreLocal ==
  ASSUME NEW c, NEW L, NEW vars, NEW points, LocalsOK(c, L, vars, points), NEW b \in Body(L),
         NEW v \in Variables, v \in ReadFirstIn(c, b)
  PROVE  v \in Range(vars)
<1>1. PICK k \in DOMAIN c[b] :
        /\ c[b][k] \in {<<"read", v>>, <<"deref", v>>, <<"point", v>>}
        /\ \A j \in 1 .. k - 1 : c[b][j] # <<"set", v>>
  BY DEF ReadFirstIn
<1> QED BY <1>1 DEF LocalsOK

(* What is supported of the source.                                        *)
LEMMA SupportedWays ==
  ASSUME source \in Supported, source \in Sources, NEW vars, vars = detectExpPtrVars(source.code)
  PROVE  /\ IsEntered(source.succ, source.loop)
         /\ OutsideOK(source.code, source.loop)
         /\ \A v \in Range(vars) : AllCome(source.succ, source.loop, UsePoint(source, v)[1])
         /\ SetsOK(source.code, source.succ, source.loop)
         /\ \A b \in Body(source.loop) : TakenIn(source, b, vars) \subseteq Range(vars)
<1> DEFINE f == source.succ
           c == source.code
           L == source.loop
<1>1. /\ SupportsLoop(source)
      /\ \A v \in Range(vars) : SupportsVariable(source, v)
      /\ \A b \in DOMAIN c \ BodyOf(source) : \A k \in DOMAIN c[b] : c[b][k][1] \in {"annotate", "gep", "other"}
      /\ \A b \in BodyOf(source) : TakenIn(source, b, vars) \subseteq Range(vars)
  BY DEF Supported
<1>2. BodyOf(source) = Body(L)
  BY DEF BodyOf, Body
<1>3. L.Header # NullBlock /\ IsLoop(f, L) /\ L.PreHeader # NullBlock
  BY <1>1, SourceLoop DEF SupportsLoop
<1>4. IsPreHeader(f, L, L.PreHeader)
  <2>1. IsNaturalLoop(f, L)
    BY <1>3, SourceAssumption
  <2> QED BY <1>3, <2>1 DEF IsNaturalLoop
<1>5. IsEntered(f, L)
  <2>1. /\ L.PreHeader \in DOMAIN f \ (L.Blocks \cup {Entry})
        /\ f[Entry] = <<L.PreHeader>>
        /\ PredecessorsOf(f, L.PreHeader) = {Entry}
    BY <1>1, <1>3 DEF SupportsLoop, IsLoop
  <2>2. \A b \in DOMAIN f \ {Entry} : L.PreHeader \notin SuccessorsOf(f, b)
    BY <2>1 DEF PredecessorsOf
  <2>3. \A b \in DOMAIN f \ (L.Blocks \cup {L.PreHeader}) : L.Header \notin SuccessorsOf(f, b)
    BY <1>4 DEF IsPreHeader
  <2>4. f[L.PreHeader] = <<L.Header>>
    BY <1>4 DEF IsPreHeader
  <2> HIDE DEF f, L
  <2> QED BY <2>1, <2>2, <2>3, <2>4 DEF IsEntered
<1>6. OutsideOK(c, L)
  BY <1>1, <1>2 DEF OutsideOK
<1>7. ASSUME NEW b \in Body(L), NEW to, AllPass(source, b, to)
      PROVE  \E S \in SUBSET (Body(L) \ {to}) : LeadsTo(f, L, S, b)
  <2>1. PICK S \in SUBSET (Body(L) \ {b, to}) :
          /\ BodyBegin(f, L) \in S \cup {b}
          /\ \A x \in S : SuccessorsOf(f, x) \subseteq S \cup {b}
    BY <1>2, <1>7 DEF AllPass
  <2>2. LeadsTo(f, L, S, b)
    BY <2>1 DEF LeadsTo
  <2> QED BY <2>2
<1>8. ASSUME NEW v \in Range(vars) PROVE AllCome(f, L, UsePoint(source, v)[1])
  <2>1. UsePoint(source, v)[1] \in Body(L) /\ AllPass(source, UsePoint(source, v)[1], L.Latch)
    BY <1>1, <1>2 DEF SupportsVariable
  <2>2. PICK S \in SUBSET (Body(L) \ {L.Latch}) : LeadsTo(f, L, S, UsePoint(source, v)[1])
    BY <1>7, <2>1
  <2> QED BY <2>2 DEF AllCome
<1>9. ASSUME NEW b \in Body(L), NEW v \in ReadFirstIn(c, b) PROVE v \in TakenIn(source, b, vars)
  <2>1. PICK k \in DOMAIN c[b] :
          /\ c[b][k] \in {<<"read", v>>, <<"deref", v>>, <<"point", v>>}
          /\ \A j \in 1 .. k - 1 : c[b][j] # <<"set", v>>
    BY <1>9 DEF ReadFirstIn
  <2>2. c[b][k] # <<"point", v>>
    <3>1. b \in DOMAIN c
      BY <1>3, SourceShape DEF IsLoop, Body
    <3>2. c[b][k] \in Instructions
      BY <3>1, SourceInstructions
    <3> QED BY <3>2 DEF Instructions
  <2>3. v \in {c[b][j][2] : j \in DOMAIN c[b]}
    <3>1. c[b][k][2] = v
      BY <2>1
    <3> QED BY <3>1
  <2> QED BY <2>1, <2>2, <2>3 DEF TakenIn
<1>10. ASSUME NEW b \in Body(L), NEW v \in ReadFirstIn(c, b)
       PROVE  \E a \in Body(L) \ {b} : \E S \in SUBSET (Body(L) \ {b}) :
                <<"set", v>> \in Range(c[a]) /\ LeadsTo(f, L, S, a)
  <2>1. v \in Range(vars)
    BY <1>1, <1>2, <1>9, <1>10
  <2>2. PICK a \in Body(L) \ {b} : <<"set", v>> \in Range(c[a]) /\ AllPass(source, a, b)
    BY <1>1, <1>2, <1>10, <2>1 DEF SupportsVariable
  <2> QED BY <1>7, <2>2
<1>11. SetsOK(c, f, L)
  BY <1>10 DEF SetsOK
<1> QED BY <1>1, <1>2, <1>5, <1>6, <1>8, <1>11

(* LocalsOK of the next state, of which the variables are the same.        *)
LEMMA LocalsPrimed ==
  ASSUME Variables' = Variables, NEW vars, AnnotatedVars' = vars,
         NEW points, {VarUsePoints'[j] : j \in i' .. Len(VarUsePoints')} = points,
         NEW m, NEW L, code' = m, loop' = L, LocalsOK(m, L, vars, points)
  PROVE  LocalsOK(code, loop, AnnotatedVars, {VarUsePoints[j] : j \in i .. Len(VarUsePoints)})'
<1> DEFINE P == {VarUsePoints'[j] : j \in i' .. Len(VarUsePoints')}
           vs == AnnotatedVars'
           V == Variables'
           d == code'
           M == loop'
<1>1. M = L /\ vs = vars /\ V = Variables /\ P = points /\ d = m
  OBVIOUS
<1> HIDE DEF P, M, vs, V, d
<1>2. \A b \in Body(M) : \A k \in DOMAIN d[b] : \A v \in V \ Range(vs) :
        d[b][k] \in {<<"read", v>>, <<"deref", v>>, <<"point", v>>} =>
          \E j \in 1 .. k - 1 : d[b][j] = <<"set", v>> /\ \A l \in j + 1 .. k : \A w \in P : d[b][l] # <<"point", w>>
  <2> SUFFICES ASSUME NEW b \in Body(M), NEW k \in DOMAIN d[b], NEW v \in V \ Range(vs),
                      d[b][k] \in {<<"read", v>>, <<"deref", v>>, <<"point", v>>}
               PROVE  \E j \in 1 .. k - 1 :
                        d[b][j] = <<"set", v>> /\ \A l \in j + 1 .. k : \A w \in P : d[b][l] # <<"point", w>>
    OBVIOUS
  <2>1. b \in Body(L) /\ v \in Variables \ Range(vars) /\ k \in DOMAIN m[b]
    BY <1>1
  <2>2. \E j \in 1 .. k - 1 :
          m[b][j] = <<"set", v>> /\ \A l \in j + 1 .. k : \A w \in points : m[b][l] # <<"point", w>>
    BY <1>1, <2>1 DEF LocalsOK
  <2> QED BY <1>1, <2>2
<1> QED BY <1>2 DEF LocalsOK, d, M, vs, V, P

(* The same once the use points are marked.                                *)
LEMMA WaysAtFirst ==
  ASSUME SFInv, SplitInv, source \in Supported, detect
  PROVE  WaysKept'
<1> DEFINE vars == detectExpPtrVars(source.code)
           used == detectExpPtrUses(source.code, vars)
           L == source.loop
           f == source.succ
           c == source.code
<1>1. /\ stage = "start" /\ UNCHANGED <<source, succ, loop, i, EndBlocks>>
      /\ code = source.code /\ succ = source.succ /\ loop = source.loop /\ i = 1 /\ source \in Sources
      /\ EndBlocks = <<>>
  BY DEF detect, SFInv, PassInv, InSplitting, SplittingOK, SplitInv
<1>2. IsSupported(source, vars)
  BY SupportedIs
<1>3. vars \in Seq(Variables)
  <2> HIDE DEF vars, used
  <2> QED BY <1>1, SourceLists DEF vars, used
<1>4. ~HasIndirectCall(source.code) /\ used = vars
  <2> HIDE DEF vars
  <2> QED BY <1>2, <1>3, SupportedScan
<1>5. AnnotatedVars' = vars /\ VarUsePoints' = vars /\ code' = Marked(source.code, vars)
  <2>1. AnnotatedVars' = vars /\ VarUsePoints' = used /\ code' = Marked(source.code, used)
    BY <1>1, <1>4 DEF detect
  <2> HIDE DEF vars, used
  <2> QED BY <1>4, <2>1
<1>6. /\ IsEntered(f, L)
      /\ OutsideOK(c, L)
      /\ \A v \in Range(vars) : AllCome(f, L, UsePoint(source, v)[1])
      /\ SetsOK(c, f, L)
      /\ \A b \in Body(L) : TakenIn(source, b, vars) \subseteq Range(vars)
  <2> HIDE DEF f, c, L
  <2> QED BY <1>1, SupportedWays DEF f, c, L
<1> HIDE DEF vars, used
<1>7. Body(L) \subseteq DOMAIN c /\ DOMAIN c = DOMAIN f
  BY <1>1, <1>2, SourceLoop, SourceShape DEF IsSupported, IsLoop, Body
<1> DEFINE m == code'
<1>8. /\ DOMAIN m = DOMAIN c
      /\ \A b \in DOMAIN m : \A k \in DOMAIN m[b] : \A v \in Variables :
           m[b][k] = <<"point", v>> => UsePoint(source, v) = <<b, k>>
      /\ \A b \in DOMAIN m : DOMAIN m[b] = DOMAIN c[b]
      /\ \A b \in DOMAIN m : \A k \in DOMAIN m[b] :
           \/ m[b][k] = c[b][k]
           \/ \E v \in Variables : c[b][k] = <<"deref", v>> /\ m[b][k] = <<"point", v>>
  <2>1. \A v \in Range(vars) : HasUsePoint(source, v)
    BY <1>2 DEF IsSupported
  <2>2. m = Marked(source.code, vars)
    BY <1>5
  <2> HIDE DEF m
  <2> QED BY <1>1, <1>3, <2>1, <2>2, MarkedCode
<1>9. Range(vars) \subseteq Variables /\ \A j \in 1 .. Len(vars) : vars[j] \in Range(vars)
  <2>1. DOMAIN vars = 1 .. Len(vars) /\ \A j \in DOMAIN vars : vars[j] \in Variables
    BY <1>3
  <2> QED BY <2>1 DEF Range
<1> HIDE DEF m, c, f, L
<1>10. OutsideOK(m, L)
  <2> SUFFICES ASSUME NEW b \in DOMAIN m \ Body(L), NEW k \in DOMAIN m[b]
               PROVE  m[b][k][1] \in {"annotate", "gep", "other"}
    BY DEF OutsideOK
  <2>1. c[b][k][1] \in {"annotate", "gep", "other"}
    BY <1>6, <1>8 DEF OutsideOK
  <2>2. \A v \in Variables : c[b][k] # <<"deref", v>>
    BY <2>1
  <2> QED BY <1>8, <2>1, <2>2
<1>11. SetsOK(m, f, L)
  <2> SUFFICES ASSUME NEW b \in Body(L), NEW v \in ReadFirstIn(m, b)
               PROVE  \E a \in Body(L) \ {b} : \E S \in SUBSET (Body(L) \ {b}) :
                        <<"set", v>> \in Range(m[a]) /\ LeadsTo(f, L, S, a)
    BY DEF SetsOK
  <2>1. v \in ReadFirstIn(c, b)
    <3>1. PICK k \in DOMAIN m[b] :
            /\ m[b][k] \in {<<"read", v>>, <<"deref", v>>, <<"point", v>>}
            /\ \A j \in 1 .. k - 1 : m[b][j] # <<"set", v>>
      BY DEF ReadFirstIn
    <3>2. k \in DOMAIN c[b] /\ b \in DOMAIN c
      BY <1>7, <1>8
    <3>3. c[b][k] \in {<<"read", v>>, <<"deref", v>>, <<"point", v>>}
      <4>1. CASE m[b][k] = c[b][k]
        BY <3>1, <4>1
      <4>2. CASE m[b][k] # c[b][k]
        <5>1. PICK w \in Variables : c[b][k] = <<"deref", w>> /\ m[b][k] = <<"point", w>>
          BY <1>8, <3>2, <4>2
        <5>2. w = v
          BY <3>1, <5>1
        <5> QED BY <5>1, <5>2
      <4> QED BY <4>1, <4>2
    <3>4. ASSUME NEW j \in 1 .. k - 1 PROVE c[b][j] # <<"set", v>>
      <4> SUFFICES ASSUME c[b][j] = <<"set", v>> PROVE FALSE
        OBVIOUS
      <4>1. j \in DOMAIN c[b]
        <5>1. c[b] \in Seq(Instructions)
          BY <1>1, <3>2, SourceShape DEF c
        <5> DEFINE list == c[b]
                   I == Instructions
        <5>2. list \in Seq(I) /\ k \in DOMAIN list
          BY <3>2, <5>1
        <5> HIDE DEF list, I
        <5>3. j \in DOMAIN list
          BY <5>2
        <5> QED BY <5>3 DEF list
      <4>2. m[b][j] # c[b][j]
        BY <3>1
      <4>3. PICK w \in Variables : c[b][j] = <<"deref", w>>
        BY <1>8, <3>2, <4>1, <4>2
      <4> QED BY <4>3
    <3> QED BY <3>2, <3>3, <3>4, ReadAt
  <2>2. PICK a \in Body(L) \ {b} : \E S \in SUBSET (Body(L) \ {b}) :
          <<"set", v>> \in Range(c[a]) /\ LeadsTo(f, L, S, a)
    BY <1>6, <2>1 DEF SetsOK
  <2>3. <<"set", v>> \in Range(m[a])
    <3>1. PICK k \in DOMAIN c[a] : c[a][k] = <<"set", v>>
      BY <2>2 DEF Range
    <3>2. a \in DOMAIN m /\ k \in DOMAIN m[a]
      BY <1>7, <1>8
    <3>3. \A w \in Variables : c[a][k] # <<"deref", w>>
      BY <3>1
    <3>4. m[a][k] = <<"set", v>>
      BY <1>8, <3>1, <3>2, <3>3
    <3> QED BY <3>2, <3>4 DEF Range
  <2> QED BY <2>2, <2>3
<1>12. LocalsOK(m, L, vars, Range(vars))
  <2> SUFFICES ASSUME NEW b \in Body(L), NEW k \in DOMAIN m[b], NEW v \in Variables \ Range(vars),
                      m[b][k] \in {<<"read", v>>, <<"deref", v>>, <<"point", v>>}
               PROVE  \E j \in 1 .. k - 1 :
                        m[b][j] = <<"set", v>> /\ \A l \in j + 1 .. k : \A w \in Range(vars) : m[b][l] # <<"point", w>>
    BY DEF LocalsOK
  <2>1. b \in DOMAIN m /\ b \in DOMAIN c /\ k \in DOMAIN c[b]
    BY <1>7, <1>8
  <2>2. c[b][k] \in {<<"read", v>>, <<"deref", v>>}
    <3>1. CASE m[b][k] = c[b][k]
      <4>1. c[b][k] \in Instructions
        BY <1>1, <2>1, SourceInstructions DEF c
      <4>2. c[b][k] # <<"point", v>>
        BY <4>1 DEF Instructions
      <4> QED BY <3>1, <4>2
    <3>2. CASE m[b][k] # c[b][k]
      <4>1. PICK w \in Variables : c[b][k] = <<"deref", w>> /\ m[b][k] = <<"point", w>>
        BY <1>8, <2>1, <3>2
      <4>2. w = v
        BY <4>1
      <4> QED BY <4>1, <4>2
    <3> QED BY <3>1, <3>2
  <2>3. v \in {c[b][j][2] : j \in DOMAIN c[b]}
    <3>1. c[b][k][2] = v
      BY <2>2
    <3> QED BY <2>1, <3>1
  <2>4. v \notin TakenIn(source, b, vars)
    BY <1>6
  <2>5. PICK j \in 1 .. k - 1 : c[b][j] = <<"set", v>>
                              /\ ~ \E w \in Range(vars) : \E l \in j + 1 .. k : UsePoint(source, w) = <<b, l>>
    BY <2>1, <2>2, <2>3, <2>4 DEF TakenIn, c
  <2>6. j \in DOMAIN c[b] /\ \A l \in j + 1 .. k : l \in DOMAIN c[b]
    <3>1. c[b] \in Seq(Instructions)
      BY <1>1, <2>1, SourceShape, <1>7 DEF c, f
    <3> DEFINE list == c[b]
               I == Instructions
    <3>2. list \in Seq(I) /\ k \in DOMAIN list
      BY <2>1, <3>1
    <3> HIDE DEF list, I
    <3>3. j \in DOMAIN list /\ \A l \in j + 1 .. k : l \in DOMAIN list
      BY <3>2
    <3> QED BY <3>3 DEF list
  <2>7. m[b][j] = <<"set", v>>
    <3>1. \A w \in Variables : c[b][j] # <<"deref", w>>
      BY <2>5
    <3> QED BY <1>8, <2>1, <2>5, <2>6, <3>1
  <2>8. ASSUME NEW l \in j + 1 .. k, NEW w \in Range(vars), m[b][l] = <<"point", w>> PROVE FALSE
    BY <1>8, <1>9, <2>1, <2>5, <2>6, <2>8
  <2> QED BY <2>5, <2>7, <2>8
<1>13. \A j \in i' .. Len(VarUsePoints') : \A p \in Points(j)' : AllCome(f, L, p[1])
  <2> SUFFICES ASSUME NEW j \in 1 .. Len(vars), NEW p \in Places(m, <<"point", vars[j]>>)
               PROVE  AllCome(f, L, p[1])
    BY <1>1, <1>5 DEF Points, m
  <2>0. PICK b \in DOMAIN m : \E k \in DOMAIN m[b] : p = <<b, k>> /\ m[b][k] = <<"point", vars[j]>>
    BY PlacesAre
  <2>1. PICK k \in DOMAIN m[b] : p = <<b, k>> /\ m[b][k] = <<"point", vars[j]>>
    BY <2>0
  <2>2. p = UsePoint(source, vars[j])
    BY <1>8, <1>9, <2>1
  <2> QED BY <1>6, <1>9, <2>2
<1>14. {vars[j] : j \in 1 .. Len(vars)} = Range(vars)
  <2>1. DOMAIN vars = 1 .. Len(vars)
    BY <1>3
  <2> QED BY <2>1 DEF Range
<1>15. /\ succ' = f /\ loop' = L /\ i' = 1 /\ VarUsePoints' = vars /\ AnnotatedVars' = vars
       /\ Range(EndBlocks') = {} /\ Variables' = Variables
  BY <1>1, <1>5 DEF f, L, Range, Variables
<1>16. LocalsOK(code, loop, AnnotatedVars, {VarUsePoints[j] : j \in i .. Len(VarUsePoints)})'
  <2>1. {VarUsePoints'[j] : j \in i' .. Len(VarUsePoints')} = Range(vars)
    BY <1>14, <1>15
  <2> QED BY <1>12, <1>15, <2>1, LocalsPrimed DEF m
<1>17. /\ IsEntered(succ', loop') /\ OutsideOK(code', loop')
       /\ \A x \in Range(EndBlocks') : Len(succ'[x]) = 1 /\ AllCome(succ', loop', x)
       /\ \A j \in i' .. Len(VarUsePoints') : \A p \in Points(j)' : AllCome(succ', loop', p[1])
       /\ SetsOK(code', succ', loop')
  BY <1>6, <1>10, <1>11, <1>13, <1>15 DEF m
<1> QED BY <1>16, <1>17 DEF WaysKept

(* A cut at a use point keeps it.                                          *)
LEMMA WaysAfterSplit ==
  ASSUME SFInv, SplitInv, source \in Supported, WaysKept, splitAtUse
  PROVE  WaysKept'
<1> DEFINE n == Len(VarUsePoints)
           v == VarUsePoints[i]
           new == NewBlock
           points == {VarUsePoints[j] : j \in i .. n}
           rest == {VarUsePoints[j] : j \in i + 1 .. n}
<1>1. /\ stage = "splitting" /\ i <= n
      /\ UNCHANGED <<source, AnnotatedVars, VarUsePoints>>
  BY DEF splitAtUse, useVars
<1>2. CutsOK /\ SplittingOK /\ PointsOK /\ ListsOK
  BY <1>1 DEF SFInv, PassInv, InSplitting, SplittingOK, SplitInv
<1>3. i \in 1 .. n /\ n \in Nat /\ v \in points
  <2>1. VarUsePoints \in Seq(Variables) /\ i \in 1 .. n + 1
    BY <1>2 DEF ListsOK, PointsOK
  <2> QED BY <1>1, <2>1
<1>4. PICK b \in DOMAIN code : \E k \in DOMAIN code[b] : CutsAt(b, k, new)
  BY SupportedCut
<1>5. PICK k \in DOMAIN code[b] : CutsAt(b, k, new)
  BY <1>4
<1> HIDE DEF new
<1> DEFINE s == succ
           t == succ'
           L == loop
           M == loop'
           c == code
           d == code'
<1>6. /\ IsSplit(s, t, b, new) /\ IsLoop(s, L) /\ b \in Body(L) /\ M = LoopAfter(L, b, new)
      /\ IsCut(c, d, b, k, new, v)
      /\ EndBlocks' = Append(EndBlocks, b) /\ i' = i + 1
      /\ b \notin Range(EndBlocks) /\ b \in Nat
  BY <1>5 DEF CutsAt
<1>7. \A j \in i + 1 .. n : \A p \in Points(j)' :
        \/ p[1] # new /\ p[1] # b /\ p \in Points(j)
        \/ p[1] = new /\ p[2] \in Nat /\ <<b, p[2] + k - 1>> \in Points(j)
  BY <1>5 DEF CutsAt
<1>8. <<b, k>> \in Points(i) \/ (c[b][k][1] = "gep" /\ <<b, k + 1>> \in Points(i))
  BY <1>5 DEF CutsAt
<1>29. \A u : <<b, u>> \in Points(i) => c[b][u] = <<"point", v>>
  <2> SUFFICES ASSUME NEW u, <<b, u>> \in Points(i) PROVE c[b][u] = <<"point", v>>
    OBVIOUS
  <2>1. PICK a \in DOMAIN c : \E x \in DOMAIN c[a] : <<b, u>> = <<a, x>> /\ c[a][x] = <<"point", v>>
    BY PlacesAre DEF Points
  <2> QED BY <2>1
<1>9. c[b][k] = <<"point", v>> \/ (c[b][k][1] = "gep" /\ c[b][k + 1] = <<"point", v>>)
  BY <1>8, <1>29
<1>10. Body(L) \subseteq DOMAIN c /\ DOMAIN c = DOMAIN s
  BY <1>6 DEF SFInv, PassInv, IsLoop, Body
<1>11. \A j \in i .. n : \A p \in Points(j) : AllCome(s, L, p[1]) /\ p[1] \in Body(L)
  BY <1>2 DEF WaysKept, CutsOK
<1>12. AllCome(s, L, b)
  <2>0. PICK u : <<b, u>> \in Points(i)
    BY <1>8
  <2> DEFINE p == <<b, u>>
  <2>1. p \in Points(i) /\ i \in i .. n /\ p[1] = b
    BY <1>3, <2>0
  <2> HIDE DEF p, s, L, n
  <2> QED BY <1>11, <2>1
<1>13. \A x \in Range(EndBlocks) : x \in Body(L) /\ Len(s[x]) = 1 /\ AllCome(s, L, x)
  BY <1>2 DEF WaysKept, CutsOK
<1>14. IsEntered(s, L) /\ OutsideOK(c, L) /\ SetsOK(c, s, L) /\ LocalsOK(c, L, AnnotatedVars, points)
  BY DEF WaysKept
<1>15. Range(EndBlocks') = Range(EndBlocks) \cup {b}
  <2>1. EndBlocks \in Seq(Nat)
    BY <1>2 DEF SplittingOK
  <2> QED BY <1>6, <2>1, AppendRange
<1> HIDE DEF s, t, L, M, c, d, points, rest, n, v
<1>16. Body(M) = Body(L) \cup {new} /\ new \notin Body(L)
  BY <1>6, SplitConnected
<1>17. IsEntered(t, M)
  BY <1>6, <1>14, EnteredAfterCut
<1>18. OutsideOK(d, M)
  BY <1>6, <1>14, <1>16, OutsideAfterCut
<1>19. SetsOK(d, t, M)
  BY <1>6, <1>10, <1>12, <1>14, SetsAfterCut
<1>20. ASSUME NEW x \in Body(L), AllCome(s, L, x)
       PROVE  AllCome(t, M, x) /\ (x = b => AllCome(t, M, new))
  BY <1>6, <1>20, AllComeAfterCut
<1>21. SplitsInto(s, t, b, new)
  BY <1>6, SplitEdges
<1>22. t[b] = <<new>>
  BY <1>6 DEF IsSplit
<1>23. ASSUME NEW x \in Range(EndBlocks') PROVE Len(t[x]) = 1 /\ AllCome(t, M, x)
  <2>1. CASE x = b
    BY <1>6, <1>12, <1>20, <1>22, <2>1
  <2>2. CASE x # b
    <3>1. x \in Body(L) /\ Len(s[x]) = 1 /\ AllCome(s, L, x)
      BY <1>13, <1>15, <2>2
    <3>2. t[x] = s[x]
      BY <1>10, <1>21, <2>2, <3>1 DEF SplitsInto
    <3> QED BY <1>20, <3>1, <3>2
  <2> QED BY <2>1, <2>2
<1>24. ASSUME NEW j \in i + 1 .. n, NEW p \in Points(j)' PROVE AllCome(t, M, p[1])
  <2>1. j \in i .. n
    BY <1>3
  <2>2. CASE p[1] = new
    BY <1>6, <1>12, <1>20, <2>2
  <2>3. CASE p[1] # new
    <3>1. p \in Points(j)
      BY <1>7, <2>3
    <3> QED BY <1>11, <1>20, <2>1, <3>1
  <2> QED BY <2>2, <2>3
<1>25. LocalsOK(d, M, AnnotatedVars, rest)
  <2>1. rest \in SUBSET points
    BY <1>3 DEF rest, points
  <2> QED BY <1>3, <1>6, <1>9, <1>10, <1>14, <1>16, <2>1, LocalsAfterCut
<1>26. /\ AnnotatedVars' = AnnotatedVars /\ Len(VarUsePoints') = n /\ Variables' = Variables
       /\ {VarUsePoints'[j] : j \in i' .. Len(VarUsePoints')} = rest
  BY <1>1, <1>6 DEF Variables, rest, n
<1>27. LocalsOK(code, loop, AnnotatedVars, {VarUsePoints[j] : j \in i .. Len(VarUsePoints)})'
  BY <1>25, <1>26, LocalsPrimed DEF d, M
<1>28. /\ IsEntered(succ', loop') /\ OutsideOK(code', loop')
       /\ \A x \in Range(EndBlocks') : Len(succ'[x]) = 1 /\ AllCome(succ', loop', x)
       /\ \A j \in i' .. Len(VarUsePoints') : \A p \in Points(j)' : AllCome(succ', loop', p[1])
       /\ SetsOK(code', succ', loop')
  BY <1>6, <1>17, <1>18, <1>19, <1>23, <1>24, <1>26 DEF d, t, M
<1> QED BY <1>27, <1>28 DEF WaysKept

(* So it is when the loop is found: the cuts are what the walk will end    *)
(* sets of blocks at, and each variable has its array.                     *)
LEMMA WaysAfterFind ==
  ASSUME SFInv, SplitInv, source \in Supported, WaysKept, findLoop
  PROVE  WaysFound'
<1> DEFINE end == BodyEndOf(succ, loop)
           vars == AnnotatedVars
<1>1. /\ stage = "splitting" /\ UNCHANGED <<source, succ, code, loop, AnnotatedVars>>
  BY DEF findLoop, irVars, useVars
<1>2. CutsOK /\ SplittingOK /\ PointsOK /\ ListsOK
  BY <1>1 DEF SFInv, PassInv, InSplitting, SplittingOK, SplitInv
<1>3. loop.Header # NullBlock /\ IsLoop(succ, loop)
  BY <1>2, SupportedLoop DEF SplittingOK, KeptLoop
<1>4. /\ EndBlocks' = Append(EndBlocks, end) /\ body' = succ
      /\ arrays' = addBatchArrayForIntermediateVars(code, vars)
  BY <1>3 DEF findLoop
<1>5. EndBlocks \in Seq(Nat)
  BY <1>2 DEF SplittingOK
<1> HIDE DEF end
<1>6. Cuts' \subseteq Range(EndBlocks)
  <2>1. Range(EndBlocks') = Range(EndBlocks) \cup {end}
    BY <1>4, <1>5, AppendRange
  <2>2. BodyEnd' = end
    <3>1. Len(EndBlocks') = Len(EndBlocks) + 1 /\ Append(EndBlocks, end)[Len(EndBlocks) + 1] = end
      BY <1>4, <1>5
    <3>2. Last(EndBlocks') = end
      BY <1>4, <3>1 DEF Last
    <3> QED BY <3>2 DEF BodyEnd
  <2> QED BY <2>1, <2>2 DEF Cuts
<1>7. /\ IsEntered(succ, loop) /\ OutsideOK(code, loop) /\ SetsOK(code, succ, loop)
      /\ \A c \in Range(EndBlocks) : Len(succ[c]) = 1 /\ AllCome(succ, loop, c)
  BY DEF WaysKept
<1>8. PICK points : LocalsOK(code, loop, vars, points)
  BY DEF WaysKept
<1>9. DOMAIN code = DOMAIN succ /\ \A b \in DOMAIN code : code[b] \in Seq(AllInstructions)
  BY DEF SFInv, PassInv
<1>10. ASSUME NEW b \in Body(loop), NEW v \in ReadFirstIn(code, b) PROVE v \in Range(vars)
  <2>1. b \in DOMAIN code
    BY <1>3, <1>9 DEF IsLoop, Body
  <2>2. v \in Variables
    <3>1. ReadFirstIn(code, b) \subseteq Variables
      BY <2>1, ReadsVariables DEF SFInv
    <3> QED BY <1>10, <3>1
  <2> QED BY <1>8, <1>10, <2>2, LocalsAreLocal
<1>11. arrays' = Range(vars)
  <2>1. Entry \in DOMAIN code \ Body(loop)
    <3>1. Entry \in DOMAIN code
      BY <1>2, <1>9 DEF SplittingOK, IsNumbered, Entry
    <3> QED BY <1>3, <3>1 DEF IsLoop, Body
  <2>2. \A k \in DOMAIN code[Entry] : code[Entry][k][1] \in {"annotate", "gep", "other"}
    BY <1>7, <2>1 DEF OutsideOK
  <2>3. \A v \in Range(vars) : \A k \in DOMAIN code[Entry] : code[Entry][k] # <<"prefetch", v>>
    BY <2>2
  <2> QED BY <1>4, <2>3 DEF addBatchArrayForIntermediateVars
<1>12. Body(loop') = Body(loop) /\ body' = succ /\ code' = code /\ loop' = loop /\ AnnotatedVars' = vars
  BY <1>1, <1>4
<1> HIDE DEF vars
<1> QED BY <1>6, <1>7, <1>10, <1>11, <1>12 DEF WaysFound

(* Nothing of it changes later.                                            *)
LEMMA WaysStay ==
  ASSUME WaysFound, UNCHANGED <<loop, body, EndBlocks, AnnotatedVars, arrays>>,
         DOMAIN code \subseteq DOMAIN code', \A b \in DOMAIN code : code'[b] = code[b],
         \A b \in DOMAIN code' \ DOMAIN code : code'[b] = <<>>,
         Body(loop) \subseteq DOMAIN code
  PROVE  WaysFound'
<1>1. OutsideOK(code', loop)
  <2> SUFFICES ASSUME NEW b \in DOMAIN code' \ Body(loop), NEW k \in DOMAIN code'[b]
               PROVE  code'[b][k][1] \in {"annotate", "gep", "other"}
    BY DEF OutsideOK
  <2>1. b \in DOMAIN code
    <3> SUFFICES ASSUME b \notin DOMAIN code PROVE FALSE
      OBVIOUS
    <3>1. code'[b] = <<>>
      OBVIOUS
    <3> QED BY <3>1
  <2> QED BY <2>1 DEF WaysFound, OutsideOK
<1>2. \A b \in Body(loop) : code'[b] = code[b]
  OBVIOUS
<1> DEFINE d == code'
           L == loop
<1>3. \A b \in Body(L) : ReadFirstIn(d, b) = ReadFirstIn(code, b)
  <2> SUFFICES ASSUME NEW b \in Body(L) PROVE ReadFirstIn(d, b) = ReadFirstIn(code, b)
    OBVIOUS
  <2>1. d[b] = code[b]
    BY <1>2
  <2> HIDE DEF d
  <2> QED BY <2>1 DEF ReadFirstIn
<1> HIDE DEF d, L
<1>4. SetsOK(d, body, L)
  <2>1. SetsOK(code, body, L)
    BY DEF WaysFound, L
  <2>2. \A b \in Body(L) : d[b] = code[b]
    BY <1>2 DEF d, L
  <2> QED BY <1>3, <2>1, <2>2 DEF SetsOK
<1>5. \A b \in Body(L) : ReadFirstIn(d, b) \subseteq Range(AnnotatedVars)
  BY <1>3 DEF WaysFound, L
<1>6. Cuts' = Cuts
  BY DEF Cuts, BodyEnd
<1> QED BY <1>1, <1>4, <1>5, <1>6 DEF WaysFound, d, L

-----------------------------------------------------------------------------

(* The last block of the k-th set. *)
EndOfSet(k) == Last(LoopBlocks[k])

(* From T no way in the body leads out of T. *)
IsKept(T) == \A x \in T : SuccessorsOf(body, x) \cap Body(loop) \subseteq T

(* The k-th set starts behind the one before it and ends with a cut, or    *)
(* the last one with the end of the body; its first block comes before its *)
(* end, and no way leads back to the end of an earlier one.                *)
IsPart(k) ==
  LET first == Head(LoopBlocks[k])
      end == EndOfSet(k)
  IN /\ IF k = 1 THEN first = BodyBegin(body, loop) ELSE first \in SuccessorsOf(body, EndOfSet(k - 1))
     /\ IF k <= NumNewLoops THEN end \in Cuts ELSE end = BodyEnd
     /\ \A S \in SUBSET Body(loop) : LeadsTo(body, loop, S, end) => first \in S \cup {end}
     /\ \A j \in 1 .. k - 1 : \E T \in SUBSET Body(loop) :
          IsKept(T) /\ first \in T /\ end \in T /\ EndOfSet(j) \notin T

(* The first block of the set that is being filled. *)
FirstOfSet == IF Blocks = <<>> THEN walk[1][1] ELSE Blocks[1]

(* The same for the next set, while the walk is at b, which comes before   *)
(* each cut that has no set yet.                                           *)
IsOnWay(b) ==
  LET m == Len(LoopBlocks)
      first == FirstOfSet
  IN /\ IF m = 0 THEN first = BodyBegin(body, loop) ELSE first \in SuccessorsOf(body, EndOfSet(m))
     /\ \A c \in Range(EndBlocks) \ {EndOfSet(j) : j \in 1 .. m} : \A S \in SUBSET Body(loop) :
          LeadsTo(body, loop, S, c) => first \in S \cup {c} /\ b \in S \cup {c}
     /\ \A j \in 1 .. m : \E T \in SUBSET Body(loop) :
          IsKept(T) /\ first \in T /\ b \in T /\ EndOfSet(j) \notin T

(* What the walk has found of the sets, and where it goes on.             *)
PartsFound ==
  /\ stage \in {"looping", "stitching"} => Blocks = <<>> /\ LoopBlocks = <<>>
  /\ \A k \in 1 .. NumNewLoops + 1 : k <= Len(LoopBlocks) => IsPart(k)
  /\ stage = "walking" /\ Len(LoopBlocks) <= NumNewLoops => walk # <<>> /\ IsOnWay(walk[1][1])
  /\ stage \in {"assigning", "done"} => Len(LoopBlocks) >= NumNewLoops + 1

(* In a body without cycle no way leads back from behind a block to it:    *)
(* the blocks that are reached from behind it leave it out.                *)
LEMMA NoReturn ==
  ASSUME NEW s, NEW L, IsAcyclic(s, L), NEW b \in Body(L), NEW y \in SuccessorsOf(s, b) \cap Body(L)
  PROVE  \E T \in SUBSET Body(L) :
           (\A x \in T : SuccessorsOf(s, x) \cap Body(L) \subseteq T) /\ y \in T /\ b \notin T
<1> DEFINE B == Body(L)
           Next(x) == SuccessorsOf(s, x) \cap B
           Closed(C) == \A x \in C : Next(x) \subseteq C
           T == {z \in B : \A C \in SUBSET B : y \in C /\ Closed(C) => z \in C}
           X == {z \in T : \A D \in SUBSET B : z \in D /\ Closed(D) => b \in D}
<1>1. y \in B /\ b \in B /\ y \in Next(b)
  OBVIOUS
<1>2. \A S \in SUBSET B : S # {} => \E x \in S : Next(x) \cap S = {}
  BY DEF IsAcyclic
<1> HIDE DEF B, Next
<1>3. Closed(T) /\ y \in T /\ T \in SUBSET B
  <2>1. ASSUME NEW x \in T, NEW z \in Next(x) PROVE z \in T
    <3>1. z \in B
      BY <2>1 DEF Next
    <3> QED BY <2>1, <3>1
  <2> QED BY <1>1, <2>1
<1>4. b \notin T
  <2> SUFFICES ASSUME b \in T PROVE FALSE
    OBVIOUS
  <2>1. y \in X /\ X \in SUBSET B
    BY <1>3
  <2>2. PICK z \in X : Next(z) \cap X = {}
    BY <1>2, <2>1
  <2>3. z # b
    BY <1>1, <2>1, <2>2
  <2> DEFINE D == {z} \cup {u \in B : \E w \in Next(z) : \E E \in SUBSET B :
                     Closed(E) /\ w \in E /\ b \notin E /\ u \in E}
  <2>4. ASSUME NEW w \in Next(z) PROVE w \in D
    <3>1. w \in T /\ w \notin X /\ w \in B
      BY <1>3, <2>2
    <3>2. PICK E \in SUBSET B : w \in E /\ Closed(E) /\ b \notin E
      BY <3>1
    <3> QED BY <3>1, <3>2
  <2>5. Closed(D)
    <3> SUFFICES ASSUME NEW x \in D, NEW w \in Next(x) PROVE w \in D
      OBVIOUS
    <3>1. CASE x = z
      BY <2>4, <3>1
    <3>2. CASE x # z
      <4>1. PICK v \in Next(z) : \E E \in SUBSET B : Closed(E) /\ v \in E /\ b \notin E /\ x \in E
        BY <3>2
      <4>2. PICK E \in SUBSET B : Closed(E) /\ v \in E /\ b \notin E /\ x \in E
        BY <4>1
      <4>3. w \in E /\ w \in B
        BY <4>2
      <4> QED BY <4>1, <4>2, <4>3
    <3> QED BY <3>1, <3>2
  <2>6. b \notin D
    BY <2>3
  <2>7. z \in D /\ D \in SUBSET B
    BY <2>1
  <2> HIDE DEF D
  <2> QED BY <2>2, <2>5, <2>6, <2>7
<1> HIDE DEF T, X
<1> QED BY <1>3, <1>4 DEF B, Next

(* The ends of the sets that were found differ.                            *)
LEMMA EndsDiffer ==
  ASSUME NEW m \in Nat, \A k \in 1 .. m : IsPart(k)
  PROVE  \A j, k \in 1 .. m : EndOfSet(j) = EndOfSet(k) => j = k
<1>1. ASSUME NEW k \in 1 .. m, NEW j \in 1 .. k - 1 PROVE EndOfSet(j) # EndOfSet(k)
  <2>1. IsPart(k)
    OBVIOUS
  <2>2. PICK T \in SUBSET Body(loop) : EndOfSet(k) \in T /\ EndOfSet(j) \notin T
    BY <2>1 DEF IsPart
  <2> QED BY <2>2
<1> SUFFICES ASSUME NEW j \in 1 .. m, NEW k \in 1 .. m, j # k PROVE EndOfSet(j) # EndOfSet(k)
  OBVIOUS
<1>2. CASE j < k
  <2>1. j \in 1 .. k - 1
    BY <1>2
  <2> QED BY <1>1, <2>1
<1>3. CASE k < j
  <2>1. k \in 1 .. j - 1
    BY <1>3
  <2> QED BY <1>1, <2>1
<1> QED BY <1>2, <1>3

(* As long as not all sets are found, a cut is left.                       *)
LEMMA CutsLeft ==
  ASSUME CutsMade, NumNewLoops \in Nat, IsFiniteSet(Cuts), NEW m \in 0 .. NumNewLoops, \A k \in 1 .. m : IsPart(k)
  PROVE  /\ m < NumNewLoops <=> Cuts \ {EndOfSet(j) : j \in 1 .. m} # {}
         /\ {EndOfSet(j) : j \in 1 .. m} \subseteq Cuts
<1> DEFINE n == NumNewLoops
           list == [j \in 1 .. m |-> EndOfSet(j)]
           R == {EndOfSet(j) : j \in 1 .. m}
<1>1. m \in Nat /\ n \in Nat /\ m <= n /\ Cardinality(Cuts) = n
  BY DEF CutsMade
<1>2. \A j \in 1 .. m : EndOfSet(j) \in Cuts
  <2> SUFFICES ASSUME NEW j \in 1 .. m PROVE EndOfSet(j) \in Cuts
    OBVIOUS
  <2>1. IsPart(j) /\ j <= n
    BY <1>1
  <2> QED BY <2>1 DEF IsPart
<1>3. R \subseteq Cuts
  BY <1>2
<1>4. \A j, k \in 1 .. m : EndOfSet(j) = EndOfSet(k) => j = k
  BY <1>1, EndsDiffer
<1>5. Len(list) = m /\ list \in Seq(Cuts) /\ Range(list) = R /\ NoDuplicates(list)
  <2>1. list \in [1 .. m -> Cuts] /\ DOMAIN list = 1 .. m
    BY <1>2
  <2>2. Range(list) = R /\ NoDuplicates(list)
    BY <1>4 DEF Range, NoDuplicates
  <2> HIDE DEF list
  <2> QED BY <1>1, <2>1, <2>2
<1> HIDE DEF n, list, R
<1>6. IsFiniteSet(R) /\ Cardinality(R) = m
  BY <1>5, DistinctCount
<1>7. m < n <=> Cuts \ R # {}
  <2>1. ASSUME m < n PROVE R # Cuts
    BY <1>1, <1>6, <2>1
  <2>2. ASSUME Cuts \ R # {} PROVE m < n
    <3>1. R # Cuts
      BY <2>2
    <3>2. Cardinality(Cuts) # Cardinality(R)
      BY <1>3, <3>1, FS_Subset
    <3> QED BY <1>1, <1>6, <3>2
  <2> QED BY <1>3, <2>1, <2>2
<1> QED BY <1>3, <1>7 DEF n, R

(* The k-th set does not change when one is added.                         *)
LEMMA PartStays ==
  ASSUME NEW k, LoopBlocks'[k] = LoopBlocks[k], \A j \in 1 .. k - 1 : LoopBlocks'[j] = LoopBlocks[j],
         k - 1 \in 1 .. k - 1 \/ k = 1,
         UNCHANGED <<loop, body, EndBlocks, AnnotatedVars>>, IsPart(k)
  PROVE  IsPart(k)'
<1>1. /\ EndOfSet(k)' = EndOfSet(k) /\ \A j \in 1 .. k - 1 : EndOfSet(j)' = EndOfSet(j)
      /\ k # 1 => EndOfSet(k - 1)' = EndOfSet(k - 1)
      /\ Head(LoopBlocks[k])' = Head(LoopBlocks[k])
  BY DEF EndOfSet
<1>2. Cuts' = Cuts /\ BodyEnd' = BodyEnd /\ NumNewLoops' = NumNewLoops
  BY DEF Cuts, BodyEnd, NumNewLoops
<1> DEFINE first == Head(LoopBlocks[k])
           end == EndOfSet(k)
<1>3. /\ IF k = 1 THEN first = BodyBegin(body, loop) ELSE first \in SuccessorsOf(body, EndOfSet(k - 1))
      /\ IF k <= NumNewLoops THEN end \in Cuts ELSE end = BodyEnd
      /\ \A S \in SUBSET Body(loop) : LeadsTo(body, loop, S, end) => first \in S \cup {end}
      /\ \A j \in 1 .. k - 1 : \E T \in SUBSET Body(loop) :
           IsKept(T) /\ first \in T /\ end \in T /\ EndOfSet(j) \notin T
  BY DEF IsPart
<1>4. \A T : IsKept(T)' <=> IsKept(T)
  BY DEF IsKept
<1>5. \A j \in 1 .. k - 1 : \E T \in SUBSET Body(loop) :
        IsKept(T)' /\ first \in T /\ end \in T /\ EndOfSet(j)' \notin T
  BY <1>1, <1>3, <1>4
<1> HIDE DEF first, end
<1>6. /\ IF k = 1 THEN first = BodyBegin(body', loop') ELSE first \in SuccessorsOf(body', EndOfSet(k - 1)')
      /\ IF k <= NumNewLoops' THEN end \in Cuts' ELSE end = BodyEnd'
      /\ \A S \in SUBSET Body(loop') : LeadsTo(body', loop', S, end) => first \in S \cup {end}
      /\ \A j \in 1 .. k - 1 : \E T \in SUBSET Body(loop') :
           IsKept(T)' /\ first \in T /\ end \in T /\ EndOfSet(j)' \notin T
  BY <1>1, <1>2, <1>3, <1>5
<1>7. first = Head(LoopBlocks[k])' /\ end = EndOfSet(k)'
  BY <1>1 DEF first, end
<1> QED BY <1>6, <1>7 DEF IsPart

(* The walk starts at the begin of the body.                               *)
LEMMA PartsAtFirst ==
  ASSUME SFInv, SplitInv, source \in Supported, PartsFound, stitchLastLoop
  PROVE  PartsFound'
<1>1. /\ stage = "stitching" /\ stage' = "walking"
      /\ walk' = <<<<BodyBegin(body, loop), 1>>>>
      /\ UNCHANGED <<loop, EndBlocks, body, AnnotatedVars, Blocks, LoopBlocks>>
  BY DEF stitchLastLoop, useVars, loopVars
<1>2. Blocks' = <<>> /\ LoopBlocks' = <<>>
  BY <1>1 DEF PartsFound
<1> DEFINE begin == BodyBegin(body, loop)
           B == Body(loop)
<1>3. walk'[1][1] = begin /\ walk' # <<>> /\ FirstOfSet' = begin
  BY <1>1, <1>2 DEF FirstOfSet
<1>4. BodyBegin(body', loop') = begin /\ Body(loop') = B
  BY <1>1
<1>5. \A c : \A S : LeadsTo(body', loop', S, c) => begin \in S \cup {c}
  BY <1>4 DEF LeadsTo
<1>6. Len(LoopBlocks') = 0 /\ 1 .. 0 = {}
  BY <1>2
<1> HIDE DEF begin, B
<1>7. IsOnWay(walk[1][1])'
  BY <1>3, <1>4, <1>5, <1>6 DEF IsOnWay
<1>8. \A k \in 1 .. NumNewLoops' + 1 : ~(k <= Len(LoopBlocks'))
  BY <1>6
<1> QED BY <1>1, <1>3, <1>7, <1>8 DEF PartsFound

(* A set of blocks when its last block is added.                           *)
LEMMA SetIsDone ==
  ASSUME NEW R, NEW list \in Seq(R), NEW b \in R
  PROVE  /\ Head(Append(list, b)) = IF list = <<>> THEN b ELSE list[1]
         /\ Last(Append(list, b)) = b
         /\ list # <<>> => Append(list, b)[1] = list[1]
         /\ list = <<>> => Append(list, b)[1] = b
<1> DEFINE n == Len(list)
           u == Append(list, b)
<1>1. n \in Nat /\ Len(u) = n + 1 /\ u[n + 1] = b /\ (list = <<>> <=> n = 0)
      /\ \A k \in 1 .. n : u[k] = list[k]
  OBVIOUS
<1>2. Head(u) = u[1]
  OBVIOUS
<1> HIDE DEF u, n
<1>3. Last(u) = b
  BY <1>1 DEF Last
<1>4. u[1] = IF list = <<>> THEN b ELSE list[1]
  BY <1>1
<1> QED BY <1>2, <1>3, <1>4 DEF u

(* One call of the walk.                                                   *)
LEMMA WalkNow ==
  ASSUME SFInv, SplitInv, source \in Supported, traverseLoopBody, NEW b, b = walk[1][1]
  PROVE  /\ stage = "walking" /\ stage' = "walking" /\ walk # <<>>
         /\ UNCHANGED <<loop, EndBlocks, body, AnnotatedVars>>
         /\ b \in Body(loop)
         /\ LoopBlocks' = IF b \in Range(EndBlocks) THEN Append(LoopBlocks, Append(Blocks, b)) ELSE LoopBlocks
         /\ Blocks' = IF b \in Range(EndBlocks) THEN <<>> ELSE Append(Blocks, b)
         /\ b # BodyEnd => /\ walk' # <<>>
                           /\ walk'[1][1] = body[b][1]
                           /\ body[b][1] \in SuccessorsOf(body, b) \cap Body(loop)
<1> DEFINE depth == walk[1][2]
           list == Recursion(b)
           visited == Append(Blocks, b)
           R == 2 .. Size
           W == R \X (Nat \ {0})
<1>1. /\ stage = "walking" /\ stage' = "walking" /\ walk # <<>>
      /\ UNCHANGED <<loop, EndBlocks, body, AnnotatedVars>>
  BY DEF traverseLoopBody, loopVars, useVars, irVars
<1>2. walk' = [k \in DOMAIN list |-> <<list[k], depth + 1>>] \o Tail(walk)
  BY DEF traverseLoopBody
<1>3. IF b \in Range(EndBlocks)
      THEN LoopBlocks' = Append(LoopBlocks, visited) /\ Blocks' = <<>>
      ELSE LoopBlocks' = LoopBlocks /\ Blocks' = visited
  BY DEF traverseLoopBody
<1>4. CutsMade /\ LoopingOK
  BY <1>1 DEF SplitInv, InSplitting, SFInv, PassInv
<1>5. FoundOK /\ LoopsOK /\ EdgesOK /\ WalkOK /\ BodyEnd # NullBlock
  BY <1>4 DEF LoopingOK, CutsMade
<1>6. walk \in Seq(W) /\ 1 \in DOMAIN walk /\ depth \in Nat \ {0}
  <2>1. walk \in Seq(W)
    BY <1>1, <1>5 DEF WalkOK
  <2> DEFINE w == walk
  <2>2. w \in Seq(W) /\ w # <<>>
    BY <1>1, <2>1
  <2> HIDE DEF W, w
  <2>3. 1 \in DOMAIN w /\ w[1] \in W
    BY <2>2
  <2> QED BY <2>1, <2>3 DEF W, w
<1>7. b \in Body(loop)
  BY <1>1, <1>5, <1>6 DEF WalkOK
<1> HIDE DEF depth
<1>8. b \in DOMAIN body /\ succ[b] = body[b] /\ body[b] \in Seq(R) /\ 1 \in DOMAIN body[b] /\ body[b] # <<>>
  <2>1. IsLoop(body, loop) /\ IsNumbered(body, Size)
    BY <1>5 DEF FoundOK, KeptLoop
  <2>2. b \in DOMAIN body /\ b # Entry
    BY <1>7, <2>1 DEF IsLoop, Body
  <2>3. body[b] \in Seq(R)
    BY <2>1, <2>2 DEF IsNumbered
  <2>4. SuccessorsOf(body, b) # {}
    BY <1>7, <2>1 DEF IsLoop, Body
  <2> DEFINE t == body[b]
  <2>5. t \in Seq(R) /\ DOMAIN t # {}
    BY <2>3, <2>4 DEF SuccessorsOf
  <2> HIDE DEF R, t
  <2>6. 1 \in DOMAIN t /\ t # <<>>
    BY <2>5
  <2> QED BY <1>1, <1>5, <2>2, <2>3, <2>6 DEF EdgesOK, t
<1>9. ASSUME b # BodyEnd
      PROVE  /\ walk' # <<>> /\ walk'[1][1] = body[b][1]
             /\ body[b][1] \in SuccessorsOf(body, b) \cap Body(loop)
  <2>1. list = body[b]
    BY <1>8, <1>9 DEF Recursion
  <2> HIDE DEF list
  <2> DEFINE w == walk
             u == walk'
  <2>2. CallsOn(w, list, depth, u) /\ w \in Seq(R \X (Nat \ {0})) /\ list \in Seq(R) /\ list # <<>>
    BY <1>1, <1>2, <1>6, <1>8, <2>1 DEF CallsOn
  <2> HIDE DEF w, u, R
  <2>3. u # <<>> /\ u[1] = <<list[1], depth + 1>>
    <3>1. IsOneOf(w, list, depth, u, R)
      BY <2>2, NextCalls
    <3> QED BY <2>2, <3>1 DEF IsOneOf
  <2>4. u[1][1] = list[1]
    BY <2>3
  <2>5. SuccessorsOf(body, b) \subseteq Body(loop)
    BY <1>5, <1>7, <1>9, StaysInBody
  <2>6. body[b][1] \in SuccessorsOf(body, b)
    BY <1>8, SuccessorsAre
  <2> QED BY <2>1, <2>3, <2>4, <2>5, <2>6 DEF u
<1> HIDE DEF visited
<1>10. /\ LoopBlocks' = IF b \in Range(EndBlocks) THEN Append(LoopBlocks, visited) ELSE LoopBlocks
       /\ Blocks' = IF b \in Range(EndBlocks) THEN <<>> ELSE visited
  BY <1>3
<1> QED BY <1>1, <1>7, <1>9, <1>10 DEF visited

(* Each call leads on to the next end, and the set it ends is the next     *)
(* part; the walk comes to the end of the body only when all cuts have     *)
(* been visited.                                                           *)
LEMMA PartsTraverse ==
  ASSUME SFInv, SplitInv, SFInv', source \in Supported, WaysFound, PartsFound, traverseLoopBody
  PROVE  PartsFound'
<1> DEFINE B == Body(loop)
           P == Seq(B) \ {<<>>}
           lists == LoopBlocks
           After(x) == SuccessorsOf(body, x)
<1>01. PICK m : m = Len(LoopBlocks)
  OBVIOUS
<1>02. PICK n : n = NumNewLoops
  OBVIOUS
<1>03. PICK first : first = FirstOfSet
  OBVIOUS
<1> DEFINE Ends == {EndOfSet(j) : j \in 1 .. m}
<1>0. PICK b : b = walk[1][1]
  OBVIOUS
<1>04. PICK y : y = body[b][1]
  OBVIOUS
<1> DEFINE visited == Append(Blocks, b)
<1>1. /\ stage = "walking" /\ stage' = "walking" /\ walk # <<>>
      /\ UNCHANGED <<loop, EndBlocks, body, AnnotatedVars>>
      /\ b \in B
      /\ LoopBlocks' = IF b \in Range(EndBlocks) THEN Append(lists, visited) ELSE lists
      /\ Blocks' = IF b \in Range(EndBlocks) THEN <<>> ELSE visited
      /\ b # BodyEnd => walk' # <<>> /\ walk'[1][1] = y /\ y \in After(b) \cap B
  BY <1>0, <1>04, WalkNow
<1>2. CutsMade /\ FoundOK /\ LoopsOK /\ EdgesOK /\ WalkOK /\ BodyEnd # NullBlock /\ IsAcyclic(body, loop)
  <2>1. CutsMade /\ LoopingOK
    BY <1>1 DEF SplitInv, InSplitting, SFInv, PassInv
  <2> QED BY <2>1, SupportedLoop DEF LoopingOK, CutsMade, FoundOK, KeptLoop
<1>3. lists \in Seq(P) /\ Blocks \in Seq(B)
  BY <1>2 DEF WalkOK
<1>4. n \in Nat \ {0} /\ m \in Nat /\ m = Len(lists)
  <2>1. n \in Nat \ {0}
    BY <1>2, <1>02 DEF FoundOK
  <2> HIDE DEF P, lists
  <2>2. Len(lists) \in Nat
    BY <1>3
  <2> QED BY <2>1, <2>2, <1>01 DEF lists
<1>5. \A k \in 1 .. n + 1 : k <= m => IsPart(k)
  BY <1>01, <1>02 DEF PartsFound
<1>6. /\ Len(LoopBlocks') = IF b \in Range(EndBlocks) THEN m + 1 ELSE m
      /\ \A k \in 1 .. m : LoopBlocks'[k] = LoopBlocks[k]
      /\ b \in Range(EndBlocks) => LoopBlocks'[m + 1] = visited
  <2>1. /\ Len(Append(lists, visited)) = m + 1
        /\ \A k \in 1 .. m : Append(lists, visited)[k] = lists[k]
        /\ Append(lists, visited)[m + 1] = visited
    <3> HIDE DEF P, lists, visited
    <3> QED BY <1>3, <1>4
  <2> HIDE DEF P, visited
  <2> QED BY <1>1, <1>4, <2>1 DEF lists
<1>7. /\ Cuts' = Cuts /\ BodyEnd' = BodyEnd /\ NumNewLoops' = n
      /\ \A T : IsKept(T)' <=> IsKept(T)
  BY <1>1, <1>02 DEF Cuts, BodyEnd, NumNewLoops, IsKept
<1>8. \A k \in 1 .. m : EndOfSet(k)' = EndOfSet(k)
  BY <1>6 DEF EndOfSet
<1>9. ASSUME NEW k \in 1 .. n + 1, k <= m PROVE IsPart(k)'
  <2>1. IsPart(k) /\ k \in 1 .. m
    BY <1>4, <1>5, <1>9
  <2>2. k - 1 \in 1 .. k - 1 \/ k = 1
    BY <1>4, <1>9
  <2>3. \A j \in 1 .. k - 1 : j \in 1 .. m
    BY <1>4, <1>9
  <2>4. LoopBlocks'[k] = LoopBlocks[k] /\ \A j \in 1 .. k - 1 : LoopBlocks'[j] = LoopBlocks[j]
    BY <1>6, <2>1, <2>3
  <2> QED BY <1>1, <2>1, <2>2, <2>4, PartStays
<1>10. ASSUME m > n PROVE PartsFound'
  <2>1. /\ \A k \in 1 .. NumNewLoops' + 1 : k <= m
        /\ ~(Len(LoopBlocks') <= NumNewLoops')
    BY <1>4, <1>6, <1>7, <1>10
  <2>2. \A k \in 1 .. NumNewLoops' + 1 : IsPart(k)'
    BY <1>7, <1>9, <2>1
  <2> QED BY <1>1, <2>1, <2>2 DEF PartsFound
<1> SUFFICES ASSUME m <= n PROVE PartsFound'
  BY <1>4, <1>10
<1>11. /\ IF m = 0 THEN first = BodyBegin(body, loop) ELSE first \in After(EndOfSet(m))
       /\ \A c \in Range(EndBlocks) \ Ends : \A S \in SUBSET B :
            LeadsTo(body, loop, S, c) => first \in S \cup {c} /\ b \in S \cup {c}
       /\ \A j \in 1 .. m : \E T \in SUBSET B : IsKept(T) /\ first \in T /\ b \in T /\ EndOfSet(j) \notin T
  <2>1. IsOnWay(b)
    BY <1>0, <1>1, <1>01, <1>02 DEF PartsFound
  <2> QED BY <2>1, <1>01, <1>03 DEF IsOnWay
<1>12. b \notin Ends
  BY <1>11
<1>13. /\ m < n <=> Cuts \ Ends # {}
       /\ Ends \subseteq Cuts
  <2>1. IsFiniteSet(Cuts)
    <3>1. IsFiniteSet(DOMAIN body)
      <4> DEFINE s == body
                 l == Size
      <4>1. IsNumbered(s, l)
        BY <1>2 DEF FoundOK
      <4> HIDE DEF s, l
      <4>2. IsFiniteSet(DOMAIN s)
        BY <4>1, NumberedSize
      <4> QED BY <4>2 DEF s
    <3>2. Cuts \subseteq DOMAIN body
      BY <1>2 DEF CutsMade, FoundOK, KeptLoop, IsLoop, Body
    <3> QED BY <3>1, <3>2, FS_Subset
  <2>2. m \in 0 .. NumNewLoops /\ NumNewLoops \in Nat
    BY <1>4, <1>02
  <2>3. \A k \in 1 .. m : IsPart(k)
    BY <1>4, <1>5
  <2> HIDE DEF Ends
  <2> QED BY <1>2, <1>02, <2>1, <2>2, <2>3, CutsLeft DEF Ends
<1>14. Head(visited) = first /\ Last(visited) = b /\ visited[1] = first
  <2>1. first = IF Blocks = <<>> THEN b ELSE Blocks[1]
    BY <1>0, <1>03 DEF FirstOfSet
  <2> HIDE DEF B
  <2> QED BY <1>1, <1>3, <2>1, SetIsDone
<1>15. BodyEnd \in Range(EndBlocks) /\ BodyEnd \notin Cuts
  <2> DEFINE ends == EndBlocks
  <2>1. ends \in Seq(Nat) /\ ends # <<>>
    BY <1>2 DEF FoundOK
  <2> HIDE DEF ends
  <2>2. Len(ends) \in DOMAIN ends
    BY <2>1
  <2> QED BY <2>2 DEF BodyEnd, Last, Range, ends, Cuts
<1> HIDE DEF visited, Ends
<1>16. ASSUME b \notin Range(EndBlocks) PROVE PartsFound'
  <2>1. /\ LoopBlocks' = LoopBlocks /\ Len(LoopBlocks') = m /\ Blocks' = visited /\ b # BodyEnd
    BY <1>1, <1>6, <1>15, <1>16
  <2>2. FirstOfSet' = first
    <3>1. Blocks' # <<>>
      <4> HIDE DEF B
      <4> QED BY <1>1, <1>3, <2>1, Appended DEF visited
    <3> QED BY <1>14, <2>1, <3>1 DEF FirstOfSet
  <2>3. EndOfSet(m)' = EndOfSet(m)
    BY <2>1 DEF EndOfSet
  <2>4. {EndOfSet(j)' : j \in 1 .. m} = Ends
    BY <1>8 DEF Ends
  <2>5. ASSUME NEW c \in Range(EndBlocks) \ Ends, NEW S \in SUBSET B, LeadsTo(body, loop, S, c)
        PROVE  first \in S \cup {c} /\ y \in S \cup {c}
    <3>1. first \in S \cup {c} /\ b \in S
      BY <1>11, <1>16, <2>5
    <3> QED BY <1>1, <2>1, <2>5, <3>1 DEF LeadsTo
  <2>6. ASSUME NEW j \in 1 .. m
        PROVE  \E T \in SUBSET B : IsKept(T) /\ first \in T /\ y \in T /\ EndOfSet(j) \notin T
    <3>1. PICK T \in SUBSET B : IsKept(T) /\ first \in T /\ b \in T /\ EndOfSet(j) \notin T
      BY <1>11
    <3>2. y \in T
      BY <1>1, <2>1, <3>1 DEF IsKept
    <3> QED BY <3>1, <3>2
  <2>7. walk'[1][1] = y /\ walk' # <<>>
    BY <1>1, <2>1
  <2>8. IsOnWay(walk[1][1])'
    <3>1. \A j \in 1 .. m : \E T \in SUBSET B : IsKept(T)' /\ first \in T /\ y \in T /\ EndOfSet(j)' \notin T
      BY <1>7, <1>8, <2>6
    <3>2. /\ IF m = 0 THEN first = BodyBegin(body', loop') ELSE first \in SuccessorsOf(body', EndOfSet(m)')
          /\ \A c \in Range(EndBlocks') \ {EndOfSet(j)' : j \in 1 .. m} : \A S \in SUBSET Body(loop') :
               LeadsTo(body', loop', S, c) => first \in S \cup {c} /\ y \in S \cup {c}
          /\ \A j \in 1 .. m : \E T \in SUBSET Body(loop') :
               IsKept(T)' /\ first \in T /\ y \in T /\ EndOfSet(j)' \notin T
      BY <1>1, <1>11, <2>3, <2>4, <2>5, <3>1
    <3> QED BY <2>1, <2>2, <2>7, <3>2 DEF IsOnWay
  <2>9. \A k \in 1 .. NumNewLoops' + 1 : k <= Len(LoopBlocks') => IsPart(k)'
    BY <1>7, <1>9, <2>1
  <2> QED BY <1>1, <2>7, <2>8, <2>9 DEF PartsFound
<1>17. ASSUME b \in Range(EndBlocks) PROVE PartsFound'
  <2>1. /\ Len(LoopBlocks') = m + 1 /\ LoopBlocks'[m + 1] = visited /\ Blocks' = <<>>
    BY <1>1, <1>6, <1>17
  <2>2. EndOfSet(m + 1)' = b /\ Head(LoopBlocks'[m + 1]) = first
    BY <1>14, <2>1 DEF EndOfSet
  <2>3. IF m + 1 <= n THEN b \in Cuts ELSE b = BodyEnd
    <3>1. CASE b = BodyEnd
      <4> SUFFICES ASSUME m < n PROVE FALSE
        BY <1>4, <3>1
      <4>1. PICK c \in Cuts \ Ends : TRUE
        BY <1>13
      <4>2. c \in Range(EndBlocks) /\ c # b /\ AllCome(body, loop, c)
        BY <1>15, <3>1 DEF Cuts, WaysFound
      <4>3. PICK S \in SUBSET B : LeadsTo(body, loop, S, c)
        BY <4>2 DEF AllCome
      <4>4. b \in S
        BY <1>11, <4>1, <4>2, <4>3
      <4>5. After(b) \subseteq B
        BY <4>3, <4>4, <4>1, <1>2 DEF LeadsTo, CutsMade
      <4>6. After(b) \cap B = {}
        BY <1>2, <3>1, EndIsNoBranch
      <4>7. After(b) # {}
        BY <1>1, <1>2 DEF FoundOK, KeptLoop, IsLoop, Body
      <4> QED BY <4>5, <4>6, <4>7
    <3>2. CASE b # BodyEnd
      <4>1. b \in Cuts \ Ends
        BY <1>12, <1>17, <3>2 DEF Cuts
      <4>2. m < n
        BY <1>13, <4>1
      <4> QED BY <1>4, <4>1, <4>2
    <3> QED BY <3>1, <3>2
  <2>4. IsPart(m + 1)'
    <3>1. /\ IF m + 1 = 1 THEN first = BodyBegin(body, loop) ELSE first \in After(EndOfSet(m))
          /\ \A S \in SUBSET B : LeadsTo(body, loop, S, b) => first \in S \cup {b}
      BY <1>4, <1>11, <1>12, <1>17
    <3>2. \A j \in 1 .. m : \E T \in SUBSET B : IsKept(T)' /\ first \in T /\ b \in T /\ EndOfSet(j)' \notin T
      BY <1>7, <1>8, <1>11
    <3>3. m # 0 => EndOfSet(m)' = EndOfSet(m)
      BY <1>4, <1>8
    <3>4. m + 1 - 1 = m /\ m + 1 # 0 /\ (m + 1 = 1 <=> m = 0)
      BY <1>4
    <3>5. /\ IF m + 1 = 1 THEN first = BodyBegin(body', loop') ELSE first \in SuccessorsOf(body', EndOfSet(m)')
          /\ IF m + 1 <= n THEN b \in Cuts' ELSE b = BodyEnd'
          /\ \A S \in SUBSET Body(loop') : LeadsTo(body', loop', S, b) => first \in S \cup {b}
          /\ \A j \in 1 .. m : \E T \in SUBSET Body(loop') :
               IsKept(T)' /\ first \in T /\ b \in T /\ EndOfSet(j)' \notin T
      BY <1>1, <1>7, <2>3, <3>1, <3>2, <3>3, <3>4
    <3>6. PICK x : x = m + 1
      OBVIOUS
    <3>7. EndOfSet(x)' = b /\ Head(LoopBlocks'[x]) = first /\ x - 1 = m
      <4>1. x - 1 = m
        BY <1>4, <3>6
      <4>2. LoopBlocks'[x] = visited
        BY <2>1, <3>6
      <4> QED BY <1>14, <4>1, <4>2 DEF EndOfSet
    <3>8. IsPart(x)'
      BY <1>7, <3>4, <3>5, <3>6, <3>7 DEF IsPart
    <3> QED BY <3>6, <3>8
  <2>5. ASSUME m + 1 <= n PROVE walk' # <<>> /\ IsOnWay(walk[1][1])'
    <3>1. b \in Cuts /\ b # BodyEnd
      BY <1>15, <2>3, <2>5
    <3>2. walk' # <<>> /\ walk'[1][1] = y /\ y \in After(b) \cap B
      BY <1>1, <3>1
    <3>3. FirstOfSet' = y
      BY <2>1, <3>2 DEF FirstOfSet
    <3>4. {EndOfSet(j)' : j \in 1 .. m + 1} = Ends \cup {b}
      <4>1. \A j \in 1 .. m + 1 : j \in 1 .. m \/ j = m + 1
        BY <1>4
      <4>2. \A j \in 1 .. m : j \in 1 .. m + 1
        BY <1>4
      <4>3. m + 1 \in 1 .. m + 1
        BY <1>4
      <4> QED BY <1>8, <2>2, <4>1, <4>2, <4>3 DEF Ends
    <3>5. ASSUME NEW c \in Range(EndBlocks) \ (Ends \cup {b}), NEW S \in SUBSET B, LeadsTo(body, loop, S, c)
          PROVE  y \in S \cup {c}
      <4>1. b \in S
        BY <1>11, <3>5
      <4> QED BY <3>2, <3>5, <4>1 DEF LeadsTo
    <3>6. ASSUME NEW j \in 1 .. m + 1
          PROVE  \E T \in SUBSET B : IsKept(T)' /\ y \in T /\ EndOfSet(j)' \notin T
      <4>1. CASE j = m + 1
        <5>1. PICK T \in SUBSET B : (\A x \in T : After(x) \cap B \subseteq T) /\ y \in T /\ b \notin T
          <6> DEFINE s == body
                     L == loop
          <6>1. IsAcyclic(s, L) /\ b \in Body(L) /\ y \in SuccessorsOf(s, b) \cap Body(L)
            BY <1>1, <1>2, <3>2
          <6> HIDE DEF s, L
          <6>2. \E T \in SUBSET Body(L) :
                  (\A x \in T : SuccessorsOf(s, x) \cap Body(L) \subseteq T) /\ y \in T /\ b \notin T
            BY <1>1, <6>1, NoReturn DEF L
          <6> QED BY <6>2 DEF s, L
        <5>2. IsKept(T)
          BY <5>1 DEF IsKept
        <5> QED BY <1>7, <2>2, <4>1, <5>1, <5>2
      <4>2. CASE j # m + 1
        <5>1. j \in 1 .. m
          BY <1>4, <4>2
        <5>2. PICK T \in SUBSET B : IsKept(T) /\ b \in T /\ EndOfSet(j) \notin T
          BY <1>11, <5>1
        <5>3. y \in T
          BY <3>2, <5>2 DEF IsKept
        <5> QED BY <1>7, <1>8, <5>1, <5>2, <5>3
      <4> QED BY <4>1, <4>2
    <3>7. IsOnWay(walk[1][1])'
      <4>1. m + 1 # 0
        BY <1>4
      <4>2. PICK x : x = m + 1
        OBVIOUS
      <4>3. /\ y \in SuccessorsOf(body', EndOfSet(x)')
            /\ \A c \in Range(EndBlocks') \ {EndOfSet(j)' : j \in 1 .. x} : \A S \in SUBSET Body(loop') :
                 LeadsTo(body', loop', S, c) => y \in S \cup {c} /\ y \in S \cup {c}
            /\ \A j \in 1 .. x : \E T \in SUBSET Body(loop') :
                 IsKept(T)' /\ y \in T /\ y \in T /\ EndOfSet(j)' \notin T
        BY <1>1, <2>2, <3>2, <3>4, <3>5, <3>6, <4>2
      <4>4. Len(LoopBlocks') = x /\ x # 0
        BY <2>1, <4>1, <4>2
      <4> QED BY <3>2, <3>3, <4>3, <4>4 DEF IsOnWay
    <3> QED BY <3>2, <3>7
  <2>6. ASSUME NEW k \in 1 .. n + 1, k <= m + 1 PROVE IsPart(k)'
    <3>1. CASE k <= m
      BY <1>9, <2>6, <3>1
    <3>2. CASE k = m + 1
      BY <2>4, <3>2
    <3> QED BY <1>4, <2>6, <3>1, <3>2
  <2> QED BY <1>1, <1>7, <2>1, <2>5, <2>6 DEF PartsFound
<1> QED BY <1>16, <1>17

(* The sets stay while neither they nor the body are changed.              *)
LEMMA PartsStay ==
  ASSUME PartsFound, UNCHANGED <<loop, body, EndBlocks, AnnotatedVars, walk, Blocks, LoopBlocks>>,
         stage' # "walking",
         stage' \in {"looping", "stitching"} => stage \in {"looping", "stitching"},
         stage' \in {"assigning", "done"} => stage \in {"assigning", "done"}
  PROVE  PartsFound'
<1>1. NumNewLoops' = NumNewLoops /\ \A k : IsPart(k)' <=> IsPart(k)
  BY DEF NumNewLoops, IsPart, EndOfSet, Cuts, BodyEnd, IsKept
<1> QED BY <1>1 DEF PartsFound

(* Enough sets are left when the last one is thrown away.                  *)
LEMMA PartsAfterDrop ==
  ASSUME SFInv, SplitInv, source \in Supported, PartsFound, dropExtraSet
  PROVE  PartsFound'
<1> DEFINE lists == LoopBlocks
           n == NumNewLoops
           P == Seq(Body(loop)) \ {<<>>}
<1>1. /\ stage = "walking"
      /\ UNCHANGED <<loop, body, EndBlocks, AnnotatedVars>>
  BY DEF dropExtraSet, irVars, useVars, loopVars
<1>2. stage' = "assigning" /\ Len(LoopBlocks') >= NumNewLoops' + 1
  BY SupportedDrop
<1>3. LoopBlocks' = Front(lists) /\ lists # <<>>
  BY <1>2 DEF dropExtraSet
<1>4. lists \in Seq(P) /\ n \in Nat
  <2>1. CutsMade /\ LoopingOK
    BY <1>1 DEF SplitInv, InSplitting, SFInv, PassInv
  <2> QED BY <2>1 DEF LoopingOK, WalkOK, CutsMade, FoundOK
<1>5. NumNewLoops' = n
  BY <1>1 DEF NumNewLoops
<1> DEFINE u == LoopBlocks'
           m == Len(lists)
<1>6. m \in Nat /\ Len(u) = m - 1 /\ \A k \in 1 .. m - 1 : u[k] = lists[k]
  <2> HIDE DEF lists, P, u
  <2>1. u = SubSeq(lists, 1, m - 1) /\ lists # <<>>
    BY <1>3 DEF Front, u
  <2>2. m \in Nat /\ m # 0
    BY <1>4, <2>1
  <2> DEFINE l == m - 1
  <2>3. l \in Nat /\ l <= m
    BY <2>2
  <2> HIDE DEF l, m
  <2>4. Len(SubSeq(lists, 1, l)) = l /\ \A k \in 1 .. l : SubSeq(lists, 1, l)[k] = lists[k]
    BY <1>4, <2>3 DEF m
  <2> QED BY <2>1, <2>2, <2>4 DEF l
<1> HIDE DEF m, n
<1>7. ASSUME NEW k \in 1 .. n + 1 PROVE IsPart(k)'
  <2>1. k <= m - 1 /\ k \in 1 .. m - 1 /\ k <= m
    BY <1>2, <1>4, <1>5, <1>6, <1>7
  <2>2. \A j \in 1 .. k - 1 : j \in 1 .. m - 1
    BY <1>4, <1>6, <2>1
  <2>3. LoopBlocks'[k] = LoopBlocks[k] /\ \A j \in 1 .. k - 1 : LoopBlocks'[j] = LoopBlocks[j]
    BY <1>6, <2>1, <2>2
  <2>4. k - 1 \in 1 .. k - 1 \/ k = 1
    BY <1>4
  <2>5. IsPart(k)
    BY <2>1, <1>7 DEF PartsFound, m, n
  <2> QED BY <1>1, <2>3, <2>4, <2>5, PartStays
<1> QED BY <1>2, <1>5, <1>7 DEF PartsFound

(* When the loop is found, there are no sets yet.                          *)
LEMMA PartsAfterFind ==
  ASSUME SFInv, SFInv', stage' = "looping", findLoop
  PROVE  PartsFound'
<1>1. stage = "splitting" /\ UNCHANGED <<Blocks, LoopBlocks>>
  BY DEF findLoop, walkVars
<1>2. Blocks = <<>> /\ LoopBlocks = <<>>
  BY <1>1 DEF SFInv, PassInv, InSplitting, SplittingOK
<1>3. NumNewLoops' \in Nat
  BY DEF SFInv, PassInv, InSplitting, LoopingOK, FoundOK
<1>4. Len(LoopBlocks') = 0
  BY <1>1, <1>2
<1>5. \A k \in 1 .. NumNewLoops' + 1 : ~(k <= Len(LoopBlocks'))
  BY <1>3, <1>4
<1> QED BY <1>1, <1>2, <1>5 DEF PartsFound

-----------------------------------------------------------------------------

(* Each loop is entered at its preheader, and the next one follows it. *)
LoopsFollow ==
  /\ \A k \in DOMAIN Loops : k <= NumNewLoops => succ[Loops[k].PreHeader] = <<Loops[k].Header>>
  /\ succ[Entry] = IF stage = "looping" THEN <<loop.PreHeader>> ELSE <<Loops[1].PreHeader>>
  /\ \A k \in 1 .. NumNewLoops :
       (stage = "stitching" => k < i) /\ stage # "looping" =>
         succ[Loops[k].Header][2] = Loops[k + 1].PreHeader
  /\ succ[loop.Header][2] = ExitBlock

(* The loop that is found is followed by its exit.                         *)
LEMMA FollowFirst ==
  ASSUME SFInv, SFInv', stage' = "looping", WaysFound', findLoop
  PROVE  LoopsFollow'
<1>1. stage = "splitting" /\ UNCHANGED <<succ, loop, Loops>> /\ body' = succ
  BY DEF findLoop, irVars
<1>2. Loops = <<>>
  BY <1>1 DEF SFInv, PassInv, InSplitting, SplittingOK
<1>3. ExitBlock' = succ'[loop'.Header][2]
  BY <1>1 DEF SFInv, PassInv, InSplitting, LoopingOK, FoundOK
<1>4. succ'[Entry] = <<loop'.PreHeader>>
  BY <1>1 DEF WaysFound, IsEntered
<1>5. DOMAIN Loops' = {}
  BY <1>1, <1>2
<1> QED BY <1>3, <1>4, <1>5 DEF LoopsFollow

(* The new loops are not in the function yet.                              *)
LEMMA FollowAdded ==
  ASSUME SFInv, LoopsFollow, addLoop
  PROVE  LoopsFollow'
<1>1. /\ stage = "looping" /\ UNCHANGED <<stage, loop, ExitBlock, AnnotatedVars>>
  BY DEF addLoop, useVars, loopVars
<1>01. PICK m : m = Made
  OBVIOUS
<1>2. Stitching(m) /\ Numbering(m)
  BY <1>01, <1>1, StitchingNow DEF Stitching
<1>02. PICK n : n = Size + 4 * m
  OBVIOUS
<1>3. /\ m = Len(Loops) /\ m \in Nat /\ Size \in Nat \ {0}
      /\ n \in Nat /\ DOMAIN succ = 1 .. n
      /\ HasNewLoop(succ, succ', n)
      /\ NewLoop = [PreHeader |-> n + 1, Header |-> n + 2, Latch |-> n + 3, EmptyBody |-> n + 4]
      /\ DOMAIN Loops' = 1 .. m + 1
      /\ \A k \in 1 .. m : Loops'[k] = Loops[k]
      /\ Loops'[m + 1] = NewLoop
  BY <1>01, <1>02, LoopAdded
<1>4. NumNewLoops' = NumNewLoops
  BY <1>1 DEF NumNewLoops
<1>5. \A b \in DOMAIN succ : succ'[b] = succ[b]
  BY <1>3 DEF HasNewLoop
<1>6. Entry \in DOMAIN succ /\ loop.Header \in DOMAIN succ
  BY <1>2 DEF Stitching, EdgesAre
<1>7. ASSUME NEW k \in 1 .. m + 1, k <= NumNewLoops PROVE succ'[Loops'[k].PreHeader] = <<Loops'[k].Header>>
  <2>1. CASE k \in 1 .. m
    <3>1. k \in DOMAIN Loops
      BY <1>2, <2>1, NewLoopIs
    <3>2. Loops[k].PreHeader = Size + 4 * k - 3
      BY <1>2, <2>1, NewLoopIs
    <3>3. Size + 4 * k - 3 \in 1 .. n
      BY <1>3, <1>02, <2>1
    <3>4. succ[Loops[k].PreHeader] = <<Loops[k].Header>>
      BY <1>7, <3>1 DEF LoopsFollow
    <3>5. succ'[Loops[k].PreHeader] = succ[Loops[k].PreHeader]
      BY <1>3, <1>5, <3>2, <3>3
    <3> QED BY <1>3, <2>1, <3>4, <3>5
  <2>2. CASE k = m + 1
    <3>1. Loops'[k].PreHeader = n + 1 /\ Loops'[k].Header = n + 2
      BY <1>3, <2>2
    <3> QED BY <1>3, <3>1 DEF HasNewLoop
  <2> QED BY <1>3, <2>1, <2>2
<1>8. succ'[Entry] = succ[Entry] /\ succ'[loop.Header] = succ[loop.Header]
  BY <1>5, <1>6
<1> QED BY <1>1, <1>3, <1>4, <1>7, <1>8 DEF LoopsFollow

(* The entry goes to the first one.                                        *)
LEMMA FollowParent ==
  ASSUME SFInv, LoopsFollow, addParentLoop
  PROVE  LoopsFollow'
<1>01. PICK p : p = Loops'[1].PreHeader
  OBVIOUS
<1>1. /\ stage = "looping" /\ stage' = "stitching" /\ i' = 1 /\ i > NumNewLoops
      /\ Loops' = Append(Loops, extractLoopSkeleton(loop))
      /\ succ' = [succ EXCEPT ![Entry][1] = p]
      /\ UNCHANGED <<loop, ExitBlock, AnnotatedVars>>
  BY <1>01 DEF addParentLoop, useVars, loopVars, setSuccessor
<1>02. PICK m : m = Made
  OBVIOUS
<1>2. Stitching(m) /\ Numbering(m)
  BY <1>02, <1>1, StitchingNow DEF Stitching
<1>3. /\ m \in Nat /\ m = Len(Loops) /\ m = NumNewLoops /\ Size \in Nat \ {0} /\ NumNewLoops \in Nat
      /\ DOMAIN succ = 1 .. Size + 4 * m
  <2>1. m = Len(Loops) /\ i = Len(Loops) + 1 /\ i <= NumNewLoops + 1
    BY <1>1, <1>2, <1>02 DEF Stitching, LoopsOK, Made
  <2>2. m \in Nat /\ NumNewLoops \in Nat /\ Size \in Nat \ {0} /\ DOMAIN succ = 1 .. Size + 4 * m
    BY <1>2, <1>02 DEF Stitching, Numbering
  <2> QED BY <1>1, <2>1, <2>2
<1>4. NumNewLoops' = NumNewLoops
  BY <1>1 DEF NumNewLoops
<1>5. \A k \in 1 .. m : Loops'[k] = Loops[k]
  <2> DEFINE R == Range(Loops)
  <2>1. Loops \in Seq(R)
    BY <1>2 DEF LoopsOK, Stitching
  <2> DEFINE L == extractLoopSkeleton(loop)
  <2> HIDE DEF R, L
  <2>2. Loops' = Append(Loops, L) /\ m = Len(Loops)
    BY <1>1, <1>3 DEF L
  <2>3. \A k \in 1 .. Len(Loops) : Append(Loops, L)[k] = Loops[k]
    BY <2>1
  <2> QED BY <2>2, <2>3
<1>6. Entry \in DOMAIN succ /\ loop.Header \in DOMAIN succ /\ Entry # loop.Header /\ Entry = 1
  BY <1>2 DEF Stitching, EdgesAre, Entry
<1>7. succ[Entry] = <<loop.PreHeader>>
  BY <1>1 DEF LoopsFollow
<1>8. succ'[Entry] = <<p>>
  <2>1. succ'[Entry] = [succ[Entry] EXCEPT ![1] = p]
    BY <1>1, <1>6
  <2>2. \A x : [<<x>> EXCEPT ![1] = p] = <<p>>
    OBVIOUS
  <2> QED BY <1>7, <2>1, <2>2
<1>9. \A b \in DOMAIN succ \ {Entry} : succ'[b] = succ[b]
  BY <1>1
<1>10. ASSUME NEW k \in DOMAIN Loops', k <= NumNewLoops PROVE succ'[Loops'[k].PreHeader] = <<Loops'[k].Header>>
  <2>1. k \in 1 .. m
    <3> DEFINE R == Range(Loops) \cup {extractLoopSkeleton(loop)}
               list == Loops
    <3>1. list \in Seq(R)
      <4> DEFINE Q == Range(Loops)
      <4>1. list \in Seq(Q)
        BY <1>2 DEF LoopsOK, Stitching
      <4> HIDE DEF list
      <4> QED BY <4>1
    <3>2. Loops' = Append(list, extractLoopSkeleton(loop)) /\ extractLoopSkeleton(loop) \in R
      BY <1>1
    <3> HIDE DEF R, list
    <3>3. DOMAIN Loops' = 1 .. Len(list) + 1 /\ Len(list) \in Nat
      BY <3>1, <3>2
    <3> QED BY <1>3, <1>10, <3>3 DEF list
  <2>2. k \in DOMAIN Loops /\ Loops[k].PreHeader = Size + 4 * k - 3
    BY <1>2, <2>1, NewLoopIs
  <2>3. Size + 4 * k - 3 \in 1 .. Size + 4 * m /\ Size + 4 * k - 3 # 1
    BY <1>3, <2>1
  <2> QED BY <1>3, <1>5, <1>6, <1>9, <1>10, <2>1, <2>2, <2>3 DEF LoopsFollow
<1>11. \A k \in 1 .. NumNewLoops' : ~(k < i')
  BY <1>1, <1>3, <1>4
<1> QED BY <1>01, <1>1, <1>4, <1>6, <1>8, <1>9, <1>10, <1>11 DEF LoopsFollow

(* Each loop that is stitched is followed by the next one.                 *)
LEMMA FollowStitch ==
  ASSUME SFInv, LoopsFollow, stitchLoop
  PROVE  LoopsFollow'
<1>01. PICK m : m = Made
  OBVIOUS
<1>02. PICK h : h = Loops[i].Header
  OBVIOUS
<1>03. PICK p : p = Loops[i + 1].PreHeader
  OBVIOUS
<1>1. /\ stage = "stitching" /\ i' = i + 1
      /\ UNCHANGED <<stage, loop, ExitBlock, AnnotatedVars, Loops>>
  BY DEF stitchLoop, useVars, loopVars
<1>2. /\ Stitching(m) /\ m = NumNewLoops
      /\ m \in Nat \ {0} /\ Size \in Nat \ {0} /\ DOMAIN succ = 1 .. Size + 4 * m /\ DOMAIN body = 1 .. Size
      /\ i \in 1 .. m /\ DOMAIN Loops = 1 .. m + 1
      /\ h = Size + 4 * i - 2 /\ h \in HeadersMade
      /\ h \notin DOMAIN body
      /\ IsSet(succ, succ', h, 2, p)
  <2>1. Stitching(m) /\ m = NumNewLoops /\ IsSet(succ, succ', h, 2, p) /\ h \notin DOMAIN body
    BY <1>01, <1>02, <1>03, LoopStitched
  <2>2. m \in Nat \ {0} /\ Size \in Nat \ {0} /\ i \in 1 .. m /\ h = Size + 4 * i - 2
    BY <1>01, <1>02, <1>03, LoopStitched
  <2>3. /\ DOMAIN succ = 1 .. Size + 4 * m /\ DOMAIN body = 1 .. Size /\ DOMAIN Loops = 1 .. m + 1
        /\ h \in HeadersMade
    BY <1>01, <1>02, <1>03, LoopStitched
  <2> QED BY <2>1, <2>2, <2>3
<1>3. NumNewLoops' = NumNewLoops
  BY <1>1 DEF NumNewLoops
<1>4. (\A b \in DOMAIN succ \ {h} : succ'[b] = succ[b]) /\ succ'[h][2] = p
  BY <1>2 DEF IsSet
<1>5. Numbering(m) /\ Entry \in DOMAIN body /\ Entry \in DOMAIN succ /\ loop.Header \in DOMAIN body /\ loop.Header \in DOMAIN succ
  <2>1. IsLoop(body, loop)
    BY <1>2 DEF Stitching, FoundOK, KeptLoop
  <2> QED BY <1>2, <2>1 DEF Stitching, IsLoop
<1>6. succ'[Entry] = succ[Entry] /\ succ'[loop.Header] = succ[loop.Header]
  BY <1>2, <1>4, <1>5
<1>7. ASSUME NEW k \in DOMAIN Loops, k <= m PROVE succ'[Loops[k].PreHeader] = succ[Loops[k].PreHeader]
  <2>1. k \in 1 .. m
    BY <1>2, <1>7
  <2>2. Loops[k].PreHeader = Size + 4 * k - 3
    BY <1>5, <2>1, NewLoopIs
  <2>3. Size + 4 * k - 3 \in 1 .. Size + 4 * m /\ Size + 4 * k - 3 # Size + 4 * i - 2
    BY <1>2, <2>1
  <2> QED BY <1>2, <1>4, <2>2, <2>3
<1>8. ASSUME NEW k \in 1 .. m, k < i + 1 PROVE succ'[Loops[k].Header][2] = Loops[k + 1].PreHeader
  <2>1. CASE k = i
    BY <1>02, <1>03, <1>4, <2>1
  <2>2. CASE k # i
    <3>1. k < i
      BY <1>2, <1>8, <2>2
    <3>2. Loops[k].Header = Size + 4 * k - 2
      BY <1>5, NewLoopIs
    <3>3. Size + 4 * k - 2 \in 1 .. Size + 4 * m /\ Size + 4 * k - 2 # Size + 4 * i - 2
      BY <1>2, <2>2
    <3>4. succ[Loops[k].Header][2] = Loops[k + 1].PreHeader
      BY <1>1, <1>2, <3>1 DEF LoopsFollow
    <3> QED BY <1>2, <1>4, <3>2, <3>3, <3>4
  <2> QED BY <2>1, <2>2
<1>9. /\ \A k \in DOMAIN Loops : k <= m => succ[Loops[k].PreHeader] = <<Loops[k].Header>>
      /\ succ[Entry] = <<Loops[1].PreHeader>>
      /\ succ[loop.Header][2] = ExitBlock
  BY <1>1, <1>2 DEF LoopsFollow
<1> QED BY <1>1, <1>2, <1>3, <1>6, <1>7, <1>8, <1>9 DEF LoopsFollow

(* The last one is followed by the exit.                                   *)
LEMMA FollowLast ==
  ASSUME SFInv, LoopsFollow, stitchLastLoop
  PROVE  LoopsFollow'
<1>01. PICK m : m = Made
  OBVIOUS
<1>02. PICK h : h = loop.Header
  OBVIOUS
<1>03. PICK x : x = ExitBlock
  OBVIOUS
<1>1. /\ stage = "stitching" /\ stage' = "walking" /\ i = Len(Loops)
      /\ UNCHANGED <<loop, ExitBlock, AnnotatedVars, Loops>>
  BY DEF stitchLastLoop, useVars, loopVars
<1>2. /\ Stitching(m) /\ h \in DOMAIN succ
      /\ IsSet(succ, succ', h, 2, x) /\ succ'[h] = succ[h]
  BY <1>01, <1>02, <1>03, LastStitched
<1>3. \A b \in DOMAIN succ : succ'[b] = succ[b]
  BY <1>2 DEF IsSet
<1>4. Numbering(m) /\ EdgesAre(succ) /\ Entry \in DOMAIN succ
  BY <1>2 DEF Stitching
<1>5. /\ m = NumNewLoops /\ m \in Nat /\ i = m + 1 /\ Size \in Nat \ {0} /\ DOMAIN succ = 1 .. Size + 4 * m
      /\ DOMAIN Loops = 1 .. m + 1
  <2>1. i = NumNewLoops + 1 /\ DOMAIN Loops = 1 .. Len(Loops)
    BY <1>1, <1>2 DEF Stitching, LoopsOK, Numbering
  <2> QED BY <1>1, <1>2, <2>1 DEF Stitching, Numbering
<1>6. \A k \in 1 .. m : Loops[k].PreHeader \in DOMAIN succ /\ Loops[k].Header \in DOMAIN succ
  <2> SUFFICES ASSUME NEW k \in 1 .. m PROVE Loops[k].PreHeader \in DOMAIN succ /\ Loops[k].Header \in DOMAIN succ
    OBVIOUS
  <2>1. Loops[k].PreHeader = Size + 4 * k - 3 /\ Loops[k].Header = Size + 4 * k - 2
    BY <1>4, NewLoopIs
  <2> QED BY <1>5, <2>1
<1>7. NumNewLoops' = NumNewLoops
  BY <1>1 DEF NumNewLoops
<1>8. /\ \A k \in 1 .. m : succ[Loops[k].PreHeader] = <<Loops[k].Header>>
      /\ succ[Entry] = <<Loops[1].PreHeader>>
      /\ \A k \in 1 .. m : succ[Loops[k].Header][2] = Loops[k + 1].PreHeader
      /\ succ[loop.Header][2] = ExitBlock
  <2>1. \A k \in 1 .. m : k <= m /\ k < i /\ k \in DOMAIN Loops
    BY <1>5
  <2> QED BY <1>1, <1>5, <2>1 DEF LoopsFollow
<1>9. \A k \in DOMAIN Loops : k <= m => k \in 1 .. m
  BY <1>5
<1> QED BY <1>1, <1>02, <1>2, <1>3, <1>4, <1>5, <1>6, <1>7, <1>8, <1>9 DEF LoopsFollow

(* The loops stay linked while the edges between them do.                  *)
LEMMA FollowLater ==
  ASSUME LoopsFollow, stage \in {"walking", "assigning", "done"}, stage' \in {"walking", "assigning", "done"},
         UNCHANGED <<succ, loop, ExitBlock, AnnotatedVars, Loops>>
  PROVE  LoopsFollow'
BY DEF LoopsFollow, NumNewLoops

(* A loop that gets a set of blocks is entered and left as before.         *)
LEMMA FollowAssign ==
  ASSUME SFInv, SplitInv, source \in Supported, LoopsFollow, assignBlocks
  PROVE  LoopsFollow'
<1>01. PICK m : m = Made
  OBVIOUS
<1>02. PICK h : h = Loops[i].Header
  OBVIOUS
<1>03. PICK latch : latch = Loops[i].Latch
  OBVIOUS
<1>04. PICK first : first = Head(LoopBlocks[i])
  OBVIOUS
<1>05. PICK last : last = Last(LoopBlocks[i])
  OBVIOUS
<1>06. PICK t : t = [succ EXCEPT ![h][1] = first]
  OBVIOUS
<1>1. /\ stage = "assigning"
      /\ UNCHANGED <<loop, ExitBlock, AnnotatedVars, Loops>>
  BY DEF assignBlocks, useVars, loopVars
<1>2. i <= Len(LoopBlocks)
  <2>1. stage' = "assigning"
    BY SupportedAssign
  <2> QED BY <2>1 DEF assignBlocks
<1>3. /\ Stitching(m) /\ UNCHANGED stage /\ last \in Body(loop) /\ h \in HeadersMade
      /\ IsSet(succ, t, h, 1, first) /\ IsSet(t, succ', last, 1, latch)
  BY <1>01, <1>02, <1>03, <1>04, <1>05, <1>06, <1>2, BlocksAssigned
<1>4. Numbering(m) /\ EdgesAre(succ) /\ Entry \in DOMAIN succ /\ Separate(m) /\ Entry \notin Inside \cup HeadersMade
  BY <1>3 DEF Stitching
<1>5. /\ \A b \in DOMAIN succ \ {h, last} : succ'[b] = succ[b]
      /\ \A x \in HeadersMade : succ'[x][2] = succ[x][2]
  BY <1>3 DEF IsSet
<1>6. Body(loop) \subseteq Inside /\ \A k \in 1 .. m : Size + 4 * k - 3 \notin Inside \cup HeadersMade
  BY <1>4 DEF Separate
<1>7. /\ m = NumNewLoops /\ m \in Nat /\ Size \in Nat \ {0} /\ DOMAIN succ = 1 .. Size + 4 * m
      /\ DOMAIN Loops = 1 .. m + 1
  <2>1. Len(Loops) = NumNewLoops + 1 /\ DOMAIN Loops = 1 .. Len(Loops)
    BY <1>1, <1>3 DEF Stitching, LoopsOK, Numbering
  <2> QED BY <1>1, <1>3, <2>1 DEF Stitching, Numbering
<1>8. \A k \in 1 .. m : succ'[Loops[k].PreHeader] = succ[Loops[k].PreHeader]
  <2> SUFFICES ASSUME NEW k \in 1 .. m PROVE succ'[Loops[k].PreHeader] = succ[Loops[k].PreHeader]
    OBVIOUS
  <2>1. Loops[k].PreHeader = Size + 4 * k - 3
    BY <1>4, NewLoopIs
  <2>2. Size + 4 * k - 3 \in 1 .. Size + 4 * m
    BY <1>7
  <2>3. Size + 4 * k - 3 \notin Inside \cup HeadersMade
    BY <1>6
  <2>4. Loops[k].PreHeader \in DOMAIN succ \ {h, last}
    BY <1>3, <1>6, <1>7, <2>1, <2>2, <2>3
  <2> QED BY <1>5, <2>4
<1>9. \A k \in 1 .. m : succ'[Loops[k].Header][2] = succ[Loops[k].Header][2]
  <2> SUFFICES ASSUME NEW k \in 1 .. m PROVE succ'[Loops[k].Header][2] = succ[Loops[k].Header][2]
    OBVIOUS
  <2>1. k \in DOMAIN Loops
    BY <1>4, NewLoopIs
  <2> QED BY <1>4, <1>5, <2>1 DEF Separate
<1>10. succ'[Entry] = succ[Entry] /\ succ'[loop.Header][2] = succ[loop.Header][2]
  BY <1>3, <1>4, <1>5, <1>6 DEF EdgesAre
<1>11. NumNewLoops' = NumNewLoops
  BY <1>1 DEF NumNewLoops
<1>12. \A k \in DOMAIN Loops : k <= m => k \in 1 .. m
  BY <1>7
<1> QED BY <1>1, <1>3, <1>7, <1>8, <1>9, <1>10, <1>11, <1>12 DEF LoopsFollow

-----------------------------------------------------------------------------

(* The blocks that were already given to their loops. *)
Assigned == IF stage \in {"assigning", "done"} THEN 1 .. i - 1 ELSE {}

(* The loops that have got their blocks run them; all else is unchanged.   *)
LoopsHaveParts ==
  /\ \A k \in Assigned : succ[Loops[k].Header][1] = Head(LoopBlocks[k])
  /\ \A k \in Assigned : succ[EndOfSet(k)] = <<Loops[k].Latch>>
  /\ \A b \in DOMAIN body \ ({Entry, loop.Header} \cup {EndOfSet(k) : k \in Assigned}) : succ[b] = body[b]
  /\ stage = "done" => i = NumNewLoops + 2

(* Before the assignment no edge of the body has been changed.             *)
LEMMA BodyNotAssigned ==
  ASSUME EdgesOK', stage' \in {"looping", "stitching", "walking"}
  PROVE  LoopsHaveParts'
<1>1. Assigned' = {}
  BY DEF Assigned
<1>2. \A b \in DOMAIN body' \ {Entry} : succ'[b] = body'[b]
  BY DEF EdgesOK
<1> QED BY <1>1, <1>2 DEF LoopsHaveParts

(* Before the assignment no loop has its blocks.                           *)
LEMMA PartsNotAssigned ==
  ASSUME SFInv, dropExtraSet, stage' = "assigning"
  PROVE  LoopsHaveParts'
<1>1. stage = "walking" /\ i' = 1 /\ UNCHANGED <<succ, body>>
  BY DEF dropExtraSet, irVars, loopVars
<1>2. Assigned' = {}
  BY <1>1 DEF Assigned
<1>3. \A b \in DOMAIN body' \ {Entry} : succ'[b] = body'[b]
  BY <1>1 DEF SFInv, PassInv, InSplitting, LoopingOK, EdgesOK
<1> QED BY <1>2, <1>3 DEF LoopsHaveParts

(* After the last assignment all of them have.                             *)
LEMMA PartsDone ==
  ASSUME SFInv, LoopsHaveParts, finish
  PROVE  LoopsHaveParts'
<1>1. /\ stage = "assigning" /\ i > Len(Loops) /\ stage' = "done"
      /\ UNCHANGED <<succ, i, loop, body, Loops, LoopBlocks, AnnotatedVars>>
  BY DEF finish, irVars, loopVars, walkVars, useVars
<1>2. i \in 1 .. Len(Loops) + 1 /\ Len(Loops) = NumNewLoops + 1 /\ NumNewLoops \in Nat
  BY <1>1 DEF SFInv, PassInv, InSplitting, LoopingOK, LoopsOK, FoundOK
<1>3. i = NumNewLoops + 2
  BY <1>1, <1>2
<1>4. Assigned' = Assigned /\ \A k : EndOfSet(k)' = EndOfSet(k)
  BY <1>1 DEF Assigned, EndOfSet
<1> QED BY <1>1, <1>3, <1>4 DEF LoopsHaveParts, NumNewLoops

(* A part of the body ends with a block that goes nowhere else.            *)
LEMMA PartEnds ==
  ASSUME FoundOK, IsAcyclic(body, loop), BodyEnd # NullBlock, WaysFound, NEW k, IsPart(k), EndOfSet(k) \in Body(loop)
  PROVE  /\ body[EndOfSet(k)] \in Seq(2 .. Size) /\ Len(body[EndOfSet(k)]) = 1
         /\ EndOfSet(k) \in DOMAIN body
<1>01. PICK b : b = EndOfSet(k)
  OBVIOUS
<1> DEFINE R == 2 .. Size
           list == body[b]
<1>1. IsNumbered(body, Size) /\ IsLoop(body, loop)
  BY DEF FoundOK, KeptLoop
<1>2. b \in DOMAIN body /\ b \in Body(loop) /\ list \in Seq(R) /\ SuccessorsOf(body, b) # {}
  BY <1>01, <1>1 DEF IsNumbered, IsLoop, Body
<1>3. Len(list) \in Nat \ {0}
  <2>1. DOMAIN list # {}
    BY <1>2 DEF SuccessorsOf
  <2> HIDE DEF R, list
  <2> QED BY <1>2, <2>1
<1>4. Len(list) = 1 \/ ~(Len(list) > 1)
  <2>1. CASE k <= NumNewLoops
    BY <1>01, <2>1 DEF IsPart, WaysFound
  <2>2. CASE ~(k <= NumNewLoops)
    <3>1. b = BodyEnd
      BY <1>01, <2>2 DEF IsPart
    <3>2. b \notin Branches(body, loop)
      BY <3>1, EndIsNoBranch
    <3> QED BY <1>2, <3>2 DEF Branches
  <2> QED BY <2>1, <2>2
<1>5. Len(list) = 1
  <2> HIDE DEF R, list
  <2> DEFINE n == Len(list)
  <2>1. n \in Nat \ {0} /\ (n = 1 \/ ~(n > 1))
    BY <1>3, <1>4
  <2> HIDE DEF n
  <2>2. n = 1
    BY ONLY <2>1
  <2> QED BY <2>2 DEF n
<1>6. body[b] \in Seq(2 .. Size) /\ Len(body[b]) = 1 /\ b \in DOMAIN body
  BY <1>2, <1>5
<1> HIDE DEF R, list
<1> QED BY ONLY <1>01, <1>6

(* The next loop gets its part.                                            *)
LEMMA PartsAssigned ==
  ASSUME SFInv, SplitInv, source \in Supported, WaysFound, PartsFound, LoopsHaveParts, assignBlocks
  PROVE  LoopsHaveParts'
<1>01. PICK m : m = Made
  OBVIOUS
<1>02. PICK h : h = Loops[i].Header
  OBVIOUS
<1>03. PICK latch : latch = Loops[i].Latch
  OBVIOUS
<1>04. PICK first : first = Head(LoopBlocks[i])
  OBVIOUS
<1>05. PICK last : last = Last(LoopBlocks[i])
  OBVIOUS
<1>06. PICK t : t = [succ EXCEPT ![h][1] = first]
  OBVIOUS
<1>1. /\ stage = "assigning" /\ stage' = "assigning"
      /\ Len(LoopBlocks) >= NumNewLoops + 1
      /\ UNCHANGED <<loop, body, ExitBlock, AnnotatedVars, Loops, LoopBlocks>>
  <2>1. stage' = "assigning"
    BY SupportedAssign
  <2> QED BY <2>1 DEF assignBlocks, useVars, loopVars, walkVars, PartsFound
<1>2. i <= Len(LoopBlocks)
  BY <1>1 DEF assignBlocks
<1>3. /\ Stitching(m) /\ i \in 1 .. Len(Loops) /\ i' = i + 1
      /\ last \in Body(loop) /\ h \in HeadersMade
      /\ IsSet(succ, t, h, 1, first) /\ EdgesAre(succ') /\ IsSet(t, succ', last, 1, latch)
  BY <1>01, <1>02, <1>03, <1>04, <1>05, <1>06, <1>2, BlocksAssigned
<1>4. /\ Numbering(m) /\ EdgesAre(succ) /\ Separate(m) /\ FoundOK /\ LoopsOK /\ WalkOK
      /\ DOMAIN body \subseteq DOMAIN succ
  BY <1>3 DEF Stitching
<1>5. /\ m = NumNewLoops /\ m \in Nat \ {0} /\ Size \in Nat \ {0} /\ i \in 1 .. m + 1
      /\ DOMAIN Loops = 1 .. m + 1 /\ DOMAIN body = 1 .. Size
  <2>1. Len(Loops) = NumNewLoops + 1 /\ DOMAIN Loops = 1 .. Len(Loops)
    BY <1>1, <1>4 DEF LoopsOK, Numbering
  <2> QED BY <1>1, <1>3, <1>4, <2>1 DEF Numbering
<1>6. /\ DOMAIN succ' = DOMAIN succ /\ \A b \in DOMAIN succ \ {h, last} : succ'[b] = succ[b]
      /\ last # h
  BY <1>3, <1>4 DEF IsSet, Separate
<1>7. CutsMade /\ BodyEnd # NullBlock /\ IsAcyclic(body, loop) /\ Body(loop) \subseteq DOMAIN body
      /\ Entry \notin Body(loop) /\ loop.Header \notin Body(loop)
  <2>1. CutsMade
    BY <1>1 DEF SplitInv, InSplitting
  <2> QED BY <1>4, <2>1, SupportedLoop DEF CutsMade, FoundOK, KeptLoop, IsLoop, Body
<1>8. /\ Assigned = 1 .. i - 1 /\ Assigned' = 1 .. i
      /\ 1 .. i = (1 .. i - 1) \cup {i} /\ i \notin 1 .. i - 1
      /\ \A k : EndOfSet(k)' = EndOfSet(k)
  <2>1. 1 .. i' - 1 = 1 .. i
    BY <1>3, <1>5
  <2> QED BY <1>1, <1>5, <2>1 DEF Assigned, EndOfSet
<1>9. /\ \A k \in 1 .. m + 1 : IsPart(k)
      /\ last = EndOfSet(i)
  <2>1. \A k \in 1 .. m + 1 : k <= Len(LoopBlocks)
    <3> DEFINE lists == LoopBlocks
               P == Seq(Body(loop)) \ {<<>>}
    <3>1. lists \in Seq(P)
      BY <1>4, <1>7 DEF WalkOK
    <3> HIDE DEF P, lists
    <3>2. Len(lists) \in Nat
      BY <3>1
    <3> QED BY <1>1, <1>5, <3>2 DEF lists
  <2> QED BY <1>05, <1>5, <2>1 DEF PartsFound, EndOfSet
<1>10. \A k \in 1 .. i - 1 : EndOfSet(k) # last
  <2>1. \A j, k \in 1 .. m + 1 : EndOfSet(j) = EndOfSet(k) => j = k
    <3>1. m + 1 \in Nat
      BY <1>5
    <3> DEFINE n == m + 1
    <3>2. n \in Nat /\ \A k \in 1 .. n : IsPart(k)
      BY <1>9, <3>1
    <3> HIDE DEF n
    <3>3. \A j, k \in 1 .. n : EndOfSet(j) = EndOfSet(k) => j = k
      BY <3>2, EndsDiffer
    <3> QED BY <3>3 DEF n
  <2> SUFFICES ASSUME NEW k \in 1 .. i - 1, EndOfSet(k) = EndOfSet(i) PROVE FALSE
    BY <1>9
  <2>2. k \in 1 .. m + 1 /\ k # i
    BY <1>5
  <2> QED BY <1>5, <2>1, <2>2
<1>11. \A b \in DOMAIN body \ ({Entry, loop.Header} \cup {EndOfSet(k) : k \in 1 .. i - 1}) : succ[b] = body[b]
  BY <1>8 DEF LoopsHaveParts
<1>12. /\ succ[last] = body[last]
       /\ body[last] \in Seq(2 .. Size) /\ Len(body[last]) = 1 /\ last \in DOMAIN succ
  <2>1. succ[last] = body[last] /\ last \in DOMAIN succ
    BY <1>3, <1>4, <1>7, <1>10, <1>11
  <2>2. body[last] \in Seq(2 .. Size) /\ Len(body[last]) = 1
    <3>1. IsPart(i)
      BY <1>5, <1>9
    <3> QED BY <1>3, <1>4, <1>7, <1>9, <3>1, PartEnds
  <2> QED BY <2>1, <2>2
<1>13. succ'[last] = <<latch>>
  <2> DEFINE D == DOMAIN succ' \cup {NullBlock}
             u == succ'[last]
             s == succ[last]
             R == 2 .. Size
  <2>1. t[last] = s /\ s \in Seq(R) /\ Len(s) = 1
    BY <1>3, <1>6, <1>12 DEF IsSet
  <2>2. 1 \in DOMAIN s
    <3> HIDE DEF s, R
    <3> QED BY <2>1
  <2>3. u \in Seq(D) /\ Len(u) = 1 /\ u[1] = latch
    BY <1>3, <1>6, <1>12, <2>1, <2>2 DEF IsSet, EdgesAre
  <2> HIDE DEF u, D
  <2>4. u = <<latch>>
    BY <2>3
  <2> QED BY <2>4 DEF u
<1>14. succ'[h][1] = first
  <2>1. Len(succ[h]) = 2 /\ succ[h] \in Seq(DOMAIN succ \cup {NullBlock}) /\ h \in DOMAIN succ
    BY <1>3, <1>4 DEF EdgesAre
  <2> DEFINE s == succ[h]
             D == DOMAIN succ \cup {NullBlock}
  <2>2. Len(s) = 2 /\ s \in Seq(D)
    BY <2>1
  <2> HIDE DEF s, D
  <2>3. 1 \in DOMAIN s
    BY <2>2
  <2> QED BY <1>3, <1>6, <2>1, <2>3 DEF IsSet, s
<1>15. ASSUME NEW k \in 1 .. i - 1
       PROVE  succ'[Loops[k].Header] = succ[Loops[k].Header] /\ succ'[EndOfSet(k)] = succ[EndOfSet(k)]
  <2>1. k \in 1 .. m
    BY <1>5
  <2>2. Loops[k].Header = Size + 4 * k - 2 /\ k \in DOMAIN Loops
    BY <1>4, <2>1, NewLoopIs
  <2>3. Loops[k].Header \in HeadersMade /\ Loops[k].Header \in DOMAIN succ
    BY <1>4, <2>2 DEF Separate, EdgesAre
  <2>4. Loops[k].Header # h
    <3>1. CASE i \in 1 .. m
      <4>1. h = Size + 4 * i - 2
        BY <1>02, <1>4, <3>1, NewLoopIs
      <4>2. Size + 4 * i - 2 # Size + 4 * k - 2
        BY <1>5, <2>1
      <4> QED BY <2>2, <4>1, <4>2
    <3>2. CASE i = m + 1
      <4>1. h = loop.Header
        <5>1. Loops[i] = extractLoopSkeleton(loop)
          <6>1. i \in DOMAIN Loops /\ i \notin 1 .. m
            BY <1>5, <3>2
          <6>2. \A j \in DOMAIN Loops : j \in 1 .. m \/
                  (j = NumNewLoops + 1 /\ m = NumNewLoops /\ Loops[j] = extractLoopSkeleton(loop))
            BY <1>4 DEF Numbering
          <6> QED BY <6>1, <6>2
        <5> QED BY <1>02, <5>1 DEF extractLoopSkeleton
      <4>2. loop.Header \in 1 .. Size
        BY <1>4, <1>5 DEF FoundOK, KeptLoop, IsLoop
      <4>3. Size + 4 * k - 2 \notin 1 .. Size
        BY <1>5, <2>1
      <4> QED BY <2>2, <4>1, <4>2, <4>3
    <3> QED BY <1>5, <3>1, <3>2
  <2>5. Loops[k].Header # last
    BY <1>3, <1>4, <2>3 DEF Separate
  <2>6. EndOfSet(k) # last /\ EndOfSet(k) \in Body(loop)
    <3>1. IsPart(k)
      BY <1>5, <1>9, <2>1
    <3>2. EndOfSet(k) \in Cuts
      BY <1>5, <2>1, <3>1 DEF IsPart
    <3> QED BY <1>7, <1>10, <3>2 DEF CutsMade
  <2>7. EndOfSet(k) # h /\ EndOfSet(k) \in DOMAIN succ
    BY <1>3, <1>4, <1>7, <2>6 DEF Separate
  <2> QED BY <1>6, <2>3, <2>4, <2>5, <2>6, <2>7
<1>16. \A k \in Assigned' : succ'[Loops'[k].Header][1] = Head(LoopBlocks'[k])
  <2>1. \A k \in 1 .. i - 1 : succ[Loops[k].Header][1] = Head(LoopBlocks[k])
    BY <1>8 DEF LoopsHaveParts
  <2> QED BY <1>02, <1>04, <1>1, <1>8, <1>14, <1>15, <2>1
<1>17. \A k \in Assigned' : succ'[EndOfSet(k)'] = <<Loops'[k].Latch>>
  <2>1. \A k \in 1 .. i - 1 : succ[EndOfSet(k)] = <<Loops[k].Latch>>
    BY <1>8 DEF LoopsHaveParts
  <2>2. \A k \in 1 .. i : succ'[EndOfSet(k)] = <<Loops[k].Latch>>
    BY <1>03, <1>8, <1>9, <1>13, <1>15, <2>1
  <2> QED BY <1>1, <1>8, <2>2
<1>18. \A b \in DOMAIN body \ ({Entry, loop.Header} \cup {EndOfSet(k) : k \in 1 .. i}) : succ'[b] = body[b]
  <2> SUFFICES ASSUME NEW b \in DOMAIN body \ ({Entry, loop.Header} \cup {EndOfSet(k) : k \in 1 .. i})
               PROVE  succ'[b] = body[b]
    OBVIOUS
  <2>1. b # last /\ b \in DOMAIN succ
    BY <1>4, <1>8, <1>9
  <2>2. b # h
    <3>1. h = loop.Header \/ \E k \in 1 .. m : h = Size + 4 * k - 2
      BY <1>3, <1>4 DEF Numbering
    <3>2. \A k \in 1 .. m : Size + 4 * k - 2 \notin 1 .. Size
      BY <1>5
    <3> QED BY <1>5, <3>1, <3>2
  <2>3. succ[b] = body[b]
    BY <1>8, <1>11
  <2> QED BY <1>6, <2>1, <2>2, <2>3
<1>19. {EndOfSet(k)' : k \in Assigned'} = {EndOfSet(k) : k \in 1 .. i}
  BY <1>8
<1> QED BY <1>1, <1>16, <1>17, <1>18, <1>19 DEF LoopsHaveParts

-----------------------------------------------------------------------------

(* All of it for a supported function.                                     *)
RouteInv ==
  source \in Supported =>
    /\ stage = "splitting" => WaysKept
    /\ ~InSplitting => WaysFound /\ PartsFound /\ LoopsFollow /\ LoopsHaveParts

(* While the function runs, all of it stays as it is.                      *)
LEMMA RouteSame ==
  ASSUME RouteInv, UNCHANGED lsVars
  PROVE  RouteInv'
<1>1. /\ UNCHANGED <<source, succ, code, loop, stage, i, AnnotatedVars, VarUsePoints, EndBlocks, body>>
      /\ UNCHANGED <<ExitBlock, arrays, Loops, walk, Blocks, LoopBlocks>>
  BY DEF lsVars, irVars, useVars, loopVars, walkVars
<1>2. SUFFICES ASSUME source \in Supported PROVE RouteInv'
  BY <1>1, SupportedStays DEF RouteInv
<1>3. Variables' = Variables
  BY <1>1, SourceKept
<1>4. WaysKept => WaysKept'
  <2> SUFFICES ASSUME WaysKept PROVE WaysKept'
    OBVIOUS
  <2> DEFINE points == {VarUsePoints[j] : j \in i .. Len(VarUsePoints)}
  <2>1. LocalsOK(code, loop, AnnotatedVars, points)
    BY DEF WaysKept
  <2>2. {VarUsePoints'[j] : j \in i' .. Len(VarUsePoints')} = points
    BY <1>1
  <2>3. PICK p : p = points
    OBVIOUS
  <2>4. PICK vars : vars = AnnotatedVars
    OBVIOUS
  <2>5. PICK m : m = code
    OBVIOUS
  <2>6. PICK L : L = loop
    OBVIOUS
  <2> HIDE DEF points
  <2>7. LocalsOK(m, L, vars, p)
    BY <2>1, <2>3, <2>4, <2>5, <2>6
  <2>8. LocalsOK(code, loop, AnnotatedVars, {VarUsePoints[j] : j \in i .. Len(VarUsePoints)})'
    BY <1>1, <1>3, <2>2, <2>3, <2>4, <2>5, <2>6, <2>7, LocalsPrimed
  <2>9. /\ IsEntered(succ', loop') /\ OutsideOK(code', loop') /\ SetsOK(code', succ', loop')
        /\ \A c \in Range(EndBlocks') : Len(succ'[c]) = 1 /\ AllCome(succ', loop', c)
    BY <1>1 DEF WaysKept
  <2>10. \A j \in i' .. Len(VarUsePoints') : \A q \in Points(j)' : AllCome(succ', loop', q[1])
    BY <1>1 DEF WaysKept, Points
  <2> QED BY <2>8, <2>9, <2>10 DEF WaysKept
<1>5. WaysFound => WaysFound'
  BY <1>1 DEF WaysFound, Cuts, BodyEnd
<1>6. PartsFound => PartsFound'
  <2>1. \A k : IsPart(k) => IsPart(k)'
    BY <1>1 DEF IsPart, EndOfSet, IsKept, Cuts, BodyEnd, NumNewLoops
  <2>2. NumNewLoops' = NumNewLoops
    BY <1>1 DEF NumNewLoops
  <2>3. /\ FirstOfSet' = FirstOfSet /\ \A k : EndOfSet(k)' = EndOfSet(k)
        /\ walk[1][1]' = walk[1][1] /\ \A T : IsKept(T)' <=> IsKept(T)
    BY <1>1 DEF FirstOfSet, EndOfSet, IsKept
  <2>4. IsOnWay(walk[1][1]) => IsOnWay(walk[1][1])'
    BY <1>1, <2>3 DEF IsOnWay
  <2> QED BY <1>1, <2>1, <2>2, <2>4 DEF PartsFound
<1>7. LoopsFollow => LoopsFollow'
  BY <1>1 DEF LoopsFollow, NumNewLoops
<1>8. LoopsHaveParts => LoopsHaveParts'
  <2>1. Assigned' = Assigned /\ NumNewLoops' = NumNewLoops
    BY <1>1 DEF Assigned, NumNewLoops
  <2>2. \A k : EndOfSet(k)' = EndOfSet(k)
    BY <1>1 DEF EndOfSet
  <2> QED BY <1>1, <2>1, <2>2 DEF LoopsHaveParts
<1>9. stage' = stage /\ InSplitting' = InSplitting
  BY <1>1 DEF InSplitting
<1> QED BY <1>2, <1>4, <1>5, <1>6, <1>7, <1>8, <1>9 DEF RouteInv

(* Each step of the pass keeps the parts of a supported function.          *)
LEMMA RouteStep ==
  ASSUME SFInv, SFInv', SplitInv, SplitInv', RouteInv, LSNext
  PROVE  RouteInv'
<1>1. UNCHANGED source
  BY SourceStays
<1> SUFFICES ASSUME source \in Supported, source' \in Supported' PROVE RouteInv'
  BY <1>1, SupportedStays DEF RouteInv
<1>2. stage' \notin {"unchanged", "aborted", "crashed", "overflowed", "undefined"}
  BY DEF SplitInv
<1> SUFFICES (stage' = "splitting" => WaysKept')
             /\ (~InSplitting' => WaysFound' /\ PartsFound' /\ LoopsFollow' /\ LoopsHaveParts')
  BY DEF RouteInv
<1>3. /\ stage = "splitting" => WaysKept
      /\ ~InSplitting => WaysFound /\ PartsFound /\ LoopsFollow /\ LoopsHaveParts
  BY DEF RouteInv
<1>4. ~InSplitting' => EdgesOK'
  BY DEF SFInv, PassInv, LoopingOK
<1>5. ~InSplitting => Body(loop) \subseteq DOMAIN code
  <2> SUFFICES ASSUME ~InSplitting PROVE Body(loop) \subseteq DOMAIN code
    OBVIOUS
  <2>1. PassInv /\ FoundOK /\ LoopsOK /\ DOMAIN code = DOMAIN succ
    BY DEF SFInv, PassInv, LoopingOK
  <2>2. Numbering(Made) /\ Separate(Made)
    BY <2>1, BlocksAreNumbered, BlocksAreSeparate
  <2>3. DOMAIN body \subseteq DOMAIN succ
    BY <2>2, BodyIsThere
  <2>4. Body(loop) \subseteq DOMAIN body
    BY <2>1 DEF FoundOK, KeptLoop, IsLoop, Body
  <2> QED BY <2>1, <2>3, <2>4
<1>6. CASE detect
  <2>1. stage' = "splitting"
    BY <1>6, SupportedDetect
  <2> QED BY <1>6, <2>1, WaysAtFirst DEF InSplitting
<1>7. CASE splitAtUse
  <2>1. stage = "splitting" /\ stage' = "splitting"
    BY <1>7, SupportedSplit DEF splitAtUse
  <2> QED BY <1>3, <1>7, <2>1, WaysAfterSplit DEF InSplitting
<1>8. CASE findLoop
  <2>1. stage = "splitting" /\ stage' = "looping"
    BY <1>8, SupportedFind DEF findLoop
  <2>2. WaysFound'
    BY <1>3, <1>8, <2>1, WaysAfterFind
  <2>3. PartsFound'
    BY <1>8, <2>1, PartsAfterFind
  <2>4. LoopsFollow'
    BY <1>8, <2>1, <2>2, FollowFirst
  <2>5. LoopsHaveParts'
    BY <1>4, <2>1, BodyNotAssigned DEF InSplitting
  <2> QED BY <2>1, <2>2, <2>3, <2>4, <2>5
<1>9. ASSUME UNCHANGED <<code, loop, body, EndBlocks, AnnotatedVars, arrays>>, ~InSplitting
      PROVE  WaysFound'
  BY <1>3, <1>5, <1>9, WaysStay
<1>10. CASE addLoop
  <2>1. /\ stage = "looping" /\ stage' = "looping"
        /\ UNCHANGED <<loop, body, EndBlocks, AnnotatedVars, arrays, walk, Blocks, LoopBlocks>>
        /\ code' = [b \in DOMAIN code \cup Range(NewLoop) |-> IF b \in DOMAIN code THEN code[b] ELSE <<>>]
    BY <1>10 DEF addLoop, useVars, loopVars, walkVars
  <2>2. ~InSplitting
    BY <2>1 DEF InSplitting
  <2>3. WaysFound'
    <3>1. DOMAIN code \subseteq DOMAIN code' /\ (\A b \in DOMAIN code : code'[b] = code[b])
          /\ \A b \in DOMAIN code' \ DOMAIN code : code'[b] = <<>>
      BY <2>1
    <3> QED BY <1>3, <1>5, <2>1, <2>2, <3>1, WaysStay
  <2>4. PartsFound'
    BY <1>3, <2>1, <2>2, PartsStay
  <2>5. LoopsFollow'
    BY <1>3, <1>10, <2>2, FollowAdded
  <2>6. LoopsHaveParts'
    BY <1>4, <2>1, BodyNotAssigned DEF InSplitting
  <2> QED BY <2>1, <2>3, <2>4, <2>5, <2>6
<1>11. CASE addParentLoop \/ stitchLoop
  <2>1. /\ stage \in {"looping", "stitching"} /\ stage' = "stitching"
        /\ UNCHANGED <<code, loop, body, EndBlocks, AnnotatedVars, arrays, walk, Blocks, LoopBlocks>>
    BY <1>11 DEF addParentLoop, stitchLoop, useVars, loopVars, walkVars
  <2>2. ~InSplitting
    BY <2>1 DEF InSplitting
  <2>3. WaysFound'
    BY <1>9, <2>1, <2>2
  <2>4. PartsFound'
    BY <1>3, <2>1, <2>2, PartsStay
  <2>5. LoopsFollow'
    BY <1>3, <1>11, <2>2, FollowParent, FollowStitch
  <2>6. LoopsHaveParts'
    BY <1>4, <2>1, BodyNotAssigned DEF InSplitting
  <2> QED BY <2>1, <2>3, <2>4, <2>5, <2>6
<1>12. CASE stitchLastLoop
  <2>1. /\ stage = "stitching" /\ stage' = "walking"
        /\ UNCHANGED <<code, loop, body, EndBlocks, AnnotatedVars, arrays>>
    BY <1>12 DEF stitchLastLoop, useVars, loopVars
  <2>2. ~InSplitting
    BY <2>1 DEF InSplitting
  <2>3. WaysFound'
    BY <1>9, <2>1, <2>2
  <2>4. PartsFound'
    BY <1>3, <1>12, <2>2, PartsAtFirst
  <2>5. LoopsFollow'
    BY <1>3, <1>12, <2>2, FollowLast
  <2>6. LoopsHaveParts'
    BY <1>4, <2>1, BodyNotAssigned DEF InSplitting
  <2> QED BY <2>1, <2>3, <2>4, <2>5, <2>6
<1>13. CASE traverseLoopBody
  <2>1. /\ stage = "walking" /\ stage' = "walking"
        /\ UNCHANGED <<succ, code, loop, body, EndBlocks, ExitBlock, AnnotatedVars, arrays, Loops>>
    BY <1>13 DEF traverseLoopBody, irVars, useVars, loopVars
  <2>2. ~InSplitting
    BY <2>1 DEF InSplitting
  <2>3. WaysFound'
    BY <1>9, <2>1, <2>2
  <2>4. PartsFound'
    BY <1>3, <1>13, <2>2, PartsTraverse
  <2>5. LoopsFollow'
    BY <1>3, <2>1, <2>2, FollowLater
  <2>6. LoopsHaveParts'
    BY <1>4, <2>1, BodyNotAssigned DEF InSplitting
  <2> QED BY <2>1, <2>3, <2>4, <2>5, <2>6
<1>14. CASE overflowStack
  BY <1>2, <1>14 DEF overflowStack
<1>15. CASE dropExtraSet
  <2>1. /\ stage = "walking" /\ stage' = "assigning"
        /\ UNCHANGED <<succ, code, loop, body, EndBlocks, ExitBlock, AnnotatedVars, arrays, Loops>>
    BY <1>15, SupportedDrop DEF dropExtraSet, irVars, useVars, loopVars
  <2>2. ~InSplitting
    BY <2>1 DEF InSplitting
  <2>3. WaysFound'
    BY <1>9, <2>1, <2>2
  <2>4. PartsFound'
    BY <1>3, <1>15, <2>2, PartsAfterDrop
  <2>5. LoopsFollow'
    BY <1>3, <2>1, <2>2, FollowLater
  <2>6. LoopsHaveParts'
    BY <1>15, <2>1, PartsNotAssigned
  <2> QED BY <2>1, <2>3, <2>4, <2>5, <2>6
<1>16. CASE assignBlocks
  <2>1. /\ stage = "assigning" /\ stage' = "assigning"
        /\ UNCHANGED <<code, loop, body, EndBlocks, AnnotatedVars, arrays, walk, Blocks, LoopBlocks>>
    BY <1>16, SupportedAssign DEF assignBlocks, useVars, loopVars, walkVars
  <2>2. ~InSplitting
    BY <2>1 DEF InSplitting
  <2>3. WaysFound'
    BY <1>9, <2>1, <2>2
  <2>4. PartsFound'
    BY <1>3, <2>1, <2>2, PartsStay
  <2>5. LoopsFollow'
    BY <1>3, <1>16, <2>2, FollowAssign
  <2>6. LoopsHaveParts'
    BY <1>3, <1>16, <2>2, PartsAssigned
  <2> QED BY <2>1, <2>3, <2>4, <2>5, <2>6
<1>17. CASE finish
  <2>1. /\ stage = "assigning" /\ stage' = "done"
        /\ UNCHANGED <<succ, code, loop, body, EndBlocks, ExitBlock, AnnotatedVars, arrays, Loops, walk, Blocks, LoopBlocks>>
    BY <1>17 DEF finish, irVars, useVars, loopVars, walkVars
  <2>2. ~InSplitting
    BY <2>1 DEF InSplitting
  <2>3. WaysFound'
    BY <1>9, <2>1, <2>2
  <2>4. PartsFound'
    BY <1>3, <2>1, <2>2, PartsStay
  <2>5. LoopsFollow'
    BY <1>3, <2>1, <2>2, FollowLater
  <2>6. LoopsHaveParts'
    BY <1>3, <1>17, <2>2, PartsDone
  <2> QED BY <2>1, <2>3, <2>4, <2>5, <2>6
<1> QED BY <1>6, <1>7, <1>8, <1>10, <1>11, <1>12, <1>13, <1>14, <1>15, <1>16, <1>17 DEF LSNext

-----------------------------------------------------------------------------

(* Blocks that control does not leave until the k-th set ends: its first   *)
(* block is one of them, and no other set ends there.                      *)
IsRegion(Q, k) ==
  /\ Q \subseteq Body(loop)
  /\ Head(LoopBlocks[k]) \in Q
  /\ \A x \in Q \ {EndOfSet(k)} : SuccessorsOf(body, x) \cap Body(loop) \subseteq Q
  /\ \A j \in 1 .. NumNewLoops + 1 : EndOfSet(j) \in Q => j = k

(* What is left of the function when the loops are passed by. *)
Outer == DOMAIN body \ (loop.Blocks \cup {Entry, loop.PreHeader})

(* A set that is never left has none of the blocks before c, if it does    *)
(* not have c.                                                             *)
LEMMA BeforeAndAfter ==
  ASSUME IsLoop(body, loop), IsAcyclic(body, loop), NEW c \in Body(loop), NEW S, LeadsTo(body, loop, S, c),
         NEW T \in SUBSET Body(loop), IsKept(T), c \notin T
  PROVE  S \cap T = {}
<1> SUFFICES ASSUME S \cap T # {} PROVE FALSE
  OBVIOUS
<1>1. S \cap T \in SUBSET Body(loop)
  OBVIOUS
<1>2. PICK b \in S \cap T : SuccessorsOf(body, b) \cap (S \cap T) = {}
  BY <1>1 DEF IsAcyclic
<1>3. SuccessorsOf(body, b) \subseteq S \cup {c} /\ S \subseteq Body(loop)
  BY <1>2 DEF LeadsTo
<1>4. SuccessorsOf(body, b) \cap Body(loop) \subseteq T
  BY <1>2 DEF IsKept
<1>5. SuccessorsOf(body, b) = {}
  BY <1>2, <1>3, <1>4
<1>6. b \in loop.Blocks
  BY <1>2 DEF Body
<1> QED BY <1>5, <1>6 DEF IsLoop

(* What is known of the parts of a function that has been split.           *)
PartsAre(m) ==
  /\ m \in Nat \ {0} /\ m = NumNewLoops
  /\ \A k \in 1 .. m + 1 : IsPart(k) /\ EndOfSet(k) \in Body(loop) /\ Head(LoopBlocks[k]) \in Body(loop)
  /\ \A k \in 1 .. m : AllCome(body, loop, EndOfSet(k)) /\ EndOfSet(k) # BodyEnd
  /\ EndOfSet(m + 1) = BodyEnd
  /\ \A j, k \in 1 .. m + 1 : EndOfSet(j) = EndOfSet(k) => j = k

(* The parts that are there when the pass is done.                         *)
LEMMA PartsNow ==
  ASSUME SFInv, SplitInv, RouteInv, source \in Supported, stage = "done"
  PROVE  /\ PartsAre(NumNewLoops)
         /\ FoundOK /\ CutsMade /\ WaysFound /\ LoopsFollow /\ LoopsHaveParts
         /\ IsLoop(body, loop) /\ IsAcyclic(body, loop) /\ BodyEnd # NullBlock
<1>1. /\ FoundOK /\ LoopsOK /\ WalkOK /\ CutsMade /\ WaysFound /\ PartsFound /\ LoopsFollow /\ LoopsHaveParts
  BY DEF SFInv, PassInv, LoopingOK, SplitInv, RouteInv, InSplitting
<1>2. IsLoop(body, loop) /\ IsAcyclic(body, loop) /\ BodyEnd # NullBlock
  BY <1>1, SupportedLoop DEF FoundOK, KeptLoop, CutsMade
<1>01. PICK m : m = NumNewLoops
  OBVIOUS
<1>3. m \in Nat \ {0} /\ m = NumNewLoops
  BY <1>1, <1>01 DEF FoundOK
<1> DEFINE P == Seq(Body(loop)) \ {<<>>}
           lists == LoopBlocks
<1>4. lists \in Seq(P) /\ Len(lists) >= m + 1
  BY <1>1, <1>2, <1>3 DEF WalkOK, PartsFound
<1>5. ASSUME NEW k \in 1 .. m + 1
      PROVE  k <= Len(LoopBlocks) /\ LoopBlocks[k] \in P
  <2> HIDE DEF P, lists
  <2>1. Len(lists) \in Nat
    BY <1>4
  <2>2. k \in 1 .. Len(lists)
    BY <1>3, <1>4, <1>5, <2>1
  <2>3. lists[k] \in P
    BY <1>4, <2>2
  <2> QED BY <2>1, <2>2, <2>3 DEF lists
<1>6. ASSUME NEW k \in 1 .. m + 1
      PROVE  EndOfSet(k) \in Body(loop) /\ Head(LoopBlocks[k]) \in Body(loop)
  <2> DEFINE list == LoopBlocks[k]
             R == Body(loop)
  <2>1. list \in Seq(R) /\ list # <<>>
    BY <1>5, <1>6
  <2> HIDE DEF list, R
  <2>2. Len(list) \in Nat \ {0}
    BY <2>1
  <2>3. Head(list) \in R /\ list[Len(list)] \in R
    BY <2>1, <2>2
  <2>4. Last(list) \in R
    BY <2>3 DEF Last
  <2> QED BY <2>3, <2>4 DEF EndOfSet, list, R
<1>7. \A k \in 1 .. m + 1 : IsPart(k)
  BY <1>1, <1>3, <1>5 DEF PartsFound
<1>8. \A k \in 1 .. m : EndOfSet(k) \in Cuts
  BY <1>3, <1>7 DEF IsPart
<1>9. \A k \in 1 .. m : AllCome(body, loop, EndOfSet(k)) /\ EndOfSet(k) # BodyEnd
  BY <1>1, <1>8 DEF WaysFound, Cuts
<1>10. EndOfSet(m + 1) = BodyEnd
  <2>1. IsPart(m + 1) /\ ~(m + 1 <= NumNewLoops)
    BY <1>3, <1>7
  <2> QED BY <2>1 DEF IsPart
<1>11. \A j, k \in 1 .. m + 1 : EndOfSet(j) = EndOfSet(k) => j = k
  <2> DEFINE n == m + 1
  <2>1. n \in Nat /\ \A k \in 1 .. n : IsPart(k)
    BY <1>3, <1>7
  <2> HIDE DEF n
  <2>2. \A j, k \in 1 .. n : EndOfSet(j) = EndOfSet(k) => j = k
    BY <2>1, EndsDiffer
  <2> QED BY <2>2 DEF n
<1>12. PartsAre(m)
  BY <1>3, <1>6, <1>7, <1>9, <1>10, <1>11 DEF PartsAre
<1> QED BY <1>01, <1>1, <1>2, <1>12

(* Each loop has a region: all that control comes to from its first block  *)
(* before the end.  The ends of earlier parts are not in it, for no way    *)
(* leads back to them, nor those of later ones, for all ways to them lead  *)
(* through the end.                                                        *)
LEMMA RegionsAre ==
  ASSUME NEW m, PartsAre(m), IsLoop(body, loop), IsAcyclic(body, loop), NEW k \in 1 .. m + 1
  PROVE  \E Q \in SUBSET Body(loop) : IsRegion(Q, k)
<1>01. PICK first : first = Head(LoopBlocks[k])
  OBVIOUS
<1>02. PICK end : end = EndOfSet(k)
  OBVIOUS
<1> DEFINE IsClosed(S) == /\ S \subseteq Body(loop)
                          /\ first \in S
                          /\ \A x \in S \ {end} : SuccessorsOf(body, x) \cap Body(loop) \subseteq S
           Q == {b \in Body(loop) : \A S \in SUBSET Body(loop) : IsClosed(S) => b \in S}
<1>1. m \in Nat /\ m = NumNewLoops /\ first \in Body(loop) /\ end \in Body(loop) /\ IsPart(k)
  BY <1>01, <1>02 DEF PartsAre
<1>2. first \in Q
  BY <1>1
<1>3. ASSUME NEW x \in Q \ {end} PROVE SuccessorsOf(body, x) \cap Body(loop) \subseteq Q
  BY <1>3
<1>4. ASSUME NEW j \in 1 .. m + 1, EndOfSet(j) \in Q, j < k PROVE FALSE
  <2>1. j \in 1 .. k - 1
    BY <1>1, <1>4
  <2>2. PICK T \in SUBSET Body(loop) : IsKept(T) /\ first \in T /\ end \in T /\ EndOfSet(j) \notin T
    BY <1>01, <1>02, <1>1, <2>1 DEF IsPart
  <2>3. IsClosed(T)
    BY <2>2 DEF IsKept
  <2> QED BY <1>4, <2>2, <2>3
<1>5. ASSUME NEW j \in 1 .. m + 1, EndOfSet(j) \in Q, j > k PROVE FALSE
  <2>1. k \in 1 .. j - 1 /\ k \in 1 .. m /\ IsPart(j)
    BY <1>1, <1>5 DEF PartsAre
  <2>2. PICK S \in SUBSET Body(loop) : LeadsTo(body, loop, S, end)
    BY <1>02, <2>1 DEF PartsAre, AllCome
  <2>3. first \in S \cup {end}
    BY <1>01, <1>02, <1>1, <2>2 DEF IsPart
  <2>4. PICK T \in SUBSET Body(loop) : IsKept(T) /\ EndOfSet(j) \in T /\ end \notin T
    BY <1>02, <2>1 DEF IsPart
  <2>5. S \cap T = {}
    BY <1>1, <2>2, <2>4, BeforeAndAfter
  <2>6. IsClosed(S \cup {end})
    BY <1>1, <2>2, <2>3 DEF LeadsTo
  <2>7. EndOfSet(j) \in S \cup {end}
    BY <1>1, <1>5, <2>6
  <2> QED BY <2>4, <2>5, <2>7
<1>6. ASSUME NEW j \in 1 .. NumNewLoops + 1, EndOfSet(j) \in Q PROVE j = k
  BY <1>1, <1>4, <1>5, <1>6
<1> HIDE DEF Q, IsClosed
<1>7. Q \in SUBSET Body(loop)
  BY DEF Q
<1> QED BY <1>01, <1>02, <1>2, <1>3, <1>6, <1>7 DEF IsRegion
(* How the loops of a function that has been split hang together.          *)
IsLinked(m) ==
  /\ succ[Entry] = <<Loops[1].PreHeader>>
  /\ \A k \in 1 .. m + 1 :
       /\ succ[Loops[k].PreHeader] = <<Loops[k].Header>>
       /\ succ[Loops[k].Header][1] = Head(LoopBlocks[k])
       /\ succ[Loops[k].Latch] = <<Loops[k].Header>>
       /\ succ[EndOfSet(k)] = <<Loops[k].Latch>>
  /\ \A k \in 1 .. m : succ[Loops[k].Header][2] = Loops[k + 1].PreHeader
  /\ succ[Loops[m + 1].Header][2] = ExitBlock
  /\ \A b \in Body(loop) : (\A k \in 1 .. m + 1 : b # EndOfSet(k)) => succ[b] = body[b]
  /\ ExitBlock \in Outer
  /\ \A b \in Outer : succ[b] = body[b] /\ SuccessorsOf(body, b) \subseteq Outer

(* Its blocks are told from each other.                                    *)
AreApart(m) ==
  /\ DOMAIN Loops = 1 .. m + 1
  /\ Body(loop) \subseteq Inside
  /\ Inside \cap HeadersMade = {}
  /\ \A k \in 1 .. m + 1 : /\ Loops[k].Header \in HeadersMade
                           /\ Loops[k].Latch \in Inside \ Body(loop)
                           /\ Loops[k].PreHeader \notin Inside \cup HeadersMade
  /\ (Outer \cup {Entry}) \cap (Inside \cup HeadersMade) = {}
  /\ Body(loop) \subseteq DOMAIN body

(* The loops that are there when the pass is done.                         *)
LEMMA LinkedNow ==
  ASSUME SFInv, SplitInv, RouteInv, source \in Supported, stage = "done", NEW m, PartsAre(m)
  PROVE  IsLinked(m) /\ AreApart(m) /\ \A h \in HeadersMade : DOMAIN succ[h] = {1, 2}
<1>1. /\ FoundOK /\ WaysFound /\ LoopsFollow /\ LoopsHaveParts
      /\ IsLoop(body, loop)
  BY PartsNow
<1>2. LoopsOK /\ Numbering(Made) /\ Separate(Made) /\ Made = m /\ EdgesOK
  <2>1. LoopsOK /\ EdgesOK
    BY DEF SFInv, PassInv, InSplitting, LoopingOK
  <2> QED BY <1>1, <2>1, BlocksAreNumbered, BlocksAreSeparate DEF Made, PartsAre
<1>3. /\ m \in Nat \ {0} /\ m = NumNewLoops /\ Size \in Nat \ {0} /\ DOMAIN body = 1 .. Size
      /\ DOMAIN Loops = 1 .. m + 1 /\ loop.Blocks \subseteq 2 .. Size
  <2>1. Len(Loops) = NumNewLoops + 1
    BY <1>2 DEF LoopsOK
  <2> QED BY <1>2, <2>1 DEF Numbering, PartsAre
<1>4. Assigned = 1 .. m + 1
  <2>1. i = m + 2
    BY <1>1, <1>3 DEF LoopsHaveParts
  <2>2. i - 1 = m + 1
    BY <1>3, <2>1
  <2> QED BY <2>2 DEF Assigned
<1>5. /\ Loops[m + 1].PreHeader = loop.PreHeader
      /\ Loops[m + 1].Header = loop.Header
  <2>1. m + 1 \in DOMAIN Loops /\ m + 1 \notin 1 .. m
    BY <1>3
  <2>2. \A k \in DOMAIN Loops : k \in 1 .. m \/ Loops[k] = extractLoopSkeleton(loop)
    BY <1>2 DEF Numbering
  <2>3. Loops[m + 1] = extractLoopSkeleton(loop)
    BY <2>1, <2>2
  <2> QED BY <2>3 DEF extractLoopSkeleton
<1>6. /\ \A k \in 1 .. m : Loops[k].PreHeader = Size + 4 * k - 3
      /\ loop.PreHeader \in 1 .. Size /\ loop.PreHeader \notin loop.Blocks \cup {Entry}
      /\ body[loop.PreHeader] = <<loop.Header>>
  <2>1. \A k \in 1 .. m : Loops[k].PreHeader = Size + 4 * k - 3
    BY <1>2, NewLoopIs
  <2> QED BY <1>1, <1>3, <2>1 DEF WaysFound, IsEntered
<1>7. \A k \in 1 .. m + 1 : EndOfSet(k) \in Body(loop)
  BY DEF PartsAre
<1>8. Body(loop) \subseteq DOMAIN body /\ Entry \notin loop.Blocks
  BY <1>1 DEF IsLoop, Body
<1>9. AreApart(m)
  <2>1. ASSUME NEW k \in 1 .. m + 1
        PROVE  Loops[k].Header \in HeadersMade /\ Loops[k].Latch \in Inside \ Body(loop)
    BY <1>2, <1>3 DEF Separate
  <2>2. ASSUME NEW k \in 1 .. m + 1
        PROVE  Loops[k].PreHeader \notin Inside \cup HeadersMade
    <3>1. CASE k \in 1 .. m
      BY <1>2, <1>6, <3>1 DEF Separate
    <3>2. CASE k \notin 1 .. m
      <4>1. k = m + 1
        BY <1>3, <3>2
      <4> QED BY <1>2, <1>5, <1>6, <4>1 DEF Separate
    <3> QED BY <3>1, <3>2
  <2>3. Entry \notin Inside \cup HeadersMade
    BY <1>2, BodyIsThere
  <2>4. Outer \cap (Inside \cup HeadersMade) = {}
    BY <1>2, <1>3 DEF Separate, Outer
  <2> QED BY <1>2, <1>3, <1>8, <2>1, <2>2, <2>3, <2>4 DEF AreApart, Separate
<1>10. ExitBlock \in Outer
  <2>1. ExitBlock = body[loop.Header][2] /\ ExitBlock \notin loop.Blocks
    BY <1>1 DEF FoundOK, IsLoop
  <2>2. ExitBlock \in 2 .. Size /\ ExitBlock \in SuccessorsOf(body, loop.Header)
    <3> DEFINE R == 2 .. Size
               list == body[loop.Header]
    <3>1. list \in Seq(R) /\ Len(list) = 2
      <4>1. loop.Header \in DOMAIN body
        BY <1>1 DEF IsLoop
      <4> QED BY <1>1, <1>3, <4>1 DEF FoundOK, IsNumbered, IsLoop
    <3> HIDE DEF R, list
    <3>2. 2 \in DOMAIN list /\ list[2] \in R
      <4>1. DOMAIN list = 1 .. 2 /\ \A k \in DOMAIN list : list[k] \in R
        BY <3>1
      <4> QED BY <4>1
    <3>3. ExitBlock = list[2]
      BY <2>1 DEF list
    <3>4. SuccessorsOf(body, loop.Header) = {list[k] : k \in DOMAIN list}
      BY SuccessorsAre DEF list
    <3>5. ExitBlock \in SuccessorsOf(body, loop.Header)
      BY <3>2, <3>3, <3>4
    <3>6. ExitBlock \in 2 .. Size
      BY <3>2, <3>3 DEF R
    <3> QED BY <3>5, <3>6
  <2>3. \A b \in DOMAIN body \ {Entry} : loop.PreHeader \notin SuccessorsOf(body, b)
    BY <1>1 DEF WaysFound, IsEntered
  <2>4. loop.Header \in DOMAIN body \ {Entry}
    BY <1>1 DEF IsLoop
  <2>5. ExitBlock # Entry /\ ExitBlock \in DOMAIN body
    BY <1>3, <2>2 DEF Entry
  <2> QED BY <2>1, <2>2, <2>3, <2>4, <2>5 DEF Outer
<1>11. ASSUME NEW b \in Outer PROVE succ[b] = body[b] /\ SuccessorsOf(body, b) \subseteq Outer
  <2>1. b \in DOMAIN body /\ b \notin loop.Blocks /\ b # Entry /\ b # loop.PreHeader
    BY DEF Outer
  <2>2. succ[b] = body[b]
    <3>1. loop.Header \in loop.Blocks /\ Body(loop) \subseteq loop.Blocks
      BY <1>1 DEF IsLoop, Body
    <3>2. b \notin {Entry, loop.Header} \cup {EndOfSet(k) : k \in Assigned}
      BY <1>4, <1>7, <2>1, <3>1
    <3> QED BY <1>1, <2>1, <3>2 DEF LoopsHaveParts
  <2>3. ASSUME NEW y \in SuccessorsOf(body, b) PROVE y \in Outer
    <3>1. y \in 2 .. Size
      BY <1>1, <2>1, <2>3, NumberedSuccessors DEF FoundOK
    <3>2. y # loop.PreHeader /\ y # loop.Header
      BY <1>1, <2>1, <2>3 DEF WaysFound, IsEntered
    <3>3. y \notin loop.Blocks
      BY <1>1, <2>1, <2>3, <3>2 DEF IsLoop
    <3> QED BY <1>3, <3>1, <3>2, <3>3 DEF Outer, Entry
  <2> QED BY <2>2, <2>3
<1>12. ASSUME NEW b \in Body(loop), \A k \in 1 .. m + 1 : b # EndOfSet(k)
       PROVE  succ[b] = body[b]
  <2>1. b \in DOMAIN body /\ b # Entry /\ b # loop.Header
    BY <1>8 DEF Body
  <2> QED BY <1>1, <1>4, <1>12, <2>1 DEF LoopsHaveParts
<1>13. succ[Entry] = <<Loops[1].PreHeader>>
  BY <1>1 DEF LoopsFollow
<1>14. ASSUME NEW k \in 1 .. m + 1
       PROVE  /\ succ[Loops[k].PreHeader] = <<Loops[k].Header>>
              /\ succ[Loops[k].Header][1] = Head(LoopBlocks[k])
              /\ succ[Loops[k].Latch] = <<Loops[k].Header>>
              /\ succ[EndOfSet(k)] = <<Loops[k].Latch>>
  <2>1. succ[Loops[k].PreHeader] = <<Loops[k].Header>>
    <3>1. CASE k \in 1 .. m
      <4>1. k \in DOMAIN Loops /\ k <= NumNewLoops
        BY <1>3, <3>1
      <4> QED BY <1>1, <4>1 DEF LoopsFollow
    <3>2. CASE k \notin 1 .. m
      <4>1. k = m + 1
        BY <1>3, <3>2
      <4>2. loop.PreHeader \notin {Entry, loop.Header} \cup {EndOfSet(j) : j \in Assigned}
        <5>1. loop.Header \in loop.Blocks /\ Body(loop) \subseteq loop.Blocks
          BY <1>1 DEF IsLoop, Body
        <5> QED BY <1>4, <1>6, <1>7, <5>1
      <4>3. succ[loop.PreHeader] = body[loop.PreHeader]
        BY <1>1, <1>3, <1>6, <4>2 DEF LoopsHaveParts
      <4> QED BY <1>5, <1>6, <4>1, <4>3
    <3> QED BY <3>1, <3>2
  <2>2. succ[Loops[k].Latch] = <<Loops[k].Header>>
    BY <1>2, <1>3 DEF EdgesOK
  <2>3. succ[Loops[k].Header][1] = Head(LoopBlocks[k]) /\ succ[EndOfSet(k)] = <<Loops[k].Latch>>
    BY <1>1, <1>4 DEF LoopsHaveParts
  <2> QED BY <2>1, <2>2, <2>3
<1>15. /\ \A k \in 1 .. m : succ[Loops[k].Header][2] = Loops[k + 1].PreHeader
       /\ succ[Loops[m + 1].Header][2] = ExitBlock
  BY <1>1, <1>3, <1>5 DEF LoopsFollow
<1>16. \A h \in HeadersMade : DOMAIN succ[h] = {1, 2}
  BY SplitCode DEF SFInv
<1> QED BY <1>9, <1>10, <1>11, <1>12, <1>13, <1>14, <1>15, <1>16 DEF IsLinked

-----------------------------------------------------------------------------

(* Where the packets are that have come through the first k loops. *)
PlaceAfter(k) == IF k = 0 THEN NotStarted ELSE EndOfSet(k)

(* The first m packets have come through the k-th loop, the others to it. *)
AreThrough(k, m) ==
  \A p \in 0 .. N - 1 : pos[p] = IF p < m THEN PlaceAfter(k) ELSE PlaceAfter(k - 1)

(* A packet at p is the next moment at b. *)
Leads(p, b) ==
  \/ p = NotStarted /\ b = BodyBegin(body, loop)
  \/ p \in Body(loop) \ {BodyEnd} /\ b \in SuccessorsOf(body, p)

(* In the blocks of the k-th loop the packet at the index is taken through *)
(* them; those before it have come to the end of the set, those behind it  *)
(* wait at the end of the one before.                                      *)
IsInRegion(k) ==
  /\ at \in Body(loop)
  /\ idx < N
  /\ \E Q \in SUBSET Body(loop) : IsRegion(Q, k) /\ at \in Q
  /\ \A p \in 0 .. N - 1 : p # idx => pos[p] = IF p < idx THEN PlaceAfter(k) ELSE PlaceAfter(k - 1)
  /\ Leads(pos[idx], at)

(* Control is at one of the four places of the k-th loop.                  *)
IsInLoop(k) ==
  \/ at = Loops[k].PreHeader /\ AreThrough(k, 0)
  \/ at = Loops[k].Header /\ AreThrough(k, idx)
  \/ IsInRegion(k)
  \/ at = Loops[k].Latch /\ idx < N /\ AreThrough(k, idx + 1)

(* Control goes from the entry through the loops one after another, and    *)
(* then to what is behind them, where all packets have come to the end.    *)
IsOnRoute ==
  \/ at = Entry /\ AreThrough(1, 0)
  \/ \E k \in 1 .. NumNewLoops + 1 : IsInLoop(k)
  \/ at \in Outer /\ AreThrough(NumNewLoops + 1, N)

(* A call of what was made of a supported function is on this route.       *)
RunInv ==
  source \in Supported =>
    /\ status = "idle" => \A p \in 0 .. N - 1 : pos[p] = NotStarted
    /\ status = "running" => IsOnRoute

(* While the function runs, its loops stay as they are.                    *)
LEMMA LoopsRun ==
  ASSUME UNCHANGED <<lsVars, N>>
  PROVE  /\ UNCHANGED <<source, succ, code, loop, stage, body, ExitBlock, arrays, Loops, LoopBlocks, EndBlocks>>
         /\ NumNewLoops' = NumNewLoops /\ BodyEnd' = BodyEnd /\ Outer' = Outer /\ N' = N
         /\ \A k : PlaceAfter(k)' = PlaceAfter(k)
         /\ \A Q, k : IsRegion(Q, k)' <=> IsRegion(Q, k)
         /\ \A p, b : Leads(p, b)' <=> Leads(p, b)
         /\ (source \in Supported)' <=> source \in Supported
<1>1. UNCHANGED <<source, succ, code, loop, stage, body, ExitBlock, arrays, Loops, LoopBlocks, EndBlocks, AnnotatedVars>>
  BY DEF lsVars, irVars, useVars, loopVars, walkVars
<1>2. NumNewLoops' = NumNewLoops /\ BodyEnd' = BodyEnd /\ Outer' = Outer
  BY <1>1 DEF NumNewLoops, BodyEnd, Outer
<1>3. /\ \A k : PlaceAfter(k)' = PlaceAfter(k)
      /\ \A Q, k : IsRegion(Q, k)' <=> IsRegion(Q, k)
  BY <1>1, <1>2 DEF PlaceAfter, IsRegion, EndOfSet
<1>4. \A p, b : Leads(p, b)' <=> Leads(p, b)
  BY <1>1, <1>2 DEF Leads
<1>5. (source \in Supported)' <=> source \in Supported
  BY <1>1, SupportedStays
<1> QED BY <1>1, <1>2, <1>3, <1>4, <1>5

(* The route goes through the parts that were made.                        *)
LEMMA RouteNow ==
  ASSUME SFInv, SplitInv, RouteInv, source \in Supported, stage = "done", NEW m, m = NumNewLoops
  PROVE  PartsAre(m) /\ IsLinked(m) /\ AreApart(m)
BY PartsNow, LinkedNow

(* In the loops the index was set.                                         *)
LEMMA IndexNow ==
  ASSUME SFInv, status # "idle"
  PROVE  /\ N \in Nat /\ idx \in Int
         /\ at \in Inside => idx \in 0 .. N - 1
         /\ at \in Inside \cup HeadersMade => idx \in 0 .. N
<1>1. N \in Nat /\ idx \in Int
  BY IndexAssumption DEF SFInv, CallInv
<1>2. /\ at \in Inside => idx \in 0 .. N - 1
      /\ at \in HeadersMade => idx \in 0 .. N
  BY DEF SFInv, CallInv
<1> QED BY <1>1, <1>2

(* A call begins with all packets before the first loop.                   *)
LEMMA RouteFromEntry ==
  ASSUME SFInv, RunInv, source \in Supported, Call
  PROVE  IsOnRoute'
<1>1. UNCHANGED <<lsVars, N>> /\ status = "idle" /\ at' = Entry /\ pos' = pos
  BY DEF Call
<1>2. \A p \in 0 .. N - 1 : pos[p] = NotStarted
  BY <1>1 DEF RunInv
<1>3. PlaceAfter(0)' = NotStarted /\ N \in Nat
  BY DEF PlaceAfter, SFInv, CallInv
<1>4. AreThrough(1, 0)'
  <2>1. \A p \in 0 .. N - 1 : ~(p < 0) /\ 1 - 1 = 0
    BY <1>3
  <2> QED BY <1>1, <1>2, <1>3, <2>1 DEF AreThrough
<1> QED BY <1>1, <1>4 DEF IsOnRoute

(* From a header control goes into the part with the next packet, or to    *)
(* the next loop when all are through.                                     *)
LEMMA RouteFromHeader ==
  ASSUME SFInv, SplitInv, RouteInv, RunInv, source \in Supported, RunHeader
  PROVE  IsOnRoute'
<1>1. status = "running" /\ UNCHANGED <<lsVars, N>> /\ pos' = pos /\ idx' = idx
  BY DEF RunHeader, IsIn
<1>11. stage = "done" /\ N \in Nat
  BY <1>1 DEF SFInv, CallInv
<1>3. PICK m : m = NumNewLoops
  OBVIOUS
<1>4. PartsAre(m) /\ IsLinked(m) /\ AreApart(m)
  BY <1>11, <1>3, RouteNow
<1>5. m \in Nat \ {0}
  BY <1>4 DEF PartsAre
<1>6. at \in HeadersMade
  <2>1. PICK j \in DOMAIN Loops : at = Loops[j].Header
    BY DEF RunHeader, IsIn
  <2> QED BY <1>4, <2>1 DEF AreApart
<1>2. stage = "done" /\ N \in Nat /\ idx \in 0 .. N
  BY <1>1, <1>6, <1>11, IndexNow
<1>7. PICK k \in 1 .. m + 1 : at = Loops[k].Header /\ AreThrough(k, idx)
  <2>1. IsOnRoute
    BY <1>1 DEF RunInv
  <2>2. at # Entry /\ at \notin Outer /\ at \notin Body(loop)
    BY <1>4, <1>6 DEF AreApart
  <2>3. \A j \in 1 .. m + 1 : at # Loops[j].PreHeader /\ at # Loops[j].Latch
    BY <1>4, <1>6 DEF AreApart
  <2>4. PICK j \in 1 .. m + 1 : IsInLoop(j)
    BY <1>3, <2>1, <2>2 DEF IsOnRoute
  <2> QED BY <2>2, <2>3, <2>4 DEF IsInLoop, IsInRegion
<1>8. \A p \in 0 .. N - 1 : pos[p] = IF p < idx THEN PlaceAfter(k) ELSE PlaceAfter(k - 1)
  BY <1>7 DEF AreThrough
<1>9. CASE idx < N
  <2>1. at' = Head(LoopBlocks[k])
    BY <1>4, <1>7, <1>9 DEF RunHeader, RunsBody, IsLinked
  <2>2. PICK Q \in SUBSET Body(loop) : IsRegion(Q, k)
    BY <1>2, <1>4, PartsNow, RegionsAre
  <2>3. at' \in Q
    BY <2>1, <2>2 DEF IsRegion
  <2>4. Leads(pos[idx], at')
    <3>1. pos[idx] = PlaceAfter(k - 1)
      BY <1>2, <1>8, <1>9
    <3>2. CASE k = 1
      <4>1. pos[idx] = NotStarted
        BY <3>1, <3>2 DEF PlaceAfter
      <4>2. Head(LoopBlocks[k]) = BodyBegin(body, loop)
        BY <1>4, <3>2 DEF PartsAre, IsPart
      <4> QED BY <2>1, <4>1, <4>2 DEF Leads
    <3>3. CASE k # 1
      <4>1. k - 1 \in 1 .. m /\ k - 1 # 0 /\ k - 1 \in 1 .. m + 1
        BY <1>5, <3>3
      <4>2. pos[idx] = EndOfSet(k - 1)
        BY <3>1, <4>1 DEF PlaceAfter
      <4>3. Head(LoopBlocks[k]) \in SuccessorsOf(body, EndOfSet(k - 1))
        BY <1>4, <3>3 DEF PartsAre, IsPart
      <4>4. EndOfSet(k - 1) \in Body(loop) /\ EndOfSet(k - 1) # BodyEnd
        BY <1>4, <4>1 DEF PartsAre
      <4> QED BY <2>1, <4>2, <4>3, <4>4 DEF Leads
    <3> QED BY <3>2, <3>3
  <2>5. IsInRegion(k)'
    BY <1>1, <1>2, <1>8, <1>9, <2>2, <2>3, <2>4, LoopsRun DEF IsInRegion
  <2> QED BY <1>1, <1>3, <2>5, LoopsRun DEF IsOnRoute, IsInLoop
<1>10. CASE ~(idx < N)
  <2>1. \A p \in 0 .. N - 1 : pos[p] = PlaceAfter(k)
    BY <1>2, <1>8, <1>10
  <2>2. at' = succ[at][2]
    BY <1>10 DEF RunHeader, RunsBody
  <2>3. CASE k \in 1 .. m
    <3>1. at' = Loops[k + 1].PreHeader /\ k + 1 \in 1 .. m + 1 /\ (k + 1) - 1 = k
      BY <1>4, <1>5, <1>7, <2>2, <2>3 DEF IsLinked
    <3>2. \A p \in 0 .. N - 1 : ~(p < 0)
      BY <1>2
    <3>3. AreThrough(k + 1, 0)'
      BY <1>1, <2>1, <3>1, <3>2, LoopsRun DEF AreThrough
    <3>4. IsInLoop(k + 1)'
      BY <1>1, <3>1, <3>3, LoopsRun DEF IsInLoop
    <3> QED BY <1>1, <1>3, <3>1, <3>4, LoopsRun DEF IsOnRoute
  <2>4. CASE k \notin 1 .. m
    <3>1. k = m + 1
      BY <1>5, <2>4
    <3>2. at' = ExitBlock /\ ExitBlock \in Outer
      BY <1>4, <1>7, <2>2, <3>1 DEF IsLinked
    <3>3. \A p \in 0 .. N - 1 : p < N
      BY <1>2
    <3>4. AreThrough(m + 1, N)'
      BY <1>1, <2>1, <3>1, <3>3, LoopsRun DEF AreThrough
    <3> QED BY <1>1, <1>3, <3>2, <3>4, LoopsRun DEF IsOnRoute
  <2> QED BY <2>3, <2>4
<1> QED BY <1>9, <1>10

(* A latch counts the packet that has come through.                        *)
LEMMA RouteFromLatch ==
  ASSUME SFInv, SplitInv, RouteInv, RunInv, source \in Supported, RunLatch
  PROVE  IsOnRoute'
<1>1. status = "running" /\ UNCHANGED <<lsVars, N>> /\ pos' = pos /\ idx' = idx + 1
  BY DEF RunLatch, IsIn
<1>2. stage = "done" /\ N \in Nat
  BY <1>1 DEF SFInv, CallInv
<1>3. PICK m : m = NumNewLoops
  OBVIOUS
<1>4. PartsAre(m) /\ IsLinked(m) /\ AreApart(m)
  BY <1>2, <1>3, RouteNow
<1>5. at \in Inside \ Body(loop)
  <2>1. PICK j \in DOMAIN Loops : at = Loops[j].Latch
    BY DEF RunLatch, IsIn
  <2> QED BY <1>4, <2>1 DEF AreApart
<1>10. idx \in 0 .. N - 1
  BY <1>1, <1>5, IndexNow
<1>6. PICK k \in 1 .. m + 1 : at = Loops[k].Latch /\ AreThrough(k, idx + 1)
  <2>1. IsOnRoute
    BY <1>1 DEF RunInv
  <2>2. at # Entry /\ at \notin Outer /\ at \notin Body(loop)
    BY <1>4, <1>5 DEF AreApart
  <2>3. \A j \in 1 .. m + 1 : at # Loops[j].PreHeader /\ at # Loops[j].Header
    BY <1>4, <1>5 DEF AreApart
  <2>4. PICK j \in 1 .. m + 1 : IsInLoop(j)
    BY <1>3, <2>1, <2>2 DEF IsOnRoute
  <2> QED BY <2>2, <2>3, <2>4 DEF IsInLoop, IsInRegion
<1>7. at' = Loops[k].Header
  <2>1. succ[at] = <<Loops[k].Header>>
    BY <1>4, <1>6 DEF IsLinked
  <2>2. at' = succ[at][1]
    BY DEF RunLatch
  <2> QED BY <2>1, <2>2
<1>8. AreThrough(k, idx)'
  BY <1>1, <1>2, <1>6, <1>10, LoopsRun DEF AreThrough
<1>9. IsInLoop(k)'
  BY <1>1, <1>7, <1>8, LoopsRun DEF IsInLoop
<1> QED BY <1>1, <1>3, <1>9, LoopsRun DEF IsOnRoute
(* A block is run by one packet, which it leads on.                        *)
PacketMoves ==
  \/ pos' = pos
  \/ idx \in 0 .. N - 1 /\ pos' = [pos EXCEPT ![idx] = at] /\ Leads(pos[idx], at)

(* A block with one edge.                                                  *)
LEMMA OneSuccessor ==
  ASSUME NEW s, NEW b, NEW c, s[b] = <<c>>
  PROVE  SuccessorsOf(s, b) = {c}
<1> DEFINE list == s[b]
<1>1. DOMAIN list = {1} /\ list[1] = c
  OBVIOUS
<1> HIDE DEF list
<1>2. {list[k] : k \in DOMAIN list} = {c}
  BY <1>1
<1> QED BY <1>2, SuccessorsAre DEF list

(* A block whose edges were not changed.                                   *)
LEMMA SameSuccessors ==
  ASSUME NEW s, NEW t, NEW b, s[b] = t[b]
  PROVE  SuccessorsOf(s, b) = SuccessorsOf(t, b)
<1>1. {s[b][k] : k \in DOMAIN s[b]} = {t[b][k] : k \in DOMAIN t[b]}
  OBVIOUS
<1> QED BY <1>1, SuccessorsAre

(* A block of the body leads its packet on, to the latch at the end of its *)
(* part; other blocks stay outside of the loops.                           *)
LEMMA RouteFromBlock ==
  ASSUME SFInv, SplitInv, RouteInv, RunInv, source \in Supported, RunBlock
  PROVE  IsOnRoute' /\ PacketMoves
<1>1. status = "running" /\ UNCHANGED <<lsVars, N>> /\ at' \in SuccessorsOf(succ, at)
  BY DEF RunBlock
<1>2. stage = "done" /\ N \in Nat /\ idx \in Int /\ DOMAIN pos = 0 .. N - 1
  BY <1>1, IndexNow DEF SFInv, CallInv
<1>3. PICK m : m = NumNewLoops
  OBVIOUS
<1>4. PartsAre(m) /\ IsLinked(m) /\ AreApart(m)
  BY <1>2, <1>3, RouteNow
<1>5. m \in Nat \ {0}
  BY <1>4 DEF PartsAre
<1>6. IsOnRoute
  BY <1>1 DEF RunInv
<1>7. InBody <=> at \in Body(loop)
  BY DEF InBody, Body
<1>8. at \notin Body(loop) => pos' = pos
  BY <1>7 DEF RunBlock
<1>9. CASE at = Entry /\ AreThrough(1, 0)
  <2>1. at' = Loops[1].PreHeader
    BY <1>1, <1>4, <1>9, OneSuccessor DEF IsLinked
  <2>2. pos' = pos
    BY <1>4, <1>8, <1>9 DEF AreApart
  <2>3. AreThrough(1, 0)'
    BY <1>1, <1>9, <2>2, LoopsRun DEF AreThrough
  <2>4. 1 \in 1 .. m + 1
    BY <1>5
  <2>5. IsInLoop(1)'
    BY <1>1, <2>1, <2>3, LoopsRun DEF IsInLoop
  <2> QED BY <1>1, <1>3, <2>2, <2>4, <2>5, LoopsRun DEF IsOnRoute, PacketMoves
<1>10. CASE at \in Outer /\ AreThrough(m + 1, N)
  <2>1. SuccessorsOf(succ, at) = SuccessorsOf(body, at)
    <3>1. succ[at] = body[at]
      BY <1>4, <1>10 DEF IsLinked
    <3> QED BY <3>1, SameSuccessors
  <2>2. at' \in Outer
    BY <1>1, <1>4, <1>10, <2>1 DEF IsLinked
  <2>3. pos' = pos
    BY <1>4, <1>8, <1>10 DEF AreApart
  <2>4. AreThrough(m + 1, N)'
    BY <1>1, <1>10, <2>3, LoopsRun DEF AreThrough
  <2> QED BY <1>1, <1>3, <2>2, <2>3, <2>4, LoopsRun DEF IsOnRoute, PacketMoves
<1>11. ASSUME NEW k \in 1 .. m + 1, at = Loops[k].PreHeader, AreThrough(k, 0)
       PROVE  IsOnRoute' /\ PacketMoves
  <2>1. at' = Loops[k].Header
    <3>1. succ[at] = <<Loops[k].Header>>
      BY <1>4, <1>11 DEF IsLinked
    <3> QED BY <1>1, <3>1, OneSuccessor
  <2>2. pos' = pos
    BY <1>4, <1>8, <1>11 DEF AreApart
  <2>3. idx' = 0
    <3>1. IsIn("PreHeader")
      BY <1>1, <1>4, <1>11 DEF IsIn, AreApart
    <3> QED BY <3>1 DEF RunBlock
  <2>4. AreThrough(k, idx)'
    BY <1>1, <1>11, <2>2, <2>3, LoopsRun DEF AreThrough
  <2>5. IsInLoop(k)'
    BY <1>1, <2>1, <2>4, LoopsRun DEF IsInLoop
  <2> QED BY <1>1, <1>3, <2>2, <2>5, LoopsRun DEF IsOnRoute, PacketMoves
<1>12. ASSUME NEW k \in 1 .. m + 1, IsInRegion(k)
       PROVE  IsOnRoute' /\ PacketMoves
  <2>1. at \in Body(loop) /\ idx \in 0 .. N - 1 /\ idx < N /\ Leads(pos[idx], at)
    <3>1. at \in Body(loop) /\ idx < N /\ Leads(pos[idx], at)
      BY <1>12 DEF IsInRegion
    <3>2. idx \in 0 .. N - 1
      BY <1>1, <1>4, <3>1, IndexNow DEF AreApart
    <3> QED BY <3>1, <3>2
  <2>2. pos' = [pos EXCEPT ![idx] = at]
    BY <1>7, <2>1 DEF RunBlock
  <2>3. idx' = idx
    <3>1. ~IsIn("PreHeader")
      BY <1>4, <2>1 DEF IsIn, AreApart
    <3> QED BY <3>1 DEF RunBlock
  <2>4. /\ \A p \in 0 .. N - 1 : p # idx => pos'[p] = IF p < idx THEN PlaceAfter(k) ELSE PlaceAfter(k - 1)
        /\ pos'[idx] = at
    BY <1>2, <1>12, <2>1, <2>2 DEF IsInRegion
  <2>5. PICK Q \in SUBSET Body(loop) : IsRegion(Q, k) /\ at \in Q
    BY <1>12 DEF IsInRegion
  <2>6. CASE at = EndOfSet(k)
    <3>1. at' = Loops[k].Latch
      BY <1>1, <1>4, <2>6, OneSuccessor DEF IsLinked
    <3>2. k # 0
      OBVIOUS
    <3>3. pos'[idx] = PlaceAfter(k)
      BY <2>4, <2>6, <3>2 DEF PlaceAfter
    <3>4. \A p \in 0 .. N - 1 : /\ p = idx => p < idx + 1
                                /\ p # idx => (p < idx <=> p < idx + 1)
      BY <1>2
    <3>5. \A p \in 0 .. N - 1 : pos'[p] = IF p < idx + 1 THEN PlaceAfter(k) ELSE PlaceAfter(k - 1)
      BY <2>4, <3>3, <3>4
    <3>6. AreThrough(k, idx + 1)'
      BY <1>1, <2>3, <3>5, LoopsRun DEF AreThrough
    <3>7. IsInLoop(k)'
      BY <1>1, <2>1, <2>3, <3>1, <3>6, LoopsRun DEF IsInLoop
    <3> QED BY <1>1, <1>3, <2>1, <2>2, <3>7, LoopsRun DEF IsOnRoute, PacketMoves
  <2>7. CASE at # EndOfSet(k)
    <3>1. \A j \in 1 .. m + 1 : at # EndOfSet(j)
      BY <1>3, <2>5, <2>7 DEF IsRegion
    <3>2. succ[at] = body[at] /\ at # BodyEnd
      <4>1. m + 1 \in 1 .. m + 1
        BY <1>5
      <4> QED BY <1>4, <2>1, <3>1, <4>1 DEF IsLinked, PartsAre
    <3>3. at' \in SuccessorsOf(body, at)
      BY <1>1, <3>2, SameSuccessors
    <3>4. at' \in Body(loop)
      BY <1>2, <2>1, <3>2, <3>3, PartsNow, StaysInBody
    <3>5. at' \in Q
      BY <2>5, <2>7, <3>3, <3>4 DEF IsRegion
    <3>6. Leads(pos'[idx], at')
      BY <2>1, <2>4, <3>2, <3>3 DEF Leads
    <3>7. IsInRegion(k)'
      BY <1>1, <2>1, <2>3, <2>4, <2>5, <3>4, <3>5, <3>6, LoopsRun DEF IsInRegion
    <3> QED BY <1>1, <1>3, <2>1, <2>2, <3>7, LoopsRun DEF IsOnRoute, IsInLoop, PacketMoves
  <2> QED BY <2>6, <2>7
<1>13. \A k \in 1 .. m + 1 : at # Loops[k].Header /\ at # Loops[k].Latch
  <2>1. \A k \in DOMAIN Loops : at # Loops[k].Header /\ at # Loops[k].Latch
    BY <1>1 DEF RunBlock, IsIn
  <2> QED BY <1>4, <2>1 DEF AreApart
<1> QED BY <1>3, <1>6, <1>9, <1>10, <1>11, <1>12, <1>13 DEF IsOnRoute, IsInLoop

(* The route ends behind all loops.                                        *)
LEMMA RouteEnds ==
  ASSUME SFInv, SplitInv, RouteInv, RunInv, source \in Supported, Return
  PROVE  \A p \in 0 .. N - 1 : pos[p] = BodyEnd
<1>1. status = "running" /\ succ[at] = <<>>
  BY DEF Return
<1>2. stage = "done" /\ N \in Nat
  BY <1>1 DEF SFInv, CallInv
<1>3. PICK m : m = NumNewLoops
  OBVIOUS
<1>4. PartsAre(m) /\ IsLinked(m) /\ AreApart(m)
  BY <1>2, <1>3, RouteNow
<1>5. m \in Nat \ {0}
  BY <1>4 DEF PartsAre
<1>6. SuccessorsOf(succ, at) = {}
  <2>1. DOMAIN succ[at] = {}
    BY <1>1
  <2> QED BY <2>1, SuccessorsAre
<1>7. at # Entry
  <2>1. succ[Entry] = <<Loops[1].PreHeader>>
    BY <1>4 DEF IsLinked
  <2> QED BY <1>6, <2>1, OneSuccessor
<1>8. ASSUME NEW k \in 1 .. m + 1, IsInLoop(k) PROVE FALSE
  <2>1. at # Loops[k].PreHeader /\ at # Loops[k].Latch /\ at # EndOfSet(k)
    <3>1. /\ succ[Loops[k].PreHeader] = <<Loops[k].Header>>
          /\ succ[Loops[k].Latch] = <<Loops[k].Header>>
          /\ succ[EndOfSet(k)] = <<Loops[k].Latch>>
      BY <1>4 DEF IsLinked
    <3>2. SuccessorsOf(succ, Loops[k].PreHeader) # {}
      BY <3>1, OneSuccessor
    <3>3. SuccessorsOf(succ, Loops[k].Latch) # {}
      BY <3>1, OneSuccessor
    <3>4. SuccessorsOf(succ, EndOfSet(k)) # {}
      BY <3>1, OneSuccessor
    <3> QED BY <1>6, <3>2, <3>3, <3>4
  <2>2. at # Loops[k].Header
    <3>1. \A h \in HeadersMade : DOMAIN succ[h] = {1, 2}
      BY <1>2, SplitCode DEF SFInv
    <3>2. DOMAIN succ[at] = {}
      BY <1>1
    <3> QED BY <1>4, <3>1, <3>2 DEF AreApart
  <2>3. IsInRegion(k)
    BY <1>8, <2>1, <2>2 DEF IsInLoop
  <2>4. at \in Body(loop) /\ \A j \in 1 .. m + 1 : at # EndOfSet(j)
    BY <1>3, <2>1, <2>3 DEF IsInRegion, IsRegion
  <2>5. SuccessorsOf(body, at) = {}
    <3>1. succ[at] = body[at]
      BY <1>4, <2>4 DEF IsLinked
    <3> QED BY <1>6, <3>1, SameSuccessors
  <2>6. SuccessorsOf(body, at) # {}
    BY <1>2, <2>4, PartsNow DEF IsLoop, Body
  <2> QED BY <2>5, <2>6
<1>9. AreThrough(m + 1, N)
  BY <1>1, <1>3, <1>7, <1>8 DEF RunInv, IsOnRoute
<1>10. \A p \in 0 .. N - 1 : p < N
  BY <1>2
<1>11. PlaceAfter(m + 1) = BodyEnd
  BY <1>4, <1>5 DEF PlaceAfter, PartsAre
<1> QED BY <1>9, <1>10, <1>11 DEF AreThrough

(* The run keeps to the route.                                             *)
LEMMA RunInvStep ==
  ASSUME SFInv, SplitInv, RouteInv, RunInv, [SFNext]_sfVars
  PROVE  RunInv'
<1>1. CASE Split
  <2>1. UNCHANGED <<N, at, idx, pos, status, source>> /\ stage # "done"
    <3>1. stage # "done"
      BY <1>1 DEF Split, LSNext, detect, splitAtUse, findLoop, addLoop, addParentLoop, stitchLoop, stitchLastLoop,
                  traverseLoopBody, overflowStack, dropExtraSet, assignBlocks, finish
    <3> QED BY <1>1, <3>1, SourceStays DEF Split, callVars
  <2>2. status = "idle"
    BY <2>1 DEF SFInv, CallInv
  <2> QED BY <2>1, <2>2, SupportedStays DEF RunInv
<1>2. CASE Call \/ RunHeader \/ RunLatch \/ RunBlock
  <2>1. UNCHANGED lsVars /\ N' = N /\ status' = "running"
    BY <1>2 DEF Call, RunHeader, RunLatch, RunBlock, IsIn
  <2>2. SUFFICES ASSUME source \in Supported PROVE IsOnRoute'
    BY <2>1, LoopsRun DEF RunInv
  <2> QED BY <1>2, <2>2, RouteFromEntry, RouteFromHeader, RouteFromLatch, RouteFromBlock
<1>3. CASE Overrun \/ Return
  BY <1>3 DEF Overrun, Return, RunInv
<1>4. CASE UNCHANGED sfVars
  <2>1. UNCHANGED <<lsVars, N, at, idx, pos, status>>
    BY <1>4 DEF sfVars, callVars
  <2>3. AreThrough(1, 0)' <=> AreThrough(1, 0)
    BY <2>1, LoopsRun DEF AreThrough
  <2>4. ASSUME NEW k PROVE IsInLoop(k)' <=> IsInLoop(k)
    <3>1. AreThrough(k, 0)' <=> AreThrough(k, 0)
      BY <2>1, LoopsRun DEF AreThrough
    <3>2. AreThrough(k, idx)' <=> AreThrough(k, idx)
      BY <2>1, LoopsRun DEF AreThrough
    <3>3. AreThrough(k, idx + 1)' <=> AreThrough(k, idx + 1)
      BY <2>1, LoopsRun DEF AreThrough
    <3>4. IsInRegion(k)' <=> IsInRegion(k)
      BY <2>1, LoopsRun DEF IsInRegion
    <3> QED BY <2>1, <3>1, <3>2, <3>3, <3>4, LoopsRun DEF IsInLoop
  <2>5. AreThrough(NumNewLoops + 1, N)' <=> AreThrough(NumNewLoops + 1, N)
    BY <2>1, LoopsRun DEF AreThrough
  <2> QED BY <2>1, <2>3, <2>4, <2>5, LoopsRun DEF RunInv, IsOnRoute
<1> QED BY <1>1, <1>2, <1>3, <1>4 DEF SFNext

(* Each step of the run is a step of the packets on their ways.            *)
LEMMA PartsStep ==
  ASSUME SFInv, SplitInv, RouteInv, RunInv, source \in Supported, stage = "done", [SFNext]_sfVars
  PROVE  [Parts!Next]_(Parts!vars)
<1> DEFINE begin == IF body = <<>> THEN NullBlock ELSE BodyBegin(body, loop)
           end == IF body = <<>> THEN NullBlock ELSE BodyEnd
<1>1. ASSUME UNCHANGED lsVars PROVE UNCHANGED <<body, begin, end>>
  <2>1. UNCHANGED <<body, loop>> /\ BodyEnd' = BodyEnd
    BY <1>1 DEF lsVars, irVars, loopVars, BodyEnd
  <2> QED BY <2>1
<1>2. begin = BodyBegin(body, loop) /\ end = BodyEnd
  <2>1. DOMAIN body # {}
    BY PartsNow DEF FoundOK, IsNumbered
  <2>2. body # <<>>
    BY <2>1
  <2> QED BY <2>2
<1>3. CASE Split
  BY <1>3 DEF Split, LSNext, detect, splitAtUse, findLoop, addLoop, addParentLoop, stitchLoop, stitchLastLoop,
              traverseLoopBody, overflowStack, dropExtraSet, assignBlocks, finish
<1>4. CASE Call \/ RunHeader \/ RunLatch \/ Overrun
  <2>1. UNCHANGED lsVars /\ pos' = pos /\ (status' = "returned") = (status = "returned")
    BY <1>4 DEF Call, RunHeader, RunLatch, Overrun, IsIn
  <2> QED BY <1>1, <2>1 DEF Parts!vars
<1>5. CASE UNCHANGED sfVars
  <2>1. UNCHANGED lsVars /\ pos' = pos /\ (status' = "returned") = (status = "returned")
    BY <1>5 DEF sfVars, callVars
  <2> QED BY <1>1, <2>1 DEF Parts!vars
<1>6. CASE Return
  <2>1. UNCHANGED lsVars /\ pos' = pos /\ (status' = "returned") = TRUE /\ (status = "returned") = FALSE
    BY <1>6 DEF Return
  <2>2. DOMAIN pos = 0 .. N - 1
    BY DEF SFInv, CallInv
  <2>3. \A p \in DOMAIN pos : pos[p] = end
    BY <1>2, <1>6, <2>2, RouteEnds
  <2>4. Parts!Finish
    BY <1>1, <2>1, <2>3 DEF Parts!Finish
  <2> QED BY <2>4 DEF Parts!Next
<1>7. CASE RunBlock
  <2>1. UNCHANGED lsVars /\ (status' = "returned") = FALSE /\ (status = "returned") = FALSE
    BY <1>7 DEF RunBlock
  <2>2. PacketMoves
    BY <1>7, RouteFromBlock
  <2>3. CASE pos' = pos
    BY <1>1, <2>1, <2>3 DEF Parts!vars
  <2>4. CASE idx \in 0 .. N - 1 /\ pos' = [pos EXCEPT ![idx] = at] /\ Leads(pos[idx], at)
    <3>1. idx \in DOMAIN pos
      BY <2>4 DEF SFInv, CallInv
    <3>2. CASE pos[idx] = NotStarted /\ at = BodyBegin(body, loop)
      <4>1. Parts!Start(idx)
        BY <1>1, <1>2, <2>1, <2>4, <3>2 DEF Parts!Start
      <4> QED BY <3>1, <4>1 DEF Parts!Next
    <3>3. CASE pos[idx] \in Body(loop) \ {BodyEnd} /\ at \in SuccessorsOf(body, pos[idx])
      <4>1. PICK k \in DOMAIN body[pos[idx]] : at = body[pos[idx]][k]
        BY <3>3, SuccessorsAre
      <4>2. pos[idx] # NotStarted
        <5>1. Body(loop) \subseteq DOMAIN body /\ DOMAIN body \subseteq Nat \ {0}
          <6>1. IsLoop(body, loop) /\ IsNumbered(body, Size)
            BY PartsNow DEF FoundOK
          <6>2. Body(loop) \subseteq DOMAIN body
            BY <6>1 DEF IsLoop, Body
          <6>3. DOMAIN body = 1 .. Size /\ Size \in Nat
            BY <6>1 DEF IsNumbered
          <6> QED BY <6>2, <6>3
        <5> QED BY <3>3, <5>1 DEF NotStarted
      <4>3. \E j \in DOMAIN body[pos[idx]] : pos' = [pos EXCEPT ![idx] = body[pos[idx]][j]]
        BY <2>4, <4>1
      <4>4. pos[idx] \notin {NotStarted, end}
        BY <1>2, <3>3, <4>2
      <4>5. Parts!Step(idx)
        BY <1>1, <2>1, <4>3, <4>4 DEF Parts!Step
      <4> QED BY <3>1, <4>5 DEF Parts!Next
    <3> QED BY <2>4, <3>2, <3>3 DEF Leads
  <2> QED BY <2>2, <2>3, <2>4 DEF PacketMoves
<1> QED BY <1>3, <1>4, <1>5, <1>6, <1>7 DEF SFNext

(* Whatever stage the pass and the run are in, the route is kept.          *)
RouteKept == SFInv /\ SplitInv /\ RouteInv /\ RunInv

(* All of this always holds.                                               *)
LEMMA RouteIsKept == SFSpec => []RouteKept
<1>1. SFInit => RouteKept
  <2> SUFFICES ASSUME SFInit PROVE RouteKept
    OBVIOUS
  <2>1. SFInv
    BY InitOK
  <2>2. stage = "start" /\ EndBlocks = <<>> /\ status = "idle" /\ pos = [p \in 0 .. N - 1 |-> NotStarted]
    BY DEF SFInit, LSInit
  <2>3. SplitInv /\ RouteInv
    BY <2>2 DEF SplitInv, RouteInv, InSplitting
  <2>4. RunInv
    BY <2>2 DEF RunInv
  <2> QED BY <2>1, <2>3, <2>4 DEF RouteKept
<1>2. RouteKept /\ [SFNext]_sfVars => RouteKept'
  <2> SUFFICES ASSUME RouteKept, [SFNext]_sfVars PROVE RouteKept'
    OBVIOUS
  <2>1. SFInv /\ SplitInv /\ RouteInv /\ RunInv
    BY DEF RouteKept
  <2>2. SFInv' /\ SplitInv' /\ RunInv'
    BY <2>1, InvStep, SplitInvStep, RunInvStep
  <2>3. RouteInv'
    <3>1. CASE LSNext
      BY <2>1, <2>2, <3>1, RouteStep
    <3>2. CASE UNCHANGED lsVars
      BY <2>1, <3>2, RouteSame
    <3> QED BY <3>1, <3>2 DEF SFNext, Split, Call, RunHeader, RunLatch, RunBlock, Overrun, Return, sfVars
  <2> QED BY <2>2, <2>3 DEF RouteKept
<1> QED BY <1>1, <1>2, PTL DEF SFSpec

(* The loops that the pass makes of a supported one together take each     *)
(* packet on one way through the body, along its edges, from its begin to  *)
(* its end; the function returns when all have come to the end.            *)
THEOREM PartsAreTaken == SFSpec => TakesPacketsThroughBody
<1>1. SFInit => Parts!Init
  <2> SUFFICES ASSUME SFInit PROVE Parts!Init
    OBVIOUS
  <2>1. status = "idle" /\ pos = [p \in 0 .. N - 1 |-> NotStarted]
    BY DEF SFInit
  <2>2. DOMAIN pos = 0 .. N - 1
    BY <2>1
  <2>3. pos = [p \in DOMAIN pos |-> NotStarted]
    BY <2>1, <2>2
  <2> QED BY <2>1, <2>3 DEF Parts!Init
<1>2. RouteKept /\ [SFNext]_sfVars => [stage = "done" /\ source \in Supported => [Parts!Next]_(Parts!vars)]_sfVars
  BY PartsStep DEF RouteKept
<1>3. SFSpec => [][stage = "done" /\ source \in Supported => [Parts!Next]_(Parts!vars)]_sfVars
  BY <1>2, RouteIsKept, PTL DEF SFSpec
<1> QED BY <1>1, <1>3, PTL DEF SFSpec, TakesPacketsThroughBody

-----------------------------------------------------------------------------

(* A packet that is behind a block that sets a variable has its value in   *)
(* its place of the array.                                                 *)
HasSet(p, v, S) ==
  pos[p] \in S \cup {NotStarted} \/ (p < ArrayPlaces /\ mem[v][p] = p)

(* The arrays hold what packets have set that are behind a block which all *)
(* of them come to.                                                        *)
MemInv ==
  /\ mem \in [Variables -> [0 .. ArrayPlaces -> Int]]
  /\ source \in Supported /\ status = "running" =>
       \A a \in Body(loop) : \A v \in arrays : \A S \in SUBSET Body(loop) :
         <<"set", v>> \in Range(code[a]) /\ LeadsTo(body, loop, S, a) =>
           \A p \in 0 .. N - 1 : HasSet(p, v, S)

(* A packet is led into the body of the loop by its part.                  *)
LEMMA PacketIsLed ==
  ASSUME SFInv, SplitInv, RouteInv, RunInv, source \in Supported, status = "running", at \in Body(loop)
  PROVE  idx \in 0 .. N - 1 /\ Leads(pos[idx], at) /\ at # Entry
<1>1. stage = "done"
  BY DEF SFInv, CallInv
<1>2. PICK m : m = NumNewLoops
  OBVIOUS
<1>3. PartsAre(m) /\ AreApart(m)
  BY <1>1, <1>2, RouteNow
<1>4. IsOnRoute
  BY DEF RunInv
<1>5. at # Entry /\ at \notin Outer
  BY <1>3 DEF AreApart
<1>6. \A k \in 1 .. m + 1 : at # Loops[k].PreHeader /\ at # Loops[k].Header /\ at # Loops[k].Latch
  BY <1>3 DEF AreApart
<1>7. PICK k \in 1 .. m + 1 : IsInRegion(k)
  BY <1>2, <1>4, <1>5, <1>6 DEF IsOnRoute, IsInLoop
<1>8. idx \in 0 .. N - 1
  BY <1>3, IndexNow DEF AreApart
<1> QED BY <1>5, <1>7, <1>8 DEF IsInRegion

(* A packet that is before a is led on before a, or to a.                  *)
LEMMA PacketComes ==
  ASSUME NotStarted \notin Body(loop), NEW p, NEW b, Leads(p, b),
         NEW S, NEW a, LeadsTo(body, loop, S, a), p \in S \cup {NotStarted}
  PROVE  b \in S \cup {a}
<1>1. CASE p = NotStarted
  BY <1>1 DEF Leads, LeadsTo
<1>2. CASE p \in S
  BY <1>2 DEF Leads, LeadsTo
<1> QED BY <1>1, <1>2

(* The arrays are for variables.                                           *)
LEMMA ArraysAreOfVariables ==
  ASSUME PassInv
  PROVE  arrays \subseteq Variables /\ 0 \notin Variables
<1>1. AnnotatedVars \in Seq(Variables) /\ arrays \subseteq Range(AnnotatedVars)
  BY DEF PassInv, ListsOK
<1>2. 0 \notin Variables
  BY DEF Variables
<1> DEFINE V == Variables
           list == AnnotatedVars
<1>3. list \in Seq(V) /\ Range(list) = {list[j] : j \in DOMAIN list}
  BY <1>1 DEF Range
<1> HIDE DEF V, list
<1>4. Range(list) \subseteq V
  BY <1>3
<1> QED BY <1>1, <1>2, <1>4 DEF V, list

(* What a block of the body puts into the arrays.                          *)
LEMMA BlockSets ==
  ASSUME SFInv, SplitInv, RouteInv, RunInv, source \in Supported, RunBlock,
         mem \in [Variables -> [0 .. ArrayPlaces -> Int]], NEW v \in arrays
  PROVE  /\ at \notin Body(loop) => mem'[v] = mem[v]
         /\ at \in Body(loop) /\ v \notin SetIn(at) => mem'[v] = mem[v]
         /\ at \in Body(loop) /\ v \in SetIn(at) => mem'[v] = [mem[v] EXCEPT ![idx] = idx] /\ idx < ArrayPlaces
<1>1. status = "running" /\ mem' = [w \in Variables |->
        IF w \in SetIn(at) THEN [mem[w] EXCEPT ![Place(w)] = IF InBody THEN idx ELSE NoPacket] ELSE mem[w]]
  BY DEF RunBlock
<1>2. stage = "done" /\ at \in DOMAIN succ /\ DOMAIN code = DOMAIN succ /\ ArrayPlaces \in Nat
  BY <1>1, SizeAssumption DEF SFInv, CallInv, PassInv
<1>3. v \in Variables
  BY ArraysAreOfVariables DEF SFInv
<1>4. InBody <=> at \in Body(loop)
  BY DEF InBody, Body
<1>5. CASE at \notin Body(loop)
  <2>1. OutsideOK(code, loop)
    BY <1>2, PartsNow DEF WaysFound
  <2>2. v \notin SetIn(at)
    <3> SUFFICES ASSUME v \in SetIn(at) PROVE FALSE
      OBVIOUS
    <3>1. PICK k \in DOMAIN code[at] : code[at][k] = <<"set", v>>
      BY DEF SetIn
    <3>2. code[at][k][1] \in {"annotate", "gep", "other"}
      BY <1>2, <1>5, <2>1 DEF OutsideOK
    <3> QED BY <3>1, <3>2
  <2> QED BY <1>1, <1>3, <1>5, <2>2
<1>6. CASE at \in Body(loop)
  <2>1. at # Entry /\ idx \in Nat
    <3>1. at # Entry /\ idx \in 0 .. N - 1 /\ N \in Nat
      BY <1>1, <1>6, PacketIsLed, IndexNow
    <3> QED BY <3>1
  <2>2. Place(v) = idx
    BY <2>1 DEF Place
  <2>3. v \in SetIn(at) => idx < ArrayPlaces
    <3> SUFFICES ASSUME v \in SetIn(at), ~(idx < ArrayPlaces) PROVE FALSE
      OBVIOUS
    <3>1. idx \notin 0 .. ArrayPlaces - 1
      BY <1>2, <2>1
    <3>2. v \in Touched(at) \cap arrays
      BY DEF SetIn
    <3> QED BY <2>1, <3>1, <3>2 DEF RunBlock, IsOverrun
  <2> QED BY <1>1, <1>3, <1>4, <1>6, <2>2, <2>3
<1> QED BY <1>5, <1>6

(* A packet that comes behind a block that sets a variable has set it, and *)
(* no other packet writes to its place.                                    *)
LEMMA SetNow ==
  ASSUME SFInv, SplitInv, RouteInv, RunInv, source \in Supported, RunBlock,
         mem \in [Variables -> [0 .. ArrayPlaces -> Int]],
         NEW a \in Body(loop), NEW v \in arrays, NEW S, LeadsTo(body, loop, S, a), <<"set", v>> \in Range(code[a]),
         NEW p \in 0 .. N - 1, HasSet(p, v, S)
  PROVE  pos'[p] \in S \cup {NotStarted} \/ (p < ArrayPlaces /\ mem'[v][p] = p)
<1>1. status = "running" /\ N \in Nat /\ DOMAIN pos = 0 .. N - 1 /\ stage = "done"
      /\ mem[v] \in [0 .. ArrayPlaces -> Int] /\ ArrayPlaces \in Nat /\ idx \in Int
  <2>1. v \in Variables
    BY ArraysAreOfVariables DEF SFInv
  <2>2. status = "running"
    BY DEF RunBlock
  <2> QED BY <2>1, <2>2, SizeAssumption, IndexNow DEF SFInv, CallInv
<1>2. CASE at \notin Body(loop)
  <2>1. mem'[v] = mem[v]
    BY <1>2, BlockSets
  <2>2. pos' = pos
    <3>1. ~InBody
      BY <1>2 DEF InBody, Body
    <3> QED BY <3>1 DEF RunBlock
  <2> QED BY <2>1, <2>2 DEF HasSet
<1>3. CASE at \in Body(loop)
  <2>1. idx \in 0 .. N - 1 /\ Leads(pos[idx], at) /\ idx < N
    BY <1>1, <1>3, PacketIsLed
  <2>2. pos' = [pos EXCEPT ![idx] = at]
    <3>1. InBody
      BY <1>3 DEF InBody, Body
    <3> QED BY <2>1, <3>1 DEF RunBlock
  <2>3. CASE p # idx
    <3>1. pos'[p] = pos[p]
      BY <1>1, <2>2, <2>3
    <3>2. p < ArrayPlaces => mem'[v][p] = mem[v][p]
      <4>1. mem'[v] = mem[v] \/ mem'[v] = [mem[v] EXCEPT ![idx] = idx]
        BY <1>3, BlockSets
      <4>2. CASE mem'[v] = mem[v]
        BY <4>2
      <4>3. CASE mem'[v] = [mem[v] EXCEPT ![idx] = idx]
        <5> DEFINE list == mem[v]
        <5>1. \A q \in 0 .. ArrayPlaces : q # idx => [list EXCEPT ![idx] = idx][q] = list[q]
          <6>1. DOMAIN list = 0 .. ArrayPlaces
            BY <1>1
          <6> HIDE DEF list
          <6> QED BY <6>1
        <5>2. p < ArrayPlaces => p \in 0 .. ArrayPlaces
          BY <1>1
        <5> QED BY <2>3, <4>3, <5>1, <5>2
      <4> QED BY <4>1, <4>2, <4>3
    <3> QED BY <3>1, <3>2 DEF HasSet
  <2>4. CASE p = idx
    <3>1. pos'[p] = at
      BY <1>1, <2>1, <2>2, <2>4
    <3>2. CASE pos[p] \in S \cup {NotStarted}
      <4>1. NotStarted \notin Body(loop)
        <5>1. IsLoop(body, loop) /\ IsNumbered(body, Size)
          BY <1>1, PartsNow DEF FoundOK
        <5>2. Body(loop) \subseteq DOMAIN body
          BY <5>1 DEF IsLoop, Body
        <5>3. DOMAIN body = 1 .. Size
          BY <5>1 DEF IsNumbered
        <5> QED BY <5>2, <5>3 DEF NotStarted
      <4>2. at \in S \cup {a}
        BY <2>1, <2>4, <3>2, <4>1, PacketComes
      <4>3. CASE at = a
        <5>1. v \in SetIn(at)
          <6>1. PICK k \in DOMAIN code[a] : code[a][k] = <<"set", v>>
            BY DEF Range
          <6>2. v \in Touched(a)
            <7>1. code[a][k][1] # "annotate" /\ code[a][k][2] = v
              BY <6>1
            <7>2. v # 0
              BY ArraysAreOfVariables DEF SFInv
            <7> QED BY <7>1, <7>2 DEF Touched
          <6> QED BY <4>3, <6>1, <6>2 DEF SetIn
        <5>2. mem'[v] = [mem[v] EXCEPT ![idx] = idx] /\ idx < ArrayPlaces
          BY <1>3, <5>1, BlockSets
        <5>3. mem'[v][idx] = idx
          BY <1>1, <2>1, <5>2
        <5> QED BY <2>4, <5>2, <5>3
      <4>4. CASE at \in S
        BY <3>1, <4>4
      <4> QED BY <4>2, <4>3, <4>4
    <3>3. CASE p < ArrayPlaces /\ mem[v][p] = p
      <4>1. mem'[v][p] = p
        BY <1>1, <1>3, <2>1, <2>4, <3>3, BlockSets
      <4> QED BY <3>3, <4>1
    <3> QED BY <3>2, <3>3 DEF HasSet
  <2> QED BY <2>3, <2>4
<1> QED BY <1>2, <1>3

(* The arrays keep their type.                                             *)
LEMMA MemType ==
  ASSUME SFInv, mem \in [Variables -> [0 .. ArrayPlaces -> Int]], [SFNext]_sfVars
  PROVE  mem' \in [Variables -> [0 .. ArrayPlaces -> Int]]' /\ Variables' = Variables
<1> DEFINE F == [0 .. ArrayPlaces -> Int]
<1>1. UNCHANGED source
  BY SourceStays DEF SFNext, Split, Call, RunHeader, RunLatch, RunBlock, Overrun, Return, sfVars, lsVars
<1>2. Variables' = Variables
  BY <1>1, SourceKept
<1>3. CASE RunBlock
  <2>1. mem' = [v \in Variables |->
          IF v \in SetIn(at) THEN [mem[v] EXCEPT ![Place(v)] = IF InBody THEN idx ELSE NoPacket] ELSE mem[v]]
    BY <1>3 DEF RunBlock
  <2>2. (IF InBody THEN idx ELSE NoPacket) \in Int
    <3>1. status # "idle"
      BY <1>3 DEF RunBlock
    <3>2. idx \in Int
      BY <3>1, IndexNow
    <3> QED BY <3>2 DEF NoPacket
  <2>3. ASSUME NEW v \in Variables
        PROVE  [mem[v] EXCEPT ![Place(v)] = IF InBody THEN idx ELSE NoPacket] \in F /\ mem[v] \in F
    <3> DEFINE x == IF InBody THEN idx ELSE NoPacket
               list == mem[v]
    <3>1. list \in F /\ x \in Int
      BY <2>2
    <3> HIDE DEF x, list
    <3>2. [list EXCEPT ![Place(v)] = x] \in F
      BY <3>1
    <3> QED BY <3>1, <3>2 DEF x, list
  <2> HIDE DEF F
  <2>4. mem' \in [Variables -> F]
    BY <2>1, <2>3
  <2> QED BY <1>2, <2>4 DEF F
<1>4. CASE ~RunBlock
  <2>1. mem' = mem
    BY <1>4 DEF SFNext, Split, Call, RunHeader, RunLatch, Overrun, Return, sfVars, callVars
  <2> QED BY <1>2, <2>1
<1> QED BY <1>3, <1>4

(* Each packet keeps what it has set.                                      *)
LEMMA MemInvStep ==
  ASSUME SFInv, SplitInv, RouteInv, RunInv, MemInv, [SFNext]_sfVars
  PROVE  MemInv'
<1>1. mem \in [Variables -> [0 .. ArrayPlaces -> Int]]
  BY DEF MemInv
<1>2. mem' \in [Variables -> [0 .. ArrayPlaces -> Int]]'
  BY <1>1, MemType
<1>3. SUFFICES ASSUME (source \in Supported)', status' = "running",
                      NEW a \in Body(loop'), NEW v \in arrays', NEW S \in SUBSET Body(loop'),
                      <<"set", v>> \in Range(code'[a]), LeadsTo(body', loop', S, a), NEW p \in 0 .. N' - 1
               PROVE  pos'[p] \in S \cup {NotStarted} \/ (p < ArrayPlaces /\ mem'[v][p] = p)
  BY <1>2 DEF MemInv, HasSet
<1>4. CASE Split \/ Overrun \/ Return
  <2>1. CASE Split
    <3>1. status = "running" /\ stage # "done"
      BY <1>3, <2>1 DEF Split, callVars, LSNext, detect, splitAtUse, findLoop, addLoop, addParentLoop, stitchLoop,
                        stitchLastLoop, traverseLoopBody, overflowStack, dropExtraSet, assignBlocks, finish
    <3> QED BY <3>1 DEF SFInv, CallInv
  <2>2. CASE Overrun \/ Return
    BY <1>3, <2>2 DEF Overrun, Return
  <2> QED BY <1>4, <2>1, <2>2
<1>5. CASE Call \/ RunHeader \/ RunLatch \/ RunBlock \/ UNCHANGED sfVars
  <2>1. UNCHANGED <<lsVars, N>>
    BY <1>5 DEF Call, RunHeader, RunLatch, RunBlock, sfVars
  <2>2. /\ source \in Supported /\ a \in Body(loop) /\ v \in arrays /\ S \in SUBSET Body(loop)
        /\ <<"set", v>> \in Range(code[a]) /\ LeadsTo(body, loop, S, a) /\ p \in 0 .. N - 1
    BY <1>3, <2>1, LoopsRun
  <2>3. CASE Call
    <3>1. \A q \in 0 .. N - 1 : pos[q] = NotStarted
      BY <2>2, <2>3 DEF Call, RunInv
    <3> QED BY <2>2, <2>3, <3>1 DEF Call
  <2>4. CASE RunHeader \/ RunLatch \/ UNCHANGED sfVars
    <3>1. status = "running" /\ pos' = pos /\ mem' = mem
      BY <1>3, <2>4 DEF RunHeader, RunLatch, IsIn, sfVars, callVars
    <3>2. HasSet(p, v, S)
      BY <2>2, <3>1 DEF MemInv
    <3> QED BY <3>1, <3>2 DEF HasSet
  <2>5. CASE RunBlock
    <3>1. status = "running"
      BY <2>5 DEF RunBlock
    <3>2. HasSet(p, v, S)
      BY <2>2, <3>1 DEF MemInv
    <3> QED BY <1>1, <2>2, <2>5, <3>2, SetNow
  <2> QED BY <1>5, <2>3, <2>4, <2>5
<1> QED BY <1>4, <1>5 DEF SFNext

(* A packet comes to a block that reads a variable only after it has come  *)
(* to one that sets it.                                                    *)
LEMMA ReadsStep ==
  ASSUME SFInv, SplitInv, RouteInv, RunInv, MemInv, ReadsOwnValue, [SFNext]_sfVars
  PROVE  ReadsOwnValue'
<1>1. UNCHANGED source
  BY SourceStays DEF SFNext, Split, Call, RunHeader, RunLatch, RunBlock, Overrun, Return, sfVars, lsVars
<1>2. SUFFICES ASSUME source \in Supported PROVE foreign' = {}
  BY <1>1, SupportedStays DEF ReadsOwnValue
<1>3. foreign = {}
  BY <1>2 DEF ReadsOwnValue
<1>4. CASE ~RunBlock
  BY <1>3, <1>4 DEF SFNext, Split, Call, RunHeader, RunLatch, Overrun, Return, sfVars, callVars
<1>5. CASE RunBlock
  <2>1. status = "running" /\ stage = "done" /\ at \in DOMAIN code
    BY <1>5 DEF RunBlock, SFInv, CallInv, PassInv
  <2>2. InBody <=> at \in Body(loop)
    BY DEF InBody, Body
  <2>3. SUFFICES ASSUME at \in Body(loop), NEW v \in ReadFirstIn(code, at) PROVE mem[v][Place(v)] = idx
    BY <1>3, <1>5, <2>2 DEF RunBlock
  <2>4. idx \in 0 .. N - 1 /\ Leads(pos[idx], at) /\ at # Entry
    BY <1>2, <2>1, <2>3, PacketIsLed
  <2>5. WaysFound /\ IsLoop(body, loop) /\ IsNumbered(body, Size)
    BY <1>2, <2>1, PartsNow DEF FoundOK
  <2>6. v \in arrays
    BY <2>3, <2>5 DEF WaysFound
  <2>7. Place(v) = idx
    BY <2>4, <2>6 DEF Place
  <2>8. PICK a \in Body(loop) \ {at} : \E S \in SUBSET (Body(loop) \ {at}) :
          <<"set", v>> \in Range(code[a]) /\ LeadsTo(body, loop, S, a)
    BY <2>3, <2>5 DEF WaysFound, SetsOK
  <2>9. PICK S \in SUBSET (Body(loop) \ {at}) : <<"set", v>> \in Range(code[a]) /\ LeadsTo(body, loop, S, a)
    BY <2>8
  <2>10. HasSet(idx, v, S)
    <3>1. S \in SUBSET Body(loop) /\ a \in Body(loop)
      BY <2>8, <2>9
    <3> QED BY <1>2, <2>1, <2>4, <2>6, <2>9, <3>1 DEF MemInv
  <2>11. ~(pos[idx] \in S \cup {NotStarted})
    <3>1. NotStarted \notin Body(loop)
      <4>1. Body(loop) \subseteq DOMAIN body
        BY <2>5 DEF IsLoop, Body
      <4>2. DOMAIN body = 1 .. Size
        BY <2>5 DEF IsNumbered
      <4> QED BY <4>1, <4>2 DEF NotStarted
    <3>2. at \notin S \cup {a}
      BY <2>8, <2>9
    <3> QED BY <2>4, <2>9, <3>1, <3>2, PacketComes
  <2> QED BY <2>7, <2>10, <2>11 DEF HasSet
<1> QED BY <1>4, <1>5

(* In a split function that is supported each packet reads what itself has *)
(* put into an annotated variable.                                         *)
THEOREM PacketsReadTheirOwn == SFSpec => []ReadsOwnValue
<1>1. SFInit => MemInv /\ ReadsOwnValue
  <2> SUFFICES ASSUME SFInit PROVE MemInv /\ ReadsOwnValue
    OBVIOUS
  <2>1. mem = [v \in Variables |-> [place \in 0 .. ArrayPlaces |-> NoPacket]] /\ foreign = {} /\ status = "idle"
    BY DEF SFInit
  <2>2. NoPacket \in Int
    BY DEF NoPacket
  <2>3. mem \in [Variables -> [0 .. ArrayPlaces -> Int]]
    BY <2>1, <2>2
  <2> QED BY <2>1, <2>3 DEF MemInv, ReadsOwnValue
<1>2. RouteKept /\ MemInv /\ ReadsOwnValue /\ [SFNext]_sfVars => MemInv' /\ ReadsOwnValue'
  BY MemInvStep, ReadsStep DEF RouteKept
<1>3. SFSpec => []RouteKept
  BY RouteIsKept
<1> QED BY <1>1, <1>2, <1>3, PTL DEF SFSpec
===============================================================================
