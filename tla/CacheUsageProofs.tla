--------------------------- MODULE CacheUsageProofs ---------------------------
(***************************************************************************)
(* For modules of any number of functions and cache lines of any size: the *)
(* analysis counts the lines of all functions it has analyzed so far, and  *)
(* a bad index is never counted.                                           *)
(***************************************************************************)
EXTENDS CacheUsage, WellFoundedInduction, FiniteSetTheorems, TLAPS

(* A set of natural numbers has a least element. *)
LEMMA SmallestElement ==
  ASSUME NEW S \in SUBSET Nat, S # {}
  PROVE  \E i \in S : \A k \in S : i <= k
<1> DEFINE R == OpToRel(<, Nat)
<1>1. IsWellFoundedOn(R, Nat)
  BY NatLessThanWellFounded
<1>2. \A i, k \in Nat : <<k, i>> \in R <=> k < i
  BY DEF OpToRel
<1> HIDE DEF R
<1>3. PICK i \in S : \A k \in S : ~(<<k, i>> \in R)
  BY <1>1, WFMin
<1>4. ASSUME NEW k \in S PROVE i <= k
  <2>1. i \in Nat /\ k \in Nat
    OBVIOUS
  <2>2. ~(k < i)
    BY <1>2, <1>3, <2>1
  <2> QED BY <2>1, <2>2
<1> QED BY <1>4

(* A set that contains 0, and with each number below n the next one,       *)
(* contains all numbers up to n.                                           *)
LEMMA CountingUp ==
  ASSUME NEW n \in Nat, NEW S, 0 \in S, \A k \in 1 .. n : k - 1 \in S => k \in S
  PROVE  0 .. n \subseteq S
<1> DEFINE bad == {k \in 0 .. n : k \notin S}
<1> SUFFICES ASSUME bad # {} PROVE FALSE
  OBVIOUS
<1>1. bad \in SUBSET Nat
  OBVIOUS
<1>2. PICK i \in bad : \A k \in bad : i <= k
  BY <1>1, SmallestElement
<1>3. i \in 1 .. n /\ i - 1 \in 0 .. n /\ ~(i <= i - 1)
  BY <1>2
<1>4. i - 1 \in S
  BY <1>2, <1>3
<1> QED BY <1>2, <1>3, <1>4

(* In V, the steps 1 .. n can be taken one after the other from first on. *)
CanStep(n, V, first, step) ==
  n \in Nat /\ first \in V /\ \A k \in 1 .. n : \A x \in V : step[k][x] \in V

Runs(n, V, first, step) ==
  {f \in [0 .. n -> V] : f[0] = first /\ \A k \in 1 .. n : f[k] = step[k][f[k - 1]]}

(* A function over 0 .. n can be defined by recursion. *)
LEMMA Recursion ==
  ASSUME NEW n, NEW V, NEW first, NEW step, CanStep(n, V, first, step)
  PROVE  Runs(n, V, first, step) # {}
<1> USE DEF CanStep
<1> DEFINE Goes(f, m) == f[0] = first /\ \A k \in 1 .. m : f[k] = step[k][f[k - 1]]
           S == {m \in 0 .. n : \E f \in [0 .. m -> V] : Goes(f, m)}
<1>1. 0 \in S
  <2> DEFINE f == [k \in 0 .. 0 |-> first]
  <2>1. f \in [0 .. 0 -> V] /\ Goes(f, 0) /\ 0 \in 0 .. n
    OBVIOUS
  <2> HIDE DEF f, Goes
  <2> QED BY <2>1
<1>2. ASSUME NEW m \in 1 .. n, m - 1 \in S PROVE m \in S
  <2>1. PICK f \in [0 .. m - 1 -> V] : Goes(f, m - 1)
    BY <1>2
  <2> DEFINE g == [k \in 0 .. m |-> IF k < m THEN f[k] ELSE step[m][f[m - 1]]]
  <2>2. g \in [0 .. m -> V]
    <3>1. m - 1 \in 0 .. m - 1 /\ \A k \in 0 .. m : k < m => k \in 0 .. m - 1
      OBVIOUS
    <3>2. step[m][f[m - 1]] \in V
      BY <3>1
    <3> QED BY <3>1, <3>2
  <2>3. Goes(g, m)
    <3>1. g[0] = first
      BY <2>1
    <3>2. ASSUME NEW k \in 1 .. m PROVE g[k] = step[k][g[k - 1]]
      <4>1. g[k - 1] = f[k - 1]
        OBVIOUS
      <4>2. CASE k = m
        BY <4>1, <4>2
      <4>3. CASE k # m
        BY <2>1, <4>1, <4>3
      <4> QED BY <4>2, <4>3
    <3> QED BY <3>1, <3>2
  <2> HIDE DEF g, Goes
  <2> QED BY <2>2, <2>3
<1> HIDE DEF S
<1>3. 0 .. n \subseteq S
  BY <1>1, <1>2, CountingUp
<1>4. n \in S
  BY <1>3
<1> QED BY <1>4 DEF S, Runs

(* The offset of an address is a natural number. *)
LEMMA TotalType ==
  ASSUME NEW n \in Nat, NEW offsets \in [1 .. n -> Nat]
  PROVE  Total(offsets) \in Nat
<1> DEFINE Sums(f) == f = [k \in 0 .. n |-> IF k = 0 THEN 0 ELSE f[k - 1] + offsets[k]]
           step == [k \in 1 .. n |-> [x \in Nat |-> x + offsets[k]]]
           sum == CHOOSE f : Sums(f)
<1>1. offsets \in Seq(Nat) /\ Len(offsets) = n
  OBVIOUS
<1>2. Total(offsets) = sum[n]
  BY <1>1 DEF Total
<1>3. \E f : Sums(f)
  <2>2. \A k \in 1 .. n : \A x \in Nat : step[k][x] = x + offsets[k] /\ step[k][x] \in Nat
    OBVIOUS
  <2> HIDE DEF step, sum
  <2>3. PICK f \in [0 .. n -> Nat] : f[0] = 0 /\ \A k \in 1 .. n : f[k] = step[k][f[k - 1]]
    <3> DEFINE V == Nat
               first == 0
    <3>1. CanStep(n, V, first, step)
      BY <2>2 DEF CanStep
    <3> HIDE DEF Sums, V, first
    <3>2. Runs(n, V, first, step) # {}
      BY <3>1, Recursion
    <3> QED BY <3>2 DEF V, first, Runs
  <2>4. ASSUME NEW k \in 1 .. n PROVE f[k] = f[k - 1] + offsets[k]
    <3>1. f[k - 1] \in Nat
      OBVIOUS
    <3> QED BY <2>2, <2>3, <3>1
  <2>5. Sums(f)
    BY <2>3, <2>4
  <2> QED BY <2>5
<1>4. Sums(sum)
  BY <1>3
<1> HIDE DEF sum
<1> DEFINE S == {k \in 0 .. n : sum[k] \in Nat}
<1>5. 0 \in S
  BY <1>4
<1>6. ASSUME NEW k \in 1 .. n, k - 1 \in S PROVE k \in S
  BY <1>4, <1>6
<1> HIDE DEF S
<1>7. 0 .. n \subseteq S
  BY <1>5, <1>6, CountingUp
<1>8. n \in S
  BY <1>7
<1> QED BY <1>2, <1>8 DEF S

LEMMA AppendRange ==
  ASSUME NEW W, NEW list \in Seq(W), NEW e
  PROVE  Range(Append(list, e)) = Range(list) \cup {e}
<1>1. /\ DOMAIN list = 1 .. Len(list)
      /\ DOMAIN Append(list, e) = 1 .. Len(list) + 1
      /\ \A k \in 1 .. Len(list) : Append(list, e)[k] = list[k]
      /\ Append(list, e)[Len(list) + 1] = e
      /\ Len(list) \in Nat
  OBVIOUS
<1> DEFINE new == Append(list, e)
           n == Len(list)
<1> HIDE DEF new, n
<1>2. \A x \in Range(new) : x \in Range(list) \cup {e}
  <2> SUFFICES ASSUME NEW k \in 1 .. n + 1 PROVE new[k] \in Range(list) \cup {e}
    BY <1>1 DEF Range, new, n
  <2>1. CASE k = n + 1
    BY <1>1, <2>1 DEF new, n
  <2>2. CASE k # n + 1
    <3>1. k \in 1 .. n
      BY <1>1, <2>2 DEF n
    <3> QED BY <1>1, <3>1 DEF Range, new, n
  <2> QED BY <2>1, <2>2
<1>3. ASSUME NEW x \in Range(list) PROVE x \in Range(new)
  <2>1. PICK k \in 1 .. n : x = list[k]
    BY <1>1 DEF Range, n
  <2>2. k \in DOMAIN new /\ new[k] = x
    BY <1>1, <2>1 DEF new, n
  <2> QED BY <2>2 DEF Range
<1>4. e \in Range(new)
  <2>1. n + 1 \in DOMAIN new /\ new[n + 1] = e
    BY <1>1 DEF new, n
  <2> QED BY <2>1 DEF Range
<1> QED BY <1>2, <1>3, <1>4 DEF new

(* The loop over the variables of a function adds those that are tracked,  *)
(* and no others.                                                          *)
LEMMA TrackedAdded ==
  ASSUME NEW list, IsSequence(list), NEW f, IsSequence(module[f].allocas)
  PROVE  /\ IsSequence(AddTracked(list, f))
         /\ Range(AddTracked(list, f)) = Range(list) \cup Pointers(f)
<1> DEFINE allocas == module[f].allocas
           n == Len(allocas)
           pair(k) == <<f, k>>
           some(k) == {pair(j) : j \in {i \in 1 .. k : IsTracked(allocas[i])}}
           W == Range(list) \cup {pair(j) : j \in 1 .. n}
           V == Seq(W)
           Adds(g) == g = [k \in 0 .. n |->
                             IF k = 0 THEN list
                             ELSE IF IsTracked(allocas[k]) THEN Append(g[k - 1], pair(k)) ELSE g[k - 1]]
           added == CHOOSE g : Adds(g)
           step == [k \in 1 .. n |->
                      [x \in V |-> IF IsTracked(allocas[k]) THEN Append(x, pair(k)) ELSE x]]
<1>1. AddTracked(list, f) = added[n]
  BY DEF AddTracked
<1>2. n \in Nat /\ DOMAIN allocas = 1 .. n
  BY DEF IsSequence
<1>3. list \in V
  <2>1. list \in Seq(Range(list)) /\ Range(list) \subseteq W
    BY DEF IsSequence
  <2> HIDE DEF W
  <2> QED BY <2>1
<1>4. \A k \in 1 .. n : pair(k) \in W
  OBVIOUS
<1>5. \A k \in 1 .. n : \A x \in V : Append(x, pair(k)) \in V
  <2> HIDE DEF W, pair, n
  <2> QED BY <1>4
<1>6. \A k \in 1 .. n : \A x \in V :
        step[k][x] = IF IsTracked(allocas[k]) THEN Append(x, pair(k)) ELSE x
  <2> HIDE DEF V, pair, n, allocas
  <2> QED OBVIOUS
<1> HIDE DEF step
<1>7. \A k \in 1 .. n : \A x \in V : step[k][x] \in V
  <2> HIDE DEF V, pair, n, allocas
  <2> QED BY <1>5, <1>6
<1> HIDE DEF V, added
<1>8. \E g : Adds(g)
  <2>1. CanStep(n, V, list, step)
    <3> HIDE DEF n
    <3> QED BY <1>2, <1>3, <1>7 DEF CanStep
  <2> HIDE DEF Adds
  <2>2. Runs(n, V, list, step) # {}
    BY <2>1, Recursion
  <2> HIDE DEF n, pair, allocas
  <2>3. PICK g \in [0 .. n -> V] : g[0] = list /\ \A k \in 1 .. n : g[k] = step[k][g[k - 1]]
    BY <2>2 DEF Runs
  <2>4. ASSUME NEW k \in 1 .. n
        PROVE g[k] = IF IsTracked(allocas[k]) THEN Append(g[k - 1], pair(k)) ELSE g[k - 1]
    <3>1. k - 1 \in 0 .. n
      BY <1>2
    <3>2. g[k - 1] \in V
      BY <3>1
    <3> QED BY <1>6, <2>3, <3>2
  <2>5. Adds(g)
    <3>1. g = [k \in 0 .. n |-> g[k]]
      OBVIOUS
    <3>2. ASSUME NEW k \in 0 .. n
          PROVE g[k] = IF k = 0 THEN list
                       ELSE IF IsTracked(allocas[k]) THEN Append(g[k - 1], pair(k)) ELSE g[k - 1]
      <4>1. CASE k = 0
        BY <2>3, <4>1
      <4>2. CASE k # 0
        <5>1. k \in 1 .. n
          BY <1>2, <4>2
        <5> QED BY <2>4, <4>2, <5>1
      <4> QED BY <4>1, <4>2
    <3> QED BY <3>1, <3>2 DEF Adds
  <2> QED BY <2>5
<1>9. Adds(added)
  <2> HIDE DEF Adds
  <2> QED BY <1>8 DEF added
<1> DEFINE Right(x, k) == x \in V /\ Range(x) = Range(list) \cup some(k)
           S == {k \in 0 .. n : Right(added[k], k)}
<1>10. 0 \in S
  <2>1. some(0) = {} /\ 0 \in 0 .. n
    BY <1>2
  <2>2. added[0] = list
    BY <1>2, <1>9
  <2> HIDE DEF some
  <2> QED BY <1>3, <2>1, <2>2
<1>11. ASSUME NEW k \in 1 .. n, k - 1 \in S PROVE k \in S
  <2>1. k \in 0 .. n /\ k - 1 \in 0 .. n /\ k # 0
    BY <1>2
  <2>2. added[k] = IF IsTracked(allocas[k]) THEN Append(added[k - 1], pair(k)) ELSE added[k - 1]
    <3> HIDE DEF n, pair, allocas
    <3> QED BY <1>9, <2>1
  <2>3. Right(added[k - 1], k - 1)
    BY <1>11
  <2>4. some(k) = some(k - 1) \cup (IF IsTracked(allocas[k]) THEN {pair(k)} ELSE {})
    <3>1. \A i : i \in 1 .. k <=> i \in 1 .. k - 1 \/ i = k
      BY <1>2
    <3> HIDE DEF pair, n, allocas
    <3> QED BY <3>1
  <2> HIDE DEF some, n, pair, allocas
  <2>5. CASE IsTracked(allocas[k])
    <3>1. Append(added[k - 1], pair(k)) \in V
      BY <1>5, <2>3
    <3>2. Range(Append(added[k - 1], pair(k))) = Range(added[k - 1]) \cup {pair(k)}
      BY <2>3, AppendRange DEF V
    <3> QED BY <2>1, <2>2, <2>3, <2>4, <2>5, <3>1, <3>2
  <2>6. CASE ~IsTracked(allocas[k])
    BY <2>1, <2>2, <2>3, <2>4, <2>6
  <2> QED BY <2>5, <2>6
<1> HIDE DEF S
<1>12. 0 .. n \subseteq S
  <2> HIDE DEF n
  <2> QED BY <1>2, <1>10, <1>11, CountingUp
<1>13. n \in S
  BY <1>2, <1>12
<1>14. Right(added[n], n)
  BY <1>13 DEF S
<1>15. some(n) = Pointers(f)
  BY <1>2 DEF Pointers, IsTracked
<1>16. IsSequence(added[n])
  <2> HIDE DEF n, some
  <2>1. added[n] \in Seq(W)
    BY <1>14 DEF V
  <2> QED BY <2>1 DEF IsSequence, Range
<1> QED BY <1>1, <1>14, <1>15, <1>16

-----------------------------------------------------------------------------
(* Offsets, addresses and lines. *)

LEMMA GEPIndex ==
  ASSUME NEW gep, IsGep(gep)
  PROVE  getGEPIndex(gep) \in 0 .. UnsignedSize - 1
<1>1. gep.idx \in Int /\ UnsignedSize \in Nat \ {0}
  BY CacheLineAssumption DEF IsGep
<1> QED BY <1>1 DEF getGEPIndex

LEMMA RelativeOffset ==
  ASSUME NEW gep, IsGep(gep), gep.constant, IsField(gep)
  PROVE  getByteOffsetRelative(gep) \in Nat
<1>1. getGEPIndex(gep) \in Nat
  BY GEPIndex, CacheLineAssumption
<1>2. \A i \in Nat : i % UnsignedSize \in Nat
  BY CacheLineAssumption
<1>3. CASE gep.type.kind = "struct"
  <2>1. gep.type.offsets[getGEPIndex(gep) + 1] \in Nat
    BY <1>1, <1>3 DEF IsGep, IsType, IsField
  <2> QED BY <1>2, <1>3, <2>1 DEF getByteOffsetRelative
<1>4. CASE gep.type.kind = "array"
  <2>1. gep.type.element \in Nat
    BY <1>4 DEF IsGep, IsType
  <2>2. \A i, j \in Nat : i * j \in Nat
    OBVIOUS
  <2> QED BY <1>1, <1>2, <1>4, <2>1, <2>2 DEF getByteOffsetRelative
<1>5. CASE gep.type.kind = "single"
  BY <1>2, <1>5 DEF getByteOffsetRelative
<1> QED BY <1>3, <1>4, <1>5 DEF IsGep, IsType

LEMMA AbsoluteOffset ==
  ASSUME NEW use, IsSequence(use), \A gep \in Range(use) : IsGep(gep), HasOffset(use)
  PROVE  getByteOffsetAbsolute(use) \in Nat
<1> DEFINE n == Len(use)
           offsets == [k \in DOMAIN use |-> getByteOffsetRelative(use[k])]
<1>1. n \in Nat /\ DOMAIN use = 1 .. n
  BY DEF IsSequence
<1>2. ASSUME NEW k \in DOMAIN use PROVE getByteOffsetRelative(use[k]) \in Nat
  <2>1. IsGep(use[k]) /\ use[k].constant /\ IsField(use[k])
    BY DEF Range, HasOffset, IsConstant
  <2> QED BY <2>1, RelativeOffset
<1>3. offsets \in [1 .. n -> Nat]
  BY <1>1, <1>2
<1> HIDE DEF n, offsets
<1>4. Total(offsets) \in Nat
  BY <1>1, <1>3, TotalType
<1>5. \A i \in Nat : i % UnsignedSize \in Nat
  BY CacheLineAssumption
<1> QED BY <1>4, <1>5 DEF getByteOffsetAbsolute, offsets

(* When an index steps to no other object and all numbers fit into an      *)
(* unsigned, the analysis computes the offset the machine does.            *)
LEMMA MeantOffset ==
  ASSUME NEW gep, IsGep(gep), IsField(gep), IsMeantGep(gep)
  PROVE  getByteOffsetRelative(gep) = Displacement(gep)
<1>1. gep.idx \in 0 .. UnsignedSize - 1 /\ Displacement(gep) \in 0 .. UnsignedSize - 1
  BY DEF IsMeantGep
<1>2. \A i \in 0 .. UnsignedSize - 1 : i % UnsignedSize = i
  BY CacheLineAssumption
<1>3. getGEPIndex(gep) = gep.idx
  BY <1>1, <1>2 DEF getGEPIndex
<1>4. 0 \in 0 .. UnsignedSize - 1
  BY CacheLineAssumption
<1>5. CASE gep.steps
  <2>1. gep.idx = 0 /\ gep.type.size \in Nat
    BY <1>5 DEF IsMeantGep, IsGep, IsType
  <2>2. \A i \in Nat : 0 * i = 0 /\ i * 0 = 0
    OBVIOUS
  <2>3. Displacement(gep) = 0
    BY <1>5, <2>1, <2>2 DEF Displacement
  <2>4. CASE gep.type.kind = "struct"
    <3>1. gep.type.offsets \in Seq(Nat) /\ 0 < Len(gep.type.offsets)
      BY <1>3, <2>1, <2>4 DEF IsGep, IsType, IsField
    <3>2. gep.type.offsets[1] = 0
      BY <2>4, <3>1 DEF IsGep, IsType
    <3> QED BY <1>2, <1>3, <1>4, <2>1, <2>3, <2>4, <3>2 DEF getByteOffsetRelative
  <2>5. CASE gep.type.kind = "array"
    <3>1. gep.type.element * 0 = 0
      BY <2>2, <2>5 DEF IsGep, IsType
    <3> QED BY <1>2, <1>3, <1>4, <2>1, <2>3, <2>5, <3>1 DEF getByteOffsetRelative
  <2>6. CASE gep.type.kind = "single"
    BY <1>2, <1>4, <2>3, <2>6 DEF getByteOffsetRelative
  <2> QED BY <2>4, <2>5, <2>6 DEF IsGep, IsType
<1>6. CASE ~gep.steps
  <2>1. gep.type.kind \in {"struct", "array"}
    BY <1>6 DEF IsMeantGep, IsGep, IsType
  <2>2. CASE gep.type.kind = "struct"
    BY <1>1, <1>2, <1>3, <1>6, <2>2 DEF getByteOffsetRelative, Displacement
  <2>3. CASE gep.type.kind = "array"
    BY <1>1, <1>2, <1>3, <1>6, <2>3 DEF getByteOffsetRelative, Displacement
  <2> QED BY <2>1, <2>2, <2>3
<1> QED BY <1>5, <1>6

(* When no address ends early, and the sum fits as well, it is the address *)
(* of the machine.                                                         *)
LEMMA MeantAddress ==
  ASSUME NEW use, IsSequence(use), \A gep \in Range(use) : IsGep(gep), HasOffset(use),
         \A k \in DOMAIN use : IsMeantGep(use[k]),
         Address(use) < UnsignedSize
  PROVE  Address(use) = getByteOffsetAbsolute(use)
<1> DEFINE n == Len(use)
           offsets == [k \in 1 .. n |-> Displacement(use[k])]
<1>1. n \in Nat /\ DOMAIN use = 1 .. n
  BY DEF IsSequence
<1>2. {k \in DOMAIN use : ~use[k].continues} = {}
  BY DEF IsMeantGep
<1>3. ASSUME NEW k \in DOMAIN use
      PROVE  Displacement(use[k]) \in Nat /\ getByteOffsetRelative(use[k]) = Displacement(use[k])
  <2>1. IsGep(use[k]) /\ IsField(use[k]) /\ IsMeantGep(use[k])
    BY DEF Range, HasOffset
  <2>2. Displacement(use[k]) \in Nat
    BY <2>1, CacheLineAssumption DEF IsMeantGep
  <2> QED BY <2>1, <2>2, MeantOffset
<1>4. offsets = [k \in DOMAIN use |-> getByteOffsetRelative(use[k])]
  BY <1>1, <1>3
<1>5. Address(use) = Total(offsets)
  BY <1>2 DEF Address
<1>6. Total(offsets) \in Nat
  <2>1. offsets \in [1 .. n -> Nat]
    BY <1>1, <1>3
  <2> HIDE DEF n, offsets
  <2> QED BY <1>1, <2>1, TotalType
<1>7. \A i \in Nat : i < UnsignedSize => i % UnsignedSize = i
  BY CacheLineAssumption
<1> HIDE DEF offsets
<1> QED BY <1>4, <1>5, <1>6, <1>7 DEF getByteOffsetAbsolute

(* The uses of a tracked variable are those of a variable of a function. *)
LEMMA TrackedVariable ==
  ASSUME module \in Modules, NEW f \in DOMAIN module, NEW v \in Pointers(f)
  PROVE  /\ v[1] = f /\ v[2] \in DOMAIN module[f].allocas
         /\ module[f].allocas[v[2]].compound
         /\ IsSequence(module[f].allocas[v[2]].uses)
         /\ IndexedUses(v) \subseteq UsesOf(f)
         /\ \A use \in IndexedUses(v) :
              IsSequence(use) /\ \A gep \in Range(use) : IsGep(gep)
<1>1. PICK k \in DOMAIN module[f].allocas : v = <<f, k>> /\ module[f].allocas[k].compound
  BY DEF Pointers
<1>2. v[1] = f /\ v[2] = k
  BY <1>1
<1> DEFINE alloca == module[f].allocas[k]
<1>3. module[f] \in Range(module)
  BY DEF Range
<1>4. IsFunction(module[f])
  BY <1>3, ModuleAssumption
<1>5. alloca \in Range(module[f].allocas)
  BY <1>1 DEF Range
<1>6. /\ IsSequence(alloca.uses)
      /\ \A use \in Range(alloca.uses) : IsSequence(use) /\ \A gep \in Range(use) : IsGep(gep)
  BY <1>4, <1>5 DEF IsFunction
<1>7. IndexedUses(v) \subseteq Range(alloca.uses)
  BY <1>2 DEF IndexedUses
<1>8. Range(alloca.uses) \subseteq UsesOf(f)
  BY <1>1 DEF UsesOf
<1> QED BY <1>1, <1>2, <1>6, <1>7, <1>8

(* A variable accesses finitely many lines, each with a number of its own. *)
LEMMA LinesOfVariable ==
  ASSUME module \in Modules, NEW f \in DOMAIN module, NEW v \in Pointers(f),
         \A use \in IndexedUses(v) : HasOffset(use)
  PROVE  IsFiniteSet(CacheLines(v)) /\ CacheLines(v) \subseteq {v} \X Nat
<1> DEFINE uses == module[f].allocas[v[2]].uses
           line(use) == <<v, getByteOffsetAbsolute(use) \div CacheLineSize>>
           K == {k \in DOMAIN uses : uses[k] # <<>>}
           at == [k \in K |-> line(uses[k])]
<1>1. /\ IsSequence(uses)
      /\ \A use \in IndexedUses(v) : IsSequence(use) /\ \A gep \in Range(use) : IsGep(gep)
  BY TrackedVariable
<1>2. IndexedUses(v) = {uses[k] : k \in K}
  BY TrackedVariable DEF IndexedUses, Range
<1>3. IsFiniteSet(K)
  <2> DEFINE n == Len(uses)
  <2>1. DOMAIN uses = 1 .. n /\ n \in Nat
    BY <1>1 DEF IsSequence
  <2>2. K \subseteq 1 .. n
    BY <2>1
  <2> HIDE DEF K, uses, n
  <2>3. IsFiniteSet(1 .. n)
    BY <2>1, 1 \in Int, n \in Int, FS_Interval
  <2> QED BY <2>2, <2>3, FS_Subset
<1>4. at \in Surjection(K, CacheLines(v))
  <2>1. CacheLines(v) = {line(use) : use \in IndexedUses(v)}
    BY DEF CacheLines
  <2> HIDE DEF line, uses, K
  <2> QED BY <1>2, <2>1 DEF Surjection
<1>5. IsFiniteSet(CacheLines(v))
  <2> HIDE DEF at, K
  <2> QED BY <1>3, <1>4, FS_Surjection
<1>6. ASSUME NEW use \in IndexedUses(v) PROVE line(use) \in {v} \X Nat
  <2>1. getByteOffsetAbsolute(use) \in Nat
    BY <1>1, AbsoluteOffset
  <2>2. \A i \in Nat : i \div CacheLineSize \in Nat
    BY CacheLineAssumption
  <2> QED BY <2>1, <2>2
<1> QED BY <1>5, <1>6 DEF CacheLines

-----------------------------------------------------------------------------
(* The inductive invariant: what is tracked are the variables of the       *)
(* functions analyzed so far and of the one at hand, and the lines are     *)
(* those of the variables examined, each of them with good indices only.   *)
(* Between two functions all variables have been examined.                 *)

Good(v) == \A use \in IndexedUses(v) : HasOffset(use)

Examined == {PtrAllocas[k] : k \in 1 .. examined}

AtHand == {f \in {current} : stage \in {"uses", "aborted"}}

ControlInv ==
  /\ module \in Modules
  /\ visited \in 0 .. Len(module)
  /\ stage \in {"start", "functions", "uses", "aborted"}
  /\ stage = "start" => visited = 0
  /\ stage # "start" => attributes = [f \in DOMAIN module |-> Range(module[f].annotations)]
  /\ \A f \in AtHand : f \in DOMAIN module /\ fn_mark \in Range(module[f].annotations)

ListInv ==
  /\ IsSequence(PtrAllocas)
  /\ Range(PtrAllocas) = UNION {Pointers(f) : f \in Analyzed \cup AtHand}
  /\ examined \in 0 .. Len(PtrAllocas)
  /\ stage \in {"start", "functions"} => examined = Len(PtrAllocas)

LinesInv ==
  /\ MemoryCacheLineId = UNION {CacheLines(v) : v \in Examined}
  /\ IsFiniteSet(MemoryCacheLineId)
  /\ \A v \in Examined : Good(v)
  /\ stage \in {"start", "functions"} => NumOfCacheLines = Cardinality(MemoryCacheLineId)
  /\ NumOfCacheLines \in Nat

CUInv == ControlInv /\ ListInv /\ LinesInv /\ FailsOnBadIndex

(* An address without an offset has a bad index. *)
LEMMA GoodUse ==
  ASSUME NEW use, IsSequence(use), \A gep \in Range(use) : IsGep(gep)
  PROVE  HasOffset(use) <=> ~\E k \in DOMAIN use : IsBadIndex(use[k])
<1>1. ASSUME NEW k \in DOMAIN use
      PROVE  IsBadIndex(use[k]) <=> ~use[k].constant \/ ~IsField(use[k])
  <2> DEFINE gep == use[k]
  <2>1. IsGep(gep)
    BY DEF Range
  <2> HIDE DEF gep
  <2>2. getGEPIndex(gep) \in Nat
    BY <2>1, GEPIndex, CacheLineAssumption
  <2>3. CASE gep.type.kind = "struct"
    <3>1. gep.type.offsets \in Seq(Nat)
      BY <2>1, <2>3 DEF IsGep, IsType
    <3>2. getGEPIndex(gep) + 1 \in DOMAIN gep.type.offsets <=> getGEPIndex(gep) < Len(gep.type.offsets)
      BY <2>2, <3>1
    <3> QED BY <2>3, <3>2 DEF IsBadIndex, IsField, gep
  <2>4. CASE gep.type.kind # "struct"
    BY <2>4 DEF IsBadIndex, IsField, gep
  <2> QED BY <2>3, <2>4
<1> QED BY <1>1 DEF HasOffset, IsConstant

LEMMA ModuleDomain ==
  ASSUME module \in Modules
  PROVE  /\ DOMAIN module = 1 .. Len(module) /\ Len(module) \in Nat
         /\ \A f \in DOMAIN module : IsSequence(module[f].allocas)
<1>1. IsSequence(module) /\ \A f \in Range(module) : IsFunction(f)
  BY ModuleAssumption
<1>2. ASSUME NEW f \in DOMAIN module PROVE IsSequence(module[f].allocas)
  BY <1>1 DEF Range, IsFunction
<1> QED BY <1>1, <1>2 DEF IsSequence

(* A variable that is tracked is one of a function of the module. *)
LEMMA TrackedOfModule ==
  ASSUME ControlInv, ListInv, NEW v \in Range(PtrAllocas)
  PROVE  \E f \in (Analyzed \cup AtHand) \cap DOMAIN module : v \in Pointers(f)
<1>1. PICK f \in Analyzed \cup AtHand : v \in Pointers(f)
  BY DEF ListInv
<1>2. f \in DOMAIN module
  BY ModuleDomain DEF ControlInv, Analyzed
<1> QED BY <1>1, <1>2

LEMMA CUInitially == CUInit => CUInv
<1> SUFFICES ASSUME CUInit PROVE CUInv
  OBVIOUS
<1> USE DEF CUInit
<1>1. Analyzed = {} /\ AtHand = {}
  BY DEF Analyzed, AtHand
<1>2. ControlInv
  BY <1>1, ModuleDomain DEF ControlInv
<1>3. ListInv
  BY <1>1 DEF ListInv, IsSequence, Range
<1>4. LinesInv
  <2>1. Examined = {}
    BY DEF Examined
  <2> QED BY <2>1, FS_EmptySet DEF LinesInv
<1>5. FailsOnBadIndex
  BY <1>1 DEF FailsOnBadIndex
<1> QED BY <1>2, <1>3, <1>4, <1>5 DEF CUInv

(* Whether a function is skipped or analyzed, it is counted as analyzed if *)
(* and only if it is annotated.                                            *)
LEMMA NextFunction ==
  ASSUME ControlInv, visited' = current, UNCHANGED module
  PROVE  Analyzed' = Analyzed \cup {f \in {current} : fn_mark \in Range(module[f].annotations)}
<1>1. visited \in Nat /\ current = visited + 1
  BY ModuleDomain DEF ControlInv, current
<1>2. \A f : f \in 1 .. current <=> f \in 1 .. visited \/ f = current
  BY <1>1
<1> QED BY <1>2 DEF Analyzed

LEMMA AnnotationsKeepInv ==
  ASSUME CUInv, setAnnotationInFunctionObject
  PROVE  CUInv'
<1> USE DEF setAnnotationInFunctionObject
<1>1. Analyzed' = Analyzed /\ AtHand' = AtHand /\ Examined' = Examined /\ AtHand = {}
  BY DEF Analyzed, AtHand, Examined
<1>2. ControlInv'
  BY <1>1 DEF CUInv, ControlInv
<1>3. ListInv'
  <2>1. \A f : Pointers(f)' = Pointers(f)
    BY DEF Pointers
  <2> QED BY <1>1, <2>1 DEF CUInv, ListInv
<1>4. LinesInv'
  <2>1. \A v : IndexedUses(v)' = IndexedUses(v)
    BY DEF IndexedUses
  <2>2. \A v : CacheLines(v)' = CacheLines(v) /\ Good(v)' = Good(v)
    BY <2>1 DEF CacheLines, Good
  <2> QED BY <1>1, <2>2 DEF CUInv, LinesInv
<1>5. FailsOnBadIndex'
  <2>1. \A f : HasBadIndex(f)' = HasBadIndex(f)
    BY DEF HasBadIndex, Pointers, IndexedUses
  <2> QED BY <1>1, <2>1 DEF CUInv, FailsOnBadIndex
<1> QED BY <1>2, <1>3, <1>4, <1>5 DEF CUInv

LEMMA SkipKeepsInv ==
  ASSUME CUInv, skipFunction
  PROVE  CUInv'
<1> USE DEF skipFunction
<1>1. fn_mark \notin Range(module[current].annotations)
  BY DEF CUInv, ControlInv
<1>2. Analyzed' = Analyzed /\ Examined' = Examined /\ AtHand = {} /\ AtHand' = {}
  BY <1>1, NextFunction DEF CUInv, AtHand, Examined
<1>3. ControlInv'
  BY <1>2, ModuleDomain DEF CUInv, ControlInv, current
<1>4. ListInv'
  <2>1. \A f : Pointers(f)' = Pointers(f)
    BY DEF Pointers
  <2> QED BY <1>2, <2>1 DEF CUInv, ListInv
<1>5. LinesInv'
  <2>1. \A v : IndexedUses(v)' = IndexedUses(v)
    BY DEF IndexedUses
  <2>2. \A v : CacheLines(v)' = CacheLines(v) /\ Good(v)' = Good(v)
    BY <2>1 DEF CacheLines, Good
  <2> QED BY <1>2, <2>2 DEF CUInv, LinesInv
<1>6. FailsOnBadIndex'
  <2>1. \A f : HasBadIndex(f)' = HasBadIndex(f)
    BY DEF HasBadIndex, Pointers, IndexedUses
  <2> QED BY <1>2, <2>1 DEF CUInv, FailsOnBadIndex
<1> QED BY <1>3, <1>4, <1>5, <1>6 DEF CUInv

LEMMA CollectKeepsInv ==
  ASSUME CUInv, collectAllocas
  PROVE  CUInv'
<1> USE DEF collectAllocas
<1>1. current \in DOMAIN module /\ fn_mark \in Range(module[current].annotations)
  BY DEF CUInv, ControlInv
<1>2. Analyzed' = Analyzed /\ Examined' = {} /\ AtHand = {} /\ AtHand' = {current}
  BY DEF Analyzed, Examined, AtHand, current
<1>3. ControlInv'
  BY <1>1, <1>2 DEF CUInv, ControlInv, current
<1>4. ListInv'
  <2>1. \A f : Pointers(f)' = Pointers(f)
    BY DEF Pointers
  <2>2. IsSequence(module[current].allocas) /\ IsSequence(PtrAllocas)
    BY <1>1, ModuleDomain DEF CUInv, ControlInv, ListInv
  <2>3. /\ IsSequence(AddTracked(PtrAllocas, current))
        /\ Range(AddTracked(PtrAllocas, current)) = Range(PtrAllocas) \cup Pointers(current)
    BY <2>2, TrackedAdded
  <2>4. Range(PtrAllocas)' = UNION {Pointers(f) : f \in Analyzed \cup {current}}
    BY <1>2, <2>3 DEF CUInv, ListInv
  <2>5. Len(PtrAllocas') \in Nat
    BY <2>3 DEF IsSequence
  <2> QED BY <1>2, <2>1, <2>3, <2>4, <2>5 DEF ListInv
<1>5. LinesInv'
  BY <1>2, FS_EmptySet DEF CUInv, LinesInv
<1>6. FailsOnBadIndex'
  <2>1. \A f : HasBadIndex(f)' = HasBadIndex(f)
    BY DEF HasBadIndex, Pointers, IndexedUses
  <2> QED BY <1>2, <2>1 DEF CUInv, FailsOnBadIndex
<1> QED BY <1>3, <1>4, <1>5, <1>6 DEF CUInv

LEMMA ExamineKeepsInv ==
  ASSUME CUInv, examineUses
  PROVE  CUInv'
<1> DEFINE v == PtrAllocas[examined + 1]
<1> USE DEF examineUses
<1>1. Analyzed' = Analyzed /\ AtHand = {current} /\ AtHand' = {current}
  BY DEF Analyzed, AtHand, current
<1>2. /\ \A f : Pointers(f)' = Pointers(f)
      /\ \A w : IndexedUses(w)' = IndexedUses(w)
      /\ \A f : HasBadIndex(f)' = HasBadIndex(f)
  BY DEF Pointers, IndexedUses, HasBadIndex
<1>3. \A w : CacheLines(w)' = CacheLines(w) /\ Good(w)' = Good(w)
  BY <1>2 DEF CacheLines, Good
<1>4. /\ examined \in Nat /\ examined < Len(PtrAllocas) /\ Len(PtrAllocas) \in Nat
      /\ DOMAIN PtrAllocas = 1 .. Len(PtrAllocas)
  BY DEF CUInv, ListInv, IsSequence
<1>5. v \in Range(PtrAllocas)
  BY <1>4 DEF Range
<1>6. PICK f \in (Analyzed \cup {current}) \cap DOMAIN module : v \in Pointers(f)
  BY <1>1, <1>5, TrackedOfModule DEF CUInv
<1>7. ControlInv'
  <2>1. stage' \in {"uses", "aborted"}
    OBVIOUS
  <2> QED BY <1>1, <2>1 DEF CUInv, ControlInv
<1>8. ListInv'
  <2>1. examined' \in 0 .. Len(PtrAllocas)
    BY <1>4
  <2> QED BY <1>1, <1>2, <2>1 DEF CUInv, ListInv
<1>9. CASE Good(v)
  <2>1. /\ MemoryCacheLineId' = MemoryCacheLineId \cup CacheLines(v)
        /\ examined' = examined + 1 /\ stage' = stage
    BY <1>9 DEF Good
  <2>2. Examined' = Examined \cup {v}
    <3>1. \A k : k \in 1 .. examined' <=> k \in 1 .. examined \/ k = examined + 1
      BY <1>4, <2>1
    <3>2. PtrAllocas' = PtrAllocas
      OBVIOUS
    <3> QED BY <3>1, <3>2 DEF Examined
  <2>3. IsFiniteSet(CacheLines(v))
    BY <1>6, <1>9, LinesOfVariable DEF CUInv, ControlInv, Good
  <2>4. IsFiniteSet(MemoryCacheLineId \cup CacheLines(v))
    BY <2>3, FS_Union DEF CUInv, LinesInv
  <2>5. LinesInv'
    BY <1>3, <1>9, <2>1, <2>2, <2>4 DEF CUInv, LinesInv
  <2>6. FailsOnBadIndex'
    BY <1>1, <1>2, <2>1 DEF CUInv, FailsOnBadIndex
  <2> QED BY <1>7, <1>8, <2>5, <2>6 DEF CUInv
<1>10. CASE ~Good(v)
  <2>1. stage' = "aborted" /\ MemoryCacheLineId' = MemoryCacheLineId /\ examined' = examined
    BY <1>10 DEF Good
  <2>2. Examined' = Examined
    BY <2>1 DEF Examined
  <2>3. LinesInv'
    BY <1>3, <2>1, <2>2 DEF CUInv, LinesInv
  <2>4. HasBadIndex(f)
    BY <1>6, <1>10, GoodUse, TrackedVariable DEF HasBadIndex, Good, CUInv, ControlInv
  <2>5. f = current
    BY <2>4 DEF CUInv, FailsOnBadIndex
  <2>6. current' = current
    BY DEF current
  <2>7. FailsOnBadIndex'
    BY <1>1, <1>2, <2>1, <2>4, <2>5, <2>6 DEF CUInv, FailsOnBadIndex
  <2> QED BY <1>7, <1>8, <2>3, <2>7 DEF CUInv
<1> QED BY <1>9, <1>10

LEMMA CountKeepsInv ==
  ASSUME CUInv, countLines
  PROVE  CUInv'
<1> USE DEF countLines
<1>1. AtHand = {current} /\ AtHand' = {} /\ Examined' = Examined
  BY DEF AtHand, Examined
<1>2. current \in DOMAIN module /\ fn_mark \in Range(module[current].annotations)
  BY <1>1 DEF CUInv, ControlInv
<1>3. Analyzed' = Analyzed \cup {current}
  BY <1>2, NextFunction DEF CUInv
<1>4. /\ \A f : Pointers(f)' = Pointers(f)
      /\ \A w : IndexedUses(w)' = IndexedUses(w)
      /\ \A f : HasBadIndex(f)' = HasBadIndex(f)
  BY DEF Pointers, IndexedUses, HasBadIndex
<1>5. \A w : CacheLines(w)' = CacheLines(w) /\ Good(w)' = Good(w)
  BY <1>4 DEF CacheLines, Good
<1>6. ControlInv'
  <2>1. current \in 0 .. Len(module)
    BY <1>2, ModuleDomain DEF CUInv, ControlInv
  <2> QED BY <1>1, <2>1 DEF CUInv, ControlInv
<1>7. ListInv'
  BY <1>1, <1>3, <1>4 DEF CUInv, ListInv
<1>8. LinesInv'
  BY <1>1, <1>5, FS_CardinalityType DEF CUInv, LinesInv
<1>9. FailsOnBadIndex'
  <2>1. Examined = Range(PtrAllocas)
    BY DEF CUInv, ListInv, IsSequence, Examined, Range
  <2>2. \A w \in Pointers(current) : Good(w)
    BY <1>1, <2>1 DEF CUInv, ListInv, LinesInv
  <2>3. ~HasBadIndex(current)
    BY <1>2, <2>2, GoodUse, TrackedVariable DEF HasBadIndex, Good, CUInv, ControlInv
  <2> QED BY <1>3, <1>4, <2>3 DEF CUInv, FailsOnBadIndex
<1> QED BY <1>6, <1>7, <1>8, <1>9 DEF CUInv

LEMMA CUInvariant == CUSpec => []CUInv
<1>1. CUInit => CUInv
  BY CUInitially
<1>2. CUInv /\ [CUNext]_cuVars => CUInv'
  <2> SUFFICES ASSUME CUInv, [CUNext]_cuVars PROVE CUInv'
    OBVIOUS
  <2>1. CASE setAnnotationInFunctionObject
    BY <2>1, AnnotationsKeepInv
  <2>2. CASE skipFunction
    BY <2>2, SkipKeepsInv
  <2>3. CASE collectAllocas
    BY <2>3, CollectKeepsInv
  <2>4. CASE examineUses
    BY <2>4, ExamineKeepsInv
  <2>5. CASE countLines
    BY <2>5, CountKeepsInv
  <2>6. CASE UNCHANGED cuVars
    <3> USE <2>6 DEF cuVars
    <3>1. Analyzed' = Analyzed /\ AtHand' = AtHand /\ Examined' = Examined /\ current' = current
      BY DEF Analyzed, AtHand, Examined, current
    <3>2. /\ \A f : Pointers(f)' = Pointers(f)
          /\ \A v : IndexedUses(v)' = IndexedUses(v)
          /\ \A f : HasBadIndex(f)' = HasBadIndex(f)
      BY DEF Pointers, IndexedUses, HasBadIndex
    <3>3. \A v : CacheLines(v)' = CacheLines(v) /\ Good(v)' = Good(v)
      BY <3>2 DEF CacheLines, Good
    <3>4. ControlInv' /\ ListInv'
      BY <3>1, <3>2 DEF CUInv, ControlInv, ListInv
    <3>5. LinesInv' /\ FailsOnBadIndex'
      BY <3>1, <3>2, <3>3 DEF CUInv, LinesInv, FailsOnBadIndex
    <3> QED BY <3>4, <3>5 DEF CUInv
  <2> QED BY <2>1, <2>2, <2>3, <2>4, <2>5, <2>6 DEF CUNext
<1> QED BY <1>1, <1>2, PTL DEF CUSpec

(* No state of the analysis is out of place: each function is visited      *)
(* once, only pointers to structs and arrays are tracked, and a line       *)
(* belongs to a variable that is tracked and has a natural number.         *)
THEOREM CacheUsageTypes == CUSpec => []CUTypeOK
<1>1. CUInv => CUTypeOK
  <2> SUFFICES ASSUME CUInv PROVE CUTypeOK
    OBVIOUS
  <2>1. ASSUME NEW k \in DOMAIN PtrAllocas
        PROVE /\ PtrAllocas[k][1] \in 1 .. visited + 1
              /\ module[PtrAllocas[k][1]].allocas[PtrAllocas[k][2]].compound
    <3> DEFINE v == PtrAllocas[k]
    <3>1. v \in Range(PtrAllocas)
      BY DEF Range
    <3> HIDE DEF v
    <3>2. PICK f \in (Analyzed \cup AtHand) \cap DOMAIN module : v \in Pointers(f)
      BY <3>1, TrackedOfModule DEF CUInv
    <3>3. v[1] = f /\ module[f].allocas[v[2]].compound
      BY <3>2, TrackedVariable DEF CUInv, ControlInv
    <3>4. f \in 1 .. visited + 1
      BY <3>2, ModuleDomain DEF CUInv, ControlInv, Analyzed, AtHand, current
    <3> QED BY <3>3, <3>4 DEF v
  <2>2. MemoryCacheLineId \subseteq Range(PtrAllocas) \X Nat
    <3> SUFFICES ASSUME NEW v \in Examined PROVE CacheLines(v) \subseteq Range(PtrAllocas) \X Nat
      BY DEF CUInv, LinesInv
    <3>1. v \in Range(PtrAllocas) /\ Good(v)
      BY DEF CUInv, ListInv, LinesInv, IsSequence, Examined, Range
    <3>2. PICK f \in (Analyzed \cup AtHand) \cap DOMAIN module : v \in Pointers(f)
      BY <3>1, TrackedOfModule DEF CUInv
    <3>3. CacheLines(v) \subseteq {v} \X Nat
      BY <3>1, <3>2, LinesOfVariable DEF CUInv, ControlInv, Good
    <3> QED BY <3>1, <3>3
  <2> QED BY <2>1, <2>2 DEF CUInv, ControlInv, ListInv, LinesInv, CUTypeOK
<1> QED BY <1>1, CUInvariant, PTL

(* A variable index and a step over structs to no field stop the analysis  *)
(* of the function that has them, and nothing else does; no such index is  *)
(* ever counted.                                                           *)
THEOREM BadIndexFails == CUSpec => []FailsOnBadIndex
<1>1. CUInv => FailsOnBadIndex
  BY DEF CUInv
<1> QED BY <1>1, CUInvariant, PTL

(* After each function, the count is the number of lines that all          *)
(* functions analyzed so far access through each of their pointers: the    *)
(* list of variables is never cleared, and the lines of those of earlier   *)
(* functions are computed again.                                           *)
THEOREM LinesCounted == CUSpec => []CountsAllSoFar
<1>1. CUInv => CountsAllSoFar
  <2> SUFFICES ASSUME CUInv, stage = "functions", \A f \in Analyzed : IsMeant(f)
               PROVE  NumOfCacheLines = Cardinality(UNION {AccessedLines(f) : f \in Analyzed})
    BY DEF CountsAllSoFar
  <2> DEFINE meant(v) == {<<v, Address(use) \div CacheLineSize>> : use \in IndexedUses(v)}
  <2>1. AtHand = {}
    BY DEF AtHand
  <2>2. Examined = UNION {Pointers(f) : f \in Analyzed}
    <3>1. Examined = Range(PtrAllocas)
      BY DEF CUInv, ListInv, IsSequence, Examined, Range
    <3> QED BY <2>1, <3>1 DEF CUInv, ListInv
  <2>3. ASSUME NEW f \in Analyzed, NEW v \in Pointers(f)
        PROVE  CacheLines(v) = meant(v)
    <3>1. f \in DOMAIN module /\ IsMeant(f)
      BY ModuleDomain DEF CUInv, ControlInv, Analyzed
    <3>2. ASSUME NEW use \in IndexedUses(v) PROVE Address(use) = getByteOffsetAbsolute(use)
      <4>1. /\ IsSequence(use) /\ use \in UsesOf(f)
            /\ \A gep \in Range(use) : IsGep(gep)
        BY <3>1, TrackedVariable DEF CUInv, ControlInv
      <4>2. (\A k \in DOMAIN use : IsMeantGep(use[k])) /\ Address(use) < UnsignedSize
        BY <3>1, <4>1 DEF IsMeant
      <4>3. HasOffset(use)
        BY <2>2 DEF CUInv, LinesInv, Good
      <4> QED BY <4>1, <4>2, <4>3, MeantAddress
    <3> QED BY <3>2 DEF CacheLines
  <2>4. \A f : AccessedLines(f) = UNION {meant(v) : v \in Pointers(f)}
    BY DEF AccessedLines
  <2> HIDE DEF meant
  <2>5. MemoryCacheLineId = UNION {AccessedLines(f) : f \in Analyzed}
    <3>1. MemoryCacheLineId = UNION {CacheLines(v) : v \in Examined}
      BY DEF CUInv, LinesInv
    <3> QED BY <2>2, <2>3, <2>4, <3>1
  <2> QED BY <2>5 DEF CUInv, LinesInv
<1> QED BY <1>1, CUInvariant, PTL
=============================================================================
