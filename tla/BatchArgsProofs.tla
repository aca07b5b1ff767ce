--------------------------- MODULE BatchArgsProofs ---------------------------
(***************************************************************************)
(* For parameter lists of any length and variables with any uses: when the *)
(* rewriting is through, each use has its element, and the loop over the   *)
(* uses fails on nothing but an instruction that uses a variable twice.    *)
(***************************************************************************)
EXTENDS BatchArgs, FiniteSetTheorems, WellFoundedInduction, TLAPS

(* A set of natural numbers has a least element. *)
LEMMA SmallestElement ==
  ASSUME NEW S \in SUBSET Nat, S # {}
  PROVE  \E i \in S : \A k \in S : i <= k
<1> DEFINE R == OpToRel(<, Nat)
<1>1. IsWellFoundedOn(R, Nat)
  BY NatLessThanWellFounded
<1>2. \A i, k \in Nat : <<k, i>> \in R <=> k < i
  BY DEF OpToRel
<1> HIDE DEF R
<1>3. PICK i \in S : \A k \in S : ~(<<k, i>> \in R)
  BY <1>1, WFMin
<1>4. ASSUME NEW k \in S PROVE i <= k
  <2>1. i \in Nat /\ k \in Nat
    OBVIOUS
  <2>2. ~(k < i)
    BY <1>2, <1>3, <2>1
  <2> QED BY <2>1, <2>2
<1> QED BY <1>4

UsesOf(i) == params[i].uses
SameUser(i, j, k) == UsesOf(i)[j].user = UsesOf(i)[k].user

(* What a use that was rewritten has. *)
IsRewritten(i, k) ==
  /\ access[i][k] # "old"
  /\ ~params[i].isDouble \/ UsesOf(i)[k].next = "index" => access[i][k] = "own"
  /\ access[i][k] = "astray" <=> IsFollowedBy(i, k, "foreign")
  /\ ~IsFollowedBy(i, k, "field")

(* The prototype tells the same about a parameter as the source. *)
PrototypeOK ==
  stage # "start" => \A i \in DOMAIN params :
    /\ BatchFuncArgList[i].IsBatch <=> i \in detectBatchParameters
    /\ BatchFuncArgList[i].IsDoublePtr <=> i \in detectBatchParameters /\ params[i].isDouble

(* The parameters before the one at hand are done with. *)
FinishedOK ==
  \A i \in detectBatchParameters : i < arg =>
    /\ UsersUseOnce(i)
    /\ \A k \in DOMAIN UsesOf(i) : IsRewritten(i, k)

(* Of the parameter at hand, all uses of one user are left or none.  There *)
(* are at most as many uses left as are counted, and fewer only if a user  *)
(* had more than one.                                                      *)
CountOK ==
  stage = "rewriting" =>
    /\ arg \in detectBatchParameters
    /\ \A k \in DOMAIN UsesOf(arg) \ pending : IsRewritten(arg, k)
    /\ \A j \in pending, k \in DOMAIN UsesOf(arg) \ pending : ~SameUser(arg, j, k)
    /\ Cardinality(pending) <= NumUses
    /\ UsersUseOnce(arg) => NumUses = Cardinality(pending)
    /\ NumUses = Cardinality(pending) =>
         \A j \in DOMAIN UsesOf(arg) \ pending : \A k \in DOMAIN UsesOf(arg) :
           SameUser(arg, j, k) => j = k

FailureOK ==
  /\ stage = "crashed" => \E i \in detectBatchParameters : ~UsersUseOnce(i)
  /\ stage = "aborted" =>
       \E i \in detectBatchParameters : \E k \in DOMAIN UsesOf(i) : IsFollowedBy(i, k, "field")
  /\ stage = "done" => arg > Len(params)

BAInv ==
  /\ BATypeOK
  /\ PrototypeOK
  /\ FinishedOK
  /\ CountOK
  /\ FailureOK

-----------------------------------------------------------------------------

(* What the signatures are. *)
LEMMA ParamsAreParameters ==
  ASSUME params \in Signatures
  PROVE  /\ Len(params) \in Nat
         /\ DOMAIN params = 1 .. Len(params)
         /\ \A i \in DOMAIN params :
              /\ params[i].annotated \in BOOLEAN
              /\ params[i].direct \in BOOLEAN
              /\ params[i].isDouble \in BOOLEAN
              /\ params[i].uses \in Seq(Uses)
              /\ Len(params[i].uses) \in Nat
              /\ DOMAIN params[i].uses = 1 .. Len(params[i].uses)
              /\ \A j, k \in DOMAIN params[i].uses :
                   params[i].uses[j].user = params[i].uses[k].user => params[i].uses[j] = params[i].uses[k]
<1>1. params \in Seq(Parameter)
  BY SignatureAssumption
<1>2. Len(params) \in Nat /\ DOMAIN params = 1 .. Len(params) /\ \A i \in DOMAIN params : params[i] \in Parameter
  BY <1>1
<1>3. \A i \in DOMAIN params :
        /\ params[i].annotated \in BOOLEAN
        /\ params[i].direct \in BOOLEAN
        /\ params[i].isDouble \in BOOLEAN
        /\ params[i].uses \in Seq(Uses)
  BY <1>2 DEF Parameter
<1>4. \A s \in Seq(Uses) : Len(s) \in Nat /\ DOMAIN s = 1 .. Len(s)
  OBVIOUS
<1> QED BY <1>2, <1>3, <1>4, SignatureAssumption

(* The uses that are left are finitely many numbers. *)
LEMMA PendingIsFinite ==
  ASSUME BATypeOK, stage = "rewriting"
  PROVE  /\ arg \in DOMAIN params
         /\ pending \subseteq DOMAIN UsesOf(arg)
         /\ pending \subseteq Nat
         /\ IsFiniteSet(pending)
         /\ Cardinality(pending) \in Nat
<1>1. arg \in DOMAIN params /\ pending \subseteq 1 .. Len(UsesOf(arg)) /\ Len(UsesOf(arg)) \in Nat
      /\ pending \subseteq DOMAIN UsesOf(arg)
  BY ParamsAreParameters DEF BATypeOK, UsesOf
<1>2. IsFiniteSet(1 .. Len(UsesOf(arg)))
  BY <1>1, FS_Interval
<1>3. IsFiniteSet(pending)
  BY <1>1, <1>2, FS_Subset
<1> QED BY <1>1, <1>3, FS_CardinalityType

(* There is a newest one. *)
LEMMA NewestIsPending ==
  ASSUME pending \subseteq Nat, pending # {}
  PROVE  Newest \in pending
<1>1. \E k \in pending : \A j \in pending : k <= j
  BY SmallestElement
<1> QED BY <1>1 DEF Newest

(* If all uses have different users, an iteration takes one of them.       *)
LEMMA OneIterationTakesUses ==
  ASSUME BATypeOK, stage = "rewriting", pending # {}
  PROVE  LET taken == UsesOfSameUser(Newest)
             left == pending \ taken
         IN /\ Newest \in taken
            /\ taken \subseteq pending
            /\ Cardinality(left) \in Nat
            /\ Cardinality(left) <= Cardinality(pending) - 1
            /\ UsersUseOnce(arg) => Cardinality(left) = Cardinality(pending) - 1
            /\ Cardinality(left) = Cardinality(pending) - 1 => taken = {Newest}
<1> DEFINE taken == UsesOfSameUser(Newest)
           left == pending \ taken
<1>1. Newest \in pending
  BY PendingIsFinite, NewestIsPending
<1>2. Newest \in taken /\ taken \subseteq pending
  BY <1>1 DEF UsesOfSameUser
<1>3. IsFiniteSet(pending \ {Newest}) /\ Cardinality(pending \ {Newest}) = Cardinality(pending) - 1
  BY <1>1, PendingIsFinite, FS_RemoveElement
<1>4. left \subseteq pending \ {Newest}
  BY <1>2
<1>5. /\ IsFiniteSet(left)
      /\ Cardinality(left) <= Cardinality(pending \ {Newest})
      /\ Cardinality(pending \ {Newest}) = Cardinality(left) => pending \ {Newest} = left
  BY <1>3, <1>4, FS_Subset
<1>6. Cardinality(left) \in Nat
  BY <1>5, FS_CardinalityType
<1>7. ASSUME UsersUseOnce(arg) PROVE left = pending \ {Newest}
  <2>1. taken \subseteq {Newest}
    BY <1>1, <1>7, PendingIsFinite DEF UsesOfSameUser, UsersUseOnce, UsesOf
  <2> QED BY <1>2, <2>1
<1>8. ASSUME Cardinality(left) = Cardinality(pending) - 1 PROVE taken = {Newest}
  <2>1. left = pending \ {Newest}
    BY <1>3, <1>5, <1>8
  <2> QED BY <1>2, <2>1
<1> QED BY <1>2, <1>3, <1>5, <1>6, <1>7, <1>8

-----------------------------------------------------------------------------
LEMMA InitInv == BAInit => BAInv
<1> SUFFICES ASSUME BAInit PROVE BAInv
  OBVIOUS
<1>1. Len(params) \in Nat /\ DOMAIN params = 1 .. Len(params)
  BY ParamsAreParameters DEF BAInit
<1>2. BATypeOK
  BY <1>1 DEF BAInit, BATypeOK
<1>3. FinishedOK
  BY <1>1 DEF BAInit, FinishedOK, detectBatchParameters
<1> QED BY <1>2, <1>3 DEF BAInit, BAInv, PrototypeOK, CountOK, FailureOK

(* The parameters of the prototype. *)
LEMMA PrototypeStep ==
  ASSUME BAInv, createBatchedFormFnPrototype
  PROVE  BAInv'
<1> DEFINE old == [i \in DOMAIN params |-> TASArgAttr(i \in detectBatchParameters, params[i].isDouble)]
           size == TASArgAttr(FALSE, FALSE)
           array == [TASArgAttr(FALSE, FALSE) EXCEPT !.Ty = "array"]
           results == IF isVoid THEN <<>> ELSE <<array>>
           Attr == {old[i] : i \in DOMAIN params} \cup {size, array}
<1>1. /\ Len(params) \in Nat /\ DOMAIN params = 1 .. Len(params)
      /\ \A i \in DOMAIN params : params[i].isDouble \in BOOLEAN
  BY ParamsAreParameters DEF BAInv, BATypeOK
<1>3. old \in Seq(Attr) /\ Len(old) = Len(params)
  <2>1. \A i \in DOMAIN params : old[i] \in Attr
    OBVIOUS
  <2>2. DOMAIN old = 1 .. Len(params)
    BY <1>1
  <2> HIDE DEF Attr
  <2> QED BY <1>1, <2>1, <2>2
<1>4. size \in Attr
  OBVIOUS
<1>5. results \in Seq(Attr)
  <2> HIDE DEF old, size
  <2>1. array \in Attr
    OBVIOUS
  <2> HIDE DEF Attr, array
  <2> QED BY <2>1
<1>6. \A i \in DOMAIN params : BatchFuncArgList'[i] = old[i]
  <2>1. BatchFuncArgList' = (old \o <<size>>) \o results
    BY DEF createBatchedFormFnPrototype
  <2> HIDE DEF Attr, old, size, array, results
  <2>2. old \o <<size>> \in Seq(Attr) /\ Len(old \o <<size>>) = Len(params) + 1
    BY <1>1, <1>3, <1>4
  <2>3. \A i \in 1 .. Len(params) : (old \o <<size>>)[i] = old[i]
    BY <1>1, <1>3, <1>4
  <2>4. \A i \in 1 .. Len(params) : ((old \o <<size>>) \o results)[i] = (old \o <<size>>)[i]
    BY <1>1, <1>5, <2>2
  <2> QED BY <1>1, <2>1, <2>3, <2>4
<1>7. PrototypeOK'
  <2>1. params' = params /\ detectBatchParameters' = detectBatchParameters
    BY DEF detectBatchParameters, createBatchedFormFnPrototype
  <2> SUFFICES ASSUME NEW i \in DOMAIN params
               PROVE  /\ BatchFuncArgList'[i].IsBatch <=> i \in detectBatchParameters
                      /\ BatchFuncArgList'[i].IsDoublePtr <=>
                           i \in detectBatchParameters /\ params[i].isDouble
    BY <2>1 DEF PrototypeOK
  <2>2. BatchFuncArgList'[i] = TASArgAttr(i \in detectBatchParameters, params[i].isDouble)
    BY <1>6
  <2>3. BatchFuncArgList'[i].IsBatch = (i \in detectBatchParameters)
    BY <2>2 DEF TASArgAttr
  <2>4. BatchFuncArgList'[i].IsDoublePtr = (i \in detectBatchParameters /\ params[i].isDouble)
    BY <2>2 DEF TASArgAttr
  <2> QED BY <2>3, <2>4
<1>8. BATypeOK'
  BY DEF BATypeOK, BAInv, createBatchedFormFnPrototype
<1>9. FinishedOK' /\ CountOK' /\ FailureOK'
  <2>1. UNCHANGED <<params, arg, access>> /\ stage' = "arguments"
    BY DEF createBatchedFormFnPrototype
  <2> QED BY <2>1 DEF FinishedOK, CountOK, FailureOK, BAInv, detectBatchParameters, UsersUseOnce,
            IsRewritten, IsFollowedBy, UsesOf
<1> QED BY <1>7, <1>8, <1>9 DEF BAInv

(* The parameters between those that are batched, and the end. *)
LEMMA ArgumentStep ==
  ASSUME BAInv, SkipArgument \/ RedirectStore \/ FinishArguments
  PROVE  BAInv'
<1>1. /\ Len(params) \in Nat /\ DOMAIN params = 1 .. Len(params) /\ arg \in Nat
      /\ \A i \in DOMAIN params : DOMAIN UsesOf(i) = 1 .. Len(UsesOf(i)) /\ Len(UsesOf(i)) \in Nat
  BY ParamsAreParameters DEF BAInv, BATypeOK, UsesOf
<1>2. /\ UNCHANGED <<params, isVoid, BatchFuncArgList, access>>
      /\ detectBatchParameters' = detectBatchParameters
  BY DEF SkipArgument, RedirectStore, FinishArguments, detectBatchParameters
<1>3. PrototypeOK'
  BY <1>2 DEF BAInv, PrototypeOK, SkipArgument, RedirectStore, FinishArguments
<1>4. CASE SkipArgument
  <2>1. arg \in DOMAIN params /\ arg \notin detectBatchParameters
    BY <1>4 DEF SkipArgument, BAInv, PrototypeOK
  <2>2. BATypeOK'
    BY <1>1, <1>4, <2>1 DEF BAInv, BATypeOK, SkipArgument
  <2>3. FinishedOK'
    <3>1. \A i \in detectBatchParameters : i < arg + 1 => i < arg
      BY <1>1, <2>1 DEF detectBatchParameters
    <3> QED BY <1>2, <1>4, <3>1 DEF BAInv, FinishedOK, SkipArgument, UsersUseOnce, IsRewritten, IsFollowedBy, UsesOf
  <2>4. CountOK' /\ FailureOK'
    BY <1>4 DEF CountOK, FailureOK, SkipArgument
  <2> QED BY <1>3, <2>2, <2>3, <2>4 DEF BAInv
<1>5. CASE RedirectStore
  <2>1. arg \in DOMAIN params /\ arg \in detectBatchParameters
    BY <1>5 DEF RedirectStore, BAInv, PrototypeOK
  <2>2. pending' = 1 .. Len(UsesOf(arg)) /\ NumUses' = Len(UsesOf(arg)) /\ UNCHANGED arg
    BY <1>1, <1>5, <2>1 DEF RedirectStore, getNumUses, UsesOf
  <2>3. Cardinality(1 .. Len(UsesOf(arg))) = Len(UsesOf(arg))
    <3>1. ASSUME NEW n \in Nat PROVE Cardinality(1 .. n) = n
      <4>1. Cardinality(1 .. n) = IF 1 > n THEN 0 ELSE n - 1 + 1
        BY FS_Interval
      <4> QED BY <4>1
    <3> QED BY <1>1, <2>1, <3>1
  <2>4. BATypeOK'
    BY <1>1, <1>2, <1>5, <2>1, <2>2 DEF BAInv, BATypeOK, RedirectStore, UsesOf
  <2>5. FinishedOK'
    BY <1>2, <2>2 DEF BAInv, FinishedOK, UsersUseOnce, IsRewritten, IsFollowedBy, UsesOf
  <2>6. CountOK'
    <3>1. DOMAIN UsesOf(arg) \ pending' = {}
      BY <1>1, <2>1, <2>2
    <3>2. Cardinality(pending') = NumUses' /\ NumUses' \in Nat
      BY <1>1, <2>1, <2>2, <2>3
    <3> QED BY <1>2, <2>1, <2>2, <3>1, <3>2 DEF CountOK, UsesOf, SameUser
  <2>7. FailureOK'
    BY <1>5 DEF FailureOK, RedirectStore
  <2> QED BY <1>3, <2>4, <2>5, <2>6, <2>7 DEF BAInv
<1>6. CASE FinishArguments
  <2>1. arg > Len(params) /\ UNCHANGED arg
    BY <1>1, <1>6 DEF FinishArguments, BAInv, BATypeOK
  <2>2. BATypeOK'
    BY <1>6 DEF BAInv, BATypeOK, FinishArguments
  <2>3. FinishedOK'
    BY <1>2, <2>1 DEF BAInv, FinishedOK, UsersUseOnce, IsRewritten, IsFollowedBy, UsesOf
  <2>4. CountOK' /\ FailureOK'
    BY <1>2, <1>6, <2>1 DEF CountOK, FailureOK, FinishArguments
  <2> QED BY <1>3, <2>2, <2>3, <2>4 DEF BAInv
<1> QED BY <1>4, <1>5, <1>6

(* One iteration over the uses of a variable. *)
LEMMA UserStep ==
  ASSUME BAInv, RewriteUser
  PROVE  BAInv'
<1> DEFINE taken == UsesOfSameUser(Newest)
           left == pending \ taken
<1>1. /\ BATypeOK /\ stage = "rewriting" /\ pending # {} /\ NumUses > 0 /\ NumUses \in Nat
      /\ arg \in detectBatchParameters
  BY DEF BAInv, BATypeOK, RewriteUser, CountOK
<1>2. /\ UNCHANGED <<params, isVoid, stage, BatchFuncArgList, arg>>
      /\ detectBatchParameters' = detectBatchParameters
      /\ pending' = left
      /\ NumUses' = NumUses - 1
  BY DEF RewriteUser, detectBatchParameters
<1>3. /\ Newest \in taken
      /\ taken \subseteq pending
      /\ Cardinality(left) \in Nat
      /\ Cardinality(left) <= Cardinality(pending) - 1
      /\ UsersUseOnce(arg) => Cardinality(left) = Cardinality(pending) - 1
      /\ Cardinality(left) = Cardinality(pending) - 1 => taken = {Newest}
  BY <1>1, OneIterationTakesUses
<1>4. /\ arg \in DOMAIN params
      /\ pending \subseteq DOMAIN UsesOf(arg)
      /\ Cardinality(pending) \in Nat
  BY <1>1, PendingIsFinite
<1>5. /\ DOMAIN access = DOMAIN params
      /\ \A i \in DOMAIN params : access[i] \in [DOMAIN UsesOf(i) -> {"old", "own", "whole", "astray"}]
  BY <1>1 DEF BATypeOK, UsesOf
<1>6. /\ DOMAIN access' = DOMAIN params
      /\ \A i \in DOMAIN params \ {arg} : access'[i] = access[i]
      /\ DOMAIN access'[arg] = DOMAIN UsesOf(arg)
      /\ \A k \in DOMAIN UsesOf(arg) : access'[arg][k] = IF k \in taken THEN Accessed(Newest) ELSE access[arg][k]
  BY <1>4, <1>5 DEF RewriteUser
<1>7. Accessed(Newest) \in {"own", "whole", "astray"}
  BY DEF Accessed
<1>8. PrototypeOK'
  BY <1>2 DEF BAInv, PrototypeOK
<1>9. BATypeOK'
  <2>1. access'[arg] \in [DOMAIN UsesOf(arg) -> {"old", "own", "whole", "astray"}]
    <3>1. access'[arg] = [k \in DOMAIN UsesOf(arg) |-> IF k \in taken THEN Accessed(Newest) ELSE access[arg][k]]
      BY <1>4, <1>5 DEF RewriteUser
    <3> QED BY <1>4, <1>5, <1>7, <3>1
  <2>2. \A i \in DOMAIN params : access'[i] \in [DOMAIN UsesOf(i) -> {"old", "own", "whole", "astray"}]
    BY <1>5, <1>6, <2>1
  <2>3. NumUses' \in Nat
    BY <1>1, <1>2
  <2>4. pending' \subseteq DOMAIN UsesOf(arg)
    BY <1>2, <1>4
  <2> QED BY <1>1, <1>2, <1>6, <2>2, <2>3, <2>4 DEF BATypeOK, UsesOf
<1>10. FinishedOK'
  <2>1. \A i \in detectBatchParameters : i < arg => access'[i] = access[i]
    BY <1>1, <1>6, ParamsAreParameters DEF detectBatchParameters, BATypeOK
  <2> QED BY <1>2, <2>1 DEF BAInv, FinishedOK, UsersUseOnce, IsRewritten, IsFollowedBy, UsesOf
<1>11. CountOK'
  <2>1. \A j, k \in pending : k \in taken /\ SameUser(arg, k, j) => j \in taken
    BY DEF UsesOfSameUser, SameUser, UsesOf
  <2>2. ASSUME NEW k \in taken PROVE IsRewritten(arg, k)'
    <3>1. access'[arg][k] = Accessed(Newest)
      BY <1>3, <1>4, <1>6
    <3>2. UsesOf(arg)[k] = UsesOf(arg)[Newest]
      BY <1>1, <1>3, <1>4, ParamsAreParameters DEF BATypeOK, UsesOfSameUser, UsesOf
    <3>3. BatchFuncArgList[arg].IsDoublePtr <=> params[arg].isDouble
      BY <1>1, <1>4 DEF BAInv, PrototypeOK
    <3>4. Accessed(Newest) # "old"
      BY <1>7
    <3>5. ~params[arg].isDouble \/ UsesOf(arg)[k].next = "index" => Accessed(Newest) = "own"
      BY <3>2, <3>3 DEF Accessed, UsesOf
    <3>6. params[arg].isDouble \in BOOLEAN
      BY <1>1, <1>4, ParamsAreParameters DEF BATypeOK
    <3>7. Accessed(Newest) = "astray" <=> IsFollowedBy(arg, k, "foreign")
      BY <3>2, <3>3, <3>6 DEF Accessed, IsFollowedBy, UsesOf
    <3>8. ~IsFollowedBy(arg, k, "field")
      BY <1>4, <3>2, <3>3 DEF RewriteUser, TypesDiffer, IsFollowedBy, UsesOf
    <3> QED BY <1>2, <3>1, <3>4, <3>5, <3>7, <3>8 DEF IsRewritten, IsFollowedBy, UsesOf
  <2>3. ASSUME NEW k \in DOMAIN UsesOf(arg) \ left PROVE IsRewritten(arg, k)'
    <3>1. CASE k \in pending
      BY <2>2, <3>1
    <3>2. CASE k \notin pending
      <4>1. IsRewritten(arg, k)
        BY <1>1, <2>3, <3>2 DEF BAInv, CountOK
      <4>2. access'[arg][k] = access[arg][k]
        BY <1>3, <1>6, <2>3, <3>2
      <4> QED BY <1>2, <4>1, <4>2 DEF IsRewritten, IsFollowedBy, UsesOf
    <3> QED BY <3>1, <3>2
  <2>4. ASSUME NEW j \in left, NEW k \in DOMAIN UsesOf(arg) \ left PROVE ~SameUser(arg, j, k)
    <3>1. CASE k \in pending
      BY <1>3, <2>1, <2>4, <3>1 DEF SameUser
    <3>2. CASE k \notin pending
      BY <1>1, <2>4, <3>2 DEF BAInv, CountOK
    <3> QED BY <3>1, <3>2
  <2>5. Cardinality(pending) <= NumUses
    BY <1>1 DEF BAInv, CountOK
  <2>6. Cardinality(left) <= NumUses - 1
    BY <1>1, <1>3, <1>4, <2>5
  <2>7. UsersUseOnce(arg) => NumUses - 1 = Cardinality(left)
    BY <1>1, <1>3 DEF BAInv, CountOK
  <2>8. ASSUME NumUses - 1 = Cardinality(left),
               NEW j \in DOMAIN UsesOf(arg) \ left, NEW k \in DOMAIN UsesOf(arg), SameUser(arg, j, k)
        PROVE  j = k
    <3>1. Cardinality(pending) = NumUses
      BY <1>1, <1>3, <1>4, <2>5, <2>8
    <3>2. taken = {Newest}
      BY <1>1, <1>3, <2>8, <3>1
    <3>3. k \notin left
      BY <2>4, <2>8 DEF SameUser
    <3>4. CASE j \in pending /\ k \in pending
      BY <2>8, <3>2, <3>3, <3>4
    <3>5. CASE j \notin pending
      BY <1>1, <2>8, <3>1, <3>5 DEF BAInv, CountOK
    <3>6. CASE j \in pending /\ k \notin pending
      BY <1>1, <2>8, <3>6 DEF BAInv, CountOK
    <3> QED BY <3>4, <3>5, <3>6
  <2> HIDE DEF left
  <2>9. /\ UNCHANGED <<params, arg>>
        /\ \A j, k : SameUser(arg, j, k)' <=> SameUser(arg, j, k)
        /\ UsersUseOnce(arg)' <=> UsersUseOnce(arg)
        /\ UsesOf(arg)' = UsesOf(arg)
    BY <1>2 DEF SameUser, UsesOf, UsersUseOnce
  <2> QED
    BY <1>1, <1>2, <2>3, <2>4, <2>6, <2>7, <2>8, <2>9 DEF CountOK
<1>12. FailureOK'
  BY <1>1, <1>2 DEF FailureOK
<1> QED BY <1>8, <1>9, <1>10, <1>11, <1>12 DEF BAInv

(* The ends of the loop over the uses. *)
LEMMA EndOfUsesStep ==
  ASSUME BAInv, RewriteField \/ NoUserLeft \/ FinishArgument
  PROVE  BAInv'
<1>1. /\ BATypeOK /\ stage = "rewriting" /\ NumUses \in Nat
      /\ arg \in detectBatchParameters /\ arg \in DOMAIN params
      /\ UNCHANGED <<params, isVoid, BatchFuncArgList, access, NumUses, pending>>
      /\ detectBatchParameters' = detectBatchParameters
  BY DEF BAInv, BATypeOK, CountOK, RewriteField, NoUserLeft, FinishArgument, detectBatchParameters
<1>2. /\ Len(params) \in Nat /\ DOMAIN params = 1 .. Len(params) /\ arg \in Nat
      /\ \A i \in DOMAIN params : params[i].isDouble \in BOOLEAN
  BY <1>1, ParamsAreParameters DEF BATypeOK
<1>3. /\ pending \subseteq DOMAIN UsesOf(arg)
      /\ IsFiniteSet(pending)
      /\ Cardinality(pending) \in Nat
      /\ pending # {} => Newest \in pending
  BY <1>1, PendingIsFinite, NewestIsPending
<1>4. PrototypeOK'
  BY <1>1 DEF BAInv, PrototypeOK, RewriteField, NoUserLeft, FinishArgument
<1>5. CASE RewriteField
  <2>1. IsFollowedBy(arg, Newest, "field") /\ Newest \in DOMAIN UsesOf(arg)
    BY <1>1, <1>3, <1>5 DEF RewriteField, TypesDiffer, BAInv, PrototypeOK, IsFollowedBy, UsesOf
  <2>2. FailureOK'
    BY <1>1, <1>5, <2>1 DEF FailureOK, RewriteField, IsFollowedBy, UsesOf
  <2>3. BATypeOK' /\ CountOK'
    BY <1>1, <1>5 DEF BATypeOK, CountOK, RewriteField
  <2>4. FinishedOK'
    BY <1>1, <1>5 DEF BAInv, FinishedOK, UsersUseOnce, IsRewritten, IsFollowedBy, UsesOf, RewriteField
  <2> QED BY <1>4, <2>2, <2>3, <2>4 DEF BAInv
<1>6. CASE NoUserLeft
  <2>1. Cardinality(pending) = 0 /\ NumUses # 0
    BY <1>1, <1>6, FS_EmptySet DEF NoUserLeft
  <2>2. ~UsersUseOnce(arg)
    BY <1>1, <2>1 DEF BAInv, CountOK
  <2>3. FailureOK'
    BY <1>1, <1>6, <2>2 DEF FailureOK, NoUserLeft, UsersUseOnce, UsesOf
  <2>4. BATypeOK' /\ CountOK'
    BY <1>1, <1>6 DEF BATypeOK, CountOK, NoUserLeft
  <2>5. FinishedOK'
    BY <1>1, <1>6 DEF BAInv, FinishedOK, UsersUseOnce, IsRewritten, IsFollowedBy, UsesOf, NoUserLeft
  <2> QED BY <1>4, <2>3, <2>4, <2>5 DEF BAInv
<1>7. CASE FinishArgument
  <2>1. NumUses = 0 /\ arg' = arg + 1 /\ stage' = "arguments"
    BY <1>7 DEF FinishArgument
  <2>2. Cardinality(pending) = 0 /\ pending = {}
    <3>1. Cardinality(pending) <= NumUses
      BY <1>1 DEF BAInv, CountOK
    <3>2. Cardinality(pending) = 0
      BY <1>3, <2>1, <3>1
    <3> QED BY <1>3, <3>2, FS_EmptySet
  <2>3. UsersUseOnce(arg)
    BY <1>1, <2>1, <2>2 DEF BAInv, CountOK, UsersUseOnce, SameUser, UsesOf
  <2>4. \A k \in DOMAIN UsesOf(arg) : IsRewritten(arg, k)
    BY <1>1, <2>2 DEF BAInv, CountOK
  <2>5. FinishedOK'
    <3>1. \A i \in detectBatchParameters : i < arg + 1 => i < arg \/ i = arg
      BY <1>2 DEF detectBatchParameters
    <3>2. \A i \in detectBatchParameters : i < arg' =>
            UsersUseOnce(i) /\ \A k \in DOMAIN UsesOf(i) : IsRewritten(i, k)
      BY <2>1, <2>3, <2>4, <3>1 DEF BAInv, FinishedOK
    <3> QED BY <1>1, <3>2 DEF FinishedOK, UsersUseOnce, IsRewritten, IsFollowedBy, UsesOf
  <2>6. BATypeOK'
    BY <1>1, <1>2, <2>1 DEF BATypeOK
  <2>7. CountOK' /\ FailureOK'
    BY <2>1 DEF CountOK, FailureOK
  <2> QED BY <1>4, <2>5, <2>6, <2>7 DEF BAInv
<1> QED BY <1>5, <1>6, <1>7

(* The invariant is kept by every step. *)
LEMMA StepInv == BAInv /\ [BANext]_baVars => BAInv'
<1> SUFFICES ASSUME BAInv, [BANext]_baVars PROVE BAInv'
  OBVIOUS
<1>1. CASE BANext
  BY <1>1, PrototypeStep, ArgumentStep, UserStep, EndOfUsesStep DEF BANext
<1>2. CASE UNCHANGED baVars
  BY <1>2 DEF baVars, BAInv, BATypeOK, PrototypeOK, FinishedOK, CountOK, FailureOK, IsRewritten, IsFollowedBy,
              UsersUseOnce, SameUser, UsesOf, detectBatchParameters
<1> QED BY <1>1, <1>2

LEMMA Invariance == BASpec => []BAInv
<1> QED BY InitInv, StepInv, PTL DEF BASpec

-----------------------------------------------------------------------------

(* The rewriting of the arguments (replaceOldArgUsesWithBatchArgs) stays   *)
(* within the lists of parameters and uses.                                *)
THEOREM ArgumentsTypeCorrect == BASpec => []BATypeOK
<1>1. BAInv => BATypeOK
  BY DEF BAInv
<1> QED BY <1>1, Invariance, PTL

(* When replaceOldArgUsesWithBatchArgs is through, no use of a batched     *)
(* argument is left on the old variable, each has the packet's own         *)
(* element, unless it takes a pointer to a pointer as it is, and the index *)
(* of another pointer is lost exactly where a getelementptr of it follows  *)
(* such a use.                                                             *)
THEOREM UsesHaveElements == BASpec => []EachUseHasItsElement
<1>1. BAInv => EachUseHasItsElement
  <2> SUFFICES ASSUME BAInv, stage = "done", NEW i \in detectBatchParameters, NEW k \in DOMAIN params[i].uses
               PROVE  /\ access[i][k] # "old"
                      /\ ~params[i].isDouble \/ params[i].uses[k].next = "index" => access[i][k] = "own"
                      /\ access[i][k] = "astray" <=> IsFollowedBy(i, k, "foreign")
    BY DEF EachUseHasItsElement
  <2>1. i < arg
    BY ParamsAreParameters DEF BAInv, BATypeOK, FailureOK, detectBatchParameters
  <2> QED BY <2>1 DEF BAInv, FinishedOK, IsRewritten, IsFollowedBy, UsesOf
<1> QED BY <1>1, Invariance, PTL

(* The count of uses that replaceOldArgUsesWithBatchArgs reads once is     *)
(* wrong only if an instruction uses a batched argument twice; that and a  *)
(* getelementptr that goes into a compound value, after a use of a pointer *)
(* to a pointer, are all it fails on, and with either it does not come to  *)
(* an end.                                                                 *)
THEOREM CountIsWrongOnDoubleUse == BASpec => []FailsOnlyOnDoubleUse
<1>1. BAInv => FailsOnlyOnDoubleUse
  <2> SUFFICES ASSUME BAInv PROVE FailsOnlyOnDoubleUse
    OBVIOUS
  <2>1. ASSUME stage = "done", NEW i \in detectBatchParameters
        PROVE  UsersUseOnce(i) /\ \A k \in DOMAIN params[i].uses : ~IsFollowedBy(i, k, "field")
    <3>1. i < arg
      BY <2>1, ParamsAreParameters DEF BAInv, BATypeOK, FailureOK, detectBatchParameters
    <3> QED BY <2>1, <3>1 DEF BAInv, FinishedOK, IsRewritten, UsesOf
  <2> QED BY <2>1 DEF BAInv, FailureOK, FailsOnlyOnDoubleUse, UsesOf
<1> QED BY <1>1, Invariance, PTL
=============================================================================
