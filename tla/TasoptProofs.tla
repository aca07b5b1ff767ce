----------------------------- MODULE TasoptProofs -----------------------------
(***************************************************************************)
(* For any functions, any annotations and any number of runs: the tool     *)
(* succeeds only with complete files, and never leaves half of the work.   *)
(***************************************************************************)
EXTENDS Tasopt, WellFoundedInduction, TLAPS

(* The least and the greatest element of a set of natural numbers. *)
LEMMA SmallestElement ==
  ASSUME NEW S \in SUBSET Nat, S # {}
  PROVE  \E i \in S : \A k \in S : i <= k
<1> DEFINE R == OpToRel(<, Nat)
<1>1. IsWellFoundedOn(R, Nat)
  BY NatLessThanWellFounded
<1>2. \A i, k \in Nat : <<k, i>> \in R <=> k < i
  BY DEF OpToRel
<1> HIDE DEF R
<1>3. PICK i \in S : \A k \in S : ~(<<k, i>> \in R)
  BY <1>1, WFMin
<1>4. ASSUME NEW k \in S PROVE i <= k
  <2>1. i \in Nat /\ k \in Nat
    OBVIOUS
  <2>2. ~(k < i)
    BY <1>2, <1>3, <2>1
  <2> QED BY <2>1, <2>2
<1> QED BY <1>4

LEMMA GreatestElement ==
  ASSUME NEW n \in Nat, NEW S \in SUBSET (0 .. n), S # {}
  PROVE  \E i \in S : \A k \in S : i >= k
<1> DEFINE T == {n - k : k \in S}
<1>1. T \in SUBSET Nat /\ T # {}
  <2>1. \A k \in 0 .. n : n - k \in Nat
    OBVIOUS
  <2> QED BY <2>1
<1>2. PICK i \in T : \A k \in T : i <= k
  BY <1>1, SmallestElement
<1>3. PICK j \in S : i = n - j
  BY <1>2
<1>4. ASSUME NEW k \in S PROVE j >= k
  <2>1. n - j <= n - k
    BY <1>2, <1>3, <1>4
  <2> QED BY <2>1
<1> QED BY <1>4

(* Outside of the loop over the functions nothing is left to do. *)
IdleOK ==
  /\ stage # "passes" => todo = {} /\ splitting = {}
  /\ \A f, g \in splitting : f = g

ListsOK ==
  stage = "passes" =>
    /\ DOMAIN FnLists = Annotated
    /\ todo \subseteq Annotated
    /\ splitting \subseteq Annotated \ todo
    /\ \A f \in splitting : FnLists[f] = "tas_batch_maker"
    /\ \A f \in Annotated : Results(FnLists[f]) = Wanted(source, f)

(* What was done to a function, while the loop is at work and after it. *)
MadeOK ==
  /\ stage \in {"parse", "annotations"} => made = Untouched
  /\ stage = "passes" => \A f \in Functions :
       made[f] \in IF f \in todo THEN {<<>>}
                   ELSE IF f \in splitting THEN {<<"batched">>}
                   ELSE Wanted(source, f)
  /\ stage \in Kinds \cup {"succeeded"} => IsComplete(Content)

WrittenOK ==
  /\ stage \in {"bc", "o", "succeeded"} => files.ll = Content
  /\ stage \in {"o", "succeeded"} => files.bc = Content
  /\ stage = "succeeded" => files.o = Content

TOInv ==
  /\ TOTypeOK
  /\ IdleOK
  /\ ListsOK
  /\ MadeOK
  /\ WrittenOK
  /\ NothingHalfTransformed

-----------------------------------------------------------------------------

LEMMA SourceIsSequence ==
  ASSUME source \in Sources
  PROVE  Len(source) \in Nat /\ DOMAIN source = 1 .. Len(source)
<1> DEFINE Note == [of : Functions \cup {"variable"}, note : STRING]
<1>1. source \in Seq(Note)
  BY SourcesAssumption
<1> HIDE DEF Note
<1> QED BY <1>1

(* The string that getAnnotatedFnList keeps is that of the last annotation. *)
LEMMA LastAnnotationStays ==
  ASSUME source \in Sources
  PROVE  /\ DOMAIN AnnotationsOf = Annotated
         /\ \A f \in Annotated : Results(AnnotationsOf[f]) = Wanted(source, f)
         /\ \A f \in Functions \ Annotated : Wanted(source, f) = {<<>>}
<1>1. Len(source) \in Nat /\ DOMAIN source = 1 .. Len(source)
  BY SourceIsSequence
<1>2. \A f \in Functions \ Annotated : Wanted(source, f) = {<<>>}
  BY DEF Wanted, Annotated
<1>3. ASSUME NEW f \in Annotated
      PROVE  Results(AnnotationsOf[f]) = Wanted(source, f)
  <2> DEFINE places == {i \in DOMAIN source : source[i].of = f}
             IsLast(i) == source[i].of = f /\ \A j \in DOMAIN source : j > i => source[j].of # f
             lasts == {k \in DOMAIN source : IsLast(k)}
  <2>1. places # {} /\ places \subseteq 0 .. Len(source) /\ places \subseteq Nat
    BY <1>1, <1>3 DEF Annotated
  <2>2. \E i \in places : \A k \in places : i >= k
    BY <1>1, <2>1, GreatestElement
  <2> DEFINE i == Max(places)
  <2>3. i \in places /\ \A k \in places : i >= k
    <3> HIDE DEF places
    <3> QED BY <2>2 DEF Max
  <2>4. AnnotationsOf[f] = source[i].note
    BY <1>3 DEF AnnotationsOf
  <2> HIDE DEF i
  <2>5. i \in lasts
    BY <1>1, <2>1, <2>3
  <2>6. \A k \in lasts : k = i
    BY <1>1, <2>1, <2>3, <2>5
  <2>7. lasts = {i}
    BY <2>5, <2>6
  <2>8. Wanted(source, f) = UNION {Results(source[k].note) : k \in lasts}
    BY <2>1 DEF Wanted
  <2> QED BY <2>4, <2>7, <2>8
<1> QED BY <1>2, <1>3 DEF AnnotationsOf

(* A file that is missing or broken is not taken for half of the work. *)
LEMMA NoModuleIsNotHalf ==
  ASSUME NEW c \in {NoFile, Broken}, c \in Modules
  PROVE  IsComplete(c)
<1>1. c.made \in [Functions -> Passes]
  BY DEF Modules
<1>2. \A f \in DOMAIN c.made : c.made[f] = <<>>
  BY DEF NoFile, Broken
<1>3. \A f : Wanted(<<>>, f) = {<<>>}
  BY DEF Wanted
<1>4. c.from = <<>>
  BY DEF NoFile, Broken
<1> QED BY <1>1, <1>2, <1>3, <1>4 DEF IsComplete

LEMMA InitInv == TOInit => TOInv
<1> SUFFICES ASSUME TOInit PROVE TOInv
  OBVIOUS
<1>1. TOTypeOK
  BY SourcesAssumption DEF TOInit, TOTypeOK, Untouched, Passes, Kinds
<1>2. NothingHalfTransformed
  BY NoModuleIsNotHalf DEF TOInit, NothingHalfTransformed
<1> QED BY <1>1, <1>2 DEF TOInit, TOInv, IdleOK, ListsOK, MadeOK, WrittenOK, Kinds

(* The module at hand is one of the modules a file can have. *)
LEMMA ContentIsModule == TOTypeOK => Content \in Modules
  BY DEF TOTypeOK, Content, Modules

(* The beginning of a run. *)
LEMMA StartStep ==
  ASSUME TOInv,
         Start \/ parseInputFileFails \/ parseIRFails \/ parseInputFile \/ getAnnotatedFnList
  PROVE  TOInv'
<1>1. CASE Start
  <2>1. TOTypeOK'
    BY <1>1, SourcesAssumption DEF TOInv, TOTypeOK, IdleOK, Start, Untouched, Passes, Exited, Modules
  <2>2. NothingHalfTransformed'
    BY <1>1 DEF TOInv, NothingHalfTransformed, Start
  <2> QED BY <1>1, <2>1, <2>2 DEF TOInv, IdleOK, ListsOK, MadeOK, WrittenOK, Start, Exited, Kinds
<1>2. CASE parseInputFileFails
  <2>1. TOTypeOK'
    BY <1>2 DEF TOInv, TOTypeOK, parseInputFileFails, CommandFails, Kinds
  <2>2. NothingHalfTransformed'
    BY <1>2, NoModuleIsNotHalf DEF TOInv, TOTypeOK, NothingHalfTransformed, parseInputFileFails, CommandFails
  <2> QED BY <1>2, <2>1, <2>2 DEF TOInv, IdleOK, ListsOK, MadeOK, WrittenOK, parseInputFileFails,
                                  CommandFails, Kinds
<1>3. CASE parseInputFile
  <2>1. made = Untouched /\ Content \in Modules
    BY <1>3, ContentIsModule DEF TOInv, MadeOK, parseInputFile
  <2>2. TOTypeOK'
    BY <1>3, <2>1 DEF TOInv, TOTypeOK, parseInputFile, Kinds
  <2>3. Content.made = Untouched
    BY <2>1 DEF Content
  <2>4. NothingHalfTransformed'
    BY <1>3, <2>3 DEF TOInv, TOTypeOK, NothingHalfTransformed, parseInputFile
  <2> QED BY <1>3, <2>1, <2>2, <2>4 DEF TOInv, IdleOK, ListsOK, MadeOK, WrittenOK, parseInputFile, Kinds
<1>5. CASE parseIRFails
  <2>1. made = Untouched /\ Content \in Modules
    BY <1>5, ContentIsModule DEF TOInv, MadeOK, parseIRFails
  <2>2. TOTypeOK'
    BY <1>5, <2>1 DEF TOInv, TOTypeOK, parseIRFails, Kinds
  <2>3. Content.made = Untouched
    BY <2>1 DEF Content
  <2>4. NothingHalfTransformed'
    BY <1>5, <2>3 DEF TOInv, TOTypeOK, NothingHalfTransformed, parseIRFails
  <2> QED BY <1>5, <2>1, <2>2, <2>4 DEF TOInv, IdleOK, ListsOK, MadeOK, WrittenOK, parseIRFails, Kinds
<1>4. CASE getAnnotatedFnList
  <2>1. /\ UNCHANGED <<source, runs, splitting, made, files>>
        /\ stage = "annotations" /\ stage' = "passes"
        /\ FnLists' = AnnotationsOf /\ todo' = Annotated
        /\ splitting = {} /\ made = Untouched
        /\ Annotated' = Annotated
    BY <1>4 DEF getAnnotatedFnList, TOInv, IdleOK, MadeOK, Annotated
  <2>2. /\ DOMAIN AnnotationsOf = Annotated
        /\ \A f \in Annotated : Results(AnnotationsOf[f]) = Wanted(source, f)
        /\ \A f \in Functions \ Annotated : Wanted(source, f) = {<<>>}
    BY LastAnnotationStays DEF TOInv, TOTypeOK
  <2>3. TOTypeOK'
    BY <2>1, <2>2 DEF TOInv, TOTypeOK, Annotated
  <2>4. ListsOK'
    BY <2>1, <2>2 DEF ListsOK
  <2>5. MadeOK'
    BY <2>1, <2>2 DEF MadeOK, Untouched, Kinds
  <2> QED BY <2>1, <2>3, <2>4, <2>5 DEF TOInv, IdleOK, WrittenOK, NothingHalfTransformed
<1> QED BY <1>1, <1>2, <1>3, <1>4, <1>5

(* The passes. *)
LEMMA PassStep ==
  ASSUME TOInv, NEW f \in Functions,
         BlockPredicate(f) \/ MakeBatch(f) \/ IgnoreAnnotation(f) \/ PassAborts(f)
  PROVE  TOInv'
<1>1. /\ UNCHANGED <<source, runs, FnLists, files>>
      /\ Annotated' = Annotated
      /\ stage = "passes"
      /\ NothingHalfTransformed'
  BY DEF BlockPredicate, MakeBatch, IgnoreAnnotation, PassAborts, IsNext, passVars, Annotated, TOInv,
         NothingHalfTransformed
<1>2. /\ made \in [Functions -> Passes]
      /\ DOMAIN FnLists = Annotated /\ todo \subseteq Annotated
      /\ \A g \in Annotated : Results(FnLists[g]) = Wanted(source, g)
  BY <1>1 DEF TOInv, TOTypeOK, ListsOK
<1>3. CASE PassAborts(f)
  <2>1. TOTypeOK'
    BY <1>1, <1>3 DEF TOInv, TOTypeOK, PassAborts
  <2> QED BY <1>1, <1>3, <2>1 DEF TOInv, IdleOK, ListsOK, MadeOK, WrittenOK, PassAborts, Kinds
<1>4. CASE ~PassAborts(f)
  <2>1. f \in todo /\ splitting = {} /\ todo' = todo \ {f} /\ stage' = "passes" /\ made[f] = <<>>
    BY <1>1, <1>4 DEF BlockPredicate, MakeBatch, IgnoreAnnotation, IsNext, TOInv, MadeOK
  <2>2. WrittenOK'
    BY <2>1 DEF WrittenOK
  <2>3. \A g \in Functions \ {f} : made[g] \in IF g \in todo THEN {<<>>} ELSE Wanted(source, g)
    BY <1>1, <2>1 DEF TOInv, MadeOK
  <2>4. CASE BlockPredicate(f)
    <3>1. made' = [made EXCEPT ![f] = <<"predicated">>] /\ splitting' = {}
      BY <2>1, <2>4 DEF BlockPredicate
    <3>2. <<"predicated">> \in Wanted(source, f)
      BY <1>2, <2>1, <2>4 DEF BlockPredicate, Results
    <3>3. TOTypeOK'
      BY <1>1, <1>2, <2>1, <3>1 DEF TOInv, TOTypeOK, Passes
    <3>4. MadeOK'
      BY <1>1, <1>2, <2>1, <2>3, <3>1, <3>2 DEF MadeOK, Kinds
    <3> QED BY <1>1, <1>2, <2>1, <2>2, <3>1, <3>3, <3>4 DEF TOInv, IdleOK, ListsOK
  <2>5. CASE MakeBatch(f)
    <3>1. made' = [made EXCEPT ![f] = <<"batched">>] /\ splitting' = {f}
      BY <2>1, <2>5 DEF MakeBatch
    <3>2. TOTypeOK'
      BY <1>1, <1>2, <2>1, <3>1 DEF TOInv, TOTypeOK, Passes
    <3>3. MadeOK'
      BY <1>1, <1>2, <2>1, <2>3, <3>1 DEF MadeOK, Kinds
    <3>4. ListsOK'
      BY <1>1, <1>2, <2>1, <2>5, <3>1 DEF ListsOK, MakeBatch
    <3> QED BY <1>1, <2>1, <2>2, <3>1, <3>2, <3>3, <3>4 DEF TOInv, IdleOK
  <2>6. CASE IgnoreAnnotation(f)
    <3>1. made' = made /\ splitting' = {}
      BY <2>1, <2>6 DEF IgnoreAnnotation
    <3>2. <<>> \in Wanted(source, f)
      BY <1>2, <2>1, <2>6 DEF IgnoreAnnotation, Results
    <3>3. TOTypeOK'
      BY <1>1, <2>1, <3>1 DEF TOInv, TOTypeOK
    <3>4. MadeOK'
      BY <1>1, <2>1, <2>3, <3>1, <3>2 DEF MadeOK, Kinds
    <3> QED BY <1>1, <1>2, <2>1, <2>2, <3>1, <3>3, <3>4 DEF TOInv, IdleOK, ListsOK
  <2> QED BY <1>4, <2>4, <2>5, <2>6
<1> QED BY <1>3, <1>4

(* LoopSplitter, and the end of the loop over the functions. *)
LEMMA SplitStep ==
  ASSUME TOInv, SplitLoops \/ FinishPasses
  PROVE  TOInv'
<1>1. /\ UNCHANGED <<source, runs, FnLists, files, todo>>
      /\ Annotated' = Annotated
      /\ stage = "passes"
      /\ NothingHalfTransformed'
  BY DEF SplitLoops, FinishPasses, passVars, Annotated, TOInv, NothingHalfTransformed
<1>2. CASE SplitLoops
  <2>1. PICK f \in splitting : made' \in {made, [made EXCEPT ![f] = Append(@, "split")]}
    BY <1>2 DEF SplitLoops
  <2>2. /\ f \in Annotated \ todo /\ f \in Functions /\ splitting = {f}
        /\ FnLists[f] = "tas_batch_maker"
        /\ Results(FnLists[f]) = Wanted(source, f)
        /\ made \in [Functions -> Passes]
    BY <1>1 DEF TOInv, TOTypeOK, IdleOK, ListsOK, Annotated
  <2>3. made[f] = <<"batched">>
    BY <1>1, <2>2 DEF TOInv, MadeOK
  <2>4. Append(<<"batched">>, "split") = <<"batched", "split">>
    <3> DEFINE t == Append(<<"batched">>, "split")
    <3>1. DOMAIN t = 1 .. 2 /\ t[1] = "batched" /\ t[2] = "split" /\ t = [i \in 1 .. 2 |-> t[i]]
      OBVIOUS
    <3>2. <<"batched", "split">> = [i \in 1 .. 2 |-> IF i = 1 THEN "batched" ELSE "split"]
      OBVIOUS
    <3> HIDE DEF t
    <3>3. \A i \in 1 .. 2 : t[i] = IF i = 1 THEN "batched" ELSE "split"
      BY <3>1
    <3>4. [i \in 1 .. 2 |-> t[i]] = [i \in 1 .. 2 |-> IF i = 1 THEN "batched" ELSE "split"]
      BY <3>3
    <3> QED BY <3>1, <3>2, <3>4 DEF t
  <2>5. made'[f] \in {<<"batched">>, <<"batched", "split">>}
        /\ made' \in [Functions -> Passes] /\ \A g \in Functions \ {f} : made'[g] = made[g]
    BY <2>1, <2>2, <2>3, <2>4 DEF Passes
  <2>6. stage' = "passes" /\ splitting' = {}
    BY <1>1, <1>2 DEF SplitLoops
  <2>7. TOTypeOK'
    BY <1>1, <2>5, <2>6 DEF TOInv, TOTypeOK
  <2>8. MadeOK'
    <3>1. made'[f] \in Wanted(source, f)
      BY <2>2, <2>5 DEF Results
    <3>2. \A g \in Functions \ {f} : made[g] \in IF g \in todo THEN {<<>>} ELSE Wanted(source, g)
      BY <1>1, <2>2 DEF TOInv, MadeOK
    <3> QED BY <1>1, <2>2, <2>5, <2>6, <3>1, <3>2 DEF MadeOK, Kinds
  <2> QED BY <1>1, <2>6, <2>7, <2>8 DEF TOInv, IdleOK, ListsOK, WrittenOK
<1>3. CASE FinishPasses
  <2>1. todo = {} /\ splitting = {} /\ stage' = "ll" /\ UNCHANGED <<made, splitting>>
    BY <1>3 DEF FinishPasses
  <2>2. \A f \in Functions : made[f] \in Wanted(source, f)
    BY <1>1, <2>1 DEF TOInv, MadeOK
  <2>3. IsComplete(Content)'
    BY <1>1, <2>1, <2>2 DEF IsComplete, Content
  <2>4. TOTypeOK'
    BY <1>1, <2>1 DEF TOInv, TOTypeOK, Kinds
  <2> QED BY <1>1, <2>1, <2>3, <2>4 DEF TOInv, IdleOK, ListsOK, MadeOK, WrittenOK
<1> QED BY <1>2, <1>3

(* The output. *)
LEMMA OutputStep ==
  ASSUME TOInv,
         \/ \E kind \in {"ll", "bc"} : Write(kind) \/ WriteFails(kind)
         \/ generateObject
         \/ generateObjectFails
  PROVE  TOInv'
<1>1. /\ UNCHANGED <<source, runs, FnLists, todo, splitting, made>>
      /\ stage \in Kinds
      /\ Content' = Content
  BY DEF Write, WriteFails, generateObject, generateObjectFails, Content, Kinds
<1>2. IsComplete(Content) /\ Content \in Modules
  BY <1>1, ContentIsModule DEF TOInv, MadeOK
<1>3. stage' # "passes" /\ IdleOK' /\ ListsOK'
  BY <1>1 DEF Write, WriteFails, generateObject, generateObjectFails, CommandFails, Then, TOInv, IdleOK,
              ListsOK, Kinds
<1>4. stage' \in Kinds \cup {"failed", "succeeded"} /\ MadeOK'
  <2>1. stage' \in Kinds \cup {"failed", "succeeded"}
    BY DEF Write, WriteFails, generateObject, generateObjectFails, CommandFails, Then, Kinds
  <2> QED BY <1>1, <1>2, <2>1 DEF MadeOK, IsComplete, Kinds
<1>5. files' \in [Kinds -> Modules \cup {NoFile, Broken}]
  BY <1>1, <1>2 DEF Write, WriteFails, generateObject, generateObjectFails, CommandFails, Kinds, TOInv, TOTypeOK
<1>6. TOTypeOK'
  BY <1>1, <1>4, <1>5 DEF TOInv, TOTypeOK
<1>7. NothingHalfTransformed'
  BY <1>1, <1>2, NoModuleIsNotHalf
     DEF Write, WriteFails, generateObject, generateObjectFails, CommandFails, Kinds, TOInv, TOTypeOK,
         NothingHalfTransformed, WrittenOK
<1>8. WrittenOK'
  BY <1>1 DEF Write, WriteFails, generateObject, generateObjectFails, CommandFails, Kinds, Then, TOInv,
              TOTypeOK, WrittenOK
<1> QED BY <1>3, <1>4, <1>6, <1>7, <1>8 DEF TOInv

LEMMA StepInv == TOInv /\ [TONext]_toVars => TOInv'
<1> SUFFICES ASSUME TOInv, [TONext]_toVars PROVE TOInv'
  OBVIOUS
<1>1. CASE TONext
  BY <1>1, StartStep, PassStep, SplitStep, OutputStep DEF TONext, Main
<1>2. CASE UNCHANGED toVars
  BY <1>2 DEF toVars, TOInv, TOTypeOK, IdleOK, ListsOK, MadeOK, WrittenOK, NothingHalfTransformed,
              Annotated, Content, IsComplete
<1> QED BY <1>1, <1>2

LEMMA Invariance == TOSpec => []TOInv
<1> QED BY InitInv, StepInv, PTL DEF TOSpec

-----------------------------------------------------------------------------

(* What main keeps of the functions, and the files it leaves, have their   *)
(* types.                                                                  *)
THEOREM ToolTypeCorrect == TOSpec => []TOTypeOK
<1>1. TOInv => TOTypeOK
  BY DEF TOInv
<1> QED BY <1>1, Invariance, PTL

(* When main returns 0, the three files hold the same module, of the       *)
(* source as it is, and each function was transformed as its last          *)
(* annotation says.                                                        *)
THEOREM SuccessMeansComplete == TOSpec => []SuccessIsComplete
<1>1. TOInv => SuccessIsComplete
  BY DEF TOInv, WrittenOK, MadeOK, SuccessIsComplete
<1> QED BY <1>1, Invariance, PTL

(* Whatever fails, main never leaves a module in which some annotated      *)
(* functions are transformed and others are not.                           *)
THEOREM NothingIsHalfDone == TOSpec => []NothingHalfTransformed
<1>1. TOInv => NothingHalfTransformed
  BY DEF TOInv
<1> QED BY <1>1, Invariance, PTL
=============================================================================
