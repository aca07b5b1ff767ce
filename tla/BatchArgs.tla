------------------------------ MODULE BatchArgs ------------------------------
(***************************************************************************)
(* The arguments of a batched function.  BatchMaker turns each annotated   *)
(* argument into an array with one element for each packet, and then goes  *)
(* through the uses of the variable that held the single argument, to let  *)
(* them use the element of the packet at hand.                             *)
(*                                                                         *)
(* A parameter is a record                                                 *)
(*                                                                         *)
(*   annotated  its variable has the annotation "batch_arg"                *)
(*   direct     it is stored into its variable as a whole, in the entry    *)
(*              block (a struct that is passed in pieces or by reference   *)
(*              is not)                                                    *)
(*   isDouble   it is a pointer to a pointer                               *)
(*   uses       the uses of the variable, the newest first, as LLVM keeps  *)
(*              them; each names its user and says what instruction        *)
(*              follows the user: "index", an indexing of the value it     *)
(*              loads, "foreign", a getelementptr of another pointer with  *)
(*              one index, "field", one with several indices, which goes   *)
(*              into a compound value, or "plain", anything else           *)
(***************************************************************************)
EXTENDS Integers, Sequences, FiniteSets

Uses == [user : Nat, next : {"index", "foreign", "field", "plain"}]

CONSTANT Signatures    \* the parameter lists of the functions to be batched

Parameter == [annotated : BOOLEAN, direct : BOOLEAN, isDouble : BOOLEAN, uses : Seq(Uses)]

ASSUME SignatureAssumption ==
  \A s \in Signatures :
    /\ s \in Seq(Parameter)
    /\ \A i \in DOMAIN s : \A j, k \in DOMAIN s[i].uses :
         s[i].uses[j].user = s[i].uses[k].user => s[i].uses[j] = s[i].uses[k]

VARIABLES
  params,             \* the parameters of NonBatchFunc
  isVoid,
  stage,
  BatchFuncArgList,   \* the parameters of BatchFunc
  arg,                \* the position of the parameter at hand
  pending,            \* the uses of its old variable that are left
  NumUses,            \* the uses still to be rewritten, by the count
  access              \* what each use of each parameter accesses

baVars == <<params, isVoid, stage, BatchFuncArgList, arg, pending, NumUses, access>>

BAInit ==
  /\ params \in Signatures
  /\ isVoid \in BOOLEAN
  /\ stage = "start"
  /\ BatchFuncArgList = <<>>
  /\ arg = 1
  /\ pending = {}
  /\ NumUses = 0
  /\ access = [i \in DOMAIN params |-> [k \in DOMAIN params[i].uses |-> "old"]]

(* The values that the entry block stores into an annotated variable. *)
detectBatchParameters == {i \in DOMAIN params : params[i].annotated /\ params[i].direct}

(* A pointer to a pointer is taken for an array already, any other batched *)
(* parameter becomes a pointer to its type.                                *)
TASArgAttr(IsBatch, double) ==
  [IsBatch |-> IsBatch,
   Ty |-> IF IsBatch /\ ~double THEN "array" ELSE "unchanged",
   IsDoublePtr |-> IsBatch /\ double]

(* The old parameters in their places, the batch size, and the array of    *)
(* results if there are any.                                               *)
createBatchedFormFnPrototype ==
  /\ stage = "start"
  /\ BatchFuncArgList' =
       [i \in DOMAIN params |-> TASArgAttr(i \in detectBatchParameters, params[i].isDouble)]
       \o <<TASArgAttr(FALSE, FALSE)>>
       \o (IF isVoid THEN <<>> ELSE <<[TASArgAttr(FALSE, FALSE) EXCEPT !.Ty = "array"]>>)
  /\ stage' = "arguments"
  /\ UNCHANGED <<params, isVoid, arg, pending, NumUses, access>>

SkipArgument ==
  /\ stage = "arguments"
  /\ arg \in DOMAIN params
  /\ ~BatchFuncArgList[arg].IsBatch
  /\ arg' = arg + 1
  /\ UNCHANGED <<params, isVoid, stage, BatchFuncArgList, pending, NumUses, access>>

(* Fault: the store of the argument is counted, too. *)
UsesAndStore(uses) == Len(uses) + 1

getNumUses(uses) == Len(uses)

(* The store of the argument goes to a new variable; all other uses of the *)
(* old one are counted, once.                                              *)
RedirectStore ==
  /\ stage = "arguments"
  /\ arg \in DOMAIN params
  /\ BatchFuncArgList[arg].IsBatch
  /\ pending' = DOMAIN params[arg].uses
  /\ NumUses' = getNumUses(params[arg].uses)
  /\ stage' = "rewriting"
  /\ UNCHANGED <<params, isVoid, BatchFuncArgList, arg, access>>

Newest == CHOOSE k \in pending : \A j \in pending : k <= j

(* replaceUsesOfWith replaces all operands of the user. *)
UsesOfSameUser(k) == {j \in pending : params[arg].uses[j].user = params[arg].uses[k].user}

(* Fault: no use of a pointer to a pointer is given the index. *)
NeverIndexed(k) == IF BatchFuncArgList[arg].IsDoublePtr THEN "whole" ELSE "own"

(* A user of a double pointer gets the packet's element only if its value  *)
(* is indexed by the instruction that follows: the index is then replaced. *)
(* Any other user gets the whole array, and if a getelementptr of another  *)
(* pointer follows, that one's index is lost ("astray").                   *)
Accessed(k) ==
  IF ~BatchFuncArgList[arg].IsDoublePtr \/ params[arg].uses[k].next = "index" THEN "own"
  ELSE IF params[arg].uses[k].next = "foreign" THEN "astray"
  ELSE "whole"

(* A getelementptr gives a pointer of the type it is given if it has one   *)
(* index, like the new one, and never that type if it has several.         *)
TypesDiffer(k) == BatchFuncArgList[arg].IsDoublePtr /\ params[arg].uses[k].next = "field"

(* One iteration of the loop over the uses. *)
RewriteUser ==
  /\ stage = "rewriting"
  /\ NumUses > 0
  /\ pending # {}
  /\ ~TypesDiffer(Newest)
  /\ access' = [access EXCEPT ![arg] =
       [k \in DOMAIN @ |-> IF k \in UsesOfSameUser(Newest) THEN Accessed(Newest) ELSE @[k]]]
  /\ pending' = pending \ UsesOfSameUser(Newest)
  /\ NumUses' = NumUses - 1
  /\ UNCHANGED <<params, isVoid, stage, BatchFuncArgList, arg>>

(* replaceAllUsesWith asserts that the types are the same. *)
RewriteField ==
  /\ stage = "rewriting"
  /\ NumUses > 0
  /\ pending # {}
  /\ TypesDiffer(Newest)
  /\ stage' = "aborted"
  /\ UNCHANGED <<params, isVoid, BatchFuncArgList, arg, pending, NumUses, access>>

(* user_back of a value that has no user. *)
NoUserLeft ==
  /\ stage = "rewriting"
  /\ NumUses > 0
  /\ pending = {}
  /\ stage' = "crashed"
  /\ UNCHANGED <<params, isVoid, BatchFuncArgList, arg, pending, NumUses, access>>

(* Fault: the next argument's store is not looked for. *)
NextArgument ==
  /\ stage = "rewriting"
  /\ NumUses = 0
  /\ arg' = arg + 1
  /\ UNCHANGED <<params, isVoid, stage, BatchFuncArgList, pending, NumUses, access>>

FinishArgument ==
  /\ stage = "rewriting"
  /\ NumUses = 0
  /\ arg' = arg + 1
  /\ stage' = "arguments"
  /\ UNCHANGED <<params, isVoid, BatchFuncArgList, pending, NumUses, access>>

FinishArguments ==
  /\ stage = "arguments"
  /\ arg \notin DOMAIN params
  /\ stage' = "done"
  /\ UNCHANGED <<params, isVoid, BatchFuncArgList, arg, pending, NumUses, access>>

BANext ==
  \/ createBatchedFormFnPrototype
  \/ SkipArgument
  \/ RedirectStore
  \/ RewriteUser
  \/ RewriteField
  \/ NoUserLeft
  \/ FinishArgument
  \/ FinishArguments

BASpec == BAInit /\ [][BANext]_baVars

-----------------------------------------------------------------------------

BATypeOK ==
  /\ params \in Signatures
  /\ isVoid \in BOOLEAN
  /\ stage \in {"start", "arguments", "rewriting", "done", "aborted", "crashed"}
  /\ arg \in 1 .. Len(params) + 1
  /\ stage = "rewriting" => arg <= Len(params) /\ pending \subseteq DOMAIN params[arg].uses
  /\ NumUses \in Nat
  /\ DOMAIN access = DOMAIN params
  /\ \A i \in DOMAIN params : access[i] \in [DOMAIN params[i].uses -> {"old", "own", "whole", "astray"}]

(* The uses of a parameter differ in their users. *)
UsersUseOnce(i) ==
  \A j, k \in DOMAIN params[i].uses :
    params[i].uses[j].user = params[i].uses[k].user => j = k

(* The instruction after a use of a pointer to a pointer is of the kind.   *)
IsFollowedBy(i, k, next) == params[i].isDouble /\ params[i].uses[k].next = next

(* When the pass is through, no use of a batched argument is left on the   *)
(* old variable, into which nothing is stored any more, and each use of an *)
(* array, or indexing of a pointer to a pointer, accesses the packet's own *)
(* element.  The loop counts uses but rewrites users, so this needs that   *)
(* each iteration rewrites something that was counted.  The index of       *)
(* another pointer is lost, and nothing tells, where its getelementptr     *)
(* follows a use of a pointer to a pointer, and only there.                *)
EachUseHasItsElement ==
  stage = "done" =>
    \A i \in detectBatchParameters : \A k \in DOMAIN params[i].uses :
      /\ access[i][k] # "old"
      /\ ~params[i].isDouble \/ params[i].uses[k].next = "index" => access[i][k] = "own"
      /\ access[i][k] = "astray" <=> IsFollowedBy(i, k, "foreign")

(* The loop follows a null pointer, because the count was read before the  *)
(* uses were rewritten, only if a batched argument is used twice by one    *)
(* instruction; the assertion on the types fails only on a getelementptr   *)
(* of several indices after a use of a pointer to a pointer.  The pass     *)
(* gets through only without either.                                       *)
FailsOnlyOnDoubleUse ==
  /\ stage = "crashed" => \E i \in detectBatchParameters : ~UsersUseOnce(i)
  /\ stage = "aborted" =>
       \E i \in detectBatchParameters : \E k \in DOMAIN params[i].uses : IsFollowedBy(i, k, "field")
  /\ stage = "done" => \A i \in detectBatchParameters :
       UsersUseOnce(i) /\ \A k \in DOMAIN params[i].uses : ~IsFollowedBy(i, k, "field")
=============================================================================
