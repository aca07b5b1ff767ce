------------------------------ MODULE CacheUsage ------------------------------
(***************************************************************************)
(* The cache usage analysis: CacheUsageAnalysisPass visits the functions   *)
(* of a module, and its one CacheUsageInfo counts the cache lines that are *)
(* accessed through pointers in the functions that are annotated.          *)
(*                                                                         *)
(* A module is a sequence of functions, a function a record                *)
(*                                                                         *)
(*   annotations   the strings the module's list of annotations has for it *)
(*   allocas       the variables of the entry block that hold a pointer    *)
(*                                                                         *)
(* and a variable a record                                                 *)
(*                                                                         *)
(*   compound   it points to a struct or an array, not to a single value   *)
(*   uses       for each load of it the getelementptrs right behind the    *)
(*              load                                                       *)
(*                                                                         *)
(* A getelementptr has the type it indexes, the last index idx (which is   *)
(* the only one if it steps from one object to another), whether this is a *)
(* constant, and whether it continues the address at hand.                 *)
(***************************************************************************)
EXTENDS Integers, Sequences, FiniteSets, SequencesExt, FiniteSetsExt

CONSTANTS Modules, CacheLineSize,
          UnsignedSize  \* the number of values of an unsigned, 2^32 in the code

ASSUME CacheLineAssumption == CacheLineSize \in Nat \ {0} /\ UnsignedSize \in Nat \ {0}

(* An object begins with its first field, if it has one, and an index of a *)
(* struct that does not step over structs is that of a field: a function   *)
(* with another one is no well-formed one.                                 *)
IsType(type) ==
  /\ type.kind \in {"single", "struct", "array"}
  /\ type.size \in Nat
  /\ type.kind = "struct" => /\ type.offsets \in Seq(Nat)
                             /\ Len(type.offsets) < UnsignedSize
                             /\ type.offsets # <<>> => type.offsets[1] = 0
  /\ type.kind = "array" => type.element \in Nat

IsGep(gep) ==
  /\ IsType(gep.type)
  /\ gep.idx \in Int
  /\ gep.type.kind = "struct" /\ ~gep.steps => gep.idx + 1 \in DOMAIN gep.type.offsets

IsSequence(s) == s \in Seq(Range(s))

IsFunction(f) ==
  /\ IsSequence(f.allocas)
  /\ \A alloca \in Range(f.allocas) :
       /\ IsSequence(alloca.uses)
       /\ \A use \in Range(alloca.uses) : IsSequence(use) /\ \A gep \in Range(use) : IsGep(gep)

ASSUME ModuleAssumption ==
  \A m \in Modules : IsSequence(m) /\ \A f \in Range(m) : IsFunction(f)

fn_mark == "tas_cacheline_count"

VARIABLES
  module,
  attributes,         \* the attributes of each function
  visited,            \* the functions the pass is done with
  stage,
  PtrAllocas,         \* the variables that are tracked: function, position
  examined,           \* how many of them have been examined
  MemoryCacheLineId,  \* a variable with the number of a line
  NumOfCacheLines

cuVars == <<module, attributes, visited, stage, PtrAllocas, examined, MemoryCacheLineId,
            NumOfCacheLines>>

CUInit ==
  /\ module \in Modules
  /\ attributes = [f \in DOMAIN module |-> {}]
  /\ visited = 0
  /\ stage = "start"
  /\ PtrAllocas = <<>>
  /\ examined = 0
  /\ MemoryCacheLineId = {}
  /\ NumOfCacheLines = 0

(* All annotations of a function become attributes. *)
setAnnotationInFunctionObject ==
  /\ stage = "start"
  /\ attributes' = [f \in DOMAIN module |-> Range(module[f].annotations)]
  /\ stage' = "functions"
  /\ UNCHANGED <<module, visited, PtrAllocas, examined, MemoryCacheLineId, NumOfCacheLines>>

current == visited + 1

skipFunction ==
  /\ stage = "functions"
  /\ current \in DOMAIN module
  /\ fn_mark \notin attributes[current]
  /\ visited' = current
  /\ UNCHANGED <<module, attributes, stage, PtrAllocas, examined, MemoryCacheLineId, NumOfCacheLines>>

(* Fault: pointers to single values are tracked, too. *)
AnyPointer(alloca) == TRUE

(* A pointer is a single value, so a pointer to a pointer is not tracked,  *)
(* and the case that analyze has for it is never taken.                    *)
IsTracked(alloca) == alloca.compound

(* The loop over the entry block of a function, which adds its variables   *)
(* to a list.                                                              *)
AddTracked(list, f) ==
  LET allocas == module[f].allocas
      added[k \in 0 .. Len(allocas)] ==
        IF k = 0 THEN list
        ELSE IF IsTracked(allocas[k]) THEN Append(added[k - 1], <<f, k>>) ELSE added[k - 1]
  IN added[Len(allocas)]

(* The start of analyze.  The list is a member, and is not cleared. *)
collectAllocas ==
  /\ stage = "functions"
  /\ current \in DOMAIN module
  /\ fn_mark \in attributes[current]
  /\ PtrAllocas' = AddTracked(PtrAllocas, current)
  /\ MemoryCacheLineId' = {}
  /\ examined' = 0
  /\ stage' = "uses"
  /\ UNCHANGED <<module, attributes, visited, NumOfCacheLines>>

(* A constant index, also a negative one, is cut to an unsigned. *)
getGEPIndex(gep) == gep.idx % UnsignedSize

(* The index that steps over structs is taken for that of a field as well, *)
(* and getElementOffset demands that there is such a field.                *)
IsField(gep) == gep.type.kind = "struct" => getGEPIndex(gep) < Len(gep.type.offsets)

getByteOffsetRelative(gep) ==
  LET offset == IF gep.type.kind = "single" THEN 0
                ELSE IF gep.type.kind = "struct" THEN gep.type.offsets[getGEPIndex(gep) + 1]
                ELSE gep.type.element * getGEPIndex(gep)
  IN offset % UnsignedSize

(* Fault: the last getelementptr gives the offset. *)
LastOffset(use) == getByteOffsetRelative(Last(use))

Total(offsets) ==
  LET sum[k \in 0 .. Len(offsets)] == IF k = 0 THEN 0 ELSE sum[k - 1] + offsets[k]
  IN sum[Len(offsets)]

(* All getelementptrs in a row are taken for parts of one address. *)
getByteOffsetAbsolute(use) ==
  Total([k \in DOMAIN use |-> getByteOffsetRelative(use[k])]) % UnsignedSize

(* Fault: only the first index is looked at. *)
FirstIsConstant(use) == use[1].constant

IsConstant(use) == \A k \in DOMAIN use : use[k].constant

HasOffset(use) == IsConstant(use) /\ \A k \in DOMAIN use : IsField(use[k])

(* Loads that no getelementptr follows are left out. *)
IndexedUses(v) == {use \in Range(module[v[1]].allocas[v[2]].uses) : use # <<>>}

CacheLines(v) ==
  {<<v, getByteOffsetAbsolute(use) \div CacheLineSize>> : use \in IndexedUses(v)}

(* One iteration of the loop over the variables, those of functions that   *)
(* were visited before included.  An index that is not a constant, or the  *)
(* one of a struct that is no field's, fails an assertion.                 *)
examineUses ==
  /\ stage = "uses"
  /\ examined < Len(PtrAllocas)
  /\ LET v == PtrAllocas[examined + 1]
     IN IF \A use \in IndexedUses(v) : HasOffset(use)
        THEN /\ MemoryCacheLineId' = MemoryCacheLineId \cup CacheLines(v)
             /\ examined' = examined + 1
             /\ UNCHANGED stage
        ELSE stage' = "aborted" /\ UNCHANGED <<MemoryCacheLineId, examined>>
  /\ UNCHANGED <<module, attributes, visited, PtrAllocas, NumOfCacheLines>>

countLines ==
  /\ stage = "uses"
  /\ examined = Len(PtrAllocas)
  /\ NumOfCacheLines' = Cardinality(MemoryCacheLineId)
  /\ visited' = current
  /\ stage' = "functions"
  /\ UNCHANGED <<module, attributes, PtrAllocas, examined, MemoryCacheLineId>>

CUNext ==
  \/ setAnnotationInFunctionObject
  \/ skipFunction
  \/ collectAllocas
  \/ examineUses
  \/ countLines

CUSpec == CUInit /\ [][CUNext]_cuVars

-----------------------------------------------------------------------------

CUTypeOK ==
  /\ module \in Modules
  /\ visited \in 0 .. Len(module)
  /\ stage \in {"start", "functions", "uses", "aborted"}
  /\ \A k \in DOMAIN PtrAllocas :
       /\ PtrAllocas[k][1] \in 1 .. visited + 1
       /\ module[PtrAllocas[k][1]].allocas[PtrAllocas[k][2]].compound
  /\ examined \in 0 .. Len(PtrAllocas)
  /\ MemoryCacheLineId \subseteq Range(PtrAllocas) \X Nat
  /\ NumOfCacheLines \in Nat

(* What the machine does: stepping goes over whole objects, and an address *)
(* ends where another one begins.                                          *)
Displacement(gep) ==
  IF gep.steps THEN gep.idx * gep.type.size
  ELSE IF gep.type.kind = "struct" THEN gep.type.offsets[gep.idx + 1]
  ELSE gep.type.element * gep.idx

Address(use) ==
  LET other == {k \in DOMAIN use : ~use[k].continues}
      length == IF other = {} THEN Len(use) ELSE Min(other) - 1
  IN Total([k \in 1 .. length |-> Displacement(use[k])])

Pointers(f) ==
  {<<f, k>> : k \in {j \in DOMAIN module[f].allocas : module[f].allocas[j].compound}}

AccessedLines(f) ==
  UNION {{<<v, Address(use) \div CacheLineSize>> : use \in IndexedUses(v)} : v \in Pointers(f)}

Analyzed == {f \in 1 .. visited : fn_mark \in Range(module[f].annotations)}

UsesOf(f) == UNION {Range(module[f].allocas[k].uses) : k \in DOMAIN module[f].allocas}

(* The analysis is meant for fields of structs and elements of arrays that *)
(* are part of an object, not for arrays of objects or elements of         *)
(* vectors, and for offsets that an unsigned can hold.                     *)
IsMeantGep(gep) ==
  /\ gep.continues
  /\ IF gep.steps THEN gep.idx = 0 ELSE gep.type.kind # "single"
  /\ gep.idx \in 0 .. UnsignedSize - 1
  /\ Displacement(gep) \in 0 .. UnsignedSize - 1

IsMeant(f) ==
  \A use \in UsesOf(f) :
    (\A k \in DOMAIN use : IsMeantGep(use[k])) /\ Address(use) < UnsignedSize

(* What the comment on the pass says: the count after an annotated         *)
(* function is the number of lines that this function accesses.            *)
CountsMethodOfInterest ==
  stage = "functions" /\ visited \in Analyzed /\ IsMeant(visited) =>
    NumOfCacheLines = Cardinality(AccessedLines(visited))

(* What the code does instead, for a module with one annotated function    *)
(* the same: the list of pointers is never cleared, so the count after a   *)
(* function is that of all functions analyzed up to it, each line that one *)
(* of them accesses through one variable once.                             *)
CountsAllSoFar ==
  stage = "functions" /\ (\A f \in Analyzed : IsMeant(f)) =>
    NumOfCacheLines = Cardinality(UNION {AccessedLines(f) : f \in Analyzed})

(* A variable index, or a step over as many structs as there is no field:  *)
(* p[5].x for a struct of three, or p[-1].x for any.                       *)
IsBadIndex(gep) ==
  ~gep.constant \/ (gep.type.kind = "struct" /\ getGEPIndex(gep) + 1 \notin DOMAIN gep.type.offsets)

HasBadIndex(f) ==
  \E v \in Pointers(f) : \E use \in IndexedUses(v) : \E k \in DOMAIN use : IsBadIndex(use[k])

(* These two are what ends the pass, and with it the process, but only in  *)
(* a function that is annotated, and for a variable that is tracked; no    *)
(* such index is ever counted.                                             *)
FailsOnBadIndex ==
  /\ stage = "aborted" => HasBadIndex(current)
  /\ \A f \in Analyzed : ~HasBadIndex(f)
=============================================================================
