# A TLA+ development of TAS-OPT

TAS-OPT transforms the LLVM IR of packet processing functions. This directory
models its passes as state machines, checks them with TLC on every small
function of a kind, and proves with TLAPS what holds for functions of any size.

## 1. The system

| Component | State | Operations | Interacts with |
|---|---|---|---|
| `PacketPathAnalysis` | `MaskIDCounter`, `BlockToMaskID` | `calculate` (called by the constructor) | reads the function's flow graph |
| `BlockPredication` | `ActionBlocks`, `PredicateBlocks`, `ReturnBlock`, `MaskIDAlloca` | `run` = `linearizeControlFlow` | owns a `PacketPathAnalysis`, calls `unifyFunctionExitNodes`, rewrites the function |
| `BatchMaker` | `ArgsToBatch`, `BatchFunc`, `BatchSizeAlloca` | `run` = `detectBatchParameters`, `doBatchTransform` | clones the function, uses `TASForLoop` |
| `TASForLoop` | preheader, header, latch, body ends | constructor (`addEmptyLoop`), `setLoopBody` | `BatchMaker` |
| `LoopSplitter` | `AnnotatedVars`, `VarUsePoints`, `EndBlocks`, `BodyEnd`, `LoopBlocks` | `run` = `prepareForLoopSplit`, `addBatchArrayForIntermediateVars`, `traverseLoopBody` | works on the function `BatchMaker` made, uses `IRLoop` |
| `IRLoop` | the blocks of a loop skeleton | `extractLoopSkeleton`, `constructEmptyLoop`, `setLoopBlocks`, `setExitBlock` | `LoopSplitter` |
| `CacheUsageInfo` | `NumOfCacheLines`, `PtrAllocas` (kept from call to call) | `analyze` | called by `CacheUsageAnalysisPass` for each annotated function |
| annotation scans (`Util`) | none | `getAnnotatedFnList`, `detectBatchParameters`, `detectExpPtrVars`, `detectExpPtrUses`, `findBatchBeginMarkerInstruction` | all passes |
| `tasopt` driver | the map of annotated functions, the module, three files on disk | `main` | runs the passes in turn, calls `ToolUtil` |
| `ToolUtil` | none | `generateIR`, `generateObject` (and commands for the tests) | clang, llc |
| pass wrappers | none | `opt` entry points | the passes |

There are no threads. What is hard is the interplay of several steps over a
graph: an id given by one iteration of a loop is read by a later step after the
graph has changed; blocks are paired by position; loops over blocks treat the
last one apart; and whether all of it is right shows only when the *generated*
code runs, on every path.

What makes each component correct:

* **PacketPathAnalysis**: the ids separate the blocks that a jump passes over;
  all targets of jumps have ids; the ids handed out are final.
* **BlockPredication**: the function it makes executes exactly the blocks that
  the branches of the original function decide on; PHI nodes keep their values;
  no assertion fails on a function it is meant for.
* **BatchMaker / TASForLoop**: the batched function runs the body once for each
  packet, in order, writes each result to its place, and reads each argument
  from its place.
* **LoopSplitter / IRLoop**: the chain of loops takes each packet through the
  whole body along its edges, and no packet reads another one's values.
* **CacheUsageInfo**: the number of cache lines is that of the accesses.
* **tasopt**: what it leaves on disk is one complete module, or can be seen not
  to be.

## 2. Modules

| Module | What it is |
|---|---|
| `FlowGraph` | functions as records: layout, successors, terminators, PHI nodes |
| `ReversePostOrder` | LLVM's depth-first traversal, step by step (external) |
| `PacketPathAnalysis` | the analysis: one action per iteration of its loop |
| `BlockPredication` | the pass: one action per helper or loop iteration |
| `FunctionRun` | abstract: what a call of a function does |
| `Linearization` | the contract between the pass and the run of its result |
| `PredicatedRun` | the run of the code the pass generates |
| `PredicatedFunction` | the pass followed by a call of its result |
| `PredicatedRunProofs` | theorems about `PredicatedRun` |
| `PredicatedFunctionProofs` | theorems about the analysis, its traversal, and `PredicatedFunction` |
| `FlowGraphEdits` | what LLVM's methods do to a flow graph (external): new block, split, successor |
| `TASForLoop` | the empty loop and the setting of its body, as operators on flow graphs |
| `BatchMaker` | the pass: one action per step of `doBatchTransform` |
| `PacketLoop` | abstract: what a batched function promises |
| `BatchedFunction` | the pass followed by a call of its result |
| `BatchedFunctionProofs` | theorems about `BatchedFunction` |
| `BatchArgs` | the arguments of a batched function: one action per step of the loops over arguments and their uses |
| `IRLoop` | the operations on loop skeletons, as operators on flow graphs |
| `LoopSplitter` | the pass: one action per loop iteration of `run` and per call of `traverseLoopBody` |
| `PacketParts` | abstract: what a split loop promises |
| `SplitFunction` | the pass followed by a call of its result |
| `CacheUsage` | the cache usage pass over the functions of a module |
| `Tasopt` | the tool: parsing, the passes, the files; runs, failures and edits of the source |
| `BatchArgsProofs`, `TasoptProofs` | theorems about the arguments and the tool |
| `SplitFunctionProofs` | theorems about the pass in `SplitFunction`, types and bounds of the run |
| `SplitRunProofs` | theorems about the packets in the run of a split function |
| `CacheUsageProofs` | theorems about `CacheUsage` |
| `SmallFunctions`, `MC...` | the inputs of the runs |

`ReversePostOrder` is extended by `PacketPathAnalysis`, that by
`BlockPredication`; `PredicatedFunction` composes `BlockPredication` with
`PredicatedRun` and refines `FunctionRun`. `FlowGraphEdits`, `TASForLoop`,
`BatchMaker`, `BatchedFunction` extend one another in this order, and
`BatchedFunction` refines `PacketLoop`. `IRLoop`, `LoopSplitter`,
`SplitFunction` extend one another, and `SplitFunction` refines `PacketParts`.
`BatchArgs` is the part of `doBatchTransform` between the clone and the returns
that does not touch the flow graph, and is independent of `BatchMaker`.

### Functions and their runs

A function is a flow graph. What its blocks compute is left out, so which
successor of a branch is taken is open: `FunctionRun` decides on a `target`
nondeterministically and then jumps there. A pass is right if the code it makes
jumps to the target that was decided on, whatever the decision.

### PacketPathAnalysis

`NumberBlock` is one iteration of the loop of `calculate`: `CounterAt` and
`IDsAt` are the `PredSize > 1` case, `NumberOnlySuccessor` the `SuccSize == 1`
case and `NumberBranchTargets` the `SuccSize > 1` case. `BlockToMaskID` is a
function whose domain is the set of keys of the map.

### BlockPredication

The phases follow `linearizeControlFlow`: `storing` (the loop over all blocks
with `setPathIDCondition`), `ordering` (the second traversal), `wiring`,
`predicating`, `phis`, then `done` or `aborted`. Assertions and checked casts
that fail lead to `aborted`: the default build has assertions. A lookup of a
block without id through `MaskIDMap.end()` is undefined and yields any id of
`GarbageIDs`. Predicate blocks are their positions.

### PredicatedRun

What the generated code does: `StoreAndJump` ends a block (the `select` and the
`store` of the path id, the jump to the next predicate block), `PredicateHolds`
and `PredicateFails` are the comparison in a predicate block,
`TakeLastPredicate` the unconditional jump of the last one. `goal` is a history
variable with the target that the branch decided on, `came` the block executed
before, `phiFrom` the block whose value the moved PHI node takes.

### BatchMaker and BatchedFunction

The stages follow `doBatchTransform`: `CloneFunction` (prototype, clone, index
variable), `ReplaceReturns` (`storeRetValInPtrArg` or `unifyReturnBlock`), and
then `addBatchLoop`: `FindMarker`, `SplitAtMarker`, `ChooseExitingBlock`,
`AddEmptyLoop`, `SetLoopBody`. `B` is the function that is changed. A failed
assertion leads to `aborted`, a null pointer that is followed to `crashed`; a
block that was created without terminator has the kind `"none"`. A function has
one more field here, `calls`, for the scan that looks for the marker.

The run of the result executes one block per step. `RunPreHeader`, `RunHeader`
and `RunLatch` are the blocks `TASForLoop` makes; `RunBlock` is any other block,
whose successor is open, and records in `written` the index at which it stores
a result (`Returning` are the blocks in which a return was). The size of a batch
is any integer: the parameter is signed and the comparison is too.

`PacketLoop` is what a batched function promises: the code before the marker
runs once, then the code after it for each packet, each until it returns. In
the refinement mapping the blocks of the loop, the first block of the body and
the exit stand for the marker, and in the latch the packet is already counted.

A function is supported (`SupportsBatch`) if the scan finds a marker, one block
returns, control comes to it only through the marker, and the code after the
marker does not lead back to it. The last two are stated with sets of blocks
that edges do not leave, which needs no recursion and can be used in proofs.

### BatchArgs

A parameter is described by what the scan and the rewriting look at: whether it
is annotated, stored as a whole, a pointer to a pointer, and the list of uses of
its variable, the newest first. Each use has a user, for `replaceUsesOfWith`
rewrites all operands of a user at once, and the kind of the instruction after
the user, which alone decides where the index of the packet goes for a pointer
to a pointer: a getelementptr of what the user loads ("index"), one of another pointer
with one index ("foreign"), or one with several indices ("field").
`createBatchedFormFnPrototype` makes the new parameter list,
`RedirectStore` reads the number of uses, `RewriteUser` is one iteration of the
loop over them. `user_back` of a value without users follows a null pointer
(`NoUserLeft`). The new getelementptr has one index and hence the type of the
pointer it is given: one with several indices has another type, and
`replaceAllUsesWith` fails an assertion (`RewriteField`), while a foreign one is
replaced silently and its index is lost. `access` says what each use accesses in
the end; `"astray"` stands for that loss, and `EachUseHasItsElement` says exactly
where it happens.

### LoopSplitter and SplitFunction

A source is a function with a loop: the successors of its blocks, their
instructions as far as the pass looks at them (annotations, uses of variables,
indirect calls) and the loop that `LoopInfo` finds. `SourceAssumption` says that
this is a natural loop (`IsNaturalLoop`), and one as the batch maker makes it
(`IsForLoop`): the code takes the header's true edge for the way into the body and
the false one for the way out, and lets the latch go to the header, without a
check. `Kept` is the scan of a list for what is to be kept. `detect` is the two
scans,
`splitAtUse` one iteration of `prepareForLoopSplit` (the cut is in front of the
use, or of a getelementptr before it: `SplitPoint`; when it splits the latch, the
second half is the latch that `LoopInfo` finds later), `findLoop` the part of `run`
up to the assertion on the exit block, with the cast in `getLoopTripCount` that
fails if a use point has split the header, `addLoop` ... `stitchLastLoop` the making
and chaining of the skeletons, `traverseLoopBody` one call of that function (the
pending calls are in `walk`; a path longer than the function has a cycle, and
the stack overflows), then `dropExtraSet` and `assignBlocks`. Reading past the
end of `LoopBlocks` leads to `undefined`: the model says nothing of what follows.

A call of the result runs a block per step. The index is a variable on the stack that
nothing but the preheaders initialises, so `Call` gives it any of `IndexValues`; the
uses in the blocks outside of the loops load it too. What is in a variable is only the
packet whose value it is (`mem`, one place for each element of the array and one
for the variable itself); `foreign` collects the variables from which a packet
read another one's value. In `PacketParts` each packet takes its own way through
the body as it was before the split, and the packets take turns in any order;
`pos` is where each one has come to. A loop is supported (`Supported`) if the
entry goes straight to its preheader and no other block does, it has one exit,
one end and no inner cycle, there is a branch in its body, every packet comes to
the use point of each annotated variable, and every variable that a block takes
from another block is annotated and set before. A use point cuts a block in two,
so a variable that is set before it and read behind it is taken from another
block as well (`TakenIn`).

The branch in the body is needed: the walk meets the end of the body once more
than there are loops only because of it (see the finding).

### CacheUsage

`PtrAllocas` is a member that is never cleared, so `collectAllocas` appends to
it, and `examineUses` goes through the variables of earlier functions again.
`CountsAllSoFar` states what the number therefore is: the lines of all functions
analyzed so far, where the pass's comment speaks of the method of interest
(`CountsMethodOfInterest`, finding 3). An address is the sum, as an unsigned, over
all getelementptrs in a row; `IsMeant` names the ones for which this is the address
of the machine. `UnsignedSize` is 2^32 in the code. A negative index is cut to a
large one (`getGEPIndex`), and the index of a step over structs is taken for a
field's (`IsField`), which fails an assertion if there is no such field.

### Tasopt

A module is the source it comes from and what was done to each function; the
files on disk are such modules, or missing, or broken. `Start` begins a run with
the source edited or not. The map of annotated functions is ordered by pointers,
so the passes come in any order. `PassAborts` is any failed assertion or crash of
a pass, which ends the process; `parseIRFails` is clang having written a file that
cannot be read back; `CommandFails` and `WriteFails` are failures of
clang, llc and the file system. The error code of the opened file is ignored by
the code, but a stream with an error ends the process when it is destroyed.

## 3. Runs

| Run | Bounds | What it shows |
|---|---|---|
| `ppa` | all acyclic graphs of 6 blocks, one return, all blocks reached, branches with two different targets; all graphs of 4 blocks with edges anywhere but to the entry; all forward graphs of 5 blocks | ids separate, are final, are there; the analysis ends |
| `predicated_run` | all forward graphs of 5 blocks x all orders x all maps to 3 ids that satisfy `IsLinearization` | the contract suffices: the run implements the original, returns, and PHI values are right |
| `predication` | all supported functions of 5 blocks, with no PHI node or one with two values in any place and order; 4 blocks with loops, several exits, `unreachable`, dead blocks; special functions with a switch, one or two blocks | the pass meets the contract of a supported function; end to end, the result implements the original; on any of the functions no run leaves the chain of predicates, and everything ends |
| `predication_phi` | one function | finding 1 |
| `batch_supported` | all supported functions of 4 blocks with loops, traps, one or two markers in any block; sizes -1 to 3 | the batched function implements the loop over packets; each result once and in order |
| `batch_any` | forward graphs of 4 blocks with exits of any kind, with and without marker, with a call through a pointer before the marker, after it in its block or in another; sizes 0, 1, 3 | one return suffices for a well-formed result unless the scan meets a call through a pointer before all markers, and then the pass always crashes; batches that are not empty are processed in order even if control does not come to the marker; pass and call end |
| `batch_args` | one parameter with up to 3 uses by up to 3 users, one of which may use it twice, followed by any kind of instruction; two parameters with up to 2 uses | each use has its element, but for the getelementptrs of another pointer stated, whose index is lost; the pass fails only for the two causes stated |
| `loop_splitter` | bodies of 2 to 5 blocks: straight, bypass, branch first or last, two ends, an inner loop, a second exit; one or two annotated variables, used in any block; twenty odd functions: use points in the entry, the header and the latch, at the start of a block, behind a getelementptr, one variable annotated twice, no preheader, no loop, a way from the entry around the loop to a use behind it, an indirect call, a variable that is set and read in the block of a use point, a branch that goes to the latch both ways, ...; sizes 0 to 3, arrays of 2 places, an index of -1, 0 or 4 at the call | the split of a supported loop succeeds, refines `PacketParts`, keeps values apart, ends if the batch fits; failures, and overruns with a large batch or an index that was not set, have the causes stated |
| `loop_split_straight_line` | the straight bodies | finding 2 |
| `cache_usage` | modules of 1 or 2 functions with up to 2 variables and 2 loads; thirteen address computations: fields in both lines, nested structs, arrays, steps over structs and values, with indices that are negative, too large or cut to a valid one, foreign bases, an index that is not constant; 4096 for 2^32 | the count is that of all functions so far; only a variable index and a step over structs to no field fail |
| `cache_usage_method` | the same modules | finding 3 |
| `driver` | 2 functions, 2 runs, 11 sources with up to 4 annotations, every failure | success is complete; nothing on disk is half transformed |

Five blocks are the fewest in which an id that was handed on can lie between a
branch and its target, with a join on both sides; six add a second such pair.
Four blocks are enough for the batch maker: a prologue, a body with a branch, and
the return, with the marker in any of them; three packets show a first, a middle
and a last one. Three uses allow a double use before and after a single one. Two
variables make three loops: a first, a middle and the parent's; arrays of two
places stand for the 32 of the code (`ArrayPlaces`), and three packets overrun
them; the index at the call is below, in, or above the arrays (`IndexValues`). In the driver two functions are the fewest of which one can be transformed
when the other one's pass fails, and two runs the fewest in which files of an
earlier run are there; `MaxRuns` is the only bound on a counter.
Each property is also run against a seeded fault in the code's model (the
definitions marked *Fault*), and is violated by it.

Fairness: the passes and the generated code are sequential, so weak fairness of
the whole next-state relation (the processor goes on) is all that is assumed.
Deadlock is not checked, because a pass, a call and a run of the tool end.

### Findings

1. PHI nodes of conditional expressions get the value of the other arm.
2. `LoopSplitter` reads past its list of sets of blocks if the loop's body has no
   branch, though the function meets the preconditions of the class.
3. The number of cache lines after an annotated function is that of all annotated
   functions up to it, not that of the function.

### Limits the model shows

These are outside what the properties assume (`Supported`, `SupportsBatch`, ...),
and each was seen as a counterexample when the assumption was dropped:

* a loop is predicated without an error, and its body is executed at most once;
* an entry block that ends with a jump to a block with no other predecessor: that
  block has no id;
* two returns: the id of `UnifiedReturnBlock` is read behind the map's end; the
  block in which the batch maker joins them has no terminator;
* a path to `unreachable` falls through to the return block (`BlockPredication.cpp`
  line 46 leaves the block out of the order);
* a return before the marker stores a result for an empty batch;
* the scans for the marker and for expensive pointers crash at a call through a
  pointer (`Util.cpp` lines 133 and 77);
* a getelementptr of another pointer that follows a use of a batched pointer to a
  pointer loses its index if it has one, and stops the pass if it has several;
* the arrays of the loop splitter are overrun by batches larger than they are, and
  behind the loops by one as large; if the entry block has a way around the loop, a
  use of an annotated variable there takes what was on the stack for its index;
* a value without a variable that is used across a cut has one register for all
  packets (the model has variables only);
  of a variable without annotation that is live across a cut there is one place
  for all packets, also if the cut is in the block that sets and reads it;
* an instruction that uses a batched argument twice crashes the batch maker.

## 4. Proofs

Eight modules hold theorems or lemmas. Each argument is an inductive invariant; the
parts named here are defined in the proof modules.

`PredicatedRunProofs` proves, for programs of any size with any order and ids
that satisfy `ProgramAssumption` (well-formed, `IsLinearization`, short-circuit
PHI nodes): type correctness, that the target stays ahead, that PHI values are
right, that blocks are executed in order, and that the run implements
`FunctionRun` of the original. The invariant `IInv` has two parts. `ControlInv`
adds to the properties that control is at an executed block, that at a block
`goal` is the block, and that `reachedFrom` tells whether the predicate tested is
the first after the block: without the last the PHI property is not inductive.
`PhiInv` is about the PHI nodes; control does not depend on it.

`PredicatedFunctionProofs` begins with the five safety
properties of the analysis, for every well-formed function. `TraversalInv` is
about the depth-first search: the stack is a path whose entries have been gone
through up to `next` (`StackOK`); visited blocks are on the stack or finished,
once (`ReachedOK`); in an acyclic function the successors of a finished block are
finished before it (`OrderOK`); and a block whose only way in is the last edge of
another one is finished right before that one (`NeighboursOK`). `PPAInv` adds for
the numbering: ids are at most the counter (`IDsOK`), blocks passed have their
targets numbered (`TargetsOK`), a join has a greater id than all blocks before it
(`JoinsOK`), and the target of an edge that is its only way in, and not the last
edge of its block, has an id no other block has or will get (`BranchesOK`). A
target of the last edge may share its id, and there `NeighboursOK` says that no
block lies between it and the branch.

The second half connects the three: for every supported function of
any size, `SupportedIsLinearized` says that the pass makes a linearization,
`SupportedDoesNotAbort` that it fails no assertion but the one on PHI nodes, and
`SupportedFollowsOriginal` and `SupportedPhiIsRight` that a call of the result
takes the paths of the original function and its PHI nodes the right values. The
set `InputFunctions` may hold other functions as well, as that of the run does. The ids were given out in the order of a first traversal, the predicates
are chained in the order of a second one. That the two are equal is proved from
the search being deterministic: `Searched` is the least set of states that holds
its start and with each state the following one, so two searches that have ended
are in the same state (`SearchEndIsUnique`). That every block is in the order is
proved from a set of blocks without a predecessor outside having a cycle
(`SomeBlockIsFirst`). `PassInv` then says what is known at each phase:
`NumberedOK` (what the analysis leaves: targets have ids that separate the blocks
in the order), `AllStored` (the branches' ids), `ActionsOK` (from the source of
an edge on, the first action block with the target's id is the target) and
`PredicatesUpTo` (the ids of the predicates made so far). `MoveInv` is about the
PHI nodes moved so far, and `CallInv` holds the invariant of
`PredicatedRunProofs`, whose lemmas are used through an instance.

`OnlyRewiredRun` drops the assumption that the function is supported: on any
function with loops, several exits or dead blocks no call comes to a block that
still has its old terminator. There nothing is known of the order of the blocks.
`AnyInv` keeps what is left: `PassInv`, that the lists are sequences (`ListsOK`),
that the return block, if it was found, returns (`ReturnBlockOK`), and that control
is at a rewired block, at the return block, or in the chain of predicates
(`CallOK`).

`BatchedFunctionProofs` proves for every function the batch maker supports and a
batch of any size that its batched form implements `PacketLoop`
(`BatchImplementsLoop`) and that each packet gets its result once and in order
(`ResultsInOrder`). The assumptions are those of `BatchMaker`: the functions are
well formed, and the blocks the pass creates are new. The proof has two halves
with a contract between them. `PassInv` says what the function is at each stage
of the pass, as the composition of the edits done so far; lemmas about each edit
(`SplitShape`, `BlockBeforeShape`, `SetSuccessorShape`) give `IsBatchLoop`, the
successors and terminators of all blocks of the result. `RunInv` is about the
run: before the marker control is in every set of blocks that is left only at
the marker, hence not at the return; after it, in every set the code after the
marker does not leave, hence not at the marker; the index is within the batch,
and the results written are those of the packets before it. Without the first
two a packet could return before the loop or start it again, and neither
property is inductive.

Three more theorems are about any function. `BatchTypes` needs `ShapeInv`, what the
pass keeps of the form of a function even if it joins several returns in a block
without a terminator. `OneReturnTransformed` says that one return is enough for a
well-formed result. `NonEmptyBatchesInOrder` allows control to come around the
marker: before the first packet it may be anywhere in the code (`FirstPass`), and a
return there finishes the first packet, which a batch that is not empty has; from
then on the index is within the batch as before.

`BatchArgsProofs` proves type correctness, `EachUseHasItsElement` and
`FailsOnlyOnDoubleUse` for any parameter lists that satisfy
`SignatureAssumption` (uses with one user are alike). The heart is `CountOK`: all
uses of a user are pending or none, there are at most as many pending uses as the
count, and fewer only if some user had more than one; so a count that comes to
zero has covered all users.

`TasoptProofs` proves its three invariants for any functions, sources and number
of runs. `TOInv` adds what each function of the module has gone through
(`MadeOK`: nothing while it is still to be done, one pass after it) and which
files hold the module at each stage (`WrittenOK`).

`CacheUsageProofs` proves its three invariants for any module that satisfies
`ModuleAssumption`, which is what the verifier of LLVM demands of an index into a
struct, and any size of a line and of an unsigned. `CUInv` says that the list of pointers
is that of all functions analyzed so far (`ListInv`: it is never cleared), and that
the lines found are those of the pointers examined since the last scan started
(`LinesInv`), so that after a function they are those of all functions. That an
address is a sum over a sequence needs no induction over sequences: both the code's
sum and the one it is compared with are recursive functions over `0 .. n`, which
agree at each step (`CountingUp`).

`SplitFunctionProofs` proves `SFTypeOK`, `FailureHasCause`, `StaysInArrays` and
`SupportedIsSplit` for functions with any number of blocks and annotated variables, any batch and any size
of the arrays, under `SourceAssumption`, `SizeAssumption` and `IndexAssumption` (the
index at the call is some integer). `SFInv` follows the
pass:

* While blocks are split (`SplittingOK`), the function stays one of numbered blocks,
  and `KeptLoop` says that one exit, one end and no cycle survive each split. The
  loop need not survive if a use point is in the header, and then the pass fails
  later. `PointsOK` says where the use points are: each that is still to be split
  at is somewhere, and is at the start of a block only if it was in the source, or
  if the block was split there before, for a variable that is annotated twice.
* While the loops are made and chained (`LoopingOK`), each new loop has the numbers
  that `Skeleton` gives it, and `EdgesOK` says which edges can lead to the blocks in
  which control is only while the index is below the size (`Inside`): the first edge
  of a header, and edges from `Inside` itself. That is more than `StaysInArrays`
  says of the result, but without it for each edge that is set on the way the last
  one would not do.
* During the walk (`WalkOK`) all pending calls are for blocks of the body, and the
  depth of a call is the number of blocks of a way through the body that ends at its
  block (`IsReachedIn`). In a body without a cycle these blocks are different, so
  the depth cannot exceed the size of the function, which is the limit that
  `overflowStack` sets.
* During a call (`CallInv`) the index is set and below the size of the batch `Inside`,
  and set and at most the size in a header (`HeadersMade`). Elsewhere it may still be
  what it was at the call, but only in the entry block and the first preheader if the
  entry has no other way on. For that `EdgesOK` says also that from outside only the
  preheaders, which set the index, lead to headers. If the loop has no preheader, the
  chain of loops ends in an edge to a null block, and there is no call.

The hardest steps are those of `KeptLoop`: that a cut keeps a natural loop and its
acyclic body (`SplitLoop`, `SplitAcyclic`), and that the loop that `LoopInfo` finds
in a source has the edges the pass relies on (`SourceLoop`).

`SupportedIsSplit` needs a second invariant, `SplitInv`, beside `SFInv`. The code
makes one loop for each annotated variable and one more, and takes for them the sets
of blocks that the walk leaves, but for the last one; nothing in it compares the two
numbers. The proof counts both:

* While blocks are split (`CutsOK`), the use points that are still to be split at are
  in blocks that were not cut, not at their start, and in the order of the
  annotations. So each variable cuts a block of its own, and none is the end of the
  body, for a cut block goes to its rest (`CutsMade`).
* During the walk (`IsVisited`), the sets made so far and the pending calls together
  are more than the cuts visited so far, by two once a branch was visited: a call
  leads to one other at least, to two from a branch, and to none only from the end of
  the body, which makes a set, as a cut does. The walk ends without pending calls, and then it has visited a set of
  blocks that all successors stay in, which is the whole body, because control comes
  to all blocks of a loop (`IsConnected`, which a cut keeps: `SplitConnected`). So
  there is at least one set more than loops, and one can be thrown away.

The branch that `Supported` asks for is what makes the extra set; the run
`loop_split_straight_line` shows what happens without one.

`SplitRunProofs` proves what a call of the result does, for any supported function
and any batch: `TakesPacketsThroughBody`, that each step of the loops is a step of
`PacketParts`, and `ReadsOwnValue`. The abstract specification takes each packet along
the edges of the body as it was before the split, the code takes all packets through
one set of blocks before the next. `RouteInv` says why the sets fit together, stage by
stage:

* While blocks are split (`WaysKept`): all packets come to each cut and to each use
  point that is left. `LeadsTo(s, L, S, c)` says so without paths: `S` holds the begin
  of the body and is left only to `c`. A cut keeps it, with the new block added to
  `S` where needed (`WaysAfterCut`). Each variable that a block takes from another one
  is set by a block that all packets come to, and without the reader (`SetsOK`); when
  a cut separates a read from the write before it, the first half is that block
  (`SetsAfterCut`). When all are cut, only annotated variables are taken from other
  blocks (`WaysFound`), for the others are set in the block that reads them, and no
  use point is left between (`LocalsOK`).
* During the walk (`PartsFound`): a set begins behind the end of the one before and
  ends with a cut, or the last one with the end of the body; its first block comes
  before its end, and no way leads back to an earlier end (`IsPart`). `IsOnWay` is
  the same for the set that is being filled, which is what makes it inductive: the
  block the walk is at comes before each cut that has no set yet. Only as
  many sets matter as there are loops; what the walk finds later is not used.
* While loops are chained and filled (`LoopsFollow`, `LoopsHaveParts`): a loop is left
  to the preheader of the next, its header leads to the first block of its set and the
  end of the set to its latch, and no other edge of the body has changed.

A set may lack blocks, those of the other side of a branch, which the walk finds later.
The code is right all the same because of a set it uses no more than the two ends. So the
proof does not speak of the sets but of regions (`RegionsAre`): from the first block
of the k-th set control meets its end, and no other. `RunInv` follows the call: at
each place of the k-th loop the packets before the index are at the end of the k-th set,
the others at that of the one before (`AreThrough`); within the body, control is in the
region and comes from where the packet is. From that each step is one of
`PacketParts`, and the call returns only when all packets are at the end of the body.

`MemInv` adds the arrays. A packet that is no longer before a block that sets a
variable, in the sense of `LeadsTo`, has its own value in its place. When a block reads
the variable, the packet is behind one that sets it, because `SetsOK` has such a block
that all ways to the reader come by.

The attempt to prove the two showed that `Supported` was too weak. A variable that is
set before a cut and read behind it, in what was one block, was supported although the
code gets it wrong (see the limits). So was a loop in another one, whose preheader is
entered again; the code never splits such a loop, because `*LI.begin()` is an outermost
one.

Only model-checked is liveness, which is beyond the prover: `AnalysisEnds`,
`CallReturns`, `PredicatedCallReturns`, `BatchReturns` and `SupportedBatchReturns`.

## 5. Order of work

The analysis and the predication came first, then the batch maker with its run,
then its arguments, the proof of the analysis, the loop splitter, the cache
analysis and the driver, the proof about the predication from the analysis to the
return of the call, and then the proofs about unsupported functions, the cache
analysis and the loop splitter, last about the packets in the split loops. What is
open: the composition of the batch maker with the loop splitter (section 6).

## 6. Not modelled

* What blocks compute, types, names and printing.
* In `ToolUtil`, `runOpt`, `linkObjects` and `compileWithClangDriver`: each runs
  one command for a test.
* Helpers that nothing calls: `cloneLoopBasicBlocks`, `visitSuccessor`,
  `getReturnBlocks`, `replaceUsesWithinBB`, `getTypeSizeInBits`,
  `printRegeionInfo`, `IRLoop::analyze`, `LoopBodyTraverser`.
* `BatchMakerPass` repeats the driver's branch (it reports a change when there is
  none: line 38), `LoopSplitterPass` does not compile at this commit.
* The composition of `BatchMaker` with `LoopSplitter`: the sources of
  `LoopSplitter` have the shape of a batched function (entry, preheader, header,
  latch, exit), but are not its output.
* Scripts and evaluation programs.
