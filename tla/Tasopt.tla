-------------------------------- MODULE Tasopt --------------------------------
(***************************************************************************)
(* The tool tasopt: clang compiles a source file to IR, the pass of each   *)
(* annotated function transforms it, and the module is written as assembly *)
(* (over the file that clang wrote), as bitcode, and compiled to an        *)
(* object.  A pass that fails an assertion or crashes takes the process    *)
(* with it, and any command or write may fail.  The tool is run again and  *)
(* again, and the source is edited in between.                             *)
(*                                                                         *)
(* What a source file says is the list of its annotations, in order: pairs *)
(* of a function or a variable and a string.  A module, or the content of  *)
(* a file, is its source and what was done to each function.               *)
(***************************************************************************)
EXTENDS Naturals, Sequences, FiniteSetsExt

CONSTANTS
  Functions,
  Sources,      \* lists of annotations
  MaxRuns       \* bound on the number of runs

ASSUME SourcesAssumption ==
  /\ MaxRuns \in Nat
  /\ \A s \in Sources : s \in Seq([of : Functions \cup {"variable"}, note : STRING])

VARIABLES
  source,      \* what the source file says
  runs,        \* how many runs were started
  stage,       \* where main is; the exit status after it
  FnLists,
  todo,        \* the functions the loop over FnLists has not come to
  splitting,   \* the function whose batched form LoopSplitter is to split
  made,        \* what was done to each function of the module
  files        \* the contents of the assembly, bitcode and object files

toVars == <<source, runs, stage, FnLists, todo, splitting, made, files>>
passVars == <<source, runs, FnLists, files>>

Kinds == {"ll", "bc", "o"}
NoFile == [from |-> <<>>, made |-> [nothing |-> <<>>]]
Broken == [from |-> <<>>, made |-> [part |-> <<>>]]
Content == [from |-> source, made |-> made]
Untouched == [f \in Functions |-> <<>>]

TOInit ==
  /\ source \in Sources
  /\ runs = 0
  /\ stage = "failed"
  /\ FnLists = <<>>
  /\ todo = {}
  /\ splitting = {}
  /\ made = Untouched
  /\ files = [k \in Kinds |-> NoFile]

Exited == stage \in {"failed", "succeeded"}

(* The source is edited, or not, and the tool is started again. *)
Start ==
  /\ Exited
  /\ runs < MaxRuns
  /\ runs' = runs + 1
  /\ source' \in Sources
  /\ made' = Untouched
  /\ stage' = "parse"
  /\ FnLists' = <<>>
  /\ UNCHANGED <<todo, splitting, files>>

(* The compiler leaves no output, or the old one, when it fails. *)
CommandFails(kind) ==
  /\ files' \in {files, [files EXCEPT ![kind] = NoFile]}
  /\ stage' = "failed"

(* Without the option -c, and with a source that does not compile, the     *)
(* process exits here.                                                     *)
parseInputFileFails ==
  /\ stage = "parse"
  /\ CommandFails("ll")
  /\ UNCHANGED <<source, runs, FnLists, todo, splitting, made>>

(* clang has succeeded, but what it wrote cannot be read back. *)
parseIRFails ==
  /\ stage = "parse"
  /\ files' = [files EXCEPT !.ll = Content]
  /\ stage' = "failed"
  /\ UNCHANGED <<source, runs, FnLists, todo, splitting, made>>

(* The output of generateIR is read back. *)
parseInputFile ==
  /\ stage = "parse"
  /\ files' = [files EXCEPT !.ll = Content]
  /\ stage' = "annotations"
  /\ UNCHANGED <<source, runs, FnLists, todo, splitting, made>>

Annotated == {source[i].of : i \in DOMAIN source} \cap Functions

(* Fault: an annotation is kept if another one follows. *)
FirstAnnotations ==
  [f \in Annotated |-> source[Min({i \in DOMAIN source : source[i].of = f})].note]

(* Of the annotations of a function the last one stays in the map. *)
AnnotationsOf ==
  [f \in Annotated |-> source[Max({i \in DOMAIN source : source[i].of = f})].note]

getAnnotatedFnList ==
  /\ stage = "annotations"
  /\ FnLists' = AnnotationsOf
  /\ todo' = Annotated
  /\ stage' = "passes"
  /\ UNCHANGED <<source, runs, splitting, made, files>>

(* The map is ordered by the addresses of the functions: any order. *)
IsNext(f) == stage = "passes" /\ splitting = {} /\ f \in todo

(* Fault: the assembly file is brought up to date after each pass. *)
PredicateAndWrite(f) ==
  /\ IsNext(f)
  /\ FnLists[f] = "tas_block_predicate"
  /\ made' = [made EXCEPT ![f] = Append(@, "predicated")]
  /\ todo' = todo \ {f}
  /\ files' = [files EXCEPT !.ll = [from |-> source, made |-> made']]
  /\ UNCHANGED <<source, runs, FnLists, stage, splitting>>

(* Fault: the function is not taken out of the loop. *)
PredicateAgain(f) ==
  /\ IsNext(f)
  /\ FnLists[f] = "tas_block_predicate"
  /\ made' = [made EXCEPT ![f] = Append(@, "predicated")]
  /\ UNCHANGED <<passVars, stage, todo, splitting>>

(* run always returns true; the exit that main has for false is not taken. *)
BlockPredicate(f) ==
  /\ IsNext(f)
  /\ FnLists[f] = "tas_block_predicate"
  /\ made' = [made EXCEPT ![f] = Append(@, "predicated")]
  /\ todo' = todo \ {f}
  /\ UNCHANGED <<passVars, stage, splitting>>

MakeBatch(f) ==
  /\ IsNext(f)
  /\ FnLists[f] = "tas_batch_maker"
  /\ made' = [made EXCEPT ![f] = Append(@, "batched")]
  /\ todo' = todo \ {f}
  /\ splitting' = {f}
  /\ UNCHANGED <<passVars, stage>>

(* Whether the batched form could be split is not looked at. *)
SplitLoops ==
  /\ stage = "passes"
  /\ \E f \in splitting : made' \in {made, [made EXCEPT ![f] = Append(@, "split")]}
  /\ splitting' = {}
  /\ UNCHANGED <<passVars, stage, todo>>

IgnoreAnnotation(f) ==
  /\ IsNext(f)
  /\ FnLists[f] \notin {"tas_block_predicate", "tas_batch_maker"}
  /\ todo' = todo \ {f}
  /\ UNCHANGED <<passVars, stage, splitting, made>>

(* An assertion fails, or the pass crashes. *)
PassAborts(f) ==
  /\ stage = "passes"
  /\ f \in todo \cup splitting
  /\ FnLists[f] \in {"tas_block_predicate", "tas_batch_maker"}
  /\ todo' = {}
  /\ splitting' = {}
  /\ stage' = "failed"
  /\ UNCHANGED <<passVars, made>>

FinishPasses ==
  /\ stage = "passes"
  /\ todo = {}
  /\ splitting = {}
  /\ stage' = "ll"
  /\ UNCHANGED <<passVars, todo, splitting, made>>

Then(kind) == IF kind = "ll" THEN "bc" ELSE "o"

(* writeToAsmFile, and writeToBitCodeFile for the object. *)
Write(kind) ==
  /\ stage = kind
  /\ files' = [files EXCEPT ![kind] = Content]
  /\ stage' = Then(kind)
  /\ UNCHANGED <<source, runs, FnLists, todo, splitting, made>>

(* The error code of the opening is ignored, but a stream that could not   *)
(* write all ends the process: the file is as it was, or is broken.        *)
WriteFails(kind) ==
  /\ stage = kind
  /\ files' \in {files, [files EXCEPT ![kind] = Broken]}
  /\ stage' = "failed"
  /\ UNCHANGED <<source, runs, FnLists, todo, splitting, made>>

(* llc compiles the bitcode file. *)
generateObject ==
  /\ stage = "o"
  /\ files' = [files EXCEPT !.o = files.bc]
  /\ stage' = "succeeded"
  /\ UNCHANGED <<source, runs, FnLists, todo, splitting, made>>

generateObjectFails ==
  /\ stage = "o"
  /\ CommandFails("o")
  /\ UNCHANGED <<source, runs, FnLists, todo, splitting, made>>

Main ==
  \/ parseInputFile
  \/ parseInputFileFails
  \/ parseIRFails
  \/ getAnnotatedFnList
  \/ \E f \in Functions :
       BlockPredicate(f) \/ MakeBatch(f) \/ IgnoreAnnotation(f) \/ PassAborts(f)
  \/ SplitLoops
  \/ FinishPasses
  \/ \E kind \in {"ll", "bc"} : Write(kind) \/ WriteFails(kind)
  \/ generateObject
  \/ generateObjectFails

TONext == Start \/ Main

TOSpec == TOInit /\ [][TONext]_toVars

-----------------------------------------------------------------------------

Passes == {<<>>, <<"predicated">>, <<"batched">>, <<"batched", "split">>}
Modules == [from : Sources, made : [Functions -> Passes]]

TOTypeOK ==
  /\ source \in Sources
  /\ runs \in 0 .. MaxRuns
  /\ stage \in {"parse", "annotations", "passes", "failed", "succeeded"} \cup Kinds
  /\ DOMAIN FnLists \subseteq Functions
  /\ todo \subseteq DOMAIN FnLists
  /\ splitting \subseteq DOMAIN FnLists
  /\ made \in [Functions -> Passes]
  /\ files \in [Kinds -> Modules \cup {NoFile, Broken}]

Results(note) ==
  IF note = "tas_block_predicate" THEN {<<"predicated">>}
  ELSE IF note = "tas_batch_maker" THEN {<<"batched">>, <<"batched", "split">>}
  ELSE {<<>>}

(* What is to be done to a function: only its last annotation counts. *)
Wanted(from, f) ==
  LET IsLast(i) == from[i].of = f /\ \A j \in DOMAIN from : j > i => from[j].of # f
  IN IF \A i \in DOMAIN from : from[i].of # f THEN {<<>>}
     ELSE UNION {Results(from[i].note) : i \in {k \in DOMAIN from : IsLast(k)}}

IsComplete(content) == \A f \in Functions : content.made[f] \in Wanted(content.from, f)

(* The tool succeeds only with three files of one module, of the source as *)
(* it is now, in which each annotated function was transformed, once, by   *)
(* the pass of its last annotation; whatever was on disk before.           *)
SuccessIsComplete ==
  stage = "succeeded" =>
    /\ files.o = Content
    /\ files.bc = Content
    /\ files.ll = Content
    /\ IsComplete(files.o)

(* A pass that fails in the middle never leaves a module on disk in which  *)
(* some functions are transformed and others are not: a file is the output *)
(* of clang, or complete, or can be seen to be broken; bitcode and object  *)
(* are never the output of clang for an annotated function.                *)
NothingHalfTransformed ==
  \A k \in Kinds : files[k] \in Modules =>
    IsComplete(files[k]) \/ (k = "ll" /\ files[k].made = Untouched)

=============================================================================
