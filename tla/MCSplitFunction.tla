--------------------------- MODULE MCSplitFunction ----------------------------
(* A loop whose body has up to five blocks, with one or two variables. *)
EXTENDS SplitFunction

Code(instructions, b) == IF b \in DOMAIN instructions THEN instructions[b] ELSE <<>>

(* Entry 1, preheader 2, header 3, latch 4, exit 5; the body starts at 6   *)
(* and is given by its successors.                                         *)
LoopWith(bodySucc, instructions) ==
  LET s == <<<<2>>, <<3>>, <<6, 5>>, <<3>>, <<>>>> \o bodySucc
  IN [succ |-> s,
      code |-> [b \in DOMAIN s |-> Code(instructions, b)],
      loop |-> [PreHeader |-> 2, Header |-> 3, Latch |-> 4, Blocks |-> {3, 4} \cup 6 .. Len(s)]]

Straight == <<<<7>>, <<4>>>>
BranchFirst == <<<<7, 8>>, <<9>>, <<9>>, <<10>>, <<4>>>>
BranchLast == <<<<7>>, <<8, 9>>, <<9>>, <<4>>>>
Bypass == <<<<7, 8>>, <<8>>, <<4>>>>
TwoEnds == <<<<7, 8>>, <<4>>, <<4>>>>
InnerLoop == <<<<7>>, <<7, 8>>, <<4>>>>
Leaves == <<<<7, 5>>, <<4>>>>

Annotate(vars) == [k \in 1 .. Cardinality(vars) |-> <<"annotate", k>>]

Sets(vars) == [k \in 1 .. Cardinality(vars) |-> <<"set", k>>]

(* What the blocks after the one that sets the variables may do. *)
OtherUses == {<<>>, <<<<"other", 0>>, <<"deref", 1>>>>, <<<<"read", 1>>, <<"deref", 2>>>>}

WithUses(bodySucc, vars, uses) ==
  {LoopWith(bodySucc, (1 :> Annotate(vars)) @@ (6 :> Sets(vars)) @@ rest) :
     rest \in [7 .. 5 + Len(bodySucc) -> uses]}

Splits ==
  UNION {WithUses(bodySucc, vars, OtherUses) :
           bodySucc \in {Straight, Bypass, BranchFirst, BranchLast}, vars \in {{1}, {1, 2}}}
  \cup UNION {WithUses(bodySucc, {1}, {<<>>, <<<<"other", 0>>, <<"deref", 1>>>>}) :
                bodySucc \in {TwoEnds, InnerLoop, Leaves}}

(* Both variables are used in one block, in either order. *)
InOneBlock ==
  {LoopWith(BranchLast, (1 :> Annotate({1, 2})) @@ (6 :> Sets({1, 2})) @@
     (7 :> <<<<"other", 0>>, <<"deref", v>>>> \o between \o <<<<"deref", 3 - v>>>>)) :
       v \in {1, 2}, between \in {<<>>, <<<<"gep", 0>>>>}}

ABranch == LoopWith(Bypass, (1 :> Annotate({1})) @@ (6 :> Sets({1})) @@ (8 :> <<<<"other", 0>>, <<"deref", 1>>>>))

(* The variable is set before the loop, used at the entry, at the start of *)
(* a block, after the loop, with and without a second way there from the   *)
(* entry; the loop has no preheader of its own, or none at all, or another *)
(* edge goes round it; there is none; an indirect call; no use point; a    *)
(* variable without annotation, set in another block than read, or in the  *)
(* same one, with and without a use point between; one that is annotated   *)
(* twice; a getelementptr in front of the use, also of one annotated       *)
(* twice; a variable used in the latch, used in the header; a branch that  *)
(* goes to the latch both ways.                                            *)
Odd ==
  {[ABranch EXCEPT !.code[6] = <<>>, !.code[1] = @ \o <<<<"set", 1>>>>],
   [ABranch EXCEPT !.code[1] = @ \o <<<<"set", 1>>, <<"deref", 1>>>>],
   [ABranch EXCEPT !.code[8] = <<<<"deref", 1>>>>],
   [ABranch EXCEPT !.code[5] = <<<<"read", 1>>>>],
   [ABranch EXCEPT !.succ[1] = <<2, 5>>, !.code[5] = <<<<"read", 1>>>>],
   [ABranch EXCEPT !.succ[1] = <<3>>, !.succ[2] = <<5>>, !.loop.PreHeader = 1],
   [ABranch EXCEPT !.succ[1] = <<3, 5>>, !.loop.PreHeader = 0],
   [ABranch EXCEPT !.succ[1] = <<5, 2>>],
   [ABranch EXCEPT !.succ[3] = <<4, 5>>, !.succ[4] = <<5>>, !.loop = [PreHeader |-> 0, Header |-> 0, Latch |-> 0, Blocks |-> {}]],
   [ABranch EXCEPT !.code[1] = <<<<"indirect", 0>>>> \o @],
   [ABranch EXCEPT !.code[8] = <<<<"read", 1>>>>],
   [ABranch EXCEPT !.code[6] = @ \o <<<<"set", 2>>>>, !.code[8] = @ \o <<<<"read", 2>>>>],
   [ABranch EXCEPT !.code[8] = <<<<"set", 2>>, <<"read", 2>>>> \o @],
   [ABranch EXCEPT !.code[8] = <<<<"set", 2>>>> \o @ \o <<<<"read", 2>>>>],
   [ABranch EXCEPT !.code[1] = @ \o @],
   [ABranch EXCEPT !.code[8][1] = <<"gep", 0>>],
   [ABranch EXCEPT !.code[8][1] = <<"gep", 0>>, !.code[1] = @ \o @],
   [ABranch EXCEPT !.code[4] = ABranch.code[8], !.code[8] = <<>>],
   [ABranch EXCEPT !.code[3] = ABranch.code[8], !.code[8] = <<>>],
   [ABranch EXCEPT !.succ[8] = <<4, 4>>]}

(* Below the arrays, in them, and above them. *)
SomeIndices == {-1, 0, 4}

SmallSources == Splits \cup InOneBlock \cup Odd

StraightSources == {LoopWith(Straight, (1 :> Annotate({1})) @@ (6 :> Sets({1})) @@ (7 :> uses)) : uses \in OtherUses}
=============================================================================
