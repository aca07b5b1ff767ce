--------------------------- MODULE SmallFunctions ---------------------------
(***************************************************************************)
(* Small functions to model-check with.  Their blocks are the numbers      *)
(* 1 .. n in layout order, block 1 is the entry.                           *)
(***************************************************************************)
EXTENDS FlowGraph

NoPhi(n) == [b \in 1 .. n |-> <<>>]

(* A function that returns at every block without successor. *)
FunctionOf(n, succ) ==
  [layout |-> [k \in 1 .. n |-> k],
   succ   |-> succ,
   term   |-> [b \in 1 .. n |-> IF succ[b] = <<>> THEN "ret" ELSE "br"],
   phi    |-> NoPhi(n),
   isVoid |-> FALSE]

(* The ways in which a block can jump to one or two blocks of a set. *)
JumpsInto(targets) ==
  {<<s>> : s \in targets} \cup {<<s, t>> : s, t \in targets}

DistinctJumpsInto(targets) ==
  {<<s>> : s \in targets} \cup ({<<s, t>> : s, t \in targets} \ {<<s, s>> : s \in targets})

(* The same where the order of the two targets does not matter. *)
UnorderedJumpsInto(targets) ==
  {<<s>> : s \in targets} \cup {j \in targets \X targets : j[1] < j[2]}

AllButEntryReached(n, succ) ==
  \A b \in 2 .. n : \E a \in 1 .. n : b \in {succ[a][k] : k \in DOMAIN succ[a]}

(* Five blocks, edges to later blocks only, the last block returns. *)
FiveBlockGraphs ==
  {<<s1, s2, s3, s4, <<>>>> :
     s1 \in JumpsInto(2 .. 5), s2 \in JumpsInto(3 .. 5),
     s3 \in JumpsInto(4 .. 5), s4 \in JumpsInto({5})}

(* Six blocks in the same way; the two targets of a branch differ. *)
SixBlockGraphs ==
  {<<s1, s2, s3, s4, s5, <<>>>> :
     s1 \in DistinctJumpsInto(2 .. 6), s2 \in DistinctJumpsInto(3 .. 6),
     s3 \in DistinctJumpsInto(4 .. 6), s4 \in DistinctJumpsInto(5 .. 6),
     s5 \in DistinctJumpsInto({6})}

ReachedGraphs(graphs, n) == {g \in graphs : AllButEntryReached(n, g)}

(* Four blocks with any edges that do not lead to the entry, so with loops. *)
CyclicGraphs ==
  {<<s1, s2, s3, <<>>>> :
     s1 \in JumpsInto(2 .. 4), s2 \in JumpsInto(2 .. 4), s3 \in JumpsInto(2 .. 4)}
=============================================================================
