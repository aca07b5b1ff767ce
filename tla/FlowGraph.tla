------------------------------ MODULE FlowGraph ------------------------------
(***************************************************************************)
(* A function of LLVM IR as the passes of TAS-OPT see it: its basic blocks *)
(* with their terminators, and for each block the incoming blocks of its   *)
(* PHI node.  What a block computes is left out.  A function is a record   *)
(*                                                                         *)
(*   layout   the sequence of its blocks (F->getBasicBlockList());         *)
(*            the first one is the entry block                             *)
(*   succ     for each block the successors of its terminator, in order    *)
(*   term     for each block the kind of its terminator                    *)
(*   phi      for each block the incoming blocks of its PHI node, in       *)
(*            order; the empty sequence if it has none                     *)
(*   isVoid   whether the function returns void                            *)
(***************************************************************************)
EXTENDS Integers, Sequences, FiniteSets

TerminatorKinds == {"br", "switch", "ret", "unreachable"}

Blocks(f) == DOMAIN f.succ

Entry(f) == f.layout[1]

Successors(f, b) == {f.succ[b][k] : k \in DOMAIN f.succ[b]}

SuccSize(f, b) == Len(f.succ[b])

(* Predecessors are counted once for each edge, as pred_size does. *)
IncomingEdges(f, b) ==
  UNION {{<<a, k>> : k \in {j \in DOMAIN f.succ[a] : f.succ[a][j] = b}} : a \in Blocks(f)}

PredSize(f, b) == Cardinality(IncomingEdges(f, b))

(***************************************************************************)
(* What LLVM's verifier guarantees of every function: each block ends with *)
(* one terminator that has the successors of its kind, and the entry block *)
(* has no predecessor.                                                     *)
(***************************************************************************)
WellFormed(f) ==
  /\ Blocks(f) # {}
  /\ IsFiniteSet(Blocks(f))
  /\ f.layout \in Seq(Blocks(f)) \ {<<>>}
  /\ f.succ \in [Blocks(f) -> Seq(Blocks(f))]
  /\ f.term \in [Blocks(f) -> TerminatorKinds]
  /\ f.phi \in [Blocks(f) -> Seq(Blocks(f))]
  /\ f.isVoid \in BOOLEAN
  /\ \A b \in Blocks(f) :
       /\ \E k \in DOMAIN f.layout : f.layout[k] = b
       /\ f.term[b] = "br" => SuccSize(f, b) \in {1, 2}
       /\ f.term[b] = "switch" => SuccSize(f, b) > 0
       /\ f.term[b] \in {"ret", "unreachable"} => SuccSize(f, b) = 0
       /\ Entry(f) \notin Successors(f, b)

(* No set of blocks in which each has a successor: there is no cycle. *)
Acyclic(f) ==
  \A S \in SUBSET Blocks(f) :
    S # {} => \E b \in S : Successors(f, b) \cap S = {}

(* The blocks that end with a terminator of one kind. *)
BlocksEndingWith(f, kind) == {b \in Blocks(f) : f.term[b] = kind}

(* The position of an element that occurs once in a sequence. *)
PositionOf(seq, e) == CHOOSE k \in DOMAIN seq : seq[k] = e
=============================================================================
