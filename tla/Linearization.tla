--------------------------- MODULE Linearization ----------------------------
(***************************************************************************)
(* What the result of the block predication has to satisfy for the         *)
(* linearised function to take the paths of the function it was made from. *)
(***************************************************************************)
EXTENDS FlowGraph

(* The position of a block among the action blocks; the entry is before. *)
PlaceOf(f, actions, b) == IF b = Entry(f) THEN 0 ELSE PositionOf(actions, b)

(* The predicate block that is tested first after a block is followed, in  *)
(* the order of the tests, by that of the k-th target of the block, none   *)
(* before it holds, and the target's own does, unless it is the last one,  *)
(* which tests nothing.                                                    *)
FindsTarget(f, actions, pathIDs, predicateIDs, b, k) ==
  \E p \in PlaceOf(f, actions, b) + 1 .. Len(actions) :
    /\ actions[p] = f.succ[b][k]
    /\ \A i \in PlaceOf(f, actions, b) + 1 .. p - 1 : predicateIDs[i] # pathIDs[b][k]
    /\ p < Len(actions) => predicateIDs[p] = pathIDs[b][k]

IsLinearization(f, actions, ret, pathIDs, predicateIDs) ==
  LET executed == {Entry(f)} \cup {actions[i] : i \in DOMAIN actions} IN
  /\ actions # <<>>
  /\ actions[Len(actions)] = ret
  /\ f.term[ret] = "ret"
  /\ \A i, j \in DOMAIN actions : actions[i] = actions[j] => i = j
  /\ Entry(f) \notin {actions[i] : i \in DOMAIN actions}
  /\ \A b \in executed \ {ret} :
       /\ f.term[b] = "br"
       /\ \A k \in DOMAIN f.succ[b] : FindsTarget(f, actions, pathIDs, predicateIDs, b, k)

(* The PHI node of an action block merges the paths of its two             *)
(* predecessors, and the second one is the action block before it.         *)
PhiMovesSoundly(f, actions, i) ==
  LET b == actions[i] IN
  f.phi[b] # <<>> =>
    /\ i > 1
    /\ Len(f.phi[b]) = 2
    /\ f.phi[b][2] = actions[i - 1]
    /\ \A a \in Blocks(f) : b \in Successors(f, a) => a \in {f.phi[b][1], f.phi[b][2]}
=============================================================================
