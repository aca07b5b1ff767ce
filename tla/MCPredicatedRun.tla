-------------------------- MODULE MCPredicatedRun ---------------------------
(***************************************************************************)
(* Every program that satisfies IsLinearization for a small function:      *)
(* whatever order of the blocks and whatever ids, not only those the       *)
(* analysis computes.                                                      *)
(***************************************************************************)
EXTENDS PredicatedRun, SmallFunctions

MaskIDs == 0 .. 2

Orders == {<<2, 3, 4, 5>>, <<2, 4, 3, 5>>, <<3, 2, 4, 5>>, <<3, 4, 2, 5>>, <<4, 2, 3, 5>>, <<4, 3, 2, 5>>}

(* The names of the ids do not matter: the return block has id 0. *)
IDMaps == {ids \in [2 .. 5 -> MaskIDs] : ids[5] = 0}

(* A PHI node in a block that merges the action block before it with one   *)
(* other predecessor.                                                      *)
PhiFor(g, order, b) ==
  LET before(i) == order[i - 1]
      preds == {a \in 1 .. 5 : b \in {g[a][k] : k \in DOMAIN g[a]}}
      i == PositionOf(order, b)
  IN IF i > 1 /\ Cardinality(preds) = 2 /\ before(i) \in preds
       THEN <<CHOOSE a \in preds : a # before(i), before(i)>> ELSE <<>>

Program(g, order, ids) ==
  LET f == [FunctionOf(5, g) EXCEPT !.phi = [b \in 1 .. 5 |-> IF b = 1 THEN <<>> ELSE PhiFor(g, order, b)]] IN
  [f            |-> f,
   ret          |-> 5,
   actions      |-> order,
   pathIDs      |-> [b \in 1 .. 4 |-> [k \in DOMAIN g[b] |-> ids[g[b][k]]]],
   predicateIDs |-> [i \in 1 .. 3 |-> ids[order[i]]],
   phis         |-> [i \in 1 .. 4 |-> f.phi[order[i]]]]

LinearizedPrograms ==
  {p \in {Program(g, order, ids) :
            g \in {h \in FiveBlockGraphs : AllButEntryReached(5, h) /\ Len(h[1]) = 2 /\ h[1][1] < h[1][2]},
            order \in Orders, ids \in IDMaps} :
     IsLinearization(p.f, p.actions, p.ret, p.pathIDs, p.predicateIDs)}
=============================================================================
