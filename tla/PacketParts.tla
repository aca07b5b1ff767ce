----------------------------- MODULE PacketParts ------------------------------
(***************************************************************************)
(* What a split batch loop promises.  Each packet of the batch takes one   *)
(* way through the body, from its begin to its end, along the edges that   *)
(* the body had; the packets take turns in any order.  The loop is left    *)
(* when all have arrived.                                                  *)
(***************************************************************************)
EXTENDS Integers

CONSTANT NotStarted

VARIABLES
  succ,       \* the successors of the blocks of the body
  begin, end,
  pos,        \* for each packet the block it has come to
  finished

vars == <<succ, begin, end, pos, finished>>

Init ==
  /\ pos = [p \in DOMAIN pos |-> NotStarted]
  /\ finished = FALSE

Start(p) ==
  /\ ~finished
  /\ pos[p] = NotStarted
  /\ pos' = [pos EXCEPT ![p] = begin]
  /\ UNCHANGED <<succ, begin, end, finished>>

Step(p) ==
  /\ ~finished
  /\ pos[p] \notin {NotStarted, end}
  /\ \E k \in DOMAIN succ[pos[p]] : pos' = [pos EXCEPT ![p] = succ[pos[p]][k]]
  /\ UNCHANGED <<succ, begin, end, finished>>

Finish ==
  /\ ~finished
  /\ \A p \in DOMAIN pos : pos[p] = end
  /\ finished' = TRUE
  /\ UNCHANGED <<succ, begin, end, pos>>

Next == Finish \/ \E p \in DOMAIN pos : Start(p) \/ Step(p)

Spec == Init /\ [][Next]_vars
=============================================================================
