------------------------------- MODULE MCTasopt -------------------------------
(* Sources with two functions, one of them with two annotations or more.   *)
EXTENDS Tasopt

Note(f, note) == [of |-> f, note |-> note]

Notes == {"tas_block_predicate", "tas_batch_maker", "other"}

SmallSources ==
  {<<>>, <<Note("variable", "tas_batch_maker")>>}
  \cup {<<Note("f", a), Note("variable", "other"), Note("g", c), Note("f", b)>> :
          a \in {"tas_block_predicate"}, b \in Notes, c \in Notes}
=============================================================================
