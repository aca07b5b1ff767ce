----------------------------- MODULE MCBatchArgs -----------------------------
(* Functions of up to two parameters. *)
EXTENDS BatchArgs

UsesBy(users, following) ==
  {[k \in DOMAIN users |-> [user |-> users[k], next |-> next[users[k]]]] :
     next \in [1 .. 3 -> following]}

(* A variable with up to three uses, by users of which one may use it      *)
(* twice; any kind of instruction may follow.                              *)
UserLists == {<<>>, <<1>>, <<1, 1>>, <<2, 1>>, <<3, 2, 1>>, <<2, 2, 1>>, <<2, 1, 1>>}

AnyParameter ==
  [annotated : BOOLEAN, direct : BOOLEAN, isDouble : BOOLEAN,
   uses : UNION {UsesBy(users, {"index", "foreign", "field", "plain"}) : users \in UserLists}]

FirstParameters ==
  [annotated : BOOLEAN, direct : {TRUE}, isDouble : BOOLEAN,
   uses : UNION {UsesBy(users, {"index"}) : users \in {<<1>>, <<1, 1>>, <<2, 1>>}}]

SecondParameters ==
  [annotated : BOOLEAN, direct : {TRUE}, isDouble : BOOLEAN,
   uses : UNION {UsesBy(users, {"plain"}) : users \in {<<>>, <<2, 1>>}}]

SmallSignatures ==
  {<<>>} \cup {<<p>> : p \in AnyParameter}
         \cup {<<p, q>> : p \in FirstParameters, q \in SecondParameters}
=============================================================================
