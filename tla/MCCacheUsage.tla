----------------------------- MODULE MCCacheUsage -----------------------------
(* Modules of up to two functions. *)
EXTENDS CacheUsage

(* A struct that ends in the second line, one that fits into a line with   *)
(* another one, an array of them.                                          *)
Packet == [kind |-> "struct", offsets |-> <<0, 56, 64>>, size |-> 72]
Header == [kind |-> "struct", offsets |-> <<0, 8>>, size |-> 40]
Headers == [kind |-> "array", element |-> 40, size |-> 160]
Word == [kind |-> "single", size |-> 8]

Gep(type, idx) == [type |-> type, idx |-> idx, constant |-> TRUE, steps |-> FALSE, continues |-> TRUE]

SmallUses ==
  {<<>>,
   <<Gep(Packet, 1)>>,
   <<Gep(Packet, 2)>>,
   <<Gep(Packet, 1), Gep(Header, 1)>>,
   <<Gep(Packet, 0), Gep(Headers, 3), Gep(Header, 1)>>,
   <<[Gep(Packet, 1) EXCEPT !.steps = TRUE]>>,
   <<[Gep(Packet, 5) EXCEPT !.steps = TRUE]>>,
   <<[Gep(Packet, -1) EXCEPT !.steps = TRUE], Gep(Packet, 1)>>,
   <<[Gep(Packet, UnsignedSize + 2) EXCEPT !.steps = TRUE]>>,
   <<[Gep(Word, 9) EXCEPT !.steps = TRUE]>>,
   <<Gep(Headers, -1), Gep(Header, 1)>>,
   <<Gep(Packet, 1), [Gep(Packet, 2) EXCEPT !.continues = FALSE]>>,
   <<Gep(Packet, 1), [Gep(Headers, 0) EXCEPT !.constant = FALSE]>>}

Meant == {<<Gep(Packet, 1)>>, <<Gep(Packet, 1), Gep(Header, 1)>>}

OneLoad(uses) == [compound : BOOLEAN, uses : {<<u>> : u \in uses}]
TwoLoads(uses) == [compound : {TRUE}, uses : {<<u, v>> : u \in uses, v \in uses}]

FunctionsWith(notes, variables) ==
  [annotations : notes, allocas : {<<x>> : x \in variables} \cup {<<x, x>> : x \in variables}]

SmallModules ==
  {<<f>> : f \in FunctionsWith({<<fn_mark, "other">>}, OneLoad(SmallUses) \cup TwoLoads(SmallUses))}
  \cup {<<f, g>> : f \in FunctionsWith({<<fn_mark>>, <<"other">>}, OneLoad(Meant)),
                   g \in FunctionsWith({<<fn_mark>>, <<>>}, OneLoad(Meant \cup {<<Gep(Packet, 2)>>}))}
=============================================================================
