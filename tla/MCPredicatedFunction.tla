------------------------ MODULE MCPredicatedFunction ------------------------
(* The functions the block predication is checked on. *)
EXTENDS PredicatedFunction, SmallFunctions

SupportedGraphs ==
  {g \in FiveBlockGraphs : Supported(FunctionOf(5, g))}

HasEdge(g, a, b) == b \in {g[a][k] : k \in DOMAIN g[a]}

(* At most one block has a PHI node, with the values of two predecessors. *)
PhiChoices(g) ==
  {NoPhi(5)} \cup
  {[NoPhi(5) EXCEPT ![t[1]] = <<t[2], t[3]>>] :
     t \in {u \in (2 .. 5) \X (1 .. 4) \X (1 .. 4) :
              u[2] # u[3] /\ HasEdge(g, u[2], u[1]) /\ HasEdge(g, u[3], u[1])
              /\ Cardinality({a \in 1 .. 5 : HasEdge(g, a, u[1])}) = 2}}

SupportedInputs ==
  UNION {{[FunctionOf(5, g) EXCEPT !.phi = phi] : phi \in PhiChoices(g)} : g \in SupportedGraphs}

-----------------------------------------------------------------------------

(* Four blocks with any edges, exits of any kind, and switches. *)
ExitKinds == {"ret", "unreachable"}

AnyGraphs ==
  {<<s1, s2, s3, s4>> :
     s1 \in JumpsInto(2 .. 4), s2 \in JumpsInto(3 .. 4) \cup {<<>>},
     s3 \in JumpsInto({2, 4}) \cup {<<>>}, s4 \in JumpsInto({3}) \cup {<<>>}}

AnyInputs ==
  {[FunctionOf(4, g) EXCEPT !.isVoid = void, !.term = [b \in 1 .. 4 |-> IF g[b] = <<>> THEN exits[b] ELSE @[b]]] :
     g \in AnyGraphs, exits \in [2 .. 4 -> ExitKinds], void \in {FALSE}}
  \cup {FunctionOf(2, <<<<2>>, <<>>>>), FunctionOf(2, <<<<2, 2>>, <<>>>>), FunctionOf(1, <<<<>>>>),
        [FunctionOf(1, <<<<>>>>) EXCEPT !.term[1] = "unreachable"],
        [FunctionOf(3, <<<<2, 3>>, <<>>, <<>>>>) EXCEPT !.isVoid = TRUE],
        [FunctionOf(4, <<<<2, 3, 4>>, <<4>>, <<4>>, <<>>>>) EXCEPT !.term[1] = "switch"],
        [FunctionOf(3, <<<<2, 3>>, <<3>>, <<>>>>) EXCEPT !.phi[3] = <<2>>],
        [FunctionOf(3, <<<<2, 3>>, <<3>>, <<>>>>) EXCEPT !.phi[2] = <<1, 1>>]}

SmallInputs == SupportedInputs \cup AnyInputs

-----------------------------------------------------------------------------

(* x = c ? a : b, with a PHI node for x. *)
ConditionalValue == {[FunctionOf(4, <<<<2, 3>>, <<4>>, <<4>>, <<>>>>) EXCEPT !.phi[4] = <<2, 3>>]}
=============================================================================
