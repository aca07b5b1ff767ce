------------------------ MODULE MCPacketPathAnalysis ------------------------
(* The functions the analysis is checked on. *)
EXTENDS PacketPathAnalysis, SmallFunctions

AcyclicInputs ==
  {FunctionOf(6, g) : g \in ReachedGraphs(SixBlockGraphs, 6)}

LoopInputs ==
  {FunctionOf(4, g) : g \in CyclicGraphs} \cup {FunctionOf(5, g) : g \in FiveBlockGraphs}

AnalysisInputs == AcyclicInputs \cup LoopInputs
=============================================================================
