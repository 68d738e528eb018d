---------------------------- MODULE MCPlannerStream ----------------------------
(* Every setup; of those that stream, the two kinds of provider whose streams *)
(* differ in where they end.                                                  *)
EXTENDS PlannerStream

MCInit == StreamInit /\ (Internal /\ setup.stream => kind \in {"openai", "gemini"})

MCSpec == MCInit /\ [][StreamNext]_all /\ WF_all(StreamProgram)
=============================================================================
