------------------------------ MODULE MCEngine ------------------------------
(***************************************************************************)
(* The engine of a ring whose kernel may refuse an enter while completions  *)
(* wait to be taken (EBUSY), which the ring answers with a drain.           *)
(***************************************************************************)
EXTENDS UringEngine

CONSTANT MaxFails   \* enters that fail or are cut short

MCFairSpec == EngineInit /\ [][EngineNext /\ fails' <= MaxFails]_engineVars /\ EngineFairness
=============================================================================
