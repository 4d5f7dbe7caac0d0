-------------------------- MODULE MCKillSwitchApi --------------------------
(* The instance of MCTradingSystem with the API's kill switch beside it. *)
EXTENDS MCTradingSystem, KillSwitchApi
=============================================================================
