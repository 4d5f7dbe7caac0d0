---------------------------- MODULE MCMarketData ----------------------------
(* Feeds: one that is registered twice and one that is registered once.     *)
(* Bars of two lengths that do not divide each other; a silence that is     *)
(* shorter than a check interval; two feeds and two prices more than 5 %    *)
(* apart, with spreads, distances and volumes on both sides of thresholds.  *)
(* The filter: two feeds, two symbols.  No symmetry: liveness is checked.   *)
EXTENDS MarketData, TLC

CONSTANTS primary, backup, wti, brent

Registrations == (primary :> 2) @@ (backup :> 1)
=============================================================================
