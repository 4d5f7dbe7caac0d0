-------------------------- MODULE SignalGeneration --------------------------
(***************************************************************************)
(* What leads to a signal: the StrategyEngine, its three detectors of      *)
(* setups, and the EventEngine, which main.py hands the StrategyEngine to  *)
(* and which never calls it.  They share no state: a behaviour follows one *)
(* of them, chosen at first.                                               *)
(***************************************************************************)
EXTENDS StrategyEngine, LiquiditySweeps, CorrelationMoves, Breakouts, EventEngine

VARIABLE followed

vars == <<engineVars, sweepVars, moveVars, breakoutVars, eventVars, followed>>

Init ==
    /\ EngineInit /\ SweepsInit /\ MovesInit /\ BreakoutInit /\ EventInit
    /\ followed \in {"engine", "sweeps", "moves", "breakouts", "events"}

Next ==
    /\ UNCHANGED followed
    /\ \/ /\ followed = "engine" /\ EngineNext
          /\ UNCHANGED <<sweepVars, moveVars, breakoutVars, eventVars>>
       \/ /\ followed = "sweeps" /\ SweepsNext
          /\ UNCHANGED <<engineVars, moveVars, breakoutVars, eventVars>>
       \/ /\ followed = "moves" /\ MovesNext
          /\ UNCHANGED <<engineVars, sweepVars, breakoutVars, eventVars>>
       \/ /\ followed = "breakouts" /\ BreakoutNext
          /\ UNCHANGED <<engineVars, sweepVars, moveVars, eventVars>>
       \/ /\ followed = "events" /\ EventNext
          /\ UNCHANGED <<engineVars, sweepVars, moveVars, breakoutVars>>

Spec == Init /\ [][Next]_vars /\ (followed = "events" => EventFairness)
=============================================================================
