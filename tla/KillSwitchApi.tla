--------------------------- MODULE KillSwitchApi ---------------------------
(***************************************************************************)
(* The emergency kill switch of api/system.py beside the trading system.   *)
(* It is a module-level flag of its own, which only the request middleware *)
(* of main.py reads, for paths no router serves.                           *)
(***************************************************************************)
EXTENDS TradingSystem

VARIABLE halted    \* _kill_switch_triggered

apiVars == <<vars, halted>>

ApiInit == Init /\ halted = FALSE

TriggerHalt ==
    /\ KillSwitchEnabled
    /\ ~halted
    /\ halted' = TRUE
    /\ UNCHANGED vars

ResetHalt ==
    /\ halted
    /\ halted' = FALSE
    /\ UNCHANGED vars

ApiNext ==
    \/ TriggerHalt
    \/ ResetHalt
    \/ Next /\ UNCHANGED halted

ApiSpec == ApiInit /\ [][ApiNext]_apiVars

\* api/system.py: the kill switch "Prevents new order submissions".
HaltPreventsNewOrders ==
    [][halted => \A o \in OrderIds : ~Used(o) => ~Used(o)']_apiVars
=============================================================================
