----------------------------- MODULE MCEventBus -----------------------------
(* Two types of events; two subscribers of one type, plain functions, and  *)
(* a coroutine function that takes all.                                    *)
EXTENDS EventBus, TLC

CONSTANTS order, signal, o1, o2, s1, book, ticket, trace

EventTypes == (o1 :> order) @@ (o2 :> order) @@ (s1 :> signal)
Filters == (book :> order) @@ (ticket :> order) @@ (trace :> AnyType)
=============================================================================
