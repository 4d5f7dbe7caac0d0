---------------------------- MODULE EventDelivery ----------------------------
(***************************************************************************)
(* What an event bus promises its subscribers, whatever queue and loop     *)
(* carry it out: only members are handed events, each event at most once,  *)
(* only if they asked for it, and the events that were queued in the order *)
(* of the queue.  An event may be lost for a member and an immediate event *)
(* may overtake the queue: the bus promises neither.                       *)
(***************************************************************************)
EXTENDS Naturals, Sequences, SequencesExt

CONSTANTS Events, Subscribers,
          Wants(_, _)   \* Wants(s, e): did s ask for events such as e?

VARIABLES log,          \* the queued events, in order
          received,     \* what each subscriber was handed, in order
          members       \* the subscribers of the moment

Init ==
    /\ log = <<>>
    /\ received = [s \in Subscribers |-> <<>>]
    /\ members = {}

Queued(e) == e \in Range(log)

Place(e) == CHOOSE i \in DOMAIN log : log[i] = e

\* Everything queued that s has been handed was queued before e.
InOrder(s, e) ==
    \A x \in Range(received[s]) : Queued(e) /\ Queued(x) => Place(x) < Place(e)

Publish(e) ==
    /\ ~ Queued(e)
    /\ log' = Append(log, e)
    /\ UNCHANGED <<received, members>>

Deliver(s, e) ==
    /\ s \in members
    /\ Wants(s, e)
    /\ e \notin Range(received[s])
    /\ InOrder(s, e)
    /\ received' = [received EXCEPT ![s] = Append(@, e)]
    /\ UNCHANGED log

Join(s) == members' = members \cup {s}
Leave(s) == members' = members \ {s}

\* A callback may join or remove another while it is handed its event.
Next ==
    \/ \E e \in Events : Publish(e)
    \/ \E s \in Subscribers : (Join(s) \/ Leave(s)) /\ UNCHANGED <<log, received>>
    \/ \E s \in Subscribers, e \in Events :
          /\ Deliver(s, e)
          /\ \/ UNCHANGED members
             \/ \E t \in Subscribers : Join(t) \/ Leave(t)

Spec == Init /\ [][Next]_<<log, received, members>>
=============================================================================
