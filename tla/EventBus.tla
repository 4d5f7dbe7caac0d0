------------------------------ MODULE EventBus ------------------------------
(***************************************************************************)
(* The in-process event bus (event_bus/bus.py): a queue, the loop task     *)
(* that takes events from it, and a dispatch that walks the LIVE lists of  *)
(* callbacks, first those of the event's type, then the global ones.       *)
(*                                                                         *)
(* A dispatch contains no await: nothing else runs until it is over, but   *)
(* the callbacks it calls may subscribe or unsubscribe and so change the   *)
(* list under its index.  A member of Subscribers is one registration of a *)
(* callback; a coroutine function is handed its event by the task that is  *)
(* created for it and changes nothing during the dispatch.                 *)
(*                                                                         *)
(* Redis is left out: publishing to it changes nothing here, and the loop  *)
(* that should receive from it ends at once, because it iterates over the  *)
(* coroutine RedisClient.subscribe returns.                                *)
(***************************************************************************)
EXTENDS Naturals, Sequences, SequencesExt, FiniteSets

CONSTANTS Events, Types,
          TypeOf,        \* the type of each event
          AnyType,       \* the key of the global list
          Subscribers,
          Filter,        \* the list each subscriber is put in: a type or AnyType
          Sync,          \* the subscribers that are plain functions
          MaxRuns        \* bound: how often the bus is started

ASSUME EventBusAssumption ==
    /\ AnyType \notin Types
    /\ TypeOf \in [Events -> Types]
    /\ Filter \in [Subscribers -> Types \cup {AnyType}]
    /\ Sync \subseteq Subscribers
    /\ MaxRuns \in Nat

Lists == Types \cup {AnyType}

VARIABLES
    running,     \* _running
    queue,       \* _publish_queue
    loop,        \* _publish_task: "none", "ready" to run, "waiting" in get()
    callbacks,   \* _subscribers and _global_subscribers
    dispatch,    \* the dispatch under way: its event, list and index
    runs,        \* how often the bus was started
    known,       \* the subscribers that have registered so far
    sent,        \* the events handed to the bus so far, each an object of its own
    accepted,    \* history: the events queued
    acceptedIn,  \* history: the run each event was queued in, 0 before
    received,    \* history: what each subscriber was handed
    left         \* history: how many entries at or before the index were
                 \* removed from the list since the dispatch reached it

history == <<sent, accepted, acceptedIn, received>>
vars == <<running, queue, loop, callbacks, dispatch, runs, known, sent,
          accepted, acceptedIn, received, left>>

Idle == [active |-> FALSE]
Dispatching(e, l, i) == [active |-> TRUE, event |-> e, list |-> l, at |-> i]

Init ==
    /\ running = FALSE
    /\ queue = <<>>
    /\ loop = "none"
    /\ callbacks = [l \in Lists |-> <<>>]
    /\ dispatch = Idle
    /\ runs = 0
    /\ known = {}
    /\ sent = {}
    /\ accepted = <<>>
    /\ acceptedIn = [e \in Events |-> 0]
    /\ received = [s \in Subscribers |-> <<>>]
    /\ left = 0

Members == UNION {Range(callbacks[l]) : l \in Lists}

-----------------------------------------------------------------------------
(* Start, stop, publish *)

NewQueue == <<>>

Start ==
    /\ ~ dispatch.active
    /\ ~ running
    /\ runs < MaxRuns
    /\ running' = TRUE
    /\ runs' = runs + 1
    /\ queue' = NewQueue
    /\ loop' = "ready"
    /\ UNCHANGED <<callbacks, dispatch, known, history, left>>

\* The loop is cancelled; what it had not taken stays in the old queue.
Stop ==
    /\ ~ dispatch.active
    /\ running
    /\ running' = FALSE
    /\ loop' = "none"
    /\ UNCHANGED <<queue, callbacks, dispatch, runs, known, history, left>>

\* publish drops the event when the bus is not running.
Publish(e) ==
    /\ ~ dispatch.active
    /\ e \notin sent
    /\ running
    /\ sent' = sent \cup {e}
    /\ queue' = Append(queue, e)
    /\ loop' = "ready"
    /\ accepted' = Append(accepted, e)
    /\ acceptedIn' = [acceptedIn EXCEPT ![e] = runs]
    /\ UNCHANGED <<running, callbacks, dispatch, runs, known, received, left>>

\* publish_immediate dispatches in the caller, running or not.
PublishImmediate(e) ==
    /\ ~ dispatch.active
    /\ e \notin sent
    /\ dispatch' = Dispatching(e, TypeOf[e], 1)
    /\ left' = 0
    /\ sent' = sent \cup {e}
    /\ UNCHANGED <<running, queue, loop, callbacks, runs, known,
                   accepted, acceptedIn, received>>

-----------------------------------------------------------------------------
(* The loop *)

\* Mutant of TakeNext: the newest event first.
TakeNewest ==
    /\ dispatch' = Dispatching(queue[Len(queue)], TypeOf[queue[Len(queue)]], 1)
    /\ queue' = SubSeq(queue, 1, Len(queue) - 1)
    /\ loop' = "ready"

\* Mutant of TakeNext: the loop waits to be woken after each event.
TakeOneOnly ==
    /\ dispatch' = Dispatching(Head(queue), TypeOf[Head(queue)], 1)
    /\ queue' = Tail(queue)
    /\ loop' = "waiting"

TakeNext ==
    /\ dispatch' = Dispatching(Head(queue), TypeOf[Head(queue)], 1)
    /\ queue' = Tail(queue)
    /\ loop' = "ready"

LoopTakes ==
    /\ ~ dispatch.active
    /\ loop = "ready"
    /\ queue # <<>>
    /\ TakeNext
    /\ left' = 0
    /\ UNCHANGED <<running, callbacks, runs, known, history>>

LoopWaits ==
    /\ ~ dispatch.active
    /\ loop = "ready"
    /\ queue = <<>>
    /\ loop' = "waiting"
    /\ UNCHANGED <<running, queue, callbacks, dispatch, runs, known, history, left>>

-----------------------------------------------------------------------------
(* Subscribing *)

Subscribed(s) == [callbacks EXCEPT ![Filter[s]] = Append(@, s)]

\* Where s is in its list.
PlaceOf(s) == CHOOSE i \in DOMAIN callbacks[Filter[s]] : callbacks[Filter[s]][i] = s

Unsubscribed(s) == [callbacks EXCEPT ![Filter[s]] = RemoveAt(@, PlaceOf(s))]

Subscribe(s) ==
    /\ ~ dispatch.active
    /\ s \notin known
    /\ known' = known \cup {s}
    /\ callbacks' = Subscribed(s)
    /\ UNCHANGED <<running, queue, loop, dispatch, runs, history, left>>

Unsubscribe(s) ==
    /\ ~ dispatch.active
    /\ s \in Members
    /\ callbacks' = Unsubscribed(s)
    /\ UNCHANGED <<running, queue, loop, dispatch, runs, known, history, left>>

-----------------------------------------------------------------------------
(* The dispatch *)

List == callbacks[dispatch.list]
Before(s) == \E i \in DOMAIN List : List[i] = s /\ i <= dispatch.at

\* What a callback may do to the lists while it is called.
Reaction(s) ==
    \/ UNCHANGED <<callbacks, known, left>>
    \/ /\ s \in Sync
       /\ \E t \in Subscribers \ known :
             /\ callbacks' = Subscribed(t)
             /\ known' = known \cup {t}
             /\ UNCHANGED left
    \/ /\ s \in Sync
       /\ \E t \in Members :
             /\ callbacks' = Unsubscribed(t)
             /\ left' = IF Before(t) THEN left + 1 ELSE left
             /\ UNCHANGED known

\* Mutant of NextIndex: the index moves two entries on.
NextIndexPast(i) == i + 2

\* The iterator of a list only counts.
NextIndex(i) == i + 1

CallNext ==
    /\ dispatch.active
    /\ dispatch.at \in DOMAIN List
    /\ LET s == List[dispatch.at] IN
          /\ received' = [received EXCEPT ![s] = Append(@, dispatch.event)]
          /\ Reaction(s)
    /\ dispatch' = [dispatch EXCEPT !.at = NextIndex(@)]
    /\ UNCHANGED <<running, queue, loop, runs, sent, accepted, acceptedIn>>

\* The iterator is exhausted: on to the global list, or done.
EndOfList ==
    /\ dispatch.active
    /\ dispatch.at \notin DOMAIN List
    /\ dispatch' = IF dispatch.list = AnyType THEN Idle
                   ELSE Dispatching(dispatch.event, AnyType, 1)
    /\ left' = 0
    /\ UNCHANGED <<running, queue, loop, callbacks, runs, known, history>>

LoopStep == LoopTakes \/ LoopWaits \/ CallNext \/ EndOfList

Next ==
    \/ Start
    \/ Stop
    \/ LoopStep
    \/ \E e \in Events : Publish(e) \/ PublishImmediate(e)
    \/ \E s \in Subscribers : Subscribe(s) \/ Unsubscribe(s)

Spec == Init /\ [][Next]_vars

\* The event loop runs every task that is ready, and a dispatch to its end.
FairSpec == Spec /\ WF_vars(LoopStep)

-----------------------------------------------------------------------------
(* Properties *)

\* The types, with no subscriber in two places and the loop alive exactly
\* while the bus runs.
EventBusTypeOK ==
    /\ running \in BOOLEAN
    /\ queue \in Seq(Events)
    /\ loop \in {"none", "ready", "waiting"}
    /\ running <=> loop # "none"
    /\ callbacks \in [Lists -> Seq(Subscribers)]
    /\ \A l \in Lists : \A i, j \in DOMAIN callbacks[l] :
          /\ Filter[callbacks[l][i]] = l
          /\ callbacks[l][i] = callbacks[l][j] => i = j
    /\ Members \subseteq known
    /\ \/ dispatch = Idle
       \/ dispatch \in [active : {TRUE}, event : Events, list : Lists, at : Nat \ {0}]
    /\ runs \in 0 .. MaxRuns
    /\ acceptedIn \in [Events -> 0 .. MaxRuns]

\* While a dispatch walks a list, the subscribers it has passed were handed
\* the event, but for at most one for each entry that a callback removed
\* behind the index: those slide under it and are skipped (bus.py:174).
SkippedOnlyByRemoval ==
    dispatch.active =>
        Cardinality({i \in DOMAIN List :
            i < dispatch.at /\ dispatch.event \notin Range(received[List[i]])}) <= left

\* An event is never dispatched by the loop of a later run than the one that
\* accepted it: what stop leaves in the queue is lost (bus.py:55).
QueuedInThisRun ==
    running => \A i \in DOMAIN queue : acceptedIn[queue[i]] = runs

\* The bus implements what EventDelivery promises: at most once, to members,
\* and in the order of the queue.
Delivery == INSTANCE EventDelivery WITH
    log <- accepted, members <- Members,
    Wants <- LAMBDA s, e : Filter[s] \in {TypeOf[e], AnyType}

DeliverySpec == Delivery!Spec

InQueue(e) == e \in Range(queue)

\* An event in the queue is taken from it unless the bus is stopped: the
\* loop never waits while there is something to dispatch (bus.py:155).
QueueDrains == \A e \in Events : InQueue(e) ~> (~ InQueue(e) \/ ~ running)

\* What holds of the bus at any time: the parts above.
BusInvariant == EventBusTypeOK /\ SkippedOnlyByRemoval /\ QueuedInThisRun
=============================================================================
