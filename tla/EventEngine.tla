----------------------------- MODULE EventEngine -----------------------------
(***************************************************************************)
(* The EventCalendar (events/calendar.py, events/models.py) and the loop   *)
(* of the EventEngine (events/engine.py) that follows its events.          *)
(*                                                                         *)
(* Events are objects: a second one with the same id takes the place of    *)
(* the first in the calendar, while the engine may still be tracking the   *)
(* first.  The unit of time is the engine's check interval.                *)
(*                                                                         *)
(* main.py gives the engine a bus, and the name Event is the calendar's in *)
(* this file: announcing or completing an event ends in an AttributeError, *)
(* which gives up the rest of the check.  A check changes one event.       *)
(*                                                                         *)
(* An event made by hand may carry an offset in its time.  The calendar    *)
(* stores it, and cannot compare it with the naive time of its clock.      *)
(***************************************************************************)
EXTENDS Integers, Sequences, SequencesExt, FiniteSetsExt

CONSTANTS EventIds,      \* event_id
          ManualIds,     \* ids of events made by hand, which come with any time
          Schedule,      \* of an id: pre_event_start, scheduled_time, post_event_end
          MediumImpact,  \* ids of at least medium impact
          Horizon,       \* the hour the engine looks ahead
          KeptFor,       \* days of cleanup_old_events
          MaxObjects,    \* bound: events added in a behaviour
          EndOfTime      \* bound: time at the end of a behaviour

ASSUME EventAssumption ==
    /\ IsFiniteSet(EventIds) /\ MediumImpact \subseteq EventIds
    /\ ManualIds \subseteq EventIds
    /\ \A e \in EventIds :
          /\ {Schedule[e].pre, Schedule[e].at, Schedule[e].post} \subseteq Nat
          /\ Schedule[e].pre <= Schedule[e].at /\ Schedule[e].at <= Schedule[e].post
          /\ Schedule[e].post <= EndOfTime
    /\ {Horizon, KeptFor, MaxObjects, EndOfTime} \subseteq Nat

VARIABLES
    checking,  \* _running, and with it the check loop
    calendar,  \* _events: the object of an id, 0 if it has none
    indexed,   \* _events_by_type and _events_by_date: how often an id is listed
    events,    \* the event objects, in the order they were made: id, status and
                 \* whether the time is aware of its offset
    tracked,   \* _active_events: objects
    told,      \* history: the phases told to callbacks, by object
    clock,
    checked    \* has the loop checked since the clock last moved?

eventVars == <<checking, calendar, indexed, events, tracked, told, clock, checked>>

Objects == DOMAIN events

EventInit ==
    /\ checking = FALSE
    /\ calendar = [e \in EventIds |-> 0]
    /\ indexed = [e \in EventIds |-> 0]
    /\ events = <<>>
    /\ tracked = <<>>
    /\ told = [o \in 1..MaxObjects |-> <<>>]
    /\ clock = 0
    /\ checked = FALSE

-----------------------------------------------------------------------------
(* The calendar                                                            *)

(***************************************************************************)
(* Events of the schedule have naive times.  create_event takes the time   *)
(* as it is written, and two ways of writing it make one id.               *)
(***************************************************************************)
NewEvent(e, aware) == [id |-> e, status |-> "scheduled", aware |-> aware]

\* add_event; generate_eia_schedule adds the same ids each time it is asked.
AddEvent(e, aware) ==
    /\ Len(events) < MaxObjects
    /\ aware => e \in ManualIds
    /\ events' = Append(events, NewEvent(e, aware))
    /\ calendar' = [calendar EXCEPT ![e] = Len(events) + 1]
    /\ indexed' = [indexed EXCEPT ![e] = @ + 1]
    /\ UNCHANGED <<checking, tracked, told, clock, checked>>

\* set_event_result, and update_event_status with a cancellation.
SetStatus(e, status) ==
    /\ calendar[e] # 0
    /\ events' = [events EXCEPT ![calendar[e]].status = status]
    /\ UNCHANGED <<checking, calendar, indexed, tracked, told, clock, checked>>

\* Comparing an aware time with the clock's naive one is a TypeError.
Uncomparable == \E e \in EventIds : calendar[e] # 0 /\ events[calendar[e]].aware

Old(e) == calendar[e] # 0 /\ Schedule[e].at < clock - KeptFor

\* remove_event takes the id out of each index once.  An error removes nothing.
CleanupOldEvents ==
    /\ ~Uncomparable
    /\ calendar' = [e \in EventIds |-> IF Old(e) THEN 0 ELSE calendar[e]]
    /\ indexed' = [e \in EventIds |-> IF Old(e) THEN indexed[e] - 1 ELSE indexed[e]]
    /\ UNCHANGED <<checking, events, tracked, told, clock, checked>>

-----------------------------------------------------------------------------
(* The engine                                                              *)

EngineStarts ==
    /\ ~checking
    /\ checking' = TRUE
    /\ UNCHANGED <<calendar, indexed, events, tracked, told, clock, checked>>

EngineStops ==
    /\ checking
    /\ checking' = FALSE
    /\ UNCHANGED <<calendar, indexed, events, tracked, told, clock, checked>>

\* get_current_phase.
Phase(event) ==
    LET t == Schedule[event.id] IN
    IF event.status \in {"completed", "cancelled"} \/ clock < t.pre THEN "none"
    ELSE IF clock < t.at THEN "pre"
    ELSE IF clock < t.post THEN "post"
    ELSE "none"

\* get_upcoming_events, of times that compare: from now on.
Upcoming ==
    {calendar[e] : e \in {x \in MediumImpact :
        calendar[x] # 0 /\ Schedule[x].at \in clock..(clock + Horizon)}}

\* Mutant of Approaching: an event that has been announced is announced again.
ApproachingAgain == {o \in Upcoming : Phase(events[o]) = "pre"}

Approaching == {o \in Upcoming : Phase(events[o]) = "pre" /\ events[o].status = "scheduled"}

\* Is o in the calendar and has nothing been heard of it yet?
Scheduled(o) ==
    /\ o \in Objects
    /\ events[o].status = "scheduled"
    /\ \E e \in EventIds : calendar[e] = o

Occurring == {o \in Upcoming :
    Phase(events[o]) = "active" /\ events[o].status \in {"scheduled", "approaching"}}

\* Mutant of Ended: an event that was cancelled is no longer looked at.
EndedUnlessCancelled(o) ==
    Phase(events[o]) = "none" /\ events[o].status \notin {"completed", "cancelled"}

Ended(o) == Phase(events[o]) = "none" /\ events[o].status # "completed"

At(o) == Schedule[events[o].id].at

Told(o, phase) == told' = [told EXCEPT ![o] = Append(@, phase)]

\* Objects are compared by value: an equal one may be tracked already.
Tracks(o) ==
    \E i \in DOMAIN tracked : events[tracked[i]] = [events[o] EXCEPT !.status = "approaching"]

(***************************************************************************)
(* _handle_event_approaching or _handle_event_active for the first event   *)
(* that has changed.  An event handled as active is not tracked by it; no  *)
(* phase leads there.                                                      *)
(***************************************************************************)
Announce(o) ==
    LET status == IF o \in Approaching THEN "approaching" ELSE "active" IN
    /\ o \in Approaching \cup Occurring
    /\ \A other \in Approaching \cup Occurring : At(o) <= At(other)
    /\ events' = [events EXCEPT ![o].status = status]
    /\ tracked' = IF status = "approaching" /\ ~Tracks(o) THEN Append(tracked, o) ELSE tracked
    /\ Told(o, status)

\* _handle_event_completed for the first tracked event whose window is over.
Complete(o) ==
    /\ Approaching \cup Occurring = {}
    /\ \E i \in DOMAIN tracked :
          /\ tracked[i] = o /\ Ended(o) /\ \A j \in 1..i-1 : ~Ended(tracked[j])
          /\ tracked' = RemoveAt(tracked, i)
    /\ events' = [events EXCEPT ![o].status = "completed"]
    /\ Told(o, "completed")

NothingToTell ==
    /\ Approaching \cup Occurring = {}
    /\ \A i \in DOMAIN tracked : ~Ended(tracked[i])
    /\ UNCHANGED <<events, tracked, told>>

\* get_events compares every time in the calendar before anything else.
CheckFails == Uncomparable /\ UNCHANGED <<events, tracked, told>>

CheckEvents ==
    /\ checking
    /\ \/ CheckFails
       \/ ~Uncomparable /\ (NothingToTell \/ \E o \in Objects : Announce(o) \/ Complete(o))
    /\ checked' = TRUE
    /\ UNCHANGED <<checking, calendar, indexed, clock>>

\* A running engine checks once in every unit of time.
ClockMoves ==
    /\ clock < EndOfTime
    /\ checked \/ ~checking
    /\ clock' = clock + 1
    /\ checked' = FALSE
    /\ UNCHANGED <<checking, calendar, indexed, events, tracked, told>>

EventNext ==
    \/ \E e \in EventIds, aware \in BOOLEAN : AddEvent(e, aware)
    \/ \E e \in EventIds : SetStatus(e, "released") \/ SetStatus(e, "cancelled")
    \/ CleanupOldEvents
    \/ EngineStarts \/ EngineStops
    \/ CheckEvents
    \/ ClockMoves

\* The loop wakes up again and again, and time goes on.
EventFairness == WF_eventVars(CheckEvents) /\ WF_eventVars(ClockMoves)

EventSpec == EventInit /\ [][EventNext]_eventVars

-----------------------------------------------------------------------------
EventTypeOK ==
    /\ checking \in BOOLEAN /\ checked \in BOOLEAN
    /\ Len(events) <= MaxObjects
    /\ \A o \in Objects : events[o].id \in EventIds
    /\ calendar \in [EventIds -> 0..Len(events)]
    /\ indexed \in [EventIds -> 0..MaxObjects]
    /\ ToSet(tracked) \subseteq Objects
    /\ clock \in 0..EndOfTime

(***************************************************************************)
(* Callbacks hear of each phase of an event at most once and in the order  *)
(* approaching, active, completed, and of its end only when they heard of  *)
(* its approach.  What is tracked was told to approach and not yet to be   *)
(* over, and nothing is tracked twice, although an equal object may have   *)
(* taken its place in the calendar.                                        *)
(***************************************************************************)
PhasesInOrder ==
    /\ \A o \in Objects :
          told[o] \in {<<>>, <<"approaching">>, <<"active">>, <<"approaching", "active">>,
                      <<"approaching", "completed">>, <<"approaching", "active", "completed">>}
    /\ \A i \in DOMAIN tracked :
          told[tracked[i]] \in {<<"approaching">>, <<"approaching", "active">>}
    /\ Cardinality(ToSet(tracked)) = Len(tracked)

\* In its window, and more checks to come than there are events.
InGoodTime(o) ==
    /\ events[o].id \in MediumImpact
    /\ Phase(events[o]) = "pre"
    /\ At(o) - clock \in (MaxObjects + 1)..Horizon

(***************************************************************************)
(* An event that a running engine could announce in time is announced,     *)
(* although each check is given up at its first announcement: the window   *)
(* before the event only has to hold as many checks as events can claim.   *)
(* A calendar with an aware time in it is excused: no check gets anywhere. *)
(***************************************************************************)
EventsAreAnnounced ==
    \A o \in 1..MaxObjects :
        (checking /\ Scheduled(o) /\ InGoodTime(o)) ~> (~checking \/ ~Scheduled(o) \/ Uncomparable)

(***************************************************************************)
(* An event the engine tracks is completed in the end, cancelled or not,   *)
(* in the calendar or replaced there, unless the engine is stopped or the  *)
(* calendar holds an aware time.                                           *)
(***************************************************************************)
TrackedEventsComplete ==
    \A o \in 1..MaxObjects :
        (checking /\ o \in ToSet(tracked))
            ~> (~checking \/ o \notin ToSet(tracked) \/ Uncomparable)

(***************************************************************************)
(* What holds of calendar and engine at any time: the parts above.         *)
(***************************************************************************)
EventInvariant == EventTypeOK /\ PhasesInOrder

(***************************************************************************)
(* What a running engine owes its callbacks in the end: both kinds of      *)
(* news, although a check that has some is given up.                       *)
(***************************************************************************)
EventProgress == EventsAreAnnounced /\ TrackedEventsComplete

(***************************************************************************)
(* What the engine promises (engine.py:25: "Monitors economic events and   *)
(* adjusts trading behavior accordingly") of an event whose time may be    *)
(* written in any ISO format (api/events.py:89): announced in good time,   *)
(* whatever else is in the calendar.                                       *)
(***************************************************************************)
EventsAreMonitored ==
    \A o \in 1..MaxObjects :
        (checking /\ Scheduled(o) /\ InGoodTime(o)) ~> (~checking \/ ~Scheduled(o))
=============================================================================
