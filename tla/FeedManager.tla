----------------------------- MODULE FeedManager -----------------------------
(***************************************************************************)
(* The FeedManager (market_data/feed_manager.py) and the feed adapters it  *)
(* runs (adapters/base.py, adapters/simulated.py).                         *)
(*                                                                         *)
(* A feed's receive loop creates a tick generator and a bar generator and  *)
(* remembers the two tasks; disconnecting cancels the tasks remembered,    *)
(* and a generator that is no longer remembered ends when it next looks at *)
(* the feed's flag.  The manager's start has no real await; its stop waits *)
(* for the tasks of one feed after the other inside a loop over the live   *)
(* dictionary of feeds.  One caller, the application's lifespan, starts    *)
(* and stops the manager; feeds may be registered and unregistered         *)
(* whenever that caller waits.                                             *)
(*                                                                         *)
(* The health loop never reconnects a feed: it calls the      *)
(* property is_stale, and the TypeError ends the round at the first feed.  *)
(***************************************************************************)
EXTENDS Integers, Sequences, SequencesExt, FiniteSets, FiniteSetsExt

CONSTANTS Adapters,         \* adapter objects, each with an id of its own
          MaxRegistrations, \* bound: how often each feed is registered
          MaxLoops          \* bound: receive loops of a feed

ASSUME FeedManagerAssumption ==
    /\ MaxLoops \in Nat
    /\ MaxRegistrations \in [Adapters -> Nat]

Healths == {"unknown", "healthy", "degraded", "disconnected"}
Generators == 1 .. MaxLoops

VARIABLES
    feeds,          \* the keys of the manager's dictionary, in order
    manager,        \* "stopped", "running", "halting": stop waits for the
                    \* health loop, "stopping": it walks the feeds
    visited,        \* while stopping: the feeds stop has come to ...
    sizeAtStop,     \* ... and how many there were when it began
    awaited,        \* the feed whose tasks stop waits for, if any
    callbacks,      \* how many of the manager's callbacks a feed holds
    running,        \* the feed's _running
    connected,      \* status.is_connected
    health,         \* status.status
    fresh,          \* was there a message within the stale threshold?
    loops,          \* receive loops created, begun or not
    begun,          \* receive loops begun; the last one's tasks are remembered
    ticking,        \* the tick generators alive, by their receive loop
    barring,        \* the bar generators alive
    traded,         \* have there been ticks since the last bar?
    told,           \* what the status callbacks were told last
    escaped         \* history: the feeds unregistered while they ran, or left
                    \* running by a stop that was cut short

stopping == <<visited, sizeAtStop, awaited>>
status == <<connected, health, fresh, told>>
tasks == <<loops, begun, ticking, barring, traded>>
feedVars == <<feeds, manager, visited, sizeAtStop, awaited, callbacks, running,
              connected, health, fresh, told, loops, begun, ticking, barring,
              traded, escaped>>

NoFeed == <<>>

FeedInit ==
    /\ feeds = <<>>
    /\ manager = "stopped"
    /\ visited = {} /\ sizeAtStop = 0 /\ awaited = NoFeed
    /\ callbacks = [f \in Adapters |-> 0]
    /\ running = [f \in Adapters |-> FALSE]
    /\ connected = [f \in Adapters |-> FALSE]
    /\ health = [f \in Adapters |-> "unknown"]
    /\ fresh = [f \in Adapters |-> FALSE]
    /\ told = [f \in Adapters |-> "unknown"]
    /\ loops = [f \in Adapters |-> 0]
    /\ begun = [f \in Adapters |-> 0]
    /\ ticking = [f \in Adapters |-> {}]
    /\ barring = [f \in Adapters |-> {}]
    /\ traded = [f \in Adapters |-> FALSE]
    /\ escaped = {}

Registered == Range(feeds)

-----------------------------------------------------------------------------
(* Registration *)

RegisterFeed(f) ==
    /\ f \notin Registered
    /\ callbacks[f] < MaxRegistrations[f]
    /\ feeds' = Append(feeds, f)
    /\ callbacks' = [callbacks EXCEPT ![f] = @ + 1]
    /\ UNCHANGED <<manager, stopping, running, status, tasks, escaped>>

\* The feed keeps the manager's callbacks and goes on if it was running.
UnregisterFeed(f) ==
    /\ \E i \in DOMAIN feeds : feeds[i] = f /\ feeds' = RemoveAt(feeds, i)
    /\ escaped' = IF running[f] THEN escaped \cup {f} ELSE escaped
    /\ UNCHANGED <<manager, stopping, callbacks, running, status, tasks>>

-----------------------------------------------------------------------------
(* Status of a feed *)

\* _update_status tells of a change only.
UpdateStatus(changed, h) ==
    /\ health' = [f \in Adapters |-> IF f \in changed THEN h ELSE health[f]]
    /\ connected' = [f \in Adapters |-> IF f \in changed THEN h = "healthy" ELSE connected[f]]
    /\ told' = [f \in Adapters |-> IF f \in changed /\ health[f] # h THEN h ELSE told[f]]

\* update_health; no code counts enough errors or reconnects for "unhealthy".
HealthOf(f) ==
    IF ~ connected[f] THEN "disconnected" ELSE IF fresh[f] THEN "healthy" ELSE "degraded"

\* get_status stores what it computes and tells nobody.
GetStatus(f) ==
    /\ f \in Registered
    /\ health' = [health EXCEPT ![f] = HealthOf(f)]
    /\ UNCHANGED <<feeds, manager, stopping, callbacks, running, connected, fresh, told,
                   tasks, escaped>>

\* A round of the health loop gets no further than the first feed.
HealthCheck == manager = "running" /\ feeds # <<>> /\ GetStatus(Head(feeds))

\* More than five seconds pass without a message.
GoStale(f) ==
    /\ fresh[f]
    /\ fresh' = [fresh EXCEPT ![f] = FALSE]
    /\ UNCHANGED <<feeds, manager, stopping, callbacks, running, connected, health, told,
                   tasks, escaped>>

-----------------------------------------------------------------------------
(* Start *)

\* Every registered feed is given a receive loop, the running ones another.
NewLoops(started) == [f \in Adapters |->
    IF f \in Registered THEN loops[f] + 1 ELSE loops[f]]

Start ==
    /\ manager = "stopped"
    /\ \A f \in Registered : loops[f] < MaxLoops
    /\ manager' = "running"
    /\ LET started == {f \in Registered : ~ running[f]} IN
          /\ running' = [f \in Adapters |-> f \in started \/ running[f]]
          /\ UpdateStatus(started, "healthy")
          /\ loops' = NewLoops(started)
    /\ UNCHANGED <<feeds, stopping, callbacks, fresh, begun, ticking, barring, traded,
                   escaped>>

\* receive_loop replaces the tasks remembered by two new ones.
ReceiveLoop(f) ==
    /\ begun[f] < loops[f]
    /\ begun' = [begun EXCEPT ![f] = @ + 1]
    /\ ticking' = [ticking EXCEPT ![f] = @ \cup {begun[f] + 1}]
    /\ barring' = [barring EXCEPT ![f] = @ \cup {begun[f] + 1}]
    /\ UNCHANGED <<feeds, manager, stopping, callbacks, running, status, loops, traded,
                   escaped>>

-----------------------------------------------------------------------------
(* Stop *)

\* _running is cleared, the health loop is cancelled and awaited.
Stop ==
    /\ manager = "running"
    /\ manager' = "halting"
    /\ UNCHANGED <<feeds, stopping, callbacks, running, status, tasks, escaped>>

\* The receive loops have all begun by now: they were ready before.
HealthLoopEnds ==
    /\ manager = "halting"
    /\ begun = loops
    /\ manager' = "stopping"
    /\ sizeAtStop' = Len(feeds)
    /\ UNCHANGED <<feeds, visited, awaited, callbacks, running, status, tasks, escaped>>

\* Mutant of Unvisited: the walk begins anew for each feed.
UnvisitedAny == DOMAIN feeds

\* Where the walk has not come to; it goes by the order of the dictionary.
Unvisited == {i \in DOMAIN feeds : feeds[i] \notin visited}

\* Mutant of Cancelled: the bar generator is not cancelled.
CancelledTicks(f) ==
    /\ ticking' = [ticking EXCEPT ![f] = @ \ {begun[f]}]
    /\ UNCHANGED barring

\* disconnect cancels the tasks remembered.
Cancelled(f) ==
    /\ ticking' = [ticking EXCEPT ![f] = @ \ {begun[f]}]
    /\ barring' = [barring EXCEPT ![f] = @ \ {begun[f]}]

\* stop comes to its next feed and stops it, if it runs.
StopFeed ==
    /\ manager = "stopping"
    /\ awaited = NoFeed
    /\ Len(feeds) = sizeAtStop
    /\ Unvisited # {}
    /\ LET f == feeds[Min(Unvisited)] IN
          /\ visited' = visited \cup {f}
          /\ running' = [running EXCEPT ![f] = FALSE]
          /\ IF running[f]
             THEN /\ awaited' = <<f>>
                  /\ Cancelled(f)
             ELSE UNCHANGED <<awaited, ticking, barring>>
    /\ UNCHANGED <<feeds, manager, sizeAtStop, callbacks, status, loops, begun, traded,
                   escaped>>

\* The cancelled tasks are over: the feed is disconnected.
FeedStopped ==
    /\ awaited # NoFeed
    /\ UpdateStatus({awaited[1]}, "disconnected")
    /\ awaited' = NoFeed
    /\ UNCHANGED <<feeds, manager, visited, sizeAtStop, callbacks, running, fresh, tasks,
                   escaped>>

\* The loop is over, or a dictionary that has changed its size ends it.
StopEnds ==
    /\ manager = "stopping"
    /\ awaited = NoFeed
    /\ Len(feeds) # sizeAtStop \/ Unvisited = {}
    /\ manager' = "stopped"
    /\ escaped' = escaped \cup {f \in Registered : running[f]}
    /\ visited' = {} /\ sizeAtStop' = 0
    /\ UNCHANGED <<feeds, awaited, callbacks, running, status, tasks>>

-----------------------------------------------------------------------------
(* The generators *)

\* A round of ticks: the feed counts them and hands each to every callback it
\* holds (what the manager does with a tick is in PriceMonitors).
Tick(f, g) ==
    /\ g \in ticking[f]
    /\ running[f]
    /\ fresh' = [fresh EXCEPT ![f] = TRUE]
    /\ traded' = [traded EXCEPT ![f] = TRUE]
    /\ UNCHANGED <<feeds, manager, stopping, callbacks, running, connected, health, told,
                   loops, begun, ticking, barring, escaped>>

\* A tick generator looks at the flag before it generates.
TickGeneratorEnds(f, g) ==
    /\ g \in ticking[f]
    /\ ~ running[f]
    /\ ticking' = [ticking EXCEPT ![f] = @ \ {g}]
    /\ UNCHANGED <<feeds, manager, stopping, callbacks, running, status, loops, begun,
                   barring, traded, escaped>>

\* A bar generator sleeps, emits, and only then looks at the flag.
BarInterval(f, g) ==
    /\ g \in barring[f]
    /\ traded' = [traded EXCEPT ![f] = FALSE]
    /\ barring' = [barring EXCEPT ![f] = IF running[f] THEN @ ELSE @ \ {g}]
    /\ UNCHANGED <<feeds, manager, stopping, callbacks, running, status, loops, begun,
                   ticking, escaped>>

-----------------------------------------------------------------------------

Ticks(f) == \E g \in Generators : Tick(f, g)

FeedNext ==
    \/ Start \/ Stop \/ HealthLoopEnds \/ StopFeed \/ FeedStopped \/ StopEnds \/ HealthCheck
    \/ \E f \in Adapters :
          \/ RegisterFeed(f) \/ UnregisterFeed(f) \/ GetStatus(f) \/ GoStale(f)
          \/ ReceiveLoop(f) \/ Ticks(f)
          \/ \E g \in Generators : TickGeneratorEnds(f, g) \/ BarInterval(f, g)

FeedSpec == FeedInit /\ [][FeedNext]_feedVars

\* The event loop runs the tasks that are ready and wakes those that sleep.
FeedFairness ==
    /\ WF_feedVars(HealthLoopEnds \/ StopFeed \/ FeedStopped \/ StopEnds)
    /\ \A f \in Adapters : WF_feedVars(ReceiveLoop(f)) /\ WF_feedVars(Ticks(f))

-----------------------------------------------------------------------------
(* Properties *)

\* The types; a feed's tasks are those of receive loops that have begun.
FeedTypeOK ==
    /\ feeds \in Seq(Adapters)
    /\ manager \in {"stopped", "running", "halting", "stopping"}
    /\ visited \subseteq Adapters
    /\ sizeAtStop \in Nat
    /\ awaited \in {NoFeed} \cup {<<f>> : f \in Adapters}
    /\ callbacks \in [Adapters -> Nat] /\ \A f \in Adapters : callbacks[f] <= MaxRegistrations[f]
    /\ running \in [Adapters -> BOOLEAN]
    /\ connected \in [Adapters -> BOOLEAN]
    /\ health \in [Adapters -> Healths]
    /\ fresh \in [Adapters -> BOOLEAN]
    /\ told \in [Adapters -> Healths]
    /\ loops \in [Adapters -> 0 .. MaxLoops]
    /\ begun \in [Adapters -> 0 .. MaxLoops]
    /\ \A f \in Adapters : begun[f] <= loops[f] /\ ticking[f] \cup barring[f] \subseteq 1 .. begun[f]
    /\ traded \in [Adapters -> BOOLEAN]
    /\ escaped \subseteq Adapters

\* A feed that was never unregistered while it ran, nor left running by a
\* stop cut short, has at most one pair of generators alive, so its ticks
\* are generated once, and none at all when the manager has stopped and its
\* receive loops have begun (simulated.py:118, feed_manager.py:389).
GeneratorsAreCancelled ==
    \A f \in Adapters \ escaped :
        /\ Cardinality(ticking[f]) <= 1
        /\ Cardinality(barring[f]) <= 1
        /\ manager = "stopped" => ~ running[f] /\ ~ connected[f] /\ barring[f] = {}

\* Whoever listens to the status changes knows whether a feed is connected,
\* although get_status changes the status behind its back (base.py:271).
ListenersKnowConnection ==
    \A f \in Adapters : connected[f] <=> told[f] = "healthy"

\* A feed that runs has a recent message again and again, or is stopped.
SilenceEnds == \A f \in Adapters : running[f] ~> (fresh[f] \/ ~ running[f])

\* stop comes to its end, whatever happens to the feeds meanwhile.
StopCompletes == manager = "halting" ~> manager = "stopped"

\* What holds of the feeds at any time: the parts above.
FeedInvariant == FeedTypeOK /\ GeneratorsAreCancelled /\ ListenersKnowConnection

\* What the feeds and the manager come to in the end: neither does a running
\* feed stay silent, nor stop wait for good.
FeedProgress == SilenceEnds /\ StopCompletes
=============================================================================
