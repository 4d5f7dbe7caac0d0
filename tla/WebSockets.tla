----------------------------- MODULE WebSockets -----------------------------
(***************************************************************************)
(* The WebSocketManager (websocket/manager.py), the endpoints that serve   *)
(* its clients (api/websocket.py) and the handlers that broadcast to them  *)
(* (websocket/handlers.py).                                                *)
(*                                                                         *)
(* Each client is one WebSocket object with a coroutine of its own.  A     *)
(* step is what a coroutine does between two awaits.  A broadcast is a     *)
(* task that has settled its targets and sends to each in a task of its    *)
(* own; a send that fails disconnects its client under the endpoint's      *)
(* feet.                                                                   *)
(***************************************************************************)
EXTENDS Naturals, FiniteSets

CONSTANTS Clients,
          Topics,        \* subscription types
          AnyTopic,      \* what /ws/ serves, where /ws/orders etc. serve one topic
          Endpoint,      \* the topic each client's endpoint serves, or AnyTopic
          Broadcasts,    \* bound: broadcasts under way at once
          MaxMessages    \* bound: messages a client sends

ASSUME WebSocketAssumption ==
    /\ AnyTopic \notin Topics
    /\ Endpoint \in [Clients -> Topics \cup {AnyTopic}]
    /\ MaxMessages \in Nat

VARIABLES
    awaits,         \* what the client's endpoint awaits: "accepting", "sending"
                    \* a reply, "receiving"; "none" before and "gone" after it
    linkUp,         \* is the peer still there?
    inbox,          \* messages that have arrived and are not read
    unsent,         \* messages the client may still send, for the bound
    connections,    \* _connections
    info,           \* _connection_info[..]["subscriptions"], {} without an entry
    subscriptions,  \* _subscriptions
    sends           \* the clients each broadcast has yet to send to

peer == <<linkUp, inbox, unsent>>
registry == <<connections, info, subscriptions>>
socketVars == <<awaits, linkUp, inbox, unsent, connections, info, subscriptions, sends>>

SocketInit ==
    /\ awaits = [c \in Clients |-> "none"]
    /\ linkUp = [c \in Clients |-> TRUE]
    /\ inbox = [c \in Clients |-> 0]
    /\ unsent = [c \in Clients |-> MaxMessages]
    /\ connections = {}
    /\ info = [c \in Clients |-> {}]
    /\ subscriptions = [t \in Topics |-> {}]
    /\ sends = [b \in Broadcasts |-> {}]

Served(c) == awaits[c] \in {"sending", "receiving"}

TopicsOf(c) == {t \in Topics : c \in subscriptions[t]}

-----------------------------------------------------------------------------
(* The manager's methods *)

\* connect after its await, with the subscribe of an endpoint for one topic.
Register(c) ==
    LET own == Topics \cap {Endpoint[c]} IN
    /\ connections' = connections \cup {c}
    /\ info' = [info EXCEPT ![c] = own]
    /\ subscriptions' = [t \in Topics |->
                            IF t \in own THEN subscriptions[t] \cup {c} ELSE subscriptions[t]]

\* Mutant of Disconnect: the subscriptions are found through the info.
DisconnectByInfo(c) ==
    /\ connections' = connections \ {c}
    /\ info' = [info EXCEPT ![c] = {}]
    /\ subscriptions' = [t \in Topics |->
                            IF t \in info[c] THEN subscriptions[t] \ {c} ELSE subscriptions[t]]

\* Mutant of Disconnect: the topics are cleared for everybody.
DisconnectTopics(c) ==
    /\ connections' = connections \ {c}
    /\ info' = [info EXCEPT ![c] = {}]
    /\ subscriptions' = [t \in Topics |->
                            IF c \in subscriptions[t] THEN {} ELSE subscriptions[t]]

Disconnect(c) ==
    /\ connections' = connections \ {c}
    /\ info' = [info EXCEPT ![c] = {}]
    /\ subscriptions' = [t \in Topics |-> subscriptions[t] \ {c}]

\* subscribe does not ask whether the client is still connected.
Subscribe(c, t) ==
    /\ subscriptions' = [subscriptions EXCEPT ![t] = @ \cup {c}]
    /\ info' = [info EXCEPT ![c] = IF c \in connections THEN @ \cup {t} ELSE @]
    /\ UNCHANGED connections

Unsubscribe(c, t) ==
    /\ subscriptions' = [subscriptions EXCEPT ![t] = @ \ {c}]
    /\ info' = [info EXCEPT ![c] = @ \ {t}]
    /\ UNCHANGED connections

-----------------------------------------------------------------------------
(* The endpoint of a client *)

Move(c, from, to) ==
    /\ awaits[c] = from
    /\ awaits' = [awaits EXCEPT ![c] = to]

Connect(c) ==
    /\ Move(c, "none", "accepting")
    /\ UNCHANGED <<peer, registry, sends>>

AcceptCompletes(c) ==
    /\ Move(c, "accepting", "sending")
    /\ Register(c)
    /\ UNCHANGED <<peer, sends>>

\* accept raises before anything is registered, outside of try.
AcceptFails(c) ==
    /\ Move(c, "accepting", "gone")
    /\ linkUp' = [linkUp EXCEPT ![c] = FALSE]
    /\ UNCHANGED <<inbox, unsent, registry, sends>>

\* send_to_client: a failure is logged and nothing else.
ReplySent(c) ==
    /\ Move(c, "sending", "receiving")
    /\ UNCHANGED <<peer, registry, sends>>

ReadMessage(c) ==
    /\ inbox[c] > 0
    /\ inbox' = [inbox EXCEPT ![c] = @ - 1]
    /\ UNCHANGED <<linkUp, unsent, sends>>

HandleSubscription(c, t) ==
    /\ Endpoint[c] = AnyTopic
    /\ Move(c, "receiving", "sending")
    /\ ReadMessage(c)
    /\ Subscribe(c, t) \/ Unsubscribe(c, t)

\* A ping and, where all topics are served, anything that is not understood.
HandleWithReply(c) ==
    /\ Move(c, "receiving", "sending")
    /\ ReadMessage(c)
    /\ UNCHANGED registry

\* An endpoint for one topic reads on.
HandleSilently(c) ==
    /\ Endpoint[c] # AnyTopic
    /\ awaits[c] = "receiving"
    /\ ReadMessage(c)
    /\ UNCHANGED <<awaits, registry>>

Receive(c) ==
    \/ \E t \in Topics : HandleSubscription(c, t)
    \/ HandleWithReply(c)
    \/ HandleSilently(c)

\* Mutant of EndpointEnds: the finally clause is lost.
EndpointEndsBare(c) ==
    /\ Served(c)
    /\ awaits' = [awaits EXCEPT ![c] = "gone"]
    /\ linkUp' = [linkUp EXCEPT ![c] = FALSE]
    /\ UNCHANGED <<inbox, unsent, registry, sends>>

\* The finally clause, after WebSocketDisconnect, an error or a cancellation.
EndpointEnds(c) ==
    /\ Served(c)
    /\ awaits' = [awaits EXCEPT ![c] = "gone"]
    /\ linkUp' = [linkUp EXCEPT ![c] = FALSE]
    /\ Disconnect(c)
    /\ UNCHANGED <<inbox, unsent, sends>>

\* receive_text raises WebSocketDisconnect behind the last message.
SeeDisconnect(c) ==
    /\ awaits[c] = "receiving"
    /\ ~linkUp[c]
    /\ inbox[c] = 0
    /\ EndpointEnds(c)

-----------------------------------------------------------------------------
(* Broadcasts *)

\* The targets are those of the moment the task runs.
Broadcast(b, t) ==
    /\ sends[b] = {}
    /\ subscriptions[t] # {}
    /\ sends' = [sends EXCEPT ![b] = subscriptions[t]]
    /\ UNCHANGED <<awaits, peer, registry>>

Sent(b, c) ==
    /\ c \in sends[b]
    /\ sends' = [sends EXCEPT ![b] = @ \ {c}]
    /\ UNCHANGED <<awaits, peer>>

\* A send may still succeed when the peer has gone unnoticed.
SendCompletes(b, c) ==
    /\ Sent(b, c)
    /\ UNCHANGED registry

SendFails(b, c) ==
    /\ ~linkUp[c]
    /\ Sent(b, c)
    /\ Disconnect(c)

-----------------------------------------------------------------------------
(* The peer *)

ClientSends(c) ==
    /\ linkUp[c]
    /\ Served(c)
    /\ unsent[c] > 0
    /\ unsent' = [unsent EXCEPT ![c] = @ - 1]
    /\ inbox' = [inbox EXCEPT ![c] = @ + 1]
    /\ UNCHANGED <<awaits, linkUp, registry, sends>>

LinkDrops(c) ==
    /\ linkUp[c]
    /\ awaits[c] # "none"
    /\ linkUp' = [linkUp EXCEPT ![c] = FALSE]
    /\ UNCHANGED <<awaits, inbox, unsent, registry, sends>>

-----------------------------------------------------------------------------

EndpointStep(c) ==
    AcceptCompletes(c) \/ AcceptFails(c) \/ ReplySent(c) \/ Receive(c) \/ SeeDisconnect(c)

SendStep(b, c) == SendCompletes(b, c) \/ SendFails(b, c)

\* Each handler (on_tick, on_signal, on_order_update, ...) creates a task that
\* broadcasts to the subscribers of its own topic.
HandlerStep == \E b \in Broadcasts, t \in Topics : Broadcast(b, t)

SocketNext ==
    \/ \E c \in Clients :
          Connect(c) \/ EndpointStep(c) \/ EndpointEnds(c) \/ ClientSends(c) \/ LinkDrops(c)
    \/ HandlerStep
    \/ \E b \in Broadcasts, c \in Clients : SendStep(b, c)

SocketSpec == SocketInit /\ [][SocketNext]_socketVars

\* Each accept and each send returns or raises, and each endpoint reads on.
SocketFairness ==
    /\ \A c \in Clients : WF_socketVars(EndpointStep(c))
    /\ \A b \in Broadcasts, c \in Clients : WF_socketVars(SendStep(b, c))

-----------------------------------------------------------------------------
(* Properties *)

SocketTypeOK ==
    /\ awaits \in [Clients -> {"none", "accepting", "sending", "receiving", "gone"}]
    /\ linkUp \in [Clients -> BOOLEAN]
    /\ inbox \in [Clients -> Nat]
    /\ unsent \in [Clients -> Nat]
    /\ connections \subseteq Clients
    /\ info \in [Clients -> SUBSET Topics]
    /\ subscriptions \in [Topics -> SUBSET Clients]
    /\ sends \in [Broadcasts -> SUBSET Clients]

\* A client whose endpoint has ended, or has not begun, is in no table of the
\* manager, although a client may subscribe after a failed broadcast has
\* disconnected it and a broadcast may fail after its endpoint has ended.
UnservedLeaveNothing ==
    \A c \in Clients : ~Served(c) => c \notin connections /\ info[c] = {} /\ TopicsOf(c) = {}

\* The two records of who has subscribed to what agree for every connection.
IndexesAgree == \A c \in connections : info[c] = TopicsOf(c)

\* Only a lost link takes a client that is being served out of the connections:
\* no broadcast, and no other client's failure, does.
ServedAreConnected ==
    \A c \in Clients : Served(c) /\ linkUp[c] => c \in connections

\* A subscription ends by its own client's message, or with its client's link:
\* never because another client leaves or fails.
SubscriptionsAreOwn ==
    [][\A c \in Clients, t \in Topics :
          c \in subscriptions[t] /\ c \notin subscriptions'[t] =>
              inbox'[c] < inbox[c] \/ ~linkUp'[c]]_socketVars

\* A client whose link has dropped is sooner or later out of all tables, and
\* stays out, whatever messages it had sent before.
DroppedAreForgotten ==
    \A c \in Clients :
        ~linkUp[c] ~> [](c \notin connections /\ TopicsOf(c) = {})

\* What holds of the manager's three tables and the endpoints at any time: the
\* parts above.
TablesAgree == SocketTypeOK /\ UnservedLeaveNothing /\ IndexesAgree /\ ServedAreConnected
=============================================================================
