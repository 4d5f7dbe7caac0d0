-------------------------- MODULE WebSocketProofs --------------------------
(***************************************************************************)
(* Proofs about WebSockets, for any clients, topics and broadcasts.        *)
(***************************************************************************)
EXTENDS WebSockets, TLAPS

(***************************************************************************)
(* The tables of the manager and what is served.  The safety properties    *)
(* support each other: that a disconnected client may subscribe without an *)
(* entry in the info is harmless because the indexes need to agree for     *)
(* connections only, and because the end of its endpoint clears the        *)
(* subscriptions themselves.                                               *)
(***************************************************************************)
IInv == SocketTypeOK /\ UnservedLeaveNothing /\ IndexesAgree /\ ServedAreConnected

\* All that IInv says about one client.
Good(c) ==
    /\ ~Served(c) => c \notin connections /\ info[c] = {} /\ TopicsOf(c) = {}
    /\ c \in connections => info[c] = TopicsOf(c)
    /\ Served(c) /\ linkUp[c] => c \in connections

LEMMA IInvSplit == IInv <=> SocketTypeOK /\ \A c \in Clients : Good(c)
  BY DEF IInv, UnservedLeaveNothing, IndexesAgree, ServedAreConnected, Good, SocketTypeOK

LEMMA IInvSplitNext == IInv' <=> SocketTypeOK' /\ \A c \in Clients : Good(c)'
  BY DEF IInv, UnservedLeaveNothing, IndexesAgree, ServedAreConnected, Good, SocketTypeOK

\* Whatever a step does to client c, it leaves the others' rows alone.
SameFor(d) ==
    /\ awaits'[d] = awaits[d]
    /\ linkUp'[d] = linkUp[d]
    /\ d \in connections' <=> d \in connections
    /\ info'[d] = info[d]
    /\ \A t \in Topics : d \in subscriptions'[t] <=> d \in subscriptions[t]

LEMMA SameGood ==
    ASSUME NEW d \in Clients, Good(d), SameFor(d)
    PROVE  Good(d)'
  <1>1. TopicsOf(d)' = TopicsOf(d)
    BY DEF SameFor, TopicsOf
  <1>2. Served(d)' = Served(d)
    BY DEF SameFor, Served
  <1>3. QED
    BY <1>1, <1>2 DEF Good, SameFor

-----------------------------------------------------------------------------
(* The methods of the manager, one client at a time *)

LEMMA RegisterDoes ==
    ASSUME SocketTypeOK, NEW c \in Clients, Register(c)
    PROVE  /\ connections' \subseteq Clients
           /\ info' \in [Clients -> SUBSET Topics]
           /\ subscriptions' \in [Topics -> SUBSET Clients]
           /\ c \in connections'
           /\ TopicsOf(c) = {} => info'[c] = TopicsOf(c)'
           /\ \A d \in Clients \ {c} :
                 /\ d \in connections' <=> d \in connections
                 /\ info'[d] = info[d]
                 /\ \A t \in Topics : d \in subscriptions'[t] <=> d \in subscriptions[t]
  BY DEF Register, SocketTypeOK, TopicsOf

LEMMA DisconnectDoes ==
    ASSUME SocketTypeOK, NEW c \in Clients, Disconnect(c)
    PROVE  /\ connections' \subseteq Clients
           /\ info' \in [Clients -> SUBSET Topics]
           /\ subscriptions' \in [Topics -> SUBSET Clients]
           /\ c \notin connections' /\ info'[c] = {} /\ TopicsOf(c)' = {}
           /\ \A d \in Clients \ {c} :
                 /\ d \in connections' <=> d \in connections
                 /\ info'[d] = info[d]
                 /\ \A t \in Topics : d \in subscriptions'[t] <=> d \in subscriptions[t]
  BY DEF Disconnect, SocketTypeOK, TopicsOf

LEMMA SubscriptionDoes ==
    ASSUME SocketTypeOK, NEW c \in Clients, NEW t \in Topics, Subscribe(c, t) \/ Unsubscribe(c, t)
    PROVE  /\ connections' = connections
           /\ info' \in [Clients -> SUBSET Topics]
           /\ subscriptions' \in [Topics -> SUBSET Clients]
           /\ c \in connections /\ info[c] = TopicsOf(c) => info'[c] = TopicsOf(c)'
           /\ \A d \in Clients \ {c} :
                 /\ info'[d] = info[d]
                 /\ \A u \in Topics : d \in subscriptions'[u] <=> d \in subscriptions[u]
  <1>1. CASE Subscribe(c, t)
    BY <1>1 DEF Subscribe, SocketTypeOK, TopicsOf
  <1>2. CASE Unsubscribe(c, t)
    BY <1>2 DEF Unsubscribe, SocketTypeOK, TopicsOf
  <1>3. QED
    BY <1>1, <1>2

-----------------------------------------------------------------------------
(* The inductive step *)

LEMMA OneClient ==
    ASSUME IInv, NEW c \in Clients, SocketTypeOK', Good(c)', \A d \in Clients \ {c} : SameFor(d)
    PROVE  IInv'
  <1>1. \A d \in Clients : Good(d)'
    BY IInvSplit, SameGood
  <1>2. QED
    BY <1>1, IInvSplitNext

LEMMA IInvInit == SocketInit => IInv
  <1> SUFFICES ASSUME SocketInit PROVE IInv
    OBVIOUS
  <1>1. SocketTypeOK
    BY WebSocketAssumption DEF SocketInit, SocketTypeOK
  <1>2. \A c \in Clients : Good(c)
    BY DEF SocketInit, Good, Served, TopicsOf
  <1>3. QED
    BY <1>1, <1>2, IInvSplit

LEMMA AcceptKeeps ==
    ASSUME IInv, NEW c \in Clients, AcceptCompletes(c) PROVE IInv'
  <1>1. SocketTypeOK /\ Good(c)
    BY IInvSplit
  <1>2. TopicsOf(c) = {}
    BY <1>1 DEF AcceptCompletes, Move, Good, Served
  <1>3. SocketTypeOK'
    BY <1>1, RegisterDoes DEF AcceptCompletes, Move, SocketTypeOK, peer
  <1>4. Good(c)'
    BY <1>1, <1>2, RegisterDoes DEF AcceptCompletes, Move, Good, Served, SocketTypeOK
  <1>5. \A d \in Clients \ {c} : SameFor(d)
    BY <1>1, RegisterDoes DEF AcceptCompletes, Move, SameFor, SocketTypeOK, peer
  <1>6. QED
    BY <1>3, <1>4, <1>5, OneClient

LEMMA EndpointEndsKeeps ==
    ASSUME IInv, NEW c \in Clients, EndpointEnds(c) PROVE IInv'
  <1>1. SocketTypeOK /\ Good(c)
    BY IInvSplit
  <1>2. SocketTypeOK'
    BY <1>1, DisconnectDoes DEF EndpointEnds, SocketTypeOK
  <1>3. Good(c)'
    BY <1>1, DisconnectDoes DEF EndpointEnds, Good, Served, SocketTypeOK
  <1>4. \A d \in Clients \ {c} : SameFor(d)
    BY <1>1, DisconnectDoes DEF EndpointEnds, SameFor, SocketTypeOK
  <1>5. QED
    BY <1>2, <1>3, <1>4, OneClient

LEMMA SendFailsKeeps ==
    ASSUME IInv, NEW b \in Broadcasts, NEW c \in Clients, SendFails(b, c) PROVE IInv'
  <1>1. SocketTypeOK /\ Good(c)
    BY IInvSplit
  <1>2. SocketTypeOK'
    BY <1>1, DisconnectDoes DEF SendFails, Sent, SocketTypeOK, peer
  <1>3. Good(c)'
    BY <1>1, DisconnectDoes DEF SendFails, Sent, Good, Served, SocketTypeOK, peer
  <1>4. \A d \in Clients \ {c} : SameFor(d)
    BY <1>1, DisconnectDoes DEF SendFails, Sent, SameFor, SocketTypeOK, peer
  <1>5. QED
    BY <1>2, <1>3, <1>4, OneClient

LEMMA SubscriptionKeeps ==
    ASSUME IInv, NEW c \in Clients, NEW t \in Topics, HandleSubscription(c, t) PROVE IInv'
  <1>1. SocketTypeOK /\ Good(c)
    BY IInvSplit
  <1>2. Subscribe(c, t) \/ Unsubscribe(c, t)
    BY DEF HandleSubscription
  <1>3. SocketTypeOK'
    BY <1>1, <1>2, SubscriptionDoes DEF HandleSubscription, Move, ReadMessage, SocketTypeOK
  <1>4. Good(c)'
    BY <1>1, <1>2, SubscriptionDoes
       DEF HandleSubscription, Move, ReadMessage, Good, Served, SocketTypeOK
  <1>5. \A d \in Clients \ {c} : SameFor(d)
    BY <1>1, <1>2, SubscriptionDoes
       DEF HandleSubscription, Move, ReadMessage, SameFor, SocketTypeOK
  <1>6. QED
    BY <1>3, <1>4, <1>5, OneClient

\* The steps that leave the manager's tables alone.
LEMMA RestKeeps ==
    ASSUME IInv, NEW c \in Clients,
           \/ Connect(c) \/ AcceptFails(c) \/ ReplySent(c) \/ ClientSends(c) \/ LinkDrops(c)
           \/ HandleWithReply(c) \/ HandleSilently(c)
    PROVE  IInv'
  <1>1. SocketTypeOK /\ Good(c)
    BY IInvSplit
  <1> USE <1>1 DEF Connect, AcceptFails, ReplySent, ClientSends, LinkDrops, HandleWithReply,
                   HandleSilently, ReadMessage, Move, peer, registry
  <1>2. UNCHANGED registry
    OBVIOUS
  <1>3. TopicsOf(c)' = TopicsOf(c)
    BY <1>2 DEF TopicsOf
  <1>4. SocketTypeOK'
    <2>1. inbox' \in [Clients -> Nat] /\ unsent' \in [Clients -> Nat]
      <3> DEFINE more == inbox[c] + 1
                 less == inbox[c] - 1
                 left == unsent[c] - 1
      <3>1. more \in Nat
        BY DEF SocketTypeOK
      <3>2. inbox[c] > 0 => less \in Nat
        BY DEF SocketTypeOK
      <3>3. unsent[c] > 0 => left \in Nat
        BY DEF SocketTypeOK
      <3>4. \/ UNCHANGED <<inbox, unsent>>
            \/ inbox[c] > 0 /\ inbox' = [inbox EXCEPT ![c] = less] /\ unsent' = unsent
            \/ /\ unsent[c] > 0 /\ inbox' = [inbox EXCEPT ![c] = more]
               /\ unsent' = [unsent EXCEPT ![c] = left]
        OBVIOUS
      <3> HIDE DEF more, less, left
      <3>5. QED
        BY <3>1, <3>2, <3>3, <3>4 DEF SocketTypeOK
    <2>2. awaits' \in [Clients -> {"none", "accepting", "sending", "receiving", "gone"}]
      BY DEF SocketTypeOK
    <2>3. linkUp' \in [Clients -> BOOLEAN] /\ UNCHANGED sends
      BY DEF SocketTypeOK
    <2>4. QED
      BY <1>2, <2>1, <2>2, <2>3 DEF SocketTypeOK
  <1>5. Good(c)'
    BY <1>2, <1>3 DEF Good, Served, SocketTypeOK
  <1>6. \A d \in Clients \ {c} : SameFor(d)
    BY <1>2 DEF SameFor, SocketTypeOK
  <1>7. QED
    BY <1>4, <1>5, <1>6, OneClient

LEMMA SendsKeep ==
    ASSUME IInv, UNCHANGED <<awaits, peer, registry>>, sends' \in [Broadcasts -> SUBSET Clients]
    PROVE  IInv'
  <1>1. SocketTypeOK'
    BY DEF IInv, SocketTypeOK, peer, registry
  <1>2. \A d \in Clients : SameFor(d)
    BY DEF SameFor, peer, registry
  <1>3. QED
    BY <1>1, <1>2, SameGood, IInvSplit, IInvSplitNext

LEMMA IInvStep == IInv /\ [SocketNext]_socketVars => IInv'
  <1> SUFFICES ASSUME IInv, [SocketNext]_socketVars PROVE IInv'
    OBVIOUS
  <1>1. ASSUME NEW c \in Clients, EndpointStep(c) PROVE IInv'
    BY <1>1, AcceptKeeps, EndpointEndsKeeps, SubscriptionKeeps, RestKeeps
       DEF EndpointStep, Receive, SeeDisconnect
  <1>2. ASSUME NEW c \in Clients,
               Connect(c) \/ EndpointEnds(c) \/ ClientSends(c) \/ LinkDrops(c)
        PROVE  IInv'
    BY <1>2, EndpointEndsKeeps, RestKeeps
  <1>3. ASSUME NEW b \in Broadcasts, NEW t \in Topics, Broadcast(b, t) PROVE IInv'
    <2>1. sends' \in [Broadcasts -> SUBSET Clients]
      BY <1>3 DEF Broadcast, IInv, SocketTypeOK
    <2>2. QED
      BY <1>3, <2>1, SendsKeep DEF Broadcast
  <1>4. ASSUME NEW b \in Broadcasts, NEW c \in Clients, SendStep(b, c) PROVE IInv'
    <2>1. CASE SendCompletes(b, c)
      <3>1. sends' \in [Broadcasts -> SUBSET Clients]
        BY <2>1 DEF SendCompletes, Sent, IInv, SocketTypeOK
      <3>2. QED
        BY <2>1, <3>1, SendsKeep DEF SendCompletes, Sent
    <2>2. CASE SendFails(b, c)
      BY <2>2, SendFailsKeeps
    <2>3. QED
      BY <1>4, <2>1, <2>2 DEF SendStep
  <1>5. ASSUME UNCHANGED socketVars PROVE IInv'
    <2>1. sends' \in [Broadcasts -> SUBSET Clients]
      BY <1>5 DEF socketVars, IInv, SocketTypeOK
    <2>2. QED
      BY <1>5, <2>1, SendsKeep DEF socketVars, peer, registry
  <1>6. QED
    BY <1>1, <1>2, <1>3, <1>4, <1>5 DEF SocketNext, HandlerStep

LEMMA Inductive == SocketSpec => []IInv
  BY IInvInit, IInvStep, PTL DEF SocketSpec

-----------------------------------------------------------------------------
(* Theorems *)

\* The tables hold clients and topics, and nothing else.
THEOREM TypeCorrect == SocketSpec => []SocketTypeOK
  <1>1. IInv => SocketTypeOK
    BY DEF IInv
  <1>2. QED
    BY <1>1, Inductive, PTL

\* A client that is not served is in no table of the manager.
THEOREM NothingLeft == SocketSpec => []UnservedLeaveNothing
  <1>1. IInv => UnservedLeaveNothing
    BY DEF IInv
  <1>2. QED
    BY <1>1, Inductive, PTL

\* A connection's subscriptions are the same from either side.
THEOREM Agreement == SocketSpec => []IndexesAgree
  <1>1. IInv => IndexesAgree
    BY DEF IInv
  <1>2. QED
    BY <1>1, Inductive, PTL

\* A client that is served over a live link is among the connections.
THEOREM StaysConnected == SocketSpec => []ServedAreConnected
  <1>1. IInv => ServedAreConnected
    BY DEF IInv
  <1>2. QED
    BY <1>1, Inductive, PTL

\* A subscription ends by its own client's message or with its client's link.
THEOREM OwnSubscriptions == SocketSpec => SubscriptionsAreOwn
  <1> DEFINE Own == \A c \in Clients, t \in Topics :
                       c \in subscriptions[t] /\ c \notin subscriptions'[t] =>
                           inbox'[c] < inbox[c] \/ ~linkUp'[c]
  <1>1. IInv /\ [SocketNext]_socketVars => [Own]_socketVars
    <2> SUFFICES ASSUME IInv, SocketNext PROVE Own
      OBVIOUS
    <2>1. SocketTypeOK
      BY DEF IInv
    <2>2. ASSUME NEW c \in Clients, AcceptCompletes(c) PROVE Own
      BY <2>2 DEF AcceptCompletes, Register
    <2>3. ASSUME NEW c \in Clients, EndpointEnds(c) PROVE Own
      <3>1. ~linkUp'[c]
        BY <2>1, <2>3 DEF EndpointEnds, SocketTypeOK
      <3>2. QED
        BY <2>1, <2>3, <3>1, DisconnectDoes DEF EndpointEnds
    <2>4. ASSUME NEW c \in Clients, NEW t \in Topics, HandleSubscription(c, t) PROVE Own
      <3>1. inbox'[c] < inbox[c]
        <4>1. inbox'[c] = inbox[c] - 1
          BY <2>1, <2>4 DEF HandleSubscription, ReadMessage, SocketTypeOK
        <4>2. QED
          BY <2>1, <4>1 DEF SocketTypeOK
      <3>2. QED
        BY <2>1, <2>4, <3>1, SubscriptionDoes DEF HandleSubscription
    <2>5. ASSUME NEW b \in Broadcasts, NEW c \in Clients, SendFails(b, c) PROVE Own
      <3>1. ~linkUp'[c]
        BY <2>5 DEF SendFails, Sent, peer
      <3>2. QED
        BY <2>1, <2>5, <3>1, DisconnectDoes DEF SendFails
    <2>6. ASSUME UNCHANGED subscriptions PROVE Own
      BY <2>6
    <2>7. ASSUME NEW c \in Clients,
                 \/ Connect(c) \/ AcceptFails(c) \/ ReplySent(c) \/ ClientSends(c)
                 \/ LinkDrops(c) \/ HandleWithReply(c) \/ HandleSilently(c)
          PROVE  UNCHANGED subscriptions
      BY <2>7 DEF Connect, AcceptFails, ReplySent, ClientSends, LinkDrops,
                  HandleWithReply, HandleSilently, registry
    <2>8. ASSUME NEW b \in Broadcasts,
                 \/ \E t \in Topics : Broadcast(b, t)
                 \/ \E c \in Clients : SendCompletes(b, c)
          PROVE  UNCHANGED subscriptions
      BY <2>8 DEF Broadcast, SendCompletes, registry
    <2>9. QED
      BY <2>2, <2>3, <2>4, <2>5, <2>6, <2>7, <2>8
         DEF SocketNext, HandlerStep, EndpointStep, Receive, SeeDisconnect, SendStep
  <1>2. QED
    BY <1>1, Inductive, PTL DEF SocketSpec, SubscriptionsAreOwn

\* The manager's three tables agree with each other and with the endpoints, for
\* any number of clients, topics and broadcasts.
THEOREM TablesStayInAgreement == SocketSpec => []TablesAgree
  <1>1. IInv => TablesAgree
    BY DEF IInv, TablesAgree
  <1>2. QED
    BY <1>1, Inductive, PTL
=============================================================================
