--------------------------- MODULE EventBusProofs ---------------------------
(***************************************************************************)
(* Proofs about EventBus, for any events, types, subscribers and filters.  *)
(***************************************************************************)
EXTENDS EventBus, CollectionLemmas

-----------------------------------------------------------------------------
(* The lists of callbacks.                                                 *)

\* A list has subscribers of its own, each once.
ListOK(l, c) ==
    /\ c \in Seq(Subscribers)
    /\ \A i, j \in DOMAIN c : Filter[c[i]] = l /\ (c[i] = c[j] => i = j)

ListsOK ==
    /\ callbacks \in [Lists -> Seq(Subscribers)]
    /\ \A l \in Lists : ListOK(l, callbacks[l])
    /\ Members \subseteq known /\ known \subseteq Subscribers

LEMMA FilterIsList == \A s \in Subscribers : Filter[s] \in Lists
  BY EventBusAssumption DEF Lists

\* Who is in a list.
LEMMA MembersOfLists ==
    ASSUME ListsOK, NEW s
    PROVE  s \in Members <=> /\ s \in Subscribers
                             /\ \E i \in DOMAIN callbacks[Filter[s]] : callbacks[Filter[s]][i] = s
  <1>1. ASSUME s \in Members
        PROVE  /\ s \in Subscribers
               /\ \E i \in DOMAIN callbacks[Filter[s]] : callbacks[Filter[s]][i] = s
    <2>1. PICK l \in Lists : s \in Range(callbacks[l])
      BY <1>1 DEF Members
    <2>2. PICK i \in DOMAIN callbacks[l] : callbacks[l][i] = s
      BY <2>1 DEF Range
    <2>3. Filter[s] = l /\ callbacks[l] \in Seq(Subscribers)
      BY <2>2 DEF ListsOK, ListOK
    <2>4. s \in Subscribers
      BY <2>2, <2>3, LenProperties
    <2>5. QED
      BY <2>2, <2>3, <2>4
  <1>2. ASSUME s \in Subscribers, NEW i \in DOMAIN callbacks[Filter[s]],
               callbacks[Filter[s]][i] = s
        PROVE  s \in Members
    <2>1. Filter[s] \in Lists
      BY <1>2, FilterIsList
    <2>2. s \in Range(callbacks[Filter[s]])
      BY <1>2 DEF Range
    <2>3. QED
      BY <2>1, <2>2 DEF Members
  <1>3. QED
    BY <1>1, <1>2

\* Subscribing appends to one list.
LEMMA SubscribedLists ==
    ASSUME ListsOK, NEW t \in Subscribers \ known, callbacks' = Subscribed(t),
           known' = known \cup {t}
    PROVE  /\ ListsOK'
           /\ Members' = Members \cup {t}
           /\ \A l \in Lists : \A i \in DOMAIN callbacks[l] :
                 i \in DOMAIN callbacks'[l] /\ callbacks'[l][i] = callbacks[l][i]
           /\ \A l \in Lists : \A i \in DOMAIN callbacks'[l] :
                 i \in DOMAIN callbacks[l]
                 \/ (i = Len(callbacks[l]) + 1 /\ callbacks'[l][i] = t)
  <1> DEFINE f == Filter[t]
             c == callbacks[f]
             d == Append(c, t)
  <1>1. f \in Lists
    BY FilterIsList
  <1>2. ListOK(f, c) /\ c \in Seq(Subscribers) /\ t \notin Members
    BY <1>1 DEF ListsOK, ListOK
  <1>3. /\ d \in Seq(Subscribers) /\ DOMAIN d = 1 .. Len(c) + 1
        /\ \A i \in DOMAIN c : d[i] = c[i]
        /\ d[Len(c) + 1] = t
        /\ ToSet(d) = ToSet(c) \cup {t}
    BY <1>2, AppendElements
  <1>4. Len(c) \in Nat /\ DOMAIN c = 1 .. Len(c)
    BY <1>2, LenProperties
  <1>5. callbacks' = [callbacks EXCEPT ![f] = d] /\ callbacks \in [Lists -> Seq(Subscribers)]
    BY DEF Subscribed, ListsOK
  <1> HIDE DEF f, d
  <1>6. /\ callbacks'[f] = d
        /\ \A l \in Lists : l # f => callbacks'[l] = callbacks[l]
    BY <1>1, <1>5
  <1>7. /\ \A i \in DOMAIN c : i \in DOMAIN d
        /\ \A i \in DOMAIN d : i \in DOMAIN c \/ i = Len(c) + 1
    BY <1>3, <1>4
  <1>8. ASSUME NEW i \in DOMAIN c PROVE c[i] # t
    <2>1. c[i] \in Members
      BY <1>1 DEF Members, Range
    <2>2. QED
      BY <1>2, <2>1
  <1>9. ListOK(f, d)
    <2>1. ASSUME NEW i \in DOMAIN d PROVE Filter[d[i]] = f
      BY <1>2, <1>3, <1>7 DEF ListOK, f
    <2>2. ASSUME NEW i \in DOMAIN d, NEW j \in DOMAIN d, d[i] = d[j] PROVE i = j
      <3>1. CASE i \in DOMAIN c /\ j \in DOMAIN c
        BY <1>2, <1>3, <2>2, <3>1 DEF ListOK
      <3>2. CASE i \notin DOMAIN c /\ j \notin DOMAIN c
        BY <1>7, <3>2
      <3>3. CASE i \in DOMAIN c /\ j \notin DOMAIN c
        BY <1>3, <1>7, <1>8, <2>2, <3>3
      <3>4. CASE i \notin DOMAIN c /\ j \in DOMAIN c
        BY <1>3, <1>7, <1>8, <2>2, <3>4
      <3>5. QED
        BY <3>1, <3>2, <3>3, <3>4
    <2>3. QED
      BY <1>3, <2>1, <2>2 DEF ListOK
  <1>10. \A l \in Lists : ListOK(l, callbacks'[l])
    BY <1>6, <1>9 DEF ListsOK
  <1>11. callbacks' \in [Lists -> Seq(Subscribers)]
    BY <1>3, <1>5
  <1>12. Members' = Members \cup {t}
    <2>1. Range(d) = Range(c) \cup {t}
      BY <1>3 DEF Range, ToSet
    <2>2. \A x : x \in Members' <=> \E l \in Lists : x \in Range(callbacks'[l])
      BY DEF Members
    <2>3. \A x : x \in Members <=> \E l \in Lists : x \in Range(callbacks[l])
      BY DEF Members
    <2>4. \A l \in Lists : Range(callbacks'[l]) = IF l = f THEN Range(callbacks[l]) \cup {t}
                                                 ELSE Range(callbacks[l])
      BY <1>6, <2>1
    <2>5. \A x : x \in Members' <=> x \in Members \/ x = t
      BY <1>1, <2>2, <2>3, <2>4
    <2>6. QED
      BY <2>5
  <1>13. ListsOK'
    BY <1>10, <1>11, <1>12 DEF ListsOK
  <1>14. \A l \in Lists : \A i \in DOMAIN callbacks[l] :
            i \in DOMAIN callbacks'[l] /\ callbacks'[l][i] = callbacks[l][i]
    BY <1>3, <1>6, <1>7
  <1>15. \A l \in Lists : \A i \in DOMAIN callbacks'[l] :
            i \in DOMAIN callbacks[l] \/ (i = Len(callbacks[l]) + 1 /\ callbacks'[l][i] = t)
    BY <1>3, <1>6, <1>7
  <1>16. QED
    BY <1>12, <1>13, <1>14, <1>15

\* Taking an entry out of a list.
LEMMA RemovedList ==
    ASSUME NEW l, NEW c, ListOK(l, c), NEW k \in DOMAIN c
    PROVE  /\ ListOK(l, RemoveAt(c, k))
           /\ Range(RemoveAt(c, k)) = Range(c) \ {c[k]}
  <1> DEFINE d == RemoveAt(c, k)
  <1>1. c \in Seq(Subscribers)
    BY DEF ListOK
  <1>2. /\ d \in Seq(Subscribers)
        /\ \A i \in DOMAIN d : \E j \in DOMAIN c : j # k /\ d[i] = c[j]
        /\ \A j \in DOMAIN c : j # k => \E i \in DOMAIN d : d[i] = c[j]
        /\ \A i, m \in DOMAIN d : i < m =>
              \E j, n \in DOMAIN c : j < n /\ j # k /\ n # k /\ d[i] = c[j] /\ d[m] = c[n]
    BY <1>1, RemoveAtElements
  <1> HIDE DEF d
  <1>3. DOMAIN d \subseteq Int /\ DOMAIN c \subseteq Int
    <2>1. DOMAIN c = 1 .. Len(c) /\ DOMAIN d = 1 .. Len(d) /\ Len(c) \in Nat /\ Len(d) \in Nat
      BY <1>1, <1>2, LenProperties
    <2>2. QED
      BY <2>1
  <1>4. ListOK(l, d)
    <2>1. ASSUME NEW i \in DOMAIN d PROVE Filter[d[i]] = l
      BY <1>2 DEF ListOK
    <2>2. ASSUME NEW i \in DOMAIN d, NEW m \in DOMAIN d, i < m PROVE d[i] # d[m]
      <3>1. PICK j, n \in DOMAIN c : j < n /\ d[i] = c[j] /\ d[m] = c[n]
        BY <1>2, <2>2
      <3>2. j # n
        BY <1>3, <3>1
      <3>3. QED
        BY <3>1, <3>2 DEF ListOK
    <2>3. \A i, m \in DOMAIN d : i = m \/ i < m \/ m < i
      BY <1>3
    <2>4. QED
      BY <1>2, <2>1, <2>2, <2>3 DEF ListOK
  <1>5. Range(d) = Range(c) \ {c[k]}
    <2>1. \A x \in Range(d) : x \in Range(c) /\ x # c[k]
      BY <1>2 DEF ListOK, Range
    <2>2. \A x \in Range(c) : x # c[k] => x \in Range(d)
      BY <1>2 DEF Range
    <2>3. QED
      BY <2>1, <2>2
  <1>6. QED
    BY <1>4, <1>5 DEF d

\* Unsubscribing takes one entry out of one list.
LEMMA UnsubscribedLists ==
    ASSUME ListsOK, NEW t \in Members, callbacks' = Unsubscribed(t), known' = known
    PROVE  /\ ListsOK'
           /\ Members' = Members \ {t}
           /\ Filter[t] \in Lists
           /\ PlaceOf(t) \in DOMAIN callbacks[Filter[t]]
           /\ callbacks[Filter[t]][PlaceOf(t)] = t
           /\ \A l \in Lists : l # Filter[t] => callbacks'[l] = callbacks[l]
           /\ callbacks'[Filter[t]] = RemoveAt(callbacks[Filter[t]], PlaceOf(t))
  <1> DEFINE f == Filter[t]
             c == callbacks[f]
             k == PlaceOf(t)
             d == RemoveAt(c, k)
  <1>1. t \in Subscribers /\ \E i \in DOMAIN c : c[i] = t
    BY MembersOfLists
  <1>2. f \in Lists
    BY <1>1, FilterIsList
  <1>3. k \in DOMAIN c /\ c[k] = t
    BY <1>1 DEF PlaceOf
  <1>4. ListOK(f, c)
    BY <1>2 DEF ListsOK
  <1>5. callbacks' = [callbacks EXCEPT ![f] = d] /\ callbacks \in [Lists -> Seq(Subscribers)]
    BY DEF Unsubscribed, ListsOK
  <1> HIDE DEF k, c
  <1>6. ListOK(f, d) /\ Range(d) = Range(c) \ {t}
    BY <1>3, <1>4, RemovedList
  <1> HIDE DEF f, d
  <1>7. /\ callbacks'[f] = d
        /\ \A l \in Lists : l # f => callbacks'[l] = callbacks[l]
    BY <1>2, <1>5
  <1>8. callbacks' \in [Lists -> Seq(Subscribers)] /\ \A l \in Lists : ListOK(l, callbacks'[l])
    <2>1. d \in Seq(Subscribers)
      BY <1>6 DEF ListOK
    <2>2. \A l \in Lists : ListOK(l, callbacks'[l])
      BY <1>6, <1>7 DEF ListsOK
    <2>3. QED
      BY <1>2, <1>5, <2>1, <2>2
  <1>9. Members' = Members \ {t}
    <2>2. \A x : x \in Members' <=> \E l \in Lists : x \in Range(callbacks'[l])
      BY DEF Members
    <2>3. \A x : x \in Members <=> \E l \in Lists : x \in Range(callbacks[l])
      BY DEF Members
    <2>4. \A l \in Lists : l # f => t \notin Range(callbacks[l])
      BY DEF ListsOK, ListOK, Range, f
    <2>5. \A l \in Lists : Range(callbacks'[l]) = Range(callbacks[l]) \ {t}
      BY <1>6, <1>7, <2>4 DEF c
    <2>6. \A x : x \in Members' <=> x \in Members /\ x # t
      BY <2>2, <2>3, <2>5
    <2>7. QED
      BY <2>6
  <1>10. ListsOK'
    BY <1>8, <1>9 DEF ListsOK
  <1>11. QED
    BY <1>2, <1>3, <1>7, <1>9, <1>10 DEF f, k, d, c
-----------------------------------------------------------------------------
(* The inductive invariant.                                                *)

QueueTypes ==
    /\ running \in BOOLEAN
    /\ queue \in Seq(Events)
    /\ loop \in {"none", "ready", "waiting"}
    /\ running <=> loop # "none"
    /\ runs \in 0 .. MaxRuns
    /\ sent \subseteq Events
    /\ accepted \in Seq(Events)
    /\ acceptedIn \in [Events -> 0 .. MaxRuns]

Dispatches == [active : {TRUE}, event : Events, list : Lists, at : Nat \ {0}]

DispatchTypes ==
    /\ dispatch = Idle \/ dispatch \in Dispatches
    /\ received \in [Subscribers -> Seq(Events)]
    /\ left \in Nat

BusTypes == QueueTypes /\ ListsOK /\ DispatchTypes

\* What some subscriber was handed, and that or what is being dispatched.
Handed == UNION {Range(received[s]) : s \in Subscribers}
Gone == Handed \cup {e \in Events : dispatch.active /\ e = dispatch.event}

\* If both were queued, x was queued before y.
Earlier(x, y) ==
    \A i, j \in DOMAIN accepted : accepted[i] = x /\ accepted[j] = y => i < j

\* What is in the queue comes after all that has left it, in order.
OrderOK ==
    /\ Gone \cup Range(queue) \cup Range(accepted) \subseteq sent
    /\ \A i, j \in DOMAIN queue :
          i < j => queue[i] # queue[j] /\ Earlier(queue[i], queue[j])
    /\ \A x \in Gone, i \in DOMAIN queue : x # queue[i] /\ Earlier(x, queue[i])
    /\ \A x \in Handed :
          dispatch.active /\ x # dispatch.event => Earlier(x, dispatch.event)

\* Who has still to be handed the event of the dispatch was not handed it yet.
NotYetHanded ==
    /\ \A s \in Subscribers \ known : received[s] = <<>>
    /\ dispatch.active =>
          /\ dispatch.list \in {TypeOf[dispatch.event], AnyType}
          /\ \A i \in DOMAIN List :
                i >= dispatch.at => dispatch.event \notin Range(received[List[i]])
          /\ dispatch.list # AnyType =>
                \A s \in Subscribers :
                   Filter[s] = AnyType => dispatch.event \notin Range(received[s])

BusIInv == BusTypes /\ QueuedInThisRun /\ SkippedOnlyByRemoval /\ OrderOK /\ NotYetHanded

\* The types the runs check follow.
LEMMA TypesOfBus == BusTypes => EventBusTypeOK
  <1> SUFFICES ASSUME BusTypes PROVE EventBusTypeOK
    OBVIOUS
  <1>1. \A l \in Lists : \A i, j \in DOMAIN callbacks[l] :
           Filter[callbacks[l][i]] = l /\ (callbacks[l][i] = callbacks[l][j] => i = j)
    BY DEF BusTypes, ListsOK, ListOK
  <1>2. callbacks \in [Lists -> Seq(Subscribers)] /\ Members \subseteq known
    BY DEF BusTypes, ListsOK
  <1>3. dispatch = Idle \/ dispatch \in [active : {TRUE}, event : Events, list : Lists, at : Nat \ {0}]
    BY DEF BusTypes, DispatchTypes, Dispatches
  <1>4. QueueTypes
    BY DEF BusTypes
  <1>5. QED
    BY <1>1, <1>2, <1>3, <1>4 DEF EventBusTypeOK, QueueTypes

LEMMA TypeOfIsList == \A e \in Events : TypeOf[e] \in Lists /\ TypeOf[e] # AnyType
  BY EventBusAssumption DEF Lists

LEMMA AnyTypeIsList == AnyType \in Lists
  BY DEF Lists

\* An active dispatch has an event, a list and an index.
LEMMA ActiveDispatch ==
    ASSUME BusTypes, dispatch.active
    PROVE  /\ dispatch \in Dispatches
           /\ dispatch.event \in Events /\ dispatch.list \in Lists /\ dispatch.at \in Nat \ {0}
           /\ ListOK(dispatch.list, List)
           /\ Len(List) \in Nat /\ DOMAIN List = 1 .. Len(List)
  <1>1. dispatch \in Dispatches
    BY DEF BusTypes, DispatchTypes, Idle
  <1>2. dispatch.event \in Events /\ dispatch.list \in Lists /\ dispatch.at \in Nat \ {0}
    BY <1>1 DEF Dispatches
  <1>3. ListOK(dispatch.list, List)
    BY <1>2 DEF BusTypes, ListsOK, List
  <1>4. List \in Seq(Subscribers)
    BY <1>3 DEF ListOK
  <1>5. QED
    BY <1>1, <1>2, <1>3, <1>4, LenProperties

\* A dispatch starts with these values.
LEMMA NewDispatch ==
    ASSUME NEW e \in Events, NEW l \in Lists, dispatch' = Dispatching(e, l, 1)
    PROVE  /\ dispatch' \in Dispatches /\ dispatch'.active
           /\ dispatch'.event = e /\ dispatch'.list = l /\ dispatch'.at = 1
  BY DEF Dispatching, Dispatches

\* The index moves one entry on.
LEMMA NextDispatch ==
    ASSUME dispatch \in Dispatches, dispatch' = [dispatch EXCEPT !.at = NextIndex(@)]
    PROVE  /\ dispatch' \in Dispatches /\ dispatch'.active
           /\ dispatch'.event = dispatch.event /\ dispatch'.list = dispatch.list
           /\ dispatch'.at = dispatch.at + 1
  <1>1. dispatch.at \in Nat \ {0} /\ dispatch.at + 1 \in Nat \ {0}
    BY DEF Dispatches
  <1>2. dispatch' = [dispatch EXCEPT !.at = dispatch.at + 1]
    BY DEF NextIndex
  <1>3. QED
    BY <1>1, <1>2 DEF Dispatches

\* What a callback can do to the list under the index: nothing, append a
\* newcomer, or take the entry at k out, which counts when k was passed.
Kept(c, d) ==
    /\ \A i \in DOMAIN c : i \in DOMAIN d /\ d[i] = c[i]
    /\ \A i \in DOMAIN d : i \in DOMAIN c \/ (i = Len(c) + 1 /\ d[i] \notin known)

CutAt(c, d, k) ==
    /\ k \in DOMAIN c
    /\ DOMAIN d = 1 .. Len(c) - 1
    /\ \A i \in DOMAIN d : d[i] = IF i < k THEN c[i] ELSE c[i + 1]

LEMMA ReactionChanges ==
    ASSUME BusTypes, dispatch.active, dispatch.at \in DOMAIN List,
           NEW s \in Subscribers, Reaction(s)
    PROVE  /\ ListsOK'
           /\ known \subseteq known'
           /\ left' \in Nat /\ left' >= left
           /\ Members' = Members \/ \E t \in Subscribers : Members' \in {Members \cup {t}, Members \ {t}}
           /\ \/ Kept(List, callbacks'[dispatch.list])
              \/ \E k \in DOMAIN List :
                    /\ CutAt(List, callbacks'[dispatch.list], k)
                    /\ k <= dispatch.at => left' = left + 1
  <1> DEFINE l == dispatch.list
             d == callbacks'[l]
  <1>0. /\ dispatch \in Dispatches /\ l \in Lists /\ dispatch.at \in Nat
        /\ ListOK(l, List) /\ List \in Seq(Subscribers)
        /\ Len(List) \in Nat /\ DOMAIN List = 1 .. Len(List)
        /\ List = callbacks[l]
    BY ActiveDispatch DEF List, ListOK
  <1>00. left \in Nat /\ ListsOK
    BY DEF BusTypes, DispatchTypes
  <1>1. CASE UNCHANGED <<callbacks, known, left>>
    <2>1. callbacks' = callbacks /\ known' = known /\ left' = left
      BY <1>1
    <2>2. Members' = Members
      BY <2>1 DEF Members
    <2>3. ListsOK'
      BY <1>00, <2>1, <2>2 DEF ListsOK
    <2>4. Kept(List, d)
      BY <1>0, <2>1 DEF Kept
    <2>5. QED
      BY <1>00, <2>1, <2>2, <2>3, <2>4
  <1>2. CASE \E t \in Subscribers \ known :
                callbacks' = Subscribed(t) /\ known' = known \cup {t} /\ UNCHANGED left
    <2>1. PICK t \in Subscribers \ known :
             callbacks' = Subscribed(t) /\ known' = known \cup {t} /\ UNCHANGED left
      BY <1>2
    <2>2. /\ ListsOK'
          /\ Members' = Members \cup {t}
          /\ \A m \in Lists : \A i \in DOMAIN callbacks[m] :
                i \in DOMAIN callbacks'[m] /\ callbacks'[m][i] = callbacks[m][i]
          /\ \A m \in Lists : \A i \in DOMAIN callbacks'[m] :
                i \in DOMAIN callbacks[m]
                \/ (i = Len(callbacks[m]) + 1 /\ callbacks'[m][i] = t)
      BY <1>00, <2>1, SubscribedLists
    <2>3. Kept(List, d)
      BY <1>0, <2>1, <2>2 DEF Kept
    <2>4. left' = left /\ known' = known \cup {t}
      BY <2>1
    <2>5. QED
      BY <1>00, <2>2, <2>3, <2>4
  <1>3. CASE \E t \in Members :
                /\ callbacks' = Unsubscribed(t)
                /\ left' = IF Before(t) THEN left + 1 ELSE left
                /\ UNCHANGED known
    <2>1. PICK t \in Members :
             /\ callbacks' = Unsubscribed(t)
             /\ left' = IF Before(t) THEN left + 1 ELSE left
             /\ UNCHANGED known
      BY <1>3
    <2>2. /\ ListsOK'
          /\ Members' = Members \ {t}
          /\ Filter[t] \in Lists
          /\ PlaceOf(t) \in DOMAIN callbacks[Filter[t]]
          /\ callbacks[Filter[t]][PlaceOf(t)] = t
          /\ \A m \in Lists : m # Filter[t] => callbacks'[m] = callbacks[m]
          /\ callbacks'[Filter[t]] = RemoveAt(callbacks[Filter[t]], PlaceOf(t))
      BY <1>00, <2>1, UnsubscribedLists
    <2>3. left' \in Nat /\ left' >= left
      BY <1>00, <2>1
    <2>4. t \in Subscribers
      BY <1>00, MembersOfLists
    <2>5. CASE l # Filter[t]
      <3>1. d = List
        BY <1>0, <2>2, <2>5
      <3>2. Kept(List, d)
        BY <3>1 DEF Kept
      <3>3. QED
        BY <2>1, <2>2, <2>3, <2>4, <3>2
    <2>6. CASE l = Filter[t]
      <3> DEFINE k == PlaceOf(t)
      <3>1. k \in DOMAIN List /\ List[k] = t /\ d = RemoveAt(List, k)
        BY <1>0, <2>2, <2>6
      <3> HIDE DEF k, d, l
      <3>2. DOMAIN d = 1 .. Len(List) - 1
            /\ \A i \in DOMAIN d : d[i] = IF i < k THEN List[i] ELSE List[i + 1]
        BY <1>0, <3>1, RemoveAtProperties
      <3>3. CutAt(List, d, k)
        BY <3>1, <3>2 DEF CutAt
      <3>4. k <= dispatch.at => Before(t)
        BY <3>1 DEF Before
      <3>5. k <= dispatch.at => left' = left + 1
        BY <2>1, <3>4
      <3>6. QED
        BY <2>1, <2>2, <2>3, <2>4, <3>1, <3>3, <3>5 DEF d, l
    <2>7. QED
      BY <2>5, <2>6
  <1>4. QED
    BY <1>1, <1>2, <1>3 DEF Reaction

-----------------------------------------------------------------------------
(* The steps.                                                              *)

LEMMA SameLists ==
    ASSUME ListsOK, UNCHANGED <<callbacks, known>>
    PROVE  ListsOK' /\ Members' = Members
  <1>1. callbacks' = callbacks /\ known' = known
    OBVIOUS
  <1>2. Members' = Members
    BY <1>1 DEF Members
  <1>3. QED
    BY <1>1, <1>2 DEF ListsOK

\* A step between two dispatches that hands nothing out.
LEMMA BetweenDispatches ==
    ASSUME BusIInv, ~ dispatch.active, UNCHANGED <<dispatch, received, left>>,
           known \subseteq known'
    PROVE  DispatchTypes' /\ SkippedOnlyByRemoval' /\ NotYetHanded'
  <1>1. dispatch' = dispatch /\ received' = received /\ left' = left
    OBVIOUS
  <1>2. ~ dispatch'.active
    BY <1>1
  <1>3. DispatchTypes'
    BY <1>1 DEF BusIInv, BusTypes, DispatchTypes
  <1>4. SkippedOnlyByRemoval'
    BY <1>2 DEF SkippedOnlyByRemoval
  <1>5. NotYetHanded'
    BY <1>1, <1>2 DEF BusIInv, NotYetHanded
  <1>6. QED
    BY <1>3, <1>4, <1>5

\* A step that hands nothing out, queues nothing, and may empty the queue.
LEMMA SameOrder ==
    ASSUME OrderOK, UNCHANGED <<dispatch, received, sent, accepted>>,
           queue' = queue \/ queue' = <<>>
    PROVE  OrderOK'
  <1>1. dispatch' = dispatch /\ received' = received /\ sent' = sent /\ accepted' = accepted
    OBVIOUS
  <1>2. Handed' = Handed /\ Gone' = Gone
    BY <1>1 DEF Handed, Gone
  <1>3. \A x, y : Earlier(x, y)' <=> Earlier(x, y)
    BY <1>1 DEF Earlier
  <1>4. DOMAIN queue' \subseteq DOMAIN queue /\ \A i \in DOMAIN queue' : queue'[i] = queue[i]
    <2>1. CASE queue' = <<>>
      <3>1. DOMAIN queue' = {}
        BY <2>1
      <3>2. QED
        BY <3>1
    <2>2. QED
      BY <2>1
  <1>5. Range(queue') \subseteq Range(queue)
    BY <1>4 DEF Range
  <1>6. QED
    BY <1>1, <1>2, <1>3, <1>4, <1>5 DEF OrderOK

LEMMA StartStep ==
    ASSUME BusIInv, Start
    PROVE  BusIInv'
  <1>1. QueueTypes'
    <2>1. <<>> \in Seq(Events)
      OBVIOUS
    <2>2. runs' \in 0 .. MaxRuns
      BY EventBusAssumption DEF BusIInv, BusTypes, QueueTypes, Start
    <2>3. QED
      BY <2>1, <2>2 DEF BusIInv, BusTypes, QueueTypes, Start, NewQueue, history
  <1>2. ListsOK'
    BY SameLists DEF BusIInv, BusTypes, Start
  <1>3. DispatchTypes' /\ SkippedOnlyByRemoval' /\ NotYetHanded'
    BY BetweenDispatches DEF Start, history
  <1>4. OrderOK'
    BY SameOrder DEF BusIInv, Start, history, NewQueue
  <1>5. QueuedInThisRun'
    <2>1. DOMAIN queue' = {}
      BY DEF Start, NewQueue
    <2>2. QED
      BY <2>1 DEF QueuedInThisRun
  <1>6. QED
    BY <1>1, <1>2, <1>3, <1>4, <1>5 DEF BusIInv, BusTypes

LEMMA StopStep ==
    ASSUME BusIInv, Stop
    PROVE  BusIInv'
  <1>1. QueueTypes'
    BY DEF BusIInv, BusTypes, QueueTypes, Stop, history
  <1>2. ListsOK'
    BY SameLists DEF BusIInv, BusTypes, Stop
  <1>3. DispatchTypes' /\ SkippedOnlyByRemoval' /\ NotYetHanded'
    BY BetweenDispatches DEF Stop, history
  <1>4. OrderOK'
    BY SameOrder DEF BusIInv, Stop, history
  <1>5. QueuedInThisRun'
    BY DEF QueuedInThisRun, Stop
  <1>6. QED
    BY <1>1, <1>2, <1>3, <1>4, <1>5 DEF BusIInv, BusTypes

\* The event is new: nothing that was sent before comes after it.
LEMMA PublishStep ==
    ASSUME BusIInv, NEW e \in Events, Publish(e)
    PROVE  BusIInv'
  <1>0. /\ queue \in Seq(Events) /\ accepted \in Seq(Events) /\ e \notin sent
        /\ queue' = Append(queue, e) /\ accepted' = Append(accepted, e)
        /\ sent' = sent \cup {e} /\ dispatch' = dispatch /\ received' = received
        /\ running' = running /\ runs' = runs /\ acceptedIn' = [acceptedIn EXCEPT ![e] = runs]
        /\ acceptedIn \in [Events -> 0 .. MaxRuns] /\ runs \in 0 .. MaxRuns
        /\ ~ dispatch.active /\ OrderOK /\ running
    BY DEF BusIInv, BusTypes, QueueTypes, Publish
  <1>1. QueueTypes'
    <2>1. queue' \in Seq(Events) /\ accepted' \in Seq(Events)
      BY <1>0, AppendElements
    <2>2. QED
      BY <1>0, <2>1 DEF BusIInv, BusTypes, QueueTypes, Publish
  <1>2. ListsOK'
    BY SameLists DEF BusIInv, BusTypes, Publish
  <1>3. DispatchTypes' /\ SkippedOnlyByRemoval' /\ NotYetHanded'
    BY BetweenDispatches DEF Publish
  <1>4. /\ \A i \in DOMAIN queue : queue'[i] = queue[i] /\ queue[i] \in sent
        /\ \A i \in DOMAIN accepted : accepted'[i] = accepted[i] /\ accepted[i] \in sent
        /\ queue'[Len(queue) + 1] = e /\ accepted'[Len(accepted) + 1] = e
        /\ DOMAIN queue' = 1 .. Len(queue) + 1 /\ DOMAIN accepted' = 1 .. Len(accepted) + 1
        /\ DOMAIN queue = 1 .. Len(queue) /\ DOMAIN accepted = 1 .. Len(accepted)
        /\ Len(queue) \in Nat /\ Len(accepted) \in Nat
    <2>1. \A i \in DOMAIN queue : queue[i] \in sent
      BY <1>0 DEF OrderOK, Range
    <2>2. \A i \in DOMAIN accepted : accepted[i] \in sent
      BY <1>0 DEF OrderOK, Range
    <2>3. QED
      BY <1>0, <2>1, <2>2, AppendElements, LenProperties
  <1>5. /\ \A i \in DOMAIN queue' : i \in DOMAIN queue \/ i = Len(queue) + 1
        /\ \A i \in DOMAIN accepted' : i \in DOMAIN accepted \/ i = Len(accepted) + 1
        /\ \A i \in DOMAIN accepted : i < Len(accepted) + 1
        /\ \A i \in DOMAIN queue : ~ (i > Len(queue) + 1)
    BY <1>4
  <1>6. OrderOK'
    <2>1. Handed' = Handed /\ Gone' = Gone
      BY <1>0 DEF Handed, Gone
    <2>2. ASSUME NEW x \in sent, NEW y \in sent, Earlier(x, y) PROVE Earlier(x, y)'
      <3>1. x # e /\ y # e
        BY <1>0
      <3>2. \A i \in DOMAIN accepted' : accepted'[i] \in {x, y} =>
               i \in DOMAIN accepted /\ accepted'[i] = accepted[i]
        BY <1>4, <1>5, <3>1
      <3>3. QED
        BY <2>2, <3>2 DEF Earlier
    <2>3. ASSUME NEW x \in sent PROVE Earlier(x, e)' /\ x # e
      <3>1. x # e
        BY <1>0
      <3>2. \A i \in DOMAIN accepted' : accepted'[i] = x => i \in DOMAIN accepted
        BY <1>4, <1>5, <3>1
      <3>3. \A i \in DOMAIN accepted' : accepted'[i] = e => i = Len(accepted) + 1
        BY <1>0, <1>4, <1>5
      <3>4. QED
        BY <1>5, <3>1, <3>2, <3>3 DEF Earlier
    <2>4. \A x \in Gone : x \in sent
      BY <1>0 DEF OrderOK
    <2>5. Range(queue') \subseteq sent' /\ Range(accepted') \subseteq sent'
      <3>1. \A i \in DOMAIN queue' : queue'[i] \in sent'
        BY <1>0, <1>4, <1>5
      <3>2. \A i \in DOMAIN accepted' : accepted'[i] \in sent'
        BY <1>0, <1>4, <1>5
      <3>3. QED
        BY <3>1, <3>2 DEF Range
    <2>6. ASSUME NEW i \in DOMAIN queue', NEW j \in DOMAIN queue', i < j
          PROVE  queue'[i] # queue'[j] /\ Earlier(queue[i], queue[j])'
      <3>1. i \in DOMAIN queue
        BY <1>4, <1>5, <2>6
      <3>2. CASE j \in DOMAIN queue
        <4>1. queue'[i] = queue[i] /\ queue'[j] = queue[j] /\ queue[i] \in sent /\ queue[j] \in sent
          BY <1>4, <3>1, <3>2
        <4>2. queue[i] # queue[j] /\ Earlier(queue[i], queue[j])
          BY <1>0, <2>6, <3>1, <3>2 DEF OrderOK
        <4>3. QED
          BY <2>2, <4>1, <4>2 DEF Earlier
      <3>3. CASE j = Len(queue) + 1
        <4>1. queue'[i] = queue[i] /\ queue'[j] = e /\ queue[i] \in sent
          BY <1>4, <3>1, <3>3
        <4>2. QED
          BY <2>3, <4>1 DEF Earlier
      <3>4. QED
        BY <1>5, <3>2, <3>3
    <2>7. ASSUME NEW x \in Gone, NEW i \in DOMAIN queue'
          PROVE  x # queue'[i] /\ Earlier(x, queue[i])'
      <3>1. CASE i \in DOMAIN queue
        <4>1. queue'[i] = queue[i] /\ queue[i] \in sent /\ x \in sent
          BY <1>4, <2>4, <3>1
        <4>2. x # queue[i] /\ Earlier(x, queue[i])
          BY <1>0, <3>1 DEF OrderOK
        <4>3. QED
          BY <2>2, <4>1, <4>2 DEF Earlier
      <3>2. CASE i = Len(queue) + 1
        <4>1. queue'[i] = e /\ x \in sent
          BY <1>4, <2>4, <3>2
        <4>2. QED
          BY <2>3, <4>1 DEF Earlier
      <3>3. QED
        BY <1>5, <3>1, <3>2
    <2>8. Gone' \subseteq sent' /\ ~ dispatch'.active
      BY <1>0, <2>1, <2>4
    <2>9. QED
      BY <2>1, <2>5, <2>6, <2>7, <2>8 DEF OrderOK
  <1>7. QueuedInThisRun'
    <2>1. \A i \in DOMAIN queue : acceptedIn[queue[i]] = runs /\ queue[i] \in Events /\ queue[i] # e
      BY <1>0, <1>4, LenProperties DEF BusIInv, QueuedInThisRun
    <2>2. \A i \in DOMAIN queue : acceptedIn'[queue'[i]] = runs'
      BY <1>0, <1>4, <2>1
    <2>3. acceptedIn'[queue'[Len(queue) + 1]] = runs'
      BY <1>0, <1>4
    <2>4. QED
      BY <1>5, <2>2, <2>3 DEF QueuedInThisRun
  <1>8. QED
    BY <1>1, <1>2, <1>3, <1>6, <1>7 DEF BusIInv, BusTypes

LEMMA LoopWaitsStep ==
    ASSUME BusIInv, LoopWaits
    PROVE  BusIInv'
  <1>1. QueueTypes'
    BY DEF BusIInv, BusTypes, QueueTypes, LoopWaits, history
  <1>2. ListsOK'
    BY SameLists DEF BusIInv, BusTypes, LoopWaits
  <1>3. DispatchTypes' /\ SkippedOnlyByRemoval' /\ NotYetHanded'
    BY BetweenDispatches DEF LoopWaits, history
  <1>4. OrderOK'
    BY SameOrder DEF BusIInv, LoopWaits, history
  <1>5. QueuedInThisRun'
    BY DEF BusIInv, QueuedInThisRun, LoopWaits, history
  <1>6. QED
    BY <1>1, <1>2, <1>3, <1>4, <1>5 DEF BusIInv, BusTypes

LEMMA SubscribeStep ==
    ASSUME BusIInv, NEW s \in Subscribers, Subscribe(s)
    PROVE  BusIInv'
  <1>1. QueueTypes'
    BY DEF BusIInv, BusTypes, QueueTypes, Subscribe, history
  <1>2. ListsOK'
    BY SubscribedLists DEF BusIInv, BusTypes, Subscribe
  <1>3. DispatchTypes' /\ SkippedOnlyByRemoval' /\ NotYetHanded'
    BY BetweenDispatches DEF Subscribe, history
  <1>4. OrderOK'
    BY SameOrder DEF BusIInv, Subscribe, history
  <1>5. QueuedInThisRun'
    BY DEF BusIInv, QueuedInThisRun, Subscribe, history
  <1>6. QED
    BY <1>1, <1>2, <1>3, <1>4, <1>5 DEF BusIInv, BusTypes

LEMMA UnsubscribeStep ==
    ASSUME BusIInv, NEW s \in Subscribers, Unsubscribe(s)
    PROVE  BusIInv'
  <1>1. QueueTypes'
    BY DEF BusIInv, BusTypes, QueueTypes, Unsubscribe, history
  <1>2. ListsOK'
    BY UnsubscribedLists DEF BusIInv, BusTypes, Unsubscribe
  <1>3. DispatchTypes' /\ SkippedOnlyByRemoval' /\ NotYetHanded'
    BY BetweenDispatches DEF Unsubscribe, history
  <1>4. OrderOK'
    BY SameOrder DEF BusIInv, Unsubscribe, history
  <1>5. QueuedInThisRun'
    BY DEF BusIInv, QueuedInThisRun, Unsubscribe, history
  <1>6. QED
    BY <1>1, <1>2, <1>3, <1>4, <1>5 DEF BusIInv, BusTypes

\* A dispatch that starts on a list has passed nobody yet.
LEMMA NewDispatchSkipsNobody ==
    ASSUME ListsOK', dispatch' \in Dispatches', dispatch'.at = 1, left' = 0
    PROVE  SkippedOnlyByRemoval'
  <1> DEFINE c == callbacks'[dispatch'.list]
             S == {i \in DOMAIN c :
                     i < dispatch'.at /\ dispatch'.event \notin Range(received'[c[i]])}
  <1>1. dispatch'.list \in Lists
    BY DEF Dispatches
  <1>2. c \in Seq(Subscribers)
    BY <1>1 DEF ListsOK, ListOK
  <1>3. DOMAIN c = 1 .. Len(c)
    BY <1>2, LenProperties
  <1>4. S = {}
    BY <1>3
  <1>5. Cardinality(S) = 0
    BY <1>4, FS_EmptySet
  <1>6. QED
    BY <1>5 DEF SkippedOnlyByRemoval, List

\* Nobody was handed an event whose dispatch starts.
LEMMA NewDispatchIsNew ==
    ASSUME ListsOK', dispatch' \in Dispatches', dispatch'.list = TypeOf[dispatch'.event],
           \A s \in Subscribers : dispatch'.event \notin Range(received'[s]),
           \A s \in Subscribers \ known' : received'[s] = <<>>
    PROVE  NotYetHanded'
  <1> DEFINE c == callbacks'[dispatch'.list]
  <1>1. dispatch'.list \in Lists
    BY DEF Dispatches
  <1>2. c \in Seq(Subscribers)
    BY <1>1 DEF ListsOK, ListOK
  <1>3. \A i \in DOMAIN c : c[i] \in Subscribers
    BY <1>2, LenProperties
  <1>4. \A i \in DOMAIN c : dispatch'.event \notin Range(received'[c[i]])
    BY <1>3
  <1>5. QED
    BY <1>4 DEF NotYetHanded, List

LEMMA PublishImmediateStep ==
    ASSUME BusIInv, NEW e \in Events, PublishImmediate(e)
    PROVE  BusIInv'
  <1>0. /\ dispatch' \in Dispatches /\ dispatch'.active /\ dispatch'.event = e
        /\ dispatch'.list = TypeOf[e] /\ dispatch'.at = 1
        /\ e \notin sent /\ sent' = sent \cup {e} /\ received' = received
        /\ accepted' = accepted /\ queue' = queue /\ left' = 0
        /\ callbacks' = callbacks /\ known' = known /\ OrderOK /\ ~ dispatch.active
    BY NewDispatch, TypeOfIsList DEF PublishImmediate, BusIInv
  <1>1. QueueTypes'
    BY DEF BusIInv, BusTypes, QueueTypes, PublishImmediate
  <1>2. ListsOK'
    BY SameLists DEF BusIInv, BusTypes, PublishImmediate
  <1>3. DispatchTypes'
    BY <1>0 DEF BusIInv, BusTypes, DispatchTypes, Dispatches
  <1>4. SkippedOnlyByRemoval'
    BY <1>0, <1>2, NewDispatchSkipsNobody DEF Dispatches
  <1>5. /\ \A s \in Subscribers : Range(received[s]) \subseteq sent
        /\ \A i \in DOMAIN queue : queue[i] \in sent
        /\ \A i \in DOMAIN accepted : accepted[i] \in sent
    BY <1>0 DEF OrderOK, Gone, Handed, Range
  <1>6. NotYetHanded'
    <2>1. \A s \in Subscribers : dispatch'.event \notin Range(received'[s])
      BY <1>0, <1>5
    <2>2. \A s \in Subscribers \ known' : received'[s] = <<>>
      BY <1>0 DEF NotYetHanded, BusIInv
    <2>3. dispatch' \in Dispatches' /\ dispatch'.list = TypeOf[dispatch'.event]
      BY <1>0 DEF Dispatches
    <2>4. QED
      BY <1>2, <2>1, <2>2, <2>3, NewDispatchIsNew
  <1>7. OrderOK'
    <2>1. Handed' = Handed /\ Gone' = Gone \cup {e} /\ Handed \subseteq sent /\ Gone \subseteq sent
      BY <1>0, <1>5 DEF Handed, Gone
    <2>2. \A x, y : Earlier(x, y)' <=> Earlier(x, y)
      BY <1>0 DEF Earlier
    <2>3. \A x : Earlier(x, e) /\ Earlier(e, x)
      BY <1>0, <1>5 DEF Earlier
    <2>4. \A x \in Gone', i \in DOMAIN queue' : x # queue'[i] /\ Earlier(x, queue[i])'
      BY <1>0, <1>5, <2>1, <2>2, <2>3 DEF OrderOK
    <2>5. \A i, j \in DOMAIN queue' :
             i < j => queue'[i] # queue'[j] /\ Earlier(queue[i], queue[j])'
      BY <1>0, <2>2 DEF OrderOK
    <2>6. \A x \in Handed' : Earlier(x, dispatch.event)'
      BY <1>0, <2>1, <2>2, <2>3
    <2>7. Gone' \cup Range(queue') \cup Range(accepted') \subseteq sent'
      BY <1>0, <2>1 DEF OrderOK
    <2>8. QED
      BY <2>4, <2>5, <2>6, <2>7 DEF OrderOK
  <1>8. QueuedInThisRun'
    BY DEF BusIInv, QueuedInThisRun, PublishImmediate
  <1>9. QED
    BY <1>1, <1>2, <1>3, <1>4, <1>6, <1>7, <1>8 DEF BusIInv, BusTypes

LEMMA LoopTakesStep ==
    ASSUME BusIInv, LoopTakes
    PROVE  BusIInv'
  <1> DEFINE e == Head(queue)
  <1>0. /\ queue \in Seq(Events) /\ queue # <<>> /\ queue' = Tail(queue) /\ ~ dispatch.active
        /\ dispatch' = Dispatching(e, TypeOf[e], 1)
        /\ sent' = sent /\ received' = received /\ accepted' = accepted /\ left' = 0
        /\ callbacks' = callbacks /\ known' = known /\ OrderOK
    BY DEF LoopTakes, TakeNext, history, BusIInv, BusTypes, QueueTypes
  <1>1. /\ e \in Events /\ e = queue[1] /\ 1 \in DOMAIN queue
        /\ queue' \in Seq(Events)
        /\ \A i \in DOMAIN queue' : i + 1 \in DOMAIN queue /\ queue'[i] = queue[i + 1] /\ i + 1 > 1
                                    /\ i \in Int
    BY <1>0
  <1>2. /\ dispatch' \in Dispatches /\ dispatch'.active /\ dispatch'.event = e
        /\ dispatch'.list = TypeOf[e] /\ dispatch'.at = 1
    BY <1>0, <1>1, NewDispatch, TypeOfIsList
  <1> HIDE DEF e
  <1>3. QueueTypes'
    BY <1>1 DEF BusIInv, BusTypes, QueueTypes, LoopTakes, TakeNext, history
  <1>4. ListsOK'
    BY SameLists DEF BusIInv, BusTypes, LoopTakes
  <1>5. DispatchTypes'
    BY <1>0, <1>2 DEF BusIInv, BusTypes, DispatchTypes, Dispatches
  <1>6. SkippedOnlyByRemoval'
    BY <1>0, <1>2, <1>4, NewDispatchSkipsNobody DEF Dispatches
  <1>7. /\ Handed \subseteq Gone
        /\ \A x \in Gone : x # e /\ Earlier(x, e)
        /\ \A s \in Subscribers : e \notin Range(received[s])
    <2>1. Handed \subseteq Gone
      BY DEF Gone
    <2>2. \A x \in Gone : x # e /\ Earlier(x, e)
      BY <1>0, <1>1 DEF OrderOK
    <2>3. QED
      BY <2>1, <2>2 DEF Handed
  <1>8. NotYetHanded'
    <2>1. \A s \in Subscribers : dispatch'.event \notin Range(received'[s])
      BY <1>0, <1>2, <1>7
    <2>2. \A s \in Subscribers \ known' : received'[s] = <<>>
      BY <1>0 DEF NotYetHanded, BusIInv
    <2>3. dispatch' \in Dispatches' /\ dispatch'.list = TypeOf[dispatch'.event]
      BY <1>2 DEF Dispatches
    <2>4. QED
      BY <1>4, <2>1, <2>2, <2>3, NewDispatchIsNew
  <1>9. OrderOK'
    <2>1. Handed' = Handed /\ Gone' = Gone \cup {e}
      BY <1>0, <1>1, <1>2 DEF Handed, Gone
    <2>2. \A x, y : Earlier(x, y)' <=> Earlier(x, y)
      BY <1>0 DEF Earlier
    <2>3. \A i \in DOMAIN queue' : e # queue'[i] /\ Earlier(e, queue'[i])
      BY <1>0, <1>1 DEF OrderOK
    <2>4. \A x \in Gone', i \in DOMAIN queue' : x # queue'[i] /\ Earlier(x, queue[i])'
      BY <1>0, <1>1, <2>1, <2>2, <2>3 DEF OrderOK
    <2>5. ASSUME NEW i \in DOMAIN queue', NEW j \in DOMAIN queue', i < j
          PROVE  queue'[i] # queue'[j] /\ Earlier(queue[i], queue[j])'
      <3>1. i + 1 < j + 1 /\ i + 1 \in DOMAIN queue /\ j + 1 \in DOMAIN queue
        BY <1>1, <2>5
      <3>2. queue[i + 1] # queue[j + 1] /\ Earlier(queue[i + 1], queue[j + 1])
        BY <1>0, <3>1 DEF OrderOK
      <3>3. QED
        BY <1>1, <2>2, <3>2
    <2>6. \A x \in Handed' : Earlier(x, dispatch.event)'
      BY <1>2, <1>7, <2>1, <2>2
    <2>7. Gone' \cup Range(queue') \cup Range(accepted') \subseteq sent'
      <3>1. e \in Range(queue) /\ Range(queue') \subseteq Range(queue)
        BY <1>1 DEF Range
      <3>2. QED
        BY <1>0, <2>1, <3>1 DEF OrderOK
    <2>8. QED
      BY <2>4, <2>5, <2>6, <2>7 DEF OrderOK
  <1>10. QueuedInThisRun'
    <2>1. running' = running /\ runs' = runs /\ acceptedIn' = acceptedIn
      BY DEF LoopTakes, history
    <2>2. QED
      BY <1>1, <2>1 DEF BusIInv, QueuedInThisRun
  <1>11. QED
    BY <1>3, <1>4, <1>5, <1>6, <1>8, <1>9, <1>10 DEF BusIInv, BusTypes

LEMMA EndOfListStep ==
    ASSUME BusIInv, EndOfList
    PROVE  BusIInv'
  <1>0. /\ sent' = sent /\ received' = received /\ accepted' = accepted /\ left' = 0
        /\ callbacks' = callbacks /\ known' = known /\ queue' = queue /\ OrderOK
        /\ dispatch.active /\ dispatch \in Dispatches /\ dispatch.event \in Events
    BY ActiveDispatch DEF EndOfList, history, BusIInv
  <1>1. QueueTypes'
    BY DEF BusIInv, BusTypes, QueueTypes, EndOfList, history
  <1>2. ListsOK'
    BY SameLists DEF BusIInv, BusTypes, EndOfList
  <1>3. QueuedInThisRun'
    BY DEF BusIInv, QueuedInThisRun, EndOfList, history
  <1>4. ASSUME Gone' \subseteq Gone, dispatch'.active => dispatch'.event = dispatch.event
        PROVE  OrderOK'
    <2>1. Handed' = Handed
      BY <1>0 DEF Handed
    <2>2. \A x, y : Earlier(x, y)' <=> Earlier(x, y)
      BY <1>0 DEF Earlier
    <2>3. QED
      BY <1>0, <1>4, <2>1, <2>2 DEF OrderOK
  <1>5. CASE dispatch.list = AnyType
    <2>1. dispatch' = Idle /\ ~ dispatch'.active
      BY <1>5 DEF EndOfList, Idle
    <2>2. DispatchTypes'
      BY <1>0, <2>1 DEF BusIInv, BusTypes, DispatchTypes, Idle
    <2>3. SkippedOnlyByRemoval'
      BY <2>1 DEF SkippedOnlyByRemoval
    <2>4. NotYetHanded'
      BY <1>0, <2>1 DEF NotYetHanded, BusIInv
    <2>5. Gone' \subseteq Gone
      BY <1>0, <2>1 DEF Gone, Handed
    <2>6. QED
      BY <1>1, <1>2, <1>3, <1>4, <2>1, <2>2, <2>3, <2>4, <2>5 DEF BusIInv, BusTypes
  <1>6. CASE dispatch.list # AnyType
    <2>1. dispatch' = Dispatching(dispatch.event, AnyType, 1)
      BY <1>6 DEF EndOfList
    <2>2. /\ dispatch' \in Dispatches /\ dispatch'.active /\ dispatch'.event = dispatch.event
          /\ dispatch'.list = AnyType /\ dispatch'.at = 1
      BY <1>0, <2>1, NewDispatch, AnyTypeIsList
    <2>3. DispatchTypes'
      BY <1>0, <2>2 DEF BusIInv, BusTypes, DispatchTypes, Dispatches
    <2>4. SkippedOnlyByRemoval'
      BY <1>0, <1>2, <2>2, NewDispatchSkipsNobody DEF Dispatches
    <2>5. NotYetHanded'
      <3>1. \A i \in DOMAIN callbacks[AnyType] :
               callbacks[AnyType][i] \in Subscribers /\ Filter[callbacks[AnyType][i]] = AnyType
        <4>1. ListOK(AnyType, callbacks[AnyType])
          BY AnyTypeIsList DEF BusIInv, BusTypes, ListsOK
        <4>2. QED
          BY <4>1, LenProperties DEF ListOK
      <3>2. \A s \in Subscribers :
               Filter[s] = AnyType => dispatch.event \notin Range(received[s])
        BY <1>0, <1>6 DEF NotYetHanded, BusIInv
      <3>3. QED
        BY <1>0, <2>2, <3>1, <3>2 DEF NotYetHanded, BusIInv, List
    <2>6. Gone' \subseteq Gone
      BY <1>0, <2>2 DEF Gone, Handed
    <2>7. QED
      BY <1>1, <1>2, <1>3, <1>4, <2>2, <2>3, <2>4, <2>5, <2>6 DEF BusIInv, BusTypes
  <1>7. QED
    BY <1>5, <1>6


LEMMA CallNextStep ==
    ASSUME BusIInv, CallNext
    PROVE  BusIInv'
  <1> DEFINE at == dispatch.at
             e == dispatch.event
             s == List[at]
             d == callbacks'[dispatch.list]
  <1>0. /\ dispatch.active /\ at \in DOMAIN List
        /\ received' = [received EXCEPT ![s] = Append(@, e)]
        /\ Reaction(s)
        /\ dispatch' = [dispatch EXCEPT !.at = NextIndex(@)]
        /\ sent' = sent /\ accepted' = accepted /\ queue' = queue
        /\ BusTypes /\ OrderOK /\ NotYetHanded /\ SkippedOnlyByRemoval
    BY DEF CallNext, BusIInv
  <1>1. /\ dispatch \in Dispatches /\ e \in Events /\ dispatch.list \in Lists /\ at \in Nat \ {0}
        /\ ListOK(dispatch.list, List) /\ List \in Seq(Subscribers)
        /\ Len(List) \in Nat /\ DOMAIN List = 1 .. Len(List)
    BY <1>0, ActiveDispatch DEF ListOK
  <1>2. /\ s \in Subscribers /\ Filter[s] = dispatch.list
        /\ \A i \in DOMAIN List : List[i] \in Subscribers /\ (List[i] = s => i = at)
    BY <1>0, <1>1, LenProperties DEF ListOK
  <1>3. /\ ListsOK' /\ known \subseteq known' /\ left' \in Nat /\ left' >= left
        /\ \/ Kept(List, d)
           \/ \E k \in DOMAIN List : CutAt(List, d, k) /\ (k <= at => left' = left + 1)
    BY <1>0, <1>2, ReactionChanges
  <1>4. /\ dispatch' \in Dispatches /\ dispatch'.active
        /\ dispatch'.event = e /\ dispatch'.list = dispatch.list
        /\ dispatch'.at = at + 1
    BY <1>0, <1>1, NextDispatch
  <1>5. /\ received' \in [Subscribers -> Seq(Events)]
        /\ \A t \in Subscribers : t # s => received'[t] = received[t]
        /\ Range(received'[s]) = Range(received[s]) \cup {e}
    <2>1. received \in [Subscribers -> Seq(Events)]
      BY <1>0 DEF BusTypes, DispatchTypes
    <2>2. received[s] \in Seq(Events)
      BY <1>2, <2>1
    <2> HIDE DEF s, e
    <2>3. Append(received[s], e) \in Seq(Events)
          /\ Range(Append(received[s], e)) = Range(received[s]) \cup {e}
      <3>1. Append(received[s], e) \in Seq(Events)
            /\ ToSet(Append(received[s], e)) = ToSet(received[s]) \cup {e}
        BY <1>1, <2>2, AppendElements
      <3>2. QED
        BY <3>1 DEF Range, ToSet
    <2>4. QED
      BY <1>0, <1>2, <2>1, <2>3
  <1>6. QueueTypes'
    BY <1>0 DEF BusTypes, QueueTypes, CallNext
  <1>7. DispatchTypes'
    BY <1>3, <1>4, <1>5 DEF DispatchTypes, Dispatches
  <1>8. QueuedInThisRun'
    BY DEF BusIInv, QueuedInThisRun, CallNext
  <1>9. s \in known
    <2>1. s \in Members
      BY <1>0, <1>1 DEF Members, Range, List
    <2>2. QED
      BY <1>0, <2>1 DEF BusTypes, ListsOK
  <1> HIDE DEF at, e, s, d
  <1>10. OrderOK'
    <2>1. \A x \in Handed' : x \in Handed \/ x = e
      BY <1>5 DEF Handed
    <2>2. e \in Gone /\ Handed \subseteq Gone
      BY <1>0, <1>1 DEF Gone, e
    <2>3. \A x \in Gone' : x \in Handed' \/ x = e
      BY <1>4 DEF Gone
    <2>4. Gone' \subseteq Gone
      BY <2>1, <2>2, <2>3
    <2>5. \A x, y : Earlier(x, y)' <=> Earlier(x, y)
      BY <1>0 DEF Earlier
    <2>6. ASSUME NEW x \in Handed', x # e PROVE Earlier(x, e)
      <3>1. x \in Handed
        BY <2>1, <2>6
      <3>2. QED
        BY <1>0, <2>6, <3>1 DEF OrderOK, e
    <2>7. \A x \in Handed' : x # dispatch'.event => Earlier(x, dispatch.event)'
      BY <1>4, <2>5, <2>6
    <2>8. Gone' \cup Range(queue') \cup Range(accepted') \subseteq sent'
      BY <1>0, <2>4 DEF OrderOK
    <2>9. /\ \A i, j \in DOMAIN queue' :
                i < j => queue'[i] # queue'[j] /\ Earlier(queue[i], queue[j])'
          /\ \A x \in Gone', i \in DOMAIN queue' : x # queue'[i] /\ Earlier(x, queue[i])'
      BY <1>0, <2>4, <2>5 DEF OrderOK
    <2>10. QED
      BY <2>7, <2>8, <2>9 DEF OrderOK
  <1>11. NotYetHanded'
    <2>1. \A t \in Subscribers \ known' : received'[t] = <<>>
      BY <1>0, <1>3, <1>5, <1>9 DEF NotYetHanded
    <2>2. dispatch.list # AnyType =>
             \A t \in Subscribers : Filter[t] = AnyType => e \notin Range(received'[t])
      BY <1>0, <1>2, <1>5 DEF NotYetHanded, e
    <2>3. \A i \in DOMAIN List : i > at => e \notin Range(received'[List[i]])
      <3>1. \A i \in DOMAIN List : i > at => i >= at /\ i # at
        BY <1>1
      <3>2. QED
        BY <1>0, <1>2, <1>5, <3>1 DEF NotYetHanded, e, at
    <2>4. \A i \in DOMAIN d : i >= at + 1 => e \notin Range(received'[d[i]])
      <3>1. CASE Kept(List, d)
        <4>1. ASSUME NEW i \in DOMAIN d, i >= at + 1, i \in DOMAIN List
              PROVE  e \notin Range(received'[d[i]])
          <5>1. d[i] = List[i]
            BY <3>1, <4>1 DEF Kept
          <5>2. i > at
            BY <1>1, <4>1
          <5>3. QED
            BY <2>3, <4>1, <5>1, <5>2
        <4>2. ASSUME NEW i \in DOMAIN d, i \notin DOMAIN List
              PROVE  e \notin Range(received'[d[i]])
          <5>1. d[i] \notin known
            BY <3>1, <4>2 DEF Kept
          <5>2. d[i] \in Subscribers
            <6>1. ListOK(dispatch.list, d)
              BY <1>1, <1>3 DEF ListsOK, d
            <6>2. QED
              BY <4>2, <6>1, LenProperties DEF ListOK
          <5>3. received[d[i]] = <<>> /\ d[i] # s
            BY <1>0, <1>9, <5>1, <5>2 DEF NotYetHanded
          <5>4. received'[d[i]] = <<>>
            BY <1>5, <5>2, <5>3
          <5>5. QED
            BY <5>4 DEF Range
        <4>3. QED
          BY <4>1, <4>2
      <3>2. ASSUME NEW k \in DOMAIN List, CutAt(List, d, k), NEW i \in DOMAIN d, i >= at + 1
            PROVE  e \notin Range(received'[d[i]])
        <4>1. i \in 1 .. Len(List) - 1 /\ d[i] = IF i < k THEN List[i] ELSE List[i + 1]
          BY <3>2 DEF CutAt
        <4>2. i \in DOMAIN List /\ i > at /\ i + 1 \in DOMAIN List /\ i + 1 > at
          BY <1>1, <3>2, <4>1
        <4>3. QED
          BY <2>3, <4>1, <4>2
      <3>3. QED
        BY <1>3, <3>1, <3>2
    <2>5. dispatch'.list \in {TypeOf[dispatch'.event], AnyType}
      BY <1>0, <1>4 DEF NotYetHanded, e
    <2>6. QED
      BY <1>4, <2>1, <2>2, <2>4, <2>5 DEF NotYetHanded, List, d
  <1>12. SkippedOnlyByRemoval'
    <2> DEFINE A == {i \in DOMAIN List : i < at /\ e \notin Range(received[List[i]])}
               B == {i \in DOMAIN d : i < at + 1 /\ e \notin Range(received'[d[i]])}
    <2>1. IsFiniteSet(A) /\ Cardinality(A) \in Nat /\ Cardinality(A) <= left
      <3>1. Cardinality(A) <= left
        BY <1>0 DEF SkippedOnlyByRemoval, at, e
      <3>2. A \subseteq 1 .. Len(List)
        BY <1>1
      <3>3. \A n \in Nat : IsFiniteSet(1 .. n)
        BY FS_Interval
      <3>4. IsFiniteSet(A)
        <4> HIDE DEF A
        <4>1. QED
          BY <1>1, <3>2, <3>3, FS_Subset
      <3> HIDE DEF A
      <3>5. QED
        BY <3>1, <3>4, FS_CardinalityType
    <2>2. left \in Nat
      BY <1>0 DEF BusTypes, DispatchTypes
    <2>3. \A i \in DOMAIN List : i < at /\ e \notin Range(received'[List[i]]) => i \in A
      BY <1>1, <1>2, <1>5
    <2>4. e \in Range(received'[s])
      BY <1>5
    <2>5. ASSUME B \subseteq A PROVE Cardinality(B) <= left'
      <3> HIDE DEF A, B
      <3>1. IsFiniteSet(B) /\ Cardinality(B) <= Cardinality(A)
        BY <2>1, <2>5, FS_Subset
      <3>2. Cardinality(B) \in Nat
        BY <3>1, FS_CardinalityType
      <3>3. QED
        BY <1>3, <2>1, <2>2, <3>1, <3>2
    <2>6. ASSUME Kept(List, d) PROVE Cardinality(B) <= left'
      <3>1. ASSUME NEW i \in B PROVE i \in A
        <4>1. i \in DOMAIN d /\ i < at + 1 /\ e \notin Range(received'[d[i]])
          OBVIOUS
        <4>2. i \in DOMAIN List
          BY <1>0, <1>1, <2>6, <4>1 DEF Kept, at
        <4>3. d[i] = List[i] /\ i # at
          BY <2>4, <2>6, <4>1, <4>2 DEF Kept, s
        <4>4. i < at
          BY <1>1, <4>1, <4>2, <4>3
        <4>5. QED
          BY <2>3, <4>1, <4>2, <4>3, <4>4
      <3>2. B \subseteq A
        BY <3>1
      <3>3. QED
        BY <2>5, <3>2
    <2>7. ASSUME NEW k \in DOMAIN List, CutAt(List, d, k), k > at
          PROVE  Cardinality(B) <= left'
      <3>1. ASSUME NEW i \in B PROVE i \in A
        <4>1. i \in DOMAIN d /\ i < at + 1 /\ e \notin Range(received'[d[i]])
          OBVIOUS
        <4>2. i \in 1 .. Len(List) - 1 /\ d[i] = IF i < k THEN List[i] ELSE List[i + 1]
          BY <2>7, <4>1 DEF CutAt
        <4>3. i \in DOMAIN List /\ i < k
          BY <1>1, <2>7, <4>1, <4>2
        <4>4. d[i] = List[i] /\ i # at
          BY <2>4, <4>1, <4>2, <4>3 DEF s
        <4>5. i < at
          BY <1>1, <4>1, <4>3, <4>4
        <4>6. QED
          BY <2>3, <4>1, <4>3, <4>4, <4>5
      <3>2. B \subseteq A
        BY <3>1
      <3>3. QED
        BY <2>5, <3>2
    <2>8. ASSUME NEW k \in DOMAIN List, CutAt(List, d, k), k <= at, left' = left + 1
          PROVE  Cardinality(B) <= left'
      <3> DEFINE C == A \cup {at + 1}
                 to(i) == IF i < k THEN i ELSE i + 1
                 g == [i \in B |-> to(i)]
      <3>0. k \in Int /\ at \in Int /\ left' = left + 1
        BY <1>1, <2>8
      <3>1. ASSUME NEW i \in B PROVE to(i) \in C /\ i \in Int
        <4>1. i \in DOMAIN d /\ i < at + 1 /\ e \notin Range(received'[d[i]])
          OBVIOUS
        <4>2. i \in 1 .. Len(List) - 1 /\ d[i] = List[to(i)]
          BY <2>8, <4>1 DEF CutAt
        <4>3. to(i) \in DOMAIN List /\ i \in Int /\ to(i) <= at + 1
          BY <1>1, <3>0, <4>1, <4>2
        <4>4. to(i) # at
          BY <2>4, <4>1, <4>2 DEF s
        <4>5. to(i) < at \/ to(i) = at + 1
          BY <1>1, <3>0, <4>3, <4>4
        <4>6. QED
          BY <2>3, <4>1, <4>2, <4>3, <4>5
      <3>2. \A i, j \in B : to(i) = to(j) => i = j
        BY <3>0, <3>1
      <3> HIDE DEF to, A, B
      <3>3. IsFiniteSet(C) /\ Cardinality(C) <= Cardinality(A) + 1 /\ Cardinality(C) \in Nat
        <4>1. IsFiniteSet(C) /\ (Cardinality(C) = Cardinality(A) \/ Cardinality(C) = Cardinality(A) + 1)
          BY <2>1, FS_AddElement
        <4>2. QED
          BY <2>1, <4>1
      <3> HIDE DEF C
      <3>4. g \in Injection(B, C)
        BY <3>1, <3>2 DEF Injection, IsInjective
      <3>5. IsFiniteSet(B) /\ Cardinality(B) <= Cardinality(C)
        <4> HIDE DEF g
        <4>1. ExistsInjection(B, C)
          BY <3>4 DEF ExistsInjection
        <4>2. QED
          BY <3>3, <3>4, FS_Injection
      <3>6. Cardinality(B) \in Nat
        BY <3>5, FS_CardinalityType
      <3>7. QED
        BY <2>1, <2>2, <3>0, <3>3, <3>5, <3>6
    <2>9. Cardinality(B) <= left'
      <3>1. \A k \in DOMAIN List : k > at \/ k <= at
        BY <1>1
      <3> HIDE DEF B
      <3>2. ASSUME NEW k \in DOMAIN List, CutAt(List, d, k), k <= at => left' = left + 1
            PROVE  Cardinality(B) <= left'
        BY <2>7, <2>8, <3>1, <3>2
      <3>3. QED
        BY <1>3, <2>6, <3>2
    <2>10. QED
      BY <1>4, <2>9 DEF SkippedOnlyByRemoval, List, d
  <1>13. QED
    BY <1>3, <1>6, <1>7, <1>8, <1>10, <1>11, <1>12 DEF BusIInv, BusTypes

LEMMA BusInitial == Init => BusIInv
  <1> SUFFICES ASSUME Init PROVE BusIInv
    OBVIOUS
  <1>0. /\ queue = <<>> /\ accepted = <<>> /\ dispatch = Idle /\ ~ dispatch.active
        /\ received = [s \in Subscribers |-> <<>>] /\ known = {} /\ sent = {}
        /\ callbacks = [l \in Lists |-> <<>>] /\ left = 0
    BY DEF Init, Idle
  <1>1. QueueTypes
    <2>1. acceptedIn \in [Events -> 0 .. MaxRuns] /\ runs \in 0 .. MaxRuns
      BY EventBusAssumption DEF Init
    <2>2. <<>> \in Seq(Events)
      OBVIOUS
    <2>3. QED
      BY <2>1, <2>2 DEF QueueTypes, Init
  <1>2. ListsOK
    <2>1. <<>> \in Seq(Subscribers) /\ DOMAIN <<>> = {}
      OBVIOUS
    <2>2. Members = {}
      BY <1>0, <2>1 DEF Members, Range
    <2>3. QED
      BY <1>0, <2>1, <2>2 DEF ListsOK, ListOK
  <1>3. DispatchTypes
    <2>1. <<>> \in Seq(Events)
      OBVIOUS
    <2>2. QED
      BY <1>0, <2>1 DEF DispatchTypes
  <1>4. QueuedInThisRun /\ SkippedOnlyByRemoval
    BY <1>0 DEF Init, QueuedInThisRun, SkippedOnlyByRemoval
  <1>5. OrderOK
    <2>1. DOMAIN <<>> = {}
      OBVIOUS
    <2>2. Range(<<>>) = {}
      BY <2>1 DEF Range
    <2>3. Gone = {} /\ Handed = {}
      BY <1>0, <2>2 DEF Gone, Handed
    <2>4. QED
      BY <1>0, <2>1, <2>2, <2>3 DEF OrderOK
  <1>6. NotYetHanded
    BY <1>0 DEF NotYetHanded
  <1>7. QED
    BY <1>1, <1>2, <1>3, <1>4, <1>5, <1>6 DEF BusIInv, BusTypes

LEMMA BusUnchanged ==
    ASSUME BusIInv, UNCHANGED vars
    PROVE  BusIInv'
  <1>1. QueueTypes' /\ QueuedInThisRun'
    BY DEF BusIInv, BusTypes, QueueTypes, QueuedInThisRun, vars, history
  <1>2. ListsOK'
    BY SameLists DEF BusIInv, BusTypes, vars
  <1>3. DispatchTypes'
    BY DEF BusIInv, BusTypes, DispatchTypes, vars, history
  <1>4. OrderOK'
    BY SameOrder DEF BusIInv, vars, history
  <1>5. SkippedOnlyByRemoval'
    BY DEF BusIInv, SkippedOnlyByRemoval, List, vars, history
  <1>6. NotYetHanded'
    BY DEF BusIInv, NotYetHanded, List, vars, history
  <1>7. QED
    BY <1>1, <1>2, <1>3, <1>4, <1>5, <1>6 DEF BusIInv, BusTypes

LEMMA BusStep ==
    ASSUME BusIInv, [Next]_vars
    PROVE  BusIInv'
  <1>1. CASE Start
    BY <1>1, StartStep
  <1>2. CASE Stop
    BY <1>2, StopStep
  <1>3. CASE LoopStep
    BY <1>3, LoopTakesStep, LoopWaitsStep, CallNextStep, EndOfListStep DEF LoopStep
  <1>4. ASSUME NEW e \in Events, Publish(e) \/ PublishImmediate(e)
        PROVE  BusIInv'
    BY <1>4, PublishStep, PublishImmediateStep
  <1>5. ASSUME NEW s \in Subscribers, Subscribe(s) \/ Unsubscribe(s)
        PROVE  BusIInv'
    BY <1>5, SubscribeStep, UnsubscribeStep
  <1>6. CASE UNCHANGED vars
    BY <1>6, BusUnchanged
  <1>7. QED
    BY <1>1, <1>2, <1>3, <1>4, <1>5, <1>6 DEF Next

LEMMA BusIInvHolds == Spec => []BusIInv
  BY BusInitial, BusStep, PTL DEF Spec

LEMMA BusIInvImplies == BusIInv => BusInvariant
  BY TypesOfBus DEF BusIInv, BusInvariant

\* Whatever the callbacks do to the lists while a dispatch walks them, it
\* skips at most one subscriber for each entry removed behind its index, and
\* no event outlives the run of the bus that accepted it (bus.py:155-191).
THEOREM BusSafe == Spec => []BusInvariant
  BY BusIInvHolds, BusIInvImplies, PTL

-----------------------------------------------------------------------------
(* The bus implements EventDelivery.                                       *)

LEMMA DeliveryInitial == Init => Delivery!Init
  <1> SUFFICES ASSUME Init PROVE Delivery!Init
    OBVIOUS
  <1>1. \A l \in Lists : callbacks[l] = <<>>
    BY DEF Init
  <1>2. Range(<<>>) = {}
    BY DEF Range
  <1>3. Members = {}
    BY <1>1, <1>2 DEF Members
  <1>4. QED
    BY <1>3 DEF Init, Delivery!Init

\* An event is queued once.
LEMMA PublishDelivers ==
    ASSUME BusIInv, NEW e \in Events, Publish(e)
    PROVE  Delivery!Publish(e)
  <1>1. e \notin Range(accepted)
    BY DEF BusIInv, OrderOK, Publish
  <1>2. Members' = Members
    BY DEF Publish, Members
  <1>3. QED
    BY <1>1, <1>2 DEF Publish, Delivery!Publish, Delivery!Queued, Range, Delivery!Range

\* The subscriber under the index is a member that asked for the event, was
\* not handed it yet, and was handed nothing that was queued after it.
LEMMA CallNextDelivers ==
    ASSUME BusIInv, CallNext
    PROVE  /\ List[dispatch.at] \in Subscribers /\ dispatch.event \in Events
           /\ Delivery!Deliver(List[dispatch.at], dispatch.event)
           /\ \/ Members' = Members
              \/ \E t \in Subscribers : Members' \in {Members \cup {t}, Members \ {t}}
  <1> DEFINE at == dispatch.at
             e == dispatch.event
             s == List[at]
  <1>0. /\ dispatch.active /\ at \in DOMAIN List
        /\ received' = [received EXCEPT ![s] = Append(@, e)]
        /\ Reaction(s) /\ accepted' = accepted
        /\ BusTypes /\ OrderOK /\ NotYetHanded
    BY DEF CallNext, BusIInv
  <1>1. /\ dispatch \in Dispatches /\ e \in Events /\ dispatch.list \in Lists /\ at \in Nat \ {0}
        /\ ListOK(dispatch.list, List) /\ List \in Seq(Subscribers)
    BY <1>0, ActiveDispatch DEF ListOK
  <1>2. s \in Subscribers /\ Filter[s] = dispatch.list
    BY <1>0, <1>1, LenProperties DEF ListOK
  <1>3. s \in Members
    BY <1>0, <1>1 DEF Members, Range, List
  <1>4. Filter[s] \in {TypeOf[e], AnyType}
    BY <1>0, <1>2 DEF NotYetHanded
  <1>5. e \notin Range(received[s])
    <2>1. at >= at
      BY <1>1
    <2>2. QED
      BY <1>0, <2>1 DEF NotYetHanded
  <1>6. ASSUME NEW x \in Range(received[s]), e \in Range(accepted), x \in Range(accepted)
        PROVE  (CHOOSE i \in DOMAIN accepted : accepted[i] = x)
               < (CHOOSE i \in DOMAIN accepted : accepted[i] = e)
    <2>1. x # e /\ x \in Handed
      BY <1>2, <1>5 DEF Handed
    <2>2. Earlier(x, e)
      BY <1>0, <2>1 DEF OrderOK
    <2>3. (\E i \in DOMAIN accepted : accepted[i] = x) /\ (\E i \in DOMAIN accepted : accepted[i] = e)
      BY <1>6 DEF Range
    <2> HIDE DEF e
    <2>4. QED
      BY <2>2, <2>3 DEF Earlier
  <1>7. Delivery!InOrder(s, e)
    BY <1>6 DEF Delivery!InOrder, Delivery!Queued, Delivery!Place, Range, Delivery!Range
  <1>8. Delivery!Deliver(s, e)
    BY <1>0, <1>3, <1>4, <1>5, <1>7 DEF Delivery!Deliver, Range, Delivery!Range
  <1>9. Members' = Members \/ \E t \in Subscribers : Members' \in {Members \cup {t}, Members \ {t}}
    BY <1>0, <1>2, ReactionChanges
  <1>10. QED
    BY <1>1, <1>2, <1>8, <1>9

LEMMA DeliveryStep ==
    ASSUME BusIInv, [Next]_vars
    PROVE  [Delivery!Next]_<<accepted, received, Members>>
  <1>1. ASSUME UNCHANGED <<accepted, received, callbacks>>
        PROVE  UNCHANGED <<accepted, received, Members>>
    BY <1>1 DEF Members
  <1>2. CASE Start
    BY <1>1, <1>2 DEF Start, history
  <1>3. CASE Stop
    BY <1>1, <1>3 DEF Stop, history
  <1>4. CASE LoopTakes
    BY <1>1, <1>4 DEF LoopTakes, history
  <1>5. CASE LoopWaits
    BY <1>1, <1>5 DEF LoopWaits, history
  <1>6. CASE EndOfList
    BY <1>1, <1>6 DEF EndOfList, history
  <1>7. CASE CallNext
    <2>1. PICK s \in Subscribers, e \in Events :
             /\ Delivery!Deliver(s, e)
             /\ \/ Members' = Members
                \/ \E t \in Subscribers : Members' \in {Members \cup {t}, Members \ {t}}
      BY <1>7, CallNextDelivers
    <2>2. Delivery!Next
      BY <2>1 DEF Delivery!Next, Delivery!Join, Delivery!Leave
    <2>3. QED
      BY <2>2
  <1>8. ASSUME NEW e \in Events, Publish(e) PROVE Delivery!Next
    BY <1>8, PublishDelivers DEF Delivery!Next
  <1>9. ASSUME NEW e \in Events, PublishImmediate(e)
        PROVE  UNCHANGED <<accepted, received, Members>>
    BY <1>1, <1>9 DEF PublishImmediate
  <1>10. ASSUME NEW s \in Subscribers, Subscribe(s) PROVE Delivery!Next
    <2>1. Members' = Members \cup {s}
      BY <1>10, SubscribedLists DEF Subscribe, BusIInv, BusTypes
    <2>2. accepted' = accepted /\ received' = received
      BY <1>10 DEF Subscribe, history
    <2>3. QED
      BY <2>1, <2>2 DEF Delivery!Next, Delivery!Join
  <1>11. ASSUME NEW s \in Subscribers, Unsubscribe(s) PROVE Delivery!Next
    <2>1. Members' = Members \ {s}
      BY <1>11, UnsubscribedLists DEF Unsubscribe, BusIInv, BusTypes
    <2>2. accepted' = accepted /\ received' = received
      BY <1>11 DEF Unsubscribe, history
    <2>3. QED
      BY <2>1, <2>2 DEF Delivery!Next, Delivery!Leave
  <1>12. CASE UNCHANGED vars
    BY <1>1, <1>12 DEF vars, history
  <1>13. QED
    BY <1>2, <1>3, <1>4, <1>5, <1>6, <1>7, <1>8, <1>9, <1>10, <1>11, <1>12 DEF Next, LoopStep

\* The bus hands an event only to a subscriber that is registered and asked
\* for it, at most once, and queued events in the order of the queue: every
\* step of it is a step of EventDelivery or leaves what that speaks of alone.
THEOREM BusImplementsDelivery == Spec => DeliverySpec
  <1>1. Init => Delivery!Init
    BY DeliveryInitial
  <1>2. BusIInv /\ [Next]_vars => [Delivery!Next]_<<accepted, received, Members>>
    BY DeliveryStep
  <1>3. QED
    BY <1>1, <1>2, BusIInvHolds, PTL DEF Spec, DeliverySpec, Delivery!Spec
=============================================================================
