----------------------- MODULE SignalGenerationProofs -----------------------
(***************************************************************************)
(* Proofs about what leads to a signal: the StrategyEngine, its detectors  *)
(* and the EventEngine, for any values of the constants.                   *)
(***************************************************************************)
EXTENDS SignalGeneration, CollectionLemmas

-----------------------------------------------------------------------------
(***************************************************************************)
(* StrategyEngine.  The inductive invariant says of the history that it is *)
(* a sequence of different ids, from which its cardinality follows, and    *)
(* keeps the counter in step with the dictionary.                          *)
(***************************************************************************)
EngineIInv ==
    /\ EngineTypeOK
    /\ history \in Seq(SignalIds)
    /\ \A i, j \in DOMAIN history : history[i] = history[j] => i = j
    /\ \A i \in DOMAIN history : history[i] \in Stored
    /\ generated = Cardinality(Stored)
    /\ Len(history) = IF generated < MaxHistory THEN generated ELSE MaxHistory
    /\ ExecutedOnce

\* The stored signals are finitely many, however many ids there are to come.
LEMMA StoredFinite == IsFiniteSet(Stored) /\ Cardinality(Stored) \in Nat
  BY StrategyAssumption, FS_Subset, FS_CardinalityType DEF Stored

LEMMA EngineIInvImplies == EngineIInv => StrategyInvariant
  <1> SUFFICES ASSUME EngineIInv PROVE StrategyInvariant
    OBVIOUS
  <1> USE DEF EngineIInv
  <1>1. Cardinality(ToSet(history)) = Len(history)
    BY DistinctCardinality
  <1>2. ToSet(history) \subseteq Stored
    BY DEF ToSet
  <1>3. QED
    BY <1>1, <1>2 DEF StrategyInvariant, IndexAndHistoryAgree

LEMMA EngineInitial == EngineInit => EngineIInv
  <1> SUFFICES ASSUME EngineInit PROVE EngineIInv
    OBVIOUS
  <1> USE DEF EngineInit
  <1>1. Stored = {}
    BY DEF Stored
  <1>2. EngineTypeOK
    <2>1. ToSet(history) = {} /\ Len(history) = 0
      BY DEF ToSet
    <2>2. signals \in [SignalIds -> [status : SignalStatus \cup {"none"},
                                    entered : BOOLEAN, exited : BOOLEAN]]
      BY DEF NoSignal
    <2>3. /\ tasks \in [SignalIds -> Nat] /\ executed \in [SignalIds -> Nat]
          /\ generated \in Nat /\ blocked \in 0 .. MaxBlocked
      BY StrategyAssumption
    <2>4. engineRunning \in BOOLEAN
      OBVIOUS
    <2>5. QED
      BY <2>1, <2>2, <2>3, <2>4, StrategyAssumption DEF EngineTypeOK
  <1>3. QED
    BY <1>1, <1>2, FS_EmptySet, StrategyAssumption DEF EngineIInv, ExecutedOnce

\* What the history becomes: the new id at the end, the oldest gone when it is full.
LEMMA RememberKeeps ==
    ASSUME EngineIInv, NEW id \in SignalIds, id \notin Stored,
           NEW h, h = Remember(id)
    PROVE  /\ h \in Seq(SignalIds)
           /\ Len(h) = IF Len(history) >= MaxHistory THEN Len(history) ELSE Len(history) + 1
           /\ \A i, j \in DOMAIN h : h[i] = h[j] => i = j
           /\ \A i \in DOMAIN h : h[i] \in Stored \cup {id}
  <1> USE DEF EngineIInv
  <1>0. MaxHistory \in Nat \ {0} /\ Len(history) \in Nat
    BY StrategyAssumption
  <1>1. CASE Len(history) >= MaxHistory
    <2> DEFINE t == Tail(history)
    <2>1. /\ t \in Seq(SignalIds) /\ Len(t) = Len(history) - 1
          /\ \A i \in 1 .. Len(t) : t[i] = history[i + 1]
      BY <1>0, <1>1, HeadTailProperties
    <2>2. h = Append(t, id)
      BY <1>1 DEF Remember
    <2> HIDE DEF t
    <2>3. /\ h \in Seq(SignalIds) /\ Len(h) = Len(t) + 1
          /\ \A i \in 1 .. Len(t) : h[i] = t[i]
          /\ h[Len(t) + 1] = id
      BY <2>1, <2>2, AppendProperties
    <2>4. DOMAIN h = 1 .. Len(history) /\ DOMAIN history = 1 .. Len(history)
      BY <2>1, <2>3, <1>0
    <2>5. \A i \in DOMAIN h : IF i = Len(history) THEN h[i] = id ELSE h[i] = history[i + 1]
      BY <2>1, <2>3, <2>4, <1>0
    <2>6. Len(h) = Len(history)
      BY <2>1, <2>3, <1>0
    <2>7. \A i, j \in DOMAIN h : h[i] = h[j] => i = j
      <3> SUFFICES ASSUME NEW i \in DOMAIN h, NEW j \in DOMAIN h, h[i] = h[j] PROVE i = j
        OBVIOUS
      <3>1. \A k \in DOMAIN h : k # Len(history) => k + 1 \in DOMAIN history /\ h[k] # id
        BY <2>4, <2>5, <1>0
      <3>2. QED
        BY <3>1, <2>4, <2>5, <1>0
    <2>8. \A i \in DOMAIN h : h[i] \in Stored \cup {id}
      BY <2>4, <2>5, <1>0
    <2>9. QED
      BY <2>3, <2>6, <2>7, <2>8, <1>1
  <1>2. CASE ~ (Len(history) >= MaxHistory)
    <2>1. h = Append(history, id)
      BY <1>2 DEF Remember
    <2>2. /\ h \in Seq(SignalIds) /\ Len(h) = Len(history) + 1
          /\ \A i \in 1 .. Len(history) : h[i] = history[i]
          /\ h[Len(history) + 1] = id
      BY <2>1, AppendProperties
    <2>3. DOMAIN h = 1 .. (Len(history) + 1) /\ DOMAIN history = 1 .. Len(history)
      BY <2>2, <1>0
    <2>4. QED
      BY <2>2, <2>3, <1>0, <1>2
  <1>3. QED
    BY <1>1, <1>2

LEMMA EngineStep == EngineIInv /\ [EngineNext]_engineVars => EngineIInv'
  <1> SUFFICES ASSUME EngineIInv, [EngineNext]_engineVars PROVE EngineIInv'
    OBVIOUS
  <1>a. /\ EngineTypeOK /\ ExecutedOnce
        /\ IsFiniteSet(Stored) /\ Cardinality(Stored) \in Nat
    BY StoredFinite DEF EngineIInv
  <1>1. CASE EngineStart \/ EngineStop \/ UNCHANGED engineVars
    <2>1. UNCHANGED <<signals, history, generated, blocked, tasks, executed>>
          /\ engineRunning' \in BOOLEAN
      BY <1>1, <1>a DEF EngineStart, EngineStop, engineVars, EngineTypeOK
    <2>2. QED
      BY <2>1 DEF EngineIInv, EngineTypeOK, Stored, ExecutedOnce
  <1>2. ASSUME NEW id \in SignalIds, NEW c \in Confidences, DetectorSignals(id, c)
        PROVE  EngineIInv'
    <2>1. CASE /\ blocked < MaxBlocked /\ blocked' = blocked + 1
               /\ UNCHANGED <<signals, history, generated, tasks>>
      BY <2>1, <1>2, StrategyAssumption
         DEF DetectorSignals, EngineIInv, EngineTypeOK, Stored, ExecutedOnce
    <2>2. CASE /\ IsNew(id)
               /\ signals' = [signals EXCEPT ![id] = [NoSignal EXCEPT !.status = "active"]]
               /\ history' = Remember(id)
               /\ generated' = generated + 1
               /\ tasks' = [tasks EXCEPT ![id] = @ + 1]
               /\ UNCHANGED blocked
      <3> USE <2>2
      <3>1. id \notin Stored /\ UNCHANGED <<engineRunning, executed>>
        BY <1>2 DEF IsNew, DetectorSignals
      <3>2. Stored' = Stored \cup {id}
        BY <1>a DEF Stored, EngineTypeOK, NoSignal
      <3>3. Cardinality(Stored') = Cardinality(Stored) + 1
        BY <3>1, <3>2, <1>a, FS_AddElement
      <3>4. /\ history' \in Seq(SignalIds)
            /\ Len(history') = IF Len(history) >= MaxHistory THEN Len(history)
                               ELSE Len(history) + 1
            /\ \A i, j \in DOMAIN history' : history'[i] = history'[j] => i = j
            /\ \A i \in DOMAIN history' : history'[i] \in Stored'
        BY <3>1, <3>2, RememberKeeps
      <3>5. MaxHistory \in Nat \ {0} /\ Len(history) \in Nat
        BY StrategyAssumption DEF EngineIInv
      <3>6. /\ Len(history') = IF generated' < MaxHistory THEN generated' ELSE MaxHistory
            /\ Len(history') <= MaxHistory
        BY <3>4, <3>5, <1>a DEF EngineIInv
      <3>7. ToSet(history') \subseteq SignalIds
        BY <3>4 DEF ToSet
      <3>8. signals' \in [SignalIds -> [status : SignalStatus \cup {"none"},
                                        entered : BOOLEAN, exited : BOOLEAN]]
        BY <1>a DEF EngineTypeOK, NoSignal, SignalStatus
      <3>9. EngineTypeOK'
        BY <1>a, <3>1, <3>6, <3>7, <3>8 DEF EngineTypeOK
      <3>10. ExecutedOnce'
        BY <1>a, <3>1, <3>2 DEF ExecutedOnce, EngineTypeOK
      <3>11. generated' = Cardinality(Stored')
        BY <3>3 DEF EngineIInv
      <3>12. QED
        BY <3>4, <3>6, <3>9, <3>10, <3>11 DEF EngineIInv
    <2>3. QED
      BY <1>2, <2>1, <2>2 DEF DetectorSignals, ProcessSignal
  <1>3. ASSUME NEW id \in SignalIds, NEW s \in Statuses, UpdateSignalStatus(id, s)
        PROVE  EngineIInv'
    <2> USE <1>3 DEF UpdateSignalStatus
    <2>1. s \in SignalStatus /\ s # "none"
      BY StrategyAssumption DEF SignalStatus
    <2>2. signals' \in [SignalIds -> [status : SignalStatus \cup {"none"},
                                      entered : BOOLEAN, exited : BOOLEAN]]
      BY <1>a, <2>1 DEF EngineTypeOK, Updated
    <2>3. Stored' = Stored
      BY <1>a, <2>1 DEF EngineTypeOK, Updated, Stored, NoSignal
    <2>4. QED
      BY <1>a, <2>2, <2>3 DEF EngineIInv, EngineTypeOK, ExecutedOnce
  <1>4. ASSUME NEW id \in SignalIds, ExecuteSignalTask(id)
        PROVE  EngineIInv'
    <2> USE <1>4 DEF ExecuteSignalTask, TaskRuns
    <2>1. Stored' = Stored
      BY DEF Stored
    <2>2. /\ tasks' \in [SignalIds -> Nat] /\ executed' \in [SignalIds -> Nat]
          /\ ExecutedOnce'
      BY <1>a, <2>1 DEF EngineTypeOK, ExecutedOnce
    <2>3. QED
      BY <1>a, <2>1, <2>2 DEF EngineIInv, EngineTypeOK
  <1>5. QED
    BY <1>1, <1>2, <1>3, <1>4 DEF EngineNext

(***************************************************************************)
(* Whatever detectors, clients and the event loop do, the dictionary, the  *)
(* bounded history and the counter tell of the same signals, and each goes *)
(* to the execution engine exactly once (strategy/engine.py).              *)
(***************************************************************************)
THEOREM StrategySafe == EngineSpec => []StrategyInvariant
  <1>1. EngineSpec => []EngineIInv
    BY EngineInitial, EngineStep, PTL DEF EngineSpec
  <1>2. QED
    BY <1>1, EngineIInvImplies, PTL

-----------------------------------------------------------------------------
(***************************************************************************)
(* LiquiditySweeps.  What is said of a waiting sweep needs that its level  *)
(* is a real one, of positive price: only then does a new extreme that     *)
(* takes the level's place lie beyond it.                                  *)
(***************************************************************************)
LevelSet == [price : Nat, sweptAt : Times \cup {-1}]

SweepSet == [side : Sides, price : Nat, sweptAt : Times]

SweepTypes ==
    /\ bars \in [SweepSymbols -> Seq(BarRanges)]
    /\ \A s \in SweepSymbols : Len(bars[s]) <= Lookback
    /\ levels \in [SweepSymbols -> [Sides -> LevelSet]]
    /\ active \in [SweepSymbols -> SweepSet \cup {NoSweep}]
    /\ lastTick \in [SweepSymbols -> Times]
    /\ now \in Times

\* What is known of the sweep a symbol waits on.
SweepIsGood(s) ==
    /\ lastTick[s] <= now
    /\ \A side \in Sides : levels[s][side] = NoLevel \/ levels[s][side].price > 0
    /\ active[s] # NoSweep =>
          /\ levels[s][active[s].side] # NoLevel
          /\ \/ levels[s][active[s].side] = [price |-> active[s].price,
                                             sweptAt |-> active[s].sweptAt]
             \/ Beyond(active[s].side, levels[s][active[s].side].price, active[s].price)
          /\ lastTick[s] - active[s].sweptAt \in 0 .. ReclaimTimeout

SweepIInv == SweepTypes /\ \A s \in SweepSymbols : SweepIsGood(s)

LEMMA SweepNumbers ==
    /\ Lookback \in Nat /\ Lookback > 0 /\ MinBars \in Nat /\ MinBars > 0
    /\ BarLength \in Nat /\ MaxSweepTime \in Nat /\ ReclaimTimeout \in Nat
    /\ Times \subseteq Nat
    /\ \A r \in BarRanges : r[1] \in Nat /\ r[2] \in Nat /\ r[1] > 0 /\ r[2] > 0
  BY SweepAssumption DEF Times

\* What NoSweep is not.
LEMMA SweepOrNone ==
    ASSUME NEW x \in SweepSet \cup {NoSweep}, x # NoSweep
    PROVE  x \in SweepSet
  OBVIOUS

LEMMA SweepsInitial == SweepsInit => SweepIInv
  <1> SUFFICES ASSUME SweepsInit PROVE SweepIInv
    OBVIOUS
  <1> USE DEF SweepsInit
  <1>1. <<>> \in Seq(BarRanges) /\ Len(<<>>) = 0
    BY EmptySeq
  <1>2. 0 \in Times /\ NoLevel \in LevelSet
    BY SweepNumbers DEF Times, LevelSet, NoLevel
  <1>3. SweepTypes
    BY <1>1, <1>2, SweepNumbers DEF SweepTypes
  <1>4. \A s \in SweepSymbols : SweepIsGood(s)
    BY DEF SweepIsGood
  <1>5. QED
    BY <1>3, <1>4 DEF SweepIInv

\* The window of a bar: the last of the bars, never more than were asked for.
LEMMA LastOfKeeps ==
    ASSUME NEW S, NEW w \in Seq(S), NEW n \in Nat, n > 0, w # <<>>
    PROVE  /\ LastOf(w, n) \in Seq(S)
           /\ LastOf(w, n) # <<>>
           /\ Len(LastOf(w, n)) <= n
  <1>0. Len(w) \in Nat /\ Len(w) > 0 /\ \A i \in 1 .. Len(w) : w[i] \in S
    BY EmptySeq, LenProperties
  <1>1. CASE Len(w) > n
    <2> DEFINE a == Len(w) - n + 1
    <2>1. a \in Int /\ a \in 1 .. Len(w) /\ Len(w) - a + 1 = n
      BY <1>0, <1>1
    <2> HIDE DEF a
    <2>2. /\ SubSeq(w, a, Len(w)) \in Seq(S)
          /\ Len(SubSeq(w, a, Len(w))) = n
      BY <1>0, <2>1, SubSeqProperties
    <2>3. LastOf(w, n) = SubSeq(w, a, Len(w))
      BY <1>1 DEF LastOf, a
    <2>4. QED
      BY <2>2, <2>3, EmptySeq
  <1>2. CASE ~ (Len(w) > n)
    BY <1>0, <1>2 DEF LastOf
  <1>3. QED
    BY <1>1, <1>2

\* The extreme of a window is one of its prices.
LEMMA ExtremeIsAPrice ==
    ASSUME NEW w \in Seq(BarRanges), w # <<>>, NEW side \in Sides
    PROVE  Extreme(side, w) \in Nat /\ Extreme(side, w) > 0
  <1>1. /\ Len(w) \in Nat /\ Len(w) > 0 /\ DOMAIN w = 1 .. Len(w)
        /\ \A i \in DOMAIN w : w[i] \in BarRanges
    BY EmptySeq, LenProperties
  <1>2. IsFiniteSet({w[i] : i \in DOMAIN w})
    BY RangeFinite
  <1> DEFINE R == {w[i] : i \in DOMAIN w}
  <1>3. /\ [r \in R |-> r[1]] \in Surjection(R, Lows(w))
        /\ [r \in R |-> r[2]] \in Surjection(R, Highs(w))
    BY DEF Surjection, Lows, Highs
  <1>4. IsFiniteSet(Lows(w)) /\ IsFiniteSet(Highs(w))
    BY <1>2, <1>3, FS_Surjection
  <1>5. /\ \A x \in Lows(w) \cup Highs(w) : x \in Nat /\ x > 0
        /\ Lows(w) # {} /\ Highs(w) # {}
    BY <1>1, SweepNumbers DEF Lows, Highs
  <1>6. Max(Highs(w)) \in Highs(w) /\ Min(Lows(w)) \in Lows(w)
    BY <1>4, <1>5, MaxIsMax, MinIsMin
  <1>7. QED
    BY <1>5, <1>6 DEF Extreme

\* A bar leaves each level or puts a real one, further out, in its place.
LEMMA LevelsUpdated ==
    ASSUME NEW old \in [Sides -> LevelSet], NEW w \in Seq(BarRanges), w # <<>>,
           NEW side \in Sides
    PROVE  LET new == UpdatedLevels(old, w)[side]
           IN  /\ new \in LevelSet
               /\ \/ new = old[side]
                  \/ /\ new.price > 0
                     /\ old[side] = NoLevel \/ Beyond(side, new.price, old[side].price)
  <1> DEFINE e == Extreme(side, w)
  <1>1. e \in Nat /\ e > 0
    BY ExtremeIsAPrice
  <1> HIDE DEF e
  <1>2. NewLevel(e) \in LevelSet /\ NewLevel(e).price = e
    BY <1>1 DEF NewLevel, LevelSet
  <1>3. UpdatedLevels(old, w)[side] \in {old[side], NewLevel(e)}
        /\ (UpdatedLevels(old, w)[side] = old[side] \/ Replaces(side, old[side], e))
    BY DEF UpdatedLevels, e
  <1>4. QED
    BY <1>1, <1>2, <1>3 DEF Replaces

LEMMA OnBarStep ==
    ASSUME SweepIInv, NEW s \in SweepSymbols, NEW r \in BarRanges, OnBar(s, r)
    PROVE  SweepIInv'
  <1> USE DEF SweepIInv
  <1> DEFINE w == LastOf(Append(bars[s], r), Lookback)
  <1>1. Append(bars[s], r) \in Seq(BarRanges) /\ Append(bars[s], r) # <<>>
    BY AppendProperties DEF SweepTypes
  <1>2. w \in Seq(BarRanges) /\ w # <<>> /\ Len(w) <= Lookback
    BY <1>1, LastOfKeeps, SweepNumbers
  <1>3. /\ bars' = [bars EXCEPT ![s] = w]
        /\ levels' = [levels EXCEPT ![s] = UpdatedLevels(@, w)]
        /\ \A x \in SweepSymbols : active'[x] \in {active[x], NoSweep}
        /\ active' \in [SweepSymbols -> SweepSet \cup {NoSweep}]
        /\ UNCHANGED <<lastTick, now>>
    BY DEF OnBar, SweepTypes
  <1> HIDE DEF w
  <1>4. \A side \in Sides :
          LET new == UpdatedLevels(levels[s], w)[side]  old == levels[s][side]
          IN  /\ new \in LevelSet
              /\ \/ new = old
                 \/ /\ new.price > 0
                    /\ old = NoLevel \/ Beyond(side, new.price, old.price)
    BY <1>2, LevelsUpdated DEF SweepTypes
  <1>5. UpdatedLevels(levels[s], w) \in [Sides -> LevelSet]
    <2>1. \E f : UpdatedLevels(levels[s], w) = [side \in Sides |-> f[side]]
      <3>1. CASE Len(w) < MinBars
        BY <3>1 DEF UpdatedLevels, SweepTypes
      <3>2. CASE ~ (Len(w) < MinBars)
        <4> DEFINE f == UpdatedLevels(levels[s], w)
        <4>1. f = [side \in Sides |-> f[side]]
          BY <3>2 DEF UpdatedLevels
        <4>2. QED
          BY <4>1
      <3>3. QED
        BY <3>1, <3>2
    <2>2. QED
      BY <1>4, <2>1
  <1>6. SweepTypes'
    BY <1>2, <1>3, <1>5 DEF SweepTypes
  <1>7. ASSUME NEW x \in SweepSymbols PROVE SweepIsGood(x)'
    <2>1. SweepIsGood(x) /\ active'[x] \in {active[x], NoSweep}
          /\ lastTick'[x] = lastTick[x] /\ now' = now
          /\ (active[x] # NoSweep => active[x] \in SweepSet)
      BY <1>3 DEF SweepTypes
    <2>2. CASE x # s
      <3>1. levels'[x] = levels[x]
        BY <1>3, <2>2 DEF SweepTypes
      <3>2. QED
        BY <2>1, <3>1 DEF SweepIsGood
    <2>3. CASE x = s
      <3>1. levels'[x] = UpdatedLevels(levels[s], w)
        BY <1>3, <2>3 DEF SweepTypes
      <3>2. \A side \in Sides :
              /\ levels[x][side] \in LevelSet /\ levels'[x][side] \in LevelSet
              /\ \/ levels'[x][side] = levels[x][side]
                 \/ /\ levels'[x][side].price > 0
                    /\ \/ levels[x][side] = NoLevel
                       \/ Beyond(side, levels'[x][side].price, levels[x][side].price)
        BY <1>4, <2>3, <3>1 DEF SweepTypes
      <3>3. \A side \in Sides : levels'[x][side] = NoLevel \/ levels'[x][side].price > 0
        BY <2>1, <3>2 DEF SweepIsGood
      <3>4. ASSUME active'[x] # NoSweep
            PROVE  /\ levels'[x][active[x].side] # NoLevel
                   /\ \/ levels'[x][active[x].side] = [price |-> active[x].price,
                                                       sweptAt |-> active[x].sweptAt]
                      \/ Beyond(active[x].side, levels'[x][active[x].side].price,
                                active[x].price)
        <4>1. active[x] # NoSweep /\ active[x] \in SweepSet
          BY <2>1, <3>4
        <4> DEFINE d == active[x].side
                   old == levels[x][d]
                   new == levels'[x][d]
        <4>2. /\ d \in Sides /\ active[x].price \in Nat /\ active[x].sweptAt \in Times
              /\ old \in LevelSet /\ new \in LevelSet
          BY <4>1, <3>2 DEF SweepSet
        <4>3. /\ old # NoLevel
              /\ \/ old = [price |-> active[x].price, sweptAt |-> active[x].sweptAt]
                 \/ Beyond(d, old.price, active[x].price)
          BY <4>1, <2>1 DEF SweepIsGood
        <4>4. new = old \/ (new.price > 0 /\ Beyond(d, new.price, old.price))
          BY <4>2, <4>3, <3>2
        <4>5. old.price \in Nat /\ new.price \in Nat
          BY <4>2 DEF LevelSet
        <4> HIDE DEF d, old, new
        <4>6. new # NoLevel
          BY <4>3, <4>4, <4>5 DEF NoLevel
        <4>7. \/ new = [price |-> active[x].price, sweptAt |-> active[x].sweptAt]
              \/ Beyond(d, new.price, active[x].price)
          BY <4>2, <4>3, <4>4, <4>5 DEF Beyond
        <4>8. QED
          BY <4>6, <4>7 DEF d, new
      <3>5. QED
        BY <2>1, <3>3, <3>4 DEF SweepIsGood
    <2>4. QED
      BY <2>2, <2>3
  <1>8. QED
    BY <1>6, <1>7

\* A level the tick sweeps is marked with the time; the others stay as they are.
Marked(s, swept) ==
    [side \in Sides |-> IF side \in swept THEN [levels[s][side] EXCEPT !.sweptAt = now]
                        ELSE levels[s][side]]

\* What a tick leaves of its symbol's sweep: the old one, a new one, or none.
LEMMA OnTickDoes ==
    ASSUME SweepIInv, NEW s \in SweepSymbols, NEW p \in SweepPrices, OnTick(s, p)
    PROVE  /\ \E swept \in SUBSET Sides :
                /\ \A side \in swept : levels[s][side] # NoLevel
                /\ levels' = [levels EXCEPT ![s] = Marked(s, swept)]
                /\ \/ active'[s] = NoSweep
                   \/ /\ swept = {} /\ active'[s] = active[s]
                      /\ ~ TimedOut(active[s], now)
                   \/ \E side \in swept :
                        active'[s] = [side |-> side, price |-> levels[s][side].price,
                                      sweptAt |-> now]
           /\ active' = [active EXCEPT ![s] = active'[s]]
           /\ lastTick' = [lastTick EXCEPT ![s] = now]
           /\ UNCHANGED <<bars, now>>
  <1> USE DEF SweepIInv, SweepTypes
  <1> DEFINE swept == {side \in Sides : Sweeps(side, levels[s][side], p)}
             new == IF "low" \in swept THEN "low" ELSE "high"
             sweep == IF swept = {} THEN active[s]
                      ELSE [side |-> new, price |-> levels[s][new].price, sweptAt |-> now]
             over == sweep # NoSweep /\ (TimedOut(sweep, now) \/ Reclaims(sweep, p))
  <1>1. swept \in SUBSET Sides /\ \A side \in swept : levels[s][side] # NoLevel
    BY DEF Sweeps
  <1>2. swept # {} => new \in swept
    BY DEF Sides
  <1>3. /\ levels' = [levels EXCEPT ![s] =
                        [side \in Sides |-> IF side \in swept
                                            THEN [@[side] EXCEPT !.sweptAt = now]
                                            ELSE @[side]]]
        /\ active' = [active EXCEPT ![s] = IF over THEN NoSweep ELSE sweep]
        /\ lastTick' = [lastTick EXCEPT ![s] = now]
        /\ UNCHANGED <<bars, now>>
    BY DEF OnTick
  <1> HIDE DEF swept, new
  <1>4. levels' = [levels EXCEPT ![s] = Marked(s, swept)]
    BY <1>3 DEF Marked
  <1>5. active'[s] = IF over THEN NoSweep ELSE sweep
    BY <1>3
  <1>6. \/ active'[s] = NoSweep
        \/ swept = {} /\ active'[s] = active[s] /\ ~ TimedOut(active[s], now)
        \/ \E side \in swept : active'[s] = [side |-> side, price |-> levels[s][side].price,
                                             sweptAt |-> now]
    <2>1. CASE over
      BY <1>5, <2>1
    <2>2. CASE ~ over /\ swept = {}
      BY <1>5, <2>2 DEF TimedOut
    <2>3. CASE ~ over /\ swept # {}
      BY <1>2, <1>5, <2>3
    <2>4. QED
      BY <2>1, <2>2, <2>3
  <1>7. active' = [active EXCEPT ![s] = active'[s]]
    BY <1>3, <1>5
  <1>8. QED
    BY <1>1, <1>3, <1>4, <1>6, <1>7

LEMMA OnTickStep ==
    ASSUME SweepIInv, NEW s \in SweepSymbols, NEW p \in SweepPrices, OnTick(s, p)
    PROVE  SweepIInv'
  <1>1. PICK swept \in SUBSET Sides :
          /\ \A side \in swept : levels[s][side] # NoLevel
          /\ levels' = [levels EXCEPT ![s] = Marked(s, swept)]
          /\ \/ active'[s] = NoSweep
             \/ swept = {} /\ active'[s] = active[s] /\ ~ TimedOut(active[s], now)
             \/ \E side \in swept :
                  active'[s] = [side |-> side, price |-> levels[s][side].price,
                                sweptAt |-> now]
    BY OnTickDoes
  <1>2. /\ active' = [active EXCEPT ![s] = active'[s]]
        /\ lastTick' = [lastTick EXCEPT ![s] = now]
        /\ UNCHANGED <<bars, now>>
    BY OnTickDoes
  <1>3. /\ now \in Times /\ levels[s] \in [Sides -> LevelSet] /\ SweepTypes
        /\ \A x \in SweepSymbols : SweepIsGood(x)
    BY DEF SweepIInv, SweepTypes
  <1>4. \A side \in Sides :
          /\ Marked(s, swept)[side] \in LevelSet
          /\ Marked(s, swept)[side].price = levels[s][side].price
          /\ side \in swept => Marked(s, swept)[side] =
                                  [price |-> levels[s][side].price, sweptAt |-> now]
          /\ side \notin swept => Marked(s, swept)[side] = levels[s][side]
    BY <1>3 DEF Marked, LevelSet
  <1>5. active'[s] \in SweepSet \cup {NoSweep}
    <2>1. active[s] \in SweepSet \cup {NoSweep}
      BY <1>3 DEF SweepTypes
    <2>2. ASSUME NEW side \in swept
          PROVE  [side |-> side, price |-> levels[s][side].price, sweptAt |-> now] \in SweepSet
      <3>1. side \in Sides /\ levels[s][side].price \in Nat
        BY <1>3 DEF LevelSet
      <3>2. QED
        BY <1>3, <3>1 DEF SweepSet
    <2>3. QED
      BY <1>1, <2>1, <2>2
  <1>6. levels'[s] = Marked(s, swept) /\ Marked(s, swept) \in [Sides -> LevelSet]
    BY <1>1, <1>3, <1>4 DEF Marked, SweepTypes
  <1>7. SweepTypes'
    BY <1>1, <1>2, <1>3, <1>5, <1>6 DEF SweepTypes
  <1>8. ASSUME NEW x \in SweepSymbols PROVE SweepIsGood(x)'
    <2>1. CASE x # s
      <3>1. active'[x] = active[x] /\ levels'[x] = levels[x] /\ lastTick'[x] = lastTick[x]
            /\ now' = now
        BY <1>1, <1>2, <1>3, <2>1 DEF SweepTypes
      <3>2. SweepIsGood(x)
        BY <1>3
      <3>3. QED
        BY <3>1, <3>2 DEF SweepIsGood
    <2>2. CASE x = s
      <3>1. lastTick'[s] = now /\ now' = now /\ now \in Nat /\ now >= 0
        BY <1>2, <1>3, SweepNumbers DEF SweepTypes
      <3>2. \A side \in Sides : levels'[s][side] = NoLevel \/ levels'[s][side].price > 0
        BY <1>1, <1>3, <1>4, <1>6 DEF SweepIsGood
      <3>3. CASE active'[s] = NoSweep
        BY <3>1, <3>2, <3>3, <2>2 DEF SweepIsGood
      <3>4. CASE swept = {} /\ active'[s] = active[s] /\ ~ TimedOut(active[s], now)
                 /\ active'[s] # NoSweep
        <4>1. active[s] \in SweepSet /\ active[s].side \in Sides
          BY <3>4, <1>3 DEF SweepTypes, SweepSet
        <4>2. levels'[s][active[s].side] = levels[s][active[s].side]
          BY <4>1, <3>4, <1>4, <1>6
        <4>3. now - active[s].sweptAt \in 0 .. ReclaimTimeout
          <5>0. active[s].sweptAt \in Nat /\ lastTick[s] \in Nat
            BY <4>1, <1>3, SweepNumbers DEF SweepSet, SweepTypes
          <5>1. lastTick[s] <= now /\ lastTick[s] - active[s].sweptAt \in 0 .. ReclaimTimeout
            <6>1. SweepIsGood(s) /\ active[s] # NoSweep
              BY <1>3, <3>4
            <6>2. QED
              BY <6>1 DEF SweepIsGood
          <5>2. now - active[s].sweptAt <= ReclaimTimeout
            BY <3>4, <5>0, <3>1, SweepNumbers DEF TimedOut
          <5>3. QED
            BY <5>0, <5>1, <5>2, <3>1, SweepNumbers
        <4>4. QED
          BY <3>1, <3>2, <3>4, <4>1, <4>2, <4>3, <1>3, <2>2 DEF SweepIsGood
      <3>5. CASE \E side \in swept :
                   active'[s] = [side |-> side, price |-> levels[s][side].price,
                                 sweptAt |-> now]
        <4>1. PICK side \in swept :
                 active'[s] = [side |-> side, price |-> levels[s][side].price,
                               sweptAt |-> now]
          BY <3>5
        <4>2. /\ active'[s].side = side /\ active'[s].price = levels[s][side].price
              /\ active'[s].sweptAt = now /\ side \in Sides
          BY <4>1, <1>1
        <4>3. levels'[s][side] = [price |-> levels[s][side].price, sweptAt |-> now]
          BY <4>2, <1>4, <1>6
        <4>4. levels'[s][side] # NoLevel
          BY <4>3, <3>1 DEF NoLevel
        <4>5. lastTick'[s] - active'[s].sweptAt \in 0 .. ReclaimTimeout
          BY <4>2, <3>1, SweepNumbers
        <4>6. QED
          BY <3>1, <3>2, <4>2, <4>3, <4>4, <4>5, <2>2 DEF SweepIsGood
      <3>6. QED
        BY <1>1, <3>3, <3>4, <3>5
    <2>3. QED
      BY <2>1, <2>2
  <1>9. QED
    BY <1>7, <1>8 DEF SweepIInv

LEMMA SweepsStep == SweepIInv /\ [SweepsNext]_sweepVars => SweepIInv'
  <1> SUFFICES ASSUME SweepIInv, [SweepsNext]_sweepVars PROVE SweepIInv'
    OBVIOUS
  <1>1. CASE Elapse \/ UNCHANGED sweepVars
    <2>1. UNCHANGED <<bars, levels, active, lastTick>> /\ now' \in {now, now + 1}
          /\ now' \in Times
      BY <1>1, SweepNumbers DEF Elapse, sweepVars, SweepIInv, SweepTypes, Times
    <2>2. \A s \in SweepSymbols : lastTick[s] \in Nat /\ now \in Nat
      BY SweepNumbers DEF SweepIInv, SweepTypes
    <2>3. SweepTypes'
      BY <2>1 DEF SweepIInv, SweepTypes
    <2>4. ASSUME NEW s \in SweepSymbols PROVE SweepIsGood(s)'
      <3>1. SweepIsGood(s) /\ lastTick[s] <= now'
        BY <2>1, <2>2 DEF SweepIInv, SweepIsGood
      <3>2. QED
        BY <3>1, <2>1 DEF SweepIsGood
    <2>5. QED
      BY <2>3, <2>4 DEF SweepIInv
  <1>2. QED
    BY <1>1, OnBarStep, OnTickStep DEF SweepsNext

LEMMA SweepIInvImplies == SweepIInv => SweepInvariant
  <1> SUFFICES ASSUME SweepIInv PROVE SweepInvariant
    OBVIOUS
  <1>1. SweepTypes /\ \A s \in SweepSymbols : SweepIsGood(s)
    BY DEF SweepIInv
  <1>2. bars \in [SweepSymbols -> BoundedSeq(BarRanges, Lookback)]
    <2>1. ASSUME NEW s \in SweepSymbols PROVE bars[s] \in BoundedSeq(BarRanges, Lookback)
      <3>1. bars[s] \in [1 .. Len(bars[s]) -> BarRanges] /\ Len(bars[s]) \in 0 .. Lookback
        BY <1>1, LenProperties, SweepNumbers DEF SweepTypes
      <3>2. QED
        BY <3>1 DEF BoundedSeq, SeqOf
    <2>2. QED
      BY <1>1, <2>1 DEF SweepTypes
  <1>3. SweepsTypeOK
    BY <1>1, <1>2 DEF SweepsTypeOK, SweepTypes, LevelSet, SweepSet
  <1>4. ActiveSweepIsOfALevel /\ SweepsWaitNoLongerThanTimeout
    BY <1>1 DEF ActiveSweepIsOfALevel, SweepsWaitNoLongerThanTimeout, SweepIsGood
  <1>5. QED
    BY <1>3, <1>4 DEF SweepInvariant

(***************************************************************************)
(* For any bars and ticks of any symbols: a symbol waits only on a sweep   *)
(* of a level it knows, or of one that a new extreme has replaced, and     *)
(* never longer than the timeout (strategy/detectors/liquidity_sweep.py).  *)
(***************************************************************************)
THEOREM SweepsSafe == SweepsSpec => []SweepInvariant
  <1>1. SweepsSpec => []SweepIInv
    BY SweepsInitial, SweepsStep, PTL DEF SweepsSpec
  <1>2. QED
    BY <1>1, SweepIInvImplies, PTL

-----------------------------------------------------------------------------
(***************************************************************************)
(* CorrelationMoves.  The loop may return before it has marked the moves   *)
(* that are too old: that none is left behind it follows from the order of *)
(* the moves, which the inductive invariant adds.                          *)
(***************************************************************************)
MovesIInv ==
    /\ prices \in [Markets \cup {Wti} -> 0 .. MinHistory]
    /\ moves \in Seq(Move) /\ Len(moves) <= MaxMoves
    /\ time \in 0 .. MaxMoveTime
    /\ wtiTime \in -1 .. MaxMoveTime /\ wtiTime <= time
    /\ Len(signalled) <= 1
    /\ \A i, j \in DOMAIN moves : i < j => moves[i].at <= moves[j].at
    /\ \A i \in DOMAIN moves : moves[i].at <= time
    /\ PendingMovesAreInTime
    /\ SignalFollowsItsMove

LEMMA MoveNumbers ==
    /\ MinHistory \in Nat /\ MinHistory > 0 /\ MaxMoves \in Nat /\ MaxMoves > 0
    /\ MaxMoveTime \in Nat /\ MaxLag \in Nat /\ Wti \notin Markets
    /\ \A m \in Move : m.at \in Nat
  BY CorrelationAssumption DEF Move

LEMMA MovesInitial == MovesInit => MovesIInv
  <1> SUFFICES ASSUME MovesInit PROVE MovesIInv
    OBVIOUS
  <1> USE DEF MovesInit
  <1>1. moves \in Seq(Move) /\ Len(moves) = 0 /\ DOMAIN moves = {}
    BY EmptySeq
  <1>2. Len(signalled) = 0 /\ DOMAIN signalled = {}
    OBVIOUS
  <1>3. PendingMovesAreInTime /\ SignalFollowsItsMove
    BY <1>1, <1>2 DEF PendingMovesAreInTime, SignalFollowsItsMove
  <1>4. QED
    BY <1>1, <1>2, <1>3, MoveNumbers DEF MovesIInv

LEMMA WithPriceKeeps ==
    ASSUME MovesIInv, NEW s \in Markets \cup {Wti}, prices' = WithPrice(s)
    PROVE  prices' \in [Markets \cup {Wti} -> 0 .. MinHistory]
  BY MoveNumbers DEF MovesIInv, WithPrice

\* The oldest move gives way to the new one when there are too many.
LEMMA KeptMoves ==
    ASSUME NEW s \in Seq(Move), Len(s) <= MaxMoves, NEW m \in Move,
           \A i, j \in DOMAIN s : i < j => s[i].at <= s[j].at,
           \A i \in DOMAIN s : s[i].at <= m.at
    PROVE  LET k == KeepMoves(Append(s, m))
           IN  /\ k \in Seq(Move) /\ Len(k) <= MaxMoves
               /\ \A i, j \in DOMAIN k : i < j => k[i].at <= k[j].at
               /\ \A i \in DOMAIN k : k[i] = m \/ \E j \in DOMAIN s : k[i] = s[j]
  <1> DEFINE a == Append(s, m)
  <1>0. Len(s) \in Nat /\ DOMAIN s = 1 .. Len(s) /\ \A i \in DOMAIN s : s[i].at \in Nat
    BY LenProperties, MoveNumbers
  <1>1. /\ a \in Seq(Move) /\ a # <<>> /\ Len(a) = Len(s) + 1 /\ DOMAIN a = 1 .. Len(a)
        /\ \A i \in 1 .. Len(s) : a[i] = s[i]
        /\ a[Len(s) + 1] = m
    BY AppendProperties, LenProperties
  <1> HIDE DEF a
  <1>2. /\ \A i, j \in DOMAIN a : i < j => a[i].at <= a[j].at
        /\ \A i \in DOMAIN a : a[i] = m \/ \E j \in DOMAIN s : a[i] = s[j]
    BY <1>0, <1>1
  <1>3. CASE Len(a) > MaxMoves
    <2>1. /\ Tail(a) \in Seq(Move) /\ Len(Tail(a)) = Len(a) - 1
          /\ DOMAIN Tail(a) = 1 .. Len(Tail(a))
          /\ \A i \in 1 .. Len(Tail(a)) : Tail(a)[i] = a[i + 1]
      BY <1>1, HeadTailProperties, LenProperties
    <2>2. \A i \in DOMAIN Tail(a) : i + 1 \in DOMAIN a /\ Tail(a)[i] = a[i + 1]
      BY <2>1, <1>0, <1>1
    <2>3. Len(Tail(a)) <= MaxMoves
      BY <2>1, <1>0, <1>1, MoveNumbers
    <2>4. \A i, j \in DOMAIN Tail(a) : i < j => Tail(a)[i].at <= Tail(a)[j].at
      BY <2>1, <2>2, <1>0, <1>1, <1>2
    <2>5. \A i \in DOMAIN Tail(a) : Tail(a)[i] = m \/ \E j \in DOMAIN s : Tail(a)[i] = s[j]
      BY <2>2, <1>2
    <2>6. KeepMoves(a) = Tail(a)
      BY <1>3 DEF KeepMoves
    <2>7. QED
      BY <2>1, <2>3, <2>4, <2>5, <2>6 DEF a
  <1>4. CASE ~ (Len(a) > MaxMoves)
    <2>1. KeepMoves(a) = a /\ Len(a) <= MaxMoves
      BY <1>0, <1>1, <1>4, MoveNumbers DEF KeepMoves
    <2>2. QED
      BY <2>1, <1>1, <1>2 DEF a
  <1>5. QED
    BY <1>3, <1>4

LEMMA MarketTickStep ==
    ASSUME MovesIInv, NEW market \in Markets, NEW change \in Signs,
           MarketTick(market, change)
    PROVE  MovesIInv'
  <1> USE DEF MovesIInv
  <1>1. /\ prices' \in [Markets \cup {Wti} -> 0 .. MinHistory]
        /\ UNCHANGED <<time, wtiTime, signalled>>
    BY WithPriceKeeps DEF MarketTick
  <1>2. SignalFollowsItsMove'
    BY <1>1 DEF SignalFollowsItsMove, Expected
  <1>3. CASE moves' = moves
    BY <1>1, <1>2, <1>3 DEF PendingMovesAreInTime
  <1>4. CASE moves' # moves
    <2> DEFINE m == [market |-> market, sign |-> change, at |-> time, checked |-> FALSE]
    <2>1. m \in Move /\ m.at = time /\ moves' = KeepMoves(Append(moves, m))
      BY <1>4 DEF MarketTick, Move, Signs
    <2> HIDE DEF m
    <2>2. /\ moves' \in Seq(Move) /\ Len(moves') <= MaxMoves
          /\ \A i, j \in DOMAIN moves' : i < j => moves'[i].at <= moves'[j].at
          /\ \A i \in DOMAIN moves' : moves'[i] = m \/ \E j \in DOMAIN moves : moves'[i] = moves[j]
      BY <2>1, KeptMoves
    <2>3. \A i \in DOMAIN moves' : moves'[i].at <= time
      BY <2>1, <2>2
    <2>4. wtiTime - m.at <= MaxLag
      BY <2>1, MoveNumbers
    <2>5. PendingMovesAreInTime'
      BY <2>2, <2>4, <1>1 DEF PendingMovesAreInTime
    <2>6. QED
      BY <1>1, <1>2, <2>2, <2>3, <2>5
  <1>5. QED
    BY <1>3, <1>4

LEMMA WtiTickStep ==
    ASSUME MovesIInv, NEW response \in Signs, NEW correlated \in SUBSET Markets,
           WtiTick(response, correlated)
    PROVE  MovesIInv'
  <1> DEFINE hits == {i \in DOMAIN moves : Signals(moves[i], response, correlated)}
             end == IF hits = {} THEN Len(moves) + 1 ELSE Min(hits)
  <1>0. /\ moves \in Seq(Move) /\ Len(moves) \in Nat /\ DOMAIN moves = 1 .. Len(moves)
        /\ \A i \in DOMAIN moves : moves[i] \in Move /\ moves[i].at \in Nat
        /\ time \in Nat /\ time <= MaxMoveTime
    BY LenProperties, MoveNumbers DEF MovesIInv
  <1>1. prices' \in [Markets \cup {Wti} -> 0 .. MinHistory] /\ time' = time
    BY WithPriceKeeps DEF WtiTick
  <1>2. CASE UNCHANGED <<moves, wtiTime, signalled>>
    BY <1>1, <1>2 DEF MovesIInv, PendingMovesAreInTime, SignalFollowsItsMove, Expected
  <1>3. CASE ~ UNCHANGED <<moves, wtiTime, signalled>>
    <2>1. /\ moves' = [i \in DOMAIN moves |->
                          [moves[i] EXCEPT !.checked =
                              CASE i < end -> Checked(moves[i], response)
                                [] i = end -> TRUE
                                [] OTHER   -> @]]
          /\ wtiTime' = time
          /\ signalled' = IF hits = {} THEN <<>>
                          ELSE <<[move |-> moves[end], sign |-> response]>>
      BY <1>3 DEF WtiTick
    <2>2. hits # {} => end \in hits
      <3>1. hits \in SUBSET Int /\ IsFiniteSet(hits)
        <4>1. IsFiniteSet(1 .. Len(moves)) /\ hits \in SUBSET (1 .. Len(moves))
          BY <1>0, FS_Interval
        <4> HIDE DEF hits
        <4>2. hits \in SUBSET Int
          BY <4>1
        <4>3. QED
          BY <4>1, <4>2, FS_Subset
      <3> HIDE DEF hits
      <3>2. QED
        BY <3>1, MinIsMin
    <2>3. hits # {} => /\ end \in DOMAIN moves
                       /\ ~ TooLate(moves[end]) /\ response = Expected(moves[end])
      BY <2>2 DEF Signals, Answered
    <2>4. end \in Nat
      BY <2>3, <1>0
    <2>5. ASSUME NEW i \in DOMAIN moves
          PROVE  /\ moves'[i] \in Move /\ moves'[i].at = moves[i].at
                 /\ i = end => moves'[i].checked
                 /\ i < end => moves'[i].checked = Checked(moves[i], response)
      <3>1. moves[i] \in Move
        BY <1>0
      <3> HIDE DEF end
      <3>2. i < end => i # end
        BY <2>4, <1>0
      <3>3. \E c : moves'[i] = [moves[i] EXCEPT !.checked = c] /\ c \in BOOLEAN
                   /\ (i = end => c)
                   /\ (i < end => c = Checked(moves[i], response))
        <4>1. CASE i < end
          BY <2>1, <3>1, <3>2, <4>1 DEF Checked, TooLate, Diverges, Answered, Move
        <4>2. CASE i = end
          BY <2>1, <3>1, <3>2, <4>2
        <4>3. CASE ~ (i < end) /\ i # end
          BY <2>1, <3>1, <4>3 DEF Move
        <4>4. QED
          BY <4>1, <4>2, <4>3
      <3>4. QED
        BY <3>1, <3>3 DEF Move
    <2>6. DOMAIN moves' = DOMAIN moves /\ moves' \in Seq(Move) /\ Len(moves') = Len(moves)
      <3>1. DOMAIN moves' = 1 .. Len(moves)
        BY <1>0, <2>1
      <3>2. moves' \in [1 .. Len(moves) -> Move]
        <4>1. \E f : moves' = [i \in DOMAIN moves |-> f[i]]
          <5>1. moves' = [i \in DOMAIN moves |-> moves'[i]]
            BY <2>1
          <5>2. QED
            BY <5>1
        <4>2. QED
          BY <4>1, <1>0, <2>5
      <3>3. QED
        BY <3>1, <3>2, <1>0, SeqDef
    <2>7. /\ \A i, j \in DOMAIN moves' : i < j => moves'[i].at <= moves'[j].at
          /\ \A i \in DOMAIN moves' : moves'[i].at <= time
      BY <2>5, <2>6 DEF MovesIInv
    <2>8. PendingMovesAreInTime'
      <3> SUFFICES ASSUME NEW i \in DOMAIN moves, ~ moves'[i].checked
                   PROVE  time - moves[i].at <= MaxLag
        BY <2>1, <2>5, <2>6 DEF PendingMovesAreInTime
      <3>1. CASE i < end
        <4>1. ~ TooLate(moves[i]) /\ moves[i].at \in Nat
          BY <3>1, <2>5, <2>6, <1>0 DEF Checked
        <4>2. QED
          BY <4>1, <1>0, MoveNumbers DEF TooLate
      <3>2. CASE ~ (i < end)
        <4>1. hits # {} /\ end < i
          BY <3>2, <2>4, <2>5, <1>0
        <4>2. moves[end].at <= moves[i].at /\ ~ TooLate(moves[end]) /\ moves[end].at \in Nat
          BY <4>1, <2>3, <1>0 DEF MovesIInv
        <4> HIDE DEF end
        <4>3. QED
          BY <4>2, <1>0, MoveNumbers DEF TooLate
      <3>3. QED
        BY <3>1, <3>2
    <2>9. SignalFollowsItsMove' /\ Len(signalled') <= 1
      <3>1. CASE hits = {}
        BY <3>1, <2>1 DEF SignalFollowsItsMove
      <3>2. CASE hits # {}
        <4>1. /\ Len(signalled') = 1 /\ DOMAIN signalled' = {1}
              /\ signalled'[1].move = moves[end] /\ signalled'[1].sign = response
          BY <3>2, <2>1
        <4>2. /\ response = Expected(moves[end]) /\ moves[end].at \in Nat
              /\ moves[end].at <= time /\ ~ TooLate(moves[end])
          BY <3>2, <2>3, <1>0 DEF MovesIInv
        <4> HIDE DEF end, hits
        <4>3. time - moves[end].at \in 0 .. MaxLag
          BY <4>2, <1>0, MoveNumbers DEF TooLate
        <4>4. QED
          BY <4>1, <4>2, <4>3, <2>1 DEF SignalFollowsItsMove, Expected
      <3>3. QED
        BY <3>1, <3>2
    <2>10. wtiTime' = time /\ time \in -1 .. MaxMoveTime
      BY <2>1, <1>0
    <2> HIDE DEF hits, end
    <2>11. QED
      BY <1>0, <1>1, <2>6, <2>7, <2>8, <2>9, <2>10 DEF MovesIInv
  <1>4. QED
    BY <1>2, <1>3

LEMMA MovesStep == MovesIInv /\ [MovesNext]_moveVars => MovesIInv'
  <1> SUFFICES ASSUME MovesIInv, [MovesNext]_moveVars PROVE MovesIInv'
    OBVIOUS
  <1>1. CASE TimePasses \/ UNCHANGED moveVars
    <2>1. UNCHANGED <<prices, moves, wtiTime, signalled>> /\ time' \in {time, time + 1}
          /\ time' \in 0 .. MaxMoveTime
      BY <1>1, MoveNumbers DEF TimePasses, moveVars, MovesIInv
    <2>2. \A i \in DOMAIN moves : moves[i].at \in Nat
      BY LenProperties, MoveNumbers DEF MovesIInv
    <2>3. QED
      BY <2>1, <2>2 DEF MovesIInv, PendingMovesAreInTime, SignalFollowsItsMove, Expected
  <1>2. QED
    BY <1>1, MarketTickStep, WtiTickStep DEF MovesNext

LEMMA MovesIInvImplies == MovesIInv => MoveInvariant
  <1> SUFFICES ASSUME MovesIInv PROVE MoveInvariant
    OBVIOUS
  <1>1. \A i \in DOMAIN moves : moves[i] \in Move
    BY LenProperties DEF MovesIInv
  <1>2. QED
    BY <1>1 DEF MovesIInv, MoveInvariant, MovesTypeOK

(***************************************************************************)
(* However ticks of the markets and of WTI mix, a look at WTI's answer     *)
(* leaves no move that is too old to be answered, and a signal trades as   *)
(* its move says, in time (strategy/detectors/correlation.py).             *)
(***************************************************************************)
THEOREM MovesSafe == MovesSpec => []MoveInvariant
  <1>1. MovesSpec => []MovesIInv
    BY MovesInitial, MovesStep, PTL DEF MovesSpec
  <1>2. QED
    BY <1>1, MovesIInvImplies, PTL

-----------------------------------------------------------------------------
(***************************************************************************)
(* Breakouts.  The invariant is inductive once the window is known to hold *)
(* the new bar: its close is within the range that includes the bar.       *)
(***************************************************************************)
BreakoutIInv ==
    /\ window \in Seq(BarSet) /\ Len(window) <= ConsolidationBars
    /\ barVolumes \in Seq({b.volume : b \in BarSet}) /\ Len(barVolumes) <= MaxBarVolumes
    /\ NoBreakoutIsEverSeen

LEMMA BarNumbers ==
    /\ ConsolidationBars \in Nat /\ ConsolidationBars > 0
    /\ MaxBarVolumes \in Nat /\ MaxBarVolumes > 0
    /\ \A b \in BarSet : /\ b.low \in Nat /\ b.close \in Nat /\ b.high \in Nat
                         /\ b.low <= b.close /\ b.close <= b.high
  BY BreakoutAssumption

\* A window of the last n elements holds the newest of them.
LEMMA NewestKeeps ==
    ASSUME NEW S, NEW s \in Seq(S), NEW n \in Nat, n > 0, Len(s) <= n, NEW e \in S
    PROVE  LET k == Newest(Append(s, e), n)
           IN  k \in Seq(S) /\ Len(k) <= n /\ Len(k) \in DOMAIN k /\ k[Len(k)] = e
  <1> DEFINE a == Append(s, e)
  <1>0. Len(s) \in Nat
    BY LenProperties
  <1>1. a \in Seq(S) /\ a # <<>> /\ Len(a) = Len(s) + 1 /\ a[Len(a)] = e
        /\ DOMAIN a = 1 .. Len(a)
    BY AppendProperties, LenProperties
  <1> HIDE DEF a
  <1>2. CASE Len(a) > n
    <2>1. /\ Tail(a) \in Seq(S) /\ Len(Tail(a)) = Len(a) - 1
          /\ DOMAIN Tail(a) = 1 .. Len(Tail(a))
          /\ \A i \in 1 .. Len(Tail(a)) : Tail(a)[i] = a[i + 1]
      BY <1>1, HeadTailProperties, LenProperties
    <2>2. Len(Tail(a)) = n
      BY <2>1, <1>0, <1>1, <1>2
    <2>3. Tail(a)[n] = e /\ n \in DOMAIN Tail(a)
      BY <2>1, <2>2, <1>0, <1>1, <1>2
    <2>4. QED
      BY <2>1, <2>2, <2>3, <1>2 DEF Newest, a
  <1>3. CASE ~ (Len(a) > n)
    <2>1. Len(a) <= n /\ Len(a) \in DOMAIN a
      BY <1>0, <1>1, <1>3
    <2>2. QED
      BY <2>1, <1>1, <1>3 DEF Newest, a
  <1>4. QED
    BY <1>2, <1>3

\* The range of some bars has each of them within.
LEMMA RangeHoldsItsBars ==
    ASSUME NEW bs \in Seq(BarSet), NEW i \in DOMAIN bs
    PROVE  LET r == ConsolidationRange(bs)
           IN  /\ r.low \in Nat /\ r.high \in Nat
               /\ r.low <= bs[i].low /\ bs[i].high <= r.high
  <1> DEFINE R == {bs[k] : k \in DOMAIN bs}
             L == {b.low : b \in R}
             H == {b.high : b \in R}
  <1>1. IsFiniteSet(R) /\ \A k \in DOMAIN bs : bs[k] \in BarSet
    BY RangeFinite, LenProperties
  <1>2. /\ [b \in R |-> b.low] \in Surjection(R, L)
        /\ [b \in R |-> b.high] \in Surjection(R, H)
    BY DEF Surjection
  <1>3. bs[i].low \in L /\ bs[i].high \in H /\ L \in SUBSET Nat /\ H \in SUBSET Nat
    BY <1>1, BarNumbers
  <1>4. ConsolidationRange(bs) = [low |-> Min(L), high |-> Max(H)]
    BY DEF ConsolidationRange, ToSet
  <1> HIDE DEF R, L, H
  <1>5. IsFiniteSet(L) /\ IsFiniteSet(H)
    BY <1>1, <1>2, FS_Surjection
  <1>6. L \in SUBSET Int /\ H \in SUBSET Int /\ L # {} /\ H # {}
    BY <1>3
  <1>7. /\ Min(L) \in L /\ \A x \in L : Min(L) <= x
        /\ Max(H) \in H /\ \A x \in H : Max(H) >= x
    BY <1>5, <1>6, MaxIsMax, MinIsMin
  <1>8. Min(L) \in Nat /\ Max(H) \in Nat /\ bs[i].high \in Nat
        /\ Min(L) <= bs[i].low /\ bs[i].high <= Max(H)
    BY <1>3, <1>7
  <1>9. QED
    BY <1>4, <1>8

\* A bar within a range does not break out of it.
LEMMA WithinIsNoBreakout ==
    ASSUME NEW b \in BarSet, NEW r, r.low \in Nat, r.high \in Nat,
           r.low <= b.low, b.high <= r.high
    PROVE  ~ ClosesAbove(b, r) /\ ~ ClosesBelow(b, r)
  <1>1. /\ b.low \in Nat /\ b.close \in Nat /\ b.high \in Nat
        /\ b.low <= b.close /\ b.close <= b.high
    BY BarNumbers
  <1>2. b.close - r.high <= 0 /\ r.low - b.close <= 0 /\ r.high - r.low >= 0
    BY <1>1
  <1>3. QED
    BY <1>1, <1>2 DEF ClosesAbove, ClosesBelow

LEMMA NewBarStep ==
    ASSUME BreakoutIInv, NEW b \in BarSet, NewBar(b)
    PROVE  BreakoutIInv'
  <1> USE DEF BreakoutIInv
  <1> DEFINE bs == Newest(Append(window, b), ConsolidationBars)
             vs == Newest(Append(barVolumes, b.volume), MaxBarVolumes)
             V == {c.volume : c \in BarSet}
  <1>1. bs \in Seq(BarSet) /\ Len(bs) <= ConsolidationBars
        /\ Len(bs) \in DOMAIN bs /\ bs[Len(bs)] = b
    BY BarNumbers, NewestKeeps
  <1>2. vs \in Seq(V) /\ Len(vs) <= MaxBarVolumes
    <2>1. b.volume \in V /\ barVolumes \in Seq(V) /\ Len(barVolumes) <= MaxBarVolumes
      OBVIOUS
    <2> HIDE DEF V
    <2>2. QED
      BY <2>1, BarNumbers, NewestKeeps
  <1>3. window' = bs /\ barVolumes' = vs /\ breakout = NoBreakout
    BY DEF NewBar, NoBreakoutIsEverSeen
  <1>4. /\ breakout' \in {breakout, CheckBreakout(b, ConsolidationRange(bs), vs)}
        /\ returned' = "none"
    BY <1>3 DEF NewBar
  <1>5. CheckBreakout(b, ConsolidationRange(bs), vs) = NoBreakout
    <2> HIDE DEF bs, vs
    <2>1. /\ ConsolidationRange(bs).low \in Nat /\ ConsolidationRange(bs).high \in Nat
          /\ ConsolidationRange(bs).low <= b.low /\ b.high <= ConsolidationRange(bs).high
      BY <1>1, RangeHoldsItsBars
    <2>2. QED
      BY <2>1, WithinIsNoBreakout DEF CheckBreakout
  <1>6. NoBreakoutIsEverSeen'
    BY <1>3, <1>4, <1>5 DEF NoBreakoutIsEverSeen
  <1>7. QED
    BY <1>1, <1>2, <1>3, <1>6

LEMMA BreakoutInitial == BreakoutInit => BreakoutIInv
  <1> SUFFICES ASSUME BreakoutInit PROVE BreakoutIInv
    OBVIOUS
  <1>1. <<>> \in Seq(BarSet) /\ <<>> \in Seq({b.volume : b \in BarSet}) /\ Len(<<>>) = 0
    BY EmptySeq
  <1>2. QED
    BY <1>1, BarNumbers DEF BreakoutInit, BreakoutIInv, NoBreakoutIsEverSeen

LEMMA BreakoutStep == BreakoutIInv /\ [BreakoutNext]_breakoutVars => BreakoutIInv'
  <1> SUFFICES ASSUME BreakoutIInv, [BreakoutNext]_breakoutVars PROVE BreakoutIInv'
    OBVIOUS
  <1>1. CASE UNCHANGED breakoutVars
    BY <1>1 DEF breakoutVars, BreakoutIInv, NoBreakoutIsEverSeen
  <1>2. QED
    BY <1>1, NewBarStep DEF BreakoutNext

LEMMA BreakoutIInvImplies == BreakoutIInv => BreakoutInvariant
  <1> SUFFICES ASSUME BreakoutIInv PROVE BreakoutInvariant
    OBVIOUS
  <1> DEFINE V == {b.volume : b \in BarSet}
  <1>1. barVolumes \in Seq(V) /\ window \in Seq(BarSet)
    BY DEF BreakoutIInv
  <1>2. ToSet(window) \subseteq BarSet
    BY <1>1, LenProperties DEF ToSet
  <1>3. ToSet(barVolumes) \subseteq V
    <2> HIDE DEF V
    <2>1. QED
      BY <1>1, LenProperties DEF ToSet
  <1>4. QED
    BY <1>2, <1>3 DEF BreakoutIInv, BreakoutInvariant, BreakoutTypeOK, NoBreakoutIsEverSeen,
                      NoBreakout

(***************************************************************************)
(* That BreakoutsAreSeen fails is no matter of bounds.  The range is taken *)
(* from bars that include the one asked for a breakout: for any bars and   *)
(* any lengths of the windows the detector never sees a breakout nor       *)
(* returns a signal (strategy/detectors/breakout.py:148, 198).             *)
(***************************************************************************)
THEOREM BreakoutsNeverSeen == BreakoutSpec => []BreakoutInvariant
  <1>1. BreakoutSpec => []BreakoutIInv
    BY BreakoutInitial, BreakoutStep, PTL DEF BreakoutSpec
  <1>2. QED
    BY <1>1, BreakoutIInvImplies, PTL

-----------------------------------------------------------------------------
(***************************************************************************)
(* EventEngine.  The inductive invariant ties what was told of an object   *)
(* to its status: an object that is still scheduled was never told of, so  *)
(* that announcing it cannot track it twice.                               *)
(***************************************************************************)
EventRecord ==
    [id : EventIds,
     status : {"scheduled", "approaching", "active", "released", "cancelled", "completed"},
     aware : BOOLEAN]

Tellings == {<<>>, <<"approaching">>, <<"approaching", "completed">>}

EventTypes ==
    /\ checking \in BOOLEAN /\ checked \in BOOLEAN
    /\ events \in Seq(EventRecord) /\ Len(events) <= MaxObjects
    /\ calendar \in [EventIds -> 0 .. Len(events)]
    /\ indexed \in [EventIds -> 0 .. Len(events)]
    /\ tracked \in Seq(1 .. Len(events))
    /\ told \in [1 .. MaxObjects -> Tellings]
    /\ clock \in 0 .. EndOfTime

EventIInv ==
    /\ EventTypes
    /\ \A e \in EventIds : calendar[e] # 0 => indexed[e] > 0
    /\ \A o \in 1 .. MaxObjects : o > Len(events) => told[o] = <<>>
    /\ \A o \in 1 .. Len(events) : events[o].status = "scheduled" => told[o] = <<>>
    /\ \A i \in DOMAIN tracked : told[tracked[i]] = <<"approaching">>
    /\ \A i, j \in DOMAIN tracked : tracked[i] = tracked[j] => i = j

LEMMA EventNumbers == MaxObjects \in Nat /\ EndOfTime \in Nat /\ MediumImpact \subseteq EventIds
  BY EventAssumption

LEMMA EventInitial == EventInit => EventIInv
  <1> SUFFICES ASSUME EventInit PROVE EventIInv
    OBVIOUS
  <1> USE DEF EventInit
  <1>1. /\ events \in Seq(EventRecord) /\ Len(events) = 0
        /\ tracked \in Seq(1 .. Len(events)) /\ DOMAIN tracked = {}
    BY EmptySeq
  <1>2. told \in [1 .. MaxObjects -> Tellings] /\ \A o \in 1 .. MaxObjects : told[o] = <<>>
    BY DEF Tellings
  <1>3. /\ calendar \in [EventIds -> 0 .. Len(events)]
        /\ indexed \in [EventIds -> 0 .. Len(events)]
        /\ \A e \in EventIds : calendar[e] = 0
    BY <1>1
  <1>4. checking \in BOOLEAN /\ checked \in BOOLEAN
    OBVIOUS
  <1>5. EventTypes
    BY <1>1, <1>2, <1>3, <1>4, EventNumbers DEF EventTypes
  <1>6. QED
    BY <1>1, <1>2, <1>3, <1>5, EventNumbers DEF EventIInv

\* The facts about sequences that every step uses.
LEMMA EventFacts ==
    ASSUME EventIInv
    PROVE  /\ Len(events) \in Nat /\ DOMAIN events = 1 .. Len(events)
           /\ \A o \in 1 .. Len(events) : events[o] \in EventRecord
           /\ Len(tracked) \in Nat /\ DOMAIN tracked = 1 .. Len(tracked)
           /\ \A i \in DOMAIN tracked : tracked[i] \in 1 .. Len(events)
           /\ EventTypes
  <1> USE DEF EventIInv, EventTypes
  <1>1. /\ Len(events) \in Nat /\ DOMAIN events = 1 .. Len(events)
        /\ \A o \in 1 .. Len(events) : events[o] \in EventRecord
    BY LenProperties
  <1>2. /\ Len(tracked) \in Nat /\ DOMAIN tracked = 1 .. Len(tracked)
        /\ \A i \in DOMAIN tracked : tracked[i] \in 1 .. Len(events)
    <2> DEFINE O == 1 .. Len(events)
    <2>1. tracked \in Seq(O)
      OBVIOUS
    <2> HIDE DEF O
    <2>2. /\ Len(tracked) \in Nat /\ DOMAIN tracked = 1 .. Len(tracked)
          /\ \A i \in DOMAIN tracked : tracked[i] \in O
      BY <2>1, LenProperties
    <2>3. QED
      BY <2>2 DEF O
  <1>3. QED
    BY <1>1, <1>2

LEMMA AddEventStep ==
    ASSUME EventIInv, NEW e \in EventIds, NEW aware \in BOOLEAN, AddEvent(e, aware)
    PROVE  EventIInv'
  <1> DEFINE n == Len(events)
             x == NewEvent(e, aware)
  <1>0. /\ n \in Nat /\ n < MaxObjects /\ x \in EventRecord
        /\ events' = Append(events, x)
        /\ calendar' = [calendar EXCEPT ![e] = n + 1]
        /\ indexed' = [indexed EXCEPT ![e] = @ + 1]
        /\ UNCHANGED <<checking, tracked, told, clock, checked>>
    BY EventFacts DEF AddEvent, NewEvent, EventRecord
  <1>1. /\ events' \in Seq(EventRecord) /\ Len(events') = n + 1
        /\ \A o \in 1 .. n : events'[o] = events[o]
    BY <1>0, EventFacts, AppendProperties DEF EventTypes
  <1>2. tracked \in Seq(1 .. n) /\ 1 .. n \subseteq 1 .. n + 1
    BY <1>0, EventFacts DEF EventTypes
  <1>3. tracked \in Seq(1 .. n + 1)
    BY <1>2, SeqMonotonic
  <1>4. /\ calendar' \in [EventIds -> 0 .. n + 1] /\ indexed' \in [EventIds -> 0 .. n + 1]
        /\ \A y \in EventIds : calendar'[y] # 0 => indexed'[y] > 0
    BY <1>0, EventFacts DEF EventTypes, EventIInv
  <1>5. EventTypes'
    BY <1>0, <1>1, <1>3, <1>4, EventFacts, EventNumbers DEF EventTypes
  <1>6. \A o \in 1 .. MaxObjects : o > Len(events') => told'[o] = <<>>
    BY <1>0, <1>1 DEF EventIInv
  <1>7. \A o \in 1 .. Len(events') : events'[o].status = "scheduled" => told'[o] = <<>>
    <2> SUFFICES ASSUME NEW o \in 1 .. n + 1, events'[o].status = "scheduled"
                 PROVE  told[o] = <<>>
      BY <1>0, <1>1
    <2>1. CASE o = n + 1
      BY <2>1, <1>0, EventNumbers DEF EventIInv
    <2>2. CASE o # n + 1
      <3>1. o \in 1 .. n
        BY <2>2, <1>0
      <3>2. QED
        BY <3>1, <1>1 DEF EventIInv
    <2>3. QED
      BY <2>1, <2>2
  <1>8. QED
    BY <1>0, <1>4, <1>5, <1>6, <1>7 DEF EventIInv

LEMMA SetStatusStep ==
    ASSUME EventIInv, NEW e \in EventIds, NEW status \in {"released", "cancelled"},
           SetStatus(e, status)
    PROVE  EventIInv'
  <1> DEFINE o == calendar[e]
  <1>0. /\ o \in 1 .. Len(events)
        /\ events' = [events EXCEPT ![o] = [events[o] EXCEPT !.status = status]]
        /\ UNCHANGED <<checking, calendar, indexed, tracked, told, clock, checked>>
    BY EventFacts DEF SetStatus, EventTypes
  <1> HIDE DEF o
  <1>1. [events[o] EXCEPT !.status = status] \in EventRecord
        /\ [events[o] EXCEPT !.status = status].status # "scheduled"
    BY <1>0, EventFacts DEF EventRecord
  <1>2. /\ events' \in Seq(EventRecord) /\ Len(events') = Len(events)
        /\ \A k \in 1 .. Len(events) :
             events'[k] = IF k = o THEN [events[o] EXCEPT !.status = status] ELSE events[k]
    BY <1>0, <1>1, EventFacts, ExceptSeq DEF EventTypes
  <1>3. EventTypes'
    BY <1>0, <1>2, EventFacts DEF EventTypes
  <1>4. \A k \in 1 .. Len(events') : events'[k].status = "scheduled" => told'[k] = <<>>
    BY <1>0, <1>1, <1>2 DEF EventIInv
  <1>5. QED
    BY <1>0, <1>2, <1>3, <1>4 DEF EventIInv

LEMMA CleanupStep ==
    ASSUME EventIInv, CleanupOldEvents
    PROVE  EventIInv'
  <1>0. UNCHANGED <<checking, events, tracked, told, clock, checked>>
    BY DEF CleanupOldEvents
  <1>1. \A e \in EventIds :
          /\ calendar[e] \in 0 .. Len(events) /\ indexed[e] \in 0 .. Len(events)
          /\ calendar[e] # 0 => indexed[e] > 0
    BY EventFacts DEF EventTypes, EventIInv
  <1>2. \A e \in EventIds :
          \/ calendar'[e] = calendar[e] /\ indexed'[e] = indexed[e]
          \/ calendar'[e] = 0 /\ indexed'[e] = indexed[e] - 1 /\ calendar[e] # 0
    BY DEF CleanupOldEvents, Old
  <1>3. \A e \in EventIds :
          /\ calendar'[e] \in 0 .. Len(events) /\ indexed'[e] \in 0 .. Len(events)
          /\ calendar'[e] # 0 => indexed'[e] > 0
    BY <1>1, <1>2, EventFacts
  <1>4. /\ calendar' \in [EventIds -> 0 .. Len(events)]
        /\ indexed' \in [EventIds -> 0 .. Len(events)]
    <2>1. /\ calendar' = [e \in EventIds |-> calendar'[e]]
          /\ indexed' = [e \in EventIds |-> indexed'[e]]
      BY DEF CleanupOldEvents
    <2>2. QED
      BY <2>1, <1>3
  <1>5. EventTypes'
    BY <1>0, <1>4, EventFacts DEF EventTypes
  <1>6. QED
    BY <1>0, <1>3, <1>5 DEF EventIInv

\* An event the engine announces is approaching, and nothing was told of it.
LEMMA AnnouncedIsNew ==
    ASSUME EventIInv, NEW o \in Objects, o \in Approaching \cup Occurring
    PROVE  /\ o \in 1 .. Len(events) /\ o \in Approaching
           /\ o \in 1 .. MaxObjects /\ told[o] = <<>>
           /\ \A i \in DOMAIN tracked : tracked[i] # o
  <1>1. o \notin Occurring
    BY DEF Occurring, Phase
  <1>2. o \in Approaching /\ events[o].status = "scheduled" /\ o \in 1 .. Len(events)
    BY <1>1, EventFacts DEF Approaching, Objects
  <1>3. told[o] = <<>> /\ o \in 1 .. MaxObjects
    BY <1>2, EventFacts, EventNumbers DEF EventIInv, EventTypes
  <1>4. <<>> # <<"approaching">>
    OBVIOUS
  <1>5. QED
    BY <1>2, <1>3, <1>4 DEF EventIInv

LEMMA AnnounceStep ==
    ASSUME EventIInv, NEW o \in Objects, Announce(o),
           checking' \in BOOLEAN, checked' \in BOOLEAN,
           UNCHANGED <<calendar, indexed, clock>>
    PROVE  EventIInv'
  <1>0. /\ o \in 1 .. Len(events) /\ o \in Approaching
        /\ o \in 1 .. MaxObjects /\ told[o] = <<>>
        /\ \A i \in DOMAIN tracked : tracked[i] # o
    BY AnnouncedIsNew DEF Announce
  <1>1. /\ events' = [events EXCEPT ![o] = [events[o] EXCEPT !.status = "approaching"]]
        /\ tracked' \in {tracked, Append(tracked, o)}
        /\ told' = [told EXCEPT ![o] = <<"approaching">>]
    BY <1>0 DEF Announce, Told
  <1>2. [events[o] EXCEPT !.status = "approaching"] \in EventRecord
        /\ [events[o] EXCEPT !.status = "approaching"].status # "scheduled"
    BY <1>0, EventFacts DEF EventRecord
  <1>3. /\ events' \in Seq(EventRecord) /\ Len(events') = Len(events)
        /\ \A k \in 1 .. Len(events) :
             events'[k] = IF k = o THEN [events[o] EXCEPT !.status = "approaching"]
                          ELSE events[k]
    BY <1>0, <1>1, <1>2, EventFacts, ExceptSeq DEF EventTypes
  <1>4. /\ told' \in [1 .. MaxObjects -> Tellings] /\ told'[o] = <<"approaching">>
        /\ \A k \in 1 .. MaxObjects : k # o => told'[k] = told[k]
    BY <1>0, <1>1, EventFacts DEF EventTypes, Tellings
  <1>5. /\ tracked' \in Seq(1 .. Len(events))
        /\ \A i \in DOMAIN tracked' : told'[tracked'[i]] = <<"approaching">>
        /\ \A i, j \in DOMAIN tracked' : tracked'[i] = tracked'[j] => i = j
    <2>1. \A i \in DOMAIN tracked : /\ tracked[i] \in 1 .. MaxObjects
                                    /\ told'[tracked[i]] = <<"approaching">>
      BY <1>0, <1>4, EventFacts, EventNumbers DEF EventIInv, EventTypes
    <2>2. CASE tracked' = tracked
      BY <2>1, <2>2, EventFacts DEF EventIInv, EventTypes
    <2>3. CASE tracked' = Append(tracked, o)
      <3>1. /\ tracked' \in Seq(1 .. Len(events)) /\ Len(tracked') = Len(tracked) + 1
            /\ \A i \in 1 .. Len(tracked) : tracked'[i] = tracked[i]
            /\ tracked'[Len(tracked) + 1] = o
        BY <2>3, <1>0, EventFacts, AppendProperties DEF EventTypes
      <3>2. DOMAIN tracked' = 1 .. Len(tracked) + 1
        BY <3>1, LenProperties
      <3>3. \A i \in DOMAIN tracked' : i \in DOMAIN tracked \/ i = Len(tracked) + 1
        BY <3>2, EventFacts
      <3>4. \A i \in DOMAIN tracked' : told'[tracked'[i]] = <<"approaching">>
        BY <3>1, <3>3, <2>1, <1>4, EventFacts
      <3>5. \A i, j \in DOMAIN tracked' : tracked'[i] = tracked'[j] => i = j
        BY <3>1, <3>3, <1>0, EventFacts DEF EventIInv
      <3>6. QED
        BY <3>1, <3>4, <3>5
    <2>4. QED
      BY <1>1, <2>2, <2>3
  <1>6. EventTypes'
    BY <1>3, <1>4, <1>5, EventFacts DEF EventTypes
  <1>7. /\ \A k \in 1 .. MaxObjects : k > Len(events') => told'[k] = <<>>
        /\ \A k \in 1 .. Len(events') : events'[k].status = "scheduled" => told'[k] = <<>>
    <2>1. \A k \in 1 .. Len(events) : k \in 1 .. MaxObjects
      BY EventFacts, EventNumbers DEF EventTypes
    <2>2. \A k \in 1 .. MaxObjects : k > Len(events) => k # o /\ told[k] = <<>>
      BY <1>0, EventFacts DEF EventIInv
    <2>3. \A k \in 1 .. Len(events) :
            events'[k].status = "scheduled" => k # o /\ told[k] = <<>>
      BY <1>2, <1>3 DEF EventIInv
    <2>4. QED
      BY <2>1, <2>2, <2>3, <1>3, <1>4
  <1>8. QED
    BY <1>5, <1>6, <1>7 DEF EventIInv

LEMMA CompleteStep ==
    ASSUME EventIInv, NEW o \in Objects, Complete(o),
           checking' \in BOOLEAN, checked' \in BOOLEAN,
           UNCHANGED <<calendar, indexed, clock>>
    PROVE  EventIInv'
  <1>0. PICK i \in DOMAIN tracked : tracked[i] = o /\ tracked' = RemoveAt(tracked, i)
    BY DEF Complete
  <1>1. o \in 1 .. Len(events) /\ o \in 1 .. MaxObjects /\ told[o] = <<"approaching">>
    BY <1>0, EventFacts, EventNumbers DEF EventIInv, EventTypes
  <1>2. /\ events' = [events EXCEPT ![o] = [events[o] EXCEPT !.status = "completed"]]
        /\ told' = [told EXCEPT ![o] = <<"approaching", "completed">>]
    <2>1. Append(<<"approaching">>, "completed") = <<"approaching", "completed">>
      <3>1. "approaching" \in {"approaching", "completed"}
            /\ "completed" \in {"approaching", "completed"}
        OBVIOUS
      <3>2. QED
        BY <3>1, AppendToOne
    <2>2. told' = [told EXCEPT ![o] = Append(told[o], "completed")]
      BY DEF Complete, Told
    <2>3. QED
      BY <1>1, <2>1, <2>2 DEF Complete
  <1>3. [events[o] EXCEPT !.status = "completed"] \in EventRecord
        /\ [events[o] EXCEPT !.status = "completed"].status # "scheduled"
    BY <1>1, EventFacts DEF EventRecord
  <1>4. /\ events' \in Seq(EventRecord) /\ Len(events') = Len(events)
        /\ \A k \in 1 .. Len(events) :
             events'[k] = IF k = o THEN [events[o] EXCEPT !.status = "completed"]
                          ELSE events[k]
    BY <1>1, <1>2, <1>3, EventFacts, ExceptSeq DEF EventTypes
  <1>5. /\ told' \in [1 .. MaxObjects -> Tellings]
        /\ \A k \in 1 .. MaxObjects : k # o => told'[k] = told[k]
    BY <1>1, <1>2, EventFacts DEF EventTypes, Tellings
  <1>6. /\ tracked' \in Seq(1 .. Len(events)) /\ DOMAIN tracked' = 1 .. Len(tracked) - 1
        /\ \A k \in DOMAIN tracked' : tracked'[k] = IF k < i THEN tracked[k] ELSE tracked[k + 1]
    BY <1>0, EventFacts, RemoveAtProperties DEF EventTypes
  <1>7. \A k \in DOMAIN tracked' :
          LET j == IF k < i THEN k ELSE k + 1
          IN  j \in DOMAIN tracked /\ j # i /\ tracked'[k] = tracked[j]
    BY <1>0, <1>6, EventFacts
  <1>8. \A k \in DOMAIN tracked' : told'[tracked'[k]] = <<"approaching">>
    <2> SUFFICES ASSUME NEW k \in DOMAIN tracked' PROVE told'[tracked'[k]] = <<"approaching">>
      OBVIOUS
    <2>1. PICK j \in DOMAIN tracked : j # i /\ tracked'[k] = tracked[j]
      BY <1>7
    <2>2. tracked[j] # o /\ tracked[j] \in 1 .. MaxObjects
      BY <2>1, <1>0, EventFacts, EventNumbers DEF EventIInv, EventTypes
    <2>3. QED
      BY <2>1, <2>2, <1>5 DEF EventIInv
  <1>9. \A k, l \in DOMAIN tracked' : tracked'[k] = tracked'[l] => k = l
    <2> SUFFICES ASSUME NEW k \in DOMAIN tracked', NEW l \in DOMAIN tracked',
                        tracked'[k] = tracked'[l]
                 PROVE  k = l
      OBVIOUS
    <2>1. (IF k < i THEN k ELSE k + 1) = (IF l < i THEN l ELSE l + 1)
      BY <1>7 DEF EventIInv
    <2>2. k \in Nat /\ l \in Nat /\ i \in Nat
      BY <1>0, <1>6, EventFacts
    <2>3. QED
      BY <2>1, <2>2
  <1>10. EventTypes'
    BY <1>4, <1>5, <1>6, EventFacts DEF EventTypes
  <1>11. /\ \A k \in 1 .. MaxObjects : k > Len(events') => told'[k] = <<>>
         /\ \A k \in 1 .. Len(events') : events'[k].status = "scheduled" => told'[k] = <<>>
    <2>1. \A k \in 1 .. Len(events) : k \in 1 .. MaxObjects
      BY EventFacts, EventNumbers DEF EventTypes
    <2>2. \A k \in 1 .. MaxObjects : k > Len(events) => k # o /\ told[k] = <<>>
      BY <1>1, EventFacts DEF EventIInv
    <2>3. \A k \in 1 .. Len(events) :
            events'[k].status = "scheduled" => k # o /\ told[k] = <<>>
      BY <1>3, <1>4 DEF EventIInv
    <2>4. QED
      BY <2>1, <2>2, <2>3, <1>4, <1>5
  <1>12. QED
    BY <1>8, <1>9, <1>10, <1>11 DEF EventIInv

LEMMA EventStep == EventIInv /\ [EventNext]_eventVars => EventIInv'
  <1> SUFFICES ASSUME EventIInv, [EventNext]_eventVars PROVE EventIInv'
    OBVIOUS
  <1>0. checking \in BOOLEAN /\ checked \in BOOLEAN
    BY DEF EventIInv, EventTypes
  <1>1. CASE EngineStarts \/ EngineStops \/ ClockMoves \/ UNCHANGED eventVars
             \/ (CheckEvents /\ (NothingToTell \/ CheckFails))
    <2>1. UNCHANGED <<calendar, indexed, events, tracked, told>>
      BY <1>1 DEF EngineStarts, EngineStops, ClockMoves, eventVars, CheckEvents, NothingToTell,
                    CheckFails
    <2>2. checking' \in BOOLEAN /\ checked' \in BOOLEAN
      BY <1>0, <1>1 DEF EngineStarts, EngineStops, ClockMoves, eventVars, CheckEvents
    <2>3. clock' \in 0 .. EndOfTime
      BY <1>1, EventNumbers
         DEF EngineStarts, EngineStops, ClockMoves, eventVars, CheckEvents, EventIInv, EventTypes
    <2>4. EventTypes'
      BY <2>1, <2>2, <2>3 DEF EventIInv, EventTypes
    <2>5. QED
      BY <2>1, <2>4 DEF EventIInv
  <1>2. ASSUME NEW o \in Objects, CheckEvents, Announce(o) \/ Complete(o)
        PROVE  EventIInv'
    <2>1. /\ checking' \in BOOLEAN /\ checked' \in BOOLEAN
          /\ UNCHANGED <<calendar, indexed, clock>>
      BY <1>0, <1>2 DEF CheckEvents
    <2>2. QED
      BY <1>2, <2>1, AnnounceStep, CompleteStep
  <1>3. QED
    BY <1>1, <1>2, AddEventStep, SetStatusStep, CleanupStep DEF EventNext, CheckEvents

LEMMA EventIInvImplies == EventIInv => EventInvariant
  <1> SUFFICES ASSUME EventIInv PROVE EventInvariant
    OBVIOUS
  <1>1. ToSet(tracked) \subseteq Objects
    BY EventFacts DEF ToSet, Objects
  <1>2. EventTypeOK
    BY <1>1, EventFacts, EventNumbers DEF EventTypeOK, EventTypes, Objects, EventRecord
  <1>3. \A o \in Objects : told[o] \in Tellings
    BY EventFacts, EventNumbers DEF EventTypes, Objects
  <1>4. Cardinality(ToSet(tracked)) = Len(tracked)
    <2> DEFINE O == 1 .. Len(events)
    <2>1. tracked \in Seq(O) /\ \A i, j \in DOMAIN tracked : tracked[i] = tracked[j] => i = j
      BY DEF EventIInv, EventTypes
    <2> HIDE DEF O
    <2>2. QED
      BY <2>1, DistinctCardinality
  <1>5. PhasesInOrder
    BY <1>3, <1>4 DEF PhasesInOrder, EventIInv, Tellings
  <1>6. QED
    BY <1>2, <1>5 DEF EventInvariant

(***************************************************************************)
(* For any schedule of events, replaced or cleaned up while they are       *)
(* tracked, with times that compare and times that do not: callbacks hear  *)
(* of each phase of an event once and in order, and what is tracked is     *)
(* what was announced and is not over (events/engine.py:123-146).          *)
(***************************************************************************)
THEOREM EventsSafe == EventSpec => []EventInvariant
  <1>1. EventSpec => []EventIInv
    BY EventInitial, EventStep, PTL DEF EventSpec
  <1>2. QED
    BY <1>1, EventIInvImplies, PTL

-----------------------------------------------------------------------------
(***************************************************************************)
(* The composition: a behaviour of it is one of each of its parts, which   *)
(* stutter while another one is followed.                                  *)
(***************************************************************************)
LEMMA StepsOfParts ==
    ASSUME [Next]_vars
    PROVE  /\ [EngineNext]_engineVars /\ [SweepsNext]_sweepVars /\ [MovesNext]_moveVars
           /\ [BreakoutNext]_breakoutVars /\ [EventNext]_eventVars
  <1>1. CASE UNCHANGED vars
    BY <1>1 DEF vars
  <1>2. CASE Next
    BY <1>2 DEF Next
  <1>3. QED
    BY <1>1, <1>2

(***************************************************************************)
(* Each part keeps what it promises in every behaviour of the whole.       *)
(***************************************************************************)
THEOREM SignalGenerationSafe ==
    Spec => [](/\ StrategyInvariant /\ SweepInvariant /\ MoveInvariant
               /\ BreakoutInvariant /\ EventInvariant)
  <1>1. Init => EngineInit /\ SweepsInit /\ MovesInit /\ BreakoutInit /\ EventInit
    BY DEF Init
  <1>2. [Next]_vars => /\ [EngineNext]_engineVars /\ [SweepsNext]_sweepVars
                       /\ [MovesNext]_moveVars /\ [BreakoutNext]_breakoutVars
                       /\ [EventNext]_eventVars
    BY StepsOfParts
  <1>3. Spec => EngineSpec /\ SweepsSpec /\ MovesSpec /\ BreakoutSpec /\ EventSpec
    BY <1>1, <1>2, PTL DEF Spec, EngineSpec, SweepsSpec, MovesSpec, BreakoutSpec, EventSpec
  <1>4. QED
    BY <1>3, StrategySafe, SweepsSafe, MovesSafe, BreakoutsNeverSeen, EventsSafe, PTL
=============================================================================
