--------------------------- MODULE StrategyEngine ---------------------------
(***************************************************************************)
(* The StrategyEngine (strategy/engine.py) and the life of its signals     *)
(* (strategy/models/signal.py).  What the detectors return for a tick or a *)
(* bar is an input here; LiquiditySweeps, CorrelationMoves and Breakouts   *)
(* model the detectors themselves.                                         *)
(*                                                                         *)
(* main.py registers a callback that makes a task of execute_signal: the   *)
(* task runs later, whatever became of the signal in between.  A status is *)
(* changed over REST (api/signals.py), from any status to any other.       *)
(***************************************************************************)
EXTENDS Integers, Sequences, SequencesExt, FiniteSets

CONSTANTS SignalIds,      \* ids of signals: kind, symbol and time, so that one may return
          Statuses,       \* the SignalStatus values a client sets
          Confidences,    \* confidence of a detector's signal
          MinConfidence,  \* min_confidence
          MaxHistory,     \* signals kept in _signal_history, 1000 in the code
          MaxBlocked      \* bound: signals turned away in a behaviour

SignalStatus ==
    {"pending", "active", "triggered", "entered", "expired", "cancelled", "invalidated"}

ASSUME StrategyAssumption ==
    /\ IsFiniteSet(SignalIds)
    /\ Statuses \subseteq SignalStatus
    /\ Confidences \subseteq Int /\ MinConfidence \in Int
    /\ MaxHistory \in Nat \ {0}
    /\ MaxBlocked \in Nat

VARIABLES
    engineRunning,  \* _running
    signals,        \* _signals: status, entered_at and exited_at set or not
    history,        \* _signal_history
    generated,      \* _stats["signals_generated"]
    blocked,        \* _stats["signals_blocked"]
    tasks,          \* execute_signal tasks not yet begun, by signal
    executed        \* history: how often execute_signal began, by signal

engineVars == <<engineRunning, signals, history, generated, blocked, tasks, executed>>

NoSignal == [status |-> "none", entered |-> FALSE, exited |-> FALSE]

Stored == {id \in SignalIds : signals[id] # NoSignal}

EngineInit ==
    /\ engineRunning = FALSE
    /\ signals = [id \in SignalIds |-> NoSignal]
    /\ history = <<>>
    /\ generated = 0
    /\ blocked = 0
    /\ tasks = [id \in SignalIds |-> 0]
    /\ executed = [id \in SignalIds |-> 0]

EngineStart ==
    /\ engineRunning' = TRUE
    /\ UNCHANGED <<signals, history, generated, blocked, tasks, executed>>

EngineStop ==
    /\ engineRunning' = FALSE
    /\ UNCHANGED <<signals, history, generated, blocked, tasks, executed>>

\* Mutant of IsNew: the id is not looked up.
IsNewAlways(id) == id \in SignalIds

IsNew(id) == id \notin Stored

Remember(id) == IF Len(history) >= MaxHistory THEN Append(Tail(history), id)
                ELSE Append(history, id)

\* _process_signal.  Callbacks fail alone: the task is made in any case.
ProcessSignal(id, confidence) ==
    \/ /\ confidence < MinConfidence
       /\ blocked < MaxBlocked
       /\ blocked' = blocked + 1
       /\ UNCHANGED <<signals, history, generated, tasks>>
    \/ /\ confidence >= MinConfidence
       /\ IsNew(id)
       /\ signals' = [signals EXCEPT ![id] = [NoSignal EXCEPT !.status = "active"]]
       /\ history' = Remember(id)
       /\ generated' = generated + 1
       /\ tasks' = [tasks EXCEPT ![id] = @ + 1]
       /\ UNCHANGED blocked

\* on_tick of a symbol the spike filter does not block, or on_bar of any.
DetectorSignals(id, confidence) ==
    /\ engineRunning
    /\ ProcessSignal(id, confidence)
    /\ UNCHANGED <<engineRunning, executed>>

\* update_status.  No transition is refused, and nothing but a request makes one:
\* a signal past its time_limit stays active until a client says otherwise.
Updated(sig, status) ==
    [status |-> status, entered |-> sig.entered \/ status = "entered",
     exited |-> sig.exited \/ (sig.entered /\ status \in {"expired", "cancelled", "invalidated"})]

\* POST /signals/{id}/status; an unknown id is a 404.
UpdateSignalStatus(id, status) ==
    /\ id \in Stored
    /\ signals' = [signals EXCEPT ![id] = Updated(@, status)]
    /\ UNCHANGED <<engineRunning, history, generated, blocked, tasks, executed>>

TaskRuns(id) == tasks[id] > 0

\* The event loop starts the task; execute_signal does not read the status.
ExecuteSignalTask(id) ==
    /\ TaskRuns(id)
    /\ tasks' = [tasks EXCEPT ![id] = @ - 1]
    /\ executed' = [executed EXCEPT ![id] = @ + 1]
    /\ UNCHANGED <<engineRunning, signals, history, generated, blocked>>

EngineNext ==
    \/ EngineStart
    \/ EngineStop
    \/ \E id \in SignalIds, c \in Confidences : DetectorSignals(id, c)
    \/ \E id \in SignalIds, s \in Statuses : UpdateSignalStatus(id, s)
    \/ \E id \in SignalIds : ExecuteSignalTask(id)

EngineSpec == EngineInit /\ [][EngineNext]_engineVars

-----------------------------------------------------------------------------
EngineTypeOK ==
    /\ engineRunning \in BOOLEAN
    /\ signals \in [SignalIds -> [status : SignalStatus \cup {"none"}, entered : BOOLEAN,
                                  exited : BOOLEAN]]
    /\ Len(history) <= MaxHistory /\ ToSet(history) \subseteq SignalIds
    /\ generated \in Nat
    /\ blocked \in 0..MaxBlocked
    /\ tasks \in [SignalIds -> Nat]
    /\ executed \in [SignalIds -> Nat]

(***************************************************************************)
(* The dictionary and the bounded history tell of the same signals: every  *)
(* generated signal is stored under an id of its own and is never lost;    *)
(* the history holds as many of them as fit, none of them twice.           *)
(***************************************************************************)
IndexAndHistoryAgree ==
    /\ generated = Cardinality(Stored)
    /\ ToSet(history) \subseteq Stored
    /\ Cardinality(ToSet(history)) = Len(history)
    /\ Len(history) = IF generated < MaxHistory THEN generated ELSE MaxHistory

(***************************************************************************)
(* A signal goes to the execution engine exactly once, whether detectors   *)
(* repeat its id or clients make it active again: its task is waiting or   *)
(* was begun, and a signal that was never stored has none.                 *)
(***************************************************************************)
ExecutedOnce ==
    \A id \in SignalIds : tasks[id] + executed[id] = IF id \in Stored THEN 1 ELSE 0

(***************************************************************************)
(* What holds of the engine and its signals at any time: the parts above.  *)
(***************************************************************************)
StrategyInvariant == EngineTypeOK /\ IndexAndHistoryAgree /\ ExecutedOnce
=============================================================================
