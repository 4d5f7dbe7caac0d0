-------------------------- MODULE FakeSpikeFilter ---------------------------
(***************************************************************************)
(* The FakeSpikeFilter (strategy/detectors/fake_spike_filter.py): price    *)
(* spikes on one feed that no other feed confirms block their symbol.      *)
(*                                                                         *)
(* A timestamp is the time left until it has expired; the code never       *)
(* tells two expired ones apart.  A block that has expired is no block:    *)
(* is_blocked deletes it before anything could read it.                    *)
(***************************************************************************)
EXTENDS Naturals, Sequences, FiniteSets, SequencesExt

CONSTANTS Feeds, Symbols, Prices,
          Window,         \* ticks a spike needs and a confirmation looks back: 5
          SpikePct,       \* spike_threshold_pct
          RequiredFeeds,  \* confirmation_feeds_required
          MaxPending,     \* maxlen of _pending_confirmations: 100
          Timeout,        \* confirmation_timeout_ms, in steps of the clock
          BlockTime       \* the 5 seconds of is_blocked, in steps of the clock

ASSUME FilterAssumption ==
    /\ IsFiniteSet(Feeds)
    /\ Prices \subseteq Nat \ {0}
    /\ Window \in Nat \ {0, 1}
    /\ SpikePct \in Nat \ {0}
    /\ RequiredFeeds \in Nat \ {0}
    /\ MaxPending \in Nat \ {0}
    /\ Timeout \in Nat \ {0}
    /\ BlockTime \in Nat \ {0}

VARIABLES
    history,    \* _price_history: the last Window prices of a symbol on a feed
    pending,    \* _pending_confirmations
    blockLeft   \* _blocked_symbols: how long each symbol stays blocked

filterVars == <<history, pending, blockLeft>>

FilterInit ==
    /\ history = [s \in Symbols |-> [f \in Feeds |-> <<>>]]
    /\ pending = <<>>
    /\ blockLeft = [s \in Symbols |-> 0]

Apart(p, q) == IF p > q THEN p - q ELSE q - p

Latest(h) == IF Len(h) > Window THEN Tail(h) ELSE h

\* The price moves from the last one by the threshold.
IsSpike(h, p) ==
    /\ Len(h) + 1 >= Window
    /\ 100 * Apart(p, Last(h)) >= SpikePct * Last(h)

\* Over its own window, which may be long past, another feed has moved at
\* least half as far and not the other way.
Confirms(h, prev, p) ==
    /\ Len(h) >= 2
    /\ IF p > prev THEN Last(h) >= Head(h) ELSE Last(h) <= Head(h)
    /\ 2 * Apart(Last(h), Head(h)) * prev >= Apart(p, prev) * Head(h)

IsFake(f, s, p) ==
    LET h == history[s][f] IN
    /\ IsSpike(h, p)
    /\ Cardinality({g \in Feeds \ {f} : Confirms(history[s][g], Last(h), p)}) < RequiredFeeds

StorePrice(f, s, p) == history' = [history EXCEPT ![s][f] = Latest(Append(@, p))]

-----------------------------------------------------------------------------

\* A spike that is not confirmed by what the other feeds have shown so far is
\* fake at once; what they show until its timeout is no longer asked.
FakeSpike(f, s, p) ==
    /\ IsFake(f, s, p)
    /\ StorePrice(f, s, p)
    /\ pending' = Append(IF Len(pending) = MaxPending THEN Tail(pending) ELSE pending,
                         [symbol |-> s, left |-> Timeout])
    /\ blockLeft' = [blockLeft EXCEPT ![s] = BlockTime]

ExpiredSymbols == {pending[i].symbol : i \in {j \in DOMAIN pending : pending[j].left = 0}}

\* Mutant of CleanupPending: one expired spike blocks every symbol.
CleanupPendingAll ==
    blockLeft' = [s \in Symbols |-> IF ExpiredSymbols # {} THEN BlockTime ELSE blockLeft[s]]

\* Mutant of CleanupPending: a block in force is renewed too.
CleanupPendingRenewed ==
    blockLeft' = [s \in Symbols |->
                     IF s \in ExpiredSymbols \/ blockLeft[s] > 0 THEN BlockTime ELSE blockLeft[s]]

\* _cleanup_pending marks the expired spikes as fake and leaves them where
\* they are.
CleanupPending ==
    blockLeft' = [s \in Symbols |-> IF s \in ExpiredSymbols THEN BlockTime ELSE blockLeft[s]]

OrdinaryTick(f, s, p) ==
    /\ ~IsFake(f, s, p)
    /\ StorePrice(f, s, p)
    /\ CleanupPending
    /\ UNCHANGED pending

FilterTick(f, s, p) == FakeSpike(f, s, p) \/ OrdinaryTick(f, s, p)

Less(n) == IF n > 0 THEN n - 1 ELSE 0

FilterTime ==
    /\ pending' = [i \in DOMAIN pending |-> [pending[i] EXCEPT !.left = Less(@)]]
    /\ blockLeft' = [s \in Symbols |-> Less(blockLeft[s])]
    /\ UNCHANGED history

IsBlocked(s) == blockLeft[s] > 0

FilterNext ==
    \/ \E f \in Feeds, s \in Symbols, p \in Prices : FilterTick(f, s, p)
    \/ FilterTime

FilterSpec == FilterInit /\ [][FilterNext]_filterVars

\* Time passes; no feed has to tick again.
FilterFairness == WF_filterVars(FilterTime)

-----------------------------------------------------------------------------
(* Properties *)

\* Type invariant: prices kept, pending spikes and the times left are within
\* the lengths of the code's deques and its timeouts.
FilterTypeOK ==
    /\ history \in [Symbols -> [Feeds -> Seq(Prices)]]
    /\ \A s \in Symbols, f \in Feeds : Len(history[s][f]) <= Window
    /\ pending \in Seq([symbol : Symbols, left : 0..Timeout])
    /\ Len(pending) <= MaxPending
    /\ blockLeft \in [Symbols -> 0..BlockTime]

\* A block starts or is renewed only by an unconfirmed spike of its own symbol
\* that is in the deque all symbols share: the one just seen, or one that a
\* tick of any symbol finds there (fake_spike_filter.py:217, :294).
BlocksHaveCause ==
    [][\A s \in Symbols :
          blockLeft'[s] > blockLeft[s] =>
              \E i \in DOMAIN pending' : pending'[i].symbol = s]_filterVars

\* A block lasts only as long as spikes of its symbol are in the deque: once
\* the last one has been pushed out, the block runs out.
OnlyPendingSpikesHold ==
    \A s \in Symbols :
        IsBlocked(s) ~> ~IsBlocked(s) \/ \E i \in DOMAIN pending : pending[i].symbol = s
=============================================================================
