----------------------------- MODULE AuditTrail -----------------------------
(***************************************************************************)
(* AuditLogger (src/core/audit_logger.py): each entry carries the hash of  *)
(* the one this logger wrote before, which it remembers in memory only.    *)
(* Several processes write one table, each with a logger of its own, and a *)
(* logger of a new process remembers nothing.  verify_chain reads the      *)
(* table by timestamp, all of it or from a given row on.  A hash is a      *)
(* number nothing else has; clocks agree and do not go back, so the table  *)
(* is in the order of writing.                                             *)
(***************************************************************************)
EXTENDS Naturals, Sequences, SequencesExt

CONSTANTS
    Loggers,
    MaxEntries,     \* bound: entries written
    MaxRuns,        \* bound: lives of a logger
    MaxDeleted      \* bound: rows taken out by hand

ASSUME AuditAssumption == MaxEntries \in Nat /\ MaxRuns \in Nat \ {0}

VARIABLES
    trail,          \* the table audit_log, by timestamp
    lastHash,       \* _last_hash of each logger; NoHash is None
    entries,        \* history: the entries written ...
    life,           \* history: the life each logger is in ...
    nth,            \* history: and how many entries it has written in it
    deleted         \* history: the rows taken out

auditVars == <<trail, lastHash, entries, life, nth, deleted>>

NoHash == 0
Rows == [hash : 1 .. MaxEntries, prev : 0 .. MaxEntries,
         by : Loggers, life : 1 .. MaxRuns, nth : 1 .. MaxEntries]

AuditInit ==
    /\ trail = <<>>
    /\ lastHash = [l \in Loggers |-> NoHash]
    /\ entries = 0
    /\ life = [l \in Loggers |-> 1]
    /\ nth = [l \in Loggers |-> 0]
    /\ deleted = <<>>
-----------------------------------------------------------------------------
(* The row of a new entry.                                                 *)
NewRow(l) == [hash |-> entries + 1, prev |-> lastHash[l],
              by |-> l, life |-> life[l], nth |-> nth[l] + 1]

(* log: the row is committed, then its hash is remembered.                 *)
LogEntry(l) ==
    /\ entries < MaxEntries
    /\ trail' = Append(trail, NewRow(l))
    /\ lastHash' = [lastHash EXCEPT ![l] = entries + 1]
    /\ entries' = entries + 1
    /\ nth' = [nth EXCEPT ![l] = @ + 1]
    /\ UNCHANGED <<life, deleted>>

(* The commit fails: rolled back and raised before the hash is remembered. *)
(* The mutant remembers it first.                                          *)
AfterFailureNew(l) == [lastHash EXCEPT ![l] = entries + 1]
AfterFailure(l) == lastHash

LogFails(l) ==
    /\ entries < MaxEntries
    /\ lastHash' = AfterFailure(l)
    /\ entries' = entries + 1
    /\ UNCHANGED <<trail, life, nth, deleted>>

(* A new process, a new logger.                                            *)
RestartLogger(l) ==
    /\ life[l] < MaxRuns
    /\ life' = [life EXCEPT ![l] = @ + 1]
    /\ nth' = [nth EXCEPT ![l] = 0]
    /\ lastHash' = [lastHash EXCEPT ![l] = NoHash]
    /\ UNCHANGED <<trail, entries, deleted>>

(* Somebody deletes a row from the table.                                  *)
DeleteRow ==
    /\ Len(deleted) < MaxDeleted
    /\ \E i \in DOMAIN trail : /\ trail' = RemoveAt(trail, i)
                               /\ deleted' = Append(deleted, trail[i])
    /\ UNCHANGED <<lastHash, entries, life, nth>>

(* The hash verify_chain expects before the i-th row of the table when it  *)
(* begins at the row first: none before that one, wherever it is.          *)
ExpectedHash(first, i) == IF i = first THEN NoHash ELSE trail[i - 1].hash

(* The rows at which it reports a mismatch of links.                       *)
LinkErrors(first) == {i \in first .. Len(trail) : trail[i].prev # ExpectedHash(first, i)}

(* verify_chain changes nothing.                                           *)
VerifyChain == UNCHANGED auditVars

AuditNext ==
    \/ VerifyChain
    \/ \E l \in Loggers : LogEntry(l) \/ LogFails(l) \/ RestartLogger(l)
    \/ DeleteRow

AuditSpec == AuditInit /\ [][AuditNext]_auditVars
-----------------------------------------------------------------------------
(* Types; an entry's hash is its own.                                      *)
AuditTypeOK ==
    /\ \A i \in DOMAIN trail : trail[i] \in Rows
    /\ \A i, j \in DOMAIN trail : i < j => trail[i].hash < trail[j].hash
    /\ lastHash \in [Loggers -> 0 .. MaxEntries]
    /\ entries \in 0 .. MaxEntries
    /\ life \in [Loggers -> 1 .. MaxRuns] /\ nth \in [Loggers -> 0 .. MaxEntries]

Continues(s, r) == r.by = s.by /\ r.life = s.life /\ r.nth = s.nth + 1

(* What one logger writes in one life links up, whatever writes of its own *)
(* failed in between (audit_logger.py:186-193): a mismatch is reported     *)
(* only where a life begins, where another logger's row came between,      *)
(* where a row is gone, or where the verification itself began.            *)
MismatchesHaveCause ==
    \A first \in DOMAIN trail : \A i \in LinkErrors(first) :
        \/ i > first /\ ~ Continues(trail[i - 1], trail[i])
        \/ i = first /\ trail[i].nth > 1

(* A row cannot be taken out from before a later one of the same life      *)
(* without a mismatch there, in every verification that reads that one.    *)
(* (A whole life from the front, or the table's end, can.)                 *)
DeletionsAreSeen ==
    \A d \in ToSet(deleted) : \A i \in DOMAIN trail :
        Continues(d, trail[i]) => \A first \in 1 .. i : i \in LinkErrors(first)

(* What holds of the trail at any time: the parts above.                   *)
AuditInvariant == AuditTypeOK /\ MismatchesHaveCause /\ DeletionsAreSeen
=============================================================================
