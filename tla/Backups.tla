------------------------------- MODULE Backups ------------------------------
(***************************************************************************)
(* BackupManager (src/core/data_retention.py): files named by the second   *)
(* they were begun in.  create_backup reads pg_dump's pipe without an      *)
(* await, so nothing of its own process runs in between; the process can   *)
(* die there and leave what was written so far, under a name that counts   *)
(* as a backup.                                                            *)
(***************************************************************************)
EXTENDS Naturals, FiniteSets

CONSTANTS
    MaxSeconds,     \* bound: seconds in which a backup is begun
    KeepCounts      \* keep_count of a cleanup

ASSUME BackupAssumption == MaxSeconds \in Nat \ {0} /\ KeepCounts \subseteq Nat \ {0}

VARIABLES
    backups,        \* the files of the directory; a later name is a later ctime
    second,         \* the clock, at the names' resolution
    lastGood,       \* history: the second of the last success; 0: none yet
    spoilt          \* history: since then a process died in a dump, or a dump
                    \* of the same second failed

backupVars == <<backups, second, lastGood, spoilt>>

Files == [name : 1 .. MaxSeconds, whole : BOOLEAN]

BackupInit == backups = {} /\ second = 1 /\ lastGood = 0 /\ spoilt = FALSE
-----------------------------------------------------------------------------
(* What else is in the directory when the file of this second is opened    *)
(* for writing, or unlinked.                                               *)
Others == {f \in backups : f.name # second}

CreateSucceeds ==
    /\ backups' = Others \cup {[name |-> second, whole |-> TRUE]}
    /\ lastGood' = second
    /\ spoilt' = FALSE
    /\ UNCHANGED second

(* pg_dump fails, at once or midway: the file is unlinked, also one that   *)
(* was there before.                                                       *)
CreateFails ==
    /\ backups' = Others
    /\ spoilt' = (spoilt \/ lastGood = second)
    /\ UNCHANGED <<second, lastGood>>

(* The process dies in the dump.                                           *)
DiesInDump ==
    /\ backups' = Others \cup {[name |-> second, whole |-> FALSE]}
    /\ spoilt' = (lastGood # 0)
    /\ UNCHANGED <<second, lastGood>>

(* restore_backup and list_backups change no file.                         *)
Restore == backups # {} /\ UNCHANGED backupVars

SecondPasses ==
    /\ second < MaxSeconds
    /\ second' = second + 1
    /\ UNCHANGED <<backups, lastGood, spoilt>>

(* list_backups, newest first: the files it lists before one.  The mutant  *)
(* lists the oldest first.                                                 *)
ListedBeforeOldest(f) == {g \in backups : g.name < f.name}
ListedBefore(f) == {g \in backups : g.name > f.name}

(* cleanup_old_backups: all but the first keep are unlinked, those that    *)
(* can be.                                                                 *)
CleanupOldBackups(keep) ==
    /\ \E stuck \in SUBSET backups :
          backups' = {f \in backups : Cardinality(ListedBefore(f)) < keep} \cup stuck
    /\ UNCHANGED <<second, lastGood, spoilt>>

BackupNext ==
    \/ CreateSucceeds \/ CreateFails \/ DiesInDump \/ Restore \/ SecondPasses
    \/ \E keep \in KeepCounts : CleanupOldBackups(keep)

BackupSpec == BackupInit /\ [][BackupNext]_backupVars
-----------------------------------------------------------------------------
(* Types; no two files have one name.                                      *)
BackupTypeOK ==
    /\ backups \subseteq Files
    /\ \A f, g \in backups : f.name = g.name => f = g
    /\ second \in 1 .. MaxSeconds /\ lastGood \in 0 .. MaxSeconds
    /\ spoilt \in BOOLEAN

(* The last backup reported as a success is there, whole, whatever is      *)
(* cleaned up and whichever later dump fails, unless a process died in a   *)
(* later dump - its remains are kept in place of the backup                *)
(* (data_retention.py:663) - or a dump of the same second failed           *)
(* (data_retention.py:552).                                                *)
LatestBackupRemains ==
    lastGood # 0 /\ ~ spoilt => [name |-> lastGood, whole |-> TRUE] \in backups

(* What holds of the directory at any time: the parts above.               *)
BackupInvariant == BackupTypeOK /\ LatestBackupRemains
=============================================================================
