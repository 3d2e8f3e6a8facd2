--------------------------------- MODULE Backup ---------------------------------
(***************************************************************************)
(* backup.sh with retain.py: one-shot backups of the database and the      *)
(* media volume into one directory, each followed by a rotation that keeps *)
(* the newest files of each kind.  A backup may stop at any point; two may *)
(* overlap (cron and "make backup").  The Redis dump, off by default, and  *)
(* the dry run, which writes nothing, are left out.                        *)
(***************************************************************************)
EXTENDS Integers, FiniteSetsExt

CONSTANTS
  Jobs,         \* backups at a time
  Keeps,        \* values of BACKUP_KEEP_N
  MaxStarts     \* bound: backups started

ASSUME BackupAssumption == Keeps \subseteq Nat \ {0} /\ MaxStarts \in Nat

Kinds == {"db", "media"}

\* A timestamp is the number of its backup: no two start in the same second.
Stamps == 1..MaxStarts

VARIABLES
  file,       \* the files in the directory, by kind and timestamp
  job,        \* the running backups
  starts,     \* backups started so far
  complete,   \* history: the newest backup that wrote both its files, 0 if none did
  unruly      \* history: two backups overlapped, or retain.py failed

backupVars == <<file, job, starts, complete, unruly>>

\* kind: what the job writes or rotates; old: the files it is deleting.
IdleJob == [step |-> "idle", kind |-> "db", ts |-> 0, keep |-> 0, old |-> {}]
Running(j) == job[j].step # "idle"

BackupTypeOK ==
  /\ file \in [Kinds -> [Stamps -> {"none", "partial", "whole"}]]
  /\ job \in [Jobs -> [step : {"idle", "write", "list", "delete"}, kind : Kinds,
                       ts : 0..MaxStarts, keep : Keeps \cup {0}, old : SUBSET Stamps]]
  /\ starts \in 0..MaxStarts /\ complete \in 0..starts /\ unruly \in BOOLEAN

BackupInit ==
  /\ file = [kind \in Kinds |-> [ts \in Stamps |-> "none"]]
  /\ job = [j \in Jobs |-> IdleJob]
  /\ starts = 0 /\ complete = 0 /\ unruly = FALSE

StartBackup(j, keep) ==
  /\ ~Running(j)
  /\ starts < MaxStarts
  /\ starts' = starts + 1
  /\ file' = [file EXCEPT !["db"][starts'] = "partial"]
  /\ job' = [job EXCEPT ![j] = [IdleJob EXCEPT !.step = "write", !.ts = starts', !.keep = keep]]
  /\ unruly' = (unruly \/ \E other \in Jobs : Running(other))
  /\ UNCHANGED complete

\* pg_dump is done: tar starts.
WriteDump(j) ==
  LET ts == job[j].ts IN
  /\ job[j].step = "write" /\ job[j].kind = "db"
  /\ file' = [file EXCEPT !["db"][ts] = "whole", !["media"][ts] = "partial"]
  /\ job' = [job EXCEPT ![j].kind = "media"]
  /\ UNCHANGED <<starts, complete, unruly>>

\* tar is done: the rotation starts.
WriteMedia(j) ==
  LET ts == job[j].ts IN
  /\ job[j].step = "write" /\ job[j].kind = "media"
  /\ file' = [file EXCEPT !["media"][ts] = "whole"]
  /\ complete' = IF \A kind \in Kinds : file'[kind][ts] = "whole" THEN Max({complete, ts})
                 ELSE complete
  /\ job' = [job EXCEPT ![j].step = "list", ![j].kind = "db"]
  /\ UNCHANGED <<starts, unruly>>

\* select_retention: the newest n, partial or not (the shell's own sort does the same).
Retained(stamps, n) == {ts \in stamps : Cardinality({newer \in stamps : newer > ts}) < n}

\* The glob is expanded once; what retain.py does not list is deleted, so if it fails
\* everything is.
ListOld(j) ==
  LET stamps == {ts \in Stamps : file[job[j].kind][ts] # "none"} IN
  /\ job[j].step = "list"
  /\ \/ /\ job' = [job EXCEPT ![j].step = "delete",
                              ![j].old = stamps \ Retained(stamps, job[j].keep)]
        /\ UNCHANGED unruly
     \/ /\ job' = [job EXCEPT ![j].step = "delete", ![j].old = stamps]
        /\ unruly' = TRUE
  /\ UNCHANGED <<file, starts, complete>>

DeleteOld(j, ts) ==
  /\ job[j].step = "delete" /\ ts \in job[j].old
  /\ file' = [file EXCEPT ![job[j].kind][ts] = "none"]
  /\ job' = [job EXCEPT ![j].old = @ \ {ts}]
  /\ UNCHANGED <<starts, complete, unruly>>

\* The database's files first, then the media's.
Rotated(j) ==
  /\ job[j].step = "delete" /\ job[j].old = {}
  /\ job' = [job EXCEPT ![j] = IF job[j].kind = "db" THEN [@ EXCEPT !.step = "list", !.kind = "media"]
                               ELSE IdleJob]
  /\ UNCHANGED <<file, starts, complete, unruly>>

\* mutant: the script goes on after a tar that failed
GoOn(j) ==
  /\ Running(j)
  /\ job' = [job EXCEPT ![j] =
       IF job[j].step = "write" /\ job[j].kind = "media"
       THEN [@ EXCEPT !.step = "list", !.kind = "db"] ELSE IdleJob]
  /\ UNCHANGED <<file, starts, complete, unruly>>

\* A command fails (set -e), or the container is killed: the files stay as they are.
StopBackup(j) ==
  /\ Running(j)
  /\ job' = [job EXCEPT ![j] = IdleJob]
  /\ UNCHANGED <<file, starts, complete, unruly>>

BackupNext ==
  \E j \in Jobs :
    \/ \E keep \in Keeps : StartBackup(j, keep)
    \/ WriteDump(j) \/ WriteMedia(j) \/ ListOld(j)
    \/ \E ts \in Stamps : DeleteOld(j, ts)
    \/ Rotated(j) \/ StopBackup(j)

BackupSpec == BackupInit /\ [][BackupNext]_backupVars

\* A dump and the media archive of one backup, complete, at least as new as the newest
\* backup that ever completed, are in the directory - wherever later backups and their
\* rotations stopped - unless backups overlapped or retain.py failed.
NewestBackupKept ==
  ~unruly /\ complete # 0 =>
    \E ts \in complete..MaxStarts : \A kind \in Kinds : file[kind][ts] = "whole"
=============================================================================
