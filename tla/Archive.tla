------------------------------ MODULE Archive ------------------------------
(***************************************************************************)
(* deploy/kdp-archive.sh and deploy/kdp-checkpoint.sh.  An archive process *)
(* of a session is spawned by its unit ("explicit") or started by the      *)
(* nightly timer ("sweep"); it turns the raw records into Parquet, uploads *)
(* Parquet and a tar of the raw records, verifies both, and only then      *)
(* takes the checkpoint lock, purges the in-flight copies, writes          *)
(* .archived and deletes the raw records.  KDP_BACKUP_RAW and KDP_PRUNE    *)
(* are 1.  Any step may fail; a process may be killed between any two.     *)
(* At its end the nightly run removes what is older than KDP_HOT_DAYS: the *)
(* local Parquet files, and the stubs of archived sessions.                *)
(***************************************************************************)
EXTENDS Unit

CONSTANT SweepAlone   \* a session's sweep and its unit's archive do not overlap
ASSUME ArchiveAssumption == SweepAlone \in BOOLEAN

VARIABLES
    processed,  \* sessions with manifests under KDP_PROC_DIR
    remote,     \* records in <remote>/raw/<session>.tar.gz
    copies      \* records in <remote>/raw-inflight

Kinds == {"explicit", "sweep"}
NoArchive == NewArchive("none")
Archiving(s, k) == arch[s][k].pc # "none"
UnitArchives(s) == Archiving(s, "explicit") \/ unit[s].pc = "spawn"

supervisorVars == <<worldVars, shutdown, unit>>
Ends(s, k) == arch' = [arch EXCEPT ![s][k] = NoArchive]
Goes(s, k, pc) == arch' = [arch EXCEPT ![s][k].pc = pc]

\* archive_one begins: an archived session is skipped.
ExplicitGuard(s) ==
    /\ arch[s]["explicit"].pc = "guard"
    /\ IF s \in archived THEN Ends(s, "explicit") ELSE Goes(s, "explicit", "process")
    /\ UNCHANGED <<supervisorVars, done, archived, dirVars, lock, ckpts, processed, remote, copies>>

\* The nightly sweep comes to a session: .done, not .archived, no recent write.
Sweep(s) ==
    /\ \A t \in Sessions : ~Archiving(t, "sweep")
    /\ ~(SweepAlone /\ UnitArchives(s))
    /\ s \in done /\ s \notin archived /\ s \notin recent
    /\ Goes(s, "sweep", "process")
    /\ UNCHANGED <<supervisorVars, done, archived, dirVars, lock, ckpts, processed, remote, copies>>

\* kdp-process: it may fail; with no ticker processed, now or before, there is
\* nothing to archive.  A ticker may come out incomplete.
Process(s, k) ==
    /\ arch[s][k].pc = "process"
    /\ processed' = IF raw[s] # {} THEN processed \cup {s} ELSE processed
    /\ \/ Ends(s, k)
       \/ /\ s \in processed'
          /\ \E c \in BOOLEAN :
                arch' = [arch EXCEPT ![s][k].pc = "upload", ![s][k].complete = c]
    /\ UNCHANGED <<supervisorVars, done, archived, dirVars, lock, ckpts, remote, copies>>

\* rclone copy and check of the Parquet files, then the tar of the directory.
Upload(s, k) ==
    /\ arch[s][k].pc = "upload"
    /\ Ends(s, k) \/ arch' = [arch EXCEPT ![s][k].pc = "copy", ![s][k].tar = raw[s]]
    /\ UNCHANGED <<supervisorVars, done, archived, dirVars, lock, ckpts, processed, remote, copies>>

\* Plausible bug: the raw backup is not verified.
CopyTarUnverified(s, k) ==
    /\ arch[s][k].pc = "copy"
    /\ remote' = remote \/ remote' = [remote EXCEPT ![s] = arch[s][k].tar]
    /\ Goes(s, k, "lock")
    /\ UNCHANGED <<supervisorVars, done, archived, dirVars, lock, ckpts, processed, copies>>

\* rclone copyto replaces the remote tar; md5sum compares it with the local one.
CopyTar(s, k) ==
    /\ arch[s][k].pc = "copy"
    /\ \/ remote' = remote /\ Ends(s, k)
       \/ /\ remote' = [remote EXCEPT ![s] = arch[s][k].tar]
          /\ Goes(s, k, "lock") \/ Ends(s, k)
    /\ UNCHANGED <<supervisorVars, done, archived, dirVars, lock, ckpts, processed, copies>>

\* Plausible bug: the destructive steps do not take the lock.
TakeNoLock(s, k) ==
    /\ arch[s][k].pc = "lock"
    /\ arch' = [arch EXCEPT ![s][k].pc = "purge", ![s][k].locked = TRUE]
    /\ UNCHANGED <<supervisorVars, done, archived, dirVars, lock, ckpts, processed, remote, copies>>

\* flock -w: the lock, or after KDP_LOCK_WAIT without it nothing is deleted.
TakeLock(s, k) ==
    /\ arch[s][k].pc = "lock"
    /\ IF lock[s] = "free"
       THEN /\ lock' = [lock EXCEPT ![s] = k]
            /\ arch' = [arch EXCEPT ![s][k].pc = "purge", ![s][k].locked = TRUE]
       ELSE lock' = lock /\ Goes(s, k, "purge")
    /\ UNCHANGED <<supervisorVars, done, archived, dirVars, ckpts, processed, remote, copies>>

\* Plausible bug: the purge goes on without the lock, too.
PurgeAnyway(s, k) ==
    /\ arch[s][k].pc = "purge"
    /\ copies' = [copies EXCEPT ![s] = {}]
    /\ Goes(s, k, "archived")
    /\ UNCHANGED <<supervisorVars, done, archived, dirVars, lock, ckpts, processed, remote>>

Purge(s, k) ==
    /\ arch[s][k].pc = "purge"
    /\ copies' = IF arch[s][k].locked THEN [copies EXCEPT ![s] = {}] ELSE copies
    /\ Goes(s, k, "archived")
    /\ UNCHANGED <<supervisorVars, done, archived, dirVars, lock, ckpts, processed, remote>>

MarkArchived(s, k) ==
    /\ arch[s][k].pc = "archived"
    /\ archived' = archived \cup {s}
    /\ aged' = IF s \in archived THEN aged ELSE aged \ {s}
    /\ Goes(s, k, "prune")
    /\ UNCHANGED <<supervisorVars, done, raw, written, recent, orphan, reaped, lock, ckpts,
                   processed, remote, copies>>

\* The ticker directories go, the markers stay; a live writer keeps its files
\* open.  The lock is released.
Prune(s, k) ==
    /\ arch[s][k].pc = "prune"
    /\ IF arch[s][k].locked /\ arch[s][k].complete
       THEN /\ raw' = [raw EXCEPT ![s] = {}]
            /\ orphan' = IF Capturing(s) THEN orphan \cup {s} ELSE orphan
            /\ aged' = IF raw[s] = {} THEN aged ELSE aged \ {s}
       ELSE UNCHANGED <<raw, orphan, aged>>
    /\ lock' = IF arch[s][k].locked THEN [lock EXCEPT ![s] = "free"] ELSE lock
    /\ Ends(s, k)
    /\ UNCHANGED <<supervisorVars, done, archived, written, recent, reaped, ckpts, processed,
                   remote, copies>>

\* The checkpoint's rclone copy, additive; it succeeds or it only alerts.
CheckpointCopies(s) ==
    /\ lock[s] = "checkpoint"
    /\ lock' = [lock EXCEPT ![s] = "free"]
    /\ copies' = copies \/ copies' = [copies EXCEPT ![s] = @ \cup raw[s]]
    /\ UNCHANGED <<supervisorVars, done, archived, dirVars, arch, ckpts, processed, remote>>

\* The end of the nightly run: aged Parquet files are expired.  They are newer
\* than the session's directory.
ExpireHot(s) ==
    /\ \A t \in Sessions : ~Archiving(t, "sweep")
    /\ s \in processed \cap aged
    /\ processed' = processed \ {s}
    /\ UNCHANGED <<supervisorVars, done, archived, dirVars, archVars, remote, copies>>

\* The aged directory of an archived session that holds no ticker directory is
\* removed, with its markers.  (No unit takes KDP_HOT_DAYS to archive.)
ReapStub(s) ==
    /\ \A t \in Sessions : ~Archiving(t, "sweep")
    /\ s \in archived \cap aged /\ raw[s] = {} /\ ~UnitArchives(s)
    /\ done' = done \ {s} /\ archived' = archived \ {s} /\ aged' = aged \ {s}
    /\ reaped' = reaped \cup {s}
    /\ UNCHANGED <<supervisorVars, raw, written, recent, orphan, archVars, processed, remote, copies>>

ArchiveStep(s) ==
    \/ ExplicitGuard(s) \/ Sweep(s) \/ CheckpointCopies(s) \/ ExpireHot(s) \/ ReapStub(s)
    \/ \E k \in Kinds :
          \/ Process(s, k) \/ Upload(s, k) \/ CopyTar(s, k) \/ TakeLock(s, k)
          \/ Purge(s, k) \/ MarkArchived(s, k) \/ Prune(s, k)

\* systemd kills what the supervisor spawned, together with it; flock's locks
\* go with their holders.
KillChildren ==
    /\ arch' = [s \in Sessions |-> [arch[s] EXCEPT !["explicit"] = NoArchive]]
    /\ lock' = [s \in Sessions |->
                    IF lock[s] \in {"explicit", "checkpoint"} THEN "free" ELSE lock[s]]
    /\ UNCHANGED ckpts
=============================================================================
