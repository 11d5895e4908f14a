-------------------------- MODULE SuperviseProofs ---------------------------
(***************************************************************************)
(* Proofs about Supervise, for any sessions, markets, clock, bounds and    *)
(* faults, and for each of the three supervisors.                          *)
(***************************************************************************)
EXTENDS Supervise, FiniteSetTheorems, TLAPS

USE DEF worldVars, dirVars, archVars, supervisorVars, diskVars, scriptVars, world,
        hourVars, loopVars

\* The records of units and archives that the actions make.
LEMMA RecordTypes ==
    /\ NoUnit \in UnitType
    /\ [NoUnit EXCEPT !.pc = "mark"] \in UnitType
    /\ \A targets \in SUBSET Markets, d \in Int : ArmedUnit(targets, d) \in UnitType
    /\ NoArchive \in ArchiveType
    /\ NewArchive("guard") \in ArchiveType
    /\ NoArchive.tar = {} /\ NewArchive("guard").tar = {}
    /\ ~NoArchive.locked /\ ~NewArchive("guard").locked
    /\ NoArchive.pc = "none" /\ NewArchive("guard").pc = "guard"
BY DEF NoUnit, ArmedUnit, NoArchive, NewArchive, UnitType, ArchiveType

Archives == [Sessions -> [Kinds -> ArchiveType]]

\* The archives other than the one of kind k of session s are as they were.
OthersSame(s, k) ==
    \A t \in Sessions, j \in Kinds : t # s \/ j # k => arch'[t][j] = arch[t][j]

\* What it means to replace the archive of kind k of session s.
LEMMA ArchiveReplaced ==
    ASSUME arch \in Archives, NEW s \in Sessions, NEW k \in Kinds, NEW v \in ArchiveType,
           arch' = [arch EXCEPT ![s][k] = v]
    PROVE  arch' \in Archives /\ arch'[s][k] = v /\ OthersSame(s, k)
BY DEF Archives, OthersSame

LEMMA ArchiveEnds ==
    ASSUME arch \in Archives, NEW s \in Sessions, NEW k \in Kinds, Ends(s, k)
    PROVE  arch' \in Archives /\ arch'[s][k] = NoArchive /\ OthersSame(s, k)
BY ArchiveReplaced, RecordTypes DEF Ends

\* The archive goes on, and keeps what it holds.
LEMMA ArchiveGoes ==
    ASSUME arch \in Archives, NEW s \in Sessions, NEW k \in Kinds,
           NEW p \in {"process", "lock", "purge", "archived", "prune"}, Goes(s, k, p)
    PROVE  /\ arch' \in Archives /\ OthersSame(s, k)
           /\ arch'[s][k].pc = p
           /\ arch'[s][k].tar = arch[s][k].tar
           /\ arch'[s][k].locked = arch[s][k].locked
           /\ arch'[s][k].complete = arch[s][k].complete
<1> DEFINE v == [arch[s][k] EXCEPT !.pc = p]
<1>1. arch[s][k] \in ArchiveType
  BY DEF Archives
<1>2. v \in ArchiveType /\ v.pc = p /\ v.tar = arch[s][k].tar
      /\ v.locked = arch[s][k].locked /\ v.complete = arch[s][k].complete
  BY <1>1 DEF ArchiveType
<1>3. arch' = [arch EXCEPT ![s][k] = v]
  BY DEF Goes, Archives
<1> HIDE DEF v
<1> QED BY <1>2, <1>3, ArchiveReplaced, ZenonT(60)

\* What each step of an archive process does to its own record.
LEMMA ProcessStepped ==
    ASSUME arch \in Archives, NEW s \in Sessions, NEW k \in Kinds, Process(s, k)
    PROVE  /\ arch' \in Archives /\ OthersSame(s, k)
           /\ \/ arch'[s][k] = NoArchive
              \/ /\ arch'[s][k].pc = "upload" /\ arch'[s][k].tar = arch[s][k].tar
                 /\ arch'[s][k].locked = arch[s][k].locked
<1>0. arch[s][k] \in ArchiveType
  BY DEF Archives
<1>1. CASE Ends(s, k)
  BY <1>1, ArchiveEnds
<1>2. CASE \E c \in BOOLEAN : arch' = [arch EXCEPT ![s][k].pc = "upload", ![s][k].complete = c]
  <2>1. PICK c \in BOOLEAN :
           arch' = [arch EXCEPT ![s][k].pc = "upload", ![s][k].complete = c]
    BY <1>2
  <2> DEFINE v == [arch[s][k] EXCEPT !.pc = "upload", !.complete = c]
  <2>2. /\ v \in ArchiveType /\ v.tar = arch[s][k].tar /\ v.locked = arch[s][k].locked
        /\ v.pc = "upload"
    BY <1>0 DEF ArchiveType
  <2>3. arch' = [arch EXCEPT ![s][k] = v]
    BY <2>1 DEF Archives
  <2> HIDE DEF v
  <2> QED BY <2>2, <2>3, ArchiveReplaced, ZenonT(60)
<1> QED BY <1>1, <1>2 DEF Process

LEMMA UploadStepped ==
    ASSUME arch \in Archives, raw \in [Sessions -> SUBSET Nat],
           NEW s \in Sessions, NEW k \in Kinds, Upload(s, k)
    PROVE  /\ arch' \in Archives /\ OthersSame(s, k)
           /\ \/ arch'[s][k] = NoArchive
              \/ /\ arch'[s][k].pc = "copy" /\ arch'[s][k].tar = raw[s]
                 /\ arch'[s][k].locked = arch[s][k].locked
<1>0. arch[s][k] \in ArchiveType
  BY DEF Archives
<1>1. CASE Ends(s, k)
  BY <1>1, ArchiveEnds
<1>2. CASE arch' = [arch EXCEPT ![s][k].pc = "copy", ![s][k].tar = raw[s]]
  <2> DEFINE v == [arch[s][k] EXCEPT !.pc = "copy", !.tar = raw[s]]
  <2>1. /\ v \in ArchiveType /\ v.tar = raw[s] /\ v.locked = arch[s][k].locked
        /\ v.pc = "copy"
    BY <1>0 DEF ArchiveType
  <2>2. arch' = [arch EXCEPT ![s][k] = v]
    BY <1>2 DEF Archives
  <2> HIDE DEF v
  <2> QED BY <2>1, <2>2, ArchiveReplaced, ZenonT(60)
<1> QED BY <1>1, <1>2 DEF Upload

LEMMA TakeLockStepped ==
    ASSUME arch \in Archives, NEW s \in Sessions, NEW k \in Kinds, TakeLock(s, k)
    PROVE  /\ arch' \in Archives /\ OthersSame(s, k)
           /\ arch'[s][k].pc = "purge" /\ arch'[s][k].tar = arch[s][k].tar
           /\ arch'[s][k].locked => arch[s][k].locked \/ lock[s] = "free"
<1>0. arch[s][k] \in ArchiveType
  BY DEF Archives
<1>1. CASE Goes(s, k, "purge")
  BY <1>1, ArchiveGoes
<1>2. CASE arch' = [arch EXCEPT ![s][k].pc = "purge", ![s][k].locked = TRUE] /\ lock[s] = "free"
  <2> DEFINE v == [arch[s][k] EXCEPT !.pc = "purge", !.locked = TRUE]
  <2>1. v \in ArchiveType /\ v.tar = arch[s][k].tar /\ v.pc = "purge"
    BY <1>0 DEF ArchiveType
  <2>2. arch' = [arch EXCEPT ![s][k] = v]
    BY <1>2 DEF Archives
  <2> HIDE DEF v
  <2>3. arch' \in Archives /\ OthersSame(s, k) /\ arch'[s][k] = v
    BY <2>1, <2>2, ArchiveReplaced
  <2> QED BY <1>2, <2>1, <2>3
<1> QED BY <1>1, <1>2 DEF TakeLock

\* The tar of an archive process is new, kept or dropped.
LEMMA ArchiveStepped ==
    ASSUME arch \in Archives, raw \in [Sessions -> SUBSET Nat],
           NEW s \in Sessions, NEW k \in Kinds,
           \/ Process(s, k) \/ Upload(s, k) \/ CopyTar(s, k) \/ TakeLock(s, k)
           \/ Purge(s, k) \/ MarkArchived(s, k) \/ Prune(s, k)
    PROVE  /\ arch' \in Archives /\ OthersSame(s, k)
           /\ arch'[s][k].tar \in {{}, arch[s][k].tar, raw[s]}
<1>1. CASE Process(s, k) \/ Upload(s, k) \/ TakeLock(s, k)
  BY <1>1, ProcessStepped, UploadStepped, TakeLockStepped, RecordTypes
<1>2. CASE Ends(s, k)
  BY <1>2, ArchiveEnds, RecordTypes
<1>3. CASE \E p \in {"lock", "archived", "prune"} : Goes(s, k, p)
  BY <1>3, ArchiveGoes
<1> QED BY <1>1, <1>2, <1>3 DEF CopyTar, Purge, MarkArchived, Prune

\* The units other than that of session s are as they were.
OtherUnitsSame(s) == \A t \in Sessions : t # s => unit'[t] = unit[t]

\* The watcher moves, and nothing else of its unit.
LEMMA UnitWatches ==
    ASSUME unit \in [Sessions -> UnitType], NEW s \in Sessions,
           NEW w \in {"top", "grace", "notified"},
           unit' = [unit EXCEPT ![s].watch = w]
    PROVE  /\ unit' \in [Sessions -> UnitType] /\ OtherUnitsSame(s)
           /\ unit'[s].watch = w
           /\ unit'[s].pc = unit[s].pc
           /\ unit'[s].targets = unit[s].targets
           /\ unit'[s].deadline = unit[s].deadline
BY DEF UnitType, OtherUnitsSame

\* The task goes on.
LEMMA UnitGoes ==
    ASSUME unit \in [Sessions -> UnitType], NEW s \in Sessions,
           NEW p \in {"spawn", "over"},
           unit' = [unit EXCEPT ![s].pc = p]
    PROVE  /\ unit' \in [Sessions -> UnitType] /\ OtherUnitsSame(s)
           /\ unit'[s].pc = p
BY DEF UnitType, OtherUnitsSame

\* What one step of the watcher does: nothing but to move itself.
LEMMA WatcherMoves ==
    ASSUME Types, NEW s \in Sessions,
           GraceOver(s) \/ Backstop(s) \/ \E a \in Answers(s) : Poll(s, a)
    PROVE  \E w \in {"top", "grace", "notified"} : unit' = [unit EXCEPT ![s].watch = w]
BY DEF GraceOver, Backstop, Poll

LEMMA UnitTypes ==
    ASSUME Types, NEW s \in Sessions, UnitStep(s),
           UNCHANGED <<processed, remote, copies, loopVars>>
    PROVE  Types'
<1>1. CASE Record(s)
  BY <1>1 DEF Record, Types
<1>2. CASE GraceOver(s) \/ Backstop(s) \/ \E a \in Answers(s) : Poll(s, a)
  <2>1. unit' \in [Sessions -> UnitType]
    BY <1>2, WatcherMoves, UnitWatches DEF Types
  <2> QED BY <1>2, <2>1 DEF GraceOver, Backstop, Poll, Types
<1>3. CASE StopCapture(s)
  BY <1>3, RecordTypes DEF StopCapture, Types
<1>4. CASE MarkDone(s)
  <2>1. unit' \in [Sessions -> UnitType]
    BY <1>4, UnitGoes DEF MarkDone, Types
  <2> QED BY <1>4, <2>1 DEF MarkDone, Types
<1>5. CASE SpawnArchive(s)
  <2>1. /\ arch' \in Archives /\ OthersSame(s, "explicit")
        /\ arch'[s]["explicit"].tar = {}
    BY <1>5, RecordTypes, ArchiveReplaced, ZenonT(60) DEF SpawnArchive, Types, Archives, Kinds
  <2>2. unit' \in [Sessions -> UnitType]
    BY <1>5, UnitGoes DEF SpawnArchive, Types
  <2>3. \A t \in Sessions, j \in Kinds : arch'[t][j].tar \subseteq 1 .. written[t]
    BY <2>1 DEF OthersSame, Types
  <2> QED BY <1>5, <2>1, <2>2, <2>3 DEF SpawnArchive, Types, Archives
<1> QED BY <1>1, <1>2, <1>3, <1>4, <1>5 DEF UnitStep

LEMMA ArchiveTypes ==
    ASSUME Types, NEW s \in Sessions, ArchiveStep(s), UNCHANGED loopVars
    PROVE  Types'
<1>0. arch \in Archives
  BY DEF Types, Archives
<1>1. ASSUME arch' \in Archives, NEW k \in Kinds, OthersSame(s, k),
             arch'[s][k].tar \subseteq 1 .. written[s], written' = written
      PROVE  \A t \in Sessions, j \in Kinds : arch'[t][j].tar \subseteq 1 .. written'[t]
  BY <1>1 DEF OthersSame, Types
<1>2. CASE ExplicitGuard(s)
  <2>1. /\ arch' \in Archives /\ OthersSame(s, "explicit")
        /\ arch'[s]["explicit"].tar \subseteq 1 .. written[s]
    BY <1>0, <1>2, ArchiveEnds, ArchiveGoes, RecordTypes DEF ExplicitGuard, Types, Kinds
  <2> QED BY <1>1, <1>2, <2>1 DEF ExplicitGuard, Types, Archives, Kinds
<1>3. CASE Sweep(s)
  <2>1. /\ arch' \in Archives /\ OthersSame(s, "sweep")
        /\ arch'[s]["sweep"].tar \subseteq 1 .. written[s]
    BY <1>0, <1>3, ArchiveGoes DEF Sweep, Types, Kinds
  <2> QED BY <1>1, <1>3, <2>1 DEF Sweep, Types, Archives, Kinds
<1>4. CASE CheckpointCopies(s)
  <2>1. lock' \in [Sessions -> {"free", "checkpoint"} \cup Kinds]
    BY <1>4 DEF CheckpointCopies, Types
  <2>2. /\ copies' \in [Sessions -> SUBSET Nat]
        /\ \A t \in Sessions : copies'[t] \subseteq copies[t] \cup raw[t]
    BY <1>4, ZenonT(60) DEF CheckpointCopies, Types
  <2> QED BY <1>4, <2>1, <2>2 DEF CheckpointCopies, Types
<1>5. ASSUME NEW k \in Kinds,
             \/ Process(s, k) \/ Upload(s, k) \/ CopyTar(s, k) \/ TakeLock(s, k)
             \/ Purge(s, k) \/ MarkArchived(s, k) \/ Prune(s, k)
      PROVE  Types'
  <2>1. /\ arch' \in Archives /\ OthersSame(s, k)
        /\ arch'[s][k].tar \subseteq 1 .. written[s]
    BY <1>0, <1>5, ArchiveStepped DEF Types
  <2>2. \A t \in Sessions, j \in Kinds : arch'[t][j].tar \subseteq 1 .. written[t]
    BY <1>1, <2>1 DEF OthersSame, Types
  <2>3. CASE Process(s, k) \/ Upload(s, k)
    BY <2>1, <2>2, <2>3 DEF Process, Upload, Types, Archives
  <2>4. CASE CopyTar(s, k)
    <3>1. arch[s][k].tar \in SUBSET Nat
      BY <1>0 DEF Archives, ArchiveType
    <3>2. remote' = remote \/ remote' = [remote EXCEPT ![s] = arch[s][k].tar]
      BY <2>4 DEF CopyTar
    <3>3. /\ remote' \in [Sessions -> SUBSET Nat]
          /\ \A t \in Sessions : remote'[t] \subseteq 1 .. written[t]
      BY <3>1, <3>2 DEF Types
    <3> QED BY <2>1, <2>2, <2>4, <3>3 DEF CopyTar, Types, Archives
  <2>5. CASE TakeLock(s, k)
    <3>1. lock' = lock \/ lock' = [lock EXCEPT ![s] = k]
      BY <2>5 DEF TakeLock
    <3>2. lock' \in [Sessions -> {"free", "checkpoint"} \cup Kinds]
      BY <3>1 DEF Types
    <3> QED BY <2>1, <2>2, <2>5, <3>2 DEF TakeLock, Types, Archives
  <2>6. CASE Purge(s, k) \/ MarkArchived(s, k)
    BY <2>1, <2>2, <2>6 DEF Purge, MarkArchived, Types, Archives
  <2>7. CASE Prune(s, k)
    BY <2>1, <2>2, <2>7, ZenonT(60) DEF Prune, Types, Archives
  <2> QED BY <1>5, <2>3, <2>4, <2>5, <2>6, <2>7
<1>6. CASE ExpireHot(s) \/ ReapStub(s)
  BY <1>6 DEF ExpireHot, ReapStub, Types
<1> QED BY <1>2, <1>3, <1>4, <1>5, <1>6 DEF ArchiveStep

\* Units are spawned, and the others go on.
LEMMA Spawned ==
    ASSUME unit \in [Sessions -> UnitType], NEW arms, NEW targets, NEW deadline \in Int,
           \A s \in arms \cap Sessions : targets[s] \subseteq Markets,
           Spawn(arms, targets, deadline)
    PROVE  /\ unit' \in [Sessions -> UnitType]
           /\ \A s \in Sessions : s \notin arms => unit'[s] = unit[s]
           /\ \A s \in Sessions \cap arms :
                 unit'[s].pc = "capture" /\ unit'[s].watch = "top"
<1>1. \A s \in arms \cap Sessions : ArmedUnit(targets[s], deadline) \in UnitType
  BY RecordTypes
<1>2. \A s \in arms \cap Sessions :
         /\ ArmedUnit(targets[s], deadline).pc = "capture"
         /\ ArmedUnit(targets[s], deadline).watch = "top"
  BY DEF ArmedUnit
<1> QED BY <1>1, <1>2 DEF Spawn

\* The process is gone: so are its units and the scripts it spawned, and the
\* sweep's archives go on.
LEMMA AllGone ==
    ASSUME Types, ProcessGone
    PROVE  /\ unit' \in [Sessions -> UnitType]
           /\ \A s \in Sessions : unit'[s] = NoUnit
           /\ arch' \in Archives
           /\ \A s \in Sessions : /\ arch'[s]["explicit"] = NoArchive
                                  /\ arch'[s]["sweep"] = arch[s]["sweep"]
           /\ lock' \in [Sessions -> {"free", "checkpoint"} \cup Kinds]
           /\ \A s \in Sessions :
                 lock'[s] = IF lock[s] \in {"explicit", "checkpoint"} THEN "free" ELSE lock[s]
           /\ \A s \in Sessions, k \in Kinds : arch'[s][k].tar \subseteq 1 .. written[s]
<1>1. \A s \in Sessions : arch[s] \in [Kinds -> ArchiveType]
  BY DEF Types
<1>2. \A s \in Sessions :
         /\ [arch[s] EXCEPT !["explicit"] = NoArchive] \in [Kinds -> ArchiveType]
         /\ [arch[s] EXCEPT !["explicit"] = NoArchive]["explicit"] = NoArchive
         /\ [arch[s] EXCEPT !["explicit"] = NoArchive]["sweep"] = arch[s]["sweep"]
  BY <1>1, RecordTypes DEF Kinds
<1>3. arch' = [s \in Sessions |-> [arch[s] EXCEPT !["explicit"] = NoArchive]]
  BY DEF ProcessGone, KillChildren
<1>4. /\ arch' \in Archives
      /\ \A s \in Sessions : /\ arch'[s]["explicit"] = NoArchive
                             /\ arch'[s]["sweep"] = arch[s]["sweep"]
  BY <1>2, <1>3 DEF Archives
<1>5. \A s \in Sessions, k \in Kinds : arch'[s][k].tar \subseteq 1 .. written[s]
  BY <1>4, RecordTypes DEF Kinds, Types
<1>6. unit' \in [Sessions -> UnitType] /\ \A s \in Sessions : unit'[s] = NoUnit
  BY RecordTypes DEF ProcessGone
<1>7. /\ lock' \in [Sessions -> {"free", "checkpoint"} \cup Kinds]
      /\ \A s \in Sessions :
            lock'[s] = IF lock[s] \in {"explicit", "checkpoint"} THEN "free" ELSE lock[s]
  BY DEF ProcessGone, KillChildren, Types
<1> QED BY <1>4, <1>5, <1>6, <1>7

LEMMA DrainTypes ==
    ASSUME Types, Draining, UNCHANGED <<pending, hourVars, until, mode, starts>>
    PROVE  Types'
<1>1. CASE Drain
  BY <1>1, AllGone DEF Drain, ProcessGone, KillChildren, Types, Archives
<1>2. ASSUME NEW s \in inflight, DrainTimeout(s) PROVE Types'
  BY <1>2 DEF DrainTimeout, Types
<1> QED BY <1>1, <1>2 DEF Draining

LEMMA StartsTypes == ASSUME Types, Starts PROVE Types'
<1>1. pending' \subseteq Sessions /\ starts' \in Nat \ {0} /\ pc' \in {"next", "top"}
  BY DEF Starts, PendingAt, ArmOrder, FirstPc, Types
<1>2. {} \subseteq Markets /\ 0 \in Nat /\ 0 \in Int
  OBVIOUS
<1> QED BY <1>1, <1>2, AllGone DEF Starts, ProcessGone, KillChildren, Types, Archives

LEMMA MarketsOf == \A s \in Sessions : TickersOf[s] \subseteq Markets
BY DEF Markets

\* What stays of the type invariant when a supervisor only spawns and reaps.
LEMMA LoopTypes ==
    ASSUME Types, UNCHANGED world, UNCHANGED <<overdue, until, mode, starts>>,
           unit' \in [Sessions -> UnitType], inflight' \subseteq Sessions,
           pending' \subseteq Sessions, boundary' \in Int, ladder' \subseteq Markets,
           prevCount' \in Nat,
           pc' \in {"top", "sweep", "next", "wait", "resolve", "park", "prearm",
                   "discover", "ladder", "past", "drain"}
    PROVE  Types'
BY DEF Types

LEMMA UniverseTypes ==
    ASSUME Types, UniverseStep, UNCHANGED <<pending, hourVars, until, mode, starts>>
    PROVE  Types'
<1>1. CASE UniverseTop /\ UNCHANGED overdue
  BY <1>1, LoopTypes DEF UniverseTop, Reaped, Types
<1>2. CASE Draining
  BY <1>2, DrainTypes
<1>3. ASSUME NEW found \in SUBSET Markets, UniverseArm(found), UNCHANGED overdue PROVE Types'
  <2> DEFINE groups == GroupByEvent(found)
             arms == PlanArms(groups)
  <2>1. UnitDeadline \in Int
    BY InflightAssumption DEF UnitDeadline, Types
  <2>2. arms \subseteq Sessions
    BY DEF PlanArms
  <2>3. \A s \in Sessions : groups[s] \subseteq Markets
    BY MarketsOf DEF GroupByEvent
  <2>4. Spawn(arms, groups, UnitDeadline) /\ inflight' = inflight \cup arms
    BY <1>3 DEF UniverseArm
  <2> HIDE DEF groups, arms
  <2>5. unit' \in [Sessions -> UnitType]
    BY <2>1, <2>3, <2>4, Spawned DEF Types
  <2> QED BY <1>3, <2>2, <2>4, <2>5, LoopTypes DEF UniverseArm, Types
<1> QED BY <1>1, <1>2, <1>3 DEF UniverseStep

LEMMA ScheduledTypes ==
    ASSUME Types, ScheduledStep, UNCHANGED <<hourVars, until, mode, starts>>
    PROVE  Types'
<1>1. CASE ScheduledNext /\ UNCHANGED overdue
  BY <1>1, LoopTypes DEF ScheduledNext, Types
<1>2. ASSUME NEW s \in pending, ScheduledWait(s) \/ ScheduledSkip(s), UNCHANGED overdue
      PROVE  Types'
  BY <1>2, LoopTypes DEF ScheduledWait, ScheduledSkip, Reaped, Types
<1>3. ASSUME NEW s \in pending, NEW found \in SUBSET TickersOf[s], ScheduledArm(s, found),
             UNCHANGED overdue
      PROVE  Types'
  <2>1. s \in Sessions /\ found \subseteq Markets
    BY MarketsOf DEF Types
  <2>2. clock + EntryOf[s].minutes \in Int
    BY <2>1, ScheduledAssumption DEF Types
  <2>3. CASE UNCHANGED <<unit, inflight>>
    BY <1>3, <2>3, LoopTypes DEF ScheduledArm, Types
  <2>4. CASE /\ inflight' = inflight \cup {s}
             /\ Spawn({s}, [t \in Sessions |-> found], clock + EntryOf[s].minutes)
    <3> DEFINE targets == [t \in Sessions |-> found]
    <3>1. \A t \in {s} \cap Sessions : targets[t] \subseteq Markets
      BY <2>1
    <3>2. Spawn({s}, targets, clock + EntryOf[s].minutes)
      BY <2>4
    <3> HIDE DEF targets
    <3>3. unit' \in [Sessions -> UnitType]
      BY <2>2, <3>1, <3>2, Spawned DEF Types
    <3> QED BY <1>3, <2>1, <2>4, <3>3, LoopTypes DEF ScheduledArm, Types
  <2> QED BY <1>3, <2>3, <2>4 DEF ScheduledArm
<1>4. CASE Park /\ UNCHANGED <<pending, overdue>>
  BY <1>4, LoopTypes DEF Park, Reaped, Types
<1>5. CASE Draining /\ UNCHANGED pending
  BY <1>5, DrainTypes
<1> QED BY <1>1, <1>2, <1>3, <1>4, <1>5 DEF ScheduledStep

\* The hour's unit, or none, is spawned.
LEMMA HourSpawned ==
    ASSUME Types, NEW tickers \in SUBSET Markets, ArmHour(tickers)
    PROVE  /\ unit' \in [Sessions -> UnitType] /\ inflight' \subseteq Sessions
           /\ \/ UNCHANGED <<unit, inflight>>
              \/ \E s \in OpeningAt(boundary) :
                    /\ OtherUnitsSame(s)
                    /\ unit'[s].pc = "capture" /\ unit'[s].watch = "top"
                    /\ inflight' = Reaped \cup {s}
<1>1. CASE UNCHANGED <<unit, inflight>>
  BY <1>1 DEF Types
<1>2. ASSUME NEW s \in OpeningAt(boundary),
             Spawn({s}, [t \in Sessions |-> tickers], clock + MaxMinutes),
             inflight' = Reaped \cup {s}
      PROVE  /\ unit' \in [Sessions -> UnitType] /\ inflight' \subseteq Sessions
             /\ OtherUnitsSame(s)
             /\ unit'[s].pc = "capture" /\ unit'[s].watch = "top"
  <2> DEFINE targets == [t \in Sessions |-> tickers]
  <2>1. s \in Sessions /\ clock + MaxMinutes \in Int
    BY InflightAssumption DEF OpeningAt, Types
  <2>2. \A t \in {s} \cap Sessions : targets[t] \subseteq Markets
    OBVIOUS
  <2>3. Spawn({s}, targets, clock + MaxMinutes)
    BY <1>2
  <2> HIDE DEF targets
  <2> QED BY <1>2, <2>1, <2>2, <2>3, Spawned DEF Reaped, OtherUnitsSame, Types
<1> QED BY <1>1, <1>2 DEF ArmHour

\* There are finitely many markets.
LEMMA MarketsFinite == IsFiniteSet(Markets)
<1> DEFINE T == {TickersOf[s] : s \in Sessions}
           f == [s \in Sessions |-> TickersOf[s]]
<1>1. f \in Surjection(Sessions, T)
  BY DEF Surjection
<1>2. IsFiniteSet(T)
  BY <1>1, FS_Surjection, UnitAssumption
<1>3. \A t \in T : IsFiniteSet(t)
  BY UnitAssumption
<1> QED BY <1>2, <1>3, FS_UNION DEF Markets

LEMMA HourlyTypes ==
    ASSUME Types, HourlyStep, UNCHANGED <<pending, until, mode, starts>>
    PROVE  Types'
<1>1. CASE HourlyTop /\ UNCHANGED overdue
  <2>1. NextBoundary(clock) \in Int
    BY DEF NextBoundary, Types
  <2> QED BY <1>1, <2>1, LoopTypes DEF HourlyTop, Types
<1>2. CASE (HourlyPreArm \/ HourlyPast) /\ UNCHANGED overdue
  BY <1>2, LoopTypes DEF HourlyPreArm, HourlyPast, Types
<1>3. CASE HourlyDiscover /\ UNCHANGED overdue
  BY <1>3, LoopTypes DEF HourlyDiscover, Types
<1>4. ASSUME NEW page \in SUBSET UNION {TickersOf[s] : s \in OpeningAt(boundary)},
             HourlyLadder(page), UNCHANGED overdue
      PROVE  Types'
  <2> DEFINE last == IF page = {} THEN ladder ELSE page
  <2>1. last \subseteq Markets
    BY MarketsOf DEF OpeningAt, Types
  <2>2. Cardinality(last) \in Nat
    BY <2>1, MarketsFinite, FS_Subset, FS_CardinalityType
  <2>3. CASE /\ ladder' = last /\ prevCount' = Cardinality(last)
             /\ UNCHANGED <<unit, inflight, pc>>
    BY <1>4, <2>1, <2>2, <2>3, LoopTypes DEF HourlyLadder, Types
  <2>4. CASE /\ \E tickers \in SelectBand(last) : ArmHour(tickers)
             /\ pc' = "past" /\ ladder' = {} /\ prevCount' = 0
    <3>1. PICK tickers \in SUBSET last : ArmHour(tickers)
      BY <2>4 DEF SelectBand
    <3>2. tickers \subseteq Markets
      BY <2>1, <3>1
    <3>3. unit' \in [Sessions -> UnitType] /\ inflight' \subseteq Sessions
      BY <3>1, <3>2, HourSpawned
    <3> QED BY <1>4, <2>4, <3>3, LoopTypes DEF HourlyLadder, Types
  <2> QED BY <1>4, <2>3, <2>4 DEF HourlyLadder
<1>5. CASE Draining /\ UNCHANGED hourVars
  BY <1>5, DrainTypes
<1> QED BY <1>1, <1>2, <1>3, <1>4, <1>5 DEF HourlyStep

LEMMA SupervisorTypes == ASSUME Types, Supervisor PROVE Types'
BY UniverseTypes, ScheduledTypes, HourlyTypes DEF Supervisor

LEMMA WorldTypes == ASSUME Types, World PROVE Types'
<1>1. CASE Tick
  <2>1. clock' \in Int
    BY <1>1, UnitAssumption DEF Tick, NextInstant
  <2>2. aged' \subseteq Sessions
    BY <1>1 DEF Tick, Types, Directories
  <2> QED BY <1>1, <2>1, <2>2 DEF Tick, World, Types
<1>2. CASE Signal
  BY <1>2 DEF Signal, World, Types
<1>3. ASSUME NEW s \in Sessions, GoesQuiet(s) PROVE Types'
  BY <1>3 DEF GoesQuiet, World, Types
<1>4. ASSUME NEW s \in Sessions, NEW t \in TickersOf[s], Settle(t) PROVE Types'
  BY <1>4, MarketsOf DEF Settle, World, Types
<1> QED BY <1>1, <1>2, <1>3, <1>4 DEF World

LEMMA CheckpointTypes == ASSUME Types, Checkpoints PROVE Types'
<1>1. PICK s \in Sessions : Checkpoint(s)
  BY DEF Checkpoints
<1>2. lock' = lock \/ lock' = [lock EXCEPT ![s] = "checkpoint"]
  BY <1>1 DEF Checkpoint
<1>3. lock' \in [Sessions -> {"free", "checkpoint"} \cup Kinds]
  BY <1>2 DEF Types
<1> QED BY <1>1, <1>3 DEF Checkpoint, Checkpoints, Types

LEMMA TypeStep == ASSUME Types, [Next]_vars PROVE Types'
<1>1. CASE Supervisor
  BY <1>1, SupervisorTypes
<1>2. CASE Units
  BY <1>2, UnitTypes DEF Units
<1>3. CASE Checkpoints
  BY <1>3, CheckpointTypes
<1>4. CASE Scripts
  BY <1>4, ArchiveTypes DEF Scripts
<1>5. CASE World
  BY <1>5, WorldTypes
<1>6. CASE Crash \/ Redeploy
  BY <1>6, StartsTypes DEF Crash, Redeploy
<1>7. CASE UNCHANGED vars
  BY <1>7 DEF vars, Types
<1> QED BY <1>1, <1>2, <1>3, <1>4, <1>5, <1>6, <1>7 DEF Next

\* Archives, remote and checkpoints hold nothing that was not captured.
LEMMA TypesHold == Spec => []Types
<1>1. Init => Types
  <2> SUFFICES ASSUME Init PROVE Types
    OBVIOUS
  <2>1. clock \in Int
    BY UnitAssumption DEF Init
  <2>2. until \in Int
    BY UniverseAssumption DEF Init, NoTime
  <2>3. pending \subseteq Sessions /\ pc \in {"next", "top"}
    BY DEF Init, PendingAt, ArmOrder, FirstPc
  <2>4. unit \in [Sessions -> UnitType]
    BY RecordTypes DEF Init
  <2>5. /\ arch \in [Sessions -> [Kinds -> ArchiveType]]
        /\ \A s \in Sessions, k \in Kinds : arch[s][k].tar = {}
    BY RecordTypes DEF Init
  <2>6. lock \in [Sessions -> {"free", "checkpoint"} \cup Kinds]
    BY DEF Init
  <2>7. /\ written \in [Sessions -> Nat] /\ ckpts \in [Sessions -> Nat]
        /\ raw \in [Sessions -> SUBSET Nat] /\ remote \in [Sessions -> SUBSET Nat]
        /\ copies \in [Sessions -> SUBSET Nat]
        /\ \A s \in Sessions : raw[s] = {} /\ remote[s] = {} /\ copies[s] = {}
    BY DEF Init
  <2>8. /\ mode \in Modes /\ terminal \subseteq Markets /\ shutdown \in BOOLEAN
        /\ done \subseteq Sessions /\ archived \subseteq Sessions /\ processed \subseteq Sessions
        /\ recent \subseteq Sessions /\ orphan \subseteq Sessions /\ inflight \subseteq Sessions
        /\ aged \subseteq Sessions /\ reaped \subseteq Sessions /\ overdue \subseteq Sessions
    BY DEF Init
  <2>9. boundary \in Int /\ ladder \subseteq Markets /\ prevCount \in Nat /\ starts \in Nat \ {0}
    BY DEF Init
  <2> QED BY <2>1, <2>2, <2>3, <2>4, <2>5, <2>6, <2>7, <2>8, <2>9 DEF Types
<1>2. Types /\ [Next]_vars => Types'
  BY TypeStep
<1> QED BY <1>1, <1>2, PTL DEF Spec
-----------------------------------------------------------------------------
(***************************************************************************)
(* What the three supervisors have in common: between the starts and exits *)
(* of a process, a step of its loop spawns the units of some sessions and  *)
(* forgets finished ones.                                                  *)
(***************************************************************************)
\* The loop of capture-hourly: what a step does to the boundary.
HourMoves ==
    \/ pc = "top" /\ pc' = "prearm" /\ boundary' > clock
    \/ /\ boundary' = boundary
       /\ pc' \in {"prearm", "discover", "ladder"} => pc \in {"prearm", "discover", "ladder"}
       /\ pc' = "past" => pc \in {"discover", "ladder"}
       /\ pc' = "top" => pc = "past" /\ clock >= boundary

LoopStep(arms) ==
    /\ UNCHANGED world /\ UNCHANGED <<mode, starts>>
    /\ pc' # "exited"
    /\ \A s \in Sessions \ arms : unit'[s] = unit[s]
    /\ \A s \in arms : unit'[s].pc = "capture" /\ unit'[s].watch = "top"
    /\ Reaped \cup arms \subseteq inflight' /\ inflight' \subseteq inflight \cup arms
    /\ mode = "universe" => arms = {} \/ \E groups : arms = PlanArms(groups)
    /\ mode = "scheduled" =>
          /\ arms \subseteq pending \ (pending' \cup archived)
          /\ pending' \subseteq pending
    /\ mode = "hourly" =>
          /\ arms \subseteq OpeningAt(boundary)
          /\ arms # {} => pc = "ladder" /\ pc' = "past"
          /\ HourMoves

\* The drain exits, or gives up on a task and stays in the loop.
LEMMA DrainLoops ==
    ASSUME Types, Draining, UNCHANGED <<pending, hourVars, until, mode, starts>>
    PROVE  Drain \/ \E arms \in SUBSET Sessions : LoopStep(arms)
<1>1. ASSUME NEW s \in inflight, DrainTimeout(s) PROVE LoopStep({})
  BY <1>1 DEF DrainTimeout, Reaped, LoopStep, HourMoves
<1> QED BY <1>1 DEF Draining

LEMMA UniverseLoops ==
    ASSUME Types, mode = "universe", UniverseStep,
           UNCHANGED <<pending, hourVars, until, mode, starts>>
    PROVE  Drain \/ \E arms \in SUBSET Sessions : LoopStep(arms)
<1>1. CASE UniverseTop
  <2>1. LoopStep({})
    BY <1>1 DEF UniverseTop, Reaped, LoopStep
  <2> QED BY <2>1
<1>2. ASSUME NEW found \in SUBSET Markets, UniverseArm(found)
      PROVE  \E arms \in SUBSET Sessions : LoopStep(arms)
  <2> DEFINE groups == GroupByEvent(found)
             arms == PlanArms(groups)
  <2>1. UnitDeadline \in Int
    BY InflightAssumption DEF UnitDeadline, Types
  <2>2. arms \subseteq Sessions
    BY DEF PlanArms
  <2>3. \A s \in Sessions : groups[s] \subseteq Markets
    BY MarketsOf DEF GroupByEvent
  <2>4. Spawn(arms, groups, UnitDeadline) /\ inflight' = inflight \cup arms
    BY <1>2 DEF UniverseArm
  <2>5. arms = PlanArms(groups)
    OBVIOUS
  <2> HIDE DEF groups, arms
  <2>6. /\ \A s \in Sessions : s \notin arms => unit'[s] = unit[s]
        /\ \A s \in Sessions \cap arms : unit'[s].pc = "capture" /\ unit'[s].watch = "top"
    BY <2>1, <2>3, <2>4, Spawned DEF Types
  <2>7. LoopStep(arms)
    BY <1>2, <2>2, <2>4, <2>5, <2>6 DEF UniverseArm, LoopStep, Reaped
  <2> QED BY <2>2, <2>7
<1> QED BY <1>1, <1>2, DrainLoops DEF UniverseStep

LEMMA ScheduledLoops ==
    ASSUME Types, mode = "scheduled", ScheduledStep, UNCHANGED <<hourVars, until, mode, starts>>
    PROVE  Drain \/ \E arms \in SUBSET Sessions : LoopStep(arms)
<1>1. CASE ScheduledNext \/ (Park /\ UNCHANGED pending)
  <2>1. LoopStep({})
    BY <1>1 DEF ScheduledNext, Park, Reaped, LoopStep
  <2> QED BY <2>1
<1>2. ASSUME NEW s \in pending, ScheduledWait(s) \/ ScheduledSkip(s)
      PROVE  \E arms \in SUBSET Sessions : LoopStep(arms)
  <2>1. LoopStep({})
    BY <1>2 DEF ScheduledWait, ScheduledSkip, Reaped, LoopStep
  <2> QED BY <2>1
<1>3. ASSUME NEW s \in pending, NEW found \in SUBSET TickersOf[s], ScheduledArm(s, found)
      PROVE  \E arms \in SUBSET Sessions : LoopStep(arms)
  <2>1. s \in Sessions /\ found \subseteq Markets
    BY MarketsOf DEF Types
  <2>2. clock + EntryOf[s].minutes \in Int
    BY <2>1, ScheduledAssumption DEF Types
  <2>3. CASE UNCHANGED <<unit, inflight>>
    <3>1. LoopStep({})
      BY <1>3, <2>3 DEF ScheduledArm, Reaped, LoopStep
    <3> QED BY <3>1
  <2>4. CASE /\ inflight' = inflight \cup {s} /\ s \notin archived
             /\ Spawn({s}, [t \in Sessions |-> found], clock + EntryOf[s].minutes)
    <3> DEFINE targets == [t \in Sessions |-> found]
    <3>1. \A t \in {s} \cap Sessions : targets[t] \subseteq Markets
      BY <2>1
    <3>2. Spawn({s}, targets, clock + EntryOf[s].minutes)
      BY <2>4
    <3> HIDE DEF targets
    <3>3. /\ \A t \in Sessions : t \notin {s} => unit'[t] = unit[t]
          /\ \A t \in Sessions \cap {s} : unit'[t].pc = "capture" /\ unit'[t].watch = "top"
      BY <2>2, <3>1, <3>2, Spawned DEF Types
    <3>4. LoopStep({s})
      BY <1>3, <2>1, <2>4, <3>3 DEF ScheduledArm, Reaped, LoopStep
    <3> QED BY <2>1, <3>4
  <2> QED BY <1>3, <2>3, <2>4 DEF ScheduledArm
<1> QED BY <1>1, <1>2, <1>3, DrainLoops DEF ScheduledStep

LEMMA NextBoundaryLater == ASSUME NEW now \in Int PROVE NextBoundary(now) > now
BY DEF NextBoundary

LEMMA HourlyLoops ==
    ASSUME Types, mode = "hourly", HourlyStep, UNCHANGED <<pending, until, mode, starts>>
    PROVE  Drain \/ \E arms \in SUBSET Sessions : LoopStep(arms)
<1>1. CASE HourlyTop \/ HourlyPreArm \/ HourlyDiscover \/ HourlyPast
  <2>1. HourMoves
    BY <1>1, NextBoundaryLater
       DEF HourlyTop, HourlyPreArm, HourlyDiscover, HourlyPast, HourMoves, Types
  <2>2. LoopStep({})
    BY <1>1, <2>1
       DEF HourlyTop, HourlyPreArm, HourlyDiscover, HourlyPast, Reaped, LoopStep
  <2> QED BY <2>2
<1>2. ASSUME NEW page \in SUBSET UNION {TickersOf[s] : s \in OpeningAt(boundary)},
             HourlyLadder(page)
      PROVE  \E arms \in SUBSET Sessions : LoopStep(arms)
  <2> DEFINE last == IF page = {} THEN ladder ELSE page
  <2>1. last \subseteq Markets
    BY MarketsOf DEF OpeningAt, Types
  <2>2. CASE UNCHANGED <<unit, inflight, pc>>
    <3>1. LoopStep({})
      BY <1>2, <2>2 DEF HourlyLadder, HourMoves, Reaped, LoopStep
    <3> QED BY <3>1
  <2>3. CASE /\ \E tickers \in SelectBand(last) : ArmHour(tickers)
             /\ pc' = "past"
    <3>1. PICK tickers \in SUBSET last : ArmHour(tickers)
      BY <2>3 DEF SelectBand
    <3>2. tickers \subseteq Markets
      BY <2>1, <3>1
    <3>3. CASE UNCHANGED <<unit, inflight>>
      <4>1. LoopStep({})
        BY <1>2, <2>3, <3>3 DEF HourlyLadder, HourMoves, Reaped, LoopStep
      <4> QED BY <4>1
    <3>4. ASSUME NEW s \in OpeningAt(boundary), OtherUnitsSame(s),
                 unit'[s].pc = "capture", unit'[s].watch = "top",
                 inflight' = Reaped \cup {s}
          PROVE  \E arms \in SUBSET Sessions : LoopStep(arms)
      <4>1. s \in Sessions
        BY DEF OpeningAt
      <4>2. LoopStep({s})
        BY <1>2, <2>3, <3>4, <4>1
           DEF HourlyLadder, HourMoves, OtherUnitsSame, Reaped, LoopStep
      <4> QED BY <4>1, <4>2
    <3> QED BY <3>1, <3>2, <3>3, <3>4, HourSpawned
  <2> QED BY <1>2, <2>2, <2>3 DEF HourlyLadder
<1> QED BY <1>1, <1>2, DrainLoops DEF HourlyStep

\* A step of a supervisor is the exit of its process or a step of its loop.
LEMMA SupervisorLoops ==
    ASSUME Types, Supervisor
    PROVE  \/ Drain /\ UNCHANGED <<mode, starts, boundary, pending>>
           \/ \E arms \in SUBSET Sessions : LoopStep(arms)
<1>1. CASE Drain
  BY <1>1 DEF Supervisor, UniverseStep, ScheduledStep, HourlyStep, Draining, DrainTimeout, Drain, UniverseTop, UniverseArm,
     ScheduledNext, ScheduledWait, ScheduledSkip, ScheduledArm, Park, HourlyTop, HourlyPreArm,
     HourlyDiscover, HourlyPast, HourlyLadder
<1>2. CASE ~Drain
  BY <1>2, UniverseLoops, ScheduledLoops, HourlyLoops DEF Supervisor
<1> QED BY <1>1, <1>2
-----------------------------------------------------------------------------
(***************************************************************************)
(* The inductive invariants.                                               *)
(***************************************************************************)
\* A task that runs is in flight, what is in flight was spawned, and a task
\* that is about to spawn its archive, or has, has left its marker.
TaskInv ==
    \A s \in Sessions :
        /\ Running(s) => s \in inflight
        /\ s \in inflight => unit[s].pc # "none"
        /\ unit[s].pc \in {"spawn", "over"} => s \in done \cup reaped

\* The first process of capture-scheduled and of capture-hourly takes up no
\* session twice: an entry leaves the list when it is armed, and the hours
\* that were armed are behind the boundary.
OnceInv ==
    ~Retaken =>
        /\ mode = "scheduled" => \A s \in pending : unit[s].pc = "none" /\ s \notin done
        /\ mode = "hourly" =>
              \A s \in Sessions : unit[s].pc # "none" \/ s \in done =>
                  /\ pc \in {"prearm", "discover", "ladder"} => CohortOf[s].open < boundary
                  /\ pc = "past" => CohortOf[s].open <= boundary
                  /\ pc = "top" => CohortOf[s].open <= clock

\* What is archived, or being archived, is marked as done, and what is being
\* captured is not.
StopInv ==
    ~Retaken =>
        \A s \in Sessions :
            /\ unit[s].pc \in {"capture", "mark"} => s \notin done
            /\ unit[s].pc = "spawn" => s \in done
            /\ s \in archived => s \in done
            /\ \A k \in Kinds : Archiving(s, k) => s \in done
            /\ s \notin orphan

\* The directory is whole until the session is archived, and then the remote
\* tar is, until the stub is reaped.  An archive that has verified its tar stands between the two.
ArchiveSafe(s, k) ==
    /\ arch[s][k].pc \in {"process", "upload", "copy", "lock", "purge", "archived"}
          => s \notin archived
    /\ arch[s][k].pc \in {"copy", "lock", "purge", "archived"}
          => arch[s][k].tar = 1 .. written[s]
    /\ arch[s][k].pc \in {"lock", "purge", "archived"} => remote[s] = 1 .. written[s]
    /\ arch[s][k].pc = "prune" => s \in archived
SessionSafe(s) ==
    /\ Archiving(s, "sweep") => ~UnitArchives(s)
    /\ s \notin archived => raw[s] = 1 .. written[s]
    /\ s \in archived => remote[s] = 1 .. written[s]
    /\ \A k \in Kinds : ArchiveSafe(s, k)
SafeInv == SweepAlone /\ ~Retaken => \A s \in Sessions \ reaped : SessionSafe(s)

\* The units in flight never exceed the cap.
CapInv == mode = "universe" => Cardinality(inflight) <= MaxUnits
-----------------------------------------------------------------------------
(***************************************************************************)
(* The steps of the tasks, as far as the invariants tell them apart.       *)
(***************************************************************************)
\* The task of session s: it goes on as it is, stops capturing, leaves its
\* marker, or spawns its archive.
TaskMoves(s) ==
    \/ unit'[s].pc = unit[s].pc /\ UNCHANGED <<done, arch>>
    \/ unit[s].pc = "capture" /\ unit'[s].pc = "mark" /\ UNCHANGED <<done, arch>>
    \/ unit[s].pc = "mark" /\ unit'[s].pc = "spawn" /\ done' = done \cup {s} /\ arch' = arch
    \/ /\ unit[s].pc = "spawn" /\ unit'[s].pc = "over" /\ done' = done
       /\ arch'[s]["explicit"] = NewArchive("guard") /\ OthersSame(s, "explicit")

LEMMA UnitMoves ==
    ASSUME Types, NEW s \in Sessions, UnitStep(s)
    PROVE  /\ OtherUnitsSame(s) /\ TaskMoves(s)
           /\ UNCHANGED <<clock, terminal, shutdown, archived, reaped, lock>>
           /\ orphan' \subseteq orphan
           /\ UNCHANGED <<raw, written>> \/ Record(s)
<1>1. CASE Record(s)
  BY <1>1 DEF Record, TaskMoves, OtherUnitsSame
<1>2. CASE GraceOver(s) \/ Backstop(s) \/ \E a \in Answers(s) : Poll(s, a)
  <2>1. OtherUnitsSame(s) /\ unit'[s].pc = unit[s].pc
    BY <1>2, WatcherMoves, UnitWatches DEF Types
  <2> QED BY <1>2, <2>1 DEF GraceOver, Backstop, Poll, TaskMoves
<1>3. CASE StopCapture(s)
  <2>1. OtherUnitsSame(s) /\ unit'[s].pc = "mark"
    BY <1>3 DEF StopCapture, NoUnit, OtherUnitsSame, Types
  <2> QED BY <1>3, <2>1 DEF StopCapture, Capturing, TaskMoves
<1>4. CASE MarkDone(s)
  <2>1. OtherUnitsSame(s) /\ unit'[s].pc = "spawn"
    BY <1>4, UnitGoes DEF MarkDone, Types
  <2> QED BY <1>4, <2>1 DEF MarkDone, TaskMoves
<1>5. CASE SpawnArchive(s)
  <2>1. OtherUnitsSame(s) /\ unit'[s].pc = "over"
    BY <1>5, UnitGoes DEF SpawnArchive, Types
  <2>2. arch'[s]["explicit"] = NewArchive("guard") /\ OthersSame(s, "explicit")
    BY <1>5, ArchiveReplaced, RecordTypes DEF SpawnArchive, Types, Archives, Kinds
  <2> QED BY <1>5, <2>1, <2>2 DEF SpawnArchive, TaskMoves
<1> QED BY <1>1, <1>2, <1>3, <1>4, <1>5 DEF UnitStep

\* The scripts leave the tasks and their markers alone, except those of the
\* stubs they reap.
LEMMA ScriptsOutside ==
    ASSUME NEW s \in Sessions, ArchiveStep(s)
    PROVE  /\ UNCHANGED <<clock, terminal, shutdown, unit, written>>
           /\ UNCHANGED <<done, reaped>> \/ ReapStub(s)
<1>1. CASE ReapStub(s)
  BY <1>1 DEF ReapStub
<1>2. CASE ExplicitGuard(s) \/ Sweep(s) \/ CheckpointCopies(s) \/ ExpireHot(s)
  BY <1>2 DEF ExplicitGuard, Sweep, CheckpointCopies, ExpireHot
<1>3. ASSUME NEW k \in Kinds, Process(s, k) \/ Upload(s, k) \/ CopyTar(s, k) \/ TakeLock(s, k)
      PROVE  UNCHANGED <<clock, terminal, shutdown, unit, written, done, reaped>>
  BY <1>3 DEF Process, Upload, CopyTar, TakeLock
<1>4. ASSUME NEW k \in Kinds, Purge(s, k) \/ MarkArchived(s, k) \/ Prune(s, k)
      PROVE  UNCHANGED <<clock, terminal, shutdown, unit, written, done, reaped>>
  BY <1>4 DEF Purge, MarkArchived, Prune
<1> QED BY <1>1, <1>2, <1>3, <1>4 DEF ArchiveStep

\* A marker goes only with the stub.
MarkersStay == /\ done' \subseteq done /\ done \subseteq done' \cup reaped'
               /\ reaped \subseteq reaped'

LEMMA Outside ==
    ASSUME Checkpoints \/ Scripts \/ World
    PROVE  UNCHANGED <<unit, written, loopVars>> /\ MarkersStay
<1> USE DEF MarkersStay
<1>1. CASE Checkpoints
  BY <1>1 DEF Checkpoints, Checkpoint
<1>2. CASE Scripts
  BY <1>2, ScriptsOutside DEF Scripts, ReapStub
<1>3. CASE World
  BY <1>3 DEF World, Tick, Signal, GoesQuiet, Settle
<1> QED BY <1>1, <1>2, <1>3

LEMMA TaskStep == ASSUME Types, TaskInv, [Next]_vars PROVE TaskInv'
<1> USE DEF Running
<1>1. CASE Drain \/ Starts
  <2>1. inflight' = {} /\ \A s \in Sessions : unit'[s] = NoUnit
    BY <1>1, AllGone DEF Drain, Starts, ProcessGone
  <2> QED BY <2>1 DEF TaskInv, NoUnit
<1>2. ASSUME NEW arms \in SUBSET Sessions, LoopStep(arms) PROVE TaskInv'
  BY <1>2 DEF LoopStep, Reaped, TaskInv
<1>3. ASSUME NEW s \in Sessions, UnitStep(s), UNCHANGED inflight PROVE TaskInv'
  <2>1. OtherUnitsSame(s) /\ TaskMoves(s)
    BY <1>3, UnitMoves
  <2>2. done \subseteq done' /\ reaped' = reaped
    BY <1>3, <2>1, UnitMoves DEF TaskMoves
  <2>3. \A t \in Sessions : t # s => unit'[t] = unit[t]
    BY <2>1 DEF OtherUnitsSame
  <2>4. /\ Running(s)' => Running(s)
        /\ unit[s].pc # "none" => unit'[s].pc # "none"
        /\ unit'[s].pc \in {"spawn", "over"} => s \in done' \/ unit[s].pc \in {"spawn", "over"}
    BY <2>1 DEF TaskMoves
  <2> QED BY <1>3, <2>2, <2>3, <2>4 DEF TaskInv
<1>4. CASE Checkpoints \/ Scripts \/ World \/ UNCHANGED vars
  <2>1. UNCHANGED <<unit, inflight>> /\ MarkersStay
    BY <1>4, Outside DEF vars, MarkersStay
  <2> QED BY <2>1 DEF TaskInv, MarkersStay
<1> QED BY <1>1, <1>2, <1>3, <1>4, SupervisorLoops DEF Next, Units, Crash, Redeploy

LEMMA TaskInvariant == Spec => []TaskInv
<1>1. Init => TaskInv
  BY DEF Init, TaskInv, NoUnit, Running
<1>2. Types /\ TaskInv /\ [Next]_vars => TaskInv'
  BY TaskStep
<1> QED BY <1>1, <1>2, TypesHold, PTL DEF Spec

\* When a process exits, each unit it spawned has left its marker (or its
\* stub was reaped since), but for those that drain_inflight gave up on after
\* 30 s: no other session is left to no one.
THEOREM MarksAreLeft == Spec => ExitLeavesMarks
<1>1. Types /\ TaskInv /\ [Next]_vars
        => (pc = "drain" /\ pc' = "exited" =>
               \A s \in Sessions \ reaped : unit[s].pc # "none" => s \in done \cup overdue)
  <2> SUFFICES ASSUME Types, TaskInv, [Next]_vars, pc = "drain", pc' = "exited",
                      NEW s \in Sessions \ reaped, unit[s].pc # "none"
               PROVE  s \in done \cup overdue
    OBVIOUS
  <2>1. Drain
    <3>1. ~(Checkpoints \/ Scripts \/ World \/ UNCHANGED vars)
      BY Outside DEF vars
    <3>2. ~Units
      BY DEF Units
    <3>3. ~(Crash \/ Redeploy)
      BY DEF Crash, Redeploy, Starts, FirstPc
    <3>4. \A arms \in SUBSET Sessions : ~LoopStep(arms)
      BY DEF LoopStep
    <3> QED BY <3>1, <3>2, <3>3, <3>4, SupervisorLoops DEF Next
  <2>2. CASE Running(s)
    BY <2>1, <2>2 DEF Drain, TaskInv
  <2>3. CASE ~Running(s)
    <3>1. unit[s].pc = "over"
      BY <2>3 DEF Running, Types, UnitType
    <3> QED BY <3>1 DEF TaskInv
  <2> QED BY <2>2, <2>3
<1> QED BY <1>1, TypesHold, TaskInvariant, PTL DEF Spec, ExitLeavesMarks
-----------------------------------------------------------------------------
(***************************************************************************)
(* Settlement.                                                             *)
(***************************************************************************)
LEMMA ClockAdvances == ASSUME Types, Tick PROVE clock' \in Int /\ clock < clock'
<1>1. clock' \in NextInstant
  BY DEF Tick
<1>2. \A t \in NextInstant : t \in Int /\ t > clock
  BY UnitAssumption DEF NextInstant
<1> QED BY <1>1, <1>2 DEF Types

LEMMA TimePasses ==
    ASSUME Types, Checkpoints \/ Scripts \/ World \/ UNCHANGED vars
    PROVE  clock' \in Int /\ clock <= clock' /\ terminal \subseteq terminal'
<1>1. CASE Checkpoints
  BY <1>1 DEF Checkpoints, Checkpoint, Types
<1>2. CASE Scripts
  BY <1>2, ScriptsOutside DEF Scripts, Types
<1>3. CASE World
  <2>1. CASE Tick
    <3>1. terminal' = terminal
      BY <2>1 DEF Tick
    <3>2. clock \in Int /\ clock' \in Int /\ clock < clock'
      BY <2>1, ClockAdvances DEF Types
    <3> QED BY <3>1, <3>2
  <2>2. CASE ~Tick
    BY <1>3, <2>2 DEF World, Signal, GoesQuiet, Settle, Types
  <2> QED BY <2>1, <2>2
<1>4. CASE UNCHANGED vars
  BY <1>4 DEF vars, Types
<1> QED BY <1>1, <1>2, <1>3, <1>4

LEMMA LiveStep == ASSUME Types, LiveUnitsRun, [Next]_vars PROVE LiveUnitsRun'
<1> USE DEF Capturing
<1>1. CASE Drain \/ Starts
  <2>1. \A s \in Sessions : unit'[s] = NoUnit
    BY <1>1, AllGone DEF Drain, Starts
  <2> QED BY <2>1 DEF LiveUnitsRun, NoUnit
<1>2. ASSUME NEW arms \in SUBSET Sessions, LoopStep(arms) PROVE LiveUnitsRun'
  BY <1>2 DEF LoopStep, LiveUnitsRun
<1>3. ASSUME NEW s \in Sessions, UnitStep(s) PROVE LiveUnitsRun'
  <2>1. OtherUnitsSame(s) /\ TaskMoves(s) /\ UNCHANGED <<clock, terminal>>
    BY <1>3, UnitMoves
  <2>2. SUFFICES ASSUME unit'[s].pc = "capture", unit'[s].watch \in {"grace", "notified"},
                        clock < unit'[s].deadline
                 PROVE  unit'[s].targets \subseteq terminal
    BY <2>1 DEF OtherUnitsSame, LiveUnitsRun
  <2>3. CASE Record(s)
    BY <2>2, <2>3 DEF Record, LiveUnitsRun
  <2>4. CASE \E a \in Answers(s) : Poll(s, a)
    <3>1. PICK a \in Answers(s) : Poll(s, a)
      BY <2>4
    <3>2. PollOnce(unit[s].targets, a) = "Settled"
      BY <2>2, <3>1 DEF Poll, Types, UnitType
    <3>3. unit[s].targets \subseteq terminal
      BY <3>2 DEF PollOnce, AllSettled
    <3>4. unit'[s].targets = unit[s].targets
      BY <2>4, WatcherMoves, UnitWatches DEF Types
    <3> QED BY <3>3, <3>4
  <2>5. CASE GraceOver(s) \/ Backstop(s)
    <3>1. /\ unit'[s].targets = unit[s].targets
          /\ unit'[s].deadline = unit[s].deadline
      BY <2>5, WatcherMoves, UnitWatches DEF Types
    <3>2. unit[s].deadline \in Int
      BY DEF Types, UnitType
    <3>3. ~Backstop(s)
      BY <2>2, <3>1, <3>2 DEF Backstop, Types
    <3> QED BY <2>2, <2>5, <3>1, <3>3 DEF GraceOver, LiveUnitsRun
  <2>6. CASE StopCapture(s) \/ MarkDone(s) \/ SpawnArchive(s)
    <3>1. unit'[s].pc \in {"mark", "spawn", "over"}
      <4>1. CASE StopCapture(s)
        BY <4>1 DEF StopCapture, NoUnit, Types
      <4>2. CASE MarkDone(s) \/ SpawnArchive(s)
        BY <4>2, UnitGoes DEF MarkDone, SpawnArchive, Types
      <4> QED BY <2>6, <4>1, <4>2
    <3> QED BY <2>2, <3>1
  <2> QED BY <1>3, <2>3, <2>4, <2>5, <2>6 DEF UnitStep
<1>4. CASE Checkpoints \/ Scripts \/ World \/ UNCHANGED vars
  <2>1. unit' = unit
    BY <1>4, Outside DEF vars
  <2>2. clock' \in Int /\ clock <= clock' /\ terminal \subseteq terminal'
    BY <1>4, TimePasses
  <2>3. \A s \in Sessions : unit[s].deadline \in Int
    BY DEF Types, UnitType
  <2>4. \A s \in Sessions : clock' < unit[s].deadline => clock < unit[s].deadline
    BY <2>2, <2>3 DEF Types
  <2> QED BY <2>1, <2>2, <2>4 DEF LiveUnitsRun
<1> QED BY <1>1, <1>2, <1>3, <1>4, SupervisorLoops DEF Next, Units, Crash, Redeploy

\* A unit captures until its markets are settled or its backstop is due,
\* whatever the polls of the watcher return.
THEOREM LiveUnitsKeepRunning == Spec => []LiveUnitsRun
<1>1. Init => LiveUnitsRun
  BY DEF Init, LiveUnitsRun, NoUnit, Capturing
<1>2. Types /\ LiveUnitsRun /\ [Next]_vars => LiveUnitsRun'
  BY LiveStep
<1> QED BY <1>1, <1>2, TypesHold, PTL DEF Spec
-----------------------------------------------------------------------------
(***************************************************************************)
(* The lock between checkpoints and archives.                              *)
(***************************************************************************)
\* Only an archive that takes the lock comes to hold it.
LEMMA ArchiveLocks ==
    ASSUME arch \in Archives, raw \in [Sessions -> SUBSET Nat],
           NEW s \in Sessions, NEW k \in Kinds,
           \/ Process(s, k) \/ Upload(s, k) \/ CopyTar(s, k)
           \/ Purge(s, k) \/ MarkArchived(s, k) \/ Prune(s, k)
    PROVE  /\ OthersSame(s, k)
           /\ arch'[s][k].locked => arch[s][k].locked /\ ~Prune(s, k)
<1>1. CASE Process(s, k) \/ Upload(s, k)
  <2>1. ~Prune(s, k)
    BY <1>1 DEF Process, Upload, Prune
  <2>2. OthersSame(s, k) /\ (arch'[s][k] = NoArchive \/ arch'[s][k].locked = arch[s][k].locked)
    BY <1>1, ProcessStepped, UploadStepped
  <2> QED BY <2>1, <2>2, RecordTypes
<1>2. CASE CopyTar(s, k)
  BY <1>2, ArchiveEnds, ArchiveGoes, RecordTypes DEF CopyTar, Prune
<1>3. CASE Purge(s, k) \/ MarkArchived(s, k)
  BY <1>3, ArchiveGoes DEF Purge, MarkArchived, Prune
<1>4. CASE Prune(s, k)
  BY <1>4, ArchiveEnds, RecordTypes DEF Prune
<1> QED BY <1>1, <1>2, <1>3, <1>4

LEMMA LockStep == ASSUME Types, LockInv, [Next]_vars PROVE LockInv'
<1>0. arch \in Archives /\ raw \in [Sessions -> SUBSET Nat]
  BY DEF Types, Archives
<1>1. CASE Drain \/ Starts
  <2>1. \A s \in Sessions :
           /\ arch'[s]["explicit"] = NoArchive /\ arch'[s]["sweep"] = arch[s]["sweep"]
           /\ lock[s] = "sweep" => lock'[s] = "sweep"
    BY <1>1, AllGone DEF Drain, Starts
  <2> QED BY <2>1, RecordTypes DEF LockInv, Kinds
<1>2. ASSUME NEW arms \in SUBSET Sessions, LoopStep(arms) PROVE LockInv'
  BY <1>2 DEF LoopStep, LockInv
<1>3. ASSUME NEW s \in Sessions, UnitStep(s) PROVE LockInv'
  <2>1. lock' = lock /\ TaskMoves(s)
    BY <1>3, UnitMoves
  <2> QED BY <2>1, RecordTypes DEF TaskMoves, OthersSame, LockInv, Kinds
<1>4. CASE Checkpoints
  <2>1. PICK s \in Sessions : Checkpoint(s)
    BY <1>4 DEF Checkpoints
  <2>2. \A t \in Sessions : lock[t] # "free" => lock'[t] = lock[t]
    BY <2>1 DEF Checkpoint, Types
  <2> QED BY <2>1, <2>2 DEF Checkpoint, LockInv, Kinds
<1>5. ASSUME NEW s \in Sessions, ArchiveStep(s) PROVE LockInv'
  <2>1. CASE ExplicitGuard(s) \/ Sweep(s)
    <3>1. \A t \in Sessions, j \in Kinds : arch'[t][j].locked => arch[t][j].locked
      BY <1>0, <2>1, ArchiveEnds, ArchiveGoes, RecordTypes
         DEF ExplicitGuard, Sweep, OthersSame, Kinds
    <3> QED BY <2>1, <3>1 DEF ExplicitGuard, Sweep, LockInv
  <2>2. CASE CheckpointCopies(s)
    <3>1. \A t \in Sessions : lock[t] # "checkpoint" => lock'[t] = lock[t]
      BY <2>2 DEF CheckpointCopies, Types
    <3> QED BY <2>2, <3>1 DEF CheckpointCopies, LockInv, Kinds
  <2>3. ASSUME NEW k \in Kinds,
               \/ Process(s, k) \/ Upload(s, k) \/ CopyTar(s, k)
               \/ Purge(s, k) \/ MarkArchived(s, k)
        PROVE  LockInv'
    <3>1. \A t \in Sessions, j \in Kinds : arch'[t][j].locked => arch[t][j].locked
      BY <1>0, <2>3, ArchiveLocks DEF OthersSame
    <3>2. lock' = lock
      BY <2>3 DEF Process, Upload, CopyTar, Purge, MarkArchived
    <3> QED BY <3>1, <3>2 DEF LockInv
  <2>4. ASSUME NEW k \in Kinds, Prune(s, k) PROVE LockInv'
    <3>1. OthersSame(s, k) /\ ~arch'[s][k].locked
      BY <1>0, <2>4, ArchiveLocks
    <3>2. /\ lock' = lock \/ (arch[s][k].locked /\ lock' = [lock EXCEPT ![s] = "free"])
      BY <2>4 DEF Prune
    <3>3. \A t \in Sessions : lock'[t] = lock[t] \/ (t = s /\ lock[s] = k)
      BY <3>2 DEF LockInv, Types
    <3> QED BY <3>1, <3>3 DEF OthersSame, LockInv
  <2>5. ASSUME NEW k \in Kinds, TakeLock(s, k) PROVE LockInv'
    <3>1. /\ OthersSame(s, k)
          /\ arch'[s][k].locked => arch[s][k].locked \/ lock[s] = "free"
      BY <1>0, <2>5, TakeLockStepped
    <3>2. IF lock[s] = "free" THEN lock' = [lock EXCEPT ![s] = k] ELSE lock' = lock
      BY <2>5 DEF TakeLock
    <3>3. \A t \in Sessions : lock[t] # "free" => lock'[t] = lock[t]
      BY <3>2 DEF Types
    <3>4. arch'[s][k].locked => lock'[s] = k
      BY <3>1, <3>2 DEF LockInv, Types
    <3> QED BY <3>1, <3>3, <3>4 DEF OthersSame, LockInv, Kinds
  <2>6. CASE ExpireHot(s) \/ ReapStub(s)
    BY <2>6 DEF ExpireHot, ReapStub, LockInv
  <2> QED BY <1>5, <2>1, <2>2, <2>3, <2>4, <2>5, <2>6 DEF ArchiveStep
<1>6. CASE World \/ UNCHANGED vars
  BY <1>6 DEF World, Tick, Signal, GoesQuiet, Settle, vars, LockInv
<1> QED BY <1>1, <1>2, <1>3, <1>4, <1>5, <1>6, SupervisorLoops
        DEF Next, Units, Scripts, Crash, Redeploy

LEMMA LockInvariant == Spec => []LockInv
<1>1. Init => LockInv
  BY RecordTypes DEF Init, LockInv
<1>2. Types /\ LockInv /\ [Next]_vars => LockInv'
  BY LockStep
<1> QED BY <1>1, <1>2, TypesHold, PTL DEF Spec

\* The variables of the composition keep their types; archives, remote and
\* checkpoints hold nothing that was not captured; and whatever dies or is
\* killed, an archive that goes on as the holder of the flock is its holder.
THEOREM TypeCorrect == Spec => []TypeOK
<1>1. Types /\ LockInv => TypeOK
  BY DEF TypeOK
<1> QED BY <1>1, TypesHold, LockInvariant, PTL

\* While a checkpoint copies a session's files, no archive purges its copies
\* or deletes the files (the flock of kdp-archive.sh and kdp-checkpoint.sh).
THEOREM CheckpointsUndisturbed == Spec => CheckpointsAreUndisturbed
<1>1. ASSUME Types, LockInv, [Next]_vars, NEW c \in Sessions, lock[c] = "checkpoint"
      PROVE  raw[c] \subseteq raw'[c] /\ copies[c] \subseteq copies'[c]
  <2>1. CASE Drain \/ Starts
    BY <2>1 DEF Drain, Starts, ProcessGone
  <2>2. ASSUME NEW arms \in SUBSET Sessions, LoopStep(arms)
        PROVE  UNCHANGED <<raw, copies>>
    BY <2>2 DEF LoopStep
  <2>3. ASSUME Units PROVE raw[c] \subseteq raw'[c] /\ copies' = copies
    <3>1. PICK s \in Sessions : UnitStep(s) /\ copies' = copies
      BY <2>3 DEF Units
    <3>2. UNCHANGED raw \/ Record(s)
      BY <1>1, <3>1, UnitMoves
    <3> QED BY <1>1, <3>1, <3>2 DEF Record, Types
  <2>4. ASSUME NEW s \in Sessions, ArchiveStep(s)
        PROVE  raw[c] \subseteq raw'[c] /\ copies[c] \subseteq copies'[c]
    <3>1. ASSUME NEW k \in Kinds, Purge(s, k) \/ Prune(s, k)
          PROVE  raw[c] \subseteq raw'[c] /\ copies[c] \subseteq copies'[c]
      <4>1. s = c => ~arch[s][k].locked
        BY <1>1 DEF LockInv, Kinds
      <4> QED BY <1>1, <3>1, <4>1 DEF Purge, Prune, Types
    <3>2. CASE CheckpointCopies(s)
      BY <3>2, <1>1 DEF CheckpointCopies, Types
    <3>3. CASE ExplicitGuard(s) \/ Sweep(s) \/ ExpireHot(s) \/ ReapStub(s)
      BY <3>3 DEF ExplicitGuard, Sweep, ExpireHot, ReapStub
    <3>4. ASSUME NEW k \in Kinds,
                 Process(s, k) \/ Upload(s, k) \/ CopyTar(s, k) \/ TakeLock(s, k) \/ MarkArchived(s, k)
          PROVE  raw[c] \subseteq raw'[c] /\ copies[c] \subseteq copies'[c]
      BY <3>4 DEF Process, Upload, CopyTar, TakeLock, MarkArchived
    <3> QED BY <2>4, <3>1, <3>2, <3>3, <3>4 DEF ArchiveStep
  <2>5. CASE Checkpoints \/ World \/ UNCHANGED vars
    BY <2>5 DEF Checkpoints, Checkpoint, World, Tick, Signal, GoesQuiet, Settle, vars
  <2> QED BY <1>1, <2>1, <2>2, <2>3, <2>4, <2>5, SupervisorLoops
          DEF Next, Scripts, Crash, Redeploy
<1>2. Types /\ LockInv /\ [Next]_vars
        => \A s \in Sessions :
              lock[s] = "checkpoint" =>
                  raw[s] \subseteq raw'[s] /\ copies[s] \subseteq copies'[s]
  BY <1>1
<1> QED BY <1>2, TypesHold, LockInvariant, PTL DEF Spec, CheckpointsAreUndisturbed

\* What is pruned, or about to be, is archived, or was and has been reaped.
PrunedInv ==
    \A s \in Sessions :
        \/ s \in archived \cup reaped
        \/ /\ written[s] > 0 => raw[s] # {}
           /\ s \notin orphan
           /\ \A k \in Kinds : arch[s][k].pc # "prune"

LEMMA PrunedScript ==
    ASSUME Types, PrunedInv, NEW s \in Sessions, ArchiveStep(s)
    PROVE  PrunedInv'
<1>0. arch \in Archives /\ raw \in [Sessions -> SUBSET Nat]
  BY DEF Types, Archives
<1>1. archived \cup reaped \subseteq archived' \cup reaped' /\ written' = written
  <2>1. CASE ReapStub(s)
    BY <2>1 DEF ReapStub
  <2>2. CASE ~ReapStub(s)
    BY <2>2, ScriptsOutside DEF ArchiveStep, ExplicitGuard, Sweep, CheckpointCopies, Process,
       Upload, CopyTar, TakeLock, Purge, MarkArchived, Prune, ExpireHot
  <2> QED BY <2>1, <2>2
<1>2. ASSUME NEW k \in Kinds, Prune(s, k) PROVE PrunedInv'
  <2>1. s \in archived \cup reaped
    BY <1>2 DEF Prune, PrunedInv
  <2>2. \A t \in Sessions : t # s =>
           /\ raw'[t] = raw[t] /\ (t \in orphan' <=> t \in orphan)
           /\ \A j \in Kinds : arch'[t][j] = arch[t][j]
    BY <1>0, <1>2, ArchiveEnds DEF Prune, OthersSame
  <2> QED BY <1>1, <2>1, <2>2 DEF PrunedInv
<1>3. ASSUME NEW k \in Kinds, MarkArchived(s, k) PROVE PrunedInv'
  <2>1. s \in archived'
    BY <1>3 DEF MarkArchived
  <2>2. UNCHANGED <<raw, orphan>> /\ OthersSame(s, k)
    BY <1>0, <1>3, ArchiveGoes DEF MarkArchived
  <2> QED BY <1>1, <2>1, <2>2 DEF PrunedInv, OthersSame
<1>4. ASSUME UNCHANGED <<raw, orphan>>,
             \A t \in Sessions, j \in Kinds : arch'[t][j].pc = "prune" => arch[t][j].pc = "prune"
      PROVE  PrunedInv'
  BY <1>1, <1>4 DEF PrunedInv
<1>5. CASE ExplicitGuard(s) \/ Sweep(s)
  <2>1. \A t \in Sessions, j \in Kinds : arch'[t][j].pc = "prune" => arch[t][j].pc = "prune"
    BY <1>0, <1>5, ArchiveEnds, ArchiveGoes, RecordTypes DEF ExplicitGuard, Sweep, OthersSame, Kinds
  <2> QED BY <1>4, <1>5, <2>1 DEF ExplicitGuard, Sweep
<1>6. CASE CheckpointCopies(s) \/ ExpireHot(s) \/ ReapStub(s)
  BY <1>4, <1>6 DEF CheckpointCopies, ExpireHot, ReapStub
<1>7. ASSUME NEW k \in Kinds,
             Process(s, k) \/ Upload(s, k) \/ CopyTar(s, k) \/ TakeLock(s, k) \/ Purge(s, k)
      PROVE  PrunedInv'
  <2>1. OthersSame(s, k)
    BY <1>0, <1>7, ArchiveStepped
  <2>2. arch'[s][k].pc # "prune"
    <3>1. CASE Process(s, k) \/ Upload(s, k) \/ TakeLock(s, k)
      BY <1>0, <3>1, ProcessStepped, UploadStepped, TakeLockStepped, RecordTypes
    <3>2. CASE CopyTar(s, k) \/ Purge(s, k)
      BY <1>0, <3>2, ArchiveEnds, ArchiveGoes, RecordTypes DEF CopyTar, Purge
    <3> QED BY <1>7, <3>1, <3>2
  <2>3. UNCHANGED <<raw, orphan>>
    BY <1>7 DEF Process, Upload, CopyTar, TakeLock, Purge
  <2> QED BY <1>4, <2>1, <2>2, <2>3 DEF OthersSame
<1> QED BY <1>2, <1>3, <1>5, <1>6, <1>7 DEF ArchiveStep

LEMMA PrunedStep == ASSUME Types, PrunedInv, [Next]_vars PROVE PrunedInv'
<1>1. CASE Drain \/ Starts
  <2>1. UNCHANGED <<archived, reaped, raw, written>> /\ orphan' = {}
    BY <1>1 DEF Drain, Starts, ProcessGone
  <2>2. \A s \in Sessions, k \in Kinds : arch'[s][k] = arch[s][k] \/ arch'[s][k].pc = "none"
    BY <1>1, AllGone, RecordTypes DEF Drain, Starts, Kinds
  <2> QED BY <2>1, <2>2 DEF PrunedInv
<1>2. ASSUME NEW arms \in SUBSET Sessions, LoopStep(arms) PROVE PrunedInv'
  BY <1>2 DEF LoopStep, PrunedInv
<1>3. ASSUME NEW s \in Sessions, UnitStep(s) PROVE PrunedInv'
  <2>1. /\ TaskMoves(s) /\ UNCHANGED <<archived, reaped>> /\ orphan' \subseteq orphan
        /\ UNCHANGED <<raw, written>> \/ Record(s)
    BY <1>3, UnitMoves
  <2>2. \A t \in Sessions, k \in Kinds : arch'[t][k] = arch[t][k] \/ arch'[t][k].pc = "guard"
    BY <2>1, RecordTypes DEF TaskMoves, OthersSame
  <2>3. CASE UNCHANGED <<raw, written>>
    BY <2>1, <2>2, <2>3 DEF PrunedInv
  <2>4. CASE Record(s)
    <3>1. \A t \in Sessions : t # s => raw'[t] = raw[t] /\ written'[t] = written[t]
      BY <2>4 DEF Record, Types
    <3>2. s \in orphan \/ raw'[s] # {}
      BY <2>4 DEF Record, Types
    <3> QED BY <2>1, <2>2, <3>1, <3>2 DEF PrunedInv
  <2> QED BY <2>1, <2>3, <2>4
<1>4. ASSUME NEW s \in Sessions, ArchiveStep(s) PROVE PrunedInv'
  BY <1>4, PrunedScript
<1>5. CASE Checkpoints \/ World \/ UNCHANGED vars
  <2>1. UNCHANGED <<archived, reaped, raw, written, arch, orphan>>
    BY <1>5 DEF Checkpoints, Checkpoint, World, Tick, Signal, GoesQuiet, Settle, vars
  <2> QED BY <2>1 DEF PrunedInv
<1> QED BY <1>1, <1>2, <1>3, <1>4, <1>5, SupervisorLoops
        DEF Next, Units, Scripts, Crash, Redeploy

LEMMA PrunedInvariant == Spec => []PrunedInv
<1>1. Init => PrunedInv
  BY RecordTypes DEF Init, PrunedInv
<1>2. Types /\ PrunedInv /\ [Next]_vars => PrunedInv'
  BY PrunedStep
<1> QED BY <1>1, <1>2, TypesHold, PTL DEF Spec

\* A session that was archived, or whose records were pruned, is not captured
\* again before its stub is reaped, in this process or after any number of
\* restarts: its markers outlive the prune (kdp-archive.sh), and plan_arms and
\* the second guard of run_scheduled ask for them.
THEOREM ArchivedOnce == Spec => ArchivedStaysArchived
<1>1. ASSUME Types, PrunedInv, [Next]_vars, mode # "hourly",
             NEW a \in Sessions \ reaped, Finished(a), ~Capturing(a)
      PROVE  ~Capturing(a)'
  <2> USE DEF Capturing
  <2>0. a \in Sessions /\ a \in archived
    BY <1>1 DEF Finished, PrunedInv
  <2>1. CASE Drain \/ Starts
    <3>1. unit'[a] = NoUnit
      BY <1>1, <2>0, <2>1, AllGone DEF Drain, Starts
    <3> QED BY <3>1 DEF NoUnit
  <2>2. ASSUME NEW arms \in SUBSET Sessions, LoopStep(arms) PROVE ~Capturing(a)'
    <3>1. mode \in {"universe", "scheduled"}
      BY <1>1, SuperviseAssumption DEF Types
    <3>2. a \notin arms
      BY <1>1, <2>0, <2>2, <3>1 DEF LoopStep, PlanArms
    <3> QED BY <1>1, <2>0, <2>2, <3>2 DEF LoopStep
  <2>3. ASSUME NEW s \in Sessions, UnitStep(s) PROVE ~Capturing(a)'
    BY <1>1, <2>0, <2>3, UnitMoves DEF TaskMoves, OtherUnitsSame
  <2>4. CASE Checkpoints \/ Scripts \/ World \/ UNCHANGED vars
    BY <1>1, <2>4, Outside DEF vars
  <2> QED BY <1>1, <2>1, <2>2, <2>3, <2>4, SupervisorLoops DEF Next, Units, Crash, Redeploy
<1>2. Types /\ PrunedInv /\ [Next]_vars
        => (mode # "hourly" => \A s \in Sessions \ reaped :
                                  Finished(s) /\ ~Capturing(s) => ~Capturing(s)')
  BY <1>1
<1> QED BY <1>2, TypesHold, PrunedInvariant, PTL DEF Spec, ArchivedStaysArchived
-----------------------------------------------------------------------------
(***************************************************************************)
(* Sessions are taken up once.                                             *)
(***************************************************************************)
LEMMA ModesAre == ASSUME Types PROVE mode \in {"universe", "scheduled", "hourly"}
BY SuperviseAssumption DEF Types

\* What a supervisor arms was neither captured before nor is it in flight.
LEMMA FreshArms ==
    ASSUME Types, TaskInv, OnceInv, ~Retaken, NEW arms \in SUBSET Sessions, LoopStep(arms),
           NEW s \in arms
    PROVE  s \notin done /\ unit[s].pc \in {"none", "over"}
<1>1. CASE mode = "universe"
  <2>1. PICK groups : arms = PlanArms(groups)
    BY <1>1 DEF LoopStep
  <2>2. s \notin inflight /\ s \notin done
    BY <2>1 DEF PlanArms
  <2>3. unit[s].pc \in {"none", "over"}
    BY <2>2 DEF TaskInv, Running, Types, UnitType
  <2> QED BY <2>2, <2>3
<1>2. CASE mode = "scheduled"
  BY <1>2 DEF LoopStep, OnceInv
<1>3. CASE mode = "hourly"
  <2>1. pc = "ladder" /\ CohortOf[s].open = boundary
    BY <1>3 DEF LoopStep, OpeningAt
  <2>2. ~(CohortOf[s].open < boundary)
    BY <2>1 DEF Types
  <2> QED BY <1>3, <2>1, <2>2 DEF OnceInv
<1> QED BY <1>1, <1>2, <1>3, ModesAre

LEMMA OnceStep == ASSUME Types, OnceInv, [Next]_vars PROVE OnceInv'
<1>0. \A s \in Sessions : CohortOf[s].open \in Int
  BY UniverseAssumption
<1>1. CASE Starts
  <2>1. mode' = mode /\ starts' > 1
    BY <1>1 DEF Starts, Types
  <2> QED BY <2>1 DEF OnceInv, Retaken
<1>2. CASE Drain /\ UNCHANGED <<mode, starts, boundary, pending>>
  <2>1. pc' = "exited" /\ done' = done /\ \A s \in Sessions : unit'[s].pc = "none"
    BY <1>2, AllGone DEF Drain, ProcessGone, NoUnit
  <2> QED BY <1>2, <2>1 DEF OnceInv, Retaken, Types
<1>3. ASSUME NEW arms \in SUBSET Sessions, LoopStep(arms) PROVE OnceInv'
  <2>1. UNCHANGED <<clock, done, mode, starts>> /\ \A s \in Sessions \ arms : unit'[s] = unit[s]
    BY <1>3 DEF LoopStep
  <2>2. SUFFICES ASSUME ~Retaken
                 PROVE  /\ mode = "scheduled" =>
                              \A s \in pending' : unit'[s].pc = "none" /\ s \notin done
                        /\ mode = "hourly" =>
                              \A s \in Sessions : unit'[s].pc # "none" \/ s \in done =>
                                  /\ pc' \in {"prearm", "discover", "ladder"}
                                        => CohortOf[s].open < boundary'
                                  /\ pc' = "past" => CohortOf[s].open <= boundary'
                                  /\ pc' = "top" => CohortOf[s].open <= clock
    BY <2>1 DEF OnceInv, Retaken
  <2>3. ASSUME mode = "scheduled", NEW s \in pending'
        PROVE  unit'[s].pc = "none" /\ s \notin done
    <3>1. s \in pending /\ s \notin arms /\ s \in Sessions
      BY <1>3, <2>3 DEF LoopStep, Types
    <3> QED BY <2>1, <2>2, <2>3, <3>1 DEF OnceInv
  <2>4. ASSUME mode = "hourly", NEW s \in Sessions, unit'[s].pc # "none" \/ s \in done
        PROVE  /\ pc' \in {"prearm", "discover", "ladder"} => CohortOf[s].open < boundary'
               /\ pc' = "past" => CohortOf[s].open <= boundary'
               /\ pc' = "top" => CohortOf[s].open <= clock
    <3>1. HourMoves
      BY <1>3, <2>4 DEF LoopStep
    <3>2. CASE s \in arms
      <4>1. pc = "ladder" /\ pc' = "past" /\ CohortOf[s].open = boundary
        BY <1>3, <2>4, <3>2 DEF LoopStep, OpeningAt
      <4> QED BY <1>0, <3>1, <4>1 DEF HourMoves
    <3>3. CASE s \notin arms
      <4>1. /\ pc \in {"prearm", "discover", "ladder"} => CohortOf[s].open < boundary
            /\ pc = "past" => CohortOf[s].open <= boundary
            /\ pc = "top" => CohortOf[s].open <= clock
        BY <2>1, <2>2, <2>4, <3>3 DEF OnceInv
      <4>2. CASE pc = "top" /\ pc' = "prearm" /\ boundary' > clock
        <5>1. boundary' \in Int
          BY TypeStep DEF Types
        <5> QED BY <1>0, <4>1, <4>2, <5>1 DEF Types
      <4>3. CASE ~(pc = "top" /\ pc' = "prearm" /\ boundary' > clock)
        BY <1>0, <3>1, <4>1, <4>3 DEF HourMoves, Types
      <4> QED BY <4>2, <4>3
    <3> QED BY <3>2, <3>3
  <2> QED BY <2>3, <2>4
<1>4. ASSUME NEW s \in Sessions, UnitStep(s), UNCHANGED loopVars PROVE OnceInv'
  <2>1. OtherUnitsSame(s) /\ TaskMoves(s) /\ clock' = clock
    BY <1>4, UnitMoves
  <2>2. \A t \in Sessions : /\ unit[t].pc = "none" <=> unit'[t].pc = "none"
                            /\ unit[t].pc = "none" => (t \in done <=> t \in done')
                            /\ t \in done => t \in done'
    BY <2>1 DEF TaskMoves, OtherUnitsSame
  <2> QED BY <1>4, <2>1, <2>2 DEF OnceInv, Retaken, Types
<1>5. CASE Checkpoints \/ Scripts \/ World \/ UNCHANGED vars
  <2>1. UNCHANGED <<unit, pc, mode, starts, boundary, pending>> /\ done' \subseteq done
    BY <1>5, Outside DEF vars, MarkersStay
  <2>2. clock' \in Int /\ clock <= clock'
    BY <1>5, TimePasses
  <2>3. \A s \in Sessions : CohortOf[s].open <= clock => CohortOf[s].open <= clock'
    BY <1>0, <2>2 DEF Types
  <2> QED BY <2>1, <2>3 DEF OnceInv, Retaken
<1> QED BY <1>1, <1>2, <1>3, <1>4, <1>5, SupervisorLoops DEF Next, Units, Crash, Redeploy

LEMMA OnceInvariant == Spec => []OnceInv
<1>1. Init => OnceInv
  <2> SUFFICES ASSUME Init PROVE OnceInv
    OBVIOUS
  <2>1. done = {} /\ \A s \in Sessions : unit[s].pc = "none"
    BY DEF Init, NoUnit
  <2>2. pending \subseteq Sessions
    BY DEF Init, PendingAt, ArmOrder
  <2> QED BY <2>1, <2>2 DEF OnceInv
<1>2. Types /\ OnceInv /\ [Next]_vars => OnceInv'
  BY OnceStep
<1> QED BY <1>1, <1>2, TypesHold, PTL DEF Spec
-----------------------------------------------------------------------------
(***************************************************************************)
(* Archives are of stopped units.                                          *)
(***************************************************************************)
\* An archive step of session s is the sweep's first, or one of an archive
\* that has begun.
LEMMA ScriptMoves ==
    ASSUME Types, NEW s \in Sessions, ArchiveStep(s)
    PROVE  /\ \A t \in Sessions, k \in Kinds :
                 Archiving(t, k)' =>
                     Archiving(t, k) \/ (t = s /\ k = "sweep" /\ Sweep(s))
           /\ \/ archived' \subseteq archived
              \/ archived' = archived \cup {s} /\ \E k \in Kinds : Archiving(s, k)
           /\ \/ orphan' = orphan
              \/ Capturing(s) /\ \E k \in Kinds : Archiving(s, k)
<1>0. arch \in Archives /\ raw \in [Sessions -> SUBSET Nat]
  BY DEF Types, Archives
<1>1. CASE ExplicitGuard(s)
  <2>1. OthersSame(s, "explicit") /\ Archiving(s, "explicit")
    BY <1>0, <1>1, ArchiveEnds, ArchiveGoes DEF ExplicitGuard, Archiving, Kinds
  <2> QED BY <1>1, <2>1 DEF ExplicitGuard, OthersSame, Archiving
<1>2. CASE Sweep(s)
  <2>1. OthersSame(s, "sweep")
    BY <1>0, <1>2, ArchiveGoes DEF Sweep, Kinds
  <2> QED BY <1>2, <2>1 DEF Sweep, OthersSame, Archiving
<1>3. CASE CheckpointCopies(s)
  BY <1>3 DEF CheckpointCopies, Archiving
<1>4. ASSUME NEW k \in Kinds,
             \/ Process(s, k) \/ Upload(s, k) \/ CopyTar(s, k) \/ TakeLock(s, k)
             \/ Purge(s, k) \/ MarkArchived(s, k) \/ Prune(s, k)
      PROVE  /\ OthersSame(s, k) /\ Archiving(s, k)
             /\ archived' = archived \/ archived' = archived \cup {s}
             /\ orphan' = orphan \/ Capturing(s)
  <2>1. OthersSame(s, k)
    BY <1>0, <1>4, ArchiveStepped
  <2> QED BY <1>4, <2>1
          DEF Process, Upload, CopyTar, TakeLock, Purge, MarkArchived, Prune, Archiving
<1>5. ASSUME NEW k \in Kinds, OthersSame(s, k), Archiving(s, k)
      PROVE  \A t \in Sessions, j \in Kinds : Archiving(t, j)' => Archiving(t, j)
  BY <1>5 DEF OthersSame, Archiving
<1>6. CASE ExpireHot(s) \/ ReapStub(s)
  BY <1>6 DEF ExpireHot, ReapStub, Archiving
<1> QED BY <1>1, <1>2, <1>3, <1>4, <1>5, <1>6 DEF ArchiveStep

\* No step but a start makes a session retaken.
LEMMA RetakenStays == ASSUME Types, [Next]_vars, Retaken PROVE Retaken'
<1>1. CASE Starts
  BY <1>1 DEF Starts, Retaken, Types
<1>2. CASE Drain /\ UNCHANGED <<mode, starts, boundary, pending>>
  BY <1>2 DEF Retaken
<1>3. ASSUME NEW arms \in SUBSET Sessions, LoopStep(arms) PROVE Retaken'
  BY <1>3 DEF LoopStep, Retaken
<1>4. CASE Units \/ Checkpoints \/ Scripts \/ World \/ UNCHANGED vars
  BY <1>4, Outside DEF Units, vars, Retaken
<1> QED BY <1>1, <1>2, <1>3, <1>4, SupervisorLoops DEF Next, Crash, Redeploy

LEMMA StopStep == ASSUME Types, TaskInv, OnceInv, StopInv, [Next]_vars PROVE StopInv'
<1> SUFFICES ASSUME ~Retaken' PROVE StopInv'
  BY DEF StopInv
<1>0. ~Retaken
  BY RetakenStays
<1>1. CASE Drain \/ Starts
  <2>1. UNCHANGED <<done, archived>> /\ orphan' = {}
    BY <1>1 DEF Drain, Starts, ProcessGone
  <2>2. \A s \in Sessions :
           /\ unit'[s].pc = "none" /\ arch'[s]["explicit"].pc = "none"
           /\ arch'[s]["sweep"] = arch[s]["sweep"]
    BY <1>1, AllGone, RecordTypes DEF Drain, Starts, NoUnit
  <2> QED BY <1>0, <2>1, <2>2 DEF StopInv, Archiving, Kinds
<1>2. ASSUME NEW arms \in SUBSET Sessions, LoopStep(arms) PROVE StopInv'
  <2>1. UNCHANGED <<done, archived, arch, orphan>>
    BY <1>2 DEF LoopStep
  <2>2. \A s \in Sessions :
           unit'[s] = unit[s] \/ (s \notin done /\ unit'[s].pc = "capture")
    BY <1>0, <1>2, FreshArms DEF LoopStep
  <2> QED BY <1>0, <2>1, <2>2 DEF StopInv, Archiving
<1>3. ASSUME NEW s \in Sessions, UnitStep(s) PROVE StopInv'
  <2>1. OtherUnitsSame(s) /\ TaskMoves(s) /\ archived' = archived /\ orphan' \subseteq orphan
    BY <1>3, UnitMoves
  <2>2. CASE unit'[s].pc = unit[s].pc /\ UNCHANGED <<done, arch>>
    BY <1>0, <2>1, <2>2 DEF StopInv, OtherUnitsSame, Archiving
  <2>3. CASE unit[s].pc = "capture" /\ unit'[s].pc = "mark" /\ UNCHANGED <<done, arch>>
    BY <1>0, <2>1, <2>3 DEF StopInv, OtherUnitsSame, Archiving
  <2>4. CASE unit'[s].pc = "spawn" /\ done' = done \cup {s} /\ arch' = arch
    BY <1>0, <2>1, <2>4 DEF StopInv, OtherUnitsSame, Archiving
  <2>5. CASE /\ unit[s].pc = "spawn" /\ unit'[s].pc = "over" /\ done' = done
             /\ OthersSame(s, "explicit")
    <3>1. s \in done
      BY <1>0, <2>5 DEF StopInv
    <3>2. \A t \in Sessions, k \in Kinds : Archiving(t, k)' => Archiving(t, k) \/ t = s
      BY <2>5 DEF OthersSame, Archiving
    <3> QED BY <1>0, <2>1, <2>5, <3>1, <3>2 DEF StopInv, OtherUnitsSame
  <2> QED BY <2>1, <2>2, <2>3, <2>4, <2>5 DEF TaskMoves
<1>4. ASSUME NEW s \in Sessions, ArchiveStep(s) PROVE StopInv'
  <2>1. unit' = unit /\ orphan' = orphan
    BY <1>0, <1>4, ScriptsOutside, ScriptMoves DEF StopInv, Capturing
  <2>2. \A t \in Sessions, k \in Kinds : Archiving(t, k)' => t \in done
    BY <1>0, <1>4, ScriptMoves DEF Sweep, StopInv
  <2>3. \A t \in archived' : t \in Sessions => t \in done
    BY <1>0, <1>4, ScriptMoves DEF StopInv
  <2>4. CASE UNCHANGED <<done, reaped>>
    BY <1>0, <2>1, <2>2, <2>3, <2>4 DEF StopInv
  <2>5. CASE ReapStub(s)
    <3>1. done' = done \ {s} /\ s \notin archived' /\ arch' = arch
      BY <2>5 DEF ReapStub
    <3>2. unit[s].pc # "spawn" /\ \A k \in Kinds : ~Archiving(s, k)
      BY <2>5 DEF ReapStub, UnitArchives, Kinds
    <3>3. \A k \in Kinds : ~Archiving(s, k)'
      BY <3>1, <3>2 DEF Archiving
    <3> QED BY <1>0, <2>1, <2>2, <2>3, <3>1, <3>2, <3>3 DEF StopInv
  <2> QED BY <1>4, <2>4, <2>5, ScriptsOutside
<1>5. CASE Checkpoints \/ World \/ UNCHANGED vars
  <2>1. UNCHANGED <<unit, done, archived, arch, orphan>>
    BY <1>5 DEF Checkpoints, Checkpoint, World, Tick, Signal, GoesQuiet, Settle, vars
  <2> QED BY <1>0, <2>1 DEF StopInv, Archiving
<1> QED BY <1>1, <1>2, <1>3, <1>4, <1>5, SupervisorLoops
        DEF Next, Units, Scripts, Crash, Redeploy

LEMMA StopInvariant == Spec => []StopInv
<1>1. Init => StopInv
  <2> SUFFICES ASSUME Init PROVE StopInv
    OBVIOUS
  <2>1. archived = {} /\ orphan = {} /\ \A s \in Sessions : unit[s].pc = "none"
    BY DEF Init, NoUnit
  <2>2. \A s \in Sessions, k \in Kinds : arch[s][k].pc = "none"
    BY RecordTypes DEF Init
  <2> QED BY <2>1, <2>2 DEF StopInv, Archiving
<1>2. Types /\ TaskInv /\ OnceInv /\ StopInv /\ [Next]_vars => StopInv'
  BY StopStep
<1> QED BY <1>1, <1>2, TypesHold, TaskInvariant, OnceInvariant, PTL DEF Spec

\* No archive works on a session that a unit still captures, whichever of the
\* unit, the sweep and the supervisor is ahead (plan_arms, the sweep's .done).
THEOREM StoppedBeforeArchived == Spec => []ArchivesAreOfStoppedUnits
<1>1. StopInv => ArchivesAreOfStoppedUnits
  BY DEF StopInv, ArchivesAreOfStoppedUnits, Capturing
<1> QED BY <1>1, StopInvariant, PTL
-----------------------------------------------------------------------------
(***************************************************************************)
(* Nothing captured is lost.                                               *)
(***************************************************************************)
\* A session that a step leaves alone stays safe.
LEMMA SafeFrame ==
    ASSUME NEW s \in Sessions, SessionSafe(s),
           raw'[s] = raw[s], written'[s] = written[s], remote'[s] = remote[s],
           s \in archived' <=> s \in archived,
           \A k \in Kinds : arch'[s][k] = arch[s][k] \/ arch'[s][k].pc = "none",
           unit'[s].pc = "spawn" => unit[s].pc = "spawn"
    PROVE  SessionSafe(s)'
<1>1. "sweep" \in Kinds /\ "explicit" \in Kinds
  BY DEF Kinds
<1>2. \A k \in Kinds : ArchiveSafe(s, k)'
  BY DEF ArchiveSafe, SessionSafe
<1>3. Archiving(s, "sweep")' => ~UnitArchives(s)'
  BY <1>1 DEF Archiving, UnitArchives, SessionSafe
<1> QED BY <1>2, <1>3 DEF SessionSafe

\* One archive at a time works on a session.
LEMMA OneArchive ==
    ASSUME NEW s \in Sessions, SessionSafe(s), NEW k \in Kinds, Archiving(s, k),
           NEW j \in Kinds, j # k
    PROVE  arch[s][j].pc = "none"
BY DEF SessionSafe, UnitArchives, Archiving, Kinds

\* A step of the one archive of session s that keeps its part of the invariant
\* keeps that of the session.
LEMMA SafeArchive ==
    ASSUME NEW s \in Sessions, SessionSafe(s), NEW k \in Kinds, Archiving(s, k),
           OthersSame(s, k), unit' = unit, ArchiveSafe(s, k)',
           s \notin archived' => raw'[s] = 1 .. written'[s],
           s \in archived' => remote'[s] = 1 .. written'[s]
    PROVE  SessionSafe(s)'
<1>1. \A j \in Kinds : j # k => arch'[s][j].pc = "none"
  BY OneArchive DEF OthersSame
<1>2. \A j \in Kinds : ArchiveSafe(s, j)'
  BY <1>1 DEF ArchiveSafe
<1>3. Archiving(s, "sweep")' => ~UnitArchives(s)'
  BY <1>1 DEF Archiving, UnitArchives, SessionSafe, Kinds
<1> QED BY <1>2, <1>3 DEF SessionSafe

\* An archive step of session s leaves the other sessions' archives alone.
LEMMA OthersArchives ==
    ASSUME Types, NEW s \in Sessions, ArchiveStep(s), NEW t \in Sessions, t # s
    PROVE  \A j \in Kinds : arch'[t][j] = arch[t][j]
<1>0. arch \in Archives /\ raw \in [Sessions -> SUBSET Nat]
  BY DEF Types, Archives
<1>1. CASE ExplicitGuard(s) \/ Sweep(s)
  BY <1>0, <1>1, ArchiveEnds, ArchiveGoes DEF ExplicitGuard, Sweep, OthersSame, Kinds
<1>2. CASE CheckpointCopies(s) \/ ExpireHot(s) \/ ReapStub(s)
  BY <1>2 DEF CheckpointCopies, ExpireHot, ReapStub
<1>3. ASSUME NEW k \in Kinds,
             \/ Process(s, k) \/ Upload(s, k) \/ CopyTar(s, k) \/ TakeLock(s, k)
             \/ Purge(s, k) \/ MarkArchived(s, k) \/ Prune(s, k)
      PROVE  OthersSame(s, k)
  BY <1>0, <1>3, ArchiveStepped
<1> QED BY <1>1, <1>2, <1>3 DEF ArchiveStep, OthersSame

LEMMA SafeUnit ==
    ASSUME Types, StopInv, ~Retaken, NEW s \in Sessions, UnitStep(s), remote' = remote,
           \A t \in Sessions \ reaped : SessionSafe(t)
    PROVE  \A t \in Sessions \ reaped' : SessionSafe(t)'
<1>0. "explicit" \in Kinds /\ "sweep" \in Kinds
  BY DEF Kinds
<1>1. /\ OtherUnitsSame(s) /\ TaskMoves(s) /\ UNCHANGED <<archived, reaped>>
      /\ UNCHANGED <<raw, written>> \/ Record(s)
  BY UnitMoves
<1>2. ASSUME NEW t \in Sessions \ reaped, t # s PROVE SessionSafe(t)'
  <2>1. raw'[t] = raw[t] /\ written'[t] = written[t] /\ unit'[t] = unit[t]
    BY <1>1, <1>2 DEF Record, OtherUnitsSame, Types
  <2>2. \A k \in Kinds : arch'[t][k] = arch[t][k]
    BY <1>1, <1>2 DEF TaskMoves, OthersSame
  <2> QED BY <1>1, <2>1, <2>2, SafeFrame
<1> SUFFICES ASSUME s \notin reaped PROVE SessionSafe(s)'
  BY <1>1, <1>2
<1>3. CASE Record(s)
  <2>1. s \notin done
    BY <1>3 DEF Record, Capturing, StopInv
  <2>2. s \notin archived /\ s \notin orphan /\ \A k \in Kinds : arch[s][k].pc = "none"
    BY <2>1 DEF StopInv, Archiving
  <2>3. raw[s] = 1 .. written[s] /\ written[s] \in Nat
    BY <2>2 DEF SessionSafe, Types
  <2>4. raw'[s] = raw[s] \cup {written[s] + 1} /\ written'[s] = written[s] + 1
    BY <1>3, <2>2 DEF Record, Types
  <2>5. raw'[s] = 1 .. written'[s]
    BY <2>3, <2>4
  <2>6. arch' = arch
    BY <1>3 DEF Record
  <2> QED BY <1>0, <1>1, <2>2, <2>5, <2>6 DEF SessionSafe, ArchiveSafe, Archiving
<1>4. CASE UNCHANGED <<raw, written>> /\ unit'[s].pc # "spawn" /\ arch' = arch
  BY <1>1, <1>4, SafeFrame
<1>5. CASE UNCHANGED <<raw, written>> /\ unit'[s].pc = unit[s].pc /\ arch' = arch
  BY <1>1, <1>5, SafeFrame
<1>6. CASE UNCHANGED <<raw, written>> /\ unit[s].pc = "mark" /\ arch' = arch
  <2>1. \A k \in Kinds : arch[s][k].pc = "none"
    BY <1>6 DEF StopInv, Archiving
  <2> QED BY <1>0, <1>1, <1>6, <2>1 DEF SessionSafe, ArchiveSafe, Archiving
<1>7. CASE /\ UNCHANGED <<raw, written>> /\ unit[s].pc = "spawn"
           /\ arch'[s]["explicit"] = NewArchive("guard") /\ OthersSame(s, "explicit")
  <2>1. arch[s]["sweep"].pc = "none"
    BY <1>0, <1>7 DEF SessionSafe, UnitArchives, Archiving
  <2>2. arch'[s]["explicit"].pc = "guard" /\ arch'[s]["sweep"].pc = "none"
    BY <1>0, <1>7, <2>1, RecordTypes DEF OthersSame
  <2>3. \A k \in Kinds : ArchiveSafe(s, k)'
    BY <2>2 DEF ArchiveSafe, Kinds
  <2> QED BY <1>1, <1>7, <2>2, <2>3 DEF SessionSafe, Archiving
<1> QED BY <1>1, <1>3, <1>4, <1>5, <1>6, <1>7 DEF TaskMoves

LEMMA SafeScript ==
    ASSUME Types, SweepAlone, NEW s \in Sessions, ArchiveStep(s),
           \A t \in Sessions \ reaped : SessionSafe(t)
    PROVE  \A t \in Sessions \ reaped' : SessionSafe(t)'
<1>0. arch \in Archives /\ raw \in [Sessions -> SUBSET Nat]
  BY DEF Types, Archives
<1>k. "explicit" \in Kinds /\ "sweep" \in Kinds
  BY DEF Kinds
<1>1. UNCHANGED <<unit, written>>
  BY ScriptsOutside
<1>r. CASE ReapStub(s)
  <2>1. \A t \in Sessions : t # s =>
           UNCHANGED <<raw, remote, arch>> /\ (t \in archived' <=> t \in archived)
    BY <1>r DEF ReapStub
  <2>2. reaped' = reaped \cup {s}
    BY <1>r DEF ReapStub
  <2> QED BY <1>1, <2>1, <2>2, SafeFrame
<1> SUFFICES ASSUME ~ReapStub(s) PROVE \A t \in Sessions \ reaped : SessionSafe(t)'
  BY <1>r, ScriptsOutside
<1>o. ASSUME NEW t \in Sessions \ reaped, t # s PROVE SessionSafe(t)'
  <2>1. raw'[t] = raw[t] /\ remote'[t] = remote[t] /\ (t \in archived' <=> t \in archived)
    BY <1>o DEF ArchiveStep, ExplicitGuard, Sweep, CheckpointCopies, Process, Upload, CopyTar,
       TakeLock, Purge, MarkArchived, Prune, ExpireHot, Types
  <2>2. \A j \in Kinds : arch'[t][j] = arch[t][j]
    BY <1>o, OthersArchives DEF OthersSame
  <2> QED BY <1>1, <2>1, <2>2, SafeFrame
<1> SUFFICES ASSUME s \notin reaped PROVE SessionSafe(s)'
  BY <1>o
<1>2. SessionSafe(s)
  OBVIOUS
<1>3. CASE ExplicitGuard(s)
  <2>1. /\ OthersSame(s, "explicit") /\ UNCHANGED <<raw, remote, archived>>
        /\ Archiving(s, "explicit")
    BY <1>0, <1>k, <1>3, ArchiveEnds, ArchiveGoes DEF ExplicitGuard, Archiving
  <2>2. arch'[s]["explicit"].pc = "none" \/ (arch'[s]["explicit"].pc = "process" /\ s \notin archived)
    BY <1>0, <1>k, <1>3, ArchiveEnds, ArchiveGoes, RecordTypes DEF ExplicitGuard
  <2>3. ArchiveSafe(s, "explicit")'
    BY <2>1, <2>2 DEF ArchiveSafe
  <2> QED BY <1>k, <1>1, <1>2, <2>1, <2>3, SafeArchive DEF SessionSafe
<1>4. CASE Sweep(s)
  <2>1. /\ OthersSame(s, "sweep") /\ UNCHANGED <<raw, remote, archived>>
        /\ arch'[s]["sweep"].pc = "process" /\ s \notin archived /\ ~UnitArchives(s)
    BY <1>0, <1>k, <1>4, ArchiveGoes DEF Sweep
  <2>2. arch'[s]["explicit"] = arch[s]["explicit"] /\ arch[s]["explicit"].pc = "none"
    BY <1>k, <2>1 DEF OthersSame, UnitArchives, Archiving
  <2>3. \A k \in Kinds : ArchiveSafe(s, k)'
    BY <2>1, <2>2 DEF ArchiveSafe, Kinds
  <2>4. ~UnitArchives(s)'
    BY <1>1, <2>1, <2>2 DEF UnitArchives, Archiving
  <2> QED BY <1>1, <1>2, <2>1, <2>3, <2>4 DEF SessionSafe
<1>5. CASE CheckpointCopies(s) \/ ExpireHot(s)
  BY <1>1, <1>2, <1>5, SafeFrame DEF CheckpointCopies, ExpireHot
<1>6. ASSUME NEW k \in Kinds,
             \/ Process(s, k) \/ Upload(s, k) \/ CopyTar(s, k) \/ TakeLock(s, k)
             \/ Purge(s, k) \/ MarkArchived(s, k) \/ Prune(s, k)
      PROVE  SessionSafe(s)'
  <2>1. OthersSame(s, k) /\ Archiving(s, k)
    <3>1. OthersSame(s, k)
      BY <1>0, <1>6, ArchiveStepped
    <3> QED BY <1>6, <3>1
            DEF Process, Upload, CopyTar, TakeLock, Purge, MarkArchived, Prune, Archiving
  <2>4. SUFFICES /\ ArchiveSafe(s, k)'
                 /\ s \notin archived' => raw'[s] = 1 .. written[s]
                 /\ s \in archived' => remote'[s] = 1 .. written[s]
    BY <1>1, <1>2, <2>1, SafeArchive
  <2>5. /\ ArchiveSafe(s, k)
        /\ s \notin archived => raw[s] = 1 .. written[s]
        /\ s \in archived => remote[s] = 1 .. written[s]
    BY <1>2 DEF SessionSafe
  <2>6. CASE Process(s, k)
    <3>1. arch'[s][k].pc \in {"none", "upload"}
      BY <1>0, <2>6, ProcessStepped, RecordTypes
    <3> QED BY <1>1, <2>5, <2>6, <3>1 DEF Process, ArchiveSafe
  <2>7. CASE Upload(s, k)
    <3>1. \/ arch'[s][k].pc = "none"
          \/ arch'[s][k].pc = "copy" /\ arch'[s][k].tar = raw[s]
      BY <1>0, <2>7, UploadStepped, RecordTypes
    <3> QED BY <1>1, <2>5, <2>7, <3>1 DEF Upload, ArchiveSafe
  <2>8. CASE CopyTar(s, k)
    <3>1. \/ arch'[s][k].pc = "none"
          \/ /\ arch'[s][k].pc = "lock" /\ arch'[s][k].tar = arch[s][k].tar
             /\ remote' = [remote EXCEPT ![s] = arch[s][k].tar]
      BY <1>0, <2>8, ArchiveEnds, ArchiveGoes, RecordTypes DEF CopyTar
    <3>2. s \notin archived /\ archived' = archived /\ raw' = raw
      BY <2>5, <2>8 DEF CopyTar, ArchiveSafe
    <3>3. arch[s][k].tar = 1 .. written[s]
      BY <2>5, <2>8 DEF CopyTar, ArchiveSafe
    <3>4. arch'[s][k].pc = "lock" => remote'[s] = 1 .. written[s]
      BY <3>1, <3>3 DEF Types
    <3> QED BY <1>1, <2>5, <3>1, <3>2, <3>3, <3>4 DEF ArchiveSafe
  <2>9. CASE TakeLock(s, k)
    <3>1. arch'[s][k].pc = "purge" /\ arch'[s][k].tar = arch[s][k].tar
      BY <1>0, <2>9, TakeLockStepped
    <3> QED BY <1>1, <2>5, <2>9, <3>1 DEF TakeLock, ArchiveSafe
  <2>10. CASE Purge(s, k)
    <3>1. arch'[s][k].pc = "archived" /\ arch'[s][k].tar = arch[s][k].tar
      BY <1>0, <2>10, ArchiveGoes DEF Purge
    <3> QED BY <1>1, <2>5, <2>10, <3>1 DEF Purge, ArchiveSafe
  <2>11. CASE MarkArchived(s, k)
    <3>1. arch'[s][k].pc = "prune"
      BY <1>0, <2>11, ArchiveGoes DEF MarkArchived
    <3> QED BY <1>1, <2>5, <2>11, <3>1 DEF MarkArchived, ArchiveSafe
  <2>12. CASE Prune(s, k)
    <3>1. arch'[s][k].pc = "none"
      BY <1>0, <2>12, ArchiveEnds, RecordTypes DEF Prune
    <3>2. s \in archived /\ UNCHANGED <<archived, remote>>
      BY <2>5, <2>12 DEF Prune, ArchiveSafe
    <3> QED BY <1>1, <2>5, <3>1, <3>2 DEF ArchiveSafe
  <2> QED BY <1>6, <2>6, <2>7, <2>8, <2>9, <2>10, <2>11, <2>12
<1> QED BY <1>3, <1>4, <1>5, <1>6 DEF ArchiveStep

LEMMA SafeStep == ASSUME Types, StopInv, SafeInv, [Next]_vars PROVE SafeInv'
<1> SUFFICES ASSUME SweepAlone, ~Retaken' PROVE \A s \in Sessions \ reaped' : SessionSafe(s)'
  BY DEF SafeInv
<1>0. ~Retaken /\ \A s \in Sessions \ reaped : SessionSafe(s)
  BY RetakenStays DEF SafeInv
<1>1. CASE Drain \/ Starts
  <2>1. UNCHANGED <<archived, reaped, raw, written, remote>>
    BY <1>1 DEF Drain, Starts, ProcessGone
  <2>2. \A s \in Sessions :
           /\ unit'[s].pc = "none" /\ arch'[s]["explicit"].pc = "none"
           /\ arch'[s]["sweep"] = arch[s]["sweep"]
    BY <1>1, AllGone, RecordTypes DEF Drain, Starts, NoUnit
  <2>3. \A s \in Sessions, k \in Kinds : arch'[s][k] = arch[s][k] \/ arch'[s][k].pc = "none"
    BY <2>2 DEF Kinds
  <2> QED BY <1>0, <2>1, <2>2, <2>3, SafeFrame
<1>2. ASSUME NEW arms \in SUBSET Sessions, LoopStep(arms)
      PROVE  \A s \in Sessions \ reaped' : SessionSafe(s)'
  <2>1. /\ UNCHANGED <<archived, reaped, raw, written, remote, arch>>
        /\ \A s \in Sessions : unit'[s].pc = "spawn" => unit[s].pc = "spawn"
    BY <1>2 DEF LoopStep
  <2> QED BY <1>0, <2>1, SafeFrame
<1>3. CASE Units
  BY <1>0, <1>3, SafeUnit DEF Units
<1>4. CASE Scripts
  BY <1>0, <1>4, SafeScript DEF Scripts
<1>5. CASE Checkpoints \/ World \/ UNCHANGED vars
  <2>1. UNCHANGED <<unit, archived, reaped, arch, raw, written, remote>>
    BY <1>5 DEF Checkpoints, Checkpoint, World, Tick, Signal, GoesQuiet, Settle, vars
  <2> QED BY <1>0, <2>1, SafeFrame
<1> QED BY <1>1, <1>2, <1>3, <1>4, <1>5, SupervisorLoops DEF Next, Crash, Redeploy

LEMMA SafeInvariant == Spec => []SafeInv
<1>1. Init => SafeInv
  <2> SUFFICES ASSUME Init, NEW s \in Sessions PROVE SessionSafe(s)
    BY DEF SafeInv
  <2>1. raw[s] = {} /\ written[s] = 0 /\ archived = {}
    BY DEF Init
  <2>2. \A k \in Kinds : arch[s][k].pc = "none"
    BY RecordTypes DEF Init
  <2>3. raw[s] = 1 .. written[s]
    BY <2>1
  <2> QED BY <2>1, <2>2, <2>3 DEF SessionSafe, ArchiveSafe, Archiving, Kinds
<1>2. Types /\ StopInv /\ SafeInv /\ [Next]_vars => SafeInv'
  BY SafeStep
<1> QED BY <1>1, <1>2, TypesHold, StopInvariant, PTL DEF Spec

\* As long as a session's nightly sweep and its unit's own archive do not
\* overlap, every record that was captured is in the session's directory or in
\* the verified tar on the remote, until its stub is reaped, whatever step of a script fails and
\* whenever the process dies (kdp-archive.sh: verify before delete).
THEOREM CapturedStaysSafe == SweepAlone => (Spec => []NothingCapturedIsLost)
<1> SUFFICES ASSUME SweepAlone PROVE Spec => []NothingCapturedIsLost
  OBVIOUS
<1>1. SafeInv => NothingCapturedIsLost
  BY DEF SafeInv, SessionSafe, NothingCapturedIsLost
<1> QED BY <1>1, SafeInvariant, PTL
-----------------------------------------------------------------------------
(***************************************************************************)
(* The cap on the units.                                                   *)
(***************************************************************************)
\* The numbers of A that have fewer than n smaller ones in A are at most n.
LEMMA FirstOnes ==
    ASSUME NEW A \in SUBSET Nat, IsFiniteSet(A), NEW n \in Nat
    PROVE  LET first == {s \in A : Cardinality({t \in A : t < s}) < n}
           IN  IsFiniteSet(first) /\ Cardinality(first) <= n
<1> DEFINE below(s) == {t \in A : t < s}
           first == {s \in A : Cardinality(below(s)) < n}
           rank == [s \in first |-> Cardinality(below(s))]
<1>1. \A s \in A : IsFiniteSet(below(s)) /\ Cardinality(below(s)) \in Nat
  BY FS_Subset, FS_CardinalityType
<1>2. ASSUME NEW s \in A, NEW u \in A, s < u PROVE Cardinality(below(s)) # Cardinality(below(u))
  <2>1. \A t \in A : t < s => t < u
    BY <1>2
  <2>2. below(s) \in SUBSET below(u)
    BY <2>1
  <2>3. s \in below(u) /\ s \notin below(s)
    BY <1>2
  <2> HIDE DEF below
  <2> QED BY <1>1, <2>2, <2>3, FS_Subset
<1> HIDE DEF below
<1>3. rank \in [first -> 0 .. n - 1]
  <2>1. \A s \in first : Cardinality(below(s)) \in 0 .. n - 1
    BY <1>1
  <2> QED BY <2>1
<1>4. ASSUME NEW s \in first, NEW u \in first, s # u PROVE rank[s] # rank[u]
  <2>1. s \in A /\ u \in A /\ (s < u \/ u < s)
    BY <1>4
  <2> QED BY <1>2, <2>1
<1>5. rank \in Injection(first, 0 .. n - 1)
  BY <1>3, <1>4 DEF Injection, IsInjective
<1>6. IsFiniteSet(0 .. n - 1) /\ Cardinality(0 .. n - 1) = n
  BY FS_Interval
<1>7. IsFiniteSet(first) /\ Cardinality(first) <= n
  BY <1>5, <1>6, FS_Injection
<1> QED BY <1>7 DEF below

\* What plan_arms arms fits into what the units in flight leave of the cap.
LEMMA ArmsFit ==
    ASSUME Types, Cardinality(inflight) <= MaxUnits, NEW groups
    PROVE  /\ IsFiniteSet(PlanArms(groups))
           /\ Cardinality(inflight \cup PlanArms(groups)) <= MaxUnits
<1> DEFINE admitted == {s \in Sessions \ (inflight \cup done \cup archived) :
                           groups[s] # {} /\ Gate(CohortOf[s], clock) = "arm"}
           n == MaxUnits - Cardinality(inflight)
           arms == {s \in admitted : Cardinality({t \in admitted : t < s}) < n}
<1>1. arms = PlanArms(groups)
  BY DEF PlanArms
<1>2. IsFiniteSet(inflight) /\ Cardinality(inflight) \in Nat
  BY UnitAssumption, FS_Subset, FS_CardinalityType DEF Types
<1>3. n \in Nat
  BY <1>2, UniverseAssumption
<1>4. admitted \in SUBSET Nat /\ IsFiniteSet(admitted)
  <2>1. admitted \in SUBSET Sessions
    OBVIOUS
  <2> QED BY <2>1, UnitAssumption, FS_Subset
<1> HIDE DEF admitted
<1>5. IsFiniteSet(arms) /\ Cardinality(arms) <= n
  <2> HIDE DEF n
  <2> QED BY <1>3, <1>4, FirstOnes
<1>6. /\ IsFiniteSet(inflight \cup arms)
      /\ Cardinality(inflight \cup arms) <= Cardinality(inflight) + Cardinality(arms)
  <2> HIDE DEF arms
  <2>1. IsFiniteSet(inflight \cap arms) /\ Cardinality(inflight \cap arms) \in Nat
        /\ Cardinality(arms) \in Nat
    BY <1>2, <1>5, FS_Intersection, FS_CardinalityType
  <2> QED BY <1>2, <1>5, <2>1, FS_Union
<1>7. Cardinality(inflight \cup arms) \in Nat /\ Cardinality(arms) \in Nat
  BY <1>5, <1>6, FS_CardinalityType
<1>8. Cardinality(inflight \cup arms) <= MaxUnits
  <2> HIDE DEF arms
  <2> QED BY <1>2, <1>5, <1>6, <1>7, UniverseAssumption
<1> QED BY <1>1, <1>5, <1>8

LEMMA CapStep == ASSUME Types, CapInv, [Next]_vars PROVE CapInv'
<1>1. CASE Drain \/ Starts
  <2>1. inflight' = {}
    BY <1>1 DEF Drain, Starts, ProcessGone
  <2> QED BY <2>1, FS_EmptySet, UniverseAssumption DEF CapInv
<1>2. ASSUME NEW arms \in SUBSET Sessions, LoopStep(arms) PROVE CapInv'
  <2> SUFFICES ASSUME mode = "universe" PROVE Cardinality(inflight') <= MaxUnits
    BY <1>2 DEF LoopStep, CapInv
  <2>1. inflight' \in SUBSET (inflight \cup arms) /\ Cardinality(inflight) <= MaxUnits
    BY <1>2 DEF LoopStep, CapInv
  <2>2. IsFiniteSet(inflight)
    BY UnitAssumption, FS_Subset DEF Types
  <2>3. IsFiniteSet(inflight \cup arms) /\ Cardinality(inflight \cup arms) <= MaxUnits
    <3>1. CASE arms = {}
      <4>1. inflight \cup arms = inflight
        BY <3>1
      <4> QED BY <2>1, <2>2, <4>1
    <3>2. ASSUME NEW groups, arms = PlanArms(groups)
          PROVE  IsFiniteSet(arms) /\ Cardinality(inflight \cup arms) <= MaxUnits
      BY <2>1, <3>2, ArmsFit
    <3> QED BY <1>2, <2>2, <3>1, <3>2, FS_Union DEF LoopStep
  <2>4. /\ Cardinality(inflight') <= Cardinality(inflight \cup arms)
        /\ Cardinality(inflight') \in Nat /\ Cardinality(inflight \cup arms) \in Nat
    BY <2>1, <2>3, FS_Subset, FS_CardinalityType
  <2> QED BY <2>3, <2>4, UniverseAssumption
<1>3. CASE Units \/ Checkpoints \/ Scripts \/ World \/ UNCHANGED vars
  BY <1>3, Outside DEF Units, vars, CapInv
<1> QED BY <1>1, <1>2, <1>3, SupervisorLoops DEF Next, Crash, Redeploy

LEMMA CapInvariant == Spec => []CapInv
<1>1. Init => CapInv
  BY FS_EmptySet, UniverseAssumption DEF Init, CapInv
<1>2. Types /\ CapInv /\ [Next]_vars => CapInv'
  BY CapStep
<1> QED BY <1>1, <1>2, TypesHold, PTL DEF Spec

\* The universe supervisor captures at most --max-units events at a time, in
\* every process and however late it learns that a unit is over (plan_arms,
\* reap_inflight).
THEOREM CapHolds == Spec => []UnitsAreCapped
<1>1. ASSUME Types, TaskInv, CapInv PROVE UnitsAreCapped
  <2> DEFINE capturing == {s \in Sessions : Capturing(s)}
  <2> SUFFICES ASSUME mode = "universe" PROVE Cardinality(capturing) <= MaxUnits
    BY DEF UnitsAreCapped
  <2>1. capturing \in SUBSET inflight
    BY <1>1 DEF TaskInv, Running, Capturing
  <2>2. IsFiniteSet(inflight) /\ Cardinality(inflight) <= MaxUnits
    BY <1>1, UnitAssumption, FS_Subset DEF Types, CapInv
  <2> HIDE DEF capturing
  <2>3. /\ Cardinality(capturing) <= Cardinality(inflight)
        /\ Cardinality(capturing) \in Nat /\ Cardinality(inflight) \in Nat
    BY <2>1, <2>2, FS_Subset, FS_CardinalityType
  <2> QED BY <2>2, <2>3, UniverseAssumption
<1>2. Types /\ TaskInv /\ CapInv => UnitsAreCapped
  BY <1>1
<1> QED BY <1>2, TypesHold, TaskInvariant, CapInvariant, PTL
=============================================================================
