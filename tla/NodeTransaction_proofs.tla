---------------------- MODULE NodeTransaction_proofs ----------------------
(* Proofs about NodeTransaction for every set of processes and parts, every   *)
(* bound and every choice of the points at which processes are killed.        *)
EXTENDS NodeTransaction, TLAPS

-----------------------------------------------------------------------------
(* Typing.  TypeOK is proved in two halves: the processes, and what they      *)
(* share.                                                                     *)

ProcType ==
    /\ lock \in Procs \cup {NoProc}
    /\ pc \in [Procs -> Owning \cup {"idle", "locked", "prune", "fence", "write"}]
    /\ cur \in [Procs -> 0..MaxTx]
    /\ \A p \in Procs : pc[p] \in Owning => cur[p] # 0
    /\ at \in [Procs -> SUBSET Parts]
    /\ failed \in [Procs -> BOOLEAN] /\ operator \in [Procs -> BOOLEAN]
JournalType ==
    /\ dirs \subseteq Tx /\ plan \subseteq Tx
    /\ result \in [Tx -> Active \cup Terminal]
    /\ snap \in [Tx -> [Parts -> File]]
BoundType ==
    /\ nextTx \in 1..(MaxTx + 1)
    /\ crashes \in 0..MaxCrash /\ faults \in 0..MaxFault /\ overrides \in 0..MaxOverride
HistoryType ==
    /\ before \in [Tx -> [Parts -> File]]
    /\ final \subseteq Tx /\ agentDone \in 0..MaxAgent
SharedType == JournalType /\ live \in [Parts -> File] /\ BoundType /\ HistoryType

LEMMA TypeHalves == TypeOK <=> ProcType /\ SharedType
  BY DEF TypeOK, ProcType, SharedType, JournalType, BoundType, HistoryType

LEMMA BlankFile == \A s \in FileState : Blank(s) \in File
  BY BoundAssumption DEF Blank, File

LEMMA BlankFiles == /\ None \in File /\ Torn \in File /\ Absent \in File
                    /\ Blank("ok") \in File
  BY BlankFile DEF None, Torn, Absent, FileState

LEMMA TypeInit == Init => TypeOK
  BY BlankFiles, BoundAssumption DEF Init, TypeOK, Tx, Procs, Active, Terminal, Owning

\* The process half for the two ways a process can move.
LEMMA ExitType ==
  ASSUME ProcType, NEW p \in Procs, Exit(p)
  PROVE  ProcType'
  BY BoundAssumption DEF ProcType, Exit, Owning

\* Writing one file keeps the live node and the snapshots typed.
LEMMA WrittenType ==
  ASSUME NEW f \in File, NEW t \in 0..MaxTx
  PROVE  Written(f, t) \in File
  BY DEF Written, File, FileState

LEMMA LiveType ==
  ASSUME live \in [Parts -> File], NEW x \in Parts, NEW v \in File
  PROVE  [live EXCEPT ![x] = v] \in [Parts -> File]
  OBVIOUS

LEMMA SnapType ==
  ASSUME snap \in [Tx -> [Parts -> File]], NEW t \in Tx, NEW x \in Parts, NEW v \in File
  PROVE  [snap EXCEPT ![t][x] = v] \in [Tx -> [Parts -> File]]
  OBVIOUS

LEMMA RestoredType ==
  ASSUME SharedType, NEW t \in Tx, NEW x \in Parts,
         NEW f \in Restored(t, x) \cup NotRestored(t, x)
  PROVE  f \in File
  <1>1. f \in {None, Torn, snap[t][x], live[x]}
    BY DEF Restored, NotRestored
  <1>2. snap[t][x] \in File /\ live[x] \in File
    BY DEF SharedType, JournalType
  <1> QED  BY <1>1, <1>2, BlankFiles

LEMMA TypeNext == TypeOK /\ [Next]_vars => TypeOK'
  <1> SUFFICES ASSUME ProcType, SharedType, [Next]_vars PROVE ProcType' /\ SharedType'
    BY TypeHalves, PTL
  <1> USE BoundAssumption, PartAssumption DEF Procs, Tx, SharedType, JournalType, BoundType,
        HistoryType, journal, budget, history
  <1>1. ASSUME NEW p \in Cli, Command(p) PROVE ProcType' /\ SharedType'
    <2>1. CASE LockMutation(p)
      <3>1. ProcType'
        BY <2>1 DEF LockMutation, ProcType, Goto, TryLock, Owning
      <3>2. SharedType'
        BY <2>1 DEF LockMutation, Active, Terminal
      <3> QED  BY <3>1, <3>2
    <2>2. CASE Refuse(p)
      <3>1. ProcType'
        BY <2>2, ExitType DEF Refuse
      <3>2. SharedType'
        BY <2>2 DEF Refuse, Active, Terminal
      <3> QED  BY <3>1, <3>2
    <2>3. CASE BeginDir(p)
      <3>1. ProcType'
        BY <2>3 DEF BeginDir, ProcType, Goto, TryLock, Owning
      <3>2. SharedType'
        BY <2>3 DEF BeginDir, Active, Terminal
      <3> QED  BY <3>1, <3>2
    <2>4. CASE BeginPlan(p)
      <3>1. ProcType'
        BY <2>4 DEF BeginPlan, ProcType, Goto, TryLock, Owning
      <3>0. cur[p] \in 0..MaxTx /\ (pc[p] \in Owning => cur[p] \in Tx)
        BY DEF ProcType
      <3>a. JournalType'
        BY <2>4, <3>0 DEF BeginPlan, Active, Terminal, Owning, ProcType, Owning
      <3>b. (live \in [Parts -> File])'
        BY <2>4, <3>0 DEF BeginPlan, Owning, ProcType, Owning
      <3>c. BoundType'
        BY <2>4 DEF BeginPlan
      <3>d. HistoryType'
        BY <2>4, <3>0 DEF BeginPlan, Owning
      <3>2. SharedType'
        BY <3>a, <3>b, <3>c, <3>d
      <3> QED  BY <3>1, <3>2
    <2>5. CASE BeginResult(p)
      <3>1. ProcType'
        BY <2>5 DEF BeginResult, ProcType, Goto, TryLock, Owning
      <3>2. SharedType'
        BY <2>5 DEF BeginResult, Active, Terminal
      <3> QED  BY <3>1, <3>2
    <2>6. CASE SnapOpen(p)
      <3>1. ProcType'
        BY <2>6 DEF SnapOpen, ProcType, Goto, TryLock, Owning
      <3>0. cur[p] \in 0..MaxTx /\ (pc[p] \in Owning => cur[p] \in Tx)
        BY DEF ProcType
      <3>a. JournalType'
        <4> PICK x \in at[p] : snap' = [snap EXCEPT ![cur[p]][x] =
                                  IF live[x].state = "none" THEN Absent ELSE Torn]
          BY <2>6 DEF SnapOpen
        <4> QED
          BY <2>6, <3>0, BlankFiles, SnapType DEF SnapOpen, ProcType, Owning
      <3>b. (live \in [Parts -> File])'
        BY <2>6, <3>0, BlankFiles DEF SnapOpen, Owning
      <3>c. BoundType'
        BY <2>6 DEF SnapOpen
      <3>d. HistoryType'
        BY <2>6, <3>0, BlankFiles DEF SnapOpen, Owning
      <3>2. SharedType'
        BY <3>a, <3>b, <3>c, <3>d
      <3> QED  BY <3>1, <3>2
    <2>7. CASE SnapClose(p)
      <3>1. ProcType'
        BY <2>7 DEF SnapClose, ProcType, Goto, TryLock, Owning
      <3>0. cur[p] \in 0..MaxTx /\ (pc[p] \in Owning => cur[p] \in Tx)
        BY DEF ProcType
      <3>a. JournalType'
        <4> PICK x \in at[p] :
              \/ snap' = [snap EXCEPT ![cur[p]][x] =
                             IF @.state = "absent" THEN Absent ELSE live[x]]
              \/ UNCHANGED snap
          BY <2>7 DEF SnapClose
        <4>1. x \in Parts /\ live[x] \in File /\ cur[p] \in Tx
          BY <2>7, <3>0 DEF SnapClose, ProcType, Owning
        <4>2. snap' \in [Tx -> [Parts -> File]]
          <5> DEFINE v == IF snap[cur[p]][x].state = "absent" THEN Absent ELSE live[x]
          <5>1. v \in File
            BY <4>1, BlankFiles
          <5>2. CASE snap' = [snap EXCEPT ![cur[p]][x] = v]
            BY <4>1, <5>1, <5>2, SnapType
          <5>3. CASE UNCHANGED snap
            BY <5>3
          <5> QED  BY <5>2, <5>3
        <4> QED
          BY <2>7, <4>2 DEF SnapClose
      <3>b. (live \in [Parts -> File])'
        BY <2>7, <3>0, BlankFiles DEF SnapClose, Owning
      <3>c. BoundType'
        BY <2>7 DEF SnapClose
      <3>d. HistoryType'
        BY <2>7, <3>0, BlankFiles DEF SnapClose, Owning
      <3>2. SharedType'
        BY <3>a, <3>b, <3>c, <3>d
      <3> QED  BY <3>1, <3>2
    <2>8. CASE Mutate(p)
      <3>1. ProcType'
        BY <2>8 DEF Mutate, ProcType, Goto, TryLock, Owning
      <3>0. cur[p] \in 0..MaxTx /\ (pc[p] \in Owning => cur[p] \in Tx)
        BY DEF ProcType
      <3>a. JournalType'
        BY <2>8, <3>0 DEF Mutate, Active, Terminal, Owning, File, FileState, ProcType
      <3>b. (live \in [Parts -> File])'
        BY <2>8, <3>0, LiveType, WrittenType DEF Mutate
      <3>c. BoundType'
        BY <2>8 DEF Mutate
      <3>d. HistoryType'
        BY <2>8, <3>0 DEF Mutate, Owning
      <3>2. SharedType'
        BY <3>a, <3>b, <3>c, <3>d
      <3> QED  BY <3>1, <3>2
    <2>9. CASE InstallSubsOpen(p)
      <3>1. ProcType'
        BY <2>9 DEF InstallSubsOpen, ProcType, Goto, TryLock, Owning
      <3>0. cur[p] \in 0..MaxTx /\ (pc[p] \in Owning => cur[p] \in Tx)
        BY DEF ProcType
      <3>a. JournalType'
        BY <2>9, <3>0, BlankFiles DEF InstallSubsOpen, Active, Terminal, Owning
      <3>b. (live \in [Parts -> File])'
        BY <2>9, <3>0, BlankFiles DEF InstallSubsOpen, Owning
      <3>c. BoundType'
        BY <2>9 DEF InstallSubsOpen
      <3>d. HistoryType'
        BY <2>9, <3>0, BlankFiles DEF InstallSubsOpen, Owning
      <3>2. SharedType'
        BY <3>a, <3>b, <3>c, <3>d
      <3> QED  BY <3>1, <3>2
    <2>10. CASE InstallSubsClose(p)
      <3>1. ProcType'
        BY <2>10 DEF InstallSubsClose, ProcType, Goto, TryLock, Owning
      <3>0. cur[p] \in 0..MaxTx /\ (pc[p] \in Owning => cur[p] \in Tx)
        BY DEF ProcType
      <3>a. JournalType'
        <4>1. cur[p] \in Tx
          BY <2>10, <3>0 DEF InstallSubsClose, Owning
        <4>2. snap' \in [Tx -> [Parts -> File]]
          <5>1. CASE snap' = snap
            BY <5>1
          <5>2. CASE snap' = [snap EXCEPT ![cur[p]]["subs"] = live["subs"]]
            <6>1. CASE "subs" \in Parts
              BY <4>1, <5>2, <6>1, SnapType
            <6>2. CASE "subs" \notin Parts
              <7>1. snap' = [snap EXCEPT ![cur[p]] =
                               [snap[cur[p]] EXCEPT !["subs"] = live["subs"]]]
                BY <5>2
              <7>2. [snap[cur[p]] EXCEPT !["subs"] = live["subs"]] = snap[cur[p]]
                BY <4>1, <6>2
              <7> QED  BY <4>1, <7>1, <7>2
            <6> QED  BY <6>1, <6>2
          <5>3. snap' = snap \/ snap' = [snap EXCEPT ![cur[p]]["subs"] = live["subs"]]
            BY <2>10 DEF InstallSubsClose
          <5> QED  BY <5>1, <5>2, <5>3
        <4> QED
          BY <2>10, <4>2 DEF InstallSubsClose
      <3>b. (live \in [Parts -> File])'
        BY <2>10, <3>0, LiveType, WrittenType DEF InstallSubsClose
      <3>c. BoundType'
        BY <2>10 DEF InstallSubsClose
      <3>d. HistoryType'
        BY <2>10, <3>0 DEF InstallSubsClose, Owning
      <3>2. SharedType'
        BY <3>a, <3>b, <3>c, <3>d
      <3> QED  BY <3>1, <3>2
    <2>11. CASE ResnapXrayOpen(p)
      <3>1. ProcType'
        BY <2>11 DEF ResnapXrayOpen, ProcType, Goto, TryLock, Owning
      <3>0. cur[p] \in 0..MaxTx /\ (pc[p] \in Owning => cur[p] \in Tx)
        BY DEF ProcType
      <3>a. JournalType'
        BY <2>11, <3>0, BlankFiles DEF ResnapXrayOpen, Active, Terminal, Owning
      <3>b. (live \in [Parts -> File])'
        BY <2>11, <3>0, BlankFiles DEF ResnapXrayOpen, Owning
      <3>c. BoundType'
        BY <2>11 DEF ResnapXrayOpen
      <3>d. HistoryType'
        BY <2>11, <3>0, BlankFiles DEF ResnapXrayOpen, Owning
      <3>2. SharedType'
        BY <3>a, <3>b, <3>c, <3>d
      <3> QED  BY <3>1, <3>2
    <2>12. CASE ResnapXrayClose(p)
      <3>1. ProcType'
        BY <2>12 DEF ResnapXrayClose, ProcType, Goto, TryLock, Owning
      <3>2. SharedType'
        BY <2>12 DEF ResnapXrayClose, Active, Terminal
      <3> QED  BY <3>1, <3>2
    <2>13. CASE CommitMark(p)
      <3>1. ProcType'
        BY <2>13 DEF CommitMark, ProcType, Goto, TryLock, Owning
      <3>2. SharedType'
        BY <2>13 DEF CommitMark, Active, Terminal
      <3> QED  BY <3>1, <3>2
    <2>14. CASE CommitDisarm(p)
      <3>1. ProcType'
        BY <2>14 DEF CommitDisarm, ProcType, Goto, TryLock, Owning
      <3>0. cur[p] \in 0..MaxTx /\ (pc[p] \in Owning => cur[p] \in Tx)
        BY DEF ProcType
      <3>a. JournalType'
        BY <2>14, <3>0 DEF CommitDisarm, Active, Terminal, Owning, ProcType, Owning
      <3>b. (live \in [Parts -> File])'
        BY <2>14, <3>0 DEF CommitDisarm, Owning, ProcType, Owning
      <3>c. BoundType'
        BY <2>14 DEF CommitDisarm
      <3>d. HistoryType'
        BY <2>14, <3>0 DEF CommitDisarm, Owning
      <3>2. SharedType'
        BY <3>a, <3>b, <3>c, <3>d
      <3> QED  BY <3>1, <3>2
    <2>15. CASE Abort(p)
      <3>1. ProcType'
        BY <2>15 DEF Abort, ProcType, Goto, TryLock, Owning
      <3>2. SharedType'
        BY <2>15 DEF Abort, Active, Terminal
      <3> QED  BY <3>1, <3>2
    <2>16. CASE GateRefuse(p)
      <3>1. ProcType'
        BY <2>16, ExitType DEF GateRefuse
      <3>2. SharedType'
        BY <2>16 DEF GateRefuse, Active, Terminal
      <3> QED  BY <3>1, <3>2
    <2>17. CASE GatePass(p)
      <3>1. ProcType'
        BY <2>17 DEF GatePass, ProcType, Goto, TryLock, Owning
      <3>2. SharedType'
        BY <2>17 DEF GatePass, Active, Terminal
      <3> QED  BY <3>1, <3>2
    <2>18. CASE RestoreRemoveSubs(p)
      <3>1. ProcType'
        BY <2>18 DEF RestoreRemoveSubs, ProcType, Goto, TryLock, Owning
      <3>2. SharedType'
        BY <2>18, BlankFiles DEF RestoreRemoveSubs, Active, Terminal
      <3> QED  BY <3>1, <3>2
    <2>19. CASE RestorePart(p)
      <3>1. ProcType'
        <4>1. failed' \in [Procs -> BOOLEAN]
          BY <2>19 DEF RestorePart, ProcType
        <4> QED  BY <2>19, <4>1 DEF RestorePart, ProcType, Goto, Owning
      <3>0. cur[p] \in 0..MaxTx /\ (pc[p] \in Owning => cur[p] \in Tx)
        BY DEF ProcType
      <3>a. JournalType'
        BY <2>19, <3>0 DEF RestorePart, Active, Terminal
      <3>b. (live \in [Parts -> File])'
        BY <2>19, <3>0, LiveType, RestoredType DEF RestorePart, ProcType, Owning
      <3>c. BoundType'
        BY <2>19 DEF RestorePart
      <3>d. HistoryType'
        BY <2>19, <3>0, BlankFiles DEF RestorePart, Owning
      <3>2. SharedType'
        BY <3>a, <3>b, <3>c, <3>d
      <3> QED  BY <3>1, <3>2
    <2>20. CASE RestoreFault(p)
      <3>1. ProcType'
        BY <2>20 DEF RestoreFault, ProcType, Goto, TryLock, Owning
      <3>0. cur[p] \in 0..MaxTx /\ (pc[p] \in Owning => cur[p] \in Tx)
        BY DEF ProcType
      <3>a. JournalType'
        BY <2>20, <3>0, BlankFiles DEF RestoreFault, Active, Terminal, Owning
      <3>b. (live \in [Parts -> File])'
        BY <2>20, <3>0, BlankFiles DEF RestoreFault, Owning
      <3>c. BoundType'
        BY <2>20 DEF RestoreFault
      <3>d. HistoryType'
        BY <2>20, <3>0, BlankFiles DEF RestoreFault, Owning
      <3>2. SharedType'
        BY <3>a, <3>b, <3>c, <3>d
      <3> QED  BY <3>1, <3>2
    <2>21. CASE FinishRollback(p)
      <3>1. ProcType'
        <4>1. CASE Exit(p)
          BY <4>1, ExitType
        <4>2. CASE ~Exit(p)
          <5>1. Goto(p, "prune") /\ cur' = [cur EXCEPT ![p] = 0]
                 /\ UNCHANGED <<lock, at, failed, operator>>
            BY <2>21, <4>2 DEF FinishRollback
          <5>2. cur' \in [Procs -> 0..MaxTx] /\ \A q \in Procs \ {p} : cur'[q] = cur[q]
            BY <5>1 DEF ProcType
          <5>3. "prune" \notin Owning
            BY DEF Owning
          <5> QED  BY <5>1, <5>2, <5>3 DEF ProcType, Goto
        <4> QED  BY <4>1, <4>2
      <3>2. SharedType'
        BY <2>21 DEF FinishRollback, Active, Terminal
      <3> QED  BY <3>1, <3>2
    <2>22. CASE RecoverChoose(p)
      <3>1. ProcType'
        BY <2>22 DEF RecoverChoose, ProcType, Goto, TryLock, Owning, Incomplete, Listed, SharedType, JournalType
      <3>2. SharedType'
        BY <2>22 DEF RecoverChoose, Active, Terminal
      <3> QED  BY <3>1, <3>2
    <2>23. CASE RecoverLock(p)
      <3>1. ProcType'
        BY <2>23 DEF RecoverLock, ProcType, Goto, TryLock, Owning
      <3>2. SharedType'
        BY <2>23 DEF RecoverLock, Active, Terminal
      <3> QED  BY <3>1, <3>2
    <2>24. CASE RecoverBusy(p)
      <3>1. ProcType'
        BY <2>24, ExitType DEF RecoverBusy
      <3>2. SharedType'
        BY <2>24 DEF RecoverBusy, Active, Terminal
      <3> QED  BY <3>1, <3>2
    <2>25. CASE RecoverResolve(p)
      <3>1. ProcType'
        BY <2>25, ExitType DEF RecoverResolve, ProcType, Goto, TryLock, Owning
      <3>2. SharedType'
        BY <2>25 DEF RecoverResolve, Active, Terminal
      <3> QED  BY <3>1, <3>2
    <2>26. CASE PruneFile(p)
      <3>1. ProcType'
        BY <2>26 DEF PruneFile, ProcType, Goto, TryLock, Owning, Prunable, Listed, SharedType, JournalType
      <3>0. cur[p] \in 0..MaxTx /\ (pc[p] \in Owning => cur[p] \in Tx)
        BY DEF ProcType
      <3>a. JournalType'
        <4> PICK t \in Prunable, keepPlan, keepResult, keepSnap \in BOOLEAN :
              /\ plan' = IF keepPlan THEN plan ELSE plan \ {t}
              /\ result' = IF keepResult THEN result ELSE [result EXCEPT ![t] = "none"]
              /\ snap' = IF keepSnap THEN snap
                         ELSE [snap EXCEPT ![t] = [x \in Parts |-> None]]
          BY <2>26 DEF PruneFile
        <4>1. snap' \in [Tx -> [Parts -> File]]
          BY BlankFiles
        <4>2. result' \in [Tx -> Active \cup Terminal]
          BY DEF Active
        <4> QED
          BY <2>26, <4>1, <4>2 DEF PruneFile
      <3>b. (live \in [Parts -> File])'
        BY <2>26, <3>0, BlankFiles DEF PruneFile, Owning
      <3>c. BoundType'
        BY <2>26 DEF PruneFile
      <3>d. HistoryType'
        BY <2>26, <3>0, BlankFiles DEF PruneFile, Owning
      <3>2. SharedType'
        BY <3>a, <3>b, <3>c, <3>d
      <3> QED  BY <3>1, <3>2
    <2>27. CASE PruneDir(p)
      <3>1. ProcType'
        BY <2>27 DEF PruneDir, ProcType, Goto, TryLock, Owning
      <3>2. SharedType'
        BY <2>27, BlankFiles DEF PruneDir, Active, Terminal
      <3> QED  BY <3>1, <3>2
    <2>28. CASE PruneDone(p)
      <3>1. ProcType'
        BY <2>28, ExitType DEF PruneDone
      <3>2. SharedType'
        BY <2>28 DEF PruneDone, Active, Terminal
      <3> QED  BY <3>1, <3>2
    <2>29. CASE OverrideDir(p)
      <3>1. ProcType'
        BY <2>29 DEF OverrideDir, ProcType, Goto, TryLock, Owning
      <3>2. SharedType'
        BY <2>29 DEF OverrideDir, Active, Terminal
      <3> QED  BY <3>1, <3>2
    <2>30. CASE OverrideApply(p)
      <3>1. ProcType'
        BY <2>30, ExitType DEF OverrideApply
      <3>0. cur[p] \in 0..MaxTx /\ (pc[p] \in Owning => cur[p] \in Tx)
        BY DEF ProcType
      <3>a. JournalType'
        BY <2>30, <3>0 DEF OverrideApply, Active, Terminal, Owning, File, ProcType
      <3>b. (live \in [Parts -> File])'
        BY <2>30, <3>0, LiveType, WrittenType DEF OverrideApply
      <3>c. BoundType'
        BY <2>30 DEF OverrideApply
      <3>d. HistoryType'
        BY <2>30, <3>0 DEF OverrideApply, Owning
      <3>2. SharedType'
        BY <3>a, <3>b, <3>c, <3>d
      <3> QED  BY <3>1, <3>2
    <2> QED
      BY <1>1, <2>1, <2>2, <2>3, <2>4, <2>5, <2>6, <2>7, <2>8, <2>9, <2>10, <2>11,
         <2>12, <2>13, <2>14, <2>15, <2>16, <2>17, <2>18, <2>19, <2>20, <2>21,
         <2>22, <2>23, <2>24, <2>25, <2>26, <2>27, <2>28, <2>29, <2>30
      DEF Command, Begin, Snapshot, Body, Commit, Rollback, Recover, Prune, Override
  <1>2. CASE AgentStep
    <2>1. ProcType'
      BY <1>2, ExitType DEF AgentStep, AgentLock, AgentFence, AgentWrite, TryLock, Goto,
         ProcType, Owning
    <2>2. SharedType'
      <3>1. CASE AgentLock
        BY <3>1 DEF AgentLock
      <3>2. CASE AgentFence
        BY <3>2 DEF AgentFence
      <3>3. CASE AgentWrite
        <4>1. agentDone + 1 \in 0..MaxAgent /\ live["db"] \in File
          BY <3>3 DEF AgentWrite
        <4>2. [live["db"] EXCEPT !.agent = agentDone + 1] \in File
          BY <4>1 DEF File
        <4> QED
          BY <3>3, <4>1, <4>2 DEF AgentWrite
      <3> QED  BY <1>2, <3>1, <3>2, <3>3 DEF AgentStep
    <2> QED  BY <2>1, <2>2
  <1>3. ASSUME NEW p \in Procs, Crash(p) PROVE ProcType' /\ SharedType'
    <2>1. ProcType'
      BY <1>3, ExitType DEF Crash
    <2>2. pc[p] \in {"marked", "gate"} => cur[p] \in Tx
      BY <1>3 DEF ProcType, Owning
    <2>3. final' \subseteq Tx
      <3>1. final' = final \/ (pc[p] \in {"marked", "gate"} /\ final' = final \cup {cur[p]})
        BY <1>3 DEF Crash
      <3> QED  BY <2>2, <3>1
    <2>4. SharedType'
      BY <1>3, <2>3 DEF Crash
    <2> QED  BY <2>1, <2>4
  <1>4. CASE UNCHANGED vars
    BY <1>4 DEF vars, ProcType
  <1> QED
    BY <1>1, <1>2, <1>3, <1>4 DEF Next

\* TypeOK holds in every reachable state.
THEOREM TypeCorrect == Spec => []TypeOK
  BY TypeInit, TypeNext, PTL DEF Spec
-----------------------------------------------------------------------------
(* One transaction at a time.  OneIncomplete is not inductive: a step of the  *)
(* command that holds the lock preserves it because of what that command      *)
(* found when it took the lock, so the invariant says for every program point *)
(* what may be incomplete there.                                              *)

\* Only the holder of the lock is past taking it.
Exclusion == \A p \in Procs : pc[p] \notin {"idle", "chosen"} => lock = p

\* Directories are numbered in the order in which they are created.
Fresh == /\ \A t \in dirs \cup plan : t < nextTx
         /\ \A p \in Procs : cur[p] < nextTx

\* Where nothing is incomplete, and where at most the own transaction is.
Clear == {"plan", "marked", "write"}
Mine == {"result", "snap", "copy", "mutate", "recopy", "resnap", "gate", "restore",
         "check", "prune"}
Phase(p) == /\ pc[p] \in Clear => Incomplete = {}
            /\ pc[p] \in Mine => Incomplete \subseteq {cur[p]}

IInv == /\ TypeOK /\ Exclusion /\ Fresh /\ OneIncomplete
        /\ \A p \in Procs : Phase(p)

\* What a step of the holder p has to show.
LEMMA HolderStep ==
  ASSUME IInv, TypeOK', NEW p \in Procs,
         pc[p] \notin {"idle", "chosen"} \/ lock = NoProc,
         \A q \in Procs \ {p} : pc'[q] = pc[q] /\ cur'[q] = cur[q],
         pc'[p] \notin {"idle", "chosen"} => lock' = p,
         Fresh',
         Incomplete' \subseteq Incomplete \/ \E c \in 0..MaxTx : Incomplete' \subseteq {c},
         Phase(p)'
  PROVE  IInv'
  <1>1. \A q \in Procs \ {p} : pc[q] \in {"idle", "chosen"}
    BY ProcAssumption DEF IInv, Exclusion
  <1>2. \A q \in Procs \ {p} : Phase(q)'
    BY <1>1 DEF Phase, Clear, Mine
  <1>3. Exclusion'
    BY <1>1 DEF Exclusion
  <1>4. OneIncomplete'
    BY DEF IInv, OneIncomplete
  <1> QED  BY <1>2, <1>3, <1>4 DEF IInv

\* A process without the lock leaves the journal alone.
LEMMA IdleStep ==
  ASSUME IInv, TypeOK', NEW p \in Procs, pc'[p] \in {"idle", "chosen"},
         pc[p] \in {"idle", "chosen"},
         \A q \in Procs \ {p} : pc'[q] = pc[q] /\ cur'[q] = cur[q],
         lock' = lock \/ lock = p,
         cur'[p] < nextTx, UNCHANGED <<journal, nextTx>>
  PROVE  IInv'
  <1>1. Incomplete' = Incomplete
    BY DEF journal, Incomplete, Listed
  <1>2. Exclusion'
    BY ProcAssumption DEF IInv, Exclusion
  <1>3. Fresh'
    BY DEF IInv, Fresh, journal
  <1>4. \A q \in Procs : Phase(q)'
    BY <1>1 DEF IInv, Phase, Clear, Mine
  <1> QED  BY <1>1, <1>2, <1>3, <1>4 DEF IInv, OneIncomplete

LEMMA ExitEffect ==
  ASSUME TypeOK, NEW p \in Procs, Exit(p)
  PROVE  /\ pc'[p] = "idle" /\ cur'[p] = 0
         /\ \A q \in Procs \ {p} : pc'[q] = pc[q] /\ cur'[q] = cur[q]
         /\ lock' = lock \/ lock = p
  BY DEF TypeOK, Exit

LEMMA GotoEffect ==
  ASSUME TypeOK, NEW p \in Procs, NEW l, Goto(p, l)
  PROVE  pc'[p] = l /\ \A q \in Procs \ {p} : pc'[q] = pc[q]
  BY DEF TypeOK, Goto

LEMMA IncompleteIsTx == TypeOK => Incomplete \subseteq Tx /\ Incomplete \subseteq dirs
  BY DEF TypeOK, Incomplete, Listed

\* Steps of the holder, by what they do to the journal.
LEMMA QuietStep ==    \* nothing
  ASSUME IInv, TypeOK', NEW p \in Procs, pc[p] \notin {"idle", "chosen"},
         NEW l \in {"gate", "mutate", "copy", "snap", "recopy", "resnap", "restore", "check"},
         Goto(p, l), pc[p] \in Mine \cup Clear,
         UNCHANGED <<lock, cur, dirs, plan, result, nextTx>>
  PROVE  IInv'
  <1>1. Incomplete' = Incomplete
    BY DEF Incomplete, Listed
  <1>2. pc'[p] = l /\ \A q \in Procs \ {p} : pc'[q] = pc[q]
    BY GotoEffect DEF IInv
  <1>3. Fresh'
    BY DEF IInv, Fresh
  <1>4. Phase(p)'
    BY <1>1, <1>2 DEF IInv, Phase, Clear, Mine
  <1> QED  BY <1>1, <1>2, <1>3, <1>4, HolderStep DEF IInv, Exclusion

LEMMA ResultStep ==    \* the status of its own transaction
  ASSUME IInv, TypeOK', NEW p \in Procs, pc[p] \in Mine, cur[p] \in Tx,
         NEW s \in Active \cup Terminal, result' = [result EXCEPT ![cur[p]] = s],
         UNCHANGED <<dirs, plan, nextTx>>
  PROVE  /\ Incomplete' \subseteq {cur[p]}
         /\ s \in Terminal => Incomplete' = {}
  <1>1. Incomplete \subseteq {cur[p]} /\ result \in [Tx -> Active \cup Terminal]
    BY DEF IInv, Phase, TypeOK
  <1>2. \A t \in Incomplete' : t \in Listed /\ result'[t] \in Active
    BY DEF Incomplete, Listed
  <1>3. \A t \in Incomplete' : t \in Tx
    BY IncompleteIsTx, <1>2 DEF Listed, IInv, TypeOK
  <1>4. \A t \in Incomplete' : t = cur[p]
    BY <1>1, <1>2, <1>3 DEF Incomplete
  <1>5. s \in Terminal => s \notin Active
    BY DEF Active, Terminal
  <1>6. result'[cur[p]] = s
    BY <1>1
  <1> QED  BY <1>2, <1>4, <1>5, <1>6

\* A process ends and leaves the journal alone.
LEMMA ExitStep ==
  ASSUME IInv, TypeOK', NEW p \in Procs, Exit(p), UNCHANGED <<journal, nextTx>>
  PROVE  IInv'
  <1>1. /\ pc'[p] = "idle" /\ cur'[p] = 0 /\ 0 < nextTx
        /\ \A q \in Procs \ {p} : pc'[q] = pc[q] /\ cur'[q] = cur[q]
        /\ lock' = lock \/ lock = p
    BY ExitEffect DEF IInv, TypeOK
  <1>2. CASE pc[p] \in {"idle", "chosen"}
    BY <1>1, <1>2, IdleStep
  <1>3. CASE pc[p] \notin {"idle", "chosen"}
    <2>1. Incomplete' = Incomplete
      BY DEF journal, Incomplete, Listed
    <2>2. Fresh'
      BY <1>1 DEF IInv, Fresh, journal
    <2>3. Phase(p)'
      BY <1>1 DEF Phase, Clear, Mine
    <2> QED  BY <1>1, <1>3, <2>1, <2>2, <2>3, HolderStep
  <1> QED  BY <1>2, <1>3

LEMMA InvInit == Init => IInv
  <1> SUFFICES ASSUME Init PROVE IInv
    OBVIOUS
  <1>1. Incomplete = {}
    BY DEF Init, Incomplete, Listed
  <1> QED
    BY <1>1, TypeInit DEF IInv, Init, Exclusion, Fresh, OneIncomplete, Phase, Clear, Mine

LEMMA CommandStep ==
  ASSUME IInv, TypeOK', NEW p \in Cli, Command(p)
  PROVE  IInv'
  <1> p \in Procs
    BY DEF Procs
  <1> USE DEF journal, budget
  <1>0. /\ TypeOK /\ Exclusion /\ Fresh /\ Phase(p) /\ cur[p] < nextTx
        /\ pc \in [Procs -> Owning \cup {"idle", "locked", "prune", "fence", "write"}]
        /\ cur \in [Procs -> 0..MaxTx] /\ Incomplete \subseteq Tx
        /\ pc[p] \in Owning => cur[p] \in Tx
        /\ nextTx \in 1..(MaxTx + 1) /\ MaxTx \in Nat
    <2>1. TypeOK /\ Exclusion /\ Fresh /\ Phase(p) /\ cur[p] < nextTx
      BY DEF IInv, Fresh
    <2>2. pc[p] \in Owning => cur[p] \in Tx
      BY <2>1, BoundAssumption DEF TypeOK, Tx
    <2> QED  BY <2>1, <2>2, IncompleteIsTx, BoundAssumption DEF TypeOK
  \* Taking the lock.
  <1>1. ASSUME NEW l \in {"locked", "resolve"}, TryLock(p, l), pc[p] \in {"idle", "chosen"},
               UNCHANGED <<cur, dirs, plan, result, nextTx>>
        PROVE  IInv'
    <2>1. pc'[p] = l /\ \A q \in Procs \ {p} : pc'[q] = pc[q]
      BY <1>0, <1>1, GotoEffect DEF TryLock
    <2>2. Incomplete' = Incomplete /\ Fresh'
      BY <1>0, <1>1 DEF Incomplete, Listed, Fresh
    <2>3. Phase(p)'
      BY <1>1, <2>1 DEF Phase, Clear, Mine
    <2> QED  BY <1>1, <2>1, <2>2, <2>3, HolderStep DEF TryLock
  <1>2. CASE LockMutation(p)
    BY <1>1, <1>2 DEF LockMutation
  <1>3. CASE RecoverLock(p)
    BY <1>1, <1>3 DEF RecoverLock
  \* Ending.
  <1>4. CASE Refuse(p) \/ RecoverBusy(p) \/ PruneDone(p)
    BY <1>4, ExitStep DEF Refuse, RecoverBusy, PruneDone
  \* Opening a directory.
  <1>5. ASSUME pc[p] = "locked", NEW l \in {"plan", "override"}, Goto(p, l),
               cur' = [cur EXCEPT ![p] = nextTx], dirs' = dirs \cup {nextTx},
               nextTx' = nextTx + 1, l = "plan" => Incomplete = {},
               UNCHANGED <<lock, plan, result>>
        PROVE  IInv'
    <2>1. pc'[p] = l /\ \A q \in Procs \ {p} : pc'[q] = pc[q] /\ cur'[q] = cur[q]
      BY <1>0, <1>5, GotoEffect
    <2>2. nextTx \notin plan
      BY <1>0 DEF Fresh
    <2>3. Incomplete' = Incomplete
      BY <1>5, <2>2 DEF Incomplete, Listed
    <2>4. Fresh'
      BY <1>0, <1>5 DEF Fresh, TypeOK, Tx
    <2>5. Phase(p)'
      BY <1>5, <2>1, <2>3 DEF Phase, Clear, Mine
    <2> QED  BY <1>0, <1>5, <2>1, <2>3, <2>4, <2>5, HolderStep DEF Exclusion
  <1>6. CASE BeginDir(p)
    BY <1>5, <1>6 DEF BeginDir
  <1>7. CASE OverrideDir(p)
    BY <1>5, <1>7 DEF OverrideDir
  <1>8. CASE OverrideApply(p)
    BY <1>8, ExitStep DEF OverrideApply
  <1>9. CASE BeginPlan(p)
    <2>1. pc'[p] = "result" /\ \A q \in Procs \ {p} : pc'[q] = pc[q]
      BY <1>0, <1>9, GotoEffect DEF BeginPlan
    <2>2. Incomplete' \subseteq {cur[p]}
      BY <1>0, <1>9 DEF BeginPlan, Incomplete, Listed, Phase, Clear
    <2>3. Fresh'
      BY <1>0, <1>9 DEF BeginPlan, Fresh
    <2>4. Phase(p)'
      BY <1>9, <2>1, <2>2 DEF BeginPlan, Phase, Clear, Mine
    <2> QED  BY <1>0, <1>9, <2>1, <2>2, <2>3, <2>4, HolderStep DEF BeginPlan, Exclusion
  \* Writing the own result and going on to l, or ending.
  <1>10. ASSUME pc[p] \in Mine \ {"prune"}, NEW s \in Active \cup Terminal,
                result' = [result EXCEPT ![cur[p]] = s],
                UNCHANGED <<dirs, plan, nextTx>>,
                pc'[p] \in {"snap", "marked", "restore", "prune", "idle"},
                \A q \in Procs \ {p} : pc'[q] = pc[q] /\ cur'[q] = cur[q],
                lock' = lock \/ pc'[p] = "idle",
                cur'[p] \in {0, cur[p]}, pc'[p] \in {"snap", "restore"} => cur'[p] = cur[p],
                pc'[p] \in {"marked", "prune"} => s \in Terminal
         PROVE  IInv'
    <2>1. cur[p] \in Tx
      BY <1>0, <1>10 DEF Mine, Owning
    <2>2. Incomplete' \subseteq {cur[p]} /\ (s \in Terminal => Incomplete' = {})
      BY <1>10, <2>1, ResultStep
    <2>3. Fresh'
      BY <1>0, <1>10 DEF Fresh
    <2>4. Phase(p)'
      BY <1>10, <2>2 DEF Phase, Clear, Mine
    <2>5. pc[p] \notin {"idle", "chosen"}
      BY <1>10 DEF Mine
    <2> QED  BY <1>0, <1>10, <2>2, <2>3, <2>4, <2>5, HolderStep DEF Exclusion
  <1>11. CASE BeginResult(p)
    <2>1. pc'[p] = "snap" /\ \A q \in Procs \ {p} : pc'[q] = pc[q]
      BY <1>0, <1>11, GotoEffect DEF BeginResult
    <2> QED  BY <1>10, <1>11, <2>1 DEF BeginResult, Mine, Active
  <1>12. CASE CommitMark(p)
    <2>1. pc'[p] = "marked" /\ \A q \in Procs \ {p} : pc'[q] = pc[q]
      BY <1>0, <1>12, GotoEffect DEF CommitMark
    <2> QED  BY <1>10, <1>12, <2>1 DEF CommitMark, Mine, Terminal
  <1>13. CASE GatePass(p)
    <2>1. pc'[p] = "restore" /\ \A q \in Procs \ {p} : pc'[q] = pc[q]
      BY <1>0, <1>13, GotoEffect DEF GatePass
    <2> QED  BY <1>10, <1>13, <2>1 DEF GatePass, Mine, Active
  <1>14. CASE GateRefuse(p)
    BY <1>0, <1>10, <1>14, ExitEffect DEF GateRefuse, Mine, Active
  <1>15. CASE FinishRollback(p)
    <2> PICK ok \in PostCheck :
          /\ result' = [result EXCEPT ![cur[p]] =
                           IF ok /\ ~failed[p] THEN "rolled_back" ELSE "rollback_failed"]
          /\ IF (ok /\ ~failed[p]) /\ operator[p]
             THEN /\ Goto(p, "prune")
                  /\ cur' = [cur EXCEPT ![p] = 0]
                  /\ UNCHANGED <<lock, at, failed, operator>>
             ELSE Exit(p)
      BY <1>15 DEF FinishRollback
    <2>1. CASE Exit(p)
      <3>1. PICK s \in Active \cup Terminal : result' = [result EXCEPT ![cur[p]] = s]
        BY DEF Active, Terminal
      <3> QED  BY <1>0, <1>10, <1>15, <2>1, <3>1, ExitEffect DEF FinishRollback, Mine
    <2>2. CASE ~Exit(p)
      <3>1. /\ Goto(p, "prune") /\ cur' = [cur EXCEPT ![p] = 0] /\ UNCHANGED lock
            /\ result' = [result EXCEPT ![cur[p]] = "rolled_back"]
        BY <2>2
      <3>2. pc'[p] = "prune" /\ \A q \in Procs \ {p} : pc'[q] = pc[q]
        BY <1>0, <3>1, GotoEffect
      <3> QED  BY <1>0, <1>10, <1>15, <3>1, <3>2 DEF FinishRollback, Mine, Terminal
    <2> QED  BY <2>1, <2>2
  <1>16. CASE CommitDisarm(p)
    <2>1. /\ pc'[p] = "prune" /\ cur'[p] = 0
          /\ \A q \in Procs \ {p} : pc'[q] = pc[q] /\ cur'[q] = cur[q]
      BY <1>0, <1>16, GotoEffect DEF CommitDisarm
    <2>2. Incomplete = {} /\ Incomplete' = {}
      BY <1>0, <1>16 DEF CommitDisarm, Phase, Clear, Incomplete, Listed
    <2>3. Fresh'
      BY <1>0, <1>16, <2>1 DEF CommitDisarm, Fresh
    <2>4. Phase(p)'
      BY <2>1, <2>2 DEF Phase, Clear, Mine
    <2> QED  BY <1>0, <1>16, <2>1, <2>2, <2>3, <2>4, HolderStep DEF CommitDisarm, Exclusion
  \* Steps that leave the journal's listing alone.
  <1>17. ASSUME pc[p] \in {"mutate", "restore"}, UNCHANGED <<pc, lock, cur, dirs, plan, result, nextTx>>
         PROVE  IInv'
    <2>1. Incomplete' = Incomplete
      BY <1>17 DEF Incomplete, Listed
    <2> QED  BY <1>17, <2>1 DEF IInv, Exclusion, Fresh, OneIncomplete, Phase
  <1>18. CASE Mutate(p) \/ RestoreRemoveSubs(p)
    BY <1>17, <1>18 DEF Mutate, RestoreRemoveSubs
  <1>19. CASE SnapOpen(p) \/ InstallSubsOpen(p) \/ InstallSubsClose(p)
              \/ ResnapXrayOpen(p) \/ ResnapXrayClose(p) \/ Abort(p)
    BY <1>19, QuietStep DEF SnapOpen, InstallSubsOpen, InstallSubsClose,
       ResnapXrayOpen, ResnapXrayClose, Abort, Mine, Clear
  <1>20. CASE SnapClose(p)
    <2>1. Goto(p, "mutate") \/ Goto(p, "snap")
      BY <1>20 DEF SnapClose
    <2> QED  BY <1>20, <2>1, QuietStep DEF SnapClose, Mine
  <1>21. CASE RestorePart(p) \/ RestoreFault(p)
    <2>1. Goto(p, "check") \/ Goto(p, "restore")
      BY <1>21 DEF RestorePart, RestoreFault
    <2> QED  BY <1>21, <2>1, QuietStep DEF RestorePart, RestoreFault, Mine
  \* Recovery.
  <1>22. CASE RecoverChoose(p)
    <2>1. /\ pc'[p] = "chosen" /\ cur'[p] \in Incomplete
          /\ \A q \in Procs \ {p} : pc'[q] = pc[q] /\ cur'[q] = cur[q]
      BY <1>0, <1>22, GotoEffect DEF RecoverChoose
    <2>2. cur'[p] < nextTx
      BY <1>0, <2>1, IncompleteIsTx DEF Fresh
    <2> QED  BY <1>22, <2>1, <2>2, IdleStep DEF RecoverChoose
  <1>23. CASE RecoverResolve(p)
    <2>1. CASE cur[p] \in Incomplete
      <3>1. pc'[p] = "gate" /\ \A q \in Procs \ {p} : pc'[q] = pc[q]
        BY <1>0, <1>23, <2>1, GotoEffect DEF RecoverResolve
      <3>2. UNCHANGED <<lock, cur, dirs, plan, result, nextTx>>
        BY <1>23, <2>1 DEF RecoverResolve
      <3>3. Incomplete' = Incomplete /\ Incomplete \subseteq {cur[p]}
        BY <2>1, <3>2 DEF IInv, OneIncomplete, Incomplete, Listed
      <3>4. Fresh'
        BY <1>0, <3>2 DEF Fresh
      <3>5. Phase(p)'
        BY <3>1, <3>2, <3>3 DEF Phase, Clear, Mine
      <3> QED  BY <1>0, <1>23, <3>1, <3>2, <3>3, <3>4, <3>5, HolderStep DEF RecoverResolve, Exclusion
    <2>2. CASE cur[p] \notin Incomplete
      BY <1>23, <2>2, ExitStep DEF RecoverResolve
    <2> QED  BY <2>1, <2>2
  \* Pruning.
  <1>24. CASE PruneFile(p)
    <2> PICK t \in Prunable, keepPlan, keepResult \in BOOLEAN :
          /\ cur' = [cur EXCEPT ![p] = t]
          /\ plan' = IF keepPlan THEN plan ELSE plan \ {t}
          /\ result' = IF keepResult THEN result ELSE [result EXCEPT ![t] = "none"]
      BY <1>24 DEF PruneFile
    <2>1. t \in dirs \cap plan /\ t \in Tx
      BY <1>0 DEF Prunable, Listed, TypeOK
    <2>2. Incomplete \subseteq {0} /\ Incomplete = {}
      BY <1>0, <1>24 DEF PruneFile, Phase, Mine, Tx
    <2>3. dirs' = dirs /\ plan' \subseteq plan /\ \A u \in Tx \ {t} : result'[u] = result[u]
      BY <1>0, <1>24 DEF PruneFile, TypeOK
    <2>4. \A u \in Incomplete' : u \in Tx /\ u \in dirs /\ u \in plan /\ result'[u] \in Active
      BY <1>0, <2>3 DEF Incomplete, Listed, TypeOK
    <2>5. Incomplete' \subseteq {t}
      BY <2>2, <2>3, <2>4 DEF Incomplete, Listed
    <2>6. cur'[p] = t /\ pc' = pc /\ lock' = lock /\ nextTx' = nextTx
          /\ \A q \in Procs \ {p} : cur'[q] = cur[q]
      BY <1>0, <1>24 DEF PruneFile
    <2>7. Fresh'
      BY <1>0, <2>1, <2>3, <2>6 DEF Fresh
    <2>8. Phase(p)'
      BY <1>24, <2>5, <2>6 DEF PruneFile, Phase, Clear, Mine
    <2>9. pc[p] = "prune" /\ t \in 0..MaxTx
      BY <1>0, <1>24, <2>1 DEF PruneFile, Tx
    <2> QED  BY <1>0, <2>5, <2>6, <2>7, <2>8, <2>9, HolderStep DEF Exclusion
  <1>25. CASE PruneDir(p)
    <2>1. Incomplete \subseteq {cur[p]} /\ cur[p] \in Tx
      BY <1>0, <1>25 DEF PruneDir, Phase, Mine, Tx
    <2>2. Incomplete' \subseteq Incomplete \ {cur[p]}
      BY <1>0, <1>25 DEF PruneDir, Incomplete, Listed, TypeOK
    <2>3. cur'[p] = 0 /\ pc' = pc /\ lock' = lock /\ nextTx' = nextTx
          /\ \A q \in Procs \ {p} : cur'[q] = cur[q]
      BY <1>0, <1>25 DEF PruneDir
    <2>4. Fresh'
      BY <1>0, <1>25, <2>3 DEF PruneDir, Fresh
    <2>5. Phase(p)'
      BY <1>25, <2>1, <2>2, <2>3 DEF PruneDir, Phase, Clear, Mine
    <2> QED  BY <1>0, <1>25, <2>2, <2>3, <2>4, <2>5, HolderStep DEF PruneDir, Exclusion
  <1> QED
    BY <1>2, <1>3, <1>4, <1>6, <1>7, <1>8, <1>9, <1>11, <1>12, <1>13, <1>14, <1>15, <1>16,
       <1>18, <1>19, <1>20, <1>21, <1>22, <1>23, <1>24, <1>25
    DEF Command, Begin, Snapshot, Body, Commit, Rollback, Recover, Prune, Override

LEMMA AgentInv ==
  ASSUME IInv, TypeOK', AgentStep
  PROVE  IInv'
  <1> Agent \in Procs
    BY DEF Procs
  <1> USE DEF journal, budget
  <1>0. TypeOK /\ Exclusion /\ Fresh
    BY DEF IInv
  <1>1. CASE AgentLock
    <2>1. pc'[Agent] = "fence" /\ \A q \in Procs \ {Agent} : pc'[q] = pc[q]
      BY <1>0, <1>1, GotoEffect DEF AgentLock, TryLock
    <2>2. Incomplete' = Incomplete /\ Fresh'
      BY <1>0, <1>1 DEF AgentLock, Incomplete, Listed, Fresh
    <2>3. Phase(Agent)'
      BY <2>1 DEF Phase, Clear, Mine
    <2> QED  BY <1>1, <2>1, <2>2, <2>3, HolderStep DEF AgentLock, TryLock
  <1>2. CASE AgentFence /\ Fence
    <2>1. pc'[Agent] = "write" /\ \A q \in Procs \ {Agent} : pc'[q] = pc[q]
      BY <1>0, <1>2, GotoEffect DEF AgentFence
    <2>2. Incomplete' = Incomplete /\ Fresh'
      BY <1>0, <1>2 DEF AgentFence, Incomplete, Listed, Fresh
    <2>3. Incomplete = {}
      BY <1>2 DEF Fence, Incomplete, Listed, Active, Terminal
    <2>4. Phase(Agent)'
      BY <2>1, <2>2, <2>3 DEF Phase, Clear, Mine
    <2> QED  BY <1>0, <1>2, <2>1, <2>2, <2>4, HolderStep DEF AgentFence, Exclusion
  <1>3. CASE AgentFence /\ ~Fence
    BY <1>3, ExitStep DEF AgentFence
  <1>4. CASE AgentWrite
    BY <1>4, ExitStep DEF AgentWrite
  <1> QED  BY <1>1, <1>2, <1>3, <1>4 DEF AgentStep

LEMMA InvNext == IInv /\ [Next]_vars => IInv'
  <1> SUFFICES ASSUME IInv, [Next]_vars PROVE IInv'
    OBVIOUS
  <1>1. TypeOK'
    BY TypeNext DEF IInv
  <1>2. CASE \E p \in Cli : Command(p)
    BY <1>1, <1>2, CommandStep
  <1>3. CASE AgentStep
    BY <1>1, <1>3, AgentInv
  <1>4. CASE \E p \in Procs : Crash(p)
    BY <1>1, <1>4, ExitStep DEF Crash
  <1>5. CASE UNCHANGED vars
    BY <1>1, <1>5 DEF vars, journal, budget, IInv, Exclusion, Fresh, OneIncomplete, Phase,
       Incomplete, Listed
  <1> QED  BY <1>2, <1>3, <1>4, <1>5 DEF Next

LEMMA Invariance == Spec => []IInv
  BY InvInit, InvNext, PTL DEF Spec

\* Whatever is killed or fails where, no two transactions are incomplete at once.
THEOREM AtMostOneIncomplete == Spec => []OneIncomplete
  BY Invariance, PTL DEF IInv
-----------------------------------------------------------------------------
(* Who may change the live node.  `auto override` is the one command that     *)
(* does so without a transaction; without it, every change is covered.        *)

NoOverriding == \A p \in Procs : pc[p] # "override"

LEMMA NoOverridingNext ==
  ASSUME MaxOverride = 0, TypeOK, NoOverriding, [Next]_vars
  PROVE  NoOverriding'
  <1>0. overrides = 0 /\ pc \in [Procs -> Owning \cup {"idle", "locked", "prune", "fence", "write"}]
    BY BoundAssumption DEF TypeOK
  <1>1. ASSUME NEW p \in Cli, Command(p) PROVE NoOverriding'
    <2>1. CASE LockMutation(p) \/ Begin(p) \/ Snapshot(p) \/ Commit(p) \/ Abort(p)
      BY <1>0, <2>1 DEF NoOverriding, LockMutation, TryLock, Begin, Refuse, BeginDir,
         BeginPlan, BeginResult, Snapshot, SnapOpen, SnapClose, Commit, CommitMark,
         CommitDisarm, Abort, Goto, Exit
    <2>2. CASE Body(p)
      BY <1>0, <2>2 DEF NoOverriding, Body, Mutate, InstallSubsOpen, InstallSubsClose,
         ResnapXrayOpen, ResnapXrayClose, Goto
    <2>3. CASE Rollback(p)
      BY <1>0, <2>3 DEF NoOverriding, Rollback, GateRefuse, GatePass, RestoreRemoveSubs,
         RestorePart, RestoreFault, FinishRollback, Goto, Exit
    <2>4. CASE RecoverChoose(p) \/ RecoverLock(p) \/ Recover(p) \/ Prune(p)
      BY <1>0, <2>4 DEF NoOverriding, RecoverChoose, RecoverLock, TryLock, Recover,
         RecoverBusy, RecoverResolve, Prune, PruneFile, PruneDir, PruneDone, Goto, Exit
    <2>5. CASE Override(p)
      BY <1>0, <2>5 DEF NoOverriding, Override, OverrideDir, OverrideApply, Exit
    <2> QED  BY <1>1, <2>1, <2>2, <2>3, <2>4, <2>5 DEF Command
  <1>2. CASE AgentStep
    BY <1>0, <1>2 DEF NoOverriding, AgentStep, AgentLock, AgentFence, AgentWrite, TryLock,
       Goto, Exit
  <1>3. CASE \E p \in Procs : Crash(p)
    BY <1>0, <1>3 DEF NoOverriding, Crash, Exit
  <1>4. CASE UNCHANGED vars
    BY <1>4 DEF vars, NoOverriding
  <1> QED  BY <1>1, <1>2, <1>3, <1>4 DEF Next

LEMMA WritesGuarded ==
  ASSUME IInv, NoOverriding, [Next]_vars, live' # live, NEW t \in Incomplete
  PROVE  \E p \in Cli : lock = p /\ cur[p] = t
  <1>0. \A p \in Cli : p \in Procs
    BY DEF Procs
  <1>1. ASSUME NEW p \in Cli, Command(p) PROVE lock = p /\ cur[p] = t
    <2>1. \/ pc[p] \in {"mutate", "recopy", "restore"}
          \/ OverrideApply(p)
      <3>1. CASE LockMutation(p) \/ Begin(p) \/ Snapshot(p) \/ Commit(p) \/ Abort(p)
        BY <3>1 DEF LockMutation, Begin, Refuse, BeginDir, BeginPlan, BeginResult, Snapshot,
           SnapOpen, SnapClose, Commit, CommitMark, CommitDisarm, Abort
      <3>2. CASE Body(p)
        BY <3>2 DEF Body, Mutate, InstallSubsOpen, InstallSubsClose, ResnapXrayOpen,
           ResnapXrayClose
      <3>3. CASE Rollback(p)
        BY <3>3 DEF Rollback, GateRefuse, GatePass, RestoreRemoveSubs, RestorePart,
           RestoreFault, FinishRollback
      <3>4. CASE RecoverChoose(p) \/ RecoverLock(p) \/ Recover(p) \/ Prune(p)
        BY <3>4 DEF RecoverChoose, RecoverLock, Recover, RecoverBusy, RecoverResolve, Prune,
           PruneFile, PruneDir, PruneDone
      <3>5. CASE Override(p)
        BY <3>5 DEF Override, OverrideDir
      <3> QED  BY <1>1, <3>1, <3>2, <3>3, <3>4, <3>5 DEF Command
    <2>2. pc[p] \in {"mutate", "recopy", "restore"}
      BY <1>0, <2>1 DEF OverrideApply, NoOverriding
    <2> QED  BY <1>0, <2>2 DEF IInv, Exclusion, Phase, Mine
  <1>2. ~AgentStep
    <2> SUFFICES ASSUME AgentStep PROVE FALSE
      OBVIOUS
    <2>1. pc[Agent] = "write" /\ Agent \in Procs
      BY DEF AgentStep, AgentLock, AgentFence, AgentWrite, Procs
    <2> QED  BY <2>1 DEF IInv, Phase, Clear
  <1>3. ~\E p \in Procs : Crash(p)
    BY DEF Crash
  <1>4. ~UNCHANGED vars
    BY DEF vars
  <1> QED  BY <1>1, <1>2, <1>3, <1>4 DEF Next

\* While a transaction is incomplete, only its own command or its recovery
\* changes the live node: whatever is killed when, if nobody overrides.
THEOREM GuardedWrites ==
  ASSUME MaxOverride = 0
  PROVE  Spec => NoWriteOverInterrupted
  <1>1. Init => NoOverriding
    BY DEF Init, NoOverriding
  <1>2. TypeOK /\ NoOverriding /\ [Next]_vars => NoOverriding'
    BY NoOverridingNext
  <1>3. IInv /\ NoOverriding /\ [Next]_vars =>
          [live' # live => \A t \in Incomplete : \E p \in Cli : lock = p /\ cur[p] = t]_vars
    BY WritesGuarded
  <1> QED  BY <1>1, <1>2, <1>3, TypeCorrect, Invariance, PTL DEF Spec, NoWriteOverInterrupted
=============================================================================
