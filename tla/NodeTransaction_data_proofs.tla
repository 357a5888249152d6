------------------ MODULE NodeTransaction_data_proofs ------------------
(* What a command has committed and what the Agent has written stays, a       *)
(* rollback restores what was there, and the journal implements AtomicNode:   *)
(* proofs for every constant under which no kill falls into prune().          *)
EXTENDS NodeTransaction_proofs

-----------------------------------------------------------------------------
(* Committed commands.  A kill in the middle of prune() is excluded: it may   *)
(* leave a committed transaction that reads as in_progress.                   *)

\* Where a process works on a transaction that has not committed for good.
Held == {"plan", "result", "snap", "copy", "mutate", "recopy", "resnap", "marked",
         "gate", "restore", "check", "override"}

\* Nobody is pruning t.
Kept(t) == \A p \in Procs : ~(pc[p] = "prune" /\ cur[p] = t)

FinalInv ==
    /\ \A t \in final : t < nextTx /\ result[t] \in {"committed", "none"}
    /\ \A p \in Procs : pc[p] \in Held => cur[p] \notin final
    /\ \A p \in Procs : pc[p] = "marked" => result[cur[p]] = "committed"
    /\ \A t \in final \cap Incomplete : ~Kept(t)

\* What a step of the holder p has to show.
LEMMA FinalHolder ==
  ASSUME IInv, FinalInv, NEW p \in Procs,
         pc[p] \notin {"idle", "chosen"} \/ lock = NoProc,
         \A q \in Procs \ {p} : pc'[q] = pc[q] /\ cur'[q] = cur[q],
         \A t \in final' : t < nextTx' /\ result'[t] \in {"committed", "none"},
         pc'[p] \in Held => cur'[p] \notin final',
         pc'[p] = "marked" => result'[cur'[p]] = "committed",
         \A t \in final' \cap Incomplete' : pc'[p] = "prune" /\ cur'[p] = t
  PROVE  FinalInv'
  <1>1. \A q \in Procs \ {p} : pc'[q] \in {"idle", "chosen"}
    BY ProcAssumption DEF IInv, Exclusion
  <1> QED  BY <1>1 DEF FinalInv, Held, Kept

\* A holder that is not pruning finds no final transaction incomplete.
LEMMA FinalUse ==
  ASSUME IInv, FinalInv, NEW p \in Procs, pc[p] \notin {"idle", "chosen", "prune"}
  PROVE  final \cap Incomplete = {}
  <1>1. \A q \in Procs : pc[q] # "prune"
    BY DEF IInv, Exclusion
  <1> QED  BY <1>1 DEF FinalInv, Kept

LEMMA FinalExit ==
  ASSUME IInv, FinalInv, NEW p \in Procs, Exit(p), pc[p] # "prune" \/ Incomplete = {},
         UNCHANGED <<journal, nextTx, final>>
  PROVE  FinalInv'
  <1>1. pc'[p] = "idle" /\ \A q \in Procs \ {p} : pc'[q] = pc[q] /\ cur'[q] = cur[q]
    BY ExitEffect DEF IInv
  <1>2. Incomplete' = Incomplete
    BY DEF journal, Incomplete, Listed
  <1>3. \A t : Incomplete # {} /\ ~Kept(t) => ~Kept(t)'
    BY <1>1 DEF Kept
  <1> QED  BY <1>1, <1>2, <1>3 DEF FinalInv, Held, journal

LEMMA FinalCommand ==
  ASSUME IInv, FinalInv, IInv', NEW p \in Cli, Command(p)
  PROVE  FinalInv'
  <1> p \in Procs
    BY DEF Procs
  <1> USE DEF journal, budget
  <1>0. /\ TypeOK /\ Exclusion /\ Fresh /\ Phase(p)
        /\ result \in [Tx -> Active \cup Terminal] /\ nextTx \in Nat
        /\ pc[p] \in Owning => cur[p] \in Tx
        /\ final \subseteq Tx
    <2>1. TypeOK /\ Exclusion /\ Fresh /\ Phase(p)
      BY DEF IInv
    <2>2. pc[p] \in Owning => cur[p] \in Tx
      BY <2>1, BoundAssumption DEF TypeOK, Tx
    <2> QED  BY <2>1, <2>2, BoundAssumption DEF TypeOK
  <1>a. pc[p] \in Held => cur[p] \notin final
    BY DEF FinalInv
  \* The lock is taken, or the process ends.
  <1>1. CASE LockMutation(p) \/ RecoverLock(p)
    <2>1. PICK l \in {"locked", "resolve"} : TryLock(p, l)
      BY <1>1 DEF LockMutation, RecoverLock
    <2>2. pc'[p] = l /\ \A q \in Procs \ {p} : pc'[q] = pc[q]
      BY <1>0, <2>1, GotoEffect DEF TryLock
    <2>3. Incomplete' = Incomplete
      BY <1>1 DEF LockMutation, RecoverLock, Incomplete, Listed
    <2>4. \A q \in Procs : pc[q] # "prune"
      BY <2>1, ProcAssumption DEF IInv, Exclusion, TryLock
    <2>5. final \cap Incomplete = {}
      BY <2>4 DEF FinalInv, Kept
    <2>6. UNCHANGED <<cur, result, nextTx, final>>
      BY <1>1 DEF LockMutation, RecoverLock, history
    <2> QED  BY <2>1, <2>2, <2>3, <2>5, <2>6, FinalHolder DEF FinalInv, Held, TryLock
  <1>2. CASE Refuse(p) \/ RecoverBusy(p) \/ OverrideApply(p)
    BY <1>2, FinalExit DEF Refuse, RecoverBusy, OverrideApply, history
  <1>3. CASE PruneDone(p)
    <2>1. Incomplete = {}
      BY <1>0, <1>3, IncompleteIsTx DEF PruneDone, Phase, Mine, Tx
    <2> QED  BY <1>3, <2>1, FinalExit DEF PruneDone, history
  \* A new directory.
  <1>4. CASE BeginDir(p) \/ OverrideDir(p)
    <2>1. PICK l \in {"plan", "override"} : Goto(p, l)
      BY <1>4 DEF BeginDir, OverrideDir
    <2>2. pc'[p] = l /\ \A q \in Procs \ {p} : pc'[q] = pc[q]
      BY <1>0, <2>1, GotoEffect
    <2>3. /\ cur'[p] = nextTx /\ \A q \in Procs \ {p} : cur'[q] = cur[q]
          /\ nextTx' = nextTx + 1 /\ UNCHANGED <<result, final>> /\ pc[p] = "locked"
      BY <1>0, <1>4 DEF BeginDir, OverrideDir, TypeOK, history
    <2>4. nextTx \notin plan
      BY <1>0 DEF Fresh
    <2>5. Incomplete' = Incomplete
      BY <1>4, <2>4 DEF BeginDir, OverrideDir, Incomplete, Listed
    <2>6. final \cap Incomplete = {}
      BY <2>3, FinalUse
    <2>7. \A t \in final : t < nextTx' /\ t # nextTx /\ result'[t] \in {"committed", "none"}
      BY <1>0, <2>3 DEF FinalInv, Tx
    <2> QED  BY <2>2, <2>3, <2>5, <2>6, <2>7, FinalHolder
  \* The own transaction: opened, marked, rolled back.
  <1>5. ASSUME pc[p] \in Held \ {"override"}, pc'[p] \in Held \cup {"idle", "prune"},
               \A q \in Procs \ {p} : pc'[q] = pc[q] /\ cur'[q] = cur[q],
               pc'[p] \in Held => cur'[p] = cur[p],
               UNCHANGED <<final, nextTx>>,
               \A t \in Tx \ {cur[p]} : result'[t] = result[t],
               \A t \in Incomplete' : t \in Incomplete \/ t = cur[p],
               pc'[p] = "marked" => result'[cur[p]] = "committed"
        PROVE  FinalInv'
    <2>1. final \cap Incomplete = {}
      BY <1>5, FinalUse DEF Held
    <2>2. cur[p] \notin final
      BY <1>5 DEF FinalInv
    <2>3. \A t \in final : t < nextTx' /\ result'[t] \in {"committed", "none"}
      BY <1>0, <1>5, <2>2 DEF FinalInv
    <2> QED  BY <1>5, <2>1, <2>2, <2>3, FinalHolder DEF Held
  <1>6. CASE BeginPlan(p)
    <2>1. pc'[p] = "result" /\ \A q \in Procs \ {p} : pc'[q] = pc[q]
      BY <1>0, <1>6, GotoEffect DEF BeginPlan
    <2>2. \A t \in Incomplete' : t \in Incomplete \/ t = cur[p]
      BY <1>6 DEF BeginPlan, Incomplete, Listed
    <2> QED  BY <1>5, <1>6, <2>1, <2>2 DEF BeginPlan, Held, history
  <1>7. CASE BeginResult(p) \/ CommitMark(p) \/ GatePass(p) \/ GateRefuse(p) \/ FinishRollback(p)
    <2>1. /\ pc[p] \in Held \ {"override"} /\ cur[p] \in Tx
          /\ UNCHANGED <<dirs, plan, final, nextTx>>
      BY <1>0, <1>7 DEF BeginResult, CommitMark, GatePass, GateRefuse, FinishRollback, Held,
         Owning, history
    <2>2. PICK s \in Active \cup Terminal : result' = [result EXCEPT ![cur[p]] = s]
      <3>1. CASE FinishRollback(p)
        <4> PICK ok \in PostCheck : result' = [result EXCEPT ![cur[p]] =
                               IF ok /\ ~failed[p] THEN "rolled_back" ELSE "rollback_failed"]
          BY <3>1 DEF FinishRollback
        <4> QED  BY DEF Active, Terminal
      <3>2. CASE ~FinishRollback(p)
        BY <1>7, <3>2 DEF BeginResult, CommitMark, GatePass, GateRefuse, Active, Terminal
      <3> QED  BY <3>1, <3>2
    <2>3. \A t \in Incomplete' : t \in Incomplete \/ t = cur[p]
      <3>1. \A t \in Incomplete' : t \in Listed /\ result'[t] \in Active /\ t \in Tx
        BY <1>0, <2>1 DEF Incomplete, Listed, TypeOK
      <3> QED  BY <1>0, <2>2, <3>1 DEF Incomplete
    <2>4. \A t \in Tx \ {cur[p]} : result'[t] = result[t]
      BY <1>0, <2>2
    <2>5. CASE Exit(p)
      <3>1. pc'[p] = "idle" /\ \A q \in Procs \ {p} : pc'[q] = pc[q] /\ cur'[q] = cur[q]
        BY <1>0, <2>5, ExitEffect
      <3> QED  BY <1>5, <2>1, <2>3, <2>4, <3>1 DEF Held
    <2>6. CASE FinishRollback(p) /\ ~Exit(p)
      <3>1. Goto(p, "prune") /\ cur' = [cur EXCEPT ![p] = 0]
        BY <2>6 DEF FinishRollback
      <3>2. /\ pc'[p] = "prune"
            /\ \A q \in Procs \ {p} : pc'[q] = pc[q] /\ cur'[q] = cur[q]
        BY <1>0, <3>1, GotoEffect
      <3> QED  BY <1>5, <2>1, <2>3, <2>4, <3>2 DEF Held
    <2>7. CASE BeginResult(p) \/ CommitMark(p) \/ GatePass(p)
      <3>1. PICK l \in {"snap", "marked", "restore"} :
              Goto(p, l) /\ (l = "marked" => result'[cur[p]] = "committed")
        BY <1>0, <2>1, <2>7 DEF BeginResult, CommitMark, GatePass
      <3>2. pc'[p] = l /\ \A q \in Procs \ {p} : pc'[q] = pc[q]
        BY <1>0, <3>1, GotoEffect
      <3>3. UNCHANGED cur
        BY <2>7 DEF BeginResult, CommitMark, GatePass
      <3> QED  BY <1>5, <2>1, <2>3, <2>4, <3>1, <3>2, <3>3 DEF Held
    <2> QED  BY <1>7, <2>5, <2>6, <2>7 DEF GateRefuse
  <1>8. ASSUME pc[p] \in Held \ {"override"}, NEW l \in Held \ {"marked"}, Goto(p, l),
               UNCHANGED <<cur, dirs, plan, result, final, nextTx>>
        PROVE  FinalInv'
    <2>1. pc'[p] = l /\ \A q \in Procs \ {p} : pc'[q] = pc[q]
      BY <1>0, <1>8, GotoEffect
    <2>2. Incomplete' = Incomplete
      BY <1>8 DEF Incomplete, Listed
    <2> QED  BY <1>5, <1>8, <2>1, <2>2
  <1>9. CASE SnapOpen(p) \/ InstallSubsOpen(p) \/ InstallSubsClose(p)
              \/ ResnapXrayOpen(p) \/ ResnapXrayClose(p) \/ Abort(p)
    BY <1>8, <1>9 DEF SnapOpen, InstallSubsOpen, InstallSubsClose, ResnapXrayOpen,
       ResnapXrayClose, Abort, Held, history
  <1>10. CASE SnapClose(p)
    <2>1. Goto(p, "mutate") \/ Goto(p, "snap")
      BY <1>10 DEF SnapClose
    <2> QED  BY <1>8, <1>10, <2>1 DEF SnapClose, Held, history
  <1>11. CASE RestorePart(p) \/ RestoreFault(p)
    <2>1. Goto(p, "check") \/ Goto(p, "restore")
      BY <1>11 DEF RestorePart, RestoreFault
    <2> QED  BY <1>8, <1>11, <2>1 DEF RestorePart, RestoreFault, Held, history
  <1>12. CASE Mutate(p) \/ RestoreRemoveSubs(p)
    <2>1. UNCHANGED <<pc, cur, dirs, plan, result, nextTx, final>>
      BY <1>12 DEF Mutate, RestoreRemoveSubs, history
    <2>2. Incomplete' = Incomplete
      BY <2>1 DEF Incomplete, Listed
    <2> QED  BY <2>1, <2>2 DEF FinalInv, Kept
  <1>13. CASE CommitDisarm(p)
    <2>1. /\ pc'[p] = "prune" /\ cur'[p] = 0
          /\ \A q \in Procs \ {p} : pc'[q] = pc[q] /\ cur'[q] = cur[q]
      BY <1>0, <1>13, GotoEffect DEF CommitDisarm, TypeOK
    <2>2. Incomplete' = {}
      BY <1>0, <1>13 DEF CommitDisarm, Phase, Clear, Incomplete, Listed
    <2>3. final' = final \cup {cur[p]} /\ result[cur[p]] = "committed" /\ cur[p] < nextTx
      BY <1>0, <1>13 DEF CommitDisarm, FinalInv, Fresh
    <2>4. \A t \in final' : t < nextTx' /\ result'[t] \in {"committed", "none"}
      BY <1>13, <2>3 DEF CommitDisarm, FinalInv
    <2>5. pc[p] \notin {"idle", "chosen"}
      BY <1>13 DEF CommitDisarm
    <2> QED  BY <2>1, <2>2, <2>4, <2>5, FinalHolder DEF Held
  \* Recovery.
  <1>14. CASE RecoverChoose(p)
    <2>1. pc'[p] = "chosen" /\ \A q \in Procs \ {p} : pc'[q] = pc[q] /\ cur'[q] = cur[q]
      BY <1>0, <1>14, GotoEffect DEF RecoverChoose
    <2>2. Incomplete' = Incomplete /\ UNCHANGED <<result, nextTx, final>> /\ pc[p] = "idle"
      BY <1>14 DEF RecoverChoose, Incomplete, Listed, history
    <2> QED  BY <2>1, <2>2 DEF FinalInv, Kept, Held
  <1>15. CASE RecoverResolve(p)
    <2>1. CASE cur[p] \in Incomplete
      <3>1. pc'[p] = "gate" /\ \A q \in Procs \ {p} : pc'[q] = pc[q]
        BY <1>0, <1>15, <2>1, GotoEffect DEF RecoverResolve
      <3>2. UNCHANGED <<cur, dirs, plan, result, nextTx, final>> /\ pc[p] = "resolve"
        BY <1>15, <2>1 DEF RecoverResolve, history
      <3>3. Incomplete' = Incomplete
        BY <3>2 DEF Incomplete, Listed
      <3>4. final \cap Incomplete = {}
        BY <3>2, FinalUse
      <3> QED  BY <2>1, <3>1, <3>2, <3>3, <3>4, FinalHolder DEF FinalInv
    <2>2. CASE cur[p] \notin Incomplete
      BY <1>15, <2>2, FinalExit DEF RecoverResolve, history
    <2> QED  BY <2>1, <2>2
  \* Pruning.
  <1>16. CASE PruneFile(p)
    <2> PICK t \in Prunable, keepPlan, keepResult \in BOOLEAN :
          /\ cur' = [cur EXCEPT ![p] = t]
          /\ result' = IF keepResult THEN result ELSE [result EXCEPT ![t] = "none"]
      BY <1>16 DEF PruneFile
    <2>1. pc' = pc /\ pc[p] = "prune" /\ cur'[p] = t
          /\ (\A q \in Procs \ {p} : cur'[q] = cur[q])
          /\ UNCHANGED <<final, nextTx>>
      BY <1>0, <1>16 DEF PruneFile, TypeOK, history
    <2>2. \A u \in final : u < nextTx' /\ result'[u] \in {"committed", "none"}
      BY <1>0, <2>1 DEF FinalInv
    <2>3. Incomplete' \subseteq {t}
      BY <2>1 DEF IInv, Phase, Mine
    <2> QED  BY <2>1, <2>2, <2>3, FinalHolder DEF Held
  <1>17. CASE PruneDir(p)
    <2>1. pc' = pc /\ pc[p] = "prune" /\ cur'[p] = 0
          /\ (\A q \in Procs \ {p} : cur'[q] = cur[q])
          /\ UNCHANGED <<final, nextTx>>
      BY <1>0, <1>17 DEF PruneDir, TypeOK, history
    <2>2. \A u \in final : u < nextTx' /\ result'[u] \in {"committed", "none"}
      BY <1>0, <1>17, <2>1 DEF PruneDir, FinalInv
    <2>3. Incomplete' \subseteq {0} /\ 0 \notin Incomplete'
      <3>1. TypeOK' => Incomplete' \subseteq Tx'
        BY DEF Incomplete, Listed, TypeOK
      <3> QED  BY <2>1, <3>1 DEF IInv, Phase, Mine, Tx
    <2> QED  BY <2>1, <2>2, <2>3, FinalHolder DEF Held
  <1> QED
    BY <1>1, <1>2, <1>3, <1>4, <1>6, <1>7, <1>9, <1>10, <1>11, <1>12, <1>13, <1>14, <1>15,
       <1>16, <1>17
    DEF Command, Begin, Snapshot, Body, Commit, Rollback, Recover, Prune, Override

LEMMA FinalNext ==
  ASSUME "prune" \notin CrashAt, IInv, FinalInv, IInv', [Next]_vars
  PROVE  FinalInv'
  <1>1. CASE \E p \in Cli : Command(p)
    BY <1>1, FinalCommand
  <1>2. CASE AgentStep
    <2> Agent \in Procs
      BY DEF Procs
    <2>1. Incomplete' = Incomplete /\ UNCHANGED <<result, nextTx, final>>
      BY <1>2 DEF AgentStep, AgentLock, AgentFence, AgentWrite, Incomplete, Listed, journal,
         budget, history
    <2>2. /\ pc'[Agent] \notin Held \cup {"marked", "prune"} /\ pc[Agent] # "prune"
          /\ \A q \in Procs \ {Agent} : pc'[q] = pc[q] /\ cur'[q] = cur[q]
      BY <1>2, ExitEffect DEF IInv, AgentStep, AgentLock, AgentFence, AgentWrite, TryLock, Goto,
         Exit, Held, TypeOK
    <2> QED  BY <2>1, <2>2 DEF FinalInv, Kept, Held
  <1>3. ASSUME NEW p \in Procs, Crash(p) PROVE FinalInv'
    <2>1. /\ Exit(p) /\ pc[p] # "prune" /\ UNCHANGED <<journal, nextTx>>
      BY <1>3 DEF Crash
    <2>2. CASE final' = final
      BY <2>1, <2>2, FinalExit
    <2>3. CASE final' # final
      <3>1. /\ pc[p] \in {"marked", "gate"} /\ result[cur[p]] = "committed"
            /\ final' = final \cup {cur[p]}
        BY <1>3, <2>3 DEF Crash
      <3>2. pc'[p] = "idle" /\ \A q \in Procs \ {p} : pc'[q] = pc[q] /\ cur'[q] = cur[q]
        BY <2>1, ExitEffect DEF IInv
      <3>3. Incomplete' = Incomplete /\ cur[p] \notin Incomplete
        BY <2>1, <3>1 DEF journal, Incomplete, Listed, Active
      <3>4. final \cap Incomplete = {}
        BY <3>1, FinalUse
      <3>5. \A t \in final' : t < nextTx' /\ result'[t] \in {"committed", "none"}
        BY <2>1, <3>1 DEF FinalInv, IInv, Fresh, journal
      <3> QED  BY <3>1, <3>2, <3>3, <3>4, <3>5, FinalHolder DEF Held
    <2> QED  BY <2>2, <2>3
  <1>4. CASE UNCHANGED vars
    BY <1>4 DEF vars, journal, budget, history, FinalInv, Kept, Incomplete, Listed
  <1> QED  BY <1>1, <1>2, <1>3, <1>4 DEF Next

LEMMA FinalGrows ==
  ASSUME [Next]_vars
  PROVE  final \subseteq final'
  <1> USE DEF history
  <1>1. ASSUME NEW p \in Cli, Command(p) PROVE final \subseteq final'
    <2>1. CASE LockMutation(p) \/ Begin(p) \/ Snapshot(p) \/ Commit(p) \/ Abort(p)
      BY <2>1 DEF LockMutation, Begin, Refuse, BeginDir, BeginPlan, BeginResult, Snapshot,
         SnapOpen, SnapClose, Commit, CommitMark, CommitDisarm, Abort
    <2>2. CASE Body(p)
      BY <2>2 DEF Body, Mutate, InstallSubsOpen, InstallSubsClose, ResnapXrayOpen,
         ResnapXrayClose
    <2>3. CASE Rollback(p)
      BY <2>3 DEF Rollback, GateRefuse, GatePass, RestoreRemoveSubs, RestorePart,
         RestoreFault, FinishRollback
    <2>4. CASE RecoverChoose(p) \/ RecoverLock(p) \/ Recover(p) \/ Prune(p) \/ Override(p)
      BY <2>4 DEF RecoverChoose, RecoverLock, Recover, RecoverBusy, RecoverResolve, Prune,
         PruneFile, PruneDir, PruneDone, Override, OverrideDir, OverrideApply
    <2> QED  BY <1>1, <2>1, <2>2, <2>3, <2>4 DEF Command
  <1>2. CASE AgentStep
    BY <1>2 DEF AgentStep, AgentLock, AgentFence, AgentWrite
  <1>3. CASE \E p \in Procs : Crash(p)
    BY <1>3 DEF Crash
  <1>4. CASE UNCHANGED vars
    BY <1>4 DEF vars
  <1> QED  BY <1>1, <1>2, <1>3, <1>4 DEF Next

\* If no kill falls into prune(), nothing ever rolls a committed command back.
THEOREM CommittedStays ==
  ASSUME "prune" \notin CrashAt
  PROVE  Spec => CommitIsFinal
  <1>1. Init => FinalInv
    BY DEF Init, FinalInv, Held, Incomplete, Listed
  <1>2. IInv /\ FinalInv /\ IInv' /\ [Next]_vars => FinalInv'
    BY FinalNext
  <1>3. FinalInv /\ FinalInv' /\ [Next]_vars => [\A t \in final : result'[t] # "recovering"]_vars
    <2> SUFFICES ASSUME FinalInv, FinalInv', [Next]_vars, NEW t \in final
                 PROVE  result'[t] # "recovering"
      OBVIOUS
    <2>1. t \in final'
      BY FinalGrows
    <2> QED  BY <2>1 DEF FinalInv
  <1> QED  BY <1>1, <1>2, <1>3, Invariance, PTL DEF Spec, CommitIsFinal
-----------------------------------------------------------------------------
(* The Agent's accounts.  A snapshot of the database that may still be        *)
(* restored holds everything the Agent has written so far, because the Agent  *)
(* writes only while nothing is incomplete.                                   *)

Forward == {"plan", "result", "snap", "copy", "mutate", "recopy", "resnap", "marked"}
Backward == {"gate", "restore", "check"}

\* The copy of the database in t is whole and current, or cannot be mistaken
\* for one.
Copied(t) == /\ snap[t]["db"].state \in {"ok", "torn", "none"}
             /\ snap[t]["db"].state = "ok" => snap[t]["db"].agent = agentDone

\* Somebody may still roll t back.
Revertible(t) == \/ t \in Incomplete /\ Kept(t)
                 \/ \E p \in Procs : pc[p] \in Forward \cup Backward /\ cur[p] = t

Stage(p) ==
    /\ pc[p] \in Forward => live["db"].state = "ok"
    /\ pc[p] \in Forward \cup Backward =>
          cur[p] \in dirs /\ (pc[p] # "plan" => cur[p] \in plan)
    /\ pc[p] \in {"restore", "check"} =>
          /\ snap[cur[p]]["db"].state # "torn"
          /\ cur[p] \in Incomplete
          /\ "db" \notin at[p] /\ ~failed[p] => live["db"].state = "ok"
    /\ pc[p] = "check" => at[p] = {}
    /\ pc[p] \notin {"restore", "check"} => ~failed[p]

DataInv ==
    /\ live["db"].state \in {"ok", "torn"}
    /\ AgentWritesSurvive
    /\ live["db"].state = "torn" =>
          \E t \in Incomplete : Kept(t) /\ snap[t]["db"].state = "ok"
    /\ \A t \in Tx : Revertible(t) => Copied(t)
    /\ \A t \in Tx : t >= nextTx => snap[t]["db"].state = "none"
    /\ \A p \in Procs : Stage(p)

\* A step of p alone, seen by the others.
Alone(p) == \A q \in Procs \ {p} : /\ pc'[q] = pc[q] /\ cur'[q] = cur[q]
                                   /\ at'[q] = at[q] /\ failed'[q] = failed[q]

LEMMA ExitAlone ==
  ASSUME TypeOK, NEW p \in Procs, Exit(p)
  PROVE  Alone(p) /\ pc'[p] = "idle" /\ cur'[p] = 0 /\ ~failed'[p]
  BY DEF TypeOK, Exit, Alone

LEMMA GotoAlone ==
  ASSUME TypeOK, NEW p \in Procs, NEW l, Goto(p, l), UNCHANGED <<cur, at, failed>>
  PROVE  Alone(p) /\ pc'[p] = l
  BY DEF TypeOK, Goto, Alone

\* A step of a process that has no transaction in hand afterwards.
LEMMA DataLeave ==
  ASSUME IInv, DataInv, NEW p \in Procs, Alone(p),
         pc[p] # "prune" \/ cur[p] \notin Tx,
         pc'[p] \notin Forward \cup Backward \cup {"prune"}, ~failed'[p],
         live'["db"] = live["db"], Incomplete' = Incomplete, nextTx' \in {nextTx, nextTx + 1},
         pc[p] \notin {"idle", "chosen"} \/ UNCHANGED <<dirs, plan>>,
         UNCHANGED <<snap, agentDone>>
  PROVE  DataInv'
  <1>0. Incomplete \subseteq Tx /\ nextTx \in Nat /\ \A t \in Tx : t \in Nat
    BY IncompleteIsTx, BoundAssumption DEF IInv, TypeOK, Tx
  <1>1. \A t \in Tx : Kept(t) => Kept(t)'
    BY DEF Kept, Alone
  <1>2. \A t \in Tx : Kept(t)' => Kept(t)
    BY DEF Kept, Alone
  <1>3. \A t \in Tx : Revertible(t)' => Revertible(t)
    BY <1>2 DEF Revertible, Alone
  <1>4. \A t \in Tx : Revertible(t)' => Copied(t)'
    BY <1>3 DEF DataInv, Copied
  <1>5. \A q \in Procs \ {p} : Stage(q)'
    <2>1. CASE pc[p] \notin {"idle", "chosen"}
      <3>1. \A q \in Procs \ {p} : pc[q] \in {"idle", "chosen"}
        BY <2>1 DEF IInv, Exclusion
      <3> QED  BY <3>1 DEF DataInv, Stage, Alone, Forward, Backward
    <2>2. CASE UNCHANGED <<dirs, plan>>
      BY <2>2 DEF DataInv, Stage, Alone
    <2> QED  BY <2>1, <2>2
  <1>6. Stage(p)'
    BY DEF Stage, Forward, Backward
  <1>7. \A t \in Tx : t >= nextTx' => snap'[t]["db"].state = "none"
    BY <1>0 DEF DataInv
  <1>8. live'["db"].state = "torn" => \E t \in Incomplete' : Kept(t)' /\ snap'[t]["db"].state = "ok"
    BY <1>0, <1>1 DEF DataInv
  <1>9. AgentWritesSurvive'
    BY DEF DataInv, AgentWritesSurvive
  <1> QED  BY <1>4, <1>5, <1>6, <1>7, <1>8, <1>9 DEF DataInv

\* A step of the holder p after which at most transaction c is incomplete.
LEMMA DataHolder ==
  ASSUME IInv, DataInv, NEW p \in Procs, pc[p] \notin {"idle", "chosen"}, Alone(p),
         NEW c, Incomplete' \subseteq {c},
         pc'[p] \in Forward \cup Backward => cur'[p] = c,
         live'["db"].state \in {"ok", "torn"}, AgentWritesSurvive',
         live'["db"].state = "torn" => /\ c \in Incomplete' /\ pc'[p] # "prune"
                                       /\ snap'[c]["db"].state = "ok",
         \A t \in Tx : t >= nextTx' => snap'[t]["db"].state = "none",
         c \in Tx /\ (pc'[p] = "prune" => cur'[p] # c) => Copied(c)',
         Stage(p)'
  PROVE  DataInv'
  <1>1. \A q \in Procs \ {p} : pc[q] \in {"idle", "chosen"}
    BY DEF IInv, Exclusion
  <1>2. \A q \in Procs \ {p} : Stage(q)'
    BY <1>1 DEF DataInv, Stage, Alone, Forward, Backward
  <1>3. \A t \in Tx : Revertible(t)' => t = c /\ (pc'[p] = "prune" => cur'[p] # c)
    BY <1>1 DEF Revertible, Alone, Forward, Backward, Kept
  <1>4. pc'[p] # "prune" => Kept(c)'
    BY <1>1 DEF Kept, Alone
  <1>5. \A q \in Procs : Stage(q)'
    BY <1>2
  <1>6. \A t \in Tx : Revertible(t)' => Copied(t)'
    BY <1>3
  <1>7. live'["db"].state = "torn" => \E t \in Incomplete' : Kept(t)' /\ snap'[t]["db"].state = "ok"
    BY <1>4
  <1> QED  BY <1>5, <1>6, <1>7 DEF DataInv

\* What a holder knows that is not pruning, and what it knows when nothing is
\* incomplete.
LEMMA DataUse ==
  ASSUME IInv, DataInv, NEW p \in Procs, pc[p] \notin {"idle", "chosen", "prune"}
  PROVE  /\ \A t \in Tx : t \in Incomplete \/ (t = cur[p] /\ pc[p] \in Forward \cup Backward)
                          => Copied(t)
         /\ live["db"].state = "torn" => \E t \in Incomplete : snap[t]["db"].state = "ok"
  <1>1. \A q \in Procs : pc[q] # "prune"
    BY DEF IInv, Exclusion
  <1> QED  BY <1>1 DEF DataInv, Revertible, Kept

LEMMA DataWhole ==
  ASSUME DataInv, Incomplete = {}
  PROVE  live["db"].state = "ok"
  BY DEF DataInv

LEMMA DataCommand ==
  ASSUME Role # "standalone", IInv, DataInv, IInv', NEW p \in Cli, Command(p)
  PROVE  DataInv'
  <1> p \in Procs /\ "db" \in Parts
    BY PartAssumption DEF Procs
  <1> USE DEF journal, budget, history
  <1>0. /\ TypeOK /\ Phase(p) /\ Stage(p) /\ nextTx \in Nat
        /\ (pc[p] \in Owning => cur[p] \in Tx) /\ cur[p] < nextTx
        /\ snap \in [Tx -> [Parts -> File]] /\ live \in [Parts -> File]
        /\ result \in [Tx -> Active \cup Terminal]
        /\ \A t \in Tx : t \in Nat
    <2>1. TypeOK /\ Phase(p) /\ Stage(p) /\ cur[p] < nextTx
      BY DEF IInv, Fresh, DataInv
    <2>2. (pc[p] \in Owning => cur[p] \in Tx) /\ \A t \in Tx : t \in Nat
      BY <2>1, BoundAssumption DEF TypeOK, Tx
    <2> QED  BY <2>1, <2>2, BoundAssumption DEF TypeOK
  \* Steps with no transaction in hand.
  <1>1. CASE LockMutation(p) \/ RecoverLock(p)
    <2>1. PICK l \in {"locked", "resolve"} : Goto(p, l)
      BY <1>1 DEF LockMutation, RecoverLock, TryLock
    <2>2. Incomplete' = Incomplete
      BY <1>1 DEF LockMutation, RecoverLock, Incomplete, Listed
    <2>3. UNCHANGED <<cur, at, failed, dirs, plan, snap, live, nextTx, agentDone>>
          /\ pc[p] \in {"idle", "chosen"}
      BY <1>1 DEF LockMutation, RecoverLock
    <2>4. Alone(p) /\ pc'[p] = l /\ ~failed[p]
      BY <1>0, <2>1, <2>3, GotoAlone DEF Stage
    <2> QED  BY <2>2, <2>3, <2>4, DataLeave DEF Forward, Backward
  <1>2. ASSUME Exit(p), pc[p] # "prune" \/ cur[p] = 0, live'["db"] = live["db"],
               UNCHANGED <<dirs, plan, result, snap, nextTx, agentDone>>
        PROVE  DataInv'
    <2>1. Incomplete' = Incomplete
      BY <1>2 DEF Incomplete, Listed
    <2>2. cur[p] = 0 => cur[p] \notin Tx
      BY DEF Tx
    <2> QED  BY <1>0, <1>2, <2>1, <2>2, ExitAlone, DataLeave DEF Forward, Backward
  <1>3. CASE Refuse(p) \/ RecoverBusy(p) \/ PruneDone(p)
    BY <1>2, <1>3 DEF Refuse, RecoverBusy, PruneDone
  <1>4. CASE OverrideApply(p)
    BY <1>0, <1>2, <1>4 DEF OverrideApply
  <1>5. CASE RecoverChoose(p)
    <2>1. pc'[p] = "chosen" /\ Alone(p) /\ pc[p] = "idle" /\ failed' = failed
      BY <1>0, <1>5, GotoEffect DEF RecoverChoose, Alone, TypeOK
    <2>2. Incomplete' = Incomplete
      BY <1>5 DEF RecoverChoose, Incomplete, Listed
    <2> QED  BY <1>0, <1>5, <2>1, <2>2, DataLeave DEF RecoverChoose, Forward, Backward, Stage
  <1>6. CASE OverrideDir(p)
    <2>1. pc'[p] = "override" /\ Alone(p) /\ pc[p] = "locked" /\ failed' = failed
      BY <1>0, <1>6, GotoEffect DEF OverrideDir, Alone, TypeOK
    <2>2. nextTx \notin plan
      BY <1>0 DEF IInv, Fresh
    <2>3. Incomplete' = Incomplete
      BY <1>6, <2>2 DEF OverrideDir, Incomplete, Listed
    <2> QED  BY <1>0, <1>6, <2>1, <2>3, DataLeave DEF OverrideDir, Forward, Backward, Stage
  <1>7. CASE BeginDir(p)
    <2> PICK c \in Tx : c = nextTx
      BY <1>0, <1>7, BoundAssumption DEF BeginDir, TypeOK, Tx
    <2>1. pc'[p] = "plan" /\ Alone(p) /\ pc[p] = "locked" /\ failed' = failed /\ cur'[p] = c
      BY <1>0, <1>7, GotoEffect DEF BeginDir, Alone, TypeOK
    <2>2. nextTx \notin plan
      BY <1>0 DEF IInv, Fresh
    <2>3. Incomplete' = {} /\ live["db"].state = "ok"
      BY <1>7, <2>2, DataWhole DEF BeginDir, Incomplete, Listed
    <2>4. UNCHANGED <<live, snap, agentDone>> /\ nextTx' = nextTx + 1 /\ c \in dirs'
      BY <1>7 DEF BeginDir
    <2>5. \A t \in Tx : t >= nextTx' => snap'[t]["db"].state = "none"
      BY <1>0, <2>4 DEF DataInv
    <2>6. Copied(c)'
      <3>1. snap[c]["db"].state = "none"
        BY <1>0, <2>4 DEF DataInv
      <3> QED  BY <2>4, <3>1 DEF Copied
    <2>7. Stage(p)'
      BY <1>0, <2>1, <2>3, <2>4 DEF Stage, Forward, Backward
    <2>8. AgentWritesSurvive'
      BY <2>4 DEF DataInv, AgentWritesSurvive
    <2>9. Incomplete' \subseteq {c} /\ live'["db"].state = "ok" /\ pc[p] \notin {"idle", "chosen"}
      BY <2>1, <2>3, <2>4
    <2> QED  BY <2>1, <2>5, <2>6, <2>7, <2>8, <2>9, DataHolder
  \* Steps of a command that leave the live database and its snapshot alone.
  <1>8. ASSUME pc[p] \in (Forward \cup Backward), pc'[p] \in (Forward \cup Backward),
               Alone(p), cur'[p] = cur[p], Incomplete' \subseteq {cur[p]},
               live'["db"] = live["db"], UNCHANGED <<nextTx, agentDone>>,
               \A t \in Tx : snap'[t]["db"] = snap[t]["db"],
               live["db"].state = "torn" => cur[p] \in Incomplete',
               Stage(p)'
        PROVE  DataInv'
    <2>1. pc[p] \notin {"idle", "chosen", "prune"} /\ cur[p] \in Tx /\ Incomplete \subseteq {cur[p]}
      BY <1>0, <1>8 DEF Forward, Backward, Owning, Phase, Mine, Clear
    <2>2. Copied(cur[p])
      BY <1>8, <2>1, DataUse
    <2>3. Copied(cur[p])'
      BY <1>8, <2>1, <2>2 DEF Copied
    <2>4. live["db"].state = "torn" => snap[cur[p]]["db"].state = "ok"
      BY <2>1, DataUse
    <2>5. pc'[p] # "prune"
      BY <1>8 DEF Forward, Backward
    <2>6. AgentWritesSurvive' /\ live["db"].state \in {"ok", "torn"}
          /\ \A t \in Tx : t >= nextTx => snap[t]["db"].state = "none"
      BY <1>8 DEF DataInv, AgentWritesSurvive
    <2> QED  BY <1>8, <2>1, <2>3, <2>4, <2>5, <2>6, DataHolder
  <1>9. ASSUME pc[p] \in Forward, NEW l \in Forward, Goto(p, l),
               UNCHANGED <<cur, failed, dirs, nextTx, agentDone>>,
               live'["db"] = live["db"], \A q \in Procs \ {p} : at'[q] = at[q],
               \A t \in Tx : snap'[t]["db"] = snap[t]["db"],
               cur[p] \in plan', l # "plan", Incomplete' \subseteq {cur[p]}
        PROVE  DataInv'
    <2>1. pc'[p] = l /\ Alone(p)
      BY <1>0, <1>9, GotoEffect DEF Alone
    <2>2. live["db"].state = "ok" /\ cur[p] \in dirs /\ ~failed[p]
      BY <1>0, <1>9 DEF Stage, Forward
    <2>3. Stage(p)'
      BY <1>9, <2>1, <2>2 DEF Stage, Forward, Backward
    <2> QED  BY <1>8, <1>9, <2>1, <2>2, <2>3
  <1>10. CASE BeginPlan(p)
    <2>1. Incomplete' \subseteq {cur[p]}
      BY <1>0, <1>10 DEF BeginPlan, Incomplete, Listed, Phase, Clear
    <2> QED  BY <1>9, <1>10, <2>1 DEF BeginPlan, Forward
  <1>11. CASE BeginResult(p) \/ CommitMark(p)
    <2>1. PICK s \in {"in_progress", "committed"}, l \in {"snap", "marked"} :
            /\ result' = [result EXCEPT ![cur[p]] = s] /\ Goto(p, l)
            /\ UNCHANGED <<cur, failed, dirs, plan, nextTx, agentDone, live, snap>>
            /\ pc[p] \in Forward \ {"plan"} /\ \A q \in Procs \ {p} : at'[q] = at[q]
      BY <1>0, <1>11 DEF BeginResult, CommitMark, Forward, TypeOK
    <2>2. s \in Active \cup Terminal /\ pc[p] \in Mine /\ cur[p] \in Tx
      BY <1>0, <1>11 DEF BeginResult, CommitMark, Mine, Owning, Active, Terminal
    <2>3. Incomplete' \subseteq {cur[p]}
      BY <2>1, <2>2, ResultStep DEF IInv
    <2>4. cur[p] \in plan'
      BY <1>0, <2>1 DEF Stage, Forward
    <2> QED  BY <1>9, <2>1, <2>3, <2>4 DEF Forward
  <1>12. ASSUME pc[p] \in Forward \ {"plan"}, UNCHANGED <<dirs, plan, result, cur>>
         PROVE  Incomplete' \subseteq {cur[p]} /\ cur[p] \in plan'
    BY <1>0, <1>12 DEF Forward, Phase, Mine, Clear, Incomplete, Listed, Stage
  <1>13. CASE InstallSubsOpen(p) \/ InstallSubsClose(p) \/ ResnapXrayOpen(p) \/ ResnapXrayClose(p)
    <2>1. PICK l \in {"recopy", "mutate", "resnap"} : Goto(p, l)
      BY <1>13 DEF InstallSubsOpen, InstallSubsClose, ResnapXrayOpen, ResnapXrayClose
    <2>2. \A t \in Tx : snap'[t]["db"] = snap[t]["db"]
      <3>1. CASE InstallSubsOpen(p)
        BY <1>0, <3>1 DEF InstallSubsOpen
      <3>2. CASE InstallSubsClose(p)
        BY <1>0, <3>2 DEF InstallSubsClose
      <3>3. CASE ResnapXrayOpen(p)
        BY <1>0, <3>3 DEF ResnapXrayOpen
      <3>4. CASE ResnapXrayClose(p)
        BY <1>0, <3>4 DEF ResnapXrayClose
      <3> QED  BY <1>13, <3>1, <3>2, <3>3, <3>4
    <2>3. live'["db"] = live["db"]
      BY <1>0, <1>13 DEF InstallSubsOpen, InstallSubsClose, ResnapXrayOpen, ResnapXrayClose
    <2>4. pc[p] \in Forward \ {"plan"}
          /\ UNCHANGED <<cur, at, failed, dirs, plan, result, nextTx, agentDone>>
      BY <1>13 DEF InstallSubsOpen, InstallSubsClose, ResnapXrayOpen, ResnapXrayClose, Forward
    <2> QED  BY <1>9, <1>12, <2>1, <2>2, <2>3, <2>4 DEF Forward
  \* Steps that write the database or its snapshot.
  <1>14. ASSUME pc[p] \in Forward \ {"plan"}, pc'[p] \in Forward \ {"plan"}, Alone(p),
                UNCHANGED <<cur, failed, dirs, plan, result, nextTx, agentDone>>,
                live'["db"].state = "ok", live'["db"].agent = live["db"].agent,
                \A t \in Tx \ {cur[p]} : snap'[t] = snap[t],
                snap'[cur[p]]["db"] \in {Torn, snap[cur[p]]["db"], live["db"]}
         PROVE  DataInv'
    <2>1. pc[p] \notin {"idle", "chosen", "prune"} /\ cur[p] \in Tx
      BY <1>0, <1>14 DEF Forward, Owning
    <2>2. Incomplete' \subseteq {cur[p]} /\ cur[p] \in plan' /\ cur[p] \in dirs
      BY <1>0, <1>12, <1>14 DEF Stage
    <2>3. live["db"].state = "ok" /\ live["db"].agent = agentDone /\ ~failed[p]
      BY <1>0, <1>14 DEF Stage, DataInv, AgentWritesSurvive, Forward
    <2>4. Copied(cur[p])
      BY <1>14, <2>1, DataUse
    <2>5. Copied(cur[p])'
      BY <1>14, <2>3, <2>4 DEF Copied, Torn, Blank
    <2>6. Stage(p)'
      BY <1>14, <2>2, <2>3 DEF Stage, Forward, Backward
    <2>7. \A t \in Tx : t >= nextTx' => snap'[t]["db"].state = "none"
      BY <1>0, <1>14 DEF DataInv
    <2>8. AgentWritesSurvive'
      BY <1>14, <2>3 DEF AgentWritesSurvive
    <2> QED  BY <1>14, <2>1, <2>2, <2>5, <2>6, <2>7, <2>8, DataHolder
  <1>15. CASE SnapOpen(p)
    <2>1. pc'[p] = "copy" /\ Alone(p) /\ pc[p] = "snap"
      BY <1>0, <1>15, GotoAlone DEF SnapOpen
    <2>2. live["db"].state = "ok"
      BY <1>0, <2>1 DEF Stage, Forward
    <2> PICK x \in at[p] : snap' = [snap EXCEPT ![cur[p]][x] =
                               IF live[x].state = "none" THEN Absent ELSE Torn]
      BY <1>15 DEF SnapOpen
    <2>3. cur[p] \in Tx /\ x \in Parts
      BY <1>0, <2>1 DEF Owning, TypeOK
    <2>4. /\ \A t \in Tx \ {cur[p]} : snap'[t] = snap[t]
          /\ snap'[cur[p]]["db"] \in {Torn, snap[cur[p]]["db"]}
      BY <1>0, <2>2, <2>3
    <2> QED  BY <1>14, <1>15, <2>1, <2>2, <2>4 DEF SnapOpen, Forward
  <1>16. CASE SnapClose(p)
    <2>1. PICK l \in {"mutate", "snap"} : Goto(p, l)
      BY <1>16 DEF SnapClose
    <2>2. pc'[p] = l /\ Alone(p) /\ pc[p] = "copy"
      BY <1>0, <1>16, <2>1, GotoEffect DEF SnapClose, Alone, TypeOK
    <2>3. live["db"].state = "ok" /\ cur[p] \in Tx
      BY <1>0, <2>2 DEF Stage, Forward, Owning
    <2>4. snap[cur[p]]["db"].state # "absent"
      BY <2>2, <2>3, DataUse DEF Copied, Forward
    <2> PICK x \in at[p] :
          \/ snap' = [snap EXCEPT ![cur[p]][x] = IF @.state = "absent" THEN Absent ELSE live[x]]
          \/ UNCHANGED snap
      BY <1>16 DEF SnapClose
    <2>5. x \in Parts
      BY <1>0 DEF TypeOK
    <2>6. /\ \A t \in Tx \ {cur[p]} : snap'[t] = snap[t]
          /\ snap'[cur[p]]["db"] \in {snap[cur[p]]["db"], live["db"]}
      <3>1. CASE UNCHANGED snap
        BY <3>1
      <3>2. CASE snap' = [snap EXCEPT ![cur[p]][x] =
                             IF @.state = "absent" THEN Absent ELSE live[x]]
        BY <1>0, <2>3, <2>4, <2>5, <3>2
      <3> QED  BY <3>1, <3>2
    <2> QED  BY <1>14, <1>16, <2>2, <2>3, <2>6 DEF SnapClose, Forward
  <1>17. CASE Mutate(p)
    <2>1. PICK x \in Parts \ {"subs"} : live' = [live EXCEPT ![x] = Written(@, cur[p])]
      BY <1>17 DEF Mutate
    <2>2. pc[p] = "mutate" /\ live["db"].state = "ok" /\ live["db"] \in File
      BY <1>0, <1>17 DEF Mutate, Stage, Forward
    <2>3. live'["db"].state = "ok" /\ live'["db"].agent = live["db"].agent
      <3>1. CASE x = "db"
        <4>1. live'["db"] = [live["db"] EXCEPT !.state = "ok", !.cli = cur[p]]
          BY <1>0, <2>1, <3>1 DEF Written
        <4> QED  BY <2>2, <4>1 DEF File
      <3>2. CASE x # "db"
        BY <1>0, <2>1, <2>2, <3>2
      <3> QED  BY <3>1, <3>2
    <2>4. Alone(p) /\ pc' = pc
      BY <1>17 DEF Mutate, Alone
    <2> QED  BY <1>14, <1>17, <2>2, <2>3, <2>4 DEF Mutate, Forward
  <1>18. CASE Abort(p)
    <2>1. pc'[p] = "gate" /\ Alone(p) /\ pc[p] \in Forward \ {"plan"}
      BY <1>0, <1>18, GotoAlone DEF Abort, Forward
    <2>2. Incomplete' \subseteq {cur[p]} /\ cur[p] \in plan'
      BY <1>12, <1>18, <2>1 DEF Abort
    <2>3. live["db"].state = "ok" /\ Stage(p)'
      BY <1>0, <1>18, <2>1 DEF Abort, Stage, Forward, Backward
    <2> QED  BY <1>8, <1>18, <2>1, <2>2, <2>3 DEF Abort, Backward
  <1>19. CASE CommitDisarm(p)
    <2>1. pc'[p] = "prune" /\ cur'[p] = 0 /\ Alone(p) /\ failed' = failed /\ pc[p] = "marked"
      BY <1>0, <1>19, GotoEffect DEF CommitDisarm, Alone, TypeOK
    <2>2. Incomplete' = {} /\ live["db"].state = "ok" /\ ~failed[p]
      BY <1>0, <1>19, <2>1 DEF CommitDisarm, Phase, Clear, Incomplete, Listed, Stage, Forward
    <2>3. Stage(p)' /\ 0 \notin Tx
      BY <2>1, <2>2 DEF Stage, Forward, Backward, Tx
    <2>4. AgentWritesSurvive' /\ \A t \in Tx : t >= nextTx' => snap'[t]["db"].state = "none"
      BY <1>19 DEF CommitDisarm, DataInv, AgentWritesSurvive
    <2> QED  BY <1>19, <2>1, <2>2, <2>3, <2>4, DataHolder DEF CommitDisarm, Forward, Backward
  \* Rolling back.
  <1>20. ASSUME pc[p] \in Backward
         PROVE  /\ pc[p] \notin {"idle", "chosen", "prune"} /\ cur[p] \in Tx
                /\ Incomplete \subseteq {cur[p]} /\ Copied(cur[p])
                /\ live["db"].state = "torn" => cur[p] \in Incomplete /\ snap[cur[p]]["db"].state = "ok"
                /\ cur[p] \in dirs \cap plan
    <2>1. pc[p] \notin {"idle", "chosen", "prune"} /\ cur[p] \in Tx /\ Incomplete \subseteq {cur[p]}
      BY <1>0, <1>20 DEF Backward, Owning, Phase, Mine
    <2>2. cur[p] \in dirs \cap plan
      BY <1>0, <1>20 DEF Stage, Backward
    <2> QED  BY <1>20, <2>1, <2>2, DataUse
  <1>21. CASE GatePass(p)
    <2>1. pc[p] = "gate" /\ pc'[p] = "restore" /\ Alone(p)
      BY <1>0, <1>21, GotoEffect DEF GatePass, Alone, TypeOK
    <2>2. Incomplete' \subseteq {cur[p]}
      <3>1. "recovering" \in Active \cup Terminal /\ pc[p] \in Mine /\ cur[p] \in Tx
        BY <1>20, <2>1 DEF Active, Mine, Backward
      <3>2. result' = [result EXCEPT ![cur[p]] = "recovering"] /\ UNCHANGED <<dirs, plan, nextTx>>
        BY <1>21 DEF GatePass
      <3> QED  BY <3>1, <3>2, ResultStep DEF IInv
    <2>3. cur[p] \in Incomplete'
      BY <1>0, <1>20, <1>21, <2>1 DEF GatePass, Incomplete, Listed, Active, Backward
    <2>4. snap[cur[p]]["db"].state # "torn"
      BY <1>21 DEF GatePass, RecoveryGate
    <2>5. Stage(p)'
      <3>1. at'[p] = Parts /\ UNCHANGED <<cur, dirs, plan, snap>> /\ cur[p] \in dirs \cap plan
        BY <1>0, <1>20, <1>21, <2>1 DEF GatePass, TypeOK, Backward
      <3> QED  BY <2>1, <2>3, <2>4, <3>1 DEF Stage, Forward, Backward
    <2> QED  BY <1>8, <1>21, <2>1, <2>2, <2>3, <2>5 DEF GatePass, Backward
  <1>22. CASE RestoreRemoveSubs(p)
    <2>1. pc[p] = "restore" /\ pc' = pc /\ Alone(p) /\ live'["db"] = live["db"]
      BY <1>0, <1>22 DEF RestoreRemoveSubs, Alone
    <2>2. Incomplete' = Incomplete
      BY <1>22 DEF RestoreRemoveSubs, Incomplete, Listed
    <2>3. Stage(p)'
      BY <1>0, <1>22, <2>1, <2>2 DEF RestoreRemoveSubs, Stage, Forward, Backward
    <2> QED  BY <1>8, <1>20, <1>22, <2>1, <2>2, <2>3 DEF RestoreRemoveSubs, Backward
  <1>23. CASE RestorePart(p) \/ RestoreFault(p)
    <2>1. PICK x \in at[p] :
            /\ at' = [at EXCEPT ![p] = @ \ {x}]
            /\ Goto(p, IF at[p] = {x} THEN "check" ELSE "restore")
            /\ \/ \E f \in Restored(cur[p], x) : live' = [live EXCEPT ![x] = f] /\ UNCHANGED failed
               \/ /\ \E f \in NotRestored(cur[p], x) : live' = [live EXCEPT ![x] = f]
                  /\ failed' = [failed EXCEPT ![p] = TRUE]
               \/ /\ x = "subs" \/ snap[cur[p]][x].state \in {"ok", "torn"}
                  /\ live' = live \/ live' = [live EXCEPT ![x] = Torn]
                  /\ failed' = [failed EXCEPT ![p] = TRUE]
      BY <1>23 DEF RestorePart, RestoreFault
    <2>2. /\ pc[p] = "restore" /\ pc'[p] = (IF at[p] = {x} THEN "check" ELSE "restore")
          /\ at'[p] = at[p] \ {x} /\ x \in Parts
          /\ UNCHANGED <<cur, dirs, plan, result, snap, nextTx, agentDone>>
          /\ Alone(p)
      BY <1>0, <1>23, <2>1, GotoEffect DEF RestorePart, RestoreFault, Alone, TypeOK
    <2>3. Incomplete' = Incomplete
      BY <2>2 DEF Incomplete, Listed
    <2>4. /\ snap[cur[p]]["db"].state \in {"ok", "none"} /\ cur[p] \in Incomplete
          /\ snap[cur[p]]["db"].state = "ok" => snap[cur[p]]["db"].agent = agentDone
          /\ snap[cur[p]]["db"].state = "none" => live["db"].state = "ok"
          /\ Copied(cur[p]) /\ Incomplete \subseteq {cur[p]} /\ cur[p] \in dirs \cap plan
          /\ cur[p] \in Tx
      <3>1. Copied(cur[p]) /\ (live["db"].state = "torn" => snap[cur[p]]["db"].state = "ok")
        BY <1>20, <2>2 DEF Backward
      <3>2. snap[cur[p]]["db"].state # "torn" /\ cur[p] \in Incomplete
        BY <1>0, <2>2 DEF Stage
      <3> QED  BY <1>20, <2>2, <3>1, <3>2 DEF Backward, Copied, DataInv
    <2>5. /\ live'["db"] \in {live["db"], snap[cur[p]]["db"], Torn}
          /\ x # "db" => live'["db"] = live["db"]
          /\ x = "db" /\ ~failed'[p] => live'["db"].state = "ok"
          /\ failed[p] => failed'[p]
          /\ live'["db"] = snap[cur[p]]["db"] => live'["db"].state = "ok" \/ live'["db"] = live["db"]
          /\ live'["db"] = Torn => live["db"] = Torn \/ snap[cur[p]]["db"].state = "ok"
      <3>1. CASE \E f \in Restored(cur[p], x) : live' = [live EXCEPT ![x] = f] /\ UNCHANGED failed
        <4>1. PICK f \in Restored(cur[p], x) : live' = [live EXCEPT ![x] = f] /\ UNCHANGED failed
          BY <3>1
        <4>2. x = "db" => \/ f = snap[cur[p]]["db"] /\ f.state = "ok"
                          \/ f = live["db"] /\ f.state = "ok"
          BY <2>4, <4>1 DEF Restored
        <4> QED  BY <1>0, <2>2, <2>4, <4>1, <4>2
      <3>2. CASE \E f \in NotRestored(cur[p], x) : live' = [live EXCEPT ![x] = f]
                   /\ failed' = [failed EXCEPT ![p] = TRUE]
        <4>1. x # "db"
          BY <2>4, <3>2 DEF NotRestored
        <4> QED  BY <1>0, <2>2, <2>4, <3>2, <4>1 DEF TypeOK
      <3>3. CASE /\ x = "subs" \/ snap[cur[p]][x].state \in {"ok", "torn"}
                 /\ live' = live \/ live' = [live EXCEPT ![x] = Torn]
                 /\ failed' = [failed EXCEPT ![p] = TRUE]
        <4>1. failed'[p] = TRUE
          BY <1>0, <3>3 DEF TypeOK
        <4>2. CASE live' = live
          BY <2>4, <3>3, <4>1, <4>2
        <4>3. CASE live' = [live EXCEPT ![x] = Torn]
          BY <1>0, <2>2, <2>4, <3>3, <4>1, <4>3
        <4> QED  BY <3>3, <4>2, <4>3
      <3> QED  BY <2>1, <3>1, <3>2, <3>3
    <2>6. /\ live'["db"].state \in {"ok", "torn"}
          /\ live'["db"].state = "ok" => live'["db"].agent = agentDone
          /\ live'["db"].state = "torn" => snap[cur[p]]["db"].state = "ok"
      BY <2>4, <2>5 DEF DataInv, AgentWritesSurvive, Torn, Blank
    <2>7. Stage(p)'
      <3>1. "db" \notin at'[p] /\ ~failed'[p] => live'["db"].state = "ok"
        BY <1>0, <2>2, <2>5 DEF Stage
      <3>2. pc'[p] = "check" => at'[p] = {}
        BY <2>2
      <3> QED  BY <2>2, <2>3, <2>4, <3>1, <3>2 DEF Stage, Forward, Backward
    <2>8. AgentWritesSurvive' /\ Copied(cur[p])'
          /\ \A t \in Tx : t >= nextTx' => snap'[t]["db"].state = "none"
      BY <2>2, <2>4, <2>6 DEF AgentWritesSurvive, Copied, DataInv
    <2> QED  BY <2>2, <2>3, <2>4, <2>6, <2>7, <2>8, DataHolder DEF Forward, Backward
  <1>24. CASE GateRefuse(p) \/ FinishRollback(p)
    <2>1. PICK s \in {"rolled_back", "rollback_failed"} :
            /\ result' = [result EXCEPT ![cur[p]] = s]
            /\ s = "rolled_back" => pc[p] = "check" /\ ~failed[p]
            /\ \/ Exit(p)
               \/ /\ s = "rolled_back" /\ Goto(p, "prune") /\ cur' = [cur EXCEPT ![p] = 0]
                  /\ UNCHANGED <<at, failed>>
      <3>1. CASE GateRefuse(p)
        BY <3>1 DEF GateRefuse
      <3>2. CASE FinishRollback(p)
        <4> PICK ok \in PostCheck :
              /\ result' = [result EXCEPT ![cur[p]] =
                               IF ok /\ ~failed[p] THEN "rolled_back" ELSE "rollback_failed"]
              /\ IF (ok /\ ~failed[p]) /\ operator[p]
                 THEN /\ Goto(p, "prune")
                      /\ cur' = [cur EXCEPT ![p] = 0]
                      /\ UNCHANGED <<lock, at, failed, operator>>
                 ELSE Exit(p)
          BY <3>2 DEF FinishRollback
        <4>1. CASE ok /\ ~failed[p]
          BY <3>2, <4>1 DEF FinishRollback
        <4>2. CASE ~(ok /\ ~failed[p])
          BY <4>2
        <4> QED  BY <4>1, <4>2
      <3> QED  BY <1>24, <3>1, <3>2
    <2>2. /\ pc[p] \in Backward /\ UNCHANGED <<dirs, plan, snap, live, nextTx, agentDone>>
          /\ cur'[p] = 0 /\ Alone(p)
          /\ \/ pc'[p] = "idle" /\ ~failed'[p]
             \/ pc'[p] = "prune" /\ s = "rolled_back" /\ failed'[p] = failed[p]
      <3>1. pc[p] \in Backward /\ UNCHANGED <<dirs, plan, snap, live, nextTx, agentDone>>
        BY <1>24 DEF GateRefuse, FinishRollback, Backward
      <3>2. CASE Exit(p)
        <4>1. TypeOK /\ p \in Procs /\ Exit(p)
          BY <1>0, <3>2
        <4>2. Alone(p) /\ pc'[p] = "idle" /\ cur'[p] = 0 /\ ~failed'[p]
          BY <4>1, ExitAlone
        <4> QED  BY <3>1, <4>2
      <3>3. CASE ~Exit(p)
        BY <1>0, <2>1, <3>1, <3>3, GotoEffect DEF Alone, TypeOK
      <3> QED  BY <3>1, <3>2, <3>3
    <2> PICK c \in Tx : c = cur[p]
      BY <1>20, <2>2
    <2>3. Incomplete' \subseteq {c} /\ (s = "rolled_back" => Incomplete' = {})
      <3>1. s \in Active \cup Terminal /\ pc[p] \in Mine /\ cur[p] \in Tx
            /\ (s = "rolled_back" => s \in Terminal)
        BY <1>20, <2>2 DEF Active, Terminal, Mine, Backward
      <3> QED  BY <2>1, <2>2, <3>1, ResultStep DEF IInv
    <2>4. s = "rolled_back" => live["db"].state = "ok"
      BY <1>0, <2>1 DEF Stage
    <2>5. s = "rollback_failed" => c \in Incomplete'
      BY <1>0, <1>20, <2>1, <2>2 DEF Incomplete, Listed, Active
    <2>6. Stage(p)'
      BY <2>1, <2>2 DEF Stage, Forward, Backward
    <2>7. Copied(c)' /\ AgentWritesSurvive' /\ live["db"].state \in {"ok", "torn"}
          /\ \A t \in Tx : t >= nextTx' => snap'[t]["db"].state = "none"
      <3>1. Copied(c)
        BY <1>20, <2>2
      <3>2. Copied(c)' /\ AgentWritesSurvive'
        BY <2>2, <3>1 DEF Copied, DataInv, AgentWritesSurvive
      <3> QED  BY <2>2, <3>2 DEF DataInv
    <2>8. live["db"].state = "torn" => c \in Incomplete' /\ snap[c]["db"].state = "ok"
                                       /\ pc'[p] # "prune"
      BY <1>20, <2>1, <2>2, <2>4, <2>5
    <2> QED  BY <1>20, <2>2, <2>3, <2>6, <2>7, <2>8, DataHolder DEF Forward, Backward
  <1>25. CASE RecoverResolve(p)
    <2>1. CASE cur[p] \in Incomplete
      <3>1. pc'[p] = "gate" /\ Alone(p) /\ pc[p] = "resolve"
            /\ UNCHANGED <<cur, failed, live, snap, dirs, plan, result, nextTx, agentDone>>
        BY <1>0, <1>25, <2>1, GotoAlone DEF RecoverResolve
      <3>2. Incomplete' = Incomplete /\ Incomplete \subseteq {cur[p]}
        BY <2>1, <3>1 DEF IInv, OneIncomplete, Incomplete, Listed
      <3>3. cur[p] \in Tx /\ cur[p] \in dirs \cap plan
        BY <2>1, IncompleteIsTx DEF IInv, Incomplete, Listed
      <3>4. Copied(cur[p]) /\ (live["db"].state = "torn" => snap[cur[p]]["db"].state = "ok")
        BY <2>1, <3>1, <3>2, <3>3, DataUse
      <3>5. Copied(cur[p])' /\ AgentWritesSurvive' /\ live["db"].state \in {"ok", "torn"}
            /\ \A t \in Tx : t >= nextTx' => snap'[t]["db"].state = "none"
        BY <3>1, <3>4 DEF Copied, DataInv, AgentWritesSurvive
      <3>6. Stage(p)'
        BY <1>0, <3>1, <3>3 DEF Stage, Forward, Backward
      <3> QED  BY <2>1, <3>1, <3>2, <3>3, <3>4, <3>5, <3>6, DataHolder
    <2>2. CASE cur[p] \notin Incomplete
      BY <1>2, <1>25, <2>2 DEF RecoverResolve
    <2> QED  BY <2>1, <2>2
  \* Pruning.
  <1>26. CASE PruneFile(p)
    <2> PICK t \in Prunable, keepSnap \in BOOLEAN :
          /\ cur' = [cur EXCEPT ![p] = t]
          /\ snap' = IF keepSnap THEN snap ELSE [snap EXCEPT ![t] = [x \in Parts |-> None]]
      BY <1>26 DEF PruneFile
    <2>1. t \in Tx /\ t < nextTx
      BY <1>0 DEF Prunable, Listed, TypeOK, IInv, Fresh
    <2>2. Incomplete = {}
      BY <1>0, <1>26, IncompleteIsTx DEF PruneFile, Phase, Mine, Tx
    <2>3. pc' = pc /\ pc[p] = "prune" /\ cur'[p] = t /\ Alone(p)
          /\ UNCHANGED <<failed, live, nextTx, agentDone>>
      BY <1>0, <1>26 DEF PruneFile, Alone, TypeOK
    <2>4. Incomplete' \subseteq {t}
      BY <2>3 DEF IInv, Phase, Mine
    <2>5. live["db"].state = "ok" /\ Stage(p)'
      BY <1>0, <2>2, <2>3, DataWhole DEF Stage, Forward, Backward
    <2>6. AgentWritesSurvive' /\ \A u \in Tx : u >= nextTx' => snap'[u]["db"].state = "none"
      BY <1>0, <2>1, <2>3 DEF DataInv, AgentWritesSurvive
    <2> QED  BY <2>3, <2>4, <2>5, <2>6, DataHolder DEF Forward, Backward
  <1>27. CASE PruneDir(p)
    <2>1. pc' = pc /\ pc[p] = "prune" /\ cur'[p] = 0 /\ Alone(p)
          /\ UNCHANGED <<failed, live, nextTx, agentDone>>
      BY <1>0, <1>27 DEF PruneDir, Alone, TypeOK
    <2>2. Incomplete' \subseteq {0} /\ 0 \notin Tx
      BY <2>1 DEF IInv, Phase, Mine, Tx
    <2>3. live["db"].state = "ok"
      <3>1. \A t \in Incomplete : ~Kept(t)
        BY <1>0, <2>1 DEF Kept, Phase, Mine
      <3> QED  BY <3>1 DEF DataInv
    <2>4. Stage(p)'
      BY <1>0, <2>1 DEF Stage, Forward, Backward
    <2>5. cur[p] \in Tx /\ AgentWritesSurvive'
          /\ \A u \in Tx : u >= nextTx' => snap'[u]["db"].state = "none"
      <3>1. cur[p] \in Tx
        BY <1>0, <1>27, BoundAssumption DEF PruneDir, TypeOK, Tx
      <3> QED  BY <1>0, <1>27, <2>1, <3>1 DEF PruneDir, DataInv, AgentWritesSurvive, None, Blank
    <2> QED  BY <2>1, <2>2, <2>3, <2>4, <2>5, DataHolder DEF Forward, Backward
  <1> QED
    BY <1>1, <1>3, <1>4, <1>5, <1>6, <1>7, <1>10, <1>11, <1>13, <1>15, <1>16, <1>17, <1>18,
       <1>19, <1>21, <1>22, <1>23, <1>24, <1>25, <1>26, <1>27
    DEF Command, Begin, Snapshot, Body, Commit, Rollback, Recover, Prune, Override

LEMMA DataNext ==
  ASSUME "prune" \notin CrashAt, Role # "standalone", IInv, DataInv, IInv', [Next]_vars
  PROVE  DataInv'
  <1>1. CASE \E p \in Cli : Command(p)
    BY <1>1, DataCommand
  <1>2. CASE AgentStep
    <2> Agent \in Procs /\ "db" \in Parts
      BY PartAssumption DEF Procs
    <2>0. TypeOK /\ Stage(Agent) /\ live \in [Parts -> File]
      BY DEF IInv, DataInv, TypeOK
    <2>1. ASSUME UNCHANGED <<journal, nextTx>>, live'["db"] = live["db"], UNCHANGED agentDone,
                 pc'[Agent] \in {"fence", "write", "idle"}, ~failed'[Agent], Alone(Agent),
                 pc[Agent] # "prune"
          PROVE  DataInv'
      <3>1. Incomplete' = Incomplete
        BY <2>1 DEF journal, Incomplete, Listed
      <3> QED  BY <2>1, <3>1, DataLeave DEF Forward, Backward, journal
    <2>2. CASE AgentLock
      <3>1. Alone(Agent) /\ pc'[Agent] = "fence"
        BY <2>0, <2>2, GotoAlone DEF AgentLock, TryLock
      <3> QED  BY <2>0, <2>1, <2>2, <3>1 DEF AgentLock, Stage, budget, history
    <2>3. CASE AgentFence /\ Fence
      <3>1. Alone(Agent) /\ pc'[Agent] = "write"
        BY <2>0, <2>3, GotoAlone DEF AgentFence
      <3> QED  BY <2>0, <2>1, <2>3, <3>1 DEF AgentFence, Stage, budget, history
    <2>4. CASE AgentFence /\ ~Fence
      <3>1. Alone(Agent) /\ pc'[Agent] = "idle" /\ ~failed'[Agent]
        BY <2>0, <2>4, ExitAlone DEF AgentFence
      <3> QED  BY <2>1, <2>4, <3>1 DEF AgentFence, budget, history
    <2>5. CASE AgentWrite
      <3>1. Alone(Agent) /\ pc'[Agent] = "idle" /\ cur'[Agent] = 0 /\ ~failed'[Agent]
        BY <2>0, <2>5, ExitAlone DEF AgentWrite
      <3>2. Incomplete = {} /\ Incomplete' = {} /\ pc[Agent] = "write"
        BY <2>5 DEF AgentWrite, journal, Incomplete, Listed, IInv, Phase, Clear
      <3>3. live["db"].state = "ok" /\ live["db"] \in File
        BY <2>0, <3>2, DataWhole
      <3>4. live'["db"] = [live["db"] EXCEPT !.agent = agentDone + 1]
        BY <2>0, <2>5 DEF AgentWrite
      <3>5. live'["db"].state = "ok" /\ live'["db"].agent = agentDone'
        BY <2>5, <3>3, <3>4 DEF AgentWrite, File
      <3>6. Stage(Agent)' /\ 0 \notin Tx
        BY <3>1 DEF Stage, Forward, Backward, Tx
      <3>7. \A t \in Tx : t >= nextTx' => snap'[t]["db"].state = "none"
        BY <2>5 DEF AgentWrite, journal, budget, DataInv
      <3> QED  BY <3>1, <3>2, <3>5, <3>6, <3>7, DataHolder
               DEF Forward, Backward, AgentWritesSurvive
    <2> QED  BY <1>2, <2>2, <2>3, <2>4, <2>5 DEF AgentStep
  <1>3. CASE \E p \in Procs : Crash(p)
    <2> PICK p \in Procs : Crash(p)
      BY <1>3
    <2>1. Exit(p) /\ pc[p] # "prune" /\ UNCHANGED <<journal, live, nextTx, agentDone>>
      BY DEF Crash
    <2>2. Incomplete' = Incomplete
      BY <2>1 DEF journal, Incomplete, Listed
    <2>3. Alone(p) /\ pc'[p] = "idle" /\ ~failed'[p]
      BY <2>1, ExitAlone DEF IInv
    <2> QED  BY <2>1, <2>2, <2>3, DataLeave DEF Forward, Backward, journal
  <1>4. CASE UNCHANGED vars
    BY <1>4 DEF vars, journal, budget, history, DataInv, AgentWritesSurvive, Revertible, Kept,
       Copied, Stage, Incomplete, Listed
  <1> QED  BY <1>1, <1>2, <1>3, <1>4 DEF Next

LEMMA DataInit == Init => DataInv
  <1> SUFFICES ASSUME Init PROVE DataInv
    OBVIOUS
  <1>1. "db" \in Parts /\ "db" \notin AbsentParts
    BY PartAssumption
  <1>2. live["db"] = Blank("ok") /\ \A t \in Tx : snap[t]["db"] = None
    BY <1>1 DEF Init
  <1>3. Incomplete = {} /\ \A p \in Procs : pc[p] = "idle" /\ ~failed[p]
    BY DEF Init, Incomplete, Listed
  <1>4. live["db"].state = "ok" /\ AgentWritesSurvive /\ \A t \in Tx : snap[t]["db"].state = "none"
    BY <1>2 DEF Init, AgentWritesSurvive, Blank, None
  <1>5. \A t \in Tx : ~Revertible(t)
    BY <1>3 DEF Revertible, Forward, Backward
  <1>6. \A p \in Procs : Stage(p)
    BY <1>3 DEF Stage, Forward, Backward
  <1> QED  BY <1>4, <1>5, <1>6 DEF DataInv

\* On an Entry or an Exit, if no kill falls into prune(), no command, rollback
\* or recovery ever loses an access mutation of the Agent.
THEOREM AccessSurvives ==
  ASSUME "prune" \notin CrashAt, Role # "standalone"
  PROVE  Spec => []AgentWritesSurvive
  <1>1. IInv /\ DataInv /\ IInv' /\ [Next]_vars => DataInv'
    BY DataNext
  <1> QED  BY <1>1, DataInit, Invariance, PTL DEF Spec, DataInv

-----------------------------------------------------------------------------
(* Rollback.  What a rollback that ends as rolled_back has restored: every    *)
(* copy of an incomplete transaction is what the part was when it began, or   *)
(* does not look like one; and how far the holder has come says what is saved *)
(* (on the way out) and what is restored (on the way back).                   *)

\* Only these parts may be missing.
Optional == {"nginx", "subs"}
Sound(x) == live[x].state # "absent" /\ (live[x].state = "none" => live[x] = None /\ x \in Optional)

\* The copy of x in t is what x was when t began, or does not look like one.  A
\* part without a copy is as it was, unless `auto override` has written it.
Overridden(x) == x = "xray" /\ overrides > 0
Faithful(t, x) ==
    LET s == snap[t][x]
    IN  /\ s.state = "ok" => s = before[t][x]
        /\ s.state = "absent" => before[t][x] = None /\ x \in Optional
        /\ s.state = "torn" => before[t][x].state # "none"
        /\ s.state = "none" /\ x # "subs" => live[x] = before[t][x] \/ Overridden(x)
Ordered(t) == {"xray", "subs"} \subseteq Parts /\ snap[t]["xray"].state = "none"
                  => snap[t]["subs"].state = "none"
Saved(t) == Ordered(t) /\ \A x \in Parts : Faithful(t, x)

\* What a rollback of t that has not failed has made of x.
Recovered(t, x) ==
    LET s == snap[t][x].state
    IN  /\ s # "torn" => live[x] = before[t][x] \/ (s = "none" /\ Overridden(x))
        /\ x = "subs" => s # "none"

\* How far the holder p has come with its transaction.
Untouched == {"plan", "result", "snap", "copy"}
Mutating == {"mutate", "recopy", "resnap", "marked"}
Progress(p) ==
    LET s == snap[cur[p]]
    IN  /\ pc[p] \in Untouched => live = before[cur[p]]
        /\ pc[p] \in {"plan", "result"} => s = [x \in Parts |-> None]
        /\ pc[p] \in {"snap", "copy"} => \A x \in Parts \ at[p] : s[x].state # "none"
        /\ pc[p] \in {"snap", "copy"} => \A x \in at[p] :
              s[x] = IF pc[p] = "copy" /\ FirstOf(SnapRank, at[p], x)
                     THEN IF live[x].state = "none" THEN Absent ELSE Torn
                     ELSE None
        /\ pc[p] \in Mutating => \A x \in Parts : s[x].state # "none"
        /\ pc[p] = "recopy" => live["subs"] = before[cur[p]]["subs"]
        /\ pc[p] = "resnap" => live["xray"] = before[cur[p]]["xray"]
        /\ pc[p] = "override" => overrides > 0
        /\ pc[p] = "check" => at[p] = {}
        /\ pc[p] \in {"restore", "check"} /\ ~failed[p] =>
              \A x \in Parts \ at[p] : Recovered(cur[p], x)

RestInv ==
    /\ \A x \in Parts : Sound(x)
    /\ \A t \in Tx : t >= nextTx => snap[t] = [x \in Parts |-> None]
    /\ \A t \in Tx : Revertible(t) => Saved(t)
    /\ \A p \in Procs : Progress(p)

\* What a step of the holder p has to show, if at most c is incomplete after it.
LEMMA RestHolder ==
  ASSUME IInv, RestInv, NEW p \in Procs, pc[p] \notin {"idle", "chosen"}, Alone(p),
         NEW c, Incomplete' \subseteq {c},
         pc'[p] \in Forward \cup Backward => cur'[p] = c,
         \A x \in Parts : Sound(x)',
         \A t \in Tx : t >= nextTx' => snap'[t] = [x \in Parts |-> None],
         c \in Tx /\ (pc'[p] = "prune" => cur'[p] # c) => Saved(c)',
         Progress(p)'
  PROVE  RestInv'
  <1>1. \A q \in Procs \ {p} : pc[q] \in {"idle", "chosen"}
    BY DEF IInv, Exclusion
  <1>2. \A q \in Procs \ {p} : Progress(q)'
    BY <1>1 DEF Progress, Alone, Untouched, Mutating
  <1>3. \A t \in Tx : Revertible(t)' => t = c /\ (pc'[p] = "prune" => cur'[p] # c)
    BY <1>1 DEF Revertible, Alone, Forward, Backward, Kept
  <1>4. \A t \in Tx : Revertible(t)' => Saved(t)'
    BY <1>3
  <1>5. \A q \in Procs : Progress(q)'
    BY <1>2
  <1> QED  BY <1>4, <1>5 DEF RestInv

\* A step of a process that has no transaction in hand afterwards.
LEMMA RestLeave ==
  ASSUME IInv, RestInv, NEW p \in Procs, Alone(p),
         pc[p] # "prune" \/ cur[p] \notin Tx,
         pc'[p] \notin Forward \cup Backward \cup {"prune", "override"},
         Incomplete' = Incomplete,
         UNCHANGED <<snap, live, before, nextTx, overrides>>
  PROVE  RestInv'
  <1>0. \A x \in Parts : Sound(x)'
    BY DEF RestInv, Sound
  <1>1. \A t \in Tx : Kept(t)' => Kept(t)
    BY DEF Kept, Alone
  <1>2. \A t \in Tx : Revertible(t)' => Revertible(t)
    BY <1>1 DEF Revertible, Alone
  <1>3. \A t \in Tx : Revertible(t)' => Saved(t)'
    BY <1>2 DEF RestInv, Saved, Ordered, Faithful, Overridden
  <1>4. \A q \in Procs \ {p} : Progress(q)'
    BY DEF RestInv, Progress, Alone, Recovered, Overridden
  <1>5. Progress(p)'
    BY DEF Progress, Untouched, Mutating, Forward, Backward
  <1>6. \A q \in Procs : Progress(q)'
    BY <1>4, <1>5
  <1> QED  BY <1>0, <1>3, <1>6 DEF RestInv

\* What a holder knows that is not pruning.
LEMMA RestUse ==
  ASSUME IInv, RestInv, NEW p \in Procs, pc[p] \notin {"idle", "chosen", "prune"},
         NEW t \in Tx, t \in Incomplete \/ (t = cur[p] /\ pc[p] \in Forward \cup Backward)
  PROVE  Saved(t)
  <1>1. \A q \in Procs : pc[q] # "prune"
    BY DEF IInv, Exclusion
  <1> QED  BY <1>1 DEF RestInv, Revertible, Kept

LEMMA RestInit == Init => RestInv
  <1> SUFFICES ASSUME Init PROVE RestInv
    OBVIOUS
  <1>1. Incomplete = {} /\ \A p \in Procs : pc[p] = "idle"
    BY DEF Init, Incomplete, Listed
  <1>2. \A t \in Tx : ~Revertible(t)
    BY <1>1 DEF Revertible, Forward, Backward
  <1>3. \A p \in Procs : Progress(p)
    BY <1>1 DEF Progress, Untouched, Mutating
  <1>4. \A x \in Parts : live[x] \in {None, Blank("ok")} /\ (live[x] = None => x \in Optional)
    BY PartAssumption DEF Init, None, Blank, Optional
  <1> QED  BY <1>2, <1>3, <1>4 DEF RestInv, Sound, Init, None, Blank

\* A step of p on its own transaction; what it leaves of the copies and of the
\* node is still to be shown.
LEMMA RestOwn ==
  ASSUME IInv, RestInv, IInv', NEW p \in Procs, Alone(p),
         pc[p] \in Forward \cup Backward, pc'[p] \in Forward \cup Backward,
         UNCHANGED <<cur, nextTx>>,
         \A x \in Parts : Sound(x)',
         \A t \in Tx \ {cur[p]} : snap'[t] = snap[t],
         Saved(cur[p])', Progress(p)'
  PROVE  RestInv'
  <1>1. pc[p] \notin {"idle", "chosen"} /\ pc'[p] \in Mine \cup Clear
    BY DEF Forward, Backward, Mine, Clear
  <1>2. Incomplete' \subseteq {cur[p]}
    BY <1>1 DEF IInv, Phase
  <1>3. cur[p] < nextTx /\ nextTx \in Nat /\ cur[p] \in Nat
    BY BoundAssumption DEF IInv, Fresh, TypeOK
  <1>4. \A t \in Tx : t >= nextTx' => snap'[t] = [x \in Parts |-> None]
    BY <1>3 DEF RestInv, Tx
  <1> QED  BY <1>1, <1>2, <1>4, RestHolder

\* A step that leaves copies and node alone.
LEMMA RestQuiet ==
  ASSUME IInv, RestInv, IInv', NEW p \in Procs, Alone(p),
         pc[p] \in Forward \cup Backward, pc'[p] \in Forward \cup Backward,
         UNCHANGED <<cur, nextTx, snap, live, before, overrides>>,
         Progress(p)'
  PROVE  RestInv'
  <1>1. pc[p] \notin {"idle", "chosen", "prune"} /\ cur[p] \in Tx
    BY BoundAssumption DEF Forward, Backward, IInv, TypeOK, Owning, Tx
  <1>2. Saved(cur[p])
    BY <1>1, RestUse
  <1>3. Saved(cur[p])'
    BY <1>2 DEF Saved, Ordered, Faithful, Overridden
  <1> QED  BY <1>1, <1>3, RestOwn DEF RestInv, Sound

LEMMA RestBegin ==
  ASSUME IInv, RestInv, IInv', NEW p \in Cli, Begin(p)
  PROVE  RestInv'
  <1> p \in Procs
    BY DEF Procs
  <1> USE DEF journal, budget, history
  <1>0. TypeOK /\ Progress(p) /\ nextTx \in Nat /\ cur[p] < nextTx
    BY BoundAssumption DEF IInv, Fresh, RestInv, TypeOK
  <1>1. CASE Refuse(p)
    <2>1. Alone(p) /\ pc'[p] = "idle" /\ pc[p] = "locked"
      BY <1>0, <1>1, ExitAlone DEF Refuse
    <2>2. Incomplete' = Incomplete
      BY <1>1 DEF Refuse, Incomplete, Listed
    <2> QED  BY <1>1, <2>1, <2>2, RestLeave DEF Refuse, Forward, Backward
  <1>2. CASE BeginDir(p)
    <2> PICK c \in Tx : c = nextTx
      BY <1>0, <1>2, BoundAssumption DEF BeginDir, TypeOK, Tx
    <2>1. /\ pc'[p] = "plan" /\ Alone(p) /\ pc[p] = "locked" /\ cur'[p] = c
          /\ nextTx' = nextTx + 1 /\ UNCHANGED <<live, snap, overrides>>
          /\ before'[c] = live
      BY <1>0, <1>2, GotoEffect, BoundAssumption DEF BeginDir, Alone, TypeOK
    <2>2. Incomplete' \subseteq {c}
      BY <2>1 DEF IInv, Phase, Clear
    <2>3. \A t \in Tx : t >= nextTx => snap[t] = [x \in Parts |-> None]
      BY DEF RestInv
    <2>4. \A t \in Tx : t >= nextTx' => snap'[t] = [x \in Parts |-> None]
      BY <1>0, <2>1, <2>3 DEF Tx
    <2>5. snap'[c] = [x \in Parts |-> None]
      BY <1>0, <2>1, <2>3
    <2>6. Saved(c)'
      BY <2>1, <2>5 DEF Saved, Ordered, Faithful, None, Blank
    <2>7. Progress(p)'
      BY <2>1, <2>5 DEF Progress, Untouched, Mutating
    <2>8. \A x \in Parts : Sound(x)'
      BY <2>1 DEF RestInv, Sound
    <2>9. pc[p] \notin {"idle", "chosen"} /\ pc'[p] # "prune"
      BY <2>1
    <2> QED  BY <2>1, <2>2, <2>4, <2>6, <2>7, <2>8, <2>9, RestHolder
  <1>3. CASE BeginPlan(p)
    <2>1. pc'[p] = "result" /\ Alone(p) /\ pc[p] = "plan"
      BY <1>0, <1>3, GotoAlone DEF BeginPlan
    <2>2. Progress(p)'
      BY <1>0, <1>3, <2>1 DEF BeginPlan, Progress, Untouched, Mutating
    <2> QED  BY <1>3, <2>1, <2>2, RestQuiet DEF BeginPlan, Forward
  <1>4. CASE BeginResult(p)
    <2>1. pc'[p] = "snap" /\ Alone(p) /\ pc[p] = "result" /\ at'[p] = Parts
      BY <1>0, <1>4, GotoEffect DEF BeginResult, Alone, TypeOK
    <2>2. Progress(p)'
      BY <1>0, <1>4, <2>1 DEF BeginResult, Progress, Untouched, Mutating
    <2> QED  BY <1>4, <2>1, <2>2, RestQuiet DEF BeginResult, Forward
  <1> QED  BY <1>1, <1>2, <1>3, <1>4 DEF Begin

\* The five parts are copied in an order without ties.
LEMMA SnapOrder ==
  ASSUME NEW S \in SUBSET Parts, NEW x \in S, FirstOf(SnapRank, S, x)
  PROVE  /\ \A y \in S : FirstOf(SnapRank, S, y) => y = x
         /\ x = "subs" => "xray" \notin S
  <1>1. Parts \subseteq {"xray", "config", "nginx", "subs", "db"}
    BY PartAssumption
  <1>2. \A y, z \in Parts : SnapRank[y] <= SnapRank[z] /\ SnapRank[z] <= SnapRank[y] => y = z
    BY <1>1 DEF SnapRank
  <1>3. SnapRank["xray"] = 1 /\ SnapRank["subs"] = 4
    BY DEF SnapRank
  <1> QED  BY <1>2, <1>3 DEF FirstOf

LEMMA RestSnapshot ==
  ASSUME IInv, RestInv, IInv', NEW p \in Cli, Snapshot(p)
  PROVE  RestInv'
  <1> p \in Procs
    BY DEF Procs
  <1> USE DEF journal, budget, history
  <1>0. TypeOK /\ Progress(p) /\ at[p] \in SUBSET Parts /\ snap \in [Tx -> [Parts -> File]]
    BY DEF IInv, RestInv, TypeOK
  <1>1. pc[p] \in {"snap", "copy"} /\ cur[p] \in Tx
    BY <1>0, BoundAssumption DEF Snapshot, SnapOpen, SnapClose, TypeOK, Owning, Tx
  <1> PICK c \in Tx : c = cur[p]
    BY <1>1
  <1>2. Saved(c)
    BY <1>1, RestUse DEF Forward
  <1>3. live = before[c] /\ \A x \in Parts \ at[p] : snap[c][x].state # "none"
    BY <1>0, <1>1 DEF Progress, Untouched
  <1>4. CASE SnapOpen(p)
    <2>1. pc'[p] = "copy" /\ Alone(p) /\ pc[p] = "snap"
      BY <1>0, <1>4, GotoAlone DEF SnapOpen
    <2> PICK x \in at[p] : /\ FirstOf(SnapRank, at[p], x)
                           /\ snap' = [snap EXCEPT ![cur[p]][x] =
                                  IF live[x].state = "none" THEN Absent ELSE Torn]
      BY <1>4 DEF SnapOpen
    <2> DEFINE v == IF live[x].state = "none" THEN Absent ELSE Torn
    <2>2. /\ x \in Parts /\ UNCHANGED <<cur, at, live, before, nextTx, overrides>>
          /\ \A t \in Tx \ {c} : snap'[t] = snap[t]
          /\ snap'[c][x] = v /\ \A y \in Parts \ {x} : snap'[c][y] = snap[c][y]
      BY <1>0, <1>4 DEF SnapOpen
    <2>3. \A y \in at[p] : snap[c][y] = None
      BY <1>0, <2>1 DEF Progress
    <2>4. v.state \in {"absent", "torn"} /\ (v.state = "absent" => before[c][x] = None /\ x \in Optional)
          /\ (v.state = "torn" => before[c][x].state # "none")
      BY <1>3, <2>2 DEF Absent, Torn, Blank, RestInv, Sound
    <2>5. Progress(p)'
      <3>1. \A y \in at[p] : snap'[c][y] = IF FirstOf(SnapRank, at[p], y)
                                 THEN IF live[y].state = "none" THEN Absent ELSE Torn
                                 ELSE None
        <4>1. FirstOf(SnapRank, at[p], x) /\ \A y \in at[p] : FirstOf(SnapRank, at[p], y) => y = x
          BY <1>0, SnapOrder
        <4>2. \A y \in at[p] \ {x} : snap'[c][y] = None
          BY <1>0, <2>2, <2>3
        <4> QED  BY <2>2, <4>1, <4>2
      <3>2. \A y \in Parts \ at[p] : snap'[c][y].state # "none"
        BY <1>3, <2>2
      <3> QED  BY <1>3, <2>1, <2>2, <3>1, <3>2 DEF Progress, Untouched, Mutating
    <2>6. \A y \in Parts : Faithful(c, y)'
      <3>1. Faithful(c, x)'
        BY <2>2, <2>4 DEF Faithful
      <3>2. \A y \in Parts \ {x} : Faithful(c, y)'
        BY <1>2, <2>2 DEF Faithful, Saved, Overridden
      <3> QED  BY <3>1, <3>2
    <2>7. Ordered(c)'
      <3>1. CASE x \in {"xray", "subs"}
        <4>1. x = "subs" => "xray" \notin at[p]
          BY <1>0, SnapOrder
        <4> QED  BY <1>3, <2>2, <2>4, <3>1, <4>1 DEF Ordered
      <3>2. CASE x \notin {"xray", "subs"}
        BY <1>2, <2>2, <3>2 DEF Ordered, Saved
      <3> QED  BY <3>1, <3>2
    <2> QED  BY <2>1, <2>2, <2>5, <2>6, <2>7, RestOwn DEF Saved, Forward, RestInv, Sound
  <1>5. CASE SnapClose(p)
    <2> PICK x \in at[p] :
          /\ FirstOf(SnapRank, at[p], x)
          /\ at' = [at EXCEPT ![p] = @ \ {x}]
          /\ \/ snap' = [snap EXCEPT ![cur[p]][x] = IF @.state = "absent" THEN Absent ELSE live[x]]
             \/ UNCHANGED snap
          /\ Goto(p, IF at[p] = {x} THEN "mutate" ELSE "snap")
      BY <1>5 DEF SnapClose
    <2>1. /\ pc'[p] = (IF at[p] = {x} THEN "mutate" ELSE "snap") /\ Alone(p) /\ pc[p] = "copy"
          /\ at'[p] = at[p] \ {x}
      BY <1>0, <1>5, GotoEffect DEF SnapClose, Alone, TypeOK
    <2>2. /\ x \in Parts /\ UNCHANGED <<cur, live, before, nextTx, overrides>>
          /\ \A t \in Tx \ {c} : snap'[t] = snap[t]
          /\ snap'[c][x] \in {snap[c][x], IF snap[c][x].state = "absent" THEN Absent ELSE live[x]}
          /\ \A y \in Parts \ {x} : snap'[c][y] = snap[c][y]
      <3>1. x \in Parts /\ UNCHANGED <<cur, live, before, nextTx, overrides>>
        BY <1>0, <1>5 DEF SnapClose
      <3>2. CASE UNCHANGED snap
        BY <3>1, <3>2
      <3>3. CASE snap' = [snap EXCEPT ![cur[p]][x] = IF @.state = "absent" THEN Absent ELSE live[x]]
        BY <1>0, <3>1, <3>3
      <3> QED  BY <3>1, <3>2, <3>3
    <2>3. snap[c][x] = IF live[x].state = "none" THEN Absent ELSE Torn
      BY <1>0, <2>1 DEF Progress
    <2>4. snap'[c][x] = snap[c][x] \/ (live[x].state # "none" /\ snap'[c][x] = live[x])
      BY <2>2, <2>3 DEF Absent, Torn, Blank
    <2>5. snap'[c][x].state # "none" /\ Faithful(c, x)'
      <3>1. CASE snap'[c][x] = snap[c][x]
        <4>1. snap[c][x].state # "none"
          BY <2>3 DEF Absent, Torn, Blank
        <4> QED  BY <1>2, <2>2, <3>1, <4>1 DEF Saved, Faithful
      <3>2. CASE live[x].state # "none" /\ snap'[c][x] = live[x]
        <4>1. live[x].state # "absent" /\ live[x] = before'[c][x]
          BY <1>3, <2>2 DEF RestInv, Sound
        <4> QED  BY <3>2, <4>1 DEF Faithful
      <3> QED  BY <2>4, <3>1, <3>2
    <2>6. Progress(p)'
      <3>1. \A y \in at[p] \ {x} : snap'[c][y] = None
        <4>1. \A y \in at[p] \ {x} : ~FirstOf(SnapRank, at[p], y)
          BY <1>0, SnapOrder
        <4> QED  BY <1>0, <2>1, <2>2, <4>1 DEF Progress
      <3>2. \A y \in Parts \ at'[p] : snap'[c][y].state # "none"
        BY <1>3, <2>1, <2>2, <2>5
      <3>3. live' = before'[c]
        BY <1>3, <2>2
      <3>4. at[p] = {x} => \A y \in Parts : snap'[c][y].state # "none"
        BY <2>1, <3>2
      <3> QED  BY <2>1, <2>2, <3>1, <3>2, <3>3, <3>4 DEF Progress, Untouched, Mutating
    <2>7. Saved(c)'
      <3>1. \A y \in Parts \ {x} : Faithful(c, y)'
        BY <1>2, <2>2 DEF Faithful, Saved, Overridden
      <3>2. Ordered(c)'
        <4>1. snap[c][x].state # "none"
          BY <2>3 DEF Absent, Torn, Blank
        <4> QED  BY <1>2, <2>2, <2>5, <4>1 DEF Ordered, Saved
      <3> QED  BY <2>5, <3>1, <3>2 DEF Saved
    <2> QED  BY <2>1, <2>2, <2>6, <2>7, RestOwn DEF Forward, RestInv, Sound
  <1> QED  BY <1>4, <1>5 DEF Snapshot

LEMMA RestBody ==
  ASSUME IInv, RestInv, IInv', NEW p \in Cli, Body(p)
  PROVE  RestInv'
  <1> p \in Procs
    BY DEF Procs
  <1> USE DEF journal, budget, history
  <1>0. /\ TypeOK /\ Progress(p) /\ snap \in [Tx -> [Parts -> File]] /\ live \in [Parts -> File]
        /\ \A x \in Parts : Sound(x)
    BY DEF IInv, RestInv, TypeOK
  <1>1. pc[p] \in {"mutate", "recopy", "resnap"} /\ cur[p] \in Tx
    BY <1>0, BoundAssumption DEF Body, Mutate, InstallSubsOpen, InstallSubsClose, ResnapXrayOpen,
       ResnapXrayClose, TypeOK, Owning, Tx
  <1> PICK c \in Tx : c = cur[p]
    BY <1>1
  <1>2. Saved(c) /\ \A x \in Parts : snap[c][x].state # "none"
    BY <1>0, <1>1, RestUse DEF Forward, Progress, Mutating
  \* Every part has a copy, so what is written does not matter.
  <1>3. ASSUME pc'[p] \in {"mutate", "recopy", "resnap"}, Alone(p), UNCHANGED <<cur, before, nextTx>>,
               \A x \in Parts : live'[x] = live[x] \/ live'[x] = Written(live[x], c),
               \A t \in Tx \ {c} : snap'[t] = snap[t],
               \A x \in Parts : snap'[c][x].state # "none" /\ Faithful(c, x)',
               pc'[p] = "recopy" => live'["subs"] = before[c]["subs"],
               pc'[p] = "resnap" => live'["xray"] = before[c]["xray"]
        PROVE  RestInv'
    <2>1. \A x \in Parts : Sound(x)'
      <3> SUFFICES ASSUME NEW x \in Parts PROVE Sound(x)'
        OBVIOUS
      <3>1. Written(live[x], c).state = "ok"
        BY <1>0 DEF Written, File
      <3> QED  BY <1>0, <1>3, <3>1 DEF Sound
    <2>2. Saved(c)'
      BY <1>3, PartAssumption DEF Saved, Ordered
    <2>3. Progress(p)'
      BY <1>3 DEF Progress, Untouched, Mutating
    <2> QED  BY <1>1, <1>3, <2>1, <2>2, <2>3, RestOwn DEF Forward
  <1>4. CASE Mutate(p)
    <2>1. Alone(p) /\ UNCHANGED <<pc, cur, before, nextTx, snap>>
      BY <1>4 DEF Mutate, Alone
    <2>2. \A x \in Parts : live'[x] = live[x] \/ live'[x] = Written(live[x], c)
      BY <1>0, <1>4 DEF Mutate
    <2>3. \A x \in Parts : snap'[c][x].state # "none" /\ Faithful(c, x)'
      BY <1>2, <2>1 DEF Saved, Faithful
    <2> QED  BY <1>3, <1>4, <2>1, <2>2, <2>3 DEF Mutate
  <1>5. CASE InstallSubsOpen(p)
    <2>1. pc'[p] = "recopy" /\ Alone(p)
      BY <1>0, <1>5, GotoAlone DEF InstallSubsOpen
    <2>2. /\ UNCHANGED <<cur, live, before, nextTx>> /\ live["subs"] = before[c]["subs"]
          /\ "subs" \in Parts /\ \A t \in Tx \ {c} : snap'[t] = snap[t]
          /\ \A x \in Parts \ {"subs"} : snap'[c][x] = snap[c][x]
          /\ snap'[c]["subs"] = IF snap[c]["subs"].state = "absent" THEN snap[c]["subs"] ELSE Torn
      BY <1>0, <1>5 DEF InstallSubsOpen
    <2>3. snap[c]["subs"].state # "absent" => before[c]["subs"].state # "none"
      <3>1. snap[c]["subs"] \in File /\ snap[c]["subs"].state \in {"ok", "torn", "absent"}
        BY <1>0, <1>2, <2>2 DEF File, FileState
      <3> QED  BY <1>2, <2>2, <3>1 DEF Saved, Faithful
    <2>4. \A x \in Parts : snap'[c][x].state # "none" /\ Faithful(c, x)'
      <3> SUFFICES ASSUME NEW x \in Parts PROVE snap'[c][x].state # "none" /\ Faithful(c, x)'
        OBVIOUS
      <3>1. CASE snap'[c][x] = snap[c][x]
        BY <1>2, <2>2, <3>1 DEF Saved, Faithful
      <3>2. CASE snap'[c][x] = Torn /\ x = "subs" /\ snap[c]["subs"].state # "absent"
        BY <2>2, <2>3, <3>2 DEF Faithful, Torn, Blank
      <3> QED  BY <2>2, <3>1, <3>2
    <2> QED  BY <1>3, <2>1, <2>2, <2>4
  <1>6. CASE InstallSubsClose(p)
    <2>1. pc'[p] = "mutate" /\ Alone(p) /\ pc[p] = "recopy"
      BY <1>0, <1>6, GotoAlone DEF InstallSubsClose
    <2>2. UNCHANGED <<cur, before, nextTx>> /\ live["subs"] = before[c]["subs"]
      BY <1>0, <1>6, <2>1 DEF InstallSubsClose, Progress
    <2>3. \A x \in Parts : live'[x] = live[x] \/ live'[x] = Written(live[x], c)
      BY <1>0, <1>6 DEF InstallSubsClose
    <2>4. /\ \A t \in Tx \ {c} : snap'[t] = snap[t]
          /\ \A x \in Parts : snap'[c][x] = snap[c][x]
                \/ (x = "subs" /\ snap[c]["subs"].state # "absent" /\ snap'[c][x] = live["subs"])
      BY <1>0, <1>6 DEF InstallSubsClose
    <2>5. \A x \in Parts : snap'[c][x].state # "none" /\ Faithful(c, x)'
      <3> SUFFICES ASSUME NEW x \in Parts PROVE snap'[c][x].state # "none" /\ Faithful(c, x)'
        OBVIOUS
      <3>1. CASE snap'[c][x] = snap[c][x]
        BY <1>2, <2>2, <3>1 DEF Saved, Faithful
      <3>2. CASE x = "subs" /\ snap[c]["subs"].state # "absent" /\ snap'[c][x] = live["subs"]
        <4>1. snap[c]["subs"] \in File /\ snap[c]["subs"].state \in {"ok", "torn"}
          BY <1>0, <1>2, <3>2 DEF File, FileState
        <4>2. before[c]["subs"].state # "none"
          BY <1>2, <3>2, <4>1 DEF Saved, Faithful
        <4>3. Sound(x)
          BY <1>0
        <4> QED  BY <2>2, <3>2, <4>2, <4>3 DEF Faithful, Sound
      <3> QED  BY <2>4, <3>1, <3>2
    <2> QED  BY <1>3, <2>1, <2>2, <2>3, <2>4, <2>5
  <1>7. CASE ResnapXrayOpen(p)
    <2>1. pc'[p] = "resnap" /\ Alone(p)
      BY <1>0, <1>7, GotoAlone DEF ResnapXrayOpen
    <2>2. /\ UNCHANGED <<cur, live, before, nextTx>> /\ live["xray"] = before[c]["xray"]
          /\ "xray" \in Parts /\ \A t \in Tx \ {c} : snap'[t] = snap[t]
          /\ \A x \in Parts \ {"xray"} : snap'[c][x] = snap[c][x]
          /\ snap'[c]["xray"] = Torn
      BY <1>0, <1>7 DEF ResnapXrayOpen
    <2>3. before[c]["xray"].state # "none"
      BY <1>0, <2>2 DEF Sound, Optional
    <2>4. \A x \in Parts : snap'[c][x].state # "none" /\ Faithful(c, x)'
      <3>1. snap'[c]["xray"].state # "none" /\ Faithful(c, "xray")'
        BY <2>2, <2>3 DEF Faithful, Torn, Blank
      <3>2. \A x \in Parts \ {"xray"} : snap'[c][x].state # "none" /\ Faithful(c, x)'
        BY <1>2, <2>2 DEF Saved, Faithful
      <3> QED  BY <3>1, <3>2
    <2> QED  BY <1>3, <2>1, <2>2, <2>4
  <1>8. CASE ResnapXrayClose(p)
    <2>1. pc'[p] = "mutate" /\ Alone(p) /\ pc[p] = "resnap"
      BY <1>0, <1>8, GotoAlone DEF ResnapXrayClose
    <2>2. /\ UNCHANGED <<cur, live, before, nextTx>> /\ live["xray"] = before[c]["xray"]
          /\ \A t \in Tx \ {c} : snap'[t] = snap[t]
          /\ \A x \in Parts \ {"xray"} : snap'[c][x] = snap[c][x]
          /\ "xray" \in Parts => snap'[c]["xray"] = live["xray"]
      BY <1>0, <1>8, <2>1 DEF ResnapXrayClose, Progress
    <2>4. \A x \in Parts : snap'[c][x].state # "none" /\ Faithful(c, x)'
      <3>1. "xray" \in Parts => snap'[c]["xray"].state # "none" /\ Faithful(c, "xray")'
        BY <1>0, <2>2 DEF Faithful, Sound, Optional
      <3>2. \A x \in Parts \ {"xray"} : snap'[c][x].state # "none" /\ Faithful(c, x)'
        BY <1>2, <2>2 DEF Saved, Faithful
      <3> QED  BY <3>1, <3>2
    <2> QED  BY <1>3, <2>1, <2>2, <2>4
  <1> QED  BY <1>4, <1>5, <1>6, <1>7, <1>8 DEF Body

LEMMA RestEnd ==    \* commit, or the trap
  ASSUME IInv, RestInv, IInv', NEW p \in Cli, Commit(p) \/ Abort(p)
  PROVE  RestInv'
  <1> p \in Procs
    BY DEF Procs
  <1> USE DEF journal, budget, history
  <1>0. TypeOK /\ Progress(p)
    BY DEF IInv, RestInv
  <1>1. CASE CommitMark(p)
    <2>1. pc'[p] = "marked" /\ Alone(p) /\ pc[p] = "mutate"
      BY <1>0, <1>1, GotoAlone DEF CommitMark
    <2>2. Progress(p)'
      BY <1>0, <1>1, <2>1 DEF CommitMark, Progress, Untouched, Mutating
    <2> QED  BY <1>1, <2>1, <2>2, RestQuiet DEF CommitMark, Forward
  <1>2. CASE CommitDisarm(p)
    <2>1. pc'[p] = "prune" /\ cur'[p] = 0 /\ Alone(p) /\ pc[p] = "marked"
      BY <1>0, <1>2, GotoEffect DEF CommitDisarm, Alone, TypeOK
    <2>2. Incomplete' \subseteq {0} /\ 0 \notin Tx
      BY <2>1 DEF IInv, Phase, Mine, Tx
    <2>3. Progress(p)'
      BY <2>1 DEF Progress, Untouched, Mutating
    <2>4. (\A x \in Parts : Sound(x)') /\ \A t \in Tx : t >= nextTx' => snap'[t] = [x \in Parts |-> None]
      BY <1>2 DEF CommitDisarm, RestInv, Sound
    <2> QED  BY <2>1, <2>2, <2>3, <2>4, RestHolder DEF Forward, Backward
  <1>3. CASE Abort(p)
    <2>1. pc'[p] = "gate" /\ Alone(p) /\ pc[p] \in Forward
      BY <1>0, <1>3, GotoAlone DEF Abort, Forward
    <2>2. Progress(p)'
      BY <2>1 DEF Progress, Untouched, Mutating
    <2> QED  BY <1>3, <2>1, <2>2, RestQuiet DEF Abort, Backward
  <1> QED  BY <1>1, <1>2, <1>3 DEF Commit

\* What the two restore steps have in common.
LEMMA RestoreEffect ==
  ASSUME NEW p, RestorePart(p) \/ RestoreFault(p)
  PROVE  \E x \in at[p] :
            /\ at' = [at EXCEPT ![p] = @ \ {x}]
            /\ Goto(p, IF at[p] = {x} THEN "check" ELSE "restore")
            /\ \/ \E f \in Restored(cur[p], x) : live' = [live EXCEPT ![x] = f] /\ UNCHANGED failed
               \/ /\ \E f \in NotRestored(cur[p], x) : live' = [live EXCEPT ![x] = f]
                  /\ failed' = [failed EXCEPT ![p] = TRUE]
               \/ /\ x = "subs" \/ snap[cur[p]][x].state \in {"ok", "torn"}
                  /\ live' = live \/ live' = [live EXCEPT ![x] = Torn]
                  /\ failed' = [failed EXCEPT ![p] = TRUE]
  BY DEF RestorePart, RestoreFault

LEMMA RestRestore ==
  ASSUME IInv, RestInv, IInv', NEW p \in Cli, RestorePart(p) \/ RestoreFault(p)
  PROVE  RestInv'
  <1> p \in Procs
    BY DEF Procs
  <1> USE DEF journal, budget, history
  <1>0. /\ TypeOK /\ Progress(p) /\ snap \in [Tx -> [Parts -> File]] /\ live \in [Parts -> File]
        /\ \A x \in Parts : Sound(x)
    BY DEF IInv, RestInv, TypeOK
  <1>1. pc[p] = "restore" /\ cur[p] \in Tx
    BY <1>0, BoundAssumption DEF RestorePart, RestoreFault, TypeOK, Owning, Tx
  <1> PICK c \in Tx : c = cur[p]
    BY <1>1
  <1>2. Saved(c)
    BY <1>1, RestUse DEF Backward
  <1> PICK x \in at[p] :
        /\ at' = [at EXCEPT ![p] = @ \ {x}]
        /\ Goto(p, IF at[p] = {x} THEN "check" ELSE "restore")
        /\ \/ \E f \in Restored(c, x) : live' = [live EXCEPT ![x] = f] /\ UNCHANGED failed
           \/ /\ \E f \in NotRestored(c, x) : live' = [live EXCEPT ![x] = f]
              /\ failed' = [failed EXCEPT ![p] = TRUE]
           \/ /\ x = "subs" \/ snap[c][x].state \in {"ok", "torn"}
              /\ live' = live \/ live' = [live EXCEPT ![x] = Torn]
              /\ failed' = [failed EXCEPT ![p] = TRUE]
    BY RestoreEffect
  <1>3. /\ pc'[p] = (IF at[p] = {x} THEN "check" ELSE "restore")
        /\ at'[p] = at[p] \ {x} /\ x \in Parts /\ Alone(p)
        /\ UNCHANGED <<cur, snap, nextTx, before, overrides>>
    BY <1>0, GotoEffect DEF RestorePart, RestoreFault, Alone, TypeOK
  <1>4. /\ \A y \in Parts \ {x} : live'[y] = live[y]
        /\ failed[p] => failed'[p]
        /\ Faithful(c, x)' /\ Sound(x)'
        /\ ~failed'[p] => ~failed[p] /\ Recovered(c, x)'
    <2>1. CASE \E f \in Restored(c, x) : live' = [live EXCEPT ![x] = f] /\ UNCHANGED failed
      <3> PICK f \in Restored(c, x) : live' = [live EXCEPT ![x] = f] /\ UNCHANGED failed
        BY <2>1
      <3>1. live'[x] = f /\ (\A y \in Parts \ {x} : live'[y] = live[y]) /\ failed' = failed
        BY <1>0, <1>3
      <3>2. Faithful(c, x) /\ Sound(x)
        BY <1>0, <1>2, <1>3 DEF Saved
      <3>3. CASE snap[c][x].state = "absent" /\ f = None
        BY <1>3, <3>1, <3>2, <3>3 DEF Faithful, Sound, Recovered, None, Blank
      <3>4. CASE snap[c][x].state = "ok" /\ f = snap[c][x]
        BY <1>3, <3>1, <3>2, <3>4 DEF Faithful, Sound, Recovered
      <3>5. CASE snap[c][x].state = "none" /\ x # "subs" /\ f = live[x]
        BY <1>3, <3>1, <3>2, <3>5 DEF Faithful, Sound, Recovered, Overridden
      <3>6. CASE snap[c][x].state = "torn" /\ f = Torn
        BY <1>3, <3>1, <3>2, <3>6 DEF Faithful, Sound, Recovered, Torn, Blank
      <3>7. CASE snap[c][x].state = "torn" /\ f = live[x]
        BY <1>3, <3>1, <3>2, <3>7 DEF Faithful, Sound, Recovered
      <3> QED  BY <3>3, <3>4, <3>5, <3>6, <3>7 DEF Restored
    <2>2. CASE \E f \in NotRestored(c, x) : live' = [live EXCEPT ![x] = f]
                   /\ failed' = [failed EXCEPT ![p] = TRUE]
      <3> PICK f \in NotRestored(c, x) : live' = [live EXCEPT ![x] = f]
                   /\ failed' = [failed EXCEPT ![p] = TRUE]
        BY <2>2
      <3>1. live'[x] = f /\ (\A y \in Parts \ {x} : live'[y] = live[y]) /\ failed'[p] = TRUE
        BY <1>0, <1>3 DEF TypeOK
      <3>2. Faithful(c, x) /\ Sound(x)
        BY <1>0, <1>2, <1>3 DEF Saved
      <3>3. CASE snap[c][x].state = "none" /\ x = "subs" /\ f = None
        BY <1>3, <3>1, <3>2, <3>3 DEF Faithful, Sound, None, Blank, Optional
      <3>4. CASE snap[c][x].state = "torn" /\ f \in {Torn, live[x]}
        BY <1>3, <3>1, <3>2, <3>4 DEF Faithful, Sound, Torn, Blank
      <3> QED  BY <3>1, <3>3, <3>4 DEF NotRestored
    <2>3. CASE /\ x = "subs" \/ snap[c][x].state \in {"ok", "torn"}
               /\ live' = live \/ live' = [live EXCEPT ![x] = Torn]
               /\ failed' = [failed EXCEPT ![p] = TRUE]
      <3>1. /\ live'[x] \in {live[x], Torn} /\ (\A y \in Parts \ {x} : live'[y] = live[y])
            /\ failed'[p] = TRUE
        BY <1>0, <1>3, <2>3 DEF TypeOK
      <3>2. Faithful(c, x) /\ Sound(x)
        BY <1>0, <1>2, <1>3 DEF Saved
      <3>3. Faithful(c, x)' /\ Sound(x)'
        BY <1>3, <2>3, <3>1, <3>2 DEF Faithful, Sound, Torn, Blank
      <3> QED  BY <3>1, <3>3
    <2> QED  BY <2>1, <2>2, <2>3
  <1>5. Saved(c)'
    <2>1. \A y \in Parts \ {x} : Faithful(c, y)'
      BY <1>2, <1>3, <1>4 DEF Saved, Faithful, Overridden
    <2> QED  BY <1>2, <1>3, <1>4, <2>1 DEF Saved, Ordered
  <1>6. Progress(p)'
    <2>1. ~failed'[p] => \A y \in Parts \ at'[p] : Recovered(c, y)'
      <3> SUFFICES ASSUME ~failed'[p], NEW y \in Parts \ at[p], y # x PROVE Recovered(c, y)'
        BY <1>3, <1>4
      <3>1. Recovered(c, y)
        BY <1>0, <1>1, <1>4 DEF Progress
      <3> QED  BY <1>3, <1>4, <3>1 DEF Recovered, Overridden
    <2>2. pc'[p] = "check" => at'[p] = {}
      BY <1>3
    <2>3. pc'[p] \in {"restore", "check"} /\ cur'[p] = c
      BY <1>3
    <2> QED  BY <2>1, <2>2, <2>3 DEF Progress, Untouched, Mutating
  <1>7. \A y \in Parts : Sound(y)'
    BY <1>0, <1>4 DEF Sound
  <1>8. \A t \in Tx : snap'[t] = snap[t]
    BY <1>3
  <1> QED  BY <1>1, <1>3, <1>5, <1>6, <1>7, <1>8, RestOwn DEF Backward

LEMMA RestRollback ==
  ASSUME IInv, RestInv, IInv', NEW p \in Cli, Rollback(p)
  PROVE  RestInv'
  <1> p \in Procs
    BY DEF Procs
  <1> USE DEF journal, budget, history
  <1>0. /\ TypeOK /\ Progress(p) /\ live \in [Parts -> File] /\ \A x \in Parts : Sound(x)
    BY DEF IInv, RestInv, TypeOK
  <1>1. pc[p] \in Backward /\ cur[p] \in Tx
    BY <1>0, BoundAssumption DEF Rollback, GateRefuse, GatePass, RestoreRemoveSubs, RestorePart,
       RestoreFault, FinishRollback, Backward, TypeOK, Owning, Tx
  <1> PICK c \in Tx : c = cur[p]
    BY <1>1
  <1>2. Saved(c)
    BY <1>1, RestUse DEF Backward
  <1>3. CASE GatePass(p)
    <2>1. pc'[p] = "restore" /\ Alone(p) /\ at'[p] = Parts
      BY <1>0, <1>3, GotoEffect DEF GatePass, Alone, TypeOK
    <2>2. Progress(p)'
      BY <2>1 DEF Progress, Untouched, Mutating
    <2> QED  BY <1>1, <1>3, <2>1, <2>2, RestQuiet DEF GatePass, Backward
  <1>4. CASE RestoreRemoveSubs(p)
    <2>1. /\ pc[p] = "restore" /\ pc' = pc /\ at[p] = {"subs"} /\ Alone(p)
          /\ UNCHANGED <<cur, at, failed, snap, nextTx, before, overrides>>
      BY <1>4 DEF RestoreRemoveSubs, Alone
    <2>2. live'["subs"] = None /\ "subs" \in Parts /\ \A x \in Parts \ {"subs"} : live'[x] = live[x]
      BY <1>0, <1>4 DEF RestoreRemoveSubs, TypeOK
    <2>3. \A x \in Parts : Sound(x)'
      BY <1>0, <2>2 DEF Sound, None, Blank, Optional
    <2>4. Saved(c)'
      <3>1. \A x \in Parts : Faithful(c, x)'
        BY <1>2, <2>1, <2>2 DEF Saved, Faithful, Overridden
      <3> QED  BY <1>2, <2>1, <3>1 DEF Saved, Ordered
    <2>5. Progress(p)'
      <3>1. ~failed[p] => \A x \in Parts \ {"subs"} : Recovered(c, x)
        BY <1>0, <2>1 DEF Progress
      <3>2. ~failed'[p] => \A x \in Parts \ at'[p] : Recovered(c, x)'
        BY <2>1, <2>2, <3>1 DEF Recovered, Overridden
      <3>3. pc'[p] = "restore" /\ cur'[p] = c
        BY <2>1
      <3> QED  BY <3>2, <3>3 DEF Progress, Untouched, Mutating
    <2> QED  BY <1>1, <2>1, <2>3, <2>4, <2>5, RestOwn DEF Backward
  <1>5. CASE GateRefuse(p) \/ FinishRollback(p)
    <2>1. PICK s \in {"rolled_back", "rollback_failed"} : result' = [result EXCEPT ![c] = s]
      BY <1>5 DEF GateRefuse, FinishRollback
    <2>2. /\ pc'[p] \in {"idle", "prune"} /\ cur'[p] = 0 /\ Alone(p)
          /\ UNCHANGED <<dirs, plan, snap, live, before, nextTx, overrides>>
      <3>1. CASE Exit(p)
        BY <1>0, <1>5, <3>1, ExitAlone DEF GateRefuse, FinishRollback
      <3>2. CASE ~Exit(p)
        <4>1. FinishRollback(p)
          BY <1>5, <3>2 DEF GateRefuse
        <4>2. Goto(p, "prune") /\ cur' = [cur EXCEPT ![p] = 0] /\ UNCHANGED <<at, failed>>
          BY <3>2, <4>1 DEF FinishRollback
        <4>3. pc'[p] = "prune" /\ Alone(p) /\ cur'[p] = 0
          BY <1>0, <4>2, GotoEffect DEF Alone, TypeOK
        <4> QED  BY <4>1, <4>3 DEF FinishRollback
      <3> QED  BY <3>1, <3>2
    <2>3. Incomplete' \subseteq {c}
      <3>1. s \in Active \cup Terminal /\ pc[p] \in Mine
        BY <1>1 DEF Active, Terminal, Mine, Backward
      <3> QED  BY <2>1, <2>2, <3>1, ResultStep DEF IInv
    <2>4. Saved(c)' /\ \A x \in Parts : Sound(x)'
      BY <1>0, <1>2, <2>2 DEF Saved, Ordered, Faithful, Overridden, Sound
    <2>5. Progress(p)' /\ pc'[p] \notin Forward \cup Backward
      BY <2>2 DEF Progress, Untouched, Mutating, Forward, Backward
    <2>6. \A t \in Tx : t >= nextTx' => snap'[t] = [x \in Parts |-> None]
      BY <2>2 DEF RestInv
    <2>7. pc[p] \notin {"idle", "chosen"}
      BY <1>1 DEF Backward
    <2> QED  BY <2>2, <2>3, <2>4, <2>5, <2>6, <2>7, RestHolder
  <1>6. CASE RestorePart(p) \/ RestoreFault(p)
    BY <1>6, RestRestore
  <1> QED  BY <1>3, <1>4, <1>5, <1>6 DEF Rollback

LEMMA RestRecover ==
  ASSUME IInv, RestInv, IInv', NEW p \in Cli,
         RecoverChoose(p) \/ RecoverLock(p) \/ Recover(p) \/ LockMutation(p)
  PROVE  RestInv'
  <1> p \in Procs
    BY DEF Procs
  <1> USE DEF journal, budget, history
  <1>0. TypeOK
    BY DEF IInv
  <1>1. UNCHANGED <<dirs, plan, result, snap, live, before, nextTx, overrides>> /\ pc[p] # "prune"
    BY DEF RecoverChoose, RecoverLock, Recover, RecoverBusy, RecoverResolve, LockMutation
  <1>2. Incomplete' = Incomplete
    BY <1>1 DEF Incomplete, Listed
  <1>3. CASE RecoverResolve(p) /\ cur[p] \in Incomplete
    <2>1. pc'[p] = "gate" /\ Alone(p) /\ pc[p] = "resolve" /\ cur' = cur
      BY <1>0, <1>3, GotoAlone DEF RecoverResolve
    <2> PICK c \in Tx : c = cur[p]
      BY <1>0, <1>3, IncompleteIsTx
    <2>2. Incomplete' \subseteq {c}
      BY <2>1 DEF IInv, Phase, Mine
    <2>3. Saved(c)
      BY <1>3, <2>1, RestUse
    <2>4. Saved(c)' /\ \A x \in Parts : Sound(x)'
      BY <1>1, <2>3 DEF Saved, Ordered, Faithful, Overridden, Sound, RestInv
    <2>5. Progress(p)'
      BY <2>1 DEF Progress, Untouched, Mutating
    <2> QED  BY <1>1, <2>1, <2>2, <2>4, <2>5, RestHolder DEF RestInv
  <1>4. CASE ~(RecoverResolve(p) /\ cur[p] \in Incomplete)
    <2>1. Alone(p) /\ pc'[p] \in {"idle", "chosen", "locked", "resolve"}
      <3>1. CASE Exit(p)
        BY <1>0, <3>1, ExitAlone
      <3>2. CASE RecoverChoose(p)
        BY <1>0, <3>2, GotoEffect DEF RecoverChoose, Alone, TypeOK
      <3>3. CASE RecoverLock(p) \/ LockMutation(p)
        BY <1>0, <3>3, GotoAlone DEF RecoverLock, LockMutation, TryLock
      <3> QED  BY <1>4, <3>1, <3>2, <3>3 DEF Recover, RecoverBusy, RecoverResolve
    <2> QED  BY <1>1, <1>2, <2>1, RestLeave DEF Forward, Backward
  <1> QED  BY <1>3, <1>4

LEMMA RestPrune ==
  ASSUME IInv, RestInv, IInv', NEW p \in Cli, Prune(p)
  PROVE  RestInv'
  <1> p \in Procs
    BY DEF Procs
  <1> USE DEF journal, budget, history
  <1>0. TypeOK /\ 0 \notin Tx /\ snap \in [Tx -> [Parts -> File]]
    <2>1. 0 \notin Tx
      BY DEF Tx
    <2> QED  BY <2>1 DEF IInv, TypeOK
  <1>1. CASE PruneDone(p)
    <2>1. Alone(p) /\ pc'[p] = "idle" /\ cur[p] \notin Tx
      BY <1>0, <1>1, ExitAlone DEF PruneDone
    <2>2. Incomplete' = Incomplete
      BY <1>1 DEF PruneDone, Incomplete, Listed
    <2> QED  BY <1>1, <2>1, <2>2, RestLeave DEF PruneDone, Forward, Backward
  <1>2. CASE PruneFile(p) \/ PruneDir(p)
    <2>1. PICK t \in Tx : \A u \in Tx : snap'[u] = snap[u] \/ (u = t /\ snap'[u] = [x \in Parts |-> None])
      <3>1. CASE PruneFile(p)
        <4> PICK t \in Prunable : snap' = snap \/ snap' = [snap EXCEPT ![t] = [x \in Parts |-> None]]
          BY <3>1 DEF PruneFile
        <4>1. t \in Tx
          BY <1>0 DEF Prunable, Listed, TypeOK
        <4> QED  BY <1>0, <4>1
      <3>2. CASE PruneDir(p)
        <4>1. cur[p] \in Tx
          BY <1>0, <3>2, BoundAssumption DEF PruneDir, TypeOK, Tx
        <4> QED  BY <1>0, <3>2, <4>1 DEF PruneDir
      <3> QED  BY <1>2, <3>1, <3>2
    <2>2. /\ pc' = pc /\ pc[p] = "prune" /\ Alone(p)
          /\ UNCHANGED <<live, before, nextTx, overrides>>
      BY <1>0, <1>2 DEF PruneFile, PruneDir, Alone, TypeOK
    <2>3. PICK c : c = cur'[p]
      OBVIOUS
    <2>4. Incomplete' \subseteq {c}
      BY <2>2, <2>3 DEF IInv, Phase, Mine
    <2>5. (\A x \in Parts : Sound(x)') /\ \A u \in Tx : u >= nextTx' => snap'[u] = [x \in Parts |-> None]
      BY <2>1, <2>2 DEF RestInv, Sound
    <2>6. Progress(p)'
      BY <2>2 DEF Progress, Untouched, Mutating
    <2> QED  BY <2>2, <2>3, <2>4, <2>5, <2>6, RestHolder DEF Forward, Backward
  <1> QED  BY <1>1, <1>2 DEF Prune

\* `auto override` may write over a transaction that has no copy of xray yet.
LEMMA RestOverride ==
  ASSUME IInv, RestInv, IInv', NEW p \in Cli, Override(p)
  PROVE  RestInv'
  <1> p \in Procs
    BY DEF Procs
  <1> USE DEF journal, budget, history
  <1>0. TypeOK /\ Progress(p) /\ overrides \in Nat /\ live \in [Parts -> File] /\ \A x \in Parts : Sound(x)
    BY BoundAssumption DEF IInv, RestInv, TypeOK
  <1>1. PICK c \in Tx \cup {0} : Incomplete \subseteq {c} /\ (c \in Tx => c \in Incomplete)
    <2>1. CASE Incomplete = {}
      BY <2>1 DEF Tx
    <2>2. CASE Incomplete # {}
      BY <2>2, IncompleteIsTx DEF IInv, OneIncomplete
    <2> QED  BY <2>1, <2>2
  <1>2. pc[p] \in {"locked", "override"} /\ pc[p] \notin {"idle", "chosen", "prune"}
    BY DEF Override, OverrideDir, OverrideApply
  <1>3. Incomplete' = Incomplete
    <2>1. CASE OverrideDir(p)
      <3>1. nextTx \notin plan /\ nextTx \in Nat
        BY <1>0, BoundAssumption DEF IInv, Fresh, TypeOK
      <3> QED  BY <2>1, <3>1 DEF OverrideDir, Incomplete, Listed
    <2>2. CASE OverrideApply(p)
      BY <2>2 DEF OverrideApply, Incomplete, Listed
    <2> QED  BY <2>1, <2>2 DEF Override
  <1>4. c \in Tx => Saved(c)
    BY <1>1, <1>2, RestUse
  <1>5. CASE OverrideDir(p)
    <2>1. /\ pc'[p] = "override" /\ Alone(p) /\ overrides' = overrides + 1 /\ nextTx' = nextTx + 1
          /\ UNCHANGED <<snap, live, before>>
      BY <1>0, <1>5, GotoEffect DEF OverrideDir, Alone, TypeOK
    <2>2. Progress(p)'
      BY <1>0, <2>1 DEF Progress, Untouched, Mutating
    <2>3. c \in Tx => Saved(c)'
      BY <1>0, <1>4, <2>1 DEF Saved, Ordered, Faithful, Overridden
    <2>4. \A t \in Tx : t >= nextTx' => snap'[t] = [x \in Parts |-> None]
      BY <2>1, BoundAssumption DEF RestInv, IInv, TypeOK, Tx
    <2>5. \A x \in Parts : Sound(x)'
      BY <1>0, <2>1 DEF Sound
    <2> QED  BY <1>1, <1>2, <1>3, <2>1, <2>2, <2>3, <2>4, <2>5, RestHolder DEF Forward, Backward
  <1>6. CASE OverrideApply(p)
    <2>1. /\ pc'[p] = "idle" /\ Alone(p) /\ overrides > 0 /\ UNCHANGED <<snap, before, nextTx, overrides>>
          /\ \A x \in Parts : live'[x] = live[x] \/ (x = "xray" /\ live'[x] = Written(live[x], cur[p]))
      BY <1>0, <1>6, ExitAlone DEF OverrideApply, Progress
    <2>2. Progress(p)'
      BY <2>1 DEF Progress, Untouched, Mutating
    <2>3. c \in Tx => Saved(c)'
      <3>1. c \in Tx => \A x \in Parts : Faithful(c, x)'
        BY <1>0, <1>4, <2>1 DEF Saved, Faithful, Overridden
      <3> QED  BY <1>4, <2>1, <3>1 DEF Saved, Ordered
    <2>4. \A x \in Parts : Sound(x)'
      <3> SUFFICES ASSUME NEW x \in Parts PROVE Sound(x)'
        OBVIOUS
      <3>1. Written(live[x], cur[p]).state = "ok"
        BY <1>0 DEF Written, File
      <3> QED  BY <1>0, <2>1, <3>1 DEF Sound
    <2>5. \A t \in Tx : t >= nextTx' => snap'[t] = [x \in Parts |-> None]
      BY <2>1 DEF RestInv
    <2> QED  BY <1>1, <1>2, <1>3, <2>1, <2>2, <2>3, <2>4, <2>5, RestHolder DEF Forward, Backward
  <1> QED  BY <1>5, <1>6 DEF Override

LEMMA RestAgent ==
  ASSUME IInv, RestInv, IInv', AgentStep
  PROVE  RestInv'
  <1> Agent \in Procs /\ "db" \in Parts
    BY PartAssumption DEF Procs
  <1> USE DEF journal, budget, history
  <1>0. TypeOK /\ live \in [Parts -> File] /\ \A x \in Parts : Sound(x)
    BY DEF IInv, RestInv, TypeOK
  <1>1. Incomplete' = Incomplete
    BY DEF AgentStep, AgentLock, AgentFence, AgentWrite, Incomplete, Listed
  <1>2. CASE AgentLock \/ AgentFence
    <2>1. Alone(Agent) /\ pc'[Agent] \in {"fence", "write", "idle"} /\ pc[Agent] # "prune"
      <3>1. CASE Exit(Agent)
        BY <1>0, <1>2, <3>1, ExitAlone DEF AgentLock, AgentFence
      <3>2. CASE ~Exit(Agent)
        BY <1>0, <1>2, <3>2, GotoAlone DEF AgentLock, AgentFence, TryLock
      <3> QED  BY <3>1, <3>2
    <2>2. UNCHANGED <<snap, live, before, nextTx, overrides>>
      BY <1>2 DEF AgentLock, AgentFence
    <2> QED  BY <1>1, <2>1, <2>2, RestLeave DEF Forward, Backward
  <1>3. CASE AgentWrite
    <2>1. Alone(Agent) /\ pc'[Agent] = "idle" /\ pc[Agent] = "write"
      BY <1>0, <1>3, ExitAlone DEF AgentWrite
    <2>2. Incomplete' \subseteq {0} /\ 0 \notin Tx
      BY <1>1, <2>1 DEF IInv, Phase, Clear, Tx
    <2>3. \A x \in Parts : Sound(x)'
      <3>1. live'["db"] = [live["db"] EXCEPT !.agent = agentDone + 1]
            /\ \A x \in Parts \ {"db"} : live'[x] = live[x]
        BY <1>0, <1>3 DEF AgentWrite
      <3>2. live'["db"].state = live["db"].state
        BY <1>0, <3>1 DEF File
      <3> QED  BY <1>0, <3>1, <3>2 DEF Sound, Optional
    <2>4. Progress(Agent)'
      BY <2>1 DEF Progress, Untouched, Mutating
    <2>5. \A t \in Tx : t >= nextTx' => snap'[t] = [x \in Parts |-> None]
      BY <1>3 DEF AgentWrite, RestInv
    <2> QED  BY <2>1, <2>2, <2>3, <2>4, <2>5, RestHolder DEF Forward, Backward
  <1> QED  BY <1>2, <1>3 DEF AgentStep

LEMMA RestNext ==
  ASSUME "prune" \notin CrashAt, IInv, RestInv, IInv', [Next]_vars
  PROVE  RestInv'
  <1>1. ASSUME NEW p \in Cli, Command(p) PROVE RestInv'
    BY <1>1, RestBegin, RestSnapshot, RestBody, RestEnd, RestRollback, RestRecover, RestPrune,
       RestOverride DEF Command
  <1>2. ASSUME NEW p \in Procs, Crash(p) PROVE RestInv'
    <2>1. Exit(p) /\ pc[p] # "prune"
          /\ UNCHANGED <<dirs, plan, result, snap, live, before, nextTx, overrides>>
      BY <1>2 DEF Crash, journal
    <2>2. Incomplete' = Incomplete
      BY <2>1 DEF Incomplete, Listed
    <2>3. Alone(p) /\ pc'[p] = "idle"
      BY <2>1, ExitAlone DEF IInv
    <2> QED  BY <2>1, <2>2, <2>3, RestLeave DEF Forward, Backward
  <1>3. CASE UNCHANGED vars
    <2> USE <1>3 DEF vars, journal, budget, history
    <2>1. \A t \in Tx : Revertible(t)' => Revertible(t)
      BY DEF Revertible, Incomplete, Listed, Kept
    <2>2. \A t \in Tx : Revertible(t)' => Saved(t)'
      BY <2>1 DEF RestInv, Saved, Ordered, Faithful, Overridden
    <2>3. \A p \in Procs : Progress(p)'
      BY DEF RestInv, Progress, Recovered, Overridden
    <2> QED  BY <2>2, <2>3 DEF RestInv, Sound
  <1> QED  BY <1>1, <1>2, <1>3, RestAgent DEF Next

\* Only the end of a rollback without a failed step says rolled_back.
LEMMA RolledBack ==
  ASSUME TypeOK, [Next]_vars, NEW t \in Tx, result[t] # "rolled_back", result'[t] = "rolled_back"
  PROVE  \E p \in Cli : pc[p] = "check" /\ cur[p] = t /\ ~failed[p]
  <1> USE DEF journal, budget, history
  <1>0. result \in [Tx -> Active \cup Terminal]
    BY DEF TypeOK
  <1>1. PICK p \in Cli : Command(p)
    <2>1. ~AgentStep /\ ~(\E p \in Procs : Crash(p)) /\ ~UNCHANGED vars
      BY DEF AgentStep, AgentLock, AgentFence, AgentWrite, Crash, vars
    <2> QED  BY <2>1 DEF Next
  <1>2. FinishRollback(p)
    <2>1. ~(LockMutation(p) \/ Begin(p) \/ Snapshot(p) \/ Body(p) \/ Commit(p) \/ Abort(p))
      BY <1>0 DEF LockMutation, Begin, Refuse, BeginDir, BeginPlan, BeginResult, Snapshot, SnapOpen,
         SnapClose, Body, Mutate, InstallSubsOpen, InstallSubsClose, ResnapXrayOpen, ResnapXrayClose,
         Commit, CommitMark, CommitDisarm, Abort
    <2>2. ~(RecoverChoose(p) \/ RecoverLock(p) \/ Recover(p) \/ Prune(p) \/ Override(p))
      BY <1>0 DEF RecoverChoose, RecoverLock, Recover, RecoverBusy, RecoverResolve, Prune, PruneFile,
         PruneDir, PruneDone, Override, OverrideDir, OverrideApply
    <2>3. ~(GateRefuse(p) \/ GatePass(p) \/ RestoreRemoveSubs(p) \/ RestorePart(p) \/ RestoreFault(p))
      BY <1>0 DEF GateRefuse, GatePass, RestoreRemoveSubs, RestorePart, RestoreFault
    <2> QED  BY <1>1, <2>1, <2>2, <2>3 DEF Command, Rollback
  <1>3. PICK ok \in PostCheck : result' = [result EXCEPT ![cur[p]] =
                                   IF ok /\ ~failed[p] THEN "rolled_back" ELSE "rollback_failed"]
    BY <1>2 DEF FinishRollback
  <1>4. cur[p] = t /\ ~failed[p]
    BY <1>0, <1>3
  <1> QED  BY <1>2, <1>4 DEF FinishRollback

\* A rollback that is recorded as rolled_back has left the node as it was when
\* the transaction began, if no copy was torn and no kill fell into prune(),
\* which leaves committed transactions without copies.  On a node without a
\* subscription tree nobody may override Xray over an interrupted transaction;
\* with one, the missing copy of the tree makes such a rollback fail.
THEOREM RollbackRestores ==
  ASSUME "prune" \notin CrashAt, MaxOverride = 0 \/ "subs" \in Parts
  PROVE  Spec => RolledBackRestores
  <1>1. IInv /\ RestInv /\ IInv' /\ [Next]_vars => RestInv'
    BY RestNext
  <1>2. ASSUME IInv, RestInv, [Next]_vars, NEW t \in Tx, result[t] # "rolled_back",
               result'[t] = "rolled_back", Whole(t)
        PROVE  live = before[t]
    <2>1. PICK p \in Cli : pc[p] = "check" /\ cur[p] = t /\ ~failed[p]
      BY <1>2, RolledBack DEF IInv
    <2>2. /\ p \in Procs /\ overrides \in 0..MaxOverride
          /\ live \in [Parts -> File] /\ before[t] \in [Parts -> File]
      BY <1>2 DEF Procs, IInv, TypeOK
    <2>3. \A x \in Parts : Recovered(t, x)
      BY <1>2, <2>1, <2>2 DEF RestInv, Progress
    <2>4. Saved(t)
      BY <1>2, <2>1, <2>2, RestUse DEF Backward
    <2>5. ASSUME NEW x \in Parts PROVE live[x] = before[t][x]
      <3>1. live[x] = before[t][x] \/ (snap[t][x].state = "none" /\ Overridden(x))
        BY <1>2, <2>3 DEF Recovered, Whole
      <3>2. CASE snap[t][x].state = "none" /\ Overridden(x)
        <4>1. "subs" \in Parts /\ x = "xray"
          BY <2>2, <3>2, BoundAssumption DEF Overridden
        <4>2. snap[t]["subs"].state = "none"
          BY <2>4, <3>2, <4>1 DEF Saved, Ordered
        <4> QED  BY <2>3, <4>1, <4>2 DEF Recovered
      <3> QED  BY <3>1, <3>2
    <2> QED  BY <2>2, <2>5
  <1> DEFINE Restoring == \A t \in Tx : /\ result[t] # "rolled_back" /\ result'[t] = "rolled_back"
                                        /\ Whole(t)
                                        => live = before[t]
  <1>3. IInv /\ RestInv /\ [Next]_vars => [Restoring]_vars
    BY <1>2
  <1>4. RolledBackRestores <=> [][Restoring]_vars
    BY DEF RolledBackRestores
  <1> HIDE DEF Restoring
  <1>5. Spec => [][Restoring]_vars
    BY <1>1, <1>3, RestInit, Invariance, PTL DEF Spec
  <1> QED  BY <1>4, <1>5

-----------------------------------------------------------------------------
(* Atomicity.  What holds where of an open transaction, so that the view of   *)
(* the node in AtomicNode changes only when a command ends for good or when   *)
(* the Agent writes: at most its holder stands between the live files and the *)
(* files it began with, and no copy is torn that a rollback would install.    *)

\* The transaction of p reads as incomplete.
Begun == {"result", "snap", "copy", "mutate", "recopy", "resnap", "restore", "check"}
\* p has marked its transaction committed, and its trap is still armed.
Undecided(p) == pc[p] = "marked" \/ (pc[p] = "gate" /\ result[cur[p]] = "committed")
\* The body leaves a part as it was or replaces it, and keeps the accounts.
Replaced(t, x) == [state |-> "ok", cli |-> t, agent |-> before[t][x].agent]

\* No copy that the gate looks at is torn.
Intact(t) == \A x \in Gated : snap[t][x].state # "torn"

Place(p) ==
    /\ pc[p] = "plan" => result[cur[p]] = "none"
    /\ pc[p] \in Begun => cur[p] \in Incomplete
    /\ pc[p] = "gate" => cur[p] \in Incomplete \/ result[cur[p]] = "committed"
    /\ pc[p] \in {"restore", "check"} => Intact(cur[p])
    /\ pc[p] \in Mutating \/ Undecided(p) =>
          \A x \in Gated : live[x] \in {before[cur[p]][x], Replaced(cur[p], x)}
    /\ pc[p] \in Forward \/ Undecided(p) => \A t \in final : t < cur[p]

\* No gated part was torn when t began, and the database is copied last.
Untorn(t) ==
    /\ \A x \in Gated : before[t][x].state # "torn"
    /\ snap[t]["db"].state # "none" => \A x \in Parts : snap[t][x].state # "none"

ViewInv ==
    /\ \E m \in final \cup {0} : \A t \in final : t <= m
    /\ \A t \in Tx : t >= nextTx => result[t] = "none"
    /\ \A t \in Tx : Revertible(t) => Untorn(t)
    /\ (\A t \in Tx : ~Revertible(t)) => \A x \in Gated : live[x].state # "torn"
    /\ \A p \in Procs : Place(p)

\* What a step of the holder p has to show, if at most c is incomplete after it.
LEMMA ViewHolder ==
  ASSUME IInv, ViewInv, NEW p \in Procs, pc[p] \notin {"idle", "chosen"}, Alone(p),
         NEW c, Incomplete' \subseteq {c},
         pc'[p] \in Forward \cup Backward => cur'[p] = c,
         \E m \in final' \cup {0} : \A t \in final' : t <= m,
         \A t \in Tx : t >= nextTx' => result'[t] = "none",
         c \in Tx /\ (pc'[p] = "prune" => cur'[p] # c) => Untorn(c)',
         (c \in Tx /\ Revertible(c)') \/ \A x \in Gated : live'[x].state # "torn",
         Place(p)'
  PROVE  ViewInv'
  <1>1. \A q \in Procs \ {p} : pc[q] \in {"idle", "chosen"}
    BY DEF IInv, Exclusion
  <1>2. \A q \in Procs \ {p} : Place(q)'
    BY <1>1 DEF Place, Alone, Begun, Mutating, Undecided, Forward
  <1>3. \A t \in Tx : Revertible(t)' => t = c /\ (pc'[p] = "prune" => cur'[p] # c)
    BY <1>1 DEF Revertible, Alone, Forward, Backward, Kept
  <1>4. \A t \in Tx : Revertible(t)' => Untorn(t)'
    BY <1>3
  <1>5. \A q \in Procs : Place(q)'
    BY <1>2
  <1> QED  BY <1>4, <1>5 DEF ViewInv

\* A step of a process that has no transaction in hand afterwards.
LEMMA ViewLeave ==
  ASSUME IInv, ViewInv, NEW p \in Procs, Alone(p),
         pc[p] # "prune" \/ cur[p] \notin Tx,
         pc'[p] \notin Forward \cup Backward \cup {"prune"},
         \/ pc[p] \notin Forward \cup Backward
         \/ cur[p] \in Incomplete /\ cur[p] \in Tx
         \/ \A x \in Gated : live[x].state # "torn",
         Incomplete' = Incomplete,
         UNCHANGED <<result, snap, live, before, nextTx, final>>
  PROVE  ViewInv'
  <1>1. \A t \in Tx : Kept(t) <=> Kept(t)'
    BY DEF Kept, Alone
  <1>2. \A t \in Tx : Revertible(t)' => Revertible(t)
    BY <1>1 DEF Revertible, Alone
  <1>3. \A t \in Tx : Revertible(t)' => Untorn(t)'
    <2> SUFFICES ASSUME NEW t \in Tx, Untorn(t) PROVE Untorn(t)'
      BY <1>2 DEF ViewInv
    <2> QED  BY DEF Untorn
  <1>4. (\A t \in Tx : ~Revertible(t)') => \A x \in Gated : live'[x].state # "torn"
    <2>1. CASE pc[p] \notin Forward \cup Backward
      <3>1. \A t \in Tx : Revertible(t) => Revertible(t)'
        BY <1>1, <2>1 DEF Revertible, Alone
      <3> QED  BY <3>1 DEF ViewInv
    <2>2. CASE cur[p] \in Incomplete /\ cur[p] \in Tx /\ pc[p] \in Forward \cup Backward
      <3>1. Kept(cur[p])
        BY <2>2 DEF Kept, IInv, Exclusion, Forward, Backward
      <3>2. \E t \in Tx : Revertible(t)'
        BY <1>1, <2>2, <3>1 DEF Revertible
      <3> QED  BY <3>2
    <2> QED  BY <2>1, <2>2
  <1>5. \A q \in Procs \ {p} : Place(q)'
    BY DEF ViewInv, Place, Alone, Undecided, Intact, Replaced
  <1>6. Place(p)'
    BY DEF Place, Begun, Mutating, Undecided, Forward, Backward
  <1>7. \A q \in Procs : Place(q)'
    BY <1>5, <1>6
  <1> QED  BY <1>3, <1>4, <1>7 DEF ViewInv

\* What a holder knows that is not pruning, and what it knows when nothing is
\* incomplete.
LEMMA ViewUse ==
  ASSUME IInv, ViewInv, NEW p \in Procs, pc[p] \notin {"idle", "chosen", "prune"},
         NEW t \in Tx, t \in Incomplete \/ (t = cur[p] /\ pc[p] \in Forward \cup Backward)
  PROVE  /\ \A x \in Gated : before[t][x].state # "torn"
         /\ snap[t]["db"].state # "none" => \A x \in Parts : snap[t][x].state # "none"
  <1>1. \A q \in Procs \ {p} : pc[q] \in {"idle", "chosen"}
    BY DEF IInv, Exclusion
  <1>2. Untorn(t)
    BY <1>1 DEF ViewInv, Revertible, Kept
  <1> QED  BY <1>1, <1>2 DEF Untorn

LEMMA ViewClear ==
  ASSUME IInv, ViewInv, NEW p \in Procs, pc[p] \notin {"idle", "chosen"} \cup Forward \cup Backward,
         \A t \in Incomplete : pc[p] = "prune" /\ cur[p] = t
  PROVE  \A x \in Gated : live[x].state # "torn"
  <1>1. \A q \in Procs \ {p} : pc[q] \in {"idle", "chosen"}
    BY DEF IInv, Exclusion
  <1>2. \A t \in Tx : ~Revertible(t)
    BY <1>1 DEF Revertible, Kept, Forward, Backward
  <1> QED  BY <1>2 DEF ViewInv

\* A step of p on its own transaction; what it leaves of the copies and of its
\* own place is still to be shown.
LEMMA ViewOwn ==
  ASSUME IInv, ViewInv, IInv', NEW p \in Procs, Alone(p),
         pc[p] \in Forward \cup Backward, pc'[p] \in Forward \cup Backward,
         UNCHANGED <<cur, nextTx, final>>,
         \A t \in Tx \ {cur[p]} : result'[t] = result[t],
         Untorn(cur[p])', Place(p)'
  PROVE  ViewInv'
  <1>1. pc[p] \notin {"idle", "chosen"} /\ pc'[p] \in Mine \cup Clear
    BY DEF Forward, Backward, Mine, Clear
  <1> PICK c \in Tx : c = cur[p]
    BY BoundAssumption DEF Forward, Backward, IInv, TypeOK, Owning, Tx
  <1>2. Incomplete' \subseteq {c}
    BY <1>1 DEF IInv, Phase
  <1>3. c < nextTx /\ nextTx \in Nat /\ c \in Nat
    BY BoundAssumption DEF IInv, Fresh, TypeOK
  <1>4. \A t \in Tx : t >= nextTx' => result'[t] = "none"
    BY <1>3 DEF ViewInv, Tx
  <1>5. Revertible(c)'
    BY DEF Revertible
  <1>6. \E m \in final' \cup {0} : \A t \in final' : t <= m
    BY DEF ViewInv
  <1> QED  BY <1>1, <1>2, <1>4, <1>5, <1>6, ViewHolder

\* A step that leaves the copies alone.
LEMMA ViewQuiet ==
  ASSUME IInv, ViewInv, IInv', NEW p \in Procs, Alone(p),
         pc[p] \in Forward \cup Backward, pc'[p] \in Forward \cup Backward,
         UNCHANGED <<cur, nextTx, final, snap, before>>,
         \A t \in Tx \ {cur[p]} : result'[t] = result[t],
         Place(p)'
  PROVE  ViewInv'
  <1> PICK c \in Tx : c = cur[p]
    BY BoundAssumption DEF Forward, Backward, IInv, TypeOK, Owning, Tx
  <1>1. pc[p] \notin {"idle", "chosen", "prune"}
    BY DEF Forward, Backward
  <1>2. /\ \A x \in Gated : before[c][x].state # "torn"
        /\ snap[c]["db"].state # "none" => \A x \in Parts : snap[c][x].state # "none"
    BY <1>1, ViewUse
  <1>3. Untorn(c)'
    BY <1>2 DEF Untorn
  <1> QED  BY <1>3, ViewOwn

LEMMA ViewBegin ==
  ASSUME IInv, FinalInv, DataInv, RestInv, ViewInv, IInv', NEW p \in Cli, Begin(p)
  PROVE  ViewInv'
  <1> p \in Procs
    BY DEF Procs
  <1> USE DEF journal, budget, history
  <1>0. /\ TypeOK /\ Place(p) /\ Stage(p) /\ nextTx \in Nat /\ cur[p] < nextTx
        /\ result \in [Tx -> Active \cup Terminal]
    BY BoundAssumption DEF IInv, Fresh, ViewInv, DataInv, TypeOK
  <1>1. CASE Refuse(p)
    <2>1. Alone(p) /\ pc'[p] = "idle" /\ pc[p] = "locked"
      BY <1>0, <1>1, ExitAlone DEF Refuse
    <2>2. Incomplete' = Incomplete
      BY <1>1 DEF Refuse, Incomplete, Listed
    <2> QED  BY <1>1, <2>1, <2>2, ViewLeave DEF Refuse, Forward, Backward
  <1>2. CASE BeginDir(p)
    <2> PICK c \in Tx : c = nextTx
      BY <1>0, <1>2, BoundAssumption DEF BeginDir, TypeOK, Tx
    <2>1. /\ pc'[p] = "plan" /\ Alone(p) /\ pc[p] = "locked" /\ cur'[p] = c
          /\ nextTx' = nextTx + 1 /\ UNCHANGED <<live, snap, result, final>>
          /\ before'[c] = live /\ Incomplete = {}
      BY <1>0, <1>2, GotoEffect, BoundAssumption DEF BeginDir, Alone, TypeOK
    <2>2. Incomplete' \subseteq {c}
      BY <2>1 DEF IInv, Phase, Clear
    <2>3. \A t \in Tx : t >= nextTx' => result'[t] = "none"
      BY <1>0, <2>1 DEF ViewInv, Tx
    <2>4. snap[c] = [x \in Parts |-> None]
      BY <1>0 DEF RestInv
    <2>5. \A x \in Gated : live[x].state # "torn"
      BY <2>1, ViewClear DEF Forward, Backward
    <2>6. Untorn(c)'
      BY <2>1, <2>4, <2>5, PartAssumption DEF Untorn, None, Blank
    <2>7. Revertible(c)'
      BY <2>1 DEF Revertible, Forward
    <2>8. Place(p)'
      <3>1. result[c] = "none" /\ \A t \in final : t < c
        BY <1>0 DEF ViewInv, FinalInv
      <3> QED  BY <2>1, <3>1 DEF Place, Begun, Mutating, Undecided
    <2>9. \E m \in final' \cup {0} : \A t \in final' : t <= m
      BY <2>1 DEF ViewInv
    <2> QED  BY <2>1, <2>2, <2>3, <2>6, <2>7, <2>8, <2>9, ViewHolder
  <1> PICK c : c = cur[p]
    OBVIOUS
  <1>3. CASE BeginPlan(p)
    <2>1. pc'[p] = "result" /\ Alone(p) /\ pc[p] = "plan"
      BY <1>0, <1>3, GotoAlone DEF BeginPlan
    <2>2. c \in Incomplete'
      BY <1>0, <1>3, <2>1 DEF BeginPlan, Place, Stage, Forward, Incomplete, Listed, Active
    <2>3. Place(p)'
      BY <1>0, <1>3, <2>1, <2>2 DEF BeginPlan, Place, Begun, Mutating, Undecided, Forward
    <2> QED  BY <1>3, <2>1, <2>3, ViewQuiet DEF BeginPlan, Forward
  <1>4. CASE BeginResult(p)
    <2>1. pc'[p] = "snap" /\ Alone(p) /\ pc[p] = "result"
      BY <1>0, <1>4, GotoEffect DEF BeginResult, Alone, TypeOK
    <2>2. c \in Tx
      BY <1>0, <2>1, BoundAssumption DEF TypeOK, Owning, Tx
    <2>3. c \in Incomplete' /\ \A t \in Tx \ {c} : result'[t] = result[t]
      BY <1>0, <1>4, <2>1, <2>2 DEF BeginResult, Stage, Forward, Incomplete, Listed, Active
    <2>4. Place(p)'
      BY <1>0, <1>4, <2>1, <2>3 DEF BeginResult, Place, Begun, Mutating, Undecided, Forward
    <2> QED  BY <1>4, <2>1, <2>3, <2>4, ViewQuiet DEF BeginResult, Forward
  <1> QED  BY <1>1, <1>2, <1>3, <1>4 DEF Begin

LEMMA ViewSnapshot ==
  ASSUME IInv, RestInv, ViewInv, IInv', NEW p \in Cli, Snapshot(p)
  PROVE  ViewInv'
  <1> p \in Procs
    BY DEF Procs
  <1> USE DEF journal, budget, history
  <1>0. /\ TypeOK /\ Progress(p) /\ Place(p) /\ at[p] \in SUBSET Parts
        /\ snap \in [Tx -> [Parts -> File]]
    BY DEF IInv, RestInv, ViewInv, TypeOK
  <1>1. pc[p] \in {"snap", "copy"} /\ cur[p] \in Tx
    BY <1>0, BoundAssumption DEF Snapshot, SnapOpen, SnapClose, TypeOK, Owning, Tx
  <1> PICK c \in Tx : c = cur[p]
    BY <1>1
  <1>2. /\ \A x \in Gated : before[c][x].state # "torn"
        /\ snap[c]["db"].state # "none" => \A x \in Parts : snap[c][x].state # "none"
    BY <1>1, ViewUse DEF Forward
  <1>3. live = before[c] /\ \A x \in Parts \ at[p] : snap[c][x].state # "none"
    BY <1>0, <1>1 DEF Progress, Untouched
  <1>4. Incomplete' = Incomplete /\ UNCHANGED <<result, final, live, before, nextTx, cur>>
    BY DEF Snapshot, SnapOpen, SnapClose, Incomplete, Listed
  <1>5. CASE SnapOpen(p)
    <2>1. pc'[p] = "copy" /\ Alone(p) /\ pc[p] = "snap" /\ at' = at
      BY <1>0, <1>5, GotoAlone DEF SnapOpen
    <2> PICK x \in at[p] : /\ FirstOf(SnapRank, at[p], x)
                           /\ snap' = [snap EXCEPT ![cur[p]][x] =
                                  IF live[x].state = "none" THEN Absent ELSE Torn]
      BY <1>5 DEF SnapOpen
    <2>2. /\ x \in Parts
          /\ snap'[c][x].state # "none" /\ \A y \in Parts \ {x} : snap'[c][y] = snap[c][y]
      BY <1>0 DEF Absent, Torn, Blank
    <2>4. snap'[c]["db"].state # "none" => \A y \in Parts : snap'[c][y].state # "none"
      <3>1. CASE x = "db"
        <4>1. \A y \in at[p] : y = "db"
          <5>1. Parts \subseteq {"xray", "config", "nginx", "subs", "db"}
            BY PartAssumption
          <5>2. \A y \in Parts : SnapRank["db"] <= SnapRank[y] => y = "db"
            BY <5>1 DEF SnapRank
          <5> QED  BY <1>0, <3>1, <5>2 DEF FirstOf
        <4> QED  BY <1>3, <2>2, <3>1, <4>1
      <3>2. CASE x # "db"
        BY <1>2, <2>2, <3>2, PartAssumption
      <3> QED  BY <3>1, <3>2
    <2>5. Untorn(c)'
      BY <1>2, <1>4, <2>4 DEF Untorn
    <2>6. Place(p)'
      BY <1>0, <1>4, <2>1 DEF Place, Begun, Mutating, Undecided, Forward
    <2> QED  BY <1>4, <2>1, <2>5, <2>6, ViewOwn DEF Forward
  <1>6. CASE SnapClose(p)
    <2> PICK x \in at[p] :
          /\ FirstOf(SnapRank, at[p], x)
          /\ at' = [at EXCEPT ![p] = @ \ {x}]
          /\ \/ snap' = [snap EXCEPT ![cur[p]][x] = IF @.state = "absent" THEN Absent ELSE live[x]]
             \/ x \in FaultyCopy /\ UNCHANGED snap
          /\ Goto(p, IF at[p] = {x} THEN "mutate" ELSE "snap")
      BY <1>6 DEF SnapClose
    <2>1. /\ pc'[p] = (IF at[p] = {x} THEN "mutate" ELSE "snap") /\ Alone(p) /\ pc[p] = "copy"
      BY <1>0, <1>6, GotoEffect DEF SnapClose, Alone, TypeOK
    <2>2. /\ x \in Parts
          /\ snap'[c][x] \in {snap[c][x], IF snap[c][x].state = "absent" THEN Absent ELSE live[x]}
          /\ \A y \in Parts \ {x} : snap'[c][y] = snap[c][y]
      <3>1. x \in Parts
        BY <1>0
      <3>2. CASE x \in FaultyCopy /\ UNCHANGED snap
        BY <3>1, <3>2
      <3>3. CASE snap' = [snap EXCEPT ![cur[p]][x] = IF @.state = "absent" THEN Absent ELSE live[x]]
        BY <1>0, <3>1, <3>3
      <3> QED  BY <3>1, <3>2, <3>3
    <2>3. snap[c][x] = IF live[x].state = "none" THEN Absent ELSE Torn
      BY <1>0, <2>1 DEF Progress
    <2>4. snap'[c][x].state # "none"
      <3>1. snap[c][x].state # "none" /\ Absent.state # "none"
        BY <2>3 DEF Absent, Torn, Blank
      <3>2. snap[c][x].state # "absent" => live[x].state # "none"
        BY <2>3 DEF Absent, Blank
      <3> QED  BY <2>2, <3>1, <3>2
    <2>6. Untorn(c)'
      <3>1. snap'[c]["db"].state # "none" => \A y \in Parts \ {x} : snap'[c][y].state # "none"
        <4>1. CASE x = "db"
          <5>1. snap[c]["db"].state # "none"
            BY <2>3, <4>1 DEF Absent, Torn, Blank
          <5> QED  BY <1>2, <2>2, <4>1, <5>1
        <4>2. CASE x # "db"
          BY <1>2, <2>2, <4>2, PartAssumption
        <4> QED  BY <4>1, <4>2
      <3> QED  BY <1>2, <1>4, <2>4, <3>1 DEF Untorn
    <2>7. Place(p)'
      BY <1>0, <1>3, <1>4, <2>1 DEF Place, Begun, Mutating, Undecided, Forward, Active, Incomplete
    <2> QED  BY <1>4, <2>1, <2>6, <2>7, ViewOwn DEF Forward
  <1> QED  BY <1>5, <1>6 DEF Snapshot

LEMMA WrittenIs ==
  ASSUME NEW f \in File, NEW t
  PROVE  Written(f, t) = [state |-> "ok", cli |-> t, agent |-> f.agent]
  <1>1. f = [state |-> f.state, cli |-> f.cli, agent |-> f.agent]
    BY Zenon DEF File
  <1>2. DOMAIN f = {"state", "cli", "agent"}
    BY <1>1
  <1>3. DOMAIN Written(f, t) = {"state", "cli", "agent"}
    BY <1>2 DEF Written
  <1>4. Written(f, t).state = "ok" /\ Written(f, t).cli = t /\ Written(f, t).agent = f.agent
    BY <1>2 DEF Written
  <1>5. Written(f, t) = [k \in DOMAIN f |-> Written(f, t)[k]]
    BY DEF Written
  <1> QED  BY <1>2, <1>3, <1>4, <1>5

LEMMA ViewBody ==
  ASSUME IInv, RestInv, ViewInv, IInv', NEW p \in Cli, Body(p)
  PROVE  ViewInv'
  <1> p \in Procs
    BY DEF Procs
  <1> USE DEF journal, budget, history
  <1>0. /\ TypeOK /\ Progress(p) /\ Place(p) /\ snap \in [Tx -> [Parts -> File]]
        /\ live \in [Parts -> File] /\ before \in [Tx -> [Parts -> File]]
    BY DEF IInv, RestInv, ViewInv, TypeOK
  <1>1. pc[p] \in {"mutate", "recopy", "resnap"} /\ cur[p] \in Tx
    BY <1>0, BoundAssumption DEF Body, Mutate, InstallSubsOpen, InstallSubsClose, ResnapXrayOpen,
       ResnapXrayClose, TypeOK, Owning, Tx
  <1> PICK c \in Tx : c = cur[p]
    BY <1>1
  <1>2. /\ \A x \in Gated : before[c][x].state # "torn"
        /\ \A x \in Parts : snap[c][x].state # "none"
    BY <1>0, <1>1, ViewUse DEF Forward, Progress, Mutating
  <1>3. Incomplete' = Incomplete /\ UNCHANGED <<result, final, before, nextTx, cur>>
    BY DEF Body, Mutate, InstallSubsOpen, InstallSubsClose, ResnapXrayOpen, ResnapXrayClose,
       Incomplete, Listed
  <1>4. ASSUME pc'[p] \in {"mutate", "recopy", "resnap"}, Alone(p),
               \A x \in Parts : live'[x] = live[x] \/ live'[x] = Written(live[x], c),
               \A x \in Parts : snap'[c][x].state # "none"
        PROVE  ViewInv'
    <2>1. Untorn(c)'
      BY <1>2, <1>3, <1>4 DEF Untorn
    <2>2. ASSUME NEW x \in Gated PROVE live'[x] \in {before[c][x], Replaced(c, x)}
      <3>0. x \in Parts
        BY DEF Gated
      <3>1. live[x] \in {before[c][x], Replaced(c, x)}
        BY <1>0, <1>1 DEF Place, Mutating
      <3>2. live[x].agent = before[c][x].agent
        BY <3>1 DEF Replaced
      <3>3. Written(live[x], c) = Replaced(c, x)
        BY <1>0, <3>0, <3>2, WrittenIs DEF Replaced
      <3> QED  BY <1>4, <3>0, <3>1, <3>3
    <2>3. \A x \in Gated : live'[x] \in {before'[c][x], Replaced(c, x)'}
      BY <1>3, <2>2 DEF Replaced
    <2>4. Place(p)'
      BY <1>0, <1>1, <1>3, <1>4, <2>3 DEF Place, Begun, Mutating, Undecided, Forward
    <2> QED  BY <1>1, <1>3, <1>4, <2>1, <2>4, ViewOwn DEF Forward
  <1>5. CASE Mutate(p)
    <2>1. Alone(p) /\ UNCHANGED <<pc, snap>> /\ pc[p] = "mutate"
      BY <1>5 DEF Mutate, Alone
    <2>2. \A x \in Parts : live'[x] = live[x] \/ live'[x] = Written(live[x], c)
      BY <1>0, <1>5 DEF Mutate
    <2> QED  BY <1>2, <1>4, <2>1, <2>2
  <1>6. CASE InstallSubsOpen(p)
    <2>1. pc'[p] = "recopy" /\ Alone(p) /\ live' = live /\ pc[p] = "mutate"
      BY <1>0, <1>6, GotoAlone DEF InstallSubsOpen
    <2>2. /\ "subs" \in Parts /\ \A x \in Parts \ {"subs"} : snap'[c][x] = snap[c][x]
          /\ snap'[c]["subs"] \in {snap[c]["subs"], Torn}
      BY <1>0, <1>6 DEF InstallSubsOpen
    <2>3. \A x \in Parts : snap'[c][x].state # "none"
      BY <1>2, <2>2 DEF Torn, Blank
    <2> QED  BY <1>2, <1>4, <2>1, <2>2, <2>3
  <1>7. CASE InstallSubsClose(p)
    <2>1. pc'[p] = "mutate" /\ Alone(p) /\ pc[p] = "recopy"
      BY <1>0, <1>7, GotoAlone DEF InstallSubsClose
    <2>2. \A x \in Parts : live'[x] = live[x] \/ live'[x] = Written(live[x], c)
      BY <1>0, <1>7 DEF InstallSubsClose
    <2>3. /\ \A x \in Parts \ {"subs"} : snap'[c][x] = snap[c][x]
          /\ "subs" \in Parts => \/ snap[c]["subs"].state = "absent" /\ snap'[c]["subs"] = snap[c]["subs"]
                                 \/ snap[c]["subs"].state # "absent" /\ snap'[c]["subs"] = live["subs"]
      BY <1>0, <1>7 DEF InstallSubsClose
    <2>4. "subs" \in Parts /\ snap[c]["subs"].state # "absent" => live["subs"].state # "none"
      <3> SUFFICES ASSUME "subs" \in Parts, snap[c]["subs"].state # "absent"
                   PROVE  live["subs"].state # "none"
        OBVIOUS
      <3>1. live["subs"] = before[c]["subs"]
        BY <1>0, <2>1 DEF Progress
      <3>2. Faithful(c, "subs")
        BY <1>1, <2>1, RestUse DEF Forward, Saved
      <3>3. snap[c]["subs"].state \in {"ok", "torn"}
        BY <1>0, <1>2 DEF File, FileState
      <3>4. before[c]["subs"].state # "none"
        BY <3>2, <3>3 DEF Faithful
      <3> QED  BY <1>2, <3>1, <3>4
    <2>5. \A x \in Parts : snap'[c][x].state # "none"
      BY <1>2, <2>3, <2>4
    <2> QED  BY <1>4, <2>1, <2>2, <2>5
  <1>8. CASE ResnapXrayOpen(p) \/ ResnapXrayClose(p)
    <2>1. pc'[p] \in {"resnap", "mutate"} /\ Alone(p) /\ live' = live /\ pc[p] \in {"mutate", "resnap"}
      BY <1>0, <1>8, GotoAlone DEF ResnapXrayOpen, ResnapXrayClose
    <2>2. /\ \A x \in Parts \ {"xray"} : snap'[c][x] = snap[c][x]
          /\ "xray" \in Parts => snap'[c]["xray"] \in {Torn, live["xray"]}
      BY <1>0, <1>8 DEF ResnapXrayOpen, ResnapXrayClose
    <2>3. \A x \in Parts : snap'[c][x].state # "none"
      <3>1. "xray" \in Parts => live["xray"].state # "none"
        BY DEF RestInv, Sound, Optional
      <3> QED  BY <1>2, <2>2, <3>1 DEF Torn, Blank
    <2> QED  BY <1>2, <1>4, <2>1, <2>2, <2>3
  <1> QED  BY <1>5, <1>6, <1>7, <1>8 DEF Body

LEMMA ViewEnd ==    \* commit, or the trap
  ASSUME IInv, FinalInv, DataInv, ViewInv, IInv', NEW p \in Cli, Commit(p) \/ Abort(p)
  PROVE  ViewInv'
  <1> p \in Procs
    BY DEF Procs
  <1> USE DEF journal, budget, history
  <1>0. TypeOK /\ Place(p) /\ result \in [Tx -> Active \cup Terminal]
    BY DEF IInv, ViewInv, TypeOK
  <1>1. pc[p] \in Forward \ {"plan", "result"} /\ cur[p] \in Tx
    BY <1>0, BoundAssumption DEF Commit, CommitMark, CommitDisarm, Abort, TypeOK, Owning, Tx, Forward
  <1> PICK c \in Tx : c = cur[p]
    BY <1>1
  <1>2. CASE CommitMark(p)
    <2>1. pc'[p] = "marked" /\ Alone(p) /\ pc[p] = "mutate"
      BY <1>0, <1>2, GotoAlone DEF CommitMark
    <2>2. Place(p)'
      BY <1>0, <1>2, <2>1 DEF CommitMark, Place, Begun, Mutating, Undecided, Forward, Replaced
    <2> QED  BY <1>0, <1>2, <2>1, <2>2, ViewQuiet DEF CommitMark, Forward
  <1>3. CASE CommitDisarm(p)
    <2>1. pc'[p] = "prune" /\ cur'[p] = 0 /\ Alone(p) /\ pc[p] = "marked" /\ live' = live
          /\ final' = final \cup {c} /\ result' = result /\ nextTx' = nextTx
      BY <1>0, <1>3, GotoEffect DEF CommitDisarm, Alone, TypeOK
    <2>2. Incomplete' \subseteq {0} /\ 0 \notin Tx
      BY <2>1 DEF IInv, Phase, Mine, Tx
    <2>3. Place(p)'
      BY <2>1 DEF Place, Begun, Mutating, Undecided, Forward
    <2>4. \A x \in Gated : live[x].state # "torn"
      <3>1. \A x \in Gated : before[c][x].state # "torn"
        BY <2>1, ViewUse DEF Forward
      <3> QED  BY <1>0, <2>1, <3>1 DEF Place, Mutating, Replaced
    <2>5. \E m \in final' \cup {0} : \A t \in final' : t <= m
      <3>1. \A t \in final : t < c /\ t \in Nat
        BY <1>0, <2>1 DEF Place, Forward, TypeOK, Tx
      <3>2. c \in Nat
        BY DEF Tx
      <3>3. \A t \in final' : t <= c
        BY <2>1, <3>1, <3>2
      <3> QED  BY <2>1, <3>3
    <2>6. \A t \in Tx : t >= nextTx' => result'[t] = "none"
      BY <2>1 DEF ViewInv
    <2> QED  BY <2>1, <2>2, <2>3, <2>4, <2>5, <2>6, ViewHolder DEF Forward, Backward
  <1>4. CASE Abort(p)
    <2>1. pc'[p] = "gate" /\ Alone(p) /\ UNCHANGED <<result, cur, live, before, final>>
          /\ pc[p] \in AbortAt \cap {"snap", "copy", "mutate", "recopy", "resnap", "marked"}
      BY <1>0, <1>4, GotoAlone DEF Abort
    <2>2. Incomplete' = Incomplete
      BY <1>4 DEF Abort, Incomplete, Listed
    <2>3. CASE pc[p] = "marked"
      <3>1. result[c] = "committed"
        BY <2>3 DEF FinalInv
      <3>2. Place(p)'
        BY <1>0, <2>1, <2>2, <2>3, <3>1 DEF Place, Begun, Mutating, Undecided, Forward, Replaced
      <3> QED  BY <1>1, <1>4, <2>1, <2>3, <3>2, ViewQuiet DEF Abort, Backward
    <2>4. CASE pc[p] # "marked"
      <3>1. c \in Incomplete
        BY <1>0, <2>1, <2>4 DEF Place, Begun
      <3>2. result[c] # "committed"
        BY <3>1 DEF Incomplete, Active
      <3>3. Place(p)'
        BY <1>0, <2>1, <2>2, <3>1, <3>2 DEF Place, Begun, Mutating, Undecided, Forward
      <3> QED  BY <1>1, <1>4, <2>1, <3>3, ViewQuiet DEF Abort, Backward
    <2> QED  BY <2>3, <2>4
  <1> QED  BY <1>2, <1>3, <1>4 DEF Commit

\* Only whole copies pass the gate.
LEMMA GateWhole ==
  ASSUME Role # "standalone", IInv, RestInv, ViewInv, NEW p \in Procs, pc[p] = "gate",
         NEW c \in Tx, c = cur[p], RecoveryGate(c)
  PROVE  Intact(c)
  <1>0. snap[c] \in [Parts -> File] /\ pc[p] \in Backward
    BY DEF IInv, TypeOK, Backward
  <1>1. snap[c]["db"].state # "none" => \A x \in Parts : snap[c][x].state # "none"
    BY <1>0, ViewUse
  <1>2. snap[c]["config"].state # "torn"
    BY DEF RecoveryGate
  <1>3. "xray" \in Parts => snap[c]["xray"].state # "torn"
    BY DEF RecoveryGate
  <1>4. snap[c]["db"].state # "torn"
    <2> SUFFICES ASSUME snap[c]["db"].state = "torn" PROVE FALSE
      OBVIOUS
    <2>1. \A x \in Parts : snap[c][x].state # "none"
      BY <1>1
    <2>2. snap[c]["config"].state = "ok"
      <3>1. Faithful(c, "config")
        BY <1>0, RestUse, PartAssumption DEF Saved
      <3>2. snap[c]["config"].state \in {"ok", "torn", "none", "absent"}
        BY <1>0, PartAssumption DEF File, FileState
      <3> QED  BY <1>2, <2>1, <3>1, <3>2, PartAssumption DEF Faithful, Optional
    <2> QED  BY <2>2 DEF RecoveryGate
  <1> QED  BY <1>1, <1>2, <1>3, <1>4, PartAssumption DEF Intact, Gated

\* What a rollback without a failed step has made of the node.
LEMMA RollbackDone ==
  ASSUME MaxOverride = 0, IInv, RestInv, ViewInv, NEW p \in Procs, pc[p] = "check", ~failed[p]
  PROVE  \A x \in Gated : live[x] = before[cur[p]][x] /\ live[x].state # "torn"
  <1> PICK c \in Tx : c = cur[p]
    BY BoundAssumption DEF IInv, TypeOK, Owning, Tx
  <1>1. Intact(c) /\ Progress(p) /\ overrides = 0 /\ c \in Tx
    BY BoundAssumption DEF ViewInv, RestInv, Place, IInv, TypeOK
  <1>2. \A x \in Gated : live[x] = before[c][x]
    BY <1>1 DEF Progress, Recovered, Intact, Overridden, Gated
  <1>3. \A x \in Gated : before[c][x].state # "torn"
    BY ViewUse DEF Backward
  <1>4. live \in [Parts -> File] /\ before[c] \in [Parts -> File]
    BY DEF IInv, TypeOK
  <1> QED  BY <1>2, <1>3, <1>4

LEMMA ViewRollback ==
  ASSUME Role # "standalone", MaxOverride = 0, IInv, DataInv, RestInv, ViewInv, IInv',
         NEW p \in Cli, Rollback(p)
  PROVE  ViewInv'
  <1> p \in Procs
    BY DEF Procs
  <1> USE DEF journal, budget, history
  <1>0. /\ TypeOK /\ Place(p) /\ Stage(p) /\ result \in [Tx -> Active \cup Terminal]
    BY DEF IInv, ViewInv, DataInv, TypeOK
  <1>1. pc[p] \in Backward /\ cur[p] \in Tx
    BY <1>0, BoundAssumption DEF Rollback, GateRefuse, GatePass, RestoreRemoveSubs, RestorePart,
       RestoreFault, FinishRollback, Backward, TypeOK, Owning, Tx
  <1> PICK c \in Tx : c = cur[p]
    BY <1>1
  <1>2. UNCHANGED <<dirs, plan, snap, before, nextTx, final>> /\ c \in Listed
    BY <1>0, <1>1 DEF Rollback, GateRefuse, GatePass, RestoreRemoveSubs, RestorePart,
       RestoreFault, FinishRollback, Stage, Listed, Backward
  <1>3. CASE GatePass(p)
    <2>1. pc'[p] = "restore" /\ Alone(p) /\ pc[p] = "gate"
      BY <1>0, <1>3, GotoEffect DEF GatePass, Alone, TypeOK
    <2>2. Intact(c)
      BY <1>3, <2>1, GateWhole DEF GatePass
    <2>3. c \in Incomplete' /\ \A t \in Tx \ {c} : result'[t] = result[t]
      BY <1>0, <1>2, <1>3 DEF GatePass, Incomplete, Listed, Active
    <2>4. Place(p)'
      BY <1>2, <1>3, <2>1, <2>2, <2>3 DEF GatePass, Place, Begun, Mutating, Undecided, Forward, Intact
    <2> QED  BY <1>1, <1>2, <1>3, <2>1, <2>3, <2>4, ViewQuiet DEF GatePass, Backward
  <1>4. CASE RestoreRemoveSubs(p) \/ RestorePart(p) \/ RestoreFault(p)
    <2>1. pc'[p] \in {"restore", "check"} /\ Alone(p) /\ pc[p] = "restore"
          /\ UNCHANGED <<cur, result>>
      <3>1. CASE RestoreRemoveSubs(p)
        BY <3>1 DEF RestoreRemoveSubs, Alone
      <3>2. CASE RestorePart(p) \/ RestoreFault(p)
        <4>1. PICK l \in {"restore", "check"} : Goto(p, l)
          BY <3>2 DEF RestorePart, RestoreFault
        <4>2. pc'[p] = l /\ \A q \in Procs \ {p} : pc'[q] = pc[q]
          BY <1>0, <4>1, GotoEffect
        <4>3. \A q \in Procs \ {p} : at'[q] = at[q] /\ failed'[q] = failed[q]
          BY <1>0, <3>2 DEF RestorePart, RestoreFault, TypeOK
        <4> QED  BY <3>2, <4>2, <4>3 DEF RestorePart, RestoreFault, Alone
      <3> QED  BY <1>4, <3>1, <3>2
    <2>2. Incomplete' = Incomplete
      BY <1>2, <2>1 DEF Incomplete, Listed
    <2>3. Place(p)'
      BY <1>0, <1>2, <2>1, <2>2 DEF Place, Begun, Mutating, Undecided, Forward, Intact
    <2> QED  BY <1>1, <1>2, <2>1, <2>3, ViewQuiet DEF Backward
  <1>5. CASE GateRefuse(p) \/ FinishRollback(p)
    <2>1. /\ pc'[p] \in {"idle", "prune"} /\ cur'[p] = 0 /\ Alone(p)
      <3>1. CASE Exit(p)
        BY <1>0, <1>5, <3>1, ExitAlone DEF GateRefuse, FinishRollback
      <3>2. CASE ~Exit(p)
        <4>1. FinishRollback(p)
          BY <1>5, <3>2 DEF GateRefuse
        <4>2. Goto(p, "prune") /\ cur' = [cur EXCEPT ![p] = 0] /\ UNCHANGED <<at, failed>>
          BY <3>2, <4>1 DEF FinishRollback
        <4> QED  BY <1>0, <4>2, GotoEffect DEF Alone, TypeOK
      <3> QED  BY <3>1, <3>2
    <2>2. Place(p)'
      BY <2>1 DEF Place, Begun, Mutating, Undecided, Forward
    <2>3. pc[p] \notin {"idle", "chosen", "prune"} /\ pc[p] \in Mine
      BY <1>1 DEF Backward, Mine
    <2>4. PICK s \in {"rolled_back", "rollback_failed"} :
             /\ result' = [result EXCEPT ![c] = s]
             /\ s = "rolled_back" => pc[p] = "check" /\ ~failed[p] /\ live' = live
      BY <1>5 DEF GateRefuse, FinishRollback
    <2>5. \A t \in Tx : t >= nextTx' => result'[t] = "none"
      <3>1. c < nextTx /\ nextTx \in Nat /\ c \in Nat
        BY BoundAssumption DEF IInv, Fresh, TypeOK
      <3> QED  BY <1>0, <1>2, <2>4, <3>1 DEF ViewInv, Tx
    <2>6. \E m \in final' \cup {0} : \A t \in final' : t <= m
      BY <1>2 DEF ViewInv
    <2>7. pc'[p] \notin Forward \cup Backward
      BY <2>1 DEF Forward, Backward
    <2>8. CASE s = "rolled_back"
      <3>1. Incomplete' \subseteq {0}
        <4>1. Incomplete' = {}
          BY <1>2, <2>3, <2>4, <2>8, ResultStep DEF IInv, Terminal
        <4> QED  BY <4>1
      <3>2. \A x \in Gated : live'[x].state # "torn"
        BY <2>4, <2>8, RollbackDone
      <3>3. 0 \notin Tx
        BY DEF Tx
      <3> QED  BY <2>1, <2>2, <2>3, <2>5, <2>6, <2>7, <3>1, <3>2, <3>3, ViewHolder
    <2>9. CASE s = "rollback_failed" /\ pc'[p] = "idle"
      <3>1. Incomplete' \subseteq {c}
        BY <1>2, <2>3, <2>4, <2>9, ResultStep DEF IInv, Active
      <3>2. c \in Incomplete'
        BY <1>0, <1>2, <2>4, <2>9 DEF Incomplete, Listed, Active
      <3>3. Revertible(c)'
        <4>1. \A q \in Procs \ {p} : pc[q] # "prune"
          BY <2>3 DEF IInv, Exclusion
        <4>2. Kept(c)'
          BY <2>1, <2>9, <4>1 DEF Kept, Alone
        <4> QED  BY <3>2, <4>2 DEF Revertible
      <3>4. Untorn(c)'
        <4>1. /\ \A x \in Gated : before[c][x].state # "torn"
              /\ snap[c]["db"].state # "none" => \A x \in Parts : snap[c][x].state # "none"
          BY <1>1, <2>3, ViewUse DEF Backward
        <4> QED  BY <1>2, <4>1 DEF Untorn
      <3> QED  BY <2>1, <2>2, <2>3, <2>5, <2>6, <2>7, <3>1, <3>3, <3>4, ViewHolder
    <2>10. s = "rollback_failed" => pc'[p] = "idle"
      <3>1. CASE Exit(p)
        BY <1>0, <3>1, ExitAlone
      <3>2. CASE ~Exit(p)
        <4>1. FinishRollback(p)
          BY <1>5, <3>2 DEF GateRefuse
        <4>2. result' = [result EXCEPT ![c] = "rolled_back"]
          BY <3>2, <4>1 DEF FinishRollback
        <4>3. s = "rolled_back"
          BY <1>0, <2>4, <4>2
        <4> QED  BY <4>3
      <3> QED  BY <3>1, <3>2
    <2> QED  BY <2>8, <2>9, <2>10
  <1> QED  BY <1>3, <1>4, <1>5 DEF Rollback

LEMMA ViewRecover ==
  ASSUME IInv, ViewInv, IInv', NEW p \in Cli,
         RecoverChoose(p) \/ RecoverLock(p) \/ Recover(p) \/ LockMutation(p)
  PROVE  ViewInv'
  <1> p \in Procs
    BY DEF Procs
  <1> USE DEF journal, budget, history
  <1>0. TypeOK
    BY DEF IInv
  <1>1. /\ UNCHANGED <<dirs, plan, result, snap, live, before, nextTx, final>>
        /\ pc[p] \notin Forward \cup Backward \cup {"prune"}
    BY DEF RecoverChoose, RecoverLock, Recover, RecoverBusy, RecoverResolve, LockMutation,
       Forward, Backward
  <1>2. Incomplete' = Incomplete
    BY <1>1 DEF Incomplete, Listed
  <1>3. CASE RecoverResolve(p) /\ cur[p] \in Incomplete
    <2>1. pc'[p] = "gate" /\ Alone(p) /\ pc[p] = "resolve" /\ cur' = cur
      BY <1>0, <1>3, GotoAlone DEF RecoverResolve
    <2> PICK c \in Tx : c = cur[p]
      BY <1>0, <1>3, IncompleteIsTx
    <2>2. Incomplete' \subseteq {c}
      BY <2>1 DEF IInv, Phase, Mine
    <2>3. Untorn(c)'
      <3>1. /\ \A x \in Gated : before[c][x].state # "torn"
            /\ snap[c]["db"].state # "none" => \A x \in Parts : snap[c][x].state # "none"
        BY <1>3, <2>1, ViewUse
      <3> QED  BY <1>1, <3>1 DEF Untorn
    <2>4. Place(p)'
      <3>1. result[c] # "committed"
        BY <1>3 DEF Incomplete, Active
      <3> QED  BY <1>1, <1>2, <1>3, <2>1, <3>1 DEF Place, Begun, Mutating, Undecided, Forward
    <2>5. Revertible(c)'
      BY <2>1 DEF Revertible, Backward
    <2> QED  BY <1>1, <2>1, <2>2, <2>3, <2>4, <2>5, ViewHolder DEF ViewInv
  <1>4. CASE ~(RecoverResolve(p) /\ cur[p] \in Incomplete)
    <2>1. Alone(p) /\ pc'[p] \in {"idle", "chosen", "locked", "resolve"}
      <3>1. CASE Exit(p)
        BY <1>0, <3>1, ExitAlone
      <3>2. CASE RecoverChoose(p)
        BY <1>0, <3>2, GotoEffect DEF RecoverChoose, Alone, TypeOK
      <3>3. CASE RecoverLock(p) \/ LockMutation(p)
        BY <1>0, <3>3, GotoAlone DEF RecoverLock, LockMutation, TryLock
      <3> QED  BY <1>4, <3>1, <3>2, <3>3 DEF Recover, RecoverBusy, RecoverResolve
    <2> QED  BY <1>1, <1>2, <2>1, ViewLeave DEF Forward, Backward
  <1> QED  BY <1>3, <1>4

LEMMA ViewPrune ==
  ASSUME IInv, ViewInv, IInv', NEW p \in Cli, Prune(p)
  PROVE  ViewInv'
  <1> p \in Procs
    BY DEF Procs
  <1> USE DEF journal, budget, history
  <1>0. TypeOK /\ 0 \notin Tx /\ result \in [Tx -> Active \cup Terminal]
    <2>1. 0 \notin Tx
      BY DEF Tx
    <2> QED  BY <2>1 DEF IInv, TypeOK
  <1>1. CASE PruneDone(p)
    <2>1. Alone(p) /\ pc'[p] = "idle" /\ cur[p] \notin Tx /\ pc[p] = "prune"
      BY <1>0, <1>1, ExitAlone DEF PruneDone
    <2>2. Incomplete' = Incomplete
      BY <1>1 DEF PruneDone, Incomplete, Listed
    <2> QED  BY <1>1, <2>1, <2>2, ViewLeave DEF PruneDone, Forward, Backward
  <1>2. CASE PruneFile(p) \/ PruneDir(p)
    <2>1. \A u \in Tx : result'[u] \in {result[u], "none"}
      <3>1. CASE PruneFile(p)
        <4> PICK t \in Prunable : result' = result \/ result' = [result EXCEPT ![t] = "none"]
          BY <3>1 DEF PruneFile
        <4> QED  BY <1>0
      <3>2. CASE PruneDir(p)
        BY <1>0, <3>2 DEF PruneDir
      <3> QED  BY <1>2, <3>1, <3>2
    <2>2. /\ pc' = pc /\ pc[p] = "prune" /\ Alone(p)
          /\ UNCHANGED <<live, final, nextTx>>
      BY <1>0, <1>2 DEF PruneFile, PruneDir, Alone, TypeOK
    <2>3. PICK c : c = cur'[p]
      OBVIOUS
    <2>4. Incomplete' \subseteq {c}
      BY <2>2, <2>3 DEF IInv, Phase, Mine
    <2>5. \A x \in Gated : live[x].state # "torn"
      <3>1. \A t \in Incomplete : cur[p] = t
        BY <2>2 DEF IInv, Phase, Mine
      <3> QED  BY <2>2, <3>1, ViewClear DEF Forward, Backward
    <2>6. Place(p)'
      BY <2>2 DEF Place, Begun, Mutating, Undecided, Forward
    <2>7. /\ \A u \in Tx : u >= nextTx' => result'[u] = "none"
          /\ \E m \in final' \cup {0} : \A t \in final' : t <= m
      BY <2>1, <2>2 DEF ViewInv
    <2> QED  BY <2>2, <2>3, <2>4, <2>5, <2>6, <2>7, ViewHolder DEF Forward, Backward
  <1> QED  BY <1>1, <1>2 DEF Prune

LEMMA ViewAgent ==
  ASSUME IInv, ViewInv, IInv', AgentStep
  PROVE  ViewInv'
  <1> Agent \in Procs /\ "db" \in Parts
    BY PartAssumption DEF Procs
  <1> USE DEF journal, budget, history
  <1>0. TypeOK /\ live \in [Parts -> File]
    BY DEF IInv, TypeOK
  <1>1. Incomplete' = Incomplete
    BY DEF AgentStep, AgentLock, AgentFence, AgentWrite, Incomplete, Listed
  <1>2. CASE AgentLock \/ AgentFence
    <2>1. Alone(Agent) /\ pc'[Agent] \in {"fence", "write", "idle"} /\ pc[Agent] \in {"idle", "fence"}
      <3>1. CASE Exit(Agent)
        BY <1>0, <1>2, <3>1, ExitAlone DEF AgentLock, AgentFence
      <3>2. CASE ~Exit(Agent)
        BY <1>0, <1>2, <3>2, GotoAlone DEF AgentLock, AgentFence, TryLock
      <3> QED  BY <3>1, <3>2
    <2>2. UNCHANGED <<result, snap, live, before, nextTx, final>>
      BY <1>2 DEF AgentLock, AgentFence
    <2> QED  BY <1>1, <2>1, <2>2, ViewLeave DEF Forward, Backward
  <1>3. CASE AgentWrite
    <2>1. Alone(Agent) /\ pc'[Agent] = "idle" /\ pc[Agent] = "write"
      BY <1>0, <1>3, ExitAlone DEF AgentWrite
    <2>2. Incomplete = {} /\ 0 \notin Tx
      BY <2>1 DEF IInv, Phase, Clear, Tx
    <2>3. \A x \in Gated : live'[x].state # "torn"
      <3>1. \A x \in Gated : live[x].state # "torn"
        BY <2>1, <2>2, ViewClear DEF Forward, Backward
      <3>2. live'["db"] = [live["db"] EXCEPT !.agent = agentDone + 1]
            /\ \A x \in Parts \ {"db"} : live'[x] = live[x]
        BY <1>0, <1>3 DEF AgentWrite
      <3>3. live'["db"].state = live["db"].state
        BY <1>0, <3>2 DEF File
      <3> QED  BY <3>1, <3>2, <3>3 DEF Gated
    <2>4. Place(Agent)'
      BY <2>1 DEF Place, Begun, Mutating, Undecided, Forward
    <2>5. /\ \A t \in Tx : t >= nextTx' => result'[t] = "none"
          /\ \E m \in final' \cup {0} : \A t \in final' : t <= m
      BY <1>3 DEF AgentWrite, ViewInv
    <2>6. Incomplete' \subseteq {0}
      BY <1>1, <2>2
    <2> QED  BY <2>1, <2>2, <2>3, <2>4, <2>5, <2>6, ViewHolder DEF Forward, Backward
  <1> QED  BY <1>2, <1>3 DEF AgentStep

\* A command whose end was decided has nothing torn on the node.
LEMMA DecidedWhole ==
  ASSUME IInv, FinalInv, ViewInv, NEW p \in Procs, Undecided(p)
  PROVE  /\ \A x \in Gated : live[x].state # "torn"
         /\ Incomplete = {} /\ cur[p] \in Tx /\ cur[p] \notin final
         /\ \A t \in final : t < cur[p]
  <1>1. pc[p] \in {"marked", "gate"} /\ result[cur[p]] = "committed" /\ Place(p)
    BY DEF Undecided, FinalInv, ViewInv
  <1>2. cur[p] \in Tx
    BY <1>1, BoundAssumption DEF IInv, TypeOK, Owning, Tx
  <1>3. Incomplete = {}
    <2>1. Incomplete \subseteq {cur[p]}
      BY <1>1 DEF IInv, Phase, Clear, Mine
    <2>2. cur[p] \notin Incomplete
      BY <1>1 DEF Incomplete, Active
    <2> QED  BY <2>1, <2>2
  <1>4. \A x \in Gated : before[cur[p]][x].state # "torn"
    BY <1>1, <1>2, ViewUse DEF Forward, Backward
  <1>5. \A x \in Gated : live[x].state # "torn"
    BY <1>1, <1>4 DEF Place, Replaced
  <1>6. cur[p] \notin final
    BY <1>1 DEF FinalInv, Held
  <1> QED  BY <1>1, <1>2, <1>3, <1>5, <1>6 DEF Place

LEMMA ViewCrash ==
  ASSUME "prune" \notin CrashAt, IInv, FinalInv, DataInv, RestInv, ViewInv, IInv',
         NEW p \in Procs, Crash(p)
  PROVE  ViewInv'
  <1> USE DEF journal, history
  <1>1. /\ Exit(p) /\ pc[p] \in CrashAt /\ pc[p] \notin {"prune", "idle"}
        /\ UNCHANGED <<dirs, plan, result, snap, live, before, nextTx>>
    BY DEF Crash
  <1>2. Incomplete' = Incomplete
    BY <1>1 DEF Incomplete, Listed
  <1>3. Alone(p) /\ pc'[p] = "idle" /\ cur'[p] = 0
    BY <1>1, ExitAlone DEF IInv
  <1>4. CASE pc[p] \in {"marked", "gate"} /\ result[cur[p]] = "committed"
    <2> PICK c \in Tx : c = cur[p]
      BY <1>4, DecidedWhole DEF Undecided
    <2>1. /\ \A x \in Gated : live'[x].state # "torn"
          /\ Incomplete' \subseteq {0} /\ final' = final \cup {c}
          /\ \A t \in final : t < c
      BY <1>1, <1>2, <1>4, DecidedWhole DEF Undecided, Crash
    <2>2. \E m \in final' \cup {0} : \A t \in final' : t <= m
      <3>1. c \in Nat /\ \A t \in final : t \in Nat
        BY DEF IInv, TypeOK, Tx
      <3>2. \A t \in final' : t <= c
        BY <2>1, <3>1
      <3> QED  BY <2>1, <3>2
    <2>3. \A t \in Tx : t >= nextTx' => result'[t] = "none"
      BY <1>1 DEF ViewInv
    <2>4. Place(p)'
      BY <1>3 DEF Place, Begun, Mutating, Undecided, Forward
    <2>5. 0 \notin Tx
      BY DEF Tx
    <2>6. pc[p] \notin {"idle", "chosen"}
      BY <1>4
    <2> QED  BY <1>3, <2>1, <2>2, <2>3, <2>4, <2>5, <2>6, ViewHolder DEF Forward, Backward
  <1>5. CASE ~(pc[p] \in {"marked", "gate"} /\ result[cur[p]] = "committed")
    <2>1. final' = final
      BY <1>5 DEF Crash
    <2>2. \/ pc[p] \notin Forward \cup Backward
          \/ cur[p] \in Incomplete /\ cur[p] \in Tx
          \/ \A x \in Gated : live[x].state # "torn"
      <3>1. CASE pc[p] = "plan"
        <4>1. cur[p] \in Tx
          BY <3>1, BoundAssumption DEF IInv, TypeOK, Owning, Tx
        <4>2. \A x \in Gated : before[cur[p]][x].state # "torn"
          BY <3>1, <4>1, ViewUse DEF Forward
        <4>3. live = before[cur[p]]
          BY <3>1 DEF RestInv, Progress, Untouched
        <4> QED  BY <4>2, <4>3
      <3>2. CASE pc[p] \in (Forward \cup Backward) \ {"plan"}
        <4>1. cur[p] \in Incomplete
          <5>1. CASE pc[p] = "marked"
            BY <1>5, <5>1 DEF FinalInv
          <5>2. CASE pc[p] # "marked"
            BY <1>5, <3>2, <5>2 DEF ViewInv, Place, Begun, Forward, Backward
          <5> QED  BY <5>1, <5>2
        <4> QED  BY <4>1, IncompleteIsTx DEF IInv
      <3> QED  BY <3>1, <3>2
    <2> QED  BY <1>1, <1>2, <1>3, <2>1, <2>2, ViewLeave DEF Forward, Backward
  <1> QED  BY <1>4, <1>5

LEMMA ViewNext ==
  ASSUME "prune" \notin CrashAt, MaxOverride = 0, Role # "standalone",
         IInv, NoOverriding, FinalInv, DataInv, RestInv, ViewInv, IInv', [Next]_vars
  PROVE  ViewInv'
  <1>1. ASSUME NEW p \in Cli, Command(p) PROVE ViewInv'
    <2>1. ~Override(p)
      <3>1. overrides = 0 /\ p \in Procs
        BY BoundAssumption DEF IInv, TypeOK, Procs
      <3> QED  BY <3>1 DEF Override, OverrideDir, OverrideApply, NoOverriding
    <2> QED  BY <1>1, <2>1, ViewBegin, ViewSnapshot, ViewBody, ViewEnd, ViewRollback, ViewRecover,
                ViewPrune DEF Command
  <1>2. CASE \E p \in Procs : Crash(p)
    BY <1>2, ViewCrash
  <1>3. CASE UNCHANGED vars
    <2> USE <1>3 DEF vars, journal, budget, history
    <2>1. \A t \in Tx : (Revertible(t)' <=> Revertible(t)) /\ (Untorn(t)' <=> Untorn(t))
      BY DEF Revertible, Incomplete, Listed, Kept, Untorn
    <2>2. \A p \in Procs : Place(p)'
      BY DEF ViewInv, Place, Incomplete, Listed, Undecided, Intact, Replaced
    <2> QED  BY <2>1, <2>2 DEF ViewInv
  <1> QED  BY <1>1, <1>2, <1>3, ViewAgent DEF Next

LEMMA ViewInit == Init => ViewInv
  <1> SUFFICES ASSUME Init PROVE ViewInv
    OBVIOUS
  <1>1. Incomplete = {} /\ \A p \in Procs : pc[p] = "idle"
    BY DEF Init, Incomplete, Listed
  <1>2. \A t \in Tx : ~Revertible(t)
    BY <1>1 DEF Revertible, Forward, Backward
  <1>3. \A p \in Procs : Place(p)
    BY <1>1 DEF Place, Begun, Mutating, Undecided, Forward
  <1>4. \A x \in Gated : live[x].state # "torn"
    BY DEF Init, None, Blank, Gated
  <1> QED  BY <1>2, <1>3, <1>4 DEF ViewInv, Init

-----------------------------------------------------------------------------
(* AtomicNode is implemented: each step of the journal commits a command,     *)
(* makes one access mutation, or leaves the node as the abstract module sees  *)
(* it.  What is seen changes only where the set of open transactions does.    *)

AgentApart == pc[Agent] \in {"idle", "fence", "write"}

LEMMA AgentApartNext ==
  ASSUME TypeOK, AgentApart, [Next]_vars
  PROVE  AgentApart'
  <1> Agent \in Procs /\ Agent \notin Cli
    BY ProcAssumption DEF Procs
  <1>1. ASSUME NEW p \in Cli, Command(p) PROVE pc'[Agent] = pc[Agent]
    <2>0. p \in Procs /\ p # Agent
      BY <1>1 DEF Procs
    <2>1. pc' = pc \/ (\E l : Goto(p, l)) \/ Exit(p)
      <3>1. CASE LockMutation(p) \/ Begin(p) \/ Snapshot(p) \/ Commit(p) \/ Abort(p)
        BY <3>1 DEF LockMutation, TryLock, Begin, Refuse, BeginDir, BeginPlan, BeginResult, Snapshot,
           SnapOpen, SnapClose, Commit, CommitMark, CommitDisarm, Abort
      <3>2. CASE Body(p) \/ Rollback(p)
        BY <3>2 DEF Body, Mutate, InstallSubsOpen, InstallSubsClose, ResnapXrayOpen, ResnapXrayClose,
           Rollback, GateRefuse, GatePass, RestoreRemoveSubs, RestorePart, RestoreFault, FinishRollback
      <3>3. CASE RecoverChoose(p) \/ RecoverLock(p) \/ Recover(p) \/ Prune(p) \/ Override(p)
        BY <3>3 DEF RecoverChoose, RecoverLock, TryLock, Recover, RecoverBusy, RecoverResolve, Prune,
           PruneFile, PruneDir, PruneDone, Override, OverrideDir, OverrideApply
      <3> QED  BY <1>1, <3>1, <3>2, <3>3 DEF Command
    <2> QED  BY <2>0, <2>1 DEF Goto, Exit, TypeOK
  <1>2. CASE AgentStep
    BY <1>2 DEF AgentStep, AgentLock, AgentFence, AgentWrite, TryLock, Goto, Exit, AgentApart, TypeOK
  <1>3. CASE \E p \in Procs : Crash(p)
    BY <1>3 DEF Crash, Exit, AgentApart, TypeOK
  <1>4. CASE UNCHANGED vars
    BY <1>4 DEF vars, AgentApart
  <1> QED  BY <1>1, <1>2, <1>3, <1>4 DEF Next, AgentApart

\* What is open, by where the holder is.
OpenPlaces ==
    /\ \A p \in Procs :
          /\ pc[p] \in {"marked", "gate"} => Open = {cur[p]}
          /\ pc[p] = "prune" => Open = {}
          /\ pc[p] \notin {"idle", "chosen", "marked", "gate", "prune"} => Open = Incomplete
    /\ (\A p \in Procs : pc[p] \in {"idle", "chosen"}) => Open = Incomplete

LEMMA OpenIs == IInv /\ AgentApart => OpenPlaces
  <1> SUFFICES ASSUME IInv, AgentApart PROVE OpenPlaces
    OBVIOUS
  <1>1. ASSUME NEW p \in Procs, pc[p] \notin {"idle", "chosen"}
        PROVE  \A q \in Cli : pc[q] \in {"marked", "gate", "prune"} => q = p
    BY <1>1 DEF IInv, Exclusion, Procs
  <1>2. ASSUME NEW p \in Procs, pc[p] \in {"marked", "gate"} PROVE Open = {cur[p]}
    <2>1. p \in Cli
      BY <1>2 DEF AgentApart, Procs
    <2>2. Incomplete \subseteq {cur[p]}
      BY <1>2 DEF IInv, Phase, Clear, Mine
    <2>3. \A q \in Cli : pc[q] \in {"marked", "gate"} => q = p
      BY <1>1, <1>2
    <2> QED  BY <1>2, <2>1, <2>2, <2>3 DEF Open
  <1>3. ASSUME NEW p \in Procs, pc[p] = "prune" PROVE Open = {}
    <2>1. p \in Cli
      BY <1>3 DEF AgentApart, Procs
    <2>2. Incomplete \subseteq {cur[p]}
      BY <1>3 DEF IInv, Phase, Clear, Mine
    <2>3. \A q \in Cli : pc[q] \notin {"marked", "gate"}
      BY <1>1, <1>3
    <2> QED  BY <1>3, <2>1, <2>2, <2>3 DEF Open, Pruned
  <1>4. ASSUME \A q \in Cli : pc[q] \notin {"marked", "gate", "prune"} PROVE Open = Incomplete
    BY <1>4 DEF Open, Pruned
  <1>5. ASSUME NEW p \in Procs, pc[p] \notin {"idle", "chosen", "marked", "gate", "prune"}
        PROVE  Open = Incomplete
    <2>1. \A q \in Cli : pc[q] \notin {"marked", "gate", "prune"}
      BY <1>1, <1>5
    <2> QED  BY <1>4, <2>1
  <1>6. ASSUME \A p \in Procs : pc[p] \in {"idle", "chosen"} PROVE Open = Incomplete
    BY <1>4, <1>6 DEF Procs
  <1> QED  BY <1>2, <1>3, <1>5, <1>6 DEF OpenPlaces

LEMMA OpenThen == IInv' /\ AgentApart' => OpenPlaces'
  BY OpenIs, PTL

LEMMA ViewOf ==
  /\ Open = {} => View = [x \in Gated |-> live[x]]
  /\ \A t : Open = {t} => View = [x \in Gated |-> before[t][x]]
  BY DEF View, Seen

\* A step that opens and closes nothing.
LEMMA OpenElsewhere ==
  ASSUME NEW p \in Procs, Alone(p), Incomplete' = Incomplete,
         pc[p] \notin {"marked", "gate", "prune"}, pc'[p] \notin {"marked", "gate", "prune"},
         UNCHANGED before, Open = {} => live' = live
  PROVE  View' = View
  <1>1. \A q \in Cli : pc'[q] \in {"marked", "gate", "prune"} \/ pc[q] \in {"marked", "gate", "prune"}
                          => q # p /\ pc'[q] = pc[q] /\ cur'[q] = cur[q]
    BY DEF Alone, Procs
  <1>2. Pruned' = Pruned
    BY <1>1 DEF Pruned
  <1>3. Open' = Open
    BY <1>1, <1>2 DEF Open
  <1> QED  BY <1>3 DEF View, Seen

LEMMA MaxIs ==
  ASSUME NEW S \in SUBSET Nat, NEW m \in S, \A s \in S : s <= m
  PROVE  Max(S) = m
  <1>1. \A n \in S : (\A s \in S : n >= s) => n = m
    OBVIOUS
  <1>2. \A s \in S : m >= s
    OBVIOUS
  <1> QED  BY <1>1, <1>2 DEF Max

\* All that a step of the journal relies on.
NodeInv == /\ IInv /\ AgentApart /\ NoOverriding
           /\ FinalInv /\ DataInv /\ RestInv /\ ViewInv

\* What the holder p of an open transaction sees before the step, and what is
\* seen after it by whom it leaves the lock to.
LEMMA OpenHere ==
  ASSUME NodeInv, NodeInv', NEW p \in Procs, pc[p] \notin {"idle", "chosen"}, Alone(p)
  PROVE  /\ pc[p] \in {"marked", "gate"} => Open = {cur[p]}
         /\ pc[p] = "prune" => Open = {}
         /\ pc[p] \notin {"marked", "gate", "prune"} => Open = Incomplete
         /\ pc'[p] \in {"marked", "gate"} => Open' = {cur'[p]}
         /\ pc'[p] = "prune" => Open' = {}
         /\ pc'[p] \notin {"marked", "gate", "prune"} => Open' = Incomplete'
  <1>1. OpenPlaces /\ OpenPlaces'
    BY OpenIs, OpenThen DEF NodeInv
  <1>2. \A q \in Procs \ {p} : pc'[q] \in {"idle", "chosen"}
    BY DEF Alone, NodeInv, IInv, Exclusion
  <1> QED  BY <1>1, <1>2 DEF OpenPlaces

\* Where a transaction is its process's own, it is all that is incomplete.
LEMMA OwnIncomplete ==
  ASSUME NodeInv, NEW p \in Procs, pc[p] \in Begun
  PROVE  Incomplete = {cur[p]} /\ cur[p] \in Tx
  BY IncompleteIsTx DEF NodeInv, ViewInv, Place, IInv, Phase, Mine, Begun

LEMMA OwnThen ==
  ASSUME NodeInv', NEW p \in Procs, pc'[p] \in Begun
  PROVE  Incomplete' = {cur'[p]}
  <1>1. Phase(p)' /\ Place(p)'
    BY DEF NodeInv, IInv, ViewInv
  <1> QED  BY <1>1 DEF Place, Phase, Mine, Begun

LEMMA SeenBegin ==
  ASSUME NodeInv, NodeInv', NEW p \in Cli, Begin(p)
  PROVE  View' = View /\ final' = final
  <1> p \in Procs
    BY DEF Procs
  <1> USE DEF journal, budget, history
  <1>0. TypeOK
    BY DEF NodeInv, IInv
  <1>1. CASE Refuse(p)
    <2>1. Alone(p) /\ pc'[p] = "idle" /\ pc[p] = "locked"
      BY <1>0, <1>1, ExitAlone DEF Refuse
    <2>2. Incomplete' = Incomplete
      BY <1>1 DEF Refuse, Incomplete, Listed
    <2> QED  BY <1>1, <2>1, <2>2, OpenElsewhere DEF Refuse
  <1>2. CASE BeginDir(p)
    <2>1. /\ pc'[p] = "plan" /\ Alone(p) /\ pc[p] = "locked" /\ live' = live
          /\ Incomplete = {} /\ final' = final
      BY <1>0, <1>2, GotoEffect DEF BeginDir, Alone, TypeOK
    <2>2. Incomplete' = {}
      BY <2>1 DEF NodeInv, IInv, Phase, Clear
    <2>3. Open = {} /\ Open' = {}
      BY <2>1, <2>2, OpenHere
    <2> QED  BY <2>1, <2>3 DEF View, Seen
  <1>3. CASE BeginPlan(p)
    <2>1. pc'[p] = "result" /\ Alone(p) /\ pc[p] = "plan" /\ UNCHANGED <<cur, before, final>>
      BY <1>0, <1>3, GotoAlone DEF BeginPlan
    <2> PICK c : c = cur[p]
      OBVIOUS
    <2>2. Incomplete = {} /\ Incomplete' = {c} /\ live = before[c]
      BY <2>1, OwnThen DEF NodeInv, IInv, Phase, Clear, RestInv, Progress, Untouched, Begun
    <2>3. Open = {} /\ Open' = {c}
      BY <2>1, <2>2, OpenHere
    <2> QED  BY <2>1, <2>2, <2>3 DEF View, Seen
  <1>4. CASE BeginResult(p)
    <2>1. pc'[p] = "snap" /\ Alone(p) /\ pc[p] = "result" /\ UNCHANGED <<cur, before, live, final>>
      BY <1>0, <1>4, GotoEffect DEF BeginResult, Alone, TypeOK
    <2>2. Incomplete' = Incomplete
      BY <2>1, OwnIncomplete, OwnThen DEF Begun
    <2> QED  BY <2>1, <2>2, OpenElsewhere
  <1> QED  BY <1>1, <1>2, <1>3, <1>4 DEF Begin

\* Snapshot and body work on a transaction that is open.
LEMMA SeenWork ==
  ASSUME NodeInv, NodeInv', NEW p \in Cli,
         Snapshot(p) \/ Body(p) \/ RestoreRemoveSubs(p) \/ RestorePart(p) \/ RestoreFault(p)
  PROVE  View' = View /\ final' = final
  <1> p \in Procs
    BY DEF Procs
  <1> USE DEF journal, budget, history
  <1>0. TypeOK
    BY DEF NodeInv, IInv
  <1>1. /\ pc[p] \in Begun
        /\ UNCHANGED <<cur, dirs, plan, result, before, final>>
    BY DEF Snapshot, SnapOpen, SnapClose, Body, Mutate, InstallSubsOpen, InstallSubsClose,
       ResnapXrayOpen, ResnapXrayClose, RestoreRemoveSubs, RestorePart, RestoreFault, Begun
  <1>2. pc' = pc \/ \E l \in Begun : Goto(p, l)
    BY DEF Snapshot, SnapOpen, SnapClose, Body, Mutate, InstallSubsOpen, InstallSubsClose,
       ResnapXrayOpen, ResnapXrayClose, RestoreRemoveSubs, RestorePart, RestoreFault, Begun
  <1>3. pc'[p] \in Begun /\ \A q \in Procs \ {p} : pc'[q] = pc[q] /\ cur'[q] = cur[q]
    BY <1>0, <1>1, <1>2, GotoEffect
  <1>4. \A q \in Procs \ {p} : at'[q] = at[q] /\ failed'[q] = failed[q]
    BY <1>0 DEF Snapshot, SnapOpen, SnapClose, Body, Mutate, InstallSubsOpen, InstallSubsClose,
       ResnapXrayOpen, ResnapXrayClose, RestoreRemoveSubs, RestorePart, RestoreFault, TypeOK
  <1>5. Incomplete' = Incomplete
    BY <1>1 DEF Incomplete, Listed
  <1>6. Open # {}
    <2>1. Open = Incomplete
      BY <1>1, <1>3, <1>4, OpenHere DEF Begun, Alone
    <2> QED  BY <1>1, <2>1, OwnIncomplete
  <1> QED  BY <1>1, <1>3, <1>4, <1>5, <1>6, OpenElsewhere DEF Begun, Alone

LEMMA SeenRollback ==
  ASSUME MaxOverride = 0, NodeInv, NodeInv', NEW p \in Cli, Rollback(p)
  PROVE  View' = View /\ final' = final
  <1> p \in Procs
    BY DEF Procs
  <1> USE DEF journal, budget, history
  <1>0. TypeOK /\ result \in [Tx -> Active \cup Terminal] /\ Stage(p)
    BY DEF NodeInv, IInv, DataInv, TypeOK
  <1>1. CASE RestoreRemoveSubs(p) \/ RestorePart(p) \/ RestoreFault(p)
    BY <1>1, SeenWork
  <1>2. CASE GatePass(p)
    <2>1. pc'[p] = "restore" /\ Alone(p) /\ pc[p] = "gate" /\ UNCHANGED <<cur, live, before, final>>
      BY <1>0, <1>2, GotoEffect DEF GatePass, Alone, TypeOK
    <2>2. Open = {cur[p]} /\ Open' = Open
      BY <2>1, OpenHere, OwnThen DEF Begun
    <2> QED  BY <2>1, <2>2 DEF View, Seen
  <1>3. CASE GateRefuse(p) \/ FinishRollback(p)
    <2>1. /\ pc[p] \in {"gate", "check"} /\ UNCHANGED <<dirs, plan, live, before, nextTx, final>>
          /\ cur[p] \in Tx
      BY <1>0, <1>3, BoundAssumption DEF GateRefuse, FinishRollback, TypeOK, Owning, Tx
    <2> PICK c \in Tx : c = cur[p]
      BY <2>1
    <2>2. c \in Listed
      BY <1>0, <2>1 DEF Stage, Listed, Backward
    <2>3. PICK s \in {"rolled_back", "rollback_failed"} :
             /\ result' = [result EXCEPT ![c] = s]
             /\ s = "rolled_back" => pc[p] = "check" /\ ~failed[p]
      BY <1>3 DEF GateRefuse, FinishRollback
    <2>4. /\ pc'[p] \in {"idle", "prune"} /\ cur'[p] = 0 /\ Alone(p)
          /\ s = "rollback_failed" => pc'[p] = "idle"
      <3>1. CASE Exit(p)
        BY <1>0, <3>1, ExitAlone
      <3>2. CASE ~Exit(p)
        <4>1. FinishRollback(p)
          BY <1>3, <3>2 DEF GateRefuse
        <4>2. Goto(p, "prune") /\ cur' = [cur EXCEPT ![p] = 0] /\ UNCHANGED <<at, failed>>
              /\ result' = [result EXCEPT ![c] = "rolled_back"]
          BY <3>2, <4>1 DEF FinishRollback
        <4>3. s = "rolled_back"
          BY <1>0, <2>3, <4>2
        <4> QED  BY <1>0, <4>2, <4>3, GotoEffect DEF Alone, TypeOK
      <3> QED  BY <3>1, <3>2
    <2>5. Open = {c}
      <3>1. pc[p] = "check" => Incomplete = {c}
        BY OwnIncomplete DEF Begun
      <3> QED  BY <2>1, <2>4, <3>1, OpenHere
    <2>6. pc[p] \in Mine /\ IInv /\ TypeOK'
      BY <2>1 DEF Mine, NodeInv, IInv
    <2>7. CASE s = "rollback_failed"
      <3>1. Incomplete' \subseteq {c}
        BY <2>1, <2>3, <2>6, ResultStep DEF Active, Terminal
      <3>2. c \in Incomplete'
        BY <1>0, <2>1, <2>2, <2>3, <2>7 DEF Incomplete, Listed, Active
      <3>3. Open' = {c}
        BY <2>1, <2>4, <2>7, <3>1, <3>2, OpenHere
      <3> QED  BY <2>1, <2>5, <3>3 DEF View, Seen
    <2>8. CASE s = "rolled_back"
      <3>1. Incomplete' = {}
        BY <2>1, <2>3, <2>6, <2>8, ResultStep DEF Active, Terminal
      <3>2. Open' = {}
        BY <2>1, <2>4, <3>1, OpenHere
      <3>3. \A x \in Gated : live[x] = before[c][x]
        BY <2>3, <2>8, RollbackDone DEF NodeInv
      <3> QED  BY <2>1, <2>5, <3>2, <3>3 DEF View, Seen
    <2> QED  BY <2>7, <2>8
  <1> QED  BY <1>1, <1>2, <1>3 DEF Rollback

LEMMA SeenRecover ==
  ASSUME NodeInv, NodeInv', NEW p \in Cli,
         RecoverChoose(p) \/ RecoverLock(p) \/ Recover(p) \/ LockMutation(p)
  PROVE  View' = View /\ final' = final
  <1> p \in Procs
    BY DEF Procs
  <1> USE DEF journal, budget, history
  <1>0. TypeOK
    BY DEF NodeInv, IInv
  <1>1. UNCHANGED <<dirs, plan, result, live, before, final>>
        /\ pc[p] \in {"idle", "locked", "chosen", "resolve"}
    BY DEF RecoverChoose, RecoverLock, Recover, RecoverBusy, RecoverResolve, LockMutation
  <1>2. Incomplete' = Incomplete
    BY <1>1 DEF Incomplete, Listed
  <1>3. CASE RecoverResolve(p) /\ cur[p] \in Incomplete
    <2>1. pc'[p] = "gate" /\ Alone(p) /\ pc[p] = "resolve" /\ cur' = cur
      BY <1>0, <1>3, GotoAlone DEF RecoverResolve
    <2> PICK c : c = cur[p]
      OBVIOUS
    <2>2. Incomplete = {c}
      BY <1>2, <1>3, <2>1 DEF NodeInv, IInv, Phase, Mine
    <2>3. Open = {c} /\ Open' = {c}
      BY <2>1, <2>2, OpenHere
    <2> QED  BY <1>1, <2>3 DEF View, Seen
  <1>4. CASE ~(RecoverResolve(p) /\ cur[p] \in Incomplete)
    <2>1. Alone(p) /\ pc'[p] \in {"idle", "chosen", "locked", "resolve"}
      <3>1. CASE Exit(p)
        BY <1>0, <3>1, ExitAlone
      <3>2. CASE RecoverChoose(p)
        BY <1>0, <3>2, GotoEffect DEF RecoverChoose, Alone, TypeOK
      <3>3. CASE RecoverLock(p) \/ LockMutation(p)
        BY <1>0, <3>3, GotoAlone DEF RecoverLock, LockMutation, TryLock
      <3> QED  BY <1>4, <3>1, <3>2, <3>3 DEF Recover, RecoverBusy, RecoverResolve
    <2> QED  BY <1>1, <1>2, <2>1, OpenElsewhere
  <1> QED  BY <1>3, <1>4

LEMMA SeenPrune ==
  ASSUME NodeInv, NodeInv', NEW p \in Cli, Prune(p)
  PROVE  View' = View /\ final' = final
  <1> p \in Procs
    BY DEF Procs
  <1> USE DEF journal, budget, history
  <1>0. TypeOK /\ pc[p] = "prune" /\ UNCHANGED <<live, before, final>>
    BY DEF NodeInv, IInv, Prune, PruneFile, PruneDir, PruneDone
  <1>1. Open' = {}
    <2>1. CASE PruneDone(p)
      <3>1. Alone(p) /\ pc'[p] = "idle" /\ Incomplete' = Incomplete /\ cur[p] = 0
        BY <1>0, <2>1, ExitAlone DEF PruneDone, Incomplete, Listed
      <3>2. Incomplete = {}
        BY <1>0, <3>1, IncompleteIsTx DEF NodeInv, IInv, Phase, Mine, Tx
      <3> QED  BY <1>0, <3>1, <3>2, OpenHere
    <2>2. CASE PruneFile(p) \/ PruneDir(p)
      <3>1. Alone(p) /\ pc' = pc
        BY <1>0, <2>2 DEF PruneFile, PruneDir, Alone, TypeOK
      <3> QED  BY <1>0, <3>1, OpenHere
    <2> QED  BY <2>1, <2>2 DEF Prune
  <1>2. Open = {}
    BY <1>0, OpenIs DEF NodeInv, OpenPlaces
  <1> QED  BY <1>0, <1>1, <1>2 DEF View, Seen

\* What is seen changes when a command ends for good: all it has replaced at once.
LEMMA SeenCommit ==
  ASSUME NodeInv, NodeInv', NEW p \in Cli, Undecided(p), Alone(p),
         pc'[p] \in {"idle", "prune"}, Incomplete' = Incomplete,
         UNCHANGED live, final' = final \cup {cur[p]}
  PROVE  Abstract!Next
  <1> p \in Procs
    BY DEF Procs
  <1>1. /\ pc[p] \in {"marked", "gate"} /\ Incomplete = {}
        /\ cur[p] \in Tx /\ (\A t \in final : t < cur[p])
    BY DecidedWhole DEF Undecided, NodeInv
  <1> PICK c \in Tx : c = cur[p]
    BY <1>1
  <1>2. Open = {c} /\ Open' = {}
    BY <1>1, OpenHere
  <1>3. View = [x \in Gated |-> before[c][x]] /\ View' = [x \in Gated |-> live[x]]
    BY <1>2 DEF View, Seen
  <1>4. final \subseteq Nat /\ Tx \subseteq 1..MaxTx /\ MaxTx \in Nat
    BY BoundAssumption DEF NodeInv, IInv, TypeOK, Tx
  <1>5. Max(final' \cup {0}) = c
    <2>0. c \in Nat /\ final' = final \cup {c} /\ (\A t \in final : t < c)
      <3>1. c \in Nat
        BY <1>4
      <3>2. final' = final \cup {c}
        OBVIOUS
      <3>3. \A t \in final : t < c
        BY <1>1
      <3> QED  BY <3>1, <3>2, <3>3
    <2>1. final' \cup {0} \in SUBSET Nat /\ c \in final' \cup {0}
      <3>1. \A t \in final' \cup {0} : t \in Nat
        BY <1>4, <2>0
      <3>2. c \in final' \cup {0}
        BY <2>0
      <3> QED  BY <3>1, <3>2
    <2>2. \A s \in final' \cup {0} : s <= c
      BY <1>4, <2>0
    <2> QED  BY <2>1, <2>2, MaxIs
  <1>6. c > Max(final \cup {0})
    <2>1. PICK m \in final \cup {0} : \A t \in final : t <= m
      BY DEF NodeInv, ViewInv
    <2>2. Max(final \cup {0}) = m
      <3>1. final \cup {0} \in SUBSET Nat /\ \A s \in final \cup {0} : s <= m
        BY <1>4, <2>1
      <3> QED  BY <3>1, MaxIs
    <2> QED  BY <1>1, <1>4, <2>1, <2>2
  <1>7. \A x \in Gated : live[x] \in {before[c][x], Replaced(c, x)}
    BY <1>1 DEF NodeInv, ViewInv, Place
  <1>9. Abstract!Commit(c)
    BY <1>3, <1>5, <1>6, <1>7 DEF Abstract!Commit, Replaced
  <1> QED  BY <1>4, <1>9 DEF Abstract!Next

LEMMA SeenEnd ==
  ASSUME NodeInv, NodeInv', NEW p \in Cli, Commit(p) \/ Abort(p)
  PROVE  (View' = View /\ final' = final) \/ Abstract!Next
  <1> p \in Procs
    BY DEF Procs
  <1> USE DEF journal, budget, history
  <1>0. TypeOK
    BY DEF NodeInv, IInv
  <1> PICK c : c = cur[p]
    OBVIOUS
  <1>1. CASE CommitMark(p)
    <2>1. pc'[p] = "marked" /\ Alone(p) /\ pc[p] = "mutate" /\ UNCHANGED <<cur, before, final>>
      BY <1>0, <1>1, GotoAlone DEF CommitMark
    <2>2. Open = {c} /\ Open' = {c}
      BY <2>1, OpenHere, OwnIncomplete DEF Begun
    <2> QED  BY <2>1, <2>2 DEF View, Seen
  <1>2. CASE CommitDisarm(p)
    <2>1. pc'[p] = "prune" /\ Alone(p) /\ pc[p] = "marked" /\ UNCHANGED live
          /\ final' = final \cup {cur[p]}
      BY <1>0, <1>2, GotoEffect DEF CommitDisarm, Alone, TypeOK
    <2>2. Incomplete' = Incomplete
      BY <1>2 DEF CommitDisarm, Incomplete, Listed
    <2> QED  BY <2>1, <2>2, SeenCommit DEF Undecided
  <1>3. CASE Abort(p)
    <2>1. pc'[p] = "gate" /\ Alone(p) /\ pc[p] \in Begun \cup {"marked"}
          /\ UNCHANGED <<cur, before, final>>
      BY <1>0, <1>3, GotoAlone DEF Abort, Begun
    <2>2. Open = {c} /\ Open' = {c}
      BY <2>1, OpenHere, OwnIncomplete DEF Begun
    <2> QED  BY <2>1, <2>2 DEF View, Seen
  <1> QED  BY <1>1, <1>2, <1>3 DEF Commit

LEMMA SeenCrash ==
  ASSUME "prune" \notin CrashAt, NodeInv, NodeInv', NEW p \in Procs, Crash(p)
  PROVE  (View' = View /\ final' = final) \/ Abstract!Next
  <1> USE DEF journal, history
  <1>1. /\ Exit(p) /\ pc[p] \notin {"prune", "idle"}
        /\ UNCHANGED <<dirs, plan, result, live, before>>
    BY DEF Crash
  <1>2. Incomplete' = Incomplete
    BY <1>1 DEF Incomplete, Listed
  <1>3. Alone(p) /\ pc'[p] = "idle"
    BY <1>1, ExitAlone DEF NodeInv, IInv
  <1>4. CASE pc[p] \in {"marked", "gate"} /\ result[cur[p]] = "committed"
    <2>1. p \in Cli
      BY <1>4 DEF NodeInv, AgentApart, Procs
    <2>2. final' = final \cup {cur[p]}
      BY <1>4 DEF Crash
    <2> QED  BY <1>1, <1>2, <1>3, <1>4, <2>1, <2>2, SeenCommit DEF Undecided
  <1>5. CASE pc[p] = "gate" /\ result[cur[p]] # "committed"
    <2> PICK c : c = cur[p]
      OBVIOUS
    <2>1. Incomplete = {c}
      BY <1>5 DEF NodeInv, ViewInv, Place, IInv, Phase, Mine
    <2>2. Open = {c} /\ Open' = {c}
      BY <1>2, <1>3, <1>5, <2>1, OpenHere
    <2>3. final' = final
      BY <1>5 DEF Crash
    <2> QED  BY <1>1, <2>2, <2>3 DEF View, Seen
  <1>6. CASE pc[p] \notin {"marked", "gate"}
    <2>1. final' = final
      BY <1>6 DEF Crash
    <2> QED  BY <1>1, <1>2, <1>3, <1>6, <2>1, OpenElsewhere
  <1>7. pc[p] = "marked" => result[cur[p]] = "committed"
    BY DEF NodeInv, FinalInv
  <1> QED  BY <1>4, <1>5, <1>6, <1>7

LEMMA SeenAgent ==
  ASSUME NodeInv, NodeInv', AgentStep
  PROVE  (View' = View /\ final' = final) \/ Abstract!Next
  <1> Agent \in Procs /\ "db" \in Parts
    BY PartAssumption DEF Procs
  <1> USE DEF journal, budget, history
  <1>0. TypeOK /\ live \in [Parts -> File]
    BY DEF NodeInv, IInv, TypeOK
  <1>1. Incomplete' = Incomplete /\ UNCHANGED <<before, final>>
    BY DEF AgentStep, AgentLock, AgentFence, AgentWrite, Incomplete, Listed
  <1>2. CASE AgentLock \/ AgentFence
    <2>1. Alone(Agent) /\ pc'[Agent] \in {"fence", "write", "idle"} /\ pc[Agent] \in {"idle", "fence"}
      <3>1. CASE Exit(Agent)
        BY <1>0, <1>2, <3>1, ExitAlone DEF AgentLock, AgentFence
      <3>2. CASE ~Exit(Agent)
        BY <1>0, <1>2, <3>2, GotoAlone DEF AgentLock, AgentFence, TryLock
      <3> QED  BY <3>1, <3>2
    <2>2. live' = live
      BY <1>2 DEF AgentLock, AgentFence
    <2> QED  BY <1>1, <2>1, <2>2, OpenElsewhere
  <1>3. CASE AgentWrite
    <2>1. Alone(Agent) /\ pc'[Agent] = "idle" /\ pc[Agent] = "write"
      BY <1>0, <1>3, ExitAlone DEF AgentWrite
    <2>2. Incomplete = {}
      BY <2>1 DEF NodeInv, IInv, Phase, Clear
    <2>3. Open = {} /\ Open' = {}
      BY <1>1, <2>1, <2>2, OpenHere
    <2>4. View = [x \in Gated |-> live[x]] /\ View' = [x \in Gated |-> live'[x]]
      BY <2>3 DEF View, Seen
    <2>5. live["db"].agent = agentDone
      BY <2>2, DataWhole DEF NodeInv, DataInv, AgentWritesSurvive
    <2>6. live' = [live EXCEPT !["db"].agent = @ + 1]
      BY <1>0, <1>3, <2>5 DEF AgentWrite
    <2>7. View' = [View EXCEPT !["db"].agent = @ + 1]
      <3>1. "db" \in Gated /\ Gated \subseteq Parts
        BY DEF Gated
      <3> QED  BY <1>0, <2>4, <2>6, <3>1
    <2>8. Abstract!AgentWrite
      BY <1>1, <2>7 DEF Abstract!AgentWrite
    <2> QED  BY <2>8 DEF Abstract!Next
  <1> QED  BY <1>2, <1>3 DEF AgentStep

LEMMA SeenNext ==
  ASSUME "prune" \notin CrashAt, MaxOverride = 0, NodeInv, NodeInv', [Next]_vars
  PROVE  (View' = View /\ final' = final) \/ Abstract!Next
  <1>1. ASSUME NEW p \in Cli, Command(p) PROVE (View' = View /\ final' = final) \/ Abstract!Next
    <2>1. ~Override(p)
      <3>1. overrides = 0 /\ p \in Procs
        BY BoundAssumption DEF NodeInv, IInv, TypeOK, Procs
      <3> QED  BY <3>1 DEF Override, OverrideDir, OverrideApply, NodeInv, NoOverriding
    <2> QED  BY <1>1, <2>1, SeenBegin, SeenWork, SeenEnd, SeenRollback, SeenRecover, SeenPrune DEF Command
  <1>2. CASE \E p \in Procs : Crash(p)
    BY <1>2, SeenCrash
  <1>3. CASE UNCHANGED vars
    BY <1>3 DEF vars, journal, budget, history, View, Seen, Open, Pruned, Incomplete, Listed
  <1> QED  BY <1>1, <1>2, <1>3, SeenAgent DEF Next

LEMMA SeenInit == Init => Abstract!Init
  <1> SUFFICES ASSUME Init PROVE Abstract!Init
    OBVIOUS
  <1>1. Open = {}
    <2>1. Incomplete = {}
      BY DEF Init, Incomplete, Listed
    <2>2. \A q \in Cli : pc[q] = "idle"
      BY DEF Init, Procs
    <2>3. Pruned = {}
      BY <2>2 DEF Pruned
    <2> QED  BY <2>1, <2>2, <2>3 DEF Open
  <1>2. View = [x \in Gated |-> live[x]]
    BY <1>1, ViewOf
  <1>3. Max(final \cup {0}) = 0
    <2>1. final \cup {0} \in SUBSET Nat /\ 0 \in final \cup {0} /\ \A s \in final \cup {0} : s <= 0
      BY DEF Init
    <2> QED  BY <2>1, MaxIs
  <1>4. View \in [Gated -> {f \in Abstract!File : f.state \in {"ok", "none"} /\ f.cli = 0 /\ f.agent = 0}]
    BY <1>2, BoundAssumption DEF Init, None, Blank, Abstract!File, Gated
  <1> QED  BY <1>3, <1>4 DEF Abstract!Init

\* Commands are all-or-nothing on the template, the desired state and the database
\* and commit in the order they began, and the Agent's accounts are never undone,
\* across aborts, kills, recoveries and copies cut short; if no kill falls into
\* prune(), nobody overrides, and the role has a database to look at.
THEOREM Atomic ==
  ASSUME "prune" \notin CrashAt, MaxOverride = 0, Role # "standalone"
  PROVE  Spec => ImplementsAtomicNode
  <1>1. Init => NodeInv
    <2> SUFFICES ASSUME Init PROVE NodeInv
      OBVIOUS
    <2>1. FinalInv
      BY DEF Init, FinalInv, Held, Incomplete, Listed
    <2>2. AgentApart /\ NoOverriding
      BY DEF Init, AgentApart, NoOverriding, Procs
    <2> QED  BY <2>1, <2>2, InvInit, DataInit, RestInit, ViewInit DEF NodeInv
  <1>2. NodeInv /\ [Next]_vars => NodeInv'
    <2> SUFFICES ASSUME NodeInv, [Next]_vars PROVE NodeInv'
      OBVIOUS
    <2>1. IInv'
      BY InvNext DEF NodeInv
    <2>2. AgentApart' /\ NoOverriding'
      BY AgentApartNext, NoOverridingNext DEF NodeInv, IInv
    <2>3. FinalInv' /\ DataInv' /\ RestInv'
      BY <2>1, FinalNext, DataNext, RestNext DEF NodeInv
    <2>4. ViewInv'
      BY <2>1, ViewNext DEF NodeInv
    <2> QED  BY <2>1, <2>2, <2>3, <2>4 DEF NodeInv
  <1>3. NodeInv /\ NodeInv' /\ [Next]_vars => [Abstract!Next]_<<View, Max(final \cup {0})>>
    BY SeenNext
  <1> QED  BY <1>1, <1>2, <1>3, SeenInit, PTL DEF Spec, ImplementsAtomicNode, Abstract!Spec
=============================================================================
