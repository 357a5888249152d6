-------------------------- MODULE NodeTransaction --------------------------
(* The mutation journal of one WaveMesh node: the `wavemesh` CLI commands     *)
(* (scripts/lib/transaction.sh with transaction_state.py), `transaction       *)
(* recover`, the unjournalled `auto override`, and the Agent's access         *)
(* executor, which all exclude one another with one flock and share the live  *)
(* node state: the Xray template, the desired state in config.json, the nginx *)
(* include, the subscription tree and the 3X-UI database.                     *)
(*                                                                            *)
(* A process may be killed between any two of its steps (Crash); the kernel   *)
(* then drops its lock and nothing else is undone.  A command that fails or   *)
(* is signalled (Abort) runs the EXIT trap instead.                           *)
EXTENDS Naturals, FiniteSets, FiniteSetsExt

CONSTANTS
    Cli,          \* command-line processes
    Agent,        \* the Agent's access executor
    NoProc,       \* nobody holds the lock
    Parts,        \* the parts of the node a transaction covers
    Role,         \* NODE_ROLE: "entry", "exit" or "standalone"
    Backend,      \* subscription backend: "generated" or "xui-native"
    AbsentParts,  \* parts that do not exist on a fresh node
    Keep,         \* WM_TRANSACTION_KEEP
    CrashAt,      \* program points at which a kill is explored
    AbortAt,      \* program points at which a failure or signal is explored
    FaultyCopy,   \* parts whose unchecked copy may fail (a full disk)
    MaxTx,        \* bound: transaction directories ever created
    MaxAgent,     \* bound: access mutations by the Agent
    MaxCrash,     \* bound: kills
    MaxFault,     \* bound: restore steps that fail
    MaxOverride   \* bound: `auto override` commands

Procs == Cli \cup {Agent}
Tx == 1..MaxTx

ASSUME ProcAssumption == Agent \notin Cli /\ NoProc \notin Procs
ASSUME PartAssumption ==
    /\ Parts \subseteq {"xray", "config", "nginx", "subs", "db"}
    /\ {"config", "db"} \subseteq Parts
    /\ AbsentParts \subseteq Parts \cap {"nginx", "subs"}
    /\ FaultyCopy \subseteq Parts \cap {"config", "nginx", "subs"}
    /\ Role \in {"entry", "exit", "standalone"}
    /\ Backend \in {"generated", "xui-native"}
ASSUME BoundAssumption ==
    /\ Keep \in Nat /\ MaxTx \in Nat /\ MaxAgent \in Nat
    /\ MaxCrash \in Nat /\ MaxFault \in Nat /\ MaxOverride \in Nat

\* A file or tree: who wrote it last, and, in the database, how many access
\* mutations of the Agent it contains.
FileState == {"ok", "torn", "none", "absent"}
File == [state: FileState, cli: 0..MaxTx, agent: 0..MaxAgent]
Blank(s) == [state |-> s, cli |-> 0, agent |-> 0]
None == Blank("none")        \* never created, or deleted
Torn == Blank("torn")        \* partly written
Absent == Blank("absent")    \* the `.absent` marker of a snapshot
Written(f, t) == [f EXCEPT !.state = "ok", !.cli = t]    \* replaced by command t

Active == {"none", "in_progress", "recovering", "rollback_failed"}
Terminal == {"committed", "rolled_back"}

VARIABLES
    lock,       \* holder of /run/lock/wavemesh-node.lock
    pc,         \* where each process is
    cur,        \* its transaction directory (0: none)
    at,         \* parts it has still to snapshot or restore
    failed,     \* the `failed` flag of its rollback
    operator,   \* TRUE: it runs `transaction recover`
    dirs,       \* transaction directories that exist
    plan,       \* those that hold plan.json
    result,     \* status in result.json ("none": no such file)
    snap,       \* the *.before files of each transaction
    live,       \* the live node
    nextTx,     \* the next directory name (names sort by time)
    crashes, faults, overrides,
    before,     \* history: the live node when the transaction began
    final,      \* history: transactions whose command has committed
    agentDone   \* history: access mutations the Agent has made

journal == <<dirs, plan, result, snap>>
budget == <<nextTx, crashes, faults, overrides>>
history == <<before, final, agentDone>>
vars == <<lock, pc, cur, at, failed, operator, journal, live, budget, history>>

-----------------------------------------------------------------------------
\* What the tools read from the journal.

\* records() skips a directory without plan.json and reads a missing or
\* unreadable result.json as in_progress.
Listed == dirs \cap plan
Incomplete == {t \in Listed : result[t] \in Active}

\* assert_no_pending_node_transaction: what the Agent accepts.
FenceAfterFailure ==    \* mutant: a failed rollback counts as an end
    \A t \in dirs : t \in plan /\ result[t] \in Terminal \cup {"rollback_failed"}
Fence == \A t \in dirs : t \in plan /\ result[t] \in Terminal

\* The terminal transactions prune() removes: all but the Keep newest.
Prunable ==
    LET terminal == {t \in Listed : result[t] \in Terminal}
    IN  {t \in terminal : Cardinality({u \in terminal : u > t}) >= Keep}

\* wm_transaction_snapshot and wm_transaction_rollback visit the parts in
\* these orders.
SnapRank == [p \in {"xray", "config", "nginx", "subs", "db"} |->
    CASE p = "xray" -> 1 [] p = "config" -> 2 [] p = "nginx" -> 3
      [] p = "subs" -> 4 [] p = "db" -> 5]
RestoreRank == [p \in {"xray", "config", "nginx", "subs", "db"} |->
    CASE p = "config" -> 1 [] p = "db" -> 2 [] p = "xray" -> 3
      [] p = "nginx" -> 4 [] p = "subs" -> 5]
FirstOf(rank, S, x) == x \in S /\ \A y \in S : rank[x] <= rank[y]

\* wm_transaction_assert_xray_recovery: is rolling t back allowed at all?
\* Exit commands name their role in plan.json; otherwise it is read from the
\* saved configuration.
RecoveryGate(t) ==
    LET s == snap[t]
        xray == "xray" \in Parts /\ s["xray"].state # "none"
        db == s["db"].state # "none"
        known == Role = "exit" \/ s["config"].state = "ok"
    IN  /\ s["config"].state # "torn"
        /\ db => known
        /\ xray => s["xray"].state # "torn"
        /\ Role = "exit" => xray
        /\ (xray \/ (known /\ Role # "standalone")) => s["db"].state # "torn"
-----------------------------------------------------------------------------
Init ==
    /\ lock = NoProc
    /\ pc = [p \in Procs |-> "idle"]
    /\ cur = [p \in Procs |-> 0]
    /\ at = [p \in Procs |-> {}]
    /\ failed = [p \in Procs |-> FALSE]
    /\ operator = [p \in Procs |-> FALSE]
    /\ dirs = {} /\ plan = {}
    /\ result = [t \in Tx |-> "none"]
    /\ snap = [t \in Tx |-> [x \in Parts |-> None]]
    /\ live = [x \in Parts |-> IF x \in AbsentParts THEN None ELSE Blank("ok")]
    /\ nextTx = 1 /\ crashes = 0 /\ faults = 0 /\ overrides = 0
    /\ before = [t \in Tx |-> [x \in Parts |-> None]]
    /\ final = {} /\ agentDone = 0

Goto(p, l) == pc' = [pc EXCEPT ![p] = l]

\* The process ends: the kernel closes its descriptors and frees its lock.
Exit(p) ==
    /\ pc' = [pc EXCEPT ![p] = "idle"]
    /\ cur' = [cur EXCEPT ![p] = 0]
    /\ at' = [at EXCEPT ![p] = {}]
    /\ failed' = [failed EXCEPT ![p] = FALSE]
    /\ operator' = [operator EXCEPT ![p] = FALSE]
    /\ lock' = IF lock = p THEN NoProc ELSE lock

\* flock -n: a process that finds the lock taken fails at once.
TryLockAlways(p, l) == lock' = p /\ Goto(p, l)    \* mutant: nobody looks
TryLock(p, l) ==
    /\ lock = NoProc
    /\ lock' = p
    /\ Goto(p, l)

-----------------------------------------------------------------------------
\* A mutating command: lock, refuse over an incomplete transaction, open the
\* directory, write plan.json then result.json, arm the traps.

LockMutation(p) ==
    /\ pc[p] = "idle" /\ nextTx <= MaxTx
    /\ TryLock(p, "locked")
    /\ UNCHANGED <<cur, at, failed, operator, journal, live, budget, history>>

Refuse(p) ==
    /\ pc[p] = "locked" /\ Incomplete # {}
    /\ Exit(p)
    /\ UNCHANGED <<journal, live, budget, history>>

BeginDirOverIncomplete(p) ==    \* mutant: no incomplete() check
    /\ pc[p] = "locked" /\ nextTx <= MaxTx
    /\ Goto(p, "plan")
    /\ cur' = [cur EXCEPT ![p] = nextTx]
    /\ dirs' = dirs \cup {nextTx}
    /\ nextTx' = nextTx + 1
    /\ before' = [before EXCEPT ![nextTx] = live]
    /\ UNCHANGED <<lock, at, failed, operator, plan, result, snap, live,
                   crashes, faults, overrides, final, agentDone>>

BeginDir(p) ==
    /\ pc[p] = "locked" /\ Incomplete = {} /\ nextTx <= MaxTx
    /\ Goto(p, "plan")
    /\ cur' = [cur EXCEPT ![p] = nextTx]
    /\ dirs' = dirs \cup {nextTx}
    /\ nextTx' = nextTx + 1
    /\ before' = [before EXCEPT ![nextTx] = live]
    /\ UNCHANGED <<lock, at, failed, operator, plan, result, snap, live,
                   crashes, faults, overrides, final, agentDone>>

BeginPlan(p) ==
    /\ pc[p] = "plan"
    /\ Goto(p, "result")
    /\ plan' = plan \cup {cur[p]}
    /\ UNCHANGED <<lock, cur, at, failed, operator, dirs, result, snap, live, budget, history>>

BeginResultAs(p, status, parts) ==
    /\ pc[p] = "result"
    /\ Goto(p, "snap")
    /\ result' = [result EXCEPT ![cur[p]] = status]
    /\ at' = [at EXCEPT ![p] = parts]
    /\ UNCHANGED <<lock, cur, failed, operator, dirs, plan, snap, live, budget, history>>
BeginResultStarted(p) == BeginResultAs(p, "started", Parts)    \* mutant: a status nobody knows

BeginResult(p) ==
    /\ pc[p] = "result"
    /\ Goto(p, "snap")
    /\ result' = [result EXCEPT ![cur[p]] = "in_progress"]
    /\ at' = [at EXCEPT ![p] = Parts]
    /\ UNCHANGED <<lock, cur, failed, operator, dirs, plan, snap, live, budget, history>>

\* Each copy creates its target first and fills it afterwards.  A part that
\* does not exist leaves an `.absent` marker.
SnapOpen(p) ==
    /\ pc[p] = "snap"
    /\ \E x \in at[p] :
        /\ FirstOf(SnapRank, at[p], x)
        /\ snap' = [snap EXCEPT ![cur[p]][x] =
                        IF live[x].state = "none" THEN Absent ELSE Torn]
    /\ Goto(p, "copy")
    /\ UNCHANGED <<lock, cur, at, failed, operator, dirs, plan, result, live, budget, history>>

SnapClose(p) ==
    /\ pc[p] = "copy"
    /\ \E x \in at[p] :
        /\ FirstOf(SnapRank, at[p], x)
        /\ at' = [at EXCEPT ![p] = @ \ {x}]
        /\ \/ snap' = [snap EXCEPT ![cur[p]][x] =
                           IF @.state = "absent" THEN Absent ELSE live[x]]
           \/ x \in FaultyCopy /\ UNCHANGED snap      \* cp failed, unnoticed
        /\ Goto(p, IF at[p] = {x} THEN "mutate" ELSE "snap")
    /\ UNCHANGED <<lock, cur, failed, operator, dirs, plan, result, live, budget, history>>

\* The command body changes the live parts it needs, in any order, while it
\* leaves the Agent's accounts in the database alone.  Only a generated
\* backend rewrites the subscription tree.
Mutate(p) ==
    /\ pc[p] = "mutate"
    /\ \E x \in Parts \ {"subs"} :
        live' = [live EXCEPT ![x] = Written(@, cur[p])]
    /\ UNCHANGED <<lock, pc, cur, at, failed, operator, journal, budget, history>>

\* wm_subscription_install_files copies the live tree over the snapshot again
\* before it replaces it.
InstallSubsOpen(p) ==
    /\ pc[p] = "mutate" /\ Backend = "generated" /\ "subs" \in Parts
    /\ live["subs"] = before[cur[p]]["subs"]
    /\ Goto(p, "recopy")
    /\ snap' = [snap EXCEPT ![cur[p]]["subs"] =
                    IF @.state = "absent" THEN @ ELSE Torn]
    /\ UNCHANGED <<lock, cur, at, failed, operator, dirs, plan, result, live, budget, history>>

InstallSubsClose(p) ==
    /\ pc[p] = "recopy"
    /\ Goto(p, "mutate")
    /\ snap' = IF snap[cur[p]]["subs"].state = "absent" THEN snap
               ELSE [snap EXCEPT ![cur[p]]["subs"] = live["subs"]]
    /\ live' = [live EXCEPT !["subs"] = Written(@, cur[p])]
    /\ UNCHANGED <<lock, cur, at, failed, operator, dirs, plan, result, budget, history>>

\* Route and Exit commands read the template into xray.before.json once more.
ResnapXrayOpen(p) ==
    /\ pc[p] = "mutate" /\ Role = "entry" /\ "xray" \in Parts
    /\ live["xray"] = before[cur[p]]["xray"]
    /\ Goto(p, "resnap")
    /\ snap' = [snap EXCEPT ![cur[p]]["xray"] = Torn]
    /\ UNCHANGED <<lock, cur, at, failed, operator, dirs, plan, result, live, budget, history>>

ResnapXrayClose(p) ==
    /\ pc[p] = "resnap"
    /\ Goto(p, "mutate")
    /\ snap' = [snap EXCEPT ![cur[p]]["xray"] = live["xray"]]
    /\ UNCHANGED <<lock, cur, at, failed, operator, dirs, plan, result, live, budget, history>>

\* wm_transaction_commit marks the result, and only then disarms the traps.
CommitMark(p) ==
    /\ pc[p] = "mutate"
    /\ Goto(p, "marked")
    /\ result' = [result EXCEPT ![cur[p]] = "committed"]
    /\ UNCHANGED <<lock, cur, at, failed, operator, dirs, plan, snap, live, budget, history>>

CommitDisarm(p) ==
    /\ pc[p] = "marked"
    /\ Goto(p, "prune")
    /\ cur' = [cur EXCEPT ![p] = 0]
    /\ final' = final \cup {cur[p]}
    /\ UNCHANGED <<lock, at, failed, operator, journal, live, budget, before, agentDone>>

\* A step of the command fails, or a signal arrives: the EXIT trap rolls back.
Abort(p) ==
    /\ pc[p] \in AbortAt \cap {"snap", "copy", "mutate", "recopy", "resnap", "marked"}
    /\ Goto(p, "gate")
    /\ UNCHANGED <<lock, cur, at, failed, operator, journal, live, budget, history>>
-----------------------------------------------------------------------------
\* wm_transaction_rollback.

GateRefuse(p) ==
    /\ pc[p] = "gate" /\ ~RecoveryGate(cur[p])
    /\ result' = [result EXCEPT ![cur[p]] = "rollback_failed"]
    /\ Exit(p)
    /\ UNCHANGED <<dirs, plan, snap, live, budget, history>>

GatePassWithoutDb(p) ==    \* mutant: the database is not restored
    /\ pc[p] = "gate" /\ RecoveryGate(cur[p])
    /\ result' = [result EXCEPT ![cur[p]] = "recovering"]
    /\ at' = [at EXCEPT ![p] = Parts \ {"db"}]
    /\ Goto(p, "restore")
    /\ UNCHANGED <<lock, cur, failed, operator, dirs, plan, snap, live, budget, history>>

GatePass(p) ==
    /\ pc[p] = "gate" /\ RecoveryGate(cur[p])
    /\ result' = [result EXCEPT ![cur[p]] = "recovering"]
    /\ at' = [at EXCEPT ![p] = Parts]
    /\ Goto(p, "restore")
    /\ UNCHANGED <<lock, cur, failed, operator, dirs, plan, snap, live, budget, history>>

\* What a step that restores part x of t may leave behind when it succeeds, and
\* when it fails.  JSON files are parsed before they are installed atomically;
\* nginx and the database are installed as they are, the database only if its
\* path was saved too; the subscription tree is removed first.
Restored(t, x) ==
    {f \in {None, Torn, snap[t][x], live[x]} :
        LET s == snap[t][x].state
        IN  \/ s = "absent" /\ f = None
            \/ s = "ok" /\ f = snap[t][x]
            \/ s = "none" /\ x # "subs" /\ f = live[x]
            \/ s = "torn" /\ x \notin {"xray", "config"} /\ f = Torn
            \/ s = "torn" /\ x = "db" /\ f = live[x]}
NotRestored(t, x) ==
    {f \in {None, Torn, live[x]} :
        LET s == snap[t][x].state
        IN  \/ s = "none" /\ x = "subs" /\ f = None
            \/ s = "torn" /\ x \in {"xray", "config"} /\ f = live[x]
            \/ s = "torn" /\ x \in {"nginx", "db"} /\ f = Torn}

RestoreRemoveSubs(p) ==
    /\ pc[p] = "restore" /\ at[p] = {"subs"} /\ live["subs"].state # "none"
    /\ live' = [live EXCEPT !["subs"] = None]
    /\ UNCHANGED <<lock, pc, cur, at, failed, operator, journal, budget, history>>

RestorePart(p) ==
    /\ pc[p] = "restore"
    /\ \E x \in at[p] :
        /\ FirstOf(RestoreRank, at[p], x)
        /\ x = "subs" => live["subs"].state = "none"
        /\ \/ /\ \E f \in Restored(cur[p], x) : live' = [live EXCEPT ![x] = f]
              /\ UNCHANGED failed
           \/ /\ \E f \in NotRestored(cur[p], x) : live' = [live EXCEPT ![x] = f]
              /\ failed' = [failed EXCEPT ![p] = TRUE]
        /\ at' = [at EXCEPT ![p] = @ \ {x}]
        /\ Goto(p, IF at[p] = {x} THEN "check" ELSE "restore")
    /\ UNCHANGED <<lock, cur, operator, journal, budget, history>>

\* A restore step fails in its environment: 3X-UI does not come up, the panel
\* refuses the template, the disk is full.
RestoreFault(p) ==
    /\ pc[p] = "restore" /\ faults < MaxFault
    /\ faults' = faults + 1
    /\ \E x \in at[p] :
        /\ FirstOf(RestoreRank, at[p], x)
        /\ x = "subs" => live["subs"].state = "none"
        /\ x = "subs" \/ snap[cur[p]][x].state \in {"ok", "torn"}
        /\ live' = IF x \in {"db", "nginx", "subs"} THEN [live EXCEPT ![x] = Torn] ELSE live
        /\ at' = [at EXCEPT ![p] = @ \ {x}]
        /\ Goto(p, IF at[p] = {x} THEN "check" ELSE "restore")
    /\ failed' = [failed EXCEPT ![p] = TRUE]
    /\ UNCHANGED <<lock, cur, operator, journal, nextTx, crashes, overrides, history>>

\* wm_transaction_post_rollback_check: a native backend is validated through
\* 3X-UI alone; a generated one compares what is served with the files on
\* disk, so a truncated file may pass and a lost one does not.
PostCheck ==
    LET service == \A x \in Parts \ {"subs"} : live[x].state # "torn"
        tree == IF Backend = "xui-native" \/ "subs" \notin Parts THEN "ok"
                ELSE live["subs"].state
    IN  CASE tree = "none" -> {FALSE}
          [] service /\ tree = "ok" -> {TRUE}
          [] OTHER -> BOOLEAN

\* A successful `transaction recover` goes on to prune; every other outcome of a
\* rollback ends the process.
FinishRollbackAnyway(p) ==    \* mutant: the failed flag is forgotten
    /\ pc[p] = "check"
    /\ \E ok \in PostCheck :
        result' = [result EXCEPT ![cur[p]] = IF ok THEN "rolled_back" ELSE "rollback_failed"]
    /\ Exit(p)
    /\ UNCHANGED <<dirs, plan, snap, live, budget, history>>

FinishRollback(p) ==
    /\ pc[p] = "check"
    /\ \E ok \in PostCheck :
        LET done == ok /\ ~failed[p]
        IN  /\ result' = [result EXCEPT ![cur[p]] =
                              IF done THEN "rolled_back" ELSE "rollback_failed"]
            /\ IF done /\ operator[p]
               THEN /\ Goto(p, "prune")
                    /\ cur' = [cur EXCEPT ![p] = 0]
                    /\ UNCHANGED <<lock, at, failed, operator>>
               ELSE Exit(p)
    /\ UNCHANGED <<dirs, plan, snap, live, budget, history>>

\* `transaction recover --latest|--id`: the transaction is chosen before the
\* lock is taken and looked at again under it.
RecoverChoose(p) ==
    /\ pc[p] = "idle" /\ p \in Cli
    /\ \E t \in Incomplete : cur' = [cur EXCEPT ![p] = t]
    /\ operator' = [operator EXCEPT ![p] = TRUE]
    /\ Goto(p, "chosen")
    /\ UNCHANGED <<lock, at, failed, journal, live, budget, history>>

RecoverLock(p) ==
    /\ pc[p] = "chosen"
    /\ TryLock(p, "resolve")
    /\ UNCHANGED <<cur, at, failed, operator, journal, live, budget, history>>

RecoverBusy(p) ==
    /\ pc[p] = "chosen" /\ lock # NoProc
    /\ Exit(p)
    /\ UNCHANGED <<journal, live, budget, history>>

RecoverResolveInProgress(p) ==    \* mutant: a failed rollback is never retried
    /\ pc[p] = "resolve"
    /\ IF cur[p] \in Incomplete /\ result[cur[p]] # "rollback_failed"
       THEN Goto(p, "gate") /\ UNCHANGED <<lock, cur, at, failed, operator>>
       ELSE Exit(p)
    /\ UNCHANGED <<journal, live, budget, history>>

RecoverResolve(p) ==
    /\ pc[p] = "resolve"
    /\ IF cur[p] \in Incomplete
       THEN Goto(p, "gate") /\ UNCHANGED <<lock, cur, at, failed, operator>>
       ELSE Exit(p)
    /\ UNCHANGED <<journal, live, budget, history>>
-----------------------------------------------------------------------------
\* prune(): rmtree removes the files of a directory in no particular order.

PruneFile(p) ==
    /\ pc[p] = "prune" /\ cur[p] = 0
    /\ \E t \in Prunable, keepPlan, keepResult, keepSnap \in BOOLEAN :
        /\ cur' = [cur EXCEPT ![p] = t]
        /\ plan' = IF keepPlan THEN plan ELSE plan \ {t}
        /\ result' = IF keepResult THEN result ELSE [result EXCEPT ![t] = "none"]
        /\ snap' = IF keepSnap THEN snap
                   ELSE [snap EXCEPT ![t] = [x \in Parts |-> None]]
    /\ UNCHANGED <<lock, pc, at, failed, operator, dirs, live, budget, history>>

PruneResult(p) ==    \* mutant: result.json is removed and the directory kept
    /\ pc[p] = "prune" /\ cur[p] # 0
    /\ result' = [result EXCEPT ![cur[p]] = "none"]
    /\ cur' = [cur EXCEPT ![p] = 0]
    /\ UNCHANGED <<lock, pc, at, failed, operator, dirs, plan, snap, live, budget, history>>

PruneDir(p) ==
    /\ pc[p] = "prune" /\ cur[p] # 0
    /\ dirs' = dirs \ {cur[p]}
    /\ plan' = plan \ {cur[p]}
    /\ result' = [result EXCEPT ![cur[p]] = "none"]
    /\ snap' = [snap EXCEPT ![cur[p]] = [x \in Parts |-> None]]
    /\ cur' = [cur EXCEPT ![p] = 0]
    /\ UNCHANGED <<lock, pc, at, failed, operator, live, budget, history>>

PruneDone(p) ==
    /\ pc[p] = "prune" /\ cur[p] = 0 /\ Prunable = {}
    /\ Exit(p)
    /\ UNCHANGED <<journal, live, budget, history>>
-----------------------------------------------------------------------------
\* `cascade auto override` takes the lock but opens no transaction: the Xray
\* helper then makes a directory of its own, without plan.json.

OverrideDir(p) ==
    /\ pc[p] = "locked" /\ overrides < MaxOverride /\ nextTx <= MaxTx
    /\ Role = "entry" /\ "xray" \in Parts
    /\ overrides' = overrides + 1
    /\ Goto(p, "override")
    /\ cur' = [cur EXCEPT ![p] = nextTx]
    /\ dirs' = dirs \cup {nextTx}
    /\ nextTx' = nextTx + 1
    /\ UNCHANGED <<lock, at, failed, operator, plan, result, snap, live, crashes, faults, history>>

OverrideApply(p) ==
    /\ pc[p] = "override"
    /\ live' = [live EXCEPT !["xray"] = Written(@, cur[p])]
    /\ Exit(p)
    /\ UNCHANGED <<journal, budget, history>>

\* access_runtime.py: lock, look at every transaction directory, write the
\* database through the panel, release.
AgentLock ==
    /\ pc[Agent] = "idle" /\ agentDone < MaxAgent
    /\ TryLock(Agent, "fence")
    /\ UNCHANGED <<cur, at, failed, operator, journal, live, budget, history>>

AgentFence ==
    /\ pc[Agent] = "fence"
    /\ IF Fence THEN Goto(Agent, "write") /\ UNCHANGED <<lock, cur, at, failed, operator>>
                ELSE Exit(Agent)
    /\ UNCHANGED <<journal, live, budget, history>>

AgentWrite ==
    /\ pc[Agent] = "write" /\ agentDone < MaxAgent
    /\ live' = [live EXCEPT !["db"] = [@ EXCEPT !.agent = agentDone + 1]]
    /\ agentDone' = agentDone + 1
    /\ Exit(Agent)
    /\ UNCHANGED <<journal, budget, before, final>>

\* SIGKILL or a reboot.
Crash(p) ==
    /\ crashes < MaxCrash /\ pc[p] \in CrashAt /\ pc[p] # "idle"
    /\ crashes' = crashes + 1
    /\ final' = IF pc[p] \in {"marked", "gate"} /\ result[cur[p]] = "committed"
                THEN final \cup {cur[p]} ELSE final
    /\ Exit(p)
    /\ UNCHANGED <<journal, live, nextTx, faults, overrides, before, agentDone>>
-----------------------------------------------------------------------------
Begin(p) == Refuse(p) \/ BeginDir(p) \/ BeginPlan(p) \/ BeginResult(p)
Snapshot(p) == SnapOpen(p) \/ SnapClose(p)
Body(p) == \/ Mutate(p) \/ InstallSubsOpen(p) \/ InstallSubsClose(p)
           \/ ResnapXrayOpen(p) \/ ResnapXrayClose(p)
Commit(p) == CommitMark(p) \/ CommitDisarm(p)
Rollback(p) == \/ GateRefuse(p) \/ GatePass(p) \/ RestoreRemoveSubs(p)
               \/ RestorePart(p) \/ RestoreFault(p) \/ FinishRollback(p)
Recover(p) == RecoverBusy(p) \/ RecoverResolve(p)
Prune(p) == PruneFile(p) \/ PruneDir(p) \/ PruneDone(p)
Override(p) == OverrideDir(p) \/ OverrideApply(p)

Command(p) ==
    \/ LockMutation(p) \/ Begin(p) \/ Snapshot(p) \/ Body(p) \/ Commit(p)
    \/ Abort(p) \/ Rollback(p) \/ RecoverChoose(p) \/ RecoverLock(p)
    \/ Recover(p) \/ Prune(p) \/ Override(p)
AgentStep == AgentLock \/ AgentFence \/ AgentWrite

Next == (\E p \in Cli : Command(p)) \/ AgentStep \/ (\E p \in Procs : Crash(p))

Spec == Init /\ [][Next]_vars
-----------------------------------------------------------------------------
\* The points at which a process works on a transaction directory.
Owning == {"plan", "result", "snap", "copy", "mutate", "recopy", "resnap", "marked",
           "gate", "restore", "check", "chosen", "resolve", "override"}

TypeOK ==
    /\ lock \in Procs \cup {NoProc}
    /\ pc \in [Procs -> Owning \cup {"idle", "locked", "prune", "fence", "write"}]
    /\ cur \in [Procs -> 0..MaxTx]
    /\ \A p \in Procs : pc[p] \in Owning => cur[p] # 0
    /\ at \in [Procs -> SUBSET Parts]
    /\ failed \in [Procs -> BOOLEAN] /\ operator \in [Procs -> BOOLEAN]
    /\ dirs \subseteq Tx /\ plan \subseteq Tx
    /\ result \in [Tx -> Active \cup Terminal]
    /\ snap \in [Tx -> [Parts -> File]]
    /\ live \in [Parts -> File]
    /\ nextTx \in 1..(MaxTx + 1)
    /\ crashes \in 0..MaxCrash /\ faults \in 0..MaxFault /\ overrides \in 0..MaxOverride
    /\ before \in [Tx -> [Parts -> File]]
    /\ final \subseteq Tx /\ agentDone \in 0..MaxAgent

\* No two transactions are ever incomplete together, whatever is killed when:
\* transaction_state.begin refuses over one, and what prune() leaves half
\* removed is at most one more while nothing else is pending.
OneIncomplete == \A t, u \in Incomplete : t = u

\* README "blocks later mutations until transaction recover completes": while a
\* transaction is incomplete, only its own command or its recovery changes the
\* live node, and the Agent does not.
NoWriteOverInterrupted ==
    [][live' # live =>
         \A t \in Incomplete : \E p \in Cli : lock = p /\ cur[p] = t]_vars

\* A transaction that is marked rolled_back has left the node exactly as it was
\* when it began, if the copies it restored from were whole.
Whole(t) == \A x \in Parts : snap[t][x].state # "torn"
RolledBackRestores ==
    [][\A t \in Tx : /\ result[t] # "rolled_back" /\ result'[t] = "rolled_back"
                     /\ Whole(t)
                     => live = before[t]]_vars

\* Once a command has committed and let go of its traps, nothing rolls it back.
CommitIsFinal == [][\A t \in final : result'[t] # "recovering"]_vars

\* agent-node-mutation-lock.md: no snapshot/rollback overlaps an access
\* operation, so no access mutation of the Agent is ever lost from the database.
AgentWritesSurvive ==
    live["db"].state = "ok" => live["db"].agent = agentDone

\* README "leaves the transaction discoverable": whenever no process runs and
\* the Agent is fenced off, `transaction recover --latest` has one to offer.
\* `auto override` breaks it.
FencedIsDiscoverable == lock = NoProc /\ ~Fence => Incomplete # {}

\* README "A failed command rolls back automatically": with no kill and no
\* fault in the environment, no rollback fails.
FailedCommandRollsBack == \A t \in Tx : result[t] # "rollback_failed"
-----------------------------------------------------------------------------
\* The parts whose copies the gate of a rollback looks at: the other two are put
\* back as they were copied, cut short or not.
Gated == Parts \ {"nginx", "subs"}

\* AtomicNode is implemented by the gated parts, seen as they were before the one
\* transaction that is still open: journalled as incomplete, unless prune is
\* just removing it, or committed by a command whose trap can still roll it back.
Pruned == {cur[p] : p \in {q \in Cli : pc[q] = "prune"}}
Open == (Incomplete \ Pruned) \cup {cur[p] : p \in {q \in Cli : pc[q] \in {"marked", "gate"}}}
Seen == IF Open = {} THEN live ELSE before[CHOOSE t \in Open : TRUE]
View == [x \in Gated |-> Seen[x]]

Abstract == INSTANCE AtomicNode WITH Parts <- Gated, node <- View, last <- Max(final \cup {0})

\* Commands are all-or-nothing on the template, the desired state and the
\* database, across aborts, kills at any point of a command or a recovery, copies
\* that are cut short and failing restores.
ImplementsAtomicNode == Abstract!Spec

\* The scheduling assumed for liveness: a running process goes on, a started
\* rollback meets finitely many faults (MaxFault), and the operator follows the
\* runbook: `transaction recover` is run again, also at times when no command
\* holds the lock, until nothing is incomplete.
Running(p) ==
    \/ Begin(p) \/ Snapshot(p) \/ Commit(p) \/ InstallSubsClose(p) \/ ResnapXrayClose(p)
    \/ GateRefuse(p) \/ GatePass(p) \/ RestoreRemoveSubs(p) \/ RestorePart(p)
    \/ FinishRollback(p) \/ Recover(p) \/ Prune(p) \/ OverrideApply(p)
Fairness ==
    /\ \A p \in Cli : WF_vars(Running(p)) /\ SF_vars(lock = NoProc /\ RecoverChoose(p))
                       /\ SF_vars(RecoverLock(p))
    /\ WF_vars(AgentFence) /\ WF_vars(AgentWrite)
FairSpec == Spec /\ Fairness

\* A transaction that no recovery can end: a kill came before plan.json, so that
\* nothing lists it; before a copy that the gate asks for, or in the middle of one,
\* so that every rollback is refused; or before the copy of the subscription tree,
\* without which every rollback fails.  A copy cut short that the gate lets pass
\* may fail the check at the end each time.
Unending(t) ==
    \/ t \notin plan
    \/ ~RecoveryGate(t)
    \/ "subs" \in Parts /\ snap[t]["subs"].state = "none"
    \/ Backend = "generated" /\ "subs" \in Parts /\ snap[t]["subs"].state \in {"absent", "torn"}
    \/ \E x \in Parts \cap {"nginx", "db"} : snap[t][x].state = "torn"
Stuck == \E t \in dirs : result[t] \notin Terminal /\ Unending(t)

\* CASCADE_OPERATIONS.md "An interrupted transaction blocks later mutations ...
\* recover --latest": recovery ends and the Agent is let in again, over and over,
\* unless an interrupted command has left its journal in one of those states.
FenceReopens == []<>Fence \/ <>[]Stuck
=============================================================================
