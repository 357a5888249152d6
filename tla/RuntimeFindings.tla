--------------------------- MODULE RuntimeFindings ---------------------------
(* The Agent's runtime findings (agent/runtime_findings.py): a collector child *)
(* looks, under the node's mutation lock, for a client of the 3X-UI panel that *)
(* neither config.json nor the access inventory knows, and journals one report *)
(* on it; the Agent then delivers the report to the SaaS, over restarts, lost  *)
(* answers and a bounded number of attempts.  The command line creates and     *)
(* removes clients of its own meanwhile, and operators edit the panel by hand. *)
(*                                                                             *)
(* A revision is the place of its record in the journal.                       *)
EXTENDS Naturals, Sequences, FiniteSets, FiniteSetsExt

CONSTANTS
    Managed,       \* clients that commands of the node create
    Foreign,       \* clients that operators create in the panel
    NameEcho,      \* <<f, m>>: what config.json and the inventory hold of m (of the
                   \*   node itself: 0) happens to contain the name of f
    KeyEcho,       \*   or its identifier or subscription
    Cycle,         \* bound: the cursor counts modulo this multiple of the numbers of candidates
    MaxRecords,    \* records the journal holds (128 in the code)
    MaxAttempts,   \* deliveries tried of one report (8 in the code)
    Spare,         \* other files its directory may hold (32 in the code)
    MaxCommand,    \* bound: commands of the node
    MaxHand,       \* bound: edits in the panel and collectors run, by operators
    MaxFault,      \* bound: calls that fail
    MaxCrash       \* bound: processes killed

ASSUME ClientAssumption ==
    /\ Managed \cup Foreign \subseteq Nat /\ Managed \cap Foreign = {} /\ IsFiniteSet(Managed \cup Foreign)
    /\ NameEcho \cup KeyEcho \subseteq Foreign \X (Managed \cup {0})
ASSUME CycleAssumption == Cycle \in Nat \ {0} /\ \A k \in 1..Cardinality(Foreign) : Cycle % k = 0
ASSUME BoundAssumption ==
    /\ MaxRecords \in Nat /\ MaxAttempts \in Nat /\ Spare \in Nat
    /\ MaxCommand \in Nat /\ MaxHand \in Nat
    /\ MaxFault \in Nat /\ MaxCrash \in Nat

Client == Managed \cup Foreign
Proc == {"agent", "operator"}

\* What the panel holds of a client: nothing, a client that is disabled, not on a
\* public inbound or not well formed, one whose row the list of names is refused
\* for (a malformed name, the twin of another, one row too many), or one of two
\* public records.
Record == {"absent", "off", "odd", "A", "B"}
Public == {"A", "B"}

VARIABLES
    journal,     \* the records, in the order of their making
    cursor,      \* schedule.json: the round-robin cursor
    due,         \*   and whether scan_after has passed
    litter,      \* .pending-* files that killed writers have left
    outbox,      \* who holds the journal's own lock
    node,        \* who holds the node's mutation lock
    config,      \* managed clients that config.json names
    command,     \* the node's command: step and client
    panel,       \* what the panel holds of each client
    pc, seen,    \* of each process: where it is, and what it has observed
    server,      \* revisions the SaaS has received
    posts,       \* how often each was sent
    hand,        \* what operators have done
    used         \* used of the other bounds

durable == <<journal, cursor, due, litter>>
live == <<config, command, panel>>
process == <<pc, seen>>
central == <<server, posts>>
vars == <<durable, outbox, node, live, process, central, hand, used>>

\* A baseline: the client, its record, and what config.json and the panel named.
Nothing == [client |-> 0, record |-> "absent", names |-> {}, config |-> {}]
NoCommand == [step |-> "none", client |-> 0, adds |-> TRUE]
Names == {c \in Client : panel[c] # "absent"}
Malformed == \E c \in Client : panel[c] = "odd"

Init ==
    /\ journal = <<>> /\ cursor = 0 /\ due = TRUE /\ litter = 0
    /\ outbox = "free" /\ node = "free"
    /\ config = {} /\ command = NoCommand
    /\ \E odd \in Foreign \cup {0} :
          panel = [c \in Client |-> IF c \in Managed THEN "absent" ELSE IF c = odd THEN "odd" ELSE "A"]
    /\ pc = [p \in Proc |-> "idle"] /\ seen = [p \in Proc |-> Nothing]
    /\ server = {} /\ posts = <<>>
    /\ hand = 0 /\ used = [command |-> 0, fault |-> 0, crash |-> 0]

Use(what, bound) == used[what] < bound /\ used' = [used EXCEPT ![what] = @ + 1]
Goto(p, l) == pc' = [pc EXCEPT ![p] = l]

\* A cycle ends and its locks go.  The Agent delivers after a child that ended
\* well.
End(p, l) ==
    /\ Goto(p, l) /\ seen' = [seen EXCEPT ![p] = Nothing]
    /\ outbox' = IF outbox = p THEN "free" ELSE outbox
    /\ node' = IF node = p THEN "free" ELSE node
Go(p, l) == Goto(p, l) /\ outbox' = p
Failed(p) == End(p, "idle")
Passed(p) == End(p, IF p = "agent" THEN "connect" ELSE "idle")
-----------------------------------------------------------------------------
\* RuntimeFindingCycle.cycle

Phase(f) == {i \in DOMAIN journal : journal[i].phase \in f}
Blocked == Phase({"BLOCKED"})
Pending == Phase({"PENDING", "IN_FLIGHT"})

\* records(): the directory with its lock and schedule must not hold too much.
Cluttered == Len(journal) + litter + 2 > MaxRecords + Spare

\* A cycle does nothing while another process has the journal.
Refused == outbox # "free" \/ Cluttered
-----------------------------------------------------------------------------
\* collect

\* The cadence is on disk before anything can fail.
ScheduleKept == due' = FALSE /\ UNCHANGED cursor    \* mutant of ScheduleNext: the cursor stays
ScheduleNext == due' = FALSE /\ cursor' = (cursor + 1) % Cycle

\* The node's lock, and no transaction that waits for its rollback.
MayEnterOver == node = "free"    \* mutant of MayEnter: an interrupted transaction is not looked for
MayEnter == node = "free" /\ command.step = "none"

\* Of the clients whose names config and inventory do not contain, in the order of
\* their names, the cursor chooses one.
Mentioned(echo, c, known) == \E m \in known \cup {0} : <<c, m>> \in echo
Candidates == {c \in Names \ config : ~Mentioned(NameEcho, c, config)}
Chosen == CHOOSE c \in Candidates :
              Cardinality({d \in Candidates : d < c}) = cursor % Cardinality(Candidates)

\* The child, cycle(None), collects only over an accepted journal.
Collect(p) ==
    IF ~due THEN Passed(p) /\ UNCHANGED <<cursor, due, used>>
    ELSE /\ ScheduleNext
         /\ \/ /\ Len(journal) >= MaxRecords \/ ~MayEnter \/ Malformed
               /\ Failed(p) /\ UNCHANGED used
            \/ /\ Len(journal) < MaxRecords /\ MayEnter /\ ~Malformed /\ Candidates = {}
               /\ Passed(p) /\ UNCHANGED used
            \/ /\ Len(journal) < MaxRecords /\ MayEnter /\ ~Malformed /\ Candidates # {}
               /\ node' = p /\ Go(p, "get") /\ UNCHANGED used
               /\ seen' = [seen EXCEPT ![p] = [client |-> Chosen, record |-> "absent",
                                              names |-> Names, config |-> config]]
            \/ Use("fault", MaxFault) /\ Failed(p)

\* The Agent's child, which it starts again and again, or an operator's.
Start(p) ==
    /\ pc[p] = "idle" /\ (p = "operator" => hand < MaxHand)
    /\ hand' = IF p = "operator" THEN hand + 1 ELSE hand
    /\ IF Refused THEN Failed(p) /\ UNCHANGED <<cursor, due, used>>
       ELSE IF Blocked # {} \/ Pending # {} THEN Passed(p) /\ UNCHANGED <<cursor, due, used>>
       ELSE Collect(p)
    /\ UNCHANGED <<journal, litter, live, central>>

Get(p) ==
    /\ pc[p] = "get"
    /\ LET r == panel[seen[p].client] IN
        CASE r = "absent" -> Failed(p)
          [] r \in {"off", "odd"} -> Passed(p) \/ Failed(p)
          [] r \in Public /\ Mentioned(KeyEcho, seen[p].client, seen[p].config) -> Passed(p)
          [] OTHER -> /\ Goto(p, "save") /\ seen' = [seen EXCEPT ![p].record = r]
                      /\ UNCHANGED <<outbox, node>>
    /\ UNCHANGED <<durable, live, central, hand, used>>

\* Every revision on a client carries the reference of the first.
Reference(c) ==
    LET related == {i \in DOMAIN journal : journal[i].baseline.client = c}
    IN  IF related = {} THEN Len(journal) + 1 ELSE journal[Min(related)].ref
Report(b) == [baseline |-> b, ref |-> Reference(b.client),
              phase |-> "PENDING", attempts |-> 0, wait |-> FALSE]

\* The second reading must agree; a baseline reported before is not reported
\* again, but any change of config.json or of the panel's names makes a new one.
Known(b) == \E i \in DOMAIN journal : journal[i].baseline = b
Save(p) ==
    /\ pc[p] = "save"
    /\ LET b == seen[p] IN
        IF Malformed \/ Names # b.names \/ config # b.config \/ panel[b.client] # b.record
        THEN Failed(p) /\ UNCHANGED <<journal, posts>>
        ELSE /\ IF Known(b) THEN UNCHANGED <<journal, posts>>
                ELSE journal' = Append(journal, Report(b)) /\ posts' = Append(posts, 0)
             /\ Passed(p)
    /\ UNCHANGED <<cursor, due, litter, live, server, hand, used>>
-----------------------------------------------------------------------------
\* deliver

Current == Min(Pending)
\* The attempt is on disk before the report is sent.
AttemptUnsaved == UNCHANGED journal    \* mutant of Attempt: it is saved with its outcome only
Attempt ==
    LET r == journal[Current]
    IN  journal' = [journal EXCEPT ![Current] =
                      [r EXCEPT !.phase = "IN_FLIGHT", !.attempts = r.attempts + 1, !.wait = TRUE]]
Send(p) ==
    LET r == journal[Current] IN
    IF r.attempts >= MaxAttempts
    THEN journal' = [journal EXCEPT ![Current].phase = "BLOCKED"] /\ Failed(p)
    ELSE IF r.wait THEN UNCHANGED journal /\ Failed(p)
    ELSE Attempt /\ Go(p, "post") /\ UNCHANGED <<node, seen>>

\* The Agent, cycle(api), delivers the one report under way.
Deliver(p) ==
    /\ pc[p] = "connect"
    /\ IF Refused \/ Blocked # {} \/ Pending = {} THEN UNCHANGED journal /\ Failed(p) ELSE Send(p)
    /\ UNCHANGED <<cursor, due, litter, live, central, hand, used>>

\* The SaaS takes a report it has already as the same; the answer may be lost, or
\* the report refused for now or for good.
Post(p) ==
    /\ pc[p] = "post"
    /\ posts' = [posts EXCEPT ![Current] = @ + 1]
    /\ \/ server' = server \cup {Current} /\ Goto(p, "accept") /\ UNCHANGED used
       \/ Use("fault", MaxFault) /\ Goto(p, "retry") /\ server' \in {server, server \cup {Current}}
       \/ Use("fault", MaxFault) /\ Goto(p, "refuse") /\ UNCHANGED server
    /\ UNCHANGED <<durable, outbox, node, live, seen, hand>>

\* The outcome is saved, or the disk refuses it and the record stays in flight.
Outcome == [accept |-> "ACCEPTED", retry |-> "PENDING", refuse |-> "BLOCKED"]
Settle(p) ==
    /\ pc[p] \in DOMAIN Outcome
    /\ \/ journal' = [journal EXCEPT ![Current].phase = Outcome[pc[p]]] /\ UNCHANGED used
       \/ Use("fault", MaxFault) /\ UNCHANGED journal
    /\ Failed(p)
    /\ UNCHANGED <<cursor, due, litter, live, central, hand>>
-----------------------------------------------------------------------------
\* A process is killed: the child after its 20 seconds, the Agent with its child,
\* or an operator's collector.  A writer may leave its temporary file behind.
MayWrite(p) == pc[p] \notin {"get", "post"} /\ outbox \in {p, "free"}
Kill(p) ==
    /\ Use("crash", MaxCrash) /\ Failed(p)
    /\ litter' \in {litter} \cup {l \in {litter + 1} : MayWrite(p)}
    /\ UNCHANGED <<journal, cursor, due, live, central, hand>>

\* retry_at or scan_after passes.
Tick ==
    /\ \/ due' = TRUE /\ due = FALSE /\ UNCHANGED journal
       \/ \E i \in Pending : journal[i].wait
             /\ journal' = [journal EXCEPT ![i].wait = FALSE] /\ UNCHANGED due
    /\ UNCHANGED <<cursor, litter, outbox, node, live, process, central, hand, used>>
-----------------------------------------------------------------------------
\* A command of the node: under the lock and a transaction it changes the panel
\* first and config.json after it.
Step(l) == command' = [command EXCEPT !.step = l]

Begin(c) ==
    /\ node = "free" /\ command.step = "none" /\ Use("command", MaxCommand)
    /\ node' = "cli" /\ command' = [step |-> "panel", client |-> c, adds |-> c \notin config]
    /\ UNCHANGED <<durable, outbox, config, panel, process, central, hand>>

ChangePanel ==
    /\ node = "cli" /\ command.step = "panel"
    /\ panel' = [panel EXCEPT ![command.client] = IF command.adds THEN "A" ELSE "absent"]
    /\ Step("config")
    /\ UNCHANGED <<durable, outbox, node, config, process, central, hand, used>>

InstallConfig ==
    /\ node = "cli" /\ command.step = "config"
    /\ config' = IF command.adds THEN config \cup {command.client} ELSE config \ {command.client}
    /\ Step("commit")
    /\ UNCHANGED <<durable, outbox, node, panel, process, central, hand, used>>

Commit ==
    /\ node = "cli" /\ command.step = "commit"
    /\ command' = NoCommand /\ node' = "free"
    /\ UNCHANGED <<durable, outbox, config, panel, process, central, hand, used>>

\* A kill frees the lock and leaves the transaction; its own rollback, or the
\* next recovery, puts both parts back.
Interrupt ==
    /\ node = "cli" /\ Use("crash", MaxCrash)
    /\ node' = "free"
    /\ UNCHANGED <<durable, outbox, live, process, central, hand>>

RollBack ==
    /\ command.step # "none" /\ node \in {"cli", "free"}
    /\ LET c == command.client IN
        /\ panel' = [panel EXCEPT ![c] = IF command.adds THEN "absent" ELSE "A"]
        /\ config' = IF command.adds THEN config \ {c} ELSE config \cup {c}
    /\ command' = NoCommand /\ node' = "free"
    /\ UNCHANGED <<durable, outbox, process, central, hand, used>>

\* An operator edits a client in the panel, which no lock fences.
Edit(c, r) ==
    /\ panel[c] # r /\ hand < MaxHand /\ hand' = hand + 1
    /\ panel' = [panel EXCEPT ![c] = r]
    /\ UNCHANGED <<durable, outbox, node, config, command, process, central, used>>

CycleStep(p) ==
    \/ Get(p) \/ Save(p) \/ Deliver(p) \/ Post(p) \/ Settle(p)
CommandStep == ChangePanel \/ InstallConfig \/ Commit \/ RollBack

Next ==
    \/ \E p \in Proc : Start(p) \/ CycleStep(p) \/ Kill(p)
    \/ Tick
    \/ \E c \in Managed : Begin(c)
    \/ CommandStep \/ Interrupt
    \/ \E c \in Foreign, r \in Record : Edit(c, r)

Spec == Init /\ [][Next]_vars

\* The Agent's loop goes on, time passes, and a command ends or is recovered.
FairSpec ==
    /\ Spec
    /\ WF_vars(Start("agent")) /\ WF_vars(Tick) /\ WF_vars(CommandStep)
    /\ \A p \in Proc : WF_vars(CycleStep(p))
-----------------------------------------------------------------------------
Baseline == [client : Client, record : Public, names : SUBSET Client, config : SUBSET Managed]
Records == [baseline : Baseline, ref : Nat, attempts : 0..MaxAttempts, wait : BOOLEAN,
            phase : {"PENDING", "IN_FLIGHT", "ACCEPTED", "BLOCKED"}]

\* The variables keep their types.
TypeOK ==
    /\ journal \in Seq(Records) /\ Len(journal) <= MaxRecords
    /\ cursor \in 0..(Cycle - 1) /\ due \in BOOLEAN /\ litter \in Nat
    /\ outbox \in Proc \cup {"free"} /\ node \in Proc \cup {"cli", "free"}
    /\ config \subseteq Managed /\ panel \in [Client -> Record]
    /\ command.client \in Managed \cup {0} /\ command.adds \in BOOLEAN
    /\ command.step \in {"none", "panel", "config", "commit"}
    /\ pc \in [Proc -> {"idle", "connect", "get", "save", "post"} \cup DOMAIN Outcome]
    /\ seen \in [Proc -> [client : Client \cup {0}, record : Record,
                          names : SUBSET Client, config : SUBSET Managed]]
    /\ server \subseteq DOMAIN journal /\ posts \in Seq(Nat) /\ Len(posts) = Len(journal)

\* A command creates its client before config.json names it and may die in
\* between, or takes it from the panel first: none of its clients is ever
\* reported as unmanaged.
ManagedIsNotReported == \A i \in DOMAIN journal : journal[i].baseline.client \in Foreign

\* docs/agent-runtime-findings.md "replay never generates a new client/ref/revision":
\* over restarts and lost answers a baseline has one revision and a client one
\* reference, one report at most is under way, each is sent no more often than
\* the limit, the SaaS has what counts as accepted, and nothing unsent.
OneEnvelope ==
    \A i, j \in DOMAIN journal :
        LET a == journal[i] b == journal[j] IN
        /\ a.baseline = b.baseline => i = j
        /\ a.baseline.client = b.baseline.client <=> a.ref = b.ref
        /\ i \in Pending /\ j \in Pending => i = j
DeliveryIsBounded ==
    \A i \in DOMAIN journal :
        /\ posts[i] <= journal[i].attempts
        /\ journal[i].phase = "ACCEPTED" => i \in server
        /\ i \in server => posts[i] > 0
JournalIsSound == TypeOK /\ OneEnvelope /\ DeliveryIsBounded

\* Once the panel is left alone and its list of names can be read, every foreign
\* client that is public, and of which the node's own texts contain nothing, has
\* been reported as it is and the report accepted; or a report waits for review,
\* or the journal is full or its directory cluttered.
Stopped == Blocked # {} \/ Len(journal) = MaxRecords \/ Cluttered
Reported(c) == \E i \in Phase({"ACCEPTED"}) : journal[i].baseline.client = c /\ journal[i].baseline.record = panel[c]
Reportable(c) == panel[c] \in Public /\ ~Mentioned(NameEcho \cup KeyEcho, c, config)
ForeignIsReported ==
    <>[](Stopped \/ Malformed \/ \A c \in Foreign : Reportable(c) => Reported(c))
=============================================================================
