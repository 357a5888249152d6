---------------------------- MODULE OwnerRepair ----------------------------
(* The owner-only repair of a 3X-UI installation                             *)
(* (operations/xui_owner_repair.py): under the node's mutation lock, with     *)
(* the Agent and the panel stopped, a fixed list of objects is handed from    *)
(* the panel's user to root.  Every effect is preceded by a record in an      *)
(* append-only ledger, from which the recovery commands learn what may        *)
(* already have happened.  Nothing keeps two invocations from working on one  *)
(* operation at once.  At this commit no command line reaches these functions *)
(* (main() ends with 77): the module is about the library, with an admission  *)
(* that would let it run.                                                     *)
EXTENDS Naturals, Sequences, FiniteSets

CONSTANTS
    Sessions,     \* invocations of the operator's commands
    MaxObject,    \* bound: objects of the manifest (seventeen in the code)
    MaxCommand,   \* bound: commands invoked
    MaxStray,     \* bound: commands invoked beside a running one, and calls cut off
    MaxOther      \* bound: those, services that exit, openings of the admission and
                  \*   what others do then, together

ASSUME RepairAssumption ==
    MaxObject \in Nat \ {0} /\ MaxCommand \in Nat /\ MaxStray \in Nat /\ MaxOther \in Nat
ASSUME SessionAssumption == "free" \notin Sessions

Units == <<"agent", "x-ui">>
Unit == {"agent", "x-ui"}
Object == 1..MaxObject
Commands == {"window", "services", "objects", "resume", "restore", "reserve"}

VARIABLES
    ledger,    \* the records after BEGIN
    book,      \* absent, empty, whole, torn (cut short) or mixed (two chains)
    owner,     \* of each object: panel, root, or other once it was replaced
    state,     \* of each unit: active, inactive or failed
    job,       \* of each unit: the systemd job under way
    gone,      \* units that exited by themselves and have not come up since
    flying,    \* calls whose sender gave up waiting, still on their way to systemd
    gate,      \* the admission: closed to every other writer, or open
    lock,      \* who holds the node's mutation lock
    pc, cmd,   \* of each session: where it is, in which command
    at,        \*   its place in the list it works through
    read,      \*   the records it has read or written
    draft,     \*   what it is about to append, and where it goes on then
    base,      \*   the active units of the baseline it captured
    commands, strays, others    \* used of the bounds

host == <<owner, state, job, gone, flying, gate>>
paper == <<ledger, book>>
mind == <<cmd, base, read, draft>>
used == <<commands, strays, others>>
vars == <<host, paper, lock, pc, at, mind, used>>

Entry(e) == [event |-> e, path |-> 0, owner |-> "", unit |-> "", state |-> "",
             request |-> <<>>, baseline |-> {}]
Of(e, o) == [Entry(e) EXCEPT !.path = o]
For(e, r) == [Entry(e) EXCEPT !.request = r]
NoDraft == [entry |-> Entry(""), to |-> "idle", at |-> 0]

Init ==
    /\ ledger = <<>> /\ book = "absent"
    /\ owner = [o \in Object |-> "panel"]
    /\ state \in [Unit -> {"active", "inactive"}] /\ job = [u \in Unit |-> "none"]
    /\ gone = {} /\ flying = {}
    /\ gate = "closed" /\ lock = "free"
    /\ pc = [s \in Sessions |-> "idle"] /\ cmd = [s \in Sessions |-> "none"]
    /\ at = [s \in Sessions |-> 0] /\ read = [s \in Sessions |-> {}]
    /\ draft = [s \in Sessions |-> NoDraft] /\ base = [s \in Sessions |-> {}]
    /\ commands = 0 /\ strays = 0 /\ others = 0
-----------------------------------------------------------------------------
\* What a session knows of the ledger, and what it observes.

Found(s, e) == {i \in read[s] : ledger[i].event = e}
Last(S) == CHOOSE i \in S : \A j \in S : j <= i

\* The last event of an object, or nothing.
Events(s, o) == {i \in read[s] : ledger[i].path = o}
LastEvent(s, o) == ledger[Last(Events(s, o))]

\* The baseline the ledger keeps: exactly one WINDOW record.
Windowed(s) == Cardinality(Found(s, "WINDOW")) = 1
Baseline(s) == ledger[Last(Found(s, "WINDOW"))].baseline

Requested(s) == {ledger[i].request : i \in Found(s, "SERVICE_INTENT")}
Starts(s, u) == {i \in read[s] : ledger[i].request \in {<<"start", u, r>> : r \in BOOLEAN}}
Observed(s, u) == {i \in Found(s, "SERVICE_RECONCILED") : ledger[i].unit = u}

Admitted == gate = "closed"

\* A unit between jobs, and one that is down with an empty control group; an
\* object the pin still describes, with an owner from the allowed ones.
Steady(u) == job[u] = "none" /\ state[u] \in {"active", "inactive"}
Dead(u) == job[u] = "none" /\ state[u] = "inactive"
Checked(o, allowed) == owner[o] \in allowed
UnitsAreDown == Admitted /\ \A u \in Unit : state[u] = "inactive"                        \* mutant
Quiescent == Admitted /\ \A u \in Unit : Dead(u)
Closed(s) == lock = s /\ Quiescent

Goto(s, l) == pc' = [pc EXCEPT ![s] = l] /\ UNCHANGED <<mind, used>>
Step(s, n) == at' = [at EXCEPT ![s] = n]
Running(s) == pc[s] # "idle"
Forget(s) ==
    /\ pc' = [pc EXCEPT ![s] = "idle"] /\ cmd' = [cmd EXCEPT ![s] = "none"]
    /\ at' = [at EXCEPT ![s] = 0] /\ base' = [base EXCEPT ![s] = {}]
    /\ read' = [read EXCEPT ![s] = {}] /\ draft' = [draft EXCEPT ![s] = NoDraft]
LeaveHolding(s) == Forget(s) /\ UNCHANGED lock                                      \* mutant
Leave(s) == Forget(s) /\ lock' = IF lock = s THEN "free" ELSE lock
End(s) == Leave(s) /\ UNCHANGED used

\* append, first half: the file must hold what the session knows.  The record
\* follows in a step of its own, AppendRecord, for nothing locks the ledger.
Write(s, r, l, n) ==
    /\ book = "whole" /\ read[s] = DOMAIN ledger
    /\ pc' = [pc EXCEPT ![s] = "append"]
    /\ draft' = [draft EXCEPT ![s] = [entry |-> r, to |-> l, at |-> n]]
    /\ UNCHANGED <<host, paper, lock, at, cmd, base, read, used>>
-----------------------------------------------------------------------------
\* Opening the operation's ledger.

Enter(s, c) ==
    CASE c = "window" -> "baseline"
      [] c = "services" -> "services"
      [] c = "objects" -> "readback"
      [] c = "resume" -> "lock"
      [] OTHER -> "readback"

Spare == strays + others < MaxOther
MayStray == strays < MaxStray /\ Spare
Beside(s) == IF \E t \in Sessions : Running(t) THEN 1 ELSE 0
Invoke(s, c) ==
    /\ ~Running(s) /\ commands < MaxCommand /\ (Beside(s) = 1 => MayStray) /\ Admitted
    /\ commands' = commands + 1 /\ strays' = strays + Beside(s)
    /\ cmd' = [cmd EXCEPT ![s] = c]
    /\ Step(s, 1)
    /\ \/ /\ book = "absent" /\ book' = "empty"
          /\ pc' = [pc EXCEPT ![s] = "create"] /\ UNCHANGED read
       \/ /\ book = "whole" /\ UNCHANGED book
          /\ read' = [read EXCEPT ![s] = DOMAIN ledger]
          /\ pc' = [pc EXCEPT ![s] = Enter(s, c)]
    /\ UNCHANGED <<host, ledger, lock, base, draft, others>>

\* The first record binds the operation.
Create(s) ==
    /\ pc[s] = "create" /\ Admitted
    /\ book = "empty" /\ book' = "whole" /\ Goto(s, Enter(s, cmd[s]))
    /\ UNCHANGED <<host, ledger, lock, at>>

\* append, second half.  A record written after one that the session does not
\* know, or after half of one, does not continue the chain: no command reads the
\* ledger again.  The session itself goes on.
AppendRecord(s) ==
    /\ pc[s] = "append"
    /\ LET d == draft[s] IN
        /\ ledger' = Append(ledger, d.entry)
        /\ book' = IF book = "whole" /\ read[s] = DOMAIN ledger THEN "whole" ELSE "mixed"
        /\ \/ d.to = "idle" /\ End(s)
           \/ /\ d.to # "idle"
              /\ pc' = [pc EXCEPT ![s] = d.to] /\ Step(s, d.at)
              /\ read' = [read EXCEPT ![s] = @ \cup {Len(ledger) + 1}]
              /\ draft' = [draft EXCEPT ![s] = NoDraft]
              /\ lock' = IF d.entry.event = "FILESYSTEM_ACCEPTED" THEN "free" ELSE lock
              /\ UNCHANGED <<cmd, base, used>>
    /\ UNCHANGED host

\* It may be cut short.
Tear(s) ==
    /\ pc[s] = "append"
    /\ book' = IF book = "mixed" THEN "mixed" ELSE "torn"
    /\ End(s)
    /\ UNCHANGED <<host, ledger>>
-----------------------------------------------------------------------------
\* run_window: the baseline, the lock, and at most one stop of each active unit.

CaptureBaseline(s) ==
    /\ pc[s] = "baseline" /\ Admitted /\ Found(s, "WINDOW") = {}
    /\ \A u \in Unit : Steady(u)
    /\ base' = [base EXCEPT ![s] = {u \in Unit : state[u] = "active"}]
    /\ pc' = [pc EXCEPT ![s] = "lock"]
    /\ UNCHANGED <<host, paper, lock, at, cmd, read, draft, used>>

\* resume_owner_interval comes here too; it needs the ledger's baseline and
\* a quiet host, and never stops anything itself.
TakeLock(s) ==
    /\ pc[s] = "lock" /\ lock = "free"
    /\ cmd[s] = "resume" => Windowed(s) /\ Quiescent
    /\ lock' = s
    /\ Goto(s, IF cmd[s] = "window" THEN "window" ELSE "examine")
    /\ UNCHANGED <<host, paper, at>>

OpenWindow(s) ==
    /\ pc[s] = "window"
    /\ Write(s, [Entry("WINDOW") EXCEPT !.baseline = base[s]], "stop", 1)

\* The intent is on disk before the call to systemd; no request is recorded twice.
RequestAgain(s, r) == Admitted /\ Write(s, For("SERVICE_INTENT", r), "call", at[s])       \* mutant
Request(s, r) ==
    /\ Admitted /\ r \notin Requested(s)
    /\ Write(s, For("SERVICE_INTENT", r), "call", at[s])

StopUnit(s) ==
    /\ pc[s] = "stop" /\ at[s] <= 2 /\ Units[at[s]] \in base[s]
    /\ Request(s, <<"stop", Units[at[s]], FALSE>>)

PassStop(s) ==
    /\ pc[s] = "stop"
    /\ \/ at[s] <= 2 /\ Units[at[s]] \notin base[s] /\ Step(s, at[s] + 1) /\ Goto(s, "stop")
       \/ at[s] > 2 /\ Closed(s) /\ Step(s, 1) /\ Goto(s, "examine")
    /\ UNCHANGED <<host, paper, lock>>

\* The call to the manager, in mode "fail": a job of the other kind refuses it.
Pending(s) == ledger[Last(Found(s, "SERVICE_INTENT"))].request
Call(s) ==
    /\ pc[s] = "call" /\ job[Pending(s)[2]] \in {"none", Pending(s)[1]}
    /\ job' = [job EXCEPT ![Pending(s)[2]] = Pending(s)[1]]
    /\ Goto(s, "handle")
    /\ UNCHANGED <<owner, state, gone, flying, gate, paper, lock, at>>

\* busctl is given 15 seconds; the call it has sent may still take effect, and
\* starts or stops the unit unless a job is there already.
TimeOut(s) ==
    /\ pc[s] = "call" /\ MayStray
    /\ flying' = flying \cup {Pending(s)} /\ strays' = strays + 1
    /\ Leave(s)
    /\ UNCHANGED <<owner, state, job, gone, gate, paper, commands, others>>

Land(q) ==
    /\ q \in flying /\ flying' = flying \ {q}
    /\ job' = [job EXCEPT ![q[2]] = IF @ = "none" THEN q[1] ELSE @]
    /\ UNCHANGED <<owner, state, gone, gate, paper, lock, pc, at, mind, used>>

RecordJob(s) ==
    /\ pc[s] = "handle"
    /\ Write(s, For("SERVICE_JOB", Pending(s)), "await", at[s])

ObserveEnd(s) ==                                                                     \* mutant
    /\ pc[s] = "await" /\ Admitted /\ job[Pending(s)[2]] = "none"
    /\ IF Pending(s)[1] = "stop" THEN Step(s, at[s] + 1) /\ Goto(s, "stop")
                                 ELSE Step(s, at[s] - 1) /\ Goto(s, "start")
    /\ UNCHANGED <<host, paper, lock>>
\* The job has ended, and in the wanted state.
ObserveJob(s) ==
    /\ pc[s] = "await" /\ Admitted
    /\ LET u == Pending(s)[2] IN
        /\ job[u] = "none"
        /\ IF Pending(s)[1] = "stop"
           THEN state[u] = "inactive" /\ Step(s, at[s] + 1) /\ Goto(s, "stop")
           ELSE state[u] = "active" /\ Step(s, at[s] - 1) /\ Goto(s, "start")
    /\ UNCHANGED <<host, paper, lock>>
-----------------------------------------------------------------------------
\* apply_owner_only and verify_objects, object by object.

\* May the object be worked on, given its last event?
Attributed(s, o) ==
    /\ Events(s, o) # {}
    /\ LastEvent(s, o).event = "APPLIED" \/ LastEvent(s, o).owner = "root"
Explicit(s, o) == Events(s, o) # {} => LastEvent(s, o).event \in {"APPLIED", "RECONCILED"}

Examine(s) ==
    /\ pc[s] = "examine" /\ Closed(s)
    /\ \/ /\ at[s] <= MaxObject /\ Explicit(s, at[s])
          /\ \/ Checked(at[s], {"root"}) /\ Attributed(s, at[s]) /\ Step(s, at[s] + 1) /\ Goto(s, "examine")
             \/ Checked(at[s], {"panel"}) /\ UNCHANGED at /\ Goto(s, "intend")
       \/ at[s] > MaxObject /\ Step(s, 1) /\ Goto(s, "verify")
    /\ UNCHANGED <<host, paper, lock>>

IntendUnrecorded(s) ==                                                               \* mutant
    /\ pc[s] = "intend" /\ Closed(s) /\ Goto(s, "chown")
    /\ UNCHANGED <<host, paper, lock, at>>
Intend(s) ==
    /\ pc[s] = "intend" /\ Closed(s)
    /\ Write(s, Of("INTENT", at[s]), "chown", at[s])

Chown(s) ==
    /\ pc[s] = "chown" /\ Checked(at[s], {"panel"})
    /\ owner' = [owner EXCEPT ![at[s]] = "root"]
    /\ Goto(s, "applied")
    /\ UNCHANGED <<state, job, gone, flying, gate, paper, lock, at>>

RecordApplied(s) ==
    /\ pc[s] = "applied" /\ Checked(at[s], {"root"})
    /\ Write(s, Of("APPLIED", at[s]), "examine", at[s] + 1)

Verify(s) ==
    /\ pc[s] = "verify" /\ Closed(s) /\ at[s] <= MaxObject /\ Checked(at[s], {"root"})
    /\ Step(s, at[s] + 1) /\ Goto(s, "verify")
    /\ UNCHANGED <<host, paper, lock>>

\* The lock goes with the acceptance; the window continues with the restoration.
Accept(s) ==
    /\ pc[s] = "verify" /\ Closed(s) /\ at[s] > MaxObject
    /\ Write(s, Entry("FILESYSTEM_ACCEPTED"), IF cmd[s] = "window" THEN "readback" ELSE "idle", 1)
-----------------------------------------------------------------------------
\* The recovery commands.

\* reconcile_window: what each unit is now, observed and recorded.
ReconcileUnit(s) ==
    /\ pc[s] = "services" /\ Admitted /\ Windowed(s) /\ at[s] <= 2
    /\ Steady(Units[at[s]])
    /\ Write(s, [Entry("SERVICE_RECONCILED") EXCEPT !.unit = Units[at[s]], !.state = state[Units[at[s]]]],
             "services", at[s] + 1)

AfterReconcile(s) ==
    /\ pc[s] = "services" /\ at[s] > 2
    /\ End(s)
    /\ UNCHANGED <<host, paper>>

\* reconcile_objects: the owner of each object that has an event, recorded;
\* a root object without one is refused.  restore_window begins with it when
\* the ledger names any object, without the lock and over running units.
Restoring(s) == cmd[s] \in {"window", "restore", "reserve"}
SkipWhenAccepted(s) == Restoring(s) /\ Found(s, "FILESYSTEM_ACCEPTED") # {}           \* mutant
SkipReadback(s) == Restoring(s) /\ \A o \in Object : Events(s, o) = {}

Readback(s) ==
    /\ pc[s] = "readback" /\ at[s] <= MaxObject /\ ~SkipReadback(s)
    /\ IF Restoring(s) THEN Admitted /\ Windowed(s) ELSE Quiescent
    /\ \/ /\ Events(s, at[s]) = {} /\ Checked(at[s], {"panel"})
          /\ Step(s, at[s] + 1) /\ Goto(s, "readback")
          /\ UNCHANGED <<host, paper, lock>>
       \/ /\ Events(s, at[s]) # {} /\ Checked(at[s], {"panel", "root"})
          /\ Write(s, [Of("RECONCILED", at[s]) EXCEPT !.owner = owner[at[s]]], "readback", at[s] + 1)

AfterReadback(s) ==
    /\ pc[s] = "readback"
    /\ at[s] > MaxObject \/ SkipReadback(s)
    /\ \/ Restoring(s) /\ Windowed(s) /\ Step(s, 2) /\ Goto(s, "start") /\ UNCHANGED lock
       \/ ~Restoring(s) /\ End(s)
    /\ UNCHANGED <<host, paper>>

\* restore_window: the panel first, then the Agent.  The one corrective start
\* of a unit needs an observation newer than every earlier start.  The checks the
\* admission makes before a start, between the two and at the end are an adapter's
\* that this commit does not have: each of them may refuse, which is Halt.
MayCorrect(s, u) ==
    /\ Starts(s, u) # {} /\ Observed(s, u) # {}
    /\ ledger[Last(Observed(s, u))].state = "inactive"
    /\ Last(Observed(s, u)) > Last(Starts(s, u))

StartUnit(s) ==
    /\ pc[s] = "start" /\ at[s] > 0
    /\ LET u == Units[at[s]] IN
        /\ u \in Baseline(s) /\ Dead(u)
        /\ cmd[s] = "reserve" => MayCorrect(s, u)
        /\ Request(s, <<"start", u, cmd[s] = "reserve">>)

PassStart(s) ==
    /\ pc[s] = "start" /\ Admitted /\ at[s] > 0
    /\ LET u == Units[at[s]] IN
        Steady(u) /\ (Dead(u) <=> u \notin Baseline(s))
    /\ Step(s, at[s] - 1) /\ Goto(s, "start")
    /\ UNCHANGED <<host, paper, lock>>

\* Neither unit is looked at again.
Restored(s) ==
    /\ pc[s] = "start" /\ at[s] = 0
    /\ Write(s, Entry("RESTORED"), "idle", 0)
-----------------------------------------------------------------------------
\* A refused check, an error or the death of the process: nothing is undone.
Halt(s) ==
    /\ Running(s) /\ End(s)
    /\ UNCHANGED <<host, paper>>

\* systemd works its jobs off; a stop may fail, a start as well, or the service
\* exits at once.
Outcomes(u) ==
    IF job[u] = "stop" THEN {"inactive", "failed"}
    ELSE IF state[u] = "active" THEN {"active"} ELSE {"active", "inactive", "failed"}
Rest == UNCHANGED <<flying, paper, lock, pc, at, mind, commands, strays>>
FinishJob(u) ==
    /\ job[u] # "none" /\ job' = [job EXCEPT ![u] = "none"]
    /\ \E r \in Outcomes(u) :
        /\ state' = [state EXCEPT ![u] = r]
        /\ gone' = IF job[u] = "stop" \/ r = "active" THEN gone \ {u} ELSE gone
    /\ UNCHANGED <<owner, gate, others>> /\ Rest

\* A service exits on its own, at any time, and systemd may start it again.
Other == Spare /\ others' = others + 1 /\ Rest
ServiceExit(u) ==
    /\ state[u] = "active" /\ job[u] = "none"
    /\ \E r \in {"inactive", "failed"}, j \in {"none", "start"} :
        state' = [state EXCEPT ![u] = r] /\ job' = [job EXCEPT ![u] = j]
    /\ gone' = gone \cup {u}
    /\ UNCHANGED <<owner, gate>> /\ Other

\* Between commands the admission may be opened.  Others then start and stop
\* units, clear a failure, and replace objects; it is closed again before
\* the next command.
OpenGate ==
    /\ gate = "closed" /\ \A s \in Sessions : ~Running(s)
    /\ gate' = "open" /\ UNCHANGED <<owner, state, job, gone>> /\ Other

CloseGate == gate = "open" /\ gate' = "closed" /\ UNCHANGED <<owner, state, job, gone, others>> /\ Rest

OtherRequest(u, r) ==
    /\ gate = "open" /\ job[u] = "none"
    /\ job' = [job EXCEPT ![u] = r]
    /\ UNCHANGED <<owner, state, gone, gate>> /\ Other

OtherReplace(o) ==
    /\ gate = "open" /\ owner' = [owner EXCEPT ![o] = "other"]
    /\ UNCHANGED <<state, job, gone, gate>> /\ Other

ClearFailure(u) ==
    /\ state[u] = "failed" /\ state' = [state EXCEPT ![u] = "inactive"]
    /\ UNCHANGED <<owner, job, gone, gate, others>> /\ Rest

SessionStep(s) ==
    \/ \E c \in Commands : Invoke(s, c)
    \/ Create(s) \/ AppendRecord(s) \/ Tear(s)
    \/ CaptureBaseline(s) \/ TakeLock(s) \/ OpenWindow(s) \/ StopUnit(s) \/ PassStop(s)
    \/ Call(s) \/ TimeOut(s) \/ RecordJob(s) \/ ObserveJob(s)
    \/ Examine(s) \/ Intend(s) \/ Chown(s) \/ RecordApplied(s) \/ Verify(s) \/ Accept(s)
    \/ ReconcileUnit(s) \/ AfterReconcile(s) \/ Readback(s) \/ AfterReadback(s)
    \/ StartUnit(s) \/ PassStart(s) \/ Restored(s)
    \/ Halt(s)

HostStep ==
    \/ \E u \in Unit :
        \/ FinishJob(u) \/ ServiceExit(u) \/ ClearFailure(u)
        \/ OtherRequest(u, "start") \/ OtherRequest(u, "stop")
    \/ \E o \in Object : OtherReplace(o)
    \/ \E q \in flying : Land(q)
    \/ OpenGate \/ CloseGate

Next == HostStep \/ \E s \in Sessions : SessionStep(s)
Spec == Init /\ [][Next]_vars
-----------------------------------------------------------------------------
Places == {"idle", "create", "append", "baseline", "lock", "window", "stop", "call", "handle", "await",
           "examine", "intend", "chown", "applied", "verify", "services", "readback", "start"}
Request0 == {<<a, u, r>> : a \in {"start", "stop"}, u \in Unit, r \in BOOLEAN}
Entries == [event : {"", "WINDOW", "SERVICE_INTENT", "SERVICE_JOB", "SERVICE_RECONCILED", "INTENT",
                     "APPLIED", "RECONCILED", "FILESYSTEM_ACCEPTED", "RESTORED"},
            path : 0..MaxObject, owner : {"", "panel", "root"}, unit : Unit \cup {""},
            state : {"", "active", "inactive"}, request : Request0 \cup {<<>>}, baseline : SUBSET Unit]
Drafts == [entry : Entries, to : Places, at : 0..(MaxObject + 3)]

\* The variables keep their types; the lock is held by a running command only.
TypeOK ==
    /\ ledger \in Seq(Entries) /\ book \in {"absent", "empty", "whole", "torn", "mixed"}
    /\ owner \in [Object -> {"panel", "root", "other"}]
    /\ state \in [Unit -> {"active", "inactive", "failed"}] /\ job \in [Unit -> {"none", "start", "stop"}]
    /\ gone \subseteq Unit /\ flying \subseteq Request0
    /\ gate \in {"closed", "open"} /\ lock \in Sessions \cup {"free"}
    /\ lock # "free" => Running(lock)
    /\ pc \in [Sessions -> Places] /\ cmd \in [Sessions -> Commands \cup {"none"}]
    /\ at \in [Sessions -> 0..(MaxObject + 3)] /\ read \in [Sessions -> SUBSET (DOMAIN ledger)]
    /\ draft \in [Sessions -> Drafts] /\ base \in [Sessions -> SUBSET Unit]

\* An object found with root as its owner was named in the ledger before: no
\* later command can meet a change it cannot attribute.
RootIsAttributed ==
    \A o \in Object : owner[o] = "root" => \E i \in DOMAIN ledger : ledger[i].path = o

\* Whatever sessions are killed, repeated or run side by side, and whatever calls
\* are cut off: there is one baseline, systemd is asked to stop or to start units of
\* it only, and each stop once at most.  So is each start and each corrective start,
\* until two sessions have both passed the comparison of append: restorations take
\* no lock, and both may ask.  The ledger is mixed then, and no command follows.
RequestsAreSanctioned ==
    LET asked == {i \in DOMAIN ledger : ledger[i].event = "SERVICE_INTENT"}
        windows == {i \in DOMAIN ledger : ledger[i].event = "WINDOW"} IN
    /\ \A i, j \in asked :
        ledger[i].request = ledger[j].request /\ (book # "mixed" \/ ledger[i].request[1] = "stop") => i = j
    /\ \A i \in asked : \E w \in windows : w < i /\ ledger[i].request[2] \in ledger[w].baseline
    /\ Cardinality(windows) <= 1

\* With one command at a time and no call cut off, an owner is changed under the
\* lock and over stopped units, with no job of systemd under way that would start
\* one, whatever commands died before.
ChownIsQuiet ==
    [][\A s \in Sessions, o \in Object :
        strays = 0 /\ pc[s] = "chown" /\ at[s] = o /\ owner'[o] # owner[o] /\ pc'[s] = "applied"
            => Closed(s)]_vars

\* No start is asked for over an object that was replaced since the ledger named
\* it, not even after an old acceptance or beside another command.
NoStartOverReplaced ==
    [][\A i \in DOMAIN ledger' \ DOMAIN ledger :
        ledger'[i].event = "SERVICE_INTENT" /\ ledger'[i].request[1] = "start" =>
            \A o \in Object : owner[o] = "other" => \A j \in DOMAIN ledger : ledger[j].path # o]_vars

\* With one command at a time and no call cut off: when the ledger says
\* "restored", each unit of the baseline is up with no job under way, unless it has
\* exited by itself since it came up, and each other unit is down.
RestoredIsBaseline ==
    [][\A i \in DOMAIN ledger' \ DOMAIN ledger : strays = 0 /\ ledger'[i].event = "RESTORED" =>
        \E w \in DOMAIN ledger :
            /\ ledger[w].event = "WINDOW"
            /\ \A u \in Unit :
                IF u \in ledger[w].baseline THEN u \in gone \/ (state[u] = "active" /\ job[u] = "none")
                                             ELSE Dead(u)]_vars
=============================================================================
