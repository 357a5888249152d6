---------------------------- MODULE NodeRecovery ----------------------------
(* Recovery of a node whose identity can no longer be used: the client        *)
(* (agent/node_recovery.py) on the files of agent/node_mtls_state.py, the     *)
(* wrapper that stops and starts the Agent around it (agent/recover.sh), and  *)
(* what the Agent itself does with the same files whenever it runs.           *)
(*                                                                            *)
(* A request is named by a number, and so are its credential and generation;  *)
(* generation 0 is the identity the node was given.  A grant is a number: it  *)
(* names the one-time token and, for the pilot of ExpiredNode, the operation. *)
EXTENDS Naturals, FiniteSets

CONSTANTS
    Runtimes,      \* states runtime.json may have at the start
    MaxRequest,    \* bound: requests ever prepared
    MaxGrant,      \* bound: one-time tokens the SaaS grants
    MaxFault,      \* bound: answers and waits that fail
    MaxCrash       \* bound: deaths of a process or of the host

ASSUME RuntimeAssumption == Runtimes \subseteq {"BLOCKED", "FALLBACK"}
ASSUME BoundAssumption ==
    /\ MaxRequest \in Nat /\ MaxGrant \in Nat
    /\ MaxFault \in Nat /\ MaxCrash \in Nat

Request == 1..MaxRequest
Grant == 1..MaxGrant

VARIABLES
    parts,       \* the files in pending/; they belong to request `made`
    journal,     \* acknowledgement.pending.json: its credential (0: none)
    active,      \* the generation `active` points to
    runtime,     \* state in runtime.json
    marker,      \* recovery.pending
    completed,   \* recovery.completed.json
    token,       \* recovery.token: the grant in it (0: none)
    mine,        \* token copies in the backup of the run under way
    copies,      \* token copies that ended runs have left in their backups
    agent,       \* the Agent's service is running
    order,       \* expired-pilot.operation.json: operation and phase
    base,        \* the expired generation an operation is bound to
    lapsed,      \* operations whose baseline or authority is out of date
    pc,          \* where the holder of the recovery lock is
    env,         \* operation the wrapper was started for (0: an operator)
    mem,         \* the marker the client holds in memory
    orphan,      \* the wrapper was killed, its client lives on
    rc,          \* how the wrapper the helper waits for has ended
    saas,        \* each credential at the SaaS
    open,        \* requests with a POST that no proof says was refused
    expired,     \* generations whose certificate has expired
    made, faults, crashes

files == <<parts, journal, active, runtime, marker, completed, token>>
backups == <<mine, copies>>
pilot == <<order, base, lapsed>>
run == <<pc, env, mem, orphan, rc>>
world == <<saas, open, expired>>
budget == <<made, faults, crashes>>
recovery == <<files, backups, agent, pilot, run, world, budget>>

Parts == {"key", "csr", "meta"}
Whole == parts = Parts
Partial == parts \notin {{}, Parts}

Marker == [op: 0..MaxGrant, req: 0..MaxRequest, cred: 0..MaxRequest, posted: BOOLEAN,
           dispatch: {"READY", "KNOWN_NO_SIGN"}, proof: BOOLEAN, acked: BOOLEAN]
NoMarker == [op |-> 0, req |-> 0, cred |-> 0, posted |-> FALSE,
             dispatch |-> "READY", proof |-> FALSE, acked |-> FALSE]
NewMarker == [NoMarker EXCEPT !.op = env, !.req = made]
Marked == marker.req # 0

RecoveryInit ==
    /\ parts = {} /\ journal = 0 /\ active = 0 /\ runtime \in Runtimes
    /\ marker = NoMarker /\ completed = NoMarker /\ token = 0
    /\ mine = {} /\ copies = {} /\ agent = TRUE
    /\ order = [op |-> 0, phase |-> "none"]
    /\ base = [n \in Grant |-> MaxRequest + 1] /\ lapsed = {}
    /\ pc = "off" /\ env = 0 /\ mem = NoMarker /\ orphan = FALSE /\ rc = "none"
    /\ saas = [r \in Request |-> "none"] /\ open = {} /\ expired = {0}
    /\ made = 0 /\ faults = 0 /\ crashes = 0

Goto(l) == pc' = l /\ UNCHANGED <<env, mem, orphan, rc>>
Fault == faults < MaxFault /\ faults' = faults + 1 /\ UNCHANGED <<made, crashes>>

\* The wrapper exits, or the client that outlived it; the recovery lock is free.
Exit(code) ==
    /\ pc' = "off" /\ env' = 0 /\ mem' = NoMarker /\ orphan' = FALSE
    /\ rc' = IF env # 0 /\ ~orphan THEN code ELSE rc
    /\ mine' = {}
    /\ copies' = copies \cup (IF code = "passed" THEN {} ELSE mine)
-----------------------------------------------------------------------------
\* What a marker, the pending request and the journal say of each other.

\* pending_activation_committed: what is left of the request is a remnant.
Committed == journal # 0 /\ active = journal /\ (parts # {} => made = journal)

LocalStateValid(m, present) ==
    \/ m.acked /\ m.cred # 0 /\ ~present /\ journal \in {0, m.cred} /\ active = m.req
    \/ ~m.acked /\ m.cred = 0 /\ present /\ journal = 0
    \/ ~m.acked /\ m.cred # 0 /\ journal \in {0, m.cred} /\ (present \/ journal # 0)

ClientCheck ==
    \/ /\ Marked
       /\ Partial => journal = marker.cred /\ Committed
       /\ LocalStateValid(marker, Whole)
       /\ marker.acked \/ token # 0
    \/ ~Marked /\ ~Partial /\ token # 0 /\ journal = 0

\* admission: the identity is the expired one of the baseline, nothing else is
\* under way, and the authority to issue is fresh.
Admission(n, known) ==
    /\ n \notin lapsed
    /\ base[n] = active /\ active \in expired
    /\ journal = 0 /\ ~Partial
    /\ known \/ ~Marked

\* wrapper_admission, inside the recovery lock.
WrapperAdmission ==
    /\ order.phase = "APPLY_DISPATCHED"
    /\ \/ ~Marked /\ Admission(order.op, FALSE)
       \/ Marked /\ marker.op = order.op /\ marker.cred # 0
       \/ /\ Marked /\ marker.op = order.op /\ marker.cred = 0
          /\ marker.dispatch = "READY" /\ ~marker.posted /\ marker.proof
          /\ Whole /\ made = marker.req
          /\ Admission(order.op, TRUE)
-----------------------------------------------------------------------------
\* recover.sh, up to the client.

\* Under the lock: a token or a marker to continue, and the private backup,
\* which holds a copy of the token.
Begin(n) ==
    /\ pc = "off" /\ (token # 0 \/ Marked)
    /\ pc' = "check" /\ env' = n /\ mem' = NoMarker /\ orphan' = FALSE /\ rc' = "none"
    /\ mine' = {[op |-> n, token |-> t] : t \in {token} \ {0}}
    /\ UNCHANGED <<files, copies, agent, pilot, world, budget>>

Preflight ==
    /\ pc = "check"
    /\ \/ ClientCheck /\ (env # 0 => WrapperAdmission) /\ Goto("stop") /\ UNCHANGED backups
       \/ ~(ClientCheck /\ (env # 0 => WrapperAdmission)) /\ Exit("failed")
    /\ UNCHANGED <<files, agent, pilot, world, budget>>

StopAgent ==
    /\ pc = "stop"
    /\ agent' = FALSE /\ Goto("load")
    /\ UNCHANGED <<files, backups, pilot, world, budget>>
-----------------------------------------------------------------------------
\* RecoveryClient.apply.

Load ==
    /\ pc = "load"
    /\ parts' = IF Marked /\ journal = marker.cred /\ Committed THEN {} ELSE parts
    /\ pc' = "resume" /\ mem' = marker
    /\ UNCHANGED <<journal, active, runtime, marker, completed, token>>
    /\ UNCHANGED <<env, orphan, rc, backups, agent, pilot, world, budget>>

Continues(m) == token # 0 /\ ~m.acked /\ m.req # 0 /\ ~Partial
    /\ LocalStateValid(m, Whole) /\ (Whole => made = m.req)
CanStart == token # 0 /\ mem = NoMarker /\ journal = 0 /\ ~Partial
    /\ (Whole \/ made < MaxRequest)
CanDispatchAgain == Continues(mem) /\ mem.cred = 0    \* mutant: the same CSR may be posted again
CanDispatch == Continues(mem) /\ mem.cred = 0 /\ ~mem.posted /\ mem.dispatch = "READY"
CanFetch == Continues(mem) /\ mem.cred # 0 /\ Whole
CanAcknowledge == Continues(mem) /\ mem.cred # 0 /\ ~Whole /\ active = mem.req
CanClean == mem.acked /\ ~Partial /\ LocalStateValid(mem, Whole)

Refuse ==
    /\ pc = "resume"
    /\ ~(CanStart \/ CanDispatch \/ CanFetch \/ CanAcknowledge \/ CanClean)
    /\ Exit("failed")
    /\ UNCHANGED <<files, agent, pilot, world, budget>>

Resume ==
    /\ pc = "resume"
    /\ \/ CanStart /\ Goto("prepare")
       \/ CanFetch /\ Goto("get")
       \/ CanAcknowledge /\ Goto("ack")
       \/ CanClean /\ Goto("clear")
    /\ UNCHANGED <<files, backups, agent, pilot, world, budget>>

\* prepare_pending_request, by the client or by the helper's prepare ("offer"):
\* three renames in this order, and a complete request is used again.
PublishAnew ==    \* mutant: a complete request is not used again
    /\ pc \in {"prepare", "offer"}
    /\ \/ parts \in {{}, Parts} /\ parts' = {"key"} /\ made' = made + 1
       \/ parts = {"key"} /\ parts' = {"key", "csr"} /\ UNCHANGED made
       \/ parts = {"key", "csr"} /\ parts' = Parts /\ UNCHANGED made
    /\ UNCHANGED <<journal, active, runtime, marker, completed, token>>
    /\ UNCHANGED <<backups, agent, pilot, run, world, faults, crashes>>
Publish ==
    /\ pc \in {"prepare", "offer"} /\ ~Whole
    /\ \/ parts = {} /\ parts' = {"key"} /\ made' = made + 1
       \/ parts = {"key"} /\ parts' = {"key", "csr"} /\ UNCHANGED made
       \/ parts = {"key", "csr"} /\ parts' = Parts /\ UNCHANGED made
    /\ UNCHANGED <<journal, active, runtime, marker, completed, token>>
    /\ UNCHANGED <<backups, agent, pilot, run, world, faults, crashes>>

WriteMarker(m, l) ==
    /\ marker' = m /\ mem' = m /\ pc' = l
    /\ UNCHANGED <<parts, journal, active, runtime, completed, token, env, orphan, rc>>

NewRecovery ==
    /\ pc = "prepare" /\ Whole
    /\ WriteMarker(NewMarker, "resume")
    /\ UNCHANGED <<backups, agent, pilot, world, budget>>

\* The dispatch is recorded before the request is sent.
Dispatch ==
    /\ pc = "resume" /\ CanDispatch
    /\ WriteMarker([mem EXCEPT !.posted = TRUE], "post")
    /\ UNCHANGED <<backups, agent, pilot, world, budget>>

\* POST certificates: the SaaS issues one credential for a CSR.  The answer may
\* be lost, or refused by _validate_delivery, after the SaaS has acted; or the
\* request never arrives, or is refused without a proof.
Post ==
    /\ pc = "post"
    /\ open' = open \cup {mem.req}
    /\ \/ /\ saas' = [saas EXCEPT ![mem.req] = IF @ = "none" THEN "issued" ELSE @]
          /\ \/ Goto("bind") /\ UNCHANGED <<backups, budget>>
             \/ Fault /\ Exit("failed")
       \/ Fault /\ Exit("failed") /\ UNCHANGED saas
    /\ UNCHANGED <<files, agent, pilot, expired>>

\* In the pilot the SaaS may refuse before it signs, and prove it.
PostRefused ==
    /\ pc = "post" /\ env # 0 /\ saas[mem.req] = "none"
    /\ Fault /\ Goto("refused")
    /\ UNCHANGED <<files, backups, agent, pilot, world>>

WriteNoSign ==
    /\ pc = "refused"
    /\ marker' = [mem EXCEPT !.dispatch = "KNOWN_NO_SIGN"]
    /\ Exit("failed")
    /\ UNCHANGED <<parts, journal, active, runtime, completed, token>>
    /\ UNCHANGED <<agent, pilot, world, budget>>

BindCredential ==
    /\ pc = "bind"
    /\ WriteMarker([mem EXCEPT !.cred = mem.req], "journal")
    /\ UNCHANGED <<backups, agent, pilot, world, budget>>

\* GET the bound credential.
Fetch ==
    /\ pc = "get"
    /\ \/ Goto("journal") /\ UNCHANGED <<backups, budget>>
       \/ Fault /\ Exit("failed")
    /\ UNCHANGED <<files, agent, pilot, world>>

RecordAcknowledgementLate ==    \* mutant: the journal is left to a later step
    /\ pc = "journal"
    /\ Goto("switch")
    /\ UNCHANGED <<files, backups, agent, pilot, world, budget>>
RecordThenAcknowledge ==    \* mutant: the SaaS is told before the identity is active
    /\ pc = "journal"
    /\ journal' = mem.cred /\ Goto("ack")
    /\ UNCHANGED <<parts, active, runtime, marker, completed, token>>
    /\ UNCHANGED <<backups, agent, pilot, world, budget>>
RecordAcknowledgement ==
    /\ pc = "journal"
    /\ IF journal \in {0, mem.cred}
       THEN journal' = mem.cred /\ Goto("switch") /\ UNCHANGED backups
       ELSE Exit("failed") /\ UNCHANGED journal
    /\ UNCHANGED <<parts, active, runtime, marker, completed, token>>
    /\ UNCHANGED <<agent, pilot, world, budget>>

\* activate_pending_certificate: the generation is complete before the selector
\* is moved, and the pending files go one by one after it.
Switch ==
    /\ pc = "switch"
    /\ active' = mem.cred /\ Goto("unlink")
    /\ UNCHANGED <<parts, journal, runtime, marker, completed, token>>
    /\ UNCHANGED <<backups, agent, pilot, world, budget>>

Unlink ==
    /\ pc = "unlink"
    /\ \/ "key" \in parts /\ parts' = parts \ {"key"} /\ UNCHANGED run
       \/ "key" \notin parts /\ "csr" \in parts /\ parts' = parts \ {"csr"} /\ UNCHANGED run
       \/ parts \subseteq {"meta"} /\ parts' = {} /\ Goto("ack")
    /\ UNCHANGED <<journal, active, runtime, marker, completed, token>>
    /\ UNCHANGED <<backups, agent, pilot, world, budget>>

Acknowledge ==
    /\ pc = "ack"
    /\ IF journal = mem.cred
       THEN \/ /\ saas' = [saas EXCEPT ![mem.cred] = "acknowledged"]
               /\ \/ Goto("acked") /\ UNCHANGED <<backups, budget>>
                  \/ Fault /\ Exit("failed")
            \/ Fault /\ Exit("failed") /\ UNCHANGED saas
       ELSE Exit("failed") /\ UNCHANGED <<saas, budget>>
    /\ UNCHANGED <<files, agent, pilot, open, expired>>

Acknowledged ==
    /\ pc = "acked"
    /\ WriteMarker([mem EXCEPT !.acked = TRUE], "clear")
    /\ UNCHANGED <<backups, agent, pilot, world, budget>>

\* _finish_acknowledged_cleanup, a file at a time: journal, runtime, receipt,
\* token, marker.
CleanUp ==
    /\ \/ /\ pc = "clear" /\ journal' = 0 /\ Goto("ready")
          /\ UNCHANGED <<runtime, completed, token>>
       \/ /\ pc = "ready" /\ runtime' = "SHADOW_READY" /\ Goto("receipt")
          /\ UNCHANGED <<journal, completed, token>>
       \/ /\ pc = "receipt" /\ completed' = mem /\ Goto("token")
          /\ UNCHANGED <<journal, runtime, token>>
       \/ /\ pc = "token" /\ token' = 0 /\ Goto("erase")
          /\ UNCHANGED <<journal, runtime, completed>>
    /\ UNCHANGED <<parts, active, marker, backups, agent, pilot, world, budget>>

EraseMarker ==
    /\ pc = "erase"
    /\ marker' = NoMarker
    /\ \/ orphan /\ Exit("failed")
       \/ ~orphan /\ Goto("start") /\ UNCHANGED backups
    /\ UNCHANGED <<parts, journal, active, runtime, completed, token>>
    /\ UNCHANGED <<agent, pilot, world, budget>>
-----------------------------------------------------------------------------
\* recover.sh, after the client.

StartAgent ==
    /\ pc = "start"
    /\ agent' = TRUE /\ Goto("await")
    /\ UNCHANGED <<files, backups, pilot, world, budget>>

AwaitActive ==
    /\ pc = "await"
    /\ \/ agent /\ runtime = "SHADOW_ACTIVE" /\ Goto("tidy") /\ UNCHANGED <<backups, budget>>
       \/ ~(agent /\ runtime = "SHADOW_ACTIVE") /\ Fault /\ Exit("failed")
    /\ UNCHANGED <<files, agent, pilot, world>>

\* The token and the marker must be gone; the copy in this run's backup goes.
Tidy ==
    /\ pc = "tidy"
    /\ IF token = 0 /\ ~Marked THEN Exit("passed") ELSE Exit("failed")
    /\ UNCHANGED <<files, agent, pilot, world, budget>>

Client == {"load", "resume", "prepare", "post", "refused", "bind", "get", "journal", "switch",
           "unlink", "ack", "acked", "clear", "ready", "receipt", "token", "erase"}
Wrapper ==
    \/ Preflight \/ StopAgent \/ Load \/ Refuse \/ Resume \/ Publish \/ NewRecovery \/ Dispatch
    \/ Post \/ PostRefused \/ WriteNoSign \/ BindCredential \/ Fetch \/ RecordAcknowledgement
    \/ Switch \/ Unlink \/ Acknowledge \/ Acknowledged \/ CleanUp \/ EraseMarker
    \/ StartAgent \/ AwaitActive \/ Tidy

\* The wrapper and its client are killed.
Kill ==
    /\ pc \notin {"off", "offer"} /\ crashes < MaxCrash
    /\ crashes' = crashes + 1 /\ UNCHANGED <<made, faults>>
    /\ Exit("failed")
    /\ UNCHANGED <<files, agent, pilot, world>>
-----------------------------------------------------------------------------
\* The Agent's own cycle (MtlsLifecycle, in mode mtls) on the same files, while
\* the service runs and the lifecycle is not BLOCKED: an expired identity or a
\* delivery it cannot fetch blocks it; a delivery it finds activated it
\* acknowledges.
AgentCycle ==
    /\ agent /\ runtime # "BLOCKED"
    /\ \/ /\ active \in expired \/ journal \notin {0, active}
          /\ runtime' = "BLOCKED" /\ UNCHANGED <<parts, journal, saas>>
       \/ /\ active \notin expired /\ journal = 0 /\ runtime # "SHADOW_ACTIVE"
          /\ runtime' = "SHADOW_ACTIVE" /\ UNCHANGED <<parts, journal, saas>>
       \/ /\ active \notin expired /\ journal = active
          /\ parts' = {} /\ journal' = 0 /\ runtime' = "SHADOW_READY"
          /\ saas' = [saas EXCEPT ![journal] = "acknowledged"]
    /\ UNCHANGED <<active, marker, completed, token, backups, agent, pilot, run>>
    /\ UNCHANGED <<open, expired, budget>>

\* An acknowledged identity expires in its turn.
Expire ==
    /\ active \notin expired /\ saas[active] = "acknowledged" /\ pc = "off" /\ ~Marked
    /\ expired' = expired \cup {active}
    /\ UNCHANGED <<files, backups, agent, pilot, run, saas, open, budget>>
=============================================================================
