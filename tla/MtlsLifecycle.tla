--------------------------- MODULE MtlsLifecycle ---------------------------
(* The client certificate of one node: the pending key, CSR and metadata, the *)
(* acknowledgement journal, the generations and the active selector           *)
(* (agent/node_mtls_state.py), the exchange with the SaaS                     *)
(* (agent/node_mtls_client.py), the persisted state machine that paces it     *)
(* (agent/node_mtls_runtime.py) and the Agent's loop around both.             *)
(*                                                                            *)
(* A request is named by a number: its CSR hash is the idempotency key, so    *)
(* the same number names the credential the SaaS issues for it, the delivery  *)
(* and the generation it becomes.  The clock is the time that is left: to a   *)
(* certificate, to a delivery, to the next attempt.                           *)
EXTENDS Naturals, FiniteSets

CONSTANTS
    Modes,         \* values of WAVEMESH_AGENT_AUTH_MODE explored
    Life,          \* ticks a certificate is valid
    DeliveryTtl,   \* ticks a delivery may be retrieved
    RotateBefore,  \* rotate_before_seconds
    RetryMax,      \* retry_max_attempts
    Cooldown,      \* retry_max_seconds
    Permanent,     \* TRUE: a fault may also be a permanent or unreadable answer
    MaxRequest,    \* bound: requests ever prepared
    MaxFault,      \* bound: answers that fail
    MaxCrash       \* bound: deaths of the Agent, each followed by any pause

Request == 1..MaxRequest

ASSUME ModeAssumption ==
    Modes \subseteq {"bearer", "bootstrap-mtls", "mtls"} /\ Permanent \in BOOLEAN
ASSUME TimeAssumption ==
    /\ Life \in Nat /\ DeliveryTtl \in 1..Life
    /\ RotateBefore \in 1..Life /\ Cooldown \in Nat \ {0}
ASSUME BoundAssumption ==
    /\ RetryMax \in Nat \ {0} /\ MaxRequest \in Nat \ {0}
    /\ MaxFault \in Nat /\ MaxCrash \in Nat

VARIABLES
    mode,             \* the configured one
    key, csr, meta,   \* files in pending/: the request each belongs to (0: none)
    journal,          \* acknowledgement.pending.json: its credential (0: none)
    gens,             \* complete directories in generations/
    active,           \* the generation `active` points to (0: none)
    runtime,          \* runtime.json: state, attempts and kind of the last failure
    wait,             \* ticks until its retry_at
    saas,             \* each credential at the SaaS
    life, ttl,        \* ticks left to each certificate and delivery
    pc,               \* where the Agent's loop is
    channel,          \* transport of the request under way
    target,           \* the credential it retrieves (0: it issues one)
    renewal,          \* the renewal_retry flag of the cycle under way
    elapsed,          \* a tick has passed in this sleep or cycle
    awake,            \* FALSE: the Agent is not running
    made, faults, crashes

pending == <<key, csr, meta>>
disk == <<pending, journal, gens, active>>
world == <<saas, life, ttl>>
cycle == <<channel, target, renewal, elapsed, awake>>
budget == <<made, faults, crashes>>
vars == <<mode, disk, runtime, wait, world, pc, cycle, budget>>

Bootstrap == mode # "mtls"    \* bearer_bootstrap_enabled

-----------------------------------------------------------------------------
\* A new node, or one that holds an acknowledged identity.
Init ==
    /\ mode \in Modes
    /\ key = 0 /\ csr = 0 /\ meta = 0 /\ journal = 0
    /\ \E own \in {0, 1} :
        /\ active = own /\ made = own
        /\ gens = {own} \ {0}
        /\ saas = [r \in Request |-> IF r = own THEN "acknowledged" ELSE "none"]
        /\ life = [r \in Request |-> IF r = own THEN Life ELSE 0]
        /\ runtime = [state |-> IF own = 1 THEN "SHADOW_ACTIVE" ELSE "BEARER_ONLY",
                      attempts |-> 0, code |-> "none"]
    /\ ttl = [r \in Request |-> 0]
    /\ wait = 0 /\ pc = "idle" /\ channel = "none" /\ target = 0 /\ renewal = FALSE
    /\ elapsed = FALSE /\ awake = TRUE
    /\ faults = 0 /\ crashes = 0

Goto(l) == pc' = l
Least(a, b) == IF a < b THEN a ELSE b
Valid(r) == r # 0 /\ life[r] > 0

RetryDue == runtime.state # "BLOCKED" /\ wait = 0

Transition(s) == runtime' = [runtime EXCEPT !.state = s] /\ UNCHANGED wait
ClearRetry(s) == runtime' = [state |-> s, attempts |-> 0, code |-> "none"] /\ wait' = 0

\* _record_failure: permanent failures and a used up budget block for good; a
\* renewal of a valid identity keeps trying at the longest interval.
Backoff(n) == IF n < RetryMax /\ 2 ^ (n - 1) \in 1..Cooldown THEN 2 ^ (n - 1) ELSE Cooldown
FailureAs(code, attempts, blocked, late) ==
    /\ runtime' = [state |-> IF blocked THEN "BLOCKED" ELSE "FALLBACK",
                   attempts |-> attempts, code |-> code]
    /\ wait' = IF blocked THEN 0 ELSE IF late THEN Backoff(attempts) - 1 ELSE Backoff(attempts)
RecordFailureUncapped(code, renew, late) ==    \* mutant: the counter is not capped
    LET n == runtime.attempts + 1
    IN  FailureAs(code, n, code = "permanent" \/ (n >= RetryMax /\ ~renew), late)
RecordFailureStrict(code, renew, late) ==    \* mutant: a renewal is blocked like an enrolment
    LET n == runtime.attempts + 1
    IN  FailureAs(code, Least(n, RetryMax), code = "permanent" \/ n >= RetryMax, late)
RecordFailure(code, renew, late) ==
    LET n == runtime.attempts + 1
    IN  FailureAs(code, Least(n, RetryMax), code = "permanent" \/ (n >= RetryMax /\ ~renew), late)

\* The cycle ends with an exception.
Fail(code) ==
    /\ RecordFailure(code, renewal, elapsed)
    /\ Goto("beat")
-----------------------------------------------------------------------------
\* lifecycle_cycle reads the clock once and decides what the cycle does.

SkipRescheduling ==    \* mutant: every cycle sets retry_at anew
    /\ pc = "idle" /\ ~RetryDue
    /\ wait' = IF runtime.state = "BLOCKED" THEN 0 ELSE Cooldown
    /\ Goto("beat") /\ elapsed' = FALSE /\ awake' = TRUE
    /\ UNCHANGED <<mode, disk, runtime, world, channel, target, renewal, budget>>
Skip ==
    /\ pc = "idle" /\ ~RetryDue
    /\ Goto("beat") /\ elapsed' = FALSE /\ awake' = TRUE
    /\ UNCHANGED <<mode, disk, runtime, wait, world, channel, target, renewal, budget>>

\* The first of these steps: active_identity refuses an expired identity, whatever
\* else is on disk; a node without one stops at the limit of attempts.
Enter ==
    /\ pc = "idle" /\ RetryDue
    /\ elapsed' = FALSE /\ awake' = TRUE
    /\ renewal' = Valid(active)
Continues == IF active = 0 THEN runtime.attempts < RetryMax ELSE Valid(active)
BlockNow ==
    /\ RecordFailure("permanent", FALSE, FALSE) /\ Goto("beat")
    /\ UNCHANGED <<channel, target>>

Refuse ==
    /\ Enter /\ ~Continues
    /\ BlockNow
    /\ UNCHANGED <<mode, disk, world, budget>>

\* A delivery was journalled and is not active: fetch it again unless it has
\* expired.
Resume ==
    /\ Enter /\ Continues /\ journal # 0 /\ active # journal
    /\ \/ ttl[journal] = 0 /\ BlockNow
       \/ /\ ttl[journal] > 0
          /\ Transition("ENROLLING")
          /\ channel' = IF ~Bootstrap /\ active # 0 THEN "mtls" ELSE "bearer"
          /\ target' = journal
          /\ Goto("prepare")
    /\ UNCHANGED <<mode, disk, world, budget>>

\* It is active: clear what is left of the request and acknowledge it.
ResumeActivated ==
    /\ Enter /\ Continues /\ journal # 0 /\ active = journal
    /\ \/ \E f \in {key, csr, meta} : f \notin {0, journal} /\ BlockNow
       \/ /\ {key, csr, meta} \subseteq {0, journal} /\ Goto("unlink")
          /\ UNCHANGED <<runtime, wait, channel, target>>
    /\ UNCHANGED <<mode, disk, world, budget>>

\* Only requests with a name left are explored.
Prepared == made < MaxRequest \/ {key, csr, meta} # {0}

Enroll ==
    /\ Enter /\ Continues /\ journal = 0 /\ active = 0
    /\ \/ ~Bootstrap /\ BlockNow
       \/ /\ Bootstrap /\ Prepared
          /\ Transition("ENROLLING") /\ channel' = "bearer" /\ Goto("prepare")
          /\ UNCHANGED target
    /\ UNCHANGED <<mode, disk, world, budget>>

NotDue ==
    /\ Enter /\ Continues /\ journal = 0 /\ active # 0 /\ life[active] > RotateBefore
    /\ ClearRetry(IF runtime.state = "SHADOW_ACTIVE" THEN "SHADOW_ACTIVE" ELSE "SHADOW_READY")
    /\ Goto("beat")
    /\ UNCHANGED <<mode, disk, world, channel, target, budget>>

Rotate ==
    /\ Enter /\ Continues /\ journal = 0 /\ active # 0 /\ life[active] <= RotateBefore /\ Prepared
    /\ Transition("ROTATING") /\ channel' = "mtls" /\ Goto("prepare")
    /\ UNCHANGED <<mode, disk, world, target, budget>>
-----------------------------------------------------------------------------
\* prepare_pending_request: three renames publish a new request; a complete one
\* is used again; a partial one is refused.

PrepareRefuse ==
    /\ pc = "prepare"
    /\ \/ 0 \in {key, csr, meta} /\ {key, csr, meta} # {0}
       \/ channel = "bearer" /\ ~Bootstrap
    /\ Fail("permanent")
    /\ UNCHANGED <<mode, disk, world, cycle, budget>>

PrepareReuse ==
    /\ pc = "prepare" /\ (channel = "mtls" \/ Bootstrap)
    /\ 0 \notin {key, csr, meta}
    /\ Goto("request")
    /\ UNCHANGED <<mode, disk, runtime, wait, world, cycle, budget>>

PublishKey ==
    /\ pc = "prepare" /\ (channel = "mtls" \/ Bootstrap)
    /\ {key, csr, meta} = {0} /\ made < MaxRequest
    /\ made' = made + 1 /\ key' = made'
    /\ Goto("csr")
    /\ UNCHANGED <<csr, meta, journal, gens, active, faults, crashes>>
    /\ UNCHANGED <<mode, runtime, wait, world, cycle>>

PublishCsr ==
    /\ pc = "csr"
    /\ csr' = key /\ Goto("meta")
    /\ UNCHANGED <<mode, key, meta, journal, gens, active, runtime, wait, world, cycle, budget>>

PublishMeta ==
    /\ pc = "meta"
    /\ meta' = key /\ Goto("request")
    /\ UNCHANGED <<mode, key, csr, journal, gens, active, runtime, wait, world, cycle, budget>>

\* The SaaS issues one credential per request and hands it out again until the
\* delivery expires.
Delivers(r) == saas[r] = "none" \/ (saas[r] = "issued" /\ ttl[r] > 0)
Issued(r) ==
    IF saas[r] = "none"
    THEN /\ saas' = [saas EXCEPT ![r] = "issued"]
         /\ life' = [life EXCEPT ![r] = Life]
         /\ ttl' = [ttl EXCEPT ![r] = DeliveryTtl]
    ELSE UNCHANGED world

\* An expired client certificate is refused by _authentication, or by the TLS
\* handshake when it expires in between.
Connects(c) == c = "bearer" \/ Valid(active)
Fault == faults < MaxFault /\ faults' = faults + 1 /\ UNCHANGED <<made, crashes>>
FaultCode == {"transient"} \cup (IF Permanent THEN {"permanent"} ELSE {})

\* POST certificates, or GET the credential of the journal: it succeeds, cannot
\* connect, is lost before or after the SaaS acts on it, or is refused.
Deliver ==
    /\ pc = "request" /\ Connects(channel)
    /\ LET r == IF target = 0 THEN meta ELSE target
       IN  \/ Delivers(r) /\ Issued(r) /\ Goto("journal") /\ UNCHANGED <<runtime, wait, budget>>
           \/ Delivers(r) /\ Issued(r) /\ Fault /\ Fail("transient")
           \/ \E code \in FaultCode : Fault /\ Fail(code) /\ UNCHANGED world
           \/ ~Delivers(r) /\ Fail("permanent") /\ UNCHANGED <<world, budget>>
    /\ UNCHANGED <<mode, disk, cycle>>

NoConnection ==
    /\ \/ pc = "request" /\ ~Connects(channel)
       \/ pc = "ack" /\ ~Connects("mtls")
    /\ \E code \in {"permanent", "transient"} : Fail(code)
    /\ UNCHANGED <<mode, disk, world, cycle, budget>>

-----------------------------------------------------------------------------
\* _activate_delivery: journal, generation, selector, pending files.

RecordJournalThenAcknowledge ==    \* mutant: the SaaS is told before the identity is active
    /\ pc = "journal"
    /\ journal' = meta /\ Goto("ack")
    /\ UNCHANGED <<mode, pending, gens, active, runtime, wait, world, cycle, budget>>
RecordJournal ==
    /\ pc = "journal"
    /\ IF journal \in {0, meta} /\ target \in {0, meta}
       THEN journal' = meta /\ Goto("generation") /\ UNCHANGED <<runtime, wait>>
       ELSE Fail("permanent") /\ UNCHANGED journal
    /\ UNCHANGED <<mode, pending, gens, active, world, cycle, budget>>

CommitGenerationMovingKey ==    \* mutant: the key is moved instead of copied
    /\ pc = "generation"
    /\ IF Valid(journal)
       THEN gens' = gens \cup {journal} /\ key' = 0 /\ Goto("switch") /\ UNCHANGED <<runtime, wait>>
       ELSE Fail("permanent") /\ UNCHANGED <<gens, key>>
    /\ UNCHANGED <<mode, csr, meta, journal, active, world, cycle, budget>>
CommitGeneration ==
    /\ pc = "generation"
    /\ IF Valid(journal)
       THEN gens' = gens \cup {journal} /\ Goto("switch") /\ UNCHANGED <<runtime, wait>>
       ELSE Fail("permanent") /\ UNCHANGED gens
    /\ UNCHANGED <<mode, pending, journal, active, world, cycle, budget>>

Activate ==
    /\ pc = "switch"
    /\ active' = journal /\ Goto("unlink")
    /\ UNCHANGED <<mode, pending, journal, gens, runtime, wait, world, cycle, budget>>

\* The three pending files go one by one.
Unlink ==
    /\ pc = "unlink"
    /\ \/ key # 0 /\ key' = 0 /\ UNCHANGED <<csr, meta, pc>>
       \/ key = 0 /\ csr # 0 /\ csr' = 0 /\ UNCHANGED <<key, meta, pc>>
       \/ key = 0 /\ csr = 0 /\ meta' = 0 /\ Goto("ack") /\ UNCHANGED <<key, csr>>
    /\ UNCHANGED <<mode, journal, gens, active, runtime, wait, world, cycle, budget>>

\* acknowledge goes over mTLS whatever the mode, with the new identity.
AcknowledgeForgetting ==    \* mutant: the journal is cleared before the answer
    /\ pc = "ack" /\ Connects("mtls")
    /\ journal' = 0
    /\ LET told == saas' = [saas EXCEPT ![journal] = "acknowledged"] /\ UNCHANGED <<life, ttl>>
       IN  \/ told /\ Goto("forget") /\ UNCHANGED <<runtime, wait, budget>>
           \/ Fault /\ Fail("transient") /\ UNCHANGED world
    /\ UNCHANGED <<mode, pending, gens, active, cycle>>
Acknowledge ==
    /\ pc = "ack" /\ Connects("mtls")
    /\ LET told == saas' = [saas EXCEPT ![journal] = "acknowledged"] /\ UNCHANGED <<life, ttl>>
       IN  \/ told /\ Goto("forget") /\ UNCHANGED <<runtime, wait, budget>>
           \/ told /\ Fault /\ Fail("transient")
           \/ \E code \in FaultCode : Fault /\ Fail(code) /\ UNCHANGED world
    /\ UNCHANGED <<mode, disk, cycle>>

ClearJournal ==
    /\ pc = "forget"
    /\ journal' = 0 /\ Goto("ready")
    /\ UNCHANGED <<mode, pending, gens, active, runtime, wait, world, cycle, budget>>

Finish ==
    /\ pc = "ready"
    /\ ClearRetry("SHADOW_READY") /\ Goto("beat")
    /\ UNCHANGED <<mode, disk, world, cycle, budget>>
-----------------------------------------------------------------------------
\* The heartbeat at the end of an iteration.  In bearer mode it is a shadow of
\* the real one, checked and paced like the lifecycle; in the others it is the
\* real one, and only its success is recorded.
Resting == {"BEARER_ONLY", "SHADOW_READY", "SHADOW_ACTIVE"}
Shadow == mode = "bearer" /\ RetryDue /\ runtime.state \in Resting

Heartbeat ==
    /\ pc = "beat"
    /\ \/ Shadow /\ ~Valid(active) /\ RecordFailure("permanent", FALSE, FALSE) /\ UNCHANGED budget
       \/ Shadow /\ Valid(active) /\ ClearRetry("SHADOW_ACTIVE") /\ UNCHANGED budget
       \/ /\ Shadow /\ Valid(active) /\ Fault
          /\ \E code \in FaultCode : RecordFailure(code, FALSE, FALSE)
       \/ mode = "bearer" /\ ~Shadow /\ UNCHANGED <<runtime, wait, budget>>
       \/ /\ mode # "bearer" /\ Valid(active) /\ runtime.state = "SHADOW_READY"
          /\ ClearRetry("SHADOW_ACTIVE") /\ UNCHANGED budget
       \/ mode # "bearer" /\ UNCHANGED <<runtime, wait, budget>>
    /\ Goto("idle")
    /\ channel' = "none" /\ target' = 0 /\ renewal' = FALSE /\ elapsed' = FALSE /\ UNCHANGED awake
    /\ UNCHANGED <<mode, disk, world>>

\* One tick at most passes in a sleep, and one in an iteration, unless the Agent
\* is down.
Tick ==
    /\ ~elapsed \/ (pc = "idle" /\ ~awake)
    /\ elapsed' = TRUE
    /\ life' = [r \in Request |-> IF life[r] > 0 THEN life[r] - 1 ELSE 0]
    /\ ttl' = [r \in Request |-> IF ttl[r] > 0 THEN ttl[r] - 1 ELSE 0]
    /\ wait' = IF wait > 0 THEN wait - 1 ELSE 0
    /\ UNCHANGED <<mode, disk, runtime, saas, pc, channel, target, renewal, awake, budget>>

\* The Agent dies, or is stopped to be configured anew; what it has written stays.
Crash ==
    /\ awake /\ crashes < MaxCrash
    /\ crashes' = crashes + 1 /\ mode' \in Modes
    /\ pc' = "idle" /\ awake' = FALSE
    /\ channel' = "none" /\ target' = 0 /\ renewal' = FALSE /\ elapsed' = FALSE
    /\ UNCHANGED <<disk, runtime, wait, world, made, faults>>

Cycle ==
    \/ Skip \/ Refuse \/ Resume \/ ResumeActivated \/ Enroll \/ NotDue \/ Rotate
    \/ PrepareRefuse \/ PrepareReuse \/ PublishKey \/ PublishCsr \/ PublishMeta
    \/ Deliver \/ NoConnection \/ RecordJournal \/ CommitGeneration \/ Activate
    \/ Unlink \/ Acknowledge \/ ClearJournal \/ Finish \/ Heartbeat

Next == Cycle \/ Tick \/ Crash

Spec == Init /\ [][Next]_vars
-----------------------------------------------------------------------------
State == {"BEARER_ONLY", "ENROLLING", "SHADOW_READY", "SHADOW_ACTIVE", "ROTATING",
          "FALLBACK", "BLOCKED"}

TypeOK ==
    /\ mode \in Modes
    /\ key \in 0..MaxRequest /\ csr \in 0..MaxRequest /\ meta \in 0..MaxRequest
    /\ journal \in 0..MaxRequest /\ gens \subseteq Request /\ active \in gens \cup {0}
    /\ runtime \in [state: State, attempts: 0..RetryMax, code: {"none", "transient", "permanent"}]
    /\ wait \in 0..Cooldown
    /\ saas \in [Request -> {"none", "issued", "acknowledged"}]
    /\ life \in [Request -> 0..Life] /\ ttl \in [Request -> 0..DeliveryTtl]
    /\ pc \in {"idle", "prepare", "csr", "meta", "request", "journal", "generation", "switch",
               "unlink", "ack", "forget", "ready", "beat"}
    /\ channel \in {"none", "bearer", "mtls"} /\ target \in 0..MaxRequest /\ renewal \in BOOLEAN
    /\ elapsed \in BOOLEAN /\ awake \in BOOLEAN
    /\ made \in 0..MaxRequest /\ faults \in 0..MaxFault /\ crashes \in 0..MaxCrash

\* NODE_AGENT_MTLS_NETWORK_CLIENT.md "a retry continues the persisted request
\* rather than creating a replacement operation": never are two deliveries
\* open at the SaaS.
OneOperation == Cardinality({r \in Request : saas[r] = "issued"}) <= 1

\* Whatever is lost, and wherever the Agent dies, every delivery the SaaS still
\* waits for can be completed with what is on disk: the whole request, or the
\* active generation and the journal that says so.
DeliveryCompletable ==
    \A r \in Request : saas[r] = "issued" =>
        IF active = r THEN journal = r ELSE key = r /\ csr = r /\ meta = r

\* The SaaS retires the previous certificate once a delivery is acknowledged, so
\* by then the node must hold the new one and never go back behind it.
AcknowledgedIsActive == \A r \in Request : saas[r] = "acknowledged" => r \in gens /\ r <= active

\* SHADOW_READY and SHADOW_ACTIVE open the access commands: only an identity the
\* SaaS has acknowledged may stand behind them, with nothing left to repeat.
ReadyIsAcknowledged ==
    runtime.state \in {"SHADOW_READY", "SHADOW_ACTIVE"} =>
        journal = 0 /\ active # 0 /\ saas[active] = "acknowledged"

\* "When lifecycle work has a valid local mTLS identity, exhausting the burst
\* attempt limit schedules further attempts": while the SaaS is only out of
\* reach, no renewal of a valid certificate blocks the node.
OutageSparesRenewal ==
    [][runtime'.state = "BLOCKED" /\ runtime'.code = "transient" /\ runtime.state # "BLOCKED"
         => ~renewal]_vars

\* "Existing persisted BLOCKED states are not reset": from then on the lifecycle
\* asks the SaaS for nothing and changes no identity.
BlockedIsFinal ==
    [][runtime.state = "BLOCKED" =>
         runtime'.state = "BLOCKED" /\ UNCHANGED <<saas, disk>>]_vars

\* The loop goes on, the clock runs and faults are finite.
Fairness == WF_vars(Cycle) /\ WF_vars(Tick)
FairSpec == Spec /\ Fairness

\* No outage, expiry or change of mode leaves the node half-way for ever: work
\* that was interrupted ends with an acknowledged identity or visibly BLOCKED, the
\* end EXPIRED_NODE_PILOT.md gives an identity that expires meanwhile.
Spent == made = MaxRequest /\ {key, csr, meta} = {0} /\ journal = 0
Recovers ==
    runtime.state \in {"ENROLLING", "ROTATING", "FALLBACK"}
        ~> runtime.state \in {"SHADOW_READY", "SHADOW_ACTIVE", "BLOCKED"} \/ Spent

=============================================================================
