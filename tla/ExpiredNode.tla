---------------------------- MODULE ExpiredNode ----------------------------
(* The pilot that recovers an expired node without its operator: the central  *)
(* service sends fixed commands to a helper on the host                       *)
(* (agent/expired_node_helper.py), which keeps the operation in a journal of  *)
(* its own and runs the wrapper of NodeRecovery.  Operators may still run     *)
(* that wrapper by hand.                                                      *)
EXTENDS NodeRecovery

CONSTANT MaxManual    \* bound: runs of the wrapper by an operator
ASSUME ManualAssumption == MaxManual \in Nat

VARIABLES
    hpc,       \* where the helper is
    hop,       \* the operation of its command
    history,   \* operations archived in expired-pilot.operations
    grants,    \* grants the SaaS has given out
    manual     \* runs by an operator so far

helper == <<hpc, hop>>
central == <<history, grants, manual>>
vars == <<recovery, helper, central>>

Init ==
    /\ RecoveryInit
    /\ hpc = "idle" /\ hop = 0 /\ history = {} /\ grants = 0 /\ manual = 0

Outstanding == order.phase \in {"DELIVERED", "APPLY_DISPATCHED"}
Become(l) == hpc' = l /\ UNCHANGED hop
Phase(p) == order' = [order EXCEPT !.phase = p] /\ UNCHANGED <<base, lapsed>>
Operation == {n \in 1..grants : base[n] <= MaxRequest}
-----------------------------------------------------------------------------
\* Outside the host.

\* The SaaS opens one operation for an expired credential.
Reserve ==
    /\ grants < MaxGrant /\ active \in expired /\ ~Outstanding
    /\ \A n \in Operation : base[n] # active
    /\ grants' = grants + 1
    /\ base' = [base EXCEPT ![grants'] = active]
    /\ UNCHANGED <<files, backups, agent, order, lapsed, run, world, budget>>
    /\ UNCHANGED <<helper, history, manual>>

\* Its baseline grows older than ten minutes, or the pilot is switched off.
Lapse(n) ==
    /\ n \notin lapsed
    /\ lapsed' = lapsed \cup {n}
    /\ UNCHANGED <<files, backups, agent, order, base, run, world, budget, helper, central>>

\* An operator installs a token of their own, or runs the wrapper by hand.
InstallToken ==
    /\ grants < MaxGrant /\ manual < MaxManual
    /\ active \in expired /\ ~Outstanding /\ hpc = "idle" /\ token = 0 /\ ~Marked /\ pc = "off"
    /\ grants' = grants + 1 /\ token' = grants'
    /\ UNCHANGED <<parts, journal, active, runtime, marker, completed>>
    /\ UNCHANGED <<backups, agent, pilot, run, world, budget, helper, history, manual>>

RunByHand ==
    /\ manual < MaxManual
    /\ manual' = manual + 1
    /\ Begin(0)
    /\ UNCHANGED <<helper, history, grants>>
-----------------------------------------------------------------------------
\* expired_node_helper.dispatch, one command at a time under the delivery lock.

Command(n) == hpc = "idle" /\ hop' = n

Prepare(n) ==
    /\ Command(n) /\ ~Outstanding /\ pc = "off"
    /\ Admission(n, FALSE)
    /\ parts = {} /\ made < MaxRequest
    /\ hpc' = "prepare" /\ pc' = "offer"
    /\ UNCHANGED <<files, backups, agent, pilot, env, mem, orphan, rc, world, budget, central>>

Prepared ==
    /\ hpc = "prepare" /\ pc = "offer" /\ Whole
    /\ Become("idle") /\ Goto("off")
    /\ UNCHANGED <<files, backups, agent, pilot, world, budget, central>>

\* The journal is written before the token, so that an interrupted delivery can
\* only continue with the same one.
Deliver(n) ==
    /\ Command(n) /\ Admission(n, FALSE) /\ token = 0
    /\ \/ order.phase = "none" /\ UNCHANGED history
       \/ /\ order.phase = "ACCEPTED" /\ order.op # n
          /\ history' = history \cup {order.op}
          /\ n \notin history' /\ base[order.op] # base[n]
    /\ order' = [op |-> n, phase |-> "DELIVERED"] /\ hpc' = "token"
    /\ UNCHANGED <<files, backups, agent, base, lapsed, run, world, budget, grants, manual>>

Redeliver(n) ==
    /\ Command(n) /\ Admission(n, FALSE)
    /\ order = [op |-> n, phase |-> "DELIVERED"] /\ token = 0
    /\ hpc' = "token"
    /\ UNCHANGED <<files, backups, agent, pilot, run, world, budget, central>>

WriteToken ==
    /\ hpc = "token"
    /\ token' = IF token = 0 THEN hop ELSE token
    /\ Become("idle")
    /\ UNCHANGED <<parts, journal, active, runtime, marker, completed>>
    /\ UNCHANGED <<backups, agent, pilot, run, world, budget, central>>

Apply(n) ==
    /\ Command(n) /\ order = [op |-> n, phase |-> "DELIVERED"] /\ Admission(n, FALSE)
    /\ Phase("APPLY_DISPATCHED") /\ hpc' = "spawn"
    /\ UNCHANGED <<files, backups, agent, run, world, budget, central>>

\* What reconcile makes of the marker.  Without one, the receipt of the same
\* operation brings it back; without a credential, the central database either
\* proves that nothing was signed or names the credential that was.
RestoredMarker(n) ==
    /\ ~Marked /\ completed.op = n /\ completed.acked /\ active = completed.req
    /\ marker' = completed
NoSignProved ==
    \/ marker.dispatch = "KNOWN_NO_SIGN"
    \/ marker.dispatch = "READY" /\ ~marker.posted /\ marker.proof
NotSigned(n) ==
    /\ Marked /\ marker.cred = 0 /\ NoSignProved
    /\ marker.op = n /\ Whole /\ made = marker.req
    /\ marker.req \notin open /\ saas[marker.req] = "none"
    /\ Admission(n, TRUE)
    /\ marker' = [marker EXCEPT !.dispatch = "READY", !.posted = FALSE, !.proof = TRUE]
BoundCredential(n) ==
    /\ Marked /\ marker.cred = 0 /\ ~NoSignProved
    /\ marker.op = n /\ Whole /\ made = marker.req
    /\ saas[marker.req] # "none"
    /\ marker' = [marker EXCEPT !.cred = marker.req]
KnownCredential == marker.cred # 0 /\ UNCHANGED marker

Reconcile(n) ==
    /\ Command(n) /\ order = [op |-> n, phase |-> "APPLY_DISPATCHED"]
    /\ RestoredMarker(n) \/ NotSigned(n) \/ BoundCredential(n) \/ KnownCredential
    /\ hpc' = "spawn"
    /\ UNCHANGED <<parts, journal, active, runtime, completed, token>>
    /\ UNCHANGED <<backups, agent, pilot, run, world, budget, central>>

\* The wrapper runs; it refuses while the recovery lock is held, or without a
\* token or marker.  Only a refusal by the lock without a marker undoes the
\* dispatch.
Spawn ==
    /\ hpc = "spawn"
    /\ \/ Begin(hop) /\ Become("wait")
       \/ /\ pc # "off" /\ Become("idle")
          /\ IF Marked THEN UNCHANGED pilot ELSE Phase("DELIVERED")
          /\ UNCHANGED <<files, backups, agent, run, world, budget>>
       \/ /\ pc = "off" /\ token = 0 /\ ~Marked /\ Become("idle")
          /\ UNCHANGED <<files, backups, agent, pilot, run, world, budget>>
    /\ UNCHANGED central

Clean == token = 0 /\ ~Marked /\ journal = 0 /\ agent /\ runtime = "SHADOW_ACTIVE"
    /\ completed.op = hop /\ completed.acked /\ active = completed.req

\* cleanup_evidence: the copies in the backups of this operation are removed.
ReturnedKeeping ==    \* mutant: the wrapper is trusted to have removed them
    /\ hpc = "wait" /\ pc = "off"
    /\ \/ rc = "passed" /\ Clean /\ Become("accept")
       \/ ~(rc = "passed" /\ Clean) /\ Become("idle")
    /\ rc' = "none"
    /\ UNCHANGED <<files, backups, agent, pilot, pc, env, mem, orphan, world, budget, central>>
Returned ==
    /\ hpc = "wait" /\ pc = "off"
    /\ \/ rc = "passed" /\ Clean /\ Become("accept")
          /\ copies' = {c \in copies : c.op # hop}
       \/ ~(rc = "passed" /\ Clean) /\ Become("idle") /\ UNCHANGED copies
    /\ rc' = "none"
    /\ UNCHANGED <<files, mine, agent, pilot, pc, env, mem, orphan, world, budget, central>>

Accept ==
    /\ hpc = "accept"
    /\ Phase("ACCEPTED") /\ Become("idle")
    /\ UNCHANGED <<files, backups, agent, run, world, budget, central>>

\* After 300 s the helper kills the wrapper's shell and fails; a client that is
\* under way lives on and keeps the recovery lock.
GiveUp ==
    /\ hpc = "wait" /\ pc # "off" /\ Fault
    /\ Become("idle")
    /\ \/ /\ pc \in Client
          /\ orphan' = TRUE /\ UNCHANGED <<pc, env, mem, rc>>
          /\ mine' = {} /\ copies' = copies \cup mine
       \/ pc \notin Client /\ Exit("failed")
    /\ UNCHANGED <<files, agent, pilot, world, central>>

\* The helper alone dies, or the host restarts and with it the enabled service.
HelperDies ==
    /\ hpc # "idle" /\ crashes < MaxCrash
    /\ crashes' = crashes + 1 /\ UNCHANGED <<made, faults>>
    /\ Become("idle")
    /\ IF hpc = "prepare" THEN Goto("off") ELSE UNCHANGED run
    /\ UNCHANGED <<files, backups, agent, pilot, world, central>>

Reboot ==
    /\ crashes < MaxCrash
    /\ crashes' = crashes + 1 /\ UNCHANGED <<made, faults>>
    /\ Exit("failed") /\ agent' = TRUE
    /\ Become("idle")
    /\ UNCHANGED <<files, pilot, world, central>>

HelperStep == Prepared \/ WriteToken \/ Spawn \/ Returned \/ Accept
HostStep == (Wrapper \/ AgentCycle) /\ UNCHANGED <<helper, central>>

Next ==
    \/ Reserve \/ InstallToken \/ RunByHand
    \/ \E n \in Operation :
        Lapse(n) \/ Prepare(n) \/ Deliver(n) \/ Redeliver(n) \/ Apply(n) \/ Reconcile(n)
    \/ HelperStep \/ GiveUp \/ HelperDies \/ Reboot
    \/ HostStep \/ ((Kill \/ (Expire /\ ~Outstanding)) /\ UNCHANGED <<helper, central>>)

Spec == Init /\ [][Next]_vars
-----------------------------------------------------------------------------
Positions == Client \cup {"off", "check", "stop", "start", "await", "tidy", "offer"}
Copy == [op: 0..MaxGrant, token: Grant]

TypeOK ==
    /\ parts \subseteq Parts /\ journal \in 0..MaxRequest /\ active \in 0..MaxRequest
    /\ runtime \in {"BLOCKED", "FALLBACK", "SHADOW_READY", "SHADOW_ACTIVE"}
    /\ marker \in Marker /\ completed \in Marker /\ mem \in Marker
    /\ token \in 0..MaxGrant /\ mine \subseteq Copy /\ copies \subseteq Copy
    /\ agent \in BOOLEAN /\ orphan \in BOOLEAN
    /\ order \in [op: 0..MaxGrant, phase: {"none", "DELIVERED", "APPLY_DISPATCHED", "ACCEPTED"}]
    /\ base \in [Grant -> 0..MaxRequest + 1] /\ lapsed \subseteq Grant
    /\ pc \in Positions /\ env \in 0..MaxGrant /\ rc \in {"none", "failed", "passed"}
    /\ saas \in [Request -> {"none", "issued", "acknowledged"}]
    /\ open \subseteq Request /\ expired \subseteq 0..MaxRequest
    /\ made \in 0..MaxRequest /\ faults \in 0..MaxFault /\ crashes \in 0..MaxCrash
    /\ hpc \in {"idle", "prepare", "token", "spawn", "wait", "accept"} /\ hop \in 0..MaxGrant
    /\ history \subseteq Grant /\ grants \in 0..MaxGrant /\ manual \in 0..MaxManual

\* EXPIRED_NODE_PILOT.md "Lost response, process death or unbound legacy markers
\* never grant a second POST, even with the same CSR": a request is posted again
\* only after a proof that every earlier POST of it was refused.
NoSecondSign == pc = "post" => mem.req \notin open /\ saas[mem.req] = "none"

\* Wherever a process or the host dies, a credential that the SaaS has issued and
\* that is not acknowledged can still be taken into use: the token, the marker of
\* its request, and the whole request or the activated generation are there.
IssuedIsKept ==
    \A r \in Request : saas[r] = "issued" =>
        /\ token # 0 /\ marker.req = r
        /\ (Whole /\ made = r) \/ (active = r /\ journal = r)

\* The SaaS retires the expired credential with the acknowledgement: from then on
\* the node holds the new identity and never goes back behind it.
AcknowledgedIsActive == \A r \in Request : saas[r] = "acknowledged" => r <= active

\* An accepted operation has left nothing of its grant on the host: no token, no
\* marker, no copy in a backup that names the operation.
AcceptedIsClean ==
    order.phase = "ACCEPTED" =>
        /\ token # order.op /\ marker.op # order.op
        /\ \A c \in copies : c.op # order.op

\* The processes of the host go on, and the central service reconciles again
\* while an operation is under way.  Faults and deaths are finite.
Fairness ==
    /\ WF_vars(HelperStep) /\ WF_vars(Wrapper /\ UNCHANGED <<helper, central>>)
    /\ WF_vars(AgentCycle /\ UNCHANGED <<helper, central>>)
    /\ SF_vars(\E n \in Operation : Reconcile(n))
FairSpec == Spec /\ Fairness

\* Once its request is signed, an operation ends ACCEPTED whatever dies, also when
\* the pilot has lapsed.  Two cases are left out: an Agent that was not BLOCKED and
\* acknowledged the credential itself, and a refusal by the recovery lock that
\* returned the operation to DELIVERED.
Signed(n) ==
    /\ order = [op |-> n, phase |-> "APPLY_DISPATCHED"] /\ runtime = "BLOCKED"
    /\ marker.op = n /\ marker.req # 0 /\ saas[marker.req] # "none"

\* EXPIRED_NODE_PILOT.md "reconcile resumes the exact protected operation": without
\* the second exception.
ReconcileResumes == \A n \in Grant : Signed(n) ~> order = [op |-> n, phase |-> "ACCEPTED"]
=============================================================================
