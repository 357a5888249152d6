----------------------- MODULE MtlsLifecycle_proofs -----------------------
(* Proofs about MtlsLifecycle for all modes, durations, retry limits and      *)
(* bounds, and for failures and deaths at every point.                        *)
EXTENDS MtlsLifecycle, FiniteSetTheorems, TLAPS

Working == {"prepare", "csr", "meta", "request", "journal", "generation", "switch",
            "unlink", "ack", "forget", "ready"}
Requesting == {"prepare", "csr", "meta", "request", "journal"}
Pending == {key, csr, meta}
Whole(r) == key = r /\ csr = r /\ meta = r

-----------------------------------------------------------------------------
(* The inductive invariant.                                                   *)

\* Names are given out in order; only prepared requests are known anywhere.
Names ==
    /\ key <= made /\ csr <= made /\ meta <= made /\ journal <= made /\ active <= made
    /\ \A r \in Request : r \in gens \/ saas[r] # "none" => r <= made

\* What the files say of each other and of the SaaS.
Files ==
    /\ \A f, g \in Pending : f = 0 \/ g = 0 \/ f = g
    /\ \A f \in Pending : f # 0 => f >= active /\ (f = active => journal = active)
    /\ journal # 0 =>
         /\ journal >= active /\ Pending \subseteq {0, journal}
         /\ saas[journal] # "none"
         /\ saas[journal] = "acknowledged" => active = journal
    /\ active # 0 => active \in gens /\ saas[active] # "none"

\* What the loop knows at each point of a cycle.
Requests ==
    /\ pc = "idle" => target = 0
    /\ pc \in Requesting =>
         /\ journal = target
         /\ target # 0 => Whole(target) /\ active # target /\ saas[target] = "issued"
    /\ pc = "csr" => key # 0 /\ csr = 0 /\ meta = 0
    /\ pc = "meta" => key # 0 /\ csr = key /\ meta = 0
    /\ pc \in {"request", "journal", "generation", "switch"} => meta # 0 /\ Whole(meta)
    /\ pc = "journal" => saas[meta] = "issued"
Activation ==
    /\ pc \in {"generation", "switch"} => journal = meta /\ active # journal
    /\ pc = "switch" => journal \in gens
    /\ pc \in {"unlink", "ack", "forget"} => journal # 0 /\ active = journal
    /\ pc \in {"ack", "forget", "ready"} => Whole(0)
    /\ pc = "forget" => saas[journal] = "acknowledged"
    /\ pc = "ready" => journal = 0 /\ active # 0 /\ saas[active] = "acknowledged"

\* What the persisted state says.
States ==
    /\ runtime.state \in Resting => runtime.attempts = 0 /\ pc \notin Working
    /\ runtime.state = "BEARER_ONLY" => active = 0 /\ journal = 0
    /\ runtime.state = "BLOCKED" => pc \in {"idle", "beat"}

Delivery == DeliveryCompletable /\ AcknowledgedIsActive
IInv == TypeOK /\ Names /\ Files /\ Requests /\ Activation /\ States /\ Delivery /\ ReadyIsAcknowledged

-----------------------------------------------------------------------------
(* Operators.                                                                 *)

\* The delay before the next attempt is at least one tick and at most the
\* configured maximum.
LEMMA BackoffBounds == \A n \in Nat : Backoff(n) \in 1..Cooldown
  BY TimeAssumption DEF Backoff

\* A recorded failure keeps the counter within its limit, leaves every resting
\* state, and blocks unless it may be repeated.
LEMMA FailureRecorded ==
  ASSUME TypeOK, NEW code \in {"transient", "permanent"}, NEW renew \in BOOLEAN, NEW late \in BOOLEAN,
         RecordFailure(code, renew, late)
  PROVE  /\ runtime' \in [state: State, attempts: 0..RetryMax, code: {"none", "transient", "permanent"}]
         /\ wait' \in 0..Cooldown
         /\ runtime'.state \in {"BLOCKED", "FALLBACK"} /\ runtime'.code = code
         /\ runtime'.state = "BLOCKED" =>
              code = "permanent" \/ (runtime.attempts + 1 >= RetryMax /\ ~renew)
  <1> DEFINE n == runtime.attempts + 1
             blocked == code = "permanent" \/ (n >= RetryMax /\ ~renew)
             k == Least(n, RetryMax)
  <1>1. n \in Nat /\ k \in 0..RetryMax
    BY BoundAssumption DEF TypeOK, Least
  <1>2. Backoff(k) \in 1..Cooldown
    BY <1>1, BackoffBounds
  <1>3. FailureAs(code, k, blocked, late)
    BY DEF RecordFailure
  <1> HIDE DEF n, k, blocked
  <1>4. /\ runtime' = [state |-> IF blocked THEN "BLOCKED" ELSE "FALLBACK", attempts |-> k, code |-> code]
        /\ wait' = IF blocked THEN 0 ELSE IF late THEN Backoff(k) - 1 ELSE Backoff(k)
    BY <1>3 DEF FailureAs
  <1>5. wait' \in 0..Cooldown
    BY <1>2, <1>4, TimeAssumption
  <1>6. blocked => code = "permanent" \/ (runtime.attempts + 1 >= RetryMax /\ ~renew)
    BY DEF blocked, n
  <1> QED  BY <1>1, <1>4, <1>5, <1>6 DEF State

-----------------------------------------------------------------------------
(* What each group of actions leaves alone.                                   *)

DiskSteps == PublishKey \/ PublishCsr \/ PublishMeta \/ RecordJournal \/ CommitGeneration
             \/ Activate \/ Unlink \/ ClearJournal

LEMMA DiskFrame ==
  ASSUME [Next]_vars, ~DiskSteps
  PROVE  UNCHANGED <<key, csr, meta, journal, gens, active, made>>
  BY DEF Next, Cycle, DiskSteps, vars, disk, pending, budget, Skip, Enter, Refuse, Resume,
     ResumeActivated, Enroll, NotDue, Rotate, PrepareRefuse, PrepareReuse, Deliver, Fault,
     NoConnection, Acknowledge, Finish, Heartbeat, Tick, Crash

LEMMA WorldFrame ==
  ASSUME [Next]_vars, ~Deliver, ~Acknowledge
  PROVE  saas' = saas /\ (~Tick => UNCHANGED <<life, ttl>>)
  BY DEF Next, Cycle, vars, world, Skip, Enter, Refuse, Resume, ResumeActivated, Enroll,
     NotDue, Rotate, PrepareRefuse, PrepareReuse, PublishKey, PublishCsr, PublishMeta,
     NoConnection, RecordJournal, CommitGeneration, Activate, Unlink, ClearJournal, Finish,
     Heartbeat, Tick, Crash

\* Every step leaves the persisted state alone, lets time pass, records a
\* failure, begins work, or clears the counter in a ready state.
Missed == /\ pc' = "idle" /\ runtime.state \in Resting
          /\ \E code \in {"transient", "permanent"} : RecordFailure(code, FALSE, FALSE)
Failure == \/ \E code \in {"transient", "permanent"} : Fail(code)
           \/ pc' = "beat" /\ RecordFailure("permanent", FALSE, FALSE)
           \/ Missed
Clearing == /\ NotDue \/ Finish \/ (Heartbeat /\ runtime.state \in Resting /\ Valid(active))
            /\ ClearRetry("SHADOW_READY") \/ ClearRetry("SHADOW_ACTIVE")
Beginning == Transition("ENROLLING") \/ Transition("ROTATING")

LEMMA Codes == FaultCode \subseteq {"transient", "permanent"}
  BY DEF FaultCode

LEMMA FailureEffect ==
  ASSUME TypeOK, Failure
  PROVE  /\ runtime' \in [state: State, attempts: 0..RetryMax, code: {"none", "transient", "permanent"}]
         /\ wait' \in 0..Cooldown
         /\ runtime'.state \in {"BLOCKED", "FALLBACK"} /\ pc' \in {"idle", "beat"}
         /\ runtime'.state = "BLOCKED" /\ runtime'.code = "transient" =>
              \/ ~renewal
              \/ runtime.state \in Resting /\ runtime.attempts + 1 >= RetryMax
  <1>0. renewal \in BOOLEAN /\ elapsed \in BOOLEAN
    BY DEF TypeOK
  <1>1. CASE \E code \in {"transient", "permanent"} : Fail(code)
    BY <1>0, <1>1, FailureRecorded DEF Fail, Goto
  <1>2. CASE pc' = "beat" /\ RecordFailure("permanent", FALSE, FALSE)
    BY <1>2, FailureRecorded
  <1>3. CASE Missed
    BY <1>3, FailureRecorded DEF Missed
  <1> QED  BY <1>1, <1>2, <1>3 DEF Failure

LEMMA PaceFrame ==
  ASSUME [Next]_vars, ~Tick
  PROVE  UNCHANGED <<runtime, wait>> \/ Failure \/ Clearing \/ Beginning
  <1>1. CASE Refuse \/ Resume \/ ResumeActivated \/ Enroll
    <2>1. BlockNow => Failure
      BY DEF BlockNow, Failure, Goto
    <2> QED
      BY <1>1, <2>1 DEF Refuse, Resume, ResumeActivated, Enroll, Beginning
  <1>2. CASE NotDue \/ Rotate \/ Finish
    BY <1>2 DEF NotDue, Rotate, Finish, Clearing, Beginning
  <1>3. CASE PrepareRefuse \/ NoConnection
    BY <1>3 DEF PrepareRefuse, NoConnection, Failure
  <1>4. CASE RecordJournal
    BY <1>4 DEF RecordJournal, Failure
  <1>5. CASE CommitGeneration
    BY <1>5 DEF CommitGeneration, Failure
  <1>6. CASE Deliver
    <2>1. \/ UNCHANGED <<runtime, wait>>
          \/ \E code \in FaultCode \cup {"transient", "permanent"} : Fail(code)
      BY <1>6 DEF Deliver
    <2> QED  BY <2>1, Codes DEF Failure
  <1>7. CASE Acknowledge
    <2>1. \/ UNCHANGED <<runtime, wait>>
          \/ \E code \in FaultCode \cup {"transient", "permanent"} : Fail(code)
      BY <1>7 DEF Acknowledge
    <2> QED  BY <2>1, Codes DEF Failure
  <1>8. CASE Heartbeat
    <2>1. pc' = "idle"
      BY <1>8 DEF Heartbeat, Goto
    <2>2. \/ UNCHANGED <<runtime, wait>> \/ Clearing
          \/ Shadow /\ \E code \in FaultCode \cup {"permanent"} : RecordFailure(code, FALSE, FALSE)
      BY <1>8 DEF Heartbeat, Clearing, Shadow, Resting
    <2> QED  BY <2>1, <2>2, Codes DEF Failure, Missed, Shadow
  <1>9. CASE \/ Skip \/ PrepareReuse \/ PublishKey \/ PublishCsr \/ PublishMeta \/ Activate
             \/ Unlink \/ ClearJournal \/ Crash \/ UNCHANGED vars
    BY <1>9 DEF Skip, PrepareReuse, PublishKey, PublishCsr, PublishMeta, Activate, Unlink,
       ClearJournal, Crash, vars
  <1> QED
    BY <1>1, <1>2, <1>3, <1>4, <1>5, <1>6, <1>7, <1>8, <1>9 DEF Next, Cycle

-----------------------------------------------------------------------------
(* Typing, in four parts.                                                     *)

DiskType ==
    /\ key \in 0..MaxRequest /\ csr \in 0..MaxRequest /\ meta \in 0..MaxRequest
    /\ journal \in 0..MaxRequest /\ gens \subseteq Request /\ active \in gens \cup {0}
    /\ made \in 0..MaxRequest
WorldType ==
    /\ saas \in [Request -> {"none", "issued", "acknowledged"}]
    /\ life \in [Request -> 0..Life] /\ ttl \in [Request -> 0..DeliveryTtl]
PaceType ==
    /\ runtime \in [state: State, attempts: 0..RetryMax, code: {"none", "transient", "permanent"}]
    /\ wait \in 0..Cooldown
LoopType ==
    /\ mode \in Modes
    /\ pc \in {"idle", "beat"} \cup Working
    /\ channel \in {"none", "bearer", "mtls"} /\ target \in 0..MaxRequest /\ renewal \in BOOLEAN
    /\ elapsed \in BOOLEAN /\ awake \in BOOLEAN
    /\ faults \in 0..MaxFault /\ crashes \in 0..MaxCrash

LEMMA TypeParts == TypeOK <=> DiskType /\ WorldType /\ PaceType /\ LoopType
  BY DEF TypeOK, DiskType, WorldType, PaceType, LoopType, Working

LEMMA DiskTyped ==
  ASSUME DiskType, Activation, Requests, Files, pc \in {"idle", "beat"} \cup Working, [Next]_vars
  PROVE  DiskType'
  <1> USE BoundAssumption DEF DiskType, Request, disk, pending, cycle, budget, world
  <1>1. CASE ~DiskSteps
    BY <1>1, DiskFrame
  <1>2. CASE PublishKey \/ PublishCsr \/ PublishMeta
    <2>1. CASE PublishKey
      <3>1. made' = made + 1 /\ key' = made' /\ made < MaxRequest
        BY <2>1 DEF PublishKey
      <3>2. UNCHANGED <<csr, meta, journal, gens, active>>
        BY <2>1 DEF PublishKey
      <3> QED  BY <3>1, <3>2
    <2>2. CASE PublishCsr
      BY <2>2 DEF PublishCsr
    <2>3. CASE PublishMeta
      BY <2>3 DEF PublishMeta
    <2> QED  BY <1>2, <2>1, <2>2, <2>3
  <1>3. CASE RecordJournal
    BY <1>3 DEF RecordJournal
  <1>4. CASE CommitGeneration
    <2>1. UNCHANGED <<key, csr, meta, journal, active, made>>
      BY <1>4 DEF CommitGeneration
    <2>2. CASE Valid(journal)
      <3>1. gens' = gens \cup {journal}
        BY <1>4, <2>2 DEF CommitGeneration
      <3>2. journal # 0
        BY <2>2 DEF Valid
      <3> QED  BY <2>1, <3>1, <3>2
    <2>3. CASE ~Valid(journal)
      BY <1>4, <2>1, <2>3 DEF CommitGeneration
    <2> QED  BY <2>2, <2>3
  <1>5. CASE Activate
    BY <1>5 DEF Activate, Activation
  <1>6. CASE Unlink
    BY <1>6 DEF Unlink
  <1>7. CASE ClearJournal
    BY <1>7 DEF ClearJournal
  <1> QED  BY <1>1, <1>2, <1>3, <1>4, <1>5, <1>6, <1>7 DEF DiskSteps

LEMMA WorldTyped ==
  ASSUME WorldType, [Next]_vars
  PROVE  WorldType'
  <1> USE TimeAssumption DEF WorldType, world
  <1>1. CASE Deliver
    <2>1. UNCHANGED world \/ Issued(IF target = 0 THEN meta ELSE target)
      BY <1>1 DEF Deliver
    <2> QED  BY <2>1 DEF Issued
  <1>2. CASE Acknowledge
    BY <1>2 DEF Acknowledge
  <1>3. CASE Tick
    BY <1>3 DEF Tick
  <1>4. CASE ~Deliver /\ ~Acknowledge /\ ~Tick
    BY <1>4, WorldFrame
  <1> QED  BY <1>1, <1>2, <1>3, <1>4

LEMMA PaceTyped ==
  ASSUME TypeOK, [Next]_vars
  PROVE  PaceType'
  <1>0. PaceType
    BY TypeParts
  <1>1. CASE Tick
    BY <1>0, <1>1, TimeAssumption DEF Tick, PaceType
  <1>2. CASE UNCHANGED <<runtime, wait>>
    BY <1>0, <1>2 DEF PaceType
  <1>3. CASE Failure
    BY <1>3, FailureEffect DEF PaceType
  <1>4. CASE Clearing
    BY <1>0, <1>4, TimeAssumption, BoundAssumption DEF Clearing, ClearRetry, PaceType, State
  <1>5. CASE Beginning
    BY <1>0, <1>5 DEF Beginning, Transition, PaceType, State
  <1> QED  BY <1>1, <1>2, <1>3, <1>4, <1>5, PaceFrame

LEMMA HeartbeatFrame ==
  ASSUME Heartbeat
  PROVE  /\ UNCHANGED budget \/ Fault
         /\ pc' = "idle" /\ channel' = "none" /\ target' = 0
         /\ renewal' = FALSE /\ elapsed' = FALSE
         /\ UNCHANGED <<awake, mode, disk, world>>
  BY DEF Heartbeat, Goto

LEMMA CrashFrame ==
  ASSUME Crash
  PROVE  /\ crashes < MaxCrash /\ crashes' = crashes + 1
         /\ pc' = "idle" /\ awake' = FALSE /\ channel' = "none" /\ target' = 0
         /\ renewal' = FALSE /\ elapsed' = FALSE
         /\ mode' \in Modes /\ faults' = faults
  BY DEF Crash

LEMMA LoopTyped ==
  ASSUME TypeOK, [Next]_vars
  PROVE  LoopType'
  <1>0. LoopType /\ DiskType
    BY TypeParts
  <1> USE <1>0, BoundAssumption DEF LoopType, DiskType, Working, Goto, cycle, budget
  <1>1. CASE \/ Skip \/ NotDue \/ Rotate \/ Refuse \/ Resume \/ ResumeActivated \/ Enroll
    BY <1>1 DEF Skip, NotDue, Rotate, Refuse, Resume, ResumeActivated, Enroll, Enter, Valid, BlockNow
  <1>2. CASE PrepareRefuse \/ PrepareReuse \/ PublishKey \/ PublishCsr \/ PublishMeta \/ NoConnection
    BY <1>2 DEF PrepareRefuse, PrepareReuse, PublishKey, PublishCsr, PublishMeta, NoConnection, Fail
  <1>3. CASE Deliver
    BY <1>3 DEF Deliver, Fail, Fault
  <1>4. CASE Acknowledge
    BY <1>4 DEF Acknowledge, Fail, Fault
  <1>5. CASE RecordJournal \/ CommitGeneration \/ Activate \/ Unlink \/ ClearJournal \/ Finish
    <2>1. UNCHANGED <<mode, channel, target, renewal, elapsed, awake, faults, crashes>>
      BY <1>5 DEF RecordJournal, CommitGeneration, Activate, Unlink, ClearJournal, Finish
    <2>2. pc' \in {pc, "generation", "switch", "unlink", "ack", "ready", "beat"}
      BY <1>5 DEF RecordJournal, CommitGeneration, Activate, Unlink, ClearJournal, Finish, Fail
    <2> QED  BY <2>1, <2>2
  <1>6. CASE Heartbeat
    BY <1>6, HeartbeatFrame DEF Fault
  <1>7. CASE Tick
    BY <1>7 DEF Tick
  <1>8. CASE Crash
    BY <1>8, CrashFrame
  <1>9. CASE UNCHANGED vars
    BY <1>9 DEF vars
  <1> QED
    BY <1>1, <1>2, <1>3, <1>4, <1>5, <1>6, <1>7, <1>8, <1>9 DEF Next, Cycle

LEMMA TypeStep == IInv /\ [Next]_vars => TypeOK'
  <1> SUFFICES ASSUME IInv, [Next]_vars PROVE TypeOK'
    OBVIOUS
  <1>1. DiskType /\ WorldType /\ pc \in {"idle", "beat"} \cup Working
    BY TypeParts DEF IInv, LoopType
  <1>2. DiskType' /\ WorldType' /\ PaceType' /\ LoopType'
    BY <1>1, DiskTyped, WorldTyped, PaceTyped, LoopTyped DEF IInv
  <1> QED  BY <1>2 DEF TypeOK, DiskType, WorldType, PaceType, LoopType, Working

-----------------------------------------------------------------------------
(* The files, the SaaS and the loop.                                          *)

\* Whoever retrieves a delivery knows it already; whoever asks for one holds no
\* journal.
LEMMA Answered ==
  ASSUME IInv, pc \in {"request", "journal"}
  PROVE  LET r == IF target = 0 THEN meta ELSE target
         IN  /\ r = meta /\ r \in Request /\ Whole(r) /\ active # r /\ r <= made
             /\ journal = target /\ target \in {0, r}
             /\ target # 0 => saas[r] = "issued"
  <1>1. DiskType /\ LoopType
    BY TypeParts DEF IInv
  <1>2. /\ journal = target /\ meta # 0 /\ Whole(meta)
        /\ target # 0 => Whole(target) /\ active # target /\ saas[target] = "issued"
    BY DEF IInv, Requests, Requesting
  <1>3. active # meta
    <2>1. meta \in Pending
      BY DEF Pending
    <2> QED  BY <1>1, <1>2, <2>1 DEF IInv, Files, DiskType, Whole
  <1> QED  BY <1>1, <1>2, <1>3 DEF IInv, Names, DiskType, Request, Whole

LEMMA FilesStep == IInv /\ [Next]_vars => Names' /\ Files'
  <1> SUFFICES ASSUME IInv, [Next]_vars PROVE Names' /\ Files'
    OBVIOUS
  <1>0. DiskType /\ WorldType /\ LoopType
    BY TypeParts DEF IInv
  <1> USE <1>0, BoundAssumption DEF IInv, DiskType, WorldType, Names, Files, Pending, Request,
          cycle, budget, world, disk, pending
  <1>1. CASE ~DiskSteps /\ ~Deliver /\ ~Acknowledge
    BY <1>1, DiskFrame, WorldFrame
  <1>2. CASE PublishKey
    <2>1. target = 0 /\ journal = 0
      BY <1>2 DEF PublishKey, Requests, Requesting, Whole
    <2>2. /\ key = 0 /\ csr = 0 /\ meta = 0
          /\ made' = made + 1 /\ key' = made' /\ made < MaxRequest
          /\ UNCHANGED <<csr, meta, journal, gens, active>>
      BY <1>2 DEF PublishKey
    <2>3. saas' = saas
      BY <1>2, WorldFrame DEF PublishKey, Deliver, Acknowledge
    <2>4. Names'
      BY <2>2, <2>3
    <2> QED  BY <2>1, <2>2, <2>3, <2>4
  <1>3. CASE PublishCsr
    BY <1>3 DEF PublishCsr, Requests
  <1>4. CASE PublishMeta
    BY <1>4 DEF PublishMeta, Requests
  <1>5. CASE Deliver
    <2> DEFINE r == IF target = 0 THEN meta ELSE target
    <2>1. UNCHANGED <<key, csr, meta, journal, gens, active, made>>
      BY <1>5, DiskFrame DEF DiskSteps, Deliver, PublishKey, PublishCsr, PublishMeta, RecordJournal,
         CommitGeneration, Activate, Unlink, ClearJournal
    <2>2. saas' = saas \/ (saas[r] = "none" /\ saas' = [saas EXCEPT ![r] = "issued"])
      BY <1>5 DEF Deliver, Issued
    <2>3. r \in Request /\ r <= made /\ r # active
      BY <1>5, Answered DEF Deliver
    <2> HIDE DEF r
    <2> QED  BY <2>1, <2>2, <2>3
  <1>6. CASE RecordJournal
    <2>1. pc \in {"request", "journal"} /\ meta # 0
      BY <1>6 DEF RecordJournal, Requests
    <2>2. /\ meta = key /\ meta = csr /\ active # meta /\ target \in {0, meta}
          /\ saas[meta] = "issued"
      BY <1>6, <2>1, Answered DEF RecordJournal, Requests, Whole
    <2> QED  BY <1>6, <2>1, <2>2 DEF RecordJournal
  <1>7. CASE CommitGeneration
    BY <1>7 DEF CommitGeneration, Activation
  <1>8. CASE Activate
    BY <1>8 DEF Activate, Activation, Requests, Whole
  <1>9. CASE Unlink
    BY <1>9 DEF Unlink, Activation
  <1>10. CASE Acknowledge
    <2>1. UNCHANGED <<key, csr, meta, journal, gens, active, made>>
      BY <1>10, DiskFrame DEF DiskSteps, Acknowledge, PublishKey, PublishCsr, PublishMeta,
         RecordJournal, CommitGeneration, Activate, Unlink, ClearJournal
    <2>2. saas' = saas \/ saas' = [saas EXCEPT ![journal] = "acknowledged"]
      BY <1>10 DEF Acknowledge
    <2>3. journal \in Request /\ active = journal
      BY <1>10 DEF Acknowledge, Activation
    <2> QED  BY <2>1, <2>2, <2>3
  <1>11. CASE ClearJournal
    BY <1>11 DEF ClearJournal, Activation, Whole
  <1> QED
    BY <1>1, <1>2, <1>3, <1>4, <1>5, <1>6, <1>7, <1>8, <1>9, <1>10, <1>11 DEF DiskSteps

\* A step that neither touches the files nor tells the SaaS anything.
Quiet == UNCHANGED <<key, csr, meta, journal, gens, active, made, saas>>
LEMMA QuietSteps ==
  ASSUME [Next]_vars, ~DiskSteps, ~Deliver, ~Acknowledge
  PROVE  Quiet
  BY DiskFrame, WorldFrame DEF Quiet

LEMMA PlaceStep == IInv /\ [Next]_vars => Requests' /\ Activation'
  <1> SUFFICES ASSUME IInv, [Next]_vars PROVE Requests' /\ Activation'
    OBVIOUS
  <1>0. DiskType /\ WorldType /\ LoopType
    BY TypeParts DEF IInv
  <1> USE <1>0 DEF IInv, DiskType, Requests, Activation, Requesting, Whole, Goto
  <1>1. CASE pc' \in {"idle", "beat"} /\ target' = 0
    BY <1>1
  <1>2. CASE Skip \/ NotDue \/ Refuse \/ Finish
    BY <1>2 DEF Skip, NotDue, Refuse, Finish, Enter, BlockNow, cycle
  <1>3. CASE Resume
    <2>1. CASE pc' = "beat"
      BY <2>1
    <2>2. CASE pc' # "beat"
      <3>1. /\ pc' = "prepare" /\ target' = journal /\ journal # 0 /\ active # journal
            /\ UNCHANGED <<key, csr, meta, journal, gens, active, saas>>
        BY <1>3, <2>2 DEF Resume, BlockNow, disk, pending, world
      <3>2. saas[journal] = "issued" /\ Whole(journal)
        BY <3>1, <1>0 DEF Files, Delivery, DeliveryCompletable, WorldType, Request
      <3> QED  BY <3>1, <3>2
    <2> QED  BY <2>1, <2>2
  <1>4. CASE ResumeActivated
    BY <1>4 DEF ResumeActivated, BlockNow, Enter, disk, pending, world
  <1>5. CASE Enroll
    BY <1>5 DEF Enroll, BlockNow, Enter, disk, pending, world
  <1>6. CASE Rotate
    BY <1>6 DEF Rotate, Enter, disk, pending, world
  <1>7. CASE PrepareRefuse \/ NoConnection
    BY <1>7 DEF PrepareRefuse, NoConnection, Fail
  <1>8. CASE PrepareReuse
    <2>1. /\ key # 0 /\ csr # 0 /\ meta # 0 /\ key = csr /\ csr = meta
      BY <1>8 DEF PrepareReuse, Files, Pending
    <2> QED  BY <1>8, <2>1 DEF PrepareReuse, disk, pending, world, cycle
  <1>9. CASE PublishKey
    <2>1. /\ key = 0 /\ csr = 0 /\ meta = 0 /\ pc = "prepare" /\ pc' = "csr"
          /\ key' = made + 1 /\ made \in Nat
          /\ UNCHANGED <<csr, meta, journal>>
      BY <1>9, BoundAssumption DEF PublishKey
    <2>2. UNCHANGED target
      BY <1>9 DEF PublishKey, cycle
    <2> QED  BY <2>1, <2>2
  <1>10. CASE PublishCsr
    BY <1>10 DEF PublishCsr, cycle, world
  <1>11. CASE PublishMeta
    BY <1>11 DEF PublishMeta, cycle, world
  <1>12. CASE Deliver
    <2> DEFINE r == IF target = 0 THEN meta ELSE target
    <2>1. UNCHANGED <<key, csr, meta, journal, gens, active, target>> /\ pc = "request"
      BY <1>12 DEF Deliver, disk, pending, cycle
    <2>2. pc' \in {"journal", "beat"}
      BY <1>12 DEF Deliver, Fail
    <2>3. pc' = "journal" => saas'[r] = "issued"
      <3>1. r \in Request
        BY <2>1, Answered
      <3>2. pc' = "journal" => Delivers(r) /\ Issued(r)
        BY <1>12 DEF Deliver, Fail
      <3> HIDE DEF r
      <3> QED  BY <3>1, <3>2 DEF Delivers, Issued, world, WorldType
    <2>4. r = meta
      BY <2>1, Answered
    <2> HIDE DEF r
    <2> QED  BY <2>1, <2>2, <2>3, <2>4
  <1>13. CASE RecordJournal
    <2>1. active # meta /\ meta # 0
      BY <1>13, Answered DEF RecordJournal
    <2> QED  BY <1>13, <2>1 DEF RecordJournal, Fail, pending, world
  <1>14. CASE CommitGeneration
    BY <1>14 DEF CommitGeneration, Fail, pending, world
  <1>15. CASE Activate
    BY <1>15 DEF Activate, pending, world
  <1>16. CASE Unlink
    BY <1>16 DEF Unlink, world
  <1>17. CASE Acknowledge
    <2>1. UNCHANGED <<key, csr, meta, journal, gens, active>> /\ pc = "ack" /\ pc' \in {"forget", "beat"}
      BY <1>17 DEF Acknowledge, disk, pending, Fail
    <2>2. pc' = "forget" => saas' = [saas EXCEPT ![journal] = "acknowledged"]
      BY <1>17 DEF Acknowledge, Fail
    <2> QED  BY <2>1, <2>2 DEF WorldType, Request
  <1>18. CASE ClearJournal
    BY <1>18 DEF ClearJournal, pending, world
  <1>19. CASE Heartbeat
    BY <1>19, HeartbeatFrame
  <1>20. CASE Tick
    BY <1>20 DEF Tick, disk, pending
  <1>21. CASE Crash
    BY <1>21, CrashFrame
  <1>22. CASE UNCHANGED vars
    BY <1>22 DEF vars, disk, pending, world, cycle
  <1> QED
    BY <1>2, <1>3, <1>4, <1>5, <1>6, <1>7, <1>8, <1>9, <1>10, <1>11, <1>12, <1>13, <1>14,
       <1>15, <1>16, <1>17, <1>18, <1>19, <1>20, <1>21, <1>22 DEF Next, Cycle

LEMMA DeliveryStep == IInv /\ [Next]_vars => Delivery'
  <1> SUFFICES ASSUME IInv, [Next]_vars PROVE Delivery'
    OBVIOUS
  <1>0. DiskType /\ WorldType /\ LoopType
    BY TypeParts DEF IInv
  <1> USE <1>0 DEF IInv, Delivery, DeliveryCompletable, AcknowledgedIsActive, DiskType, WorldType,
          Request
  <1>1. CASE Quiet
    BY <1>1 DEF Quiet
  <1>2. CASE PublishKey
    <2>1. journal = 0 /\ key = 0
      BY <1>2 DEF PublishKey, Requests, Requesting, Whole
    <2> QED  BY <1>2, <2>1 DEF PublishKey, world
  <1>3. CASE PublishCsr
    BY <1>3 DEF PublishCsr, world, Requests
  <1>4. CASE PublishMeta
    BY <1>4 DEF PublishMeta, world, Requests
  <1>5. CASE Deliver
    <2> DEFINE r == IF target = 0 THEN meta ELSE target
    <2>1. UNCHANGED <<key, csr, meta, journal, gens, active>>
      BY <1>5 DEF Deliver, disk, pending
    <2>2. saas' = saas \/ (saas[r] = "none" /\ saas' = [saas EXCEPT ![r] = "issued"])
      BY <1>5 DEF Deliver, Issued, world
    <2>3. r \in Request /\ Whole(r) /\ r # active
      BY <1>5, Answered DEF Deliver
    <2> HIDE DEF r
    <2> QED  BY <2>1, <2>2, <2>3 DEF Whole
  <1>6. CASE RecordJournal
    <2>1. (active # meta /\ Whole(meta) /\ journal \in {0, meta}) \/ journal' = journal
      BY <1>6, Answered DEF RecordJournal
    <2> QED  BY <1>6, <2>1 DEF RecordJournal, pending, world, Whole
  <1>7. CASE CommitGeneration
    BY <1>7 DEF CommitGeneration, pending, world
  <1>8. CASE Activate
    BY <1>8 DEF Activate, Activation, Requests, Whole, Files, pending, world
  <1>9. CASE Unlink
    BY <1>9 DEF Unlink, Activation, Files, Pending, world
  <1>10. CASE Acknowledge
    <2>1. UNCHANGED <<key, csr, meta, journal, gens, active>>
      BY <1>10 DEF Acknowledge, disk, pending
    <2>2. saas' = saas \/ saas' = [saas EXCEPT ![journal] = "acknowledged"]
      BY <1>10 DEF Acknowledge, world
    <2>3. journal \in Request /\ active = journal /\ active \in gens
      BY <1>10 DEF Acknowledge, Activation
    <2> QED  BY <2>1, <2>2, <2>3, BoundAssumption
  <1>11. CASE ClearJournal
    BY <1>11 DEF ClearJournal, Activation, Whole, pending, world
  <1> QED
    BY <1>1, <1>2, <1>3, <1>4, <1>5, <1>6, <1>7, <1>8, <1>9, <1>10, <1>11, QuietSteps DEF DiskSteps

LEMMA RestingQuiet ==
  ASSUME [Next]_vars, pc \in {"idle", "beat"}
  PROVE  Quiet
  BY QuietSteps DEF DiskSteps, PublishKey, PublishCsr, PublishMeta, RecordJournal,
     CommitGeneration, Activate, Unlink, ClearJournal, Deliver, Acknowledge

\* Between two cycles nothing but the start of one happens, and not even that to
\* a blocked node.
LEMMA RestingSteps ==
  ASSUME [Next]_vars, pc \in {"idle", "beat"}
  PROVE  /\ pc' \in {"idle", "beat"} \/ Beginning \/ journal # 0
         /\ runtime.state = "BLOCKED" => pc' \in {"idle", "beat"} /\ runtime' = runtime
  <1>2. CASE Refuse \/ Resume \/ ResumeActivated \/ Enroll \/ NotDue \/ Rotate
    <2>1. runtime.state # "BLOCKED"
      BY <1>2 DEF Refuse, Resume, ResumeActivated, Enroll, NotDue, Rotate, Enter, RetryDue
    <2>2. pc' \in {"idle", "beat"} \/ Beginning \/ journal # 0
      BY <1>2 DEF Refuse, Resume, ResumeActivated, Enroll, NotDue, Rotate, Beginning, BlockNow, Goto
    <2> QED  BY <2>1, <2>2
  <1>3. CASE Skip
    BY <1>3 DEF Skip, Goto
  <1>4. CASE Heartbeat
    <2>1. pc' = "idle"
      BY <1>4 DEF Heartbeat, Goto
    <2>2. runtime.state = "BLOCKED" => runtime' = runtime
      BY <1>4 DEF Heartbeat, Shadow, RetryDue
    <2> QED  BY <2>1, <2>2
  <1>5. CASE Tick
    BY <1>5 DEF Tick
  <1>6. CASE Crash
    BY <1>6 DEF Crash
  <1>7. CASE UNCHANGED vars
    BY <1>7 DEF vars
  <1> QED
    BY <1>2, <1>3, <1>4, <1>5, <1>6, <1>7 DEF Next, Cycle, PrepareRefuse, PrepareReuse, PublishKey,
       PublishCsr, PublishMeta, Deliver, NoConnection, RecordJournal, CommitGeneration, Activate,
       Unlink, Acknowledge, ClearJournal, Finish

\* The counter is cleared only over an identity the SaaS has acknowledged.
LEMMA ClearingIsEarned ==
  ASSUME IInv, [Next]_vars, Clearing
  PROVE  /\ Quiet /\ pc' \in {"idle", "beat"}
         /\ journal = 0 /\ active # 0 /\ saas[active] = "acknowledged"
  <1>0. DiskType /\ WorldType
    BY TypeParts DEF IInv
  <1>1. CASE NotDue
    <2>1. Quiet /\ pc' = "beat" /\ journal = 0 /\ active # 0
      BY <1>1 DEF NotDue, Goto, Valid, Quiet, disk, pending, world, budget
    <2>2. saas[active] # "none" /\ active \in Request /\ saas[active] # "issued"
      BY <1>0, <2>1 DEF IInv, Files, Delivery, DeliveryCompletable, DiskType
    <2> QED  BY <1>0, <2>1, <2>2 DEF WorldType
  <1>2. CASE Finish
    BY <1>2 DEF Finish, Goto, Quiet, disk, pending, world, budget, IInv, Activation
  <1>3. CASE Heartbeat /\ runtime.state \in Resting /\ Valid(active)
    <2>1. Quiet /\ pc' = "idle"
      BY <1>3, RestingQuiet, HeartbeatFrame DEF Heartbeat
    <2> QED  BY <1>3, <2>1 DEF IInv, States, ReadyIsAcknowledged, Resting, Valid
  <1> QED  BY <1>1, <1>2, <1>3 DEF Clearing

\* Only an identity the SaaS has acknowledged, and no journal, stand behind a
\* ready state; a blocked one is left by nothing.
LEMMA StatesStep == IInv /\ [Next]_vars => States' /\ ReadyIsAcknowledged'
  <1> SUFFICES ASSUME IInv, [Next]_vars PROVE States' /\ ReadyIsAcknowledged'
    OBVIOUS
  <1>0. DiskType /\ WorldType /\ LoopType /\ PaceType
    BY TypeParts DEF IInv
  <1>1. CASE Failure
    BY <1>1, FailureEffect DEF IInv, States, ReadyIsAcknowledged, Resting, Working
  <1>2. CASE Beginning
    BY <1>0, <1>2 DEF Beginning, Transition, States, ReadyIsAcknowledged, Resting, PaceType
  <1>3. CASE Clearing
    <2>1. Quiet /\ pc' \in {"idle", "beat"} /\ journal = 0 /\ active # 0 /\ saas[active] = "acknowledged"
      BY <1>3, ClearingIsEarned
    <2> QED
      BY <1>3, <2>1 DEF Clearing, ClearRetry, Quiet, States, ReadyIsAcknowledged, Resting, Working
  <1>4. CASE UNCHANGED runtime
    <2>1. CASE runtime.state \notin Resting \cup {"BLOCKED"}
      BY <1>4, <2>1 DEF States, ReadyIsAcknowledged, Resting
    <2>2. CASE runtime.state \in Resting \cup {"BLOCKED"}
      <3>1. pc \in {"idle", "beat"}
        BY <1>0, <2>2 DEF IInv, States, LoopType
      <3>2. runtime.state \in Resting => journal = 0
        BY DEF IInv, States, ReadyIsAcknowledged, Resting
      <3>3. Quiet /\ pc' \in {"idle", "beat"}
        BY <1>0, <1>4, <2>2, <3>1, <3>2, RestingQuiet, RestingSteps DEF Resting, Beginning, Transition, PaceType
      <3> QED
        BY <1>4, <3>1, <3>3 DEF IInv, Quiet, States, ReadyIsAcknowledged, Resting, Working
    <2> QED  BY <2>1, <2>2
  <1>5. Tick => UNCHANGED runtime
    BY DEF Tick
  <1> QED  BY <1>1, <1>2, <1>3, <1>4, <1>5, PaceFrame

-----------------------------------------------------------------------------
(* The theorems.                                                              *)

LEMMA InvInit == Init => IInv
  <1> SUFFICES ASSUME Init PROVE IInv
    OBVIOUS
  <1> PICK own \in {0, 1} : /\ active = own /\ made = own /\ gens = {own} \ {0}
        /\ saas = [r \in Request |-> IF r = own THEN "acknowledged" ELSE "none"]
        /\ life = [r \in Request |-> IF r = own THEN Life ELSE 0]
        /\ runtime = [state |-> IF own = 1 THEN "SHADOW_ACTIVE" ELSE "BEARER_ONLY",
                      attempts |-> 0, code |-> "none"]
    BY DEF Init
  <1> USE BoundAssumption, TimeAssumption DEF Request
  <1>1. DiskType
    BY DEF Init, DiskType
  <1>2. WorldType
    BY DEF Init, WorldType
  <1>3. PaceType
    BY DEF Init, PaceType, State
  <1>8. LoopType
    <2>1. renewal \in BOOLEAN /\ elapsed \in BOOLEAN /\ awake \in BOOLEAN
      BY DEF Init
    <2>2. /\ mode \in Modes /\ pc = "idle" /\ channel = "none" /\ target = 0
          /\ faults = 0 /\ crashes = 0
      BY DEF Init
    <2> QED  BY <2>1, <2>2 DEF LoopType
  <1>4. Names /\ Files
    BY DEF Init, Names, Files, Pending
  <1>5. Requests /\ Activation
    BY DEF Init, Requests, Activation, Requesting
  <1>6. States /\ ReadyIsAcknowledged
    BY DEF Init, States, ReadyIsAcknowledged, Resting, Working
  <1>7. Delivery
    BY DEF Init, Delivery, DeliveryCompletable, AcknowledgedIsActive
  <1> QED  BY <1>1, <1>2, <1>3, <1>4, <1>5, <1>6, <1>7, <1>8, TypeParts DEF IInv

THEOREM Invariance == Spec => []IInv
  <1>1. IInv /\ [Next]_vars => IInv'
    BY TypeStep, FilesStep, PlaceStep, DeliveryStep, StatesStep DEF IInv
  <1> QED  BY InvInit, <1>1, PTL DEF Spec

\* Every reachable state is well-typed; the attempt counter of _record_failure
\* never passes its limit and the delay never its maximum.
THEOREM TypeCorrect == Spec => []TypeOK
  BY Invariance, PTL DEF IInv

\* Wherever the Agent dies and whatever answers are lost, every delivery the SaaS
\* has open can be completed from the node's disk.
THEOREM DeliveriesComplete == Spec => []DeliveryCompletable
  <1>1. IInv => DeliveryCompletable
    BY DEF IInv, Delivery
  <1> QED  BY Invariance, <1>1, PTL

\* An identity the SaaS has been told of is on disk, and the selector is never
\* behind it.
THEOREM AcknowledgedStays == Spec => []AcknowledgedIsActive
  <1>1. IInv => AcknowledgedIsActive
    BY DEF IInv, Delivery
  <1> QED  BY Invariance, <1>1, PTL

\* The states that open the access commands stand on an acknowledged identity.
THEOREM ReadyOnAcknowledged == Spec => []ReadyIsAcknowledged
  <1>1. IInv => ReadyIsAcknowledged
    BY DEF IInv
  <1> QED  BY Invariance, <1>1, PTL

\* The SaaS never has two deliveries of one node open: two would need the
\* pending files and the journal to belong to different requests.
THEOREM AtMostOneDelivery == Spec => []OneOperation
  <1> DEFINE Open == {r \in Request : saas[r] = "issued"}
  <1>1. IInv => OneOperation
    <2> SUFFICES ASSUME IInv PROVE OneOperation
      OBVIOUS
    <2>1. \A r, s \in Open : r = s
      BY DEF IInv, Delivery, DeliveryCompletable, Files, Pending, Request
    <2>2. CASE Open = {}
      BY <2>2, FS_EmptySet DEF OneOperation
    <2>3. CASE Open # {}
      <3> PICK r \in Open : TRUE
        BY <2>3
      <3>1. Open = {r}
        BY <2>1
      <3>2. Cardinality(Open) = 1
        BY <3>1, FS_Singleton
      <3> QED  BY <3>2 DEF OneOperation
    <2> QED  BY <2>2, <2>3
  <1> QED  BY Invariance, <1>1, PTL

\* BLOCKED is left by nothing, and a blocked node changes neither its files nor
\* the SaaS.
THEOREM BlockedStays == Spec => BlockedIsFinal
  <1>1. IInv /\ [Next]_vars => (runtime.state = "BLOCKED" =>
                                  runtime'.state = "BLOCKED" /\ UNCHANGED <<saas, disk>>)
    <2> SUFFICES ASSUME IInv, [Next]_vars, runtime.state = "BLOCKED"
                 PROVE  runtime'.state = "BLOCKED" /\ UNCHANGED <<saas, disk>>
      OBVIOUS
    <2>1. pc \in {"idle", "beat"}
      BY DEF IInv, States
    <2>2. runtime' = runtime /\ Quiet
      BY <2>1, RestingQuiet, RestingSteps
    <2> QED  BY <2>2 DEF Quiet, disk, pending
  <1> QED  BY Invariance, <1>1, PTL DEF Spec, BlockedIsFinal

\* A renewal of a valid certificate is never blocked by an outage.  With a limit
\* of one attempt a single lost shadow heartbeat would do it; with any other the
\* lifecycle clears the counter before the next heartbeat.
THEOREM RenewalsGoOn == ASSUME RetryMax # 1 PROVE Spec => OutageSparesRenewal
  <1>1. IInv /\ [Next]_vars => (runtime'.state = "BLOCKED" /\ runtime'.code = "transient"
                                  /\ runtime.state # "BLOCKED" => ~renewal)
    <2> SUFFICES ASSUME IInv, [Next]_vars, runtime'.state = "BLOCKED",
                        runtime'.code = "transient", runtime.state # "BLOCKED"
                 PROVE  ~renewal
      OBVIOUS
    <2>0. TypeOK /\ PaceType
      BY TypeParts DEF IInv
    <2>1. Tick => UNCHANGED runtime
      BY DEF Tick
    <2>2. ~Clearing /\ ~Beginning
      BY <2>0 DEF Clearing, ClearRetry, Beginning, Transition, PaceType
    <2>3. Failure
      BY <2>1, <2>2, PaceFrame
    <2>4. runtime.state \in Resting => runtime.attempts = 0
      BY DEF IInv, States
    <2> QED  BY <2>0, <2>3, <2>4, FailureEffect, BoundAssumption
  <1> QED  BY Invariance, <1>1, PTL DEF Spec, OutageSparesRenewal

=============================================================================
