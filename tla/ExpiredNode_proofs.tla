------------------------- MODULE ExpiredNode_proofs -------------------------
(* Proofs about ExpiredNode and the NodeRecovery it extends, for any number   *)
(* of requests, grants, faults, deaths and runs by hand.                      *)
EXTENDS ExpiredNode, TLAPS

-----------------------------------------------------------------------------
(* The inductive invariant.                                                   *)

\* The request prepared last is at one of four stages: gone, on its way to the
\* first marker, held by a marker until its credential is active, and active with
\* the acknowledgement open.
Gone ==
    /\ parts = {} /\ active = made /\ journal = 0
    /\ made # 0 => saas[made] = "acknowledged"
    /\ Marked => marker.req = made /\ marker.cred = made
Preparing ==
    /\ parts # {} /\ made = active + 1 /\ journal = 0 /\ ~Marked
    /\ saas[made] = "none" /\ made \notin open
Unsent == marker.cred = 0 /\ ~(marker.posted /\ marker.dispatch = "READY")
Recovering ==
    /\ Whole /\ made = active + 1 /\ marker.req = made /\ ~marker.acked
    /\ marker.cred \in {0, made} /\ journal \in {0, marker.cred}
    /\ saas[made] # "acknowledged"
    /\ marker.cred # 0 => saas[made] = "issued"
    /\ Unsent => saas[made] = "none" /\ made \notin open
Activated ==
    /\ active = made /\ made # 0 /\ journal = made /\ marker.req = made /\ marker.cred = made
    /\ saas[made] # "none"
    /\ marker.acked => parts = {} /\ saas[made] = "acknowledged"

\* An older request is acknowledged, a later one unknown to everybody.
Older ==
    /\ \A r \in Request : r < made => saas[r] = "acknowledged"
    /\ \A r \in Request : r > made => saas[r] = "none" /\ r \notin open
    /\ 0 \in expired
    /\ Marked /\ ~marker.acked => token # 0
    /\ ~Marked => marker = NoMarker
Requested == Older /\ (Gone \/ Preparing \/ Recovering \/ Activated)

\* Operations are known, and bound to a generation that a marker or a receipt of
\* theirs has left behind.
Bound(m) == m.op # 0 => m.op \in 1..grants /\ base[m.op] < m.req
Operated ==
    /\ \A n \in Grant : base[n] <= active \/ base[n] = MaxRequest + 1
    /\ IF order.phase = "none" THEN order.op = 0 ELSE order.op \in 1..grants /\ base[order.op] <= active
    /\ Bound(marker) /\ Bound(completed) /\ completed.req <= active
    /\ order.op # 0 /\ completed.op = order.op /\ Outstanding /\ ~Marked =>
         token = 0 /\ parts = {} /\ completed.acked /\ completed.cred = completed.req

\* Where the holder of the recovery lock is.
Holding == mem = marker /\ Marked
Fetching == {"get", "journal", "switch"}
Cleaning == {"clear", "ready", "receipt", "token", "erase"}
Stale ==
    \/ mem = NoMarker /\ token = 0
    \/ mem.req # 0 /\ mem.cred = 0 /\ ~mem.acked /\ (mem.posted \/ mem.dispatch = "KNOWN_NO_SIGN")
Locked ==
    /\ pc \in {"off", "offer"} => env = 0 /\ mine = {}
    /\ env # 0 => order.op = env /\ Outstanding
    /\ \A c \in mine : c.op = env
    /\ pc \in Client => ~agent
    /\ pc \in {"check", "stop", "load", "resume"} => token # 0 \/ Marked
    /\ pc = "resume" => mem = marker \/ Stale
    /\ pc = "prepare" => ~Marked /\ mem = NoMarker /\ token # 0
    /\ pc \in {"prepare", "offer"} => ~Marked /\ journal = 0 /\ (parts = {} => made < MaxRequest)
    /\ pc \in {"post", "refused"} =>
         Holding /\ Whole /\ mem.cred = 0 /\ mem.posted /\ mem.dispatch = "READY" /\ ~mem.acked
         /\ saas[made] = "none" /\ made \notin open
    /\ pc = "bind" =>
         Marked /\ Whole /\ mem.req = made /\ mem.op = marker.op /\ mem.cred = 0 /\ ~mem.acked
         /\ saas[made] = "issued"
    /\ pc \in Fetching => Holding /\ Whole /\ mem.cred = made /\ ~mem.acked
    /\ pc = "switch" => journal = made
    /\ pc \in {"unlink", "ack", "acked"} => Holding /\ active = made /\ journal = made /\ ~mem.acked
    /\ pc \in {"ack", "acked"} => parts = {}
    /\ pc = "acked" => saas[made] = "acknowledged"
    /\ pc \in Cleaning => Holding /\ active = made /\ mem.acked /\ mem.cred = made
         /\ parts = {} /\ saas[made] = "acknowledged"
    /\ pc \in Cleaning \ {"clear"} => journal = 0
    /\ pc \in {"token", "erase"} => completed = mem
    /\ pc = "erase" => token = 0

\* Where the helper is.
Helping ==
    /\ (hpc = "prepare") <=> (pc = "offer")
    /\ hpc = "prepare" => ~Outstanding
    /\ hpc = "token" =>
         order = [op |-> hop, phase |-> "DELIVERED"] /\ token = 0 /\ ~Marked
         /\ pc \in {"off", "start", "await", "tidy"} /\ completed.op # hop
    /\ hpc \in {"spawn", "wait", "accept"} => order = [op |-> hop, phase |-> "APPLY_DISPATCHED"]
    /\ hpc = "accept" => pc = "off" /\ token = 0 /\ ~Marked /\ \A c \in copies : c.op # hop

IInv == TypeOK /\ Requested /\ Operated /\ Locked /\ Helping /\ AcceptedIsClean

-----------------------------------------------------------------------------
(* What the steps have in common.                                             *)

LEMMA Constants ==
  /\ 0 \in 0..MaxRequest /\ 0 \in 0..MaxGrant /\ MaxRequest \in Nat /\ MaxGrant \in Nat
  /\ \A r \in Request : r \in 0..MaxRequest /\ r # 0
  /\ \A r \in 0..MaxRequest : r # 0 => r \in Request
  /\ \A n \in Grant : n \in 0..MaxGrant /\ n # 0
  BY BoundAssumption DEF Request, Grant

LEMMA NoMarkerTyped == NoMarker \in Marker /\ NoMarker.req = 0 /\ NoMarker.op = 0 /\ NoMarker.cred = 0
                       /\ ~NoMarker.acked
  BY Constants DEF NoMarker, Marker

\* A marker is what its fields are.
LEMMA SameMarker ==
  ASSUME NEW a \in Marker, NEW b \in Marker, a.op = b.op, a.req = b.req, a.cred = b.cred, a.posted = b.posted,
         a.dispatch = b.dispatch, a.proof = b.proof, a.acked = b.acked
  PROVE  a = b
  BY DEF Marker

\* Steps that touch nothing of a request, or of an operation.
LEMMA RequestedFrame ==
  ASSUME Requested, UNCHANGED <<parts, journal, active, marker, token, saas, open, expired, made>>
  PROVE  Requested'
  BY DEF Requested, Older, Gone, Preparing, Recovering, Activated, Unsent, Whole, Marked

LEMMA OperatedFrame ==
  ASSUME Operated, UNCHANGED <<parts, active, marker, completed, token, order, base, grants>>
  PROVE  Operated'
  BY DEF Operated, Bound, Marked, Outstanding

\* The lock is released: nothing is left to hold.
LEMMA ExitLocked ==
  ASSUME IInv, NEW code \in {"failed", "passed"}, Exit(code)
  PROVE  /\ Locked' /\ pc' = "off" /\ pc' \in Positions
         /\ env' \in 0..MaxGrant /\ mem' \in Marker /\ orphan' \in BOOLEAN
         /\ rc' \in {"none", "failed", "passed"} /\ mine' \subseteq Copy /\ copies' \subseteq Copy
         /\ copies' \subseteq copies \cup mine
  <1>1. /\ pc' = "off" /\ env' = 0 /\ mem' = NoMarker /\ orphan' = FALSE /\ mine' = {}
        /\ rc' \in {code, rc} /\ copies' \subseteq copies \cup mine
    BY DEF Exit
  <1>2. Locked'
    BY <1>1 DEF Locked, Client, Fetching, Cleaning
  <1> QED  BY <1>1, <1>2, Constants, NoMarkerTyped DEF IInv, TypeOK, Positions

\* The steps of the wrapper leave the helper, the operation and what is archived.
Outer == UNCHANGED <<order, base, lapsed, hpc, hop, history, grants, manual>>

LEMMA WrapperHelping ==
  ASSUME IInv, Outer, pc \notin {"off"}, pc' = "offer" <=> pc = "offer",
         pc \in {"start", "await", "tidy"} =>
           pc' \in {"off", "start", "await", "tidy"} /\ UNCHANGED <<token, marker, completed>>
  PROVE  Helping'
  BY DEF IInv, Outer, Helping, Outstanding, Marked

\* What an accepted operation has left behind, a run of another one cannot bring back.
LEMMA StaysClean ==
  ASSUME IInv, UNCHANGED order, token' \in {token, 0}, marker'.op \in {marker.op, env, 0},
         copies' \subseteq copies \cup mine
  PROVE  AcceptedIsClean'
  <1> SUFFICES ASSUME order.phase = "ACCEPTED"  PROVE AcceptedIsClean'
    BY DEF AcceptedIsClean
  <1>1. order.op \in 1..grants /\ order.op # 0
    BY DEF IInv, Operated
  <1>2. env = 0
    BY DEF IInv, Locked, Outstanding
  <1>3. \A c \in copies \cup mine : c.op # order.op
    BY <1>1, <1>2 DEF IInv, Locked, AcceptedIsClean
  <1> QED  BY <1>1, <1>2, <1>3 DEF IInv, AcceptedIsClean

LEMMA WrapperClean ==
  ASSUME IInv, Outer, token' \in {token, 0}, marker'.op \in {marker.op, env, 0},
         copies' \subseteq copies \cup mine
  PROVE  AcceptedIsClean'
  BY StaysClean DEF Outer

-----------------------------------------------------------------------------
(* The wrapper up to the client's first decision.                             *)

LEMMA PreflightKeeps ==
  ASSUME IInv, Preflight, UNCHANGED <<helper, central>>
  PROVE  IInv'
  <1>1. /\ pc = "check" /\ Outer
        /\ UNCHANGED <<parts, journal, active, runtime, marker, completed, token, agent,
                       saas, open, expired, made, faults, crashes>>
    BY DEF Preflight, helper, central, Outer, files, pilot, world, budget
  <1>2. Requested' /\ Operated'
    BY <1>1, RequestedFrame, OperatedFrame DEF IInv, Outer
  <1>3. CASE Exit("failed")
    BY <1>1, <1>2, <1>3, ExitLocked, WrapperHelping, WrapperClean DEF IInv, TypeOK, Outer
  <1>4. CASE Goto("stop") /\ UNCHANGED backups
    <2>1. pc' = "stop" /\ UNCHANGED <<env, mem, orphan, rc, mine, copies>>
      BY <1>4 DEF Goto, backups
    <2>2. Helping' /\ AcceptedIsClean'
      BY <1>1, <2>1, WrapperHelping, WrapperClean
    <2>3. Locked'
      BY <1>1, <2>1 DEF IInv, Locked, Outer, Client, Fetching, Cleaning, Outstanding, Marked
    <2>4. TypeOK'
      BY <1>1, <2>1 DEF IInv, TypeOK, Outer, Positions
    <2> QED  BY <1>2, <2>2, <2>3, <2>4 DEF IInv
  <1> QED  BY <1>3, <1>4 DEF Preflight

LEMMA StopKeeps ==
  ASSUME IInv, StopAgent, UNCHANGED <<helper, central>>
  PROVE  IInv'
  <1>1. /\ pc = "stop" /\ pc' = "load" /\ agent' = FALSE /\ Outer
        /\ UNCHANGED <<parts, journal, active, runtime, marker, completed, token,
                       saas, open, expired, made, faults, crashes, env, mem, orphan, rc, mine, copies>>
    BY DEF StopAgent, Goto, helper, central, Outer, files, backups, pilot, world, budget
  <1>2. Requested' /\ Operated'
    BY <1>1, RequestedFrame, OperatedFrame DEF IInv, Outer
  <1>3. Helping' /\ AcceptedIsClean'
    BY <1>1, WrapperHelping, WrapperClean
  <1>4. Locked'
    BY <1>1 DEF IInv, Locked, Outer, Client, Fetching, Cleaning, Outstanding, Marked
  <1>5. TypeOK'
    BY <1>1 DEF IInv, TypeOK, Outer, Positions, Client
  <1> QED  BY <1>2, <1>3, <1>4, <1>5 DEF IInv

LEMMA LoadKeeps ==
  ASSUME IInv, Load, UNCHANGED <<helper, central>>
  PROVE  IInv'
  <1>1. /\ pc = "load" /\ pc' = "resume" /\ mem' = marker /\ Outer
        /\ parts' = IF Marked /\ journal = marker.cred /\ Committed THEN {} ELSE parts
        /\ UNCHANGED <<journal, active, runtime, marker, completed, token, agent,
                       saas, open, expired, made, faults, crashes, env, orphan, rc, mine, copies>>
    BY DEF Load, helper, central, Outer, backups, pilot, world, budget
  <1>2. Requested'
    BY <1>1 DEF IInv, Requested, Older, Gone, Preparing, Recovering, Activated, Unsent, Whole, Parts, Marked, Committed
  <1>3. Operated'
    BY <1>1 DEF IInv, Operated, Bound, Marked, Outstanding, Outer
  <1>4. Helping' /\ AcceptedIsClean'
    BY <1>1, WrapperHelping, WrapperClean
  <1>5. Locked'
    BY <1>1 DEF IInv, Locked, Outer, Client, Fetching, Cleaning, Outstanding, Marked
  <1>6. TypeOK'
    BY <1>1 DEF IInv, TypeOK, Outer, Positions, Client
  <1> QED  BY <1>2, <1>3, <1>4, <1>5, <1>6 DEF IInv

LEMMA RefuseKeeps ==
  ASSUME IInv, Refuse, UNCHANGED <<helper, central>>
  PROVE  IInv'
  <1>1. /\ pc = "resume" /\ Outer /\ Exit("failed")
        /\ UNCHANGED <<parts, journal, active, runtime, marker, completed, token, agent,
                       saas, open, expired, made, faults, crashes>>
    BY DEF Refuse, helper, central, Outer, files, pilot, world, budget
  <1>2. Requested' /\ Operated'
    BY <1>1, RequestedFrame, OperatedFrame DEF IInv, Outer
  <1> QED  BY <1>1, <1>2, ExitLocked, WrapperHelping, WrapperClean DEF IInv, TypeOK, Outer

-----------------------------------------------------------------------------
(* The client.                                                                *)

\* What the marker in memory says is true on disk if it allows to go on.
LEMMA ResumeFacts ==
  ASSUME IInv, pc = "resume"
  PROVE  /\ CanStart => ~Marked
         /\ CanDispatch \/ CanFetch \/ CanAcknowledge \/ CanClean => Holding
  <1>1. mem = marker \/ Stale
    BY DEF IInv, Locked
  <1>2. CanStart => mem = marker
    BY <1>1, NoMarkerTyped DEF CanStart, Stale
  <1>3. CanDispatch \/ CanFetch \/ CanAcknowledge \/ CanClean => mem = marker /\ mem.req # 0
    <2>1. CASE CanDispatch \/ CanFetch \/ CanAcknowledge
      BY <1>1, <2>1, NoMarkerTyped DEF CanDispatch, CanFetch, CanAcknowledge, Continues, Stale
    <2>2. CASE CanClean
      <3>1. mem = marker /\ mem.acked
        BY <1>1, <2>2, NoMarkerTyped DEF CanClean, Stale
      <3>2. Marked
        BY <3>1, NoMarkerTyped DEF IInv, Requested, Older
      <3> QED  BY <3>1, <3>2 DEF Marked
    <2> QED  BY <2>1, <2>2
  <1> QED  BY <1>2, <1>3, NoMarkerTyped DEF Holding, Marked, CanStart

LEMMA ResumeKeeps ==
  ASSUME IInv, Resume, UNCHANGED <<helper, central>>
  PROVE  IInv'
  <1>1. /\ pc = "resume" /\ Outer
        /\ UNCHANGED <<parts, journal, active, runtime, marker, completed, token, agent, env, mem, orphan, rc,
                       mine, copies, saas, open, expired, made, faults, crashes>>
    BY DEF Resume, Goto, helper, central, Outer, files, backups, pilot, world, budget
  <1>2. Requested' /\ Operated'
    BY <1>1, RequestedFrame, OperatedFrame DEF IInv, Outer
  <1>3. /\ pc' \in {"prepare", "get", "ack", "clear"}
        /\ pc' = "prepare" => CanStart
        /\ pc' = "get" => CanFetch
        /\ pc' = "ack" => CanAcknowledge
        /\ pc' = "clear" => CanClean
    BY DEF Resume, Goto
  <1>4. Helping' /\ AcceptedIsClean'
    BY <1>1, <1>3, WrapperHelping, WrapperClean
  <1>5. Locked'
    <2>1. /\ env # 0 => order.op = env /\ Outstanding
          /\ \A c \in mine : c.op = env
          /\ ~agent
      BY <1>1 DEF IInv, Locked, Client
    <2>2. CASE pc' = "prepare"
      BY <1>1, <1>3, <2>1, <2>2, ResumeFacts DEF Locked, Outer, CanStart, Whole, Parts, Client, Fetching, Cleaning,
         Outstanding, Marked
    <2>3. CASE pc' = "get"
      <3>1. Holding /\ Whole /\ mem.cred = made /\ ~mem.acked
        BY <1>1, <1>3, <2>3, ResumeFacts DEF CanFetch, Continues, IInv, Requested, Gone, Preparing, Recovering,
           Activated, Holding, Whole, Parts
      <3> QED  BY <1>1, <2>1, <2>3, <3>1 DEF Locked, Outer, Client, Fetching, Cleaning, Outstanding, Holding, Whole,
               Marked
    <2>4. CASE pc' = "ack"
      <3>1. Holding /\ active = made /\ journal = made /\ ~mem.acked /\ parts = {}
        BY <1>1, <1>3, <2>4, ResumeFacts, Constants DEF CanAcknowledge, Continues, LocalStateValid, IInv, TypeOK,
           Requested, Gone, Preparing, Recovering, Activated, Holding, Whole, Partial, Parts
      <3> QED  BY <1>1, <2>1, <2>4, <3>1 DEF Locked, Outer, Client, Fetching, Cleaning, Outstanding, Holding, Marked
    <2>5. CASE pc' = "clear"
      <3>1. Holding /\ active = made /\ mem.acked /\ mem.cred = made /\ parts = {} /\ saas[made] = "acknowledged"
        BY <1>1, <1>3, <2>5, ResumeFacts DEF CanClean, LocalStateValid, IInv,
           Requested, Gone, Preparing, Recovering, Activated, Holding, Whole, Partial, Parts
      <3> QED  BY <1>1, <2>1, <2>5, <3>1 DEF Locked, Outer, Client, Fetching, Cleaning, Outstanding, Holding, Marked
    <2> QED  BY <1>3, <2>2, <2>3, <2>4, <2>5
  <1>6. TypeOK'
    BY <1>1, <1>3 DEF IInv, TypeOK, Outer, Positions, Client
  <1> QED  BY <1>2, <1>4, <1>5, <1>6 DEF IInv

\* The client and the helper's offer publish in the same way.
LEMMA PublishKeeps ==
  ASSUME IInv, Publish, UNCHANGED <<helper, central>>
  PROVE  IInv'
  <1>1. /\ pc \in {"prepare", "offer"} /\ Outer
        /\ UNCHANGED <<journal, active, runtime, marker, completed, token, agent, pc, env, mem, orphan, rc,
                       mine, copies, saas, open, expired, faults, crashes>>
    BY DEF Publish, helper, central, Outer, backups, pilot, run, world
  <1>2. /\ ~Marked /\ journal = 0 /\ (parts = {} => made < MaxRequest) /\ (Gone \/ Preparing)
        /\ made \in 0..MaxRequest /\ active \in 0..MaxRequest /\ MaxRequest \in Nat
    BY <1>1, Constants DEF IInv, TypeOK, Locked, Requested, Recovering, Activated, Marked
  <1>3. /\ parts' # {} /\ parts' \subseteq Parts
        /\ IF parts = {} THEN made' = made + 1 ELSE made' = made
    BY DEF Publish, Parts
  <1>4. Older' /\ made' \in 0..MaxRequest
    <2>1. CASE parts = {}
      <3>1. made' = made + 1 /\ made' \in Request /\ made' \in 0..MaxRequest
            /\ (made # 0 => saas[made] = "acknowledged")
        BY <1>2, <1>3, <2>1 DEF Gone, Preparing, Request
      <3>2. \A r \in Request : (r < made' => r < made \/ r = made) /\ (r > made' => r > made)
        BY <1>2, <3>1 DEF Request
      <3>3. \A r \in Request : r # 0
        BY Constants
      <3> QED  BY <1>1, <3>1, <3>2, <3>3 DEF IInv, Requested, Older, Marked
    <2>2. CASE parts # {}
      BY <1>1, <1>2, <1>3, <2>2 DEF IInv, Requested, Older, Marked
    <2> QED  BY <2>1, <2>2
  <1>5. Preparing'
    <2>1. CASE parts = {}
      <3>1. made' = active + 1 /\ made' \in Request /\ made' > made
        BY <1>2, <1>3, <2>1 DEF Gone, Preparing, Request
      <3>2. saas[made'] = "none" /\ made' \notin open
        BY <3>1 DEF IInv, Requested, Older
      <3> QED  BY <1>1, <1>2, <1>3, <3>1, <3>2 DEF Preparing, Marked
    <2>2. CASE parts # {}
      BY <1>1, <1>2, <1>3, <2>2 DEF Gone, Preparing, Marked
    <2> QED  BY <2>1, <2>2
  <1>6. Operated'
    <2>1. pc = "prepare" => token # 0
      BY <1>1 DEF IInv, Locked
    <2>2. pc = "offer" => ~Outstanding
      BY <1>1 DEF IInv, Helping
    <2> QED  BY <1>1, <2>1, <2>2 DEF IInv, Operated, Bound, Marked, Outstanding, Outer
  <1>7. Helping' /\ AcceptedIsClean'
    BY <1>1, WrapperHelping, WrapperClean
  <1>8. Locked'
    BY <1>1, <1>2, <1>3 DEF IInv, Locked, Outer, Client, Fetching, Cleaning, Outstanding, Marked
  <1>9. TypeOK'
    BY <1>1, <1>3, <1>4 DEF IInv, TypeOK, Outer
  <1> QED  BY <1>4, <1>5, <1>6, <1>7, <1>8, <1>9 DEF IInv, Requested

LEMMA NewRecoveryKeeps ==
  ASSUME IInv, NewRecovery, UNCHANGED <<helper, central>>
  PROVE  IInv'
  <1>1. /\ pc = "prepare" /\ pc' = "resume" /\ Whole /\ Outer /\ marker' = NewMarker /\ mem' = NewMarker
        /\ UNCHANGED <<parts, journal, active, runtime, completed, token, agent, env, orphan, rc,
                       mine, copies, saas, open, expired, made, faults, crashes>>
    BY DEF NewRecovery, WriteMarker, helper, central, Outer, backups, pilot, world, budget
  <1>2. ~Marked /\ journal = 0 /\ token # 0 /\ Preparing /\ made # 0 /\ made \in 0..MaxRequest
        /\ active \in 0..MaxRequest
    BY <1>1, Constants DEF IInv, TypeOK, Locked, Requested, Gone, Preparing, Recovering, Activated, Marked, Whole, Parts
  <1>3. /\ NewMarker \in Marker /\ NewMarker.req = made /\ NewMarker.op = env /\ NewMarker.cred = 0
        /\ ~NewMarker.acked /\ ~NewMarker.posted
    BY <1>2, Constants DEF NewMarker, NoMarker, Marker, IInv, TypeOK
  <1>4. Recovering' /\ Older'
    BY <1>1, <1>2, <1>3 DEF IInv, Requested, Older, Preparing, Recovering, Unsent, Whole, Marked
  <1>5. Operated'
    <2>1. env # 0 => env \in 1..grants /\ base[env] <= active
      BY DEF IInv, Locked, Operated, Outstanding
    <2>2. env # 0 => base[env] < made
      <3>1. made = active + 1 /\ (env # 0 => env \in Grant)
        BY <1>2, <2>1 DEF Preparing, IInv, TypeOK, Grant
      <3>2. env # 0 => base[env] \in 0..(MaxRequest + 1)
        BY <3>1 DEF IInv, TypeOK
      <3> QED  BY <1>2, <2>1, <3>1, <3>2, Constants
    <2> QED  BY <1>1, <1>2, <1>3, <2>1, <2>2 DEF IInv, Operated, Bound, Marked, Outstanding, Outer
  <1>6. Helping' /\ AcceptedIsClean'
    BY <1>1, <1>3, WrapperHelping, WrapperClean
  <1>7. Locked'
    BY <1>1, <1>2 DEF IInv, Locked, Outer, Client, Fetching, Cleaning, Outstanding, Marked
  <1>8. TypeOK'
    BY <1>1, <1>3 DEF IInv, TypeOK, Outer, Positions, Client
  <1> QED  BY <1>4, <1>5, <1>6, <1>7, <1>8 DEF IInv, Requested

LEMMA DispatchKeeps ==
  ASSUME IInv, Dispatch, UNCHANGED <<helper, central>>
  PROVE  IInv'
  <1> DEFINE m == [mem EXCEPT !.posted = TRUE]
  <1>1. /\ pc = "resume" /\ pc' = "post" /\ CanDispatch /\ Outer /\ marker' = m /\ mem' = m
        /\ UNCHANGED <<parts, journal, active, runtime, completed, token, agent, env, orphan, rc,
                       mine, copies, saas, open, expired, made, faults, crashes>>
    BY DEF Dispatch, WriteMarker, helper, central, Outer, backups, pilot, world, budget
  <1>2. Holding /\ token # 0 /\ marker.cred = 0 /\ ~marker.acked /\ ~marker.posted /\ marker.dispatch = "READY"
    BY <1>1, ResumeFacts DEF CanDispatch, Continues, Holding
  <1>3. Recovering
    <2>1. Whole /\ journal = 0
      BY <1>1, <1>2 DEF CanDispatch, Continues, LocalStateValid, Holding
    <2> QED  BY <1>2, <2>1 DEF IInv, Requested, Gone, Preparing, Activated, Holding, Marked, Whole, Parts
  <1>4. /\ m \in Marker /\ m.req = marker.req /\ m.op = marker.op /\ m.cred = 0
        /\ ~m.acked /\ m.posted /\ m.dispatch = "READY" /\ m.req # 0
    BY <1>2 DEF Holding, Marked, Marker, IInv, TypeOK
  <1> HIDE DEF m
  <1>5. saas[made] = "none" /\ made \notin open /\ Whole
    BY <1>2, <1>3 DEF Recovering, Unsent
  <1>6. Recovering' /\ Older'
    BY <1>1, <1>2, <1>3, <1>4, <1>5 DEF IInv, Requested, Older, Recovering, Unsent, Whole, Marked
  <1>7. Operated'
    BY <1>1, <1>2, <1>4 DEF IInv, Operated, Bound, Marked, Outstanding, Outer
  <1>8. Helping' /\ AcceptedIsClean'
    BY <1>1, <1>4, WrapperHelping, WrapperClean
  <1>9. Locked'
    BY <1>1, <1>4, <1>5 DEF IInv, Locked, Outer, Client, Fetching, Cleaning, Outstanding, Marked, Holding, Whole
  <1>10. TypeOK'
    BY <1>1, <1>4 DEF IInv, TypeOK, Outer, Positions, Client
  <1> QED  BY <1>6, <1>7, <1>8, <1>9, <1>10 DEF IInv, Requested

\* A client that gives up leaves the files as they are, whatever the SaaS did.
LEMMA FailKeeps ==
  ASSUME IInv, Outer, pc \notin {"off", "offer"}, NEW code \in {"failed", "passed"}, Exit(code),
         UNCHANGED <<parts, journal, active, runtime, marker, completed, token, agent, expired, made>>,
         faults' \in 0..MaxFault, crashes' \in 0..MaxCrash,
         saas' \in [Request -> {"none", "issued", "acknowledged"}], open' \subseteq Request, Requested'
  PROVE  IInv'
  <1>1. Operated'
    BY OperatedFrame DEF IInv, Outer
  <1> QED  BY <1>1, ExitLocked, WrapperHelping, WrapperClean DEF IInv, TypeOK, Outer

LEMMA FaultTyped ==
  ASSUME IInv, Fault
  PROVE  faults' \in 0..MaxFault /\ UNCHANGED <<made, crashes>> /\ crashes' \in 0..MaxCrash
  BY BoundAssumption DEF Fault, IInv, TypeOK

LEMMA PostKeeps ==
  ASSUME IInv, Post, UNCHANGED <<helper, central>>
  PROVE  IInv'
  <1>1. /\ pc = "post" /\ Outer /\ open' = open \cup {mem.req}
        /\ UNCHANGED <<parts, journal, active, runtime, marker, completed, token, agent, expired>>
    BY DEF Post, helper, central, Outer, files, pilot
  <1>2. /\ Holding /\ Whole /\ mem.cred = 0 /\ mem.posted /\ mem.dispatch = "READY" /\ ~mem.acked
        /\ saas[made] = "none" /\ Recovering /\ mem.req = made /\ made \in Request
    <2>1. /\ Holding /\ Whole /\ mem.cred = 0 /\ mem.posted /\ mem.dispatch = "READY" /\ ~mem.acked
          /\ saas[made] = "none"
      BY <1>1 DEF IInv, Locked
    <2>2. Recovering
      BY <2>1 DEF IInv, Requested, Gone, Preparing, Activated, Holding, Marked, Whole, Parts
    <2>3. made \in 0..MaxRequest /\ made # 0
      BY <2>1, <2>2 DEF Recovering, Holding, Marked, IInv, TypeOK
    <2> QED  BY <2>1, <2>2, <2>3, Constants DEF Recovering, Holding
  <1>3. saas' \in {saas, [saas EXCEPT ![made] = "issued"]}
    BY <1>2 DEF Post
  <1>4. saas' \in [Request -> {"none", "issued", "acknowledged"}] /\ open' \subseteq Request
    BY <1>1, <1>2, <1>3 DEF IInv, TypeOK
  <1>5. saas'[made] \in {"none", "issued"} /\ \A r \in Request : r # made => saas'[r] = saas[r]
    BY <1>2, <1>3 DEF IInv, TypeOK
  <1>6. made' = made => Requested'
    <2> SUFFICES ASSUME made' = made  PROVE Requested'
      OBVIOUS
    <2>1. \A r \in Request : (r < made => r # made) /\ (r > made => r # made)
      BY <1>2 DEF Request
    <2>2. Older'
      BY <1>1, <1>2, <1>5, <2>1 DEF IInv, Requested, Older, Marked
    <2>3. Recovering'
      BY <1>1, <1>2, <1>5 DEF Recovering, Unsent, Whole, Holding
    <2> QED  BY <2>2, <2>3 DEF Requested
  <1>7. CASE Fault /\ Exit("failed")
    BY <1>1, <1>4, <1>6, <1>7, FaultTyped, FailKeeps
  <1>8. CASE Goto("bind") /\ UNCHANGED <<backups, budget>> /\ saas' = [saas EXCEPT ![mem.req] = IF @ = "none" THEN "issued" ELSE @]
    <2>1. pc' = "bind" /\ UNCHANGED <<env, mem, orphan, rc, mine, copies, made, faults, crashes>>
      BY <1>8 DEF Goto, backups, budget
    <2>2. saas'[made] = "issued"
      BY <1>2, <1>8 DEF IInv, TypeOK
    <2>3. Operated'
      BY <1>1, OperatedFrame DEF IInv, Outer
    <2>4. Helping' /\ AcceptedIsClean'
      BY <1>1, <2>1, WrapperHelping, WrapperClean
    <2>5. Locked'
      BY <1>1, <1>2, <2>1, <2>2 DEF IInv, Locked, Outer, Client, Fetching, Cleaning, Outstanding, Marked, Holding, Whole
    <2>6. TypeOK'
      BY <1>1, <1>4, <2>1 DEF IInv, TypeOK, Outer, Positions, Client
    <2> QED  BY <1>6, <2>1, <2>3, <2>4, <2>5, <2>6 DEF IInv
  <1> QED  BY <1>7, <1>8 DEF Post

LEMMA PostRefusedKeeps ==
  ASSUME IInv, PostRefused, UNCHANGED <<helper, central>>
  PROVE  IInv'
  <1>1. /\ pc = "post" /\ pc' = "refused" /\ Outer /\ Fault
        /\ UNCHANGED <<parts, journal, active, runtime, marker, completed, token, agent, expired, saas, open,
                       env, mem, orphan, rc, mine, copies>>
    BY DEF PostRefused, Goto, helper, central, Outer, files, backups, pilot, world
  <1>2. UNCHANGED made /\ faults' \in 0..MaxFault /\ crashes' \in 0..MaxCrash
    BY <1>1, FaultTyped
  <1>3. Requested' /\ Operated'
    BY <1>1, <1>2, RequestedFrame, OperatedFrame DEF IInv, Outer
  <1>4. Helping' /\ AcceptedIsClean'
    BY <1>1, WrapperHelping, WrapperClean
  <1>5. Locked'
    BY <1>1, <1>2 DEF IInv, Locked, Outer, Client, Fetching, Cleaning, Outstanding, Marked, Holding, Whole
  <1>6. TypeOK'
    BY <1>1, <1>2 DEF IInv, TypeOK, Outer, Positions, Client
  <1> QED  BY <1>3, <1>4, <1>5, <1>6 DEF IInv

LEMMA WriteNoSignKeeps ==
  ASSUME IInv, WriteNoSign, UNCHANGED <<helper, central>>
  PROVE  IInv'
  <1> DEFINE m == [mem EXCEPT !.dispatch = "KNOWN_NO_SIGN"]
  <1>1. /\ pc = "refused" /\ Outer /\ Exit("failed") /\ marker' = m
        /\ UNCHANGED <<parts, journal, active, runtime, completed, token, agent, expired, saas, open, made,
                       faults, crashes>>
    BY DEF WriteNoSign, helper, central, Outer, pilot, world, budget
  <1>2. /\ Holding /\ Whole /\ mem.cred = 0 /\ ~mem.acked /\ saas[made] = "none" /\ made \notin open
    BY <1>1 DEF IInv, Locked
  <1>3. Recovering
    BY <1>2 DEF IInv, Requested, Gone, Preparing, Activated, Holding, Marked, Whole, Parts
  <1>4. /\ m \in Marker /\ m.req = marker.req /\ m.op = marker.op /\ m.cred = 0 /\ ~m.acked /\ m.req # 0
    BY <1>2 DEF Holding, Marked, Marker, IInv, TypeOK
  <1> HIDE DEF m
  <1>5. Recovering' /\ Older'
    BY <1>1, <1>2, <1>3, <1>4 DEF IInv, Requested, Older, Recovering, Unsent, Whole, Marked
  <1>6. Operated'
    BY <1>1, <1>2, <1>4 DEF IInv, Operated, Bound, Marked, Outstanding, Outer, Holding
  <1>7. Helping' /\ AcceptedIsClean' /\ Locked'
    BY <1>1, <1>4, ExitLocked, WrapperHelping, WrapperClean
  <1>8. TypeOK'
    BY <1>1, <1>4, ExitLocked DEF IInv, TypeOK, Outer
  <1> QED  BY <1>5, <1>6, <1>7, <1>8 DEF IInv, Requested

LEMMA BindKeeps ==
  ASSUME IInv, BindCredential, UNCHANGED <<helper, central>>
  PROVE  IInv'
  <1> DEFINE m == [mem EXCEPT !.cred = mem.req]
  <1>1. /\ pc = "bind" /\ pc' = "journal" /\ Outer /\ marker' = m /\ mem' = m
        /\ UNCHANGED <<parts, journal, active, runtime, completed, token, agent, env, orphan, rc,
                       mine, copies, saas, open, expired, made, faults, crashes>>
    BY DEF BindCredential, WriteMarker, helper, central, Outer, backups, pilot, world, budget
  <1>2. /\ Marked /\ Whole /\ mem.req = made /\ mem.op = marker.op /\ ~mem.acked /\ saas[made] = "issued"
        /\ mem \in Marker
    BY <1>1 DEF IInv, TypeOK, Locked
  <1>3. made # 0 /\ marker.req = made /\ (Recovering \/ Activated) /\ ~marker.acked
    BY <1>2, Constants DEF IInv, Requested, Gone, Preparing, Recovering, Activated, Marked, Whole, Parts
  <1>4. /\ m \in Marker /\ m.req = made /\ m.op = marker.op /\ m.cred = made /\ ~m.acked
    BY <1>2 DEF Marker
  <1> HIDE DEF m
  <1>5. Requested'
    BY <1>1, <1>2, <1>3, <1>4 DEF IInv, Requested, Older, Recovering, Activated, Unsent, Whole, Marked
  <1>6. Operated'
    BY <1>1, <1>2, <1>3, <1>4 DEF IInv, Operated, Bound, Marked, Outstanding, Outer
  <1>7. Helping' /\ AcceptedIsClean'
    BY <1>1, <1>4, WrapperHelping, WrapperClean
  <1>8. Locked'
    BY <1>1, <1>2, <1>3, <1>4 DEF IInv, Locked, Outer, Client, Fetching, Cleaning, Outstanding, Marked, Holding, Whole
  <1>9. TypeOK'
    BY <1>1, <1>4 DEF IInv, TypeOK, Outer, Positions, Client
  <1> QED  BY <1>5, <1>6, <1>7, <1>8, <1>9 DEF IInv

LEMMA FetchKeeps ==
  ASSUME IInv, Fetch, UNCHANGED <<helper, central>>
  PROVE  IInv'
  <1>1. /\ pc = "get" /\ Outer
        /\ UNCHANGED <<parts, journal, active, runtime, marker, completed, token, agent, saas, open, expired>>
    BY DEF Fetch, helper, central, Outer, files, pilot, world
  <1>2. made' = made => Requested' /\ Operated'
    BY <1>1, RequestedFrame, OperatedFrame DEF IInv, Outer
  <1>3. CASE Fault /\ Exit("failed")
    <2>1. saas' \in [Request -> {"none", "issued", "acknowledged"}] /\ open' \subseteq Request
      BY <1>1 DEF IInv, TypeOK
    <2> QED  BY <1>1, <1>2, <1>3, <2>1, FaultTyped, FailKeeps
  <1>4. CASE Goto("journal") /\ UNCHANGED <<backups, budget>>
    <2>1. pc' = "journal" /\ UNCHANGED <<env, mem, orphan, rc, mine, copies, made, faults, crashes>>
      BY <1>4 DEF Goto, backups, budget
    <2>2. Helping' /\ AcceptedIsClean'
      BY <1>1, <2>1, WrapperHelping, WrapperClean
    <2>3. Locked'
      BY <1>1, <2>1 DEF IInv, Locked, Outer, Client, Fetching, Cleaning, Outstanding, Marked, Holding, Whole
    <2>4. TypeOK'
      BY <1>1, <2>1 DEF IInv, TypeOK, Outer, Positions, Client
    <2> QED  BY <1>2, <2>1, <2>2, <2>3, <2>4 DEF IInv
  <1> QED  BY <1>3, <1>4 DEF Fetch

\* From the credential to the receipt the marker stands, and names it.
LEMMA HeldFacts ==
  ASSUME IInv, pc \in Fetching \cup {"unlink", "ack", "acked"} \cup Cleaning
  PROVE  /\ Holding /\ mem.cred = made /\ marker.req = made /\ made \in Request
         /\ saas[made] # "none" /\ ~agent
         /\ mem.acked <=> pc \in Cleaning
  <1>1. Holding /\ ~agent /\ (mem.acked <=> pc \in Cleaning)
        /\ (pc \in Fetching \cup Cleaning => mem.cred = made)
        /\ (pc \in {"unlink", "ack", "acked"} => active = made /\ journal = made)
    BY DEF IInv, Locked, Client, Fetching, Cleaning
  <1>2. marker.req = made /\ made \in 0..MaxRequest /\ made # 0
    BY <1>1 DEF Holding, Marked, IInv, TypeOK, Requested, Gone, Preparing, Recovering, Activated
  <1>3. pc \in {"unlink", "ack", "acked"} => mem.cred = made
    BY <1>1, <1>2 DEF Holding, Marked, IInv, Requested, Gone, Preparing, Recovering, Activated
  <1>4. marker.cred = made
    BY <1>1, <1>3 DEF Holding
  <1>5. saas[made] # "none"
    BY <1>1, <1>2, <1>4 DEF Holding, Marked, IInv, Requested, Gone, Preparing, Recovering, Activated
  <1> QED  BY <1>1, <1>2, <1>3, <1>5, Constants

LEMMA RecordKeeps ==
  ASSUME IInv, RecordAcknowledgement, UNCHANGED <<helper, central>>
  PROVE  IInv'
  <1>1. /\ pc = "journal" /\ Outer
        /\ UNCHANGED <<parts, active, runtime, marker, completed, token, agent, saas, open, expired,
                       made, faults, crashes>>
    BY DEF RecordAcknowledgement, helper, central, Outer, pilot, world, budget
  <1>2. /\ Holding /\ mem.cred = made /\ marker.req = made /\ made \in Request /\ saas[made] # "none"
        /\ Whole /\ ~mem.acked
    BY <1>1, HeldFacts DEF IInv, Locked, Fetching, Cleaning
  <1>3. Recovering \/ Activated
    BY <1>2 DEF IInv, Requested, Gone, Preparing, Holding, Whole, Parts
  <1>4. CASE journal \in {0, mem.cred}
    <2>1. journal' = made /\ pc' = "switch" /\ UNCHANGED <<env, mem, orphan, rc, mine, copies>>
      BY <1>2, <1>4 DEF RecordAcknowledgement, Goto, backups
    <2>2. Requested'
      BY <1>1, <1>2, <1>3, <2>1 DEF IInv, Requested, Older, Recovering, Activated, Unsent, Whole, Marked, Holding
    <2>3. Operated'
      BY <1>1, OperatedFrame DEF IInv, Outer
    <2>4. Helping' /\ AcceptedIsClean'
      BY <1>1, <2>1, WrapperHelping, WrapperClean
    <2>5. Locked'
      BY <1>1, <1>2, <2>1 DEF IInv, Locked, Outer, Client, Fetching, Cleaning, Outstanding, Marked, Holding, Whole
    <2>6. TypeOK'
      BY <1>1, <1>2, <2>1, Constants DEF IInv, TypeOK, Outer, Positions, Client
    <2> QED  BY <2>2, <2>3, <2>4, <2>5, <2>6 DEF IInv
  <1>5. CASE journal \notin {0, mem.cred}
    BY <1>2, <1>3, <1>5 DEF Recovering, Activated, Holding
  <1> QED  BY <1>4, <1>5

LEMMA SwitchKeeps ==
  ASSUME IInv, Switch, UNCHANGED <<helper, central>>
  PROVE  IInv'
  <1>1. /\ pc = "switch" /\ pc' = "unlink" /\ active' = mem.cred /\ Outer
        /\ UNCHANGED <<parts, journal, runtime, marker, completed, token, agent, saas, open, expired,
                       made, faults, crashes, env, mem, orphan, rc, mine, copies>>
    BY DEF Switch, Goto, helper, central, Outer, backups, pilot, world, budget
  <1>2. /\ Holding /\ mem.cred = made /\ marker.req = made /\ made \in Request /\ saas[made] # "none"
        /\ ~mem.acked /\ journal = made
    BY <1>1, HeldFacts DEF IInv, Locked, Fetching, Cleaning
  <1>3. made # 0 /\ active <= made /\ active \in 0..MaxRequest /\ made \in 0..MaxRequest
    BY <1>2, Constants DEF IInv, TypeOK, Requested, Gone, Preparing, Recovering, Activated
  <1>4. Requested'
    BY <1>1, <1>2, <1>3 DEF IInv, Requested, Older, Activated, Marked, Holding
  <1>5. Operated'
    <2>1. \A n \in Grant : base[n] <= active => base[n] <= made
      <3>1. \A n \in Grant : base[n] \in Nat
        BY Constants DEF IInv, TypeOK
      <3> QED  BY <1>3, <3>1
    <2>4. \A n \in 1..grants : n \in Grant
      BY BoundAssumption DEF IInv, TypeOK, Grant
    <2>2. completed.req \in Nat /\ completed.req <= active => completed.req <= made
      BY <1>3 DEF IInv, TypeOK, Marker
    <2>3. completed.req \in Nat
      BY DEF IInv, TypeOK, Marker
    <2> QED  BY <1>1, <1>2, <2>1, <2>2, <2>3, <2>4 DEF IInv, Operated, Bound, Marked, Outstanding, Outer
  <1>6. Helping' /\ AcceptedIsClean'
    BY <1>1, WrapperHelping, WrapperClean
  <1>7. Locked'
    BY <1>1, <1>2 DEF IInv, Locked, Outer, Client, Fetching, Cleaning, Outstanding, Marked, Holding, Whole
  <1>8. TypeOK'
    BY <1>1, <1>2, <1>3 DEF IInv, TypeOK, Outer, Positions, Client
  <1> QED  BY <1>4, <1>5, <1>6, <1>7, <1>8 DEF IInv

LEMMA UnlinkKeeps ==
  ASSUME IInv, Unlink, UNCHANGED <<helper, central>>
  PROVE  IInv'
  <1>1. /\ pc = "unlink" /\ Outer /\ parts' \subseteq parts
        /\ pc' \in {"unlink", "ack"} /\ (pc' = "ack" => parts' = {})
        /\ UNCHANGED <<journal, active, runtime, marker, completed, token, agent, saas, open, expired,
                       made, faults, crashes, env, mem, orphan, rc, mine, copies>>
    BY DEF Unlink, Goto, run, helper, central, Outer, backups, pilot, world, budget
  <1>2. /\ Holding /\ mem.cred = made /\ marker.req = made /\ made \in Request /\ saas[made] # "none"
        /\ ~mem.acked /\ journal = made /\ active = made
    BY <1>1, HeldFacts DEF IInv, Locked, Fetching, Cleaning
  <1>3. Requested'
    BY <1>1, <1>2, Constants DEF IInv, Requested, Older, Activated, Marked, Holding
  <1>4. Operated'
    BY <1>1, <1>2 DEF IInv, Operated, Bound, Marked, Outstanding, Outer, Holding
  <1>5. Helping' /\ AcceptedIsClean'
    BY <1>1, WrapperHelping, WrapperClean
  <1>6. Locked'
    BY <1>1, <1>2 DEF IInv, Locked, Outer, Client, Fetching, Cleaning, Outstanding, Marked, Holding, Whole
  <1>7. TypeOK'
    BY <1>1 DEF IInv, TypeOK, Outer, Positions, Client
  <1> QED  BY <1>3, <1>4, <1>5, <1>6, <1>7 DEF IInv

LEMMA AcknowledgeKeeps ==
  ASSUME IInv, Acknowledge, UNCHANGED <<helper, central>>
  PROVE  IInv'
  <1>1. /\ pc = "ack" /\ Outer
        /\ UNCHANGED <<parts, journal, active, runtime, marker, completed, token, agent, open, expired>>
    BY DEF Acknowledge, helper, central, Outer, files, pilot
  <1>2. /\ Holding /\ mem.cred = made /\ marker.req = made /\ made \in Request /\ saas[made] # "none"
        /\ ~mem.acked /\ journal = made /\ active = made /\ parts = {}
    BY <1>1, HeldFacts DEF IInv, Locked, Fetching, Cleaning
  <1>3. saas' \in {saas, [saas EXCEPT ![made] = "acknowledged"]}
    BY <1>2 DEF Acknowledge
  <1>4. saas' \in [Request -> {"none", "issued", "acknowledged"}] /\ open' \subseteq Request
    BY <1>1, <1>2, <1>3 DEF IInv, TypeOK
  <1>5. saas'[made] \in {saas[made], "acknowledged"} /\ \A r \in Request : r # made => saas'[r] = saas[r]
    BY <1>2, <1>3 DEF IInv, TypeOK
  <1>6. made' = made => Requested'
    <2>1. \A r \in Request : (r < made => r # made) /\ (r > made => r # made)
      BY <1>2 DEF Request
    <2> QED  BY <1>1, <1>2, <1>5, <2>1, Constants DEF IInv, Requested, Older, Activated, Marked, Holding
  <1>7. CASE Fault /\ Exit("failed")
    BY <1>1, <1>4, <1>6, <1>7, FaultTyped, FailKeeps
  <1>8. CASE saas' = [saas EXCEPT ![mem.cred] = "acknowledged"] /\ Goto("acked") /\ UNCHANGED <<backups, budget>>
    <2>1. pc' = "acked" /\ UNCHANGED <<env, mem, orphan, rc, mine, copies, made, faults, crashes>>
      BY <1>8 DEF Goto, backups, budget
    <2>2. saas'[made] = "acknowledged"
      BY <1>2, <1>8 DEF IInv, TypeOK
    <2>3. Operated'
      BY <1>1, OperatedFrame DEF IInv, Outer
    <2>4. Helping' /\ AcceptedIsClean'
      BY <1>1, <2>1, WrapperHelping, WrapperClean
    <2>5. Locked'
      BY <1>1, <1>2, <2>1, <2>2 DEF IInv, Locked, Outer, Client, Fetching, Cleaning, Outstanding, Marked, Holding
    <2>6. TypeOK'
      BY <1>1, <1>4, <2>1 DEF IInv, TypeOK, Outer, Positions, Client
    <2> QED  BY <1>6, <2>1, <2>3, <2>4, <2>5, <2>6 DEF IInv
  <1> QED  BY <1>2, <1>7, <1>8 DEF Acknowledge

LEMMA AcknowledgedKeeps ==
  ASSUME IInv, Acknowledged, UNCHANGED <<helper, central>>
  PROVE  IInv'
  <1> DEFINE m == [mem EXCEPT !.acked = TRUE]
  <1>1. /\ pc = "acked" /\ pc' = "clear" /\ Outer /\ marker' = m /\ mem' = m
        /\ UNCHANGED <<parts, journal, active, runtime, completed, token, agent, env, orphan, rc,
                       mine, copies, saas, open, expired, made, faults, crashes>>
    BY DEF Acknowledged, WriteMarker, helper, central, Outer, backups, pilot, world, budget
  <1>2. /\ Holding /\ mem.cred = made /\ marker.req = made /\ made \in Request
        /\ saas[made] = "acknowledged" /\ journal = made /\ active = made /\ parts = {} /\ mem \in Marker
    BY <1>1, HeldFacts DEF IInv, TypeOK, Locked, Fetching, Cleaning
  <1>3. m \in Marker /\ m.req = made /\ m.op = marker.op /\ m.cred = made /\ m.acked /\ made # 0
    BY <1>2, Constants DEF Marker, Holding
  <1> HIDE DEF m
  <1>4. Requested'
    BY <1>1, <1>2, <1>3 DEF IInv, Requested, Older, Activated, Marked
  <1>5. Operated'
    BY <1>1, <1>2, <1>3 DEF IInv, Operated, Bound, Marked, Outstanding, Outer
  <1>6. Helping' /\ AcceptedIsClean'
    BY <1>1, <1>3, WrapperHelping, WrapperClean
  <1>7. Locked'
    BY <1>1, <1>2, <1>3 DEF IInv, Locked, Outer, Client, Fetching, Cleaning, Outstanding, Marked, Holding
  <1>8. TypeOK'
    BY <1>1, <1>3 DEF IInv, TypeOK, Outer, Positions, Client
  <1> QED  BY <1>4, <1>5, <1>6, <1>7, <1>8 DEF IInv

LEMMA CleanUpKeeps ==
  ASSUME IInv, CleanUp, UNCHANGED <<helper, central>>
  PROVE  IInv'
  <1>1. /\ pc \in {"clear", "ready", "receipt", "token"} /\ Outer
        /\ pc' = IF pc = "clear" THEN "ready" ELSE IF pc = "ready" THEN "receipt"
                 ELSE IF pc = "receipt" THEN "token" ELSE "erase"
        /\ journal' = IF pc = "clear" THEN 0 ELSE journal
        /\ runtime' = IF pc = "ready" THEN "SHADOW_READY" ELSE runtime
        /\ completed' = IF pc = "receipt" THEN mem ELSE completed
        /\ token' = IF pc = "token" THEN 0 ELSE token
        /\ UNCHANGED <<parts, active, marker, agent, env, mem, orphan, rc, mine, copies,
                       saas, open, expired, made, faults, crashes>>
    BY DEF CleanUp, Goto, helper, central, Outer, backups, pilot, world, budget
  <1>2. /\ Holding /\ mem.cred = made /\ marker.req = made /\ made \in Request /\ mem \in Marker
        /\ saas[made] = "acknowledged" /\ mem.acked /\ active = made /\ parts = {}
        /\ (pc # "clear" => journal = 0)
    BY <1>1, HeldFacts DEF IInv, TypeOK, Locked, Fetching, Cleaning
  <1>3. Requested'
    BY <1>1, <1>2, Constants DEF IInv, Requested, Older, Gone, Activated, Marked, Holding
  <1>4. Operated'
    <2>1. Bound(completed)'
      BY <1>1, <1>2 DEF IInv, Operated, Bound, Outer, Holding
    <2>2. completed'.req <= active'
      BY <1>1, <1>2, Constants DEF IInv, Operated, Holding, Request
    <2> QED  BY <1>1, <1>2, <2>1, <2>2 DEF IInv, Operated, Bound, Marked, Outstanding, Outer, Holding
  <1>5. Helping' /\ AcceptedIsClean'
    BY <1>1, WrapperHelping, WrapperClean
  <1>6. Locked'
    BY <1>1, <1>2 DEF IInv, Locked, Outer, Client, Fetching, Cleaning, Outstanding, Marked, Holding
  <1>7. TypeOK'
    BY <1>1, <1>2, Constants DEF IInv, TypeOK, Outer, Positions, Client
  <1> QED  BY <1>3, <1>4, <1>5, <1>6, <1>7 DEF IInv

LEMMA EraseKeeps ==
  ASSUME IInv, EraseMarker, UNCHANGED <<helper, central>>
  PROVE  IInv'
  <1>1. /\ pc = "erase" /\ Outer /\ marker' = NoMarker
        /\ UNCHANGED <<parts, journal, active, runtime, completed, token, agent,
                       saas, open, expired, made, faults, crashes>>
    BY DEF EraseMarker, helper, central, Outer, pilot, world, budget
  <1>2. /\ Holding /\ mem.cred = made /\ marker.req = made /\ made \in Request
        /\ saas[made] = "acknowledged" /\ mem.acked /\ active = made /\ parts = {}
        /\ journal = 0 /\ completed = mem /\ token = 0
    BY <1>1, HeldFacts DEF IInv, TypeOK, Locked, Fetching, Cleaning
  <1>3. Requested'
    BY <1>1, <1>2, NoMarkerTyped DEF IInv, Requested, Older, Gone, Marked
  <1>4. Operated'
    BY <1>1, <1>2, NoMarkerTyped DEF IInv, Operated, Bound, Marked, Outstanding, Outer, Holding
  <1>5. CASE Exit("failed")
    <2>1. Helping' /\ AcceptedIsClean' /\ Locked'
      BY <1>1, <1>5, NoMarkerTyped, ExitLocked, WrapperHelping, WrapperClean
    <2>2. TypeOK'
      BY <1>1, <1>5, NoMarkerTyped, ExitLocked DEF IInv, TypeOK, Outer
    <2> QED  BY <1>3, <1>4, <2>1, <2>2 DEF IInv
  <1>6. CASE Goto("start") /\ UNCHANGED backups
    <2>1. pc' = "start" /\ UNCHANGED <<env, mem, orphan, rc, mine, copies>>
      BY <1>6 DEF Goto, backups
    <2>2. Helping' /\ AcceptedIsClean'
      BY <1>1, <2>1, NoMarkerTyped, WrapperHelping, WrapperClean
    <2>3. Locked'
      BY <1>1, <2>1 DEF IInv, Locked, Outer, Client, Fetching, Cleaning, Outstanding
    <2>4. TypeOK'
      BY <1>1, <2>1, NoMarkerTyped DEF IInv, TypeOK, Outer, Positions
    <2> QED  BY <1>3, <1>4, <2>2, <2>3, <2>4 DEF IInv
  <1> QED  BY <1>5, <1>6 DEF EraseMarker

\* After the client: the Agent starts, is waited for, and the run ends.
LEMMA AfterClientKeeps ==
  ASSUME IInv, StartAgent \/ AwaitActive \/ Tidy, UNCHANGED <<helper, central>>
  PROVE  IInv'
  <1>1. /\ pc \in {"start", "await", "tidy"} /\ Outer /\ agent' \in BOOLEAN
        /\ UNCHANGED <<parts, journal, active, runtime, marker, completed, token, saas, open, expired>>
    BY DEF StartAgent, AwaitActive, Tidy, helper, central, Outer, files, pilot, world, IInv, TypeOK
  <1>2. \/ /\ pc' \in {"await", "tidy"} /\ UNCHANGED <<env, mem, orphan, rc, mine, copies, made, faults, crashes>>
        \/ /\ \E code \in {"failed", "passed"} : Exit(code)
           /\ UNCHANGED agent /\ (Fault \/ UNCHANGED <<made, faults, crashes>>)
    BY DEF StartAgent, AwaitActive, Tidy, Goto, backups, budget
  <1>3. CASE pc' \in {"await", "tidy"} /\ UNCHANGED <<env, mem, orphan, rc, mine, copies, made, faults, crashes>>
    <2>1. Requested' /\ Operated'
      BY <1>1, <1>3, RequestedFrame, OperatedFrame DEF IInv, Outer
    <2>2. Helping' /\ AcceptedIsClean'
      BY <1>1, <1>3, WrapperHelping, WrapperClean
    <2>3. Locked'
      BY <1>1, <1>3 DEF IInv, Locked, Outer, Client, Fetching, Cleaning, Outstanding
    <2>4. TypeOK'
      BY <1>1, <1>3 DEF IInv, TypeOK, Outer, Positions
    <2> QED  BY <2>1, <2>2, <2>3, <2>4 DEF IInv
  <1>4. CASE /\ \E code \in {"failed", "passed"} : Exit(code)
             /\ UNCHANGED agent /\ (Fault \/ UNCHANGED <<made, faults, crashes>>)
    <2>1. UNCHANGED made /\ faults' \in 0..MaxFault /\ crashes' \in 0..MaxCrash
      BY <1>4, FaultTyped DEF IInv, TypeOK
    <2>2. saas' \in [Request -> {"none", "issued", "acknowledged"}] /\ open' \subseteq Request
      BY <1>1 DEF IInv, TypeOK
    <2>3. Requested'
      BY <1>1, <2>1, RequestedFrame DEF IInv
    <2> QED  BY <1>1, <1>4, <2>1, <2>2, <2>3, FailKeeps
  <1> QED  BY <1>2, <1>3, <1>4

LEMMA KillKeeps ==
  ASSUME IInv, Kill, UNCHANGED <<helper, central>>
  PROVE  IInv'
  <1>1. /\ pc \notin {"off", "offer"} /\ Outer /\ Exit("failed")
        /\ UNCHANGED <<parts, journal, active, runtime, marker, completed, token, agent, saas, open, expired,
                       made, faults>>
    BY DEF Kill, helper, central, Outer, files, pilot, world
  <1>2. faults' \in 0..MaxFault /\ crashes' \in 0..MaxCrash
    BY <1>1, BoundAssumption DEF Kill, IInv, TypeOK
  <1>3. saas' \in [Request -> {"none", "issued", "acknowledged"}] /\ open' \subseteq Request
    BY <1>1 DEF IInv, TypeOK
  <1>4. Requested'
    BY <1>1, RequestedFrame DEF IInv
  <1> QED  BY <1>1, <1>2, <1>3, <1>4, FailKeeps

LEMMA WrapperKeeps ==
  ASSUME IInv, Wrapper, UNCHANGED <<helper, central>>
  PROVE  IInv'
  BY PreflightKeeps, StopKeeps, LoadKeeps, RefuseKeeps, ResumeKeeps, PublishKeeps, NewRecoveryKeeps,
     DispatchKeeps, PostKeeps, PostRefusedKeeps, WriteNoSignKeeps, BindKeeps, FetchKeeps, RecordKeeps,
     SwitchKeeps, UnlinkKeeps, AcknowledgeKeeps, AcknowledgedKeeps, CleanUpKeeps, EraseKeeps,
     AfterClientKeeps DEF Wrapper

-----------------------------------------------------------------------------
(* The Agent, and time.                                                       *)

\* The Agent acts on the files only while no client runs; an acknowledgement of
\* its own ends the request as the client's would.
LEMMA AgentKeeps ==
  ASSUME IInv, AgentCycle, UNCHANGED <<helper, central>>
  PROVE  IInv'
  <1>1. /\ agent /\ pc \notin Client /\ Outer
        /\ runtime' \in {"BLOCKED", "FALLBACK", "SHADOW_READY", "SHADOW_ACTIVE"}
        /\ UNCHANGED <<active, marker, completed, token, agent, pc, env, mem, orphan, rc, mine, copies,
                       open, expired, made, faults, crashes>>
    BY DEF AgentCycle, IInv, Locked, helper, central, Outer, backups, pilot, run, budget
  <1>2. CASE UNCHANGED <<parts, journal, saas>>
    <2>1. Requested' /\ Operated'
      BY <1>1, <1>2, RequestedFrame, OperatedFrame DEF IInv, Outer
    <2>2. Locked' /\ Helping' /\ AcceptedIsClean'
      BY <1>1, <1>2 DEF IInv, Locked, Helping, AcceptedIsClean, Outer, Outstanding, Marked, Holding, Stale, Whole
    <2>3. TypeOK'
      BY <1>1, <1>2 DEF IInv, TypeOK, Outer
    <2> QED  BY <2>1, <2>2, <2>3 DEF IInv
  <1>3. CASE /\ active \notin expired /\ journal = active /\ parts' = {} /\ journal' = 0
             /\ saas' = [saas EXCEPT ![journal] = "acknowledged"]
    <2>1. active # 0 /\ Activated /\ made \in Request /\ journal = made
      <3>1. active # 0 /\ made \in 0..MaxRequest /\ active \in 0..MaxRequest
        BY <1>3 DEF IInv, TypeOK, Requested, Older
      <3>2. Activated
        BY <1>3, <3>1, Constants DEF IInv, TypeOK, Requested, Gone, Preparing, Recovering
      <3> QED  BY <3>1, <3>2, Constants DEF Activated
    <2>2. saas'[made] = "acknowledged" /\ \A r \in Request : r # made => saas'[r] = saas[r]
      BY <1>3, <2>1 DEF IInv, TypeOK
    <2>3. saas' \in [Request -> {"none", "issued", "acknowledged"}]
      BY <1>3, <2>1 DEF IInv, TypeOK
    <2>4. Requested'
      <3>1. \A r \in Request : (r < made => r # made) /\ (r > made => r # made)
        BY <2>1 DEF Request
      <3> QED  BY <1>1, <1>3, <2>1, <2>2, <3>1 DEF IInv, Requested, Older, Gone, Activated, Marked
    <2>5. Operated'
      BY <1>1, <1>3, <2>1 DEF IInv, Operated, Bound, Marked, Outstanding, Outer, Activated
    <2>6. Locked' /\ Helping' /\ AcceptedIsClean'
      <3>1. Marked
        BY <2>1 DEF Activated, Marked
      <3>2. pc \notin {"prepare", "offer"}
        BY <3>1 DEF IInv, Locked
      <3> QED  BY <1>1, <1>3, <3>1, <3>2 DEF IInv, Locked, Helping, AcceptedIsClean, Outer, Outstanding,
               Marked, Client, Fetching, Cleaning
    <2>7. TypeOK'
      BY <1>1, <1>3, <2>3, Constants DEF IInv, TypeOK, Outer
    <2> QED  BY <2>4, <2>5, <2>6, <2>7 DEF IInv
  <1> QED  BY <1>2, <1>3 DEF AgentCycle

LEMMA ExpireKeeps ==
  ASSUME IInv, Expire, UNCHANGED <<helper, central>>
  PROVE  IInv'
  <1>1. /\ Outer /\ expired' = expired \cup {active}
        /\ UNCHANGED <<parts, journal, active, runtime, marker, completed, token, agent, pc, env, mem, orphan, rc,
                       mine, copies, saas, open, made, faults, crashes>>
    BY DEF Expire, helper, central, Outer, files, backups, pilot, run, budget
  <1>2. Requested'
    BY <1>1 DEF IInv, Requested, Older, Gone, Preparing, Recovering, Activated, Unsent, Whole, Marked
  <1>3. Operated'
    BY <1>1, OperatedFrame DEF IInv, Outer
  <1>4. Locked' /\ Helping' /\ AcceptedIsClean'
    BY <1>1 DEF IInv, Locked, Helping, AcceptedIsClean, Outer, Outstanding, Marked, Holding, Stale, Whole
  <1>5. TypeOK'
    BY <1>1 DEF IInv, TypeOK, Outer
  <1> QED  BY <1>2, <1>3, <1>4, <1>5 DEF IInv

-----------------------------------------------------------------------------
(* Outside the host.                                                          *)

\* Where nothing on the host changes, only what is known of operations does.
LEMMA HostFrame ==
  ASSUME IInv, UNCHANGED <<files, backups, agent, order, run, world, budget, helper>>
  PROVE  Requested' /\ Locked' /\ Helping' /\ AcceptedIsClean'
  <1>1. UNCHANGED <<parts, journal, active, runtime, marker, completed, token, mine, copies, agent, order,
                    pc, env, mem, orphan, rc, saas, open, expired, made, faults, crashes, hpc, hop>>
    BY DEF files, backups, run, world, budget, helper
  <1>2. Requested'
    BY <1>1, RequestedFrame DEF IInv
  <1>3. Locked'
    BY <1>1 DEF IInv, Locked, Outstanding, Marked, Holding, Stale, Whole
  <1>4. Helping' /\ AcceptedIsClean'
    BY <1>1 DEF IInv, Helping, AcceptedIsClean, Outstanding, Marked
  <1> QED  BY <1>2, <1>3, <1>4

LEMMA ReserveKeeps ==
  ASSUME IInv, Reserve
  PROVE  IInv'
  <1>1. /\ grants < MaxGrant /\ grants' = grants + 1 /\ base' = [base EXCEPT ![grants'] = active]
        /\ UNCHANGED <<files, backups, agent, order, lapsed, run, world, budget, helper, history, manual>>
    BY DEF Reserve
  <1>2. UNCHANGED <<parts, journal, active, runtime, marker, completed, token, mine, copies, agent, order, lapsed,
                    pc, env, mem, orphan, rc, saas, open, expired, made, faults, crashes, hpc, hop, history, manual>>
    BY <1>1 DEF files, backups, run, world, budget, helper
  <1>3. /\ grants' \in Grant /\ grants' \in 0..MaxGrant /\ active \in 0..MaxRequest
        /\ \A n \in 1..grants : n \in Grant /\ n # grants' /\ n \in 1..grants'
    BY <1>1, Constants DEF IInv, TypeOK, Grant
  <1>4. /\ base' \in [Grant -> 0..MaxRequest + 1]
        /\ \A n \in Grant : base'[n] = base[n] \/ base'[n] = active
        /\ \A n \in 1..grants : base'[n] = base[n]
    BY <1>1, <1>3, Constants DEF IInv, TypeOK
  <1>5. Operated'
    BY <1>2, <1>3, <1>4 DEF IInv, Operated, Bound, Marked, Outstanding
  <1>6. TypeOK'
    BY <1>2, <1>3, <1>4 DEF IInv, TypeOK
  <1> QED  BY <1>1, <1>5, <1>6, HostFrame DEF IInv

LEMMA LapseKeeps ==
  ASSUME IInv, NEW n \in Operation, Lapse(n)
  PROVE  IInv'
  <1>1. UNCHANGED <<parts, journal, active, runtime, marker, completed, token, mine, copies, agent, order, base,
                    pc, env, mem, orphan, rc, saas, open, expired, made, faults, crashes, hpc, hop,
                    history, grants, manual>>
    BY DEF Lapse, files, backups, run, world, budget, helper, central
  <1>2. lapsed' \subseteq Grant
    BY BoundAssumption DEF Lapse, Operation, IInv, TypeOK, Grant
  <1>3. Operated'
    BY <1>1, OperatedFrame DEF IInv
  <1>4. TypeOK'
    BY <1>1, <1>2 DEF IInv, TypeOK
  <1>5. Requested' /\ Locked' /\ Helping' /\ AcceptedIsClean'
    BY HostFrame DEF Lapse
  <1> QED  BY <1>3, <1>4, <1>5 DEF IInv

LEMMA InstallTokenKeeps ==
  ASSUME IInv, InstallToken
  PROVE  IInv'
  <1>1. /\ grants < MaxGrant /\ ~Outstanding /\ hpc = "idle" /\ token = 0 /\ ~Marked /\ pc = "off"
        /\ grants' = grants + 1 /\ token' = grants'
        /\ UNCHANGED <<parts, journal, active, runtime, marker, completed, mine, copies, agent, order, base, lapsed,
                       pc, env, mem, orphan, rc, saas, open, expired, made, faults, crashes, hpc, hop,
                       history, manual>>
    BY DEF InstallToken, backups, pilot, run, world, budget, helper
  <1>2. /\ grants' \in 0..MaxGrant /\ token' # 0 /\ grants \in Nat
        /\ \A n \in 1..grants : n \in 1..grants' /\ n # token'
    BY <1>1, Constants DEF IInv, TypeOK
  <1>3. Requested'
    BY <1>1 DEF IInv, Requested, Older, Gone, Preparing, Recovering, Activated, Unsent, Whole, Marked
  <1>4. Operated'
    BY <1>1, <1>2 DEF IInv, Operated, Bound, Marked, Outstanding
  <1>5. Locked' /\ Helping'
    BY <1>1 DEF IInv, Locked, Helping, Outstanding, Marked, Client, Fetching, Cleaning
  <1>6. AcceptedIsClean'
    BY <1>1, <1>2 DEF IInv, Operated, AcceptedIsClean
  <1>7. TypeOK'
    BY <1>1, <1>2 DEF IInv, TypeOK
  <1> QED  BY <1>3, <1>4, <1>5, <1>6, <1>7 DEF IInv

\* The wrapper starts, for an operator or for the operation under way.
LEMMA BeginKeeps ==
  ASSUME IInv, NEW n \in 0..MaxGrant, n # 0 => order.op = n /\ Outstanding, Begin(n)
  PROVE  /\ Requested' /\ Locked' /\ pc' = "check" /\ hpc \notin {"prepare", "token", "accept"}
         /\ env' \in 0..MaxGrant /\ mem' \in Marker /\ orphan' \in BOOLEAN /\ rc' = "none" /\ mine' \subseteq Copy
         /\ UNCHANGED <<parts, journal, active, runtime, marker, completed, token, copies, agent, order, base, lapsed,
                        saas, open, expired, made, faults, crashes>>
  <1>1. /\ pc = "off" /\ (token # 0 \/ Marked) /\ pc' = "check" /\ env' = n /\ mem' = NoMarker
        /\ orphan' = FALSE /\ rc' = "none"
        /\ mine' = {[op |-> n, token |-> t] : t \in {token} \ {0}}
        /\ UNCHANGED <<parts, journal, active, runtime, marker, completed, token, copies, agent, order, base, lapsed,
                       saas, open, expired, made, faults, crashes>>
    BY DEF Begin, files, pilot, world, budget
  <1>2. mine' \subseteq Copy /\ \A c \in mine' : c.op = n
    BY <1>1, Constants DEF Copy, Grant, IInv, TypeOK
  <1>3. hpc \notin {"prepare", "token", "accept"}
    BY <1>1 DEF IInv, Helping
  <1>4. Requested'
    BY <1>1, RequestedFrame DEF IInv
  <1>5. Locked'
    BY <1>1, <1>2 DEF Locked, Outstanding, Marked, Client, Fetching, Cleaning
  <1> QED  BY <1>1, <1>2, <1>3, <1>4, <1>5, NoMarkerTyped

LEMMA RunByHandKeeps ==
  ASSUME IInv, RunByHand
  PROVE  IInv'
  <1>1. /\ Begin(0) /\ manual < MaxManual /\ manual' = manual + 1
        /\ UNCHANGED <<hpc, hop, history, grants>>
    BY DEF RunByHand, helper
  <1>2. /\ Requested' /\ Locked' /\ pc' = "check" /\ hpc \notin {"prepare", "token", "accept"}
        /\ env' \in 0..MaxGrant /\ mem' \in Marker /\ orphan' \in BOOLEAN /\ rc' = "none" /\ mine' \subseteq Copy
        /\ UNCHANGED <<parts, journal, active, runtime, marker, completed, token, copies, agent, order, base, lapsed,
                       saas, open, expired, made, faults, crashes>>
    BY <1>1, Constants, BeginKeeps
  <1>3. Operated'
    BY <1>1, <1>2, OperatedFrame DEF IInv
  <1>4. Helping' /\ AcceptedIsClean'
    BY <1>1, <1>2 DEF IInv, Helping, AcceptedIsClean
  <1>5. TypeOK'
    BY <1>1, <1>2, ManualAssumption DEF IInv, TypeOK, Positions
  <1> QED  BY <1>2, <1>3, <1>4, <1>5 DEF IInv

-----------------------------------------------------------------------------
(* The helper.                                                                *)

\* An operation is admitted only on the generation it is bound to, for which no
\* receipt of its own exists yet; with neither token nor marker there is no client.
LEMMA AdmissionFacts ==
  ASSUME IInv, NEW n \in Operation
  PROVE  /\ n \in 1..grants /\ n \in 0..MaxGrant /\ n # 0 /\ base[n] <= active
         /\ \A known \in BOOLEAN : Admission(n, known) => completed.op # n
  <1>1. n \in 1..grants /\ n \in Grant /\ base[n] \in 0..MaxRequest + 1 /\ base[n] <= MaxRequest
    BY Constants DEF Operation, IInv, TypeOK, Grant
  <1>2. base[n] <= active
    BY <1>1, Constants DEF IInv, Operated
  <1>3. ASSUME completed.op = n  PROVE base[n] # active
    <2>1. base[n] < completed.req /\ completed.req <= active
      BY <1>1, <1>3 DEF IInv, Operated, Bound
    <2>2. completed.req \in Nat /\ active \in Nat
      BY DEF IInv, TypeOK, Marker
    <2> QED  BY <1>1, <2>1, <2>2
  <1> QED  BY <1>1, <1>2, <1>3, Constants DEF Admission

LEMMA NoClient ==
  ASSUME IInv, token = 0, ~Marked, hpc # "prepare"
  PROVE  pc \in {"off", "start", "await", "tidy"}
  <1>1. pc \in Positions /\ pc # "offer"
    BY DEF IInv, TypeOK, Helping
  <1>2. pc \notin {"check", "stop"} \cup Client
    BY DEF IInv, Locked, Client, Fetching, Cleaning, Holding
  <1> QED  BY <1>1, <1>2 DEF Positions

LEMMA PrepareKeeps ==
  ASSUME IInv, NEW n \in Operation, Prepare(n)
  PROVE  IInv'
  <1>1. /\ hpc = "idle" /\ hop' = n /\ ~Outstanding /\ pc = "off" /\ Admission(n, FALSE)
        /\ parts = {} /\ made < MaxRequest /\ hpc' = "prepare" /\ pc' = "offer"
        /\ UNCHANGED <<parts, journal, active, runtime, marker, completed, token, mine, copies, agent, order, base,
                       lapsed, env, mem, orphan, rc, saas, open, expired, made, faults, crashes,
                       history, grants, manual>>
    BY DEF Prepare, Command, files, backups, pilot, world, budget, central
  <1>2. Requested' /\ Operated'
    BY <1>1, RequestedFrame, OperatedFrame DEF IInv
  <1>3. Locked'
    BY <1>1 DEF IInv, Locked, Admission, Outstanding, Marked, Client, Fetching, Cleaning
  <1>4. Helping' /\ AcceptedIsClean'
    BY <1>1 DEF IInv, Helping, AcceptedIsClean, Outstanding
  <1>5. TypeOK'
    BY <1>1, AdmissionFacts DEF IInv, TypeOK, Positions
  <1> QED  BY <1>2, <1>3, <1>4, <1>5 DEF IInv

LEMMA PreparedKeeps ==
  ASSUME IInv, Prepared
  PROVE  IInv'
  <1>1. /\ hpc = "prepare" /\ pc = "offer" /\ hpc' = "idle" /\ pc' = "off"
        /\ UNCHANGED <<parts, journal, active, runtime, marker, completed, token, mine, copies, agent, order, base,
                       lapsed, env, mem, orphan, rc, saas, open, expired, made, faults, crashes,
                       hop, history, grants, manual>>
    BY DEF Prepared, Become, Goto, files, backups, pilot, world, budget, central
  <1>2. Requested' /\ Operated'
    BY <1>1, RequestedFrame, OperatedFrame DEF IInv
  <1>3. Locked'
    BY <1>1 DEF IInv, Locked, Outstanding, Marked, Client, Fetching, Cleaning
  <1>4. Helping' /\ AcceptedIsClean'
    BY <1>1 DEF IInv, Helping, AcceptedIsClean, Outstanding
  <1>5. TypeOK'
    BY <1>1 DEF IInv, TypeOK, Positions
  <1> QED  BY <1>2, <1>3, <1>4, <1>5 DEF IInv

LEMMA DeliverKeeps ==
  ASSUME IInv, NEW n \in Operation, Deliver(n)
  PROVE  IInv'
  <1>1. /\ hpc = "idle" /\ hop' = n /\ token = 0 /\ Admission(n, FALSE)
        /\ ~Outstanding /\ (UNCHANGED history \/ (history' = history \cup {order.op} /\ order.phase = "ACCEPTED"))
        /\ order' = [op |-> n, phase |-> "DELIVERED"] /\ hpc' = "token"
        /\ UNCHANGED <<parts, journal, active, runtime, marker, completed, token, mine, copies, agent, base,
                       lapsed, pc, env, mem, orphan, rc, saas, open, expired, made, faults, crashes,
                       grants, manual>>
    <2>1. /\ order.phase \in {"none", "ACCEPTED"}
          /\ UNCHANGED history \/ (history' = history \cup {order.op} /\ order.phase = "ACCEPTED")
      BY DEF Deliver
    <2>2. ~Outstanding
      BY <2>1 DEF Outstanding
    <2> QED  BY <2>1, <2>2 DEF Deliver, Command, files, backups, run, world, budget
  <1>2. ~Marked /\ completed.op # n /\ n \in 1..grants /\ n \in 0..MaxGrant /\ base[n] <= active
        /\ pc \in {"off", "start", "await", "tidy"}
    BY <1>1, AdmissionFacts, NoClient DEF Admission
  <1>3. order'.op = n /\ order'.phase = "DELIVERED"
    BY <1>1
  <1>4. history' \subseteq Grant
    <2>1. order.phase = "ACCEPTED" => order.op \in Grant
      BY Constants DEF IInv, TypeOK, Operated, Grant
    <2> QED  BY <1>1, <2>1 DEF IInv, TypeOK
  <1>5. Requested'
    BY <1>1, RequestedFrame DEF IInv
  <1>6. Operated'
    BY <1>1, <1>2, <1>3 DEF IInv, Operated, Bound, Marked, Outstanding
  <1>7. Locked'
    <2>1. env = 0
      BY <1>1 DEF IInv, Locked
    <2> QED  BY <1>1, <1>2, <2>1 DEF IInv, Locked, Client, Fetching, Cleaning
  <1>8. Helping' /\ AcceptedIsClean'
    BY <1>1, <1>2, <1>3 DEF Helping, AcceptedIsClean, Marked
  <1>9. TypeOK'
    BY <1>1, <1>2, <1>4 DEF IInv, TypeOK
  <1> QED  BY <1>5, <1>6, <1>7, <1>8, <1>9 DEF IInv

LEMMA RedeliverKeeps ==
  ASSUME IInv, NEW n \in Operation, Redeliver(n)
  PROVE  IInv'
  <1>1. /\ hpc = "idle" /\ hop' = n /\ token = 0 /\ Admission(n, FALSE)
        /\ order = [op |-> n, phase |-> "DELIVERED"] /\ hpc' = "token"
        /\ UNCHANGED <<parts, journal, active, runtime, marker, completed, token, mine, copies, agent, order, base,
                       lapsed, pc, env, mem, orphan, rc, saas, open, expired, made, faults, crashes,
                       history, grants, manual>>
    BY DEF Redeliver, Command, files, backups, pilot, run, world, budget, central
  <1>2. ~Marked /\ completed.op # n /\ n \in 0..MaxGrant /\ pc \in {"off", "start", "await", "tidy"}
    BY <1>1, AdmissionFacts, NoClient DEF Admission
  <1>3. Requested' /\ Operated'
    BY <1>1, RequestedFrame, OperatedFrame DEF IInv
  <1>4. Locked'
    BY <1>1, <1>2 DEF IInv, Locked, Outstanding, Client, Fetching, Cleaning
  <1>5. Helping' /\ AcceptedIsClean'
    BY <1>1, <1>2 DEF Helping, AcceptedIsClean, Marked
  <1>6. TypeOK'
    BY <1>1, <1>2 DEF IInv, TypeOK
  <1> QED  BY <1>3, <1>4, <1>5, <1>6 DEF IInv

LEMMA WriteTokenKeeps ==
  ASSUME IInv, WriteToken
  PROVE  IInv'
  <1>1. /\ hpc = "token" /\ hpc' = "idle" /\ token' = hop
        /\ UNCHANGED <<parts, journal, active, runtime, marker, completed, mine, copies, agent, order, base,
                       lapsed, pc, env, mem, orphan, rc, saas, open, expired, made, faults, crashes,
                       hop, history, grants, manual>>
    BY DEF WriteToken, Become, IInv, Helping, backups, pilot, run, world, budget, central
  <1>2. /\ order.op = hop /\ order.phase = "DELIVERED" /\ ~Marked /\ completed.op # hop
        /\ pc \in {"off", "start", "await", "tidy"}
    BY <1>1 DEF IInv, Helping
  <1>3. Requested'
    BY <1>1, <1>2 DEF IInv, Requested, Older, Gone, Preparing, Recovering, Activated, Unsent, Whole, Marked
  <1>4. Operated'
    BY <1>1, <1>2 DEF IInv, Operated, Bound, Marked, Outstanding
  <1>5. Locked'
    BY <1>1, <1>2 DEF IInv, Locked, Outstanding, Client, Fetching, Cleaning
  <1>6. Helping' /\ AcceptedIsClean'
    BY <1>1, <1>2 DEF Helping, AcceptedIsClean
  <1>7. TypeOK'
    BY <1>1 DEF IInv, TypeOK
  <1> QED  BY <1>3, <1>4, <1>5, <1>6, <1>7 DEF IInv

LEMMA ApplyKeeps ==
  ASSUME IInv, NEW n \in Operation, Apply(n)
  PROVE  IInv'
  <1>1. /\ hpc = "idle" /\ hop' = n /\ order = [op |-> n, phase |-> "DELIVERED"]
        /\ order' = [order EXCEPT !.phase = "APPLY_DISPATCHED"] /\ hpc' = "spawn"
        /\ UNCHANGED <<parts, journal, active, runtime, marker, completed, token, mine, copies, agent, base,
                       lapsed, pc, env, mem, orphan, rc, saas, open, expired, made, faults, crashes,
                       history, grants, manual>>
    BY DEF Apply, Command, Phase, files, backups, run, world, budget, central
  <1>2. order.op = n /\ order.phase = "DELIVERED" /\ order' = [op |-> n, phase |-> "APPLY_DISPATCHED"]
        /\ n \in 0..MaxGrant /\ pc # "offer"
    BY <1>1, AdmissionFacts DEF IInv, Helping
  <1>3. order'.op = n /\ order'.phase = "APPLY_DISPATCHED"
    BY <1>2
  <1>4. Requested'
    BY <1>1, RequestedFrame DEF IInv
  <1>5. Operated'
    BY <1>1, <1>2, <1>3 DEF IInv, Operated, Bound, Marked, Outstanding
  <1>6. Locked'
    BY <1>1, <1>2, <1>3 DEF IInv, Locked, Outstanding, Marked, Holding, Stale, Whole
  <1>7. Helping' /\ AcceptedIsClean'
    BY <1>1, <1>2, <1>3 DEF Helping, AcceptedIsClean
  <1>8. TypeOK'
    BY <1>1, <1>2 DEF IInv, TypeOK
  <1> QED  BY <1>4, <1>5, <1>6, <1>7, <1>8 DEF IInv

\* Reconcile repairs the marker of the operation under way, and nothing that a
\* client still at work relies on.
LEMMA ReconcileFrame ==
  ASSUME IInv, NEW n \in Operation, Reconcile(n), Requested', Operated', Locked', marker' \in Marker
  PROVE  IInv'
  <1>1. /\ order = [op |-> n, phase |-> "APPLY_DISPATCHED"] /\ hpc = "idle" /\ hop' = n /\ hpc' = "spawn"
        /\ UNCHANGED <<parts, journal, active, runtime, completed, token, mine, copies, agent, order, base,
                       lapsed, pc, env, mem, orphan, rc, saas, open, expired, made, faults, crashes,
                       history, grants, manual>>
    BY DEF Reconcile, Command, backups, pilot, run, world, budget, central
  <1>2. n \in 0..MaxGrant
    BY AdmissionFacts
  <1>3. Helping' /\ AcceptedIsClean'
    BY <1>1 DEF IInv, Helping, AcceptedIsClean
  <1>4. TypeOK'
    BY <1>1, <1>2 DEF IInv, TypeOK
  <1> QED  BY <1>3, <1>4 DEF IInv

LEMMA RestoredMarkerKeeps ==
  ASSUME IInv, NEW n \in Operation, Reconcile(n), RestoredMarker(n)
  PROVE  IInv'
  <1>1. /\ order = [op |-> n, phase |-> "APPLY_DISPATCHED"] /\ hpc = "idle"
        /\ ~Marked /\ completed.op = n /\ completed.acked /\ active = completed.req /\ marker' = completed
        /\ UNCHANGED <<parts, journal, active, runtime, completed, token, mine, copies, agent, order, base,
                       lapsed, pc, env, mem, orphan, rc, saas, open, expired, made, faults, crashes,
                       history, grants, manual>>
    BY DEF Reconcile, RestoredMarker, Command, backups, pilot, run, world, budget, central
  <1>2. /\ token = 0 /\ parts = {} /\ completed.cred = completed.req /\ order.op = n /\ n # 0
        /\ completed.req # 0 /\ completed \in Marker
    <2>1. order.op = n /\ Outstanding /\ n # 0 /\ n \in 1..grants /\ base[n] <= active
      BY <1>1, AdmissionFacts DEF Outstanding
    <2>2. token = 0 /\ parts = {} /\ completed.cred = completed.req
      BY <1>1, <2>1 DEF IInv, Operated
    <2>3. base[n] < completed.req /\ n \in Grant
      BY <1>1, <2>1, BoundAssumption DEF IInv, TypeOK, Operated, Bound, Grant
    <2>4. base[n] \in Nat /\ completed.req \in Nat /\ completed \in Marker
      BY <2>3, Constants DEF IInv, TypeOK, Marker
    <2> QED  BY <2>1, <2>2, <2>3, <2>4
  <1>3. pc \in {"off", "start", "await", "tidy"}
    BY <1>1, <1>2, NoClient
  <1>4. Gone
    BY <1>1, <1>2 DEF IInv, Requested, Preparing, Recovering, Activated, Whole, Parts, Marked
  <1>5. Requested'
    BY <1>1, <1>2, <1>4 DEF IInv, Requested, Older, Gone, Marked
  <1>6. Operated'
    BY <1>1, <1>2 DEF IInv, Operated, Bound, Marked, Outstanding
  <1>7. Locked'
    BY <1>1, <1>3 DEF IInv, Locked, Outstanding, Client, Fetching, Cleaning
  <1> QED  BY <1>1, <1>2, <1>5, <1>6, <1>7, ReconcileFrame

LEMMA NotSignedKeeps ==
  ASSUME IInv, NEW n \in Operation, Reconcile(n), NotSigned(n)
  PROVE  IInv'
  <1> DEFINE m == [marker EXCEPT !.dispatch = "READY", !.posted = FALSE, !.proof = TRUE]
  <1>1. /\ Marked /\ marker.cred = 0 /\ NoSignProved /\ Whole /\ made = marker.req
        /\ marker.req \notin open /\ saas[marker.req] = "none" /\ marker' = m
        /\ UNCHANGED <<parts, journal, active, runtime, completed, token, mine, copies, agent, order, base,
                       lapsed, pc, env, mem, orphan, rc, saas, open, expired, made, faults, crashes,
                       history, grants, manual>>
    BY DEF Reconcile, NotSigned, backups, pilot, run, world, budget, central
  <1>2. Recovering /\ made # 0 /\ active # made
    BY <1>1, Constants DEF IInv, TypeOK, Requested, Gone, Preparing, Recovering, Activated, Whole, Parts, Marked
  <1>3. /\ m \in Marker /\ m.req = marker.req /\ m.op = marker.op /\ m.cred = 0 /\ ~m.acked
        /\ ~m.posted /\ m.dispatch = "READY"
    BY <1>1, <1>2 DEF Recovering, Marker, IInv, TypeOK
  <1>4. marker.dispatch = "READY" => m = marker
    <2> SUFFICES ASSUME marker.dispatch = "READY"  PROVE m = marker
      OBVIOUS
    <2>1. marker \in Marker
      BY DEF IInv, TypeOK
    <2>2. marker.posted = FALSE /\ marker.proof = TRUE
      BY <1>1, <2>1 DEF NoSignProved, Marker
    <2>3. /\ m \in Marker /\ m.op = marker.op /\ m.req = marker.req /\ m.cred = marker.cred
          /\ m.posted = marker.posted /\ m.dispatch = marker.dispatch /\ m.proof = marker.proof
          /\ m.acked = marker.acked
      BY <2>1, <2>2 DEF Marker
    <2> HIDE DEF m
    <2> QED  BY <2>1, <2>3, SameMarker
  <1> HIDE DEF m
  <1>5. Requested'
    BY <1>1, <1>2, <1>3 DEF IInv, Requested, Older, Recovering, Unsent, Whole, Marked
  <1>6. Operated'
    BY <1>1, <1>3 DEF IInv, Operated, Bound, Marked, Outstanding
  <1>7. Locked'
    <2>1. pc \notin {"post", "refused", "bind", "unlink", "ack", "acked", "prepare", "offer"}
      BY <1>1, <1>2 DEF IInv, Locked, Holding, NoSignProved
    <2>2. pc \notin Fetching \cup Cleaning
      BY <1>1, <1>2 DEF IInv, Locked, Holding
    <2>3. pc = "resume" => mem = m \/ Stale
      <3>1. mem = marker => mem = m \/ Stale
        BY <1>1, <1>2, <1>4 DEF Stale, NoSignProved, Recovering, Marked
      <3> QED  BY <3>1 DEF IInv, Locked
    <2>4. Stale' <=> Stale
      BY <1>1 DEF Stale
    <2>5. Marked'
      BY <1>1, <1>3 DEF Marked
    <2> QED  BY <1>1, <2>1, <2>2, <2>3, <2>4, <2>5 DEF IInv, Locked, Outstanding, Fetching, Cleaning
  <1> QED  BY <1>1, <1>3, <1>5, <1>6, <1>7, ReconcileFrame

LEMMA BoundCredentialKeeps ==
  ASSUME IInv, NEW n \in Operation, Reconcile(n), BoundCredential(n)
  PROVE  IInv'
  <1> DEFINE m == [marker EXCEPT !.cred = marker.req]
  <1>1. /\ Marked /\ marker.cred = 0 /\ Whole /\ made = marker.req
        /\ saas[marker.req] # "none" /\ marker' = m
        /\ UNCHANGED <<parts, journal, active, runtime, completed, token, mine, copies, agent, order, base,
                       lapsed, pc, env, mem, orphan, rc, saas, open, expired, made, faults, crashes,
                       history, grants, manual>>
    BY DEF Reconcile, BoundCredential, backups, pilot, run, world, budget, central
  <1>2. Recovering /\ made # 0 /\ active # made /\ made \in Request
    BY <1>1, Constants DEF IInv, TypeOK, Requested, Gone, Preparing, Recovering, Activated, Whole, Parts, Marked
  <1>3. /\ m \in Marker /\ m.req = marker.req /\ m.op = marker.op /\ m.cred = made /\ m.acked = marker.acked
    BY <1>1 DEF Marker, IInv, TypeOK
  <1> HIDE DEF m
  <1>4. marker.posted /\ ~marker.acked /\ saas[made] = "issued" /\ journal = 0
    BY <1>1, <1>2 DEF Recovering, Unsent, IInv, TypeOK
  <1>5. Requested'
    BY <1>1, <1>2, <1>3, <1>4 DEF IInv, Requested, Older, Recovering, Unsent, Whole, Marked
  <1>6. Operated'
    BY <1>1, <1>3 DEF IInv, Operated, Bound, Marked, Outstanding
  <1>7. Locked'
    <2>1. pc \notin {"post", "refused", "unlink", "ack", "acked", "prepare", "offer"}
      BY <1>1, <1>2 DEF IInv, Locked, Holding
    <2>2. pc \notin Fetching \cup Cleaning
      BY <1>1, <1>2 DEF IInv, Locked, Holding
    <2>3. pc = "resume" => Stale
      <3>1. mem = marker => Stale
        BY <1>1, <1>4 DEF Stale, Marked
      <3> QED  BY <3>1 DEF IInv, Locked
    <2>4. Stale' <=> Stale
      BY <1>1 DEF Stale
    <2>5. Marked'
      BY <1>1, <1>3 DEF Marked
    <2> QED  BY <1>1, <1>3, <2>1, <2>2, <2>3, <2>4, <2>5 DEF IInv, Locked, Outstanding, Fetching, Cleaning, Whole
  <1> QED  BY <1>1, <1>3, <1>5, <1>6, <1>7, ReconcileFrame

LEMMA ReconcileKeeps ==
  ASSUME IInv, NEW n \in Operation, Reconcile(n)
  PROVE  IInv'
  <1>1. CASE KnownCredential
    <2>1. UNCHANGED <<parts, journal, active, runtime, marker, completed, token, mine, copies, agent, order, base,
                      lapsed, pc, env, mem, orphan, rc, saas, open, expired, made, faults, crashes,
                      history, grants, manual>>
      BY <1>1 DEF Reconcile, KnownCredential, backups, pilot, run, world, budget, central
    <2>2. Requested' /\ Operated'
      BY <2>1, RequestedFrame, OperatedFrame DEF IInv
    <2>3. Locked'
      BY <2>1 DEF IInv, Locked, Outstanding, Marked, Holding, Stale, Whole
    <2>4. marker' \in Marker
      BY <2>1 DEF IInv, TypeOK
    <2> QED  BY <2>2, <2>3, <2>4, ReconcileFrame
  <1> QED  BY <1>1, RestoredMarkerKeeps, NotSignedKeeps, BoundCredentialKeeps DEF Reconcile

LEMMA SpawnKeeps ==
  ASSUME IInv, Spawn
  PROVE  IInv'
  <1>1. /\ hpc = "spawn" /\ order = [op |-> hop, phase |-> "APPLY_DISPATCHED"] /\ order.op = hop
        /\ order.phase = "APPLY_DISPATCHED" /\ hop \in 0..MaxGrant /\ UNCHANGED <<hop, history, grants, manual>>
    BY DEF Spawn, Become, central, IInv, TypeOK, Helping
  <1>2. CASE Begin(hop) /\ Become("wait")
    <2>1. hpc' = "wait"
      BY <1>2 DEF Become
    <2>2. /\ Requested' /\ Locked' /\ pc' = "check"
          /\ env' \in 0..MaxGrant /\ mem' \in Marker /\ orphan' \in BOOLEAN /\ rc' = "none" /\ mine' \subseteq Copy
          /\ UNCHANGED <<parts, journal, active, runtime, marker, completed, token, copies, agent, order, base, lapsed,
                         saas, open, expired, made, faults, crashes>>
      BY <1>1, <1>2, BeginKeeps DEF Outstanding
    <2>3. Operated'
      BY <1>1, <2>2, OperatedFrame DEF IInv
    <2>4. Helping' /\ AcceptedIsClean'
      BY <1>1, <2>1, <2>2 DEF IInv, Helping, AcceptedIsClean
    <2>5. TypeOK'
      BY <1>1, <2>1, <2>2 DEF IInv, TypeOK, Positions
    <2> QED  BY <2>2, <2>3, <2>4, <2>5 DEF IInv
  <1>3. CASE /\ Become("idle") /\ (UNCHANGED pilot \/ Phase("DELIVERED"))
             /\ UNCHANGED <<files, backups, agent, run, world, budget>>
    <2>1. /\ hpc' = "idle" /\ (order' = order \/ order' = [order EXCEPT !.phase = "DELIVERED"])
          /\ UNCHANGED <<parts, journal, active, runtime, marker, completed, token, mine, copies, agent, base,
                         lapsed, pc, env, mem, orphan, rc, saas, open, expired, made, faults, crashes>>
      BY <1>3 DEF Become, Phase, files, backups, pilot, run, world, budget
    <2>2. order' \in {[op |-> hop, phase |-> "APPLY_DISPATCHED"], [op |-> hop, phase |-> "DELIVERED"]}
      BY <1>1, <2>1
    <2>3. order'.op = hop /\ order'.phase \in {"APPLY_DISPATCHED", "DELIVERED"}
      BY <2>2
    <2>4. Requested'
      BY <2>1, RequestedFrame DEF IInv
    <2>5. Operated'
      BY <1>1, <2>1, <2>3 DEF IInv, Operated, Bound, Marked, Outstanding
    <2>6. Locked'
      BY <1>1, <2>1, <2>3 DEF IInv, Locked, Outstanding, Marked, Holding, Stale, Whole
    <2>7. Helping' /\ AcceptedIsClean'
      BY <1>1, <2>1, <2>3 DEF IInv, Helping, AcceptedIsClean
    <2>8. TypeOK'
      BY <1>1, <2>1, <2>2 DEF IInv, TypeOK
    <2> QED  BY <2>4, <2>5, <2>6, <2>7, <2>8 DEF IInv
  <1> QED  BY <1>2, <1>3 DEF Spawn, run

LEMMA ReturnedKeeps ==
  ASSUME IInv, Returned
  PROVE  IInv'
  <1>1. /\ hpc = "wait" /\ pc = "off" /\ rc' = "none" /\ copies' \subseteq copies
        /\ \/ hpc' = "idle"
           \/ hpc' = "accept" /\ token = 0 /\ ~Marked /\ \A c \in copies' : c.op # hop
        /\ UNCHANGED <<parts, journal, active, runtime, marker, completed, token, mine, agent, order, base,
                       lapsed, pc, env, mem, orphan, saas, open, expired, made, faults, crashes,
                       hop, history, grants, manual>>
    BY DEF Returned, Clean, Become, files, pilot, world, budget, central
  <1>2. order = [op |-> hop, phase |-> "APPLY_DISPATCHED"] /\ order.phase = "APPLY_DISPATCHED"
    BY <1>1 DEF IInv, Helping
  <1>3. Requested' /\ Operated'
    BY <1>1, RequestedFrame, OperatedFrame DEF IInv
  <1>4. Locked'
    BY <1>1 DEF IInv, Locked, Outstanding, Client, Fetching, Cleaning
  <1>5. Helping' /\ AcceptedIsClean'
    BY <1>1, <1>2 DEF IInv, Helping, AcceptedIsClean, Marked
  <1>6. TypeOK'
    BY <1>1 DEF IInv, TypeOK
  <1> QED  BY <1>3, <1>4, <1>5, <1>6 DEF IInv

LEMMA AcceptKeeps ==
  ASSUME IInv, Accept
  PROVE  IInv'
  <1>1. /\ hpc = "accept" /\ order' = [order EXCEPT !.phase = "ACCEPTED"] /\ hpc' = "idle"
        /\ UNCHANGED <<parts, journal, active, runtime, marker, completed, token, mine, copies, agent, base,
                       lapsed, pc, env, mem, orphan, rc, saas, open, expired, made, faults, crashes,
                       hop, history, grants, manual>>
    BY DEF Accept, Phase, Become, files, backups, run, world, budget, central
  <1>2. /\ order = [op |-> hop, phase |-> "APPLY_DISPATCHED"] /\ pc = "off" /\ token = 0 /\ ~Marked
        /\ \A c \in copies : c.op # hop
    BY <1>1 DEF IInv, Helping
  <1>3. order' = [op |-> hop, phase |-> "ACCEPTED"] /\ order.op = hop /\ order.phase = "APPLY_DISPATCHED"
    BY <1>1, <1>2
  <1>4. order'.op = hop /\ order'.phase = "ACCEPTED" /\ hop # 0 /\ hop \in 1..grants
    <2>1. order.op \in 1..grants
      BY <1>3 DEF IInv, Operated
    <2> QED  BY <1>3, <2>1
  <1>5. Requested'
    BY <1>1, RequestedFrame DEF IInv
  <1>6. Operated'
    BY <1>1, <1>3, <1>4 DEF IInv, Operated, Bound, Marked, Outstanding
  <1>7. Locked'
    BY <1>1, <1>2 DEF IInv, Locked, Client, Fetching, Cleaning
  <1>8. Helping' /\ AcceptedIsClean'
    <2>1. marker.op = 0
      BY <1>2, NoMarkerTyped DEF IInv, Requested, Older
    <2> QED  BY <1>1, <1>2, <1>4, <2>1 DEF IInv, Helping, AcceptedIsClean, Outstanding
  <1>9. TypeOK'
    BY <1>1, <1>3 DEF IInv, TypeOK
  <1> QED  BY <1>5, <1>6, <1>7, <1>8, <1>9 DEF IInv

\* The helper gives up: the client lives on with the lock, or the run ends.
LEMMA GiveUpKeeps ==
  ASSUME IInv, GiveUp
  PROVE  IInv'
  <1>1. /\ hpc = "wait" /\ hpc' = "idle" /\ Fault
        /\ UNCHANGED <<parts, journal, active, runtime, marker, completed, token, agent, order, base,
                       lapsed, saas, open, expired, hop, history, grants, manual>>
    BY DEF GiveUp, Become, files, pilot, world, central
  <1>2. order.phase = "APPLY_DISPATCHED" /\ pc # "offer"
    BY <1>1 DEF IInv, Helping
  <1>3. faults' \in 0..MaxFault /\ UNCHANGED <<made, crashes>> /\ crashes' \in 0..MaxCrash
    BY <1>1, FaultTyped
  <1>4. Requested' /\ Operated'
    BY <1>1, <1>3, RequestedFrame, OperatedFrame DEF IInv
  <1>5. AcceptedIsClean'
    BY <1>1, <1>2 DEF AcceptedIsClean
  <1>6. CASE pc \in Client /\ orphan' = TRUE /\ UNCHANGED <<pc, env, mem, rc>> /\ mine' = {} /\ copies' = copies \cup mine
    <2>1. Locked'
      BY <1>1, <1>3, <1>6 DEF IInv, Locked, Outstanding, Marked, Holding, Stale, Whole
    <2>2. Helping'
      BY <1>1, <1>2, <1>6 DEF Helping
    <2>3. TypeOK'
      BY <1>1, <1>3, <1>6 DEF IInv, TypeOK
    <2> QED  BY <1>4, <1>5, <2>1, <2>2, <2>3 DEF IInv
  <1>7. CASE Exit("failed")
    <2>1. Helping'
      BY <1>1, <1>7, ExitLocked DEF Helping
    <2>2. TypeOK'
      BY <1>1, <1>3, <1>7, ExitLocked DEF IInv, TypeOK
    <2> QED  BY <1>4, <1>5, <1>7, <2>1, <2>2, ExitLocked DEF IInv
  <1> QED  BY <1>6, <1>7 DEF GiveUp

LEMMA HelperDiesKeeps ==
  ASSUME IInv, HelperDies
  PROVE  IInv'
  <1>1. /\ hpc' = "idle" /\ (IF hpc = "prepare" THEN pc' = "off" ELSE pc' = pc)
        /\ crashes' = crashes + 1 /\ crashes < MaxCrash
        /\ UNCHANGED <<parts, journal, active, runtime, marker, completed, token, mine, copies, agent, order, base,
                       lapsed, env, mem, orphan, rc, saas, open, expired, made, faults, hop,
                       history, grants, manual>>
    BY DEF HelperDies, Become, Goto, files, backups, pilot, run, world, central
  <1>2. Requested' /\ Operated'
    BY <1>1, RequestedFrame, OperatedFrame DEF IInv
  <1>3. pc' # "offer" /\ (pc' = pc \/ (pc = "offer" /\ pc' = "off"))
    BY <1>1 DEF IInv, Helping
  <1>4. Locked'
    <2>1. CASE pc' = pc
      BY <1>1, <2>1 DEF IInv, Locked, Outstanding, Marked, Holding, Stale, Whole
    <2>2. CASE pc = "offer" /\ pc' = "off"
      BY <1>1, <2>2 DEF IInv, Locked, Outstanding, Client, Fetching, Cleaning
    <2> QED  BY <1>3, <2>1, <2>2
  <1>5. Helping' /\ AcceptedIsClean'
    BY <1>1, <1>3 DEF IInv, Helping, AcceptedIsClean
  <1>6. TypeOK'
    BY <1>1, BoundAssumption DEF IInv, TypeOK, Positions
  <1> QED  BY <1>2, <1>4, <1>5, <1>6 DEF IInv

LEMMA RebootKeeps ==
  ASSUME IInv, Reboot
  PROVE  IInv'
  <1>1. /\ hpc' = "idle" /\ Exit("failed") /\ agent' = TRUE /\ crashes' = crashes + 1 /\ crashes < MaxCrash
        /\ UNCHANGED <<parts, journal, active, runtime, marker, completed, token, order, base,
                       lapsed, saas, open, expired, made, faults, hop, history, grants, manual>>
    BY DEF Reboot, Become, files, pilot, world, central
  <1>2. Requested' /\ Operated'
    BY <1>1, RequestedFrame, OperatedFrame DEF IInv
  <1>3. Helping' /\ AcceptedIsClean'
    BY <1>1, ExitLocked, StaysClean DEF Helping
  <1>4. TypeOK'
    BY <1>1, ExitLocked, BoundAssumption DEF IInv, TypeOK
  <1> QED  BY <1>1, <1>2, <1>3, <1>4, ExitLocked DEF IInv

-----------------------------------------------------------------------------
(* The invariant, and what follows from it.                                   *)

LEMMA InitIInv == Init => IInv
  <1> SUFFICES ASSUME Init  PROVE IInv
    OBVIOUS
  <1> USE DEF Init, RecoveryInit
  <1>1. TypeOK
    <2>1. /\ base \in [Grant -> 0..MaxRequest + 1]
          /\ saas \in [Request -> {"none", "issued", "acknowledged"}]
          /\ order \in [op: 0..MaxGrant, phase: {"none", "DELIVERED", "APPLY_DISPATCHED", "ACCEPTED"}]
      BY Constants
    <2>2. runtime \in {"BLOCKED", "FALLBACK", "SHADOW_READY", "SHADOW_ACTIVE"}
      BY RuntimeAssumption
    <2>3. expired \subseteq 0..MaxRequest
      BY Constants
    <2>4. /\ journal \in 0..MaxRequest /\ active \in 0..MaxRequest /\ made \in 0..MaxRequest
          /\ token \in 0..MaxGrant /\ env \in 0..MaxGrant /\ hop \in 0..MaxGrant /\ grants \in 0..MaxGrant
          /\ faults \in 0..MaxFault /\ crashes \in 0..MaxCrash /\ manual \in 0..MaxManual
      BY Constants, BoundAssumption, ManualAssumption
    <2>5. marker \in Marker /\ completed \in Marker /\ mem \in Marker
      BY NoMarkerTyped
    <2>6. /\ parts \subseteq Parts /\ mine \subseteq Copy /\ copies \subseteq Copy /\ lapsed \subseteq Grant
          /\ open \subseteq Request /\ history \subseteq Grant
      OBVIOUS
    <2>7. /\ agent \in BOOLEAN /\ orphan \in BOOLEAN /\ pc \in Positions /\ rc \in {"none", "failed", "passed"}
          /\ hpc \in {"idle", "prepare", "token", "spawn", "wait", "accept"}
      BY DEF Positions
    <2> HIDE DEF Init, RecoveryInit
    <2> QED  BY <2>1, <2>2, <2>3, <2>4, <2>5, <2>6, <2>7 DEF TypeOK
  <1>2. Requested
    BY Constants, NoMarkerTyped DEF Requested, Older, Gone, Marked, Request
  <1>3. Operated
    BY Constants, NoMarkerTyped DEF Operated, Bound, Outstanding
  <1>4. Locked
    BY DEF Locked, Client, Fetching, Cleaning
  <1>5. Helping /\ AcceptedIsClean
    BY DEF Helping, AcceptedIsClean
  <1> QED  BY <1>1, <1>2, <1>3, <1>4, <1>5 DEF IInv

LEMMA StutterKeeps ==
  ASSUME IInv, UNCHANGED vars
  PROVE  IInv'
  <1>1. UNCHANGED <<files, backups, agent, pilot, order, run, world, budget, helper>>
    BY DEF vars, recovery, pilot
  <1>2. UNCHANGED <<parts, journal, active, runtime, marker, completed, token, mine, copies, agent, order, base,
                    lapsed, pc, env, mem, orphan, rc, saas, open, expired, made, faults, crashes, hpc, hop,
                    history, grants, manual>>
    BY DEF vars, recovery, files, backups, pilot, run, world, budget, helper, central
  <1>3. Operated'
    BY <1>2, OperatedFrame DEF IInv
  <1>4. TypeOK'
    BY <1>2 DEF IInv, TypeOK
  <1> QED  BY <1>1, <1>3, <1>4, HostFrame DEF IInv

LEMMA NextIInv ==
  ASSUME IInv, [Next]_vars
  PROVE  IInv'
  <1>1. CASE Reserve \/ InstallToken \/ RunByHand
    BY <1>1, ReserveKeeps, InstallTokenKeeps, RunByHandKeeps
  <1>2. ASSUME NEW n \in Operation,
               Lapse(n) \/ Prepare(n) \/ Deliver(n) \/ Redeliver(n) \/ Apply(n) \/ Reconcile(n)
        PROVE  IInv'
    BY <1>2, LapseKeeps, PrepareKeeps, DeliverKeeps, RedeliverKeeps, ApplyKeeps, ReconcileKeeps
  <1>3. CASE HelperStep \/ GiveUp \/ HelperDies \/ Reboot
    BY <1>3, PreparedKeeps, WriteTokenKeeps, SpawnKeeps, ReturnedKeeps, AcceptKeeps, GiveUpKeeps,
       HelperDiesKeeps, RebootKeeps DEF HelperStep
  <1>4. CASE HostStep
    BY <1>4, WrapperKeeps, AgentKeeps DEF HostStep
  <1>5. CASE (Kill \/ (Expire /\ ~Outstanding)) /\ UNCHANGED <<helper, central>>
    BY <1>5, KillKeeps, ExpireKeeps
  <1>6. CASE UNCHANGED vars
    BY <1>6, StutterKeeps
  <1> QED  BY <1>1, <1>2, <1>3, <1>4, <1>5, <1>6 DEF Next

\* The invariant holds in every reachable state.
THEOREM Invariance == Spec => []IInv
  <1>1. Init => IInv
    BY InitIInv
  <1>2. IInv /\ [Next]_vars => IInv'
    BY NextIInv
  <1> QED  BY <1>1, <1>2, PTL DEF Spec

\* Every variable keeps its type, at every instant of the recovery of a node.
THEOREM TypeCorrect == Spec => []TypeOK
  <1>1. IInv => TypeOK
    BY DEF IInv
  <1> QED  BY <1>1, Invariance, PTL

\* A request is posted again only after the proof that every earlier POST of it
\* was refused (RecoveryClient.apply, reconcile): whatever was lost or killed,
\* the SaaS never sees a second POST of a request it may have signed.
THEOREM NoSecondSignature == Spec => []NoSecondSign
  <1>1. IInv => NoSecondSign
    <2> SUFFICES ASSUME IInv, pc = "post"  PROVE mem.req \notin open /\ saas[mem.req] = "none"
      BY DEF NoSecondSign
    <2>1. Holding /\ saas[made] = "none" /\ made \notin open /\ Whole
      BY DEF IInv, Locked
    <2>2. mem.req = made
      BY <2>1 DEF IInv, Requested, Gone, Preparing, Recovering, Activated, Holding
    <2> QED  BY <2>1, <2>2
  <1> QED  BY <1>1, Invariance, PTL

\* A credential that is issued and not acknowledged can always still be taken
\* into use, wherever the client, the helper, the Agent or the host has died.
THEOREM IssuedStays == Spec => []IssuedIsKept
  <1>1. IInv => IssuedIsKept
    <2> SUFFICES ASSUME IInv, NEW r \in Request, saas[r] = "issued"
                 PROVE  /\ token # 0 /\ marker.req = r
                        /\ (Whole /\ made = r) \/ (active = r /\ journal = r)
      BY DEF IssuedIsKept
    <2>1. r = made
      <3>1. ~(r < made) /\ ~(r > made)
        BY DEF IInv, Requested, Older
      <3>2. made \in Nat /\ r \in Nat
        BY DEF IInv, TypeOK, Request
      <3> QED  BY <3>1, <3>2
    <2>2. r # 0
      BY Constants
    <2>3. Recovering \/ Activated
      BY <2>1, <2>2 DEF IInv, Requested, Gone, Preparing
    <2>4. Marked /\ ~marker.acked /\ marker.req = r
      BY <2>1, <2>2, <2>3 DEF Recovering, Activated, Marked
    <2>5. token # 0
      BY <2>4 DEF IInv, Requested, Older
    <2>6. (Whole /\ made = r) \/ (active = r /\ journal = r)
      BY <2>1, <2>3 DEF Recovering, Activated
    <2> QED  BY <2>4, <2>5, <2>6
  <1> QED  BY <1>1, Invariance, PTL

\* The SaaS retires the old credential with the acknowledgement of the new one
\* (activate_pending_certificate before acknowledge): the node is then on that
\* generation or a later one, and never goes back.
THEOREM AcknowledgedStays == Spec => []AcknowledgedIsActive
  <1>1. IInv => AcknowledgedIsActive
    <2> SUFFICES ASSUME IInv, NEW r \in Request, saas[r] = "acknowledged"  PROVE r <= active
      BY DEF AcknowledgedIsActive
    <2>1. ~(r > made) /\ (r = made => ~Preparing /\ ~Recovering)
      BY DEF IInv, Requested, Older, Preparing, Recovering
    <2>2. made \in Nat /\ active \in Nat /\ r \in Nat
      BY DEF IInv, TypeOK, Request
    <2>3. active = made \/ made = active + 1
      BY DEF IInv, Requested, Gone, Preparing, Recovering, Activated
    <2>4. active = made \/ r # made
      BY <2>1 DEF IInv, Requested, Gone, Activated
    <2> QED  BY <2>1, <2>2, <2>3, <2>4
  <1> QED  BY <1>1, Invariance, PTL

\* An accepted operation has left neither token nor marker nor a copy of its token
\* in a backup (verify_clean, cleanup_evidence), and no later run of the wrapper,
\* of an operator or of another operation, leaves one.
THEOREM AcceptedClean == Spec => []AcceptedIsClean
  <1>1. IInv => AcceptedIsClean
    BY DEF IInv
  <1> QED  BY <1>1, Invariance, PTL
=============================================================================
