------------------------- MODULE OwnerRepair_proofs -------------------------
(* Proofs about OwnerRepair, for any number of sessions at once, objects,      *)
(* commands and others.                                                        *)
EXTENDS OwnerRepair, FiniteSetTheorems, SequenceTheorems, WellFoundedInduction, TLAPS

-----------------------------------------------------------------------------
(* The inductive invariant.                                                   *)

Calling == {"call", "handle", "await"}
Owning == {"window", "examine", "intend", "chown", "applied", "verify"}
Lists == {"WINDOW", "INTENT", "APPLIED", "FILESYSTEM_ACCEPTED"}

\* A session between the two halves of an append, by the event of its record.
Says(s, e) == pc[s] = "append" /\ draft[s].entry.event = e

\* A request to systemd goes from its intent to its outcome; it stops a unit or
\* starts one.
Busy(s) == pc[s] \in Calling \/ Says(s, "SERVICE_JOB")
Asks(s, a) ==
    \/ Busy(s) /\ Pending(s)[1] = a
    \/ Says(s, "SERVICE_INTENT") /\ draft[s].entry.request[1] = a
Owns(s) == pc[s] \in Owning \/ \E e \in Lists : Says(s, e)
Stopping(s) == pc[s] = "stop" \/ Asks(s, "stop")
Starting(s) == pc[s] = "start" \/ Asks(s, "start") \/ Says(s, "RESTORED")

\* Where a session is in its lists.
Placed(s) ==
    /\ pc[s] \in {"create", "baseline", "lock", "window"} => at[s] = 1
    /\ pc[s] \in {"stop", "services"} => at[s] \in 1..3
    /\ pc[s] = "start" => at[s] \in 0..2
    /\ pc[s] \in Calling => at[s] \in 1..2
    /\ pc[s] \in {"examine", "verify", "readback"} => at[s] \in 1..(MaxObject + 1)
    /\ pc[s] \in {"intend", "chown", "applied"} => at[s] \in Object /\ owner[at[s]] # "other"

\* What it is about to append, and where that leads.
Drafts0(s, e, l, n) ==
    \/ e.event = "WINDOW" /\ e.path = 0 /\ l = "stop" /\ n = 1 /\ e.baseline = base[s]
    \/ /\ e.event = "SERVICE_INTENT" /\ e.path = 0 /\ l = "call" /\ n = at[s] /\ at[s] \in 1..2
       /\ e.request \in Request0 /\ e.request[2] = Units[at[s]] /\ e.request \notin Requested(s)
    \/ e.event = "SERVICE_JOB" /\ e.path = 0 /\ l = "await" /\ n = at[s] /\ at[s] \in 1..2
    \/ e.event = "INTENT" /\ e.path \in Object /\ l = "chown" /\ n = e.path
    \/ e.event = "APPLIED" /\ e.path \in Object /\ l = "examine" /\ n = e.path + 1
    \/ e.event = "FILESYSTEM_ACCEPTED" /\ e.path = 0 /\ l \in {"readback", "idle"} /\ n = 1
    \/ e.event = "SERVICE_RECONCILED" /\ e.path = 0 /\ l = "services" /\ n \in 1..3
    \/ e.event = "RECONCILED" /\ e.path \in Object /\ l = "readback" /\ n = e.path + 1
    \/ e.event = "RESTORED" /\ e.path = 0 /\ l = "idle" /\ at[s] = 0
Drafted(s) ==
    pc[s] = "append" =>
        /\ Drafts0(s, draft[s].entry, draft[s].to, draft[s].at)
        /\ draft[s].entry.path \in Object => owner[draft[s].entry.path] # "other"

\* Its request is the last intent it knows of, and for the unit it has come to.
Recorded(s) ==
    Busy(s) => /\ Found(s, "SERVICE_INTENT") # {} /\ Pending(s) \in Request0
               /\ Pending(s)[2] = Units[at[s]]

\* The lock is held from the baseline to the end of the stops, and from the first
\* look at an object to the acceptance; the admission is closed all the time.
Guarded(s) ==
    /\ Running(s) => Admitted
    /\ Owns(s) \/ Stopping(s) => lock = s

\* A session writes the baseline only where it knows of none, stops by its own
\* and starts by the recorded one.
Based(s) ==
    /\ pc[s] = "window" \/ Says(s, "WINDOW") \/ (pc[s] = "lock" /\ cmd[s] = "window") => Found(s, "WINDOW") = {}
    /\ Stopping(s) => \E w \in Found(s, "WINDOW") : ledger[w].baseline = base[s]
    /\ Starting(s) => Found(s, "WINDOW") # {}
    /\ Asks(s, "stop") => Units[at[s]] \in base[s]
    /\ Asks(s, "start") => Units[at[s]] \in Baseline(s)

\* An owner is changed after its intent, what the ledger names has been looked at
\* before a start, and of a replaced object every record is known.
Named(s) == pc[s] = "chown" => \E i \in DOMAIN ledger : ledger[i].path = at[s]
Intact(s, o) == Events(s, o) # {} => owner[o] # "other"
Looked(s) ==
    /\ pc[s] = "readback" /\ Restoring(s) => \A o \in Object : o < at[s] => Intact(s, o)
    /\ Says(s, "RECONCILED") /\ Restoring(s) => \A o \in Object : o < draft[s].entry.path => Intact(s, o)
    /\ Starting(s) => \A o \in Object : Intact(s, o)
Fresh(s) ==
    Running(s) => \A o \in Object : owner[o] = "other" =>
                     \A j \in DOMAIN ledger : ledger[j].path = o => j \in read[s]

\* The baseline and the stops are written under the lock: who writes one knows all
\* of them, whoever else appends meanwhile.
Lone(e) == e.event = "WINDOW" \/ (e.event = "SERVICE_INTENT" /\ e.request[1] = "stop")
Informed(s) ==
    pc[s] = "append" /\ Lone(draft[s].entry) =>
        \A j \in DOMAIN ledger : Lone(ledger[j]) => j \in read[s]

Session(s) ==
    /\ Placed(s) /\ Drafted(s) /\ Recorded(s) /\ Guarded(s) /\ Based(s) /\ Named(s) /\ Looked(s) /\ Fresh(s)
    /\ Informed(s)

\* What is asked and by which baseline, place by place.
Intents == {i \in DOMAIN ledger : ledger[i].event = "SERVICE_INTENT"}
Windows == {i \in DOMAIN ledger : ledger[i].event = "WINDOW"}
Sanctioned ==
    /\ book = "absent" => ledger = <<>>
    /\ \A i, j \in Intents :
        ledger[i].request = ledger[j].request /\ (book # "mixed" \/ ledger[i].request[1] = "stop") => i = j
    /\ \A i \in Intents : \E w \in Windows : w < i /\ ledger[i].request[2] \in ledger[w].baseline
    /\ \A v, w \in Windows : v = w

IInv == TypeOK /\ strays \in Nat /\ Sanctioned /\ RootIsAttributed /\ \A s \in Sessions : Session(s)

-----------------------------------------------------------------------------
(* Operators.                                                                 *)

\* A set of places has a last one.
LEMMA LastOf ==
  ASSUME NEW n \in Nat, NEW S \in SUBSET (1..n), S # {}
  PROVE  Last(S) \in S /\ \A x \in S : x <= Last(S)
  <1> DEFINE Below == {n - x : x \in S}
  <1>1. Below \in SUBSET Nat /\ Below # {}
    <2>1. Below \subseteq Nat
      OBVIOUS
    <2>2. PICK x \in S : TRUE
      OBVIOUS
    <2>3. n - x \in Below
      OBVIOUS
    <2> QED  BY <2>1, <2>3
  <1>2. PICK d \in Below : \A e \in Below : d <= e
    <2> HIDE DEF Below
    <2>1. PICK d \in Below : \A e \in Below : ~(<<e, d>> \in OpToRel(<, Nat))
      BY <1>1, NatLessThanWellFounded, WFMin
    <2>2. \A e \in Below : e \in Nat /\ d \in Nat
      BY <1>1
    <2>3. \A e \in Below : ~(e < d)
      BY <2>1, <2>2 DEF OpToRel
    <2> QED  BY <2>2, <2>3
  <1>3. PICK m \in S : d = n - m
    BY <1>2
  <1>4. \A x \in S : x <= m
    <2> SUFFICES ASSUME NEW x \in S  PROVE x <= m
      OBVIOUS
    <2>1. n - m <= n - x
      BY <1>2, <1>3
    <2>2. x \in Nat /\ m \in Nat
      OBVIOUS
    <2> QED  BY <2>1, <2>2
  <1> QED  BY <1>3, <1>4 DEF Last

LEMMA LedgerFacts ==
  ASSUME TypeOK
  PROVE  /\ Len(ledger) \in Nat /\ DOMAIN ledger = 1..Len(ledger)
         /\ \A i \in 1..Len(ledger) : ledger[i] \in Entries
         /\ \A s \in Sessions : read[s] \subseteq 1..Len(ledger)
         /\ \A s \in Sessions : \A e : Found(s, e) \subseteq 1..Len(ledger)
  <1>1. Len(ledger) \in Nat /\ DOMAIN ledger = 1..Len(ledger) /\ ledger \in Seq(Entries)
    BY DEF TypeOK
  <1>2. \A i \in 1..Len(ledger) : ledger[i] \in Entries
    BY <1>1, ElementOfSeq
  <1>3. \A s \in Sessions : read[s] \subseteq 1..Len(ledger)
    BY <1>1 DEF TypeOK
  <1>4. \A s \in Sessions : \A e : Found(s, e) \subseteq 1..Len(ledger)
    BY <1>3 DEF Found
  <1> QED  BY <1>1, <1>2, <1>3, <1>4

\* The ledger only grows.
Grown == Len(ledger) <= Len(ledger') /\ \A i \in 1..Len(ledger) : ledger'[i] = ledger[i]

LEMMA Same ==
  ASSUME TypeOK, ledger' = ledger
  PROVE  Grown
  BY LedgerFacts DEF Grown

\* The last record of an event is one the session has read.
LEMMA LastFound ==
  ASSUME TypeOK, NEW s \in Sessions, NEW e, Found(s, e) # {}
  PROVE  Last(Found(s, e)) \in Found(s, e) /\ Last(Found(s, e)) \in 1..Len(ledger)
  <1>1. Len(ledger) \in Nat /\ Found(s, e) \in SUBSET (1..Len(ledger))
    BY LedgerFacts
  <1> QED  BY <1>1, LastOf

\* A session that reads no further reads the same.
LEMMA Reading ==
  ASSUME TypeOK, Grown, NEW s \in Sessions, read'[s] = read[s]
  PROVE  /\ \A e : Found(s, e)' = Found(s, e)
         /\ \A o : Events(s, o)' = Events(s, o)
         /\ Requested(s)' = Requested(s)
         /\ Found(s, "SERVICE_INTENT") # {} => Pending(s)' = Pending(s)
         /\ Found(s, "WINDOW") # {} => Baseline(s)' = Baseline(s)
         /\ \A i \in read[s] : ledger'[i] = ledger[i]
  <1>1. \A i \in read[s] : ledger'[i] = ledger[i]
    BY LedgerFacts DEF Grown
  <1>2. \A e : Found(s, e)' = Found(s, e)
    BY <1>1 DEF Found
  <1>3. \A o : Events(s, o)' = Events(s, o)
    BY <1>1 DEF Events
  <1>4. \A e : \A i \in Found(s, e) : ledger'[i] = ledger[i]
    BY <1>1 DEF Found
  <1>5. Requested(s)' = Requested(s)
    BY <1>2, <1>4 DEF Requested
  <1>6. Found(s, "SERVICE_INTENT") # {} => Pending(s)' = Pending(s)
    BY <1>2, <1>4, LastFound DEF Pending
  <1>7. Found(s, "WINDOW") # {} => Baseline(s)' = Baseline(s)
    BY <1>2, <1>4, LastFound DEF Baseline
  <1> QED  BY <1>1, <1>2, <1>3, <1>5, <1>6, <1>7

\* An append, whoever makes it.
LEMMA Longer ==
  ASSUME TypeOK, NEW r \in Entries, ledger' = Append(ledger, r)
  PROVE  /\ Len(ledger) \in Nat /\ Len(ledger') = Len(ledger) + 1
         /\ ledger' \in Seq(Entries) /\ ledger'[Len(ledger) + 1] = r /\ Grown
         /\ DOMAIN ledger = 1..Len(ledger)
         /\ DOMAIN ledger' = DOMAIN ledger \cup {Len(ledger) + 1}
         /\ Len(ledger) + 1 \notin DOMAIN ledger
  <1> DEFINE n == Len(ledger)
  <1>1. n \in Nat /\ ledger \in Seq(Entries) /\ DOMAIN ledger = 1..n
    BY LedgerFacts DEF TypeOK
  <1> HIDE DEF n
  <1>3. /\ ledger' \in Seq(Entries) /\ Len(ledger') = n + 1
        /\ ledger'[n + 1] = r /\ \A i \in 1..n : ledger'[i] = ledger[i]
    BY <1>1, AppendProperties DEF n
  <1>4. DOMAIN ledger' = 1..(n + 1)
    BY <1>3
  <1>5. 1..(n + 1) = (1..n) \cup {n + 1} /\ n + 1 \notin 1..n
    BY <1>1
  <1>6. Grown
    BY <1>1, <1>3 DEF Grown, n
  <1> QED  BY <1>1, <1>3, <1>4, <1>5, <1>6 DEF n

\* What the one who makes it has found then.
LEMMA FoundAfter ==
  ASSUME TypeOK, NEW s \in Sessions, NEW r \in Entries, ledger' = Append(ledger, r),
         read'[s] = read[s] \cup {Len(ledger) + 1}
  PROVE  /\ \A e : Found(s, e)' = IF r.event = e THEN Found(s, e) \cup {Len(ledger) + 1} ELSE Found(s, e)
         /\ \A o : Events(s, o)' = IF r.path = o THEN Events(s, o) \cup {Len(ledger) + 1} ELSE Events(s, o)
  <1> DEFINE n == Len(ledger)
  <1>1. /\ n \in Nat /\ ledger'[n + 1] = r /\ n + 1 \notin 1..n
        /\ read[s] \subseteq 1..n /\ read'[s] = read[s] \cup {n + 1}
    BY Longer, LedgerFacts
  <1>2. \A i \in read[s] : ledger'[i] = ledger[i]
    BY <1>1, Longer DEF Grown
  <1> HIDE DEF n
  <1>3. \A e : Found(s, e)' = {i \in read[s] \cup {n + 1} : ledger'[i].event = e}
    BY <1>1 DEF Found
  <1>4. \A o : Events(s, o)' = {i \in read[s] \cup {n + 1} : ledger'[i].path = o}
    BY <1>1 DEF Events
  <1>5. \A e : Found(s, e)' = IF r.event = e THEN Found(s, e) \cup {n + 1} ELSE Found(s, e)
    BY <1>1, <1>2, <1>3 DEF Found
  <1>6. \A o : Events(s, o)' = IF r.path = o THEN Events(s, o) \cup {n + 1} ELSE Events(s, o)
    BY <1>1, <1>2, <1>4 DEF Events
  <1> QED  BY <1>5, <1>6 DEF n

\* A new intent is the pending one; another record leaves it and the baseline.
LEMMA PendingAfter ==
  ASSUME TypeOK, NEW s \in Sessions, NEW r \in Entries, ledger' = Append(ledger, r),
         read'[s] = read[s] \cup {Len(ledger) + 1}
  PROVE  /\ r.event = "SERVICE_INTENT" =>
              Found(s, "SERVICE_INTENT")' # {} /\ Pending(s)' = r.request
         /\ r.event # "SERVICE_INTENT" /\ Found(s, "SERVICE_INTENT") # {} =>
              Found(s, "SERVICE_INTENT")' # {} /\ Pending(s)' = Pending(s)
         /\ r.event # "WINDOW" /\ Found(s, "WINDOW") # {} =>
              Found(s, "WINDOW")' # {} /\ Baseline(s)' = Baseline(s)
  <1> DEFINE n == Len(ledger)
  <1>1. /\ n \in Nat /\ ledger'[n + 1] = r /\ \A i \in 1..n : ledger'[i] = ledger[i]
    BY Longer DEF Grown
  <1>2. \A e : Found(s, e) \in SUBSET (1..n)
    BY LedgerFacts
  <1> HIDE DEF n
  <1>3. \A e : Found(s, e)' = IF r.event = e THEN Found(s, e) \cup {n + 1} ELSE Found(s, e)
    BY FoundAfter DEF n
  <1>4. ASSUME NEW e, r.event # e, Found(s, e) # {}
        PROVE  /\ Found(s, e)' = Found(s, e)
               /\ ledger'[Last(Found(s, e))] = ledger[Last(Found(s, e))]
    <2>1. Last(Found(s, e)) \in 1..n
      BY <1>1, <1>2, <1>4, LastOf
    <2> QED  BY <1>1, <1>3, <1>4, <2>1
  <1>5. r.event # "SERVICE_INTENT" /\ Found(s, "SERVICE_INTENT") # {} =>
          Found(s, "SERVICE_INTENT")' # {} /\ Pending(s)' = Pending(s)
    BY <1>4 DEF Pending
  <1>6. r.event # "WINDOW" /\ Found(s, "WINDOW") # {} =>
          Found(s, "WINDOW")' # {} /\ Baseline(s)' = Baseline(s)
    BY <1>4 DEF Baseline
  <1>7. ASSUME r.event = "SERVICE_INTENT"
        PROVE  Found(s, "SERVICE_INTENT")' # {} /\ Pending(s)' = r.request
    <2> DEFINE F == Found(s, "SERVICE_INTENT") \cup {n + 1}
    <2>1. Found(s, "SERVICE_INTENT")' = F /\ F # {}
      BY <1>3, <1>7
    <2>2. F \in SUBSET (1..(n + 1)) /\ n + 1 \in F
      BY <1>1, <1>2
    <2> HIDE DEF F
    <2>3. Last(F) \in F /\ n + 1 <= Last(F)
      <3> DEFINE m == n + 1
      <3>1. m \in Nat /\ F \in SUBSET (1..m) /\ m \in F
        BY <1>1, <2>2
      <3> HIDE DEF m
      <3>2. Last(F) \in F /\ \A x \in F : x <= Last(F)
        BY <2>1, <3>1, LastOf
      <3>3. m <= Last(F)
        BY <3>1, <3>2
      <3> QED  BY <3>2, <3>3 DEF m
    <2>4. Last(F) = n + 1
      <3> DEFINE l == Last(F)
      <3>1. l \in 1..(n + 1) /\ n + 1 <= l
        BY <2>2, <2>3
      <3> HIDE DEF l
      <3>2. l = n + 1
        BY <1>1, <3>1
      <3> QED  BY <3>2 DEF l
    <2> QED  BY <1>1, <2>1, <2>4 DEF Pending
  <1> QED  BY <1>5, <1>6, <1>7

\* The records that are written.
LEMMA Texts ==
  /\ \A b \in SUBSET Unit : LET r == [Entry("WINDOW") EXCEPT !.baseline = b] IN
        r \in Entries /\ r.event = "WINDOW" /\ r.path = 0 /\ r.baseline = b
  /\ \A q \in Request0, e \in {"SERVICE_INTENT", "SERVICE_JOB"} :
        For(e, q) \in Entries /\ For(e, q).event = e /\ For(e, q).path = 0 /\ For(e, q).request = q
  /\ \A o \in Object, e \in {"INTENT", "APPLIED"} :
        Of(e, o) \in Entries /\ Of(e, o).event = e /\ Of(e, o).path = o
  /\ \A u \in Unit, x \in {"active", "inactive"} :
        LET r == [Entry("SERVICE_RECONCILED") EXCEPT !.unit = u, !.state = x] IN
        r \in Entries /\ r.event = "SERVICE_RECONCILED" /\ r.path = 0
  /\ \A e \in {"FILESYSTEM_ACCEPTED", "RESTORED"} :
        Entry(e) \in Entries /\ Entry(e).event = e /\ Entry(e).path = 0
  <1>1. 0 \in 0..MaxObject /\ \A o \in Object : o \in 0..MaxObject
    BY RepairAssumption DEF Object
  <1> QED  BY <1>1 DEF Entry, Of, For, Entries, Unit

LEMMA ReadbackText ==
  ASSUME NEW o \in Object, NEW w \in {"panel", "root"}, NEW r,
         r = [Of("RECONCILED", o) EXCEPT !.owner = w]
  PROVE  r \in Entries /\ r.event = "RECONCILED" /\ r.path = o
  <1>1. o \in 0..MaxObject
    BY RepairAssumption DEF Object
  <1> QED  BY <1>1 DEF Entry, Of, Entries, Unit

LEMMA UnitsFacts == \A k \in 1..2 : Units[k] \in Unit
  BY DEF Units, Unit

\* The two units are told apart.
LEMMA UnitsDiffer == Units[1] # Units[2] /\ Unit = {Units[k] : k \in 1..2}
  <1>1. Units[1] = "agent" /\ Units[2] = "x-ui"
    BY DEF Units
  <1>2. 1..2 = {1, 2}
    OBVIOUS
  <1> QED  BY <1>1, <1>2 DEF Unit

LEMMA RequestFacts ==
  ASSUME NEW q \in Request0
  PROVE  q[1] \in {"start", "stop"} /\ q[2] \in Unit
  BY DEF Request0

LEMMA RequestMade ==
  ASSUME NEW a \in {"start", "stop"}, NEW u \in Unit, NEW b \in BOOLEAN
  PROVE  <<a, u, b>> \in Request0 /\ <<a, u, b>>[1] = a /\ <<a, u, b>>[2] = u
  BY DEF Request0

-----------------------------------------------------------------------------
(* A step of a session, as far as its place and the lock go.                  *)

Typed ==
    /\ pc' \in [Sessions -> Places] /\ cmd' \in [Sessions -> Commands \cup {"none"}]
    /\ at' \in [Sessions -> 0..(MaxObject + 3)] /\ base' \in [Sessions -> SUBSET Unit]
    /\ read' \in [Sessions -> SUBSET (DOMAIN ledger')] /\ draft' \in [Sessions -> Drafts]
    /\ lock' \in Sessions \cup {"free"} /\ (lock' # "free" => pc'[lock'] # "idle")
Apart(s) ==
    \A t \in Sessions : t # s =>
        /\ pc'[t] = pc[t] /\ cmd'[t] = cmd[t] /\ at'[t] = at[t]
        /\ base'[t] = base[t] /\ read'[t] = read[t] /\ draft'[t] = draft[t]
        /\ lock = t => lock' = t
Own(s) == Typed /\ Apart(s)

\* What the types say of a session.
LEMMA SessionTypes ==
  ASSUME TypeOK
  PROVE  /\ pc \in [Sessions -> Places] /\ cmd \in [Sessions -> Commands \cup {"none"}]
         /\ at \in [Sessions -> 0..(MaxObject + 3)] /\ base \in [Sessions -> SUBSET Unit]
         /\ read \in [Sessions -> SUBSET (DOMAIN ledger)] /\ draft \in [Sessions -> Drafts]
         /\ lock \in Sessions \cup {"free"} /\ (lock # "free" => pc[lock] # "idle")
         /\ owner \in [Object -> {"panel", "root", "other"}]
         /\ \A s \in Sessions : draft[s].entry \in Entries /\ draft[s].to \in Places /\ draft[s].at \in 0..(MaxObject + 3)
  BY DEF TypeOK, Running, Drafts

LEMMA Bounds ==
  /\ MaxObject \in Nat /\ MaxObject >= 1
  /\ 0 \in 0..(MaxObject + 3) /\ 1 \in 0..(MaxObject + 3) /\ 2 \in 0..(MaxObject + 3)
  /\ 1 \in 1..(MaxObject + 1)
  /\ \A o \in Object : o \in Nat /\ o # 0 /\ ~(o < 1) /\ o <= MaxObject /\ o + 1 \in 1..(MaxObject + 1)
  /\ \A n \in 1..(MaxObject + 1) : n \in 0..(MaxObject + 3)
  /\ \A n \in 0..3 : n \in 0..(MaxObject + 3)
  BY RepairAssumption DEF Object

LEMMA GoOwn ==
  ASSUME TypeOK, NEW s \in Sessions, NEW l \in Places \ {"idle", "append"}, Goto(s, l), ledger' = ledger,
         UNCHANGED at \/ \E n \in 0..(MaxObject + 3) : Step(s, n),
         \/ lock' = lock
         \/ lock \in {"free", s} /\ lock' \in {"free", s}
  PROVE  /\ Own(s) /\ pc'[s] = l /\ cmd'[s] = cmd[s] /\ base'[s] = base[s] /\ read'[s] = read[s]
         /\ \A e : ~Says(s, e)'
         /\ \A n \in 0..(MaxObject + 3) : Step(s, n) => at'[s] = n
  <1>1. /\ pc' = [pc EXCEPT ![s] = l] /\ cmd' = cmd /\ base' = base /\ read' = read /\ draft' = draft
    BY DEF Goto, mind
  <1>2. /\ at' \in [Sessions -> 0..(MaxObject + 3)]
        /\ \A t \in Sessions : t # s => at'[t] = at[t]
        /\ \A n \in 0..(MaxObject + 3) : Step(s, n) => at'[s] = n
    BY SessionTypes DEF Step
  <1>3. pc' \in [Sessions -> Places] /\ pc'[s] = l /\ \A t \in Sessions : t # s => pc'[t] = pc[t]
    BY <1>1, SessionTypes
  <1>4. lock' \in Sessions \cup {"free"} /\ (lock' # "free" => pc'[lock'] # "idle")
    BY <1>3, SessionTypes
  <1>5. \A t \in Sessions : t # s /\ lock = t => lock' = t
    BY SessionAssumption
  <1>6. Typed
    BY <1>1, <1>2, <1>3, <1>4, SessionTypes DEF Typed
  <1>7. Apart(s)
    BY <1>1, <1>2, <1>3, <1>5 DEF Apart
  <1> QED  BY <1>1, <1>2, <1>3, <1>6, <1>7 DEF Own, Says

LEMMA LeaveOwn ==
  ASSUME TypeOK, NEW s \in Sessions, Leave(s), DOMAIN ledger \subseteq DOMAIN ledger'
  PROVE  Own(s) /\ pc'[s] = "idle"
  <1>1. /\ pc' = [pc EXCEPT ![s] = "idle"] /\ cmd' = [cmd EXCEPT ![s] = "none"]
        /\ at' = [at EXCEPT ![s] = 0] /\ base' = [base EXCEPT ![s] = {}]
        /\ read' = [read EXCEPT ![s] = {}] /\ draft' = [draft EXCEPT ![s] = NoDraft]
        /\ lock' = IF lock = s THEN "free" ELSE lock
    BY DEF Leave, Forget
  <1>2. NoDraft \in Drafts /\ "idle" \in Places
    BY Bounds DEF NoDraft, Drafts, Places, Entries, Entry, Unit
  <1>3. lock' \in Sessions \cup {"free"} /\ (lock' # "free" => pc'[lock'] # "idle")
    BY <1>1, SessionTypes
  <1>4. read' \in [Sessions -> SUBSET (DOMAIN ledger')]
    BY <1>1, SessionTypes
  <1>5. draft' \in [Sessions -> Drafts]
    BY <1>1, <1>2, SessionTypes
  <1>6. Typed
    BY <1>1, <1>2, <1>3, <1>4, <1>5, Bounds, SessionTypes DEF Typed
  <1>7. Apart(s)
    BY <1>1, SessionTypes DEF Apart
  <1> QED  BY <1>1, <1>6, <1>7, SessionTypes DEF Own

LEMMA WriteOwn ==
  ASSUME TypeOK, NEW s \in Sessions, NEW r \in Entries, NEW l \in Places, NEW n \in 0..(MaxObject + 3),
         Write(s, r, l, n)
  PROVE  /\ Own(s) /\ pc'[s] = "append" /\ draft'[s].entry = r /\ draft'[s].to = l /\ draft'[s].at = n
         /\ at'[s] = at[s] /\ cmd'[s] = cmd[s] /\ base'[s] = base[s] /\ read'[s] = read[s]
         /\ UNCHANGED <<host, paper, lock, used>> /\ read[s] = DOMAIN ledger /\ book = "whole"
         /\ \A e : Says(s, e)' <=> e = r.event
  <1> DEFINE d == [entry |-> r, to |-> l, at |-> n]
  <1>1. /\ pc' = [pc EXCEPT ![s] = "append"] /\ draft' = [draft EXCEPT ![s] = d]
        /\ UNCHANGED <<host, paper, lock, at, cmd, base, read, used>> /\ read[s] = DOMAIN ledger /\ book = "whole"
    BY DEF Write
  <1>2. d \in Drafts /\ "append" \in Places /\ d.entry = r /\ d.to = l /\ d.at = n
    BY DEF Drafts, Places
  <1> HIDE DEF d
  <1>3. draft' \in [Sessions -> Drafts] /\ draft'[s] = d /\ \A t \in Sessions : t # s => draft'[t] = draft[t]
    BY <1>1, <1>2, SessionTypes
  <1>4. pc' \in [Sessions -> Places] /\ pc'[s] = "append" /\ \A t \in Sessions : t # s => pc'[t] = pc[t]
    BY <1>1, <1>2, SessionTypes
  <1>5. Typed
    BY <1>1, <1>3, <1>4, SessionTypes DEF Typed, paper
  <1>6. Apart(s)
    BY <1>1, <1>3, <1>4 DEF Apart
  <1> QED  BY <1>1, <1>2, <1>3, <1>4, <1>5, <1>6 DEF Own, Says

\* A session that is idle has nothing to keep.
LEMMA IdleKeeps ==
  ASSUME NEW s, pc'[s] = "idle"
  PROVE  Session(s)'
  BY DEF Session, Placed, Drafted, Recorded, Guarded, Based, Named, Looked, Fresh, Informed, Running, Calling, Owning,
         Owns, Stopping, Starting, Asks, Busy, Says

\* No object is replaced while a session runs.
Kept == \A o \in Object : owner'[o] = "other" <=> owner[o] = "other"

\* What a move keeps by itself: the reading, the admission, the records known.
LEMMA Moved ==
  ASSUME IInv, NEW s \in Sessions, pc[s] # "idle", ledger' = ledger, read'[s] = read[s], gate' = gate, Kept
  PROVE  /\ TypeOK /\ gate = "closed" /\ Admitted' /\ Fresh(s)'
         /\ \A e : Found(s, e)' = Found(s, e)
         /\ \A o : Events(s, o)' = Events(s, o)
         /\ Found(s, "SERVICE_INTENT") # {} => Pending(s)' = Pending(s)
         /\ Found(s, "WINDOW") # {} => Baseline(s)' = Baseline(s)
         /\ \A o \in Object : Intact(s, o)' <=> Intact(s, o)
  <1>1. TypeOK /\ gate = "closed" /\ Admitted' /\ Fresh(s)
    BY DEF IInv, Session, Guarded, Running, Admitted
  <1>2. Grown
    BY <1>1, Same
  <1>3. /\ \A e : Found(s, e)' = Found(s, e)
        /\ \A o : Events(s, o)' = Events(s, o)
        /\ Found(s, "SERVICE_INTENT") # {} => Pending(s)' = Pending(s)
        /\ Found(s, "WINDOW") # {} => Baseline(s)' = Baseline(s)
    BY <1>1, <1>2, Reading
  <1>4. Fresh(s)'
    BY <1>1 DEF Fresh, Running, Kept
  <1>5. \A o \in Object : Intact(s, o)' <=> Intact(s, o)
    BY <1>3 DEF Intact, Kept
  <1> QED  BY <1>1, <1>3, <1>4, <1>5

-----------------------------------------------------------------------------
(* The moves: steps of a session that write nothing.                          *)

\* A session that has come to a place, neither idle nor appending, has what it
\* relies on when it has this.
LEMMA Arrived ==
  ASSUME NEW s, NEW l \in Places \ {"idle", "append"}, pc'[s] = l, \A e : ~Says(s, e)',
         Admitted', Fresh(s)', Placed(s)',
         l \in Calling => Recorded(s)',
         l \in Owning \cup {"stop"} => lock' = s,
         l \in Calling /\ Pending(s)'[1] = "stop" => lock' = s /\ Units[at'[s]] \in base'[s],
         l \in Calling /\ Pending(s)'[1] = "start" => Units[at'[s]] \in Baseline(s)',
         l = "window" \/ (l = "lock" /\ cmd'[s] = "window") => Found(s, "WINDOW")' = {},
         l = "stop" \/ (l \in Calling /\ Pending(s)'[1] = "stop") =>
             \E w \in Found(s, "WINDOW")' : ledger'[w].baseline = base'[s],
         l = "start" \/ (l \in Calling /\ Pending(s)'[1] = "start") =>
             Found(s, "WINDOW")' # {} /\ \A o \in Object : Intact(s, o)',
         l = "chown" => Named(s)',
         l = "readback" /\ Restoring(s)' => \A o \in Object : o < at'[s] => Intact(s, o)'
  PROVE  Session(s)'
  <1>1. Asks(s, "stop")' => l \in Calling /\ Pending(s)'[1] = "stop"
    BY DEF Asks, Busy
  <1>2. Asks(s, "start")' => l \in Calling /\ Pending(s)'[1] = "start"
    BY DEF Asks, Busy
  <1>3. Recorded(s)'
    BY DEF Recorded, Busy
  <1>4. Drafted(s)'
    BY DEF Drafted
  <1>5. (Owns(s) \/ Stopping(s))' => lock' = s
    BY <1>1 DEF Owns, Stopping
  <1>6. Guarded(s)'
    BY <1>5 DEF Guarded
  <1>7. Based(s)'
    BY <1>1, <1>2 DEF Based, Stopping, Starting
  <1>8. Named(s)' /\ Looked(s)' /\ Informed(s)'
    BY <1>2 DEF Named, Looked, Starting, Informed
  <1> QED  BY <1>3, <1>4, <1>6, <1>7, <1>8 DEF Session

\* What a session at a request relies on, in one place.
LEMMA BusyFacts ==
  ASSUME IInv, NEW s \in Sessions, Busy(s)
  PROVE  /\ Found(s, "SERVICE_INTENT") # {} /\ Pending(s) \in Request0
         /\ Pending(s)[1] \in {"start", "stop"} /\ Pending(s)[2] = Units[at[s]] /\ at[s] \in 1..2
         /\ Units[at[s]] \in Unit
         /\ Pending(s)[1] = "stop" => /\ lock = s /\ Units[at[s]] \in base[s]
                                      /\ \E w \in Found(s, "WINDOW") : ledger[w].baseline = base[s]
         /\ Pending(s)[1] = "start" => /\ Found(s, "WINDOW") # {} /\ Units[at[s]] \in Baseline(s)
                                       /\ \A o \in Object : Intact(s, o)
  <1>1. Session(s)
    BY DEF IInv
  <1>2. Found(s, "SERVICE_INTENT") # {} /\ Pending(s) \in Request0 /\ Pending(s)[2] = Units[at[s]]
    BY <1>1 DEF Session, Recorded
  <1>3. at[s] \in 1..2
    <2>1. CASE pc[s] \in Calling
      BY <1>1, <2>1 DEF Session, Placed
    <2>2. CASE Says(s, "SERVICE_JOB")
      BY <1>1, <2>2 DEF Session, Drafted, Drafts0, Says
    <2> QED  BY <2>1, <2>2 DEF Busy
  <1>4. Pending(s)[1] = "stop" => /\ lock = s /\ Units[at[s]] \in base[s]
                                  /\ \E w \in Found(s, "WINDOW") : ledger[w].baseline = base[s]
    BY <1>1 DEF Session, Guarded, Based, Stopping, Asks
  <1>5. Pending(s)[1] = "start" => /\ Found(s, "WINDOW") # {} /\ Units[at[s]] \in Baseline(s)
                                   /\ \A o \in Object : Intact(s, o)
    BY <1>1 DEF Session, Based, Looked, Starting, Asks
  <1> QED  BY <1>2, <1>3, <1>4, <1>5, RequestFacts, UnitsFacts

InvokeNext(s) == \E c \in Commands : Invoke(s, c)

LEMMA InvokeKeeps ==
  ASSUME IInv, NEW s \in Sessions, InvokeNext(s)
  PROVE  Own(s) /\ Session(s)'
  <1>1. PICK c \in Commands : Invoke(s, c)
    BY DEF InvokeNext
  <1>2. PICK l \in {"create", "baseline", "services", "readback", "lock"} :
           /\ pc' = [pc EXCEPT ![s] = l] /\ cmd' = [cmd EXCEPT ![s] = c] /\ at' = [at EXCEPT ![s] = 1]
           /\ l = "lock" => c = "resume"
           /\ UNCHANGED <<ledger, gate, owner, lock, base, draft>> /\ gate = "closed"
           /\ \/ book = "absent" /\ read' = read
              \/ read' = [read EXCEPT ![s] = DOMAIN ledger]
    <2>1. Enter(s, c) \in {"create", "baseline", "services", "readback", "lock"}
          /\ (Enter(s, c) = "lock" => c = "resume")
      BY DEF Enter
    <2> QED  BY <1>1, <2>1 DEF Invoke, Step, Admitted, host
  <1>3. TypeOK
    BY DEF IInv
  <1>4. l \in Places \ {"idle", "append"}
    BY DEF Places
  <1>5. pc'[s] = l /\ cmd'[s] = c /\ at'[s] = 1
    BY <1>2, <1>3, SessionTypes
  <1>6. Own(s)
    <2>1. read' \in [Sessions -> SUBSET (DOMAIN ledger')]
      BY <1>2, <1>3, SessionTypes
    <2>2. Typed
      BY <1>2, <1>3, <1>4, <2>1, Bounds, SessionTypes DEF Typed
    <2>3. Apart(s)
      BY <1>2, <1>3, SessionTypes DEF Apart
    <2> QED  BY <2>2, <2>3 DEF Own
  <1>7. Fresh(s)'
    <2>1. CASE book = "absent"
      <3>1. DOMAIN ledger' = {}
        BY <1>2, <2>1 DEF IInv, Sanctioned
      <3> QED  BY <3>1 DEF Fresh
    <2>2. CASE read' = [read EXCEPT ![s] = DOMAIN ledger]
      BY <1>2, <1>3, <2>2, SessionTypes DEF Fresh
    <2> QED  BY <1>2, <2>1, <2>2
  <1>8. Placed(s)'
    BY <1>2, <1>4, <1>5, Bounds DEF Placed, Calling
  <1>9. \A e : ~Says(s, e)'
    BY <1>2, <1>5 DEF Says
  <1>10. Admitted'
    BY <1>2 DEF Admitted
  <1> QED  BY <1>2, <1>4, <1>5, <1>6, <1>7, <1>8, <1>9, <1>10, Bounds, Arrived DEF Calling, Owning

LEMMA CreateKeeps ==
  ASSUME IInv, NEW s \in Sessions, Create(s)
  PROVE  Own(s) /\ Session(s)'
  <1>1. PICK l \in {"baseline", "services", "readback", "lock"} :
           Goto(s, l) /\ (l = "lock" => cmd[s] = "resume")
    <2>1. Enter(s, cmd[s]) \in {"baseline", "services", "readback", "lock"}
          /\ (Enter(s, cmd[s]) = "lock" => cmd[s] = "resume")
      BY DEF Enter
    <2> QED  BY <2>1 DEF Create
  <1>2. pc[s] = "create" /\ UNCHANGED <<ledger, gate, owner, lock, at>> /\ at[s] = 1
    BY DEF Create, host, IInv, Session, Placed
  <1>3. l \in Places \ {"idle", "append"} /\ TypeOK /\ Kept
    BY <1>2 DEF Places, IInv, Kept
  <1>4. Own(s) /\ pc'[s] = l /\ cmd'[s] = cmd[s] /\ read'[s] = read[s] /\ \A e : ~Says(s, e)'
    BY <1>1, <1>2, <1>3, GoOwn
  <1>5. Admitted' /\ Fresh(s)'
    BY <1>2, <1>3, <1>4, Moved
  <1>6. Placed(s)'
    BY <1>1, <1>2, <1>4, Bounds DEF Placed, Calling
  <1> QED  BY <1>1, <1>2, <1>3, <1>4, <1>5, <1>6, Bounds, Arrived DEF Calling, Owning

LEMMA BaselineKeeps ==
  ASSUME IInv, NEW s \in Sessions, CaptureBaseline(s)
  PROVE  Own(s) /\ Session(s)'
  <1>1. /\ pc[s] = "baseline" /\ Found(s, "WINDOW") = {}
        /\ base' = [base EXCEPT ![s] = {u \in Unit : state[u] = "active"}]
        /\ pc' = [pc EXCEPT ![s] = "lock"] /\ UNCHANGED <<gate, owner, ledger, read, draft, lock, at, cmd>>
    BY DEF CaptureBaseline, host, paper
  <1>2. at[s] = 1 /\ TypeOK /\ Kept
    BY <1>1 DEF IInv, Session, Placed, Kept
  <1>3. Own(s) /\ pc'[s] = "lock" /\ at'[s] = 1 /\ read'[s] = read[s]
    <2>1. "lock" \in Places \ {"idle"} /\ {u \in Unit : state[u] = "active"} \in SUBSET Unit
      BY DEF Places
    <2>2. Typed
      BY <1>1, <1>2, <2>1, SessionTypes DEF Typed
    <2>3. Apart(s)
      BY <1>1, <1>2, SessionTypes DEF Apart
    <2> QED  BY <1>1, <1>2, <2>2, <2>3, SessionTypes DEF Own
  <1>4. Admitted' /\ Fresh(s)' /\ Found(s, "WINDOW")' = {}
    BY <1>1, <1>2, <1>3, Moved
  <1>5. Placed(s)' /\ \A e : ~Says(s, e)'
    BY <1>3 DEF Placed, Says, Calling
  <1>6. "lock" \in Places \ {"idle", "append"} /\ "lock" \notin Calling \cup Owning
    BY DEF Places, Calling, Owning
  <1> QED  BY <1>3, <1>4, <1>5, <1>6, Arrived

LEMMA TakeKeeps ==
  ASSUME IInv, NEW s \in Sessions, TakeLock(s)
  PROVE  Own(s) /\ Session(s)'
  <1>1. PICK l \in {"window", "examine"} : Goto(s, l) /\ (l = "window" => cmd[s] = "window")
    BY DEF TakeLock
  <1>2. pc[s] = "lock" /\ lock = "free" /\ lock' = s /\ UNCHANGED <<gate, owner, ledger, at>>
    BY DEF TakeLock, host, paper
  <1>3. at[s] = 1 /\ TypeOK /\ Kept /\ (cmd[s] = "window" => Found(s, "WINDOW") = {})
    BY <1>2 DEF IInv, Session, Placed, Based, Kept
  <1>4. l \in Places \ {"idle", "append"}
    BY DEF Places
  <1>5. Own(s) /\ pc'[s] = l /\ cmd'[s] = cmd[s] /\ read'[s] = read[s] /\ \A e : ~Says(s, e)'
    BY <1>1, <1>2, <1>3, <1>4, GoOwn
  <1>6. Admitted' /\ Fresh(s)' /\ Found(s, "WINDOW")' = Found(s, "WINDOW")
    BY <1>2, <1>3, <1>5, Moved
  <1>7. Placed(s)'
    BY <1>1, <1>2, <1>3, <1>5, Bounds DEF Placed, Calling
  <1> QED  BY <1>1, <1>2, <1>3, <1>4, <1>5, <1>6, <1>7, Arrived DEF Calling

LEMMA PassStopKeeps ==
  ASSUME IInv, NEW s \in Sessions, PassStop(s)
  PROVE  Own(s) /\ Session(s)'
  <1>1. pc[s] = "stop" /\ UNCHANGED <<gate, owner, ledger, lock>> /\ TypeOK /\ at[s] \in 1..3 /\ lock = s
        /\ \E w \in Found(s, "WINDOW") : ledger[w].baseline = base[s]
    BY DEF PassStop, host, paper, IInv, Session, Placed, Guarded, Stopping, Based
  <1>2. PICK l \in {"stop", "examine"}, n \in 1..3 :
           Goto(s, l) /\ Step(s, n) /\ (l = "examine" => n = 1)
    <2>1. CASE at[s] <= 2 /\ Step(s, at[s] + 1) /\ Goto(s, "stop")
      <3>1. at[s] + 1 \in 1..3
        BY <1>1, <2>1
      <3> QED  BY <2>1, <3>1
    <2>2. CASE Step(s, 1) /\ Goto(s, "examine")
      BY <2>2
    <2> QED  BY <2>1, <2>2 DEF PassStop
  <1>3. n \in 0..(MaxObject + 3) /\ l \in Places \ {"idle", "append"} /\ Kept
    BY <1>1, Bounds DEF Places, Kept
  <1>4. Own(s) /\ pc'[s] = l /\ base'[s] = base[s] /\ read'[s] = read[s] /\ at'[s] = n /\ \A e : ~Says(s, e)'
    BY <1>1, <1>2, <1>3, GoOwn
  <1>5. Admitted' /\ Fresh(s)' /\ Found(s, "WINDOW")' = Found(s, "WINDOW")
    BY <1>1, <1>3, <1>4, Moved
  <1>6. Placed(s)'
    BY <1>2, <1>4, Bounds DEF Placed, Calling
  <1>7. \E w \in Found(s, "WINDOW")' : ledger'[w].baseline = base'[s]
    BY <1>1, <1>4, <1>5
  <1> QED  BY <1>1, <1>2, <1>3, <1>4, <1>5, <1>6, <1>7, Arrived DEF Calling

LEMMA CallKeeps ==
  ASSUME IInv, NEW s \in Sessions, Call(s)
  PROVE  Own(s) /\ Session(s)'
  <1>1. /\ pc[s] = "call" /\ Busy(s) /\ Goto(s, "handle") /\ UNCHANGED <<gate, ledger, lock, owner, at>>
        /\ "handle" \in Places \ {"idle", "append"} /\ TypeOK /\ Kept
    BY DEF Call, paper, IInv, Calling, Places, Busy, Kept
  <1>2. Own(s) /\ pc'[s] = "handle" /\ base'[s] = base[s] /\ read'[s] = read[s] /\ \A e : ~Says(s, e)'
    BY <1>1, GoOwn
  <1>3. /\ Found(s, "SERVICE_INTENT") # {} /\ Pending(s) \in Request0
        /\ Pending(s)[1] \in {"start", "stop"} /\ Pending(s)[2] = Units[at[s]] /\ at[s] \in 1..2
        /\ Pending(s)[1] = "stop" => /\ lock = s /\ Units[at[s]] \in base[s]
                                     /\ \E w \in Found(s, "WINDOW") : ledger[w].baseline = base[s]
        /\ Pending(s)[1] = "start" => /\ Found(s, "WINDOW") # {} /\ Units[at[s]] \in Baseline(s)
                                      /\ \A o \in Object : Intact(s, o)
    BY <1>1, BusyFacts
  <1>4. /\ Admitted' /\ Fresh(s)' /\ \A e : Found(s, e)' = Found(s, e)
        /\ Pending(s)' = Pending(s)
        /\ Found(s, "WINDOW") # {} => Baseline(s)' = Baseline(s)
        /\ \A o \in Object : Intact(s, o)' <=> Intact(s, o)
    BY <1>1, <1>2, <1>3, Moved
  <1>5. Placed(s)' /\ Recorded(s)'
    BY <1>1, <1>2, <1>3, <1>4 DEF Placed, Recorded
  <1>6. /\ Pending(s)'[1] = "stop" => /\ lock' = s /\ Units[at'[s]] \in base'[s]
                                      /\ \E w \in Found(s, "WINDOW")' : ledger'[w].baseline = base'[s]
        /\ Pending(s)'[1] = "start" => /\ Found(s, "WINDOW")' # {} /\ Units[at'[s]] \in Baseline(s)'
                                       /\ \A o \in Object : Intact(s, o)'
    BY <1>1, <1>2, <1>3, <1>4
  <1>7. "handle" \notin Owning
    BY DEF Owning
  <1> QED  BY <1>1, <1>2, <1>4, <1>5, <1>6, <1>7, Arrived

LEMMA ObserveKeeps ==
  ASSUME IInv, NEW s \in Sessions, ObserveJob(s)
  PROVE  Own(s) /\ Session(s)'
  <1>1. /\ pc[s] = "await" /\ Busy(s) /\ UNCHANGED <<gate, ledger, lock, owner>> /\ TypeOK /\ Kept
    BY DEF ObserveJob, paper, host, IInv, Calling, Busy, Kept
  <1>2. /\ Pending(s)[1] \in {"start", "stop"} /\ at[s] \in 1..2
        /\ Pending(s)[1] = "stop" => lock = s /\ \E w \in Found(s, "WINDOW") : ledger[w].baseline = base[s]
        /\ Pending(s)[1] = "start" => Found(s, "WINDOW") # {} /\ \A o \in Object : Intact(s, o)
    BY <1>1, BusyFacts
  <1>3. PICK l \in {"stop", "start"}, n \in 0..3 :
           /\ Goto(s, l) /\ Step(s, n) /\ l = Pending(s)[1]
           /\ l = "stop" => n \in 1..3
           /\ l = "start" => n \in 0..2
    <2>1. at[s] + 1 \in 1..3 /\ at[s] - 1 \in 0..2 /\ at[s] + 1 \in 0..3 /\ at[s] - 1 \in 0..3
      BY <1>2
    <2>2. CASE Pending(s)[1] = "stop"
      BY <2>1, <2>2 DEF ObserveJob
    <2>3. CASE Pending(s)[1] = "start"
      BY <2>1, <2>3 DEF ObserveJob
    <2> QED  BY <1>2, <2>2, <2>3
  <1>4. l \in Places \ {"idle", "append"} /\ n \in 0..(MaxObject + 3)
    BY Bounds DEF Places
  <1>5. Own(s) /\ pc'[s] = l /\ at'[s] = n /\ base'[s] = base[s] /\ read'[s] = read[s] /\ \A e : ~Says(s, e)'
    BY <1>1, <1>3, <1>4, GoOwn
  <1>6. /\ Admitted' /\ Fresh(s)' /\ Found(s, "WINDOW")' = Found(s, "WINDOW")
        /\ \A o \in Object : Intact(s, o)' <=> Intact(s, o)
    BY <1>1, <1>5, Moved
  <1>7. Placed(s)'
    BY <1>3, <1>5 DEF Placed, Calling
  <1>8. /\ l = "stop" => lock' = s /\ \E w \in Found(s, "WINDOW")' : ledger'[w].baseline = base'[s]
        /\ l = "start" => Found(s, "WINDOW")' # {} /\ \A o \in Object : Intact(s, o)'
    BY <1>1, <1>2, <1>3, <1>5, <1>6
  <1>9. l \notin Calling \cup Owning
    BY DEF Calling, Owning
  <1> QED  BY <1>3, <1>4, <1>5, <1>6, <1>7, <1>8, <1>9, Arrived

\* Under the lock, from object to object.
LEMMA ObjectKeeps ==
  ASSUME IInv, NEW s \in Sessions, pc[s] \in Owning,
         NEW l \in {"examine", "intend", "applied", "verify"}, Goto(s, l), UNCHANGED <<gate, ledger, lock>>, Kept,
         NEW n \in 0..(MaxObject + 3), Step(s, n) \/ (n = at[s] /\ UNCHANGED at),
         l \in {"examine", "verify"} => n \in 1..(MaxObject + 1),
         l \in {"intend", "applied"} => n \in Object /\ owner[n] # "other"
  PROVE  Own(s) /\ Session(s)'
  <1>1. TypeOK /\ pc[s] # "idle" /\ lock = s
    BY DEF IInv, Owning, Session, Guarded, Owns
  <1>2. l \in Places \ {"idle", "append"} /\ l \notin Calling /\ l \notin {"stop", "window", "lock", "start", "chown", "readback"}
    BY DEF Places, Calling
  <1>3. Own(s) /\ pc'[s] = l /\ read'[s] = read[s] /\ \A e : ~Says(s, e)'
    BY <1>1, <1>2, GoOwn
  <1>4. at'[s] = n
    BY <1>1, <1>2, GoOwn
  <1>5. Admitted' /\ Fresh(s)'
    BY <1>1, <1>3, Moved
  <1>6. Placed(s)'
    BY <1>2, <1>3, <1>4 DEF Placed, Kept
  <1> QED  BY <1>1, <1>2, <1>3, <1>5, <1>6, Arrived

LEMMA ExamineKeeps ==
  ASSUME IInv, NEW s \in Sessions, Examine(s)
  PROVE  Own(s) /\ Session(s)'
  <1>1. /\ pc[s] = "examine" /\ "examine" \in Owning /\ UNCHANGED <<gate, ledger, lock, owner>> /\ Kept /\ TypeOK
        /\ at[s] \in 1..(MaxObject + 1) /\ at[s] \in 0..(MaxObject + 3)
    BY Bounds DEF Examine, Owning, host, paper, Kept, IInv, Session, Placed
  <1>2. CASE at[s] <= MaxObject /\ Step(s, at[s] + 1) /\ Goto(s, "examine")
    <2> DEFINE n == at[s] + 1
    <2>1. n \in 1..(MaxObject + 1) /\ n \in 0..(MaxObject + 3) /\ Step(s, n)
      BY <1>1, <1>2, Bounds
    <2> HIDE DEF n
    <2> QED  BY <1>1, <1>2, <2>1, ObjectKeeps
  <1>3. CASE at[s] <= MaxObject /\ Checked(at[s], {"panel"}) /\ UNCHANGED at /\ Goto(s, "intend")
    <2>1. at[s] \in Object /\ owner[at[s]] # "other"
      BY <1>1, <1>3, Bounds DEF Object, Checked
    <2> QED  BY <1>1, <1>3, <2>1, ObjectKeeps
  <1>4. CASE Step(s, 1) /\ Goto(s, "verify")
    BY <1>1, <1>4, Bounds, ObjectKeeps
  <1> QED  BY <1>2, <1>3, <1>4 DEF Examine

LEMMA ChownKeeps ==
  ASSUME IInv, NEW s \in Sessions, Chown(s)
  PROVE  Own(s) /\ Session(s)' /\ Kept
  <1>1. /\ pc[s] = "chown" /\ "chown" \in Owning /\ UNCHANGED <<gate, ledger, lock, at>> /\ TypeOK /\ Goto(s, "applied")
        /\ at[s] \in Object /\ owner[at[s]] # "other" /\ owner' = [owner EXCEPT ![at[s]] = "root"]
    BY DEF Chown, Owning, paper, IInv, Session, Placed
  <1>2. Kept
    BY <1>1, SessionTypes DEF Kept
  <1>3. at[s] \in 0..(MaxObject + 3)
    BY <1>1, SessionTypes
  <1> QED  BY <1>1, <1>2, <1>3, ObjectKeeps

LEMMA VerifyKeeps ==
  ASSUME IInv, NEW s \in Sessions, Verify(s)
  PROVE  Own(s) /\ Session(s)'
  <1>1. /\ pc[s] = "verify" /\ "verify" \in Owning /\ UNCHANGED <<gate, ledger, lock>> /\ Kept
        /\ at[s] \in 1..(MaxObject + 1) /\ at[s] <= MaxObject
    BY DEF Verify, Owning, host, paper, Kept, IInv, Session, Placed
  <1> DEFINE n == at[s] + 1
  <1>2. n \in 1..(MaxObject + 1) /\ n \in 0..(MaxObject + 3) /\ Step(s, n) /\ Goto(s, "verify")
    BY <1>1, Bounds DEF Verify
  <1> HIDE DEF n
  <1> QED  BY <1>1, <1>2, ObjectKeeps

\* An object without a record is passed when it is the panel's.
ReadbackPass(s) ==
    /\ pc[s] = "readback" /\ at[s] <= MaxObject
    /\ Events(s, at[s]) = {}
    /\ Step(s, at[s] + 1) /\ Goto(s, "readback")
    /\ UNCHANGED <<host, paper, lock>>

LEMMA ReadbackPassKeeps ==
  ASSUME IInv, NEW s \in Sessions, ReadbackPass(s)
  PROVE  Own(s) /\ Session(s)'
  <1>1. /\ pc[s] = "readback" /\ UNCHANGED <<gate, ledger, lock, owner>> /\ Kept /\ TypeOK
        /\ at[s] \in 1..(MaxObject + 1) /\ at[s] <= MaxObject /\ Events(s, at[s]) = {}
        /\ Restoring(s) => \A o \in Object : o < at[s] => Intact(s, o)
    BY DEF ReadbackPass, host, paper, Kept, IInv, Session, Placed, Looked
  <1> DEFINE n == at[s] + 1
  <1>2. n \in 1..(MaxObject + 1) /\ n \in 0..(MaxObject + 3) /\ Step(s, n) /\ Goto(s, "readback")
    BY <1>1, Bounds DEF ReadbackPass
  <1>3. \A o \in Object : o < n => o < at[s] \/ o = at[s]
    BY <1>1 DEF Object
  <1> HIDE DEF n
  <1>4. "readback" \in Places \ {"idle", "append"} /\ "readback" \notin Calling \cup Owning
    BY DEF Places, Calling, Owning
  <1>5. Own(s) /\ pc'[s] = "readback" /\ at'[s] = n /\ cmd'[s] = cmd[s] /\ read'[s] = read[s] /\ \A e : ~Says(s, e)'
    BY <1>1, <1>2, <1>4, GoOwn
  <1>6. Admitted' /\ Fresh(s)' /\ \A o \in Object : Intact(s, o)' <=> Intact(s, o)
    BY <1>1, <1>5, Moved
  <1>7. Placed(s)'
    BY <1>2, <1>5 DEF Placed, Calling
  <1>8. Restoring(s)' => \A o \in Object : o < at'[s] => Intact(s, o)'
    BY <1>1, <1>3, <1>5, <1>6 DEF Restoring, Intact
  <1> QED  BY <1>4, <1>5, <1>6, <1>7, <1>8, Arrived

\* The readback is over and a restoration begins.
LEMMA RestartKeeps ==
  ASSUME IInv, NEW s \in Sessions, pc[s] = "readback", at[s] > MaxObject \/ SkipReadback(s),
         Restoring(s), Windowed(s), Step(s, 2), Goto(s, "start"), UNCHANGED <<host, paper, lock>>
  PROVE  Own(s) /\ Session(s)' /\ at'[s] = 2
  <1>1. /\ UNCHANGED <<gate, ledger, lock, owner>> /\ Kept /\ TypeOK /\ at[s] \in 1..(MaxObject + 1)
        /\ \A o \in Object : o < at[s] => Intact(s, o)
    BY DEF host, paper, Kept, IInv, Session, Placed, Looked
  <1>2. \A o \in Object : Intact(s, o)
    <2>1. CASE SkipReadback(s)
      BY <2>1 DEF SkipReadback, Intact
    <2>2. CASE at[s] > MaxObject
      <3>1. \A o \in Object : o < at[s]
        BY <1>1, <2>2, Bounds DEF Object
      <3> QED  BY <1>1, <3>1
    <2> QED  BY <2>1, <2>2
  <1>3. Found(s, "WINDOW") # {}
    <2>1. Cardinality({}) = 0 /\ 0 # 1
      BY FS_EmptySet
    <2> QED  BY <2>1 DEF Windowed
  <1>4. "start" \in Places \ {"idle", "append"} /\ "start" \notin Calling \cup Owning
    BY DEF Places, Calling, Owning
  <1>5. Own(s) /\ pc'[s] = "start" /\ at'[s] = 2 /\ read'[s] = read[s] /\ \A e : ~Says(s, e)'
    BY <1>1, <1>4, Bounds, GoOwn
  <1>6. /\ Admitted' /\ Fresh(s)' /\ Found(s, "WINDOW")' = Found(s, "WINDOW")
        /\ \A o \in Object : Intact(s, o)' <=> Intact(s, o)
    BY <1>1, <1>5, Moved
  <1>7. Placed(s)'
    BY <1>5 DEF Placed, Calling
  <1> QED  BY <1>2, <1>3, <1>4, <1>5, <1>6, <1>7, Arrived

LEMMA PassStartKeeps ==
  ASSUME IInv, NEW s \in Sessions, PassStart(s)
  PROVE  Own(s) /\ Session(s)'
  <1>1. /\ pc[s] = "start" /\ UNCHANGED <<gate, ledger, lock, owner>> /\ Kept /\ TypeOK
        /\ at[s] \in 0..2 /\ at[s] > 0
        /\ Found(s, "WINDOW") # {} /\ \A o \in Object : Intact(s, o)
    BY DEF PassStart, host, paper, Kept, IInv, Session, Placed, Based, Looked, Starting
  <1> DEFINE n == at[s] - 1
  <1>2. n \in 0..2 /\ n \in 0..(MaxObject + 3) /\ Step(s, n) /\ Goto(s, "start")
    BY <1>1, Bounds DEF PassStart
  <1> HIDE DEF n
  <1>3. "start" \in Places \ {"idle", "append"} /\ "start" \notin Calling \cup Owning
    BY DEF Places, Calling, Owning
  <1>4. Own(s) /\ pc'[s] = "start" /\ at'[s] = n /\ read'[s] = read[s] /\ \A e : ~Says(s, e)'
    BY <1>1, <1>2, <1>3, GoOwn
  <1>5. /\ Admitted' /\ Fresh(s)' /\ Found(s, "WINDOW")' = Found(s, "WINDOW")
        /\ \A o \in Object : Intact(s, o)' <=> Intact(s, o)
    BY <1>1, <1>4, Moved
  <1>6. Placed(s)'
    BY <1>2, <1>4 DEF Placed, Calling
  <1> QED  BY <1>1, <1>3, <1>4, <1>5, <1>6, Arrived

-----------------------------------------------------------------------------
(* The first halves of the appends.                                           *)

\* The request a new draft is about.
Makes(s, r, a) ==
    \/ r.event = "SERVICE_JOB" /\ Pending(s)[1] = a
    \/ r.event = "SERVICE_INTENT" /\ r.request[1] = a

\* What a step of a session that leaves the host alone keeps of a change of owner
\* or a restoration under way.
Held(s) ==
    /\ UNCHANGED host
    /\ pc'[s] = "chown" \/ Says(s, "INTENT")' => pc[s] = "chown" \/ Says(s, "INTENT") \/ Quiescent
    /\ Starting(s)' => Starting(s) /\ at'[s] = at[s] /\ Baseline(s)' = Baseline(s)

LEMMA Drafting ==
  ASSUME IInv, NEW s \in Sessions, NEW r \in Entries, NEW l \in Places, NEW n \in 0..(MaxObject + 3),
         Write(s, r, l, n), pc[s] # "idle", Drafts0(s, r, l, n),
         r.path \in Object => owner[r.path] # "other",
         r.event \in Lists => lock = s,
         r.event = "SERVICE_JOB" => Busy(s),
         r.event = "WINDOW" => Found(s, "WINDOW") = {},
         Makes(s, r, "stop") => /\ lock = s /\ Units[at[s]] \in base[s]
                                /\ \E w \in Found(s, "WINDOW") : ledger[w].baseline = base[s],
         Makes(s, r, "start") => Units[at[s]] \in Baseline(s),
         Makes(s, r, "start") \/ r.event = "RESTORED" => Found(s, "WINDOW") # {} /\ \A o \in Object : Intact(s, o),
         r.event = "RECONCILED" /\ Restoring(s) => \A o \in Object : o < r.path => Intact(s, o),
         r.event = "INTENT" => Quiescent,
         r.event = "RESTORED" \/ (r.event = "SERVICE_INTENT" /\ r.request[1] = "start") => pc[s] = "start"
  PROVE  Own(s) /\ Session(s)' /\ Held(s)
  <1>1. TypeOK
    BY DEF IInv
  <1>2. /\ Own(s) /\ pc'[s] = "append" /\ draft'[s].entry = r /\ draft'[s].to = l /\ draft'[s].at = n
        /\ at'[s] = at[s] /\ cmd'[s] = cmd[s] /\ base'[s] = base[s] /\ read'[s] = read[s]
        /\ UNCHANGED <<host, paper, lock>> /\ read[s] = DOMAIN ledger /\ \A e : Says(s, e)' <=> e = r.event
    BY <1>1, WriteOwn
  <1>3. Kept /\ ledger' = ledger /\ gate' = gate /\ owner' = owner /\ lock' = lock
    BY <1>2 DEF Kept, host, paper
  <1>4. /\ Admitted' /\ Fresh(s)' /\ \A e : Found(s, e)' = Found(s, e)
        /\ Found(s, "SERVICE_INTENT") # {} => Pending(s)' = Pending(s)
        /\ Found(s, "WINDOW") # {} => Baseline(s)' = Baseline(s)
        /\ \A o \in Object : Intact(s, o)' <=> Intact(s, o)
    BY <1>2, <1>3, Moved
  <1>5. Requested(s)' = Requested(s)
    BY <1>1, <1>2, <1>3, Same, Reading
  <1>6. Drafted(s)'
    BY <1>2, <1>3, <1>5 DEF Drafted, Drafts0
  <1>7. "append" \notin Calling \cup Owning /\ "append" \notin {"create", "baseline", "lock", "window", "stop", "services",
           "start", "examine", "verify", "readback", "intend", "chown", "applied", "idle"}
    BY DEF Calling, Owning
  <1>8. Placed(s)' /\ Named(s)' /\ Informed(s)'
    BY <1>2, <1>3, <1>7 DEF Placed, Named, Informed
  <1>9. r.event = "SERVICE_JOB" =>
          /\ Found(s, "SERVICE_INTENT") # {} /\ Pending(s) \in Request0 /\ Pending(s)[2] = Units[at[s]]
          /\ Pending(s)' = Pending(s)
    BY <1>4, BusyFacts
  <1>10. Recorded(s)'
    BY <1>2, <1>4, <1>7, <1>9 DEF Recorded, Busy
  <1>11. \A a : Asks(s, a)' <=> Makes(s, r, a)
    BY <1>2, <1>7, <1>9 DEF Asks, Busy, Makes
  <1>12. Stopping(s)' <=> Makes(s, r, "stop")
    BY <1>2, <1>7, <1>11 DEF Stopping
  <1>13. Starting(s)' <=> Makes(s, r, "start") \/ r.event = "RESTORED"
    BY <1>2, <1>7, <1>11 DEF Starting
  <1>14. Owns(s)' <=> r.event \in Lists
    BY <1>2, <1>7 DEF Owns
  <1>15. Guarded(s)'
    BY <1>3, <1>4, <1>12, <1>14 DEF Guarded
  <1>16. Based(s)'
    <2>1. pc'[s] = "window" \/ Says(s, "WINDOW")' \/ (pc'[s] = "lock" /\ cmd'[s] = "window") => Found(s, "WINDOW")' = {}
      BY <1>2, <1>4, <1>7
    <2>2. Stopping(s)' => \E w \in Found(s, "WINDOW")' : ledger'[w].baseline = base'[s]
      BY <1>2, <1>3, <1>4, <1>12
    <2>3. Starting(s)' => Found(s, "WINDOW")' # {}
      BY <1>4, <1>13
    <2>4. Asks(s, "stop")' => Units[at'[s]] \in base'[s]
      BY <1>2, <1>11
    <2>5. Asks(s, "start")' => Units[at'[s]] \in Baseline(s)'
      BY <1>2, <1>4, <1>11
    <2> QED  BY <2>1, <2>2, <2>3, <2>4, <2>5 DEF Based
  <1>17. Looked(s)'
    <2>1. Says(s, "RECONCILED")' /\ Restoring(s)' => \A o \in Object : o < draft'[s].entry.path => Intact(s, o)'
      BY <1>2, <1>4 DEF Restoring
    <2>2. Starting(s)' => \A o \in Object : Intact(s, o)'
      BY <1>4, <1>13
    <2> QED  BY <1>2, <1>7, <2>1, <2>2 DEF Looked
  <1>18. Held(s)
    <2>1. Starting(s)' => Starting(s)
      BY <1>13 DEF Makes, Starting, Asks
    <2> QED  BY <1>2, <1>4, <1>7, <1>13, <2>1 DEF Held
  <1> QED  BY <1>2, <1>4, <1>6, <1>8, <1>10, <1>15, <1>16, <1>17, <1>18 DEF Session

LEMMA WindowKeeps ==
  ASSUME IInv, NEW s \in Sessions, OpenWindow(s)
  PROVE  Own(s) /\ Session(s)' /\ Held(s)
  <1> DEFINE r == [Entry("WINDOW") EXCEPT !.baseline = base[s]]
  <1>1. pc[s] = "window" /\ Write(s, r, "stop", 1) /\ lock = s /\ Found(s, "WINDOW") = {}
    BY DEF OpenWindow, IInv, Session, Guarded, Owns, Owning, Based
  <1>2. r \in Entries /\ r.event = "WINDOW" /\ r.path = 0 /\ r.baseline = base[s]
    <2>1. base[s] \in SUBSET Unit
      BY DEF IInv, TypeOK
    <2> QED  BY <2>1, Texts
  <1> HIDE DEF r
  <1>3. Drafts0(s, r, "stop", 1) /\ "stop" \in Places
    BY <1>2 DEF Drafts0, Places
  <1> QED  BY <1>1, <1>2, <1>3, Bounds, Drafting DEF Makes

\* A request is put down by a step that may make it.
LEMMA AskKeeps ==
  ASSUME IInv, NEW s \in Sessions, NEW a \in {"start", "stop"}, NEW b \in BOOLEAN, at[s] \in 1..2,
         Request(s, <<a, Units[at[s]], b>>), pc[s] # "idle",
         a = "stop" => /\ lock = s /\ Units[at[s]] \in base[s]
                       /\ \E w \in Found(s, "WINDOW") : ledger[w].baseline = base[s],
         a = "start" => /\ pc[s] = "start" /\ Units[at[s]] \in Baseline(s) /\ Found(s, "WINDOW") # {}
                        /\ \A o \in Object : Intact(s, o)
  PROVE  Own(s) /\ Session(s)' /\ Held(s)
  <1> DEFINE q == <<a, Units[at[s]], b>>
             r == For("SERVICE_INTENT", q)
  <1>1. Write(s, r, "call", at[s]) /\ q \notin Requested(s)
    BY DEF Request
  <1>2. q \in Request0 /\ q[1] = a /\ q[2] = Units[at[s]]
    BY UnitsFacts, RequestMade
  <1> HIDE DEF q
  <1>3. r \in Entries /\ r.event = "SERVICE_INTENT" /\ r.path = 0 /\ r.request = q
    BY <1>2, Texts
  <1> HIDE DEF r
  <1>4. Drafts0(s, r, "call", at[s]) /\ "call" \in Places /\ at[s] \in 0..(MaxObject + 3)
    BY <1>1, <1>2, <1>3, Bounds DEF Drafts0, Places
  <1>5. 0 \notin Object
    BY Bounds
  <1> QED  BY <1>1, <1>2, <1>3, <1>4, <1>5, Drafting DEF Makes, Lists

LEMMA StopKeeps ==
  ASSUME IInv, NEW s \in Sessions, StopUnit(s)
  PROVE  Own(s) /\ Session(s)' /\ Held(s)
  <1>1. /\ pc[s] = "stop" /\ at[s] <= 2 /\ at[s] \in 1..3 /\ lock = s /\ Units[at[s]] \in base[s]
        /\ \E w \in Found(s, "WINDOW") : ledger[w].baseline = base[s]
        /\ Request(s, <<"stop", Units[at[s]], FALSE>>)
    BY DEF StopUnit, IInv, Session, Placed, Guarded, Stopping, Based
  <1>2. at[s] \in 1..2
    BY <1>1
  <1> QED  BY <1>1, <1>2, AskKeeps

LEMMA StartKeeps ==
  ASSUME IInv, NEW s \in Sessions, StartUnit(s)
  PROVE  Own(s) /\ Session(s)' /\ Held(s)
  <1>1. /\ pc[s] = "start" /\ at[s] \in 0..2 /\ at[s] > 0 /\ Found(s, "WINDOW") # {}
        /\ \A o \in Object : Intact(s, o)
        /\ Units[at[s]] \in Baseline(s)
    BY DEF StartUnit, IInv, Session, Placed, Based, Looked, Starting
  <1>2. at[s] \in 1..2
    BY <1>1
  <1>3. PICK b \in BOOLEAN : b = (cmd[s] = "reserve")
    OBVIOUS
  <1>4. Request(s, <<"start", Units[at[s]], b>>)
    BY <1>3 DEF StartUnit
  <1> QED  BY <1>1, <1>2, <1>4, AskKeeps

LEMMA JobKeeps ==
  ASSUME IInv, NEW s \in Sessions, RecordJob(s)
  PROVE  Own(s) /\ Session(s)' /\ Held(s)
  <1> DEFINE r == For("SERVICE_JOB", Pending(s))
  <1>1. pc[s] = "handle" /\ Write(s, r, "await", at[s]) /\ Busy(s)
    BY DEF RecordJob, Busy, Calling
  <1>2. /\ Pending(s) \in Request0 /\ at[s] \in 1..2
        /\ Pending(s)[1] = "stop" => /\ lock = s /\ Units[at[s]] \in base[s]
                                     /\ \E w \in Found(s, "WINDOW") : ledger[w].baseline = base[s]
        /\ Pending(s)[1] = "start" => /\ Found(s, "WINDOW") # {} /\ Units[at[s]] \in Baseline(s)
                                      /\ \A o \in Object : Intact(s, o)
    BY <1>1, BusyFacts
  <1>3. r \in Entries /\ r.event = "SERVICE_JOB" /\ r.path = 0
    BY <1>2, Texts
  <1> HIDE DEF r
  <1>4. Drafts0(s, r, "await", at[s]) /\ "await" \in Places /\ at[s] \in 0..(MaxObject + 3)
    BY <1>2, <1>3, Bounds DEF Drafts0, Places
  <1>5. 0 \notin Object
    BY Bounds
  <1> QED  BY <1>1, <1>2, <1>3, <1>4, <1>5, Drafting DEF Makes, Lists

LEMMA IntendKeeps ==
  ASSUME IInv, NEW s \in Sessions, Intend(s)
  PROVE  Own(s) /\ Session(s)' /\ Held(s)
  <1>1. /\ pc[s] = "intend" /\ Write(s, Of("INTENT", at[s]), "chown", at[s])
        /\ at[s] \in Object /\ owner[at[s]] # "other" /\ lock = s /\ Quiescent
    BY DEF Closed, Intend, IInv, Session, Placed, Guarded, Owns, Owning
  <1> DEFINE r == Of("INTENT", at[s])
  <1>2. r \in Entries /\ r.event = "INTENT" /\ r.path = at[s]
    BY <1>1, Texts
  <1> HIDE DEF r
  <1>3. Drafts0(s, r, "chown", at[s]) /\ "chown" \in Places /\ at[s] \in 0..(MaxObject + 3)
    BY <1>1, <1>2, SessionTypes DEF Drafts0, Places, IInv
  <1>4. Write(s, r, "chown", at[s])
    BY <1>1 DEF r
  <1> QED  BY <1>1, <1>2, <1>3, <1>4, Drafting DEF Makes

LEMMA AppliedKeeps ==
  ASSUME IInv, NEW s \in Sessions, RecordApplied(s)
  PROVE  Own(s) /\ Session(s)' /\ Held(s)
  <1>1. /\ pc[s] = "applied" /\ Write(s, Of("APPLIED", at[s]), "examine", at[s] + 1)
        /\ at[s] \in Object /\ owner[at[s]] # "other" /\ lock = s
    BY DEF RecordApplied, IInv, Session, Placed, Guarded, Owns, Owning
  <1> DEFINE r == Of("APPLIED", at[s])
             n == at[s] + 1
  <1>2. r \in Entries /\ r.event = "APPLIED" /\ r.path = at[s]
    BY <1>1, Texts
  <1>3. Write(s, r, "examine", n)
    BY <1>1
  <1>4. n \in 0..(MaxObject + 3) /\ n = at[s] + 1
    BY <1>1, Bounds
  <1> HIDE DEF r, n
  <1>5. Drafts0(s, r, "examine", n) /\ "examine" \in Places
    BY <1>1, <1>2, <1>4 DEF Drafts0, Places
  <1> QED  BY <1>1, <1>2, <1>3, <1>4, <1>5, Drafting DEF Makes

LEMMA AcceptKeeps ==
  ASSUME IInv, NEW s \in Sessions, Accept(s)
  PROVE  Own(s) /\ Session(s)' /\ Held(s)
  <1> DEFINE r == Entry("FILESYSTEM_ACCEPTED")
  <1>1. PICK l \in {"readback", "idle"} : Write(s, r, l, 1)
    BY DEF Accept
  <1>2. pc[s] = "verify" /\ lock = s
    BY DEF Accept, IInv, Session, Guarded, Owns, Owning
  <1>3. r \in Entries /\ r.event = "FILESYSTEM_ACCEPTED" /\ r.path = 0
    BY Texts
  <1> HIDE DEF r
  <1>4. Drafts0(s, r, l, 1) /\ l \in Places /\ 0 \notin Object
    BY <1>3, Bounds DEF Drafts0, Places
  <1> QED  BY <1>1, <1>2, <1>3, <1>4, Bounds, Drafting DEF Makes

LEMMA UnitReconcileKeeps ==
  ASSUME IInv, NEW s \in Sessions, ReconcileUnit(s)
  PROVE  Own(s) /\ Session(s)' /\ Held(s)
  <1>1. pc[s] = "services" /\ at[s] \in 1..3 /\ at[s] <= 2
    BY DEF ReconcileUnit, IInv, Session, Placed
  <1> DEFINE u == Units[at[s]]
             x == state[u]
             r == [Entry("SERVICE_RECONCILED") EXCEPT !.unit = u, !.state = x]
             n == at[s] + 1
  <1>2. u \in Unit
    <2>1. at[s] \in 1..2
      BY <1>1
    <2> QED  BY <2>1, UnitsFacts
  <1>3. Write(s, r, "services", n) /\ x \in {"active", "inactive"}
    BY DEF ReconcileUnit, Steady
  <1>4. n \in 1..3 /\ n \in 0..(MaxObject + 3)
    BY <1>1, Bounds
  <1> HIDE DEF u, x, n
  <1>5. r \in Entries /\ r.event = "SERVICE_RECONCILED" /\ r.path = 0
    BY <1>2, <1>3, Texts
  <1> HIDE DEF r
  <1>6. Drafts0(s, r, "services", n) /\ "services" \in Places /\ 0 \notin Object
    BY <1>4, <1>5, Bounds DEF Drafts0, Places
  <1> QED  BY <1>1, <1>3, <1>4, <1>5, <1>6, Drafting DEF Makes, Lists

\* An object with a record is looked at and put down.
ReadbackRecord(s) ==
    /\ pc[s] = "readback" /\ at[s] <= MaxObject
    /\ Checked(at[s], {"panel", "root"})
    /\ Write(s, [Of("RECONCILED", at[s]) EXCEPT !.owner = owner[at[s]]], "readback", at[s] + 1)

LEMMA ReadbackRecordKeeps ==
  ASSUME IInv, NEW s \in Sessions, ReadbackRecord(s)
  PROVE  Own(s) /\ Session(s)' /\ Held(s)
  <1>1. /\ pc[s] = "readback" /\ at[s] \in 1..(MaxObject + 1) /\ at[s] <= MaxObject
        /\ owner[at[s]] \in {"panel", "root"}
        /\ Restoring(s) => \A o \in Object : o < at[s] => Intact(s, o)
    BY DEF ReadbackRecord, Checked, IInv, Session, Placed, Looked
  <1> DEFINE r == [Of("RECONCILED", at[s]) EXCEPT !.owner = owner[at[s]]]
             n == at[s] + 1
  <1>2. at[s] \in Object
    BY <1>1, Bounds DEF Object
  <1>3. r \in Entries /\ r.event = "RECONCILED" /\ r.path = at[s]
    <2>1. PICK o \in Object, w \in {"panel", "root"} : o = at[s] /\ w = owner[at[s]]
      BY <1>1, <1>2
    <2>2. r = [Of("RECONCILED", o) EXCEPT !.owner = w]
      BY <2>1
    <2> HIDE DEF r
    <2> QED  BY <2>1, <2>2, ReadbackText
  <1>4. Write(s, r, "readback", n) /\ n \in 0..(MaxObject + 3) /\ n = at[s] + 1
    BY <1>2, Bounds DEF ReadbackRecord
  <1> HIDE DEF r, n
  <1>5. Drafts0(s, r, "readback", n) /\ "readback" \in Places
    BY <1>2, <1>3, <1>4 DEF Drafts0, Places
  <1> QED  BY <1>1, <1>2, <1>3, <1>4, <1>5, Drafting DEF Makes, Lists

LEMMA RestoredKeeps ==
  ASSUME IInv, NEW s \in Sessions, Restored(s)
  PROVE  Own(s) /\ Session(s)' /\ Held(s)
  <1> DEFINE r == Entry("RESTORED")
  <1>1. /\ pc[s] = "start" /\ at[s] = 0 /\ Write(s, r, "idle", 0)
        /\ Found(s, "WINDOW") # {} /\ \A o \in Object : Intact(s, o)
    BY DEF Restored, IInv, Session, Based, Looked, Starting
  <1>2. r \in Entries /\ r.event = "RESTORED" /\ r.path = 0
    BY Texts
  <1> HIDE DEF r
  <1>3. Drafts0(s, r, "idle", 0) /\ "idle" \in Places /\ 0 \notin Object
    BY <1>1, <1>2, Bounds DEF Drafts0, Places
  <1> QED  BY <1>1, <1>2, <1>3, Bounds, Drafting DEF Makes, Lists

-----------------------------------------------------------------------------
(* The second half: the record is written and the session goes on.            *)

\* What every append does.
LEMMA Appended ==
  ASSUME IInv, NEW s \in Sessions, AppendRecord(s)
  PROVE  LET d == draft[s]
             n == Len(ledger) IN
         /\ TypeOK /\ Session(s) /\ pc[s] = "append" /\ d.entry \in Entries /\ n \in Nat
         /\ Drafts0(s, d.entry, d.to, d.at) /\ (d.entry.path \in Object => owner[d.entry.path] # "other")
         /\ ledger' = Append(ledger, d.entry) /\ ledger' \in Seq(Entries) /\ ledger'[n + 1] = d.entry /\ Grown
         /\ DOMAIN ledger' = DOMAIN ledger \cup {n + 1} /\ n + 1 \notin DOMAIN ledger
         /\ UNCHANGED host /\ Kept
  <1>1. TypeOK /\ Session(s) /\ pc[s] = "append" /\ ledger' = Append(ledger, draft[s].entry) /\ UNCHANGED host
    BY DEF AppendRecord, IInv
  <1>2. draft[s].entry \in Entries
    BY <1>1, SessionTypes
  <1>3. Kept
    BY <1>1 DEF Kept, host
  <1> QED  BY <1>1, <1>2, <1>3, Longer DEF Session, Drafted

\* It goes to the place that was meant, with the record among those it knows.
LEMMA WentOn ==
  ASSUME IInv, NEW s \in Sessions, AppendRecord(s), draft[s].to # "idle"
  PROVE  /\ Own(s) /\ pc'[s] = draft[s].to /\ pc'[s] \in Places \ {"idle", "append"}
         /\ at'[s] = draft[s].at /\ cmd'[s] = cmd[s] /\ base'[s] = base[s]
         /\ read'[s] = read[s] \cup {Len(ledger) + 1}
         /\ lock' = IF draft[s].entry.event = "FILESYSTEM_ACCEPTED" THEN "free" ELSE lock
         /\ Admitted' /\ Fresh(s)' /\ \A e : ~Says(s, e)'
         /\ \A o \in Object : Intact(s, o) => Intact(s, o)'
         /\ \A o \in Object : draft[s].entry.path = o => Intact(s, o)'
  <1> DEFINE d == draft[s]
             n == Len(ledger)
  <1>1. /\ TypeOK /\ Session(s) /\ pc[s] = "append" /\ d.entry \in Entries /\ n \in Nat
        /\ Drafts0(s, d.entry, d.to, d.at) /\ (d.entry.path \in Object => owner[d.entry.path] # "other")
        /\ ledger' = Append(ledger, d.entry) /\ ledger'[n + 1] = d.entry /\ Grown
        /\ DOMAIN ledger' = DOMAIN ledger \cup {n + 1} /\ n + 1 \notin DOMAIN ledger
        /\ UNCHANGED host /\ Kept
    BY Appended
  <1>2. /\ pc' = [pc EXCEPT ![s] = d.to] /\ at' = [at EXCEPT ![s] = d.at]
        /\ read' = [read EXCEPT ![s] = read[s] \cup {n + 1}]
        /\ draft' = [draft EXCEPT ![s] = NoDraft]
        /\ lock' = (IF d.entry.event = "FILESYSTEM_ACCEPTED" THEN "free" ELSE lock)
        /\ UNCHANGED <<cmd, base>>
    BY <1>1, SessionTypes DEF AppendRecord, Step
  <1>3. d.to \in Places \ {"idle", "append"} /\ d.at \in 0..(MaxObject + 3)
    BY <1>1, SessionTypes DEF Drafts0, Places
  <1>4. d.entry.event = "FILESYSTEM_ACCEPTED" => lock = s
    BY <1>1 DEF Session, Guarded, Owns, Says, Lists
  <1>5. \A o : Events(s, o)' = IF d.entry.path = o THEN Events(s, o) \cup {n + 1} ELSE Events(s, o)
    <2>1. read'[s] = read[s] \cup {n + 1}
      BY <1>1, <1>2, SessionTypes
    <2> QED  BY <1>1, <2>1, FoundAfter
  <1> HIDE DEF d, n
  <1>6. NoDraft \in Drafts
    BY Bounds DEF NoDraft, Drafts, Places, Entries, Entry, Unit
  <1>7. pc'[s] = d.to /\ at'[s] = d.at /\ read'[s] = read[s] \cup {n + 1}
    BY <1>1, <1>2, SessionTypes
  <1>8. Own(s)
    <2>1. read' \in [Sessions -> SUBSET (DOMAIN ledger')]
      BY <1>1, <1>2, SessionTypes
    <2>2. draft' \in [Sessions -> Drafts] /\ pc' \in [Sessions -> Places] /\ at' \in [Sessions -> 0..(MaxObject + 3)]
      BY <1>1, <1>2, <1>3, <1>6, SessionTypes
    <2>3. lock' \in Sessions \cup {"free"} /\ (lock' # "free" => pc'[lock'] # "idle")
      BY <1>1, <1>2, <1>3, SessionTypes
    <2>4. Typed
      BY <1>1, <1>2, <2>1, <2>2, <2>3, SessionTypes DEF Typed
    <2>5. Apart(s)
      BY <1>1, <1>2, <1>4, SessionTypes DEF Apart
    <2> QED  BY <2>4, <2>5 DEF Own
  <1>9. Admitted'
    BY <1>1 DEF host, Admitted, Session, Guarded, Running
  <1>10. Fresh(s)'
    <2>1. Fresh(s) /\ Running(s)
      BY <1>1 DEF Session, Running
    <2>2. \A j \in DOMAIN ledger : ledger'[j] = ledger[j]
      BY <1>1, LedgerFacts DEF Grown
    <2> QED  BY <1>1, <1>7, <2>1, <2>2 DEF Fresh, Kept
  <1>11. /\ \A o \in Object : Intact(s, o) => Intact(s, o)'
         /\ \A o \in Object : d.entry.path = o => Intact(s, o)'
    <2>1. \A o \in Object : Intact(s, o) => Intact(s, o)'
      <3> SUFFICES ASSUME NEW o \in Object, Intact(s, o), Events(s, o)' # {}  PROVE owner'[o] # "other"
        BY DEF Intact
      <3>1. CASE d.entry.path = o
        BY <1>1, <3>1 DEF Kept
      <3>2. CASE d.entry.path # o
        BY <1>1, <1>5, <3>2 DEF Intact, Kept
      <3> QED  BY <3>1, <3>2
    <2>2. \A o \in Object : d.entry.path = o => owner'[o] # "other"
      BY <1>1 DEF Kept
    <2> QED  BY <2>1, <2>2 DEF Intact
  <1> QED  BY <1>2, <1>3, <1>7, <1>8, <1>9, <1>10, <1>11, SessionTypes DEF d, n, Says

LEMMA UpTo ==
  \A p, o \in Object : o < p + 1 => o < p \/ o = p
  BY DEF Object

LEMMA AppendKeeps ==
  ASSUME IInv, NEW s \in Sessions, AppendRecord(s)
  PROVE  Own(s) /\ Session(s)'
  <1> DEFINE d == draft[s]
             e == d.entry
             n == Len(ledger)
  <1>1. /\ TypeOK /\ Session(s) /\ pc[s] = "append" /\ e \in Entries /\ n \in Nat
        /\ Drafts0(s, e, d.to, d.at) /\ (e.path \in Object => owner[e.path] # "other")
        /\ ledger' = Append(ledger, e) /\ ledger'[n + 1] = e /\ Grown
        /\ DOMAIN ledger' = DOMAIN ledger \cup {n + 1} /\ Kept
    BY Appended
  <1>2. CASE d.to = "idle"
    <2>1. Own(s) /\ pc'[s] = "idle"
      BY <1>1, <1>2, LeaveOwn DEF AppendRecord, End
    <2> QED  BY <2>1, IdleKeeps
  <1>3. CASE d.to # "idle"
    <2>1. /\ Own(s) /\ pc'[s] = d.to /\ pc'[s] \in Places \ {"idle", "append"}
          /\ at'[s] = d.at /\ cmd'[s] = cmd[s] /\ base'[s] = base[s]
          /\ read'[s] = read[s] \cup {n + 1}
          /\ lock' = (IF e.event = "FILESYSTEM_ACCEPTED" THEN "free" ELSE lock)
          /\ Admitted' /\ Fresh(s)' /\ \A x : ~Says(s, x)'
          /\ \A o \in Object : Intact(s, o) => Intact(s, o)'
          /\ \A o \in Object : e.path = o => Intact(s, o)'
      BY <1>3, WentOn
    <2>2. \A x : Says(s, x) <=> x = e.event
      BY <1>1 DEF Says
    <2>3. /\ \A x : Found(s, x)' = IF e.event = x THEN Found(s, x) \cup {n + 1} ELSE Found(s, x)
          /\ e.event = "SERVICE_INTENT" => Found(s, "SERVICE_INTENT")' # {} /\ Pending(s)' = e.request
          /\ e.event # "SERVICE_INTENT" /\ Found(s, "SERVICE_INTENT") # {} =>
               Found(s, "SERVICE_INTENT")' # {} /\ Pending(s)' = Pending(s)
          /\ e.event # "WINDOW" /\ Found(s, "WINDOW") # {} =>
               Found(s, "WINDOW")' # {} /\ Baseline(s)' = Baseline(s)
      BY <1>1, <2>1, FoundAfter, PendingAfter
    <2>4. \A w \in Found(s, "WINDOW") : ledger'[w] = ledger[w]
      BY <1>1, LedgerFacts DEF Grown
    <2>5. owner' = owner
      BY DEF AppendRecord, host
    <2> HIDE DEF d, e, n
    <2>6. CASE e.event = "WINDOW"
      <3>1. d.to = "stop" /\ d.at = 1 /\ e.baseline = base[s]
        BY <1>1, <2>6 DEF Drafts0
      <3>2. lock = s
        BY <1>1, <2>2, <2>6 DEF Session, Guarded, Owns, Lists
      <3>3. \E w \in Found(s, "WINDOW")' : ledger'[w].baseline = base'[s]
        BY <1>1, <2>1, <2>3, <2>6, <3>1
      <3>4. Placed(s)'
        BY <2>1, <3>1 DEF Placed, Calling
      <3> QED  BY <2>1, <2>6, <3>1, <3>2, <3>3, <3>4, Arrived DEF Calling, Owning
    <2>7. CASE e.event = "SERVICE_INTENT"
      <3>1. /\ d.to = "call" /\ d.at = at[s] /\ at[s] \in 1..2 /\ e.request \in Request0
            /\ e.request[2] = Units[at[s]]
        BY <1>1, <2>7 DEF Drafts0
      <3>2. Pending(s)' = e.request /\ Found(s, "SERVICE_INTENT")' # {} /\ Found(s, "WINDOW")' = Found(s, "WINDOW")
        BY <2>3, <2>7
      <3>3. Recorded(s)' /\ Placed(s)'
        BY <2>1, <3>1, <3>2 DEF Recorded, Placed
      <3>4. \A a : e.request[1] = a => Asks(s, a)
        BY <2>2, <2>7 DEF Asks, e, d
      <3>5. e.request[1] = "stop" => /\ lock = s /\ Units[at[s]] \in base[s]
                                     /\ \E w \in Found(s, "WINDOW") : ledger[w].baseline = base[s]
        BY <1>1, <3>4 DEF Session, Guarded, Based, Stopping
      <3>6. e.request[1] = "start" => /\ Found(s, "WINDOW") # {} /\ Units[at[s]] \in Baseline(s)
                                      /\ \A o \in Object : Intact(s, o)
        BY <1>1, <3>4 DEF Session, Based, Looked, Starting
      <3>7. /\ Pending(s)'[1] = "stop" => /\ lock' = s /\ Units[at'[s]] \in base'[s]
                                          /\ \E w \in Found(s, "WINDOW")' : ledger'[w].baseline = base'[s]
            /\ Pending(s)'[1] = "start" => /\ Found(s, "WINDOW")' # {} /\ Units[at'[s]] \in Baseline(s)'
                                           /\ \A o \in Object : Intact(s, o)'
        BY <2>1, <2>3, <2>4, <2>7, <3>1, <3>2, <3>5, <3>6
      <3>8. "call" \notin Owning
        BY DEF Owning
      <3> QED  BY <2>1, <3>1, <3>3, <3>7, <3>8, Arrived
    <2>8. CASE e.event = "SERVICE_JOB"
      <3>1. d.to = "await" /\ d.at = at[s] /\ at[s] \in 1..2
        BY <1>1, <2>8 DEF Drafts0
      <3>2. Busy(s)
        BY <2>2, <2>8 DEF Busy
      <3>3. /\ Found(s, "SERVICE_INTENT") # {} /\ Pending(s) \in Request0 /\ Pending(s)[2] = Units[at[s]]
            /\ Pending(s)[1] = "stop" => /\ lock = s /\ Units[at[s]] \in base[s]
                                         /\ \E w \in Found(s, "WINDOW") : ledger[w].baseline = base[s]
            /\ Pending(s)[1] = "start" => /\ Found(s, "WINDOW") # {} /\ Units[at[s]] \in Baseline(s)
                                          /\ \A o \in Object : Intact(s, o)
        BY <3>2, BusyFacts
      <3>4. Pending(s)' = Pending(s) /\ Found(s, "SERVICE_INTENT")' # {} /\ Found(s, "WINDOW")' = Found(s, "WINDOW")
        BY <2>3, <2>8, <3>3
      <3>5. Recorded(s)' /\ Placed(s)'
        BY <2>1, <3>1, <3>3, <3>4 DEF Recorded, Placed
      <3>6. /\ Pending(s)'[1] = "stop" => /\ lock' = s /\ Units[at'[s]] \in base'[s]
                                          /\ \E w \in Found(s, "WINDOW")' : ledger'[w].baseline = base'[s]
            /\ Pending(s)'[1] = "start" => /\ Found(s, "WINDOW")' # {} /\ Units[at'[s]] \in Baseline(s)'
                                           /\ \A o \in Object : Intact(s, o)'
        BY <2>1, <2>3, <2>4, <2>8, <3>1, <3>3, <3>4
      <3>7. "await" \notin Owning
        BY DEF Owning
      <3> QED  BY <2>1, <3>1, <3>5, <3>6, <3>7, Arrived
    <2>9. CASE e.event \in {"INTENT", "APPLIED"}
      <3>1. /\ e.path \in Object
            /\ \/ d.to = "chown" /\ d.at = e.path
               \/ d.to = "examine" /\ d.at = e.path + 1
        BY <1>1, <2>9 DEF Drafts0
      <3>2. lock = s
        BY <1>1, <2>2, <2>9 DEF Session, Guarded, Owns, Lists
      <3>3. Placed(s)'
        BY <1>1, <2>1, <2>5, <3>1, Bounds DEF Placed, Calling
      <3>4. d.to = "chown" => Named(s)'
        BY <1>1, <2>1, <3>1 DEF Named
      <3> QED  BY <2>1, <2>9, <3>1, <3>2, <3>3, <3>4, Arrived DEF Calling
    <2>10. CASE e.event = "FILESYSTEM_ACCEPTED"
      <3>1. d.to = "readback" /\ d.at = 1
        BY <1>1, <1>3, <2>10 DEF Drafts0
      <3>2. Placed(s)'
        BY <2>1, <3>1, Bounds DEF Placed, Calling
      <3> QED  BY <2>1, <3>1, <3>2, Bounds, Arrived DEF Calling, Owning
    <2>11. CASE e.event = "SERVICE_RECONCILED"
      <3>1. d.to = "services" /\ d.at \in 1..3
        BY <1>1, <2>11 DEF Drafts0
      <3>2. Placed(s)'
        BY <2>1, <3>1 DEF Placed, Calling
      <3> QED  BY <2>1, <3>1, <3>2, Arrived DEF Calling, Owning
    <2>12. CASE e.event = "RECONCILED"
      <3>1. PICK p \in Object : e.path = p /\ d.to = "readback" /\ d.at = p + 1
        BY <1>1, <2>12 DEF Drafts0
      <3>2. Placed(s)'
        BY <2>1, <3>1, Bounds DEF Placed, Calling
      <3>3. Restoring(s) => \A o \in Object : o < p => Intact(s, o)
        BY <1>1, <2>2, <2>12, <3>1 DEF Session, Looked, e, d
      <3>4. \A o \in Object : o < p + 1 => o < p \/ o = p
        BY UpTo
      <3>5. Restoring(s)' => \A o \in Object : o < at'[s] => Intact(s, o)'
        BY <2>1, <3>1, <3>3, <3>4 DEF Restoring
      <3> QED  BY <2>1, <3>1, <3>2, <3>5, Arrived DEF Calling, Owning
    <2>13. d.to # "idle" => e.event # "RESTORED"
      BY <1>1 DEF Drafts0
    <2> QED  BY <1>1, <1>3, <2>6, <2>7, <2>8, <2>9, <2>10, <2>11, <2>12, <2>13 DEF Drafts0
  <1> QED  BY <1>2, <1>3


-----------------------------------------------------------------------------
(* The steps put together.                                                    *)

LEMMA LeaveKeeps ==
  ASSUME IInv, NEW s \in Sessions, Leave(s), ledger' = ledger
  PROVE  Own(s) /\ Session(s)'
  <1>1. Own(s) /\ pc'[s] = "idle"
    BY LeaveOwn DEF IInv
  <1> QED  BY <1>1, IdleKeeps

\* What a step of a session does to the host and the ledger: it opens no
\* admission, replaces no object, and only an append makes the ledger longer.
LEMMA Effects ==
  ASSUME NEW s \in Sessions, SessionStep(s)
  PROVE  /\ gate' = gate
         /\ Chown(s) \/ owner' = owner
         /\ AppendRecord(s) \/ ledger' = ledger
         /\ AppendRecord(s) \/ book' = book \/ (book \in {"absent", "empty"} /\ book' \in {"empty", "whole"})
              \/ (Tear(s) /\ book' = IF book = "mixed" THEN "mixed" ELSE "torn")
  <1> DEFINE Quietly == gate' = gate /\ owner' = owner /\ ledger' = ledger /\ book' = book
  <1>1. CASE \E c \in Commands : Invoke(s, c)
    BY <1>1 DEF Invoke, host
  <1>2. CASE Create(s) \/ Tear(s)
    BY <1>2 DEF Create, Tear, host
  <1>3. CASE AppendRecord(s)
    BY <1>3 DEF AppendRecord, host
  <1>4. ASSUME CaptureBaseline(s) \/ TakeLock(s) \/ OpenWindow(s) \/ StopUnit(s) \/ PassStop(s)
        PROVE  Quietly
    BY <1>4 DEF CaptureBaseline, TakeLock, OpenWindow, StopUnit, PassStop, Request, Write, host, paper
  <1>5. ASSUME Call(s) \/ TimeOut(s) \/ RecordJob(s) \/ ObserveJob(s)
        PROVE  Quietly
    BY <1>5 DEF Call, TimeOut, RecordJob, ObserveJob, Write, host, paper
  <1>6. ASSUME Examine(s) \/ Intend(s) \/ RecordApplied(s) \/ Verify(s) \/ Accept(s)
        PROVE  Quietly
    BY <1>6 DEF Examine, Intend, RecordApplied, Verify, Accept, Write, host, paper
  <1>7. ASSUME ReconcileUnit(s) \/ AfterReconcile(s) \/ Readback(s) \/ AfterReadback(s)
        PROVE  Quietly
    BY <1>7 DEF ReconcileUnit, AfterReconcile, Readback, AfterReadback, Write, host, paper
  <1>8. ASSUME StartUnit(s) \/ PassStart(s) \/ Restored(s) \/ Halt(s)
        PROVE  Quietly
    BY <1>8 DEF StartUnit, PassStart, Restored, Halt, Request, Write, host, paper
  <1>9. CASE Chown(s)
    BY <1>9 DEF Chown, paper
  <1> QED  BY <1>1, <1>2, <1>3, <1>4, <1>5, <1>6, <1>7, <1>8, <1>9 DEF SessionStep

\* The session that takes the step.
LEMMA StepKeeps ==
  ASSUME IInv, NEW s \in Sessions, SessionStep(s)
  PROVE  Own(s) /\ Session(s)'
  <1>1. CASE \E c \in Commands : Invoke(s, c)
    BY <1>1, InvokeKeeps DEF InvokeNext
  <1>2. CASE Create(s)
    BY <1>2, CreateKeeps
  <1>3. CASE AppendRecord(s)
    BY <1>3, AppendKeeps
  <1>4. CASE Tear(s) \/ AfterReconcile(s) \/ Halt(s) \/ TimeOut(s)
    BY <1>4, LeaveKeeps DEF Tear, AfterReconcile, Halt, TimeOut, End, paper
  <1>5. CASE CaptureBaseline(s)
    BY <1>5, BaselineKeeps
  <1>6. CASE TakeLock(s)
    BY <1>6, TakeKeeps
  <1>7. CASE OpenWindow(s)
    BY <1>7, WindowKeeps
  <1>8. CASE StopUnit(s)
    BY <1>8, StopKeeps
  <1>9. CASE PassStop(s)
    BY <1>9, PassStopKeeps
  <1>10. CASE Call(s)
    BY <1>10, CallKeeps
  <1>11. CASE RecordJob(s)
    BY <1>11, JobKeeps
  <1>12. CASE ObserveJob(s)
    BY <1>12, ObserveKeeps
  <1>13. CASE Examine(s)
    BY <1>13, ExamineKeeps
  <1>14. CASE Intend(s)
    BY <1>14, IntendKeeps
  <1>15. CASE Chown(s)
    BY <1>15, ChownKeeps
  <1>16. CASE RecordApplied(s)
    BY <1>16, AppliedKeeps
  <1>17. CASE Verify(s)
    BY <1>17, VerifyKeeps
  <1>18. CASE Accept(s)
    BY <1>18, AcceptKeeps
  <1>19. CASE ReconcileUnit(s)
    BY <1>19, UnitReconcileKeeps
  <1>20. CASE Readback(s)
    <2>1. ReadbackPass(s) \/ ReadbackRecord(s)
      BY <1>20 DEF Readback, ReadbackPass, ReadbackRecord
    <2> QED  BY <2>1, ReadbackPassKeeps, ReadbackRecordKeeps
  <1>21. CASE AfterReadback(s)
    <2>1. CASE Restoring(s) /\ Windowed(s) /\ Step(s, 2) /\ Goto(s, "start") /\ UNCHANGED lock
      BY <1>21, <2>1, RestartKeeps DEF AfterReadback
    <2>2. CASE End(s)
      BY <1>21, <2>2, LeaveKeeps DEF AfterReadback, End, paper
    <2> QED  BY <1>21, <2>1, <2>2 DEF AfterReadback
  <1>22. CASE StartUnit(s)
    BY <1>22, StartKeeps
  <1>23. CASE PassStart(s)
    BY <1>23, PassStartKeeps
  <1>24. CASE Restored(s)
    BY <1>24, RestoredKeeps
  <1> QED  BY <1>1, <1>2, <1>3, <1>4, <1>5, <1>6, <1>7, <1>8, <1>9, <1>10, <1>11, <1>12, <1>13, <1>14, <1>15, <1>16,
              <1>17, <1>18, <1>19, <1>20, <1>21, <1>22, <1>23, <1>24 DEF SessionStep

\* No new record names a replaced object.
Plain ==
    \A j \in DOMAIN ledger' \ DOMAIN ledger, o \in Object :
        ledger'[j].path = o => owner[o] # "other"

LEMMA StepShows ==
  ASSUME IInv, NEW s \in Sessions, SessionStep(s)
  PROVE  gate' = gate /\ Kept /\ Grown /\ Plain
  <1>1. gate' = gate
    BY Effects
  <1>2. Kept
    <2>1. CASE Chown(s)
      BY <2>1, ChownKeeps
    <2>2. CASE owner' = owner
      BY <2>2 DEF Kept
    <2> QED  BY <2>1, <2>2, Effects
  <1>3. Grown /\ Plain
    <2>1. CASE AppendRecord(s)
      <3>1. LET d == draft[s]
                n == Len(ledger) IN
            /\ (d.entry.path \in Object => owner[d.entry.path] # "other")
            /\ ledger'[n + 1] = d.entry /\ Grown /\ DOMAIN ledger' = DOMAIN ledger \cup {n + 1}
        BY <2>1, Appended
      <3> QED  BY <3>1 DEF Plain
    <2>2. CASE ledger' = ledger
      BY <2>2, Same DEF IInv, Plain
    <2> QED  BY <2>1, <2>2, Effects
  <1> QED  BY <1>1, <1>2, <1>3

\* While a session is about to write a baseline or a stop, no other writes one.
Sole(t) ==
    pc[t] = "append" /\ Lone(draft[t].entry) => \A j \in DOMAIN ledger' \ DOMAIN ledger : ~Lone(ledger'[j])

LEMMA SoleWriter ==
  ASSUME IInv, NEW s \in Sessions, SessionStep(s), NEW t \in Sessions, t # s
  PROVE  Sole(t)
  <1>1. ASSUME NEW r \in Sessions, pc[r] = "append", Lone(draft[r].entry)  PROVE lock = r
    <2>1. Session(r)
      BY DEF IInv
    <2>2. Owns(r) \/ Stopping(r)
      BY <1>1 DEF Lone, Owns, Stopping, Asks, Says, Lists
    <2> QED  BY <2>1, <2>2 DEF Session, Guarded
  <1>2. CASE AppendRecord(s)
    <2>1. pc[s] = "append" /\ \A j \in DOMAIN ledger' \ DOMAIN ledger : ledger'[j] = draft[s].entry
      BY <1>2, Appended
    <2> QED  BY <1>1, <2>1 DEF Sole
  <1>3. CASE ledger' = ledger
    BY <1>3 DEF Sole
  <1> QED  BY <1>2, <1>3, Effects

\* The sessions that take no step.
LEMMA OthersKeep ==
  ASSUME IInv, NEW t \in Sessions,
         pc'[t] = pc[t], cmd'[t] = cmd[t], at'[t] = at[t], base'[t] = base[t], read'[t] = read[t], draft'[t] = draft[t],
         lock = t => lock' = t, Grown, Plain, Sole(t),
         pc[t] # "idle" => gate' = gate /\ Kept
  PROVE  Session(t)'
  <1>1. CASE pc[t] = "idle"
    BY <1>1, IdleKeeps
  <1>2. CASE pc[t] # "idle"
    <2>1. TypeOK /\ Session(t) /\ gate' = gate /\ Kept
      BY <1>2 DEF IInv
    <2>2. /\ \A e : Found(t, e)' = Found(t, e)
          /\ \A o : Events(t, o)' = Events(t, o)
          /\ Requested(t)' = Requested(t)
          /\ Found(t, "SERVICE_INTENT") # {} => Pending(t)' = Pending(t)
          /\ Found(t, "WINDOW") # {} => Baseline(t)' = Baseline(t)
          /\ \A i \in read[t] : ledger'[i] = ledger[i]
      BY <2>1, Reading
    <2>3. \A e : Says(t, e)' <=> Says(t, e)
      BY DEF Says
    <2>4. Busy(t)' <=> Busy(t)
      BY <2>3 DEF Busy
    <2>5. Recorded(t)' /\ (Busy(t) => Pending(t)' = Pending(t))
      BY <2>1, <2>2, <2>4 DEF Session, Recorded
    <2>6. \A a : Asks(t, a)' <=> Asks(t, a)
      BY <2>3, <2>4, <2>5 DEF Asks
    <2>7. (Owns(t)' <=> Owns(t)) /\ (Stopping(t)' <=> Stopping(t)) /\ (Starting(t)' <=> Starting(t))
      BY <2>3, <2>6 DEF Owns, Stopping, Starting
    <2>8. Placed(t)'
      BY <2>1 DEF Session, Placed, Kept
    <2>9. Drafted(t)'
      BY <2>1, <2>2 DEF Session, Drafted, Drafts0, Kept
    <2>10. Guarded(t)'
      BY <2>1, <2>7 DEF Session, Guarded, Running, Admitted
    <2>11. Based(t)'
      <3>1. \A w \in Found(t, "WINDOW") : ledger'[w] = ledger[w]
        BY <2>2 DEF Found
      <3>2. Based(t)
        BY <2>1 DEF Session
      <3>3. pc'[t] = "window" \/ Says(t, "WINDOW")' \/ (pc'[t] = "lock" /\ cmd'[t] = "window") => Found(t, "WINDOW")' = {}
        BY <2>2, <2>3, <3>2 DEF Based
      <3>4. Stopping(t)' => \E w \in Found(t, "WINDOW")' : ledger'[w].baseline = base'[t]
        BY <2>2, <2>7, <3>1, <3>2 DEF Based
      <3>5. Starting(t)' => Found(t, "WINDOW")' # {}
        BY <2>2, <2>7, <3>2 DEF Based
      <3>6. Asks(t, "stop")' => Units[at'[t]] \in base'[t]
        BY <2>6, <3>2 DEF Based
      <3>7. Asks(t, "start")' => Units[at'[t]] \in Baseline(t)'
        <4>1. Asks(t, "start") => Starting(t)
          BY DEF Starting
        <4> QED  BY <2>2, <2>6, <3>2, <4>1 DEF Based
      <3> QED  BY <3>3, <3>4, <3>5, <3>6, <3>7 DEF Based
    <2>12. Named(t)'
      <3>1. \A i \in DOMAIN ledger : i \in DOMAIN ledger' /\ ledger'[i] = ledger[i]
        BY <2>1, LedgerFacts DEF Grown
      <3> QED  BY <2>1, <3>1 DEF Session, Named
    <2>13. \A o \in Object : Intact(t, o)' <=> Intact(t, o)
      BY <2>1, <2>2 DEF Intact, Kept
    <2>14. Looked(t)'
      BY <2>1, <2>3, <2>7, <2>13 DEF Session, Looked, Restoring
    <2>15. Fresh(t)'
      <3>1. \A i \in DOMAIN ledger : ledger'[i] = ledger[i]
        BY <2>1, LedgerFacts DEF Grown
      <3>2. Fresh(t)
        BY <2>1 DEF Session
      <3> QED  BY <1>2, <2>1, <3>1, <3>2 DEF Fresh, Running, Kept, Plain
    <2>16. Informed(t)'
      <3>1. \A i \in DOMAIN ledger : ledger'[i] = ledger[i]
        BY <2>1, LedgerFacts DEF Grown
      <3>2. Informed(t)
        BY <2>1 DEF Session
      <3> QED  BY <3>1, <3>2 DEF Informed, Sole, Lone
    <2> QED  BY <2>5, <2>8, <2>9, <2>10, <2>11, <2>12, <2>14, <2>15, <2>16 DEF Session
  <1> QED  BY <1>1, <1>2

\* Most steps of a session leave the host alone.
LEMMA Sparing ==
  ASSUME NEW s \in Sessions, SessionStep(s)
  PROVE  InvokeNext(s) \/ Call(s) \/ TimeOut(s) \/ Chown(s) \/ (UNCHANGED host /\ strays' = strays)
  <1> DEFINE Quietly == UNCHANGED host /\ strays' = strays
  <1>1. ASSUME Create(s) \/ Tear(s) \/ AppendRecord(s) \/ CaptureBaseline(s) \/ TakeLock(s) \/ OpenWindow(s)
               \/ StopUnit(s) \/ PassStop(s) \/ RecordJob(s) \/ ObserveJob(s)
        PROVE  Quietly
    BY <1>1 DEF Create, Tear, AppendRecord, CaptureBaseline, TakeLock, OpenWindow, StopUnit, PassStop, RecordJob,
                ObserveJob, Request, Write, Goto, End, used
  <1>2. ASSUME Examine(s) \/ Intend(s) \/ RecordApplied(s) \/ Verify(s) \/ Accept(s) \/ ReconcileUnit(s)
        PROVE  Quietly
    BY <1>2 DEF Examine, Intend, RecordApplied, Verify, Accept, ReconcileUnit, Write, Goto, used
  <1>3. ASSUME AfterReconcile(s) \/ Readback(s) \/ AfterReadback(s) \/ StartUnit(s) \/ PassStart(s) \/ Restored(s) \/ Halt(s)
        PROVE  Quietly
    BY <1>3 DEF AfterReconcile, Readback, AfterReadback, StartUnit, PassStart, Restored, Halt, Request, Write, Goto, End, used
  <1> QED  BY <1>1, <1>2, <1>3 DEF SessionStep, InvokeNext

\* The variables of the host keep their types.
HostTypes ==
    /\ owner' \in [Object -> {"panel", "root", "other"}]
    /\ state' \in [Unit -> {"active", "inactive", "failed"}] /\ job' \in [Unit -> {"none", "start", "stop"}]
    /\ gone' \subseteq Unit /\ flying' \subseteq Request0 /\ gate' \in {"closed", "open"}

LEMMA StepTypes ==
  ASSUME IInv, NEW s \in Sessions, SessionStep(s)
  PROVE  HostTypes /\ strays' \in Nat
  <1>1. /\ owner \in [Object -> {"panel", "root", "other"}]
        /\ state \in [Unit -> {"active", "inactive", "failed"}] /\ job \in [Unit -> {"none", "start", "stop"}]
        /\ gone \subseteq Unit /\ flying \subseteq Request0 /\ gate \in {"closed", "open"} /\ strays \in Nat
    BY DEF IInv, TypeOK
  <1>2. CASE Call(s)
    <2>1. Pending(s)[1] \in {"start", "stop"} /\ Pending(s)[2] \in Unit
      BY <1>2, BusyFacts DEF Call, Busy, Calling
    <2>2. job' \in [Unit -> {"none", "start", "stop"}] /\ UNCHANGED <<owner, state, gone, flying, gate, strays>>
      BY <1>1, <1>2, <2>1 DEF Call, Goto, used
    <2> QED  BY <1>1, <2>2 DEF HostTypes
  <1>3. CASE TimeOut(s)
    <2>1. Pending(s) \in Request0
      BY <1>3, BusyFacts DEF TimeOut, Busy, Calling
    <2>2. flying' \subseteq Request0 /\ strays' \in Nat /\ UNCHANGED <<owner, state, job, gone, gate>>
      BY <1>1, <1>3, <2>1 DEF TimeOut
    <2> QED  BY <1>1, <2>2 DEF HostTypes
  <1>4. CASE Chown(s)
    BY <1>1, <1>4 DEF Chown, Goto, used, HostTypes
  <1>5. CASE \E c \in Commands : Invoke(s, c)
    <2>1. Beside(s) \in Nat
      BY DEF Beside
    <2>2. strays' = strays + Beside(s) /\ UNCHANGED host
      BY <1>5 DEF Invoke
    <2> QED  BY <1>1, <2>1, <2>2 DEF host, HostTypes
  <1>6. CASE UNCHANGED host /\ strays' = strays
    BY <1>1, <1>6 DEF host, HostTypes
  <1> QED  BY <1>2, <1>3, <1>4, <1>5, <1>6, Sparing DEF InvokeNext

\* What the host and others do.
LEMMA HostShows ==
  ASSUME TypeOK, strays \in Nat, HostStep
  PROVE  /\ UNCHANGED <<ledger, book, lock, pc, at, cmd, base, read, draft, strays>> /\ HostTypes
         /\ \A o \in Object : owner'[o] = owner[o] \/ owner'[o] = "other"
         /\ \A s \in Sessions : Running(s) /\ gate = "closed" => gate' = gate /\ owner' = owner
  <1>1. /\ owner \in [Object -> {"panel", "root", "other"}]
        /\ state \in [Unit -> {"active", "inactive", "failed"}] /\ job \in [Unit -> {"none", "start", "stop"}]
        /\ gone \subseteq Unit /\ flying \subseteq Request0 /\ gate \in {"closed", "open"}
    BY DEF TypeOK
  <1>2. CASE \E u \in Unit : FinishJob(u)
    <2>1. PICK u \in Unit : FinishJob(u)
      BY <1>2
    <2>2. PICK r \in Outcomes(u) : /\ state' = [state EXCEPT ![u] = r]
                                   /\ gone' = IF job[u] = "stop" \/ r = "active" THEN gone \ {u} ELSE gone
      BY <2>1 DEF FinishJob
    <2>3. r \in {"active", "inactive", "failed"}
      BY DEF Outcomes
    <2> QED  BY <1>1, <2>1, <2>2, <2>3 DEF FinishJob, Rest, paper, mind, HostTypes
  <1>3. CASE \E u \in Unit : ServiceExit(u)
    BY <1>1, <1>3 DEF ServiceExit, Other, Rest, paper, mind, HostTypes
  <1>4. CASE \E u \in Unit : ClearFailure(u)
    BY <1>1, <1>4 DEF ClearFailure, Rest, paper, mind, HostTypes
  <1>5. CASE \E u \in Unit : OtherRequest(u, "start") \/ OtherRequest(u, "stop")
    BY <1>1, <1>5 DEF OtherRequest, Other, Rest, paper, mind, HostTypes
  <1>6. CASE \E o \in Object : OtherReplace(o)
    BY <1>1, <1>6 DEF OtherReplace, Other, Rest, paper, mind, HostTypes
  <1>7. CASE \E q \in flying : Land(q)
    <2>1. PICK q \in flying : Land(q)
      BY <1>7
    <2>2. q[1] \in {"start", "stop"}
      BY <1>1, RequestFacts
    <2>3. job' \in [Unit -> {"none", "start", "stop"}] /\ flying' \subseteq Request0
      BY <1>1, <2>1, <2>2 DEF Land
    <2> QED  BY <1>1, <2>1, <2>3 DEF Land, paper, mind, used, HostTypes
  <1>8. CASE OpenGate \/ CloseGate
    BY <1>1, <1>8 DEF OpenGate, CloseGate, Other, Rest, paper, mind, HostTypes
  <1> QED  BY <1>2, <1>3, <1>4, <1>5, <1>6, <1>7, <1>8 DEF HostStep

\* The record that is added.
LEMMA Continued ==
  ASSUME IInv, NEW s \in Sessions, AppendRecord(s)
  PROVE  Sanctioned'
  <1> DEFINE d == draft[s]
             e == d.entry
             n == Len(ledger)
  <1>1. /\ TypeOK /\ Session(s) /\ pc[s] = "append" /\ e \in Entries /\ n \in Nat
        /\ Drafts0(s, e, d.to, d.at)
        /\ ledger'[n + 1] = e /\ Grown
        /\ DOMAIN ledger' = DOMAIN ledger \cup {n + 1} /\ n + 1 \notin DOMAIN ledger
    BY Appended
  <1>2. book' \in {"whole", "mixed"} /\ (book' # "mixed" => book = "whole" /\ read[s] = DOMAIN ledger)
    BY DEF AppendRecord
  <1>3. /\ \A i, j \in Intents :
             ledger[i].request = ledger[j].request /\ (book # "mixed" \/ ledger[i].request[1] = "stop") => i = j
        /\ \A i \in Intents : \E w \in Windows : w < i /\ ledger[i].request[2] \in ledger[w].baseline
        /\ \A v, w \in Windows : v = w
    BY DEF IInv, Sanctioned
  <1>4. Found(s, "WINDOW") \subseteq Windows /\ Intents \subseteq DOMAIN ledger /\ Windows \subseteq DOMAIN ledger
    BY <1>1, SessionTypes DEF Found, Windows, Intents
  <1>5. DOMAIN ledger = 1..n /\ \A i \in DOMAIN ledger : ledger'[i] = ledger[i]
    BY <1>1, LedgerFacts DEF Grown
  <1>6. \A x : Says(s, x) <=> x = e.event
    BY <1>1 DEF Says
  <1>7. Lone(e) => \A j \in DOMAIN ledger : Lone(ledger[j]) => j \in read[s]
    BY <1>1 DEF Session, Informed
  <1> HIDE DEF d, e, n
  <1>8. /\ Intents' = IF e.event = "SERVICE_INTENT" THEN Intents \cup {n + 1} ELSE Intents
        /\ Windows' = IF e.event = "WINDOW" THEN Windows \cup {n + 1} ELSE Windows
    BY <1>1, <1>5 DEF Intents, Windows
  <1>9. \A i \in Intents \cup Windows : ledger'[i] = ledger[i] /\ i \in 1..n
    BY <1>5 DEF Intents, Windows
  <1>10. /\ book' # "mixed" => book # "mixed"
         /\ book' # "absent"
    BY <1>2
  <1>11. CASE e.event = "SERVICE_INTENT"
    <2>1. e.request \notin Requested(s) /\ e.request \in Request0 /\ e.request[2] = Units[at[s]]
      BY <1>1, <1>11 DEF Drafts0
    <2>2. ASSUME NEW i \in Intents, book' # "mixed" \/ e.request[1] = "stop"
          PROVE  ledger[i].request # e.request
      <3>1. CASE i \in read[s]
        BY <2>1, <3>1 DEF Requested, Found, Intents
      <3>2. CASE i \notin read[s]
        <4>1. Lone(e) /\ ~Lone(ledger[i])
          BY <1>2, <1>4, <1>11, <1>7, <2>2, <3>2 DEF Lone
        <4> QED  BY <1>11, <2>2, <4>1, <1>2, <1>4, <3>2 DEF Lone, Intents
      <3> QED  BY <3>1, <3>2
    <2>3. \A a : e.request[1] = a => Asks(s, a)
      BY <1>6, <1>11 DEF Asks, e, d
    <2>4. \E w \in Windows : e.request[2] \in ledger[w].baseline
      <3>1. CASE e.request[1] = "stop"
        BY <1>1, <1>4, <2>1, <2>3, <3>1 DEF Session, Based, Stopping
      <3>2. CASE e.request[1] = "start"
        <4>1. Found(s, "WINDOW") # {} /\ Units[at[s]] \in Baseline(s)
          BY <1>1, <2>3, <3>2 DEF Session, Based, Starting
        <4> QED  BY <1>1, <1>4, <2>1, <4>1, LastFound DEF Baseline
      <3> QED  BY <2>1, <3>1, <3>2, RequestFacts
    <2>5. \A i, j \in Intents' :
            ledger'[i].request = ledger'[j].request /\ (book' # "mixed" \/ ledger'[i].request[1] = "stop") => i = j
      <3> SUFFICES ASSUME NEW i \in Intents', NEW j \in Intents', ledger'[i].request = ledger'[j].request,
                          book' # "mixed" \/ ledger'[i].request[1] = "stop"
                   PROVE  i = j
        OBVIOUS
      <3>1. CASE i \in Intents /\ j \in Intents
        BY <1>3, <1>9, <1>10, <3>1
      <3>2. CASE i \in Intents /\ j = n + 1
        BY <1>1, <1>9, <2>2, <3>2
      <3>3. CASE i = n + 1 /\ j \in Intents
        BY <1>1, <1>9, <2>2, <3>3
      <3> QED  BY <1>8, <1>11, <3>1, <3>2, <3>3
    <2>6. \A i \in Intents' : \E w \in Windows' : w < i /\ ledger'[i].request[2] \in ledger'[w].baseline
      <3> SUFFICES ASSUME NEW i \in Intents'
                   PROVE  \E w \in Windows' : w < i /\ ledger'[i].request[2] \in ledger'[w].baseline
        OBVIOUS
      <3>1. Windows' = Windows
        BY <1>8, <1>11
      <3>2. CASE i \in Intents
        BY <1>3, <1>9, <3>1, <3>2
      <3>3. CASE i = n + 1
        <4>1. PICK w \in Windows : e.request[2] \in ledger[w].baseline
          BY <2>4
        <4>2. w < n + 1
          BY <1>1, <1>9
        <4> QED  BY <1>1, <1>9, <3>1, <3>3, <4>1, <4>2
      <3> QED  BY <1>8, <1>11, <3>2, <3>3
    <2> QED  BY <1>3, <1>8, <1>11, <1>10, <2>5, <2>6 DEF Sanctioned
  <1>12. CASE e.event = "WINDOW"
    <2>1. Windows = {}
      <3>1. Found(s, "WINDOW") = {}
        BY <1>1, <1>6, <1>12 DEF Session, Based
      <3>2. \A w \in Windows : w \in read[s]
        BY <1>4, <1>12, <1>7 DEF Lone, Windows
      <3> QED  BY <3>1, <3>2 DEF Found, Windows
    <2>2. Intents = {}
      BY <1>3, <2>1
    <2> QED  BY <1>8, <1>12, <1>10, <2>1, <2>2 DEF Sanctioned
  <1>13. CASE e.event \notin {"SERVICE_INTENT", "WINDOW"}
    <2>1. Intents' = Intents /\ Windows' = Windows
      BY <1>8, <1>13
    <2> QED  BY <1>3, <1>9, <1>10, <2>1 DEF Sanctioned
  <1> QED  BY <1>11, <1>12, <1>13

LEMMA StaysSanctioned ==
  ASSUME Sanctioned, ledger' = ledger, book' = "absent" => book = "absent", book' # "mixed" => book # "mixed"
  PROVE  Sanctioned'
  <1>1. Intents' = Intents /\ Windows' = Windows
    BY DEF Intents, Windows
  <1> QED  BY <1>1 DEF Sanctioned

LEMMA InitIInv == Init => IInv
  <1> SUFFICES ASSUME Init  PROVE IInv
    OBVIOUS
  <1>1. /\ ledger = <<>> /\ book = "absent" /\ owner = [o \in Object |-> "panel"]
        /\ state \in [Unit -> {"active", "inactive"}] /\ job = [u \in Unit |-> "none"]
        /\ gone = {} /\ flying = {} /\ gate = "closed" /\ lock = "free" /\ strays = 0
        /\ pc = [s \in Sessions |-> "idle"] /\ cmd = [s \in Sessions |-> "none"]
        /\ at = [s \in Sessions |-> 0] /\ read = [s \in Sessions |-> {}]
        /\ draft = [s \in Sessions |-> NoDraft] /\ base = [s \in Sessions |-> {}]
    BY DEF Init
  <1>2. NoDraft \in Drafts /\ "idle" \in Places /\ ledger \in Seq(Entries) /\ DOMAIN ledger = {}
    <2>1. NoDraft \in Drafts /\ "idle" \in Places
      BY Bounds DEF NoDraft, Drafts, Places, Entries, Entry, Unit
    <2>2. ledger \in Seq(Entries) /\ DOMAIN ledger = {}
      BY <1>1
    <2> QED  BY <2>1, <2>2
  <1>3. TypeOK
    BY <1>1, <1>2, Bounds DEF TypeOK
  <1>4. Sanctioned
    BY <1>1, <1>2 DEF Sanctioned, Intents, Windows
  <1>5. RootIsAttributed
    BY <1>1 DEF RootIsAttributed
  <1>6. \A s \in Sessions : Session(s)
    BY <1>1 DEF Session, Placed, Drafted, Recorded, Guarded, Based, Named, Looked, Fresh, Informed, Running, Calling, Owning,
                Owns, Stopping, Starting, Asks, Busy, Says
  <1> QED  BY <1>1, <1>3, <1>4, <1>5, <1>6 DEF IInv

LEMMA NextIInv == IInv /\ [Next]_vars => IInv'
  <1> SUFFICES ASSUME IInv, [Next]_vars  PROVE IInv'
    OBVIOUS
  <1>1. TypeOK /\ strays \in Nat /\ Sanctioned /\ RootIsAttributed /\ \A s \in Sessions : Session(s)
    BY DEF IInv
  <1>2. ASSUME NEW s \in Sessions, SessionStep(s)  PROVE IInv'
    <2>1. Own(s) /\ Session(s)' /\ gate' = gate /\ Kept /\ Grown /\ Plain /\ HostTypes /\ strays' \in Nat
      BY <1>2, StepKeeps, StepShows, StepTypes
    <2>2. /\ AppendRecord(s) \/ ledger' = ledger
          /\ Chown(s) \/ owner' = owner
          /\ AppendRecord(s) \/ book' = book \/ (book \in {"absent", "empty"} /\ book' \in {"empty", "whole"})
               \/ (Tear(s) /\ book' = IF book = "mixed" THEN "mixed" ELSE "torn")
      BY <1>2, Effects
    <2>3. \A t \in Sessions : Session(t)'
      <3> SUFFICES ASSUME NEW t \in Sessions, t # s  PROVE Session(t)'
        BY <2>1
      <3>1. Sole(t)
        BY <1>2, SoleWriter
      <3> QED  BY <2>1, <3>1, OthersKeep DEF Own, Apart
    <2>4. book' \in {"absent", "empty", "whole", "torn", "mixed"}
      BY <1>1, <2>2 DEF TypeOK, AppendRecord
    <2>5. ledger' \in Seq(Entries)
      <3>1. CASE AppendRecord(s)
        BY <3>1, Appended
      <3>2. CASE ledger' = ledger
        BY <1>1, <3>2 DEF TypeOK
      <3> QED  BY <2>2, <3>1, <3>2
    <2>6. TypeOK'
      BY <2>1, <2>4, <2>5 DEF TypeOK, Own, Typed, HostTypes, Running
    <2>7. Sanctioned'
      <3>1. CASE AppendRecord(s)
        BY <3>1, Continued
      <3>2. CASE ~AppendRecord(s)
        <4>1. ledger' = ledger /\ (book' = "absent" => book = "absent") /\ (book' # "mixed" => book # "mixed")
          BY <2>2, <3>2
        <4> QED  BY <1>1, <4>1, StaysSanctioned
      <3> QED  BY <3>1, <3>2
    <2>8. RootIsAttributed'
      <3>1. \A i \in DOMAIN ledger : i \in DOMAIN ledger' /\ ledger'[i] = ledger[i]
        BY <1>1, <2>1, LedgerFacts DEF Grown, Own, Typed
      <3>2. CASE owner' = owner
        BY <1>1, <3>1, <3>2 DEF RootIsAttributed
      <3>3. CASE Chown(s)
        <4>1. /\ owner' = [owner EXCEPT ![at[s]] = "root"]
              /\ \E i \in DOMAIN ledger : ledger[i].path = at[s]
          BY <1>1, <3>3 DEF Chown, Session, Named
        <4>2. \A o \in Object : owner'[o] = "root" => o = at[s] \/ owner[o] = "root"
          BY <1>1, <4>1, SessionTypes
        <4> QED  BY <1>1, <3>1, <4>1, <4>2 DEF RootIsAttributed
      <3> QED  BY <2>2, <3>2, <3>3
    <2> QED  BY <2>1, <2>3, <2>6, <2>7, <2>8 DEF IInv
  <1>3. ASSUME UNCHANGED <<ledger, book, lock, pc, at, cmd, base, read, draft, strays>>, HostTypes,
               \A o \in Object : owner'[o] = owner[o] \/ owner'[o] = "other",
               \A s \in Sessions : Running(s) /\ gate = "closed" => gate' = gate /\ owner' = owner
        PROVE  IInv'
    <2>1. Grown /\ Plain
      BY <1>1, <1>3, Same DEF Plain
    <2>2. \A t \in Sessions : Session(t)'
      <3> SUFFICES ASSUME NEW t \in Sessions  PROVE Session(t)'
        OBVIOUS
      <3>1. pc[t] # "idle" => gate' = gate /\ Kept
        BY <1>1, <1>3 DEF Session, Guarded, Running, Admitted, Kept
      <3>2. Sole(t)
        BY <1>3 DEF Sole
      <3> QED  BY <1>3, <2>1, <3>1, <3>2, OthersKeep
    <2>3. TypeOK'
      BY <1>1, <1>3 DEF TypeOK, HostTypes, Running
    <2>4. Sanctioned'
      BY <1>1, <1>3, StaysSanctioned
    <2>5. RootIsAttributed'
      BY <1>1, <1>3 DEF RootIsAttributed
    <2> QED  BY <1>1, <1>3, <2>2, <2>3, <2>4, <2>5 DEF IInv
  <1>4. CASE HostStep
    BY <1>1, <1>3, <1>4, HostShows
  <1>5. CASE UNCHANGED vars
    <2>1. HostTypes
      BY <1>1, <1>5 DEF vars, host, HostTypes, TypeOK
    <2> QED  BY <1>3, <1>5, <2>1 DEF vars, host, paper, mind, used
  <1> QED  BY <1>2, <1>4, <1>5 DEF Next

LEMMA Invariance == Spec => []IInv
  BY InitIInv, NextIInv, PTL DEF Spec

\* The variables keep their types, the lock is held by a running command, and no
\* place in a list leaves it: a session knows only records that are there.
THEOREM TypeCorrect == Spec => []TypeOK
  <1>1. IInv => TypeOK
    BY DEF IInv
  <1> QED  BY <1>1, Invariance, PTL

\* An object found with root as its owner is named in the ledger, whichever
\* session died between its intent and its outcome and whichever ran beside it.
THEOREM RootAttributed == Spec => []RootIsAttributed
  <1>1. IInv => RootIsAttributed
    BY DEF IInv
  <1> QED  BY <1>1, Invariance, PTL

\* Any number of sessions at once, killed and repeated anywhere, with calls that
\* are cut off: one baseline is recorded, each stop once at most, and stops and
\* starts of its units only; each start and each corrective start once at most, until
\* two sessions have crossed in append, between the comparison and the write.
THEOREM SanctionedRequests == Spec => []RequestsAreSanctioned
  <1>1. ASSUME IInv  PROVE RequestsAreSanctioned
    <2>1. Sanctioned
      BY <1>1 DEF IInv
    <2>2. Cardinality(Windows) <= 1
      <3>1. CASE Windows = {}
        <4>1. Cardinality(Windows) = 0
          BY <3>1, FS_EmptySet
        <4> QED  BY <4>1
      <3>2. ASSUME NEW w \in Windows  PROVE Cardinality(Windows) <= 1
        <4>1. \A v \in Windows : v = w
          BY <2>1 DEF Sanctioned
        <4>2. Windows = {w}
          BY <3>2, <4>1
        <4>3. Cardinality(Windows) = 1
          BY <4>2, FS_Singleton
        <4> QED  BY <4>3
      <3> QED  BY <3>1, <3>2
    <2> QED  BY <2>1, <2>2 DEF RequestsAreSanctioned, Sanctioned, Intents, Windows
  <1> QED  BY <1>1, Invariance, PTL

\* Whatever the sessions, two of them are never at once between the capture of
\* the lock and its release: among the stops, or at the objects.  (At the starts
\* of a restoration, which takes no lock, they may be.)
AtWork(s) == Owns(s) \/ Stopping(s)
OneAtWork == \A s, t \in Sessions : AtWork(s) /\ AtWork(t) => s = t
THEOREM ExclusiveOwners == Spec => []OneAtWork
  <1>1. IInv => OneAtWork
    BY DEF IInv, Session, Guarded, OneAtWork, AtWork
  <1> QED  BY <1>1, Invariance, PTL

\* A record is added by the second half of an append.
LEMMA Added ==
  ASSUME IInv, [Next]_vars, NEW i \in DOMAIN ledger' \ DOMAIN ledger
  PROVE  \E s \in Sessions : AppendRecord(s) /\ ledger'[i] = draft[s].entry
  <1>1. ledger' # ledger
    OBVIOUS
  <1>2. ~HostStep
    BY <1>1, HostShows DEF IInv
  <1>3. ~UNCHANGED vars
    BY <1>1 DEF vars, paper
  <1>4. PICK s \in Sessions : AppendRecord(s)
    <2>1. PICK s \in Sessions : SessionStep(s)
      BY <1>2, <1>3 DEF Next
    <2> QED  BY <1>1, <2>1, Effects
  <1>5. ledger'[i] = draft[s].entry
    BY <1>4, Appended
  <1> QED  BY <1>4, <1>5

\* No start is recorded over an object that the ledger names and that was
\* replaced since, whoever wrote its records: the readback that precedes the start
\* saw each of them, and of a replaced object no record is added meanwhile.
THEOREM NoReplacedStart == Spec => NoStartOverReplaced
  <1>1. ASSUME IInv, [Next]_vars,
               NEW i \in DOMAIN ledger' \ DOMAIN ledger,
               ledger'[i].event = "SERVICE_INTENT", ledger'[i].request[1] = "start",
               NEW o \in Object, owner[o] = "other", NEW j \in DOMAIN ledger
        PROVE  ledger[j].path # o
    <2>1. PICK s \in Sessions : AppendRecord(s) /\ ledger'[i] = draft[s].entry
      BY <1>1, Added
    <2>2. Session(s) /\ pc[s] = "append"
      BY <1>1, <2>1 DEF IInv, AppendRecord
    <2>3. Starting(s)
      BY <1>1, <2>1, <2>2 DEF Starting, Asks, Says
    <2>4. Intact(s, o) /\ (ledger[j].path = o => j \in read[s])
      BY <1>1, <2>2, <2>3 DEF Session, Looked, Fresh, Running
    <2> QED  BY <1>1, <2>4 DEF Intact, Events
  <1>2. IInv /\ [Next]_vars =>
          [\A i \in DOMAIN ledger' \ DOMAIN ledger :
             ledger'[i].event = "SERVICE_INTENT" /\ ledger'[i].request[1] = "start" =>
               \A o \in Object : owner[o] = "other" => \A j \in DOMAIN ledger : ledger[j].path # o]_vars
    BY <1>1
  <1> QED  BY <1>2, Invariance, PTL DEF Spec, NoStartOverReplaced

-----------------------------------------------------------------------------
(* One command at a time, and no call cut off.                                *)

\* A unit of the baseline is up, or has exited since it came up and is not being
\* stopped; another one is down.
Settled(s, u) ==
    IF u \in Baseline(s) THEN IF u \in gone THEN job[u] # "stop" ELSE state[u] = "active" /\ job[u] = "none"
                         ELSE Dead(u)

\* From the intent of a change of owner to the change the units are down; the
\* units a restoration has gone through stay settled.
Undisturbed(s) ==
    /\ pc[s] = "chown" \/ Says(s, "INTENT") => Quiescent
    /\ Starting(s) => \A k \in 1..2 : k > at[s] => Settled(s, Units[k])
Quiet ==
    strays = 0 =>
        /\ flying = {} /\ \A s, t \in Sessions : Running(s) /\ Running(t) => s = t
        /\ \A s \in Sessions : Undisturbed(s)

\* A session that stands elsewhere has nothing to lose, and one that is held loses
\* nothing.
LEMMA ElsewhereQuiet ==
  ASSUME NEW s, pc'[s] \notin Calling \cup {"start", "chown", "append"}
  PROVE  Undisturbed(s)'
  BY DEF Undisturbed, Starting, Asks, Busy, Says

LEMMA HeldQuiet ==
  ASSUME NEW s, Undisturbed(s), Held(s)
  PROVE  Undisturbed(s)'
  <1>1. UNCHANGED <<state, job, gone, gate>>
    BY DEF Held, host
  <1>2. Quiescent => Quiescent'
    BY <1>1 DEF Quiescent, Admitted, Dead
  <1>3. Starting(s)' => Starting(s) /\ \A k \in 1..2 : Settled(s, Units[k]) => Settled(s, Units[k])'
    BY <1>1 DEF Held, Settled, Dead, Units
  <1> QED  BY <1>2, <1>3 DEF Held, Undisturbed

LEMMA AppendHolds ==
  ASSUME IInv, NEW s \in Sessions, AppendRecord(s), draft[s].to # "idle"
  PROVE  Held(s)
  <1> DEFINE d == draft[s]
             e == d.entry
             n == Len(ledger)
  <1>1. /\ TypeOK /\ Session(s) /\ pc[s] = "append" /\ e \in Entries
        /\ Drafts0(s, e, d.to, d.at) /\ ledger' = Append(ledger, e) /\ UNCHANGED host
    BY Appended
  <1>2. /\ pc'[s] = d.to /\ at'[s] = d.at /\ read'[s] = read[s] \cup {n + 1} /\ \A x : ~Says(s, x)'
    BY WentOn
  <1>3. \A x : Says(s, x) <=> x = e.event
    BY <1>1 DEF Says
  <1>4. /\ e.event = "SERVICE_INTENT" => Pending(s)' = e.request
        /\ e.event # "SERVICE_INTENT" /\ Found(s, "SERVICE_INTENT") # {} => Pending(s)' = Pending(s)
        /\ e.event # "WINDOW" /\ Found(s, "WINDOW") # {} => Baseline(s)' = Baseline(s)
    BY <1>1, <1>2, PendingAfter
  <1> HIDE DEF e, d, n
  <1>5. pc'[s] = "chown" => Says(s, "INTENT")
    BY <1>1, <1>2, <1>3 DEF Drafts0
  <1>6. ASSUME Starting(s)'
        PROVE  Starting(s) /\ at'[s] = at[s] /\ Baseline(s)' = Baseline(s)
    <2>1. pc'[s] \in Calling /\ Pending(s)'[1] = "start"
      <3>1. pc'[s] # "start"
        BY <1>1, <1>2 DEF Drafts0
      <3> QED  BY <1>2, <1>6, <3>1 DEF Starting, Asks, Busy
    <2>2. e.event \in {"SERVICE_INTENT", "SERVICE_JOB"} /\ at'[s] = at[s]
      BY <1>1, <1>2, <2>1 DEF Drafts0, Calling
    <2>3. Starting(s)
      <3>1. CASE e.event = "SERVICE_INTENT"
        BY <1>3, <1>4, <2>1, <3>1 DEF Starting, Asks, e, d
      <3>2. CASE e.event = "SERVICE_JOB"
        <4>1. Busy(s)
          BY <1>3, <3>2 DEF Busy
        <4>2. Found(s, "SERVICE_INTENT") # {}
          BY <4>1, BusyFacts
        <4> QED  BY <1>4, <2>1, <3>2, <4>1, <4>2 DEF Starting, Asks
      <3> QED  BY <2>2, <3>1, <3>2
    <2>4. Found(s, "WINDOW") # {}
      BY <1>1, <2>3 DEF Session, Based
    <2> QED  BY <1>4, <2>2, <2>3, <2>4
  <1> QED  BY <1>1, <1>2, <1>5, <1>6 DEF Held

\* Only an idle session is invoked.
LEMMA Runs ==
  ASSUME NEW s \in Sessions, SessionStep(s)
  PROVE  InvokeNext(s) \/ Running(s)
  <1>1. ASSUME Create(s) \/ AppendRecord(s) \/ Tear(s) \/ CaptureBaseline(s) \/ TakeLock(s) \/ OpenWindow(s)
               \/ StopUnit(s) \/ PassStop(s) \/ Call(s) \/ TimeOut(s) \/ RecordJob(s) \/ ObserveJob(s)
        PROVE  Running(s)
    BY <1>1 DEF Running, Create, AppendRecord, Tear, CaptureBaseline, TakeLock, OpenWindow, StopUnit, PassStop, Call,
                TimeOut, RecordJob, ObserveJob
  <1>2. ASSUME Examine(s) \/ Intend(s) \/ Chown(s) \/ RecordApplied(s) \/ Verify(s) \/ Accept(s) \/ ReconcileUnit(s)
               \/ AfterReconcile(s) \/ Readback(s) \/ AfterReadback(s) \/ StartUnit(s) \/ PassStart(s) \/ Restored(s)
               \/ Halt(s)
        PROVE  Running(s)
    BY <1>2 DEF Running, Examine, Intend, Chown, RecordApplied, Verify, Accept, ReconcileUnit, AfterReconcile, Readback,
                AfterReadback, StartUnit, PassStart, Restored, Halt
  <1> QED  BY <1>1, <1>2 DEF SessionStep, InvokeNext

LEMMA CallQuiet ==
  ASSUME IInv, NEW s \in Sessions, Call(s), Undisturbed(s)
  PROVE  Undisturbed(s)'
  <1>1. /\ TypeOK /\ pc[s] = "call" /\ Busy(s) /\ Goto(s, "handle") /\ UNCHANGED <<ledger, at, state, gone, lock>>
        /\ job' = [job EXCEPT ![Pending(s)[2]] = Pending(s)[1]]
        /\ "handle" \in Places \ {"idle", "append"}
    BY DEF Call, paper, IInv, Busy, Calling, Places
  <1>2. pc'[s] = "handle" /\ read'[s] = read[s] /\ \A e : ~Says(s, e)'
    BY <1>1, GoOwn
  <1>3. /\ Pending(s)[2] = Units[at[s]] /\ at[s] \in 1..2 /\ Found(s, "SERVICE_INTENT") # {}
        /\ Pending(s)[1] = "start" => Found(s, "WINDOW") # {}
    BY <1>1, BusyFacts
  <1>4. Pending(s)' = Pending(s) /\ (Found(s, "WINDOW") # {} => Baseline(s)' = Baseline(s))
    BY <1>1, <1>2, <1>3, Same, Reading
  <1>5. ASSUME Starting(s)', NEW k \in 1..2, k > at[s]
        PROVE  Settled(s, Units[k])'
    <2>1. Pending(s)[1] = "start"
      BY <1>2, <1>4, <1>5 DEF Starting, Asks
    <2>2. Starting(s) /\ Baseline(s)' = Baseline(s)
      BY <1>1, <1>3, <1>4, <2>1 DEF Starting, Asks
    <2>3. Settled(s, Units[k])
      BY <1>5, <2>2 DEF Undisturbed
    <2>4. Units[k] # Units[at[s]] /\ Units[k] \in Unit
      <3>1. at[s] = 1 /\ k = 2
        BY <1>3, <1>5
      <3> QED  BY <3>1, UnitsDiffer, UnitsFacts
    <2>5. job'[Units[k]] = job[Units[k]]
      BY <1>1, <1>3, <2>4 DEF TypeOK
    <2>6. Units' = Units
      BY DEF Units
    <2> QED  BY <1>1, <2>2, <2>3, <2>5, <2>6 DEF Settled, Dead
  <1> QED  BY <1>1, <1>2, <1>5 DEF Undisturbed

\* A unit that is in its wanted state settles, and the session goes on to the next.
LEMMA OnQuiet ==
  ASSUME IInv, NEW s \in Sessions, Starting(s), Undisturbed(s), at[s] \in 1..2, Settled(s, Units[at[s]]),
         Step(s, at[s] - 1), Goto(s, "start"), UNCHANGED <<host, paper, lock>>
  PROVE  Undisturbed(s)'
  <1> DEFINE n == at[s] - 1
  <1>1. n \in 0..2 /\ n \in 0..(MaxObject + 3) /\ Step(s, n) /\ \A k \in 1..2 : k > n => k > at[s] \/ k = at[s]
    BY Bounds
  <1> HIDE DEF n
  <1>2. /\ TypeOK /\ Found(s, "WINDOW") # {} /\ UNCHANGED <<ledger, state, job, gone, lock>>
        /\ "start" \in Places \ {"idle", "append"}
    BY DEF IInv, Session, Based, host, paper, Places
  <1>3. pc'[s] = "start" /\ at'[s] = n /\ read'[s] = read[s] /\ \A e : ~Says(s, e)'
    BY <1>1, <1>2, GoOwn
  <1>4. Baseline(s)' = Baseline(s)
    BY <1>2, <1>3, Same, Reading
  <1>5. \A k \in 1..2 : k > n => Settled(s, Units[k])
    BY <1>1 DEF Undisturbed
  <1>6. \A k \in 1..2 : k > n => Settled(s, Units[k])'
    BY <1>2, <1>4, <1>5 DEF Settled, Dead, Units
  <1> QED  BY <1>3, <1>6 DEF Undisturbed

LEMMA ObserveQuiet ==
  ASSUME IInv, NEW s \in Sessions, ObserveJob(s), Undisturbed(s)
  PROVE  Undisturbed(s)'
  <1>1. TypeOK /\ pc[s] = "await" /\ Busy(s) /\ UNCHANGED <<host, paper, lock>>
    BY DEF ObserveJob, IInv, Busy, Calling
  <1>2. /\ Pending(s)[1] \in {"start", "stop"} /\ Pending(s)[2] = Units[at[s]] /\ at[s] \in 1..2
        /\ Pending(s)[1] = "start" => Units[at[s]] \in Baseline(s)
    BY <1>1, BusyFacts
  <1>3. CASE Pending(s)[1] = "stop"
    <2>1. pc'[s] = "stop"
      BY <1>1, <1>3, SessionTypes DEF ObserveJob, Goto
    <2> QED  BY <2>1, ElsewhereQuiet DEF Calling
  <1>4. CASE Pending(s)[1] = "start"
    <2>1. Starting(s)
      BY <1>1, <1>4 DEF Starting, Asks
    <2>2. /\ job[Units[at[s]]] = "none" /\ state[Units[at[s]]] = "active"
          /\ Step(s, at[s] - 1) /\ Goto(s, "start")
      BY <1>2, <1>4 DEF ObserveJob
    <2>3. Settled(s, Units[at[s]])
      BY <1>2, <1>4, <2>2 DEF Settled
    <2> QED  BY <1>1, <1>2, <2>1, <2>2, <2>3, OnQuiet
  <1> QED  BY <1>2, <1>3, <1>4

LEMMA PassQuiet ==
  ASSUME IInv, NEW s \in Sessions, PassStart(s), Undisturbed(s)
  PROVE  Undisturbed(s)'
  <1>1. /\ Starting(s) /\ at[s] \in 0..2 /\ at[s] > 0 /\ Step(s, at[s] - 1) /\ Goto(s, "start")
        /\ UNCHANGED <<host, paper, lock>>
    BY DEF PassStart, Starting, IInv, Session, Placed
  <1>2. at[s] \in 1..2
    BY <1>1
  <1>3. Settled(s, Units[at[s]])
    BY DEF PassStart, Steady, Dead, Settled
  <1> QED  BY <1>1, <1>2, <1>3, OnQuiet

\* The session that takes the step.
LEMMA StepQuiet ==
  ASSUME IInv, NEW s \in Sessions, SessionStep(s), Undisturbed(s)
  PROVE  Undisturbed(s)'
  <1>1. TypeOK /\ pc \in [Sessions -> Places]
    BY SessionTypes DEF IInv
  <1>2. CASE Call(s) \/ ObserveJob(s) \/ PassStart(s)
    BY <1>2, CallQuiet, ObserveQuiet, PassQuiet
  <1>3. CASE OpenWindow(s) \/ StopUnit(s) \/ RecordJob(s) \/ Intend(s) \/ RecordApplied(s) \/ Accept(s)
             \/ ReconcileUnit(s) \/ ReadbackRecord(s) \/ StartUnit(s) \/ Restored(s)
    <2>1. Held(s)
      BY <1>3, WindowKeeps, StopKeeps, JobKeeps, IntendKeeps, AppliedKeeps, AcceptKeeps, UnitReconcileKeeps,
         ReadbackRecordKeeps, StartKeeps, RestoredKeeps
    <2> QED  BY <2>1, HeldQuiet
  <1>4. CASE AppendRecord(s)
    <2>1. CASE draft[s].to = "idle"
      <3>1. pc'[s] = "idle"
        BY <1>1, <1>4, <2>1 DEF AppendRecord, End, Leave, Forget
      <3> QED  BY <3>1, ElsewhereQuiet DEF Calling
    <2>2. CASE draft[s].to # "idle"
      BY <1>4, <2>2, AppendHolds, HeldQuiet
    <2> QED  BY <2>1, <2>2
  <1>5. CASE AfterReadback(s) /\ ~End(s)
    <2>1. pc[s] = "readback" /\ (at[s] > MaxObject \/ SkipReadback(s)) /\ Restoring(s) /\ Windowed(s)
          /\ Step(s, 2) /\ Goto(s, "start") /\ UNCHANGED <<host, paper, lock>>
      BY <1>5 DEF AfterReadback
    <2>2. at'[s] = 2
      BY <2>1, RestartKeeps
    <2>3. pc'[s] = "start"
      BY <1>1, <2>1 DEF Goto
    <2> QED  BY <2>2, <2>3 DEF Undisturbed, Says
  <1>6. CASE \/ InvokeNext(s) \/ Create(s) \/ CaptureBaseline(s) \/ TakeLock(s) \/ PassStop(s) \/ Examine(s)
             \/ Chown(s) \/ Verify(s) \/ ReadbackPass(s) \/ End(s) \/ TimeOut(s)
    <2>1. pc'[s] \notin Calling \cup {"start", "chown", "append"}
      <3>1. CASE InvokeNext(s) \/ Create(s)
        BY <1>1, <3>1 DEF InvokeNext, Invoke, Create, Goto, Enter, Calling
      <3>2. CASE CaptureBaseline(s) \/ TakeLock(s) \/ PassStop(s) \/ Examine(s)
        BY <1>1, <3>2 DEF CaptureBaseline, TakeLock, PassStop, Examine, Goto, Calling
      <3>3. CASE Chown(s) \/ Verify(s) \/ ReadbackPass(s) \/ End(s) \/ TimeOut(s)
        BY <1>1, <3>3 DEF Chown, Verify, ReadbackPass, End, TimeOut, Leave, Forget, Goto, Calling
      <3> QED  BY <1>6, <3>1, <3>2, <3>3
    <2> QED  BY <2>1, ElsewhereQuiet
  <1>7. Readback(s) => ReadbackPass(s) \/ ReadbackRecord(s)
    BY DEF Readback, ReadbackPass, ReadbackRecord
  <1>8. Tear(s) \/ AfterReconcile(s) \/ Halt(s) => End(s)
    BY DEF Tear, AfterReconcile, Halt
  <1> QED  BY <1>2, <1>3, <1>4, <1>5, <1>6, <1>7, <1>8 DEF SessionStep, InvokeNext

\* A settled unit is disturbed by no end of a job and by no exit; a unit that is
\* down stays so.
LEMMA HostQuiet ==
  ASSUME IInv, HostStep, gate = "closed", flying = {}, NEW u \in Unit, NEW s, Baseline(s)' = Baseline(s)
  PROVE  (Dead(u) => Dead(u)') /\ (Settled(s, u) => Settled(s, u)')
  <1>1. /\ state \in [Unit -> {"active", "inactive", "failed"}] /\ job \in [Unit -> {"none", "start", "stop"}]
    BY DEF IInv, TypeOK
  <1>2. ASSUME NEW v \in Unit, FinishJob(v)
        PROVE  (Dead(u) => Dead(u)') /\ (Settled(s, u) => Settled(s, u)')
    <2>1. PICK r \in Outcomes(v) : /\ state' = [state EXCEPT ![v] = r] /\ job' = [job EXCEPT ![v] = "none"]
                                   /\ gone' = IF job[v] = "stop" \/ r = "active" THEN gone \ {v} ELSE gone
                                   /\ job[v] # "none"
      BY <1>2 DEF FinishJob
    <2>2. CASE u = v
      BY <1>1, <2>1, <2>2 DEF Dead, Settled
    <2>3. CASE u # v
      <3>1. state'[u] = state[u] /\ job'[u] = job[u] /\ (u \in gone' <=> u \in gone)
        BY <1>1, <2>1, <2>3
      <3> QED  BY <3>1 DEF Dead, Settled
    <2> QED  BY <2>2, <2>3
  <1>3. ASSUME NEW v \in Unit, ServiceExit(v)
        PROVE  (Dead(u) => Dead(u)') /\ (Settled(s, u) => Settled(s, u)')
    <2>1. PICK r \in {"inactive", "failed"}, j \in {"none", "start"} :
             /\ state' = [state EXCEPT ![v] = r] /\ job' = [job EXCEPT ![v] = j]
             /\ state[v] = "active" /\ gone' = gone \cup {v}
      BY <1>3 DEF ServiceExit
    <2>2. CASE u = v
      BY <1>1, <2>1, <2>2 DEF Dead, Settled
    <2>3. CASE u # v
      <3>1. state'[u] = state[u] /\ job'[u] = job[u] /\ (u \in gone' <=> u \in gone)
        BY <1>1, <2>1, <2>3
      <3> QED  BY <3>1 DEF Dead, Settled
    <2> QED  BY <2>2, <2>3
  <1>4. ASSUME NEW v \in Unit, ClearFailure(v)
        PROVE  (Dead(u) => Dead(u)') /\ (Settled(s, u) => Settled(s, u)')
    <2>1. state[v] = "failed" /\ state' = [state EXCEPT ![v] = "inactive"] /\ UNCHANGED <<job, gone>>
      BY <1>4 DEF ClearFailure
    <2> QED  BY <1>1, <2>1 DEF Dead, Settled
  <1>5. CASE OpenGate
    BY <1>5 DEF OpenGate, Dead, Settled
  <1>6. /\ ~CloseGate /\ (\A o \in Object : ~OtherReplace(o))
        /\ \A v \in Unit : ~OtherRequest(v, "start") /\ ~OtherRequest(v, "stop")
    BY DEF CloseGate, OtherRequest, OtherReplace
  <1> QED  BY <1>2, <1>3, <1>4, <1>5, <1>6 DEF HostStep

LEMMA InitQuiet == Init => Quiet
  BY DEF Init, Quiet, Undisturbed, Starting, Asks, Busy, Says, Calling, Running

LEMMA NextQuiet == IInv /\ Quiet /\ [Next]_vars => Quiet'
  <1> SUFFICES ASSUME IInv, Quiet, [Next]_vars, strays' = 0
               PROVE  /\ flying' = {} /\ \A s, t \in Sessions : Running(s)' /\ Running(t)' => s = t
                      /\ \A s \in Sessions : Undisturbed(s)'
    BY DEF Quiet
  <1>1. TypeOK /\ strays \in Nat
    BY DEF IInv
  <1>2. ASSUME NEW t \in Sessions, pc'[t] = "idle"  PROVE Undisturbed(t)'
    BY <1>2, ElsewhereQuiet DEF Calling
  <1>3. CASE HostStep
    <2>1. /\ UNCHANGED <<ledger, book, lock, pc, at, cmd, base, read, draft, strays>>
          /\ \A s \in Sessions : Running(s) /\ gate = "closed" => gate' = gate
      BY <1>1, <1>3, HostShows
    <2>2. /\ strays = 0 /\ flying = {} /\ \A s, t \in Sessions : Running(s) /\ Running(t) => s = t
          /\ \A s \in Sessions : Undisturbed(s)
      BY <2>1 DEF Quiet
    <2>3. flying' = {}
      BY <1>3, <2>2 DEF HostStep, FinishJob, ServiceExit, ClearFailure, OtherRequest, OtherReplace, Land, OpenGate,
            CloseGate, Other, Rest
    <2>4. ASSUME NEW s \in Sessions  PROVE Undisturbed(s)'
      <3>1. CASE pc[s] = "idle"
        BY <1>2, <2>1, <3>1
      <3>2. CASE pc[s] # "idle"
        <4>1. gate = "closed" /\ gate' = gate
          BY <2>1, <3>2 DEF IInv, Session, Guarded, Running, Admitted
        <4>2. Found(s, "WINDOW")' = Found(s, "WINDOW") /\ Pending(s)' = Pending(s) /\ Baseline(s)' = Baseline(s)
          BY <2>1 DEF Found, Pending, Baseline
        <4>3. \A e : Says(s, e)' <=> Says(s, e)
          BY <2>1 DEF Says
        <4>4. Starting(s)' <=> Starting(s)
          BY <2>1, <4>2, <4>3 DEF Starting, Asks, Busy
        <4>5. Quiescent => Quiescent'
          BY <1>3, <2>2, <4>1, <4>2, HostQuiet DEF Quiescent, Admitted
        <4>6. \A k \in 1..2 : Settled(s, Units[k]) => Settled(s, Units[k])'
          <5> SUFFICES ASSUME NEW k \in 1..2, Settled(s, Units[k])  PROVE Settled(s, Units[k])'
            OBVIOUS
          <5>1. PICK u \in Unit : u = Units[k]
            BY UnitsFacts
          <5>2. Settled(s, u)'
            BY <1>3, <2>2, <4>1, <4>2, <5>1, HostQuiet
          <5>3. Units' = Units
            BY DEF Units
          <5> QED  BY <5>1, <5>2, <5>3
        <4> QED  BY <2>1, <2>2, <4>3, <4>4, <4>5, <4>6 DEF Undisturbed
      <3> QED  BY <3>1, <3>2
    <2> QED  BY <2>1, <2>2, <2>3, <2>4 DEF Running
  <1>4. ASSUME NEW s \in Sessions, SessionStep(s)
        PROVE  /\ flying' = {} /\ \A r, t \in Sessions : Running(r)' /\ Running(t)' => r = t
               /\ \A t \in Sessions : Undisturbed(t)'
    <2>1. Own(s)
      BY <1>4, StepKeeps
    <2>2. strays = 0 /\ flying' = flying /\ \A t \in Sessions : t # s => ~Running(t)
      <3>1. CASE InvokeNext(s)
        <4>1. strays' = strays + Beside(s) /\ UNCHANGED host
          BY <3>1 DEF InvokeNext, Invoke
        <4>2. strays = 0 /\ Beside(s) = 0
          BY <1>1, <4>1 DEF Beside
        <4> QED  BY <4>1, <4>2 DEF Beside, host
      <3>2. CASE TimeOut(s)
        BY <1>1, <3>2 DEF TimeOut
      <3>3. CASE ~InvokeNext(s) /\ ~TimeOut(s)
        <4>1. strays = 0 /\ flying' = flying
          BY <1>4, <3>3, Sparing DEF Call, Chown, Goto, used, host
        <4>2. Running(s)
          BY <1>4, <3>3, Runs
        <4> QED  BY <4>1, <4>2 DEF Quiet
      <3> QED  BY <3>1, <3>2, <3>3
    <2>3. flying = {} /\ Undisturbed(s)
      BY <2>2 DEF Quiet
    <2>4. \A t \in Sessions : t # s => pc'[t] = "idle"
      BY <2>1, <2>2 DEF Own, Apart, Running
    <2>5. Undisturbed(s)'
      BY <1>4, <2>3, StepQuiet
    <2> QED  BY <1>2, <2>2, <2>3, <2>4, <2>5 DEF Running
  <1>5. CASE UNCHANGED vars
    <2>1. strays = 0
      BY <1>5 DEF vars, used
    <2>2. /\ flying = {} /\ \A s, t \in Sessions : Running(s) /\ Running(t) => s = t
          /\ \A s \in Sessions : Undisturbed(s)
      BY <2>1 DEF Quiet
    <2>3. \A s \in Sessions : Held(s)
      BY <1>5 DEF Held, vars, paper, mind, Starting, Asks, Busy, Says, Pending, Baseline, Found
    <2>4. \A s \in Sessions : Undisturbed(s)'
      BY <2>2, <2>3, HeldQuiet
    <2> QED  BY <1>5, <2>2, <2>4 DEF vars, host, Running
  <1> QED  BY <1>3, <1>4, <1>5 DEF Next

LEMMA QuietInvariance == Spec => [](IInv /\ Quiet)
  <1>1. Init => IInv /\ Quiet
    BY InitIInv, InitQuiet
  <1>2. (IInv /\ Quiet) /\ [Next]_vars => (IInv /\ Quiet)'
    BY NextIInv, NextQuiet
  <1> QED  BY <1>1, <1>2, PTL DEF Spec

\* Until a command is invoked beside another or a call is cut off, an owner changes
\* only under the lock and over stopped units: no job that an earlier command left
\* starts one between the last look and the change.
THEOREM QuietChown == Spec => ChownIsQuiet
  <1>1. ASSUME IInv, Quiet, strays = 0, NEW s \in Sessions, pc[s] = "chown"
        PROVE  Closed(s)
    <2>1. lock = s
      BY <1>1 DEF IInv, Session, Guarded, Owns, Owning
    <2> QED  BY <1>1, <2>1 DEF Quiet, Undisturbed, Closed
  <1>2. (IInv /\ Quiet) /\ [Next]_vars =>
          [\A s \in Sessions, o \in Object :
             strays = 0 /\ pc[s] = "chown" /\ at[s] = o /\ owner'[o] # owner[o] /\ pc'[s] = "applied" => Closed(s)]_vars
    BY <1>1
  <1> QED  BY <1>2, QuietInvariance, PTL DEF Spec, ChownIsQuiet

\* Until a command is invoked beside another or a call is cut off, the ledger says
\* "restored" only when each unit of its baseline is up at rest, or has exited by
\* itself since it came up, and each other unit is down at rest.
THEOREM RestoredBaseline == Spec => RestoredIsBaseline
  <1>1. ASSUME IInv, Quiet, [Next]_vars, NEW i \in DOMAIN ledger' \ DOMAIN ledger,
               strays = 0, ledger'[i].event = "RESTORED"
        PROVE  \E w \in DOMAIN ledger :
                 /\ ledger[w].event = "WINDOW"
                 /\ \A u \in Unit :
                     IF u \in ledger[w].baseline THEN u \in gone \/ (state[u] = "active" /\ job[u] = "none")
                                                 ELSE Dead(u)
    <2>1. PICK s \in Sessions : AppendRecord(s) /\ ledger'[i] = draft[s].entry
      BY <1>1, Added
    <2>2. TypeOK /\ Session(s) /\ Undisturbed(s) /\ Says(s, "RESTORED")
      BY <1>1, <2>1 DEF IInv, Quiet, AppendRecord, Says
    <2>3. Starting(s) /\ Found(s, "WINDOW") # {}
      BY <2>2 DEF Starting, Session, Based
    <2>4. at[s] = 0
      BY <2>2 DEF Says, Session, Drafted, Drafts0
    <2>5. \A u \in Unit : Settled(s, u)
      <3>1. \A k \in 1..2 : k > 0
        OBVIOUS
      <3> QED  BY <2>2, <2>3, <2>4, <3>1, UnitsDiffer DEF Undisturbed
    <2> DEFINE w == Last(Found(s, "WINDOW"))
    <2>6. w \in DOMAIN ledger /\ ledger[w].event = "WINDOW" /\ ledger[w].baseline = Baseline(s)
      BY <2>2, <2>3, LastFound, LedgerFacts DEF Found, Baseline
    <2> HIDE DEF w
    <2> QED  BY <2>5, <2>6 DEF Settled
  <1>2. (IInv /\ Quiet) /\ [Next]_vars =>
          [\A i \in DOMAIN ledger' \ DOMAIN ledger : strays = 0 /\ ledger'[i].event = "RESTORED" =>
             \E w \in DOMAIN ledger :
               /\ ledger[w].event = "WINDOW"
               /\ \A u \in Unit :
                   IF u \in ledger[w].baseline THEN u \in gone \/ (state[u] = "active" /\ job[u] = "none")
                                               ELSE Dead(u)]_vars
    BY <1>1
  <1> QED  BY <1>2, QuietInvariance, PTL DEF Spec, RestoredIsBaseline
=============================================================================
