------------------------ MODULE RuntimeFindings_proofs ------------------------
(* Proofs about RuntimeFindings for any clients, limits and numbers of        *)
(* commands, edits, faults and kills.                                         *)
EXTENDS RuntimeFindings, FiniteSetTheorems, SequenceTheorems, WellFoundedInduction, TLAPS

Collecting == {"get", "save"}
Sending == {"post", "accept", "retry", "refuse"}

-----------------------------------------------------------------------------
(* The inductive invariant.                                                   *)

\* A collector that looks at a client holds both locks: no command is under way,
\* the journal takes a record, and the client is not one of a command.  A
\* delivery holds the journal with a report under way.
Locks ==
    \A p \in Proc :
        /\ pc[p] \in Collecting =>
             /\ outbox = p /\ node = p /\ command.step = "none"
             /\ Pending = {} /\ Len(journal) < MaxRecords
             /\ seen[p].client \in Foreign
        /\ pc[p] = "save" => seen[p].record \in Public
        /\ pc[p] \in Sending => outbox = p /\ Pending # {}

\* The attempt under way is on disk but not yet sent; an accepted report has
\* reached the SaaS.
Attempted ==
    \A p \in Proc, i \in Pending :
        /\ pc[p] = "post" => posts[i] < journal[i].attempts
        /\ pc[p] = "accept" => i \in server

\* Apart from the client of a command under way, config.json names what the
\* panel holds of the managed clients.
Agreement ==
    \A c \in Managed : command.step = "none" \/ command.client # c =>
        (c \in config <=> panel[c] # "absent")

\* How far that command has come.
HalfWay ==
    /\ command.step # "none" => command.client \in Managed
    /\ command.step \in {"config", "commit"} => (panel[command.client] # "absent" <=> command.adds)
    /\ command.step = "commit" => (command.client \in config <=> command.adds)

\* References count the journal's records.
References == \A i \in DOMAIN journal : journal[i].ref \in 1..Len(journal)

Papers == References /\ OneEnvelope /\ DeliveryIsBounded /\ ManagedIsNotReported
IInv == TypeOK /\ Locks /\ Attempted /\ Agreement /\ HalfWay /\ Papers

\* The two halves of the type invariant.
Points == {"idle", "connect", "get", "save", "post", "accept", "retry", "refuse"}
Sights == [client : Client \cup {0}, record : Record, names : SUBSET Client, config : SUBSET Managed]
HostOK ==
    /\ cursor \in 0..(Cycle - 1) /\ due \in BOOLEAN /\ litter \in Nat
    /\ outbox \in Proc \cup {"free"} /\ node \in Proc \cup {"cli", "free"}
    /\ config \subseteq Managed /\ panel \in [Client -> Record]
    /\ command.client \in Managed \cup {0} /\ command.adds \in BOOLEAN
    /\ command.step \in {"none", "panel", "config", "commit"}
    /\ pc \in [Proc -> Points] /\ seen \in [Proc -> Sights]
PaperOK ==
    /\ journal \in Seq(Records) /\ Len(journal) <= MaxRecords
    /\ server \subseteq DOMAIN journal /\ posts \in Seq(Nat) /\ Len(posts) = Len(journal)

LEMMA Halves == TypeOK <=> HostOK /\ PaperOK
  BY DEF TypeOK, HostOK, PaperOK, Points, Sights, Outcome
LEMMA HalvesNext == TypeOK' <=> HostOK' /\ PaperOK'
  BY DEF TypeOK, HostOK, PaperOK, Points, Sights, Outcome

-----------------------------------------------------------------------------
(* Operators.                                                                 *)

\* The least of some natural numbers exists.
LEMMA MinOf ==
  ASSUME NEW S \in SUBSET Nat, S # {}
  PROVE  Min(S) \in S /\ \A x \in S : Min(S) <= x
  <1>1. PICK d \in S : \A e \in S : ~(<<e, d>> \in OpToRel(<, Nat))
    BY NatLessThanWellFounded, WFMin
  <1>2. \A e \in S : e \in Nat /\ d \in Nat
    OBVIOUS
  <1>3. \A e \in S : ~(e < d)
    BY <1>1, <1>2 DEF OpToRel
  <1>4. \A e \in S : d <= e
    BY <1>2, <1>3
  <1>5. \E x \in S : \A y \in S : x =< y
    BY <1>4
  <1> QED  BY <1>5 DEF Min

\* In a finite set of numbers some element has exactly k below it, for each k
\* less than the cardinality.
LEMMA Ranked ==
  ASSUME NEW S \in SUBSET Nat, IsFiniteSet(S), NEW k \in 0..(Cardinality(S) - 1)
  PROVE  \E c \in S : Cardinality({d \in S : d < c}) = k
  <1> DEFINE below(c) == {d \in S : d < c}
             n == Cardinality(S)
             f == [c \in S |-> Cardinality(below(c))]
  <1>1. n \in Nat
    BY FS_CardinalityType
  <1>2. \A c \in S : IsFiniteSet(below(c)) /\ Cardinality(below(c)) \in 0..(n - 1)
    <2> SUFFICES ASSUME NEW c \in S
                 PROVE  IsFiniteSet(below(c)) /\ Cardinality(below(c)) \in 0..(n - 1)
      OBVIOUS
    <2>1. below(c) \in SUBSET S
      OBVIOUS
    <2>2. IsFiniteSet(below(c)) /\ Cardinality(below(c)) <= n /\ (n = Cardinality(below(c)) => S = below(c))
      BY <2>1, FS_Subset
    <2>3. c \notin below(c)
      OBVIOUS
    <2>4. Cardinality(below(c)) \in Nat
      BY <2>2, FS_CardinalityType
    <2> HIDE DEF below, n
    <2>5. Cardinality(below(c)) # n
      BY <2>2, <2>3
    <2> QED  BY <1>1, <2>2, <2>4, <2>5
  <1>3. \A a, b \in S : a < b => Cardinality(below(a)) < Cardinality(below(b))
    <2> SUFFICES ASSUME NEW a \in S, NEW b \in S, a < b
                 PROVE  Cardinality(below(a)) < Cardinality(below(b))
      OBVIOUS
    <2>1. below(a) \in SUBSET below(b) /\ a \in below(b) /\ a \notin below(a)
      <3>1. a \in Nat /\ b \in Nat /\ S \subseteq Nat
        OBVIOUS
      <3>2. \A d \in S : d < a => d < b
        BY <3>1
      <3>3. \A d \in below(a) : d \in below(b)
        BY <3>2
      <3>4. a \in below(b) /\ a \notin below(a)
        BY <3>1
      <3> HIDE DEF below
      <3> QED  BY <3>3, <3>4
    <2>2. IsFiniteSet(below(a)) /\ IsFiniteSet(below(b))
      BY <1>2
    <2> HIDE DEF below, n
    <2>3. /\ Cardinality(below(a)) <= Cardinality(below(b))
          /\ Cardinality(below(b)) = Cardinality(below(a)) => below(b) = below(a)
      BY <2>1, <2>2, FS_Subset
    <2>4. Cardinality(below(a)) \in Nat /\ Cardinality(below(b)) \in Nat
      BY <2>2, FS_CardinalityType
    <2>5. Cardinality(below(a)) # Cardinality(below(b))
      BY <2>1, <2>3
    <2> QED  BY <2>3, <2>4, <2>5
  <1>4. f \in [S -> 0..(n - 1)]
    BY <1>2
  <1>5. \A a, b \in S : f[a] = f[b] => a = b
    <2> SUFFICES ASSUME NEW a \in S, NEW b \in S, f[a] = f[b]  PROVE a = b
      OBVIOUS
    <2>1. f[a] = Cardinality(below(a)) /\ f[b] = Cardinality(below(b))
      OBVIOUS
    <2>2. Cardinality(below(a)) \in Nat /\ Cardinality(below(b)) \in Nat
      BY <1>1, <1>2
    <2>3. a \in Nat /\ b \in Nat
      OBVIOUS
    <2> DEFINE x == Cardinality(below(a))
               y == Cardinality(below(b))
    <2>4. x = y /\ x \in Nat /\ y \in Nat /\ (a < b => x < y) /\ (b < a => y < x)
      BY <1>3, <2>1, <2>2
    <2> HIDE DEF x, y
    <2>5. ~(a < b) /\ ~(b < a)
      BY <2>4
    <2> QED  BY <2>3, <2>5
  <1> HIDE DEF below, f, n
  <1>6. IsFiniteSet(0..(n - 1)) /\ Cardinality(0..(n - 1)) = n
    <2>1. 0 \in Int /\ n - 1 \in Int
      BY <1>1
    <2>2. IsFiniteSet(0..(n - 1)) /\ Cardinality(0..(n - 1)) = IF 0 > n - 1 THEN 0 ELSE (n - 1) - 0 + 1
      BY <2>1, FS_Interval
    <2> QED  BY <1>1, <2>2
  <1>7. f \in Injection(S, 0..(n - 1))
    BY <1>4, <1>5 DEF Injection, IsInjective
  <1>8. f \in Surjection(S, 0..(n - 1))
    BY <1>6, <1>7, FS_Injection DEF n
  <1>9. k \in 0..(n - 1)
    BY DEF n
  <1>10. PICK c \in S : f[c] = k
    BY <1>8, <1>9 DEF Surjection
  <1> QED  BY <1>10 DEF f, below

\* With no command under way the candidates are foreign, and the cursor, whatever
\* it is, chooses one of them.
LEMMA ChosenIsForeign ==
  ASSUME HostOK, Agreement, command.step = "none", Candidates # {}
  PROVE  Candidates \subseteq Foreign /\ Chosen \in Candidates
  <1>1. Candidates \subseteq Client /\ \A c \in Candidates : panel[c] # "absent" /\ c \notin config
    BY DEF Candidates, Names
  <1>2. Candidates \subseteq Foreign
    BY <1>1 DEF Agreement, Client
  <1>3. Candidates \in SUBSET Nat /\ IsFiniteSet(Candidates)
    BY <1>1, ClientAssumption, FS_Subset DEF Client
  <1>4. Cardinality(Candidates) \in Nat /\ Cardinality(Candidates) # 0
    BY <1>3, FS_CardinalityType, FS_EmptySet
  <1>5. cursor \in Nat
    BY CycleAssumption DEF HostOK
  <1>6. cursor % Cardinality(Candidates) \in 0..(Cardinality(Candidates) - 1)
    BY <1>4, <1>5
  <1>7. \E c \in Candidates : Cardinality({d \in Candidates : d < c}) = cursor % Cardinality(Candidates)
    BY <1>3, <1>6, Ranked
  <1> QED  BY <1>2, <1>7 DEF Chosen

LEMMA PendingFacts ==
  /\ Pending \subseteq DOMAIN journal
  /\ \A i \in DOMAIN journal : i \in Pending <=> journal[i].phase \in {"PENDING", "IN_FLIGHT"}
  BY DEF Pending, Phase

\* The report under way is the pending one.
LEMMA CurrentFacts ==
  ASSUME PaperOK, Pending # {}
  PROVE  Current \in Pending /\ Current \in DOMAIN journal /\ journal[Current] \in Records
  <1>1. DOMAIN journal = 1..Len(journal) /\ Len(journal) \in Nat
    BY DEF PaperOK
  <1>2. Pending \in SUBSET Nat
    BY <1>1, PendingFacts
  <1>3. Current \in Pending
    BY <1>2, MinOf DEF Current
  <1>4. Current \in 1..Len(journal)
    BY <1>1, <1>3, PendingFacts
  <1> QED  BY <1>1, <1>3, <1>4, ElementOfSeq DEF PaperOK

\* Only one report is pending.
LEMMA OnlyCurrent ==
  ASSUME PaperOK, OneEnvelope, Pending # {}
  PROVE  \A i \in Pending : i = Current
  BY CurrentFacts, PendingFacts DEF OneEnvelope

\* A report keeps its baseline and its reference when its state is rewritten.
LEMMA Rewritten ==
  ASSUME PaperOK, References, OneEnvelope, ManagedIsNotReported,
         NEW i \in Pending, NEW r \in Records,
         r.baseline = journal[i].baseline, r.ref = journal[i].ref,
         journal' = [journal EXCEPT ![i] = r]
  PROVE  /\ journal' \in Seq(Records) /\ Len(journal') = Len(journal)
         /\ DOMAIN journal' = DOMAIN journal
         /\ journal'[i] = r /\ \A j \in DOMAIN journal : j # i => journal'[j] = journal[j]
         /\ Pending' \subseteq Pending
         /\ References' /\ OneEnvelope' /\ ManagedIsNotReported'
  <1>1. i \in 1..Len(journal) /\ DOMAIN journal = 1..Len(journal)
    BY PendingFacts DEF PaperOK
  <1>2. journal' \in Seq(Records) /\ Len(journal') = Len(journal)
    BY <1>1, ExceptSeq DEF PaperOK
  <1>3. DOMAIN journal' = DOMAIN journal
    BY <1>1, <1>2
  <1>4. journal'[i] = r /\ \A j \in DOMAIN journal : j # i => journal'[j] = journal[j]
    BY <1>1
  <1>5. \A j \in DOMAIN journal : journal'[j].baseline = journal[j].baseline /\ journal'[j].ref = journal[j].ref
    BY <1>4
  <1>6. Pending' \subseteq Pending
    BY <1>3, <1>4, PendingFacts DEF Pending, Phase
  <1>7. References'
    BY <1>2, <1>3, <1>5 DEF References
  <1>8. ManagedIsNotReported'
    BY <1>3, <1>5 DEF ManagedIsNotReported
  <1>9. OneEnvelope'
    <2> SUFFICES ASSUME NEW j \in DOMAIN journal', NEW k \in DOMAIN journal'
                 PROVE  /\ journal'[j].baseline = journal'[k].baseline => j = k
                        /\ journal'[j].baseline.client = journal'[k].baseline.client
                             <=> journal'[j].ref = journal'[k].ref
                        /\ j \in Pending' /\ k \in Pending' => j = k
      BY DEF OneEnvelope
    <2> QED  BY <1>3, <1>5, <1>6 DEF OneEnvelope
  <1> QED  BY <1>1, <1>2, <1>3, <1>4, <1>6, <1>7, <1>8, <1>9

\* Journals of the same records are as sound, whatever else changes.
LEMMA PapersFrame ==
  ASSUME UNCHANGED <<journal, server, posts>>
  PROVE  /\ PaperOK => PaperOK'
         /\ Papers => Papers'
         /\ Pending' = Pending /\ Blocked' = Blocked
  <1>1. Pending' = Pending /\ Blocked' = Blocked
    BY DEF Pending, Blocked, Phase
  <1>2. PaperOK => PaperOK'
    BY DEF PaperOK
  <1>3. OneEnvelope => OneEnvelope'
    BY <1>1 DEF OneEnvelope
  <1> QED  BY <1>1, <1>2, <1>3 DEF Papers, References, DeliveryIsBounded, ManagedIsNotReported

LEMMA NothingSeen == Nothing \in Sights
  BY DEF Nothing, Sights, Record

\* The end of a cycle.
LEMMA Ended ==
  ASSUME HostOK, NEW p \in Proc, NEW l \in {"idle", "connect"}, End(p, l)
  PROVE  /\ pc' \in [Proc -> Points] /\ seen' \in [Proc -> Sights]
         /\ outbox' \in Proc \cup {"free"} /\ node' \in Proc \cup {"cli", "free"}
         /\ pc'[p] = l /\ \A q \in Proc : q # p => pc'[q] = pc[q] /\ seen'[q] = seen[q]
         /\ outbox' = (IF outbox = p THEN "free" ELSE outbox)
         /\ node' = (IF node = p THEN "free" ELSE node)
  <1>1. l \in Points
    BY DEF Points
  <1> QED  BY <1>1, NothingSeen DEF HostOK, End, Goto

LEMMA EndedEither ==
  ASSUME NEW p
  PROVE  /\ Failed(p) => End(p, "idle")
         /\ Passed(p) => \E l \in {"idle", "connect"} : End(p, l)
  BY DEF Failed, Passed

LEMMA EndedType ==
  ASSUME HostOK, NEW p \in Proc, Failed(p) \/ Passed(p)
  PROVE  /\ pc' \in [Proc -> Points] /\ seen' \in [Proc -> Sights]
         /\ outbox' \in Proc \cup {"free"} /\ node' \in Proc \cup {"cli", "free"}
  <1>1. PICK l \in {"idle", "connect"} : End(p, l)
    BY EndedEither
  <1> QED  BY <1>1, Ended

-----------------------------------------------------------------------------
(* The types are kept.                                                        *)

LEMMA StartType ==
  ASSUME HostOK, Agreement, NEW p \in Proc, Start(p)
  PROVE  HostOK'
  <1> DEFINE Kept == UNCHANGED <<journal, litter, config, command, panel, server, posts>>
             Ended1 == Failed(p) \/ Passed(p)
             Turn == cursor' \in 0..(Cycle - 1) /\ due' \in BOOLEAN
  <1>1. Kept
    BY DEF Start, live, central
  <1>2. CASE Ended1 /\ Turn
    <2>1. pc' \in [Proc -> Points] /\ seen' \in [Proc -> Sights]
          /\ outbox' \in Proc \cup {"free"} /\ node' \in Proc \cup {"cli", "free"}
      BY <1>2, EndedType
    <2> QED  BY <1>1, <1>2, <2>1 DEF HostOK
  <1>3. ScheduleNext => Turn
    <2>1. cursor \in Nat /\ Cycle \in Nat /\ Cycle > 0
      BY CycleAssumption DEF HostOK
    <2>2. (cursor + 1) % Cycle \in 0..(Cycle - 1)
      BY <2>1
    <2> QED  BY <2>2 DEF ScheduleNext
  <1>4. UNCHANGED <<cursor, due>> => Turn
    BY DEF HostOK
  <1>5. CASE Refused \/ Blocked # {} \/ Pending # {}
    <2>1. Ended1 /\ UNCHANGED <<cursor, due>>
      BY <1>5 DEF Start
    <2> QED  BY <1>2, <1>4, <2>1
  <1>6. CASE ~Refused /\ Blocked = {} /\ Pending = {}
    <2>1. Collect(p)
      BY <1>6 DEF Start
    <2>2. CASE ~due
      <3>1. Ended1 /\ UNCHANGED <<cursor, due>>
        BY <2>1, <2>2 DEF Collect
      <3> QED  BY <1>2, <1>4, <3>1
    <2>3. CASE due /\ Ended1
      <3>1. ScheduleNext
        BY <2>1, <2>3 DEF Collect
      <3> QED  BY <1>2, <1>3, <2>3, <3>1
    <2>4. CASE due /\ ~Ended1
      <3>1. /\ MayEnter /\ Candidates # {} /\ node' = p /\ Go(p, "get") /\ ScheduleNext
            /\ seen' = [seen EXCEPT ![p] = [client |-> Chosen, record |-> "absent",
                                            names |-> Names, config |-> config]]
        BY <2>1, <2>4 DEF Collect
      <3>2. Chosen \in Client
        BY <3>1, ChosenIsForeign DEF MayEnter, Client
      <3>3. Names \subseteq Client /\ config \subseteq Managed
        BY DEF Names, HostOK
      <3>4. [client |-> Chosen, record |-> "absent", names |-> Names, config |-> config] \in Sights
        BY <3>2, <3>3 DEF Sights, Record
      <3>5. seen' \in [Proc -> Sights]
        BY <3>1, <3>4 DEF HostOK
      <3>6. pc' \in [Proc -> Points] /\ outbox' = p
        BY <3>1 DEF HostOK, Go, Goto, Points
      <3> QED  BY <1>1, <1>3, <3>1, <3>5, <3>6 DEF HostOK
    <2> QED  BY <2>2, <2>3, <2>4 DEF HostOK
  <1> QED  BY <1>5, <1>6

\* What the second look of a collector finds.
LEMMA GetFacts ==
  ASSUME HostOK, Locks, NEW p \in Proc, Get(p), ~Failed(p), ~Passed(p)
  PROVE  /\ pc' = [pc EXCEPT ![p] = "save"] /\ UNCHANGED <<outbox, node>>
         /\ seen' = [seen EXCEPT ![p].record = panel[seen[p].client]]
         /\ seen[p] \in Sights /\ seen[p].client \in Foreign
         /\ panel[seen[p].client] \in Public
  <1>1. pc[p] = "get" /\ seen[p] \in Sights
    BY DEF Get, HostOK
  <1>2. seen[p].client \in Foreign
    BY <1>1 DEF Locks, Collecting
  <1>3. panel[seen[p].client] \in Record
    BY <1>2 DEF HostOK, Client
  <1>4. /\ panel[seen[p].client] \notin {"absent", "off", "odd"}
        /\ ~Mentioned(KeyEcho, seen[p].client, seen[p].config)
    <2> DEFINE r == panel[seen[p].client]
               echoed == Mentioned(KeyEcho, seen[p].client, seen[p].config)
    <2>1. r \notin {"absent", "off", "odd"}
      BY DEF Get
    <2>2. ~(r \in Public /\ echoed)
      BY <2>1 DEF Get, Public
    <2> QED  BY <1>3, <2>1, <2>2 DEF Record, Public
  <1>5. /\ pc' = [pc EXCEPT ![p] = "save"] /\ UNCHANGED <<outbox, node>>
        /\ seen' = [seen EXCEPT ![p].record = panel[seen[p].client]]
    BY <1>4 DEF Get, Goto
  <1> QED  BY <1>1, <1>2, <1>3, <1>4, <1>5 DEF Record, Public

LEMMA GetType ==
  ASSUME HostOK, Locks, NEW p \in Proc, Get(p)
  PROVE  HostOK'
  <1>1. UNCHANGED <<cursor, due, litter, config, command, panel>>
    BY DEF Get, durable, live
  <1>2. CASE Failed(p) \/ Passed(p)
    BY <1>1, <1>2, EndedType DEF HostOK
  <1>3. CASE ~(Failed(p) \/ Passed(p))
    <2>1. /\ pc' = [pc EXCEPT ![p] = "save"] /\ UNCHANGED <<outbox, node>>
          /\ seen' = [seen EXCEPT ![p].record = panel[seen[p].client]]
          /\ seen[p] \in Sights /\ panel[seen[p].client] \in Public
      BY <1>3, GetFacts
    <2>2. [seen[p] EXCEPT !.record = panel[seen[p].client]] \in Sights
      BY <2>1 DEF Sights, Public, Record
    <2>3. seen' = [seen EXCEPT ![p] = [seen[p] EXCEPT !.record = panel[seen[p].client]]]
      BY <2>1
    <2>4. seen' \in [Proc -> Sights]
      BY <2>2, <2>3 DEF HostOK
    <2>5. pc' \in [Proc -> Points]
      BY <2>1 DEF HostOK, Points
    <2> QED  BY <1>1, <2>1, <2>4, <2>5 DEF HostOK
  <1> QED  BY <1>2, <1>3

LEMMA DeliveryType ==
  ASSUME HostOK, NEW p \in Proc, Save(p) \/ Deliver(p) \/ Settle(p)
  PROVE  HostOK'
  <1>1. UNCHANGED <<cursor, due, litter, config, command, panel>>
    BY DEF Save, Deliver, Settle, live
  <1>2. CASE Failed(p) \/ Passed(p)
    BY <1>1, <1>2, EndedType DEF HostOK
  <1>3. CASE ~(Failed(p) \/ Passed(p))
    <2>1. Deliver(p) /\ Attempt /\ Go(p, "post") /\ UNCHANGED <<node, seen>>
      BY <1>3 DEF Save, Deliver, Settle, Send
    <2>2. pc' \in [Proc -> Points] /\ outbox' = p
      BY <2>1 DEF HostOK, Go, Goto, Points
    <2> QED  BY <1>1, <2>1, <2>2 DEF HostOK
  <1> QED  BY <1>2, <1>3

LEMMA PostType ==
  ASSUME HostOK, NEW p \in Proc, Post(p)
  PROVE  HostOK'
  <1>1. UNCHANGED <<cursor, due, litter, config, command, panel, outbox, node, seen>>
    BY DEF Post, durable, live
  <1>2. \E l \in {"accept", "retry", "refuse"} : pc' = [pc EXCEPT ![p] = l]
    BY DEF Post, Goto
  <1>3. pc' \in [Proc -> Points]
    BY <1>2 DEF HostOK, Points
  <1> QED  BY <1>1, <1>3 DEF HostOK

LEMMA KillType ==
  ASSUME HostOK, NEW p \in Proc, Kill(p)
  PROVE  HostOK'
  <1>1. UNCHANGED <<cursor, due, config, command, panel>> /\ Failed(p)
    BY DEF Kill, live
  <1>2. litter' \in Nat
    BY DEF Kill, HostOK
  <1> QED  BY <1>1, <1>2, EndedType DEF HostOK

LEMMA HostStepType ==
  ASSUME HostOK, HalfWay,
         \/ Tick \/ CommandStep \/ Interrupt
         \/ \E c \in Managed : Begin(c)
         \/ \E c \in Foreign, r \in Record : Edit(c, r)
  PROVE  HostOK'
  <1>1. UNCHANGED <<cursor, litter, outbox, pc, seen>>
    BY DEF Tick, CommandStep, ChangePanel, InstallConfig, Commit, RollBack, Interrupt, Begin, Edit,
           durable, live, process
  <1>2. CASE Tick
    BY <1>1, <1>2 DEF Tick, HostOK, live
  <1>3. CASE ChangePanel
    BY <1>1, <1>3 DEF ChangePanel, HostOK, HalfWay, Step, durable, Record, Client
  <1>4. CASE InstallConfig
    BY <1>1, <1>4 DEF InstallConfig, HostOK, HalfWay, Step, durable
  <1>5. CASE Commit
    BY <1>1, <1>5 DEF Commit, HostOK, NoCommand, durable
  <1>6. CASE RollBack
    BY <1>1, <1>6 DEF RollBack, HostOK, HalfWay, NoCommand, durable, Record, Client
  <1>7. CASE Interrupt
    BY <1>1, <1>7 DEF Interrupt, HostOK, durable, live
  <1>8. CASE \E c \in Managed : Begin(c)
    BY <1>1, <1>8 DEF Begin, HostOK, durable
  <1>9. CASE \E c \in Foreign, r \in Record : Edit(c, r)
    BY <1>1, <1>9 DEF Edit, HostOK, durable
  <1> QED  BY <1>2, <1>3, <1>4, <1>5, <1>6, <1>7, <1>8, <1>9 DEF CommandStep

LEMMA TypeStep ==
  ASSUME IInv, [Next]_vars
  PROVE  HostOK'
  <1> USE Halves DEF IInv
  <1>1. CASE UNCHANGED vars
    BY <1>1 DEF vars, durable, live, process, central, HostOK
  <1>2. CASE \E p \in Proc : Start(p) \/ CycleStep(p) \/ Kill(p)
    BY <1>2, StartType, GetType, DeliveryType, PostType, KillType DEF CycleStep
  <1>3. CASE ~(\E p \in Proc : Start(p) \/ CycleStep(p) \/ Kill(p)) /\ Next
    BY <1>3, HostStepType DEF Next
  <1> QED  BY <1>1, <1>2, <1>3

-----------------------------------------------------------------------------
(* What config.json names and what the panel holds.                           *)

Steady == UNCHANGED <<config, command, panel>>

LEMMA AgreementFrame ==
  ASSUME Steady
  PROVE  (Agreement => Agreement') /\ (HalfWay => HalfWay')
  BY DEF Steady, Agreement, HalfWay

\* The cycles leave it alone.
LEMMA CyclesAreSteady ==
  ASSUME (\E p \in Proc : Start(p) \/ CycleStep(p) \/ Kill(p)) \/ Tick \/ Interrupt
  PROVE  Steady
  BY DEF Steady, CycleStep, Start, Get, Save, Deliver, Post, Settle, Kill, Tick, Interrupt, live

LEMMA CommandAgrees ==
  ASSUME HostOK, Agreement, HalfWay,
         \/ CommandStep
         \/ \E c \in Managed : Begin(c)
         \/ \E c \in Foreign, r \in Record : Edit(c, r)
  PROVE  Agreement' /\ HalfWay'
  <1>1. panel \in [Client -> Record] /\ config \subseteq Managed /\ Managed \subseteq Client
    BY DEF HostOK, Client
  <1>2. CASE ChangePanel
    <2>1. /\ command.step = "panel" /\ config' = config
          /\ panel' = [panel EXCEPT ![command.client] = IF command.adds THEN "A" ELSE "absent"]
          /\ command' = [command EXCEPT !.step = "config"]
      BY <1>2 DEF ChangePanel, Step
    <2>2. command.client \in Managed
      BY <2>1 DEF HalfWay
    <2>3. command'.step = "config" /\ command'.client = command.client /\ command'.adds = command.adds
      BY <2>1 DEF HostOK
    <2>4. panel'[command.client] # "absent" <=> command.adds
      BY <1>1, <2>1, <2>2 DEF HostOK
    <2>5. \A c \in Managed : c # command.client => panel'[c] = panel[c]
      BY <1>1, <2>1
    <2> QED  BY <2>1, <2>2, <2>3, <2>4, <2>5 DEF Agreement, HalfWay
  <1>3. CASE InstallConfig
    <2>1. /\ command.step = "config" /\ panel' = panel
          /\ config' = IF command.adds THEN config \cup {command.client} ELSE config \ {command.client}
          /\ command' = [command EXCEPT !.step = "commit"]
      BY <1>3 DEF InstallConfig, Step
    <2>2. command.client \in Managed /\ (panel[command.client] # "absent" <=> command.adds)
      BY <2>1 DEF HalfWay
    <2>3. command'.step = "commit" /\ command'.client = command.client /\ command'.adds = command.adds
      BY <2>1 DEF HostOK
    <2>4. command.client \in config' <=> command.adds
      BY <2>1 DEF HostOK
    <2>5. \A c \in Managed : c # command.client => (c \in config' <=> c \in config)
      BY <2>1
    <2> QED  BY <2>1, <2>2, <2>3, <2>4, <2>5 DEF Agreement, HalfWay
  <1>4. CASE Commit
    <2>1. command.step = "commit" /\ command' = NoCommand /\ UNCHANGED <<config, panel>>
      BY <1>4 DEF Commit
    <2>2. command.client \in config <=> panel[command.client] # "absent"
      BY <2>1 DEF HalfWay
    <2> QED  BY <2>1, <2>2 DEF Agreement, HalfWay, NoCommand
  <1>5. CASE RollBack
    <2> DEFINE c == command.client
    <2>1. /\ command.step # "none" /\ command' = NoCommand
          /\ panel' = [panel EXCEPT ![c] = IF command.adds THEN "absent" ELSE "A"]
          /\ config' = IF command.adds THEN config \ {c} ELSE config \cup {c}
      BY <1>5 DEF RollBack
    <2>2. c \in Managed
      BY <2>1 DEF HalfWay
    <2>3. c \in config' <=> panel'[c] # "absent"
      BY <1>1, <2>1, <2>2
    <2>4. \A d \in Managed : d # c => (d \in config' <=> d \in config) /\ panel'[d] = panel[d]
      BY <1>1, <2>1
    <2> QED  BY <2>1, <2>3, <2>4 DEF Agreement, HalfWay, NoCommand
  <1>6. CASE \E c \in Managed : Begin(c)
    <2>1. PICK c \in Managed : Begin(c)
      BY <1>6
    <2>2. /\ command.step = "none" /\ UNCHANGED <<config, panel>>
          /\ command'.step = "panel" /\ command'.client = c
      BY <2>1 DEF Begin
    <2> QED  BY <2>2 DEF Agreement, HalfWay
  <1>7. CASE \E c \in Foreign, r \in Record : Edit(c, r)
    <2>1. PICK c \in Foreign, r \in Record : Edit(c, r)
      BY <1>7
    <2>2. UNCHANGED <<config, command>> /\ \A d \in Managed : panel'[d] = panel[d]
      BY <1>1, <2>1, ClientAssumption DEF Edit
    <2> QED  BY <2>2 DEF Agreement, HalfWay
  <1> QED  BY <1>2, <1>3, <1>4, <1>5, <1>6, <1>7 DEF CommandStep

LEMMA AgreementStep ==
  ASSUME IInv, [Next]_vars
  PROVE  Agreement' /\ HalfWay'
  <1>1. CASE UNCHANGED vars
    BY <1>1, AgreementFrame DEF IInv, vars, live, Steady
  <1>2. CASE Steady
    BY <1>2, AgreementFrame DEF IInv
  <1>3. CASE ~Steady /\ Next
    BY <1>3, CyclesAreSteady, CommandAgrees, Halves DEF IInv, Next
  <1> QED  BY <1>1, <1>2, <1>3

-----------------------------------------------------------------------------
(* The journal.                                                               *)

\* Both locks exclude: who holds the journal is alone with it.
LEMMA Alone ==
  ASSUME Locks, NEW p \in Proc, outbox \in {p, "free"}, NEW q \in Proc, q # p
  PROVE  pc[q] \notin Collecting /\ pc[q] \notin Sending
  BY DEF Locks, Proc

\* A new report has a reference of its own, or that of its client.
LEMMA ReferenceFacts ==
  ASSUME PaperOK, References, OneEnvelope, NEW c
  PROVE  /\ Reference(c) \in 1..(Len(journal) + 1)
         /\ \A i \in DOMAIN journal : journal[i].baseline.client = c <=> journal[i].ref = Reference(c)
  <1> DEFINE related == {i \in DOMAIN journal : journal[i].baseline.client = c}
  <1>1. DOMAIN journal = 1..Len(journal) /\ Len(journal) \in Nat
    BY DEF PaperOK
  <1>2. CASE related = {}
    <2>1. Reference(c) = Len(journal) + 1
      BY <1>2 DEF Reference
    <2>2. \A i \in DOMAIN journal : journal[i].ref # Len(journal) + 1
      BY <1>1 DEF References
    <2> QED  BY <1>1, <1>2, <2>1, <2>2
  <1>3. CASE related # {}
    <2>1. related \in SUBSET Nat
      BY <1>1
    <2>2. Min(related) \in related
      <3> HIDE DEF related
      <3> QED  BY <1>3, <2>1, MinOf
    <2>3. Reference(c) = journal[Min(related)].ref
      BY <1>3 DEF Reference
    <2>4. PICK m \in DOMAIN journal : Reference(c) = journal[m].ref /\ journal[m].baseline.client = c
      BY <2>2, <2>3
    <2> QED  BY <1>1, <2>4 DEF References, OneEnvelope
  <1> QED  BY <1>2, <1>3

LEMMA SavePapers ==
  ASSUME HostOK, PaperOK, Locks, Papers, NEW p \in Proc, Save(p)
  PROVE  PaperOK' /\ Papers'
  <1>1. CASE UNCHANGED <<journal, posts>>
    BY <1>1, PapersFrame DEF Save
  <1>2. CASE ~UNCHANGED <<journal, posts>>
    <2> DEFINE b == seen[p]
               r == Report(b)
               n == Len(journal)
    <2>1. /\ journal' = Append(journal, r) /\ posts' = Append(posts, 0)
          /\ server' = server /\ ~Known(b)
      BY <1>2 DEF Save
    <2>2. pc[p] = "save" /\ b \in Sights
      BY DEF Save, HostOK
    <2>3. b.client \in Foreign /\ b.record \in Public /\ Pending = {} /\ n < MaxRecords
      BY <2>2 DEF Locks, Collecting
    <2>4. b \in Baseline
      BY <2>2, <2>3 DEF Sights, Baseline, Client
    <2>5. n \in Nat /\ DOMAIN journal = 1..n
      BY DEF PaperOK
    <2>6. /\ Reference(b.client) \in 1..(n + 1)
          /\ \A i \in DOMAIN journal : journal[i].baseline.client = b.client <=> journal[i].ref = Reference(b.client)
      BY ReferenceFacts DEF Papers
    <2>7. /\ r \in Records /\ r.baseline = b /\ r.ref = Reference(b.client)
          /\ r.phase = "PENDING" /\ r.attempts = 0
      <3>1. Reference(b.client) \in Nat
        BY <2>5, <2>6
      <3>2. 0 \in 0..MaxAttempts
        BY BoundAssumption
      <3> QED  BY <2>4, <3>1, <3>2 DEF Report, Records
    <2> HIDE DEF b, r, n
    <2>8. /\ journal' \in Seq(Records) /\ Len(journal') = n + 1 /\ DOMAIN journal' = 1..(n + 1)
          /\ journal'[n + 1] = r /\ \A i \in DOMAIN journal : journal'[i] = journal[i]
      <3>1. journal \in Seq(Records)
        BY DEF PaperOK
      <3> QED  BY <2>1, <2>5, <2>7, <3>1, AppendProperties DEF n
    <2>9. /\ posts' \in Seq(Nat) /\ Len(posts') = n + 1
          /\ posts'[n + 1] = 0 /\ \A i \in DOMAIN journal : posts'[i] = posts[i]
      <3>1. posts \in Seq(Nat) /\ Len(posts) = n
        BY DEF PaperOK, n
      <3>2. 0 \in Nat
        OBVIOUS
      <3> QED  BY <2>1, <2>5, <3>1, <3>2, AppendProperties
    <2>10. n + 1 \notin DOMAIN journal
      BY <2>5
    <2>11. PaperOK'
      BY <2>1, <2>3, <2>5, <2>8, <2>9, BoundAssumption DEF PaperOK
    <2>12. References'
      BY <2>5, <2>6, <2>7, <2>8 DEF References, Papers
    <2>13. ManagedIsNotReported'
      BY <2>3, <2>5, <2>7, <2>8 DEF ManagedIsNotReported, Papers
    <2>14. Pending' \subseteq {n + 1}
      BY <2>3, <2>5, <2>8, PendingFacts DEF Pending, Phase
    <2>15. OneEnvelope'
      <3> SUFFICES ASSUME NEW i \in 1..(n + 1), NEW j \in 1..(n + 1)
                   PROVE  /\ journal'[i].baseline = journal'[j].baseline => i = j
                          /\ journal'[i].baseline.client = journal'[j].baseline.client
                               <=> journal'[i].ref = journal'[j].ref
        BY <2>8, <2>14 DEF OneEnvelope
      <3>1. \A k \in DOMAIN journal : journal[k].baseline # b
        BY <2>1 DEF Known
      <3>2. CASE i \in DOMAIN journal /\ j \in DOMAIN journal
        BY <2>8, <3>2 DEF Papers, OneEnvelope
      <3>3. CASE i = n + 1 /\ j \in DOMAIN journal
        BY <2>6, <2>7, <2>8, <3>1, <3>3
      <3>4. CASE j = n + 1 /\ i \in DOMAIN journal
        BY <2>6, <2>7, <2>8, <3>1, <3>4
      <3>5. CASE i = n + 1 /\ j = n + 1
        BY <3>5
      <3> QED  BY <2>5, <3>2, <3>3, <3>4, <3>5
    <2>16. DeliveryIsBounded'
      BY <2>1, <2>5, <2>7, <2>8, <2>9 DEF DeliveryIsBounded, Papers, PaperOK
    <2> QED  BY <2>11, <2>12, <2>13, <2>15, <2>16 DEF Papers
  <1> QED  BY <1>1, <1>2

\* The record of the report under way, whose state may be rewritten.
LEMMA CurrentRecord ==
  ASSUME PaperOK, Papers, Pending # {}
  PROVE  /\ Current \in Pending /\ Current \in DOMAIN journal /\ journal[Current] \in Records
         /\ \A i \in Pending : i = Current
         /\ posts[Current] \in Nat /\ posts[Current] <= journal[Current].attempts
         /\ journal[Current].attempts \in 0..MaxAttempts
  <1>1. Current \in Pending /\ Current \in DOMAIN journal /\ journal[Current] \in Records
    BY CurrentFacts
  <1>2. \A i \in Pending : i = Current
    BY OnlyCurrent DEF Papers
  <1>3. Current \in 1..Len(posts)
    BY <1>1 DEF PaperOK
  <1>4. posts[Current] \in Nat
    BY <1>3, ElementOfSeq DEF PaperOK
  <1> QED  BY <1>1, <1>2, <1>4 DEF Papers, DeliveryIsBounded, Records

\* Rewriting its state is sound as long as no attempt is taken back and only what
\* the SaaS has is accepted.
LEMMA RewrittenPapers ==
  ASSUME PaperOK, Papers, Pending # {}, NEW r \in Records,
         r.baseline = journal[Current].baseline, r.ref = journal[Current].ref,
         r.attempts >= journal[Current].attempts,
         r.phase = "ACCEPTED" => Current \in server,
         journal' = [journal EXCEPT ![Current] = r],
         UNCHANGED <<server, posts>>
  PROVE  /\ PaperOK' /\ Papers' /\ journal'[Current] = r
         /\ Pending' \subseteq {Current} /\ DOMAIN journal' = DOMAIN journal
  <1>1. /\ Current \in Pending /\ Current \in DOMAIN journal /\ journal[Current] \in Records
        /\ \A i \in Pending : i = Current
        /\ posts[Current] \in Nat /\ posts[Current] <= journal[Current].attempts
        /\ journal[Current].attempts \in 0..MaxAttempts
    BY CurrentRecord
  <1> DEFINE i == Current
  <1> HIDE DEF i
  <1>2. i \in Pending /\ r.baseline = journal[i].baseline /\ r.ref = journal[i].ref
        /\ journal' = [journal EXCEPT ![i] = r]
    BY <1>1 DEF i
  <1>3. /\ journal' \in Seq(Records) /\ Len(journal') = Len(journal)
        /\ DOMAIN journal' = DOMAIN journal
        /\ journal'[i] = r /\ \A j \in DOMAIN journal : j # i => journal'[j] = journal[j]
        /\ Pending' \subseteq Pending
        /\ References' /\ OneEnvelope' /\ ManagedIsNotReported'
    BY <1>2, Rewritten DEF Papers
  <1>4. PaperOK'
    BY <1>3 DEF PaperOK
  <1>5. r.attempts \in 0..MaxAttempts
    BY DEF Records
  <1>6. DeliveryIsBounded'
    <2> SUFFICES ASSUME NEW j \in DOMAIN journal
                 PROVE  /\ posts[j] <= journal'[j].attempts
                        /\ journal'[j].phase = "ACCEPTED" => j \in server
                        /\ j \in server => posts[j] > 0
      BY <1>3 DEF DeliveryIsBounded
    <2>1. /\ posts[j] <= journal[j].attempts
          /\ journal[j].phase = "ACCEPTED" => j \in server
          /\ j \in server => posts[j] > 0
      BY DEF Papers, DeliveryIsBounded
    <2>2. CASE j # i
      BY <1>3, <2>1, <2>2
    <2>3. CASE j = i
      <3>1. posts[j] <= r.attempts
        BY <1>1, <1>5, <2>3 DEF i
      <3>2. r.phase = "ACCEPTED" => j \in server
        BY <2>3 DEF i
      <3> QED  BY <1>3, <2>1, <2>3, <3>1, <3>2
    <2> QED  BY <2>2, <2>3
  <1> QED  BY <1>1, <1>3, <1>4, <1>6 DEF Papers, i

\* The states a report can be given.
LEMMA Restated ==
  ASSUME NEW r \in Records, r.attempts < MaxAttempts
  PROVE  [r EXCEPT !.phase = "IN_FLIGHT", !.attempts = r.attempts + 1, !.wait = TRUE] \in Records
  <1>1. r.attempts + 1 \in 0..MaxAttempts
    BY BoundAssumption DEF Records
  <1> QED  BY <1>1 DEF Records

LEMMA DeliverPapers ==
  ASSUME HostOK, PaperOK, Papers, NEW p \in Proc, Deliver(p)
  PROVE  /\ PaperOK' /\ Papers'
         /\ \/ Failed(p) /\ (UNCHANGED journal \/ outbox = "free")
            \/ /\ Go(p, "post") /\ outbox = "free" /\ UNCHANGED <<node, seen>> /\ Pending' # {}
               /\ \A i \in Pending' : posts'[i] < journal'[i].attempts
  <1>1. UNCHANGED <<server, posts, command>>
    BY DEF Deliver, central, live
  <1>2. CASE UNCHANGED journal /\ Failed(p)
    BY <1>1, <1>2, PapersFrame
  <1>3. CASE ~(UNCHANGED journal /\ Failed(p))
    <2>1. outbox = "free" /\ Pending # {} /\ Send(p)
      BY <1>3 DEF Deliver, Refused
    <2> DEFINE r == journal[Current]
    <2>2. /\ Current \in Pending /\ Current \in DOMAIN journal /\ r \in Records
          /\ posts[Current] \in Nat /\ posts[Current] <= r.attempts /\ r.attempts \in 0..MaxAttempts
      BY <2>1, CurrentRecord
    <2>3. CASE r.attempts >= MaxAttempts
      <3> DEFINE t == [r EXCEPT !.phase = "BLOCKED"]
      <3>1. journal' = [journal EXCEPT ![Current] = t] /\ Failed(p)
        BY <2>1, <2>3 DEF Send
      <3>2. t \in Records /\ t.baseline = r.baseline /\ t.ref = r.ref
            /\ t.attempts = r.attempts /\ t.phase = "BLOCKED"
        BY <2>2 DEF Records
      <3> HIDE DEF t
      <3>3. t.attempts >= r.attempts
        BY <2>2, <3>2, BoundAssumption
      <3>4. PaperOK' /\ Papers'
        BY <1>1, <2>1, <3>1, <3>2, <3>3, RewrittenPapers
      <3> QED  BY <2>1, <3>1, <3>4
    <2>4. CASE r.attempts < MaxAttempts
      <3> DEFINE t == [r EXCEPT !.phase = "IN_FLIGHT", !.attempts = r.attempts + 1, !.wait = TRUE]
      <3>1. journal' = [journal EXCEPT ![Current] = t] /\ Go(p, "post") /\ UNCHANGED <<node, seen>>
        <4>1. ~(r.attempts >= MaxAttempts)
          BY <2>2, <2>4, BoundAssumption
        <4>2. Attempt /\ Go(p, "post") /\ UNCHANGED <<node, seen>>
          BY <1>3, <2>1, <4>1 DEF Send
        <4>3. journal' = [journal EXCEPT ![Current] = t]
          BY <4>2 DEF Attempt
        <4> QED  BY <4>2, <4>3
      <3>2. t \in Records
        BY <2>2, <2>4, Restated
      <3>3. t.baseline = r.baseline /\ t.ref = r.ref /\ t.attempts = r.attempts + 1 /\ t.phase = "IN_FLIGHT"
        BY <2>2 DEF Records
      <3> HIDE DEF t
      <3>4. t.attempts >= r.attempts /\ posts[Current] < t.attempts
        BY <2>2, <3>3, BoundAssumption
      <3>5. /\ PaperOK' /\ Papers' /\ journal'[Current] = t
            /\ Pending' \subseteq {Current} /\ DOMAIN journal' = DOMAIN journal
        BY <1>1, <2>1, <3>1, <3>2, <3>3, <3>4, RewrittenPapers
      <3>6. Current \in Pending'
        BY <2>2, <3>3, <3>5 DEF Pending, Phase
      <3>7. \A i \in Pending' : posts'[i] < journal'[i].attempts
        BY <1>1, <3>4, <3>5
      <3> QED  BY <2>1, <3>1, <3>5, <3>6, <3>7
    <2> QED  BY <2>2, <2>3, <2>4, BoundAssumption
  <1> QED  BY <1>2, <1>3

LEMMA PostPapers ==
  ASSUME HostOK, PaperOK, Papers, Locks, Attempted, NEW p \in Proc, Post(p)
  PROVE  /\ PaperOK' /\ Papers' /\ Pending' = Pending /\ Pending # {} /\ outbox = p
         /\ \E l \in {"accept", "retry", "refuse"} :
              /\ Goto(p, l)
              /\ l = "accept" => \A i \in Pending : i \in server'
  <1>1. pc[p] = "post" /\ outbox = p /\ Pending # {}
    BY DEF Post, Locks, Sending
  <1>2. /\ Current \in Pending /\ Current \in DOMAIN journal /\ \A i \in Pending : i = Current
        /\ posts[Current] \in Nat /\ journal[Current].attempts \in 0..MaxAttempts
    BY <1>1, CurrentRecord
  <1> DEFINE i == Current
  <1> HIDE DEF i
  <1>3. /\ i \in DOMAIN journal /\ posts[i] < journal[i].attempts
        /\ posts[i] \in Nat /\ journal[i].attempts \in 0..MaxAttempts
    BY <1>1, <1>2 DEF Attempted, i
  <1>4. /\ posts' = [posts EXCEPT ![i] = posts[i] + 1] /\ journal' = journal
        /\ server \subseteq server' /\ server' \subseteq server \cup {i}
    BY DEF Post, i, durable
  <1>5. \E l \in {"accept", "retry", "refuse"} : Goto(p, l) /\ (l = "accept" => i \in server')
    BY DEF Post, i
  <1>6. DOMAIN journal = 1..Len(journal) /\ posts \in Seq(Nat) /\ i \in 1..Len(posts)
    BY <1>3 DEF PaperOK
  <1>7. posts[i] + 1 \in Nat
    BY <1>3
  <1>8. /\ posts' \in Seq(Nat) /\ Len(posts') = Len(posts)
        /\ posts'[i] = posts[i] + 1 /\ \A j \in DOMAIN journal : j # i => posts'[j] = posts[j]
    BY <1>4, <1>6, <1>7, ExceptSeq DEF PaperOK
  <1>9. PaperOK'
    BY <1>3, <1>4, <1>8 DEF PaperOK
  <1>10. DeliveryIsBounded'
    <2> SUFFICES ASSUME NEW j \in DOMAIN journal
                 PROVE  /\ posts'[j] <= journal[j].attempts
                        /\ journal[j].phase = "ACCEPTED" => j \in server'
                        /\ j \in server' => posts'[j] > 0
      BY <1>4 DEF DeliveryIsBounded
    <2>1. /\ posts[j] <= journal[j].attempts
          /\ journal[j].phase = "ACCEPTED" => j \in server
          /\ j \in server => posts[j] > 0
      BY DEF Papers, DeliveryIsBounded
    <2>2. CASE j = i
      <3>1. posts'[j] <= journal[j].attempts /\ posts'[j] > 0
        BY <1>3, <1>8, <2>2, BoundAssumption
      <3> QED  BY <1>4, <2>1, <3>1
    <2>3. CASE j # i
      BY <1>4, <1>8, <2>1, <2>3
    <2> QED  BY <2>2, <2>3
  <1>11. Pending' = Pending
    BY <1>4 DEF Pending, Phase
  <1>12. References' /\ OneEnvelope' /\ ManagedIsNotReported'
    BY <1>4, <1>11 DEF Papers, References, OneEnvelope, ManagedIsNotReported
  <1> QED  BY <1>1, <1>2, <1>5, <1>9, <1>10, <1>11, <1>12 DEF Papers, i

LEMMA SettlePapers ==
  ASSUME HostOK, PaperOK, Papers, Locks, Attempted, NEW p \in Proc, Settle(p)
  PROVE  PaperOK' /\ Papers' /\ Failed(p) /\ outbox = p
  <1>1. /\ pc[p] \in {"accept", "retry", "refuse"} /\ outbox = p /\ Pending # {}
        /\ UNCHANGED <<server, posts>> /\ Failed(p)
    BY DEF Settle, Locks, Sending, Outcome, central
  <1>2. CASE UNCHANGED journal
    BY <1>1, <1>2, PapersFrame
  <1>3. CASE ~UNCHANGED journal
    <2> DEFINE t == [journal[Current] EXCEPT !.phase = Outcome[pc[p]]]
    <2>1. journal' = [journal EXCEPT ![Current] = t]
      BY <1>3 DEF Settle
    <2>2. Current \in Pending /\ Current \in DOMAIN journal /\ journal[Current] \in Records
          /\ journal[Current].attempts \in 0..MaxAttempts
      BY <1>1, CurrentRecord
    <2>3. Outcome[pc[p]] \in {"ACCEPTED", "PENDING", "BLOCKED"} /\ (Outcome[pc[p]] = "ACCEPTED" => pc[p] = "accept")
      BY <1>1 DEF Outcome
    <2>4. /\ t \in Records /\ t.baseline = journal[Current].baseline /\ t.ref = journal[Current].ref
          /\ t.attempts = journal[Current].attempts /\ t.phase = Outcome[pc[p]]
      BY <2>2, <2>3 DEF Records
    <2> HIDE DEF t
    <2>5. t.phase = "ACCEPTED" => Current \in server
      BY <2>2, <2>3, <2>4 DEF Attempted
    <2>6. t.attempts >= journal[Current].attempts
      BY <2>2, <2>4, BoundAssumption
    <2> QED  BY <1>1, <2>1, <2>4, <2>5, <2>6, RewrittenPapers
  <1> QED  BY <1>1, <1>2, <1>3

LEMMA TickPapers ==
  ASSUME HostOK, PaperOK, Papers, Tick
  PROVE  /\ PaperOK' /\ Papers' /\ DOMAIN journal' = DOMAIN journal /\ Pending' = Pending
         /\ \A i \in Pending : journal'[i].attempts = journal[i].attempts
  <1>1. UNCHANGED <<server, posts>>
    BY DEF Tick, central
  <1>2. CASE UNCHANGED journal
    BY <1>1, <1>2, PapersFrame
  <1>3. CASE ~UNCHANGED journal
    <2>1. PICK i \in Pending : journal' = [journal EXCEPT ![i].wait = FALSE]
      BY <1>3 DEF Tick
    <2>2. i = Current /\ i \in DOMAIN journal /\ journal[i] \in Records /\ journal[i].attempts \in 0..MaxAttempts
      BY <2>1, CurrentRecord
    <2> DEFINE t == [journal[i] EXCEPT !.wait = FALSE]
    <2>3. /\ t \in Records /\ t.baseline = journal[i].baseline /\ t.ref = journal[i].ref
          /\ t.attempts = journal[i].attempts /\ t.phase = journal[i].phase
      BY <2>2 DEF Records
    <2>4. journal' = [journal EXCEPT ![i] = t]
      BY <2>1
    <2> HIDE DEF t
    <2>5. t.attempts >= journal[i].attempts
      BY <2>2, <2>3, BoundAssumption
    <2>6. t.phase = "ACCEPTED" => i \in server
      BY <2>2, <2>3 DEF Papers, DeliveryIsBounded
    <2>7. /\ PaperOK' /\ Papers' /\ journal'[i] = t
          /\ Pending' \subseteq {i} /\ DOMAIN journal' = DOMAIN journal
      BY <1>1, <2>1, <2>2, <2>3, <2>4, <2>5, <2>6, RewrittenPapers
    <2>8. i \in Pending'
      BY <2>1, <2>2, <2>3, <2>7, PendingFacts DEF Pending, Phase
    <2>9. Pending' = Pending /\ \A j \in Pending : j = i
      BY <2>1, <2>2, <2>7, <2>8, CurrentRecord
    <2> QED  BY <2>3, <2>7, <2>9
  <1> QED  BY <1>2, <1>3

\* Every step keeps the journal sound.
LEMMA PapersStep ==
  ASSUME IInv, [Next]_vars
  PROVE  PaperOK' /\ Papers'
  <1>1. HostOK /\ PaperOK /\ Papers /\ Locks /\ Attempted
    BY Halves DEF IInv
  <1>2. CASE \E p \in Proc : Save(p)
    BY <1>1, <1>2, SavePapers
  <1>3. CASE \E p \in Proc : Deliver(p)
    BY <1>1, <1>3, DeliverPapers
  <1>4. CASE \E p \in Proc : Post(p)
    BY <1>1, <1>4, PostPapers
  <1>5. CASE \E p \in Proc : Settle(p)
    BY <1>1, <1>5, SettlePapers
  <1>6. CASE Tick
    BY <1>1, <1>6, TickPapers
  <1>7. CASE UNCHANGED <<journal, server, posts>>
    BY <1>1, <1>7, PapersFrame
  <1>8. \A p \in Proc : Start(p) \/ Get(p) \/ Kill(p) => UNCHANGED <<journal, server, posts>>
    BY DEF Start, Get, Kill, durable, central
  <1>9. CommandStep \/ Interrupt \/ (\E c \in Managed : Begin(c))
          \/ (\E c \in Foreign, r \in Record : Edit(c, r)) => UNCHANGED <<journal, server, posts>>
    BY DEF CommandStep, ChangePanel, InstallConfig, Commit, RollBack, Interrupt, Begin, Edit, durable, central
  <1>10. CASE UNCHANGED vars
    BY <1>7, <1>10 DEF vars, durable, central
  <1>11. CASE Next
    BY <1>2, <1>3, <1>4, <1>5, <1>6, <1>7, <1>8, <1>9, <1>11 DEF Next, CycleStep
  <1> QED  BY <1>10, <1>11

-----------------------------------------------------------------------------
(* The locks.                                                                 *)

\* A cycle that ends takes nothing from another.
LEMMA EndLocks ==
  ASSUME HostOK, Locks, Attempted, NEW p \in Proc, Failed(p) \/ Passed(p),
         UNCHANGED <<journal, server, posts, command>>
  PROVE  Locks' /\ Attempted'
  <1>1. PICK l \in {"idle", "connect"} : End(p, l)
    BY EndedEither
  <1>2. /\ pc'[p] = l /\ \A q \in Proc : q # p => pc'[q] = pc[q] /\ seen'[q] = seen[q]
        /\ outbox' = (IF outbox = p THEN "free" ELSE outbox)
        /\ node' = (IF node = p THEN "free" ELSE node)
    BY <1>1, Ended
  <1>3. Pending' = Pending
    BY PapersFrame
  <1>4. pc'[p] \notin Collecting /\ pc'[p] \notin Sending /\ pc'[p] # "save"
        /\ pc'[p] # "post" /\ pc'[p] # "accept"
    BY <1>2 DEF Collecting, Sending
  <1>5. Locks'
    BY <1>2, <1>3, <1>4 DEF Locks
  <1>6. Attempted'
    BY <1>2, <1>3, <1>4 DEF Attempted
  <1> QED  BY <1>5, <1>6

\* Who holds the journal, or finds it free, may change it and end.
LEMMA EndAlone ==
  ASSUME HostOK, Locks, NEW p \in Proc, Failed(p) \/ Passed(p), outbox \in {p, "free"}
  PROVE  Locks' /\ Attempted'
  <1>1. PICK l \in {"idle", "connect"} : End(p, l)
    BY EndedEither
  <1>2. pc'[p] = l /\ \A q \in Proc : q # p => pc'[q] = pc[q]
    BY <1>1, Ended
  <1>3. \A q \in Proc : pc'[q] \notin Collecting /\ pc'[q] \notin Sending
    BY <1>2, Alone DEF Collecting, Sending
  <1>4. \A q \in Proc : pc'[q] # "save" /\ pc'[q] # "post" /\ pc'[q] # "accept"
    BY <1>3 DEF Collecting, Sending
  <1> QED  BY <1>3, <1>4 DEF Locks, Attempted

LEMMA StartLocks ==
  ASSUME HostOK, Locks, Attempted, Agreement, NEW p \in Proc, Start(p)
  PROVE  Locks' /\ Attempted'
  <1>1. UNCHANGED <<journal, server, posts, command>>
    BY DEF Start, live, central
  <1>2. CASE Failed(p) \/ Passed(p)
    BY <1>1, <1>2, EndLocks
  <1>3. CASE ~(Failed(p) \/ Passed(p))
    <2>1. outbox = "free" /\ Pending = {} /\ Collect(p)
      BY <1>3 DEF Start, Refused
    <2>2. /\ MayEnter /\ Candidates # {} /\ node' = p /\ Go(p, "get") /\ Len(journal) < MaxRecords
          /\ seen' = [seen EXCEPT ![p] = [client |-> Chosen, record |-> "absent",
                                          names |-> Names, config |-> config]]
      BY <1>3, <2>1 DEF Collect
    <2>3. Chosen \in Foreign /\ command.step = "none"
      BY <2>2, ChosenIsForeign DEF MayEnter
    <2>4. pc'[p] = "get" /\ outbox' = p /\ seen'[p].client \in Foreign
      BY <2>2, <2>3 DEF HostOK, Go, Goto
    <2>5. \A q \in Proc : q # p => pc'[q] = pc[q]
      BY <2>2 DEF HostOK, Go, Goto
    <2>6. \A q \in Proc : q # p => pc'[q] \notin Collecting /\ pc'[q] \notin Sending /\ pc'[q] # "save"
      BY <2>1, <2>5, Alone DEF Collecting
    <2>7. Pending' = {}
      BY <1>1, <2>1, PapersFrame
    <2>8. Attempted'
      BY <2>7 DEF Attempted
    <2>9. Locks'
      <3> SUFFICES ASSUME NEW q \in Proc
                   PROVE  /\ pc'[q] \in Collecting =>
                               /\ outbox' = q /\ node' = q /\ command'.step = "none"
                               /\ Pending' = {} /\ Len(journal') < MaxRecords
                               /\ seen'[q].client \in Foreign
                          /\ pc'[q] = "save" => seen'[q].record \in Public
                          /\ pc'[q] \in Sending => outbox' = q /\ Pending' # {}
        BY DEF Locks
      <3>1. CASE q = p
        BY <1>1, <2>2, <2>3, <2>4, <2>7, <3>1 DEF Sending
      <3>2. CASE q # p
        BY <2>6, <3>2
      <3> QED  BY <3>1, <3>2
    <2> QED  BY <2>8, <2>9
  <1> QED  BY <1>2, <1>3

LEMMA GetLocks ==
  ASSUME HostOK, Locks, Attempted, NEW p \in Proc, Get(p)
  PROVE  Locks' /\ Attempted'
  <1>1. UNCHANGED <<journal, server, posts, command>>
    BY DEF Get, durable, live, central
  <1>2. CASE Failed(p) \/ Passed(p)
    BY <1>1, <1>2, EndLocks
  <1>3. CASE ~(Failed(p) \/ Passed(p))
    <2>1. /\ pc' = [pc EXCEPT ![p] = "save"] /\ UNCHANGED <<outbox, node>>
          /\ seen' = [seen EXCEPT ![p].record = panel[seen[p].client]]
          /\ seen[p] \in Sights /\ panel[seen[p].client] \in Public
      BY <1>3, GetFacts
    <2>2. pc[p] = "get" /\ pc'[p] = "save" /\ \A q \in Proc : q # p => pc'[q] = pc[q] /\ seen'[q] = seen[q]
      BY <2>1 DEF HostOK, Get
    <2>3. seen'[p].client = seen[p].client /\ seen'[p].record \in Public
      BY <2>1 DEF HostOK, Sights
    <2>4. Pending' = Pending
      BY <1>1, PapersFrame
    <2>5. Locks'
      <3> SUFFICES ASSUME NEW q \in Proc
                   PROVE  /\ pc'[q] \in Collecting =>
                               /\ outbox' = q /\ node' = q /\ command'.step = "none"
                               /\ Pending' = {} /\ Len(journal') < MaxRecords
                               /\ seen'[q].client \in Foreign
                          /\ pc'[q] = "save" => seen'[q].record \in Public
                          /\ pc'[q] \in Sending => outbox' = q /\ Pending' # {}
        BY DEF Locks
      <3>1. CASE q = p
        BY <1>1, <2>1, <2>2, <2>3, <2>4, <3>1 DEF Locks, Collecting, Sending
      <3>2. CASE q # p
        BY <1>1, <2>1, <2>2, <2>4, <3>2 DEF Locks
      <3> QED  BY <3>1, <3>2
    <2>6. Attempted'
      <3>1. pc'[p] # "post" /\ pc'[p] # "accept"
        BY <2>2
      <3> QED  BY <1>1, <2>2, <2>4, <3>1 DEF Attempted
    <2> QED  BY <2>5, <2>6
  <1> QED  BY <1>2, <1>3

\* Who sends is alone with the journal.
LEMMA SendLocks ==
  ASSUME HostOK, Locks, NEW p \in Proc, outbox \in {p, "free"}, outbox' = p,
         NEW l \in Sending, Goto(p, l), Pending' # {},
         l = "post" => \A i \in Pending' : posts'[i] < journal'[i].attempts,
         l = "accept" => \A i \in Pending' : i \in server'
  PROVE  Locks' /\ Attempted'
  <1>1. pc'[p] = l /\ \A q \in Proc : q # p => pc'[q] = pc[q]
    BY DEF HostOK, Goto
  <1>2. \A q \in Proc : q # p => pc'[q] \notin Collecting /\ pc'[q] \notin Sending
    BY <1>1, Alone
  <1>3. l \notin Collecting
    BY DEF Collecting, Sending
  <1>4. \A q \in Proc : q # p => pc'[q] # "save" /\ pc'[q] # "post" /\ pc'[q] # "accept"
    BY <1>2 DEF Collecting, Sending
  <1>5. l # "save"
    BY <1>3 DEF Collecting
  <1>6. Locks'
    BY <1>1, <1>2, <1>3, <1>4, <1>5 DEF Locks
  <1>7. Attempted'
    BY <1>1, <1>4 DEF Attempted
  <1> QED  BY <1>6, <1>7

\* Commands and operators leave the cycles alone: the node's lock is not theirs.
LEMMA OutsideLocks ==
  ASSUME HostOK, Locks, Attempted,
         UNCHANGED <<journal, server, posts, pc, seen, outbox>>,
         UNCHANGED <<node, command>> \/ node \in {"cli", "free"}
  PROVE  Locks' /\ Attempted'
  <1>1. Pending' = Pending
    BY PapersFrame
  <1>2. Attempted'
    BY <1>1 DEF Attempted
  <1>3. \A q \in Proc : pc[q] \in Collecting => node' = node /\ command'.step = command.step
    <2>1. node \in {"cli", "free"} => \A q \in Proc : node # q
      BY DEF Proc
    <2> QED  BY <2>1 DEF Locks
  <1>4. /\ outbox' = outbox /\ Len(journal') = Len(journal)
        /\ \A q \in Proc : pc'[q] = pc[q] /\ seen'[q] = seen[q]
    OBVIOUS
  <1>5. Locks'
    BY <1>1, <1>3, <1>4 DEF Locks
  <1> QED  BY <1>2, <1>5

LEMMA TickLocks ==
  ASSUME HostOK, PaperOK, Papers, Locks, Attempted, Tick
  PROVE  Locks' /\ Attempted'
  <1>1. UNCHANGED <<outbox, node, pc, seen, server, posts, command>>
    BY DEF Tick, live, process, central
  <1>2. /\ PaperOK' /\ Pending' = Pending
        /\ \A i \in Pending : journal'[i].attempts = journal[i].attempts
    BY TickPapers
  <1>3. Len(journal') = Len(journal)
    BY <1>1, <1>2 DEF PaperOK
  <1>4. Locks'
    BY <1>1, <1>2, <1>3 DEF Locks
  <1>5. Attempted'
    BY <1>1, <1>2 DEF Attempted
  <1> QED  BY <1>4, <1>5

LEMMA LocksStep ==
  ASSUME IInv, [Next]_vars
  PROVE  Locks' /\ Attempted'
  <1>1. HostOK /\ PaperOK /\ Papers /\ Locks /\ Attempted /\ Agreement
    BY Halves DEF IInv
  <1>2. ASSUME NEW p \in Proc, Save(p)  PROVE Locks' /\ Attempted'
    <2>1. outbox = p /\ (Failed(p) \/ Passed(p))
      BY <1>1, <1>2 DEF Save, Locks, Collecting
    <2> QED  BY <1>1, <2>1, EndAlone
  <1>3. ASSUME NEW p \in Proc, Deliver(p)  PROVE Locks' /\ Attempted'
    <2>1. \/ Failed(p) /\ (UNCHANGED journal \/ outbox = "free")
          \/ /\ Go(p, "post") /\ outbox = "free" /\ Pending' # {}
             /\ \A i \in Pending' : posts'[i] < journal'[i].attempts
      BY <1>1, <1>3, DeliverPapers
    <2>2. UNCHANGED <<server, posts, command>>
      BY <1>3 DEF Deliver, central, live
    <2>3. CASE Failed(p) /\ UNCHANGED journal
      BY <1>1, <2>2, <2>3, EndLocks
    <2>4. CASE Failed(p) /\ outbox = "free"
      BY <1>1, <2>4, EndAlone
    <2>5. CASE Go(p, "post") /\ outbox = "free" /\ Pending' # {}
               /\ \A i \in Pending' : posts'[i] < journal'[i].attempts
      <3>1. "post" \in Sending /\ Goto(p, "post") /\ outbox' = p
        BY <2>5 DEF Sending, Go
      <3> QED  BY <1>1, <2>5, <3>1, SendLocks
    <2> QED  BY <2>1, <2>3, <2>4, <2>5
  <1>4. ASSUME NEW p \in Proc, Post(p)  PROVE Locks' /\ Attempted'
    <2>1. PICK l \in {"accept", "retry", "refuse"} :
             Goto(p, l) /\ (l = "accept" => \A i \in Pending : i \in server')
      BY <1>1, <1>4, PostPapers
    <2>2. Pending' = Pending /\ Pending # {} /\ outbox = p /\ outbox' = p
      BY <1>1, <1>4, PostPapers DEF Post
    <2>3. l \in Sending /\ l # "post"
      BY DEF Sending
    <2> QED  BY <1>1, <2>1, <2>2, <2>3, SendLocks
  <1>5. ASSUME NEW p \in Proc, Settle(p)  PROVE Locks' /\ Attempted'
    <2>1. Failed(p) /\ outbox = p
      BY <1>1, <1>5, SettlePapers
    <2> QED  BY <1>1, <2>1, EndAlone
  <1>6. ASSUME NEW p \in Proc, Kill(p)  PROVE Locks' /\ Attempted'
    <2>1. Failed(p) /\ UNCHANGED <<journal, server, posts, command>>
      BY <1>6 DEF Kill, live, central
    <2> QED  BY <1>1, <2>1, EndLocks
  <1>7. CASE CommandStep \/ Interrupt \/ \E c \in Managed : Begin(c)
    <2>1. UNCHANGED <<journal, server, posts, pc, seen, outbox>> /\ node \in {"cli", "free"}
      BY <1>7 DEF CommandStep, ChangePanel, InstallConfig, Commit, RollBack, Interrupt, Begin,
                  durable, process, central
    <2> QED  BY <1>1, <2>1, OutsideLocks
  <1>8. CASE UNCHANGED vars \/ \E c \in Foreign, r \in Record : Edit(c, r)
    <2>1. UNCHANGED <<journal, server, posts, pc, seen, outbox, node, command>>
      BY <1>8 DEF Edit, vars, durable, live, process, central
    <2> QED  BY <1>1, <2>1, OutsideLocks
  <1>9. CASE Next
    BY <1>1, <1>2, <1>3, <1>4, <1>5, <1>6, <1>7, <1>8, <1>9, StartLocks, GetLocks, TickLocks
       DEF Next, CycleStep
  <1> QED  BY <1>8, <1>9

-----------------------------------------------------------------------------
(* Theorems.                                                                  *)

LEMMA InitIInv == Init => IInv
  <1> SUFFICES ASSUME Init  PROVE IInv
    OBVIOUS
  <1> USE DEF Init
  <1>1. DOMAIN journal = {} /\ Len(journal) = 0 /\ Len(posts) = 0
    OBVIOUS
  <1>2. 0 \in 0..(Cycle - 1)
    BY CycleAssumption
  <1>3. panel \in [Client -> Record]
    BY DEF Record
  <1>4. HostOK
    BY <1>2, <1>3, NothingSeen DEF HostOK, NoCommand, Proc, Points
  <1>5. PaperOK
    BY <1>1, BoundAssumption DEF PaperOK
  <1>6. Locks
    BY DEF Locks, Collecting, Sending
  <1>7. Attempted
    BY DEF Attempted
  <1>8. Agreement /\ HalfWay
    BY ClientAssumption DEF Agreement, HalfWay, NoCommand, Client
  <1>9. Papers
    BY <1>1 DEF Papers, References, OneEnvelope, DeliveryIsBounded, ManagedIsNotReported
  <1> QED  BY <1>4, <1>5, <1>6, <1>7, <1>8, <1>9, Halves DEF IInv

LEMMA Invariance == Spec => []IInv
  <1>1. IInv /\ [Next]_vars => IInv'
    BY TypeStep, PapersStep, LocksStep, AgreementStep, HalvesNext DEF IInv
  <1> QED  BY InitIInv, <1>1, PTL DEF Spec

\* Whatever commands are interrupted and rolled back, whatever operators edit and
\* wherever the cursor stands, no client of a command is reported as unmanaged.
THEOREM NothingManagedReported == Spec => []ManagedIsNotReported
  <1>1. IInv => ManagedIsNotReported
    BY DEF IInv, Papers
  <1> QED  BY Invariance, <1>1, PTL

\* The types are kept and the journal is sound over all restarts, lost answers and
\* failures of the disk: a baseline has one revision and a client one reference,
\* no report is sent more often than it was attempted on disk, and what counts as
\* accepted has reached the SaaS.
THEOREM SoundJournal == Spec => []JournalIsSound
  <1>1. IInv => JournalIsSound
    BY DEF IInv, Papers, JournalIsSound
  <1> QED  BY Invariance, <1>1, PTL
=============================================================================
