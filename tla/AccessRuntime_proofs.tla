------------------------ MODULE AccessRuntime_proofs ------------------------
(* The safety properties of AccessRuntime, for every number of versions,     *)
(* commands, deaths, failing calls and late writes.                          *)
EXTENDS AccessRuntime, WellFoundedInduction, TLAPS

\* Versions are small numbers, so the highest of some of them exists.
LEMMA MaxOf ==
  ASSUME NEW S \in SUBSET (0..MaxVersion), S # {}
  PROVE  Max(S) \in S /\ \A x \in S : x <= Max(S)
  <1> DEFINE Below == {MaxVersion - x : x \in S}
  <1>1. Below \in SUBSET Nat /\ Below # {}
    <2>1. Below \subseteq Nat
      BY BoundAssumption
    <2>2. PICK x \in S : TRUE
      OBVIOUS
    <2>3. MaxVersion - x \in Below
      OBVIOUS
    <2> QED  BY <2>1, <2>3
  <1>2. PICK d \in Below : \A e \in Below : d <= e
    <2> HIDE DEF Below
    <2>1. PICK d \in Below : \A e \in Below : ~(<<e, d>> \in OpToRel(<, Nat))
      BY <1>1, NatLessThanWellFounded, WFMin
    <2>2. \A e \in Below : e \in Nat /\ d \in Nat
      BY <1>1
    <2>3. \A e \in Below : ~(e < d)
      BY <2>1, <2>2 DEF OpToRel
    <2>4. \A e \in Below : d <= e
      BY <2>2, <2>3
    <2> QED  BY <2>4
  <1>3. PICK m \in S : d = MaxVersion - m
    BY <1>2
  <1>4. \A x \in S : m >= x
    <2> TAKE x \in S
    <2>1. m \in Int /\ x \in Int /\ MaxVersion \in Int
      BY BoundAssumption
    <2>2. MaxVersion - x \in Below
      OBVIOUS
    <2>3. MaxVersion - m <= MaxVersion - x
      BY <1>2, <1>3, <2>2
    <2> QED  BY <2>1, <2>3
  <1>5. Max(S) \in S /\ \A x \in S : Max(S) >= x
    BY <1>4 DEF Max
  <1> QED  BY <1>5, BoundAssumption

-----------------------------------------------------------------------------
Working == {"load", "lookup", "add", "added", "update", "updated", "adjust", "adjusted",
            "links", "material", "clean", "result"}
Checked == {"links", "material", "clean", "result"}
Delivered == {"clean", "result"}

\* The command in hand was issued, has no result yet and, once admitted, is the
\* one the fence names and no older than any identity file.
Admitted ==
    /\ pc # "idle" => cmd \in issued \ done
    /\ pc \in Working => fence = cmd /\ \A v \in Files : v <= cmd.version

\* Identities are as old as their files, and no file goes back behind an older
\* one; from the lookup on, the command's identity is on disk.
Named ==
    /\ \A v \in Files : state[v] <= v
    /\ \A u, v \in Files : u <= v => state[u] <= state[v]
    /\ pc \in Working \ {"load"} => Identity # 0

\* What the SaaS holds was made under the fence: only the command admitted last
\* can have its version, and its identity is the one in the file.
Fenced(c) == c.version <= fence.version /\ (c.version = fence.version => c = fence)
Materials ==
    /\ \A m \in material : Fenced(m[1]) /\ m[2] = state[m[1].version] /\ m[2] # 0
    /\ OneMaterialPerVersion
    /\ pc \in Delivered => <<cmd, Identity>> \in material
    /\ \A c \in done : Fenced(c) /\ state[c.version] # 0

Receipts ==
    /\ ReceiptIsTrue
    /\ pc \in Checked /\ Identity \notin touched => Matches(panel[Identity], cmd)

\* Only an add of the command in hand, or a late write, lets a client appear.
Replaced ==
    /\ ReplacedIsGone
    /\ pc = "result" /\ cmd.op = "replace" =>
         \A v \in Files : v < cmd.version /\ state[v] \notin touched
            => state[v] = Identity \/ ~panel[state[v]].here

\* A late deletion aims behind an identity the SaaS has received.
Deletions ==
    \A w \in flight : /\ w.kind = "del" => \E n \in material : w.id < n[2]
                      /\ w.kind \in {"add", "update"} => w.client.here

IInv ==
    /\ TypeOK /\ Admitted /\ Named /\ Materials
    /\ ClientsAreKnown /\ Receipts /\ Replaced /\ Deletions

-----------------------------------------------------------------------------
\* What a write does to the panel.
LEMMA EffectType ==
  ASSUME panel \in [Versions -> Client], NEW w \in Write
  PROVE  Effect(panel, w) \in [Versions -> Client]
  <1>1. w.id \in Versions /\ w.client \in Client
    BY DEF Write
  <1>2. Absent \in Client
    BY DEF Absent, Client
  <1>3. [panel[w.id] EXCEPT !.days = @ + w.client.days] \in Client
    BY <1>1 DEF Client
  <1>4. [panel EXCEPT ![w.id].days = @ + w.client.days]
          = [panel EXCEPT ![w.id] = [panel[w.id] EXCEPT !.days = @ + w.client.days]]
    OBVIOUS
  <1> HIDE DEF Client, Absent
  <1> QED  BY <1>1, <1>2, <1>3, <1>4 DEF Effect

LEMMA EffectElsewhere ==
  ASSUME panel \in [Versions -> Client], NEW w, NEW i \in Versions, i # w.id
  PROVE  Effect(panel, w)[i] = panel[i]
  BY DEF Effect

LEMMA EffectAppears ==
  ASSUME panel \in [Versions -> Client], NEW w \in Write, NEW i \in Versions,
         Effect(panel, w)[i].here, ~panel[i].here
  PROVE  i = w.id /\ w.kind = "add"
  <1>1. i = w.id
    BY EffectElsewhere
  <1>2. panel[i] \in Client
    OBVIOUS
  <1> QED  BY <1>1, <1>2 DEF Effect, Absent, Client

LEMMA EffectGone ==
  ASSUME panel \in [Versions -> Client], NEW w \in Write, NEW i \in Versions,
         ~Effect(panel, w)[i].here, panel[i].here
  PROVE  i = w.id /\ (w.kind = "del" \/ (w.kind = "update" /\ ~w.client.here))
  <1>1. i = w.id
    BY EffectElsewhere
  <1>2. panel[i] \in Client
    OBVIOUS
  <1> QED  BY <1>1, <1>2 DEF Effect, Absent, Client

-----------------------------------------------------------------------------
\* The steps that touch each variable.
PanelSteps == Add \/ Update \/ Adjust \/ CleanOne
LEMMA Frame ==
  ASSUME [Next]_vars
  PROVE  /\ Load \/ state' = state
         /\ Admit \/ fence' = fence
         /\ Result \/ done' = done
         /\ Materialize \/ material' = material
         /\ issued' = issued \/ \E c \in Command : Issue(c)
         /\ PanelSteps \/ (\E w \in flight : Arrive(w)) \/ UNCHANGED <<panel, flight>>
         /\ (\E w \in flight : Arrive(w)) \/ touched' = touched
  BY DEF Next, Execute, vars, local, budget, PanelSteps, Issue, Poll, Admit, Load, Lookup, Add,
         Added, Update, Updated, Adjust, Adjusted, Links, Materialize, CleanOne, CleanDone,
         Result, Fail, Crash, Arrive

\* Where the program goes, and what it has seen by then.
Found == panel' = panel /\ state' = state /\ Matches(panel[Identity], cmd)
Gone == \A i \in Outdated : ~panel[i].here
Moves ==
    /\ pc' # "idle" => \/ pc # "idle" /\ cmd' = cmd
                       \/ pc = "idle" /\ cmd' \in issued \ done /\ ~Result
    /\ pc' \in Working => cmd' = cmd /\ (pc \in Working \/ Admit) /\ ~Result
    /\ pc' \in Working \ {"load"} => pc \in Working \ {"load"} \/ Load
    /\ pc' \in Checked => pc \in Checked \/ Found
    /\ pc' \in Delivered => pc \in Delivered \/ Materialize
    /\ pc' = "result" => \/ pc = "result" /\ UNCHANGED <<state, cmd>>
                         \/ cmd.op # "replace"
                         \/ Gone /\ UNCHANGED <<panel, state>>

LEMMA ControlStep ==
  ASSUME [Next]_vars
  PROVE  Moves
  <1> USE DEF Moves, Working, Checked, Delivered, Goto, Stop
  <1>1. CASE \E c \in Command : Issue(c)
    BY <1>1 DEF Issue, Result, local
  <1>2. CASE \E c \in Command : Poll(c)
    BY <1>2 DEF Poll, Result
  <1>3. CASE Admit
    BY <1>3 DEF Admit, Result
  <1>4. CASE Load
    BY <1>4 DEF Load, Result
  <1>5. CASE Lookup
    BY <1>5 DEF Lookup, Result, Found
  <1>6. CASE Add
    BY <1>6 DEF Add, Posted, Unanswered, Result
  <1>7. CASE Added
    BY <1>7 DEF Added, Result, Found
  <1>8. CASE Update
    BY <1>8 DEF Update, Posted, Unanswered, Result
  <1>9. CASE Updated
    BY <1>9 DEF Updated, Result, Found
  <1>10. CASE Adjust
    BY <1>10 DEF Adjust, Posted, Unanswered, Result
  <1>11. CASE Adjusted
    BY <1>11 DEF Adjusted, Result, Found
  <1>12. CASE Links
    BY <1>12 DEF Links, Result
  <1>13. CASE Materialize
    BY <1>13 DEF Materialize, Result
  <1>14. CASE CleanOne
    BY <1>14 DEF CleanOne, Posted, Unanswered, Result
  <1>15. CASE CleanDone
    BY <1>15 DEF CleanDone, Gone, Result
  <1>16. CASE Result
    BY <1>16 DEF Result
  <1>17. CASE Fail \/ Crash
    BY <1>17 DEF Fail, Crash, Result
  <1>18. CASE \E w \in flight : Arrive(w)
    <2>1. UNCHANGED <<state, pc, cmd>>
      BY <1>18 DEF Arrive, local
    <2>2. pc' # "idle" => ~Result
      BY DEF Result
    <2> QED  BY <2>1, <2>2
  <1>19. CASE UNCHANGED vars
    BY <1>19 DEF vars, local, Result
  <1> QED  BY <1>1, <1>2, <1>3, <1>4, <1>5, <1>6, <1>7, <1>8, <1>9, <1>10, <1>11, <1>12, <1>13,
              <1>14, <1>15, <1>16, <1>17, <1>18, <1>19 DEF Next, Execute

-----------------------------------------------------------------------------
LEMMA CommandFacts ==
  ASSUME TypeOK
  PROVE  /\ pc # "idle" => cmd \in Command /\ cmd.version \in Versions
         /\ pc = "idle" => cmd = NoCommand
         /\ NoCommand \notin Command
  BY DEF TypeOK, Command, NoCommand

LEMMA IdentityFacts ==
  ASSUME TypeOK, Named, pc \in Working \ {"load"}
  PROVE  Identity \in Versions /\ cmd.version \in Files /\ cmd \in Command
  BY CommandFacts, BoundAssumption DEF TypeOK, Named, Working, Identity, Files, Versions

LEMMA DesiredClient ==
  ASSUME TypeOK, pc # "idle"
  PROVE  Desired \in Client
  <1>1. cmd \in Command /\ cmd.want \in Entitlements
    BY CommandFacts DEF Command
  <1>2. cmd.want.days \in Nat /\ cmd.want.limit \in Nat /\ cmd.enabled \in BOOLEAN
    BY <1>1, DataAssumption DEF Command
  <1> QED  BY <1>2 DEF Desired, Client

\* The one write a step of the executor makes or leaves behind.
OwnWrite(w) ==
    \/ pc = "add" /\ w.kind = "add" /\ w.id = Identity /\ w.client.here
    \/ pc = "update" /\ w.kind = "update" /\ w.id = Identity /\ w.client.here
    \/ pc = "adjust" /\ w.kind = "adjust" /\ w.id = Identity
    \/ pc = "clean" /\ w.kind = "del" /\ w.id \in Outdated
MadeBy(w) == /\ w \in Write /\ OwnWrite(w)
             /\ panel' = panel \/ panel' = Effect(panel, w)
             /\ flight' = flight \/ (flight' = flight \cup {w} /\ panel' = panel)

LEMMA PostedBy ==
  ASSUME NEW w \in Write, OwnWrite(w), NEW next, Posted(w, next) \/ Unanswered(w, next)
  PROVE  MadeBy(w)
  BY DEF Posted, Unanswered, MadeBy

LEMMA OutdatedFacts ==
  ASSUME TypeOK, Named, pc = "clean"
  PROVE  /\ Outdated \subseteq Versions
         /\ \A i \in Outdated : i < Identity
  <1>1. cmd.version \in Files /\ Identity \in Versions
    BY IdentityFacts DEF Working
  <1>2. \A u \in Files : u < cmd.version => state[u] \in Versions /\ state[u] <= Identity
    BY <1>1, BoundAssumption DEF TypeOK, Named, Files, Versions, Identity
  <1> QED  BY <1>1, <1>2, BoundAssumption DEF Outdated, Versions

LEMMA Sends ==
  ASSUME TypeOK, Named, PanelSteps
  PROVE  \E w : MadeBy(w)
  <1>1. pc \in {"add", "update", "adjust", "clean"}
    BY DEF PanelSteps, Add, Update, Adjust, CleanOne
  <1>2. /\ Identity \in Versions /\ cmd.version \in Versions
        /\ Desired \in Client /\ Desired.here /\ Absent \in Client
    BY <1>1, IdentityFacts, CommandFacts, DesiredClient DEF Working, Desired, Absent, Client
  <1>3. CASE Add
    <2> DEFINE w == Send("add", Desired)
    <2>1. w \in Write /\ OwnWrite(w)
      BY <1>2, <1>3 DEF Send, Write, OwnWrite, Add
    <2>2. \E next : Posted(w, next) \/ Unanswered(w, next)
      BY <1>3 DEF Add
    <2> QED  BY <2>1, <2>2, PostedBy
  <1>4. CASE Update
    <2>1. \A d \in Client : d.here => /\ Send("update", d) \in Write
                                      /\ OwnWrite(Send("update", d))
      BY <1>2, <1>4 DEF Send, Write, OwnWrite, Update
    <2>2. CASE \E next : \/ Posted(Send("update", Desired), next)
                         \/ Unanswered(Send("update", Desired), next)
      BY <1>2, <2>1, <2>2, PostedBy
    <2>3. CASE /\ \E f \in Unheeded : panel' = Effect(panel, Send("update",
                    IF f = "days" THEN [Desired EXCEPT !.days = read.days]
                                  ELSE [Desired EXCEPT !.enabled = read.enabled]))
               /\ flight' = flight
      <3>1. PICK d : /\ panel' = Effect(panel, Send("update", d)) /\ flight' = flight
                     /\ \/ d = [Desired EXCEPT !.days = read.days]
                        \/ d = [Desired EXCEPT !.enabled = read.enabled]
        BY <2>3
      <3>2. read.days \in Int /\ read.enabled \in BOOLEAN
        BY DEF TypeOK, Client
      <3>3. d \in Client /\ d.here
        BY <1>2, <3>1, <3>2 DEF Client
      <3> QED  BY <2>1, <3>1, <3>3 DEF MadeBy
    <2> QED  BY <1>4, <2>2, <2>3 DEF Update
  <1>5. CASE Adjust
    <2> DEFINE d == [Absent EXCEPT !.days = cmd.want.days - read.days]
    <2>1. cmd.want.days - read.days \in Int
      BY <1>2 DEF TypeOK, Client, Desired
    <2>2. d \in Client
      BY <2>1 DEF Absent, Client
    <2>3. Send("adjust", d) \in Write /\ OwnWrite(Send("adjust", d))
      BY <1>2, <1>5, <2>2 DEF Send, Write, OwnWrite, Adjust
    <2>4. \E next : Posted(Send("adjust", d), next) \/ Unanswered(Send("adjust", d), next)
      BY <1>5 DEF Adjust
    <2> QED  BY <2>3, <2>4, PostedBy
  <1>6. CASE CleanOne
    <2>1. PICK i \in Outdated : LET w == [Send("del", Absent) EXCEPT !.id = i]
                                IN  \E next : Posted(w, next) \/ Unanswered(w, next)
      BY <1>6 DEF CleanOne
    <2> DEFINE w == [Send("del", Absent) EXCEPT !.id = i]
    <2>2. w \in Write /\ OwnWrite(w)
      BY <1>2, <1>6, OutdatedFacts DEF Send, Write, OwnWrite, CleanOne
    <2> QED  BY <2>1, <2>2, PostedBy
  <1> QED  BY <1>3, <1>4, <1>5, <1>6 DEF PanelSteps

-----------------------------------------------------------------------------
\* Load writes the command's own name, or that of the newest older file.
LEMMA LoadFacts ==
  ASSUME TypeOK, Admitted, Named, Load
  PROVE  \/ state' = state /\ (Identity # 0 \/ pc' = "idle")
         \/ /\ Identity = 0 /\ pc' = "lookup" /\ cmd' = cmd
            /\ \E i \in Versions : /\ state' = [state EXCEPT ![cmd.version] = i]
                                   /\ i <= cmd.version
                                   /\ \A v \in Files : state[v] <= i
  <1> DEFINE older == {v \in Files : v < cmd.version}
             newest == Max(older)
  <1>1. pc = "load" /\ cmd.version \in Versions
    BY CommandFacts DEF Load
  <1>2. CASE Identity # 0
    <2>1. state' = state
      BY <1>1, <1>2 DEF Load, TypeOK, Identity
    <2> QED  BY <1>2, <2>1
  <1>3. CASE Identity = 0
    <2>1. \A v \in Files : /\ v \in Versions /\ v < cmd.version
                           /\ state[v] \in Versions /\ state[v] <= v
      BY <1>1, <1>3, BoundAssumption DEF Admitted, Named, Files, Identity, Working, TypeOK, Versions
    <2>2. CASE cmd.op # "update"
      <3>1. state' = [state EXCEPT ![cmd.version] = cmd.version]
        BY <1>1, <1>3, <2>2 DEF Load, Identity, TypeOK
      <3>2. \A v \in Files : state[v] <= cmd.version
        BY <1>1, <2>1, BoundAssumption DEF Versions
      <3>3. pc' = "lookup" /\ cmd' = cmd
        BY <1>3, <2>2 DEF Load, Goto
      <3>4. cmd.version <= cmd.version
        BY <1>1, BoundAssumption DEF Versions
      <3> QED  BY <1>1, <1>3, <3>1, <3>2, <3>3, <3>4
    <2>3. CASE cmd.op = "update" /\ older = {}
      BY <1>3, <2>3 DEF Load, Stop
    <2>4. CASE cmd.op = "update" /\ older # {}
      <3>1. newest \in older /\ \A v \in older : v <= newest
        <4>1. older \in SUBSET (0..MaxVersion)
          BY <2>1, BoundAssumption DEF Versions
        <4> QED  BY <2>4, <4>1, MaxOf
      <3> HIDE DEF newest
      <3>2. state' = [state EXCEPT ![cmd.version] = state[newest]]
        BY <1>1, <1>3, <2>4 DEF Load, Identity, TypeOK, newest
      <3>3. pc' = "lookup" /\ cmd' = cmd
        BY <1>3, <2>4 DEF Load, Goto
      <3>4. newest \in Files /\ \A v \in Files : v <= newest
        BY <2>1, <3>1
      <3>5. \A v \in Files : state[v] <= state[newest]
        BY <3>4 DEF Named
      <3>6. state[newest] \in Versions /\ state[newest] <= cmd.version
        BY <1>1, <2>1, <3>4, BoundAssumption DEF Versions
      <3> QED  BY <1>3, <3>2, <3>3, <3>5, <3>6
    <2> QED  BY <2>2, <2>3, <2>4
  <1> QED  BY <1>2, <1>3

\* Files once written keep their identity.
LEMMA FilesKept ==
  ASSUME TypeOK, Admitted, Named, [Next]_vars
  PROVE  /\ state' \in [Versions -> 0..MaxVersion]
         /\ Files \subseteq Files'
         /\ \A v \in Versions : state[v] # 0 => state'[v] = state[v]
  <1>1. CASE state' = state
    BY <1>1 DEF TypeOK, Files
  <1>2. CASE Load /\ state' # state
    <2>1. PICK i \in Versions : state' = [state EXCEPT ![cmd.version] = i]
      BY <1>2, LoadFacts
    <2>2. cmd.version \in Versions /\ state[cmd.version] = 0
      BY <1>2, LoadFacts, CommandFacts DEF Load, Identity
    <2> QED  BY <2>1, <2>2, BoundAssumption DEF TypeOK, Files, Versions
  <1> QED  BY <1>1, <1>2, Frame

LEMMA WorldType ==
  ASSUME TypeOK, Named, [Next]_vars
  PROVE  panel' \in [Versions -> Client] /\ flight' \subseteq Write /\ touched' \subseteq Versions
  <1> USE DEF TypeOK
  <1>1. CASE PanelSteps
    <2>1. PICK w : MadeBy(w)
      BY <1>1, Sends
    <2>2. touched' = touched
      BY <1>1 DEF PanelSteps, Add, Update, Adjust, CleanOne
    <2> QED  BY <2>1, <2>2, EffectType DEF MadeBy
  <1>2. CASE \E w \in flight : Arrive(w)
    <2>1. PICK w \in flight : Arrive(w)
      BY <1>2
    <2>2. w \in Write /\ w.id \in Versions
      BY <2>1 DEF Write
    <2> QED  BY <2>1, <2>2, EffectType DEF Arrive
  <1> QED  BY <1>1, <1>2, Frame

LEMMA CommandType ==
  ASSUME TypeOK, Admitted, Named, [Next]_vars
  PROVE  /\ issued' \subseteq Command /\ done' \subseteq issued'
         /\ fence' \in Command \cup {NoCommand} /\ cmd' \in Command \cup {NoCommand}
         /\ pc' = "idle" <=> cmd' = NoCommand
         /\ material' \subseteq Command \X Versions
  <1>1. issued' \subseteq Command /\ issued \subseteq issued'
    BY Frame DEF TypeOK, Issue
  <1>2. done' \subseteq issued'
    BY <1>1, Frame DEF TypeOK, Result, Admitted
  <1>3. fence' \in Command \cup {NoCommand}
    BY Frame DEF TypeOK, Admit
  <1>4. pc' # "idle" => cmd' \in Command
    BY ControlStep, CommandFacts DEF Moves, TypeOK
  <1>5. pc' = "idle" => cmd' = NoCommand
    BY CommandFacts DEF Next, Execute, vars, local, Issue, Poll, Admit, Load, Lookup, Add,
         Added, Update, Updated, Adjust, Adjusted, Links, Materialize, CleanOne, CleanDone,
         Result, Fail, Crash, Arrive, Goto, Stop, Posted, Unanswered
  <1>6. material' \subseteq Command \X Versions
    <2>1. Materialize => cmd \in Command /\ Identity \in Versions
      BY IdentityFacts DEF Materialize, Working
    <2> QED  BY <2>1, Frame DEF TypeOK, Materialize
  <1> QED  BY <1>1, <1>2, <1>3, <1>4, <1>5, <1>6, CommandFacts

Label == {"idle", "admit", "load", "lookup", "add", "added", "update", "updated",
          "adjust", "adjusted", "links", "material", "clean", "result"}
LEMMA LocalType ==
  ASSUME TypeOK, Named, [Next]_vars
  PROVE  /\ pc' \in Label /\ read' \in Client
         /\ crashes' \in 0..MaxCrash /\ faults' \in 0..MaxFault /\ late' \in 0..MaxLate
  <1>1. Absent \in Client
    BY DEF Absent, Client
  <1>2. pc \in {"lookup", "added", "updated"} => panel[Identity] \in Client
    BY IdentityFacts DEF Working, TypeOK
  <1>3. pc' \in Label
    BY DEF Label, TypeOK, Next, Execute, vars, local, Issue, Poll, Admit, Load, Lookup, Add,
         Added, Update, Updated, Adjust, Adjusted, Links, Materialize, CleanOne, CleanDone,
         Result, Fail, Crash, Arrive, Goto, Stop, Posted, Unanswered
  <1>4. \/ read' \in {read, Absent}
        \/ pc \in {"lookup", "added", "updated"} /\ read' = panel[Identity]
    BY DEF Next, Execute, vars, local, Issue, Poll, Admit, Load, Lookup, Add,
         Added, Update, Updated, Adjust, Adjusted, Links, Materialize, CleanOne, CleanDone,
         Result, Fail, Crash, Arrive, Goto, Stop, Posted, Unanswered
  <1>5. \/ UNCHANGED budget
        \/ Fault
        \/ late < MaxLate /\ late' = late + 1 /\ UNCHANGED <<crashes, faults>>
        \/ crashes < MaxCrash /\ crashes' = crashes + 1 /\ UNCHANGED <<late, faults>>
    BY DEF budget, Next, Execute, vars, local, Issue, Poll, Admit, Load, Lookup, Add,
         Added, Update, Updated, Adjust, Adjusted, Links, Materialize, CleanOne, CleanDone,
         Result, Fail, Crash, Arrive, Posted, Unanswered
  <1>6. crashes' \in 0..MaxCrash /\ faults' \in 0..MaxFault /\ late' \in 0..MaxLate
    BY <1>5, BoundAssumption DEF TypeOK, budget, Fault
  <1>7. read' \in Client
    BY <1>1, <1>2, <1>4 DEF TypeOK
  <1> QED  BY <1>3, <1>6, <1>7

LEMMA TypeStep == IInv /\ [Next]_vars => TypeOK'
  BY FilesKept, WorldType, CommandType, LocalType DEF IInv, TypeOK, Label

-----------------------------------------------------------------------------
LEMMA AdmittedStep == IInv /\ [Next]_vars => Admitted'
  <1> SUFFICES ASSUME IInv, [Next]_vars PROVE Admitted'
    OBVIOUS
  <1> USE DEF IInv
  <1>1. pc' # "idle" => cmd' \in issued' \ done'
    <2>1. issued \subseteq issued'
      BY Frame DEF Issue
    <2>2. ~Result => done' = done
      BY Frame
    <2>3. Result => pc' = "idle"
      BY DEF Result, Stop
    <2> QED  BY <2>1, <2>2, <2>3, ControlStep DEF Moves, Admitted
  <1>2. ASSUME pc' \in Working PROVE fence' = cmd' /\ \A v \in Files' : v <= cmd'.version
    <2>1. cmd' = cmd /\ (pc \in Working \/ Admit)
      BY <1>2, ControlStep DEF Moves
    <2>2. CASE Admit
      <3>1. Admissible /\ fence' = cmd /\ Files' = Files
        BY <1>2, <2>2 DEF Admit, Stop, Working, Files
      <3>2. {fence.version} \cup Files \in SUBSET (0..MaxVersion)
        BY BoundAssumption DEF TypeOK, Command, NoCommand, Files, Versions
      <3>3. Highest \in 0..MaxVersion /\ \A v \in Files : v <= Highest
        BY <3>2, MaxOf DEF Highest
      <3>4. cmd.version \in Versions /\ cmd.version >= Highest
        BY <2>2, <3>1, <3>3, CommandFacts, BoundAssumption DEF Admissible, Admit, Versions
      <3>5. \A v \in Files : v <= cmd.version
        BY <3>3, <3>4, BoundAssumption DEF Files, Versions
      <3> QED  BY <2>1, <3>1, <3>5
    <2>3. CASE ~Admit
      <3>1. pc \in Working /\ fence' = fence
        BY <2>1, <2>3, Frame
      <3>2. Files' \subseteq Files \cup {cmd.version}
        BY <3>1, Frame, LoadFacts DEF Files, TypeOK
      <3>3. cmd.version \in Versions
        BY <3>1, CommandFacts DEF Working
      <3> QED  BY <2>1, <3>1, <3>2, <3>3, BoundAssumption DEF Admitted, Versions
    <2> QED  BY <2>2, <2>3
  <1> QED  BY <1>1, <1>2 DEF Admitted

LEMMA NamedStep == IInv /\ [Next]_vars => Named'
  <1> SUFFICES ASSUME IInv, [Next]_vars PROVE Named'
    OBVIOUS
  <1> USE DEF IInv
  <1>1. CASE state' = state /\ ~Load
    <2>1. pc' \in Working \ {"load"} => Identity' # 0
      BY <1>1, ControlStep DEF Moves, Named, Working, Identity
    <2> QED  BY <1>1, <2>1 DEF Named, Files
  <1>2. CASE Load /\ (state' = state /\ (Identity # 0 \/ pc' = "idle"))
    <2>1. pc' # "idle" => cmd' = cmd
      BY <1>2, ControlStep DEF Moves, Load
    <2> QED  BY <1>2, <2>1 DEF Named, Files, Working, Identity
  <1>3. CASE /\ Load /\ Identity = 0 /\ pc' = "lookup" /\ cmd' = cmd
             /\ \E i \in Versions : /\ state' = [state EXCEPT ![cmd.version] = i]
                                    /\ i <= cmd.version
                                    /\ \A v \in Files : state[v] <= i
    <2>1. PICK i \in Versions : /\ state' = [state EXCEPT ![cmd.version] = i]
                                /\ i <= cmd.version
                                /\ \A v \in Files : state[v] <= i
      BY <1>3
    <2>2. cmd.version \in Versions /\ i # 0
      BY <1>3, CommandFacts, BoundAssumption DEF Load, Versions
    <2>3. Files' = Files \cup {cmd.version} /\ cmd.version \notin Files
      BY <1>3, <2>1, <2>2 DEF Files, TypeOK, Identity
    <2>4. \A v \in Files : v < cmd.version /\ state'[v] = state[v]
      <3>1. \A v \in Files : v \in Versions /\ v <= cmd.version
        BY <1>3 DEF Load, Admitted, Working, Files
      <3> QED  BY <2>1, <2>2, <2>3, <3>1, BoundAssumption DEF TypeOK, Versions
    <2>5. state'[cmd.version] = i
      BY <2>1, <2>2 DEF TypeOK
    <2>6. \A v \in Files' : state'[v] <= v
      BY <2>1, <2>3, <2>4, <2>5 DEF Named
    <2>7. \A u, v \in Files' : u <= v => state'[u] <= state'[v]
      <3> SUFFICES ASSUME NEW u \in Files', NEW v \in Files', u <= v PROVE state'[u] <= state'[v]
        OBVIOUS
      <3>1. u \in Versions /\ v \in Versions
        BY DEF Files
      <3>2. CASE v \in Files /\ u \in Files
        BY <2>4, <3>2 DEF Named
      <3>3. CASE v = cmd.version
        BY <2>1, <2>3, <2>4, <2>5, <3>3, BoundAssumption DEF Versions
      <3>4. CASE v \in Files /\ u = cmd.version
        BY <2>4, <3>1, <3>4, BoundAssumption DEF Versions
      <3> QED  BY <2>3, <3>2, <3>3, <3>4
    <2> QED  BY <1>3, <2>2, <2>5, <2>6, <2>7 DEF Named, Identity
  <1> QED  BY <1>1, <1>2, <1>3, Frame, LoadFacts

LEMMA MaterialsStep == IInv /\ [Next]_vars => Materials'
  <1> SUFFICES ASSUME IInv, [Next]_vars PROVE Materials'
    OBVIOUS
  <1> USE DEF IInv
  <1>1. ASSUME NEW c \in Command, Fenced(c) PROVE Fenced(c)'
    <2>1. CASE Admit
      <3>1. CASE fence' = fence
        BY <1>1, <3>1 DEF Fenced
      <3>2. CASE fence' # fence
        <4>1. Admissible /\ fence' = cmd /\ cmd.version > Highest
          BY <2>1, <3>2 DEF Admit, Admissible
        <4>2. {fence.version} \cup Files \in SUBSET (0..MaxVersion)
          BY BoundAssumption DEF TypeOK, Command, NoCommand, Files, Versions
        <4>3. /\ Highest \in 0..MaxVersion /\ fence.version \in 0..MaxVersion
              /\ fence.version <= Highest
          BY <4>2, MaxOf DEF Highest
        <4>4. cmd.version \in Versions /\ c.version \in Versions
          BY <2>1, CommandFacts DEF Admit, Command
        <4>5. c.version < cmd.version
          BY <1>1, <4>1, <4>3, <4>4, BoundAssumption DEF Fenced, Versions
        <4> QED  BY <4>1, <4>4, <4>5, BoundAssumption DEF Fenced, Versions
      <3> QED  BY <3>1, <3>2
    <2>2. CASE fence' = fence
      BY <1>1, <2>2 DEF Fenced
    <2> QED  BY <2>1, <2>2, Frame
  <1>2. fence = cmd /\ cmd \in Command => Fenced(cmd)
    BY BoundAssumption DEF Fenced, Command, Versions
  <1>3. \A v \in Versions : state[v] # 0 => state'[v] = state[v] /\ state'[v] # 0
    BY FilesKept
  <1>4. \A m \in material' : Fenced(m[1])' /\ m[2] = state'[m[1].version] /\ m[2] # 0
    <2> SUFFICES ASSUME NEW m \in material'
                 PROVE  Fenced(m[1])' /\ m[2] = state'[m[1].version] /\ m[2] # 0
      OBVIOUS
    <2>1. CASE m \in material
      <3>1. m[1] \in Command /\ m[1].version \in Versions
        BY <2>1 DEF TypeOK, Command
      <3> QED  BY <1>1, <1>3, <2>1, <3>1 DEF Materials
    <2>2. CASE m \notin material
      <3>1. Materialize /\ m = <<cmd, Identity>>
        BY <2>2, Frame DEF Materialize
      <3>2. Identity # 0 /\ cmd \in Command /\ fence = cmd /\ cmd.version \in Versions
        BY <3>1, CommandFacts DEF Materialize, Named, Admitted, Working
      <3> QED  BY <1>1, <1>2, <1>3, <3>1, <3>2 DEF Identity
    <2> QED  BY <2>1, <2>2
  <1>5. pc' \in Delivered => <<cmd', Identity'>> \in material'
    <2> SUFFICES ASSUME pc' \in Delivered PROVE <<cmd', Identity'>> \in material'
      OBVIOUS
    <2>1. cmd' = cmd /\ material \subseteq material'
      BY ControlStep, Frame DEF Moves, Working, Delivered, Materialize
    <2>2. pc \in Delivered \/ Materialize
      BY ControlStep DEF Moves
    <2>3. Identity' = Identity
      BY <1>3, <2>1, <2>2, CommandFacts DEF Named, Working, Delivered, Materialize, Identity
    <2>4. CASE pc \in Delivered
      BY <2>1, <2>3, <2>4 DEF Materials
    <2>5. CASE Materialize
      BY <2>1, <2>3, <2>5 DEF Materialize, Stop, Delivered
    <2> QED  BY <2>2, <2>4, <2>5
  <1>6. \A c \in done' : Fenced(c)' /\ state'[c.version] # 0
    <2> SUFFICES ASSUME NEW c \in done' PROVE Fenced(c)' /\ state'[c.version] # 0
      OBVIOUS
    <2>1. CASE c \in done
      <3>1. c \in Command /\ c.version \in Versions
        BY <2>1 DEF TypeOK, Command
      <3> QED  BY <1>1, <1>3, <2>1, <3>1 DEF Materials
    <2>2. CASE c \notin done
      <3>1. Result /\ c = cmd
        BY <2>2, Frame DEF Result
      <3>2. Identity # 0 /\ cmd \in Command /\ fence = cmd /\ cmd.version \in Versions
        BY <3>1, CommandFacts DEF Result, Named, Admitted, Working
      <3> QED  BY <1>1, <1>2, <1>3, <3>1, <3>2 DEF Identity
    <2> QED  BY <2>1, <2>2
  <1>7. OneMaterialPerVersion'
    <2> SUFFICES ASSUME NEW m \in material', NEW n \in material', m[1].version = n[1].version
                 PROVE  m = n
      BY DEF OneMaterialPerVersion
    <2>1. m \in Command \X Versions /\ n \in Command \X Versions /\ m[2] = n[2]
      BY <1>4, CommandType
    <2>2. m[1] = n[1]
      <3>1. CASE m \in material /\ n \in material
        BY <3>1 DEF Materials, OneMaterialPerVersion
      <3>2. CASE ~(m \in material /\ n \in material)
        <4>1. Materialize /\ {m, n} \subseteq material \cup {<<cmd, Identity>>}
          BY <3>2, Frame DEF Materialize
        <4>2. fence = cmd
          BY <4>1 DEF Materialize, Admitted, Working
        <4> QED  BY <3>2, <4>1, <4>2 DEF Materials, Fenced
      <3> QED  BY <3>1, <3>2
    <2> QED  BY <2>1, <2>2
  <1> QED  BY <1>4, <1>5, <1>6, <1>7 DEF Materials

-----------------------------------------------------------------------------
\* What a step can do to one client of the panel.
LEMMA ClientStep ==
  ASSUME IInv, [Next]_vars, NEW i \in Versions
  PROVE  \/ panel'[i] = panel[i]
         \/ i \in touched'
         \/ /\ pc \in {"add", "update", "adjust", "clean"}
            /\ \E w : MadeBy(w) /\ w.id = i /\ panel' = Effect(panel, w)
  <1> USE DEF IInv, TypeOK
  <1>1. CASE PanelSteps
    <2>1. PICK w : MadeBy(w)
      BY <1>1, Sends
    <2>2. pc \in {"add", "update", "adjust", "clean"}
      BY <2>1 DEF MadeBy, OwnWrite
    <2> QED  BY <2>1, <2>2, EffectElsewhere, ControlStep DEF MadeBy, Moves
  <1>2. CASE \E w \in flight : Arrive(w)
    <2>1. PICK w \in flight : Arrive(w)
      BY <1>2
    <2> QED  BY <2>1, EffectElsewhere DEF Arrive
  <1> QED  BY <1>1, <1>2, Frame
LEMMA TouchedGrows == [Next]_vars => touched \subseteq touched'
  BY Frame DEF Arrive

LEMMA KnownStep == IInv /\ [Next]_vars => ClientsAreKnown'
  <1> SUFFICES ASSUME IInv, [Next]_vars PROVE ClientsAreKnown'
    OBVIOUS
  <1> USE DEF IInv
  <1> DEFINE known == {state[v] : v \in Files}
  <1>1. known \subseteq known'
    BY FilesKept DEF Files
  <1>2. panel \in [Versions -> Client] /\ flight \subseteq Write
    BY DEF TypeOK
  <1>3. \A w : MadeBy(w) => w.id \in known
    <2> SUFFICES ASSUME NEW w, MadeBy(w) PROVE w.id \in known
      OBVIOUS
    <2>1. CASE w.id = Identity /\ pc \in Working \ {"load"}
      BY <2>1, IdentityFacts DEF Identity
    <2>2. CASE w.id \in Outdated
      BY <2>2 DEF Outdated
    <2> QED  BY <2>1, <2>2 DEF MadeBy, OwnWrite, Working
  <1>4. \A w \in flight : w.id \in known
    BY DEF ClientsAreKnown
  <1>5. \A i \in Versions : panel'[i].here => i \in known
    <2> SUFFICES ASSUME NEW i \in Versions, panel'[i].here, ~panel[i].here PROVE i \in known
      BY DEF ClientsAreKnown
    <2>1. CASE PanelSteps
      <3>1. PICK w : MadeBy(w)
        BY <2>1, Sends
      <3> QED  BY <1>2, <1>3, <3>1, EffectAppears DEF MadeBy
    <2>2. CASE \E w \in flight : Arrive(w)
      <3>1. PICK w \in flight : Arrive(w)
        BY <2>2
      <3> QED  BY <1>2, <1>4, <3>1, EffectAppears DEF Arrive
    <2> QED  BY <2>1, <2>2, Frame
  <1>6. \A w \in flight' : w.id \in known
    <2>1. CASE PanelSteps
      <3>1. PICK w : MadeBy(w)
        BY <2>1, Sends
      <3> QED  BY <1>3, <1>4, <3>1 DEF MadeBy
    <2>2. CASE \E w \in flight : Arrive(w)
      BY <1>4, <2>2 DEF Arrive
    <2> QED  BY <1>4, <2>1, <2>2, Frame
  <1> QED  BY <1>1, <1>5, <1>6 DEF ClientsAreKnown

LEMMA ReceiptsStep == IInv /\ [Next]_vars => Receipts'
  <1> SUFFICES ASSUME IInv, [Next]_vars PROVE Receipts'
    OBVIOUS
  <1> USE DEF IInv
  <1>1. ASSUME pc' \in Checked, Identity' \notin touched'
        PROVE  Matches(panel'[Identity'], cmd')
    <2>1. cmd' = cmd /\ (pc \in Checked \/ Found) /\ pc' # "idle"
      BY <1>1, ControlStep DEF Moves, Checked, Working
    <2>2. CASE Found
      BY <2>1, <2>2 DEF Found, Identity, Matches
    <2>3. CASE pc \in Checked
      <3>1. Identity \in Versions /\ state' = state
        BY <2>3, IdentityFacts, Frame DEF Working, Checked, Load
      <3>2. Identity' = Identity /\ Identity \notin touched
        BY <1>1, <2>1, <3>1, TouchedGrows DEF Identity
      <3>3. \A w : MadeBy(w) => w.id # Identity
        BY <2>3, <3>1, OutdatedFacts, BoundAssumption DEF MadeBy, OwnWrite, Checked, Versions
      <3>4. panel'[Identity] = panel[Identity]
        BY <1>1, <3>1, <3>2, <3>3, ClientStep
      <3>5. Matches(panel[Identity], cmd)
        BY <2>3, <3>2 DEF Receipts
      <3> QED  BY <2>1, <3>2, <3>4, <3>5
    <2> QED  BY <2>1, <2>2, <2>3
  <1>2. ASSUME NEW c \in done', fence' = c, state'[c.version] \notin touched'
        PROVE  Matches(panel'[state'[c.version]], c)
    <2>1. CASE c \notin done
      <3>1. Result /\ c = cmd
        BY <1>2, <2>1, Frame DEF Result
      <3>2. Matches(panel[Identity], cmd)
        BY <1>2, <3>1 DEF Result, Receipts, Checked, Identity
      <3> QED  BY <3>1, <3>2 DEF Result, Identity
    <2>2. CASE c \in done
      <3>1. fence = c
        <4>1. CASE Admit
          <5>1. fence' = fence \/ (fence' = cmd /\ cmd \notin done)
            BY <4>1 DEF Admit, Admitted
          <5> QED  BY <1>2, <2>2, <5>1
        <4> QED  BY <1>2, <4>1, Frame
      <3>2. c.version \in Versions /\ state[c.version] # 0
        BY <2>2 DEF TypeOK, Command, Materials
      <3>3. state'[c.version] = state[c.version] /\ state[c.version] \in Versions
        BY <3>2, FilesKept, BoundAssumption DEF TypeOK, Versions
      <3>4. pc \notin Working
        BY <2>2, <3>1 DEF Admitted, Working
      <3>5. panel'[state[c.version]] = panel[state[c.version]]
        BY <1>2, <3>3, <3>4, ClientStep DEF MadeBy, OwnWrite, Working
      <3>6. Matches(panel[state[c.version]], c)
        BY <1>2, <2>2, <3>1, <3>3, TouchedGrows DEF Receipts, ReceiptIsTrue
      <3> QED  BY <3>3, <3>5, <3>6
    <2> QED  BY <2>1, <2>2
  <1> QED  BY <1>1, <1>2 DEF Receipts, ReceiptIsTrue

LEMMA ReplacedStep == IInv /\ [Next]_vars => Replaced'
  <1> SUFFICES ASSUME IInv, [Next]_vars PROVE Replaced'
    OBVIOUS
  <1> USE DEF IInv
  <1>1. ASSUME NEW c \in Command, state[c.version] # 0, Fenced(c), NEW v \in Files, v < c.version,
               state[v] \notin touched', state[v] # state[c.version], ~panel[state[v]].here
        PROVE  ~panel'[state[v]].here
    <2> SUFFICES ASSUME panel'[state[v]].here PROVE FALSE
      OBVIOUS
    <2>1. state[v] \in Versions /\ v \in Versions /\ c.version \in Files
      BY <1>1, BoundAssumption DEF Files, TypeOK, Versions, Command
    <2>2. PICK w : MadeBy(w) /\ w.id = state[v] /\ panel' = Effect(panel, w)
      BY <1>1, <2>1, ClientStep
    <2>3. w.kind = "add" /\ w.id = Identity /\ pc \in Working \ {"load"}
      BY <1>1, <2>1, <2>2, EffectAppears DEF MadeBy, OwnWrite, TypeOK, Working
    <2>4. cmd.version \in Files /\ c.version <= cmd.version
      BY <1>1, <2>3, IdentityFacts DEF Fenced, Admitted, Working
    <2>5. state[v] <= state[c.version] /\ state[c.version] <= Identity
      BY <1>1, <2>1, <2>4, BoundAssumption DEF Named, Identity, Versions, Files
    <2> QED  BY <1>1, <2>1, <2>2, <2>3, <2>5, BoundAssumption DEF TypeOK, Versions, Files
  <1>2. ASSUME NEW c \in Command, c.version \in Files, NEW v \in Files', v < c.version, Fenced(c)
        PROVE  v \in Files /\ state'[v] = state[v] /\ state'[c.version] = state[c.version]
    <2>1. v \in Versions /\ c.version \in Versions
      BY <1>2 DEF Files
    <2>2. state'[c.version] = state[c.version] /\ (v \in Files => state'[v] = state[v])
      BY <1>2, <2>1, FilesKept DEF Files
    <2>3. v \in Files
      <3>1. CASE Load
        <4>1. cmd.version \in Versions /\ fence = cmd /\ pc = "load"
          BY <3>1, CommandFacts DEF Load, Admitted, Working
        <4>2. v # cmd.version
          BY <1>2, <2>1, <4>1, BoundAssumption DEF Fenced, Versions
        <4> QED  BY <1>2, <2>1, <3>1, <4>2, LoadFacts DEF Files, TypeOK
      <3> QED  BY <1>2, <3>1, Frame DEF Files
    <2> QED  BY <2>2, <2>3
  <1>3. ASSUME NEW c \in done', c.op = "replace",
               NEW v \in Files', v < c.version, state'[v] \notin touched'
        PROVE  state'[v] = state'[c.version] \/ ~panel'[state'[v]].here
    <2>1. CASE c \in done
      <3>1. c \in Command /\ Fenced(c) /\ state[c.version] # 0 /\ c.version \in Files
        BY <2>1 DEF TypeOK, Materials, Command, Files
      <3>2. v \in Files /\ state'[v] = state[v] /\ state'[c.version] = state[c.version]
        BY <1>2, <1>3, <2>1, <3>1
      <3>3. state[v] = state[c.version] \/ ~panel[state[v]].here
        BY <1>3, <2>1, <3>2, TouchedGrows DEF Replaced, ReplacedIsGone
      <3> QED  BY <1>1, <1>3, <3>1, <3>2, <3>3
    <2>2. CASE c \notin done
      <3>1. Result /\ c = cmd
        BY <1>3, <2>2, Frame DEF Result
      <3> QED  BY <1>3, <3>1 DEF Result, Replaced, Identity, Files
    <2> QED  BY <2>1, <2>2
  <1>4. ASSUME pc' = "result", cmd'.op = "replace",
               NEW v \in Files', v < cmd'.version, state'[v] \notin touched'
        PROVE  state'[v] = Identity' \/ ~panel'[state'[v]].here
    <2>1. cmd' = cmd
      BY <1>4, ControlStep DEF Moves, Working
    <2>2. CASE pc = "result" /\ state' = state
      <3>1. cmd \in Command /\ Identity # 0 /\ cmd.version \in Files /\ Fenced(cmd)
        BY <2>2, IdentityFacts, BoundAssumption
           DEF Working, Named, Admitted, Fenced, Files, Versions
      <3>2. v \in Files /\ state'[v] = state[v]
        BY <1>4, <2>2 DEF Files
      <3>3. state[v] = Identity \/ ~panel[state[v]].here
        BY <1>4, <2>1, <2>2, <3>2, TouchedGrows DEF Replaced
      <3> QED  BY <1>1, <1>4, <2>1, <2>2, <3>1, <3>2, <3>3 DEF Identity
    <2>3. CASE Gone /\ UNCHANGED <<panel, state>>
      BY <1>4, <2>1, <2>3 DEF Gone, Outdated, Identity, Files
    <2> QED  BY <1>4, <2>1, <2>2, <2>3, ControlStep DEF Moves
  <1> QED  BY <1>3, <1>4 DEF Replaced, ReplacedIsGone

LEMMA DeletionsStep == IInv /\ [Next]_vars => Deletions'
  <1> SUFFICES ASSUME IInv, [Next]_vars PROVE Deletions'
    OBVIOUS
  <1> USE DEF IInv
  <1>1. material \subseteq material'
    BY Frame DEF Materialize
  <1>2. CASE flight' \subseteq flight
    BY <1>1, <1>2 DEF Deletions
  <1>3. CASE PanelSteps
    <2>1. PICK w : MadeBy(w)
      BY <1>3, Sends
    <2>2. w.kind = "del" => \E n \in material : w.id < n[2]
      <3> SUFFICES ASSUME w.kind = "del" PROVE \E n \in material : w.id < n[2]
        OBVIOUS
      <3>1. pc = "clean" /\ w.id \in Outdated
        BY <2>1 DEF MadeBy, OwnWrite
      <3>2. w.id < Identity /\ <<cmd, Identity>> \in material
        BY <3>1, OutdatedFacts DEF Materials, Delivered
      <3> QED  BY <3>2
    <2>3. w.kind \in {"add", "update"} => w.client.here
      BY <2>1 DEF MadeBy, OwnWrite
    <2> QED  BY <1>1, <2>1, <2>2, <2>3 DEF Deletions, MadeBy
  <1> QED  BY <1>2, <1>3, Frame DEF Arrive
-----------------------------------------------------------------------------
LegacyClient(w) == [here |-> TRUE, enabled |-> TRUE, days |-> w.days, limit |-> w.limit]
LEMMA InvInit == Init => IInv
  <1> SUFFICES ASSUME Init PROVE IInv
    OBVIOUS
  <1>1. PICK legacy \in {0, 1}, w \in Entitlements :
          /\ state = [v \in Versions |-> IF v = 1 THEN legacy ELSE 0]
          /\ panel = [v \in Versions |->
               IF v = legacy THEN LegacyClient(w) ELSE Absent]
    BY DEF Init, LegacyClient
  <1>2. w.days \in Nat /\ w.limit \in Nat
    BY DataAssumption
  <1>3. Absent \in Client /\ LegacyClient(w) \in Client /\ LegacyClient(w).here
    BY <1>2 DEF Absent, Client, LegacyClient
  <1>4. panel \in [Versions -> Client]
    BY <1>1, <1>3
  <1>5. \A v \in Versions : state[v] = IF v = 1 THEN legacy ELSE 0
    BY <1>1
  <1>6. state \in [Versions -> 0..MaxVersion]
    <2>1. \A v \in Versions : (IF v = 1 THEN legacy ELSE 0) \in 0..MaxVersion
      BY BoundAssumption DEF Versions
    <2> QED  BY <1>1, <2>1
  <1>7. \A v \in Files : v = 1 /\ legacy = 1 /\ state[v] = 1
    BY <1>5 DEF Files
  <1>10. TypeOK
    <2>1. Absent \in Client /\ {} \subseteq Write
      BY <1>3
    <2>2. 0 \in 0..MaxCrash /\ 0 \in 0..MaxFault /\ 0 \in 0..MaxLate
      BY BoundAssumption
    <2>3. NoCommand \in Command \cup {NoCommand} /\ "idle" \in Label
      BY DEF Label
    <2> QED  BY <1>4, <1>6, <2>1, <2>2, <2>3 DEF Init, TypeOK, Label
  <1>11. \A i \in Versions : panel[i].here => i \in {state[v] : v \in Files}
    <2> SUFFICES ASSUME NEW i \in Versions, panel[i].here PROVE i \in {state[v] : v \in Files}
      OBVIOUS
    <2>1. i = legacy /\ i = 1
      BY <1>1, BoundAssumption DEF Absent, Versions
    <2> QED  BY <1>5, <2>1 DEF Files
  <1>8. Admitted /\ Named
    BY <1>7 DEF Init, Admitted, Named, Working
  <1>9. Materials /\ ClientsAreKnown /\ Receipts /\ Replaced /\ Deletions
    BY <1>11 DEF Init, Materials, OneMaterialPerVersion, Delivered, ClientsAreKnown,
                Receipts, ReceiptIsTrue, Checked,
                Replaced, ReplacedIsGone, Deletions
  <1> QED  BY <1>8, <1>9, <1>10 DEF IInv

\* The inductive invariant: the command in hand, the fence, the identity files,
\* the panel and what the SaaS holds agree at each program point.
THEOREM Invariance == Spec => []IInv
  <1>1. IInv /\ [Next]_vars => IInv'
    BY TypeStep, AdmittedStep, NamedStep, MaterialsStep, KnownStep, ReceiptsStep, ReplacedStep,
       DeletionsStep DEF IInv
  <1> QED  BY InvInit, <1>1, PTL DEF Spec

\* The executor, its files and the panel stay well-typed.
THEOREM TypeCorrect == Spec => []TypeOK
  BY Invariance, PTL DEF IInv

\* Whatever is lost, late or interrupted, no client of the panel is unknown to
\* the identity files that cleanup reads.
THEOREM NoUnknownClient == Spec => []ClientsAreKnown
  BY Invariance, PTL DEF IInv

\* Replays never reach the SaaS with a second payload or identity for a version.
THEOREM OneMaterial == Spec => []OneMaterialPerVersion
  <1>1. IInv => OneMaterialPerVersion
    BY DEF IInv, Materials
  <1> QED  BY Invariance, <1>1, PTL

\* A success the SaaS recorded says what the panel holds.
THEOREM TrueReceipts == Spec => []ReceiptIsTrue
  <1>1. IInv => ReceiptIsTrue
    BY DEF IInv, Receipts
  <1> QED  BY Invariance, <1>1, PTL

\* A recorded replacement leaves no older credential in the panel.
THEOREM OldIsGone == Spec => []ReplacedIsGone
  <1>1. IInv => ReplacedIsGone
    BY DEF IInv, Replaced
  <1> QED  BY Invariance, <1>1, PTL

\* Only the command admitted last writes to the panel, and never once a newer
\* identity is on disk; the fence never goes back.
THEOREM FenceHolds == Spec => NoRevert
  <1> DEFINE Guarded == /\ fence'.version >= fence.version
                        /\ panel' # panel /\ flight' = flight =>
                              fence = cmd /\ \A v \in Files : v <= cmd.version
  <1>1. IInv /\ [Next]_vars => Guarded
    <2> SUFFICES ASSUME IInv, [Next]_vars PROVE Guarded
      OBVIOUS
    <2> USE DEF IInv
    <2>1. fence.version \in 0..MaxVersion
      BY BoundAssumption DEF TypeOK, Command, NoCommand, Versions
    <2>2. fence'.version >= fence.version
      <3>1. CASE fence' = fence
        BY <2>1, <3>1, BoundAssumption
      <3>2. CASE fence' # fence
        <4>1. Admit
          BY <3>2, Frame
        <4>2. fence' = cmd /\ cmd.version > Highest
          BY <3>2, <4>1 DEF Admit, Admissible
        <4>3. cmd.version \in Versions
          BY <4>1, CommandFacts DEF Admit
        <4>4. {fence.version} \cup Files \in SUBSET (0..MaxVersion)
          BY <2>1, BoundAssumption DEF Files, Versions
        <4>5. Highest \in 0..MaxVersion /\ fence.version <= Highest
          BY <4>4, MaxOf DEF Highest
        <4> QED  BY <2>1, <4>2, <4>3, <4>5, BoundAssumption DEF Versions
      <3> QED  BY <3>1, <3>2
    <2>3. panel' # panel /\ flight' = flight => pc \in Working
      <3>1. CASE PanelSteps
        BY <3>1, Sends DEF MadeBy, OwnWrite, Working
      <3>2. CASE \E w \in flight : Arrive(w)
        BY <3>2 DEF Arrive
      <3> QED  BY <3>1, <3>2, Frame
    <2> QED  BY <2>2, <2>3 DEF Admitted
  <1> QED  BY Invariance, <1>1, PTL DEF Spec, NoRevert

\* Deletion, also a late one, spares the credential the SaaS received last.
THEOREM DeliveredKept == Spec => DeliveredIsKept
  <1> DEFINE Spared == \A i \in Versions : panel[i].here /\ ~panel'[i].here =>
         \A m \in material : m[2] = i =>
             \E n \in material : n[1].version > m[1].version /\ n[2] # i
  <1>1. IInv /\ [Next]_vars => Spared
    <2> SUFFICES ASSUME IInv, [Next]_vars, NEW i \in Versions, panel[i].here, ~panel'[i].here,
                        NEW m \in material, m[2] = i
                 PROVE  \E n \in material : n[1].version > m[1].version /\ n[2] # i
      OBVIOUS
    <2> USE DEF IInv
    <2>1. panel \in [Versions -> Client] /\ flight \subseteq Write
      BY DEF TypeOK
    <2>2. \E n \in material : i < n[2]
      <3>1. CASE PanelSteps
        <4>1. PICK w : MadeBy(w)
          BY <3>1, Sends
        <4>2. w.id = i /\ w.kind = "del"
          BY <2>1, <4>1, EffectGone DEF MadeBy, OwnWrite
        <4>3. i < Identity /\ <<cmd, Identity>> \in material
          BY <4>1, <4>2, OutdatedFacts DEF MadeBy, OwnWrite, Materials, Delivered
        <4> QED  BY <4>3
      <3>2. CASE \E w \in flight : Arrive(w)
        <4>1. PICK w \in flight : Arrive(w)
          BY <3>2
        <4> QED  BY <2>1, <4>1, EffectGone DEF Arrive, Deletions
      <3> QED  BY <3>1, <3>2, Frame
    <2>3. PICK n \in material : i < n[2]
      BY <2>2
    <2>4. /\ m[1].version \in Versions /\ m[2] = state[m[1].version] /\ m[2] # 0
          /\ n[1].version \in Versions /\ n[2] = state[n[1].version] /\ n[2] # 0
          /\ m[2] \in Versions /\ n[2] \in Versions
      BY DEF Materials, TypeOK, Command
    <2>5. m[1].version \in Files /\ n[1].version \in Files
      BY <2>4 DEF Files
    <2>6. n[1].version > m[1].version
      BY <2>3, <2>4, <2>5, BoundAssumption DEF Named, Versions
    <2> QED  BY <2>3, <2>4, <2>6, BoundAssumption DEF Versions
  <1> QED  BY Invariance, <1>1, PTL DEF Spec, DeliveredIsKept
=============================================================================
