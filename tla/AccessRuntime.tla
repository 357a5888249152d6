--------------------------- MODULE AccessRuntime ---------------------------
(* One access on one node: the commands the SaaS issues for it, the Agent's   *)
(* command cycle (node_agent.run_access_command_cycle), the executor it       *)
(* starts (agent/access_runtime.py) with its durable fence and identity       *)
(* files, and the 3X-UI panel whose answers may be lost, wrong or late.       *)
(*                                                                            *)
(* An identity (panel e-mail, client UUID and subscription id) is named by    *)
(* the version whose provisioning created it.  The node lock and the lock per *)
(* access let one executor run at a time.                                     *)
EXTENDS Integers, FiniteSets, FiniteSetsExt

CONSTANTS
    MaxVersion,   \* bound: desired versions
    Entitlements, \* the entitlements commands ask for: expiry day and device limit
    Unheeded,     \* fields an update may leave unchanged: subset of {"enabled", "days"}
    Conflicts,    \* TRUE: the SaaS may reuse a version for another payload
    MaxIssue,     \* bound: commands issued
    MaxCrash,     \* bound: deaths of the Agent or of its executor
    MaxFault,     \* bound: panel or network calls that fail
    MaxLate       \* bound: panel writes that take effect after their caller gave up

Versions == 1..MaxVersion

ASSUME BoundAssumption ==
    /\ MaxVersion \in Nat /\ MaxIssue \in Nat /\ MaxCrash \in Nat
    /\ MaxFault \in Nat /\ MaxLate \in Nat
ASSUME DataAssumption ==
    /\ Entitlements \subseteq [days: Nat, limit: Nat]
    /\ Unheeded \subseteq {"enabled", "days"}
    /\ Conflicts \in BOOLEAN

Client == [here: BOOLEAN, enabled: BOOLEAN, days: Int, limit: Nat]
Absent == [here |-> FALSE, enabled |-> FALSE, days |-> 0, limit |-> 0]

\* validate_access_command: provisioning enables, preparing must not, and only
\* an update may do either.
Command ==
    {c \in [op: {"provision", "replace", "prepare", "update"}, version: Versions,
            enabled: BOOLEAN, want: Entitlements] :
        /\ c.op \in {"provision", "replace"} => c.enabled
        /\ c.op = "prepare" => ~c.enabled}
NoCommand == [op |-> "none", version |-> 0, enabled |-> FALSE, want |-> [days |-> 0, limit |-> 0]]

VARIABLES
    issued,    \* commands the SaaS has issued
    done,      \* those whose result it has recorded as succeeded
    fence,     \* <access>.fence: the command admitted last
    state,     \* <access>.<version>.json: its identity (0: no such file)
    panel,     \* the client of each identity
    flight,    \* panel writes whose caller has given up
    pc, cmd,   \* where the Agent and its executor are, and in which command
    read,      \* the client last read back
    crashes, faults, late,
    material,  \* history: identities materialized at the SaaS, by command
    touched    \* history: identities a late write has reached

local == <<pc, cmd, read>>
budget == <<crashes, faults, late>>
vars == <<issued, done, fence, state, panel, flight, local, budget, material, touched>>

-----------------------------------------------------------------------------
\* An installation older than the fence has an identity file and no fence.
Init ==
    /\ issued = {} /\ done = {} /\ fence = NoCommand
    /\ \E legacy \in {0, 1}, w \in Entitlements :
        /\ state = [v \in Versions |-> IF v = 1 THEN legacy ELSE 0]
        /\ panel = [v \in Versions |->
               IF v = legacy
               THEN [here |-> TRUE, enabled |-> TRUE, days |-> w.days, limit |-> w.limit]
               ELSE Absent]
    /\ flight = {} /\ touched = {} /\ material = {}
    /\ pc = "idle" /\ cmd = NoCommand /\ read = Absent
    /\ crashes = 0 /\ faults = 0 /\ late = 0

Goto(l) == pc' = l
StopKeeping == pc' = "idle" /\ UNCHANGED <<cmd, read>>    \* mutant: the command is not let go
Stop == pc' = "idle" /\ cmd' = NoCommand /\ read' = Absent
Fault == faults < MaxFault /\ faults' = faults + 1 /\ UNCHANGED <<crashes, late>>

Files == {v \in Versions : state[v] # 0}
Identity == state[cmd.version]
IsLast(v) == \A c \in issued : c.version <= v
Latest == Max({0} \cup {c.version : c \in issued} \cup Files)

\* entitlements_match
Matches(r, c) ==
    /\ r.here /\ r.enabled = c.enabled
    /\ r.days = c.want.days /\ r.limit = c.want.limit

\* safe_bulk_entitlement_adjustment: only days are added, and only if nothing
\* else differs.
Adjustable(r, c) == c.enabled /\ r.enabled /\ r.limit = c.want.limit
-----------------------------------------------------------------------------
\* The SaaS raises the desired version, or by mistake reuses the last one.
Issue(c) ==
    /\ Cardinality(issued) < MaxIssue
    /\ c \notin issued
    /\ c.version = Latest + 1 \/ (Conflicts /\ c.version = Latest)
    /\ issued' = issued \cup {c}
    /\ UNCHANGED <<done, fence, state, panel, flight, local, budget, material, touched>>

\* GET commands/next and POST started.  A command whose result the SaaS has not
\* recorded is leased again.
Poll(c) ==
    /\ pc = "idle" /\ c \in issued \ done
    /\ Goto("admit")
    /\ cmd' = c
    /\ UNCHANGED <<issued, done, fence, state, panel, flight, read, budget, material, touched>>

\* fenced_access: the highest version is that of the fence and of every
\* identity file.
Highest == Max({fence.version} \cup Files)
AdmissibleByFiles == cmd.version > Max({0} \cup Files) \/ fence = cmd    \* mutant: the fence's version is not
AdmissibleOnce == cmd.version > Highest    \* mutant: no retry of the command admitted last
Admissible == cmd.version > Highest \/ (cmd.version = Highest /\ fence = cmd)

Admit ==
    /\ pc = "admit"
    /\ IF Admissible THEN fence' = cmd /\ Goto("load") /\ UNCHANGED <<cmd, read>>
                     ELSE Stop /\ UNCHANGED fence
    /\ UNCHANGED <<issued, done, state, panel, flight, budget, material, touched>>

\* The identity is fixed in its file before the panel hears of it: a new one,
\* or for an update the latest one of an older version.
Load ==
    /\ pc = "load"
    /\ LET older == {v \in Files : v < cmd.version}
           known == Identity # 0 \/ cmd.op # "update" \/ older # {}
       IN  IF known
           THEN /\ state' = [state EXCEPT ![cmd.version] =
                        IF @ # 0 THEN @
                        ELSE IF cmd.op = "update" THEN state[Max(older)] ELSE cmd.version]
                /\ Goto("lookup") /\ UNCHANGED <<cmd, read>>
           ELSE Stop /\ UNCHANGED state
    /\ UNCHANGED <<issued, done, fence, panel, flight, budget, material, touched>>

\* get_client before anything is written.  Only provisioning may find nothing.
Lookup ==
    /\ pc = "lookup"
    /\ \/ /\ panel[Identity].here
          /\ read' = panel[Identity]
          /\ Goto(IF Matches(read', cmd) THEN "links" ELSE "update")
          /\ UNCHANGED cmd
       \/ /\ ~panel[Identity].here /\ cmd.op # "update"
          /\ Goto("add") /\ UNCHANGED <<cmd, read>>
       \/ /\ ~panel[Identity].here /\ cmd.op = "update"
          /\ Stop
    /\ UNCHANGED <<issued, done, fence, state, panel, flight, budget, material, touched>>

-----------------------------------------------------------------------------
\* A write to the panel: kind, identity, and the client it sends or the days it
\* adds.  `clients/add` is refused for an e-mail that exists, the others for
\* one that does not.
Effect(p, w) ==
    CASE w.kind = "add" /\ ~p[w.id].here -> [p EXCEPT ![w.id] = w.client]
      [] w.kind = "update" /\ p[w.id].here -> [p EXCEPT ![w.id] = w.client]
      [] w.kind = "adjust" /\ p[w.id].here -> [p EXCEPT ![w.id].days = @ + w.client.days]
      [] w.kind = "del" -> [p EXCEPT ![w.id] = Absent]
      [] OTHER -> p

Send(kind, client) ==
    [kind |-> kind, id |-> Identity, client |-> client, version |-> cmd.version]

\* What the caller of POST may see: success; a lost answer; a lost request; or
\* a timeout while the panel has yet to carry the request out.
Posted(w, next) ==
    /\ panel' = Effect(panel, w)
    /\ Goto(next)
    /\ UNCHANGED <<flight, cmd, read, budget>>
Unanswered(w, next) ==
    /\ \/ panel' = Effect(panel, w) /\ UNCHANGED flight /\ Fault
       \/ UNCHANGED <<panel, flight>> /\ Fault
       \/ /\ late < MaxLate /\ late' = late + 1
          /\ flight' = flight \cup {w}
          /\ UNCHANGED <<panel, crashes, faults>>
    /\ IF next = "idle" THEN Stop ELSE Goto(next) /\ UNCHANGED <<cmd, read>>

Desired == [here |-> TRUE, enabled |-> cmd.enabled, days |-> cmd.want.days, limit |-> cmd.want.limit]

Add ==
    /\ pc = "add"
    /\ LET w == Send("add", Desired) IN Posted(w, "added") \/ Unanswered(w, "idle")
    /\ UNCHANGED <<issued, done, fence, state, material, touched>>

\* get_client and assert_matching_client after the add.
Added ==
    /\ pc = "added"
    /\ IF panel[Identity].here
       THEN /\ read' = panel[Identity]
            /\ Goto(IF Matches(read', cmd) THEN "links" ELSE "update")
            /\ UNCHANGED cmd
       ELSE Stop
    /\ UNCHANGED <<issued, done, fence, state, panel, flight, budget, material, touched>>

\* reconcile_entitlements.  An update that fails is not an error yet: what
\* counts is the client read back.  A panel may accept the request and leave a
\* field as it was.
Update ==
    /\ pc = "update"
    /\ \/ Posted(Send("update", Desired), "updated")
       \/ Unanswered(Send("update", Desired), "updated")
       \/ /\ Fault
          /\ \E f \in Unheeded : panel' = Effect(panel, Send("update",
                 IF f = "days" THEN [Desired EXCEPT !.days = read.days]
                               ELSE [Desired EXCEPT !.enabled = read.enabled]))
          /\ Goto("updated") /\ UNCHANGED <<flight, cmd, read>>
    /\ UNCHANGED <<issued, done, fence, state, material, touched>>

UpdatedUnchecked ==    \* mutant: the answer to the update is believed
    /\ pc = "updated"
    /\ Goto("links")
    /\ UNCHANGED <<issued, done, fence, state, panel, flight, cmd, read, budget, material, touched>>

Updated ==
    /\ pc = "updated"
    /\ LET r == panel[Identity]
       IN  \/ Matches(r, cmd) /\ Goto("links") /\ UNCHANGED <<cmd, read>>
           \/ /\ r.here /\ ~Matches(r, cmd) /\ Adjustable(r, cmd)
              /\ read' = r /\ Goto("adjust") /\ UNCHANGED cmd
           \/ ~Matches(r, cmd) /\ ~(r.here /\ Adjustable(r, cmd)) /\ Stop
    /\ UNCHANGED <<issued, done, fence, state, panel, flight, budget, material, touched>>

Adjust ==
    /\ pc = "adjust"
    /\ LET w == Send("adjust", [Absent EXCEPT !.days = cmd.want.days - read.days])
       IN  Posted(w, "adjusted") \/ Unanswered(w, "idle")
    /\ UNCHANGED <<issued, done, fence, state, material, touched>>

Adjusted ==
    /\ pc = "adjusted"
    /\ IF Matches(panel[Identity], cmd) THEN Goto("links") /\ UNCHANGED <<cmd, read>> ELSE Stop
    /\ UNCHANGED <<issued, done, fence, state, panel, flight, budget, material, touched>>

\* subLinks are asked for when the client is enabled.
Links ==
    /\ pc = "links"
    /\ Goto("material")
    /\ UNCHANGED <<issued, done, fence, state, panel, flight, cmd, read, budget, material, touched>>

\* POST materialize.  The answer, or the request, may be lost.
Materialize ==
    /\ pc = "material"
    /\ \/ /\ material' = material \cup {<<cmd, Identity>>}
          /\ Goto(IF cmd.op = "replace" THEN "clean" ELSE "result")
          /\ UNCHANGED <<cmd, read, budget>>
       \/ Fault /\ Stop /\ material' \in {material, material \cup {<<cmd, Identity>>}}
    /\ UNCHANGED <<issued, done, fence, state, panel, flight, touched>>

-----------------------------------------------------------------------------
\* cleanup_previous, in a process of its own after a replacement: every older
\* identity other than the current one is deleted from the panel.
OutdatedAll == {state[v] : v \in Files}    \* mutant: the current identity is not spared
Outdated == {state[v] : v \in {u \in Files : u < cmd.version}} \ {Identity}

CleanOne ==
    /\ pc = "clean" /\ Identity # 0 /\ cmd.version >= Highest
    /\ \E i \in Outdated :
        /\ panel[i].here
        /\ LET w == [Send("del", Absent) EXCEPT !.id = i]
           IN  Posted(w, "clean") \/ Unanswered(w, "idle")
    /\ UNCHANGED <<issued, done, fence, state, material, touched>>

CleanDoneEarly ==    \* mutant: the deletion is not verified
    /\ pc = "clean"
    /\ Goto("result")
    /\ UNCHANGED <<issued, done, fence, state, panel, flight, cmd, read, budget, material, touched>>

CleanDone ==
    /\ pc = "clean"
    /\ IF Identity # 0 /\ cmd.version >= Highest
       THEN (\A i \in Outdated : ~panel[i].here) /\ Goto("result") /\ UNCHANGED <<cmd, read>>
       ELSE Stop
    /\ UNCHANGED <<issued, done, fence, state, panel, flight, budget, material, touched>>

\* POST result.  If it is lost the lease expires and the command comes again.
Result ==
    /\ pc = "result"
    /\ Stop
    /\ \/ done' = done \cup {cmd} /\ UNCHANGED budget
       \/ done' = done /\ Fault
    /\ UNCHANGED <<issued, fence, state, panel, flight, material, touched>>

\* A panel GET fails, links are not ready, the subprocess times out: the Agent
\* reports retryable_failed.
Fail ==
    /\ pc \in {"lookup", "added", "updated", "adjusted", "links", "clean"}
    /\ Fault
    /\ Stop
    /\ UNCHANGED <<issued, done, fence, state, panel, flight, material, touched>>

\* The Agent and its children die; files survive.
Crash ==
    /\ pc # "idle" /\ crashes < MaxCrash
    /\ crashes' = crashes + 1
    /\ Stop
    /\ UNCHANGED <<issued, done, fence, state, panel, flight, faults, late, material, touched>>

\* The panel carries out a request nobody waits for any more.
Arrive(w) ==
    /\ w \in flight
    /\ flight' = flight \ {w}
    /\ panel' = Effect(panel, w)
    /\ touched' = touched \cup {w.id}
    /\ UNCHANGED <<issued, done, fence, state, local, budget, material>>

Execute ==
    \/ Admit \/ Load \/ Lookup \/ Add \/ Added \/ Update \/ Updated \/ Adjust \/ Adjusted
    \/ Links \/ Materialize \/ CleanOne \/ CleanDone \/ Result

Next ==
    \/ \E c \in Command : Issue(c) \/ Poll(c)
    \/ Execute \/ Fail \/ Crash
    \/ \E w \in flight : Arrive(w)

Spec == Init /\ [][Next]_vars
-----------------------------------------------------------------------------
Write == [kind: {"add", "update", "adjust", "del"}, id: Versions, client: Client, version: Versions]

TypeOK ==
    /\ issued \subseteq Command /\ done \subseteq issued
    /\ fence \in Command \cup {NoCommand} /\ cmd \in Command \cup {NoCommand}
    /\ state \in [Versions -> 0..MaxVersion]
    /\ panel \in [Versions -> Client]
    /\ flight \subseteq Write
    /\ pc \in {"idle", "admit", "load", "lookup", "add", "added", "update", "updated",
               "adjust", "adjusted", "links", "material", "clean", "result"}
    /\ pc = "idle" <=> cmd = NoCommand
    /\ read \in Client
    /\ crashes \in 0..MaxCrash /\ faults \in 0..MaxFault /\ late \in 0..MaxLate
    /\ material \subseteq Command \X Versions
    /\ touched \subseteq Versions

\* Whatever is lost or late, every client the panel holds or may still create
\* is named by an identity file, where a later cleanup will find it.
ClientsAreKnown ==
    LET known == {state[v] : v \in Files}
    IN  {i \in Versions : panel[i].here} \cup {w.id : w \in flight} \subseteq known

\* access-command-fencing.md "Replays must match that version and payload": the
\* SaaS never receives material for two payloads, or of two identities, under
\* one version, however often commands are leased again.
OneMaterialPerVersion ==
    \A m, n \in material : m[1].version = n[1].version => m = n

\* "Lower versions are rejected even if the newer command failed after
\* admission": the executor writes to the panel only for the command admitted
\* last, and never once an identity of a newer version is on disk.
NoRevert ==
    [][/\ fence'.version >= fence.version
       /\ panel' # panel /\ flight' = flight =>
            fence = cmd /\ \A v \in Files : v <= cmd.version]_vars

\* A result recorded as succeeded says what the panel holds, until a newer
\* command is admitted or a late write reaches the client.
ReceiptIsTrue ==
    \A c \in done : fence = c /\ state[c.version] \notin touched =>
        Matches(panel[state[c.version]], c)

\* Once the SaaS has recorded a replacement, no older credential works.
ReplacedIsGone ==
    \A c \in done : c.op = "replace" =>
        \A v \in Files : v < c.version /\ state[v] \notin touched
            => state[v] = state[c.version] \/ ~panel[state[v]].here

\* Cleanup never deletes the credential the SaaS received last.
DeliveredIsKept ==
    [][\A i \in Versions : panel[i].here /\ ~panel'[i].here =>
         \A m \in material : m[2] = i =>
             \E n \in material : n[1].version > m[1].version /\ n[2] # i]_vars

-----------------------------------------------------------------------------
\* A command the node can carry out: it is the one newest command, the fence
\* admits it, and an update finds its client in the panel.
Serviceable(c) ==
    LET older == {v \in Files : v < c.version}
        id == IF state[c.version] # 0 THEN state[c.version]
              ELSE IF older # {} THEN state[Max(older)] ELSE 0
    IN  /\ {b \in issued : b.version >= c.version} = {c}
        /\ c.version > Highest \/ fence = c
        /\ c.op = "update" => id # 0 /\ panel[id].here

\* The SaaS leases the newest command again until it has its result; the Agent's
\* loop and its executor go on.  Faults, deaths and late writes are finite.
Fairness == WF_vars(Execute) /\ SF_vars(\E c \in issued : IsLast(c.version) /\ Poll(c))
FairSpec == Spec /\ Fairness

\* The newest command a node can carry out is carried out and recorded, after
\* whatever crash between fence, identity file, panel and receipt.
Settles == <>[](\A c \in issued : Serviceable(c) => c \in done)
=============================================================================
