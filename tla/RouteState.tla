----------------------------- MODULE RouteState -----------------------------
(***************************************************************************)
(* The routes of an Entry node: the desired state in config.json, what the *)
(* 3X-UI panel really has, what is public through nginx and the            *)
(* subscriptions, and the health file runtime.json.  The mutating commands *)
(* of scripts/commands (cascade, route, auto, subscription and reconcile)  *)
(* hold the mutation lock and are journalled; a health run takes no lock   *)
(* and may read, evaluate and write anywhere in between.                   *)
(*                                                                         *)
(* A command is its list of steps, computed from the candidate             *)
(* configuration when it begins.  A step that fails rolls the whole        *)
(* command back to its snapshot; how that is made durable is the subject   *)
(* of module NodeTransaction and is one step here.                         *)
(***************************************************************************)
EXTENDS Naturals, FiniteSets, SequencesExt, Functions

CONSTANTS
  Exits,        \* Exit nodes, each with at most one cascade route
  Autos,        \* Auto Routes
  MaxCommand,   \* bound: mutating commands begun
  MaxEarly,     \* bound: health runs begun while more commands may come
  MaxDrift      \* bound: changes others make in the panel

ASSUME BoundAssumption == {MaxCommand, MaxEarly, MaxDrift} \subseteq Nat
ASSUME NameAssumption == Exits \cap Autos = {}
ASSUME FiniteAssumption == IsFiniteSet(Exits) /\ IsFiniteSet(Autos)
ASSUME SelectorAssumption == Autos # {} => Exits # {}   \* an Auto Route selects an Exit

VARIABLES
  config,     \* config.json: exits, routes, Auto Routes, publication mode
  panel,      \* the panel: inbounds, managed outbounds, balancers, observatory
  public,     \* routes with an nginx location and a subscription profile
  pins,       \* auto-overrides.json
  runtime,    \* runtime.json: routes and exits
  job,        \* the command that holds the mutation lock
  obs,        \* the health run
  commands, early, drifts

node == <<config, panel, public, runtime>>
vars == <<config, panel, public, pins, runtime, job, obs, commands, early, drifts>>

Empty == [x \in {} |-> {}]
Enough == 3      \* transition(): three probes decide; larger counts are not told apart
Modes == {"all", "auto-only"}
Statuses == {"healthy", "unhealthy", "unknown", "misconfigured", "disabled"}

(***************************************************************************)
(* What the configuration asks for.                                        *)
(***************************************************************************)
Managed(c) == DOMAIN c.route \cup DOMAIN c.auto
Enabled(c, x) == IF x \in Exits THEN c.route[x] ELSE c.auto[x].on

\* route_is_public
IsPublic(c, x) ==
  /\ Enabled(c, x)
  /\ IF x \in Autos THEN c.auto[x].pub ELSE c.mode = "all"

Published(c) == {x \in Managed(c) : IsPublic(c, x)}

\* inbound_payload: a published inbound carries its name and its clients, a
\* hidden one the `--!` remark and no client
Desired(c, x) == [on |-> Enabled(c, x), shown |-> IsPublic(c, x)]

(***************************************************************************)
(* What a health run makes of the panel, the configuration and its probes. *)
(***************************************************************************)
Unreachable == [inbound |-> Empty, outbounds |-> {}]

InboundMatches(c, seen, x) ==
  x \in DOMAIN seen.inbound /\ seen.inbound[x].shown = IsPublic(c, x)

Structural(c, seen, pub, e) ==
  /\ InboundMatches(c, seen, e)
  /\ seen.inbound[e].on = c.route[e]
  /\ e \in seen.outbounds
  /\ (e \in pub) = IsPublic(c, e)

Capped(n) == IF n > Enough THEN Enough ELSE n
Health(s, up, down) == [status |-> s, succ |-> up, fail |-> down]
Fresh == Health("unknown", 0, 0)

\* mutant of Transition: a success leaves the failures counted
TransitionKeeping(old, success, enabled, misconfigured) ==
  CASE ~enabled -> Health("disabled", 0, 0)
    [] enabled /\ success ->
         Health(IF Capped(old.succ + 1) = Enough THEN "healthy" ELSE "unknown",
                Capped(old.succ + 1), old.fail)
    [] OTHER -> Health(IF misconfigured THEN "misconfigured" ELSE "unknown",
                       0, Capped(old.fail + 1))

Transition(old, success, enabled, misconfigured) ==
  LET up   == Capped(old.succ + 1)
      down == Capped(old.fail + 1)
      kept == IF old.status = "healthy" THEN "healthy" ELSE "unknown"
  IN  CASE ~enabled      -> Health("disabled", 0, 0)
        [] enabled /\ misconfigured -> Health("misconfigured", 0, down)
        [] enabled /\ ~misconfigured /\ success ->
             Health(IF up = Enough THEN "healthy" ELSE kept, up, 0)
        [] OTHER ->
             Health(IF down = Enough THEN "unhealthy" ELSE kept, 0, down)

\* mutant of Evaluate: the routes the file has and config.json lacks are kept
EvaluateOver(c, r, seen, pub, ok) ==
  LET sound(e) == Structural(c, seen, pub, e)
      old(e) == IF e \in DOMAIN r.exit THEN r.exit[e] ELSE Fresh
      exit == [e \in DOMAIN c.route |->
                 Transition(old(e), sound(e) /\ e \in ok, c.route[e], ~sound(e))]
  IN  [exit |-> exit,
       route |-> [e \in DOMAIN c.route \cup DOMAIN r.route |->
                    IF e \in DOMAIN c.route
                      THEN [status |-> exit[e].status, enabled |-> c.route[e]]
                      ELSE r.route[e]]]

\* evaluate: the exits and routes of the result are those of the
\* configuration read now; only the counters come from the file read now
Evaluate(c, r, seen, pub, ok) ==
  LET sound(e) == Structural(c, seen, pub, e)
      old(e) == IF e \in DOMAIN r.exit THEN r.exit[e] ELSE Fresh
      exit == [e \in DOMAIN c.route |->
                 Transition(old(e), sound(e) /\ e \in ok, c.route[e], ~sound(e))]
  IN  [exit |-> exit,
       route |-> [e \in DOMAIN c.route |->
                    [status |-> exit[e].status, enabled |-> c.route[e]]]]

\* sync_runtime: after a command, keep what is still configured; a route that
\* goes off is disabled, one that comes back on starts from nothing
Sync(c, r) ==
  LET back(e) == /\ e \in DOMAIN r.route
                 /\ ~r.route[e].enabled \/ r.route[e].status = "disabled"
      status(e) == CASE ~c.route[e] -> "disabled"
                     [] c.route[e] /\ (back(e) \/ e \notin DOMAIN r.route) -> "unknown"
                     [] OTHER -> r.route[e].status
      counted == (DOMAIN r.exit \cap c.exits)
                   \cup {e \in DOMAIN c.route : ~c.route[e] \/ back(e)}
      exit(e) == CASE e \in DOMAIN c.route /\ ~c.route[e] -> Health("disabled", 0, 0)
                   [] e \in DOMAIN c.route /\ c.route[e] /\ back(e) -> Fresh
                   [] OTHER -> r.exit[e]
  IN  [exit |-> [e \in counted |-> exit(e)],
       route |-> [e \in DOMAIN c.route |->
                    [status |-> status(e), enabled |-> c.route[e]]]]

\* drift_plan, from an observation of the panel and the public state
DriftPlan(c, seen, pub) ==
  {<<e, "inbound">> : e \in {e \in DOMAIN c.route :
       ~InboundMatches(c, seen, e) \/ seen.inbound[e].on # c.route[e]}}
  \cup {<<e, "xray">> : e \in {e \in DOMAIN c.route : c.route[e] /\ e \notin seen.outbounds}}
  \cup {<<e, "public">> : e \in {e \in DOMAIN c.route : (e \in pub) # IsPublic(c, e)}}

\* auto_health.evaluate: the selectors that count are the pinned Exit's, if any
Effective(c, p, a) ==
  IF a \in DOMAIN p THEN {p[a]} \cap c.exits ELSE c.auto[a].sel

AutoStructural(c, seen, p, a) ==
  /\ a \in DOMAIN seen.inbound /\ seen.inbound[a].on = c.auto[a].on
  /\ a \in DOMAIN seen.balancer /\ seen.balancer[a] = Effective(c, p, a)
  /\ Effective(c, p, a) \subseteq seen.watched \cap seen.outbounds
  /\ Effective(c, p, a) # {}

AutoStatus(c, r, seen, p, a) ==
  LET sel == Effective(c, p, a)
      in(S) == {e \in sel \cap DOMAIN c.route \cap DOMAIN r.route : r.route[e].status \in S}
  IN  CASE ~c.auto[a].on -> "disabled"
        [] c.auto[a].on /\ ~AutoStructural(c, seen, p, a) -> "misconfigured"
        [] c.auto[a].on /\ AutoStructural(c, seen, p, a) /\ in({"healthy"}) = sel -> "healthy"
        [] c.auto[a].on /\ AutoStructural(c, seen, p, a) /\ in({"healthy"}) \notin {{}, sel} -> "degraded"
        [] OTHER -> IF in(Statuses \ {"unknown"}) = sel THEN "unhealthy" ELSE "unknown"

(***************************************************************************)
(* The steps of a command.  CanDo is the step's own precondition (a panel  *)
(* call on an inbound that is not there is refused; merge_balancer refuses *)
(* a selector without an outbound).                                        *)
(***************************************************************************)
Inbound(x) == <<"inbound", x>>             \* wm_inbound_reconcile
ShownInbound(x) == <<"build", x>>          \* the same on an artifact built shown
Switch(x) == <<"switch", x>>               \* wm_inbound_set_enabled
Delete(x) == <<"delete", x>>               \* wm_inbound_delete
Route(e) == <<"route", e>>                 \* wm_xray_apply_managed_route
Unroute(S) == <<"unroute", S>>             \* wm_runtime_remove_xray_routes
Balance(a, S) == <<"balance", a, S>>       \* wm_xray_apply_managed_balancer
Unbalance(a) == <<"unbalance", a>>         \* wm_xray_remove_managed_balancer
Expose == <<"public">>                     \* prepare_subscriptions, apply_public_state
Install == <<"install">>                   \* wm_atomic_install_json
Synchronise == <<"sync">>                  \* runtime_state.py sync
PinTo(a, e) == <<"pin", a, e>>             \* auto-overrides.json
Unpin(a) == <<"unpin", a>>

Each(S, step(_)) == LET s == SetToSeq(S) IN [i \in DOMAIN s |-> step(s[i])]

With(f, x, v) == [y \in DOMAIN f \cup {x} |-> IF y = x THEN v ELSE f[y]]
Without(f, x) == Restrict(f, DOMAIN f \ {x})

CanDo(step) ==
  CASE step[1] \in {"switch", "delete"} -> step[2] \in DOMAIN panel.inbound
    [] step[1] = "balance" -> step[3] # {} /\ step[3] \subseteq panel.outbounds
    [] OTHER -> TRUE

\* the panel refuses nothing else; an inbound that already matches is left as
\* it is, its switch included
Reconciled(x, want) ==
  IF x \in DOMAIN panel.inbound /\ panel.inbound[x].shown = want.shown
    THEN panel.inbound ELSE With(panel.inbound, x, want)

PanelAfter(step, c) ==
  CASE step[1] = "inbound" -> [panel EXCEPT !.inbound = Reconciled(step[2], Desired(c, step[2]))]
    [] step[1] = "build" ->
         [panel EXCEPT !.inbound = Reconciled(step[2], [on |-> TRUE, shown |-> step[2] \in Exits])]
    [] step[1] = "switch" -> [panel EXCEPT !.inbound[step[2]].on = Enabled(c, step[2])]
    [] step[1] = "delete" -> [panel EXCEPT !.inbound = Without(@, step[2])]
    [] step[1] = "route" -> [panel EXCEPT !.outbounds = @ \cup {step[2]}]
    [] step[1] = "unroute" -> [panel EXCEPT !.outbounds = @ \ step[2]]
    [] step[1] = "balance" ->
         [panel EXCEPT !.balancer = With(@, step[2], step[3]), !.watched = step[3]]
    [] step[1] = "unbalance" ->
         LET rest == Without(panel.balancer, step[2])
         IN  [panel EXCEPT !.balancer = rest, !.watched = UNION Range(rest)]
    [] OTHER -> panel

(***************************************************************************)
(* Beginning and ending a command.                                         *)
(***************************************************************************)
NoJob == [kind |-> "none", plan |-> <<>>, cand |-> <<>>, saved |-> <<>>]
Free == job.kind = "none"
Idle == Free /\ UNCHANGED <<config, panel, public, pins, runtime, obs, early, drifts>>

Begin(kind, c, plan) ==
  /\ Idle /\ commands < MaxCommand
  /\ commands' = commands + 1
  /\ job' = [kind |-> kind, plan |-> plan, cand |-> c, saved |-> node]

\* cascade add-exit: the route is switched on and its inbound always shown
AddExit(e) ==
  /\ e \notin config.exits
  /\ Begin("add-exit",
           [config EXCEPT !.exits = @ \cup {e}, !.route = With(@, e, TRUE)],
           <<ShownInbound(e), Route(e), Expose, Install>>)

\* route enable, route disable
SetRoute(e, on) ==
  /\ e \in DOMAIN config.route
  /\ Begin("route-set", [config EXCEPT !.route[e] = on],
           (IF on THEN <<Inbound(e), Switch(e), Route(e)>> ELSE <<Switch(e)>>)
             \o <<Expose, Install, Synchronise>>)

\* route remove: the Exit stays imported
RemoveRoute(e) ==
  /\ e \in DOMAIN config.route
  /\ Begin("route-remove", [config EXCEPT !.route = Without(@, e)],
           <<Expose, Unroute({e}), Delete(e), Install, Synchronise>>)

\* cascade remove-exit [--force]
RemoveExit(e, force) ==
  LET attached == {e} \cap DOMAIN config.route
  IN  /\ e \in config.exits
      /\ attached = {} \/ force
      /\ Begin("remove-exit",
               [config EXCEPT !.exits = @ \ {e}, !.route = Without(@, e)],
               <<Expose, Unroute(attached)>> \o Each(attached, Delete)
                 \o <<Install, Synchronise>>)

\* subscription publication-mode --apply
Publication(mode) ==
  /\ mode = "auto-only" => \E a \in DOMAIN config.auto : IsPublic(config, a)
  /\ Begin("publication-mode", [config EXCEPT !.mode = mode],
           LET show(x) == <<Inbound(x), Switch(x)>>
           IN  FlattenSeq(Each(DOMAIN config.auto, show))
                 \o FlattenSeq(Each(DOMAIN config.route, show))
                 \o <<Expose, Install, Synchronise>>)

\* mutant of Reconcile: trusts the inbound reconciliation with the switch
ReconcileUnswitched ==
  Begin("reconcile", config,
        LET cascade(e) == <<Inbound(e)>>
                            \o (IF config.route[e] THEN <<Route(e)>> ELSE <<>>)
        IN  FlattenSeq(Each(DOMAIN config.route, cascade)) \o <<Expose, Install>>)

\* reconcile --apply
Reconcile ==
  Begin("reconcile", config,
        LET cascade(e) == <<Inbound(e), Switch(e)>>
                            \o (IF config.route[e] THEN <<Route(e)>> ELSE <<>>)
            auto(a) == <<Inbound(a), Switch(a),
                         IF config.auto[a].on THEN Balance(a, config.auto[a].sel)
                                              ELSE Unbalance(a)>>
        IN  FlattenSeq(Each(DOMAIN config.route, cascade))
              \o FlattenSeq(Each(DOMAIN config.auto, auto))
              \o <<Expose, Install>>)

\* auto create: unpublished, over Exits of the configuration, routed or not
AutoCreate(a, sel) ==
  /\ a \notin DOMAIN config.auto /\ sel # {} /\ sel \subseteq config.exits
  /\ Begin("auto-create",
           [config EXCEPT !.auto = With(@, a, [sel |-> sel, on |-> TRUE, pub |-> FALSE])],
           <<ShownInbound(a), Balance(a, sel), Install>>)

\* mutant of MayToggle: a published Auto Route may be disabled
MayToggleAny(a, on) == a \in DOMAIN config.auto

\* auto enable, auto disable: a published one is not disabled
MayToggle(a, on) == a \in DOMAIN config.auto /\ (on \/ ~config.auto[a].pub)
AutoToggle(a, on) ==
  /\ MayToggle(a, on)
  /\ Begin("auto-toggle", [config EXCEPT !.auto[a].on = on],
           <<Switch(a), IF on THEN Balance(a, config.auto[a].sel) ELSE Unbalance(a),
             Install>>)

\* auto publish, auto unpublish
AutoPublish(a, pub) ==
  /\ a \in DOMAIN config.auto /\ (pub => config.auto[a].on)
  /\ Begin("auto-publish", [config EXCEPT !.auto[a].pub = pub],
           <<Inbound(a), Expose, Install>>)

\* auto override, to one Exit or clear: under the lock, but with no
\* transaction, so what was done before a failure stays
AutoOverride(a, e) ==
  /\ a \in DOMAIN config.auto /\ e \in config.exits
  /\ Begin("override", config, <<Balance(a, {e}), PinTo(a, e)>>)
AutoClear(a) ==
  /\ a \in DOMAIN config.auto
  /\ Begin("override", config, <<Balance(a, config.auto[a].sel), Unpin(a)>>)

\* the next step of the command
Step ==
  LET step == Head(job.plan)
  IN  /\ ~Free /\ job.plan # <<>> /\ CanDo(step)
      /\ panel' = PanelAfter(step, job.cand)
      /\ public' = IF step = Expose THEN Published(job.cand) ELSE public
      /\ config' = IF step = Install THEN job.cand ELSE config
      /\ runtime' = IF step = Synchronise THEN Sync(config, runtime) ELSE runtime
      /\ pins' = CASE step[1] = "pin" -> With(pins, step[2], step[3])
                   [] step[1] = "unpin" -> Without(pins, step[2])
                   [] OTHER -> pins
      /\ job' = [job EXCEPT !.plan = Tail(@)]
      /\ UNCHANGED <<obs, commands, early, drifts>>

Commit ==
  /\ ~Free /\ job.plan = <<>>
  /\ job' = NoJob
  /\ UNCHANGED <<config, panel, public, pins, runtime, obs, commands, early, drifts>>

\* a step fails, or the command dies: the snapshot comes back, runtime.json
\* with it
Fail ==
  /\ ~Free /\ job.plan # <<>>
  /\ job' = NoJob
  /\ IF job.kind = "override"
       THEN UNCHANGED node
       ELSE /\ config' = job.saved[1] /\ panel' = job.saved[2]
            /\ public' = job.saved[3] /\ runtime' = job.saved[4]
  /\ UNCHANGED <<pins, obs, commands, early, drifts>>

(***************************************************************************)
(* A health run: read the panel, probe the enabled routes, then evaluate   *)
(* against the configuration and the file as they are by then, and write.  *)
(***************************************************************************)
NoRun == [pc |-> "idle", seen |-> Unreachable, ok |-> {}, result |-> <<>>]
Quiet == UNCHANGED <<config, panel, public, pins, job, commands, drifts>>

Busy == ~Free \/ commands < MaxCommand
Look ==
  /\ obs.pc = "idle"
  /\ Busy => early < MaxEarly
  /\ early' = IF Busy THEN early + 1 ELSE early
  /\ \E seen \in {[inbound |-> panel.inbound, outbounds |-> panel.outbounds], Unreachable} :
       obs' = [obs EXCEPT !.pc = "probe", !.seen = seen]
  /\ UNCHANGED runtime /\ Quiet

Probe ==
  /\ obs.pc = "probe"
  /\ \E ok \in SUBSET {e \in DOMAIN config.route : config.route[e] /\ e \in panel.outbounds} :
       obs' = [obs EXCEPT !.pc = "evaluate", !.ok = IF obs.seen = Unreachable THEN {} ELSE ok]
  /\ UNCHANGED <<runtime, early>> /\ Quiet

Load ==
  /\ obs.pc = "evaluate"
  /\ obs' = [NoRun EXCEPT !.pc = "write",
                          !.result = Evaluate(config, runtime, obs.seen, public, obs.ok)]
  /\ UNCHANGED <<runtime, early>> /\ Quiet

Write ==
  /\ obs.pc = "write"
  /\ runtime' = obs.result
  /\ obs' = NoRun
  /\ UNCHANGED early /\ Quiet

\* the administrators have no further command
Rest ==
  /\ Free /\ commands < MaxCommand
  /\ commands' = MaxCommand
  /\ UNCHANGED <<config, panel, public, pins, runtime, job, obs, early, drifts>>

HealthRun == Look \/ Probe \/ Load \/ Write

(***************************************************************************)
(* Others change the panel by hand, between two commands.                  *)
(***************************************************************************)
Drift ==
  /\ Free /\ drifts < MaxDrift
  /\ drifts' = drifts + 1
  /\ \/ \E x \in DOMAIN panel.inbound :
          \/ panel' = [panel EXCEPT !.inbound = Without(@, x)]
          \/ panel' = [panel EXCEPT !.inbound[x].on = ~@]
     \/ \E e \in panel.outbounds : panel' = [panel EXCEPT !.outbounds = @ \ {e}]
     \/ \E a \in DOMAIN panel.balancer : panel' = [panel EXCEPT !.balancer = Without(@, a)]
  /\ UNCHANGED <<config, public, pins, runtime, job, obs, commands, early>>

(***************************************************************************)
(* A fresh Entry, or one with its Exits imported and its Auto Routes       *)
(* created over all of them.                                               *)
(***************************************************************************)
NewEntry == [exits |-> {}, route |-> Empty, auto |-> Empty, mode |-> "all"]
Provisioned ==
  [exits |-> Exits, route |-> [e \in Exits |-> TRUE],
   auto |-> [a \in Autos |-> [sel |-> Exits, on |-> TRUE, pub |-> FALSE]],
   mode |-> "all"]

Init ==
  /\ config \in {NewEntry, Provisioned}
  /\ panel = [inbound |-> [x \in Managed(config) |-> Desired(config, x)],
              outbounds |-> config.exits,
              balancer |-> [a \in DOMAIN config.auto |-> config.auto[a].sel],
              watched |-> IF DOMAIN config.auto = {} THEN {} ELSE config.exits]
  /\ public = Published(config)
  /\ pins = Empty
  /\ runtime = [exit |-> Empty, route |-> Empty]
  /\ job = NoJob /\ obs = NoRun
  /\ commands = 0 /\ early = 0 /\ drifts = 0

Command ==
  \/ \E e \in Exits :
       \/ AddExit(e) \/ RemoveRoute(e)
       \/ \E b \in BOOLEAN : SetRoute(e, b) \/ RemoveExit(e, b)
  \/ \E mode \in Modes : Publication(mode)
  \/ Reconcile
  \/ \E a \in Autos :
       \/ \E sel \in SUBSET Exits : AutoCreate(a, sel)
       \/ \E b \in BOOLEAN : AutoToggle(a, b) \/ AutoPublish(a, b)
       \/ \E e \in Exits : AutoOverride(a, e)
       \/ AutoClear(a)

Next == Command \/ Step \/ Commit \/ Fail \/ HealthRun \/ Rest \/ Drift

Spec == Init /\ [][Next]_vars

\* health runs are started over and over (timers, the Agent, reconcile) and a
\* command ends one way or the other; some day no further command comes
FairSpec == Spec /\ WF_vars(HealthRun) /\ WF_vars(Rest) /\ WF_vars(Step \/ Commit \/ Fail)

(***************************************************************************)
(* Properties.                                                             *)
(***************************************************************************)
PartialFun(S, T) == UNION {[D -> T] : D \in SUBSET S}
HealthRecords == [status : Statuses, succ : 0 .. Enough, fail : 0 .. Enough]
RuntimeFiles ==
  [exit : PartialFun(Exits, HealthRecords),
   route : PartialFun(Exits, [status : Statuses, enabled : BOOLEAN])]

\* The files, the panel and a health result keep their shapes, every route
\* names an imported Exit, and a verdict goes with its counters: healthy after
\* a success only with no failure counted to three, unhealthy on three failures.
TypeOK ==
  /\ config.exits \subseteq Exits /\ DOMAIN config.route \subseteq config.exits
  /\ config.route \in [DOMAIN config.route -> BOOLEAN] /\ config.mode \in Modes
  /\ \A a \in DOMAIN config.auto :
       /\ a \in Autos
       /\ config.auto[a] \in [sel : (SUBSET Exits) \ {{}}, on : BOOLEAN, pub : BOOLEAN]
  /\ panel.inbound \in PartialFun(Exits \cup Autos, [on : BOOLEAN, shown : BOOLEAN])
  /\ panel.outbounds \subseteq Exits /\ panel.watched \subseteq Exits
  /\ panel.balancer \in PartialFun(Autos, (SUBSET Exits) \ {{}})
  /\ public \subseteq Exits \cup Autos /\ pins \in PartialFun(Autos, Exits)
  /\ runtime \in RuntimeFiles
  /\ obs.pc \in {"idle", "probe", "evaluate", "write"}
  /\ obs.pc = "write" => obs.result \in RuntimeFiles
  /\ \A e \in DOMAIN runtime.exit :
       LET h == runtime.exit[e]
       IN  /\ h.status = "healthy" => h.fail < Enough
           /\ h.status = "unhealthy" => h.fail = Enough
           /\ h.succ = 0 \/ h.fail = 0

\* Between commands what is public is what config.json sanctions; and as long
\* as nobody touched the panel by hand, its inbounds, switches and outbounds
\* are those of the configuration, a route that is off is off, an Auto Route
\* that is on has a balancer (so may one that is off: `auto override` does not
\* ask), and each shows itself exactly while it is published.  Every command
\* builds this from its own partial list of steps (runtime.sh, auto.sh,
\* cascade.sh, subscription.sh).
CommittedIsLive ==
  Free =>
    /\ public = Published(config)
    /\ \A a \in DOMAIN config.auto : config.auto[a].pub => config.auto[a].on
    /\ drifts = 0 =>
         /\ DOMAIN panel.inbound = Managed(config)
         /\ \A x \in Managed(config) :
              /\ panel.inbound[x].on = Enabled(config, x)
              /\ IsPublic(config, x) => panel.inbound[x].shown
         /\ \A e \in DOMAIN config.route : config.route[e] => e \in panel.outbounds
         /\ {a \in DOMAIN config.auto : config.auto[a].on} \subseteq DOMAIN panel.balancer
         /\ \A a \in DOMAIN config.auto : panel.inbound[a].shown = config.auto[a].pub

\* `reconcile --apply` that commits leaves nothing for drift_plan to report,
\* whatever others had done to the panel and whatever earlier commands left,
\* and an Auto Route that is not pinned is structurally sound if it is the
\* only one (a second one takes the observatory over).
ReconcileRepairs ==
  [][ job.kind = "reconcile" /\ Commit =>
        /\ DriftPlan(config, panel, public) = {}
        /\ \A a \in DOMAIN config.auto :
             /\ a \in DOMAIN pins \/ AutoStatus(config, runtime, panel, pins, a) # "misconfigured"
             /\ config.auto[a].on = (a \in DOMAIN panel.balancer) ]_vars

\* Health runs take no lock, so one may put back what a command has just
\* changed in runtime.json; but once the commands stop, runtime.json comes to
\* speak of exactly the configured routes, each with its switch, for good.
Agrees ==
  /\ DOMAIN runtime.route = DOMAIN config.route
  /\ DOMAIN runtime.exit = DOMAIN config.route
  /\ \A e \in DOMAIN config.route :
       /\ runtime.route[e].enabled = config.route[e]
       /\ runtime.route[e].status = runtime.exit[e].status
       /\ (runtime.route[e].status = "disabled") = ~config.route[e]
RuntimeCatchesUp == <>[]Agrees

\* docs/PHASE11_AUTO_ROUTE.md:26: "Auto Route selectors must reference exact
\* existing `wm-exit-*` outbounds."  Between commands, with nobody else at the
\* panel, every balancer selects outbounds that exist.
SelectorsExist ==
  Free /\ drifts = 0 =>
    \A a \in DOMAIN panel.balancer : panel.balancer[a] \subseteq panel.outbounds
=============================================================================
