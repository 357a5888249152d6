-------------------------- MODULE RouteState_proofs --------------------------
(* Proofs about RouteState, for any Exits, Auto Routes, commands, health runs *)
(* and changes by others.                                                     *)
EXTENDS RouteState, FiniteSetTheorems, SequenceTheorems, WellFoundedInduction, TLAPS

-----------------------------------------------------------------------------
(* The inductive invariant.                                                   *)

Names == Exits \cup Autos
Inbounds == [on : BOOLEAN, shown : BOOLEAN]
Selections == (SUBSET Exits) \ {{}}
AutoRoutes == [sel : Selections, on : BOOLEAN, pub : BOOLEAN]
Configs ==
  {c \in [exits : SUBSET Exits, route : PartialFun(Exits, BOOLEAN),
          auto : PartialFun(Autos, AutoRoutes), mode : Modes] :
     DOMAIN c.route \subseteq c.exits}
Panels ==
  [inbound : PartialFun(Names, Inbounds), outbounds : SUBSET Exits,
   balancer : PartialFun(Autos, Selections), watched : SUBSET Exits]
Counted(r) ==
  \A e \in DOMAIN r.exit :
    LET h == r.exit[e]
    IN  /\ h.status = "healthy" => h.fail < Enough
        /\ h.status = "unhealthy" => h.fail = Enough
        /\ h.succ = 0 \/ h.fail = 0
Files == {r \in RuntimeFiles : Counted(r)}

Steps ==
  {Expose, Install, Synchronise}
  \cup {Inbound(x) : x \in Names} \cup {ShownInbound(x) : x \in Names}
  \cup {Switch(x) : x \in Names} \cup {Delete(x) : x \in Names}
  \cup {Route(e) : e \in Exits} \cup {Unroute(S) : S \in SUBSET Exits}
  \cup {Balance(a, S) : a \in Autos, S \in SUBSET Exits} \cup {Unbalance(a) : a \in Autos}
  \cup {PinTo(a, e) : a \in Autos, e \in Exits} \cup {Unpin(a) : a \in Autos}

JobFields == {"kind", "plan", "cand", "saved"}
JobTyped ==
  job.kind # "none" =>
    /\ job.plan \in Seq(Steps) /\ job.cand \in Configs
    /\ job.saved[1] \in Configs /\ job.saved[2] \in Panels
    /\ job.saved[3] \in SUBSET Names /\ job.saved[4] \in Files
Typed ==
  /\ config \in Configs /\ panel \in Panels /\ public \in SUBSET Names
  /\ pins \in PartialFun(Autos, Exits) /\ runtime \in Files /\ drifts \in Nat
  /\ DOMAIN obs = {"pc", "seen", "ok", "result"}
  /\ obs.pc \in {"idle", "probe", "evaluate", "write"}
  /\ obs.pc = "write" => obs.result \in Files
  /\ DOMAIN job = JobFields /\ JobTyped

\* The panel as a configuration asks for it, where nobody else touched it.
PubOn(c) == \A a \in DOMAIN c.auto : c.auto[a].pub => c.auto[a].on
Shows(c, p) ==
  /\ DOMAIN p.inbound = Managed(c)
  /\ \A x \in Managed(c) :
       /\ p.inbound[x].on = Enabled(c, x)
       /\ IsPublic(c, x) => p.inbound[x].shown
  /\ \A e \in DOMAIN c.route : c.route[e] => e \in p.outbounds
  /\ \A a \in DOMAIN c.auto : c.auto[a].on => a \in DOMAIN p.balancer
  /\ \A a \in DOMAIN c.auto : p.inbound[a].shown = c.auto[a].pub
Live(c, p, pub) == pub = Published(c) /\ PubOn(c) /\ (drifts = 0 => Shows(c, p))

\* No step still to come undoes what the candidate asks for.
Sanctioned(c, todo) ==
  /\ \A x \in Names : Inbound(x) \in todo \/ Switch(x) \in todo => x \in Managed(c)
  /\ \A x \in Names : ShownInbound(x) \in todo =>
        x \in Managed(c) /\ Enabled(c, x) /\ (x \in Autos => ~c.auto[x].pub)
  /\ \A x \in Names : Delete(x) \in todo => x \notin Managed(c)
  /\ \A S \in SUBSET Exits : Unroute(S) \in todo => \A e \in S \cap DOMAIN c.route : ~c.route[e]
  /\ \A a \in Autos : Unbalance(a) \in todo /\ a \in DOMAIN c.auto => ~c.auto[a].on

\* Whatever of the candidate the panel does not show has its step still to come.
InboundsComing(c, p, todo) ==
  /\ \A x \in Managed(c) : x \in DOMAIN p.inbound \/ Inbound(x) \in todo \/ ShownInbound(x) \in todo
  /\ \A x \in Managed(c) \cap DOMAIN p.inbound :
       /\ p.inbound[x].on = Enabled(c, x) \/ Switch(x) \in todo
       /\ IsPublic(c, x) => p.inbound[x].shown \/ Inbound(x) \in todo
       /\ x \in Autos => p.inbound[x].shown = c.auto[x].pub \/ Inbound(x) \in todo
  /\ \A x \in DOMAIN p.inbound : x \in Managed(c) \/ Delete(x) \in todo
RoutesComing(c, p, todo) ==
  \A e \in DOMAIN c.route : c.route[e] => e \in p.outbounds \/ Route(e) \in todo
BalancersComing(c, p, todo) ==
  \A a \in DOMAIN c.auto : c.auto[a].on =>
    a \in DOMAIN p.balancer \/ \E S \in SUBSET Exits : Balance(a, S) \in todo
Coming(c, p, todo) ==
  InboundsComing(c, p, todo) /\ RoutesComing(c, p, todo) /\ BalancersComing(c, p, todo)

Ordinary(c, p, todo) ==
  /\ PubOn(c) /\ Sanctioned(c, todo)
  /\ config = c \/ Install \in todo
  /\ public = Published(c) \/ Expose \in todo
  /\ drifts = 0 => Coming(c, p, todo)

\* An override changes balancers and pins only.
Aside ==
  {Balance(a, S) : a \in Autos, S \in SUBSET Exits}
  \cup {PinTo(a, e) : a \in Autos, e \in Exits} \cup {Unpin(a) : a \in Autos}

\* A reconciliation has a step for whatever the panel does not show, whoever
\* changed it; with one Auto Route the observatory follows its balancer.
BalancerRight(c, p, a) ==
  /\ a \in DOMAIN p.balancer /\ p.balancer[a] = c.auto[a].sel
  /\ (\A b \in Autos : a = b) => p.watched = c.auto[a].sel /\ c.auto[a].sel \subseteq p.outbounds
InboundsMending(c, p, todo) ==
  \A x \in Managed(c) :
    /\ InboundMatches(c, p, x) \/ Inbound(x) \in todo
    /\ x \in DOMAIN p.inbound => p.inbound[x].on = Enabled(c, x) \/ Switch(x) \in todo
BalancersMending(c, p, todo) ==
  \A a \in DOMAIN c.auto :
    /\ c.auto[a].on => Balance(a, c.auto[a].sel) \in todo \/ BalancerRight(c, p, a)
    /\ ~c.auto[a].on => Unbalance(a) \in todo \/ a \notin DOMAIN p.balancer
Mending(c, todo) ==
  /\ \A x \in Names : ShownInbound(x) \notin todo /\ Delete(x) \notin todo
  /\ \A S \in SUBSET Exits : Unroute(S) \notin todo
  /\ \A a \in Autos, S \in SUBSET Exits :
       Balance(a, S) \in todo => a \in DOMAIN c.auto /\ c.auto[a].on /\ S = c.auto[a].sel
Repairing(c, p, todo) ==
  /\ config = c /\ Mending(c, todo)
  /\ InboundsMending(c, p, todo) /\ RoutesComing(c, p, todo) /\ BalancersMending(c, p, todo)

Todo == Range(job.plan)
Working ==
  /\ Live(job.saved[1], job.saved[2], job.saved[3])
  /\ IF job.kind = "override"
       THEN job.cand = config /\ Live(config, panel, public) /\ Todo \subseteq Aside
       ELSE Ordinary(job.cand, panel, Todo)
  /\ job.kind = "reconcile" => Repairing(job.cand, panel, Todo)

IInv == Typed /\ IF Free THEN Live(config, panel, public) ELSE Working

-----------------------------------------------------------------------------
(* Sequences.                                                                 *)

\* Induction, from the well-foundedness of the naturals.
LEMMA Induct ==
  ASSUME NEW T \in SUBSET Nat, 0 \in T, \A n \in T : n + 1 \in T
  PROVE  T = Nat
  <1> DEFINE Below == {pq \in Nat \X Nat : pq[1] < pq[2]}
             Missing == Nat \ T
  <1>1. SUFFICES ASSUME Missing # {} PROVE FALSE
    OBVIOUS
  <1>2. IsWellFoundedOn(Below, Nat)
    <2>1. Below = OpToRel(<, Nat)
      BY DEF OpToRel
    <2> QED  BY <2>1, NatLessThanWellFounded
  <1>3. Missing \subseteq Nat
    OBVIOUS
  <1> HIDE DEF Missing, Below
  <1>4. PICK n \in Missing : \A m \in Missing : ~(<<m, n>> \in Below)
    BY <1>1, <1>2, <1>3, WFMin
  <1>5. n \in Nat /\ n \notin T /\ \A m \in Missing : ~(m < n)
    BY <1>3, <1>4 DEF Missing, Below
  <1>6. n # 0 /\ n - 1 \in Nat /\ n - 1 < n
    BY <1>5
  <1>7. n - 1 \in T
    BY <1>5, <1>6 DEF Missing
  <1> QED  BY <1>5, <1>6, <1>7

\* The sequence made of a finite set has exactly its elements.
LEMMA SetToSeqRange ==
  ASSUME NEW S, IsFiniteSet(S)
  PROVE  SetToSeq(S) \in Seq(S) /\ Range(SetToSeq(S)) = S
  <1> DEFINE n == Cardinality(S)
             f == SetToSeq(S)
  <1>1. n \in Nat /\ ExistsBijection(1..n, S)
    BY FS_CardinalityType
  <1>2. PICK g : g \in Bijection(1..n, S)
    BY <1>1 DEF ExistsBijection
  <1>3. g \in [1..n -> S] /\ IsInjective(g)
    BY <1>2 DEF Bijection, Injection, IsInjective
  <1>4. f \in [1..n -> S] /\ IsInjective(f)
    BY <1>3 DEF SetToSeq
  <1> HIDE DEF f
  <1>5. f \in Injection(1..n, S)
    BY <1>4 DEF Injection, IsInjective
  <1>6. Cardinality(1..n) = n
    BY <1>1, FS_Interval
  <1>7. f \in Surjection(1..n, S)
    BY <1>5, <1>6, FS_Injection
  <1>8. \A x \in S : \E i \in 1..n : f[i] = x
    BY <1>7 DEF Surjection
  <1>9. f \in Seq(S)
    BY <1>1, <1>4
  <1> QED  BY <1>4, <1>8, <1>9 DEF Range, f

\* What the elements of joined sequences and of a rest are.
LEMMA ConcatRange ==
  ASSUME NEW S, NEW s \in Seq(S), NEW t \in Seq(S)
  PROVE  s \o t \in Seq(S) /\ Range(s \o t) = Range(s) \cup Range(t)
  <1>1. s \o t \in Seq(S) /\ Len(s \o t) = Len(s) + Len(t)
        /\ \A i \in 1..(Len(s) + Len(t)) : (s \o t)[i] = IF i <= Len(s) THEN s[i] ELSE t[i - Len(s)]
    OBVIOUS
  <1>2. Range(s \o t) \subseteq Range(s) \cup Range(t)
    BY <1>1 DEF Range
  <1>3. Range(s) \subseteq Range(s \o t)
    BY <1>1 DEF Range
  <1>4. Range(t) \subseteq Range(s \o t)
    <2> SUFFICES ASSUME NEW i \in 1..Len(t) PROVE t[i] \in Range(s \o t)
      BY DEF Range
    <2>1. Len(s) + i \in 1..(Len(s) + Len(t)) /\ ~(Len(s) + i <= Len(s)) /\ (Len(s) + i) - Len(s) = i
      OBVIOUS
    <2>2. (s \o t)[Len(s) + i] = t[i]
      BY <1>1, <2>1
    <2>3. Len(s) + i \in DOMAIN (s \o t)
      BY <1>1, <2>1
    <2> QED  BY <2>2, <2>3 DEF Range
  <1> QED  BY <1>1, <1>2, <1>3, <1>4

LEMMA TailRange ==
  ASSUME NEW S, NEW s \in Seq(S), s # << >>
  PROVE  /\ Head(s) \in S /\ Tail(s) \in Seq(S)
         /\ Range(s) = {Head(s)} \cup Range(Tail(s))
  <1>1. Head(s) \in S /\ Tail(s) \in Seq(S) /\ Len(s) \in Nat \ {0} /\ Len(Tail(s)) = Len(s) - 1
        /\ Head(s) = s[1] /\ \A i \in 1..(Len(s) - 1) : Tail(s)[i] = s[i + 1]
    OBVIOUS
  <1>2. Range(s) \subseteq {Head(s)} \cup Range(Tail(s))
    <2> SUFFICES ASSUME NEW i \in 1..Len(s) PROVE s[i] \in {Head(s)} \cup Range(Tail(s))
      BY DEF Range
    <2>1. CASE i = 1
      BY <1>1, <2>1
    <2>2. CASE i # 1
      <3>1. i - 1 \in 1..(Len(s) - 1) /\ (i - 1) + 1 = i
        BY <1>1, <2>2
      <3>2. Tail(s)[i - 1] = s[i]
        BY <1>1, <3>1
      <3>3. i - 1 \in DOMAIN Tail(s)
        BY <1>1, <3>1
      <3> QED  BY <3>2, <3>3 DEF Range
    <2> QED  BY <2>1, <2>2
  <1>3. Range(Tail(s)) \subseteq Range(s)
    <2> SUFFICES ASSUME NEW i \in 1..(Len(s) - 1) PROVE Tail(s)[i] \in Range(s)
      BY <1>1 DEF Range
    <2>1. i + 1 \in 1..Len(s)
      BY <1>1
    <2> QED  BY <1>1, <2>1 DEF Range
  <1>4. Head(s) \in Range(s)
    BY <1>1 DEF Range
  <1> QED  BY <1>1, <1>2, <1>3, <1>4

\* FlattenSeq as a function of the number of sequences joined.
Flattens(ss, n, f) == f = [i \in 1..n |-> IF i = 1 THEN ss[i] ELSE f[i-1] \o ss[i]]

LEMMA FlattensAt ==
  ASSUME NEW S, NEW ss \in Seq(Seq(S)), NEW n \in Nat, NEW f \in [1..n -> Seq(S)]
  PROVE  Flattens(ss, n, f) <=> \A i \in 1..n : f[i] = IF i = 1 THEN ss[i] ELSE f[i-1] \o ss[i]
  BY DEF Flattens

LEMMA FlattensOne ==
  ASSUME NEW S, NEW ss \in Seq(Seq(S)), NEW k \in Nat, k + 1 <= Len(ss),
         NEW g \in [1..k -> Seq(S)], Flattens(ss, k, g)
  PROVE  \E f \in [1..(k + 1) -> Seq(S)] : Flattens(ss, k + 1, f)
  <1> DEFINE v == IF k = 0 THEN ss[1] ELSE g[k] \o ss[k + 1]
             h == [i \in 1..(k + 1) |-> IF i = k + 1 THEN v ELSE g[i]]
  <1>1. ss[k + 1] \in Seq(S) /\ ss[1] \in Seq(S)
    OBVIOUS
  <1>2. v \in Seq(S)
    <2>1. CASE k = 0
      BY <1>1, <2>1
    <2>2. CASE k # 0
      <3>1. g[k] \in Seq(S)
        BY <2>2
      <3>2. g[k] \o ss[k + 1] \in Seq(S)
        BY <1>1, <3>1, ConcatRange
      <3> QED  BY <2>2, <3>2
    <2> HIDE DEF v
    <2> QED  BY <2>1, <2>2
  <1>3. \A i \in 1..k : g[i] = IF i = 1 THEN ss[i] ELSE g[i-1] \o ss[i]
    <2> HIDE DEF v, h
    <2> QED  BY DEF Flattens
  <1> HIDE DEF v
  <1>4. \A i \in 1..(k + 1) : h[i] = IF i = k + 1 THEN v ELSE g[i]
    OBVIOUS
  <1>5. DOMAIN h = 1..(k + 1) /\ \A i \in 1..(k + 1) : h[i] \in Seq(S)
    <2> SUFFICES ASSUME NEW i \in 1..(k + 1) PROVE h[i] \in Seq(S)
      OBVIOUS
    <2>1. i # k + 1 => i \in 1..k
      OBVIOUS
    <2>2. i # k + 1 => g[i] \in Seq(S)
      BY <2>1
    <2> HIDE DEF h
    <2> QED  BY <1>2, <1>4, <2>2
  <1>6. h \in [1..(k + 1) -> Seq(S)]
    <2>1. h = [i \in 1..(k + 1) |-> h[i]]
      OBVIOUS
    <2> HIDE DEF h
    <2> QED  BY <1>5, <2>1
  <1> HIDE DEF h
  <1>7. \A i \in 1..(k + 1) : h[i] = IF i = 1 THEN ss[i] ELSE h[i-1] \o ss[i]
    <2> SUFFICES ASSUME NEW i \in 1..(k + 1) PROVE h[i] = IF i = 1 THEN ss[i] ELSE h[i-1] \o ss[i]
      OBVIOUS
    <2>1. CASE i = k + 1
      <3>1. CASE k = 0
        BY <1>4, <2>1, <3>1 DEF v
      <3>2. CASE k # 0
        <4>1. k \in 1..(k + 1) /\ k # k + 1 /\ i # 1 /\ i - 1 = k
          BY <2>1, <3>2
        <4>2. h[k] = g[k] /\ h[i] = g[k] \o ss[i]
          BY <1>4, <2>1, <3>2, <4>1 DEF v
        <4> QED  BY <4>1, <4>2
      <3> QED  BY <3>1, <3>2
    <2>2. CASE i # k + 1
      <3>1. i \in 1..k /\ (i # 1 => i - 1 \in 1..(k + 1) /\ i - 1 # k + 1)
        BY <2>2
      <3>2. h[i] = g[i] /\ (i # 1 => h[i - 1] = g[i - 1])
        BY <1>4, <2>2, <3>1
      <3> QED  BY <1>3, <3>1, <3>2
    <2> QED  BY <2>1, <2>2
  <1>8. k + 1 \in Nat
    OBVIOUS
  <1>9. Flattens(ss, k + 1, h)
    BY <1>6, <1>7, <1>8, FlattensAt
  <1> QED  BY <1>6, <1>9

LEMMA FlattensExists ==
  ASSUME NEW S, NEW ss \in Seq(Seq(S)), NEW n \in Nat, n <= Len(ss)
  PROVE  \E f \in [1..n -> Seq(S)] : Flattens(ss, n, f)
  <1> DEFINE T == {k \in Nat : k <= Len(ss) => \E f \in [1..k -> Seq(S)] : Flattens(ss, k, f)}
  <1>1. 0 \in T
    <2> DEFINE e == [i \in 1..0 |-> << >>]
    <2>1. e \in [1..0 -> Seq(S)]
      OBVIOUS
    <2>2. \A i \in 1..0 : e[i] = IF i = 1 THEN ss[i] ELSE e[i-1] \o ss[i]
      OBVIOUS
    <2> HIDE DEF e
    <2>3. Flattens(ss, 0, e)
      BY <2>1, <2>2, FlattensAt
    <2> QED  BY <2>1, <2>3
  <1>2. \A k \in T : k + 1 \in T
    <2> SUFFICES ASSUME NEW k \in T, k + 1 <= Len(ss)
                 PROVE  \E f \in [1..(k + 1) -> Seq(S)] : Flattens(ss, k + 1, f)
      OBVIOUS
    <2>1. k \in Nat /\ k <= Len(ss)
      OBVIOUS
    <2>2. PICK g \in [1..k -> Seq(S)] : Flattens(ss, k, g)
      BY <2>1
    <2> HIDE DEF T
    <2> QED  BY <2>1, <2>2, FlattensOne
  <1>3. T \in SUBSET Nat
    OBVIOUS
  <1> HIDE DEF T
  <1>4. T = Nat
    BY <1>1, <1>2, <1>3, Induct
  <1> QED  BY <1>4 DEF T

\* What FlattenSeq joins are sequences over S, and it has all their elements.
LEMMA FlattenRange ==
  ASSUME NEW S, NEW ss \in Seq(Seq(S))
  PROVE  /\ FlattenSeq(ss) \in Seq(S)
         /\ Range(FlattenSeq(ss)) = UNION {Range(ss[i]) : i \in DOMAIN ss}
  <1> DEFINE n == Len(ss)
             fl == CHOOSE f : Flattens(ss, n, f)
  <1>1. n \in Nat /\ DOMAIN ss = 1..n /\ \A i \in 1..n : ss[i] \in Seq(S)
    OBVIOUS
  <1>2. CASE n = 0
    <2>1. FlattenSeq(ss) = ss
      BY <1>2 DEF FlattenSeq
    <2>2. ss = << >>
      BY <1>2
    <2>3. << >> \in Seq(S) /\ DOMAIN << >> = {}
      OBVIOUS
    <2> QED  BY <2>1, <2>2, <2>3 DEF Range
  <1>3. CASE n # 0
    <2>1. FlattenSeq(ss) = fl[n]
      BY <1>3 DEF FlattenSeq, Flattens
    <2> HIDE DEF n
    <2>2. \E f \in [1..n -> Seq(S)] : Flattens(ss, n, f)
      BY <1>1, FlattensExists DEF n
    <2>3. Flattens(ss, n, fl)
      BY <2>2
    <2> HIDE DEF fl
    <2>4. \A i \in 1..n : fl[i] = IF i = 1 THEN ss[i] ELSE fl[i-1] \o ss[i]
      BY <2>3 DEF Flattens
    <2> DEFINE Joined(k) == UNION {Range(ss[i]) : i \in 1..k}
               T == {k \in Nat : k \in 1..n => fl[k] \in Seq(S) /\ Range(fl[k]) = Joined(k)}
    <2>5. 0 \in T
      BY <1>1
    <2> HIDE DEF Joined
    <2>6. \A k \in T : k + 1 \in T
      <3> SUFFICES ASSUME NEW k \in T, k + 1 \in 1..n
                   PROVE  fl[k + 1] \in Seq(S) /\ Range(fl[k + 1]) = Joined(k + 1)
        OBVIOUS
      <3>1. k \in Nat /\ ss[k + 1] \in Seq(S)
        BY <1>1
      <3>2. Joined(k + 1) = Joined(k) \cup Range(ss[k + 1])
        <4>1. 1..(k + 1) = 1..k \cup {k + 1}
          BY <3>1
        <4> QED  BY <4>1 DEF Joined
      <3>3. CASE k = 0
        <4>1. fl[k + 1] = ss[k + 1]
          BY <2>4, <3>3
        <4>2. Joined(k) = {}
          BY <3>3 DEF Joined
        <4> QED  BY <3>1, <3>2, <4>1, <4>2
      <3>4. CASE k # 0
        <4>1. k \in 1..n /\ k + 1 # 1 /\ (k + 1) - 1 = k
          BY <1>1, <3>1, <3>4
        <4>2. fl[k] \in Seq(S) /\ Range(fl[k]) = Joined(k)
          BY <4>1
        <4>3. fl[k + 1] = fl[k] \o ss[k + 1]
          BY <2>4, <4>1
        <4>4. fl[k] \o ss[k + 1] \in Seq(S) /\ Range(fl[k] \o ss[k + 1]) = Range(fl[k]) \cup Range(ss[k + 1])
          BY <3>1, <4>2, ConcatRange
        <4> QED  BY <3>2, <4>2, <4>3, <4>4
      <3> QED  BY <3>3, <3>4
    <2>7. T \in SUBSET Nat
      OBVIOUS
    <2>8. n \in T
      <3> HIDE DEF T
      <3>1. T = Nat
        BY <2>5, <2>6, <2>7, Induct
      <3> QED  BY <1>1, <3>1
    <2>9. fl[n] \in Seq(S) /\ Range(fl[n]) = Joined(n)
      BY <1>1, <1>3, <2>8
    <2> QED  BY <1>1, <2>1, <2>9 DEF Joined
  <1> QED  BY <1>2, <1>3

\* A plan given step by step.
LEMMA Range2 ==
  ASSUME NEW S, NEW a \in S, NEW b \in S
  PROVE  <<a, b>> \in Seq(S) /\ Range(<<a, b>>) = {a, b}
  <1>1. DOMAIN <<a, b>> = {1, 2} /\ <<a, b>>[1] = a /\ <<a, b>>[2] = b
    OBVIOUS
  <1> QED  BY <1>1 DEF Range

LEMMA Range1 ==
  ASSUME NEW S, NEW a \in S
  PROVE  <<a>> \in Seq(S) /\ Range(<<a>>) = {a}
  <1>1. DOMAIN <<a>> = {1} /\ <<a>>[1] = a
    OBVIOUS
  <1> QED  BY <1>1 DEF Range

LEMMA Range3 ==
  ASSUME NEW S, NEW a \in S, NEW b \in S, NEW c \in S
  PROVE  <<a, b, c>> \in Seq(S) /\ Range(<<a, b, c>>) = {a, b, c}
  <1>1. DOMAIN <<a, b, c>> = {1, 2, 3}
    OBVIOUS
  <1>2. <<a, b, c>>[1] = a /\ <<a, b, c>>[2] = b /\ <<a, b, c>>[3] = c
    OBVIOUS
  <1> QED  BY <1>1, <1>2 DEF Range

LEMMA Range4 ==
  ASSUME NEW S, NEW a \in S, NEW b \in S, NEW c \in S, NEW d \in S
  PROVE  <<a, b, c, d>> \in Seq(S) /\ Range(<<a, b, c, d>>) = {a, b, c, d}
  <1>1. DOMAIN <<a, b, c, d>> = {1, 2, 3, 4}
    OBVIOUS
  <1>2. /\ <<a, b, c, d>>[1] = a /\ <<a, b, c, d>>[2] = b /\ <<a, b, c, d>>[3] = c
        /\ <<a, b, c, d>>[4] = d
    OBVIOUS
  <1> QED  BY <1>1, <1>2 DEF Range

LEMMA Range5 ==
  ASSUME NEW S, NEW a \in S, NEW b \in S, NEW c \in S, NEW d \in S, NEW e \in S
  PROVE  <<a, b, c, d, e>> \in Seq(S) /\ Range(<<a, b, c, d, e>>) = {a, b, c, d, e}
  <1>1. DOMAIN <<a, b, c, d, e>> = {1, 2, 3, 4, 5}
    OBVIOUS
  <1>2. /\ <<a, b, c, d, e>>[1] = a /\ <<a, b, c, d, e>>[2] = b /\ <<a, b, c, d, e>>[3] = c
        /\ <<a, b, c, d, e>>[4] = d /\ <<a, b, c, d, e>>[5] = e
    OBVIOUS
  <1> QED  BY <1>1, <1>2 DEF Range

-----------------------------------------------------------------------------
(* Partial functions, and the records made of them.                           *)

LEMMA Partial ==
  ASSUME NEW S, NEW T, NEW f
  PROVE  f \in PartialFun(S, T) <=>
           /\ f = [x \in DOMAIN f |-> f[x]] /\ DOMAIN f \subseteq S
           /\ \A x \in DOMAIN f : f[x] \in T
  <1>1. ASSUME f \in PartialFun(S, T)
        PROVE  f = [x \in DOMAIN f |-> f[x]] /\ DOMAIN f \subseteq S /\ \A x \in DOMAIN f : f[x] \in T
    <2>1. PICK D \in SUBSET S : f \in [D -> T]
      BY <1>1 DEF PartialFun
    <2> QED  BY <2>1
  <1>2. ASSUME f = [x \in DOMAIN f |-> f[x]], DOMAIN f \subseteq S, \A x \in DOMAIN f : f[x] \in T
        PROVE  f \in PartialFun(S, T)
    <2>1. f \in [DOMAIN f -> T]
      BY <1>2
    <2> QED  BY <1>2, <2>1 DEF PartialFun
  <1> QED  BY <1>1, <1>2

LEMMA WithPartial ==
  ASSUME NEW S, NEW T, NEW f \in PartialFun(S, T), NEW x \in S, NEW v \in T
  PROVE  With(f, x, v) \in PartialFun(S, T)
  <1>1. DOMAIN f \subseteq S /\ \A y \in DOMAIN f : f[y] \in T
    BY Partial
  <1> DEFINE g == With(f, x, v)
  <1>2. /\ DOMAIN g = DOMAIN f \cup {x} /\ g[x] = v /\ \A y \in DOMAIN f : y # x => g[y] = f[y]
        /\ g = [y \in DOMAIN g |-> g[y]]
    BY DEF With
  <1> HIDE DEF g
  <1>3. DOMAIN g \subseteq S /\ \A y \in DOMAIN g : g[y] \in T
    BY <1>1, <1>2
  <1>4. g \in PartialFun(S, T)
    BY <1>2, <1>3, Partial
  <1> QED  BY <1>4 DEF g

LEMMA WithoutFacts ==
  ASSUME NEW f, NEW x
  PROVE  /\ DOMAIN Without(f, x) = DOMAIN f \ {x}
         /\ \A y \in DOMAIN f : y # x => Without(f, x)[y] = f[y]
         /\ Without(f, x) = [y \in DOMAIN Without(f, x) |-> Without(f, x)[y]]
  BY DEF Without, Restrict

LEMMA WithoutPartial ==
  ASSUME NEW S, NEW T, NEW f \in PartialFun(S, T), NEW x
  PROVE  Without(f, x) \in PartialFun(S, T)
  <1>1. DOMAIN f \subseteq S /\ \A y \in DOMAIN f : f[y] \in T
    BY Partial
  <1> DEFINE g == Without(f, x)
  <1>2. /\ DOMAIN g = DOMAIN f \ {x} /\ \A y \in DOMAIN f : y # x => g[y] = f[y]
        /\ g = [y \in DOMAIN g |-> g[y]]
    BY WithoutFacts
  <1> HIDE DEF g
  <1>3. DOMAIN g \subseteq S /\ \A y \in DOMAIN g : g[y] \in T
    BY <1>1, <1>2
  <1>4. g \in PartialFun(S, T)
    BY <1>2, <1>3, Partial
  <1> QED  BY <1>4 DEF g

LEMMA EmptyPartial ==
  ASSUME NEW S, NEW T
  PROVE  Empty \in PartialFun(S, T) /\ DOMAIN Empty = {}
  <1>1. DOMAIN Empty = {} /\ Empty = [x \in DOMAIN Empty |-> Empty[x]]
    BY DEF Empty
  <1> QED  BY <1>1, Partial

\* What a configuration has.
LEMMA ConfigFacts ==
  ASSUME NEW c \in Configs
  PROVE  /\ c.exits \subseteq Exits /\ DOMAIN c.route \subseteq c.exits /\ c.mode \in Modes
         /\ c.route \in PartialFun(Exits, BOOLEAN) /\ c.auto \in PartialFun(Autos, AutoRoutes)
         /\ DOMAIN c.auto \subseteq Autos
         /\ \A e \in DOMAIN c.route : c.route[e] \in BOOLEAN
         /\ \A a \in DOMAIN c.auto :
              /\ c.auto[a] \in AutoRoutes /\ c.auto[a].on \in BOOLEAN /\ c.auto[a].pub \in BOOLEAN
              /\ c.auto[a].sel \in SUBSET Exits /\ c.auto[a].sel # {}
         /\ Managed(c) \subseteq Names
         /\ \A x \in Managed(c) : Enabled(c, x) \in BOOLEAN /\ IsPublic(c, x) \in BOOLEAN
         /\ \A e \in DOMAIN c.route :
              /\ e \in Exits /\ e \notin Autos /\ e \notin DOMAIN c.auto
              /\ Enabled(c, e) = c.route[e] /\ IsPublic(c, e) = (c.route[e] /\ c.mode = "all")
         /\ \A a \in DOMAIN c.auto :
              /\ a \in Autos /\ a \notin Exits /\ a \notin DOMAIN c.route
              /\ Enabled(c, a) = c.auto[a].on /\ IsPublic(c, a) = (c.auto[a].on /\ c.auto[a].pub)
  <1>1. /\ c.exits \subseteq Exits /\ DOMAIN c.route \subseteq c.exits /\ c.mode \in Modes
        /\ c.route \in PartialFun(Exits, BOOLEAN) /\ c.auto \in PartialFun(Autos, AutoRoutes)
    BY DEF Configs
  <1>2. /\ DOMAIN c.auto \subseteq Autos /\ \A e \in DOMAIN c.route : c.route[e] \in BOOLEAN
        /\ \A a \in DOMAIN c.auto : c.auto[a] \in AutoRoutes
    BY <1>1, Partial
  <1>3. \A r \in AutoRoutes : r.on \in BOOLEAN /\ r.pub \in BOOLEAN /\ r.sel \in SUBSET Exits /\ r.sel # {}
    BY DEF AutoRoutes, Selections
  <1>4. \A e \in DOMAIN c.route :
          /\ e \in Exits /\ e \notin Autos /\ e \notin DOMAIN c.auto
          /\ Enabled(c, e) = c.route[e] /\ IsPublic(c, e) = (c.route[e] /\ c.mode = "all")
    BY <1>1, <1>2, NameAssumption DEF Enabled, IsPublic
  <1>5. \A a \in DOMAIN c.auto :
          /\ a \in Autos /\ a \notin Exits /\ a \notin DOMAIN c.route
          /\ Enabled(c, a) = c.auto[a].on /\ IsPublic(c, a) = (c.auto[a].on /\ c.auto[a].pub)
    BY <1>1, <1>2, NameAssumption DEF Enabled, IsPublic
  <1>6. Managed(c) \subseteq Names
    BY <1>1, <1>2 DEF Managed, Names
  <1>7. \A x \in Managed(c) : Enabled(c, x) \in BOOLEAN /\ IsPublic(c, x) \in BOOLEAN
    BY <1>2, <1>3, <1>4, <1>5 DEF Managed
  <1> QED  BY <1>1, <1>2, <1>3, <1>4, <1>5, <1>6, <1>7

LEMMA PanelFacts ==
  ASSUME NEW p \in Panels
  PROVE  /\ p.inbound \in PartialFun(Names, Inbounds) /\ DOMAIN p.inbound \subseteq Names
         /\ p.balancer \in PartialFun(Autos, Selections) /\ DOMAIN p.balancer \subseteq Autos
         /\ p.outbounds \subseteq Exits /\ p.watched \subseteq Exits
         /\ \A x \in DOMAIN p.inbound :
              p.inbound[x] \in Inbounds /\ p.inbound[x].on \in BOOLEAN /\ p.inbound[x].shown \in BOOLEAN
         /\ \A a \in DOMAIN p.balancer : p.balancer[a] \in Selections
  <1>1. /\ p.inbound \in PartialFun(Names, Inbounds) /\ p.balancer \in PartialFun(Autos, Selections)
        /\ p.outbounds \subseteq Exits /\ p.watched \subseteq Exits
    BY DEF Panels
  <1>2. /\ DOMAIN p.inbound \subseteq Names /\ \A x \in DOMAIN p.inbound : p.inbound[x] \in Inbounds
        /\ DOMAIN p.balancer \subseteq Autos /\ \A a \in DOMAIN p.balancer : p.balancer[a] \in Selections
    BY <1>1, Partial
  <1>3. \A r \in Inbounds : r.on \in BOOLEAN /\ r.shown \in BOOLEAN
    BY DEF Inbounds
  <1> QED  BY <1>1, <1>2, <1>3

-----------------------------------------------------------------------------
(* runtime.json: verdicts stay with their counters.                           *)

Sound(h) ==
  /\ h \in HealthRecords
  /\ h.status = "healthy" => h.fail < Enough
  /\ h.status = "unhealthy" => h.fail = Enough
  /\ h.succ = 0 \/ h.fail = 0

LEMMA FilesAre ==
  ASSUME NEW r
  PROVE  r \in Files <=>
           /\ r \in RuntimeFiles /\ \A e \in DOMAIN r.exit : Sound(r.exit[e])
  <1>1. ASSUME r \in RuntimeFiles PROVE \A e \in DOMAIN r.exit : r.exit[e] \in HealthRecords
    <2>1. r.exit \in PartialFun(Exits, HealthRecords)
      BY <1>1 DEF RuntimeFiles
    <2> QED  BY <2>1, Partial
  <1> QED  BY <1>1 DEF Files, Counted, Sound

LEMMA HealthIs ==
  ASSUME NEW s \in Statuses, NEW u \in 0..Enough, NEW d \in 0..Enough
  PROVE  /\ Health(s, u, d) \in HealthRecords
         /\ Health(s, u, d).status = s /\ Health(s, u, d).succ = u /\ Health(s, u, d).fail = d
  BY DEF Health, HealthRecords

LEMMA CappedIs ==
  ASSUME NEW n \in 0..Enough
  PROVE  Capped(n + 1) \in 0..Enough
  BY DEF Capped, Enough

LEMMA TransitionSound ==
  ASSUME NEW h, Sound(h), NEW success \in BOOLEAN, NEW enabled \in BOOLEAN, NEW bad \in BOOLEAN
  PROVE  Sound(Transition(h, success, enabled, bad))
  <1> DEFINE up == Capped(h.succ + 1)
             down == Capped(h.fail + 1)
             kept == IF h.status = "healthy" THEN "healthy" ELSE "unknown"
             t == Transition(h, success, enabled, bad)
  <1>1. up \in 0..Enough /\ down \in 0..Enough /\ 0 \in 0..Enough /\ Enough = 3
    <2>1. h.succ \in 0..Enough /\ h.fail \in 0..Enough
      BY DEF Sound, HealthRecords
    <2> QED  BY <2>1, CappedIs DEF Enough
  <1>2. kept \in {"healthy", "unknown"}
    OBVIOUS
  <1>3. Statuses = {"healthy", "unhealthy", "unknown", "misconfigured", "disabled"}
    BY DEF Statuses
  <1> HIDE DEF up, down, kept
  <1>4. CASE ~enabled
    <2>1. t = Health("disabled", 0, 0)
      BY <1>4 DEF Transition
    <2> QED  BY <1>1, <1>3, <2>1, HealthIs DEF Sound
  <1>5. CASE enabled /\ bad
    <2>1. t = Health("misconfigured", 0, down)
      BY <1>5 DEF Transition, down
    <2> QED  BY <1>1, <1>3, <2>1, HealthIs DEF Sound
  <1>6. CASE enabled /\ ~bad /\ success
    <2>1. t = Health(IF up = Enough THEN "healthy" ELSE kept, up, 0)
      BY <1>6 DEF Transition, up, kept
    <2>2. PICK s \in {"healthy", "unknown"} : t = Health(s, up, 0)
      BY <1>2, <2>1
    <2> QED  BY <1>1, <1>3, <2>2, HealthIs DEF Sound
  <1>7. CASE enabled /\ ~bad /\ ~success
    <2>1. t = Health(IF down = Enough THEN "unhealthy" ELSE kept, 0, down)
      BY <1>7 DEF Transition, down, kept
    <2>2. PICK s \in {"healthy", "unknown", "unhealthy"} :
            t = Health(s, 0, down) /\ (s = "unhealthy" <=> down = Enough)
      BY <1>2, <2>1
    <2>3. down # Enough => down < Enough
      BY <1>1
    <2> QED  BY <1>1, <1>3, <2>2, <2>3, HealthIs DEF Sound
  <1> QED  BY <1>4, <1>5, <1>6, <1>7

LEMMA FreshSound == Sound(Fresh) /\ Sound(Health("disabled", 0, 0))
  <1>1. 0 \in 0..Enough /\ Enough = 3 /\ "unknown" \in Statuses /\ "disabled" \in Statuses
    BY DEF Enough, Statuses
  <1> QED  BY <1>1, HealthIs DEF Sound, Fresh

Verdicts == [status : Statuses, enabled : BOOLEAN]
LEMMA VerdictsOf ==
  ASSUME NEW r \in Files
  PROVE  \A e \in DOMAIN r.route : r.route[e].status \in Statuses
  <1>1. r \in RuntimeFiles
    BY FilesAre
  <1>2. r.route \in PartialFun(Exits, Verdicts)
    BY <1>1 DEF RuntimeFiles, Verdicts
  <1>3. \A e \in DOMAIN r.route : r.route[e] \in Verdicts
    BY <1>2, Partial
  <1> QED  BY <1>3 DEF Verdicts

\* A file is made of a sound record for each exit and a verdict for each route.
LEMMA FileOf ==
  ASSUME NEW D \in SUBSET Exits, NEW E \in SUBSET Exits, NEW x, NEW y,
         x = [e \in DOMAIN x |-> x[e]], DOMAIN x = D, \A e \in D : Sound(x[e]),
         y = [e \in DOMAIN y |-> y[e]], DOMAIN y = E,
         \A e \in E : y[e] \in [status : Statuses, enabled : BOOLEAN]
  PROVE  [exit |-> x, route |-> y] \in Files
  <1>1. x \in PartialFun(Exits, HealthRecords)
    BY Partial DEF Sound
  <1>2. y \in PartialFun(Exits, [status : Statuses, enabled : BOOLEAN])
    BY Partial
  <1>3. [exit |-> x, route |-> y] \in RuntimeFiles
    BY <1>1, <1>2 DEF RuntimeFiles
  <1>4. [exit |-> x, route |-> y].exit = x
    OBVIOUS
  <1> QED  BY <1>3, <1>4, FilesAre

LEMMA EvaluateSound ==
  ASSUME NEW c \in Configs, NEW r \in Files, NEW seen, NEW pub, NEW ok
  PROVE  Evaluate(c, r, seen, pub, ok) \in Files
  <1> DEFINE sound(e) == Structural(c, seen, pub, e)
             old(e) == IF e \in DOMAIN r.exit THEN r.exit[e] ELSE Fresh
             exit == [e \in DOMAIN c.route |->
                        Transition(old(e), sound(e) /\ e \in ok, c.route[e], ~sound(e))]
             route == [e \in DOMAIN c.route |->
                         [status |-> exit[e].status, enabled |-> c.route[e]]]
  <1>1. \A e : Sound(old(e))
    BY FilesAre, FreshSound
  <1>2. DOMAIN c.route \in SUBSET Exits /\ \A e \in DOMAIN c.route : c.route[e] \in BOOLEAN
    BY ConfigFacts
  <1> HIDE DEF old
  <1>3. \A e \in DOMAIN c.route : Sound(exit[e])
    <2> SUFFICES ASSUME NEW e \in DOMAIN c.route PROVE Sound(exit[e])
      OBVIOUS
    <2>1. exit[e] = Transition(old(e), sound(e) /\ e \in ok, c.route[e], ~sound(e))
      OBVIOUS
    <2>2. (sound(e) /\ e \in ok) \in BOOLEAN /\ (~sound(e)) \in BOOLEAN
      OBVIOUS
    <2> HIDE DEF exit, sound
    <2> QED  BY <1>1, <1>2, <2>1, <2>2, TransitionSound
  <1>4. exit = [e \in DOMAIN exit |-> exit[e]] /\ DOMAIN exit = DOMAIN c.route
    OBVIOUS
  <1>5. route = [e \in DOMAIN route |-> route[e]] /\ DOMAIN route = DOMAIN c.route
        /\ \A e \in DOMAIN c.route : route[e] = [status |-> exit[e].status, enabled |-> c.route[e]]
    OBVIOUS
  <1>6. Evaluate(c, r, seen, pub, ok) = [exit |-> exit, route |-> route]
    BY DEF Evaluate, old
  <1> HIDE DEF exit, route
  <1>7. \A e \in DOMAIN c.route : route[e] \in [status : Statuses, enabled : BOOLEAN]
    <2>1. \A h : Sound(h) => h.status \in Statuses
      BY DEF Sound, HealthRecords
    <2>2. \A e \in DOMAIN c.route : exit[e].status \in Statuses
      BY <1>3, <2>1
    <2> SUFFICES ASSUME NEW e \in DOMAIN c.route
                 PROVE  route[e] \in [status : Statuses, enabled : BOOLEAN]
      OBVIOUS
    <2>3. route[e] = [status |-> exit[e].status, enabled |-> c.route[e]]
      BY <1>5
    <2> QED  BY <1>2, <2>2, <2>3
  <1>8. [exit |-> exit, route |-> route] \in Files
    <2> DEFINE D == DOMAIN c.route
    <2>1. /\ D \in SUBSET Exits /\ \A e \in D : Sound(exit[e])
          /\ exit = [e \in DOMAIN exit |-> exit[e]] /\ DOMAIN exit = D
          /\ route = [e \in DOMAIN route |-> route[e]] /\ DOMAIN route = D
          /\ \A e \in D : route[e] \in [status : Statuses, enabled : BOOLEAN]
      BY <1>2, <1>3, <1>4, <1>5, <1>7
    <2> HIDE DEF D
    <2> QED  BY <2>1, FileOf
  <1> QED  BY <1>6, <1>8

LEMMA SyncSound ==
  ASSUME NEW c \in Configs, NEW r \in Files
  PROVE  Sync(c, r) \in Files
  <1> DEFINE back(e) == /\ e \in DOMAIN r.route
                        /\ ~r.route[e].enabled \/ r.route[e].status = "disabled"
             status(e) == CASE ~c.route[e] -> "disabled"
                            [] c.route[e] /\ (back(e) \/ e \notin DOMAIN r.route) -> "unknown"
                            [] OTHER -> r.route[e].status
             counted == (DOMAIN r.exit \cap c.exits)
                          \cup {e \in DOMAIN c.route : ~c.route[e] \/ back(e)}
             exit(e) == CASE e \in DOMAIN c.route /\ ~c.route[e] -> Health("disabled", 0, 0)
                          [] e \in DOMAIN c.route /\ c.route[e] /\ back(e) -> Fresh
                          [] OTHER -> r.exit[e]
             x == [e \in counted |-> exit(e)]
             y == [e \in DOMAIN c.route |-> [status |-> status(e), enabled |-> c.route[e]]]
  <1>1. /\ DOMAIN c.route \in SUBSET Exits /\ c.exits \in SUBSET Exits
        /\ \A e \in DOMAIN c.route : c.route[e] \in BOOLEAN
    BY ConfigFacts
  <1>2. \A e \in DOMAIN r.exit : Sound(r.exit[e])
    BY FilesAre
  <1>3. \A e \in DOMAIN r.route : r.route[e].status \in Statuses
    BY VerdictsOf
  <1>4. Sync(c, r) = [exit |-> x, route |-> y]
    BY DEF Sync
  <1>5. counted \in SUBSET Exits
    BY <1>1
  <1>6. \A e \in counted : Sound(exit(e))
    <2> SUFFICES ASSUME NEW e \in counted PROVE Sound(exit(e))
      OBVIOUS
    <2>1. CASE e \in DOMAIN c.route /\ ~c.route[e]
      BY <2>1, FreshSound
    <2>2. CASE e \in DOMAIN c.route /\ c.route[e] /\ back(e)
      BY <2>2, FreshSound
    <2>3. CASE ~(e \in DOMAIN c.route /\ ~c.route[e]) /\ ~(e \in DOMAIN c.route /\ c.route[e] /\ back(e))
      <3>1. e \in DOMAIN r.exit
        BY <2>3
      <3>2. exit(e) = r.exit[e]
        BY <2>3
      <3> QED  BY <1>2, <3>1, <3>2
    <2> QED  BY <2>1, <2>2, <2>3
  <1>7. \A e \in DOMAIN c.route : status(e) \in Statuses
    <2> SUFFICES ASSUME NEW e \in DOMAIN c.route PROVE status(e) \in Statuses
      OBVIOUS
    <2>1. "disabled" \in Statuses /\ "unknown" \in Statuses
      BY DEF Statuses
    <2>2. CASE ~c.route[e]
      BY <2>1, <2>2
    <2>3. CASE c.route[e] /\ (back(e) \/ e \notin DOMAIN r.route)
      BY <2>1, <2>3
    <2>4. CASE c.route[e] /\ ~back(e) /\ e \in DOMAIN r.route
      <3>1. status(e) = r.route[e].status
        BY <2>4
      <3> QED  BY <1>3, <2>4, <3>1
    <2> QED  BY <1>1, <2>2, <2>3, <2>4
  <1> HIDE DEF counted, exit, status
  <1>8. x = [e \in DOMAIN x |-> x[e]] /\ DOMAIN x = counted /\ \A e \in counted : x[e] = exit(e)
    OBVIOUS
  <1>9. /\ y = [e \in DOMAIN y |-> y[e]] /\ DOMAIN y = DOMAIN c.route
        /\ \A e \in DOMAIN c.route : y[e] \in [status : Statuses, enabled : BOOLEAN]
    BY <1>1, <1>7
  <1> HIDE DEF x, y
  <1>10. \A e \in counted : Sound(x[e])
    BY <1>6, <1>8
  <1> QED  BY <1>1, <1>4, <1>5, <1>8, <1>9, <1>10, FileOf

-----------------------------------------------------------------------------
(* The steps of a command.                                                    *)

LEMMA Tags ==
  /\ \A x : Inbound(x)[1] = "inbound" /\ Inbound(x)[2] = x
  /\ \A x : ShownInbound(x)[1] = "build" /\ ShownInbound(x)[2] = x
  /\ \A x : Switch(x)[1] = "switch" /\ Switch(x)[2] = x
  /\ \A x : Delete(x)[1] = "delete" /\ Delete(x)[2] = x
  /\ \A x : Route(x)[1] = "route" /\ Route(x)[2] = x
  /\ \A x : Unroute(x)[1] = "unroute" /\ Unroute(x)[2] = x
  /\ \A x, y : Balance(x, y)[1] = "balance" /\ Balance(x, y)[2] = x /\ Balance(x, y)[3] = y
  /\ \A x : Unbalance(x)[1] = "unbalance" /\ Unbalance(x)[2] = x
  /\ \A x, y : PinTo(x, y)[1] = "pin" /\ PinTo(x, y)[2] = x /\ PinTo(x, y)[3] = y
  /\ \A x : Unpin(x)[1] = "unpin" /\ Unpin(x)[2] = x
  /\ Expose[1] = "public" /\ Install[1] = "install" /\ Synchronise[1] = "sync"
  BY DEF Inbound, ShownInbound, Switch, Delete, Route, Unroute, Balance, Unbalance, PinTo, Unpin,
         Expose, Install, Synchronise

LEMMA StepsAre ==
  /\ Expose \in Steps /\ Install \in Steps /\ Synchronise \in Steps
  /\ \A x \in Names : Inbound(x) \in Steps /\ ShownInbound(x) \in Steps
                      /\ Switch(x) \in Steps /\ Delete(x) \in Steps
  /\ \A e \in Exits : Route(e) \in Steps
  /\ \A S \in SUBSET Exits : Unroute(S) \in Steps
  /\ \A a \in Autos : Unbalance(a) \in Steps /\ Unpin(a) \in Steps
  /\ \A a \in Autos, S \in SUBSET Exits : Balance(a, S) \in Steps
  /\ \A a \in Autos, e \in Exits : PinTo(a, e) \in Steps
  BY DEF Steps

\* What a panel step makes of the panel.
LEMMA PanelAfterFacts ==
  ASSUME NEW s, NEW c
  PROVE  LET q == PanelAfter(s, c) IN
         /\ s[1] = "inbound" => q = [panel EXCEPT !.inbound = Reconciled(s[2], Desired(c, s[2]))]
         /\ s[1] = "build" =>
              q = [panel EXCEPT !.inbound = Reconciled(s[2], [on |-> TRUE, shown |-> s[2] \in Exits])]
         /\ s[1] = "switch" => q = [panel EXCEPT !.inbound[s[2]].on = Enabled(c, s[2])]
         /\ s[1] = "delete" => q = [panel EXCEPT !.inbound = Without(@, s[2])]
         /\ s[1] = "route" => q = [panel EXCEPT !.outbounds = @ \cup {s[2]}]
         /\ s[1] = "unroute" => q = [panel EXCEPT !.outbounds = @ \ s[2]]
         /\ s[1] = "balance" => q = [panel EXCEPT !.balancer = With(@, s[2], s[3]), !.watched = s[3]]
         /\ s[1] = "unbalance" =>
              q = [panel EXCEPT !.balancer = Without(panel.balancer, s[2]),
                                !.watched = UNION Range(Without(panel.balancer, s[2]))]
         /\ s[1] \in {"public", "install", "sync", "pin", "unpin"} => q = panel
  BY DEF PanelAfter

LEMMA ReconciledFacts ==
  ASSUME panel \in Panels, NEW x \in Names, NEW want \in Inbounds
  PROVE  LET r == Reconciled(x, want)
             d == panel.inbound
         IN  /\ r \in PartialFun(Names, Inbounds)
             /\ DOMAIN r = DOMAIN d \cup {x} /\ r[x].shown = want.shown
             /\ \A y \in DOMAIN d : y # x => r[y] = d[y]
             /\ r[x] = want \/ (x \in DOMAIN d /\ r[x] = d[x])
  <1> DEFINE r == Reconciled(x, want)
             d == panel.inbound
  <1>1. d \in PartialFun(Names, Inbounds)
    BY PanelFacts
  <1>2. CASE x \in DOMAIN d /\ d[x].shown = want.shown
    <2>1. r = d
      BY <1>2 DEF Reconciled
    <2> QED  BY <1>1, <1>2, <2>1
  <1>3. CASE ~(x \in DOMAIN d /\ d[x].shown = want.shown)
    <2>1. r = With(d, x, want)
      BY <1>3 DEF Reconciled
    <2>2. With(d, x, want) \in PartialFun(Names, Inbounds)
      BY <1>1, WithPartial
    <2>3. /\ DOMAIN With(d, x, want) = DOMAIN d \cup {x} /\ With(d, x, want)[x] = want
          /\ \A y \in DOMAIN d : y # x => With(d, x, want)[y] = d[y]
      BY DEF With
    <2> QED  BY <2>1, <2>2, <2>3
  <1> QED  BY <1>2, <1>3

LEMMA PanelOf ==
  ASSUME panel \in Panels
  PROVE  /\ \A v \in PartialFun(Names, Inbounds) : [panel EXCEPT !.inbound = v] \in Panels
         /\ \A v \in SUBSET Exits : [panel EXCEPT !.outbounds = v] \in Panels
         /\ \A v \in PartialFun(Autos, Selections), w \in SUBSET Exits :
              [panel EXCEPT !.balancer = v, !.watched = w] \in Panels
  BY DEF Panels

LEMMA StepIs ==
  ASSUME NEW s \in Steps
  PROVE  /\ s[1] \in {"inbound", "build", "switch", "delete"} => s[2] \in Names
         /\ s[1] = "route" => s[2] \in Exits
         /\ s[1] = "unroute" => s[2] \in SUBSET Exits
         /\ s[1] = "balance" => s[2] \in Autos /\ s[3] \in SUBSET Exits
         /\ s[1] = "unbalance" => s[2] \in Autos
         /\ s[1] = "pin" => s[2] \in Autos /\ s[3] \in Exits
         /\ s[1] = "unpin" => s[2] \in Autos
         /\ \/ \E x \in Names : s \in {Inbound(x), ShownInbound(x), Switch(x), Delete(x)}
            \/ \E e \in Exits : s = Route(e)
            \/ \E S \in SUBSET Exits : s = Unroute(S)
            \/ \E a \in Autos, S \in SUBSET Exits : s = Balance(a, S)
            \/ \E a \in Autos : s = Unbalance(a)
            \/ \E a \in Autos, e \in Exits : s = PinTo(a, e)
            \/ \E a \in Autos : s = Unpin(a)
            \/ s \in {Expose, Install, Synchronise}
  <1>1. \/ \E x \in Names : s \in {Inbound(x), ShownInbound(x), Switch(x), Delete(x)}
        \/ \E e \in Exits : s = Route(e)
        \/ \E S \in SUBSET Exits : s = Unroute(S)
        \/ \E a \in Autos, S \in SUBSET Exits : s = Balance(a, S)
        \/ \E a \in Autos : s = Unbalance(a)
        \/ \E a \in Autos, e \in Exits : s = PinTo(a, e)
        \/ \E a \in Autos : s = Unpin(a)
        \/ s \in {Expose, Install, Synchronise}
    BY DEF Steps
  <1>2. CASE \E x \in Names : s \in {Inbound(x), ShownInbound(x), Switch(x), Delete(x)}
    BY <1>1, <1>2, Tags
  <1>3. CASE \E e \in Exits : s = Route(e)
    BY <1>1, <1>3, Tags
  <1>4. CASE \E S \in SUBSET Exits : s = Unroute(S)
    BY <1>1, <1>4, Tags
  <1>5. CASE \E a \in Autos, S \in SUBSET Exits : s = Balance(a, S)
    BY <1>1, <1>5, Tags
  <1>6. CASE \E a \in Autos : s = Unbalance(a) \/ s = Unpin(a)
    BY <1>1, <1>6, Tags
  <1>7. CASE \E a \in Autos, e \in Exits : s = PinTo(a, e)
    BY <1>1, <1>7, Tags
  <1>8. CASE s \in {Expose, Install, Synchronise}
    BY <1>1, <1>8, Tags
  <1> QED  BY <1>1, <1>2, <1>3, <1>4, <1>5, <1>6, <1>7, <1>8

\* The panel keeps its shape.
LEMMA PanelTyped ==
  ASSUME panel \in Panels, NEW c \in Configs, NEW s \in Steps,
         s[1] = "balance" => s[3] # {},
         s[1] = "switch" => s[2] \in DOMAIN panel.inbound /\ s[2] \in Managed(c),
         s[1] = "inbound" => s[2] \in Managed(c)
  PROVE  PanelAfter(s, c) \in Panels
  <1>1. /\ panel.inbound \in PartialFun(Names, Inbounds) /\ panel.balancer \in PartialFun(Autos, Selections)
        /\ panel.outbounds \in SUBSET Exits /\ panel.watched \in SUBSET Exits
    BY PanelFacts
  <1>2. CASE s[1] = "inbound"
    <2>1. Desired(c, s[2]) \in Inbounds
      BY <1>2, ConfigFacts DEF Desired, Inbounds
    <2>2. Reconciled(s[2], Desired(c, s[2])) \in PartialFun(Names, Inbounds)
      BY <1>2, <2>1, StepIs, ReconciledFacts
    <2>3. PanelAfter(s, c) = [panel EXCEPT !.inbound = Reconciled(s[2], Desired(c, s[2]))]
      BY <1>2, PanelAfterFacts
    <2> QED  BY <2>2, <2>3, PanelOf
  <1>3. CASE s[1] = "build"
    <2> DEFINE w == [on |-> TRUE, shown |-> s[2] \in Exits]
    <2>1. w \in Inbounds
      BY DEF Inbounds
    <2> HIDE DEF w
    <2>2. Reconciled(s[2], w) \in PartialFun(Names, Inbounds)
      BY <1>3, <2>1, StepIs, ReconciledFacts
    <2>3. PanelAfter(s, c) = [panel EXCEPT !.inbound = Reconciled(s[2], w)]
      BY <1>3, PanelAfterFacts DEF w
    <2> QED  BY <2>2, <2>3, PanelOf
  <1>4. CASE s[1] = "switch"
    <2> DEFINE v == [panel.inbound EXCEPT ![s[2]].on = Enabled(c, s[2])]
    <2>1. PanelAfter(s, c) = [panel EXCEPT !.inbound = v]
      BY <1>4, PanelAfterFacts
    <2>2. /\ DOMAIN panel.inbound \subseteq Names
          /\ \A x \in DOMAIN panel.inbound : panel.inbound[x] \in Inbounds
      BY PanelFacts
    <2>3. DOMAIN v = DOMAIN panel.inbound /\ v = [x \in DOMAIN v |-> v[x]]
          /\ v[s[2]] = [panel.inbound[s[2]] EXCEPT !.on = Enabled(c, s[2])]
          /\ \A x \in DOMAIN panel.inbound : x # s[2] => v[x] = panel.inbound[x]
      BY <1>4
    <2>4. Enabled(c, s[2]) \in BOOLEAN
      BY <1>4, ConfigFacts
    <2>5. [panel.inbound[s[2]] EXCEPT !.on = Enabled(c, s[2])] \in Inbounds
      BY <1>4, <2>2, <2>4 DEF Inbounds
    <2> HIDE DEF v
    <2>6. \A x \in DOMAIN v : v[x] \in Inbounds
      BY <2>2, <2>3, <2>5
    <2>7. v \in PartialFun(Names, Inbounds)
      BY <2>2, <2>3, <2>6, Partial
    <2> QED  BY <2>1, <2>7, PanelOf
  <1>5. CASE s[1] = "delete"
    <2>1. Without(panel.inbound, s[2]) \in PartialFun(Names, Inbounds)
      BY <1>1, WithoutPartial
    <2>2. PanelAfter(s, c) = [panel EXCEPT !.inbound = Without(panel.inbound, s[2])]
      BY <1>5, PanelAfterFacts
    <2> QED  BY <2>1, <2>2, PanelOf
  <1>6. CASE s[1] = "route"
    <2>1. PanelAfter(s, c) = [panel EXCEPT !.outbounds = panel.outbounds \cup {s[2]}]
      BY <1>6, PanelAfterFacts
    <2>2. panel.outbounds \cup {s[2]} \in SUBSET Exits
      BY <1>1, <1>6, StepIs
    <2> QED  BY <2>1, <2>2, PanelOf
  <1>7. CASE s[1] = "unroute"
    <2>1. PanelAfter(s, c) = [panel EXCEPT !.outbounds = panel.outbounds \ s[2]]
      BY <1>7, PanelAfterFacts
    <2>2. panel.outbounds \ s[2] \in SUBSET Exits
      BY <1>1
    <2> QED  BY <2>1, <2>2, PanelOf
  <1>8. CASE s[1] = "balance"
    <2>1. PanelAfter(s, c) = [panel EXCEPT !.balancer = With(panel.balancer, s[2], s[3]), !.watched = s[3]]
      BY <1>8, PanelAfterFacts
    <2>2. s[2] \in Autos /\ s[3] \in SUBSET Exits /\ s[3] \in Selections
      BY <1>8, StepIs DEF Selections
    <2>3. With(panel.balancer, s[2], s[3]) \in PartialFun(Autos, Selections)
      BY <1>1, <2>2, WithPartial
    <2> HIDE DEF With
    <2>4. \A v \in PartialFun(Autos, Selections), w \in SUBSET Exits :
            [panel EXCEPT !.balancer = v, !.watched = w] \in Panels
      BY PanelOf
    <2> QED  BY <2>1, <2>2, <2>3, <2>4
  <1>9. CASE s[1] = "unbalance"
    <2> DEFINE rest == Without(panel.balancer, s[2])
    <2>1. PanelAfter(s, c) = [panel EXCEPT !.balancer = rest, !.watched = UNION Range(rest)]
      BY <1>9, PanelAfterFacts
    <2>2. rest \in PartialFun(Autos, Selections)
      BY <1>1, WithoutPartial
    <2> HIDE DEF rest
    <2>3. \A a \in DOMAIN rest : rest[a] \in SUBSET Exits
      BY <2>2, Partial DEF Selections
    <2>4. UNION Range(rest) \in SUBSET Exits
      BY <2>3 DEF Range
    <2>5. \A v \in PartialFun(Autos, Selections), w \in SUBSET Exits :
            [panel EXCEPT !.balancer = v, !.watched = w] \in Panels
      BY PanelOf
    <2> QED  BY <2>1, <2>2, <2>4, <2>5
  <1>10. CASE s[1] \in {"public", "install", "sync", "pin", "unpin"}
    BY <1>10, PanelAfterFacts
  <1> QED
    <2>1. s[1] \in {"inbound", "build", "switch", "delete", "route", "unroute", "balance", "unbalance",
                    "public", "install", "sync", "pin", "unpin"}
      BY StepIs, Tags
    <2> QED  BY <1>2, <1>3, <1>4, <1>5, <1>6, <1>7, <1>8, <1>9, <1>10, <2>1

-----------------------------------------------------------------------------
(* A step does its part and leaves the others to come.                        *)

LEMMA SanctionedRest ==
  ASSUME NEW c, NEW Q, NEW R, Q \subseteq R
  PROVE  (Sanctioned(c, R) => Sanctioned(c, Q)) /\ (Mending(c, R) => Mending(c, Q))
  BY DEF Sanctioned, Mending

\* What a step makes of each inbound.
LEMMA InboundAfter ==
  ASSUME panel \in Panels, NEW c \in Configs, NEW s \in Steps,
         s[1] \in {"switch", "delete"} => s[2] \in DOMAIN panel.inbound,
         s[1] \in {"inbound", "switch", "build"} => s[2] \in Managed(c)
  PROVE  LET d == panel.inbound
             r == PanelAfter(s, c).inbound
             x == s[2]
         IN  /\ s[1] = "inbound" =>
                  /\ DOMAIN r = DOMAIN d \cup {x} /\ r[x].shown = IsPublic(c, x)
                  /\ r[x].on = Enabled(c, x) \/ (x \in DOMAIN d /\ r[x].on = d[x].on)
                  /\ \A y \in DOMAIN d : y # x => r[y] = d[y]
             /\ s[1] = "build" =>
                  /\ DOMAIN r = DOMAIN d \cup {x} /\ r[x].shown = (x \in Exits)
                  /\ r[x].on = TRUE \/ (x \in DOMAIN d /\ r[x].on = d[x].on)
                  /\ \A y \in DOMAIN d : y # x => r[y] = d[y]
             /\ s[1] = "switch" =>
                  /\ DOMAIN r = DOMAIN d /\ r[x].on = Enabled(c, x) /\ r[x].shown = d[x].shown
                  /\ \A y \in DOMAIN d : y # x => r[y] = d[y]
             /\ s[1] = "delete" =>
                  DOMAIN r = DOMAIN d \ {x} /\ \A y \in DOMAIN d : y # x => r[y] = d[y]
             /\ s[1] \notin {"inbound", "build", "switch", "delete"} => r = d
  <1> DEFINE d == panel.inbound
             x == s[2]
             p == PanelAfter(s, c)
             r == p.inbound
  <1>1. DOMAIN panel = {"inbound", "outbounds", "balancer", "watched"}
    BY DEF Panels
  <1>2. CASE s[1] = "inbound"
    <2> DEFINE w == Desired(c, x)
    <2>1. w \in Inbounds /\ w.on = Enabled(c, x) /\ w.shown = IsPublic(c, x)
      BY <1>2, ConfigFacts DEF Desired, Inbounds
    <2> HIDE DEF w
    <2>2. r = Reconciled(x, w)
      <3>1. p = [panel EXCEPT !.inbound = Reconciled(x, w)]
        BY <1>2, PanelAfterFacts DEF w
      <3> QED  BY <1>1, <3>1
    <2>3. x \in Names
      BY <1>2, StepIs
    <2>4. /\ DOMAIN r = DOMAIN d \cup {x} /\ r[x].shown = w.shown
          /\ \A y \in DOMAIN d : y # x => r[y] = d[y]
          /\ r[x] = w \/ (x \in DOMAIN d /\ r[x] = d[x])
      BY <2>1, <2>2, <2>3, ReconciledFacts
    <2> HIDE DEF r, d, x
    <2> QED  BY <1>2, <2>1, <2>4 DEF r, d, x, p
  <1>3. CASE s[1] = "build"
    <2> DEFINE w == [on |-> TRUE, shown |-> x \in Exits]
    <2>1. w \in Inbounds /\ w.on = TRUE /\ w.shown = (x \in Exits)
      BY DEF Inbounds
    <2> HIDE DEF w
    <2>2. r = Reconciled(x, w)
      <3>1. p = [panel EXCEPT !.inbound = Reconciled(x, w)]
        BY <1>3, PanelAfterFacts DEF w
      <3> QED  BY <1>1, <3>1
    <2>3. x \in Names
      BY <1>3, StepIs
    <2>4. /\ DOMAIN r = DOMAIN d \cup {x} /\ r[x].shown = (x \in Exits)
          /\ \A y \in DOMAIN d : y # x => r[y] = d[y]
          /\ r[x] = w \/ (x \in DOMAIN d /\ r[x] = d[x])
      BY <2>1, <2>2, <2>3, ReconciledFacts
    <2> HIDE DEF r, d, x
    <2> QED  BY <1>3, <2>1, <2>4 DEF r, d, x, p
  <1>4. CASE s[1] = "switch"
    <2>1. r = [d EXCEPT ![x].on = Enabled(c, x)]
      <3>1. p = [panel EXCEPT !.inbound = [d EXCEPT ![x].on = Enabled(c, x)]]
        BY <1>4, PanelAfterFacts
      <3> QED  BY <1>1, <3>1
    <2>2. x \in DOMAIN d /\ DOMAIN d[x] = {"on", "shown"}
      BY <1>4, PanelFacts DEF Inbounds
    <2>3. /\ DOMAIN r = DOMAIN d /\ r[x] = [d[x] EXCEPT !.on = Enabled(c, x)]
          /\ \A y \in DOMAIN d : y # x => r[y] = d[y]
      BY <2>1, <2>2
    <2>4. r[x].on = Enabled(c, x) /\ r[x].shown = d[x].shown
      BY <2>2, <2>3
    <2> HIDE DEF r, d, x
    <2> QED  BY <1>4, <2>3, <2>4 DEF r, d, x, p
  <1>5. CASE s[1] = "delete"
    <2>1. r = Without(d, x)
      <3>1. p = [panel EXCEPT !.inbound = Without(d, x)]
        BY <1>5, PanelAfterFacts
      <3> QED  BY <1>1, <3>1
    <2>2. DOMAIN r = DOMAIN d \ {x} /\ \A y \in DOMAIN d : y # x => r[y] = d[y]
      BY <2>1 DEF Without, Restrict
    <2> HIDE DEF r, d, x
    <2> QED  BY <1>5, <2>2 DEF r, d, x, p
  <1>6. CASE s[1] \notin {"inbound", "build", "switch", "delete"}
    <2>1. s[1] \in {"route", "unroute", "balance", "unbalance", "public", "install", "sync", "pin", "unpin"}
      BY <1>6, StepIs, Tags
    <2>2. CASE s[1] = "route"
      <3>1. p = [panel EXCEPT !.outbounds = @ \cup {x}]
        BY <2>2, PanelAfterFacts
      <3> QED  BY <1>1, <1>6, <3>1
    <2>3. CASE s[1] = "unroute"
      <3>1. p = [panel EXCEPT !.outbounds = @ \ x]
        BY <2>3, PanelAfterFacts
      <3> QED  BY <1>1, <1>6, <3>1
    <2>4. CASE s[1] = "balance"
      <3>1. p = [panel EXCEPT !.balancer = With(@, x, s[3]), !.watched = s[3]]
        BY <2>4, PanelAfterFacts
      <3> QED  BY <1>1, <1>6, <3>1
    <2>5. CASE s[1] = "unbalance"
      <3>1. p = [panel EXCEPT !.balancer = Without(panel.balancer, x),
                              !.watched = UNION Range(Without(panel.balancer, x))]
        BY <2>5, PanelAfterFacts
      <3> QED  BY <1>1, <1>6, <3>1
    <2>6. CASE s[1] \in {"public", "install", "sync", "pin", "unpin"}
      <3>1. p = panel
        BY <2>6, PanelAfterFacts
      <3> QED  BY <1>6, <3>1
    <2> QED  BY <2>1, <2>2, <2>3, <2>4, <2>5, <2>6
  <1> QED  BY <1>2, <1>3, <1>4, <1>5, <1>6

LEMMA RestAfter ==
  ASSUME panel \in Panels, NEW c, NEW s \in Steps
  PROVE  LET q == PanelAfter(s, c)
             x == s[2]
         IN  /\ s[1] = "route" => q.outbounds = panel.outbounds \cup {x}
             /\ s[1] = "unroute" => q.outbounds = panel.outbounds \ x
             /\ s[1] \notin {"route", "unroute"} => q.outbounds = panel.outbounds
             /\ s[1] = "balance" =>
                  /\ DOMAIN q.balancer = DOMAIN panel.balancer \cup {x}
                  /\ q.balancer[x] = s[3] /\ q.watched = s[3]
                  /\ \A a \in DOMAIN panel.balancer : a # x => q.balancer[a] = panel.balancer[a]
             /\ s[1] = "unbalance" =>
                  /\ DOMAIN q.balancer = DOMAIN panel.balancer \ {x}
                  /\ \A a \in DOMAIN panel.balancer : a # x => q.balancer[a] = panel.balancer[a]
             /\ s[1] \notin {"balance", "unbalance"} =>
                  q.balancer = panel.balancer /\ q.watched = panel.watched
  <1> DEFINE q == PanelAfter(s, c)
             x == s[2]
             d == panel.inbound
  <1>1. DOMAIN panel = {"inbound", "outbounds", "balancer", "watched"}
    BY DEF Panels
  <1>2. CASE s[1] = "route"
    <2>1. q = [panel EXCEPT !.outbounds = @ \cup {x}]
      BY <1>2, PanelAfterFacts
    <2> HIDE DEF q, x
    <2> QED  BY <1>1, <1>2, <2>1 DEF q, x
  <1>3. CASE s[1] = "unroute"
    <2>1. q = [panel EXCEPT !.outbounds = @ \ x]
      BY <1>3, PanelAfterFacts
    <2> HIDE DEF q, x
    <2> QED  BY <1>1, <1>3, <2>1 DEF q, x
  <1>4. CASE s[1] = "balance"
    <2> DEFINE w == With(panel.balancer, x, s[3])
    <2>1. q = [panel EXCEPT !.balancer = w, !.watched = s[3]]
      BY <1>4, PanelAfterFacts
    <2>2. /\ DOMAIN w = DOMAIN panel.balancer \cup {x} /\ w[x] = s[3]
          /\ \A a \in DOMAIN panel.balancer : a # x => w[a] = panel.balancer[a]
      BY DEF With
    <2> HIDE DEF w, q
    <2>3. q.balancer = w /\ q.watched = s[3] /\ q.outbounds = panel.outbounds
      BY <1>1, <2>1
    <2> HIDE DEF x
    <2> QED  BY <1>4, <2>2, <2>3 DEF q, x
  <1>5. CASE s[1] = "unbalance"
    <2> DEFINE w == Without(panel.balancer, x)
    <2>1. q = [panel EXCEPT !.balancer = w, !.watched = UNION Range(w)]
      BY <1>5, PanelAfterFacts
    <2>2. /\ DOMAIN w = DOMAIN panel.balancer \ {x}
          /\ \A a \in DOMAIN panel.balancer : a # x => w[a] = panel.balancer[a]
      BY DEF Without, Restrict
    <2> HIDE DEF w, q
    <2>3. q.balancer = w /\ q.outbounds = panel.outbounds
      BY <1>1, <2>1
    <2> HIDE DEF x
    <2> QED  BY <1>5, <2>2, <2>3 DEF q, x
  <1>6. CASE s[1] \in {"inbound", "build", "switch", "delete"}
    <2>1. CASE s[1] = "inbound"
      <3>1. q = [panel EXCEPT !.inbound = Reconciled(x, Desired(c, x))]
        BY <2>1, PanelAfterFacts
      <3> QED  BY <1>1, <2>1, <3>1
    <2>2. CASE s[1] = "build"
      <3>1. q = [panel EXCEPT !.inbound = Reconciled(x, [on |-> TRUE, shown |-> x \in Exits])]
        BY <2>2, PanelAfterFacts
      <3> QED  BY <1>1, <2>2, <3>1
    <2>3. CASE s[1] = "switch"
      <3>1. q = [panel EXCEPT !.inbound = [d EXCEPT ![x].on = Enabled(c, x)]]
        BY <2>3, PanelAfterFacts
      <3> QED  BY <1>1, <2>3, <3>1
    <2>4. CASE s[1] = "delete"
      <3>1. q = [panel EXCEPT !.inbound = Without(d, x)]
        BY <2>4, PanelAfterFacts
      <3> QED  BY <1>1, <2>4, <3>1
    <2> QED  BY <1>6, <2>1, <2>2, <2>3, <2>4
  <1>7. CASE s[1] \in {"public", "install", "sync", "pin", "unpin"}
    <2>1. q = panel
      BY <1>7, PanelAfterFacts
    <2> QED  BY <1>7, <2>1
  <1> QED
    <2>1. s[1] \in {"inbound", "build", "switch", "delete", "route", "unroute", "balance", "unbalance",
                    "public", "install", "sync", "pin", "unpin"}
      BY StepIs, Tags
    <2> QED  BY <1>2, <1>3, <1>4, <1>5, <1>6, <1>7, <2>1

\* The inbounds still come to what the candidate asks for.
LEMMA InboundsStep ==
  ASSUME panel \in Panels, NEW c \in Configs, NEW s \in Steps, NEW Q, NEW R, R = {s} \cup Q,
         s[1] \in {"switch", "delete"} => s[2] \in DOMAIN panel.inbound,
         PubOn(c), Sanctioned(c, R), InboundsComing(c, panel, R)
  PROVE  InboundsComing(c, PanelAfter(s, c), Q)
  <1> DEFINE d == panel.inbound
             p == PanelAfter(s, c)
             r == p.inbound
             x == s[2]
  <1>1. /\ s[1] = "inbound" => x \in Names /\ s = Inbound(x)
        /\ s[1] = "build" => x \in Names /\ s = ShownInbound(x)
        /\ s[1] = "switch" => x \in Names /\ s = Switch(x)
        /\ s[1] = "delete" => x \in Names /\ s = Delete(x)
    BY StepIs, Tags
  <1>2. /\ s[1] \in {"inbound", "switch", "build"} => x \in Managed(c)
        /\ s[1] = "build" => Enabled(c, x) /\ (x \in Autos => ~c.auto[x].pub)
        /\ s[1] = "delete" => x \notin Managed(c)
    BY <1>1 DEF Sanctioned
  <1>3. /\ \A y : /\ Inbound(y) \in R /\ ~(s[1] = "inbound" /\ x = y) => Inbound(y) \in Q
                  /\ ShownInbound(y) \in R /\ ~(s[1] = "build" /\ x = y) => ShownInbound(y) \in Q
                  /\ Switch(y) \in R /\ ~(s[1] = "switch" /\ x = y) => Switch(y) \in Q
                  /\ Delete(y) \in R /\ ~(s[1] = "delete" /\ x = y) => Delete(y) \in Q
    BY Tags
  <1>4. /\ s[1] = "inbound" =>
             /\ DOMAIN r = DOMAIN d \cup {x} /\ r[x].shown = IsPublic(c, x)
             /\ r[x].on = Enabled(c, x) \/ (x \in DOMAIN d /\ r[x].on = d[x].on)
             /\ \A y \in DOMAIN d : y # x => r[y] = d[y]
        /\ s[1] = "build" =>
             /\ DOMAIN r = DOMAIN d \cup {x} /\ r[x].shown = (x \in Exits)
             /\ r[x].on = TRUE \/ (x \in DOMAIN d /\ r[x].on = d[x].on)
             /\ \A y \in DOMAIN d : y # x => r[y] = d[y]
        /\ s[1] = "switch" =>
             /\ DOMAIN r = DOMAIN d /\ r[x].on = Enabled(c, x) /\ r[x].shown = d[x].shown
             /\ \A y \in DOMAIN d : y # x => r[y] = d[y]
        /\ s[1] = "delete" =>
             DOMAIN r = DOMAIN d \ {x} /\ \A y \in DOMAIN d : y # x => r[y] = d[y]
        /\ s[1] \notin {"inbound", "build", "switch", "delete"} => r = d
    BY <1>2, InboundAfter
  <1>5. /\ \A y \in DOMAIN c.auto : IsPublic(c, y) = (Enabled(c, y) /\ c.auto[y].pub)
                                    /\ Enabled(c, y) = c.auto[y].on /\ y \notin Exits
        /\ \A y \in Managed(c) : y \in Autos => y \in DOMAIN c.auto
        /\ \A y \in Managed(c) : y \in Exits \/ y \in DOMAIN c.auto
        /\ \A y \in Managed(c) : Enabled(c, y) \in BOOLEAN /\ IsPublic(c, y) \in BOOLEAN
    BY ConfigFacts DEF Managed
  <1>6. \A y \in Managed(c) : y \in DOMAIN d \/ Inbound(y) \in R \/ ShownInbound(y) \in R
    BY DEF InboundsComing
  <1>7. \A y \in Managed(c) \cap DOMAIN d :
          /\ d[y].on = Enabled(c, y) \/ Switch(y) \in R
          /\ IsPublic(c, y) => d[y].shown \/ Inbound(y) \in R
          /\ y \in Autos => d[y].shown = c.auto[y].pub \/ Inbound(y) \in R
    BY DEF InboundsComing
  <1>8. \A y \in DOMAIN d : y \in Managed(c) \/ Delete(y) \in R
    BY DEF InboundsComing
  <1>9. \A y \in DOMAIN d : d[y].on \in BOOLEAN /\ d[y].shown \in BOOLEAN
    BY PanelFacts
  <1> HIDE DEF d, r, x
  <1>10. ASSUME NEW y \in Managed(c)
         PROVE  y \in DOMAIN r \/ Inbound(y) \in Q \/ ShownInbound(y) \in Q
    <2>1. s[1] = "delete" => x # y
      BY <1>2
    <2>2. y \notin DOMAIN d /\ y # x => Inbound(y) \in Q \/ ShownInbound(y) \in Q
      BY <1>3, <1>6
    <2>3. s[1] \notin {"inbound", "build"} /\ y \notin DOMAIN d => Inbound(y) \in Q \/ ShownInbound(y) \in Q
      BY <1>3, <1>6
    <2> QED  BY <1>4, <2>1, <2>2, <2>3
  <1>11. ASSUME NEW y \in Managed(c) \cap DOMAIN r
         PROVE  /\ r[y].on = Enabled(c, y) \/ Switch(y) \in Q
                /\ IsPublic(c, y) => r[y].shown \/ Inbound(y) \in Q
                /\ y \in Autos => r[y].shown = c.auto[y].pub \/ Inbound(y) \in Q
    <2>1. CASE y = x /\ s[1] = "inbound"
      <3>1. y \in DOMAIN d => d[y].on = Enabled(c, y) \/ Switch(y) \in Q
        BY <1>3, <1>7, <2>1
      <3>2. r[y].on = Enabled(c, y) \/ Switch(y) \in Q
        BY <1>4, <2>1, <3>1
      <3>3. r[y].shown = IsPublic(c, y)
        BY <1>4, <2>1
      <3>4. y \in Autos => c.auto[y].pub \in BOOLEAN /\ (c.auto[y].pub => c.auto[y].on)
        BY <1>5, ConfigFacts DEF PubOn
      <3> QED  BY <1>5, <3>2, <3>3, <3>4
    <2>2. CASE y = x /\ s[1] = "build"
      <3>1. y \in DOMAIN d => d[y].on = Enabled(c, y) \/ Switch(y) \in Q
        BY <1>3, <1>7, <2>2
      <3>2. Enabled(c, y) = TRUE
        BY <1>2, <1>5, <2>2
      <3>3. r[y].on = Enabled(c, y) \/ Switch(y) \in Q
        BY <1>4, <2>2, <3>1, <3>2
      <3>4. r[y].shown = (y \in Exits)
        BY <1>4, <2>2
      <3>5. y \in Autos => c.auto[y].pub = FALSE /\ y \notin Exits /\ IsPublic(c, y) = FALSE
        <4>1. y \in Autos => y \in DOMAIN c.auto /\ ~c.auto[y].pub
          BY <1>2, <1>5, <2>2
        <4> QED  BY <1>5, <4>1, ConfigFacts
      <3>6. y \in Exits \/ y \in Autos
        BY <1>5, ConfigFacts
      <3>7. CASE y \in Exits
        BY <3>3, <3>4, <3>7, NameAssumption
      <3>8. CASE y \in Autos
        <4>1. c.auto[y].pub = FALSE /\ IsPublic(c, y) = FALSE /\ (y \in Exits) = FALSE
          BY <3>5, <3>8
        <4>2. r[y].shown = FALSE
          BY <3>4, <4>1
        <4> QED  BY <3>3, <4>1, <4>2
      <3> QED  BY <3>6, <3>7, <3>8
    <2>3. CASE y = x /\ s[1] = "switch"
      <3>1. y \in DOMAIN d /\ r[y].on = Enabled(c, y) /\ r[y].shown = d[y].shown
        BY <1>4, <2>3
      <3>2. Inbound(y) \in R => Inbound(y) \in Q
        BY <1>3, <2>3
      <3> QED  BY <1>7, <3>1, <3>2
    <2>4. CASE y # x \/ s[1] \notin {"inbound", "build", "switch", "delete"}
      <3>1. y \in DOMAIN d /\ r[y] = d[y]
        BY <1>4, <2>4
      <3>2. (Inbound(y) \in R => Inbound(y) \in Q) /\ (Switch(y) \in R => Switch(y) \in Q)
        BY <1>3, <2>4
      <3> QED  BY <1>7, <3>1, <3>2
    <2>5. ~(y = x /\ s[1] = "delete")
      BY <1>2
    <2> QED  BY <2>1, <2>2, <2>3, <2>4, <2>5
  <1>12. ASSUME NEW y \in DOMAIN r
         PROVE  y \in Managed(c) \/ Delete(y) \in Q
    <2>1. CASE y = x /\ s[1] \in {"inbound", "build", "switch"}
      BY <1>2, <2>1
    <2>2. CASE y = x /\ s[1] = "delete"
      BY <1>4, <2>2
    <2>3. CASE y # x \/ s[1] \notin {"inbound", "build", "switch", "delete"}
      <3>1. y \in DOMAIN d
        BY <1>4, <2>3
      <3>2. Delete(y) \in R => Delete(y) \in Q
        BY <1>3, <2>3
      <3> QED  BY <1>8, <3>1, <3>2
    <2> QED  BY <2>1, <2>2, <2>3
  <1> QED  BY <1>10, <1>11, <1>12 DEF InboundsComing, r, p

\* The same, of the steps with which a reconciliation mends an inbound.
LEMMA InboundsMend ==
  ASSUME panel \in Panels, NEW c \in Configs, NEW s \in Steps, NEW Q, NEW R, R = {s} \cup Q,
         s[1] \in {"switch", "delete"} => s[2] \in DOMAIN panel.inbound,
         Sanctioned(c, R), Mending(c, R), InboundsMending(c, panel, R)
  PROVE  InboundsMending(c, PanelAfter(s, c), Q)
  <1> DEFINE d == panel.inbound
             p == PanelAfter(s, c)
             r == p.inbound
             x == s[2]
  <1>1. /\ s[1] = "inbound" => x \in Names /\ s = Inbound(x)
        /\ s[1] = "build" => x \in Names /\ s = ShownInbound(x)
        /\ s[1] = "switch" => x \in Names /\ s = Switch(x)
        /\ s[1] = "delete" => x \in Names /\ s = Delete(x)
    BY StepIs, Tags
  <1>2. s[1] \in {"inbound", "switch"} => x \in Managed(c)
    BY <1>1 DEF Sanctioned
  <1>3. s[1] \notin {"build", "delete"}
    BY <1>1 DEF Mending
  <1>4. \A y : /\ Inbound(y) \in R /\ ~(s[1] = "inbound" /\ x = y) => Inbound(y) \in Q
               /\ Switch(y) \in R /\ ~(s[1] = "switch" /\ x = y) => Switch(y) \in Q
    BY Tags
  <1>5. /\ s[1] = "inbound" =>
             /\ DOMAIN r = DOMAIN d \cup {x} /\ r[x].shown = IsPublic(c, x)
             /\ r[x].on = Enabled(c, x) \/ (x \in DOMAIN d /\ r[x].on = d[x].on)
             /\ \A y \in DOMAIN d : y # x => r[y] = d[y]
        /\ s[1] = "switch" =>
             /\ DOMAIN r = DOMAIN d /\ r[x].on = Enabled(c, x) /\ r[x].shown = d[x].shown
             /\ \A y \in DOMAIN d : y # x => r[y] = d[y]
        /\ s[1] \notin {"inbound", "switch"} => r = d
    BY <1>2, <1>3, InboundAfter
  <1>6. \A y \in Managed(c) :
          /\ (y \in DOMAIN d /\ d[y].shown = IsPublic(c, y)) \/ Inbound(y) \in R
          /\ y \in DOMAIN d => d[y].on = Enabled(c, y) \/ Switch(y) \in R
    BY DEF InboundsMending, InboundMatches
  <1> HIDE DEF d, r, x
  <1>7. ASSUME NEW y \in Managed(c)
        PROVE  /\ (y \in DOMAIN r /\ r[y].shown = IsPublic(c, y)) \/ Inbound(y) \in Q
               /\ y \in DOMAIN r => r[y].on = Enabled(c, y) \/ Switch(y) \in Q
    <2>1. CASE y = x /\ s[1] = "inbound"
      <3>1. y \in DOMAIN d => d[y].on = Enabled(c, y) \/ Switch(y) \in Q
        BY <1>4, <1>6, <2>1
      <3> QED  BY <1>5, <2>1, <3>1
    <2>2. CASE y = x /\ s[1] = "switch"
      <3>1. Inbound(y) \in R => Inbound(y) \in Q
        BY <1>4, <2>2
      <3> QED  BY <1>5, <1>6, <2>2, <3>1
    <2>3. CASE y # x \/ s[1] \notin {"inbound", "switch"}
      <3>1. (y \in DOMAIN r <=> y \in DOMAIN d) /\ (y \in DOMAIN d => r[y] = d[y])
        BY <1>5, <2>3
      <3>2. (Inbound(y) \in R => Inbound(y) \in Q) /\ (Switch(y) \in R => Switch(y) \in Q)
        BY <1>4, <2>3
      <3> QED  BY <1>6, <3>1, <3>2
    <2> QED  BY <2>1, <2>2, <2>3
  <1> QED  BY <1>7 DEF InboundsMending, InboundMatches, r, p

\* Outbounds and balancers.
LEMMA RoutesStep ==
  ASSUME panel \in Panels, NEW c \in Configs, NEW s \in Steps, NEW Q, NEW R, R = {s} \cup Q,
         Sanctioned(c, R), RoutesComing(c, panel, R)
  PROVE  RoutesComing(c, PanelAfter(s, c), Q)
  <1> DEFINE p == PanelAfter(s, c)
  <1>1. /\ s[1] = "route" => p.outbounds = panel.outbounds \cup {s[2]}
        /\ s[1] = "unroute" => p.outbounds = panel.outbounds \ s[2]
        /\ s[1] \notin {"route", "unroute"} => p.outbounds = panel.outbounds
    BY RestAfter
  <1> HIDE DEF p
  <1>2. \A e : Route(e) \in R /\ ~(s[1] = "route" /\ s[2] = e) => Route(e) \in Q
    BY Tags
  <1>3. s[1] = "unroute" => \A e \in s[2] \cap DOMAIN c.route : ~c.route[e]
    <2>1. s[1] = "unroute" => s[2] \in SUBSET Exits /\ s = Unroute(s[2])
      BY StepIs, Tags
    <2> QED  BY <2>1 DEF Sanctioned
  <1>4. ASSUME NEW e \in DOMAIN c.route, c.route[e]
        PROVE  e \in p.outbounds \/ Route(e) \in Q
    <2>1. e \in panel.outbounds \/ Route(e) \in R
      BY <1>4 DEF RoutesComing
    <2> QED  BY <1>1, <1>2, <1>3, <1>4, <2>1
  <1> QED  BY <1>4 DEF RoutesComing, p

LEMMA BalancersStep ==
  ASSUME panel \in Panels, NEW c \in Configs, NEW s \in Steps, NEW Q, NEW R, R = {s} \cup Q,
         Sanctioned(c, R), BalancersComing(c, panel, R)
  PROVE  BalancersComing(c, PanelAfter(s, c), Q)
  <1> DEFINE p == PanelAfter(s, c)
  <1>1. /\ s[1] = "balance" => DOMAIN p.balancer = DOMAIN panel.balancer \cup {s[2]}
        /\ s[1] = "unbalance" => DOMAIN p.balancer = DOMAIN panel.balancer \ {s[2]}
        /\ s[1] \notin {"balance", "unbalance"} => p.balancer = panel.balancer
    BY RestAfter
  <1> HIDE DEF p
  <1>2. \A a, S : Balance(a, S) \in R /\ ~(s[1] = "balance" /\ s[2] = a) => Balance(a, S) \in Q
    BY Tags
  <1>3. s[1] = "unbalance" /\ s[2] \in DOMAIN c.auto => ~c.auto[s[2]].on
    <2>1. s[1] = "unbalance" => s[2] \in Autos /\ s = Unbalance(s[2])
      BY StepIs, Tags
    <2> QED  BY <2>1 DEF Sanctioned
  <1>4. ASSUME NEW a \in DOMAIN c.auto, c.auto[a].on
        PROVE  a \in DOMAIN p.balancer \/ \E S \in SUBSET Exits : Balance(a, S) \in Q
    <2>1. CASE a \in DOMAIN panel.balancer
      BY <1>1, <1>3, <1>4, <2>1
    <2>2. CASE a \notin DOMAIN panel.balancer
      <3>1. PICK S \in SUBSET Exits : Balance(a, S) \in R
        BY <1>4, <2>2 DEF BalancersComing
      <3> QED  BY <1>1, <1>2, <3>1
    <2> QED  BY <2>1, <2>2
  <1> QED  BY <1>4 DEF BalancersComing, p

LEMMA BalancersMend ==
  ASSUME panel \in Panels, NEW c \in Configs, NEW s \in Steps, NEW Q, NEW R, R = {s} \cup Q,
         s[1] = "balance" => s[3] \subseteq panel.outbounds,
         Sanctioned(c, R), Mending(c, R), BalancersMending(c, panel, R)
  PROVE  BalancersMending(c, PanelAfter(s, c), Q)
  <1> DEFINE p == PanelAfter(s, c)
             x == s[2]
  <1>1. /\ s[1] = "balance" =>
             /\ DOMAIN p.balancer = DOMAIN panel.balancer \cup {x}
             /\ p.balancer[x] = s[3] /\ p.watched = s[3]
             /\ \A a \in DOMAIN panel.balancer : a # x => p.balancer[a] = panel.balancer[a]
        /\ s[1] = "unbalance" =>
             /\ DOMAIN p.balancer = DOMAIN panel.balancer \ {x}
             /\ \A a \in DOMAIN panel.balancer : a # x => p.balancer[a] = panel.balancer[a]
        /\ s[1] \notin {"balance", "unbalance"} =>
             p.balancer = panel.balancer /\ p.watched = panel.watched
    BY RestAfter
  <1>2. /\ s[1] = "balance" => x \in Autos /\ s[3] \in SUBSET Exits /\ s = Balance(x, s[3])
        /\ s[1] = "unbalance" => x \in Autos /\ s = Unbalance(x)
        /\ s[1] = "unroute" => x \in SUBSET Exits /\ s = Unroute(x)
    BY StepIs, Tags
  <1>3. /\ s[1] = "balance" => x \in DOMAIN c.auto /\ c.auto[x].on /\ s[3] = c.auto[x].sel
        /\ s[1] # "unroute"
    BY <1>2 DEF Mending
  <1>4. s[1] = "unbalance" /\ x \in DOMAIN c.auto => ~c.auto[x].on
    BY <1>2 DEF Sanctioned
  <1>5. panel.outbounds \subseteq p.outbounds
    BY <1>3, RestAfter
  <1>6. /\ \A a, S : Balance(a, S) \in R /\ ~(s[1] = "balance" /\ s[2] = a /\ s[3] = S) => Balance(a, S) \in Q
        /\ \A a : Unbalance(a) \in R /\ ~(s[1] = "unbalance" /\ s[2] = a) => Unbalance(a) \in Q
    BY Tags
  <1>7. DOMAIN c.auto \subseteq Autos
    BY ConfigFacts
  <1> HIDE DEF p
  <1>8. ASSUME NEW a \in DOMAIN c.auto, c.auto[a].on
        PROVE  Balance(a, c.auto[a].sel) \in Q \/ BalancerRight(c, p, a)
    <2>1. Balance(a, c.auto[a].sel) \in R \/ BalancerRight(c, panel, a)
      BY <1>8 DEF BalancersMending
    <2>2. CASE s[1] = "balance" /\ x = a
      BY <1>1, <1>3, <1>5, <2>2 DEF BalancerRight
    <2>3. CASE s[1] = "balance" /\ x # a
      <3>1. x \in Autos /\ a \in Autos
        BY <1>2, <1>7, <2>3
      <3>2. ~(\A b \in Autos : a = b)
        BY <2>3, <3>1
      <3> QED  BY <1>1, <1>6, <2>1, <2>3, <3>2 DEF BalancerRight
    <2>4. CASE s[1] = "unbalance"
      <3>1. x # a
        BY <1>4, <1>8, <2>4
      <3>2. ~(\A b \in Autos : a = b)
        BY <1>2, <1>7, <2>4, <3>1
      <3> QED  BY <1>1, <1>6, <2>1, <2>4, <3>1, <3>2 DEF BalancerRight
    <2>5. CASE s[1] \notin {"balance", "unbalance"}
      BY <1>1, <1>5, <1>6, <2>1, <2>5 DEF BalancerRight
    <2> QED  BY <2>2, <2>3, <2>4, <2>5
  <1>9. ASSUME NEW a \in DOMAIN c.auto, ~c.auto[a].on
        PROVE  Unbalance(a) \in Q \/ a \notin DOMAIN p.balancer
    <2>1. Unbalance(a) \in R \/ a \notin DOMAIN panel.balancer
      BY <1>9 DEF BalancersMending
    <2> QED  BY <1>1, <1>3, <1>6, <1>9, <2>1
  <1> QED  BY <1>8, <1>9 DEF BalancersMending, p

-----------------------------------------------------------------------------
(* Plans over a set of names.                                                 *)

Picks(S, g, h) == h = [i \in DOMAIN SetToSeq(S) |-> g[SetToSeq(S)[i]]]

LEMMA EachRange ==
  ASSUME NEW S, IsFiniteSet(S), NEW T, NEW g \in [S -> T], NEW h, Picks(S, g, h)
  PROVE  h \in Seq(T) /\ Range(h) = {g[x] : x \in S}
  <1> DEFINE s == SetToSeq(S)
  <1>1. s \in Seq(S) /\ Range(s) = S
    BY SetToSeqRange
  <1> HIDE DEF s
  <1>2. h = [i \in DOMAIN s |-> g[s[i]]]
    BY DEF s, Picks
  <1>3. Len(s) \in Nat /\ DOMAIN s = 1..Len(s) /\ \A i \in DOMAIN s : s[i] \in S
    BY <1>1
  <1>4. DOMAIN h = DOMAIN s /\ \A i \in DOMAIN s : h[i] = g[s[i]] /\ h[i] \in T
    BY <1>2, <1>3
  <1>5. h \in Seq(T)
    BY <1>2, <1>3, <1>4
  <1>6. \A x \in S : \E i \in DOMAIN s : s[i] = x
    BY <1>1 DEF Range
  <1>7. Range(h) \subseteq {g[x] : x \in S}
    BY <1>3, <1>4 DEF Range
  <1>8. {g[x] : x \in S} \subseteq Range(h)
    BY <1>4, <1>6 DEF Range
  <1> QED  BY <1>5, <1>7, <1>8

LEMMA EachFlat ==
  ASSUME NEW S, IsFiniteSet(S), NEW T, NEW g \in [S -> Seq(T)], NEW h, Picks(S, g, h)
  PROVE  /\ FlattenSeq(h) \in Seq(T)
         /\ \A t : t \in Range(FlattenSeq(h)) <=> \E x \in S : t \in Range(g[x])
  <1> DEFINE U == Seq(T)
  <1>1. h \in Seq(U) /\ Range(h) = {g[x] : x \in S}
    <2>1. g \in [S -> U]
      OBVIOUS
    <2> HIDE DEF U
    <2> QED  BY <2>1, EachRange
  <1>2. FlattenSeq(h) \in Seq(T) /\ Range(FlattenSeq(h)) = UNION {Range(h[i]) : i \in DOMAIN h}
    <2>1. h \in Seq(Seq(T))
      BY <1>1
    <2> QED  BY <2>1, FlattenRange
  <1>3. \A t : t \in Range(FlattenSeq(h)) <=> \E i \in DOMAIN h : t \in Range(h[i])
    BY <1>2
  <1>4. \A i \in DOMAIN h : \E x \in S : h[i] = g[x]
    <2>1. \A i \in DOMAIN h : h[i] \in Range(h)
      BY DEF Range
    <2> QED  BY <1>1, <2>1
  <1>5. \A x \in S : \E i \in DOMAIN h : h[i] = g[x]
    <2>1. \A x \in S : g[x] \in Range(h)
      BY <1>1
    <2> QED  BY <2>1 DEF Range
  <1>6. ASSUME NEW t, t \in Range(FlattenSeq(h))
        PROVE  \E x \in S : t \in Range(g[x])
    <2>1. PICK i \in DOMAIN h : t \in Range(h[i])
      BY <1>3, <1>6
    <2>2. PICK x \in S : h[i] = g[x]
      BY <1>4
    <2> QED  BY <2>1, <2>2
  <1>7. ASSUME NEW t, NEW x \in S, t \in Range(g[x])
        PROVE  t \in Range(FlattenSeq(h))
    <2>1. PICK i \in DOMAIN h : h[i] = g[x]
      BY <1>5
    <2>2. t \in Range(h[i])
      BY <1>7, <2>1
    <2> QED  BY <1>3, <2>2
  <1> QED  BY <1>2, <1>6, <1>7

-----------------------------------------------------------------------------
(* Beginning a command.                                                       *)

LEMMA Began ==
  ASSUME IInv, NEW kind, kind # "none", NEW c \in Configs, NEW plan \in Seq(Steps), Begin(kind, c, plan),
         kind = "override" => c = config /\ Range(plan) \subseteq Aside,
         kind # "override" => Ordinary(c, panel, Range(plan)),
         kind = "reconcile" => Repairing(c, panel, Range(plan))
  PROVE  IInv'
  <1>1. /\ Free /\ UNCHANGED <<config, panel, public, pins, runtime, obs, drifts>>
        /\ job' = [kind |-> kind, plan |-> plan, cand |-> c, saved |-> <<config, panel, public, runtime>>]
    BY DEF Begin, Idle, node
  <1>2. /\ Live(config, panel, public) /\ Typed
    BY <1>1 DEF IInv
  <1>3. /\ DOMAIN job' = JobFields /\ job'.kind = kind /\ job'.plan = plan /\ job'.cand = c
        /\ job'.saved[1] = config /\ job'.saved[2] = panel /\ job'.saved[3] = public
        /\ job'.saved[4] = runtime
    BY <1>1 DEF JobFields
  <1>4. Typed'
    BY <1>1, <1>2, <1>3 DEF Typed, JobTyped
  <1>5. Live(config, panel, public)'
    BY <1>1, <1>2 DEF Live, Shows, PubOn, Published, Managed, Enabled, IsPublic
  <1>6. ~Free'
    BY <1>3 DEF Free
  <1>7. /\ job'.kind # "override" => Ordinary(job.cand, panel, Todo)'
        /\ job'.kind = "override" => Todo' \subseteq Aside
        /\ job'.kind = "reconcile" => Repairing(job.cand, panel, Todo)'
    <2>1. Todo' = Range(plan)
      BY <1>3 DEF Todo
    <2>2. /\ Ordinary(c, panel, Range(plan)) => Ordinary(job.cand, panel, Todo)'
          /\ Repairing(c, panel, Range(plan)) => Repairing(job.cand, panel, Todo)'
      BY <1>1, <1>3, <2>1 DEF Ordinary, Repairing
    <2> QED  BY <1>3, <2>1, <2>2
  <1>8. Working'
    BY <1>1, <1>3, <1>5, <1>7 DEF Working, Live
  <1> QED  BY <1>4, <1>6, <1>8 DEF IInv

\* The configurations the commands make of the present one.
Made(c, exits, route, auto, mode) ==
  /\ c \in Configs /\ c.exits = exits /\ c.route = route /\ c.auto = auto /\ c.mode = mode

LEMMA ConfigOf ==
  ASSUME config \in Configs
  PROVE  /\ \A v \in SUBSET Exits, w \in PartialFun(Exits, BOOLEAN) : DOMAIN w \subseteq v =>
              Made([config EXCEPT !.exits = v, !.route = w], v, w, config.auto, config.mode)
         /\ \A w \in PartialFun(Exits, BOOLEAN) : DOMAIN w \subseteq config.exits =>
              Made([config EXCEPT !.route = w], config.exits, w, config.auto, config.mode)
         /\ \A w \in PartialFun(Autos, AutoRoutes) :
              Made([config EXCEPT !.auto = w], config.exits, config.route, w, config.mode)
         /\ \A m \in Modes :
              Made([config EXCEPT !.mode = m], config.exits, config.route, config.auto, m)
  BY DEF Configs, Made

\* A candidate that differs from the present configuration in one name only.
Same(c, z) ==
  /\ c.mode = config.mode
  /\ \A x : x # z => /\ x \in DOMAIN c.route <=> x \in DOMAIN config.route
                     /\ x \in DOMAIN c.auto <=> x \in DOMAIN config.auto
  /\ \A e \in DOMAIN config.route : e # z => c.route[e] = config.route[e]
  /\ \A a \in DOMAIN config.auto : a # z => c.auto[a] = config.auto[a]

\* What the panel must show, or the plan bring, of that name.
ComingFor(c, p, todo, z) ==
  /\ z \in Managed(c) =>
       z \in DOMAIN p.inbound \/ Inbound(z) \in todo \/ ShownInbound(z) \in todo
  /\ z \in Managed(c) \cap DOMAIN p.inbound =>
       /\ p.inbound[z].on = Enabled(c, z) \/ Switch(z) \in todo
       /\ IsPublic(c, z) => p.inbound[z].shown \/ Inbound(z) \in todo
       /\ z \in Autos => p.inbound[z].shown = c.auto[z].pub \/ Inbound(z) \in todo
  /\ z \in DOMAIN p.inbound => z \in Managed(c) \/ Delete(z) \in todo
  /\ z \in DOMAIN c.route /\ c.route[z] => z \in p.outbounds \/ Route(z) \in todo
  /\ z \in DOMAIN c.auto /\ c.auto[z].on =>
       z \in DOMAIN p.balancer \/ \E S \in SUBSET Exits : Balance(z, S) \in todo

LEMMA SameNames ==
  ASSUME config \in Configs, NEW c \in Configs, NEW z, Same(c, z)
  PROVE  \A x : x # z =>
           /\ x \in Managed(c) <=> x \in Managed(config)
           /\ x \in Managed(c) =>
                Enabled(c, x) = Enabled(config, x) /\ IsPublic(c, x) = IsPublic(config, x)
  <1> SUFFICES ASSUME NEW x, x # z
               PROVE  /\ x \in Managed(c) <=> x \in Managed(config)
                      /\ x \in Managed(c) =>
                           Enabled(c, x) = Enabled(config, x) /\ IsPublic(c, x) = IsPublic(config, x)
    OBVIOUS
  <1>1. x \in Managed(c) <=> x \in Managed(config)
    BY DEF Same, Managed
  <1>2. CASE x \in DOMAIN c.route
    <2>1. x \in DOMAIN config.route /\ c.route[x] = config.route[x] /\ c.mode = config.mode
      BY <1>2 DEF Same
    <2> QED  BY <1>1, <1>2, <2>1, ConfigFacts
  <1>3. CASE x \in DOMAIN c.auto
    <2>1. x \in DOMAIN config.auto /\ c.auto[x] = config.auto[x]
      BY <1>3 DEF Same
    <2> QED  BY <1>1, <1>3, <2>1, ConfigFacts
  <1> QED  BY <1>1, <1>2, <1>3 DEF Managed

LEMMA OthersComing ==
  ASSUME config \in Configs, panel \in Panels, Shows(config, panel),
         NEW c \in Configs, NEW z, Same(c, z), NEW R, ComingFor(c, panel, R, z)
  PROVE  Coming(c, panel, R)
  <1>1. \A x : x # z =>
           /\ x \in Managed(c) <=> x \in Managed(config)
           /\ x \in Managed(c) =>
                Enabled(c, x) = Enabled(config, x) /\ IsPublic(c, x) = IsPublic(config, x)
    BY SameNames
  <1>2. \A a \in Managed(c) : a # z /\ a \in Autos => a \in DOMAIN config.auto /\ c.auto[a].pub = config.auto[a].pub
    <2> SUFFICES ASSUME NEW a \in Managed(c), a # z, a \in Autos
                 PROVE  a \in DOMAIN config.auto /\ c.auto[a].pub = config.auto[a].pub
      OBVIOUS
    <2>1. a \in DOMAIN c.auto
      BY ConfigFacts DEF Managed
    <2> QED  BY <2>1 DEF Same
  <1>3. /\ DOMAIN panel.inbound = Managed(config)
        /\ \A x \in Managed(config) :
             /\ panel.inbound[x].on = Enabled(config, x)
             /\ IsPublic(config, x) => panel.inbound[x].shown
        /\ \A a \in DOMAIN config.auto : panel.inbound[a].shown = config.auto[a].pub
    BY DEF Shows
  <1>4. InboundsComing(c, panel, R)
    <2>1. ASSUME NEW x \in Managed(c)
          PROVE  x \in DOMAIN panel.inbound \/ Inbound(x) \in R \/ ShownInbound(x) \in R
      BY <1>1, <1>3, <2>1 DEF ComingFor
    <2>2. ASSUME NEW x \in Managed(c) \cap DOMAIN panel.inbound
          PROVE  /\ panel.inbound[x].on = Enabled(c, x) \/ Switch(x) \in R
                 /\ IsPublic(c, x) => panel.inbound[x].shown \/ Inbound(x) \in R
                 /\ x \in Autos => panel.inbound[x].shown = c.auto[x].pub \/ Inbound(x) \in R
      <3>1. CASE x = z
        BY <2>2, <3>1 DEF ComingFor
      <3>2. CASE x # z
        BY <1>1, <1>2, <1>3, <2>2, <3>2
      <3> QED  BY <3>1, <3>2
    <2>3. ASSUME NEW x \in DOMAIN panel.inbound
          PROVE  x \in Managed(c) \/ Delete(x) \in R
      BY <1>1, <1>3, <2>3 DEF ComingFor
    <2> QED  BY <2>1, <2>2, <2>3 DEF InboundsComing
  <1>5. RoutesComing(c, panel, R)
    <2> SUFFICES ASSUME NEW e \in DOMAIN c.route, c.route[e]
                 PROVE  e \in panel.outbounds \/ Route(e) \in R
      BY DEF RoutesComing
    <2>1. CASE e = z
      BY <2>1 DEF ComingFor
    <2>2. CASE e # z
      BY <2>2 DEF Same, Shows
    <2> QED  BY <2>1, <2>2
  <1>6. BalancersComing(c, panel, R)
    <2> SUFFICES ASSUME NEW a \in DOMAIN c.auto, c.auto[a].on
                 PROVE  a \in DOMAIN panel.balancer \/ \E S \in SUBSET Exits : Balance(a, S) \in R
      BY DEF BalancersComing
    <2>1. CASE a = z
      BY <2>1 DEF ComingFor
    <2>2. CASE a # z
      BY <2>2 DEF Same, Shows
    <2> QED  BY <2>1, <2>2
  <1> QED  BY <1>4, <1>5, <1>6 DEF Coming

\* The candidate's Auto Routes that are published are on.
LEMMA SamePubOn ==
  ASSUME config \in Configs, PubOn(config), NEW c \in Configs, NEW z, Same(c, z),
         z \in DOMAIN c.auto /\ c.auto[z].pub => c.auto[z].on
  PROVE  PubOn(c)
  <1> SUFFICES ASSUME NEW a \in DOMAIN c.auto, c.auto[a].pub PROVE c.auto[a].on
    BY DEF PubOn
  <1>1. CASE a = z
    BY <1>1
  <1>2. CASE a # z
    BY <1>2 DEF Same, PubOn
  <1> QED  BY <1>1, <1>2

-----------------------------------------------------------------------------
(* The commands.                                                              *)

\* In a state without a command, what Began asks of each of them.
LEMMA AtRest ==
  ASSUME IInv, Free
  PROVE  /\ config \in Configs /\ panel \in Panels /\ public = Published(config)
         /\ PubOn(config) /\ drifts \in Nat /\ (drifts = 0 => Shows(config, panel))
  BY DEF IInv, Typed, Live

\* A candidate that changes one name, with its plan.
LEMMA BeganFor ==
  ASSUME IInv, NEW kind, kind \notin {"none", "override", "reconcile"},
         NEW c \in Configs, NEW plan \in Seq(Steps), Begin(kind, c, plan),
         NEW z, Same(c, z), z \in DOMAIN c.auto /\ c.auto[z].pub => c.auto[z].on,
         Sanctioned(c, Range(plan)), Install \in Range(plan),
         Expose \in Range(plan) \/ Published(c) = Published(config),
         drifts = 0 => ComingFor(c, panel, Range(plan), z)
  PROVE  IInv'
  <1>1. Free
    BY DEF Begin, Idle
  <1>2. PubOn(c)
    BY <1>1, AtRest, SamePubOn
  <1>3. drifts = 0 => Coming(c, panel, Range(plan))
    BY <1>1, AtRest, OthersComing
  <1>4. public = Published(c) \/ Expose \in Range(plan)
    BY <1>1, AtRest
  <1>5. Ordinary(c, panel, Range(plan))
    BY <1>2, <1>3, <1>4 DEF Ordinary
  <1> QED  BY <1>5, Began

LEMMA AddExitStep ==
  ASSUME IInv, NEW e \in Exits, AddExit(e)
  PROVE  IInv'
  <1> DEFINE w == With(config.route, e, TRUE)
             v == config.exits \cup {e}
             c == [config EXCEPT !.exits = v, !.route = w]
             plan == <<ShownInbound(e), Route(e), Expose, Install>>
  <1>1. Begin("add-exit", c, plan) /\ e \notin config.exits /\ Free
    BY DEF AddExit, Begin, Idle
  <1>2. config \in Configs /\ panel \in Panels /\ (drifts = 0 => Shows(config, panel))
    BY <1>1, AtRest
  <1>3. /\ DOMAIN w = DOMAIN config.route \cup {e} /\ w[e] = TRUE
        /\ \A y \in DOMAIN config.route : y # e => w[y] = config.route[y]
    BY DEF With
  <1>4. w \in PartialFun(Exits, BOOLEAN)
    BY <1>2, ConfigFacts, WithPartial
  <1>5. DOMAIN config.route \subseteq config.exits /\ v \in SUBSET Exits
    BY <1>2, ConfigFacts
  <1> HIDE DEF w
  <1>6. c \in Configs /\ c.exits = v /\ c.route = w /\ c.auto = config.auto /\ c.mode = config.mode
    <2>1. DOMAIN w \subseteq v /\ v \in SUBSET Exits
      BY <1>3, <1>4, <1>5
    <2> HIDE DEF v
    <2>2. Made(c, v, w, config.auto, config.mode)
      BY <1>2, <1>4, <1>5, <2>1, ConfigOf
    <2> QED  BY <2>2 DEF Made
  <1>7. e \in Names /\ e \notin DOMAIN c.auto
    BY <1>3, <1>6, ConfigFacts DEF Names
  <1>8. plan \in Seq(Steps) /\ Range(plan) = {ShownInbound(e), Route(e), Expose, Install}
    BY <1>7, StepsAre, Range4
  <1> HIDE DEF c, plan
  <1>9. Same(c, e)
    BY <1>3, <1>6 DEF Same
  <1>10. Enabled(c, e) /\ e \in Managed(c) /\ e \notin Autos
    BY <1>3, <1>6, ConfigFacts DEF Managed
  <1>11. Sanctioned(c, Range(plan))
    BY <1>8, <1>10, Tags DEF Sanctioned
  <1>12. drifts = 0 => ComingFor(c, panel, Range(plan), e)
    <2> SUFFICES ASSUME drifts = 0 PROVE ComingFor(c, panel, Range(plan), e)
      OBVIOUS
    <2>1. e \notin DOMAIN panel.inbound
      <3>1. e \notin DOMAIN config.route /\ e \notin DOMAIN config.auto
        BY <1>1, <1>5, <1>6, <1>7
      <3> QED  BY <1>2, <3>1 DEF Shows, Managed
    <2> QED  BY <1>7, <1>8, <2>1 DEF ComingFor
  <1>13. Install \in Range(plan) /\ Expose \in Range(plan)
    BY <1>8
  <1> QED  BY <1>1, <1>6, <1>7, <1>8, <1>9, <1>11, <1>12, <1>13, BeganFor

LEMMA SetRouteStep ==
  ASSUME IInv, NEW e \in Exits, NEW on \in BOOLEAN, SetRoute(e, on)
  PROVE  IInv'
  <1> DEFINE w == [config.route EXCEPT ![e] = on]
             c == [config EXCEPT !.route = w]
             first == IF on THEN <<Inbound(e), Switch(e), Route(e)>> ELSE <<Switch(e)>>
             last == <<Expose, Install, Synchronise>>
             plan == first \o last
  <1>1. e \in DOMAIN config.route /\ Begin("route-set", c, plan) /\ Free
    BY DEF SetRoute, Begin, Idle
  <1>2. config \in Configs /\ panel \in Panels /\ (drifts = 0 => Shows(config, panel))
    BY <1>1, AtRest
  <1>3. /\ DOMAIN w = DOMAIN config.route /\ w[e] = on /\ w = [y \in DOMAIN w |-> w[y]]
        /\ \A y \in DOMAIN config.route : y # e => w[y] = config.route[y]
    BY <1>1
  <1>4. config.route \in PartialFun(Exits, BOOLEAN) /\ DOMAIN config.route \subseteq config.exits
    BY <1>2, ConfigFacts
  <1> HIDE DEF w
  <1>5. w \in PartialFun(Exits, BOOLEAN)
    BY <1>3, <1>4, Partial
  <1>6. c \in Configs /\ c.exits = config.exits /\ c.route = w /\ c.auto = config.auto /\ c.mode = config.mode
    <2>1. Made(c, config.exits, w, config.auto, config.mode)
      BY <1>2, <1>3, <1>4, <1>5, ConfigOf
    <2> QED  BY <2>1 DEF Made
  <1>7. e \in Names /\ e \notin DOMAIN c.auto /\ e \notin Autos
    BY <1>1, <1>2, <1>6, ConfigFacts, NameAssumption DEF Names
  <1>8. /\ first \in Seq(Steps)
        /\ Range(first) = IF on THEN {Inbound(e), Switch(e), Route(e)} ELSE {Switch(e)}
    <2>1. Inbound(e) \in Steps /\ Switch(e) \in Steps /\ Route(e) \in Steps
      BY <1>7, StepsAre
    <2>2. CASE on
      BY <2>1, <2>2, Range3
    <2>3. CASE ~on
      BY <2>1, <2>3, Range1
    <2> QED  BY <2>2, <2>3
  <1>9. last \in Seq(Steps) /\ Range(last) = {Expose, Install, Synchronise}
    BY StepsAre, Range3
  <1> HIDE DEF first, last
  <1>10. plan \in Seq(Steps) /\ Range(plan) = Range(first) \cup Range(last)
    BY <1>8, <1>9, ConcatRange
  <1>11. /\ Switch(e) \in Range(plan) /\ Expose \in Range(plan) /\ Install \in Range(plan)
         /\ on => Inbound(e) \in Range(plan) /\ Route(e) \in Range(plan)
         /\ Range(plan) \subseteq {Inbound(e), Switch(e), Route(e), Expose, Install, Synchronise}
    BY <1>8, <1>9, <1>10
  <1> HIDE DEF c, plan
  <1>12. Same(c, e)
    BY <1>3, <1>6 DEF Same
  <1>13. e \in Managed(c) /\ e \in DOMAIN c.route /\ c.route[e] = on /\ Enabled(c, e) = on
         /\ (IsPublic(c, e) => on)
    BY <1>1, <1>3, <1>6, ConfigFacts DEF Managed
  <1>14. Sanctioned(c, Range(plan))
    BY <1>11, <1>13, Tags DEF Sanctioned
  <1>15. drifts = 0 => ComingFor(c, panel, Range(plan), e)
    <2> SUFFICES ASSUME drifts = 0 PROVE ComingFor(c, panel, Range(plan), e)
      OBVIOUS
    <2>1. e \in DOMAIN panel.inbound
      BY <1>1, <1>2 DEF Shows, Managed
    <2> QED  BY <1>7, <1>11, <1>13, <2>1 DEF ComingFor
  <1> QED  BY <1>1, <1>6, <1>7, <1>10, <1>11, <1>12, <1>14, <1>15, BeganFor

LEMMA RemoveRouteStep ==
  ASSUME IInv, NEW e \in Exits, RemoveRoute(e)
  PROVE  IInv'
  <1> DEFINE w == Without(config.route, e)
             c == [config EXCEPT !.route = w]
             plan == <<Expose, Unroute({e}), Delete(e), Install, Synchronise>>
  <1>1. e \in DOMAIN config.route /\ Begin("route-remove", c, plan) /\ Free
    BY DEF RemoveRoute, Begin, Idle
  <1>2. config \in Configs /\ panel \in Panels
    BY <1>1, AtRest
  <1>3. /\ DOMAIN w = DOMAIN config.route \ {e}
        /\ \A y \in DOMAIN config.route : y # e => w[y] = config.route[y]
    BY DEF Without, Restrict
  <1>4. config.route \in PartialFun(Exits, BOOLEAN) /\ DOMAIN config.route \subseteq config.exits
    BY <1>2, ConfigFacts
  <1>5. w \in PartialFun(Exits, BOOLEAN)
    BY <1>4, WithoutPartial
  <1> HIDE DEF w
  <1>6. c \in Configs /\ c.exits = config.exits /\ c.route = w /\ c.auto = config.auto /\ c.mode = config.mode
    <2>1. Made(c, config.exits, w, config.auto, config.mode)
      BY <1>2, <1>3, <1>4, <1>5, ConfigOf
    <2> QED  BY <2>1 DEF Made
  <1>7. e \in Names /\ e \notin DOMAIN c.auto /\ e \notin Autos /\ e \notin Managed(c)
    BY <1>1, <1>2, <1>3, <1>6, ConfigFacts, NameAssumption DEF Names, Managed
  <1>8. /\ plan \in Seq(Steps)
        /\ Range(plan) = {Expose, Unroute({e}), Delete(e), Install, Synchronise}
    <2>1. {e} \in SUBSET Exits
      OBVIOUS
    <2>2. /\ Expose \in Steps /\ Unroute({e}) \in Steps /\ Delete(e) \in Steps
          /\ Install \in Steps /\ Synchronise \in Steps
      BY <1>7, <2>1, StepsAre
    <2> QED  BY <2>2, Range5
  <1> HIDE DEF c, plan
  <1>9. Same(c, e)
    BY <1>3, <1>6 DEF Same
  <1>10. Sanctioned(c, Range(plan))
    BY <1>3, <1>6, <1>7, <1>8, Tags DEF Sanctioned
  <1>11. ComingFor(c, panel, Range(plan), e)
    BY <1>3, <1>6, <1>7, <1>8 DEF ComingFor
  <1>12. Install \in Range(plan) /\ Expose \in Range(plan)
    BY <1>8
  <1> QED  BY <1>1, <1>6, <1>7, <1>8, <1>9, <1>10, <1>11, <1>12, BeganFor

LEMMA RemoveExitStep ==
  ASSUME IInv, NEW e \in Exits, NEW force \in BOOLEAN, RemoveExit(e, force)
  PROVE  IInv'
  <1> DEFINE w == Without(config.route, e)
             v == config.exits \ {e}
             c == [config EXCEPT !.exits = v, !.route = w]
             attached == {e} \cap DOMAIN config.route
             deletes == Each(attached, Delete)
             first == <<Expose, Unroute(attached)>>
             last == <<Install, Synchronise>>
             plan == first \o deletes \o last
  <1>1. Begin("remove-exit", c, plan) /\ Free
    BY DEF RemoveExit, Begin, Idle
  <1>2. config \in Configs /\ panel \in Panels /\ (drifts = 0 => Shows(config, panel))
    BY <1>1, AtRest
  <1>3. /\ DOMAIN w = DOMAIN config.route \ {e}
        /\ \A y \in DOMAIN config.route : y # e => w[y] = config.route[y]
    BY DEF Without, Restrict
  <1>4. config.route \in PartialFun(Exits, BOOLEAN) /\ DOMAIN config.route \subseteq config.exits
        /\ config.exits \subseteq Exits
    BY <1>2, ConfigFacts
  <1>5. w \in PartialFun(Exits, BOOLEAN)
    BY <1>4, WithoutPartial
  <1> HIDE DEF w
  <1>6. c \in Configs /\ c.exits = v /\ c.route = w /\ c.auto = config.auto /\ c.mode = config.mode
    <2>1. DOMAIN w \subseteq v /\ v \in SUBSET Exits
      BY <1>3, <1>4, <1>5
    <2> HIDE DEF v
    <2>2. Made(c, v, w, config.auto, config.mode)
      BY <1>2, <1>4, <1>5, <2>1, ConfigOf
    <2> QED  BY <2>2 DEF Made
  <1>7. e \in Names /\ e \notin DOMAIN config.auto /\ e \notin Autos /\ e \notin Managed(c)
    <2>1. e \in Names /\ e \notin Autos
      BY NameAssumption DEF Names
    <2>2. DOMAIN config.auto \subseteq Autos
      BY <1>2, ConfigFacts
    <2> QED  BY <1>3, <1>6, <2>1, <2>2 DEF Managed
  <1>8. deletes \in Seq(Steps) /\ Range(deletes) = {Delete(x) : x \in attached}
    <2> DEFINE g == [x \in attached |-> Delete(x)]
    <2>1. attached \subseteq {e} /\ IsFiniteSet({e})
      BY FS_Singleton
    <2>2. IsFiniteSet(attached)
      BY <2>1, FS_Subset
    <2>3. \A x \in attached : Delete(x) \in Steps
      BY <1>7, StepsAre
    <2>4. g \in [attached -> Steps] /\ \A x \in attached : g[x] = Delete(x)
      BY <2>3
    <2>5. SetToSeq(attached) \in Seq(attached)
      BY <2>2, SetToSeqRange
    <2> HIDE DEF g, attached
    <2>6. Picks(attached, g, deletes)
      BY <2>4, <2>5 DEF Each, Picks
    <2> HIDE DEF deletes
    <2>7. deletes \in Seq(Steps) /\ Range(deletes) = {g[x] : x \in attached}
      BY <2>2, <2>4, <2>6, EachRange
    <2> QED  BY <2>4, <2>7
  <1>9. first \in Seq(Steps) /\ Range(first) = {Expose, Unroute(attached)}
    <2>1. attached \in SUBSET Exits
      OBVIOUS
    <2> QED  BY <2>1, StepsAre, Range2
  <1>10. last \in Seq(Steps) /\ Range(last) = {Install, Synchronise}
    BY StepsAre, Range2
  <1> HIDE DEF first, deletes, last
  <1>11. plan \in Seq(Steps) /\ Range(plan) = Range(first) \cup Range(deletes) \cup Range(last)
    <2> DEFINE mid == first \o deletes
    <2>1. mid \in Seq(Steps) /\ Range(mid) = Range(first) \cup Range(deletes)
      BY <1>8, <1>9, ConcatRange
    <2>2. plan = mid \o last
      OBVIOUS
    <2> HIDE DEF mid, plan
    <2>3. mid \o last \in Seq(Steps) /\ Range(mid \o last) = Range(mid) \cup Range(last)
      BY <1>10, <2>1, ConcatRange
    <2> QED  BY <2>1, <2>2, <2>3
  <1>12. /\ e \in DOMAIN config.route => Delete(e) \in Range(plan)
         /\ Install \in Range(plan) /\ Expose \in Range(plan)
         /\ Range(plan) \subseteq {Expose, Unroute(attached), Delete(e), Install, Synchronise}
    BY <1>8, <1>9, <1>10, <1>11
  <1> HIDE DEF c, plan
  <1>13. Same(c, e)
    BY <1>3, <1>6 DEF Same
  <1>14. Sanctioned(c, Range(plan))
    BY <1>3, <1>6, <1>7, <1>12, Tags DEF Sanctioned
  <1>15. drifts = 0 => ComingFor(c, panel, Range(plan), e)
    <2> SUFFICES ASSUME drifts = 0 PROVE ComingFor(c, panel, Range(plan), e)
      OBVIOUS
    <2>1. e \in DOMAIN panel.inbound => e \in DOMAIN config.route
      BY <1>2, <1>7 DEF Shows, Managed
    <2> QED  BY <1>3, <1>6, <1>7, <1>12, <2>1 DEF ComingFor
  <1> QED  BY <1>1, <1>6, <1>7, <1>11, <1>12, <1>13, <1>14, <1>15, BeganFor

\* What is public does not change with the name.
LEMMA SamePublished ==
  ASSUME config \in Configs, NEW c \in Configs, NEW z, Same(c, z),
         z \in Managed(c) /\ IsPublic(c, z) <=> z \in Managed(config) /\ IsPublic(config, z)
  PROVE  Published(c) = Published(config)
  <1>1. \A x : x # z =>
           /\ x \in Managed(c) <=> x \in Managed(config)
           /\ x \in Managed(c) => IsPublic(c, x) = IsPublic(config, x)
    BY SameNames
  <1>2. \A x : x \in Published(c) <=> x \in Managed(c) /\ IsPublic(c, x)
    BY DEF Published
  <1>3. \A x : x \in Published(config) <=> x \in Managed(config) /\ IsPublic(config, x)
    BY DEF Published
  <1>4. \A x : x \in Published(c) <=> x \in Published(config)
    BY <1>1, <1>2, <1>3
  <1> QED  BY <1>4

LEMMA AutoCreateStep ==
  ASSUME IInv, NEW a \in Autos, NEW sel \in SUBSET Exits, AutoCreate(a, sel)
  PROVE  IInv'
  <1> DEFINE v == [sel |-> sel, on |-> TRUE, pub |-> FALSE]
             w == With(config.auto, a, v)
             c == [config EXCEPT !.auto = w]
             plan == <<ShownInbound(a), Balance(a, sel), Install>>
  <1>1. Begin("auto-create", c, plan) /\ a \notin DOMAIN config.auto /\ sel # {} /\ Free
    BY DEF AutoCreate, Begin, Idle
  <1>2. config \in Configs /\ panel \in Panels /\ (drifts = 0 => Shows(config, panel))
    BY <1>1, AtRest
  <1>3. v \in AutoRoutes /\ v.on = TRUE /\ v.pub = FALSE
    BY <1>1 DEF AutoRoutes, Selections
  <1> HIDE DEF v
  <1>4. /\ DOMAIN w = DOMAIN config.auto \cup {a} /\ w[a] = v
        /\ \A y \in DOMAIN config.auto : y # a => w[y] = config.auto[y]
    BY DEF With
  <1>5. w \in PartialFun(Autos, AutoRoutes)
    BY <1>2, <1>3, ConfigFacts, WithPartial
  <1> HIDE DEF w
  <1>6. c \in Configs /\ c.exits = config.exits /\ c.route = config.route /\ c.auto = w /\ c.mode = config.mode
    <2>1. Made(c, config.exits, config.route, w, config.mode)
      BY <1>2, <1>5, ConfigOf
    <2> QED  BY <2>1 DEF Made
  <1>7. a \in Names /\ a \notin DOMAIN config.route /\ a \notin Exits /\ a \notin Managed(config)
    <2>1. DOMAIN config.route \subseteq Exits
      BY <1>2, ConfigFacts
    <2> QED  BY <1>1, <2>1, NameAssumption DEF Names, Managed
  <1>8. plan \in Seq(Steps) /\ Range(plan) = {ShownInbound(a), Balance(a, sel), Install}
    BY <1>7, StepsAre, Range3
  <1> HIDE DEF c, plan
  <1>9. Same(c, a)
    BY <1>4, <1>6 DEF Same
  <1>10. /\ a \in Managed(c) /\ a \in DOMAIN c.auto /\ c.auto[a].on = TRUE /\ c.auto[a].pub = FALSE
         /\ Enabled(c, a) = TRUE /\ IsPublic(c, a) = FALSE
    BY <1>3, <1>4, <1>6, ConfigFacts DEF Managed
  <1>11. Sanctioned(c, Range(plan))
    BY <1>8, <1>10, Tags DEF Sanctioned
  <1>12. Published(c) = Published(config)
    BY <1>2, <1>6, <1>7, <1>9, <1>10, SamePublished
  <1>13. drifts = 0 => ComingFor(c, panel, Range(plan), a)
    <2> SUFFICES ASSUME drifts = 0 PROVE ComingFor(c, panel, Range(plan), a)
      OBVIOUS
    <2>1. a \notin DOMAIN panel.inbound
      BY <1>2, <1>7 DEF Shows
    <2> QED  BY <1>6, <1>7, <1>8, <2>1 DEF ComingFor
  <1>14. Install \in Range(plan)
    BY <1>8
  <1> QED  BY <1>1, <1>6, <1>8, <1>9, <1>10, <1>11, <1>12, <1>13, <1>14, BeganFor

LEMMA AutoToggleStep ==
  ASSUME IInv, NEW a \in Autos, NEW on \in BOOLEAN, AutoToggle(a, on)
  PROVE  IInv'
  <1> DEFINE w == [config.auto EXCEPT ![a].on = on]
             c == [config EXCEPT !.auto = w]
             turn == IF on THEN Balance(a, config.auto[a].sel) ELSE Unbalance(a)
             plan == <<Switch(a), turn, Install>>
  <1>1. /\ Begin("auto-toggle", c, plan) /\ Free
        /\ a \in DOMAIN config.auto /\ (on \/ ~config.auto[a].pub)
    BY DEF AutoToggle, MayToggle, Begin, Idle
  <1>2. /\ config \in Configs /\ panel \in Panels /\ (drifts = 0 => Shows(config, panel))
        /\ PubOn(config)
    BY <1>1, AtRest
  <1>3. /\ config.auto[a] \in AutoRoutes /\ config.auto[a].sel \in SUBSET Exits
        /\ config.auto[a].pub \in BOOLEAN
        /\ config.auto \in PartialFun(Autos, AutoRoutes) /\ DOMAIN config.auto \subseteq Autos
        /\ \A y \in DOMAIN config.auto : config.auto[y] \in AutoRoutes
        /\ IsPublic(config, a) = (config.auto[a].on /\ config.auto[a].pub)
    BY <1>1, <1>2, ConfigFacts
  <1>4. /\ [config.auto[a] EXCEPT !.on = on] \in AutoRoutes
        /\ [config.auto[a] EXCEPT !.on = on].on = on
        /\ [config.auto[a] EXCEPT !.on = on].pub = config.auto[a].pub
    BY <1>3 DEF AutoRoutes
  <1>5. /\ DOMAIN w = DOMAIN config.auto /\ w[a] = [config.auto[a] EXCEPT !.on = on]
        /\ w = [y \in DOMAIN w |-> w[y]]
        /\ \A y \in DOMAIN config.auto : y # a => w[y] = config.auto[y]
    BY <1>1
  <1> HIDE DEF w
  <1>6. w \in PartialFun(Autos, AutoRoutes)
    <2>1. \A y \in DOMAIN w : w[y] \in AutoRoutes
      BY <1>3, <1>4, <1>5
    <2> QED  BY <1>3, <1>5, <2>1, Partial
  <1>7. c \in Configs /\ c.exits = config.exits /\ c.route = config.route /\ c.auto = w /\ c.mode = config.mode
    <2>1. Made(c, config.exits, config.route, w, config.mode)
      BY <1>2, <1>6, ConfigOf
    <2> QED  BY <2>1 DEF Made
  <1>8. a \in Names /\ a \notin DOMAIN config.route /\ a \notin Exits
    BY <1>1, <1>2, ConfigFacts DEF Names
  <1>9. turn \in Steps
    BY <1>3, StepsAre
  <1> HIDE DEF turn
  <1>10. plan \in Seq(Steps) /\ Range(plan) = {Switch(a), turn, Install}
    BY <1>8, <1>9, StepsAre, Range3
  <1> HIDE DEF c, plan
  <1>11. Same(c, a)
    BY <1>5, <1>7 DEF Same
  <1>12. /\ a \in Managed(c) /\ a \in DOMAIN c.auto /\ c.auto[a].on = on
         /\ c.auto[a].pub = config.auto[a].pub
         /\ Enabled(c, a) = on /\ IsPublic(c, a) = (on /\ config.auto[a].pub)
    <2>1. a \in DOMAIN c.auto /\ c.auto[a] = [config.auto[a] EXCEPT !.on = on]
      BY <1>1, <1>5, <1>7
    <2>2. c.auto[a].on = on /\ c.auto[a].pub = config.auto[a].pub
      BY <1>4, <2>1
    <2>3. Enabled(c, a) = c.auto[a].on /\ IsPublic(c, a) = (c.auto[a].on /\ c.auto[a].pub)
      BY <1>7, <2>1, ConfigFacts
    <2> QED  BY <2>1, <2>2, <2>3 DEF Managed
  <1>13. turn = Balance(a, config.auto[a].sel) \/ (turn = Unbalance(a) /\ ~on)
    BY DEF turn
  <1>14. Sanctioned(c, Range(plan))
    BY <1>10, <1>12, <1>13, Tags DEF Sanctioned
  <1>15. Published(c) = Published(config)
    <2>1. config.auto[a].pub => config.auto[a].on
      BY <1>1, <1>2 DEF PubOn
    <2>2. a \in Managed(config)
      BY <1>1 DEF Managed
    <2>3. IsPublic(c, a) <=> IsPublic(config, a)
      BY <1>1, <1>3, <1>12, <2>1
    <2> QED  BY <1>2, <1>7, <1>11, <1>12, <2>2, <2>3, SamePublished
  <1>16. drifts = 0 => ComingFor(c, panel, Range(plan), a)
    <2> SUFFICES ASSUME drifts = 0 PROVE ComingFor(c, panel, Range(plan), a)
      OBVIOUS
    <2>1. a \in DOMAIN panel.inbound /\ panel.inbound[a].shown = config.auto[a].pub
      BY <1>1, <1>2 DEF Shows, Managed
    <2>2. on => Balance(a, config.auto[a].sel) \in Range(plan)
      BY <1>10 DEF turn
    <2> QED  BY <1>3, <1>7, <1>8, <1>10, <1>12, <2>1, <2>2 DEF ComingFor
  <1>17. c.auto[a].pub => c.auto[a].on
    BY <1>1, <1>12
  <1>18. Install \in Range(plan)
    BY <1>10
  <1> QED  BY <1>1, <1>7, <1>10, <1>11, <1>14, <1>15, <1>16, <1>17, <1>18, BeganFor

LEMMA AutoPublishStep ==
  ASSUME IInv, NEW a \in Autos, NEW pub \in BOOLEAN, AutoPublish(a, pub)
  PROVE  IInv'
  <1> DEFINE w == [config.auto EXCEPT ![a].pub = pub]
             c == [config EXCEPT !.auto = w]
             plan == <<Inbound(a), Expose, Install>>
  <1>1. /\ Begin("auto-publish", c, plan) /\ Free
        /\ a \in DOMAIN config.auto /\ (pub => config.auto[a].on)
    BY DEF AutoPublish, Begin, Idle
  <1>2. config \in Configs /\ panel \in Panels /\ (drifts = 0 => Shows(config, panel))
    BY <1>1, AtRest
  <1>3. /\ config.auto[a] \in AutoRoutes /\ DOMAIN config.auto \subseteq Autos
        /\ \A y \in DOMAIN config.auto : config.auto[y] \in AutoRoutes
        /\ Enabled(config, a) = config.auto[a].on
    BY <1>1, <1>2, ConfigFacts
  <1>4. /\ [config.auto[a] EXCEPT !.pub = pub] \in AutoRoutes
        /\ [config.auto[a] EXCEPT !.pub = pub].pub = pub
        /\ [config.auto[a] EXCEPT !.pub = pub].on = config.auto[a].on
    BY <1>3 DEF AutoRoutes
  <1>5. /\ DOMAIN w = DOMAIN config.auto /\ w[a] = [config.auto[a] EXCEPT !.pub = pub]
        /\ w = [y \in DOMAIN w |-> w[y]]
        /\ \A y \in DOMAIN config.auto : y # a => w[y] = config.auto[y]
    BY <1>1
  <1> HIDE DEF w
  <1>6. w \in PartialFun(Autos, AutoRoutes)
    <2>1. \A y \in DOMAIN w : w[y] \in AutoRoutes
      BY <1>3, <1>4, <1>5
    <2> QED  BY <1>3, <1>5, <2>1, Partial
  <1>7. c \in Configs /\ c.exits = config.exits /\ c.route = config.route /\ c.auto = w /\ c.mode = config.mode
    <2>1. Made(c, config.exits, config.route, w, config.mode)
      BY <1>2, <1>6, ConfigOf
    <2> QED  BY <2>1 DEF Made
  <1>8. a \in Names /\ a \notin DOMAIN config.route
    BY <1>1, <1>2, ConfigFacts DEF Names
  <1>9. plan \in Seq(Steps) /\ Range(plan) = {Inbound(a), Expose, Install}
    BY <1>8, StepsAre, Range3
  <1> HIDE DEF c, plan
  <1>10. Same(c, a)
    BY <1>5, <1>7 DEF Same
  <1>11. /\ a \in Managed(c) /\ a \in DOMAIN c.auto /\ c.auto[a].pub = pub
         /\ c.auto[a].on = config.auto[a].on /\ Enabled(c, a) = config.auto[a].on
    <2>1. a \in DOMAIN c.auto /\ c.auto[a] = [config.auto[a] EXCEPT !.pub = pub]
      BY <1>1, <1>5, <1>7
    <2>2. c.auto[a].pub = pub /\ c.auto[a].on = config.auto[a].on
      BY <1>4, <2>1
    <2>3. Enabled(c, a) = c.auto[a].on
      BY <1>7, <2>1, ConfigFacts
    <2> QED  BY <2>1, <2>2, <2>3 DEF Managed
  <1>12. Sanctioned(c, Range(plan))
    BY <1>9, <1>11, Tags DEF Sanctioned
  <1>13. drifts = 0 => ComingFor(c, panel, Range(plan), a)
    <2> SUFFICES ASSUME drifts = 0 PROVE ComingFor(c, panel, Range(plan), a)
      OBVIOUS
    <2>1. /\ a \in DOMAIN panel.inbound /\ panel.inbound[a].on = config.auto[a].on
          /\ config.auto[a].on => a \in DOMAIN panel.balancer
      BY <1>1, <1>2, <1>3 DEF Shows, Managed
    <2> QED  BY <1>7, <1>8, <1>9, <1>11, <2>1 DEF ComingFor
  <1>14. (c.auto[a].pub => c.auto[a].on) /\ Install \in Range(plan) /\ Expose \in Range(plan)
    BY <1>1, <1>9, <1>11
  <1> QED  BY <1>1, <1>7, <1>9, <1>10, <1>12, <1>13, <1>14, BeganFor

\* A plan made of a few steps for each of the names in S.
LEMMA PerName ==
  ASSUME NEW S, IsFiniteSet(S), NEW g \in [S -> Seq(Steps)], NEW h, Picks(S, g, h)
  PROVE  /\ FlattenSeq(h) \in Seq(Steps)
         /\ Range(FlattenSeq(h)) = UNION {Range(g[x]) : x \in S}
  <1>1. /\ FlattenSeq(h) \in Seq(Steps)
        /\ \A t : t \in Range(FlattenSeq(h)) <=> \E x \in S : t \in Range(g[x])
    BY EachFlat
  <1>2. \A t : t \in UNION {Range(g[x]) : x \in S} <=> \E x \in S : t \in Range(g[x])
    OBVIOUS
  <1> QED  BY <1>1, <1>2

LEMMA NamesFinite ==
  ASSUME config \in Configs
  PROVE  IsFiniteSet(DOMAIN config.route) /\ IsFiniteSet(DOMAIN config.auto)
  <1>1. DOMAIN config.route \subseteq Exits /\ DOMAIN config.auto \subseteq Autos
    BY ConfigFacts
  <1> QED  BY <1>1, FiniteAssumption, FS_Subset

LEMMA PublicationStep ==
  ASSUME IInv, NEW mode \in Modes, Publication(mode)
  PROVE  IInv'
  <1> DEFINE c == [config EXCEPT !.mode = mode]
             show(x) == <<Inbound(x), Switch(x)>>
             autos == FlattenSeq(Each(DOMAIN config.auto, show))
             routes == FlattenSeq(Each(DOMAIN config.route, show))
             last == <<Expose, Install, Synchronise>>
             plan == autos \o routes \o last
  <1>1. Begin("publication-mode", c, plan) /\ Free
    BY DEF Publication, Begin, Idle
  <1>2. /\ config \in Configs /\ panel \in Panels /\ (drifts = 0 => Shows(config, panel))
        /\ PubOn(config)
    BY <1>1, AtRest
  <1>3. c \in Configs /\ c.route = config.route /\ c.auto = config.auto
    <2>1. Made(c, config.exits, config.route, config.auto, mode)
      BY <1>2, ConfigOf
    <2> QED  BY <2>1 DEF Made
  <1>4. ASSUME NEW S, IsFiniteSet(S), S \subseteq Names
        PROVE  /\ FlattenSeq(Each(S, show)) \in Seq(Steps)
               /\ Range(FlattenSeq(Each(S, show))) = UNION {{Inbound(x), Switch(x)} : x \in S}
    <2> DEFINE g == [x \in S |-> <<Inbound(x), Switch(x)>>]
               h == Each(S, show)
    <2>1. \A x \in S : <<Inbound(x), Switch(x)>> \in Seq(Steps)
                       /\ Range(<<Inbound(x), Switch(x)>>) = {Inbound(x), Switch(x)}
      BY <1>4, StepsAre, Range2
    <2>2. g \in [S -> Seq(Steps)] /\ \A x \in S : g[x] = <<Inbound(x), Switch(x)>>
      BY <2>1
    <2>3. SetToSeq(S) \in Seq(S)
      BY <1>4, SetToSeqRange
    <2> HIDE DEF g
    <2>4. Picks(S, g, h)
      BY <2>2, <2>3 DEF Each, Picks
    <2> HIDE DEF h, c, show, autos, routes, last, plan
    <2>5. FlattenSeq(h) \in Seq(Steps) /\ Range(FlattenSeq(h)) = UNION {Range(g[x]) : x \in S}
      BY <1>4, <2>2, <2>4, PerName
    <2>6. {Range(g[x]) : x \in S} = {{Inbound(x), Switch(x)} : x \in S}
      BY <2>1, <2>2
    <2> QED  BY <2>5, <2>6 DEF h
  <1>5. /\ autos \in Seq(Steps) /\ Range(autos) = UNION {{Inbound(x), Switch(x)} : x \in DOMAIN config.auto}
        /\ routes \in Seq(Steps) /\ Range(routes) = UNION {{Inbound(x), Switch(x)} : x \in DOMAIN config.route}
    <2>1. DOMAIN config.auto \subseteq Names /\ DOMAIN config.route \subseteq Names
      BY <1>2, ConfigFacts DEF Managed
    <2>2. IsFiniteSet(DOMAIN config.route) /\ IsFiniteSet(DOMAIN config.auto)
      BY <1>2, NamesFinite
    <2> HIDE DEF show
    <2> QED  BY <1>4, <2>1, <2>2
  <1>6. last \in Seq(Steps) /\ Range(last) = {Expose, Install, Synchronise}
    BY StepsAre, Range3
  <1> HIDE DEF autos, routes, last, c
  <1>7. plan \in Seq(Steps) /\ Range(plan) = Range(autos) \cup Range(routes) \cup Range(last)
    <2> DEFINE mid == autos \o routes
    <2>1. mid \in Seq(Steps) /\ Range(mid) = Range(autos) \cup Range(routes)
      BY <1>5, ConcatRange
    <2>2. plan = mid \o last
      OBVIOUS
    <2> HIDE DEF mid, plan
    <2>3. mid \o last \in Seq(Steps) /\ Range(mid \o last) = Range(mid) \cup Range(last)
      BY <1>6, <2>1, ConcatRange
    <2> QED  BY <2>1, <2>2, <2>3
  <1> HIDE DEF plan
  <1>8. /\ \A x \in Managed(c) : Inbound(x) \in Range(plan) /\ Switch(x) \in Range(plan)
        /\ \A t \in Range(plan) : \/ \E x \in Managed(c) : t = Inbound(x) \/ t = Switch(x)
                                  \/ t \in {Expose, Install, Synchronise}
        /\ Expose \in Range(plan) /\ Install \in Range(plan)
    BY <1>3, <1>5, <1>6, <1>7 DEF Managed
  <1>9. Sanctioned(c, Range(plan))
    BY <1>8, Tags DEF Sanctioned
  <1>10. drifts = 0 => Coming(c, panel, Range(plan))
    <2> SUFFICES ASSUME drifts = 0 PROVE Coming(c, panel, Range(plan))
      OBVIOUS
    <2>1. Managed(c) = Managed(config) /\ Shows(config, panel)
      BY <1>2, <1>3 DEF Managed
    <2>2. InboundsComing(c, panel, Range(plan))
      BY <1>8, <2>1 DEF InboundsComing, Shows
    <2>3. RoutesComing(c, panel, Range(plan))
      BY <1>3, <2>1 DEF RoutesComing, Shows
    <2>4. BalancersComing(c, panel, Range(plan))
      BY <1>3, <2>1 DEF BalancersComing, Shows
    <2> QED  BY <2>2, <2>3, <2>4 DEF Coming
  <1>11. PubOn(c)
    BY <1>2, <1>3 DEF PubOn
  <1>12. Ordinary(c, panel, Range(plan))
    BY <1>8, <1>9, <1>10, <1>11 DEF Ordinary
  <1> QED  BY <1>1, <1>3, <1>7, <1>12, Began

LEMMA ReconcileStep ==
  ASSUME IInv, Reconcile
  PROVE  IInv'
  <1> DEFINE cascade(e) == <<Inbound(e), Switch(e)>>
                             \o (IF config.route[e] THEN <<Route(e)>> ELSE <<>>)
             turn(a) == IF config.auto[a].on THEN Balance(a, config.auto[a].sel) ELSE Unbalance(a)
             auto(a) == <<Inbound(a), Switch(a), turn(a)>>
             routes == FlattenSeq(Each(DOMAIN config.route, cascade))
             autos == FlattenSeq(Each(DOMAIN config.auto, auto))
             last == <<Expose, Install>>
             plan == routes \o autos \o last
             OfRoute(e) == {Inbound(e), Switch(e)} \cup (IF config.route[e] THEN {Route(e)} ELSE {})
             OfAuto(a) == {Inbound(a), Switch(a), turn(a)}
  <1>1. Begin("reconcile", config, plan) /\ Free
    BY DEF Reconcile, Begin, Idle
  <1>2. /\ config \in Configs /\ panel \in Panels /\ public = Published(config)
        /\ PubOn(config) /\ (drifts = 0 => Shows(config, panel))
    BY <1>1, AtRest
  <1>3. /\ DOMAIN config.route \subseteq Exits /\ DOMAIN config.auto \subseteq Autos
        /\ \A a \in DOMAIN config.auto : config.auto[a].sel \in SUBSET Exits
        /\ \A x \in Managed(config) : Enabled(config, x) \in BOOLEAN /\ IsPublic(config, x) \in BOOLEAN
    BY <1>2, ConfigFacts
  <1>4. IsFiniteSet(DOMAIN config.route) /\ IsFiniteSet(DOMAIN config.auto)
    BY <1>2, NamesFinite
  <1>5. routes \in Seq(Steps) /\ Range(routes) = UNION {OfRoute(e) : e \in DOMAIN config.route}
    <2> DEFINE S == DOMAIN config.route
               g == [e \in S |-> cascade(e)]
               h == Each(S, cascade)
    <2>1. ASSUME NEW e \in S PROVE cascade(e) \in Seq(Steps) /\ Range(cascade(e)) = OfRoute(e)
      <3> DEFINE s == <<Inbound(e), Switch(e)>>
                 t == IF config.route[e] THEN <<Route(e)>> ELSE <<>>
      <3>1. s \in Seq(Steps) /\ Range(s) = {Inbound(e), Switch(e)}
        BY <1>3, StepsAre, Range2 DEF Names
      <3>2. t \in Seq(Steps) /\ Range(t) = IF config.route[e] THEN {Route(e)} ELSE {}
        <4>1. CASE config.route[e]
          BY <1>3, <4>1, StepsAre, Range1
        <4>2. CASE ~config.route[e]
          <5>1. t = <<>> /\ <<>> \in Seq(Steps) /\ DOMAIN <<>> = {}
            BY <4>2
          <5> QED  BY <4>2, <5>1 DEF Range
        <4> QED  BY <4>1, <4>2
      <3> HIDE DEF s, t
      <3>3. s \o t \in Seq(Steps) /\ Range(s \o t) = Range(s) \cup Range(t)
        BY <3>1, <3>2, ConcatRange
      <3>4. cascade(e) = s \o t
        BY DEF s, t
      <3> QED  BY <3>1, <3>2, <3>3, <3>4
    <2>2. SetToSeq(S) \in Seq(S)
      BY <1>4, SetToSeqRange
    <2> HIDE DEF cascade, OfRoute
    <2>3. g \in [S -> Seq(Steps)] /\ \A e \in S : g[e] = cascade(e)
      BY <2>1
    <2> HIDE DEF g
    <2>4. Picks(S, g, h)
      BY <2>2, <2>3 DEF Each, Picks
    <2> HIDE DEF h, turn, auto, routes, autos, last, plan, OfAuto
    <2>5. FlattenSeq(h) \in Seq(Steps) /\ Range(FlattenSeq(h)) = UNION {Range(g[e]) : e \in S}
      BY <1>4, <2>3, <2>4, PerName
    <2>6. {Range(g[e]) : e \in S} = {OfRoute(e) : e \in S}
      BY <2>1, <2>3
    <2> QED  BY <2>5, <2>6 DEF h, routes
  <1>6. autos \in Seq(Steps) /\ Range(autos) = UNION {OfAuto(a) : a \in DOMAIN config.auto}
    <2> DEFINE S == DOMAIN config.auto
               g == [a \in S |-> auto(a)]
               h == Each(S, auto)
    <2>1. ASSUME NEW a \in S PROVE auto(a) \in Seq(Steps) /\ Range(auto(a)) = OfAuto(a)
      <3>1. Inbound(a) \in Steps /\ Switch(a) \in Steps /\ turn(a) \in Steps
        BY <1>3, StepsAre DEF Names
      <3> HIDE DEF turn
      <3> QED  BY <3>1, Range3
    <2>2. SetToSeq(S) \in Seq(S)
      BY <1>4, SetToSeqRange
    <2> HIDE DEF auto, OfAuto
    <2>3. g \in [S -> Seq(Steps)] /\ \A a \in S : g[a] = auto(a)
      BY <2>1
    <2> HIDE DEF g
    <2>4. Picks(S, g, h)
      BY <2>2, <2>3 DEF Each, Picks
    <2> HIDE DEF h, turn, cascade, routes, autos, last, plan, OfRoute
    <2>5. FlattenSeq(h) \in Seq(Steps) /\ Range(FlattenSeq(h)) = UNION {Range(g[a]) : a \in S}
      BY <1>4, <2>3, <2>4, PerName
    <2>6. {Range(g[a]) : a \in S} = {OfAuto(a) : a \in S}
      BY <2>1, <2>3
    <2> QED  BY <2>5, <2>6 DEF h, autos
  <1>7. last \in Seq(Steps) /\ Range(last) = {Expose, Install}
    BY StepsAre, Range2
  <1> HIDE DEF autos, routes, last
  <1>8. plan \in Seq(Steps) /\ Range(plan) = Range(routes) \cup Range(autos) \cup Range(last)
    <2> DEFINE mid == routes \o autos
    <2>1. mid \in Seq(Steps) /\ Range(mid) = Range(routes) \cup Range(autos)
      BY <1>5, <1>6, ConcatRange
    <2>2. plan = mid \o last
      OBVIOUS
    <2> HIDE DEF mid, plan
    <2>3. mid \o last \in Seq(Steps) /\ Range(mid \o last) = Range(mid) \cup Range(last)
      BY <1>7, <2>1, ConcatRange
    <2> QED  BY <2>1, <2>2, <2>3
  <1> HIDE DEF plan
  <1>9. /\ \A x \in Managed(config) : Inbound(x) \in Range(plan) /\ Switch(x) \in Range(plan)
        /\ \A e \in DOMAIN config.route : config.route[e] => Route(e) \in Range(plan)
        /\ \A a \in DOMAIN config.auto :
             /\ config.auto[a].on => Balance(a, config.auto[a].sel) \in Range(plan)
             /\ ~config.auto[a].on => Unbalance(a) \in Range(plan)
        /\ Expose \in Range(plan) /\ Install \in Range(plan)
    BY <1>5, <1>6, <1>7, <1>8 DEF Managed
  <1>10. \A t \in Range(plan) :
           \/ \E x \in Managed(config) : t = Inbound(x) \/ t = Switch(x)
           \/ \E e \in DOMAIN config.route : t = Route(e)
           \/ \E a \in DOMAIN config.auto :
                \/ config.auto[a].on /\ t = Balance(a, config.auto[a].sel)
                \/ ~config.auto[a].on /\ t = Unbalance(a)
           \/ t \in {Expose, Install}
    BY <1>5, <1>6, <1>7, <1>8 DEF Managed
  <1> HIDE DEF turn, OfAuto, OfRoute, cascade, auto
  <1>11. Sanctioned(config, Range(plan))
    BY <1>10, Tags DEF Sanctioned
  <1>12. drifts = 0 => Coming(config, panel, Range(plan))
    <2> SUFFICES ASSUME drifts = 0 PROVE Coming(config, panel, Range(plan))
      OBVIOUS
    <2>1. Shows(config, panel)
      BY <1>2
    <2>2. InboundsComing(config, panel, Range(plan))
      BY <1>9, <2>1 DEF InboundsComing, Shows
    <2>3. RoutesComing(config, panel, Range(plan))
      BY <2>1 DEF RoutesComing, Shows
    <2>4. BalancersComing(config, panel, Range(plan))
      BY <2>1 DEF BalancersComing, Shows
    <2> QED  BY <2>2, <2>3, <2>4 DEF Coming
  <1>13. Ordinary(config, panel, Range(plan))
    BY <1>2, <1>9, <1>11, <1>12 DEF Ordinary
  <1>14. Mending(config, Range(plan))
    BY <1>10, Tags DEF Mending
  <1>15. InboundsMending(config, panel, Range(plan)) /\ RoutesComing(config, panel, Range(plan))
         /\ BalancersMending(config, panel, Range(plan))
    BY <1>9 DEF InboundsMending, RoutesComing, BalancersMending
  <1>16. Repairing(config, panel, Range(plan))
    BY <1>14, <1>15 DEF Repairing
  <1> QED  BY <1>1, <1>2, <1>8, <1>13, <1>16, Began

LEMMA OverrideSteps ==
  ASSUME IInv, NEW a \in Autos,
         (\E e \in Exits : AutoOverride(a, e)) \/ AutoClear(a)
  PROVE  IInv'
  <1>1. ASSUME NEW S \in SUBSET Exits, NEW t \in {PinTo(a, e) : e \in Exits} \cup {Unpin(a)},
               Begin("override", config, <<Balance(a, S), t>>)
        PROVE  IInv'
    <2>1. config \in Configs
      BY <1>1, AtRest DEF Begin, Idle
    <2>2. Balance(a, S) \in Steps /\ t \in Steps /\ {Balance(a, S), t} \subseteq Aside
      BY <1>1, StepsAre DEF Aside
    <2>3. <<Balance(a, S), t>> \in Seq(Steps) /\ Range(<<Balance(a, S), t>>) = {Balance(a, S), t}
      BY <2>2, Range2
    <2> QED  BY <1>1, <2>1, <2>2, <2>3, Began
  <1>2. CASE \E e \in Exits : AutoOverride(a, e)
    BY <1>1, <1>2 DEF AutoOverride
  <1>3. CASE AutoClear(a)
    <2>1. a \in DOMAIN config.auto /\ Begin("override", config, <<Balance(a, config.auto[a].sel), Unpin(a)>>)
      BY <1>3 DEF AutoClear
    <2>2. config \in Configs
      BY <2>1, AtRest DEF Begin, Idle
    <2>3. config.auto[a].sel \in SUBSET Exits
      BY <2>1, <2>2, ConfigFacts
    <2> QED  BY <1>1, <2>1, <2>3
  <1> QED  BY <1>2, <1>3

-----------------------------------------------------------------------------
(* The step of a command.                                                     *)

\* What the first step of the plan may be.
LEMMA FirstStep ==
  ASSUME IInv, Step
  PROVE  LET s == Head(job.plan)
             Q == Range(Tail(job.plan))
         IN  /\ s \in Steps /\ Tail(job.plan) \in Seq(Steps) /\ Todo = {s} \cup Q
             /\ s[1] \in {"switch", "delete"} => s[2] \in DOMAIN panel.inbound
             /\ s[1] = "balance" => s[3] # {} /\ s[3] \subseteq panel.outbounds
             /\ s[1] \in {"inbound", "switch", "build"} => s[2] \in Managed(job.cand)
             /\ job.kind = "override" => s \in Aside
  <1> DEFINE s == Head(job.plan)
             Q == Range(Tail(job.plan))
  <1>1. ~Free /\ job.plan # <<>> /\ CanDo(s)
    BY DEF Step
  <1>2. Typed /\ Working /\ job.plan \in Seq(Steps)
    BY <1>1 DEF IInv, Free, Typed, JobTyped
  <1>3. s \in Steps /\ Tail(job.plan) \in Seq(Steps) /\ Todo = {s} \cup Q
    BY <1>1, <1>2, TailRange DEF Todo
  <1>4. /\ s[1] \in {"switch", "delete"} => s[2] \in DOMAIN panel.inbound
        /\ s[1] = "balance" => s[3] # {} /\ s[3] \subseteq panel.outbounds
    BY <1>1 DEF CanDo
  <1>5. job.kind = "override" => s \in Aside
    BY <1>2, <1>3 DEF Working
  <1>6. s[1] \in {"inbound", "switch", "build"} => s[2] \in Managed(job.cand)
    <2>1. CASE job.kind = "override"
      <3>1. s[1] \in {"balance", "pin", "unpin"}
        BY <1>5, <2>1, Tags DEF Aside
      <3> QED  BY <3>1
    <2>2. CASE job.kind # "override"
      <3>1. Sanctioned(job.cand, Todo)
        BY <1>2, <2>2 DEF Working, Ordinary
      <3>2. s[1] \in {"inbound", "switch", "build"} =>
              s[2] \in Names /\ s \in {Inbound(s[2]), Switch(s[2]), ShownInbound(s[2])}
        BY <1>3, StepIs, Tags
      <3> QED  BY <1>3, <3>1, <3>2 DEF Sanctioned
    <2> QED  BY <2>1, <2>2
  <1> QED  BY <1>3, <1>4, <1>5, <1>6

LEMMA StepTyped ==
  ASSUME IInv, Step
  PROVE  Typed'
  <1> DEFINE s == Head(job.plan)
  <1>1. ~Free /\ Typed /\ JobTyped
    BY DEF Step, IInv, Typed
  <1>2. /\ job.plan \in Seq(Steps) /\ job.cand \in Configs
        /\ job.saved[1] \in Configs /\ job.saved[2] \in Panels
        /\ job.saved[3] \in SUBSET Names /\ job.saved[4] \in Files
    BY <1>1 DEF JobTyped, Free
  <1>3. /\ s \in Steps /\ Tail(job.plan) \in Seq(Steps)
        /\ s[1] \in {"switch", "delete"} => s[2] \in DOMAIN panel.inbound
        /\ s[1] = "balance" => s[3] # {}
        /\ s[1] \in {"inbound", "switch", "build"} => s[2] \in Managed(job.cand)
    BY FirstStep
  <1>4. /\ panel' = PanelAfter(s, job.cand)
        /\ public' = IF s = Expose THEN Published(job.cand) ELSE public
        /\ config' = IF s = Install THEN job.cand ELSE config
        /\ runtime' = IF s = Synchronise THEN Sync(config, runtime) ELSE runtime
        /\ pins' = CASE s[1] = "pin" -> With(pins, s[2], s[3])
                     [] s[1] = "unpin" -> Without(pins, s[2])
                     [] OTHER -> pins
        /\ job' = [job EXCEPT !.plan = Tail(job.plan)]
        /\ obs' = obs /\ drifts' = drifts
    BY DEF Step
  <1> HIDE DEF s
  <1>5. config' \in Configs
    BY <1>1, <1>2, <1>4 DEF Typed
  <1>6. panel' \in Panels
    BY <1>1, <1>2, <1>3, <1>4, PanelTyped DEF Typed
  <1>7. public' \in SUBSET Names
    <2>1. Published(job.cand) \subseteq Names
      BY <1>2, ConfigFacts DEF Published
    <2> QED  BY <1>1, <1>4, <2>1 DEF Typed
  <1>8. runtime' \in Files
    BY <1>1, <1>4, SyncSound DEF Typed
  <1>9. pins' \in PartialFun(Autos, Exits)
    <2>1. CASE s[1] = "pin"
      <3>1. s[2] \in Autos /\ s[3] \in Exits /\ pins' = With(pins, s[2], s[3])
        BY <1>3, <1>4, <2>1, StepIs
      <3> QED  BY <1>1, <3>1, WithPartial DEF Typed
    <2>2. CASE s[1] = "unpin"
      <3>1. pins' = Without(pins, s[2])
        BY <1>4, <2>2
      <3> QED  BY <1>1, <3>1, WithoutPartial DEF Typed
    <2>3. CASE s[1] \notin {"pin", "unpin"}
      BY <1>1, <1>4, <2>3 DEF Typed
    <2> QED  BY <2>1, <2>2, <2>3
  <1>10. /\ DOMAIN job' = JobFields /\ job'.kind = job.kind /\ job'.plan = Tail(job.plan)
         /\ job'.cand = job.cand /\ job'.saved = job.saved
    BY <1>1, <1>4 DEF Typed, JobFields
  <1>11. JobTyped'
    BY <1>2, <1>3, <1>10 DEF JobTyped
  <1> QED  BY <1>1, <1>4, <1>5, <1>6, <1>7, <1>8, <1>9, <1>10, <1>11 DEF Typed

\* A step that changes balancers only shows the configuration as before.
LEMMA AsideShows ==
  ASSUME panel \in Panels, NEW c \in Configs, NEW d \in Configs, NEW s \in Steps, s \in Aside, Shows(c, panel)
  PROVE  Shows(c, PanelAfter(s, d))
  <1> DEFINE p == PanelAfter(s, d)
  <1>1. s[1] \in {"balance", "pin", "unpin"}
    BY Tags DEF Aside
  <1>2. p.inbound = panel.inbound
    BY <1>1, InboundAfter
  <1>3. /\ s[1] = "balance" => DOMAIN p.balancer = DOMAIN panel.balancer \cup {s[2]}
        /\ s[1] # "balance" => p.balancer = panel.balancer
        /\ p.outbounds = panel.outbounds
    BY <1>1, RestAfter
  <1> HIDE DEF p
  <1>4. \A a \in DOMAIN panel.balancer : a \in DOMAIN p.balancer
    BY <1>3
  <1>5. Shows(c, p)
    BY <1>2, <1>3, <1>4 DEF Shows
  <1> QED  BY <1>5 DEF p

LEMMA StepPreserves ==
  ASSUME IInv, Step
  PROVE  IInv'
  <1> DEFINE s == Head(job.plan)
             Q == Range(Tail(job.plan))
             c == job.cand
  <1>1. Typed'
    BY StepTyped
  <1>2. ~Free /\ Typed /\ Working
    BY DEF Step, IInv
  <1>3. /\ job.cand \in Configs /\ panel \in Panels /\ config \in Configs
        /\ DOMAIN job = JobFields
    BY <1>2 DEF Typed, JobTyped, Free
  <1>4. /\ s \in Steps /\ Todo = {s} \cup Q
        /\ s[1] \in {"switch", "delete"} => s[2] \in DOMAIN panel.inbound
        /\ s[1] = "balance" => s[3] # {} /\ s[3] \subseteq panel.outbounds
        /\ s[1] \in {"inbound", "switch", "build"} => s[2] \in Managed(c)
        /\ job.kind = "override" => s \in Aside
    BY FirstStep
  <1>5. /\ panel' = PanelAfter(s, c)
        /\ public' = IF s = Expose THEN Published(c) ELSE public
        /\ config' = IF s = Install THEN c ELSE config
        /\ job' = [job EXCEPT !.plan = Tail(job.plan)]
        /\ drifts' = drifts
    BY DEF Step
  <1>6. job'.kind = job.kind /\ job'.plan = Tail(job.plan) /\ job'.cand = c /\ job'.saved = job.saved
    BY <1>3, <1>5 DEF JobFields
  <1>7. Todo' = Q /\ ~Free'
    BY <1>2, <1>6 DEF Todo, Free
  <1> HIDE DEF s, Q
  <1>8. Live(job.saved[1], job.saved[2], job.saved[3])'
    BY <1>2, <1>5, <1>6 DEF Working, Live
  <1>9. CASE job.kind = "override"
    <2>1. c = config /\ Live(config, panel, public) /\ Todo \subseteq Aside
      BY <1>2, <1>9 DEF Working
    <2>2. s # Expose /\ s # Install
      <3>1. s[1] \in {"balance", "pin", "unpin"}
        BY <1>4, <1>9, Tags DEF Aside
      <3> QED  BY <3>1, Tags
    <2>3. config' = config /\ public' = public
      BY <1>5, <2>2
    <2>4. drifts = 0 => Shows(config, panel')
      BY <1>3, <1>4, <1>5, <1>9, <2>1, AsideShows DEF Live
    <2>5. Live(config, panel, public)'
      BY <1>5, <2>1, <2>3, <2>4 DEF Live
    <2>6. Working'
      BY <1>4, <1>6, <1>7, <1>8, <1>9, <2>1, <2>3, <2>5 DEF Working
    <2> QED  BY <1>1, <1>7, <2>6 DEF IInv
  <1>10. CASE job.kind # "override"
    <2>1. Ordinary(c, panel, Todo)
      BY <1>2, <1>10 DEF Working
    <2>2. PubOn(c) /\ Sanctioned(c, Todo)
      BY <2>1 DEF Ordinary
    <2>3. Sanctioned(c, Q) /\ Q \subseteq Todo
      BY <1>4, <2>2, SanctionedRest
    <2>4. config' = c \/ Install \in Q
      BY <1>4, <1>5, <2>1 DEF Ordinary
    <2>5. public' = Published(c) \/ Expose \in Q
      BY <1>4, <1>5, <2>1 DEF Ordinary
    <2>6. ASSUME drifts = 0 PROVE Coming(c, panel', Q)
      <3>1. InboundsComing(c, panel, Todo) /\ RoutesComing(c, panel, Todo) /\ BalancersComing(c, panel, Todo)
        BY <2>1, <2>6 DEF Ordinary, Coming
      <3>2. InboundsComing(c, PanelAfter(s, c), Q)
        BY <1>3, <1>4, <2>2, <3>1, InboundsStep
      <3>3. RoutesComing(c, PanelAfter(s, c), Q)
        BY <1>3, <1>4, <2>2, <3>1, RoutesStep
      <3>4. BalancersComing(c, PanelAfter(s, c), Q)
        BY <1>3, <1>4, <2>2, <3>1, BalancersStep
      <3> QED  BY <1>5, <3>2, <3>3, <3>4 DEF Coming
    <2>7. Ordinary(job.cand, panel, Todo)'
      <3>1. /\ PubOn(c) /\ Sanctioned(c, Q) /\ (config' = c \/ Install \in Q)
            /\ (public' = Published(c) \/ Expose \in Q)
            /\ (drifts' = 0 => Coming(c, panel', Q))
        BY <1>5, <2>2, <2>3, <2>4, <2>5, <2>6
      <3> QED  BY <1>6, <1>7, <3>1 DEF Ordinary
    <2>8. ASSUME job.kind = "reconcile" PROVE Repairing(job.cand, panel, Todo)'
      <3>1. /\ config = c /\ Mending(c, Todo) /\ InboundsMending(c, panel, Todo)
            /\ RoutesComing(c, panel, Todo) /\ BalancersMending(c, panel, Todo)
        BY <1>2, <2>8 DEF Working, Repairing
      <3>2. config' = c /\ Mending(c, Q)
        BY <1>5, <2>3, <3>1, SanctionedRest
      <3>3. InboundsMending(c, PanelAfter(s, c), Q)
        BY <1>3, <1>4, <2>2, <3>1, InboundsMend
      <3>4. RoutesComing(c, PanelAfter(s, c), Q)
        BY <1>3, <1>4, <2>2, <3>1, RoutesStep
      <3>5. BalancersMending(c, PanelAfter(s, c), Q)
        BY <1>3, <1>4, <2>2, <3>1, BalancersMend
      <3>6. /\ config' = c /\ Mending(c, Q) /\ InboundsMending(c, panel', Q)
            /\ RoutesComing(c, panel', Q) /\ BalancersMending(c, panel', Q)
        BY <1>5, <3>2, <3>3, <3>4, <3>5
      <3> QED  BY <1>6, <1>7, <3>6 DEF Repairing
    <2>9. Working'
      BY <1>6, <1>8, <1>10, <2>7, <2>8 DEF Working
    <2> QED  BY <1>1, <1>7, <2>9 DEF IInv
  <1> QED  BY <1>9, <1>10

-----------------------------------------------------------------------------
(* The other actions.                                                         *)

\* What Typed and the rest of the invariant look at.
LEMMA Unchanged ==
  ASSUME IInv, UNCHANGED <<config, panel, public, pins, job, drifts>>, runtime' \in Files,
         DOMAIN obs' = {"pc", "seen", "ok", "result"}, obs'.pc \in {"idle", "probe", "evaluate", "write"},
         obs'.pc = "write" => obs'.result \in Files
  PROVE  IInv'
  <1>1. Typed'
    BY DEF IInv, Typed, JobTyped
  <1>2. (Free' <=> Free) /\ (Live(config, panel, public)' <=> Live(config, panel, public))
    BY DEF Free, Live
  <1>3. Working => Working'
    <2>1. Todo' = Todo
      BY DEF Todo
    <2>2. /\ Live(job.saved[1], job.saved[2], job.saved[3]) => Live(job.saved[1], job.saved[2], job.saved[3])'
          /\ Ordinary(job.cand, panel, Todo) => Ordinary(job.cand, panel, Todo)'
          /\ Repairing(job.cand, panel, Todo) => Repairing(job.cand, panel, Todo)'
      BY <2>1 DEF Live, Ordinary, Repairing
    <2> QED  BY <1>2, <2>1, <2>2 DEF Working
  <1> QED  BY <1>1, <1>2, <1>3 DEF IInv

LEMMA HealthPreserves ==
  ASSUME IInv, HealthRun \/ Rest \/ UNCHANGED vars
  PROVE  IInv'
  <1>1. /\ runtime \in Files /\ DOMAIN obs = {"pc", "seen", "ok", "result"}
        /\ obs.pc \in {"idle", "probe", "evaluate", "write"} /\ (obs.pc = "write" => obs.result \in Files)
        /\ config \in Configs
    BY DEF IInv, Typed
  <1>2. CASE Look
    <2>1. UNCHANGED <<config, panel, public, pins, job, drifts>> /\ runtime' = runtime
      BY <1>2 DEF Look, Quiet
    <2>2. PICK seen : obs' = [obs EXCEPT !.pc = "probe", !.seen = seen]
      BY <1>2 DEF Look
    <2>3. DOMAIN obs' = {"pc", "seen", "ok", "result"} /\ obs'.pc = "probe"
      BY <1>1, <2>2
    <2> QED  BY <1>1, <2>1, <2>3, Unchanged
  <1>3. CASE Probe
    <2>1. UNCHANGED <<config, panel, public, pins, job, drifts>> /\ runtime' = runtime
      BY <1>3 DEF Probe, Quiet
    <2>2. PICK ok : obs' = [obs EXCEPT !.pc = "evaluate", !.ok = IF obs.seen = Unreachable THEN {} ELSE ok]
      BY <1>3 DEF Probe
    <2>3. DOMAIN obs' = {"pc", "seen", "ok", "result"} /\ obs'.pc = "evaluate"
      BY <1>1, <2>2
    <2> QED  BY <1>1, <2>1, <2>3, Unchanged
  <1>4. CASE Load
    <2>1. UNCHANGED <<config, panel, public, pins, job, drifts>> /\ runtime' = runtime
      BY <1>4 DEF Load, Quiet
    <2>2. obs' = [NoRun EXCEPT !.pc = "write",
                               !.result = Evaluate(config, runtime, obs.seen, public, obs.ok)]
      BY <1>4 DEF Load
    <2>3. /\ DOMAIN obs' = {"pc", "seen", "ok", "result"} /\ obs'.pc = "write"
          /\ obs'.result = Evaluate(config, runtime, obs.seen, public, obs.ok)
      BY <2>2 DEF NoRun
    <2>4. obs'.result \in Files
      BY <1>1, <2>3, EvaluateSound
    <2> QED  BY <1>1, <2>1, <2>3, <2>4, Unchanged
  <1>5. CASE Write
    <2>1. UNCHANGED <<config, panel, public, pins, job, drifts>> /\ runtime' = obs.result /\ obs' = NoRun
      BY <1>5 DEF Write, Quiet
    <2>2. runtime' \in Files
      BY <1>1, <1>5, <2>1 DEF Write
    <2>3. DOMAIN obs' = {"pc", "seen", "ok", "result"} /\ obs'.pc = "idle"
      BY <2>1 DEF NoRun
    <2> QED  BY <2>1, <2>2, <2>3, Unchanged
  <1>6. CASE Rest \/ UNCHANGED vars
    BY <1>1, <1>6, Unchanged DEF Rest, vars
  <1> QED  BY <1>2, <1>3, <1>4, <1>5, <1>6 DEF HealthRun

\* A command that has done all its steps has done what it was for.
LEMMA CommitPreserves ==
  ASSUME IInv, Commit
  PROVE  IInv'
  <1>1. /\ ~Free /\ job.plan = <<>> /\ job' = NoJob
        /\ UNCHANGED <<config, panel, public, pins, runtime, obs, drifts>>
    BY DEF Commit
  <1>2. Typed /\ Working
    BY <1>1 DEF IInv
  <1>3. DOMAIN job' = JobFields /\ job'.kind = "none" /\ Free'
    BY <1>1 DEF NoJob, JobFields, Free
  <1>4. Typed'
    BY <1>1, <1>2, <1>3 DEF Typed, JobTyped
  <1>5. \A t : t \notin Todo
    <2>1. DOMAIN <<>> = {}
      OBVIOUS
    <2> QED  BY <1>1, <2>1 DEF Todo, Range
  <1>6. Live(config, panel, public)
    <2>1. CASE job.kind = "override"
      BY <1>2, <2>1 DEF Working
    <2>2. CASE job.kind # "override"
      <3>1. Ordinary(job.cand, panel, Todo)
        BY <1>2, <2>2 DEF Working
      <3>2. config = job.cand /\ public = Published(config) /\ PubOn(config)
            /\ (drifts = 0 => Coming(config, panel, Todo))
        BY <1>5, <3>1 DEF Ordinary
      <3>3. ASSUME drifts = 0 PROVE Shows(config, panel)
        <4>1. InboundsComing(config, panel, Todo) /\ RoutesComing(config, panel, Todo)
              /\ BalancersComing(config, panel, Todo)
          BY <3>2, <3>3 DEF Coming
        <4>2. DOMAIN panel.inbound = Managed(config)
          BY <1>5, <4>1 DEF InboundsComing
        <4>3. \A x \in Managed(config) :
                /\ panel.inbound[x].on = Enabled(config, x)
                /\ IsPublic(config, x) => panel.inbound[x].shown
                /\ x \in Autos => panel.inbound[x].shown = config.auto[x].pub
          BY <1>5, <4>1, <4>2 DEF InboundsComing
        <4>4. \A a \in DOMAIN config.auto : a \in Managed(config) /\ a \in Autos
          BY <1>2, ConfigFacts DEF Managed, Typed
        <4>5. \A e \in DOMAIN config.route : config.route[e] => e \in panel.outbounds
          BY <1>5, <4>1 DEF RoutesComing
        <4>6. \A a \in DOMAIN config.auto : config.auto[a].on => a \in DOMAIN panel.balancer
          BY <1>5, <4>1 DEF BalancersComing
        <4> QED  BY <4>2, <4>3, <4>4, <4>5, <4>6 DEF Shows
      <3> QED  BY <3>2, <3>3 DEF Live
    <2> QED  BY <2>1, <2>2
  <1>7. Live(config, panel, public)'
    BY <1>1, <1>6 DEF Live
  <1> QED  BY <1>3, <1>4, <1>7 DEF IInv

\* What a failure puts back is what was there between the commands.
LEMMA FailPreserves ==
  ASSUME IInv, Fail
  PROVE  IInv'
  <1>1. ~Free /\ job' = NoJob /\ UNCHANGED <<pins, obs, drifts>>
    BY DEF Fail
  <1>2. Typed /\ Working
    BY <1>1 DEF IInv
  <1>3. DOMAIN job' = JobFields /\ job'.kind = "none" /\ Free'
    BY <1>1 DEF NoJob, JobFields, Free
  <1>4. CASE job.kind = "override"
    <2>1. UNCHANGED <<config, panel, public, runtime>>
      BY <1>4 DEF Fail, node
    <2>2. Typed'
      BY <1>1, <1>2, <1>3, <2>1 DEF Typed, JobTyped
    <2>3. Live(config, panel, public)
      BY <1>2, <1>4 DEF Working
    <2>4. Live(config, panel, public)'
      BY <1>1, <2>1, <2>3 DEF Live
    <2> QED  BY <1>3, <2>2, <2>4 DEF IInv
  <1>5. CASE job.kind # "override"
    <2>1. /\ config' = job.saved[1] /\ panel' = job.saved[2]
          /\ public' = job.saved[3] /\ runtime' = job.saved[4]
      BY <1>5 DEF Fail
    <2>2. /\ job.saved[1] \in Configs /\ job.saved[2] \in Panels
          /\ job.saved[3] \in SUBSET Names /\ job.saved[4] \in Files
      BY <1>1, <1>2 DEF Typed, JobTyped, Free
    <2>3. Typed'
      BY <1>1, <1>2, <1>3, <2>1, <2>2 DEF Typed, JobTyped
    <2>4. Live(job.saved[1], job.saved[2], job.saved[3])
      BY <1>2 DEF Working
    <2>5. Live(config, panel, public)'
      BY <1>1, <2>1, <2>4 DEF Live
    <2> QED  BY <1>3, <2>3, <2>5 DEF IInv
  <1> QED  BY <1>4, <1>5

\* What others do to the panel leaves it a panel, and no longer counts.
LEMMA DriftPreserves ==
  ASSUME IInv, Drift
  PROVE  IInv'
  <1>1. Free /\ drifts' = drifts + 1 /\ UNCHANGED <<config, public, pins, runtime, job, obs>>
    BY DEF Drift
  <1>2. Typed /\ Live(config, panel, public) /\ panel \in Panels /\ drifts \in Nat
    BY <1>1 DEF IInv, Typed
  <1>3. /\ panel.inbound \in PartialFun(Names, Inbounds) /\ panel.balancer \in PartialFun(Autos, Selections)
        /\ panel.outbounds \in SUBSET Exits /\ panel.watched \in SUBSET Exits
    BY <1>2, PanelFacts
  <1>4. panel' \in Panels
    <2>1. ASSUME NEW x \in DOMAIN panel.inbound, panel' = [panel EXCEPT !.inbound = Without(@, x)]
          PROVE  panel' \in Panels
      <3>1. Without(panel.inbound, x) \in PartialFun(Names, Inbounds)
        BY <1>3, WithoutPartial
      <3>2. panel' = [panel EXCEPT !.inbound = Without(panel.inbound, x)]
        BY <2>1
      <3> QED  BY <1>2, <3>1, <3>2, PanelOf
    <2>2. ASSUME NEW x \in DOMAIN panel.inbound, panel' = [panel EXCEPT !.inbound[x].on = ~@]
          PROVE  panel' \in Panels
      <3> DEFINE v == [panel.inbound EXCEPT ![x].on = ~@]
      <3>1. panel' = [panel EXCEPT !.inbound = v]
        BY <2>2
      <3>2. /\ DOMAIN panel.inbound \subseteq Names
            /\ \A y \in DOMAIN panel.inbound : panel.inbound[y] \in Inbounds
        BY <1>2, PanelFacts
      <3>3. /\ DOMAIN v = DOMAIN panel.inbound /\ v = [y \in DOMAIN v |-> v[y]]
            /\ v[x] = [panel.inbound[x] EXCEPT !.on = ~@]
            /\ \A y \in DOMAIN panel.inbound : y # x => v[y] = panel.inbound[y]
        OBVIOUS
      <3>4. [panel.inbound[x] EXCEPT !.on = ~@] \in Inbounds
        BY <3>2 DEF Inbounds
      <3> HIDE DEF v
      <3>5. \A y \in DOMAIN v : v[y] \in Inbounds
        BY <3>2, <3>3, <3>4
      <3>6. v \in PartialFun(Names, Inbounds)
        BY <3>2, <3>3, <3>5, Partial
      <3> QED  BY <1>2, <3>1, <3>6, PanelOf
    <2>3. ASSUME NEW e \in panel.outbounds, panel' = [panel EXCEPT !.outbounds = @ \ {e}]
          PROVE  panel' \in Panels
      <3>1. panel' = [panel EXCEPT !.outbounds = panel.outbounds \ {e}]
        BY <2>3
      <3>2. panel.outbounds \ {e} \in SUBSET Exits
        BY <1>3
      <3> QED  BY <1>2, <3>1, <3>2, PanelOf
    <2>4. ASSUME NEW a \in DOMAIN panel.balancer, panel' = [panel EXCEPT !.balancer = Without(@, a)]
          PROVE  panel' \in Panels
      <3>1. Without(panel.balancer, a) \in PartialFun(Autos, Selections)
        BY <1>3, WithoutPartial
      <3>2. panel' = [panel EXCEPT !.balancer = Without(panel.balancer, a), !.watched = panel.watched]
        BY <1>2, <2>4 DEF Panels
      <3> QED  BY <1>2, <1>3, <3>1, <3>2, PanelOf
    <2> QED  BY <2>1, <2>2, <2>3, <2>4 DEF Drift
  <1>5. drifts' \in Nat /\ drifts' # 0
    BY <1>1, <1>2
  <1>6. Typed'
    BY <1>1, <1>2, <1>4, <1>5 DEF Typed, JobTyped
  <1>7. Live(config, panel, public)' /\ Free'
    BY <1>1, <1>2, <1>5 DEF Live, Free
  <1> QED  BY <1>6, <1>7 DEF IInv

\* A fresh Entry and a provisioned one show what they are configured for.
LEMMA InitConfig ==
  ASSUME config \in {NewEntry, Provisioned}
  PROVE  config \in Configs /\ \A a \in DOMAIN config.auto : config.auto[a].pub = FALSE
  <1>1. CASE config = NewEntry
    <2>1. /\ config.exits = {} /\ config.route = Empty /\ config.auto = Empty /\ config.mode = "all"
          /\ config = [exits |-> {}, route |-> Empty, auto |-> Empty, mode |-> "all"]
      BY <1>1 DEF NewEntry
    <2>2. /\ Empty \in PartialFun(Exits, BOOLEAN) /\ Empty \in PartialFun(Autos, AutoRoutes)
          /\ DOMAIN Empty = {}
      BY EmptyPartial
    <2>3. "all" \in Modes
      BY DEF Modes
    <2> QED  BY <2>1, <2>2, <2>3 DEF Configs
  <1>2. CASE config = Provisioned
    <2> DEFINE r == [e \in Exits |-> TRUE]
               v == [sel |-> Exits, on |-> TRUE, pub |-> FALSE]
               w == [a \in Autos |-> v]
    <2>1. config = [exits |-> Exits, route |-> r, auto |-> w, mode |-> "all"]
      BY <1>2 DEF Provisioned
    <2>2. r = [e \in DOMAIN r |-> r[e]] /\ DOMAIN r = Exits /\ \A e \in Exits : r[e] = TRUE
      OBVIOUS
    <2>3. Autos # {} => v \in AutoRoutes
      BY SelectorAssumption DEF AutoRoutes, Selections
    <2>4. v.pub = FALSE
      OBVIOUS
    <2> HIDE DEF r, v
    <2>5. w = [a \in DOMAIN w |-> w[a]] /\ DOMAIN w = Autos /\ \A a \in Autos : w[a] = v
      OBVIOUS
    <2> HIDE DEF w
    <2>6. r \in PartialFun(Exits, BOOLEAN)
      BY <2>2, Partial
    <2>7. \A a \in DOMAIN w : w[a] \in AutoRoutes
      BY <2>3, <2>5
    <2>8. w \in PartialFun(Autos, AutoRoutes)
      BY <2>5, <2>7, Partial
    <2>9. "all" \in Modes
      BY DEF Modes
    <2>10. config.route = r /\ config.auto = w /\ config.exits = Exits
      BY <2>1
    <2>11. config \in Configs
      BY <2>1, <2>2, <2>6, <2>8, <2>9, <2>10 DEF Configs
    <2> QED  BY <2>4, <2>5, <2>10, <2>11
  <1> QED  BY <1>1, <1>2

LEMMA InitInv ==
  ASSUME Init
  PROVE  IInv
  <1> DEFINE i == [x \in Managed(config) |-> Desired(config, x)]
             b == [a \in DOMAIN config.auto |-> config.auto[a].sel]
             w == IF DOMAIN config.auto = {} THEN {} ELSE config.exits
  <1>1. /\ config \in {NewEntry, Provisioned}
        /\ panel = [inbound |-> i, outbounds |-> config.exits, balancer |-> b, watched |-> w]
        /\ public = Published(config) /\ pins = Empty /\ runtime = [exit |-> Empty, route |-> Empty]
        /\ job = NoJob /\ obs = NoRun /\ drifts = 0
    BY DEF Init
  <1>2. config \in Configs /\ \A a \in DOMAIN config.auto : config.auto[a].pub = FALSE
    BY <1>1, InitConfig
  <1>3. /\ config.exits \in SUBSET Exits /\ DOMAIN config.route \subseteq config.exits
        /\ DOMAIN config.auto \subseteq Autos /\ Managed(config) \subseteq Names
        /\ \A a \in DOMAIN config.auto : config.auto[a].sel \in Selections
        /\ \A x \in Managed(config) : Enabled(config, x) \in BOOLEAN /\ IsPublic(config, x) \in BOOLEAN
        /\ \A a \in DOMAIN config.auto :
             a \in Managed(config) /\ IsPublic(config, a) = (config.auto[a].on /\ config.auto[a].pub)
    BY <1>2, ConfigFacts DEF Selections, Managed
  <1>4. /\ i = [x \in DOMAIN i |-> i[x]] /\ DOMAIN i = Managed(config)
        /\ \A x \in Managed(config) : i[x].on = Enabled(config, x) /\ i[x].shown = IsPublic(config, x)
                                      /\ i[x] \in Inbounds
    BY <1>3 DEF Desired, Inbounds
  <1>5. /\ b = [a \in DOMAIN b |-> b[a]] /\ DOMAIN b = DOMAIN config.auto
        /\ \A a \in DOMAIN config.auto : b[a] \in Selections
    BY <1>3
  <1>6. w \in SUBSET Exits
    BY <1>3
  <1> HIDE DEF i, b, w
  <1>7. i \in PartialFun(Names, Inbounds) /\ b \in PartialFun(Autos, Selections)
    BY <1>3, <1>4, <1>5, Partial
  <1>8. panel \in Panels
    BY <1>1, <1>3, <1>6, <1>7 DEF Panels
  <1>9. runtime \in Files
    <2>1. runtime \in RuntimeFiles
      BY <1>1, EmptyPartial DEF RuntimeFiles
    <2>2. DOMAIN runtime.exit = {}
      BY <1>1, EmptyPartial
    <2> QED  BY <2>1, <2>2, FilesAre
  <1>10. Published(config) \in SUBSET Names
    BY <1>3 DEF Published
  <1>11. /\ DOMAIN obs = {"pc", "seen", "ok", "result"} /\ obs.pc = "idle"
         /\ DOMAIN job = JobFields /\ job.kind = "none"
    BY <1>1 DEF NoRun, NoJob, JobFields
  <1>12. Typed
    BY <1>1, <1>2, <1>8, <1>9, <1>10, <1>11, EmptyPartial DEF Typed, JobTyped
  <1>13. PubOn(config)
    BY <1>2 DEF PubOn
  <1>14. Shows(config, panel)
    <2>1. panel.inbound = i /\ panel.outbounds = config.exits /\ panel.balancer = b
      BY <1>1
    <2>2. \A a \in DOMAIN config.auto : panel.inbound[a].shown = config.auto[a].pub
      <3> SUFFICES ASSUME NEW a \in DOMAIN config.auto
                   PROVE  panel.inbound[a].shown = config.auto[a].pub
        OBVIOUS
      <3>1. IsPublic(config, a) = FALSE /\ config.auto[a].pub = FALSE
        BY <1>2, <1>3
      <3> QED  BY <1>3, <1>4, <2>1, <3>1
    <2> QED  BY <1>3, <1>4, <1>5, <2>1, <2>2 DEF Shows
  <1>15. Live(config, panel, public) /\ Free
    BY <1>1, <1>11, <1>13, <1>14 DEF Live, Free
  <1> QED  BY <1>12, <1>15 DEF IInv

LEMMA NextInv ==
  ASSUME IInv, [Next]_vars
  PROVE  IInv'
  <1>1. CASE \E e \in Exits : AddExit(e)
    BY <1>1, AddExitStep
  <1>2. CASE \E e \in Exits : RemoveRoute(e)
    BY <1>2, RemoveRouteStep
  <1>3. CASE \E e \in Exits, on \in BOOLEAN : SetRoute(e, on)
    BY <1>3, SetRouteStep
  <1>4. CASE \E e \in Exits, force \in BOOLEAN : RemoveExit(e, force)
    BY <1>4, RemoveExitStep
  <1>5. CASE \E mode \in Modes : Publication(mode)
    BY <1>5, PublicationStep
  <1>6. CASE Reconcile
    BY <1>6, ReconcileStep
  <1>7. CASE \E a \in Autos, sel \in SUBSET Exits : AutoCreate(a, sel)
    BY <1>7, AutoCreateStep
  <1>8. CASE \E a \in Autos, on \in BOOLEAN : AutoToggle(a, on)
    BY <1>8, AutoToggleStep
  <1>9. CASE \E a \in Autos, pub \in BOOLEAN : AutoPublish(a, pub)
    BY <1>9, AutoPublishStep
  <1>10. CASE \E a \in Autos : (\E e \in Exits : AutoOverride(a, e)) \/ AutoClear(a)
    BY <1>10, OverrideSteps
  <1>11. CASE Step
    BY <1>11, StepPreserves
  <1>12. CASE Commit
    BY <1>12, CommitPreserves
  <1>13. CASE Fail
    BY <1>13, FailPreserves
  <1>14. CASE HealthRun \/ Rest \/ UNCHANGED vars
    BY <1>14, HealthPreserves
  <1>15. CASE Drift
    BY <1>15, DriftPreserves
  <1> QED
    BY <1>1, <1>2, <1>3, <1>4, <1>5, <1>6, <1>7, <1>8, <1>9, <1>10, <1>11, <1>12, <1>13, <1>14, <1>15
    DEF Next, Command

-----------------------------------------------------------------------------
(* The theorems.                                                              *)

\* The inductive invariant holds in every reachable state.
THEOREM Invariance == Spec => []IInv
  <1>1. Init => IInv
    BY InitInv
  <1>2. IInv /\ [Next]_vars => IInv'
    BY NextInv
  <1> QED  BY <1>1, <1>2, PTL DEF Spec

\* The files, the panel and a health result keep their shapes, every route
\* names an imported Exit, and a verdict in runtime.json goes with its
\* counters, whatever commands, health runs and others do in between.
THEOREM TypeCorrect == Spec => []TypeOK
  <1>1. IInv => TypeOK
    <2> SUFFICES ASSUME IInv PROVE TypeOK
      OBVIOUS
    <2>1. /\ config \in Configs /\ panel \in Panels /\ public \in SUBSET Names
          /\ pins \in PartialFun(Autos, Exits) /\ runtime \in Files
          /\ obs.pc \in {"idle", "probe", "evaluate", "write"}
          /\ obs.pc = "write" => obs.result \in Files
      BY DEF IInv, Typed
    <2>2. /\ config.exits \subseteq Exits /\ DOMAIN config.route \subseteq config.exits
          /\ config.mode \in Modes
          /\ \A e \in DOMAIN config.route : config.route[e] \in BOOLEAN
          /\ \A a \in DOMAIN config.auto : a \in Autos /\ config.auto[a] \in AutoRoutes
      BY <2>1, ConfigFacts
    <2>3. config.route \in [DOMAIN config.route -> BOOLEAN]
      <3>1. config.route \in PartialFun(Exits, BOOLEAN)
        BY <2>1, ConfigFacts
      <3> QED  BY <3>1, Partial
    <2>4. /\ panel.inbound \in PartialFun(Exits \cup Autos, [on : BOOLEAN, shown : BOOLEAN])
          /\ panel.outbounds \subseteq Exits /\ panel.watched \subseteq Exits
          /\ panel.balancer \in PartialFun(Autos, (SUBSET Exits) \ {{}})
      BY <2>1, PanelFacts DEF Names, Inbounds, Selections
    <2>5. runtime \in RuntimeFiles /\ (obs.pc = "write" => obs.result \in RuntimeFiles)
      BY <2>1 DEF Files
    <2>6. \A e \in DOMAIN runtime.exit :
            LET h == runtime.exit[e]
            IN  /\ h.status = "healthy" => h.fail < Enough
                /\ h.status = "unhealthy" => h.fail = Enough
                /\ h.succ = 0 \/ h.fail = 0
      BY <2>1 DEF Files, Counted
    <2> QED  BY <2>1, <2>2, <2>3, <2>4, <2>5, <2>6 DEF TypeOK, Names, AutoRoutes, Selections
  <1> QED  BY <1>1, Invariance, PTL

\* Between commands what is public is what config.json sanctions, and, as long
\* as nobody touched the panel by hand, the panel is as configured: for every
\* command and every place at which it may have failed.
THEOREM CommittedLive == Spec => []CommittedIsLive
  <1>1. IInv => CommittedIsLive
    <2> SUFFICES ASSUME IInv, Free PROVE
          /\ public = Published(config)
          /\ \A a \in DOMAIN config.auto : config.auto[a].pub => config.auto[a].on
          /\ drifts = 0 =>
               /\ DOMAIN panel.inbound = Managed(config)
               /\ \A x \in Managed(config) :
                    /\ panel.inbound[x].on = Enabled(config, x)
                    /\ IsPublic(config, x) => panel.inbound[x].shown
               /\ \A e \in DOMAIN config.route : config.route[e] => e \in panel.outbounds
               /\ {a \in DOMAIN config.auto : config.auto[a].on} \subseteq DOMAIN panel.balancer
               /\ \A a \in DOMAIN config.auto : panel.inbound[a].shown = config.auto[a].pub
      BY DEF CommittedIsLive
    <2> QED  BY AtRest DEF PubOn, Shows
  <1> QED  BY <1>1, Invariance, PTL

\* What a reconciliation that commits leaves behind.
LEMMA Mended ==
  ASSUME IInv, job.kind = "reconcile", Commit
  PROVE  /\ config \in Configs /\ DriftPlan(config, panel, public) = {}
         /\ \A x \in Managed(config) :
              InboundMatches(config, panel, x) /\ panel.inbound[x].on = Enabled(config, x)
         /\ \A a \in DOMAIN config.auto :
              /\ config.auto[a].on = (a \in DOMAIN panel.balancer)
              /\ config.auto[a].on => BalancerRight(config, panel, a)
  <1>1. ~Free /\ job.plan = <<>>
    BY DEF Commit
  <1>2. Typed /\ Working
    BY <1>1 DEF IInv
  <1>3. \A t : t \notin Todo
    <2>1. DOMAIN <<>> = {}
      OBVIOUS
    <2> QED  BY <1>1, <2>1 DEF Todo, Range
  <1>4. /\ config = job.cand /\ public = Published(config)
        /\ InboundsMending(config, panel, Todo) /\ RoutesComing(config, panel, Todo)
        /\ BalancersMending(config, panel, Todo)
    BY <1>2, <1>3 DEF Working, Ordinary, Repairing
  <1>5. config \in Configs
    BY <1>2 DEF Typed
  <1>6. \A x \in Managed(config) :
          InboundMatches(config, panel, x) /\ panel.inbound[x].on = Enabled(config, x)
    BY <1>3, <1>4 DEF InboundsMending, InboundMatches
  <1>7. DriftPlan(config, panel, public) = {}
    <2>1. \A e \in DOMAIN config.route : e \in Managed(config) /\ Enabled(config, e) = config.route[e]
                                         /\ IsPublic(config, e) \in BOOLEAN
      BY <1>5, ConfigFacts DEF Managed
    <2>2. {e \in DOMAIN config.route :
             ~InboundMatches(config, panel, e) \/ panel.inbound[e].on # config.route[e]} = {}
      BY <1>6, <2>1
    <2>3. {e \in DOMAIN config.route : config.route[e] /\ e \notin panel.outbounds} = {}
      BY <1>3, <1>4 DEF RoutesComing
    <2>4. \A e \in DOMAIN config.route : (e \in public) = IsPublic(config, e)
      BY <1>4, <2>1 DEF Published
    <2>5. {e \in DOMAIN config.route : (e \in public) # IsPublic(config, e)} = {}
      BY <2>4
    <2> QED  BY <2>2, <2>3, <2>5 DEF DriftPlan
  <1>8. ASSUME NEW a \in DOMAIN config.auto
        PROVE  /\ config.auto[a].on = (a \in DOMAIN panel.balancer)
               /\ config.auto[a].on => BalancerRight(config, panel, a)
    <2>1. config.auto[a].on \in BOOLEAN
      BY <1>5, ConfigFacts
    <2>2. config.auto[a].on => BalancerRight(config, panel, a)
      BY <1>3, <1>4 DEF BalancersMending
    <2>3. ~config.auto[a].on => a \notin DOMAIN panel.balancer
      BY <1>3, <1>4 DEF BalancersMending
    <2> QED  BY <2>1, <2>2, <2>3 DEF BalancerRight
  <1> QED  BY <1>5, <1>6, <1>7, <1>8

\* `reconcile --apply` that commits leaves nothing for drift_plan to report and
\* a balancer for exactly the Auto Routes that are on, whatever others had done
\* to the panel and whatever earlier commands left, for any number of Auto Routes.
THEOREM RepairsDrift ==
  Spec => [][ job.kind = "reconcile" /\ Commit =>
                /\ DriftPlan(config, panel, public) = {}
                /\ \A a \in DOMAIN config.auto : config.auto[a].on = (a \in DOMAIN panel.balancer) ]_vars
  <1> DEFINE Repaired ==
               /\ DriftPlan(config, panel, public) = {}
               /\ \A a \in DOMAIN config.auto : config.auto[a].on = (a \in DOMAIN panel.balancer)
             Done == job.kind = "reconcile" /\ Commit
  <1>1. IInv /\ [Next]_vars => [Done => Repaired]_vars
    BY Mended
  <1> HIDE DEF Repaired, Done
  <1>2. Spec => [][Done => Repaired]_vars
    BY <1>1, Invariance, PTL DEF Spec
  <1> QED  BY <1>2 DEF Repaired, Done

\* And each Auto Route that is not pinned is then structurally sound, if there
\* is only one: the balancer applied last takes the observatory over.
THEOREM Repairs ==
  ASSUME \A a, b \in Autos : a = b
  PROVE  Spec => ReconcileRepairs
  <1> DEFINE Repaired ==
               /\ DriftPlan(config, panel, public) = {}
               /\ \A a \in DOMAIN config.auto :
                    /\ a \in DOMAIN pins \/ AutoStatus(config, runtime, panel, pins, a) # "misconfigured"
                    /\ config.auto[a].on = (a \in DOMAIN panel.balancer)
             Done == job.kind = "reconcile" /\ Commit
  <1>1. ASSUME IInv, job.kind = "reconcile", Commit, NEW a \in DOMAIN config.auto, a \notin DOMAIN pins
        PROVE  AutoStatus(config, runtime, panel, pins, a) # "misconfigured"
    <2>1. /\ config \in Configs /\ (config.auto[a].on => BalancerRight(config, panel, a))
          /\ \A x \in Managed(config) :
               InboundMatches(config, panel, x) /\ panel.inbound[x].on = Enabled(config, x)
      BY <1>1, Mended
    <2>2. /\ a \in Managed(config) /\ a \in Autos /\ Enabled(config, a) = config.auto[a].on
          /\ config.auto[a].sel # {}
      BY <2>1, ConfigFacts DEF Managed
    <2>3. CASE ~config.auto[a].on
      <3>1. AutoStatus(config, runtime, panel, pins, a) = "disabled"
        BY <2>3 DEF AutoStatus
      <3> QED  BY <3>1
    <2>4. CASE config.auto[a].on
      <3>1. Effective(config, pins, a) = config.auto[a].sel
        BY <1>1 DEF Effective
      <3>2. /\ a \in DOMAIN panel.balancer /\ panel.balancer[a] = config.auto[a].sel
            /\ panel.watched = config.auto[a].sel /\ config.auto[a].sel \subseteq panel.outbounds
        BY <2>1, <2>2, <2>4 DEF BalancerRight
      <3>3. a \in DOMAIN panel.inbound /\ panel.inbound[a].on = config.auto[a].on
        BY <2>1, <2>2 DEF InboundMatches
      <3>4. AutoStructural(config, panel, pins, a)
        BY <2>2, <3>1, <3>2, <3>3 DEF AutoStructural
      <3>5. AutoStatus(config, runtime, panel, pins, a) \in {"healthy", "degraded", "unhealthy", "unknown"}
        BY <2>4, <3>4 DEF AutoStatus
      <3> QED  BY <3>5
    <2> QED  BY <2>3, <2>4
  <1>2. IInv /\ Done => Repaired
    BY <1>1, Mended
  <1>3. IInv /\ [Next]_vars => [Done => Repaired]_vars
    BY <1>2
  <1>4. ReconcileRepairs <=> [][Done => Repaired]_vars
    BY DEF ReconcileRepairs
  <1> HIDE DEF Repaired, Done
  <1>5. Spec => [][Done => Repaired]_vars
    BY <1>3, Invariance, PTL DEF Spec
  <1> QED  BY <1>4, <1>5

=============================================================================
