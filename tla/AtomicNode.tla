---------------------------- MODULE AtomicNode ----------------------------
(* What the transaction journal promises about one node: a command changes    *)
(* every part it touches at once or none of them, commands commit in the      *)
(* order they began, and the Agent's access mutations are interleaved with    *)
(* them without either side undoing the other.                                *)
EXTENDS Naturals

CONSTANTS
    Parts,      \* the parts of the node
    MaxTx,      \* bound: commands
    MaxAgent    \* bound: access mutations

File == [state: {"ok", "torn", "none", "absent"}, cli: 0..MaxTx, agent: 0..MaxAgent]

VARIABLES
    node,       \* the node as its operator may rely on it
    last        \* the last command that has committed

Init ==
    /\ node \in [Parts -> {f \in File : f.state \in {"ok", "none"} /\ f.cli = 0 /\ f.agent = 0}]
    /\ last = 0

\* Command t replaces some parts and keeps the Agent's accounts.
Commit(t) ==
    /\ t > last
    /\ last' = t
    /\ DOMAIN node' = Parts
    /\ \A x \in Parts :
        \/ node'[x] = node[x]
        \/ node'[x] = [state |-> "ok", cli |-> t, agent |-> node[x].agent]

AgentWrite ==
    /\ node' = [node EXCEPT !["db"].agent = @ + 1]
    /\ UNCHANGED last

Next == (\E t \in 1..MaxTx : Commit(t)) \/ AgentWrite

Spec == Init /\ [][Next]_<<node, last>>
=============================================================================
