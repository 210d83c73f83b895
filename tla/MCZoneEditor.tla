----------------------------- MODULE MCZoneEditor -----------------------------
(* A zone with a network, a host and a group of it. *)
EXTENDS ZoneEditor

CONSTANTS a, b, g, n, m, z, y, i

N(h, t, s) == [host |-> h, net |-> t, zone |-> s]
Z(s)       == [type |-> "zone", name |-> N(NoPart, NoPart, s)]
Net(t, s)  == [type |-> "network", name |-> N(NoPart, t, s)]
H(h, t, s) == [type |-> "host", name |-> N(h, t, s)]
G(h, t, s) == [type |-> "group", name |-> N(h, t, s)]

On(hosts, interfaces) == [active |-> TRUE, MEMBER |-> hosts, INTERFACE |-> interfaces]

TreeDisk ==
    [f \in {Z(z), Net(n, z), H(a, n, z), G(g, n, z)} |->
        IF f = Net(n, z) THEN On({}, {i}) ELSE IF f = G(g, n, z) THEN On({a}, {}) ELSE On({}, {})]
TreeRules == <<N(a, n, z), N(NoPart, n, z)>>
TreeBlocked == <<N(g, n, z)>>

None == <<>>
=============================================================================
