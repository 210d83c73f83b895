----------------------------- MODULE RuleLoops -----------------------------
(***************************************************************************)
(* From a rule as the user writes it to its lines: rules_analyze_rule() of *)
(* libvuurmuur (rules.c) and the nested loops of rules.c of the daemon     *)
(* over families, interfaces, port ranges, sources and destinations.       *)
(*                                                                         *)
(* The record r is struct RuleCreateData_, which all loops of one rule     *)
(* share: what an inner loop leaves in it is there when the outer loop     *)
(* comes round.  Every operator returns the record as its function leaves  *)
(* it, with the lines queued (queue) and the classes queued (classes).     *)
(***************************************************************************)
EXTENDS RuleNat

Families == {4, 6}

(***************************************************************************)
(* rules_analyze_rule().  A rule d names its zones: "any", "firewall",     *)
(* "firewall(any)" or one that has a record.  The firewall has no zone of  *)
(* its own: the network of the other side stands for it.                   *)
(***************************************************************************)

Everyone == [type |-> "any"]
Firewall == [type |-> "firewall"]
FirewallAny == [type |-> "firewall(any)"]
IsFirewall(z) == z.type \in {"firewall", "firewall(any)"}
IsZone(z) == z.type # "any" /\ ~IsFirewall(z)
NetworkOf(z) == IF z.type = "network" THEN z ELSE z.net

DetermineAction(d) ==
    CASE d.action = "accept" -> Jump("NEWACCEPT")
      [] d.action = "drop" -> Jump("DROP")
      [] d.action = "reject" -> IF d.opt.reject = "tcp-reset" THEN Jump("TCPRESET")
                                ELSE Set("REJECT", d.opt.reject)
      [] d.action = "redirect" -> Set("REDIRECT", d.opt.redirectport)
      [] d.action = "log" -> Jump("LOG")
      [] d.action = "masq" -> Jump("MASQUERADE")
      [] d.action = "snat" -> Jump("SNAT")
      [] d.action \in {"portfw", "dnat", "bounce"} -> Jump("DNAT")
      [] d.action = "queue" -> Jump("NEWQUEUE")
      [] d.action = "nfqueue" -> Jump("NEWNFQUEUE")
      [] d.action = "chain" -> Jump(d.opt.chain)

DetermineRuletype(d) ==
    CASE d.action = "masq" -> "MASQ"
      [] d.action = "snat" -> "SNAT"
      [] d.action = "portfw" -> "PORTFW"
      [] d.action = "redirect" -> "REDIRECT"
      [] d.action = "dnat" -> "DNAT"
      [] d.action = "bounce" -> "BOUNCE"
      [] OTHER -> IF IsFirewall(d.from) THEN "OUTPUT" ELSE IF IsFirewall(d.to) THEN "INPUT" ELSE "FORWARD"

\* what makes the analysis of a rule fail: the rule is dropped from the list
Analyzes(d) ==
    /\ ~(IsFirewall(d.from) /\ IsFirewall(d.to))
    /\ d.action = "redirect" => d.opt.redirectport # None /\ ~IsFirewall(d.from)
    /\ d.action = "queue" => DetermineRuletype(d) \in {"INPUT", "OUTPUT", "FORWARD"}
    /\ d.action = "chain" => d.opt.chain # None
    /\ d.action \in {"portfw", "dnat", "bounce"} =>
          ~IsFirewall(d.from) /\ IsZone(d.to) /\ d.to.type = "host"
    /\ d.action \in {"snat", "masq"} => d.to.type # "any"
    /\ d.action = "bounce" => d.opt.via # None

Cache(d) ==
    LET stands(z) == IF IsZone(z) /\ z.type # "zone" THEN NetworkOf(z) ELSE None
    IN  [from |-> IF IsFirewall(d.from) THEN stands(d.to) ELSE IF IsZone(d.from) THEN d.from ELSE None,
         to |-> IF IsFirewall(d.to) THEN stands(d.from) ELSE IF IsZone(d.to) THEN d.to ELSE None,
         fromAny |-> d.from.type = "any", toAny |-> d.to.type = "any",
         fromFw |-> IsFirewall(d.from), fromFwAny |-> d.from.type = "firewall(any)",
         toFw |-> IsFirewall(d.to), toFwAny |-> d.to.type = "firewall(any)",
         active |-> d.active, service |-> d.service, ruletype |-> DetermineRuletype(d), action |-> DetermineAction(d),
         opt |-> [d.opt EXCEPT !.log = @ /\ d.action # "log"]]

(***************************************************************************)
(* rulecreate_dst_loop(), rulecreate_src_loop()                            *)
(***************************************************************************)

Emit(r, c) == [r EXCEPT !.queue = Queue(@, CreateRuleAndOptions(r, c))]

\* "-i" and "-o" never name a virtual interface of the old style
Device(iface) == IF iface.oldstyle THEN None ELSE iface.device

DstFirewall(r, c) ==
    LET other == IF c.from = None \/ c.from.type = "zone" THEN r.fromIf ELSE r.toIf
        r1 == IF c.toFwAny \/ c.fromAny THEN r
              ELSE [r EXCEPT !.dst = other.addr[r.ipv], !.fromInt = Device(other)]
    IN  IF c.fromAny /\ c.opt.inInt # None THEN [r1 EXCEPT !.dst = r.fromIf.addr[r.ipv]] ELSE r1

\* the addresses that the loop goes by, and whether a line is created for each
Destinations(r, c) ==
    LET to(z, on) == [addr |-> z.addr[r.ipv], on |-> on]
    IN  IF c.toAny \/ c.toFw THEN << [addr |-> r.dst, on |-> TRUE] >>
        ELSE CASE c.to.type \in {"host", "network"} -> << to(c.to, c.to.active) >>
               [] c.to.type = "group" ->
                     IF ~c.to.active THEN << >>
                     ELSE [n \in DOMAIN c.to.members |-> to(c.to.members[n], c.to.members[n].active)]
               [] c.to.type = "zone" -> << to(r.toNet, c.to.active /\ r.toNet.active) >>

ToDestination(r, t, c) ==
    LET q == [r EXCEPT !.dst = t.addr]
    IN  IF t.on THEN Emit(q, c) ELSE q

DstLoop(r, c) ==
    LET r1 == IF c.toFw THEN DstFirewall(r, c) ELSE r
        list == Destinations(r1, c)
    IN  Loop(LAMBDA q, x: ToDestination(q, x, c), r1, list)

\* mutant: the address of the interface to the other side, whatever that side is
SrcFirewall_Any(r, c) ==
    [r EXCEPT !.src = IF r.fromIf = None THEN Whole ELSE r.fromIf.addr[r.ipv],
              !.toInt = IF r.fromIf = None THEN @ ELSE Device(r.fromIf)]

SrcFirewall(r, c) ==
    LET other == IF c.to # None /\ c.to.type = "zone" THEN r.toIf ELSE r.fromIf
        r1 == IF c.fromFwAny \/ c.toAny THEN r
              ELSE [r EXCEPT !.src = other.addr[r.ipv], !.toInt = Device(other)]
    IN  IF c.toAny /\ c.opt.outInt # None THEN [r1 EXCEPT !.src = r.fromIf.addr[r.ipv]] ELSE r1

Mac(h) == IF Can("mac") THEN h.mac ELSE None

Sources(r, c) ==
    LET host(h) == [addr |-> h.addr[r.ipv], mac |-> Mac(h), on |-> h.active]
        net(n, on) == << [addr |-> n.addr[r.ipv], mac |-> r.mac, on |-> on] >>
    IN  IF c.fromAny \/ c.fromFw THEN << [addr |-> r.src, mac |-> r.mac, on |-> TRUE] >>
        ELSE CASE c.from.type = "host" -> << host(c.from) >>
               [] c.from.type = "group" -> [n \in DOMAIN c.from.members |-> host(c.from.members[n])]
               [] c.from.type = "network" -> net(c.from, c.from.active)
               [] c.from.type = "zone" -> net(r.fromNet, c.from.active /\ r.fromNet.active)

FromSource(r, s, c) ==
    LET q == [r EXCEPT !.src = s.addr, !.mac = s.mac]
    IN  IF s.on THEN DstLoop(q, c) ELSE q

SrcLoop(r, c) ==
    LET r1 == IF c.fromFw THEN SrcFirewall(r, c) ELSE r
        list == Sources(r1, c)
    IN  Loop(LAMBDA q, x: FromSource(q, x, c), r1, list)

(***************************************************************************)
(* rulecreate_service_loop().  Protocols that create_rule_set_ports() does *)
(* not know keep the ports of the range before.                            *)
(***************************************************************************)

SetPorts(r, range) ==
    CASE range.proto \in {"tcp", "udp"} -> [r EXCEPT !.sport = range.sport, !.dport = range.dport]
      [] range.proto = "icmp" -> [r EXCEPT !.sport = None, !.dport = range.dport]
      [] range.proto \in {"gre", "esp", "ah"} -> [r EXCEPT !.sport = None, !.dport = None]
      [] OTHER -> r

SetProto(r, proto) == [r EXCEPT !.proto = proto, !.syn = proto = "tcp"]

OfOtherFamily(ipv, proto) == <<ipv, proto>> \in {<<6, "icmp">>, <<4, "icmp6">>}

\* the port of an option goes with a range by its place; the last one stays
NodeAt(ports, n) == IF ports = << >> THEN None ELSE ports[IF n > Len(ports) THEN Len(ports) ELSE n]

WithoutPorts(r) == [SetProto(r, None) EXCEPT !.sport = None, !.dport = None]
OfRange(r, c, p) ==
    SetProto(SetPorts([r EXCEPT !.portrange = p,
                                !.listenport = NodeAt(c.opt.listen, r.node),
                                !.remoteport = NodeAt(c.opt.remote, r.node)], p), p.proto)

ForRange(r, c, p) ==
    IF OfOtherFamily(r.ipv, p.proto) THEN [r EXCEPT !.portrange = p]
    ELSE [SrcLoop(OfRange(r, c, p), c) EXCEPT !.node = @ + 1]

ServiceLoop(r, c) ==
    LET list == c.service.ranges
    IN  CASE c.service = None -> SrcLoop(WithoutPorts(r), c)
          [] c.service # None /\ ~c.service.active -> r
          [] OTHER -> Loop(LAMBDA q, x: ForRange(q, c, x), [r EXCEPT !.node = 1], list)

(***************************************************************************)
(* The loops over the interfaces.                                          *)
(***************************************************************************)

\* shaping_shape_create_rule(): a class of the interface shape; the rate that
\* is not given is the default one
ShapeCreateRule(r, shape, of, class, rate) ==
    IF ~Shaped(shape) THEN r
    ELSE [r EXCEPT !.classes =
            QueueClass(@, [handle |-> shape.handle, class |-> class, device |-> shape.device,
                           parent |-> IF Shaped(of) /\ of.handle # shape.handle THEN of.handle ELSE 1,
                           rate |-> rate])]

ShapeRules(r, c) ==
    LET out(q) == IF ShapesOut(c.opt)
                  THEN ShapeCreateRule(q, q.toIf, q.fromIf, q.classOut, c.opt.bwIn) ELSE q
        in(q) == IF ShapesIn(c.opt)
                 THEN ShapeCreateRule(q, q.fromIf, q.toIf, q.classIn, c.opt.bwOut) ELSE q
    IN  in(out(r))

Usable(ipv, iface) ==
    /\ iface.active
    /\ ~(iface.dynamic /\ ~iface.up)
    /\ ipv = 6 => iface.v6

\* an interface named by an option is not asked whether it has IPv6
UsableOption(iface) == iface = None \/ Usable(4, iface)

\* nets: the networks a side passes by, with their interfaces
OfZone(z, list) == IF z.type = "zone" THEN list ELSE << NetworkOf(z) >>

\* the stops of a loop over the interfaces: net is None where there is no network
Stops(nets) ==
    LET of(n) == [i \in DOMAIN n.ifaces |-> [net |-> n, iface |-> n.ifaces[i]]]
    IN  FlattenSeq([k \in DOMAIN nets |-> of(nets[k])])

DstOption(c) == IF c.toFwAny \/ (c.toFw /\ c.fromAny) THEN c.opt.inInt ELSE c.opt.outInt
DstAny(c) == c.toFwAny \/ c.toAny \/ c.to = None
DstUsable(r, c, iface) ==
    IF DstAny(c) THEN UsableOption(iface) ELSE Usable(r.ipv, iface) /\ c.opt.outInt \in {None, iface}

DstIface(r, c, stop) ==
    LET r1 == IF stop.iface = None THEN [r EXCEPT !.toInt = None]
              ELSE [r EXCEPT !.toNet = IF DstAny(c) THEN @ ELSE stop.net,
                             !.toIf = stop.iface, !.toInt = Device(stop.iface)]
    IN  IF DstUsable(r, c, stop.iface) THEN ShapeRules(ServiceLoop(r1, c), c) ELSE r1

DstIfaceLoop(r, c) ==
    LET r1 == IF ~DstAny(c) /\ c.to.type = "zone" THEN [r EXCEPT !.toNets = @ \o c.to.nets] ELSE r
        stops == IF DstAny(c) THEN << [net |-> None, iface |-> DstOption(c)] >>
                 ELSE Stops(OfZone(c.to, r1.toNets))
    IN  Loop(LAMBDA q, x: DstIface(q, c, x), r1, stops)

SrcOption(c) == IF c.fromFwAny \/ (c.fromFw /\ c.toAny) THEN c.opt.outInt ELSE c.opt.inInt
SrcAny(c) == c.fromFwAny \/ c.fromAny \/ c.from = None
SrcUsable(r, c, iface) ==
    IF SrcAny(c) THEN UsableOption(iface) ELSE Usable(r.ipv, iface) /\ c.opt.inInt \in {None, iface}

SrcIface(r, c, stop) ==
    LET r1 == IF stop.iface = None THEN [r EXCEPT !.fromInt = None]
              ELSE [r EXCEPT !.fromNet = IF SrcAny(c) THEN @ ELSE stop.net,
                             !.fromIf = stop.iface, !.fromInt = Device(stop.iface)]
    IN  IF SrcUsable(r, c, stop.iface) THEN DstIfaceLoop(r1, c) ELSE r1

SrcIfaceLoop(r, c) ==
    LET r1 == IF ~SrcAny(c) /\ c.from.type = "zone" THEN [r EXCEPT !.fromNets = @ \o c.from.nets] ELSE r
        stops == IF SrcAny(c) THEN << [net |-> None, iface |-> SrcOption(c)] >>
                 ELSE Stops(OfZone(c.from, r1.fromNets))
    IN  Loop(LAMBDA q, x: SrcIface(q, c, x), r1, stops)

(***************************************************************************)
(* create_rule(): the record is cleared, then filled for one family, or    *)
(* for both when there is no ruleset.  handle: interfaces->shape_handle.   *)
(***************************************************************************)

EmptyRule(c, handle) ==
    [ipv |-> 4, action |-> Jump(None), queue |-> << >>, classes |-> << >>,
     src |-> Whole, dst |-> Whole, mac |-> None, fromInt |-> None, toInt |-> None,
     fromIf |-> None, toIf |-> None, fromNet |-> None, toNet |-> None,
     fromNets |-> << >>, toNets |-> << >>, proto |-> None, syn |-> FALSE,
     sport |-> None, dport |-> None, portrange |-> None, listenport |-> None, remoteport |-> None,
     node |-> 1, limit |-> 0, serverip |-> Whole,
     helper |-> IF c.service = None THEN None ELSE c.service.helper,
     classOut |-> IF Shapes(c.opt) THEN handle ELSE 0,
     classIn |-> IF Shapes(c.opt) THEN handle + 1 ELSE 0]

Ipv4Ipv6Loop(families, r, c) ==
    LET of(q, f) == IF f \in families THEN SrcIfaceLoop([q EXCEPT !.ipv = f], c) ELSE q
    IN  of(of(r, 4), 6)

CreateRule(families, c, handle) == Ipv4Ipv6Loop(families, EmptyRule(c, handle), c)

\* create_normal_rules() leaves out a rule if a part of it is not active,
\* create_rule() if it is not active itself
Creates(c) ==
    /\ c.active
    /\ c.from # None => c.from.active
    /\ c.to # None => c.to.active
    /\ c.service # None => c.service.active
=============================================================================
