----------------------------- MODULE RulePolicy -----------------------------
(***************************************************************************)
(* What the rules of the user mean, without iptables: a rule has a source, *)
(* a destination and a service, and the first rule that covers a new       *)
(* connection decides.  The ruleset that RulesetCreate makes must do that. *)
(***************************************************************************)
EXTENDS RulesetCreate, FiniteSets

CONSTANT Packets    \* the first packets of connections, at the hook they pass

PacketFields == {"ipv", "hook", "in", "out", "src", "dst", "mac", "proto", "flags",
                 "sport", "dport", "state", "mark", "helper"}
\* packets of the loopback interface are not asked about
ASSUME PacketsAssumption ==
    \A p \in Packets:
        /\ PacketFields \subseteq DOMAIN p
        /\ p.hook \in {"INPUT", "OUTPUT", "FORWARD"} /\ p.state = "NEW"
        /\ p.flags \in Flags /\ p.src \in Whole /\ p.dst \in Whole
        /\ "lo" \notin {None, p.in, p.out}

(***************************************************************************)
(* Which packets a rule covers.                                            *)
(***************************************************************************)

DevicesOf(net) == {net.ifaces[n].device : n \in {k \in DOMAIN net.ifaces : InUse(net.ifaces[k])}}
Members(z) == {z.members[n] : n \in DOMAIN z.members}
Nets(z) == {z.nets[n] : n \in DOMAIN z.nets}

\* addr, dev: the address in question and the device on that side
OfHost(h, addr, dev, mac) ==
    h.active /\ addr \in h.addr[ipv] /\ dev \in DevicesOf(h.net) /\ mac \in {h.mac, None}
OfNetwork(n, addr, dev) == n.active /\ addr \in n.addr[ipv] /\ dev \in DevicesOf(n)
OfZoneData(z, addr, dev, mac) ==
    /\ z.active
    /\ CASE z.type = "host" -> OfHost(z, addr, dev, mac)
         [] z.type = "group" -> \E h \in Members(z): OfHost(h, addr, dev, mac)
         [] z.type = "network" -> OfNetwork(z, addr, dev)
         [] z.type = "zone" -> \E n \in Nets(z): OfNetwork(n, addr, dev)

Own(dev) == UNION {Interfaces[n].addr[ipv] : n \in {k \in DOMAIN Interfaces : Interfaces[k].device = dev}}
Through(option, dev) == option = None \/ option.device = dev

\* "firewall" is the address of the firewall on the way to the other side;
\* "firewall(any)", and the firewall opposite to "any", are all its addresses
CoversFrom(d, p) ==
    CASE d.from.type = "any" -> Through(d.opt.inInt, p.in) \/ p.hook = "OUTPUT"
      [] IsFirewall(d.from) ->
            /\ p.hook = "OUTPUT" /\ Through(d.opt.outInt, p.out)
            /\ ((d.from.type = "firewall" /\ d.to.type # "any") \/ d.opt.outInt # None) => p.src \in Own(p.out)
      [] OTHER -> p.hook # "OUTPUT" /\ OfZoneData(d.from, p.src, p.in, p.mac)
CoversTo(d, p) ==
    CASE d.to.type = "any" -> TRUE
      [] IsFirewall(d.to) ->
            /\ p.hook = "INPUT"
            /\ ((d.to.type = "firewall" /\ d.from.type # "any") \/ d.opt.inInt # None) => p.dst \in Own(p.in)
      [] OTHER -> p.hook # "INPUT" /\ OfZoneData(d.to, p.dst, p.out, None)
CoversService(d, p) ==
    \/ d.service = None
    \/ /\ d.service.active
       /\ \E n \in DOMAIN d.service.ranges:
             LET range == d.service.ranges[n]
             IN  p.proto = range.proto /\ Given(range.sport, p.sport) /\ Given(range.dport, p.dport)

Covers(d, p) == d.active /\ CoversFrom(d, p) /\ CoversTo(d, p) /\ CoversService(d, p)

(***************************************************************************)
(* The verdict that the rules ask for.                                     *)
(***************************************************************************)

\* what new connections of a protocol are held to by SYNLIMIT and UDPLIMIT
OverLimit(p) == IF Can("limit") /\ \/ p.proto = "tcp" /\ Conf.use_syn_limit
                                   \/ p.proto = "udp" /\ Conf.use_udp_limit
                THEN {Jump("DROP")} ELSE {}
Asked(d, p) ==
    CASE d.action = "accept" -> {Jump("ACCEPT")} \union OverLimit(p)
      [] d.action = "queue" -> {Jump("QUEUE")} \union OverLimit(p)
      [] d.action = "nfqueue" -> {Set("NFQUEUE", d.opt.nfqueue)} \union OverLimit(p)
      [] d.action = "drop" -> {Jump("DROP")}
      [] d.action = "reject" -> {IF d.opt.reject = "tcp-reset"
                                 THEN IF p.proto = "tcp" THEN Set("REJECT", "tcp-reset") ELSE Jump("REJECT")
                                 ELSE IF ipv = 4 THEN Set("REJECT", d.opt.reject) ELSE Jump("REJECT")}
      [] d.action = "chain" -> {Jump(d.opt.chain)}

Decides(d) == d.action \in {"accept", "queue", "nfqueue", "drop", "reject", "chain"}

\* a rule with a limit decides or not
Expected(p) ==
    LET decide(S, d) ==
            IF Onward \notin S \/ ~Decides(d) \/ ~Covers(d, p) THEN S
            ELSE (S \ {Onward}) \union Asked(d, p) \union (IF LimitOf(d.opt) > 0 THEN {Onward} ELSE {})
        S == FoldLeft(decide, {Onward}, rules)
    IN  (S \ {Onward}) \union (IF Onward \in S THEN {Jump("DROP")} ELSE {})

(***************************************************************************)
(* The properties, of a ruleset that is complete.                          *)
(***************************************************************************)

Done == stage = "done"
Blocks(p) == ipv = 4 /\ \E n \in DOMAIN Blocked: Blocked[n] \in {p.src, p.dst}
Here == {p \in Packets : p.ipv = ipv}
Translating(d) == d.action \in {"portfw", "redirect", "bounce"}
\* rules whose marks can differ where one of them lets a packet through by its limit
OneMark == Cardinality({d.action : d \in {rules[n] : n \in {k \in DOMAIN rules : rules[k].action \in {"accept", "queue", "nfqueue"}}}}) <= 1

\* The first rule that covers a new connection decides about it, and what no
\* rule covers is dropped: the nested loops of rules.c, the marks in the mangle
\* table and the targets NEWACCEPT, NEWQUEUE and NEWNFQUEUE come to just that.
\* Rules that translate addresses have a property of their own; two rules with
\* different marks are not compared if the first has a limit (see the README).
PolicyExact ==
    Done /\ (\A n \in DOMAIN rules: ~Translating(rules[n]))
         /\ (OneMark \/ \A n \in DOMAIN rules: LimitOf(rules[n].opt) = 0)
    => \A p \in Here: ~Blocks(p) => Verdict(lines, p) = Expected(p)

Answer(p) ==
    [p EXCEPT !.hook = CASE p.hook = "INPUT" -> "OUTPUT" [] p.hook = "OUTPUT" -> "INPUT" [] OTHER -> p.hook,
              !.in = p.out, !.out = p.in, !.src = p.dst, !.dst = p.src, !.mac = None,
              !.sport = p.dport, !.dport = p.sport]
Known(p) == [p EXCEPT !.state = "ESTABLISHED", !.flags = IF @ = "syn" THEN "synack" ELSE @]

\* Whoever let the first packet of a connection through gets the rest of it, in
\* both directions: ACCEPT, QUEUE and the same queue of NFQUEUE (the marks of
\* createrule.c against the conntrack lines of pre_rules_conntrack() and
\* create_estrelnfqueue_rules()).  A connection that was let through by nobody
\* has no mark, and no later packet of it passes.
FollowUp ==
    Done => \A p \in Here:
        LET q == Marked(lines, p)
        IN  /\ \A v \in Verdicts(lines, q):
                  v.t \in {"ACCEPT", "QUEUE", "NFQUEUE"} =>
                      /\ Verdict(lines, Known(q)) = {v}
                      /\ Verdict(lines, Known(Answer(q))) = {v}
            /\ Verdict(lines, Known(p)) = {Jump("DROP")}

\* No packet from or to an address of the blocklist opens a connection,
\* whatever the rules say (vuurmuur.hlp: "loaded before most other rules").
BlockedOut ==
    Done => \A p \in Here: Blocks(p) => Verdict(lines, p) = {Jump("DROP")}

LogTargets == {"LOG", "NFLOG"}
FilterOf(queue, chain) == InChain(queue, "filter", chain)
LogsAt(l, p) == Hits(l, p.hook, p) /\ l.target.t \in LogTargets
DecidesAt(l, p) == Hits(l, p.hook, p) /\ l.target.t \notin LogTargets
\* A rule that logs logs every packet that it decides about: each line of the
\* filter table that gives its verdict comes after a line that logs the same.
LogsWhatItDecides ==
    Done => \A n \in DOMAIN rules: rules[n].opt.log /\ Can("log") /\ Decides(rules[n]) =>
        \A p \in Here: \A k \in DOMAIN made[n].lines:
            DecidesAt(made[n].lines[k], p) => \E j \in 1..(k - 1): LogsAt(made[n].lines[j], p)

\* A connection that a rule redirects to another address or port is also let
\* through there: the packet, as the line of the nat table leaves it, is
\* accepted or queued by a line of the same rule (PORTFW, REDIRECT, BOUNCE).
Sent(p, l) ==
    IF l.target.t = "DNAT"
    THEN [p EXCEPT !.hook = "FORWARD", !.dst = CHOOSE a \in l.target.v[1]: TRUE, !.out = "ethL",
                   !.dport = IF l.target.v[2] = None THEN @ ELSE l.target.v[2]]
    ELSE [p EXCEPT !.dport = l.target.v]
NatPaired ==
    Done => \A n \in DOMAIN rules: Translating(rules[n]) /\ made[n].lines # << >> =>
        \A p \in Here: p.hook = "INPUT" =>
            LET nat == SelectSeq(InChain(made[n].lines, "nat", "PREROUTING"), LAMBDA l: Matches(l, p))
                q == Sent(p, nat[1])
                hits == SelectSeq(FilterOf(made[n].lines, q.hook), LAMBDA l: Matches(l, q))
            IN  nat = << >> \/ \E k \in DOMAIN hits: hits[k].target = AcceptTarget([opt |-> rules[n].opt])

\* The commands of tc can all be carried out: no class is made twice on a
\* device, and the parent of each is there before it (shape.c numbers
\* interfaces, default classes and rules from one counter).
Called(k, device, handle_, class) == k.device = device /\ k.handle = handle_ /\ k.class = class
ClassesMade ==
    \A n \in DOMAIN classes:
        LET k == classes[n]
        IN  /\ k.parent = 0 \/ \E j \in 1..(n - 1): Called(classes[j], k.device, k.handle, k.parent)
            /\ \A j \in DOMAIN classes: Called(classes[j], k.device, k.handle, k.class) => j = n

\* Traffic of a rule that is shaped in both directions is sent to a class that
\* exists, by the CLASSIFY lines of the same rule.  The answers that a helper of
\* the firewall gives are left out: create_rule_input() names the class of the
\* other direction (createrule.c:878), which need not be made.
Classifies(l) == l.table = "mangle" /\ l.target.t = "CLASSIFY"
OfHelper(l) == l.chain = "SHAPEOUT" /\ l.helper # None
SentToAClass(l) ==
    \E k \in DOMAIN classes: <<classes[k].handle, classes[k].class>> = l.target.v
ShapesBoth(opt) == ShapesIn(opt) /\ ShapesOut(opt)
ClassesUsed ==
    \A n \in DOMAIN rules: ShapesBoth(rules[n].opt) =>
        \A j \in DOMAIN made[n].lines:
            LET l == made[n].lines[j]
            IN  Classifies(l) /\ ~(OfHelper(l) /\ Enters(caches[n])) => SentToAClass(l)

\* Both: what tc is told and what iptables is told fit together.
ClassesSound == Done => ClassesMade /\ ClassesUsed
=============================================================================
