--------------------------- MODULE MCRulePolicy ---------------------------
(***************************************************************************)
(* A firewall between a network lan (ethL) and the rest of the world       *)
(* (ethW).  Hosts a and b are in lan; w is outside.                        *)
(***************************************************************************)
EXTENDS RulePolicy

Iface(device, own, own6, number) ==
    [device |-> device, addr |-> [f \in {4, 6} |-> IF f = 4 THEN {own} ELSE own6],
     active |-> TRUE, dynamic |-> FALSE, up |-> TRUE, oldstyle |-> FALSE, alias |-> FALSE,
     v6 |-> own6 # {}, shape |-> TRUE, handle |-> number, bwIn |-> 100, bwOut |-> 80,
     tcpmss |-> TRUE, rpfilter |-> TRUE]
ethL == Iface("ethL", "fl", {"fl"}, 2)
ethW == Iface("ethW", "fw", {"fw"}, 3)
\* a second way to lan, which is down
ppp == [Iface("ppp", "fp", {}, 0) EXCEPT !.dynamic = TRUE, !.up = FALSE]
MCInterfaces == << ethL, ethW, ppp >>

Both(s) == [f \in {4, 6} |-> s]
Net(addr, ifaces, protect) ==
    [type |-> "network", active |-> TRUE, addr |-> Both(addr), ifaces |-> ifaces, protect |-> protect]
MCWhole == {"a", "b", "fl", "fw", "fp", "w", "x", "0", "255"}
lan == Net({"a", "b"}, << ppp, ethL >>, << [kind |-> "dhcp-server"] >>)
world == Net(MCWhole, << ethW >>, << [kind |-> "antispoof", danger |-> {"a", "b"}] >>)
Host(addr, mac, active) ==
    [type |-> "host", active |-> active, addr |-> Both({addr}), mac |-> mac, net |-> lan,
     ifaces |-> lan.ifaces]
hostA == Host("a", "macA", TRUE)
hostB == Host("b", None, TRUE)
hostOff == Host("b", None, FALSE)
group == [type |-> "group", active |-> TRUE, members |-> << hostA, hostOff >>, net |-> lan,
          ifaces |-> lan.ifaces]
zone == [type |-> "zone", active |-> TRUE, nets |-> << world >>, ifaces |-> << >>]
MCNetworks == << lan, world >>


Service(ranges) == [active |-> TRUE, ranges |-> ranges, helper |-> None, broadcast |-> FALSE]
web == Service(<< [proto |-> "tcp", sport |-> None, dport |-> "80"] >>)
dns == Service(<< [proto |-> "tcp", sport |-> None, dport |-> "53"],
                  [proto |-> "udp", sport |-> None, dport |-> "53"] >>)
ping == Service(<< [proto |-> "icmp", sport |-> None, dport |-> "echo"] >>)
helped == [web EXCEPT !.helper = "ftp"]

NoOpt == [log |-> FALSE, limit |-> 0, loglimit |-> 0, nfmark |-> 0, nfqueue |-> 0, queue |-> FALSE,
          listen |-> << >>, remote |-> << >>, redirectport |-> None, inInt |-> None, outInt |-> None,
          via |-> None, reject |-> None, chain |-> None, bwIn |-> 0, bwOut |-> 0, prio |-> 0]
Rule(action, from, to, service) ==
    [active |-> TRUE, action |-> action, from |-> from, to |-> to, service |-> service, opt |-> NoOpt]

Pool == {
    [Rule("accept", zone, Firewall, helped) EXCEPT !.opt.bwIn = 20, !.opt.bwOut = 20],
    Rule("accept", lan, world, web),
    Rule("accept", hostA, zone, dns),
    [Rule("accept", Everyone, Firewall, web) EXCEPT !.opt.inInt = ethL],
    Rule("accept", Everyone, Everyone, ping),
    [Rule("accept", group, Firewall, helped) EXCEPT !.opt.prio = 2],
    Rule("accept", Firewall, zone, None),
    Rule("accept", FirewallAny, Everyone, dns),
    Rule("drop", hostA, Everyone, None),
    [Rule("drop", Everyone, lan, web) EXCEPT !.opt.log = TRUE],
    [Rule("reject", lan, FirewallAny, dns) EXCEPT !.opt.reject = "tcp-reset", !.opt.log = TRUE],
    [Rule("queue", lan, world, web) EXCEPT !.opt.limit = 5, !.opt.log = TRUE, !.opt.loglimit = 2],
    [Rule("nfqueue", world, lan, None) EXCEPT !.opt.nfqueue = 2, !.opt.prio = 3],
    [Rule("accept", lan, zone, helped) EXCEPT !.opt.prio = 1, !.opt.nfmark = 7, !.opt.bwIn = 10, !.opt.bwOut = 90],
    [Rule("accept", Everyone, lan, dns) EXCEPT !.opt.prio = 2, !.active = FALSE],
    [Rule("accept", lan, Everyone, None) EXCEPT !.opt.prio = 2],
    [Rule("chain", Firewall, lan, ping) EXCEPT !.opt.chain = "MINE"],
    [Rule("portfw", world, hostA, web) EXCEPT !.opt.listen = << "81" >>],
    [Rule("portfw", Everyone, hostB, web) EXCEPT !.opt.listen = << "81" >>, !.opt.remote = << "53" >>, !.opt.queue = TRUE],
    [Rule("redirect", lan, Firewall, web) EXCEPT !.opt.redirectport = "53", !.opt.log = TRUE],
    [Rule("bounce", lan, hostB, web) EXCEPT !.opt.via = ethW],
    Rule("masq", lan, world, None),
    Rule("snat", Firewall, Firewall, None),
    Rule("log", Everyone, Everyone, None),
    Rule("accept", hostOff, world, None)
}
MCRuleLists == {<< d >> : d \in Pool} \union {<< d, e >> : d \in Pool, e \in Pool}

P(hook, in, out, src, dst, mac, proto, dport) ==
    { [ipv |-> f, hook |-> hook, in |-> in, out |-> out, src |-> src, dst |-> dst, mac |-> mac,
       proto |-> proto, flags |-> IF proto = "tcp" THEN "syn" ELSE "plain", sport |-> None,
       dport |-> dport, state |-> "NEW", mark |-> 0, helper |-> None, reverse |-> TRUE] : f \in {4, 6} }
Flow(proto, dport) ==
    P("FORWARD", "ethL", "ethW", "a", "w", "macA", proto, dport)
    \union P("FORWARD", "ethL", "ethW", "a", "w", "macB", proto, dport)
    \union P("FORWARD", "ethL", "ethW", "b", "w", "macB", proto, dport)
    \union P("FORWARD", "ethL", "ethW", "w", "w", "macB", proto, dport)
    \union P("FORWARD", "ethL", "ethW", "b", "x", "macB", proto, dport)
    \union P("FORWARD", "ethW", "ethL", "w", "b", None, proto, dport)
    \union P("INPUT", "ethL", None, "a", "fl", "macA", proto, dport)
    \union P("INPUT", "ethL", None, "b", "fw", "macB", proto, dport)
    \union P("INPUT", "ethW", None, "w", "fw", None, proto, dport)
    \union P("OUTPUT", None, "ethW", "fw", "w", None, proto, dport)
    \union P("OUTPUT", None, "ethW", "fl", "w", None, proto, dport)
    \union P("OUTPUT", None, "ethL", "fw", "b", None, proto, dport)
    \union P("OUTPUT", None, "ethL", "fl", "a", None, proto, dport)
MCPackets == Flow("tcp", "80") \union Flow("tcp", "81") \union Flow("udp", "53")
             \union {p \in Flow("icmp", "echo") : p.ipv = 4}

MCConf == [log_probes |-> TRUE, log_no_syn |-> TRUE, log_frag |-> TRUE, invalid_drop_enabled |-> TRUE,
           log_invalid |-> TRUE, log_blocklist |-> TRUE, use_syn_limit |-> TRUE,
           use_udp_limit |-> FALSE, log_policy |-> TRUE, log_policy_limit |-> 30]
MCLimitChoices == {[syn |-> 10, udp |-> 15], [syn |-> 10, udp |-> 0]}
MCBlocked == << "x" >>
MCMarks == 0..5
MCAnyHost == {"0"}
MCBroadcast == {"255"}
=============================================================================
