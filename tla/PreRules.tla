------------------------------ MODULE PreRules ------------------------------
(***************************************************************************)
(* The lines that do not come from the rules of the user: pre_rules(),     *)
(* create_interface_rules(), create_network_protect_rules(),               *)
(* create_block_rules(), the chains of NFQUEUE and post_rules() of         *)
(* createrule.c.                                                           *)
(*                                                                         *)
(* The source calls every function for IPv4 and then for IPv6, and         *)
(* process_rule() drops what is not of the family of the ruleset.  Here    *)
(* the family is the parameter ipv, and an operator returns its lines.     *)
(***************************************************************************)
EXTENDS RuleLines

CONSTANT Conf   \* the fields of struct vuurmuur_config that these functions read

Chains == << "INPUT", "OUTPUT", "FORWARD" >>
InAll(ipv, match, target) ==
    [i \in 1..3 |-> Line(ipv, "filter", Chains[i], match, Jump(target))]

(***************************************************************************)
(* process_rule(): every chain of a ruleset has a list of lines; a line    *)
(* of an unknown chain is refused.  The shaping chains are those of IPv4.  *)
(***************************************************************************)

FilterChains == {"INPUT", "OUTPUT", "FORWARD", "BLOCK", "BLOCKLIST", "BADTCP", "ANTISPOOF",
                 "SYNLIMIT", "UDPLIMIT", "NEWACCEPT", "NEWQUEUE", "NEWNFQUEUE", "ESTRELNFQUEUE",
                 "TCPRESET", "ACC"}
KnownChains(ipv) ==
    [filter |-> FilterChains,
     mangle |-> {"PREROUTING", "INPUT", "FORWARD", "OUTPUT", "POSTROUTING"}
                \union (IF ipv = 4 THEN {"SHAPEIN", "SHAPEOUT", "SHAPEFW"} ELSE {}),
     nat |-> {"PREROUTING", "OUTPUT", "POSTROUTING"},
     raw |-> {"PREROUTING"}]
ProcessRule(ipv, l) == l.chain \in KnownChains(ipv)[l.table]

(***************************************************************************)
(* Logging.  A probe is logged at most once a second; the limit is left    *)
(* out when the kernel has none.                                           *)
(***************************************************************************)

LogJump == IF RuleNflog THEN "NFLOG" ELSE "LOG"
Seldom == [limit |-> IF Can("limit") THEN 1 ELSE 0]

\* a log line before a line that drops, in all three chains
DropAll(ipv, match, logs) ==
    Only(logs /\ Can("log"), InAll(ipv, match ++ Seldom, LogJump)) \o InAll(ipv, match, "DROP")

(***************************************************************************)
(* The functions of pre_rules(), in its order.                             *)
(***************************************************************************)

Hooks == [mangle |-> << "PREROUTING", "INPUT", "FORWARD", "POSTROUTING", "OUTPUT" >>,
          filter |-> << "INPUT", "FORWARD", "OUTPUT" >>,
          nat |-> << "PREROUTING", "POSTROUTING", "OUTPUT" >>]
PreVrmr(ipv) ==
    LET jumps(table) == [i \in DOMAIN Hooks[table] |->
                            Line(ipv, table, Hooks[table][i], << >>, Jump("PRE-VRMR"))]
    IN  Only(Can("mangle"), jumps("mangle")) \o jumps("filter")
        \o Only(ipv = 4 /\ Can("nat"), jumps("nat"))

PreShape(ipv) ==
    LET to(chain, shape) == Line(4, "mangle", chain, << >>, Jump(shape))
    IN  Only(ipv = 4 /\ Can("mangle"),
             << to("INPUT", "SHAPEIN"), to("OUTPUT", "SHAPEOUT"), to("FORWARD", "SHAPEFW") >>)

Loopback(ipv) ==
    << Line(ipv, "filter", "INPUT", [in |-> "lo"], Jump("ACCEPT")),
       Line(ipv, "filter", "OUTPUT", [out |-> "lo"], Jump("ACCEPT")) >>

\* one chain ACC-<device> with two lines that count, entered from four places
InterfaceCounters(ipv, interfaces) ==
    LET counts(i) == i.active /\ i.addr[4] # {} /\ i.device # None /\ ~i.alias
        of(i) == LET in == [in |-> i.device]
                     out == [out |-> i.device]
                     line(chain, match, t) == Line(4, "filter", chain, match, Set(t, i.device))
                 IN  << line("ACC", out, "RETURN"), line("ACC", in, "RETURN"),
                        line("INPUT", in, "ACC"), line("OUTPUT", out, "ACC"),
                        line("FORWARD", in, "ACC"), line("FORWARD", out, "ACC") >>
    IN  FlattenSeq([n \in DOMAIN interfaces |->
                       Only(ipv = 4 /\ counts(interfaces[n]), of(interfaces[n]))])

\* flags of a probe never go together with those of a good packet
BadPackets(ipv) ==
    LET all == << "none", "synfin", "synrst", "finrst", "fin", "psh", "urg" >>
    IN  FlattenSeq([n \in DOMAIN all |->
                       DropAll(ipv, [proto |-> "tcp", flags |-> {all[n]}], Conf.log_probes)])
NoSyn(ipv) == DropAll(ipv, [proto |-> "tcp", flags |-> Flags \ {"syn"}] ++ InState({"NEW"}),
                      Conf.log_no_syn)
Fragments(ipv) == Only(ipv = 4, DropAll(4, [flags |-> {"fragment"}], Conf.log_frag))

\* the lines of SYNLIMIT and UDPLIMIT; a limit of 0 is an error
LimitRules(ipv, chain, use, limit) ==
    LET line(match, t) == Line(ipv, "filter", chain, match, Jump(t))
    IN  Only(Can("limit") /\ limit > 0 /\ use,
             << line([limit |-> limit], "RETURN") >>
             \o Only(Can("log"), << line([limit |-> 1], LogJump) >>)
             \o << line(<< >>, "DROP") >>)
UpdateSynlimit(ipv, limits) == LimitRules(ipv, "SYNLIMIT", Conf.use_syn_limit, limits.syn)
UpdateUdplimit(ipv, limits) == LimitRules(ipv, "UDPLIMIT", Conf.use_udp_limit, limits.udp)

\* NEWACCEPT, NEWQUEUE: the limits, then the verdict, for connections of a mark
NewTarget(ipv, chain, mark, verdict) ==
    LET line(match, t) == Line(ipv, "filter", chain, match ++ mark, Jump(t))
    IN  << line([proto |-> "tcp", flags |-> {"syn"}], "SYNLIMIT"),
           line([proto |-> "udp"] ++ InState({"NEW"}), "UDPLIMIT"), line(<< >>, verdict) >>
\* "-m connmark" is a capability of each family
MatchConnmark(ipv) == Can(IF ipv = 4 THEN "match_connmark" ELSE "match_ip6_connmark")
NewAccept(ipv) ==
    NewTarget(ipv, "NEWACCEPT", [marks |-> IF MatchConnmark(ipv) THEN {1} ELSE None], "ACCEPT")
NewQueue(ipv) ==
    Only(Can("queue") /\ MatchConnmark(4), NewTarget(ipv, "NEWQUEUE", [marks |-> {2}], "QUEUE"))

Tcpmss(ipv, interfaces) ==
    LET of(i) == Line(ipv, "filter", "FORWARD",
                      [out |-> i.device, proto |-> "tcp", flags |-> {"syn", "synack", "synfin"}],
                      Jump("TCPMSS"))
        clamps(i) == i.tcpmss /\ ~i.alias /\ (ipv = 6 => i.v6)
    IN  Only(Can(IF ipv = 4 THEN "tcpmss" ELSE "ip6_tcpmss"),
             FlattenSeq([n \in DOMAIN interfaces |-> Only(clamps(interfaces[n]), << of(interfaces[n]) >>)]))

Nfqueue(ipv) ==
    Only(Can("nfqueue") /\ MatchConnmark(4),
         InAll(ipv, InState({"ESTABLISHED", "RELATED"}) ++ [marks |-> Marks \ {0}], "ESTRELNFQUEUE"))

\* mutant: whatever has a state gets through, by whatever mark
Conntrack_Unmarked(ipv) ==
    InAll(ipv, InState({"ESTABLISHED"}), "ACCEPT") \o InAll(ipv, InState({"RELATED"}), "NEWACCEPT")

Conntrack(ipv) ==
    LET marked(m) == IF MatchConnmark(ipv) THEN [marks |-> {m}] ELSE << >>
        of(m, known, related) == InAll(ipv, marked(m) ++ InState({"ESTABLISHED"}), known)
                                 \o InAll(ipv, marked(m) ++ InState({"RELATED"}), related)
    IN  of(1, "ACCEPT", "NEWACCEPT")
        \o Only(Can(IF ipv = 4 THEN "queue" ELSE "ip6_queue") /\ MatchConnmark(ipv), of(2, "QUEUE", "NEWQUEUE"))

ConntrackInvalid(ipv) ==
    LET of(chain) == Only(Conf.log_invalid /\ Can("log"),
                          << Line(ipv, "filter", chain, InState({"INVALID"}) ++ Seldom, Jump(LogJump)) >>)
                     \o << Line(ipv, "filter", chain, InState({"INVALID"}), Jump("DROP")) >>
    IN  Only(Conf.invalid_drop_enabled, of("INPUT") \o of("OUTPUT") \o of("FORWARD"))

Blocklist(ipv) ==
    LET block(match, t) == Line(4, "filter", "BLOCK", match, Jump(t))
    IN  Only(ipv = 4,
             InAll(4, << >>, "BLOCKLIST")
             \o Only(Conf.log_blocklist /\ Can("log"), << block(Seldom, LogJump) >>)
             \o << block(<< >>, "DROP") >>)

Tcpreset(ipv) ==
    << Line(ipv, "filter", "TCPRESET", [proto |-> "tcp"], Set("REJECT", "tcp-reset")),
       Line(ipv, "filter", "TCPRESET", << >>, Jump("REJECT")) >>

Antispoof(ipv) == Only(ipv = 4, InAll(4, << >>, "ANTISPOOF"))
IcmpIpv6(ipv) == Only(ipv = 6, InAll(6, [proto |-> "icmp6"], "ACCEPT"))

Before(ipv, interfaces) ==
    PreVrmr(ipv) \o PreShape(ipv) \o Loopback(ipv) \o InterfaceCounters(ipv, interfaces)
Protect(ipv, limits) ==
    BadPackets(ipv) \o NoSyn(ipv) \o Fragments(ipv)
    \o UpdateSynlimit(ipv, limits) \o UpdateUdplimit(ipv, limits) \o NewAccept(ipv)
AfterProtect(ipv, interfaces) ==
    Tcpmss(ipv, interfaces) \o NewQueue(ipv) \o Nfqueue(ipv) \o Conntrack(ipv) \o ConntrackInvalid(ipv)
    \o Blocklist(ipv) \o Tcpreset(ipv) \o Antispoof(ipv) \o IcmpIpv6(ipv)
\* -1 before anything is created, if a limit in use or not is 0
PreRulesWork(limits) == Can("limit") => limits.syn > 0 /\ limits.udp > 0
PreRulesLines(ipv, interfaces, limits) ==
    Before(ipv, interfaces) \o Protect(ipv, limits) \o AfterProtect(ipv, interfaces)

(***************************************************************************)
(* Protection of interfaces and networks.  Their limit is always written,  *)
(* also where the kernel has none.                                         *)
(***************************************************************************)

InUse(i) == i.active /\ ~(i.dynamic /\ ~i.up)

\* packets that did not come in by the interface of the way back
Rpfilter(ipv, i) ==
    LET line(match, t) == Line(ipv, "raw", "PREROUTING", [in |-> i.device, reverse |-> {FALSE}] ++ match, Jump(t))
        cap == IF ipv = 4 THEN Can("rpfilter") ELSE i.v6 /\ Can("ip6_rpfilter")
    IN  Only(~i.oldstyle /\ InUse(i) /\ cap,
             Only(ipv = 6 \/ Can(IF RuleNflog THEN "nflog" ELSE "log"), << line([limit |-> 1], LogJump) >>)
             \o << line(<< >>, "DROP") >>)
InterfaceRules(ipv, interfaces) ==
    FlattenSeq([n \in DOMAIN interfaces |-> Only(interfaces[n].rpfilter, Rpfilter(ipv, interfaces[n]))])

\* danger: the set of addresses that no packet of the network may bear; an
\* interface of the old style has no device, its own address stands for it
AntispoofRule(danger, i) ==
    LET drop(match) == Only(Can("log"), << Line(4, "filter", "ANTISPOOF", match ++ [limit |-> 1], Jump(LogJump)) >>)
                       \o << Line(4, "filter", "ANTISPOOF", match, Jump("DROP")) >>
    IN  Only(InUse(i),
             IF i.oldstyle
             THEN drop([src |-> danger, dst |-> i.addr[4]]) \o drop([src |-> i.addr[4], dst |-> danger])
             ELSE drop([in |-> i.device, src |-> danger]) \o drop([out |-> i.device, dst |-> danger]))

CONSTANTS AnyHost,    \* {0.0.0.0}
          Broadcast   \* {255.255.255.255}
Dhcp(chain, i, src, sport, dst, dport) ==
    << Line(4, "filter", chain,
            [proto |-> "udp", src |-> src, sport |-> sport, dst |-> dst, dport |-> dport]
            ++ (IF chain = "INPUT" THEN [in |-> i.device] ELSE [out |-> i.device]), Jump("ACCEPT")) >>

DhcpServer(net, i) ==
    Only(~i.oldstyle /\ i.device # None,
         Dhcp("INPUT", i, AnyHost, "68", Broadcast, "67")
         \o Only(net # {}, Dhcp("INPUT", i, net, "68", Broadcast, "67"))
         \o Dhcp("OUTPUT", i, AnyHost, "67", Broadcast, "68")
         \o Only(net # {} /\ i.addr[4] # {},
                 Dhcp("OUTPUT", i, i.addr[4], "67", net, "68") \o Dhcp("INPUT", i, net, "68", i.addr[4], "67"))
         \o Only(i.addr[4] # {},
                 Dhcp("INPUT", i, AnyHost, "68", i.addr[4], "67")
                 \o Dhcp("OUTPUT", i, i.addr[4], "67", Broadcast, "68")))

DhcpClient(net, i) ==
    Only(i.dynamic /\ ~i.oldstyle /\ i.device # None,
         Dhcp("OUTPUT", i, AnyHost, "68", Broadcast, "67") \o Dhcp("INPUT", i, AnyHost, "67", Broadcast, "68")
         \o Only(net # {},
                 Dhcp("INPUT", i, net, "67", Broadcast, "68") \o Dhcp("OUTPUT", i, AnyHost, "68", net, "67")
                 \o Dhcp("INPUT", i, net, "67", net, "68") \o Dhcp("OUTPUT", i, net, "68", net, "67")))

\* the rules of a network, active or not, over its interfaces
NetworkProtectRules(ipv, networks) ==
    LET rule(n, p, i) == CASE p.kind = "antispoof" -> AntispoofRule(p.danger, i)
                           [] p.kind = "dhcp-client" -> DhcpClient(n.addr[4], i)
                           [] p.kind = "dhcp-server" -> DhcpServer(n.addr[4], i)
        rules(n, p) == FlattenSeq([k \in DOMAIN n.ifaces |-> rule(n, p, n.ifaces[k])])
        of(n) == FlattenSeq([k \in DOMAIN n.protect |-> rules(n, n.protect[k])])
    IN  FlattenSeq([k \in DOMAIN networks |-> Only(ipv = 4, of(networks[k]))])

\* mutant: only what comes from a blocked address
BlockRules_Source(ipv, blocklist) ==
    LET block(match) == Line(4, "filter", "BLOCKLIST", match, Jump("BLOCK"))
    IN  FlattenSeq([n \in DOMAIN blocklist |-> Only(ipv = 4, << block([src |-> {blocklist[n]}]) >>)])

BlockRules(ipv, blocklist) ==
    LET block(match) == Line(4, "filter", "BLOCKLIST", match, Jump("BLOCK"))
    IN  FlattenSeq([n \in DOMAIN blocklist |->
                       Only(ipv = 4, << block([src |-> {blocklist[n]}]), block([dst |-> {blocklist[n]}]) >>)])

(***************************************************************************)
(* The chains of NFQUEUE: one pair of lines for every queue of the rules.  *)
(***************************************************************************)

\* queues: the numbers of the nfqueue rules, each once
QueuesOf(rules) ==
    LET numbers(n) == {rules[k].opt.nfqueue : k \in {k \in 1..n : rules[k].action = "nfqueue"}}
    IN  FlattenSeq([n \in DOMAIN rules |->
                       Only(rules[n].action = "nfqueue" /\ rules[n].opt.nfqueue \notin numbers(n - 1),
                            << rules[n].opt.nfqueue >>)])
OfQueue(ipv, chain, n, s, target) ==
    Line(ipv, "filter", chain, InState(s) ++ [marks |-> {n + NFQ_MARK_BASE}], target)

EstrelNfqueueRules(ipv, rules) ==
    LET queues == QueuesOf(rules)
        of(n) == << OfQueue(ipv, "ESTRELNFQUEUE", n, {"ESTABLISHED"}, Set("NFQUEUE", n)),
                    OfQueue(ipv, "ESTRELNFQUEUE", n, {"RELATED"}, Jump("NEWNFQUEUE")) >>
    IN  FlattenSeq([k \in DOMAIN queues |-> of(queues[k])])

NewNfqueueRules(ipv, rules) ==
    LET limits == << Line(ipv, "filter", "NEWNFQUEUE", [proto |-> "tcp", flags |-> {"syn"}], Jump("SYNLIMIT")),
                     Line(ipv, "filter", "NEWNFQUEUE", [proto |-> "udp"] ++ InState({"NEW", "RELATED"}),
                          Jump("UDPLIMIT")) >>
        queues == QueuesOf(rules)
    IN  limits \o [k \in DOMAIN queues |->
                      OfQueue(ipv, "NEWNFQUEUE", queues[k], {"NEW", "RELATED"}, Set("NFQUEUE", queues[k]))]

(***************************************************************************)
(* post_rules(): what no rule decided is logged.                           *)
(***************************************************************************)

PostRules(ipv) ==
    Only(Conf.log_policy /\ Can("log"),
         InAll(ipv, [limit |-> IF Can("limit") THEN Conf.log_policy_limit ELSE 0], LogJump))

\* net.ipv4.ip_forward and net.ipv6.conf.all.forwarding: one call sets both
Forwarding(forwardRules) == [f \in {4, 6} |-> forwardRules]
=============================================================================
