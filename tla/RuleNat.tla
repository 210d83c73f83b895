------------------------------ MODULE RuleNat ------------------------------
(***************************************************************************)
(* The rules that translate addresses (createrule.c) and the calls that    *)
(* one pair of source and destination of a rule gives rise to (rules.c).   *)
(***************************************************************************)
EXTENDS RuleLines

\* IPv6 has no such rules at all
Translations == {"MASQ", "SNAT", "PORTFW", "REDIRECT", "DNAT", "BOUNCE"}
CapsOf(ruletype) ==
    CASE ruletype = "MASQ" -> {"masquerade"}
      [] ruletype = "SNAT" -> {"snat"}
      [] ruletype \in {"PORTFW", "DNAT"} -> {"dnat"}
      [] ruletype = "REDIRECT" -> {"redirect"}
      [] ruletype = "BOUNCE" -> {"dnat", "snat"}
Translates(r, c) == r.ipv = 4 /\ \A cap \in CapsOf(c.ruletype): Can(cap)

CreateRuleMasq(r, c) ==
    << Line(4, "nat", "POSTROUTING",
                 [out |-> r.toInt, proto |-> r.proto, src |-> r.src, dst |-> r.dst]
                 ++ WithSyn(r) ++ Ports(r) ++ Limit(r), r.action) >>

CreateRuleSnat(r, c) ==
    << Line(4, "nat", "POSTROUTING",
                 [out |-> r.toInt, proto |-> r.proto, src |-> r.src, dst |-> r.dst]
                 ++ WithSyn(r) ++ Ports(r) ++ Limit(r),
                 IF r.action.t = "SNAT" THEN Set("SNAT", r.serverip) ELSE r.action) >>

(***************************************************************************)
(* Port forwarding.  Three ports can differ: the one the firewall listens  *)
(* at (listenport, else that of the service), the one of the service, and  *)
(* the one of the host (remoteport; else that of the service if there is a *)
(* listenport; else the one the packet came with).                         *)
(***************************************************************************)

ListenDport(r) == IF r.listenport # None THEN r.listenport ELSE r.dport

\* rule->remoteip: where DNAT sends a packet to, port None being "as it came"
Remote(r, c) ==
    <<c.to.addr[4],
      IF r.remoteport # None THEN r.remoteport
      ELSE IF c.opt.listen # << >> /\ r.portrange # None THEN r.portrange.dport
      ELSE None>>

\* mutant: a listenport without a remoteport is taken for the port of the host
ForwardDport_Listen(r, c) == IF r.remoteport # None THEN r.remoteport ELSE ListenDport(r)

\* the destination port of the line in FORWARD
ForwardDport(r, c) ==
    IF r.remoteport # None THEN r.remoteport
    ELSE IF c.opt.listen # << >> /\ c.opt.remote = << >> /\ r.portrange # None
         THEN r.portrange.dport
         ELSE ListenDport(r)

Prerouting(r, dst, dport, target) ==
    Line(4, "nat", "PREROUTING",
         [in |-> r.fromInt, proto |-> r.proto, src |-> r.src, dst |-> dst, mac |-> r.mac,
          sport |-> r.sport, dport |-> dport]
         ++ WithSyn(r) ++ Limit(r) ++ InState({"NEW"}), target)

\* the action of the line in FORWARD or INPUT that belongs to a translation
AcceptTarget(c) == Jump(IF c.opt.queue THEN "NEWQUEUE" ELSE "NEWACCEPT")

CreateRulePortfw(r, c) ==
    LET dnat == IF r.action.t = "DNAT" THEN Set("DNAT", Remote(r, c)) ELSE r.action
    IN  IF Logs(r) THEN << >> ELSE << Prerouting(r, r.serverip, ListenDport(r), dnat) >>

\* what create_rule_portfw() hands to create_rule_forward()
PortfwForward(r, c) ==
    [r EXCEPT !.action = IF @.t = "DNAT" THEN AcceptTarget(c) ELSE @, !.dport = ForwardDport(r, c)]

CreateRuleDnat(r, c) ==
    LET dnat == IF r.action.t = "DNAT" THEN Set("DNAT", Remote(r, c)) ELSE r.action
    IN  << Prerouting(r, r.serverip, ListenDport(r), dnat) >>

CreateRuleRedirect(r, c) ==
    IF Logs(r) THEN << >> ELSE << Prerouting(r, r.dst, r.dport, r.action) >>

\* the line in INPUT has the port of the redirection; if the rule is not to the
\* firewall, its destination is the address the packet then has
RedirectInput(r, c) ==
    [r EXCEPT !.dport = c.opt.redirectport,
              !.action = IF Logs(r) THEN @ ELSE AcceptTarget(c),
              !.dst = IF c.toFw THEN @ ELSE IF c.fromAny THEN Whole ELSE r.fromIf.addr[4]]

\* traffic of a network to the outside address of a server of its own: towards
\* the server, and with the source changed, so that the answers come back here
CreateRuleBounce(r, c) ==
    LET via == c.opt.via.addr[4]
        dnat == IF r.action.t = "DNAT" THEN Set("DNAT", <<c.to.addr[4], None>>) ELSE r.action
        back == Line(4, "nat", "POSTROUTING",
                     [out |-> r.fromInt, proto |-> r.proto, src |-> r.src, dst |-> c.to.addr[4],
                      sport |-> r.sport, dport |-> ListenDport(r)]
                     ++ WithSyn(r) ++ Limit(r) ++ InState({"NEW"}), Set("SNAT", via))
    IN  IF Logs(r) THEN << >> ELSE << Prerouting(r, via, ListenDport(r), dnat), back >>

BounceForward(r, c) ==
    [r EXCEPT !.action = IF Logs(r) THEN @ ELSE AcceptTarget(c), !.dport = ForwardDport(r, c)]

(***************************************************************************)
(* rulecreate_call_create_funcs()                                          *)
(***************************************************************************)

\* the address of the firewall that a translation uses: without an interface
\* where one is needed there is an error and no line
ServerIf(r, c) == IF c.ruletype = "SNAT" THEN r.toIf ELSE r.fromIf
NeedsIf(c) == \/ c.ruletype = "SNAT" /\ (~c.toAny \/ c.opt.outInt # None)
              \/ c.ruletype \in {"PORTFW", "DNAT", "BOUNCE"} /\ (~c.fromAny \/ c.opt.inInt # None)
WithServer(r, c) ==
    [r EXCEPT !.serverip = IF NeedsIf(c) THEN ServerIf(r, c).addr[4] ELSE @]

NatLines(r, c) ==
    CASE c.ruletype = "MASQ" -> CreateRuleMasq(r, c)
      [] c.ruletype = "SNAT" -> CreateRuleSnat(r, c)
      [] c.ruletype = "PORTFW" -> CreateRulePortfw(r, c)
      [] c.ruletype = "REDIRECT" -> CreateRuleRedirect(r, c)
      [] c.ruletype = "DNAT" -> CreateRuleDnat(r, c)
      [] c.ruletype = "BOUNCE" -> CreateRuleBounce(r, c)
      [] OTHER -> << >>

\* the rule that the functions of the filter table see
FilterRule(r, c) ==
    CASE c.ruletype = "PORTFW" -> PortfwForward(r, c)
      [] c.ruletype = "BOUNCE" -> BounceForward(r, c)
      [] c.ruletype = "REDIRECT" -> RedirectInput(r, c)
      [] OTHER -> r

\* "any" is the firewall too
Forwards(c) == c.ruletype \in {"FORWARD", "PORTFW", "BOUNCE"}
Leaves(c) == c.ruletype = "OUTPUT" \/ (c.ruletype = "FORWARD" /\ c.fromAny)
Enters(c) == c.ruletype \in {"INPUT", "REDIRECT"} \/ (c.ruletype = "FORWARD" /\ c.toAny)

CallCreateFuncs(r, c) ==
    LET q == WithServer(r, c)
        f == FilterRule(q, c)
    IN  IF c.ruletype \in Translations /\ (~Translates(r, c) \/ (NeedsIf(c) /\ ServerIf(r, c) = None))
        THEN << >>
        ELSE NatLines(q, c)
             \o (IF Forwards(c) THEN CreateRuleForward(f, c) ELSE << >>)
             \o (IF Leaves(c) THEN CreateRuleOutput(f, c) ELSE << >>)
             \o (IF Enters(c) THEN CreateRuleInput(f, c) ELSE << >>)

(***************************************************************************)
(* rulecreate_create_rule_and_options(): the lines that log come first.    *)
(***************************************************************************)

LogTarget == Jump(IF RuleNflog THEN "NFLOG" ELSE "LOG")
LimitOf(opt) == IF Can("limit") THEN opt.limit ELSE 0
LogLimit(opt) == IF ~Can("limit") THEN 0 ELSE IF opt.loglimit > 0 THEN opt.loglimit ELSE opt.limit

\* rule->ipv4_to.broadcast is empty: nothing assigns it
BroadcastDst == Whole

\* an option of REJECT is one of IPv4
ActionOf(r, c) ==
    IF c.action.t = "LOG" THEN LogTarget
    ELSE IF r.ipv = 6 /\ c.action.t = "REJECT" THEN Jump("REJECT")
    ELSE c.action

\* the calls: what each of them changes in the rule
Logged(r, c) ==
    IF ~c.opt.log THEN << >>
    ELSE << [action |-> LogTarget, limit |-> LogLimit(c.opt), dst |-> r.dst] >>

Broadcasts(r, c) ==
    IF r.ipv # 4 \/ c.service = None \/ ~c.service.broadcast THEN << >>
    ELSE Logged([r EXCEPT !.dst = BroadcastDst], c)
         \o << [action |-> c.action, limit |-> 0, dst |-> BroadcastDst] >>

Acted(r, c) == << [action |-> ActionOf(r, c), limit |-> LimitOf(c.opt), dst |-> r.dst] >>

\* mutant: the lines that log come last
Calls_LogLast(r, c) == Broadcasts(r, c) \o Acted(r, c) \o Logged(r, c)

Calls(r, c) == Logged(r, c) \o Broadcasts(r, c) \o Acted(r, c)

CreateRuleAndOptions(r, c) ==
    LET calls == Calls(r, c)
        with(k) == [r EXCEPT !.action = k.action, !.limit = k.limit, !.dst = k.dst]
    IN  FlattenSeq([n \in DOMAIN calls |-> CallCreateFuncs(with(calls[n]), c)])
=============================================================================
