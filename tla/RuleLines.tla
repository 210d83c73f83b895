----------------------------- MODULE RuleLines -----------------------------
(***************************************************************************)
(* One rule of Vuurmuur turned into lines of iptables and classes of tc:   *)
(* the functions create_rule_* of createrule.c.                            *)
(*                                                                         *)
(* A line is a record.  A field that is absent from the text of a line     *)
(* matches everything: None for a device, a port, a protocol or the marks, *)
(* the set Whole for an address.  A function of the source that fills the queue of *)
(* a rule is here an operator that returns the sequence of lines it hands  *)
(* to queue_rule(); the fields of struct RuleCreateData_ that such a call  *)
(* reads are the record r, those of struct RuleCache_ the record c.        *)
(***************************************************************************)
EXTENDS Integers, Sequences, SequencesExt

CONSTANTS
    None,       \* an empty string, a null pointer
    Whole,      \* the set of all addresses
    Marks,      \* the marks a connection can have, 0 is none
    Caps,       \* the capabilities detected by load_iptcaps()
    CheckCaps,  \* conf.check_iptcaps
    RuleNflog   \* conf.rule_nflog

Can(cap) == ~CheckCaps \/ cap \in Caps

(***************************************************************************)
(* Lines.  The flags of TCP and the place of a fragment are one field: a   *)
(* packet has one of Flags, a line matches a set of them.                  *)
(***************************************************************************)

States == {"NEW", "RELATED", "ESTABLISHED", "INVALID"}
Probes == {"none", "synfin", "synrst", "finrst", "fin", "psh", "urg"}
Flags == Probes \union {"plain", "syn", "synack", "fragment"}

\* the fields of f, and those of g that f has not
f ++ g == [x \in DOMAIN f \union DOMAIN g |-> IF x \in DOMAIN f THEN f[x] ELSE g[x]]

Line(ipv, table, chain, match, target) ==
    match ++ [ipv |-> ipv, table |-> table, chain |-> chain, target |-> target,
              in |-> None, out |-> None, proto |-> None, flags |-> Flags,
              src |-> Whole, dst |-> Whole, sport |-> None, dport |-> None,
              mac |-> None, limit |-> 0, helper |-> None,
              states |-> States, marks |-> None, reverse |-> {TRUE, FALSE}]

Jump(t) == [t |-> t, v |-> None]
Set(t, v) == [t |-> t, v |-> v]

\* what a function adds to the queue under a condition
Only(cond, lines) == IF cond THEN lines ELSE << >>

\* a loop over a list of the code: body(r, x) is one turn of it with the element x
Loop(body(_, _), r, list) ==
    LET after[n \in 0..Len(list)] == IF n = 0 THEN r ELSE body(after[n - 1], list[n])
    IN  after[Len(list)]

\* iptrule_insert(), shaping_ruleinsert(): the queue of a rule has no doubles
Enqueue(q, l) == IF Contains(q, l) THEN q ELSE Append(q, l)
Queue(queue, lines) == Loop(Enqueue, queue, lines)

QueueClass(queue, k) ==
    IF \E i \in DOMAIN queue: queue[i].handle = k.handle /\ queue[i].class = k.class
                              /\ queue[i].device = k.device
    THEN queue ELSE Append(queue, k)

(***************************************************************************)
(* What the three filter functions share.  A way says where the traffic of *)
(* a rule passes: the chain and the devices there, and the same for the    *)
(* traffic in the opposite direction.                                      *)
(***************************************************************************)

\* strncasecmp(rule->action, "LOG", 3): NFLOG is not such an action
Logs(r) == r.action.t = "LOG"
NewTargets == {"NEWACCEPT", "NEWQUEUE", "NEWNFQUEUE"}

\* the capability without which the line is not created at all
Supported(r) ==
    /\ r.action.t = "NEWQUEUE" => Can("queue")
    /\ r.action.t = "NEWNFQUEUE" => Can("nfqueue")
    /\ Logs(r) => Can("log")
    /\ r.action.t = "REJECT" => Can("reject")

InputWay(r) == [chain |-> "INPUT", in |-> r.fromInt, out |-> None,
                rchain |-> "OUTPUT", rin |-> None, rout |-> r.fromInt, mac |-> r.mac]
OutputWay(r) == [chain |-> "OUTPUT", in |-> None, out |-> r.toInt,
                 rchain |-> "INPUT", rin |-> r.toInt, rout |-> None, mac |-> None]
ForwardWay(r) == [chain |-> "FORWARD", in |-> r.fromInt, out |-> r.toInt,
                  rchain |-> "FORWARD", rin |-> r.toInt, rout |-> r.fromInt, mac |-> r.mac]

Ports(r) == [sport |-> r.sport, dport |-> r.dport]
NoPorts == [sport |-> None, dport |-> None]

\* the ports of the opposite direction; of icmp only echo has one
SwappedPorts(r) ==
    IF r.proto = "icmp"
    THEN [sport |-> None, dport |-> IF r.dport = "echo" THEN "echoreply" ELSE None]
    ELSE [sport |-> r.dport, dport |-> r.sport]

There(r, w) == [in |-> w.in, out |-> w.out, proto |-> r.proto, src |-> r.src,
                dst |-> r.dst, mac |-> w.mac]
Back(r, w) == [in |-> w.rin, out |-> w.rout, proto |-> r.proto, src |-> r.dst, dst |-> r.src]
WithSyn(r) == [flags |-> IF r.syn THEN {"syn"} ELSE Flags]
Limit(r) == [limit |-> r.limit]
Helper(r) == [helper |-> r.helper]
InState(s) == [states |-> s]

FilterLine(r, w) ==
    Line(r.ipv, "filter", w.chain,
         There(r, w) ++ WithSyn(r) ++ Ports(r) ++ Limit(r) ++ InState({"NEW"}),
         r.action)

NFQ_MARK_BASE == 3
Connmark(r, c) ==
    Set("CONNMARK", CASE r.action.t = "NEWNFQUEUE" -> c.opt.nfqueue + NFQ_MARK_BASE
                      [] r.action.t = "NEWQUEUE" -> 2
                      [] OTHER -> 1)

\* the mark of the connection; ports: those of the line in the other direction
ConnmarkLines(r, c, w, ports, syn) ==
    LET unmarked == [marks |-> {0}]
        line(chain, m, s) == Line(r.ipv, "mangle", chain, m ++ unmarked ++ InState(s), Connmark(r, c))
    IN  << line(w.chain, There(r, w) ++ WithSyn(r) ++ Ports(r), {"NEW", "RELATED"}) >>
        \o (IF r.proto = "icmp" THEN << >>
            ELSE << line(w.rchain, Back(r, w) ++ WithSyn(r) ++ ports, {"RELATED"}) >>)
        \o (IF r.helper = None \/ ~Can("helper") THEN << >>
            ELSE << line(w.chain, There(r, w) ++ syn ++ Helper(r), {"RELATED"}),
                    line(w.rchain, Back(r, w) ++ syn ++ Helper(r), {"RELATED"}) >>)

Connmarks(r) == r.action.t \in NewTargets

\* a missing capability here leaves the function: no marks, no classes either
ConnmarkReturns(r) ==
    Connmarks(r) /\ (~Can("connmark") \/ (r.helper # None /\ ~Can("helper")))

NfmarkLines(r, c, w) ==
    LET line(chain, m, s) == Line(r.ipv, "mangle", chain, m ++ InState(s), Set("MARK", c.opt.nfmark))
        known == {"RELATED", "ESTABLISHED"}
    IN  << line(w.chain, There(r, w) ++ Ports(r), known \union {"NEW"}),
           line(w.rchain, Back(r, w) ++ SwappedPorts(r), known) >>
        \o (IF r.helper = None \/ ~Can("helper") THEN << >>
            ELSE << line(w.chain, There(r, w) ++ Helper(r), known),
                    line(w.rchain, Back(r, w) ++ Helper(r), known) >>)

Nfmarks(r, c) == c.opt.nfmark > 0 /\ ~Logs(r) /\ r.proto # "icmp"

NfmarkReturns(r, c) ==
    Nfmarks(r, c) /\ (~Can("mark") \/ (r.helper # None /\ ~Can("helper")))

(***************************************************************************)
(* Shaping: classes of the HTB qdiscs of the two interfaces.               *)
(***************************************************************************)

ShapesIn(opt) == opt.bwIn # 0 \/ opt.prio > 0
ShapesOut(opt) == opt.bwOut # 0 \/ opt.prio > 0
Shapes(opt) == ShapesIn(opt) \/ ShapesOut(opt)
Shaped(iface) == iface # None /\ iface.shape /\ ~iface.alias /\ iface.up

Classify(iface, class) == Set("CLASSIFY", <<iface.handle, class>>)

\* there, back: whether the direction gets a line; helperClass: the class that
\* the line of the helper sends the answers to
ShapeLines(r, w, chain, there, back, helperClass) ==
    LET line(m, s, k) == Line(r.ipv, "mangle", chain, m ++ InState(s), k)
        known == {"RELATED", "ESTABLISHED"}
        goes == there /\ Shaped(r.toIf)
        comes == back /\ Shaped(r.fromIf)
        if(cond, l) == IF cond THEN << l >> ELSE << >>
        helper == r.helper # None /\ Can("helper")
    IN  if(goes, line(There(r, w) ++ Ports(r), known \union {"NEW"}, Classify(r.toIf, r.classOut)))
        \o if(comes, line(Back(r, w) ++ SwappedPorts(r), known, Classify(r.fromIf, r.classIn)))
        \o if(helper /\ goes, line(There(r, w) ++ Helper(r), known, Classify(r.toIf, r.classOut)))
        \o if(helper /\ comes, line(Back(r, w) ++ Helper(r), known, Classify(r.fromIf, helperClass)))

ShapesLine(r, c) == r.ipv = 4 /\ Shapes(c.opt) /\ Can("classify")

(***************************************************************************)
(* create_rule_input(), create_rule_output(), create_rule_forward().       *)
(***************************************************************************)

InputConnmark(r, c) == IF Can("connmark")
                       THEN ConnmarkLines(r, c, InputWay(r), NoPorts, WithSyn(r)) ELSE << >>
InputNfmark(r, c) == IF Can("mark") THEN NfmarkLines(r, c, InputWay(r)) ELSE << >>
InputShape(r, c) == ShapeLines(r, InputWay(r), "SHAPEOUT", FALSE, TRUE, r.classOut)

CreateRuleInput(r, c) ==
    IF ~Supported(r) THEN << >>
    ELSE << FilterLine(r, InputWay(r)) >>
         \o (IF Connmarks(r) THEN InputConnmark(r, c) ELSE << >>)
         \o (IF ConnmarkReturns(r) THEN << >>
             ELSE (IF Nfmarks(r, c) THEN InputNfmark(r, c) ELSE << >>)
                  \o (IF NfmarkReturns(r, c) \/ ~ShapesLine(r, c) THEN << >> ELSE InputShape(r, c)))

OutputConnmark(r, c) == IF Can("connmark")
                        THEN ConnmarkLines(r, c, OutputWay(r), NoPorts, WithSyn(r)) ELSE << >>
OutputNfmark(r, c) == IF Can("mark") THEN NfmarkLines(r, c, OutputWay(r)) ELSE << >>
OutputShape(r, c) == ShapeLines(r, OutputWay(r), "SHAPEOUT", TRUE, FALSE, None)

CreateRuleOutput(r, c) ==
    IF ~Supported(r) THEN << >>
    ELSE << FilterLine(r, OutputWay(r)) >>
         \o (IF Connmarks(r) THEN OutputConnmark(r, c) ELSE << >>)
         \o (IF ConnmarkReturns(r) THEN << >>
             ELSE (IF Nfmarks(r, c) THEN OutputNfmark(r, c) ELSE << >>)
                  \o (IF NfmarkReturns(r, c) \/ ~ShapesLine(r, c) THEN << >> ELSE OutputShape(r, c)))

\* here the ports are swapped before the connection is marked, and the lines of
\* the helper lose --syn
ForwardConnmark(r, c) == IF Can("connmark")
                         THEN ConnmarkLines(r, c, ForwardWay(r), SwappedPorts(r), [flags |-> Flags])
                         ELSE << >>
ForwardNfmark(r, c) == IF Can("mark") THEN NfmarkLines(r, c, ForwardWay(r)) ELSE << >>
ForwardShape(r, c) == ShapeLines(r, ForwardWay(r), "SHAPEFW", TRUE, TRUE, r.classIn)

CreateRuleForward(r, c) ==
    IF ~Supported(r) THEN << >>
    ELSE << FilterLine(r, ForwardWay(r)) >>
         \o (IF Connmarks(r) THEN ForwardConnmark(r, c) ELSE << >>)
         \o (IF ConnmarkReturns(r) THEN << >>
             ELSE (IF Nfmarks(r, c) THEN ForwardNfmark(r, c) ELSE << >>)
                  \o (IF NfmarkReturns(r, c) \/ ~ShapesLine(r, c) THEN << >> ELSE ForwardShape(r, c)))
=============================================================================
