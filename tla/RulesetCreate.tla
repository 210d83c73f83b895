--------------------------- MODULE RulesetCreate ---------------------------
(***************************************************************************)
(* ruleset_create_ruleset() (ruleset.c): the lines of one family, in the   *)
(* order in which the functions of the daemon hand them to process_rule(). *)
(* One rule of the user is one step of create_normal_rules() (rules.c).    *)
(***************************************************************************)
EXTENDS Shaping, Netfilter

CONSTANTS
    RuleLists,    \* the lists of rules to choose from
    Interfaces,   \* the list of interfaces
    Networks,     \* the networks
    LimitChoices, \* values of conf.syn_limit and conf.udp_limit
    Blocked       \* the addresses of the blocklist

VARIABLES
    ipv,       \* ruleset->ipv
    limits,    \* conf.syn_limit and conf.udp_limit, read from the configuration
    rules,     \* the list of rules: d, and its cache once it is analyzed
    caches,
    stage,
    pos,       \* the rule that is created next
    lines,     \* the lines of the ruleset
    classes,   \* the lines of its shape file
    handle,    \* interfaces->shape_handle
    forward,   \* forward_rules
    made       \* for each rule what it came to: the lines and classes queued

createVars == << ipv, limits, rules, caches, stage, pos, lines, classes, handle, forward, made >>

ASSUME HandlesAssigned ==
    \A n \in DOMAIN ShapedOf(Interfaces):
        ShapedOf(Interfaces)[n].handle = n + 1

\* what the daemon keeps as a list is one, a zone is of one of the four kinds,
\* and an interface is one of the list of interfaces
IsList(s) == s \in Seq({s[n] : n \in DOMAIN s})
NetLists(n) == n.type = "network" /\ IsList(n.ifaces) /\ ToSet(n.ifaces) \subseteq ToSet(Interfaces)
ZoneLists(z) ==
    \/ ~IsZone(z)
    \/ NetLists(z)
    \/ z.type = "host" /\ NetLists(z.net)
    \/ z.type = "group" /\ NetLists(z.net) /\ IsList(z.members)
    \/ z.type = "zone" /\ IsList(z.nets) /\ \A n \in DOMAIN z.nets: NetLists(z.nets[n])

ASSUME RuleListsAssumption ==
    \A list \in RuleLists:
        /\ IsList(list)
        /\ \A n \in DOMAIN list:
              /\ ZoneLists(list[n].from) /\ ZoneLists(list[n].to)
              /\ list[n].service = None \/ IsList(list[n].service.ranges)
              /\ {"log", "bwIn", "bwOut", "prio", "inInt", "outInt"} \subseteq DOMAIN list[n].opt
              /\ {list[n].opt.inInt, list[n].opt.outInt} \subseteq ToSet(Interfaces) \union {None}

ASSUME ListsAssumption ==
    /\ IsList(Interfaces) /\ IsList(Blocked) /\ IsList(Networks)
    /\ \A n \in DOMAIN Networks:
          /\ NetLists(Networks[n]) /\ IsList(Networks[n].protect)
          /\ \A k \in DOMAIN Networks[n].protect:
                Networks[n].protect[k].kind \in {"antispoof", "dhcp-client", "dhcp-server"}

CreateInit ==
    /\ ipv \in Families
    /\ rules \in RuleLists
    /\ limits \in LimitChoices
    /\ stage = "analyze"
    /\ pos = 1
    /\ caches = << >> /\ lines = << >> /\ classes = << >> /\ made = << >>
    /\ handle = 0
    /\ forward = FALSE

\* analyze_all(): what cannot be analyzed is taken out of the list
Analyze ==
    /\ stage = "analyze"
    /\ rules' = FlattenSeq([n \in DOMAIN rules |-> Only(Analyzes(rules[n]), << rules[n] >>)])
    /\ caches' = [n \in DOMAIN rules' |-> Cache(rules'[n])]
    /\ stage' = "prepare"
    /\ UNCHANGED << ipv, limits, pos, lines, classes, handle, forward, made >>

RateDemands == Demands(SelectSeq(caches, LAMBDA c: c.active), Interfaces)

Prepare ==
    /\ stage = "prepare" /\ PreRulesWork(limits)
    /\ classes' = SetupRoots(Interfaces) \o DefaultRules(Interfaces, RateDemands)
    /\ handle' = FirstClass(Interfaces)
    /\ lines' = PreRulesLines(ipv, Interfaces, limits)
                \o NewNfqueueRules(ipv, rules) \o EstrelNfqueueRules(ipv, rules)
                \o BlockRules(ipv, Blocked) \o InterfaceRules(ipv, Interfaces)
                \o NetworkProtectRules(ipv, Networks)
    /\ stage' = "rules"
    /\ UNCHANGED << ipv, limits, rules, caches, pos, forward, made >>

PrepareFails ==
    /\ stage = "prepare" /\ ~PreRulesWork(limits)
    /\ stage' = "failed"
    /\ UNCHANGED << ipv, limits, rules, caches, pos, lines, classes, handle, forward, made >>

\* process_queued_rules() stops at the first line that is refused
Accepted(queue) ==
    LET bad == {n \in DOMAIN queue: ~ProcessRule(ipv, queue[n])}
    IN  IF bad = {} THEN queue
        ELSE SubSeq(queue, 1, (CHOOSE n \in bad: \A k \in bad: n <= k) - 1)

NewRule ==
    /\ stage = "rules" /\ pos <= Len(rules) /\ Creates(caches[pos])
    /\ LET r == CreateRule({ipv}, caches[pos], handle)
           queue == Accepted(r.queue)
           rated == Rated(r.classes, RateDemands, Interfaces)
       IN  /\ lines' = lines \o queue
           /\ classes' = classes \o rated
           /\ forward' = (forward \/ \E n \in DOMAIN r.queue: r.queue[n].table = "filter"
                                                              /\ r.queue[n].chain = "FORWARD")
           /\ made' = Append(made, [lines |-> queue, classes |-> rated])
    /\ handle' = IF Shapes(caches[pos].opt) THEN handle + 2 ELSE handle
    /\ pos' = pos + 1
    /\ UNCHANGED << ipv, limits, rules, caches, stage >>

NotCreated ==
    /\ stage = "rules" /\ pos <= Len(rules) /\ ~Creates(caches[pos])
    /\ made' = Append(made, [lines |-> << >>, classes |-> << >>])
    /\ pos' = pos + 1
    /\ UNCHANGED << ipv, limits, rules, caches, stage, lines, classes, handle, forward >>

Post ==
    /\ stage = "rules" /\ pos > Len(rules)
    /\ lines' = lines \o PostRules(ipv)
    /\ stage' = "done"
    /\ UNCHANGED << ipv, limits, rules, caches, pos, classes, handle, forward, made >>

Step == Analyze \/ Prepare \/ PrepareFails \/ NewRule \/ NotCreated \/ Post
CreateSpec == CreateInit /\ [][Step]_createVars
=============================================================================
