------------------------------ MODULE Ruleset ------------------------------
(***************************************************************************)
(* load_ruleset() (ruleset.c): a ruleset is created in memory, written to  *)
(* a file as commands of iptables-restore, and loaded, for IPv4 and then   *)
(* for IPv6.  What the lines of a ruleset are is the matter of             *)
(* RulesetCreate; here a ruleset is its chains and the jumps between them, *)
(* the counters it carries over, and the version of the configuration.     *)
(*                                                                         *)
(* A table of the kernel is [ver, chains, counts]: the version of the file *)
(* it was loaded from, for every chain the set of chains it jumps to, and  *)
(* the devices it counts.  The built-in chains, which are treated alike,   *)
(* are one, "hooks"; the chains of the user that no rule names are "MINE". *)
(*                                                                         *)
(* ruleset_create_ruleset() gives up only when a part of it fails without  *)
(* which there is no ruleset; the others may come to an end early and are  *)
(* passed over.  What they then leave out is part of the configuration:    *)
(* [custom, counted, nfqueue, forward, lost, sysctl] are the chains that   *)
(* rules name, the devices that are counted, whether a rule queues, the    *)
(* families that forward, the jumps that are not made, and whether the     *)
(* switches of forwarding can be set.                                      *)
(***************************************************************************)
EXTENDS Integers, Sequences, SequencesExt, FiniteSets

CONSTANTS
    Devices,      \* devices of the interfaces, in the order of the list
    Configs,      \* configurations
    MaxVersion,   \* bound: changes of the configuration
    MaxCount      \* bound: packets through a device

VARIABLES
    config,     \* the configuration in memory
    version,    \* its number
    up,         \* the daemon is running
    first,      \* it is loading its first ruleset
    pc,         \* where it is in load_ruleset()
    fam,        \* ruleset->ipv
    listed,     \* the chains found by rules_get_system_chains()
    blind,      \* the chains could not be listed
    saved,      \* interfaces: cnt
    carried,    \* the counters in the lines of the ruleset
    atSave,     \* the counters that were there to be saved
    result,     \* of the last load
    kernel, counters, shaped, forwarding

daemon == << up, first, pc, fam, listed, blind, saved, carried, atSave, result >>
system == << kernel, counters, shaped, forwarding >>
vars == << config, version, daemon, system >>

Family == {4, 6}

ASSUME RulesetAssumption ==
    /\ Devices \in Seq(STRING)
    /\ Configs \subseteq [custom : SUBSET STRING, counted : SUBSET ToSet(Devices), nfqueue : BOOLEAN,
                          forward : [Family -> BOOLEAN], lost : [Family -> SUBSET (STRING \X STRING)],
                          sysctl : BOOLEAN]
    /\ MaxVersion \in Nat \ {0} /\ MaxCount \in Nat

Tables(f) == IF f = 4 THEN << "raw", "mangle", "nat", "filter" >> ELSE << "raw", "mangle", "filter" >>

(***************************************************************************)
(* ruleset_fill_file(): the commands for a table.                          *)
(***************************************************************************)

Cmd(op, chain) == [op |-> op, chain |-> chain, to |-> {}]
Append2(chain, to) == [op |-> "append", chain |-> chain, to |-> to]
Create(chain) == << Cmd("new", chain) >>

\* a chain of Vuurmuur is made anew, one of the user only if it is not there
Remake(chain, there) ==
    (IF chain \in there THEN << Cmd("flush", chain), Cmd("delete", chain) >> ELSE << >>) \o Create(chain)
\* mutant: chains of the user are made anew as well
Keep_Remake(chain, there) == Remake(chain, there)

Keep(chain, there) == IF chain \in there THEN << >> ELSE Create(chain)
EachOf(chains, Op(_, _), there) ==
    LET all[n \in 0 .. Len(chains)] == IF n = 0 THEN << >> ELSE all[n - 1] \o Op(chains[n], there)
    IN  all[Len(chains)]

ShapeChains == << "SHAPEIN", "SHAPEOUT", "SHAPEFW" >>
\* mutant: the limits before the targets that use them
OwnChains_LimitsFirst == << "SYNLIMIT", "UDPLIMIT", "ANTISPOOF", "BLOCKLIST", "BLOCK", "NEWACCEPT", "NEWQUEUE",
                            "ESTRELNFQUEUE", "NEWNFQUEUE", "TCPRESET" >>

\* a chain comes before those it jumps to
OwnChains == << "ANTISPOOF", "BLOCKLIST", "BLOCK", "NEWACCEPT", "NEWQUEUE", "ESTRELNFQUEUE",
                "NEWNFQUEUE", "SYNLIMIT", "UDPLIMIT", "TCPRESET" >>

Acc(d) == "ACC-" \o d
CountedBy(f, c) == IF f = 4 THEN c.counted ELSE {}
AccChains(f, c) == {Acc(d) : d \in CountedBy(f, c)}
CountsIn(f, table, c) == IF table = "filter" THEN CountedBy(f, c) ELSE {}

\* ACC- and a device is none of the other names; a chain that a rule names may
\* well be one of Vuurmuur's
ASSUME NamesAssumption ==
    /\ {Acc(d) : d \in ToSet(Devices)} \intersect ({"hooks", "MINE", "PRE-VRMR"} \union ToSet(OwnChains)) = {}
    /\ \A c \in Configs : IsFiniteSet(c.custom) /\ "MINE" \notin c.custom

\* the jumps in the lines of the ruleset
Append2But(chain, to, lost) == Append2(chain, {x \in to : <<chain, x>> \notin lost})
FilterJumps(f, c) ==
    LET limits == {"SYNLIMIT", "UDPLIMIT"}
    IN  << Append2But("hooks", {"PRE-VRMR", "NEWACCEPT", "NEWQUEUE", "TCPRESET"} \union c.custom
                               \union (IF f = 4 THEN {"BLOCKLIST", "ANTISPOOF"} ELSE {})
                               \union AccChains(f, c)
                               \union (IF c.nfqueue THEN {"NEWNFQUEUE", "ESTRELNFQUEUE"} ELSE {}), c.lost[f]),
           Append2But("BLOCKLIST", IF f = 4 THEN {"BLOCK"} ELSE {}, c.lost[f]),
           Append2("NEWACCEPT", limits), Append2("NEWQUEUE", limits), Append2But("NEWNFQUEUE", limits, c.lost[f]),
           Append2But("ESTRELNFQUEUE", IF c.nfqueue THEN {"NEWNFQUEUE"} ELSE {}, c.lost[f]) >>

\* the parts that are passed over are those that make the lines of NEWNFQUEUE,
\* ESTRELNFQUEUE and the blocklist, and those of the rules
ASSUME LostAssumption ==
    \A c \in Configs : \A f \in Family :
        c.lost[f] \subseteq {"NEWNFQUEUE", "ESTRELNFQUEUE", "BLOCKLIST"} \X {"SYNLIMIT", "UDPLIMIT", "NEWNFQUEUE", "BLOCK"}
                           \union {"hooks"} \X ({"TCPRESET", "NEWNFQUEUE"} \union c.custom)

Commands(f, table, c, there) ==
    CASE table = "raw" -> << >>
      [] table = "mangle" ->
            Keep("PRE-VRMR", there.mangle) \o << Cmd("flush", "hooks") >>
            \o (IF f = 4 THEN EachOf(ShapeChains, Remake, there.mangle) ELSE << >>)
            \o << Append2("hooks", {"PRE-VRMR"} \union (IF f = 4 THEN ToSet(ShapeChains) ELSE {})) >>
      [] table = "nat" ->
            Keep("PRE-VRMR", there.nat) \o << Cmd("flush", "hooks"), Append2("hooks", {"PRE-VRMR"}) >>
      [] table = "filter" ->
            << Cmd("flush", "hooks") >> \o Keep("PRE-VRMR", there.filter)
            \o EachOf(SetToSeq(c.custom), Keep, there.filter)
            \o EachOf(OwnChains, Remake, there.filter)
            \o EachOf(SetToSeq(AccChains(f, c)), Remake, there.filter)
            \o FilterJumps(f, c)

(***************************************************************************)
(* iptables-restore --noflush: a table is changed by all its commands or   *)
(* by none.                                                                *)
(***************************************************************************)

Refused == << >>
Bad(chains, cmd) ==
    CASE cmd.op = "new" -> cmd.chain \in DOMAIN chains
      [] cmd.op = "delete" -> \/ cmd.chain \notin DOMAIN chains
                              \/ \E x \in DOMAIN chains: cmd.chain \in chains[x]
      [] cmd.op = "flush" -> cmd.chain \notin DOMAIN chains
      [] cmd.op = "append" -> \/ {cmd.chain} \union cmd.to \notin SUBSET DOMAIN chains
                              \/ "hooks" \in cmd.to
Exec(chains, cmd) ==
    IF chains = Refused \/ Bad(chains, cmd) THEN Refused
    ELSE CASE cmd.op = "new" -> [x \in DOMAIN chains \union {cmd.chain} |->
                                    IF x = cmd.chain THEN {} ELSE chains[x]]
           [] cmd.op = "delete" -> [x \in DOMAIN chains \ {cmd.chain} |-> chains[x]]
           [] cmd.op = "flush" -> [chains EXCEPT ![cmd.chain] = {}]
           [] cmd.op = "append" -> [chains EXCEPT ![cmd.chain] = @ \union cmd.to]
After(chains, cmds) ==
    LET done[n \in 0 .. Len(cmds)] == IF n = 0 THEN chains ELSE Exec(done[n - 1], cmds[n])
    IN  done[Len(cmds)]

Builtin == [x \in {"hooks"} |-> {}]
Empty == [ver |-> 0, chains |-> Builtin, counts |-> {}]
ChainsOf(f) == [t \in {"mangle", "nat", "filter"} |->
                   IF t \in ToSet(Tables(f)) THEN DOMAIN kernel[f][t].chains ELSE {}]

(***************************************************************************)
(* Counters.  A device that is counted has a line in INPUT after those of  *)
(* PRE-VRMR and the loopback, and two lines in its own chain.              *)
(***************************************************************************)

Counting == kernel[4].filter.counts
LineOf(chain, d) ==
    IF chain = "INPUT"
    THEN 2 + Cardinality({e \in Counting: \E i, j \in DOMAIN Devices: Devices[i] = e /\ Devices[j] = d /\ i <= j})
    ELSE 2
\* get_iface_stats_from_ipt() starts at the third rule of a chain
FirstRule == 3
\* mutant: one rule more is left out
Stat_Later(chain, d) == IF d \in Counting /\ LineOf(chain, d) > FirstRule THEN counters[d][chain] ELSE 0

Stat(chain, d) == IF d \in Counting /\ LineOf(chain, d) >= FirstRule THEN counters[d][chain] ELSE 0

NoCounts == [d \in ToSet(Devices) |-> [INPUT |-> 0, ACC |-> 0]]
Stats == [d \in ToSet(Devices) |-> [INPUT |-> Stat("INPUT", d), ACC |-> Stat("ACC", d)]]

(***************************************************************************)
(* The actions of load_ruleset().                                          *)
(***************************************************************************)

NoChains == [t \in {"mangle", "nat", "filter"} |-> {}]
Init ==
    /\ config \in Configs /\ version = 1
    /\ up = FALSE /\ first = TRUE /\ pc = "idle" /\ fam = 4
    /\ listed = NoChains /\ blind = FALSE /\ saved = NoCounts /\ carried = NoCounts /\ atSave = NoCounts
    /\ result = "none"
    /\ kernel = [f \in Family |-> [t \in ToSet(Tables(f)) |-> Empty]]
    /\ counters = NoCounts /\ shaped = 0 /\ forwarding = [f \in Family |-> FALSE]

\* the objects and rules are read (again) before a ruleset is made
Configure ==
    /\ pc = "idle" /\ version < MaxVersion
    /\ config' \in Configs
    /\ version' = version + 1
    /\ result' = "none"
    /\ UNCHANGED << up, first, pc, fam, listed, blind, saved, carried, atSave, system >>

Load ==
    /\ pc = "idle"
    /\ up' = TRUE /\ first' = ~up
    /\ pc' = "save" /\ fam' = 4 /\ result' = "none"
    /\ UNCHANGED << config, version, listed, blind, saved, carried, atSave, system >>

\* a load that fails ends a daemon that is starting
Fail(r) == /\ pc' = "idle" /\ result' = r /\ up' = ~first
           /\ listed' = NoChains /\ blind' = FALSE /\ carried' = NoCounts /\ atSave' = NoCounts

SaveInterfaceCounters ==
    /\ pc = "save"
    /\ saved' = Stats
    /\ atSave' = IF fam = 4 THEN [d \in ToSet(Devices) |-> IF d \in Counting THEN counters[d] ELSE NoCounts[d]]
                 ELSE atSave
    /\ pc' = "create"
    /\ UNCHANGED << config, version, up, first, fam, listed, blind, carried, result, system >>

\* post_rules() sets both switches; that it cannot is passed over
SetForwarding == forwarding' = IF config.sysctl THEN [f \in Family |-> config.forward[fam]] ELSE forwarding

CreateRuleset ==
    /\ pc = "create"
    /\ SetForwarding
    /\ carried' = saved /\ saved' = NoCounts
    /\ pc' = "list"
    /\ UNCHANGED << config, version, up, first, fam, listed, blind, atSave, result, kernel, counters, shaped >>

\* the classes of tc or pre_rules() fail, or post_rules(), which has set the
\* switches by then; the counters are not cleared
CreateFails ==
    /\ pc = "create"
    /\ SetForwarding \/ UNCHANGED forwarding
    /\ Fail("failed")
    /\ UNCHANGED << config, version, first, fam, saved, kernel, counters, shaped >>

GetSystemChains ==
    /\ pc = "list"
    /\ \/ listed' = ChainsOf(fam) /\ blind' = FALSE
       \/ listed' = NoChains /\ blind' = TRUE
    /\ pc' = IF fam = 4 THEN "shape" ELSE Tables(6)[1]
    /\ UNCHANGED << config, version, up, first, fam, saved, carried, atSave, result, system >>

FileFails ==
    /\ pc = "list"
    /\ Fail("failed")
    /\ UNCHANGED << config, version, first, fam, saved, system >>

\* mutant: the result of the shell is not looked at
LoadShape_Ignored ==
    /\ pc = "shape"
    /\ shaped' \in {shaped, version} /\ pc' = Tables(fam)[1]
    /\ UNCHANGED << config, version, up, first, fam, listed, blind, saved, carried, atSave, result,
                    kernel, counters, forwarding >>

\* The shell that runs the file of tc, of whose commands only the last one
\* counts: shaped is the version of the file that was run, in which others may
\* have failed.  A shell that fails may not have run it at all.
LoadShape ==
    /\ pc = "shape"
    /\ \/ /\ shaped' = version
          /\ pc' = Tables(fam)[1] /\ UNCHANGED << up, listed, blind, carried, atSave, result >>
       \/ shaped' \in {shaped, version} /\ Fail("failed")
    /\ UNCHANGED << config, version, first, fam, saved, kernel, counters, forwarding >>

NextTable(t) == LET n == CHOOSE k \in DOMAIN Tables(fam): Tables(fam)[k] = t
                IN  IF n = Len(Tables(fam)) THEN "done" ELSE Tables(fam)[n + 1]

\* COMMIT of the table pc
LoadTable ==
    /\ pc \in ToSet(Tables(fam))
    /\ LET new == After(kernel[fam][pc].chains, Commands(fam, pc, config, listed))
       IN  IF new = Refused
           THEN Fail(IF blind THEN "failed" ELSE "refused") /\ UNCHANGED << kernel, counters >>
           ELSE /\ kernel' = [kernel EXCEPT ![fam][pc] = [ver |-> version, chains |-> new,
                                                          counts |-> CountsIn(fam, pc, config)]]
                /\ counters' = IF fam = 4 /\ pc = "filter"
                               THEN [d \in ToSet(Devices) |->
                                       IF d \in config.counted THEN carried[d] ELSE counters[d]]
                               ELSE counters
                /\ pc' = NextTable(pc)
                /\ UNCHANGED << up, result, listed, blind, carried, atSave >>
    /\ UNCHANGED << config, version, first, fam, saved, shaped, forwarding >>

\* the kernel or the program says no for a reason of its own
LoadFails ==
    /\ pc \in ToSet(Tables(fam))
    /\ Fail("failed")
    /\ UNCHANGED << config, version, first, fam, saved, system >>

LoadDone ==
    /\ pc = "done"
    /\ listed' = NoChains /\ blind' = FALSE /\ carried' = NoCounts /\ atSave' = NoCounts
    /\ IF fam = 4 THEN fam' = 6 /\ pc' = "save" /\ UNCHANGED result
       ELSE fam' = 4 /\ pc' = "idle" /\ result' = "ok"
    /\ UNCHANGED << config, version, up, first, saved, system >>

Stop ==
    /\ up
    /\ up' = FALSE /\ first' = TRUE /\ pc' = "idle" /\ fam' = 4 /\ result' = "none"
    /\ listed' = NoChains /\ blind' = FALSE
    /\ saved' = NoCounts /\ carried' = NoCounts /\ atSave' = NoCounts
    /\ UNCHANGED << config, version, system >>

(***************************************************************************)
(* Without a daemon: vuurmuur -D and vuurmuur -C.  The table raw is left.  *)
(***************************************************************************)

Flushed(table) ==
    [ver |-> 0, counts |-> {},
     chains |-> [x \in DOMAIN table.chains |-> IF x = "PRE-VRMR" THEN table.chains[x] ELSE {}]]
Cleared(With(_)) ==
    kernel' = [f \in Family |-> [t \in ToSet(Tables(f)) |->
                  IF t = "raw" THEN kernel[f][t] ELSE With(kernel[f][t])]]
EmptyTable(table) == Empty

ClearVuurmuurRules ==
    /\ ~up
    /\ Cleared(Flushed)
    /\ UNCHANGED << config, version, daemon, counters, shaped, forwarding >>
ClearAllRules ==
    /\ ~up
    /\ Cleared(EmptyTable)
    /\ UNCHANGED << config, version, daemon, counters, shaped, forwarding >>

(***************************************************************************)
(* The rest of the world.                                                  *)
(***************************************************************************)

Traffic(d) ==
    /\ d \in Counting /\ counters[d].ACC < MaxCount /\ counters[d].INPUT < MaxCount
    /\ counters' = [counters EXCEPT ![d] = [INPUT |-> @.INPUT + 1, ACC |-> @.ACC + 1]]
    /\ UNCHANGED << config, version, daemon, kernel, shaped, forwarding >>

\* a jump of the user's own, in a chain that is his
OfUser(f) == (DOMAIN kernel[f].filter.chains) \ ({"hooks", "MINE"} \union ToSet(OwnChains) \union {Acc(d): d \in ToSet(Devices)})
UserFills(f, chain) ==
    /\ pc = "idle"
    /\ chain \in OfUser(f) /\ kernel[f].filter.chains[chain] = {}
    /\ kernel' = [kernel EXCEPT ![f].filter.chains =
                     [x \in DOMAIN @ \union {"MINE"} |-> IF x = chain THEN {"MINE"} ELSE IF x = "MINE" THEN {} ELSE @[x]]]
    /\ UNCHANGED << config, version, daemon, counters, shaped, forwarding >>

Next ==
    \/ Configure \/ Load \/ SaveInterfaceCounters \/ CreateRuleset \/ CreateFails
    \/ GetSystemChains \/ FileFails \/ LoadShape \/ LoadTable \/ LoadFails \/ LoadDone
    \/ Stop \/ ClearVuurmuurRules \/ ClearAllRules
    \/ \E d \in ToSet(Devices): Traffic(d)
    \/ \E f \in Family: \E chain \in OfUser(f): UserFills(f, chain)
Spec == Init /\ [][Next]_vars

(***************************************************************************)
(* The properties.                                                         *)
(***************************************************************************)

\* a rule names a chain that Vuurmuur makes itself, or one that is built in
Clashes(c) == c.custom \intersect ({"hooks", "PRE-VRMR"} \union ToSet(OwnChains) \union AccChains(4, c)) # {}

\* iptables-restore refuses a file for what it says about chains only if a rule
\* names one of Vuurmuur's: otherwise no chain is made twice, and none is removed
\* while another one jumps to it, whatever was loaded before, with or without
\* such a rule, and wherever an earlier load broke off.  Apart from that only a
\* daemon that could not list the chains runs into it (ruleset_fill_file()).
NeverRefused == result = "refused" => Clashes(config)

\* When load_ruleset() says that it worked, what it has run and loaded is all of
\* the version in memory: the file of tc and the tables of both families; and
\* both switches of forwarding, if they can be set, are as the rules of IPv6
\* ask.  That no line is missing is not said: a part of the ruleset that could
\* not be made, a command of tc that fails, are passed over.
SuccessIsOneVersion ==
    result = "ok" =>
        /\ shaped = version
        /\ config.sysctl => forwarding = [f \in Family |-> config.forward[6]]
        /\ \A f \in Family: \A t \in ToSet(Tables(f)): kernel[f][t].ver = version

\* What the user has put into PRE-VRMR-* and into his own chains outlives every
\* load, and in PRE-VRMR-* also vuurmuur -D (comment in ruleset_fill_file():
\* "No flushing, the content of these chains is the responsibility of the user").
UserChainsKept ==
    [][\A f \in Family: \A x \in DOMAIN kernel[f].filter.chains:
          "MINE" \in kernel[f].filter.chains[x] =>
              \/ x \in DOMAIN kernel'[f].filter.chains /\ "MINE" \in kernel'[f].filter.chains[x]
              \/ ~up' /\ (x # "PRE-VRMR" \/ kernel'[f].filter = Empty)]_vars

\* A device that is counted before and after a load loses of its counter only
\* what passed since the counters were saved.
Carries(chain) ==
    pc = "filter" /\ fam = 4 /\ pc' = "done" =>
        \A d \in Counting \intersect config.counted: counters'[d][chain] = atSave[d][chain]
CountersKept == [][Carries("INPUT")]_vars

=============================================================================
