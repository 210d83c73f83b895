------------------------------ MODULE ZoneEditor ------------------------------
(***************************************************************************)
(* What vuurmuur_conf keeps in memory of zones, networks, hosts, groups    *)
(* and interfaces, of the rules and of the blocklist, and how its menus    *)
(* change memory and the backend together.                                 *)
(*                                                                         *)
(* Objects point at each other in memory and name each other on disk.  The *)
(* counters refcnt_group, refcnt_network and refcnt_blocklist say how      *)
(* often an object is pointed at and keep it from being deleted.  Every    *)
(* operation changes some memory, then some files, then more memory, and   *)
(* stops at the first file it cannot write: nothing is rolled back.        *)
(*                                                                         *)
(* One menu operation is one step.  Addresses and the other settings of an *)
(* object are left out.  A block of memory is called by the object it was  *)
(* allocated for; its contents may be renamed later.                       *)
(***************************************************************************)
EXTENDS Integers, FiniteSets, Sequences, SequencesExt, Functions

CONSTANTS
    HostParts, NetParts, ZoneParts,   \* the parts of a name host.network.zone
    NoPart,       \* the empty string
    Ifaces,       \* names of interfaces
    Firewall,     \* "firewall" or an empty field of a rule
    Broken,       \* a field that is not a name, ".zone"
    Disk,         \* the objects on disk at the start
    DiskRules,    \* the zone fields of the rules on disk, in order
    DiskBlocked,  \* the blocklist on disk
    MaxRef,       \* the counters are unsigned: 0 .. MaxRef
    MaxOps,       \* bound: menu operations
    MaxFailures   \* bound: calls to the backend that fail

Name == [host : HostParts \cup {NoPart}, net : NetParts \cup {NoPart}, zone : ZoneParts]
ZoneFile == [type : {"zone"}, name : [host : {NoPart}, net : {NoPart}, zone : ZoneParts]]
NetFile  == [type : {"network"}, name : [host : {NoPart}, net : NetParts, zone : ZoneParts]]
HostFile == [type : {"host", "group"}, name : [host : HostParts, net : NetParts, zone : ZoneParts]]
File     == ZoneFile \cup NetFile \cup HostFile

ZoneName(n) == [host |-> NoPart, net |-> NoPart, zone |-> n.zone]
NetName(n)  == [host |-> NoPart, net |-> n.net, zone |-> n.zone]

(* The objects that f must be in. *)
Parents(f) ==
    {p \in ZoneFile : f.type # "zone" /\ p.name = ZoneName(f.name)} \cup
    {p \in NetFile : f.type \in {"host", "group"} /\ p.name = NetName(f.name)}

Row == [active : BOOLEAN, MEMBER : SUBSET HostParts, INTERFACE : SUBSET Ifaces]

(* The hosts a group file names: members are looked up in its own network. *)
MemberFiles(f, row) ==
    {h \in HostFile : /\ h.type = "host" /\ f.type = "group"
                      /\ NetName(h.name) = NetName(f.name)
                      /\ h.name.host \in row.MEMBER}

ASSUME EditorAssumption ==
    /\ NoPart \notin HostParts \cup NetParts \cup ZoneParts
    /\ Firewall # Broken /\ {Firewall, Broken} \cap Name = {}
    /\ MaxRef \in Nat \ {0} /\ MaxOps \in Nat /\ MaxFailures \in Nat
    /\ DOMAIN Disk \subseteq File /\ Disk \in [DOMAIN Disk -> Row]
    /\ \A f \in DOMAIN Disk :
          /\ Parents(f) \subseteq DOMAIN Disk
          /\ MemberFiles(f, Disk[f]) \subseteq DOMAIN Disk
          /\ f.type # "group" => Disk[f].MEMBER = {}
          /\ f.type # "network" => Disk[f].INTERFACE = {}
    /\ DiskRules \in Seq(Name \cup {Firewall})
    /\ DiskBlocked \in Seq({f.name : f \in {g \in DOMAIN Disk : g.type \in {"host", "group"}}})

(* An unsigned int counts all the objects and all the lines of a blocklist. *)
ASSUME CountersFit ==
    /\ IsFiniteSet(File) /\ Cardinality(File) <= MaxRef
    /\ Len(DiskBlocked) + MaxOps <= MaxRef

VARIABLES
    disk,          \* the files of the zones, with what is in them
    zones,         \* the list of zones in memory, by block
    refcnt_network,\* the interfaces in memory, with their counter
    rules,         \* the zone fields of the rules in memory
    savedRules,    \* and in the backend
    blocked,       \* the blocklist in memory
    savedBlocked,  \* and in the backend
    ops,           \* operations so far
    failures,      \* failed calls so far
    outcome,       \* how the latest operation ended
    hurt           \* what went wrong since the start of vuurmuur_conf

memory  == <<zones, refcnt_network, rules, blocked>>
backend == <<disk, savedRules, savedBlocked>>
bounds  == <<ops, failures>>
vars    == <<memory, backend, bounds, outcome, hurt>>

ZoneData ==
    [type : {"zone", "network", "host", "group"}, name : Name, active : BOOLEAN,
     parents : SUBSET File, GroupList : SUBSET File, InterfaceList : SUBSET Ifaces,
     refcnt_group : 0..MaxRef, refcnt_blocklist : 0..MaxRef]

(* "fault": an operation stopped halfway.  "delete": one that had already
   counted down.  "torn": a rename that stopped before the objects below.
   "twin": a network was renamed while another zone had one of the same name.
   "clash": a rename to a name that was in use.  "blind": an item that was not
   counted is in the blocklist.  "stray": a file names a member or an interface
   that is not there. *)
Harms == {"fault", "delete", "torn", "twin", "clash", "blind", "stray"}

TypeOK ==
    /\ DOMAIN disk \subseteq File /\ disk \in [DOMAIN disk -> Row]
    /\ DOMAIN zones \subseteq File /\ zones \in [DOMAIN zones -> ZoneData]
    /\ DOMAIN refcnt_network \subseteq Ifaces
    /\ refcnt_network \in [DOMAIN refcnt_network -> 0..MaxRef]
    /\ rules \in Seq(Name \cup {Firewall, Broken})
    /\ savedRules \in Seq(Name \cup {Firewall, Broken})
    /\ blocked \in Seq(Name) /\ savedBlocked \in Seq(Name)
    /\ ops \in 0..MaxOps /\ failures \in 0..MaxFailures
    /\ outcome \in {"started", "ok", "failed"}
    /\ hurt \subseteq Harms

-----------------------------------------------------------------------------
(* Reading memory and counting. *)

Search(n) == {b \in DOMAIN zones : zones[b].name = n}
FileOf(b) == [type |-> zones[b].type, name |-> zones[b].name]
Holds(b, f) == b \in DOMAIN zones /\ FileOf(b) = f
Groups(m) == {b \in DOMAIN m : m[b].type = "group"}
Occurrences(n, s) == Cardinality({i \in DOMAIN s : s[i] = n})

Up(n)   == (n + 1) % (MaxRef + 1)
Down(n) == (n + MaxRef) % (MaxRef + 1)

(* count_zones over the children of the object in block b. *)
Empty(b) ==
    \A c \in DOMAIN zones \ {b} :
        \/ zones[b].type \in {"host", "group"}
        \/ zones[b].type = "network"
            /\ ~ (zones[c].type \in {"host", "group"} /\ NetName(zones[c].name) = zones[b].name)
        \/ zones[b].type = "zone"
            /\ ~ (zones[c].type # "zone" /\ ZoneName(zones[c].name) = zones[b].name)

(* Nothing in memory points at a block that was freed. *)
Defined ==
    \A b \in DOMAIN zones : /\ zones[b].GroupList \subseteq DOMAIN zones
                            /\ zones[b].InterfaceList \subseteq DOMAIN refcnt_network

-----------------------------------------------------------------------------
(* Starting: everything is read from the backend.  Members and interfaces that
   are not there are dropped, and so is a rule that does not parse. *)

LoadedMembers(d, f) == MemberFiles(f, d[f]) \cap DOMAIN d

(* blocklist_add_one counts an item only when it is an active host or group. *)
Countable(d, n) == \E f \in DOMAIN d : f.name = n /\ f.type \in {"host", "group"} /\ d[f].active

LoadedZones(d, s, interfaces) ==
    [f \in DOMAIN d |->
        [type |-> f.type, name |-> f.name, active |-> d[f].active,
         parents |-> Parents(f),
         GroupList |-> LoadedMembers(d, f),
         InterfaceList |-> d[f].INTERFACE \cap interfaces,
         refcnt_group |-> Cardinality({g \in DOMAIN d : f \in LoadedMembers(d, g)}) % (MaxRef + 1),
         refcnt_blocklist |-> IF f.type \in {"host", "group"} /\ d[f].active
                              THEN Occurrences(f.name, s) % (MaxRef + 1) ELSE 0]]

LoadedCounters(d, interfaces) ==
    [i \in interfaces |-> Cardinality({f \in DOMAIN d : i \in d[f].INTERFACE}) % (MaxRef + 1)]

(* A list that is read line by line, without the lines that are not in S. *)
Selected(s, S) ==
    LET read[i \in 0..Len(s)] ==
          IF i = 0 THEN <<>>
          ELSE IF s[i] \in S THEN Append(read[i - 1], s[i]) ELSE read[i - 1]
    IN  read[Len(s)]

LoadedBlocked(s, d) ==
    Selected(s, {n \in Name : /\ [type |-> "network", name |-> n] \notin DOMAIN d
                              /\ [type |-> "zone", name |-> n] \notin DOMAIN d})

LoadedRules(r) == Selected(r, Name \cup {Firewall})

(* What is wrong with what was read. *)
BlindIn(s, d) == IF \E i \in DOMAIN s : ~ Countable(d, s[i]) THEN {"blind"} ELSE {}

ClashIn(d) == IF \E f, g \in DOMAIN d : f # g /\ f.name = g.name THEN {"clash"} ELSE {}

StrayIn(d, interfaces) ==
    IF \A f \in DOMAIN d : /\ MemberFiles(f, d[f]) \subseteq DOMAIN d
                          /\ d[f].INTERFACE \subseteq interfaces
    THEN {} ELSE {"stray"}

Init ==
    /\ disk = Disk
    /\ zones = LoadedZones(Disk, DiskBlocked, Ifaces)
    /\ refcnt_network = LoadedCounters(Disk, Ifaces)
    /\ rules = DiskRules /\ savedRules = DiskRules
    /\ blocked = DiskBlocked /\ savedBlocked = DiskBlocked
    /\ ops = 0 /\ failures = 0
    /\ outcome = "started"
    /\ hurt = BlindIn(DiskBlocked, Disk) \cup ClashIn(Disk)

-----------------------------------------------------------------------------
(* Writing.  A list is saved value by value, the first one replacing what was
   there: a save that stops leaves the old list or a part of the new one. *)

Torn(old, new)     == {old} \cup {s \in SUBSET new : s # {} /\ s # new}
TornList(old, new) == {old} \cup {s \in Prefixes(new) : s # <<>> /\ s # new}

ListSaved(old, new, ok) == IF ok THEN {new} ELSE TornList(old, new)

HostNames(m, g) == {m[h].name.host : h \in m[g].GroupList}

(* zones_group_save_members and zones_network_save_interfaces: a file that is
   not there cannot be written. *)
MembersSaved(d, m, g, ok) ==
    LET f == [type |-> m[g].type, name |-> m[g].name] IN
    IF f \notin DOMAIN d THEN {d}
    ELSE {[d EXCEPT ![f].MEMBER = s] :
             s \in IF ok THEN {HostNames(m, g)} ELSE Torn(d[f].MEMBER, HostNames(m, g))}

InterfacesSaved(d, m, n, ok) ==
    LET f == [type |-> m[n].type, name |-> m[n].name] IN
    IF f \notin DOMAIN d THEN {d}
    ELSE {[d EXCEPT ![f].INTERFACE = s] :
             s \in IF ok THEN {m[n].InterfaceList} ELSE Torn(d[f].INTERFACE, m[n].InterfaceList)}

With(fn, x, v) == [y \in DOMAIN fn \cup {x} |-> IF y = x THEN v ELSE fn[y]]
Without(fn, x) == Restrict(fn, DOMAIN fn \ {x})

Begin(fault) ==
    /\ ops < MaxOps /\ ops' = ops + 1
    /\ Defined
    /\ fault => failures < MaxFailures
    /\ failures' = failures + (IF fault THEN 1 ELSE 0)

End(ok, harms) ==
    /\ outcome' = IF ok THEN "ok" ELSE "failed"
    /\ hurt' = hurt \cup harms

Halfway(ok) == IF ok THEN {} ELSE {"fault"}

-----------------------------------------------------------------------------
(* Create, delete, activate. *)

NewData(f) ==
    [type |-> f.type, name |-> f.name, active |-> FALSE,
     parents |-> {b \in DOMAIN zones : FileOf(b) \in Parents(f)},
     GroupList |-> {}, InterfaceList |-> {}, refcnt_group |-> 0, refcnt_blocklist |-> 0]

FreeBlock(f) == IF f \notin DOMAIN zones THEN f ELSE CHOOSE b \in File \ DOMAIN zones : TRUE

(* The object is in the list before it is in the backend, and stays there when
   it cannot be added. *)
NewZone(f, fault) ==
    LET created == With(disk, f, [active |-> FALSE, MEMBER |-> {}, INTERFACE |-> {}])
        fits == f \notin DOMAIN disk /\ Parents(f) \subseteq DOMAIN disk
    IN
    /\ Begin(fault)
    /\ Search(f.name) = {}
    /\ \A p \in Parents(f) : \E b \in DOMAIN zones : Holds(b, p)
    /\ DOMAIN zones # File
    /\ zones' = With(zones, FreeBlock(f), NewData(f))
    /\ disk' \in IF ~fits THEN {disk} ELSE IF fault THEN {disk, created} ELSE {created}
    /\ End(fits /\ ~fault, Halfway(fits /\ disk' = created))
    /\ UNCHANGED <<refcnt_network, rules, blocked, savedRules, savedBlocked>>

(* The counters go down before the backend is asked. *)
Released(b) ==
    <<[c \in DOMAIN zones |-> IF c \in zones[b].GroupList
                              THEN [zones[c] EXCEPT !.refcnt_group = Down(@)] ELSE zones[c]],
      [i \in DOMAIN refcnt_network |-> IF i \in zones[b].InterfaceList
                                       THEN Down(refcnt_network[i]) ELSE refcnt_network[i]]>>

Referenced_BlocklistOnly(b) ==
    zones[b].type \in {"host", "group"} /\ zones[b].refcnt_blocklist > 0

Referenced(b) ==
    \/ zones[b].type = "host" /\ zones[b].refcnt_group > 0
    \/ zones[b].type \in {"host", "group"} /\ zones[b].refcnt_blocklist > 0

DeleteZone(b, fault) ==
    LET f  == FileOf(b)
        ok == ~fault /\ f \in DOMAIN disk /\ \A g \in DOMAIN disk : f \notin Parents(g)
    IN
    /\ Begin(fault)
    /\ ~ Referenced(b)
    /\ Empty(b)
    /\ zones' = IF ok THEN Without(Released(b)[1], b) ELSE Released(b)[1]
    /\ refcnt_network' = Released(b)[2]
    /\ disk' = IF ok THEN Without(disk, f) ELSE disk
    /\ End(ok, IF ok \/ Released(b) = <<zones, refcnt_network>> THEN {} ELSE {"delete"})
    /\ UNCHANGED <<rules, blocked, savedRules, savedBlocked>>

SetActive(b, fault) ==
    LET ok == ~fault /\ FileOf(b) \in DOMAIN disk IN
    /\ Begin(fault)
    /\ zones' = [zones EXCEPT ![b].active = ~@]
    /\ disk' = IF ok THEN [disk EXCEPT ![FileOf(b)].active = zones'[b].active] ELSE disk
    /\ End(ok, Halfway(ok))
    /\ UNCHANGED <<refcnt_network, rules, blocked, savedRules, savedBlocked>>

-----------------------------------------------------------------------------
(* Members of groups, interfaces of networks. *)

AddMember_Uncounted(g, h, fault) ==
    LET ok == ~fault /\ FileOf(g) \in DOMAIN disk IN
    /\ Begin(fault)
    /\ zones[g].type = "group" /\ zones[h].type = "host"
    /\ NetName(zones[g].name) = NetName(zones[h].name)
    /\ \A m \in zones[g].GroupList : zones[m].name # zones[h].name
    /\ zones' = [zones EXCEPT ![g].GroupList = @ \cup {h}]
    /\ disk' \in MembersSaved(disk, zones', g, ok)
    /\ End(ok, Halfway(ok))
    /\ UNCHANGED <<refcnt_network, rules, blocked, savedRules, savedBlocked>>

AddMember(g, h, fault) ==
    LET ok == ~fault /\ FileOf(g) \in DOMAIN disk IN
    /\ Begin(fault)
    /\ zones[g].type = "group" /\ zones[h].type = "host"
    /\ NetName(zones[g].name) = NetName(zones[h].name)
    /\ \A m \in zones[g].GroupList : zones[m].name # zones[h].name
    /\ zones' = [zones EXCEPT ![g].GroupList = @ \cup {h}, ![h].refcnt_group = Up(@)]
    /\ disk' \in MembersSaved(disk, zones', g, ok)
    /\ End(ok, Halfway(ok))
    /\ UNCHANGED <<refcnt_network, rules, blocked, savedRules, savedBlocked>>

RemMember(g, m, fault) ==
    LET ok == ~fault /\ FileOf(g) \in DOMAIN disk IN
    /\ Begin(fault)
    /\ m \in zones[g].GroupList
    /\ zones' = [zones EXCEPT ![g].GroupList = @ \ {m}, ![m].refcnt_group = Down(@)]
    /\ disk' \in MembersSaved(disk, zones', g, ok)
    /\ End(ok, Halfway(ok))
    /\ UNCHANGED <<refcnt_network, rules, blocked, savedRules, savedBlocked>>

AddIface(n, i, fault) ==
    LET ok == ~fault /\ FileOf(n) \in DOMAIN disk IN
    /\ Begin(fault)
    /\ zones[n].type = "network" /\ i \notin zones[n].InterfaceList
    /\ zones' = [zones EXCEPT ![n].InterfaceList = @ \cup {i}]
    /\ refcnt_network' = [refcnt_network EXCEPT ![i] = Up(@)]
    /\ disk' \in InterfacesSaved(disk, zones', n, ok)
    /\ End(ok, Halfway(ok))
    /\ UNCHANGED <<rules, blocked, savedRules, savedBlocked>>

RemIface(n, i, fault) ==
    LET ok == ~fault /\ FileOf(n) \in DOMAIN disk IN
    /\ Begin(fault)
    /\ i \in zones[n].InterfaceList
    /\ zones' = [zones EXCEPT ![n].InterfaceList = @ \ {i}]
    /\ refcnt_network' = [refcnt_network EXCEPT ![i] = Down(@)]
    /\ disk' \in InterfacesSaved(disk, zones', n, ok)
    /\ End(ok, Halfway(ok))
    /\ UNCHANGED <<rules, blocked, savedRules, savedBlocked>>

(* One that fails changes nothing. *)
DeleteIface(i) ==
    /\ Begin(FALSE)
    /\ refcnt_network[i] = 0
    /\ refcnt_network' = Without(refcnt_network, i)
    /\ End(TRUE, {})
    /\ UNCHANGED <<zones, rules, blocked, backend>>

-----------------------------------------------------------------------------
(* The blocklist.  The dialog saves it when it is closed. *)

Counted(b) == zones[b].type \in {"host", "group"} /\ zones[b].active

Block(b, fault) ==
    /\ Begin(fault)
    /\ zones[b].type \in {"host", "group"}
    /\ zones' = IF Counted(b) THEN [zones EXCEPT ![b].refcnt_blocklist = Up(@)] ELSE zones
    /\ blocked' = Append(blocked, zones[b].name)
    /\ savedBlocked' \in ListSaved(savedBlocked, blocked', ~fault)
    /\ End(~fault, Halfway(~fault) \cup IF zones[b].active THEN {} ELSE {"blind"})
    /\ UNCHANGED <<refcnt_network, rules, disk, savedRules>>

Unblock(n, fault) ==
    /\ Begin(fault)
    /\ zones' \in IF Search(n) = {} THEN {zones}
                  ELSE {[zones EXCEPT ![b].refcnt_blocklist = IF @ > 0 THEN @ - 1 ELSE 0] :
                           b \in Search(n)}
    /\ blocked' = RemoveFirst(blocked, n)
    /\ savedBlocked' \in ListSaved(savedBlocked, blocked', ~fault)
    /\ End(~fault, Halfway(~fault))
    /\ UNCHANGED <<refcnt_network, rules, disk, savedRules>>

-----------------------------------------------------------------------------
(* Renaming a host or a group: the file, the object, the rules, the blocklist
   and, for a host, the groups it is in.  at is the part that fails. *)

GroupsNaming(m, n) ==
    {g \in Groups(m) : \E h \in m[g].GroupList : m[h].name = n}

AllSaved(d, m, S) ==
    [f \in DOMAIN d |->
        IF \E g \in S : m[g].name = f.name /\ f.type = "group"
        THEN [d[f] EXCEPT !.MEMBER = HostNames(m, CHOOSE g \in S : m[g].name = f.name)]
        ELSE d[f]]

GroupsSaved_Forgotten(d, m, S, ok) == {d}

GroupsSaved(d, m, S, ok) ==
    IF ok THEN {AllSaved(d, m, S)}
    ELSE UNION {MembersSaved(AllSaved(d, m, T), m, g, FALSE) : T \in SUBSET S, g \in S}

Written(d, m, S) == \A g \in S : [type |-> "group", name |-> m[g].name] \in DOMAIN d

RenameHostGroup(b, part, at) ==
    LET old     == zones[b].name
        new     == [old EXCEPT !.host = part]
        from    == FileOf(b)
        to      == [from EXCEPT !.name = new]
        renamed == [zones EXCEPT ![b].name = new]
        groups  == IF zones[b].type = "host" THEN GroupsNaming(renamed, new) ELSE {}
        moved   == With(Without(disk, from), to, disk[from])
        ok      == at = "none" /\ Written(moved, renamed, groups)
        taken   == IF Search(new) # {} \/ to \in DOMAIN disk THEN {"clash"} ELSE {}
    IN
    /\ Begin(at # "none")
    /\ zones[b].type \in {"host", "group"} /\ part # old.host
    /\ at = "rules" => Contains(rules, old)
    /\ at = "blocklist" => Contains(blocked, old)
    /\ at = "groups" => groups # {}
    /\ IF at = "rename" \/ from \notin DOMAIN disk
       THEN /\ End(FALSE, {})
            /\ UNCHANGED <<memory, backend>>
       ELSE /\ zones' = renamed
            /\ rules' = ReplaceAll(rules, old, new)
            /\ savedRules' \in IF Contains(rules, old)
                               THEN ListSaved(savedRules, rules', at # "rules") ELSE {savedRules}
            /\ blocked' = IF at = "rules" THEN blocked ELSE ReplaceAll(blocked, old, new)
            /\ savedBlocked' \in IF blocked' # blocked
                                 THEN ListSaved(savedBlocked, blocked', at # "blocklist")
                                 ELSE {savedBlocked}
            /\ disk' \in IF at \in {"rules", "blocklist"} THEN {moved}
                         ELSE GroupsSaved(moved, renamed, groups, ok)
            /\ End(ok, Halfway(ok) \cup taken)
            /\ UNCHANGED refcnt_network

-----------------------------------------------------------------------------
(* Renaming a network or a zone: the directory, the object, the blocklist, the
   objects below it, the rules. *)

(* The names that are changed: for a network all that have its network part,
   whatever their zone. *)
Touched(t, old, n) == IF t = "network" THEN n.net = old.net ELSE n.zone = old.zone

Replaced(t, n, part) ==
    IF t = "network" THEN [host |-> n.host, net |-> part, zone |-> n.zone]
    ELSE [host |-> n.host, net |-> n.net, zone |-> part]

(* The directory takes along what is in it. *)
Moved(f, top, part) ==
    IF f = top \/ top \in Parents(f)
    THEN [type |-> f.type, name |-> Replaced(top.type, f.name, part)] ELSE f

DirMoved(d, top, part) ==
    [g \in {Moved(f, top, part) : f \in DOMAIN d} |->
        d[CHOOSE f \in DOMAIN d : Moved(f, top, part) = g]]

ItemRenamed(t, old, n, part) ==
    IF Search(n) # {} /\ Touched(t, old, n) THEN Replaced(t, n, part) ELSE n

(* A field that names the zone itself is written as ".zone". *)
FieldRenamed_Kept(t, old, n, part) == n

FieldRenamed(t, old, n, part) ==
    IF n \in {Firewall, Broken} THEN n
    ELSE IF ~ Touched(t, old, n) THEN n
    ELSE IF t = "zone" /\ n = ZoneName(n) THEN Broken
    ELSE Replaced(t, n, part)

(* The walk over the rules stops at a field that is not a name. *)
FieldsRenamed(t, old, part) ==
    LET Before(i) == \A j \in 1..i : rules[j] # Broken IN
    [i \in DOMAIN rules |-> IF Before(i) THEN FieldRenamed(t, old, rules[i], part) ELSE rules[i]]

RenamedBelow(t, old, b, part) ==
    [c \in DOMAIN zones |->
        IF c = b \/ /\ Touched(t, old, zones[c].name)
                    /\ zones[c].type \in (IF t = "network" THEN {"host", "group"}
                                          ELSE {"network", "host", "group"})
        THEN [zones[c] EXCEPT !.name = Replaced(t, @, part)] ELSE zones[c]]

HasTwin(b) ==
    /\ zones[b].type = "network"
    /\ \E c \in DOMAIN zones \ {b} :
          zones[c].type = "network" /\ zones[c].name.net = zones[b].name.net

RenameNetworkZone(b, part, at) ==
    LET t      == zones[b].type
        old    == zones[b].name
        new    == Replaced(t, old, part)
        from   == FileOf(b)
        to     == [from EXCEPT !.name = new]
        fields == FieldsRenamed(t, old, part)
        parses == ~ Contains(rules, Broken)
        ok     == at = "none" /\ parses
        harms  == (IF HasTwin(b) THEN {"twin"} ELSE {})
                  \cup (IF Search(new) # {} THEN {"clash"} ELSE {})
        items  == [i \in DOMAIN blocked |-> ItemRenamed(t, old, blocked[i], part)]
    IN
    /\ Begin(at # "none")
    /\ t \in {"network", "zone"} /\ new # old
    /\ part \in (IF t = "network" THEN NetParts ELSE ZoneParts)
    /\ at = "blocklist" => items # blocked
    /\ at = "rules" => parses /\ fields # rules
    /\ IF at = "rename" \/ from \notin DOMAIN disk \/ to \in DOMAIN disk
       THEN /\ End(FALSE, {})
            /\ UNCHANGED <<memory, backend>>
       ELSE /\ disk' = DirMoved(disk, from, part)
            /\ blocked' = items
            /\ savedBlocked' \in IF items = blocked THEN {savedBlocked}
                                 ELSE ListSaved(savedBlocked, items, at # "blocklist")
            /\ zones' = IF at = "blocklist" THEN [zones EXCEPT ![b].name = new]
                        ELSE RenamedBelow(t, old, b, part)
            /\ rules' = IF at = "blocklist" THEN rules ELSE fields
            /\ savedRules' \in IF rules' = rules \/ ~parses THEN {savedRules}
                               ELSE ListSaved(savedRules, fields, at # "rules")
            /\ End(ok, Halfway(ok) \cup harms \cup IF at = "blocklist" THEN {"torn"} ELSE {})
            /\ UNCHANGED refcnt_network

-----------------------------------------------------------------------------
(* vuurmuur_conf is left, or dies, and is started again. *)
Restart ==
    /\ ops < MaxOps /\ ops' = ops + 1
    /\ blocked' = LoadedBlocked(savedBlocked, disk)
    /\ rules' = LoadedRules(savedRules)
    /\ zones' = LoadedZones(disk, blocked', DOMAIN refcnt_network)
    /\ refcnt_network' = LoadedCounters(disk, DOMAIN refcnt_network)
    /\ outcome' = "started"
    /\ hurt' = BlindIn(blocked', disk) \cup ClashIn(disk) \cup StrayIn(disk, DOMAIN refcnt_network)
    /\ UNCHANGED <<backend, failures>>

Done == ops = MaxOps /\ UNCHANGED vars

Stages == {"none", "rename", "rules", "blocklist", "groups"}

Next ==
    \/ \E f \in File, fault \in BOOLEAN : NewZone(f, fault)
    \/ \E b \in DOMAIN zones, fault \in BOOLEAN :
          DeleteZone(b, fault) \/ SetActive(b, fault) \/ Block(b, fault)
    \/ \E g, h \in DOMAIN zones, fault \in BOOLEAN : AddMember(g, h, fault) \/ RemMember(g, h, fault)
    \/ \E n \in DOMAIN zones, i \in DOMAIN refcnt_network, fault \in BOOLEAN :
          AddIface(n, i, fault) \/ RemIface(n, i, fault)
    \/ \E i \in DOMAIN refcnt_network : DeleteIface(i)
    \/ \E n \in ToSet(blocked), fault \in BOOLEAN : Unblock(n, fault)
    \/ \E b \in DOMAIN zones, part \in HostParts, at \in Stages : RenameHostGroup(b, part, at)
    \/ \E b \in DOMAIN zones, part \in NetParts \cup ZoneParts, at \in Stages \ {"groups"} :
          RenameNetworkZone(b, part, at)
    \/ Restart
    \/ Done

Spec == Init /\ [][Next]_vars

-----------------------------------------------------------------------------
(* Properties. *)

MembersCounted ==
    /\ \A h \in DOMAIN zones :
          zones[h].refcnt_group = Cardinality({g \in DOMAIN zones : h \in zones[g].GroupList})
    /\ \A i \in DOMAIN refcnt_network :
          refcnt_network[i] = Cardinality({n \in DOMAIN zones : i \in zones[n].InterfaceList})

BlocklistCounted ==
    /\ \A b \in DOMAIN zones : zones[b].refcnt_blocklist = Occurrences(zones[b].name, blocked)
    /\ \A i \in DOMAIN blocked : Search(blocked[i]) # {}

(* The counters of hosts and interfaces say how many groups and networks point
   at them, unless a delete failed after it had counted down; and, if nothing
   went wrong, a host or group is counted as often as it is in the blocklist,
   and what is in the blocklist exists: nothing that is in use or blocked can be
   deleted (delete_zone, zones_group_add_member, zones_network_add_iface,
   blocklist_add_one, blocklist_rem_one and the loading). *)
ReferencesCounted ==
    /\ "delete" \notin hurt => MembersCounted
    /\ hurt = {} => BlocklistCounted

(* Nothing in memory points at an object that was freed: the counters keep
   members and interfaces alive unless such a delete came first, and the counting
   of children by name keeps parents alive as long as every rename has changed
   the names of the children, and only theirs (delete_zone, count_zones). *)
PointersLive ==
    /\ "delete" \notin hurt => Defined
    /\ hurt \cap {"torn", "twin", "clash"} = {} =>
         \A b \in DOMAIN zones : zones[b].parents \subseteq DOMAIN zones

View(m) ==
    {[type |-> m[b].type, name |-> m[b].name, active |-> m[b].active,
      members |-> {m[h].name : h \in m[b].GroupList}, interfaces |-> m[b].InterfaceList,
      refcnt_group |-> m[b].refcnt_group] : b \in DOMAIN m}

(* As long as nothing went wrong, memory is what a restart would load: every
   operation, renames above all, has changed all the files that it should. *)
RestartChangesNothing ==
    hurt \subseteq {"blind"} /\ ~ Contains(rules, Broken) =>
        /\ View(zones) = View(LoadedZones(disk, blocked, DOMAIN refcnt_network))
        /\ refcnt_network = LoadedCounters(disk, DOMAIN refcnt_network)
        /\ blocked = LoadedBlocked(savedBlocked, disk)
        /\ rules = LoadedRules(savedRules)

Renames ==
    /\ outcome' = "ok" /\ DOMAIN zones' = DOMAIN zones
    /\ \E b \in DOMAIN zones : zones'[b].name # zones[b].name

(* After a rename that was reported as done every rule and every item of the
   blocklist refers to the object it referred to before, if nothing had gone
   wrong and no rule names a zone (the two rename functions). *)
ReferencesFollow ==
    [][Renames /\ hurt' = {} /\ ~ Contains(rules', Broken) =>
          /\ \A i \in DOMAIN rules : \A b \in Search(rules[i]) : rules'[i] = zones'[b].name
          /\ \A i \in DOMAIN blocked : \A b \in Search(blocked[i]) : blocked'[i] = zones'[b].name
      ]_vars

=============================================================================
