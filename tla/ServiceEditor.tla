---------------------------- MODULE ServiceEditor ----------------------------
(***************************************************************************)
(* The services in vuurmuur_conf: the menu of services, the form of one    *)
(* service, the menu of its portranges, and the files and the rules that   *)
(* change with them.                                                       *)
(*                                                                         *)
(* The menu of portranges is built from memory and names each range by its *)
(* place; it is built again after a change that went well.  A change of    *)
(* the ranges is saved at once, and all of it again when the form is left. *)
(*                                                                         *)
(* A visit to a form of ports is one step.  A name is a number, which      *)
(* orders the names.                                                       *)
(***************************************************************************)
EXTENDS ServiceText

CONSTANTS
    Names,        \* what files in the directory of the services can be called
    BadNames,     \* those that are not taken for a service, such as Makefile
    DiskServices, \* the files at the start
    DiskRules,    \* the service of each rule in the backend
    Entered,      \* what can be entered in the form of TCP and UDP
    EnteredICMP,  \* types and codes that can be entered
    EnteredOther, \* numbers of protocols that can be entered
    Leftover,     \* what fresh memory can hold
    MaxRanges,    \* bound: ranges in memory for which another is made
    MaxOps        \* bound: changes

VARIABLES
    disk,         \* the files of the services
    services,     \* the list of services in memory
    savedRules,   \* the service of each rule in the backend
    rules,        \* and in memory
    screen,       \* "down", "services", "service" or "ports"
    hidden,       \* the services that are not in the menu
    cur,          \* the place of the service in the form
    shown,        \* the menu of portranges
    unchecked,    \* was a number left or put in that is not looked at?
    gone,         \* names that were deleted, or renamed halfway: see Back
    ops

vars == <<disk, services, savedRules, rules, screen, hidden, cur, shown, unchecked,
          gone, ops>>

(* saved: the last save of the service was complete, and nothing has       *)
(* changed since.                                                          *)
ServicesData == [name : Names, active : BOOLEAN, broadcast : BOOLEAN,
                 PortrangeList : Seq(Portdata), saved : BOOLEAN]

ASSUME ServiceAssumption ==
    /\ Names \subseteq Nat /\ BadNames \subseteq Names
    /\ DOMAIN DiskServices \subseteq Names /\ IsFiniteSet(DOMAIN DiskServices)
    /\ DiskServices \in [DOMAIN DiskServices -> Line]
    /\ DiskRules \in Seq(Names)
    /\ \A i \in DOMAIN DiskRules : DiskRules[i] \in DOMAIN DiskServices \ BadNames
    /\ \A p \in Entered \cup Leftover : p \in Portdata
    /\ \A p \in Entered : \A n \in Numbers(p) :
          -9999 <= n /\ n <= 99999    \* the fields take five characters
    /\ EnteredICMP \subseteq Nat \X Nat /\ EnteredOther \subseteq 0 .. 255
    /\ MaxRanges \in Nat /\ MaxOps \in Nat

ValidName(name) == name \notin BadNames

TypeOK ==
    /\ DOMAIN disk \subseteq Names /\ \A n \in DOMAIN disk : disk[n] \in Line
    /\ services \in Seq(ServicesData)
    /\ savedRules \in Seq(Names) /\ rules \in Seq(Names)
    /\ screen \in {"down", "services", "service", "ports"}
    /\ hidden \subseteq Names /\ gone \subseteq Names
    /\ cur \in 0 .. Len(services) /\ (cur = 0 <=> screen \in {"down", "services"})
    /\ shown \in Seq(Portdata)
    /\ unchecked \in BOOLEAN /\ ops \in 0 .. MaxOps

(***************************************************************************)
(* The list in memory.                                                     *)
(***************************************************************************)

(* Before the first that is not smaller. *)
InsertService(list, service) ==
    LET before == {i \in DOMAIN list : service.name <= list[i].name}
        place  == IF before = {} THEN Len(list) + 1
                  ELSE CHOOSE i \in before : \A j \in before : i <= j
    IN  InsertAt(list, place, service)

ReadService(name, row) ==
    [name |-> name, active |-> row.ACTIVE, broadcast |-> row.BROADCAST,
     PortrangeList |-> ReadRanges(row), saved |-> FALSE]

(* All files with a good name.  Put in one by one, in the order of the     *)
(* directory, they come to be in the order of their names: one list.       *)
ServiceFiles == {n \in DOMAIN disk : ValidName(n)}
InitServices ==
    {list \in [1 .. Cardinality(ServiceFiles) -> {ReadService(n, disk[n]) : n \in ServiceFiles}] :
        \A i, j \in DOMAIN list : i < j => list[i].name < list[j].name}
Loads == \A n \in ServiceFiles : ~ReadFails(disk[n])

SearchService(list, name) == SelectInSeq(list, LAMBDA s : s.name = name)

-----------------------------------------------------------------------------
Init ==
    /\ disk = DiskServices
    /\ savedRules = DiskRules
    /\ services = << >> /\ rules = << >>
    /\ screen = "down" /\ hidden = {} /\ cur = 0 /\ shown = << >>
    /\ unchecked = FALSE /\ gone = {} /\ ops = 0

Counted == ops < MaxOps /\ ops' = ops + 1

(* vuurmuur_conf does not start if one service cannot be read. *)
Start ==
    /\ screen = "down" /\ Loads
    /\ services' \in InitServices /\ rules' = savedRules
    /\ screen' = "services"
    /\ UNCHANGED <<disk, savedRules, hidden, cur, shown, unchecked, gone, ops>>

(* It is left, or it is killed. *)
Quit ==
    /\ screen # "down"
    /\ screen' = "down" /\ services' = << >> /\ rules' = << >>
    /\ cur' = 0 /\ shown' = << >> /\ hidden' = {}
    /\ UNCHANGED <<disk, savedRules, unchecked, gone, ops>>

(***************************************************************************)
(* The menu of services.                                                   *)
(***************************************************************************)

ReopenSection ==
    /\ screen = "services" /\ hidden # {}
    /\ hidden' = {}
    /\ UNCHANGED <<disk, services, savedRules, rules, screen, cur, shown, unchecked,
                   gone, ops>>

Form(i) == screen' = "service" /\ cur' = i /\ shown' = << >>

EditService(i) ==
    /\ screen = "services" /\ services[i].name \notin hidden
    /\ Form(i)
    /\ UNCHANGED <<disk, services, savedRules, rules, hidden, unchecked, gone, ops>>

NewServiceData(name) ==
    [name |-> name, active |-> FALSE, broadcast |-> FALSE, PortrangeList |-> << >>,
     saved |-> FALSE]

(* The names that are gone once there are these files and these rules: a   *)
(* name with a file is back, unless only the backend's rules have it.      *)
Back(files, saved, list) == gone \ (DOMAIN files \ (Range(saved) \ Range(list)))

(* In memory first; then the file, which must not be there yet, and two    *)
(* fields of it, which are as the new file has them.                       *)
NewService(name) ==
    /\ screen = "services" /\ Counted
    /\ ValidName(name) /\ SearchService(services, name) = 0
    /\ services' = InsertService(services, NewServiceData(name))
    /\ LET row == [ACTIVE |-> FALSE, BROADCAST |-> FALSE, RANGE |-> << >>, OLD |-> << >>]
           new == [n \in DOMAIN disk \cup {name} |-> IF n = name THEN row ELSE disk[n]]
       IN  \/ /\ name \notin DOMAIN disk
              /\ disk' = new /\ hidden' = {} /\ gone' = Back(new, savedRules, rules)
              /\ Form(SearchService(services', name))
           \/ /\ disk' \in {disk} \cup (IF name \in DOMAIN disk THEN {} ELSE {new})
              /\ hidden' = hidden \cup {name}
              /\ UNCHANGED <<screen, cur, shown, gone>>
    /\ UNCHANGED <<savedRules, rules, unchecked>>

(* Others of that name have lost their file. *)
Unsaved(list, names) ==
    [s \in DOMAIN list |-> [list[s] EXCEPT !.saved = @ /\ list[s].name \notin names]]

(* The file first; then the first service of the name in memory.  The      *)
(* rules are not looked at.                                                *)
DeleteService(i) ==
    LET name == services[i].name
        left == RemoveAt(services, SearchService(services, name))
    IN  /\ screen = "services" /\ name \notin hidden /\ Counted
        /\ name \in DOMAIN disk
        /\ disk' = [n \in DOMAIN disk \ {name} |-> disk[n]]
        /\ services' = Unsaved(left, {name})
        /\ gone' = gone \cup {name} /\ hidden' = {}
        /\ UNCHANGED <<savedRules, rules, screen, cur, shown, unchecked>>

(* mutant: the rules keep the old name *)
Renamed_Not(list, old, new) == list

Renamed(list, old, new) == [r \in DOMAIN list |-> IF list[r] = old THEN new ELSE list[r]]

(* After n rules were told. *)
ToldRules(list, n) == IF n = 0 THEN savedRules ELSE SubSeq(list, 1, n)

(* The file, whatever has the new name; the name in memory; the rules in   *)
(* memory; and the rules in the backend, if one of them changed.           *)
RenameService(i, name) ==
    LET old   == services[i].name
        first == SearchService(services, old)
        kept  == services[first].saved
        new   == Renamed(rules, old, name)
    IN  /\ screen = "services" /\ old \notin hidden /\ Counted
        /\ ValidName(name) /\ (name = old \/ old \in DOMAIN disk)
        /\ disk' = IF name = old THEN disk
                   ELSE [n \in (DOMAIN disk \ {old}) \cup {name} |->
                            IF n = name THEN disk[old] ELSE disk[n]]
        /\ services' = [Unsaved(services, {old, name}) EXCEPT
                           ![first].name = name, ![first].saved = kept]
        /\ rules' = new
        /\ \/ /\ savedRules' = IF \E r \in DOMAIN rules : rules[r] = old THEN new ELSE savedRules
              /\ gone' = Back(disk', savedRules', rules') /\ hidden' = {}
           \/ /\ \E r \in DOMAIN rules : rules[r] = old
              /\ \E n \in 0 .. Len(new) - 1 : savedRules' = ToldRules(new, n)
              /\ gone' = gone \cup {old}
              /\ UNCHANGED hidden
        /\ UNCHANGED <<screen, cur, shown, unchecked>>

(***************************************************************************)
(* Saving.                                                                 *)
(***************************************************************************)

Current == services[cur]

(* How many values the backend takes of the ranges of the service. *)
Told(list, files) ==
    0 .. (IF list[cur].name \in DOMAIN files THEN CanTell(list[cur].PortrangeList) ELSE 0)
Complete(list, n) == n = ToTell(list[cur].PortrangeList)

(* The first n of them are in the file.  same: so are the fields. *)
SavePortranges(list, files, same, n) ==
    LET name == list[cur].name
    IN  /\ disk' = IF name \notin DOMAIN files THEN files
                   ELSE [files EXCEPT ![name].RANGE = SavedRanges(@, list[cur].PortrangeList, n)]
        /\ services' = [Unsaved(list, {name}) EXCEPT ![cur].saved = same /\ Complete(list, n)]

(* Yes or no in the two fields of the form; each is told if it was changed. *)
CloseService(active, broadcast) ==
    LET list == [services EXCEPT ![cur].active = active, ![cur].broadcast = broadcast]
        name == Current.name
        Close(files, same) ==
            \E n \in Told(list, files) : SavePortranges(list, files, same, n)
    IN  /\ screen = "service" /\ Counted
        /\ \/ name \notin DOMAIN disk /\ Close(disk, FALSE)
           \/ /\ name \in DOMAIN disk
              /\ \E a \in {active, disk[name].ACTIVE}, b \in {broadcast, disk[name].BROADCAST} :
                    Close([disk EXCEPT ![name].ACTIVE = a, ![name].BROADCAST = b],
                          a = active /\ b = broadcast)
        /\ screen' = "services" /\ cur' = 0
        /\ UNCHANGED <<savedRules, rules, hidden, shown, unchecked, gone>>

(***************************************************************************)
(* The menu of portranges.                                                 *)
(***************************************************************************)

EditPortranges ==
    /\ screen = "service"
    /\ screen' = "ports" /\ shown' = Current.PortrangeList
    /\ UNCHANGED <<disk, services, savedRules, rules, hidden, cur, unchecked, gone, ops>>

ClosePortranges ==
    /\ screen = "ports"
    /\ screen' = "service" /\ shown' = << >>
    /\ UNCHANGED <<disk, services, savedRules, rules, hidden, cur, unchecked, gone, ops>>

Same == UNCHANGED <<savedRules, rules, screen, hidden, cur, gone>>

(* The changed list is saved; the menu is built again if that went well. *)
SaveChanged(ranges) ==
    LET list == [services EXCEPT ![cur].PortrangeList = ranges]
        name == Current.name
        same == /\ name \in DOMAIN disk
                /\ disk[name].ACTIVE = Current.active
                /\ disk[name].BROADCAST = Current.broadcast
    IN  \E n \in Told(list, disk) :
           /\ SavePortranges(list, disk, same, n)
           /\ shown' = IF Complete(list, n) THEN ranges ELSE shown

(* What the forms leave. *)
TcpUdpForm(protocol) == {[p EXCEPT !.protocol = protocol] : p \in Entered}
IcmpForm == {[NoPorts(ICMP) EXCEPT !.dst_low = e[1], !.dst_high = e[2]] : e \in EnteredICMP}

FormRanges ==
    TcpUdpForm(TCP) \cup TcpUdpForm(UDP) \cup IcmpForm \cup
    {NoPorts(protocol) : protocol \in {GRE, ESP, AH} \cup EnteredOther}

(* The memory of a new range is not cleared: the range is what was there   *)
(* if no protocol was chosen, or no number was entered for it.             *)
NewPortrange(range) ==
    LET list == Current.PortrangeList
        p    == Normalised(range)
    IN  /\ screen = "ports" /\ Counted
        /\ Len(list) < MaxRanges
        /\ Valid(p) /\ ~Taken(list, p.protocol)
        /\ SaveChanged(InsertAt(list, Place(list, p.protocol), p))
        /\ unchecked' = (\/ unchecked
                         \/ range \notin FormRanges /\ \E n \in Numbers(range) : ~IsPort(n))
        /\ Same

(* The range itself is changed, and is not looked at afterwards; it is     *)
(* saved when the form is left.                                            *)
EditPortrange(place) ==
    LET list == Current.PortrangeList
        put(p) == [services EXCEPT ![cur].PortrangeList[place] = p, ![cur].saved = FALSE]
    IN  /\ screen = "ports" /\ Counted
        /\ place \in DOMAIN shown /\ place \in DOMAIN list
        /\ \/ /\ HasPorts(list[place].protocol)
              /\ \E p \in TcpUdpForm(list[place].protocol) : services' = put(p)
           \/ /\ list[place].protocol = ICMP
              /\ \E p \in IcmpForm : services' = put(p)
        /\ unchecked' = TRUE
        /\ shown' = services'[cur].PortrangeList
        /\ Same /\ UNCHANGED disk

(* The place is that of the menu, the range that of the list. *)
DeletePortrange(place) ==
    LET list == Current.PortrangeList
    IN  /\ screen = "ports" /\ Counted
        /\ place \in DOMAIN shown /\ place \in DOMAIN list
        /\ SaveChanged(RemoveAt(list, place))
        /\ Same /\ UNCHANGED unchecked

(***************************************************************************)
(* The keys of each screen.                                                *)
(***************************************************************************)

ServicesKeys ==
    \/ \E i \in DOMAIN services : EditService(i) \/ DeleteService(i)
    \/ \E i \in DOMAIN services, name \in Names : RenameService(i, name)
    \/ \E name \in Names : NewService(name)
    \/ ReopenSection

ServiceKeys == EditPortranges \/ \E a, b \in BOOLEAN : CloseService(a, b)

PortrangeKeys ==
    \/ \E range \in FormRanges \cup Leftover : NewPortrange(range)
    \/ \E place \in DOMAIN shown : EditPortrange(place) \/ DeletePortrange(place)
    \/ ClosePortranges

Next == Start \/ Quit \/ ServicesKeys \/ ServiceKeys \/ PortrangeKeys

Spec == Init /\ [][Next]_vars

-----------------------------------------------------------------------------
(* A service whose last save went well is read again as it is in memory,   *)
(* unless one of its numbers is not a port; a protocol without ports is    *)
(* read without any, and a service without any range as the file of an     *)
(* older version has it.                                                   *)
SavedIsRead ==
    \A s \in DOMAIN services :
        LET service == services[s]
            ranges  == service.PortrangeList
        IN  service.saved /\ (\A i \in DOMAIN ranges : \A n \in Numbers(ranges[i]) : IsPort(n)) =>
                /\ service.name \in DOMAIN disk
                /\ ~ReadFails(disk[service.name])
                /\ LET read == ReadService(service.name, disk[service.name])
                   IN  /\ read.active = service.active /\ read.broadcast = service.broadcast
                       /\ \/ read.PortrangeList = [i \in DOMAIN ranges |-> Written(ranges[i])]
                          \/ ranges = << >> /\ disk[service.name].OLD # << >>

(* A range that was put in by the form and checked never keeps a program   *)
(* from loading the services: all of them load, as long as no range was    *)
(* changed in place, or made of what memory held.                          *)
CheckedRangesLoad == ~unchecked => Loads

(* A protocol without ports has one range in a service, as the form        *)
(* promises: the menu of portranges keeps a list that is in order of       *)
(* protocol that way, whatever could be saved of it.                       *)
InOrder(list) == \A i, j \in DOMAIN list : i < j => list[i].protocol <= list[j].protocol
OneOfEach(list) ==
    \A i, j \in DOMAIN list :
        i # j /\ list[i].protocol = list[j].protocol => list[i].protocol \in {ICMP, TCP, UDP}
WellKept(list) == InOrder(list) /\ OneOfEach(list)
OneRangeWithoutPorts ==
    [][cur # 0 /\ cur' = cur /\ WellKept(Current.PortrangeList)
       => WellKept(services'[cur].PortrangeList)]_vars

(* A rename loses no rule: what a rule names, in memory and in the         *)
(* backend, is a service of the backend, or one that was deleted, or whose *)
(* rename was broken off.  A rule that only the backend has under the old  *)
(* name is not found by a later rename either: it is excused for good.     *)
RulesNameServices ==
    \A list \in {rules, savedRules} : \A i \in DOMAIN list :
        list[i] \in DOMAIN disk \/ list[i] \in gone

===============================================================================
