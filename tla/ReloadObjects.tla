----------------------------- MODULE ReloadObjects -----------------------------
(***************************************************************************)
(* How a reload of vuurmuur brings the objects it keeps in memory in line  *)
(* with the backend: reload_services, reload_interfaces, reload_zonedata   *)
(* and the *_check functions behind them.                                  *)
(*                                                                         *)
(* Each function marks what it knows as untouched, walks the names that    *)
(* the backend lists, adds the new ones, compares the known ones with what *)
(* is on disk, and calls removed what stayed untouched.  The backend is a  *)
(* tree of files that the tools may edit while the daemon reads them, and  *)
(* the address of a device may change at any time.                         *)
(*                                                                         *)
(* An object is read in one step.  Its settings are cut down to a key (all *)
(* that the checks compare), an extra (what they do not compare) and its   *)
(* references; a device that is present has an address.                    *)
(***************************************************************************)
EXTENDS Integers, FiniteSets

CONSTANTS
    Services, Ifaces, Zones, Networks, Hosts, Groups,   \* names, by type
    Dynamic,     \* interfaces whose address is taken from the device
    ZoneOf,      \* the zone of a network, host or group
    NetOf,       \* the network of a host or group
    Keys,        \* addresses, port ranges, ...
    NoKey,       \* none of them
    Extras,      \* settings that no check compares
    Disk,        \* the backend at the start
    Cable,       \* the devices at the start
    MaxEdits     \* bound: edits of the backend plus changes of a device

ZoneData == Zones \cup Networks \cup Hosts \cup Groups
Children == Networks \cup Hosts \cup Groups
Members  == Hosts \cup Groups
Objects  == Services \cup Ifaces \cup ZoneData

(* What an object may refer to: get_group_info looks for members in the
   group's own network. *)
RefsOf(o) ==
    IF o \in Networks THEN Ifaces
    ELSE IF o \in Groups THEN {h \in Hosts : NetOf[h] = NetOf[o]}
    ELSE {}

Row == [there : BOOLEAN, readable : BOOLEAN, active : BOOLEAN,
        key : Keys \cup {NoKey}, refs : SUBSET Objects, extra : Extras]

ASSUME ObjectsAssumption ==
    /\ Services \cap Ifaces = {} /\ (Services \cup Ifaces) \cap ZoneData = {}
    /\ Zones \cap Children = {} /\ Networks \cap Members = {} /\ Hosts \cap Groups = {}
    /\ Dynamic \subseteq Ifaces
    /\ ZoneOf \in [Children -> Zones]
    /\ NetOf \in [Members -> Networks]
    /\ \A o \in Members : ZoneOf[o] = ZoneOf[NetOf[o]]
    /\ NoKey \notin Keys
    /\ Disk \in [Objects -> Row]
    /\ \A o \in Objects : Disk[o].refs \subseteq RefsOf(o)
    /\ \A o \in Objects : Disk[o].there => Disk[o].readable
    /\ Cable \in [Ifaces -> Keys \cup {NoKey}]
    /\ MaxEdits \in Nat

VARIABLES
    backend,   \* the files of the textdir backend
    device,    \* the address of each device, NoKey when it is not there
    known,     \* the names in the lists of the daemon; nothing ever leaves them
    mem,       \* what the daemon keeps of them
    status,    \* the ST_ value the latest reload gave them
    watch,     \* interfaces.dynamic_interfaces
    phase,     \* the function the reload is in
    pending,   \* names the listing still has to come to
    visited,   \* names it returned
    edits,     \* edits so far
    quiet,     \* nothing was edited since the latest reload began
    calm       \* reloads that ended in a row without any edit, up to two

world   == <<backend, device>>
daemon  == <<known, mem, status, watch, phase, pending, visited>>
history == <<quiet, calm>>
vars    == <<world, daemon, edits, history>>

Data     == [active : BOOLEAN, key : Keys \cup {NoKey}, up : BOOLEAN,
             refs : SUBSET Objects, extra : Extras]
Statuses == {"removed", "untouched", "keep", "changed", "added", "activated",
             "deactivated"}
Phases   == {"idle", "services", "interfaces", "zones", "done", "failed"}
Copied   == {"changed", "activated", "deactivated"}

TypeOK ==
    /\ backend \in [Objects -> Row]
    /\ \A o \in Objects : backend[o].refs \subseteq RefsOf(o)
    /\ device \in [Ifaces -> Keys \cup {NoKey}]
    /\ known \subseteq Objects
    /\ mem \in [Objects -> Data]
    /\ status \in [Objects -> Statuses]
    /\ watch \in BOOLEAN
    /\ phase \in Phases
    /\ pending \subseteq Objects
    /\ visited \subseteq Objects
    /\ edits \in 0..MaxEdits
    /\ quiet \in BOOLEAN
    /\ calm \in 0..2

-----------------------------------------------------------------------------
(* read_service, read_interface_info, read_zonedata: only names that are in
   memory are taken into an interface list or a group.  A dynamic interface
   takes its address from the device (in interfaces_check). *)
Read(o) ==
    [active |-> backend[o].active,
     key    |-> IF o \in Dynamic THEN device[o] ELSE backend[o].key,
     up     |-> o \in Ifaces /\ device[o] # NoKey,
     refs   |-> backend[o].refs \cap known,
     extra  |-> backend[o].extra]

Readable(o) == backend[o].there /\ backend[o].readable

(* services_check, interfaces_check, zones_check_network, zones_check_host and
   zones_check_group, of data d, with the parents as they are in m. *)
ServiceOk(d) == d.key # NoKey

IfaceOk(i, d) == d.active /\ d.up => device[i] = d.key

ParentsActive(o, m) ==
    /\ o \in Children => m[ZoneOf[o]].active
    /\ o \in Members => m[NetOf[o]].active

NetworkOk(d) == d.key # NoKey /\ d.refs # {}

HostOk(h, d, m) == d.key # NoKey /\ d.key = m[NetOf[h]].key

GroupOk(d) == d.refs # {}

CheckOk(o, d, m) ==
    /\ o \in Services => ServiceOk(d)
    /\ o \in Ifaces => IfaceOk(o, d)
    /\ o \in Networks => NetworkOk(d)
    /\ o \in Hosts => HostOk(o, d, m)
    /\ o \in Groups => GroupOk(d)
    /\ ParentsActive(o, m)

(* A check that failed clears active. *)
ActiveIf(d, ok) == [d EXCEPT !.active = @ /\ ok]

(* load_services, load_interfaces and load_zones read everything and check it
   from the top of the tree to the bottom. *)
Checked(m, s) ==
    [o \in Objects |->
        IF o \in s THEN ActiveIf(m[o], CheckOk(o, m[o], m)) ELSE m[o]]

Loaded == Checked(Checked([o \in Objects |-> Read(o)], Services \cup Ifaces \cup Networks),
                  Members)

(* A daemon that has just started on a backend it can read. *)
Init ==
    /\ backend = Disk
    /\ device = Cable
    /\ known = {o \in Objects : Disk[o].there}
    /\ mem = Loaded
    /\ status = [o \in Objects |-> IF o \in Services THEN "keep" ELSE "added"]
    /\ watch = (\E i \in Dynamic : Disk[i].there)
    /\ phase = "idle"
    /\ pending = {}
    /\ visited = {}
    /\ edits = 0
    /\ quiet = TRUE
    /\ calm = 0

-----------------------------------------------------------------------------
(* The reload. *)

Category(p) ==
    CASE p = "services"   -> Services
      [] p = "interfaces" -> Ifaces
      [] p = "zones"      -> ZoneData
      [] OTHER            -> {}

Reloading == phase \in {"services", "interfaces", "zones"}

NextPhase == IF phase = "services" THEN "interfaces"
             ELSE IF phase = "interfaces" THEN "zones" ELSE "done"

(* The head of each function: all statuses are reset, the listing starts. *)
EnterCategory_KeepStatus(p, st) ==
    /\ phase' = p
    /\ status' = st
    /\ pending' = {o \in Category(p) : backend[o].there}
    /\ visited' = {}
    /\ watch' = (watch /\ p # "interfaces")

EnterCategory(p, st) ==
    /\ phase' = p
    /\ status' = [o \in Objects |->
                    IF o \in Category(p) \cap known THEN "untouched" ELSE st[o]]
    /\ pending' = {o \in Category(p) : backend[o].there}
    /\ visited' = {}
    /\ watch' = (watch /\ p # "interfaces")

Start ==
    /\ ~Reloading
    /\ EnterCategory("services", status)
    /\ quiet' = TRUE
    /\ UNCHANGED <<world, known, mem, edits, calm>>

(* The tail of each function, and on to the next: "untouched means removed". *)
Settled(o) ==
    IF o \in Category(phase) \cap known /\ status[o] = "untouched"
    THEN "removed" ELSE status[o]

Leave ==
    /\ Reloading
    /\ pending = {}
    /\ EnterCategory(NextPhase, [o \in Objects |-> Settled(o)])
    /\ calm' = IF phase # "zones" THEN calm
               ELSE IF ~quiet THEN 0 ELSE IF calm = 2 THEN 2 ELSE calm + 1
    /\ UNCHANGED <<world, known, mem, edits, quiet>>

(* list_textdir returns a zone, then its networks, of each its hosts and then
   its groups.  What was created behind its back is not returned any more. *)
Above(o) ==
    (IF o \in Children THEN {ZoneOf[o]} ELSE {})
    \cup (IF o \in Members THEN {NetOf[o]} ELSE {})
    \cup (IF o \in Groups THEN {h \in Hosts : NetOf[h] = NetOf[o]} ELSE {})

MayList(o) ==
    /\ Reloading
    /\ o \in Category(phase)
    /\ o \notin visited
    /\ backend[o].there \/ o \in pending
    /\ Above(o) \cap pending = {}
    /\ \A p \in visited : o \notin Above(p)

Listed(o) ==
    /\ pending' = pending \ {o}
    /\ visited' = visited \cup {o}
    /\ watch' = (watch \/ o \in Dynamic)

(* A name that is new: insert_* and a check, but a new group is not checked. *)
Add(o) ==
    /\ MayList(o)
    /\ o \notin known
    /\ Readable(o)
    /\ \A p \in Above(o) \cap (Zones \cup Networks) : p \in known
    /\ known' = known \cup {o}
    /\ mem' = [mem EXCEPT ![o] =
                ActiveIf(Read(o), o \in Groups \/ CheckOk(o, Read(o), mem))]
    /\ status' = [status EXCEPT ![o] = IF o \in Services THEN "keep" ELSE "added"]
    /\ Listed(o)
    /\ UNCHANGED <<world, phase, edits, history>>

(* insert_* fails, and with it the whole reload: the file cannot be read or is
   gone again, or the parent is not in memory. *)
AddFails(o) ==
    /\ MayList(o)
    /\ o \notin known
    /\ ~Readable(o) \/ \E p \in Above(o) \cap (Zones \cup Networks) : p \notin known
    /\ phase' = "failed"
    /\ pending' = {}
    /\ visited' = {}
    /\ calm' = 0
    /\ UNCHANGED <<world, known, mem, status, watch, edits, quiet>>

(* The comparison of reload_services_check, reload_interfaces_check and
   reload_zonedata_check; a network or group has also changed when one of its
   interfaces or members has. *)
Touched(d) == \E r \in d.refs : status[r] # "keep"

Differs_NoKey(o, d) == mem[o].up # d.up \/ mem[o].refs # d.refs \/ Touched(d)

Differs_NoMembers(o, d) ==
    mem[o].key # d.key \/ mem[o].up # d.up \/ mem[o].refs # d.refs

Differs_NoRefs(o, d) == mem[o].key # d.key \/ mem[o].up # d.up

Differs(o, d) ==
    \/ mem[o].key # d.key
    \/ mem[o].up # d.up
    \/ mem[o].refs # d.refs
    \/ Touched(d)

(* "If check_result is not 1 we are going to set the active to false, so we
   dont care about this check."  A zone has nothing to check or to compare. *)
NewStatus_ActiveFirst(o, d) ==
    IF mem[o].active # d.active THEN IF d.active THEN "activated" ELSE "deactivated"
    ELSE IF o \notin Zones /\ Differs(o, d) THEN "changed" ELSE "keep"

NewStatus(o, d) ==
    IF mem[o].active # d.active /\ (o \in Zones \/ CheckOk(o, d, mem))
    THEN IF d.active THEN "activated" ELSE "deactivated"
    ELSE IF o \notin Zones /\ Differs(o, d) THEN "changed" ELSE "keep"

(* A name that is known.  Only a change is copied, and only then does a failed
   check clear active. *)
Compare(o) ==
    /\ MayList(o)
    /\ o \in known
    /\ Readable(o)
    /\ LET d == Read(o)
           s == NewStatus(o, d)
       IN  /\ status' = [status EXCEPT ![o] = s]
           /\ mem' = IF s \in Copied
                     THEN [mem EXCEPT ![o] =
                            ActiveIf(d, o \in Zones \/ CheckOk(o, d, mem))]
                     ELSE mem
    /\ Listed(o)
    /\ UNCHANGED <<world, known, phase, edits, history>>

(* It is known but cannot be read: it counts as removed and nothing else
   happens, whatever the caller tests. *)
CompareFails(o) ==
    /\ MayList(o)
    /\ o \in known
    /\ ~Readable(o)
    /\ status' = [status EXCEPT ![o] = "removed"]
    /\ Listed(o)
    /\ UNCHANGED <<world, known, mem, phase, edits, history>>

(* The listing passes by a file that was deleted. *)
Skip(o) ==
    /\ Reloading
    /\ o \in pending
    /\ ~backend[o].there
    /\ pending' = pending \ {o}
    /\ UNCHANGED <<world, known, mem, status, watch, phase, visited, edits, history>>

-----------------------------------------------------------------------------
(* The world. *)

Edited ==
    /\ edits < MaxEdits
    /\ edits' = edits + 1
    /\ quiet' = FALSE
    /\ calm' = 0

(* One setting of a file is rewritten; unreadable means that a value is longer
   than the daemon takes. *)
Rewritten(o) ==
    LET b == backend[o]
    IN  {[b EXCEPT !.active = ~@], [b EXCEPT !.readable = ~@]}
        \cup (IF o \in Zones \cup Groups \cup Dynamic THEN {}
              ELSE {[b EXCEPT !.key = k] : k \in Keys \cup {NoKey}})
        \cup (IF o \in Services \cup Ifaces THEN {[b EXCEPT !.extra = e] : e \in Extras}
              ELSE {})
        \cup {[b EXCEPT !.refs = r] : r \in SUBSET RefsOf(o)}

Edit(o) ==
    /\ backend[o].there
    /\ \E b \in Rewritten(o) \ {backend[o]} : backend' = [backend EXCEPT ![o] = b]
    /\ Edited
    /\ UNCHANGED <<device, daemon>>

(* A file is created in a directory that is there ... *)
Create(o) ==
    /\ ~backend[o].there
    /\ \A p \in Above(o) \cap (Zones \cup Networks) : backend[p].there
    /\ backend' = [backend EXCEPT ![o].there = TRUE]
    /\ Edited
    /\ UNCHANGED <<device, daemon>>

(* ... and removed when nothing is below it. *)
Delete(o) ==
    /\ backend[o].there
    /\ \A c \in Children : backend[c].there => o \notin Above(c) \cap (Zones \cup Networks)
    /\ backend' = [backend EXCEPT ![o].there = FALSE]
    /\ Edited
    /\ UNCHANGED <<device, daemon>>

(* A device comes up, goes down or gets another address. *)
Replug(i) ==
    /\ \E k \in (Keys \cup {NoKey}) \ {device[i]} : device' = [device EXCEPT ![i] = k]
    /\ Edited
    /\ UNCHANGED <<backend, daemon>>

Next ==
    \/ Start \/ Leave
    \/ \E o \in Objects :
        \/ Add(o) \/ AddFails(o) \/ Compare(o) \/ CompareFails(o) \/ Skip(o)
        \/ Edit(o) \/ Create(o) \/ Delete(o)
    \/ \E i \in Ifaces : Replug(i)

Spec == Init /\ [][Next]_vars

-----------------------------------------------------------------------------
(* What a reload promises. *)

Reloaded == phase = "done" /\ quiet

(* After a reload during which nothing was edited, every file that can be read
   is in memory as it is on disk, and an object that passes its check is active
   exactly when the file says so: nothing that was wrong once stays switched
   off after it was repaired. *)
LoadsWhatIsThere ==
    Reloaded => \A o \in Objects :
        Readable(o) =>
            /\ o \in known
            /\ o \notin Zones => /\ mem[o].key = Read(o).key
                                 /\ mem[o].up = Read(o).up
                                 /\ mem[o].refs = Read(o).refs
            /\ o \in Zones \/ CheckOk(o, Read(o), mem) => mem[o].active = backend[o].active

(* The status that reload_rules looks at: removed is what is not on disk or
   cannot be read, and nothing else. *)
StatusIsTrue ==
    Reloaded => \A o \in known : status[o] = "removed" <=> ~Readable(o)

(* A network is not kept when one of its interfaces was touched, a group not
   when one of its members was, whatever happens to the files meanwhile. *)
DependentsNotice ==
    phase = "done" => \A o \in known :
        status[o] = "keep" => \A r \in mem[o].refs : status[r] = "keep"

(* The inductive invariant behind it: what is not visited is untouched, so the
   status a group or network looked at can only be one that stays. *)
RefsAreKnown ==
    /\ \A o \in Objects : mem[o].refs \subseteq RefsOf(o)
    /\ \A o \in known : mem[o].refs \subseteq known

VisitedIsKnown == visited \subseteq known \cap Category(phase)

UnvisitedIsUntouched ==
    phase = "zones" => \A o \in (known \cap ZoneData) \ visited : status[o] = "untouched"

KeptHasKeptRefs ==
    phase \in {"zones", "done"} => \A o \in known \cap ZoneData :
        status[o] = "keep" => \A r \in mem[o].refs : status[r] = "keep"

DependentsInv ==
    TypeOK /\ RefsAreKnown /\ VisitedIsKnown /\ UnvisitedIsUntouched /\ KeptHasKeptRefs

(* Two reloads with nothing in between: the second finds no changes.  Only who
   refers to a removed object is told so again and again. *)
SecondReloadKeeps ==
    phase = "done" /\ calm = 2 => \A o \in known :
        \/ status[o] \in {"keep", "removed"}
        \/ \E r \in mem[o].refs : status[r] = "removed"

(* check_for_changed_dynamic_ips, of one interface. *)
AddressChanged(i) ==
    i \in Dynamic /\ IF device[i] = NoKey THEN mem[i].up
                     ELSE ~mem[i].up \/ device[i] # mem[i].key

(* A reload makes the memory agree with the devices, so that the main loop does
   not reload again for the same change, except for removed interfaces. *)
OnlyRemovedUnsettled ==
    Reloaded => \A i \in known \cap Ifaces :
        AddressChanged(i) => status[i] = "removed"

=============================================================================
