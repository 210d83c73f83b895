----------------------------- MODULE ObjectPaths -----------------------------
(***************************************************************************)
(* Where the backend keeps an object.  An object is called by the path of  *)
(* its file below the root of the textdir; the path says what type it has  *)
(* and what it belongs to.                                                 *)
(***************************************************************************)
EXTENDS Naturals, FiniteSets, Sequences, SequencesExt

CONSTANTS
    Zones, Nets, Hosts, Groups,  \* names of objects, strings
    Flat                         \* paths of interfaces, services and rulesets

(* A flat object is a file in the directory of its type. *)
ASSUME PathsAssumption ==
    \A o \in Flat : o = <<o[1], o[2]>> /\ o[1] \in {"interfaces", "services", "rules"}

ZoneFile(z)     == <<"zones", z, "zone.config">>
NetFile(z, n)   == <<"zones", z, "networks", n, "network.config">>
HostFile(z, n, h)  == <<"zones", z, "networks", n, "hosts", h>>
GroupFile(z, n, g) == <<"zones", z, "networks", n, "groups", g>>

Objects ==
    {ZoneFile(z) : z \in Zones} \cup {NetFile(z, n) : z \in Zones, n \in Nets}
    \cup {HostFile(z, n, h) : z \in Zones, n \in Nets, h \in Hosts}
    \cup {GroupFile(z, n, g) : z \in Zones, n \in Nets, g \in Groups}
    \cup Flat

TypeOf(o) ==
    CASE Len(o) = 3 -> "zone"
      [] Len(o) = 5 -> "network"
      [] Len(o) = 6 -> o[5]
      [] OTHER -> o[1]

IsTree(o) == TypeOf(o) \in {"zone", "network"}

(* What rename(2) is called with: the directory of a zone or a network. *)
Place(o) == IF IsTree(o) THEN Front(o) ELSE o

(* The directories that belong to an object. *)
OwnDirs(o) ==
    CASE TypeOf(o) = "zone" -> {Place(o), Place(o) \o <<"networks">>}
      [] TypeOf(o) = "network" -> {Place(o), Place(o) \o <<"hosts">>, Place(o) \o <<"groups">>}
      [] OTHER -> {}

Above(a, o) == a # o /\ IsTree(a) /\ IsPrefix(Place(a), o)

(* A path after what is at p went to q. *)
MovedPath(p, q, x) == IF IsPrefix(p, x) THEN q \o SubSeq(x, Len(p) + 1, Len(x)) ELSE x

(***************************************************************************)
(* An object has a setting ACTIVE, and some have a list: the members of a  *)
(* group, the interfaces of a network, the rules of a ruleset.             *)
(***************************************************************************)
Vars == {"ACTIVE", "LIST"}
VarsOf(o) ==
    IF TypeOf(o) = "rules" THEN {"LIST"}
    ELSE {"ACTIVE"} \cup (IF TypeOf(o) \in {"network", "groups"} THEN {"LIST"} ELSE {})
=============================================================================
