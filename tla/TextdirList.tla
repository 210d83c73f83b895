----------------------------- MODULE TextdirList -----------------------------
(***************************************************************************)
(* The list of the zones, networks, hosts and groups, read name by name    *)
(* while other programs change the tree.                                   *)
(*                                                                         *)
(* Every program that starts reads this list, and so does every reload and *)
(* every command of vuurmuur_script.  The backend keeps four directories   *)
(* open between two calls.  What readdir will return is fixed when a       *)
(* directory is opened; whether a name is an object is asked when it is    *)
(* reached.  Names in a directory come in any order.                       *)
(***************************************************************************)
EXTENDS Textdir

VARIABLES
    at,       \* "start", "listing" or "done"
    zonesLeft, netsLeft, hostsLeft, groupsLeft,  \* names the open directories will still return
    curZone, curNet,                             \* the zone and the network they belong to
    listed,   \* the objects returned
    always    \* the objects that were there at every moment since the list was begun

lvars == <<at, zonesLeft, netsLeft, hostsLeft, groupsLeft, curZone, curNet, listed>>
allvars == <<vars, lvars, always>>

Names(d) == {Last(x) : x \in Below(d)}
(* opendir: a directory that is not there is like an empty one. *)
Entries(d) == IF d \in dirs THEN Names(d) ELSE {}

ListInit ==
    /\ Init
    /\ at = "start" /\ zonesLeft = {} /\ netsLeft = {} /\ hostsLeft = {} /\ groupsLeft = {}
    /\ curZone = "" /\ curNet = ""
    /\ listed = {} /\ always = {}

BeginList ==
    /\ at = "start"
    /\ at' = "listing" /\ zonesLeft' = Entries(<<"zones">>)
    /\ always' = DOMAIN files
    /\ UNCHANGED <<netsLeft, hostsLeft, groupsLeft, curZone, curNet, listed>>

(* A name is returned if its file is there now. *)
Returned(o) == listed' = listed \cup ({o} \cap DOMAIN files)

NextHost ==
    /\ at = "listing"
    /\ \E h \in hostsLeft :
        /\ hostsLeft' = hostsLeft \ {h}
        /\ Returned(HostFile(curZone, curNet, h))
    /\ UNCHANGED <<at, zonesLeft, netsLeft, groupsLeft, curZone, curNet>>

NextGroup ==
    /\ at = "listing" /\ hostsLeft = {}
    /\ \E g \in groupsLeft :
        /\ groupsLeft' = groupsLeft \ {g}
        /\ Returned(GroupFile(curZone, curNet, g))
    /\ UNCHANGED <<at, zonesLeft, netsLeft, hostsLeft, curZone, curNet>>

(* A mistake: looks into the directory of the groups only if there is none *)
(* of hosts.                                                               *)
NextNetwork_OneDir ==
    /\ at = "listing" /\ hostsLeft = {} /\ groupsLeft = {}
    /\ \E n \in netsLeft :
        /\ netsLeft' = netsLeft \ {n} /\ curNet' = n
        /\ hostsLeft' = Entries(Place(NetFile(curZone, n)) \o <<"hosts">>)
        /\ groupsLeft' = IF Place(NetFile(curZone, n)) \o <<"hosts">> \in dirs THEN {}
                          ELSE Entries(Place(NetFile(curZone, n)) \o <<"groups">>)
        /\ Returned(NetFile(curZone, n))
    /\ UNCHANGED <<at, zonesLeft, curZone>>

(* The directories below are opened before the network is looked at. *)
NextNetwork ==
    /\ at = "listing" /\ hostsLeft = {} /\ groupsLeft = {}
    /\ \E n \in netsLeft :
        /\ netsLeft' = netsLeft \ {n} /\ curNet' = n
        /\ hostsLeft' = Entries(Place(NetFile(curZone, n)) \o <<"hosts">>)
        /\ groupsLeft' = Entries(Place(NetFile(curZone, n)) \o <<"groups">>)
        /\ Returned(NetFile(curZone, n))
    /\ UNCHANGED <<at, zonesLeft, curZone>>

NextZone ==
    /\ at = "listing" /\ hostsLeft = {} /\ groupsLeft = {} /\ netsLeft = {}
    /\ \E z \in zonesLeft :
        /\ zonesLeft' = zonesLeft \ {z} /\ curZone' = z
        /\ netsLeft' = Entries(Place(ZoneFile(z)) \o <<"networks">>)
        /\ Returned(ZoneFile(z))
    /\ UNCHANGED <<at, hostsLeft, groupsLeft, curNet>>

EndList ==
    /\ at = "listing" /\ hostsLeft = {} /\ groupsLeft = {} /\ netsLeft = {} /\ zonesLeft = {}
    /\ at' = "done"
    /\ UNCHANGED <<zonesLeft, netsLeft, hostsLeft, groupsLeft, curZone, curNet, listed>>

Lists ==
    \/ BeginList
    \/ NextHost /\ UNCHANGED always
    \/ NextGroup /\ UNCHANGED always
    \/ NextNetwork /\ UNCHANGED always
    \/ NextZone /\ UNCHANGED always
    \/ EndList /\ UNCHANGED always

ListNext ==
    \/ Lists /\ UNCHANGED vars
    \/ Next /\ always' = always \cap DOMAIN files' /\ UNCHANGED lvars

ListSpec == ListInit /\ [][ListNext]_allvars

-----------------------------------------------------------------------------
(* An object that was there all the time is in the list, whatever was      *)
(* added, deleted and renamed around it.                                   *)
ListComplete == at = "done" => always \ Flat \subseteq listed
=============================================================================
