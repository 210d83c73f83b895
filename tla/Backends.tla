------------------------------- MODULE Backends -------------------------------
(***************************************************************************)
(* The backends of one program: for each of the four categories a pointer  *)
(* to the functions of a plugin and the data of an opened backend, and the *)
(* list of the plugins that are loaded, each with a count of the pointers. *)
(*                                                                         *)
(* Pointers and names are what decides here; textdir is the one plugin     *)
(* there is, and what it does to its files is in Textdir.                  *)
(***************************************************************************)
EXTENDS Integers

CONSTANT Plugins                \* the names of plugins

Cats == {"services", "zones", "interfaces", "rules"}

Null == "null"                  \* a pointer that points at nothing

ASSUME PluginsAssumption == Null \notin Plugins

(* The setting that names the plugin of a category. *)
NameKey == [services |-> "SERVICES_BACKEND", zones |-> "ZONES_BACKEND",
            interfaces |-> "INTERFACES_BACKEND", rules |-> "RULES_BACKEND"]

(* Functions and data as the programs start with them. *)
NoBackends == [functions |-> [c \in Cats |-> Null], data |-> [c \in Cats |-> Null],
               refs |-> [p \in Plugins |-> 0]]

(* The count of a plugin and the functions of a category after a call. *)
Pointed(b, c, to, p, count) ==
    [functions |-> [b.functions EXCEPT ![c] = to], data |-> b.data,
     refs |-> [b.refs EXCEPT ![p] = count]]

(* The data of a category after a call. *)
Holding(b, c, it) ==
    [functions |-> b.functions, data |-> [b.data EXCEPT ![c] = it], refs |-> b.refs]

(* A call on the way through the categories: what is loaded, and how it    *)
(* goes: "on", "failed" (it returned -1) or "crashed".                     *)
Going(b) == [b |-> b, went |-> "on"]

-----------------------------------------------------------------------------
(* Mutant: a plugin that is in the list is not counted again. *)
LoadPlugin_Once(b, c, name) == Pointed(b, c, name, name, 1)

(* load_plugin: a plugin that is in the list is shared. *)
LoadPlugin(b, c, name) == Pointed(b, c, name, name, b.refs[name] + 1)

(* The regular expression that names are checked with is made after the    *)
(* root directory was looked at: data without it is "bare".                *)
Opened(world) == IF world.store = "ok" THEN "open" ELSE "bare"

(* Mutant: nobody looks whether the backend could be opened. *)
LoadCategory_Unchecked(world, names, g, c) ==
    IF g.went # "on" THEN g
    ELSE IF names[c] \notin world.installed THEN [b |-> g.b, went |-> "failed"]
    ELSE Going(Holding(LoadPlugin(g.b, c, names[c]), c, Opened(world)))

(* The plugin is not there, its settings are not, the root of the store is *)
(* not usable, or the directory of this category is not.                   *)
LoadCategory(world, names, g, c) ==
    IF g.went # "on" THEN g
    ELSE IF names[c] \notin world.installed THEN [b |-> g.b, went |-> "failed"]
    ELSE [b    |-> Holding(LoadPlugin(g.b, c, names[c]), c, Opened(world)),
          went |-> IF world.store # "ok" \/ c = world.unusable THEN "failed" ELSE "on"]

(* The list of plugins is set up anew, whatever was in it; then the        *)
(* categories, one after the other.                                        *)
LoadBackends(world, names, b) ==
    LET load(g, c) == LoadCategory(world, names, g, c)
        empty      == [functions |-> b.functions, data |-> b.data, refs |-> NoBackends.refs]
    IN  load(load(load(load(Going(empty), "services"), "zones"), "interfaces"), "rules")

-----------------------------------------------------------------------------
(* unload_plugin finds the plugin by the name in the configuration; one    *)
(* that is not in the list is only warned about.                           *)
UnloadPlugin(b, c, name) ==
    IF name \in Plugins /\ b.refs[name] > 0 THEN Pointed(b, c, Null, name, b.refs[name] - 1) ELSE b

(* Closing a backend that has no regular expression is refused, but for    *)
(* the rules, which have none.  Nothing looks whether there are functions. *)
UnloadCategory(names, g, c) ==
    IF g.went # "on" THEN g
    ELSE IF g.b.functions[c] = Null THEN [b |-> g.b, went |-> "crashed"]
    ELSE IF g.b.data[c] = Null \/ (c # "rules" /\ g.b.data[c] = "bare")
    THEN [b |-> g.b, went |-> "failed"]
    ELSE Going(UnloadPlugin(Holding(g.b, c, Null), c, names[c]))

UnloadBackends(names, b) ==
    LET unload(g, c) == UnloadCategory(names, g, c)
    IN  unload(unload(unload(unload(Going(b), "services"), "zones"), "interfaces"), "rules")

(* Every category is served by the plugin that the configuration names. *)
AllOpen(names, b) == \A c \in Cats : b.data[c] = "open" /\ b.functions[c] = names[c]
===============================================================================
