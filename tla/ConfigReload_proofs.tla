-------------------------- MODULE ConfigReload_proofs --------------------------
(***************************************************************************)
(* The backends and the configuration of a daemon, and the configuration   *)
(* files of vuurmuur_conf.                                                 *)
(*                                                                         *)
(* First the backends, whatever is written in a configuration and whenever *)
(* loading or unloading gives up: the counts of the plugins are the        *)
(* pointers to them (PluginsCounted), and a daemon that is up after a      *)
(* reload that went well serves with what its configuration names          *)
(* (ServesWithItsConf).  What is read from a file does not matter there:   *)
(* the names only change while no category points at a plugin.             *)
(*                                                                         *)
(* Then the texts: what vuurmuur_conf saved is read back as it was saved   *)
(* (SavedIsAccepted), and a daemon that reads without a warning holds what *)
(* was to be saved (CleanLoad).  Every value in memory and in a file is    *)
(* one that reading leaves as it is, in whatever order settings are read,  *)
(* written and typed; the orders themselves are facts about the table.     *)
(***************************************************************************)
EXTENDS ConfigReload, FiniteSetTheorems, TLAPS

ServedBy(f, p) == {c \in Cats : f[c] = p}

(* The backends, with every count right. *)
CountsInv(b) ==
    /\ b = [functions |-> b.functions, data |-> b.data, refs |-> b.refs]
    /\ b.functions \in [Cats -> Plugins \cup {Null}]
    /\ DOMAIN b.data = Cats
    /\ b.refs \in [Plugins -> Nat]
    /\ \A p \in Plugins : b.refs[p] = Cardinality(ServedBy(b.functions, p))

(* A category that is served is served by the plugin of this name. *)
NamedBy(names, b) == \A c \in Cats : b.functions[c] # Null => b.functions[c] = names[c]

Unserved(b) == \A c \in Cats : b.functions[c] = Null

Fields == {"state", "stays", "starting", "level", "at", "calm", "conf", "new", "backends", "last"}

(* Between two reloads the names are those the categories were loaded      *)
(* under, so that unloading finds every plugin; while a configuration is   *)
(* read, and may be taken, no category points at a plugin.                 *)
DaemonInv(d) ==
    /\ DOMAIN d = Fields
    /\ CountsInv(d.backends)
    /\ NamedBy(Names(d.conf.values), d.backends)
    /\ d.state \in {"reading", "loading"} => Unserved(d.backends)
    /\ (d.state = "up" /\ d.last = "ok") => AllOpen(Names(d.conf.values), d.backends)

BackendsInv ==
    /\ world.installed \subseteq Plugins
    /\ DaemonInv(daemon)

-----------------------------------------------------------------------------
(* Counting: a category that points at a plugin is one more, and one that  *)
(* does no longer is one less.                                             *)

LEMMA ServedFinite ==
    \A f, p : IsFiniteSet(ServedBy(f, p)) /\ Cardinality(ServedBy(f, p)) \in Nat
<1>1. IsFiniteSet({"services"})  BY FS_Singleton
<1>2. IsFiniteSet({"services"} \cup {"zones"})  BY <1>1, FS_AddElement
<1>3. IsFiniteSet(({"services"} \cup {"zones"}) \cup {"interfaces"})  BY <1>2, FS_AddElement
<1>4. IsFiniteSet((({"services"} \cup {"zones"}) \cup {"interfaces"}) \cup {"rules"})
      BY <1>3, FS_AddElement
<1>5. Cats = (({"services"} \cup {"zones"}) \cup {"interfaces"}) \cup {"rules"}  BY DEF Cats
<1>6. IsFiniteSet(Cats)  BY <1>4, <1>5
<1>7. ASSUME NEW f, NEW p  PROVE IsFiniteSet(ServedBy(f, p)) /\ Cardinality(ServedBy(f, p)) \in Nat
  <2>1. ServedBy(f, p) \in SUBSET Cats  BY DEF ServedBy
  <2>2. IsFiniteSet(ServedBy(f, p))  BY <1>6, <2>1, FS_Subset
  <2> QED  BY <2>2, FS_CardinalityType
<1> QED  BY <1>7

LEMMA PointedCounts ==
    ASSUME NEW b, CountsInv(b), NEW c \in Cats, NEW name \in Plugins, b.functions[c] = Null
    PROVE  CountsInv(Pointed(b, c, name, name, b.refs[name] + 1))
<1> DEFINE f == [b.functions EXCEPT ![c] = name]
           r == Pointed(b, c, name, name, b.refs[name] + 1)
<1>1. b.functions \in [Cats -> Plugins \cup {Null}] /\ b.refs \in [Plugins -> Nat]
      /\ DOMAIN b.data = Cats
      BY DEF CountsInv
<1>2. r.functions = f /\ r.data = b.data /\ r.refs = [b.refs EXCEPT ![name] = b.refs[name] + 1]
      /\ r = [functions |-> r.functions, data |-> r.data, refs |-> r.refs]
      BY DEF Pointed
<1>3. f \in [Cats -> Plugins \cup {Null}] /\ r.refs \in [Plugins -> Nat]  BY <1>1, <1>2
<1>4. ASSUME NEW p \in Plugins  PROVE r.refs[p] = Cardinality(ServedBy(f, p))
  <2>1. b.refs[p] = Cardinality(ServedBy(b.functions, p))  BY DEF CountsInv
  <2>2. CASE p = name
    <3>1. ServedBy(f, p) = ServedBy(b.functions, p) \cup {c}  BY <1>1, <2>2 DEF ServedBy
    <3>2. c \notin ServedBy(b.functions, p)  BY PluginsAssumption DEF ServedBy
    <3>3. Cardinality(ServedBy(f, p)) = Cardinality(ServedBy(b.functions, p)) + 1
          BY <3>1, <3>2, ServedFinite, FS_AddElement
    <3> QED  BY <1>1, <1>2, <2>1, <2>2, <3>3
  <2>3. CASE p # name
    <3>1. ServedBy(f, p) = ServedBy(b.functions, p)  BY <1>1, <2>3, PluginsAssumption DEF ServedBy
    <3> QED  BY <1>1, <1>2, <2>1, <2>3, <3>1
  <2> QED  BY <2>2, <2>3
<1> HIDE DEF r, f
<1>5. CountsInv(r)  BY <1>1, <1>2, <1>3, <1>4 DEF CountsInv
<1> QED  BY <1>5 DEF r

LEMMA DroppedCounts ==
    ASSUME NEW b, CountsInv(b), NEW c \in Cats, NEW name \in Plugins, b.functions[c] = name
    PROVE  /\ b.refs[name] > 0
           /\ CountsInv(Pointed(b, c, Null, name, b.refs[name] - 1))
<1> DEFINE f == [b.functions EXCEPT ![c] = Null]
           r == Pointed(b, c, Null, name, b.refs[name] - 1)
<1>1. b.functions \in [Cats -> Plugins \cup {Null}] /\ b.refs \in [Plugins -> Nat]
      /\ DOMAIN b.data = Cats
      BY DEF CountsInv
<1>2. r.functions = f /\ r.data = b.data /\ r.refs = [b.refs EXCEPT ![name] = b.refs[name] - 1]
      /\ r = [functions |-> r.functions, data |-> r.data, refs |-> r.refs]
      BY DEF Pointed
<1>3. ServedBy(f, name) = ServedBy(b.functions, name) \ {c} /\ c \in ServedBy(b.functions, name)
      BY <1>1, PluginsAssumption DEF ServedBy
<1>4. Cardinality(ServedBy(f, name)) = Cardinality(ServedBy(b.functions, name)) - 1
      BY <1>3, ServedFinite, FS_RemoveElement
<1>5. b.refs[name] = Cardinality(ServedBy(b.functions, name))  BY DEF CountsInv
<1>6. Cardinality(ServedBy(f, name)) \in Nat /\ b.refs[name] \in Nat  BY <1>1, ServedFinite
<1>7. b.refs[name] - 1 = Cardinality(ServedBy(f, name)) /\ b.refs[name] > 0
      /\ b.refs[name] - 1 \in Nat
      BY <1>4, <1>5, <1>6
<1>8. f \in [Cats -> Plugins \cup {Null}] /\ r.refs \in [Plugins -> Nat]  BY <1>1, <1>2, <1>7
<1>9. ASSUME NEW p \in Plugins  PROVE r.refs[p] = Cardinality(ServedBy(f, p))
  <2>1. CASE p = name  BY <1>1, <1>2, <1>7, <2>1
  <2>2. CASE p # name
    <3>1. ServedBy(f, p) = ServedBy(b.functions, p)  BY <1>1, <2>2, PluginsAssumption DEF ServedBy
    <3>2. b.refs[p] = Cardinality(ServedBy(b.functions, p))  BY DEF CountsInv
    <3> QED  BY <1>1, <1>2, <2>2, <3>1, <3>2
  <2> QED  BY <2>1, <2>2
<1> HIDE DEF r, f
<1>10. CountsInv(r)  BY <1>1, <1>2, <1>8, <1>9 DEF CountsInv
<1> QED  BY <1>7, <1>10 DEF r

(* The data of a category is counted nowhere. *)
LEMMA HoldingCounts ==
    ASSUME NEW b, CountsInv(b), NEW c \in Cats, NEW it
    PROVE  CountsInv(Holding(b, c, it))
BY DEF CountsInv, Holding

LEMMA NothingCounts ==
    ASSUME NEW b, CountsInv(b), Unserved(b)
    PROVE  LET empty == [functions |-> b.functions, data |-> b.data, refs |-> NoBackends.refs]
           IN  CountsInv(empty) /\ Unserved(empty)
<1> DEFINE empty == [functions |-> b.functions, data |-> b.data, refs |-> NoBackends.refs]
<1>1. empty.functions = b.functions /\ empty.data = b.data
      /\ empty.refs = [p \in Plugins |-> 0]
      /\ empty = [functions |-> empty.functions, data |-> empty.data, refs |-> empty.refs]
      BY DEF NoBackends
<1>2. b.functions \in [Cats -> Plugins \cup {Null}] /\ DOMAIN b.data = Cats  BY DEF CountsInv
<1>3. ASSUME NEW p \in Plugins  PROVE Cardinality(ServedBy(b.functions, p)) = 0
  <2>1. ServedBy(b.functions, p) = {}  BY PluginsAssumption DEF ServedBy, Unserved
  <2> QED  BY <2>1, FS_EmptySet
<1> HIDE DEF empty
<1>4. CountsInv(empty)  BY <1>1, <1>2, <1>3 DEF CountsInv
<1>5. Unserved(empty)  BY <1>1 DEF Unserved
<1> QED  BY <1>4, <1>5 DEF empty

LEMMA NoBackendsCounts == CountsInv(NoBackends) /\ Unserved(NoBackends)
<1> DEFINE b == NoBackends
<1>1. b.functions = [c \in Cats |-> Null] /\ b.data = [c \in Cats |-> Null]
      /\ b.refs = [p \in Plugins |-> 0]
      /\ b = [functions |-> b.functions, data |-> b.data, refs |-> b.refs]
      BY DEF NoBackends
<1>2. ASSUME NEW p \in Plugins  PROVE Cardinality(ServedBy(b.functions, p)) = 0
  <2>1. ServedBy(b.functions, p) = {}  BY <1>1, PluginsAssumption DEF ServedBy
  <2> QED  BY <2>1, FS_EmptySet
<1> HIDE DEF b
<1>3. CountsInv(b) /\ Unserved(b)  BY <1>1, <1>2 DEF CountsInv, Unserved
<1> QED  BY <1>3 DEF b

-----------------------------------------------------------------------------
(* One category is loaded: it points at the plugin of its name or nothing  *)
(* changed, and only a backend that is open lets the call go on.           *)

Loaded(names, g, c, r) ==
    /\ CountsInv(r.b) /\ NamedBy(names, r.b)
    /\ \A d \in Cats \ {c} : r.b.functions[d] = g.b.functions[d]
    /\ r.went = "on" => /\ g.went = "on"
                        /\ r.b.functions[c] = names[c] /\ r.b.data[c] = "open"
                        /\ \A d \in Cats \ {c} : r.b.data[d] = g.b.data[d]

LEMMA LoadCategoryStep ==
    ASSUME NEW w, w.installed \subseteq Plugins, NEW names, NEW g, NEW c \in Cats,
           CountsInv(g.b), NamedBy(names, g.b), g.b.functions[c] = Null
    PROVE  Loaded(names, g, c, LoadCategory(w, names, g, c))
<1> DEFINE r == LoadCategory(w, names, g, c)
           name == names[c]
           p == LoadPlugin(g.b, c, name)
           h == Holding(p, c, Opened(w))
<1>1. CASE g.went # "on"
  <2>1. r = g  BY <1>1 DEF LoadCategory
  <2> QED  BY <1>1, <2>1 DEF Loaded
<1>2. CASE g.went = "on" /\ name \notin w.installed
  <2>1. r.b = g.b /\ r.went = "failed"  BY <1>2 DEF LoadCategory
  <2> HIDE DEF r
  <2>2. Loaded(names, g, c, r)  BY <2>1 DEF Loaded
  <2> QED  BY <2>2 DEF r
<1>3. CASE g.went = "on" /\ name \in w.installed
  <2>1. r.b = h /\ r.went = IF w.store # "ok" \/ c = w.unusable THEN "failed" ELSE "on"
        BY <1>3 DEF LoadCategory
  <2>2. name \in Plugins  BY <1>3
  <2>3. CountsInv(p)  BY <2>2, PointedCounts DEF LoadPlugin
  <2>4. CountsInv(h)  BY <2>3, HoldingCounts
  <2>5. p.functions = [g.b.functions EXCEPT ![c] = name] /\ p.data = g.b.data
        BY DEF LoadPlugin, Pointed
  <2>6. h.functions = p.functions /\ h.data = [p.data EXCEPT ![c] = Opened(w)]
        BY DEF Holding
  <2>7. DOMAIN g.b.functions = Cats /\ DOMAIN g.b.data = Cats  BY DEF CountsInv
  <2>8. w.store = "ok" => Opened(w) = "open"  BY DEF Opened
  <2> HIDE DEF r, h, p, name
  <2>9. NamedBy(names, h)  BY <2>5, <2>6, <2>7 DEF NamedBy, name
  <2>10. Loaded(names, g, c, r)
         BY <1>3, <2>1, <2>4, <2>5, <2>6, <2>7, <2>8, <2>9 DEF Loaded, name
  <2> QED  BY <2>10 DEF r
<1> QED  BY <1>1, <1>2, <1>3

(* All four: the counts are right wherever loading gave up, and a call     *)
(* that went well left every backend open.                                 *)
LEMMA LoadBackendsStep ==
    ASSUME NEW w, w.installed \subseteq Plugins, NEW names, NEW b, CountsInv(b), Unserved(b)
    PROVE  LET r == LoadBackends(w, names, b)
           IN  /\ CountsInv(r.b) /\ NamedBy(names, r.b)
               /\ r.went = "on" => AllOpen(names, r.b)
<1> DEFINE load(g, c) == LoadCategory(w, names, g, c)
           empty == [functions |-> b.functions, data |-> b.data, refs |-> NoBackends.refs]
           g0 == Going(empty)
           g1 == load(g0, "services")
           g2 == load(g1, "zones")
           g3 == load(g2, "interfaces")
           g4 == load(g3, "rules")
<1>1. LoadBackends(w, names, b) = g4  BY DEF LoadBackends
<1>2. g0.b = empty  BY DEF Going
<1>3. CountsInv(g0.b) /\ Unserved(g0.b)  BY <1>2, NothingCounts
<1>4. NamedBy(names, g0.b)  BY <1>3 DEF NamedBy, Unserved
<1>5. "services" \in Cats /\ "zones" \in Cats /\ "interfaces" \in Cats /\ "rules" \in Cats
      /\ Cats = {"services", "zones", "interfaces", "rules"}
      BY DEF Cats
<1> HIDE DEF g0
<1>6. Loaded(names, g0, "services", g1)  BY <1>3, <1>4, <1>5, LoadCategoryStep DEF Unserved
<1> HIDE DEF g1
<1>7. Loaded(names, g1, "zones", g2)
      BY <1>3, <1>5, <1>6, LoadCategoryStep DEF Unserved, Loaded
<1> HIDE DEF g2
<1>8. Loaded(names, g2, "interfaces", g3)
      BY <1>3, <1>5, <1>6, <1>7, LoadCategoryStep DEF Unserved, Loaded
<1> HIDE DEF g3
<1>9. Loaded(names, g3, "rules", g4)
      BY <1>3, <1>5, <1>6, <1>7, <1>8, LoadCategoryStep DEF Unserved, Loaded
<1> HIDE DEF g4
<1>10. CountsInv(g4.b) /\ NamedBy(names, g4.b)  BY <1>9 DEF Loaded
<1>11. g4.went = "on" => AllOpen(names, g4.b)
       BY <1>5, <1>6, <1>7, <1>8, <1>9 DEF Loaded, AllOpen
<1> QED  BY <1>1, <1>10, <1>11

-----------------------------------------------------------------------------
(* One category is unloaded: the plugin it points at is found under the    *)
(* name of the configuration, so a call that goes on leaves no pointer.    *)

Unloaded(names, g, c, r) ==
    /\ CountsInv(r.b) /\ NamedBy(names, r.b)
    /\ r.went = "on" => /\ g.went = "on" /\ r.b.functions[c] = Null
                        /\ \A d \in Cats : g.b.functions[d] = Null => r.b.functions[d] = Null

LEMMA UnloadCategoryStep ==
    ASSUME NEW names, NEW g, NEW c \in Cats, CountsInv(g.b), NamedBy(names, g.b)
    PROVE  Unloaded(names, g, c, UnloadCategory(names, g, c))
<1> DEFINE r == UnloadCategory(names, g, c)
           name == names[c]
           h == Holding(g.b, c, Null)
           u == UnloadPlugin(h, c, name)
<1>1. CASE g.went # "on"
  <2>1. r = g  BY <1>1 DEF UnloadCategory
  <2> QED  BY <1>1, <2>1 DEF Unloaded
<1>2. CASE g.went = "on" /\ g.b.functions[c] = Null
  <2>1. r.b = g.b /\ r.went = "crashed"  BY <1>2 DEF UnloadCategory
  <2> HIDE DEF r
  <2>2. Unloaded(names, g, c, r)  BY <2>1 DEF Unloaded
  <2> QED  BY <2>2 DEF r
<1>3. CASE /\ g.went = "on" /\ g.b.functions[c] # Null
           /\ g.b.data[c] = Null \/ (c # "rules" /\ g.b.data[c] = "bare")
  <2>1. r.b = g.b /\ r.went = "failed"  BY <1>3 DEF UnloadCategory
  <2> HIDE DEF r
  <2>2. Unloaded(names, g, c, r)  BY <2>1 DEF Unloaded
  <2> QED  BY <2>2 DEF r
<1>4. CASE /\ g.went = "on" /\ g.b.functions[c] # Null
           /\ ~(g.b.data[c] = Null \/ (c # "rules" /\ g.b.data[c] = "bare"))
  <2>1. r.b = u /\ r.went = "on"  BY <1>4 DEF UnloadCategory, Going
  <2>2. CountsInv(h)  BY HoldingCounts
  <2>3. h.functions = g.b.functions  BY DEF Holding
  <2>4. DOMAIN g.b.functions = Cats /\ g.b.functions[c] \in Plugins \cup {Null}  BY DEF CountsInv
  <2>5. h.functions[c] = name /\ name \in Plugins  BY <1>4, <2>3, <2>4 DEF NamedBy
  <2>6. h.refs[name] > 0 /\ CountsInv(Pointed(h, c, Null, name, h.refs[name] - 1))
        BY <2>2, <2>5, DroppedCounts
  <2>7. u = Pointed(h, c, Null, name, h.refs[name] - 1)  BY <2>5, <2>6 DEF UnloadPlugin
  <2>8. u.functions = [h.functions EXCEPT ![c] = Null]  BY <2>7 DEF Pointed
  <2>9. CountsInv(u)  BY <2>6, <2>7
  <2> HIDE DEF r, h, u, name
  <2>10. NamedBy(names, u)  BY <2>3, <2>4, <2>8 DEF NamedBy
  <2>11. Unloaded(names, g, c, r)  BY <1>4, <2>1, <2>3, <2>4, <2>8, <2>9, <2>10 DEF Unloaded
  <2> QED  BY <2>11 DEF r
<1> QED  BY <1>1, <1>2, <1>3, <1>4

LEMMA UnloadBackendsStep ==
    ASSUME NEW names, NEW b, CountsInv(b), NamedBy(names, b)
    PROVE  LET r == UnloadBackends(names, b)
           IN  /\ CountsInv(r.b) /\ NamedBy(names, r.b)
               /\ r.went = "on" => Unserved(r.b)
<1> DEFINE unload(g, c) == UnloadCategory(names, g, c)
           g0 == Going(b)
           g1 == unload(g0, "services")
           g2 == unload(g1, "zones")
           g3 == unload(g2, "interfaces")
           g4 == unload(g3, "rules")
<1>1. UnloadBackends(names, b) = g4  BY DEF UnloadBackends
<1>2. g0.b = b  BY DEF Going
<1>3. "services" \in Cats /\ "zones" \in Cats /\ "interfaces" \in Cats /\ "rules" \in Cats
      /\ Cats = {"services", "zones", "interfaces", "rules"}
      BY DEF Cats
<1> HIDE DEF g0
<1>4. Unloaded(names, g0, "services", g1)  BY <1>2, <1>3, UnloadCategoryStep
<1> HIDE DEF g1
<1>5. Unloaded(names, g1, "zones", g2)  BY <1>3, <1>4, UnloadCategoryStep DEF Unloaded
<1> HIDE DEF g2
<1>6. Unloaded(names, g2, "interfaces", g3)  BY <1>3, <1>5, UnloadCategoryStep DEF Unloaded
<1> HIDE DEF g3
<1>7. Unloaded(names, g3, "rules", g4)  BY <1>3, <1>6, UnloadCategoryStep DEF Unloaded
<1> HIDE DEF g4
<1>8. CountsInv(g4.b) /\ NamedBy(names, g4.b)  BY <1>7 DEF Unloaded
<1>9. g4.went = "on" => Unserved(g4.b)
      BY <1>3, <1>4, <1>5, <1>6, <1>7 DEF Unloaded, Unserved
<1> QED  BY <1>1, <1>8, <1>9

-----------------------------------------------------------------------------
(* The daemon *)

LEMMA DownInv == DaemonInv(Down) /\ Down.backends = NoBackends /\ DOMAIN Down = Fields
<1>1. DOMAIN Down = Fields  BY DEF Down, Fields
<1>2. Down.backends = NoBackends /\ Down.state = "down"  BY DEF Down
<1>3. NamedBy(Names(Down.conf.values), NoBackends)  BY NoBackendsCounts DEF NamedBy, Unserved
<1> QED  BY <1>1, <1>2, <1>3, NoBackendsCounts DEF DaemonInv

(* A step of a reload that failed, the backends being whatever they are.   *)
LEMMA FailedInv ==
    ASSUME NEW d, DOMAIN d = Fields, CountsInv(d.backends),
           NamedBy(Names(d.conf.values), d.backends)
    PROVE  DaemonInv(Failed(d))
<1> DEFINE r == Done(d, "failed")
<1>1. /\ DOMAIN r = Fields /\ r.backends = d.backends /\ r.conf = d.conf
      /\ r.state = "up" /\ r.last = "failed"
      BY DEF Done, Fields
<1> HIDE DEF r
<1>2. DaemonInv(r)  BY <1>1 DEF DaemonInv
<1> QED  BY <1>2, DownInv DEF Failed, r

LEMMA DoneInv ==
    ASSUME NEW d, DOMAIN d = Fields, CountsInv(d.backends),
           NamedBy(Names(d.conf.values), d.backends), AllOpen(Names(d.conf.values), d.backends)
    PROVE  DaemonInv(Done(d, "ok"))
<1> DEFINE r == Done(d, "ok")
<1>1. /\ DOMAIN r = Fields /\ r.backends = d.backends /\ r.conf = d.conf
      /\ r.state = "up" /\ r.last = "ok"
      BY DEF Done, Fields
<1> HIDE DEF r
<1>2. DaemonInv(r)  BY <1>1 DEF DaemonInv
<1> QED  BY <1>2 DEF r

LEMMA NotCalmInv ==
    ASSUME BackendsInv, NotCalm \/ UNCHANGED daemon
    PROVE  DaemonInv(daemon')
<1>1. CASE UNCHANGED daemon  BY <1>1 DEF BackendsInv
<1>2. CASE NotCalm
  <2> DEFINE d == daemon'
  <2>1. /\ DOMAIN d = Fields /\ d.backends = daemon.backends /\ d.conf = daemon.conf
        /\ d.state = daemon.state /\ d.last = daemon.last
        BY <1>2 DEF NotCalm, BackendsInv, DaemonInv, Fields
  <2> HIDE DEF d
  <2>2. DaemonInv(d)  BY <2>1 DEF DaemonInv, BackendsInv
  <2> QED  BY <2>2 DEF d
<1> QED  BY <1>1, <1>2

LEMMA StartDaemonInv ==
    ASSUME BackendsInv, StartDaemon
    PROVE  DaemonInv(daemon')
<1>1. PICK level \in Levels, stays \in BOOLEAN :
         daemon' = [Down EXCEPT !.state = "reading", !.stays = stays, !.level = level # Blank,
                                !.new = BeginReading(level)]
      BY DEF StartDaemon
<1> DEFINE d == daemon'
<1>2. DOMAIN d = Fields /\ d.backends = NoBackends /\ d.state = "reading"
      BY <1>1, DownInv DEF Fields
<1> HIDE DEF d
<1>3. NamedBy(Names(d.conf.values), NoBackends)  BY NoBackendsCounts DEF NamedBy, Unserved
<1>4. DaemonInv(d)  BY <1>2, <1>3, NoBackendsCounts DEF DaemonInv
<1> QED  BY <1>4 DEF d

LEMMA BeginReloadInv ==
    ASSUME BackendsInv, BeginReload
    PROVE  DaemonInv(daemon')
<1> DEFINE names == Names(daemon.conf.values)
           g == UnloadBackends(names, daemon.backends)
           d == [daemon EXCEPT !.backends = g.b]
           e == [d EXCEPT !.state = "reading", !.at = 1, !.calm = TRUE, !.new = BeginReading(Blank)]
<1>1. daemon' = CASE g.went = "on" -> e [] g.went = "failed" -> Failed(d) [] g.went = "crashed" -> Down
      BY DEF BeginReload
<1>2. DOMAIN daemon = Fields /\ CountsInv(daemon.backends) /\ NamedBy(names, daemon.backends)
      BY DEF BackendsInv, DaemonInv
<1>3. CountsInv(g.b) /\ NamedBy(names, g.b) /\ (g.went = "on" => Unserved(g.b))
      BY <1>2, UnloadBackendsStep
<1> HIDE DEF g
<1>4. DOMAIN d = Fields /\ d.backends = g.b /\ d.conf = daemon.conf  BY <1>2 DEF Fields
<1>5. DaemonInv(Failed(d))
  <2> HIDE DEF d
  <2> QED  BY <1>3, <1>4, FailedInv
<1>6. ASSUME g.went = "on"  PROVE DaemonInv(e)
  <2>1. DOMAIN e = Fields /\ e.backends = g.b /\ e.conf = daemon.conf /\ e.state = "reading"
        BY <1>4 DEF Fields
  <2> HIDE DEF e
  <2> QED  BY <1>3, <1>6, <2>1 DEF DaemonInv
<1>7. g.went \in {"on", "failed", "crashed"}
  <2>1. \A g1, c : g1.went \in {"on", "failed", "crashed"} =>
                      UnloadCategory(names, g1, c).went \in {"on", "failed", "crashed"}
        BY DEF UnloadCategory, Going
  <2>2. Going(daemon.backends).went = "on"  BY DEF Going
  <2> QED  BY <2>1, <2>2 DEF g, UnloadBackends
<1> HIDE DEF d, e
<1>8. CASE g.went = "on"  BY <1>1, <1>6, <1>8
<1>9. CASE g.went = "failed"  BY <1>1, <1>5, <1>9
<1>10. CASE g.went = "crashed"  BY <1>1, <1>10, DownInv
<1> QED  BY <1>7, <1>8, <1>9, <1>10

LEMMA ReadNextInv ==
    ASSUME BackendsInv, ReadNext
    PROVE  DaemonInv(daemon')
<1> DEFINE d == daemon'
<1>1. PICK at, new : daemon' = [daemon EXCEPT !.at = at, !.new = new]  BY DEF ReadNext
<1>2. /\ DOMAIN d = Fields /\ d.backends = daemon.backends /\ d.conf = daemon.conf
      /\ d.state = daemon.state /\ d.last = daemon.last
      BY <1>1 DEF BackendsInv, DaemonInv, Fields
<1> HIDE DEF d
<1>3. DaemonInv(d)  BY <1>2 DEF DaemonInv, BackendsInv
<1> QED  BY <1>3 DEF d

(* The names change here, and nothing is served. *)
LEMMA TakeConfigInv ==
    ASSUME BackendsInv, TakeConfig
    PROVE  DaemonInv(daemon')
<1> DEFINE d == daemon'
<1>1. daemon.state = "reading" /\ DOMAIN daemon = Fields
      /\ CountsInv(daemon.backends) /\ Unserved(daemon.backends)
      BY DEF TakeConfig, BackendsInv, DaemonInv
<1>2. CASE daemon' = Down  BY <1>2, DownInv
<1>3. CASE daemon' = [daemon EXCEPT !.state = "loading", !.conf = daemon.new]
           \/ daemon' = [daemon EXCEPT !.state = "loading"]
  <2>1. DOMAIN d = Fields /\ d.backends = daemon.backends /\ d.state = "loading"
        BY <1>1, <1>3 DEF Fields
  <2> HIDE DEF d
  <2>2. NamedBy(Names(d.conf.values), d.backends)  BY <1>1, <2>1 DEF NamedBy, Unserved
  <2>3. DaemonInv(d)  BY <1>1, <2>1, <2>2 DEF DaemonInv
  <2> QED  BY <2>3 DEF d
<1> QED  BY <1>2, <1>3 DEF TakeConfig

LEMMA OpenBackendsInv ==
    ASSUME BackendsInv, OpenBackends
    PROVE  DaemonInv(daemon')
<1> DEFINE names == Names(daemon.conf.values)
           g == LoadBackends(world, names, daemon.backends)
           d == [daemon EXCEPT !.backends = g.b]
           e == [d EXCEPT !.starting = FALSE]
<1>1. daemon' = IF g.went = "on" THEN Done(e, "ok") ELSE Failed(d)  BY DEF OpenBackends
<1>2. /\ DOMAIN daemon = Fields /\ world.installed \subseteq Plugins
      /\ CountsInv(daemon.backends) /\ Unserved(daemon.backends)
      BY DEF OpenBackends, BackendsInv, DaemonInv
<1>3. CountsInv(g.b) /\ NamedBy(names, g.b) /\ (g.went = "on" => AllOpen(names, g.b))
      BY <1>2, LoadBackendsStep
<1> HIDE DEF g
<1>4. DOMAIN d = Fields /\ d.backends = g.b /\ d.conf = daemon.conf  BY <1>2 DEF Fields
<1>5. DOMAIN e = Fields /\ e.backends = g.b /\ e.conf = daemon.conf  BY <1>4 DEF Fields
<1> HIDE DEF d, e
<1>6. DaemonInv(Failed(d))  BY <1>3, <1>4, FailedInv
<1>7. g.went = "on" => DaemonInv(Done(e, "ok"))  BY <1>3, <1>5, DoneInv
<1> QED  BY <1>1, <1>6, <1>7

LEMMA RunningInv ==
    ASSUME NEW level, NEW stays
    PROVE  DaemonInv(Running(level, stays))
<1> DEFINE conf == ReadAll(BeginReading(level), Main, Defaults(Main), level # Blank)
           names == Names(conf.values)
           g == LoadBackends(Well, names, NoBackends)
           d == [Down EXCEPT !.stays = stays, !.level = level # Blank, !.starting = FALSE,
                             !.conf = conf, !.backends = g.b]
<1>1. Running(level, stays) = IF g.went = "on" THEN Done(d, "ok") ELSE Down  BY DEF Running
<1>2. Well.installed \subseteq Plugins  BY DEF Well
<1> HIDE DEF conf
<1>3. CountsInv(g.b) /\ NamedBy(names, g.b) /\ (g.went = "on" => AllOpen(names, g.b))
      BY <1>2, NoBackendsCounts, LoadBackendsStep
<1> HIDE DEF g
<1>4. DOMAIN d = Fields /\ d.backends = g.b /\ d.conf = conf  BY DownInv DEF Fields
<1> HIDE DEF d
<1>5. g.went = "on" => DaemonInv(Done(d, "ok"))  BY <1>3, <1>4, DoneInv
<1> QED  BY <1>1, <1>5, DownInv

-----------------------------------------------------------------------------
LEMMA InitBackends == Init => BackendsInv
<1> SUFFICES ASSUME Init  PROVE BackendsInv
    OBVIOUS
<1>1. world.installed \subseteq Plugins  BY DEF Init, Well
<1>2. DaemonInv(daemon)  BY DownInv, RunningInv DEF Init
<1> QED  BY <1>1, <1>2 DEF BackendsInv

LEMMA NextBackends == BackendsInv /\ [Next]_vars => BackendsInv'
<1> SUFFICES ASSUME BackendsInv, [Next]_vars  PROVE BackendsInv'
    OBVIOUS
<1> USE DEF BackendsInv
<1>1. ASSUME UNCHANGED << daemon, world >>  PROVE BackendsInv'
      BY <1>1
<1>2. CASE StartTool \/ Answer \/ LeaveMenu \/ QuitTool \/ BreakOff
      BY <1>1, <1>2 DEF StartTool, Answer, LeaveMenu, QuitTool, BreakOff
<1>3. ASSUME NEW form \in Forms, EditForm(form)  PROVE BackendsInv'
  <2>1. world' = world /\ (NotCalm \/ UNCHANGED daemon)  BY <1>3 DEF EditForm
  <2> QED  BY <2>1, NotCalmInv
<1>4. CASE Flush \/ FinishWriting \/ EditByHand
  <2>1. world' = world /\ (NotCalm \/ UNCHANGED daemon)
        BY <1>4 DEF Flush, FinishWriting, EditByHand
  <2> QED  BY <2>1, NotCalmInv
<1>5. CASE WorldChanges
  <2>1. world'.installed \subseteq Plugins /\ daemon' = daemon  BY <1>5 DEF WorldChanges, Well
  <2> QED  BY <2>1
<1>6. CASE StartDaemon  BY <1>6, StartDaemonInv DEF StartDaemon
<1>7. CASE BeginReload  BY <1>7, BeginReloadInv DEF BeginReload
<1>8. CASE ReadNext  BY <1>8, ReadNextInv DEF ReadNext
<1>9. CASE TakeConfig  BY <1>9, TakeConfigInv DEF TakeConfig
<1>10. CASE OpenBackends  BY <1>10, OpenBackendsInv DEF OpenBackends
<1>11. CASE StopDaemon  BY <1>11, DownInv DEF StopDaemon
<1>12. CASE UNCHANGED vars  BY <1>1, <1>12 DEF vars
<1> QED  BY <1>2, <1>3, <1>4, <1>5, <1>6, <1>7, <1>8, <1>9, <1>10, <1>11, <1>12 DEF Next

LEMMA BackendsInvariant == Spec => []BackendsInv
BY InitBackends, NextBackends, PTL DEF Spec

(* Whenever loading and unloading gave up, and under whatever names, the   *)
(* count that load_plugin and unload_plugin keep of a plugin is the number *)
(* of categories that point at it: a plugin is closed neither under a      *)
(* category that uses it nor never.                                        *)
THEOREM CountedTheorem == Spec => []PluginsCounted
<1>1. BackendsInv => PluginsCounted
      BY DEF BackendsInv, DaemonInv, CountsInv, ServedBy, PluginsCounted
<1> QED  BY <1>1, BackendsInvariant, PTL

(* After a reload that went well every category is open with the plugin    *)
(* that the configuration in use names, whatever failed before.            *)
THEOREM ServesTheorem == Spec => []ServesWithItsConf
<1>1. BackendsInv => ServesWithItsConf  BY DEF BackendsInv, DaemonInv, ServesWithItsConf
<1> QED  BY <1>1, BackendsInvariant, PTL

-----------------------------------------------------------------------------
(* Induction over the natural numbers, said of sets: a set of numbers that *)
(* has 0 and, with every number, the next one, has them all.               *)

(* A smallest number outside of S would be the top of a smallest interval. *)
LEMMA NatSets ==
    ASSUME NEW S, 0 \in S, \A n \in Nat : n \in S => n + 1 \in S
    PROVE  Nat \subseteq S
  <1> DEFINE T == {A \in FiniteSubsetsOf(Nat) : \E n \in Nat \ S : A = 0..n}
  <1> SUFFICES ASSUME NEW m \in Nat \ S PROVE FALSE
    OBVIOUS
  <1>1. \A n \in Nat : 0..n \in FiniteSubsetsOf(Nat)
    BY FS_Interval DEF FiniteSubsetsOf
  <1>2. 0..m \in T
    BY <1>1
  <1>3. PICK A \in T : \A B \in T : ~ (<<B, A>> \in StrictSubsetOrdering(Nat))
    <2> HIDE DEF T
    <2>1. IsWellFoundedOn(StrictSubsetOrdering(Nat), FiniteSubsetsOf(Nat))
      BY FS_StrictSubsetOrderingWellFounded
    <2>2. T \subseteq FiniteSubsetsOf(Nat)
      BY DEF T
    <2>3. QED
      BY <1>2, <2>1, <2>2, WFMin
  <1>4. PICK x \in Nat \ S : A = 0..x
    BY <1>3
  <1>5. x # 0 /\ x - 1 \in Nat
    BY <1>4
  <1>6. 0..(x - 1) \in SUBSET Nat /\ A \in SUBSET Nat /\ 0..(x - 1) \subseteq A /\ 0..(x - 1) # A
    <2>1. x \in A /\ x \notin 0..(x - 1)
      BY <1>4, <1>5
    <2>2. QED
      BY <1>4, <1>5, <2>1
  <1>7. <<0..(x - 1), A>> \in StrictSubsetOrdering(Nat)
    BY <1>6 DEF StrictSubsetOrdering
  <1>8. x - 1 \in S
    BY <1>1, <1>3, <1>5, <1>7
  <1>9. QED
    BY <1>4, <1>5, <1>8

(* The runs of N steps from base: step says what comes of what there was. *)
RunsOf(V, N, base, step) ==
    {f \in [0..N -> V] : f[0] = base /\ \A i \in 1..N : f[i] = step[<<i, f[i - 1]>>]}

(* There is one. *)
LEMMA Recursion ==
    ASSUME NEW V, NEW N \in Nat, NEW base \in V, NEW step \in [(1..N) \X V -> V]
    PROVE  RunsOf(V, N, base, step) # {}
  <1> DEFINE Runs(n) == {f \in [0..n -> V] :
                           f[0] = base /\ \A i \in 1..n : f[i] = step[<<i, f[i - 1]>>]}
             S == {n \in Nat : n <= N => Runs(n) # {}}
  <1>1. 0 \in S
    <2>1. [i \in 0..0 |-> base] \in Runs(0)
      OBVIOUS
    <2>2. QED
      BY <2>1
  <1>2. ASSUME NEW n \in Nat, n \in S PROVE n + 1 \in S
    <2>1. SUFFICES ASSUME n + 1 <= N PROVE Runs(n + 1) # {}
      OBVIOUS
    <2>2. PICK f \in Runs(n) : TRUE
      BY <1>2, <2>1
    <2>3. n \in 0..n /\ n + 1 \in 1..N /\ f[n] \in V /\ <<n + 1, f[n]>> \in (1..N) \X V
      BY <2>1, <2>2
    <2> DEFINE g == [i \in 0..(n + 1) |-> IF i = n + 1 THEN step[<<n + 1, f[n]>>] ELSE f[i]]
    <2>4. g \in [0..(n + 1) -> V]
      BY <2>2, <2>3
    <2>5. ASSUME NEW i \in 1..(n + 1) PROVE g[i] = step[<<i, g[i - 1]>>]
      <3>1. i \in 0..(n + 1) /\ i - 1 \in 0..(n + 1) /\ i - 1 # n + 1
        BY <2>5
      <3>2. g[i - 1] = f[i - 1]
        BY <3>1
      <3>3. CASE i = n + 1
        BY <3>1, <3>2, <3>3
      <3>4. CASE i # n + 1
        <4>1. g[i] = f[i] /\ i \in 1..n
          BY <3>1, <3>4
        <4>2. QED
          BY <2>2, <3>2, <4>1
      <3>5. QED
        BY <3>3, <3>4
    <2>6. g[0] = base
      BY <2>2
    <2>7. g \in Runs(n + 1)
      BY <2>4, <2>5, <2>6
    <2>8. QED
      BY <2>7
  <1>3. N \in S
    <2> HIDE DEF S
    <2>1. QED
      BY <1>1, <1>2, NatSets
  <1>4. QED
    BY <1>3 DEF RunsOf

-----------------------------------------------------------------------------
(* Going through a list. *)

(* The lists of what was kept so far, one for every length of a beginning. *)
KeptSoFar(s, places, A) ==
    {f \in [0 .. Len(s) -> Seq(A)] :
        /\ f[0] = << >>
        /\ \A i \in 1 .. Len(s) :
              f[i] = IF i \in places THEN Append(f[i - 1], s[i]) ELSE f[i - 1]}

(* There is such a function, and its last list is what is kept. *)
LEMMA KeptRuns ==
    ASSUME NEW A, NEW s \in Seq(A), NEW places
    PROVE  \E f \in KeptSoFar(s, places, A) : Kept(s, places) = f[Len(s)]
  <1> DEFINE kept[i \in 0 .. Len(s)] ==
               IF i = 0 THEN << >>
               ELSE IF i \in places THEN Append(kept[i - 1], s[i]) ELSE kept[i - 1]
             V == Seq(A)
             step == [p \in (1..Len(s)) \X V |->
                        IF p[1] \in places THEN Append(p[2], s[p[1]]) ELSE p[2]]
  <1>1. Len(s) \in Nat /\ \A i \in 1..Len(s) : s[i] \in A /\ i \in 0..Len(s) /\ i - 1 \in 0..Len(s)
    OBVIOUS
  <1>2. step \in [(1..Len(s)) \X V -> V] /\ <<>> \in V
    BY <1>1
  <1>3. \E f \in [0..Len(s) -> V] :
          f[0] = <<>> /\ \A i \in 1..Len(s) : f[i] = step[<<i, f[i - 1]>>]
    <2> DEFINE N == Len(s)
               empty == <<>>
    <2>1. N \in Nat /\ empty \in V /\ step \in [(1..N) \X V -> V]
      BY <1>1, <1>2
    <2> HIDE DEF V, step, N, empty
    <2>2. RunsOf(V, N, empty, step) # {}
      BY <2>1, Recursion
    <2>3. QED
      BY <2>2 DEF RunsOf, N, empty
  <1>4. PICK f \in [0..Len(s) -> V] :
          f[0] = <<>> /\ \A i \in 1..Len(s) : f[i] = step[<<i, f[i - 1]>>]
    BY <1>3
  <1>5. ASSUME NEW i \in 1..Len(s)
        PROVE  f[i] = IF i \in places THEN Append(f[i - 1], s[i]) ELSE f[i - 1]
    <2>1. f[i - 1] \in V
      <3> HIDE DEF V
      <3>1. QED
        BY <1>1, <1>4
    <2>2. <<i, f[i - 1]>> \in (1..Len(s)) \X V
      BY <2>1
    <2>3. f[i] = step[<<i, f[i - 1]>>]
      BY <1>4
    <2>4. QED
      BY <2>2, <2>3
  <1>6. f = [i \in 0..Len(s) |->
               IF i = 0 THEN <<>>
               ELSE IF i \in places THEN Append(f[i - 1], s[i]) ELSE f[i - 1]]
    <2> HIDE DEF V, step
    <2>1. ASSUME NEW i \in 0..Len(s)
          PROVE  f[i] = IF i = 0 THEN <<>>
                        ELSE IF i \in places THEN Append(f[i - 1], s[i]) ELSE f[i - 1]
      <3>1. i = 0 \/ i \in 1..Len(s)
        BY <1>1
      <3>2. QED
        BY <1>4, <1>5, <3>1
    <2>2. QED
      BY <1>4, <2>1
  <1>7. kept = [i \in 0..Len(s) |->
                  IF i = 0 THEN <<>>
                  ELSE IF i \in places THEN Append(kept[i - 1], s[i]) ELSE kept[i - 1]]
    BY <1>6
  <1>8. kept \in KeptSoFar(s, places, A)
    <2> HIDE DEF kept, step
    <2>1. kept[0] = <<>>
      BY <1>1, <1>7
    <2>2. ASSUME NEW i \in 1..Len(s)
          PROVE  kept[i] = IF i \in places THEN Append(kept[i - 1], s[i]) ELSE kept[i - 1]
      <3>1. i \in 0..Len(s) /\ i # 0
        BY <1>1
      <3>2. QED
        BY <1>7, <3>1
    <2> DEFINE T == {n \in Nat : n <= Len(s) => kept[n] \in V}
    <2>3. 0 \in T
      BY <1>2, <2>1
    <2>4. ASSUME NEW n \in Nat, n \in T PROVE n + 1 \in T
      <3>1. SUFFICES ASSUME n + 1 <= Len(s) PROVE kept[n + 1] \in V
        OBVIOUS
      <3>2. n + 1 \in 1..Len(s) /\ n + 1 - 1 = n /\ kept[n] \in V /\ s[n + 1] \in A
        BY <1>1, <2>4, <3>1
      <3>3. kept[n + 1] = IF n + 1 \in places THEN Append(kept[n], s[n + 1]) ELSE kept[n]
        BY <2>2, <3>2
      <3>4. QED
        BY <3>2, <3>3
    <2>5. Nat \subseteq T
      <3> HIDE DEF T
      <3>1. QED
        BY <2>3, <2>4, NatSets
    <2>6. ASSUME NEW n \in 0..Len(s) PROVE kept[n] \in V
      BY <1>1, <2>5
    <2>7. kept \in [0..Len(s) -> V]
      <3> HIDE DEF V
      <3>1. QED
        BY <1>7, <2>6
    <2>8. QED
      BY <2>1, <2>2, <2>7 DEF KeptSoFar
  <1>9. Kept(s, places) = kept[Len(s)]
    BY DEF Kept, kept
  <1>10. QED
    BY <1>8, <1>9

(* What is kept is a list of what was there. *)
LEMMA KeptType ==
    ASSUME NEW A, NEW s \in Seq(A), NEW places
    PROVE  Kept(s, places) \in Seq(A)
  <1>1. PICK f \in KeptSoFar(s, places, A) : Kept(s, places) = f[Len(s)]
    BY KeptRuns
  <1>2. Len(s) \in 0 .. Len(s)
    OBVIOUS
  <1>3. QED
    BY <1>1, <1>2 DEF KeptSoFar

(* What is kept is what is at the places, in order; the last place, if it  *)
(* is one, gives the end.                                                  *)
LEMMA KeptRange ==
    ASSUME NEW A, NEW s \in Seq(A), NEW places \in SUBSET (1 .. Len(s))
    PROVE  /\ \A i \in DOMAIN Kept(s, places) : \E j \in places : Kept(s, places)[i] = s[j]
           /\ \A j \in places : \E i \in DOMAIN Kept(s, places) : Kept(s, places)[i] = s[j]
<1>1. PICK f \in KeptSoFar(s, places, A) : Kept(s, places) = f[Len(s)]  BY KeptRuns
<1> DEFINE N == Len(s)
           In(n) == \A i \in DOMAIN f[n] : \E j \in places : f[n][i] = s[j]
           All(n) == \A j \in places : j <= n => \E i \in DOMAIN f[n] : f[n][i] = s[j]
           T == {n \in Nat : n <= N => In(n) /\ All(n)}
<1>2. N \in Nat /\ N <= N /\ (\A i \in 1 .. N : s[i] \in A) /\ \A j \in places : j \in 1 .. N
      OBVIOUS
<1>3. 0 \in T
  <2>1. f[0] = << >>  BY <1>1 DEF KeptSoFar
  <2>2. DOMAIN f[0] = {}  BY <2>1
  <2>3. In(0)  BY <2>2
  <2>4. All(0)  BY <1>2
  <2> QED  BY <2>3, <2>4
<1>4. ASSUME NEW n \in Nat, n \in T  PROVE n + 1 \in T
  <2>1. SUFFICES ASSUME n + 1 <= N  PROVE In(n + 1) /\ All(n + 1)
        OBVIOUS
  <2>2. n + 1 \in 1 .. N /\ n \in 0 .. N /\ n + 1 - 1 = n /\ In(n) /\ All(n)  BY <1>2, <1>4, <2>1
  <2>3. f[n] \in Seq(A) /\ s[n + 1] \in A  BY <1>1, <2>2 DEF KeptSoFar
  <2>4. f[n + 1] = IF n + 1 \in places THEN Append(f[n], s[n + 1]) ELSE f[n]
        BY <1>1, <2>2 DEF KeptSoFar
  <2>5. \A j \in places : j <= n + 1 => j <= n \/ j = n + 1  BY <1>2, <2>2
  <2>6. CASE n + 1 \in places
    <3> DEFINE g == f[n]  e == s[n + 1]
    <3>1. g \in Seq(A) /\ e \in A /\ f[n + 1] = Append(g, e)  BY <2>3, <2>4, <2>6
    <3>2. DOMAIN Append(g, e) = (DOMAIN g) \cup {Len(g) + 1} /\ DOMAIN g = 1 .. Len(g)
          /\ Append(g, e)[Len(g) + 1] = e /\ \A i \in DOMAIN g : Append(g, e)[i] = g[i]
      <4> HIDE DEF g, e
      <4> QED  BY <3>1
    <3>3. In(n + 1)
      <4> SUFFICES ASSUME NEW i \in DOMAIN f[n + 1]  PROVE \E j \in places : f[n + 1][i] = s[j]
          OBVIOUS
      <4>1. i \in DOMAIN g \/ i = Len(g) + 1  BY <3>1, <3>2
      <4> QED  BY <2>2, <2>6, <3>1, <3>2, <4>1
    <3>4. All(n + 1)
      <4> SUFFICES ASSUME NEW j \in places, j <= n + 1
                   PROVE  \E i \in DOMAIN f[n + 1] : f[n + 1][i] = s[j]
          OBVIOUS
      <4>1. CASE j = n + 1
        <5>1. Len(g) + 1 \in DOMAIN f[n + 1] /\ f[n + 1][Len(g) + 1] = s[j]  BY <3>1, <3>2, <4>1
        <5> QED  BY <5>1
      <4>2. CASE j <= n
        <5>1. PICK i \in DOMAIN g : g[i] = s[j]  BY <2>2, <4>2
        <5>2. i \in DOMAIN f[n + 1] /\ f[n + 1][i] = s[j]  BY <3>1, <3>2, <5>1
        <5> QED  BY <5>2
      <4> QED  BY <2>5, <4>1, <4>2
    <3> QED  BY <3>3, <3>4
  <2>7. CASE n + 1 \notin places
    <3>1. f[n + 1] = f[n]  BY <2>4, <2>7
    <3>2. \A j \in places : j <= n + 1 => j <= n  BY <2>5, <2>7
    <3> QED  BY <2>2, <3>1, <3>2
  <2> QED  BY <2>6, <2>7
<1>5. Nat \subseteq T
  <2> HIDE DEF T
  <2> QED  BY <1>3, <1>4, NatSets
<1>6. In(N) /\ All(N)  BY <1>2, <1>5
<1>7. \A j \in places : j <= N  BY <1>2
<1> HIDE DEF N
<1> QED  BY <1>1, <1>6, <1>7 DEF N

LEMMA KeptEnd ==
    ASSUME NEW A, NEW s \in Seq(A), NEW places \in SUBSET (1 .. Len(s)), Len(s) \in places
    PROVE  /\ Len(Kept(s, places)) > 0
           /\ Kept(s, places)[Len(Kept(s, places))] = s[Len(s)]
           /\ \A i \in 1 .. Len(Kept(s, places)) - 1 :
                 \E j \in places : j < Len(s) /\ Kept(s, places)[i] = s[j]
<1> DEFINE N == Len(s)
           t == SubSeq(s, 1, N - 1)
           front == places \ {N}
<1>1. PICK f \in KeptSoFar(s, places, A) : Kept(s, places) = f[N]  BY KeptRuns
<1>2. N \in Nat /\ N \in 1 .. N /\ N - 1 \in 0 .. N /\ \A i \in 1 .. N : s[i] \in A  OBVIOUS
<1>3. f[N - 1] \in Seq(A) /\ f[N] = Append(f[N - 1], s[N])  BY <1>1, <1>2 DEF KeptSoFar
<1> DEFINE T == {n \in Nat : n < N => \A i \in DOMAIN f[n] : \E j \in places : j < N /\ f[n][i] = s[j]}
<1>4. 0 \in T
  <2>1. f[0] = << >>  BY <1>1 DEF KeptSoFar
  <2>2. DOMAIN f[0] = {}  BY <2>1
  <2> QED  BY <2>2
<1>5. ASSUME NEW n \in Nat, n \in T  PROVE n + 1 \in T
  <2>1. SUFFICES ASSUME n + 1 < N
                 PROVE  \A i \in DOMAIN f[n + 1] : \E j \in places : j < N /\ f[n + 1][i] = s[j]
        OBVIOUS
  <2>2. n + 1 \in 1 .. N /\ n \in 0 .. N /\ n + 1 - 1 = n /\ n < N  BY <1>2, <2>1
  <2>3. f[n] \in Seq(A) /\ s[n + 1] \in A  BY <1>1, <2>2 DEF KeptSoFar
  <2>4. f[n + 1] = IF n + 1 \in places THEN Append(f[n], s[n + 1]) ELSE f[n]
        BY <1>1, <2>2 DEF KeptSoFar
  <2>5. \A i \in DOMAIN f[n] : \E j \in places : j < N /\ f[n][i] = s[j]  BY <1>5, <2>2
  <2>6. CASE n + 1 \in places
    <3> DEFINE g == f[n]  e == s[n + 1]
    <3>1. g \in Seq(A) /\ e \in A /\ f[n + 1] = Append(g, e)  BY <2>3, <2>4, <2>6
    <3> HIDE DEF g
    <3>2. DOMAIN Append(g, e) = (DOMAIN g) \cup {Len(g) + 1} /\ DOMAIN g = 1 .. Len(g)
          /\ Append(g, e)[Len(g) + 1] = e /\ \A i \in DOMAIN g : Append(g, e)[i] = g[i]
      <4> HIDE DEF e
      <4> QED  BY <3>1
    <3> QED  BY <2>1, <2>5, <2>6, <3>1, <3>2 DEF g
  <2>7. CASE n + 1 \notin places  BY <2>4, <2>5, <2>7
  <2> QED  BY <2>6, <2>7
<1>6. Nat \subseteq T
  <2> HIDE DEF T
  <2> QED  BY <1>4, <1>5, NatSets
<1>7. N - 1 \in Nat /\ N - 1 < N  BY <1>2
<1>8. \A i \in DOMAIN f[N - 1] : \E j \in places : j < N /\ f[N - 1][i] = s[j]  BY <1>6, <1>7
<1> DEFINE g == f[N - 1]  e == s[N]
<1>9. g \in Seq(A) /\ e \in A /\ Kept(s, places) = Append(g, e)
      /\ \A i \in DOMAIN g : \E j \in places : j < N /\ g[i] = s[j]
      BY <1>1, <1>2, <1>3, <1>8
<1> HIDE DEF g, N
<1>10. Len(Append(g, e)) = Len(g) + 1 /\ Len(g) \in Nat /\ DOMAIN g = 1 .. Len(g)
       /\ Append(g, e)[Len(g) + 1] = e /\ \A i \in 1 .. Len(g) : Append(g, e)[i] = g[i]
  <2> HIDE DEF e
  <2> QED  BY <1>9
<1> QED  BY <1>9, <1>10 DEF N

-----------------------------------------------------------------------------
(* The texts of a configuration.  The kind of a setting follows from its   *)
(* name.                                                                   *)

YesNoKeys ==
    {"DYN_INT_CHECK", "DROP_INVALID", "LOG_BLOCKLIST", "LOG_INVALID", "LOG_NO_SYN", "LOG_PROBES",
     "LOG_FRAG", "USE_SYN_LIMIT", "USE_UDP_LIMIT", "LOG_POLICY", "RULE_NFLOG", "LOG_TCP_OPTIONS",
     "PROTECT_SYNCOOKIE", "PROTECT_ECHOBROADCAST", "LOAD_MODULES", "ADVANCED_MODE",
     "MAINMENU_STATUS", "NEWRULE_LOG"}
NumberKeys ==
    {"DYN_INT_INTERVAL", "NFGRP", "LOG_POLICY_LIMIT", "MODULES_WAIT_TIME", "NEWRULE_LOGLIMIT",
     "LOGVIEW_BUFSIZE"}
LimitKeys  == {"SYN_LIMIT", "SYN_LIMIT_BURST", "UDP_LIMIT", "UDP_LIMIT_BURST"}
ModeKeys   == {"MAX_PERMISSION"}
PluginKeys == {"SERVICES_BACKEND", "ZONES_BACKEND", "INTERFACES_BACKEND", "RULES_BACKEND"}
FileKeys   == {"RULESFILE", "BLOCKLISTFILE"}
ColourKeys == {"BACKGROUND"}
LogDirKeys == {"LOGDIR"}
PlainKeys  ==
    {"SYSCTL", "IPTABLES", "IPTABLES_RESTORE", "IP6TABLES", "IP6TABLES_RESTORE", "CONNTRACK", "TC",
     "MODPROBE", "LOGLEVEL", "SYSTEMLOG", "IPTRAFVOL"}

(* A setting without a line keeps what it had. *)
KeptKeys == {"CONNTRACK", "TC", "BACKGROUND"}

(* A text that reading leaves as it is. *)
Accepted(k, v) ==
    /\ v # Absent /\ v # TooLong
    /\ k \in YesNoKeys => v \in {"Yes", "No"}
    /\ k \in NumberKeys => v = "0" \/ v \in Positive
    /\ k \in LimitKeys => v \in Positive
    /\ k \in ModeKeys => v \in Octal
    /\ k \in FileKeys => v \in FullPath
    /\ k \in ColourKeys => v \in {"blue", "black"}

(* A line that reading makes such a text of, or stops at. *)
Fits(f, k, t) ==
    /\ f = Own => t # TooLong
    /\ k \in FileKeys /\ t \notin {Blank, Absent, TooLong} => t \in FullPath \/ Beside(t) \in FullPath

(* A value, or a line, for every setting of a file. *)
OnKeys(f, values) == values = [k \in KeysOf(f) |-> values[k]]

(* What a reading may start with, and what it ends with. *)
Startable(f, values) ==
    /\ OnKeys(f, values)
    /\ \A k \in KeysOf(f) : k \in KeptKeys => Accepted(k, values[k])
AllAccepted(f, values) ==
    /\ OnKeys(f, values)
    /\ \A k \in KeysOf(f) : Accepted(k, values[k])

(* The first lines of a save of these values, the last one cut. *)
Beginning(f, lines, values) ==
    \/ lines = Emptied(f)
    \/ \E n \in 1 .. Len(WriteOrder(f)) :
         \E last \in Left(values[WriteOrder(f)[n]]) : lines = Written(f, values, n, last)

FileInv(f, lines, from, values) ==
    /\ OnKeys(f, lines)
    /\ \A k \in KeysOf(f) : Fits(f, k, lines[k])
    /\ AllAccepted(f, values)
    /\ from \in {"saved", "cut", "hand"}
    /\ from = "hand" => f = Main
    /\ from = "saved" => lines = values
    /\ from = "cut" => Beginning(f, lines, values)

ToolFields == {"state", "writes", "error", "conf"}

ToolInv(t, from, values) ==
    /\ DOMAIN t = ToolFields /\ DOMAIN t.conf = Files
    /\ t.writes \in Files \cup {Idle}
    /\ t.state \in {"on", "asked"} => \A f \in Files : AllAccepted(f, t.conf[f])
    /\ t.state \notin {"on", "asked"} => t.writes = Idle
    /\ \A f \in Files : t.writes = f => t.conf[f] = values[f] /\ from[f] = "cut"

(* What a line, with one of the settings of this name, is without a code.  *)
ReadsAs(k, t, v) ==
    /\ t # TooLong
    /\ \E i \in 1 .. Len(ReadOrder(Main)) :
         /\ ReadOrder(Main)[i].key = k
         /\ \E before : LET taken == ReadLine(ReadOrder(Main)[i], t, before)
                        IN  taken.value = v /\ taken.code = OK

(* The first n settings were read without a code. *)
QuietSoFar(r, n, level, lines) ==
    /\ ~r.returned
    /\ \A i \in 1 .. n :
          LET k == ReadOrder(Main)[i].key
          IN  /\ (k = "LOGLEVEL" /\ level) \/ ReadsAs(k, lines[k], r.values[k])
              /\ k = "LOGDIR" => r.logs = r.values[k]

ReadingFields == {"values", "logs", "ret", "returned"}

IsReading(f, r) == DOMAIN r = ReadingFields /\ OnKeys(f, r.values)

ReadingInv(d, lines) ==
    d.state \in {"reading", "loading"} =>
        /\ IsReading(Main, d.new)
        /\ d.at \in 1 .. Len(ReadOrder(Main)) + 1
        /\ (d.calm /\ d.new.ret = OK) =>
              /\ QuietSoFar(d.new, d.at - 1, d.level, lines)
              /\ d.state = "loading" => d.conf = d.new /\ d.at = Len(ReadOrder(Main)) + 1

(* There is a file, an origin and a last save for both names. *)
Shaped ==
    /\ file = [f \in Files |-> file[f]]
    /\ origin = [f \in Files |-> origin[f]]
    /\ meant = [f \in Files |-> meant[f]]

ConfigInv ==
    /\ Shaped
    /\ \A f \in Files : FileInv(f, file[f], origin[f], meant[f])
    /\ ToolInv(tool, origin, meant)
    /\ ReadingInv(daemon, file[Main])

-----------------------------------------------------------------------------
(* The table of the settings. *)

OwnKeys ==
    {"ADVANCED_MODE", "MAINMENU_STATUS", "IPTRAFVOL", "NEWRULE_LOG", "NEWRULE_LOGLIMIT",
     "LOGVIEW_BUFSIZE", "BACKGROUND"}
MainKeys ==
    {"MAX_PERMISSION", "SERVICES_BACKEND", "ZONES_BACKEND", "INTERFACES_BACKEND", "RULES_BACKEND",
     "RULESFILE", "BLOCKLISTFILE", "DYN_INT_CHECK", "DYN_INT_INTERVAL", "DROP_INVALID",
     "LOG_BLOCKLIST", "LOG_INVALID", "LOG_NO_SYN", "LOG_PROBES", "LOG_FRAG", "USE_SYN_LIMIT",
     "SYN_LIMIT", "SYN_LIMIT_BURST", "USE_UDP_LIMIT", "UDP_LIMIT", "UDP_LIMIT_BURST", "LOG_POLICY",
     "RULE_NFLOG", "NFGRP", "LOG_POLICY_LIMIT", "LOG_TCP_OPTIONS", "PROTECT_SYNCOOKIE",
     "PROTECT_ECHOBROADCAST", "SYSCTL", "IPTABLES", "IPTABLES_RESTORE", "IP6TABLES",
     "IP6TABLES_RESTORE", "CONNTRACK", "TC", "MODPROBE", "LOAD_MODULES", "MODULES_WAIT_TIME",
     "LOGLEVEL", "SYSTEMLOG", "LOGDIR"}
TableKeys(f) == IF f = Own THEN OwnKeys ELSE MainKeys

Echo == "PROTECT_ECHOBROADCAST"

Kinds == {"yesno", "number", "limit", "mode", "plugin", "file", "colour", "logdir", "path", "level"}
DefaultTexts ==
    {"Yes", "No", "8", "10", "15", "20", "30", "45", "500", "0", "700", "textdir", "blue", Blank,
     "/etc/vuurmuur/rules.conf", "/etc/vuuurmuur/blocked.list", "/sbin/sysctl", "/sbin/iptables",
     "/sbin/iptables-restore", "/sbin/ip6tables", "/sbin/ip6tables-restore", "/sbin/modprobe",
     "/var/log/messages", "/var/log/vuurmuur", "/usr/bin/iptrafvol.pl"}

KindByKey(s) ==
    /\ s.kind = "yesno"  <=> s.key \in YesNoKeys
    /\ s.kind = "number" <=> s.key \in NumberKeys
    /\ s.kind = "limit"  <=> s.key \in LimitKeys
    /\ s.kind = "mode"   <=> s.key \in ModeKeys
    /\ s.kind = "plugin" <=> s.key \in PluginKeys
    /\ s.kind = "file"   <=> s.key \in FileKeys
    /\ s.kind = "colour" <=> s.key \in ColourKeys
    /\ s.kind = "logdir" <=> s.key \in LogDirKeys

Rows(f) ==
    {s \in [key : TableKeys(f), kind : Kinds, default : DefaultTexts,
            missing : {OK, WMissingVar}, bad : {OK, WIllegalVar}] :
        /\ KindByKey(s)
        /\ Accepted(s.key, s.default)
        /\ f = Main => s.bad = WIllegalVar
        /\ s.key = Echo => s.missing = WMissingVar}

LEMMA MainIsNotOwn == Main # Own /\ Main # Idle /\ Own # Idle /\ Files = {Main, Own}
BY DEF Main, Own, Idle, Files

(* The kinds share no names. *)
LEMMA YesNoOnly ==
    \A k \in YesNoKeys : k \notin NumberKeys \cup LimitKeys \cup ModeKeys \cup PluginKeys
                              \cup FileKeys \cup ColourKeys \cup LogDirKeys
BY DEF YesNoKeys, NumberKeys, LimitKeys, ModeKeys, PluginKeys, FileKeys, ColourKeys, LogDirKeys

LEMMA NumberOnly ==
    \A k \in NumberKeys : k \notin LimitKeys \cup ModeKeys \cup PluginKeys \cup FileKeys
                               \cup ColourKeys \cup LogDirKeys
BY DEF NumberKeys, LimitKeys, ModeKeys, PluginKeys, FileKeys, ColourKeys, LogDirKeys

LEMMA FewOnly ==
    /\ \A k \in LimitKeys : k \notin ModeKeys \cup PluginKeys \cup FileKeys \cup ColourKeys \cup LogDirKeys
    /\ \A k \in PluginKeys : k \notin ModeKeys \cup FileKeys \cup ColourKeys \cup LogDirKeys
    /\ \A k \in FileKeys : k \notin ModeKeys \cup ColourKeys \cup LogDirKeys
    /\ \A k \in ModeKeys : k \notin ColourKeys \cup LogDirKeys
    /\ \A k \in ColourKeys : k \notin LogDirKeys
BY DEF LimitKeys, ModeKeys, PluginKeys, FileKeys, ColourKeys, LogDirKeys

LEMMA PlainOnly ==
    \A k \in PlainKeys : k \notin YesNoKeys \cup NumberKeys \cup LimitKeys \cup ModeKeys \cup PluginKeys
                              \cup FileKeys \cup ColourKeys \cup LogDirKeys
BY DEF PlainKeys, YesNoKeys, NumberKeys, LimitKeys, ModeKeys, PluginKeys, FileKeys, ColourKeys,
       LogDirKeys

(* A setting is a row if its name has its kind and its default is one of   *)
(* its kind.                                                               *)
LEMMA IsRow ==
    ASSUME NEW f \in Files, NEW k \in TableKeys(f), NEW kind \in Kinds, NEW d \in DefaultTexts,
           NEW m \in {OK, WMissingVar}, NEW b \in {OK, WIllegalVar},
           f = Main => b = WIllegalVar, k = Echo => m = WMissingVar,
           KindByKey([key |-> k, kind |-> kind]), Accepted(k, d)
    PROVE  Setting(k, kind, d, m, b) \in Rows(f)
<1> DEFINE s == Setting(k, kind, d, m, b)
<1>1. /\ s.key = k /\ s.kind = kind /\ s.default = d /\ s.missing = m /\ s.bad = b
      /\ s \in [key : TableKeys(f), kind : Kinds, default : DefaultTexts,
                missing : {OK, WMissingVar}, bad : {OK, WIllegalVar}]
      BY DEF Setting
<1> HIDE DEF s
<1>2. KindByKey(s)  BY <1>1 DEF KindByKey
<1>3. s \in Rows(f)  BY <1>1, <1>2 DEF Rows
<1> QED  BY <1>3 DEF s

LEMMA KindsOf ==
    /\ \A k \in YesNoKeys  : KindByKey([key |-> k, kind |-> "yesno"])
    /\ \A k \in NumberKeys : KindByKey([key |-> k, kind |-> "number"])
    /\ \A k \in LimitKeys  : KindByKey([key |-> k, kind |-> "limit"])
    /\ \A k \in ModeKeys   : KindByKey([key |-> k, kind |-> "mode"])
    /\ \A k \in PluginKeys : KindByKey([key |-> k, kind |-> "plugin"])
    /\ \A k \in FileKeys   : KindByKey([key |-> k, kind |-> "file"])
    /\ \A k \in ColourKeys : KindByKey([key |-> k, kind |-> "colour"])
    /\ \A k \in LogDirKeys : KindByKey([key |-> k, kind |-> "logdir"])
    /\ \A k \in PlainKeys  : KindByKey([key |-> k, kind |-> "path"])
                             /\ KindByKey([key |-> k, kind |-> "level"])
BY YesNoOnly, NumberOnly, FewOnly, PlainOnly DEF KindByKey

(* Which texts a name takes. *)
LEMMA TakesText ==
    /\ \A k \in YesNoKeys : Accepted(k, "Yes") /\ Accepted(k, "No")
    /\ \A k \in NumberKeys : Accepted(k, "0") /\ \A v \in Positive : Accepted(k, v)
    /\ \A k \in LimitKeys, v \in Positive : Accepted(k, v)
    /\ \A k \in ModeKeys, v \in Octal : Accepted(k, v)
    /\ \A k \in FileKeys, v \in FullPath : Accepted(k, v)
    /\ \A k \in ColourKeys : Accepted(k, "blue") /\ Accepted(k, "black")
    /\ \A k \in PluginKeys \cup LogDirKeys \cup PlainKeys : \A v :
          v # Absent /\ v # TooLong => Accepted(k, v)
<1>1. /\ "Yes" \notin {Absent, TooLong} /\ "No" \notin {Absent, TooLong}
      /\ "0" \notin {Absent, TooLong} /\ "blue" \notin {Absent, TooLong}
      /\ "black" \notin {Absent, TooLong}
      BY DEF Absent, TooLong
<1>2. \A v \in Positive \cup Octal \cup FullPath : v # Absent /\ v # TooLong
      BY TextsAssumption
<1> QED  BY <1>1, <1>2, YesNoOnly, NumberOnly, FewOnly, PlainOnly DEF Accepted

(* The rows of config.conf and of vuurmuur_conf.conf, kind by kind.        *)
MainRow(k, kind, d) ==
    /\ k # Echo => Quiet(k, kind, d) \in Rows(Main)
    /\ Warns(k, kind, d) \in Rows(Main)

LEMMA IsMainRow ==
    ASSUME NEW k \in MainKeys, NEW kind \in Kinds, NEW d \in DefaultTexts,
           KindByKey([key |-> k, kind |-> kind]), Accepted(k, d)
    PROVE  MainRow(k, kind, d)
<1>1. Main \in Files /\ k \in TableKeys(Main)  BY MainIsNotOwn DEF TableKeys
<1>2. OK \in {OK, WMissingVar} /\ WMissingVar \in {OK, WMissingVar} /\ WIllegalVar \in {OK, WIllegalVar}
      OBVIOUS
<1>3. Setting(k, kind, d, WMissingVar, WIllegalVar) \in Rows(Main)  BY <1>1, <1>2, IsRow
<1>4. k # Echo => Setting(k, kind, d, OK, WIllegalVar) \in Rows(Main)  BY <1>1, <1>2, IsRow
<1> QED  BY <1>3, <1>4 DEF MainRow, Quiet, Warns

LEMMA IsOwnRow ==
    ASSUME NEW k \in OwnKeys, NEW kind \in Kinds, NEW d \in DefaultTexts,
           KindByKey([key |-> k, kind |-> kind]), Accepted(k, d)
    PROVE  Setting(k, kind, d, OK, OK) \in Rows(Own)
<1>1. Own \in Files /\ k \in TableKeys(Own) /\ Own # Main  BY MainIsNotOwn DEF TableKeys
<1>2. OK \in {OK, WMissingVar} /\ OK \in {OK, WIllegalVar}  OBVIOUS
<1>3. k # Echo  BY DEF OwnKeys, Echo
<1> QED  BY <1>1, <1>2, <1>3, IsRow

LEMMA MainYesNo == \A k \in YesNoKeys \cap MainKeys, d \in {"Yes", "No"} : MainRow(k, "yesno", d)
BY KindsOf, TakesText, IsMainRow DEF Kinds, DefaultTexts

LEMMA MainNumber ==
    \A k \in NumberKeys \cap MainKeys, d \in {"30", "8", "0"} : MainRow(k, "number", d)
BY KindsOf, TakesText, TextsAssumption, IsMainRow DEF Kinds, DefaultTexts

LEMMA MainLimit ==
    \A k \in LimitKeys \cap MainKeys, d \in {"10", "20", "15", "45"} : MainRow(k, "limit", d)
BY KindsOf, TakesText, TextsAssumption, IsMainRow DEF Kinds, DefaultTexts

LEMMA PlainTexts ==
    /\ \A d \in DefaultTexts \ {Blank} : d # Absent /\ d # TooLong
    /\ Blank # Absent /\ Blank # TooLong
<1>1. \A d \in DefaultTexts \ {Blank} : d # Absent /\ d # TooLong
  <2> DEFINE T == {"Yes", "No", "8", "10", "15", "20", "30", "45", "500", "0", "700", "textdir", "blue",
                   "/etc/vuurmuur/rules.conf", "/etc/vuuurmuur/blocked.list", "/sbin/sysctl",
                   "/sbin/iptables", "/sbin/iptables-restore", "/sbin/ip6tables",
                   "/sbin/ip6tables-restore", "/sbin/modprobe", "/var/log/messages",
                   "/var/log/vuurmuur", "/usr/bin/iptrafvol.pl"}
  <2>1. \A d \in T : d # Absent /\ d # TooLong  BY DEF Absent, TooLong
  <2>2. DefaultTexts \ {Blank} \subseteq T  BY DEF DefaultTexts
  <2> QED  BY <2>1, <2>2
<1>2. Blank # Absent  BY Zenon DEF Blank, Absent
<1>3. Blank # TooLong  BY Zenon DEF Blank, TooLong
<1> QED  BY <1>1, <1>2, <1>3

LEMMA MainPlain ==
    /\ \A k \in PlainKeys \cap MainKeys, d \in DefaultTexts : MainRow(k, "path", d) /\ MainRow(k, "level", d)
    /\ \A k \in PluginKeys \cap MainKeys, d \in DefaultTexts : MainRow(k, "plugin", d)
    /\ \A k \in LogDirKeys \cap MainKeys, d \in DefaultTexts : MainRow(k, "logdir", d)
<1>1. \A k \in PluginKeys \cup LogDirKeys \cup PlainKeys, d \in DefaultTexts : Accepted(k, d)
      BY TakesText, PlainTexts
<1>2. {"path", "level", "plugin", "logdir"} \subseteq Kinds  BY DEF Kinds
<1> QED  BY <1>1, <1>2, KindsOf, IsMainRow

LEMMA MainMode ==
    /\ \A k \in ModeKeys \cap MainKeys : MainRow(k, "mode", "700")
    /\ \A k \in FileKeys \cap MainKeys, d \in {"/etc/vuurmuur/rules.conf", "/etc/vuuurmuur/blocked.list"} :
          MainRow(k, "file", d)
<1>1. \A k \in ModeKeys : Accepted(k, "700")  BY TakesText, TextsAssumption
<1>2. \A k \in FileKeys, d \in {"/etc/vuurmuur/rules.conf", "/etc/vuuurmuur/blocked.list"} : Accepted(k, d)
      BY TakesText, TextsAssumption
<1>3. {"mode", "file"} \subseteq Kinds
      /\ {"700", "/etc/vuurmuur/rules.conf", "/etc/vuuurmuur/blocked.list"} \subseteq DefaultTexts
      BY DEF Kinds, DefaultTexts
<1> QED  BY <1>1, <1>2, <1>3, KindsOf, IsMainRow

LEMMA MainRows ==
    /\ PermissionSettings \in Seq(Rows(Main)) /\ BackendSettings \in Seq(Rows(Main))
    /\ FileSettings \in Seq(Rows(Main)) /\ DynamicSettings \in Seq(Rows(Main))
    /\ DropSettings \in Seq(Rows(Main)) /\ SynSettings \in Seq(Rows(Main))
    /\ UdpSettings \in Seq(Rows(Main)) /\ PolicySettings \in Seq(Rows(Main))
    /\ ProtectSettings \in Seq(Rows(Main)) /\ CommandSettings \in Seq(Rows(Main))
    /\ ToolSettings \in Seq(Rows(Main)) /\ LogSettings \in Seq(Rows(Main))
<1> USE DEF MainRow, Echo
<1>1. PermissionSettings \in Seq(Rows(Main))  BY MainMode DEF PermissionSettings, ModeKeys, MainKeys
<1>2. BackendSettings \in Seq(Rows(Main))
      BY MainPlain DEF BackendSettings, PluginKeys, MainKeys, DefaultTexts
<1>3. FileSettings \in Seq(Rows(Main))  BY MainMode DEF FileSettings, FileKeys, MainKeys
<1>4. DynamicSettings \in Seq(Rows(Main))
      BY MainYesNo, MainNumber DEF DynamicSettings, YesNoKeys, NumberKeys, MainKeys
<1>5. DropSettings \in Seq(Rows(Main))  BY MainYesNo DEF DropSettings, YesNoKeys, MainKeys
<1>6. SynSettings \in Seq(Rows(Main))
      BY MainYesNo, MainLimit DEF SynSettings, YesNoKeys, LimitKeys, MainKeys
<1>7. UdpSettings \in Seq(Rows(Main))
      BY MainYesNo, MainLimit DEF UdpSettings, YesNoKeys, LimitKeys, MainKeys
<1>8. PolicySettings \in Seq(Rows(Main))
      BY MainYesNo, MainNumber DEF PolicySettings, YesNoKeys, NumberKeys, MainKeys
<1>9. ProtectSettings \in Seq(Rows(Main))  BY MainYesNo DEF ProtectSettings, YesNoKeys, MainKeys
<1>10. CommandSettings \in Seq(Rows(Main))
       BY MainPlain DEF CommandSettings, PlainKeys, MainKeys, DefaultTexts
<1>11. ToolSettings \in Seq(Rows(Main))
       BY MainPlain, MainYesNo, MainNumber
       DEF ToolSettings, PlainKeys, YesNoKeys, NumberKeys, MainKeys, DefaultTexts
<1>12. LogSettings \in Seq(Rows(Main))
       BY MainPlain DEF LogSettings, PlainKeys, LogDirKeys, MainKeys, DefaultTexts
<1> QED  BY <1>1, <1>2, <1>3, <1>4, <1>5, <1>6, <1>7, <1>8, <1>9, <1>10, <1>11, <1>12

LEMMA OwnRows == OwnSettings \in Seq(Rows(Own))
<1>1. \A k \in YesNoKeys \cap OwnKeys, d \in {"Yes", "No"} : Setting(k, "yesno", d, OK, OK) \in Rows(Own)
      BY KindsOf, TakesText, IsOwnRow DEF Kinds, DefaultTexts
<1>2. \A k \in NumberKeys \cap OwnKeys, d \in {"20", "500"} : Setting(k, "number", d, OK, OK) \in Rows(Own)
      BY KindsOf, TakesText, TextsAssumption, IsOwnRow DEF Kinds, DefaultTexts
<1>3. \A k \in ColourKeys \cap OwnKeys : Setting(k, "colour", "blue", OK, OK) \in Rows(Own)
      BY KindsOf, TakesText, IsOwnRow DEF Kinds, DefaultTexts
<1>4. \A k \in PlainKeys \cap OwnKeys : Setting(k, "path", "/usr/bin/iptrafvol.pl", OK, OK) \in Rows(Own)
  <2>1. "/usr/bin/iptrafvol.pl" \in DefaultTexts \ {Blank} \/ "/usr/bin/iptrafvol.pl" = Blank
        BY DEF DefaultTexts
  <2>2. \A k \in PlainKeys : Accepted(k, "/usr/bin/iptrafvol.pl")  BY <2>1, PlainTexts, TakesText
  <2> QED  BY <2>2, KindsOf, IsOwnRow DEF Kinds, DefaultTexts
<1> QED  BY <1>1, <1>2, <1>3, <1>4 DEF OwnSettings, YesNoKeys, NumberKeys, ColourKeys, PlainKeys, OwnKeys

-----------------------------------------------------------------------------
(* The orders in which settings are read and written. *)

LEMMA Joined ==
    ASSUME NEW S, NEW a \in Seq(S), NEW b \in Seq(S)
    PROVE  /\ a \o b \in Seq(S) /\ Len(a \o b) = Len(a) + Len(b)
           /\ \A i \in 1 .. Len(a) : (a \o b)[i] = a[i]
           /\ \A i \in Len(a) + 1 .. Len(a) + Len(b) : (a \o b)[i] = b[i - Len(a)]
OBVIOUS

(* All settings but the log directory, which is the last one. *)
FrontRows == {s \in Rows(Main) : s.key # "LOGDIR"}

LEMMA FrontSettings ==
    /\ PermissionSettings \in Seq(FrontRows) /\ BackendSettings \in Seq(FrontRows)
    /\ FileSettings \in Seq(FrontRows) /\ DynamicSettings \in Seq(FrontRows)
    /\ DropSettings \in Seq(FrontRows) /\ SynSettings \in Seq(FrontRows)
    /\ UdpSettings \in Seq(FrontRows) /\ PolicySettings \in Seq(FrontRows)
    /\ ProtectSettings \in Seq(FrontRows) /\ CommandSettings \in Seq(FrontRows)
    /\ ToolSettings \in Seq(FrontRows)
<1> DEFINE R == Rows(Main)
<1>1. ASSUME NEW g \in Seq(R), \A i \in DOMAIN g : g[i].key # "LOGDIR"  PROVE g \in Seq(FrontRows)
  <2>1. FrontRows = {s \in R : s.key # "LOGDIR"}  BY DEF FrontRows
  <2> HIDE DEF R
  <2>2. \A i \in 1 .. Len(g) : g[i] \in FrontRows  BY <1>1, <2>1
  <2> QED  BY <2>2
<1> HIDE DEF R
<1>2. \A k, kind, d : Quiet(k, kind, d).key = k /\ Warns(k, kind, d).key = k
      BY DEF Quiet, Warns, Setting
<1>3. /\ \A i \in DOMAIN PermissionSettings : PermissionSettings[i].key # "LOGDIR"
      /\ \A i \in DOMAIN BackendSettings : BackendSettings[i].key # "LOGDIR"
      /\ \A i \in DOMAIN FileSettings : FileSettings[i].key # "LOGDIR"
      /\ \A i \in DOMAIN DynamicSettings : DynamicSettings[i].key # "LOGDIR"
      BY <1>2 DEF PermissionSettings, BackendSettings, FileSettings, DynamicSettings
<1>4. /\ \A i \in DOMAIN DropSettings : DropSettings[i].key # "LOGDIR"
      /\ \A i \in DOMAIN SynSettings : SynSettings[i].key # "LOGDIR"
      BY <1>2 DEF DropSettings, SynSettings
<1>5. /\ \A i \in DOMAIN UdpSettings : UdpSettings[i].key # "LOGDIR"
      /\ \A i \in DOMAIN PolicySettings : PolicySettings[i].key # "LOGDIR"
      /\ \A i \in DOMAIN ProtectSettings : ProtectSettings[i].key # "LOGDIR"
      BY <1>2 DEF UdpSettings, PolicySettings, ProtectSettings
<1>6. /\ \A i \in DOMAIN CommandSettings : CommandSettings[i].key # "LOGDIR"
      /\ \A i \in DOMAIN ToolSettings : ToolSettings[i].key # "LOGDIR"
      BY <1>2 DEF CommandSettings, ToolSettings
<1> QED  BY <1>1, <1>3, <1>4, <1>5, <1>6, MainRows DEF R

LEMMA SettingsRows ==
    /\ \A f \in Files : Settings(f) \in Seq(Rows(f))
    /\ Len(Settings(Main)) > 0
    /\ Settings(Main)[Len(Settings(Main))].key = "LOGDIR"
    /\ \A i \in 1 .. Len(Settings(Main)) - 1 : Settings(Main)[i].key # "LOGDIR"
<1> DEFINE S  == FrontRows
           a1 == PermissionSettings \o BackendSettings
           a2 == a1 \o FileSettings
           a3 == a2 \o DynamicSettings
           a4 == a3 \o DropSettings
           a5 == a4 \o SynSettings
           a6 == a5 \o UdpSettings
           a7 == a6 \o PolicySettings
           a8 == a7 \o ProtectSettings
           a9 == a8 \o CommandSettings
           front == a9 \o ToolSettings
           all == front \o LogSettings
<1>1. Settings(Main) = all /\ Settings(Own) = OwnSettings  BY MainIsNotOwn DEF Settings
<1>2. front \in Seq(S)
  <2>1. a1 \in Seq(S)  BY FrontSettings, Joined
  <2> HIDE DEF a1
  <2>2. a2 \in Seq(S)  BY <2>1, FrontSettings, Joined
  <2> HIDE DEF a2
  <2>3. a3 \in Seq(S)  BY <2>2, FrontSettings, Joined
  <2> HIDE DEF a3
  <2>4. a4 \in Seq(S)  BY <2>3, FrontSettings, Joined
  <2> HIDE DEF a4
  <2>5. a5 \in Seq(S)  BY <2>4, FrontSettings, Joined
  <2> HIDE DEF a5
  <2>6. a6 \in Seq(S)  BY <2>5, FrontSettings, Joined
  <2> HIDE DEF a6
  <2>7. a7 \in Seq(S)  BY <2>6, FrontSettings, Joined
  <2> HIDE DEF a7
  <2>8. a8 \in Seq(S)  BY <2>7, FrontSettings, Joined
  <2> HIDE DEF a8
  <2>9. a9 \in Seq(S)  BY <2>8, FrontSettings, Joined
  <2> HIDE DEF a9
  <2> QED  BY <2>9, FrontSettings, Joined
<1> HIDE DEF front
<1>3. front \in Seq(Rows(Main)) /\ \A i \in 1 .. Len(front) : front[i].key # "LOGDIR"
  <2>1. \A s \in S : s \in Rows(Main) /\ s.key # "LOGDIR"  BY DEF FrontRows
  <2> HIDE DEF S
  <2> QED  BY <1>2, <2>1
<1>4. /\ LogSettings \in Seq(Rows(Main)) /\ Len(LogSettings) = 3
      /\ LogSettings[1].key # "LOGDIR" /\ LogSettings[2].key # "LOGDIR" /\ LogSettings[3].key = "LOGDIR"
  <2>1. LogSettings \in Seq(Rows(Main))  BY MainRows
  <2>2. \A k, kind, d : Warns(k, kind, d).key = k  BY DEF Warns, Setting
  <2> QED  BY <2>1, <2>2 DEF LogSettings
<1> DEFINE R == Rows(Main)  log == LogSettings
<1>5. front \in Seq(R) /\ log \in Seq(R) /\ Len(log) = 3 /\ log[1].key # "LOGDIR"
      /\ log[2].key # "LOGDIR" /\ log[3].key = "LOGDIR" /\ all = front \o log
      BY <1>3, <1>4
<1> HIDE DEF R, log, all
<1>6. /\ all \in Seq(R) /\ Len(all) = Len(front) + 3 /\ Len(front) \in Nat
      /\ \A i \in 1 .. Len(front) : all[i] = front[i]
      /\ \A i \in Len(front) + 1 .. Len(front) + 3 : all[i] = log[i - Len(front)]
  <2>1. /\ front \o log \in Seq(R) /\ Len(front \o log) = Len(front) + Len(log)
        /\ \A i \in 1 .. Len(front) : (front \o log)[i] = front[i]
        /\ \A i \in Len(front) + 1 .. Len(front) + Len(log) :
              (front \o log)[i] = log[i - Len(front)]
        BY <1>5, Joined
  <2>2. Len(front) \in Nat  BY <1>5
  <2> QED  BY <1>5, <2>1, <2>2
<1>7. all[Len(all)].key = "LOGDIR"  BY <1>5, <1>6
<1>8. ASSUME NEW i \in 1 .. Len(all) - 1  PROVE all[i].key # "LOGDIR"
  <2>1. CASE i <= Len(front)  BY <1>3, <1>6, <2>1
  <2>2. CASE i = Len(front) + 1  BY <1>5, <1>6, <2>2
  <2>3. CASE i = Len(front) + 2  BY <1>5, <1>6, <2>3
  <2> QED  BY <1>6, <2>1, <2>2, <2>3
<1> QED  BY <1>1, <1>6, <1>7, <1>8, OwnRows, MainIsNotOwn DEF R

(* A setting that is read is a row of the table, and is followed. *)
LEMMA OrderRows ==
    ASSUME NEW f \in Files
    PROVE  /\ ReadOrder(f) \in Seq(Rows(f)) /\ Len(ReadOrder(f)) \in Nat
           /\ \A i \in 1 .. Len(ReadOrder(f)) : ReadOrder(f)[i] \in Rows(f) /\ ReadOrder(f)[i].key \in Keys
           /\ KeysOf(f) = {ReadOrder(f)[i].key : i \in 1 .. Len(ReadOrder(f))}
<1> DEFINE S == Settings(f)
           places == {i \in DOMAIN S : S[i].key \in Keys}
           R == Rows(f)
           order == ReadOrder(f)
<1>1. S \in Seq(R)  BY SettingsRows
<1>2. order = Kept(S, places)  BY DEF ReadOrder, ReadOrders
<1> HIDE DEF R, S, order
<1>3. places \in SUBSET (1 .. Len(S))  BY <1>1
<1>4. order \in Seq(R)  BY <1>1, <1>2, KeptType
<1>5. \A i \in DOMAIN order : \E j \in places : order[i] = S[j]
  <2> HIDE DEF places
  <2> QED  BY <1>1, <1>2, <1>3, KeptRange
<1>6. \A i \in 1 .. Len(order) : order[i] \in R /\ order[i].key \in Keys  BY <1>4, <1>5
<1>7. DOMAIN order = 1 .. Len(order) /\ Len(order) \in Nat  BY <1>4
<1>8. KeysOf(f) = {order[i].key : i \in 1 .. Len(order)}  BY <1>7 DEF KeysOf, order
<1> QED  BY <1>4, <1>6, <1>7, <1>8 DEF R, order

LEMMA RowFacts ==
    ASSUME NEW f \in Files, NEW s \in Rows(f)
    PROVE  /\ s.key \in TableKeys(f) /\ KindByKey(s) /\ Accepted(s.key, s.default)
           /\ s.missing \in {OK, WMissingVar} /\ s.bad \in {OK, WIllegalVar}
           /\ f = Main => s.bad = WIllegalVar
           /\ s.key = Echo => s.missing = WMissingVar
BY DEF Rows

(* Nothing is read after the log directory. *)
LEMMA LogDirLast ==
    ASSUME NEW f \in Files, NEW i \in 1 .. Len(ReadOrder(f)), ReadOrder(f)[i].kind = "logdir"
    PROVE  f = Main /\ ReadOrder(f)[i].key = "LOGDIR" /\ i = Len(ReadOrder(f))
<1>1. ReadOrder(f)[i] \in Rows(f) /\ ReadOrder(f)[i].key \in Keys  BY OrderRows
<1>2. ReadOrder(f)[i].key = "LOGDIR" /\ ReadOrder(f)[i].key \in TableKeys(f)
      BY <1>1, RowFacts DEF KindByKey, LogDirKeys
<1>3. f = Main
  <2>1. "LOGDIR" \notin OwnKeys  BY DEF OwnKeys
  <2> QED  BY <1>2, <2>1, MainIsNotOwn DEF TableKeys
<1> DEFINE S == Settings(Main)
           places == {j \in DOMAIN S : S[j].key \in Keys}
           R == Rows(Main)
           order == ReadOrder(Main)
<1>4. S \in Seq(R) /\ Len(S) > 0 /\ S[Len(S)].key = "LOGDIR"
      /\ \A j \in 1 .. Len(S) - 1 : S[j].key # "LOGDIR"
      BY SettingsRows, MainIsNotOwn
<1>5. order = Kept(S, places)  BY MainIsNotOwn DEF ReadOrder, ReadOrders
<1>6. i \in 1 .. Len(order) /\ order[i].key = "LOGDIR" /\ Len(order) \in Nat
      BY <1>2, <1>3, OrderRows
<1> HIDE DEF S, R, order
<1>7. places \in SUBSET (1 .. Len(S)) /\ Len(S) \in places /\ Len(S) \in Nat
  <2>1. "LOGDIR" \in Keys  BY <1>1, <1>2
  <2> QED  BY <1>4, <2>1
<1>8. \A n \in 1 .. Len(order) - 1 : \E j \in places : j < Len(S) /\ order[n] = S[j]
  <2> HIDE DEF places
  <2> QED  BY <1>4, <1>5, <1>7, KeptEnd
<1>9. \A n \in 1 .. Len(order) - 1 : order[n].key # "LOGDIR"
      BY <1>4, <1>7, <1>8
<1>10. i = Len(order)  BY <1>6, <1>9
<1> QED  BY <1>2, <1>3, <1>10 DEF order

Covers(s, K) == \A k \in K : \E i \in 1 .. Len(s) : s[i] = k

LEMMA CoversJoined ==
    ASSUME NEW S, NEW a \in Seq(S), NEW b \in Seq(S), NEW K, NEW L, Covers(a, K), Covers(b, L)
    PROVE  a \o b \in Seq(S) /\ Covers(a \o b, K \cup L)
<1>1. /\ a \o b \in Seq(S) /\ Len(a \o b) = Len(a) + Len(b)
      /\ \A i \in 1 .. Len(a) : (a \o b)[i] = a[i]
      /\ \A i \in Len(a) + 1 .. Len(a) + Len(b) : (a \o b)[i] = b[i - Len(a)]
      BY Joined
<1>2. Len(a) \in Nat /\ Len(b) \in Nat  OBVIOUS
<1>3. ASSUME NEW k \in K  PROVE \E i \in 1 .. Len(a \o b) : (a \o b)[i] = k
  <2>1. PICK i \in 1 .. Len(a) : a[i] = k  BY DEF Covers
  <2> QED  BY <1>1, <1>2, <2>1
<1>4. ASSUME NEW k \in L  PROVE \E i \in 1 .. Len(a \o b) : (a \o b)[i] = k
  <2>1. PICK i \in 1 .. Len(b) : b[i] = k  BY DEF Covers
  <2>2. i + Len(a) \in Len(a) + 1 .. Len(a) + Len(b) /\ i + Len(a) - Len(a) = i  BY <1>2
  <2>3. i + Len(a) \in 1 .. Len(a \o b) /\ (a \o b)[i + Len(a)] = k  BY <1>1, <1>2, <2>1, <2>2
  <2> QED  BY <2>3
<1> QED  BY <1>1, <1>3, <1>4 DEF Covers

(* Every setting of the table is written, and the last one is the last.    *)
LEMMA LinesFacts ==
    /\ \A f \in Files : Lines(f) \in Seq(TableKeys(f)) /\ Covers(Lines(f), TableKeys(f))
    /\ Len(Lines(Main)) > 0 /\ Lines(Main)[Len(Lines(Main))] = Echo
    /\ \A i \in 1 .. Len(Lines(Main)) - 1 : Lines(Main)[i] # Echo
<1> DEFINE S == MainKeys \ {Echo}
           K1 == {"SERVICES_BACKEND", "ZONES_BACKEND", "INTERFACES_BACKEND", "RULES_BACKEND",
                  "RULESFILE", "BLOCKLISTFILE"}
           K2 == {"SYSCTL", "IPTABLES", "IPTABLES_RESTORE", "IP6TABLES", "IP6TABLES_RESTORE",
                  "CONNTRACK", "TC"}
           K3 == {"MODPROBE", "MAX_PERMISSION", "LOAD_MODULES", "MODULES_WAIT_TIME", "RULE_NFLOG",
                  "NFGRP", "LOGDIR", "SYSTEMLOG", "LOGLEVEL", "DYN_INT_CHECK", "DYN_INT_INTERVAL"}
           K4 == {"LOG_POLICY", "LOG_POLICY_LIMIT", "LOG_BLOCKLIST", "LOG_INVALID", "LOG_NO_SYN",
                  "LOG_PROBES", "LOG_FRAG", "LOG_TCP_OPTIONS", "DROP_INVALID"}
           K5 == {"USE_SYN_LIMIT", "SYN_LIMIT", "SYN_LIMIT_BURST", "USE_UDP_LIMIT", "UDP_LIMIT",
                  "UDP_LIMIT_BURST"}
<1>1. BackendLines \in Seq(S) /\ Covers(BackendLines, K1)
  <2>1. BackendLines \in Seq(S)  BY DEF BackendLines, MainKeys, Echo
  <2> QED  BY <2>1 DEF BackendLines, Covers
<1>2. CommandLines \in Seq(S) /\ Covers(CommandLines, K2)
  <2>1. CommandLines \in Seq(S)  BY DEF CommandLines, MainKeys, Echo
  <2> QED  BY <2>1 DEF CommandLines, Covers
<1>3. SystemLines \in Seq(S) /\ Covers(SystemLines, K3)
  <2>1. SystemLines \in Seq(S)  BY DEF SystemLines, MainKeys, Echo
  <2> QED  BY <2>1 DEF SystemLines, Covers
<1>4. LogLines \in Seq(S) /\ Covers(LogLines, K4)
  <2>1. LogLines \in Seq(S)  BY DEF LogLines, MainKeys, Echo
  <2> QED  BY <2>1 DEF LogLines, Covers
<1>5. LimitLines \in Seq(S) /\ Covers(LimitLines, K5)
  <2>1. LimitLines \in Seq(S)  BY DEF LimitLines, MainKeys, Echo
  <2> QED  BY <2>1 DEF LimitLines, Covers
<1> DEFINE a1 == BackendLines \o CommandLines
           a2 == a1 \o SystemLines
           a3 == a2 \o LogLines
           front == a3 \o LimitLines
           all == front \o ProtectLines
           K == ((((K1 \cup K2) \cup K3) \cup K4) \cup K5)
<1>6. Lines(Main) = all /\ Lines(Own) = OwnLines  BY MainIsNotOwn DEF Lines
<1>7. MainKeys \subseteq K \cup {"PROTECT_SYNCOOKIE", Echo}  BY DEF MainKeys, Echo
<1> HIDE DEF S, K1, K2, K3, K4, K5
<1>8. front \in Seq(S) /\ Covers(front, K)
  <2>1. a1 \in Seq(S) /\ Covers(a1, K1 \cup K2)  BY <1>1, <1>2, CoversJoined
  <2> HIDE DEF a1
  <2>2. a2 \in Seq(S) /\ Covers(a2, (K1 \cup K2) \cup K3)  BY <1>3, <2>1, CoversJoined
  <2> HIDE DEF a2
  <2>3. a3 \in Seq(S) /\ Covers(a3, ((K1 \cup K2) \cup K3) \cup K4)  BY <1>4, <2>2, CoversJoined
  <2> HIDE DEF a3
  <2> QED  BY <1>5, <2>3, CoversJoined
<1> HIDE DEF front, K
<1> DEFINE end == ProtectLines
<1>9. end \in Seq(MainKeys) /\ Len(end) = 2 /\ end[1] = "PROTECT_SYNCOOKIE" /\ end[2] = Echo
      /\ end[1] # Echo /\ Covers(end, {"PROTECT_SYNCOOKIE", Echo})
  <2>1. ProtectLines \in Seq(MainKeys)  BY DEF ProtectLines, MainKeys, Echo
  <2> QED  BY <2>1 DEF ProtectLines, Echo, Covers
<1>10. front \in Seq(MainKeys) /\ (\A i \in 1 .. Len(front) : front[i] # Echo) /\ Len(front) \in Nat
  <2>1. \A k \in S : k \in MainKeys /\ k # Echo  BY DEF S
  <2> QED  BY <1>8, <2>1
<1> HIDE DEF end
<1>11. all = front \o end  BY DEF end
<1> HIDE DEF all
<1>12. /\ all \in Seq(MainKeys) /\ Len(all) = Len(front) + 2
       /\ \A i \in 1 .. Len(front) : all[i] = front[i]
       /\ \A i \in Len(front) + 1 .. Len(front) + 2 : all[i] = end[i - Len(front)]
       /\ Covers(all, K \cup {"PROTECT_SYNCOOKIE", Echo})
  <2>1. /\ front \o end \in Seq(MainKeys) /\ Len(front \o end) = Len(front) + Len(end)
        /\ \A i \in 1 .. Len(front) : (front \o end)[i] = front[i]
        /\ \A i \in Len(front) + 1 .. Len(front) + Len(end) : (front \o end)[i] = end[i - Len(front)]
        BY <1>9, <1>10, Joined
  <2>2. Covers(front \o end, K \cup {"PROTECT_SYNCOOKIE", Echo})
        BY <1>8, <1>9, <1>10, CoversJoined
  <2> QED  BY <1>9, <1>11, <2>1, <2>2
<1>13. all[Len(all)] = Echo  BY <1>9, <1>10, <1>12
<1>14. ASSUME NEW i \in 1 .. Len(all) - 1  PROVE all[i] # Echo
  <2>1. CASE i <= Len(front)  BY <1>10, <1>12, <2>1
  <2>2. CASE i = Len(front) + 1  BY <1>9, <1>10, <1>12, <2>2
  <2> QED  BY <1>10, <1>12, <2>1, <2>2
<1>15. Covers(all, MainKeys)  BY <1>7, <1>12 DEF Covers
<1>16. OwnLines \in Seq(OwnKeys) /\ Covers(OwnLines, OwnKeys)
  <2>1. OwnLines \in Seq(OwnKeys)  BY DEF OwnLines, OwnKeys
  <2> QED  BY <2>1 DEF OwnLines, OwnKeys, Covers
<1>17. Main \in Files /\ TableKeys(Main) = MainKeys /\ TableKeys(Own) = OwnKeys /\ Files = {Main, Own}
       BY MainIsNotOwn DEF TableKeys
<1> QED  BY <1>6, <1>10, <1>12, <1>13, <1>14, <1>15, <1>16, <1>17

(* Everything that is read is written. *)
LEMMA WriteCovers ==
    ASSUME NEW f \in Files
    PROVE  Covers(WriteOrder(f), KeysOf(f)) /\ Len(WriteOrder(f)) \in Nat
<1> DEFINE s == Lines(f)
           places == {i \in DOMAIN s : s[i] \in Keys}
           order == WriteOrder(f)
           A == TableKeys(f)
<1>1. s \in Seq(A) /\ Covers(s, A)  BY LinesFacts
<1>2. order = Kept(s, places)  BY DEF WriteOrder, WriteOrders
<1>3. \A k \in KeysOf(f) : k \in A /\ k \in Keys  BY OrderRows, RowFacts
<1> HIDE DEF A, s, order
<1>4. places \in SUBSET (1 .. Len(s)) /\ DOMAIN s = 1 .. Len(s)  BY <1>1
<1>5. order \in Seq(A)  BY <1>1, <1>2, KeptType
<1>6. \A j \in places : \E i \in DOMAIN order : order[i] = s[j]
  <2> HIDE DEF places
  <2> QED  BY <1>1, <1>2, <1>4, KeptRange
<1>7. ASSUME NEW k \in KeysOf(f)  PROVE \E i \in 1 .. Len(order) : order[i] = k
  <2>1. PICK j \in 1 .. Len(s) : s[j] = k  BY <1>1, <1>3 DEF Covers
  <2>2. j \in places  BY <1>3, <1>4, <2>1
  <2> QED  BY <1>5, <1>6, <2>1, <2>2
<1> QED  BY <1>5, <1>7 DEF Covers, order

LEMMA EchoIsLast ==
    ASSUME Echo \in Keys
    PROVE  /\ Len(WriteOrder(Main)) > 0 /\ WriteOrder(Main)[Len(WriteOrder(Main))] = Echo
           /\ \A i \in 1 .. Len(WriteOrder(Main)) :
                 WriteOrder(Main)[i] = Echo => i = Len(WriteOrder(Main))
<1> DEFINE s == Lines(Main)
           places == {i \in DOMAIN s : s[i] \in Keys}
           order == WriteOrder(Main)
           A == MainKeys
<1>1. s \in Seq(A) /\ Len(s) > 0 /\ s[Len(s)] = Echo /\ \A i \in 1 .. Len(s) - 1 : s[i] # Echo
      BY LinesFacts, MainIsNotOwn DEF TableKeys
<1>2. order = Kept(s, places)  BY MainIsNotOwn DEF WriteOrder, WriteOrders
<1> HIDE DEF A, s, order
<1>3. places \in SUBSET (1 .. Len(s)) /\ Len(s) \in places /\ Len(s) \in Nat  BY <1>1
<1>4. order \in Seq(A)  BY <1>1, <1>2, KeptType
<1>5. /\ Len(order) > 0 /\ order[Len(order)] = s[Len(s)]
      /\ \A n \in 1 .. Len(order) - 1 : \E j \in places : j < Len(s) /\ order[n] = s[j]
  <2> HIDE DEF places
  <2> QED  BY <1>1, <1>2, <1>3, KeptEnd
<1>6. \A n \in 1 .. Len(order) - 1 : order[n] # Echo  BY <1>1, <1>3, <1>5
<1>7. Len(order) \in Nat  BY <1>4
<1>8. \A n \in 1 .. Len(order) : order[n] = Echo => n = Len(order)  BY <1>6, <1>7
<1> QED  BY <1>1, <1>5, <1>8 DEF order

-----------------------------------------------------------------------------
(* Reading one line. *)

LEMMA CodesDiffer ==
    /\ OK # WMissingVar /\ OK # WIllegalVar /\ OK # EMissingVar /\ OK # EUnknown /\ OK # EIllegalVar
    /\ EMissingVar # EUnknown
BY DEF OK, WMissingVar, WIllegalVar, EMissingVar, EUnknown, EIllegalVar

(* What a text becomes, kind by kind. *)
LEMMA ReadTextKinds ==
    ASSUME NEW s, NEW t, NEW before
    PROVE  /\ s.kind = "yesno"  => ReadText(s, t, before) = ReadYesNo(s, t)
           /\ s.kind = "number" => ReadText(s, t, before) = ReadNumber(s, t)
           /\ s.kind = "limit"  => ReadText(s, t, before) = ReadLimit(s, t)
           /\ s.kind = "mode"   => ReadText(s, t, before) = ReadMode(s, t)
           /\ s.kind = "plugin" => ReadText(s, t, before) = ReadPlugin(s, t)
           /\ s.kind = "file"   => ReadText(s, t, before) = ReadFile(s, t)
           /\ s.kind = "colour" =>
                 ReadText(s, t, before) = Taken(IF t \in {"blue", "black"} THEN t ELSE before, OK)
           /\ s.kind \notin {"yesno", "number", "limit", "mode", "plugin", "file", "colour"} =>
                 ReadText(s, t, before) = Taken(t, OK)
BY DEF ReadText

LEMMA FileRead ==
    ASSUME NEW s, NEW t, t # Absent, t # TooLong,
           t # Blank => t \in FullPath \/ Beside(t) \in FullPath
    PROVE  /\ ReadFile(s, t).value \in FullPath /\ ReadFile(s, t).code = OK
           /\ t \in FullPath => ReadFile(s, t).value = t
<1>1. {"/etc/vuurmuur/rules.conf", "/etc/vuurmuur/blocked.list"} \subseteq FullPath
      /\ Blank \notin FullPath
      BY TextsAssumption
<1>2. CASE t = Blank
  <2>1. ReadFile(s, t) = Taken(IF s.key = "RULESFILE" THEN "/etc/vuurmuur/rules.conf"
                               ELSE "/etc/vuurmuur/blocked.list", OK)
        BY <1>1, <1>2 DEF ReadFile
  <2> QED  BY <1>1, <1>2, <2>1 DEF Taken
<1>3. CASE t # Blank /\ t \in FullPath
  <2>1. ReadFile(s, t) = Taken(t, OK)  BY <1>3 DEF ReadFile
  <2> QED  BY <1>3, <2>1 DEF Taken
<1>4. CASE t # Blank /\ t \notin FullPath
  <2>1. ReadFile(s, t) = Taken(Beside(t), OK)  BY <1>4 DEF ReadFile
  <2> QED  BY <1>4, <2>1 DEF Taken
<1> QED  BY <1>2, <1>3, <1>4

(* Whatever is in a line, the value is one that is left as it is when it   *)
(* is read again.                                                          *)
LEMMA ReadLineAccepted ==
    ASSUME NEW f \in Files, NEW s \in Rows(f), NEW t, NEW before, t # TooLong, Fits(f, s.key, t),
           s.key \in KeptKeys => Accepted(s.key, before)
    PROVE  Accepted(s.key, ReadLine(s, t, before).value)
<1> DEFINE k == s.key
           q == ReadLine(s, t, before)
<1>1. KindByKey(s) /\ Accepted(k, s.default) /\ k \in TableKeys(f)  BY RowFacts
<1>2. CASE t = Absent
  <2>1. q.value = IF k \in KeptKeys THEN before ELSE s.default  BY <1>2 DEF ReadLine, Taken, KeptKeys
  <2> QED  BY <1>1, <2>1
<1>3. CASE t # Absent
  <2>1. q = ReadText(s, t, before)  BY <1>3 DEF ReadLine
  <2>2. CASE s.kind = "yesno"
    <3>1. q = ReadYesNo(s, t) /\ k \in YesNoKeys  BY <1>1, <2>1, <2>2, ReadTextKinds DEF KindByKey
    <3>2. q.value \in {"Yes", "No", s.default}  BY <3>1 DEF ReadYesNo, Taken
    <3> QED  BY <1>1, <3>1, <3>2, TakesText
  <2>3. CASE s.kind = "number"
    <3>1. q = ReadNumber(s, t) /\ k \in NumberKeys  BY <1>1, <2>1, <2>3, ReadTextKinds DEF KindByKey
    <3>2. q.value \in Positive \/ q.value = "0" \/ q.value = s.default  BY <3>1 DEF ReadNumber, Taken
    <3> QED  BY <1>1, <3>1, <3>2, TakesText
  <2>4. CASE s.kind = "limit"
    <3>1. q = ReadLimit(s, t) /\ k \in LimitKeys  BY <1>1, <2>1, <2>4, ReadTextKinds DEF KindByKey
    <3>2. q.value \in Positive \/ q.value = s.default  BY <3>1 DEF ReadLimit, Taken
    <3> QED  BY <1>1, <3>1, <3>2, TakesText
  <2>5. CASE s.kind = "mode"
    <3>1. q = ReadMode(s, t) /\ k \in ModeKeys  BY <1>1, <2>1, <2>5, ReadTextKinds DEF KindByKey
    <3>2. q.value \in Octal \/ q.value = s.default  BY <3>1 DEF ReadMode, Taken
    <3> QED  BY <1>1, <3>1, <3>2, TakesText
  <2>6. CASE s.kind = "plugin"
    <3>1. q = ReadPlugin(s, t) /\ k \in PluginKeys  BY <1>1, <2>1, <2>6, ReadTextKinds DEF KindByKey
    <3>2. q.value = t  BY <3>1 DEF ReadPlugin, Taken
    <3> QED  BY <1>3, <3>1, <3>2, TakesText
  <2>7. CASE s.kind = "file"
    <3>1. q = ReadFile(s, t) /\ k \in FileKeys  BY <1>1, <2>1, <2>7, ReadTextKinds DEF KindByKey
    <3>2. q.value \in FullPath  BY <1>3, <3>1, FileRead DEF Fits
    <3> QED  BY <3>1, <3>2, TakesText
  <2>8. CASE s.kind = "colour"
    <3>1. q = Taken(IF t \in {"blue", "black"} THEN t ELSE before, OK) /\ k \in ColourKeys
          BY <1>1, <2>1, <2>8, ReadTextKinds DEF KindByKey
    <3>2. q.value \in {"blue", "black"} \/ q.value = before  BY <3>1 DEF Taken
    <3>3. k \in KeptKeys  BY <3>1 DEF ColourKeys, KeptKeys
    <3> QED  BY <3>1, <3>2, <3>3, TakesText
  <2>9. CASE s.kind \notin {"yesno", "number", "limit", "mode", "plugin", "file", "colour"}
    <3>1. q = Taken(t, OK)  BY <2>1, <2>9, ReadTextKinds
    <3>2. q.value = t  BY <3>1 DEF Taken
    <3>3. k \notin YesNoKeys \cup NumberKeys \cup LimitKeys \cup ModeKeys \cup FileKeys \cup ColourKeys
          BY <1>1, <2>9 DEF KindByKey
    <3> QED  BY <1>3, <3>2, <3>3 DEF Accepted
  <2> QED  BY <2>2, <2>3, <2>4, <2>5, <2>6, <2>7, <2>8, <2>9
<1> QED  BY <1>2, <1>3

(* And such a value is read as it is, without a code; a plugin without a   *)
(* name has one.                                                           *)
LEMMA AcceptedRead ==
    ASSUME NEW f \in Files, NEW s \in Rows(f), NEW t, NEW before, Accepted(s.key, t)
    PROVE  /\ t # Absent /\ t # TooLong
           /\ ReadLine(s, t, before).value = t
           /\ ReadLine(s, t, before).code # OK => s.kind = "plugin" /\ t = Blank
<1> DEFINE k == s.key
           q == ReadLine(s, t, before)
<1>1. KindByKey(s) /\ t # Absent /\ t # TooLong  BY RowFacts DEF Accepted
<1>2. q = ReadText(s, t, before)  BY <1>1 DEF ReadLine
<1>3. CASE s.kind = "yesno"
  <2>1. q = ReadYesNo(s, t) /\ t \in {"Yes", "No"}
        BY <1>1, <1>2, <1>3, ReadTextKinds DEF KindByKey, Accepted
  <2> QED  BY <1>1, <2>1 DEF ReadYesNo, Taken
<1>4. CASE s.kind = "number"
  <2>1. q = ReadNumber(s, t) /\ (t = "0" \/ t \in Positive)
        BY <1>1, <1>2, <1>4, ReadTextKinds DEF KindByKey, Accepted
  <2>2. t \notin Negative /\ "0" \notin Positive  BY <2>1, TextsAssumption
  <2> QED  BY <1>1, <2>1, <2>2 DEF ReadNumber, Taken
<1>5. CASE s.kind = "limit"
  <2>1. q = ReadLimit(s, t) /\ t \in Positive
        BY <1>1, <1>2, <1>5, ReadTextKinds DEF KindByKey, Accepted
  <2> QED  BY <1>1, <2>1 DEF ReadLimit, Taken
<1>6. CASE s.kind = "mode"
  <2>1. q = ReadMode(s, t) /\ t \in Octal
        BY <1>1, <1>2, <1>6, ReadTextKinds DEF KindByKey, Accepted
  <2> QED  BY <1>1, <2>1 DEF ReadMode, Taken
<1>7. CASE s.kind = "plugin"
  <2>1. q = ReadPlugin(s, t)  BY <1>2, <1>7, ReadTextKinds
  <2> QED  BY <1>1, <1>7, <2>1 DEF ReadPlugin, Taken
<1>8. CASE s.kind = "file"
  <2>1. q = ReadFile(s, t) /\ t \in FullPath
        BY <1>1, <1>2, <1>8, ReadTextKinds DEF KindByKey, Accepted
  <2> QED  BY <1>1, <2>1, FileRead
<1>9. CASE s.kind = "colour"
  <2>1. q = Taken(IF t \in {"blue", "black"} THEN t ELSE before, OK) /\ t \in {"blue", "black"}
        BY <1>1, <1>2, <1>9, ReadTextKinds DEF KindByKey, Accepted
  <2> QED  BY <1>1, <2>1 DEF Taken
<1>10. CASE s.kind \notin {"yesno", "number", "limit", "mode", "plugin", "file", "colour"}
  <2>1. q = Taken(t, OK)  BY <1>2, <1>10, ReadTextKinds
  <2> QED  BY <1>1, <2>1 DEF Taken
<1> QED  BY <1>3, <1>4, <1>5, <1>6, <1>7, <1>8, <1>9, <1>10

(* The last setting that is written warns unless it is there as a whole.   *)
LEMMA EchoRead ==
    ASSUME NEW s \in Rows(Main), s.key = Echo, NEW t, NEW before, ReadLine(s, t, before).code = OK
    PROVE  t \in {"yes", "Yes", "no", "No"}
<1>1. KindByKey(s) /\ s.missing = WMissingVar /\ s.bad = WIllegalVar  BY RowFacts, MainIsNotOwn
<1>2. t # Absent  BY <1>1, CodesDiffer DEF ReadLine, Taken
<1>3. s.kind = "yesno"
  <2>1. Echo \in YesNoKeys  BY DEF Echo, YesNoKeys
  <2> QED  BY <1>1, <2>1 DEF KindByKey
<1>4. ReadLine(s, t, before) = ReadYesNo(s, t)  BY <1>2, <1>3, ReadTextKinds DEF ReadLine
<1> QED  BY <1>1, <1>4, CodesDiffer DEF ReadYesNo, Taken

-----------------------------------------------------------------------------
(* Reading one setting, and all of them. *)

(* What ReadSetting makes of a reading. *)
LEMMA ReadSettingStep ==
    ASSUME NEW f \in Files, NEW r, IsReading(f, r), NEW s, s.key \in KeysOf(f), NEW lines, NEW cmdline,
           NEW q, q = ReadSetting(r, s, lines, cmdline),
           NEW t, t = lines[s.key], NEW taken, taken = ReadLine(s, t, r.values[s.key])
    PROVE  /\ IsReading(f, q)
           /\ r.returned \/ (s.key = "LOGLEVEL" /\ cmdline) => q = r
           /\ (~r.returned /\ ~(s.key = "LOGLEVEL" /\ cmdline) /\ t = TooLong) =>
                 q.values = r.values /\ q.ret = EUnknown /\ q.returned
           /\ (~r.returned /\ ~(s.key = "LOGLEVEL" /\ cmdline) /\ t # TooLong) =>
                 /\ q.values = [r.values EXCEPT ![s.key] = taken.value]
                 /\ s.kind # "logdir" =>
                       /\ q.ret = IF taken.code = OK THEN r.ret ELSE taken.code
                       /\ q.returned = r.returned /\ q.logs = r.logs
                 /\ s.kind = "logdir" =>
                       /\ (t = Absent \/ t \in BadDirs) =>
                             q.ret \in {WMissingVar, WIllegalVar} /\ q.returned
                       /\ (t # Absent /\ t \notin BadDirs) =>
                             /\ q.logs = t /\ q.returned = r.returned
                             /\ q.ret = IF t \in BadLogs THEN EIllegalVar
                                        ELSE IF taken.code = OK THEN r.ret ELSE taken.code
<1> DEFINE values == [r.values EXCEPT ![s.key] = taken.value]
           ret == IF taken.code = OK THEN r.ret ELSE taken.code
           next == [r EXCEPT !.values = values, !.ret = ret]
           stopped == [r EXCEPT !.ret = EUnknown, !.returned = TRUE]
<1>1. DOMAIN r = ReadingFields /\ OnKeys(f, r.values)  BY DEF IsReading
<1>2. q = IF r.returned \/ (s.key = "LOGLEVEL" /\ cmdline) THEN r
          ELSE IF t = TooLong THEN stopped
          ELSE IF s.kind = "logdir" THEN ReadLogDir(next, t) ELSE next
      BY DEF ReadSetting
<1>3. OnKeys(f, values)  BY <1>1 DEF OnKeys
<1>4. /\ DOMAIN stopped = ReadingFields /\ stopped.values = r.values /\ stopped.ret = EUnknown
      /\ stopped.returned = TRUE
      BY <1>1 DEF ReadingFields
<1> HIDE DEF values, ret
<1>5. /\ DOMAIN next = ReadingFields /\ next.values = values /\ next.ret = ret
      /\ next.returned = r.returned /\ next.logs = r.logs
      BY <1>1 DEF ReadingFields
<1> DEFINE last == ReadLogDir(next, t)
<1> HIDE DEF next, stopped
<1>6. /\ DOMAIN last = ReadingFields /\ last.values = values
      /\ (t = Absent \/ t \in BadDirs) => last.ret \in {WMissingVar, WIllegalVar} /\ last.returned
      /\ (t # Absent /\ t \notin BadDirs) =>
            /\ last.logs = t /\ last.returned = r.returned
            /\ last.ret = IF t \in BadLogs THEN EIllegalVar ELSE ret
      BY <1>5 DEF ReadLogDir, ReadingFields
<1> HIDE DEF last
<1>7. q = IF r.returned \/ (s.key = "LOGLEVEL" /\ cmdline) THEN r
          ELSE IF t = TooLong THEN stopped
          ELSE IF s.kind = "logdir" THEN last ELSE next
      BY <1>2 DEF last
<1>8. CASE r.returned \/ (s.key = "LOGLEVEL" /\ cmdline)  BY <1>7, <1>8
<1>9. CASE ~r.returned /\ ~(s.key = "LOGLEVEL" /\ cmdline) /\ t = TooLong
      BY <1>1, <1>4, <1>7, <1>9 DEF IsReading
<1>10. CASE ~r.returned /\ ~(s.key = "LOGLEVEL" /\ cmdline) /\ t # TooLong /\ s.kind = "logdir"
  <2>1. q = last  BY <1>7, <1>10
  <2> QED  BY <1>3, <1>6, <1>10, <2>1 DEF IsReading, values, ret
<1>11. CASE ~r.returned /\ ~(s.key = "LOGLEVEL" /\ cmdline) /\ t # TooLong /\ s.kind # "logdir"
  <2>1. q = next  BY <1>7, <1>11
  <2> QED  BY <1>3, <1>5, <1>11, <2>1 DEF IsReading, values, ret
<1> QED  BY <1>8, <1>9, <1>10, <1>11

(* The readings after so many settings.  There is such a function, and its *)
(* last value is the whole reading.                                        *)
IsRun(g, begun, f, lines, cmdline) ==
    g = [n \in 0 .. Len(ReadOrder(f)) |->
           IF n = 0 THEN begun ELSE ReadSetting(g[n - 1], ReadOrder(f)[n], lines, cmdline)]

LEMMA ReadRuns ==
    ASSUME NEW f \in Files, NEW begun, NEW lines, NEW cmdline
    PROVE  \E g : IsRun(g, begun, f, lines, cmdline) /\ ReadAll(begun, f, lines, cmdline) = g[Len(ReadOrder(f))]
<1> DEFINE N == Len(ReadOrder(f))
           order == ReadOrder(f)
           Next1(r, n) == ReadSetting(r, order[n], lines, cmdline)
           Run(g, m) == g = [n \in 0 .. m |-> IF n = 0 THEN begun ELSE Next1(g[n - 1], n)]
           T == {m \in Nat : \E g : Run(g, m)}
<1>1. N \in Nat  BY OrderRows
<1> HIDE DEF N, order, Next1
<1>2. 0 \in T
  <2>1. Run([n \in 0 .. 0 |-> begun], 0)  OBVIOUS
  <2> QED  BY <2>1
<1>3. ASSUME NEW m \in Nat, m \in T  PROVE m + 1 \in T
  <2>1. PICK g : Run(g, m)  BY <1>3
  <2> DEFINE h == [n \in 0 .. m + 1 |-> IF n = m + 1 THEN Next1(g[m], m + 1) ELSE g[n]]
  <2>2. ASSUME NEW n \in 0 .. m + 1
        PROVE  h[n] = IF n = 0 THEN begun ELSE Next1(h[n - 1], n)
    <3>1. CASE n = 0
      <4>1. h[n] = g[0] /\ g[0] = begun  BY <2>1, <3>1
      <4> QED  BY <3>1, <4>1
    <3>2. CASE n = m + 1
      <4>1. h[n - 1] = g[m] /\ h[n] = Next1(g[m], n)  BY <3>2
      <4> QED  BY <3>2, <4>1
    <3>3. CASE n # 0 /\ n # m + 1
      <4>1. n \in 0 .. m /\ n - 1 \in 0 .. m + 1 /\ n - 1 # m + 1  BY <3>3
      <4>2. h[n] = g[n] /\ h[n - 1] = g[n - 1]  BY <3>3, <4>1
      <4>3. g[n] = Next1(g[n - 1], n)  BY <2>1, <3>3, <4>1
      <4> QED  BY <3>3, <4>2, <4>3
    <3> QED  BY <3>1, <3>2, <3>3
  <2>3. h = [n \in 0 .. m + 1 |-> h[n]]  OBVIOUS
  <2> HIDE DEF h
  <2>4. Run(h, m + 1)  BY <2>2, <2>3
  <2> QED  BY <2>4
<1>4. Nat \subseteq T
  <2> HIDE DEF T
  <2> QED  BY <1>2, <1>3, NatSets
<1>5. PICK g : Run(g, N)  BY <1>1, <1>4
<1> DEFINE after[n \in 0 .. N] == IF n = 0 THEN begun ELSE Next1(after[n - 1], n)
<1>6. after = [n \in 0 .. N |-> IF n = 0 THEN begun ELSE Next1(after[n - 1], n)]
  <2>1. \E a : a = [n \in 0 .. N |-> IF n = 0 THEN begun ELSE Next1(a[n - 1], n)]  BY <1>5
  <2> QED  BY <2>1
<1>7. ReadAll(begun, f, lines, cmdline) = after[N]  BY DEF ReadAll, N, order, Next1
<1> HIDE DEF after
<1>8. IsRun(after, begun, f, lines, cmdline)  BY <1>6 DEF IsRun, N, order, Next1
<1> QED  BY <1>7, <1>8 DEF N

(* The first reading of a run, and the next ones. *)
LEMMA RunSteps ==
    ASSUME NEW f \in Files, NEW g, NEW begun, NEW lines, NEW cmdline, IsRun(g, begun, f, lines, cmdline)
    PROVE  /\ g[0] = begun
           /\ \A n \in Nat : n + 1 <= Len(ReadOrder(f)) =>
                 /\ n + 1 \in 1 .. Len(ReadOrder(f)) /\ n # Len(ReadOrder(f))
                 /\ ReadOrder(f)[n + 1] \in Rows(f) /\ ReadOrder(f)[n + 1].key \in KeysOf(f)
                 /\ g[n + 1] = ReadSetting(g[n], ReadOrder(f)[n + 1], lines, cmdline)
<1> DEFINE N == Len(ReadOrder(f))
           order == ReadOrder(f)
<1>1. N \in Nat /\ \A i \in 1 .. N : order[i] \in Rows(f) /\ order[i].key \in KeysOf(f)
      BY OrderRows
<1>2. g = [n \in 0 .. N |-> IF n = 0 THEN begun ELSE ReadSetting(g[n - 1], order[n], lines, cmdline)]
      BY DEF IsRun
<1> HIDE DEF N, order
<1>3. g[0] = begun  BY <1>1, <1>2
<1>4. ASSUME NEW n \in Nat, n + 1 <= N
      PROVE  /\ n + 1 \in 1 .. N /\ n # N
             /\ order[n + 1] \in Rows(f) /\ order[n + 1].key \in KeysOf(f)
             /\ g[n + 1] = ReadSetting(g[n], order[n + 1], lines, cmdline)
  <2>1. n + 1 \in 1 .. N /\ n # N /\ n + 1 \in 0 .. N /\ n + 1 # 0 /\ n + 1 - 1 = n  BY <1>1, <1>4
  <2>2. g[n + 1] = ReadSetting(g[n], order[n + 1], lines, cmdline)  BY <1>2, <2>1
  <2> QED  BY <1>1, <2>1, <2>2
<1> QED  BY <1>3, <1>4 DEF N, order

(* A reading stops early at a value that does not fit into its place.      *)
Overlong(f, lines) == f = Main /\ \E k \in KeysOf(f) : lines[k] = TooLong

(* One setting of a file whose lines fit: its value is accepted, and no    *)
(* other changes, unless a value did not fit into its place.               *)
LEMMA StepAccepted ==
    ASSUME NEW f \in Files, NEW r, IsReading(f, r), Startable(f, r.values), ~r.returned,
           NEW s \in Rows(f), s.key \in KeysOf(f), NEW lines, Fits(f, s.key, lines[s.key]),
           NEW cmdline, ~cmdline, NEW q, q = ReadSetting(r, s, lines, cmdline)
    PROVE  /\ IsReading(f, q) /\ Startable(f, q.values)
           /\ \/ Overlong(f, lines) /\ q.ret = EUnknown /\ q.returned
              \/ /\ Accepted(s.key, q.values[s.key])
                 /\ \A j \in KeysOf(f) : j # s.key => q.values[j] = r.values[j]
                 /\ q.returned => s.kind = "logdir"
<1>1. PICK t : t = lines[s.key]  OBVIOUS
<1>2. PICK taken : taken = ReadLine(s, t, r.values[s.key])  OBVIOUS
<1>3. Fits(f, s.key, t)  BY <1>1
<1>4. /\ IsReading(f, q)
      /\ t = TooLong => q.values = r.values /\ q.ret = EUnknown /\ q.returned
      /\ t # TooLong => /\ q.values = [r.values EXCEPT ![s.key] = taken.value]
                        /\ s.kind # "logdir" => q.returned = r.returned
      BY <1>1, <1>2, ReadSettingStep
<1>5. CASE t = TooLong
  <2>1. Overlong(f, lines)  BY <1>1, <1>3, <1>5, MainIsNotOwn DEF Fits, Overlong
  <2> QED  BY <1>4, <1>5, <2>1
<1>6. CASE t # TooLong
  <2>1. /\ q.values = [r.values EXCEPT ![s.key] = taken.value]
        /\ s.kind # "logdir" => q.returned = r.returned
        BY <1>4, <1>6
  <2>2. s.key \in KeptKeys => Accepted(s.key, r.values[s.key])  BY DEF Startable
  <2>3. Accepted(s.key, taken.value)  BY <1>2, <1>3, <1>6, <2>2, ReadLineAccepted
  <2>4. OnKeys(f, r.values) /\ OnKeys(f, q.values)  BY <1>4 DEF IsReading
  <2>5. q.values[s.key] = taken.value
        /\ \A j \in KeysOf(f) : j # s.key => q.values[j] = r.values[j]
        BY <2>1, <2>4 DEF OnKeys
  <2>6. Startable(f, q.values)  BY <2>3, <2>4, <2>5 DEF Startable
  <2> QED  BY <1>4, <2>1, <2>3, <2>5, <2>6
<1> QED  BY <1>5, <1>6

(* A file whose lines fit gives accepted values, unless a value did not    *)
(* fit into its place.                                                     *)
LEMMA WholeAccepted ==
    ASSUME NEW f \in Files, NEW values, Startable(f, values), NEW lines,
           \A k \in KeysOf(f) : Fits(f, k, lines[k])
    PROVE  LET r == ReadWhole(f, values, lines)
           IN  AllAccepted(f, r.values) \/ (Overlong(f, lines) /\ r.ret = EUnknown)
<1> DEFINE N == Len(ReadOrder(f))
           order == ReadOrder(f)
           begun == Begun(values)
           cmdline == FALSE
<1>0. ReadWhole(f, values, lines) = ReadAll(begun, f, lines, cmdline) /\ ~cmdline  BY DEF ReadWhole
<1> HIDE DEF cmdline, begun
<1>1. PICK g : IsRun(g, begun, f, lines, cmdline) /\ ReadWhole(f, values, lines) = g[N]
      BY <1>0, ReadRuns
<1>2. N \in Nat /\ (\A i \in 1 .. N : order[i].key \in KeysOf(f))
      /\ KeysOf(f) = {order[i].key : i \in 1 .. N}
      BY OrderRows
<1>3. /\ g[0] = begun
      /\ \A n \in Nat : n + 1 <= N => 
            /\ n + 1 \in 1 .. N /\ n # N /\ order[n + 1] \in Rows(f) /\ order[n + 1].key \in KeysOf(f)
            /\ g[n + 1] = ReadSetting(g[n], order[n + 1], lines, cmdline)
      BY <1>1, RunSteps
<1>4. \A i \in 1 .. N : order[i].kind = "logdir" => i = N  BY LogDirLast
<1>5. begun.values = values /\ begun.returned = FALSE /\ DOMAIN begun = ReadingFields
      BY DEF begun, Begun, ReadingFields
<1> DEFINE Stopped(r) == Overlong(f, lines) /\ r.ret = EUnknown /\ r.returned
           Good(r, n) == \A i \in 1 .. n : Accepted(order[i].key, r.values[order[i].key])
           P(r, n) == /\ IsReading(f, r) /\ Startable(f, r.values)
                      /\ (Good(r, n) /\ (r.returned => n = N)) \/ Stopped(r)
           T == {n \in Nat : n <= N => P(g[n], n)}
<1> HIDE DEF N, order, begun
<1>6. 0 \in T
  <2>1. IsReading(f, begun) /\ Startable(f, begun.values)  BY <1>5 DEF IsReading, Startable
  <2> QED  BY <1>3, <1>5, <2>1
<1>7. ASSUME NEW n \in Nat, n \in T  PROVE n + 1 \in T
  <2>1. SUFFICES ASSUME n + 1 <= N  PROVE P(g[n + 1], n + 1)
        OBVIOUS
  <2>2. PICK r : r = g[n]  OBVIOUS
  <2>3. PICK q : q = g[n + 1]  OBVIOUS
  <2>4. PICK s : s = order[n + 1]  OBVIOUS
  <2>5. n # N /\ s \in Rows(f) /\ s.key \in KeysOf(f) /\ q = ReadSetting(r, s, lines, cmdline)
        BY <1>3, <2>1, <2>2, <2>3, <2>4
  <2>6. P(r, n)  BY <1>2, <1>7, <2>1, <2>2
  <2>7. CASE r.returned
    <3>1. q = r  BY <2>5, <2>7 DEF ReadSetting
    <3> QED  BY <2>3, <2>5, <2>6, <2>7, <3>1
  <2>8. CASE ~r.returned
    <3>1. IsReading(f, r) /\ Startable(f, r.values) /\ Good(r, n)  BY <2>6, <2>8
    <3>2. /\ IsReading(f, q) /\ Startable(f, q.values)
          /\ \/ Stopped(q)
             \/ /\ Accepted(s.key, q.values[s.key])
                /\ \A j \in KeysOf(f) : j # s.key => q.values[j] = r.values[j]
                /\ q.returned => s.kind = "logdir"
          BY <1>0, <2>5, <2>8, <3>1, StepAccepted
    <3>3. CASE Stopped(q)  BY <2>3, <3>2, <3>3
    <3>4. CASE /\ Accepted(s.key, q.values[s.key])
               /\ \A j \in KeysOf(f) : j # s.key => q.values[j] = r.values[j]
               /\ q.returned => s.kind = "logdir"
      <4>1. ASSUME NEW i \in 1 .. n + 1  PROVE Accepted(order[i].key, q.values[order[i].key])
        <5>1. CASE order[i].key = s.key  BY <3>4, <5>1
        <5>2. CASE order[i].key # s.key
          <6>1. i # n + 1  BY <2>4, <5>2
          <6>2. i \in 1 .. n /\ i \in 1 .. N  BY <1>2, <2>1, <6>1
          <6>3. order[i].key \in KeysOf(f) /\ Accepted(order[i].key, r.values[order[i].key])
                BY <1>2, <3>1, <6>2
          <6> QED  BY <3>4, <5>2, <6>3
        <5> QED  BY <5>1, <5>2
      <4>2. q.returned => n + 1 = N  BY <1>3, <1>4, <2>1, <2>4, <3>4
      <4> QED  BY <2>3, <3>2, <4>1, <4>2
    <3> QED  BY <3>2, <3>3, <3>4
  <2> QED  BY <2>7, <2>8
<1>8. Nat \subseteq T
  <2> HIDE DEF T
  <2> QED  BY <1>6, <1>7, NatSets
<1>9. P(g[N], N)  BY <1>2, <1>8
<1>10. Good(g[N], N) => AllAccepted(f, g[N].values)
  <2>1. OnKeys(f, g[N].values)  BY <1>9 DEF IsReading
  <2> QED  BY <1>2, <2>1 DEF AllAccepted
<1>11. AllAccepted(f, g[N].values) \/ (Overlong(f, lines) /\ g[N].ret = EUnknown)  BY <1>9, <1>10
<1> QED  BY <1>1, <1>11 DEF N, begun

(* What a file has too much: a plugin without a name, an unusable          *)
(* directory.                                                              *)
Unusable(f, lines) ==
    \E k \in KeysOf(f) : (k \in PluginKeys /\ lines[k] = Blank) \/ lines[k] \in BadDirs \cup BadLogs

(* One setting whose line is accepted: its value is the line, and only     *)
(* what is unusable has a code.                                            *)
LEMMA StepSame ==
    ASSUME NEW f \in Files, NEW r, IsReading(f, r), ~r.returned,
           NEW s \in Rows(f), s.key \in KeysOf(f), NEW lines, Accepted(s.key, lines[s.key]),
           r.ret # OK => Unusable(f, lines),
           NEW cmdline, ~cmdline, NEW q, q = ReadSetting(r, s, lines, cmdline)
    PROVE  /\ IsReading(f, q)
           /\ q.values[s.key] = lines[s.key]
           /\ \A j \in KeysOf(f) : j # s.key => q.values[j] = r.values[j]
           /\ q.returned => s.kind = "logdir"
           /\ q.ret # OK => Unusable(f, lines)
<1>1. PICK t : t = lines[s.key]  OBVIOUS
<1>2. PICK taken : taken = ReadLine(s, t, r.values[s.key])  OBVIOUS
<1>3. /\ t # Absent /\ t # TooLong /\ taken.value = t
      /\ taken.code # OK => s.kind = "plugin" /\ t = Blank
      BY <1>1, <1>2, AcceptedRead
<1>4. taken.code # OK => Unusable(f, lines)
  <2>1. s.kind = "plugin" => s.key \in PluginKeys  BY DEF Rows, KindByKey
  <2> QED  BY <1>1, <1>3, <2>1 DEF Unusable
<1>5. t \in BadDirs \cup BadLogs => Unusable(f, lines)  BY <1>1 DEF Unusable
<1>6. /\ IsReading(f, q) /\ q.values = [r.values EXCEPT ![s.key] = taken.value]
      /\ s.kind # "logdir" =>
            q.ret = (IF taken.code = OK THEN r.ret ELSE taken.code) /\ q.returned = r.returned
      /\ s.kind = "logdir" =>
            (t \notin BadDirs =>
               q.ret = IF t \in BadLogs THEN EIllegalVar
                       ELSE IF taken.code = OK THEN r.ret ELSE taken.code)
      BY <1>1, <1>2, <1>3, ReadSettingStep
<1>7. OnKeys(f, r.values) /\ OnKeys(f, q.values)  BY <1>6 DEF IsReading
<1>8. q.values[s.key] = t /\ \A j \in KeysOf(f) : j # s.key => q.values[j] = r.values[j]
      BY <1>3, <1>6, <1>7 DEF OnKeys
<1>9. q.ret # OK => Unusable(f, lines)  BY <1>4, <1>5, <1>6
<1> QED  BY <1>1, <1>6, <1>8, <1>9

(* Accepted lines are the values. *)
LEMMA WholeSame ==
    ASSUME NEW f \in Files, NEW values, OnKeys(f, values), NEW lines, AllAccepted(f, lines)
    PROVE  LET r == ReadWhole(f, values, lines)
           IN  r.values = lines /\ (r.ret # OK => Unusable(f, lines))
<1> DEFINE N == Len(ReadOrder(f))
           order == ReadOrder(f)
           begun == Begun(values)
           cmdline == FALSE
<1>0. ReadWhole(f, values, lines) = ReadAll(begun, f, lines, cmdline) /\ ~cmdline  BY DEF ReadWhole
<1> HIDE DEF cmdline, begun
<1>1. PICK g : IsRun(g, begun, f, lines, cmdline) /\ ReadWhole(f, values, lines) = g[N]
      BY <1>0, ReadRuns
<1>2. N \in Nat /\ (\A i \in 1 .. N : order[i].key \in KeysOf(f))
      /\ KeysOf(f) = {order[i].key : i \in 1 .. N}
      BY OrderRows
<1>3. /\ g[0] = begun
      /\ \A n \in Nat : n + 1 <= N => 
            /\ n + 1 \in 1 .. N /\ n # N /\ order[n + 1] \in Rows(f) /\ order[n + 1].key \in KeysOf(f)
            /\ g[n + 1] = ReadSetting(g[n], order[n + 1], lines, cmdline)
      BY <1>1, RunSteps
<1>4. \A i \in 1 .. N : order[i].kind = "logdir" => i = N  BY LogDirLast
<1>5. begun.values = values /\ begun.returned = FALSE /\ begun.ret = OK /\ DOMAIN begun = ReadingFields
      BY DEF begun, Begun, ReadingFields
<1> DEFINE Good(r, n) == \A i \in 1 .. n : r.values[order[i].key] = lines[order[i].key]
           P(r, n) == /\ IsReading(f, r) /\ Good(r, n)
                      /\ r.ret # OK => Unusable(f, lines)
                      /\ r.returned => n = N
           T == {n \in Nat : n <= N => P(g[n], n)}
<1> HIDE DEF N, order, begun
<1>6. 0 \in T
  <2>1. IsReading(f, begun)  BY <1>5 DEF IsReading
  <2> QED  BY <1>3, <1>5, <2>1
<1>7. ASSUME NEW n \in Nat, n \in T  PROVE n + 1 \in T
  <2>1. SUFFICES ASSUME n + 1 <= N  PROVE P(g[n + 1], n + 1)
        OBVIOUS
  <2>2. PICK r : r = g[n]  OBVIOUS
  <2>3. PICK q : q = g[n + 1]  OBVIOUS
  <2>4. PICK s : s = order[n + 1]  OBVIOUS
  <2>5. n # N /\ s \in Rows(f) /\ s.key \in KeysOf(f) /\ q = ReadSetting(r, s, lines, cmdline)
        BY <1>3, <2>1, <2>2, <2>3, <2>4
  <2>6. P(r, n)  BY <1>2, <1>7, <2>1, <2>2
  <2>7. IsReading(f, r) /\ ~r.returned /\ Good(r, n) /\ (r.ret # OK => Unusable(f, lines))
        BY <2>5, <2>6
  <2>8. Accepted(s.key, lines[s.key])  BY <2>5 DEF AllAccepted
  <2>9. /\ IsReading(f, q)
        /\ q.values[s.key] = lines[s.key]
        /\ \A j \in KeysOf(f) : j # s.key => q.values[j] = r.values[j]
        /\ q.returned => s.kind = "logdir"
        /\ q.ret # OK => Unusable(f, lines)
        BY <1>0, <2>5, <2>7, <2>8, StepSame
  <2>10. ASSUME NEW i \in 1 .. n + 1  PROVE q.values[order[i].key] = lines[order[i].key]
    <3>1. CASE order[i].key = s.key  BY <2>9, <3>1
    <3>2. CASE order[i].key # s.key
      <4>1. i # n + 1  BY <2>4, <3>2
      <4>2. i \in 1 .. n /\ i \in 1 .. N  BY <1>2, <2>1, <4>1
      <4>3. order[i].key \in KeysOf(f) /\ r.values[order[i].key] = lines[order[i].key]
            BY <1>2, <2>7, <4>2
      <4> QED  BY <2>9, <3>2, <4>3
    <3> QED  BY <3>1, <3>2
  <2>11. q.returned => n + 1 = N  BY <1>3, <1>4, <2>1, <2>4, <2>9
  <2> QED  BY <2>3, <2>9, <2>10, <2>11
<1>8. Nat \subseteq T
  <2> HIDE DEF T
  <2> QED  BY <1>6, <1>7, NatSets
<1>9. P(g[N], N)  BY <1>2, <1>8
<1>10. PICK v : v = g[N].values  OBVIOUS
<1>11. OnKeys(f, v) /\ OnKeys(f, lines)  BY <1>9, <1>10 DEF IsReading, AllAccepted
<1>12. \A k \in KeysOf(f) : v[k] = lines[k]  BY <1>2, <1>9, <1>10
<1>13. v = lines  BY <1>11, <1>12 DEF OnKeys
<1> QED  BY <1>1, <1>9, <1>10, <1>13 DEF N, begun

(* Both ends are read: the log directory, which reading ends with, and the *)
(* setting that writing ends with.                                         *)
Has(s, k) == \E i \in 1 .. Len(s) : s[i].key = k

LEMMA HasJoined ==
    ASSUME NEW S, NEW a \in Seq(S), NEW b \in Seq(S), NEW k, Has(a, k) \/ Has(b, k)
    PROVE  a \o b \in Seq(S) /\ Has(a \o b, k)
<1>1. /\ a \o b \in Seq(S) /\ Len(a \o b) = Len(a) + Len(b)
      /\ \A i \in 1 .. Len(a) : (a \o b)[i] = a[i]
      /\ \A i \in Len(a) + 1 .. Len(a) + Len(b) : (a \o b)[i] = b[i - Len(a)]
      BY Joined
<1>2. Len(a) \in Nat /\ Len(b) \in Nat  OBVIOUS
<1>3. CASE Has(a, k)
  <2>1. PICK i \in 1 .. Len(a) : a[i].key = k  BY <1>3 DEF Has
  <2>2. i \in 1 .. Len(a \o b) /\ (a \o b)[i].key = k  BY <1>1, <1>2, <2>1
  <2> QED  BY <1>1, <2>2 DEF Has
<1>4. CASE Has(b, k)
  <2>1. PICK i \in 1 .. Len(b) : b[i].key = k  BY <1>4 DEF Has
  <2>2. i + Len(a) \in Len(a) + 1 .. Len(a) + Len(b) /\ i + Len(a) - Len(a) = i  BY <1>2
  <2>3. i + Len(a) \in 1 .. Len(a \o b) /\ (a \o b)[i + Len(a)].key = k  BY <1>1, <1>2, <2>1, <2>2
  <2> QED  BY <1>1, <2>3 DEF Has
<1> QED  BY <1>3, <1>4

LEMMA EndsAreRead ==
    /\ Echo \in Keys => Echo \in KeysOf(Main)
    /\ "LOGDIR" \in Keys => "LOGDIR" \in KeysOf(Main)
<1> DEFINE R == Rows(Main)
           a1 == PermissionSettings \o BackendSettings
           a2 == a1 \o FileSettings
           a3 == a2 \o DynamicSettings
           a4 == a3 \o DropSettings
           a5 == a4 \o SynSettings
           a6 == a5 \o UdpSettings
           a7 == a6 \o PolicySettings
           a8 == a7 \o ProtectSettings
           a9 == a8 \o CommandSettings
           a10 == a9 \o ToolSettings
           all == a10 \o LogSettings
<1>1. Settings(Main) = all  BY MainIsNotOwn DEF Settings
<1>2. Has(ProtectSettings, Echo)
  <2>1. ProtectSettings[3].key = Echo /\ Len(ProtectSettings) = 3
        BY DEF ProtectSettings, Warns, Quiet, Setting, Echo
  <2> QED  BY <2>1 DEF Has
<1>3. Has(all, Echo)
  <2> HIDE DEF R
  <2>1. a1 \in Seq(R)  BY MainRows, Joined DEF R
  <2> HIDE DEF a1
  <2>2. a2 \in Seq(R)  BY <2>1, MainRows, Joined DEF R
  <2> HIDE DEF a2
  <2>3. a3 \in Seq(R)  BY <2>2, MainRows, Joined DEF R
  <2> HIDE DEF a3
  <2>4. a4 \in Seq(R)  BY <2>3, MainRows, Joined DEF R
  <2> HIDE DEF a4
  <2>5. a5 \in Seq(R)  BY <2>4, MainRows, Joined DEF R
  <2> HIDE DEF a5
  <2>6. a6 \in Seq(R)  BY <2>5, MainRows, Joined DEF R
  <2> HIDE DEF a6
  <2>7. a7 \in Seq(R)  BY <2>6, MainRows, Joined DEF R
  <2> HIDE DEF a7
  <2>8. ProtectSettings \in Seq(R) /\ CommandSettings \in Seq(R) /\ ToolSettings \in Seq(R)
        /\ LogSettings \in Seq(R)
        BY MainRows DEF R
  <2>9. a8 \in Seq(R) /\ Has(a8, Echo)  BY <1>2, <2>7, <2>8, HasJoined
  <2> HIDE DEF a8
  <2>10. a9 \in Seq(R) /\ Has(a9, Echo)  BY <2>8, <2>9, HasJoined
  <2> HIDE DEF a9
  <2>11. a10 \in Seq(R) /\ Has(a10, Echo)  BY <2>8, <2>10, HasJoined
  <2> HIDE DEF a10
  <2> QED  BY <2>8, <2>11, HasJoined
<1> DEFINE s == Settings(Main)
           places == {i \in DOMAIN s : s[i].key \in Keys}
           order == ReadOrder(Main)
<1>4. s \in Seq(R) /\ Has(s, Echo) /\ Has(s, "LOGDIR")
  <2>1. s \in Seq(R) /\ Len(s) > 0 /\ s[Len(s)].key = "LOGDIR"  BY SettingsRows, MainIsNotOwn
  <2> HIDE DEF R, s
  <2>2. Has(s, "LOGDIR")  BY <2>1 DEF Has
  <2> QED  BY <1>1, <1>3, <2>1, <2>2 DEF s
<1>5. order = Kept(s, places) /\ KeysOf(Main) = {order[i].key : i \in DOMAIN order}
      BY MainIsNotOwn DEF ReadOrder, ReadOrders, KeysOf
<1> HIDE DEF R, s, order, all
<1>6. places \in SUBSET (1 .. Len(s))  BY <1>4
<1>7. \A j \in places : \E i \in DOMAIN order : order[i] = s[j]
  <2> HIDE DEF places
  <2> QED  BY <1>4, <1>5, <1>6, KeptRange
<1>8. ASSUME NEW k \in Keys, Has(s, k)  PROVE k \in KeysOf(Main)
  <2>1. PICK j \in 1 .. Len(s) : s[j].key = k  BY <1>8 DEF Has
  <2>2. j \in places  BY <1>4, <1>8, <2>1
  <2> QED  BY <1>5, <1>7, <2>1, <2>2
<1> QED  BY <1>4, <1>8

(* One setting that had no code: what its line is, without a code.         *)
LEMMA StepQuiet ==
    ASSUME NEW r, IsReading(Main, r), ~r.returned,
           NEW s \in Rows(Main), s.key \in KeysOf(Main), NEW lines, NEW level,
           NEW q, q = ReadSetting(r, s, lines, level), q.ret = OK
    PROVE  /\ r.ret = OK /\ ~q.returned
           /\ \/ s.key = "LOGLEVEL" /\ level /\ q = r
              \/ /\ lines[s.key] # TooLong
                 /\ ReadLine(s, lines[s.key], r.values[s.key]).value = q.values[s.key]
                 /\ ReadLine(s, lines[s.key], r.values[s.key]).code = OK
                 /\ \A j \in KeysOf(Main) : j # s.key => q.values[j] = r.values[j]
                 /\ s.kind # "logdir" => q.logs = r.logs
                 /\ s.kind = "logdir" => q.logs = q.values[s.key]
<1>1. PICK t : t = lines[s.key]  OBVIOUS
<1>2. PICK taken : taken = ReadLine(s, t, r.values[s.key])  OBVIOUS
<1>3. /\ IsReading(Main, q)
      /\ (s.key = "LOGLEVEL" /\ level) => q = r
      /\ (~(s.key = "LOGLEVEL" /\ level) /\ t = TooLong) =>
            q.values = r.values /\ q.ret = EUnknown /\ q.returned
      /\ (~(s.key = "LOGLEVEL" /\ level) /\ t # TooLong) =>
            /\ q.values = [r.values EXCEPT ![s.key] = taken.value]
            /\ s.kind # "logdir" =>
                  /\ q.ret = IF taken.code = OK THEN r.ret ELSE taken.code
                  /\ q.returned = r.returned /\ q.logs = r.logs
            /\ s.kind = "logdir" =>
                  /\ (t = Absent \/ t \in BadDirs) =>
                        q.ret \in {WMissingVar, WIllegalVar} /\ q.returned
                  /\ (t # Absent /\ t \notin BadDirs) =>
                        /\ q.logs = t /\ q.returned = r.returned
                        /\ q.ret = IF t \in BadLogs THEN EIllegalVar
                                   ELSE IF taken.code = OK THEN r.ret ELSE taken.code
      BY <1>1, <1>2, MainIsNotOwn, ReadSettingStep
<1>4. CASE s.key = "LOGLEVEL" /\ level  BY <1>3, <1>4
<1>5. CASE ~(s.key = "LOGLEVEL" /\ level)
  <2>1. t # TooLong  BY <1>3, <1>5, CodesDiffer
  <2>2. q.values = [r.values EXCEPT ![s.key] = taken.value]  BY <1>3, <1>5, <2>1
  <2>3. OnKeys(Main, r.values) /\ OnKeys(Main, q.values)  BY <1>3 DEF IsReading
  <2>4. q.values[s.key] = taken.value
        /\ \A j \in KeysOf(Main) : j # s.key => q.values[j] = r.values[j]
        BY <2>2, <2>3 DEF OnKeys
  <2>5. CASE s.kind # "logdir"
    <3>1. taken.code = OK /\ r.ret = OK /\ ~q.returned /\ q.logs = r.logs  BY <1>3, <1>5, <2>1, <2>5
    <3> QED  BY <1>1, <1>2, <2>1, <2>4, <2>5, <3>1
  <2>6. CASE s.kind = "logdir"
    <3>1. t # Absent /\ t \notin BadDirs  BY <1>3, <1>5, <2>1, <2>6, CodesDiffer
    <3>2. taken.code = OK /\ r.ret = OK /\ ~q.returned /\ q.logs = t
          BY <1>3, <1>5, <2>1, <2>6, <3>1, CodesDiffer
    <3>3. s.kind \notin {"yesno", "number", "limit", "mode", "plugin", "file", "colour"}  BY <2>6
    <3>4. taken.value = t  BY <1>2, <3>1, <3>3, ReadTextKinds DEF ReadLine, Taken
    <3> QED  BY <1>1, <1>2, <2>1, <2>4, <2>6, <3>2, <3>4
  <2> QED  BY <2>5, <2>6
<1> QED  BY <1>4, <1>5

(* A reading without a code, one setting further. *)
LEMMA QuietStep ==
    ASSUME NEW r, IsReading(Main, r), NEW n \in Nat, n + 1 \in 1 .. Len(ReadOrder(Main)),
           NEW lines, NEW level, ~r.returned, r.ret = OK => QuietSoFar(r, n, level, lines),
           NEW q, q = ReadSetting(r, ReadOrder(Main)[n + 1], lines, level), q.ret = OK
    PROVE  QuietSoFar(q, n + 1, level, lines)
<1> DEFINE N == Len(ReadOrder(Main))
           order == ReadOrder(Main)
<1>1. N \in Nat /\ (\A i \in 1 .. N : order[i] \in Rows(Main) /\ order[i].key \in KeysOf(Main))
      BY OrderRows, MainIsNotOwn
<1>2. PICK s : s = order[n + 1]  OBVIOUS
<1>3. s \in Rows(Main) /\ s.key \in KeysOf(Main) /\ n + 1 \in 1 .. N  BY <1>1, <1>2
<1>4. /\ r.ret = OK /\ ~q.returned
      /\ \/ s.key = "LOGLEVEL" /\ level /\ q = r
         \/ /\ lines[s.key] # TooLong
            /\ ReadLine(s, lines[s.key], r.values[s.key]).value = q.values[s.key]
            /\ ReadLine(s, lines[s.key], r.values[s.key]).code = OK
            /\ \A j \in KeysOf(Main) : j # s.key => q.values[j] = r.values[j]
            /\ s.kind # "logdir" => q.logs = r.logs
            /\ s.kind = "logdir" => q.logs = q.values[s.key]
      BY <1>2, <1>3, StepQuiet
<1>5. s.key = "LOGDIR" <=> s.kind = "logdir"  BY <1>3, RowFacts, MainIsNotOwn DEF KindByKey, LogDirKeys
<1> HIDE DEF N
<1>6. \A i \in 1 .. n : /\ (order[i].key = "LOGLEVEL" /\ level) \/ ReadsAs(order[i].key, lines[order[i].key], r.values[order[i].key])
                        /\ order[i].key = "LOGDIR" => r.logs = r.values[order[i].key]
      BY <1>4 DEF QuietSoFar
<1>7. ASSUME NEW i \in 1 .. n + 1
      PROVE  /\ (order[i].key = "LOGLEVEL" /\ level) \/ ReadsAs(order[i].key, lines[order[i].key], q.values[order[i].key])
             /\ order[i].key = "LOGDIR" => q.logs = q.values[order[i].key]
  <2> HIDE DEF order
  <2>1. CASE s.key = "LOGLEVEL" /\ level /\ q = r
    <3>1. CASE i = n + 1
      <4>1. order[i].key = "LOGLEVEL"  BY <1>2, <2>1, <3>1
      <4> QED  BY <2>1, <4>1
    <3>2. CASE i # n + 1
      <4>1. i \in 1 .. n  BY <3>2
      <4> QED  BY <1>6, <2>1, <4>1
    <3> QED  BY <3>1, <3>2
  <2>2. CASE /\ lines[s.key] # TooLong
             /\ ReadLine(s, lines[s.key], r.values[s.key]).value = q.values[s.key]
             /\ ReadLine(s, lines[s.key], r.values[s.key]).code = OK
             /\ \A j \in KeysOf(Main) : j # s.key => q.values[j] = r.values[j]
             /\ s.kind # "logdir" => q.logs = r.logs
             /\ s.kind = "logdir" => q.logs = q.values[s.key]
    <3>1. CASE order[i].key = s.key
      <4>1. ReadsAs(s.key, lines[s.key], q.values[s.key])  BY <1>2, <1>3, <2>2 DEF ReadsAs, N, order
      <4> QED  BY <1>5, <2>2, <3>1, <4>1
    <3>2. CASE order[i].key # s.key
      <4>1. i \in 1 .. n  BY <1>2, <3>2
      <4>2. i \in 1 .. N  BY <1>1, <1>3, <4>1
      <4>3. q.values[order[i].key] = r.values[order[i].key]  BY <1>1, <2>2, <3>2, <4>2
      <4>4. order[i].key = "LOGDIR" => q.logs = r.logs  BY <1>5, <2>2, <3>2
      <4> QED  BY <1>6, <4>1, <4>3, <4>4
    <3> QED  BY <3>1, <3>2
  <2> QED  BY <1>4, <2>1, <2>2
<1> QED  BY <1>4, <1>7 DEF QuietSoFar, order

-----------------------------------------------------------------------------
(* What every file and every program has, and what each step makes of it.  *)

LEMMA AcceptedFits ==
    ASSUME NEW f, NEW k, NEW v, Accepted(k, v)
    PROVE  Fits(f, k, v)
BY DEF Accepted, Fits

LEMMA SettingOfKey ==
    ASSUME NEW f \in Files, NEW k \in KeysOf(f)
    PROVE  SettingOf(k).key = k /\ KindByKey(SettingOf(k))
<1> DEFINE a == ReadOrder(Main)
           b == ReadOrder(Own)
           all == a \o b
           R == Rows(Main) \cup Rows(Own)
<1>1. a \in Seq(R) /\ b \in Seq(R)
  <2>1. a \in Seq(Rows(Main)) /\ b \in Seq(Rows(Own))  BY OrderRows, MainIsNotOwn
  <2> DEFINE A == Rows(Main)  B == Rows(Own)
  <2>2. a \in Seq(A) /\ b \in Seq(B) /\ A \subseteq R /\ B \subseteq R  BY <2>1
  <2> HIDE DEF A, B, R, a, b
  <2> QED  BY <2>2
<1>2. \A s \in R : KindByKey(s)  BY RowFacts, MainIsNotOwn
<1>3. Has(a, k) \/ Has(b, k)
  <2>1. PICK i \in 1 .. Len(ReadOrder(f)) : ReadOrder(f)[i].key = k  BY OrderRows
  <2> QED  BY <2>1, MainIsNotOwn DEF Has
<1>4. SettingOf(k) = all[CHOOSE i \in DOMAIN all : all[i].key = k]  BY DEF SettingOf
<1> HIDE DEF R, a, b
<1>5. all \in Seq(R) /\ Has(all, k)  BY <1>1, <1>3, HasJoined
<1> HIDE DEF all
<1>6. \E i \in DOMAIN all : all[i].key = k  BY <1>5 DEF Has
<1> DEFINE place == CHOOSE i \in DOMAIN all : all[i].key = k
<1>7. place \in DOMAIN all /\ all[place].key = k  BY <1>6
<1> HIDE DEF place
<1>8. all[place] \in R  BY <1>5, <1>7
<1> QED  BY <1>2, <1>4, <1>7, <1>8 DEF place

(* What a form keeps of a text is accepted if what was there before is. *)
LEMMA SavedAccepted ==
    ASSUME NEW s, NEW k, s.key = k, KindByKey(s), k \notin FileKeys, NEW value, Accepted(k, value),
           NEW t, t # Absent, t # TooLong
    PROVE  Accepted(k, SaveField(s, value, t))
<1> DEFINE lowest == IF s.key \in {"DYN_INT_INTERVAL", "NEWRULE_LOGLIMIT", "LOGVIEW_BUFSIZE"} THEN 1 ELSE 0
           r == SaveField(s, value, t)
<1>1. /\ s.kind = "mode" => r = IF t \in Octal THEN t ELSE value
      /\ s.kind = "yesno" => r = IF t = "X" THEN "Yes" ELSE "No"
      /\ s.kind = "colour" => r = IF t = "X" THEN "black" ELSE "blue"
      /\ s.kind = "limit" => r = SaveNumber(value, t, 1)
      /\ s.kind = "number" => r = SaveNumber(value, t, lowest)
      /\ s.kind \notin {"mode", "yesno", "colour", "limit", "number"} => r = t
      BY DEF SaveField
<1>2. \A low : SaveNumber(value, t, low) \in {t, "0", value} /\ (SaveNumber(value, t, low) = t => t \in Positive \/ t = "0" \/ t = value)
      BY DEF SaveNumber
<1>3. SaveNumber(value, t, 1) = IF t \in Positive THEN t ELSE value  BY DEF SaveNumber
<1> HIDE DEF r, lowest
<1>4. CASE s.kind = "mode"
  <2>1. k \in ModeKeys  BY <1>4 DEF KindByKey
  <2> QED  BY <1>1, <1>4, <2>1, TakesText DEF r
<1>5. CASE s.kind = "yesno"
  <2>1. k \in YesNoKeys  BY <1>5 DEF KindByKey
  <2> QED  BY <1>1, <1>5, <2>1, TakesText DEF r
<1>6. CASE s.kind = "colour"
  <2>1. k \in ColourKeys  BY <1>6 DEF KindByKey
  <2> QED  BY <1>1, <1>6, <2>1, TakesText DEF r
<1>7. CASE s.kind = "limit"
  <2>1. k \in LimitKeys  BY <1>7 DEF KindByKey
  <2> QED  BY <1>1, <1>3, <1>7, <2>1, TakesText DEF r
<1>8. CASE s.kind = "number"
  <2>1. k \in NumberKeys  BY <1>8 DEF KindByKey
  <2>2. r = SaveNumber(value, t, lowest)  BY <1>1, <1>8
  <2>3. r = "0" \/ r = value \/ r \in Positive  BY <1>2, <2>2
  <2> QED  BY <2>1, <2>3, TakesText DEF r
<1>9. CASE s.kind \notin {"mode", "yesno", "colour", "limit", "number"}
  <2>1. k \notin YesNoKeys /\ k \notin NumberKeys /\ k \notin LimitKeys /\ k \notin ModeKeys /\ k \notin ColourKeys
        BY <1>9 DEF KindByKey
  <2>2. r = t  BY <1>1, <1>9
  <2> QED  BY <2>1, <2>2 DEF Accepted, r
<1> QED  BY <1>4, <1>5, <1>6, <1>7, <1>8, <1>9

(* No form has a field for a file. *)
LEMMA FormsFacts == \A form \in Forms : form \cap FileKeys = {}
BY DEF Forms, GeneralForm, InterfacesForm, ModulesForm, PluginsForm, ConnectionsForm, LogForm,
       ConntrackForm, SystemForm, OwnForm, FileKeys

(* What is left of a save fits. *)
LEMMA LeftFits ==
    ASSUME NEW f \in Files, NEW k, NEW v, Accepted(k, v), NEW last \in Left(v)
    PROVE  last # TooLong /\ Fits(f, k, last)
<1>1. last = Blank \/ last = v \/ \E b \in Beginnings : b[2] = v /\ last = b[1]  BY DEF Left
<1>2. CASE last = Blank
  <2>1. last # TooLong  BY <1>2, PlainTexts
  <2> QED  BY <1>2, <2>1 DEF Fits
<1>3. CASE last = v  BY <1>3, AcceptedFits DEF Accepted
<1>4. ASSUME NEW b \in Beginnings, b[2] = v, last = b[1]  PROVE last # TooLong /\ Fits(f, k, last)
  <2>1. last # TooLong  BY <1>4, TextsAssumption
  <2>2. v \in FullPath => last \in FullPath \/ last = Blank  BY <1>4, TextsAssumption
  <2> QED  BY <2>1, <2>2 DEF Fits, Accepted
<1> QED  BY <1>1, <1>2, <1>3, <1>4

(* A file that is being written has lines that fit. *)
LEMMA WrittenFits ==
    ASSUME NEW f \in Files, NEW values, AllAccepted(f, values), NEW n \in 1 .. Len(WriteOrder(f)),
           NEW last \in Left(values[WriteOrder(f)[n]])
    PROVE  /\ OnKeys(f, Written(f, values, n, last))
           /\ \A k \in KeysOf(f) : Fits(f, k, Written(f, values, n, last)[k])
<1> DEFINE w == Written(f, values, n, last)
           order == WriteOrder(f)
<1>1. w = [k \in KeysOf(f) |-> IF k \notin {order[i] : i \in 1 .. n} THEN Absent
                               ELSE IF order[n] = k THEN last ELSE values[k]]
      BY DEF Written
<1> HIDE DEF w, order
<1>2. OnKeys(f, w)  BY <1>1 DEF OnKeys
<1>3. ASSUME NEW k \in KeysOf(f)  PROVE Fits(f, k, w[k])
  <2>1. Accepted(k, values[k])  BY DEF AllAccepted
  <2>2. CASE w[k] = Absent
    <3>1. w[k] # TooLong  BY <2>2 DEF Absent, TooLong
    <3> QED  BY <2>2, <3>1 DEF Fits
  <2>3. CASE w[k] = last /\ order[n] = k  BY <2>1, <2>3, LeftFits DEF order
  <2>4. CASE w[k] = values[k]  BY <2>1, <2>4, AcceptedFits
  <2> QED  BY <1>1, <2>2, <2>3, <2>4
<1> QED  BY <1>2, <1>3 DEF w

(* An empty one as well. *)
LEMMA EmptiedFits ==
    ASSUME NEW f \in Files
    PROVE  /\ OnKeys(f, Emptied(f)) /\ \A k \in KeysOf(f) : Emptied(f)[k] = Absent /\ Fits(f, k, Absent)
           /\ ~Overlong(f, Emptied(f))
<1>1. Absent # TooLong  BY DEF Absent, TooLong
<1>2. OnKeys(f, Emptied(f)) /\ \A k \in KeysOf(f) : Emptied(f)[k] = Absent  BY DEF OnKeys, Emptied
<1> QED  BY <1>1, <1>2 DEF Fits, Overlong

(* Writing everything writes every value. *)
LEMMA WrittenWhole ==
    ASSUME NEW f \in Files, NEW values, OnKeys(f, values)
    PROVE  Written(f, values, Len(WriteOrder(f)), values[WriteOrder(f)[Len(WriteOrder(f))]]) = values
<1> DEFINE order == WriteOrder(f)
           N == Len(order)
           w == Written(f, values, N, values[order[N]])
<1>1. w = [k \in KeysOf(f) |-> IF k \notin {order[i] : i \in 1 .. N} THEN Absent
                               ELSE IF order[N] = k THEN values[order[N]] ELSE values[k]]
      BY DEF Written
<1>2. \A k \in KeysOf(f) : \E i \in 1 .. N : order[i] = k  BY WriteCovers DEF Covers
<1> HIDE DEF w, order, N
<1>3. w = [k \in KeysOf(f) |-> values[k]]  BY <1>1, <1>2
<1> QED  BY <1>3 DEF OnKeys, w, order, N

(* What a program starts to read with. *)
LEMMA PreInitStartable ==
    ASSUME NEW f \in Files
    PROVE  Startable(f, PreInit(f))
<1>1. Accepted("BACKGROUND", "blue")
  <2>1. "BACKGROUND" \in ColourKeys  BY DEF ColourKeys
  <2> QED  BY <2>1, TakesText
<1>2. \A k \in {"CONNTRACK", "TC"} : Accepted(k, Blank)
  <2>1. {"CONNTRACK", "TC"} \subseteq PlainKeys  BY DEF PlainKeys
  <2> QED  BY <2>1, PlainTexts, TakesText
<1>3. PreInit(f) = [k \in KeysOf(f) |-> PreInit(f)[k]]
      /\ \A k \in KeysOf(f) : PreInit(f)[k] = IF k = "BACKGROUND" THEN "blue" ELSE Blank
      BY DEF PreInit
<1>4. ASSUME NEW k \in KeysOf(f), k \in KeptKeys  PROVE Accepted(k, PreInit(f)[k])
  <2>1. k \in {"CONNTRACK", "TC"} \/ k = "BACKGROUND"  BY <1>4 DEF KeptKeys
  <2>2. "CONNTRACK" # "BACKGROUND" /\ "TC" # "BACKGROUND"  OBVIOUS
  <2> QED  BY <1>1, <1>2, <1>3, <2>1, <2>2
<1> QED  BY <1>3, <1>4 DEF Startable, OnKeys

LEMMA DefaultsAccepted ==
    ASSUME NEW f \in Files
    PROVE  AllAccepted(f, Defaults(f))
<1>1. \A k \in KeysOf(f) : Fits(f, k, Emptied(f)[k])  BY EmptiedFits
<1> DEFINE r == ReadWhole(f, PreInit(f), Emptied(f))
<1>2. AllAccepted(f, r.values) \/ Overlong(f, Emptied(f))  BY <1>1, PreInitStartable, WholeAccepted
<1> QED  BY <1>2, EmptiedFits DEF Defaults

(* vuurmuur_conf reads both files, and stops at a value without quotes     *)
(* that does not fit.                                                      *)
LEMMA ToolReadsInv ==
    ASSUME ConfigInv, tool.writes = Idle, NEW before, \A f \in Files : Startable(f, before[f]),
           ToolReads(before)
    PROVE  ToolInv(tool', origin, meant)
<1> DEFINE main == ReadWhole(Main, before[Main], file[Main])
           own  == ReadWhole(Own, before[Own], file[Own])
           conf == [f \in Files |-> IF f = Main THEN main.values ELSE own.values]
<1>1. \A f \in Files : \A k \in KeysOf(f) : Fits(f, k, file[f][k])  BY DEF ConfigInv, FileInv
<1>2. AllAccepted(Main, main.values) \/ main.ret = EUnknown
  <2>1. Startable(Main, before[Main]) /\ \A k \in KeysOf(Main) : Fits(Main, k, file[Main][k])
        BY <1>1, MainIsNotOwn
  <2> QED  BY <2>1, MainIsNotOwn, WholeAccepted
<1>3. AllAccepted(Own, own.values)
  <2>1. Startable(Own, before[Own]) /\ \A k \in KeysOf(Own) : Fits(Own, k, file[Own][k])
        BY <1>1, MainIsNotOwn
  <2> QED  BY <2>1, MainIsNotOwn, WholeAccepted DEF Overlong
<1>4. \/ tool' = ToolOff
      \/ /\ main.ret # EUnknown
         /\ tool' = [tool EXCEPT !.state = IF main.ret = OK THEN "on" ELSE "asked",
                                 !.error = main.ret, !.conf = conf]
      BY DEF ToolReads
<1> HIDE DEF main, own
<1>5. DOMAIN conf = Files /\ conf[Main] = main.values /\ \A f \in Files : f # Main => conf[f] = own.values
      BY MainIsNotOwn
<1> HIDE DEF conf
<1>6. CASE tool' = ToolOff  BY <1>6, MainIsNotOwn DEF ToolOff, ToolInv, ToolFields
<1>7. CASE /\ main.ret # EUnknown
           /\ tool' = [tool EXCEPT !.state = IF main.ret = OK THEN "on" ELSE "asked",
                                   !.error = main.ret, !.conf = conf]
  <2> DEFINE t == tool'
  <2>1. DOMAIN tool = ToolFields  BY DEF ConfigInv, ToolInv
  <2>2. DOMAIN t = ToolFields /\ t.conf = conf /\ t.writes = Idle /\ t.state \in {"on", "asked"}
        BY <1>7, <2>1 DEF ToolFields
  <2> HIDE DEF t
  <2>3. \A f \in Files : AllAccepted(f, t.conf[f])  BY <1>2, <1>3, <1>5, <1>7, <2>2, MainIsNotOwn
  <2>4. ToolInv(t, origin, meant)  BY <1>5, <2>2, <2>3, MainIsNotOwn DEF ToolInv
  <2> QED  BY <2>4 DEF t
<1> QED  BY <1>4, <1>6, <1>7

(* The steps of the tool that touch no file. *)
LEMMA ToolStep ==
    ASSUME ConfigInv, StartTool \/ Answer \/ LeaveMenu \/ QuitTool \/ BreakOff
    PROVE  ToolInv(tool', origin, meant)
<1> USE DEF ConfigInv
<1>1. ToolInv(ToolOff, origin, meant)  BY MainIsNotOwn DEF ToolOff, ToolInv, ToolFields
<1>2. CASE StartTool
  <2>1. tool.writes = Idle  BY <1>2 DEF StartTool, ToolInv
  <2> DEFINE before == [f \in Files |-> PreInit(f)]
  <2>2. \A f \in Files : Startable(f, before[f])  BY PreInitStartable
  <2>3. ToolReads(before)  BY <1>2 DEF StartTool
  <2> HIDE DEF before
  <2> QED  BY <2>1, <2>2, <2>3, ToolReadsInv
<1>3. CASE LeaveMenu
  <2>1. tool.writes = Idle /\ ToolReads(tool.conf)  BY <1>3 DEF LeaveMenu
  <2>2. \A f \in Files : Startable(f, tool.conf[f])
        BY <1>3 DEF LeaveMenu, ToolInv, AllAccepted, Startable
  <2> QED  BY <2>1, <2>2, ToolReadsInv
<1>4. CASE Answer
  <2>1. tool' = ToolOff \/ tool' = [tool EXCEPT !.state = "on", !.error = OK]  BY <1>4 DEF Answer
  <2>2. CASE tool' = [tool EXCEPT !.state = "on", !.error = OK]
    <3> DEFINE t == tool'
    <3>1. DOMAIN tool = ToolFields /\ DOMAIN tool.conf = Files /\ tool.writes = Idle
          /\ \A f \in Files : AllAccepted(f, tool.conf[f])
          BY <1>4 DEF Answer, ToolInv
    <3>2. DOMAIN t = ToolFields /\ t.conf = tool.conf /\ t.writes = Idle /\ t.state = "on"
          BY <2>2, <3>1 DEF ToolFields
    <3> HIDE DEF t
    <3>3. ToolInv(t, origin, meant)  BY <3>1, <3>2, MainIsNotOwn DEF ToolInv
    <3> QED  BY <3>3 DEF t
  <2> QED  BY <1>1, <2>1, <2>2
<1>5. CASE QuitTool  BY <1>1, <1>5 DEF QuitTool
<1>6. CASE BreakOff
  <2>1. tool' = ToolOff \/ tool' = [tool EXCEPT !.writes = Idle]  BY <1>6 DEF BreakOff
  <2>2. CASE tool' = [tool EXCEPT !.writes = Idle]
    <3> DEFINE t == tool'
    <3>1. DOMAIN tool = ToolFields /\ DOMAIN tool.conf = Files
          /\ (tool.state \in {"on", "asked"} => \A f \in Files : AllAccepted(f, tool.conf[f]))
          BY DEF ToolInv
    <3>2. DOMAIN t = ToolFields /\ t.conf = tool.conf /\ t.writes = Idle /\ t.state = tool.state
          BY <2>2, <3>1 DEF ToolFields
    <3> HIDE DEF t
    <3>3. ToolInv(t, origin, meant)  BY <3>1, <3>2, MainIsNotOwn DEF ToolInv
    <3> QED  BY <3>3 DEF t
  <2> QED  BY <1>1, <2>1, <2>2
<1> QED  BY <1>2, <1>3, <1>4, <1>5, <1>6

(* Under a daemon that reads, a file that changes spoils the reading. *)
LEMMA NotCalmReading ==
    ASSUME BackendsInv, ReadingInv(daemon, file[Main]), NotCalm, NEW lines
    PROVE  ReadingInv(daemon', lines)
<1> DEFINE d == daemon'
<1>1. /\ d.state = daemon.state /\ d.new = daemon.new /\ d.at = daemon.at
      /\ d.calm = (daemon.state \notin {"reading", "loading"})
      BY DEF NotCalm, BackendsInv, DaemonInv, Fields
<1> HIDE DEF d
<1>2. ReadingInv(d, lines)  BY <1>1 DEF ReadingInv
<1> QED  BY <1>2 DEF d

(* One file gets other lines, from somewhere, and the other one stays. *)
LEMMA FileChanges ==
    ASSUME ConfigInv, BackendsInv, NEW f \in Files, NEW lines, NEW from, NEW values,
           FileInv(f, lines, from, values),
           file' = [file EXCEPT ![f] = lines], origin' = [origin EXCEPT ![f] = from],
           meant' = [meant EXCEPT ![f] = values],
           IF f = Main THEN NotCalm ELSE UNCHANGED daemon
    PROVE  /\ Shaped' /\ \A e \in Files : FileInv(e, file'[e], origin'[e], meant'[e])
           /\ ReadingInv(daemon', file'[Main])
<1>1. DOMAIN file = Files /\ DOMAIN origin = Files /\ DOMAIN meant = Files  BY DEF ConfigInv, Shaped
<1>2. Shaped'
  <2>1. file = [e \in Files |-> file[e]] /\ origin = [e \in Files |-> origin[e]]
        /\ meant = [e \in Files |-> meant[e]]
        BY DEF ConfigInv, Shaped
  <2> QED  BY <2>1 DEF Shaped
<1>3. ASSUME NEW e \in Files  PROVE FileInv(e, file'[e], origin'[e], meant'[e])
  <2>1. CASE e = f  BY <1>1, <2>1
  <2>2. CASE e # f
    <3>1. file'[e] = file[e] /\ origin'[e] = origin[e] /\ meant'[e] = meant[e]  BY <1>1, <2>2
    <3> QED  BY <3>1 DEF ConfigInv
  <2> QED  BY <2>1, <2>2
<1>4. ReadingInv(daemon', file'[Main])
  <2>1. CASE f = Main  BY <2>1, NotCalmReading DEF ConfigInv
  <2>2. CASE f # Main
    <3>1. file'[Main] = file[Main] /\ daemon' = daemon  BY <1>1, <2>2, MainIsNotOwn
    <3> QED  BY <3>1 DEF ConfigInv
  <2> QED  BY <2>1, <2>2
<1> QED  BY <1>2, <1>3, <1>4

LEMMA EditFormInv ==
    ASSUME ConfigInv, BackendsInv, NEW form \in Forms, EditForm(form)
    PROVE  ConfigInv'
<1> DEFINE f == IF form = OwnForm THEN Own ELSE Main
           fields == form \cap Keys
<1>1. f \in Files /\ tool.writes = Idle /\ tool.state \in {"on", "asked"}
      BY MainIsNotOwn DEF EditForm
<1>2. PICK typed \in [fields -> UNION {Inputs[k] : k \in fields} \cup {Untouched}] :
         LET touched == {k \in fields : typed[k] # Untouched}
             values  == [k \in KeysOf(f) |->
                           IF k \in touched THEN SaveField(SettingOf(k), tool.conf[f][k], typed[k])
                           ELSE tool.conf[f][k]]
         IN  /\ \A k \in touched : typed[k] \in Inputs[k]
             /\ IF \A k \in touched : SaveSucceeds(SettingOf(k), typed[k])
                THEN /\ tool' = [tool EXCEPT !.conf[f] = values, !.writes = f]
                     /\ file' = [file EXCEPT ![f] = Emptied(f)]
                     /\ origin' = [origin EXCEPT ![f] = "cut"]
                     /\ meant' = [meant EXCEPT ![f] = values]
                     /\ IF f = Main THEN NotCalm ELSE UNCHANGED daemon
                ELSE /\ tool' = [tool EXCEPT !.conf[f] = values]
                     /\ UNCHANGED << file, origin, meant, daemon >>
      BY DEF EditForm
<1> DEFINE touched == {k \in fields : typed[k] # Untouched}
           values  == [k \in KeysOf(f) |->
                         IF k \in touched THEN SaveField(SettingOf(k), tool.conf[f][k], typed[k])
                         ELSE tool.conf[f][k]]
<1>3. \A k \in touched : k \in form /\ k \in Keys /\ typed[k] \in Inputs[k]  BY <1>2
<1>4. \/ /\ tool' = [tool EXCEPT !.conf[f] = values, !.writes = f]
         /\ file' = [file EXCEPT ![f] = Emptied(f)]
         /\ origin' = [origin EXCEPT ![f] = "cut"]
         /\ meant' = [meant EXCEPT ![f] = values]
         /\ IF f = Main THEN NotCalm ELSE UNCHANGED daemon
      \/ /\ tool' = [tool EXCEPT !.conf[f] = values]
         /\ UNCHANGED << file, origin, meant, daemon >>
      BY <1>2
<1> HIDE DEF touched, f, fields
<1>5. AllAccepted(f, tool.conf[f])  BY <1>1 DEF ConfigInv, ToolInv
<1>6. AllAccepted(f, values)
  <2>1. ASSUME NEW k \in KeysOf(f)  PROVE Accepted(k, values[k])
    <3>1. Accepted(k, tool.conf[f][k])  BY <1>5 DEF AllAccepted
    <3>2. CASE k \in touched
      <4>1. values[k] = SaveField(SettingOf(k), tool.conf[f][k], typed[k])  BY <3>2
      <4>2. SettingOf(k).key = k /\ KindByKey(SettingOf(k))  BY <1>1, SettingOfKey
      <4>3. k \notin FileKeys  BY <1>3, <3>2, FormsFacts
      <4>4. typed[k] # Absent /\ typed[k] # TooLong  BY <1>3, <3>2, InputsAssumption
      <4> HIDE DEF values
      <4> QED  BY <3>1, <4>1, <4>2, <4>3, <4>4, SavedAccepted
    <3>3. CASE k \notin touched  BY <3>1, <3>3
    <3> QED  BY <3>2, <3>3
  <2>2. OnKeys(f, values)  BY DEF OnKeys
  <2> HIDE DEF values
  <2> QED  BY <2>1, <2>2 DEF AllAccepted
<1> HIDE DEF values
<1>7. /\ DOMAIN tool = ToolFields /\ DOMAIN tool.conf = Files
      /\ \A e \in Files : AllAccepted(e, tool.conf[e])
      BY <1>1 DEF ConfigInv, ToolInv
<1> DEFINE conf == [tool.conf EXCEPT ![f] = values]
           t == tool'
<1>8. DOMAIN conf = Files /\ conf[f] = values /\ \A e \in Files : AllAccepted(e, conf[e])
      BY <1>1, <1>6, <1>7
<1>9. CASE /\ tool' = [tool EXCEPT !.conf[f] = values, !.writes = f]
           /\ file' = [file EXCEPT ![f] = Emptied(f)]
           /\ origin' = [origin EXCEPT ![f] = "cut"]
           /\ meant' = [meant EXCEPT ![f] = values]
           /\ IF f = Main THEN NotCalm ELSE UNCHANGED daemon
  <2>1. FileInv(f, Emptied(f), "cut", values)
        BY <1>1, <1>6, EmptiedFits DEF FileInv, Beginning
  <2>2. /\ Shaped' /\ \A e \in Files : FileInv(e, file'[e], origin'[e], meant'[e])
        /\ ReadingInv(daemon', file'[Main])
        BY <1>1, <1>9, <2>1, FileChanges
  <2>3. DOMAIN t = ToolFields /\ t.conf = conf /\ t.writes = f /\ t.state = tool.state
        BY <1>7, <1>9 DEF ToolFields
  <2>4. meant'[f] = values /\ origin'[f] = "cut"  BY <1>1, <1>9 DEF ConfigInv, Shaped
  <2> HIDE DEF t, conf
  <2>5. ToolInv(t, origin', meant')  BY <1>1, <1>8, <2>3, <2>4 DEF ToolInv
  <2> QED  BY <2>2, <2>5 DEF ConfigInv, t
<1>10. CASE /\ tool' = [tool EXCEPT !.conf[f] = values]
            /\ UNCHANGED << file, origin, meant, daemon >>
  <2>1. DOMAIN t = ToolFields /\ t.conf = conf /\ t.writes = Idle /\ t.state = tool.state
        BY <1>1, <1>7, <1>10 DEF ToolFields
  <2> HIDE DEF t, conf
  <2>2. ToolInv(t, origin, meant)  BY <1>1, <1>8, <2>1, MainIsNotOwn DEF ToolInv
  <2> QED  BY <1>10, <2>2 DEF ConfigInv, Shaped, t
<1> QED  BY <1>4, <1>9, <1>10

LEMMA FlushInv ==
    ASSUME ConfigInv, BackendsInv, Flush
    PROVE  ConfigInv'
<1> DEFINE f == tool.writes
           order == WriteOrder(f)
<1>1. PICK n \in 1 .. Len(order) : \E last \in Left(tool.conf[f][order[n]]) :
         file' = [file EXCEPT ![f] = Written(f, tool.conf[f], n, last)]
      BY DEF Flush
<1>2. PICK last \in Left(tool.conf[f][order[n]]) :
         file' = [file EXCEPT ![f] = Written(f, tool.conf[f], n, last)]
      BY <1>1
<1>3. f \in Files /\ tool.conf[f] = meant[f] /\ origin[f] = "cut"
      BY DEF Flush, ConfigInv, ToolInv
<1>4. /\ origin' = origin /\ meant' = meant /\ tool' = tool
      /\ IF f = Main THEN NotCalm ELSE UNCHANGED daemon
      BY DEF Flush
<1>5. AllAccepted(f, meant[f])  BY <1>3 DEF ConfigInv, FileInv
<1> HIDE DEF f, order
<1> DEFINE lines == Written(f, meant[f], n, last)
<1>6. last \in Left(meant[f][order[n]]) /\ file' = [file EXCEPT ![f] = lines]  BY <1>2, <1>3
<1>7. Beginning(f, lines, meant[f])  BY <1>6 DEF Beginning, order
<1>8. OnKeys(f, lines) /\ \A k \in KeysOf(f) : Fits(f, k, lines[k])
      BY <1>3, <1>5, <1>6, WrittenFits DEF order
<1> HIDE DEF lines
<1>9. FileInv(f, lines, "cut", meant[f])  BY <1>5, <1>7, <1>8 DEF FileInv
<1>10. origin' = [origin EXCEPT ![f] = "cut"] /\ meant' = [meant EXCEPT ![f] = meant[f]]
  <2>1. origin = [e \in Files |-> origin[e]] /\ meant = [e \in Files |-> meant[e]]
        BY DEF ConfigInv, Shaped
  <2> QED  BY <1>3, <1>4, <2>1
<1>11. file' = [file EXCEPT ![f] = lines] /\ IF f = Main THEN NotCalm ELSE UNCHANGED daemon
       BY <1>4, <1>6
<1>12. /\ Shaped' /\ \A e \in Files : FileInv(e, file'[e], origin'[e], meant'[e])
       /\ ReadingInv(daemon', file'[Main])
       BY <1>3, <1>9, <1>10, <1>11, FileChanges
<1> QED  BY <1>4, <1>12 DEF ConfigInv

LEMMA FinishInv ==
    ASSUME ConfigInv, BackendsInv, FinishWriting
    PROVE  ConfigInv'
<1> DEFINE f == tool.writes
           order == WriteOrder(f)
<1>1. /\ file' = [file EXCEPT ![f] = Written(f, tool.conf[f], Len(order), tool.conf[f][order[Len(order)]])]
      /\ origin' = [origin EXCEPT ![f] = "saved"] /\ meant' = meant
      /\ tool' = [tool EXCEPT !.writes = Idle]
      /\ IF f = Main THEN NotCalm ELSE UNCHANGED daemon
      BY DEF FinishWriting
<1>2. f \in Files /\ tool.conf[f] = meant[f]  BY DEF FinishWriting, ConfigInv, ToolInv
<1>3. AllAccepted(f, meant[f])  BY <1>2 DEF ConfigInv, FileInv
<1> HIDE DEF f
<1>4. file' = [file EXCEPT ![f] = meant[f]]  BY <1>1, <1>2, <1>3, WrittenWhole DEF AllAccepted
<1>5. FileInv(f, meant[f], "saved", meant[f])
      BY <1>2, <1>3, AcceptedFits DEF FileInv, AllAccepted
<1>6. meant' = [meant EXCEPT ![f] = meant[f]]
  <2>1. meant = [e \in Files |-> meant[e]]  BY DEF ConfigInv, Shaped
  <2> QED  BY <1>1, <2>1
<1>7. /\ Shaped' /\ \A e \in Files : FileInv(e, file'[e], origin'[e], meant'[e])
      /\ ReadingInv(daemon', file'[Main])
      BY <1>1, <1>2, <1>4, <1>5, <1>6, FileChanges
<1> DEFINE t == tool'
<1>8. DOMAIN tool = ToolFields /\ DOMAIN tool.conf = Files
      /\ (tool.state \in {"on", "asked"} => \A e \in Files : AllAccepted(e, tool.conf[e]))
      BY DEF ConfigInv, ToolInv
<1>9. DOMAIN t = ToolFields /\ t.conf = tool.conf /\ t.writes = Idle /\ t.state = tool.state
      BY <1>1, <1>8 DEF ToolFields
<1> HIDE DEF t
<1>10. ToolInv(t, origin', meant')  BY <1>8, <1>9, MainIsNotOwn DEF ToolInv
<1> QED  BY <1>7, <1>10 DEF ConfigInv, t

LEMMA EditByHandInv ==
    ASSUME ConfigInv, BackendsInv, EditByHand
    PROVE  ConfigInv'
<1>1. PICK line \in ByHand : file' = [file EXCEPT ![Main][line[1]] = line[2]]  BY DEF EditByHand
<1> DEFINE lines == [file[Main] EXCEPT ![line[1]] = line[2]]
<1>2. /\ file' = [file EXCEPT ![Main] = lines]
      /\ origin' = [origin EXCEPT ![Main] = "hand"] /\ meant' = meant /\ tool' = tool
      /\ tool.writes = Idle /\ NotCalm
      BY <1>1 DEF EditByHand
<1>3. OnKeys(Main, file[Main]) /\ AllAccepted(Main, meant[Main])
      /\ \A k \in KeysOf(Main) : Fits(Main, k, file[Main][k])
      BY MainIsNotOwn DEF ConfigInv, FileInv
<1>4. DOMAIN file[Main] = KeysOf(Main)
  <2> DEFINE was == file[Main]
  <2>1. was = [k \in KeysOf(Main) |-> was[k]]  BY <1>3 DEF OnKeys
  <2> HIDE DEF was
  <2>2. DOMAIN was = KeysOf(Main)  BY <2>1
  <2> QED  BY <2>2 DEF was
<1>5. OnKeys(Main, lines)
      /\ \A k \in KeysOf(Main) : lines[k] = IF k = line[1] THEN line[2] ELSE file[Main][k]
      BY <1>4 DEF OnKeys
<1> HIDE DEF lines
<1>6. ASSUME NEW k \in KeysOf(Main)  PROVE Fits(Main, k, lines[k])
  <2>1. CASE k = line[1]
    <3>1. lines[k] = line[2]  BY <1>5, <2>1
    <3>2. k \in FileKeys /\ line[2] \notin {Blank, Absent, TooLong} =>
             line[2] \in FullPath \/ Beside(line[2]) \in FullPath
          BY <2>1, InputsAssumption DEF FileKeys
    <3> QED  BY <3>1, <3>2, MainIsNotOwn DEF Fits
  <2>2. CASE k # line[1]  BY <1>3, <1>5, <2>2
  <2> QED  BY <2>1, <2>2
<1>7. FileInv(Main, lines, "hand", meant[Main])  BY <1>3, <1>5, <1>6 DEF FileInv
<1>8. meant' = [meant EXCEPT ![Main] = meant[Main]]
  <2>1. meant = [e \in Files |-> meant[e]]  BY DEF ConfigInv, Shaped
  <2> QED  BY <1>2, <2>1
<1>9. /\ Shaped' /\ \A e \in Files : FileInv(e, file'[e], origin'[e], meant'[e])
      /\ ReadingInv(daemon', file'[Main])
      BY <1>2, <1>7, <1>8, FileChanges, MainIsNotOwn
<1>10. ToolInv(tool', origin', meant')  BY <1>2, MainIsNotOwn DEF ConfigInv, ToolInv
<1> QED  BY <1>9, <1>10 DEF ConfigInv

(* The daemon begins to read, reads one setting, and takes what it read.   *)
LEMMA BeginReadingFacts ==
    ASSUME NEW level
    PROVE  IsReading(Main, BeginReading(level)) /\ ~BeginReading(level).returned
<1> DEFINE begun == Begun(PreInit(Main))
           values == IF "LOGLEVEL" \in Keys THEN [begun.values EXCEPT !["LOGLEVEL"] = level] ELSE begun.values
           r == BeginReading(level)
<1>1. r = [begun EXCEPT !.values = values]  BY DEF BeginReading
<1>2. DOMAIN begun = ReadingFields /\ begun.values = PreInit(Main) /\ begun.returned = FALSE
      BY DEF Begun, ReadingFields
<1>3. OnKeys(Main, PreInit(Main))  BY DEF PreInit, OnKeys
<1>4. OnKeys(Main, values)
  <2>1. PICK was : was = PreInit(Main)  OBVIOUS
  <2>2. was = [k \in KeysOf(Main) |-> was[k]]  BY <1>3, <2>1 DEF OnKeys
  <2>3. OnKeys(Main, was) /\ OnKeys(Main, [was EXCEPT !["LOGLEVEL"] = level])  BY <2>2 DEF OnKeys
  <2>4. values = was \/ values = [was EXCEPT !["LOGLEVEL"] = level]  BY <1>2, <2>1
  <2> HIDE DEF values
  <2> QED  BY <2>3, <2>4
<1> HIDE DEF begun, values, r
<1>5. DOMAIN r = ReadingFields /\ r.values = values /\ r.returned = FALSE  BY <1>1, <1>2 DEF ReadingFields
<1> QED  BY <1>4, <1>5 DEF IsReading, r

LEMMA NothingRead ==
    ASSUME NEW d, NEW level, NEW lines, d.new = BeginReading(level), d.at = 1, d.state = "reading"
    PROVE  ReadingInv(d, lines)
<1>1. Len(ReadOrder(Main)) \in Nat  BY OrderRows, MainIsNotOwn
<1>2. d.at \in 1 .. Len(ReadOrder(Main)) + 1 /\ 1 .. d.at - 1 = {}  BY <1>1
<1>3. QuietSoFar(d.new, d.at - 1, d.level, lines)
      BY <1>2, BeginReadingFacts DEF QuietSoFar
<1> QED  BY <1>2, <1>3, BeginReadingFacts DEF ReadingInv

LEMMA DownReads == \A lines : ReadingInv(Down, lines)
<1>1. Down.state = "down"  BY DEF Down
<1> QED  BY <1>1 DEF ReadingInv

LEMMA FailedReads ==
    ASSUME NEW d, DOMAIN d = Fields, NEW lines, NEW last
    PROVE  ReadingInv(Failed(d), lines) /\ ReadingInv(Done(d, last), lines)
<1> DEFINE r(what) == Done(d, what)
<1>1. \A what : r(what).state = "up"  BY DEF Done, Fields
<1> HIDE DEF r
<1>2. \A what : ReadingInv(r(what), lines)  BY <1>1 DEF ReadingInv
<1> QED  BY <1>2, DownReads DEF Failed, r

LEMMA ReadNextReads ==
    ASSUME ConfigInv, BackendsInv, ReadNext
    PROVE  ReadingInv(daemon', file[Main])
<1> DEFINE d == daemon'
           N == Len(ReadOrder(Main))
           at == daemon.at
           r == daemon.new
           lines == file[Main]
           q == ReadSetting(r, ReadOrder(Main)[at], lines, daemon.level)
<1>1. /\ daemon.state = "reading" /\ at <= N /\ ~r.returned
      /\ daemon' = [daemon EXCEPT !.at = at + 1, !.new = q]
      BY DEF ReadNext
<1>2. DOMAIN daemon = Fields  BY DEF BackendsInv, DaemonInv
<1>3. /\ d.state = "reading" /\ d.at = at + 1 /\ d.new = q
      /\ d.level = daemon.level /\ d.calm = daemon.calm
  <2> HIDE DEF q
  <2> QED  BY <1>1, <1>2 DEF Fields
<1>4. /\ IsReading(Main, r) /\ at \in 1 .. N + 1
      /\ (daemon.calm /\ r.ret = OK) => QuietSoFar(r, at - 1, daemon.level, lines)
      BY <1>1 DEF ConfigInv, ReadingInv
<1>5. N \in Nat /\ ReadOrder(Main)[at] \in Rows(Main) /\ ReadOrder(Main)[at].key \in KeysOf(Main)
  <2>1. N \in Nat /\ \A i \in 1 .. N : ReadOrder(Main)[i] \in Rows(Main) /\ ReadOrder(Main)[i].key \in KeysOf(Main)
        BY OrderRows, MainIsNotOwn
  <2>2. at \in 1 .. N  BY <1>1, <1>4, <2>1
  <2> QED  BY <2>1, <2>2
<1>6. PICK n : n = at - 1  OBVIOUS
<1>7. n \in Nat /\ n + 1 = at /\ n + 1 \in 1 .. N /\ at + 1 \in 1 .. N + 1 /\ d.at - 1 = n + 1
      BY <1>1, <1>3, <1>4, <1>5, <1>6
<1>8. q = ReadSetting(r, ReadOrder(Main)[n + 1], lines, daemon.level)  BY <1>7
<1> HIDE DEF d, N, at, r, lines, q
<1>9. IsReading(Main, q)
  <2>1. PICK s : s = ReadOrder(Main)[at]  OBVIOUS
  <2>2. PICK t : t = lines[s.key]  OBVIOUS
  <2>3. PICK taken : taken = ReadLine(s, t, r.values[s.key])  OBVIOUS
  <2>4. q = ReadSetting(r, s, lines, daemon.level)  BY <1>7, <1>8, <2>1
  <2>5. /\ IsReading(Main, q)
        /\ (~r.returned /\ ~(s.key = "LOGLEVEL" /\ daemon.level) /\ t # TooLong) =>
              q.values = [r.values EXCEPT ![s.key] = taken.value]
        BY <1>4, <1>5, <2>1, <2>2, <2>3, <2>4, MainIsNotOwn, ReadSettingStep
  <2> QED  BY <2>5
<1>10. ASSUME daemon.calm, q.ret = OK  PROVE QuietSoFar(q, n + 1, daemon.level, lines)
  <2>1. r.ret = OK => QuietSoFar(r, n, daemon.level, lines)  BY <1>4, <1>6, <1>10
  <2>2. n \in Nat /\ n + 1 \in 1 .. Len(ReadOrder(Main)) /\ ~r.returned  BY <1>1, <1>7 DEF N
  <2> QED  BY <1>4, <1>8, <1>10, <2>1, <2>2, QuietStep
<1>11. ReadingInv(d, lines)  BY <1>3, <1>7, <1>9, <1>10 DEF ReadingInv, N
<1> QED  BY <1>11 DEF d, lines

LEMMA TakeConfigReads ==
    ASSUME ConfigInv, BackendsInv, TakeConfig
    PROVE  ReadingInv(daemon', file[Main])
<1> DEFINE d == daemon'
           N == Len(ReadOrder(Main))
           lines == file[Main]
<1>1. /\ daemon.state = "reading" /\ (daemon.at > N \/ daemon.new.returned)
      /\ daemon' = IF daemon.new.ret >= OK
                   THEN [daemon EXCEPT !.state = "loading", !.conf = daemon.new]
                   ELSE IF daemon.starting THEN Down
                   ELSE [daemon EXCEPT !.state = "loading"]
      BY DEF TakeConfig
<1>2. DOMAIN daemon = Fields  BY DEF BackendsInv, DaemonInv
<1>3. /\ IsReading(Main, daemon.new) /\ daemon.at \in 1 .. N + 1
      /\ (daemon.calm /\ daemon.new.ret = OK) => QuietSoFar(daemon.new, daemon.at - 1, daemon.level, lines)
      BY <1>1 DEF ConfigInv, ReadingInv
<1>4. N \in Nat  BY OrderRows, MainIsNotOwn
<1>5. CASE daemon' = Down  BY <1>5, DownReads
<1>6. CASE \/ daemon' = [daemon EXCEPT !.state = "loading", !.conf = daemon.new]
           \/ daemon' = [daemon EXCEPT !.state = "loading"] /\ ~(daemon.new.ret >= OK)
  <2>1. /\ d.state = "loading" /\ d.at = daemon.at /\ d.new = daemon.new
        /\ d.level = daemon.level /\ d.calm = daemon.calm
        /\ daemon.new.ret >= OK => d.conf = daemon.new
        BY <1>2, <1>6 DEF Fields
  <2>2. OK >= OK  BY DEF OK
  <2> HIDE DEF d, N
  <2>3. (daemon.calm /\ daemon.new.ret = OK) => d.conf = d.new /\ daemon.at = N + 1
    <3>1. SUFFICES ASSUME daemon.calm, daemon.new.ret = OK  PROVE d.conf = d.new /\ daemon.at = N + 1
          OBVIOUS
    <3>2. ~daemon.new.returned  BY <1>3, <3>1 DEF QuietSoFar
    <3>3. daemon.at = N + 1  BY <1>1, <1>3, <1>4, <3>2
    <3> QED  BY <2>1, <2>2, <3>1, <3>3
  <2>4. ReadingInv(d, lines)  BY <1>3, <2>1, <2>3 DEF ReadingInv, N
  <2> QED  BY <2>4 DEF d
<1> QED  BY <1>1, <1>5, <1>6

LEMMA BeginReloadReads ==
    ASSUME BackendsInv, BeginReload, NEW lines
    PROVE  ReadingInv(daemon', lines)
<1> DEFINE names == Names(daemon.conf.values)
           g == UnloadBackends(names, daemon.backends)
           d == [daemon EXCEPT !.backends = g.b]
           e == [d EXCEPT !.state = "reading", !.at = 1, !.calm = TRUE, !.new = BeginReading(Blank)]
<1>1. daemon' = CASE g.went = "on" -> e [] g.went = "failed" -> Failed(d) [] g.went = "crashed" -> Down
      BY DEF BeginReload
<1>2. g.went \in {"on", "failed", "crashed"}
  <2>1. \A g1, c : g1.went \in {"on", "failed", "crashed"} =>
                      UnloadCategory(names, g1, c).went \in {"on", "failed", "crashed"}
        BY DEF UnloadCategory, Going
  <2>2. Going(daemon.backends).went = "on"  BY DEF Going
  <2> QED  BY <2>1, <2>2 DEF g, UnloadBackends
<1> HIDE DEF g
<1>3. DOMAIN daemon = Fields  BY DEF BackendsInv, DaemonInv
<1>4. DOMAIN d = Fields  BY <1>3 DEF Fields
<1> HIDE DEF d
<1>5. e.state = "reading" /\ e.at = 1 /\ e.new = BeginReading(Blank)  BY <1>4 DEF Fields
<1> HIDE DEF e
<1>6. ReadingInv(e, lines)  BY <1>5, NothingRead
<1>7. ReadingInv(Failed(d), lines)  BY <1>4, FailedReads
<1>8. CASE g.went = "on"  BY <1>1, <1>6, <1>8
<1>9. CASE g.went = "failed"  BY <1>1, <1>7, <1>9
<1>10. CASE g.went = "crashed"  BY <1>1, <1>10, DownReads
<1> QED  BY <1>2, <1>8, <1>9, <1>10

LEMMA DaemonReads ==
    ASSUME ConfigInv, BackendsInv,
           StartDaemon \/ BeginReload \/ ReadNext \/ TakeConfig \/ OpenBackends \/ StopDaemon
    PROVE  ReadingInv(daemon', file[Main])
<1>1. CASE StartDaemon
  <2>1. PICK level \in Levels, stays \in BOOLEAN :
           daemon' = [Down EXCEPT !.state = "reading", !.stays = stays, !.level = level # Blank,
                                  !.new = BeginReading(level)]
        BY <1>1 DEF StartDaemon
  <2> DEFINE d == daemon'
  <2>2. Down.at = 1  BY DEF Down
  <2>3. d.state = "reading" /\ d.at = 1 /\ d.new = BeginReading(level)
        BY <2>1, <2>2, DownInv DEF Fields
  <2> HIDE DEF d
  <2>4. ReadingInv(d, file[Main])  BY <2>3, NothingRead
  <2> QED  BY <2>4 DEF d
<1>2. CASE BeginReload  BY <1>2, BeginReloadReads
<1>3. CASE ReadNext  BY <1>3, ReadNextReads
<1>4. CASE TakeConfig  BY <1>4, TakeConfigReads
<1>5. CASE OpenBackends
  <2> DEFINE g == LoadBackends(world, Names(daemon.conf.values), daemon.backends)
             d == [daemon EXCEPT !.backends = g.b]
             e == [d EXCEPT !.starting = FALSE]
  <2>1. daemon' = IF g.went = "on" THEN Done(e, "ok") ELSE Failed(d)  BY <1>5 DEF OpenBackends
  <2> HIDE DEF g
  <2>2. DOMAIN daemon = Fields  BY DEF BackendsInv, DaemonInv
  <2>3. DOMAIN d = Fields  BY <2>2 DEF Fields
  <2>4. DOMAIN e = Fields  BY <2>3 DEF Fields
  <2> HIDE DEF d, e
  <2> QED  BY <2>1, <2>3, <2>4, FailedReads
<1>6. CASE StopDaemon  BY <1>6, DownReads DEF StopDaemon
<1> QED  BY <1>1, <1>2, <1>3, <1>4, <1>5, <1>6

-----------------------------------------------------------------------------
LEMMA InitConfig == Init => ConfigInv
<1> SUFFICES ASSUME Init  PROVE ConfigInv
    OBVIOUS
<1>1. /\ meant = [f \in Files |-> Defaults(f)] /\ file = meant
      /\ origin = [f \in Files |-> "saved"] /\ tool = ToolOff
      BY DEF Init
<1>2. Shaped  BY <1>1 DEF Shaped
<1>3. ASSUME NEW f \in Files  PROVE FileInv(f, file[f], origin[f], meant[f])
  <2>1. file[f] = meant[f] /\ origin[f] = "saved" /\ AllAccepted(f, meant[f])
        BY <1>1, DefaultsAccepted
  <2> QED  BY <2>1, AcceptedFits DEF FileInv, AllAccepted
<1>4. ToolInv(tool, origin, meant)  BY <1>1, MainIsNotOwn DEF ToolOff, ToolInv, ToolFields
<1>5. ReadingInv(daemon, file[Main])
  <2>1. ASSUME NEW level, NEW stays  PROVE ReadingInv(Running(level, stays), file[Main])
    <3> DEFINE conf == ReadAll(BeginReading(level), Main, Defaults(Main), level # Blank)
               g == LoadBackends(Well, Names(conf.values), NoBackends)
               d == [Down EXCEPT !.stays = stays, !.level = level # Blank, !.starting = FALSE,
                                 !.conf = conf, !.backends = g.b]
    <3>1. Running(level, stays) = IF g.went = "on" THEN Done(d, "ok") ELSE Down  BY DEF Running
    <3> HIDE DEF conf, g
    <3>2. DOMAIN d = Fields  BY DownInv DEF Fields
    <3> HIDE DEF d
    <3> QED  BY <3>1, <3>2, FailedReads, DownReads
  <2> QED  BY <2>1, DownReads DEF Init
<1> QED  BY <1>2, <1>3, <1>4, <1>5 DEF ConfigInv

LEMMA NextConfig == BackendsInv /\ ConfigInv /\ [Next]_vars => ConfigInv'
<1> SUFFICES ASSUME BackendsInv, ConfigInv, [Next]_vars  PROVE ConfigInv'
    OBVIOUS
<1>1. ASSUME UNCHANGED << file, origin, meant >>, ToolInv(tool', origin, meant),
             ReadingInv(daemon', file[Main])
      PROVE  ConfigInv'
      BY <1>1 DEF ConfigInv, Shaped
<1>2. ToolInv(tool, origin, meant) /\ ReadingInv(daemon, file[Main])  BY DEF ConfigInv
<1>3. CASE StartTool \/ Answer \/ LeaveMenu \/ QuitTool \/ BreakOff
  <2>1. UNCHANGED << file, origin, meant, daemon >>
        BY <1>3 DEF StartTool, Answer, LeaveMenu, QuitTool, BreakOff
  <2> QED  BY <1>1, <1>2, <1>3, <2>1, ToolStep
<1>4. ASSUME NEW form \in Forms, EditForm(form)  PROVE ConfigInv'
      BY <1>4, EditFormInv
<1>5. CASE Flush  BY <1>5, FlushInv
<1>6. CASE FinishWriting  BY <1>6, FinishInv
<1>7. CASE EditByHand  BY <1>7, EditByHandInv
<1>8. CASE WorldChanges \/ UNCHANGED vars
  <2>1. UNCHANGED << file, origin, meant, tool, daemon >>  BY <1>8 DEF WorldChanges, vars
  <2> QED  BY <1>1, <1>2, <2>1
<1>9. CASE StartDaemon \/ BeginReload \/ ReadNext \/ TakeConfig \/ OpenBackends \/ StopDaemon
  <2>1. UNCHANGED << file, origin, meant, tool >>
        BY <1>9 DEF StartDaemon, BeginReload, ReadNext, TakeConfig, OpenBackends, StopDaemon
  <2> QED  BY <1>1, <1>2, <1>9, <2>1, DaemonReads
<1> QED  BY <1>3, <1>4, <1>5, <1>6, <1>7, <1>8, <1>9 DEF Next

LEMMA ConfigInvariant == Spec => []ConfigInv
BY InitConfig, NextConfig, BackendsInvariant, PTL DEF Spec

-----------------------------------------------------------------------------
LEMMA AcceptedReadBack == ConfigInv => SavedIsAccepted
<1> SUFFICES ASSUME ConfigInv, NEW f \in Files, origin[f] = "saved"
             PROVE  LET r == ReadWhole(f, PreInit(f), file[f])
                    IN  /\ r.values = meant[f]
                        /\ r.ret # OK => \E k \in KeysOf(f) : \/ SettingOf(k).kind = "plugin" /\ meant[f][k] = Blank
                                                              \/ meant[f][k] \in BadDirs \cup BadLogs
    BY DEF SavedIsAccepted
<1> DEFINE r == ReadWhole(f, PreInit(f), file[f])
<1>1. AllAccepted(f, meant[f]) /\ file[f] = meant[f]  BY DEF ConfigInv, FileInv
<1>2. OnKeys(f, PreInit(f))  BY PreInitStartable DEF Startable
<1>3. r.values = meant[f] /\ (r.ret # OK => Unusable(f, meant[f]))  BY <1>1, <1>2, WholeSame
<1>4. ASSUME Unusable(f, meant[f])
      PROVE  \E k \in KeysOf(f) : \/ SettingOf(k).kind = "plugin" /\ meant[f][k] = Blank
                                  \/ meant[f][k] \in BadDirs \cup BadLogs
      BY <1>4, SettingOfKey DEF Unusable, KindByKey
<1> QED  BY <1>3, <1>4

(* Whatever is written in the files when vuurmuur_conf starts and in       *)
(* whatever form a setting is changed, init_config and init_vcconfig read  *)
(* what it saved as it was saved, and warn only of a plugin without a name *)
(* or a log directory that cannot be used.                                 *)
THEOREM ReadBackTheorem == Spec => []SavedIsAccepted
BY AcceptedReadBack, ConfigInvariant, PTL

(* A file that was cut is read without a code only if nothing is missing:  *)
(* the last setting of the file has no default that nobody is told of, and *)
(* what may be left of its value is no word for yes or no.                 *)
LEMMA QuietIsWhole ==
    ASSUME Echo \in Keys, NEW lines, NEW values, AllAccepted(Main, values),
           Beginning(Main, lines, values), NEW v, ReadsAs(Echo, lines[Echo], v)
    PROVE  lines = values
<1> DEFINE order == WriteOrder(Main)
           N == Len(order)
<1>1. Echo \in KeysOf(Main)  BY EndsAreRead
<1>2. lines[Echo] \in {"yes", "Yes", "no", "No"}
  <2>1. PICK i \in 1 .. Len(ReadOrder(Main)) :
           /\ ReadOrder(Main)[i].key = Echo
           /\ \E before : ReadLine(ReadOrder(Main)[i], lines[Echo], before).code = OK
        BY DEF ReadsAs
  <2>2. ReadOrder(Main)[i] \in Rows(Main)  BY OrderRows, MainIsNotOwn
  <2> QED  BY <2>1, <2>2, EchoRead
<1>3. lines[Echo] # Absent  BY <1>2 DEF Absent
<1>4. PICK n \in 1 .. N : \E last \in Left(values[order[n]]) : lines = Written(Main, values, n, last)
  <2>1. lines # Emptied(Main)  BY <1>1, <1>3, EmptiedFits, MainIsNotOwn
  <2> QED  BY <2>1 DEF Beginning
<1>5. PICK last \in Left(values[order[n]]) : lines = Written(Main, values, n, last)  BY <1>4
<1>6. lines[Echo] = IF Echo \notin {order[i] : i \in 1 .. n} THEN Absent
                    ELSE IF order[n] = Echo THEN last ELSE values[Echo]
      BY <1>1, <1>5 DEF Written
<1>7. n = N /\ order[N] = Echo
  <2>1. PICK i \in 1 .. n : order[i] = Echo  BY <1>3, <1>6
  <2>2. N \in Nat /\ order[N] = Echo /\ \A j \in 1 .. N : order[j] = Echo => j = N
        BY EchoIsLast, WriteCovers, MainIsNotOwn
  <2> HIDE DEF N, order
  <2>3. i \in 1 .. N  BY <2>1, <2>2
  <2>4. i = N  BY <2>1, <2>2, <2>3
  <2> QED  BY <2>1, <2>2, <2>4
<1>8. lines[Echo] = last  BY <1>3, <1>6, <1>7
<1>9. values[Echo] \in {"Yes", "No"}
  <2>1. Echo \in YesNoKeys  BY DEF Echo, YesNoKeys
  <2> QED  BY <1>1, <2>1 DEF AllAccepted, Accepted
<1>10. last = values[Echo]
  <2>1. last = Blank \/ last = values[Echo] \/ \E b \in Beginnings : b[2] = values[Echo] /\ last = b[1]
        BY <1>7 DEF Left
  <2>2. last # Blank
    <3>1. Blank \notin {"yes", "Yes", "no", "No"}  BY Zenon DEF Blank
    <3> QED  BY <1>2, <1>8, <3>1
  <2>3. \A b \in Beginnings : b[2] = values[Echo] => b[1] \notin {"yes", "Yes", "no", "No"}
        BY <1>9, TextsAssumption
  <2> QED  BY <1>2, <1>8, <2>1, <2>2, <2>3
<1> QED  BY <1>5, <1>7, <1>10, WrittenWhole, MainIsNotOwn DEF AllAccepted

LEMMA CleanIsMeant == ConfigInv /\ Echo \in Keys => CleanLoad
<1> SUFFICES ASSUME ConfigInv, Echo \in Keys,
                    daemon.state = "loading", daemon.calm, daemon.new.ret = OK
             PROVE  /\ origin[Main] # "hand" =>
                          \A k \in KeysOf(Main) :
                             (k = "LOGLEVEL" /\ daemon.level) \/ daemon.conf.values[k] = meant[Main][k]
                    /\ "LOGDIR" \in Keys => daemon.conf.logs = daemon.conf.values["LOGDIR"]
    BY DEF CleanLoad
<1> DEFINE order == ReadOrder(Main)
           N == Len(order)
           r == daemon.conf
           lines == file[Main]
<1>1. N \in Nat /\ (\A i \in 1 .. N : order[i] \in Rows(Main))
      /\ KeysOf(Main) = {order[i].key : i \in 1 .. N}
      BY OrderRows, MainIsNotOwn
<1>2. daemon.conf = daemon.new /\ daemon.at = N + 1
      /\ QuietSoFar(daemon.new, daemon.at - 1, daemon.level, lines)
      BY DEF ConfigInv, ReadingInv
<1>3. daemon.at - 1 = N  BY <1>1, <1>2
<1>4. QuietSoFar(r, N, daemon.level, lines)  BY <1>2, <1>3
<1> HIDE DEF N, r, lines
<1>5. ASSUME NEW k \in KeysOf(Main)
      PROVE  /\ (k = "LOGLEVEL" /\ daemon.level) \/ ReadsAs(k, lines[k], r.values[k])
             /\ k = "LOGDIR" => r.logs = r.values[k]
  <2>1. PICK i \in 1 .. N : order[i].key = k  BY <1>1
  <2> QED  BY <1>4, <2>1 DEF QuietSoFar
<1>6. "LOGDIR" \in Keys => r.logs = r.values["LOGDIR"]  BY <1>5, EndsAreRead
<1>7. ASSUME origin[Main] # "hand", NEW k \in KeysOf(Main), ~(k = "LOGLEVEL" /\ daemon.level)
      PROVE  r.values[k] = meant[Main][k]
  <2>1. /\ AllAccepted(Main, meant[Main])
        /\ lines = meant[Main] \/ Beginning(Main, lines, meant[Main])
        BY <1>7, MainIsNotOwn DEF ConfigInv, FileInv, lines
  <2>2. Echo # "LOGLEVEL"  BY DEF Echo
  <2>3. ReadsAs(Echo, lines[Echo], r.values[Echo])  BY <1>5, <2>2, EndsAreRead
  <2>4. lines = meant[Main]  BY <2>1, <2>3, QuietIsWhole
  <2>5. ReadsAs(k, lines[k], r.values[k])  BY <1>5, <1>7
  <2>6. PICK i \in 1 .. Len(ReadOrder(Main)) :
           /\ ReadOrder(Main)[i].key = k
           /\ \E before : ReadLine(ReadOrder(Main)[i], lines[k], before).value = r.values[k]
        BY <2>5 DEF ReadsAs
  <2>7. ReadOrder(Main)[i] \in Rows(Main)  BY OrderRows, MainIsNotOwn
  <2>8. Accepted(k, lines[k])  BY <2>1, <2>4 DEF AllAccepted
  <2>9. \A before : ReadLine(ReadOrder(Main)[i], lines[k], before).value = lines[k]
        BY <2>6, <2>7, <2>8, AcceptedRead, MainIsNotOwn
  <2> QED  BY <2>4, <2>6, <2>9
<1> QED  BY <1>6, <1>7 DEF r

(* A configuration that a daemon takes without a warning holds every value *)
(* as vuurmuur_conf was to save it, whenever the writing of the file was   *)
(* broken off: the setting that is written last warns if its line is not   *)
(* there as a whole.  An instance has to follow that setting.              *)
THEOREM CleanTheorem ==
    ASSUME Echo \in Keys
    PROVE  Spec => []CleanLoad
BY CleanIsMeant, ConfigInvariant, PTL
===============================================================================
