----------------------------- MODULE ConfigReload -----------------------------
(***************************************************************************)
(* The configuration and the backends while everything runs: vuurmuur_conf *)
(* changes settings and rewrites its files, somebody edits config.conf by  *)
(* hand, and a daemon (vuurmuur or vuurmuur_log) starts, reloads and       *)
(* stops, with plugins and a store that may fail under it.                 *)
(*                                                                         *)
(* The files are not locked: the daemon opens and searches config.conf for *)
(* every setting anew, and every one of these readings is a step.          *)
(***************************************************************************)
EXTENDS ConfigText, Backends, FiniteSets

CONSTANTS
    Inputs,         \* Inputs[k]: what a user may leave in the field of k
    ByHand,         \* the lines <<k, text>> an editor may put in config.conf
    Levels,         \* the log levels of a command line; "" is none
    MaxChanges,     \* bound on the changes of a setting, a line or the world,
    MaxOps          \* and on these and the starts and reloads of a daemon together

(* A field holds a value that fits, and a file is named in an editor by a  *)
(* text that is or becomes a full path.                                    *)
ASSUME InputsAssumption ==
    /\ \A k \in Keys : {Absent, TooLong} \cap Inputs[k] = {}
    /\ \A line \in ByHand :
          line[1] \in {"RULESFILE", "BLOCKLISTFILE"} /\ line[2] \notin {Blank, Absent, TooLong} =>
             line[2] \in FullPath \/ Beside(line[2]) \in FullPath

VARIABLES
    file,           \* the lines of each file
    origin,         \* where they come from: "saved", "cut", "hand"
    meant,          \* the values that the last save was to write
    tool,           \* vuurmuur_conf
    daemon,         \* the daemon
    world,          \* the plugins and the store
    changes, ops    \* how many of the bounded operations there were

vars == << file, origin, meant, tool, daemon, world, changes, ops >>

SettingOf(k) ==
    LET all == ReadOrder(Main) \o ReadOrder(Own)
    IN  all[CHOOSE i \in DOMAIN all : all[i].key = k]

(* The plugins a configuration names; one that is not followed is textdir. *)
Names(values) ==
    [c \in Cats |-> IF NameKey[c] \in Keys THEN values[NameKey[c]] ELSE "textdir"]

Defaults(f) == ReadWhole(f, PreInit(f), Emptied(f)).values

-----------------------------------------------------------------------------
(* vuurmuur_conf *)

Idle == "idle"          \* a menu; otherwise the file that is being written

ToolOff == [state |-> "off", writes |-> Idle, error |-> OK, conf |-> [f \in Files |-> PreInit(f)]]

(* Starting: both files are read, and read again after every visit to the  *)
(* menu the user is sent to if something is wrong.                         *)
ToolReads(before) ==
    LET main == ReadWhole(Main, before[Main], file[Main])
        own  == ReadWhole(Own, before[Own], file[Own])
    IN  /\ \/ main.ret = EUnknown /\ tool' = ToolOff
           \/ /\ main.ret # EUnknown
              /\ tool' = [tool EXCEPT !.state = IF main.ret = OK THEN "on" ELSE "asked",
                                      !.error = main.ret,
                                      !.conf = [f \in Files |-> IF f = Main THEN main.values
                                                                ELSE own.values]]

StartTool ==
    /\ tool.state = "off"
    /\ ToolReads([f \in Files |-> PreInit(f)])
    /\ UNCHANGED << file, origin, meant, daemon, world, changes, ops >>

(* The user answers: go on, which only a missing value prevents. *)
Answer ==
    /\ tool.state = "asked" /\ tool.writes = Idle
    /\ tool' = IF tool.error = EMissingVar THEN ToolOff ELSE [tool EXCEPT !.state = "on", !.error = OK]
    /\ UNCHANGED << file, origin, meant, daemon, world, changes, ops >>

LeaveMenu ==
    /\ tool.state = "asked" /\ tool.writes = Idle
    /\ ToolReads(tool.conf)
    /\ UNCHANGED << file, origin, meant, daemon, world, changes, ops >>

QuitTool ==
    /\ tool.state = "on" /\ tool.writes = Idle
    /\ tool' = ToolOff
    /\ UNCHANGED << file, origin, meant, daemon, world, changes, ops >>

(* Whoever changes a file under a daemon that reads it. *)
NotCalm == daemon' = [daemon EXCEPT !.calm = daemon.state \notin {"reading", "loading"}]

(* A form is left: what was typed in some of its fields is in memory at    *)
(* once, and the file is opened for writing, which empties it, unless      *)
(* saving fails; then the user may quit the form, and the values stay.     *)
Untouched == "(as it was)"

EditForm(form) ==
    LET f      == IF form = OwnForm THEN Own ELSE Main
        fields == form \cap Keys
    IN  /\ tool.state \in {"on", "asked"} /\ tool.writes = Idle
        /\ changes < MaxChanges /\ ops < MaxOps
        /\ changes' = changes + 1 /\ ops' = ops + 1
        /\ \E typed \in [fields -> UNION {Inputs[k] : k \in fields} \cup {Untouched}] :
              LET touched == {k \in fields : typed[k] # Untouched}
                  values  == [k \in KeysOf(f) |->
                                IF k \in touched THEN SaveField(SettingOf(k), tool.conf[f][k], typed[k])
                                ELSE tool.conf[f][k]]
              IN  /\ touched # {} /\ \A k \in touched : typed[k] \in Inputs[k]
                  /\ IF \A k \in touched : SaveSucceeds(SettingOf(k), typed[k])
                     THEN /\ tool' = [tool EXCEPT !.conf[f] = values, !.writes = f]
                          /\ file' = [file EXCEPT ![f] = Emptied(f)]
                          /\ origin' = [origin EXCEPT ![f] = "cut"]
                          /\ meant' = [meant EXCEPT ![f] = values]
                          /\ IF f = Main THEN NotCalm ELSE UNCHANGED daemon
                     ELSE /\ tool' = [tool EXCEPT !.conf[f] = values]
                          /\ UNCHANGED << file, origin, meant, daemon >>
    /\ UNCHANGED world

(* The buffer is full: a first part goes to the file. *)
Flush ==
    /\ tool.writes # Idle /\ file[tool.writes] = Emptied(tool.writes)
    /\ \E n \in 1 .. Len(WriteOrder(tool.writes)) :
          \E last \in Left(tool.conf[tool.writes][WriteOrder(tool.writes)[n]]) :
             file' = [file EXCEPT ![tool.writes] = Written(tool.writes, tool.conf[tool.writes], n, last)]
    /\ IF tool.writes = Main THEN NotCalm ELSE UNCHANGED daemon
    /\ UNCHANGED << origin, meant, tool, world, changes, ops >>

FinishWriting ==
    /\ tool.writes # Idle
    /\ LET f == tool.writes
           order == WriteOrder(f)
       IN  /\ file' = [file EXCEPT ![f] = Written(f, tool.conf[f], Len(order), tool.conf[f][order[Len(order)]])]
           /\ origin' = [origin EXCEPT ![f] = "saved"]
           /\ IF f = Main THEN NotCalm ELSE UNCHANGED daemon
    /\ tool' = [tool EXCEPT !.writes = Idle]
    /\ UNCHANGED << meant, world, changes, ops >>

(* The disk is full, or vuurmuur_conf is killed. *)
BreakOff ==
    /\ tool.writes # Idle
    /\ tool' \in {[tool EXCEPT !.writes = Idle], ToolOff}
    /\ UNCHANGED << file, origin, meant, daemon, world, changes, ops >>

EditByHand ==
    /\ changes < MaxChanges /\ ops < MaxOps /\ tool.writes = Idle
    /\ \E line \in ByHand : file' = [file EXCEPT ![Main][line[1]] = line[2]]
    /\ origin' = [origin EXCEPT ![Main] = "hand"]
    /\ changes' = changes + 1 /\ ops' = ops + 1
    /\ NotCalm
    /\ UNCHANGED << meant, tool, world >>

Well == [installed |-> Plugins, store |-> "ok", unusable |-> "none"]

(* A plugin or a part of the store comes or goes. *)
WorldChanges ==
    /\ changes < MaxChanges /\ ops < MaxOps
    /\ world' \in {Well, [Well EXCEPT !.installed = Plugins \ {"textdir"}],
                   [Well EXCEPT !.store = "unusable"], [Well EXCEPT !.unusable = "zones"]} \ {world}
    /\ changes' = changes + 1 /\ ops' = ops + 1
    /\ UNCHANGED << file, origin, meant, tool, daemon >>

-----------------------------------------------------------------------------
(* The daemon *)

BeginReading(level) == [Begun(PreInit(Main)) EXCEPT !.values =
                          IF "LOGLEVEL" \in Keys THEN [@ EXCEPT !["LOGLEVEL"] = level] ELSE @]

(* A daemon that stays (vuurmuur) goes on after a step that failed; the    *)
(* other (vuurmuur_log) exits.                                             *)
Down      == [state |-> "down", stays |-> TRUE, starting |-> TRUE, level |-> FALSE, at |-> 1,
              calm |-> TRUE, conf |-> Begun(PreInit(Main)), new |-> Begun(PreInit(Main)),
              backends |-> NoBackends, last |-> "none"]
Done(d, last) == [d EXCEPT !.state = "up", !.last = last, !.at = 1, !.calm = TRUE,
                           !.new = Begun(PreInit(Main))]
Failed(d) == IF d.stays /\ ~d.starting THEN Done(d, "failed") ELSE Down

(* It starts, with a log level on its command line or not. *)
StartDaemon ==
    /\ daemon = Down /\ ops < MaxOps
    /\ \E level \in Levels, stays \in BOOLEAN :
          /\ level # Blank => stays
          /\ daemon' = [Down EXCEPT !.state = "reading", !.stays = stays, !.level = level # Blank,
                                    !.new = BeginReading(level)]
    /\ ops' = ops + 1
    /\ UNCHANGED << file, origin, meant, tool, world, changes >>

(* A reload closes the backends first; without functions it crashes. *)
BeginReload ==
    /\ daemon.state = "up" /\ ops < MaxOps
    /\ LET g == UnloadBackends(Names(daemon.conf.values), daemon.backends)
           d == [daemon EXCEPT !.backends = g.b]
       IN  daemon' = CASE g.went = "on"      -> [d EXCEPT !.state = "reading", !.at = 1, !.calm = TRUE,
                                                          !.new = BeginReading(Blank)]
                       [] g.went = "failed"  -> Failed(d)
                       [] g.went = "crashed" -> Down
    /\ ops' = ops + 1
    /\ UNCHANGED << file, origin, meant, tool, world, changes >>

(* One setting is looked for in the file. *)
ReadNext ==
    /\ daemon.state = "reading" /\ daemon.at <= Len(ReadOrder(Main)) /\ ~daemon.new.returned
    /\ daemon' = [daemon EXCEPT !.at = @ + 1,
                    !.new = ReadSetting(@, ReadOrder(Main)[daemon.at], file[Main], daemon.level)]
    /\ UNCHANGED << file, origin, meant, tool, world, changes, ops >>

(* The new configuration is taken unless reading it failed; the old one is *)
(* kept then, and there is none at the start.                              *)
TakeConfig ==
    /\ daemon.state = "reading" /\ (daemon.at > Len(ReadOrder(Main)) \/ daemon.new.returned)
    /\ daemon' = IF daemon.new.ret >= OK
                 THEN [daemon EXCEPT !.state = "loading", !.conf = daemon.new]
                 ELSE IF daemon.starting THEN Down
                 ELSE [daemon EXCEPT !.state = "loading"]
    /\ UNCHANGED << file, origin, meant, tool, world, changes, ops >>

OpenBackends ==
    /\ daemon.state = "loading"
    /\ LET g == LoadBackends(world, Names(daemon.conf.values), daemon.backends)
           d == [daemon EXCEPT !.backends = g.b]
       IN  daemon' = IF g.went = "on" THEN Done([d EXCEPT !.starting = FALSE], "ok")
                     ELSE Failed(d)
    /\ UNCHANGED << file, origin, meant, tool, world, changes, ops >>

StopDaemon ==
    /\ daemon.state = "up"
    /\ daemon' = Down
    /\ UNCHANGED << file, origin, meant, tool, world, changes, ops >>

-----------------------------------------------------------------------------
(* A daemon that has started and read what was saved, before this begins,  *)
(* if the plugins are there.                                               *)
Running(level, stays) ==
    LET conf == ReadAll(BeginReading(level), Main, Defaults(Main), level # Blank)
        g    == LoadBackends(Well, Names(conf.values), NoBackends)
    IN  IF g.went = "on"
        THEN Done([Down EXCEPT !.stays = stays, !.level = level # Blank, !.starting = FALSE,
                               !.conf = conf, !.backends = g.b], "ok")
        ELSE Down

Init ==
    /\ meant = [f \in Files |-> Defaults(f)]
    /\ file = meant
    /\ origin = [f \in Files |-> "saved"]
    /\ tool = ToolOff
    /\ daemon \in {Down} \cup {Running(level, stays) : level \in Levels, stays \in BOOLEAN}
    /\ daemon.level => daemon.stays
    /\ world = Well
    /\ changes = 0 /\ ops = 0

Next ==
    \/ StartTool \/ Answer \/ LeaveMenu \/ QuitTool
    \/ \E form \in Forms : EditForm(form)
    \/ Flush \/ FinishWriting \/ BreakOff
    \/ EditByHand \/ WorldChanges
    \/ StartDaemon \/ BeginReload \/ ReadNext \/ TakeConfig \/ OpenBackends \/ StopDaemon

Spec == Init /\ [][Next]_vars

-----------------------------------------------------------------------------
(* A configuration that a daemon takes without a warning holds every value *)
(* as vuurmuur_conf was to save it, also if the writing was broken off,    *)
(* and the logs are where its log directory says.  The daemon looks for    *)
(* every setting in a file that may end anywhere, and most settings have a *)
(* default nobody is told of.  A file that changes while it is read is     *)
(* left out: it can give a mixture of old, new and default values, and no  *)
(* warning.                                                                *)
CleanLoad ==
    (daemon.state = "loading" /\ daemon.calm /\ daemon.new.ret = OK) =>
        /\ origin[Main] # "hand" =>
              \A k \in KeysOf(Main) :
                 (k = "LOGLEVEL" /\ daemon.level) \/ daemon.conf.values[k] = meant[Main][k]
        /\ "LOGDIR" \in Keys => daemon.conf.logs = daemon.conf.values["LOGDIR"]

(* What vuurmuur_conf saved is read back as it was saved, by every program *)
(* and without a warning, whatever was in the file when it started and in  *)
(* whatever form it was changed.  Two values are saved that no program     *)
(* takes so: a plugin without a name, and a log directory that cannot be   *)
(* used, which the next form that is saved writes.                         *)
SavedIsAccepted ==
    \A f \in Files :
        origin[f] = "saved" =>
            LET r == ReadWhole(f, PreInit(f), file[f])
            IN  /\ r.values = meant[f]
                /\ r.ret # OK => \E k \in KeysOf(f) : \/ SettingOf(k).kind = "plugin" /\ meant[f][k] = Blank
                                                      \/ meant[f][k] \in BadDirs \cup BadLogs

(* The count of a plugin is the number of categories that point at it, at  *)
(* any time: reloads give up in the middle of loading and unloading, under *)
(* names that change in between.                                           *)
PluginsCounted ==
    daemon.state # "down" =>
        \A p \in Plugins :
            daemon.backends.refs[p] = Cardinality({c \in Cats : daemon.backends.functions[c] = p})

(* After a reload that went well all four backends are open, each with the *)
(* plugin that the configuration in use names.                             *)
ServesWithItsConf ==
    (daemon.state = "up" /\ daemon.last = "ok") => AllOpen(Names(daemon.conf.values), daemon.backends)
===============================================================================
