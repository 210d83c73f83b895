------------------------------ MODULE ConfigText ------------------------------
(***************************************************************************)
(* The configuration files: the table of their settings, and what reading  *)
(* and writing them does.                                                  *)
(*                                                                         *)
(* config.conf belongs to all programs, vuurmuur_conf.conf to the          *)
(* interface alone.  A setting has a kind, a default, and a code for a     *)
(* value that is missing or not understood.  Values are texts, in the form *)
(* the programs write them; what a text is (a number, a full path, an      *)
(* unusable log directory) is all that reading tells apart.  An instance   *)
(* chooses the settings it follows.                                        *)
(***************************************************************************)
EXTENDS Integers, Sequences

CONSTANTS
    Keys,           \* the settings of the instance
    Positive,       \* the texts that are numbers above 0,
    Negative,       \* the ones below 0 (all others count as 0),
    Octal,          \* and the ones that are file modes
    FullPath,       \* the texts that start with a slash
    Beginnings,     \* pairs of a text and a longer one that begins with it
    BadDirs,        \* log directories that cannot be opened or created
    BadLogs         \* log directories whose log files cannot

(* The results of reading a file; an error is below OK, a warning above. *)
EUnknown    == -6
EIllegalVar == -2
EMissingVar == -1
OK          == 0
WMissingVar == 1
WIllegalVar == 2

Blank   == ""
Absent  == "(no line)"
TooLong == "(a value without quotes that does not fit)"

(* The defaults of the table are such texts, what stops before its end is  *)
(* no other word for yes or no, and a path that does starts with a slash.  *)
ASSUME TextsAssumption ==
    /\ {"8", "10", "15", "20", "30", "45", "500"} \subseteq Positive
    /\ "0" \notin Positive \cup Negative
    /\ Positive \cap Negative = {}
    /\ "700" \in Octal
    /\ {"/etc/vuurmuur/rules.conf", "/etc/vuurmuur/blocked.list",
        "/etc/vuuurmuur/blocked.list"} \subseteq FullPath
    /\ {Blank, Absent, TooLong} \cap (Positive \cup Octal \cup FullPath) = {}
    /\ \A b \in Beginnings :
          /\ b[1] # TooLong
          /\ b[2] \in {"Yes", "No"} => b[1] \notin {"yes", "Yes", "no", "No"}
          /\ b[2] \in FullPath => b[1] \in FullPath \cup {Blank}

Main == "config.conf"
Own  == "vuurmuur_conf.conf"
Files == {Main, Own}

-----------------------------------------------------------------------------
(* The settings, in the order they are read. *)

Setting(key, kind, default, missing, bad) ==
    [key |-> key, kind |-> kind, default |-> default, missing |-> missing, bad |-> bad]

(* A setting that has a default nobody is told about, and one that warns. *)
Quiet(key, kind, default) == Setting(key, kind, default, OK, WIllegalVar)
Warns(key, kind, default) == Setting(key, kind, default, WMissingVar, WIllegalVar)

PermissionSettings == << Quiet("MAX_PERMISSION", "mode", "700") >>

BackendSettings ==
    << Quiet("SERVICES_BACKEND", "plugin", "textdir"), Quiet("ZONES_BACKEND", "plugin", "textdir"),
       Quiet("INTERFACES_BACKEND", "plugin", "textdir"), Quiet("RULES_BACKEND", "plugin", "textdir") >>

FileSettings ==
    << Quiet("RULESFILE", "file", "/etc/vuurmuur/rules.conf"),
       Quiet("BLOCKLISTFILE", "file", "/etc/vuuurmuur/blocked.list") >>

DynamicSettings ==
    << Quiet("DYN_INT_CHECK", "yesno", "No"), Quiet("DYN_INT_INTERVAL", "number", "30") >>

DropSettings ==
    << Quiet("DROP_INVALID", "yesno", "Yes"), Quiet("LOG_BLOCKLIST", "yesno", "Yes"),
       Quiet("LOG_INVALID", "yesno", "Yes"), Quiet("LOG_NO_SYN", "yesno", "Yes"),
       Quiet("LOG_PROBES", "yesno", "Yes"), Quiet("LOG_FRAG", "yesno", "Yes") >>

SynSettings ==
    << Quiet("USE_SYN_LIMIT", "yesno", "Yes"), Warns("SYN_LIMIT", "limit", "10"),
       Warns("SYN_LIMIT_BURST", "limit", "20") >>

UdpSettings ==
    << Quiet("USE_UDP_LIMIT", "yesno", "Yes"), Warns("UDP_LIMIT", "limit", "15"),
       Warns("UDP_LIMIT_BURST", "limit", "45") >>

PolicySettings ==
    << Warns("LOG_POLICY", "yesno", "Yes"), Warns("RULE_NFLOG", "yesno", "Yes"),
       Warns("NFGRP", "number", "8"), Warns("LOG_POLICY_LIMIT", "number", "30") >>

(* Mutant: the last setting of the file has a default that nobody is told of. *)
ProtectSettings_Quiet ==
    << Quiet("LOG_TCP_OPTIONS", "yesno", "No"), Quiet("PROTECT_SYNCOOKIE", "yesno", "Yes"),
       Quiet("PROTECT_ECHOBROADCAST", "yesno", "Yes") >>

ProtectSettings ==
    << Quiet("LOG_TCP_OPTIONS", "yesno", "No"), Warns("PROTECT_SYNCOOKIE", "yesno", "Yes"),
       Warns("PROTECT_ECHOBROADCAST", "yesno", "Yes") >>

CommandSettings ==
    << Warns("SYSCTL", "path", "/sbin/sysctl"), Warns("IPTABLES", "path", "/sbin/iptables"),
       Warns("IPTABLES_RESTORE", "path", "/sbin/iptables-restore"),
       Warns("IP6TABLES", "path", "/sbin/ip6tables"),
       Warns("IP6TABLES_RESTORE", "path", "/sbin/ip6tables-restore") >>

ToolSettings ==
    << Quiet("CONNTRACK", "path", Blank), Quiet("TC", "path", Blank),
       Quiet("MODPROBE", "path", "/sbin/modprobe"), Quiet("LOAD_MODULES", "yesno", "Yes"),
       Quiet("MODULES_WAIT_TIME", "number", "0") >>

LogSettings ==
    << Warns("LOGLEVEL", "level", Blank), Warns("SYSTEMLOG", "path", "/var/log/messages"),
       Warns("LOGDIR", "logdir", "/var/log/vuurmuur") >>

(* Nothing that is wrong with the interface's own settings is reported. *)
OwnSettings ==
    << Setting("ADVANCED_MODE", "yesno", "No", OK, OK), Setting("MAINMENU_STATUS", "yesno", "Yes", OK, OK),
       Setting("IPTRAFVOL", "path", "/usr/bin/iptrafvol.pl", OK, OK),
       Setting("NEWRULE_LOG", "yesno", "Yes", OK, OK), Setting("NEWRULE_LOGLIMIT", "number", "20", OK, OK),
       Setting("LOGVIEW_BUFSIZE", "number", "500", OK, OK), Setting("BACKGROUND", "colour", "blue", OK, OK) >>

Settings(f) ==
    IF f = Own THEN OwnSettings
    ELSE PermissionSettings \o BackendSettings \o FileSettings \o DynamicSettings \o DropSettings
         \o SynSettings \o UdpSettings \o PolicySettings \o ProtectSettings \o CommandSettings
         \o ToolSettings \o LogSettings

(* A list gone through in order: what is at these places. *)
Kept(s, places) ==
    LET kept[i \in 0 .. Len(s)] ==
          IF i = 0 THEN << >>
          ELSE IF i \in places THEN Append(kept[i - 1], s[i]) ELSE kept[i - 1]
    IN  kept[Len(s)]

ReadOrders ==
    [f \in Files |-> Kept(Settings(f), {i \in DOMAIN Settings(f) : Settings(f)[i].key \in Keys})]

ReadOrder(f) == ReadOrders[f]

KeysOf(f) == {ReadOrder(f)[i].key : i \in DOMAIN ReadOrder(f)}

(* The settings in the order they are written. *)
OwnLines ==
    << "ADVANCED_MODE", "MAINMENU_STATUS", "NEWRULE_LOG", "NEWRULE_LOGLIMIT", "LOGVIEW_BUFSIZE",
       "IPTRAFVOL", "BACKGROUND" >>

BackendLines ==
    << "SERVICES_BACKEND", "ZONES_BACKEND", "INTERFACES_BACKEND", "RULES_BACKEND", "RULESFILE",
       "BLOCKLISTFILE" >>
CommandLines ==
    << "SYSCTL", "IPTABLES", "IPTABLES_RESTORE", "IP6TABLES", "IP6TABLES_RESTORE", "CONNTRACK",
       "TC" >>
SystemLines ==
    << "MODPROBE", "MAX_PERMISSION", "LOAD_MODULES", "MODULES_WAIT_TIME", "RULE_NFLOG", "NFGRP",
       "LOGDIR", "SYSTEMLOG", "LOGLEVEL", "DYN_INT_CHECK", "DYN_INT_INTERVAL" >>
LogLines ==
    << "LOG_POLICY", "LOG_POLICY_LIMIT", "LOG_BLOCKLIST", "LOG_INVALID", "LOG_NO_SYN",
       "LOG_PROBES", "LOG_FRAG", "LOG_TCP_OPTIONS", "DROP_INVALID" >>
LimitLines ==
    << "USE_SYN_LIMIT", "SYN_LIMIT", "SYN_LIMIT_BURST", "USE_UDP_LIMIT", "UDP_LIMIT",
       "UDP_LIMIT_BURST" >>
ProtectLines == << "PROTECT_SYNCOOKIE", "PROTECT_ECHOBROADCAST" >>

Lines(f) ==
    IF f = Own THEN OwnLines
    ELSE BackendLines \o CommandLines \o SystemLines \o LogLines \o LimitLines \o ProtectLines

WriteOrders == [f \in Files |-> Kept(Lines(f), {i \in DOMAIN Lines(f) : Lines(f)[i] \in Keys})]

WriteOrder(f) == WriteOrders[f]

-----------------------------------------------------------------------------
(* Reading. What one line says: the value taken, and a code. *)

Taken(value, code) == [value |-> value, code |-> code]

ReadYesNo(s, t) ==
    IF t \in {"yes", "Yes"} THEN Taken("Yes", OK)
    ELSE IF t \in {"no", "No"} THEN Taken("No", OK)
    ELSE Taken(s.default, s.bad)

(* A number that may be 0, which a text without digits is. *)
ReadNumber(s, t) ==
    IF t \in Negative THEN Taken(s.default, s.bad)
    ELSE Taken(IF t \in Positive THEN t ELSE "0", OK)

ReadLimit(s, t) == IF t \in Positive THEN Taken(t, OK) ELSE Taken(s.default, s.bad)

ReadMode(s, t) == IF t \in Octal THEN Taken(t, OK) ELSE Taken(s.default, s.bad)

(* A name that is empty is an error, and is kept. *)
ReadPlugin(s, t) == Taken(t, IF t = Blank THEN EMissingVar ELSE OK)

(* RULESFILE and BLOCKLISTFILE: a relative one is looked for next to the   *)
(* configuration file.                                                     *)
Beside(t) == "/etc/vuurmuur/" \o t

ReadFile(s, t) ==
    CASE t = Blank        -> Taken(IF s.key = "RULESFILE" THEN "/etc/vuurmuur/rules.conf"
                                   ELSE "/etc/vuurmuur/blocked.list", OK)
      [] t \in FullPath   -> Taken(t, OK)
      [] OTHER            -> Taken(Beside(t), OK)

ReadText(s, t, before) ==
    CASE s.kind = "yesno"    -> ReadYesNo(s, t)
      [] s.kind = "number"   -> ReadNumber(s, t)
      [] s.kind = "limit"    -> ReadLimit(s, t)
      [] s.kind = "mode"     -> ReadMode(s, t)
      [] s.kind = "plugin"   -> ReadPlugin(s, t)
      [] s.kind = "file"     -> ReadFile(s, t)
      [] s.kind = "colour"   -> Taken(IF t \in {"blue", "black"} THEN t ELSE before, OK)
      [] OTHER               -> Taken(t, OK)

ReadLine(s, t, before) ==
    IF t = Absent
    THEN Taken(IF s.key \in {"CONNTRACK", "TC", "BACKGROUND"} THEN before ELSE s.default, s.missing)
    ELSE ReadText(s, t, before)

(* A reading under way: the values so far, the directory the names of the  *)
(* logs are made of, the result so far, and whether it has returned.       *)
Begun(values) == [values |-> values, logs |-> Blank, ret |-> OK, returned |-> FALSE]

(* The last step of a reading: the log directory. *)
ReadLogDir(r, t) ==
    IF t = Absent THEN [r EXCEPT !.ret = WMissingVar, !.returned = TRUE]
    ELSE IF t \in BadDirs THEN [r EXCEPT !.ret = WIllegalVar, !.returned = TRUE]
    ELSE [r EXCEPT !.logs = t, !.ret = IF t \in BadLogs THEN EIllegalVar ELSE @]

(* One setting.  The file is opened and searched for every setting anew;   *)
(* a later code takes the place of an earlier one.                         *)
ReadSetting(r, s, lines, cmdline) ==
    LET t     == lines[s.key]
        taken == ReadLine(s, t, r.values[s.key])
        next  == [r EXCEPT !.values = [@ EXCEPT ![s.key] = taken.value],
                           !.ret = IF taken.code = OK THEN @ ELSE taken.code]
    IN  IF r.returned \/ (s.key = "LOGLEVEL" /\ cmdline) THEN r
        ELSE IF t = TooLong THEN [r EXCEPT !.ret = EUnknown, !.returned = TRUE]
        ELSE IF s.kind = "logdir" THEN ReadLogDir(next, t)
        ELSE next

(* All settings of a file, one after the other. *)
ReadAll(begun, f, lines, cmdline) ==
    LET order == ReadOrder(f)
        after[n \in 0 .. Len(order)] ==
          IF n = 0 THEN begun ELSE ReadSetting(after[n - 1], order[n], lines, cmdline)
    IN  after[Len(order)]

(* A whole reading: init_config, init_vcconfig. *)
ReadWhole(f, values, lines) == ReadAll(Begun(values), f, lines, FALSE)

(* What the programs start a reading with. *)
PreInit(f) == [k \in KeysOf(f) |-> IF k = "BACKGROUND" THEN "blue" ELSE Blank]

-----------------------------------------------------------------------------
(* Writing. The file is emptied and filled in order; what a program that   *)
(* stops leaves behind ends anywhere, also inside a value.                 *)

Emptied(f) == [k \in KeysOf(f) |-> Absent]

(* What may be left of a value that the end of the file falls in. *)
Left(v) == {Blank, v} \cup {b[1] : b \in {c \in Beginnings : c[2] = v}}

(* The first n lines, with last for the value of the nth. *)
Written(f, values, n, last) ==
    LET order == WriteOrder(f)
    IN  [k \in KeysOf(f) |->
            IF k \notin {order[i] : i \in 1 .. n} THEN Absent
            ELSE IF order[n] = k THEN last
            ELSE values[k]]

-----------------------------------------------------------------------------
(* The forms of vuurmuur_conf, each with the settings it has a field for.  *)
(* RULESFILE and BLOCKLISTFILE have none.                                  *)

GeneralForm ==
    {"IPTABLES", "IPTABLES_RESTORE", "IP6TABLES", "IP6TABLES_RESTORE", "CONNTRACK", "TC",
     "MAX_PERMISSION", "SYSCTL"}
InterfacesForm  == {"DYN_INT_CHECK", "DYN_INT_INTERVAL"}
ModulesForm     == {"MODPROBE", "LOAD_MODULES", "MODULES_WAIT_TIME"}
PluginsForm     == {"SERVICES_BACKEND", "ZONES_BACKEND", "INTERFACES_BACKEND", "RULES_BACKEND"}
ConnectionsForm ==
    {"USE_SYN_LIMIT", "SYN_LIMIT", "SYN_LIMIT_BURST", "USE_UDP_LIMIT", "UDP_LIMIT", "UDP_LIMIT_BURST"}
LogForm ==
    {"LOGDIR", "LOGLEVEL", "SYSTEMLOG", "RULE_NFLOG", "NFGRP", "LOG_POLICY", "LOG_POLICY_LIMIT",
     "LOG_TCP_OPTIONS", "LOG_BLOCKLIST", "LOG_INVALID", "LOG_NO_SYN", "LOG_PROBES", "LOG_FRAG"}
ConntrackForm   == {"DROP_INVALID"}
SystemForm      == {"PROTECT_SYNCOOKIE", "PROTECT_ECHOBROADCAST"}
OwnForm ==
    {"NEWRULE_LOGLIMIT", "NEWRULE_LOG", "ADVANCED_MODE", "MAINMENU_STATUS", "BACKGROUND",
     "LOGVIEW_BUFSIZE", "IPTRAFVOL"}

Forms == {GeneralForm, InterfacesForm, ModulesForm, PluginsForm, ConnectionsForm, LogForm,
          ConntrackForm, SystemForm, OwnForm}

(* What a setting is after the user left its field with a text in it.  A   *)
(* form that refuses the text keeps the value; only a log directory that   *)
(* cannot be used makes saving fail, and is kept.                          *)

(* Mutant: a number is kept as it was typed. *)
SaveNumber_Unchecked(value, t, lowest) == t

SaveNumber(value, t, lowest) ==
    IF t \in Positive \/ (lowest = 0 /\ t \notin Negative) THEN (IF t \in Positive THEN t ELSE "0")
    ELSE value

SaveField(s, value, t) ==
    CASE s.kind = "mode"    -> IF t \in Octal THEN t ELSE value
      [] s.kind = "yesno"   -> IF t = "X" THEN "Yes" ELSE "No"
      [] s.kind = "colour"  -> IF t = "X" THEN "black" ELSE "blue"
      [] s.kind = "limit"   -> SaveNumber(value, t, 1)
      [] s.kind = "number"  ->
            SaveNumber(value, t, IF s.key \in {"DYN_INT_INTERVAL", "NEWRULE_LOGLIMIT",
                                               "LOGVIEW_BUFSIZE"} THEN 1 ELSE 0)
      [] OTHER              -> t

SaveSucceeds(s, t) == s.kind = "logdir" => t \notin BadDirs
===============================================================================
