# Vuurmuur: specifications and proofs

TLA+ models of Vuurmuur, a front end to iptables, with TLC runs and TLAPS
proofs.  Paths are relative to `src/`.

## 1. The system

Vuurmuur keeps a description of networks and rules in a *backend* (a tree of
text files) and turns it into an iptables ruleset.  Several processes share it:

- **vuurmuur** (`vuurmuur/vuurmuur`), the daemon: loads the backend, creates and
  loads the ruleset, and does so again when asked to.
- **vuurmuur_log** (`vuurmuur/vuurmuur_log`), the log daemon: follows the
  system log and writes a log with the names of the backend.
- **vuurmuur_conf** (`vuurmuur-conf/src`), the ncurses editor.
- **vuurmuur_script** (`vuurmuur/vuurmuur_script`), the same from a command line.
- **libvuurmuur** (`libvuurmuur/src`) and the **textdir** plugin
  (`libvuurmuur/plugins/textdir`), which all of them use.

There are no threads and hardly any locks; what is shared is files, one shared
memory table with a System V semaphore per daemon, and signals.  The repository
has no test suite.

### Inventory

| component | state | operations | hard behaviour | what makes it correct | module |
|---|---|---|---|---|---|
| apply-changes protocol | two `SHM_TABLE`s, loop state of the daemons, progress seen by the tools | post a change, reload, publish, acknowledge, give up, SIGHUP, stop, die | interleaving of 3-4 processes, time-outs on both sides, deaths | no request lost, no foreign or half result, everybody gets on | `ReloadIPC`, `ReloadService` |
| shared memory lock | one semaphore | create, LOCK, UNLOCK, remove | deaths inside, removal under waiters | mutual exclusion, whole reads | `ShmLock` |
| object reload | lists of services, interfaces, zones with status | list, add, compare, remove | edits while it runs, order of categories, stale flags | memory is what is on disk; dependents notice | `ReloadObjects` |
| zones in memory of the editor | list, pointers, three counters | create, delete, activate, members, interfaces | partial failure, counters, dangling pointers | counters exact, pointers live | `ZoneEditor` |
| renaming, blocklist, zone fields of rules | names in five places | rename host/group/network/zone, block, unblock | one step of several failing | references follow; memory is what a restart loads | `ZoneEditor` |
| services | list, files of two formats, rules that name them | create, delete, rename, portranges | saving range by range, two formats, unchecked input | saved is read; what was checked loads | `ServiceText`, `ServiceEditor` |
| textdir backend | files, directories, a cursor per backend | add, del, rename, ask, tell, list | rewriting in place, two writers, partial add and delete | a store that changes in one step per call | `Textdir`, `TextdirList`, `ObjectStore`, `ObjectPaths` |
| rules | lines in the backend, a list in every program, a screen with a filter | parse, assemble, save, edit, move, filter, reload | hand-kept numbers, a save that breaks off, reload by comparison | the right rule is changed; order and content survive; the daemon sees it | `RuleText`, `RulesEditor` |
| ruleset creation | queues of lines, marks, numbers of classes | analyse, unroll, create, order | four nested loops, two families, three tables that must agree | the policy of the rules, and only it | `RuleLines`, `RuleNat`, `RuleLoops`, `PreRules`, `Shaping`, `RulesetCreate`; `Netfilter`, `RulePolicy` |
| ruleset loading | chains of the kernel, counters, classes, a daemon that stops | create, list chains, write, restore, clear | two families one after the other, what older loads left, failures between tables | refused only for a name that clashes, success is of one version, counters and the user's chains survive | `Ruleset` |
| configuration, backends | two files, `struct vuurmuur_config`, function tables, plugin counts | read, write, change by form or hand, reload, load and unload | a file that is read while it is rewritten, a reload that fails halfway | what was saved is accepted; open backends match the configuration | `ConfigText`, `Backends`, `ConfigReload` |
| traffic shaping | class handles, rates | number, sum, write | one counter for everything | unique handles, parents first | `Shaping` |
| vuurmuur_script commands | none of their own | add, delete, modify, rename, apply, block, unblock | races with vuurmuur_conf | check and act agree | apply: `ReloadIPC`; editing: `Textdir` |
| vuurmuur_log pipeline | file position, counters, name hashes | follow, reopen, parse, look up | rotation, unfinished lines | each line once | reload: `ReloadIPC`, `ConfigReload` |
| pid files, lock of the rules file | two files | check, create, remove | check then create | one daemon, one editor | not modelled |
| connection tracking, iptables capabilities, lists and hashes, screens, help, scripts | - | - | - | - | not modelled |

`PROJECT.json` lists them with their sources, and the hazards at their lines.

## 2. What is modelled

### ReloadIPC: the apply-changes protocol

`mm_reload_shm` (vuurmuur_conf) and `script_apply` (vuurmuur_script) against the
main loops of both daemons.  A critical section of the code is one step.

| action | code |
|---|---|
| `Main` | one turn of the main loop up to the decision to reload: `Take` the flag under the lock, `CheckDynamic` |
| `Begin`, `Load` | `apply_changes`, the reload of vuurmuur_log: reading begins, reading ends well or badly.  The progress from 5 to 95 is the one value `Partway`.  When the reload of vuurmuur_log fails it exits and leaves its table behind |
| `PostResult`, `GotAck`, `GiveUp` | result and 100% in one critical section; the wait of at most 30 seconds |
| `Reset` | the flags at the end of the turn, and the SIGHUP vuurmuur sends to vuurmuur_log |
| `Stop`, `Die`, `Hup` | termination that removes table and semaphore; death that leaves both; a signal |
| `Apply`, `Refuse` | attaching to the tables, or "daemon not running" |
| `PostChange`, `PostNowhere`, `PollRead`, `PollAck`, `PollLockFails`, `PollNowhere` | the loop of the tool, first vuurmuur, then vuurmuur_log, `Advance` from one to the next |
| `TimeOut`, `Finish`, `Return` | 60 seconds, the verdict, forgetting |
| `Killed` | a tool dies, perhaps inside a critical section |

History variables: `seen`, `applied`, `posted` and `hupOwed` say which state of the backend
a reload covers, which one was loaded, what was asked for, and whether a SIGHUP
is unanswered; no guard reads them.  Left out: `configtool.{connected,name,username}` (only
logged), `VR_RR_NOCHANGES` (never published).  Removing a semaphore makes `LOCK`
fail everywhere; a process that dies holding it blocks the others for good.
When a tool reads "acknowledged" at 100%, as the second of two tools can, it
waits until its 60 seconds are over, as in the code.

`ReloadService` is what a daemon promises, without the handshake: it covers
whatever it was asked for, as long as it is up.  `ReloadIPC` implements it,
once per daemon.

### ShmLock: the lock under it

`LockSHM`/`UnlockSHM` instruction by instruction, around two values that one
process writes and the others read.  It is why `ReloadIPC` may treat a
critical section as one step.

### ReloadObjects: what a reload loads

`reload_services`, `reload_interfaces`, `reload_zonedata` with their `_check`
functions and `check_for_changed_dynamic_ips`.  `Start` and `Leave` enter the
functions and go through their last loops (`Settled`); `Add`, `AddFails`,
`Compare`, `CompareFails` and `Skip` are the turns of the listing loop; `Edit`,
`Create`, `Delete` and `Replug` change the backend and the devices meanwhile.
An object is read in one step and has a `key` (all that is compared), an
`extra` (what is read and never compared) and references.  Listing returns
zones, then networks, hosts, groups, as textdir does, and may miss or show what
is created while it runs.  Protect rules, address syntax and virtual devices
are left out.

### ZoneEditor: objects, counters and names

The zones section of vuurmuur_conf with the library calls behind it.  One menu
operation is one step, with at most one backend call that fails at each point
where it can (`fault`, `at`).  Objects in memory are blocks that point at
blocks (`parents`, `GroupList`, `InterfaceList`); on disk they name each other.
A block is called by the file it was allocated for and keeps that name when its
object is renamed.  A list is saved value by value, so a save that fails leaves
the old list or a part of the new one (`Torn`, `TornList`).  The counters are
unsigned (`Up`, `Down` wrap at `MaxRef`).

`hurt` remembers what went wrong since the editor was started, and each
property says with which harms it is silent:

| harm | meaning |
|---|---|
| `fault` | an operation stopped halfway; nothing is rolled back |
| `delete` | a delete failed after the counters went down |
| `torn` | a rename stopped before the objects below were changed |
| `twin` | a network was renamed while another zone had one of the same name |
| `clash` | a rename to a name that was in use |
| `blind` | an inactive host or group is in the blocklist and was not counted |
| `stray` | after a restart: a file names a member or an interface that is not there |

When a pointer dangles, what the code does is undefined: no operation but
`Restart` goes on (`Defined`).  `PointersLive` tells the pointers of the objects
(`parents`) from those in lists, since a rename that is torn or meets a second
network of the name only spoils the first.  Left out: addresses and other settings, protect
rules, new and renamed interfaces, editing of rules.  That directories are
created and removed in several calls belongs to `Textdir`.

### Textdir: the backend, system call by system call

`add_textdir`, `del_textdir`, `rename_textdir`, `tell_textdir` and `ask_textdir`, as
vuurmuur_conf and vuurmuur_script use them.  A command is a *plan*, the list of
system calls the function makes (`AddPlan`, `DelPlan`, `RenamePlan`, `TellPlan`,
`SavePlan`); vuurmuur_script looks the name up first (`Looks`).  Each call is one
step, so that other programs come in between; a call can fail (`CallFails`) and
a program can die (`Die`) after any of them.  No function cleans up after itself,
but for the `hosts` directory in `del_textdir` (`Fails`).

| state | code |
|---|---|
| `dirs`, `files`, `content` | the file system: names, inodes, lines `VAR="value"` |
| `cmd`, `todo` | the command of a program and what is left of its plan |
| `buf`, `fd` | the `storelist` of `tell_textdir` and the file it writes |
| `cursor` | `ptr->file`, which `ask` leaves open between calls |
| `heard` | history: what the latest loop over a list has heard: of which object, from which file, which of its lines were due and which went by |

An object is called by the path of its file (`ObjectPaths`), has a setting
`ACTIVE` and perhaps a `LIST` (members, interfaces, rules).  Abstracted: the
template of a new file is written in one step; a file fits into one stdio
buffer and its lines are of equal length; a failed `fclose` leaves nothing
written; owner and permission checks; comments; values longer than the buffer.

There are two ways to ask, and they share the cursor.  A question for one value
closes what is open and begins at the top of its own file (`AskOne`).  A turn of a
loop over a list goes on where the cursor is (`AskNext`), whoever left it there
(`textdir_ask.c:84-103`).  Reading an object (`LoadPlan`) asks for `ACTIVE` first, so
its loop begins at the top; the rules and the blocklist have no such setting.

`ObjectStore` is what a program may expect: a map from objects to settings that
each call changes in one step, where a call that is cut short empties its own
object at worst.  `Textdir` implements it only as long as no command disturbs
another.  `Independent` says which may overlap: different objects, none renamed
or created above the other; or one object that is only created and deleted.
There is no lock that ensures this.  What happens otherwise is in section 5.

### TextdirList: the list of the tree

`list_textdir` for zones: four directories stay open between two calls, and what
`readdir` will return is fixed when a directory is opened (it may return less
for what disappears; whether a name is an object is asked when it is reached).
Opening the directories of a network and looking at the network is one step.

### The rules: RuleText and RulesEditor

`RuleText` is one rule: the struct in memory (with one struct of options for all
actions), the line `rules_assemble_rule` writes of it, and what
`rules_parse_line` and `rules_read_options` understand of such a line.  Which
options a line holds depends on the action, so the two are not inverse to each
other.  Service and zones are one value, a text is `plain` or holds a quote.

`RulesEditor` has the list in the backend, in vuurmuur_conf and in the daemon.

| action | code |
|---|---|
| `Open`, `Quit` | entering the screen; leaving it, with `rules_save_list`, which writes rule by rule over what was there and may break off (`SaveList`) |
| `Toggle`, `Edit`, `Delete`, `Insert`, `InsertSeparator`, `Copy`, `MoveUp`, `MoveDown` | the keys; each finds its rule by the number that is shown (`NumberShown`), and renumbers (`UpdateNumbers`) |
| `Filter` | the filter of the screen, which hides rules; it may hide all of them |
| `Restart` | vuurmuur_conf starts again and reads what is there |
| `ReloadRules` | the daemon reads the rules and keeps its old list when `RulesDiffer` finds nothing |

A visit to the form of a rule is one step and changes one field.

The ids in the list stand for structs.  The key `+` is the only one that does not
ask whether any rule is shown (`rules_form.c:2169`); with every rule hidden it puts
the last rule into the list a second time.  `MoveDown` does so: both places then
have one id and change together (`Written`), `doubled` remembers it, and deleting
one of them frees a struct that the list still holds.  What a program does with
it is undefined; in the model vuurmuur_conf is `dead` until `Restart` (`Drop`).

### The ruleset: from rules to lines

Pure operators, one per function of `createrule.c`, `rules.c` and `shape.c`, that
return the sequence of lines the function hands on.  A line is a record whose
fields are sets or single values; what it leaves out matches everything, and
`f ++ g` adds to a line what it does not have yet.  A `Loop` of the code is what there
is after each of its turns, with its body as an operator of its own
(`ToDestination`, `FromSource`, `ForRange`, `DstIface`, `SrcIface`).

| module | code |
|---|---|
| `RuleLines` | `create_rule_input`, `_output`, `_forward` with marks, limits, logging and shaping of one rule |
| `RuleNat` | the rules that translate addresses, and which of these functions one pair of source and destination calls (`Calls`) |
| `RuleLoops` | `rules_analyze_rule`, then the loops over families, interfaces, port ranges, sources and destinations, over the one record `r` that they share in the code |
| `PreRules` | all lines that do not come from rules: probes, conntrack, interfaces, anti-spoofing, blocklist, policies |
| `Shaping` | numbers and rates of qdiscs and classes |
| `RulesetCreate` | their order, as a state machine (`CreateSpec`, with its place in `stage`): analyse, one rule per step, close |

`Netfilter` is what a kernel does with such lines, as far as they use it (a
limit can be exceeded or not, so a packet has a set of verdicts, and `Walk` goes
through one chain with what the chains below it may come to), and
`RulePolicy` what the rules mean without any lines.  Both are references, not
code.  `PolicyExact` compares them for every packet of the instance.  Left out:
output as a shell script, texts of log prefixes.

Two rules with different marks are not compared when the first one has a limit:
a packet over the limit of the first has got its mark in the mangle table, whose
line has no limit, and the target of the second rule finds that mark.

### Ruleset: loading

`load_ruleset` for IPv4 and then IPv6.  A ruleset is its chains with the jumps
between them, the counters it carries over and the version of its
configuration.  A configuration has the chains that rules name (`custom`), which may be
called like Vuurmuur's own (`Clashes`), the devices that are counted, whether NFQUEUE and
forwarding are used, and two things that the code passes over: `lost`, the jumps of
the parts that failed while `ruleset_create_ruleset` made them (`ruleset.c:1332-1367`), and
`sysctl`, whether the switches of forwarding can be set.  `shaped` is the version of the
file of tc commands that was run last: it ends well when its last command does
(`LoadShape`).  `SaveInterfaceCounters`, `CreateRuleset`, `GetSystemChains`,
`LoadShape` and `LoadTable` are the steps, each of which may fail
(`CreateFails`, `FileFails`, `LoadFails`); iptables-restore commits table by
table.  Between them packets pass (`Traffic`) and the user fills his own chains
(`UserFills`); `Configure` changes the configuration; `Stop`,
`ClearVuurmuurRules` and `ClearAllRules` are the end of the daemon and
`vuurmuur -D` and `-C`.  The commands in the file are those of
`ruleset_fill_file` and are refused as iptables would (a chain made twice, one
deleted while something jumps to it).

### Configuration and backends

`ConfigText` is the table of all settings (kind, default, what a missing or wrong
value yields), reading setting by setting and writing line by line.  `Backends`
is the load and unload of plugins for the four categories with their counts and
function tables.  `ConfigReload` puts both under a daemon and vuurmuur_conf:
forms change settings and rewrite the file (`SaveNumber` and the other `Save`
operators are the checks of the forms), somebody edits by hand, plugins and
directories go and come, and the daemon starts, reloads and stops.  Each of its
readings of a setting is a step (`ReadNext`), since it opens the file anew.
Left out: `OLD_CREATE_METHOD`, which is written (`config.c:1999`) and never read.

### Services

`ServiceText` is a portrange, the line `RANGE` for it (or the lines per protocol
of an older format, which all installed services have), what `read_service`
makes of a file, and what `services_save_portranges` can write.  `ServiceEditor` is
the section of vuurmuur_conf: the list, the form of a service, the menu of its
ranges, with the files and the rules.  A range that is inserted is checked, one
that is edited in place is not.  Left out: failing system calls of the
backend (`Textdir` has them); names are numbers that order like names.

## 3. The runs

| run | instance | shows |
|---|---|---|
| `reload_one` | one vuurmuur_conf that does not time out but may be killed, both daemons, which may stop or die, 2 edits, 1 outside event | no lost request, vuurmuur_log hears SIGHUPs, success means loaded |
| `reload_live` | one vuurmuur_conf, both daemons, which may stop or die at any moment outside of the lock, 2 edits, fairness | each daemon that stays up gets to every request (`ReloadService` with its liveness); applying ends, also when the daemons go away |
| `shm_lock` | three processes, two values, deaths, removal | whoever reads both values reads them from one critical section |
| `objects` | service, dynamic interface, zone, network, two hosts, group; 3 edits or address changes anywhere | what a reload promises |
| `editor` | zone, network, host, group, two rules, a blocked group; room for a second host, network and zone; 4 operations, 1 failure | counters, pointers, what a restart loads, renames |
| `services` | one service of the new format, one of the old with a text too long to save, a Makefile; two rules; 3 changes, starts and ends of vuurmuur_conf free between them, 3 ranges | what is saved is read; checked ranges load; one range per protocol without ports; a rename keeps rules |
| `textdir` | a zone with a network and a group; room for a second network and a host; vuurmuur_conf and vuurmuur_script, 3 independent commands, 1 failure or death | the files implement `ObjectStore` |
| `textdir_list` | the same tree and the blocklist; one list, another program with 3 commands of any kind | what was there all the time is listed; a loop that reads an object stays in its file and hears all of its list |
| `rules_editor` | three lines on disk (a rule with a limit, a separator, a rule of a removed zone), lists up to 4 rules, 3 keys, restarts or broken saves | keys work on the rule under the cursor, until `+` with every rule hidden; what is saved is read back; the daemon sees every change |
| `rule_policy` | every single rule and ordered pair of 25 rules, on a firewall between two networks, both families, two settings of limits, some 90 packets | policy, follow-up packets, blocklist, logging, address translation, shaping |
| `ruleset_load` | three configurations, one with parts that were passed over, one whose rules name chains of Vuurmuur's, two devices, 2 changes of configuration, failures and restarts anywhere | refused only for a clashing name; success is of one version in all tables; the user's chains and the counters survive |
| `config` | six settings, one of each kind that is read in its own way, two plugins, 2 changes, 3 operations in all | a clean load is what was meant, what was saved is accepted, plugin counts, open backends |

**Bounds.**  Two edits are the least with which an answer can belong to the
wrong edit, and with which a request can arrive during a reload that serves the
previous one; one outside event is enough because the flags it sets do not
count.  In `objects` three edits allow a change during the reload, one between
two reloads, and one more; one object per type suffices for the order of types,
and the group has two possible hosts so that its members can differ.  In
`editor` four operations allow, for instance, create, add to a group, rename,
restart; the second names are there to be renamed to and to clash.  `MaxRef` 31
is more than the objects and lines of the blocklist together (`CountersFit`), so
only an underflow can wrap; `MaxFailures` 1
because a second failure in the same history adds nothing that a later run
of the editor does not meet at its start.  In `textdir` two commands are enough
to overlap and the third one meets what they left; two commands may work on
one object or on a network and what is in it.  One value besides the empty one
suffices, since lists are compared line by line.  In `textdir_list` three commands can
rename the network under the list and put another one in its place.  In
`rules_editor` three keys allow, for instance, filter, insert, move, with the
filter free; `MaxLen` 4 is one more than there is on disk.  Numbers in
`rule_policy` do not matter beyond being equal or not; a pair of rules is the
least with which order, marks and the counter of classes matter, and the pool
has every action, every kind of zone, an inactive rule and an inactive host.
In `ruleset_load` two changes allow a chain to appear and go again.  In `config`
the daemon may already run at the start, so that three operations allow a
change, a reload and a change in it.  In `services` three changes allow to insert,
edit and rename; the numbers range over -9999 to 99999, what the fields take.

The loop of vuurmuur_script (`Scripts`) and several tools at once are in the
model and in its theorems, but in none of the runs: two tools violate
`SuccessMeansLoaded`, and so does vuurmuur_script alone when vuurmuur is down
(section 5).

**Deadlock** is not checked where the system may stop: the runs `reload_one` and
`reload_live`, where daemons may be stopped or dead, `shm_lock`, and the runs whose
operations are bounded (`textdir`, `textdir_list`, `rule_policy`, `ruleset_load`,
`rules_editor`, `config`, `services`).  None of these programs waits for another.

**Fairness** (`reload_live` only).  Every daemon and every tool is a process the
kernel schedules: weak fairness on its steps.  A tool that waits passes the test
of its 60 seconds each turn and `waittime` only grows: strong fairness on
`TimeOut`.  Nobody is obliged to apply, to send signals, to stop, or to die.  The
daemons may stop, which removes the semaphore under the waiting tool, or die and
leave it; the tool returns all the same.  They die outside of the lock, and the tool
is not killed: a semaphore that is never given back is hazard `libvuurmuur.c:184`,
and nothing would follow.

## 4. What is proved

For all values of the constants, by TLAPS.  The inductive invariants are the
argument; each was checked with TLC on the instance of its run first.

**`ReloadIPC_proofs`**: `TypeTheorem`, `NoLostRequestTheorem`, `ResultTheorem`,
`OutcomeTheorem`, `LogHupTheorem`, for any number of tools and of events.  `IInv` joins
these with `VersionsInOrder`: a request is never newer than the backend, so a
reload that starts now covers it; `OutcomeIsComplete` needs
`ResultOnlyWhileWaiting`, since what a tool keeps is a copy of what stood in the table.
`SuccessTheorem` (`SuccessMeansLoaded`) is about one vuurmuur_conf that is alone and
never gives up, which is a hypothesis of the theorem (`Alone`): its `ToolInv`
follows a request from posting to the answer, and with a second tool or a
time-out it is false (section 5).  `VuurmuurServiceTheorem`, `LogServiceTheorem`: every
step of the protocol is a step of `ReloadService` or leaves it alone.
The same module has `MutexTheorem` and `NoTornReadTheorem` of `ShmLock`, whose names
are its own for that: `LockInv` adds to mutual exclusion that a free semaphore
means nobody is inside, that the values are whole when nobody is inside, and
what the holder has seen so far.

**`ReloadObjects_proofs`**, for every tree of objects and whatever is edited while
the daemon reads: `TypeTheorem`, `DependentsTheorem`, `LoadsTheorem`, `StatusTheorem`,
`SecondReloadTheorem`, `SettledTheorem`.  `DependentsInv` says that what has not been visited
is still untouched, that references stay within what is known, and that
kept objects have kept references; with the order of the categories this makes
the status an object looked at final.  `AgreesInv` says how far memory agrees
with the disk during a reload that nothing disturbs, and that what is called
changed or kept is so.

**`TextdirList_proofs`**, for every tree, every number of programs and commands,
with failures and deaths anywhere: `TreeTheorem`, `CompleteTheorem`
(`ListComplete`), `LoopsTheorem` (`LoopsStayInTheirFile`, a part of
`LoopsHearTheirList`).  `PlanInv` says what the
calls of a plan may name, `TreeInv` that every file and directory is in a
directory that is there: a directory goes only when it is empty, and a rename
takes along what is below.  `ListInv` says that an object that stays is listed
already or that its name, or that of a directory on the way to it, is still to
be returned; opening a directory keeps it true because of `TreeInv`.  Nothing is
assumed of which commands overlap (`Careful` may be either).  `LoopInv` says that a
loop over a list finds no file open but the one it is about, because a question
for one value comes before it in every plan and closes what an earlier loop left.
That no line is skipped or comes twice is only model-checked.

**`ZoneEditor_proofs`**, for every backend and any number of operations:
`TypeTheorem`, `PointersTheorem` (`PointersLive`), `ReferencesTheorem`
(`ReferencesCounted`), `FollowTheorem` (`ReferencesFollow`), `RestartTheorem`
(`RestartChangesNothing`).  `BaseInv` types blocks, lists and names, and says that files
are in directories that are there.
`CountInv` says that group lists and interfaces point at what is there and are
counted exactly, `TreeInv` that the name of a child begins with the name of its
parents, `BlockInv` that items of the blocklist name hosts and groups that
count them.  A delete is refused by the counters and by counting children by
name, so pointers stay live because counters and names are right, and an
operation counts right because the pointers it follows are live.
`MirrorInv` says that the files are exactly those of the objects, under unique
names, with what memory says of each; a rename of a directory keeps it because
the objects that `RenamedBelow` changes by name are those whose files are below
(`BelowParents`, false with a twin).  `ListsInv` says that what is blocked has the
name of a host, that the blocklist is saved and that so are the rules, or what a
restart would keep of them.  Each is silent about the harms its property names.

**`Ruleset_proofs`**, for any chains, devices and configurations: `TypeTheorem`,
`WholeTheorem` (`SuccessIsOneVersion`), `CountersTheorem` (`CountersKept`), `RefusedTheorem`
(`NeverRefused`), `UserChainsTheorem` (`UserChainsKept`).  `WholeInv` says which
tables of which family have the version at each point of `load_ruleset`;
`CarriedInv` that the counters that are saved, carried in the lines and put into the
kernel are the same ones.  For the last two the commands of a file are followed
one by one (`RemakeRun`, `KeepRun`, `AppendRun`, put together by `GoesOn`).  `Ordered` says of
every table that its hooks jump anywhere, a chain of Vuurmuur only to chains
that are made anew after it (`Later`), and a chain of the user only to his own.
No command breaks that, whatever was listed (`ExecOrdered`, `CommandsSteps`).  The
chains are flushed and removed in that order, so nothing jumps to the one that
goes (`RemakeOne`); and the chains of the user are never among those that are
flushed (`Kept`).  `ListedInv` says that the list of chains is still right for the
tables that are to come; a daemon that is `blind` is outside of
`NeverRefused`, and so is a configuration whose rules name a chain of Vuurmuur's
(`Clashes`).

The second half is about `RulePolicy`, for every list of rules, every zone, service,
interface, setting and capability of iptables, and every packet:
`BlockedTheorem` (`BlockedOut`) and `LogsTheorem` (`LogsWhatItDecides`).  The
invariant, `Created`, has two parts.  A ruleset for IPv4 is `Sealed` from the moment
the rules before those of the user are made: in every hook there is a jump to
`BLOCKLIST` with nothing in front of it that lets a new connection through
(`Guarded`), for every blocked address there are two lines there, `BLOCK` drops,
and no line in either chain does anything else (`Sound`).  Lines are only added at
the end, and those of a rule are in the hooks (`InBase`), so nothing undoes it; that
each of the forty kinds of line before, around and behind the rules is `Sound` or `Tame` is
shown for each.  `WalkDrops` then follows a packet through the chains.  And the
queue of a rule that logs has in front of each line that decides one that logs
and is otherwise the same (`LogsFirst`).  It holds of the lines of one pair of a source and
a destination (`OptionsLemma`: the calls of `Calls` come in pairs, and the lines of
`CallWays` depend on the target in nothing else); and the loops keep it, since the queue
leaves out only lines that it has already (`QueueLemma`) and a line that is there has
its log line in front of it.  `RuleInv` is what all the nested loops keep, from
`EmitInv` at the bottom to `CreateRuleInv` at the top, one induction for each.
`ClassesTheorem` (`ClassesSound`) is carried by the same invariants.  The classes of
the interfaces come first and have numbers below the counter `handle`
(`RootsLemma`); a rule that is shaped takes the next two, one per direction, uses
no other (`ClassInv`), and hangs what it makes on a class of an interface (`Rooted`),
so `ClassesKept` follows for the whole file: one class per name, parents in front.
The lines of a rule go to a class that the rule makes for the pair of interfaces they
are about, and `ServiceLoop` writes the lines before `ShapeRules` makes the class: inside
of the loops `RuleInv` counts what is pending (`Pending`), and what holds between two
interfaces, `OuterInv`, no longer does.  What is left out is what `ClassesSound`
leaves out: a rule with bandwidth for one direction only, and the helper of a rule
that enters the firewall (section 5).

**`ConfigReload_proofs`**, for any selection of settings, whatever is typed, edited and
cut off: `CountedTheorem` (`PluginsCounted`), `ServesTheorem` (`ServesWithItsConf`),
`ReadBackTheorem` (`SavedIsAccepted`), `CleanTheorem` (`CleanLoad`).  `BackendsInv`
says that the table of a plugin is there exactly while categories point at it, and
whether all four are served; what is read from the files does not matter for
it, only that names of plugins change while nothing is served.
`ConfigInv` is about the texts.  Every value in memory and in a file that was saved
is one that reading leaves as it is (`Accepted`), since values get there only by
reading, which turns a wrong one into a default, and by forms that check; a
file that was cut is a beginning of what was to be saved (`Beginning`); and a daemon that
has read so far without a code has found every line so far (`QuietSoFar`).  A save
is then read back setting by setting, although settings are written in another
order than they are read.  `CleanTheorem` has a hypothesis: the instance follows
`PROTECT_ECHOBROADCAST`.  It is what the code writes last and warns about when it
is missing (`config.c:2055, 1365`), and nothing else tells a file that was cut from
a whole one.  The facts about the table this needs (`EchoIsLast`, `LogDirLast`,
`LinesFacts`) are proved from its definition.

**`ServiceEditor_proofs`**, for every directory of services, any number of changes and
whatever is entered: `TypeTheorem`, `SavedTheorem` (`SavedIsRead`), `LoadsTheorem`
(`CheckedRangesLoad`), `RulesTheorem` (`RulesNameServices`), `OneRangeTheorem`
(`OneRangeWithoutPorts`).  `SavedInv` says that the file of every service that is called
saved has its fields and its ranges; a save that ends anywhere keeps that
(`SaveStep`), since it takes the mark from all services of the name.
`ReadableInv` says that the files can be read and that what would be written of
memory can be; it holds as long as nothing unchecked came in.  `RulesInv` adds to
the property that the backend's rules name nothing else than those in memory
but what is excused.  Two theorems have a hypothesis: `OldRows(DiskServices)`, that
the lines of the older format can be read also in files that have `RANGE`, since
they are looked at once the last range is deleted, and for `LoadsTheorem` also
`NewRows(DiskServices)`, that the `RANGE` lines can be.

**`RulesEditor_proofs`**, for every list of rules on disk, any length and any number of
keys: `NumbersTheorem`, `CursorTheorem` (`OnlyTheRuleUnderTheCursor`), `SavedTheorem`
(`SavedIsReadBack`), `ReloadTheorem` (`ReloadSeesEveryChange`).  The invariant says
that the number of a rule is its place in the list and that identities are not
used twice, until a rule is doubled; from there on only the types are kept
(`LooseKey` and the lemmas after it), and the first two theorems say no more
than that.  The key finds the right rule because, up to any place, the rules
that are shown and those that are hidden add up to that place; and a key that
inserts, deletes or moves makes two lists of which one is the other without one
of its rules, so all the others keep their text.  `SavedInv` says that after a
complete save the backend holds the lines of the list; it gives the property because
what was written, read, and written again is the same (`HeldAgain`,
`OptionsAgain`), although a rule that is read back need not be the rule that was
written.  The last property is its own invariant: the daemon keeps its list
only where `RulesDiffer` compares everything that a line holds.

An induction theorem with an operator as its parameter cannot be used;
`Ruleset_proofs`, `ZoneEditor_proofs`, `RulesEditor_proofs` and `ConfigReload_proofs`
prove induction over the natural numbers in the form of sets (`NatSets`), for the
commands of a file, lists and counters, and the settings of a file.

The proofs assume what the `ASSUME`s name.  `PathsAssumption`, `TextdirAssumption`: a
flat object has a path of two names, and the tree of the start holds with an
object what is above it.  `CountersFit`: the objects and lines of the blocklist
are fewer than `MaxRef`, so that a counter wraps only below zero; in the code
it has 32 bits.  `ReloadObjects`: types do not share names, and a host is in the
zone of its network.  `NamesAssumption`: `ACC-` with the name of a
device is no other chain's name, rules name finitely many chains and not `MINE`, which
stands for those the user keeps for himself.  `LostAssumption`: what can be missing
because its part failed are jumps of the queue, blocklist and rules.  `TextsAssumption`:
the defaults are texts of their kind, and a value that is cut short is no other
word for yes or no and, if it was a full path, one still or empty.
`InputsAssumption`: what is typed fits the buffer (the fields of the forms are
shorter), and a file that is named by hand is or becomes a full path.
`PacketsAssumption`: packets that are asked about open a connection and do not
pass the loopback interface, which is accepted before anything else.
`HandlesAssigned`: the interfaces that are shaped have the numbers 2, 3, ... in
the order of their list, which is how `shaping_setup_roots` gives them.
`RulesetAssumption`, `PluginsAssumption`, those of `ReloadIPC`, and `RuleListsAssumption` and
`ListsAssumption` (a list is a sequence, a zone one of four kinds, an interface of a
network or of an option one of the list of interfaces, and a rule has the options
the code reads) only type the constants.

**Only model-checked**: all liveness, with that of `ReloadService` (out of TLAPS'
reach); the refinement of `ObjectStore` by `Textdir`; and three properties of
`RulePolicy`, `PolicyExact`, `FollowUp` and `NatPaired`, whose meaning of a rule would
have to be found again in all lines of all rules together.  **Only proved**, not
among the properties of a run: `MutualExclusion`, `OutcomeIsComplete`,
`ResultOnlyWhileWaiting`, and the inductive invariants.

## 5. Where code and promise disagree

None of these has a run of its own; the properties are stated so that they hold
of the code as it is, and say what they leave out.

**Applying changes and reloading**

- Result and 100% stand for up to 30 seconds, and a second tool that posts a
  change meanwhile takes them for its own answer (`vuurmuur.c:731`; the comment
  at 702 and `vuurmuur.hlp:893` promise the result of the reload).
- An `else` in the wrong place makes vuurmuur_script drop vuurmuur_log as soon as
  it looks before 100% (`script_apply.c:232`; `ScriptDropsLog`).  When vuurmuur is
  down it then leaves at once, and its next start may read the result that is
  still there as its own.
- A SIGHUP during a reload is forgotten by vuurmuur (`vuurmuur.c:776`);
  vuurmuur_log does it right.
- After a failed apply vuurmuur_conf believes that vuurmuur is not running and
  applies nothing until it is restarted (`mainmenu.c:518, 1521`; `MayApply`, `Refuse`).
- A semaphore held by a process that dies is lost (`libvuurmuur.c:184`).
- Networks and hosts of a zone that is deactivated stay active until the daemon
  is restarted (`reload.c:810`).  Removed objects keep their `active` flag, and
  nothing outside `reload.c` reads `ST_REMOVED` (`reload.c:670`).
- Shaping and TCP MSS settings of an interface and the broadcast setting of a
  service are not compared: a change of these alone is not loaded (`reload.c:1367`).
- A removed dynamic interface whose device changes makes the daemon reload at
  every check (`reload.c:2027`); `OnlyRemovedUnsettled` says it is the only case.
- `reload_interfaces` tests `retval` where it means `result` (`reload.c:1315`).
- New groups are checked when the daemon starts and not when it reloads.

**Zones, blocklist and the backend**

- Renaming a network also renames the network of the same name in other zones,
  in rules, blocklist and memory, but not its files (`zones_section.c:3355`).
- Renaming a zone writes `.zone` into the rules that name the zone as a whole;
  nothing reads that back and the rule is dropped (`zones_section.c:3525`; `Broken`).
- A rename that stops halfway leaves the old name in rules, blocklist and group
  files.  Renaming to the name of an existing host or group overwrites its file
  (`textdir_plugin.c:1243`); vuurmuur_script looks first, vuurmuur_conf does not.
- A host that is inactive when it is blocked can be deleted while it is in the
  blocklist (`blocklist.c:175`); a host is inactive when it is created.
- A delete that fails leaves counters too low; the next delete may then leave a
  dangling pointer (`zones.c:784`).
- `blocklist_write_file` writes lines that `blocklist_read_file` does not read
  back as the same items (`blocklist.c:583`).
- `vuurmuur_script --append` to a list that still has the empty line of the
  template (`textdir_plugin.c:696`) stores a value that nobody sees, because `ask`
  ends at an empty value (`textdir_ask.c:208`).
- A loop over a list that is left halfway leaves the file open, and the next loop goes
  on from there even if it is about something else (`textdir_ask.c:84-103`).  The
  rules and the blocklist share one backend and ask for nothing else first
  (`rules.c:717-770`, `blocklist.c:522-548`): after a load of the blocklist that gave up,
  the next load of either misses lines.  `LoopsHearTheirList` is about the lists of
  objects, and about those two only while no loop was left.
- `vuurmuur_script` offers to delete and rename rulesets; the backend knows neither
  (`textdir_plugin.c:1058, 1254`).
- An `add` or `del` of a zone or network that is cut short leaves directories that
  can be neither added nor deleted (`textdir_plugin.c:599`).
- Two programs that change one object lose a change (`textdir_tell.c:88-350`).  A
  change of a network or zone that is being deleted can make its file again
  without the directories below, and one of a host or group that is being
  renamed makes a file of the old name (`textdir_tell.c:324`).

**Rules in vuurmuur_conf**

- A rule that is inserted and left empty is saved and gone after the next load;
  so is one whose log prefix holds a quote.  The line "# end of file so we know all
  went fine" (`rules.c:1409`) is looked for by nobody.
- A save that fails midway cuts the list (`rules.c:1424`); the changes stay in
  memory and look saved.
- A rule whose options come to more than 256 characters is saved without any
  (`rules.c:1335`).  `newrule_logburst` and the flag of an inactive separator are
  never written.
- With the cursor on an empty bar a new rule is put at the top of the list.
- With a filter that hides every rule, `+` puts the last rule of the list into it a
  second time, at the top (`rules_form.c:2169`; the keys at 1944, 1996, 2106, 2123 and
  2139 also ask for a number above 0).  Both places are one struct: an edit changes
  both, the next save writes the rule twice, and deleting one frees the other.
  `OnlyTheRuleUnderTheCursor` is about histories without it.

**The ruleset**

- Forwarding is one setting for both families and is written once per family
  (`createrule.c:4513`), IPv6 last: rules that forward IPv4 only end with
  forwarding switched off, against the comment at 4385.
- A rule between the firewall and a network ignores `in_int` and `out_int`
  (`vuurmuur.hlp:692`).  An IPv6 line for a host that only has IPv4 has no address
  at all (`rules.c:1440`).
- The jump to the blocklist comes after the lines for established traffic:
  `BlockedOut` is about new connections.
- In a rule with a limit the mark line of the mangle table has none (see section
  2), nor has the line for broadcasts.
- Shaping swaps rates of the two directions, and sends traffic to classes that
  are not made when only one rate is given; `shape_default_rate` can be 0
  (`shape.c:475`).
- For a rule from a zone to the firewall `create_rule_input` sends the answers of a
  helper to `shape_class_out` of the interface they leave by (`createrule.c:878`); what is
  made there is `shape_class_in` (`rules.c:1816`), which `create_rule_forward` names
  (`createrule.c:1799`).  The class does not exist, so these connections do not get
  "the ammount of bandwidth the rule is guaranteed to have" (`vuurmuur.hlp:719`).
  `ClassesSound` is about all other lines: without its exception for `OfHelper` a
  single rule, the first of the pool of `rule_policy`, violates it.
- `ipv4_to.broadcast` is never assigned; a service of another protocol keeps the
  ports of the one before; with `rule_nflog` the test for "LOG" misses NFLOG lines.
- A limit of 0 makes the whole ruleset fail even where limits are not used.
- Parts that fail while the ruleset is made are passed over, among them all rules,
  and a load without them succeeds (`ruleset.c:1332-1367`); so does one in whose script
  any command of tc but the last failed, which is run without `set -e`
  (`ruleset.c:388-405, 1271-1283`).  A success means that all tables are of the version
  that was asked for, not that nothing is missing (`SuccessIsOneVersion`).
- The counters of `ACC-*` chains are lost at every load (`interfaces.c:1581`).
- A rule may name a chain of the user's like one of Vuurmuur's (`rules.c:3382`
  compares only names of rules).  It is then made twice (`ruleset.c:812`), and a
  load that does not find it there is refused (`NeverRefused` excuses only this).
- iptables-restore commits per table: when `filter` fails the other tables are
  new, and when IPv6 fails IPv4 is.  A load that fails while it creates has
  already switched forwarding, and leaves its counters to the next one.
- `vuurmuur -C` and `-D` leave the raw table as it is (`rules.c:2733`), against
  `vuurmuur.8:43`.

**Configuration and backends**

- The log level of the command line is lost at every reload (`config.c:1769`),
  although `reload.c:69` says that it is applied again.
- The file is opened and searched anew for every setting while it may be
  rewritten, and most missing settings have a default without a warning: a
  reload can take a mixture (`CleanLoad` is about files that do not change
  meanwhile).
- A missing or unusable log directory is accepted and the names of the logs stay
  unset, although the warning says that the default is used (`config.c:1673`).
- The form of the plugins accepts any name, also an empty one.  A load of backends
  that fails leaves null functions behind, and the next reload or the end of the
  daemon calls one of them.
- When the root of the store was unusable at one load, closing it is refused and
  every later reload fails until a restart.
- The default of `BLOCKLISTFILE` is misspelled.  A quoted value that is too long is
  cut and accepted (`config.c:1868`).

**Services**

- A range whose text has more than 23 characters ends the save (`services.c:978`),
  now and at every later save; the installed service traceroute has one.
- A range that is edited in place is not checked (`services_section.c:1407`): a port
  above 65535 is saved, and then no program loads the services.  A negative
  port is read back as its absolute value.
- Deleting all ranges of an installed service brings its old ones back
  (`services.c:240`).
  When those cannot be read, no program loads the services any more.
- Choosing no protocol for a new range goes on with uninitialised memory
  (`services_section.c:1257`), and of a protocol that is not TCP or UDP not every
  number is looked at.
- A rename that is broken off while the rules are saved leaves old names in the
  backend's rules; a service that is made with the old name and renamed in turn
  leaves them again (`services_section.c:2437`), since only rules in memory are
  looked at.
- `rename_service` does not look whether the new name is free, `delete_service`
  does not look for rules, and `new_service` keeps a service whose file could not
  be made.

## 6. Not modelled, and what is left

- `io.c`: pid files and the lock of the rules file are a test followed by an
  `fopen`; that this excludes nobody needs no model.
- The pipeline of vuurmuur_log: following the log depends on what stdio does at
  the end of a growing file, and on the text of lines.
- `conntrack.c`, `conn_sec.c`: read, group and draw, anew each time.
- `iptcap.c`, the screens, help, lists and hashes, the log and process wrappers,
  shell scripts: input and output, or containers for which the models use sets
  and sequences.
- Protect rules and addresses of networks, new and renamed interfaces, reload of
  the blocklist.

Not proved, though it could be: the refinement of `ObjectStore` by `Textdir`; and a
composition of `ReloadIPC` with `ReloadObjects`, in which "success" would mean what
`LoadsWhatIsThere` says.

## 7. Running

    tlc -workers 2 -config ReloadIPC_one.cfg MCReloadIPC.tla
    tlapm ReloadIPC_proofs.tla

`PROJECT.json` lists runs, properties, mutants (a changed definition that each
property must detect; the operators named `X_Y` next to `X`), and the lines each definition
stands for.
