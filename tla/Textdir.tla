------------------------------- MODULE Textdir -------------------------------
(***************************************************************************)
(* The textdir backend: objects as files and directories, changed by       *)
(* several programs that know nothing of each other.                       *)
(*                                                                         *)
(* A command of a program is a plan: the system calls it will make, in     *)
(* order.  One step makes one of them, so that other programs come in      *)
(* between, a call can fail and a program can die after any of them.       *)
(* A file is shorter than a stdio buffer: it is read in one step.          *)
(***************************************************************************)
EXTENDS ObjectPaths, Functions

CONSTANTS
    Values,      \* values of settings, "" among them
    Progs,       \* programs at work
    Scripts,     \* those of them that are vuurmuur_script
    Kinds,       \* the kinds of commands in this instance
    There,       \* the objects at the start
    Careful,     \* only independent commands overlap
    MaxCalls,    \* bound: commands
    MaxStops     \* bound: calls that fail for an outside reason, programs that die

(* What is there at the start belongs to what is there. *)
ASSUME TextdirAssumption ==
    /\ There \subseteq Objects /\ Scripts \subseteq Progs /\ "" \in Values
    /\ \A o \in There, a \in Objects : Above(a, o) => a \in There
    /\ MaxCalls \in Nat /\ MaxStops \in Nat /\ Careful \in BOOLEAN

VARIABLES
    dirs,     \* the directories
    files,    \* path -> the inode of a file
    content,  \* inode -> its lines
    cmd,      \* program -> the command it executes
    todo,     \* program -> the system calls left
    buf,      \* program -> the lines it is about to write
    fd,       \* program -> the inode it has open for writing, 0: none
    cursor,   \* program -> the file that ask keeps open between calls
    heard,    \* history: program -> what its latest loop over a list has heard
    calls, stops

disk  == <<dirs, files, content>>
prog  == <<cmd, todo, buf, fd, cursor, heard>>
vars  == <<disk, prog, calls, stops>>

Inodes == 1 .. Cardinality(Objects) + Cardinality(Progs)
Roots  == {<<"zones">>, <<"services">>, <<"interfaces">>, <<"rules">>}
Lines  == [var : Vars, val : Values]

-----------------------------------------------------------------------------
(* Commands and their plans. *)

CallTo(what, path, to) ==
    [do |-> what, path |-> path, to |-> to, var |-> "", val |-> "", overwrite |-> TRUE]
CallFor(what, path, var, val, overwrite) ==
    [do |-> what, path |-> path, to |-> <<>>, var |-> var, val |-> val, overwrite |-> overwrite]
Call(what, path) == CallTo(what, path, <<>>)

AddPlan(o) ==
    LET made == CASE TypeOf(o) = "zone" -> <<Place(o), Place(o) \o <<"networks">>>>
                  [] TypeOf(o) = "network" -> <<Place(o), Place(o) \o <<"hosts">>, Place(o) \o <<"groups">>>>
                  [] OTHER -> <<>>
    IN  <<Call("absent", o)>> \o [i \in 1 .. Len(made) |-> Call("mkdir", made[i])]
        \o <<Call("create", o), Call("fill", o)>>

(* A mistake: the file goes before the directories are seen to be empty. *)
DelPlan_FileFirst(o) ==
    CASE TypeOf(o) = "network" ->
            << Call("present", o), Call("unlink", o), Call("rmdir", Place(o) \o <<"hosts">>),
               Call("rmdir", Place(o) \o <<"groups">>), Call("rmdir", Place(o)) >>
      [] TypeOf(o) = "zone" ->
            << Call("present", o), Call("unlink", o),
               Call("rmdir", Place(o) \o <<"networks">>), Call("rmdir", Place(o)) >>
      [] TypeOf(o) = "rules" -> <<Call("present", o)>>
      [] OTHER -> <<Call("present", o), Call("unlink", o)>>

(* The hosts directory is made again when that of the groups has to stay.  *)
(* A ruleset is neither deleted nor renamed: both know nothing of them.    *)
DelPlan(o) ==
    LET hosts == Place(o) \o <<"hosts">>
    IN  <<Call("present", o)>>
        \o (CASE TypeOf(o) = "network" ->
                    << Call("rmdir", hosts),
                       CallTo("rmdir", Place(o) \o <<"groups">>, hosts),
                       Call("unlink", o), Call("rmdir", Place(o)) >>
              [] TypeOf(o) = "zone" ->
                    <<Call("rmdir", Place(o) \o <<"networks">>), Call("unlink", o), Call("rmdir", Place(o))>>
              [] TypeOf(o) = "rules" -> <<>>
              [] OTHER -> <<Call("unlink", o)>>)

RenamePlan(o, new) ==
    IF TypeOf(o) = "rules" THEN <<>>
    ELSE <<CallTo("rename", Place(o), Place(new))>>

TellPlan(o, var, val, overwrite) ==
    <<CallFor("read", o, var, val, overwrite), Call("truncate", o), Call("write", o)>>

(* A list is saved value by value: the first one replaces the old list. *)
SavePlan(o, vals) ==
    IF vals = <<>> THEN TellPlan(o, "LIST", "", TRUE)
    ELSE [i \in 1 .. 3 * Len(vals) |->
            LET n == 1 + (i - 1) \div 3
            IN  TellPlan(o, "LIST", vals[n], n = 1)[i - 3 * (n - 1)]]

(* Who reads a list asks first whether the object is active, if it has     *)
(* such a setting; rules and blocklist have not.                           *)
LoadPlan(o) ==
    (IF "ACTIVE" \in VarsOf(o) THEN <<CallFor("ask", o, "ACTIVE", "", TRUE)>> ELSE <<>>)
    \o <<CallFor("asknext", o, "LIST", "", TRUE)>>

(* vuurmuur_script looks the name up in a list before it does anything. *)
Looks(c) ==
    CASE c.do = "add" -> <<Call("absent", c.obj)>>
      [] c.do = "rename" -> <<Call("present", c.obj), Call("absent", c.new)>>
      [] OTHER -> <<Call("present", c.obj)>>

Plan(c) ==
    CASE c.do = "add" -> AddPlan(c.obj)
      [] c.do = "del" -> DelPlan(c.obj)
      [] c.do = "rename" -> RenamePlan(c.obj, c.new)
      [] c.do = "tell" -> TellPlan(c.obj, c.var, c.vals[1], c.overwrite)
      [] c.do = "save" -> SavePlan(c.obj, c.vals)
      [] c.do = "ask" -> <<CallFor("ask", c.obj, c.var, "", TRUE)>>
      [] c.do = "load" -> LoadPlan(c.obj)

Setting(do, o, var, vals, overwrite) ==
    [do |-> do, obj |-> o, new |-> o, var |-> var, vals |-> vals, overwrite |-> overwrite]
Renaming(o, new) ==
    [do |-> "rename", obj |-> o, new |-> new, var |-> "LIST", vals |-> <<>>, overwrite |-> TRUE]
Saving(o, vals)  == Setting("save", o, "LIST", vals, TRUE)
Asking(o, var)   == Setting("ask", o, var, <<>>, TRUE)
Command(do, o)   == Setting(do, o, "LIST", <<>>, TRUE)
NoCommand == Command("none", <<>>)

HasList(o) == "LIST" \in VarsOf(o)
Vals == Values \ {""}

(* A saved list is empty or has two values. *)
SomeCommand ==
    {Command(k, o) : k \in {"add", "del", "load"}, o \in Objects}
    \cup {Renaming(o, n) : o \in Objects, n \in Objects}
    \cup {Setting("tell", o, v, <<x>>, w) : o \in Objects, v \in Vars, x \in Values, w \in BOOLEAN}
    \cup {Saving(o, s) : o \in Objects, s \in {<<>>} \cup [1 .. 2 -> Vals]}
    \cup {Asking(o, v) : o \in Objects, v \in Vars}

(* vuurmuur_script changes one value or appends one, vuurmuur_conf saves   *)
(* whole lists; an appended value is not empty.  Questions are those of    *)
(* vuurmuur_conf, which goes on after them.                                *)
Gives(p, c) ==
    /\ c.do \in Kinds
    /\ c.var \in VarsOf(c.obj) \/ c.do \notin {"tell", "save", "ask", "load"}
    /\ c.do = "rename" => c.new # c.obj /\ TypeOf(c.new) = TypeOf(c.obj)
    /\ c.do = "tell" => \/ c.overwrite /\ (p \in Scripts \/ c.var = "ACTIVE")
                        \/ p \in Scripts /\ c.var = "LIST" /\ c.vals # <<"">>
    /\ c.do \in {"save", "ask", "load"} => p \notin Scripts

Commands(p) == {c \in SomeCommand : Gives(p, c)}

(* Commands that may overlap without one spoiling the other. *)
Touched(c) == {c.obj, c.new}
Independent(c, d) ==
    \A x \in Touched(c), y \in Touched(d) :
        /\ x = y => {c.do, d.do} \subseteq {"add", "del", "none"}
        /\ Above(x, y) => c.do \notin {"add", "rename"}
        /\ Above(y, x) => d.do \notin {"add", "rename"}

-----------------------------------------------------------------------------
(* Lines of a file. *)

Positions(lines, var) == {i \in 1 .. Len(lines) : lines[i].var = var}
ValuesOf(lines, var) ==
    LET found == SelectSeq(lines, LAMBDA l : l.var = var) IN [i \in 1 .. Len(found) |-> found[i].val]

(* The lines tell writes: the first line of the variable is replaced and   *)
(* the others go, or a line is added after the last one.                   *)
Told(lines, var, val, overwrite) ==
    LET new   == [var |-> var, val |-> val]
        found == Positions(lines, var)
    IN  IF found = {} THEN Append(lines, new)
        ELSE IF overwrite
        THEN SubSeq(lines, 1, Min(found) - 1) \o <<new>>
             \o SelectSeq(SubSeq(lines, Min(found) + 1, Len(lines)), LAMBDA l : l.var # var)
        ELSE InsertAt(lines, Max(found) + 1, new)

(* What add_textdir writes into a new file. *)
Template(o) ==
    LET Line(v) == IF v \in VarsOf(o) THEN <<[var |-> v, val |-> ""]>> ELSE <<>>
    IN  Line("ACTIVE") \o Line("LIST")

(* Lines written from the start of a file that another one wrote as well. *)
Overlay(new, old) == new \o SubSeq(old, Len(new) + 1, Len(old))

-----------------------------------------------------------------------------
(* System calls. *)

Exists(p) == p \in dirs \/ p \in DOMAIN files
Below(p)  == {x \in dirs \cup DOMAIN files : x # <<>> /\ Front(x) = p}
UsedInodes == Range(files) \cup {fd[q] : q \in Progs}
FreeInode == CHOOSE i \in Inodes : i \notin UsedInodes
CanMake(p) == ~Exists(p) /\ Front(p) \in dirs

With(p, i)  == [x \in DOMAIN files \cup {p} |-> IF x = p THEN i ELSE files[x]]
Without(p)  == [x \in DOMAIN files \ {p} |-> files[x]]
Emptied(c, i) == IF i \in Inodes THEN [c EXCEPT ![i] = <<>>] ELSE c

CanRename(p, q) ==
    /\ Exists(p) /\ Front(q) \in dirs
    /\ p \in DOMAIN files => q \notin dirs
    /\ p \in dirs => q \notin DOMAIN files /\ Below(q) = {}

Renamed(p, q) ==
    LET stay  == DOMAIN files \ {q}
        Old(x) == CHOOSE y \in stay : MovedPath(p, q, y) = x
    IN  /\ dirs' = {MovedPath(p, q, d) : d \in dirs \ {q}}
        /\ files' = [x \in {MovedPath(p, q, y) : y \in stay} |-> files[Old(x)]]
        /\ content' = IF q \in DOMAIN files THEN Emptied(content, files[q]) ELSE content

-----------------------------------------------------------------------------
Closed == [lines |-> <<>>, of |-> <<>>]
Silence == [of |-> <<>>, from |-> <<>>, due |-> <<>>, gone |-> <<>>, late |-> FALSE, over |-> FALSE]

Init ==
    LET old == SetToSeq(There)
    IN  /\ dirs = Roots \cup UNION {OwnDirs(o) : o \in There}
        /\ files = [o \in There |-> CHOOSE i \in 1 .. Len(old) : old[i] = o]
        /\ content = [i \in Inodes |-> IF i <= Len(old) THEN Template(old[i]) ELSE <<>>]
        /\ cmd = [p \in Progs |-> NoCommand] /\ todo = [p \in Progs |-> <<>>]
        /\ buf = [p \in Progs |-> <<>>] /\ fd = [p \in Progs |-> 0]
        /\ cursor = [p \in Progs |-> Closed] /\ heard = [p \in Progs |-> Silence]
        /\ calls = 0 /\ stops = 0

Idle(p) == todo[p] = <<>>

Begin(p) ==
    /\ Idle(p) /\ calls < MaxCalls
    /\ \E c \in Commands(p) :
        /\ Careful => \A q \in Progs : ~Idle(q) => Independent(c, cmd[q])
        /\ cmd' = [cmd EXCEPT ![p] = c]
        /\ todo' = [todo EXCEPT ![p] = (IF p \in Scripts THEN Looks(c) ELSE <<>>) \o Plan(c)]
    /\ ~Idle(p)'
    /\ calls' = calls + 1
    /\ heard' = [heard EXCEPT ![p] = Silence]
    /\ UNCHANGED <<disk, buf, fd, cursor, stops>>

At(p, what) == ~Idle(p) /\ Head(todo[p]).do = what
Path(p) == Head(todo[p]).path

Leaves(p, rest) ==
    /\ todo' = [todo EXCEPT ![p] = rest]
    /\ cmd' = [cmd EXCEPT ![p] = IF rest = <<>> THEN NoCommand ELSE @]

(* The call succeeded: on with the next one. *)
Goes(p) == Leaves(p, Tail(todo[p]))

(* The call failed: the command is over, but for the directory that is     *)
(* made again.                                                             *)
Fails(p) ==
    /\ Leaves(p, IF At(p, "rmdir") /\ Head(todo[p]).to # <<>>
                 THEN <<Call("mkdir", Head(todo[p]).to)>> ELSE <<>>)
    /\ buf' = [buf EXCEPT ![p] = <<>>] /\ fd' = [fd EXCEPT ![p] = 0]

(* A call that may fail, does p to the disk if not, and nothing if it does. *)
Tries(p, may, does) ==
    /\ IF may THEN does /\ Goes(p) /\ UNCHANGED <<buf, fd>>
              ELSE Fails(p) /\ UNCHANGED disk
    /\ UNCHANGED <<cursor, heard, calls, stops>>

Look(p) ==
    /\ At(p, "present") \/ At(p, "absent")
    /\ Tries(p, At(p, "present") <=> Path(p) \in DOMAIN files, UNCHANGED disk)

Mkdir(p) ==
    /\ At(p, "mkdir")
    /\ Tries(p, CanMake(Path(p)), dirs' = dirs \cup {Path(p)} /\ UNCHANGED <<files, content>>)

Rmdir(p) ==
    /\ At(p, "rmdir")
    /\ Tries(p, Path(p) \in dirs /\ Below(Path(p)) = {},
             dirs' = dirs \ {Path(p)} /\ UNCHANGED <<files, content>>)

Unlink(p) ==
    /\ At(p, "unlink")
    /\ Tries(p, Path(p) \in DOMAIN files,
             /\ files' = Without(Path(p)) /\ content' = Emptied(content, files[Path(p)])
             /\ UNCHANGED dirs)

Rename(p) ==
    /\ At(p, "rename")
    /\ Tries(p, CanRename(Path(p), Head(todo[p]).to), Renamed(Path(p), Head(todo[p]).to))

(* open with O_EXCL: the file must not be there. *)
Create(p) ==
    /\ At(p, "create")
    /\ IF CanMake(Path(p))
       THEN /\ files' = With(Path(p), FreeInode) /\ fd' = [fd EXCEPT ![p] = FreeInode]
            /\ Goes(p) /\ UNCHANGED <<dirs, content, buf>>
       ELSE Fails(p) /\ UNCHANGED disk
    /\ UNCHANGED <<cursor, heard, calls, stops>>

(* Writes to the inode, whether it still has a name or not. *)
Writes(p, lines) ==
    /\ content' = IF fd[p] \in Range(files)
                  THEN [content EXCEPT ![fd[p]] = Overlay(lines, @)] ELSE content
    /\ fd' = [fd EXCEPT ![p] = 0] /\ buf' = [buf EXCEPT ![p] = <<>>]
    /\ Goes(p)
    /\ UNCHANGED <<dirs, files, cursor, heard, calls, stops>>

Fill(p) == At(p, "fill") /\ Writes(p, Template(Path(p)))

Read(p) ==
    LET s == Head(todo[p])
    IN  /\ At(p, "read")
        /\ IF Path(p) \in DOMAIN files
           THEN /\ buf' = [buf EXCEPT ![p] = Told(content[files[Path(p)]], s.var, s.val, s.overwrite)]
                /\ Goes(p) /\ UNCHANGED fd
           ELSE Fails(p)
        /\ UNCHANGED <<disk, cursor, heard, calls, stops>>

(* fopen with "w+": a file that is there is emptied, one that is not made. *)
Truncate(p) ==
    /\ At(p, "truncate")
    /\ IF Path(p) \in DOMAIN files
       THEN /\ content' = Emptied(content, files[Path(p)])
            /\ fd' = [fd EXCEPT ![p] = files[Path(p)]]
            /\ Goes(p) /\ UNCHANGED <<dirs, files, buf>>
       ELSE IF CanMake(Path(p))
       THEN /\ files' = With(Path(p), FreeInode) /\ fd' = [fd EXCEPT ![p] = FreeInode]
            /\ Goes(p) /\ UNCHANGED <<dirs, content, buf>>
       ELSE Fails(p) /\ UNCHANGED disk
    /\ UNCHANGED <<cursor, heard, calls, stops>>

Write(p) == At(p, "write") /\ Writes(p, buf[p])

-----------------------------------------------------------------------------
(* Questions.  ask(multi) leaves the file open behind a value and goes on  *)
(* there at the next call, whatever object that call names.                *)

Opened(o) == [lines |-> content[files[o]], of |-> o]

(* The first value of the variable, the lines up to it, and those behind it. *)
Answer(from, var) ==
    LET found == Positions(from.lines, var)
    IN  IF found = {} THEN [val |-> "", by |-> from.lines, rest |-> <<>>]
        ELSE [val |-> from.lines[Min(found)].val,
              by |-> SubSeq(from.lines, 1, Min(found)),
              rest |-> SubSeq(from.lines, Min(found) + 1, Len(from.lines))]

(* A mistake: does not touch the file that a loop has left open. *)
AskOne_LeavesOpen(p) ==
    /\ At(p, "ask")
    /\ IF Path(p) \in DOMAIN files THEN Goes(p) /\ UNCHANGED <<buf, fd>> ELSE Fails(p)
    /\ UNCHANGED <<disk, cursor, heard, calls, stops>>

(* multi = 0: a file that is still open is closed first, and the own one   *)
(* in the end.                                                             *)
AskOne(p) ==
    /\ At(p, "ask")
    /\ cursor' = [cursor EXCEPT ![p] = Closed]
    /\ IF Path(p) \in DOMAIN files THEN Goes(p) /\ UNCHANGED <<buf, fd>> ELSE Fails(p)
    /\ UNCHANGED <<disk, heard, calls, stops>>

(* History.  A loop over the list of an object begins: what its file holds *)
(* now, and whether a loop before has left a file open.                    *)
Begun(p) ==
    IF heard[p].of # <<>> THEN heard[p]
    ELSE [Silence EXCEPT !.of = Path(p), !.late = cursor[p].of # <<>>,
                         !.due = IF Path(p) \in DOMAIN files THEN content[files[Path(p)]] ELSE <<>>]

(* The answer came from a file, and these lines of it went by. *)
Hears(p, from, lines, over) ==
    heard' = [heard EXCEPT ![p] = [Begun(p) EXCEPT !.from = from, !.gone = @ \o lines, !.over = over]]

(* multi = 1: an empty value or the end of the file ends the loop of the   *)
(* caller.  A caller that does not like a value leaves its loop, and the   *)
(* file stays open.                                                        *)
AskNext(p) ==
    /\ At(p, "asknext")
    /\ IF cursor[p].of = <<>> /\ Path(p) \notin DOMAIN files
       THEN Fails(p) /\ UNCHANGED <<cursor, heard>>
       ELSE LET from == IF cursor[p].of = <<>> THEN Opened(Path(p)) ELSE cursor[p]
                next == Answer(from, Head(todo[p]).var)
            IN  /\ \/ /\ next.val = "" /\ Goes(p)
                      /\ cursor' = [cursor EXCEPT ![p] = Closed]
                   \/ /\ next.val # "" /\ (UNCHANGED <<cmd, todo>> \/ Goes(p))
                      /\ cursor' = [cursor EXCEPT ![p] = [lines |-> next.rest, of |-> from.of]]
                /\ Hears(p, from.of, next.by, next.val = "")
                /\ UNCHANGED <<buf, fd>>
    /\ UNCHANGED <<disk, calls, stops>>

-----------------------------------------------------------------------------
(* A call fails for a reason outside the model: no space, no permission.   *)
CallFails(p) ==
    /\ ~Idle(p) /\ stops < MaxStops
    /\ Fails(p)
    /\ stops' = stops + 1
    /\ UNCHANGED <<disk, cursor, heard, calls>>

(* The program is killed or the machine goes down; it is started again.    *)
Die(p) ==
    /\ ~Idle(p) /\ stops < MaxStops
    /\ Leaves(p, <<>>)
    /\ buf' = [buf EXCEPT ![p] = <<>>] /\ fd' = [fd EXCEPT ![p] = 0]
    /\ cursor' = [cursor EXCEPT ![p] = Closed]
    /\ stops' = stops + 1
    /\ UNCHANGED <<disk, heard, calls>>

Works(p) ==
    \/ Begin(p) \/ Look(p)
    \/ Mkdir(p) \/ Rmdir(p) \/ Create(p) \/ Fill(p) \/ Unlink(p) \/ Rename(p)
    \/ Read(p) \/ Truncate(p) \/ Write(p)
    \/ AskOne(p) \/ AskNext(p)
    \/ CallFails(p) \/ Die(p)

Next == \E p \in Progs : Works(p)

Spec == Init /\ [][Next]_vars

-----------------------------------------------------------------------------
TypeOK ==
    /\ DOMAIN files \subseteq Objects
    /\ Range(files) \subseteq Inodes
    /\ \A a, b \in DOMAIN files : files[a] = files[b] => a = b
    /\ \A x \in DOMAIN files \cup (dirs \ Roots) : Front(x) \in dirs
    /\ content \in [Inodes -> Seq(Lines)]
    /\ \A i \in Inodes \ Range(files) : content[i] = <<>>
    /\ \A p \in Progs : fd[p] # 0 <=> At(p, "fill") \/ At(p, "write")

(* What is written to a file that is open for writing counts already. *)
Shown(o) ==
    LET writers == {p \in Progs : fd[p] = files[o]}
        w == CHOOSE p \in writers : TRUE
        lines == IF writers = {} THEN content[files[o]]
                 ELSE IF At(w, "fill") THEN Template(o) ELSE buf[w]
    IN  [v \in Vars |-> ValuesOf(lines, v)]

(* The files are the store the programs were promised: each call changes   *)
(* it in one step, whatever independent calls go on, and one that is cut   *)
(* short loses no more than the settings of its own object.                *)
Store == INSTANCE ObjectStore WITH store <- [o \in DOMAIN files |-> Shown(o)]
IsAStore == Store!Spec

(* Rules and blocklist share one backend and one open file, and nobody     *)
(* asks for a single value before a loop over them: a loop that is left    *)
(* half-way spoils the next one.                                           *)
Spoiled(h) == "ACTIVE" \notin VarsOf(h.of) /\ h.late

(* What a loop asks about is what it hears: all of its answers come from   *)
(* the file of its own object, whatever loop was left half-way before.     *)
StaysInItsFile(h) == h.of # <<>> /\ ~Spoiled(h) => h.from = h.of
LoopsStayInTheirFile == \A p \in Progs : StaysInItsFile(heard[p])

(* A loop over the list of an object hears that list as it was when the    *)
(* loop began: no line of the file is skipped and none comes twice, and    *)
(* the loop does not end before the file does or a value is empty -        *)
(* whatever loops over other objects were left half-way before it, and     *)
(* whatever other programs do meanwhile.                                   *)
LoopsHearTheirList ==
    /\ LoopsStayInTheirFile
    /\ \A p \in Progs :
        LET h == heard[p]
        IN  h.of # <<>> /\ ~Spoiled(h) =>
                /\ IsPrefix(h.gone, h.due)
                /\ h.over => h.gone = h.due \/ Last(h.gone) = [var |-> "LIST", val |-> ""]
=============================================================================
