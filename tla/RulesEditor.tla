------------------------------ MODULE RulesEditor ------------------------------
(***************************************************************************)
(* The list of rules on the screen of vuurmuur_conf, in its memory, in the *)
(* backend and in the memory of the daemon.                                *)
(*                                                                         *)
(* The screen hides the rules its filter excludes, and shows the others    *)
(* with a number.  Every key works on the rule under the cursor, which it  *)
(* finds again by the number on the screen.  Changes are made in memory    *)
(* and written when the screen is left, one rule at a time and over what   *)
(* was there; the daemon reads the rules again when it is told to.         *)
(*                                                                         *)
(* A visit to the form of a rule is one step; it changes one field.        *)
(*                                                                         *)
(* The list holds pointers.  An id stands for the struct of a rule: places *)
(* with the same id have one struct, and what is written through one of    *)
(* them is written at all.                                                 *)
(***************************************************************************)
EXTENDS RuleText, FiniteSets, SequencesExt

CONSTANTS
    DiskRules,      \* the lines in the backend at the start
    NewRuleLog,     \* the setting newrule_log
    MaxOps,         \* bound: keys pressed on rules, restarts, saves that are broken off
    MaxLen          \* bound: length of the list

Directions == {"all", "in", "out", "forward"}

VARIABLES
    saved,     \* the lines in the backend
    rules,     \* the list in vuurmuur_conf
    screen,    \* "menu", "rules", or "dead" after a struct that is in the list was freed
    show,      \* the filter of the screen
    changed,   \* is there something to save?
    daemon,    \* the list in vuurmuur
    last,      \* what was done last, and to which rule
    nextId,    \* the rules in vuurmuur_conf so far
    doubled,   \* since it was started, was a rule put into the list a second time?
    ops

vars == <<saved, rules, screen, show, changed, daemon, last, nextId, doubled, ops>>

Line == [active : BOOLEAN, action : Actions, fields : Fields \cup {Blank}, options : Options]

ASSUME RulesEditorAssumption ==
    /\ DiskRules \in Seq(Line)
    /\ NewRuleLog \in BOOLEAN
    /\ MaxOps \in Nat /\ MaxLen \in Nat

(***************************************************************************)
(* The list: rules are looked for by their number, and numbered again      *)
(* after every change.                                                     *)
(***************************************************************************)

IdsOf(list) == {list[i].id : i \in DOMAIN list}

(* The struct of a rule is written. *)
Written(list, rule) ==
    [i \in DOMAIN list |-> IF list[i].id = rule.id THEN rule ELSE list[i]]

(* The rules from place on are one further, after one was put before them, *)
(* or one less far; a struct that is met twice is counted twice.           *)
UpdateNumbers(list, place, increase) ==
    [i \in DOMAIN list |->
        LET times == Cardinality({j \in DOMAIN list :
                        /\ list[j].id = list[i].id
                        /\ IF increase THEN j > place ELSE j >= place})
        IN  [list[i] EXCEPT !.number =
                IF increase THEN @ + times ELSE IF @ > times THEN @ - times ELSE 0]]

Numbered(list, number) == SelectInSeq(list, LAMBDA r : r.number = number)

(* A search that finds nothing ends with the last rule. *)
Found(list, number) ==
    LET i == Numbered(list, number) IN IF i = 0 THEN Len(list) ELSE i

InsertList(list, wanted, rule) ==
    LET place == IF list = << >> THEN 1
                 ELSE IF wanted > Len(list) THEN Len(list) + 1 ELSE wanted
        held  == Written(list, rule)
        after == Numbered(held, place - 1)
        put(i) == UpdateNumbers(InsertAt(held, i, rule), place - (IF i = 1 THEN 0 ELSE 1), TRUE)
        settled(i) == Written(put(i), [put(i)[i] EXCEPT !.number = place])
    IN  IF place = 1 THEN settled(1)
        ELSE IF after # 0 THEN settled(after + 1) ELSE held

RemoveFromList(list, number) ==
    LET i == Numbered(list, number)
    IN  IF i = 0 THEN list
        ELSE IF i = Len(list) THEN Front(list)
        ELSE UpdateNumbers(RemoveAt(list, i), number, FALSE)

MoveRule(list, number, wanted) ==
    LET place == IF wanted > Len(list) THEN Len(list) ELSE IF wanted < 1 THEN 1 ELSE wanted
        rule  == list[Found(list, number)]
    IN  InsertList(RemoveFromList(list, number), place, [rule EXCEPT !.number = place])

(***************************************************************************)
(* The screen.                                                             *)
(***************************************************************************)

MatchFilter(rule, filter) ==
    CASE filter = "in"      -> rule.fields = Input
      [] filter = "out"     -> rule.fields = Output
      [] filter = "forward" -> rule.fields \notin {Input, Output}
      [] OTHER              -> TRUE

UpdateFilter(list, filter) ==
    [i \in DOMAIN list |-> [list[i] EXCEPT !.filtered = ~MatchFilter(list[i], filter)]]

Visible == {i \in DOMAIN rules : ~rules[i].filtered}

(* mutant: the rules that are left out are not counted *)
NumberShown_Visible(i) == Cardinality({j \in 1 .. i : ~rules[j].filtered})

(* The number in front of the rule at place i: the rules printed so far    *)
(* and those that were left out.                                           *)
NumberShown(i) ==
    Cardinality({j \in 1 .. i : ~rules[j].filtered}) +
    Cardinality({j \in 1 .. i : rules[j].filtered})

(* A key can be pressed. *)
Pressed == screen = "rules" /\ ops < MaxOps

(* After a key: the list, filtered again, and what happened to whom. *)
Key(list, op, id) ==
    /\ ops' = ops + 1
    /\ rules' = list
    /\ last' = [op |-> op, id |-> id]
    /\ doubled' = (doubled \/ op = "double")
    /\ UNCHANGED <<saved, screen, daemon>>

Changing(list, op, id) ==
    /\ Key(UpdateFilter(list, show), op, id)
    /\ changed' = TRUE
    /\ UNCHANGED <<show, nextId>>

Adding(list, op) ==
    /\ Key(UpdateFilter(list, show), op, nextId)
    /\ changed' = TRUE
    /\ nextId' = nextId + 1
    /\ UNCHANGED show

(***************************************************************************)
(* The form of one rule.                                                   *)
(***************************************************************************)

(* One field of the form is changed; an option gives the rule a struct of  *)
(* options.                                                                *)
WithOptions(rule, o) == [rule EXCEPT !.opt = [o EXCEPT !.given = TRUE]]

FieldsToRule(rule) ==
    {[rule EXCEPT !.action = a] : a \in Actions \ {Separator}} \cup
    {[rule EXCEPT !.fields = f] : f \in {Input, Output}} \cup
    {WithOptions(rule, [rule.opt EXCEPT !.log = b]) : b \in BOOLEAN} \cup
    {WithOptions(rule, [rule.opt EXCEPT !.logprefix = p]) : p \in {"plain", "quote"}} \cup
    {WithOptions(rule, [rule.opt EXCEPT !.limit = n]) : n \in 0 .. 1} \cup
    {WithOptions(rule, [rule.opt EXCEPT !.burst = 1]),
     WithOptions(rule, [rule.opt EXCEPT !.redirectport = 80])}

SepruleFieldsToRule(rule) ==
    {WithOptions(rule, [rule.opt EXCEPT !.comment = c]) : c \in {NoText, "note"}}

(* Is the rule complete, and are its zones known? *)
Acceptable(rule) ==
    /\ rule.fields # Blank
    /\ rule.action = "Redirect" => rule.opt.given /\ rule.opt.redirectport # 0
    /\ rule.fields # Gone

(* What the form can end with: nothing was changed; the rule, as it was    *)
(* changed; or a rule that is not acceptable, which the user does not want *)
(* to look at again.                                                       *)
NotEdited(rule) == rule
EditedRules(rule) ==
    IF rule.action = Separator THEN SepruleFieldsToRule(rule)
    ELSE {r \in FieldsToRule(rule) \cup {rule} : Acceptable(r)}
RejectedRules(rule) ==
    IF rule.action = Separator THEN {}
    ELSE {r \in FieldsToRule(rule) \cup {rule} : ~Acceptable(r)}

(***************************************************************************)
(* The keys.                                                               *)
(***************************************************************************)

Toggle(i) ==
    /\ Pressed /\ i \in Visible
    /\ LET n == NumberShown(i)
       IN  Key(Written(rules, [rules[n] EXCEPT !.active = ~@]), "toggle", rules[i].id)
    /\ changed' = TRUE
    /\ UNCHANGED <<show, nextId>>

(* The rule with the number of the one under the cursor is removed, and    *)
(* its struct is freed: the program is lost if the list still has it.      *)
Drop(i, op) ==
    LET n    == NumberShown(i)
        list == RemoveFromList(rules, n)
    IN  IF rules[Found(rules, n)].id \notin IdsOf(list)
          THEN Changing(list, op, rules[i].id)
          ELSE /\ ops' = ops + 1
               /\ screen' = "dead"
               /\ last' = [op |-> op, id |-> rules[i].id]
               /\ UNCHANGED <<saved, rules, show, changed, daemon, nextId, doubled>>

Delete(i) == Pressed /\ i \in Visible /\ Drop(i, "delete")

(* The form shows the rule with the number. *)
Edit(i) ==
    /\ Pressed /\ i \in Visible
    /\ LET k == Found(rules, NumberShown(i))
       IN  \/ \E r \in EditedRules(rules[k]) :
                 Changing(Written(rules, r), "edit", rules[i].id)
           \/ RejectedRules(rules[k]) # {} /\ Drop(i, "reject")

(* Its struct of options is made for the option log. *)
NewRule(action) ==
    LET o == [NoOptions EXCEPT !.log = NewRuleLog]
    IN  [id |-> nextId, number |-> 0, active |-> TRUE, action |-> action, fields |-> Blank,
         opt |-> [o EXCEPT !.given = NewRuleLog], filtered |-> FALSE]

(* Without a rule under the cursor a new one is put first. *)
PlaceOfNew(i) == IF i \in Visible THEN NumberShown(i) ELSE 1

InsertSeparator(i) ==
    /\ Pressed /\ Len(rules) < MaxLen
    /\ Adding(InsertList(rules, PlaceOfNew(i), NewRule(Separator)), "insert")

(* A new rule goes through its form at once, and is removed again if it is *)
(* not acceptable.  If nothing is filled in the rule stays as it is.       *)
Insert(i) ==
    LET p    == PlaceOfNew(i)
        list == InsertList(rules, p, NewRule("Drop"))
        k    == Found(list, p)
    IN  /\ Pressed /\ Len(rules) < MaxLen
        /\ \/ \E r \in EditedRules(list[k]) \cup {NotEdited(list[k])} :
                 Adding(Written(list, r), "insert")
           \/ \E r \in RejectedRules(list[k]) :
                 /\ Key(RemoveFromList(Written(list, r), p), "reject", nextId)
                 /\ nextId' = IF nextId \in IdsOf(rules') THEN nextId + 1 ELSE nextId
                 /\ UNCHANGED <<show, changed>>

(* The copy is read from the text of the rule, and goes below it. *)
Copy(i) ==
    /\ Pressed /\ i \in Visible /\ Len(rules) < MaxLen
    /\ LET rule == rules[Found(rules, NumberShown(i))]
           line == AssembleRule(rule)
           n    == rule.number + 1
       IN  IF CanParse(line)
             THEN Adding(InsertList(rules, n, ParseLine(line, n, nextId)), "copy")
             ELSE /\ Key(rules, "refused", rules[i].id)
                  /\ UNCHANGED <<show, changed, nextId>>

Move(i, place) ==
    /\ Pressed /\ i \in Visible
    /\ Changing(MoveRule(rules, NumberShown(i), place), "move", rules[i].id)

MoveUp(i) ==
    /\ Pressed /\ i \in Visible /\ NumberShown(i) > 1
    /\ Move(i, NumberShown(i) - 1)

(* With every rule hidden the cursor is on an empty line, which counts as  *)
(* number 0: the last rule is put first, and not taken out.                *)
MoveDown(i) ==
    \/ /\ Pressed /\ i \in Visible /\ NumberShown(i) < Len(rules)
       /\ Move(i, NumberShown(i) + 1)
    \/ /\ Pressed /\ i = 0 /\ Visible = {} /\ 0 < Len(rules) /\ Len(rules) < MaxLen
       /\ Changing(MoveRule(rules, 0, 1), "double", 0)

(* Pressing the key of a filter again shows all rules. *)
Filter(f) ==
    LET next == IF show = f THEN "all" ELSE f
    IN  /\ Pressed
        /\ rules' = UpdateFilter(rules, next)
        /\ show' = next
        /\ last' = [op |-> "filter", id |-> 0]
        /\ UNCHANGED <<saved, screen, changed, daemon, nextId, doubled, ops>>

(***************************************************************************)
(* Opening and leaving the screen, and the daemon.                         *)
(***************************************************************************)

Open ==
    /\ screen = "menu" /\ ops < MaxOps
    /\ screen' = "rules" /\ show' = "all" /\ changed' = FALSE
    /\ rules' = UpdateFilter(rules, "all")
    /\ last' = [op |-> "open", id |-> 0]
    /\ UNCHANGED <<saved, daemon, nextId, doubled, ops>>

Lines(list) == [i \in DOMAIN list |-> AssembleRule(list[i])]

(* mutant: the lines after the last one are left in the backend *)
SaveList_Tail(n) == saved' = SubSeq(Lines(rules), 1, n) \o SubSeq(saved, n + 1, Len(saved))

(* A rule that fails ends the saving: the first n rules are in the backend. *)
SaveList(n) == saved' = SubSeq(Lines(rules), 1, n)

Quit ==
    /\ screen = "rules"
    /\ screen' = "menu" /\ show' = "all"
    /\ \/ /\ ~changed
          /\ last' = [op |-> "left", id |-> 0]
          /\ UNCHANGED <<saved, ops>>
       \/ /\ changed
          /\ SaveList(Len(rules))
          /\ last' = [op |-> "saved", id |-> 0]
          /\ UNCHANGED ops
       \/ /\ changed /\ ops < MaxOps
          /\ \/ \E n \in 1 .. Len(rules) - 1 : SaveList(n)
             \/ UNCHANGED saved
          /\ ops' = ops + 1
          /\ last' = [op |-> "failed", id |-> 0]
    /\ UNCHANGED <<rules, changed, daemon, nextId, doubled>>

(* vuurmuur_conf ends, or is killed, and is started again. *)
Restart ==
    /\ ops < MaxOps
    /\ ops' = ops + 1
    /\ screen' = "menu" /\ changed' = FALSE /\ show' = "all" /\ doubled' = FALSE
    /\ rules' = ReadRules(saved, nextId - 1)
    /\ nextId' = nextId + Len(rules')
    /\ last' = [op |-> "start", id |-> 0]
    /\ UNCHANGED <<saved, daemon>>

(* The daemon leaves rules of unknown zones out. *)
AnalyzeNormalRules(list) == Kept(list, {i \in DOMAIN list : list[i].fields # Gone})

(* mutant: whether a rule is active is not compared *)
RulesDiffer_NoActive(old, new) ==
    \/ Len(old) # Len(new)
    \/ \E i \in DOMAIN old \cap DOMAIN new :
          \/ old[i].action # new[i].action
          \/ old[i].fields # new[i].fields
          \/ OptionsDiffer(new[i].action, old[i].opt, new[i].opt)

RulesDiffer(old, new) ==
    \/ Len(old) # Len(new)
    \/ \E i \in DOMAIN old \cap DOMAIN new :
          \/ old[i].active # new[i].active
          \/ old[i].action # new[i].action
          \/ old[i].fields # new[i].fields
          \/ OptionsDiffer(new[i].action, old[i].opt, new[i].opt)

ReloadRules ==
    LET new == AnalyzeNormalRules(ReadRules(saved, 0))
    IN  /\ last.op # "reload"
        /\ daemon' = IF RulesDiffer(daemon, new) THEN new ELSE daemon
        /\ last' = [op |-> "reload", id |-> 0]
        /\ UNCHANGED <<saved, rules, screen, show, changed, nextId, doubled, ops>>

Init ==
    /\ saved = DiskRules
    /\ rules = ReadRules(DiskRules, 0)
    /\ screen = "menu" /\ show = "all" /\ changed = FALSE
    /\ daemon = AnalyzeNormalRules(ReadRules(DiskRules, 0))
    /\ last = [op |-> "start", id |-> 0]
    /\ nextId = Len(rules) + 1
    /\ doubled = FALSE
    /\ ops = 0

Next ==
    \/ \E i \in DOMAIN rules : Toggle(i)
    \/ \E i \in DOMAIN rules : Edit(i)
    \/ \E i \in DOMAIN rules : Delete(i)
    \/ \E i \in DOMAIN rules \cup {0} : InsertSeparator(i)
    \/ \E i \in DOMAIN rules \cup {0} : Insert(i)
    \/ \E i \in DOMAIN rules : Copy(i)
    \/ \E i \in DOMAIN rules, place \in 0 .. MaxLen + 1 : Move(i, place)
    \/ \E i \in DOMAIN rules : MoveUp(i)
    \/ \E i \in DOMAIN rules \cup {0} : MoveDown(i)
    \/ \E f \in Directions \ {"all"} : Filter(f)
    \/ Open
    \/ Quit
    \/ Restart
    \/ ReloadRules

Spec == Init /\ [][Next]_vars

(***************************************************************************)
(* Properties.                                                             *)
(***************************************************************************)

Texts(list) == [i \in DOMAIN list |-> [id |-> list[i].id, line |-> AssembleRule(list[i])]]
Others(list, ids) == Kept(Texts(list), {i \in DOMAIN list : list[i].id \notin ids})
(* A key changes, moves or removes the rule under the cursor, or adds one; *)
(* with any filter the others keep their text and their order.  This holds *)
(* until + is pressed with every rule hidden, which doubles one.           *)
OnlyTheRuleUnderTheCursor ==
    [][screen = "rules" /\ screen' = "rules" /\ ~doubled' =>
         /\ Others(rules, {last'.id}) = Others(rules', {last'.id})
         /\ last'.op \in {"delete", "reject"} => last'.id \notin IdsOf(rules')
         /\ last'.op \in {"toggle", "edit", "insert", "copy", "move"} => last'.id \in IdsOf(rules')]_vars

(* What was saved is what a program that starts afterwards works with: the *)
(* text of every rule, in order, but for rules without names and rules     *)
(* with a quote in their log prefix, whose lines are not understood.       *)
SavedIsReadBack ==
    last.op = "saved" =>
        Lines(ReadRules(saved, 0)) = Understood(Lines(rules))

(* After a reload the daemon works with the rules that one that is started *)
(* now would read, though it keeps its old list if it sees no difference.  *)
ReloadSeesEveryChange ==
    last.op = "reload" =>
        Lines(daemon) = Lines(AnalyzeNormalRules(ReadRules(saved, 0)))
===============================================================================
