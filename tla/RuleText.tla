------------------------------- MODULE RuleText -------------------------------
(***************************************************************************)
(* One rule: what the programs keep of it in memory, the line that is      *)
(* written of it, and what is understood of such a line.                   *)
(*                                                                         *)
(* Every option is a field of one struct, whatever the action; which of    *)
(* them the line holds depends on the action.  A rule without options has  *)
(* no such struct.  The service and the two zones are one value here, by   *)
(* the direction of the traffic; numbers are 0 or one that is allowed.     *)
(***************************************************************************)
EXTENDS Integers, Sequences

NoText == ""
Blank  == ""                        \* the names are not filled in
Input  == "any to firewall"
Output == "firewall to any"
Gone   == "a zone that was removed"
Fields == {Input, Output, Gone}

Separator == "Separator"
Actions   == {"Drop", "Log", "Redirect", Separator}

Options == [given : BOOLEAN, log : BOOLEAN, logprefix : {NoText, "plain", "quote"},
            limit : 0 .. 1, burst : 0 .. 1, redirectport : {0, 80}, comment : {NoText, "note"}]

NoOptions == [given |-> FALSE, log |-> FALSE, logprefix |-> NoText, limit |-> 0, burst |-> 0,
              redirectport |-> 0, comment |-> NoText]

(* The fields of the struct that a line with this action has a text for. *)
Held(action, opt) ==
    LET logs == action # Separator /\ (opt.log \/ action = "Log")
    IN  [given        |-> TRUE,
         log          |-> opt.log /\ action \notin {"Log", Separator},
         logprefix    |-> IF logs THEN opt.logprefix ELSE NoText,
         limit        |-> opt.limit,
         burst        |-> IF opt.limit > 0 THEN opt.burst ELSE 0,
         redirectport |-> IF action = "Redirect" THEN opt.redirectport ELSE 0,
         comment      |-> opt.comment]

(* The options a line holds; NoOptions is a line that has none. *)
OptionsText(action, opt) ==
    IF opt.given /\ Held(action, opt) # [NoOptions EXCEPT !.given = TRUE]
    THEN Held(action, opt) ELSE NoOptions

(* The line written of a rule: a separator is never marked inactive. *)
AssembleRule(rule) ==
    [active  |-> rule.action = Separator \/ rule.active,
     action  |-> rule.action,
     fields  |-> IF rule.action = Separator THEN Blank ELSE rule.fields,
     options |-> OptionsText(rule.action, rule.opt)]

(* A line with an empty name, or a quote in the text of an option, is not  *)
(* understood.                                                             *)
CanParse(line) ==
    /\ line.action # Separator => line.fields # Blank
    /\ line.options.logprefix # "quote"

ParseLine(line, number, id) ==
    [id |-> id, number |-> number, active |-> line.active, action |-> line.action,
     fields |-> line.fields, opt |-> line.options, filtered |-> FALSE]

(* A list gone through in order: what is at these places. *)
Kept(s, places) ==
    LET kept[i \in 0 .. Len(s)] ==
          IF i = 0 THEN << >>
          ELSE IF i \in places THEN Append(kept[i - 1], s[i]) ELSE kept[i - 1]
    IN  kept[Len(s)]

Understood(lines) == Kept(lines, {i \in DOMAIN lines : CanParse(lines[i])})

(* The list of rules read from its lines: those that cannot be understood  *)
(* are skipped, the others are numbered.                                   *)
ReadRules(lines, firstId) ==
    LET kept == Understood(lines)
    IN  [i \in DOMAIN kept |-> ParseLine(kept[i], i, firstId + i)]

(* Do the options of two rules with the same action differ?  Two structs   *)
(* of which one has nothing to write cannot be compared, which counts as a *)
(* difference.                                                             *)
OptionsDiffer(action, old, new) ==
    \/ old.given # new.given
    \/ /\ old.given
       /\ \/ ~OptionsText(action, old).given
          \/ OptionsText(action, old) # OptionsText(action, new)
===============================================================================
