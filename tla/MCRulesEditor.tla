---------------------------- MODULE MCRulesEditor ----------------------------
(* An input rule with a limit, a separator and a rule for a removed zone.  *)
EXTENDS RulesEditor

MCDiskRules ==
    << [active |-> TRUE, action |-> "Drop", fields |-> Input,
        options |-> [NoOptions EXCEPT !.given = TRUE, !.limit = 1]],
       [active |-> TRUE, action |-> Separator, fields |-> Blank, options |-> NoOptions],
       [active |-> FALSE, action |-> "Drop", fields |-> Gone, options |-> NoOptions] >>
===============================================================================
