------------------------------ MODULE Shaping ------------------------------
(***************************************************************************)
(* Traffic shaping: the numbers of the qdiscs and classes of tc and their  *)
(* rates (shape.c of the daemon).  A rule of the user adds its own classes *)
(* in RuleLoops.                                                           *)
(*                                                                         *)
(* A class is called handle:class on a device; its parent is handle:parent *)
(* and 0 is the root.  Rates are in kbit, 0 is "not given".                *)
(***************************************************************************)
EXTENDS RuleLoops

ShapedOf(interfaces) ==
    FlattenSeq([n \in DOMAIN interfaces |-> Only(Shaped(interfaces[n]), << interfaces[n] >>)])

(***************************************************************************)
(* shaping_setup_roots(): the handles are numbered from 2, so that 1 is    *)
(* free for the class of the interface itself (HandlesAssigned); the       *)
(* numbers after the last handle are those of the default classes.         *)
(***************************************************************************)

DefaultClass(interfaces, i) == Len(ShapedOf(interfaces)) + i.handle
Smaller(a, b) == IF a < b THEN a ELSE b

InterfaceClasses(interfaces, i) ==
    LET class(n, rate) == [handle |-> i.handle, class |-> n, device |-> i.device,
                           parent |-> 0, rate |-> rate]
        shaped == ShapedOf(interfaces)
        other(o) == class(o.handle, Smaller(i.bwOut, o.bwIn))
    IN  << class(1, i.bwOut) >>
        \o FlattenSeq([n \in DOMAIN shaped |-> Only(shaped[n] # i, << other(shaped[n]) >>)])

SetupRoots(interfaces) ==
    LET shaped == ShapedOf(interfaces)
    IN  FlattenSeq([n \in DOMAIN shaped |-> InterfaceClasses(interfaces, shaped[n])])

(***************************************************************************)
(* shaping_determine_minimal_default_rates(): what the rules commit, per   *)
(* interface of their source and destination; then what is left is shared  *)
(* by the rules that give no rate.                                         *)
(***************************************************************************)

\* the interfaces of one side; the firewall has the list of the other side
InterfacesOf(zone, any, interfaces) ==
    IF zone # None THEN zone.ifaces ELSE IF any THEN interfaces ELSE << >>

RatesOf(c, interfaces) ==
    (IF ShapesIn(c.opt)
     THEN [n \in DOMAIN InterfacesOf(c.from, c.fromAny, interfaces) |->
              <<InterfacesOf(c.from, c.fromAny, interfaces)[n], c.opt.bwIn>>] ELSE << >>)
    \o (IF ShapesOut(c.opt)
        THEN [n \in DOMAIN InterfacesOf(c.to, c.toAny, interfaces) |->
                 <<InterfacesOf(c.to, c.toAny, interfaces)[n], c.opt.bwOut>>] ELSE << >>)

\* one <<interface, rate>> for every rule, side and interface
Demands(caches, interfaces) ==
    FoldLeft(LAMBDA q, c: q \o RatesOf(c, interfaces), << >>, caches)

DefaultRate(i, demands) ==
    LET mine == SelectSeq(demands, LAMBDA d: d[1] = i)
        given == SelectSeq(mine, LAMBDA d: d[2] > 0)
        total == FoldLeft(LAMBDA s, d: s + d[2], 0, given)
        default == Len(mine) - Len(given)
    IN  CASE total > i.bwOut -> i.bwOut \div Len(given)
          [] total <= i.bwOut /\ default = 0 -> i.bwOut \div 10
          [] OTHER -> (i.bwOut - total) \div default

\* shaping_create_default_rules(): traffic that no rule classifies
DefaultRules(interfaces, demands) ==
    LET class(i) == [handle |-> i.handle, class |-> DefaultClass(interfaces, i), device |-> i.device,
                     parent |-> 1, rate |-> DefaultRate(i, demands)]
    IN  [n \in DOMAIN ShapedOf(interfaces) |-> class(ShapedOf(interfaces)[n])]

\* mutant: the default classes are not counted
FirstClass_Roots(interfaces) == Len(ShapedOf(interfaces)) + 2

\* interfaces->shape_handle when the first rule is created
FirstClass(interfaces) == 2 * Len(ShapedOf(interfaces)) + 2

\* the rate of a class that a rule asks for (shaping_shape_create_rule)
Rated(classes, demands, interfaces) ==
    LET iface(k) == ShapedOf(interfaces)[k.handle - 1]
        rate(k) == IF k.rate = 0 THEN DefaultRate(iface(k), demands) ELSE k.rate
    IN  [n \in DOMAIN classes |-> [classes[n] EXCEPT !.rate = rate(classes[n])]]
=============================================================================
