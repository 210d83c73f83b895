----------------------------- MODULE Netfilter -----------------------------
(***************************************************************************)
(* What the kernel does with the lines of a ruleset.  This is not code of  *)
(* the repository: it is the meaning of the commands that Vuurmuur writes, *)
(* as far as its rules use it.                                             *)
(*                                                                         *)
(* A packet p is at one hook (INPUT, OUTPUT or FORWARD) and belongs to a   *)
(* connection that has a state and a mark.  A limit can be exceeded or     *)
(* not, so that a chain has a set of outcomes.                             *)
(***************************************************************************)
EXTENDS PreRules

Given(x, y) == x \in {None, y}

Matches(l, p) ==
    /\ l.ipv = p.ipv
    /\ Given(l.in, p.in)       /\ Given(l.out, p.out)
    /\ Given(l.proto, p.proto) /\ Given(l.sport, p.sport) /\ Given(l.dport, p.dport)
    /\ Given(l.mac, p.mac)     /\ Given(l.helper, p.helper)
    /\ p.src \in l.src         /\ p.dst \in l.dst
    /\ p.flags \in l.flags     /\ p.state \in l.states
    /\ l.marks = None \/ p.mark \in l.marks

InChain(lines, table, chain) == SelectSeq(lines, LAMBDA l: l.table = table /\ l.chain = chain)

(***************************************************************************)
(* The filter table.  An outcome is a target, or Onward: the end of the    *)
(* chain is reached and the caller goes on.                                *)
(***************************************************************************)

Onward == Jump("next")
Return == Jump("return")
Passes == {"LOG", "NFLOG", "TCPMSS", "PRE-VRMR", "ACC"}
Jumps == {"NEWACCEPT", "NEWQUEUE", "NEWNFQUEUE", "ESTRELNFQUEUE", "SYNLIMIT", "UDPLIMIT",
          "BLOCKLIST", "BLOCK", "ANTISPOOF", "TCPRESET"}
Depth == 3      \* of jumps: FORWARD, ESTRELNFQUEUE, NEWNFQUEUE, SYNLIMIT

Hits(l, chain, p) == l.table = "filter" /\ l.chain = chain /\ Matches(l, p)

\* what comes of a line that is hit; called: the outcomes of the chains that it
\* may jump to
HitOf(l, called) ==
    CASE l.target.t \in Passes -> {Onward}
      [] l.target.t = "RETURN" -> {Return}
      [] l.target.t \in Jumps -> called[l.target.t]
      [] OTHER -> {l.target}
MayPass(l, called) == l.limit > 0 \/ Onward \in HitOf(l, called)

Walk(lines, p, chain, called) ==
    LET hits == {n \in DOMAIN lines : Hits(lines[n], chain, p)}
        reached == {n \in hits : \A k \in hits : k < n => MayPass(lines[k], called)}
        outcomes == ((UNION {HitOf(lines[n], called) : n \in reached}) \ {Onward})
                    \union (IF \A n \in hits : MayPass(lines[n], called) THEN {Onward} ELSE {})
    IN  {IF o = Return THEN Onward ELSE o : o \in outcomes}

Outcomes(lines, p) ==
    LET chains[d \in 0..Depth] ==
            IF d = 0 THEN [c \in Jumps |-> {Onward}]
            ELSE [c \in Jumps |-> Walk(lines, p, c, chains[d - 1])]
    IN  Walk(lines, p, p.hook, chains[Depth])

\* the policy of the built-in chains is DROP
Verdicts(lines, p) == {IF o = Onward THEN Jump("DROP") ELSE o : o \in Outcomes(lines, p)}

(***************************************************************************)
(* The mangle table: CONNMARK, then the packet goes on with the new mark.  *)
(***************************************************************************)

Marked(lines, p) ==
    LET mark(m, l) == IF l.target.t = "CONNMARK" /\ Matches(l, [p EXCEPT !.mark = m]) THEN l.target.v ELSE m
    IN  [p EXCEPT !.mark = FoldLeft(mark, @, InChain(lines, "mangle", p.hook))]

Verdict(lines, p) == Verdicts(lines, Marked(lines, p))
=============================================================================
