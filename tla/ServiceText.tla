----------------------------- MODULE ServiceText -----------------------------
(***************************************************************************)
(* The portranges of a service: the struct, the text that stands for it in *)
(* the file of the service, and what a program makes of the text.          *)
(*                                                                         *)
(* The file has one line RANGE for a range.  The files of older versions,  *)
(* and those that come with the program, have a line for each protocol     *)
(* instead; these are looked at only if there is no RANGE.  RANGE="" reads  *)
(* as no RANGE at all, and is left out.                                    *)
(***************************************************************************)
EXTENDS Integers, FiniteSets, Sequences, SequencesExt

TCP == 6
UDP == 17
ICMP == 1
GRE == 47
ESP == 50
AH == 51

HasPorts(protocol) == protocol \in {TCP, UDP}

(* A high of 0 is a single port; the type and the code of ICMP are kept as *)
(* the destination.                                                        *)
Portdata == [protocol : Int, src_low : Int, src_high : Int, dst_low : Int, dst_high : Int]

NoPorts(protocol) ==
    [protocol |-> protocol, src_low |-> 0, src_high |-> 0, dst_low |-> 0, dst_high |-> 0]

Abs(n) == IF n < 0 THEN -n ELSE n

(* How many characters the number takes. *)
Digits(n) ==
    1 + Cardinality({k \in 1..5 : Abs(n) >= 10^k}) + (IF n < 0 THEN 1 ELSE 0)

PortsLength(protocol, low, high) ==
    IF HasPorts(protocol) /\ high = 0 THEN Digits(low) ELSE Digits(low) + 1 + Digits(high)

(* Only TCP, UDP and ICMP have more than "0*0" written for them. *)
Written(range) ==
    IF HasPorts(range.protocol) \/ range.protocol = ICMP THEN range ELSE NoPorts(range.protocol)

TextLength(range) ==
    Digits(range.protocol) + 1
    + (IF HasPorts(range.protocol) \/ range.protocol = ICMP
       THEN PortsLength(range.protocol, range.dst_low, range.dst_high) + 1
            + PortsLength(range.protocol, range.src_low, range.src_high)
       ELSE 3)

(* prot_format is a buffer of 24 characters, the last of them the end. *)
MaxText == 23

IsPort(n) == 0 <= n /\ n <= 65535
Numbers(range) == {range.src_low, range.src_high, range.dst_low, range.dst_high}

(* Characters that are no digits are skipped. *)
SplitPort(n) == Abs(n)
Readable(text) == \A n \in Numbers(text) : SplitPort(n) <= 65535

ProcessPortrange(text) ==
    [protocol |-> text.protocol,
     src_low  |-> SplitPort(text.src_low), src_high |-> SplitPort(text.src_high),
     dst_low  |-> SplitPort(text.dst_low), dst_high |-> SplitPort(text.dst_high)]

(***************************************************************************)
(* Reading the file of a service.                                          *)
(***************************************************************************)

(* TCP, UDP, ICMP, GRE, AH, ESP and protocol 41 are asked in this order. *)
Line == [ACTIVE : BOOLEAN, BROADCAST : BOOLEAN, RANGE : Seq(Portdata), OLD : Seq(Portdata)]

ReadRanges(row) ==
    LET texts == IF row.RANGE # << >> THEN row.RANGE ELSE row.OLD
    IN  [i \in DOMAIN texts |-> ProcessPortrange(texts[i])]

(* One range that cannot be read, and the service is refused. *)
AllReadable(texts) == \A i \in DOMAIN texts : Readable(texts[i])
ReadFails(row) == ~AllReadable(row.RANGE) \/ (row.RANGE = << >> /\ ~AllReadable(row.OLD))

(***************************************************************************)
(* Writing: the first range takes the place of all there were, the next    *)
(* ones are put after it.  A text that does not fit the buffer ends the    *)
(* save, and so does the backend if it can write no more.                  *)
(***************************************************************************)

Fitting(ranges) ==
    LET bad == {i \in DOMAIN ranges : TextLength(ranges[i]) > MaxText}
    IN  IF bad = {} THEN Len(ranges) ELSE (CHOOSE i \in bad : \A j \in bad : i <= j) - 1

(* mutant: overwrite is never cleared *)
ToldRanges_Overwrite(lines, ranges, n) ==
    IF n = 0 THEN lines ELSE << Written(ranges[n]) >>

(* The lines of the file after n ranges were told. *)
ToldRanges(lines, ranges, n) ==
    IF n = 0 THEN lines ELSE [i \in 1..n |-> Written(ranges[i])]

(* n, of the ranges or of the one empty value, are told. *)
SavedRanges(lines, ranges, n) ==
    IF ranges = << >> THEN (IF n = 0 THEN lines ELSE << >>)
    ELSE ToldRanges(lines, ranges, n)

ToTell(ranges) == IF ranges = << >> THEN 1 ELSE Len(ranges)
CanTell(ranges) == IF ranges = << >> THEN 1 ELSE Fitting(ranges)

(***************************************************************************)
(* A new range: put in order, checked, and put before the first range of a *)
(* greater protocol.                                                       *)
(***************************************************************************)

Normalised(p) ==
    [p EXCEPT !.src_high = IF p.src_low = @ THEN 0 ELSE @,
              !.dst_high = IF p.dst_low = @ /\ p.protocol # ICMP THEN 0 ELSE @]

(* mutant: there is no highest port *)
PortsInRange_NoMaximum(p) == p.src_low >= 1 /\ p.dst_low >= 1

PortsInRange(p) ==
    /\ \A n \in Numbers(p) : n <= 65535
    /\ p.src_low >= 1 /\ p.dst_low >= 1

Rising(low, high) == high > 0 => low <= high

Valid(p) ==
    /\ p.protocol # 0 /\ p.protocol <= 255
    /\ HasPorts(p.protocol) =>
          PortsInRange(p) /\ Rising(p.src_low, p.src_high) /\ Rising(p.dst_low, p.dst_high)
    /\ p.protocol = ICMP => p.dst_low <= 255 /\ p.dst_high <= 16

(* mutant: the place is always the end *)
Place_End(list, protocol) == Len(list) + 1

(* The first entry of a greater protocol, or one past the end. *)
Place(list, protocol) ==
    LET greater == {i \in DOMAIN list : protocol < list[i].protocol}
    IN  IF greater = {} THEN Len(list) + 1
        ELSE CHOOSE i \in greater : \A j \in greater : i <= j

(* Is there a range of the protocol before that place? *)
Taken(list, protocol) ==
    /\ protocol \notin {ICMP, TCP, UDP}
    /\ \E i \in 1 .. Place(list, protocol) - 1 : list[i].protocol = protocol

===============================================================================
