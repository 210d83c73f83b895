--------------------------- MODULE MCServiceEditor ---------------------------
(* A service of the new format with a range with ports and one without, a  *)
(* service of the old format whose text is too long to save, as traceroute *)
(* has one, and the Makefile of the services, which is read like a service *)
(* of the old format.                                                      *)
EXTENDS ServiceEditor

Ports(protocol, low, high) ==
    [protocol |-> protocol, src_low |-> 1024, src_high |-> 65535, dst_low |-> low,
     dst_high |-> high]

MCDiskServices ==
    [n \in {1, 2, 9} |->
        CASE n = 1 -> [ACTIVE |-> TRUE, BROADCAST |-> FALSE, OLD |-> << >>,
                       RANGE |-> << Ports(TCP, 80, 0), NoPorts(GRE) >>]
          [] n = 2 -> [ACTIVE |-> TRUE, BROADCAST |-> FALSE, RANGE |-> << >>,
                       OLD |-> << Ports(UDP, 33434, 33523), NoPorts(AH) >>]
          [] n = 9 -> [ACTIVE |-> FALSE, BROADCAST |-> FALSE, RANGE |-> << >>,
                       OLD |-> << Ports(TCP, 70000, 0) >>]]
MCDiskRules == <<1, 2>>

MCEntered == {Ports(0, 443, 443), Ports(0, 99999, 0), Ports(0, 20, -5)}
MCEnteredICMP == {<<8, 0>>}
MCLeftover == {NoPorts(0), Ports(GRE, 53, 0), [Ports(ICMP, 8, 0) EXCEPT !.src_high = 99999]}
===============================================================================
