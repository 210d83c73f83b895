----------------------------- MODULE MCRuleset -----------------------------
EXTENDS Ruleset

MCDevices == << "ethL", "ethW" >>
Config(custom, counted, nfqueue, forward4, forward6, lost, sysctl) ==
    [custom |-> custom, counted |-> counted, nfqueue |-> nfqueue,
     forward |-> [f \in Family |-> IF f = 4 THEN forward4 ELSE forward6],
     lost |-> [f \in Family |-> lost], sysctl |-> sysctl]

\* a plain one; one that queues and in which parts were passed over; one with
\* rules that name a chain of Vuurmuur's and that of a device it does not count
MCConfigs == {
    Config({}, {"ethL", "ethW"}, FALSE, TRUE, FALSE, {}, TRUE),
    Config({"CUSTOM"}, {"ethW"}, TRUE, TRUE, TRUE,
           {<<"hooks", "TCPRESET">>, <<"ESTRELNFQUEUE", "NEWNFQUEUE">>, <<"NEWNFQUEUE", "SYNLIMIT">>}, TRUE),
    Config({"CUSTOM", "SYNLIMIT", "ACC-ethW"}, {"ethL"}, FALSE, FALSE, FALSE, {<<"BLOCKLIST", "BLOCK">>}, FALSE)
}
=============================================================================
