---------------------------- MODULE MCConfigReload ----------------------------
(* Six settings, one of every kind that is read in a way of its own.       *)
EXTENDS ConfigReload

MCKeys == {"ZONES_BACKEND", "SYN_LIMIT", "PROTECT_ECHOBROADCAST", "LOGLEVEL", "LOGDIR",
           "NEWRULE_LOGLIMIT"}

(* A setting whose set is empty is not changed in a form here. *)
MCInputs ==
    [k \in MCKeys |->
        CASE k = "ZONES_BACKEND"    -> {"other", ""}
          [] k = "SYN_LIMIT"        -> {"0"}
          [] k = "LOGDIR"           -> {"/bad"}
          [] k = "NEWRULE_LOGLIMIT" -> {"1"}
          [] OTHER                  -> {}]

MCByHand == {<<"SYN_LIMIT", "0">>, <<"LOGLEVEL", TooLong>>, <<"LOGDIR", Absent>>}

MCBeginnings == {<<"1", "10">>}
===============================================================================
