---------------------------- MODULE MCModemAccess ----------------------------
(* Instance of ModemAccess: a command of each list, a write form and one    *)
(* that is in no list.                                                      *)
EXTENDS ModemAccess

SmallCommands ==
  {[prefix |-> "AT+CSQ", suffix |-> "", plain |-> TRUE],
   [prefix |-> "AT+COPS", suffix |-> "=1", plain |-> TRUE],
   [prefix |-> "other", suffix |-> "", plain |-> TRUE]}
=============================================================================
