-------------------------- MODULE MCCommandProcessor --------------------------
(* A small instance of CommandProcessor.                                    *)
EXTENDS CommandProcessor

(* What the server may send: a command that runs and returns, the restart   *)
(* that parks, a command without handler, and noise.                        *)
AllCommands ==
  [cmd : {"get_config", "restart", "unknown"}, uuid : Uuid] \cup {Garbage}

RestartsOfUnitctl == [cmd : {"restart"}, uuid : Uuid]
=============================================================================
