-------------------------- MODULE MCCommandHandlers --------------------------
(* A small instance of CommandHandlers: one command with a TTL beyond i64   *)
(* and one whose TTL ends between the two readings of the clock, which is   *)
(* also sent under the wrong name.                                          *)
EXTENDS CommandHandlers

CONSTANTS path, setting, u1, u2

NodeConfig ==
  [general |-> setting,
   mqtt |-> [host |-> setting, ca_cert_path |-> path, client_cert_path |-> path,
             client_key_path |-> path]]

Sent ==
  [u \in Uuid |->
     CASE u = u1 -> [issued_at |-> 1, ttl_sec |-> 9, payload |-> [type |-> "GetConfig"]]
       [] u = u2 -> [issued_at |-> 1, ttl_sec |-> 3,
                     payload |-> [type |-> "Restart", target |-> "camera"]]]

SentMessages ==
  {[cmd |-> "get_config", uuid |-> u1],
   [cmd |-> "restart", uuid |-> u2], [cmd |-> "get_config", uuid |-> u2]}
=============================================================================
