---------------------------- MODULE MqttTransport ----------------------------
(***************************************************************************)
(* Who a node is and which topics are its own (services/mqtt/tls.rs and    *)
(* the constructor and topic builders of transport.rs).                    *)
(*                                                                         *)
(* A text that goes into a topic is the sequence of the pieces between its *)
(* slashes: "uav" is <<"uav">>, "fleet/nodes/uav" has three pieces and the *)
(* empty text is <<"">>.  A piece is empty, a word, or "+" or "#", which   *)
(* also stand for the longer pieces that hold one of them or a NUL.        *)
(***************************************************************************)
EXTENDS Naturals, Sequences, SequencesExt

CONSTANT Name   (* The texts considered for node ids and prefixes.          *)

ASSUME NameAssumption == \A name \in Name : name \in Seq(STRING) /\ name # <<>>

Special == {"", "+", "#"}

-----------------------------------------------------------------------------
(* The identity of a node.                                                  *)

(* The files that can be read, whether the client's is a certificate in PEM *)
(* form, and the attributes of its subject.  A value that is no UTF-8 has   *)
(* no pieces.                                                               *)
NoText == <<>>
Attribute == [type : {"CN", "O"}, value : Name \cup {NoText}]

load_tls_config(certs) == certs.files = {"ca", "cert", "key"}

(* The first common name counts, even if it cannot be used.                 *)
extract_node_id(certs) ==
  LET names == {i \in DOMAIN certs.subject : certs.subject[i].type = "CN"}
  IN  IF certs.pem /\ names # {} THEN certs.subject[Min(names)].value ELSE NoText

(* Mutant: slashes are not looked for.                                      *)
validate_any_piece(name) == \A i \in DOMAIN name : name[i] \notin Special

(* A text that is one level of a topic and matches only itself.             *)
validate_topic_segment(name) == Len(name) = 1 /\ name[1] \notin Special

Identity == [node_id : Name, env_prefix : Name]
Nobody == [node_id |-> NoText, env_prefix |-> NoText]

Accepted(id) == validate_topic_segment(id.node_id) /\ validate_topic_segment(id.env_prefix)

(* The identity that MqttTransport::new arrives at, if it does.             *)
new(mqtt, certs) ==
  LET id == [node_id |-> extract_node_id(certs), env_prefix |-> mqtt.env_prefix]
  IN  IF load_tls_config(certs) /\ id.node_id # NoText /\ Accepted(id) THEN id ELSE Nobody

-----------------------------------------------------------------------------
(* Topics.                                                                  *)

Node(id) == id.env_prefix \o <<"nodes">> \o id.node_id

telemetry_topic(id, name) == Node(id) \o <<"telemetry", name>>
status_topic(id) == Node(id) \o <<"status">>

(* Without a suffix the command ends the topic; without both a slash does.  *)
command_topic(id, cmd, suffix) ==
  Node(id) \o <<"cmnd", cmd>> \o (IF suffix = "" THEN <<>> ELSE <<suffix>>)

(* Mutant: the name may be what follows the prefix of any node's topics.    *)
extract_last_name(topic, prefix) ==
  IF Last(topic) = "in" THEN topic[Len(prefix)] ELSE ""

(* The command of a topic below the prefix, which ends with a slash.        *)
extract_command_name(topic, prefix) ==
  LET above == Front(prefix)
      below == SubSeq(topic, Len(above) + 1, Len(topic))
  IN  IF /\ IsPrefix(above, topic)
         /\ Len(below) = 2 /\ below[1] \notin Special /\ below[2] = "in"
        THEN below[1] ELSE ""

(* The broker delivers a topic to whoever subscribed to the filter.         *)
Covers(filter, topic) ==
  /\ Len(filter) = Len(topic)
  /\ \A i \in DOMAIN filter : filter[i] \in {"+", topic[i]}

Commands == {"restart", "get_config"}
Reports == {"lte", "ping", "system"}

(* All that the node publishes to.                                          *)
Published(id) ==
  {telemetry_topic(id, name) : name \in Reports} \cup {status_topic(id)}
    \cup {command_topic(id, cmd, suffix) : cmd \in Commands, suffix \in {"status", "result"}}
=============================================================================
