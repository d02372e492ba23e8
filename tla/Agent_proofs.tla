------------------------------ MODULE Agent_proofs ------------------------------
(***************************************************************************)
(* Proofs about the process: that its topics are its own, for all names in *)
(* certificates and configurations; that the files it writes set nothing   *)
(* but their variables, for all configurations; that the first connection  *)
(* finds its subscribers; the types; what makes main panic; that waiting   *)
(* for a lock comes to an end, and that the process leaves nothing behind. *)
(***************************************************************************)
EXTENDS Agent, SequenceTheorems, WellFoundedInduction, TLAPS

-----------------------------------------------------------------------------
(* Topics.                                                                  *)

(* Two sequences, whatever their elements, one after the other.             *)
LEMMA Joined ==
  ASSUME NEW S, NEW T, NEW s \in Seq(S), NEW t \in Seq(T)
  PROVE  /\ s \o t \in Seq(S \cup T)
         /\ Len(s \o t) = Len(s) + Len(t)
         /\ \A i \in 1..Len(s) : (s \o t)[i] = s[i]
         /\ \A i \in 1..Len(t) : (s \o t)[Len(s) + i] = t[i]
<1>1. s \in Seq(S \cup T) /\ t \in Seq(S \cup T)
  OBVIOUS
<1>2. /\ s \o t \in Seq(S \cup T)
      /\ Len(s \o t) = Len(s) + Len(t)
      /\ \A i \in 1..(Len(s) + Len(t)) :
           (s \o t)[i] = IF i <= Len(s) THEN s[i] ELSE t[i - Len(s)]
  BY <1>1, ConcatProperties
<1>3. Len(s) \in Nat /\ Len(t) \in Nat
  OBVIOUS
<1>4. \A i \in 1..Len(s) : i \in 1..(Len(s) + Len(t)) /\ i <= Len(s)
  BY <1>3
<1>5. \A i \in 1..Len(t) :
        /\ Len(s) + i \in 1..(Len(s) + Len(t)) /\ ~(Len(s) + i <= Len(s))
        /\ (Len(s) + i) - Len(s) = i
  BY <1>3
<1> QED
  BY <1>2, <1>4, <1>5

(* The names of an identity that was accepted have one piece each.          *)
LEMMA OnePiece ==
  ASSUME NEW id \in Identity, Accepted(id)
  PROVE  /\ id.env_prefix = <<id.env_prefix[1]>> /\ id.env_prefix[1] \notin Special
         /\ id.node_id = <<id.node_id[1]>> /\ id.node_id[1] \notin Special
<1>1. id.env_prefix \in Seq(STRING) /\ id.node_id \in Seq(STRING)
  BY NameAssumption DEF Identity
<1>2. ASSUME NEW name \in Seq(STRING), validate_topic_segment(name)
      PROVE  name = <<name[1]>> /\ name[1] \notin Special
  BY <1>2 DEF validate_topic_segment
<1> QED
  BY <1>1, <1>2 DEF Accepted

LEMMA SameNames ==
  ASSUME NEW id \in Identity, Accepted(id), NEW other \in Identity, Accepted(other),
         other.env_prefix[1] = id.env_prefix[1], other.node_id[1] = id.node_id[1]
  PROVE  other = id
<1>1. id.env_prefix = other.env_prefix /\ id.node_id = other.node_id
  BY OnePiece
<1> QED
  BY <1>1 DEF Identity

(* Below its node, a topic of an accepted identity begins with the two      *)
(* names, at its first and third place.                                     *)
LEMMA NodeTopic ==
  ASSUME NEW id \in Identity, Accepted(id), NEW S, NEW rest \in Seq(S)
  PROVE  LET topic == Node(id) \o rest
         IN  /\ \E T : topic \in Seq(T)
             /\ Len(topic) = 3 + Len(rest)
             /\ topic[1] = id.env_prefix[1] /\ topic[2] = "nodes"
             /\ topic[3] = id.node_id[1]
             /\ \A i \in 1..Len(rest) : topic[3 + i] = rest[i]
<1> DEFINE p == id.env_prefix[1]
           w == id.node_id[1]
           node == <<p>> \o <<"nodes">> \o <<w>>
<1>1. Node(id) = node
  BY OnePiece DEF Node
<1>2. /\ <<p>> \o <<"nodes">> \in Seq({p} \cup {"nodes"})
      /\ Len(<<p>> \o <<"nodes">>) = 2
      /\ (<<p>> \o <<"nodes">>)[1] = p /\ (<<p>> \o <<"nodes">>)[2] = "nodes"
  <2>1. /\ <<p>> \in Seq({p}) /\ Len(<<p>>) = 1 /\ <<p>>[1] = p
        /\ <<"nodes">> \in Seq({"nodes"}) /\ Len(<<"nodes">>) = 1 /\ <<"nodes">>[1] = "nodes"
    OBVIOUS
  <2> QED
    BY <2>1, Joined
<1>3. /\ node \in Seq(({p} \cup {"nodes"}) \cup {w}) /\ Len(node) = 3
      /\ node[1] = p /\ node[2] = "nodes" /\ node[3] = w
  <2>1. <<w>> \in Seq({w}) /\ Len(<<w>>) = 1 /\ <<w>>[1] = w
    OBVIOUS
  <2> QED
    BY <1>2, <2>1, Joined
<1> HIDE DEF node, p, w
<1>4. /\ \E T : (node \o rest) \in Seq(T)
      /\ Len(node \o rest) = 3 + Len(rest)
      /\ \A i \in 1..3 : (node \o rest)[i] = node[i]
      /\ \A i \in 1..Len(rest) : (node \o rest)[3 + i] = rest[i]
  <2>1. PICK R : node \in Seq(R)
    BY <1>3
  <2>2. /\ node \o rest \in Seq(R \cup S)
        /\ Len(node \o rest) = Len(node) + Len(rest)
        /\ \A i \in 1..Len(node) : (node \o rest)[i] = node[i]
        /\ \A i \in 1..Len(rest) : (node \o rest)[Len(node) + i] = rest[i]
    BY <2>1, Joined
  <2> QED
    BY <1>3, <2>2
<1> QED
  BY <1>1, <1>3, <1>4 DEF p, w

(* A topic of commands has five pieces without a suffix and six with one.   *)
LEMMA FivePieces ==
  ASSUME NEW id \in Identity, Accepted(id), NEW cmd
  PROVE  LET stem == Node(id) \o <<"cmnd", cmd>>
         IN  /\ \E T : stem \in Seq(T)
             /\ Len(stem) = 5
             /\ stem[1] = id.env_prefix[1] /\ stem[2] = "nodes"
             /\ stem[3] = id.node_id[1] /\ stem[4] = "cmnd" /\ stem[5] = cmd
<1> DEFINE rest == <<"cmnd", cmd>>
           stem == Node(id) \o rest
<1>1. /\ rest \in Seq({"cmnd", cmd}) /\ Len(rest) = 2
      /\ rest[1] = "cmnd" /\ rest[2] = cmd
  OBVIOUS
<1> HIDE DEF rest
<1>2. /\ \E T : stem \in Seq(T)
      /\ Len(stem) = 3 + Len(rest)
      /\ stem[1] = id.env_prefix[1] /\ stem[2] = "nodes" /\ stem[3] = id.node_id[1]
      /\ \A i \in 1..Len(rest) : stem[3 + i] = rest[i]
  BY <1>1, NodeTopic
<1> HIDE DEF stem
<1>3. stem[3 + 1] = rest[1] /\ stem[3 + 2] = rest[2]
  BY <1>1, <1>2
<1>4. Len(stem) = 5 /\ stem[4] = "cmnd" /\ stem[5] = cmd
  BY <1>1, <1>2, <1>3
<1> QED
  BY <1>2, <1>4 DEF stem, rest

LEMMA SixPieces ==
  ASSUME NEW id \in Identity, Accepted(id), NEW cmd, NEW suffix
  PROVE  LET topic == Node(id) \o <<"cmnd", cmd>> \o <<suffix>>
         IN  /\ \E T : topic \in Seq(T)
             /\ Len(topic) = 6
             /\ topic[1] = id.env_prefix[1] /\ topic[2] = "nodes"
             /\ topic[3] = id.node_id[1] /\ topic[4] = "cmnd" /\ topic[5] = cmd
             /\ topic[6] = suffix
<1> DEFINE stem == Node(id) \o <<"cmnd", cmd>>
           topic == stem \o <<suffix>>
<1>1. /\ \E T : stem \in Seq(T)
      /\ Len(stem) = 5
      /\ stem[1] = id.env_prefix[1] /\ stem[2] = "nodes"
      /\ stem[3] = id.node_id[1] /\ stem[4] = "cmnd" /\ stem[5] = cmd
  BY FivePieces
<1> HIDE DEF stem
<1>2. PICK T : stem \in Seq(T)
  BY <1>1
<1>3. <<suffix>> \in Seq({suffix}) /\ Len(<<suffix>>) = 1 /\ <<suffix>>[1] = suffix
  OBVIOUS
<1>4. /\ topic \in Seq(T \cup {suffix})
      /\ Len(topic) = Len(stem) + Len(<<suffix>>)
      /\ \A i \in 1..Len(stem) : topic[i] = stem[i]
      /\ \A i \in 1..Len(<<suffix>>) : topic[Len(stem) + i] = <<suffix>>[i]
  BY <1>2, <1>3, Joined
<1> HIDE DEF topic
<1>5. /\ \E U : topic \in Seq(U)
      /\ Len(topic) = 6 /\ topic[6] = suffix
      /\ \A i \in 1..5 : topic[i] = stem[i]
  BY <1>1, <1>3, <1>4
<1>6. /\ topic[1] = stem[1] /\ topic[2] = stem[2] /\ topic[3] = stem[3]
      /\ topic[4] = stem[4] /\ topic[5] = stem[5]
  BY <1>5
<1> QED
  BY <1>1, <1>5, <1>6 DEF topic, stem

(* The same, of the topics that the code builds.                            *)
LEMMA CommandPrefix ==
  ASSUME NEW id \in Identity, Accepted(id)
  PROVE  LET topic == command_topic(id, "", "")
         IN  /\ \E T : topic \in Seq(T)
             /\ Len(topic) = 5
             /\ topic[1] = id.env_prefix[1] /\ topic[2] = "nodes"
             /\ topic[3] = id.node_id[1] /\ topic[4] = "cmnd"
<1> DEFINE none == ""
           stem == Node(id) \o <<"cmnd", none>>
<1>1. command_topic(id, "", "") = stem \o <<>>
  BY DEF command_topic
<1> HIDE DEF none
<1>2. /\ \E T : stem \in Seq(T)
      /\ Len(stem) = 5
      /\ stem[1] = id.env_prefix[1] /\ stem[2] = "nodes"
      /\ stem[3] = id.node_id[1] /\ stem[4] = "cmnd"
  BY FivePieces
<1> HIDE DEF stem
<1>3. stem \o <<>> = stem
  BY <1>2
<1> QED
  BY <1>1, <1>2, <1>3

LEMMA CommandTopic ==
  ASSUME NEW id \in Identity, Accepted(id), NEW cmd,
         NEW suffix, suffix \in {"in", "status", "result"}
  PROVE  LET topic == command_topic(id, cmd, suffix)
         IN  /\ \E T : topic \in Seq(T)
             /\ Len(topic) = 6
             /\ topic[1] = id.env_prefix[1] /\ topic[2] = "nodes"
             /\ topic[3] = id.node_id[1] /\ topic[4] = "cmnd" /\ topic[5] = cmd
             /\ topic[6] = suffix
<1> DEFINE topic == Node(id) \o <<"cmnd", cmd>> \o <<suffix>>
<1>1. command_topic(id, cmd, suffix) = topic
  BY DEF command_topic
<1>2. /\ \E T : topic \in Seq(T)
      /\ Len(topic) = 6
      /\ topic[1] = id.env_prefix[1] /\ topic[2] = "nodes"
      /\ topic[3] = id.node_id[1] /\ topic[4] = "cmnd" /\ topic[5] = cmd
      /\ topic[6] = suffix
  BY SixPieces
<1> QED
  BY <1>1, <1>2, Zenon

(* The broker delivers to the subscription of an identity the commands of   *)
(* that identity, and no other's.                                           *)
LEMMA SubscriptionCovers ==
  ASSUME NEW id \in Identity, Accepted(id), NEW other \in Identity, Accepted(other),
         NEW cmd \in Commands
  PROVE  Covers(command_topic(id, "+", "in"), command_topic(other, cmd, "in"))
           <=> other = id
<1> DEFINE filter == command_topic(id, "+", "in")
           topic == command_topic(other, cmd, "in")
<1>0. "in" \in {"in", "status", "result"}
  OBVIOUS
<1>1. /\ \E T : filter \in Seq(T)
      /\ Len(filter) = 6 /\ filter[1] = id.env_prefix[1] /\ filter[2] = "nodes"
      /\ filter[3] = id.node_id[1] /\ filter[4] = "cmnd" /\ filter[5] = "+"
      /\ filter[6] = "in"
  BY <1>0, CommandTopic
<1>2. /\ Len(topic) = 6 /\ topic[1] = other.env_prefix[1] /\ topic[2] = "nodes"
      /\ topic[3] = other.node_id[1] /\ topic[4] = "cmnd" /\ topic[6] = "in"
  BY <1>0, CommandTopic
<1> HIDE DEF filter, topic
<1>3. DOMAIN filter = 1..6
  BY <1>1
<1>4. /\ id.env_prefix[1] # "+" /\ id.node_id[1] # "+"
  BY OnePiece DEF Special
<1>5. ASSUME Covers(filter, topic)
      PROVE  other = id
  <2>1. 1 \in DOMAIN filter /\ 3 \in DOMAIN filter
    BY <1>3
  <2>2. filter[1] \in {"+", topic[1]} /\ filter[3] \in {"+", topic[3]}
    BY <1>5, <2>1 DEF Covers
  <2>3. other.env_prefix[1] = id.env_prefix[1] /\ other.node_id[1] = id.node_id[1]
    BY <1>1, <1>2, <1>4, <2>2
  <2> QED
    BY <2>3, SameNames
<1>6. ASSUME other = id
      PROVE  Covers(filter, topic)
  <2>1. \A i \in 1..6 : filter[i] \in {"+", topic[i]}
    <3>1. \A i \in 1..6 : i = 1 \/ i = 2 \/ i = 3 \/ i = 4 \/ i = 5 \/ i = 6
      OBVIOUS
    <3> QED
      BY <1>1, <1>2, <1>6, <3>1
  <2> QED
    BY <1>1, <1>2, <1>3, <2>1 DEF Covers
<1> QED
  BY <1>5, <1>6 DEF filter, topic

(* A command's name is taken from the topics of this identity only.         *)
LEMMA NameExtracted ==
  ASSUME NEW id \in Identity, Accepted(id), NEW other \in Identity, Accepted(other),
         NEW cmd \in Commands, cmd \notin Special
  PROVE  extract_command_name(command_topic(other, cmd, "in"), command_topic(id, "", ""))
           = IF other = id THEN cmd ELSE ""
<1> DEFINE prefix == command_topic(id, "", "")
           topic == command_topic(other, cmd, "in")
           above == Front(prefix)
           below == SubSeq(topic, Len(above) + 1, Len(topic))
<1>0. "in" \in {"in", "status", "result"}
  OBVIOUS
<1>1. /\ \E T : prefix \in Seq(T)
      /\ Len(prefix) = 5 /\ prefix[1] = id.env_prefix[1] /\ prefix[2] = "nodes"
      /\ prefix[3] = id.node_id[1] /\ prefix[4] = "cmnd"
  BY CommandPrefix
<1>2. /\ \E T : topic \in Seq(T)
      /\ Len(topic) = 6 /\ topic[1] = other.env_prefix[1] /\ topic[2] = "nodes"
      /\ topic[3] = other.node_id[1] /\ topic[4] = "cmnd" /\ topic[5] = cmd
      /\ topic[6] = "in"
  BY <1>0, CommandTopic
<1> HIDE DEF prefix, topic
<1>3. above = [i \in 1..4 |-> prefix[i]] /\ Len(above) = 4
  BY <1>1 DEF Front
<1> HIDE DEF above
<1>4. Len(below) = 2 /\ below[1] = cmd /\ below[2] = "in"
  BY <1>2, <1>3
<1> HIDE DEF below
<1>5. SubSeq(above, 1, Len(above)) = above
  BY <1>3
<1>6. SubSeq(topic, 1, Len(above)) = [i \in 1..4 |-> topic[i]]
  BY <1>2, <1>3
<1>7. IsPrefix(above, topic) <=> \A i \in 1..4 : prefix[i] = topic[i]
  BY <1>2, <1>3, <1>5, <1>6 DEF IsPrefix
<1>8. (\A i \in 1..4 : prefix[i] = topic[i]) <=> other = id
  <2>1. ASSUME \A i \in 1..4 : prefix[i] = topic[i]
        PROVE  other = id
    <3>1. prefix[1] = topic[1] /\ prefix[3] = topic[3]
      BY <2>1
    <3> QED
      BY <1>1, <1>2, <3>1, SameNames
  <2>2. ASSUME other = id
        PROVE  \A i \in 1..4 : prefix[i] = topic[i]
    <3>1. \A i \in 1..4 : i = 1 \/ i = 2 \/ i = 3 \/ i = 4
      OBVIOUS
    <3> QED
      BY <1>1, <1>2, <2>2, <3>1
  <2> QED
    BY <2>1, <2>2
<1>9. extract_command_name(topic, prefix) =
        IF IsPrefix(above, topic) /\ Len(below) = 2 /\ below[1] \notin Special /\ below[2] = "in"
          THEN below[1] ELSE ""
  BY DEF extract_command_name, above, below
<1> QED
  BY <1>4, <1>7, <1>8, <1>9 DEF prefix, topic

(* All that an identity publishes to is below its node.                     *)
LEMMA PublishedBelow ==
  ASSUME NEW id \in Identity, Accepted(id), NEW topic \in Published(id)
  PROVE  topic[1] = id.env_prefix[1] /\ topic[3] = id.node_id[1]
<1>1. CASE \E name \in Reports : topic = telemetry_topic(id, name)
  <2>1. PICK name \in Reports : topic = telemetry_topic(id, name)
    BY <1>1
  <2>2. <<"telemetry", name>> \in Seq({"telemetry", name})
    OBVIOUS
  <2> QED
    BY <2>1, <2>2, NodeTopic DEF telemetry_topic
<1>2. CASE topic = status_topic(id)
  <2>1. <<"status">> \in Seq({"status"})
    OBVIOUS
  <2> QED
    BY <1>2, <2>1, NodeTopic DEF status_topic
<1>3. CASE \E cmd \in Commands, suffix \in {"status", "result"} :
             topic = command_topic(id, cmd, suffix)
  <2>1. PICK cmd \in Commands, suffix \in {"status", "result"} :
               topic = command_topic(id, cmd, suffix)
    BY <1>3
  <2>2. suffix \in {"in", "status", "result"}
    OBVIOUS
  <2> QED
    BY <2>1, <2>2, CommandTopic
<1> QED
  BY <1>1, <1>2, <1>3 DEF Published

(* The topics of an identity that was accepted are its own.                 *)
LEMMA TopicsOwn ==
  ASSUME NEW id \in Identity, Accepted(id), NEW other \in Identity, Accepted(other)
  PROVE  /\ \A cmd \in Commands :
              LET topic == command_topic(other, cmd, "in")
              IN  /\ Covers(command_topic(id, "+", "in"), topic) <=> other = id
                  /\ extract_command_name(topic, command_topic(id, "", ""))
                       = IF other = id THEN cmd ELSE ""
         /\ Published(other) \cap Published(id) # {} => other = id
<1>1. \A cmd \in Commands : cmd \notin Special
  BY DEF Commands, Special
<1>2. ASSUME NEW topic \in Published(other) \cap Published(id)
      PROVE  other = id
  BY PublishedBelow, SameNames
<1> QED
  BY <1>1, <1>2, SubscriptionCovers, NameExtracted
-----------------------------------------------------------------------------
(* Whom the transport speaks for.                                           *)

LEMMA LeastIn ==
  ASSUME NEW S \in SUBSET Nat, S # {}
  PROVE  Min(S) \in S
<1> DEFINE R == OpToRel(<, Nat)
<1>1. IsWellFoundedOn(R, Nat)
  BY NatLessThanWellFounded
<1>2. \A x \in Nat, y \in Nat : <<y, x>> \in R <=> y < x
  BY DEF OpToRel
<1> HIDE DEF R
<1>3. PICK n \in S : \A m \in S : ~(<<m, n>> \in R)
  BY <1>1, WFMin
<1>4. \A m \in S : n <= m
  <2> TAKE m \in S
  <2>1. m \in Nat /\ n \in Nat
    OBVIOUS
  <2>2. ~(<<m, n>> \in R)
    BY <1>3
  <2>3. <<m, n>> \in R <=> m < n
    BY <1>2, <2>1
  <2> QED
    BY <2>1, <2>2, <2>3
<1> QED
  BY <1>4 DEF Min

(* The id of a node is a name, or there is none.                            *)
LEMMA NodeId ==
  ASSUME NEW certs \in Certificates
  PROVE  extract_node_id(certs) \in Name \cup {NoText}
<1> DEFINE names == {i \in DOMAIN certs.subject : certs.subject[i].type = "CN"}
<1>1. certs.subject \in Seq(Attribute)
  BY AgentAssumption
<1>2. names \in SUBSET Nat /\ names \subseteq DOMAIN certs.subject
  BY <1>1
<1>3. CASE certs.pem /\ names # {}
  <2>1. Min(names) \in names
    BY <1>2, <1>3, LeastIn
  <2>2. certs.subject[Min(names)] \in Attribute
    <3>1. Min(names) \in DOMAIN certs.subject
      BY <1>2, <2>1
    <3>2. \A i \in DOMAIN certs.subject : certs.subject[i] \in Attribute
      BY <1>1
    <3> QED
      BY <3>1, <3>2
  <2>3. extract_node_id(certs) = certs.subject[Min(names)].value
    BY <1>3 DEF extract_node_id
  <2> QED
    BY <2>2, <2>3 DEF Attribute
<1>4. CASE ~(certs.pem /\ names # {})
  BY <1>4 DEF extract_node_id
<1> QED
  BY <1>3, <1>4

LEMMA NewIdentity ==
  ASSUME config \in Config, NEW certs \in Certificates
  PROVE  \/ new(config.mqtt, certs) = Nobody
         \/ /\ new(config.mqtt, certs) \in Identity
            /\ Accepted(new(config.mqtt, certs))
<1> DEFINE id == [node_id |-> extract_node_id(certs), env_prefix |-> config.mqtt.env_prefix]
<1>1. config.mqtt.env_prefix \in Name
  BY DEF Config, MqttConfig
<1>2. id.node_id # NoText => id \in Identity
  BY <1>1, NodeId DEF Identity
<1> QED
  BY <1>2 DEF new

(* The configuration is never changed, and the identity only once.          *)
IdentityInv ==
  /\ config \in Config
  /\ identity = Nobody \/ (identity \in Identity /\ Accepted(identity))

LEMMA ConfigKept ==
  ASSUME [Next]_vars
  PROVE  config' = config
BY DEF Next, Main, Sensors, Tasks, vars, Load, Resolve, SpawnWriters, SpawnSensors,
       NewTransport, NewSubscriber, RunTransport, RunTelemetry, Cancelled, Join, Signal,
       WriteCamera, WriteMavlink, Sensing, transportFrame, Connect, Disconnect,
       WriteRequest, StopTransport, DropEventLoop, publisherFrame, PublisherWakes,
       PublisherCancelled, PublisherReads, PublisherQueues, PublisherRefused,
       reporterFrame, ReporterTick, ReporterReads, ReporterCancelled, OthersPublish,
       OthersEnd

LEMMA IdentityKept ==
  ASSUME [Next]_vars
  PROVE  NewTransport \/ identity' = identity
BY DEF Next, Main, Sensors, Tasks, vars, mqttVars, Load, Resolve, SpawnWriters,
       SpawnSensors, NewSubscriber, RunTransport, RunTelemetry, Cancelled, Join, Signal,
       WriteCamera, WriteMavlink, Sensing, transportFrame, Connect, Disconnect,
       WriteRequest, StopTransport, DropEventLoop, publisherFrame, PublisherWakes,
       PublisherCancelled, PublisherReads, PublisherQueues, PublisherRefused,
       reporterFrame, ReporterTick, ReporterReads, ReporterCancelled, OthersPublish,
       OthersEnd

LEMMA IdentityAlways == Spec => []IdentityInv
<1>1. Init => IdentityInv
  BY AgentAssumption DEF Init, IdentityInv
<1>2. IdentityInv /\ [Next]_vars => IdentityInv'
  <2> SUFFICES ASSUME IdentityInv, [Next]_vars
               PROVE  IdentityInv'
    OBVIOUS
  <2>1. config' \in Config
    BY ConfigKept DEF IdentityInv
  <2>2. CASE NewTransport
    <3>1. PICK certs \in Certificates : identity' = new(config.mqtt, certs)
      BY <2>2 DEF NewTransport
    <3>2. \/ new(config.mqtt, certs) = Nobody
          \/ /\ new(config.mqtt, certs) \in Identity
             /\ Accepted(new(config.mqtt, certs))
      BY NewIdentity DEF IdentityInv
    <3>3. Accepted(new(config.mqtt, certs)) => Accepted(identity)'
      BY <3>1 DEF Accepted
    <3> QED
      BY <2>1, <3>1, <3>2, <3>3 DEF IdentityInv
  <2>3. CASE identity' = identity
    BY <2>1, <2>3 DEF IdentityInv, Accepted
  <2> QED
    BY <2>2, <2>3, IdentityKept
<1> QED
  BY <1>1, <1>2, PTL DEF Spec

(* "Validate that a string is safe for use in MQTT topic segments"          *)
(* (transport.rs:38): for all names in certificates and configurations, the *)
(* subscription of a node covers exactly the commands that are meant for it *)
(* and takes each for what it is, and no other node publishes to the topics *)
(* that it publishes to.                                                    *)
THEOREM TopicsAlwaysOwn == Spec => []OwnTopics
<1>1. IdentityInv => OwnTopics
  <2> SUFFICES ASSUME IdentityInv, identity # Nobody,
                      NEW other \in {id \in Identity : Accepted(id)}
               PROVE  /\ \A cmd \in Commands :
                           LET topic == command_topic(other, cmd, "in")
                           IN  /\ Covers(command_topic(identity, "+", "in"), topic)
                                    <=> other = identity
                               /\ extract_command_name(topic, command_topic(identity, "", ""))
                                    = IF other = identity THEN cmd ELSE ""
                      /\ Published(other) \cap Published(identity) # {} => other = identity
    BY DEF OwnTopics
  <2>1. identity \in Identity /\ Accepted(identity)
    BY DEF IdentityInv
  <2> QED
    BY <2>1, TopicsOwn
<1> QED
  BY <1>1, IdentityAlways, PTL

-----------------------------------------------------------------------------
(* The environment files.                                                   *)

(* The pairs of a file, and what a valid configuration puts into them.      *)
LEMMA CameraAssignments ==
  ASSUME NEW c, NEW i \in 1..9
  PROVE  /\ generate_camera_env(c)[i][1] # Another
         /\ generate_camera_env(c)[i][2] \in {c.gcs_ip, c.camera_type, c.device, Digits}
<1>1. i \in {1, 2, 3, 4, 5, 6, 7, 8, 9}
  OBVIOUS
<1> QED
  BY <1>1 DEF generate_camera_env, Another

LEMMA MavlinkAssignments ==
  ASSUME NEW m, NEW i \in 1..6
  PROVE  /\ generate_mavlink_env(m)[i][1] # Another
         /\ generate_mavlink_env(m)[i][2] \in {m.gcs_ip, m.fc.tty, Digits}
<1>1. i \in {1, 2, 3, 4, 5, 6}
  OBVIOUS
<1> QED
  BY <1>1 DEF generate_mavlink_env, Another

(* A file of such pairs sets nothing else.                                  *)
LEMMA ContentOf ==
  ASSUME NEW assignments,
         \A i \in DOMAIN assignments :
           assignments[i][1] # Another /\ OneLine(assignments[i][2])
  PROVE  Another \notin Content(assignments)
BY DEF Content

LEMMA WrittenFiles ==
  ASSUME validate(config), NEW path
  PROVE  /\ Another \notin Write(path, generate_camera_env(config.camera)).sets
         /\ Another \notin Write(path, generate_mavlink_env(config.mavlink)).sets
<1>1. OneLine(Digits)
  BY DEF OneLine, Digits
<1>2. Lines(config.mavlink, config.camera)
  BY DEF validate
<1>3. /\ OneLine(config.camera.gcs_ip) /\ OneLine(config.camera.camera_type)
      /\ OneLine(config.camera.device) /\ OneLine(config.mavlink.gcs_ip)
      /\ OneLine(config.mavlink.fc.tty)
  BY <1>2, Zenon DEF Lines
<1>4. Another \notin Content(generate_camera_env(config.camera))
  <2>1. DOMAIN generate_camera_env(config.camera) = 1..9
    BY DEF generate_camera_env
  <2>2. ASSUME NEW i \in 1..9
        PROVE  /\ generate_camera_env(config.camera)[i][1] # Another
               /\ OneLine(generate_camera_env(config.camera)[i][2])
    BY <1>1, <1>3, CameraAssignments, Zenon
  <2> QED
    BY <2>1, <2>2, ContentOf
<1>5. Another \notin Content(generate_mavlink_env(config.mavlink))
  <2>1. DOMAIN generate_mavlink_env(config.mavlink) = 1..6
    BY DEF generate_mavlink_env
  <2>2. ASSUME NEW i \in 1..6
        PROVE  /\ generate_mavlink_env(config.mavlink)[i][1] # Another
               /\ OneLine(generate_mavlink_env(config.mavlink)[i][2])
    BY <1>1, <1>3, MavlinkAssignments, Zenon
  <2> QED
    BY <2>1, <2>2, ContentOf
<1> QED
  BY <1>4, <1>5 DEF Write

(* Past loading, the configuration was accepted.                            *)
FilesInv ==
  /\ main \notin {"load", "failed"} => validate(config)
  /\ EnvFilesWellFormed

LEMMA FilesKept ==
  ASSUME [Next]_vars
  PROVE  SpawnWriters \/ WriteCamera \/ WriteMavlink \/ UNCHANGED envVars
BY DEF Next, Main, Sensors, Tasks, vars, envVars, Load, Resolve, SpawnSensors,
       NewTransport, NewSubscriber, RunTransport, RunTelemetry, Cancelled, Join, Signal,
       Sensing, transportFrame, Connect, Disconnect, WriteRequest, StopTransport,
       DropEventLoop, publisherFrame, PublisherWakes, PublisherCancelled, PublisherReads,
       PublisherQueues, PublisherRefused, reporterFrame, ReporterTick, ReporterReads,
       ReporterCancelled, OthersPublish, OthersEnd

LEMMA MainKept ==
  ASSUME [Next]_vars
  PROVE  Main \/ main' = main
BY DEF Next, Sensors, Tasks, vars, Signal, WriteCamera, WriteMavlink, Sensing,
       transportFrame, Connect, Disconnect, WriteRequest, StopTransport, DropEventLoop,
       publisherFrame, PublisherWakes, PublisherCancelled, PublisherReads,
       PublisherQueues, PublisherRefused, reporterFrame, ReporterTick, ReporterReads,
       ReporterCancelled, OthersPublish, OthersEnd

LEMMA MainGoesOn ==
  ASSUME Main
  PROVE  Load \/ main \notin {"load", "failed"}
BY DEF Main, Resolve, SpawnWriters, SpawnSensors, NewTransport, NewSubscriber,
       RunTransport, RunTelemetry, Cancelled, Join

LEMMA FilesAlways == Spec => []FilesInv
<1>1. Init => FilesInv
  BY DEF Init, FilesInv, EnvFilesWellFormed, NoFile
<1>2. FilesInv /\ [Next]_vars => FilesInv'
  <2> SUFFICES ASSUME FilesInv, [Next]_vars
               PROVE  FilesInv'
    OBVIOUS
  <2>1. config' = config
    BY ConfigKept
  <2>2. main' \notin {"load", "failed"} => validate(config)
    <3>1. CASE Load
      BY <3>1 DEF Load
    <3>2. CASE main' = main
      BY <3>2 DEF FilesInv
    <3>3. CASE main \notin {"load", "failed"}
      BY <3>3 DEF FilesInv
    <3> QED
      BY <3>1, <3>2, <3>3, MainKept, MainGoesOn
  <2>3. EnvFilesWellFormed'
    <3>1. CASE SpawnWriters
      BY <3>1 DEF SpawnWriters, EnvFilesWellFormed, Pending
    <3>2. CASE WriteCamera
      <4>1. validate(config)
        BY <3>2 DEF WriteCamera, Running, FilesInv
      <4>2. Another \notin camera_env'.sets
        BY <3>2, <4>1, WrittenFiles DEF WriteCamera
      <4> QED
        BY <3>2, <4>2 DEF WriteCamera, FilesInv, EnvFilesWellFormed
    <3>3. CASE WriteMavlink
      <4>1. validate(config)
        BY <3>3 DEF WriteMavlink, Running, FilesInv
      <4>2. Another \notin mavlink_env'.sets
        BY <3>3, <4>1, WrittenFiles DEF WriteMavlink
      <4> QED
        BY <3>3, <4>2 DEF WriteMavlink, FilesInv, EnvFilesWellFormed
    <3>4. CASE UNCHANGED envVars
      BY <3>4 DEF envVars, FilesInv, EnvFilesWellFormed
    <3> QED
      BY <3>1, <3>2, <3>3, <3>4, FilesKept
  <2> QED
    BY <2>1, <2>2, <2>3 DEF FilesInv
<1> QED
  BY <1>1, <1>2, PTL DEF Spec

(* "prevents env variable injection in generated env files" (config.rs:347):*)
(* for all contents of the configuration file, each file that is written    *)
(* sets its variables and no other.                                         *)
THEOREM EnvFilesAlwaysWellFormed == Spec => []EnvFilesWellFormed
<1>1. FilesInv => EnvFilesWellFormed
  BY DEF FilesInv
<1> QED
  BY <1>1, FilesAlways, PTL

-----------------------------------------------------------------------------
(* The first connection.                                                    *)

(* Main registers the three tasks one after the other before the transport  *)
(* runs, and nothing makes a receiver go away.                              *)
ConnectionInv ==
  /\ receivers \subseteq Subscriber
  /\ main = "status" => "commands" \in receivers
  /\ main = "completion" => {"commands", "status"} \subseteq receivers
  /\ main = "transport" => receivers = Subscriber
  /\ loop \in {"running", "flushing", "dropped"} => receivers = Subscriber
  /\ FirstConnectSeen

LEMMA ConnectionKept ==
  ASSUME [Next]_vars
  PROVE  \/ Main \/ Connect \/ StopTransport \/ DropEventLoop
         \/ UNCHANGED <<main, receivers, loop, told>>
BY DEF Next, Sensors, Tasks, vars, mqttVars, Signal, WriteCamera, WriteMavlink, Sensing,
       transportFrame, Disconnect, WriteRequest, publisherFrame, PublisherWakes,
       PublisherCancelled, PublisherReads, PublisherQueues, PublisherRefused,
       reporterFrame, ReporterTick, ReporterReads, ReporterCancelled, OthersPublish,
       OthersEnd

LEMMA Registered ==
  ASSUME ConnectionInv,
         \/ NewSubscriber("commands", "status") \/ NewSubscriber("status", "completion")
         \/ NewSubscriber("completion", "transport")
  PROVE  ConnectionInv'
<1>1. loop' = loop /\ told' = told
  BY DEF NewSubscriber
<1>2. CASE NewSubscriber("commands", "status")
  BY <1>1, <1>2 DEF NewSubscriber, ConnectionInv, Subscriber, FirstConnectSeen
<1>3. CASE NewSubscriber("status", "completion")
  BY <1>1, <1>3 DEF NewSubscriber, ConnectionInv, Subscriber, FirstConnectSeen
<1>4. CASE NewSubscriber("completion", "transport")
  BY <1>1, <1>4 DEF NewSubscriber, ConnectionInv, Subscriber, FirstConnectSeen
<1> QED
  BY <1>2, <1>3, <1>4

LEMMA ConnectionMain ==
  ASSUME ConnectionInv, Main
  PROVE  ConnectionInv'
<1>1. CASE Load \/ Resolve \/ SpawnWriters \/ SpawnSensors \/ RunTelemetry \/ Cancelled \/ Join
  BY <1>1 DEF Load, Resolve, SpawnWriters, SpawnSensors, RunTelemetry, Cancelled, Join,
              mqttVars, ConnectionInv, FirstConnectSeen
<1>2. CASE NewTransport
  BY <1>2 DEF NewTransport, ConnectionInv, FirstConnectSeen
<1>3. CASE RunTransport
  BY <1>3 DEF RunTransport, ConnectionInv, FirstConnectSeen
<1> QED
  BY <1>1, <1>2, <1>3, Registered DEF Main

LEMMA ConnectionAlways == Spec => []ConnectionInv
<1>1. Init => ConnectionInv
  BY DEF Init, ConnectionInv, FirstConnectSeen
<1>2. ConnectionInv /\ [Next]_vars => ConnectionInv'
  <2> SUFFICES ASSUME ConnectionInv, [Next]_vars
               PROVE  ConnectionInv'
    OBVIOUS
  <2>1. CASE Connect
    BY <2>1 DEF Connect, transportFrame, ConnectionInv, FirstConnectSeen
  <2>2. CASE StopTransport \/ DropEventLoop
    BY <2>2 DEF StopTransport, DropEventLoop, transportFrame, ConnectionInv,
                FirstConnectSeen
  <2>3. CASE UNCHANGED <<main, receivers, loop, told>>
    BY <2>3 DEF ConnectionInv, FirstConnectSeen
  <2> QED
    BY <2>1, <2>2, <2>3, ConnectionKept, ConnectionMain
<1> QED
  BY <1>1, <1>2, PTL DEF Spec

(* "Run transport after all subscribers have been registered" (main.rs:173):*)
(* the first connection, with which the broker replays queued commands, is  *)
(* announced to all three tasks that must act on it.                        *)
THEOREM FirstConnectAlwaysSeen == Spec => []FirstConnectSeen
<1>1. ConnectionInv => FirstConnectSeen
  BY DEF ConnectionInv
<1> QED
  BY <1>1, ConnectionAlways, PTL

-----------------------------------------------------------------------------
(* Types.                                                                   *)

(* Until the first task can publish, nothing is queued and nobody would.    *)
Beforehand == {"load", "resolve", "writers", "sensors", "mqtt", "commands"}

TypesInv ==
  /\ TypeOK
  /\ main \in Beforehand =>
       outbox = 0 /\ loop \in {"none", "made"} /\ publisher = "off"

LEMMA ContextTypes ==
  ASSUME TypeOK, [Next]_vars
  PROVE  cancelled' \in BOOLEAN /\ held' \in SUBSET Sensor
<1>1. cancelled' = cancelled \/ cancelled' = TRUE
  BY DEF Next, Main, Sensors, Tasks, vars, Load, Resolve, SpawnWriters, SpawnSensors,
         NewTransport, NewSubscriber, RunTransport, RunTelemetry, Cancelled, Join, Signal,
         WriteCamera, WriteMavlink, Sensing, transportFrame, Connect, Disconnect,
         WriteRequest, StopTransport, DropEventLoop, publisherFrame, PublisherWakes,
         PublisherCancelled, PublisherReads, PublisherQueues, PublisherRefused,
         reporterFrame, ReporterTick, ReporterReads, ReporterCancelled, OthersPublish,
         OthersEnd
<1>2. held' = held \/ held' = {} \/ \E s \in Sensor : held' = {s}
  BY DEF Next, Main, Sensors, Tasks, vars, taskVars, Load, Resolve, SpawnWriters,
         SpawnSensors, NewTransport, NewSubscriber, RunTransport, RunTelemetry, Cancelled,
         Join, Signal, WriteCamera, WriteMavlink, Sensing, transportFrame, Connect,
         Disconnect, WriteRequest, StopTransport, DropEventLoop, publisherFrame,
         PublisherWakes, PublisherCancelled, PublisherReads, PublisherQueues,
         PublisherRefused, reporterFrame, ReporterTick, ReporterReads, ReporterCancelled,
         OthersPublish, OthersEnd
<1>3. cancelled \in BOOLEAN /\ held \in SUBSET Sensor
  BY DEF TypeOK
<1>4. cancelled' \in BOOLEAN
  BY <1>1, <1>3, Zenon
<1> QED
  BY <1>2, <1>3, <1>4

LEMMA TasksKept ==
  ASSUME [Next]_vars
  PROVE  \/ SpawnSensors
         \/ \E s \in Sensor : Gather(s) \/ Store(s) \/ End(s)
         \/ UNCHANGED tasks
BY DEF Next, Main, Sensors, Tasks, vars, Load, Resolve, SpawnWriters, NewTransport,
       NewSubscriber, RunTransport, RunTelemetry, Cancelled, Join, Signal, WriteCamera,
       WriteMavlink, Sensing, transportFrame, Connect, Disconnect, WriteRequest,
       StopTransport, DropEventLoop, publisherFrame, PublisherWakes, PublisherCancelled,
       PublisherReads, PublisherQueues, PublisherRefused, reporterFrame, ReporterTick,
       ReporterReads, ReporterCancelled, OthersPublish, OthersEnd

LEMMA TasksTypes ==
  ASSUME TasksTypeOK, [Next]_vars
  PROVE  TasksTypeOK'
<1>1. CASE SpawnSensors
  <2>1. StartTasks(Enabled(config.sensors)) \/ UNCHANGED tasks
    BY <1>1 DEF SpawnSensors
  <2> QED
    BY <2>1 DEF TasksTypeOK, StartTasks, tasks
<1>2. ASSUME NEW s \in Sensor, Gather(s) \/ End(s)
      PROVE  TasksTypeOK'
  BY <1>2 DEF TasksTypeOK, Gather, End
<1>3. ASSUME NEW s \in Sensor, Store(s)
      PROVE  TasksTypeOK'
  <2>1. known' = known \/ known' = [known EXCEPT ![s] = TRUE]
    BY <1>3 DEF Store
  <2>2. known' \in [Sensor -> BOOLEAN]
    BY <2>1 DEF TasksTypeOK
  <2> QED
    BY <1>3, <2>2 DEF TasksTypeOK, Store
<1>4. CASE UNCHANGED tasks
  BY <1>4 DEF TasksTypeOK, tasks
<1> QED
  BY <1>1, <1>2, <1>3, <1>4, TasksKept

MainState == {"load", "resolve", "writers", "sensors", "mqtt", "commands", "status",
              "completion", "transport", "telemetry", "wait", "join", "failed",
              "panicked", "done"}

LEMMA MainTypes ==
  ASSUME TypeOK, [Next]_vars
  PROVE  main' \in MainState
<1>1. main \in MainState
  BY DEF TypeOK, MainState
<1>2. CASE Main
  BY <1>2 DEF MainState, Main, Load, Resolve, SpawnWriters, SpawnSensors, NewTransport,
              NewSubscriber, RunTransport, RunTelemetry, Cancelled, Join
<1> QED
  BY <1>1, <1>2, MainKept

LEMMA FileTypes ==
  ASSUME TypeOK, [Next]_vars
  PROVE  {camera_env'.state, mavlink_env'.state}
           \subseteq {"none", "pending", "written", "failed"}
<1>1. \A path, assignments : Write(path, assignments).state \in {"written", "failed"}
  BY DEF Write
<1>2. CASE SpawnWriters
  BY <1>2 DEF SpawnWriters, Pending
<1>3. CASE WriteCamera
  BY <1>1, <1>3 DEF WriteCamera, TypeOK
<1>4. CASE WriteMavlink
  BY <1>1, <1>4 DEF WriteMavlink, TypeOK
<1>5. CASE UNCHANGED envVars
  BY <1>5 DEF envVars, TypeOK
<1> QED
  BY <1>2, <1>3, <1>4, <1>5, FilesKept

(* What changes the publisher, the reporter and the other tasks.            *)
LEMMA PublisherTypes ==
  ASSUME TypeOK, [Next]_vars
  PROVE  publisher' \in Sensor \cup {"off", "sleep", "done"}
<1>1. \A s \in Sensor : After(s) \in Sensor \cup {"sleep"}
  BY DEF After, Sensor
<1>2. publisher' = publisher \/ publisher' \in {"sleep", "lte", "done"}
      \/ \E s \in Sensor : publisher' = After(s)
  BY DEF Next, Main, Sensors, Tasks, vars, taskVars, Load, Resolve, SpawnWriters,
         SpawnSensors, NewTransport, NewSubscriber, RunTransport, RunTelemetry, Cancelled,
         Join, Signal, WriteCamera, WriteMavlink, Sensing, transportFrame, Connect,
         Disconnect, WriteRequest, StopTransport, DropEventLoop, publisherFrame,
         PublisherWakes, PublisherCancelled, PublisherReads, PublisherQueues,
         PublisherRefused, reporterFrame, ReporterTick, ReporterReads, ReporterCancelled,
         OthersPublish, OthersEnd
<1> QED
  BY <1>1, <1>2 DEF TypeOK, Sensor

LEMMA OtherTypes ==
  ASSUME TypeOK, [Next]_vars
  PROVE  /\ reporter' \in {"ping", "lte", "off", "sleep", "done"}
         /\ others' \in {"off", "running", "ended"}
<1>1. reporter' = reporter \/ reporter' \in {"ping", "lte", "sleep", "done"}
  BY DEF Next, Main, Sensors, Tasks, vars, taskVars, Load, Resolve, SpawnWriters,
         SpawnSensors, NewTransport, NewSubscriber, RunTransport, RunTelemetry, Cancelled,
         Join, Signal, WriteCamera, WriteMavlink, Sensing, transportFrame, Connect,
         Disconnect, WriteRequest, StopTransport, DropEventLoop, publisherFrame,
         PublisherWakes, PublisherCancelled, PublisherReads, PublisherQueues,
         PublisherRefused, reporterFrame, ReporterTick, ReporterReads, ReporterCancelled,
         OthersPublish, OthersEnd
<1>2. others' = others \/ others' \in {"running", "ended"}
  BY DEF Next, Main, Sensors, Tasks, vars, taskVars, Load, Resolve, SpawnWriters,
         SpawnSensors, NewTransport, NewSubscriber, RunTransport, RunTelemetry, Cancelled,
         Join, Signal, WriteCamera, WriteMavlink, Sensing, transportFrame, Connect,
         Disconnect, WriteRequest, StopTransport, DropEventLoop, publisherFrame,
         PublisherWakes, PublisherCancelled, PublisherReads, PublisherQueues,
         PublisherRefused, reporterFrame, ReporterTick, ReporterReads, ReporterCancelled,
         OthersPublish, OthersEnd
<1> QED
  BY <1>1, <1>2 DEF TypeOK

(* The channel is never overfull: whoever queues a request waits for room,  *)
(* the transport at its end takes what there is, and main queues the first. *)
LEMMA ChannelKept ==
  ASSUME [Next]_vars
  PROVE  \/ NewSubscriber("commands", "status")
         \/ WriteRequest \/ StopTransport \/ DropEventLoop \/ OthersPublish
         \/ \E s \in Sensor : PublisherQueues(s)
         \/ outbox' = outbox
<1>1. CASE NewSubscriber("status", "completion") \/ NewSubscriber("completion", "transport")
  BY <1>1 DEF NewSubscriber
<1> QED
  BY <1>1
     DEF Next, Main, Sensors, Tasks, vars, mqttVars, Load, Resolve, SpawnWriters,
         SpawnSensors, NewTransport, RunTransport, RunTelemetry, Cancelled, Join, Signal,
         WriteCamera, WriteMavlink, Sensing, transportFrame, Connect, Disconnect,
         publisherFrame, PublisherWakes, PublisherCancelled, PublisherReads,
         PublisherRefused, reporterFrame, ReporterTick, ReporterReads, ReporterCancelled,
         OthersEnd

LEMMA ChannelTypes ==
  ASSUME TypesInv, [Next]_vars
  PROVE  outbox' \in 0..REQUEST_CAPACITY
<1>1. outbox \in 0..REQUEST_CAPACITY /\ REQUEST_CAPACITY \in Nat \ {0}
  BY AgentAssumption DEF TypesInv, TypeOK
<1>2. CASE NewSubscriber("commands", "status")
  <2>1. outbox = 0 /\ outbox' = outbox + 1
    BY <1>2 DEF NewSubscriber, TypesInv, Beforehand
  <2> QED
    BY <1>1, <2>1
<1>3. CASE WriteRequest
  BY <1>1, <1>3 DEF WriteRequest
<1>4. CASE StopTransport
  <2>1. PICK last \in {1, 2} :
          outbox' = IF outbox + last <= REQUEST_CAPACITY THEN outbox + last
                                                         ELSE REQUEST_CAPACITY
    BY <1>4 DEF StopTransport
  <2> QED
    BY <1>1, <2>1
<1>5. CASE DropEventLoop
  BY <1>1, <1>5 DEF DropEventLoop
<1>6. CASE OthersPublish \/ \E s \in Sensor : PublisherQueues(s)
  <2>1. outbox < REQUEST_CAPACITY /\ outbox' = outbox + 1
    BY <1>6 DEF OthersPublish, PublisherQueues
  <2> QED
    BY <1>1, <2>1
<1>7. CASE outbox' = outbox
  BY <1>1, <1>7
<1> QED
  BY <1>2, <1>3, <1>4, <1>5, <1>6, <1>7, ChannelKept

LEMMA LoopTypes ==
  ASSUME TypeOK, [Next]_vars
  PROVE  /\ loop' \in {"none", "made", "running", "flushing", "dropped"}
         /\ link' \in BOOLEAN
<1>1. loop' = loop \/ loop' \in {"made", "running", "flushing", "dropped"}
  BY DEF Next, Main, Sensors, Tasks, vars, mqttVars, Load, Resolve, SpawnWriters,
         SpawnSensors, NewTransport, NewSubscriber, RunTransport, RunTelemetry, Cancelled,
         Join, Signal, WriteCamera, WriteMavlink, Sensing, transportFrame, Connect,
         Disconnect, WriteRequest, StopTransport, DropEventLoop, publisherFrame,
         PublisherWakes, PublisherCancelled, PublisherReads, PublisherQueues,
         PublisherRefused, reporterFrame, ReporterTick, ReporterReads, ReporterCancelled,
         OthersPublish, OthersEnd
<1>2. link' = link \/ link' = TRUE \/ link' = FALSE
  BY DEF Next, Main, Sensors, Tasks, vars, mqttVars, Load, Resolve, SpawnWriters,
         SpawnSensors, NewTransport, NewSubscriber, RunTransport, RunTelemetry, Cancelled,
         Join, Signal, WriteCamera, WriteMavlink, Sensing, transportFrame, Connect,
         Disconnect, WriteRequest, StopTransport, DropEventLoop, publisherFrame,
         PublisherWakes, PublisherCancelled, PublisherReads, PublisherQueues,
         PublisherRefused, reporterFrame, ReporterTick, ReporterReads, ReporterCancelled,
         OthersPublish, OthersEnd
<1>3. loop \in {"none", "made", "running", "flushing", "dropped"} /\ link \in BOOLEAN
  BY DEF TypeOK
<1>4. link' \in BOOLEAN
  BY <1>2, <1>3, Zenon
<1> QED
  BY <1>1, <1>3, <1>4

(* Nothing is queued, runs or publishes beforehand: those tasks do not      *)
(* exist, and main makes them later.                                        *)
LEMMA BeforehandKept ==
  ASSUME TypesInv, [Next]_vars, main' \in Beforehand
  PROVE  outbox' = 0 /\ loop' \in {"none", "made"} /\ publisher' = "off"
<1>1. CASE Main
  <2>1. main \in Beforehand /\ ~NewSubscriber("commands", "status")
    BY <1>1 DEF Beforehand, Main, Load, Resolve, SpawnWriters, SpawnSensors, NewTransport,
                NewSubscriber, RunTransport, RunTelemetry, Cancelled, Join
  <2>2. outbox = 0 /\ loop \in {"none", "made"} /\ publisher = "off"
    BY <2>1 DEF TypesInv
  <2> QED
    BY <1>1, <2>1, <2>2
       DEF Beforehand, Main, mqttVars, taskVars, Load, Resolve, SpawnWriters,
           SpawnSensors, NewTransport, NewSubscriber, RunTransport, RunTelemetry,
           Cancelled, Join
<1>2. CASE ~Main
  <2>1. main' = main
    BY <1>2, MainKept
  <2>2. outbox = 0 /\ loop \in {"none", "made"} /\ publisher = "off"
    BY <2>1 DEF TypesInv
  <2>3. \A s \in Sensor : s # "off"
    BY DEF Sensor
  <2>4. outbox' = outbox \/ outbox > 0 \/ loop \in {"running", "flushing"}
        \/ publisher \in Sensor
    BY <1>2, ChannelKept
       DEF Main, WriteRequest, StopTransport, DropEventLoop, OthersPublish, PublisherQueues
  <2>5. loop' = loop \/ loop \in {"running", "flushing"}
    BY <1>2
       DEF Next, Sensors, Tasks, vars, mqttVars, Signal, WriteCamera, WriteMavlink,
           Sensing, transportFrame, Connect, Disconnect, WriteRequest, StopTransport,
           DropEventLoop, publisherFrame, PublisherWakes, PublisherCancelled,
           PublisherReads, PublisherQueues, PublisherRefused, reporterFrame,
           ReporterTick, ReporterReads, ReporterCancelled, OthersPublish, OthersEnd
  <2>6. publisher' = publisher \/ publisher \in Sensor \cup {"sleep"}
    BY <1>2
       DEF Next, Sensors, Tasks, vars, taskVars, Signal, WriteCamera, WriteMavlink,
           Sensing, transportFrame, Connect, Disconnect, WriteRequest, StopTransport,
           DropEventLoop, publisherFrame, PublisherWakes, PublisherCancelled,
           PublisherReads, PublisherQueues, PublisherRefused, reporterFrame,
           ReporterTick, ReporterReads, ReporterCancelled, OthersPublish, OthersEnd
  <2> QED
    BY <2>2, <2>3, <2>4, <2>5, <2>6
<1> QED
  BY <1>1, <1>2

LEMMA ToldTypes ==
  ASSUME NEW subscribers, subscribers \in {NotYet, Subscriber}
  PROVE  subscribers \in (SUBSET Subscriber) \cup {{"nobody"}}
<1>1. Subscriber \in SUBSET Subscriber
  BY Zenon
<1>2. NotYet = {"nobody"}
  BY DEF NotYet
<1>3. subscribers \in SUBSET Subscriber \/ subscribers = {"nobody"}
  BY <1>1, <1>2
<1> QED
  BY <1>3

(* The types; in particular the request channel is never overfull, although *)
(* three kinds of tasks and the transport's end queue requests beside one   *)
(* another (transport.rs).                                                  *)
THEOREM AgentTypeCorrect == Spec => []TypeOK
<1>1. Init /\ IdentityInv /\ ConnectionInv => TypesInv
  <2> SUFFICES ASSUME Init, IdentityInv, ConnectionInv
               PROVE  TypesInv
    OBVIOUS
  <2>1. TasksTypeOK /\ cancelled \in BOOLEAN /\ link \in BOOLEAN
    BY Zenon DEF Init, TasksInit, TasksTypeOK
  <2>2. held \in SUBSET Sensor
    BY DEF Init
  <2>3. /\ config \in Config
        /\ identity \in Identity \cup {Nobody}
    BY DEF IdentityInv
  <2>4. receivers \subseteq Subscriber /\ told \in (SUBSET Subscriber) \cup {{"nobody"}}
    BY ToldTypes DEF ConnectionInv, FirstConnectSeen
  <2>5. {camera_env.state, mavlink_env.state} \subseteq {"none", "pending", "written", "failed"}
    BY DEF Init, NoFile
  <2>6. outbox \in 0..REQUEST_CAPACITY
    BY AgentAssumption DEF Init
  <2>7. /\ main = "load" /\ loop = "none" /\ outbox = 0
        /\ publisher = "off" /\ reporter = "off" /\ others = "off"
    BY DEF Init
  <2>8. main \in MainState /\ main \in Beforehand
    BY <2>7 DEF MainState, Beforehand
  <2>9. TypeOK
    BY <2>1, <2>2, <2>3, <2>4, <2>5, <2>6, <2>7, <2>8 DEF TypeOK, MainState
  <2> QED
    BY <2>7, <2>9 DEF TypesInv
<1>2. TypesInv /\ [Next]_vars /\ IdentityInv' /\ ConnectionInv' => TypesInv'
  <2> SUFFICES ASSUME TypesInv, [Next]_vars, IdentityInv', ConnectionInv'
               PROVE  TypesInv'
    OBVIOUS
  <2>1. TypeOK
    BY DEF TypesInv
  <2>2. TasksTypeOK'
    BY <2>1, TasksTypes DEF TypeOK
  <2>3. /\ config' \in Config
        /\ identity' \in Identity \cup {Nobody}
    BY DEF IdentityInv
  <2>4. /\ receivers' \subseteq Subscriber
        /\ told' \in (SUBSET Subscriber) \cup {{"nobody"}}
    <3>1. ConnectionInv' => receivers' \subseteq Subscriber /\ FirstConnectSeen'
      BY DEF ConnectionInv
    <3> QED
      BY <3>1, ToldTypes DEF FirstConnectSeen, NotYet
  <2>5. TypeOK'
    BY <2>1, <2>2, <2>3, <2>4, ContextTypes, MainTypes, FileTypes, PublisherTypes,
       OtherTypes, ChannelTypes, LoopTypes
       DEF TypeOK, MainState
  <2> QED
    BY <2>5, BeforehandKept DEF TypesInv
<1>3. TypesInv => TypeOK
  BY DEF TypesInv
<1> QED
  BY <1>1, <1>2, <1>3, IdentityAlways, ConnectionAlways, PTL DEF Spec

-----------------------------------------------------------------------------
(* What stops main.                                                         *)

(* Main only gets to the MQTT tasks if they are configured.                 *)
MqttSteps == {"mqtt", "commands", "status", "completion", "transport", "telemetry"}

Intervals ==
  {Interval(config.sensors, s) : s \in Enabled(config.sensors)}
    \cup {config.mqtt.telemetry_interval_s}

PanicInv ==
  /\ main \in MqttSteps => config.mqtt.enabled
  /\ main = "panicked" => "huge" \in Intervals

(* The intervals that validation lets through.                              *)
LEMMA IntervalsPositive ==
  ASSUME validate(config)
  PROVE  /\ \A s \in Enabled(config.sensors) : Positive(Interval(config.sensors, s))
         /\ config.mqtt.enabled => Positive(config.mqtt.telemetry_interval_s)
<1>1. ValidSensors(config.sensors) /\ ValidMqtt(config.mqtt)
  BY DEF validate
<1>2. ASSUME NEW s \in {"ping", "lte", "system"}
      PROVE  Positive(Interval(config.sensors, s))
  <2>1. /\ ValidInterval(config.sensors.ping.interval_s)
        /\ ValidInterval(config.sensors.lte.interval_s)
        /\ ValidInterval(config.sensors.system.interval_s)
    BY <1>1, Zenon DEF ValidSensors
  <2>2. config.sensors["ping"] = config.sensors.ping
        /\ config.sensors["lte"] = config.sensors.lte
        /\ config.sensors["system"] = config.sensors.system
    OBVIOUS
  <2>3. ValidInterval(config.sensors[s].interval_s)
    BY <2>1, <2>2
  <2>4. Positive(config.sensors.default_interval_s)
    BY <1>1 DEF ValidSensors
  <2> QED
    BY <2>3, <2>4, Zenon DEF Interval, ValidInterval
<1>3. config.mqtt.enabled => Positive(config.mqtt.telemetry_interval_s)
  BY <1>1 DEF ValidMqtt, Positive
<1> QED
  BY <1>2, <1>3 DEF Enabled

(* Of these, one has no Duration.                                           *)
LEMMA PositiveDurations ==
  ASSUME NEW seconds, Positive(seconds), NoDuration(seconds)
  PROVE  seconds = "huge"
BY DEF Positive, NoDuration

LEMMA PanicMain ==
  ASSUME FilesInv, PanicInv, Main, config' = config
  PROVE  PanicInv'
<1>1. Intervals' = Intervals
  BY DEF Intervals, Interval, Enabled
<1>2. main' \in MqttSteps => config.mqtt.enabled
  BY DEF PanicInv, MqttSteps, Main, Load, Resolve, SpawnWriters, SpawnSensors,
         NewTransport, NewSubscriber, RunTransport, RunTelemetry, Cancelled, Join
<1>3. main' = "panicked" => "huge" \in Intervals
  <2> SUFFICES ASSUME main' = "panicked"
               PROVE  "huge" \in Intervals
    OBVIOUS
  <2>1. \/ SpawnSensors /\ main = "sensors"
        \/ RunTelemetry /\ main = "telemetry"
    BY DEF Main, Load, Resolve, SpawnWriters, SpawnSensors, NewTransport, NewSubscriber,
           RunTransport, RunTelemetry, Cancelled, Join
  <2>2. validate(config)
    BY <2>1 DEF FilesInv
  <2>3. CASE SpawnSensors
    <3>1. PICK s \in Enabled(config.sensors) : NoDuration(Interval(config.sensors, s))
      BY <2>3 DEF SpawnSensors
    <3>2. Interval(config.sensors, s) = "huge"
      BY <2>2, <3>1, IntervalsPositive, PositiveDurations
    <3> QED
      BY <3>1, <3>2 DEF Intervals
  <2>4. CASE RunTelemetry /\ main = "telemetry"
    <3>1. NoDuration(config.mqtt.telemetry_interval_s)
      BY <2>4 DEF RunTelemetry
    <3>2. config.mqtt.enabled
      BY <2>4 DEF PanicInv, MqttSteps
    <3>3. config.mqtt.telemetry_interval_s = "huge"
      BY <2>2, <3>1, <3>2, IntervalsPositive, PositiveDurations
    <3> QED
      BY <3>3 DEF Intervals
  <2> QED
    BY <2>1, <2>3, <2>4
<1> QED
  BY <1>1, <1>2, <1>3 DEF PanicInv

LEMMA PanicAlways == Spec => []PanicInv
<1>1. Init => PanicInv
  BY DEF Init, PanicInv, MqttSteps
<1>2. FilesInv /\ PanicInv /\ [Next]_vars => PanicInv'
  <2> SUFFICES ASSUME FilesInv, PanicInv, [Next]_vars
               PROVE  PanicInv'
    OBVIOUS
  <2>1. config' = config
    BY ConfigKept
  <2>2. CASE main' = main
    <3>1. Intervals' = Intervals
      BY <2>1 DEF Intervals, Interval, Enabled
    <3> QED
      BY <2>1, <2>2, <3>1 DEF PanicInv
  <2> QED
    BY <2>1, <2>2, MainKept, PanicMain
<1> QED
  BY <1>1, <1>2, FilesAlways, PTL DEF Spec

(* "Validate configuration values that could cause runtime panics"          *)
(* (config.rs:215): for all contents of the configuration file, only an     *)
(* interval beyond the range of a Duration makes main panic; validation     *)
(* stops negative and infinite ones and NaN.                                *)
THEOREM PanicsOnlyBeyondRange == Spec => [](main = "panicked" => "huge" \in Intervals)
<1>1. PanicInv => (main = "panicked" => "huge" \in Intervals)
  BY DEF PanicInv
<1> QED
  BY <1>1, PanicAlways, PTL

-----------------------------------------------------------------------------
(* Waiting and ending.                                                      *)

(* A sensor value is kept locked by the publisher alone, and only while it  *)
(* is at that sensor; so whoever waits for a value, a sensor that stores or *)
(* the reporter that reads, waits for the publisher, which waits for no     *)
(* lock but for room in the channel of an event loop that was started.      *)
LocksEnd ==
  /\ held \subseteq {publisher}
  /\ held # {} => loop \in {"running", "flushing", "dropped"}
  /\ \A s \in Sensor : phase[s] = "store" /\ ~Writable(s) => publisher = s
  /\ reporter \in Sensor /\ ~ReaderMay(reporter) => publisher = reporter

(* Main ends only after every task: none is left in the middle of something.*)
NothingLeft == main = "done" => Ended /\ held = {}

Started == {"running", "flushing", "dropped"}

EndInv ==
  /\ held \subseteq {publisher}
  /\ main \in Beforehand \cup MqttSteps => publisher = "off"
  /\ main = "telemetry" \/ publisher # "off" => loop \in Started
  /\ NothingLeft

LEMMA PublisherKept ==
  ASSUME [Next]_vars
  PROVE  \/ RunTelemetry \/ PublisherWakes \/ PublisherCancelled
         \/ \E s \in Sensor : PublisherReads(s) \/ PublisherQueues(s) \/ PublisherRefused(s)
         \/ UNCHANGED <<publisher, held>>
BY DEF Next, Main, Sensors, Tasks, vars, taskVars, Load, Resolve, SpawnWriters,
       SpawnSensors, NewTransport, NewSubscriber, RunTransport, Cancelled, Join, Signal,
       WriteCamera, WriteMavlink, Sensing, transportFrame, Connect, Disconnect,
       WriteRequest, StopTransport, DropEventLoop, reporterFrame, ReporterTick,
       ReporterReads, ReporterCancelled, OthersPublish, OthersEnd

LEMMA LoopKept ==
  ASSUME [Next]_vars
  PROVE  \/ main = "mqtt" /\ main' # "telemetry" /\ publisher' = publisher
         \/ loop' = loop \/ loop' \in Started
BY DEF Next, Main, Sensors, Tasks, vars, mqttVars, taskVars, Load, Resolve, SpawnWriters,
       SpawnSensors, NewTransport, NewSubscriber, RunTransport, RunTelemetry, Cancelled,
       Join, Signal, WriteCamera, WriteMavlink, Sensing, transportFrame, Connect,
       Disconnect, WriteRequest, StopTransport, DropEventLoop, publisherFrame,
       PublisherWakes, PublisherCancelled, PublisherReads, PublisherQueues,
       PublisherRefused, reporterFrame, ReporterTick, ReporterReads, ReporterCancelled,
       OthersPublish, OthersEnd, Started

(* The guard goes where the publisher goes.                                 *)
LEMMA GuardKept ==
  ASSUME EndInv, held \subseteq Sensor, [Next]_vars
  PROVE  held' \subseteq {publisher'}
<1>1. CASE UNCHANGED <<publisher, held>>
  BY <1>1 DEF EndInv
<1>2. CASE RunTelemetry \/ PublisherWakes \/ PublisherCancelled
  <2>1. publisher \in {"off", "sleep"} /\ held' = held
    BY <1>2 DEF RunTelemetry, PublisherWakes, PublisherCancelled, EndInv, MqttSteps
  <2>2. held = {}
    BY <2>1 DEF EndInv, Sensor
  <2> QED
    BY <2>1, <2>2
<1>3. ASSUME NEW s \in Sensor, PublisherReads(s)
      PROVE  held' \subseteq {publisher'}
  <2>1. publisher = s /\ s \notin held
    BY <1>3 DEF PublisherReads
  <2>2. held = {}
    BY <2>1 DEF EndInv
  <2> QED
    BY <1>3, <2>1, <2>2 DEF PublisherReads
<1>4. ASSUME NEW s \in Sensor, PublisherQueues(s) \/ PublisherRefused(s)
      PROVE  held' \subseteq {publisher'}
  BY <1>4 DEF PublisherQueues, PublisherRefused
<1> QED
  BY <1>1, <1>2, <1>3, <1>4, PublisherKept

(* Only main starts the publisher, after the event loop.                    *)
LEMMA PublisherLater ==
  ASSUME EndInv, [Next]_vars, main' \in Beforehand \cup MqttSteps
  PROVE  main \in Beforehand \cup MqttSteps /\ publisher' = "off"
<1>1. main \in Beforehand \cup MqttSteps
  <2>1. CASE Main
    BY <2>1 DEF Beforehand, MqttSteps, Main, Load, Resolve, SpawnWriters, SpawnSensors,
                NewTransport, NewSubscriber, RunTransport, RunTelemetry, Cancelled, Join
  <2> QED
    BY <2>1, MainKept
<1>2. publisher = "off"
  BY <1>1 DEF EndInv
<1>3. ~RunTelemetry
  BY DEF RunTelemetry, Beforehand, MqttSteps
<1>4. /\ ~PublisherWakes /\ ~PublisherCancelled
      /\ \A s \in Sensor : ~PublisherReads(s) /\ ~PublisherQueues(s) /\ ~PublisherRefused(s)
  BY <1>2 DEF PublisherWakes, PublisherCancelled, PublisherReads, PublisherQueues,
              PublisherRefused, Sensor
<1> QED
  BY <1>1, <1>2, <1>3, <1>4, PublisherKept

LEMMA StartedFirst ==
  ASSUME EndInv, ConnectionInv, [Next]_vars, main' = "telemetry" \/ publisher' # "off"
  PROVE  loop' \in Started
<1>1. CASE main' = "telemetry" /\ main # "telemetry"
  <2>1. Main
    BY <1>1, MainKept
  <2>2. RunTransport
    BY <1>1, <2>1
       DEF Main, Load, Resolve, SpawnWriters, SpawnSensors, NewTransport, NewSubscriber,
           RunTelemetry, Cancelled, Join
  <2> QED
    BY <2>2 DEF RunTransport, Started
<1>2. CASE publisher' # "off" /\ publisher = "off"
  <2>1. RunTelemetry
    BY <1>2, PublisherKept
       DEF PublisherWakes, PublisherCancelled, PublisherReads, PublisherQueues,
           PublisherRefused, Sensor
  <2>2. loop \in Started /\ loop' = loop
    BY <2>1 DEF RunTelemetry, mqttVars, EndInv
  <2> QED
    BY <2>2
<1>3. CASE main = "telemetry" \/ publisher # "off"
  <2>1. loop \in Started
    BY <1>3 DEF EndInv
  <2>2. main # "mqtt"
    BY <1>3 DEF EndInv, MqttSteps
  <2> QED
    BY <2>1, <2>2, LoopKept
<1> QED
  BY <1>1, <1>2, <1>3

(* After its end the process takes no step.                                 *)
LEMMA DoneStays ==
  ASSUME main = "done", [Next]_vars
  PROVE  UNCHANGED vars
<1>1. ~Running
  BY DEF Running
<1> QED
  BY <1>1
     DEF Next, Main, Sensors, Tasks, Load, Resolve, SpawnWriters, SpawnSensors,
         NewTransport, NewSubscriber, RunTransport, RunTelemetry, Cancelled, Join, Signal,
         WriteCamera, WriteMavlink, Sensing, Connect, Disconnect, WriteRequest,
         StopTransport, DropEventLoop, PublisherWakes, PublisherCancelled, PublisherReads,
         PublisherQueues, PublisherRefused, ReporterTick, ReporterReads,
         ReporterCancelled, OthersPublish, OthersEnd

LEMMA NothingLeftKept ==
  ASSUME EndInv, held \subseteq Sensor, [Next]_vars
  PROVE  NothingLeft'
<1> SUFFICES ASSUME main' = "done"
             PROVE  Ended' /\ held' = {}
  BY DEF NothingLeft
<1>1. CASE main = "done"
  <2>1. UNCHANGED vars
    BY <1>1, DoneStays
  <2>2. Ended /\ held = {}
    BY <1>1 DEF EndInv, NothingLeft
  <2> QED
    BY <2>1, <2>2 DEF Ended, vars, tasks, envVars, mqttVars, taskVars
<1>2. CASE main # "done"
  <2>1. Join
    BY <1>2, MainKept
       DEF Main, Load, Resolve, SpawnWriters, SpawnSensors, NewTransport, NewSubscriber,
           RunTransport, RunTelemetry, Cancelled
  <2>2. publisher \in {"off", "done"}
    BY <2>1 DEF Join, Ended
  <2>3. held = {}
    BY <2>2 DEF EndInv, Sensor
  <2> QED
    BY <2>1, <2>3 DEF Join, Ended, tasks, envVars, mqttVars, taskVars
<1> QED
  BY <1>1, <1>2

LEMMA EndAlways == Spec => []EndInv
<1>1. Init => EndInv
  BY DEF Init, EndInv, NothingLeft
<1>2. EndInv /\ TypeOK /\ ConnectionInv /\ [Next]_vars => EndInv'
  <2> SUFFICES ASSUME EndInv, TypeOK, ConnectionInv, [Next]_vars
               PROVE  EndInv'
    OBVIOUS
  <2>1. held \subseteq Sensor
    BY DEF TypeOK
  <2> QED
    BY <2>1, GuardKept, PublisherLater, StartedFirst, NothingLeftKept DEF EndInv
<1> QED
  BY <1>1, <1>2, AgentTypeCorrect, ConnectionAlways, PTL DEF Spec

(* The telemetry publisher keeps each value locked while it publishes it    *)
(* (services/mqtt/telemetry.rs:46): whoever waits for one, a sensor or the  *)
(* reporter, waits for the publisher, which then waits for no lock, only    *)
(* for the channel of an event loop that was started and, at the end, is    *)
(* dropped.  So no waits form a cycle.                                      *)
THEOREM LocksAlwaysEnd == Spec => []LocksEnd
<1>1. EndInv /\ TypeOK => LocksEnd
  <2> SUFFICES ASSUME EndInv, TypeOK
               PROVE  LocksEnd
    OBVIOUS
  <2>1. held \subseteq {publisher} /\ held \subseteq Sensor
    BY DEF EndInv, TypeOK
  <2>2. \A s \in held : publisher = s /\ publisher # "off"
    BY <2>1 DEF Sensor
  <2>3. held # {} => loop \in {"running", "flushing", "dropped"}
    BY <2>2 DEF EndInv, Started
  <2>4. \A s \in Sensor : phase[s] = "store" /\ ~Writable(s) => publisher = s
    BY <2>2 DEF Writable
  <2>5. reporter \in Sensor /\ ~ReaderMay(reporter) => publisher = reporter
    BY <2>2 DEF ReaderMay
  <2> QED
    BY <2>1, <2>3, <2>4, <2>5 DEF LocksEnd
<1> QED
  BY <1>1, EndAlways, AgentTypeCorrect, PTL

(* "Wait for all tasks to finish" (main.rs:204): when the process ends,     *)
(* every task has ended, the event loop is dropped, no environment file is  *)
(* pending and no value is locked.                                          *)
THEOREM NothingEverLeft == Spec => []NothingLeft
<1>1. EndInv => NothingLeft
  BY DEF EndInv
<1> QED
  BY <1>1, EndAlways, PTL
=============================================================================
