----------------------------- MODULE GroupNaming -----------------------------
(***************************************************************************)
(* Environment-qualified consumer-group naming (util/mq/rocketmq/client.go)*)
(* and its two users: the producer, which stamps properties["groupId"] on   *)
(* every message (producer.go, publishMessageRequest), and the consumer,    *)
(* which subscribes under one broker group (consumer.go:67) and drops every *)
(* message whose groupId differs from its own resolved name                 *)
(* (consumer.go:147-150). Several deployments, each with its own App.Env    *)
(* and MQ.Env, share one broker namespace and its topics.                   *)
(*                                                                         *)
(* A string is a sequence of words; "_" is a word, so fmt.Sprintf("%s_%s",  *)
(* a, b) is a \o <<"_">> \o b and strings.Contains(s, "GID") asks whether   *)
(* the word "GID" occurs in s.                                              *)
(***************************************************************************)
EXTENDS Naturals, Sequences, FiniteSets

CONSTANTS
    Deployments,    \* processes of the applications sharing the namespace
    AppEnv,         \* [Deployments -> STRING]: conf.App.Env
    MQEnvChoice,    \* [Deployments -> SUBSET Seq(word)]: possible conf.MQ.Env
    Registered,     \* [Deployments -> SUBSET Queues]: c.queues, keyed by topic
    Consumes,       \* [Deployments -> SUBSET Queues]: ConsumerMessage(client, q)
    Queues,         \* queue.Queue implementations
    QTopic,         \* [Queues -> Seq(word)]: Queue.Topic()
    QGroup,         \* [Queues -> Seq(word)]: Queue.GroupId()
    MaxMsgs         \* bound: messages published

GroupPrefix == "GID"                                 \* groupPrefix
Empty == << >>                                       \* ""
Join(a, b) == a \o <<"_">> \o b                      \* fmt.Sprintf("%s_%s", a, b)
ContainsWord(s, w) == \E i \in DOMAIN s : s[i] = w   \* strings.Contains

(* The raw group arguments a caller of SendMessage passes for queue q: the *)
(* default "" (GroupId) or the queue's own group id.                       *)
RawGroupIds(q) == {Empty, QGroup[q]}

VARIABLES
    mqEnv,      \* [Deployments -> Seq(word)]: conf.MQ.Env of each process
    sent,       \* broker: published messages in order, [topic, group, from]
    acked,      \* broker: <<message index, broker group>> copies consumed
    outcome     \* history: <<deployment, message index, "process" | "discard">>

vars == <<mqEnv, sent, acked, outcome>>

-----------------------------------------------------------------------------
(* GetGroupNameByGroupId (client.go:23-29).                                *)
ByGroupIdProdSuffixed(d, groupId) ==
    IF mqEnv[d] = Empty /\ AppEnv[d] = "prod" THEN groupId ELSE Join(groupId, mqEnv[d])
GetGroupNameByGroupId(d, groupId) ==
    IF mqEnv[d] = Empty \/ AppEnv[d] = "prod" THEN groupId ELSE Join(groupId, mqEnv[d])

(* c.queues[topic], the registered queue of a topic, or {} for nil.        *)
QueueOf(d, topic) == {q \in Registered[d] : QTopic[q] = topic}

(* GetGroupName (client.go:12-21): a registered topic resolves through its *)
(* queue's group id; any other name is taken as a group id when it already *)
(* contains "GID", and prefixed with "GID_" otherwise.                     *)
GetGroupNameAlwaysPrefixed(d, topic) ==
    IF QueueOf(d, topic) = {}
    THEN GetGroupNameByGroupId(d, Join(<<GroupPrefix>>, topic))
    ELSE GetGroupNameByGroupId(d, QGroup[CHOOSE q \in QueueOf(d, topic) : TRUE])
GetGroupName(d, topic) ==
    IF QueueOf(d, topic) = {}
    THEN IF ContainsWord(topic, GroupPrefix)
         THEN GetGroupNameByGroupId(d, topic)
         ELSE GetGroupNameByGroupId(d, Join(<<GroupPrefix>>, topic))
    ELSE GetGroupNameByGroupId(d, QGroup[CHOOSE q \in QueueOf(d, topic) : TRUE])

(* publishMessageRequest (producer.go:101-112) followed by a successful    *)
(* publishMessage: "" stands for the topic, and the groupId property is    *)
(* the resolved name. A failed publish changes nothing.                    *)
Publish(d, topic, groupId) ==
    /\ Len(sent) < MaxMsgs
    /\ LET gid == IF groupId = Empty THEN topic ELSE groupId
       IN sent' = Append(sent, [topic |-> topic, group |-> GetGroupName(d, gid), from |-> d])
    /\ UNCHANGED <<mqEnv, acked, outcome>>

(* SendJobMessage (producer.go:27-35): Decoder.Marshal succeeds only for a *)
(* job whose queue is registered and yields the queue's topic; the group   *)
(* argument is the GroupId constant "".                                    *)
SendJobMessage(d, q) ==
    /\ q \in Registered[d]
    /\ Publish(d, QTopic[q], Empty)

(* SendMessage (producer.go:48-57): a raw publish to a topic and group.    *)
SendMessage(d, q, groupId) == Publish(d, QTopic[q], groupId)

(* The subscription of ConsumerMessage (consumer.go:67-68).               *)
SubscriptionGroup(d, q) == GetGroupNameByGroupId(d, QGroup[q])

(* The broker hands a copy of message i, not yet consumed by the           *)
(* subscription's group, to the consumer of queue q in deployment d, and   *)
(* processMessage applies the group filter (consumer.go:147-150). A kept   *)
(* message is consumed for the whole group; a dropped one returns without  *)
(* an ack and stays with the group until its visibility timeout.           *)
Receive(d, q, i) ==
    LET m == sent[i]
        bg == <<m.topic, SubscriptionGroup(d, q)>>
        keep == m.group = GetGroupName(d, QTopic[q])
    IN /\ q \in Consumes[d]
       /\ m.topic = QTopic[q]
       /\ <<i, bg>> \notin acked
       /\ acked' = IF keep THEN acked \cup {<<i, bg>>} ELSE acked
       /\ outcome' = outcome \cup {<<d, i, IF keep THEN "process" ELSE "discard">>}
       /\ UNCHANGED <<mqEnv, sent>>

Init ==
    /\ mqEnv \in {f \in [Deployments -> UNION {MQEnvChoice[d] : d \in Deployments}] :
                    \A d \in Deployments : f[d] \in MQEnvChoice[d]}
    /\ sent = << >>
    /\ acked = {}
    /\ outcome = {}

Next ==
    \/ \E d \in Deployments, q \in Queues : SendJobMessage(d, q)
    \/ \E d \in Deployments, q \in Queues : \E g \in RawGroupIds(q) : SendMessage(d, q, g)
    \/ \E d \in Deployments, q \in Queues, i \in 1..Len(sent) : Receive(d, q, i)

Spec == Init /\ [][Next]_vars

-----------------------------------------------------------------------------
Processed(i) == {o[1] : o \in {o \in outcome : o[2] = i /\ o[3] = "process"}}
Discarded(i) == {o[1] : o \in {o \in outcome : o[2] = i /\ o[3] = "discard"}}
SameEnv(d, i) == AppEnv[d] = AppEnv[sent[i].from]

(* Environment isolation (spec 4.5): a deployment runs a message only when *)
(* it was published from its own environment. It takes the producer's      *)
(* name, the consumer's subscription group and its filter to agree across  *)
(* environments, for every MQ.Env the deployments may be configured with.  *)
EnvIsolation ==
    \A i \in 1..Len(sent) : \A d \in Processed(i) : SameEnv(d, i)

(* Producer/consumer agreement: the group filter of consumer.go:148 never  *)
(* drops a job or raw message published for its queue from the consumer's *)
(* own environment, whichever of the three branches of GetGroupName the    *)
(* producer's and the consumer's lookups take.                             *)
OwnEnvironmentKept ==
    \A i \in 1..Len(sent) : \A d \in Discarded(i) : ~SameEnv(d, i)
=============================================================================
