---------------------------- MODULE MqttPublisher ----------------------------
(***************************************************************************)
(* The publisher side of the MQTT service (gnunet-service-mqtt.c): the     *)
(* multicast channels it keeps, the messages it broadcasts on them, the    *)
(* regex searches for subscribed peers, and the announcement of a channel  *)
(* in the DHT under every accepting state that a search has found.         *)
(*                                                                         *)
(* A topic is the sequence of its characters.  A channel is its number in  *)
(* the order of creation; the list holds the newest channel first.  A      *)
(* message is its number too, and so is its RegexSearchContext: contexts   *)
(* are not freed before the shutdown, because send_msg_to_subscriber, the  *)
(* only code that marks one as delivered, is never requested to run.       *)
(***************************************************************************)
EXTENDS Naturals, SequencesExt

CONSTANTS
    Clients,       \* the local applications that publish
    Topics,        \* the topics they publish on
    Keys,          \* DHT keys of the accepting states the searches find
    MaxMessages,   \* bound: PUBLISH messages of the clients
    MaxFound,      \* bound: reports of a subscribed peer
    MaxExpiries,   \* bound: expirations of a channel announcement
    Env            \* the environment events that may happen, see Events

(***************************************************************************)
(* no_key     GNUNET_CRYPTO_eddsa_key_create returns NULL                  *)
(* shutdown   the service is shut down                                     *)
(***************************************************************************)
Events == {"no_key", "shutdown"}

ASSUME TopicsAssumption == \A t \in Topics : t = [i \in 1..Len(t) |-> t[i]]
ASSUME BoundsAssumption == {MaxMessages, MaxFound, MaxExpiries} \subseteq Nat
ASSUME EnvAssumption == Env \subseteq Events

VARIABLES
    up,          \* shutdown_task has not run
    stalled,     \* clients without a GNUNET_SERVER_receive_done
    channels,    \* multicast_channels, oldest first
    contexts,    \* the search contexts: topic and channel of each message
    broadcasts,  \* multicasts of each message: the channel of each
    live,        \* announcements in the DHT not yet expired, as channel
                 \* and accepting state
    found,       \* reports of subscribed peers so far
    expiries     \* expirations so far

vars == <<up, stalled, channels, contexts, broadcasts, live, found,
          expiries>>

AcceptState == [hash : Keys, announced : BOOLEAN]
Channel == [topic : Topics, pending : Seq(1..MaxMessages),
            as : Seq(AcceptState), expired : BOOLEAN]

-----------------------------------------------------------------------------
(* Publishing: handle_mqtt_publish *)

\* strncmp (channel->channel_topic, topic, strlen (topic)) is 0 when topic
\* is a prefix of the channel's topic.
Serves(i, topic) == IsPrefix(topic, channels[i].topic)

\* The first channel of the list that serves topic.
FoundFirst(topic) ==   \* mutant: only the first channel of the list is tried
    {i \in DOMAIN channels : i = Len(channels) /\ Serves(i, topic)}
Found(topic) ==
    {i \in DOMAIN channels : /\ Serves(i, topic)
                             /\ \A j \in DOMAIN channels :
                                    Serves(j, topic) => j <= i}

\* The new message is inserted at the head, and every message of the queue
\* is handed to GNUNET_MULTICAST_origin_to_all again.
Queue(queue, m) == Cons(m, queue)

\* The channel a search announces.
NewestChannel(i) == Len(channels')   \* mutant: the head of the list
SearchChannel(i) == i

PublishOn(i, topic, list) ==
    LET m == Len(contexts) + 1
        queue == Queue(list[i].pending, m)
    IN  /\ channels' = [list EXCEPT ![i].pending = queue]
        /\ broadcasts' = [k \in 1..m |->
              (IF k < m THEN broadcasts[k] ELSE <<>>)
                  \o (IF k \in ToSet(queue) THEN <<i>> ELSE <<>>)]
        /\ contexts' = Append(contexts,
              [topic |-> topic, channel |-> SearchChannel(i)])

Publishing(c) ==
    /\ up
    /\ c \notin stalled
    /\ Len(contexts) < MaxMessages

Publish(c, topic) ==
    /\ Publishing(c)
    /\ \E i \in Found(topic) : PublishOn(i, topic, channels)
    /\ UNCHANGED <<up, stalled, live, found, expiries>>

UnnamedChannel(topic) ==   \* mutant: its topic is not set
    [topic |-> <<>>, pending |-> <<>>, as |-> <<>>, expired |-> FALSE]
NewChannel(topic) ==
    [topic |-> topic, pending |-> <<>>, as |-> <<>>, expired |-> FALSE]

PublishNewChannel(c, topic) ==
    /\ Publishing(c)
    /\ Found(topic) = {}
    /\ PublishOn(Len(channels) + 1, topic, Append(channels, NewChannel(topic)))
    /\ UNCHANGED <<up, stalled, live, found, expiries>>

\* Without a key the handler returns without GNUNET_SERVER_receive_done.
PublishNoKey(c, topic) ==
    /\ Publishing(c)
    /\ Found(topic) = {}
    /\ "no_key" \in Env
    /\ stalled' = stalled \cup {c}
    /\ UNCHANGED <<up, channels, contexts, broadcasts, live, found,
                   expiries>>

-----------------------------------------------------------------------------
(* The search for subscribers: subscribed_peer_found *)

Announced(as) == [n \in DOMAIN as |-> [as[n] EXCEPT !.announced = TRUE]]

\* After an expiration every accept state has to be announced again.
KeepAnnounced(as) == as   \* mutant: the flags are not reset
Unannounced(as) == [n \in DOMAIN as |-> [as[n] EXCEPT !.announced = FALSE]]

(***************************************************************************)
(* The search of message m reports a peer for accepting state key.  The    *)
(* test for a known accept state compares the addresses of two arrays,     *)
(* never equal, so that key is always added to the list, once more if it   *)
(* is already there.                                                       *)
(***************************************************************************)
SubscribedPeerFound(m, key) ==
    LET i == contexts[m].channel
        c == channels[i]
        added == Cons([hash |-> key, announced |-> FALSE], c.as)
        as == IF c.expired THEN Unannounced(added) ELSE added
        puts == {<<i, as[n].hash>> : n \in {k \in DOMAIN as : ~as[k].announced}}
    IN  /\ up
        /\ found < MaxFound
        /\ found' = found + 1
        /\ channels' = [channels EXCEPT ![i].as = Announced(as),
                                        ![i].expired = FALSE]
        /\ live' = live \cup puts
        /\ UNCHANGED <<up, stalled, contexts, broadcasts, expiries>>

\* The announcements of a channel all expire when the channel does.
Expire(i) ==
    /\ expiries < MaxExpiries
    /\ expiries' = expiries + 1
    /\ ~channels[i].expired
    /\ channels' = [channels EXCEPT ![i].expired = TRUE]
    /\ live' = {a \in live : a[1] # i}
    /\ UNCHANGED <<up, stalled, contexts, broadcasts, found>>

\* shutdown_task cancels the searches; the channels stay as they are.
Shutdown ==
    /\ up
    /\ "shutdown" \in Env
    /\ up' = FALSE
    /\ UNCHANGED <<stalled, channels, contexts, broadcasts, live, found, expiries>>

-----------------------------------------------------------------------------
Init ==
    /\ up = TRUE
    /\ stalled = {}
    /\ channels = <<>> /\ contexts = <<>> /\ broadcasts = <<>>
    /\ live = {}
    /\ found = 0 /\ expiries = 0

Next ==
    \/ \E c \in Clients, topic \in Topics :
          \/ Publish(c, topic)
          \/ PublishNewChannel(c, topic)
          \/ PublishNoKey(c, topic)
    \/ \E m \in DOMAIN contexts, key \in Keys : SubscribedPeerFound(m, key)
    \/ \E i \in DOMAIN channels : Expire(i)
    \/ Shutdown

Spec == Init /\ [][Next]_vars

-----------------------------------------------------------------------------
(* Properties *)

\* Every variable has its type.
TypeOK ==
    /\ up \in BOOLEAN
    /\ stalled \subseteq Clients
    /\ channels \in Seq(Channel)
    /\ contexts \in Seq([topic : Topics, channel : DOMAIN channels])
    /\ broadcasts \in Seq(Seq(DOMAIN channels))
    /\ live \subseteq (DOMAIN channels) \X Keys
    /\ found \in 0..MaxFound
    /\ expiries \in 0..MaxExpiries

\* A channel is only created for a topic that no channel serves: of two
\* channels the newer one's topic is no prefix of the older one's
\* (handle_mqtt_publish looks through the whole list first).
ChannelsDistinct ==
    \A i, j \in DOMAIN channels : i < j => ~Serves(i, channels[j].topic)

\* The channel announced to the subscribers a search finds is one on which
\* the message they were searched for is broadcast, every time it is
\* (search_for_subscribers gets the channel handle_mqtt_publish has found).
SearchersReach ==
    \A m \in DOMAIN contexts :
        /\ broadcasts[m] # <<>>
        /\ ToSet(broadcasts[m]) = {contexts[m].channel}
        /\ m \in ToSet(channels[contexts[m].channel].pending)

\* While the announcement of a channel has not expired, the channel is
\* announced in the DHT under every accepting state found for it, those
\* found before its last expiration included.
StatesAnnounced ==
    \A i \in DOMAIN channels : ~channels[i].expired =>
        \A n \in DOMAIN channels[i].as : <<i, channels[i].as[n].hash>> \in live

\* Refuted: a channel broadcasts the messages of its own topic (line 329:
\* "topic that the channel is broadcasting about").
BroadcastsItsTopic ==
    \A m \in DOMAIN contexts : \A i \in ToSet(broadcasts[m]) :
        contexts[m].topic = channels[i].topic
=============================================================================
