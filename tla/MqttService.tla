----------------------------- MODULE MqttService -----------------------------
(***************************************************************************)
(* The subscriber side of the MQTT service (gnunet-service-mqtt.c): the    *)
(* subscriptions of the local clients, the messages queued for each        *)
(* client, and the regex announcements and DHT monitors that belong to a   *)
(* subscription.  Clients connect, subscribe, unsubscribe and disappear;   *)
(* PUBLISH messages arrive from other peers over mesh.  Every step runs to *)
(* its end in the scheduler's only thread.                                 *)
(*                                                                         *)
(* A subscription is the request id its client chose.  An id starts at a   *)
(* random 64-bit number in every client (mqtt_api.c:345), so the model     *)
(* takes the ids of two clients to be distinct.  A topic filter is the set *)
(* of topics its regex matches.  The list of subscriptions is a set: its   *)
(* order only orders the copies of one incoming PUBLISH among themselves.  *)
(***************************************************************************)
EXTENDS Naturals, FiniteSets, SequencesExt

CONSTANTS
    Clients,            \* the local applications
    Topics,             \* the topics of incoming PUBLISH messages
    Filters,            \* what the topic filters match: subsets of Topics
    Keys,               \* the accepting states a lookup may find
    MaxSubscriptions,   \* bound: SUBSCRIBE messages of each client
    MaxIncoming,        \* bound: PUBLISH messages from other peers
    Env                 \* the environment events that may happen, see Events

(***************************************************************************)
(* lost         the connection to a client breaks, or the client exits     *)
(* bad_regex    regcomp rejects the regex of a topic                       *)
(* no_announce  GNUNET_REGEX_announce returns NULL                         *)
(* no_lookup    the lookup of the accepting states does not start          *)
(* no_states    its callback is called with NULL for the accepting states  *)
(* stale_next   the next pointer of a freed list item is not NULL          *)
(* overread     bytes behind the memory of a message cannot be read        *)
(* shutdown     the service is shut down                                   *)
(***************************************************************************)
Events == {"lost", "bad_regex", "no_announce", "no_lookup", "no_states",
           "stale_next", "overread", "shutdown"}

ASSUME ClientsAssumption == IsFiniteSet(Clients)
ASSUME FiltersAssumption == Filters \subseteq SUBSET Topics
ASSUME MaxSubscriptionsAssumption == MaxSubscriptions \in [Clients -> Nat]
ASSUME MaxIncomingAssumption == MaxIncoming \in Nat
ASSUME EnvAssumption == Env \subseteq Events

VARIABLES
    up,              \* shutdown_task has not run
    connected,       \* clients with a connection to the service
    broken,          \* connected clients whose connection is ending
    clients,         \* client_head .. client_tail: clients with a ClientInfo
    pending,         \* client_info->pending_head .. pending_tail
    transmit,        \* clients with client_info->transmit_handle # NULL
    subscriptions,   \* subscription_head .. subscription_tail
    covers,          \* the topics that match each subscription's automaton
    announced,       \* subscriptions announced in the DHT
    lookups,         \* lookups of accepting states not yet answered
    monitors,        \* keys under which a subscription's monitors run
    issued,          \* ids clients have sent a SUBSCRIBE with
    asked,           \* ids whose UNSUBSCRIBE was handled
    acked,           \* ids whose acknowledgement the client has read
    incoming,        \* PUBLISH messages received from other peers
    wire,            \* messages sent to each client and not yet read
    undefined        \* memory was used that is freed, NULL or behind a
                     \* message: from here on the source does not say what
                     \* the process does

connVars == <<connected, broken>>
queueVars == <<clients, pending, transmit>>
regexVars == <<announced, lookups, monitors>>
clientVars == <<issued, asked, acked>>
vars == <<up, connVars, queueVars, subscriptions, covers, regexVars,
          clientVars, incoming, wire, undefined>>

Rid == UNION {{c} \X (1..MaxSubscriptions[c]) : c \in Clients}
Owner(r) == r[1]
Publish(r, n) == [kind |-> "publish", rid |-> r, n |-> n]
Ack(r) == [kind |-> "ack", rid |-> r]
Message == {Publish(r, n) : r \in Rid, n \in 1..MaxIncoming}
             \cup {Ack(r) : r \in Rid}

-----------------------------------------------------------------------------
(* Helpers *)

\* GNUNET_CONTAINER_DLL_insert_tail of messages ms, one after the other.
InsertHead(q, ms) == ms \o q            \* mutant: at the head
InsertTail(q, ms) == q \o ms

\* add_pending_client_message: a transmission is outstanding afterwards.
AddPending(c, m) ==
    /\ pending' = [pending EXCEPT ![c] = InsertTail(@, <<m>>)]
    /\ transmit' = transmit \cup {c}

\* The request send_reply_to_client leaves behind when it has sent all of
\* the queue but rest.
RequestOnce(c, rest) == transmit \ {c}   \* mutant: it asks no more
RequestAgain(c, rest) ==
    IF rest = <<>> THEN transmit \ {c} ELSE transmit

\* Find the subscription with the id of an UNSUBSCRIBE.
KnownIfOnly(r) == subscriptions = {r}    \* mutant: looks at one list item
Known(r) == r \in subscriptions

\* The list of subscriptions once those of rs are removed.
StillListed(rs) == subscriptions          \* mutant: freed, but not unlinked
Delisted(rs) == subscriptions \ rs

\* GNUNET_REGEX_announce_cancel for the subscriptions rs: it also cancels the
\* lookup made of the announcement.  (That is assumed of GNUnet: no code here
\* cancels a lookup, whose closure is the subscription.)
CancelNone(set, rs) == set               \* mutant: it is not called
CancelAnnounce(set, rs) == set \ rs

\* The subscriptions a disconnecting client leaves behind.
OneOwned(c) ==                           \* mutant: stops after one of them
    LET all == {r \in subscriptions : Owner(r) = c}
    IN  IF all = {} THEN {} ELSE {CHOOSE r \in all : TRUE}
Owned(c) == {r \in subscriptions : Owner(r) = c}

\* GNUNET_SERVER_notify_transmit_ready_cancel, in client_info_free.
CancelNoTransmit(c) == transmit          \* mutant: the request stays
CancelTransmit(c) == transmit \ {c}

(***************************************************************************)
(* subscription_free of every subscription of rs: the automaton is         *)
(* destroyed and the announcement cancelled.  The loop over the monitors   *)
(* stops the first, frees its list item and then reads the next pointer of *)
(* that item, its first word.  GNUNET_CONTAINER_DLL_remove has set it to   *)
(* NULL, which ends the loop, unless the allocator has overwritten it.     *)
(***************************************************************************)
SubscriptionFree(rs) ==
    /\ subscriptions' = Delisted(rs)
    /\ announced' = CancelAnnounce(announced, rs)
    /\ lookups' = CancelAnnounce(lookups, rs)
    /\ covers' = [r \in Rid |-> IF r \in rs THEN {} ELSE covers[r]]
    /\ \E first \in [{r \in rs : monitors[r] # {}} -> Keys] :
          /\ \A r \in DOMAIN first : first[r] \in monitors[r]
          /\ monitors' = [r \in Rid |->
                IF r \in DOMAIN first THEN monitors[r] \ {first[r]}
                                      ELSE monitors[r]]

ReadsFreed(rs) == "stale_next" \in Env /\ \E r \in rs : monitors[r] # {}

Undefined ==
    /\ undefined' = TRUE
    /\ UNCHANGED <<up, connVars, queueVars, subscriptions, covers, regexVars,
                   clientVars, incoming, wire>>

-----------------------------------------------------------------------------
(* The clients' connections *)

ClientConnects(c) ==
    /\ up /\ ~undefined
    /\ c \notin connected
    /\ connected' = connected \cup {c}
    /\ UNCHANGED <<up, broken, queueVars, subscriptions, covers, regexVars,
                   clientVars, incoming, wire, undefined>>

ClientBreaks(c) ==
    /\ ~undefined
    /\ "lost" \in Env
    /\ c \in connected \ broken
    /\ broken' = broken \cup {c}
    /\ UNCHANGED <<up, connected, queueVars, subscriptions, covers, regexVars,
                   clientVars, incoming, wire, undefined>>

\* handle_client_disconnect
ClientGone(c) ==
    /\ ~undefined
    /\ c \in broken
    /\ SubscriptionFree(Owned(c))
    /\ clients' = clients \ {c}
    /\ pending' = [pending EXCEPT ![c] = <<>>]
    /\ transmit' = CancelTransmit(c)
    /\ wire' = [wire EXCEPT ![c] = <<>>]
    /\ connected' = connected \ {c}
    /\ broken' = broken \ {c}
    /\ UNCHANGED <<up, clientVars, incoming, undefined>>

ClientGoneOverFreed(c) ==
    /\ ~undefined
    /\ c \in broken
    /\ ReadsFreed(Owned(c))
    /\ Undefined

\* The client library reads the next message.
ClientReads(c) ==
    /\ ~undefined
    /\ c \in connected
    /\ wire[c] # <<>>
    /\ wire' = [wire EXCEPT ![c] = Tail(@)]
    /\ acked' = IF Head(wire[c]).kind = "ack"
                THEN acked \cup {Head(wire[c]).rid} ELSE acked
    /\ UNCHANGED <<up, connVars, queueVars, subscriptions, covers, regexVars,
                   issued, asked, incoming, undefined>>

-----------------------------------------------------------------------------
(* SUBSCRIBE: handle_mqtt_subscribe, one action for each way it returns.    *)
(* GNUNET_SERVER_receive_done with GNUNET_SYSERR closes the connection.     *)

Subscribing(c, r) ==
    /\ up /\ ~undefined
    /\ c \in connected \ broken
    /\ c = Owner(r) /\ r \notin issued
    /\ issued' = issued \cup {r}
    /\ UNCHANGED <<up, connected, asked, acked, incoming, wire, undefined>>

SubscribeRejected(c, r) ==
    /\ Subscribing(c, r)
    /\ "bad_regex" \in Env
    /\ broken' = broken \cup {c}
    /\ UNCHANGED <<queueVars, subscriptions, covers, regexVars>>

SubscribeNotAnnounced(c, r) ==
    /\ Subscribing(c, r)
    /\ "no_announce" \in Env
    /\ clients' = clients \cup {c}
    /\ broken' = broken \cup {c}
    /\ UNCHANGED <<pending, transmit, subscriptions, covers, regexVars>>

\* The announcement stays although its subscription is freed.
SubscribeNotLookedUp(c, r) ==
    /\ Subscribing(c, r)
    /\ "no_lookup" \in Env
    /\ clients' = clients \cup {c}
    /\ announced' = announced \cup {r}
    /\ broken' = broken \cup {c}
    /\ UNCHANGED <<pending, transmit, subscriptions, covers, lookups, monitors>>

Subscribe(c, r, filter) ==
    /\ Subscribing(c, r)
    /\ clients' = clients \cup {c}
    /\ subscriptions' = subscriptions \cup {r}
    /\ covers' = [covers EXCEPT ![r] = filter]
    /\ announced' = announced \cup {r}
    /\ lookups' = lookups \cup {r}
    /\ UNCHANGED <<broken, pending, transmit, monitors>>

\* monitor_accepting_states_for_subscription_cb, for the states found.
StatesFound(r, found) ==
    /\ ~undefined
    /\ r \in lookups
    /\ lookups' = lookups \ {r}
    /\ monitors' = [monitors EXCEPT ![r] = found]
    /\ UNCHANGED <<up, connVars, queueVars, subscriptions, covers, announced,
                   clientVars, incoming, wire, undefined>>

\* "or NULL if something went terribly wrong": it is iterated over all the same.
StatesFoundNull(r) ==
    /\ ~undefined
    /\ r \in lookups
    /\ "no_states" \in Env
    /\ Undefined

-----------------------------------------------------------------------------
(* UNSUBSCRIBE: handle_mqtt_unsubscribe, called by client c for id r, which *)
(* is looked up among the subscriptions of all clients.                     *)

Unsubscribing(c) ==
    /\ up /\ ~undefined
    /\ c \in connected \ broken

Unsubscribe(c, r) ==
    /\ Unsubscribing(c)
    /\ Known(r)
    /\ clients' = clients \cup {c}
    /\ AddPending(c, Ack(r))
    /\ SubscriptionFree({r})
    /\ asked' = asked \cup {r}
    /\ UNCHANGED <<up, connVars, issued, acked, incoming, wire,
                   undefined>>

UnsubscribeOverFreed(c, r) ==
    /\ Unsubscribing(c)
    /\ Known(r)
    /\ ReadsFreed({r})
    /\ Undefined

\* The id of the NULL subscription is read to log it.
UnsubscribeUnknown(c, r) ==
    /\ Unsubscribing(c)
    /\ ~Known(r)
    /\ Undefined

-----------------------------------------------------------------------------
(* Delivery of PUBLISH messages to the local clients *)

\* The copy of the n-th PUBLISH for subscription r.
CopyUnaddressed(r, n) == [kind |-> "publish", rid |-> <<>>, n |-> n] \* mutant
Copy(r, n) == Publish(r, n)

Matching(t) == {r \in subscriptions : t \in covers[r]}
Copies(c, t) ==
    SetToSeq({Copy(r, incoming + 1) : r \in {s \in Matching(t) : Owner(s) = c}})

\* handle_incoming_publish and deliver_incoming_publish
IncomingPublish(t) ==
    /\ up /\ ~undefined
    /\ incoming < MaxIncoming
    /\ incoming' = incoming + 1
    /\ pending' = [c \in Clients |->
                    InsertTail(pending[c], Copies(c, t))]
    /\ transmit' = transmit \cup {Owner(r) : r \in Matching(t)}
    /\ UNCHANGED <<up, connVars, clients, subscriptions, covers, regexVars,
                   clientVars, wire, undefined>>

(***************************************************************************)
(* send_reply_to_client: as many messages as fit, k of them.  The first    *)
(* fits, because the request was made for its size and the queue grows at  *)
(* its tail only.                                                          *)
(***************************************************************************)
SendReply(c, k) ==
    LET rest == SubSeq(pending[c], k + 1, Len(pending[c]))
    IN  /\ ~undefined
        /\ c \in transmit
        /\ k \in 1..Len(pending[c])
        /\ wire' = [wire EXCEPT ![c] = @ \o SubSeq(pending[c], 1, k)]
        /\ pending' = [pending EXCEPT ![c] = rest]
        /\ transmit' = RequestAgain(c, rest)
        /\ UNCHANGED <<up, connVars, clients, subscriptions, covers, regexVars,
                       clientVars, incoming, undefined>>

\* ntohs of a little-endian host: the two bytes of a size change places.
ntohs(n) == (n % 256) * 256 + n \div 256

\* How many bytes from behind the message m are sent with it: the size of an
\* acknowledgement, 12 bytes, is stored without htons.
PastEnd(m) == IF m.kind = "ack" THEN ntohs(12) - 12 ELSE 0

\* Those bytes cannot be read.  When they can, SendReply is what happens.
SendPastEnd(c) ==
    /\ ~undefined
    /\ c \in transmit
    /\ \E m \in ToSet(pending[c]) : PastEnd(m) > 0
    /\ "overread" \in Env
    /\ Undefined

\* send_reply_to_client without a buffer
SendFails(c) ==
    /\ ~undefined
    /\ c \in transmit \cap broken
    /\ transmit' = transmit \ {c}
    /\ UNCHANGED <<up, connVars, clients, pending, subscriptions, covers,
                   regexVars, clientVars, incoming, wire, undefined>>

(***************************************************************************)
(* shutdown_task frees the subscriptions; GNUNET_SERVICE_run then destroys *)
(* the server, which disconnects every client.                             *)
(***************************************************************************)
Shutdown ==
    /\ up /\ ~undefined
    /\ "shutdown" \in Env
    /\ SubscriptionFree(subscriptions)
    /\ up' = FALSE
    /\ broken' = connected
    /\ UNCHANGED <<connected, queueVars, clientVars, incoming, wire,
                   undefined>>

ShutdownOverFreed ==
    /\ up /\ ~undefined
    /\ "shutdown" \in Env
    /\ ReadsFreed(subscriptions)
    /\ Undefined

-----------------------------------------------------------------------------
Init ==
    /\ up = TRUE
    /\ connected = {} /\ broken = {} /\ clients = {} /\ transmit = {}
    /\ pending = [c \in Clients |-> <<>>]
    /\ wire = [c \in Clients |-> <<>>]
    /\ subscriptions = {} /\ announced = {} /\ lookups = {}
    /\ covers = [r \in Rid |-> {}]
    /\ monitors = [r \in Rid |-> {}]
    /\ issued = {} /\ asked = {} /\ acked = {}
    /\ incoming = 0
    /\ undefined = FALSE

Connections(c) == ClientConnects(c) \/ ClientBreaks(c) \/ ClientGone(c)
                    \/ ClientGoneOverFreed(c) \/ ClientReads(c)

\* The ids of a client count up.
NextOfClient(c, r) ==
    /\ Owner(r) = c
    /\ \A i \in 1..r[2]-1 : <<c, i>> \in issued

Subscribes(c, r) ==
    /\ NextOfClient(c, r)
    /\ \/ SubscribeRejected(c, r)
       \/ SubscribeNotAnnounced(c, r)
       \/ SubscribeNotLookedUp(c, r)
       \/ \E filter \in Filters : Subscribe(c, r, filter)

Sends(c) == SendFails(c) \/ \E k \in 1..Len(pending[c]) : SendReply(c, k)

\* A client unsubscribes once an id it has subscribed with, perhaps over an
\* earlier connection.
Unsubscribes(c, r) ==
    /\ Owner(r) = c /\ r \in issued \ asked
    /\ Unsubscribe(c, r) \/ UnsubscribeOverFreed(c, r)
         \/ UnsubscribeUnknown(c, r)

Next ==
    \/ \E c \in Clients :
          \/ Connections(c) \/ Sends(c) \/ SendPastEnd(c)
          \/ \E r \in Rid : Subscribes(c, r) \/ Unsubscribes(c, r)
    \/ \E r \in Rid, found \in SUBSET Keys : StatesFound(r, found)
    \/ \E r \in Rid : StatesFoundNull(r)
    \/ \E t \in Topics : IncomingPublish(t)
    \/ Shutdown
    \/ ShutdownOverFreed

Spec == Init /\ [][Next]_vars

(***************************************************************************)
(* The scheduler runs the transmission the server has granted, the server  *)
(* reports a connection that ends, and the client library always has a     *)
(* GNUNET_CLIENT_receive outstanding.                                      *)
(***************************************************************************)
Fairness ==
    \A c \in Clients :
        /\ WF_vars(Sends(c))
        /\ WF_vars(ClientGone(c))
        /\ WF_vars(ClientReads(c))

FairSpec == Spec /\ Fairness

-----------------------------------------------------------------------------
(* Properties *)

\* What a client will still receive, in order.
Stream(c) == wire[c] \o pending[c]

\* Every variable has its type; a message always carries the id of one of
\* the client's subscriptions (line 1777 overwrites the publisher's id).
TypeOK ==
    /\ up \in BOOLEAN /\ undefined \in BOOLEAN
    /\ connected \subseteq Clients /\ broken \subseteq connected
    /\ clients \subseteq Clients /\ transmit \subseteq Clients
    /\ pending \in [Clients -> Seq(Message)]
    /\ wire \in [Clients -> Seq(Message)]
    /\ subscriptions \subseteq Rid /\ announced \subseteq Rid
    /\ lookups \subseteq Rid
    /\ covers \in [Rid -> SUBSET Topics]
    /\ monitors \in [Rid -> SUBSET Keys]
    /\ issued \subseteq Rid /\ asked \subseteq Rid /\ acked \subseteq Rid
    /\ incoming \in 0..MaxIncoming

\* The client pointer of a subscription is never dangling: a subscription
\* does not outlive the ClientInfo and the connection it delivers to
\* (handle_client_disconnect frees all of them before client_info_free).
OwnersAlive ==
    \A r \in subscriptions : Owner(r) \in clients /\ Owner(r) \in connected

\* A ClientInfo does not outlive its connection, and nothing is queued or
\* about to be transmitted without one: no callback finds a freed
\* ClientInfo, and a client that comes back starts with an empty queue.
NothingLeftBehind ==
    /\ clients \subseteq connected
    /\ transmit \subseteq clients
    /\ \A c \in Clients \ clients : pending[c] = <<>>

\* No lost wakeup: while the connection works, a client with messages to
\* send has a transmission outstanding (process_pending_client_messages
\* asks for none when one is already outstanding).
RequestOutstanding ==
    \A c \in clients \ broken : pending[c] # <<>> => c \in transmit

\* After its acknowledgement a subscription receives nothing more; what is
\* queued for a subscription that has ended comes before the one
\* acknowledgement (the library frees the handle when it reads that).
AckIsLast ==
    up => \A c \in Clients : \A i \in 1..Len(Stream(c)) :
        LET m == Stream(c)[i]
            later == {j \in i+1..Len(Stream(c)) : Stream(c)[j].rid = m.rid}
        IN  IF m.kind = "ack" THEN later = {} /\ m.rid \notin subscriptions
            ELSE \/ m.rid \in subscriptions
                 \/ \E j \in later : Stream(c)[j].kind = "ack"

\* Each subscription receives the PUBLISH messages of other peers in the
\* order in which they came in, none of them twice.
InOrder ==
    \A c \in Clients : \A i, j \in 1..Len(Stream(c)) :
        LET m == Stream(c)[i]
            p == Stream(c)[j]
        IN  (i < j /\ m.rid = p.rid /\ m.kind = "publish" /\ p.kind = "publish")
                => m.n < p.n

\* As long as no connection breaks and no SUBSCRIBE fails, the service
\* never looks for a subscription it does not have (line 1669 reads a NULL
\* subscription then).
ServiceSurvives == Env \subseteq {"shutdown"} => ~undefined

\* A subscription is announced while it exists and its announcement ends with
\* it, whether it is unsubscribed, its client disappears or the service shuts
\* down.
AnnouncementEnds ==
    [][\A r \in subscriptions :
          r \in announced /\ (r \in subscriptions' <=> r \in announced')]_vars

\* Where a lookup finds one accepting state at most, no DHT monitor runs for a
\* subscription that has ended: the one there was is stopped, and a lookup
\* still unanswered then does not start one later.
MonitorsStopped ==
    (\A k, l \in Keys : k = l) =>
        \A r \in Rid : monitors[r] # {} => r \in subscriptions

\* A handled UNSUBSCRIBE is acknowledged to the client, unless the client
\* is disconnected first.
AckDelivered ==
    \A r \in Rid : (r \in asked) ~> (r \in acked \/ Owner(r) \notin connected
                                       \/ undefined)

\* What is queued for a client is sent or discarded in the end.
QueueDrains ==
    \A c \in Clients : (pending[c] # <<>>) ~> (pending[c] = <<>> \/ undefined)
=============================================================================
