# TLA+ models of gnunet-mqtt

gnunet-mqtt offers publish/subscribe over GNUnet.  An application links the
client library (`src/src/mqtt/mqtt_api.c`), which talks over a local socket to
the service (`src/src/mqtt/gnunet-service-mqtt.c`); the services of different
peers find each other through regex announcements in the DHT, and exchange
messages over mesh and multicast.  The modules here model the two C files that
hold the logic, statement by statement where state changes, and abstract data to
what the properties tell apart; the strings that decide who hears what have a
model of their own.

## 1. Inventory

Everything below runs in one thread per process: the GNUnet scheduler runs a
task to its end before the next one.  Interleaving is therefore between tasks,
callbacks and messages, never inside a function.

### Client library, `mqtt_api.c`

*State.*  One `struct GNUNET_MQTT_Handle`: the connection (`client`), the
outstanding transmission request (`th`), `in_receive`, `reconnect_task`, the
queue `pending_head..pending_tail`, the list `subscribe_head..subscribe_tail`
and the request-id generator.  Per request a `PublishHandle` or a
`SubscribeHandle` with its continuation, its timeout task and a pointer to its
message while that is queued.

*Operations.*  `connect`, `disconnect`, `publish`, `publish_cancel`,
`subscribe`, `unsubscribe`; the tasks `publish_timeout`, `subscribe_timeout`
and `try_reconnect`; the callbacks `transmit_pending` and
`service_message_handler`.

*What is hard.*  Five pieces of code unlink and free the same message (the
transmission, two timeouts, the cancellation, the withdrawal); each of four
failures closes the connection from inside a callback; the queue is only ever
drained if every path remembers to ask for a transmission; answers race with
the application taking its request back.

*What makes it correct.*  A message queued on a live connection has a
transmission requested; a timer is scheduled exactly for the requests still
queued; a continuation is called at most once; incoming messages find their
subscription; a reconnection is scheduled only without a connection.

### Service, subscriber side, `gnunet-service-mqtt.c`

*State.*  The list of `ClientInfo` (queue of messages, `transmit_handle`), the
list of subscriptions (request id, automaton, announcement, lookup, DHT
monitors).

*Operations.*  `handle_mqtt_subscribe`, `handle_mqtt_unsubscribe`,
`handle_client_disconnect`, `handle_incoming_publish` with
`deliver_incoming_publish`, `send_reply_to_client`,
`monitor_accepting_states_for_subscription_cb`, `shutdown_task`.

*What is hard.*  Subscriptions point into a `ClientInfo` that another handler
frees; an acknowledgement shares its queue with the messages it ends; a
subscription owns three kinds of resources that every failing path must give
back.

*What makes it correct.*  Nothing outlives the connection it belongs to; no
transmission is forgotten; a subscription's stream is ordered and ends with
its acknowledgement.

### Service, publisher side, `gnunet-service-mqtt.c`

*State.*  The list of multicast channels (topic, pending messages, accepting
states, expiration of the announcement), the regex search contexts.

*Operations.*  `handle_mqtt_publish` with `search_for_subscribers`,
`subscribed_peer_found`, the expiration of the announcements, `shutdown_task`.

*What is hard.*  A channel is looked up by a string comparison; its
announcements expire all together, while the searches that renew them report
one accepting state at a time.

*What makes it correct.*  The channel announced to a subscriber is the one
its message is broadcast on; a channel is announced under every accepting
state known for it.

### Topic filters and the delivery of a message

*State.*  None of their own: `get_regex`, `add_prefix` and
`match_subcriber_regex` are functions of strings, but the strings pass through
four copies in three processes (library, service of the publisher, service of
the subscriber, library of the subscriber), each of which computes again where
the topic ends.

*What is hard.*  Lengths held in a `uint8_t`; a buffer whose size is counted
separately from what is written to it; a `#` that takes back the character
before it; a match that has to be of the whole topic, with a matcher that also
accepts a part of it; two sides that have to agree on the string the DHT is
asked for.

*What makes it correct.*  Of the messages that come in at its peer a subscriber
hears exactly those on topics its filter covers, as they were published, and no
buffer is overrun.

### How the parts interact

* Library and service: SUBSCRIBE, UNSUBSCRIBE and PUBLISH one way, PUBLISH and
  UNSUBSCRIBE_ACK the other, over a reliable ordered local connection that may
  break.  The library forgets what was in the link when it does; the service
  goes on with what it has read until it notices, and then forgets the
  connection's subscriptions.  `MqttSystem` composes the two.
* Publisher side and subscriber side of different peers: the subscriber side
  handles PUBLISH messages that come in over mesh, but nothing in the publisher
  side sends them: it announces channels in the DHT, and queues a truncated copy
  for multicast.  Inside one process the two sides share no state but the
  shutdown.  `MqttDelivery` models what each of the two does with one message,
  and leaves open how it gets from the one to the other.

### Parts not modelled

* *Wire formats*, in part: `topic_len`, topics and payloads are in
  `MqttDelivery`, ids and the byte order of the two sizes that are not converted
  in `MqttApi` and `MqttService`.  The limit of 64k of a message is not modelled.
* *The queue to remote subscribers* (`send_msg_to_subscriber`,
  `add_pending_subscriber_message`, `delete_delivered_message`) is left from an
  earlier design: no `RemoteSubscriberInfo` is ever created, so that nothing
  reaches it, and no step of the program is lost.
* *The DHT monitor callbacks* only log.
* *The command-line tools* are applications of the library with one request
  each.  Their calls are a subset of those the application of `MqttApi` makes,
  and a model of their own would have hardly any states.  What is peculiar to
  them, read in the code: the publishing tool relies on a continuation that is
  not called after a successful transmission, so that it ends on its timeout
  only; a tool that disconnects while a reconnection is scheduled leaves
  `try_reconnect` on the freed handle (`MqttApi` has that step,
  `ReconnectAfterDisconnect`); the shutdown task of the subscribing tool
  unsubscribes a handle that `subscribe_timeout` may have freed
  (`UnsubscribeFreed`), and the UNSUBSCRIBE it queues is dropped by the
  disconnection that follows it.
* *`run` and `main`* of the service read the configuration and register the
  handlers that the models have as actions.
* *The tests* are scripts that run the tools on test beds.

## 2. Modules

| module | models |
|---|---|
| `Dll` | unlinking from the doubly linked lists of `gnunet_container_lib.h` |
| `MqttApi` | the client library, with the application and the service around it |
| `MqttRequests` | abstract: what the header promises about one request, and named departures from it |
| `MqttApiRefinement` | the mapping under which `MqttApi` implements `MqttRequests` |
| `MqttService` | the subscriber side of the service, with its clients and the other peers |
| `MqttPublisher` | the publisher side of the service |
| `MqttSystem` | one library and the subscriber side of the service, joined by the connections the library makes |
| `MqttTopic` | topic filters: prefix, expression, buffer, matching, and the level-wise meaning of a filter |
| `MqttDelivery` | a filter, a topic and a payload through the copies each process makes, over `MqttTopic` |
| `MCMqttApi`, `MCMqttService`, `MCMqttPublisher`, `MCMqttSystem`, `MCMqttDelivery` | values of the constants for TLC |
| `DllProofs` | lemmas about lists as sequences |
| `MqttApiProofs`, `MqttServiceProofs`, `MqttPublisherProofs` | the inductive invariants and the theorems that follow from them; for the service also what a client reads, and in which order |
| `MqttApiRequestProofs` | the library's requests: the refinement, continuations, requests taken back |
| `MqttApiLinkProofs` | the library's receive, that what the service sends finds its subscription, and that no UNSUBSCRIBE overtakes its SUBSCRIBE |
| `MqttSystemProofs` | library and service together: that the service is what `MqttApi` assumes of it, and that the two agree |
| `MqttDeliveryProofs` | that no buffer is overrun, and that a PUBLISH that comes in is heard exactly where it should be, as it was published, for strings of every length |

Definitions whose comment says `mutant` are not part of any model.  Each is a
plausible wrong version of the operator that follows it; substituting it has to
break a stated property, which shows that the property depends on that line of
the code.

### MqttApi

Each variable is the field of the source it is named after, or documented at
its declaration.  A pointer is a Boolean (NULL or not), or the id of what it
points to.  `told`, `released` and `uid_gen` record what the application did
and heard.  `toService`, `toClient`, `receiving` and `remote` are the other end
as far as the library can tell; they are external to the file and modelled from
how it uses them.  `LibraryView` of `MqttSystem` shows that the service does
nothing else.

There is an action for each function of the public interface, for each task,
for each way `transmit_pending` returns and for each kind of message.
`process_pending_messages` and `do_disconnect`, which most functions end with,
are part of each action that calls them (`ProcessPending`, `DoDisconnect`), so
that the failure of the request they make is an outcome of the caller's step.

`Env` chooses what may happen to the library: the connection may break, a
transmission request may be refused, the service may be unreachable, the two
kinds of timer may expire, the application may cancel or disconnect, and the
memory behind a message may be unreadable.  The second attempt that
`GNUNET_CLIENT` makes by itself (`auto_retry`, line 725) before it reports a
failed transmission is left out: it is not seen by the library.

The application keeps the documented contract: it does not use the handle after
`GNUNET_MQTT_disconnect`, unsubscribes each subscription at most once and not
after it was told of its timeout, and cancels a PUBLISH at most once and not
after its continuation ran.  Its continuations do not call back into the
library.

Where the code uses freed memory, passes a NULL client or reads behind a
message, the source does not say what happens; the model sets `undefined` and
stops, so every property is about executions up to that step.  No property says
that it is never set: section 6 lists what sets it.  The size of an UNSUBSCRIBE
is stored without `htons` and read back with `ntohs`, which on a little-endian
host makes 3072 of 12: `transmit_pending` copies 3060 bytes from behind the
message.  Where they can be read the copy does no harm to the library and the
receiver reads the first fields only (`Transmit`); where they cannot, the event
`overread`, the model is `undefined` (`TransmitPastEnd`).

### MqttRequests and MqttApiRefinement

`MqttRequests` has no queue, no timer and no connection.  A request is `new`,
`queued`, `sent`, `leaving` (an UNSUBSCRIBE was asked for), `ended` or
`closed`, and each change of phase says what `gnunet_mqtt_service.h` documents
that the continuation is told: "ok" when the request is transmitted, "no" when
it expires, and nothing otherwise.  The constant `Departures` names what an
implementation does otherwise.  The library needs two: a transmitted PUBLISH is
told nothing (`publish_untold`, against lines 85 and 104 of the header), and a
SUBSCRIBE that is still queued is told "ok" when the application disconnects
(`close_told`, against line 137).  `KeepsItsPromise` says that it departs in
these two ways and no other; `AnswersAsDocumented`, without any departure, is
refuted (`api_promise`).  The header's `GNUNET_SYSERR` is never reported by the
code, and never called for by the phases: transmission and answer are one step.

`PhaseOf` computes the phase of a request from the queue, the freed handles and
what the application has called.  A PUBLISH or SUBSCRIBE in the queue is
`queued` (an UNSUBSCRIBE in the queue is not); a subscription whose UNSUBSCRIBE
was asked for is `leaving` until its handle is freed; a request that was taken
back, or whose handle was freed otherwise, is `ended`.  Breaking and
reconnecting are stutters of the abstract specification: the promise does not
depend on them.

### MqttService

A subscription is the request id its client chose; ids start at a random 64-bit
number in each client, so the ids of two clients are taken to be distinct.  A
topic filter is the set of topics it matches.  The list of subscriptions is a
set, because its order only orders the copies of one message among themselves;
the queues to the clients are sequences.  `wire` is what a client has been sent
and has not read.

Each way `handle_mqtt_subscribe` returns is an action: the regex is rejected,
the announcement fails, the lookup does not start, or the subscription is made.
`GNUNET_SERVER_receive_done (client, GNUNET_SYSERR)` makes the connection
`broken`, and `handle_client_disconnect` (`ClientGone`) follows.
`handle_mqtt_unsubscribe` looks for the id among the subscriptions of all
clients: `Unsubscribe(c, r)` is a message of client `c` about a subscription
`r` that may belong to an earlier connection.
`subscription_free` is `SubscriptionFree`.  It stops one monitor and then reads
the next pointer of the item it has freed; that pointer is NULL unless the
allocator overwrote it, which `stale_next` allows (the step is then
`undefined`).  The lookup of the accepting states, whose closure is the
subscription, ends with the announcement it was made of (`CancelAnnounce`): that
`GNUNET_REGEX_announce_cancel` does so is assumed of GNUnet, since no code here
cancels a lookup.  Its callback may be handed NULL for the accepting states, and
iterates over them all the same (`StatesFoundNull`, event `no_states`).  The
size of an acknowledgement is that of an UNSUBSCRIBE: `SendPastEnd` is the
service's `TransmitPastEnd`.

### MqttPublisher

A topic is the sequence of its characters, because the channel lookup compares
prefixes.  A message, its search context and its broadcasts are numbered in the
order of publication.  `live` is the set of announcements that have not expired
in the DHT.  `subscribed_peer_found` is modelled as if searches found somebody;
that they do not is the finding of `delivery_search`.

### MqttSystem

The library's steps are those of `MqttApi` and the service's steps those of
`MqttService`, both by INSTANCE: the service of `MqttApi` is no longer a set of
assumptions, and a client of `MqttService` is one connection of the library.
`sent[k]` is what the library has sent over connection `k` and the service has
not read; what the service has for the library is `Stream(k)`, its queue and
its wire.  When the library closes a connection the service may go on reading
what was sent over it and serving its subscriptions until it notices
(`Notices`), while the library already uses the next one.  When the library
uses memory it has freed (`undefined`) the model stops, as `MqttApi` does: the
source does not say what that process then does with its connection.

What is reduced: there are no accepting states (`Keys = {}`), the service does
not shut down, its freed list items read as NULL and what is behind a message
can be read (those are in `MqttService` and `MqttApi`); a PUBLISH of the library
changes nothing on the subscriber side
(the publisher side is `MqttPublisher`).  A connection that breaks on the
service's side is handled there once the library has noticed too, since what
the service would have forgotten earlier can reach nobody in between.

### MqttTopic and MqttDelivery

A filter or a topic is the sequence of its characters.  An expression is the
sequence of its items: a character, `.`, or one of the two groups that `+` and
`#` become, whose characters only count for the buffer (126 and 130).  The
first 22 characters of the prefix are one item, and its last, a blank, another,
because a `#` right after the prefix takes that blank back.  `Spans` says what
an item matches, `Ends` where a match of the whole expression may end, and
`match_subcriber_regex` that the leftmost longest match ends with the topic.
`Levels` cuts a string at each `/`; `Covers` and `WellFormed`, which only the
properties use, say with it what a filter means.

`MqttDelivery` has one subscription and one message at a time, without ids and
queues.  `Publish` is what the publisher's library and service do: the search
for subscribers, and `outgoing`, the copy queued for the network, which is the
struct without topic and payload (line 1131).  `Arrive` is
`handle_incoming_publish` on the subscriber's peer, which gets the message as
the library made it.  Nothing connects the two in the code (the one function
that sends a PUBLISH over mesh, `send_msg_to_subscriber`, is never reached), so
`Arrive` is an event from outside, and the properties about what is heard are
about a PUBLISH that has come in.

`topic_len` counts modulo `TopicLenLimit`, 256 in the code and 7 in
the runs, where topics of 6 and 7 characters stand for those of 255 and 256.
A write before or behind a buffer makes the model `undefined`.

## 3. Runs

`CHECK_DEADLOCK FALSE` is in every configuration: an idle library or service
waits for its next event, and the counters named below end the run.

| run | question | bounds | distinct states |
|---|---|---|---|
| `api_safety` | are queue, timers, receive and reconnection consistent, does each request keep to its contract but for the named departures, under every event? | 3 requests, 2 incoming messages | 495460 |
| `api_live` | is the queue drained, does the library reconnect, are requests answered, when connections break and PUBLISH timers expire? | 2 requests, 1 incoming message | 3146 |
| `service_safety` | does anything outlive its connection or its subscription, is a transmission forgotten, is a stream out of order, under every event? | 2 clients with 2 and 1 subscriptions, 2 incoming messages, 1 accepting state | 801751 |
| `service_live` | are acknowledgements delivered and queues drained, while clients stay? | 2 clients with 2 and 1 subscriptions, 1 incoming message | 11796 |
| `publisher_safety` | is a message broadcast on the channel announced for it, and are announcements renewed? | 3 nested topics, 4 messages, 3 reports, 2 expirations | 362254 |
| `delivery` | of the messages that come in, does a subscriber hear exactly those its filter covers, as they were published, within all buffers? | all filters of up to 3 characters and well-formed ones of up to 5, all topics likewise, 3 kinds of payload | 212536 |
| `system` | do library and service agree, and is the service what the library assumes of it, over a connection that breaks? | 2 requests, 2 connections, 1 incoming message | 793208 |
| `system_live` | does a subscription that was ended disappear from the service, and is an UNSUBSCRIBE acknowledged? | 2 requests, 2 connections | 67212 |
| `api_retry`, `api_promise`, `publisher_topic`, `delivery_search` | does the code do what a comment says? | see section 6 | |

Why the bounds are enough:

* Three requests are the first number for which a list has a head, a middle and
  a tail, so that unlinking each of them, a queue that grows in front of an
  outstanding request, and a subscription between two others all occur.
  Reconnections and breaks are not counted: the model may break and reconnect
  for ever.
* Two subscriptions of one client and one of another let a message go to two
  subscriptions of one client, a disconnection end some subscriptions and leave
  others, and one client be slow while the other goes on.  Two incoming messages
  are what order is about.
* The topics `a`, `ab` and `b` hold a prefix pair and an unrelated topic; four
  messages can create all three channels and use one again.  Three reports and
  two expirations let an accepting state be found, expire, be found again and
  expire again.
* Filters of three characters hold every pair of neighbours of `a`, `/`, `+`,
  `#` and `.` with a third beside it, two `#` included; well-formed filters of
  five characters have three levels.  The alphabet has one letter, because the
  groups treat all letters alike, and topics also have a `-`, which they do not
  match.
* Two connections of the library are what an old connection and its successor
  need; two requests let a subscription of the old one be unsubscribed over the
  new one while another is made.  An incoming message crosses either.
  `system_live` leaves it out: its properties are about requests.

`api_safety` allows every event, `api_live` only those under which nothing
becomes undefined (`BreakingLink`), since an execution that has answers no
liveness question.  `service_live` is about clients that stay
(`Orderly`).  `system` allows broken connections, expiring PUBLISH timers,
disconnection and rejected filters; `system_live` broken connections and
rejected filters.

## 4. Fairness

`FairSpec` of `MqttApi` assumes weak fairness of the transmission the socket
grants, of the reception of a message that has arrived, of the scheduled
reconnection, and of the service reading.  The scheduler runs every ready task,
and the socket is ready for writing as soon as the service reads.  Nothing is
assumed of the application, of broken connections or of timers.  `TransmitShort`
(the buffer is too small for a message that overtook the one requested) has no
fairness: each occurrence asks again for the size of the new head, and a head is
overtaken only by a new request.

`FairSpec` of `MqttService` assumes that a transmission the server granted
runs, that a connection that ends is reported, and that the client library,
which always has a receive outstanding, reads.

`FairSpec` of `MqttSystem` assumes the same of both sides: the library
transmits, reads what the service sent, reconnects, and notices a connection
that the service has broken while it has a receive outstanding; the service
reads what was sent over each connection, sends what it has queued and notices
connections that the library has closed.  All of it holds while the library's
behaviour is defined (`~undefined`).

Four liveness properties are conditional, and say so.  `QueueDrains` and
`SubscriptionAnswered` of the library assume that the connection stays up from
some moment on, and, by the bound `MaxRequests`, that the application stops
making requests: messages are queued at the head, so that a stream of requests
that never ends may starve the oldest for ever (`mqtt_api.c:840`), which no run
can show; `UnsubscribeCompletes`, of the library and of the system, that
it never breaks, because an acknowledgement lost with its connection is not
sent again.

## 5. Proofs

All theorems are about `Spec` for every value of the constants that satisfies
the module's named assumptions (`MaxRequestsAssumption`, ... ,
`ClientsAssumption`).  They use no other assumption.

### Client library

`MqttApiProofs`: `Invariance` shows the inductive invariant `IInv`, from which
`TypeCorrect`, `AssertionHolds` (`ReconnectExclusive`, the `GNUNET_assert` of
`do_disconnect`), `NoWakeupIsLost` (`NoLostWakeup`), `QueueIsOwned`
(`QueueOwned`) and `TimersAreOwned` (`TimerOwned`) follow.  The properties are
not inductive by themselves:

* A queued message and its handle find each other only if ids are never used
  twice: `IdsKnown` bounds every id in the state by `uid_gen`, and says that
  no scheduled timer belongs to a freed request.
* Unlinking a message removes it only if it is in the queue once: `QueueShape`
  says that the queue has no duplicates and what the request of each kind of
  message looks like.
* A timer that fires unlinks its message and frees its handle: `TimerShape`
  says that timers and queued PUBLISH and SUBSCRIBE messages belong together,
  in both directions.
* An acknowledgement frees a handle: `LinkShape` says that an UNSUBSCRIBE or an
  acknowledgement in the link belongs to a subscription whose message has left
  the queue, so that no queued message loses its handle.
* `LinkDown` says that a library without a connection has no transmission, no
  receive and nothing in the link, and `HandleState` that a handle that is not
  open has neither a connection nor a queue.

The other modules about the library are layers over `IInv`.

`MqttApiRequestProofs` proves the refinement `PromiseKept`
(`KeepsItsPromise`), and with it `ContinuationsToldOnce` (`ToldOnce`) and
`TakenBackStays` (`StaysTakenBack`).  `EffectLemma` shows once that every step
of the library has one of nine effects on requests (a request is made, taken
back, expires, is sent, ...); everything after it is about effects, and the
queue and the connection are gone.  `RInv` adds what `IInv` does not say of
continuations: a request whose timer is still scheduled has been told nothing
(`ToldShape`), a timer that outlives the disconnection finds no continuation
(`ClosedShape`), and what was taken back has neither a timer nor a message
(`TakenShape`).  Each effect then maps to an action of `MqttRequests` or to a
stutter.

`MqttApiLinkProofs` proves `ListensToService` (`ReceiveArmed`), with the
strengthening that a set `in_receive` on a live connection means that a receive
is outstanding.  It also proves `NothingIsUnmatched` (`NoUnmatched`) and
`UnsubscribeComesLast` (`NeverOvertaken`), from `DInv`: an acknowledgement is
the last of its subscription, that is, nothing of it follows in the link to the
library, no SUBSCRIBE or UNSUBSCRIBE of it is left in the link to the service,
which has forgotten it (`LastOfIt`), and all else in the link is of
subscriptions in the list (`Listed`).  What one step of the library can do to
its connection and to its requests (`LibraryMovesConnection`,
`LibraryMovesRequests`) is stated there once, for the proofs about the
composition.

### Service

`MqttServiceProofs`: `IInv` is the conjunction of `TypeOK`, `OwnersAlive`,
`NothingLeftBehind` and `RequestOutstanding`, which is inductive as it stands
(each of the three needs the others: a subscription's `ClientInfo` exists only
while its client is connected, and a queue is filled only for a `ClientInfo` in
the list).  `SubscriptionsHaveOwners`, `NothingIsLeftBehind` and
`RequestIsOutstanding` follow.  `AnnouncedExactly` (`AnnouncementEnds`) holds
under every event, and `MonitorsEnd` (`MonitorsStopped`) where a lookup finds
one accepting state at most: that monitors and unanswered lookups are of
subscriptions in the list is inductive then.  `NeverUndefined`
(`ServiceSurvives`) is about environments in which nothing fails, and rests on
`Untroubled`: every id that was issued and not ended is still held.

It also proves `DeliveredInOrder` (`InOrder`) and `AcknowledgedLast`
(`AckIsLast`).  A client's stream is what is on its wire and
in its queue.  `StreamInv` adds what the two properties need.  `SoundInv`
holds whoever sends an UNSUBSCRIBE: messages belong to the client whose stream
they are on, their ids have been issued (so that a new subscription is not on a
stream already), and their numbers are not ahead of what has come in.  `AckInv`
holds because a client ends its own subscriptions only, which a library that
has reconnected does not; the proofs about the composition use `SoundInv`.

`MqttPublisherProofs` proves `TypeCorrect`, `ChannelsAreDistinct`
(`ChannelsDistinct`), `SearchersReachPublisher` (`SearchersReach`) and
`StatesStayAnnounced` (`StatesAnnounced`).  `Reaches` adds to `SearchersReach`
that a message is queued on one channel only, so that no later broadcast of
another channel's queue takes it there.  That a search of the list which finds
nothing means that no channel serves the topic needs a largest element of a
set of positions, which `LargestLemma` gets from the well-foundedness of `<`.

`DllProofs` shows what putting, appending, taking and unlinking an element does
to a list without duplicates; the proofs about the library cite these lemmas.
All rest on the theorem modules about sequences and finite sets.

### Library and service together

`MqttSystemProofs` instantiates the proofs about both components, whose `IInv`,
`DInv` and `SoundInv` each step of the composition keeps, and adds to them what
relates the two sides (`Inv`, theorem `Invariance`):

* `LinkInv` and `OpenInv` say which connections there are: the current one is
  the last one made, the service has it as a client, and there is a second one
  only where connections may break.
* `IdInv` says that a subscription's id is used over one connection only, that
  an UNSUBSCRIBE that was sent ends its request for good, and that it is not
  sent ahead of the SUBSCRIBE of its id, although the library sends its queue in
  another order than it was filled.
* `HoldInv` says that wherever, on the first connection, an UNSUBSCRIBE is sent,
  queued or may still be asked for, the service holds the subscription, or will
  when it reads the SUBSCRIBE that is ahead, or no longer reads the connection.
* `GoneInv` says that a subscription of the current connection that the service
  no longer holds is off the library's list, or its acknowledgement is on the
  stream, or the service has given the connection up.

`ServiceKeepsUp` (`ServiceSurvives`) follows from `HoldInv` and the order in
`IdInv`, `SidesAgree` (`InSync`) from `GoneInv` and `DInv`.  `HoldInv` is about
the first connection only because it is false of the next: a subscription is
not made again, and may be unsubscribed.

`LibraryIsServed` (`LibraryView`) is a refinement: every behaviour of the
composition is one of `MqttApi`.  A step of the service is, for the library, a
message read, an acknowledgement, copies of a PUBLISH, or nothing at all: so is
a message read from a connection the library has closed, unless it is an
UNSUBSCRIBE whose subscription belongs to the current one, which `IdInv`
excludes, and so is a copy for a subscription of an earlier connection.
`StreamBound` shows that the service never has more for the library than
`MqttApi` lets come in.  With `LibraryIsServed` what is proved of the library in
`MqttApi` is proved of it with the real service.

### Topic filters and the delivery of a message

What is heard is stated of a PUBLISH that has come in at the subscriber's peer
(`Delivered`); how it gets there is not claimed.  `MqttDeliveryProofs` proves
`MemoryIsSafe` (`MemorySafe`), `ArrivesAsPublished`
(`HeardAsPublished`), `HearsOnlyCovered` (`HeardOnlyIfCovered`),
`HearsAllCovered` (`HeardIfCovered`) and `TypeCorrect` (`TypeOK`), for strings
of every length and any number of levels.  Three assumptions are those of C
strings: filters and topics have no NUL inside, no item of them stands for
several characters, which also keeps the text of the prefix out of them, and
payloads are sequences (`StringsAssumption`, `PayloadsAssumption`).
`AlphanumericAssumption` says that no group names the `/`, and `NoneAssumption`
that `None` is no input and no message.

`get_regex` and the lengths of its buffer are folds.  The library's facts about
folds are no help, since they are about an operator; `FoldExists` shows instead
that the function a fold chooses exists, for the positions of one sequence,
and `RegexSteps` and `StrlenSteps` that it goes through the sequence item by
item.  What holds after `k` items for every `k` is then a set of numbers, and
`UpToInduction` shows that it has all of them.  `RegexLength` is the result: the
expression of a filter has 23 characters for the prefix, one for each of the
filter, 125 more for each `+` and 128 more for each `#`, because what a `#` takes
back is always one character, also of a group that stands before it
(`StepBackLength`; two `#` in a row included).  The length that `get_regex`
computes counts a `#` once, so it is enough exactly if there is one at the most
(`BufferLemma`, an equivalence: `MemorySafe` excludes no more than it must).

The inductive invariant `DInv` says of each thing on the way what it is made of:
the expression of what the service got of the filter (`Compiled`), the message
of what was published (`InNetwork`), what was heard of what arrives of it
(`Heard`).  `MessageLemma` and `ExtractOf` show that the copies undo each other:
the payload always comes out as it went in, and the topic if `topic_len` could
hold its length.  For the last two theorems it also says that what was heard
matches the expression and what was delivered without being heard does not
(`Heard`, `Unheard`): what a step decided stays true until the next PUBLISH.

What is left is that a topic matches the expression of a well-formed filter
exactly if the filter covers it, which is `MatchIsCovered` and
`CoveredIsMatch`.  The argument has four parts.

1. *Levels.*  `CutsExist` shows that every string has cuts: increasing positions
   `c[1], ..., c[m + 1]`, the first before the string, the last behind it, and
   the others its `/`.  `CoversLevels` says what `Covers` says with the cuts of
   filter and topic.
2. *The expression.*  `ShapeLemma` shows by induction over the filter that its
   expression is the prefix, an item for each character up to a final `/#`, and
   the group of the `#` in place of that `/#`.
3. *Matching.*  `Ends` is a recursive function on sets; `EndsChain` shows that it
   has the ends of chains of positions in which each item matches between two
   of them.  A chain for the whole expression is a walk of the filter through
   the topic after the prefix, which only matches at the beginning
   (`MatchIsWalk`), and a walk is a match that starts there and is therefore the
   leftmost (`WalkIsMatch`).
4. *Walks and levels.*  That a walk leads from the beginning of each level of the
   filter to the beginning of the same level of the topic is proved by induction
   over the levels (`LevelWalk`): the characters of a name are matched one by
   one, and the group of a `+` cannot pass a `/`; so it has to stop where its
   level ends (`NextCut`).  That gives `WalkIsCovered`.  The other way,
   `CoveredIsWalk` puts the walks of the levels (`LevelPositions`) together, and
   `HashSpansLevels` lets the group of a `#` match all the levels that remain.

`HearsOnlyCovered` needs nothing of the topic's characters; `HearsAllCovered`
needs `Plain`, since the groups name letters and digits only.

### Only model-checked

Every liveness property: liveness under fairness is out of this prover's reach
and stays with TLC.  Every safety invariant and action property of the passing
runs has a theorem.  The four runs that expect a violation are counterexamples,
and need no proof.

## 6. What the models found

Each of these is a run that expects a violation.

* `api_retry`: a reconnection attempt that fails is never made again
  (`try_reconnect`, `mqtt_api.c:295`), although `retry_time` is documented for
  back-off on connect errors.  Every later request stays queued.
* `api_promise`: the application is never told that its PUBLISH was transmitted,
  although the header promises `GNUNET_OK` for it (`gnunet_mqtt_service.h:85`
  and 104): the PUBLISH message has no continuation of its own
  (`mqtt_api.c:843`), and the application's is called on a timeout only.
* `publisher_topic`: a topic that is a prefix of a channel's topic is broadcast
  on that channel (`gnunet-service-mqtt.c:1088`).
* `delivery_search`: the publisher searches the DHT for the topic without the
  prefix that every announced expression starts with, so that no search finds
  a subscriber (`gnunet-service-mqtt.c:1045`).

Other behaviour that the models have and that is worth knowing:

* On `GNUNET_MQTT_disconnect` a SUBSCRIBE that was never transmitted is told
  `GNUNET_OK` (`mqtt_api.c:381`), which the header keeps for one that was
  transmitted (`gnunet_mqtt_service.h:137`): the departure `close_told` of
  `MqttRequests`.
* A SUBSCRIBE that times out frees its handle and leaves it in the list of
  subscriptions (`mqtt_api.c:447`); `ph->pending` still points to the message
  after it was transmitted and freed, and a cancellation trusts it
  (`mqtt_api.c:691` and 869); unsubscribing while the SUBSCRIBE is queued takes
  the message back and frees nothing else (`mqtt_api.c:984`);
  `GNUNET_MQTT_disconnect` leaves timers and the reconnection scheduled
  (`mqtt_api.c:391`); a request that is refused inside `transmit_pending` makes
  it receive from a NULL client (`mqtt_api.c:687`).  All but the leak at 984
  make the model `undefined`.
* `subscription_free` stops one DHT monitor and leaves the others of its
  subscription running without a record (`gnunet-service-mqtt.c:700`), or
  follows freed memory.  `MonitorsStopped` says that nothing else is left: with
  one accepting state no monitor outlives its subscription.
* `monitor_accepting_states_for_subscription_cb` iterates over the accepting
  states although they may be NULL (`gnunet-service-mqtt.c:1395`).
* An UNSUBSCRIBE for an id that the service does not hold makes it read a NULL
  subscription (`gnunet-service-mqtt.c:1669`).  A library that unsubscribes
  after a reconnection may send one, since subscriptions are not made again; it
  does not if the service still serves the old connection, where the
  subscription is then found, freed and acknowledged over the new one
  (`ServiceReadStale`).
* The test for an accepting state that is already announced compares addresses
  and never holds, so that one found again is added and announced again
  (`gnunet-service-mqtt.c:959`).
* A channel's messages are never removed: each PUBLISH broadcasts all earlier
  ones of its channel again (`gnunet-service-mqtt.c:1140`).
* A SUBSCRIBE whose lookup does not start leaves its announcement in the DHT
  (`gnunet-service-mqtt.c:1511`).  `AnnouncementEnds` is about subscriptions
  that were made.
* The filter `#` alone matches nothing, because its `#` takes back the last
  character of the prefix; a `.` in a filter matches any character; two `#`
  write more than `get_regex` allocates (`gnunet-service-mqtt.c:585`).
  `HeardIfCovered` and `MemorySafe` of `MqttDelivery` name these cases.
  `WellFormed` leaves the `.` out, and the other characters to which `regcomp`
  gives a meaning and `get_regex` does nothing (`Special`).
* `match_subcriber_regex` compares the end of a match with the end of the topic,
  and not its beginning with the topic's (`gnunet-service-mqtt.c:1721`).  A topic
  that ends with the text of the prefix and something that a filter covers
  matches from inside.  `StringsAssumption` keeps that text out of topics.
* A topic of 255 characters has a `topic_len` of 0, and its NUL is written
  before its buffer; so is that of an empty payload.  A longer topic is cut.
  Of a payload with a NUL inside, what follows is lost.  `Fits` and
  `Terminated` name these cases.
* The size of an UNSUBSCRIBE and of its acknowledgement is written in host byte
  order (`mqtt_api.c:1007`, `gnunet-service-mqtt.c:1684`).  Where that differs
  from network order, 3072 bytes are copied from a 12-byte message, on every
  UNSUBSCRIBE.  Where those bytes can be read the protocol goes on: both
  receivers accept the longer message (their handlers expect no size, line 1940
  of the service) and read its first fields only.  Where they cannot the models
  are `undefined` (`TransmitPastEnd`, `SendPastEnd`).
* The message queued for a multicast is a copy of the struct without the topic
  and the payload that follow it (`gnunet-service-mqtt.c:1131`), and nothing
  sends a PUBLISH over mesh.  No property claims that a message gets from one
  peer to another: `MqttDelivery` starts at both ends.

## 7. What is left

* The 64k limit of a message.
* Continuations that call back into the library, which the interface neither
  allows nor forbids.
