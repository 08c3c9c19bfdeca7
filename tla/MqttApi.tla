------------------------------- MODULE MqttApi -------------------------------
(***************************************************************************)
(* The MQTT client library (src/src/mqtt/mqtt_api.c): one handle, its      *)
(* queue of messages to the service, its request handles, its timers and   *)
(* the connection it re-establishes, driven by an application that keeps   *)
(* the documented contract and by a service at the other end of the link.  *)
(*                                                                         *)
(* A pointer is a Boolean or a member of a set: client and th are TRUE     *)
(* when the pointer is not NULL, a request is its id, and hasPending,      *)
(* cont, unsubscribing and timers are the ids of the request structs whose *)
(* field of that name is set.  Topics, payloads and sizes are left out.    *)
(* Every step runs to its end in the scheduler's only thread.              *)
(***************************************************************************)
EXTENDS Dll

CONSTANTS
    MaxRequests,   \* bound: PUBLISH and SUBSCRIBE calls of the application
    MaxIncoming,   \* bound: messages from the service not yet received
    Env            \* the environment events that may happen, see Events

(***************************************************************************)
(* lost         the connection breaks: receive or transmit reports NULL    *)
(* refused      GNUNET_CLIENT_notify_transmit_ready returns NULL           *)
(* unreachable  GNUNET_CLIENT_connect returns NULL                         *)
(* publish_timeout, subscribe_timeout   a request's timer expires          *)
(* cancel       the application calls GNUNET_MQTT_publish_cancel           *)
(* disconnect   the application calls GNUNET_MQTT_disconnect               *)
(* overread     bytes behind the memory of a message cannot be read        *)
(***************************************************************************)
Events == {"lost", "refused", "unreachable", "publish_timeout",
           "subscribe_timeout", "cancel", "disconnect", "overread"}

ASSUME MaxRequestsAssumption == MaxRequests \in Nat \ {0}
ASSUME MaxIncomingAssumption == MaxIncoming \in Nat \ {0}
ASSUME EnvAssumption == Env \subseteq Events

VARIABLES
    handle,          \* "unset", "open", or "freed"
    client,          \* handle->client # NULL
    th,              \* handle->th # NULL
    in_receive,      \* handle->in_receive
    reconnect_task,  \* handle->reconnect_task # NO_TASK
    uid_gen,         \* requests made so far; their ids are 1..uid_gen
    pending,         \* handle->pending_head .. pending_tail
    subscribed,      \* handle->subscribe_head .. subscribe_tail
    subs,            \* ids made by GNUNET_MQTT_subscribe
    hasPending,      \* ids whose handle has a non-NULL pending
    unsubscribing,   \* ids with sh->unsubscribing
    cont,            \* ids whose handle has a non-NULL cont
    timers,          \* ids whose timeout task is scheduled
    freed,           \* ids whose PublishHandle or SubscribeHandle is freed
    told,            \* what each request's continuation has been called with
    released,        \* ids the application unsubscribed or cancelled
    toService,       \* messages in the link, not yet read by the service
    toClient,        \* messages in the link, not yet received
    receiving,       \* a GNUNET_CLIENT_receive is outstanding
    remote,          \* subscriptions the service holds for this connection
    undefined        \* memory was used that is freed, NULL or behind a
                     \* message: from here on the source does not say what
                     \* the process does

connVars == <<client, th, in_receive, reconnect_task>>
linkVars == <<toService, toClient, remote, receiving>>
reqVars  == <<uid_gen, subs, unsubscribing, cont, timers, freed, hasPending>>
appVars  == <<told, released>>
vars == <<handle, connVars, pending, subscribed, reqVars, appVars, linkVars,
          undefined>>

Req == 1..MaxRequests
Kind == {"publish", "subscribe", "unsubscribe"}
Message == [kind : Kind, id : Req]
Incoming == [kind : {"publish", "ack"}, id : Req]

Msg(kind, id) == [kind |-> kind, id |-> id]

-----------------------------------------------------------------------------
(* Helpers *)

\* Take message m out of the queue.
LeaveQueued(m) == pending   \* mutant: it is freed but not unlinked
Dequeue(m) == Unlink(pending, m)

Queued(id) == \E m \in ToSet(pending) : m.id = id

\* Cancel the timeout task of id.
KeepTimer(id) == timers     \* mutant: the task stays scheduled
CancelTimer(id) == timers \ {id}

\* mark_subscribe_message_gone sets cont to NULL once it is called.
KeepCont(ids) == cont       \* mutant: it is kept
ClearCont(ids) == cont \ ids

\* Call the continuation of id with the given result, if it has one.
TellError(id, result) ==    \* mutant: every result is an error
    told' = [told EXCEPT ![id] =
                IF id \in cont THEN Append(@, "syserr") ELSE @]
TellNobody(id, result) ==   \* mutant: the continuation is not called
    UNCHANGED told
Tell(id, result) ==
    told' = [told EXCEPT ![id] =
                IF id \in cont THEN Append(@, result) ELSE @]

(***************************************************************************)
(* GNUNET_CLIENT_disconnect: what is in the link is lost, a receive is     *)
(* cancelled, and the service drops the connection's subscriptions.        *)
(***************************************************************************)
CloseLink ==
    /\ toService' = <<>>
    /\ toClient' = <<>>
    /\ remote' = {}
    /\ receiving' = FALSE

\* do_disconnect, called with a client; without one it returns at once.
DisconnectForGood ==        \* mutant: no reconnection is scheduled
    /\ client' = FALSE
    /\ th' = FALSE
    /\ UNCHANGED reconnect_task
    /\ CloseLink
DoDisconnect ==
    /\ client' = FALSE
    /\ th' = FALSE
    /\ reconnect_task' = TRUE
    /\ CloseLink

\* try_connect expects no receive on the new connection.
KeepReceive == UNCHANGED in_receive        \* mutant: the flag stays
ResetReceive == in_receive' = FALSE

\* try_reconnect is no longer scheduled once it runs.
KeepReconnect == UNCHANGED reconnect_task  \* mutant: it is remembered
ReconnectDone == reconnect_task' = FALSE

(***************************************************************************)
(* process_pending_messages, called with t for th, q for the queue, out    *)
(* for the messages in the link and rcv for receiving: no request to make, *)
(* a request made, or a request refused.  That a request may be repeated   *)
(* once by GNUNET_CLIENT (auto_retry) before it reports NULL is left out.  *)
(***************************************************************************)
NeedsRequestIfFirst(t, q) ==   \* mutant: only for the first message queued
    client /\ ~t /\ Len(q) = 1
NeedsRequest(t, q) == client /\ ~t /\ q # <<>>

ProcessPending(t, q, out, rcv) ==
    \/ /\ th' = (t \/ NeedsRequest(t, q))
       /\ toService' = out
       /\ receiving' = rcv
       /\ UNCHANGED <<client, reconnect_task, toClient, remote>>
    \/ /\ NeedsRequest(t, q)
       /\ "refused" \in Env
       /\ DoDisconnect

\* Memory is used that is freed, NULL or behind a message.
Undefined ==
    /\ undefined' = TRUE
    /\ UNCHANGED <<handle, connVars, pending, subscribed, reqVars, appVars,
                   linkVars>>

-----------------------------------------------------------------------------
Init ==
    /\ handle = "unset"
    /\ client = FALSE
    /\ th = FALSE
    /\ in_receive = FALSE
    /\ reconnect_task = FALSE
    /\ uid_gen = 0
    /\ pending = <<>>
    /\ subscribed = <<>>
    /\ subs = {}
    /\ hasPending = {}
    /\ unsubscribing = {}
    /\ cont = {}
    /\ timers = {}
    /\ freed = {}
    /\ told = [id \in Req |-> <<>>]
    /\ released = {}
    /\ toService = <<>>
    /\ toClient = <<>>
    /\ remote = {}
    /\ receiving = FALSE
    /\ undefined = FALSE

(***************************************************************************)
(* The application's calls.                                                *)
(***************************************************************************)

\* GNUNET_MQTT_connect; if the first connection fails the handle is freed.
Connect ==
    /\ handle = "unset"
    /\ \/ handle' = "open" /\ client' = TRUE
       \/ /\ "unreachable" \in Env
          /\ handle' = "freed" /\ UNCHANGED client
    /\ ResetReceive
    /\ UNCHANGED <<th, reconnect_task, pending, subscribed,
                   reqVars, appVars, linkVars, undefined>>

(***************************************************************************)
(* GNUNET_MQTT_publish, with or without a continuation.  The message is    *)
(* put at the head of the queue.                                           *)
(***************************************************************************)
Publish(withCont) ==
    /\ handle = "open"
    /\ uid_gen < MaxRequests
    /\ uid_gen' = uid_gen + 1
    /\ cont' = IF withCont THEN cont \union {uid_gen'} ELSE cont
    /\ timers' = timers \union {uid_gen'}
    /\ hasPending' = hasPending \union {uid_gen'}
    /\ pending' = Cons(Msg("publish", uid_gen'), pending)
    /\ ProcessPending(th, pending', toService, receiving)
    /\ UNCHANGED <<handle, in_receive, subscribed, subs, unsubscribing,
                   freed, appVars, undefined>>

(***************************************************************************)
(* GNUNET_MQTT_subscribe.  The handle goes to the tail of the list of      *)
(* subscriptions, which writes to the handle that was last.                *)
(***************************************************************************)
Subscribe(withCont) ==
    /\ handle = "open"
    /\ uid_gen < MaxRequests
    /\ subscribed # <<>> => subscribed[Len(subscribed)] \notin freed
    /\ uid_gen' = uid_gen + 1
    /\ subs' = subs \union {uid_gen'}
    /\ cont' = IF withCont THEN cont \union {uid_gen'} ELSE cont
    /\ timers' = timers \union {uid_gen'}
    /\ hasPending' = hasPending \union {uid_gen'}
    /\ pending' = Cons(Msg("subscribe", uid_gen'), pending)
    /\ subscribed' = Append(subscribed, uid_gen')
    /\ ProcessPending(th, pending', toService, receiving)
    /\ UNCHANGED <<handle, in_receive, unsubscribing, freed, appVars,
                   undefined>>

\* GNUNET_MQTT_subscribe after the last handle of the list was freed.
SubscribeAfterFreed ==
    /\ handle = "open"
    /\ uid_gen < MaxRequests
    /\ subscribed # <<>> /\ subscribed[Len(subscribed)] \in freed
    /\ Undefined

(***************************************************************************)
(* GNUNET_MQTT_publish_cancel, which serves to prevent a continuation that *)
(* has not run yet.  A message still queued is unlinked and its timer      *)
(* cancelled.                                                              *)
(***************************************************************************)
MayCancel(id) ==
    /\ "cancel" \in Env
    /\ handle = "open"
    /\ id \in cont \ subs
    /\ id \notin released
    /\ told[id] = <<>>
    /\ id \in hasPending

PublishCancel(id) ==
    /\ MayCancel(id)
    /\ Queued(id)
    /\ released' = released \union {id}
    /\ timers' = CancelTimer(id)
    /\ hasPending' = hasPending \ {id}
    /\ pending' = Dequeue(Msg("publish", id))
    /\ UNCHANGED <<handle, connVars, subscribed, uid_gen, subs,
                   unsubscribing, cont, freed, told, linkVars, undefined>>

\* ph->pending was freed by transmit_pending and not set to NULL.
PublishCancelDangling(id) ==
    /\ MayCancel(id)
    /\ ~Queued(id)
    /\ Undefined

(***************************************************************************)
(* GNUNET_MQTT_unsubscribe, called at most once for a subscription that    *)
(* has not been reported as timed out.                                     *)
(***************************************************************************)
MayUnsubscribe(id) ==
    /\ handle = "open"
    /\ id \in subs
    /\ id \notin released
    /\ "no" \notin ToSet(told[id])

\* sh->pending tells a SUBSCRIBE that is still queued from one that is gone.
NeverQueued(id) == FALSE     \* mutant: sh->pending is not looked at
StillQueued(id) == id \in hasPending

\* The SUBSCRIBE message is still queued: it is taken back.
Withdraw(id) ==
    /\ MayUnsubscribe(id)
    /\ id \notin freed
    /\ StillQueued(id)
    /\ released' = released \union {id}
    /\ timers' = CancelTimer(id)
    /\ hasPending' = hasPending \ {id}
    /\ pending' = Dequeue(Msg("subscribe", id))
    /\ UNCHANGED <<handle, connVars, subscribed, uid_gen, subs,
                   unsubscribing, cont, freed, told, linkVars, undefined>>

\* The SUBSCRIBE message is gone: an UNSUBSCRIBE message is queued.
Unsubscribe(id) ==
    /\ MayUnsubscribe(id)
    /\ id \notin freed
    /\ ~StillQueued(id)
    /\ released' = released \union {id}
    /\ unsubscribing' = unsubscribing \union {id}
    /\ hasPending' = hasPending \union {id}
    /\ pending' = Cons(Msg("unsubscribe", id), pending)
    /\ ProcessPending(th, pending', toService, receiving)
    /\ UNCHANGED <<handle, in_receive, subscribed, uid_gen, subs, cont,
                   timers, freed, told, undefined>>

\* subscribe_timeout freed the handle and there was no continuation to say so.
UnsubscribeFreed(id) ==
    /\ MayUnsubscribe(id)
    /\ id \in freed
    /\ Undefined

(***************************************************************************)
(* GNUNET_MQTT_disconnect: every queued message is dropped, and what       *)
(* leaves the queue runs mark_subscribe_message_gone or                    *)
(* mark_unsubscribe_message_gone.  Timers and reconnect_task stay.         *)
(***************************************************************************)
Disconnect ==
    /\ "disconnect" \in Env
    /\ handle = "open"
    /\ handle' = "freed"
    /\ client' = FALSE
    /\ th' = FALSE
    /\ pending' = <<>>
    /\ LET gone == {id \in cont : Msg("subscribe", id) \in ToSet(pending)}
       IN  /\ told' = [id \in Req |-> IF id \in gone
                                      THEN Append(told[id], "ok")
                                      ELSE told[id]]
           /\ cont' = ClearCont(gone)
    /\ hasPending' = hasPending \ subs
    /\ CloseLink
    /\ UNCHANGED <<in_receive, reconnect_task, subscribed, uid_gen, subs,
                   unsubscribing, timers, freed, released, undefined>>

-----------------------------------------------------------------------------
(***************************************************************************)
(* The library's scheduled tasks.                                          *)
(***************************************************************************)

\* publish_timeout: the message was not transmitted in time.
PublishTimeout(id) ==
    /\ "publish_timeout" \in Env
    /\ id \in timers \ subs
    /\ handle = "open"
    /\ timers' = timers \ {id}
    /\ pending' = Dequeue(Msg("publish", id))
    /\ Tell(id, "no")
    /\ freed' = freed \union {id}
    /\ UNCHANGED <<handle, connVars, subscribed, uid_gen, subs,
                   unsubscribing, cont, hasPending, released, linkVars,
                   undefined>>

\* publish_timeout once the handle and the message are freed.
PublishTimeoutAfterDisconnect(id) ==
    /\ "publish_timeout" \in Env
    /\ id \in timers \ subs
    /\ handle = "freed"
    /\ Undefined

(***************************************************************************)
(* subscribe_timeout.  The handle is freed and stays in the list of        *)
(* subscriptions.  After GNUNET_MQTT_disconnect there is no message to     *)
(* unlink and no continuation to call.                                     *)
(***************************************************************************)
SubscribeTimeout(id) ==
    /\ "subscribe_timeout" \in Env
    /\ id \in timers \intersect subs
    /\ timers' = timers \ {id}
    /\ pending' = IF id \in hasPending
                  THEN Dequeue(Msg("subscribe", id)) ELSE pending
    /\ Tell(id, "no")
    /\ freed' = freed \union {id}
    /\ UNCHANGED <<handle, connVars, subscribed, uid_gen, subs,
                   unsubscribing, cont, hasPending, released, linkVars,
                   undefined>>

\* try_reconnect and try_connect; a failed attempt is not rescheduled.
Reconnect ==
    /\ reconnect_task
    /\ handle = "open"
    /\ ResetReceive
    /\ \/ /\ client' = TRUE
          /\ ReconnectDone
          /\ th' = (th \/ pending # <<>>)
          /\ UNCHANGED linkVars
       \/ /\ pending # <<>>
          /\ "refused" \in Env
          /\ DoDisconnect
       \/ /\ "unreachable" \in Env
          /\ ReconnectDone
          /\ UNCHANGED <<client, th, linkVars>>
    /\ UNCHANGED <<handle, pending, subscribed, reqVars, appVars, undefined>>

\* try_reconnect after GNUNET_MQTT_disconnect freed the handle.
ReconnectAfterDisconnect ==
    /\ reconnect_task
    /\ handle = "freed"
    /\ Undefined

-----------------------------------------------------------------------------
(***************************************************************************)
(* transmit_pending.                                                       *)
(***************************************************************************)

\* wait_for_response: a PUBLISH is the one request that expects no answer.
WaitForNone(m) == m.kind = "publish"       \* mutant: the flag is inverted
WaitForResponse(m) == m.kind # "publish"

(***************************************************************************)
(* The head of the queue is written to the link.  Its continuation is      *)
(* mark_subscribe_message_gone, mark_unsubscribe_message_gone, or, for a   *)
(* PUBLISH, NULL: then the PublishHandle is told nothing.                  *)
(***************************************************************************)
Transmit ==
    LET m == Head(pending)
        done == IF m.kind = "subscribe" THEN {m.id} ELSE {}
    IN  /\ client /\ th /\ pending # <<>>
        /\ pending' = Tail(pending)
        /\ IF m.kind = "subscribe" THEN Tell(m.id, "ok") ELSE UNCHANGED told
        /\ cont' = ClearCont(done)
        /\ hasPending' = IF m.kind = "publish" THEN hasPending
                                               ELSE hasPending \ {m.id}
        /\ timers' = CancelTimer(m.id)
        /\ in_receive' = (in_receive \/ WaitForResponse(m))
        /\ ProcessPending(FALSE, pending', Append(toService, m),
                          receiving \/ in_receive' # in_receive)
        /\ in_receive' # in_receive => client'
        /\ UNCHANGED <<handle, subscribed, uid_gen, subs, unsubscribing,
                       freed, released, undefined>>

\* ntohs of a little-endian host: the two bytes of a size change places.
ntohs(n) == (n % 256) * 256 + n \div 256

\* How many bytes from behind the message m are written to the link with it:
\* the size of an UNSUBSCRIBE, 12 bytes, is stored without htons.
PastEnd(m) == IF m.kind = "unsubscribe" THEN ntohs(12) - 12 ELSE 0

\* Those bytes cannot be read.  When they can, Transmit is what happens.
TransmitPastEnd ==
    /\ client /\ th /\ pending # <<>>
    /\ PastEnd(Head(pending)) > 0
    /\ "overread" \in Env
    /\ Undefined

\* The next request is refused, and GNUNET_CLIENT_receive gets a NULL client.
TransmitRefused ==
    /\ client /\ th /\ Len(pending) > 1
    /\ "refused" \in Env
    /\ WaitForResponse(Head(pending)) /\ ~in_receive
    /\ Undefined

\* What was queued when the request was made is gone.
TransmitEmpty ==
    /\ client /\ th /\ pending = <<>>
    /\ th' = FALSE
    /\ UNCHANGED <<handle, client, in_receive, reconnect_task, pending,
                   subscribed, reqVars, appVars, linkVars, undefined>>

\* The head of the queue is longer than the one the request was made for.
TransmitShort ==
    /\ client /\ th /\ pending # <<>>
    /\ ProcessPending(FALSE, pending, toService, receiving)
    /\ UNCHANGED <<handle, in_receive, pending, subscribed, reqVars, appVars,
                   undefined>>

\* The buffer is NULL.
TransmitFail ==
    /\ client /\ th
    /\ "lost" \in Env
    /\ DoDisconnect
    /\ UNCHANGED <<handle, in_receive, pending, subscribed, reqVars, appVars,
                   undefined>>

-----------------------------------------------------------------------------
(***************************************************************************)
(* service_message_handler.                                                *)
(***************************************************************************)

\* The search for id in the list of subscriptions visits positions 1 to here.
SearchEnd(id) ==
    IF id \in ToSet(subscribed) THEN IndexOf(subscribed, id)
                                   ELSE Len(subscribed)

\* The search meets a freed handle.
SearchMeetsFreed(id) ==
    \E i \in 1..SearchEnd(id) : subscribed[i] \in freed

\* Unlinking id also writes to the handle after it.
UnlinkMeetsFreed(id) ==
    /\ SearchEnd(id) < Len(subscribed)
    /\ subscribed[SearchEnd(id) + 1] \in freed

Receiving(kind, id) ==
    /\ client /\ receiving
    /\ toClient # <<>>
    /\ Head(toClient) = Msg(kind, id)

\* The connection broke: the message is NULL.
ReceiveNull ==
    /\ client /\ receiving
    /\ "lost" \in Env
    /\ DoDisconnect
    /\ UNCHANGED <<handle, in_receive, pending, subscribed, reqVars, appVars,
                   undefined>>

\* process_incoming_publish_message: sh->cb is called, or there is no sh.
ReceivePublish(id) ==
    /\ Receiving("publish", id)
    /\ ~SearchMeetsFreed(id)
    /\ IF id \in ToSet(subscribed)
       THEN /\ toClient' = Tail(toClient)
            /\ UNCHANGED <<client, th, reconnect_task, toService, remote,
                           receiving>>
       ELSE DoDisconnect
    /\ UNCHANGED <<handle, in_receive, pending, subscribed, reqVars, appVars,
                   undefined>>

\* The list of subscriptions without the handle that was found.
UnlinkFirst(id) == Tail(subscribed)        \* mutant: without its head
UnlinkFound(id) == Unlink(subscribed, id)

\* process_unsubscribe_ack: the handle is unlinked and freed.
ReceiveAck(id) ==
    /\ Receiving("ack", id)
    /\ ~SearchMeetsFreed(id) /\ ~UnlinkMeetsFreed(id)
    /\ IF id \in ToSet(subscribed)
       THEN /\ subscribed' = UnlinkFound(id)
            /\ freed' = freed \union {id}
            /\ toClient' = Tail(toClient)
            /\ UNCHANGED <<client, th, reconnect_task, toService, remote,
                           receiving>>
       ELSE /\ DoDisconnect
            /\ UNCHANGED <<subscribed, freed>>
    /\ UNCHANGED <<handle, in_receive, pending, uid_gen, subs, unsubscribing,
                   cont, timers, hasPending, appVars, undefined>>

\* The list of subscriptions is walked through a freed handle.
ReceiveOverFreed(id) ==
    /\ \/ Receiving("publish", id) /\ SearchMeetsFreed(id)
       \/ /\ Receiving("ack", id)
          /\ SearchMeetsFreed(id) \/ UnlinkMeetsFreed(id)
    /\ Undefined

-----------------------------------------------------------------------------
(***************************************************************************)
(* The service at the other end of the link, as far as the library can     *)
(* tell (handle_mqtt_publish, handle_mqtt_subscribe,                       *)
(* handle_mqtt_unsubscribe, deliver_incoming_publish).                     *)
(***************************************************************************)

\* An UNSUBSCRIBE for an id the service does not hold is never completed.
ServiceRead ==
    LET m == Head(toService)
    IN  /\ toService # <<>>
        /\ m.kind = "unsubscribe" => m.id \in remote
        /\ toService' = Tail(toService)
        /\ remote' = CASE m.kind = "subscribe" -> remote \union {m.id}
                       [] m.kind = "unsubscribe" -> remote \ {m.id}
                       [] m.kind = "publish" -> remote
        /\ toClient' = IF m.kind = "unsubscribe"
                       THEN Append(toClient, Msg("ack", m.id)) ELSE toClient
        /\ UNCHANGED <<handle, connVars, pending, subscribed, reqVars,
                       appVars, receiving, undefined>>

\* The id is held for an earlier connection, whose end the service has not
\* noticed yet: handle_mqtt_unsubscribe looks among all subscriptions.
ServiceReadStale ==
    LET m == Head(toService)
    IN  /\ {"lost", "refused"} \intersect Env # {}
        /\ toService # <<>>
        /\ m.kind = "unsubscribe" /\ m.id \notin remote
        /\ toService' = Tail(toService)
        /\ toClient' = Append(toClient, Msg("ack", m.id))
        /\ UNCHANGED <<handle, connVars, pending, subscribed, reqVars,
                       appVars, remote, receiving, undefined>>

\* One PUBLISH is copied for each of the matching subscriptions ids.
ServicePush(ids) ==
    /\ Len(toClient) + Len(ids) <= MaxIncoming
    /\ IsInjective(ids)
    /\ toClient' = toClient \o [i \in DOMAIN ids |-> Msg("publish", ids[i])]
    /\ UNCHANGED <<handle, connVars, pending, subscribed, reqVars, appVars,
                   toService, remote, receiving, undefined>>

-----------------------------------------------------------------------------
Application ==
    \/ Connect
    \/ \E withCont \in BOOLEAN : Publish(withCont) \/ Subscribe(withCont)
    \/ SubscribeAfterFreed
    \/ \E id \in Req :
          \/ PublishCancel(id) \/ PublishCancelDangling(id)
          \/ Withdraw(id) \/ Unsubscribe(id) \/ UnsubscribeFreed(id)
    \/ Disconnect

Tasks ==
    \/ \E id \in Req :
          \/ PublishTimeout(id) \/ PublishTimeoutAfterDisconnect(id)
          \/ SubscribeTimeout(id)
    \/ Reconnect
    \/ ReconnectAfterDisconnect

Transmission ==
    \/ Transmit \/ TransmitPastEnd \/ TransmitRefused \/ TransmitEmpty
    \/ TransmitShort \/ TransmitFail

Reception ==
    \/ ReceiveNull
    \/ \E id \in Req :
          ReceivePublish(id) \/ ReceiveAck(id) \/ ReceiveOverFreed(id)

Service ==
    \/ ServiceRead \/ ServiceReadStale
    \/ \E n \in 1..MaxIncoming : \E ids \in [1..n -> remote] :
          ServicePush(ids)

Next ==
    /\ ~undefined
    /\ Application \/ Tasks \/ Transmission \/ Reception \/ Service

Spec == Init /\ [][Next]_vars

(***************************************************************************)
(* The scheduler runs every task that is ready: a transmission the socket  *)
(* accepts, a message that has arrived, a reconnection whose delay is      *)
(* over.  The service reads what it is sent.  Nothing makes the            *)
(* application call, a connection break or a timer win its race.           *)
(***************************************************************************)
Fairness ==
    /\ WF_vars(~undefined /\ (Transmit \/ TransmitEmpty))
    /\ WF_vars(~undefined /\ \E id \in Req :
                                ReceivePublish(id) \/ ReceiveAck(id))
    /\ WF_vars(~undefined /\ Reconnect)
    /\ WF_vars(~undefined /\ ServiceRead)

FairSpec == Spec /\ Fairness
-----------------------------------------------------------------------------
(* Properties *)

\* Every variable has its type; a continuation hears "ok" or "no": the library
\* never reports the GNUNET_SYSERR its header also names.
TypeOK ==
    /\ handle \in {"unset", "open", "freed"}
    /\ client \in BOOLEAN /\ th \in BOOLEAN /\ in_receive \in BOOLEAN
    /\ reconnect_task \in BOOLEAN
    /\ uid_gen \in 0..MaxRequests
    /\ pending \in Seq(Message)
    /\ subscribed \in Seq(Req)
    /\ subs \subseteq Req /\ hasPending \subseteq Req
    /\ unsubscribing \subseteq Req /\ cont \subseteq Req
    /\ timers \subseteq Req /\ freed \subseteq Req
    /\ told \in [Req -> Seq({"ok", "no"})] /\ released \subseteq Req
    /\ toService \in Seq(Message) /\ toClient \in Seq(Incoming)
    /\ remote \subseteq Req /\ receiving \in BOOLEAN
    /\ undefined \in BOOLEAN

(***************************************************************************)
(* GNUNET_assert (NO_TASK == handle->reconnect_task) in do_disconnect      *)
(* never fails: a connected handle has no reconnection scheduled, whatever *)
(* closed the connection and in whatever order the tasks ran.              *)
(***************************************************************************)
ReconnectExclusive == client => ~reconnect_task

(***************************************************************************)
(* No wakeup is lost: while a message is queued on a live connection, a    *)
(* transmission request is outstanding.  Every path that queues, unlinks   *)
(* or transmits a message, or reconnects, has to leave it so.              *)
(***************************************************************************)
NoLostWakeup == client /\ pending # <<>> => th

(***************************************************************************)
(* The service is listened to: once a SUBSCRIBE or an UNSUBSCRIBE is on    *)
(* the link a receive is outstanding, also after in_receive was left set   *)
(* by an earlier connection.                                               *)
(***************************************************************************)
ReceiveArmed ==
    remote # {} \/ toClient # <<>>
       \/ (\E m \in ToSet(toService) : WaitForResponse(m))
    => receiving

(***************************************************************************)
(* A queued message belongs to one live request whose handle points back   *)
(* at it, so that a timeout or a cancellation unlinks the right message    *)
(* once; and a subscription's handle never points at a message that has    *)
(* left the queue.                                                         *)
(***************************************************************************)
QueueOwned ==
    /\ \A i, j \in DOMAIN pending : pending[i].id = pending[j].id => i = j
    /\ \A m \in ToSet(pending) : m.id \in hasPending \ freed
    /\ \A id \in (hasPending \intersect subs) \ freed : Queued(id)

(***************************************************************************)
(* While the handle is open, exactly the queued PUBLISH and SUBSCRIBE      *)
(* messages have a timer: none fires for a message that left the queue,    *)
(* and none can be forgotten in it.                                        *)
(***************************************************************************)
TimerOwned ==
    handle = "open" =>
       timers = {id \in Req : \E m \in ToSet(pending) :
                    m.id = id /\ m.kind # "unsubscribe"}

(***************************************************************************)
(* A continuation is called at most once, although the transmission, the   *)
(* timeout and GNUNET_MQTT_disconnect each call it and the timer outlives  *)
(* the disconnection.                                                      *)
(***************************************************************************)
ToldOnce == \A id \in Req : Len(told[id]) <= 1

(***************************************************************************)
(* What the service sends always finds its subscription: a PUBLISH on its  *)
(* way while the application unsubscribes does not break the connection    *)
(* with "matching no subscriptions".                                       *)
(***************************************************************************)
NoUnmatched ==
    \A m \in ToSet(toClient) : m.id \in ToSet(subscribed)

(***************************************************************************)
(* What the application takes back stays back: after a PUBLISH is          *)
(* cancelled or a SUBSCRIBE withdrawn, that message is neither queued nor  *)
(* transmitted later.                                                      *)
(***************************************************************************)
TakenBack(id) == id \in released /\ id \notin unsubscribing

StaysTakenBack ==
    [][\A id \in Req : TakenBack(id) =>
          /\ ~\E m \in ToSet(pending') : m.id = id
          /\ told'[id] = told[id]]_vars

(***************************************************************************)
(* An UNSUBSCRIBE never overtakes the SUBSCRIBE it ends, on the link or in *)
(* the queue, although every message is put at the head of the queue and   *)
(* what was in the link is lost with the connection.                       *)
(***************************************************************************)
NeverOvertaken ==
    LET way == toService \o pending
    IN  \A i, j \in DOMAIN way :
           way[i].kind = "unsubscribe" /\ way[j] = Msg("subscribe", way[i].id)
           => j < i

(***************************************************************************)
(* A handle without a connection has its reconnection scheduled.  retry_   *)
(* time is documented as "Used for exponential back-off on connect-        *)
(* errors", but a connect error in try_reconnect is not retried.           *)
(***************************************************************************)
ReconnectScheduled == handle = "open" /\ ~client => reconnect_task

(***************************************************************************)
(* An open handle that lost its connection gets one again.                 *)
(***************************************************************************)
Reconnects == handle = "open" /\ ~client ~> client \/ undefined

(***************************************************************************)
(* Once the connection stays up and the application makes no more requests *)
(* (here it makes at most MaxRequests), the queue drains, newest message   *)
(* first, and the continuation of a subscription is called.  A stream of   *)
(* requests that never stops may starve the oldest message for ever.       *)
(***************************************************************************)
QueueDrains == <>[]client => []<>(pending = <<>>)

SubscriptionAnswered ==
    <>[]client => \A id \in Req :
        id \in cont \intersect subs ~> told[id] # <<>> \/ id \in released

(***************************************************************************)
(* While the connection never breaks, an UNSUBSCRIBE is acknowledged and   *)
(* the handle of the subscription freed.                                   *)
(***************************************************************************)
UnsubscribeCompletes ==
    [](handle = "open" => client) =>
        \A id \in Req : id \in unsubscribing ~> id \in freed
=============================================================================
