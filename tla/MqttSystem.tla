------------------------------ MODULE MqttSystem ------------------------------
(***************************************************************************)
(* An application's client library and the subscriber side of the service, *)
(* joined by the connections the library makes: the service of MqttApi is  *)
(* MqttService here, and a client of MqttService is one connection of the  *)
(* library.                                                                *)
(*                                                                         *)
(* The library's steps are those of MqttApi, each with what it does to the *)
(* link; the service's steps are those of MqttService, reading what was    *)
(* sent over each connection.  After the library closed a connection the   *)
(* service may go on reading what was sent over it until it notices.  A    *)
(* connection that breaks on the service's side is handled there only once *)
(* the library has noticed too; what the service would have forgotten      *)
(* earlier can reach nobody in between.                                    *)
(***************************************************************************)
EXTENDS Naturals, SequencesExt

CONSTANTS
    MaxRequests,     \* bound: PUBLISH and SUBSCRIBE calls of the application
    MaxConnections,  \* bound: connections the library makes
    MaxIncoming,     \* bound: PUBLISH messages from other peers
    Topics,          \* see MqttService
    Filters,         \* see MqttService
    LibraryEnv,      \* Env of MqttApi
    ServiceEnv       \* Env of MqttService, without "shutdown"

VARIABLES
    handle, th, in_receive, reconnect_task, uid_gen, pending, subscribed,
    subs, hasPending, unsubscribing, cont, timers, freed, told, released,
    receiving, undefined,     \* the variables of MqttApi but those of the link
    conn,                     \* the library's connection, 0 without one
    nconn,                    \* connections made so far; they count up
    sent,                     \* messages sent over each, not yet read
    up, connected, broken, clients, transmit, subscriptions, covers,
    announced, lookups, monitors, issued, asked, acked, incoming, wire,
                              \* the variables of MqttService
    replies,                  \* its pending
    crashed                   \* its undefined

libraryVars == <<handle, th, in_receive, reconnect_task, uid_gen, pending,
                 subscribed, subs, hasPending, unsubscribing, cont, timers,
                 freed, told, released, receiving, undefined>>
linkVars == <<conn, nconn, sent>>
serviceVars == <<up, connected, broken, clients, transmit, subscriptions,
                 covers, announced, lookups, monitors, issued, asked, acked,
                 incoming, wire, replies, crashed>>
vars == <<libraryVars, linkVars, serviceVars>>

Connections == 1..MaxConnections
Req == 1..MaxRequests

\* A message of the service, as the library reads it
ToLibrary(m) == [kind |-> m.kind, id |-> m.rid[2]]

\* What the library has not read of what the service has for connection k
Stream(k) == wire[k] \o replies[k]

S == INSTANCE MqttService WITH
    Clients <- Connections,
    Keys <- {},
    MaxSubscriptions <- [k \in Connections |-> MaxRequests],
    Env <- ServiceEnv,
    pending <- replies,
    undefined <- crashed

A == INSTANCE MqttApi WITH
    MaxIncoming <- MaxRequests * (MaxIncoming + 1),
    Env <- LibraryEnv,
    client <- conn # 0,
    toService <- IF conn = 0 THEN <<>> ELSE sent[conn],
    toClient <- IF conn = 0 THEN <<>>
                ELSE [i \in DOMAIN Stream(conn) |-> ToLibrary(Stream(conn)[i])],
    remote <- {r[2] : r \in {q \in subscriptions : S!Owner(q) = conn}}

ASSUME MaxRequestsAssumption == MaxRequests \in Nat \ {0}
ASSUME MaxConnectionsAssumption == MaxConnections \in Nat
ASSUME MaxIncomingAssumption == MaxIncoming \in Nat
ASSUME FiltersAssumption == Filters \subseteq SUBSET Topics
ASSUME LibraryEnvAssumption == LibraryEnv \subseteq A!Events
ASSUME ServiceEnvAssumption == ServiceEnv \subseteq S!Events

-----------------------------------------------------------------------------
(* What a step of the library does to the link *)

Quiet == UNCHANGED <<linkVars, serviceVars>>

Open ==
    /\ conn = 0
    /\ nconn < MaxConnections
    /\ nconn' = nconn + 1
    /\ conn' = nconn'
    /\ S!ClientConnects(nconn')
    /\ UNCHANGED sent

Close ==
    /\ conn # 0
    /\ conn' = 0
    /\ UNCHANGED <<nconn, sent, serviceVars>>

\* The head of the queue is sent.  If the connection is closed right after
\* it, the message may be lost (Close) or arrive.
Send ==
    /\ conn # 0
    /\ pending # <<>>
    /\ sent' = [sent EXCEPT ![conn] = Append(@, Head(pending))]
    /\ conn' \in {conn, 0}
    /\ UNCHANGED <<nconn, serviceVars>>

Read ==
    /\ conn # 0
    /\ S!ClientReads(conn)
    /\ UNCHANGED linkVars

Library ==
    \/ /\ Quiet \/ Open \/ Close
       /\ A!Application \/ A!Tasks \/ A!Transmission \/ A!Reception
    \/ Send /\ A!Transmit
    \/ Read /\ A!Reception

-----------------------------------------------------------------------------
(* What the service reads from connection k *)

NextMessage(k) == Head(sent[k])
Id(k) == <<k, NextMessage(k).id>>

Reading(k, kind) ==
    /\ sent[k] # <<>>
    /\ NextMessage(k).kind = kind
    /\ UNCHANGED <<libraryVars, conn, nconn>>

Consumed(k) == sent' = [sent EXCEPT ![k] = Tail(@)]

ReadSubscribe(k) ==
    /\ Reading(k, "subscribe")
    /\ \E filter \in Filters : S!Subscribe(k, Id(k), filter)
    /\ Consumed(k)

\* The service breaks the connection, and nothing more is read from it.
ReadSubscribeFailing(k) ==
    /\ Reading(k, "subscribe")
    /\ \/ S!SubscribeRejected(k, Id(k))
       \/ S!SubscribeNotAnnounced(k, Id(k))
       \/ S!SubscribeNotLookedUp(k, Id(k))
    /\ UNCHANGED sent

\* The subscription with the id of the message, whoever owns it
ReadUnsubscribe(k) ==
    /\ Reading(k, "unsubscribe")
    /\ \E i \in Connections : S!Unsubscribe(k, <<i, NextMessage(k).id>>)
    /\ Consumed(k)

ReadUnsubscribeUnknown(k) ==
    /\ Reading(k, "unsubscribe")
    /\ \A i \in Connections : ~S!Known(<<i, NextMessage(k).id>>)
    /\ S!UnsubscribeUnknown(k, Id(k))
    /\ UNCHANGED sent

\* handle_mqtt_publish changes nothing on the subscriber side.
ReadPublish(k) ==
    /\ Reading(k, "publish")
    /\ up /\ ~crashed /\ k \in connected \ broken
    /\ Consumed(k)
    /\ UNCHANGED serviceVars

Reads(k) == ReadSubscribe(k) \/ ReadSubscribeFailing(k) \/ ReadUnsubscribe(k)
              \/ ReadUnsubscribeUnknown(k) \/ ReadPublish(k)

\* The service notices that the library has closed connection k.
Notices(k) ==
    /\ k # conn
    /\ S!ClientBreaks(k) \/ S!ClientGone(k)
    /\ UNCHANGED <<libraryVars, linkVars>>

Sends(k) == S!Sends(k) /\ UNCHANGED <<libraryVars, linkVars>>

Incoming ==
    /\ \E t \in Topics : S!IncomingPublish(t)
    /\ UNCHANGED <<libraryVars, linkVars>>

-----------------------------------------------------------------------------
Init ==
    /\ handle = "unset" /\ th = FALSE /\ in_receive = FALSE
    /\ reconnect_task = FALSE /\ uid_gen = 0
    /\ pending = <<>> /\ subscribed = <<>>
    /\ subs = {} /\ hasPending = {} /\ unsubscribing = {} /\ cont = {}
    /\ timers = {} /\ freed = {} /\ released = {}
    /\ told = [id \in Req |-> <<>>]
    /\ receiving = FALSE /\ undefined = FALSE
    /\ conn = 0 /\ nconn = 0
    /\ sent = [k \in Connections |-> <<>>]
    /\ S!Init

\* Once the library has used freed memory it may send the service anything:
\* nothing is said of what follows.
Next ==
    /\ ~undefined
    /\ \/ Library
       \/ \E k \in Connections : Reads(k) \/ Notices(k) \/ Sends(k)
       \/ Incoming

Spec == Init /\ [][Next]_vars

(***************************************************************************)
(* Each scheduler runs the tasks that are ready: transmissions granted,    *)
(* messages arrived, the reconnection.  Both sides notice in the end that  *)
(* the other one has closed the connection; the library does while it has  *)
(* a GNUNET_CLIENT_receive outstanding.                                    *)
(***************************************************************************)
Fairness ==
    /\ WF_vars(~undefined /\ Send /\ A!Transmit)
    /\ WF_vars(~undefined /\ (Read \/ Close)
                 /\ \E id \in Req : A!ReceivePublish(id) \/ A!ReceiveAck(id))
    /\ WF_vars(~undefined /\ Open /\ A!Reconnect)
    /\ WF_vars(~undefined /\ Close /\ conn \in broken /\ A!ReceiveNull)
    /\ \A k \in Connections :
          /\ WF_vars(~undefined /\ Reads(k))
          /\ WF_vars(~undefined /\ Notices(k))
          /\ WF_vars(~undefined /\ Sends(k))

FairSpec == Spec /\ Fairness
-----------------------------------------------------------------------------
(* Properties *)

(***************************************************************************)
(* What MqttApi assumes of the service is what the service does: every     *)
(* step of it is, for the library, a message read, an acknowledgement or   *)
(* copies of a PUBLISH sent over the current connection, or nothing.       *)
(***************************************************************************)
LibraryView == A!Spec

(***************************************************************************)
(* Once the library has read what the service sent over the connection,    *)
(* both agree: the service holds exactly the subscriptions it made of this *)
(* connection's messages that the application has not ended, whatever is   *)
(* still on its way to the service or was left of earlier connections.     *)
(***************************************************************************)
InSync ==
    conn # 0 /\ conn \notin broken /\ Stream(conn) = <<>>
    => \A id \in Req :
          <<conn, id>> \in subscriptions
            <=> <<conn, id>> \in issued /\ id \in ToSet(subscribed)

(***************************************************************************)
(* As long as the library has not reconnected, the service is never asked  *)
(* to end a subscription that it does not have, although requests time     *)
(* out, are taken back, and are sent in another order than they were made. *)
(***************************************************************************)
ServiceSurvives == nconn <= 1 => ~crashed

(***************************************************************************)
(* A subscription the application has ended does not stay in the service:  *)
(* whether its messages are taken back, acknowledged or lost with their    *)
(* connection, the service comes to hold it for no connection.             *)
(***************************************************************************)
SubscriptionEnds ==
    \A id \in Req :
        id \in released ~>
            (\A k \in Connections : <<k, id>> \notin subscriptions) \/ crashed

(***************************************************************************)
(* While the connection never breaks, an UNSUBSCRIBE travels to the        *)
(* service and its acknowledgement back, overtaking nothing and overtaken  *)
(* by new messages on the way, until the handle is freed.                  *)
(***************************************************************************)
UnsubscribeCompletes == A!UnsubscribeCompletes
=============================================================================
