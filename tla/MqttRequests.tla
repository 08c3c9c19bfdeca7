----------------------------- MODULE MqttRequests -----------------------------
(***************************************************************************)
(* What gnunet_mqtt_service.h promises an application about its requests,  *)
(* without queues, timers or connections: the phases a PUBLISH or a        *)
(* SUBSCRIBE goes through, and what its continuation is told in which of   *)
(* them.  GNUNET_MQTT_disconnect may end all requests at any time.         *)
(* Departures names what an implementation does otherwise: none makes the  *)
(* contract as it is documented.                                           *)
(*                                                                         *)
(* new -> queued -> sent [-> leaving -> ended]   transmitted, unsubscribed *)
(*        queued -> ended                        timed out, or taken back  *)
(***************************************************************************)
EXTENDS Naturals, Sequences

CONSTANTS
    MaxRequests,   \* bound: PUBLISH and SUBSCRIBE calls of the application
    Departures     \* of the implementation from the header, see below

(***************************************************************************)
(* publish_untold  a transmitted PUBLISH is told nothing; the header has   *)
(*                 "GNUNET_OK if the PUBLISH was transmitted" (line 85)    *)
(* close_told      GNUNET_MQTT_disconnect tells a SUBSCRIBE that is still  *)
(*                 queued what is "GNUNET_OK if the SUBSCRIBE was          *)
(*                 transmitted" (line 137)                                 *)
(***************************************************************************)

VARIABLES
    phase,      \* of each request
    subs,       \* the requests that are subscriptions
    listens,    \* the requests that were made with a continuation
    told        \* what each continuation has been called with

vars == <<phase, subs, listens, told>>

Requests == 1..MaxRequests
Phase == {"new", "queued", "sent", "leaving", "ended", "closed"}

Enter(id, from, to) ==
    /\ phase[id] = from
    /\ phase' = [phase EXCEPT ![id] = to]

Answer(ids, result) ==
    told' = [id \in Requests |->
                IF id \in ids \cap listens THEN <<result>> ELSE told[id]]

Init ==
    /\ phase = [id \in Requests |-> "new"]
    /\ subs = {} /\ listens = {}
    /\ told = [id \in Requests |-> <<>>]

\* GNUNET_MQTT_publish and GNUNET_MQTT_subscribe, with or without continuation
Make(id) ==
    /\ Enter(id, "new", "queued")
    /\ subs' \in {subs, subs \cup {id}}
    /\ listens' \in {listens, listens \cup {id}}
    /\ UNCHANGED told

\* The request is transmitted.  GNUNET_SYSERR, for a disconnection between
\* that and the answer, does not occur: they are one step.
Transmit(id) ==
    /\ Enter(id, "queued", "sent")
    /\ \/ Answer({id}, "ok")
       \/ "publish_untold" \in Departures /\ id \notin subs /\ UNCHANGED told
    /\ UNCHANGED <<subs, listens>>

\* The request's timeout passes first.
Expire(id) ==
    /\ Enter(id, "queued", "ended")
    /\ Answer({id}, "no")
    /\ UNCHANGED <<subs, listens>>

\* GNUNET_MQTT_publish_cancel, and GNUNET_MQTT_unsubscribe in time
TakeBack(id) ==
    /\ Enter(id, "queued", "ended")
    /\ UNCHANGED <<subs, listens, told>>

\* GNUNET_MQTT_unsubscribe of a subscription that was transmitted
Leave(id) ==
    /\ id \in subs
    /\ Enter(id, "sent", "leaving")
    /\ UNCHANGED <<subs, listens, told>>

\* The service has acknowledged that the subscription has ended.
End(id) ==
    /\ Enter(id, "leaving", "ended")
    /\ UNCHANGED <<subs, listens, told>>

\* GNUNET_MQTT_disconnect
Close ==
    /\ phase' = [id \in Requests |->
                    IF phase[id] = "new" THEN "new" ELSE "closed"]
    /\ \/ UNCHANGED told
       \/ /\ "close_told" \in Departures
          /\ Answer({id \in subs : phase[id] = "queued"}, "ok")
    /\ UNCHANGED <<subs, listens>>

\* The requests whose phase a step changes
Changed == {id \in Requests : phase[id] # phase'[id]}

Next ==
    \/ \E id \in Changed : \/ Make(id)
                           \/ Transmit(id) \/ Expire(id) \/ TakeBack(id)
                           \/ Leave(id) \/ End(id)
    \/ Close

Spec == Init /\ [][Next]_vars
=============================================================================
