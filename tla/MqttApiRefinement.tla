--------------------------- MODULE MqttApiRefinement ---------------------------
(***************************************************************************)
(* MqttApi implements MqttRequests: the phase of a request follows from    *)
(* the queue, the handles and what the application has called.             *)
(***************************************************************************)
EXTENDS MqttApi

\* The ids with a PUBLISH or a SUBSCRIBE in the queue
Waiting == {m.id : m \in {n \in ToSet(pending) : n.kind # "unsubscribe"}}

PhaseOf(id) ==
    CASE id > uid_gen -> "new"
      [] id \in Waiting -> "queued"
      [] id <= uid_gen /\ handle = "freed" -> "closed"
      [] handle # "freed" /\ id \in unsubscribing \ freed -> "leaving"
      [] handle # "freed" /\ id \notin Waiting
           /\ id \in freed \cup (released \ unsubscribing) -> "ended"
      [] OTHER -> "sent"

\* The contract with what the library does otherwise than its header says
Requests == INSTANCE MqttRequests WITH
    Departures <- {"publish_untold", "close_told"},
    phase <- [id \in Req |-> PhaseOf(id)],
    listens <- cont \cup {id \in Req : told[id] # <<>>}

\* The contract as the header documents it
Documented == INSTANCE MqttRequests WITH
    Departures <- {},
    phase <- [id \in Req |-> PhaseOf(id)],
    listens <- cont \cup {id \in Req : told[id] # <<>>}

(***************************************************************************)
(* Each request goes through the phases of MqttRequests and its            *)
(* continuation is told what belongs to the phase it enters, exactly then, *)
(* with the two departures from the header that are named and with no      *)
(* other: whatever order transmission, timeout, cancellation and           *)
(* disconnection come in, and however often the library has reconnected.   *)
(***************************************************************************)
KeepsItsPromise == Requests!Spec

(***************************************************************************)
(* Refuted: the library answers as its header documents it.  It says       *)
(* "GNUNET_OK if the PUBLISH was transmitted" (gnunet_mqtt_service.h:85)   *)
(* and of cont "continuation to call when done (transmitting request to    *)
(* service)" (line 104), but a PUBLISH message is queued without a         *)
(* continuation of its own, and its request is told nothing.               *)
(***************************************************************************)
AnswersAsDocumented == Documented!Spec
=============================================================================
