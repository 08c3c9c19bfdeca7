---------------------------- MODULE MCMqttService ----------------------------
(***************************************************************************)
(* Model values for MqttService: topic filters and environment events.     *)
(***************************************************************************)
EXTENDS MqttService

CONSTANTS c1, c2, t1

TwoClients == {c1, c2}

\* c1 subscribes twice, c2 once.
TwoAndOne == [c \in Clients |-> IF c = c1 THEN 2 ELSE 1]

OneTopic == {t1}

\* A filter that matches the topic, and one that does not.
SomeFilters == {{t1}, {}}

\* Everything that can happen to the service.
AllEvents == Events

\* Clients that stay and requests that succeed.
Orderly == {"shutdown"}
=============================================================================
