--------------------------- MODULE MCMqttPublisher ---------------------------
(***************************************************************************)
(* Model values for MqttPublisher: topics that are prefixes of each other. *)
(***************************************************************************)
EXTENDS MqttPublisher

\* "a", its extension "ab", and "b".
NestedTopics == {<<"a">>, <<"a", "b">>, <<"b">>}

\* Everything that can happen to the publisher side.
AllEvents == Events
=============================================================================
