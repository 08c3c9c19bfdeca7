----------------------------- MODULE MCMqttSystem -----------------------------
(***************************************************************************)
(* Model values for MqttSystem.                                            *)
(***************************************************************************)
EXTENDS MqttSystem

CONSTANT t1

OneTopic == {t1}
EachFilter == {{t1}}

\* A connection that may break, and requests the application takes back
LibraryEvents == {"lost", "publish_timeout", "disconnect"}

\* A connection that may break
OnlyLost == {"lost"}

\* The end of a connection is noticed, and a SUBSCRIBE may be rejected.
ServiceEvents == {"lost", "bad_regex"}
=============================================================================
