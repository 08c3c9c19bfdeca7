------------------------------ MODULE MCMqttApi ------------------------------
(***************************************************************************)
(* Model values for MqttApi: the sets of environment events its runs use.  *)
(***************************************************************************)
EXTENDS MqttApiRefinement

\* Everything the library is written to handle.
AllEvents == Events

\* A connection that may break, and PUBLISH requests that may expire.
BreakingLink == {"lost", "publish_timeout"}

\* A connection that may break and may not come back at once.
UnreachableService == {"lost", "unreachable"}
=============================================================================
