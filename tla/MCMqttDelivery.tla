---------------------------- MODULE MCMqttDelivery ----------------------------
(***************************************************************************)
(* Short filters, topics and payloads for MqttDelivery.                    *)
(***************************************************************************)
EXTENDS MqttDelivery

UpTo(S, n) == UNION {[1..k -> S] : k \in 0..n}

\* All short filters, well-formed ones of up to three levels, and one each
\* with a topic_len of 0 and of 1.
ShortFilters ==
    UpTo({"a", "/", "+", "#", "."}, 3)
      \cup {f \in UpTo({"a", "/", "+", "#"}, 5) : WellFormed(f)}
      \cup {[i \in 1..6 |-> "a"], [i \in 1..7 |-> "a"]}

\* All short topics, topics of up to three levels, and the same two.
ShortTopics ==
    UpTo({"a", "/", "-"}, 3) \cup UpTo({"a", "/"}, 5)
      \cup {[i \in 1..6 |-> "a"], [i \in 1..7 |-> "a"]}

\* A string, something else, and nothing
SomePayloads == {<<"x", NUL>>, <<"x", NUL, "y">>, <<>>}

OnePayload == {<<"x", NUL>>}

FewFilters == {<<"a">>, <<"a", "/", "+">>, <<"a", "/", "#">>}
=============================================================================
