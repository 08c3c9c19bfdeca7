----------------------------- MODULE MqttDelivery -----------------------------
(***************************************************************************)
(* What becomes of the topic filter of a SUBSCRIBE and of the topic and    *)
(* payload of a PUBLISH on their way through the library and the service:  *)
(* GNUNET_MQTT_subscribe and handle_mqtt_subscribe, GNUNET_MQTT_publish    *)
(* and handle_mqtt_publish on the one side, deliver_incoming_publish and   *)
(* process_incoming_publish_message on the other.  Ids, queues and         *)
(* connections are those of MqttApi and MqttService.                       *)
(*                                                                         *)
(* Nothing in the service carries a PUBLISH from the one side to the other *)
(* as a whole: see outgoing and Arrive.                                    *)
(*                                                                         *)
(* A message is its topic_len and the characters that follow its struct.   *)
(* The one subscription stands for each of the list, which are searched    *)
(* independently of each other.                                            *)
(***************************************************************************)
EXTENDS MqttTopic

CONSTANTS
    Filters,       \* the topic filters of SUBSCRIBE messages
    Topics,        \* the topics of PUBLISH messages
    Payloads,      \* the payloads of PUBLISH messages
    TopicLenLimit, \* the numbers a topic_len counts: 2^8 for its uint8_t
    None           \* no filter, expression or message

NUL == "NUL"

\* The items of an expression that stand for several characters
Groups == {plus_regex, one_regex, hash_regex, once_regex}

(***************************************************************************)
(* Filters and topics are C strings, without their NUL; a payload is any   *)
(* sequence of characters.  No filter or topic spells out the prefix: only *)
(* rm_eo is compared and not rm_so, so that a topic that ends with the     *)
(* prefix and something a filter covers would match from inside.           *)
(***************************************************************************)
ASSUME TopicLenAssumption == TopicLenLimit \in Nat \ {0}
ASSUME StringsAssumption ==
    \A s \in Filters \cup Topics :
        /\ s \in Seq(ToSet(s))
        /\ ToSet(s) \cap ({NUL, prefix[1]} \cup Groups) = {}
ASSUME PayloadsAssumption == \A data \in Payloads : data \in Seq(ToSet(data))
ASSUME NoneAssumption ==
    LET chars ==
            {NUL} \cup UNION {ToSet(s) : s \in Filters \cup Topics \cup Payloads}
    IN  None \notin Filters \cup [topic : Seq(chars), data : Seq(chars)]
                      \cup [topic_len : Nat, chars : Seq(chars)]

VARIABLES
    filter,      \* what the subscriber asked for
    regex,       \* what the service compiled and announced for it
    published,   \* the topic and the payload of the last PUBLISH
    searched,    \* the string GNUNET_REGEX_search is called with
    outgoing,    \* the copy of the PUBLISH that is queued for the network
    arrived,     \* the PUBLISH has come in at the subscriber's peer
    message,     \* the PUBLISH there, until it is delivered
    heard,       \* what the subscriber's callback was called with
    undefined    \* a character outside of a buffer was written: from here
                 \* on the source does not say what the process does

publisherVars == <<published, searched, outgoing>>
vars == <<filter, regex, publisherVars, arrived, message, heard, undefined>>

-----------------------------------------------------------------------------
\* strlen (topic) + 1, passed as a uint8_t
LenWithoutNul(topic) == Len(topic)     \* mutant: the NUL is not counted
TopicLen(topic) == (Len(topic) + 1) % TopicLenLimit

\* The characters of a buffer up to its first NUL
CString(buffer) ==
    LET ends == {i \in DOMAIN buffer : buffer[i] = NUL}
    IN  IF ends = {} THEN buffer ELSE SubSeq(buffer, 1, Min(ends) - 1)

(***************************************************************************)
(* strncpy of n characters, and a NUL written over the last.  With n = 0   *)
(* the NUL is written before the buffer.                                   *)
(***************************************************************************)
Extract(chars, n) == CString(SubSeq(chars, 1, n - 1))

\* The buffer that is made of it: unused room is filled with NUL.
Filled(string, n) == [i \in 1..n |-> IF i <= Len(string) THEN string[i] ELSE NUL]

MessageOf(topic, data) ==
    [topic_len |-> TopicLen(topic),
     chars |-> SubSeq(Append(topic, NUL), 1, TopicLen(topic)) \o data]

\* The characters after the topic
DataFromFirst(m) == m.chars                  \* mutant: after nothing
DataOf(m) == SubSeq(m.chars, m.topic_len + 1, Len(m.chars))

\* deliver_incoming_publish compares the topic with the prefix.
Match(r, topic) == match_subcriber_regex(r, add_prefix(topic))

-----------------------------------------------------------------------------
Init ==
    /\ filter = None /\ regex = None
    /\ published = None /\ searched = None /\ outgoing = None
    /\ arrived = FALSE /\ message = None /\ heard = None
    /\ undefined = FALSE

Subscribe(f) ==
    LET n == TopicLen(f)
    IN  /\ ~undefined
        /\ regex = None
        /\ n > 0
        /\ Written(Extract(Append(f, NUL), n))
             <= Allocated(Extract(Append(f, NUL), n))
        /\ filter' = f
        /\ regex' = get_regex(Extract(Append(f, NUL), n))
        /\ UNCHANGED <<publisherVars, arrived, message, heard, undefined>>

\* The topic's NUL is written before its buffer, or get_regex writes more
\* than it has allocated.
SubscribeOutOfBounds(f) ==
    LET n == TopicLen(f)
        topic == Extract(Append(f, NUL), n)
    IN  /\ ~undefined
        /\ regex = None
        /\ n = 0 \/ Written(topic) > Allocated(topic)
        /\ filter' = f
        /\ undefined' = TRUE
        /\ UNCHANGED <<regex, publisherVars, arrived, message, heard>>

(***************************************************************************)
(* The service of the publisher searches for the topic as it came.  What   *)
(* it queues for the network is a copy of the struct alone, without topic  *)
(* and payload.                                                            *)
(***************************************************************************)
Publish(t, data) ==
    LET m == MessageOf(t, data)
    IN  /\ ~undefined
        /\ regex # None /\ published = None
        /\ m.topic_len > 0
        /\ published' = [topic |-> t, data |-> data]
        /\ searched' = Extract(m.chars, m.topic_len)
        /\ outgoing' = [topic_len |-> m.topic_len, chars |-> <<>>]
        /\ UNCHANGED <<filter, regex, arrived, message, heard, undefined>>

\* The topic's NUL is written before its buffer.
PublishOutOfBounds(t, data) ==
    /\ ~undefined
    /\ regex # None /\ published = None
    /\ TopicLen(t) = 0
    /\ published' = [topic |-> t, data |-> data]
    /\ undefined' = TRUE
    /\ UNCHANGED <<filter, regex, searched, outgoing, arrived, message, heard>>

(***************************************************************************)
(* handle_incoming_publish: the PUBLISH comes in over mesh as the library  *)
(* has made it.  Who sends it is left open: send_msg_to_subscriber, which  *)
(* could, is never asked to, and what is outgoing is not it.               *)
(***************************************************************************)
Arrive ==
    /\ ~undefined
    /\ published # None /\ ~arrived
    /\ arrived' = TRUE
    /\ message' = MessageOf(published.topic, published.data)
    /\ UNCHANGED <<filter, regex, publisherVars, heard, undefined>>

\* deliver_incoming_publish, and process_incoming_publish_message
Deliver ==
    LET topic == Extract(message.chars, message.topic_len)
        data == DataOf(message)
        match == Match(regex, topic)
    IN  /\ ~undefined
        /\ message # None
        /\ match => data # <<>>
        /\ message' = None
        /\ heard' = IF match
                    THEN [topic |-> topic,
                          data |-> Filled(Extract(data, Len(data)), Len(data))]
                    ELSE None
        /\ UNCHANGED <<filter, regex, publisherVars, arrived, undefined>>

\* A payload of no characters gets its NUL before its buffer.
DeliverOutOfBounds ==
    /\ ~undefined
    /\ message # None
    /\ DataOf(message) = <<>>
    /\ Match(regex, Extract(message.chars, message.topic_len))
    /\ undefined' = TRUE
    /\ UNCHANGED <<filter, regex, publisherVars, arrived, message, heard>>

\* The PUBLISH was handled, or has not come in at all: the next one follows.
Handled ==
    /\ ~undefined
    /\ published # None /\ message = None
    /\ published' = None /\ searched' = None /\ outgoing' = None
    /\ arrived' = FALSE /\ heard' = None
    /\ UNCHANGED <<filter, regex, message, undefined>>

Next ==
    \/ \E f \in Filters : Subscribe(f) \/ SubscribeOutOfBounds(f)
    \/ \E t \in Topics, data \in Payloads :
          Publish(t, data) \/ PublishOutOfBounds(t, data)
    \/ Arrive \/ Deliver \/ DeliverOutOfBounds \/ Handled

Spec == Init /\ [][Next]_vars

-----------------------------------------------------------------------------
(* Properties *)

\* The inputs whose length topic_len can hold
Fits(topic) == Len(topic) + 1 < TopicLenLimit

\* A string and its NUL
Terminated(data) ==
    data # <<>> /\ Last(data) = NUL /\ NUL \notin ToSet(Front(data))

\* Every variable has its type; no wildcard is left in an expression, and no
\* topic and payload in what is queued for the network.
TypeOK ==
    /\ filter \in Filters \cup {None}
    /\ regex # None =>
          ToSet(regex) \subseteq (ToSet(add_prefix(filter)) \ {"+", "#"})
             \cup Groups
    /\ published # None =>
          published \in [topic : Topics, data : Payloads]
    /\ outgoing # None => outgoing.chars = <<>>
    /\ arrived \in BOOLEAN
    /\ message # None => message.topic_len \in 1..TopicLenLimit - 1
    /\ heard # None => DOMAIN heard.data = DOMAIN published.data
    /\ undefined \in BOOLEAN

(***************************************************************************)
(* The lengths computed for the buffers of topics, payloads and            *)
(* expressions are those of what is written to them, as long as topic_len  *)
(* holds the length, the payload is not empty and there is one '#' only:   *)
(* wherever that '#' stands and whatever it takes back.                    *)
(***************************************************************************)
MemorySafe ==
    /\ filter # None => Fits(filter) /\ Count("#", filter) <= 1
    /\ published # None => Fits(published.topic) /\ published.data # <<>>
    => ~undefined

\* The PUBLISH has come in at the subscriber's peer and was delivered there.
Delivered == arrived /\ message = None /\ ~undefined

(***************************************************************************)
(* Of the messages that come in at its peer, a subscriber hears every one  *)
(* on a topic that its filter covers level by level, if the levels are     *)
(* names of letters and digits.  The filter "#" is left out: its '#' takes *)
(* back the last character of the prefix, and nothing matches.             *)
(***************************************************************************)
HeardIfCovered ==
    Delivered /\ Fits(filter) /\ Fits(published.topic)
       /\ WellFormed(filter) /\ filter # <<"#">>
       /\ Plain(published.topic) /\ Covers(filter, published.topic)
    => heard # None

(***************************************************************************)
(* It hears none of them on any other topic, whatever characters that has  *)
(* (but see StringsAssumption): a match of a part of the topic, which      *)
(* regexec accepts, is not enough (match_subcriber_regex compares rm_eo    *)
(* with the length).                                                       *)
(***************************************************************************)
HeardOnlyIfCovered ==
    Delivered /\ heard # None /\ Fits(filter) /\ Fits(published.topic)
       /\ WellFormed(filter)
    => Covers(filter, published.topic)

(***************************************************************************)
(* Topic and payload of a PUBLISH that comes in at the subscriber's peer   *)
(* are heard as the publisher's application gave them, if the payload is a *)
(* NUL-terminated string: the publisher's library, the subscriber's        *)
(* service and its library each compute where the topic ends.  (The way    *)
(* between the two services is not part of it, see Arrive.)                *)
(***************************************************************************)
HeardAsPublished ==
    Delivered /\ heard # None /\ Fits(published.topic)
       /\ Terminated(published.data)
    => heard = published

(***************************************************************************)
(* Refuted: search_for_subscribers is to "Call regex search to find        *)
(* subscribed peers" (line 1025), but it searches for the topic without    *)
(* the prefix that every announced expression starts with.                 *)
(***************************************************************************)
SearchFindsSubscribers ==
    Delivered /\ heard # None => Accepts(regex, searched)
=============================================================================
