--------------------------- MODULE MqttSystemProofs ---------------------------
(***************************************************************************)
(* What is proved of the library and the service together, for every       *)
(* number of requests, connections and messages, and every set of events:  *)
(*                                                                         *)
(*   LibraryIsServed   the service behaves as MqttApi assumes of it        *)
(*   ServiceKeepsUp    until the library reconnects it is never asked to   *)
(*                     end a subscription it does not have                 *)
(*   SidesAgree        once the library has read all that was sent to it,  *)
(*                     both sides have the same subscriptions              *)
(*                                                                         *)
(* The invariant is that of the library (AP) and that of the service (SP), *)
(* which their own proofs show for each step of theirs, and what relates   *)
(* the two sides:                                                          *)
(*                                                                         *)
(*   LinkInv, OpenInv  which connections there are                         *)
(*   IdInv             an id is used over one connection, and an           *)
(*                     UNSUBSCRIBE is the last message with its id         *)
(*   HoldInv           SUBSCRIBE is read, or ahead, wherever UNSUBSCRIBE   *)
(*                     is queued, sent or may still be asked for           *)
(*   GoneInv           what the service forgot is acknowledged in the      *)
(*                     stream, or read                                     *)
(*                                                                         *)
(* ServiceKeepsUp follows from HoldInv and the order of IdInv; SidesAgree  *)
(* from GoneInv and AP!DInv; LibraryIsServed from a step by step           *)
(* comparison in which a message read from a connection the library has    *)
(* closed, and a copy for it, is a step that the library does not see.     *)
(***************************************************************************)
EXTENDS MqttSystem, DllProofs, FiniteSetTheorems, SequenceTheorems, TLAPS

AP == INSTANCE MqttApiLinkProofs WITH
    MaxIncoming <- MaxRequests * (MaxIncoming + 1),
    Env <- LibraryEnv,
    client <- conn # 0,
    toService <- IF conn = 0 THEN <<>> ELSE sent[conn],
    toClient <- IF conn = 0 THEN <<>>
                ELSE [i \in DOMAIN Stream(conn) |-> ToLibrary(Stream(conn)[i])],
    remote <- {r[2] : r \in {q \in subscriptions : S!Owner(q) = conn}}

SP == INSTANCE MqttServiceProofs WITH
    Clients <- Connections,
    Keys <- {},
    MaxSubscriptions <- [k \in Connections |-> MaxRequests],
    Env <- ServiceEnv,
    pending <- replies,
    undefined <- crashed

\* The bound MqttApi is given for incoming messages is a positive number.
LEMMA Bounds ==
    /\ MaxRequests \in Nat /\ MaxRequests # 0
    /\ MaxRequests * (MaxIncoming + 1) \in Nat \ {0}
<1>1. MaxRequests \in Nat /\ MaxRequests # 0 /\ MaxIncoming + 1 \in Nat
        /\ MaxIncoming + 1 # 0
    BY MaxRequestsAssumption, MaxIncomingAssumption
<1>2. \A x, y \in Nat : x # 0 /\ y # 0 => x * y \in Nat /\ x * y # 0
    OBVIOUS
<1> QED BY <1>1, <1>2

\* MqttApi through the module of its proofs has the same variables.
LEMMA SameView == A!vars = AP!vars
BY DEF A!vars, A!connVars, A!reqVars, A!appVars, A!linkVars,
       AP!vars, AP!connVars, AP!reqVars, AP!appVars, AP!linkVars

\* A step that changes nothing of the one view changes nothing of the other.
LEMMA SameViewNext == (UNCHANGED A!vars) <=> (UNCHANGED AP!vars)
BY DEF A!vars, A!connVars, A!reqVars, A!appVars, A!linkVars,
       AP!vars, AP!connVars, AP!reqVars, AP!appVars, AP!linkVars

\* The steps of MqttApi, through the module of its proofs, are the same.
LEMMA SameLibrary ==
    /\ A!Init <=> AP!Init
    /\ A!Application <=> AP!Application
    /\ A!Tasks <=> AP!Tasks
    /\ A!Transmission <=> AP!Transmission
    /\ A!Reception <=> AP!Reception
    /\ A!Service <=> AP!Service
    /\ A!Transmit <=> AP!Transmit
<1> USE DEF A!Application, AP!Application, A!CancelTimer, AP!CancelTimer,
            A!ClearCont, AP!ClearCont, A!CloseLink, AP!CloseLink, A!Connect,
            AP!Connect, A!Cons, AP!Cons, A!Dequeue, AP!Dequeue, A!Disconnect,
            AP!Disconnect, A!DoDisconnect, AP!DoDisconnect, A!IndexOf,
            AP!IndexOf, A!Init, AP!Init, A!IsInjective, AP!IsInjective,
            A!MayCancel, AP!MayCancel, A!MayUnsubscribe, AP!MayUnsubscribe,
            A!Msg, AP!Msg, A!NeedsRequest, AP!NeedsRequest, A!ntohs, AP!ntohs,
            A!PastEnd, AP!PastEnd, A!ProcessPending,
            AP!ProcessPending, A!Publish, AP!Publish, A!PublishCancel,
            AP!PublishCancel, A!PublishCancelDangling,
            AP!PublishCancelDangling, A!PublishTimeout, AP!PublishTimeout,
            A!PublishTimeoutAfterDisconnect,
            AP!PublishTimeoutAfterDisconnect, A!Queued, AP!Queued,
            A!ReceiveAck, AP!ReceiveAck, A!ReceiveNull, AP!ReceiveNull,
            A!ReceiveOverFreed, AP!ReceiveOverFreed, A!ReceivePublish,
            AP!ReceivePublish, A!Receiving, AP!Receiving, A!Reception,
            AP!Reception, A!Reconnect, AP!Reconnect,
            A!ReconnectAfterDisconnect, AP!ReconnectAfterDisconnect,
            A!ReconnectDone, AP!ReconnectDone, A!RemoveAt, AP!RemoveAt,
            A!Req, AP!Req, A!ResetReceive, AP!ResetReceive, A!SearchEnd,
            AP!SearchEnd, A!SearchMeetsFreed, AP!SearchMeetsFreed, A!Service,
            AP!Service, A!ServicePush, AP!ServicePush, A!ServiceRead,
            AP!ServiceRead, A!ServiceReadStale, AP!ServiceReadStale,
            A!StillQueued, AP!StillQueued, A!Subscribe, AP!Subscribe,
            A!SubscribeAfterFreed,
            AP!SubscribeAfterFreed, A!SubscribeTimeout, AP!SubscribeTimeout,
            A!Tasks, AP!Tasks, A!Tell, AP!Tell, A!ToSet, AP!ToSet,
            A!Transmission, AP!Transmission, A!Transmit, AP!Transmit,
            A!TransmitEmpty, AP!TransmitEmpty, A!TransmitFail,
            AP!TransmitFail, A!TransmitPastEnd, AP!TransmitPastEnd,
            A!TransmitRefused, AP!TransmitRefused,
            A!TransmitShort, AP!TransmitShort, A!Undefined, AP!Undefined,
            A!Unlink, AP!Unlink, A!UnlinkFound, AP!UnlinkFound,
            A!UnlinkMeetsFreed, AP!UnlinkMeetsFreed, A!Unsubscribe,
            AP!Unsubscribe, A!UnsubscribeFreed, AP!UnsubscribeFreed,
            A!WaitForResponse, AP!WaitForResponse, A!Withdraw, AP!Withdraw,
            A!appVars, AP!appVars, A!connVars, AP!connVars, A!linkVars,
            AP!linkVars, A!reqVars, AP!reqVars
<1>1. A!Init <=> AP!Init
  BY ZenonT(60)
<1>2. A!Application <=> AP!Application
  BY ZenonT(60)
<1>3. A!Tasks <=> AP!Tasks
  BY ZenonT(60)
<1>4. A!Transmission <=> AP!Transmission
  BY ZenonT(60)
<1>5. A!Reception <=> AP!Reception
  BY ZenonT(60)
<1>6. A!Service <=> AP!Service
  BY ZenonT(60)
<1>7. A!Transmit <=> AP!Transmit
  BY ZenonT(60)
<1> QED
  BY <1>1, <1>2, <1>3, <1>4, <1>5, <1>6, <1>7

\* The steps of MqttService, through the module of its proofs, are the same.
LEMMA SameService ==
    ASSUME NEW k, NEW r, NEW f, NEW t, NEW n
    PROVE  /\ S!ClientConnects(k) <=> SP!ClientConnects(k)
           /\ S!ClientBreaks(k) <=> SP!ClientBreaks(k)
           /\ S!ClientGone(k) <=> SP!ClientGone(k)
           /\ S!ClientReads(k) <=> SP!ClientReads(k)
           /\ S!Subscribe(k, r, f) <=> SP!Subscribe(k, r, f)
           /\ S!SubscribeRejected(k, r) <=> SP!SubscribeRejected(k, r)
           /\ S!SubscribeNotAnnounced(k, r) <=> SP!SubscribeNotAnnounced(k, r)
           /\ S!SubscribeNotLookedUp(k, r) <=> SP!SubscribeNotLookedUp(k, r)
           /\ S!Unsubscribe(k, r) <=> SP!Unsubscribe(k, r)
           /\ S!Undefined <=> SP!Undefined
           /\ S!SendReply(k, n) <=> SP!SendReply(k, n)
           /\ S!SendFails(k) <=> SP!SendFails(k)
           /\ S!IncomingPublish(t) <=> SP!IncomingPublish(t)
<1> USE DEF S!Ack, SP!Ack, S!AddPending, SP!AddPending, S!CancelAnnounce,
            SP!CancelAnnounce, S!CancelTransmit, SP!CancelTransmit,
            S!Cardinality, SP!Cardinality, S!ClientBreaks, SP!ClientBreaks,
            S!ClientConnects, SP!ClientConnects, S!ClientGone, SP!ClientGone,
            S!ClientReads, SP!ClientReads, S!Copies, SP!Copies, S!Copy,
            SP!Copy, S!Delisted, SP!Delisted, S!IncomingPublish,
            SP!IncomingPublish, S!InsertTail, SP!InsertTail, S!IsFiniteSet,
            SP!IsFiniteSet, S!IsInjective, SP!IsInjective, S!Known, SP!Known,
            S!Matching, SP!Matching, S!Owned, SP!Owned, S!Owner, SP!Owner,
            S!Publish, SP!Publish, S!RequestAgain, SP!RequestAgain, S!Rid,
            SP!Rid, S!SendFails, SP!SendFails, S!SendReply, SP!SendReply,
            S!SetToSeq, SP!SetToSeq, S!Subscribe, SP!Subscribe,
            S!SubscribeNotAnnounced, SP!SubscribeNotAnnounced,
            S!SubscribeNotLookedUp, SP!SubscribeNotLookedUp,
            S!SubscribeRejected, SP!SubscribeRejected, S!Subscribing,
            SP!Subscribing, S!SubscriptionFree, SP!SubscriptionFree,
            S!Undefined, SP!Undefined, S!Unsubscribe, SP!Unsubscribe,
            S!Unsubscribing, SP!Unsubscribing, S!clientVars, SP!clientVars,
            S!connVars, SP!connVars, S!queueVars, SP!queueVars, S!regexVars,
            SP!regexVars
<1>1. S!ClientConnects(k) <=> SP!ClientConnects(k)
  BY ZenonT(60)
<1>2. S!ClientBreaks(k) <=> SP!ClientBreaks(k)
  BY ZenonT(60)
<1>3. S!ClientGone(k) <=> SP!ClientGone(k)
  BY ZenonT(60)
<1>4. S!ClientReads(k) <=> SP!ClientReads(k)
  BY ZenonT(60)
<1>5. S!Subscribe(k, r, f) <=> SP!Subscribe(k, r, f)
  BY ZenonT(60)
<1>6. S!SubscribeRejected(k, r) <=> SP!SubscribeRejected(k, r)
  BY ZenonT(60)
<1>7. S!SubscribeNotAnnounced(k, r) <=> SP!SubscribeNotAnnounced(k, r)
  BY ZenonT(60)
<1>8. S!SubscribeNotLookedUp(k, r) <=> SP!SubscribeNotLookedUp(k, r)
  BY ZenonT(60)
<1>9. S!Unsubscribe(k, r) <=> SP!Unsubscribe(k, r)
  BY ZenonT(60)
<1>10. S!Undefined <=> SP!Undefined
  BY ZenonT(60)
<1>11. S!SendReply(k, n) <=> SP!SendReply(k, n)
  BY ZenonT(60)
<1>12. S!SendFails(k) <=> SP!SendFails(k)
  BY ZenonT(60)
<1>13. S!IncomingPublish(t) <=> SP!IncomingPublish(t)
  BY ZenonT(60)
<1> QED
  BY <1>1, <1>2, <1>3, <1>4, <1>5, <1>6, <1>7, <1>8, <1>9, <1>10, <1>11, <1>12, <1>13

-----------------------------------------------------------------------------
(* Ids, streams and sequences *)

\* What the proofs about MqttApi assume of its constants holds here.
LEMMA LibraryAssumptions ==
    /\ MaxRequests \in Nat \ {0}
    /\ MaxRequests * (MaxIncoming + 1) \in Nat \ {0}
    /\ LibraryEnv \subseteq AP!Events
BY MaxRequestsAssumption, Bounds, LibraryEnvAssumption DEF A!Events, AP!Events

\* What the proofs about MqttService assume of its constants holds here.
LEMMA ServiceAssumptions ==
    /\ SP!IsFiniteSet(Connections)
    /\ Filters \subseteq SUBSET Topics
    /\ [k \in Connections |-> MaxRequests] \in [Connections -> Nat]
    /\ MaxIncoming \in Nat
    /\ ServiceEnv \subseteq SP!Events
<1>1. IsFiniteSet(Connections)
  BY MaxConnectionsAssumption, FS_Interval DEF Connections
<1>2. SP!IsFiniteSet(Connections)
  BY <1>1 DEF IsFiniteSet, SP!IsFiniteSet
<1> QED
  BY <1>2, FiltersAssumption, Bounds, MaxIncomingAssumption,
     ServiceEnvAssumption DEF S!Events, SP!Events

\* The two modules mean the same by the set of a sequence's elements.
LEMMA SameToSet == \A s : AP!ToSet(s) = ToSet(s)
BY DEF AP!ToSet, ToSet

\* The service's ids are the pairs of a connection and a request.
LEMMA RidLemma ==
    \A r : r \in SP!Rid <=> r \in Connections \X Req
<1>1. ASSUME NEW k \in Connections
      PROVE  {k} \X (1..[c \in Connections |-> MaxRequests][k]) = {k} \X Req
  BY DEF Req
<1> QED
  BY <1>1 DEF SP!Rid

\* The fields of a message to the service
LEMMA MessageLemma ==
    ASSUME NEW m \in A!Message
    PROVE  /\ m.kind \in {"publish", "subscribe", "unsubscribe"}
           /\ m.id \in Req
           /\ m \in AP!Message
BY DEF A!Message, A!Kind, A!Req, AP!Message, AP!Kind, AP!Req, Req

\* What is needed of the invariant of the library
LEMMA LibraryFacts ==
    ASSUME AP!IInv
    PROVE  /\ pending \in Seq(A!Message)
           /\ uid_gen \in 0..MaxRequests
           /\ subs \subseteq 1..uid_gen
           /\ hasPending \subseteq 1..uid_gen
           /\ unsubscribing \subseteq released
           /\ \A m \in ToSet(pending) : m.id \in hasPending
           /\ handle # "open" => conn = 0 /\ pending = <<>>
           /\ handle = "unset" => uid_gen = 0
<1>1. A!Message = AP!Message
  BY DEF A!Message, A!Kind, A!Req, AP!Message, AP!Kind, AP!Req
<1>2. /\ pending \in Seq(AP!Message)
      /\ uid_gen \in 0..MaxRequests
  BY DEF AP!IInv, AP!TypeOK
<1>3. /\ subs \subseteq 1..uid_gen
      /\ hasPending \subseteq 1..uid_gen
      /\ unsubscribing \subseteq released
  BY DEF AP!IInv, AP!IdsKnown
<1>4. \A m \in ToSet(pending) : m.id \in hasPending
  BY SameToSet DEF AP!IInv, AP!QueueShape
<1>5. /\ handle # "open" => conn = 0 /\ pending = <<>>
      /\ handle = "unset" => uid_gen = 0
  BY DEF AP!IInv, AP!HandleState
<1> QED
  BY <1>1, <1>2, <1>3, <1>4, <1>5

\* Connections may end other than by GNUNET_MQTT_disconnect.
Lossy == {"lost", "refused"} \intersect LibraryEnv # {}

\* What a step of the library does to its handle and its connection
LEMMA LibraryMoves ==
    ASSUME AP!IInv, AP!DInv, Library
    PROVE  /\ handle' = "unset" => handle = "unset"
           /\ handle' = "open" =>
                 handle = "open" \/ (handle = "unset" /\ conn' # 0)
           /\ conn # 0 /\ conn' = 0 => handle' = "freed" \/ Lossy
           /\ conn = 0 /\ conn' # 0 => handle' = "open"
<1>1. AP!LibraryStep
  BY SameLibrary DEF Library, AP!LibraryStep, AP!Transmission
<1>2. AP!ConnectionMoves
  BY <1>1, AP!LibraryMovesConnection, LibraryAssumptions
<1> QED
  BY <1>2 DEF AP!ConnectionMoves, AP!Lossy, Lossy

\* What a step of the library does to its requests: an UNSUBSCRIBE is queued
\* only for a subscription that was sent, and a subscription counts as sent
\* only after its SUBSCRIBE went over the connection.
LEMMA RequestsMove ==
    ASSUME AP!IInv, ~undefined, Library
    PROVE  /\ uid_gen' \in {uid_gen, uid_gen + 1}
           /\ \A m \in ToSet(pending') :
                 \/ m \in ToSet(pending)
                 \/ m.kind # "unsubscribe" /\ m.id = uid_gen' /\ uid_gen' # uid_gen
                 \/ m.kind = "unsubscribe" /\ m.id \in subs \ (hasPending \union released)
           /\ unsubscribing \ hasPending \subseteq unsubscribing' \ hasPending'
           /\ \A id \in subs' \ (hasPending' \union released') :
                 \/ id \in subs \ (hasPending \union released)
                 \/ conn' = 0
                 \/ /\ conn' # 0
                    /\ \E m \in A!Message :
                          /\ m.kind = "subscribe" /\ m.id = id
                          /\ sent'[conn'] =
                                Append(IF conn = 0 THEN <<>> ELSE sent[conn], m)
           /\ \A id \in ToSet(subscribed') :
                 id \in ToSet(subscribed) \/ (id = uid_gen' /\ uid_gen' # uid_gen)
<1>1. AP!LibraryStep
  BY SameLibrary DEF Library, AP!LibraryStep, AP!Transmission
<1>2. AP!RequestsMove
  BY <1>1, AP!LibraryMovesRequests, LibraryAssumptions
<1>3. /\ uid_gen' \in {uid_gen, uid_gen + 1}
      /\ \A m \in ToSet(pending') :
            \/ m \in ToSet(pending)
            \/ m.kind # "unsubscribe" /\ m.id = uid_gen' /\ uid_gen' # uid_gen
            \/ m.kind = "unsubscribe" /\ m.id \in subs \ (hasPending \union released)
      /\ unsubscribing \ hasPending \subseteq unsubscribing' \ hasPending'
      /\ \A id \in ToSet(subscribed') :
            id \in ToSet(subscribed) \/ (id = uid_gen' /\ uid_gen' # uid_gen)
  BY <1>2, SameToSet DEF AP!RequestsMove
<1>4. ASSUME NEW id \in subs' \ (hasPending' \union released'),
             id \notin subs \ (hasPending \union released), conn' # 0
      PROVE  \E m \in A!Message :
                /\ m.kind = "subscribe" /\ m.id = id
                /\ sent'[conn'] = Append(IF conn = 0 THEN <<>> ELSE sent[conn], m)
  <2> DEFINE m == AP!Msg("subscribe", id)
  <2>1. sent'[conn'] = Append(IF conn = 0 THEN <<>> ELSE sent[conn], m)
    BY <1>2, <1>4 DEF AP!RequestsMove
  <2>2. id \in Req
    <3>1. AP!IInv'
      BY AP!NextInv, <1>1, LibraryAssumptions DEF AP!LibraryStep, AP!Next
    <3> QED
      BY <3>1 DEF AP!IInv, AP!TypeOK, AP!Req, Req
  <2>3. m \in A!Message /\ m.kind = "subscribe" /\ m.id = id
    BY <2>2 DEF AP!Msg, A!Message, A!Kind, A!Req, Req
  <2> QED
    BY <2>1, <2>3
<1> QED
  BY <1>3, <1>4

-----------------------------------------------------------------------------
(* The service's messages, as the library reads them *)

\* The messages s of the service as the library reads them
Seen(s) == [i \in DOMAIN s |-> ToLibrary(s[i])]

\* A sequence as the library reads it, message by message
LEMMA SeenLemma ==
    ASSUME NEW T, NEW s \in Seq(T)
    PROVE  /\ Len(s) \in Nat
           /\ Len(Seen(s)) = Len(s)
           /\ Seen(s) \in Seq({ToLibrary(m) : m \in T})
           /\ \A i \in 1..Len(s) : /\ Seen(s)[i].kind = s[i].kind
                                   /\ Seen(s)[i].id = s[i].rid[2]
<1> DEFINE U == {ToLibrary(m) : m \in T}
<1>1. Len(s) \in Nat /\ DOMAIN s = 1..Len(s)
  BY LenProperties
<1>2. \A i \in 1..Len(s) : s[i] \in T
  BY ElementOfSeq
<1>3. Seen(s) \in [1..Len(s) -> U]
  BY <1>1, <1>2 DEF Seen
<1>4. Seen(s) \in Seq(U) /\ Len(Seen(s)) = Len(s)
  <2>1. Seen(s) \in Seq(U)
    BY <1>1, <1>3, IsASeq
  <2>2. DOMAIN Seen(s) = 1..Len(s) /\ DOMAIN Seen(s) = 1..Len(Seen(s))
          /\ Len(Seen(s)) \in Nat
    BY <1>3, <2>1, LenProperties
  <2> QED
    BY <1>1, <2>1, <2>2
<1>5. \A i \in 1..Len(s) : Seen(s)[i].kind = s[i].kind
                            /\ Seen(s)[i].id = s[i].rid[2]
  BY <1>1 DEF Seen, ToLibrary
<1> QED
  BY <1>1, <1>4, <1>5

\* The library reads the messages of the service in their order.
LEMMA SeenConcat ==
    ASSUME NEW T, NEW s \in Seq(T), NEW t \in Seq(T)
    PROVE  Seen(s \o t) = Seen(s) \o Seen(t)
<1> DEFINE U == {ToLibrary(m) : m \in T}
           a == Seen(s \o t)
           b == Seen(s) \o Seen(t)
           l == Len(s)
           k == Len(t)
<1>1. l \in Nat /\ k \in Nat
  BY LenProperties
<1>2. /\ s \o t \in Seq(T) /\ Len(s \o t) = l + k
      /\ \A i \in 1..l + k : (s \o t)[i] = IF i <= l THEN s[i] ELSE t[i - l]
  BY ConcatProperties
<1>3. Seen(s) \in Seq(U) /\ Len(Seen(s)) = l
  BY SeenLemma
<1>4. Seen(t) \in Seq(U) /\ Len(Seen(t)) = k
  BY SeenLemma
<1>5. /\ b \in Seq(U) /\ Len(b) = l + k
      /\ \A i \in 1..l + k :
            b[i] = IF i <= l THEN Seen(s)[i] ELSE Seen(t)[i - l]
  <2>1. ASSUME NEW x \in Seq(U), NEW y \in Seq(U)
        PROVE  /\ x \o y \in Seq(U)
               /\ Len(x \o y) = Len(x) + Len(y)
               /\ \A i \in 1..Len(x) + Len(y) :
                     (x \o y)[i] = IF i <= Len(x) THEN x[i] ELSE y[i - Len(x)]
    BY ConcatProperties
  <2> HIDE DEF U
  <2>2. LET x == Seen(s)
            y == Seen(t)
        IN  /\ b \in Seq(U) /\ Len(b) = Len(x) + Len(y)
            /\ \A i \in 1..Len(x) + Len(y) :
                  b[i] = IF i <= Len(x) THEN x[i] ELSE y[i - Len(x)]
    BY <1>3, <1>4, <2>1, Zenon
  <2> HIDE DEF b
  <2> QED
    BY <1>3, <1>4, <2>2
<1>6. a \in Seq(U) /\ Len(a) = l + k
  BY <1>2, SeenLemma
<1>7. /\ DOMAIN s = 1..l /\ DOMAIN t = 1..k /\ DOMAIN (s \o t) = 1..l + k
  BY <1>2, LenProperties
<1>8. ASSUME NEW i \in 1..l + k
      PROVE  a[i] = b[i]
  <2>1. a[i] = ToLibrary((s \o t)[i])
    BY <1>7 DEF Seen
  <2>2. CASE i <= l
    <3>1. i \in DOMAIN s
      BY <1>1, <1>7, <2>2
    <3> QED
      BY <1>2, <1>5, <2>1, <2>2, <3>1 DEF Seen
  <2>3. CASE i > l
    <3>1. i - l \in DOMAIN t
      BY <1>1, <1>7, <2>3
    <3>2. (s \o t)[i] = t[i - l] /\ b[i] = Seen(t)[i - l]
      BY <1>1, <1>2, <1>5, <2>3
    <3> QED
      BY <2>1, <3>1, <3>2 DEF Seen
  <2> HIDE DEF a, b
  <2> QED
    BY <1>1, <2>2, <2>3
<1> HIDE DEF a, b, U
<1>9. a = b
  BY <1>1, <1>5, <1>6, <1>8, SeqEqual
<1> QED
  BY <1>9 DEF a, b

\* What is left after one message, as the library reads it
LEMMA SeenTail ==
    ASSUME NEW T, NEW s \in Seq(T), s # <<>>
    PROVE  Seen(Tail(s)) = Tail(Seen(s)) /\ Seen(s) # <<>>
             /\ Head(Seen(s)) = ToLibrary(Head(s))
<1> DEFINE U == {ToLibrary(m) : m \in T}
           a == Seen(Tail(s))
           b == Tail(Seen(s))
           l == Len(s)
<1>1. /\ l \in Nat /\ l # 0
      /\ Head(s) = s[1]
      /\ Tail(s) \in Seq(T) /\ Len(Tail(s)) = l - 1
      /\ \A i \in 1..l - 1 : Tail(s)[i] = s[i + 1]
  <2>1. l \in Nat /\ l # 0
    BY LenProperties, EmptySeq
  <2> QED
    BY <2>1, HeadTailProperties
<1>2. Seen(s) \in Seq(U) /\ Len(Seen(s)) = l
  BY SeenLemma
<1>3. Seen(s) # <<>>
  BY <1>1, <1>2, EmptySeq
<1>4. /\ Head(Seen(s)) = Seen(s)[1]
      /\ b \in Seq(U) /\ Len(b) = l - 1
      /\ \A i \in 1..l - 1 : b[i] = Seen(s)[i + 1]
  BY <1>2, <1>3, HeadTailProperties
<1>5. a \in Seq(U) /\ Len(a) = l - 1
  BY <1>1, SeenLemma
<1>6. DOMAIN s = 1..l /\ DOMAIN Tail(s) = 1..l - 1
  BY <1>1, LenProperties
<1>7. ASSUME NEW i \in 1..l - 1
      PROVE  a[i] = b[i]
  <2>1. i + 1 \in DOMAIN s /\ i \in DOMAIN Tail(s)
    BY <1>1, <1>6
  <2> QED
    BY <1>1, <1>4, <2>1 DEF Seen
<1>8. Head(Seen(s)) = ToLibrary(Head(s))
  BY <1>1, <1>4, <1>6 DEF Seen
<1> HIDE DEF a, b, U
<1>9. a = b
  BY <1>1, <1>4, <1>5, <1>7, SeqEqual
<1> QED
  BY <1>3, <1>8, <1>9 DEF a, b

-----------------------------------------------------------------------------
(* What the steps of the service do *)

\* The ids connection k has been used for, or will be once it is read.
Made(k) ==
    {id \in Req : \/ <<k, id>> \in issued
                  \/ \E m \in ToSet(sent[k]) : m.kind = "subscribe" /\ m.id = id}

\* The type of the link; the current connection is the last one made, and
\* the service has it.
LinkInv ==
    /\ nconn \in 0..MaxConnections /\ conn \in {0, nconn}
    /\ sent \in [Connections -> Seq(A!Message)]
    /\ conn # 0 => conn \in connected
    /\ \A k \in Connections : k > nconn =>
          sent[k] = <<>> /\ k \notin connected /\ Made(k) = {}

\* What is proved of the service by itself
ServiceInv == SP!IInv /\ SP!SoundInv

\* The message the service reads next is one of the library's.
LEMMA NextMessageLemma ==
    ASSUME LinkInv, NEW k \in Connections, sent[k] # <<>>
    PROVE  /\ NextMessage(k) \in A!Message
           /\ NextMessage(k).id \in Req
           /\ \A i \in Connections : <<i, NextMessage(k).id>> \in SP!Rid
<1>1. sent[k] \in Seq(A!Message)
  BY DEF LinkInv
<1>2. Head(sent[k]) \in A!Message
  BY <1>1, HeadTailProperties
<1> QED
  BY <1>2, MessageLemma, RidLemma DEF NextMessage

\* A step that leaves the service alone keeps its invariant.
LEMMA QuietServiceMoves ==
    ASSUME ServiceInv, UNCHANGED serviceVars
    PROVE  /\ ServiceInv'
           /\ UNCHANGED <<subscriptions, issued, broken, connected, wire, replies, crashed>>
<1>1. UNCHANGED SP!vars
  BY DEF serviceVars, SP!vars, SP!connVars, SP!queueVars, SP!regexVars,
         SP!clientVars
<1>2. SP!IInv'
  BY <1>1, SP!NextKeeps, ServiceAssumptions DEF ServiceInv
<1>3. SP!SoundInv'
  BY <1>1, SP!QuietStream, ServiceAssumptions
     DEF ServiceInv, SP!IInv, SP!vars, SP!clientVars, SP!queueVars
<1> QED
  BY <1>2, <1>3 DEF ServiceInv, serviceVars

\* A new connection is one of the service's clients, and all else is kept.
LEMMA OpenMoves ==
    ASSUME ServiceInv, LinkInv, Open
    PROVE  /\ ServiceInv'
           /\ conn = 0 /\ nconn' = nconn + 1 /\ conn' = nconn'
           /\ nconn' \in Connections
           /\ connected' = connected \union {nconn'}
           /\ UNCHANGED <<subscriptions, issued, broken, wire, replies, crashed, sent>>
<1>1. nconn' \in Connections /\ S!ClientConnects(nconn')
  BY MaxConnectionsAssumption DEF LinkInv, Open, Connections
<1>2. SP!ClientConnects(nconn')
  BY <1>1, SameService
<1>3. /\ connected' = connected \union {nconn'}
      /\ UNCHANGED <<subscriptions, issued, broken, wire, replies, crashed, up, incoming>>
  BY <1>1 DEF S!ClientConnects, S!queueVars, S!clientVars
<1>4. SP!IInv'
  BY <1>1, <1>2, SP!ClientConnectsKeeps, ServiceAssumptions DEF ServiceInv
<1>5. SP!SoundInv'
  BY <1>3, SP!QuietStream, ServiceAssumptions DEF ServiceInv, SP!IInv
<1> QED
  BY <1>1, <1>3, <1>4, <1>5 DEF Open, ServiceInv

\* The library takes the head of what the service has for it.
LEMMA ReadMoves ==
    ASSUME ServiceInv, LinkInv, Read
    PROVE  /\ ServiceInv'
           /\ Stream(conn) # <<>> /\ Stream(conn)' = Tail(Stream(conn))
           /\ UNCHANGED <<subscriptions, issued, broken, connected, crashed>>
           /\ UNCHANGED <<conn, nconn, sent>>
<1>1. PICK c \in Connections : c = conn /\ S!ClientReads(c)
  BY MaxConnectionsAssumption DEF LinkInv, Read, Connections
<1>2. SP!ClientReads(c)
  BY <1>1, SameService
<1>3. UNCHANGED <<subscriptions, issued, broken, connected, crashed>>
  BY <1>1 DEF S!ClientReads, S!connVars, S!queueVars
<1>4. SP!IInv'
  BY <1>1, <1>2, SP!ClientReadsKeeps, ServiceAssumptions DEF ServiceInv
<1>5. /\ SP!SoundInv'
      /\ SP!Stream(c) # <<>> /\ SP!Stream(c)' = Tail(SP!Stream(c))
  BY <1>2, SP!ClientReadsStream, ServiceAssumptions DEF ServiceInv, SP!IInv
<1>6. UNCHANGED linkVars
  BY DEF Read
<1>7. Stream(conn)' = Tail(Stream(conn)) /\ Stream(conn) # <<>>
  BY <1>1, <1>5, <1>6 DEF Stream, SP!Stream, linkVars
<1> QED
  BY <1>3, <1>4, <1>5, <1>6, <1>7 DEF ServiceInv, linkVars

\* A SUBSCRIBE read adds a subscription of its connection.
LEMMA ReadSubscribeMoves ==
    ASSUME ServiceInv, LinkInv, NEW k \in Connections, ReadSubscribe(k)
    PROVE  LET id == NextMessage(k).id
           IN  /\ ServiceInv'
               /\ subscriptions' = subscriptions \union {<<k, id>>}
               /\ issued' = issued \union {<<k, id>>}
               /\ UNCHANGED <<broken, connected, wire, replies, crashed>>
<1> DEFINE id == NextMessage(k).id
<1>1. PICK filter \in Filters : S!Subscribe(k, <<k, id>>, filter)
  BY DEF ReadSubscribe, Id
<1>2. sent[k] # <<>>
  BY DEF ReadSubscribe, Reading
<1>3. <<k, id>> \in SP!Rid
  BY <1>2, NextMessageLemma
<1>4. SP!Subscribe(k, <<k, id>>, filter)
  BY <1>1, SameService
<1>5. SP!IInv'
  BY <1>3, <1>4, SP!SubscribeKeeps, ServiceAssumptions DEF ServiceInv
<1>6. SP!SoundInv'
  BY <1>3, <1>4, SP!SubscribeStream, ServiceAssumptions DEF ServiceInv, SP!IInv
<1> QED
  BY <1>1, <1>5, <1>6 DEF S!Subscribe, S!Subscribing, ServiceInv

\* A SUBSCRIBE refused uses its id up and breaks the connection.
LEMMA ReadSubscribeFailingMoves ==
    ASSUME ServiceInv, LinkInv, NEW k \in Connections, ReadSubscribeFailing(k)
    PROVE  LET id == NextMessage(k).id
           IN  /\ ServiceInv'
               /\ issued' = issued \union {<<k, id>>}
               /\ broken' = broken \union {k}
               /\ UNCHANGED <<subscriptions, connected, wire, replies, crashed>>
<1> DEFINE r == <<k, NextMessage(k).id>>
<1>1. \/ S!SubscribeRejected(k, r)
      \/ S!SubscribeNotAnnounced(k, r)
      \/ S!SubscribeNotLookedUp(k, r)
  BY DEF ReadSubscribeFailing, Id
<1>2. sent[k] # <<>>
  BY DEF ReadSubscribeFailing, Reading
<1>3. r \in SP!Rid
  BY <1>2, NextMessageLemma
<1>4. \/ SP!SubscribeRejected(k, r)
      \/ SP!SubscribeNotAnnounced(k, r)
      \/ SP!SubscribeNotLookedUp(k, r)
  BY <1>1, SameService
<1>5. SP!IInv'
  BY <1>3, <1>4, SP!SubscribeFailsKeeps, ServiceAssumptions DEF ServiceInv
<1>6. /\ issued' = issued \union {r}
      /\ broken' = broken \union {k}
      /\ UNCHANGED <<subscriptions, connected, wire, replies, crashed, up, incoming>>
  BY <1>1 DEF S!SubscribeRejected, S!SubscribeNotAnnounced,
              S!SubscribeNotLookedUp, S!Subscribing, S!queueVars
<1>7. SP!SoundInv'
  BY <1>6, SP!QuietStream, ServiceAssumptions DEF ServiceInv, SP!IInv
<1> QED
  BY <1>5, <1>6, <1>7 DEF ServiceInv

\* An UNSUBSCRIBE read ends one subscription with its id, of any
\* connection, and appends its acknowledgement to the connection it came over.
LEMMA ReadUnsubscribeMoves ==
    ASSUME ServiceInv, LinkInv, NEW k \in Connections, ReadUnsubscribe(k)
    PROVE  LET id == NextMessage(k).id
           IN  /\ ServiceInv'
               /\ \E i \in Connections :
                     /\ <<i, id>> \in subscriptions
                     /\ subscriptions' = subscriptions \ {<<i, id>>}
                     /\ Stream(k)' = Stream(k) \o <<SP!Ack(<<i, id>>)>>
               /\ \A d \in Connections : d # k => Stream(d)' = Stream(d)
               /\ UNCHANGED <<issued, broken, connected, crashed>>
<1> DEFINE id == NextMessage(k).id
<1>1. PICK i \in Connections : S!Unsubscribe(k, <<i, id>>)
  BY DEF ReadUnsubscribe
<1>2. sent[k] # <<>>
  BY DEF ReadUnsubscribe, Reading
<1>3. <<i, id>> \in SP!Rid
  BY <1>2, NextMessageLemma
<1>4. SP!Unsubscribe(k, <<i, id>>)
  BY <1>1, SameService
<1>5. SP!IInv'
  BY <1>3, <1>4, SP!UnsubscribeKeeps, ServiceAssumptions DEF ServiceInv
<1>6. /\ SP!SoundInv'
      /\ SP!Stream(k)' = SP!Stream(k) \o <<SP!Ack(<<i, id>>)>>
      /\ \A d \in Connections : d # k => SP!Stream(d)' = SP!Stream(d)
  BY <1>3, <1>4, SP!UnsubscribeStream, ServiceAssumptions DEF ServiceInv, SP!IInv
<1>7. /\ <<i, id>> \in subscriptions
      /\ subscriptions' = subscriptions \ {<<i, id>>}
      /\ UNCHANGED <<issued, broken, connected, crashed>>
  BY <1>1 DEF S!Unsubscribe, S!Known, S!SubscriptionFree, S!Delisted, S!connVars
<1>8. \A d : SP!Stream(d) = Stream(d) /\ SP!Stream(d)' = Stream(d)'
  BY DEF SP!Stream, Stream
<1> HIDE DEF id
<1>9. /\ Stream(k)' = Stream(k) \o <<SP!Ack(<<i, id>>)>>
      /\ \A d \in Connections : d # k => Stream(d)' = Stream(d)
  BY <1>6, <1>8
<1> QED
  BY <1>5, <1>6, <1>7, <1>9 DEF ServiceInv, id

\* An UNSUBSCRIBE of an id the service does not hold crashes it.
LEMMA ReadUnsubscribeUnknownMoves ==
    ASSUME ServiceInv, LinkInv, NEW k \in Connections, ReadUnsubscribeUnknown(k)
    PROVE  /\ ServiceInv'
           /\ k \in connected \ broken
           /\ <<k, NextMessage(k).id>> \notin subscriptions
           /\ crashed'
           /\ UNCHANGED <<subscriptions, issued, broken, connected, wire, replies>>
<1>1. S!UnsubscribeUnknown(k, <<k, NextMessage(k).id>>)
  BY DEF ReadUnsubscribeUnknown, Id
<1>2. SP!Undefined
  BY <1>1, SameService DEF S!UnsubscribeUnknown
<1>3. SP!IInv'
  BY <1>2, SP!UndefinedKeeps, ServiceAssumptions DEF ServiceInv
<1>4. UNCHANGED <<subscriptions, issued, broken, connected, wire, replies, up, incoming>>
  BY <1>1 DEF S!UnsubscribeUnknown, S!Undefined, S!connVars, S!queueVars, S!clientVars
<1>5. SP!SoundInv'
  BY <1>4, SP!QuietStream, ServiceAssumptions DEF ServiceInv, SP!IInv
<1> QED
  BY <1>1, <1>3, <1>4, <1>5
     DEF ServiceInv, S!UnsubscribeUnknown, S!Unsubscribing, S!Known, S!Undefined

\* A connection that ended takes its own subscriptions with it.
LEMMA NoticesMoves ==
    ASSUME ServiceInv, NEW k \in Connections, Notices(k)
    PROVE  /\ ServiceInv'
           /\ \/ /\ broken' = broken \union {k}
                 /\ UNCHANGED <<connected, subscriptions>>
              \/ /\ broken' = broken \ {k}
                 /\ connected' = connected \ {k}
                 /\ subscriptions' = {r \in subscriptions : S!Owner(r) # k}
           /\ k # conn
           /\ \A d \in Connections : d # k => Stream(d)' = Stream(d)
           /\ UNCHANGED <<issued, crashed>>
<1>1. CASE S!ClientBreaks(k)
  <2>1. SP!ClientBreaks(k)
    BY <1>1, SameService
  <2>2. /\ broken' = broken \union {k}
        /\ UNCHANGED <<connected, subscriptions, issued, wire, replies, crashed, up, incoming>>
    BY <1>1 DEF S!ClientBreaks, S!queueVars, S!clientVars
  <2>3. SP!IInv'
    BY <2>1, SP!ClientBreaksKeeps, ServiceAssumptions DEF ServiceInv
  <2>4. SP!SoundInv'
    BY <2>2, SP!QuietStream, ServiceAssumptions DEF ServiceInv, SP!IInv
  <2>5. \A d \in Connections : Stream(d)' = Stream(d)
    BY <2>2 DEF Stream
  <2> QED
    BY <2>2, <2>3, <2>4, <2>5 DEF ServiceInv, Notices
<1>2. CASE S!ClientGone(k)
  <2>1. SP!ClientGone(k)
    BY <1>2, SameService
  <2>2. /\ broken' = broken \ {k}
        /\ connected' = connected \ {k}
        /\ subscriptions' = subscriptions \ S!Owned(k)
        /\ UNCHANGED <<issued, crashed>>
    BY <1>2 DEF S!ClientGone, S!clientVars, S!SubscriptionFree, S!Delisted
  <2>3. SP!IInv'
    BY <2>1, SP!ClientGoneKeeps, ServiceAssumptions DEF ServiceInv
  <2>4. /\ SP!SoundInv'
        /\ \A d \in Connections : d # k => SP!Stream(d)' = SP!Stream(d)
    BY <2>1, SP!ClientGoneStream, ServiceAssumptions DEF ServiceInv, SP!IInv
  <2>5. \A d \in Connections : d # k => Stream(d)' = Stream(d)
    BY <2>4 DEF SP!Stream, Stream
  <2> QED
    BY <2>2, <2>3, <2>4, <2>5 DEF ServiceInv, Notices, S!Owned
<1> QED
  BY <1>1, <1>2 DEF Notices

\* What the service hands to a connection stays in its stream.
LEMMA SendsMoves ==
    ASSUME ServiceInv, NEW k \in Connections, Sends(k)
    PROVE  /\ ServiceInv'
           /\ \A d \in Connections : Stream(d)' = Stream(d)
           /\ UNCHANGED <<subscriptions, issued, broken, connected, crashed>>
<1>1. CASE S!SendFails(k)
  <2>1. SP!SendFails(k)
    BY <1>1, SameService
  <2>2. UNCHANGED <<subscriptions, issued, broken, connected, crashed,
                    wire, replies, up, incoming>>
    BY <1>1 DEF S!SendFails, S!connVars, S!clientVars
  <2>3. SP!IInv'
    BY <2>1, SP!SendFailsKeeps, ServiceAssumptions DEF ServiceInv
  <2>4. SP!SoundInv'
    BY <2>2, SP!QuietStream, ServiceAssumptions DEF ServiceInv, SP!IInv
  <2> QED
    BY <2>2, <2>3, <2>4 DEF ServiceInv, Stream
<1>2. ASSUME NEW n \in 1..Len(replies[k]), S!SendReply(k, n)
      PROVE  /\ ServiceInv'
             /\ \A d \in Connections : Stream(d)' = Stream(d)
             /\ UNCHANGED <<subscriptions, issued, broken, connected, crashed>>
  <2>1. SP!SendReply(k, n)
    BY <1>2, SameService
  <2>2. SP!IInv'
    BY <2>1, SP!SendReplyKeeps, ServiceAssumptions DEF ServiceInv
  <2>3. /\ SP!SoundInv'
        /\ \A d \in Connections : SP!Stream(d)' = SP!Stream(d)
    BY <2>1, SP!SendReplyStream, ServiceAssumptions DEF ServiceInv, SP!IInv
  <2>4. UNCHANGED <<subscriptions, issued, broken, connected, crashed>>
    BY <1>2 DEF S!SendReply, S!connVars, S!clientVars
  <2>5. \A d \in Connections : Stream(d)' = Stream(d)
    BY <2>3 DEF SP!Stream, Stream
  <2> QED
    BY <2>2, <2>3, <2>4, <2>5 DEF ServiceInv
<1> QED
  BY <1>1, <1>2 DEF Sends, S!Sends

\* A PUBLISH appends at most one copy per subscription to the stream of
\* the subscription's connection.
LEMMA IncomingMoves ==
    ASSUME ServiceInv, Incoming
    PROVE  /\ ServiceInv'
           /\ \E t \in Topics : \A d \in Connections :
                 LET q == SP!Copies(d, t)
                 IN  /\ Stream(d)' = Stream(d) \o q
                     /\ q \in Seq(SP!Message)
                     /\ \A j \in 1..Len(q) :
                           /\ q[j].kind = "publish"
                           /\ q[j].rid \in subscriptions
                           /\ SP!Owner(q[j].rid) = d
                     /\ \A i, j \in 1..Len(q) : q[i].rid = q[j].rid => i = j
           /\ UNCHANGED <<subscriptions, issued, broken, connected, crashed>>
<1>1. PICK t \in Topics : S!IncomingPublish(t)
  BY DEF Incoming
<1>2. SP!IncomingPublish(t)
  BY <1>1, SameService
<1>3. SP!IInv'
  BY <1>2, SP!IncomingPublishKeeps, ServiceAssumptions DEF ServiceInv
<1>4. /\ SP!SoundInv'
      /\ \A d \in Connections : SP!Stream(d)' = SP!Stream(d) \o SP!Copies(d, t)
  BY <1>2, SP!IncomingPublishStream, ServiceAssumptions DEF ServiceInv, SP!IInv
<1>5. UNCHANGED <<subscriptions, issued, broken, connected, crashed>>
  BY <1>1 DEF S!IncomingPublish, S!connVars, S!clientVars
<1>6. incoming < MaxIncoming
  BY <1>1 DEF S!IncomingPublish
<1>7. ASSUME NEW d \in Connections
      PROVE  LET q == SP!Copies(d, t)
             IN  /\ q \in Seq(SP!Message)
                 /\ \A j \in 1..Len(q) :
                       /\ q[j].kind = "publish"
                       /\ q[j].rid \in subscriptions
                       /\ SP!Owner(q[j].rid) = d
                 /\ \A i, j \in 1..Len(q) : q[i].rid = q[j].rid => i = j
  BY <1>6, SP!CopiesAddressed, ServiceAssumptions DEF ServiceInv, SP!IInv
<1>8. \A d \in Connections : Stream(d)' = Stream(d) \o SP!Copies(d, t)
  BY <1>4 DEF SP!Stream, Stream
<1> QED
  BY <1>3, <1>4, <1>5, <1>7, <1>8 DEF ServiceInv

-----------------------------------------------------------------------------
(* What the properties rest on *)

\* A handle has had a connection since it was opened; it loses one, or gets
\* another, only where connections may break.
OpenInv ==
    /\ handle = "unset" => nconn = 0
    /\ handle = "open" => nconn > 0
    /\ handle = "open" /\ conn = 0 => Lossy
    /\ nconn > 1 => Lossy

\* An id is used for one connection only; an UNSUBSCRIBE that was sent ends
\* a request for good, and its id is not used for a later connection.
IdInv ==
    /\ \A k, l \in Connections : k # l => Made(k) \intersect Made(l) = {}
    /\ \A k \in Connections : Made(k) \subseteq 1..uid_gen
    /\ \A m \in ToSet(pending) : m.kind = "subscribe" =>
          \A k \in Connections : m.id \notin Made(k)
    /\ \A k \in Connections : \A m \in ToSet(sent[k]) :
          m.kind = "unsubscribe" =>
             /\ m.id \in unsubscribing \ hasPending
             /\ \A l \in Connections : l > k => m.id \notin Made(l)
    /\ \A k \in Connections : AP!Never(sent[k], AP!AfterUnsubscribe)

\* The first connection has been used to subscribe with id, unless the
\* service has ended it.
Held(id) == <<1, id>> \in subscriptions \/ 1 \in broken \/ 1 \notin connected
Sub(id) ==
    \/ Held(id)
    \/ \E m \in ToSet(sent[1]) : m.kind = "subscribe" /\ m.id = id

HoldInv ==
    /\ conn = 1 => \A id \in subs \ (hasPending \union released) : Sub(id)
    /\ conn = 1 => \A m \in ToSet(pending) : m.kind = "unsubscribe" => Sub(m.id)
    /\ nconn = 1 => \A m \in ToSet(sent[1]) : m.kind = "unsubscribe" => Sub(m.id)

\* What the service no longer holds for the connection, the application has
\* ended or will when it reads the acknowledgement.
AckOn(k, id) ==
    \E i \in 1..Len(Stream(k)) :
        Stream(k)[i].kind = "ack" /\ Stream(k)[i].rid[2] = id

GoneInv ==
    conn # 0 => \A id \in Req : <<conn, id>> \in issued =>
        \/ <<conn, id>> \in subscriptions
        \/ conn \in broken
        \/ id \notin ToSet(subscribed)
        \/ AckOn(conn, id)

-----------------------------------------------------------------------------
(* The steps of the service keep the link *)

\* A step of the service that reads, notices, sends or hears of a PUBLISH
ServiceStep ==
    \/ \E k \in Connections : Reads(k) \/ Notices(k) \/ Sends(k)
    \/ Incoming

\* What was sent over a connection is as it was, or its head has been read.
SentKept ==
    /\ sent' \in [Connections -> Seq(A!Message)]
    /\ \A k \in Connections :
          sent'[k] = sent[k] \/ (sent[k] # <<>> /\ sent'[k] = Tail(sent[k]))

\* No message appears in a connection by a step of the service.
LEMMA SentKeptLemma ==
    ASSUME LinkInv, SentKept
    PROVE  \A k \in Connections : ToSet(sent'[k]) \subseteq ToSet(sent[k])
<1> SUFFICES ASSUME NEW k \in Connections
             PROVE  ToSet(sent'[k]) \subseteq ToSet(sent[k])
  OBVIOUS
<1>1. sent[k] \in Seq(A!Message)
  BY DEF LinkInv
<1> QED
  BY <1>1, TailLemma DEF SentKept

\* Reading a message takes the head of its connection only.
LEMMA ConsumedKeeps ==
    ASSUME LinkInv, NEW k \in Connections, sent[k] # <<>>, Consumed(k)
    PROVE  SentKept /\ sent'[k] = Tail(sent[k])
             /\ ToSet(sent[k]) = ToSet(Tail(sent[k])) \union {NextMessage(k)}
<1>1. sent[k] \in Seq(A!Message)
  BY DEF LinkInv
<1>2. /\ Tail(sent[k]) \in Seq(A!Message)
      /\ ToSet(sent[k]) = ToSet(Tail(sent[k])) \union {Head(sent[k])}
  BY <1>1, TailLemma
<1> QED
  BY <1>2 DEF LinkInv, SentKept, Consumed, NextMessage

\* Nothing read leaves what was sent as it was.
LEMMA QuietKeeps ==
    ASSUME LinkInv, UNCHANGED sent
    PROVE  SentKept
BY DEF LinkInv, SentKept

\* A connection's ids are as before once one of them is read.
LEMMA MadeKept ==
    ASSUME LinkInv, SentKept,
           \A k \in Connections : \A id \in Req : <<k, id>> \in issued' =>
              <<k, id>> \in issued \/ id \in Made(k)
    PROVE  \A k \in Connections : Made(k)' \subseteq Made(k)
BY SentKeptLemma DEF Made

\* What a step of the service leaves as it is
ServiceKeeps ==
    /\ ServiceInv'
    /\ UNCHANGED <<libraryVars, conn, nconn>>
    /\ SentKept
    /\ \A k \in Connections : Made(k)' \subseteq Made(k)
    /\ connected' \subseteq connected
    /\ conn # 0 => conn \in connected'

\* Reading a message keeps the link.
LEMMA ReadsKeep ==
    ASSUME ServiceInv, LinkInv, NEW k \in Connections, Reads(k)
    PROVE  ServiceKeeps
<1> DEFINE id == NextMessage(k).id
<1>1. /\ sent[k] # <<>>
      /\ UNCHANGED <<libraryVars, conn, nconn>>
  BY DEF Reads, ReadSubscribe, ReadSubscribeFailing, ReadUnsubscribe,
         ReadUnsubscribeUnknown, ReadPublish, Reading
<1>2. /\ ServiceInv'
      /\ UNCHANGED connected
      /\ \/ issued' = issued
         \/ NextMessage(k).kind = "subscribe" /\ issued' = issued \union {<<k, id>>}
  <2>1. CASE ReadSubscribe(k)
    <3>1. ServiceInv' /\ connected' = connected /\ issued' = issued \union {<<k, id>>}
      BY <2>1, ReadSubscribeMoves
    <3> QED
      BY <2>1, <3>1 DEF ReadSubscribe, Reading
  <2>2. CASE ReadSubscribeFailing(k)
    <3>1. ServiceInv' /\ connected' = connected /\ issued' = issued \union {<<k, id>>}
      BY <2>2, ReadSubscribeFailingMoves
    <3> QED
      BY <2>2, <3>1 DEF ReadSubscribeFailing, Reading
  <2>3. CASE ReadUnsubscribe(k)
    <3>1. ServiceInv' /\ connected' = connected /\ issued' = issued
      BY <2>3, ReadUnsubscribeMoves
    <3> QED
      BY <3>1
  <2>4. CASE ReadUnsubscribeUnknown(k)
    BY <2>4, ReadUnsubscribeUnknownMoves
  <2>5. CASE ReadPublish(k)
    <3>1. UNCHANGED serviceVars
      BY <2>5 DEF ReadPublish
    <3>2. ServiceInv'
      BY <3>1, QuietServiceMoves
    <3> QED
      BY <3>1, <3>2 DEF serviceVars
  <2> QED
    BY <2>1, <2>2, <2>3, <2>4, <2>5 DEF Reads
<1>3. SentKept
  BY <1>1, ConsumedKeeps, QuietKeeps
     DEF Reads, ReadSubscribe, ReadSubscribeFailing, ReadUnsubscribe,
         ReadUnsubscribeUnknown, ReadPublish
<1>4. NextMessage(k).kind = "subscribe" => id \in Made(k)
  <2>1. NextMessage(k) \in ToSet(sent[k]) /\ id \in Req
    BY <1>1, NextMessageLemma, TailLemma DEF LinkInv, NextMessage
  <2> QED
    BY <2>1 DEF Made
<1> HIDE DEF id
<1>5. \A l \in Connections : \A i \in Req : <<l, i>> \in issued' =>
        <<l, i>> \in issued \/ i \in Made(l)
  BY <1>2, <1>4
<1>6. \A l \in Connections : Made(l)' \subseteq Made(l)
  BY <1>3, <1>5, MadeKept
<1> QED
  BY <1>1, <1>2, <1>3, <1>6 DEF ServiceKeeps, LinkInv

\* Every step of the service keeps the link.
LEMMA ServiceKeepsLemma ==
    ASSUME ServiceInv, LinkInv, ServiceStep
    PROVE  ServiceKeeps
<1>1. ASSUME NEW k \in Connections, Notices(k)
      PROVE  ServiceKeeps
  <2>1. /\ ServiceInv' /\ issued' = issued
        /\ connected' = connected \/ connected' = connected \ {k}
        /\ k # conn
    BY <1>1, NoticesMoves
  <2>2. UNCHANGED <<libraryVars, linkVars>>
    BY <1>1 DEF Notices
  <2> QED
    BY <2>1, <2>2, QuietKeeps, MadeKept DEF ServiceKeeps, LinkInv, linkVars
<1>2. ASSUME NEW k \in Connections, Sends(k)
      PROVE  ServiceKeeps
  <2>1. ServiceInv' /\ issued' = issued /\ connected' = connected
    BY <1>2, SendsMoves
  <2>2. UNCHANGED <<libraryVars, linkVars>>
    BY <1>2 DEF Sends
  <2> QED
    BY <2>1, <2>2, QuietKeeps, MadeKept DEF ServiceKeeps, LinkInv, linkVars
<1>3. CASE Incoming
  <2>1. ServiceInv' /\ issued' = issued /\ connected' = connected
    BY <1>3, IncomingMoves
  <2>2. UNCHANGED <<libraryVars, linkVars>>
    BY <1>3 DEF Incoming
  <2> QED
    BY <2>1, <2>2, QuietKeeps, MadeKept DEF ServiceKeeps, LinkInv, linkVars
<1> QED
  BY <1>1, <1>2, <1>3, ReadsKeep DEF ServiceStep

\* Every step of the service keeps what relates connections and ids.
LEMMA ServiceKeepsLink ==
    ASSUME LinkInv, OpenInv, IdInv, ServiceKeeps
    PROVE  LinkInv' /\ OpenInv' /\ IdInv'
<1>1. /\ UNCHANGED <<handle, conn, nconn, uid_gen, pending, unsubscribing, hasPending>>
      /\ SentKept
      /\ \A k \in Connections : Made(k)' \subseteq Made(k)
      /\ connected' \subseteq connected
      /\ conn # 0 => conn \in connected'
  BY DEF ServiceKeeps, libraryVars
<1>2. \A k \in Connections : ToSet(sent'[k]) \subseteq ToSet(sent[k])
  BY <1>1, SentKeptLemma
<1>3. LinkInv'
  BY <1>1 DEF LinkInv, SentKept
<1>4. OpenInv'
  BY <1>1 DEF OpenInv
<1>5. ASSUME NEW k \in Connections
      PROVE  AP!Never(sent'[k], AP!AfterUnsubscribe)
  <2>1. AP!Never(sent[k], AP!AfterUnsubscribe) /\ sent[k] \in Seq(A!Message)
    BY DEF IdInv, LinkInv
  <2>2. CASE sent[k] # <<>> /\ sent'[k] = Tail(sent[k])
    <3>1. AP!Never(Tail(sent[k]), AP!AfterUnsubscribe)
      BY <2>1, <2>2, AP!NeverTail, LibraryAssumptions
    <3> QED
      BY <2>2, <3>1
  <2> QED
    BY <1>1, <2>1, <2>2 DEF SentKept
<1>6. IdInv'
  <2>1. \A k, l \in Connections : k # l => Made(k)' \intersect Made(l)' = {}
    BY <1>1 DEF IdInv
  <2>2. \A k \in Connections : Made(k)' \subseteq 1..uid_gen'
    BY <1>1 DEF IdInv
  <2>3. \A m \in ToSet(pending') : m.kind = "subscribe" =>
           \A k \in Connections : m.id \notin Made(k)'
    BY <1>1 DEF IdInv
  <2>4. \A k \in Connections : \A m \in ToSet(sent'[k]) :
          m.kind = "unsubscribe" =>
             /\ m.id \in unsubscribing' \ hasPending'
             /\ \A l \in Connections : l > k => m.id \notin Made(l)'
    BY <1>1, <1>2 DEF IdInv
  <2> QED
    BY <1>5, <2>1, <2>2, <2>3, <2>4 DEF IdInv
<1> QED
  BY <1>3, <1>4, <1>6

-----------------------------------------------------------------------------
(* The steps of the library keep the link *)

\* A step of the library sends the head of its queue, or nothing; then it
\* connects, closes the connection, reads from it, or leaves the link alone.
LEMMA LibraryLinks ==
    ASSUME ServiceInv, LinkInv, Library
    PROVE  /\ ServiceInv'
           /\ \/ Send /\ AP!Transmit
              \/ Quiet \/ Open \/ Close \/ (Read /\ A!Reception)
           /\ UNCHANGED <<subscriptions, issued, broken, crashed>>
<1>1. CASE Quiet \/ Close \/ Send
  <2>1. UNCHANGED serviceVars
    BY <1>1 DEF Quiet, Close, Send
  <2>2. /\ ServiceInv'
        /\ UNCHANGED <<subscriptions, issued, broken, crashed>>
    BY <2>1, QuietServiceMoves
  <2> QED
    BY <1>1, <2>2, SameLibrary DEF Library, Send, Quiet, Open, Close, Read
<1>2. CASE Open
  BY <1>2, OpenMoves
<1>3. CASE Read /\ A!Reception
  BY <1>3, ReadMoves
<1> QED
  BY <1>1, <1>2, <1>3 DEF Library

\* A step that sends nothing
LEMMA UnsentKeepsIds ==
    ASSUME AP!IInv, IdInv, LinkInv, ~undefined, Library,
           UNCHANGED <<sent, issued>>
    PROVE  IdInv'
<1>1. /\ uid_gen' \in {uid_gen, uid_gen + 1}
      /\ \A m \in ToSet(pending') :
            \/ m \in ToSet(pending)
            \/ m.kind # "unsubscribe" /\ m.id = uid_gen' /\ uid_gen' # uid_gen
            \/ m.kind = "unsubscribe" /\ m.id \in subs \ (hasPending \union released)
      /\ unsubscribing \ hasPending \subseteq unsubscribing' \ hasPending'
  BY RequestsMove
<1>2. uid_gen \in Nat
  BY LibraryFacts, Bounds
<1>3. \A k \in Connections : Made(k)' = Made(k)
  BY DEF Made
<1>4. 1..uid_gen \subseteq 1..uid_gen'
  BY <1>1, <1>2
<1>5. uid_gen' # uid_gen => uid_gen' \notin 1..uid_gen
  BY <1>1, <1>2
<1>6. \A k \in Connections : Made(k)' \subseteq 1..uid_gen'
  BY <1>3, <1>4 DEF IdInv
<1>7. \A m \in ToSet(pending') : m.kind = "subscribe" =>
         \A k \in Connections : m.id \notin Made(k)'
  BY <1>1, <1>3, <1>5 DEF IdInv
<1>8. \A k \in Connections : \A m \in ToSet(sent'[k]) :
        m.kind = "unsubscribe" =>
           /\ m.id \in unsubscribing' \ hasPending'
           /\ \A l \in Connections : l > k => m.id \notin Made(l)'
  BY <1>1, <1>3 DEF IdInv
<1>9. \A k, l \in Connections : k # l => Made(k)' \intersect Made(l)' = {}
  BY <1>3 DEF IdInv
<1> QED
  BY <1>6, <1>7, <1>8, <1>9 DEF IdInv

\* What sending the head of the queue does
LEMMA SendMoves ==
    ASSUME AP!IInv, LinkInv, Send, AP!Transmit
    PROVE  LET h == Head(pending)
           IN  /\ conn \in Connections
               /\ h \in A!Message /\ h \in ToSet(pending) /\ h.id \in hasPending
               /\ ToSet(pending') = ToSet(pending) \ {h}
               /\ sent'[conn] \in Seq(A!Message)
               /\ sent'[conn] = Append(sent[conn], h)
               /\ ToSet(sent'[conn]) = ToSet(sent[conn]) \union {h}
               /\ sent' \in [Connections -> Seq(A!Message)]
               /\ \A k \in Connections : k # conn => sent'[k] = sent[k]
               /\ hasPending' = IF h.kind = "publish" THEN hasPending
                                                      ELSE hasPending \ {h.id}
               /\ h.kind = "subscribe" => h.id \in subs \ unsubscribing
               /\ h.kind = "unsubscribe" => h.id \in unsubscribing
               /\ UNCHANGED <<uid_gen, unsubscribing, subs, released, subscribed>>
<1> DEFINE h == Head(pending)
<1>1. conn \in Connections
  BY MaxConnectionsAssumption DEF LinkInv, Send, Connections
<1>2. /\ h \in AP!Message /\ h \in AP!ToSet(pending)
      /\ h.id \in hasPending
      /\ AP!ToSet(pending') = AP!ToSet(pending) \ {h}
      /\ hasPending' = IF h.kind = "publish" THEN hasPending
                                             ELSE hasPending \ {h.id}
      /\ h.kind = "subscribe" => h.id \in subs \ unsubscribing
      /\ h.kind = "unsubscribe" => h.id \in unsubscribing
      /\ UNCHANGED <<uid_gen, unsubscribing, subs, released, subscribed>>
  BY AP!TransmitMoves, LibraryAssumptions
<1>3. AP!Message = A!Message
  BY DEF A!Message, A!Kind, A!Req, AP!Message, AP!Kind, AP!Req
<1> HIDE DEF h
<1>4. /\ h \in A!Message /\ h \in ToSet(pending)
      /\ ToSet(pending') = ToSet(pending) \ {h}
  BY <1>2, <1>3, SameToSet
<1>5. /\ sent[conn] \in Seq(A!Message)
      /\ sent'[conn] = Append(sent[conn], h)
      /\ \A k \in Connections : k # conn => sent'[k] = sent[k]
      /\ sent' = [sent EXCEPT ![conn] = Append(sent[conn], h)]
  BY <1>1 DEF LinkInv, Send, h
<1>6. /\ sent'[conn] \in Seq(A!Message)
      /\ ToSet(sent'[conn]) = ToSet(sent[conn]) \union {h}
  BY <1>4, <1>5, AppendLemma
<1>7. sent' \in [Connections -> Seq(A!Message)]
  BY <1>1, <1>5, <1>6 DEF LinkInv
<1> QED
  BY <1>1, <1>2, <1>4, <1>5, <1>6, <1>7 DEF h

\* A request that was made once is sent once.
LEMMA SendKeepsIds ==
    ASSUME AP!IInv, IdInv, LinkInv, Send, AP!Transmit, issued' = issued
    PROVE  /\ IdInv'
           /\ \A k \in Connections : k # conn => Made(k)' = Made(k)
<1> DEFINE h == Head(pending)
<1>1. /\ conn \in Connections
      /\ h \in A!Message /\ h \in ToSet(pending) /\ h.id \in hasPending
      /\ ToSet(pending') = ToSet(pending) \ {h}
      /\ sent'[conn] = Append(sent[conn], h)
      /\ ToSet(sent'[conn]) = ToSet(sent[conn]) \union {h}
      /\ \A k \in Connections : k # conn => sent'[k] = sent[k]
      /\ hasPending' = IF h.kind = "publish" THEN hasPending
                                             ELSE hasPending \ {h.id}
      /\ h.kind = "unsubscribe" => h.id \in unsubscribing
      /\ UNCHANGED <<uid_gen, unsubscribing>>
  BY SendMoves
<1> HIDE DEF h
<1> PICK c \in Connections : c = conn
  BY <1>1
<1>2. h.id \in 1..uid_gen /\ h.id \in Req
  <2>1. h.id \in 1..uid_gen
    BY <1>1, LibraryFacts
  <2> QED
    BY <1>1, <2>1, MessageLemma
<1>3. \A k \in Connections : k # conn => Made(k)' = Made(k)
  BY <1>1 DEF Made
<1>4. /\ h.kind = "subscribe" => Made(c)' = Made(c) \union {h.id}
      /\ h.kind # "subscribe" => Made(c)' = Made(c)
  BY <1>1, <1>2 DEF Made
<1>5. h.kind = "subscribe" => \A k \in Connections : h.id \notin Made(k)
  BY <1>1 DEF IdInv
<1>6. \A k \in Connections : k > c => Made(k) = {}
  BY <1>1 DEF LinkInv, Connections, Send
<1>7. ASSUME NEW k \in Connections, NEW l \in Connections, k # l
      PROVE  Made(k)' \intersect Made(l)' = {}
  <2>1. Made(k) \intersect Made(l) = {}
    BY <1>7 DEF IdInv
  <2> QED
    BY <1>3, <1>4, <1>5, <1>7, <2>1
<1>8. \A k \in Connections : Made(k)' \subseteq 1..uid_gen'
  BY <1>1, <1>2, <1>3, <1>4 DEF IdInv
<1>9. ASSUME NEW m \in ToSet(pending'), m.kind = "subscribe",
             NEW k \in Connections
      PROVE  m.id \notin Made(k)'
  <2>1. m \in ToSet(pending) /\ m # h
    BY <1>1, <1>9
  <2>2. m \in A!Message
    <3>1. pending \in Seq(A!Message)
      BY LibraryFacts
    <3>2. \A s \in Seq(A!Message) : \A x \in ToSet(s) : x \in A!Message
      BY DEF ToSet
    <3> QED
      BY <2>1, <3>1, <3>2
  <2>3. h.kind = "subscribe" => m.id # h.id
    BY <1>1, <1>9, <2>1, <2>2 DEF A!Message
  <2>4. m.id \notin Made(k)
    BY <1>9, <2>1 DEF IdInv
  <2> QED
    BY <1>3, <1>4, <2>3, <2>4
<1>10. ASSUME NEW k \in Connections, NEW m \in ToSet(sent'[k]),
              m.kind = "unsubscribe"
       PROVE  /\ m.id \in unsubscribing' \ hasPending'
              /\ \A l \in Connections : l > k => m.id \notin Made(l)'
  <2>1. CASE m \in ToSet(sent[k])
    <3>1. /\ m.id \in unsubscribing \ hasPending
          /\ \A l \in Connections : l > k => m.id \notin Made(l)
      BY <1>10, <2>1 DEF IdInv
    <3> QED
      BY <1>1, <1>3, <1>4, <3>1
  <2>2. CASE m \notin ToSet(sent[k])
    <3>1. m = h /\ k = conn
      BY <1>1, <1>10, <2>2
    <3>2. \A l \in Connections : l > conn => l # conn
      BY <1>1 DEF Connections
    <3> QED
      BY <1>1, <1>3, <1>6, <1>10, <3>1, <3>2
  <2> QED
    BY <2>1, <2>2
<1>11. ASSUME NEW k \in Connections
       PROVE  AP!Never(sent'[k], AP!AfterUnsubscribe)
  <2>1. AP!Never(sent[k], AP!AfterUnsubscribe) /\ sent[k] \in Seq(A!Message)
    BY DEF IdInv, LinkInv
  <2>2. CASE k = conn
    <3>1. \A y \in ToSet(sent[k]) : <<y, h>> \notin AP!AfterUnsubscribe
      <4>1. \A y \in ToSet(sent[k]) :
               y.kind = "unsubscribe" => y.id \notin hasPending
        BY DEF IdInv
      <4> QED
        BY <1>1, <4>1 DEF AP!AfterUnsubscribe
    <3>2. \A y \in AP!ToSet(sent[k]) : <<y, h>> \notin AP!AfterUnsubscribe
      BY <3>1, SameToSet
    <3>3. AP!Never(Append(sent[k], h), AP!AfterUnsubscribe)
      BY <1>1, <2>1, <3>2, AP!NeverAppend, LibraryAssumptions
    <3> QED
      BY <1>1, <2>2, <3>3
  <2> QED
    BY <1>1, <2>1, <2>2
<1>12. /\ \A k, l \in Connections : k # l => Made(k)' \intersect Made(l)' = {}
       /\ \A m \in ToSet(pending') : m.kind = "subscribe" =>
             \A k \in Connections : m.id \notin Made(k)'
       /\ \A k \in Connections : \A m \in ToSet(sent'[k]) :
             m.kind = "unsubscribe" =>
                /\ m.id \in unsubscribing' \ hasPending'
                /\ \A l \in Connections : l > k => m.id \notin Made(l)'
       /\ \A k \in Connections : AP!Never(sent'[k], AP!AfterUnsubscribe)
  BY <1>7, <1>9, <1>10, <1>11
<1>13. IdInv'
  BY <1>8, <1>12 DEF IdInv
<1> QED
  BY <1>3, <1>13

\* Every step of the library keeps what relates connections and ids.
LEMMA LibraryKeepsLink ==
    ASSUME AP!IInv, AP!DInv, ServiceInv, LinkInv, OpenInv, IdInv,
           ~undefined, Library
    PROVE  ServiceInv' /\ LinkInv' /\ OpenInv' /\ IdInv'
<1>1. /\ ServiceInv'
      /\ \/ Send /\ AP!Transmit
         \/ Quiet \/ Open \/ Close \/ Read
      /\ UNCHANGED <<subscriptions, issued, broken, crashed>>
  BY LibraryLinks
<1>2. ASSUME Send, AP!Transmit
      PROVE  LinkInv' /\ IdInv'
  <2>1. IdInv' /\ \A k \in Connections : k # conn => Made(k)' = Made(k)
    BY <1>1, <1>2, SendKeepsIds
  <2>2. /\ sent' \in [Connections -> Seq(A!Message)]
        /\ \A k \in Connections : k # conn => sent'[k] = sent[k]
    BY <1>2, SendMoves
  <2>3. /\ conn' \in {conn, 0} /\ conn # 0 /\ UNCHANGED <<nconn, connected>>
    BY <1>2 DEF Send, serviceVars
  <2>4. \A k \in Connections : k > nconn =>
          k # conn /\ sent[k] = <<>> /\ k \notin connected /\ Made(k) = {}
    BY <2>3 DEF LinkInv, Connections
  <2>5. \A k \in Connections : k > nconn' =>
          sent'[k] = <<>> /\ k \notin connected' /\ Made(k)' = {}
    BY <2>1, <2>2, <2>3, <2>4
  <2>6. LinkInv'
    BY <2>2, <2>3, <2>5 DEF LinkInv
  <2> QED
    BY <2>1, <2>3, <2>6
<1>3. ASSUME Quiet \/ Open \/ Close \/ Read
      PROVE  LinkInv' /\ IdInv'
  <2>1. UNCHANGED sent
    BY <1>3 DEF Quiet, Open, Close, Read, linkVars
  <2>2. IdInv'
    BY <1>1, <2>1, UnsentKeepsIds
  <2>3. \A k \in Connections : Made(k)' = Made(k)
    BY <1>1, <2>1 DEF Made
  <2>4. /\ nconn' \in {nconn, nconn + 1}
        /\ nconn' \in 0..MaxConnections /\ conn' \in {0, nconn'}
        /\ connected' \subseteq connected \union {nconn'}
        /\ nconn' = nconn => connected' = connected
        /\ conn' # 0 => conn' \in connected'
    <3>1. CASE Open
      <4>1. /\ conn = 0 /\ nconn' = nconn + 1 /\ conn' = nconn'
            /\ nconn' \in Connections
            /\ connected' = connected \union {nconn'}
        BY <3>1, OpenMoves
      <4> QED
        BY <4>1, MaxConnectionsAssumption DEF Connections, LinkInv
    <3>2. CASE Read
      <4>1. connected' = connected /\ UNCHANGED <<conn, nconn>>
        BY <3>2, ReadMoves
      <4> QED
        BY <4>1 DEF LinkInv
    <3>3. CASE Quiet \/ Close
      BY <3>3 DEF Quiet, Close, LinkInv, linkVars, serviceVars
    <3> QED
      BY <1>3, <3>1, <3>2, <3>3
  <2>5. \A k \in Connections : k > nconn' =>
          sent'[k] = <<>> /\ k \notin connected' /\ Made(k)' = {}
    <3>1. \A k \in Connections : k > nconn' => k > nconn /\ k # nconn'
      BY <2>4 DEF LinkInv, Connections
    <3> QED
      BY <2>1, <2>3, <2>4, <3>1 DEF LinkInv
  <2>6. LinkInv'
    BY <2>1, <2>4, <2>5 DEF LinkInv
  <2> QED
    BY <2>2, <2>6
<1>4. LinkInv' /\ IdInv'
  BY <1>1, <1>2, <1>3
<1>5. /\ handle' = "unset" => handle = "unset"
      /\ handle' = "open" =>
            handle = "open" \/ (handle = "unset" /\ conn' # 0)
      /\ conn # 0 /\ conn' = 0 => handle' = "freed" \/ Lossy
      /\ conn = 0 /\ conn' # 0 => handle' = "open"
  BY LibraryMoves
<1>6. \/ nconn' = nconn
      \/ nconn' = nconn + 1 /\ conn = 0 /\ conn' = nconn'
  BY <1>1 DEF Quiet, Open, Close, Read, Send, linkVars
<1>7. nconn \in Nat /\ nconn' \in Nat /\ conn' \in {0, nconn'}
  BY <1>4, MaxConnectionsAssumption DEF LinkInv
<1>8. OpenInv'
  <2>1. nconn' # nconn => conn' # 0 /\ handle' = "open"
    BY <1>5, <1>6, <1>7
  <2>2. handle' = "unset" => nconn' = 0
    BY <1>5, <2>1 DEF OpenInv
  <2>3. handle' = "open" => nconn' > 0
    BY <1>5, <1>6, <1>7 DEF OpenInv
  <2>4. handle' = "open" /\ conn' = 0 => Lossy
    BY <1>5 DEF OpenInv
  <2>5. nconn' > 1 => Lossy
    BY <1>5, <1>6, <1>7 DEF OpenInv
  <2> QED
    BY <2>2, <2>3, <2>4, <2>5 DEF OpenInv, Lossy
<1> QED
  BY <1>1, <1>4, <1>8

-----------------------------------------------------------------------------
(* The first connection's subscriptions are held *)

\* Every step of the library keeps HoldInv: an UNSUBSCRIBE is queued and
\* sent only after the SUBSCRIBE of its id.
LEMMA LibraryKeepsHold ==
    ASSUME AP!IInv, AP!DInv, ServiceInv, LinkInv, OpenInv, HoldInv,
           ~undefined, Library
    PROVE  HoldInv'
<1>1. /\ \/ Send /\ AP!Transmit
         \/ Quiet \/ Open \/ Close \/ Read
      /\ UNCHANGED <<subscriptions, issued, broken, crashed>>
  BY LibraryLinks
<1>2. /\ \A m \in ToSet(pending') :
            \/ m \in ToSet(pending)
            \/ m.kind # "unsubscribe"
            \/ m.kind = "unsubscribe" /\ m.id \in subs \ (hasPending \union released)
      /\ \A id \in subs' \ (hasPending' \union released') :
            \/ id \in subs \ (hasPending \union released)
            \/ conn' = 0
            \/ /\ conn' # 0
               /\ \E m \in A!Message :
                     /\ m.kind = "subscribe" /\ m.id = id
                     /\ sent'[conn'] =
                           Append(IF conn = 0 THEN <<>> ELSE sent[conn], m)
  BY RequestsMove
<1>3. ASSUME Open
      PROVE  HoldInv'
  <2>1. /\ conn = 0 /\ nconn' = nconn + 1 /\ conn' = nconn'
        /\ nconn' \in Connections /\ UNCHANGED sent
    BY <1>3, OpenMoves
  <2>2. nconn' > nconn /\ nconn \in Nat /\ conn' # 0
    BY <2>1, MaxConnectionsAssumption DEF LinkInv
  <2>3. sent[nconn'] = <<>>
    BY <2>1, <2>2 DEF LinkInv
  <2>4. CASE nconn' = 1
    <3>1. handle = "unset"
      BY <2>1, <2>2, <2>4, LibraryMoves DEF OpenInv
    <3>2. subs = {} /\ pending = <<>>
      BY <3>1, LibraryFacts
    <3>3. ToSet(sent'[1]) = {}
      BY <2>1, <2>3, <2>4, EmptyLemma
    <3>4. ToSet(pending) = {}
      BY <3>2, EmptyLemma
    <3>5. ASSUME NEW m \in A!Message, sent'[conn'] = Append(<<>>, m)
          PROVE  FALSE
      <4>1. <<>> \in Seq(A!Message)
        BY EmptyLemma
      <4>2. Append(<<>>, m) # <<>>
        BY <4>1, AppendLemma
      <4> QED
        BY <2>1, <2>3, <3>5, <4>2
    <3>6. subs' \ (hasPending' \union released') = {}
      BY <1>2, <2>1, <2>2, <3>2, <3>5
    <3> QED
      BY <1>2, <3>2, <3>3, <3>4, <3>6 DEF HoldInv
  <2> QED
    BY <2>1, <2>2, <2>4 DEF HoldInv
<1>4. ASSUME ~Open
      PROVE  HoldInv'
  <2>1. nconn' = nconn /\ connected' = connected /\ conn' \in {conn, 0}
    <3>1. CASE Read
      BY <3>1, ReadMoves
    <3> QED
      BY <1>1, <1>4, <3>1 DEF Quiet, Close, Send, linkVars, serviceVars
  <2>2. CASE nconn # 1
    <3>1. conn' # 1
      BY <2>1, <2>2 DEF LinkInv
    <3> QED
      BY <2>1, <2>2, <3>1 DEF HoldInv
  <2>3. CASE nconn = 1
    <3>1. 1 \in Connections
      BY <2>3, MaxConnectionsAssumption DEF LinkInv, Connections
    <3>2. \/ UNCHANGED sent
          \/ LET h == Head(pending)
             IN  /\ conn = 1 /\ h \in ToSet(pending)
                 /\ ToSet(sent'[1]) = ToSet(sent[1]) \union {h}
      <4>1. CASE Send /\ AP!Transmit
        <5>1. conn = 1
          BY <2>3, <4>1 DEF LinkInv, Send
        <5> QED
          BY <4>1, <5>1, SendMoves
      <4> QED
        BY <1>1, <4>1 DEF Quiet, Open, Close, Read, linkVars
    <3>3. \A id : Held(id) => Held(id)'
      BY <1>1, <2>1 DEF Held
    <3>4. \A id : Sub(id) => Sub(id)'
      BY <3>2, <3>3 DEF Sub
    <3>5. ASSUME NEW id \in subs' \ (hasPending' \union released'), conn' = 1
          PROVE  Sub(id)'
      <4>1. CASE id \in subs \ (hasPending \union released)
        BY <2>1, <3>4, <3>5, <4>1 DEF HoldInv
      <4>2. CASE id \notin subs \ (hasPending \union released)
        <5>1. PICK m \in A!Message : /\ m.kind = "subscribe" /\ m.id = id
                                     /\ sent'[1] = Append(sent[1], m)
          BY <1>2, <2>1, <3>5, <4>2
        <5>2. sent[1] \in Seq(A!Message)
          BY <3>1 DEF LinkInv
        <5>3. m \in ToSet(sent'[1])
          BY <5>1, <5>2, AppendLemma
        <5> QED
          BY <5>1, <5>3 DEF Sub
      <4> QED
        BY <4>1, <4>2
    <3>6. ASSUME NEW m \in ToSet(pending'), m.kind = "unsubscribe", conn' = 1
          PROVE  Sub(m.id)'
      BY <1>2, <2>1, <3>4, <3>6 DEF HoldInv
    <3>7. ASSUME NEW m \in ToSet(sent'[1]), m.kind = "unsubscribe"
          PROVE  Sub(m.id)'
      BY <2>3, <3>2, <3>4, <3>7 DEF HoldInv
    <3> QED
      BY <2>1, <2>3, <3>5, <3>6, <3>7 DEF HoldInv
  <2> QED
    BY <2>2, <2>3
<1> QED
  BY <1>3, <1>4

\* The service holds them until it reads their UNSUBSCRIBE.
LEMMA HeldUntilRead ==
    ASSUME ServiceInv, LinkInv, ServiceStep, 1 \in Connections,
           NEW id, Sub(id),
           \A k \in Connections : ReadUnsubscribe(k) => NextMessage(k).id # id
    PROVE  Sub(id)'
<1>1. ASSUME NEW k \in Connections, Reads(k)
      PROVE  Sub(id)'
  <2>0. PICK h : h = NextMessage(k)
    OBVIOUS
  <2>1. sent[k] # <<>>
    BY <1>1 DEF Reads, ReadSubscribe, ReadSubscribeFailing, ReadUnsubscribe,
                ReadUnsubscribeUnknown, ReadPublish, Reading
  <2>2. ASSUME Consumed(k), h.kind = "subscribe" => Held(h.id)' \/ k # 1,
               Held(id) => Held(id)'
        PROVE  Sub(id)'
    <3>1. /\ sent'[k] = Tail(sent[k])
          /\ ToSet(sent[k]) = ToSet(Tail(sent[k])) \union {h}
      BY <2>0, <2>1, <2>2, ConsumedKeeps
    <3>2. k # 1 => sent'[1] = sent[1]
      BY <2>2 DEF Consumed, LinkInv
    <3>3. CASE Held(id)
      BY <2>2, <3>3 DEF Sub
    <3>4. ASSUME NEW m \in ToSet(sent[1]), m.kind = "subscribe", m.id = id
          PROVE  Sub(id)'
      <4>1. CASE m \in ToSet(sent'[1])
        BY <3>4, <4>1 DEF Sub
      <4>2. CASE m \notin ToSet(sent'[1])
        <5>1. m = h /\ k = 1
          BY <3>1, <3>2, <3>4, <4>2
        <5> QED
          BY <2>2, <3>4, <5>1 DEF Sub
      <4> QED
        BY <4>1, <4>2
    <3> QED
      BY <3>3, <3>4 DEF Sub
  <2>3. CASE ReadSubscribe(k)
    <3>1. /\ subscriptions' = subscriptions \union {<<k, h.id>>}
          /\ UNCHANGED <<broken, connected>>
      BY <2>0, <2>3, ReadSubscribeMoves
    <3>2. Held(id) => Held(id)'
      BY <3>1 DEF Held
    <3>3. Held(h.id)' \/ k # 1
      BY <3>1 DEF Held
    <3> QED
      BY <2>2, <2>3, <3>2, <3>3 DEF ReadSubscribe
  <2>4. CASE ReadSubscribeFailing(k)
    <3>1. /\ broken' = broken \union {k}
          /\ UNCHANGED <<subscriptions, connected, sent>>
      BY <2>4, ReadSubscribeFailingMoves DEF ReadSubscribeFailing
    <3> QED
      BY <3>1 DEF Sub, Held
  <2>5. CASE ReadUnsubscribe(k)
    <3>1. PICK i \in Connections : subscriptions' = subscriptions \ {<<i, h.id>>}
      BY <2>0, <2>5, ReadUnsubscribeMoves
    <3>2. UNCHANGED <<broken, connected>> /\ h.id # id /\ h.kind = "unsubscribe"
      BY <2>0, <2>5, ReadUnsubscribeMoves DEF ReadUnsubscribe, Reading
    <3>3. Held(id) => Held(id)'
      BY <3>1, <3>2 DEF Held
    <3> QED
      BY <2>2, <2>5, <3>2, <3>3 DEF ReadUnsubscribe
  <2>6. CASE ReadUnsubscribeUnknown(k)
    <3>1. UNCHANGED <<subscriptions, broken, connected, sent>>
      BY <2>6, ReadUnsubscribeUnknownMoves DEF ReadUnsubscribeUnknown
    <3> QED
      BY <3>1 DEF Sub, Held
  <2>7. CASE ReadPublish(k)
    <3>1. h.kind = "publish" /\ UNCHANGED <<subscriptions, broken, connected>>
      BY <2>0, <2>7 DEF ReadPublish, Reading, serviceVars
    <3>2. Held(id) => Held(id)'
      BY <3>1 DEF Held
    <3> QED
      BY <2>2, <2>7, <3>1, <3>2 DEF ReadPublish
  <2> QED
    BY <1>1, <2>3, <2>4, <2>5, <2>6, <2>7 DEF Reads
<1>2. ASSUME NEW k \in Connections, Notices(k)
      PROVE  Sub(id)'
  <2>1. /\ UNCHANGED sent
        /\ \/ /\ broken' = broken \union {k}
              /\ UNCHANGED <<connected, subscriptions>>
           \/ /\ broken' = broken \ {k}
              /\ connected' = connected \ {k}
              /\ subscriptions' = {r \in subscriptions : S!Owner(r) # k}
    BY <1>2, NoticesMoves DEF Notices, linkVars
  <2>2. S!Owner(<<1, id>>) = 1
    BY DEF S!Owner
  <2>3. Held(id) => Held(id)'
    BY <2>1, <2>2 DEF Held
  <2> QED
    BY <2>1, <2>3 DEF Sub
<1>3. ASSUME NEW k \in Connections, Sends(k)
      PROVE  Sub(id)'
  <2>1. UNCHANGED <<subscriptions, broken, connected, sent>>
    BY <1>3, SendsMoves DEF Sends, linkVars
  <2> QED
    BY <2>1 DEF Sub, Held
<1>4. CASE Incoming
  <2>1. UNCHANGED <<subscriptions, broken, connected, sent>>
    BY <1>4, IncomingMoves DEF Incoming, linkVars
  <2> QED
    BY <2>1 DEF Sub, Held
<1> QED
  BY <1>1, <1>2, <1>3, <1>4 DEF ServiceStep

\* Every step of the service keeps HoldInv: SUBSCRIBE is read before
\* UNSUBSCRIBE.
LEMMA ServiceKeepsHold ==
    ASSUME AP!IInv, ServiceInv, LinkInv, IdInv, HoldInv, ServiceStep
    PROVE  HoldInv'
<1>1. /\ UNCHANGED <<pending, subs, hasPending, released, conn, nconn>>
      /\ SentKept
  BY ServiceKeepsLemma DEF ServiceKeeps, libraryVars
<1>2. CASE nconn # 1
  <2>1. conn # 1
    BY <1>2 DEF LinkInv
  <2> QED
    BY <1>1, <1>2, <2>1 DEF HoldInv
<1>3. CASE nconn = 1
  <2>1. 1 \in Connections
    BY <1>3, MaxConnectionsAssumption DEF LinkInv, Connections
  <2>2. ASSUME NEW k \in Connections, ReadUnsubscribe(k)
        PROVE  LET h == NextMessage(k)
               IN  /\ k = 1 /\ h.kind = "unsubscribe"
                   /\ h.id \in released /\ h.id \notin hasPending
                   /\ \A m \in ToSet(sent'[1]) :
                         m.kind = "unsubscribe" => m.id # h.id
    <3> DEFINE h == NextMessage(k)
    <3>1. /\ sent[k] # <<>> /\ h.kind = "unsubscribe" /\ Consumed(k)
          /\ sent[k] \in Seq(A!Message)
      BY <2>2 DEF ReadUnsubscribe, Reading, LinkInv
    <3>2. /\ sent'[k] = Tail(sent[k])
          /\ ToSet(sent[k]) = ToSet(Tail(sent[k])) \union {h}
      BY <3>1, ConsumedKeeps
    <3>3. k = 1
      <4>1. ~(k > nconn)
        BY <3>1 DEF LinkInv
      <4> QED
        BY <1>3, <4>1 DEF Connections
    <3>4. h.id \in unsubscribing \ hasPending
      BY <3>1, <3>2 DEF IdInv
    <3>5. \A y \in AP!ToSet(Tail(sent[k])) : <<h, y>> \notin AP!AfterUnsubscribe
      <4>1. AP!Never(sent[k], AP!AfterUnsubscribe)
        BY DEF IdInv
      <4>2. \A y \in AP!ToSet(Tail(sent[k])) :
               <<Head(sent[k]), y>> \notin AP!AfterUnsubscribe
        BY <3>1, <4>1, AP!NeverTail, LibraryAssumptions
      <4> QED
        BY <4>2 DEF NextMessage
    <3> HIDE DEF h
    <3>6. \A m \in ToSet(sent[k]) : m \in AP!Message
      <4>1. AP!Message = A!Message
        BY DEF A!Message, A!Kind, A!Req, AP!Message, AP!Kind, AP!Req
      <4>2. \A s \in Seq(A!Message) : \A x \in ToSet(s) : x \in A!Message
        BY DEF ToSet
      <4> QED
        BY <3>1, <4>1, <4>2
    <3>7. \A m \in ToSet(sent'[1]) : m.kind = "unsubscribe" => m.id # h.id
      BY <3>1, <3>2, <3>3, <3>5, <3>6, SameToSet DEF AP!AfterUnsubscribe
    <3> QED
      BY <3>1, <3>3, <3>4, <3>7, LibraryFacts DEF h
  <2>3. ASSUME NEW id, Sub(id), id \in hasPending \/ id \notin released
        PROVE  Sub(id)'
    BY <2>1, <2>2, <2>3, HeldUntilRead
  <2>4. conn = 1 => \A id \in subs \ (hasPending \union released) : Sub(id)'
    BY <2>3 DEF HoldInv
  <2>5. conn = 1 => \A m \in ToSet(pending) : m.kind = "unsubscribe" => Sub(m.id)'
    <3>1. \A m \in ToSet(pending) : m.id \in hasPending
      BY LibraryFacts
    <3> QED
      BY <2>3, <3>1 DEF HoldInv
  <2>6. ASSUME NEW m \in ToSet(sent'[1]), m.kind = "unsubscribe"
        PROVE  Sub(m.id)'
    <3>1. m \in ToSet(sent[1])
      BY <1>1, <2>1, SentKeptLemma
    <3>2. Sub(m.id)
      BY <1>3, <2>6, <3>1 DEF HoldInv
    <3>3. \A k \in Connections : ReadUnsubscribe(k) => NextMessage(k).id # m.id
      BY <2>2, <2>6
    <3> QED
      BY <2>1, <3>2, <3>3, HeldUntilRead
  <2> QED
    BY <1>1, <2>4, <2>5, <2>6 DEF HoldInv
<1> QED
  BY <1>2, <1>3

-----------------------------------------------------------------------------
(* What the service no longer holds *)

\* The type of what the service has for a connection
LEMMA Streams ==
    ASSUME ServiceInv
    PROVE  \A k \in Connections : /\ Stream(k) \in Seq(SP!Message)
                                  /\ Len(Stream(k)) \in Nat
                                  /\ subscriptions \subseteq issued
<1>1. \A k \in Connections : SP!Stream(k) \in Seq(SP!Message)
                               /\ Len(SP!Stream(k)) \in Nat
  BY SP!StreamType, ServiceAssumptions DEF ServiceInv, SP!IInv
<1>2. \A k : SP!Stream(k) = Stream(k)
  BY DEF SP!Stream, Stream
<1> QED
  BY <1>1, <1>2 DEF ServiceInv, SP!SoundInv

\* An acknowledgement stays on a stream that grows.
LEMMA AckStays ==
    ASSUME ServiceInv, NEW k \in Connections, NEW id,
           NEW q \in Seq(SP!Message), Stream(k)' = Stream(k) \o q
    PROVE  /\ AckOn(k, id) => AckOn(k, id)'
           /\ \A r : q = <<SP!Ack(r)>> /\ r[2] = id => AckOn(k, id)'
<1>1. Stream(k) \in Seq(SP!Message) /\ Len(Stream(k)) \in Nat
  BY Streams
<1>2. \A x, y \in Seq(SP!Message) :
        /\ Len(x \o y) = Len(x) + Len(y)
        /\ \A i \in 1..Len(x) + Len(y) :
              (x \o y)[i] = IF i <= Len(x) THEN x[i] ELSE y[i - Len(x)]
  BY ConcatProperties
<1>3. Len(q) \in Nat
  BY LenProperties
<1>4. /\ Len(Stream(k)') = Len(Stream(k)) + Len(q)
      /\ \A i \in 1..Len(Stream(k)) + Len(q) :
            Stream(k)'[i] = IF i <= Len(Stream(k)) THEN Stream(k)[i]
                                                ELSE q[i - Len(Stream(k))]
  BY <1>1, <1>2, Zenon
<1>5. AckOn(k, id) => AckOn(k, id)'
  BY <1>1, <1>3, <1>4 DEF AckOn
<1>6. ASSUME NEW r, q = <<SP!Ack(r)>>, r[2] = id
      PROVE  AckOn(k, id)'
  <2>1. Len(q) = 1 /\ q[1] = SP!Ack(r)
    BY <1>6
  <2>2. SP!Ack(r).kind = "ack" /\ SP!Ack(r).rid = r
    BY DEF SP!Ack
  <2> DEFINE l == Len(Stream(k))
  <2> HIDE DEF l
  <2>3. Stream(k)'[l + 1] = q[1] /\ l + 1 \in 1..Len(Stream(k)')
    BY <1>1, <1>4, <2>1 DEF l
  <2> QED
    BY <1>6, <2>1, <2>2, <2>3 DEF AckOn
<1> QED
  BY <1>5, <1>6

\* An acknowledgement leaves a stream by being read.
LEMMA AckIsRead ==
    ASSUME ServiceInv, NEW k \in Connections, NEW id,
           Stream(k) # <<>>, Stream(k)' = Tail(Stream(k)), AckOn(k, id)
    PROVE  \/ AckOn(k, id)'
           \/ Head(Stream(k)).kind = "ack" /\ Head(Stream(k)).rid[2] = id
<1>1. Stream(k) \in Seq(SP!Message) /\ Len(Stream(k)) \in Nat
  BY Streams
<1>2. /\ Len(Stream(k)') = Len(Stream(k)) - 1
      /\ \A i \in 1..Len(Stream(k)) - 1 : Stream(k)'[i] = Stream(k)[i + 1]
      /\ Head(Stream(k)) = Stream(k)[1]
  BY <1>1, HeadTailProperties
<1>3. PICK i \in 1..Len(Stream(k)) :
        Stream(k)[i].kind = "ack" /\ Stream(k)[i].rid[2] = id
  BY DEF AckOn
<1>4. CASE i = 1
  BY <1>2, <1>3, <1>4
<1>5. CASE i # 1
  <2>1. i - 1 \in 1..Len(Stream(k)) - 1 /\ (i - 1) + 1 = i
    BY <1>1, <1>5
  <2>2. Stream(k)'[i - 1] = Stream(k)[i] /\ i - 1 \in 1..Len(Stream(k)')
    BY <1>2, <2>1
  <2> QED
    BY <1>3, <2>2 DEF AckOn
<1> QED
  BY <1>4, <1>5

\* The acknowledgement that the library reads ends its subscription.
LEMMA AckReadEnds ==
    ASSUME AP!IInv, AP!DInv, ServiceInv, LinkInv, Read, A!Reception,
           Head(Stream(conn)).kind = "ack"
    PROVE  Head(Stream(conn)).rid[2] \notin ToSet(subscribed')
<1> DEFINE s == Stream(conn)
           w == IF conn = 0 THEN <<>>
                ELSE [i \in DOMAIN Stream(conn) |-> ToLibrary(Stream(conn)[i])]
<1>1. /\ conn # 0 /\ conn' = conn
      /\ s # <<>> /\ Stream(conn)' = Tail(s)
      /\ conn \in Connections
  BY ReadMoves, MaxConnectionsAssumption DEF Read, LinkInv, Connections
<1>2. s \in Seq(SP!Message)
  BY <1>1, Streams
<1>3. w = Seen(s) /\ w' = Seen(s')
  BY <1>1 DEF Seen
<1>4. /\ Seen(Tail(s)) = Tail(Seen(s)) /\ Seen(s) # <<>>
      /\ Head(Seen(s)) = ToLibrary(Head(s))
  BY <1>1, <1>2, SeenTail
<1>5. w # <<>> /\ w' = Tail(w) /\ Head(w) = ToLibrary(Head(s)) /\ (conn # 0)'
  BY <1>1, <1>3, <1>4
<1>6. Head(w).kind = "ack" /\ Head(w).id = Head(s).rid[2]
  BY <1>5 DEF ToLibrary
<1>7. AP!Reception
  BY SameLibrary
<1>8. Head(w).id \notin AP!ToSet(subscribed')
  BY <1>5, <1>6, <1>7, AP!AckEndsSubscription, LibraryAssumptions
<1> QED
  BY <1>6, <1>8, SameToSet

\* Every step of the library keeps GoneInv: reading the acknowledgement
\* takes its subscription off the list.
LEMMA LibraryKeepsGone ==
    ASSUME AP!IInv, AP!DInv, ServiceInv, LinkInv, IdInv, GoneInv,
           ~undefined, Library
    PROVE  GoneInv'
<1>1. /\ Send \/ Quiet \/ Open \/ Close \/ (Read /\ A!Reception)
      /\ UNCHANGED <<subscriptions, issued, broken, crashed>>
  BY LibraryLinks
<1>2. CASE Open
  <2>1. nconn' > nconn /\ conn' = nconn' /\ nconn' \in Connections
    BY <1>2, OpenMoves, MaxConnectionsAssumption DEF LinkInv
  <2>2. Made(nconn') = {}
    BY <2>1 DEF LinkInv
  <2>3. \A id \in Req : <<conn', id>> \notin issued'
    BY <1>1, <2>1, <2>2 DEF Made
  <2> QED
    BY <2>3 DEF GoneInv
<1>3. CASE ~Open
  <2> SUFFICES ASSUME conn' # 0, NEW id \in Req, <<conn', id>> \in issued',
                      <<conn', id>> \notin subscriptions', conn' \notin broken',
                      id \in ToSet(subscribed')
               PROVE  AckOn(conn, id)'
    BY DEF GoneInv
  <2>1. conn' = conn /\ conn # 0
    BY <1>1, <1>3 DEF Send, Quiet, Close, Read, linkVars
  <2>2. PICK c \in Connections : c = conn
    BY <2>1, MaxConnectionsAssumption DEF LinkInv, Connections
  <2>3. id \in ToSet(subscribed)
    <3>1. /\ uid_gen' \in {uid_gen, uid_gen + 1}
          /\ id \in ToSet(subscribed) \/ (id = uid_gen' /\ uid_gen' # uid_gen)
      BY RequestsMove
    <3>2. id \in Made(c)
      BY <1>1, <2>1, <2>2 DEF Made
    <3>3. id \in 1..uid_gen /\ uid_gen \in Nat
      BY <3>2, LibraryFacts, Bounds DEF IdInv
    <3> QED
      BY <3>1, <3>3
  <2>4. AckOn(c, id)
    BY <1>1, <2>1, <2>2, <2>3 DEF GoneInv
  <2>5. CASE Read /\ A!Reception
    <3>1. Stream(conn) # <<>> /\ Stream(conn)' = Tail(Stream(conn))
      BY <2>5, ReadMoves
    <3>2. Stream(c) # <<>> /\ Stream(c)' = Tail(Stream(c))
      BY <2>1, <2>2, <3>1 DEF Stream
    <3>3. \/ AckOn(c, id)'
          \/ Head(Stream(c)).kind = "ack" /\ Head(Stream(c)).rid[2] = id
      BY <2>4, <3>2, AckIsRead
    <3>4. ~(Head(Stream(conn)).kind = "ack" /\ Head(Stream(conn)).rid[2] = id)
      BY <2>5, AckReadEnds
    <3>5. AckOn(c, id)'
      BY <2>2, <3>3, <3>4
    <3> QED
      BY <2>1, <2>2, <3>5 DEF AckOn, Stream
  <2>6. CASE Send \/ Quiet \/ Close
    <3>1. UNCHANGED <<wire, replies>>
      BY <2>6 DEF Send, Quiet, Close, serviceVars
    <3> QED
      BY <2>1, <2>2, <2>4, <3>1 DEF AckOn, Stream
  <2> QED
    BY <1>1, <1>3, <2>5, <2>6
<1> QED
  BY <1>2, <1>3

\* Every step of the service keeps GoneInv: what it forgets it acknowledges,
\* or its connection breaks.
LEMMA ServiceKeepsGone ==
    ASSUME ServiceInv, LinkInv, IdInv, GoneInv, ServiceStep
    PROVE  GoneInv'
<1>1. UNCHANGED <<conn, subscribed>>
  BY ServiceKeepsLemma DEF ServiceKeeps, libraryVars
<1> SUFFICES ASSUME conn # 0
             PROVE  \A id \in Req : <<conn, id>> \in issued' =>
                       \/ <<conn, id>> \in subscriptions'
                       \/ conn \in broken'
                       \/ id \notin ToSet(subscribed)
                       \/ AckOn(conn, id)'
  BY <1>1 DEF GoneInv
<1>2. PICK c \in Connections : c = conn
  BY MaxConnectionsAssumption DEF LinkInv, Connections
<1> DEFINE Gone(id) == \/ <<c, id>> \in subscriptions
                       \/ c \in broken
                       \/ id \notin ToSet(subscribed)
                       \/ AckOn(c, id)
<1>3. \A id \in Req : <<c, id>> \in issued => Gone(id)
  BY <1>2 DEF GoneInv
<1>4. subscriptions \subseteq issued
  BY <1>2, Streams
<1>5. ASSUME Stream(c)' = Stream(c), NEW id, AckOn(c, id)
      PROVE  AckOn(c, id)'
  BY <1>5 DEF AckOn
<1>6. SUFFICES ASSUME NEW id \in Req, <<c, id>> \in issued'
               PROVE  Gone(id)'
  <2>1. (\A id \in Req : <<c, id>> \in issued' =>
            \/ <<c, id>> \in subscriptions'
            \/ c \in broken'
            \/ id \notin ToSet(subscribed')
            \/ AckOn(c, id)')
        => \A id \in Req : <<conn, id>> \in issued' =>
              \/ <<conn, id>> \in subscriptions'
              \/ conn \in broken'
              \/ id \notin ToSet(subscribed)
              \/ AckOn(conn, id)'
    BY <1>1, <1>2
  <2> QED
    BY <1>6, <2>1
<1>7. ASSUME NEW k \in Connections, Reads(k)
      PROVE  Gone(id)'
  <2>0. PICK h : h = NextMessage(k)
    OBVIOUS
  <2>1. CASE ReadSubscribe(k)
    <3>1. /\ subscriptions' = subscriptions \union {<<k, h.id>>}
          /\ issued' = issued \union {<<k, h.id>>}
          /\ UNCHANGED <<broken, wire, replies>>
      BY <2>0, <2>1, ReadSubscribeMoves
    <3>2. Stream(c)' = Stream(c)
      BY <3>1 DEF Stream
    <3> QED
      BY <1>1, <1>3, <1>5, <1>6, <3>1, <3>2
  <2>2. CASE ReadSubscribeFailing(k)
    <3>1. /\ issued' = issued \union {<<k, h.id>>}
          /\ broken' = broken \union {k}
          /\ UNCHANGED <<subscriptions, wire, replies>>
      BY <2>0, <2>2, ReadSubscribeFailingMoves
    <3>2. Stream(c)' = Stream(c)
      BY <3>1 DEF Stream
    <3> QED
      BY <1>1, <1>3, <1>5, <1>6, <3>1, <3>2
  <2>3. CASE ReadUnsubscribe(k)
    <3>1. PICK i \in Connections :
             /\ <<i, h.id>> \in subscriptions
             /\ subscriptions' = subscriptions \ {<<i, h.id>>}
             /\ Stream(k)' = Stream(k) \o <<SP!Ack(<<i, h.id>>)>>
      BY <2>0, <2>3, ReadUnsubscribeMoves
    <3>2. /\ \A d \in Connections : d # k => Stream(d)' = Stream(d)
          /\ UNCHANGED <<issued, broken>>
      BY <2>3, ReadUnsubscribeMoves
    <3>3. /\ sent[k] # <<>> /\ h.kind = "unsubscribe" /\ h \in ToSet(sent[k])
          /\ h.id \in Req /\ <<i, h.id>> \in SP!Rid
      <4>1. sent[k] # <<>> /\ h.kind = "unsubscribe"
        BY <2>0, <2>3 DEF ReadUnsubscribe, Reading
      <4>2. h \in ToSet(sent[k])
        BY <2>0, <4>1, TailLemma DEF LinkInv, NextMessage
      <4> QED
        BY <2>0, <4>1, <4>2, NextMessageLemma
    <3>4. <<SP!Ack(<<i, h.id>>)>> \in Seq(SP!Message)
      BY <3>3 DEF SP!Message
    <3>5. AckOn(c, id) => AckOn(c, id)'
      BY <1>5, <3>1, <3>2, <3>4, AckStays
    <3>6. CASE <<i, h.id>> = <<c, id>>
      <4>1. CASE k = c
        <5>1. <<i, h.id>>[2] = id
          BY <3>6
        <5>2. AckOn(k, id)'
          BY <3>1, <3>4, <5>1, AckStays
        <5> QED
          BY <4>1, <5>2
      <4>2. CASE k # c
        <5>1. ~(k > nconn) /\ c = nconn
          BY <1>2, <3>3 DEF LinkInv
        <5>2. c > k
          BY <4>2, <5>1 DEF Connections
        <5>3. h.id \notin Made(c)
          BY <3>3, <5>2 DEF IdInv
        <5> QED
          BY <1>4, <3>1, <3>3, <3>6, <5>3 DEF Made
      <4> QED
        BY <4>1, <4>2
    <3>7. CASE <<i, h.id>> # <<c, id>>
      BY <1>1, <1>3, <1>6, <3>1, <3>2, <3>5, <3>7
    <3> QED
      BY <3>6, <3>7
  <2>4. CASE ReadUnsubscribeUnknown(k)
    <3>1. UNCHANGED <<subscriptions, issued, broken, wire, replies>>
      BY <2>4, ReadUnsubscribeUnknownMoves
    <3>2. Stream(c)' = Stream(c)
      BY <3>1 DEF Stream
    <3> QED
      BY <1>1, <1>3, <1>5, <1>6, <3>1, <3>2
  <2>5. CASE ReadPublish(k)
    <3>1. UNCHANGED <<subscriptions, issued, broken, wire, replies>>
      BY <2>5 DEF ReadPublish, serviceVars
    <3>2. Stream(c)' = Stream(c)
      BY <3>1 DEF Stream
    <3> QED
      BY <1>1, <1>3, <1>5, <1>6, <3>1, <3>2
  <2> QED
    BY <1>7, <2>1, <2>2, <2>3, <2>4, <2>5 DEF Reads
<1>8. ASSUME NEW k \in Connections, Notices(k)
      PROVE  Gone(id)'
  <2>1. /\ \/ /\ broken' = broken \union {k}
              /\ UNCHANGED subscriptions
           \/ /\ broken' = broken \ {k}
              /\ subscriptions' = {r \in subscriptions : S!Owner(r) # k}
        /\ k # c /\ Stream(c)' = Stream(c) /\ issued' = issued
    BY <1>2, <1>8, NoticesMoves
  <2>2. S!Owner(<<c, id>>) = c
    BY DEF S!Owner
  <2> QED
    BY <1>1, <1>3, <1>5, <1>6, <2>1, <2>2
<1>9. ASSUME NEW k \in Connections, Sends(k)
      PROVE  Gone(id)'
  <2>1. Stream(c)' = Stream(c) /\ UNCHANGED <<subscriptions, issued, broken>>
    BY <1>9, SendsMoves
  <2> QED
    BY <1>1, <1>3, <1>5, <1>6, <2>1
<1>10. CASE Incoming
  <2>1. /\ \E q \in Seq(SP!Message) : Stream(c)' = Stream(c) \o q
        /\ UNCHANGED <<subscriptions, issued, broken>>
    BY <1>10, IncomingMoves
  <2>2. AckOn(c, id) => AckOn(c, id)'
    BY <2>1, AckStays
  <2> QED
    BY <1>1, <1>3, <1>6, <2>1, <2>2
<1> QED
  BY <1>7, <1>8, <1>9, <1>10 DEF ServiceStep

-----------------------------------------------------------------------------
(* How much a connection's stream can hold *)

\* Each subscription has at most one copy of each PUBLISH on its stream,
\* and one acknowledgement.
LEMMA StreamBound ==
    ASSUME NEW c \in Connections, NEW s \in Seq(SP!Message),
           NEW known, NEW last, SP!Sound(c, s, known, last),
           \A i, j \in 1..Len(s) : s[i].kind = "ack" /\ s[j].kind = "ack"
              /\ s[i].rid[2] = s[j].rid[2] => i = j
    PROVE  Len(s) <= MaxRequests * (MaxIncoming + 1)
<1> DEFINE l == Len(s)
           S1 == 1..l
           T == Req \X (0..MaxIncoming)
           f == [i \in S1 |-> <<s[i].rid[2],
                               IF s[i].kind = "publish" THEN s[i].n ELSE 0>>]
<1>1. l \in Nat
  BY LenProperties
<1>2. ASSUME NEW m \in SP!Message
      PROVE  /\ m.rid \in Connections \X Req
             /\ m.kind \in {"publish", "ack"}
             /\ m.kind = "publish" => m.n \in 1..MaxIncoming
  <2>1. CASE \E r \in SP!Rid, n \in 1..MaxIncoming : m = SP!Publish(r, n)
    <3>1. PICK r \in SP!Rid, n \in 1..MaxIncoming : m = SP!Publish(r, n)
      BY <2>1
    <3>2. m.kind = "publish" /\ m.rid = r /\ m.n = n
      BY <3>1 DEF SP!Publish
    <3> QED
      BY <3>1, <3>2, RidLemma
  <2>2. CASE \E r \in SP!Rid : m = SP!Ack(r)
    <3>1. PICK r \in SP!Rid : m = SP!Ack(r)
      BY <2>2
    <3>2. m.kind = "ack" /\ m.rid = r
      BY <3>1 DEF SP!Ack
    <3> QED
      BY <3>1, <3>2, RidLemma
  <2> QED
    BY <2>1, <2>2 DEF SP!Message
<1>3. ASSUME NEW i \in S1
      PROVE  /\ s[i].rid \in Connections \X Req
             /\ s[i].kind \in {"publish", "ack"}
             /\ s[i].kind = "publish" => s[i].n \in 1..MaxIncoming
  <2>1. s[i] \in SP!Message
    BY ElementOfSeq
  <2> QED
    BY <1>2, <2>1
<1>4. /\ \A i \in S1 : s[i].kind = "publish" => s[i].rid[1] = c
      /\ \A i, j \in S1 :
            i < j /\ s[i].rid = s[j].rid /\ s[i].kind = "publish"
              /\ s[j].kind = "publish"
            => s[i].n < s[j].n
  BY DEF SP!Sound, SP!Belongs, SP!Owner, SP!Ordered
<1>5. f \in [S1 -> T]
  <2>1. ASSUME NEW i \in S1
        PROVE  f[i] \in T
    <3>1. s[i].rid[2] \in Req
      BY <1>3
    <3>2. (IF s[i].kind = "publish" THEN s[i].n ELSE 0) \in 0..MaxIncoming
      BY <1>3, MaxIncomingAssumption
    <3> QED
      BY <3>1, <3>2
  <2> QED
    BY <2>1
<1>6. ASSUME NEW i \in S1, NEW j \in S1, f[i] = f[j]
      PROVE  i = j
  <2>1. /\ s[i].rid[2] = s[j].rid[2]
        /\ (IF s[i].kind = "publish" THEN s[i].n ELSE 0)
              = (IF s[j].kind = "publish" THEN s[j].n ELSE 0)
    BY <1>6
  <2>2. s[i].kind = s[j].kind
    BY <1>3, <2>1
  <2>3. CASE s[i].kind = "ack"
    BY <2>1, <2>2, <2>3
  <2>4. CASE s[i].kind = "publish"
    <3>1. s[i].rid = s[j].rid
      <4>1. s[i].rid[1] = c /\ s[j].rid[1] = c
        BY <1>4, <2>2, <2>4
      <4>2. \A x, y \in Connections \X Req :
               x[1] = y[1] /\ x[2] = y[2] => x = y
        OBVIOUS
      <4> QED
        BY <1>3, <2>1, <4>1, <4>2
    <3>2. s[i].n = s[j].n /\ s[i].n \in Nat
      BY <1>3, <2>1, <2>2, <2>4
    <3>3. ~(s[i].n < s[j].n) /\ ~(s[j].n < s[i].n)
      BY <3>2
    <3>4. ~(i < j) /\ ~(j < i)
      BY <1>4, <2>2, <2>4, <3>1, <3>3
    <3> QED
      BY <1>1, <3>4
  <2> QED
    BY <1>3, <2>3, <2>4
<1> HIDE DEF f
<1>7. f \in Injection(S1, T)
  BY <1>5, <1>6 DEF Injection, IsInjective
<1>8. IsFiniteSet(S1) /\ Cardinality(S1) = l
  <2>1. \A n \in Nat : IsFiniteSet(1..n) /\ Cardinality(1..n) = n
    BY FS_Interval
  <2> QED
    BY <1>1, <2>1, Zenon
<1>9. IsFiniteSet(Req) /\ Cardinality(Req) = MaxRequests
  BY Bounds, FS_Interval DEF Req
<1>10. IsFiniteSet(0..MaxIncoming) /\ Cardinality(0..MaxIncoming) = MaxIncoming + 1
  BY MaxIncomingAssumption, FS_Interval
<1>11. IsFiniteSet(T) /\ Cardinality(T) = MaxRequests * (MaxIncoming + 1)
  BY <1>9, <1>10, FS_Product
<1> HIDE DEF S1, T
<1>12. Cardinality(S1) <= Cardinality(T)
  BY <1>7, <1>8, <1>11, FS_Injection
<1> QED
  BY <1>8, <1>11, <1>12

-----------------------------------------------------------------------------
(* What the library sees of a step of the service *)

\* The subscriptions of connection c are the ids that it holds for it.
LEMMA RemoteLemma ==
    ASSUME NEW H \in SUBSET SP!Rid, NEW c
    PROVE  \A id : id \in {r[2] : r \in {q \in H : S!Owner(q) = c}}
                     <=> <<c, id>> \in H
<1>1. \A r \in H : r = <<r[1], r[2]>> /\ S!Owner(r) = r[1]
  BY RidLemma DEF S!Owner
<1>2. \A id : <<c, id>> \in H => S!Owner(<<c, id>>) = c /\ <<c, id>>[2] = id
  BY DEF S!Owner
<1> QED
  BY <1>1, <1>2

\* A step that neither reads from the connection nor sends to it
LEMMA ServiceUnseen ==
    ASSUME ServiceInv, ServiceInv', UNCHANGED <<libraryVars, conn>>,
           conn # 0 => sent'[conn] = sent[conn] /\ Stream(conn)' = Stream(conn),
           \A id : <<conn, id>> \in subscriptions' <=> <<conn, id>> \in subscriptions
    PROVE  UNCHANGED A!vars
<1>1. /\ subscriptions \in SUBSET SP!Rid
      /\ subscriptions' \in SUBSET SP!Rid
  BY DEF ServiceInv, SP!IInv, SP!TypeOK
<1> DEFINE R(H, c) == {r[2] : r \in {q \in H : S!Owner(q) = c}}
<1>2. \A id : id \in R(subscriptions, conn) <=> <<conn, id>> \in subscriptions
  BY <1>1, RemoteLemma
<1>3. \A id : id \in R(subscriptions', conn) <=> <<conn, id>> \in subscriptions'
  BY <1>1, RemoteLemma
<1>4. R(subscriptions', conn') = R(subscriptions, conn)
  <2>1. R(subscriptions', conn) = R(subscriptions, conn)
    BY <1>2, <1>3
  <2> QED
    BY <2>1
<1>5. A!linkVars' = A!linkVars
  <2>1. (IF conn = 0 THEN <<>> ELSE sent[conn])'
           = IF conn = 0 THEN <<>> ELSE sent[conn]
    OBVIOUS
  <2>2. (IF conn = 0 THEN <<>>
          ELSE [i \in DOMAIN Stream(conn) |-> ToLibrary(Stream(conn)[i])])'
        = IF conn = 0 THEN <<>>
          ELSE [i \in DOMAIN Stream(conn) |-> ToLibrary(Stream(conn)[i])]
    <3>1. conn' = conn
      OBVIOUS
    <3>2. CASE conn = 0
      BY <3>1, <3>2
    <3>3. CASE conn # 0
      <4>1. Stream(conn)' = Stream(conn)
        BY <3>3
      <4> QED
        BY <3>1, <3>3, <4>1
    <3> QED
      BY <3>2, <3>3
  <2> QED
    BY <1>4, <2>1, <2>2 DEF A!linkVars, libraryVars
<1> QED
  BY <1>5 DEF A!vars, A!connVars, A!reqVars, A!appVars, libraryVars

\* The library reads an acknowledgement as that of its request.
LEMMA AckSeen ==
    ASSUME NEW s \in Seq(SP!Message), NEW r, SP!Ack(r) \in SP!Message
    PROVE  Seen(s \o <<SP!Ack(r)>>) = Append(Seen(s), A!Msg("ack", r[2]))
<1> DEFINE U == {ToLibrary(m) : m \in SP!Message}
           a == SP!Ack(r)
<1>1. <<a>> \in Seq(SP!Message)
  OBVIOUS
<1>2. Seen(s \o <<a>>) = Seen(s) \o Seen(<<a>>)
  BY <1>1, SeenConcat
<1>3. Seen(<<a>>) = <<ToLibrary(a)>>
  BY DEF Seen
<1>4. ToLibrary(a) = A!Msg("ack", r[2])
  BY DEF ToLibrary, A!Msg, SP!Ack
<1>5. Seen(s) \in Seq(U)
  BY SeenLemma
<1>6. ToLibrary(a) \in U
  OBVIOUS
<1> HIDE DEF U, a
<1>7. Append(Seen(s), ToLibrary(a)) = Seen(s) \o <<ToLibrary(a)>>
  BY <1>5, <1>6, AppendIsConcat
<1> QED
  BY <1>2, <1>3, <1>4, <1>7 DEF a

\* A message read from the connection is a message of the link read.
LEMMA ServiceReadSeen ==
    ASSUME ServiceInv, ServiceInv', LinkInv, UNCHANGED <<libraryVars, conn>>,
           NEW c \in Connections, c = conn, sent[c] # <<>>,
           sent'[c] = Tail(sent[c]), NEW m, m = Head(sent[c]),
           \/ /\ m.kind = "subscribe"
              /\ Stream(c)' = Stream(c)
              /\ subscriptions' = subscriptions \union {<<c, m.id>>}
           \/ /\ m.kind = "publish"
              /\ Stream(c)' = Stream(c)
              /\ subscriptions' = subscriptions
           \/ /\ m.kind = "unsubscribe"
              /\ \E i : /\ SP!Ack(<<i, m.id>>) \in SP!Message
                        /\ Stream(c)' = Stream(c) \o <<SP!Ack(<<i, m.id>>)>>
                        /\ subscriptions' = subscriptions \ {<<i, m.id>>}
                        /\ i = c => <<c, m.id>> \in subscriptions
                        /\ i # c => Lossy /\ <<c, m.id>> \notin subscriptions
    PROVE  A!Service
<1> DEFINE toS == IF conn = 0 THEN <<>> ELSE sent[conn]
           toC == IF conn = 0 THEN <<>>
                  ELSE [i \in DOMAIN Stream(conn) |-> ToLibrary(Stream(conn)[i])]
           R(H, d) == {r[2] : r \in {q \in H : S!Owner(q) = d}}
           rem == R(subscriptions, conn)
<1>1. conn # 0 /\ conn' # 0 /\ conn' = c
  BY DEF Connections
<1>2. toS # <<>> /\ toS' = Tail(toS) /\ Head(toS) = m
  BY <1>1
<1>3. toC = Seen(Stream(c)) /\ toC' = Seen(Stream(c)')
  BY <1>1 DEF Seen, Stream
<1>4. /\ subscriptions \in SUBSET SP!Rid
      /\ subscriptions' \in SUBSET SP!Rid
  BY DEF ServiceInv, SP!IInv, SP!TypeOK
<1>5. \A id : id \in rem <=> <<c, id>> \in subscriptions
  BY <1>4, RemoteLemma
<1>6. \A id : id \in rem' <=> <<c, id>> \in subscriptions'
  <2>1. \A id : id \in R(subscriptions', c) <=> <<c, id>> \in subscriptions'
    BY <1>4, RemoteLemma
  <2> QED
    BY <1>1, <2>1
<1>7. UNCHANGED <<handle, A!connVars, pending, subscribed, A!reqVars,
                  A!appVars, receiving, undefined>>
  BY DEF libraryVars, A!connVars, A!reqVars, A!appVars
<1>8. Stream(c) \in Seq(SP!Message)
  BY Streams
<1>9. CASE m.kind = "subscribe"
  <2>1. toC' = toC /\ rem' = rem \union {m.id}
    BY <1>3, <1>5, <1>6, <1>9
  <2>2. A!ServiceRead
    BY <1>2, <1>7, <1>9, <2>1 DEF A!ServiceRead
  <2> QED
    BY <2>2 DEF A!Service
<1>10. CASE m.kind = "publish"
  <2>1. toC' = toC /\ rem' = rem
    BY <1>3, <1>5, <1>6, <1>10
  <2>2. A!ServiceRead
    BY <1>2, <1>7, <1>10, <2>1 DEF A!ServiceRead
  <2> QED
    BY <2>2 DEF A!Service
<1>11. CASE m.kind = "unsubscribe"
  <2>1. PICK i : /\ SP!Ack(<<i, m.id>>) \in SP!Message
                 /\ Stream(c)' = Stream(c) \o <<SP!Ack(<<i, m.id>>)>>
                 /\ subscriptions' = subscriptions \ {<<i, m.id>>}
                 /\ i = c => <<c, m.id>> \in subscriptions
                 /\ i # c => Lossy /\ <<c, m.id>> \notin subscriptions
    BY <1>11
  <2>2. toC' = Append(toC, A!Msg("ack", m.id))
    <3>1. <<i, m.id>>[2] = m.id
      OBVIOUS
    <3> QED
      BY <1>3, <1>8, <2>1, <3>1, AckSeen
  <2>3. CASE i = c
    <3>1. m.id \in rem /\ rem' = rem \ {m.id}
      BY <1>5, <1>6, <2>1, <2>3
    <3>2. A!ServiceRead
      BY <1>2, <1>7, <1>11, <2>2, <3>1 DEF A!ServiceRead
    <3> QED
      BY <3>2 DEF A!Service
  <2>4. CASE i # c
    <3>1. m.id \notin rem /\ rem' = rem
      BY <1>5, <1>6, <2>1, <2>4
    <3>2. A!ServiceReadStale
      BY <1>2, <1>7, <1>11, <2>1, <2>2, <2>4, <3>1
         DEF A!ServiceReadStale, Lossy
    <3> QED
      BY <3>2 DEF A!Service
  <2> QED
    BY <2>3, <2>4
<1> QED
  BY <1>9, <1>10, <1>11

\* Copies of a PUBLISH that the service queues for the connection
LEMMA ServicePushSeen ==
    ASSUME AP!IInv, AP!DInv, ServiceInv, ServiceInv', LinkInv,
           UNCHANGED <<libraryVars, conn, sent>>,
           NEW c \in Connections, c = conn,
           NEW q \in Seq(SP!Message), q # <<>>, Stream(c)' = Stream(c) \o q,
           \A j \in 1..Len(q) : /\ q[j].kind = "publish"
                                /\ q[j].rid \in subscriptions
                                /\ SP!Owner(q[j].rid) = c,
           \A i, j \in 1..Len(q) : q[i].rid = q[j].rid => i = j,
           subscriptions' = subscriptions
    PROVE  A!Service
<1> DEFINE toS == IF conn = 0 THEN <<>> ELSE sent[conn]
           toC == IF conn = 0 THEN <<>>
                  ELSE [i \in DOMAIN Stream(conn) |-> ToLibrary(Stream(conn)[i])]
           R(H, d) == {r[2] : r \in {p \in H : S!Owner(p) = d}}
           rem == R(subscriptions, conn)
           n == Len(q)
           ids == [j \in 1..n |-> q[j].rid[2]]
           s == Stream(c)
           B == MaxRequests * (MaxIncoming + 1)
<1>1. conn # 0 /\ conn' # 0 /\ conn' = c
  BY DEF Connections
<1>2. toC = Seen(s) /\ toC' = Seen(s') /\ toS' = toS
  BY <1>1 DEF Seen, Stream
<1>3. s \in Seq(SP!Message) /\ Len(s) \in Nat
  BY Streams
<1>4. /\ subscriptions \in SUBSET SP!Rid
  BY DEF ServiceInv, SP!IInv, SP!TypeOK
<1>5. \A id : id \in rem <=> <<c, id>> \in subscriptions
  BY <1>4, RemoteLemma
<1>6. rem' = rem
  BY <1>1
<1>7. n \in Nat /\ n # 0 /\ DOMAIN q = 1..n
  BY LenProperties, EmptySeq
<1>8. \A j \in 1..n : q[j].rid = <<c, q[j].rid[2]>>
  BY <1>4, RidLemma DEF SP!Owner
<1>9. ids \in [1..n -> rem]
  <2>1. \A j \in 1..n : q[j].rid[2] \in rem
    BY <1>5, <1>8
  <2> HIDE DEF rem
  <2> QED
    BY <2>1
<1>10. A!IsInjective(ids)
  <2>1. ASSUME NEW i \in 1..n, NEW j \in 1..n, q[i].rid[2] = q[j].rid[2]
        PROVE  i = j
    <3>1. q[i].rid = <<c, q[i].rid[2]>> /\ q[j].rid = <<c, q[j].rid[2]>>
      BY <1>8
    <3>2. q[i].rid = q[j].rid
      BY <2>1, <3>1, Zenon
    <3> QED
      BY <3>2
  <2> QED
    BY <2>1 DEF A!IsInjective
<1>11. toC' = toC \o [i \in DOMAIN ids |-> A!Msg("publish", ids[i])]
  <2>1. Seen(s \o q) = Seen(s) \o Seen(q)
    BY <1>3, SeenConcat
  <2>2. \A j \in 1..n : ToLibrary(q[j]) = A!Msg("publish", ids[j])
    BY DEF ToLibrary, A!Msg
  <2>3. Seen(q) = [i \in DOMAIN ids |-> A!Msg("publish", ids[i])]
    BY <1>7, <2>2 DEF Seen
  <2> QED
    BY <1>2, <2>1, <2>3
<1>12. /\ s' \in Seq(SP!Message) /\ Len(s') = Len(s) + n
       /\ \A i \in 1..Len(s) + n :
             s'[i] = IF i <= Len(s) THEN s[i] ELSE q[i - Len(s)]
  <2>1. \A x, y \in Seq(SP!Message) :
          /\ x \o y \in Seq(SP!Message)
          /\ Len(x \o y) = Len(x) + Len(y)
          /\ \A i \in 1..Len(x) + Len(y) :
                (x \o y)[i] = IF i <= Len(x) THEN x[i] ELSE y[i - Len(x)]
    BY ConcatProperties
  <2> HIDE DEF s
  <2>2. /\ s \o q \in Seq(SP!Message) /\ Len(s \o q) = Len(s) + n
        /\ \A i \in 1..Len(s) + n :
              (s \o q)[i] = IF i <= Len(s) THEN s[i] ELSE q[i - Len(s)]
    BY <1>3, <2>1, Zenon
  <2>3. s' = s \o q
    BY DEF s
  <2> QED
    BY <2>2, <2>3
<1>13. Len(s') <= B
  <2>1. SP!Sound(c, s', issued', incoming')
    <3>1. SP!Stream(c)' = Stream(c)'
      BY DEF SP!Stream, Stream
    <3> QED
      BY <3>1 DEF ServiceInv, SP!SoundInv
  <2>2. ASSUME NEW i \in 1..Len(s'), NEW j \in 1..Len(s'),
               s'[i].kind = "ack", s'[j].kind = "ack",
               s'[i].rid[2] = s'[j].rid[2]
        PROVE  i = j
    <3>1. ASSUME NEW k \in 1..Len(s'), s'[k].kind = "ack"
          PROVE  k \in 1..Len(s) /\ s'[k] = s[k]
      <4>1. CASE k <= Len(s)
        BY <1>3, <1>7, <1>12, <4>1
      <4>2. CASE ~(k <= Len(s))
        <5>1. k - Len(s) \in 1..n /\ s'[k] = q[k - Len(s)]
          BY <1>3, <1>7, <1>12, <4>2
        <5> QED
          BY <3>1, <5>1
      <4> QED
        BY <4>1, <4>2
    <3>2. AP!Never(Seen(s), AP!AfterAck) /\ Seen(s) \in Seq(AP!Incoming)
      <4>1. AP!Never(toC, AP!AfterAck) /\ toC \in Seq(AP!Incoming)
        BY DEF AP!DInv, AP!LastOfIt, AP!IInv, AP!TypeOK
      <4> QED
        BY <1>2, <4>1
    <3>3. /\ Len(Seen(s)) = Len(s)
          /\ \A k \in 1..Len(s) : Seen(s)[k].kind = s[k].kind
                                  /\ Seen(s)[k].id = s[k].rid[2]
      BY <1>3, SeenLemma
    <3>4. \A k, l \in 1..Len(s) :
             s[k].kind = "ack" /\ s[k].rid[2] = s[l].rid[2] => ~(k < l)
      <4> SUFFICES ASSUME NEW k \in 1..Len(s), NEW l \in 1..Len(s),
                          s[k].kind = "ack", s[k].rid[2] = s[l].rid[2], k < l
                   PROVE  FALSE
        OBVIOUS
      <4>1. <<Seen(s)[k], Seen(s)[l]>> \notin AP!AfterAck
        BY <3>2, <3>3 DEF AP!Never
      <4>2. Seen(s)[k] \in AP!Incoming /\ Seen(s)[l] \in AP!Incoming
        BY <3>2, <3>3, ElementOfSeq
      <4> QED
        BY <3>3, <4>1, <4>2 DEF AP!AfterAck
    <3>5. /\ i \in 1..Len(s) /\ s'[i] = s[i]
          /\ j \in 1..Len(s) /\ s'[j] = s[j]
      BY <2>2, <3>1
    <3>6. ~(i < j) /\ ~(j < i)
      BY <2>2, <3>4, <3>5
    <3> QED
      BY <3>5, <3>6
  <2>3. \A i, j \in 1..Len(s') : s'[i].kind = "ack" /\ s'[j].kind = "ack"
           /\ s'[i].rid[2] = s'[j].rid[2] => i = j
    BY <2>2
  <2> HIDE DEF s
  <2> QED
    BY <1>12, <2>1, <2>3, StreamBound
<1>14. Len(toC) = Len(s) /\ Len(ids) = n
  <2>1. Len(ids) = n
    <3>1. ids \in Seq(rem)
      BY <1>7, <1>9, IsASeq
    <3>2. DOMAIN ids = 1..n
      OBVIOUS
    <3> HIDE DEF ids
    <3> QED
      BY <1>7, <3>1, <3>2, LenProperties
  <2> QED
    BY <1>2, <1>3, <2>1, SeenLemma
<1>15. Len(toC) + Len(ids) <= B /\ n \in 1..B
  <2>1. B \in Nat
    BY Bounds
  <2> HIDE DEF B, s, n, ids, toC
  <2> QED
    BY <1>3, <1>7, <1>12, <1>13, <1>14, <2>1
<1>16. UNCHANGED <<handle, A!connVars, pending, subscribed, A!reqVars,
                  A!appVars, receiving, undefined>>
  BY DEF libraryVars, A!connVars, A!reqVars, A!appVars
<1>17. A!ServicePush(ids)
  BY <1>2, <1>6, <1>10, <1>11, <1>15, <1>16 DEF A!ServicePush
<1> QED
  BY <1>9, <1>15, <1>17 DEF A!Service

\* For the library, each step of the service is one that MqttApi has, or
\* nothing.
LEMMA ServiceSimulates ==
    ASSUME AP!IInv, AP!DInv, ServiceInv, LinkInv, OpenInv, IdInv, ServiceStep
    PROVE  A!Service \/ UNCHANGED A!vars
<1>1. /\ ServiceInv' /\ UNCHANGED <<libraryVars, conn, nconn>>
      /\ \A k \in Connections : k > nconn => sent[k] = <<>>
  BY ServiceKeepsLemma DEF ServiceKeeps, LinkInv
<1>2. subscriptions \subseteq SP!Rid
  BY DEF ServiceInv, SP!IInv, SP!TypeOK
<1>3. \A id : <<conn, id>> \in subscriptions => conn \in Connections
  BY <1>2, RidLemma
<1>4. conn # 0 => conn \in Connections
  BY MaxConnectionsAssumption DEF LinkInv, Connections
<1>5. ASSUME NEW k \in Connections, Notices(k)
      PROVE  UNCHANGED A!vars
  <2>1. /\ \/ UNCHANGED subscriptions
           \/ subscriptions' = {r \in subscriptions : S!Owner(r) # k}
        /\ k # conn
        /\ \A d \in Connections : d # k => Stream(d)' = Stream(d)
        /\ sent' = sent
    BY <1>5, NoticesMoves DEF Notices, linkVars
  <2>2. \A id : S!Owner(<<conn, id>>) = conn
    BY DEF S!Owner
  <2>3. conn # 0 => Stream(conn)' = Stream(conn)
    <3>1. CASE conn # 0
      <4>1. PICK c \in Connections : c = conn
        BY <1>4, <3>1
      <4>2. Stream(c)' = Stream(c)
        BY <2>1, <4>1
      <4> QED
        BY <1>1, <4>1, <4>2 DEF Stream
    <3> QED
      BY <3>1
  <2>4. \A id : <<conn, id>> \in subscriptions' <=> <<conn, id>> \in subscriptions
    BY <2>1, <2>2
  <2> QED
    BY <1>1, <2>1, <2>3, <2>4, ServiceUnseen
<1>6. ASSUME NEW k \in Connections, Sends(k)
      PROVE  UNCHANGED A!vars
  <2>1. /\ \A d \in Connections : Stream(d)' = Stream(d)
        /\ UNCHANGED <<subscriptions, sent>>
    BY <1>6, SendsMoves DEF Sends, linkVars
  <2>2. conn # 0 => Stream(conn)' = Stream(conn)
    <3>1. CASE conn # 0
      <4>1. PICK c \in Connections : c = conn
        BY <1>4, <3>1
      <4>2. Stream(c)' = Stream(c)
        BY <2>1, <4>1
      <4> QED
        BY <1>1, <4>1, <4>2 DEF Stream
    <3> QED
      BY <3>1
  <2> QED
    BY <1>1, <2>1, <2>2, ServiceUnseen
<1>7. CASE Incoming
  <2>1. PICK t \in Topics : \A d \in Connections :
            LET q == SP!Copies(d, t)
            IN  /\ Stream(d)' = Stream(d) \o q
                /\ q \in Seq(SP!Message)
                /\ \A j \in 1..Len(q) :
                      /\ q[j].kind = "publish"
                      /\ q[j].rid \in subscriptions
                      /\ SP!Owner(q[j].rid) = d
                /\ \A i, j \in 1..Len(q) : q[i].rid = q[j].rid => i = j
    BY <1>7, IncomingMoves
  <2>2. UNCHANGED <<subscriptions, sent>>
    BY <1>7, IncomingMoves DEF Incoming, linkVars
  <2>3. CASE conn = 0
    BY <1>1, <2>2, <2>3, ServiceUnseen
  <2>4. CASE conn # 0
    <3>1. PICK c \in Connections : c = conn
      BY <1>4, <2>4
    <3>2. PICK q : q = SP!Copies(c, t)
      OBVIOUS
    <3>3. /\ Stream(c)' = Stream(c) \o q
          /\ q \in Seq(SP!Message)
          /\ \A j \in 1..Len(q) :
                /\ q[j].kind = "publish"
                /\ q[j].rid \in subscriptions
                /\ SP!Owner(q[j].rid) = c
          /\ \A i, j \in 1..Len(q) : q[i].rid = q[j].rid => i = j
      BY <2>1, <3>2
    <3>4. CASE q # <<>>
      BY <1>1, <2>2, <3>1, <3>3, <3>4, ServicePushSeen
    <3>5. CASE q = <<>>
      <4>1. Stream(c) \in Seq(SP!Message)
        BY Streams
      <4>2. \A s \in Seq(SP!Message) : s \o <<>> = s
        BY ConcatEmptySeq
      <4>3. Stream(c)' = Stream(c)
        BY <3>3, <3>5, <4>1, <4>2
      <4>4. Stream(conn)' = Stream(conn)
        BY <1>1, <3>1, <4>3 DEF Stream
      <4> QED
        BY <1>1, <2>2, <4>4, ServiceUnseen
    <3> QED
      BY <3>4, <3>5
  <2> QED
    BY <2>3, <2>4
<1>8. ASSUME NEW k \in Connections, Reads(k)
      PROVE  A!Service \/ UNCHANGED A!vars
  <2>0. PICK m : m = NextMessage(k)
    OBVIOUS
  <2>1. /\ sent[k] # <<>>
        /\ m = Head(sent[k])
        /\ Consumed(k) \/ UNCHANGED sent
    BY <1>8, <2>0 DEF Reads, ReadSubscribe, ReadSubscribeFailing, ReadUnsubscribe,
                ReadUnsubscribeUnknown, ReadPublish, Reading, NextMessage
  <2>2. Consumed(k) => sent'[k] = Tail(sent[k])
                         /\ \A d \in Connections : d # k => sent'[d] = sent[d]
    BY <2>1, ConsumedKeeps DEF Consumed, LinkInv
  <2>3. ASSUME UNCHANGED <<wire, replies>>,
               \/ subscriptions' = subscriptions /\ (k # conn \/ UNCHANGED sent)
               \/ k # conn /\ \E id : subscriptions' = subscriptions \union {<<k, id>>}
        PROVE  UNCHANGED A!vars
    <3>1. conn # 0 => sent'[conn] = sent[conn] /\ Stream(conn)' = Stream(conn)
      BY <1>1, <1>4, <2>1, <2>2, <2>3 DEF Stream
    <3>2. \A id : <<conn, id>> \in subscriptions' <=> <<conn, id>> \in subscriptions
      BY <2>3
    <3> QED
      BY <1>1, <3>1, <3>2, ServiceUnseen
  <2>4. CASE ReadSubscribe(k)
    <3>1. /\ subscriptions' = subscriptions \union {<<k, m.id>>}
          /\ UNCHANGED <<wire, replies>>
          /\ m.kind = "subscribe" /\ Consumed(k)
      BY <2>0, <2>4, ReadSubscribeMoves DEF ReadSubscribe, Reading
    <3>2. CASE k = conn
      <4>1. Stream(k)' = Stream(k)
        BY <3>1 DEF Stream
      <4> QED
        BY <1>1, <2>1, <2>2, <3>1, <3>2, <4>1, ServiceReadSeen
    <3> QED
      BY <2>3, <3>1, <3>2
  <2>5. CASE ReadSubscribeFailing(k)
    <3>1. UNCHANGED <<subscriptions, wire, replies, sent>>
      BY <2>5, ReadSubscribeFailingMoves DEF ReadSubscribeFailing
    <3> QED
      BY <2>3, <3>1
  <2>6. CASE ReadUnsubscribeUnknown(k)
    <3>1. UNCHANGED <<subscriptions, wire, replies, sent>>
      BY <2>6, ReadUnsubscribeUnknownMoves DEF ReadUnsubscribeUnknown
    <3> QED
      BY <2>3, <3>1
  <2>7. CASE ReadPublish(k)
    <3>1. /\ UNCHANGED <<subscriptions, wire, replies>>
          /\ m.kind = "publish" /\ Consumed(k)
      BY <2>0, <2>7 DEF ReadPublish, Reading, serviceVars
    <3>2. CASE k = conn
      <4>1. Stream(k)' = Stream(k)
        BY <3>1 DEF Stream
      <4> QED
        BY <1>1, <2>1, <2>2, <3>1, <3>2, <4>1, ServiceReadSeen
    <3> QED
      BY <2>3, <3>1, <3>2
  <2>8. CASE ReadUnsubscribe(k)
    <3>1. PICK i \in Connections :
             /\ <<i, m.id>> \in subscriptions
             /\ subscriptions' = subscriptions \ {<<i, m.id>>}
             /\ Stream(k)' = Stream(k) \o <<SP!Ack(<<i, m.id>>)>>
      BY <2>0, <2>8, ReadUnsubscribeMoves
    <3>2. /\ \A d \in Connections : d # k => Stream(d)' = Stream(d)
          /\ m.kind = "unsubscribe" /\ Consumed(k)
          /\ m.id \in Req
      BY <2>0, <2>1, <2>8, ReadUnsubscribeMoves, NextMessageLemma
         DEF ReadUnsubscribe, Reading
    <3>3. <<i, m.id>> \in SP!Rid /\ subscriptions \subseteq issued
      BY <1>2, <3>1, Streams
    <3>4. SP!Ack(<<i, m.id>>) \in SP!Message
      BY <3>3 DEF SP!Message
    <3>5. \A l \in Connections : <<l, m.id>> \in subscriptions => m.id \in Made(l)
      BY <3>2, <3>3 DEF Made
    <3>6. \A l \in Connections : l # i => <<l, m.id>> \notin subscriptions
      BY <3>1, <3>5 DEF IdInv
    <3>7. CASE k = conn
      <4>1. i = k => <<k, m.id>> \in subscriptions
        BY <3>1
      <4>2. i # k => Lossy /\ <<k, m.id>> \notin subscriptions
        <5>1. ASSUME i # k
              PROVE  nconn > 1
          <6>1. m.id \in Made(i)
            BY <3>1, <3>5
          <6>2. ~(i > nconn) /\ ~(k > nconn)
            BY <2>1, <6>1 DEF LinkInv
          <6> QED
            BY <5>1, <6>2, MaxConnectionsAssumption DEF LinkInv, Connections
        <5> QED
          BY <3>6, <5>1 DEF OpenInv
      <4> QED
        BY <1>1, <2>1, <2>2, <3>1, <3>2, <3>4, <3>7, <4>1, <4>2, ServiceReadSeen
    <3>8. CASE k # conn
      <4>1. <<conn, m.id>> # <<i, m.id>>
        <5> SUFFICES ASSUME conn = i
                     PROVE  FALSE
          OBVIOUS
        <5>1. i = nconn /\ ~(k > nconn)
          BY <1>4, <2>1, MaxConnectionsAssumption DEF LinkInv, Connections
        <5>2. i > k
          BY <3>8, <5>1 DEF Connections
        <5>3. m \in ToSet(sent[k])
          BY <2>1, TailLemma DEF LinkInv
        <5>4. m.id \notin Made(i)
          BY <3>2, <5>2, <5>3 DEF IdInv
        <5> QED
          BY <3>1, <3>5, <5>4
      <4>2. \A id : <<conn, id>> \in subscriptions' <=> <<conn, id>> \in subscriptions
        BY <3>1, <4>1
      <4>3. conn # 0 => sent'[conn] = sent[conn] /\ Stream(conn)' = Stream(conn)
        <5>1. CASE conn # 0
          <6>1. PICK c \in Connections : c = conn
            BY <1>4, <5>1
          <6>2. Stream(c)' = Stream(c) /\ sent'[c] = sent[c]
            BY <2>2, <3>2, <3>8, <6>1
          <6> QED
            BY <1>1, <6>1, <6>2 DEF Stream
        <5> QED
          BY <5>1
      <4> QED
        BY <1>1, <4>2, <4>3, ServiceUnseen
    <3> QED
      BY <3>7, <3>8
  <2> QED
    BY <1>8, <2>4, <2>5, <2>6, <2>7, <2>8 DEF Reads
<1> QED
  BY <1>5, <1>6, <1>7, <1>8 DEF ServiceStep

-----------------------------------------------------------------------------
(***************************************************************************)
(* The inductive invariant: those of the library and of the service, and   *)
(* what relates them.                                                      *)
(***************************************************************************)
Inv ==
    /\ AP!IInv /\ AP!DInv
    /\ ServiceInv
    /\ LinkInv
    /\ OpenInv
    /\ IdInv
    /\ HoldInv
    /\ GoneInv
    /\ ServiceSurvives

\* The initial states are initial states of MqttApi.
LEMMA InitSimulates ==
    ASSUME Init
    PROVE  A!Init /\ AP!Init
<1>1. /\ conn = 0 /\ subscriptions = {}
  BY DEF Init, S!Init
<1>2. {r[2] : r \in {q \in subscriptions : S!Owner(q) = conn}} = {}
  BY <1>1
<1>3. A!Init
  BY <1>1, <1>2 DEF Init, A!Init, A!Req, Req
<1> QED
  BY <1>3, SameLibrary

\* The invariant holds initially.
LEMMA InitInv ==
    ASSUME Init
    PROVE  Inv
<1>1. AP!Init
  BY InitSimulates
<1>2. AP!IInv
  BY <1>1, AP!InitInv, LibraryAssumptions
<1>3. AP!DInv
  BY <1>1, AP!EmptyLemma, AP!NeverEmpty, LibraryAssumptions
     DEF AP!Init, AP!DInv, AP!Listed, AP!LastOfIt, AP!NoUnmatched
<1>4. ServiceInv
  <2>1. SP!Init
    BY DEF Init, S!Init, SP!Init, S!Rid, SP!Rid
  <2> QED
    BY <2>1, SP!InitHolds, SP!InitStreams, ServiceAssumptions
       DEF ServiceInv, SP!StreamInv
<1>5. /\ nconn = 0 /\ conn = 0 /\ issued = {} /\ pending = <<>>
      /\ ~crashed /\ connected = {} /\ handle = "unset"
      /\ sent = [k \in Connections |-> <<>>]
  BY DEF Init, S!Init
<1>6. /\ ToSet(<<>>) = {} /\ <<>> \in Seq(A!Message)
      /\ AP!Never(<<>>, AP!AfterUnsubscribe)
  BY EmptyLemma, AP!NeverEmpty, LibraryAssumptions
<1>7. \A k \in Connections : Made(k) = {}
  BY <1>5, <1>6 DEF Made
<1>8. LinkInv
  BY <1>5, <1>6, <1>7, MaxConnectionsAssumption DEF LinkInv
<1>9. OpenInv /\ HoldInv /\ GoneInv /\ ServiceSurvives
  BY <1>5 DEF OpenInv, HoldInv, GoneInv, ServiceSurvives
<1>10. IdInv
  BY <1>5, <1>6, <1>7 DEF IdInv
<1> QED
  BY <1>2, <1>3, <1>4, <1>8, <1>9, <1>10 DEF Inv

\* While the library has made one connection only, an UNSUBSCRIBE that is
\* read finds its subscription.
LEMMA ServiceKeepsRunning ==
    ASSUME Inv, ServiceStep
    PROVE  ServiceSurvives'
<1>1. UNCHANGED nconn
  BY ServiceKeepsLemma DEF Inv, ServiceKeeps
<1>2. ASSUME NEW k \in Connections, ReadUnsubscribeUnknown(k)
      PROVE  nconn > 1
  <2> DEFINE h == NextMessage(k)
  <2>1. /\ k \in connected \ broken
        /\ <<k, h.id>> \notin subscriptions
    BY <1>2, ReadUnsubscribeUnknownMoves DEF Inv
  <2>2. /\ sent[k] # <<>> /\ h.kind = "unsubscribe"
        /\ sent[k] \in Seq(A!Message)
    BY <1>2 DEF ReadUnsubscribeUnknown, Reading, Inv, LinkInv
  <2>3. ToSet(sent[k]) = ToSet(Tail(sent[k])) \union {h}
    BY <2>2, TailLemma DEF NextMessage
  <2> SUFFICES ASSUME ~(nconn > 1)
               PROVE  FALSE
    OBVIOUS
  <2>4. k = 1 /\ nconn = 1
    <3>1. ~(k > nconn) /\ nconn \in Nat
      BY <2>2, MaxConnectionsAssumption DEF Inv, LinkInv
    <3> QED
      BY <3>1 DEF Connections
  <2>5. Sub(h.id)
    BY <2>2, <2>3, <2>4 DEF Inv, HoldInv
  <2>6. ~Held(h.id)
    BY <2>1, <2>4 DEF Held
  <2>7. PICK m \in ToSet(sent[k]) : m.kind = "subscribe" /\ m.id = h.id
    BY <2>4, <2>5, <2>6 DEF Sub
  <2>8. m \in ToSet(Tail(sent[k]))
    BY <2>2, <2>3, <2>7
  <2>9. <<h, m>> \notin AP!AfterUnsubscribe
    <3>1. AP!Never(sent[k], AP!AfterUnsubscribe)
      BY DEF Inv, IdInv
    <3>2. \A y \in AP!ToSet(Tail(sent[k])) :
             <<Head(sent[k]), y>> \notin AP!AfterUnsubscribe
      BY <2>2, <3>1, AP!NeverTail, LibraryAssumptions
    <3> QED
      BY <2>8, <3>2, SameToSet DEF NextMessage
  <2>10. h \in AP!Message /\ m \in AP!Message
    <3>1. AP!Message = A!Message
      BY DEF A!Message, A!Kind, A!Req, AP!Message, AP!Kind, AP!Req
    <3>2. \A s \in Seq(A!Message) : \A x \in ToSet(s) : x \in A!Message
      BY DEF ToSet
    <3> QED
      BY <2>2, <2>3, <2>7, <3>1, <3>2
  <2> QED
    BY <2>2, <2>7, <2>9, <2>10 DEF AP!AfterUnsubscribe
<1>3. ASSUME \A k \in Connections : ~ReadUnsubscribeUnknown(k)
      PROVE  UNCHANGED crashed
  <2>1. ASSUME NEW k \in Connections, Reads(k)
        PROVE  UNCHANGED crashed
    <3>1. CASE ReadSubscribe(k)
      BY <3>1, ReadSubscribeMoves DEF Inv
    <3>2. CASE ReadSubscribeFailing(k)
      BY <3>2, ReadSubscribeFailingMoves DEF Inv
    <3>3. CASE ReadUnsubscribe(k)
      BY <3>3, ReadUnsubscribeMoves DEF Inv
    <3>4. CASE ReadPublish(k)
      BY <3>4 DEF ReadPublish, serviceVars
    <3> QED
      BY <1>3, <2>1, <3>1, <3>2, <3>3, <3>4 DEF Reads
  <2>2. ASSUME NEW k \in Connections, Notices(k) \/ Sends(k)
        PROVE  UNCHANGED crashed
    BY <2>2, NoticesMoves, SendsMoves DEF Inv
  <2>3. CASE Incoming
    BY <2>3, IncomingMoves DEF Inv
  <2> QED
    BY <2>1, <2>2, <2>3 DEF ServiceStep
<1>4. nconn \in Nat
  BY MaxConnectionsAssumption DEF Inv, LinkInv
<1> QED
  BY <1>1, <1>2, <1>3, <1>4 DEF Inv, ServiceSurvives

\* Every step keeps the invariant, and is one of MqttApi for the library.
LEMMA StepSimulates ==
    ASSUME Inv, [Next]_vars
    PROVE  Inv' /\ [A!Next]_A!vars
<1>1. CASE ~undefined /\ Library
  <2>1. A!Application \/ A!Tasks \/ A!Transmission \/ A!Reception
    BY <1>1 DEF Library, A!Transmission
  <2>2. A!Next /\ AP!Next
    BY <1>1, <2>1, SameLibrary DEF A!Next, AP!Next
  <2>3. AP!IInv' /\ AP!DInv'
    BY <2>2, AP!NextInv, AP!DeliveryStep, LibraryAssumptions DEF Inv
  <2>4. ServiceInv' /\ LinkInv' /\ OpenInv' /\ IdInv'
    BY <1>1, LibraryKeepsLink DEF Inv
  <2>5. HoldInv' /\ GoneInv'
    BY <1>1, LibraryKeepsHold, LibraryKeepsGone DEF Inv
  <2>6. ServiceSurvives'
    <3>1. /\ crashed' = crashed
          /\ nconn' = nconn \/ nconn' = nconn + 1
      <4>1. /\ crashed' = crashed
            /\ Send \/ Quiet \/ Open \/ Close \/ Read
        BY <1>1, LibraryLinks DEF Inv
      <4> QED
        BY <4>1 DEF Send, Quiet, Open, Close, Read, linkVars
    <3>2. nconn \in Nat
      BY MaxConnectionsAssumption DEF Inv, LinkInv
    <3> QED
      BY <3>1, <3>2 DEF Inv, ServiceSurvives
  <2> QED
    BY <2>2, <2>3, <2>4, <2>5, <2>6 DEF Inv
<1>2. CASE ~undefined /\ ServiceStep
  <2>1. A!Service \/ UNCHANGED A!vars
    BY <1>2, ServiceSimulates DEF Inv
  <2>2. [A!Next]_A!vars /\ [AP!Next]_AP!vars
    <3>1. CASE A!Service
      <4>1. AP!Service
        BY <3>1, SameLibrary
      <4>2. ~undefined
        BY <1>2
      <4> QED
        BY <3>1, <4>1, <4>2 DEF A!Next, AP!Next
    <3>2. CASE UNCHANGED A!vars
      BY <3>2, SameViewNext
    <3> QED
      BY <2>1, <3>1, <3>2
  <2>3. AP!IInv' /\ AP!DInv'
    BY <2>2, AP!NextInv, AP!DeliveryStep, LibraryAssumptions DEF Inv
  <2>4. ServiceKeeps
    BY <1>2, ServiceKeepsLemma DEF Inv
  <2>5. ServiceInv' /\ LinkInv' /\ OpenInv' /\ IdInv'
    BY <2>4, ServiceKeepsLink DEF Inv, ServiceKeeps
  <2>6. HoldInv' /\ GoneInv' /\ ServiceSurvives'
    BY <1>2, ServiceKeepsHold, ServiceKeepsGone, ServiceKeepsRunning DEF Inv
  <2> QED
    BY <2>2, <2>3, <2>5, <2>6 DEF Inv
<1>3. CASE UNCHANGED vars
  <2>1. UNCHANGED <<libraryVars, linkVars, serviceVars>>
    BY <1>3 DEF vars
  <2>2. UNCHANGED A!vars /\ UNCHANGED AP!vars
    <3>1. UNCHANGED A!vars
      BY <2>1 DEF A!vars, A!connVars, A!reqVars, A!appVars, A!linkVars,
                  libraryVars, linkVars, serviceVars, Stream
    <3> QED
      BY <3>1, SameViewNext
  <2>3. AP!IInv' /\ AP!DInv'
    BY <2>2, AP!NextInv, AP!DeliveryStep, LibraryAssumptions DEF Inv
  <2>4. ServiceInv'
    BY <2>1, QuietServiceMoves DEF Inv
  <2>5. /\ UNCHANGED <<handle, uid_gen, pending, subscribed, subs, hasPending,
                       unsubscribing, released>>
        /\ UNCHANGED <<conn, nconn, sent>>
        /\ UNCHANGED <<subscriptions, issued, broken, connected, wire, replies,
                       crashed>>
    BY <2>1 DEF libraryVars, linkVars, serviceVars
  <2>6. \A k : Made(k)' = Made(k) /\ Stream(k)' = Stream(k)
    BY <2>5 DEF Made, Stream
  <2>7. LinkInv' /\ OpenInv' /\ IdInv' /\ ServiceSurvives'
    BY <2>5, <2>6 DEF Inv, LinkInv, OpenInv, IdInv, ServiceSurvives
  <2>8. HoldInv'
    BY <2>5 DEF Inv, HoldInv, Sub, Held
  <2>9. GoneInv'
    BY <2>5 DEF Inv, GoneInv, AckOn, Stream
  <2> QED
    BY <2>2, <2>3, <2>4, <2>7, <2>8, <2>9 DEF Inv
<1> QED
  BY <1>1, <1>2, <1>3 DEF Next, ServiceStep

(***************************************************************************)
(* What MqttApi assumes of the service is what MqttService does, however   *)
(* the library's connections end and whatever the service has not noticed  *)
(* yet: every behaviour of the two is one of MqttApi.  So all that is      *)
(* proved of the library in MqttApi is proved of it with the real service. *)
(***************************************************************************)
THEOREM LibraryIsServed == Spec => LibraryView
<1>1. Init => Inv /\ A!Init
  BY InitInv, InitSimulates
<1>2. Inv /\ [Next]_vars => Inv' /\ [A!Next]_A!vars
  BY StepSimulates
<1> QED
  BY <1>1, <1>2, PTL DEF Spec, LibraryView, A!Spec

(***************************************************************************)
(* The invariant holds in every reachable state.                           *)
(***************************************************************************)
THEOREM Invariance == Spec => []Inv
<1>1. Init => Inv
  BY InitInv
<1>2. Inv /\ [Next]_vars => Inv'
  BY StepSimulates
<1> QED
  BY <1>1, <1>2, PTL DEF Spec

(***************************************************************************)
(* The library never asks the service to end a subscription that it does   *)
(* not have, until it makes a second connection: handle_mqtt_unsubscribe   *)
(* does not come to read the NULL subscription of line 1669.               *)
(***************************************************************************)
THEOREM ServiceKeepsUp == Spec => []ServiceSurvives
<1>1. Inv => ServiceSurvives
  BY DEF Inv
<1> QED
  BY <1>1, Invariance, PTL

(***************************************************************************)
(* Once the library has read what the service sent over the connection,    *)
(* the service holds exactly the subscriptions it made for it that the     *)
(* application has not ended.                                              *)
(***************************************************************************)
THEOREM SidesAgree == Spec => []InSync
<1>1. Inv => InSync
  <2> SUFFICES ASSUME Inv, conn # 0, conn \notin broken, Stream(conn) = <<>>,
                      NEW id \in Req
               PROVE  <<conn, id>> \in subscriptions
                        <=> <<conn, id>> \in issued /\ id \in ToSet(subscribed)
    BY DEF InSync
  <2>1. subscriptions \subseteq issued /\ subscriptions \in SUBSET SP!Rid
    BY DEF Inv, ServiceInv, SP!SoundInv, SP!IInv, SP!TypeOK
  <2>2. <<conn, id>> \in subscriptions => id \in ToSet(subscribed)
    <3>1. {r[2] : r \in {q \in subscriptions : S!Owner(q) = conn}}
             \subseteq AP!ToSet(subscribed)
      BY DEF Inv, AP!DInv, AP!Listed
    <3>2. <<conn, id>> \in subscriptions =>
             id \in {r[2] : r \in {q \in subscriptions : S!Owner(q) = conn}}
      BY <2>1, RemoteLemma
    <3> QED
      BY <3>1, <3>2, SameToSet
  <2>3. ~AckOn(conn, id)
    <3>1. Len(Stream(conn)) = 0
      OBVIOUS
    <3> QED
      BY <3>1 DEF AckOn
  <2>4. <<conn, id>> \in issued /\ id \in ToSet(subscribed) =>
          <<conn, id>> \in subscriptions
    BY <2>3 DEF Inv, GoneInv
  <2> QED
    BY <2>1, <2>2, <2>4
<1> QED
  BY <1>1, Invariance, PTL
=============================================================================
