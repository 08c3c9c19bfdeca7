--------------------------- MODULE MqttApiLinkProofs ---------------------------
(***************************************************************************)
(* The client library and its link to the service: it listens whenever it  *)
(* has to, what the service sends finds its subscription, and an           *)
(* UNSUBSCRIBE stays behind its SUBSCRIBE.  Proved for every number of     *)
(* requests and every set of environment events.                           *)
(***************************************************************************)
EXTENDS MqttApiProofs

(***************************************************************************)
(* Listening.  ReceiveArmed is not inductive: transmit_pending asks for a  *)
(* receive only when in_receive is not set, so a set flag has to mean that *)
(* a receive is outstanding.                                               *)
(***************************************************************************)
FlagTrue == client /\ in_receive => receiving

Listening == ReceiveArmed /\ FlagTrue

\* A closed link has nothing to listen for.
LEMMA ClosedLinkListens ==
    ASSUME ~client', toService' = <<>>, toClient' = <<>>, remote' = {}
    PROVE  Listening'
BY EmptyLemma DEF Listening, ReceiveArmed, FlagTrue

\* do_disconnect closes the link.
LEMMA DisconnectListens ==
    ASSUME DoDisconnect
    PROVE  Listening'
BY DoDisconnectLemma, ClosedLinkListens

\* The link and the flag stay as they are.
LEMMA SameLinkListens ==
    ASSUME Listening, UNCHANGED <<toService, toClient, remote, receiving>>,
           client' => client, client' /\ in_receive' => in_receive
    PROVE  Listening'
BY DEF Listening, ReceiveArmed, FlagTrue

\* Queueing a message may close the link and does nothing else to it.
LEMMA ProcessPendingListens ==
    ASSUME Listening, ProcessPending(th, pending', toService, receiving)
           \/ ProcessPending(FALSE, pending, toService, receiving),
           in_receive' = in_receive
    PROVE  Listening'
<1>1. \/ DoDisconnect
      \/ UNCHANGED <<toService, toClient, remote, receiving, client>>
  BY DEF ProcessPending
<1> QED
  BY <1>1, DisconnectListens, SameLinkListens

\* transmit_pending arms the receive that its message needs.
LEMMA TransmitListens ==
    ASSUME IInv, Listening, Transmit
    PROVE  Listening'
<1> DEFINE m == Head(pending)
<1>1. /\ client
      /\ in_receive' = (in_receive \/ WaitForResponse(m))
      /\ \/ DoDisconnect
         \/ /\ toService' = Append(toService, m)
            /\ receiving' = (receiving \/ in_receive' # in_receive)
            /\ UNCHANGED <<client, toClient, remote>>
  BY DEF Transmit, ProcessPending
<1>2. m \in Message /\ toService \in Seq(Message)
  BY TailLemma DEF Transmit, IInv, TypeOK
<1>3. in_receive \in BOOLEAN /\ receiving \in BOOLEAN
  BY DEF IInv, TypeOK
<1> HIDE DEF m
<1>4. CASE /\ toService' = Append(toService, m)
           /\ receiving' = (receiving \/ in_receive' # in_receive)
           /\ UNCHANGED <<client, toClient, remote>>
  <2>1. ToSet(toService') = ToSet(toService) \union {m}
    BY <1>2, <1>4, AppendLemma
  <2>2. receiving => receiving'
    BY <1>4
  <2>3. WaitForResponse(m) => receiving'
    <3>1. CASE in_receive
      BY <1>1, <2>2, <3>1 DEF Listening, FlagTrue
    <3>2. CASE ~in_receive
      BY <1>1, <1>4, <3>2
    <3> QED
      BY <3>1, <3>2
  <2>4. ReceiveArmed'
    BY <1>4, <2>1, <2>2, <2>3 DEF Listening, ReceiveArmed
  <2>5. FlagTrue'
    BY <1>1, <2>2, <2>3 DEF Listening, FlagTrue
  <2> QED
    BY <2>4, <2>5 DEF Listening
<1> QED
  BY <1>1, <1>4, DisconnectListens

\* A new connection starts with the flag cleared and an empty link.
LEMMA ReconnectListens ==
    ASSUME IInv, Connect \/ Reconnect
    PROVE  Listening'
<1>1. ~client /\ toService = <<>> /\ toClient = <<>> /\ remote = {}
  BY DEF IInv, LinkDown, HandleState, ReconnectExclusive, Connect, Reconnect
<1>2. in_receive' = FALSE /\ (DoDisconnect \/ UNCHANGED linkVars)
  BY DEF Connect, Reconnect, ResetReceive
<1>3. CASE UNCHANGED linkVars
  BY <1>1, <1>2, <1>3, EmptyLemma
     DEF linkVars, Listening, ReceiveArmed, FlagTrue
<1> QED
  BY <1>2, <1>3, DisconnectListens

\* A message is received, and the next receive is asked for.
LEMMA ReceiveListens ==
    ASSUME Listening, NEW id \in Req, ReceivePublish(id) \/ ReceiveAck(id)
    PROVE  Listening'
<1>1. /\ receiving /\ in_receive' = in_receive
      /\ DoDisconnect \/ UNCHANGED <<client, receiving>>
  BY DEF ReceivePublish, ReceiveAck, Receiving
<1>2. CASE UNCHANGED <<client, receiving>>
  BY <1>1, <1>2 DEF Listening, ReceiveArmed, FlagTrue
<1> QED
  BY <1>1, <1>2, DisconnectListens

\* What the service sends, it sends to a library that listens already.
LEMMA ServiceListens ==
    ASSUME IInv, Listening, Service
    PROVE  Listening'
<1> USE DEF connVars, linkVars
<1>1. CASE ServiceRead \/ ServiceReadStale
  <2> DEFINE m == Head(toService)
  <2>1. /\ toService # <<>> /\ toService' = Tail(toService)
        /\ m.kind = "publish" => remote' = remote /\ toClient' = toClient
        /\ UNCHANGED <<client, in_receive, receiving>>
    BY <1>1 DEF ServiceRead, ServiceReadStale
  <2>2. /\ m \in ToSet(toService)
        /\ ToSet(toService') \subseteq ToSet(toService)
    BY <2>1, TailLemma DEF IInv, TypeOK
  <2> HIDE DEF m
  <2>3. CASE m.kind = "publish"
    BY <2>1, <2>2, <2>3 DEF Listening, ReceiveArmed, FlagTrue
  <2>4. CASE m.kind # "publish"
    BY <2>1, <2>2, <2>4
       DEF Listening, ReceiveArmed, FlagTrue, WaitForResponse
  <2> QED
    BY <2>3, <2>4
<1>2. CASE \E n \in 1..MaxIncoming : \E ids \in [1..n -> remote] :
              ServicePush(ids)
  <2>1. PICK n \in 1..MaxIncoming :
           \E ids \in [1..n -> remote] : ServicePush(ids)
    BY <1>2
  <2>2. PICK ids \in [1..n -> remote] : ServicePush(ids)
    BY <2>1
  <2>3. remote # {}
    BY <2>2, MaxIncomingAssumption
  <2> QED
    BY <2>2, <2>3 DEF ServicePush, Listening, ReceiveArmed, FlagTrue
<1> QED
  BY <1>1, <1>2 DEF Service

\* Every step leaves the library listening.
LEMMA ListeningStep ==
    ASSUME IInv, Listening, [Next]_vars
    PROVE  Listening'
<1> USE DEF connVars, linkVars
<1>1. ASSUME UNCHANGED <<client, in_receive, toService, toClient, remote,
                         receiving>>
      PROVE  Listening'
  BY <1>1, SameLinkListens
<1>2. CASE Application
  <2>1. CASE Connect
    BY <2>1, ReconnectListens
  <2>2. CASE \/ \E withCont \in BOOLEAN : Publish(withCont) \/ Subscribe(withCont)
             \/ \E id \in Req : Unsubscribe(id)
    BY <2>2, ProcessPendingListens DEF Publish, Subscribe, Unsubscribe
  <2>3. CASE SubscribeAfterFreed
    BY <1>1, <2>3 DEF SubscribeAfterFreed, Undefined
  <2>4. CASE \E id \in Req : \/ PublishCancel(id) \/ PublishCancelDangling(id)
                             \/ Withdraw(id) \/ UnsubscribeFreed(id)
    BY <1>1, <2>4 DEF PublishCancel, PublishCancelDangling, Withdraw,
                      UnsubscribeFreed, Undefined
  <2>5. CASE Disconnect
    BY <2>5, ClosedLinkListens DEF Disconnect, CloseLink
  <2> QED
    BY <1>2, <2>1, <2>2, <2>3, <2>4, <2>5 DEF Application
<1>3. CASE Tasks
  <2>1. CASE \E id \in Req : \/ PublishTimeout(id) \/ SubscribeTimeout(id)
                             \/ PublishTimeoutAfterDisconnect(id)
    BY <1>1, <2>1 DEF PublishTimeout, SubscribeTimeout,
                      PublishTimeoutAfterDisconnect, Undefined
  <2>2. CASE ReconnectAfterDisconnect
    BY <1>1, <2>2 DEF ReconnectAfterDisconnect, Undefined
  <2> QED
    BY <1>3, <2>1, <2>2, ReconnectListens DEF Tasks
<1>4. CASE Transmission
  <2>1. CASE TransmitPastEnd \/ TransmitRefused \/ TransmitEmpty
    BY <1>1, <2>1 DEF TransmitPastEnd, TransmitRefused, TransmitEmpty, Undefined
  <2>2. CASE TransmitShort
    BY <2>2, ProcessPendingListens DEF TransmitShort
  <2>3. CASE TransmitFail
    BY <2>3, DisconnectListens DEF TransmitFail
  <2> QED
    BY <1>4, <2>1, <2>2, <2>3, TransmitListens DEF Transmission
<1>5. CASE Reception
  <2>1. CASE ReceiveNull
    BY <2>1, DisconnectListens DEF ReceiveNull
  <2>2. CASE \E id \in Req : ReceiveOverFreed(id)
    BY <1>1, <2>2 DEF ReceiveOverFreed, Undefined
  <2> QED
    BY <1>5, <2>1, <2>2, ReceiveListens DEF Reception
<1>6. CASE UNCHANGED vars
  BY <1>1, <1>6 DEF vars
<1> QED
  BY <1>2, <1>3, <1>4, <1>5, <1>6, ServiceListens DEF Next

(***************************************************************************)
(* Once a SUBSCRIBE or an UNSUBSCRIBE is on the link, and as long as the   *)
(* service may send, a receive is outstanding, over every reconnection.    *)
(***************************************************************************)
THEOREM ListensToService == Spec => []ReceiveArmed
<1>1. Init => Listening
  BY EmptyLemma DEF Init, Listening, ReceiveArmed, FlagTrue
<1>2. IInv /\ Listening /\ [Next]_vars => Listening'
  BY ListeningStep
<1>3. Listening => ReceiveArmed
  BY DEF Listening
<1> QED
  BY <1>1, <1>2, <1>3, Invariance, PTL DEF Spec

-----------------------------------------------------------------------------
(* Delivery *)

(***************************************************************************)
(* In the sequence s no element comes before another one that the relation *)
(* T forbids after it.                                                     *)
(***************************************************************************)
Never(s, T) ==
    \A i, j \in 1..Len(s) : i < j => <<s[i], s[j]>> \notin T

\* Nothing of a subscription follows its acknowledgement.
AfterAck ==
    {p \in Incoming \X Incoming : p[1].kind = "ack" /\ p[1].id = p[2].id}

\* Nothing about a subscription follows its UNSUBSCRIBE.
AfterUnsubscribe ==
    {p \in Message \X Message : /\ p[1].kind = "unsubscribe"
                                /\ p[2].kind # "publish"
                                /\ p[1].id = p[2].id}

(***************************************************************************)
(* NoUnmatched is not inductive.  A subscription leaves the list when its  *)
(* acknowledgement is read: that has to be the last of it in the link, in  *)
(* both directions, and the service must have forgotten it (LastOfIt).     *)
(* All else in the link, and what the service holds, has to belong to the  *)
(* list (Listed), and so has every handle that is not freed.               *)
(***************************************************************************)
Listed ==
    /\ remote \subseteq ToSet(subscribed)
    /\ \A m \in ToSet(toService) :
          m.kind # "publish" => m.id \in ToSet(subscribed)
    /\ subs \ freed \subseteq ToSet(subscribed)
    /\ NoUnmatched

LastOfIt ==
    /\ Never(toClient, AfterAck)
    /\ Never(toService, AfterUnsubscribe)
    /\ \A m \in ToSet(toClient) : m.kind = "ack" =>
          /\ m.id \notin remote
          /\ \A n \in ToSet(toService) : n.kind # "publish" => n.id # m.id

DInv == Listed /\ LastOfIt

-----------------------------------------------------------------------------
(* Sequences *)

LEMMA NeverEmpty ==
    ASSUME NEW T
    PROVE  Never(<<>>, T)
BY DEF Never

\* Of a sequence without its head, and of the head
LEMMA NeverTail ==
    ASSUME NEW S, NEW s \in Seq(S), NEW T, s # <<>>, Never(s, T)
    PROVE  /\ Never(Tail(s), T)
           /\ \A y \in ToSet(Tail(s)) : <<Head(s), y>> \notin T
<1> DEFINE t == Tail(s)
<1>1. /\ Len(s) \in Nat \ {0}
      /\ t \in Seq(S)
      /\ Len(t) = Len(s) - 1
      /\ \A i \in 1..Len(s) - 1 : t[i] = s[i + 1]
      /\ Head(s) = s[1]
  BY HeadTailProperties, EmptySeq, LenProperties
<1> HIDE DEF t
<1>2. ASSUME NEW i \in 1..Len(t), NEW j \in 1..Len(t), i < j
      PROVE  <<t[i], t[j]>> \notin T
  <2>1. /\ i + 1 \in 1..Len(s) /\ j + 1 \in 1..Len(s) /\ i + 1 < j + 1
        /\ t[i] = s[i + 1] /\ t[j] = s[j + 1]
    BY <1>1, <1>2
  <2> QED
    BY <2>1 DEF Never
<1>3. ASSUME NEW j \in 1..Len(t)
      PROVE  <<Head(s), t[j]>> \notin T
  <2>1. /\ 1 \in 1..Len(s) /\ j + 1 \in 1..Len(s) /\ 1 < j + 1
        /\ t[j] = s[j + 1]
    BY <1>1
  <2> QED
    BY <1>1, <2>1 DEF Never
<1>4. Never(t, T)
  BY <1>2 DEF Never
<1>5. \A y \in ToSet(t) : <<Head(s), y>> \notin T
  BY <1>1, <1>3 DEF ToSet
<1> QED
  BY <1>4, <1>5 DEF t

\* Of a sequence that another one is appended to
LEMMA NeverConcat ==
    ASSUME NEW S, NEW s \in Seq(S), NEW t \in Seq(S), NEW T,
           Never(s, T), Never(t, T),
           \A x \in ToSet(s), y \in ToSet(t) : <<x, y>> \notin T
    PROVE  /\ Never(s \o t, T)
           /\ ToSet(s \o t) = ToSet(s) \union ToSet(t)
<1> DEFINE u == s \o t
           k == Len(s)
<1>1. /\ u \in Seq(S)
      /\ k \in Nat /\ Len(t) \in Nat
      /\ Len(u) = k + Len(t)
      /\ \A i \in 1..k + Len(t) : u[i] = IF i <= k THEN s[i] ELSE t[i - k]
  BY ConcatProperties, LenProperties
<1>2. ToSet(s) = {s[i] : i \in 1..k} /\ ToSet(t) = {t[i] : i \in 1..Len(t)}
      /\ ToSet(u) = {u[i] : i \in 1..Len(u)}
  BY <1>1, LenProperties DEF ToSet
<1> HIDE DEF u, k
<1>3. ASSUME NEW i \in 1..Len(u)
      PROVE  \/ i \in 1..k /\ u[i] = s[i]
             \/ i > k /\ i - k \in 1..Len(t) /\ u[i] = t[i - k]
  BY <1>1
<1>4. ASSUME NEW i \in 1..Len(u), NEW j \in 1..Len(u), i < j
      PROVE  <<u[i], u[j]>> \notin T
  <2>1. CASE j \in 1..k /\ u[j] = s[j]
    <3>1. i \in 1..k /\ u[i] = s[i]
      BY <1>1, <1>3, <1>4, <2>1
    <3> QED
      BY <1>4, <2>1, <3>1 DEF Never, k
  <2>2. CASE j > k /\ j - k \in 1..Len(t) /\ u[j] = t[j - k]
    <3>1. CASE i \in 1..k /\ u[i] = s[i]
      BY <1>2, <2>2, <3>1
    <3>2. CASE i > k /\ i - k \in 1..Len(t) /\ u[i] = t[i - k]
      <4>1. i - k < j - k
        BY <1>1, <1>4
      <4> QED
        BY <2>2, <3>2, <4>1 DEF Never
    <3> QED
      BY <1>3, <3>1, <3>2
  <2> QED
    BY <1>3, <2>1, <2>2
<1>5. Never(u, T)
  BY <1>4 DEF Never
<1>6. ToSet(u) \subseteq ToSet(s) \union ToSet(t)
  BY <1>2, <1>3
<1>7. ASSUME NEW i \in 1..k
      PROVE  s[i] \in ToSet(u)
  <2>1. i \in 1..Len(u) /\ u[i] = s[i]
    BY <1>1
  <2> QED
    BY <1>2, <2>1
<1>8. ASSUME NEW i \in 1..Len(t)
      PROVE  t[i] \in ToSet(u)
  <2>1. i + k \in 1..Len(u) /\ ~(i + k <= k) /\ (i + k) - k = i
    BY <1>1
  <2>2. u[i + k] = t[(i + k) - k]
    BY <1>1, <2>1
  <2> QED
    BY <1>2, <2>1, <2>2
<1>9. ToSet(s) \union ToSet(t) \subseteq ToSet(u)
  BY <1>2, <1>7, <1>8
<1> QED
  BY <1>5, <1>6, <1>9 DEF u

\* Of a sequence that one element is appended to
LEMMA NeverAppend ==
    ASSUME NEW S, NEW s \in Seq(S), NEW x \in S, NEW T, Never(s, T),
           \A y \in ToSet(s) : <<y, x>> \notin T
    PROVE  Never(Append(s, x), T)
<1> DEFINE t == Append(s, x)
<1>1. /\ Len(s) \in Nat /\ Len(t) = Len(s) + 1
      /\ \A i \in 1..Len(s) : t[i] = s[i]
      /\ t[Len(s) + 1] = x
  BY AppendProperties, LenProperties
<1>2. ToSet(s) = {s[i] : i \in 1..Len(s)}
  BY LenProperties DEF ToSet
<1> HIDE DEF t
<1>3. ASSUME NEW i \in 1..Len(t), NEW j \in 1..Len(t), i < j
      PROVE  <<t[i], t[j]>> \notin T
  <2>1. i \in 1..Len(s) /\ t[i] = s[i] /\ (j \in 1..Len(s) \/ j = Len(s) + 1)
    BY <1>1, <1>3
  <2>2. CASE j \in 1..Len(s)
    BY <1>1, <1>3, <2>1, <2>2 DEF Never
  <2>3. CASE j = Len(s) + 1
    BY <1>1, <1>2, <2>1, <2>3
  <2> QED
    BY <2>1, <2>2, <2>3
<1> QED
  BY <1>3 DEF Never, t

-----------------------------------------------------------------------------
(* Steps that send and receive nothing *)

\* The link is as it was or closed, and the list has lost no handle.
Quiet ==
    /\ \/ UNCHANGED <<toService, toClient, remote>>
       \/ toService' = <<>> /\ toClient' = <<>> /\ remote' = {}
    /\ ToSet(subscribed) \subseteq ToSet(subscribed')
    /\ subs' \ freed' \subseteq (subs \ freed) \union ToSet(subscribed')

LEMMA QuietDelivers ==
    ASSUME DInv, Quiet
    PROVE  DInv'
<1>1. CASE UNCHANGED <<toService, toClient, remote>>
  BY <1>1 DEF DInv, Listed, LastOfIt, NoUnmatched, Quiet, Never
<1>2. CASE toService' = <<>> /\ toClient' = <<>> /\ remote' = {}
  BY <1>2, NeverEmpty, EmptyLemma
     DEF DInv, Listed, LastOfIt, NoUnmatched, Quiet
<1> QED
  BY <1>1, <1>2 DEF Quiet

\* Queueing a message closes the link at most.
LEMMA ProcessPendingQuiet ==
    ASSUME NEW t, NEW q, ProcessPending(t, q, toService, receiving)
    PROVE  \/ UNCHANGED <<toService, toClient, remote>>
           \/ toService' = <<>> /\ toClient' = <<>> /\ remote' = {}
BY DEF ProcessPending, DoDisconnect, CloseLink

\* A new subscription is listed.
LEMMA SubscribeQuiet ==
    ASSUME IInv, NEW withCont \in BOOLEAN, Subscribe(withCont)
    PROVE  Quiet
<1>1. /\ uid_gen' = uid_gen + 1 /\ uid_gen < MaxRequests
      /\ subs' = subs \union {uid_gen'}
      /\ freed' = freed
      /\ subscribed' = Append(subscribed, uid_gen')
      /\ ProcessPending(th, pending', toService, receiving)
  BY DEF Subscribe
<1>2. /\ uid_gen' \in Req
      /\ subscribed \in Seq(Req)
  BY <1>1, MaxRequestsAssumption DEF IInv, TypeOK, Req
<1>3. ToSet(subscribed') = ToSet(subscribed) \union {uid_gen'}
  BY <1>1, <1>2, AppendLemma
<1> QED
  BY <1>1, <1>3, ProcessPendingQuiet DEF Quiet

\* Neither the application nor a timer reaches the link but by closing it.
LEMMA ApplicationDelivers ==
    ASSUME IInv, DInv, Application \/ Tasks
    PROVE  DInv'
<1> SUFFICES Quiet
  BY QuietDelivers
<1> USE DEF linkVars, reqVars
<1>1. ASSUME Undefined
      PROVE  Quiet
  BY <1>1 DEF Undefined, Quiet
<1>2. CASE Application
  <2>1. CASE Connect \/ Disconnect
    BY <2>1 DEF Connect, Disconnect, CloseLink, Quiet
  <2>2. CASE \/ \E withCont \in BOOLEAN : Publish(withCont)
             \/ \E id \in Req : Unsubscribe(id)
    BY <2>2, ProcessPendingQuiet DEF Publish, Unsubscribe, Quiet
  <2>3. CASE \E withCont \in BOOLEAN : Subscribe(withCont)
    BY <2>3, SubscribeQuiet
  <2>4. CASE \E id \in Req : PublishCancel(id) \/ Withdraw(id)
    BY <2>4 DEF PublishCancel, Withdraw, Quiet
  <2>5. CASE \/ SubscribeAfterFreed
             \/ \E id \in Req : PublishCancelDangling(id) \/ UnsubscribeFreed(id)
    BY <1>1, <2>5
       DEF SubscribeAfterFreed, PublishCancelDangling, UnsubscribeFreed
  <2> QED
    BY <1>2, <2>1, <2>2, <2>3, <2>4, <2>5 DEF Application
<1>3. CASE Tasks
  <2>1. CASE \E id \in Req : PublishTimeout(id) \/ SubscribeTimeout(id)
    BY <2>1 DEF PublishTimeout, SubscribeTimeout, Quiet
  <2>2. CASE Reconnect
    BY <2>2 DEF Reconnect, DoDisconnect, CloseLink, Quiet
  <2>3. CASE \/ ReconnectAfterDisconnect
             \/ \E id \in Req : PublishTimeoutAfterDisconnect(id)
    BY <1>1, <2>3 DEF ReconnectAfterDisconnect, PublishTimeoutAfterDisconnect
  <2> QED
    BY <1>3, <2>1, <2>2, <2>3 DEF Tasks
<1> QED
  BY <1>2, <1>3

-----------------------------------------------------------------------------
(* Transmission *)

(***************************************************************************)
(* What leaves the queue goes to the end of the link.  Its request's       *)
(* earlier messages are not of a kind it may not follow: an UNSUBSCRIBE    *)
(* or an acknowledgement in the link is of a request with no message in    *)
(* the queue (LinkShape, QueueShape).                                      *)
(***************************************************************************)
LEMMA TransmitDelivers ==
    ASSUME IInv, DInv, Transmit
    PROVE  DInv'
<1> DEFINE m == Head(pending)
<1>1. /\ pending # <<>>
      /\ UNCHANGED <<subscribed, subs, freed>>
      /\ \/ DoDisconnect
         \/ /\ toService' = Append(toService, m)
            /\ UNCHANGED <<toClient, remote>>
  BY DEF Transmit, ProcessPending
<1>2. /\ m \in Message /\ m \in ToSet(pending)
      /\ toService \in Seq(Message) /\ toClient \in Seq(Incoming)
  BY <1>1, TailLemma DEF IInv, TypeOK
<1> HIDE DEF m
<1>3. /\ m.id \in hasPending \ freed
      /\ m.kind # "publish" => m.id \in subs
  BY <1>2 DEF IInv, QueueShape
<1>4. /\ \A n \in ToSet(toService) : n.kind = "unsubscribe" => n.id # m.id
      /\ \A n \in ToSet(toClient) : n.kind = "ack" => n.id # m.id
  BY <1>3 DEF IInv, LinkShape
<1>5. CASE DoDisconnect
  BY <1>1, <1>5, QuietDelivers DEF DoDisconnect, CloseLink, Quiet
<1>6. CASE /\ toService' = Append(toService, m)
           /\ UNCHANGED <<toClient, remote>>
  <2>1. \A n \in ToSet(toService) : <<n, m>> \notin AfterUnsubscribe
    BY <1>4 DEF AfterUnsubscribe
  <2>2. Never(toService', AfterUnsubscribe)
    BY <1>2, <1>6, <2>1, NeverAppend DEF DInv, LastOfIt
  <2>3. ToSet(toService') = ToSet(toService) \union {m}
    BY <1>2, <1>6, AppendLemma
  <2>4. Listed'
    BY <1>1, <1>3, <1>6, <2>3 DEF DInv, Listed, NoUnmatched
  <2>5. LastOfIt'
    BY <1>4, <1>6, <2>2, <2>3 DEF DInv, LastOfIt, Never
  <2> QED
    BY <2>4, <2>5 DEF DInv
<1> QED
  BY <1>1, <1>5, <1>6

LEMMA TransmissionDelivers ==
    ASSUME IInv, DInv, Transmission
    PROVE  DInv'
<1> USE DEF linkVars, reqVars
<1>1. CASE TransmitPastEnd \/ TransmitRefused \/ TransmitEmpty
  BY <1>1, QuietDelivers
     DEF TransmitPastEnd, TransmitRefused, TransmitEmpty, Undefined, Quiet
<1>2. CASE TransmitShort
  BY <1>2, ProcessPendingQuiet, QuietDelivers DEF TransmitShort, Quiet
<1>3. CASE TransmitFail
  BY <1>3, QuietDelivers DEF TransmitFail, DoDisconnect, CloseLink, Quiet
<1> QED
  BY <1>1, <1>2, <1>3, TransmitDelivers DEF Transmission

-----------------------------------------------------------------------------
(* Reception *)

\* A PUBLISH is read.
LEMMA ReceivePublishDelivers ==
    ASSUME IInv, DInv, NEW id \in Req, ReceivePublish(id)
    PROVE  DInv'
<1> USE DEF reqVars
<1>1. CASE DoDisconnect
  BY <1>1, QuietDelivers
     DEF ReceivePublish, DoDisconnect, CloseLink, Quiet
<1>2. CASE toClient' = Tail(toClient) /\ UNCHANGED <<toService, remote>>
  <2>1. /\ toClient # <<>> /\ toClient \in Seq(Incoming)
        /\ UNCHANGED <<subscribed, subs, freed>>
    BY DEF ReceivePublish, Receiving, IInv, TypeOK
  <2>2. /\ ToSet(toClient') \subseteq ToSet(toClient)
        /\ Never(toClient', AfterAck)
    BY <1>2, <2>1, TailLemma, NeverTail DEF DInv, LastOfIt
  <2> QED
    BY <1>2, <2>1, <2>2 DEF DInv, Listed, LastOfIt, NoUnmatched, Never
<1> QED
  BY <1>1, <1>2 DEF ReceivePublish

\* An acknowledgement is read, and with it the last of its subscription.
LEMMA ReceiveAckDelivers ==
    ASSUME IInv, DInv, NEW id \in Req, ReceiveAck(id)
    PROVE  DInv'
<1> USE DEF reqVars
<1>1. /\ toClient # <<>> /\ toClient \in Seq(Incoming)
      /\ Head(toClient) = Msg("ack", id)
      /\ subs' = subs
  BY DEF ReceiveAck, Receiving, IInv, TypeOK
<1>2. /\ Head(toClient) \in ToSet(toClient)
      /\ Head(toClient).kind = "ack" /\ Head(toClient).id = id
      /\ Tail(toClient) \in Seq(Incoming)
      /\ ToSet(Tail(toClient)) \subseteq ToSet(toClient)
  BY <1>1, TailLemma DEF Msg
<1>3. id \in ToSet(subscribed)
  BY <1>2 DEF DInv, Listed, NoUnmatched
<1>4. /\ subscribed' = Unlink(subscribed, id)
      /\ freed' = freed \union {id}
      /\ toClient' = Tail(toClient)
      /\ UNCHANGED <<toService, remote>>
  BY <1>3 DEF ReceiveAck, UnlinkFound
<1>5. ToSet(subscribed') = ToSet(subscribed) \ {id}
  BY <1>3, <1>4, UnlinkLemma DEF IInv, TypeOK, IdsKnown
<1>6. /\ Never(toClient', AfterAck)
      /\ \A n \in ToSet(toClient') : <<Head(toClient), n>> \notin AfterAck
  BY <1>1, <1>4, NeverTail DEF DInv, LastOfIt
<1>7. \A n \in ToSet(toClient') : n.id # id
  <2>1. ToSet(toClient') \subseteq Incoming /\ Head(toClient) \in Incoming
    BY <1>1, <1>2, <1>4, ToSetLemma
  <2> QED
    BY <1>2, <1>6, <2>1 DEF AfterAck
<1>8. /\ id \notin remote
      /\ \A n \in ToSet(toService) : n.kind # "publish" => n.id # id
  BY <1>2 DEF DInv, LastOfIt
<1>9. Listed'
  BY <1>1, <1>2, <1>4, <1>5, <1>7, <1>8 DEF DInv, Listed, NoUnmatched
<1>10. LastOfIt'
  BY <1>2, <1>4, <1>6 DEF DInv, LastOfIt, Never
<1> QED
  BY <1>9, <1>10 DEF DInv

-----------------------------------------------------------------------------
(* The service *)

\* A message is read, and an UNSUBSCRIBE acknowledged.
LEMMA ServiceReadDelivers ==
    ASSUME IInv, DInv, ServiceRead \/ ServiceReadStale
    PROVE  DInv'
<1> USE DEF reqVars
<1> DEFINE m == Head(toService)
<1>1. /\ toService # <<>> /\ toService \in Seq(Message)
      /\ toClient \in Seq(Incoming)
      /\ toService' = Tail(toService)
      /\ UNCHANGED <<subscribed, subs, freed>>
  BY DEF ServiceRead, ServiceReadStale, IInv, TypeOK
<1>2. \/ /\ m.kind = "publish"
         /\ toClient' = toClient /\ remote' = remote
      \/ /\ m.kind = "subscribe"
         /\ toClient' = toClient /\ remote' = remote \union {m.id}
      \/ /\ m.kind = "unsubscribe"
         /\ toClient' = Append(toClient, Msg("ack", m.id))
         /\ remote' \subseteq remote /\ m.id \notin remote'
  <2>1. m.kind \in {"publish", "subscribe", "unsubscribe"}
    BY <1>1, TailLemma, MsgLemma DEF Kind
  <2>2. CASE ServiceRead
    BY <2>1, <2>2 DEF ServiceRead
  <2>3. CASE ServiceReadStale
    BY <2>3 DEF ServiceReadStale
  <2> QED
    BY <2>2, <2>3
<1>3. /\ m \in Message /\ m \in ToSet(toService)
      /\ ToSet(toService') \subseteq ToSet(toService)
      /\ ToSet(toService) \subseteq Message
      /\ ToSet(toClient) \subseteq Incoming
  BY <1>1, TailLemma, ElementTypes DEF IInv
<1>4. /\ Never(toService', AfterUnsubscribe)
      /\ \A n \in ToSet(toService') : <<m, n>> \notin AfterUnsubscribe
  BY <1>1, NeverTail DEF DInv, LastOfIt
<1> HIDE DEF m
<1>5. m.kind # "publish" =>
         /\ m.id \in ToSet(subscribed)
         /\ \A n \in ToSet(toClient) : n.kind = "ack" => n.id # m.id
  BY <1>3 DEF DInv, Listed, LastOfIt
<1>6. CASE m.kind = "publish" /\ toClient' = toClient /\ remote' = remote
  BY <1>1, <1>3, <1>4, <1>6 DEF DInv, Listed, LastOfIt, NoUnmatched, Never
<1>7. CASE /\ m.kind = "subscribe"
           /\ toClient' = toClient /\ remote' = remote \union {m.id}
  <2>1. Listed'
    BY <1>1, <1>3, <1>5, <1>7 DEF DInv, Listed, NoUnmatched
  <2>2. LastOfIt'
    BY <1>1, <1>3, <1>4, <1>5, <1>7 DEF DInv, LastOfIt, Never
  <2> QED
    BY <2>1, <2>2 DEF DInv
<1>8. CASE /\ m.kind = "unsubscribe"
           /\ toClient' = Append(toClient, Msg("ack", m.id))
           /\ remote' \subseteq remote /\ m.id \notin remote'
  <2> DEFINE a == Msg("ack", m.id)
  <2>1. /\ a \in Incoming /\ a.kind = "ack" /\ a.id = m.id
        /\ m.id \in Req
    BY <1>3, MsgLemma DEF Msg
  <2> HIDE DEF a
  <2>2. ToSet(toClient') = ToSet(toClient) \union {a}
    BY <1>1, <1>8, <2>1, AppendLemma DEF a
  <2>3. \A n \in ToSet(toClient) : <<n, a>> \notin AfterAck
    BY <1>5, <1>8, <2>1 DEF AfterAck
  <2>4. Never(toClient', AfterAck)
    BY <1>1, <1>8, <2>1, <2>3, NeverAppend DEF DInv, LastOfIt, a
  <2>5. \A n \in ToSet(toService') : n.kind # "publish" => n.id # m.id
    BY <1>3, <1>4, <1>8 DEF AfterUnsubscribe
  <2>6. Listed'
    BY <1>1, <1>3, <1>5, <1>8, <2>1, <2>2 DEF DInv, Listed, NoUnmatched
  <2>7. LastOfIt'
    BY <1>3, <1>4, <1>8, <2>1, <2>2, <2>4, <2>5 DEF DInv, LastOfIt
  <2> QED
    BY <2>6, <2>7 DEF DInv
<1> QED
  BY <1>2, <1>6, <1>7, <1>8

\* A PUBLISH is copied for subscriptions the service holds.
LEMMA ServicePushDelivers ==
    ASSUME IInv, DInv, NEW n \in 1..MaxIncoming, NEW ids \in [1..n -> remote],
           ServicePush(ids)
    PROVE  DInv'
<1> USE DEF reqVars
<1> DEFINE copies == [i \in 1..n |-> Msg("publish", ids[i])]
<1>1. /\ toClient' = toClient \o copies
      /\ UNCHANGED <<toService, remote, subscribed, subs, freed>>
  BY DEF ServicePush
<1>2. /\ copies \in Seq(Incoming)
      /\ Len(copies) = n
      /\ \A i \in 1..n : copies[i].kind = "publish" /\ copies[i].id \in remote
  <2>1. \A i \in 1..n : /\ copies[i] \in Incoming
                        /\ copies[i].kind = "publish"
                        /\ copies[i].id \in remote
    BY MsgLemma DEF IInv, TypeOK, Msg
  <2>2. n \in Nat
    BY MaxIncomingAssumption
  <2> QED
    BY <2>1, <2>2
<1>3. toClient \in Seq(Incoming)
  BY DEF IInv, TypeOK
<1> HIDE DEF copies
<1>4. \A c \in ToSet(copies) : c.kind = "publish" /\ c.id \in remote
  BY <1>2, LenProperties DEF ToSet
<1>5. Never(copies, AfterAck)
  <2>1. "publish" # "ack"
    OBVIOUS
  <2> QED
    BY <1>2, <2>1 DEF Never, AfterAck
<1>6. \A x \in ToSet(toClient), y \in ToSet(copies) : <<x, y>> \notin AfterAck
  BY <1>4 DEF DInv, LastOfIt, AfterAck
<1>7. /\ Never(toClient', AfterAck)
      /\ ToSet(toClient') = ToSet(toClient) \union ToSet(copies)
  BY <1>1, <1>2, <1>3, <1>5, <1>6, NeverConcat DEF DInv, LastOfIt
<1>8. Listed'
  BY <1>1, <1>4, <1>7 DEF DInv, Listed, NoUnmatched
<1>9. LastOfIt'
  BY <1>1, <1>4, <1>7 DEF DInv, LastOfIt, Never
<1> QED
  BY <1>8, <1>9 DEF DInv

-----------------------------------------------------------------------------
(* The theorem *)

LEMMA DeliveryStep ==
    ASSUME IInv, DInv, [Next]_vars
    PROVE  DInv'
<1>1. CASE Reception
  <2>1. CASE ReceiveNull
    BY <2>1, QuietDelivers
       DEF ReceiveNull, DoDisconnect, CloseLink, Quiet, reqVars
  <2>2. CASE \E id \in Req : ReceiveOverFreed(id)
    BY <2>2, QuietDelivers
       DEF ReceiveOverFreed, Undefined, Quiet, reqVars, linkVars
  <2> QED
    BY <1>1, <2>1, <2>2, ReceivePublishDelivers, ReceiveAckDelivers
       DEF Reception
<1>2. CASE Service
  <2>1. CASE \E n \in 1..MaxIncoming : \E ids \in [1..n -> remote] :
                ServicePush(ids)
    BY <2>1, ServicePushDelivers
  <2> QED
    BY <1>2, <2>1, ServiceReadDelivers DEF Service
<1>3. CASE UNCHANGED vars
  BY <1>3, QuietDelivers DEF vars, Quiet, reqVars, linkVars
<1> QED
  BY <1>1, <1>2, <1>3, ApplicationDelivers, TransmissionDelivers DEF Next

(***************************************************************************)
(* What the service sends always finds its subscription in the library, so *)
(* that service_message_handler never breaks the connection with "matching *)
(* no subscriptions": whatever the application has unsubscribed and        *)
(* whichever earlier connections the library has had.                      *)
(***************************************************************************)
THEOREM NothingIsUnmatched == Spec => []NoUnmatched
<1>1. Init => DInv
  BY EmptyLemma, NeverEmpty
     DEF Init, DInv, Listed, LastOfIt, NoUnmatched
<1>2. IInv /\ DInv /\ [Next]_vars => DInv'
  BY DeliveryStep
<1>3. DInv => NoUnmatched
  BY DEF DInv, Listed
<1> QED
  BY <1>1, <1>2, <1>3, Invariance, PTL DEF Spec

\* Where an element of a concatenation comes from
LEMMA ConcatElement ==
    ASSUME NEW S, NEW s \in Seq(S), NEW t \in Seq(S), NEW i \in DOMAIN (s \o t)
    PROVE  /\ Len(s) \in Nat /\ i \in Nat
           /\ \/ i \in 1..Len(s) /\ (s \o t)[i] = s[i]
              \/ /\ i > Len(s) /\ i - Len(s) \in 1..Len(t)
                 /\ (s \o t)[i] = t[i - Len(s)]
<1>1. /\ s \o t \in Seq(S)
      /\ Len(s) \in Nat /\ Len(t) \in Nat
      /\ Len(s \o t) = Len(s) + Len(t)
      /\ \A k \in 1..Len(s) + Len(t) :
            (s \o t)[k] = IF k <= Len(s) THEN s[k] ELSE t[k - Len(s)]
  BY ConcatProperties, LenProperties
<1>2. i \in 1..Len(s) + Len(t)
  BY <1>1, LenProperties
<1> QED
  BY <1>1, <1>2

(***************************************************************************)
(* The order of a subscription's messages.  In the link it is LastOfIt;    *)
(* an UNSUBSCRIBE in the link is of a handle with no message in the queue  *)
(* (LinkShape), and the queue has at most one message of a handle.         *)
(***************************************************************************)
LEMMA OrderOfMessages ==
    ASSUME IInv, DInv
    PROVE  NeverOvertaken
<1> DEFINE way == toService \o pending
           k == Len(toService)
<1>1. toService \in Seq(Message) /\ pending \in Seq(Message)
  BY DEF IInv, TypeOK
<1>2. ASSUME NEW i \in DOMAIN way, NEW j \in DOMAIN way,
             way[i].kind = "unsubscribe",
             way[j] = Msg("subscribe", way[i].id)
      PROVE  j < i
  <2>1. /\ way[j].kind = "subscribe" /\ way[j].id = way[i].id
        /\ way[i].kind # way[j].kind
    BY <1>2 DEF Msg
  <2>2. /\ k \in Nat /\ i \in Nat /\ j \in Nat
        /\ \/ i \in 1..k /\ way[i] = toService[i]
           \/ i > k /\ i - k \in 1..Len(pending) /\ way[i] = pending[i - k]
        /\ \/ j \in 1..k /\ way[j] = toService[j]
           \/ j > k /\ j - k \in 1..Len(pending) /\ way[j] = pending[j - k]
    BY <1>1, <1>2, ConcatElement
  <2>3. CASE i \in 1..k /\ way[i] = toService[i]
    <3>1. way[i] \in ToSet(toService) /\ way[i] \in Message
      BY <1>1, <2>3 DEF ToSet
    <3>2. CASE j \in 1..k /\ way[j] = toService[j]
      <4>1. way[j] \in Message
        BY <1>1, <3>2
      <4>2. <<way[i], way[j]>> \in AfterUnsubscribe
        BY <1>2, <2>1, <3>1, <4>1 DEF AfterUnsubscribe
      <4>3. ~(i < j)
        BY <2>3, <3>2, <4>2 DEF DInv, LastOfIt, Never
      <4>4. i # j
        BY <2>1
      <4> QED
        BY <2>2, <4>3, <4>4
    <3>3. CASE j - k \in 1..Len(pending) /\ way[j] = pending[j - k]
      <4>1. way[j] \in ToSet(pending)
        BY <1>1, <3>3 DEF ToSet
      <4>2. way[j].id \in hasPending
        BY <4>1 DEF IInv, QueueShape
      <4>3. way[i].id \notin hasPending
        BY <1>2, <3>1 DEF IInv, LinkShape
      <4> QED
        BY <2>1, <4>2, <4>3
    <3> QED
      BY <2>2, <3>2, <3>3
  <2>4. CASE i > k /\ i - k \in 1..Len(pending) /\ way[i] = pending[i - k]
    <3>1. CASE j \in 1..k
      BY <2>2, <2>4, <3>1
    <3>2. CASE j - k \in 1..Len(pending) /\ way[j] = pending[j - k]
      <4>1. way[i] \in ToSet(pending) /\ way[j] \in ToSet(pending)
        BY <1>1, <2>4, <3>2 DEF ToSet
      <4>2. /\ way[i].id \in unsubscribing
            /\ way[j].kind = "unsubscribe" <=> way[j].id \in unsubscribing
        BY <1>2, <4>1 DEF IInv, QueueShape
      <4> QED
        BY <1>2, <2>1, <4>2
    <3> QED
      BY <2>2, <3>1, <3>2
  <2> QED
    BY <2>2, <2>3, <2>4
<1> QED
  BY <1>2 DEF NeverOvertaken

(***************************************************************************)
(* An UNSUBSCRIBE never overtakes the SUBSCRIBE it ends, over every number *)
(* of requests, timeouts and reconnections.                                *)
(***************************************************************************)
THEOREM UnsubscribeComesLast == Spec => []NeverOvertaken
<1>1. Init => DInv
  BY EmptyLemma, NeverEmpty
     DEF Init, DInv, Listed, LastOfIt, NoUnmatched
<1>2. IInv /\ DInv /\ [Next]_vars => DInv'
  BY DeliveryStep
<1>3. IInv /\ DInv => NeverOvertaken
  BY OrderOfMessages
<1> QED
  BY <1>1, <1>2, <1>3, Invariance, PTL DEF Spec

-----------------------------------------------------------------------------
(***************************************************************************)
(* What a step of the library may do, whatever serves it.  MqttSystem      *)
(* joins the library to MqttService; these facts are what its proofs need  *)
(* to know of the library's side.                                          *)
(***************************************************************************)
LibraryStep == Application \/ Tasks \/ Transmission \/ Reception

Lossy == {"lost", "refused"} \intersect Env # {}

\* A handle is opened once, with its first connection.  A connection ends
\* by GNUNET_MQTT_disconnect or because connections may break.
ConnectionMoves ==
    /\ handle' = "unset" => handle = "unset"
    /\ handle' = "open" => handle = "open" \/ (handle = "unset" /\ client')
    /\ client /\ ~client' => handle' = "freed" \/ Lossy
    /\ ~client /\ client' => handle' = "open"

\* do_disconnect runs only where connections may break: NoUnmatched rules
\* out the other calls of it.
LEMMA LibraryMovesConnection ==
    ASSUME IInv, DInv, LibraryStep
    PROVE  ConnectionMoves
<1> USE DEF connVars, linkVars
<1>1. ASSUME UNCHANGED <<handle, client>>
      PROVE  ConnectionMoves
  BY <1>1 DEF ConnectionMoves
<1>2. ASSUME handle' = handle, NEW t, NEW q, NEW out, NEW rcv,
             ProcessPending(t, q, out, rcv)
      PROVE  ConnectionMoves
  BY <1>2 DEF ConnectionMoves, ProcessPending, DoDisconnect, Lossy
<1>3. ASSUME handle' = handle, DoDisconnect, Lossy
      PROVE  ConnectionMoves
  BY <1>3 DEF ConnectionMoves, DoDisconnect
<1>4. CASE Application
  <2>1. CASE Connect \/ Disconnect
    BY <2>1 DEF Connect, Disconnect, ConnectionMoves
  <2>2. CASE \/ \E withCont \in BOOLEAN : Publish(withCont) \/ Subscribe(withCont)
             \/ \E id \in Req : Unsubscribe(id)
    BY <1>2, <2>2 DEF Publish, Subscribe, Unsubscribe
  <2>3. CASE \/ SubscribeAfterFreed
             \/ \E id \in Req : \/ PublishCancel(id) \/ Withdraw(id)
                               \/ PublishCancelDangling(id)
                               \/ UnsubscribeFreed(id)
    BY <1>1, <2>3 DEF SubscribeAfterFreed, PublishCancel, Withdraw,
                      PublishCancelDangling, UnsubscribeFreed, Undefined
  <2> QED
    BY <1>4, <2>1, <2>2, <2>3 DEF Application
<1>5. CASE Tasks
  <2>1. CASE Reconnect
    BY <2>1 DEF Reconnect, DoDisconnect, ConnectionMoves, Lossy
  <2>2. CASE \/ ReconnectAfterDisconnect
             \/ \E id \in Req : \/ PublishTimeout(id) \/ SubscribeTimeout(id)
                               \/ PublishTimeoutAfterDisconnect(id)
    BY <1>1, <2>2 DEF ReconnectAfterDisconnect, PublishTimeout, Undefined,
                      SubscribeTimeout, PublishTimeoutAfterDisconnect
  <2> QED
    BY <1>5, <2>1, <2>2 DEF Tasks
<1>6. CASE Transmission
  <2>1. CASE Transmit \/ TransmitShort
    BY <1>2, <2>1 DEF Transmit, TransmitShort
  <2>2. CASE TransmitPastEnd \/ TransmitRefused \/ TransmitEmpty
    BY <1>1, <2>2 DEF TransmitPastEnd, TransmitRefused, TransmitEmpty, Undefined
  <2>3. CASE TransmitFail
    BY <1>3, <2>3 DEF TransmitFail, Lossy
  <2> QED
    BY <1>6, <2>1, <2>2, <2>3 DEF Transmission
<1>7. CASE Reception
  <2>1. CASE ReceiveNull
    BY <1>3, <2>1 DEF ReceiveNull, Lossy
  <2>2. ASSUME NEW id \in Req, ReceivePublish(id) \/ ReceiveAck(id)
        PROVE  ConnectionMoves
    <3>1. /\ toClient # <<>> /\ toClient \in Seq(Incoming)
          /\ Head(toClient).id = id
      BY <2>2 DEF ReceivePublish, ReceiveAck, Receiving, IInv, TypeOK, Msg
    <3>2. Head(toClient) \in ToSet(toClient)
      BY <3>1, TailLemma
    <3>3. id \in ToSet(subscribed)
      BY <3>1, <3>2 DEF DInv, Listed, NoUnmatched
    <3> QED
      BY <1>1, <2>2, <3>3 DEF ReceivePublish, ReceiveAck
  <2>3. CASE \E id \in Req : ReceiveOverFreed(id)
    BY <1>1, <2>3 DEF ReceiveOverFreed, Undefined
  <2> QED
    BY <1>7, <2>1, <2>2, <2>3 DEF Reception
<1> QED
  BY <1>4, <1>5, <1>6, <1>7 DEF LibraryStep

(***************************************************************************)
(* Ids are new when a request is made.  An UNSUBSCRIBE is queued once for  *)
(* a subscription whose SUBSCRIBE has left the queue; it only leaves the   *)
(* queue by being sent, which leaves its request for good without a        *)
(* message.  And a subscription's SUBSCRIBE leaves the queue for a         *)
(* connection, or because it is taken back.                                *)
(***************************************************************************)
RequestsMove ==
    /\ uid_gen' \in {uid_gen, uid_gen + 1}
    /\ \A m \in ToSet(pending') :
          \/ m \in ToSet(pending)
          \/ m.kind # "unsubscribe" /\ m.id = uid_gen' /\ uid_gen' # uid_gen
          \/ m.kind = "unsubscribe" /\ m.id \in subs \ (hasPending \union released)
    /\ unsubscribing \ hasPending \subseteq unsubscribing' \ hasPending'
    /\ \A id \in subs' \ (hasPending' \union released') :
          \/ id \in subs \ (hasPending \union released)
          \/ ~client'
          \/ toService' = Append(toService, Msg("subscribe", id))
    /\ \A id \in ToSet(subscribed') :
          id \in ToSet(subscribed) \/ (id = uid_gen' /\ uid_gen' # uid_gen)

\* A step that makes no request and sends none.
LEMMA NoRequestMoves ==
    ASSUME UNCHANGED <<uid_gen, unsubscribing, subs, hasPending>>,
           released \subseteq released',
           ToSet(pending') \subseteq ToSet(pending),
           ToSet(subscribed') \subseteq ToSet(subscribed)
    PROVE  RequestsMove
BY DEF RequestsMove

\* A message leaves the queue from its head: none like it is left, and its
\* request has no other.
LEMMA TransmitMoves ==
    ASSUME IInv, Transmit
    PROVE  LET m == Head(pending)
           IN  /\ m \in Message /\ m \in ToSet(pending)
               /\ m.id \in hasPending
               /\ ToSet(pending') = ToSet(pending) \ {m}
               /\ hasPending' = IF m.kind = "publish" THEN hasPending
                                                      ELSE hasPending \ {m.id}
               /\ m.kind = "subscribe" => m.id \in subs \ unsubscribing
               /\ m.kind = "unsubscribe" => m.id \in unsubscribing
               /\ UNCHANGED <<uid_gen, unsubscribing, subs, released, subscribed>>
               /\ client' => toService' = Append(toService, m)
<1> DEFINE m == Head(pending)
<1>1. /\ pending \in Seq(Message) /\ pending # <<>> /\ IsInjective(pending)
      /\ pending' = Tail(pending)
      /\ hasPending' = IF m.kind = "publish" THEN hasPending
                                             ELSE hasPending \ {m.id}
      /\ UNCHANGED <<uid_gen, unsubscribing, subs, released, subscribed>>
      /\ client' => toService' = Append(toService, m)
  BY DEF Transmit, IInv, TypeOK, QueueShape, ProcessPending, DoDisconnect
<1>2. /\ m \in Message /\ m \in ToSet(pending)
      /\ ToSet(pending') = ToSet(pending) \ {m}
  BY <1>1, TailLemma
<1>3. /\ m.id \in hasPending
      /\ m.kind = "publish" <=> m.id \notin subs
      /\ m.kind = "unsubscribe" <=> m.id \in unsubscribing
  BY <1>2 DEF IInv, QueueShape
<1> HIDE DEF m
<1> QED
  BY <1>1, <1>2, <1>3 DEF m

LEMMA LibraryMovesRequests ==
    ASSUME IInv, LibraryStep
    PROVE  RequestsMove
<1> USE DEF connVars, reqVars, appVars, linkVars
<1>1. ASSUME Undefined
      PROVE  RequestsMove
  BY <1>1, NoRequestMoves DEF Undefined
<1>2. CASE Application
  <2>1. CASE Connect
    BY <2>1, NoRequestMoves DEF Connect
  <2>2. ASSUME NEW withCont \in BOOLEAN, Publish(withCont)
        PROVE  RequestsMove
    <3> DEFINE m == Msg("publish", uid_gen')
    <3>1. /\ uid_gen' = uid_gen + 1 /\ uid_gen < MaxRequests
          /\ hasPending' = hasPending \union {uid_gen'}
          /\ pending' = Cons(m, pending)
          /\ UNCHANGED <<unsubscribing, subs, released, subscribed>>
      BY <2>2 DEF Publish
    <3>2. /\ uid_gen' \in Req /\ uid_gen' # uid_gen
          /\ pending \in Seq(Message)
          /\ uid_gen' \notin unsubscribing
      BY <3>1, MaxRequestsAssumption DEF IInv, TypeOK, IdsKnown, Req
    <3>3. m \in Message /\ m.kind = "publish" /\ m.id = uid_gen'
      BY <3>2, MsgLemma DEF Kind
    <3> HIDE DEF m
    <3>4. ToSet(pending') = ToSet(pending) \union {m}
      BY <3>1, <3>2, <3>3, ConsLemma
    <3> QED
      BY <3>1, <3>2, <3>3, <3>4 DEF RequestsMove
  <2>3. ASSUME NEW withCont \in BOOLEAN, Subscribe(withCont)
        PROVE  RequestsMove
    <3> DEFINE m == Msg("subscribe", uid_gen')
    <3>1. /\ uid_gen' = uid_gen + 1 /\ uid_gen < MaxRequests
          /\ hasPending' = hasPending \union {uid_gen'}
          /\ subs' = subs \union {uid_gen'}
          /\ pending' = Cons(m, pending)
          /\ subscribed' = Append(subscribed, uid_gen')
          /\ UNCHANGED <<unsubscribing, released>>
      BY <2>3 DEF Subscribe
    <3>2. /\ uid_gen' \in Req /\ uid_gen' # uid_gen
          /\ pending \in Seq(Message) /\ subscribed \in Seq(Req)
          /\ uid_gen' \notin unsubscribing
      BY <3>1, MaxRequestsAssumption DEF IInv, TypeOK, IdsKnown, Req
    <3>3. m \in Message /\ m.kind = "subscribe" /\ m.id = uid_gen'
      BY <3>2, MsgLemma DEF Kind
    <3> HIDE DEF m
    <3>4. /\ ToSet(pending') = ToSet(pending) \union {m}
          /\ ToSet(subscribed') = ToSet(subscribed) \union {uid_gen'}
      <4>1. ToSet(pending') = ToSet(pending) \union {m}
        BY <3>1, <3>2, <3>3, ConsLemma
      <4>2. ToSet(subscribed') = ToSet(subscribed) \union {uid_gen'}
        BY <3>1, <3>2, AppendLemma
      <4> QED
        BY <4>1, <4>2
    <3> QED
      BY <3>1, <3>2, <3>3, <3>4 DEF RequestsMove
  <2>4. ASSUME NEW id \in Req, Unsubscribe(id)
        PROVE  RequestsMove
    <3> DEFINE m == Msg("unsubscribe", id)
    <3>1. /\ id \in subs \ (hasPending \union released)
          /\ hasPending' = hasPending \union {id}
          /\ unsubscribing' = unsubscribing \union {id}
          /\ released' = released \union {id}
          /\ pending' = Cons(m, pending)
          /\ UNCHANGED <<uid_gen, subs, subscribed>>
      BY <2>4 DEF Unsubscribe, StillQueued, MayUnsubscribe
    <3>2. pending \in Seq(Message) /\ id \notin unsubscribing
      BY <3>1 DEF IInv, TypeOK, IdsKnown
    <3>3. m \in Message /\ m.kind = "unsubscribe" /\ m.id = id
      BY MsgLemma DEF Kind
    <3> HIDE DEF m
    <3>4. ToSet(pending') = ToSet(pending) \union {m}
      BY <3>1, <3>2, <3>3, ConsLemma
    <3> QED
      BY <3>1, <3>2, <3>3, <3>4 DEF RequestsMove
  <2>5. ASSUME NEW id \in Req, PublishCancel(id) \/ Withdraw(id)
        PROVE  RequestsMove
    <3> DEFINE m == IF id \in subs THEN Msg("subscribe", id) ELSE Msg("publish", id)
    <3>1. /\ id \in hasPending
          /\ handle = "open"
          /\ hasPending' = hasPending \ {id}
          /\ released' = released \union {id}
          /\ UNCHANGED <<uid_gen, unsubscribing, subs, subscribed>>
          /\ ToSet(pending') \subseteq ToSet(pending)
      <4>1. CASE PublishCancel(id)
        <5>1. \E n \in ToSet(pending) : n = Msg("publish", id)
          BY <4>1, QueuedMessageLemma DEF PublishCancel, MayCancel
        <5> QED
          BY <4>1, <5>1, DequeueLemma DEF PublishCancel, MayCancel, IInv
      <4>2. CASE Withdraw(id)
        <5>1. \E n \in ToSet(pending) : n = Msg("subscribe", id)
          BY <4>2, QueuedMessageLemma DEF Withdraw, StillQueued, MayUnsubscribe
        <5> QED
          BY <4>2, <5>1, DequeueLemma DEF Withdraw, StillQueued, MayUnsubscribe, IInv
      <4> QED
        BY <2>5, <4>1, <4>2
    <3> QED
      BY <3>1 DEF RequestsMove
  <2>6. CASE Disconnect
    <3>1. /\ pending' = <<>> /\ ~client'
          /\ hasPending' = hasPending \ subs
          /\ UNCHANGED <<uid_gen, unsubscribing, subs, released, subscribed>>
      BY <2>6 DEF Disconnect
    <3> QED
      BY <3>1, EmptyLemma DEF RequestsMove
  <2>7. CASE \/ SubscribeAfterFreed
             \/ \E id \in Req : PublishCancelDangling(id) \/ UnsubscribeFreed(id)
    BY <1>1, <2>7
       DEF SubscribeAfterFreed, PublishCancelDangling, UnsubscribeFreed
  <2> QED
    BY <1>2, <2>1, <2>2, <2>3, <2>4, <2>5, <2>6, <2>7 DEF Application
<1>3. CASE Tasks
  <2>1. ASSUME NEW id \in Req, PublishTimeout(id) \/ SubscribeTimeout(id)
        PROVE  RequestsMove
    <3>1. ToSet(pending') \subseteq ToSet(pending)
      <4>1. CASE PublishTimeout(id)
        <5>1. Msg("publish", id) \in ToSet(pending)
          BY <4>1, QueuedMessageLemma DEF PublishTimeout
        <5> QED
          BY <4>1, <5>1, DequeueLemma DEF PublishTimeout, IInv
      <4>2. CASE SubscribeTimeout(id) /\ id \in hasPending
        <5>1. handle = "open"
          <6>1. CASE pending = <<>>
            <7>1. id \in (hasPending \intersect subs) \ freed
              BY <4>2 DEF SubscribeTimeout, IInv, IdsKnown
            <7> QED
              BY <6>1, <7>1, EmptyLemma DEF IInv, QueueShape, Queued
          <6> QED
            BY <6>1 DEF IInv, HandleState
        <5>2. Msg("subscribe", id) \in ToSet(pending)
          BY <4>2, <5>1, QueuedMessageLemma DEF SubscribeTimeout
        <5> QED
          BY <4>2, <5>2, DequeueLemma DEF SubscribeTimeout, IInv
      <4>3. CASE SubscribeTimeout(id) /\ id \notin hasPending
        BY <4>3 DEF SubscribeTimeout
      <4> QED
        BY <2>1, <4>1, <4>2, <4>3
    <3> QED
      BY <2>1, <3>1, NoRequestMoves DEF PublishTimeout, SubscribeTimeout
  <2>2. CASE Reconnect
    BY <2>2, NoRequestMoves DEF Reconnect
  <2>3. CASE \/ ReconnectAfterDisconnect
             \/ \E id \in Req : PublishTimeoutAfterDisconnect(id)
    BY <1>1, <2>3 DEF ReconnectAfterDisconnect, PublishTimeoutAfterDisconnect
  <2> QED
    BY <1>3, <2>1, <2>2, <2>3 DEF Tasks
<1>4. CASE Transmission
  <2>1. CASE Transmit
    <3> DEFINE m == Head(pending)
    <3>1. /\ m \in Message
          /\ ToSet(pending') = ToSet(pending) \ {m}
          /\ hasPending' = IF m.kind = "publish" THEN hasPending
                                                 ELSE hasPending \ {m.id}
          /\ m.kind = "unsubscribe" => m.id \in unsubscribing
          /\ UNCHANGED <<uid_gen, unsubscribing, subs, released, subscribed>>
          /\ client' => toService' = Append(toService, m)
      BY <2>1, TransmitMoves
    <3> HIDE DEF m
    <3>2. m = Msg(m.kind, m.id) /\ m.kind \in {"publish", "subscribe", "unsubscribe"}
      BY <3>1, MsgLemma DEF Kind
    <3>3. unsubscribing \subseteq released
      BY DEF IInv, IdsKnown
    <3>4. ASSUME NEW id \in subs' \ (hasPending' \union released'), client',
                 id \in hasPending
          PROVE  toService' = Append(toService, Msg("subscribe", id))
      <4>1. m.id = id /\ m.kind = "subscribe"
        BY <3>1, <3>2, <3>3, <3>4
      <4> QED
        BY <3>1, <3>2, <3>4, <4>1
    <3> QED
      BY <3>1, <3>4 DEF RequestsMove
  <2>2. CASE TransmitPastEnd \/ TransmitRefused
    BY <1>1, <2>2 DEF TransmitPastEnd, TransmitRefused
  <2>3. CASE TransmitEmpty \/ TransmitShort \/ TransmitFail
    BY <2>3, NoRequestMoves DEF TransmitEmpty, TransmitShort, TransmitFail
  <2> QED
    BY <1>4, <2>1, <2>2, <2>3 DEF Transmission
<1>5. CASE Reception
  <2>1. CASE ReceiveNull \/ \E id \in Req : ReceivePublish(id)
    BY <2>1, NoRequestMoves DEF ReceiveNull, ReceivePublish
  <2>2. ASSUME NEW id \in Req, ReceiveAck(id)
        PROVE  RequestsMove
    <3>1. ToSet(subscribed') \subseteq ToSet(subscribed)
      BY <2>2, UnlinkLemma DEF ReceiveAck, UnlinkFound, IInv, TypeOK, IdsKnown
    <3> QED
      BY <2>2, <3>1, NoRequestMoves DEF ReceiveAck
  <2>3. CASE \E id \in Req : ReceiveOverFreed(id)
    BY <1>1, <2>3 DEF ReceiveOverFreed
  <2> QED
    BY <1>5, <2>1, <2>2, <2>3 DEF Reception
<1> QED
  BY <1>2, <1>3, <1>4, <1>5 DEF LibraryStep

\* An acknowledgement that is read ends its subscription.
LEMMA AckEndsSubscription ==
    ASSUME IInv, DInv, Reception, client', toClient # <<>>,
           toClient' = Tail(toClient), Head(toClient).kind = "ack"
    PROVE  /\ Head(toClient).id \notin ToSet(subscribed')
           /\ ToSet(subscribed') \subseteq ToSet(subscribed)
<1>1. toClient \in Seq(Incoming)
  BY DEF IInv, TypeOK
<1>2. toClient' # toClient
  BY <1>1
<1>3. PICK id \in Req : ReceivePublish(id) \/ ReceiveAck(id)
  BY <1>2 DEF Reception, ReceiveOverFreed, Undefined, linkVars, ReceiveNull,
              DoDisconnect
<1>4. ReceiveAck(id) /\ Head(toClient).id = id
  <2>1. Msg("publish", id).kind # "ack" /\ Msg("ack", id).id = id
    BY DEF Msg
  <2> QED
    BY <1>3, <2>1 DEF ReceivePublish, ReceiveAck, Receiving
<1>5. Head(toClient) \in ToSet(toClient)
  BY <1>1, TailLemma
<1>6. id \in ToSet(subscribed)
  BY <1>4, <1>5 DEF DInv, Listed, NoUnmatched
<1>7. subscribed' = Unlink(subscribed, id)
  BY <1>4, <1>6 DEF ReceiveAck, UnlinkFound
<1>8. ToSet(subscribed') = ToSet(subscribed) \ {id}
  BY <1>6, <1>7, UnlinkLemma DEF IInv, TypeOK, IdsKnown
<1> QED
  BY <1>4, <1>8
=============================================================================
