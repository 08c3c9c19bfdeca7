-------------------------- MODULE MqttServiceProofs --------------------------
(***************************************************************************)
(* The service's subscriber side, for every set of clients, topics and     *)
(* filters and every set of environment events: first its resources, then  *)
(* what a client reads and in which order.                                 *)
(***************************************************************************)
EXTENDS MqttService, FiniteSetTheorems, SequenceTheorems, TLAPS

(***************************************************************************)
(* The inductive invariant.  The parts need each other: that an incoming   *)
(* PUBLISH requests transmissions for clients with a ClientInfo only rests *)
(* on OwnersAlive, and that a new ClientInfo starts with an empty queue on *)
(* NothingLeftBehind.                                                      *)
(***************************************************************************)
IInv == TypeOK /\ OwnersAlive /\ NothingLeftBehind /\ RequestOutstanding

-----------------------------------------------------------------------------
(* The ids and the copies of an incoming PUBLISH *)

\* An id belongs to one of the clients.
LEMMA OwnerIsClient ==
    ASSUME NEW r \in Rid
    PROVE  /\ Owner(r) \in Clients
           /\ r[2] \in 1..MaxSubscriptions[Owner(r)]
           /\ r = <<Owner(r), r[2]>>
<1>1. PICK c \in Clients : r \in {c} \X (1..MaxSubscriptions[c])
    BY DEF Rid
<1> QED BY <1>1 DEF Owner

\* There are finitely many ids.
LEMMA RidFinite == IsFiniteSet(Rid)
<1> DEFINE ids(c) == {c} \X (1..MaxSubscriptions[c])
           all == {ids(c) : c \in Clients}
           f == [c \in Clients |-> ids(c)]
<1>1. f \in Surjection(Clients, all)
    BY DEF Surjection
<1>2. IsFiniteSet(all)
    BY <1>1, FS_Surjection, ClientsAssumption
<1>3. ASSUME NEW S \in all
      PROVE  IsFiniteSet(S)
  <2>1. PICK c \in Clients : S = ids(c)
      BY <1>3
  <2>2. IsFiniteSet({c})
      BY FS_Singleton
  <2>3. IsFiniteSet(1..MaxSubscriptions[c])
      BY FS_Interval, MaxSubscriptionsAssumption
  <2>4. IsFiniteSet({c} \X (1..MaxSubscriptions[c]))
      BY <2>2, <2>3, FS_Product
  <2> QED BY <2>1, <2>4
<1>4. IsFiniteSet(UNION all)
    BY <1>2, <1>3, FS_UNION
<1> QED BY <1>4 DEF Rid

\* A finite set listed as a sequence is a sequence of its members, empty
\* only when the set is.
LEMMA SetToSeqLemma ==
    ASSUME NEW S, IsFiniteSet(S)
    PROVE  SetToSeq(S) \in Seq(S) /\ (S = {} => SetToSeq(S) = <<>>)
<1> DEFINE n == Cardinality(S)
<1>1. n \in Nat /\ ExistsBijection(1..n, S)
    BY FS_CardinalityType
<1>2. \E f \in [1..n -> S] : IsInjective(f)
    BY <1>1 DEF ExistsBijection, Bijection, Injection
<1>3. SetToSeq(S) \in [1..n -> S]
    BY <1>2 DEF SetToSeq
<1>4. SetToSeq(S) \in Seq(S) /\ Len(SetToSeq(S)) = n
    BY <1>1, <1>3, IsASeq, LenProperties
<1>5. S = {} => n = 0
    BY FS_EmptySet
<1> QED BY <1>4, <1>5, EmptySeq

\* What is queued for client c when a PUBLISH for topic t arrives: messages,
\* and none when no subscription of c matches t.
LEMMA CopiesLemma ==
    ASSUME TypeOK, incoming < MaxIncoming, NEW c \in Clients,
           NEW t \in Topics
    PROVE  /\ Copies(c, t) \in Seq(Message)
           /\ c \notin {Owner(r) : r \in Matching(t)} => Copies(c, t) = <<>>
<1> DEFINE S == {r \in Matching(t) : Owner(r) = c}
           n == incoming + 1
           T == {Copy(r, n) : r \in S}
           f == [r \in S |-> Copy(r, n)]
<1>1. S \subseteq Rid
    BY DEF TypeOK, Matching
<1>2. IsFiniteSet(S)
    BY <1>1, RidFinite, FS_Subset
<1>3. f \in Surjection(S, T)
    BY DEF Surjection
<1>4. IsFiniteSet(T)
    BY <1>2, <1>3, FS_Surjection
<1>5. n \in 1..MaxIncoming
    BY MaxIncomingAssumption DEF TypeOK
<1>6. T \subseteq Message
    BY <1>1, <1>5 DEF Copy, Message
<1>7. SetToSeq(T) \in Seq(T) /\ (T = {} => SetToSeq(T) = <<>>)
    BY <1>4, SetToSeqLemma
<1>8. Copies(c, t) = SetToSeq(T)
    BY DEF Copies
<1>9. Seq(T) \subseteq Seq(Message)
    BY <1>6, SeqMonotonic
<1>10. c \notin {Owner(r) : r \in Matching(t)} => S = {}
    OBVIOUS
<1>11. S = {} => T = {}
    OBVIOUS
<1> QED BY <1>7, <1>8, <1>9, <1>10, <1>11

-----------------------------------------------------------------------------
(* subscription_free *)

\* Freeing subscriptions keeps the types and frees no others.
LEMMA FreeLemma ==
    ASSUME TypeOK, NEW rs \in SUBSET Rid, SubscriptionFree(rs)
    PROVE  /\ subscriptions' = subscriptions \ rs
           /\ subscriptions' \subseteq Rid
           /\ announced' \subseteq Rid
           /\ lookups' \subseteq Rid
           /\ covers' \in [Rid -> SUBSET Topics]
           /\ monitors' \in [Rid -> SUBSET Keys]
<1>1. subscriptions' = subscriptions \ rs /\ announced' = announced \ rs
    BY DEF SubscriptionFree, Delisted, CancelAnnounce
<1>2. covers' \in [Rid -> SUBSET Topics]
    BY DEF SubscriptionFree, TypeOK
<1>3. PICK first \in [{r \in rs : monitors[r] # {}} -> Keys] :
        monitors' = [r \in Rid |->
            IF r \in DOMAIN first THEN monitors[r] \ {first[r]}
                                  ELSE monitors[r]]
    BY DEF SubscriptionFree
<1>4. monitors' \in [Rid -> SUBSET Keys]
    BY <1>3 DEF TypeOK
<1>5. lookups' \subseteq Rid
    BY DEF SubscriptionFree, CancelAnnounce, TypeOK
<1> QED BY <1>1, <1>2, <1>4, <1>5 DEF TypeOK
-----------------------------------------------------------------------------
(* Each step keeps the invariant *)

\* A step that leaves the subscriptions and the queues alone.
LEMMA QuietStep ==
    ASSUME IInv, TypeOK',
           UNCHANGED <<clients, pending, transmit, subscriptions>>,
           connected \subseteq connected', broken \subseteq broken'
    PROVE  IInv'
BY DEF IInv, OwnersAlive, NothingLeftBehind, RequestOutstanding

LEMMA ClientConnectsKeeps ==
    ASSUME IInv, NEW c \in Clients, ClientConnects(c)
    PROVE  IInv'
<1>1. TypeOK'
    BY DEF IInv, TypeOK, ClientConnects, queueVars, regexVars, clientVars
<1> QED BY <1>1, QuietStep
        DEF ClientConnects, queueVars

LEMMA ClientBreaksKeeps ==
    ASSUME IInv, NEW c \in Clients, ClientBreaks(c)
    PROVE  IInv'
<1>1. TypeOK'
    BY DEF IInv, TypeOK, ClientBreaks, queueVars, regexVars, clientVars
<1> QED BY <1>1, QuietStep
        DEF ClientBreaks, queueVars

LEMMA ClientReadsKeeps ==
    ASSUME IInv, NEW c \in Clients, ClientReads(c)
    PROVE  IInv'
<1>1. wire[c] \in Seq(Message) /\ wire[c] # <<>>
    BY DEF IInv, TypeOK, ClientReads
<1>2. Tail(wire[c]) \in Seq(Message) /\ Head(wire[c]) \in Message
    BY <1>1, HeadTailProperties
<1>3. wire' \in [Clients -> Seq(Message)]
    BY <1>2 DEF IInv, TypeOK, ClientReads
<1>4. \A m \in Message : m.rid \in Rid
    BY DEF Message, Publish, Ack
<1>5. acked' \subseteq Rid
    BY <1>2, <1>4 DEF IInv, TypeOK, ClientReads
<1>6. TypeOK'
    BY <1>3, <1>5
    DEF IInv, TypeOK, ClientReads, connVars, queueVars, regexVars
<1> QED BY <1>6, QuietStep
        DEF ClientReads, queueVars, connVars

LEMMA ClientGoneKeeps ==
    ASSUME IInv, NEW c \in Clients, ClientGone(c)
    PROVE  IInv'
<1>1. TypeOK /\ Owned(c) \in SUBSET Rid /\ SubscriptionFree(Owned(c))
    BY DEF IInv, TypeOK, ClientGone, Owned
<1>2. /\ subscriptions' = subscriptions \ Owned(c)
      /\ subscriptions' \subseteq Rid
      /\ announced' \subseteq Rid
      /\ lookups' \subseteq Rid
      /\ covers' \in [Rid -> SUBSET Topics]
      /\ monitors' \in [Rid -> SUBSET Keys]
    BY <1>1, FreeLemma
<1>3. <<>> \in Seq(Message)
    BY EmptySeq
<1>4. TypeOK'
    BY <1>2, <1>3
    DEF IInv, TypeOK, ClientGone, CancelTransmit, clientVars
<1>5. OwnersAlive'
  <2>1. \A r \in subscriptions' : r \in subscriptions /\ Owner(r) # c
      BY <1>2 DEF Owned
  <2> QED BY <2>1 DEF IInv, OwnersAlive, ClientGone
<1>6. NothingLeftBehind'
    BY DEF IInv, TypeOK, NothingLeftBehind, ClientGone, CancelTransmit
<1>7. RequestOutstanding'
    BY DEF IInv, TypeOK, RequestOutstanding, ClientGone, CancelTransmit
<1> QED BY <1>4, <1>5, <1>6, <1>7 DEF IInv

LEMMA SubscribingTypes ==
    ASSUME TypeOK, NEW c \in Clients, NEW r \in Rid, Subscribing(c, r)
    PROVE  /\ Owner(r) = c
           /\ c \in connected
           /\ issued' \subseteq Rid
           /\ UNCHANGED <<up, connected, asked, acked, incoming, wire,
                          undefined>>
BY DEF TypeOK, Subscribing

LEMMA SubscribeFailsKeeps ==
    ASSUME IInv, NEW c \in Clients, NEW r \in Rid,
           \/ SubscribeRejected(c, r)
           \/ SubscribeNotAnnounced(c, r)
           \/ SubscribeNotLookedUp(c, r)
    PROVE  IInv'
<1>1. Subscribing(c, r)
    BY DEF SubscribeRejected, SubscribeNotAnnounced, SubscribeNotLookedUp
<1>2. /\ c \in connected
      /\ issued' \subseteq Rid
      /\ UNCHANGED <<up, connected, asked, acked, incoming, wire, undefined>>
    BY <1>1, SubscribingTypes DEF IInv
<1>4. /\ UNCHANGED <<pending, transmit, subscriptions, covers, lookups,
                     monitors>>
      /\ clients' \in {clients, clients \cup {c}}
      /\ announced' \in {announced, announced \cup {r}}
      /\ broken' = broken \cup {c}
    BY DEF SubscribeRejected, SubscribeNotAnnounced, SubscribeNotLookedUp,
           queueVars, regexVars
<1>5. TypeOK'
    BY <1>2, <1>4 DEF IInv, TypeOK
<1> QED
    BY <1>2, <1>4, <1>5
    DEF IInv, OwnersAlive, NothingLeftBehind, RequestOutstanding

LEMMA SubscribeKeeps ==
    ASSUME IInv, NEW c \in Clients, NEW r \in Rid, NEW filter \in Filters,
           Subscribe(c, r, filter)
    PROVE  IInv'
<1>1. Subscribing(c, r)
    BY DEF Subscribe
<1>2. /\ Owner(r) = c /\ c \in connected
      /\ issued' \subseteq Rid
      /\ UNCHANGED <<up, connected, asked, acked, incoming, wire, undefined>>
    BY <1>1, SubscribingTypes DEF IInv
<1>4. filter \in SUBSET Topics
    BY FiltersAssumption
<1>5. /\ clients' = clients \cup {c}
      /\ subscriptions' = subscriptions \cup {r}
      /\ covers' = [covers EXCEPT ![r] = filter]
      /\ announced' = announced \cup {r}
      /\ lookups' = lookups \cup {r}
      /\ UNCHANGED <<broken, pending, transmit, monitors>>
    BY DEF Subscribe
<1>6. TypeOK'
    BY <1>2, <1>4, <1>5 DEF IInv, TypeOK
<1>7. OwnersAlive'
    BY <1>2, <1>5 DEF IInv, OwnersAlive
<1>8. NothingLeftBehind'
    BY <1>2, <1>5 DEF IInv, NothingLeftBehind
<1>9. RequestOutstanding'
    BY <1>2, <1>5 DEF IInv, NothingLeftBehind, RequestOutstanding
<1> QED BY <1>6, <1>7, <1>8, <1>9 DEF IInv

LEMMA StatesFoundKeeps ==
    ASSUME IInv, NEW r \in Rid, NEW found \in SUBSET Keys,
           StatesFound(r, found)
    PROVE  IInv'
<1>1. TypeOK'
    BY DEF IInv, TypeOK, StatesFound, connVars, queueVars, clientVars
<1> QED BY <1>1, QuietStep DEF StatesFound, connVars, queueVars
LEMMA UnsubscribeKeeps ==
    ASSUME IInv, NEW c \in Clients, NEW r \in Rid, Unsubscribe(c, r)
    PROVE  IInv'
<1>1. TypeOK /\ {r} \in SUBSET Rid /\ SubscriptionFree({r})
    BY DEF IInv, Unsubscribe
<1>2. /\ subscriptions' = subscriptions \ {r}
      /\ subscriptions' \subseteq Rid
      /\ announced' \subseteq Rid
      /\ lookups' \subseteq Rid
      /\ covers' \in [Rid -> SUBSET Topics]
      /\ monitors' \in [Rid -> SUBSET Keys]
    BY <1>1, FreeLemma
<1>3. c \in connected /\ Ack(r) \in Message
    BY DEF Unsubscribe, Unsubscribing, Message
<1>4. /\ pending' = [pending EXCEPT ![c] = @ \o <<Ack(r)>>]
      /\ transmit' = transmit \cup {c}
      /\ clients' = clients \cup {c}
      /\ asked' = asked \cup {r}
      /\ UNCHANGED <<up, connected, broken, issued, acked, incoming, wire,
                     undefined>>
    BY DEF Unsubscribe, AddPending, InsertTail, connVars
<1>5. pending[c] \o <<Ack(r)>> \in Seq(Message)
  <2>1. pending[c] \in Seq(Message) /\ <<Ack(r)>> \in Seq(Message)
      BY <1>3 DEF IInv, TypeOK
  <2> QED BY <2>1, ConcatProperties
<1>6. TypeOK'
    BY <1>2, <1>3, <1>4, <1>5 DEF IInv, TypeOK
<1>7. OwnersAlive'
    BY <1>2, <1>4 DEF IInv, OwnersAlive
<1>8. NothingLeftBehind'
    BY <1>3, <1>4 DEF IInv, TypeOK, NothingLeftBehind
<1>9. RequestOutstanding'
    BY <1>3, <1>4 DEF IInv, TypeOK, NothingLeftBehind, RequestOutstanding
<1> QED BY <1>6, <1>7, <1>8, <1>9 DEF IInv

LEMMA IncomingPublishKeeps ==
    ASSUME IInv, NEW t \in Topics, IncomingPublish(t)
    PROVE  IInv'
<1> DEFINE served == {Owner(r) : r \in Matching(t)}
<1>1. /\ incoming < MaxIncoming
      /\ incoming' = incoming + 1
      /\ pending' = [c \in Clients |-> pending[c] \o Copies(c, t)]
      /\ transmit' = transmit \cup served
      /\ UNCHANGED <<up, connected, broken, clients, subscriptions, covers,
                     announced, lookups, monitors, issued, asked, acked,
                     wire, undefined>>
    BY DEF IncomingPublish, InsertTail, connVars, regexVars, clientVars
<1>2. served \subseteq clients
    BY DEF IInv, OwnersAlive, Matching
<1> HIDE DEF served
<1>3. ASSUME NEW c \in Clients
      PROVE  /\ pending'[c] \in Seq(Message)
             /\ c \notin served => pending'[c] = pending[c]
  <2>1. pending[c] \in Seq(Message)
      BY DEF IInv, TypeOK
  <2>2. /\ Copies(c, t) \in Seq(Message)
        /\ c \notin served => Copies(c, t) = <<>>
      BY <1>1, CopiesLemma DEF IInv, served
  <2>3. pending[c] \o Copies(c, t) \in Seq(Message)
      BY <2>1, <2>2, ConcatProperties
  <2>4. pending[c] \o <<>> = pending[c]
      BY <2>1, ConcatEmptySeq
  <2> QED BY <1>1, <2>2, <2>3, <2>4
<1>4. incoming' \in 0..MaxIncoming
    BY <1>1, MaxIncomingAssumption DEF IInv, TypeOK
<1>5. pending' \in [Clients -> Seq(Message)]
    BY <1>1, <1>3
<1>6. TypeOK'
    BY <1>1, <1>2, <1>4, <1>5 DEF IInv, TypeOK
<1>7. OwnersAlive'
    BY <1>1 DEF IInv, OwnersAlive
<1>8. NothingLeftBehind'
    BY <1>1, <1>2, <1>3 DEF IInv, TypeOK, NothingLeftBehind
<1>9. RequestOutstanding'
    BY <1>1, <1>3 DEF IInv, TypeOK, RequestOutstanding
<1> QED BY <1>6, <1>7, <1>8, <1>9 DEF IInv

LEMMA SendReplyKeeps ==
    ASSUME IInv, NEW c \in Clients, NEW k \in 1..Len(pending[c]),
           SendReply(c, k)
    PROVE  IInv'
<1> DEFINE rest == SubSeq(pending[c], k + 1, Len(pending[c]))
           sent == SubSeq(pending[c], 1, k)
<1>1. /\ c \in transmit
      /\ wire' = [wire EXCEPT ![c] = @ \o sent]
      /\ pending' = [pending EXCEPT ![c] = rest]
      /\ transmit' = IF rest = <<>> THEN transmit \ {c} ELSE transmit
      /\ UNCHANGED <<up, connected, broken, clients, subscriptions, covers,
                     announced, lookups, monitors, issued, asked, acked,
                     incoming, undefined>>
    BY DEF SendReply, RequestAgain, connVars, regexVars, clientVars
<1>2. rest \in Seq(Message) /\ sent \in Seq(Message)
  <2>1. pending[c] \in Seq(Message) /\ Len(pending[c]) \in Nat
      BY LenProperties DEF IInv, TypeOK
  <2>2. \A i \in 1..Len(pending[c]) : pending[c][i] \in Message
      BY <2>1, ElementOfSeq
  <2>3. rest \in Seq(Message)
      BY <2>1, <2>2
  <2>4. sent \in Seq(Message)
      BY <2>1, <2>2
  <2> QED BY <2>3, <2>4
<1>3. wire[c] \o sent \in Seq(Message)
  <2>1. wire[c] \in Seq(Message)
      BY DEF IInv, TypeOK
  <2> QED BY <1>2, <2>1, ConcatProperties
<1> HIDE DEF rest, sent
<1>4. TypeOK'
    BY <1>1, <1>2, <1>3 DEF IInv, TypeOK
<1>5. OwnersAlive'
    BY <1>1 DEF IInv, OwnersAlive
<1>6. NothingLeftBehind'
    BY <1>1 DEF IInv, TypeOK, NothingLeftBehind
<1>7. RequestOutstanding'
    BY <1>1 DEF IInv, TypeOK, RequestOutstanding
<1> QED BY <1>4, <1>5, <1>6, <1>7 DEF IInv

LEMMA SendFailsKeeps ==
    ASSUME IInv, NEW c \in Clients, SendFails(c)
    PROVE  IInv'
<1>1. TypeOK'
    BY DEF IInv, TypeOK, SendFails, connVars, regexVars, clientVars
<1> QED BY <1>1
        DEF IInv, OwnersAlive, NothingLeftBehind, RequestOutstanding,
            SendFails, connVars

LEMMA ShutdownKeeps ==
    ASSUME IInv, Shutdown
    PROVE  IInv'
<1>1. TypeOK /\ subscriptions \in SUBSET Rid /\ SubscriptionFree(subscriptions)
    BY DEF IInv, TypeOK, Shutdown
<1>2. /\ subscriptions' = subscriptions \ subscriptions
      /\ subscriptions' \subseteq Rid
      /\ announced' \subseteq Rid
      /\ lookups' \subseteq Rid
      /\ covers' \in [Rid -> SUBSET Topics]
      /\ monitors' \in [Rid -> SUBSET Keys]
    BY <1>1, FreeLemma
<1>3. /\ up' = FALSE /\ broken' = connected
      /\ UNCHANGED <<connected, clients, pending, transmit, issued, asked,
                     acked, incoming, wire, undefined>>
    BY DEF Shutdown, queueVars, clientVars
<1>4. TypeOK'
    BY <1>2, <1>3 DEF IInv, TypeOK
<1> QED BY <1>2, <1>3, <1>4
        DEF IInv, OwnersAlive, NothingLeftBehind, RequestOutstanding

\* A use of freed or NULL memory ends the description of the behaviour.
LEMMA UndefinedKeeps ==
    ASSUME IInv, Undefined
    PROVE  IInv'
<1>1. TypeOK'
    BY DEF IInv, TypeOK, Undefined, connVars, queueVars, regexVars, clientVars
<1> QED BY <1>1, QuietStep DEF Undefined, connVars, queueVars

\* No step breaks the invariant.
LEMMA NextKeeps ==
    ASSUME IInv, [Next]_vars
    PROVE  IInv'
<1>1. ASSUME NEW c \in Clients, Connections(c)
      PROVE  IInv'
    BY <1>1, ClientConnectsKeeps, ClientBreaksKeeps, ClientGoneKeeps,
       ClientReadsKeeps, UndefinedKeeps
    DEF Connections, ClientGoneOverFreed
<1>2. ASSUME NEW c \in Clients, NEW r \in Rid, Subscribes(c, r)
      PROVE  IInv'
    BY <1>2, SubscribeFailsKeeps, SubscribeKeeps DEF Subscribes
<1>3. ASSUME NEW c \in Clients, Sends(c)
      PROVE  IInv'
    BY <1>3, SendFailsKeeps, SendReplyKeeps DEF Sends
<1>4. ASSUME NEW c \in Clients, NEW r \in Rid, Unsubscribes(c, r)
      PROVE  IInv'
    BY <1>4, UnsubscribeKeeps, UndefinedKeeps
    DEF Unsubscribes, UnsubscribeOverFreed, UnsubscribeUnknown
<1>5. CASE \/ ShutdownOverFreed
           \/ \E r \in Rid : StatesFoundNull(r)
           \/ \E c \in Clients : SendPastEnd(c)
    BY <1>5, UndefinedKeeps DEF ShutdownOverFreed, StatesFoundNull, SendPastEnd
<1>6. CASE UNCHANGED vars
  <2>1. TypeOK'
      BY <1>6
      DEF IInv, TypeOK, vars, connVars, queueVars, regexVars, clientVars
  <2> QED BY <1>6, <2>1, QuietStep DEF vars, connVars, queueVars
<1> QED
    BY <1>1, <1>2, <1>3, <1>4, <1>5, <1>6, StatesFoundKeeps,
       IncomingPublishKeeps, ShutdownKeeps DEF Next

\* The invariant holds initially.
LEMMA InitHolds == ASSUME Init PROVE IInv
<1>1. <<>> \in Seq(Message)
    BY EmptySeq
<1>2. TypeOK
  <2>1. pending \in [Clients -> Seq(Message)]
      BY <1>1 DEF Init
  <2>2. wire \in [Clients -> Seq(Message)]
      BY <1>1 DEF Init
  <2>3. incoming \in 0..MaxIncoming
      BY MaxIncomingAssumption DEF Init
  <2>4. /\ covers \in [Rid -> SUBSET Topics]
        /\ monitors \in [Rid -> SUBSET Keys]
        /\ issued \subseteq Rid
      BY DEF Init
  <2> QED BY <2>1, <2>2, <2>3, <2>4 DEF Init, TypeOK
<1> QED BY <1>2
        DEF IInv, OwnersAlive, NothingLeftBehind, RequestOutstanding, Init

-----------------------------------------------------------------------------
(* The theorems *)

\* IInv is an invariant of the service.
THEOREM Invariance == Spec => []IInv
BY InitHolds, NextKeeps, PTL DEF Spec

\* Every variable keeps its type, and every message queued for a client
\* carries the id of a subscription (deliver_incoming_publish, line 1777).
THEOREM TypeCorrect == Spec => []TypeOK
<1>1. IInv => TypeOK
    BY DEF IInv
<1> QED BY <1>1, Invariance, PTL

\* No subscription points to a ClientInfo that handle_client_disconnect
\* has freed.
THEOREM SubscriptionsHaveOwners == Spec => []OwnersAlive
<1>1. IInv => OwnersAlive
    BY DEF IInv
<1> QED BY <1>1, Invariance, PTL

\* client_info_free leaves neither a queue nor a transmission behind.
THEOREM NothingIsLeftBehind == Spec => []NothingLeftBehind
<1>1. IInv => NothingLeftBehind
    BY DEF IInv
<1> QED BY <1>1, Invariance, PTL

\* process_pending_client_messages never leaves a working client's queue
\* without a transmission that will empty it.
THEOREM RequestIsOutstanding == Spec => []RequestOutstanding
<1>1. IInv => RequestOutstanding
    BY DEF IInv
<1> QED BY <1>1, Invariance, PTL

-----------------------------------------------------------------------------
(* Announcements and monitors *)

\* The announcement of what exists is made already.
Announcing == subscriptions \subseteq announced

\* What a step does to the subscriptions and to the announcements: it ends
\* both for the same ids, or makes both for one id, or makes neither or an
\* announcement only.
Paired ==
    \/ \E rs \in SUBSET Rid : /\ subscriptions' = subscriptions \ rs
                             /\ announced' = announced \ rs
    \/ \E r \in Rid : /\ subscriptions' = subscriptions \cup {r}
                     /\ announced' = announced \cup {r}
    \/ subscriptions' = subscriptions /\ announced \subseteq announced'

LEMMA FreePairs ==
    ASSUME NEW rs \in SUBSET Rid, SubscriptionFree(rs)
    PROVE  Paired
BY DEF SubscriptionFree, Delisted, CancelAnnounce, Paired

\* Every step treats the two alike.
LEMMA NextPairs ==
    ASSUME TypeOK, [Next]_vars
    PROVE  Paired
<1>1. ASSUME UNCHANGED <<subscriptions, announced>>
      PROVE  Paired
    BY <1>1 DEF Paired
<1>2. CASE Undefined
    BY <1>1, <1>2 DEF Undefined, regexVars
<1>3. ASSUME NEW c \in Clients, Connections(c)
      PROVE  Paired
  <2>1. Owned(c) \in SUBSET Rid
      BY DEF Owned, TypeOK
  <2> QED
      BY <1>1, <1>2, <1>3, <2>1, FreePairs
      DEF Connections, ClientConnects, ClientBreaks, ClientGone,
          ClientGoneOverFreed, ClientReads, regexVars
<1>4. ASSUME NEW c \in Clients, NEW r \in Rid, Subscribes(c, r)
      PROVE  Paired
  <2>1. CASE SubscribeRejected(c, r) \/ SubscribeNotAnnounced(c, r)
      BY <1>1, <2>1 DEF SubscribeRejected, SubscribeNotAnnounced, regexVars
  <2>2. CASE SubscribeNotLookedUp(c, r)
      BY <2>2 DEF SubscribeNotLookedUp, Paired
  <2>3. CASE \E filter \in Filters : Subscribe(c, r, filter)
      BY <2>3 DEF Subscribe, Paired
  <2> QED BY <1>4, <2>1, <2>2, <2>3 DEF Subscribes
<1>5. ASSUME NEW c \in Clients, Sends(c)
      PROVE  Paired
    BY <1>1, <1>5 DEF Sends, SendFails, SendReply, regexVars
<1>6. ASSUME NEW c \in Clients, NEW r \in Rid, Unsubscribes(c, r)
      PROVE  Paired
    BY <1>2, <1>6, FreePairs
    DEF Unsubscribes, Unsubscribe, UnsubscribeOverFreed, UnsubscribeUnknown
<1>7. CASE \E r \in Rid, found \in SUBSET Keys : StatesFound(r, found)
    BY <1>1, <1>7 DEF StatesFound
<1>8. CASE \E t \in Topics : IncomingPublish(t)
    BY <1>1, <1>8 DEF IncomingPublish, regexVars
<1>9. CASE Shutdown \/ ShutdownOverFreed
    BY <1>2, <1>9, FreePairs DEF Shutdown, ShutdownOverFreed, TypeOK
<1>10. CASE \/ \E r \in Rid : StatesFoundNull(r)
            \/ \E c \in Clients : SendPastEnd(c)
    BY <1>2, <1>10 DEF StatesFoundNull, SendPastEnd
<1>11. CASE UNCHANGED vars
    BY <1>1, <1>11 DEF vars, regexVars
<1> QED BY <1>3, <1>4, <1>5, <1>6, <1>7, <1>8, <1>9, <1>10, <1>11 DEF Next

\* A subscription is announced for as long as it exists and no longer,
\* whichever of unsubscribe, disconnection and shutdown ends it, and whatever
\* fails: subscription_free cancels the announcement.
THEOREM AnnouncedExactly == Spec => AnnouncementEnds
<1>1. Init => Announcing
    BY DEF Init, Announcing
<1>2. ASSUME IInv, Announcing, [Next]_vars
      PROVE  /\ Announcing'
             /\ \A r \in subscriptions :
                   r \in announced /\ (r \in subscriptions' <=> r \in announced')
  <2>1. Paired
      BY <1>2, NextPairs DEF IInv
  <2> QED BY <1>2, <2>1 DEF Paired, Announcing
<1>3. IInv /\ Announcing /\ [Next]_vars => Announcing'
    BY <1>2
<1>4. IInv /\ Announcing /\ [Next]_vars
        => [\A r \in subscriptions :
              r \in announced /\ (r \in subscriptions' <=> r \in announced')]_vars
    BY <1>2
<1> QED BY <1>1, <1>3, <1>4, Invariance, PTL DEF Spec, AnnouncementEnds

(***************************************************************************)
(* A lookup not yet answered is of a subscription that exists, so that     *)
(* StatesFound gives monitors to no other; and with one key the one        *)
(* monitor that subscription_free stops is all there is.                   *)
(***************************************************************************)
Monitoring == lookups \subseteq subscriptions /\ MonitorsStopped

LEMMA FreeStopsMonitors ==
    ASSUME TypeOK, Monitoring, NEW rs \in SUBSET Rid, SubscriptionFree(rs)
    PROVE  Monitoring'
<1>1. /\ subscriptions' = subscriptions \ rs
      /\ lookups' = lookups \ rs
    BY DEF SubscriptionFree, Delisted, CancelAnnounce
<1>2. PICK first \in [{r \in rs : monitors[r] # {}} -> Keys] :
         /\ \A r \in DOMAIN first : first[r] \in monitors[r]
         /\ monitors' = [r \in Rid |->
               IF r \in DOMAIN first THEN monitors[r] \ {first[r]}
                                     ELSE monitors[r]]
    BY DEF SubscriptionFree
<1>3. ASSUME \A k, l \in Keys : k = l, NEW r \in Rid, monitors'[r] # {}
      PROVE  r \in subscriptions'
  <2>1. monitors[r] # {} /\ monitors[r] \subseteq Keys
      BY <1>2, <1>3 DEF TypeOK
  <2>2. r \in subscriptions
      BY <1>3, <2>1 DEF Monitoring, MonitorsStopped
  <2>3. CASE r \in rs
    <3>1. r \in DOMAIN first /\ first[r] \in monitors[r]
        BY <1>2, <2>1, <2>3
    <3>2. monitors[r] \ {first[r]} = {}
        BY <1>3, <2>1, <3>1
    <3> QED BY <1>2, <1>3, <3>1, <3>2
  <2> QED BY <1>1, <2>2, <2>3
<1> QED BY <1>1, <1>3 DEF Monitoring, MonitorsStopped

\* No step leaves a lookup or a monitor without its subscription.
LEMMA NextKeepsMonitoring ==
    ASSUME TypeOK, Monitoring, [Next]_vars
    PROVE  Monitoring'
<1>1. ASSUME UNCHANGED <<lookups, monitors>>, subscriptions \subseteq subscriptions'
      PROVE  Monitoring'
    BY <1>1 DEF Monitoring, MonitorsStopped
<1>2. CASE Undefined
    BY <1>1, <1>2 DEF Undefined, regexVars
<1>3. ASSUME NEW c \in Clients, Connections(c)
      PROVE  Monitoring'
  <2>1. Owned(c) \in SUBSET Rid
      BY DEF Owned, TypeOK
  <2> QED
      BY <1>1, <1>2, <1>3, <2>1, FreeStopsMonitors
      DEF Connections, ClientConnects, ClientBreaks, ClientGone,
          ClientGoneOverFreed, ClientReads, regexVars
<1>4. ASSUME NEW c \in Clients, NEW r \in Rid, Subscribes(c, r)
      PROVE  Monitoring'
  <2>1. CASE SubscribeRejected(c, r) \/ SubscribeNotAnnounced(c, r)
      BY <1>1, <2>1 DEF SubscribeRejected, SubscribeNotAnnounced, regexVars
  <2>2. CASE SubscribeNotLookedUp(c, r)
      BY <1>1, <2>2 DEF SubscribeNotLookedUp
  <2>3. CASE \E filter \in Filters : Subscribe(c, r, filter)
      BY <2>3 DEF Subscribe, Monitoring, MonitorsStopped
  <2> QED BY <1>4, <2>1, <2>2, <2>3 DEF Subscribes
<1>5. ASSUME NEW c \in Clients, Sends(c)
      PROVE  Monitoring'
    BY <1>1, <1>5 DEF Sends, SendFails, SendReply, regexVars
<1>6. ASSUME NEW c \in Clients, NEW r \in Rid, Unsubscribes(c, r)
      PROVE  Monitoring'
    BY <1>2, <1>6, FreeStopsMonitors
    DEF Unsubscribes, Unsubscribe, UnsubscribeOverFreed, UnsubscribeUnknown
<1>7. ASSUME NEW r \in Rid, NEW found \in SUBSET Keys, StatesFound(r, found)
      PROVE  Monitoring'
    BY <1>7 DEF StatesFound, Monitoring, MonitorsStopped, TypeOK
<1>8. CASE \E t \in Topics : IncomingPublish(t)
    BY <1>1, <1>8 DEF IncomingPublish, regexVars
<1>9. CASE Shutdown \/ ShutdownOverFreed
    BY <1>2, <1>9, FreeStopsMonitors DEF Shutdown, ShutdownOverFreed, TypeOK
<1>10. CASE \/ \E r \in Rid : StatesFoundNull(r)
            \/ \E c \in Clients : SendPastEnd(c)
    BY <1>2, <1>10 DEF StatesFoundNull, SendPastEnd
<1>11. CASE UNCHANGED vars
    BY <1>1, <1>11 DEF vars, regexVars
<1> QED BY <1>3, <1>4, <1>5, <1>6, <1>7, <1>8, <1>9, <1>10, <1>11 DEF Next

\* Where a lookup finds one accepting state at most, no monitor outlives its
\* subscription, whatever ends it and however late a lookup is answered.
THEOREM MonitorsEnd == Spec => []MonitorsStopped
<1>1. Init => Monitoring
    BY DEF Init, Monitoring, MonitorsStopped
<1>2. IInv /\ Monitoring /\ [Next]_vars => Monitoring'
    BY NextKeepsMonitoring DEF IInv
<1>3. Monitoring => MonitorsStopped
    BY DEF Monitoring
<1> QED BY <1>1, <1>2, <1>3, Invariance, PTL DEF Spec

-----------------------------------------------------------------------------
(* Where no step of the environment fails *)

(***************************************************************************)
(* What makes handle_mqtt_unsubscribe find its subscription: while the     *)
(* service runs no connection ends, so every id that was subscribed and    *)
(* not unsubscribed is still listed.                                       *)
(***************************************************************************)
Untroubled ==
    /\ ~undefined
    /\ up => broken = {} /\ issued \ asked \subseteq subscriptions

\* Without failures and broken connections no id is lost.
LEMMA NextKeepsUntroubled ==
    ASSUME Env \subseteq {"shutdown"}, Untroubled, [Next]_vars
    PROVE  Untroubled'
<1>1. /\ "lost" \notin Env /\ "bad_regex" \notin Env
      /\ "no_announce" \notin Env /\ "no_lookup" \notin Env
      /\ "stale_next" \notin Env
    OBVIOUS
<1>2. ASSUME NEW rs
      PROVE  ~ReadsFreed(rs)
    BY <1>1 DEF ReadsFreed
<1>3. ASSUME NEW c \in Clients, Connections(c)
      PROVE  Untroubled'
  <2>1. CASE ClientGone(c)
    <3>1. ~up /\ up' = up /\ undefined' = undefined
        BY <2>1 DEF ClientGone, Untroubled
    <3> QED BY <3>1 DEF Untroubled
  <2>2. CASE ClientConnects(c)
      BY <2>2 DEF ClientConnects, clientVars, Untroubled
  <2>3. CASE ClientReads(c)
      BY <2>3 DEF ClientReads, connVars, Untroubled
  <2>4. ~ClientBreaks(c) /\ ~ClientGoneOverFreed(c)
      BY <1>1, <1>2 DEF ClientBreaks, ClientGoneOverFreed
  <2> QED BY <1>3, <2>1, <2>2, <2>3, <2>4 DEF Connections
<1>4. ASSUME NEW c \in Clients, NEW r \in Rid, Subscribes(c, r)
      PROVE  Untroubled'
  <2>1. PICK filter \in Filters : Subscribe(c, r, filter)
      BY <1>1, <1>4
      DEF Subscribes, SubscribeRejected, SubscribeNotAnnounced,
          SubscribeNotLookedUp
  <2> QED BY <2>1 DEF Subscribe, Subscribing, Untroubled
<1>5. ASSUME NEW c \in Clients, Sends(c)
      PROVE  Untroubled'
    BY <1>5 DEF Sends, SendFails, SendReply, connVars, clientVars, Untroubled
<1>6. ASSUME NEW c \in Clients, NEW r \in Rid, Unsubscribes(c, r)
      PROVE  Untroubled'
  <2>1. ~UnsubscribeOverFreed(c, r)
      BY <1>2 DEF UnsubscribeOverFreed
  <2>2. ~UnsubscribeUnknown(c, r)
      BY <1>6
      DEF Unsubscribes, UnsubscribeUnknown, Unsubscribing, Known, Untroubled
  <2>3. Unsubscribe(c, r)
      BY <1>6, <2>1, <2>2 DEF Unsubscribes
  <2> QED BY <2>3
          DEF Unsubscribe, SubscriptionFree, Delisted, connVars, Untroubled
<1>7. CASE \E r \in Rid, found \in SUBSET Keys : StatesFound(r, found)
    BY <1>7 DEF StatesFound, connVars, clientVars, Untroubled
<1>8. CASE \E t \in Topics : IncomingPublish(t)
    BY <1>8 DEF IncomingPublish, connVars, clientVars, Untroubled
<1>9. CASE Shutdown \/ ShutdownOverFreed
    BY <1>2, <1>9 DEF Shutdown, ShutdownOverFreed, Untroubled
<1>10. /\ \A r \in Rid : ~StatesFoundNull(r)
       /\ \A c \in Clients : ~SendPastEnd(c)
    BY <1>1 DEF StatesFoundNull, SendPastEnd
<1>11. CASE UNCHANGED vars
    BY <1>11 DEF vars, connVars, clientVars, Untroubled
<1> QED BY <1>3, <1>4, <1>5, <1>6, <1>7, <1>8, <1>9, <1>10, <1>11 DEF Next

\* As long as no connection breaks and no SUBSCRIBE fails, the service never
\* reads a NULL subscription (line 1669) or a freed list item.
THEOREM NeverUndefined == Spec => []ServiceSurvives
<1>1. CASE Env \subseteq {"shutdown"}
  <2>1. Init => Untroubled
      BY DEF Init, Untroubled
  <2>2. Untroubled /\ [Next]_vars => Untroubled'
      BY <1>1, NextKeepsUntroubled
  <2>3. Untroubled => ServiceSurvives
      BY DEF Untroubled, ServiceSurvives
  <2> QED BY <2>1, <2>2, <2>3, PTL DEF Spec
<1>2. CASE ~(Env \subseteq {"shutdown"})
  <2>1. ServiceSurvives
      BY <1>2 DEF ServiceSurvives
  <2> QED BY <2>1, PTL
<1> QED BY <1>1, <1>2

-----------------------------------------------------------------------------
(* A client's stream: what is on its wire and what is queued for it *)

(***************************************************************************)
(* AckIsLast and InOrder, said of one stream s and of the subscriptions    *)
(* held that the service has.                                              *)
(***************************************************************************)
Ordered(s) ==
    \A i, j \in 1..Len(s) :
        i < j /\ s[i].rid = s[j].rid /\ s[i].kind = "publish"
              /\ s[j].kind = "publish"
            => s[i].n < s[j].n

AckLast(s, held) ==
    \A i \in 1..Len(s) :
        IF s[i].kind = "ack"
        THEN /\ s[i].rid \notin held
             /\ \A j \in i+1..Len(s) : s[j].rid # s[i].rid
        ELSE \/ s[i].rid \in held
             \/ \E j \in i+1..Len(s) : s[j].rid = s[i].rid /\ s[j].kind = "ack"

(***************************************************************************)
(* They are not inductive: a new id must not be on a stream already, a new *)
(* PUBLISH must have a higher number than those on the stream, and the end *)
(* of a subscription must not concern the copies for another client.       *)
(* SoundInv does not need a client to unsubscribe its own ids only, and    *)
(* holds where it also ends those of an earlier connection (MqttSystem);   *)
(* AckInv does.                                                            *)
(***************************************************************************)
Belongs(c, m, known, last) ==
    /\ m.rid \in known
    /\ m.kind = "publish" => Owner(m.rid) = c /\ m.n <= last

Sound(c, s, known, last) ==
    /\ \A i \in 1..Len(s) : Belongs(c, s[i], known, last)
    /\ Ordered(s)

SoundInv ==
    /\ subscriptions \subseteq issued
    /\ \A c \in Clients : Sound(c, Stream(c), issued, incoming)

AckInv == up => \A c \in Clients : AckLast(Stream(c), subscriptions)

StreamInv == SoundInv /\ AckInv

-----------------------------------------------------------------------------
(* Streams that lose their head or grow at the tail *)

\* A stream is a sequence of messages.
LEMMA StreamType ==
    ASSUME TypeOK, NEW c \in Clients
    PROVE  Stream(c) \in Seq(Message) /\ Len(Stream(c)) \in Nat
<1>1. wire[c] \in Seq(Message) /\ pending[c] \in Seq(Message)
    BY DEF TypeOK
<1> QED BY <1>1, ConcatProperties, LenProperties DEF Stream

\* The kinds of messages and what they carry
LEMMA MessageLemma ==
    /\ \A m \in Message :
          /\ m.rid \in Rid
          /\ m.kind \in {"publish", "ack"}
          /\ m.kind = "publish" => m.n \in Nat
    /\ \A r \in Rid : Ack(r) \in Message /\ Ack(r).kind = "ack" /\ Ack(r).rid = r
<1>1. ASSUME NEW r \in Rid
      PROVE  /\ Ack(r) \in Message
             /\ Ack(r).kind = "ack"
             /\ Ack(r).rid = r
    BY DEF Ack, Message
<1>2. ASSUME NEW r \in Rid, NEW n \in 1..MaxIncoming
      PROVE  /\ Publish(r, n).kind = "publish"
             /\ Publish(r, n).rid = r
             /\ Publish(r, n).n \in Nat
    BY MaxIncomingAssumption DEF Publish
<1>3. ASSUME NEW m \in Message
      PROVE  \/ \E r \in Rid, n \in 1..MaxIncoming : m = Publish(r, n)
             \/ \E r \in Rid : m = Ack(r)
    BY DEF Message
<1>4. ASSUME NEW m \in Message
      PROVE  /\ m.rid \in Rid
             /\ m.kind \in {"publish", "ack"}
             /\ m.kind = "publish" => m.n \in Nat
  <2>1. CASE \E r \in Rid : m = Ack(r)
    <3>1. PICK r \in Rid : m = Ack(r)
        BY <2>1
    <3>2. "ack" # "publish"
        OBVIOUS
    <3> QED BY <1>1, <3>1, <3>2
  <2>2. CASE \E r \in Rid, n \in 1..MaxIncoming : m = Publish(r, n)
    <3>1. PICK r \in Rid, n \in 1..MaxIncoming : m = Publish(r, n)
        BY <2>2
    <3> QED BY <1>2, <3>1
  <2> QED BY <1>3, <2>1, <2>2
<1> QED BY <1>1, <1>4

\* The head of a concatenation is the head of its first part.
LEMMA TailConcat ==
    ASSUME NEW w \in Seq(Message), NEW p \in Seq(Message), w # <<>>
    PROVE  Tail(w \o p) = Tail(w) \o p /\ w \o p # <<>>
<1> DEFINE s == w \o p
           v == Tail(w)
           t == v \o p
           l == Len(w)
           n == Len(p)
<1>1. /\ l \in Nat \ {0} /\ n \in Nat
      /\ v \in Seq(Message)
      /\ Len(v) = l - 1
      /\ \A i \in 1..l - 1 : v[i] = w[i + 1]
    BY HeadTailProperties, EmptySeq, LenProperties
<1>2. /\ s \in Seq(Message) /\ Len(s) = l + n
      /\ \A i \in 1..l + n : s[i] = IF i <= l THEN w[i] ELSE p[i - l]
    BY ConcatProperties
<1> HIDE DEF v
<1>3. /\ t \in Seq(Message) /\ Len(t) = Len(v) + n
      /\ \A i \in 1..Len(v) + n : t[i] = IF i <= Len(v) THEN v[i] ELSE p[i - Len(v)]
    BY <1>1, ConcatProperties
<1>4. s # <<>>
    BY <1>1, <1>2
<1>5. /\ Tail(s) \in Seq(Message) /\ Len(Tail(s)) = Len(s) - 1
      /\ \A i \in 1..Len(Tail(s)) : Tail(s)[i] = s[i + 1]
    BY <1>2, <1>4, HeadTailProperties
<1> HIDE DEF s, t, l, n
<1>6. Len(t) = Len(Tail(s)) /\ Len(t) = (l - 1) + n
    BY <1>1, <1>2, <1>3, <1>5
<1>7. ASSUME NEW i \in 1..Len(t)
      PROVE  t[i] = Tail(s)[i]
  <2>1. i \in 1..Len(v) + n /\ i + 1 \in 1..l + n /\ i \in 1..Len(Tail(s))
      BY <1>1, <1>6
  <2>2. Tail(s)[i] = s[i + 1]
      BY <1>5, <2>1
  <2>3. CASE i <= l - 1
    <3>1. t[i] = v[i] /\ i \in 1..l - 1
        BY <1>1, <1>3, <2>1, <2>3
    <3>2. s[i + 1] = w[i + 1]
        BY <1>1, <1>2, <2>1, <2>3
    <3> QED BY <1>1, <2>2, <3>1, <3>2
  <2>4. CASE i > l - 1
    <3>1. t[i] = p[i - (l - 1)]
        BY <1>1, <1>3, <2>1, <2>4
    <3>2. s[i + 1] = p[(i + 1) - l]
        BY <1>1, <1>2, <2>1, <2>4
    <3>3. (i + 1) - l = i - (l - 1)
        BY <1>1, <2>1
    <3> QED BY <2>2, <3>1, <3>2, <3>3
  <2> QED BY <1>1, <2>1, <2>3, <2>4
<1>8. t = Tail(s)
    BY <1>3, <1>5, <1>6, <1>7, SeqEqual
<1> QED BY <1>4, <1>8 DEF s, t, v

\* What is read leaves the rest in order.
LEMMA OrderedTail ==
    ASSUME NEW s \in Seq(Message), s # <<>>, Ordered(s)
    PROVE  Ordered(Tail(s))
<1>1. /\ Len(s) \in Nat /\ Len(Tail(s)) = Len(s) - 1
      /\ \A i \in 1..Len(Tail(s)) : Tail(s)[i] = s[i + 1]
    BY HeadTailProperties, LenProperties
<1> QED BY <1>1 DEF Ordered

\* What is read leaves the rest with its acknowledgements.
LEMMA AckLastTail ==
    ASSUME NEW s \in Seq(Message), s # <<>>, NEW held, AckLast(s, held)
    PROVE  AckLast(Tail(s), held)
<1>1. /\ Len(s) \in Nat /\ Len(Tail(s)) = Len(s) - 1
      /\ \A i \in 1..Len(Tail(s)) : Tail(s)[i] = s[i + 1]
    BY HeadTailProperties, LenProperties
<1> SUFFICES ASSUME NEW i \in 1..Len(Tail(s))
             PROVE  IF Tail(s)[i].kind = "ack"
                    THEN /\ Tail(s)[i].rid \notin held
                         /\ \A j \in i+1..Len(Tail(s)) :
                               Tail(s)[j].rid # Tail(s)[i].rid
                    ELSE \/ Tail(s)[i].rid \in held
                         \/ \E j \in i+1..Len(Tail(s)) :
                               /\ Tail(s)[j].rid = Tail(s)[i].rid
                               /\ Tail(s)[j].kind = "ack"
    BY DEF AckLast
<1>2. i + 1 \in 1..Len(s) /\ Tail(s)[i] = s[i + 1]
    BY <1>1
<1>3. CASE s[i + 1].kind = "ack"
  <2>1. \A j \in i+1..Len(Tail(s)) :
           j + 1 \in i+2..Len(s) /\ Tail(s)[j] = s[j + 1]
      BY <1>1
  <2>2. \A j \in i+2..Len(s) : s[j].rid # s[i + 1].rid
      BY <1>1, <1>2, <1>3 DEF AckLast
  <2>3. s[i + 1].rid \notin held
      BY <1>2, <1>3 DEF AckLast
  <2> QED BY <1>2, <1>3, <2>1, <2>2, <2>3
<1>4. CASE s[i + 1].kind # "ack" /\ s[i + 1].rid \notin held
  <2>1. PICK j \in i+2..Len(s) : s[j].rid = s[i + 1].rid /\ s[j].kind = "ack"
      BY <1>1, <1>2, <1>4 DEF AckLast
  <2>2. j - 1 \in i+1..Len(Tail(s)) /\ Tail(s)[j - 1] = s[j]
      BY <1>1, <2>1
  <2> QED BY <1>2, <1>4, <2>1, <2>2
<1> QED BY <1>2, <1>3, <1>4

\* A stream grows by messages with higher numbers.
LEMMA OrderedConcat ==
    ASSUME NEW s \in Seq(Message), NEW t \in Seq(Message),
           Ordered(s), Ordered(t),
           \A i \in 1..Len(s), j \in 1..Len(t) :
              s[i].kind = "publish" /\ t[j].kind = "publish" => s[i].n < t[j].n
    PROVE  Ordered(s \o t)
<1> DEFINE u == s \o t
<1>1. /\ Len(s) \in Nat /\ Len(t) \in Nat /\ Len(u) = Len(s) + Len(t)
      /\ \A i \in 1..Len(s) + Len(t) :
            u[i] = IF i <= Len(s) THEN s[i] ELSE t[i - Len(s)]
    BY ConcatProperties, LenProperties
<1> HIDE DEF u
<1> SUFFICES ASSUME NEW i \in 1..Len(u), NEW j \in 1..Len(u), i < j,
                    u[i].rid = u[j].rid, u[i].kind = "publish",
                    u[j].kind = "publish"
             PROVE  u[i].n < u[j].n
    BY DEF Ordered, u
<1>2. CASE j <= Len(s)
    BY <1>1, <1>2 DEF Ordered
<1>3. CASE i <= Len(s) /\ j > Len(s)
  <2>1. j - Len(s) \in 1..Len(t) /\ i \in 1..Len(s)
      BY <1>1, <1>3
  <2> QED BY <1>1, <1>3, <2>1
<1>4. CASE i > Len(s)
  <2>1. /\ i - Len(s) \in 1..Len(t) /\ j - Len(s) \in 1..Len(t)
        /\ i - Len(s) < j - Len(s)
        /\ u[i] = t[i - Len(s)] /\ u[j] = t[j - Len(s)]
      BY <1>1, <1>4
  <2> QED BY <2>1 DEF Ordered
<1> QED BY <1>1, <1>2, <1>3, <1>4

\* A stream grows by messages for subscriptions that are held.
LEMMA AckLastCopies ==
    ASSUME NEW s \in Seq(Message), NEW t \in Seq(Message), NEW held,
           AckLast(s, held),
           \A j \in 1..Len(t) : t[j].kind = "publish" /\ t[j].rid \in held
    PROVE  AckLast(s \o t, held)
<1> DEFINE u == s \o t
<1>1. /\ Len(s) \in Nat /\ Len(t) \in Nat /\ Len(u) = Len(s) + Len(t)
      /\ \A i \in 1..Len(s) + Len(t) :
            u[i] = IF i <= Len(s) THEN s[i] ELSE t[i - Len(s)]
    BY ConcatProperties, LenProperties
<1> HIDE DEF u
<1>2. \A i \in 1..Len(u) : i > Len(s) =>
         u[i].kind = "publish" /\ u[i].rid \in held
  <2>1. \A i \in 1..Len(u) : i > Len(s) =>
           i - Len(s) \in 1..Len(t) /\ u[i] = t[i - Len(s)]
      BY <1>1
  <2> QED BY <2>1
<1>3. \A i \in 1..Len(s) : i \in 1..Len(u) /\ u[i] = s[i]
    BY <1>1
<1> SUFFICES ASSUME NEW i \in 1..Len(u)
             PROVE  IF u[i].kind = "ack"
                    THEN /\ u[i].rid \notin held
                         /\ \A j \in i+1..Len(u) : u[j].rid # u[i].rid
                    ELSE \/ u[i].rid \in held
                         \/ \E j \in i+1..Len(u) :
                               u[j].rid = u[i].rid /\ u[j].kind = "ack"
    BY DEF AckLast, u
<1>4. CASE i > Len(s)
    BY <1>2, <1>4
<1>5. CASE i \in 1..Len(s) /\ s[i].kind = "ack"
  <2>1. u[i] = s[i] /\ s[i].rid \notin held
      BY <1>3, <1>5 DEF AckLast
  <2>2. ASSUME NEW j \in i+1..Len(u)
        PROVE  u[j].rid # u[i].rid
    <3>1. CASE j <= Len(s)
      <4>1. j \in i+1..Len(s) /\ u[j] = s[j]
          BY <1>1, <1>3, <1>5, <3>1
      <4> QED BY <1>5, <2>1, <4>1 DEF AckLast
    <3>2. CASE j > Len(s)
      <4>1. j \in 1..Len(u)
          BY <1>1, <1>5, <3>2
      <4> QED BY <1>2, <2>1, <3>2, <4>1
    <3> QED BY <1>1, <1>5, <3>1, <3>2
  <2> QED BY <1>5, <2>1, <2>2
<1>6. CASE i \in 1..Len(s) /\ s[i].kind # "ack" /\ s[i].rid \notin held
  <2>1. PICK j \in i+1..Len(s) : s[j].rid = s[i].rid /\ s[j].kind = "ack"
      BY <1>6 DEF AckLast
  <2>2. j \in i+1..Len(u) /\ u[j] = s[j] /\ u[i] = s[i]
      BY <1>1, <1>3, <1>6, <2>1
  <2> QED BY <1>6, <2>1, <2>2
<1> QED BY <1>1, <1>3, <1>4, <1>5, <1>6

\* A stream grows by the acknowledgement of a subscription that ends.
LEMMA AckLastAck ==
    ASSUME NEW s \in Seq(Message), NEW held, NEW r \in Rid,
           AckLast(s, held), r \in held
    PROVE  AckLast(s \o <<Ack(r)>>, held \ {r})
<1> DEFINE u == s \o <<Ack(r)>>
           l == Len(s)
<1>1. /\ l \in Nat /\ Len(u) = l + 1
      /\ \A i \in 1..l : u[i] = s[i]
      /\ u[l + 1].kind = "ack" /\ u[l + 1].rid = r
  <2>1. <<Ack(r)>> \in Seq(Message) /\ Len(<<Ack(r)>>) = 1
      BY MessageLemma
  <2>2. /\ l \in Nat /\ Len(u) = l + 1
        /\ \A i \in 1..l + 1 : u[i] = IF i <= l THEN s[i] ELSE <<Ack(r)>>[i - l]
      BY <2>1, ConcatProperties, LenProperties
  <2>3. u[l + 1] = Ack(r)
      BY <2>2
  <2>4. \A i \in 1..l : u[i] = s[i]
      BY <2>2
  <2> QED BY <2>2, <2>3, <2>4, MessageLemma
<1>2. \A i \in 1..l : s[i].kind = "ack" => s[i].rid # r
    BY DEF AckLast
<1> HIDE DEF u, l
<1> SUFFICES ASSUME NEW i \in 1..Len(u)
             PROVE  IF u[i].kind = "ack"
                    THEN /\ u[i].rid \notin held \ {r}
                         /\ \A j \in i+1..Len(u) : u[j].rid # u[i].rid
                    ELSE \/ u[i].rid \in held \ {r}
                         \/ \E j \in i+1..Len(u) :
                               u[j].rid = u[i].rid /\ u[j].kind = "ack"
    BY DEF AckLast, u
<1>3. CASE i = l + 1
    BY <1>1, <1>3
<1>4. CASE i \in 1..l /\ s[i].kind = "ack"
  <2>1. u[i] = s[i] /\ s[i].rid \notin held /\ s[i].rid # r
      BY <1>1, <1>2, <1>4 DEF AckLast, l
  <2>2. ASSUME NEW j \in i+1..Len(u)
        PROVE  u[j].rid # u[i].rid
    <3>1. CASE j = l + 1
        BY <1>1, <2>1, <3>1
    <3>2. CASE j \in i+1..l
      <4>1. u[j] = s[j]
          BY <1>1, <1>4, <3>2
      <4> QED BY <1>4, <2>1, <3>2, <4>1 DEF AckLast, l
    <3> QED BY <1>1, <1>4, <3>1, <3>2
  <2> QED BY <1>4, <2>1, <2>2
<1>5. CASE i \in 1..l /\ s[i].kind # "ack"
  <2>1. u[i] = s[i]
      BY <1>1, <1>5
  <2>2. CASE s[i].rid = r
    <3>1. l + 1 \in i+1..Len(u)
        BY <1>1, <1>5
    <3> QED BY <1>1, <1>5, <2>1, <2>2, <3>1
  <2>3. CASE s[i].rid # r /\ s[i].rid \notin held
    <3>1. PICK j \in i+1..l : s[j].rid = s[i].rid /\ s[j].kind = "ack"
        BY <1>5, <2>3 DEF AckLast, l
    <3>2. j \in i+1..Len(u) /\ u[j] = s[j]
        BY <1>1, <1>5, <3>1
    <3> QED BY <1>5, <2>1, <3>1, <3>2
  <2> QED BY <1>5, <2>1, <2>2, <2>3
<1> QED BY <1>1, <1>3, <1>4, <1>5

\* A subscription that begins or ends concerns only the streams it is on.
LEMMA HeldElsewhere ==
    ASSUME NEW s, NEW held, NEW now, AckLast(s, held),
           \A i \in 1..Len(s) : s[i].rid \in held <=> s[i].rid \in now
    PROVE  AckLast(s, now)
BY DEF AckLast

\* Ids and numbers only grow.
LEMMA SoundGrows ==
    ASSUME NEW c, NEW s \in Seq(Message), NEW known, NEW now,
           known \subseteq now, NEW last \in Nat, NEW latest \in Nat,
           last <= latest, Sound(c, s, known, last)
    PROVE  Sound(c, s, now, latest)
<1>1. \A i \in 1..Len(s) : s[i].kind = "publish" => s[i].n \in Nat
  <2>1. \A i \in 1..Len(s) : s[i] \in Message
      BY ElementOfSeq
  <2> QED BY <2>1, MessageLemma
<1>2. ASSUME NEW i \in 1..Len(s)
      PROVE  Belongs(c, s[i], now, latest)
    BY <1>1 DEF Sound, Belongs
<1> QED BY <1>2 DEF Sound

-----------------------------------------------------------------------------
(* Each step keeps the streams in order *)

\* A step that neither touches the streams nor the subscriptions.
LEMMA QuietStream ==
    ASSUME TypeOK, SoundInv, UNCHANGED <<wire, pending, subscriptions, incoming>>,
           issued \subseteq issued', up' => up
    PROVE  SoundInv' /\ (AckInv => AckInv')
<1>1. \A c \in Clients : Stream(c)' = Stream(c)
    BY DEF Stream
<1>2. incoming \in Nat
    BY MaxIncomingAssumption DEF TypeOK
<1>3. ASSUME NEW c \in Clients
      PROVE  Sound(c, Stream(c)', issued', incoming')
  <2>1. Stream(c) \in Seq(Message)
      BY StreamType
  <2>2. Sound(c, Stream(c), issued, incoming)
      BY DEF SoundInv, AckInv
  <2>3. Sound(c, Stream(c), issued', incoming)
      BY <1>2, <2>1, <2>2, SoundGrows
  <2> QED BY <1>1, <2>3
<1>4. AckInv /\ up' => \A c \in Clients : AckLast(Stream(c)', subscriptions')
    BY <1>1 DEF SoundInv, AckInv
<1>5. subscriptions' \subseteq issued'
    BY DEF SoundInv, AckInv
<1> QED BY <1>3, <1>4, <1>5 DEF SoundInv, AckInv

\* A client reads the head of its stream.
LEMMA ClientReadsStream ==
    ASSUME TypeOK, SoundInv, NEW c \in Clients, ClientReads(c)
    PROVE  /\ SoundInv' /\ (AckInv => AckInv')
           /\ Stream(c) # <<>> /\ Stream(c)' = Tail(Stream(c))
           /\ \A d \in Clients : d # c => Stream(d)' = Stream(d)
<1>1. /\ wire[c] \in Seq(Message) /\ wire[c] # <<>>
      /\ pending[c] \in Seq(Message)
      /\ wire' = [wire EXCEPT ![c] = Tail(@)]
      /\ UNCHANGED <<up, pending, subscriptions, issued, incoming>>
    BY DEF TypeOK, ClientReads, connVars, queueVars, regexVars
<1>2. Stream(c)' = Tail(Stream(c)) /\ Stream(c) # <<>>
  <2>1. Stream(c)' = Tail(wire[c]) \o pending[c]
      BY <1>1 DEF Stream, TypeOK
  <2> QED BY <1>1, <2>1, TailConcat DEF Stream
<1>3. \A d \in Clients : d # c => Stream(d)' = Stream(d)
    BY <1>1 DEF Stream, TypeOK
<1>4. Stream(c) \in Seq(Message)
    BY StreamType
<1>5. ASSUME NEW d \in Clients
      PROVE  Sound(d, Stream(d)', issued', incoming')
  <2>1. Sound(d, Stream(d), issued, incoming)
      BY DEF SoundInv, AckInv
  <2>2. CASE d = c
    <3>1. Ordered(Tail(Stream(c)))
        BY <1>2, <1>4, <2>1, <2>2, OrderedTail DEF Sound
    <3>2. /\ Len(Stream(c)) \in Nat
          /\ Len(Tail(Stream(c))) = Len(Stream(c)) - 1
          /\ \A i \in 1..Len(Tail(Stream(c))) :
                Tail(Stream(c))[i] = Stream(c)[i + 1]
        BY <1>2, <1>4, HeadTailProperties, LenProperties
    <3>3. ASSUME NEW i \in 1..Len(Tail(Stream(c)))
          PROVE  Belongs(c, Tail(Stream(c))[i], issued, incoming)
      <4>1. i + 1 \in 1..Len(Stream(c))
          BY <3>2
      <4>2. Belongs(c, Stream(c)[i + 1], issued, incoming)
          BY <2>1, <2>2, <4>1 DEF Sound
      <4> QED BY <3>2, <4>2
    <3>4. Sound(c, Tail(Stream(c)), issued, incoming)
        BY <3>1, <3>3 DEF Sound
    <3> QED BY <1>1, <1>2, <2>2, <3>4
  <2> QED BY <1>1, <1>3, <2>1, <2>2
<1>6. ASSUME AckInv, up', NEW d \in Clients
      PROVE  AckLast(Stream(d)', subscriptions')
  <2>1. AckLast(Stream(d), subscriptions)
      BY <1>1, <1>6 DEF SoundInv, AckInv
  <2>2. CASE d = c
    <3>1. AckLast(Tail(Stream(c)), subscriptions)
        BY <1>2, <1>4, <2>1, <2>2, AckLastTail
    <3> QED BY <1>1, <1>2, <2>2, <3>1
  <2> QED BY <1>1, <1>3, <2>1, <2>2
<1>7. subscriptions' \subseteq issued'
    BY <1>1 DEF SoundInv, AckInv
<1> QED BY <1>2, <1>3, <1>5, <1>6, <1>7 DEF SoundInv, AckInv

\* send_reply_to_client moves messages, it does not change what a client
\* will read.
LEMMA SendReplyStream ==
    ASSUME TypeOK, SoundInv, NEW c \in Clients, NEW k \in 1..Len(pending[c]),
           SendReply(c, k)
    PROVE  /\ SoundInv' /\ (AckInv => AckInv')
           /\ \A d \in Clients : Stream(d)' = Stream(d)
<1> DEFINE rest == SubSeq(pending[c], k + 1, Len(pending[c]))
           sent == SubSeq(pending[c], 1, k)
<1>1. /\ wire' = [wire EXCEPT ![c] = @ \o sent]
      /\ pending' = [pending EXCEPT ![c] = rest]
      /\ UNCHANGED <<up, subscriptions, issued, incoming>>
    BY DEF SendReply, connVars, regexVars, clientVars
<1>2. /\ wire[c] \in Seq(Message) /\ pending[c] \in Seq(Message)
      /\ Len(pending[c]) \in Nat
    BY LenProperties DEF TypeOK
<1>3. sent \o rest = pending[c]
  <2>1. /\ 1 \in 1..Len(pending[c]) + 1 /\ k \in 1 - 1..Len(pending[c])
        /\ Len(pending[c]) \in k..Len(pending[c])
      BY <1>2
  <2>2. sent \o rest = SubSeq(pending[c], 1, Len(pending[c]))
      BY <1>2, <2>1, ConcatAdjacentSubSeq
  <2> QED BY <1>2, <2>2, SubSeqFull
<1>4. sent \in Seq(Message) /\ rest \in Seq(Message)
  <2>1. \A i \in 1..Len(pending[c]) : pending[c][i] \in Message
      BY <1>2, ElementOfSeq
  <2> QED BY <1>2, <2>1
<1> HIDE DEF sent, rest
<1>5. (wire[c] \o sent) \o rest = wire[c] \o (sent \o rest)
  <2>1. \A x, y, z \in Seq(Message) : (x \o y) \o z = x \o (y \o z)
      BY ConcatAssociative
  <2> QED BY <1>2, <1>4, <2>1
<1>6. \A d \in Clients : Stream(d)' = Stream(d)
  <2>1. Stream(c)' = (wire[c] \o sent) \o rest
      BY <1>1 DEF Stream, TypeOK
  <2>2. \A d \in Clients : d # c => Stream(d)' = Stream(d)
      BY <1>1 DEF Stream, TypeOK
  <2> QED BY <1>3, <1>5, <2>1, <2>2 DEF Stream
<1> QED BY <1>1, <1>6 DEF SoundInv, AckInv

\* handle_client_disconnect ends the stream and the subscriptions of a client.
LEMMA ClientGoneStream ==
    ASSUME TypeOK, SoundInv, NEW c \in Clients, ClientGone(c)
    PROVE  /\ SoundInv' /\ (AckInv => AckInv')
           /\ \A d \in Clients : d # c => Stream(d)' = Stream(d)
<1>1. Owned(c) \in SUBSET Rid /\ SubscriptionFree(Owned(c))
    BY DEF TypeOK, ClientGone, Owned
<1>2. /\ subscriptions' = subscriptions \ Owned(c)
      /\ wire' = [wire EXCEPT ![c] = <<>>]
      /\ pending' = [pending EXCEPT ![c] = <<>>]
      /\ UNCHANGED <<up, issued, incoming>>
    BY <1>1, FreeLemma DEF ClientGone, clientVars
<1>3. Stream(c)' = <<>> /\ Len(<<>>) = 0
  <2>1. Stream(c)' = <<>> \o <<>>
      BY <1>2 DEF Stream, TypeOK
  <2>2. <<>> \in Seq(Message) /\ Len(<<>>) = 0
      BY EmptySeq
  <2> QED BY <2>1, <2>2, ConcatEmptySeq
<1>4. \A d \in Clients : d # c => Stream(d)' = Stream(d)
    BY <1>2 DEF Stream, TypeOK
<1>5. ASSUME NEW d \in Clients
      PROVE  Sound(d, Stream(d)', issued', incoming')
  <2>1. Sound(d, Stream(d), issued, incoming)
      BY DEF SoundInv, AckInv
  <2>2. Sound(c, <<>>, issued, incoming)
      BY <1>3 DEF Sound, Ordered
  <2> QED BY <1>2, <1>3, <1>4, <2>1, <2>2
<1>6. ASSUME AckInv, up', NEW d \in Clients
      PROVE  AckLast(Stream(d)', subscriptions')
  <2>1. CASE d = c
      BY <1>3, <2>1 DEF AckLast
  <2>2. CASE d # c
    <3>1. AckLast(Stream(d), subscriptions)
        BY <1>2, <1>6 DEF SoundInv, AckInv
    <3>2. ASSUME NEW i \in 1..Len(Stream(d))
          PROVE  Stream(d)[i].rid \in subscriptions
                   <=> Stream(d)[i].rid \in subscriptions'
      <4>1. CASE Stream(d)[i].kind = "ack"
          BY <1>2, <3>1, <4>1 DEF AckLast
      <4>2. CASE Stream(d)[i].kind # "ack"
        <5>1. Stream(d)[i].kind = "publish"
            BY <4>2, ElementOfSeq, MessageLemma, StreamType
        <5>2. Owner(Stream(d)[i].rid) = d
            BY <5>1 DEF SoundInv, Sound, Belongs
        <5> QED BY <1>2, <2>2, <5>2 DEF Owned
      <4> QED BY <4>1, <4>2
    <3>3. \A i \in 1..Len(Stream(d)) :
             Stream(d)[i].rid \in subscriptions
               <=> Stream(d)[i].rid \in subscriptions'
        BY <3>2
    <3>4. AckLast(Stream(d), subscriptions')
        BY <3>1, <3>3, HeldElsewhere
    <3> QED BY <1>4, <2>2, <3>4
  <2> QED BY <2>1, <2>2
<1>7. subscriptions' \subseteq issued'
    BY <1>2 DEF SoundInv, AckInv
<1> QED BY <1>4, <1>5, <1>6, <1>7 DEF SoundInv, AckInv

\* subscription_free of subscriptions of one client.
LEMMA UnsubscribeStream ==
    ASSUME TypeOK, SoundInv, NEW c \in Clients, NEW r \in Rid,
           Unsubscribe(c, r)
    PROVE  /\ SoundInv' /\ (Owner(r) = c /\ AckInv => AckInv')
           /\ Stream(c)' = Stream(c) \o <<Ack(r)>>
           /\ \A d \in Clients : d # c => Stream(d)' = Stream(d)
<1> DEFINE s == Stream(c)
           a == <<Ack(r)>>
<1>1. {r} \in SUBSET Rid /\ SubscriptionFree({r}) /\ r \in subscriptions
    BY DEF Unsubscribe, Known
<1>2. /\ subscriptions' = subscriptions \ {r}
      /\ pending' = [pending EXCEPT ![c] = @ \o a]
      /\ UNCHANGED <<up, wire, issued, incoming>>
    BY <1>1, FreeLemma DEF Unsubscribe, AddPending, InsertTail
<1>3. s \in Seq(Message) /\ a \in Seq(Message) /\ Len(a) = 1 /\ a[1] = Ack(r)
    BY MessageLemma, StreamType
<1> HIDE DEF a
<1>4. Stream(c)' = s \o a
  <2>1. Stream(c)' = wire[c] \o (pending[c] \o a)
      BY <1>2 DEF Stream, TypeOK
  <2>2. wire[c] \in Seq(Message) /\ pending[c] \in Seq(Message)
      BY DEF TypeOK
  <2>3. \A x, y, z \in Seq(Message) : (x \o y) \o z = x \o (y \o z)
      BY ConcatAssociative
  <2>4. a \in Seq(Message)
      BY <1>3
  <2>5. (wire[c] \o pending[c]) \o a = wire[c] \o (pending[c] \o a)
      BY <2>2, <2>3, <2>4, Zenon
  <2> QED BY <2>1, <2>5 DEF Stream
<1>5. \A d \in Clients : d # c => Stream(d)' = Stream(d)
    BY <1>2 DEF Stream, TypeOK
<1>6. r \in issued
    BY <1>1 DEF SoundInv, AckInv
<1> HIDE DEF s
<1>7. Sound(c, s \o a, issued, incoming)
  <2>1. Sound(c, s, issued, incoming)
      BY DEF SoundInv, AckInv, s
  <2>2. Ack(r).kind = "ack" /\ Ack(r).rid = r /\ "ack" # "publish"
      BY MessageLemma
  <2>3. Belongs(c, Ack(r), issued, incoming)
      BY <1>6, <2>2 DEF Belongs
  <2>4. Ordered(a)
      BY <1>3, <2>2 DEF Ordered
  <2>5. Ordered(s \o a)
    <3>1. \A i \in 1..Len(s), j \in 1..Len(a) :
             s[i].kind = "publish" /\ a[j].kind = "publish" => s[i].n < a[j].n
        BY <1>3, <2>2
    <3> QED BY <1>3, <2>1, <2>4, <3>1, OrderedConcat DEF Sound
  <2>6. /\ Len(s) \in Nat /\ Len(s \o a) = Len(s) + 1
        /\ \A i \in 1..Len(s) + 1 :
              (s \o a)[i] = IF i <= Len(s) THEN s[i] ELSE a[i - Len(s)]
    <3>1. Len(s) \in Nat
        BY <1>3, LenProperties
    <3>2. /\ Len(s \o a) = Len(s) + Len(a)
          /\ \A i \in 1..Len(s) + Len(a) :
                (s \o a)[i] = IF i <= Len(s) THEN s[i] ELSE a[i - Len(s)]
        BY <1>3, ConcatProperties, Zenon
    <3> QED BY <1>3, <3>1, <3>2
  <2>7. ASSUME NEW i \in 1..Len(s \o a)
        PROVE  Belongs(c, (s \o a)[i], issued, incoming)
    <3>1. CASE i <= Len(s)
      <4>1. (s \o a)[i] = s[i] /\ i \in 1..Len(s)
          BY <2>6, <3>1
      <4> QED BY <2>1, <4>1 DEF Sound
    <3>2. CASE i = Len(s) + 1
      <4>1. (s \o a)[i] = Ack(r)
          BY <1>3, <2>6, <3>2
      <4> QED BY <2>3, <4>1
    <3> QED BY <2>6, <3>1, <3>2
  <2> QED BY <2>5, <2>7 DEF Sound
<1>8. ASSUME NEW d \in Clients
      PROVE  Sound(d, Stream(d)', issued', incoming')
  <2>1. Sound(d, Stream(d), issued, incoming)
      BY DEF SoundInv, AckInv
  <2> QED BY <1>2, <1>4, <1>5, <1>7, <2>1
<1>9. ASSUME Owner(r) = c, AckInv, up', NEW d \in Clients
      PROVE  AckLast(Stream(d)', subscriptions')
  <2>1. AckLast(Stream(d), subscriptions)
      BY <1>2, <1>9 DEF SoundInv, AckInv
  <2>2. CASE d = c
    <3>1. AckLast(s \o a, subscriptions \ {r})
        BY <1>1, <1>3, <2>1, <2>2, AckLastAck DEF s, a
    <3> QED BY <1>2, <1>4, <2>2, <3>1
  <2>3. CASE d # c
    <3>1. ASSUME NEW i \in 1..Len(Stream(d))
          PROVE  Stream(d)[i].rid \in subscriptions
                   <=> Stream(d)[i].rid \in subscriptions'
      <4>1. CASE Stream(d)[i].kind = "ack"
          BY <1>2, <2>1, <4>1 DEF AckLast
      <4>2. CASE Stream(d)[i].kind # "ack"
        <5>1. Stream(d)[i].kind = "publish"
            BY <4>2, ElementOfSeq, MessageLemma, StreamType
        <5>2. Owner(Stream(d)[i].rid) = d
            BY <5>1 DEF SoundInv, Sound, Belongs
        <5> QED BY <1>2, <1>9, <2>3, <5>2
      <4> QED BY <4>1, <4>2
    <3>2. \A i \in 1..Len(Stream(d)) :
             Stream(d)[i].rid \in subscriptions
               <=> Stream(d)[i].rid \in subscriptions'
        BY <3>1
    <3>3. AckLast(Stream(d), subscriptions')
        BY <2>1, <3>2, HeldElsewhere
    <3> QED BY <1>5, <2>3, <3>3
  <2> QED BY <2>2, <2>3
<1>10. subscriptions' \subseteq issued'
    BY <1>2 DEF SoundInv, AckInv
<1>11. Stream(c)' = Stream(c) \o <<Ack(r)>>
    BY <1>4 DEF s, a
<1> QED BY <1>5, <1>8, <1>9, <1>10, <1>11 DEF SoundInv, AckInv

\* A new id is on no stream.
LEMMA SubscribeStream ==
    ASSUME TypeOK, SoundInv, NEW c \in Clients, NEW r \in Rid,
           NEW filter \in Filters, Subscribe(c, r, filter)
    PROVE  SoundInv' /\ (AckInv => AckInv')
<1>1. /\ r \notin issued /\ issued' = issued \cup {r}
      /\ subscriptions' = subscriptions \cup {r}
      /\ UNCHANGED <<up, wire, pending, incoming>>
    BY DEF Subscribe, Subscribing
<1>2. \A d \in Clients : Stream(d)' = Stream(d)
    BY <1>1 DEF Stream
<1>3. ASSUME NEW d \in Clients
      PROVE  Sound(d, Stream(d)', issued', incoming')
  <2>1. Sound(d, Stream(d), issued, incoming)
      BY DEF SoundInv, AckInv
  <2>2. Stream(d) \in Seq(Message) /\ incoming \in Nat
      BY StreamType, MaxIncomingAssumption DEF TypeOK
  <2>3. Sound(d, Stream(d), issued \cup {r}, incoming)
    <3>1. issued \subseteq issued \cup {r} /\ incoming <= incoming
        BY <2>2
    <3> QED BY <2>1, <2>2, <3>1, SoundGrows
  <2> QED BY <1>1, <1>2, <2>3
<1>4. ASSUME AckInv, up', NEW d \in Clients
      PROVE  AckLast(Stream(d)', subscriptions')
  <2>1. AckLast(Stream(d), subscriptions)
      BY <1>1, <1>4 DEF SoundInv, AckInv
  <2>2. \A i \in 1..Len(Stream(d)) : Stream(d)[i].rid \in issued
      BY DEF SoundInv, Sound, Belongs
  <2>3. \A i \in 1..Len(Stream(d)) :
           Stream(d)[i].rid \in subscriptions
             <=> Stream(d)[i].rid \in subscriptions'
      BY <1>1, <2>2
  <2>4. AckLast(Stream(d), subscriptions')
      BY <2>1, <2>3, HeldElsewhere
  <2> QED BY <1>2, <2>4
<1>5. subscriptions' \subseteq issued'
    BY <1>1 DEF SoundInv, AckInv
<1> QED BY <1>3, <1>4, <1>5 DEF SoundInv, AckInv

\* At shutdown the subscriptions end without an acknowledgement.
LEMMA ShutdownStream ==
    ASSUME TypeOK, SoundInv, Shutdown
    PROVE  SoundInv' /\ (AckInv => AckInv')
<1>1. /\ subscriptions' = subscriptions \ subscriptions
      /\ up' = FALSE
      /\ UNCHANGED <<wire, pending, issued, incoming>>
  <2>1. subscriptions \in SUBSET Rid /\ SubscriptionFree(subscriptions)
      BY DEF Shutdown, TypeOK
  <2> QED BY <2>1, FreeLemma DEF Shutdown, queueVars, clientVars
<1>2. \A d \in Clients : Stream(d)' = Stream(d)
    BY <1>1 DEF Stream
<1> QED BY <1>1, <1>2 DEF SoundInv, AckInv

\* A finite set listed as a sequence lists each of its members once.
LEMMA SetToSeqOnce ==
    ASSUME NEW S, IsFiniteSet(S)
    PROVE  \A i, j \in 1..Len(SetToSeq(S)) :
              SetToSeq(S)[i] = SetToSeq(S)[j] => i = j
<1> DEFINE n == Cardinality(S)
<1>1. n \in Nat /\ ExistsBijection(1..n, S)
    BY FS_CardinalityType
<1>2. \E f \in [1..n -> S] : IsInjective(f)
    BY <1>1 DEF ExistsBijection, Bijection, Injection
<1>3. SetToSeq(S) \in [1..n -> S] /\ IsInjective(SetToSeq(S))
    BY <1>2 DEF SetToSeq
<1>4. SetToSeq(S) \in Seq(S) /\ Len(SetToSeq(S)) = n
    BY <1>1, <1>3, IsASeq, LenProperties
<1> QED BY <1>3, <1>4 DEF IsInjective

\* The copies of a PUBLISH carry its number, are for subscriptions of their
\* client and no two are for the same.
LEMMA CopiesAddressed ==
    ASSUME TypeOK, incoming < MaxIncoming, NEW c \in Clients, NEW t \in Topics
    PROVE  /\ Copies(c, t) \in Seq(Message)
           /\ \A j \in 1..Len(Copies(c, t)) :
                 LET m == Copies(c, t)[j]
                 IN  /\ m.kind = "publish" /\ m.n = incoming + 1
                     /\ m.rid \in subscriptions /\ Owner(m.rid) = c
           /\ \A i, j \in 1..Len(Copies(c, t)) :
                 Copies(c, t)[i].rid = Copies(c, t)[j].rid => i = j
<1> DEFINE S == {r \in Matching(t) : Owner(r) = c}
           n == incoming + 1
           T == {Copy(r, n) : r \in S}
           f == [r \in S |-> Copy(r, n)]
           q == SetToSeq(T)
<1>1. S \subseteq subscriptions /\ S \subseteq Rid
    BY DEF TypeOK, Matching
<1>2. IsFiniteSet(S)
    BY <1>1, RidFinite, FS_Subset
<1>3. f \in Surjection(S, T)
    BY DEF Surjection
<1>4. IsFiniteSet(T)
    BY <1>2, <1>3, FS_Surjection
<1>5. Copies(c, t) = q
    BY DEF Copies
<1>6. q \in Seq(T) /\ \A i, j \in 1..Len(q) : q[i] = q[j] => i = j
    BY <1>4, SetToSeqLemma, SetToSeqOnce
<1>7. \A r \in S : /\ Copy(r, n).kind = "publish"
                  /\ Copy(r, n).rid = r
                  /\ Copy(r, n).n = n
    BY DEF Copy, Publish
<1>8. \A m \in T : /\ m.rid \in S /\ m = Copy(m.rid, n)
                  /\ m.kind = "publish" /\ m.n = n
    BY <1>7
<1>9. \A r \in S : Owner(r) = c
    OBVIOUS
<1> HIDE DEF T, S, q, n
<1>10. \A i \in 1..Len(q) : q[i] \in T
    BY <1>6, ElementOfSeq
<1>11. ASSUME NEW i \in 1..Len(q), NEW j \in 1..Len(q), q[i].rid = q[j].rid
       PROVE  i = j
  <2>1. q[i] = Copy(q[i].rid, n) /\ q[j] = Copy(q[j].rid, n)
      BY <1>8, <1>10
  <2> QED BY <1>6, <1>11, <2>1
<1>12. ASSUME NEW j \in 1..Len(q)
       PROVE  /\ q[j].kind = "publish" /\ q[j].n = incoming + 1
              /\ q[j].rid \in subscriptions /\ Owner(q[j].rid) = c
  <2>1. q[j].rid \in S /\ q[j].kind = "publish" /\ q[j].n = n
      BY <1>8, <1>10
  <2> QED BY <1>1, <1>9, <2>1 DEF n
<1>13. q \in Seq(Message)
    BY <1>5, CopiesLemma
<1> QED BY <1>5, <1>11, <1>12, <1>13

\* Every stream grows by the copies for its client.
LEMMA IncomingPublishStream ==
    ASSUME TypeOK, SoundInv, NEW t \in Topics, IncomingPublish(t)
    PROVE  /\ SoundInv' /\ (AckInv => AckInv')
           /\ \A c \in Clients : Stream(c)' = Stream(c) \o Copies(c, t)
<1>1. /\ incoming < MaxIncoming /\ incoming' = incoming + 1
      /\ pending' = [c \in Clients |-> pending[c] \o Copies(c, t)]
      /\ UNCHANGED <<up, wire, subscriptions, issued>>
    BY DEF IncomingPublish, InsertTail, connVars, regexVars, clientVars
<1>2. incoming \in Nat
    BY MaxIncomingAssumption DEF TypeOK
<1>3. subscriptions \subseteq issued
    BY DEF SoundInv, AckInv
<1>4. ASSUME NEW c \in Clients
      PROVE  /\ Sound(c, Stream(c)', issued, incoming + 1)
             /\ AckInv /\ up => AckLast(Stream(c)', subscriptions)
             /\ Stream(c)' = Stream(c) \o Copies(c, t)
  <2> DEFINE s == Stream(c)
             q == Copies(c, t)
             l == Len(s)
             k == Len(q)
  <2>1. /\ q \in Seq(Message)
        /\ \A j \in 1..k : /\ q[j].kind = "publish" /\ q[j].n = incoming + 1
                           /\ q[j].rid \in subscriptions /\ Owner(q[j].rid) = c
        /\ \A i, j \in 1..k : q[i].rid = q[j].rid => i = j
      BY <1>1, CopiesAddressed
  <2>2. s \in Seq(Message) /\ l \in Nat /\ k \in Nat
      BY <2>1, StreamType, LenProperties
  <2>3. Sound(c, s, issued, incoming) /\ (AckInv /\ up => AckLast(s, subscriptions))
      BY DEF SoundInv, AckInv
  <2> HIDE DEF q
  <2>4. Stream(c)' = s \o q
    <3>1. Stream(c)' = wire[c] \o (pending[c] \o q)
        BY <1>1 DEF Stream, TypeOK, q
    <3>2. wire[c] \in Seq(Message) /\ pending[c] \in Seq(Message)
        BY DEF TypeOK
    <3>3. \A x, y, z \in Seq(Message) : (x \o y) \o z = x \o (y \o z)
        BY ConcatAssociative
    <3>4. (wire[c] \o pending[c]) \o q = wire[c] \o (pending[c] \o q)
        BY <2>1, <3>2, <3>3, Zenon
    <3> QED BY <3>1, <3>4 DEF Stream
  <2> HIDE DEF s
  <2>5. \A i \in 1..l : Belongs(c, s[i], issued, incoming)
      BY <2>3 DEF Sound
  <2>6. Ordered(s \o q)
    <3>1. Ordered(q)
      <4>1. \A i, j \in 1..k : i < j => q[i].rid # q[j].rid
          BY <2>1, <2>2
      <4> QED BY <4>1 DEF Ordered
    <3>2. ASSUME NEW i \in 1..Len(s), NEW j \in 1..Len(q),
                 s[i].kind = "publish", q[j].kind = "publish"
          PROVE  s[i].n < q[j].n
      <4>1. s[i] \in Message
          BY <2>2, ElementOfSeq
      <4>2. s[i].n \in Nat
          BY <3>2, <4>1, MessageLemma
      <4>3. s[i].n <= incoming
          BY <2>5, <3>2 DEF Belongs
      <4>4. q[j].n = incoming + 1
          BY <2>1
      <4> QED BY <1>2, <4>2, <4>3, <4>4
    <3>3. Ordered(s)
        BY <2>3 DEF Sound
    <3> QED BY <2>1, <2>2, <3>1, <3>2, <3>3, OrderedConcat
  <2>7. /\ Len(s \o q) = l + k
        /\ \A i \in 1..l + k : (s \o q)[i] = IF i <= l THEN s[i] ELSE q[i - l]
      BY <2>1, <2>2, ConcatProperties
  <2>8. ASSUME NEW i \in 1..Len(s \o q)
        PROVE  Belongs(c, (s \o q)[i], issued, incoming + 1)
    <3>1. CASE i <= l
      <4>1. (s \o q)[i] = s[i] /\ i \in 1..l
          BY <2>2, <2>7, <3>1
      <4>2. s[i] \in Message
          BY <2>2, <4>1, ElementOfSeq
      <4>3. s[i].kind = "publish" => s[i].n \in Nat
          BY <4>2, MessageLemma
      <4>4. Belongs(c, s[i], issued, incoming)
          BY <2>5, <4>1
      <4> QED BY <1>2, <4>1, <4>3, <4>4 DEF Belongs
    <3>2. CASE i > l
      <4>1. (s \o q)[i] = q[i - l] /\ i - l \in 1..k
          BY <2>2, <2>7, <3>2
      <4>2. /\ q[i - l].n = incoming + 1 /\ q[i - l].rid \in subscriptions
            /\ Owner(q[i - l].rid) = c
          BY <2>1, <4>1
      <4> QED BY <1>2, <1>3, <4>1, <4>2 DEF Belongs
    <3> QED BY <2>2, <2>7, <3>1, <3>2
  <2>9. AckInv /\ up => AckLast(s \o q, subscriptions)
      BY <2>1, <2>2, <2>3, AckLastCopies
  <2> QED BY <2>4, <2>6, <2>8, <2>9 DEF Sound, s, q
<1>5. \A c \in Clients : Stream(c)' = Stream(c) \o Copies(c, t)
    BY <1>4
<1> QED BY <1>1, <1>3, <1>4, <1>5 DEF SoundInv, AckInv

-----------------------------------------------------------------------------
(* The theorems *)

\* No step breaks the order of the streams.
LEMMA NextKeepsStreams ==
    ASSUME TypeOK, StreamInv, [Next]_vars
    PROVE  StreamInv'
<1>1. ASSUME NEW c \in Clients, Connections(c)
      PROVE  StreamInv'
  <2>1. CASE ClientConnects(c)
      BY <2>1, QuietStream DEF StreamInv, ClientConnects, queueVars, clientVars
  <2>2. CASE ClientBreaks(c)
      BY <2>2, QuietStream DEF StreamInv, ClientBreaks, queueVars, clientVars
  <2>3. CASE ClientGoneOverFreed(c)
      BY <2>3, QuietStream
      DEF StreamInv, ClientGoneOverFreed, Undefined, queueVars, clientVars
  <2> QED BY <1>1, <2>1, <2>2, <2>3, ClientGoneStream, ClientReadsStream
          DEF Connections, StreamInv
<1>2. ASSUME NEW c \in Clients, NEW r \in Rid, Subscribes(c, r)
      PROVE  StreamInv'
  <2>1. CASE \/ SubscribeRejected(c, r)
             \/ SubscribeNotAnnounced(c, r)
             \/ SubscribeNotLookedUp(c, r)
      BY <2>1, QuietStream
      DEF StreamInv, SubscribeRejected, SubscribeNotAnnounced, SubscribeNotLookedUp,
          Subscribing, queueVars
  <2> QED BY <1>2, <2>1, SubscribeStream DEF Subscribes, StreamInv
<1>3. ASSUME NEW c \in Clients, Sends(c)
      PROVE  StreamInv'
  <2>1. CASE SendFails(c)
      BY <2>1, QuietStream DEF StreamInv, SendFails, clientVars
  <2> QED BY <1>3, <2>1, SendReplyStream DEF Sends, StreamInv
<1>4. ASSUME NEW c \in Clients, NEW r \in Rid, Unsubscribes(c, r)
      PROVE  StreamInv'
  <2>1. CASE UnsubscribeOverFreed(c, r) \/ UnsubscribeUnknown(c, r)
      BY <2>1, QuietStream
      DEF StreamInv, UnsubscribeOverFreed, UnsubscribeUnknown, Undefined, queueVars,
          clientVars
  <2> QED BY <1>4, <2>1, UnsubscribeStream DEF Unsubscribes, StreamInv
<1>5. ASSUME NEW r \in Rid, NEW found \in SUBSET Keys, StatesFound(r, found)
      PROVE  StreamInv'
    BY <1>5, QuietStream DEF StreamInv, StatesFound, queueVars, clientVars
<1>6. CASE \/ ShutdownOverFreed
           \/ \E r \in Rid : StatesFoundNull(r)
           \/ \E c \in Clients : SendPastEnd(c)
    BY <1>6, QuietStream
    DEF StreamInv, ShutdownOverFreed, StatesFoundNull, SendPastEnd, Undefined,
        queueVars, clientVars
<1>7. CASE UNCHANGED vars
    BY <1>7, QuietStream DEF StreamInv, vars, queueVars, clientVars
<1> QED
    BY <1>1, <1>2, <1>3, <1>4, <1>5, <1>6, <1>7, IncomingPublishStream,
       ShutdownStream DEF Next, StreamInv

\* The streams are in order initially: they are empty.
LEMMA InitStreams == ASSUME Init PROVE StreamInv
<1>1. \A c \in Clients : Stream(c) = <<>>
  <2>1. <<>> \o <<>> = <<>>
    <3>1. <<>> \in Seq(Message)
        BY EmptySeq
    <3> QED BY <3>1, ConcatEmptySeq
  <2> QED BY <2>1 DEF Init, Stream
<1>2. Len(<<>>) = 0
    BY EmptySeq
<1> QED BY <1>1, <1>2 DEF Init, StreamInv, SoundInv, AckInv, Sound, Ordered, AckLast

\* StreamInv is an invariant of the service.
THEOREM StreamInvariance == Spec => [](IInv /\ StreamInv)
<1>1. Init => IInv /\ StreamInv
    BY InitHolds, InitStreams
<1>2. IInv /\ StreamInv /\ [Next]_vars => IInv' /\ StreamInv'
    BY NextKeeps, NextKeepsStreams DEF IInv
<1> QED BY <1>1, <1>2, PTL DEF Spec

\* Each subscription receives the PUBLISH messages in the order in which they
\* came in, none twice (add_pending_client_message inserts at the tail).
THEOREM DeliveredInOrder == Spec => []InOrder
<1>1. StreamInv => InOrder
    BY DEF StreamInv, SoundInv, Sound, Ordered, InOrder
<1> QED BY <1>1, StreamInvariance, PTL

\* handle_mqtt_unsubscribe queues the acknowledgement behind everything that
\* is queued for the subscription, and nothing follows it.
THEOREM AcknowledgedLast == Spec => []AckIsLast
<1>1. ASSUME StreamInv, up, NEW c \in Clients, NEW i \in 1..Len(Stream(c))
      PROVE  LET m == Stream(c)[i]
                 later == {j \in i+1..Len(Stream(c)) : Stream(c)[j].rid = m.rid}
             IN  IF m.kind = "ack" THEN later = {} /\ m.rid \notin subscriptions
                 ELSE \/ m.rid \in subscriptions
                      \/ \E j \in later : Stream(c)[j].kind = "ack"
  <2> DEFINE s == Stream(c)
  <2>1. AckLast(s, subscriptions)
      BY <1>1 DEF StreamInv, AckInv
  <2> HIDE DEF s
  <2>2. i \in 1..Len(s)
      BY DEF s
  <2>3. IF s[i].kind = "ack"
        THEN /\ s[i].rid \notin subscriptions
             /\ \A j \in i+1..Len(s) : s[j].rid # s[i].rid
        ELSE \/ s[i].rid \in subscriptions
             \/ \E j \in i+1..Len(s) : s[j].rid = s[i].rid /\ s[j].kind = "ack"
      BY <2>1, <2>2 DEF AckLast
  <2> QED BY <2>3 DEF s
<1>2. StreamInv => AckIsLast
    BY <1>1 DEF AckIsLast
<1> QED BY <1>2, StreamInvariance, PTL
=============================================================================
