---------------------------- MODULE MqttApiProofs ----------------------------
(***************************************************************************)
(* Invariants of the client library, proved for every number of requests   *)
(* and every set of environment events.                                    *)
(***************************************************************************)
EXTENDS MqttApi, DllProofs

(***************************************************************************)
(* The inductive invariant.  QueueOwned and TimerOwned are not inductive:  *)
(* which message a timer or a handle points to depends on the kind of the  *)
(* request (QueueShape), a new request has to be new to every set          *)
(* (IdsKnown), and a handle freed on an UNSUBSCRIBE_ACK must have left the *)
(* queue before the UNSUBSCRIBE reached the link (LinkShape).              *)
(***************************************************************************)
LinkDown ==
    ~client => /\ ~th /\ ~receiving
               /\ toService = <<>> /\ toClient = <<>> /\ remote = {}

HandleState ==
    /\ handle # "open" => ~client /\ pending = <<>>
    /\ handle = "unset" => uid_gen = 0 /\ ~reconnect_task

IdsKnown ==
    /\ subs \union hasPending \union cont \union timers \union freed
          \union released \subseteq 1..uid_gen
    /\ unsubscribing \subseteq released \intersect subs
    /\ timers \intersect freed = {}
    /\ ToSet(subscribed) \subseteq subs
    /\ IsInjective(subscribed)

QueueShape ==
    /\ IsInjective(pending)
    /\ \A m \in ToSet(pending) :
          /\ m.id \in hasPending \ freed
          /\ m.kind = "publish" <=> m.id \notin subs
          /\ m.kind = "unsubscribe" <=> m.id \in unsubscribing
    /\ \A id \in (hasPending \intersect subs) \ freed : Queued(id)

TimerShape ==
    handle = "open" =>
       /\ \A m \in ToSet(pending) : m.kind # "unsubscribe" => m.id \in timers
       /\ \A id \in timers :
             \E m \in ToSet(pending) : m.id = id /\ m.kind # "unsubscribe"

LinkShape ==
    /\ \A m \in ToSet(toService) :
          m.kind = "unsubscribe" => m.id \in unsubscribing \ hasPending
    /\ \A m \in ToSet(toClient) :
          m.kind = "ack" => m.id \in unsubscribing \ hasPending

IInv ==
    /\ TypeOK
    /\ LinkDown
    /\ HandleState
    /\ ReconnectExclusive
    /\ NoLostWakeup
    /\ IdsKnown
    /\ QueueShape
    /\ TimerShape
    /\ LinkShape

-----------------------------------------------------------------------------
(***************************************************************************)
(* The helpers.                                                            *)
(***************************************************************************)

\* do_disconnect leaves a closed link and a scheduled reconnection.
LEMMA DoDisconnectLemma ==
    ASSUME DoDisconnect
    PROVE  /\ client' = FALSE /\ th' = FALSE /\ reconnect_task' = TRUE
           /\ toService' = <<>> /\ toClient' = <<>> /\ remote' = {}
           /\ receiving' = FALSE
           /\ toService' \in Seq(Message) /\ toClient' \in Seq(Incoming)
           /\ ToSet(toService') = {} /\ ToSet(toClient') = {}
BY EmptyLemma DEF DoDisconnect, CloseLink

(***************************************************************************)
(* process_pending_messages, once a message is queued, leaves a request    *)
(* outstanding if there is a connection, and adds nothing to the link.     *)
(***************************************************************************)
LEMMA ProcessPendingLemma ==
    ASSUME IInv, pending' # <<>>,
           ProcessPending(th, pending', toService, receiving)
    PROVE  /\ client' \in BOOLEAN /\ th' \in BOOLEAN
           /\ reconnect_task' \in BOOLEAN /\ receiving' \in BOOLEAN
           /\ toService' \in Seq(Message) /\ toClient' \in Seq(Incoming)
           /\ remote' \in SUBSET remote
           /\ LinkDown'
           /\ ReconnectExclusive'
           /\ client' => th'
           /\ client' => client
           /\ ToSet(toService') \subseteq ToSet(toService)
           /\ ToSet(toClient') \subseteq ToSet(toClient)
<1>1. CASE /\ th' = (th \/ NeedsRequest(th, pending'))
           /\ toService' = toService
           /\ receiving' = receiving
           /\ UNCHANGED <<client, reconnect_task, toClient, remote>>
  BY <1>1 DEF IInv, TypeOK, LinkDown, ReconnectExclusive, NeedsRequest
<1>2. CASE NeedsRequest(th, pending') /\ DoDisconnect
  BY <1>2, DoDisconnectLemma DEF LinkDown, ReconnectExclusive, NeedsRequest
<1> QED
  BY <1>1, <1>2 DEF ProcessPending

\* Taking a queued message out of the queue.
LEMMA DequeueLemma ==
    ASSUME TypeOK, QueueShape, NEW m \in ToSet(pending), pending' = Dequeue(m)
    PROVE  /\ pending' \in Seq(Message)
           /\ ToSet(pending') = ToSet(pending) \ {m}
           /\ IsInjective(pending')
           /\ pending # <<>>
<1>1. pending \in Seq(Message) /\ IsInjective(pending)
  BY DEF TypeOK, QueueShape
<1>2. pending # <<>>
  BY EmptyLemma
<1> QED
  BY <1>1, <1>2, UnlinkLemma DEF Dequeue

\* A record of the given kind and id is the message made of them.
LEMMA MsgLemma ==
    /\ \A m \in Message : m = Msg(m.kind, m.id) /\ m.kind \in Kind /\ m.id \in Req
    /\ \A m \in Incoming :
          m = Msg(m.kind, m.id) /\ m.kind \in {"publish", "ack"} /\ m.id \in Req
    /\ \A k \in Kind, id \in Req :
          Msg(k, id) \in Message /\ Msg(k, id).kind = k /\ Msg(k, id).id = id
    /\ \A id \in Req : Msg("ack", id) \in Incoming /\ Msg("publish", id) \in Incoming
BY DEF Message, Incoming, Msg, Kind

\* The elements of a list have the type of the list.
LEMMA ToSetLemma ==
    ASSUME NEW S, NEW s \in Seq(S)
    PROVE  ToSet(s) \subseteq S
BY DEF ToSet

\* The messages in the queue and in the link are messages.
LEMMA ElementTypes ==
    ASSUME TypeOK
    PROVE  /\ ToSet(pending) \subseteq Message
           /\ ToSet(toService) \subseteq Message
           /\ ToSet(toClient) \subseteq Incoming
           /\ ToSet(subscribed) \subseteq Req
BY ToSetLemma DEF TypeOK

-----------------------------------------------------------------------------
(***************************************************************************)
(* One lemma per action: it preserves the inductive invariant.             *)
(***************************************************************************)

\* The invariant is about none of the steps that only end the model.
LEMMA UndefinedInv == IInv /\ Undefined => IInv'
<1> SUFFICES ASSUME IInv, Undefined PROVE IInv'
  OBVIOUS
<1> USE DEF Undefined, connVars, reqVars, appVars, linkVars
<1>1. TypeOK'
  BY DEF IInv, TypeOK
<1>2. LinkDown' /\ HandleState' /\ ReconnectExclusive' /\ NoLostWakeup'
  BY DEF IInv, LinkDown, HandleState, ReconnectExclusive, NoLostWakeup
<1>3. IdsKnown' /\ QueueShape'
  BY DEF IInv, IdsKnown, QueueShape, Queued
<1>4. TimerShape' /\ LinkShape'
  BY DEF IInv, TimerShape, LinkShape
<1> QED
  BY <1>1, <1>2, <1>3, <1>4 DEF IInv

\* GNUNET_MQTT_connect
LEMMA ConnectInv == IInv /\ Connect => IInv'
<1> SUFFICES ASSUME IInv, Connect PROVE IInv'
  OBVIOUS
<1> USE DEF Connect, ResetReceive, reqVars, appVars, linkVars
<1>1. pending = <<>> /\ ToSet(pending) = {} /\ timers = {}
  BY EmptyLemma DEF IInv, HandleState, IdsKnown
<1>2. TypeOK'
  BY DEF IInv, TypeOK
<1>3. LinkDown' /\ HandleState' /\ ReconnectExclusive' /\ NoLostWakeup'
  BY <1>1 DEF IInv, LinkDown, HandleState, ReconnectExclusive, NoLostWakeup
<1>4. IdsKnown' /\ QueueShape'
  BY DEF IInv, IdsKnown, QueueShape, Queued
<1>5. TimerShape' /\ LinkShape'
  BY <1>1 DEF IInv, TimerShape, LinkShape
<1> QED
  BY <1>2, <1>3, <1>4, <1>5 DEF IInv

\* What a request made by PUBLISH or SUBSCRIBE starts from.
LEMMA NewRequestLemma ==
    ASSUME IInv, uid_gen < MaxRequests, uid_gen' = uid_gen + 1,
           NEW k \in Kind, pending' = Cons(Msg(k, uid_gen'), pending)
    PROVE  /\ uid_gen' \in Req
           /\ uid_gen' \notin subs \union hasPending \union cont \union timers
                       \union freed \union released \union unsubscribing
           /\ 1..uid_gen \subseteq 1..uid_gen'
           /\ uid_gen' \in 1..uid_gen'
           /\ Msg(k, uid_gen') \in Message
           /\ Msg(k, uid_gen').kind = k /\ Msg(k, uid_gen').id = uid_gen'
           /\ pending' \in Seq(Message)
           /\ pending' # <<>>
           /\ ToSet(pending') = ToSet(pending) \union {Msg(k, uid_gen')}
           /\ IsInjective(pending')
<1>1. uid_gen \in 0..MaxRequests /\ MaxRequests \in Nat
  BY MaxRequestsAssumption DEF IInv, TypeOK
<1>2. uid_gen' \in Req /\ uid_gen' \notin 1..uid_gen /\ uid_gen' \in 1..uid_gen'
      /\ 1..uid_gen \subseteq 1..uid_gen'
  BY <1>1 DEF Req
<1>3. uid_gen' \notin subs \union hasPending \union cont \union timers
                       \union freed \union released \union unsubscribing
  BY <1>2 DEF IInv, IdsKnown
<1>4. /\ Msg(k, uid_gen') \in Message
      /\ Msg(k, uid_gen').kind = k /\ Msg(k, uid_gen').id = uid_gen'
  BY <1>2, MsgLemma
<1>5. Msg(k, uid_gen') \notin ToSet(pending)
  BY <1>3, <1>4 DEF IInv, QueueShape
<1>6. pending \in Seq(Message) /\ IsInjective(pending)
  BY DEF IInv, TypeOK, QueueShape
<1>7. /\ pending' \in Seq(Message)
      /\ pending' # <<>>
      /\ ToSet(pending') = ToSet(pending) \union {Msg(k, uid_gen')}
      /\ IsInjective(pending')
  <2> DEFINE m == Msg(k, uid_gen')
  <2>1. m \in Message /\ m \notin ToSet(pending) /\ pending' = Cons(m, pending)
    BY <1>4, <1>5
  <2> HIDE DEF m
  <2>2. /\ Cons(m, pending) \in Seq(Message)
        /\ Cons(m, pending) # <<>>
        /\ ToSet(Cons(m, pending)) = ToSet(pending) \union {m}
        /\ IsInjective(Cons(m, pending))
    BY <1>6, <2>1, ConsLemma
  <2> QED
    BY <2>1, <2>2 DEF m
<1> QED
  BY <1>2, <1>3, <1>4, <1>7

\* GNUNET_MQTT_publish
LEMMA PublishInv ==
    ASSUME IInv, NEW withCont \in BOOLEAN, Publish(withCont)
    PROVE  IInv'
<1> DEFINE m == Msg("publish", uid_gen')
<1>1. /\ uid_gen < MaxRequests /\ uid_gen' = uid_gen + 1
      /\ handle = "open" /\ handle' = handle
      /\ cont' \subseteq cont \union {uid_gen'}
      /\ timers' = timers \union {uid_gen'}
      /\ hasPending' = hasPending \union {uid_gen'}
      /\ pending' = Cons(Msg("publish", uid_gen'), pending)
      /\ ProcessPending(th, pending', toService, receiving)
      /\ UNCHANGED <<in_receive, subscribed, subs, unsubscribing, freed, told,
                     released, undefined>>
  BY DEF Publish, appVars
<1>2. /\ uid_gen' \in Req
      /\ uid_gen' \notin subs \union hasPending \union cont \union timers
                  \union freed \union released \union unsubscribing
      /\ 1..uid_gen \subseteq 1..uid_gen' /\ uid_gen' \in 1..uid_gen'
      /\ m.kind = "publish" /\ m.id = uid_gen'
      /\ pending' \in Seq(Message) /\ pending' # <<>>
      /\ ToSet(pending') = ToSet(pending) \union {m}
      /\ IsInjective(pending')
  <2>1. "publish" \in Kind
    BY DEF Kind
  <2> QED
    BY <1>1, <2>1, NewRequestLemma
<1>3. /\ client' \in BOOLEAN /\ th' \in BOOLEAN
      /\ reconnect_task' \in BOOLEAN /\ receiving' \in BOOLEAN
      /\ toService' \in Seq(Message) /\ toClient' \in Seq(Incoming)
      /\ remote' \in SUBSET remote
      /\ LinkDown'
      /\ ReconnectExclusive'
      /\ client' => th'
      /\ ToSet(toService') \subseteq ToSet(toService)
      /\ ToSet(toClient') \subseteq ToSet(toClient)
  BY <1>1, <1>2, ProcessPendingLemma
<1> HIDE DEF m
<1>4. TypeOK'
  BY <1>1, <1>2, <1>3 DEF IInv, TypeOK, Req
<1>5. HandleState' /\ NoLostWakeup'
  BY <1>1, <1>2, <1>3 DEF IInv, HandleState, NoLostWakeup
<1>6. IdsKnown'
  BY <1>1, <1>2 DEF IInv, IdsKnown
<1>7. QueueShape'
  BY <1>1, <1>2 DEF IInv, QueueShape, Queued
<1>8. TimerShape'
  BY <1>1, <1>2 DEF IInv, TimerShape
<1>9. LinkShape'
  BY <1>1, <1>2, <1>3 DEF IInv, LinkShape
<1> QED
  BY <1>3, <1>4, <1>5, <1>6, <1>7, <1>8, <1>9 DEF IInv

\* GNUNET_MQTT_subscribe
LEMMA SubscribeInv ==
    ASSUME IInv, NEW withCont \in BOOLEAN, Subscribe(withCont)
    PROVE  IInv'
<1> DEFINE m == Msg("subscribe", uid_gen')
<1>1. /\ uid_gen < MaxRequests /\ uid_gen' = uid_gen + 1
      /\ handle = "open" /\ handle' = handle
      /\ subs' = subs \union {uid_gen'}
      /\ cont' \subseteq cont \union {uid_gen'}
      /\ timers' = timers \union {uid_gen'}
      /\ hasPending' = hasPending \union {uid_gen'}
      /\ pending' = Cons(Msg("subscribe", uid_gen'), pending)
      /\ subscribed' = Append(subscribed, uid_gen')
      /\ ProcessPending(th, pending', toService, receiving)
      /\ UNCHANGED <<in_receive, unsubscribing, freed, told, released, undefined>>
  BY DEF Subscribe, appVars
<1>2. /\ uid_gen' \in Req
      /\ uid_gen' \notin subs \union hasPending \union cont \union timers
                  \union freed \union released \union unsubscribing
      /\ 1..uid_gen \subseteq 1..uid_gen' /\ uid_gen' \in 1..uid_gen'
      /\ m.kind = "subscribe" /\ m.id = uid_gen'
      /\ pending' \in Seq(Message) /\ pending' # <<>>
      /\ ToSet(pending') = ToSet(pending) \union {m}
      /\ IsInjective(pending')
  <2>1. "subscribe" \in Kind
    BY DEF Kind
  <2> QED
    BY <1>1, <2>1, NewRequestLemma
<1>3. /\ client' \in BOOLEAN /\ th' \in BOOLEAN
      /\ reconnect_task' \in BOOLEAN /\ receiving' \in BOOLEAN
      /\ toService' \in Seq(Message) /\ toClient' \in Seq(Incoming)
      /\ remote' \in SUBSET remote
      /\ LinkDown'
      /\ ReconnectExclusive'
      /\ client' => th'
      /\ ToSet(toService') \subseteq ToSet(toService)
      /\ ToSet(toClient') \subseteq ToSet(toClient)
  BY <1>1, <1>2, ProcessPendingLemma
<1> HIDE DEF m
<1>4. TypeOK'
  BY <1>1, <1>2, <1>3 DEF IInv, TypeOK, Req
<1>5. HandleState' /\ NoLostWakeup'
  BY <1>1, <1>2, <1>3 DEF IInv, HandleState, NoLostWakeup
<1>6. IdsKnown'
  <2>1. /\ ToSet(subscribed') = ToSet(subscribed) \union {uid_gen'}
        /\ IsInjective(subscribed')
    BY <1>1, <1>2, AppendLemma DEF IInv, TypeOK, IdsKnown
  <2> QED
    BY <1>1, <1>2, <2>1 DEF IInv, IdsKnown
<1>7. QueueShape'
  <2>1. \A n \in ToSet(pending) : n.id # uid_gen'
    BY <1>2 DEF IInv, QueueShape
  <2> QED
    BY <1>1, <1>2, <2>1 DEF IInv, QueueShape, Queued
<1>8. TimerShape'
  BY <1>1, <1>2 DEF IInv, TimerShape
<1>9. LinkShape'
  <2>1. uid_gen' \notin unsubscribing
    BY <1>2
  <2> QED
    BY <1>1, <1>2, <1>3, <2>1 DEF IInv, LinkShape
<1> QED
  BY <1>3, <1>4, <1>5, <1>6, <1>7, <1>8, <1>9 DEF IInv

\* GNUNET_MQTT_unsubscribe, when it queues an UNSUBSCRIBE message
LEMMA UnsubscribeInv ==
    ASSUME IInv, NEW id \in Req, Unsubscribe(id)
    PROVE  IInv'
<1> DEFINE m == Msg("unsubscribe", id)
<1>1. /\ handle = "open" /\ handle' = handle
      /\ id \in subs /\ id \notin released /\ id \notin freed
      /\ id \notin hasPending
      /\ released' = released \union {id}
      /\ unsubscribing' = unsubscribing \union {id}
      /\ hasPending' = hasPending \union {id}
      /\ pending' = Cons(m, pending)
      /\ ProcessPending(th, pending', toService, receiving)
      /\ UNCHANGED <<in_receive, subscribed, uid_gen, subs, cont, timers, freed,
                     told, undefined>>
  BY DEF Unsubscribe, StillQueued, MayUnsubscribe
<1>2. m \in Message /\ m.kind = "unsubscribe" /\ m.id = id
  BY MsgLemma DEF Kind
<1>3. \A n \in ToSet(pending) : n.id # id
  BY <1>1 DEF IInv, QueueShape
<1> HIDE DEF m
<1>4. /\ pending' \in Seq(Message) /\ pending' # <<>>
      /\ ToSet(pending') = ToSet(pending) \union {m}
      /\ IsInjective(pending')
  <2>1. pending \in Seq(Message) /\ IsInjective(pending) /\ m \notin ToSet(pending)
    BY <1>2, <1>3 DEF IInv, TypeOK, QueueShape
  <2> QED
    BY <1>1, <1>2, <2>1, ConsLemma
<1>5. /\ client' \in BOOLEAN /\ th' \in BOOLEAN
      /\ reconnect_task' \in BOOLEAN /\ receiving' \in BOOLEAN
      /\ toService' \in Seq(Message) /\ toClient' \in Seq(Incoming)
      /\ remote' \in SUBSET remote
      /\ LinkDown'
      /\ ReconnectExclusive'
      /\ client' => th'
      /\ ToSet(toService') \subseteq ToSet(toService)
      /\ ToSet(toClient') \subseteq ToSet(toClient)
  BY <1>1, <1>4, ProcessPendingLemma
<1>6. id \notin unsubscribing
  BY <1>1 DEF IInv, IdsKnown
<1>7. TypeOK'
  BY <1>1, <1>4, <1>5 DEF IInv, TypeOK
<1>8. HandleState' /\ NoLostWakeup'
  BY <1>1, <1>4, <1>5 DEF IInv, HandleState, NoLostWakeup
<1>9. IdsKnown'
  BY <1>1 DEF IInv, IdsKnown
<1>10. QueueShape'
  BY <1>1, <1>2, <1>3, <1>4 DEF IInv, QueueShape, Queued
<1>11. TimerShape'
  BY <1>1, <1>2, <1>4 DEF IInv, TimerShape
<1>12. LinkShape'
  BY <1>1, <1>5, <1>6 DEF IInv, LinkShape
<1> QED
  BY <1>5, <1>7, <1>8, <1>9, <1>10, <1>11, <1>12 DEF IInv

(***************************************************************************)
(* A message whose timer is running, or whose handle points to it, is in   *)
(* the queue of an open handle.                                            *)
(***************************************************************************)
LEMMA QueuedMessageLemma ==
    ASSUME IInv, handle = "open", NEW id \in Req
    PROVE  /\ id \in timers \ subs => Msg("publish", id) \in ToSet(pending)
           /\ id \in timers \intersect subs => Msg("subscribe", id) \in ToSet(pending)
           /\ id \in (hasPending \intersect subs) \ (freed \union released) =>
                 Msg("subscribe", id) \in ToSet(pending)
           /\ id \notin subs /\ Queued(id) => Msg("publish", id) \in ToSet(pending)
<1>1. \A m \in ToSet(pending) : m = Msg(m.kind, m.id) /\ m.kind \in Kind
  BY ElementTypes, MsgLemma DEF IInv
<1>2. \A m \in ToSet(pending) :
         /\ m.kind = "publish" <=> m.id \notin subs
         /\ m.kind = "unsubscribe" <=> m.id \in unsubscribing
  BY DEF IInv, QueueShape
<1>3. unsubscribing \subseteq released
  BY DEF IInv, IdsKnown
<1>4. id \in timers => \E m \in ToSet(pending) : m.id = id /\ m.kind # "unsubscribe"
  BY DEF IInv, TimerShape
<1>5. id \in (hasPending \intersect subs) \ freed => \E m \in ToSet(pending) : m.id = id
  BY DEF IInv, QueueShape, Queued
<1> QED
  BY <1>1, <1>2, <1>3, <1>4, <1>5 DEF Kind, Queued

(***************************************************************************)
(* Taking a message back, or dropping it because its time is over.         *)
(***************************************************************************)
LEMMA DropLemma ==
    ASSUME IInv, handle = "open", UNCHANGED <<handle, connVars, linkVars, subscribed,
                                   uid_gen, subs, unsubscribing, cont, undefined>>,
           NEW m \in ToSet(pending), m.kind # "unsubscribe", pending' = Dequeue(m),
           timers' = timers \ {m.id},
           told' \in [Req -> Seq({"ok", "no"})],
           \/ /\ hasPending' = hasPending \ {m.id} /\ freed' = freed
              /\ released' = released \union {m.id}
           \/ /\ hasPending' = hasPending /\ freed' = freed \union {m.id}
              /\ released' = released
    PROVE  IInv'
<1>1. /\ pending' \in Seq(Message)
      /\ ToSet(pending') = ToSet(pending) \ {m}
      /\ IsInjective(pending')
      /\ pending # <<>>
  BY DequeueLemma DEF IInv
<1>2. \A n \in ToSet(pending') : n \in ToSet(pending) /\ n # m
  BY <1>1
<1>3. m = Msg(m.kind, m.id) /\ m.kind \in Kind /\ m.id \in Req
  BY ElementTypes, MsgLemma DEF IInv
<1>4. \A n \in ToSet(pending) : n = Msg(n.kind, n.id) /\ n.kind \in Kind
  BY ElementTypes, MsgLemma DEF IInv
<1>5. \A n \in ToSet(pending) :
         /\ n.id \in hasPending \ freed
         /\ n.kind = "publish" <=> n.id \notin subs
         /\ n.kind = "unsubscribe" <=> n.id \in unsubscribing
  BY DEF IInv, QueueShape
<1>6. \A n \in ToSet(pending') : n.id # m.id
  BY <1>2, <1>3, <1>4, <1>5 DEF Kind
<1>7. TypeOK'
  BY <1>1, <1>3 DEF IInv, TypeOK, connVars, linkVars
<1>8. LinkDown' /\ HandleState' /\ ReconnectExclusive' /\ NoLostWakeup'
  BY <1>1 DEF IInv, LinkDown, HandleState, ReconnectExclusive, NoLostWakeup,
              connVars, linkVars
<1>9. IdsKnown'
  BY <1>5 DEF IInv, IdsKnown
<1>10. QueueShape'
  <2>1. \A n \in ToSet(pending') : n.id \in hasPending' \ freed'
    BY <1>2, <1>5, <1>6
  <2>2. ASSUME NEW id \in (hasPending' \intersect subs') \ freed' PROVE Queued(id)'
    <3>1. id # m.id /\ id \in (hasPending \intersect subs) \ freed
      BY <1>5
    <3>2. PICK n \in ToSet(pending) : n.id = id
      BY <3>1 DEF IInv, QueueShape, Queued
    <3> QED
      BY <1>1, <3>1, <3>2 DEF Queued
  <2> QED
    BY <1>1, <1>2, <1>5, <2>1, <2>2 DEF QueueShape
<1>11. TimerShape'
  BY <1>1, <1>2, <1>6 DEF IInv, TimerShape
<1>12. LinkShape'
  BY DEF IInv, LinkShape, linkVars
<1> QED
  BY <1>7, <1>8, <1>9, <1>10, <1>11, <1>12 DEF IInv

\* Calling a continuation keeps the type of told.
LEMMA TellLemma ==
    ASSUME TypeOK, NEW id \in Req, NEW r \in {"ok", "no"}, Tell(id, r)
    PROVE  told' \in [Req -> Seq({"ok", "no"})]
<1>1. told \in [Req -> Seq({"ok", "no"})] /\ told[id] \in Seq({"ok", "no"})
  BY DEF TypeOK
<1>2. Append(told[id], r) \in Seq({"ok", "no"})
  BY <1>1
<1> QED
  BY <1>1, <1>2 DEF Tell

\* GNUNET_MQTT_publish_cancel
LEMMA PublishCancelInv ==
    ASSUME IInv, NEW id \in Req, PublishCancel(id)
    PROVE  IInv'
<1> DEFINE m == Msg("publish", id)
<1>1. handle = "open" /\ m \in ToSet(pending)
  BY QueuedMessageLemma DEF PublishCancel, MayCancel
<1>2. m.id = id /\ m.kind # "unsubscribe"
  BY MsgLemma DEF Kind
<1>3. /\ pending' = Dequeue(m)
      /\ timers' = timers \ {m.id} /\ hasPending' = hasPending \ {m.id}
      /\ freed' = freed /\ released' = released \union {m.id}
      /\ told' \in [Req -> Seq({"ok", "no"})]
      /\ UNCHANGED <<handle, connVars, linkVars, subscribed, uid_gen, subs,
                     unsubscribing, cont, undefined>>
  BY <1>2 DEF PublishCancel, CancelTimer, IInv, TypeOK
<1> HIDE DEF m
<1> QED
  BY <1>1, <1>2, <1>3, DropLemma

\* GNUNET_MQTT_unsubscribe, when it takes the SUBSCRIBE message back
LEMMA WithdrawInv ==
    ASSUME IInv, NEW id \in Req, Withdraw(id)
    PROVE  IInv'
<1> DEFINE m == Msg("subscribe", id)
<1>1. handle = "open" /\ m \in ToSet(pending)
  BY QueuedMessageLemma DEF Withdraw, StillQueued, MayUnsubscribe
<1>2. m.id = id /\ m.kind # "unsubscribe"
  BY MsgLemma DEF Kind
<1>3. /\ pending' = Dequeue(m)
      /\ timers' = timers \ {m.id} /\ hasPending' = hasPending \ {m.id}
      /\ freed' = freed /\ released' = released \union {m.id}
      /\ told' \in [Req -> Seq({"ok", "no"})]
      /\ UNCHANGED <<handle, connVars, linkVars, subscribed, uid_gen, subs,
                     unsubscribing, cont, undefined>>
  BY <1>2 DEF Withdraw, CancelTimer, IInv, TypeOK
<1> HIDE DEF m
<1> QED
  BY <1>1, <1>2, <1>3, DropLemma

\* publish_timeout
LEMMA PublishTimeoutInv ==
    ASSUME IInv, NEW id \in Req, PublishTimeout(id)
    PROVE  IInv'
<1> DEFINE m == Msg("publish", id)
<1>1. handle = "open" /\ m \in ToSet(pending)
  BY QueuedMessageLemma DEF PublishTimeout
<1>2. m.id = id /\ m.kind # "unsubscribe"
  BY MsgLemma DEF Kind
<1>3. told' \in [Req -> Seq({"ok", "no"})]
  BY TellLemma DEF PublishTimeout, IInv
<1>4. /\ pending' = Dequeue(m)
      /\ timers' = timers \ {m.id} /\ hasPending' = hasPending
      /\ freed' = freed \union {m.id} /\ released' = released
      /\ UNCHANGED <<handle, connVars, linkVars, subscribed, uid_gen, subs,
                     unsubscribing, cont, undefined>>
  BY <1>2 DEF PublishTimeout
<1> HIDE DEF m
<1> QED
  BY <1>1, <1>2, <1>3, <1>4, DropLemma

\* subscribe_timeout, before and after GNUNET_MQTT_disconnect
LEMMA SubscribeTimeoutInv ==
    ASSUME IInv, NEW id \in Req, SubscribeTimeout(id)
    PROVE  IInv'
<1> DEFINE m == Msg("subscribe", id)
<1>1. told' \in [Req -> Seq({"ok", "no"})]
  BY TellLemma DEF SubscribeTimeout, IInv
<1>2. CASE handle = "open"
  <2>1. m \in ToSet(pending)
    BY <1>2, QueuedMessageLemma DEF SubscribeTimeout
  <2>2. m.id = id /\ m.kind # "unsubscribe"
    BY MsgLemma DEF Kind
  <2>3. id \in hasPending
    BY <2>1, <2>2 DEF IInv, QueueShape
  <2>4. /\ pending' = Dequeue(m)
        /\ timers' = timers \ {m.id} /\ hasPending' = hasPending
        /\ freed' = freed \union {m.id} /\ released' = released
        /\ UNCHANGED <<handle, connVars, linkVars, subscribed, uid_gen, subs,
                       unsubscribing, cont, undefined>>
    BY <2>2, <2>3 DEF SubscribeTimeout
  <2> HIDE DEF m
  <2> QED
    BY <1>1, <1>2, <2>1, <2>2, <2>4, DropLemma
<1>3. CASE handle # "open"
  <2>1. pending = <<>> /\ ToSet(pending) = {} /\ ~client
    BY <1>3, EmptyLemma DEF IInv, HandleState
  <2>2. id \notin freed /\ id \in subs /\ id \in timers
    BY DEF IInv, IdsKnown, SubscribeTimeout
  <2>3. id \notin hasPending
    BY <2>1, <2>2 DEF IInv, QueueShape, Queued
  <2>4. /\ pending' = pending /\ timers' = timers \ {id}
        /\ freed' = freed \union {id}
        /\ UNCHANGED <<handle, connVars, linkVars, subscribed, uid_gen, subs,
                       unsubscribing, cont, hasPending, released, undefined>>
    BY <2>3 DEF SubscribeTimeout
  <2>5. TypeOK'
    BY <1>1, <2>4 DEF IInv, TypeOK, connVars, linkVars
  <2>6. LinkDown' /\ HandleState' /\ ReconnectExclusive' /\ NoLostWakeup'
    BY <2>4 DEF IInv, LinkDown, HandleState, ReconnectExclusive, NoLostWakeup,
                connVars, linkVars
  <2>7. IdsKnown' /\ TimerShape' /\ LinkShape'
    BY <1>3, <2>2, <2>4 DEF IInv, IdsKnown, TimerShape, LinkShape, linkVars
  <2>8. QueueShape'
    BY <2>1, <2>4 DEF IInv, QueueShape, Queued
  <2> QED
    BY <2>5, <2>6, <2>7, <2>8 DEF IInv
<1> QED
  BY <1>2, <1>3

\* GNUNET_MQTT_disconnect
LEMMA DisconnectInv == IInv /\ Disconnect => IInv'
<1> SUFFICES ASSUME IInv, Disconnect PROVE IInv'
  OBVIOUS
<1>1. /\ handle = "open" /\ handle' = "freed" /\ client' = FALSE /\ th' = FALSE
      /\ pending' = <<>> /\ ToSet(pending') = {} /\ IsInjective(pending')
      /\ pending' \in Seq(Message)
      /\ cont' \subseteq cont
      /\ hasPending' = hasPending \ subs
      /\ toService' = <<>> /\ toClient' = <<>> /\ remote' = {}
      /\ receiving' = FALSE
      /\ toService' \in Seq(Message) /\ toClient' \in Seq(Incoming)
      /\ ToSet(toService') = {} /\ ToSet(toClient') = {}
      /\ UNCHANGED <<in_receive, reconnect_task, subscribed, uid_gen, subs,
                     unsubscribing, timers, freed, released, undefined>>
  BY EmptyLemma DEF Disconnect, CloseLink, ClearCont
<1>2. told' \in [Req -> Seq({"ok", "no"})]
  <2>1. \A id \in Req : told[id] \in Seq({"ok", "no"})
    BY DEF IInv, TypeOK
  <2>2. \A id \in Req : Append(told[id], "ok") \in Seq({"ok", "no"})
    BY <2>1
  <2> QED
    BY <2>1, <2>2 DEF Disconnect
<1>3. TypeOK'
  BY <1>1, <1>2 DEF IInv, TypeOK
<1>4. LinkDown' /\ HandleState' /\ ReconnectExclusive' /\ NoLostWakeup'
  BY <1>1 DEF LinkDown, HandleState, ReconnectExclusive, NoLostWakeup
<1>5. IdsKnown' /\ QueueShape' /\ TimerShape' /\ LinkShape'
  BY <1>1 DEF IInv, IdsKnown, QueueShape, TimerShape, LinkShape
<1> QED
  BY <1>3, <1>4, <1>5 DEF IInv

\* A connection closed by do_disconnect while nothing else happens
LEMMA ConnectionLostLemma ==
    ASSUME IInv, client, DoDisconnect, in_receive' \in BOOLEAN,
           UNCHANGED <<handle, pending, subscribed, reqVars, appVars, undefined>>
    PROVE  IInv'
<1>1. /\ client' = FALSE /\ th' = FALSE /\ reconnect_task' = TRUE
      /\ toService' = <<>> /\ toClient' = <<>> /\ remote' = {}
      /\ receiving' = FALSE
      /\ toService' \in Seq(Message) /\ toClient' \in Seq(Incoming)
      /\ ToSet(toService') = {} /\ ToSet(toClient') = {}
  BY DoDisconnectLemma
<1>2. TypeOK'
  BY <1>1 DEF IInv, TypeOK, reqVars, appVars
<1>3. LinkDown' /\ HandleState' /\ ReconnectExclusive' /\ NoLostWakeup'
  BY <1>1 DEF IInv, LinkDown, HandleState, ReconnectExclusive, NoLostWakeup,
              reqVars
<1>4. IdsKnown' /\ QueueShape' /\ TimerShape' /\ LinkShape'
  BY <1>1 DEF IInv, IdsKnown, QueueShape, Queued, TimerShape, LinkShape,
              reqVars, appVars
<1> QED
  BY <1>2, <1>3, <1>4 DEF IInv

\* try_reconnect
LEMMA ReconnectInv == IInv /\ Reconnect => IInv'
<1> SUFFICES ASSUME IInv, Reconnect PROVE IInv'
  OBVIOUS
<1> USE DEF reqVars, appVars
<1>1. /\ handle = "open" /\ reconnect_task /\ in_receive' = FALSE
      /\ UNCHANGED <<handle, pending, subscribed, reqVars, appVars, undefined>>
  BY DEF Reconnect, ResetReceive
<1>2. /\ ~client /\ ~th /\ ~receiving
      /\ toService = <<>> /\ toClient = <<>> /\ remote = {}
      /\ ToSet(toService) = {} /\ ToSet(toClient) = {}
  BY <1>1, EmptyLemma DEF IInv, ReconnectExclusive, LinkDown
<1>3. IdsKnown' /\ QueueShape' /\ TimerShape'
  BY <1>1 DEF IInv, IdsKnown, QueueShape, Queued, TimerShape
<1>4. CASE /\ client' = TRUE /\ ReconnectDone /\ th' = (th \/ pending # <<>>)
           /\ UNCHANGED linkVars
  <2>1. TypeOK'
    BY <1>1, <1>4 DEF IInv, TypeOK, ReconnectDone, linkVars
  <2>2. LinkDown' /\ HandleState' /\ ReconnectExclusive' /\ NoLostWakeup'
    BY <1>1, <1>4 DEF IInv, LinkDown, HandleState, ReconnectExclusive,
                      NoLostWakeup, ReconnectDone
  <2>3. LinkShape'
    BY <1>1, <1>2, <1>4 DEF LinkShape, linkVars
  <2> QED
    BY <1>3, <2>1, <2>2, <2>3 DEF IInv
<1>5. CASE DoDisconnect
  <2>1. /\ client' = FALSE /\ th' = FALSE /\ reconnect_task' = TRUE
        /\ toService' = <<>> /\ toClient' = <<>> /\ remote' = {}
        /\ receiving' = FALSE
        /\ toService' \in Seq(Message) /\ toClient' \in Seq(Incoming)
        /\ ToSet(toService') = {} /\ ToSet(toClient') = {}
    BY <1>5, DoDisconnectLemma
  <2>2. TypeOK'
    BY <1>1, <2>1 DEF IInv, TypeOK
  <2>3. LinkDown' /\ HandleState' /\ ReconnectExclusive' /\ NoLostWakeup'
    BY <1>1, <2>1 DEF IInv, LinkDown, HandleState, ReconnectExclusive,
                      NoLostWakeup
  <2>4. LinkShape'
    BY <2>1 DEF LinkShape
  <2> QED
    BY <1>3, <2>2, <2>3, <2>4 DEF IInv
<1>6. CASE ReconnectDone /\ UNCHANGED <<client, th, linkVars>>
  <2>1. TypeOK'
    BY <1>1, <1>6 DEF IInv, TypeOK, ReconnectDone, linkVars
  <2>2. LinkDown' /\ HandleState' /\ ReconnectExclusive' /\ NoLostWakeup'
    BY <1>1, <1>2, <1>6 DEF IInv, LinkDown, HandleState, ReconnectExclusive,
                      NoLostWakeup, ReconnectDone, linkVars
  <2>3. LinkShape'
    BY <1>1, <1>2, <1>6 DEF LinkShape, linkVars
  <2> QED
    BY <1>3, <2>1, <2>2, <2>3 DEF IInv
<1> QED
  BY <1>4, <1>5, <1>6 DEF Reconnect

\* transmit_pending, when it writes the head of the queue
LEMMA TransmitInv == IInv /\ Transmit => IInv'
<1> SUFFICES ASSUME IInv, Transmit PROVE IInv'
  OBVIOUS
<1> DEFINE m == Head(pending)
           out == Append(toService, m)
<1>1. /\ client /\ th /\ pending # <<>> /\ pending' = Tail(pending)
      /\ cont' \subseteq cont
      /\ timers' = timers \ {m.id}
      /\ hasPending' = IF m.kind = "publish" THEN hasPending
                                             ELSE hasPending \ {m.id}
      /\ UNCHANGED <<handle, subscribed, uid_gen, subs, unsubscribing,
                     freed, released, undefined>>
  BY DEF Transmit, ClearCont, CancelTimer
<1>2. /\ m \in Message /\ m.id \in Req /\ m = Msg(m.kind, m.id) /\ m.kind \in Kind
      /\ pending' \in Seq(Message) /\ IsInjective(pending')
      /\ ToSet(pending) = ToSet(pending') \union {m}
      /\ m \notin ToSet(pending')
  <2>1. pending \in Seq(Message) /\ IsInjective(pending)
    BY DEF IInv, TypeOK, QueueShape
  <2>2. m \in Message
    BY <1>1, <2>1, TailLemma
  <2>3. /\ pending' \in Seq(Message) /\ IsInjective(pending')
        /\ ToSet(pending) = ToSet(pending') \union {m}
        /\ m \notin ToSet(pending')
    BY <1>1, <2>1, TailLemma
  <2> HIDE DEF m
  <2> QED
    BY <2>2, <2>3, MsgLemma
<1>3. out \in Seq(Message) /\ ToSet(out) = ToSet(toService) \union {m}
  <2>1. toService \in Seq(Message)
    BY DEF IInv, TypeOK
  <2> HIDE DEF m
  <2> QED
    BY <1>2, <2>1, AppendLemma
<1>4. in_receive' \in BOOLEAN
  BY DEF Transmit, WaitForResponse, IInv, TypeOK
<1>5. /\ client' \in BOOLEAN /\ th' \in BOOLEAN
      /\ reconnect_task' \in BOOLEAN /\ receiving' \in BOOLEAN
      /\ toService' \in Seq(Message) /\ toClient' \in Seq(Incoming)
      /\ remote' \in SUBSET remote
      /\ LinkDown'
      /\ ReconnectExclusive'
      /\ client' /\ pending' # <<>> => th'
      /\ ToSet(toService') \subseteq ToSet(out)
      /\ ToSet(toClient') \subseteq ToSet(toClient)
  <2>1. \/ /\ th' = (FALSE \/ NeedsRequest(FALSE, pending'))
           /\ toService' = out
           /\ receiving' = (receiving \/ in_receive' # in_receive)
           /\ UNCHANGED <<client, reconnect_task, toClient, remote>>
        \/ DoDisconnect
    BY DEF Transmit, ProcessPending
  <2> HIDE DEF m, out
  <2>2. CASE /\ th' = (FALSE \/ NeedsRequest(FALSE, pending'))
             /\ toService' = out
             /\ receiving' = (receiving \/ in_receive' # in_receive)
             /\ UNCHANGED <<client, reconnect_task, toClient, remote>>
    BY <1>1, <1>3, <1>4, <2>2
       DEF IInv, TypeOK, LinkDown, ReconnectExclusive, NeedsRequest
  <2>3. CASE DoDisconnect
    BY <2>3, DoDisconnectLemma DEF LinkDown, ReconnectExclusive
  <2> QED
    BY <2>1, <2>2, <2>3
<1>6. told' \in [Req -> Seq({"ok", "no"})]
  <2>1. CASE m.kind = "subscribe"
    <3>1. Tell(m.id, "ok")
      BY <2>1 DEF Transmit
    <3> HIDE DEF m
    <3> QED
      BY <1>2, <3>1, TellLemma DEF IInv
  <2>2. CASE m.kind # "subscribe"
    BY <2>2 DEF Transmit, IInv, TypeOK
  <2> QED
    BY <2>1, <2>2
<1> HIDE DEF m, out
<1>7. \A n \in ToSet(pending) :
         /\ n = Msg(n.kind, n.id) /\ n.kind \in Kind
         /\ n.id \in hasPending \ freed
         /\ n.kind = "publish" <=> n.id \notin subs
         /\ n.kind = "unsubscribe" <=> n.id \in unsubscribing
  BY ElementTypes, MsgLemma DEF IInv, QueueShape
<1>8. \A n \in ToSet(pending') : n.id # m.id /\ n \in ToSet(pending)
  BY <1>2, <1>7 DEF Kind
<1>9. TypeOK'
  BY <1>1, <1>2, <1>4, <1>5, <1>6 DEF IInv, TypeOK
<1>10. HandleState' /\ NoLostWakeup'
  BY <1>1, <1>5 DEF IInv, HandleState, NoLostWakeup
<1>11. IdsKnown'
  BY <1>1 DEF IInv, IdsKnown
<1>12. QueueShape'
  <2>1. \A n \in ToSet(pending') :
           /\ n.id \in hasPending' \ freed'
           /\ n.kind = "publish" <=> n.id \notin subs'
           /\ n.kind = "unsubscribe" <=> n.id \in unsubscribing'
    BY <1>1, <1>7, <1>8
  <2>2. ASSUME NEW id \in (hasPending' \intersect subs') \ freed' PROVE Queued(id)'
    <3>1. id \in (hasPending \intersect subs) \ freed /\ id # m.id
      BY <1>1, <1>2, <1>7
    <3>2. PICK n \in ToSet(pending) : n.id = id
      BY <3>1 DEF IInv, QueueShape, Queued
    <3> QED
      BY <1>2, <3>1, <3>2 DEF Queued
  <2> QED
    BY <1>2, <2>1, <2>2 DEF QueueShape
<1>13. TimerShape'
  BY <1>1, <1>2, <1>8 DEF IInv, TimerShape
<1>14. LinkShape'
  <2>1. m.kind = "unsubscribe" => m.id \in unsubscribing' \ hasPending'
    BY <1>1, <1>2, <1>7
  <2> QED
    BY <1>1, <1>3, <1>5, <2>1 DEF IInv, LinkShape
<1> QED
  BY <1>5, <1>9, <1>10, <1>11, <1>12, <1>13, <1>14 DEF IInv

\* transmit_pending, when there is nothing left to write
LEMMA TransmitEmptyInv == IInv /\ TransmitEmpty => IInv'
<1> SUFFICES ASSUME IInv, TransmitEmpty PROVE IInv'
  OBVIOUS
<1> USE DEF TransmitEmpty, reqVars, appVars, linkVars
<1>1. TypeOK'
  BY DEF IInv, TypeOK
<1>2. LinkDown' /\ HandleState' /\ ReconnectExclusive' /\ NoLostWakeup'
  BY DEF IInv, LinkDown, HandleState, ReconnectExclusive, NoLostWakeup
<1>3. IdsKnown' /\ QueueShape' /\ TimerShape' /\ LinkShape'
  BY DEF IInv, IdsKnown, QueueShape, Queued, TimerShape, LinkShape
<1> QED
  BY <1>1, <1>2, <1>3 DEF IInv

\* transmit_pending, when the buffer is too small for the head
LEMMA TransmitShortInv == IInv /\ TransmitShort => IInv'
<1> SUFFICES ASSUME IInv, TransmitShort PROVE IInv'
  OBVIOUS
<1> USE DEF TransmitShort, reqVars, appVars
<1>1. /\ client /\ th /\ pending # <<>> /\ in_receive' = in_receive
      /\ UNCHANGED <<handle, pending, subscribed, reqVars, appVars, undefined>>
  OBVIOUS
<1>2. CASE /\ th' = (FALSE \/ NeedsRequest(FALSE, pending))
           /\ toService' = toService /\ receiving' = receiving
           /\ UNCHANGED <<client, reconnect_task, toClient, remote>>
  <2>1. th' = TRUE
    BY <1>1, <1>2 DEF NeedsRequest
  <2>2. TypeOK'
    BY <1>1, <1>2, <2>1 DEF IInv, TypeOK
  <2>3. LinkDown' /\ HandleState' /\ ReconnectExclusive' /\ NoLostWakeup'
    BY <1>1, <1>2, <2>1 DEF IInv, LinkDown, HandleState, ReconnectExclusive,
                            NoLostWakeup
  <2>4. IdsKnown' /\ QueueShape' /\ TimerShape' /\ LinkShape'
    BY <1>1, <1>2 DEF IInv, IdsKnown, QueueShape, Queued, TimerShape, LinkShape
  <2> QED
    BY <2>2, <2>3, <2>4 DEF IInv
<1>3. CASE DoDisconnect
  <2>1. in_receive' \in BOOLEAN
    BY DEF IInv, TypeOK
  <2> QED
    BY <1>1, <1>3, <2>1, ConnectionLostLemma
<1> QED
  BY <1>2, <1>3 DEF ProcessPending

\* transmit_pending without a buffer, and a receive that reports NULL
LEMMA ConnectionFailsInv == IInv /\ (TransmitFail \/ ReceiveNull) => IInv'
<1> SUFFICES ASSUME IInv, TransmitFail \/ ReceiveNull PROVE IInv'
  OBVIOUS
<1>1. /\ client /\ DoDisconnect /\ in_receive' = in_receive
      /\ UNCHANGED <<handle, pending, subscribed, reqVars, appVars, undefined>>
  BY DEF TransmitFail, ReceiveNull
<1>2. in_receive' \in BOOLEAN
  BY <1>1 DEF IInv, TypeOK
<1> QED
  BY <1>1, <1>2, ConnectionLostLemma

\* Reading a message off the link
LEMMA ReceivingLemma ==
    ASSUME IInv, NEW k, NEW id, Receiving(k, id)
    PROVE  /\ client /\ receiving
           /\ Msg(k, id) \in ToSet(toClient)
           /\ Tail(toClient) \in Seq(Incoming)
           /\ ToSet(Tail(toClient)) \subseteq ToSet(toClient)
<1>1. toClient \in Seq(Incoming) /\ toClient # <<>> /\ Head(toClient) = Msg(k, id)
  BY DEF Receiving, IInv, TypeOK
<1>2. /\ Tail(toClient) \in Seq(Incoming)
      /\ ToSet(toClient) = ToSet(Tail(toClient)) \union {Head(toClient)}
  BY <1>1, TailLemma
<1> QED
  BY <1>1, <1>2 DEF Receiving

\* process_incoming_publish_message
LEMMA ReceivePublishInv ==
    ASSUME IInv, NEW id \in Req, ReceivePublish(id)
    PROVE  IInv'
<1> USE DEF reqVars, appVars
<1>1. /\ client /\ receiving
      /\ Tail(toClient) \in Seq(Incoming)
      /\ ToSet(Tail(toClient)) \subseteq ToSet(toClient)
  BY ReceivingLemma DEF ReceivePublish
<1>2. /\ in_receive' = in_receive
      /\ UNCHANGED <<handle, pending, subscribed, reqVars, appVars, undefined>>
  BY DEF ReceivePublish
<1>3. CASE /\ toClient' = Tail(toClient)
           /\ UNCHANGED <<client, th, reconnect_task, toService, remote, receiving>>
  <2>1. TypeOK'
    BY <1>1, <1>2, <1>3 DEF IInv, TypeOK
  <2>2. LinkDown' /\ HandleState' /\ ReconnectExclusive' /\ NoLostWakeup'
    BY <1>1, <1>2, <1>3 DEF IInv, LinkDown, HandleState, ReconnectExclusive,
                            NoLostWakeup
  <2>3. IdsKnown' /\ QueueShape' /\ TimerShape'
    BY <1>2 DEF IInv, IdsKnown, QueueShape, Queued, TimerShape
  <2>4. LinkShape'
    BY <1>1, <1>2, <1>3 DEF IInv, LinkShape
  <2> QED
    BY <2>1, <2>2, <2>3, <2>4 DEF IInv
<1>4. CASE DoDisconnect
  <2>1. in_receive' \in BOOLEAN
    BY <1>2 DEF IInv, TypeOK
  <2> QED
    BY <1>1, <1>2, <1>4, <2>1, ConnectionLostLemma
<1> QED
  BY <1>3, <1>4 DEF ReceivePublish

(***************************************************************************)
(* process_unsubscribe_ack.  That the freed handle owns no message and no  *)
(* timer follows from LinkShape and TimerShape.                            *)
(***************************************************************************)
LEMMA ReceiveAckInv ==
    ASSUME IInv, NEW id \in Req, ReceiveAck(id)
    PROVE  IInv'
<1>1. /\ client /\ receiving
      /\ Msg("ack", id) \in ToSet(toClient)
      /\ Tail(toClient) \in Seq(Incoming)
      /\ ToSet(Tail(toClient)) \subseteq ToSet(toClient)
  BY ReceivingLemma DEF ReceiveAck
<1>2. Msg("ack", id).kind = "ack" /\ Msg("ack", id).id = id
  BY DEF Msg
<1>3. id \in unsubscribing \ hasPending
  BY <1>1, <1>2 DEF IInv, LinkShape
<1>4. \A m \in ToSet(pending) : m.id # id
  BY <1>3 DEF IInv, QueueShape
<1>5. handle = "open"
  BY <1>1 DEF IInv, HandleState
<1>6. id \notin timers
  BY <1>4, <1>5 DEF IInv, TimerShape
<1>7. /\ in_receive' = in_receive
      /\ UNCHANGED <<handle, pending, uid_gen, subs, unsubscribing, cont, timers,
                     hasPending, appVars, undefined>>
  BY DEF ReceiveAck
<1>8. CASE /\ id \in ToSet(subscribed)
           /\ subscribed' = UnlinkFound(id)
           /\ freed' = freed \union {id}
           /\ toClient' = Tail(toClient)
           /\ UNCHANGED <<client, th, reconnect_task, toService, remote, receiving>>
  <2>1. /\ subscribed' \in Seq(Req) /\ IsInjective(subscribed')
        /\ ToSet(subscribed') = ToSet(subscribed) \ {id}
    BY <1>8, UnlinkLemma DEF UnlinkFound, IInv, TypeOK, IdsKnown
  <2>2. TypeOK'
    BY <1>1, <1>7, <1>8, <2>1 DEF IInv, TypeOK, appVars
  <2>3. LinkDown' /\ HandleState' /\ ReconnectExclusive' /\ NoLostWakeup'
    BY <1>1, <1>7, <1>8 DEF IInv, LinkDown, HandleState, ReconnectExclusive,
                            NoLostWakeup
  <2>4. IdsKnown'
    BY <1>3, <1>6, <1>7, <1>8, <2>1 DEF IInv, IdsKnown, appVars
  <2>5. QueueShape' /\ TimerShape'
    BY <1>4, <1>7, <1>8 DEF IInv, QueueShape, Queued, TimerShape
  <2>6. LinkShape'
    BY <1>1, <1>7, <1>8 DEF IInv, LinkShape
  <2> QED
    BY <2>2, <2>3, <2>4, <2>5, <2>6 DEF IInv
<1>9. CASE DoDisconnect /\ UNCHANGED <<subscribed, freed>>
  <2>1. in_receive' \in BOOLEAN
    BY <1>7 DEF IInv, TypeOK
  <2>2. UNCHANGED <<handle, pending, subscribed, reqVars, appVars, undefined>>
    BY <1>7, <1>9 DEF reqVars
  <2> QED
    BY <1>1, <1>9, <2>1, <2>2, ConnectionLostLemma
<1> QED
  BY <1>8, <1>9 DEF ReceiveAck

\* The service reads a message
LEMMA ServiceReadInv == IInv /\ (ServiceRead \/ ServiceReadStale) => IInv'
<1> SUFFICES ASSUME IInv, ServiceRead \/ ServiceReadStale PROVE IInv'
  OBVIOUS
<1> DEFINE m == Head(toService)
<1> USE DEF reqVars, appVars, connVars
<1>1. /\ toService # <<>> /\ toService' = Tail(toService)
      /\ remote' \in {remote \union {m.id}, remote \ {m.id}, remote}
      /\ toClient' = IF m.kind = "unsubscribe"
                     THEN Append(toClient, Msg("ack", m.id)) ELSE toClient
      /\ UNCHANGED <<handle, connVars, pending, subscribed, reqVars, appVars,
                     receiving, undefined>>
  <2>1. CASE ServiceRead
    <3>1. m \in Message
      BY <2>1, TailLemma DEF ServiceRead, IInv, TypeOK
    <3>2. m.kind \in {"publish", "subscribe", "unsubscribe"}
      BY <3>1, MsgLemma DEF Kind
    <3> QED
      BY <2>1, <3>2 DEF ServiceRead
  <2>2. CASE ServiceReadStale
    BY <2>2 DEF ServiceReadStale, linkVars
  <2> QED
    BY <2>1, <2>2
<1>2. /\ m \in Message /\ m.id \in Req /\ m \in ToSet(toService)
      /\ toService' \in Seq(Message) /\ ToSet(toService') \subseteq ToSet(toService)
  BY <1>1, TailLemma, MsgLemma DEF IInv, TypeOK
<1> HIDE DEF m
<1>3. /\ toClient' \in Seq(Incoming)
      /\ \A n \in ToSet(toClient') :
            n.kind = "ack" => \/ n \in ToSet(toClient)
                              \/ m.kind = "unsubscribe" /\ n.id = m.id
  <2> DEFINE a == Msg("ack", m.id)
  <2>1. a \in Incoming /\ a.id = m.id
    BY <1>2, MsgLemma DEF Msg
  <2>2. toClient \in Seq(Incoming)
    BY DEF IInv, TypeOK
  <2> HIDE DEF a
  <2>3. Append(toClient, a) \in Seq(Incoming)
        /\ ToSet(Append(toClient, a)) = ToSet(toClient) \union {a}
    BY <2>1, <2>2, AppendLemma
  <2> QED
    BY <1>1, <2>1, <2>2, <2>3 DEF a
<1>4. client
  BY <1>1 DEF IInv, LinkDown
<1>5. TypeOK'
  BY <1>1, <1>2, <1>3 DEF IInv, TypeOK
<1>6. LinkDown' /\ HandleState' /\ ReconnectExclusive' /\ NoLostWakeup'
  BY <1>1, <1>4 DEF IInv, LinkDown, HandleState, ReconnectExclusive, NoLostWakeup
<1>7. IdsKnown' /\ QueueShape' /\ TimerShape'
  BY <1>1 DEF IInv, IdsKnown, QueueShape, Queued, TimerShape
<1>8. LinkShape'
  <2>1. m.kind = "unsubscribe" => m.id \in unsubscribing \ hasPending
    BY <1>2 DEF IInv, LinkShape
  <2> QED
    BY <1>1, <1>2, <1>3, <2>1 DEF IInv, LinkShape
<1> QED
  BY <1>5, <1>6, <1>7, <1>8 DEF IInv

\* The service delivers the copies of a publication
LEMMA ServicePushInv ==
    ASSUME IInv, NEW n \in 1..MaxIncoming, NEW ids \in [1..n -> remote],
           ServicePush(ids)
    PROVE  IInv'
<1> USE DEF reqVars, appVars, connVars
<1> DEFINE copies == [i \in 1..n |-> Msg("publish", ids[i])]
<1>1. /\ copies \in Seq(Incoming)
      /\ Len(copies) = n
      /\ \A i \in 1..n : copies[i].kind # "ack"
  <2>1. \A i \in 1..n : /\ copies[i] \in Incoming
                        /\ copies[i].kind # "ack"
    BY MsgLemma DEF IInv, TypeOK, Msg
  <2>2. n \in Nat
    BY MaxIncomingAssumption
  <2> QED
    BY <2>1, <2>2
<1>2. /\ remote # {}
      /\ toClient' = toClient \o copies
      /\ UNCHANGED <<handle, connVars, pending, subscribed, reqVars, appVars,
                     toService, remote, receiving, undefined>>
  <2>1. ids[1] \in remote /\ DOMAIN ids = 1..n
    BY MaxIncomingAssumption
  <2> QED
    BY <2>1 DEF ServicePush
<1> HIDE DEF copies
<1>3. /\ toClient' \in Seq(Incoming)
      /\ \A m \in ToSet(toClient') : m.kind = "ack" => m \in ToSet(toClient)
  <2>1. toClient \in Seq(Incoming)
    BY DEF IInv, TypeOK
  <2>2. /\ toClient' \in Seq(Incoming)
        /\ Len(toClient') = Len(toClient) + Len(copies)
        /\ \A i \in 1..Len(toClient') :
              toClient'[i] = IF i <= Len(toClient) THEN toClient[i]
                             ELSE copies[i - Len(toClient)]
    <3>1. /\ toClient \o copies \in Seq(Incoming)
          /\ Len(toClient \o copies) = Len(toClient) + Len(copies)
          /\ \A i \in 1..Len(toClient) + Len(copies) :
                (toClient \o copies)[i] =
                    IF i <= Len(toClient) THEN toClient[i]
                    ELSE copies[i - Len(toClient)]
      BY <1>1, <2>1, ConcatProperties
    <3> QED
      BY <1>2, <3>1
  <2>3. ASSUME NEW i \in 1..Len(toClient'), toClient'[i].kind = "ack"
        PROVE  toClient'[i] \in ToSet(toClient)
    <3>1. CASE i <= Len(toClient)
      BY <2>1, <2>2, <3>1 DEF ToSet
    <3>2. CASE i > Len(toClient)
      <4>1. i - Len(toClient) \in 1..n
        BY <1>1, <2>1, <2>2, <3>2
      <4> QED
        BY <1>1, <2>1, <2>2, <2>3, <3>2, <4>1
    <3> QED
      BY <2>1, <3>1, <3>2
  <2> QED
    BY <2>2, <2>3 DEF ToSet
<1>4. client
  BY <1>2 DEF IInv, LinkDown
<1>5. TypeOK'
  BY <1>2, <1>3 DEF IInv, TypeOK
<1>6. LinkDown' /\ HandleState' /\ ReconnectExclusive' /\ NoLostWakeup'
  BY <1>2, <1>4 DEF IInv, LinkDown, HandleState, ReconnectExclusive, NoLostWakeup
<1>7. IdsKnown' /\ QueueShape' /\ TimerShape'
  BY <1>2 DEF IInv, IdsKnown, QueueShape, Queued, TimerShape
<1>8. LinkShape'
  BY <1>2, <1>3 DEF IInv, LinkShape
<1> QED
  BY <1>5, <1>6, <1>7, <1>8 DEF IInv

-----------------------------------------------------------------------------
(***************************************************************************)
(* The invariance theorems.                                                *)
(***************************************************************************)

LEMMA InitInv == Init => IInv
<1> SUFFICES ASSUME Init PROVE IInv
  OBVIOUS
<1> USE EmptyLemma DEF Init
<1>1. TypeOK
  <2>1. <<>> \in Seq(Message) /\ <<>> \in Seq(Incoming) /\ <<>> \in Seq(Req)
        /\ <<>> \in Seq({"ok", "no"})
    BY EmptyLemma
  <2>2. uid_gen \in 0..MaxRequests
    BY MaxRequestsAssumption
  <2> QED
    BY <2>1, <2>2 DEF TypeOK
<1>2. LinkDown /\ HandleState /\ ReconnectExclusive /\ NoLostWakeup
  BY DEF LinkDown, HandleState, ReconnectExclusive, NoLostWakeup
<1>3. IdsKnown /\ QueueShape /\ TimerShape /\ LinkShape
  BY DEF IdsKnown, QueueShape, TimerShape, LinkShape
<1> QED
  BY <1>1, <1>2, <1>3 DEF IInv

LEMMA StutterInv == IInv /\ UNCHANGED vars => IInv'
<1> SUFFICES ASSUME IInv, UNCHANGED vars PROVE IInv'
  OBVIOUS
<1> USE DEF vars, connVars, reqVars, appVars, linkVars
<1>1. TypeOK'
  BY DEF IInv, TypeOK
<1>2. LinkDown' /\ HandleState' /\ ReconnectExclusive' /\ NoLostWakeup'
  BY DEF IInv, LinkDown, HandleState, ReconnectExclusive, NoLostWakeup
<1>3. IdsKnown' /\ QueueShape'
  BY DEF IInv, IdsKnown, QueueShape, Queued
<1>4. TimerShape' /\ LinkShape'
  BY DEF IInv, TimerShape, LinkShape
<1> QED
  BY <1>1, <1>2, <1>3, <1>4 DEF IInv

LEMMA NextInv == IInv /\ [Next]_vars => IInv'
<1> SUFFICES ASSUME IInv, [Next]_vars PROVE IInv'
  OBVIOUS
<1>1. ASSUME Undefined PROVE IInv'
  BY <1>1, UndefinedInv
<1>2. CASE Application
  <2>1. CASE Connect
    BY <2>1, ConnectInv
  <2>2. CASE \E withCont \in BOOLEAN : Publish(withCont)
    BY <2>2, PublishInv
  <2>3. CASE \E withCont \in BOOLEAN : Subscribe(withCont)
    BY <2>3, SubscribeInv
  <2>4. CASE SubscribeAfterFreed
    BY <1>1, <2>4 DEF SubscribeAfterFreed
  <2>5. CASE \E id \in Req : PublishCancel(id)
    BY <2>5, PublishCancelInv
  <2>6. CASE \E id \in Req : PublishCancelDangling(id) \/ UnsubscribeFreed(id)
    BY <1>1, <2>6 DEF PublishCancelDangling, UnsubscribeFreed
  <2>7. CASE \E id \in Req : Withdraw(id)
    BY <2>7, WithdrawInv
  <2>8. CASE \E id \in Req : Unsubscribe(id)
    BY <2>8, UnsubscribeInv
  <2>9. CASE Disconnect
    BY <2>9, DisconnectInv
  <2> QED
    BY <1>2, <2>1, <2>2, <2>3, <2>4, <2>5, <2>6, <2>7, <2>8, <2>9 DEF Application
<1>3. CASE Tasks
  <2>1. CASE \E id \in Req : PublishTimeout(id)
    BY <2>1, PublishTimeoutInv
  <2>2. CASE \E id \in Req : PublishTimeoutAfterDisconnect(id)
    BY <1>1, <2>2 DEF PublishTimeoutAfterDisconnect
  <2>3. CASE \E id \in Req : SubscribeTimeout(id)
    BY <2>3, SubscribeTimeoutInv
  <2>4. CASE Reconnect
    BY <2>4, ReconnectInv
  <2>5. CASE ReconnectAfterDisconnect
    BY <1>1, <2>5 DEF ReconnectAfterDisconnect
  <2> QED
    BY <1>3, <2>1, <2>2, <2>3, <2>4, <2>5 DEF Tasks
<1>4. CASE Transmission
  <2>1. CASE TransmitPastEnd \/ TransmitRefused
    BY <1>1, <2>1 DEF TransmitPastEnd, TransmitRefused
  <2> QED
    BY <1>4, <2>1, TransmitInv, TransmitEmptyInv, TransmitShortInv,
       ConnectionFailsInv DEF Transmission
<1>5. CASE Reception
  <2>1. CASE \E id \in Req : ReceiveOverFreed(id)
    BY <1>1, <2>1 DEF ReceiveOverFreed
  <2>2. CASE \E id \in Req : ReceivePublish(id)
    BY <2>2, ReceivePublishInv
  <2>3. CASE \E id \in Req : ReceiveAck(id)
    BY <2>3, ReceiveAckInv
  <2> QED
    BY <1>5, <2>1, <2>2, <2>3, ConnectionFailsInv DEF Reception
<1>6. CASE Service
  <2>1. CASE \E n \in 1..MaxIncoming : \E ids \in [1..n -> remote] :
                ServicePush(ids)
    BY <2>1, ServicePushInv
  <2> QED
    BY <1>6, <2>1, ServiceReadInv DEF Service
<1>7. CASE UNCHANGED vars
  BY <1>7, StutterInv
<1> QED
  BY <1>2, <1>3, <1>4, <1>5, <1>6, <1>7 DEF Next

THEOREM Invariance == Spec => []IInv
BY InitInv, NextInv, PTL DEF Spec

\* Every variable keeps its type.
THEOREM TypeCorrect == Spec => []TypeOK
<1>1. IInv => TypeOK
  BY DEF IInv
<1> QED
  BY <1>1, Invariance, PTL

(***************************************************************************)
(* The assertion of do_disconnect holds whenever it is evaluated: a        *)
(* connected handle never has a reconnection scheduled.                    *)
(***************************************************************************)
THEOREM AssertionHolds == Spec => []ReconnectExclusive
<1>1. IInv => ReconnectExclusive
  BY DEF IInv
<1> QED
  BY <1>1, Invariance, PTL

\* A queued message on a live connection always has a request outstanding.
THEOREM NoWakeupIsLost == Spec => []NoLostWakeup
<1>1. IInv => NoLostWakeup
  BY DEF IInv
<1> QED
  BY <1>1, Invariance, PTL

(***************************************************************************)
(* Every queued message belongs to one live request that points back at    *)
(* it, so process_pending_messages, the timeouts and the cancellations     *)
(* work on messages that exist.                                            *)
(***************************************************************************)
THEOREM QueueIsOwned == Spec => []QueueOwned
<1>1. ASSUME IInv PROVE QueueOwned
  <2>1. \A m, n \in ToSet(pending) : m.id = n.id => m = n
    <3>1. \A m \in ToSet(pending) : m = Msg(m.kind, m.id) /\ m.kind \in Kind
      BY <1>1, ElementTypes, MsgLemma DEF IInv
    <3> QED
      BY <1>1, <3>1 DEF IInv, QueueShape, Kind
  <2>2. \A i \in DOMAIN pending : pending[i] \in ToSet(pending)
    BY DEF ToSet
  <2>3. \A i, j \in DOMAIN pending : pending[i].id = pending[j].id => i = j
    BY <1>1, <2>1, <2>2 DEF IInv, QueueShape, IsInjective
  <2> QED
    BY <1>1, <2>3 DEF IInv, QueueShape, QueueOwned
<1> QED
  BY <1>1, Invariance, PTL

\* While the handle is open, the timers are those of the queued requests.
THEOREM TimersAreOwned == Spec => []TimerOwned
<1>1. ASSUME IInv PROVE TimerOwned
  <2>1. timers \subseteq Req
    BY <1>1 DEF IInv, TypeOK
  <2> QED
    BY <1>1, <2>1 DEF IInv, TimerShape, TimerOwned
<1> QED
  BY <1>1, Invariance, PTL
=============================================================================
