-------------------------- MODULE MqttApiRequestProofs --------------------------
(***************************************************************************)
(* What becomes of each request of the application: that the client        *)
(* library implements the contract of MqttRequests, calls a continuation   *)
(* once and keeps back what was taken back, proved for every number of     *)
(* requests and every set of environment events.                           *)
(*                                                                         *)
(* The proofs are about the effects a step has on requests; the queue and  *)
(* the connection are gone once EffectLemma has shown that every step of   *)
(* the library has one of these effects.                                   *)
(***************************************************************************)
EXTENDS MqttApiRefinement, MqttApiProofs

-----------------------------------------------------------------------------
(* The effects *)

Made(id) ==
    /\ handle = "open" /\ handle' = handle
    /\ id \in Req /\ id = uid_gen + 1 /\ uid_gen' = id
    /\ Waiting' = Waiting \union {id}
    /\ timers' = timers \union {id}
    /\ subs' \in {subs, subs \union {id}}
    /\ cont' \in {cont, cont \union {id}}
    /\ UNCHANGED <<unsubscribing, freed, told, released>>

TakenOut(id) ==
    /\ handle = "open" /\ handle' = handle
    /\ id \in Waiting
    /\ Waiting' = Waiting \ {id}
    /\ timers' = timers \ {id}
    /\ UNCHANGED <<uid_gen, subs, unsubscribing>>

Taken(id) ==
    /\ TakenOut(id)
    /\ released' = released \union {id}
    /\ UNCHANGED <<cont, freed, told>>

Expired(id) ==
    /\ TakenOut(id)
    /\ Tell(id, "no")
    /\ freed' = freed \union {id}
    /\ UNCHANGED <<cont, released>>

Sent(id) ==
    /\ TakenOut(id)
    /\ IF id \in subs THEN Tell(id, "ok") /\ cont' = cont \ {id}
                      ELSE UNCHANGED <<told, cont>>
    /\ UNCHANGED <<freed, released>>

\* A timer fires after GNUNET_MQTT_disconnect.
ExpiredLate(id) ==
    /\ handle = "freed" /\ handle' = handle
    /\ id \in timers \intersect subs
    /\ timers' = timers \ {id}
    /\ Tell(id, "no")
    /\ freed' = freed \union {id}
    /\ Waiting' = Waiting
    /\ UNCHANGED <<uid_gen, subs, unsubscribing, cont, released>>

Left(id) ==
    /\ handle = "open" /\ handle' = handle
    /\ id \in subs \ (released \union freed \union Waiting)
    /\ released' = released \union {id}
    /\ unsubscribing' = unsubscribing \union {id}
    /\ Waiting' = Waiting
    /\ UNCHANGED <<uid_gen, subs, cont, timers, freed, told>>

Ended(id) ==
    /\ handle = "open" /\ handle' = handle
    /\ id \in unsubscribing \ Waiting
    /\ freed' = freed \union {id}
    /\ Waiting' = Waiting
    /\ UNCHANGED <<uid_gen, subs, unsubscribing, cont, timers, told, released>>

\* What GNUNET_MQTT_disconnect tells "ok"
Gone == cont \intersect subs \intersect Waiting

Closed ==
    /\ handle = "open" /\ handle' = "freed"
    /\ Waiting' = {}
    /\ told' = [id \in Req |-> IF id \in Gone THEN Append(told[id], "ok")
                                              ELSE told[id]]
    /\ cont' = cont \ Gone
    /\ UNCHANGED <<uid_gen, subs, unsubscribing, timers, freed, released>>

Idle ==
    /\ handle' = handle \/ handle = "unset"
    /\ Waiting' = Waiting
    /\ UNCHANGED <<uid_gen, subs, unsubscribing, cont, timers, freed, told,
                   released>>

Effect ==
    \/ \E id \in Req : \/ Made(id) \/ Taken(id) \/ Expired(id) \/ Sent(id)
                       \/ ExpiredLate(id) \/ Left(id) \/ Ended(id)
    \/ Closed
    \/ Idle

-----------------------------------------------------------------------------
(* Every step has an effect *)

\* What the queue says of the requests in it
LEMMA WaitingLemma ==
    ASSUME IInv
    PROVE  /\ Waiting \subseteq Req
           /\ Waiting \subseteq 1..uid_gen
           /\ Waiting \intersect (unsubscribing \union freed) = {}
           /\ Waiting \subseteq hasPending
           /\ handle = "open" => timers = Waiting
           /\ handle # "open" => Waiting = {}
           /\ \A m, n \in ToSet(pending) : m.id = n.id => m = n
<1>1. \A m \in ToSet(pending) :
         /\ m = Msg(m.kind, m.id) /\ m.kind \in Kind /\ m.id \in Req
         /\ m.id \in hasPending \ freed
         /\ m.kind = "publish" <=> m.id \notin subs
         /\ m.kind = "unsubscribe" <=> m.id \in unsubscribing
  BY ElementTypes, MsgLemma DEF IInv, QueueShape
<1>2. hasPending \subseteq 1..uid_gen
  BY DEF IInv, IdsKnown
<1>3. handle = "open" => timers = Waiting
  BY DEF IInv, TimerShape, Waiting
<1>4. handle # "open" => ToSet(pending) = {}
  BY EmptyLemma DEF IInv, HandleState
<1> QED
  BY <1>1, <1>2, <1>3, <1>4 DEF Waiting, Kind

\* A queued message that is no UNSUBSCRIBE leaves the queue.
LEMMA OutLemma ==
    ASSUME IInv, NEW m \in ToSet(pending), m.kind # "unsubscribe",
           ToSet(pending') = ToSet(pending) \ {m}
    PROVE  m.id \in Waiting /\ Waiting' = Waiting \ {m.id}
BY WaitingLemma DEF Waiting

\* A message of that kind enters it.
LEMMA InLemma ==
    ASSUME NEW m, ToSet(pending') = ToSet(pending) \union {m}
    PROVE  Waiting' = IF m.kind = "unsubscribe" THEN Waiting
                                                ELSE Waiting \union {m.id}
BY DEF Waiting

LEMMA MadeLemma ==
    ASSUME IInv, NEW withCont \in BOOLEAN,
           Publish(withCont) \/ Subscribe(withCont)
    PROVE  Made(uid_gen + 1)
<1>1. PICK k \in {"publish", "subscribe"} :
         /\ uid_gen < MaxRequests /\ uid_gen' = uid_gen + 1
         /\ pending' = Cons(Msg(k, uid_gen'), pending)
  BY DEF Publish, Subscribe
<1>2. k \in Kind
  BY DEF Kind
<1> DEFINE m == Msg(k, uid_gen')
<1>3. /\ uid_gen' \in Req
      /\ m.kind = k /\ m.id = uid_gen'
      /\ ToSet(pending') = ToSet(pending) \union {m}
  BY <1>1, <1>2, NewRequestLemma
<1> HIDE DEF m
<1>4. Waiting' = Waiting \union {uid_gen'}
  BY <1>3, InLemma
<1> QED
  BY <1>1, <1>3, <1>4 DEF Made, Publish, Subscribe, appVars

LEMMA TakenLemma ==
    ASSUME IInv, NEW id \in Req, PublishCancel(id) \/ Withdraw(id)
    PROVE  Taken(id)
<1>1. PICK k \in {"publish", "subscribe"} :
         /\ handle = "open"
         /\ pending' = Dequeue(Msg(k, id))
         /\ Msg(k, id) \in ToSet(pending)
  BY QueuedMessageLemma DEF PublishCancel, MayCancel, Withdraw, StillQueued,
                                MayUnsubscribe
<1> DEFINE m == Msg(k, id)
<1>2. m.kind = k /\ m.id = id
  BY DEF Msg
<1>3. m \in ToSet(pending) /\ ToSet(pending') = ToSet(pending) \ {m}
  BY <1>1, DequeueLemma DEF IInv
<1> HIDE DEF m
<1>4. id \in Waiting /\ Waiting' = Waiting \ {id}
  BY <1>2, <1>3, OutLemma
<1> QED
  BY <1>1, <1>4 DEF Taken, TakenOut, PublishCancel, Withdraw, CancelTimer

LEMMA ExpiredLemma ==
    ASSUME IInv, NEW id \in Req, PublishTimeout(id) \/ SubscribeTimeout(id),
           handle = "open"
    PROVE  Expired(id)
<1>1. id \in timers \intersect subs => Msg("subscribe", id) \in ToSet(pending)
  BY QueuedMessageLemma
<1>2. Msg("subscribe", id).id = id
  BY DEF Msg
<1>3. id \in timers \intersect subs => id \in hasPending
  BY <1>1, <1>2 DEF IInv, QueueShape
<1>4. PICK k \in {"publish", "subscribe"} :
         /\ pending' = Dequeue(Msg(k, id))
         /\ Msg(k, id) \in ToSet(pending)
  BY <1>1, <1>3, QueuedMessageLemma DEF PublishTimeout, SubscribeTimeout
<1> DEFINE m == Msg(k, id)
<1>5. m.kind = k /\ m.id = id
  BY DEF Msg
<1>6. m \in ToSet(pending) /\ ToSet(pending') = ToSet(pending) \ {m}
  BY <1>4, DequeueLemma DEF IInv
<1> HIDE DEF m
<1>7. id \in Waiting /\ Waiting' = Waiting \ {id}
  BY <1>5, <1>6, OutLemma
<1> QED
  BY <1>7 DEF Expired, TakenOut, PublishTimeout, SubscribeTimeout

LEMMA ExpiredLateLemma ==
    ASSUME IInv, NEW id \in Req, SubscribeTimeout(id), handle # "open"
    PROVE  ExpiredLate(id)
<1>1. ToSet(pending) = {} /\ id \in timers \intersect subs
  BY EmptyLemma DEF IInv, HandleState, SubscribeTimeout
<1>2. handle = "freed"
  <2>1. id \in 1..uid_gen
    BY <1>1 DEF IInv, IdsKnown
  <2> QED
    BY <2>1 DEF IInv, TypeOK, HandleState
<1>3. id \notin hasPending
  BY <1>1 DEF IInv, QueueShape, Queued, IdsKnown
<1>4. pending' = pending
  BY <1>3 DEF SubscribeTimeout
<1> QED
  BY <1>1, <1>2, <1>4 DEF ExpiredLate, SubscribeTimeout, Waiting

LEMMA LeftLemma ==
    ASSUME IInv, NEW id \in Req, Unsubscribe(id)
    PROVE  Left(id)
<1> DEFINE m == Msg("unsubscribe", id)
<1>1. m \in Message /\ m.kind = "unsubscribe"
  BY MsgLemma DEF Kind
<1>2. id \notin Waiting /\ \A n \in ToSet(pending) : n.id # id
  BY WaitingLemma DEF Unsubscribe, StillQueued, IInv, QueueShape
<1>3. m \notin ToSet(pending) /\ pending \in Seq(Message) /\ IsInjective(pending)
  BY <1>2 DEF IInv, TypeOK, QueueShape, Msg
<1>4. pending' = Cons(m, pending)
  BY DEF Unsubscribe
<1> HIDE DEF m
<1>5. ToSet(pending') = ToSet(pending) \union {m}
  BY <1>1, <1>3, <1>4, ConsLemma
<1>6. Waiting' = Waiting
  BY <1>1, <1>5, InLemma
<1> QED
  BY <1>2, <1>6 DEF Left, Unsubscribe, MayUnsubscribe

LEMMA TransmitLemma ==
    ASSUME IInv, Transmit
    PROVE  Idle \/ \E id \in Req : Sent(id)
<1> DEFINE m == Head(pending)
<1>1. /\ handle = "open"
      /\ pending # <<>> /\ pending' = Tail(pending)
      /\ timers' = timers \ {m.id}
      /\ IF m.kind = "subscribe" THEN Tell(m.id, "ok") ELSE UNCHANGED told
      /\ cont' = IF m.kind = "subscribe" THEN cont \ {m.id} ELSE cont
      /\ UNCHANGED <<handle, uid_gen, subs, unsubscribing, freed, released>>
  BY DEF Transmit, ClearCont, CancelTimer, IInv, HandleState
<1>2. pending \in Seq(Message) /\ IsInjective(pending)
  BY DEF IInv, TypeOK, QueueShape
<1>3. /\ m \in ToSet(pending)
      /\ ToSet(pending') = ToSet(pending) \ {m}
  BY <1>1, <1>2, TailLemma
<1> HIDE DEF m
<1>4. /\ m.id \in Req /\ m.kind \in Kind
      /\ m.kind = "publish" <=> m.id \notin subs
      /\ m.kind = "unsubscribe" <=> m.id \in unsubscribing
  BY <1>3, ElementTypes, MsgLemma DEF IInv, QueueShape
<1>5. CASE m.kind = "unsubscribe"
  <2>1. Waiting' = Waiting
    BY <1>3, <1>5 DEF Waiting
  <2>2. m.id \notin timers
    BY <1>1, <1>4, <1>5, WaitingLemma
  <2> QED
    BY <1>1, <1>5, <2>1, <2>2 DEF Idle
<1>6. CASE m.kind # "unsubscribe"
  <2>1. m.id \in Waiting /\ Waiting' = Waiting \ {m.id}
    BY <1>3, <1>6, OutLemma
  <2>2. m.kind = "subscribe" <=> m.id \in subs
    BY <1>4, <1>6 DEF Kind
  <2>3. Sent(m.id)
    BY <1>1, <2>1, <2>2 DEF Sent, TakenOut
  <2> QED
    BY <1>4, <2>3
<1> QED
  BY <1>5, <1>6

LEMMA EndedLemma ==
    ASSUME IInv, NEW id \in Req, ReceiveAck(id)
    PROVE  Idle \/ Ended(id)
<1>1. client /\ Msg("ack", id) \in ToSet(toClient)
  BY ReceivingLemma DEF ReceiveAck
<1>2. id \in unsubscribing
  BY <1>1 DEF IInv, LinkShape, Msg
<1>3. id \notin Waiting
  BY <1>2, WaitingLemma
<1>4. handle = "open"
  BY <1>1 DEF IInv, HandleState
<1> QED
  BY <1>2, <1>3, <1>4 DEF ReceiveAck, Idle, Ended, Waiting, appVars

LEMMA ClosedLemma ==
    ASSUME IInv, Disconnect
    PROVE  Closed
<1>1. Waiting' = {}
  <2>1. ToSet(pending') = {}
    BY EmptyLemma DEF Disconnect
  <2> QED
    BY <2>1 DEF Waiting
<1>2. {id \in cont : Msg("subscribe", id) \in ToSet(pending)} = Gone
  <2>1. cont \subseteq Req
    BY DEF IInv, TypeOK
  <2>2. \A m \in ToSet(pending) :
           /\ m = Msg(m.kind, m.id) /\ m.kind \in Kind
           /\ m.kind = "publish" <=> m.id \notin subs
    BY ElementTypes, MsgLemma DEF IInv, QueueShape
  <2>3. \A id \in Req : /\ Msg("subscribe", id).kind = "subscribe"
                        /\ Msg("subscribe", id).id = id
    BY DEF Msg
  <2> QED
    BY <2>1, <2>2, <2>3 DEF Gone, Waiting, Kind
<1> QED
  BY <1>1, <1>2 DEF Disconnect, Closed, ClearCont

LEMMA EffectLemma ==
    ASSUME IInv, [Next]_vars
    PROVE  Effect
<1> USE DEF reqVars, appVars
<1>1. ASSUME UNCHANGED <<handle, pending, reqVars, appVars>> PROVE Effect
  BY <1>1 DEF Effect, Idle, Waiting
<1>2. ASSUME Undefined PROVE Effect
  BY <1>1, <1>2 DEF Undefined
<1>3. CASE Application
  <2>1. CASE Connect
    BY <2>1 DEF Connect, Effect, Idle, Waiting
  <2>2. CASE \E withCont \in BOOLEAN : Publish(withCont) \/ Subscribe(withCont)
    <3>1. Made(uid_gen + 1)
      BY <2>2, MadeLemma
    <3>2. uid_gen + 1 \in Req
      BY <3>1 DEF Made
    <3> QED
      BY <3>1, <3>2 DEF Effect
  <2>3. CASE SubscribeAfterFreed \/ \E id \in Req : PublishCancelDangling(id) \/ UnsubscribeFreed(id)
    BY <1>2, <2>3 DEF SubscribeAfterFreed, PublishCancelDangling, UnsubscribeFreed
  <2>4. CASE \E id \in Req : PublishCancel(id) \/ Withdraw(id)
    BY <2>4, TakenLemma DEF Effect
  <2>5. CASE \E id \in Req : Unsubscribe(id)
    BY <2>5, LeftLemma DEF Effect
  <2>6. CASE Disconnect
    BY <2>6, ClosedLemma DEF Effect
  <2> QED
    BY <1>3, <2>1, <2>2, <2>3, <2>4, <2>5, <2>6 DEF Application
<1>4. CASE Tasks
  <2>1. CASE \E id \in Req : PublishTimeout(id) \/ SubscribeTimeout(id)
    <3>1. PICK id \in Req : PublishTimeout(id) \/ SubscribeTimeout(id)
      BY <2>1
    <3>2. PublishTimeout(id) => handle = "open"
      BY DEF PublishTimeout
    <3>3. Expired(id) \/ ExpiredLate(id)
      BY <3>1, <3>2, ExpiredLemma, ExpiredLateLemma
    <3> QED
      BY <3>3 DEF Effect
  <2>2. CASE ReconnectAfterDisconnect \/ \E id \in Req : PublishTimeoutAfterDisconnect(id)
    BY <1>2, <2>2 DEF ReconnectAfterDisconnect, PublishTimeoutAfterDisconnect
  <2>3. CASE Reconnect
    BY <1>1, <2>3 DEF Reconnect
  <2> QED
    BY <1>4, <2>1, <2>2, <2>3 DEF Tasks
<1>5. CASE Transmission
  <2>1. CASE Transmit
    BY <2>1, TransmitLemma DEF Effect
  <2>2. CASE TransmitPastEnd \/ TransmitRefused
    BY <1>2, <2>2 DEF TransmitPastEnd, TransmitRefused
  <2> QED
    BY <1>1, <1>5, <2>1, <2>2 DEF Transmission, TransmitEmpty, TransmitShort,
                                  TransmitFail
<1>6. CASE Reception
  <2>1. CASE \E id \in Req : ReceiveAck(id)
    BY <2>1, EndedLemma DEF Effect
  <2>2. CASE \E id \in Req : ReceiveOverFreed(id)
    BY <1>2, <2>2 DEF ReceiveOverFreed
  <2> QED
    BY <1>1, <1>6, <2>1, <2>2 DEF Reception, ReceiveNull, ReceivePublish
<1>7. CASE Service
  BY <1>1, <1>7 DEF Service, ServiceRead, ServiceReadStale, ServicePush
<1>8. CASE UNCHANGED vars
  BY <1>1, <1>8 DEF vars
<1> QED
  BY <1>3, <1>4, <1>5, <1>6, <1>7, <1>8 DEF Next
-----------------------------------------------------------------------------
(***************************************************************************)
(* What the queue's invariant does not say: which continuations have been  *)
(* called, and what was taken back.                                        *)
(***************************************************************************)

ToldShape ==
    \A id \in Req :
       /\ Len(told[id]) <= 1
       /\ told[id] # <<>> => id <= uid_gen
       /\ handle = "open" /\ id \in timers => told[id] = <<>>

ClosedShape == handle # "open" => timers \intersect subs \intersect cont = {}

TakenShape == \A id \in Req : TakenBack(id) => id \notin timers \union Waiting

RInv == ToldShape /\ ClosedShape /\ TakenShape

\* A continuation is called with a first result, or there is none.
LEMMA TellOnceLemma ==
    ASSUME TypeOK, NEW id \in Req, NEW result \in {"ok", "no"},
           told[id] = <<>>,
           Tell(id, result)
    PROVE  /\ told' = [x \in Req |-> IF x \in {id} \intersect cont
                                     THEN <<result>> ELSE told[x]]
           /\ \A x \in Req \ {id} : told'[x] = told[x]
           /\ Len(told'[id]) <= 1
<1>1. told = [x \in Req |-> told[x]] /\ DOMAIN told = Req
  BY DEF TypeOK
<1>2. Append(<<>>, result) = <<result>> /\ Len(<<result>>) = 1 /\ Len(<<>>) = 0
  OBVIOUS
<1>3. told' = [x \in Req |-> IF x = id /\ id \in cont THEN Append(told[x], result)
                                                    ELSE told[x]]
  BY <1>1 DEF Tell
<1>4. told' = [x \in Req |-> IF x \in {id} \intersect cont THEN <<result>>
                                                          ELSE told[x]]
  BY <1>2, <1>3
<1>5. \A x \in Req : told'[x] = IF x = id /\ id \in cont THEN <<result>>
                                                          ELSE told[x]
  BY <1>4
<1>6. Len(told'[id]) \in {0, 1}
  BY <1>2, <1>5
<1>7. \A n \in {0, 1} : n <= 1
  OBVIOUS
<1>8. Len(told'[id]) <= 1
  BY <1>6, <1>7
<1> QED
  BY <1>4, <1>5, <1>8

\* It holds before any call.
LEMMA RequestInitInv == Init => RInv
<1> SUFFICES ASSUME Init PROVE RInv
  OBVIOUS
<1>1. \A id \in Req : told[id] = <<>> /\ Len(<<>>) = 0
  BY DEF Init
<1> QED
  BY <1>1 DEF Init, RInv, ToldShape, ClosedShape, TakenShape, TakenBack

\* Every effect preserves it.
LEMMA RequestStepInv ==
    ASSUME IInv, RInv, Effect
    PROVE  RInv'
<1> USE DEF TakenOut
<1>1. /\ uid_gen \in Nat
      /\ \A x \in Req : x > uid_gen =>
            x \notin subs \union cont \union timers \union freed
                \union released \union unsubscribing \union Waiting
      /\ handle = "open" => timers = Waiting
      /\ handle # "open" => Waiting = {}
      /\ handle = "unset" => timers = {} /\ uid_gen = 0
  <2>1. uid_gen \in Nat /\ \A x \in Req : x > uid_gen => x \notin 1..uid_gen
    BY MaxRequestsAssumption DEF IInv, TypeOK, Req
  <2>2. /\ subs \union cont \union timers \union freed \union released
              \union unsubscribing \union Waiting \subseteq 1..uid_gen
        /\ handle = "unset" => uid_gen = 0
    BY WaitingLemma DEF IInv, IdsKnown, HandleState
  <2> QED
    BY <2>1, <2>2, WaitingLemma
<1>2. CASE \E id \in Req : Made(id)
  <2>1. PICK id \in Req : Made(id)
    BY <1>2
  <2>2. id > uid_gen /\ uid_gen' = id
    BY <1>1, <2>1 DEF Made
  <2>3. ToldShape'
    BY <1>1, <2>1, <2>2 DEF Made, RInv, ToldShape, Req
  <2>4. ClosedShape' /\ TakenShape'
    BY <1>1, <2>1, <2>2 DEF Made, RInv, ClosedShape, TakenShape, TakenBack
  <2> QED
    BY <2>3, <2>4 DEF RInv
<1>3. CASE \E id \in Req : Taken(id)
  BY <1>1, <1>3 DEF Taken, RInv, ToldShape, ClosedShape, TakenShape, TakenBack
<1>4. CASE \E id \in Req : Expired(id) \/ Sent(id)
  <2>1. PICK id \in Req : Expired(id) \/ Sent(id)
    BY <1>4
  <2>2. told[id] = <<>> /\ id <= uid_gen
    BY <1>1, <2>1 DEF Expired, Sent, RInv, ToldShape, Req
  <2>3. /\ \A x \in Req \ {id} : told'[x] = told[x]
        /\ Len(told'[id]) <= 1
    <3>1. CASE \E result \in {"ok", "no"} : Tell(id, result)
      <4>1. PICK result \in {"ok", "no"} : Tell(id, result)
        BY <3>1
      <4>2. TypeOK
        BY DEF IInv
      <4>3. /\ \A x \in Req \ {id} : told'[x] = told[x]
            /\ Len(told'[id]) <= 1
        BY <2>2, <4>1, <4>2, TellOnceLemma
      <4> QED
        BY <4>3
    <3>2. CASE told' = told
      BY <3>2 DEF RInv, ToldShape
    <3> QED
      BY <2>1, <3>1, <3>2 DEF Expired, Sent
  <2>4. ToldShape'
    BY <1>1, <2>1, <2>2, <2>3 DEF Expired, Sent, RInv, ToldShape
  <2>5. ClosedShape' /\ TakenShape'
    BY <2>1 DEF Expired, Sent, RInv, ClosedShape, TakenShape, TakenBack
  <2> QED
    BY <2>4, <2>5 DEF RInv
<1>5. CASE \E id \in Req : ExpiredLate(id)
  <2>1. PICK id \in Req : ExpiredLate(id)
    BY <1>5
  <2>2. told' = told
    <3>1. id \notin cont /\ told = [x \in Req |-> told[x]]
      BY <2>1 DEF ExpiredLate, RInv, ClosedShape, IInv, TypeOK
    <3> QED
      BY <2>1, <3>1 DEF ExpiredLate, Tell
  <2>3. ToldShape'
    BY <2>1, <2>2 DEF ExpiredLate, RInv, ToldShape
  <2>4. ClosedShape' /\ TakenShape'
    BY <2>1 DEF ExpiredLate, RInv, ClosedShape, TakenShape, TakenBack
  <2> QED
    BY <2>3, <2>4 DEF RInv
<1>6. CASE \E id \in Req : Left(id) \/ Ended(id)
  BY <1>6 DEF Left, Ended, RInv, ToldShape, ClosedShape, TakenShape, TakenBack
<1>7. CASE Closed
  <2>1. \A x \in Gone : told[x] = <<>> /\ x <= uid_gen
    BY <1>1, <1>7, WaitingLemma DEF Closed, Gone, RInv, ToldShape
  <2>2. \A x \in Req : told'[x] = IF x \in Gone THEN Append(told[x], "ok")
                                                ELSE told[x]
    BY <1>7 DEF Closed
  <2>3. \A x \in Gone : Len(Append(told[x], "ok")) = 1
    BY <2>1
  <2>4. ToldShape'
    BY <1>7, <2>1, <2>2, <2>3 DEF Closed, RInv, ToldShape
  <2>5. ClosedShape' /\ TakenShape'
    BY <1>1, <1>7 DEF Closed, Gone, RInv, ClosedShape, TakenShape, TakenBack
  <2> QED
    BY <2>4, <2>5 DEF RInv
<1>8. CASE Idle
  <2>1. ToldShape'
    BY <1>1, <1>8 DEF Idle, RInv, ToldShape
  <2>2. ClosedShape' /\ TakenShape'
    BY <1>1, <1>8 DEF Idle, RInv, ClosedShape, TakenShape, TakenBack
  <2> QED
    BY <2>1, <2>2 DEF RInv
<1> QED
  BY <1>2, <1>3, <1>4, <1>5, <1>6, <1>7, <1>8 DEF Effect

\* The invariant of the queue and that of the requests hold together.
THEOREM RequestInvariance == Spec => [](IInv /\ RInv)
<1>1. IInv /\ RInv /\ [Next]_vars => (IInv /\ RInv)'
  BY NextInv, EffectLemma, RequestStepInv
<1> QED
  BY <1>1, InitInv, RequestInitInv, PTL DEF Spec

(***************************************************************************)
(* No continuation is called twice, although transmission, timeout and     *)
(* GNUNET_MQTT_disconnect all call it and timers outlive the handle.       *)
(***************************************************************************)
THEOREM ContinuationsToldOnce == Spec => []ToldOnce
<1>1. RInv => ToldOnce
  BY DEF RInv, ToldShape, ToldOnce
<1> QED
  BY <1>1, RequestInvariance, PTL

\* No step puts back what was taken back, or tells its continuation.
LEMMA TakenBackLemma ==
    ASSUME IInv, RInv, IInv', Effect, NEW id \in Req, TakenBack(id)
    PROVE  /\ ~\E m \in ToSet(pending') : m.id = id
           /\ told'[id] = told[id]
<1> USE DEF TakenOut
<1>1. id \notin timers \union Waiting /\ id \in 1..uid_gen
  BY DEF RInv, TakenShape, TakenBack, IInv, IdsKnown
<1>2. /\ id \notin Waiting' /\ id \notin unsubscribing'
      /\ told'[id] = told[id]
  <2>1. CASE \E x \in Req : Made(x)
    <3>1. \A n \in 1..uid_gen : n # uid_gen + 1
      BY DEF IInv, TypeOK
    <3> QED
      BY <1>1, <2>1, <3>1 DEF Made, TakenBack
  <2>2. CASE \E x \in Req : Taken(x) \/ Left(x) \/ Ended(x)
    BY <1>1, <2>2 DEF Taken, Left, Ended, TakenBack
  <2>3. CASE \E x \in Req : Expired(x) \/ Sent(x) \/ ExpiredLate(x)
    <3>1. PICK x \in Req : Expired(x) \/ Sent(x) \/ ExpiredLate(x)
      BY <2>3
    <3>2. x # id
      BY <1>1, <3>1 DEF Expired, Sent, ExpiredLate
    <3>3. told'[id] = told[id]
      BY <3>1, <3>2 DEF Expired, Sent, ExpiredLate, Tell, IInv, TypeOK
    <3> QED
      BY <1>1, <3>1, <3>3 DEF Expired, Sent, ExpiredLate, TakenBack
  <2>4. CASE Closed \/ Idle
    BY <1>1, <2>4 DEF Closed, Gone, Idle, TakenBack
  <2> QED
    BY <2>1, <2>2, <2>3, <2>4 DEF Effect
<1>3. \A m \in ToSet(pending') :
         \/ m.kind = "unsubscribe" /\ m.id \in unsubscribing'
         \/ m.id \in Waiting'
  BY DEF Waiting, IInv, QueueShape
<1> QED
  BY <1>2, <1>3

(***************************************************************************)
(* A PUBLISH that was cancelled and a SUBSCRIBE that was withdrawn are     *)
(* never queued again, and their continuations hear nothing more.          *)
(***************************************************************************)
THEOREM TakenBackStays == Spec => StaysTakenBack
<1>1. /\ IInv /\ RInv /\ (IInv /\ RInv)' /\ [Next]_vars
      => [\A id \in Req : TakenBack(id) =>
             /\ ~\E m \in ToSet(pending') : m.id = id
             /\ told'[id] = told[id]]_vars
  BY EffectLemma, TakenBackLemma
<1> QED
  BY <1>1, RequestInvariance, PTL DEF Spec, StaysTakenBack

-----------------------------------------------------------------------------
(***************************************************************************)
(* The library keeps its promise.                                          *)
(***************************************************************************)

\* Which phase a request is in
PhaseTable ==
    \A id \in Req :
       /\ id > uid_gen <=> PhaseOf(id) = "new"
       /\ id \in Waiting <=> PhaseOf(id) = "queued"
       /\ id <= uid_gen /\ handle = "freed" <=> PhaseOf(id) = "closed"
       /\ handle # "freed" /\ id \in unsubscribing \ freed
             <=> PhaseOf(id) = "leaving"
       /\ handle # "freed" /\ id \notin Waiting
          /\ id \in freed \union (released \ unsubscribing)
             <=> PhaseOf(id) = "ended"
       /\ PhaseOf(id) \in {"new", "queued", "sent", "leaving", "ended", "closed"}

\* The cases of PhaseOf exclude each other.
LEMMA PhaseLemma == IInv => PhaseTable
<1> SUFFICES ASSUME IInv, NEW id \in Req
             PROVE  /\ id > uid_gen <=> PhaseOf(id) = "new"
                    /\ id \in Waiting <=> PhaseOf(id) = "queued"
                    /\ id <= uid_gen /\ handle = "freed"
                          <=> PhaseOf(id) = "closed"
                    /\ handle # "freed" /\ id \in unsubscribing \ freed
                          <=> PhaseOf(id) = "leaving"
                    /\ handle # "freed" /\ id \notin Waiting
                       /\ id \in freed \union (released \ unsubscribing)
                          <=> PhaseOf(id) = "ended"
                    /\ PhaseOf(id) \in {"new", "queued", "sent", "leaving",
                                        "ended", "closed"}
  BY DEF PhaseTable
<1>1. /\ id > uid_gen => /\ ~(id <= uid_gen) /\ id \notin Waiting
                         /\ id \notin unsubscribing \union freed \union released
      /\ id \in Waiting => id \notin unsubscribing \union freed
      /\ handle = "freed" => id \notin Waiting
      /\ ~(id > uid_gen) => id <= uid_gen
  <2>1. /\ id > uid_gen => ~(id <= uid_gen) /\ id \notin 1..uid_gen
        /\ ~(id > uid_gen) => id <= uid_gen
    BY MaxRequestsAssumption DEF IInv, TypeOK, Req
  <2>2. Waiting \union unsubscribing \union freed \union released
           \subseteq 1..uid_gen
    BY WaitingLemma DEF IInv, IdsKnown
  <2> QED
    BY <2>1, <2>2, WaitingLemma
<1>2. PhaseOf(id) =
         IF id > uid_gen THEN "new"
         ELSE IF id \in Waiting THEN "queued"
         ELSE IF id <= uid_gen /\ handle = "freed" THEN "closed"
         ELSE IF handle # "freed" /\ id \in unsubscribing \ freed THEN "leaving"
         ELSE IF /\ handle # "freed" /\ id \notin Waiting
                 /\ id \in freed \union (released \ unsubscribing)
              THEN "ended" ELSE "sent"
  BY <1>1 DEF PhaseOf
<1>3. CASE id > uid_gen
  BY <1>1, <1>2, <1>3
<1>4. CASE ~(id > uid_gen) /\ id \in Waiting
  BY <1>1, <1>2, <1>4
<1>5. CASE ~(id > uid_gen) /\ id \notin Waiting
  BY <1>1, <1>2, <1>5
<1> QED
  BY <1>3, <1>4, <1>5

\* One request enters a phase, the others stay in theirs.
LEMMA EnterLemma ==
    ASSUME NEW id \in Req, NEW from, NEW to, from # to,
           PhaseOf(id) = from, PhaseOf(id)' = to,
           \A x \in Req \ {id} : PhaseOf(x)' = PhaseOf(x)
    PROVE  Requests!Enter(id, from, to) /\ id \in Requests!Changed
<1> DEFINE phase == [x \in Req |-> PhaseOf(x)]
           then == [x \in Req |-> PhaseOf(x)']
<1>1. phase[id] = from /\ then[id] = to
  OBVIOUS
<1>2. then = [phase EXCEPT ![id] = to]
  <2>1. \A x \in Req : then[x] = [phase EXCEPT ![id] = to][x]
    OBVIOUS
  <2> QED
    BY <2>1
<1>3. Requests!Requests = Req
  BY DEF Requests!Requests, Req
<1> QED
  BY <1>1, <1>2, <1>3 DEF Requests!Enter, Requests!Changed

\* The requests that listen are the same, whatever is told to them.
LEMMA ListensLemma ==
    ASSUME \A x \in Req : x \in cont' \/ told'[x] # <<>>
                             <=> x \in cont \/ told[x] # <<>>,
           TypeOK, TypeOK'
    PROVE  (cont \cup {x \in Req : told[x] # <<>>})' =
               cont \cup {x \in Req : told[x] # <<>>}
BY DEF TypeOK

\* Nothing has happened to any request.
LEMMA StutterLemma ==
    ASSUME \A x \in Req : PhaseOf(x)' = PhaseOf(x),
           UNCHANGED <<subs, cont, told>>
    PROVE  UNCHANGED Requests!vars
BY DEF Requests!vars

\* The phase of a request depends on nothing but these sets.
LEMMA SamePhaseLemma ==
    ASSUME NEW x \in Req,
           x > uid_gen' <=> x > uid_gen, x <= uid_gen' <=> x <= uid_gen,
           x \in Waiting' <=> x \in Waiting,
           handle' = "freed" <=> handle = "freed",
           x \in unsubscribing' <=> x \in unsubscribing,
           x \in freed' <=> x \in freed,
           x \in released' <=> x \in released
    PROVE  PhaseOf(x)' = PhaseOf(x)
BY DEF PhaseOf

\* What the invariant says of a request that is still queued
LEMMA QueuedLemma ==
    ASSUME IInv, RInv, handle = "open", NEW id \in Waiting
    PROVE  /\ id \in Req /\ id <= uid_gen
           /\ told[id] = <<>>
           /\ id \notin unsubscribing \union freed \union released
<1>1. /\ id \in Req /\ id \in 1..uid_gen /\ id \in timers
      /\ id \notin unsubscribing \union freed
  BY WaitingLemma
<1>2. id \notin released
  BY <1>1 DEF RInv, TakenShape, TakenBack
<1> QED
  BY <1>1, <1>2 DEF RInv, ToldShape

\* GNUNET_MQTT_publish and GNUNET_MQTT_subscribe make a request.
LEMMA MadeRefines ==
    ASSUME IInv, RInv, PhaseTable, PhaseTable', NEW id \in Req, Made(id)
    PROVE  Requests!Make(id) /\ id \in Requests!Changed
<1>1. /\ id > uid_gen /\ uid_gen' = id /\ told[id] = <<>> /\ id \notin cont
      /\ \A x \in Req \ {id} : /\ x > uid_gen' <=> x > uid_gen
                               /\ x <= uid_gen' <=> x <= uid_gen
  <2>1. uid_gen \in Nat /\ id = uid_gen + 1 /\ uid_gen' = id
    BY MaxRequestsAssumption DEF IInv, TypeOK, Made
  <2>2. id \notin 1..uid_gen
    BY <2>1
  <2> QED
    BY <2>1, <2>2 DEF IInv, IdsKnown, RInv, ToldShape, Req
<1>2. \A x \in Req \ {id} : PhaseOf(x)' = PhaseOf(x)
  BY <1>1, SamePhaseLemma DEF Made
<1>3. PhaseOf(id) = "new" /\ PhaseOf(id)' = "queued"
  <2>1. id \in Waiting'
    BY DEF Made
  <2> QED
    BY <1>1, <2>1 DEF PhaseTable
<1>4. Requests!Enter(id, "new", "queued") /\ id \in Requests!Changed
  BY <1>2, <1>3, EnterLemma
<1>5. (cont \cup {x \in Req : told[x] # <<>>})' \in
          {cont \cup {x \in Req : told[x] # <<>>},
           (cont \cup {x \in Req : told[x] # <<>>}) \cup {id}}
  BY DEF Made
<1> QED
  BY <1>4, <1>5 DEF Requests!Make, Made

\* GNUNET_MQTT_publish_cancel and an early GNUNET_MQTT_unsubscribe
LEMMA TakenRefines ==
    ASSUME IInv, RInv, PhaseTable, PhaseTable', NEW id \in Req, Taken(id)
    PROVE  Requests!TakeBack(id) /\ id \in Requests!Changed
<1>1. /\ id <= uid_gen /\ told[id] = <<>>
      /\ id \notin unsubscribing \union freed \union released
  BY QueuedLemma DEF Taken, TakenOut
<1>2. \A x \in Req \ {id} : PhaseOf(x)' = PhaseOf(x)
  BY SamePhaseLemma DEF Taken, TakenOut
<1>3. PhaseOf(id) = "queued" /\ PhaseOf(id)' = "ended"
  <2>1. /\ id \in Waiting
        /\ handle' # "freed" /\ id \notin Waiting'
        /\ id \in released' \ unsubscribing'
    BY <1>1 DEF Taken, TakenOut
  <2> QED
    BY <2>1 DEF PhaseTable
<1>4. Requests!Enter(id, "queued", "ended") /\ id \in Requests!Changed
  BY <1>2, <1>3, EnterLemma
<1> QED
  BY <1>4 DEF Requests!TakeBack, Taken, TakenOut

\* What is told to a continuation that was told nothing before
LEMMA AnswerLemma ==
    ASSUME TypeOK, NEW id \in Req, NEW result \in {"ok", "no"},
           told[id] = <<>>, Tell(id, result)
    PROVE  /\ Requests!Answer({id}, result)
           /\ \A x \in Req : x \in cont \/ told'[x] # <<>>
                                <=> x \in cont \/ told[x] # <<>>
           /\ id \in cont => told'[id] # <<>>
<1>1. /\ told' = [x \in Req |-> IF x \in {id} \intersect cont
                                THEN <<result>> ELSE told[x]]
      /\ \A x \in Req \ {id} : told'[x] = told[x]
  BY TellOnceLemma
<1>2. <<result>> # <<>>
  OBVIOUS
<1>3. \A x \in Req :
         /\ x \in {id} \intersect (cont \cup {y \in Req : told[y] # <<>>})
               <=> x \in {id} \intersect cont
         /\ told'[x] = IF x \in {id} \intersect cont THEN <<result>> ELSE told[x]
  BY <1>1
<1>4. Requests!Requests = Req
  BY DEF Requests!Requests, Req
<1> QED
  BY <1>1, <1>2, <1>3, <1>4 DEF Requests!Answer

\* publish_timeout and subscribe_timeout
LEMMA ExpiredRefines ==
    ASSUME IInv, RInv, PhaseTable, PhaseTable', TypeOK', NEW id \in Req,
           Expired(id)
    PROVE  Requests!Expire(id) /\ id \in Requests!Changed
<1>1. /\ id <= uid_gen /\ told[id] = <<>> /\ TypeOK
      /\ id \notin unsubscribing \union freed \union released
  BY QueuedLemma DEF Expired, TakenOut, IInv
<1>2. \A x \in Req \ {id} : PhaseOf(x)' = PhaseOf(x)
  BY SamePhaseLemma DEF Expired, TakenOut
<1>3. PhaseOf(id) = "queued" /\ PhaseOf(id)' = "ended"
  <2>1. /\ id \in Waiting
        /\ handle' # "freed" /\ id \notin Waiting' /\ id \in freed'
    BY <1>1 DEF Expired, TakenOut
  <2> QED
    BY <2>1 DEF PhaseTable
<1>4. Requests!Enter(id, "queued", "ended") /\ id \in Requests!Changed
  BY <1>2, <1>3, EnterLemma
<1>5. /\ Requests!Answer({id}, "no")
      /\ \A x \in Req : x \in cont \/ told'[x] # <<>>
                           <=> x \in cont \/ told[x] # <<>>
  BY <1>1, AnswerLemma DEF Expired
<1>6. (cont \cup {x \in Req : told[x] # <<>>})' =
          cont \cup {x \in Req : told[x] # <<>>}
  BY <1>1, <1>5, ListensLemma DEF Expired
<1> QED
  BY <1>4, <1>5, <1>6 DEF Requests!Expire, Expired, TakenOut

\* transmit_pending
LEMMA SentRefines ==
    ASSUME IInv, RInv, PhaseTable, PhaseTable', TypeOK', NEW id \in Req,
           Sent(id)
    PROVE  Requests!Transmit(id) /\ id \in Requests!Changed
<1>1. /\ id <= uid_gen /\ told[id] = <<>> /\ TypeOK
      /\ id \notin unsubscribing \union freed \union released
  BY QueuedLemma DEF Sent, TakenOut, IInv
<1>2. \A x \in Req \ {id} : PhaseOf(x)' = PhaseOf(x)
  BY SamePhaseLemma DEF Sent, TakenOut
<1>3. PhaseOf(id) = "queued" /\ PhaseOf(id)' = "sent"
  <2>1. /\ id \in Waiting /\ handle' # "freed" /\ id \notin Waiting'
        /\ id \notin unsubscribing' \union freed' \union released'
        /\ uid_gen' = uid_gen /\ ~(id > uid_gen)
    BY <1>1, MaxRequestsAssumption DEF Sent, TakenOut, TypeOK, Req
  <2> QED
    BY <2>1 DEF PhaseTable
<1>4. Requests!Enter(id, "queued", "sent") /\ id \in Requests!Changed
  BY <1>2, <1>3, EnterLemma
<1>5. CASE id \in subs
  <2>1. /\ Requests!Answer({id}, "ok")
        /\ \A x \in Req : x \in cont \/ told'[x] # <<>>
                             <=> x \in cont \/ told[x] # <<>>
        /\ id \in cont => told'[id] # <<>>
    BY <1>1, <1>5, AnswerLemma DEF Sent
  <2>2. cont' = cont \ {id}
    BY <1>5 DEF Sent
  <2>3. (cont \cup {x \in Req : told[x] # <<>>})' =
            cont \cup {x \in Req : told[x] # <<>>}
    BY <1>1, <2>1, <2>2, ListensLemma
  <2> QED
    BY <1>4, <2>1, <2>3 DEF Requests!Transmit, Sent, TakenOut
<1>6. CASE id \notin subs
  BY <1>4, <1>6 DEF Requests!Transmit, Sent, TakenOut
<1> QED
  BY <1>5, <1>6

\* subscribe_timeout after GNUNET_MQTT_disconnect changes nothing any more.
LEMMA ExpiredLateRefines ==
    ASSUME IInv, RInv, PhaseTable, PhaseTable', NEW id \in Req, ExpiredLate(id)
    PROVE  UNCHANGED Requests!vars
<1>1. told' = told
  <2>1. id \notin cont /\ told = [x \in Req |-> told[x]]
    BY DEF ExpiredLate, RInv, ClosedShape, IInv, TypeOK
  <2> QED
    BY <2>1 DEF ExpiredLate, Tell
<1>2. PhaseOf(id) = "closed" /\ PhaseOf(id)' = "closed"
  <2>1. id <= uid_gen
    BY DEF ExpiredLate, IInv, IdsKnown, TypeOK
  <2> QED
    BY <2>1 DEF ExpiredLate, PhaseTable
<1>3. \A x \in Req \ {id} : PhaseOf(x)' = PhaseOf(x)
  BY SamePhaseLemma DEF ExpiredLate
<1>4. \A x \in Req : PhaseOf(x)' = PhaseOf(x)
  BY <1>2, <1>3
<1> QED
  BY <1>1, <1>4, StutterLemma DEF ExpiredLate

\* GNUNET_MQTT_unsubscribe of a transmitted subscription
LEMMA LeftRefines ==
    ASSUME IInv, RInv, PhaseTable, PhaseTable', NEW id \in Req, Left(id)
    PROVE  Requests!Leave(id) /\ id \in Requests!Changed
<1>1. id <= uid_gen /\ ~(id > uid_gen) /\ id \notin unsubscribing
  BY MaxRequestsAssumption DEF Left, IInv, IdsKnown, TypeOK, Req
<1>2. \A x \in Req \ {id} : PhaseOf(x)' = PhaseOf(x)
  BY SamePhaseLemma DEF Left
<1>3. PhaseOf(id) = "sent" /\ PhaseOf(id)' = "leaving"
  BY <1>1 DEF Left, PhaseTable
<1>4. Requests!Enter(id, "sent", "leaving") /\ id \in Requests!Changed
  BY <1>2, <1>3, EnterLemma
<1> QED
  BY <1>4 DEF Requests!Leave, Left

\* An UNSUBSCRIBE_ACK, the first or a further one
LEMMA EndedRefines ==
    ASSUME IInv, RInv, PhaseTable, PhaseTable', NEW id \in Req, Ended(id)
    PROVE  \/ Requests!End(id) /\ id \in Requests!Changed
           \/ UNCHANGED Requests!vars
<1>1. \A x \in Req \ {id} : PhaseOf(x)' = PhaseOf(x)
  BY SamePhaseLemma DEF Ended
<1>2. CASE id \in freed
  <2>1. PhaseOf(id)' = PhaseOf(id)
    BY <1>2, SamePhaseLemma DEF Ended
  <2> QED
    BY <1>1, <2>1, StutterLemma DEF Ended
<1>3. CASE id \notin freed
  <2>1. PhaseOf(id) = "leaving" /\ PhaseOf(id)' = "ended"
    BY <1>3 DEF Ended, PhaseTable
  <2>2. Requests!Enter(id, "leaving", "ended") /\ id \in Requests!Changed
    BY <1>1, <2>1, EnterLemma
  <2> QED
    BY <2>2 DEF Requests!End, Ended
<1> QED
  BY <1>2, <1>3

\* GNUNET_MQTT_disconnect
LEMMA ClosedRefines ==
    ASSUME IInv, RInv, PhaseTable, PhaseTable', TypeOK', Closed
    PROVE  Requests!Close
<1> DEFINE listens == cont \cup {x \in Req : told[x] # <<>>}
<1>1. \A id \in Waiting : id \in Req /\ told[id] = <<>>
  BY QueuedLemma DEF Closed
<1>2. \A id \in Req : PhaseOf(id)' = IF PhaseOf(id) = "new" THEN "new"
                                                          ELSE "closed"
  <2>1. \A id \in Req : ~(id > uid_gen) => id <= uid_gen
    BY MaxRequestsAssumption DEF IInv, TypeOK, Req
  <2> QED
    BY <2>1 DEF Closed, PhaseTable
<1>3. \A id \in Req : id \in {x \in subs : PhaseOf(x) = "queued"} \cap listens
                         <=> id \in Gone
  <2>1. subs \subseteq Req
    BY DEF IInv, TypeOK
  <2> QED
    BY <1>1, <2>1 DEF PhaseTable, Gone
<1>4. \A id \in Req : told'[id] = IF id \in Gone THEN <<"ok">> ELSE told[id]
  <2>1. \A id \in Gone : told[id] = <<>>
    BY <1>1 DEF Gone
  <2>2. Append(<<>>, "ok") = <<"ok">>
    OBVIOUS
  <2> QED
    BY <2>1, <2>2 DEF Closed
<1>5. listens' = listens
  <2>1. \A id \in Req : id \in cont' \/ told'[id] # <<>>
                           <=> id \in cont \/ told[id] # <<>>
    <3>1. <<"ok">> # <<>>
      OBVIOUS
    <3> QED
      BY <1>4, <3>1 DEF Closed, Gone
  <2> QED
    BY <2>1, ListensLemma DEF IInv
<1>6. Requests!Requests = Req
  BY DEF Requests!Requests, Req
<1>7. Requests!Answer({x \in subs : PhaseOf(x) = "queued"}, "ok")
  <2>1. told' = [id \in Req |-> told'[id]]
    BY DEF TypeOK
  <2> QED
    BY <1>3, <1>4, <1>6, <2>1 DEF Requests!Answer
<1>8. subs \subseteq Req
  BY DEF IInv, TypeOK
<1> QED
  BY <1>2, <1>5, <1>6, <1>7, <1>8 DEF Requests!Close, Closed

\* The other steps change no request.
LEMMA IdleRefines ==
    ASSUME IInv, PhaseTable, PhaseTable', Idle
    PROVE  UNCHANGED Requests!vars
<1>1. CASE handle' = handle
  <2>1. \A x \in Req : PhaseOf(x)' = PhaseOf(x)
    BY <1>1, SamePhaseLemma DEF Idle
  <2> QED
    BY <2>1, StutterLemma DEF Idle
<1>2. CASE handle = "unset"
  <2>1. \A x \in Req : x > uid_gen /\ x > uid_gen'
    BY <1>2 DEF IInv, HandleState, Idle, Req
  <2>2. \A x \in Req : PhaseOf(x)' = PhaseOf(x)
    BY <2>1 DEF PhaseTable
  <2> QED
    BY <2>2, StutterLemma DEF Idle
<1> QED
  BY <1>1, <1>2 DEF Idle

(***************************************************************************)
(* The client library implements its contract: every request goes through  *)
(* the phases of MqttRequests and its continuation is told what belongs to *)
(* the phase it enters, for every number of requests, every interleaving   *)
(* of the tasks and every set of environment events.                       *)
(***************************************************************************)
THEOREM PromiseKept == Spec => KeepsItsPromise
<1>1. Init => Requests!Init
  <2> SUFFICES ASSUME Init PROVE Requests!Init
    OBVIOUS
  <2>1. IInv
    BY InitInv
  <2>2. \A id \in Req : id > uid_gen
    BY DEF Init, Req
  <2>3. \A id \in Req : PhaseOf(id) = "new"
    BY <2>1, <2>2, PhaseLemma DEF PhaseTable
  <2>4. cont \cup {x \in Req : told[x] # <<>>} = {}
    BY DEF Init
  <2>5. Requests!Requests = Req
    BY DEF Requests!Requests, Req
  <2> QED
    BY <2>3, <2>4, <2>5 DEF Init, Requests!Init
<1>2. IInv /\ RInv /\ (IInv /\ RInv)' /\ [Next]_vars
         => [Requests!Next]_(Requests!vars)
  <2> SUFFICES ASSUME IInv, RInv, IInv', [Next]_vars
               PROVE  Requests!Next \/ UNCHANGED Requests!vars
    OBVIOUS
  <2>1. PhaseTable /\ PhaseTable'
    BY PhaseLemma, PTL
  <2>2. TypeOK'
    BY DEF IInv
  <2>3. Effect
    BY EffectLemma
  <2>4. CASE \E id \in Req : Made(id) \/ Taken(id) \/ Expired(id) \/ Sent(id)
    BY <2>1, <2>2, <2>4, MadeRefines, TakenRefines, ExpiredRefines, SentRefines
       DEF Requests!Next
  <2>5. CASE \E id \in Req : ExpiredLate(id) \/ Left(id) \/ Ended(id)
    BY <2>1, <2>5, ExpiredLateRefines, LeftRefines, EndedRefines
       DEF Requests!Next
  <2>6. CASE Closed
    BY <2>1, <2>2, <2>6, ClosedRefines DEF Requests!Next
  <2>7. CASE Idle
    BY <2>1, <2>7, IdleRefines
  <2> QED
    BY <2>3, <2>4, <2>5, <2>6, <2>7 DEF Effect
<1> QED
  BY <1>1, <1>2, RequestInvariance, PTL DEF Spec, KeepsItsPromise, Requests!Spec
=============================================================================
