------------------------- MODULE MqttPublisherProofs -------------------------
(***************************************************************************)
(* Invariants of the service's publisher side, proved for every set of     *)
(* topics, keys and environment events and every bound.                    *)
(***************************************************************************)
EXTENDS MqttPublisher, SequenceTheorems, WellFoundedInduction, TLAPS

(***************************************************************************)
(* The types of the channels and messages, and SearchersReach with what it *)
(* rests on: a message is in the queue of one channel only, so that no     *)
(* repeated broadcast of a queue takes it to another.  list stands for     *)
(* the channels, a new one included that handle_mqtt_publish has inserted. *)
(***************************************************************************)
Typed(list, ctx, bc) ==
    /\ list \in Seq(Channel)
    /\ ctx \in Seq([topic : Topics, channel : 1..Len(list)])
    /\ bc \in Seq(Seq(1..Len(list)))

Reaches(list, ctx, bc) ==
    /\ Len(bc) = Len(ctx)
    /\ \A j \in 1..Len(list) : \A k \in ToSet(list[j].pending) :
          k \in 1..Len(ctx) /\ ctx[k].channel = j
    /\ \A m \in 1..Len(ctx) :
          /\ bc[m] # <<>>
          /\ ToSet(bc[m]) = {ctx[m].channel}
          /\ m \in ToSet(list[ctx[m].channel].pending)

IInv ==
    /\ TypeOK
    /\ Reaches(channels, contexts, broadcasts)
    /\ ChannelsDistinct
    /\ StatesAnnounced

-----------------------------------------------------------------------------
(* Sequences and the largest of some numbers *)

\* The elements of a concatenation
LEMMA ToSetConcat ==
    ASSUME NEW S, NEW s \in Seq(S), NEW t \in Seq(S)
    PROVE  ToSet(s \o t) = ToSet(s) \cup ToSet(t)
<1>1. /\ DOMAIN s = 1..Len(s) /\ DOMAIN t = 1..Len(t)
      /\ DOMAIN (s \o t) = 1..Len(s) + Len(t)
      /\ Len(s) \in Nat /\ Len(t) \in Nat
    BY ConcatProperties, LenProperties
<1>2. \A i \in 1..Len(s) + Len(t) :
         (s \o t)[i] = IF i <= Len(s) THEN s[i] ELSE t[i - Len(s)]
    BY ConcatProperties
<1>3. ASSUME NEW x \in ToSet(s \o t)
      PROVE  x \in ToSet(s) \cup ToSet(t)
  <2>1. PICK i \in 1..Len(s) + Len(t) : x = (s \o t)[i]
      BY <1>1 DEF ToSet
  <2>2. CASE i <= Len(s)
    <3>1. i \in 1..Len(s) /\ x = s[i]
        BY <1>1, <1>2, <2>1, <2>2
    <3> QED BY <1>1, <3>1 DEF ToSet
  <2>3. CASE i > Len(s)
    <3>1. i - Len(s) \in 1..Len(t) /\ x = t[i - Len(s)]
        BY <1>1, <1>2, <2>1, <2>3
    <3> QED BY <1>1, <3>1 DEF ToSet
  <2> QED BY <1>1, <2>2, <2>3
<1>4. ASSUME NEW i \in 1..Len(s)
      PROVE  s[i] \in ToSet(s \o t)
  <2>1. i \in 1..Len(s) + Len(t) /\ (s \o t)[i] = s[i]
      BY <1>1, <1>2
  <2> QED BY <1>1, <2>1 DEF ToSet
<1>5. ASSUME NEW i \in 1..Len(t)
      PROVE  t[i] \in ToSet(s \o t)
  <2>1. Len(s) + i \in 1..Len(s) + Len(t) /\ ~(Len(s) + i <= Len(s))
      BY <1>1
  <2>2. (s \o t)[Len(s) + i] = t[(Len(s) + i) - Len(s)]
      BY <1>2, <2>1
  <2>3. (Len(s) + i) - Len(s) = i
      BY <1>1
  <2> QED BY <1>1, <2>1, <2>2, <2>3 DEF ToSet
<1>6. ToSet(s) \cup ToSet(t) \subseteq ToSet(s \o t)
    BY <1>1, <1>4, <1>5 DEF ToSet
<1> QED BY <1>3, <1>6

\* Some numbers up to n have a largest one.
LEMMA LargestLemma ==
    ASSUME NEW n \in Nat, NEW T \in SUBSET (1..n), T # {}
    PROVE  \E x \in T : \A y \in T : y <= x
<1> DEFINE U == {n - y : y \in T}
           R == OpToRel(<, Nat)
<1>1. U \subseteq Nat /\ U # {}
  <2>1. \A y \in T : n - y \in Nat
      OBVIOUS
  <2>2. PICK y \in T : TRUE
      OBVIOUS
  <2>3. n - y \in U
      BY <2>2
  <2> QED BY <2>1, <2>3
<1>2. IsWellFoundedOn(R, Nat)
    BY NatLessThanWellFounded
<1>3. PICK u \in U : \A v \in U : <<v, u>> \notin R
  <2> HIDE DEF U, R
  <2> QED BY <1>1, <1>2, WFMin
<1>4. \A v \in U : ~(v < u)
  <2>1. \A v \in Nat : v < u => <<v, u>> \in R
      BY <1>1 DEF OpToRel
  <2> QED BY <1>1, <1>3, <2>1
<1>5. PICK x \in T : u = n - x
    OBVIOUS
<1>6. ASSUME NEW y \in T
      PROVE  y <= x
  <2>1. ~(n - y < n - x)
      BY <1>4, <1>5
  <2> QED BY <2>1
<1> QED BY <1>6

-----------------------------------------------------------------------------
(* Publishing on a channel *)

\* A new channel has an empty queue.
LEMMA NewChannelReaches ==
    ASSUME NEW list, NEW ctx, NEW bc, NEW topic \in Topics,
           Typed(list, ctx, bc), Reaches(list, ctx, bc)
    PROVE  LET grown == Append(list, NewChannel(topic))
           IN  Typed(grown, ctx, bc) /\ Reaches(grown, ctx, bc)
<1> DEFINE new == NewChannel(topic)
           grown == Append(list, new)
           l == Len(list)
<1>1. new \in Channel /\ new.pending = <<>>
  <2>1. <<>> \in Seq(1..MaxMessages) /\ <<>> \in Seq(AcceptState)
      BY EmptySeq
  <2> QED BY <2>1 DEF NewChannel, Channel
<1> HIDE DEF new
<1>2. /\ list \in Seq(Channel) /\ l \in Nat
      /\ grown \in Seq(Channel) /\ Len(grown) = l + 1
      /\ \A j \in 1..l : grown[j] = list[j]
      /\ grown[l + 1] = new
    BY <1>1, AppendProperties, LenProperties DEF Typed
<1> HIDE DEF grown
<1>3. Typed(grown, ctx, bc)
  <2> DEFINE A == 1..l
             B == 1..Len(grown)
             CA == [topic : Topics, channel : A]
             CB == [topic : Topics, channel : B]
  <2>1. A \subseteq B
      BY <1>2
  <2> HIDE DEF A, B
  <2>2. CA \subseteq CB
      BY <2>1
  <2>3. ctx \in Seq(CB)
    <3>1. ctx \in Seq(CA)
        BY DEF Typed, A
    <3> HIDE DEF CA, CB
    <3> QED BY <2>2, <3>1, SeqMonotonic
  <2>4. \A s \in Seq(A) : s \in Seq(B)
      BY <2>1, SeqMonotonic
  <2>5. bc \in Seq(Seq(B))
      BY <2>4, SeqMonotonic DEF Typed, A
  <2> QED BY <1>2, <2>3, <2>5 DEF Typed, B
<1>4. ASSUME NEW j \in 1..Len(grown), NEW k \in ToSet(grown[j].pending)
      PROVE  k \in 1..Len(ctx) /\ ctx[k].channel = j
  <2>1. j # l + 1
      BY <1>1, <1>2, <1>4 DEF ToSet
  <2>2. j \in 1..l /\ grown[j] = list[j]
      BY <1>2, <2>1
  <2> QED BY <1>4, <2>2 DEF Reaches
<1>5. ASSUME NEW m \in 1..Len(ctx)
      PROVE  m \in ToSet(grown[ctx[m].channel].pending)
  <2>1. ctx[m].channel \in 1..l
    <3>1. ctx[m] \in [topic : Topics, channel : 1..l]
        BY ElementOfSeq DEF Typed
    <3> QED BY <3>1
  <2> QED BY <1>2, <2>1 DEF Reaches
<1>6. Reaches(grown, ctx, bc)
    BY <1>4, <1>5 DEF Reaches
<1> QED BY <1>3, <1>6 DEF grown, new

\* A message published on a channel, and its queue broadcast once more
LEMMA PublishOnReaches ==
    ASSUME NEW list, NEW topic \in Topics, NEW i \in 1..Len(list),
           Typed(list, contexts, broadcasts), Reaches(list, contexts, broadcasts),
           Len(contexts) < MaxMessages, PublishOn(i, topic, list)
    PROVE  /\ Typed(channels', contexts', broadcasts')
           /\ Reaches(channels', contexts', broadcasts')
           /\ Len(channels') = Len(list)
           /\ \A j \in 1..Len(list) : /\ channels'[j].topic = list[j].topic
                                      /\ channels'[j].as = list[j].as
                                      /\ channels'[j].expired = list[j].expired
<1> DEFINE l == Len(list)
           n == Len(contexts)
           m == n + 1
           old == list[i].pending
           queue == <<m>> \o old
           ctx == [topic |-> topic, channel |-> i]
<1>1. /\ channels' = [list EXCEPT ![i].pending = queue]
      /\ broadcasts' = [k \in 1..m |->
            (IF k < m THEN broadcasts[k] ELSE <<>>)
                \o (IF k \in ToSet(queue) THEN <<i>> ELSE <<>>)]
      /\ contexts' = Append(contexts, ctx)
    BY DEF PublishOn, Queue, Cons, SearchChannel
<1>2. /\ l \in Nat /\ n \in Nat /\ m \in 1..MaxMessages
      /\ list \in Seq(Channel) /\ list \in [1..l -> Channel]
      /\ contexts \in Seq([topic : Topics, channel : 1..l])
      /\ broadcasts \in Seq(Seq(1..l)) /\ Len(broadcasts) = n
  <2>1. l \in Nat /\ n \in Nat
      BY LenProperties DEF Typed
  <2>2. m \in 1..MaxMessages
      BY <2>1, BoundsAssumption
  <2> QED BY <2>1, <2>2, LenProperties DEF Typed, Reaches
<1>3. list[i] \in Channel /\ old \in Seq(1..MaxMessages)
    BY <1>2 DEF Channel
<1>4. queue \in Seq(1..MaxMessages) /\ ToSet(queue) = {m} \cup ToSet(old)
  <2> DEFINE one == <<m>>
  <2>1. one \in Seq(1..MaxMessages) /\ ToSet(one) = {m}
      BY <1>2 DEF ToSet
  <2> HIDE DEF one, old
  <2>2. one \o old \in Seq(1..MaxMessages)
      BY <1>3, <2>1, ConcatProperties
  <2>3. ToSet(one \o old) = ToSet(one) \cup ToSet(old)
      BY <1>3, <2>1, ToSetConcat
  <2> QED BY <2>1, <2>2, <2>3 DEF one
<1>5. \A k \in ToSet(old) : k \in 1..n /\ contexts[k].channel = i
    BY DEF Reaches
<1> HIDE DEF queue, old, l, n
<1>6. /\ channels' \in [1..l -> Channel]
      /\ channels'[i].pending = queue
      /\ \A j \in 1..l : j # i => channels'[j] = list[j]
      /\ \A j \in 1..l : /\ channels'[j].topic = list[j].topic
                         /\ channels'[j].as = list[j].as
                         /\ channels'[j].expired = list[j].expired
    BY <1>1, <1>2, <1>3, <1>4 DEF Channel, l
<1>7. channels' \in Seq(Channel) /\ Len(channels') = l
    BY <1>2, <1>6
<1>8. /\ ctx \in [topic : Topics, channel : 1..l]
      /\ contexts' \in Seq([topic : Topics, channel : 1..l])
      /\ Len(contexts') = m
      /\ \A k \in 1..n : contexts'[k] = contexts[k]
      /\ contexts'[m] = ctx
  <2>1. ctx \in [topic : Topics, channel : 1..l]
      BY DEF l
  <2> QED BY <1>1, <1>2, <2>1, AppendProperties DEF n
<1>9. ASSUME NEW k \in 1..n
      PROVE  /\ broadcasts'[k] \in Seq(1..l)
             /\ broadcasts'[k] # <<>>
             /\ ToSet(broadcasts'[k]) = {contexts[k].channel}
  <2>1. /\ broadcasts[k] \in Seq(1..l) /\ broadcasts[k] # <<>>
        /\ ToSet(broadcasts[k]) = {contexts[k].channel}
    <3>1. broadcasts[k] \in Seq(1..l)
        BY <1>2, ElementOfSeq
    <3> QED BY <3>1 DEF Reaches, n
  <2>2. k \in 1..m /\ k < m
      BY <1>2
  <2>3. broadcasts'[k] = broadcasts[k] \o
                           (IF k \in ToSet(queue) THEN <<i>> ELSE <<>>)
      BY <1>1, <2>2
  <2>4. CASE k \notin ToSet(queue)
      BY <2>1, <2>3, <2>4, ConcatEmptySeq
  <2>5. CASE k \in ToSet(queue)
    <3>1. k \in ToSet(old) /\ contexts[k].channel = i
        BY <1>2, <1>4, <1>5, <2>2, <2>5
    <3>2. <<i>> \in Seq(1..l) /\ ToSet(<<i>>) = {i} /\ <<i>> # <<>>
        BY DEF ToSet, l
    <3>3. broadcasts'[k] = broadcasts[k] \o <<i>>
        BY <2>3, <2>5
    <3>4. /\ broadcasts[k] \o <<i>> \in Seq(1..l)
          /\ broadcasts[k] \o <<i>> # <<>>
        BY <2>1, <3>2, ConcatProperties, ConcatEqualIffEmpty
    <3>5. ToSet(broadcasts[k] \o <<i>>) = ToSet(broadcasts[k]) \cup {i}
      <4> DEFINE one == <<i>>
      <4>1. one \in Seq(1..l) /\ ToSet(one) = {i}
          BY <3>2
      <4> HIDE DEF one
      <4>2. ToSet(broadcasts[k] \o one) = ToSet(broadcasts[k]) \cup ToSet(one)
          BY <2>1, <4>1, ToSetConcat
      <4> QED BY <4>1, <4>2 DEF one
    <3> QED BY <2>1, <3>1, <3>3, <3>4, <3>5
  <2> QED BY <2>4, <2>5
<1>10. /\ broadcasts'[m] \in Seq(1..l)
       /\ broadcasts'[m] # <<>>
       /\ ToSet(broadcasts'[m]) = {i}
  <2>1. <<i>> \in Seq(1..l) /\ ToSet(<<i>>) = {i} /\ <<i>> # <<>>
      BY DEF ToSet, l
  <2>2. m \in 1..m /\ ~(m < m) /\ m \in ToSet(queue)
      BY <1>2, <1>4
  <2>3. broadcasts'[m] = <<>> \o <<i>>
      BY <1>1, <2>2
  <2> QED BY <2>1, <2>3, ConcatEmptySeq
<1>11. broadcasts' \in Seq(Seq(1..l)) /\ Len(broadcasts') = m
  <2>1. \A k \in 1..m : broadcasts'[k] \in Seq(1..l)
    <3>1. \A k \in 1..m : k \in 1..n \/ k = m
        BY <1>2
    <3> QED BY <1>9, <1>10, <3>1
  <2>2. broadcasts' \in [1..m -> Seq(1..l)]
      BY <1>1, <2>1
  <2>3. m \in Nat
      BY <1>2
  <2> HIDE DEF m
  <2> QED BY <2>2, <2>3
<1>12. Typed(channels', contexts', broadcasts')
    BY <1>7, <1>8, <1>11 DEF Typed
<1>13. ASSUME NEW j \in 1..l, NEW k \in ToSet(channels'[j].pending)
       PROVE  k \in 1..m /\ contexts'[k].channel = j
  <2>1. CASE j = i /\ k = m
      BY <1>2, <1>8, <2>1
  <2>2. CASE ~(j = i /\ k = m)
    <3>1. k \in ToSet(list[j].pending)
        BY <1>4, <1>6, <1>13, <2>2 DEF old
    <3>2. k \in 1..n /\ contexts[k].channel = j
        BY <3>1 DEF Reaches, l, n
    <3> QED BY <1>2, <1>8, <3>2
  <2> QED BY <2>1, <2>2
<1>14. ASSUME NEW k \in 1..m
       PROVE  /\ broadcasts'[k] # <<>>
              /\ ToSet(broadcasts'[k]) = {contexts'[k].channel}
              /\ k \in ToSet(channels'[contexts'[k].channel].pending)
  <2>1. CASE k = m
      BY <1>4, <1>6, <1>8, <1>10, <2>1
  <2>2. CASE k \in 1..n
    <3>1. contexts'[k] = contexts[k] /\ contexts[k].channel \in 1..l
      <4>1. contexts[k] \in [topic : Topics, channel : 1..l]
          BY <1>2, <2>2, ElementOfSeq DEF n
      <4> QED BY <1>8, <2>2, <4>1
    <3>2. k \in ToSet(list[contexts[k].channel].pending)
        BY <2>2 DEF Reaches, n
    <3>3. k \in ToSet(channels'[contexts[k].channel].pending)
        BY <1>4, <1>6, <3>1, <3>2 DEF old
    <3> QED BY <1>9, <2>2, <3>1, <3>3
  <2> QED BY <1>2, <2>1, <2>2
<1>15. Reaches(channels', contexts', broadcasts')
    BY <1>7, <1>8, <1>11, <1>13, <1>14 DEF Reaches
<1> QED BY <1>6, <1>7, <1>12, <1>15 DEF l

-----------------------------------------------------------------------------
(* Each step keeps the invariant *)

\* What the invariant says of the sequences
LEMMA InvLemma ==
    ASSUME IInv
    PROVE  /\ channels \in Seq(Channel) /\ DOMAIN channels = 1..Len(channels)
           /\ Len(channels) \in Nat
           /\ \A i \in 1..Len(channels) : channels[i] \in Channel
           /\ Typed(channels, contexts, broadcasts)
           /\ Reaches(channels, contexts, broadcasts)
           /\ DOMAIN contexts = 1..Len(contexts)
           /\ \A m \in 1..Len(contexts) : /\ contexts[m].topic \in Topics
                                          /\ contexts[m].channel \in 1..Len(channels)
<1>1. channels \in Seq(Channel) /\ DOMAIN channels = 1..Len(channels)
    BY LenProperties DEF IInv, TypeOK
<1>2. Typed(channels, contexts, broadcasts)
    BY <1>1 DEF IInv, TypeOK, Typed
<1>3. \A m \in 1..Len(contexts) : contexts[m] \in [topic : Topics,
                                                    channel : 1..Len(channels)]
    BY <1>2, ElementOfSeq DEF Typed
<1> QED BY <1>1, <1>2, <1>3, ElementOfSeq, LenProperties DEF IInv, Typed

\* The type invariant, put together from what a step leaves of the sequences
LEMMA TypeFromTyped ==
    ASSUME Typed(channels', contexts', broadcasts'),
           up' \in BOOLEAN, stalled' \subseteq Clients,
           live' \subseteq (1..Len(channels')) \X Keys,
           found' \in 0..MaxFound, expiries' \in 0..MaxExpiries
    PROVE  TypeOK'
<1>1. DOMAIN channels' = 1..Len(channels')
    BY LenProperties DEF Typed
<1> QED BY <1>1 DEF Typed, TypeOK

\* handle_mqtt_publish makes a channel only when none of the list serves.
LEMMA NoneServes ==
    ASSUME IInv, NEW topic, Found(topic) = {}
    PROVE  \A i \in 1..Len(channels) : ~Serves(i, topic)
<1> DEFINE T == {i \in 1..Len(channels) : Serves(i, topic)}
<1>1. SUFFICES ASSUME T # {}
               PROVE  FALSE
    OBVIOUS
<1>2. /\ DOMAIN channels = 1..Len(channels) /\ Len(channels) \in Nat
      /\ T \in SUBSET (1..Len(channels))
    BY InvLemma
<1> HIDE DEF T
<1>3. PICK x \in T : \A y \in T : y <= x
    BY <1>1, <1>2, LargestLemma
<1>4. x \in Found(topic)
    BY <1>2, <1>3 DEF Found, T
<1> QED BY <1>4

LEMMA PublishKeeps ==
    ASSUME IInv, NEW c \in Clients, NEW topic \in Topics, Publish(c, topic)
    PROVE  IInv'
<1>1. /\ channels \in Seq(Channel) /\ DOMAIN channels = 1..Len(channels)
      /\ Typed(channels, contexts, broadcasts)
      /\ Reaches(channels, contexts, broadcasts)
    BY InvLemma
<1>2. PICK i \in Found(topic) : PublishOn(i, topic, channels)
    BY DEF Publish
<1>3. i \in 1..Len(channels) /\ Len(contexts) < MaxMessages
    BY <1>1 DEF Found, Publish, Publishing
<1>4. /\ Typed(channels', contexts', broadcasts')
      /\ Reaches(channels', contexts', broadcasts')
      /\ Len(channels') = Len(channels)
      /\ \A j \in 1..Len(channels) : /\ channels'[j].topic = channels[j].topic
                                     /\ channels'[j].as = channels[j].as
                                     /\ channels'[j].expired = channels[j].expired
    BY <1>1, <1>2, <1>3, PublishOnReaches
<1>5. UNCHANGED <<up, stalled, live, found, expiries>>
    BY DEF Publish
<1>6. TypeOK'
  <2>1. /\ up' \in BOOLEAN /\ stalled' \subseteq Clients
        /\ live' \subseteq (1..Len(channels')) \X Keys
        /\ found' \in 0..MaxFound /\ expiries' \in 0..MaxExpiries
      BY <1>1, <1>4, <1>5 DEF IInv, TypeOK
  <2> QED BY <1>4, <2>1, TypeFromTyped
<1>7. DOMAIN channels' = 1..Len(channels)
    BY <1>4, LenProperties DEF Typed
<1>8. ChannelsDistinct'
    BY <1>1, <1>4, <1>7 DEF IInv, ChannelsDistinct, Serves
<1>9. StatesAnnounced'
    BY <1>1, <1>4, <1>5, <1>7 DEF IInv, StatesAnnounced
<1> QED BY <1>4, <1>6, <1>8, <1>9 DEF IInv

LEMMA PublishNewChannelKeeps ==
    ASSUME IInv, NEW c \in Clients, NEW topic \in Topics,
           PublishNewChannel(c, topic)
    PROVE  IInv'
<1> DEFINE new == NewChannel(topic)
           list == Append(channels, new)
           l == Len(channels)
<1>1. /\ channels \in Seq(Channel) /\ DOMAIN channels = 1..l /\ l \in Nat
      /\ Typed(channels, contexts, broadcasts)
      /\ Reaches(channels, contexts, broadcasts)
    BY InvLemma
<1>2. Typed(list, contexts, broadcasts) /\ Reaches(list, contexts, broadcasts)
    BY <1>1, NewChannelReaches
<1>3. PublishOn(l + 1, topic, list) /\ Len(contexts) < MaxMessages
    BY DEF PublishNewChannel, Publishing
<1>4. /\ new.topic = topic /\ new.as = <<>> /\ new.expired = FALSE
      /\ DOMAIN <<>> = {}
    BY DEF NewChannel
<1>5. new \in Channel
  <2>1. <<>> \in Seq(1..MaxMessages) /\ <<>> \in Seq(AcceptState)
      BY EmptySeq
  <2> QED BY <2>1 DEF NewChannel, Channel
<1> HIDE DEF new
<1>6. /\ Len(list) = l + 1 /\ list[l + 1] = new
      /\ \A j \in 1..l : list[j] = channels[j]
    BY <1>1, <1>5, AppendProperties
<1> HIDE DEF list
<1>7. /\ Typed(channels', contexts', broadcasts')
      /\ Reaches(channels', contexts', broadcasts')
      /\ Len(channels') = Len(list)
      /\ \A j \in 1..Len(list) : /\ channels'[j].topic = list[j].topic
                                 /\ channels'[j].as = list[j].as
                                 /\ channels'[j].expired = list[j].expired
  <2>1. l + 1 \in 1..Len(list)
      BY <1>1, <1>6
  <2> QED BY <1>2, <1>3, <2>1, PublishOnReaches
<1> HIDE DEF l
<1>8. /\ Len(channels') = l + 1
      /\ \A j \in 1..l : /\ channels'[j].topic = channels[j].topic
                         /\ channels'[j].as = channels[j].as
                         /\ channels'[j].expired = channels[j].expired
      /\ channels'[l + 1].topic = topic
      /\ DOMAIN channels'[l + 1].as = {}
  <2>1. l + 1 \in 1..Len(list) /\ \A j \in 1..l : j \in 1..Len(list)
      BY <1>1, <1>6
  <2> QED BY <1>4, <1>6, <1>7, <2>1
<1>9. UNCHANGED <<up, stalled, live, found, expiries>>
    BY DEF PublishNewChannel
<1>10. TypeOK'
  <2>1. live' \subseteq (1..Len(channels')) \X Keys
    <3>1. 1..l \subseteq 1..Len(channels')
        BY <1>1, <1>8
    <3>2. live \subseteq (1..l) \X Keys
        BY <1>1 DEF IInv, TypeOK
    <3> QED BY <1>9, <3>1, <3>2
  <2>2. /\ up' \in BOOLEAN /\ stalled' \subseteq Clients
        /\ found' \in 0..MaxFound /\ expiries' \in 0..MaxExpiries
      BY <1>9 DEF IInv, TypeOK
  <2> QED BY <1>7, <2>1, <2>2, TypeFromTyped
<1>11. DOMAIN channels' = 1..l + 1
    BY <1>7, <1>8, LenProperties DEF Typed
<1>12. ChannelsDistinct'
  <2> SUFFICES ASSUME NEW i \in 1..l + 1, NEW j \in 1..l + 1, i < j
               PROVE  ~IsPrefix(channels'[j].topic, channels'[i].topic)
      BY <1>11 DEF ChannelsDistinct, Serves
  <2>1. i \in 1..l /\ (j \in 1..l \/ j = l + 1)
      BY <1>1
  <2>2. CASE j \in 1..l
      BY <1>1, <1>8, <2>1, <2>2 DEF IInv, ChannelsDistinct, Serves
  <2>3. CASE j = l + 1
    <3>1. ~Serves(i, topic)
        BY <2>1, NoneServes DEF PublishNewChannel, l
    <3> QED BY <1>8, <2>1, <2>3, <3>1 DEF Serves
  <2> QED BY <2>1, <2>2, <2>3
<1>13. StatesAnnounced'
  <2> SUFFICES ASSUME NEW i \in 1..l + 1, ~channels'[i].expired,
                      NEW n \in DOMAIN channels'[i].as
               PROVE  <<i, channels'[i].as[n].hash>> \in live
      BY <1>9, <1>11 DEF StatesAnnounced
  <2>1. i # l + 1
      BY <1>8
  <2>2. i \in 1..l
      BY <1>1, <2>1
  <2> QED BY <1>1, <1>8, <2>2 DEF IInv, StatesAnnounced
<1> QED BY <1>7, <1>10, <1>12, <1>13 DEF IInv

\* A step that changes only what a channel knows of its accepting states
LEMMA SameQueues ==
    ASSUME IInv, UNCHANGED <<contexts, broadcasts>>,
           channels' \in Seq(Channel), Len(channels') = Len(channels),
           \A j \in 1..Len(channels) : /\ channels'[j].topic = channels[j].topic
                                       /\ channels'[j].pending = channels[j].pending
    PROVE  /\ Typed(channels', contexts', broadcasts')
           /\ Reaches(channels', contexts', broadcasts')
           /\ ChannelsDistinct'
<1>1. /\ DOMAIN channels = 1..Len(channels)
      /\ Typed(channels, contexts, broadcasts)
      /\ Reaches(channels, contexts, broadcasts)
      /\ \A m \in 1..Len(contexts) : contexts[m].channel \in 1..Len(channels)
    BY InvLemma
<1>2. DOMAIN channels' = 1..Len(channels)
    BY LenProperties
<1>3. Typed(channels', contexts', broadcasts')
    BY <1>1 DEF Typed
<1>4. Reaches(channels', contexts', broadcasts')
    BY <1>1 DEF Reaches
<1>5. ChannelsDistinct'
    BY <1>1, <1>2 DEF IInv, ChannelsDistinct, Serves
<1> QED BY <1>3, <1>4, <1>5

\* An accepting state inserted at the head of the list
LEMMA ConsLemma ==
    ASSUME NEW e \in AcceptState, NEW q \in Seq(AcceptState)
    PROVE  /\ Cons(e, q) \in Seq(AcceptState)
           /\ Len(q) \in Nat /\ Len(Cons(e, q)) = Len(q) + 1
           /\ Cons(e, q)[1] = e
           /\ \A n \in 2..Len(q) + 1 : Cons(e, q)[n] = q[n - 1]
<1> DEFINE one == <<e>>
<1>1. /\ one \in Seq(AcceptState) /\ Len(one) = 1 /\ one[1] = e
      /\ Len(q) \in Nat
    BY LenProperties
<1> HIDE DEF one
<1>2. /\ one \o q \in Seq(AcceptState) /\ Len(one \o q) = 1 + Len(q)
      /\ \A n \in 1..1 + Len(q) :
            (one \o q)[n] = IF n <= 1 THEN one[n] ELSE q[n - 1]
  <2>1. /\ one \o q \in Seq(AcceptState) /\ Len(one \o q) = Len(one) + Len(q)
        /\ \A n \in 1..Len(one) + Len(q) :
              (one \o q)[n] = IF n <= Len(one) THEN one[n] ELSE q[n - Len(one)]
      BY <1>1, ConcatProperties
  <2>2. Len(one) = 1
      BY <1>1
  <2> QED BY <2>1, <2>2
<1>3. (one \o q)[1] = e
  <2>1. 1 \in 1..1 + Len(q) /\ 1 <= 1
      BY <1>1
  <2> QED BY <1>1, <1>2, <2>1
<1>4. ASSUME NEW n \in 2..Len(q) + 1
      PROVE  (one \o q)[n] = q[n - 1]
  <2>1. n \in 1..1 + Len(q) /\ ~(n <= 1)
      BY <1>1
  <2> QED BY <1>2, <2>1
<1> QED BY <1>1, <1>2, <1>3, <1>4 DEF Cons, one

\* Setting or resetting the flags of accepting states keeps their keys.
LEMMA FlagsLemma ==
    ASSUME NEW as \in Seq(AcceptState)
    PROVE  /\ Announced(as) \in Seq(AcceptState)
           /\ Unannounced(as) \in Seq(AcceptState)
           /\ DOMAIN Announced(as) = DOMAIN as
           /\ DOMAIN Unannounced(as) = DOMAIN as
           /\ \A n \in DOMAIN as : /\ Announced(as)[n].hash = as[n].hash
                                   /\ Unannounced(as)[n].hash = as[n].hash
                                   /\ ~Unannounced(as)[n].announced
<1>1. DOMAIN as = 1..Len(as) /\ Len(as) \in Nat
    BY LenProperties
<1>2. \A n \in 1..Len(as) : as[n] \in AcceptState
    BY ElementOfSeq
<1>3. /\ Announced(as) \in [1..Len(as) -> AcceptState]
      /\ Unannounced(as) \in [1..Len(as) -> AcceptState]
    BY <1>1, <1>2 DEF Announced, Unannounced, AcceptState
<1>4. /\ Announced(as) \in Seq(AcceptState)
      /\ Unannounced(as) \in Seq(AcceptState)
  <2> DEFINE l == Len(as)
             f == Announced(as)
             g == Unannounced(as)
  <2>1. l \in Nat /\ f \in [1..l -> AcceptState] /\ g \in [1..l -> AcceptState]
      BY <1>1, <1>3
  <2> HIDE DEF l, f, g
  <2>2. f \in Seq(AcceptState) /\ g \in Seq(AcceptState)
      BY <2>1
  <2> QED BY <2>2 DEF f, g
<1>5. \A n \in 1..Len(as) :
         /\ Announced(as)[n] = [as[n] EXCEPT !.announced = TRUE]
         /\ Unannounced(as)[n] = [as[n] EXCEPT !.announced = FALSE]
    BY <1>1 DEF Announced, Unannounced
<1>6. \A n \in 1..Len(as) : /\ Announced(as)[n].hash = as[n].hash
                            /\ Unannounced(as)[n].hash = as[n].hash
                            /\ Unannounced(as)[n].announced = FALSE
    BY <1>2, <1>5 DEF AcceptState
<1>7. DOMAIN Announced(as) = DOMAIN as /\ DOMAIN Unannounced(as) = DOMAIN as
    BY DEF Announced, Unannounced
<1> QED BY <1>1, <1>4, <1>6, <1>7

LEMMA SubscribedPeerFoundKeeps ==
    ASSUME IInv, NEW m \in DOMAIN contexts, NEW key \in Keys,
           SubscribedPeerFound(m, key)
    PROVE  IInv'
<1> DEFINE i == contexts[m].channel
           ch == channels[i]
           added == Cons([hash |-> key, announced |-> FALSE], ch.as)
           as == IF ch.expired THEN Unannounced(added) ELSE added
           puts == {<<i, as[n].hash>> : n \in {k \in DOMAIN as : ~as[k].announced}}
           l == Len(channels)
<1>1. /\ channels \in Seq(Channel) /\ DOMAIN channels = 1..l /\ l \in Nat
      /\ i \in 1..l /\ ch \in Channel
    BY InvLemma
<1>2. /\ channels' = [channels EXCEPT ![i].as = Announced(as), ![i].expired = FALSE]
      /\ live' = live \cup puts
      /\ found < MaxFound /\ found' = found + 1
      /\ UNCHANGED <<up, stalled, contexts, broadcasts, expiries>>
    BY DEF SubscribedPeerFound
<1> HIDE DEF l
<1>3. ch.as \in Seq(AcceptState) /\ ch.expired \in BOOLEAN
    BY <1>1 DEF Channel
<1>4. added \in Seq(AcceptState)
  <2>1. [hash |-> key, announced |-> FALSE] \in AcceptState
      BY DEF AcceptState
  <2> QED BY <1>3, <2>1, ConsLemma
\* What is announced already is an accepting state the channel had before.
<1>5. \A n \in DOMAIN added : added[n].announced =>
         \E k \in DOMAIN ch.as : added[n] = ch.as[k]
  <2> DEFINE first == [hash |-> key, announced |-> FALSE]
  <2>1. first \in AcceptState /\ ~first.announced
      BY DEF AcceptState
  <2> HIDE DEF first
  <2>2. /\ Len(ch.as) \in Nat /\ DOMAIN ch.as = 1..Len(ch.as)
        /\ DOMAIN Cons(first, ch.as) = 1..Len(ch.as) + 1
        /\ Cons(first, ch.as)[1] = first
        /\ \A n \in 2..Len(ch.as) + 1 : Cons(first, ch.as)[n] = ch.as[n - 1]
    <3> DEFINE q == ch.as
               t == Cons(first, q)
    <3>1. q \in Seq(AcceptState)
        BY <1>3
    <3> HIDE DEF q
    <3>2. /\ t \in Seq(AcceptState) /\ Len(q) \in Nat /\ Len(t) = Len(q) + 1
          /\ t[1] = first
          /\ \A n \in 2..Len(q) + 1 : t[n] = q[n - 1]
        BY <2>1, <3>1, ConsLemma, Zenon
    <3> HIDE DEF t
    <3>3. DOMAIN q = 1..Len(q) /\ DOMAIN t = 1..Len(t)
        BY <3>1, <3>2, LenProperties
    <3> QED BY <3>2, <3>3 DEF q, t
  <2>3. ASSUME NEW n \in 1..Len(ch.as) + 1, Cons(first, ch.as)[n].announced
        PROVE  \E k \in 1..Len(ch.as) : Cons(first, ch.as)[n] = ch.as[k]
    <3>1. n # 1
        BY <2>1, <2>2, <2>3
    <3>2. n \in 2..Len(ch.as) + 1 /\ n - 1 \in 1..Len(ch.as)
        BY <2>2, <3>1
    <3> QED BY <2>2, <3>2
  <2> QED BY <2>2, <2>3 DEF first
<1> HIDE DEF added, ch, i
<1>6. /\ as \in Seq(AcceptState)
      /\ ch.expired => \A n \in DOMAIN as : ~as[n].announced
      /\ ~ch.expired => as = added
    BY <1>3, <1>4, FlagsLemma
<1> HIDE DEF as
<1>7. \A n \in DOMAIN as : as[n].hash \in Keys
  <2>1. \A n \in DOMAIN as : as[n] \in AcceptState
      BY <1>6, LenProperties, ElementOfSeq
  <2> QED BY <2>1 DEF AcceptState
<1>8. /\ Announced(as) \in Seq(AcceptState) /\ DOMAIN Announced(as) = DOMAIN as
      /\ \A n \in DOMAIN as : Announced(as)[n].hash = as[n].hash
    BY <1>6, FlagsLemma
<1>9. /\ channels' \in Seq(Channel) /\ Len(channels') = l
      /\ DOMAIN channels' = 1..l
      /\ \A j \in 1..l : /\ channels'[j].topic = channels[j].topic
                         /\ channels'[j].pending = channels[j].pending
      /\ channels'[i].as = Announced(as)
      /\ \A j \in 1..l : j # i => channels'[j] = channels[j]
  <2> DEFINE upd == [ch EXCEPT !.as = Announced(as), !.expired = FALSE]
  <2>1. /\ upd \in Channel /\ upd.topic = ch.topic /\ upd.pending = ch.pending
        /\ upd.as = Announced(as)
      BY <1>1, <1>8 DEF Channel
  <2>2. channels \in [1..l -> Channel]
      BY <1>1, LenProperties DEF l
  <2>3. channels' = [channels EXCEPT ![i] = upd]
      BY <1>1, <1>2, <2>2 DEF ch
  <2> HIDE DEF upd
  <2>4. /\ channels' \in [1..l -> Channel] /\ channels'[i] = upd
        /\ \A j \in 1..l : j # i => channels'[j] = channels[j]
      BY <1>1, <2>1, <2>2, <2>3
  <2>5. channels' \in Seq(Channel) /\ Len(channels') = l /\ DOMAIN channels' = 1..l
      BY <1>1, <2>4
  <2> QED BY <2>1, <2>4, <2>5 DEF ch
<1>10. /\ Typed(channels', contexts', broadcasts')
       /\ Reaches(channels', contexts', broadcasts')
       /\ ChannelsDistinct'
    BY <1>2, <1>9, SameQueues DEF l
<1>11. /\ puts \subseteq (1..l) \X Keys
       /\ \A n \in DOMAIN as : ~as[n].announced => <<i, as[n].hash>> \in puts
  <2>1. \A n \in DOMAIN as : <<i, as[n].hash>> \in (1..l) \X Keys
      BY <1>1, <1>7
  <2>2. puts \subseteq (1..l) \X Keys
      BY <2>1
  <2>3. \A n \in DOMAIN as : ~as[n].announced => <<i, as[n].hash>> \in puts
      OBVIOUS
  <2> QED BY <2>2, <2>3
<1> HIDE DEF puts
<1>12. TypeOK'
  <2>1. live' \subseteq (1..l) \X Keys
      BY <1>1, <1>2, <1>11 DEF IInv, TypeOK
  <2>2. found' \in 0..MaxFound
      BY <1>2, BoundsAssumption DEF IInv, TypeOK
  <2>3. /\ up' \in BOOLEAN /\ stalled' \subseteq Clients
        /\ expiries' \in 0..MaxExpiries
      BY <1>2 DEF IInv, TypeOK
  <2> QED BY <1>9, <1>10, <2>1, <2>2, <2>3, TypeFromTyped
<1>13. StatesAnnounced'
  <2> SUFFICES ASSUME NEW j \in 1..l, ~channels'[j].expired,
                      NEW n \in DOMAIN channels'[j].as
               PROVE  <<j, channels'[j].as[n].hash>> \in live'
      BY <1>9 DEF StatesAnnounced
  <2>1. CASE j # i
      BY <1>1, <1>2, <1>9, <2>1 DEF IInv, StatesAnnounced
  <2>2. CASE j = i
    <3>1. /\ n \in DOMAIN as /\ channels'[j].as[n].hash = as[n].hash
        BY <1>8, <1>9, <2>2
    <3>2. CASE ~as[n].announced
      <4>1. <<i, as[n].hash>> \in live'
          BY <1>2, <1>11, <3>1, <3>2
      <4> QED BY <2>2, <3>1, <4>1
    <3>3. CASE as[n].announced
      <4>1. ~ch.expired /\ as = added
          BY <1>6, <3>1, <3>3
      <4>2. PICK k \in DOMAIN ch.as : added[n] = ch.as[k]
          BY <1>5, <3>1, <3>3, <4>1
      <4>3. <<i, ch.as[k].hash>> \in live
          BY <1>1, <4>1 DEF IInv, StatesAnnounced, ch
      <4>4. as[n].hash = ch.as[k].hash
          BY <4>1, <4>2
      <4>5. <<i, as[n].hash>> \in live'
          BY <1>2, <4>3, <4>4
      <4> QED BY <2>2, <3>1, <4>5
    <3> QED BY <3>2, <3>3
  <2> QED BY <2>1, <2>2
<1> QED BY <1>10, <1>12, <1>13 DEF IInv

LEMMA ExpireKeeps ==
    ASSUME IInv, NEW i \in DOMAIN channels, Expire(i)
    PROVE  IInv'
<1> DEFINE l == Len(channels)
<1>1. /\ channels \in Seq(Channel) /\ DOMAIN channels = 1..l /\ l \in Nat
      /\ channels[i] \in Channel
    BY InvLemma
<1>2. /\ channels' = [channels EXCEPT ![i].expired = TRUE]
      /\ live' = {a \in live : a[1] # i}
      /\ expiries < MaxExpiries /\ expiries' = expiries + 1
      /\ UNCHANGED <<up, stalled, contexts, broadcasts, found>>
    BY DEF Expire
<1> HIDE DEF l
<1>3. /\ channels' \in Seq(Channel) /\ Len(channels') = l
      /\ DOMAIN channels' = 1..l
      /\ \A j \in 1..l : /\ channels'[j].topic = channels[j].topic
                         /\ channels'[j].pending = channels[j].pending
      /\ channels'[i].expired
      /\ \A j \in 1..l : j # i => channels'[j] = channels[j]
  <2> DEFINE ch == channels[i]
             upd == [ch EXCEPT !.expired = TRUE]
  <2>1. /\ upd \in Channel /\ upd.topic = ch.topic /\ upd.pending = ch.pending
        /\ upd.expired
      BY <1>1 DEF Channel
  <2>2. channels \in [1..l -> Channel]
      BY <1>1, LenProperties DEF l
  <2>3. channels' = [channels EXCEPT ![i] = upd]
      BY <1>1, <1>2, <2>2
  <2> HIDE DEF upd
  <2>4. /\ channels' \in [1..l -> Channel] /\ channels'[i] = upd
        /\ \A j \in 1..l : j # i => channels'[j] = channels[j]
      BY <1>1, <2>1, <2>2, <2>3
  <2>5. channels' \in Seq(Channel) /\ Len(channels') = l /\ DOMAIN channels' = 1..l
      BY <1>1, <2>4
  <2> QED BY <2>1, <2>4, <2>5
<1>4. /\ Typed(channels', contexts', broadcasts')
      /\ Reaches(channels', contexts', broadcasts')
      /\ ChannelsDistinct'
    BY <1>2, <1>3, SameQueues DEF l
<1>5. TypeOK'
  <2>1. live' \subseteq (1..l) \X Keys
      BY <1>1, <1>2 DEF IInv, TypeOK
  <2>2. expiries' \in 0..MaxExpiries
      BY <1>2, BoundsAssumption DEF IInv, TypeOK
  <2>3. up' \in BOOLEAN /\ stalled' \subseteq Clients /\ found' \in 0..MaxFound
      BY <1>2 DEF IInv, TypeOK
  <2> QED BY <1>3, <1>4, <2>1, <2>2, <2>3, TypeFromTyped
<1>6. StatesAnnounced'
  <2> SUFFICES ASSUME NEW j \in 1..l, ~channels'[j].expired,
                      NEW n \in DOMAIN channels'[j].as
               PROVE  <<j, channels'[j].as[n].hash>> \in live'
      BY <1>3 DEF StatesAnnounced
  <2>1. j # i /\ channels'[j] = channels[j]
      BY <1>3
  <2>2. <<j, channels[j].as[n].hash>> \in live
      BY <1>1, <2>1 DEF IInv, StatesAnnounced
  <2> QED BY <1>2, <2>1, <2>2
<1> QED BY <1>4, <1>5, <1>6 DEF IInv

\* A step that leaves channels, messages and announcements alone
LEMMA QuietKeeps ==
    ASSUME IInv, UNCHANGED <<channels, contexts, broadcasts, live, found, expiries>>,
           up' \in BOOLEAN, stalled' \subseteq Clients
    PROVE  IInv'
BY DEF IInv, TypeOK, ChannelsDistinct, Serves, StatesAnnounced

\* No step breaks the invariant.
LEMMA NextKeeps ==
    ASSUME IInv, [Next]_vars
    PROVE  IInv'
<1>1. ASSUME NEW c \in Clients, NEW topic \in Topics, PublishNoKey(c, topic)
      PROVE  IInv'
  <2>1. up' \in BOOLEAN /\ stalled' \subseteq Clients
      BY <1>1 DEF PublishNoKey, IInv, TypeOK
  <2> QED BY <1>1, <2>1, QuietKeeps DEF PublishNoKey
<1>2. CASE Shutdown
  <2>1. up' \in BOOLEAN /\ stalled' \subseteq Clients
      BY <1>2 DEF Shutdown, IInv, TypeOK
  <2> QED BY <1>2, <2>1, QuietKeeps DEF Shutdown
<1>3. CASE UNCHANGED vars
  <2>1. up' \in BOOLEAN /\ stalled' \subseteq Clients
      BY <1>3 DEF vars, IInv, TypeOK
  <2> QED BY <1>3, <2>1, QuietKeeps DEF vars
<1> QED BY <1>1, <1>2, <1>3, PublishKeeps, PublishNewChannelKeeps,
           SubscribedPeerFoundKeeps, ExpireKeeps DEF Next

\* The invariant holds initially: there are no channels and no messages.
LEMMA InitHolds == ASSUME Init PROVE IInv
<1>1. /\ \A S : <<>> \in Seq(S)
      /\ Len(<<>>) = 0 /\ DOMAIN <<>> = {}
    BY EmptySeq
<1>2. TypeOK
  <2>1. found \in 0..MaxFound /\ expiries \in 0..MaxExpiries
      BY BoundsAssumption DEF Init
  <2> QED BY <1>1, <2>1 DEF Init, TypeOK
<1>3. Reaches(channels, contexts, broadcasts)
    BY <1>1 DEF Init, Reaches
<1>4. ChannelsDistinct /\ StatesAnnounced
    BY <1>1 DEF Init, ChannelsDistinct, StatesAnnounced
<1> QED BY <1>2, <1>3, <1>4 DEF IInv

-----------------------------------------------------------------------------
(* The theorems *)

\* IInv is an invariant of the publisher side.
THEOREM Invariance == Spec => []IInv
BY InitHolds, NextKeeps, PTL DEF Spec

\* Every variable keeps its type: no search context and no announcement names
\* a channel that handle_mqtt_publish has not made.
THEOREM TypeCorrect == Spec => []TypeOK
<1>1. IInv => TypeOK
    BY DEF IInv
<1> QED BY <1>1, Invariance, PTL

\* handle_mqtt_publish looks through the whole list before it makes a channel.
THEOREM ChannelsAreDistinct == Spec => []ChannelsDistinct
<1>1. IInv => ChannelsDistinct
    BY DEF IInv
<1> QED BY <1>1, Invariance, PTL

\* A search announces the channel on which its message is broadcast, however
\* often the queue is handed to GNUNET_MULTICAST_origin_to_all.
THEOREM SearchersReachPublisher == Spec => []SearchersReach
<1>1. IInv => SearchersReach
    BY InvLemma DEF Reaches, SearchersReach
<1> QED BY <1>1, Invariance, PTL

\* subscribed_peer_found announces a channel again under the accepting states
\* found before its last expiration.
THEOREM StatesStayAnnounced == Spec => []StatesAnnounced
<1>1. IInv => StatesAnnounced
    BY DEF IInv
<1> QED BY <1>1, Invariance, PTL
=============================================================================
