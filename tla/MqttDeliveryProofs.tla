-------------------------- MODULE MqttDeliveryProofs --------------------------
(***************************************************************************)
(* Proofs about MqttDelivery, for filters, topics and payloads of every    *)
(* length: the lengths that get_regex and the copies compute are those of  *)
(* what they write, what comes out of the copies is what was put in, and   *)
(* of the messages that come in at its peer a subscriber hears those whose *)
(* topic its filter covers and no others.                                  *)
(*                                                                         *)
(* get_regex and Strlen are folds.  A fold is a function that meets an     *)
(* equation; FoldExists shows that there is one, and RegexSteps and        *)
(* StrlenSteps that it goes through a sequence item by item.  What holds   *)
(* after k items for every k is then a set of numbers, and UpToInduction   *)
(* shows that it has all of them.                                          *)
(*                                                                         *)
(* Cuts(s, m, c) says that s has m levels, and that level i is what stands *)
(* between the cuts c[i] and c[i + 1].  Shape is what the expression of a  *)
(* well-formed filter looks like, and Walk where each of its items may end *)
(* in a topic.  A topic matches if there is a walk (MatchIsWalk,           *)
(* WalkIsMatch), and there is one if the filter covers it, level by level  *)
(* (WalkIsCovered, CoveredIsWalk).                                         *)
(***************************************************************************)
EXTENDS MqttDelivery, FiniteSetTheorems, SequenceTheorems,
        WellFoundedInduction, TLAPS

-----------------------------------------------------------------------------
(* Least and largest numbers *)

\* A set of numbers has a least one.
LEMMA LeastLemma ==
    ASSUME NEW T \in SUBSET Nat, T # {}
    PROVE  \E x \in T : \A y \in T : x <= y
<1> DEFINE R == OpToRel(<, Nat)
<1>1. IsWellFoundedOn(R, Nat)
  BY NatLessThanWellFounded
<1>2. PICK x \in T : \A y \in T : <<y, x>> \notin R
  <2> HIDE DEF R
  <2> QED BY <1>1, WFMin
<1>3. ASSUME NEW y \in T
      PROVE  x <= y
  <2>1. y < x => <<y, x>> \in R
    BY DEF OpToRel
  <2> HIDE DEF R
  <2> QED BY <1>2, <2>1
<1> QED BY <1>3

\* Induction up to n, for the numbers a set has
LEMMA UpToInduction ==
    ASSUME NEW n \in Nat, NEW T, 0 \in T,
           \A k \in 1..n : k - 1 \in T => k \in T
    PROVE  \A k \in 0..n : k \in T
<1> DEFINE Bad == (0..n) \ T
<1> SUFFICES ASSUME Bad # {}
             PROVE  FALSE
  OBVIOUS
<1>1. PICK k \in Bad : \A l \in Bad : k <= l
  <2>1. Bad \in SUBSET Nat
    OBVIOUS
  <2> HIDE DEF Bad
  <2> QED BY <2>1, LeastLemma
<1>2. k \in 1..n /\ k \notin T
  OBVIOUS
<1>3. k - 1 \in 0..n /\ ~(k <= k - 1)
  BY <1>2
<1>4. k - 1 \in T
  BY <1>1, <1>3
<1> QED BY <1>2, <1>4

\* Max is the largest element of a set of positions.
LEMMA MaxLemma ==
    ASSUME NEW n \in Nat, NEW T \in SUBSET (1..n), T # {}
    PROVE  Max(T) \in T /\ \A y \in T : Max(T) >= y
<1> DEFINE U == {n - y : y \in T}
<1>1. U \in SUBSET Nat /\ U # {}
  <2>1. \A y \in T : n - y \in Nat
    OBVIOUS
  <2>2. PICK y \in T : TRUE
    OBVIOUS
  <2>3. n - y \in U
    BY <2>2
  <2> QED BY <2>1, <2>3
<1>2. PICK u \in U : \A v \in U : u <= v
  <2> HIDE DEF U
  <2> QED BY <1>1, LeastLemma
<1>3. PICK x \in T : u = n - x
  OBVIOUS
<1>4. ASSUME NEW y \in T
      PROVE  x >= y
  <2>1. n - x <= n - y
    BY <1>2, <1>3
  <2> QED BY <2>1
<1> QED BY <1>4 DEF Max

\* A set of numbers has its least.
LEMMA MinLemma ==
    ASSUME NEW T \in SUBSET Nat, T # {}
    PROVE  Min(T) \in T
<1>1. PICK x \in T : \A y \in T : x <= y
  BY LeastLemma
<1> QED BY <1>1 DEF Min

\* The largest position up to k, and those before it
LEMMA MaxUpTo ==
    ASSUME NEW k \in Nat, k # 0
    PROVE  Max(1..k) = k /\ (1..k) \ {k} = 1..(k - 1)
<1>1. Max(1..k) \in 1..k /\ \A y \in 1..k : Max(1..k) >= y
  <2> DEFINE T == 1..k
  <2>1. T \in SUBSET (1..k) /\ T # {}
    OBVIOUS
  <2> HIDE DEF T
  <2>2. Max(T) \in T /\ \A y \in T : Max(T) >= y
    BY <2>1, MaxLemma
  <2> QED BY <2>2 DEF T
<1>2. k \in 1..k
  OBVIOUS
<1>3. Max(1..k) >= k
  BY <1>1, <1>2
<1>4. Max(1..k) <= k
  BY <1>1
<1> QED BY <1>1, <1>3, <1>4

-----------------------------------------------------------------------------
(* Folds over a sequence: what FoldLeft computes exists, step by step *)

\* There is a function that meets the equation the folds choose one by.
Foldable(A, base, op, s) ==
    \E g \in [SUBSET (1..Len(s)) -> A] : \A t \in SUBSET (1..Len(s)) :
       g[t] = IF t = {} THEN base ELSE op[<<g[t \ {Max(t)}], s[Max(t)]>>]

\* The folds' equation is met by a function, whatever is folded.
LEMMA FoldExists ==
    ASSUME NEW A, NEW S, NEW base \in A, NEW op \in [A \X S -> A],
           NEW s \in Seq(S)
    PROVE  Foldable(A, base, op, s)
<1> DEFINE Meets(g, k) ==
              /\ g \in [SUBSET (1..k) -> A]
              /\ \A t \in SUBSET (1..k) :
                    g[t] = IF t = {} THEN base
                           ELSE op[<<g[t \ {Max(t)}], s[Max(t)]>>]
           Good == {k \in 0..Len(s) : \E g : Meets(g, k)}
<1>1. Len(s) \in Nat
  BY LenProperties
<1>2. ASSUME NEW k \in 0..Len(s), k # 0, NEW g, Meets(g, k - 1)
      PROVE  \E h : Meets(h, k)
  <2> DEFINE h == [t \in SUBSET (1..k) |->
                      IF t = {} THEN base
                      ELSE op[<<g[t \ {Max(t)}], s[Max(t)]>>]]
  <2>1. ASSUME NEW t \in SUBSET (1..k), t # {}
        PROVE  /\ Max(t) \in 1..k
               /\ t \ {Max(t)} \in SUBSET (1..(k - 1))
    <3>1. Max(t) \in t /\ \A y \in t : Max(t) >= y
      <4>1. k \in Nat
        BY <1>1
      <4> QED BY <2>1, <4>1, MaxLemma
    <3>2. ASSUME NEW y \in t \ {Max(t)}
          PROVE  y \in 1..(k - 1)
      <4>1. y # Max(t) /\ Max(t) >= y /\ Max(t) \in 1..k /\ y \in 1..k
        BY <3>1
      <4> QED BY <4>1
    <3> QED BY <3>1, <3>2
  <2>2. ASSUME NEW t \in SUBSET (1..k), t # {}
        PROVE  /\ h[t] = op[<<g[t \ {Max(t)}], s[Max(t)]>>]
               /\ h[t] \in A
    <3>1. g[t \ {Max(t)}] \in A
      BY <1>2, <2>1, <2>2
    <3>2. s[Max(t)] \in S
      <4>1. Max(t) \in 1..Len(s)
        BY <1>1, <1>2, <2>1, <2>2
      <4> QED BY <4>1, ElementOfSeq
    <3>3. op[<<g[t \ {Max(t)}], s[Max(t)]>>] \in A
      BY <3>1, <3>2
    <3> QED BY <2>2, <3>3
  <2>3. ASSUME NEW t \in SUBSET (1..(k - 1))
        PROVE  h[t] = g[t]
    <3>1. t \in SUBSET (1..k)
      BY <1>1
    <3> QED BY <1>2, <2>2, <2>3, <3>1
  <2>4. h \in [SUBSET (1..k) -> A]
    BY <2>2
  <2>5. ASSUME NEW t \in SUBSET (1..k)
        PROVE  h[t] = IF t = {} THEN base
                      ELSE op[<<h[t \ {Max(t)}], s[Max(t)]>>]
    BY <2>1, <2>2, <2>3
  <2> HIDE DEF h
  <2> QED BY <2>4, <2>5
<1>3. \E g : Meets(g, 0)
  <2> DEFINE g == [t \in SUBSET (1..0) |-> base]
  <2>1. \A t \in SUBSET (1..0) : t = {}
    OBVIOUS
  <2>2. Meets(g, 0)
    BY <2>1
  <2> QED BY <2>2
<1>4. \A k \in 0..Len(s) : k \in Good
  <2>1. \A k \in 1..Len(s) : k - 1 \in Good => k \in Good
    <3>1. \A k \in 1..Len(s) : k \in 0..Len(s) /\ k # 0
      BY <1>1
    <3> HIDE DEF Meets
    <3> QED BY <1>2, <3>1
  <2>2. 0 \in Good
    <3> HIDE DEF Meets
    <3> QED BY <1>1, <1>3
  <2> HIDE DEF Good
  <2> QED BY <1>1, <2>1, <2>2, UpToInduction
<1>5. \E g : Meets(g, Len(s))
  <2> HIDE DEF Meets
  <2> QED BY <1>1, <1>4
<1> QED BY <1>5 DEF Foldable

\* An expression being translated is a sequence of characters and groups.
LEMMA TranslateType ==
    ASSUME NEW S, NEW r \in Seq(S \cup Groups), NEW c \in S \cup {"+", "#"}
    PROVE  Translate(r, c) \in Seq(S \cup Groups)
<1> DEFINE A == S \cup Groups
<1>1. Front(r) \in Seq(A)
  <2>1. Len(r) \in Nat /\ \A i \in 1..Len(r) : r[i] \in A
    BY LenProperties, ElementOfSeq
  <2>2. \A i \in 1..(Len(r) - 1) : r[i] \in A
    BY <2>1
  <2> HIDE DEF A
  <2> QED BY <2>1, <2>2, SubSeqProperties DEF Front
<1>2. /\ {plus_regex, one_regex, hash_regex, once_regex} \subseteq A
      /\ c \in A \/ c = "+" \/ c = "#"
  BY DEF Groups
<1>3. \A q \in Seq(A), e \in A : Append(q, e) \in Seq(A)
  OBVIOUS
<1>4. StepBack(r) \in Seq(A)
  <2> HIDE DEF A
  <2> QED BY <1>1, <1>2, <1>3 DEF StepBack
<1>5. r \in Seq(A)
  OBVIOUS
<1> HIDE DEF A
<1>6. Translate(r, c) \in Seq(A)
  BY <1>2, <1>3, <1>4, <1>5 DEF Translate
<1> QED BY <1>6 DEF A

\* The expression of a filter is made character by character.
LEMMA RegexSteps ==
    ASSUME NEW f, NEW S, add_prefix(f) \in Seq(S \cup {"+", "#"})
    PROVE  LET p == add_prefix(f)
           IN  \E h \in [0..Len(p) -> Seq(S \cup Groups)] :
                  /\ h[0] = <<>>
                  /\ \A k \in 1..Len(p) : h[k] = Translate(h[k - 1], p[k])
                  /\ get_regex(f) = h[Len(p)]
<1> DEFINE p == add_prefix(f)
           A == Seq(S \cup Groups)
           U == S \cup {"+", "#"}
           op == [x \in A \X U |-> Translate(x[1], x[2])]
           Meets(iter) ==
              iter = [t \in SUBSET DOMAIN p |->
                         IF t = {} THEN <<>>
                         ELSE Translate(iter[t \ {Max(t)}], p[Max(t)])]
           fold == CHOOSE iter : Meets(iter)
           h == [k \in 0..Len(p) |-> fold[1..k]]
<1>1. Len(p) \in Nat /\ DOMAIN p = 1..Len(p)
  BY LenProperties
<1>2. op \in [A \X U -> A] /\ <<>> \in A
  BY TranslateType
<1>3. PICK g \in [SUBSET (1..Len(p)) -> A] : \A t \in SUBSET (1..Len(p)) :
              g[t] = IF t = {} THEN <<>>
                     ELSE op[<<g[t \ {Max(t)}], p[Max(t)]>>]
  <2>1. p \in Seq(U)
    OBVIOUS
  <2> HIDE DEF p, A, U, op
  <2>2. Foldable(A, <<>>, op, p)
    BY <1>2, <2>1, FoldExists
  <2> QED BY <2>2 DEF Foldable
<1>4. ASSUME NEW t \in SUBSET (1..Len(p)), t # {}
      PROVE  g[t] = Translate(g[t \ {Max(t)}], p[Max(t)])
  <2>1. Max(t) \in 1..Len(p)
    BY <1>1, <1>4, MaxLemma
  <2>2. p[Max(t)] \in U
    BY <2>1, ElementOfSeq
  <2>3. g[t \ {Max(t)}] \in A
    BY <1>3
  <2>4. op[<<g[t \ {Max(t)}], p[Max(t)]>>]
           = Translate(g[t \ {Max(t)}], p[Max(t)])
    BY <2>2, <2>3
  <2> HIDE DEF op
  <2> QED BY <1>3, <1>4, <2>4
<1>5. Meets(g)
  <2> HIDE DEF op, p
  <2> QED BY <1>1, <1>3, <1>4
<1>6. Meets(fold)
  <2> HIDE DEF Meets
  <2> QED BY <1>5
<1>7. get_regex(f) = fold[DOMAIN p]
  BY DEF get_regex, FoldLeft, MapThenFoldSet
<1> HIDE DEF fold
<1>8. h[0] = <<>>
  <2>1. 1..0 = {} /\ {} \in SUBSET DOMAIN p
    OBVIOUS
  <2>2. fold[{}] = <<>>
    BY <1>6, <2>1
  <2> HIDE DEF p
  <2> QED BY <1>1, <2>1, <2>2
<1>9. ASSUME NEW k \in 1..Len(p)
      PROVE  h[k] = Translate(h[k - 1], p[k])
  <2>1. Max(1..k) = k /\ (1..k) \ {k} = 1..(k - 1) /\ 1..k # {}
    BY <1>1, MaxUpTo
  <2>2. 1..k \in SUBSET DOMAIN p /\ k \in 0..Len(p) /\ k - 1 \in 0..Len(p)
    BY <1>1
  <2> HIDE DEF p
  <2>3. fold[1..k] = Translate(fold[1..(k - 1)], p[k])
    BY <1>6, <2>1, <2>2
  <2> QED BY <2>2, <2>3
<1>10. \A k \in 0..Len(p) : h[k] \in A
  <2> DEFINE T == {k \in 0..Len(p) : h[k] \in A}
  <2> HIDE DEF h, A
  <2>1. 0 \in T
    BY <1>1, <1>2, <1>8
  <2>2. \A k \in 1..Len(p) : k - 1 \in T => k \in T
    <3> SUFFICES ASSUME NEW k \in 1..Len(p), k - 1 \in T
                 PROVE  h[k] \in A
      BY <1>1
    <3>1. p[k] \in U
      BY ElementOfSeq
    <3> HIDE DEF p
    <3>2. h[k - 1] \in Seq(S \cup Groups)
      BY DEF A
    <3>3. Translate(h[k - 1], p[k]) \in Seq(S \cup Groups)
      BY <3>1, <3>2, TranslateType
    <3> QED BY <1>9, <3>3 DEF A
  <2> HIDE DEF T
  <2>3. \A k \in 0..Len(p) : k \in T
    BY <1>1, <2>1, <2>2, UpToInduction
  <2> QED BY <2>3 DEF T
<1>11. h \in [0..Len(p) -> A] /\ get_regex(f) = h[Len(p)]
  <2>1. Len(p) \in 0..Len(p)
    BY <1>1
  <2>2. h[Len(p)] = fold[1..Len(p)]
    BY <2>1
  <2> HIDE DEF p, A
  <2> QED BY <1>1, <1>7, <1>10, <2>2
<1> HIDE DEF h
<1> QED BY <1>8, <1>9, <1>11

-----------------------------------------------------------------------------
(* The length of an expression *)

\* Every item has a length.
LEMMA CharsType == \A item : Chars(item) \in Nat
BY DEF Chars

\* The length of a sequence of items is summed up item by item.
Summed(s, h) ==
    /\ h \in [0..Len(s) -> Nat]
    /\ h[0] = 0
    /\ \A k \in 1..Len(s) : h[k] = h[k - 1] + Chars(s[k])

\* Strlen is the sum, by what is summed up to each item.
LEMMA StrlenSteps ==
    ASSUME NEW S, NEW s \in Seq(S)
    PROVE  \E h : Summed(s, h) /\ Strlen(s) = h[Len(s)]
<1> DEFINE op == [x \in Nat \X S |-> x[1] + Chars(x[2])]
           Meets(iter) ==
              iter = [t \in SUBSET DOMAIN s |->
                         IF t = {} THEN 0
                         ELSE iter[t \ {Max(t)}] + Chars(s[Max(t)])]
           fold == CHOOSE iter : Meets(iter)
           h == [k \in 0..Len(s) |-> fold[1..k]]
<1>1. Len(s) \in Nat /\ DOMAIN s = 1..Len(s)
  BY LenProperties
<1>2. op \in [Nat \X S -> Nat]
  BY CharsType
<1>3. PICK g \in [SUBSET (1..Len(s)) -> Nat] : \A t \in SUBSET (1..Len(s)) :
              g[t] = IF t = {} THEN 0
                     ELSE op[<<g[t \ {Max(t)}], s[Max(t)]>>]
  <2> HIDE DEF op
  <2>1. Foldable(Nat, 0, op, s)
    BY <1>2, FoldExists
  <2> QED BY <2>1 DEF Foldable
<1>4. ASSUME NEW t \in SUBSET (1..Len(s)), t # {}
      PROVE  g[t] = g[t \ {Max(t)}] + Chars(s[Max(t)])
  <2>1. Max(t) \in 1..Len(s)
    BY <1>1, <1>4, MaxLemma
  <2>2. s[Max(t)] \in S
    BY <2>1, ElementOfSeq
  <2>3. g[t \ {Max(t)}] \in Nat
    BY <1>3
  <2>4. op[<<g[t \ {Max(t)}], s[Max(t)]>>]
           = g[t \ {Max(t)}] + Chars(s[Max(t)])
    BY <2>2, <2>3
  <2> HIDE DEF op
  <2> QED BY <1>3, <1>4, <2>4
<1>5. Meets(g)
  <2> HIDE DEF op
  <2> QED BY <1>1, <1>3, <1>4
<1>6. Meets(fold)
  <2> HIDE DEF Meets
  <2> QED BY <1>5
<1>7. Strlen(s) = fold[DOMAIN s]
  BY DEF Strlen, FoldLeft, MapThenFoldSet
<1> HIDE DEF fold
<1>8. h[0] = 0
  <2>1. 1..0 = {} /\ {} \in SUBSET DOMAIN s
    OBVIOUS
  <2>2. fold[{}] = 0
    BY <1>6, <2>1
  <2> QED BY <1>1, <2>1, <2>2
<1>9. ASSUME NEW k \in 1..Len(s)
      PROVE  h[k] = h[k - 1] + Chars(s[k])
  <2>1. Max(1..k) = k /\ (1..k) \ {k} = 1..(k - 1) /\ 1..k # {}
    BY <1>1, MaxUpTo
  <2>2. 1..k \in SUBSET DOMAIN s /\ k \in 0..Len(s) /\ k - 1 \in 0..Len(s)
    BY <1>1
  <2>3. fold[1..k] = fold[1..(k - 1)] + Chars(s[k])
    BY <1>6, <2>1, <2>2
  <2> QED BY <2>2, <2>3
<1>10. \A k \in 0..Len(s) : h[k] \in Nat
  <2> DEFINE T == {k \in 0..Len(s) : h[k] \in Nat}
  <2> HIDE DEF h
  <2>1. 0 \in T
    BY <1>1, <1>8
  <2>2. \A k \in 1..Len(s) : k - 1 \in T => k \in T
    BY <1>1, <1>9, CharsType
  <2> HIDE DEF T
  <2>3. \A k \in 0..Len(s) : k \in T
    BY <1>1, <2>1, <2>2, UpToInduction
  <2> QED BY <2>3 DEF T
<1>11. h \in [0..Len(s) -> Nat] /\ Strlen(s) = h[Len(s)]
  <2>1. Len(s) \in 0..Len(s)
    BY <1>1
  <2>2. h[Len(s)] = fold[1..Len(s)]
    BY <2>1
  <2> QED BY <1>1, <1>7, <1>10, <2>2
<1> HIDE DEF h
<1> QED BY <1>8, <1>9, <1>11 DEF Summed

\* One more item adds its length.
LEMMA StrlenAppend ==
    ASSUME NEW S, NEW s \in Seq(S), NEW e \in S
    PROVE  Strlen(s) \in Nat /\ Strlen(Append(s, e)) = Strlen(s) + Chars(e)
<1> DEFINE q == Append(s, e)
<1>1. /\ Len(s) \in Nat /\ q \in Seq(S) /\ Len(q) = Len(s) + 1
      /\ q[Len(s) + 1] = e /\ \A k \in 1..Len(s) : q[k] = s[k]
  BY LenProperties, AppendProperties
<1> HIDE DEF q
<1>2. PICK h : Summed(s, h) /\ Strlen(s) = h[Len(s)]
  BY StrlenSteps
<1>3. PICK j : Summed(q, j) /\ Strlen(q) = j[Len(q)]
  BY <1>1, StrlenSteps
<1>4. j[Len(s)] = h[Len(s)]
  <2> DEFINE T == {k \in 0..Len(s) : j[k] = h[k]}
  <2>1. 0 \in T
    BY <1>1, <1>2, <1>3 DEF Summed
  <2>2. ASSUME NEW k \in 1..Len(s), k - 1 \in T
        PROVE  k \in T
    <3>1. k \in 1..Len(q)
      BY <1>1
    <3> QED BY <1>1, <1>2, <1>3, <2>2, <3>1 DEF Summed
  <2> HIDE DEF T
  <2>3. \A k \in 0..Len(s) : k \in T
    BY <1>1, <2>1, <2>2, UpToInduction
  <2>4. Len(s) \in T
    BY <1>1, <2>3
  <2> QED BY <2>4 DEF T
<1>5. j[Len(q)] = j[Len(s)] + Chars(e)
  <2>1. Len(q) \in 1..Len(q) /\ Len(q) - 1 = Len(s)
    BY <1>1
  <2>2. j[Len(q)] = j[Len(q) - 1] + Chars(q[Len(q)])
    BY <1>3, <2>1 DEF Summed
  <2> QED BY <1>1, <2>1, <2>2
<1>6. h[Len(s)] \in Nat
  BY <1>1, <1>2 DEF Summed
<1> QED BY <1>2, <1>3, <1>4, <1>5, <1>6 DEF q

\* Nothing has no length.
LEMMA StrlenEmpty == Strlen(<<>>) = 0
<1>1. <<>> \in Seq({}) /\ Len(<<>>) = 0
  OBVIOUS
<1>2. PICK h : Summed(<<>>, h) /\ Strlen(<<>>) = h[Len(<<>>)]
  BY <1>1, StrlenSteps
<1> QED BY <1>1, <1>2 DEF Summed

\* The first n items of what has as many
LEMMA FirstItems ==
    ASSUME NEW S, NEW chars, NEW n \in Nat, \A i \in 1..n : chars[i] \in S
    PROVE  /\ SubSeq(chars, 1, n) \in Seq(S) /\ Len(SubSeq(chars, 1, n)) = n
           /\ \A i \in 1..n : SubSeq(chars, 1, n)[i] = chars[i]
<1> DEFINE q == SubSeq(chars, 1, n)
<1>1. /\ q \in Seq(S) /\ Len(q) = IF 1 <= n THEN n - 1 + 1 ELSE 0
      /\ \A i \in 1..(n - 1 + 1) : q[i] = chars[1 + i - 1]
  BY SubSeqProperties
<1> HIDE DEF q
<1>2. Len(q) = n /\ \A i \in 1..n : q[i] = chars[i]
  BY <1>1
<1> QED BY <1>1, <1>2 DEF q

\* A sequence is its front and its last item.
LEMMA FrontLemma ==
    ASSUME NEW S, NEW s \in Seq(S), s # <<>>
    PROVE  /\ Front(s) \in Seq(S) /\ Len(Front(s)) = Len(s) - 1
           /\ \A i \in 1..(Len(s) - 1) : Front(s)[i] = s[i]
           /\ Last(s) \in S /\ s = Append(Front(s), Last(s))
<1>1. Len(s) \in Nat /\ Len(s) # 0 /\ \A i \in 1..Len(s) : s[i] \in S
  BY LenProperties, ElementOfSeq, EmptySeq
<1>2. /\ Front(s) \in Seq(S) /\ Len(Front(s)) = Len(s) - 1
      /\ \A i \in 1..(Len(s) - 1) : Front(s)[i] = s[i]
  <2> DEFINE l == Len(s) - 1
  <2>1. l \in Nat /\ \A i \in 1..l : s[i] \in S
    BY <1>1
  <2> HIDE DEF l
  <2>2. /\ SubSeq(s, 1, l) \in Seq(S) /\ Len(SubSeq(s, 1, l)) = l
        /\ \A i \in 1..l : SubSeq(s, 1, l)[i] = s[i]
    BY <2>1, FirstItems
  <2>3. Front(s) = SubSeq(s, 1, l) /\ l = Len(s) - 1
    BY DEF Front, l
  <2> QED BY <2>2, <2>3
<1>3. Last(s) \in S
  BY <1>1 DEF Last
<1> DEFINE q == Append(Front(s), Last(s))
<1>4. /\ q \in Seq(S) /\ Len(q) = Len(s)
      /\ \A i \in 1..Len(s) : q[i] = s[i]
  <2>1. /\ q \in Seq(S) /\ Len(q) = Len(Front(s)) + 1
        /\ \A i \in 1..Len(Front(s)) : q[i] = Front(s)[i]
        /\ q[Len(Front(s)) + 1] = Last(s)
    BY <1>2, <1>3, AppendProperties
  <2> HIDE DEF q
  <2> QED BY <1>1, <1>2, <2>1 DEF Last
<1> HIDE DEF q
<1>5. s = q
  BY <1>1, <1>4, SeqEqual
<1> QED BY <1>2, <1>3, <1>5 DEF q

\* Without its last item a sequence is shorter by that.
LEMMA StrlenFront ==
    ASSUME NEW S, NEW s \in Seq(S), s # <<>>
    PROVE  /\ Strlen(Front(s)) \in Nat
           /\ Strlen(s) = Strlen(Front(s)) + Chars(Last(s))
<1>1. Front(s) \in Seq(S) /\ Last(s) \in S /\ s = Append(Front(s), Last(s))
  BY FrontLemma
<1>2. /\ Strlen(Front(s)) \in Nat
      /\ Strlen(Append(Front(s), Last(s))) = Strlen(Front(s)) + Chars(Last(s))
  BY <1>1, StrlenAppend
<1> QED BY <1>1, <1>2

\* The length of each item
LEMMA CharsFacts ==
    /\ Chars(prefix[1]) = 22 /\ Chars(prefix[2]) = 1
    /\ prefix = <<prefix[1], prefix[2]>>
    /\ Chars(plus_regex) = 126 /\ Chars(one_regex) = 125
    /\ Chars(hash_regex) = 130 /\ Chars(once_regex) = 129
    /\ \A c : c \notin {prefix[1]} \cup Groups => Chars(c) = 1
    /\ plus_regex # hash_regex
    /\ {prefix[1], prefix[2]} \cap {"+", "#"} = {}
<1>1. prefix[1] = "GNUNET-MQTT 0001 00000" /\ prefix[2] = " "
        /\ prefix = <<prefix[1], prefix[2]>>
  BY DEF prefix
<1> QED
  BY <1>1 DEF Chars, Groups, plus_regex, one_regex, hash_regex, once_regex

\* The last character of an item is taken back by one character.
Shrinks(item) == item \in {plus_regex, hash_regex} \/ Chars(item) = 1

\* A step back makes an expression shorter by one character.
LEMMA StepBackLength ==
    ASSUME NEW S, NEW r \in Seq(S \cup Groups), r # <<>>, Shrinks(Last(r))
    PROVE  StepBack(r) \in Seq(S \cup Groups) /\ Strlen(StepBack(r)) = Strlen(r) - 1
<1> DEFINE A == S \cup Groups
<1>1. Front(r) \in Seq(A) /\ one_regex \in A /\ once_regex \in A
  BY FrontLemma DEF Groups
<1>2. /\ Strlen(Front(r)) \in Nat
      /\ Strlen(r) = Strlen(Front(r)) + Chars(Last(r))
  BY StrlenFront
<1>3. \A e \in A : /\ Append(Front(r), e) \in Seq(A)
                   /\ Strlen(Append(Front(r), e)) = Strlen(Front(r)) + Chars(e)
  <2> HIDE DEF A
  <2> QED BY <1>1, StrlenAppend, AppendProperties
<1> HIDE DEF A
<1>4. CASE Last(r) = plus_regex
  <2>1. StepBack(r) = Append(Front(r), one_regex)
    BY <1>4, CharsFacts DEF StepBack
  <2>2. StepBack(r) \in Seq(A) /\ Strlen(StepBack(r)) = Strlen(Front(r)) + 125
    <3>1. /\ Append(Front(r), one_regex) \in Seq(A)
          /\ Strlen(Append(Front(r), one_regex))
               = Strlen(Front(r)) + Chars(one_regex)
      BY <1>1, <1>3, Zenon
    <3>2. Chars(one_regex) = 125
      BY CharsFacts
    <3> QED BY <2>1, <3>1, <3>2
  <2>3. Strlen(r) = Strlen(Front(r)) + 126
    BY <1>2, <1>4, CharsFacts
  <2> QED BY <1>2, <2>2, <2>3 DEF A
<1>5. CASE Last(r) = hash_regex
  <2>1. StepBack(r) = Append(Front(r), once_regex)
    BY <1>5, CharsFacts DEF StepBack
  <2>2. StepBack(r) \in Seq(A) /\ Strlen(StepBack(r)) = Strlen(Front(r)) + 129
    <3>1. /\ Append(Front(r), once_regex) \in Seq(A)
          /\ Strlen(Append(Front(r), once_regex))
               = Strlen(Front(r)) + Chars(once_regex)
      BY <1>1, <1>3, Zenon
    <3>2. Chars(once_regex) = 129
      BY CharsFacts
    <3> QED BY <2>1, <3>1, <3>2
  <2>3. Strlen(r) = Strlen(Front(r)) + 130
    BY <1>2, <1>5, CharsFacts
  <2> QED BY <1>2, <2>2, <2>3 DEF A
<1>6. CASE Last(r) \notin {plus_regex, hash_regex}
  <2>1. StepBack(r) = Front(r) /\ Chars(Last(r)) = 1
    BY <1>6 DEF StepBack, Shrinks
  <2> QED BY <1>1, <1>2, <2>1 DEF A
<1> QED BY <1>4, <1>5, <1>6

-----------------------------------------------------------------------------
(* What get_regex writes and what it has allocated *)

\* A character translated adds 1, a '+' 126 and a '#' 130 less the one it
\* takes back.
Growth(c) == IF c = "+" THEN 126 ELSE IF c = "#" THEN 129 ELSE 1

\* Translating a character makes an expression longer by its growth.
LEMMA TranslateLength ==
    ASSUME NEW S, NEW r \in Seq(S \cup Groups), r # <<>>, Shrinks(Last(r)),
           Strlen(r) \in Nat,
           NEW c \in S \cup {"+", "#"}, c \notin {prefix[1]} \cup Groups
    PROVE  LET q == Translate(r, c)
           IN  /\ q # <<>> /\ Shrinks(Last(q))
               /\ Strlen(q) = Strlen(r) + Growth(c)
<1> DEFINE A == S \cup Groups
<1>1. ASSUME NEW s \in Seq(A), NEW e \in A
      PROVE  /\ Append(s, e) # <<>> /\ Last(Append(s, e)) = e
             /\ Strlen(Append(s, e)) = Strlen(s) + Chars(e)
  <2> HIDE DEF A
  <2>1. /\ Append(s, e) # <<>> /\ Len(Append(s, e)) = Len(s) + 1
        /\ Append(s, e)[Len(s) + 1] = e
    BY AppendProperties
  <2> QED BY <2>1, StrlenAppend DEF Last
<1>2. plus_regex \in A /\ hash_regex \in A /\ r \in Seq(A)
  BY DEF Groups
<1>3. StepBack(r) \in Seq(A) /\ Strlen(StepBack(r)) = Strlen(r) - 1
  BY StepBackLength
<1>4. CASE c = "+"
  <2>1. Translate(r, c) = Append(r, plus_regex)
    BY <1>4 DEF Translate
  <2> HIDE DEF A
  <2>2. /\ Translate(r, c) # <<>> /\ Last(Translate(r, c)) = plus_regex
        /\ Strlen(Translate(r, c)) = Strlen(r) + Chars(plus_regex)
    <3>1. /\ Append(r, plus_regex) # <<>>
          /\ Last(Append(r, plus_regex)) = plus_regex
          /\ Strlen(Append(r, plus_regex)) = Strlen(r) + Chars(plus_regex)
      BY <1>1, <1>2, Zenon
    <3> QED BY <2>1, <3>1
  <2>3. Chars(plus_regex) = 126
    BY CharsFacts
  <2> QED BY <1>4, <2>2, <2>3 DEF Shrinks, Growth
<1>5. CASE c = "#"
  <2>1. Translate(r, c) = Append(StepBack(r), hash_regex)
    BY <1>5 DEF Translate
  <2> HIDE DEF A
  <2>2. /\ Translate(r, c) # <<>> /\ Last(Translate(r, c)) = hash_regex
        /\ Strlen(Translate(r, c)) = Strlen(StepBack(r)) + Chars(hash_regex)
    <3>1. /\ Append(StepBack(r), hash_regex) # <<>>
          /\ Last(Append(StepBack(r), hash_regex)) = hash_regex
          /\ Strlen(Append(StepBack(r), hash_regex))
               = Strlen(StepBack(r)) + Chars(hash_regex)
      BY <1>1, <1>2, <1>3, Zenon
    <3> QED BY <2>1, <3>1
  <2>3. Chars(hash_regex) = 130
    BY CharsFacts
  <2> QED BY <1>3, <1>5, <2>2, <2>3 DEF Shrinks, Growth
<1>6. CASE c # "+" /\ c # "#"
  <2>1. Translate(r, c) = Append(r, c) /\ c \in A /\ Chars(c) = 1
    BY <1>6, CharsFacts DEF Translate
  <2> HIDE DEF A
  <2> QED BY <1>1, <1>2, <1>6, <2>1 DEF Shrinks, Growth
<1> QED BY <1>4, <1>5, <1>6

\* How often c is among the first k characters of f
CountUpTo(c, f, k) == Cardinality({i \in 1..k : f[i] = c})

\* A character more is counted or not.
LEMMA CountStep ==
    ASSUME NEW c, NEW f, NEW k \in Nat
    PROVE  /\ CountUpTo(c, f, k) \in Nat
           /\ CountUpTo(c, f, 0) = 0
           /\ k # 0 => CountUpTo(c, f, k) =
                 CountUpTo(c, f, k - 1) + (IF f[k] = c THEN 1 ELSE 0)
<1> DEFINE C(n) == {i \in 1..n : f[i] = c}
<1>1. \A n \in Nat : IsFiniteSet(C(n)) /\ Cardinality(C(n)) \in Nat
  <2> SUFFICES ASSUME NEW n \in Nat
               PROVE  IsFiniteSet(C(n)) /\ Cardinality(C(n)) \in Nat
    OBVIOUS
  <2>1. IsFiniteSet(1..n) /\ C(n) \subseteq 1..n
    BY FS_Interval
  <2>2. IsFiniteSet(C(n))
    BY <2>1, FS_Subset
  <2> QED BY <2>2, FS_CardinalityType
<1>2. CountUpTo(c, f, 0) = 0
  <2>1. C(0) = {}
    OBVIOUS
  <2> QED BY <2>1, FS_EmptySet DEF CountUpTo
<1>3. ASSUME k # 0
      PROVE  CountUpTo(c, f, k) =
                 CountUpTo(c, f, k - 1) + (IF f[k] = c THEN 1 ELSE 0)
  <2>1. k - 1 \in Nat /\ k \notin C(k - 1)
    BY <1>3
  <2>2. IsFiniteSet(C(k - 1)) /\ Cardinality(C(k - 1)) \in Nat
    BY <1>1, <2>1
  <2>3. /\ CountUpTo(c, f, k) = Cardinality(C(k))
        /\ CountUpTo(c, f, k - 1) = Cardinality(C(k - 1))
    BY DEF CountUpTo
  <2> HIDE DEF C
  <2>4. CASE f[k] = c
    <3>1. C(k) = C(k - 1) \cup {k}
      BY <1>3, <2>4 DEF C
    <3>2. Cardinality(C(k - 1) \cup {k}) = Cardinality(C(k - 1)) + 1
      BY <2>1, <2>2, FS_AddElement
    <3> QED BY <2>4, <2>3, <3>1, <3>2
  <2>5. CASE f[k] # c
    <3>1. C(k) = C(k - 1)
      BY <1>3, <2>5 DEF C
    <3> QED BY <2>2, <2>5, <2>3, <3>1
  <2> QED BY <2>4, <2>5
<1>4. CountUpTo(c, f, k) \in Nat
  BY <1>1 DEF CountUpTo
<1> QED BY <1>2, <1>3, <1>4

\* The filter with the prefix: two items, and the characters
LEMMA PrefixedLemma ==
    ASSUME NEW S, NEW f \in Seq(S)
    PROVE  /\ Len(f) \in Nat /\ Len(add_prefix(f)) = Len(f) + 2
           /\ add_prefix(f) \in Seq(S \cup {prefix[1], prefix[2]})
           /\ add_prefix(f)[1] = prefix[1] /\ add_prefix(f)[2] = prefix[2]
           /\ \A k \in 1..Len(f) : add_prefix(f)[k + 2] = f[k] /\ f[k] \in S
<1> DEFINE U == S \cup {prefix[1], prefix[2]}
<1>1. prefix \in Seq(U) /\ Len(prefix) = 2 /\ f \in Seq(U)
  <2> DEFINE a == prefix[1]
             b == prefix[2]
  <2>1. prefix = <<a, b>> /\ a \in U /\ b \in U
    BY CharsFacts
  <2>2. f \in Seq(U)
    BY SeqMonotonic
  <2> HIDE DEF U, a, b
  <2>3. <<a, b>> \in Seq(U) /\ Len(<<a, b>>) = 2
    BY <2>1
  <2> QED BY <2>1, <2>2, <2>3
<1>2. Len(f) \in Nat /\ \A k \in 1..Len(f) : f[k] \in S
  BY LenProperties, ElementOfSeq
<1> DEFINE p == prefix \o f
<1>3. /\ p \in Seq(U) /\ Len(p) = Len(prefix) + Len(f)
      /\ \A i \in 1..(Len(prefix) + Len(f)) :
            p[i] = IF i <= Len(prefix) THEN prefix[i] ELSE f[i - Len(prefix)]
  <2> HIDE DEF U
  <2> QED BY <1>1, ConcatProperties
<1>4. add_prefix(f) = p
  BY DEF add_prefix
<1> HIDE DEF p, U
<1>5. Len(p) = Len(f) + 2
  BY <1>1, <1>2, <1>3
<1>6. \A i \in 1..(2 + Len(f)) : p[i] = IF i <= 2 THEN prefix[i] ELSE f[i - 2]
  BY <1>1, <1>3
<1>7. p[1] = prefix[1] /\ p[2] = prefix[2]
  <2>1. 1 \in 1..(2 + Len(f)) /\ 2 \in 1..(2 + Len(f))
    BY <1>2
  <2> QED BY <1>6, <2>1
<1>8. ASSUME NEW k \in 1..Len(f)
      PROVE  p[k + 2] = f[k]
  <2>1. k + 2 \in 1..(2 + Len(f)) /\ ~(k + 2 <= 2) /\ (k + 2) - 2 = k
    BY <1>2
  <2> QED BY <1>6, <2>1
<1> QED BY <1>2, <1>3, <1>4, <1>5, <1>7, <1>8 DEF U

\* The prefixed filter is 23 characters longer than the filter.
LEMMA PrefixedLength ==
    ASSUME NEW S, NEW f \in Seq(S), S \cap ({prefix[1]} \cup Groups) = {}
    PROVE  Strlen(add_prefix(f)) = 23 + Len(f)
<1> DEFINE p == add_prefix(f)
           n == Len(f)
<1>1. /\ p \in Seq(S \cup {prefix[1], prefix[2]})
      /\ p[1] = prefix[1] /\ p[2] = prefix[2]
      /\ \A k \in 1..n : p[k + 2] = f[k] /\ f[k] \in S
  BY PrefixedLemma
<1>2. n \in Nat /\ Len(p) = n + 2
  BY PrefixedLemma
<1> HIDE DEF p, n
<1>3. PICK h : Summed(p, h) /\ Strlen(p) = h[Len(p)]
  BY <1>1, StrlenSteps
<1>4. h[2] = 23
  <2>1. 1 \in 1..Len(p) /\ 2 \in 1..Len(p)
    BY <1>2
  <2>2. h[1] = h[0] + Chars(p[1]) /\ h[2] = h[1] + Chars(p[2]) /\ h[0] = 0
    <3>1. /\ h[1] = h[1 - 1] + Chars(p[1]) /\ h[2] = h[2 - 1] + Chars(p[2])
          /\ h[0] = 0
      BY <1>3, <2>1 DEF Summed
    <3>2. 1 - 1 = 0 /\ 2 - 1 = 1
      OBVIOUS
    <3> QED BY <3>1, <3>2
  <2>3. Chars(p[1]) = 22 /\ Chars(p[2]) = 1
    BY <1>1, CharsFacts
  <2> QED BY <2>2, <2>3
<1>5. ASSUME NEW k \in 1..n
      PROVE  h[k + 2] = h[k + 1] + 1
  <2>1. k + 2 \in 1..Len(p) /\ (k + 2) - 1 = k + 1
    BY <1>2
  <2>2. h[k + 2] = h[(k + 2) - 1] + Chars(p[k + 2])
    BY <1>3, <2>1 DEF Summed
  <2>3. Chars(p[k + 2]) = 1
    <3>1. p[k + 2] \in S
      BY <1>1
    <3> QED BY <3>1, CharsFacts
  <2> QED BY <2>1, <2>2, <2>3
<1> DEFINE T == {k \in 0..n : h[k + 2] = 23 + k}
<1>6. \A k \in 0..n : k \in T
  <2>1. 0 \in T
    BY <1>2, <1>4
  <2>2. ASSUME NEW k \in 1..n, k - 1 \in T
        PROVE  k \in T
    <3>1. h[(k - 1) + 2] = 23 + (k - 1)
      BY <2>2
    <3>2. (k - 1) + 2 = k + 1 /\ k \in 0..n
      BY <1>2
    <3>3. h[k + 1] = 23 + (k - 1)
      BY <3>1, <3>2
    <3>4. h[k + 2] = 23 + k
      BY <1>2, <1>5, <3>3
    <3> QED BY <3>2, <3>4
  <2> HIDE DEF T
  <2> QED BY <1>2, <2>1, <2>2, UpToInduction
<1>7. h[n + 2] = 23 + n
  BY <1>2, <1>6
<1> QED BY <1>2, <1>3, <1>7 DEF p, n

\* One character more of the filter, by the three ways it is written.
LEMMA GrowthSum ==
    ASSUME NEW x \in Nat, NEW y \in Nat, NEW z \in Nat, NEW m \in Nat,
           x = 23 + (m - 1) + 125 * y + 128 * z
    PROVE  /\ x + 126 = 23 + m + 125 * (y + 1) + 128 * z
           /\ x + 129 = 23 + m + 125 * y + 128 * (z + 1)
           /\ x + 1 = 23 + m + 125 * y + 128 * z
OBVIOUS

\* The expression's length counts the filter's characters, and its wildcards.
LEMMA RegexLength ==
    ASSUME NEW S, NEW f \in Seq(S), S \cap ({prefix[1]} \cup Groups) = {}
    PROVE  Strlen(get_regex(f)) =
             23 + Len(f) + 125 * Count("+", f) + 128 * Count("#", f)
<1> DEFINE p == add_prefix(f)
           n == Len(f)
           U == S \cup {prefix[1], prefix[2]}
           P(k) == CountUpTo("+", f, k)
           H(k) == CountUpTo("#", f, k)
<1>1. /\ p \in Seq(U) /\ p[1] = prefix[1] /\ p[2] = prefix[2]
      /\ \A k \in 1..n : p[k + 2] = f[k] /\ f[k] \in S
  BY PrefixedLemma
<1>2. n \in Nat /\ Len(p) = n + 2
  BY PrefixedLemma
<1>3. \A k \in Nat :
         /\ P(k) \in Nat /\ H(k) \in Nat /\ P(0) = 0 /\ H(0) = 0
         /\ k # 0 => /\ P(k) = P(k - 1) + (IF f[k] = "+" THEN 1 ELSE 0)
                     /\ H(k) = H(k - 1) + (IF f[k] = "#" THEN 1 ELSE 0)
  BY CountStep
<1>4. Count("+", f) = P(n) /\ Count("#", f) = H(n)
  <2>1. DOMAIN f = 1..n
    BY LenProperties
  <2> QED BY <2>1 DEF Count, CountUpTo
<1> HIDE DEF p, n, P, H
<1>5. PICK h \in [0..Len(p) -> Seq(U \cup Groups)] :
              /\ h[0] = <<>>
              /\ \A k \in 1..Len(p) : h[k] = Translate(h[k - 1], p[k])
              /\ get_regex(f) = h[Len(p)]
  <2>1. p \in Seq(U \cup {"+", "#"})
    <3> HIDE DEF U
    <3> QED BY <1>1, SeqMonotonic
  <2> HIDE DEF U
  <2> QED BY <2>1, RegexSteps DEF p
<1> HIDE DEF U
<1>6. h[2] # <<>> /\ Shrinks(Last(h[2])) /\ Strlen(h[2]) = 23
  <2> DEFINE a == prefix[1]
             b == prefix[2]
  <2>1. 1 \in 1..Len(p) /\ 2 \in 1..Len(p) /\ 1 - 1 = 0 /\ 2 - 1 = 1
    BY <1>2
  <2>2. h[1] = Translate(<<>>, a) /\ h[2] = Translate(h[1], b)
    <3>1. h[1] = Translate(h[1 - 1], p[1]) /\ h[2] = Translate(h[2 - 1], p[2])
      BY <1>5, <2>1
    <3> QED BY <1>1, <1>5, <2>1, <3>1
  <2>3. /\ a # "+" /\ a # "#" /\ b # "+" /\ b # "#"
        /\ Chars(a) = 22 /\ Chars(b) = 1
    BY CharsFacts
  <2>4. h[1] = Append(<<>>, a) /\ h[2] = Append(h[1], b)
    BY <2>2, <2>3 DEF Translate
  <2> HIDE DEF a, b
  <2>5. <<>> \in Seq({a, b}) /\ a \in {a, b} /\ b \in {a, b}
    OBVIOUS
  <2>6. h[1] \in Seq({a, b}) /\ Strlen(h[1]) = 22
    <3>1. Append(<<>>, a) \in Seq({a, b})
      BY <2>5, AppendProperties
    <3>2. Strlen(Append(<<>>, a)) = Strlen(<<>>) + Chars(a)
      BY <2>5, StrlenAppend
    <3> QED BY <2>3, <2>4, <3>1, <3>2, StrlenEmpty
  <2>7. Strlen(Append(h[1], b)) = 23
    <3>1. Strlen(Append(h[1], b)) = Strlen(h[1]) + Chars(b)
      BY <2>5, <2>6, StrlenAppend
    <3> QED BY <2>3, <2>6, <3>1
  <2>8. Append(h[1], b) # <<>> /\ Last(Append(h[1], b)) = b
    <3>1. /\ Append(h[1], b) # <<>> /\ Len(Append(h[1], b)) = Len(h[1]) + 1
          /\ Append(h[1], b)[Len(h[1]) + 1] = b
      BY <2>5, <2>6, AppendProperties
    <3> QED BY <3>1 DEF Last
  <2> QED BY <2>3, <2>4, <2>7, <2>8 DEF Shrinks
<1>7. ASSUME NEW k \in 1..n,
             h[k + 1] # <<>>, Shrinks(Last(h[k + 1])), Strlen(h[k + 1]) \in Nat
      PROVE  /\ h[k + 2] # <<>> /\ Shrinks(Last(h[k + 2]))
             /\ Strlen(h[k + 2]) = Strlen(h[k + 1]) + Growth(f[k])
  <2>1. k + 2 \in 1..Len(p) /\ (k + 2) - 1 = k + 1 /\ k + 1 \in 0..Len(p)
    BY <1>2
  <2>2. h[k + 2] = Translate(h[k + 1], f[k])
    <3>1. h[k + 2] = Translate(h[(k + 2) - 1], p[k + 2])
      BY <1>5, <2>1
    <3> QED BY <1>1, <2>1, <3>1
  <2>3. h[k + 1] \in Seq(U \cup Groups)
    BY <1>5, <2>1
  <2>4. f[k] \in U \cup {"+", "#"} /\ f[k] \notin {prefix[1]} \cup Groups
    BY <1>1 DEF U
  <2> QED BY <1>7, <2>2, <2>3, <2>4, TranslateLength
<1> DEFINE T == {k \in 0..n :
                    /\ h[k + 2] # <<>> /\ Shrinks(Last(h[k + 2]))
                    /\ Strlen(h[k + 2]) = 23 + k + 125 * P(k) + 128 * H(k)}
<1>8. \A k \in 0..n : k \in T
  <2>1. 0 \in T
    BY <1>2, <1>3, <1>6
  <2>2. ASSUME NEW k \in 1..n, k - 1 \in T
        PROVE  k \in T
    <3>1. (k - 1) + 2 = k + 1 /\ k \in 0..n /\ k \in Nat /\ k # 0
            /\ k - 1 \in Nat
      BY <1>2
    <3>2. /\ h[k + 1] # <<>> /\ Shrinks(Last(h[k + 1]))
          /\ Strlen(h[k + 1]) = 23 + (k - 1) + 125 * P(k - 1) + 128 * H(k - 1)
      BY <2>2, <3>1
    <3>3. /\ P(k - 1) \in Nat /\ H(k - 1) \in Nat
          /\ P(k) = P(k - 1) + (IF f[k] = "+" THEN 1 ELSE 0)
          /\ H(k) = H(k - 1) + (IF f[k] = "#" THEN 1 ELSE 0)
      BY <1>3, <3>1
    <3>4. Strlen(h[k + 1]) \in Nat
      BY <3>1, <3>2, <3>3, SMTT(30)
    <3>5. /\ h[k + 2] # <<>> /\ Shrinks(Last(h[k + 2]))
          /\ Strlen(h[k + 2]) = Strlen(h[k + 1]) + Growth(f[k])
      BY <1>7, <3>2, <3>4
    <3>6. /\ k \in Nat /\ Strlen(h[k + 1]) \in Nat
          /\ P(k - 1) \in Nat /\ H(k - 1) \in Nat
      BY <3>1, <3>3, <3>4
    <3>7. Strlen(h[k + 2]) = 23 + k + 125 * P(k) + 128 * H(k)
      <4>1. PICK x \in Nat, y \in Nat, z \in Nat :
               x = Strlen(h[k + 1]) /\ y = P(k - 1) /\ z = H(k - 1)
        BY <3>6, Zenon
      <4>2. /\ x + 126 = 23 + k + 125 * (y + 1) + 128 * z
            /\ x + 129 = 23 + k + 125 * y + 128 * (z + 1)
            /\ x + 1 = 23 + k + 125 * y + 128 * z
        <5>1. x = 23 + (k - 1) + 125 * y + 128 * z
          BY <3>2, <4>1
        <5> QED BY <3>6, <5>1, GrowthSum
      <4>3. CASE f[k] = "+"
        <5>1. /\ P(k) = P(k - 1) + 1 /\ H(k) = H(k - 1)
              /\ Strlen(h[k + 2]) = Strlen(h[k + 1]) + 126
          BY <3>3, <3>5, <4>3 DEF Growth
        <5> QED BY <4>1, <4>2, <5>1
      <4>4. CASE f[k] = "#"
        <5>1. /\ P(k) = P(k - 1) /\ H(k) = H(k - 1) + 1
              /\ Strlen(h[k + 2]) = Strlen(h[k + 1]) + 129
          BY <3>3, <3>5, <4>4 DEF Growth
        <5> QED BY <4>1, <4>2, <5>1
      <4>5. CASE f[k] # "+" /\ f[k] # "#"
        <5>1. /\ P(k) = P(k - 1) /\ H(k) = H(k - 1)
              /\ Strlen(h[k + 2]) = Strlen(h[k + 1]) + 1
          BY <3>3, <3>5, <4>5 DEF Growth
        <5> QED BY <4>1, <4>2, <5>1
      <4> QED BY <4>3, <4>4, <4>5
    <3> QED BY <3>1, <3>5, <3>7
  <2> HIDE DEF T
  <2> QED BY <1>2, <2>1, <2>2, UpToInduction
<1>9. n \in T
  BY <1>2, <1>8
<1>10. Strlen(h[n + 2]) = 23 + n + 125 * P(n) + 128 * H(n)
  BY <1>9
<1> QED BY <1>2, <1>4, <1>5, <1>10 DEF n

(***************************************************************************)
(* get_regex stays within its buffer if, and only if, the filter has at    *)
(* most one '#', whatever the '#' stands behind and takes back.            *)
(***************************************************************************)
LEMMA BufferLemma ==
    ASSUME NEW S, NEW f \in Seq(S), S \cap ({prefix[1]} \cup Groups) = {}
    PROVE  /\ Written(f) \in Nat /\ Allocated(f) \in Int
           /\ Written(f) <= Allocated(f) <=> Count("#", f) <= 1
<1> DEFINE n == Len(f)
           P == Count("+", f)
           H == Count("#", f)
<1>1. n \in Nat /\ P \in Nat /\ H \in Nat
  <2>1. n \in Nat /\ DOMAIN f = 1..n
    BY LenProperties
  <2>2. CountUpTo("+", f, n) \in Nat /\ CountUpTo("#", f, n) \in Nat
    BY <2>1, CountStep
  <2> QED BY <2>1, <2>2 DEF Count, CountUpTo
<1>2. Strlen(get_regex(f)) = 23 + n + 125 * P + 128 * H
  BY RegexLength
<1>3. Strlen(add_prefix(f)) = 23 + n
  BY PrefixedLength
<1>4. Chars(plus_regex) = 126 /\ Chars(hash_regex) = 130
  BY CharsFacts
<1>5. HashExists(f) = IF H = 0 THEN 0 ELSE 1
  BY DEF HashExists
<1>6. Written(f) = 24 + n + 125 * P + 128 * H
  BY <1>1, <1>2 DEF Written
<1>7. Allocated(f) = (23 + n) - P - HashExists(f) + P * 126
                       + HashExists(f) * 130 + 1
  BY <1>3, <1>4 DEF Allocated
<1> HIDE DEF n, P, H
<1>8. Allocated(f) = 24 + n + 125 * P + (IF H = 0 THEN 0 ELSE 129)
  BY <1>1, <1>5, <1>7
<1>9. Written(f) <= Allocated(f) <=> H <= 1
  BY <1>1, <1>6, <1>8
<1>10. Written(f) \in Nat /\ Allocated(f) \in Int
  BY <1>1, <1>6, <1>8
<1> QED BY <1>9, <1>10 DEF H

\* No wildcard is left in an expression.
LEMMA RegexItems ==
    ASSUME NEW f, NEW S, f \in Seq(S)
    PROVE  ToSet(get_regex(f)) \subseteq
             (ToSet(add_prefix(f)) \ {"+", "#"}) \cup Groups
<1> DEFINE p == add_prefix(f)
           U == ToSet(p) \ {"+", "#"}
<1>1. p \in Seq(S \cup {prefix[1], prefix[2]})
  BY PrefixedLemma
<1>2. p \in Seq(ToSet(p))
  <2> HIDE DEF p
  <2>1. Len(p) \in Nat /\ DOMAIN p = 1..Len(p) /\ p \in [1..Len(p) -> ToSet(p)]
    BY <1>1, LenProperties DEF ToSet
  <2> QED BY <2>1
<1>3. p \in Seq(U \cup {"+", "#"})
  <2> HIDE DEF p
  <2>1. ToSet(p) \subseteq U \cup {"+", "#"}
    OBVIOUS
  <2> HIDE DEF U
  <2> QED BY <1>2, <2>1, SeqMonotonic
<1>4. get_regex(f) \in Seq(U \cup Groups)
  <2>1. Len(p) \in Nat
    BY <1>2, LenProperties
  <2>2. Len(p) \in 0..Len(p)
    BY <2>1
  <2> HIDE DEF U
  <2>3. PICK h \in [0..Len(p) -> Seq(U \cup Groups)] : get_regex(f) = h[Len(p)]
    BY <1>3, RegexSteps
  <2> QED BY <2>2, <2>3
<1> DEFINE r == get_regex(f)
<1> HIDE DEF r, U
<1>5. r \in Seq(U \cup Groups) => ToSet(r) \subseteq U \cup Groups
  BY DEF ToSet
<1> QED BY <1>4, <1>5 DEF r, U

\* A prefixed beginning of a filter has no items that the prefixed filter
\* has not.
LEMMA PrefixedItems ==
    ASSUME NEW f, f \in Seq(ToSet(f)), NEW g \in Seq(ToSet(f))
    PROVE  ToSet(add_prefix(g)) \subseteq ToSet(add_prefix(f))
<1> DEFINE S == ToSet(f)
           U == S \cup {prefix[1], prefix[2]}
<1>1. add_prefix(g) \in Seq(U) => ToSet(add_prefix(g)) \subseteq U
  <2> HIDE DEF U
  <2> QED BY DEF ToSet
<1>2. add_prefix(g) \in Seq(U)
  <2> HIDE DEF S
  <2> QED BY PrefixedLemma DEF S
<1>3. S \subseteq ToSet(add_prefix(f))
  <2>1. ASSUME NEW k \in 1..Len(f)
        PROVE  f[k] \in ToSet(add_prefix(f))
    <3>1. /\ Len(f) \in Nat /\ add_prefix(f)[k + 2] = f[k]
          /\ Len(add_prefix(f)) = Len(f) + 2
          /\ add_prefix(f) \in Seq(U)
      BY PrefixedLemma
    <3>2. k + 2 \in DOMAIN add_prefix(f)
      BY <3>1, LenProperties
    <3> QED BY <3>1, <3>2 DEF ToSet
  <2>2. DOMAIN f = 1..Len(f)
    BY LenProperties
  <2> QED BY <2>1, <2>2 DEF ToSet
<1>4. {prefix[1], prefix[2]} \subseteq ToSet(add_prefix(f))
  <2>1. /\ Len(f) \in Nat /\ Len(add_prefix(f)) = Len(f) + 2
        /\ add_prefix(f) \in Seq(U)
        /\ add_prefix(f)[1] = prefix[1] /\ add_prefix(f)[2] = prefix[2]
    BY PrefixedLemma
  <2>2. 1 \in DOMAIN add_prefix(f) /\ 2 \in DOMAIN add_prefix(f)
    BY <2>1, LenProperties
  <2>3. add_prefix(f)[1] \in ToSet(add_prefix(f))
          /\ add_prefix(f)[2] \in ToSet(add_prefix(f))
    BY <2>2 DEF ToSet
  <2> QED BY <2>1, <2>3
<1> QED BY <1>1, <1>2, <1>3, <1>4

-----------------------------------------------------------------------------
(* C strings *)

\* Characters before the NUL that is written over the n-th are the string.
LEMMA ExtractOf ==
    ASSUME NEW S, NEW s \in Seq(S), NUL \notin ToSet(s),
           NEW chars, NEW n \in Nat, n = Len(s) + 1,
           \A i \in 1..Len(s) : chars[i] = s[i]
    PROVE  Extract(chars, n) = s
<1>1. Len(s) \in Nat /\ DOMAIN s = 1..Len(s) /\ n - 1 = Len(s)
  BY LenProperties
<1>2. SubSeq(chars, 1, n - 1) = s
  <2> DEFINE sub == SubSeq(chars, 1, n - 1)
  <2>1. n - 1 \in Nat /\ \A i \in 1..(n - 1) : chars[i] \in S
    BY <1>1, ElementOfSeq
  <2>3. /\ sub \in Seq(S) /\ Len(sub) = n - 1
        /\ \A i \in 1..(n - 1) : sub[i] = chars[i]
    BY <2>1, FirstItems
  <2> HIDE DEF sub
  <2>4. Len(sub) = Len(s)
    BY <1>1, <2>3
  <2>5. \A i \in 1..Len(sub) : sub[i] = s[i]
    <3> TAKE i \in 1..Len(sub)
    <3>1. i \in 1..(n - 1) /\ i \in 1..Len(s)
      BY <1>1, <2>4
    <3> QED BY <2>3, <3>1
  <2>6. sub = s
    BY <2>3, <2>4, <2>5, SeqEqual
  <2> QED BY <2>6 DEF sub
<1>3. {i \in DOMAIN s : s[i] = NUL} = {}
  BY DEF ToSet
<1> QED BY <1>2, <1>3 DEF Extract, CString

\* What topic_len is, and when it is the length
LEMMA TopicLenLemma ==
    ASSUME NEW S, NEW t \in Seq(S)
    PROVE  /\ TopicLen(t) \in 0..TopicLenLimit - 1
           /\ TopicLen(t) <= Len(t) + 1
           /\ Fits(t) => TopicLen(t) = Len(t) + 1
<1>1. Len(t) \in Nat /\ Len(t) + 1 \in Nat
  BY LenProperties
<1> QED BY <1>1, TopicLenAssumption DEF TopicLen, Fits

\* The topic of a message and its NUL, as far as topic_len counts them
LEMMA MessageLemma ==
    ASSUME NEW S, NEW t \in Seq(S), NEW D, NEW data \in Seq(D)
    PROVE  /\ MessageOf(t, data).topic_len = TopicLen(t)
           /\ DataOf(MessageOf(t, data)) = data
           /\ \A i \in 1..TopicLen(t) - 1 : MessageOf(t, data).chars[i] = t[i]
<1> DEFINE n == TopicLen(t)
           head == SubSeq(Append(t, NUL), 1, n)
           chars == head \o data
           U == S \cup {NUL} \cup D
<1>1. MessageOf(t, data) = [topic_len |-> n, chars |-> chars]
  BY DEF MessageOf
<1>2. Len(t) \in Nat /\ Len(data) \in Nat /\ n \in Nat /\ n <= Len(t) + 1
  BY LenProperties, TopicLenLemma, TopicLenAssumption
<1>3. /\ Append(t, NUL) \in Seq(U)
      /\ Len(Append(t, NUL)) = Len(t) + 1
      /\ \A i \in 1..Len(t) : Append(t, NUL)[i] = t[i]
  <2>1. t \in Seq(U) /\ NUL \in U
    BY SeqMonotonic
  <2> HIDE DEF U
  <2> QED BY <2>1, AppendProperties
<1>4. /\ head \in Seq(U) /\ Len(head) = n
      /\ \A i \in 1..n : head[i] = Append(t, NUL)[i]
  <2> HIDE DEF U, n
  <2>1. \A i \in 1..n : Append(t, NUL)[i] \in U
    <3> TAKE i \in 1..n
    <3>1. i \in 1..Len(Append(t, NUL))
      BY <1>2, <1>3
    <3> QED BY <1>3, <3>1, ElementOfSeq
  <2> QED BY <1>2, <2>1, FirstItems
<1>5. /\ chars \in Seq(U) /\ Len(chars) = n + Len(data)
      /\ \A i \in 1..n + Len(data) :
            chars[i] = IF i <= n THEN head[i] ELSE data[i - n]
  <2>1. data \in Seq(U)
    BY SeqMonotonic
  <2> HIDE DEF U, n, head
  <2> QED BY <1>4, <2>1, ConcatProperties
<1> HIDE DEF n, head, chars, U
<1>6. SubSeq(chars, n + 1, Len(chars)) = data
  <2> DEFINE sub == SubSeq(chars, n + 1, n + Len(data))
  <2>1. ASSUME NEW i \in n + 1..n + Len(data)
        PROVE  chars[i] \in D
    <3>1. i \in 1..n + Len(data) /\ ~(i <= n) /\ i - n \in 1..Len(data)
      BY <1>2
    <3>2. data[i - n] \in D
      BY <3>1, ElementOfSeq
    <3> QED BY <1>5, <3>1, <3>2
  <2>2. n + 1 \in Int /\ n + Len(data) \in Int
    BY <1>2
  <2>3. /\ sub \in Seq(D)
        /\ Len(sub) = IF n + 1 <= n + Len(data)
                      THEN (n + Len(data)) - (n + 1) + 1 ELSE 0
        /\ \A i \in 1..((n + Len(data)) - (n + 1) + 1) :
              sub[i] = chars[(n + 1) + i - 1]
    BY <2>1, <2>2, SubSeqProperties
  <2> HIDE DEF sub
  <2>4. Len(sub) = Len(data)
    BY <1>2, <2>3
  <2>5. ASSUME NEW i \in 1..Len(sub)
        PROVE  sub[i] = data[i]
    <3>1. /\ i \in 1..((n + Len(data)) - (n + 1) + 1)
          /\ (n + 1) + i - 1 = n + i /\ n + i \in 1..n + Len(data)
          /\ ~(n + i <= n) /\ (n + i) - n = i
      BY <1>2, <2>4
    <3>2. sub[i] = chars[n + i]
      BY <2>3, <3>1
    <3>3. chars[n + i] = data[(n + i) - n]
      BY <1>5, <3>1
    <3> QED BY <3>1, <3>2, <3>3
  <2>6. sub = data
    BY <2>3, <2>4, <2>5, SeqEqual
  <2> QED BY <1>5, <2>6 DEF sub
<1>7. ASSUME NEW i \in 1..n - 1
      PROVE  chars[i] = t[i]
  <2>1. i \in 1..n + Len(data) /\ i <= n /\ i \in 1..n /\ i \in 1..Len(t)
    BY <1>2
  <2> QED BY <1>3, <1>4, <1>5, <2>1
<1> QED BY <1>1, <1>6, <1>7 DEF DataOf, n

\* The characters of a message are those of the topic and the payload, and
\* NULs; topic_len counts no more than there are.
LEMMA MessageChars ==
    ASSUME NEW S, NEW t \in Seq(S), NEW D, NEW data \in Seq(D)
    PROVE  /\ MessageOf(t, data).chars \in Seq(S \cup {NUL} \cup D)
           /\ TopicLen(t) <= Len(MessageOf(t, data).chars)
<1> DEFINE n == TopicLen(t)
           head == SubSeq(Append(t, NUL), 1, n)
           chars == head \o data
           U == S \cup {NUL} \cup D
<1>1. MessageOf(t, data).chars = chars
  BY DEF MessageOf
<1>2. Len(t) \in Nat /\ Len(data) \in Nat /\ n \in Nat /\ n <= Len(t) + 1
  BY LenProperties, TopicLenLemma, TopicLenAssumption
<1>3. Append(t, NUL) \in Seq(U) /\ Len(Append(t, NUL)) = Len(t) + 1
  <2>1. t \in Seq(U) /\ NUL \in U
    BY SeqMonotonic
  <2> HIDE DEF U
  <2> QED BY <2>1, AppendProperties
<1>4. head \in Seq(U) /\ Len(head) = n
  <2> HIDE DEF U, n
  <2>1. \A i \in 1..n : Append(t, NUL)[i] \in U
    <3> TAKE i \in 1..n
    <3>1. i \in 1..Len(Append(t, NUL))
      BY <1>2, <1>3
    <3> QED BY <1>3, <3>1, ElementOfSeq
  <2> QED BY <1>2, <2>1, FirstItems
<1>5. chars \in Seq(U) /\ Len(chars) = n + Len(data)
  <2>1. data \in Seq(U)
    BY SeqMonotonic
  <2> HIDE DEF U, n, head
  <2> QED BY <1>4, <2>1, ConcatProperties
<1> HIDE DEF n, chars, U
<1>6. n <= Len(chars)
  BY <1>2, <1>5
<1> QED BY <1>1, <1>5, <1>6 DEF n, U

\* What is extracted has characters of the buffer only.
LEMMA ExtractType ==
    ASSUME NEW D, NEW chars \in Seq(D), NEW n \in Nat, n # 0, n <= Len(chars)
    PROVE  Extract(chars, n) \in Seq(D)
<1> DEFINE q == SubSeq(chars, 1, n - 1)
           ends == {i \in DOMAIN q : q[i] = NUL}
<1>1. /\ n - 1 \in Nat /\ Len(chars) \in Nat
      /\ \A i \in 1..(n - 1) : chars[i] \in D
  <2>1. Len(chars) \in Nat
    BY LenProperties
  <2>2. \A i \in 1..(n - 1) : i \in 1..Len(chars)
    BY <2>1
  <2> QED BY <2>1, <2>2, ElementOfSeq
<1>2. q \in Seq(D)
  BY <1>1, FirstItems
<1> HIDE DEF q
<1>3. Extract(chars, n) =
         IF ends = {} THEN q ELSE SubSeq(q, 1, Min(ends) - 1)
  BY DEF Extract, CString, q
<1>4. ASSUME ends # {}
      PROVE  SubSeq(q, 1, Min(ends) - 1) \in Seq(D)
  <2>1. Len(q) \in Nat /\ DOMAIN q = 1..Len(q)
    BY <1>2, LenProperties
  <2>2. Min(ends) \in ends
    <3>1. ends \in SUBSET Nat
      BY <2>1
    <3> HIDE DEF ends
    <3> QED BY <1>4, <3>1, MinLemma
  <2>3. Min(ends) \in 1..Len(q)
    BY <2>1, <2>2
  <2> DEFINE l == Min(ends) - 1
  <2>4. l \in Nat /\ \A i \in 1..l : i \in 1..Len(q)
    <3> HIDE DEF ends
    <3>1. \A x \in Nat : \A y \in 1..x :
             y - 1 \in Nat /\ \A i \in 1..(y - 1) : i \in 1..x
      OBVIOUS
    <3> QED BY <2>1, <2>3, <3>1
  <2> HIDE DEF l
  <2>5. \A i \in 1..l : q[i] \in D
    BY <1>2, <2>4, ElementOfSeq
  <2>6. SubSeq(q, 1, l) \in Seq(D)
    BY <2>4, <2>5, FirstItems
  <2> QED BY <2>6 DEF l
<1> HIDE DEF ends
<1> QED BY <1>2, <1>3, <1>4

\* What is filled up has the string's characters and NUL.
LEMMA FilledType ==
    ASSUME NEW D, NEW s \in Seq(D), NEW n \in Nat
    PROVE  Filled(s, n) \in Seq(D \cup {NUL})
<1>1. Len(s) \in Nat
  BY LenProperties
<1>2. \A i \in 1..n : (IF i <= Len(s) THEN s[i] ELSE NUL) \in D \cup {NUL}
  <2>1. \A i \in 1..n : i <= Len(s) => i \in 1..Len(s)
    BY <1>1
  <2> QED BY <2>1, ElementOfSeq
<1>3. Filled(s, n) \in [1..n -> D \cup {NUL}]
  BY <1>2 DEF Filled
<1> QED BY <1>3, SeqDef

\* A payload that is a string comes out of its buffers as it was.
LEMMA StringPayload ==
    ASSUME NEW D, NEW data \in Seq(D), Terminated(data)
    PROVE  Filled(Extract(data, Len(data)), Len(data)) = data
<1> DEFINE n == Len(data)
           s == Front(data)
<1>1. n \in Nat /\ n # 0 /\ DOMAIN data = 1..n
  <2>1. data # <<>>
    BY DEF Terminated
  <2> QED BY <2>1, LenProperties, EmptySeq
<1>2. /\ s \in Seq(D) /\ Len(s) = n - 1
      /\ \A i \in 1..n - 1 : s[i] = data[i]
  <2>1. data # <<>>
    BY DEF Terminated
  <2> QED BY <2>1, FrontLemma
<1>3. data[n] = NUL /\ NUL \notin ToSet(s)
  BY DEF Terminated, Last
<1>4. Extract(data, n) = s
  <2> HIDE DEF s
  <2>1. n = Len(s) + 1 /\ Len(s) = n - 1
    BY <1>1, <1>2
  <2> HIDE DEF n
  <2>2. \A i \in 1..Len(s) : data[i] = s[i]
    BY <1>2, <2>1
  <2> QED BY <1>1, <1>2, <1>3, <2>1, <2>2, ExtractOf
<1> HIDE DEF s, n
<1>5. ASSUME NEW i \in 1..n
      PROVE  (IF i <= Len(s) THEN s[i] ELSE NUL) = data[i]
  <2>1. CASE i = n
    <3>1. ~(i <= Len(s))
      BY <1>1, <1>2, <2>1
    <3> QED BY <1>3, <2>1, <3>1
  <2>2. CASE i # n
    <3>1. i \in 1..n - 1 /\ i <= Len(s)
      BY <1>1, <1>2, <2>2
    <3> QED BY <1>2, <3>1
  <2> QED BY <2>1, <2>2
<1>6. data = [i \in 1..n |-> data[i]]
  BY <1>1, SeqDef
<1>7. Filled(s, n) = data
  BY <1>5, <1>6 DEF Filled
<1> QED BY <1>4, <1>7 DEF n

-----------------------------------------------------------------------------
(* Levels *)

\* The members of Q in their order
Listing(Q, m, e) ==
    /\ m \in Nat /\ e \in [1..m -> Q]
    /\ \A i, j \in 1..m : i < j => e[i] < e[j]
    /\ \A x \in Q : \E i \in 1..m : e[i] = x

Listed(Q) == \E m, e : Listing(Q, m, e)

\* One more member, larger than all others, is listed last.
LEMMA ListedLast ==
    ASSUME NEW Q, NEW x \in Nat, \A y \in Q : y < x, Listed(Q)
    PROVE  Listed(Q \cup {x})
<1>1. PICK m, e : Listing(Q, m, e)
  BY DEF Listed
<1> DEFINE g == [i \in 1..(m + 1) |-> IF i = m + 1 THEN x ELSE e[i]]
           R == Q \cup {x}
<1>2. m \in Nat /\ m + 1 \in Nat /\ m + 1 \in 1..(m + 1)
        /\ \A i \in 1..(m + 1) : i # m + 1 => i \in 1..m
  BY <1>1 DEF Listing
<1>3. g \in [1..(m + 1) -> R]
  <2>1. \A i \in 1..(m + 1) : (IF i = m + 1 THEN x ELSE e[i]) \in R
    BY <1>1, <1>2 DEF Listing
  <2> QED BY <2>1
<1>4. g[m + 1] = x /\ \A i \in 1..m : g[i] = e[i] /\ i \in 1..(m + 1)
  BY <1>2
<1> HIDE DEF g
<1>5. ASSUME NEW i \in 1..(m + 1), NEW j \in 1..(m + 1), i < j
      PROVE  g[i] < g[j]
  <2>1. i \in 1..m
    BY <1>2, <1>5
  <2>2. CASE j = m + 1
    <3>1. e[i] \in Q
      BY <1>1, <2>1 DEF Listing
    <3> QED BY <1>4, <2>1, <2>2, <3>1
  <2>3. CASE j # m + 1
    <3>1. j \in 1..m
      BY <1>2, <2>3
    <3>2. e[i] < e[j]
      BY <1>1, <1>5, <2>1, <3>1 DEF Listing
    <3> QED BY <1>4, <2>1, <3>1, <3>2
  <2> QED BY <2>2, <2>3
<1>6. ASSUME NEW y \in R
      PROVE  \E i \in 1..(m + 1) : g[i] = y
  <2>1. CASE y = x
    BY <1>2, <1>4, <2>1
  <2>2. CASE y \in Q
    <3>1. PICK i \in 1..m : e[i] = y
      BY <1>1, <2>2 DEF Listing
    <3> QED BY <1>4, <3>1
  <2> QED BY <2>1, <2>2
<1>7. Listing(R, m + 1, g)
  BY <1>2, <1>3, <1>5, <1>6 DEF Listing
<1> QED BY <1>7 DEF Listed

\* A set of numbers up to n can be listed.
LEMMA ListedUpTo ==
    ASSUME NEW n \in Nat, NEW Q, \A x \in Q : x \in 0..n
    PROVE  Listed(Q)
<1> DEFINE Below(k) == {x \in Q : x <= k}
           T == {k \in 0..n : Listed(Below(k))}
<1>0. \A x \in Q : x \in Nat /\ 0 <= x /\ x <= n
  OBVIOUS
<1>1. Listed({})
  <2>1. Listing({}, 0, [i \in {} |-> 0])
    <3>1. 1..0 = {} /\ [i \in {} |-> 0] \in [{} -> {}]
      OBVIOUS
    <3> QED BY <3>1 DEF Listing
  <2> QED BY <2>1 DEF Listed
<1>2. ASSUME NEW k \in 0..n, k \in Q, Listed({x \in Q : x < k})
      PROVE  Listed(Below(k))
  <2>1. Below(k) = {x \in Q : x < k} \cup {k}
    <3>1. \A x \in Q : x <= k <=> x < k \/ x = k
      BY <1>0
    <3> QED BY <1>2, <3>1
  <2>2. k \in Nat
    OBVIOUS
  <2>3. \A y \in {x \in Q : x < k} : y < k
    OBVIOUS
  <2> HIDE DEF Below
  <2> QED BY <1>2, <2>1, <2>2, <2>3, ListedLast
<1>3. 0 \in T
  <2>1. CASE 0 \in Q
    <3>1. {x \in Q : x < 0} = {}
      <4>1. \A x \in Q : ~(x < 0)
        BY <1>0
      <4> QED BY <4>1
    <3> QED BY <1>1, <1>2, <2>1, <3>1
  <2>2. CASE 0 \notin Q
    <3>1. \A x \in Q : ~(x <= 0)
      BY <1>0, <2>2
    <3>2. Below(0) = {}
      BY <3>1
    <3> QED BY <1>1, <3>2
  <2> QED BY <2>1, <2>2
<1>4. ASSUME NEW k \in 1..n, k - 1 \in T
      PROVE  k \in T
  <2>1. {x \in Q : x < k} = Below(k - 1)
    <3>1. \A x \in Q : x < k <=> x <= k - 1
      BY <1>0
    <3> QED BY <3>1
  <2>2. CASE k \in Q
    BY <1>2, <1>4, <2>1, <2>2
  <2>3. CASE k \notin Q
    <3>1. \A x \in Q : x <= k <=> x <= k - 1
      BY <1>0, <2>3
    <3>2. Below(k) = Below(k - 1)
      BY <3>1
    <3> QED BY <1>4, <3>2
  <2> QED BY <2>2, <2>3
<1>5. n \in T
  <2> HIDE DEF T
  <2>1. \A k \in 0..n : k \in T
    BY <1>3, <1>4, UpToInduction
  <2> QED BY <2>1
<1>6. Below(n) = Q
  BY <1>0
<1> QED BY <1>5, <1>6

\* Each member of a listing has the members before it below it, in number.
LEMMA RankLemma ==
    ASSUME NEW Q, \A x \in Q : x \in Nat, NEW m, NEW e, Listing(Q, m, e)
    PROVE  /\ Cardinality(Q) = m
           /\ \A i \in 1..m : Cardinality({b \in Q : b < e[i]}) = i - 1
<1>1. m \in Nat /\ e \in [1..m -> Q]
  BY DEF Listing
<1>2. ASSUME NEW i \in 1..m, NEW j \in 1..m
      PROVE  (i < j <=> e[i] < e[j]) /\ (e[i] = e[j] => i = j)
  <2>1. i < j => e[i] < e[j]
    BY DEF Listing
  <2>2. j < i => e[j] < e[i]
    BY DEF Listing
  <2>3. e[i] \in Nat /\ e[j] \in Nat /\ i \in Nat /\ j \in Nat
    <3>1. e[i] \in Q /\ e[j] \in Q
      BY <1>1
    <3> QED BY <3>1
  <2> QED BY <2>1, <2>2, <2>3
<1>3. ASSUME NEW l \in 0..m, NEW R,
             \A x : x \in R <=> \E i \in 1..l : x = e[i]
      PROVE  Cardinality(R) = l
  <2> DEFINE g == [i \in 1..l |-> e[i]]
  <2>1. l \in Nat /\ \A i \in 1..l : i \in 1..m
    BY <1>1
  <2>2. g \in [1..l -> R] /\ \A i \in 1..l : g[i] = e[i]
    BY <1>3
  <2> HIDE DEF g
  <2>3. g \in Bijection(1..l, R)
    <3>1. \A i, j \in 1..l : g[i] = g[j] => i = j
      BY <1>2, <2>1, <2>2
    <3>2. \A x \in R : \E i \in 1..l : g[i] = x
      BY <1>3, <2>2
    <3> QED BY <2>2, <3>1, <3>2 DEF Bijection, Injection, Surjection, IsInjective
  <2>4. ExistsBijection(1..l, R)
    BY <2>3 DEF ExistsBijection
  <2> QED BY <2>1, <2>4, FS_CountingElements
<1>4. Cardinality(Q) = m
  <2>1. m \in 0..m
    BY <1>1
  <2>2. \A x : x \in Q <=> \E i \in 1..m : x = e[i]
    BY <1>1 DEF Listing
  <2> QED BY <1>3, <2>1, <2>2
<1>5. ASSUME NEW i \in 1..m
      PROVE  Cardinality({b \in Q : b < e[i]}) = i - 1
  <2> DEFINE R == {b \in Q : b < e[i]}
  <2>1. i - 1 \in 0..m /\ \A j \in 1..m : j < i <=> j \in 1..(i - 1)
    BY <1>1
  <2>2. \A x : x \in R <=> \E j \in 1..(i - 1) : x = e[j]
    <3>1. ASSUME NEW x \in R
          PROVE  \E j \in 1..(i - 1) : x = e[j]
      <4>1. PICK j \in 1..m : e[j] = x
        BY DEF Listing
      <4>2. j < i
        BY <1>2, <4>1
      <4> QED BY <2>1, <4>1, <4>2
    <3>2. ASSUME NEW j \in 1..(i - 1)
          PROVE  e[j] \in R
      <4>1. j \in 1..m /\ j < i
        BY <1>1
      <4>2. e[j] < e[i] /\ e[j] \in Q
        BY <1>1, <1>2, <4>1
      <4> QED BY <4>2
    <3> HIDE DEF R
    <3> QED BY <3>1, <3>2
  <2> HIDE DEF R
  <2>3. Cardinality(R) = i - 1
    BY <1>3, <2>1, <2>2
  <2> QED BY <2>3 DEF R
<1> QED BY <1>4, <1>5

(***************************************************************************)
(* Where the m levels of s are cut: level i is between c[i] and c[i + 1].  *)
(***************************************************************************)
Cuts(s, m, c) ==
    /\ m \in Nat /\ m # 0
    /\ c \in [1..(m + 1) -> 0..(Len(s) + 1)]
    /\ c[1] = 0 /\ c[m + 1] = Len(s) + 1
    /\ \A i, j \in 1..(m + 1) : i < j => c[i] < c[j]
    /\ \A i \in 2..m : s[c[i]] = "/"
    /\ \A x \in 1..Len(s) : s[x] = "/" => \E i \in 2..m : c[i] = x
    /\ Levels(s) = [i \in 1..m |-> SubSeq(s, c[i] + 1, c[i + 1] - 1)]

\* Every string has its levels.
LEMMA CutsExist ==
    ASSUME NEW S, NEW s \in Seq(S)
    PROVE  \E m, c : Cuts(s, m, c)
<1> DEFINE n == Len(s)
           Q == {0, n + 1} \cup {i \in DOMAIN s : s[i] = "/"}
<1>1. n \in Nat /\ DOMAIN s = 1..n
  BY LenProperties
<1>2. /\ \A x \in Q : x \in 0..(n + 1) /\ x \in Nat
      /\ n + 1 \in Nat /\ 0 \in Q /\ n + 1 \in Q
  BY <1>1
<1>3. \A x : x \in Q <=> (x = 0 \/ x = n + 1 \/ (x \in 1..n /\ s[x] = "/"))
  BY <1>1
<1> DEFINE cut(k) == CHOOSE c \in Q : Cardinality({b \in Q : b < c}) = k
<1>4. Levels(s) = [k \in 1..(Cardinality(Q) - 1) |->
                      SubSeq(s, cut(k - 1) + 1, cut(k) - 1)]
  BY DEF Levels
<1>5. PICK l, c : Listing(Q, l, c)
  <2> HIDE DEF Q
  <2>1. Listed(Q)
    BY <1>2, ListedUpTo
  <2> QED BY <2>1 DEF Listed
<1>6. /\ l \in Nat /\ c \in [1..l -> Q]
      /\ \A i, j \in 1..l : i < j => c[i] < c[j]
      /\ \A x \in Q : \E i \in 1..l : c[i] = x
  BY <1>5 DEF Listing
<1>7. /\ Cardinality(Q) = l
      /\ \A i \in 1..l : Cardinality({b \in Q : b < c[i]}) = i - 1
  <2> HIDE DEF Q
  <2> QED BY <1>2, <1>5, RankLemma
<1>8. ASSUME NEW k \in 0..(l - 1)
      PROVE  cut(k) = c[k + 1]
  <2>1. k + 1 \in 1..l /\ (k + 1) - 1 = k
    BY <1>6
  <2>2. c[k + 1] \in Q /\ Cardinality({b \in Q : b < c[k + 1]}) = k
    BY <1>6, <1>7, <2>1
  <2>3. ASSUME NEW x \in Q, Cardinality({b \in Q : b < x}) = k
        PROVE  x = c[k + 1]
    <3>1. PICK i \in 1..l : c[i] = x
      BY <1>6
    <3>2. i - 1 = k
      BY <1>7, <2>3, <3>1
    <3> QED BY <3>1, <3>2
  <2> HIDE DEF Q
  <2> QED BY <2>2, <2>3
<1> HIDE DEF cut, n, Q
<1> DEFINE m == l - 1
<1>9. PICK a \in 1..l, z \in 1..l : c[a] = 0 /\ c[z] = n + 1
  BY <1>2, <1>6
<1>10. a = 1
  <2>1. 1 \in 1..l /\ c[1] \in 0..(n + 1)
    BY <1>2, <1>6
  <2>2. 1 < a => c[1] < c[a]
    BY <1>6, <2>1
  <2>3. ~(1 < a)
    BY <1>1, <1>9, <2>1, <2>2
  <2> QED BY <2>3
<1>11. z = l
  <2>1. l \in 1..l /\ c[l] \in 0..(n + 1)
    BY <1>2, <1>6
  <2>2. z < l => c[z] < c[l]
    BY <1>6, <2>1
  <2>3. ~(z < l)
    BY <1>1, <1>9, <2>1, <2>2
  <2>4. z \in Nat /\ l \in Nat /\ z <= l
    BY <1>6, <1>9
  <2> QED BY <2>3, <2>4
<1>12. m \in Nat /\ m # 0 /\ l = m + 1
  <2>1. l # 1
    BY <1>1, <1>9, <1>10, <1>11
  <2> QED BY <1>6, <1>9, <2>1
<1>13. c[1] = 0 /\ c[m + 1] = n + 1
  BY <1>9, <1>10, <1>11, <1>12
<1> HIDE DEF m
<1>14. c \in [1..(m + 1) -> 0..(n + 1)]
  BY <1>2, <1>6, <1>12
<1>15. \A i, j \in 1..(m + 1) : i < j => c[i] < c[j]
  BY <1>6, <1>12
<1>16. ASSUME NEW i \in 2..m
       PROVE  s[c[i]] = "/"
  <2>1. i \in 1..(m + 1) /\ 1 \in 1..(m + 1) /\ m + 1 \in 1..(m + 1)
          /\ 1 < i /\ i < m + 1
    BY <1>12
  <2>2. c[1] < c[i] /\ c[i] < c[m + 1] /\ c[i] \in Q
    BY <1>6, <1>12, <1>15, <2>1
  <2>3. c[i] \in Nat
    BY <1>2, <2>2
  <2>4. c[i] # 0 /\ c[i] # n + 1
    BY <1>1, <1>13, <2>2, <2>3
  <2> QED BY <1>3, <2>2, <2>4
<1>17. ASSUME NEW x \in 1..n, s[x] = "/"
       PROVE  \E i \in 2..m : c[i] = x
  <2>1. x \in Q
    BY <1>3, <1>17
  <2>2. PICK i \in 1..l : c[i] = x
    BY <1>6, <2>1
  <2>3. i # 1 /\ i # m + 1
    BY <1>1, <1>13, <2>2
  <2>4. i \in 2..m
    BY <1>12, <2>3
  <2> QED BY <2>2, <2>4
<1>18. Levels(s) = [i \in 1..m |-> SubSeq(s, c[i] + 1, c[i + 1] - 1)]
  <2>1. \A i \in 1..m : cut(i - 1) = c[i] /\ cut(i) = c[i + 1]
    <3> TAKE i \in 1..m
    <3>1. i - 1 \in 0..(l - 1) /\ i \in 0..(l - 1) /\ (i - 1) + 1 = i
      BY <1>12
    <3> QED BY <1>8, <3>1
  <2>2. Cardinality(Q) - 1 = m
    BY <1>7, <1>12
  <2>3. Levels(s) = [i \in 1..m |-> SubSeq(s, cut(i - 1) + 1, cut(i) - 1)]
    BY <1>4, <2>2
  <2> QED BY <2>1, <2>3
<1>19. Cuts(s, m, c)
  BY <1>12, <1>13, <1>14, <1>15, <1>16, <1>17, <1>18 DEF Cuts, n
<1> QED BY <1>19

\* The cuts are numbers in ascending order, and each but the outermost is a
\* "/".
LEMMA CutsFacts ==
    ASSUME NEW S, NEW s \in Seq(S), NEW m, NEW c, Cuts(s, m, c)
    PROVE  /\ m \in Nat /\ m # 0 /\ Len(s) \in Nat
           /\ c[1] = 0 /\ c[m + 1] = Len(s) + 1
           /\ \A i \in 1..(m + 1) : c[i] \in Nat /\ c[i] <= Len(s) + 1
           /\ \A i, j \in 1..(m + 1) : i < j => c[i] < c[j]
           /\ \A i \in 2..m : s[c[i]] = "/"
<1>1. Len(s) \in Nat /\ m \in Nat
  BY LenProperties DEF Cuts
<1>2. \A i \in 1..(m + 1) : c[i] \in 0..(Len(s) + 1)
  BY DEF Cuts
<1>3. \A i \in 1..(m + 1) : c[i] \in Nat /\ c[i] <= Len(s) + 1
  BY <1>1, <1>2
<1> QED BY <1>1, <1>3 DEF Cuts

\* Between two numbers, counted from the first
LEMMA OffsetLemma ==
    ASSUME NEW a \in Nat, NEW l \in Nat
    PROVE  /\ \A e \in 1..l : a + e \in (a + 1)..(a + l) /\ e \in Nat /\ e \in 0..l
                              /\ (a + e) - 1 = a + (e - 1) /\ e - 1 \in 0..l
           /\ \A y \in (a + 1)..(a + l) : y - a \in 1..l /\ a + (y - a) = y
OBVIOUS

\* Level i has the characters between its cuts, of which none is a "/".
LEMMA LevelItems ==
    ASSUME NEW S, NEW s \in Seq(S), NEW m, NEW c, Cuts(s, m, c), NEW i \in 1..m
    PROVE  /\ c[i] \in Nat /\ c[i + 1] \in Nat
           /\ c[i] < c[i + 1] /\ c[i + 1] <= Len(s) + 1
           /\ Levels(s)[i] \in Seq(S)
           /\ Len(Levels(s)[i]) = c[i + 1] - c[i] - 1
           /\ \A d \in 1..(c[i + 1] - c[i] - 1) : Levels(s)[i][d] = s[c[i] + d]
           /\ \A x \in (c[i] + 1)..(c[i + 1] - 1) :
                 s[x] # "/" /\ x \in 1..Len(s) /\ s[x] \in S
<1>1. /\ m \in Nat /\ m # 0 /\ Len(s) \in Nat
      /\ i \in 1..(m + 1) /\ i + 1 \in 1..(m + 1)
  BY LenProperties DEF Cuts
<1>2. /\ c[i] \in Nat /\ c[i + 1] \in Nat
      /\ c[i] < c[i + 1] /\ c[i + 1] <= Len(s) + 1
  <2>1. c[i] \in 0..(Len(s) + 1) /\ c[i + 1] \in 0..(Len(s) + 1)
    BY <1>1 DEF Cuts
  <2>2. c[i] < c[i + 1]
    BY <1>1 DEF Cuts
  <2> QED BY <1>1, <2>1, <2>2
<1>3. ASSUME NEW x \in (c[i] + 1)..(c[i + 1] - 1)
      PROVE  s[x] # "/" /\ x \in 1..Len(s) /\ s[x] \in S
  <2>1. x \in 1..Len(s) /\ x \in Nat
    BY <1>1, <1>2
  <2>2. s[x] \in S
    BY <2>1, ElementOfSeq
  <2>3. ASSUME NEW j \in 2..m, c[j] = x
        PROVE  FALSE
    <3>1. j \in 1..(m + 1) /\ j \in Nat /\ i \in Nat
      BY <1>1
    <3>2. j <= i => c[j] <= c[i]
      <4>1. j < i => c[j] < c[i]
        BY <1>1, <3>1 DEF Cuts
      <4> QED BY <1>2, <2>1, <2>3, <3>1, <4>1
    <3>3. j >= i + 1 => c[i + 1] <= c[j]
      <4>1. i + 1 < j => c[i + 1] < c[j]
        BY <1>1, <3>1 DEF Cuts
      <4> QED BY <1>2, <2>1, <2>3, <3>1, <4>1
    <3> QED BY <1>2, <2>1, <2>3, <3>1, <3>2, <3>3
  <2>4. s[x] # "/"
    BY <2>1, <2>3 DEF Cuts
  <2> QED BY <2>1, <2>2, <2>4
<1> DEFINE a == c[i] + 1
           b == c[i + 1] - 1
           l == SubSeq(s, a, b)
<1>4. a \in Int /\ b \in Int /\ \A x \in a..b : s[x] \in S
  BY <1>2, <1>3
<1>5. Levels(s)[i] = l
  BY DEF Cuts
<1>6. /\ l \in Seq(S) /\ Len(l) = IF a <= b THEN b - a + 1 ELSE 0
      /\ \A d \in 1..(b - a + 1) : l[d] = s[a + d - 1]
  <2> HIDE DEF a, b
  <2> QED BY <1>4, SubSeqProperties
<1> HIDE DEF l
<1>7. Len(l) = c[i + 1] - c[i] - 1
  BY <1>2, <1>6, SMTT(30)
<1>8. ASSUME NEW d \in 1..(c[i + 1] - c[i] - 1)
      PROVE  l[d] = s[c[i] + d]
  <2>1. d \in 1..(b - a + 1) /\ a + d - 1 = c[i] + d
    BY <1>2, SMTT(30)
  <2> QED BY <1>6, <2>1
<1> QED BY <1>2, <1>3, <1>5, <1>6, <1>7, <1>8

\* The next cut is the next "/", or the end.
LEMMA NextCut ==
    ASSUME NEW S, NEW s \in Seq(S), NEW m, NEW c, Cuts(s, m, c), NEW i \in 1..m,
           NEW x \in Nat, c[i] < x, x <= Len(s) + 1,
           \A y \in (c[i] + 1)..(x - 1) : s[y] # "/",
           x = Len(s) + 1 \/ s[x] = "/"
    PROVE  c[i + 1] = x /\ (i < m <=> x # Len(s) + 1)
<1>1. /\ m \in Nat /\ i \in Nat /\ i <= m /\ Len(s) \in Nat
      /\ i \in 1..(m + 1) /\ i + 1 \in 1..(m + 1) /\ m + 1 \in 1..(m + 1)
  BY LenProperties DEF Cuts
<1>2. /\ c[i] \in Nat /\ c[i + 1] \in Nat
      /\ c[i] < c[i + 1] /\ c[i + 1] <= Len(s) + 1
  BY LevelItems
<1>3. i < m => s[c[i + 1]] = "/" /\ c[i + 1] < Len(s) + 1
  <2>1. i < m => i + 1 \in 2..m /\ i + 1 < m + 1
    BY <1>1
  <2>2. i < m => s[c[i + 1]] = "/"
    BY <2>1 DEF Cuts
  <2>3. i < m => c[i + 1] < c[m + 1]
    BY <1>1, <2>1 DEF Cuts
  <2>4. c[m + 1] = Len(s) + 1
    BY DEF Cuts
  <2> QED BY <2>2, <2>3, <2>4
<1>4. i = m => c[i + 1] = Len(s) + 1
  BY DEF Cuts
<1>5. ~(c[i + 1] < x)
  <2> SUFFICES ASSUME c[i + 1] < x
               PROVE  FALSE
    OBVIOUS
  <2>1. c[i + 1] \in (c[i] + 1)..(x - 1) /\ c[i + 1] # Len(s) + 1
    BY <1>1, <1>2
  <2>2. i < m
    BY <1>1, <1>4, <2>1
  <2> QED BY <1>3, <2>1, <2>2
<1>6. ~(x < c[i + 1])
  <2> SUFFICES ASSUME x < c[i + 1]
               PROVE  FALSE
    OBVIOUS
  <2>1. x \in (c[i] + 1)..(c[i + 1] - 1) /\ x # Len(s) + 1
    BY <1>1, <1>2
  <2>2. s[x] # "/"
    BY <2>1, LevelItems
  <2> QED BY <2>1, <2>2
<1>7. c[i + 1] = x
  BY <1>2, <1>5, <1>6
<1>8. i < m <=> x # Len(s) + 1
  BY <1>1, <1>2, <1>3, <1>4, <1>7
<1> QED BY <1>7, <1>8

\* Every character is in a level, or the "/" before it.
LEMMA LocateLevel ==
    ASSUME NEW S, NEW s \in Seq(S), NEW m, NEW c, Cuts(s, m, c),
           NEW x \in 1..Len(s)
    PROVE  \E i \in 1..m : c[i] <= x /\ x < c[i + 1]
<1>1. m \in Nat /\ m # 0 /\ Len(s) \in Nat /\ c[1] = 0 /\ c[m + 1] = Len(s) + 1
  BY LenProperties DEF Cuts
<1> DEFINE T == {i \in 1..m : c[i] <= x}
<1>2. 1 \in T
  BY <1>1
<1>3. PICK i : i \in T /\ \A y \in T : i >= y
  <2>1. T \in SUBSET (1..m) /\ T # {}
    BY <1>2
  <2> HIDE DEF T
  <2> QED BY <1>1, <2>1, MaxLemma
<1>4. i \in 1..m /\ i \in Nat /\ c[i] <= x
  BY <1>3
<1>5. c[i + 1] \in Nat
  BY <1>4, LevelItems
<1>6. x < c[i + 1]
  <2>1. CASE i = m
    BY <1>1, <2>1
  <2>2. CASE i # m
    <3>1. i + 1 \in 1..m /\ ~(i >= i + 1)
      BY <1>1, <1>4, <2>2
    <3>2. ~(c[i + 1] <= x)
      BY <1>3, <3>1
    <3> QED BY <1>5, <3>2
  <2> QED BY <2>1, <2>2
<1> QED BY <1>4, <1>6

\* A level of a single character
LEMMA SingleLevel ==
    ASSUME NEW S, NEW s \in Seq(S), NEW m, NEW c, Cuts(s, m, c), NEW i \in 1..m,
           NEW a
    PROVE  Levels(s)[i] = <<a>> <=> c[i + 1] = c[i] + 2 /\ s[c[i] + 1] = a
<1> DEFINE l == Levels(s)[i]
<1>1. /\ c[i] \in Nat /\ c[i + 1] \in Nat /\ c[i] < c[i + 1]
      /\ l \in Seq(S) /\ Len(l) = c[i + 1] - c[i] - 1
      /\ \A d \in 1..(c[i + 1] - c[i] - 1) : l[d] = s[c[i] + d]
  BY LevelItems
<1> HIDE DEF l
<1>2. ASSUME l = <<a>>
      PROVE  c[i + 1] = c[i] + 2 /\ s[c[i] + 1] = a
  <2>1. Len(l) = 1 /\ l[1] = a
    BY <1>2
  <2>2. c[i + 1] - c[i] - 1 = 1
    BY <1>1, <2>1
  <2>3. c[i + 1] = c[i] + 2 /\ 1 \in 1..(c[i + 1] - c[i] - 1)
    BY <1>1, <2>2
  <2> QED BY <1>1, <2>1, <2>3
<1>3. ASSUME c[i + 1] = c[i] + 2, s[c[i] + 1] = a
      PROVE  l = <<a>>
  <2>1. c[i + 1] - c[i] - 1 = 1 /\ 1 \in 1..(c[i + 1] - c[i] - 1)
    BY <1>1, <1>3
  <2>2. Len(l) = 1 /\ l[1] = a
    BY <1>1, <1>3, <2>1
  <2> DEFINE k == <<a>>
             U == S \cup {a}
  <2>3. k \in Seq(U) /\ Len(k) = 1 /\ k[1] = a
    OBVIOUS
  <2>4. l \in Seq(U)
    BY <1>1, SeqMonotonic
  <2> HIDE DEF k, U
  <2>5. Len(l) = Len(k) /\ \A e \in 1..Len(l) : l[e] = k[e]
    BY <2>2, <2>3
  <2>6. l = k
    BY <2>3, <2>4, <2>5, SeqEqual
  <2> QED BY <2>6 DEF k
<1> QED BY <1>2, <1>3 DEF l

\* The characters of a level
LEMMA LevelSet ==
    ASSUME NEW S, NEW s \in Seq(S), NEW m, NEW c, Cuts(s, m, c), NEW i \in 1..m,
           NEW x \in (c[i] + 1)..(c[i + 1] - 1)
    PROVE  s[x] \in ToSet(Levels(s)[i])
<1> DEFINE l == Levels(s)[i]
<1>1. /\ c[i] \in Nat /\ c[i + 1] \in Nat
      /\ l \in Seq(S) /\ Len(l) = c[i + 1] - c[i] - 1
      /\ \A d \in 1..(c[i + 1] - c[i] - 1) : l[d] = s[c[i] + d]
  BY LevelItems
<1> HIDE DEF l
<1>2. x - c[i] \in 1..(c[i + 1] - c[i] - 1) /\ c[i] + (x - c[i]) = x
  BY <1>1, SMTT(30)
<1>3. l[x - c[i]] = s[x] /\ x - c[i] \in DOMAIN l
  BY <1>1, <1>2, LenProperties
<1> QED BY <1>3 DEF ToSet, l

\* Levels are the same if they have the same length and the same characters.
LEMMA SameLevel ==
    ASSUME NEW S, NEW s \in Seq(S), NEW m, NEW c, Cuts(s, m, c), NEW i \in 1..m,
           NEW R, NEW t \in Seq(R), NEW n, NEW d, Cuts(t, n, d), NEW j \in 1..n
    PROVE  Levels(s)[i] = Levels(t)[j] <=>
              /\ c[i + 1] - c[i] = d[j + 1] - d[j]
              /\ \A e \in 1..(c[i + 1] - c[i] - 1) : s[c[i] + e] = t[d[j] + e]
<1> DEFINE l == Levels(s)[i]
           k == Levels(t)[j]
<1>1. /\ c[i] \in Nat /\ c[i + 1] \in Nat /\ c[i] < c[i + 1]
      /\ l \in Seq(S) /\ Len(l) = c[i + 1] - c[i] - 1
      /\ \A e \in 1..(c[i + 1] - c[i] - 1) : l[e] = s[c[i] + e]
  BY LevelItems
<1>2. /\ d[j] \in Nat /\ d[j + 1] \in Nat /\ d[j] < d[j + 1]
      /\ k \in Seq(R) /\ Len(k) = d[j + 1] - d[j] - 1
      /\ \A e \in 1..(d[j + 1] - d[j] - 1) : k[e] = t[d[j] + e]
  BY LevelItems
<1> HIDE DEF l, k
<1>3. ASSUME l = k
      PROVE  /\ c[i + 1] - c[i] = d[j + 1] - d[j]
             /\ \A e \in 1..(c[i + 1] - c[i] - 1) : s[c[i] + e] = t[d[j] + e]
  <2>1. c[i + 1] - c[i] - 1 = d[j + 1] - d[j] - 1
    BY <1>1, <1>2, <1>3
  <2>2. c[i + 1] - c[i] = d[j + 1] - d[j]
    BY <1>1, <1>2, <2>1, SMTT(30)
  <2> QED BY <1>1, <1>2, <1>3, <2>1, <2>2
<1>4. ASSUME c[i + 1] - c[i] = d[j + 1] - d[j],
             \A e \in 1..(c[i + 1] - c[i] - 1) : s[c[i] + e] = t[d[j] + e]
      PROVE  l = k
  <2>1. l \in Seq(S \cup R) /\ k \in Seq(S \cup R)
    BY <1>1, <1>2, SeqMonotonic
  <2>2. Len(l) = Len(k) /\ Len(l) = c[i + 1] - c[i] - 1
    BY <1>1, <1>2, <1>4
  <2>3. \A e \in 1..Len(l) : l[e] = k[e]
    BY <1>1, <1>2, <1>4, <2>2
  <2> QED BY <2>1, <2>2, <2>3, SeqEqual
<1> QED BY <1>3, <1>4 DEF l, k

-----------------------------------------------------------------------------
(* What a filter asks for *)

\* The last level is a "#".
Open(f, m, c) == c[m + 1] = c[m] + 2 /\ f[c[m] + 1] = "#"

\* The levels that are asked for one by one
Asked(f, m, c) == IF Open(f, m, c) THEN m - 1 ELSE m

\* Level i is a "+", or it has no character with a meaning.
IsAny(f, c, i) == c[i + 1] = c[i] + 2 /\ f[c[i] + 1] = "+"
IsName(f, c, i) ==
    \A x \in (c[i] + 1)..(c[i + 1] - 1) : f[x] \notin {"+", "#", "."}

\* Level i of f and level i of t are the same.
IsSame(f, c, t, d, i) ==
    /\ c[i + 1] - c[i] = d[i + 1] - d[i]
    /\ \A e \in 1..(c[i + 1] - c[i] - 1) : f[c[i] + e] = t[d[i] + e]

\* In a well-formed filter each level that is asked for is a "+" or a name.
LEMMA WellFormedLevels ==
    ASSUME NEW S, NEW f \in Seq(S), NEW m, NEW c, Cuts(f, m, c), WellFormed(f),
           NEW i \in 1..Asked(f, m, c)
    PROVE  i \in 1..m /\ (IsAny(f, c, i) \/ IsName(f, c, i))
<1>1. m \in Nat /\ m # 0 /\ DOMAIN Levels(f) = 1..m /\ Len(Levels(f)) = m
  BY DEF Cuts
<1>2. i \in 1..m
  BY <1>1 DEF Asked
<1>3. \/ ToSet(Levels(f)[i]) \cap ({"+", "#"} \cup Special) = {}
      \/ Levels(f)[i] = <<"+">>
      \/ Levels(f)[i] = <<"#">> /\ i = m
  BY <1>1, <1>2 DEF WellFormed
<1>4. CASE ToSet(Levels(f)[i]) \cap ({"+", "#"} \cup Special) = {}
  <2>1. \A x \in (c[i] + 1)..(c[i + 1] - 1) : f[x] \in ToSet(Levels(f)[i])
    BY <1>2, LevelSet
  <2>2. {"+", "#", "."} \subseteq {"+", "#"} \cup Special
    BY DEF Special
  <2>3. \A x \in (c[i] + 1)..(c[i + 1] - 1) : f[x] \notin {"+", "#", "."}
    <3> DEFINE L == ToSet(Levels(f)[i])
               X == {"+", "#"} \cup Special
    <3>1. L \cap X = {}
      BY <1>4
    <3> HIDE DEF L, X
    <3>2. \A e \in L : e \notin {"+", "#", "."}
      BY <2>2, <3>1 DEF X
    <3> QED BY <2>1, <3>2 DEF L
  <2> QED BY <1>2, <2>3 DEF IsName
<1> DEFINE Is(e) == c[i + 1] = c[i] + 2 /\ f[c[i] + 1] = e
<1>5. \A e : Levels(f)[i] = <<e>> <=> Is(e)
  BY <1>2, SingleLevel
<1>6. CASE Levels(f)[i] = <<"+">>
  <2>1. Is("+")
    BY <1>5, <1>6
  <2> QED BY <1>2, <2>1 DEF IsAny
<1>7. CASE Levels(f)[i] = <<"#">> /\ i = m
  <2>0. Is("#")
    BY <1>5, <1>7
  <2>1. Open(f, m, c)
    BY <1>7, <2>0 DEF Open
  <2>2. i \in 1..(m - 1)
    BY <2>1 DEF Asked
  <2> QED BY <1>1, <1>7, <2>2
<1> QED BY <1>3, <1>4, <1>6, <1>7

\* A level that is "+"
LEMMA AnyLevel ==
    ASSUME NEW S, NEW f \in Seq(S), NEW m, NEW c, Cuts(f, m, c), NEW i \in 1..m
    PROVE  Levels(f)[i] = <<"+">> <=> IsAny(f, c, i)
<1> DEFINE Is(e) == c[i + 1] = c[i] + 2 /\ f[c[i] + 1] = e
<1>1. \A e : Levels(f)[i] = <<e>> <=> Is(e)
  BY SingleLevel
<1>2. Levels(f)[i] = <<"+">> <=> Is("+")
  BY <1>1
<1> QED BY <1>2 DEF IsAny

\* What Covers says, in terms of the cuts
LEMMA CoversLevels ==
    ASSUME NEW S, NEW f \in Seq(S), NEW m, NEW c, Cuts(f, m, c),
           NEW R, NEW t \in Seq(R), NEW n, NEW d, Cuts(t, n, d)
    PROVE  Covers(f, t) <=>
              /\ IF Open(f, m, c) THEN n >= Asked(f, m, c)
                 ELSE n = Asked(f, m, c)
              /\ \A i \in 1..Asked(f, m, c) :
                    IsAny(f, c, i) \/ IsSame(f, c, t, d, i)
<1> DEFINE fs == Levels(f)
           ts == Levels(t)
           M == Asked(f, m, c)
<1>1. m \in Nat /\ m # 0 /\ DOMAIN fs = 1..m /\ Len(fs) = m /\ m \in 1..m
  BY DEF Cuts
<1>2. n \in Nat /\ n # 0 /\ DOMAIN ts = 1..n /\ Len(ts) = n
  BY DEF Cuts
<1>3. Last(fs) = <<"#">> <=> Open(f, m, c)
  <2>1. Last(fs) = fs[m]
    BY <1>1 DEF Last
  <2> QED BY <1>1, <2>1, SingleLevel DEF Open
<1>4. M \in Nat /\ M <= m /\ M = IF Open(f, m, c) THEN m - 1 ELSE m
  BY <1>1 DEF Asked
<1>5. Covers(f, t) <=>
         /\ IF Open(f, m, c) THEN n >= M ELSE n = M
         /\ \A i \in 1..M : fs[i] = <<"+">> \/ fs[i] = ts[i]
  <2> HIDE DEF fs, ts, M
  <2> QED BY <1>1, <1>2, <1>3, <1>4 DEF Covers, fs, ts
<1>6. ASSUME n >= M, NEW i \in 1..M
      PROVE  /\ fs[i] = <<"+">> <=> IsAny(f, c, i)
             /\ fs[i] = ts[i] <=> IsSame(f, c, t, d, i)
  <2>1. i \in 1..m /\ i \in 1..n
    BY <1>1, <1>2, <1>4, <1>6
  <2>2. fs[i] = <<"+">> <=> IsAny(f, c, i)
    BY <2>1, AnyLevel
  <2>3. fs[i] = ts[i] <=> IsSame(f, c, t, d, i)
    BY <2>1, SameLevel DEF IsSame
  <2> QED BY <2>2, <2>3
<1> HIDE DEF fs, ts, M
<1>7. n = M => n >= M
  BY <1>2, <1>4
<1> QED BY <1>5, <1>6, <1>7 DEF M

-----------------------------------------------------------------------------
(* The expression of a well-formed filter *)

\* The characters of a filter before a # of its own level and its "/"
Asking(f, m, c) == c[Asked(f, m, c) + 1] - 1

\* The item a character before a # is translated to
Item(c) == IF c = "+" THEN plus_regex ELSE c

\* A well-formed filter other than "#" is levels that are asked for one by
\* one, without any "#", and then "/#" or nothing.
LEMMA AskingLemma ==
    ASSUME NEW S, NEW f \in Seq(S), NEW m, NEW c, Cuts(f, m, c), WellFormed(f),
           Asked(f, m, c) # 0
    PROVE  LET M == Asked(f, m, c)
               N == Asking(f, m, c)
           IN  /\ M \in Nat /\ M <= m /\ m \in Nat
               /\ N \in Nat /\ N <= Len(f) /\ Len(f) \in Nat
               /\ IF Open(f, m, c)
                  THEN Len(f) = N + 2 /\ f[N + 1] = "/" /\ f[N + 2] = "#"
                  ELSE Len(f) = N /\ M = m
               /\ \A k \in 1..N : f[k] \notin {"#", "."}
<1> DEFINE M == Asked(f, m, c)
           N == Asking(f, m, c)
<1>1. /\ m \in Nat /\ m # 0 /\ Len(f) \in Nat
      /\ c[1] = 0 /\ c[m + 1] = Len(f) + 1
  BY LenProperties DEF Cuts
<1>2. M \in Nat /\ M <= m /\ M # 0 /\ M = IF Open(f, m, c) THEN m - 1 ELSE m
  BY <1>1 DEF Asked
<1> HIDE DEF M
<1>3. M \in 1..m /\ c[M] \in Nat /\ c[M + 1] \in Nat /\ c[M] < c[M + 1]
  BY <1>1, <1>2, LevelItems
<1>4. N = c[M + 1] - 1 /\ N \in Nat
  BY <1>3 DEF Asking, M
<1> HIDE DEF N
<1>5. ASSUME Open(f, m, c)
      PROVE  Len(f) = N + 2 /\ f[N + 1] = "/" /\ f[N + 2] = "#"
  <2>1. M + 1 = m /\ c[M + 1] = c[m] /\ m \in 2..m
    BY <1>1, <1>2, <1>5
  <2>2. c[m] \in Nat /\ c[m + 1] = c[m] + 2 /\ f[c[m] + 1] = "#"
    BY <1>3, <1>5, <2>1 DEF Open
  <2>3. c[m] = N + 1 /\ Len(f) = N + 2
    BY <1>1, <1>4, <2>1, <2>2, SMTT(30)
  <2>4. f[c[m]] = "/"
    BY <2>1 DEF Cuts
  <2>5. f[N + 1] = "/" /\ f[N + 2] = "#"
    <3>1. c[m] + 1 = N + 2
      BY <1>4, <2>3
    <3> QED BY <2>2, <2>3, <2>4, <3>1
  <2> QED BY <2>3, <2>5
<1>6. ASSUME ~Open(f, m, c)
      PROVE  Len(f) = N /\ M = m
  BY <1>1, <1>2, <1>4, <1>6
<1>7. N <= Len(f)
  BY <1>1, <1>4, <1>5, <1>6
<1>8. ASSUME NEW k \in 1..N
      PROVE  f[k] \notin {"#", "."}
  <2>1. k \in 1..Len(f) /\ k \in Nat /\ k # 0
    BY <1>1, <1>4, <1>7
  <2>2. PICK i \in 1..m : c[i] <= k /\ k < c[i + 1]
    BY <2>1, LocateLevel
  <2>3. c[i] \in Nat /\ c[i + 1] \in Nat
    BY LevelItems
  <2>4. i \in 1..M
    <3>1. CASE i <= M
      BY <1>2, <3>1
    <3>2. CASE ~(i <= M)
      <4>1. i = M + 1
        BY <1>1, <1>2, <3>2
      <4> QED BY <1>4, <2>1, <2>2, <2>3, <4>1
    <3> QED BY <3>1, <3>2
  <2>5. IsAny(f, c, i) \/ IsName(f, c, i)
    BY <2>4, WellFormedLevels DEF M
  <2>6. CASE k = c[i]
    <3>1. i # 1
      BY <1>1, <2>1, <2>6
    <3>2. i \in 2..m
      BY <1>1, <3>1
    <3>3. f[c[i]] = "/"
      BY <3>2 DEF Cuts
    <3> QED BY <2>6, <3>3
  <2>7. CASE k # c[i]
    <3>1. k \in (c[i] + 1)..(c[i + 1] - 1)
      BY <2>1, <2>2, <2>3, <2>7
    <3>2. CASE IsAny(f, c, i)
      <4>1. c[i + 1] = c[i] + 2 /\ f[c[i] + 1] = "+"
        BY <3>2 DEF IsAny
      <4>2. k = c[i] + 1
        BY <2>3, <3>1, <4>1
      <4> QED BY <4>1, <4>2
    <3>3. CASE IsName(f, c, i)
      BY <3>1, <3>3 DEF IsName
    <3> QED BY <2>5, <3>2, <3>3
  <2> QED BY <2>6, <2>7
<1> QED BY <1>1, <1>2, <1>4, <1>5, <1>6, <1>7, <1>8 DEF M, N

\* What Append adds is what Front takes back.
LEMMA AppendFront ==
    ASSUME NEW A, NEW s \in Seq(A), NEW e \in A
    PROVE  /\ Append(s, e) \in Seq(A) /\ Len(Append(s, e)) = Len(s) + 1
           /\ Append(s, e) # <<>>
           /\ \A i \in 1..Len(s) : Append(s, e)[i] = s[i]
           /\ Append(s, e)[Len(s) + 1] = e
           /\ Last(Append(s, e)) = e /\ Front(Append(s, e)) = s
<1> DEFINE q == Append(s, e)
<1>1. /\ q \in Seq(A) /\ Len(q) = Len(s) + 1 /\ q # <<>> /\ Len(s) \in Nat
      /\ \A i \in 1..Len(s) : q[i] = s[i]
      /\ q[Len(s) + 1] = e
  BY AppendProperties, LenProperties
<1> HIDE DEF q
<1>2. Last(q) = e
  BY <1>1 DEF Last
<1>3. /\ Front(q) \in Seq(A) /\ Len(Front(q)) = Len(q) - 1
      /\ \A i \in 1..(Len(q) - 1) : Front(q)[i] = q[i]
  BY <1>1, FrontLemma
<1>4. Len(Front(q)) = Len(s) /\ \A i \in 1..Len(s) : Front(q)[i] = s[i]
  BY <1>1, <1>3
<1>5. Front(q) = s
  BY <1>3, <1>4, SeqEqual
<1> QED BY <1>1, <1>2, <1>5 DEF q

\* The expression is the prefix, an item for each of the first N characters,
\* and one for what follows from the "/#", if that is there.
Shape(f, N, open, r) ==
    /\ Len(r) = (IF open THEN N + 3 ELSE N + 2)
    /\ r[1] = prefix[1] /\ r[2] = prefix[2]
    /\ \A k \in 1..N : r[k + 2] = Item(f[k])
    /\ open => r[N + 3] = hash_regex

\* That is the expression get_regex makes.
LEMMA ShapeLemma ==
    ASSUME NEW S, NEW f \in Seq(S), NEW N \in Nat, NEW open \in BOOLEAN,
           N <= Len(f),
           IF open THEN Len(f) = N + 2 /\ f[N + 1] = "/" /\ f[N + 2] = "#"
           ELSE Len(f) = N,
           \A k \in 1..N : f[k] # "#"
    PROVE  /\ \E A : get_regex(f) \in Seq(A)
           /\ Shape(f, N, open, get_regex(f))
<1> DEFINE U == S \cup {prefix[1], prefix[2]}
           A == U \cup Groups
           p == add_prefix(f)
<1>1. /\ Len(f) \in Nat /\ Len(p) = Len(f) + 2 /\ p \in Seq(U)
      /\ p[1] = prefix[1] /\ p[2] = prefix[2]
      /\ \A k \in 1..Len(f) : p[k + 2] = f[k] /\ f[k] \in S
  BY PrefixedLemma
<1>2. PICK h \in [0..Len(p) -> Seq(A)] :
         /\ h[0] = <<>>
         /\ \A k \in 1..Len(p) : h[k] = Translate(h[k - 1], p[k])
         /\ get_regex(f) = h[Len(p)]
  <2>1. p \in Seq(U \cup {"+", "#"})
    BY <1>1, SeqMonotonic
  <2> HIDE DEF U
  <2> QED BY <2>1, RegexSteps
<1>3. /\ prefix[1] \in A /\ prefix[2] \in A
      /\ prefix[1] \notin {"+", "#"} /\ prefix[2] \notin {"+", "#"}
      /\ plus_regex \in A /\ hash_regex \in A
      /\ "/" \notin {"+", "#", plus_regex, hash_regex}
      /\ \A x \in S : x \in A
  BY CharsFacts DEF Groups, plus_regex, hash_regex
<1> HIDE DEF A, U, p
<1>4. ASSUME NEW k \in 1..Len(p), p[k] # "#", Item(p[k]) \in A
      PROVE  /\ h[k - 1] \in Seq(A) /\ h[k] = Append(h[k - 1], Item(p[k]))
             /\ Len(h[k]) = Len(h[k - 1]) + 1
             /\ \A i \in 1..Len(h[k - 1]) : h[k][i] = h[k - 1][i]
             /\ h[k][Len(h[k - 1]) + 1] = Item(p[k])
  <2>1. k - 1 \in 0..Len(p)
    BY <1>1
  <2>2. h[k - 1] \in Seq(A)
    BY <1>2, <2>1
  <2>3. h[k] = Append(h[k - 1], Item(p[k]))
    BY <1>2, <1>4 DEF Translate, Item
  <2> QED BY <1>4, <2>2, <2>3, AppendFront
<1> DEFINE Good(k) ==
              /\ Len(h[k + 2]) = k + 2
              /\ h[k + 2][1] = prefix[1] /\ h[k + 2][2] = prefix[2]
              /\ \A i \in 1..k : h[k + 2][i + 2] = Item(f[i])
           T == {k \in 0..N : Good(k)}
<1>5. 0 \in T
  <2>1. /\ 1 \in 1..Len(p) /\ 2 \in 1..Len(p)
        /\ Item(p[1]) = prefix[1] /\ Item(p[2]) = prefix[2]
        /\ p[1] # "#" /\ p[2] # "#"
    BY <1>1, <1>3 DEF Item
  <2>2. Len(h[0]) = 0
    BY <1>2
  <2>3. /\ Len(h[1]) = Len(h[1 - 1]) + 1
        /\ h[1][Len(h[1 - 1]) + 1] = Item(p[1])
    BY <1>3, <1>4, <2>1
  <2>4. Len(h[1]) = 1 /\ h[1][1] = prefix[1]
    BY <2>1, <2>2, <2>3
  <2>5. /\ Len(h[2]) = Len(h[2 - 1]) + 1
        /\ \A i \in 1..Len(h[2 - 1]) : h[2][i] = h[2 - 1][i]
        /\ h[2][Len(h[2 - 1]) + 1] = Item(p[2])
    BY <1>3, <1>4, <2>1
  <2>6. 2 - 1 = 1 /\ 1 \in 1..1
    OBVIOUS
  <2>7. Len(h[2]) = 2 /\ h[2][1] = prefix[1] /\ h[2][2] = prefix[2]
    BY <2>1, <2>4, <2>5, <2>6
  <2> QED BY <2>7
<1>6. ASSUME NEW k \in 1..N, k - 1 \in T
      PROVE  k \in T
  <2>1. /\ k \in 1..Len(f) /\ k + 2 \in 1..Len(p) /\ (k + 2) - 1 = (k - 1) + 2
        /\ (k - 1) + 2 = k + 1 /\ (k + 1) + 1 = k + 2
        /\ k \in Nat /\ k # 0
    BY <1>1
  <2>2. p[k + 2] = f[k] /\ f[k] # "#" /\ Item(f[k]) \in A
    BY <1>1, <1>3, <2>1 DEF Item
  <2>3. Good(k - 1)
    BY <1>6
  <2>4. /\ Len(h[k + 1]) = k + 1
        /\ h[k + 1][1] = prefix[1] /\ h[k + 1][2] = prefix[2]
        /\ \A i \in 1..(k - 1) : h[k + 1][i + 2] = Item(f[i])
    BY <2>1, <2>3
  <2>5. /\ Len(h[k + 2]) = Len(h[(k + 2) - 1]) + 1
        /\ \A i \in 1..Len(h[(k + 2) - 1]) : h[k + 2][i] = h[(k + 2) - 1][i]
        /\ h[k + 2][Len(h[(k + 2) - 1]) + 1] = Item(p[k + 2])
    BY <1>4, <2>1, <2>2
  <2>6. /\ Len(h[k + 2]) = k + 2
        /\ \A i \in 1..(k + 1) : h[k + 2][i] = h[k + 1][i]
        /\ h[k + 2][k + 2] = Item(f[k])
    BY <2>1, <2>2, <2>4, <2>5
  <2>7. h[k + 2][1] = prefix[1] /\ h[k + 2][2] = prefix[2]
    <3>1. 1 \in 1..(k + 1) /\ 2 \in 1..(k + 1)
      BY <2>1
    <3> QED BY <2>4, <2>6, <3>1
  <2>8. ASSUME NEW i \in 1..k
        PROVE  h[k + 2][i + 2] = Item(f[i])
    <3>1. CASE i = k
      BY <2>6, <3>1
    <3>2. CASE i # k
      <4>1. i \in 1..(k - 1) /\ i + 2 \in 1..(k + 1)
        BY <2>1, <3>2
      <4> QED BY <2>4, <2>6, <4>1
    <3> QED BY <3>1, <3>2
  <2> QED BY <2>6, <2>7, <2>8
<1>7. Good(N)
  <2> HIDE DEF Good
  <2>1. 0 \in T /\ \A k \in 1..N : k - 1 \in T => k \in T
    BY <1>5, <1>6
  <2> HIDE DEF T
  <2>2. \A k \in 0..N : k \in T
    BY <2>1, UpToInduction
  <2>3. N \in T
    BY <2>2
  <2> QED BY <2>3 DEF T
<1>8. CASE ~open
  <2>1. Len(p) = N + 2
    BY <1>1, <1>8
  <2>2. get_regex(f) \in Seq(A)
    <3>1. Len(p) \in 0..Len(p)
      BY <1>1
    <3> QED BY <1>2, <3>1
  <2>3. get_regex(f) = h[N + 2]
    BY <1>2, <2>1
  <2> QED BY <1>7, <1>8, <2>2, <2>3 DEF Shape
<1>9. CASE open
  <2>1. /\ Len(p) = N + 4 /\ N + 1 \in 1..Len(f) /\ N + 2 \in 1..Len(f)
        /\ (N + 1) + 2 = N + 3 /\ (N + 2) + 2 = N + 4
        /\ N + 3 \in 1..Len(p) /\ N + 4 \in 1..Len(p)
        /\ (N + 3) - 1 = N + 2 /\ (N + 4) - 1 = N + 3
        /\ N + 2 \in 0..Len(p) /\ N + 3 \in 0..Len(p) /\ N + 4 \in 0..Len(p)
    BY <1>1, <1>9
  <2>2. p[N + 3] = "/" /\ p[N + 4] = "#" /\ "/" \in A
    <3>1. /\ p[(N + 1) + 2] = f[N + 1] /\ f[N + 1] \in S
          /\ p[(N + 2) + 2] = f[N + 2]
      BY <1>1, <2>1
    <3>2. f[N + 1] = "/" /\ f[N + 2] = "#"
      BY <1>9
    <3> QED BY <1>3, <2>1, <3>1, <3>2
  <2>3. h[N + 2] \in Seq(A) /\ h[N + 3] = Append(h[N + 2], "/")
    <3>1. h[N + 2] \in Seq(A)
      BY <1>2, <2>1
    <3>2. h[N + 3] = Translate(h[(N + 3) - 1], p[N + 3])
      BY <1>2, <2>1
    <3>3. h[N + 3] = Translate(h[N + 2], "/")
      BY <2>1, <2>2, <3>2
    <3> QED BY <3>1, <3>3 DEF Translate
  <2>4. Last(h[N + 3]) = "/" /\ Front(h[N + 3]) = h[N + 2]
    BY <2>2, <2>3, AppendFront
  <2>5. StepBack(h[N + 3]) = h[N + 2]
    BY <1>3, <2>4 DEF StepBack
  <2>6. h[N + 4] = Append(h[N + 2], hash_regex)
    <3>1. h[N + 4] = Translate(h[(N + 4) - 1], p[N + 4])
      BY <1>2, <2>1
    <3>2. h[N + 4] = Translate(h[N + 3], "#")
      BY <2>1, <2>2, <3>1
    <3> QED BY <2>5, <3>2 DEF Translate
  <2> DEFINE q == h[N + 4]
  <2>7. /\ q \in Seq(A) /\ Len(q) = Len(h[N + 2]) + 1
        /\ \A i \in 1..Len(h[N + 2]) : q[i] = h[N + 2][i]
        /\ q[Len(h[N + 2]) + 1] = hash_regex
    BY <1>3, <2>3, <2>6, AppendFront
  <2>8. get_regex(f) = q
    BY <1>2, <2>1
  <2> HIDE DEF q
  <2>9. /\ Len(q) = N + 3 /\ q[N + 3] = hash_regex
        /\ \A i \in 1..(N + 2) : q[i] = h[N + 2][i]
    <3>1. Len(h[N + 2]) = N + 2 /\ (N + 2) + 1 = N + 3
      BY <1>7
    <3> QED BY <2>7, <3>1
  <2>10. q[1] = prefix[1] /\ q[2] = prefix[2]
    <3>1. 1 \in 1..(N + 2) /\ 2 \in 1..(N + 2)
      OBVIOUS
    <3> QED BY <1>7, <2>9, <3>1
  <2>11. \A k \in 1..N : q[k + 2] = Item(f[k])
    <3>1. \A k \in 1..N : k + 2 \in 1..(N + 2)
      OBVIOUS
    <3> QED BY <1>7, <2>9, <3>1
  <2> QED BY <1>9, <2>7, <2>8, <2>9, <2>10, <2>11 DEF Shape
<1> QED BY <1>8, <1>9

-----------------------------------------------------------------------------
(* What an expression matches *)

\* Where each item of a match of the first k items of r ends: the match is of
\* the characters of w from p + 1 to q.
Chain(r, w, p, q, k, J) ==
    /\ J \in [0..k -> p..Len(w)]
    /\ J[0] = p /\ J[k] = q
    /\ \A i \in 1..k : J[i - 1] <= J[i] /\ Spans(r[i], w, J[i - 1], J[i])

\* Ends has the ends of these.
LEMMA EndsChain ==
    ASSUME NEW A, NEW r \in Seq(A), NEW w, Len(w) \in Nat,
           NEW p \in 0..Len(w), NEW q
    PROVE  q \in Ends(r, w, p) <=> \E J : Chain(r, w, p, q, Len(r), J)
<1> DEFINE n == Len(r)
           Q == p..Len(w)
           After(k, before) ==
              {x \in Q : \E b \in before : b <= x /\ Spans(r[k], w, b, x)}
           Is(g) == g = [k \in 0..n |-> IF k = 0 THEN {p} ELSE After(k, g[k - 1])]
           Reached(k) == {x \in Q : \E J : Chain(r, w, p, x, k, J)}
           g == [k \in 0..n |-> Reached(k)]
<1>1. n \in Nat /\ p \in Nat /\ p \in Q
  BY LenProperties
<1>2. Ends(r, w, p) = (CHOOSE h : Is(h))[n]
  BY DEF Ends
<1>3. Reached(0) = {p}
  <2>1. ASSUME NEW x \in Q, NEW J, Chain(r, w, p, x, 0, J)
        PROVE  x = p
    BY <2>1 DEF Chain
  <2>2. Chain(r, w, p, p, 0, [i \in 0..0 |-> p])
    BY <1>1 DEF Chain
  <2> QED BY <1>1, <2>1, <2>2
<1>4. ASSUME NEW k \in 1..n, NEW x \in Q
      PROVE  x \in Reached(k) <=> x \in After(k, Reached(k - 1))
  <2>1. /\ k \in Nat /\ k # 0 /\ k - 1 \in Nat /\ k \in 0..k /\ k - 1 \in 0..k
        /\ k - 1 \in 0..(k - 1) /\ 0 \in 0..(k - 1) /\ k \in 1..k
        /\ \A i \in 1..k : i # k =>
              i \in 1..(k - 1) /\ i \in 0..(k - 1) /\ i - 1 \in 0..(k - 1)
        /\ \A i \in 0..(k - 1) : i \in 0..k /\ i # k
        /\ \A i \in 0..k : i # k => i \in 0..(k - 1)
        /\ \A i \in 1..(k - 1) : i \in 1..k
    BY <1>1
  <2>2. ASSUME NEW J, Chain(r, w, p, x, k, J)
        PROVE  x \in After(k, Reached(k - 1))
    <3> DEFINE b == J[k - 1]
               I == [i \in 0..(k - 1) |-> J[i]]
    <3>1. b \in Q /\ b <= x /\ Spans(r[k], w, b, x)
      BY <2>1, <2>2 DEF Chain
    <3>2. I \in [0..(k - 1) -> Q] /\ \A i \in 0..(k - 1) : I[i] = J[i]
      BY <2>1, <2>2 DEF Chain
    <3> HIDE DEF I, b
    <3>3. I[0] = p /\ I[k - 1] = b
      BY <2>1, <2>2, <3>2 DEF Chain, b
    <3>4. \A i \in 1..(k - 1) : I[i - 1] <= I[i] /\ Spans(r[i], w, I[i - 1], I[i])
      <4> SUFFICES ASSUME NEW i \in 1..(k - 1)
                   PROVE  I[i - 1] <= I[i] /\ Spans(r[i], w, I[i - 1], I[i])
        OBVIOUS
      <4>1. i \in 1..k /\ i \in 0..(k - 1) /\ i - 1 \in 0..(k - 1)
        BY <2>1
      <4>2. I[i] = J[i] /\ I[i - 1] = J[i - 1]
        BY <3>2, <4>1
      <4> QED BY <2>2, <4>1, <4>2 DEF Chain
    <3>5. Chain(r, w, p, b, k - 1, I)
      BY <3>2, <3>3, <3>4 DEF Chain
    <3> QED BY <3>1, <3>5
  <2>3. ASSUME NEW b \in Q, NEW I, Chain(r, w, p, b, k - 1, I),
               b <= x, Spans(r[k], w, b, x)
        PROVE  \E J : Chain(r, w, p, x, k, J)
    <3> DEFINE J == [i \in 0..k |-> IF i = k THEN x ELSE I[i]]
    <3>1. J \in [0..k -> Q]
      BY <2>1, <2>3 DEF Chain
    <3>2. J[k] = x /\ \A i \in 0..(k - 1) : J[i] = I[i]
      BY <2>1
    <3> HIDE DEF J
    <3>3. J[0] = p /\ J[k - 1] = b
      BY <2>1, <2>3, <3>2 DEF Chain
    <3>4. ASSUME NEW i \in 1..k
          PROVE  J[i - 1] <= J[i] /\ Spans(r[i], w, J[i - 1], J[i])
      <4>1. CASE i = k
        BY <2>3, <3>2, <3>3, <4>1
      <4>2. CASE i # k
        <5>1. i \in 1..(k - 1) /\ J[i] = I[i] /\ J[i - 1] = I[i - 1]
          BY <2>1, <3>2, <4>2
        <5> QED BY <2>3, <5>1 DEF Chain
      <4> QED BY <4>1, <4>2
    <3>5. Chain(r, w, p, x, k, J)
      BY <3>1, <3>2, <3>3, <3>4 DEF Chain
    <3> QED BY <3>5
  <2> QED BY <2>2, <2>3
<1>5. Is(g)
  <2>1. \A k \in 1..n : Reached(k) = After(k, Reached(k - 1))
    BY <1>4
  <2>2. \A k \in 0..n : k # 0 => k \in 1..n /\ k - 1 \in 0..n
    BY <1>1
  <2> HIDE DEF Reached, After
  <2>3. \A k \in 0..n : g[k] = Reached(k)
    OBVIOUS
  <2>4. \A k \in 0..n :
           Reached(k) = IF k = 0 THEN {p} ELSE After(k, g[k - 1])
    BY <1>3, <2>1, <2>2, <2>3
  <2> QED BY <2>4
<1>6. ASSUME NEW h, Is(h)
      PROVE  h[n] = Reached(n)
  <2> DEFINE T == {k \in 0..n : h[k] = Reached(k)}
  <2>1. \A k \in 0..n : h[k] = IF k = 0 THEN {p} ELSE After(k, h[k - 1])
    <3> HIDE DEF After
    <3> QED BY <1>6
  <2>2. 0 \in T
    <3>1. 0 \in 0..n
      BY <1>1
    <3> HIDE DEF After, Reached
    <3>2. h[0] = {p}
      BY <2>1, <3>1
    <3> QED BY <1>3, <3>1, <3>2
  <2>3. ASSUME NEW k \in 1..n, k - 1 \in T
        PROVE  k \in T
    <3>1. k \in 0..n /\ k # 0 /\ h[k - 1] = Reached(k - 1)
      BY <1>1, <2>3
    <3>2. Reached(k) = After(k, Reached(k - 1))
      BY <1>4
    <3> HIDE DEF After, Reached
    <3> QED BY <2>1, <3>1, <3>2
  <2> HIDE DEF T
  <2>4. \A k \in 0..n : k \in T
    BY <1>1, <2>2, <2>3, UpToInduction
  <2>5. n \in T
    BY <1>1, <2>4
  <2> QED BY <2>5 DEF T
<1>7. Ends(r, w, p) = Reached(n)
  <2> HIDE DEF Is, g
  <2>1. Is(CHOOSE h : Is(h))
    BY <1>5
  <2> HIDE DEF Reached
  <2> QED BY <1>2, <1>6, <2>1
<1>8. ASSUME NEW J, Chain(r, w, p, q, n, J)
      PROVE  q \in Q
  <2>1. n \in 0..n
    BY <1>1
  <2> QED BY <1>8, <2>1 DEF Chain
<1> QED BY <1>7, <1>8

\* A character without a meaning matches itself.
LEMMA SpansCharacter ==
    ASSUME NEW a, a \notin Groups \cup {"."}, NEW w, NEW p, NEW q
    PROVE  Spans(a, w, p, q) <=> q = p + 1 /\ w[q] = a
BY DEF Spans, Groups, plus_regex, one_regex, hash_regex, once_regex

\* A + matches one letter or digit and more.
LEMMA SpansPlus ==
    ASSUME NEW w, NEW p, NEW q
    PROVE  Spans(plus_regex, w, p, q) <=>
             p < q /\ \A i \in (p + 1)..q : w[i] \in Alphanumeric
BY DEF Spans, plus_regex, one_regex, hash_regex, once_regex

\* A # matches nothing, or levels from their "/" on.
LEMMA SpansHash ==
    ASSUME NEW w, NEW p, NEW q
    PROVE  Spans(hash_regex, w, p, q) <=>
             \/ q = p
             \/ /\ p < q /\ w[p + 1] = "/" /\ w[q] # "/"
                /\ \A i \in (p + 1)..q : w[i] \in Alphanumeric \cup {"/"}
                /\ \A i \in (p + 1)..(q - 1) : w[i] # "/" \/ w[i + 1] # "/"
BY DEF Spans, plus_regex, one_regex, hash_regex, once_regex

\* An item matches after the prefix what it matches without.
LEMMA SpansTopic ==
    ASSUME NEW S, NEW t \in Seq(S), NEW a \in 0..Len(t), NEW b \in 0..Len(t),
           NEW x, x \in {plus_regex, hash_regex} \/ x \notin Groups \cup {"."}
    PROVE  Spans(x, add_prefix(t), a + 2, b + 2) /\ a + 2 <= b + 2
              <=> Spans(x, t, a, b) /\ a <= b
<1> DEFINE w == add_prefix(t)
<1>1. /\ a \in Nat /\ b \in Nat /\ Len(t) \in Nat
      /\ \A k \in 1..Len(t) : w[k + 2] = t[k]
  <2>1. Len(t) \in Nat /\ \A k \in 1..Len(t) : w[k + 2] = t[k]
    BY PrefixedLemma, ZenonT(30)
  <2> QED BY <2>1
<1> HIDE DEF w
<1>2. ASSUME NEW D
      PROVE  (\A i \in (a + 2 + 1)..(b + 2) : w[i] \in D)
               <=> \A i \in (a + 1)..b : t[i] \in D
  <2>1. ASSUME NEW i \in (a + 1)..b
        PROVE  i + 2 \in (a + 2 + 1)..(b + 2) /\ w[i + 2] = t[i]
    BY <1>1
  <2>2. ASSUME NEW i \in (a + 2 + 1)..(b + 2)
        PROVE  i - 2 \in (a + 1)..b /\ w[i] = t[i - 2]
    <3>1. i - 2 \in (a + 1)..b /\ i - 2 \in 1..Len(t) /\ (i - 2) + 2 = i
      BY <1>1
    <3> QED BY <1>1, <3>1
  <2> QED BY <2>1, <2>2
<1>3. (\A i \in (a + 2 + 1)..(b + 2 - 1) : w[i] # "/" \/ w[i + 1] # "/")
        <=> \A i \in (a + 1)..(b - 1) : t[i] # "/" \/ t[i + 1] # "/"
  <2>1. ASSUME NEW i \in (a + 1)..(b - 1)
        PROVE  /\ i + 2 \in (a + 2 + 1)..(b + 2 - 1) /\ w[i + 2] = t[i]
               /\ w[(i + 2) + 1] = t[i + 1]
    <3>1. /\ i + 2 \in (a + 2 + 1)..(b + 2 - 1) /\ i \in 1..Len(t)
          /\ i + 1 \in 1..Len(t) /\ (i + 2) + 1 = (i + 1) + 2
      BY <1>1
    <3> QED BY <1>1, <3>1, SMTT(30)
  <2>2. ASSUME NEW i \in (a + 2 + 1)..(b + 2 - 1)
        PROVE  /\ i - 2 \in (a + 1)..(b - 1) /\ w[i] = t[i - 2]
               /\ w[i + 1] = t[(i - 2) + 1]
    <3>1. /\ i - 2 \in (a + 1)..(b - 1) /\ i - 2 \in 1..Len(t)
          /\ (i - 2) + 1 \in 1..Len(t)
          /\ (i - 2) + 2 = i /\ ((i - 2) + 1) + 2 = i + 1
      BY <1>1
    <3> QED BY <1>1, <3>1
  <2>3. ASSUME \A i \in (a + 2 + 1)..(b + 2 - 1) : w[i] # "/" \/ w[i + 1] # "/",
               NEW i \in (a + 1)..(b - 1)
        PROVE  t[i] # "/" \/ t[i + 1] # "/"
    BY <2>1, <2>3, Zenon
  <2>4. ASSUME \A i \in (a + 1)..(b - 1) : t[i] # "/" \/ t[i + 1] # "/",
               NEW i \in (a + 2 + 1)..(b + 2 - 1)
        PROVE  w[i] # "/" \/ w[i + 1] # "/"
    BY <2>2, <2>4, Zenon
  <2> QED BY <2>3, <2>4
<1>4. a < b => w[a + 2 + 1] = t[a + 1] /\ w[b + 2] = t[b]
  <2>1. a < b => a + 1 \in 1..Len(t) /\ b \in 1..Len(t) /\ (a + 1) + 2 = a + 2 + 1
    BY <1>1
  <2> QED BY <1>1, <2>1
<1>5. /\ a + 2 <= b + 2 <=> a <= b
      /\ a + 2 < b + 2 <=> a < b
      /\ a + 2 = b + 2 <=> a = b
      /\ b + 2 = a + 2 + 1 <=> b = a + 1
      /\ b = a + 1 => a < b
  BY <1>1
<1>6. CASE x = plus_regex
  <2>1. Spans(x, w, a + 2, b + 2) <=>
           a + 2 < b + 2 /\ \A i \in (a + 2 + 1)..(b + 2) : w[i] \in Alphanumeric
    BY <1>6, SpansPlus
  <2>2. Spans(x, t, a, b) <=> a < b /\ \A i \in (a + 1)..b : t[i] \in Alphanumeric
    BY <1>6, SpansPlus
  <2> QED BY <1>2, <1>5, <2>1, <2>2 DEF w
<1>7. CASE x = hash_regex
  <2>1. Spans(x, w, a + 2, b + 2) <=>
             \/ b + 2 = a + 2
             \/ /\ a + 2 < b + 2 /\ w[a + 2 + 1] = "/" /\ w[b + 2] # "/"
                /\ \A i \in (a + 2 + 1)..(b + 2) : w[i] \in Alphanumeric \cup {"/"}
                /\ \A i \in (a + 2 + 1)..(b + 2 - 1) : w[i] # "/" \/ w[i + 1] # "/"
    BY <1>7, SpansHash, SMTT(30)
  <2>2. Spans(x, t, a, b) <=>
             \/ b = a
             \/ /\ a < b /\ t[a + 1] = "/" /\ t[b] # "/"
                /\ \A i \in (a + 1)..b : t[i] \in Alphanumeric \cup {"/"}
                /\ \A i \in (a + 1)..(b - 1) : t[i] # "/" \/ t[i + 1] # "/"
    BY <1>7, SpansHash
  <2>3. (\A i \in (a + 2 + 1)..(b + 2) : w[i] \in Alphanumeric \cup {"/"})
          <=> \A i \in (a + 1)..b : t[i] \in Alphanumeric \cup {"/"}
    BY <1>2
  <2> QED BY <1>3, <1>4, <1>5, <2>1, <2>2, <2>3 DEF w
<1>8. CASE x \notin Groups \cup {"."}
  <2>1. Spans(x, w, a + 2, b + 2) <=> b + 2 = a + 2 + 1 /\ w[b + 2] = x
    BY <1>8, SpansCharacter
  <2>2. Spans(x, t, a, b) <=> b = a + 1 /\ t[b] = x
    BY <1>8, SpansCharacter
  <2> QED BY <1>4, <1>5, <2>1, <2>2 DEF w
<1> QED BY <1>6, <1>7, <1>8

(***************************************************************************)
(* A walk of the first N characters of the filter f through the topic t:   *)
(* j[k] characters of t are matched by k of f, and what follows from a     *)
(* "/#", if that is there, matches the others.                             *)
(***************************************************************************)
Walk(f, N, open, t, j) ==
    /\ j \in [0..N -> 0..Len(t)] /\ j[0] = 0
    /\ \A k \in 1..N : j[k - 1] <= j[k] /\ Spans(Item(f[k]), t, j[k - 1], j[k])
    /\ IF open THEN j[N] <= Len(t) /\ Spans(hash_regex, t, j[N], Len(t))
       ELSE j[N] = Len(t)

\* The prefix is no group and matches itself.
LEMMA PrefixItems ==
    /\ prefix[1] \notin Groups \cup {"."} /\ prefix[2] \notin Groups \cup {"."}
    /\ prefix[1] # prefix[2]
<1>1. prefix[1] = "GNUNET-MQTT 0001 00000" /\ prefix[2] = " "
  BY DEF prefix
<1> QED BY <1>1 DEF Groups, plus_regex, one_regex, hash_regex, once_regex

\* A match of the expression starts where the topic does, and is a walk.
LEMMA MatchIsWalk ==
    ASSUME NEW f, NEW N \in Nat, NEW open \in BOOLEAN,
           NEW A, NEW r \in Seq(A), Shape(f, N, open, r),
           \A k \in 1..N : f[k] \notin Groups \cup {"."},
           NEW R, NEW t \in Seq(R), prefix[1] \notin R,
           Match(r, t)
    PROVE  \E j : Walk(f, N, open, t, j)
<1> DEFINE w == add_prefix(t)
           n == Len(r)
<1>1. /\ Len(t) \in Nat /\ Len(w) = Len(t) + 2
      /\ w[1] = prefix[1] /\ w[2] = prefix[2]
      /\ \A k \in 1..Len(t) : w[k + 2] = t[k] /\ t[k] \in R
  BY PrefixedLemma
<1>2. PICK p \in 0..Len(w) : Len(w) \in Ends(r, w, p)
  BY DEF Match, match_subcriber_regex
<1>3. Len(w) \in Nat
  BY <1>1
<1>4. PICK J : Chain(r, w, p, Len(w), n, J)
  BY <1>2, <1>3, EndsChain
<1> HIDE DEF w, n
<1>5. /\ J \in [0..n -> p..Len(w)] /\ J[0] = p /\ J[n] = Len(w)
      /\ \A i \in 1..n : J[i - 1] <= J[i] /\ Spans(r[i], w, J[i - 1], J[i])
  BY <1>4 DEF Chain
<1>6. /\ n = (IF open THEN N + 3 ELSE N + 2)
      /\ r[1] = prefix[1] /\ r[2] = prefix[2]
      /\ \A k \in 1..N : r[k + 2] = Item(f[k])
      /\ open => r[N + 3] = hash_regex
  BY DEF Shape, n
<1>7. n \in Nat /\ 1 \in 1..n /\ 2 \in 1..n /\ 1 \in 0..n /\ 2 \in 0..n
  BY <1>6
<1>8. p = 0 /\ J[1] = 1
  <2>1. Spans(prefix[1], w, J[1 - 1], J[1])
    BY <1>5, <1>6, <1>7
  <2>2. J[1] = p + 1 /\ w[J[1]] = prefix[1]
    BY <1>5, <2>1, PrefixItems, SpansCharacter
  <2>3. J[1] \in p..Len(w)
    BY <1>5, <1>7
  <2>4. p \in Nat /\ p + 1 <= Len(t) + 2
    BY <1>1, <2>2, <2>3
  <2>5. p # 1
    BY <1>1, <2>2, PrefixItems
  <2>6. ASSUME p >= 2
        PROVE  FALSE
    <3>1. p - 1 \in 1..Len(t) /\ (p - 1) + 2 = p + 1
      BY <1>1, <2>4, <2>6
    <3>2. w[p + 1] \in R
      BY <1>1, <3>1
    <3> QED BY <2>2, <3>2
  <2> QED BY <2>2, <2>4, <2>5, <2>6
<1>9. J[2] = 2
  <2>1. Spans(prefix[2], w, J[2 - 1], J[2])
    BY <1>5, <1>6, <1>7
  <2>2. J[2] = J[2 - 1] + 1
    BY <2>1, PrefixItems, SpansCharacter
  <2> QED BY <1>8, <2>2
<1>10. \A k \in 0..N : k + 2 \in 0..n /\ J[k + 2] \in 0..Len(w)
  <2>1. \A k \in 0..N : k + 2 \in 0..n
    BY <1>6
  <2> QED BY <1>5, <1>8, <2>1
<1>11. \A k \in 1..N : /\ k + 2 \in 1..n /\ (k + 2) - 1 = k + 1
                       /\ (k - 1) + 2 = k + 1 /\ k - 1 \in 0..N /\ k \in 0..N
  BY <1>6
<1>12. ASSUME NEW k \in 1..N
       PROVE  /\ J[(k - 1) + 2] <= J[k + 2]
              /\ Spans(Item(f[k]), w, J[(k - 1) + 2], J[k + 2])
  <2>1. (k - 1) + 2 = (k + 2) - 1 /\ k + 2 \in 1..n
    BY <1>11
  <2>2. /\ J[(k + 2) - 1] <= J[k + 2]
        /\ Spans(r[k + 2], w, J[(k + 2) - 1], J[k + 2])
    BY <1>5, <2>1
  <2> QED BY <1>6, <2>1, <2>2
<1>13. \A k \in 0..N : J[k + 2] >= 2
  <2> DEFINE T == {k \in 0..N : J[k + 2] >= 2}
  <2>1. 0 \in T
    BY <1>9
  <2>2. ASSUME NEW k \in 1..N, k - 1 \in T
        PROVE  k \in T
    <3>1. /\ J[(k - 1) + 2] >= 2 /\ J[(k - 1) + 2] <= J[k + 2]
          /\ J[(k - 1) + 2] \in 0..Len(w) /\ J[k + 2] \in 0..Len(w)
      BY <1>10, <1>11, <1>12, <2>2
    <3>2. J[k + 2] >= 2
      BY <1>3, <3>1
    <3> QED BY <1>11, <3>2
  <2> HIDE DEF T
  <2>3. \A k \in 0..N : k \in T
    BY <2>1, <2>2, UpToInduction
  <2> QED BY <2>3 DEF T
<1> DEFINE j == [k \in 0..N |-> J[k + 2] - 2]
<1>14. \A k \in 0..N : j[k] \in 0..Len(t) /\ j[k] + 2 = J[k + 2]
  <2> SUFFICES ASSUME NEW k \in 0..N
               PROVE  J[k + 2] - 2 \in 0..Len(t) /\ (J[k + 2] - 2) + 2 = J[k + 2]
    OBVIOUS
  <2>1. J[k + 2] \in 0..Len(w) /\ J[k + 2] >= 2
    BY <1>10, <1>13
  <2> QED BY <1>1, <2>1
<1>15. j \in [0..N -> 0..Len(t)]
  BY <1>14
<1>16. j[0] = 0
  BY <1>9
<1> HIDE DEF j
<1>17. ASSUME NEW k \in 1..N
       PROVE  j[k - 1] <= j[k] /\ Spans(Item(f[k]), t, j[k - 1], j[k])
  <2>1. /\ j[k - 1] \in 0..Len(t) /\ j[k] \in 0..Len(t)
        /\ j[k - 1] + 2 = J[(k - 1) + 2] /\ j[k] + 2 = J[k + 2]
    BY <1>11, <1>14
  <2>2. /\ j[k - 1] + 2 <= j[k] + 2
        /\ Spans(Item(f[k]), w, j[k - 1] + 2, j[k] + 2)
    BY <1>12, <2>1
  <2>3. \/ Item(f[k]) \in {plus_regex, hash_regex}
        \/ Item(f[k]) \notin Groups \cup {"."}
    BY DEF Item
  <2> QED BY <2>1, <2>2, <2>3, SpansTopic DEF w
<1>18. IF open THEN j[N] <= Len(t) /\ Spans(hash_regex, t, j[N], Len(t))
       ELSE j[N] = Len(t)
  <2>1. N \in 0..N /\ j[N] \in 0..Len(t) /\ j[N] + 2 = J[N + 2]
    BY <1>14
  <2>2. CASE open
    <3>1. n = N + 3 /\ N + 3 \in 1..n /\ (N + 3) - 1 = N + 2
      BY <1>6, <2>2
    <3>2. /\ J[N + 2] <= J[N + 3]
          /\ Spans(hash_regex, w, J[N + 2], J[N + 3])
      BY <1>5, <1>6, <2>2, <3>1
    <3>3. J[N + 3] = Len(t) + 2 /\ Len(t) \in 0..Len(t)
      BY <1>1, <1>5, <3>1
    <3>4. /\ j[N] + 2 <= Len(t) + 2
          /\ Spans(hash_regex, w, j[N] + 2, Len(t) + 2)
      BY <2>1, <3>2, <3>3
    <3> QED BY <2>1, <2>2, <3>3, <3>4, SpansTopic DEF w
  <2>3. CASE ~open
    <3>1. n = N + 2
      BY <1>6, <2>3
    <3>2. j[N] + 2 = Len(t) + 2 /\ j[N] \in Nat
      BY <1>1, <1>5, <2>1, <3>1
    <3> QED BY <1>1, <2>3, <3>2
  <2> QED BY <2>2, <2>3
<1>19. Walk(f, N, open, t, j)
  BY <1>15, <1>16, <1>17, <1>18 DEF Walk
<1> QED BY <1>19

\* A walk is a match.
LEMMA WalkIsMatch ==
    ASSUME NEW f, NEW N \in Nat, NEW open \in BOOLEAN,
           NEW A, NEW r \in Seq(A), Shape(f, N, open, r),
           \A k \in 1..N : f[k] \notin Groups \cup {"."},
           NEW R, NEW t \in Seq(R), NEW j, Walk(f, N, open, t, j)
    PROVE  Match(r, t)
<1> DEFINE w == add_prefix(t)
           n == Len(r)
           J == [i \in 0..n |-> IF i = 0 THEN 0
                                ELSE IF i = 1 THEN 1
                                ELSE IF i = N + 3 THEN Len(t) + 2
                                ELSE j[i - 2] + 2]
<1>1. /\ Len(t) \in Nat /\ Len(w) = Len(t) + 2
      /\ w[1] = prefix[1] /\ w[2] = prefix[2]
  BY PrefixedLemma
<1>2. /\ n = (IF open THEN N + 3 ELSE N + 2)
      /\ r[1] = prefix[1] /\ r[2] = prefix[2]
      /\ \A k \in 1..N : r[k + 2] = Item(f[k])
      /\ open => r[N + 3] = hash_regex
  BY DEF Shape
<1>3. /\ j \in [0..N -> 0..Len(t)] /\ j[0] = 0
      /\ \A k \in 1..N :
            j[k - 1] <= j[k] /\ Spans(Item(f[k]), t, j[k - 1], j[k])
      /\ IF open THEN j[N] <= Len(t) /\ Spans(hash_regex, t, j[N], Len(t))
         ELSE j[N] = Len(t)
  BY DEF Walk
<1> HIDE DEF w, n
<1>4. /\ n \in Nat /\ 0 \in 0..n /\ 1 \in 0..n
      /\ \A k \in 0..N : /\ k + 2 \in 0..n /\ k + 2 # 0 /\ k + 2 # 1
                         /\ k + 2 # N + 3 /\ (k + 2) - 2 = k
      /\ open => N + 3 \in 0..n
      /\ N + 3 # 0 /\ N + 3 # 1
  BY <1>2
<1>5. /\ J[0] = 0 /\ J[1] = 1 /\ \A k \in 0..N : J[k + 2] = j[k] + 2
      /\ open => J[N + 3] = Len(t) + 2
  BY <1>4
<1>6. \A k \in 0..N : j[k] \in 0..Len(t)
  BY <1>3
<1>7. ASSUME NEW i \in 1..n
      PROVE  \/ i = 1
             \/ i = 2
             \/ i = N + 3 /\ open /\ i - 1 = N + 2 /\ N \in 0..N
             \/ /\ i - 2 \in 1..N /\ i - 2 \in 0..N /\ i - 3 \in 0..N
                /\ i = (i - 2) + 2 /\ i - 1 = (i - 3) + 2
                /\ (i - 2) - 1 = i - 3
  BY <1>2
<1> HIDE DEF J
<1>8. ASSUME NEW i \in 1..n
      PROVE  J[i] \in 0..Len(w)
  <2>1. CASE i = 1
    BY <1>1, <1>5, <2>1
  <2>2. CASE i = 2
    <3>1. 0 \in 0..N /\ 0 + 2 = 2
      OBVIOUS
    <3>2. J[2] = 0 + 2
      BY <1>3, <1>5, <3>1
    <3> QED BY <1>1, <2>2, <3>2
  <2>3. CASE i = N + 3 /\ open
    BY <1>1, <1>5, <2>3
  <2>4. CASE i - 2 \in 0..N /\ i = (i - 2) + 2
    <3>1. J[i] = j[i - 2] + 2 /\ j[i - 2] \in 0..Len(t)
      BY <1>5, <1>6, <2>4
    <3> QED BY <1>1, <3>1
  <2> QED BY <1>7, <2>1, <2>2, <2>3, <2>4
<1>9. J \in [0..n -> 0..Len(w)]
  <2>1. \A i \in 0..n : i = 0 \/ i \in 1..n
    BY <1>4
  <2>2. J[0] \in 0..Len(w)
    BY <1>1, <1>5
  <2>3. \A i \in 0..n : J[i] \in 0..Len(w)
    BY <1>8, <2>1, <2>2
  <2> QED BY <2>3 DEF J
<1>10. ASSUME NEW i \in 1..n
       PROVE  J[i - 1] <= J[i] /\ Spans(r[i], w, J[i - 1], J[i])
  <2>1. CASE i = 1
    <3>1. J[i - 1] = 0 /\ J[i] = 1 /\ w[1] = r[i] /\ 1 = 0 + 1
      BY <1>1, <1>2, <1>5, <2>1
    <3>2. r[i] \notin Groups \cup {"."}
      BY <1>2, <2>1, PrefixItems
    <3>3. Spans(r[i], w, 0, 1)
      BY <3>1, <3>2, SpansCharacter
    <3> QED BY <3>1, <3>3
  <2>2. CASE i = 2
    <3>1. 0 \in 0..N /\ 0 + 2 = 2 /\ 2 - 1 = 1
      OBVIOUS
    <3>2. J[2] = 0 + 2
      BY <1>3, <1>5, <3>1
    <3>3. J[i - 1] = 1 /\ J[i] = 2 /\ w[2] = r[i] /\ 2 = 1 + 1
      BY <1>1, <1>2, <1>5, <2>2, <3>1, <3>2
    <3>4. r[i] \notin Groups \cup {"."}
      BY <1>2, <2>2, PrefixItems
    <3>5. Spans(r[i], w, 1, 2)
      BY <3>3, <3>4, SpansCharacter
    <3> QED BY <3>3, <3>5
  <2>3. CASE i = N + 3 /\ open /\ i - 1 = N + 2 /\ N \in 0..N
    <3>1. J[i - 1] = j[N] + 2 /\ J[i] = Len(t) + 2 /\ r[i] = hash_regex
      BY <1>2, <1>5, <2>3
    <3>2. /\ j[N] \in 0..Len(t) /\ Len(t) \in 0..Len(t)
          /\ j[N] <= Len(t) /\ Spans(hash_regex, t, j[N], Len(t))
      BY <1>1, <1>3, <1>6, <2>3
    <3>3. /\ Spans(hash_regex, w, j[N] + 2, Len(t) + 2)
          /\ j[N] + 2 <= Len(t) + 2
      BY <3>2, SpansTopic DEF w
    <3> QED BY <3>1, <3>3
  <2>4. CASE /\ i - 2 \in 1..N /\ i - 2 \in 0..N /\ i - 3 \in 0..N
             /\ i = (i - 2) + 2 /\ i - 1 = (i - 3) + 2
             /\ (i - 2) - 1 = i - 3
    <3> DEFINE k == i - 2
               l == i - 3
    <3>1. /\ k \in 1..N /\ k \in 0..N /\ l \in 0..N /\ k - 1 = l
          /\ i = k + 2 /\ i - 1 = l + 2
      BY <2>4
    <3> HIDE DEF k, l
    <3>2. J[i] = j[k] + 2 /\ J[i - 1] = j[l] + 2 /\ r[i] = Item(f[k])
      BY <1>2, <1>5, <3>1
    <3>3. /\ j[l] \in 0..Len(t) /\ j[k] \in 0..Len(t)
          /\ j[l] <= j[k] /\ Spans(Item(f[k]), t, j[l], j[k])
      BY <1>3, <1>6, <3>1
    <3>4. \/ Item(f[k]) \in {plus_regex, hash_regex}
          \/ Item(f[k]) \notin Groups \cup {"."}
      BY <3>1 DEF Item
    <3>5. Spans(Item(f[k]), w, j[l] + 2, j[k] + 2) /\ j[l] + 2 <= j[k] + 2
      BY <3>3, <3>4, SpansTopic DEF w
    <3> QED BY <3>2, <3>5
  <2> QED BY <1>7, <2>1, <2>2, <2>3, <2>4
<1>11. J[n] = Len(w)
  <2>1. CASE open
    BY <1>1, <1>2, <1>5, <2>1
  <2>2. CASE ~open
    <3>1. N \in 0..N /\ n = N + 2
      BY <1>2, <2>2
    <3> QED BY <1>1, <1>3, <1>5, <2>2, <3>1
  <2> QED BY <2>1, <2>2
<1>12. Chain(r, w, 0, Len(w), n, J)
  BY <1>5, <1>9, <1>10, <1>11 DEF Chain
<1>13. Len(w) \in Nat /\ 0 \in 0..Len(w) /\ \A i \in 0..(0 - 1) : FALSE
  BY <1>1
<1>14. Len(w) \in Ends(r, w, 0)
  BY <1>12, <1>13, EndsChain DEF n
<1> QED BY <1>13, <1>14 DEF Match, match_subcriber_regex, w

-----------------------------------------------------------------------------
(* What is matched is covered *)

\* From the cut before it, level i of the filter walks through level i of the
\* topic, to the next cut or the end.
LEMMA LevelWalk ==
    ASSUME NEW S, NEW f \in Seq(S), S \cap Groups = {},
           NEW m, NEW c, Cuts(f, m, c), WellFormed(f), Asked(f, m, c) # 0,
           NEW R, NEW t \in Seq(R), NEW n, NEW d, Cuts(t, n, d),
           NEW j, Walk(f, Asking(f, m, c), Open(f, m, c), t, j),
           NEW i \in 1..Asked(f, m, c), i \in 1..n, j[c[i]] = d[i]
    PROVE  /\ IsAny(f, c, i) \/ IsSame(f, c, t, d, i)
           /\ i < Asked(f, m, c) => i < n /\ j[c[i + 1]] = d[i + 1]
           /\ i = Asked(f, m, c) /\ ~Open(f, m, c) => i = n
<1> DEFINE M == Asked(f, m, c)
           N == Asking(f, m, c)
           open == Open(f, m, c)
           a == c[i]
           b == c[i + 1] - 1
           x == j[b] + 1
<1>1. /\ M \in Nat /\ M <= m /\ m \in Nat /\ N \in Nat /\ N <= Len(f)
      /\ Len(f) \in Nat /\ \A k \in 1..N : f[k] \notin {"#", "."}
  BY AskingLemma
<1>2. i \in 1..m /\ i \in Nat /\ (IsAny(f, c, i) \/ IsName(f, c, i))
  BY <1>1, WellFormedLevels
<1>3. c[i] \in Nat /\ c[i + 1] \in Nat /\ c[i] < c[i + 1]
        /\ \A k \in (c[i] + 1)..(c[i + 1] - 1) :
              f[k] # "/" /\ k \in 1..Len(f) /\ f[k] \in S
  BY <1>2, LevelItems
<1>4. /\ c[M + 1] \in Nat /\ N = c[M + 1] - 1
      /\ i < M => c[i + 1] < c[M + 1] /\ i + 1 \in 2..m
  <2>1. /\ M + 1 \in 1..(m + 1) /\ i + 1 \in 1..(m + 1) /\ i <= M
        /\ i < M => i + 1 < M + 1 /\ i + 1 \in 2..m
    BY <1>1, <1>2
  <2>2. /\ \A k \in 1..(m + 1) : c[k] \in Nat
        /\ \A k, l \in 1..(m + 1) : k < l => c[k] < c[l]
    BY CutsFacts
  <2> HIDE DEF M
  <2>3. c[M + 1] \in Nat
    BY <2>1, <2>2
  <2>4. i < M => c[i + 1] < c[M + 1]
    BY <2>1, <2>2
  <2> QED BY <1>1, <2>1, <2>3, <2>4 DEF Asking, M
<1>5. Len(t) \in Nat /\ d[i] \in Nat
  BY LenProperties, LevelItems
<1>6. /\ j \in [0..N -> 0..Len(t)] /\ j[0] = 0
      /\ \A k \in 1..N :
            j[k - 1] <= j[k] /\ Spans(Item(f[k]), t, j[k - 1], j[k])
      /\ IF open THEN j[N] <= Len(t) /\ Spans(hash_regex, t, j[N], Len(t))
         ELSE j[N] = Len(t)
  BY DEF Walk
<1> HIDE DEF M, N, open
<1>7. a \in Nat /\ b \in Nat /\ a <= b /\ b <= N /\ (i < M => b < N)
        /\ (i = M => b = N)
  <2>1. i <= M
    BY <1>1, <1>2 DEF M
  <2>2. i = M => b = N
    BY <1>4
  <2>3. i < M => b < N
    BY <1>3, <1>4
  <2>4. b <= N
    BY <1>1, <1>2, <1>3, <2>1, <2>2, <2>3
  <2> QED BY <1>3, <2>2, <2>3, <2>4
<1>8. j[a] = d[i] /\ j[b] \in 0..Len(t) /\ x \in Nat /\ x <= Len(t) + 1
  <2>1. b \in 0..N
    BY <1>1, <1>7
  <2>2. j[b] \in 0..Len(t)
    BY <1>6, <2>1
  <2> QED BY <1>5, <2>2
<1>9. ASSUME i < M
      PROVE  j[c[i + 1]] = x /\ t[x] = "/" /\ x # Len(t) + 1
  <2>1. c[i + 1] \in 1..N /\ c[i + 1] - 1 = b /\ c[i + 1] \in 0..N
    BY <1>1, <1>3, <1>7, <1>9
  <2>2. f[c[i + 1]] = "/"
    BY <1>4, <1>9 DEF Cuts
  <2>3. Item(f[c[i + 1]]) = "/" /\ "/" \notin Groups \cup {"."}
    BY <2>2 DEF Item, Groups, plus_regex, one_regex, hash_regex, once_regex
  <2>4. Spans("/", t, j[b], j[c[i + 1]])
    BY <1>6, <2>1, <2>3
  <2>5. j[c[i + 1]] = x /\ t[x] = "/"
    BY <2>3, <2>4, SpansCharacter
  <2>6. j[c[i + 1]] \in 0..Len(t)
    BY <1>6, <2>1
  <2> QED BY <1>5, <2>5, <2>6
<1>10. x = Len(t) + 1 \/ t[x] = "/"
  <2>1. CASE i = M
    <3>1. b = N
      BY <1>7, <2>1
    <3>2. CASE open
      BY <1>6, <3>1, <3>2, SpansHash
    <3>3. CASE ~open
      BY <1>6, <3>1, <3>3
    <3> QED BY <3>2, <3>3
  <2>2. i < M \/ i = M
    BY <1>1, <1>2 DEF M
  <2> QED BY <1>9, <2>1, <2>2
<1>11. ASSUME d[i] < x, \A y \in (d[i] + 1)..(x - 1) : t[y] # "/"
       PROVE  /\ d[i + 1] = x
              /\ i < M => i < n /\ j[c[i + 1]] = d[i + 1]
              /\ i = M /\ ~open => i = n
  <2> HIDE DEF x
  <2>1. d[i + 1] = x /\ (i < n <=> x # Len(t) + 1)
    BY <1>8, <1>10, <1>11, NextCut
  <2>2. i = M /\ ~open => x = Len(t) + 1
    BY <1>6, <1>7 DEF x
  <2>3. n \in Nat /\ i <= n
    BY <1>2 DEF Cuts
  <2>4. ~(i < n) => i = n
    BY <1>2, <2>3
  <2> QED BY <1>9, <2>1, <2>2, <2>4
<1>12. CASE IsAny(f, c, i)
  <2>1. b = a + 1 /\ f[b] = "+"
    BY <1>3, <1>12 DEF IsAny
  <2>2. b \in 1..N /\ b - 1 = a
    BY <1>1, <1>7, <2>1
  <2>3. Spans(plus_regex, t, j[a], j[b])
    BY <1>6, <2>1, <2>2 DEF Item
  <2>4. j[a] < j[b] /\ \A y \in (j[a] + 1)..j[b] : t[y] \in Alphanumeric
    BY <2>3, SpansPlus
  <2>5. d[i] < x
    BY <1>5, <1>8, <2>4
  <2>6. \A y \in (d[i] + 1)..(x - 1) : t[y] # "/"
    <3>1. x - 1 = j[b]
      BY <1>8
    <3> QED BY <1>8, <2>4, <3>1, AlphanumericAssumption
  <2>7. /\ i < M => i < n /\ j[c[i + 1]] = d[i + 1]
        /\ i = M /\ ~open => i = n
    BY <1>11, <2>5, <2>6
  <2> QED BY <1>12, <2>7 DEF M, open
<1>13. CASE IsName(f, c, i)
  <2> DEFINE l == b - a
  <2>1. l \in Nat /\ \A e \in 1..l : /\ a + e \in (c[i] + 1)..(c[i + 1] - 1)
                                     /\ a + e \in 1..N
                                     /\ (a + e) - 1 = a + (e - 1)
    <3>1. l \in Nat /\ a + l = b
      BY <1>7
    <3> HIDE DEF l
    <3>2. \A e \in 1..l : /\ a + e \in (a + 1)..(a + l) /\ e \in Nat /\ e \in 0..l
                          /\ (a + e) - 1 = a + (e - 1) /\ e - 1 \in 0..l
      BY <1>7, <3>1, OffsetLemma, SMTT(30)
    <3>3. \A k \in (a + 1)..b : k \in (c[i] + 1)..(c[i + 1] - 1) /\ k \in 1..N
      BY <1>1, <1>3, <1>7
    <3> QED BY <3>1, <3>2, <3>3
  <2>2. a + l = b /\ a + 0 = a
    BY <1>7
  <2> HIDE DEF l
  <2>3. ASSUME NEW e \in 1..l
        PROVE  /\ j[a + e] = j[a + (e - 1)] + 1
               /\ t[j[a + e]] = f[a + e] /\ f[a + e] # "/"
    <3>1. /\ a + e \in (c[i] + 1)..(c[i + 1] - 1) /\ a + e \in 1..N
          /\ (a + e) - 1 = a + (e - 1)
      BY <2>1
    <3> DEFINE k == a + e
    <3> HIDE DEF k
    <3>2. f[k] # "/" /\ f[k] \in S /\ f[k] \notin {"+", "#", "."}
      BY <1>3, <1>13, <3>1 DEF IsName, k
    <3>3. f[k] \notin Groups \cup {"."} /\ Item(f[k]) = f[k]
      BY <3>2 DEF Item
    <3>4. Spans(f[k], t, j[k - 1], j[k])
      BY <1>6, <3>1, <3>3 DEF k
    <3>5. j[k] = j[k - 1] + 1 /\ t[j[k]] = f[k]
      BY <3>3, <3>4, SpansCharacter
    <3> QED BY <3>1, <3>2, <3>5 DEF k
  <2>4. \A e \in 0..l : j[a + e] = d[i] + e
    <3> DEFINE T == {e \in 0..l : j[a + e] = d[i] + e}
    <3>1. 0 \in T
      BY <1>5, <1>8, <2>1, <2>2, SMTT(30)
    <3>2. ASSUME NEW e \in 1..l, e - 1 \in T
          PROVE  e \in T
      <4>1. e \in Nat /\ e \in 0..l
        BY <2>1
      <4>2. j[a + (e - 1)] = d[i] + (e - 1)
        BY <3>2
      <4>3. j[a + e] = (d[i] + (e - 1)) + 1
        BY <2>3, <4>2
      <4> QED BY <1>5, <4>1, <4>3
    <3> HIDE DEF T
    <3>3. \A e \in 0..l : e \in T
      BY <2>1, <3>1, <3>2, UpToInduction
    <3> QED BY <3>3 DEF T
  <2>5. j[b] = d[i] + l
    <3>1. l \in 0..l
      BY <2>1
    <3> QED BY <2>2, <2>4, <3>1
  <2>6. d[i] < x /\ x = d[i] + l + 1
    BY <1>5, <2>1, <2>5
  <2>7. \A e \in 1..l : t[d[i] + e] = f[a + e] /\ f[a + e] # "/"
    <3>1. \A e \in 1..l : e \in 0..l
      BY <2>1
    <3> QED BY <2>3, <2>4, <3>1
  <2>8. \A y \in (d[i] + 1)..(x - 1) : t[y] # "/"
    <3> SUFFICES ASSUME NEW y \in (d[i] + 1)..(x - 1)
                 PROVE  t[y] # "/"
      OBVIOUS
    <3> HIDE DEF x
    <3>1. x - 1 = d[i] + l
      BY <1>5, <2>1, <2>6
    <3>2. \A z \in (d[i] + 1)..(d[i] + l) : z - d[i] \in 1..l /\ d[i] + (z - d[i]) = z
      BY <1>5, <2>1, OffsetLemma
    <3>3. y - d[i] \in 1..l /\ d[i] + (y - d[i]) = y
      BY <3>1, <3>2
    <3> QED BY <2>7, <3>3
  <2>9. /\ d[i + 1] = x
        /\ i < M => i < n /\ j[c[i + 1]] = d[i + 1]
        /\ i = M /\ ~open => i = n
    BY <1>11, <2>6, <2>8
  <2>10. c[i + 1] - c[i] = l + 1 /\ d[i + 1] - d[i] = l + 1
    <3>1. c[i + 1] - c[i] = l + 1
      BY <1>3 DEF l
    <3>2. d[i + 1] - d[i] = l + 1
      BY <1>5, <2>1, <2>6, <2>9
    <3> QED BY <3>1, <3>2
  <2>11. c[i + 1] - c[i] - 1 = l
    BY <2>1, <2>10
  <2>12. IsSame(f, c, t, d, i)
    <3>1. \A e \in 1..l : f[c[i] + e] = t[d[i] + e]
      BY <2>7
    <3> QED BY <2>10, <2>11, <3>1 DEF IsSame
  <2> QED BY <2>9, <2>12 DEF M, open
<1> QED BY <1>2, <1>12, <1>13

\* A filter covers the topic it can walk through.
LEMMA WalkIsCovered ==
    ASSUME NEW S, NEW f \in Seq(S), S \cap Groups = {},
           NEW m, NEW c, Cuts(f, m, c), WellFormed(f), Asked(f, m, c) # 0,
           NEW R, NEW t \in Seq(R), NEW n, NEW d, Cuts(t, n, d),
           NEW j, Walk(f, Asking(f, m, c), Open(f, m, c), t, j)
    PROVE  Covers(f, t)
<1> DEFINE M == Asked(f, m, c)
           T == {i \in 0..(M - 1) : i + 1 \in 1..n /\ j[c[i + 1]] = d[i + 1]}
<1>1. M \in Nat /\ M # 0 /\ M - 1 \in Nat
  <2>1. M \in Nat
    BY AskingLemma
  <2> QED BY <2>1
<1>2. n \in Nat /\ n # 0
  BY DEF Cuts
<1>3. 0 \in T
  <2>1. c[1] = 0 /\ d[1] = 0 /\ j[0] = 0
    BY DEF Cuts, Walk
  <2> HIDE DEF M
  <2> QED BY <1>1, <1>2, <2>1
<1>4. ASSUME NEW i \in 1..(M - 1), i - 1 \in T
      PROVE  i \in T
  <2>1. i \in 1..n /\ j[c[i]] = d[i]
    <3>1. i \in Nat /\ (i - 1) + 1 = i
      BY <1>1
    <3> HIDE DEF M
    <3> QED BY <1>4, <3>1
  <2>2. i \in 1..M /\ i < M
    BY <1>1
  <2>3. i < n /\ j[c[i + 1]] = d[i + 1]
    BY <2>1, <2>2, LevelWalk
  <2>4. i + 1 \in 1..n /\ i \in 0..(M - 1)
    BY <1>1, <1>2, <2>2, <2>3
  <2> HIDE DEF M
  <2> QED BY <2>3, <2>4
<1>5. ASSUME NEW i \in 1..M
      PROVE  /\ i \in 1..n /\ (IsAny(f, c, i) \/ IsSame(f, c, t, d, i))
             /\ i = M /\ ~Open(f, m, c) => i = n
  <2>1. i - 1 \in T
    <3> HIDE DEF T
    <3>1. \A k \in 0..(M - 1) : k \in T
      BY <1>1, <1>3, <1>4, UpToInduction
    <3>2. i - 1 \in 0..(M - 1)
      BY <1>1
    <3> QED BY <3>1, <3>2
  <2>2. i \in 1..n /\ j[c[i]] = d[i]
    <3>1. (i - 1) + 1 = i
      BY <1>1
    <3> HIDE DEF M
    <3> QED BY <2>1, <3>1
  <2> QED BY <2>2, LevelWalk
<1>6. M \in 1..M
  BY <1>1
<1>7. M \in 1..n /\ (~Open(f, m, c) => n = M)
  BY <1>5, <1>6
<1>8. IF Open(f, m, c) THEN n >= M ELSE n = M
  BY <1>2, <1>7
<1> QED BY <1>5, <1>8, CoversLevels

-----------------------------------------------------------------------------
(* What is covered is matched *)

\* Each level of a plain topic has a character, and none but letters and digits.
LEMMA PlainLevels ==
    ASSUME NEW R, NEW t \in Seq(R), NEW n, NEW d, Cuts(t, n, d), Plain(t),
           NEW i \in 1..n
    PROVE  /\ d[i] \in Nat /\ d[i + 1] \in Nat
           /\ d[i] + 2 <= d[i + 1] /\ d[i + 1] <= Len(t) + 1
           /\ \A x \in (d[i] + 1)..(d[i + 1] - 1) : t[x] \in Alphanumeric
<1> DEFINE l == Levels(t)[i]
<1>1. /\ d[i] \in Nat /\ d[i + 1] \in Nat
      /\ d[i] < d[i + 1] /\ d[i + 1] <= Len(t) + 1
      /\ l \in Seq(R) /\ Len(l) = d[i + 1] - d[i] - 1
  BY LevelItems
<1>2. \A x \in (d[i] + 1)..(d[i + 1] - 1) : t[x] \in ToSet(l)
  BY LevelSet
<1>3. l \in ToSet(Levels(t))
  <2>1. DOMAIN Levels(t) = 1..n
    BY DEF Cuts
  <2> QED BY <2>1 DEF ToSet
<1> HIDE DEF l
<1>4. l # <<>> /\ ToSet(l) \subseteq Alphanumeric
  BY <1>3 DEF Plain
<1>5. Len(l) # 0
  BY <1>1, <1>4, EmptySeq
<1>6. d[i] + 2 <= d[i + 1]
  <2>1. d[i + 1] - d[i] - 1 # 0
    BY <1>1, <1>5
  <2> QED BY <1>1, <2>1
<1>7. \A x \in (d[i] + 1)..(d[i + 1] - 1) : t[x] \in Alphanumeric
  BY <1>2, <1>4
<1> QED BY <1>1, <1>6, <1>7

\* Levels from the cut after level i on are matched by a #.
LEMMA HashSpansLevels ==
    ASSUME NEW R, NEW t \in Seq(R), NEW n, NEW d, Cuts(t, n, d), Plain(t),
           NEW i \in 1..n
    PROVE  /\ d[i + 1] - 1 <= Len(t)
           /\ Spans(hash_regex, t, d[i + 1] - 1, Len(t))
<1>1. /\ n \in Nat /\ Len(t) \in Nat /\ d[1] = 0 /\ d[n + 1] = Len(t) + 1
      /\ \A k \in 2..n : t[d[k]] = "/"
  BY CutsFacts
<1>2. \A k \in 1..n :
         /\ d[k] \in Nat /\ d[k + 1] \in Nat
         /\ d[k] + 2 <= d[k + 1] /\ d[k + 1] <= Len(t) + 1
         /\ \A x \in (d[k] + 1)..(d[k + 1] - 1) : t[x] \in Alphanumeric
  BY PlainLevels
<1>3. \A k \in 1..n : \A x \in (d[k] + 1)..(d[k + 1] - 1) : t[x] # "/"
  BY LevelItems
<1>4. ASSUME NEW x \in 1..Len(t)
      PROVE  /\ t[x] \in Alphanumeric \cup {"/"}
             /\ t[x] = "/" => x + 1 \in 1..Len(t) /\ t[x + 1] # "/"
  <2>1. PICK k \in 1..n : d[k] <= x /\ x < d[k + 1]
    BY LocateLevel
  <2>2. CASE x = d[k]
    <3>1. k # 1
      BY <1>1, <2>2
    <3>2. k \in 2..n
      BY <1>1, <3>1
    <3>3. t[x] = "/"
      BY <1>1, <2>2, <3>2
    <3>4. /\ d[k] + 2 <= d[k + 1] /\ d[k + 1] <= Len(t) + 1
          /\ d[k] \in Nat /\ d[k + 1] \in Nat
      BY <1>2
    <3>5. x + 1 \in (d[k] + 1)..(d[k + 1] - 1) /\ x + 1 \in 1..Len(t)
      BY <1>1, <2>2, <3>4, SMTT(30)
    <3>6. t[x + 1] # "/"
      BY <1>3, <3>5
    <3> QED BY <3>3, <3>5, <3>6
  <2>3. CASE x # d[k]
    <3>1. d[k] \in Nat /\ d[k + 1] \in Nat
      BY <1>2
    <3>2. x \in (d[k] + 1)..(d[k + 1] - 1)
      BY <1>1, <2>1, <2>3, <3>1
    <3> QED BY <1>2, <1>3, <3>2
  <2> QED BY <2>2, <2>3
<1> DEFINE p == d[i + 1] - 1
<1>5. d[i + 1] \in Nat /\ p \in Nat /\ p <= Len(t) /\ p + 1 = d[i + 1]
  <2>1. /\ d[i] \in Nat /\ d[i + 1] \in Nat
        /\ d[i] + 2 <= d[i + 1] /\ d[i + 1] <= Len(t) + 1
    BY <1>2
  <2> QED BY <1>1, <2>1, SMTT(30)
<1>6. CASE i = n
  <2>1. Len(t) = p
    BY <1>1, <1>6
  <2> QED BY <1>5, <2>1, SpansHash
<1>7. CASE i # n
  <2>1. i + 1 \in 1..n /\ i + 1 \in 2..n
    BY <1>1, <1>7
  <2>2. t[p + 1] = "/"
    BY <1>1, <1>5, <2>1
  <2>3. p < Len(t)
    <3>1. /\ d[i + 1] + 2 <= d[(i + 1) + 1] /\ d[(i + 1) + 1] <= Len(t) + 1
          /\ d[(i + 1) + 1] \in Nat
      BY <1>2, <2>1
    <3> QED BY <1>1, <1>5, <3>1, SMTT(30)
  <2> HIDE DEF p
  <2>4. /\ Len(t) \in 1..Len(t) /\ ~(Len(t) + 1 \in 1..Len(t))
        /\ \A x \in (p + 1)..Len(t) : x \in 1..Len(t)
        /\ \A x \in (p + 1)..(Len(t) - 1) : x \in 1..Len(t)
    BY <1>1, <1>5, <2>3
  <2>5. t[Len(t)] # "/"
    BY <1>4, <2>4
  <2>6. /\ \A x \in (p + 1)..Len(t) : t[x] \in Alphanumeric \cup {"/"}
        /\ \A x \in (p + 1)..(Len(t) - 1) : t[x] # "/" \/ t[x + 1] # "/"
    BY <1>4, <2>4
  <2>7. Spans(hash_regex, t, p, Len(t))
    BY <2>2, <2>3, <2>5, <2>6, SpansHash
  <2> QED BY <1>5, <2>7 DEF p
<1> QED BY <1>6, <1>7

\* Where k characters of level i of f lead in level i of t
LevelPos(f, c, d, i, k) ==
    IF IsAny(f, c, i) /\ k = c[i] + 1 THEN d[i + 1] - 1 ELSE d[i] + (k - c[i])

\* As far from one number as from another
LEMMA ShiftLemma ==
    ASSUME NEW a \in Nat, NEW b \in Nat, NEW x \in Nat, NEW y \in Nat,
           a < b, b - a = y - x
    PROVE  /\ x + ((b - 1) - a) = y - 1
           /\ \A k \in a..(b - 1) : k - a \in Nat /\ x + (k - a) <= y - 1
           /\ \A k \in (a + 1)..(b - 1) :
                 /\ k - a \in 1..(b - a - 1) /\ k - a \in Nat
                 /\ a + (k - a) = k /\ (k - 1) - a = (k - a) - 1
OBVIOUS

\* Within a level, these positions are a walk.
LEMMA LevelPositions ==
    ASSUME NEW S, NEW f \in Seq(S), S \cap Groups = {},
           NEW m, NEW c, Cuts(f, m, c), WellFormed(f), Asked(f, m, c) # 0,
           NEW R, NEW t \in Seq(R), NEW n, NEW d, Cuts(t, n, d), Plain(t),
           NEW i \in 1..Asked(f, m, c), i \in 1..n,
           IsAny(f, c, i) \/ IsSame(f, c, t, d, i)
    PROVE  /\ c[i] \in Nat /\ c[i + 1] \in Nat /\ c[i] < c[i + 1]
           /\ LevelPos(f, c, d, i, c[i]) = d[i]
           /\ LevelPos(f, c, d, i, c[i + 1] - 1) = d[i + 1] - 1
           /\ d[i] \in Nat /\ d[i + 1] \in Nat
           /\ \A k \in c[i]..(c[i + 1] - 1) :
                 LevelPos(f, c, d, i, k) \in 0..Len(t)
           /\ \A k \in (c[i] + 1)..(c[i + 1] - 1) :
                 /\ LevelPos(f, c, d, i, k - 1) <= LevelPos(f, c, d, i, k)
                 /\ Spans(Item(f[k]), t, LevelPos(f, c, d, i, k - 1),
                                         LevelPos(f, c, d, i, k))
<1> DEFINE P(k) == LevelPos(f, c, d, i, k)
<1>1. i \in 1..m /\ (IsAny(f, c, i) \/ IsName(f, c, i))
  BY WellFormedLevels
<1>2. /\ c[i] \in Nat /\ c[i + 1] \in Nat /\ c[i] < c[i + 1]
      /\ \A k \in (c[i] + 1)..(c[i + 1] - 1) : f[k] \in S
  BY <1>1, LevelItems, SMTT(30)
<1>3. /\ d[i] \in Nat /\ d[i + 1] \in Nat /\ Len(t) \in Nat
      /\ d[i] + 2 <= d[i + 1] /\ d[i + 1] <= Len(t) + 1
      /\ \A x \in (d[i] + 1)..(d[i + 1] - 1) : t[x] \in Alphanumeric
  BY PlainLevels, LenProperties
<1>4. P(c[i]) = d[i]
  <2>1. c[i] # c[i] + 1 /\ d[i] + (c[i] - c[i]) = d[i]
    BY <1>2, <1>3
  <2> QED BY <2>1 DEF LevelPos
<1>5. CASE IsAny(f, c, i)
  <2>1. c[i + 1] = c[i] + 2 /\ f[c[i] + 1] = "+"
    BY <1>5 DEF IsAny
  <2>2. c[i + 1] - 1 = c[i] + 1
    BY <1>2, <2>1
  <2>3. P(c[i] + 1) = d[i + 1] - 1
    BY <1>5 DEF LevelPos
  <2>4. \A k \in c[i]..(c[i + 1] - 1) : k = c[i] \/ k = c[i] + 1
    BY <1>2, <2>2
  <2>5. \A k \in (c[i] + 1)..(c[i + 1] - 1) : k = c[i] + 1 /\ k - 1 = c[i]
    BY <1>2, <2>2
  <2> HIDE DEF P
  <2>6. P(c[i]) \in 0..Len(t) /\ P(c[i] + 1) \in 0..Len(t)
    BY <1>3, <1>4, <2>3
  <2>7. \A k \in c[i]..(c[i + 1] - 1) : P(k) \in 0..Len(t)
    BY <2>4, <2>6
  <2>8. P(c[i]) <= P(c[i] + 1)
    BY <1>3, <1>4, <2>3
  <2>9. Spans(plus_regex, t, P(c[i]), P(c[i] + 1))
    <3>1. d[i] < d[i + 1] - 1
      BY <1>3
    <3> QED BY <1>3, <1>4, <2>3, <3>1, SpansPlus
  <2>10. \A k \in (c[i] + 1)..(c[i + 1] - 1) :
            P(k - 1) <= P(k) /\ Spans(Item(f[k]), t, P(k - 1), P(k))
    <3>1. Item(f[c[i] + 1]) = plus_regex
      BY <2>1 DEF Item
    <3> QED BY <2>5, <2>8, <2>9, <3>1
  <2>11. P(c[i + 1] - 1) = d[i + 1] - 1
    BY <2>2, <2>3
  <2> QED BY <1>2, <1>3, <1>4, <2>7, <2>10, <2>11 DEF P
<1>6. CASE ~IsAny(f, c, i)
  <2>1. /\ c[i + 1] - c[i] = d[i + 1] - d[i]
        /\ \A e \in 1..(c[i + 1] - c[i] - 1) : f[c[i] + e] = t[d[i] + e]
    BY <1>6 DEF IsSame
  <2>2. /\ d[i] + ((c[i + 1] - 1) - c[i]) = d[i + 1] - 1
        /\ \A k \in c[i]..(c[i + 1] - 1) :
              k - c[i] \in Nat /\ d[i] + (k - c[i]) <= d[i + 1] - 1
        /\ \A k \in (c[i] + 1)..(c[i + 1] - 1) :
              /\ k - c[i] \in 1..(c[i + 1] - c[i] - 1) /\ k - c[i] \in Nat
              /\ c[i] + (k - c[i]) = k /\ (k - 1) - c[i] = (k - c[i]) - 1
    BY <1>2, <1>3, <2>1, ShiftLemma
  <2>3. \A k \in (c[i] + 1)..(c[i + 1] - 1) : f[k] \notin {"+", "#", "."}
    BY <1>1, <1>6 DEF IsName
  <2>4. \A k : P(k) = d[i] + (k - c[i])
    BY <1>6 DEF LevelPos
  <2> HIDE DEF P
  <2>5. ASSUME NEW k \in c[i]..(c[i + 1] - 1)
        PROVE  P(k) \in 0..Len(t)
    <3> DEFINE e == k - c[i]
    <3>1. e \in Nat /\ d[i] + e <= d[i + 1] - 1
      BY <2>2
    <3>2. P(k) = d[i] + e
      BY <2>4
    <3> HIDE DEF e
    <3>3. d[i] + e \in 0..Len(t)
      BY <1>3, <3>1, SMTT(30)
    <3> QED BY <3>2, <3>3
  <2>6. ASSUME NEW k \in (c[i] + 1)..(c[i + 1] - 1)
        PROVE  P(k - 1) <= P(k) /\ Spans(Item(f[k]), t, P(k - 1), P(k))
    <3> DEFINE e == k - c[i]
    <3>1. /\ e \in 1..(c[i + 1] - c[i] - 1) /\ e \in Nat
          /\ c[i] + e = k /\ (k - 1) - c[i] = e - 1
      BY <2>2
    <3>2. P(k) = d[i] + e
      BY <2>4
    <3> HIDE DEF e
    <3>3. P(k - 1) = d[i] + (e - 1)
      BY <2>4, <3>1
    <3>4. P(k) = P(k - 1) + 1 /\ P(k - 1) <= P(k)
      BY <1>3, <3>1, <3>2, <3>3, SMTT(30)
    <3>5. t[P(k)] = f[k]
      BY <2>1, <3>1, <3>2
    <3>6. f[k] \notin Groups \cup {"."} /\ Item(f[k]) = f[k]
      BY <1>2, <2>3 DEF Item
    <3>7. Spans(f[k], t, P(k - 1), P(k))
      BY <3>4, <3>5, <3>6, SpansCharacter
    <3> QED BY <3>4, <3>6, <3>7
  <2>7. P(c[i + 1] - 1) = d[i + 1] - 1
    BY <2>2, <2>4
  <2> QED BY <1>2, <1>3, <1>4, <2>5, <2>6, <2>7 DEF P
<1> QED BY <1>5, <1>6

\* A filter walks through a plain topic that it covers.
LEMMA CoveredIsWalk ==
    ASSUME NEW S, NEW f \in Seq(S), S \cap Groups = {},
           NEW m, NEW c, Cuts(f, m, c), WellFormed(f), Asked(f, m, c) # 0,
           NEW R, NEW t \in Seq(R), NEW n, NEW d, Cuts(t, n, d), Plain(t),
           Covers(f, t)
    PROVE  \E j : Walk(f, Asking(f, m, c), Open(f, m, c), t, j)
<1> DEFINE M == Asked(f, m, c)
           N == Asking(f, m, c)
           open == Open(f, m, c)
           Within(i, k) == c[i] <= k /\ k < c[i + 1]
           level(k) == CHOOSE i \in 1..M : Within(i, k)
           P(i, k) == LevelPos(f, c, d, i, k)
           j == [k \in 0..N |-> P(level(k), k)]
<1>1. /\ M \in Nat /\ M <= m /\ m \in Nat /\ N \in Nat /\ N <= Len(f)
      /\ Len(f) \in Nat /\ M # 0
  BY AskingLemma
<1>2. /\ c[1] = 0 /\ N = c[M + 1] - 1
      /\ \A i \in 1..(m + 1) : c[i] \in Nat
      /\ \A i, k \in 1..(m + 1) : i < k => c[i] < c[k]
      /\ \A i \in 2..m : f[c[i]] = "/"
  BY CutsFacts DEF Asking
<1>3. /\ n \in Nat /\ Len(t) \in Nat /\ d[1] = 0 /\ d[n + 1] = Len(t) + 1
      /\ \A i \in 2..n : t[d[i]] = "/"
  BY CutsFacts
<1>4. /\ IF open THEN n >= M ELSE n = M
      /\ \A i \in 1..M : IsAny(f, c, i) \/ IsSame(f, c, t, d, i)
  BY CoversLevels
<1>5. \A i \in 1..M : i \in 1..n /\ i \in Nat /\ i \in 1..m
  BY <1>1, <1>3, <1>4
<1>6. ASSUME NEW i \in 1..M
      PROVE  /\ c[i] \in Nat /\ c[i + 1] \in Nat /\ c[i] < c[i + 1]
             /\ P(i, c[i]) = d[i] /\ P(i, c[i + 1] - 1) = d[i + 1] - 1
             /\ d[i] \in Nat /\ d[i + 1] \in Nat
             /\ \A k \in c[i]..(c[i + 1] - 1) : P(i, k) \in 0..Len(t)
             /\ \A k \in (c[i] + 1)..(c[i + 1] - 1) :
                   /\ P(i, k - 1) <= P(i, k)
                   /\ Spans(Item(f[k]), t, P(i, k - 1), P(i, k))
  BY <1>4, <1>5, LevelPositions
<1> HIDE DEF M, N, open, P
<1>7. ASSUME NEW k \in 0..N
      PROVE  \E i \in 1..M : Within(i, k)
  <2>1. CASE k = 0
    <3>1. 1 \in 1..M
      BY <1>1
    <3>2. c[1 + 1] \in Nat /\ c[1] < c[1 + 1]
      BY <1>6, <3>1
    <3>3. Within(1, k)
      BY <1>2, <2>1, <3>2
    <3> QED BY <3>1, <3>3
  <2>2. CASE k # 0
    <3>1. k \in 1..Len(f)
      BY <1>1, <2>2
    <3>2. PICK i \in 1..m : Within(i, k)
      BY <3>1, LocateLevel
    <3>3. ~(M < i)
      <4> SUFFICES ASSUME M < i
                   PROVE  FALSE
        OBVIOUS
      <4>1. /\ M + 1 \in 1..(m + 1) /\ i \in 1..(m + 1)
            /\ i = M + 1 \/ M + 1 < i
        BY <1>1
      <4>2. c[M + 1] \in Nat /\ c[i] \in Nat /\ c[M + 1] <= c[i]
        BY <1>2, <4>1
      <4>3. k < c[M + 1]
        BY <1>2, <4>2
      <4> QED BY <3>2, <4>2, <4>3
    <3>4. i \in 1..M
      BY <1>1, <3>3
    <3> QED BY <3>2, <3>4
  <2> QED BY <2>1, <2>2
<1>8. ASSUME NEW k \in 0..N, NEW i \in 1..M, Within(i, k)
      PROVE  j[k] = P(i, k) /\ j[k] \in 0..Len(t)
  <2>1. ASSUME NEW l \in 1..M, Within(l, k), l < i
        PROVE  FALSE
    <3>1. /\ l + 1 \in 1..(m + 1) /\ i \in 1..(m + 1)
          /\ l + 1 = i \/ l + 1 < i
      BY <1>1, <2>1
    <3>2. c[l + 1] \in Nat /\ c[i] \in Nat /\ c[l + 1] <= c[i]
      BY <1>2, <3>1
    <3> QED BY <1>8, <2>1, <3>2
  <2>2. ASSUME NEW l \in 1..M, Within(l, k), i < l
        PROVE  FALSE
    <3>1. /\ i + 1 \in 1..(m + 1) /\ l \in 1..(m + 1)
          /\ i + 1 = l \/ i + 1 < l
      BY <1>1, <2>2
    <3>2. c[i + 1] \in Nat /\ c[l] \in Nat /\ c[i + 1] <= c[l]
      BY <1>2, <3>1
    <3> QED BY <1>8, <2>2, <3>2
  <2>3. \A l \in 1..M : Within(l, k) => l = i
    <3> HIDE DEF Within
    <3>1. \A l \in 1..M : l < i \/ l = i \/ i < l
      BY <1>1
    <3> QED BY <2>1, <2>2, <3>1
  <2>4. level(k) = i
    <3> HIDE DEF Within
    <3> QED BY <1>8, <2>3
  <2>5. k \in c[i]..(c[i + 1] - 1)
    BY <1>6, <1>8
  <2> HIDE DEF level
  <2> QED BY <1>6, <2>4, <2>5
<1>9. \A k \in 0..N : j[k] \in 0..Len(t)
  <2> HIDE DEF j, Within
  <2> QED BY <1>7, <1>8
<1>10. j \in [0..N -> 0..Len(t)]
  <2> HIDE DEF P, level
  <2> QED BY <1>9
<1> HIDE DEF j, level
<1>11. j[0] = 0
  <2>1. 0 \in 0..N /\ 1 \in 1..M
    BY <1>1
  <2>2. /\ c[1] = 0 /\ d[1] = 0 /\ c[1 + 1] \in Nat /\ c[1] < c[1 + 1]
        /\ P(1, c[1]) = d[1]
    BY <1>2, <1>3, <1>6, <2>1
  <2> QED BY <1>8, <2>1, <2>2
<1>12. ASSUME NEW k \in 1..N
       PROVE  j[k - 1] <= j[k] /\ Spans(Item(f[k]), t, j[k - 1], j[k])
  <2>1. k \in 0..N /\ k - 1 \in 0..N /\ k \in Nat /\ k # 0
    BY <1>1
  <2>2. PICK i \in 1..M : Within(i, k)
    BY <1>7, <2>1
  <2>3. j[k] = P(i, k)
    BY <1>8, <2>1, <2>2
  <2>4. c[i] \in Nat /\ c[i + 1] \in Nat
    BY <1>6
  <2>5. CASE k # c[i]
    <3>1. Within(i, k - 1) /\ k \in (c[i] + 1)..(c[i + 1] - 1)
      BY <2>1, <2>2, <2>4, <2>5
    <3>2. j[k - 1] = P(i, k - 1)
      BY <1>8, <2>1, <3>1
    <3> QED BY <1>6, <2>3, <3>1, <3>2
  <2>6. CASE k = c[i]
    <3>1. i # 1
      BY <1>2, <2>1, <2>6
    <3> DEFINE l == i - 1
    <3>2. /\ l \in 1..M /\ l + 1 = i /\ i \in 2..m /\ i \in 2..n
      BY <1>1, <1>5, <3>1
    <3> HIDE DEF l
    <3>3. c[l] \in Nat /\ c[l] < c[i] /\ P(l, c[i] - 1) = d[i] - 1
      BY <1>6, <3>2
    <3>4. Within(l, k - 1)
      BY <2>1, <2>4, <2>6, <3>2, <3>3
    <3>5. j[k - 1] = d[i] - 1
      BY <1>8, <2>1, <2>6, <3>2, <3>3, <3>4
    <3>6. j[k] = d[i] /\ d[i] \in Nat
      BY <1>6, <2>3, <2>6
    <3>7. f[k] = "/" /\ t[d[i]] = "/"
      BY <1>2, <1>3, <2>6, <3>2
    <3>8. Item(f[k]) = "/" /\ "/" \notin Groups \cup {"."}
      BY <3>7 DEF Item, Groups, plus_regex, one_regex, hash_regex, once_regex
    <3>9. j[k] = j[k - 1] + 1 /\ j[k - 1] <= j[k]
      BY <3>5, <3>6
    <3>10. Spans("/", t, j[k - 1], j[k])
      BY <3>6, <3>7, <3>8, <3>9, SpansCharacter
    <3> QED BY <3>8, <3>9, <3>10
  <2> QED BY <2>5, <2>6
<1>13. j[N] = d[M + 1] - 1
  <2>1. M \in 1..M /\ N \in 0..N
    BY <1>1
  <2>2. Within(M, N)
    BY <1>2, <1>6, <2>1
  <2> QED BY <1>2, <1>6, <1>8, <2>1, <2>2
<1>14. IF open THEN j[N] <= Len(t) /\ Spans(hash_regex, t, j[N], Len(t))
       ELSE j[N] = Len(t)
  <2>1. M \in 1..n
    BY <1>1, <1>5
  <2>2. CASE open
    BY <1>13, <2>1, <2>2, HashSpansLevels
  <2>3. CASE ~open
    BY <1>3, <1>4, <1>13, <2>3
  <2> QED BY <2>2, <2>3
<1>15. Walk(f, N, open, t, j)
  BY <1>10, <1>11, <1>12, <1>14 DEF Walk
<1> QED BY <1>15 DEF N, open

-----------------------------------------------------------------------------
(* Filters and topics *)

\* A filter whose only level is a "#" is "#", and covers every topic.
LEMMA OnlyHash ==
    ASSUME NEW S, NEW f \in Seq(S), NEW m, NEW c, Cuts(f, m, c)
    PROVE  /\ Asked(f, m, c) = 0 => f = <<"#">>
           /\ \A R : \A t \in Seq(R) : Asked(f, m, c) = 0 => Covers(f, t)
<1>1. /\ m \in Nat /\ m # 0 /\ Len(f) \in Nat
      /\ c[1] = 0 /\ c[m + 1] = Len(f) + 1
  BY CutsFacts
<1>2. ASSUME Asked(f, m, c) = 0
      PROVE  m = 1 /\ Open(f, m, c)
  BY <1>1, <1>2 DEF Asked
<1>3. ASSUME Asked(f, m, c) = 0
      PROVE  f = <<"#">>
  <2>1. Len(f) = 1 /\ f[1] = "#"
    <3>1. m = 1 /\ c[m + 1] = c[m] + 2 /\ f[c[m] + 1] = "#"
      BY <1>2, <1>3 DEF Open
    <3>2. c[1] = 0 /\ c[1 + 1] = c[1] + 2 /\ f[c[1] + 1] = "#"
      BY <1>1, <3>1
    <3>3. c[1 + 1] = Len(f) + 1
      BY <1>1, <3>1
    <3>4. c[1 + 1] = 2
      BY <3>2
    <3>5. Len(f) = 1
      <4>1. Len(f) + 1 = 2
        BY <3>3, <3>4
      <4>2. Len(f) \in Nat
        BY <1>1
      <4>3. \A x \in Nat : x + 1 = 2 => x = 1
        OBVIOUS
      <4> QED BY <4>1, <4>2, <4>3, Zenon
    <3>6. f[0 + 1] = "#"
      BY <3>2
    <3> QED BY <3>5, <3>6
  <2> DEFINE h == <<"#">>
             U == S \cup {"#"}
  <2>2. h \in Seq(U) /\ Len(h) = 1 /\ h[1] = "#"
    OBVIOUS
  <2>3. f \in Seq(U)
    BY SeqMonotonic
  <2> HIDE DEF h, U
  <2>4. Len(f) = Len(h) /\ \A e \in 1..Len(f) : f[e] = h[e]
    BY <2>1, <2>2
  <2>5. f = h
    BY <2>2, <2>3, <2>4, SeqEqual
  <2> QED BY <2>5 DEF h
<1>4. ASSUME Asked(f, m, c) = 0, NEW R, NEW t \in Seq(R)
      PROVE  Covers(f, t)
  <2>1. PICK n, d : Cuts(t, n, d)
    BY CutsExist
  <2>2. n \in Nat
    BY <2>1, CutsFacts
  <2>3. \A i \in 1..0 : FALSE
    OBVIOUS
  <2>4. n >= 0
    BY <2>2
  <2> QED BY <1>2, <1>4, <2>1, <2>3, <2>4, CoversLevels
<1> QED BY <1>3, <1>4

\* The expression of a well-formed filter other than "#", of its cuts
LEMMA FilterShape ==
    ASSUME NEW S, NEW f \in Seq(S), S \cap Groups = {},
           NEW m, NEW c, Cuts(f, m, c), WellFormed(f), Asked(f, m, c) # 0
    PROVE  /\ \E A : get_regex(f) \in Seq(A)
           /\ Asking(f, m, c) \in Nat /\ Open(f, m, c) \in BOOLEAN
           /\ Shape(f, Asking(f, m, c), Open(f, m, c), get_regex(f))
           /\ \A k \in 1..Asking(f, m, c) : f[k] \notin Groups \cup {"."}
<1> DEFINE N == Asking(f, m, c)
           open == Open(f, m, c)
<1>1. /\ N \in Nat /\ N <= Len(f) /\ Len(f) \in Nat
      /\ IF open THEN Len(f) = N + 2 /\ f[N + 1] = "/" /\ f[N + 2] = "#"
         ELSE Len(f) = N
      /\ \A k \in 1..N : f[k] \notin {"#", "."}
  BY AskingLemma
<1>2. open \in BOOLEAN
  BY DEF Open
<1> HIDE DEF N, open
<1>3. \A k \in 1..N : f[k] # "#"
  BY <1>1
<1>4. (\E A : get_regex(f) \in Seq(A)) /\ Shape(f, N, open, get_regex(f))
  BY <1>1, <1>2, <1>3, ShapeLemma
<1>5. \A k \in 1..N : f[k] \in S
  BY <1>1, ElementOfSeq
<1>6. \A k \in 1..N : f[k] \notin Groups \cup {"."}
  BY <1>1, <1>5
<1> QED BY <1>1, <1>2, <1>4, <1>6 DEF N, open

(***************************************************************************)
(* What matches the expression of a well-formed filter is covered by it,   *)
(* level by level, unless the topic spells out the prefix.                 *)
(***************************************************************************)
LEMMA MatchIsCovered ==
    ASSUME NEW S, NEW f \in Seq(S), S \cap Groups = {}, WellFormed(f),
           NEW R, NEW t \in Seq(R), prefix[1] \notin R,
           Match(get_regex(f), t)
    PROVE  Covers(f, t)
<1>1. PICK m, c : Cuts(f, m, c)
  BY CutsExist
<1>2. PICK n, d : Cuts(t, n, d)
  BY CutsExist
<1>3. CASE Asked(f, m, c) = 0
  BY <1>1, <1>3, OnlyHash
<1>4. CASE Asked(f, m, c) # 0
  <2> DEFINE N == Asking(f, m, c)
             open == Open(f, m, c)
             r == get_regex(f)
  <2>1. /\ \E A : r \in Seq(A)
        /\ N \in Nat /\ open \in BOOLEAN /\ Shape(f, N, open, r)
        /\ \A k \in 1..N : f[k] \notin Groups \cup {"."}
    BY <1>1, <1>4, FilterShape
  <2> HIDE DEF N, open, r
  <2>2. Match(r, t)
    BY DEF r
  <2>3. \E j : Walk(f, N, open, t, j)
    BY <2>1, <2>2, MatchIsWalk
  <2> QED BY <1>1, <1>2, <1>4, <2>3, WalkIsCovered DEF N, open
<1> QED BY <1>3, <1>4

(***************************************************************************)
(* A plain topic that a well-formed filter other than "#" covers matches   *)
(* its expression.                                                         *)
(***************************************************************************)
LEMMA CoveredIsMatch ==
    ASSUME NEW S, NEW f \in Seq(S), S \cap Groups = {}, WellFormed(f),
           f # <<"#">>,
           NEW R, NEW t \in Seq(R), Plain(t), Covers(f, t)
    PROVE  Match(get_regex(f), t)
<1>1. PICK m, c : Cuts(f, m, c)
  BY CutsExist
<1>2. PICK n, d : Cuts(t, n, d)
  BY CutsExist
<1>3. Asked(f, m, c) # 0
  BY <1>1, OnlyHash
<1> DEFINE N == Asking(f, m, c)
           open == Open(f, m, c)
           r == get_regex(f)
<1>4. /\ \E A : r \in Seq(A)
      /\ N \in Nat /\ open \in BOOLEAN /\ Shape(f, N, open, r)
      /\ \A k \in 1..N : f[k] \notin Groups \cup {"."}
  BY <1>1, <1>3, FilterShape
<1>5. PICK j : Walk(f, N, open, t, j)
  BY <1>1, <1>2, <1>3, CoveredIsWalk
<1> HIDE DEF N, open, r
<1>6. Match(r, t)
  BY <1>4, <1>5, WalkIsMatch
<1> QED BY <1>6 DEF r

-----------------------------------------------------------------------------
(* The inputs *)

\* The filter as the service has it, cut where topic_len says
Received(f) == Extract(Append(f, NUL), TopicLen(f))

\* A filter or a topic is a string, and so is what is left of it.
LEMMA InputsAreStrings ==
    ASSUME NEW s \in Filters \cup Topics
    PROVE  /\ s \in Seq(ToSet(s)) /\ NUL \notin ToSet(s)
           /\ ToSet(s) \cap ({prefix[1]} \cup Groups) = {}
  BY StringsAssumption

\* What is extracted of a filter or a topic is a beginning of it, and all of it
\* if topic_len could hold its length.
LEMMA ExtractedInput ==
    ASSUME NEW f \in Filters \cup Topics, TopicLen(f) # 0,
           NEW chars, \A i \in 1..(TopicLen(f) - 1) : chars[i] = f[i]
    PROVE  /\ Extract(chars, TopicLen(f)) \in Seq(ToSet(f))
           /\ Fits(f) => Extract(chars, TopicLen(f)) = f
<1> DEFINE S == ToSet(f)
           n == TopicLen(f)
           s == SubSeq(f, 1, n - 1)
<1>1. f \in Seq(S) /\ NUL \notin S
  BY InputsAreStrings
<1> HIDE DEF S
<1>2. /\ Len(f) \in Nat /\ n - 1 \in Nat /\ n \in Nat /\ n - 1 <= Len(f)
      /\ n = n - 1 + 1 /\ Fits(f) => n = Len(f) + 1
  BY <1>1, LenProperties, TopicLenLemma, TopicLenAssumption
<1> HIDE DEF n
<1>3. \A i \in 1..(n - 1) : f[i] \in S /\ i \in 1..Len(f)
  BY <1>1, <1>2, ElementOfSeq
<1>4. /\ s \in Seq(S) /\ Len(s) = n - 1
      /\ \A i \in 1..(n - 1) : s[i] = f[i]
  BY <1>2, <1>3, FirstItems
<1> HIDE DEF s
<1>5. NUL \notin ToSet(s)
  <2>1. DOMAIN s = 1..(n - 1)
    BY <1>4, LenProperties
  <2> QED BY <1>1, <1>3, <1>4, <2>1 DEF ToSet
<1>6. Extract(chars, n) = s
  <2>1. \A i \in 1..(n - 1) : chars[i] = f[i]
    BY DEF n
  <2>2. \A i \in 1..Len(s) : chars[i] = s[i]
    BY <1>4, <2>1
  <2>3. n = Len(s) + 1
    BY <1>2, <1>4
  <2> QED BY <1>2, <1>4, <1>5, <2>2, <2>3, ExtractOf
<1>7. ASSUME Fits(f)
      PROVE  s = f
  <2>1. Len(s) = Len(f) /\ \A i \in 1..Len(s) : s[i] = f[i]
    BY <1>2, <1>4, <1>7
  <2> QED BY <1>1, <1>4, <2>1, SeqEqual
<1> QED BY <1>4, <1>6, <1>7 DEF S, n

\* That is so for the filter the service gets.
LEMMA ReceivedLemma ==
    ASSUME NEW f \in Filters, TopicLen(f) # 0
    PROVE  /\ Received(f) \in Seq(ToSet(f))
           /\ Fits(f) => Received(f) = f
<1> DEFINE S == ToSet(f)
           n == TopicLen(f)
<1>1. f \in Seq(S)
  BY InputsAreStrings
<1> HIDE DEF S
<1>2. Len(f) \in Nat /\ n \in Nat /\ n <= Len(f) + 1
  BY <1>1, LenProperties, TopicLenLemma, TopicLenAssumption
<1> HIDE DEF n
<1>3. \A i \in 1..Len(f) : Append(f, NUL)[i] = f[i]
  <2>1. f \in Seq(S \cup {NUL}) /\ NUL \in S \cup {NUL}
    BY <1>1, SeqMonotonic
  <2> QED BY <2>1, AppendProperties
<1>4. \A i \in 1..(n - 1) : Append(f, NUL)[i] = f[i]
  <2>1. \A i \in 1..(n - 1) : i \in 1..Len(f)
    BY <1>2
  <2> QED BY <1>3, <2>1
<1> QED BY <1>4, ExtractedInput DEF Received, n

-----------------------------------------------------------------------------
(* The inductive invariant: each step kept what the last one made, of the  *)
(* filter and of the topic and payload that were passed in                 *)

\* What the callback is called with, of what was published
Arrives(p) ==
    LET m == MessageOf(p.topic, p.data)
    IN  [topic |-> Extract(m.chars, m.topic_len),
         data |-> Filled(Extract(DataOf(m), Len(DataOf(m))), Len(DataOf(m)))]

\* An input, the message made of it and what arrives of it are not None.
LEMMA NotNone ==
    ASSUME NEW t \in Topics, NEW data \in Payloads
    PROVE  LET p == [topic |-> t, data |-> data]
           IN  /\ p # None /\ MessageOf(t, data) # None
               /\ TopicLen(t) # 0 /\ data # <<>> => Arrives(p) # None
<1> DEFINE chars ==
              {NUL} \cup UNION {ToSet(s) : s \in Filters \cup Topics \cup Payloads}
           Strings == Seq(chars)
           p == [topic |-> t, data |-> data]
           m == MessageOf(t, data)
           n == TopicLen(t)
<1>1. \A x, y \in Strings : [topic |-> x, data |-> y] # None
  <2>1. None \notin [topic : Strings, data : Strings]
    BY NoneAssumption
  <2> HIDE DEF Strings
  <2> QED BY <2>1
<1>2. \A x \in Nat, y \in Strings : [topic_len |-> x, chars |-> y] # None
  <2>1. None \notin [topic_len : Nat, chars : Strings]
    BY NoneAssumption
  <2> HIDE DEF Strings
  <2> QED BY <2>1
<1>3. ToSet(t) \subseteq chars /\ ToSet(data) \subseteq chars /\ NUL \in chars
  OBVIOUS
<1> HIDE DEF chars
<1>4. /\ t \in Seq(ToSet(t)) /\ data \in Seq(ToSet(data))
      /\ t \in Seq(chars) /\ data \in Seq(chars)
  <2>1. t \in Seq(ToSet(t)) /\ data \in Seq(ToSet(data))
    BY InputsAreStrings, PayloadsAssumption
  <2> QED BY <1>3, <2>1, SeqMonotonic
<1>5. n \in Nat
  BY <1>4, TopicLenLemma, TopicLenAssumption
<1>6. /\ m.topic_len = n /\ DataOf(m) = data /\ m.chars \in Seq(chars)
      /\ n <= Len(m.chars)
  <2>1. m.topic_len = n /\ DataOf(m) = data
    BY <1>4, MessageLemma
  <2>3. /\ m.chars \in Seq(chars \cup {NUL} \cup chars)
        /\ n <= Len(m.chars)
    BY <1>4, MessageChars
  <2>2. chars \cup {NUL} \cup chars = chars
    BY <1>3
  <2> HIDE DEF m, n
  <2> QED BY <2>1, <2>2, <2>3
<1>7. p # None
  BY <1>1, <1>4
<1>8. m # None
  <2>1. m = [topic_len |-> n, chars |-> m.chars]
    BY DEF MessageOf
  <2> HIDE DEF m, n
  <2> QED BY <1>2, <1>5, <1>6, <2>1
<1>9. ASSUME n # 0, data # <<>>
      PROVE  Arrives(p) # None
  <2> DEFINE topic == Extract(m.chars, n)
             copy == Filled(Extract(data, Len(data)), Len(data))
  <2>1. Arrives(p) = [topic |-> topic, data |-> copy]
    <3>1. p.topic = t /\ p.data = data
      OBVIOUS
    <3> HIDE DEF p, n
    <3>2. m = MessageOf(p.topic, p.data)
      BY <3>1
    <3> HIDE DEF m
    <3> QED BY <1>6, <3>2 DEF Arrives
  <2>2. topic \in Seq(chars)
    <3> HIDE DEF m, n
    <3> QED BY <1>5, <1>6, <1>9, ExtractType
  <2>3. Len(data) \in Nat /\ Len(data) # 0
    BY <1>4, <1>9, LenProperties, EmptySeq
  <2>4. Extract(data, Len(data)) \in Seq(chars)
    BY <1>4, <2>3, ExtractType
  <2>5. copy \in Seq(chars)
    <3>1. copy \in Seq(chars \cup {NUL})
      BY <2>3, <2>4, FilledType
    <3>2. chars \cup {NUL} = chars
      BY <1>3
    <3> QED BY <3>1, <3>2
  <2> HIDE DEF topic, copy
  <2> QED BY <1>1, <2>1, <2>2, <2>5
<1> HIDE DEF m, n, p
<1> QED BY <1>7, <1>8, <1>9 DEF m, n, p

\* What was passed in
Inputs ==
    /\ filter \in Filters \cup {None}
    /\ published # None =>
          published \in [topic : Topics, data : Payloads] /\ regex # None
    /\ published # None /\ ~undefined => TopicLen(published.topic) # 0
    /\ arrived \in BOOLEAN /\ (arrived => published # None)
    /\ outgoing # None => outgoing.chars = <<>>
    /\ undefined \in BOOLEAN

\* The expression is the one of the filter the service got.
Compiled ==
    regex # None =>
        /\ filter # None /\ TopicLen(filter) # 0
        /\ regex = get_regex(Received(filter))

\* The message is the one made of what was published.
InNetwork ==
    message # None =>
        /\ published # None /\ TopicLen(published.topic) # 0
        /\ message = MessageOf(published.topic, published.data)

\* What was heard is what arrives of what was published, on a topic that
\* matches.
Heard ==
    heard # None =>
        /\ published # None /\ TopicLen(published.topic) # 0
        /\ heard = Arrives(published)
        /\ Match(regex, Arrives(published).topic)

\* What was delivered and not heard does not match.
Unheard ==
    Delivered /\ heard = None =>
        /\ TopicLen(published.topic) # 0
        /\ ~Match(regex, Arrives(published).topic)

\* The inductive invariant
DInv == Inputs /\ Compiled /\ InNetwork /\ Heard /\ Unheard /\ MemorySafe

\* Nothing is there before the first call.
LEMMA InitDInv == Init => DInv
  BY DEF Init, DInv, Inputs, Compiled, InNetwork, Heard, Unheard, Delivered,
         MemorySafe

\* A filter whose length topic_len holds and that has one '#' at the most is
\* compiled within its buffers.
LEMMA FilterInBounds ==
    ASSUME NEW f \in Filters, Fits(f), Count("#", f) <= 1
    PROVE  TopicLen(f) # 0 /\ ~(Written(Received(f)) > Allocated(Received(f)))
<1>1. f \in Seq(ToSet(f)) /\ ToSet(f) \cap ({prefix[1]} \cup Groups) = {}
  BY InputsAreStrings
<1>2. TopicLen(f) # 0
  BY <1>1, LenProperties, TopicLenLemma
<1>3. Received(f) = f
  BY <1>2, ReceivedLemma
<1>4. ~(Written(f) > Allocated(f))
  <2> DEFINE S == ToSet(f)
  <2> HIDE DEF S
  <2>1. f \in Seq(S) /\ S \cap ({prefix[1]} \cup Groups) = {}
    BY <1>1 DEF S
  <2> QED BY <2>1, BufferLemma
<1> QED BY <1>2, <1>3, <1>4

\* A message has the topic's length and the payload it was made with.
LEMMA InputMessage ==
    ASSUME NEW t \in Topics, NEW data \in Payloads
    PROVE  /\ MessageOf(t, data).topic_len = TopicLen(t)
           /\ TopicLen(t) \in 0..TopicLenLimit - 1
           /\ DataOf(MessageOf(t, data)) = data
           /\ Fits(t) => TopicLen(t) # 0
<1>1. t \in Seq(ToSet(t)) /\ data \in Seq(ToSet(data))
  BY InputsAreStrings, PayloadsAssumption
<1>2. Fits(t) => TopicLen(t) # 0
  BY <1>1, LenProperties, TopicLenLemma
<1> QED BY <1>1, <1>2, TopicLenLemma, MessageLemma

\* Every step keeps the invariant.
LEMMA NextDInv == DInv /\ [Next]_vars => DInv'
<1> SUFFICES ASSUME DInv, [Next]_vars
             PROVE  DInv'
  OBVIOUS
<1> USE DEF DInv, publisherVars
<1>1. ASSUME NEW f \in Filters, Subscribe(f)
      PROVE  DInv'
  <2>1. /\ ~undefined /\ regex = None /\ TopicLen(f) > 0
        /\ filter' = f /\ regex' = get_regex(Received(f))
        /\ UNCHANGED <<publisherVars, arrived, message, heard, undefined>>
    BY <1>1 DEF Subscribe, Received
  <2>2. f # None /\ TopicLen(f) # 0
    BY <2>1, NoneAssumption
  <2>3. published = None /\ heard = None /\ ~arrived
    BY <2>1 DEF Inputs, Heard
  <2>4. Inputs' /\ MemorySafe'
    BY <2>1, <2>3 DEF Inputs, MemorySafe
  <2>5. Compiled' /\ InNetwork'
    BY <2>1, <2>2 DEF Compiled, InNetwork
  <2>6. Heard' /\ Unheard'
    BY <2>1, <2>3 DEF Heard, Unheard, Delivered
  <2> QED BY <2>4, <2>5, <2>6
<1>2. ASSUME NEW f \in Filters, SubscribeOutOfBounds(f)
      PROVE  DInv'
  <2>1. /\ regex = None
        /\ TopicLen(f) = 0 \/ Written(Received(f)) > Allocated(Received(f))
        /\ filter' = f /\ undefined' = TRUE
        /\ UNCHANGED <<regex, publisherVars, arrived, message, heard>>
    BY <1>2 DEF SubscribeOutOfBounds, Received
  <2>2. f # None
    BY NoneAssumption
  <2>3. ~(Fits(f) /\ Count("#", f) <= 1)
    BY <2>1, FilterInBounds
  <2>4. Inputs' /\ MemorySafe'
    BY <2>1, <2>2, <2>3 DEF Inputs, MemorySafe
  <2>5. Compiled' /\ InNetwork'
    BY <2>1 DEF Compiled, InNetwork
  <2>6. Heard' /\ Unheard'
    BY <2>1 DEF Heard, Unheard, Delivered
  <2> QED BY <2>4, <2>5, <2>6
<1>3. ASSUME NEW t \in Topics, NEW data \in Payloads, Publish(t, data)
      PROVE  DInv'
  <2> DEFINE p == [topic |-> t, data |-> data]
  <2>1. /\ ~undefined /\ regex # None /\ published = None
        /\ MessageOf(t, data).topic_len > 0
        /\ published' = p /\ outgoing'.chars = <<>>
        /\ UNCHANGED <<filter, regex, arrived, message, heard, undefined>>
    BY <1>3 DEF Publish
  <2>2. /\ p \in [topic : Topics, data : Payloads] /\ p # None
        /\ p.topic = t /\ p.data = data
    BY NotNone
  <2>3. TopicLen(t) # 0
    BY <2>1, InputMessage
  <2>4. heard = None /\ message = None /\ ~arrived
    BY <2>1 DEF Heard, InNetwork, Inputs
  <2> HIDE DEF p
  <2>5. Inputs' /\ MemorySafe'
    BY <2>1, <2>2, <2>3 DEF Inputs, MemorySafe
  <2>6. Compiled' /\ InNetwork'
    BY <2>1, <2>4 DEF Compiled, InNetwork
  <2>7. Heard' /\ Unheard'
    BY <2>1, <2>4 DEF Heard, Unheard, Delivered
  <2> QED BY <2>5, <2>6, <2>7
<1>4. ASSUME NEW t \in Topics, NEW data \in Payloads, PublishOutOfBounds(t, data)
      PROVE  DInv'
  <2> DEFINE p == [topic |-> t, data |-> data]
  <2>1. /\ regex # None /\ published = None /\ TopicLen(t) = 0
        /\ published' = p /\ undefined' = TRUE
        /\ UNCHANGED <<filter, regex, searched, outgoing, arrived, message,
                        heard>>
    BY <1>4 DEF PublishOutOfBounds
  <2>2. /\ p \in [topic : Topics, data : Payloads] /\ p # None
        /\ p.topic = t /\ p.data = data
    BY NotNone
  <2>3. ~Fits(t)
    BY <2>1, InputMessage
  <2>4. heard = None /\ message = None
    BY <2>1 DEF Heard, InNetwork
  <2> HIDE DEF p
  <2>5. Inputs' /\ MemorySafe'
    BY <2>1, <2>2, <2>3 DEF Inputs, MemorySafe
  <2>6. Compiled' /\ InNetwork'
    BY <2>1, <2>4 DEF Compiled, InNetwork
  <2>7. Heard' /\ Unheard'
    BY <2>1, <2>4 DEF Heard, Unheard, Delivered
  <2> QED BY <2>5, <2>6, <2>7
<1>5. ASSUME Deliver
      PROVE  DInv'
  <2> DEFINE t == published.topic
             data == published.data
             match == Match(regex, Arrives(published).topic)
  <2>1. /\ ~undefined /\ message # None /\ message' = None
        /\ UNCHANGED <<filter, regex, publisherVars, arrived, undefined>>
    BY <1>5 DEF Deliver
  <2>2. /\ published # None /\ TopicLen(t) # 0 /\ message = MessageOf(t, data)
        /\ t \in Topics /\ data \in Payloads
        /\ published = [topic |-> t, data |-> data]
    BY <2>1 DEF InNetwork, Inputs
  <2>3. Arrives(published) =
           [topic |-> Extract(message.chars, message.topic_len),
            data |-> Filled(Extract(DataOf(message), Len(DataOf(message))),
                            Len(DataOf(message)))]
    BY <2>2 DEF Arrives
  <2>4. /\ match => DataOf(message) # <<>>
        /\ heard' = IF match THEN Arrives(published) ELSE None
    BY <1>5, <2>3 DEF Deliver
  <2>5. DataOf(message) = data
    BY <2>2, InputMessage
  <2>6. match => Arrives(published) # None
    <3> HIDE DEF match
    <3> QED BY <2>2, <2>4, <2>5, NotNone
  <2>7. Inputs' /\ MemorySafe'
    BY <2>1 DEF Inputs, MemorySafe
  <2>8. Compiled' /\ InNetwork'
    BY <2>1 DEF Compiled, InNetwork
  <2>9. Heard' /\ Unheard'
    <3>1. published' = published /\ regex' = regex
      BY <2>1
    <3>2. Arrives(published)' = Arrives(published) /\ match' = match
      BY <3>1
    <3>3. CASE match
      <4>1. heard' = Arrives(published) /\ heard' # None
        BY <2>4, <2>6, <3>3
      <4> QED BY <2>2, <3>1, <3>2, <3>3, <4>1 DEF Heard, Unheard
    <3>4. CASE ~match
      <4>1. heard' = None
        BY <2>4, <3>4
      <4> QED BY <2>2, <3>1, <3>2, <3>4, <4>1 DEF Heard, Unheard
    <3> QED BY <3>3, <3>4
  <2> QED BY <2>7, <2>8, <2>9
<1>6. ASSUME DeliverOutOfBounds
      PROVE  DInv'
  <2>1. /\ message # None /\ DataOf(message) = <<>> /\ undefined' = TRUE
        /\ UNCHANGED <<filter, regex, publisherVars, arrived, message, heard>>
    BY <1>6 DEF DeliverOutOfBounds
  <2>2. published # None /\ message = MessageOf(published.topic, published.data)
    BY <2>1 DEF InNetwork
  <2>3. published.topic \in Topics /\ published.data \in Payloads
    BY <2>2 DEF Inputs
  <2>4. published.data = <<>>
    BY <2>1, <2>2, <2>3, InputMessage
  <2>5. Inputs' /\ MemorySafe'
    BY <2>1, <2>2, <2>4 DEF Inputs, MemorySafe
  <2>6. Compiled' /\ InNetwork'
    BY <2>1 DEF Compiled, InNetwork
  <2>7. Heard' /\ Unheard'
    BY <2>1 DEF Heard, Unheard, Delivered
  <2> QED BY <2>5, <2>6, <2>7
<1>7. ASSUME Handled
      PROVE  DInv'
  <2>1. /\ ~undefined /\ message = None /\ published' = None /\ heard' = None
        /\ outgoing' = None /\ arrived' = FALSE
        /\ UNCHANGED <<filter, regex, message, undefined>>
    BY <1>7 DEF Handled
  <2>2. Inputs' /\ MemorySafe'
    BY <2>1 DEF Inputs, MemorySafe
  <2>3. Compiled' /\ InNetwork' /\ Heard' /\ Unheard'
    BY <2>1 DEF Compiled, InNetwork, Heard, Unheard, Delivered
  <2> QED BY <2>2, <2>3
<1>8. ASSUME Arrive
      PROVE  DInv'
  <2>1. /\ ~undefined /\ published # None /\ arrived' = TRUE
        /\ message' = MessageOf(published.topic, published.data)
        /\ UNCHANGED <<filter, regex, publisherVars, heard, undefined>>
    BY <1>8 DEF Arrive
  <2>2. /\ published.topic \in Topics /\ published.data \in Payloads
        /\ TopicLen(published.topic) # 0
    BY <2>1 DEF Inputs
  <2>3. message' # None
    BY <2>1, <2>2, NotNone
  <2>4. Inputs' /\ MemorySafe'
    BY <2>1 DEF Inputs, MemorySafe
  <2>5. Compiled' /\ InNetwork'
    BY <2>1, <2>2 DEF Compiled, InNetwork
  <2>6. Heard' /\ Unheard'
    BY <2>1, <2>3 DEF Heard, Unheard, Delivered
  <2> QED BY <2>4, <2>5, <2>6
<1>9. ASSUME UNCHANGED vars
      PROVE  DInv'
  BY <1>9 DEF vars, Inputs, Compiled, InNetwork, Heard, Unheard, Delivered,
              MemorySafe
<1> QED BY <1>1, <1>2, <1>3, <1>4, <1>5, <1>6, <1>7, <1>8, <1>9 DEF Next

-----------------------------------------------------------------------------
(* What the runs check *)

\* Every variable has its type; no wildcard is left in an expression, wherever
\* topic_len cut its filter.
THEOREM TypeCorrect == Spec => []TypeOK
<1>1. ASSUME DInv
      PROVE  TypeOK
  <2>1. /\ filter \in Filters \cup {None} /\ undefined \in BOOLEAN
        /\ arrived \in BOOLEAN /\ (outgoing # None => outgoing.chars = <<>>)
        /\ published # None => published \in [topic : Topics, data : Payloads]
    BY <1>1 DEF DInv, Inputs
  <2>2. ASSUME regex # None
        PROVE  ToSet(regex) \subseteq
                 (ToSet(add_prefix(filter)) \ {"+", "#"}) \cup Groups
    <3>1. /\ filter \in Filters /\ TopicLen(filter) # 0
          /\ regex = get_regex(Received(filter))
      BY <1>1, <2>1, <2>2 DEF DInv, Compiled
    <3>2. Received(filter) \in Seq(ToSet(filter))
      BY <3>1, ReceivedLemma
    <3>3. ToSet(regex) \subseteq
            (ToSet(add_prefix(Received(filter))) \ {"+", "#"}) \cup Groups
      BY <3>1, <3>2, RegexItems
    <3>4. ToSet(add_prefix(Received(filter))) \subseteq ToSet(add_prefix(filter))
      BY <3>1, <3>2, InputsAreStrings, PrefixedItems
    <3> QED BY <3>3, <3>4
  <2>3. ASSUME message # None
        PROVE  message.topic_len \in 1..TopicLenLimit - 1
    <3>1. /\ published # None /\ TopicLen(published.topic) # 0
          /\ message = MessageOf(published.topic, published.data)
      BY <1>1, <2>3 DEF DInv, InNetwork
    <3>2. published.topic \in Topics /\ published.data \in Payloads
      BY <2>1, <3>1
    <3>3. /\ message.topic_len = TopicLen(published.topic)
          /\ TopicLen(published.topic) \in 0..TopicLenLimit - 1
      BY <3>1, <3>2, InputMessage
    <3> QED BY <3>1, <3>3
  <2>4. ASSUME heard # None
        PROVE  DOMAIN heard.data = DOMAIN published.data
    <3>1. published # None /\ heard = Arrives(published)
      BY <1>1, <2>4 DEF DInv, Heard
    <3>2. published.topic \in Topics /\ published.data \in Payloads
      BY <2>1, <3>1
    <3>3. DataOf(MessageOf(published.topic, published.data)) = published.data
      BY <3>2, InputMessage
    <3>4. DOMAIN heard.data = 1..Len(published.data)
      BY <3>1, <3>3 DEF Arrives, Filled
    <3>5. DOMAIN published.data = 1..Len(published.data)
      <4>1. published.data \in Seq(ToSet(published.data))
        BY <3>2, PayloadsAssumption
      <4> QED BY <4>1, LenProperties
    <3> QED BY <3>4, <3>5
  <2> QED BY <2>1, <2>2, <2>3, <2>4 DEF TypeOK
<1> QED BY <1>1, InitDInv, NextDInv, PTL DEF Spec

(***************************************************************************)
(* Nothing is written outside of the buffers of topics, payloads and       *)
(* expressions, as long as topic_len holds the length of what is passed    *)
(* in, the payload is not empty and the filter has one '#' at the most:    *)
(* for every filter and topic of any length.                               *)
(***************************************************************************)
THEOREM MemoryIsSafe == Spec => []MemorySafe
<1>1. DInv => MemorySafe
  BY DEF DInv
<1> QED BY <1>1, InitDInv, NextDInv, PTL DEF Spec

(***************************************************************************)
(* Topic and payload of a PUBLISH that comes in at the subscriber's peer   *)
(* (Arrive) reach the callback as the publisher gave them to its library,  *)
(* if topic_len holds the topic's length and the payload is a string.      *)
(* That the service brings a PUBLISH to that peer is not claimed.          *)
(***************************************************************************)
THEOREM ArrivesAsPublished == Spec => []HeardAsPublished
<1>1. ASSUME DInv
      PROVE  HeardAsPublished
  <2> SUFFICES ASSUME heard # None, Fits(published.topic),
                      Terminated(published.data)
               PROVE  heard = published
    BY DEF HeardAsPublished
  <2> DEFINE t == published.topic
             d == published.data
             m == MessageOf(t, d)
  <2>1. /\ published # None /\ heard = Arrives(published)
        /\ published \in [topic : Topics, data : Payloads]
    BY <1>1 DEF DInv, Heard, Inputs
  <2>2. /\ t \in Topics /\ d \in Payloads
        /\ published = [topic |-> t, data |-> d]
    BY <2>1
  <2>3. t \in Seq(ToSet(t)) /\ NUL \notin ToSet(t) /\ d \in Seq(ToSet(d))
    BY <2>2, InputsAreStrings, PayloadsAssumption
  <2>4. heard = [topic |-> Extract(m.chars, m.topic_len),
                 data |-> Filled(Extract(DataOf(m), Len(DataOf(m))),
                                 Len(DataOf(m)))]
    BY <2>1 DEF Arrives
  <2>5. TopicLen(t) = Len(t) + 1 /\ Len(t) \in Nat
    BY <2>3, TopicLenLemma, LenProperties
  <2>6. /\ m.topic_len = Len(t) + 1 /\ DataOf(m) = d
        /\ \A i \in 1..Len(t) + 1 - 1 : m.chars[i] = t[i]
    BY <2>3, <2>5, MessageLemma
  <2>7. Filled(Extract(d, Len(d)), Len(d)) = d
    BY <2>3, StringPayload
  <2> HIDE DEF t, d, m
  <2>8. Extract(m.chars, Len(t) + 1) = t
    <3>1. \A i \in 1..Len(t) : m.chars[i] = t[i]
      BY <2>5, <2>6
    <3>2. Len(t) + 1 \in Nat
      BY <2>5
    <3> QED BY <2>3, <3>1, <3>2, ExtractOf
  <2> QED BY <2>2, <2>4, <2>6, <2>7, <2>8
<1> QED BY <1>1, InitDInv, NextDInv, PTL DEF Spec

\* What the delivered topic is, if topic_len could hold both lengths: the one
\* that was published, compared with the expression of the whole filter.
LEMMA DeliveredTopic ==
    ASSUME DInv, Delivered, Fits(filter), Fits(published.topic),
           heard # None \/ TopicLen(published.topic) # 0
    PROVE  /\ filter \in Filters /\ published.topic \in Topics
           /\ regex = get_regex(filter)
           /\ Arrives(published).topic = published.topic
<1> DEFINE t == published.topic
           d == published.data
<1>1. /\ published # None /\ regex # None
      /\ published \in [topic : Topics, data : Payloads]
  BY DEF Delivered, DInv, Inputs
<1>2. t \in Topics /\ d \in Payloads
  BY <1>1
<1>3. /\ filter \in Filters /\ TopicLen(filter) # 0
      /\ regex = get_regex(Received(filter))
  BY <1>1 DEF DInv, Compiled, Inputs
<1>4. TopicLen(t) # 0
  BY DEF DInv, Heard
<1>5. regex = get_regex(filter)
  BY <1>3, ReceivedLemma
<1>6. Arrives(published).topic =
         Extract(MessageOf(t, d).chars, MessageOf(t, d).topic_len)
  BY DEF Arrives
<1> HIDE DEF t, d
<1>7. /\ MessageOf(t, d).topic_len = TopicLen(t)
      /\ \A i \in 1..(TopicLen(t) - 1) : MessageOf(t, d).chars[i] = t[i]
  <2>1. t \in Seq(ToSet(t)) /\ d \in Seq(ToSet(d))
    BY <1>2, InputsAreStrings, PayloadsAssumption
  <2> QED BY <2>1, MessageLemma
<1>8. Extract(MessageOf(t, d).chars, TopicLen(t)) = t
  BY <1>2, <1>4, <1>7, ExtractedInput DEF t
<1> QED BY <1>2, <1>3, <1>5, <1>6, <1>7, <1>8 DEF t

(***************************************************************************)
(* Of the messages that come in at its peer a subscriber hears none on a   *)
(* topic that its well-formed filter does not cover level by level:        *)
(* regexec may match a part of a longer topic, and rm_eo tells that apart. *)
(***************************************************************************)
THEOREM HearsOnlyCovered == Spec => []HeardOnlyIfCovered
<1>1. ASSUME DInv
      PROVE  HeardOnlyIfCovered
  <2> SUFFICES ASSUME Delivered, heard # None, Fits(filter),
                      Fits(published.topic), WellFormed(filter)
               PROVE  Covers(filter, published.topic)
    BY DEF HeardOnlyIfCovered
  <2> DEFINE t == published.topic
  <2>1. /\ filter \in Filters /\ t \in Topics /\ regex = get_regex(filter)
        /\ Arrives(published).topic = t
    BY <1>1, DeliveredTopic
  <2>2. Match(get_regex(filter), t)
    BY <1>1, <2>1 DEF DInv, Heard
  <2> HIDE DEF t
  <2>3. /\ filter \in Seq(ToSet(filter)) /\ t \in Seq(ToSet(t))
        /\ ToSet(filter) \cap Groups = {} /\ prefix[1] \notin ToSet(t)
    BY <2>1, InputsAreStrings
  <2> QED BY <2>2, <2>3, MatchIsCovered DEF t
<1> QED BY <1>1, InitDInv, NextDInv, PTL DEF Spec

(***************************************************************************)
(* Matching is complete: of the messages that come in at its peer          *)
(* (Arrive) a subscriber hears every one on a topic that its well-formed   *)
(* filter covers level by level, if the levels are names of letters and    *)
(* digits, for filters and topics of any length and any number of levels.  *)
(* That the service brings a PUBLISH to that peer is not claimed.          *)
(***************************************************************************)
THEOREM HearsAllCovered == Spec => []HeardIfCovered
<1>1. ASSUME DInv
      PROVE  HeardIfCovered
  <2> SUFFICES ASSUME Delivered, Fits(filter), Fits(published.topic),
                      WellFormed(filter), filter # <<"#">>,
                      Plain(published.topic), Covers(filter, published.topic),
                      heard = None
               PROVE  FALSE
    BY DEF HeardIfCovered
  <2> DEFINE t == published.topic
  <2>1. /\ TopicLen(t) # 0
        /\ ~Match(regex, Arrives(published).topic)
    BY <1>1 DEF DInv, Unheard
  <2>2. /\ filter \in Filters /\ t \in Topics /\ regex = get_regex(filter)
        /\ Arrives(published).topic = t
    BY <1>1, <2>1, DeliveredTopic
  <2>3. Plain(t) /\ Covers(filter, t) /\ ~Match(get_regex(filter), t)
    BY <2>1, <2>2
  <2> HIDE DEF t
  <2>4. /\ filter \in Seq(ToSet(filter)) /\ t \in Seq(ToSet(t))
        /\ ToSet(filter) \cap Groups = {}
    BY <2>2, InputsAreStrings
  <2> QED BY <2>3, <2>4, CoveredIsMatch
<1> QED BY <1>1, InitDInv, NextDInv, PTL DEF Spec
=============================================================================
