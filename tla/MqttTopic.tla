------------------------------ MODULE MqttTopic ------------------------------
(***************************************************************************)
(* Topic filters (gnunet-service-mqtt.c): the regular expression the       *)
(* service makes of a filter, the buffer it writes it to, and whether a    *)
(* topic matches it; and what the + and # of a filter mean, level by       *)
(* level.                                                                  *)
(*                                                                         *)
(* A filter or a topic is the sequence of its characters.  A regular       *)
(* expression is the sequence of its items: a character stands for itself, *)
(* a "." for any character, and a group for what it matches.               *)
(***************************************************************************)
EXTENDS Naturals, FiniteSetsExt, SequencesExt

CONSTANT Alphanumeric   \* the characters a group's alternatives name

\* No group names the character between levels.
ASSUME AlphanumericAssumption == "/" \notin Alphanumeric

-----------------------------------------------------------------------------
(* The expression of a filter *)

\* The prefix of all topics, whose first 22 characters are one item.
prefix == <<"GNUNET-MQTT 0001 00000", " ">>

plus_regex == "(a|..|9)+"
hash_regex == "(/(a|..|9)+)*"

\* A group without its repetition, its last character
one_regex == "(a|..|9)"
once_regex == "(/(a|..|9)+)"

add_prefix(topic) == prefix \o topic

\* The expression without its last character
StepBack(regex) ==
    LET last == Last(regex)
    IN  CASE last = plus_regex -> Append(Front(regex), one_regex)
          [] last = hash_regex -> Append(Front(regex), once_regex)
          [] OTHER -> Front(regex)

(***************************************************************************)
(* get_regex: one character of the prefixed filter after the other is      *)
(* translated; a '#' takes back the character before it.                   *)
(***************************************************************************)
TranslateInPlace(regex, c) ==     \* mutant: nothing is taken back
    CASE c = "+" -> Append(regex, plus_regex)
      [] c = "#" -> Append(regex, hash_regex)
      [] OTHER -> Append(regex, c)
Translate(regex, c) ==
    CASE c = "+" -> Append(regex, plus_regex)
      [] c = "#" -> Append(StepBack(regex), hash_regex)
      [] OTHER -> Append(regex, c)

get_regex(filter) == FoldLeft(Translate, <<>>, add_prefix(filter))

-----------------------------------------------------------------------------
(* The buffer of the expression *)

Chars(item) ==
    CASE item = prefix[1]  -> 22
      [] item = plus_regex -> 126
      [] item = one_regex  -> 125
      [] item = hash_regex -> 130
      [] item = once_regex -> 129
      [] OTHER -> 1

Strlen(items) == FoldLeft(LAMBDA n, item : n + Chars(item), 0, items)

Count(c, filter) == Cardinality({i \in DOMAIN filter : filter[i] = c})

\* hash_exists
HashUncounted(filter) == 0        \* mutant: a '#' is not counted
HashExists(filter) == IF Count("#", filter) = 0 THEN 0 ELSE 1

\* What get_regex allocates: the counted wildcards grow to their groups.
Allocated(filter) ==
    Strlen(add_prefix(filter)) - Count("+", filter) - HashExists(filter)
      + Count("+", filter) * Chars(plus_regex)
      + HashExists(filter) * Chars(hash_regex) + 1

\* What it writes: the expression and its NUL.
Written(filter) == Strlen(get_regex(filter)) + 1

-----------------------------------------------------------------------------
(* regexec, on a string w of which p characters are consumed *)

\* The item matches the characters from p + 1 to q.
Spans(item, w, p, q) ==
    LET only(S) == \A i \in p+1..q : w[i] \in S
        levels ==
            /\ p < q /\ w[p + 1] = "/" /\ w[q] # "/"
            /\ only(Alphanumeric \cup {"/"})
            /\ \A i \in p+1..q-1 : w[i] # "/" \/ w[i + 1] # "/"
    IN  CASE item = plus_regex -> p < q /\ only(Alphanumeric)
          [] item = one_regex -> q = p + 1 /\ only(Alphanumeric)
          [] item = hash_regex -> q = p \/ levels
          [] item = once_regex ->
                levels /\ \A i \in p+2..q : w[i] # "/"
          [] item = "." -> q = p + 1
          [] OTHER -> q = p + 1 /\ w[q] = item

\* Where a match of the expression that starts after p characters may end
Ends(regex, w, p) ==
    LET reached[k \in 0..Len(regex)] ==
            IF k = 0 THEN {p}
            ELSE LET before == reached[k - 1]
                 IN  {q \in p..Len(w) : \E r \in before :
                        r <= q /\ Spans(regex[k], w, r, q)}
    IN  reached[Len(regex)]

\* A match is the leftmost one, and the longest of those (rm_eo).
MatchPart(regex, w) ==            \* mutant: wherever that ends
    \E p \in 0..Len(w) : Ends(regex, w, p) # {}
match_subcriber_regex(regex, w) ==
    \E p \in 0..Len(w) :
        /\ Len(w) \in Ends(regex, w, p)
        /\ \A r \in 0..p-1 : Ends(regex, w, r) = {}

\* GNUNET_REGEX_search finds an announced expression that matches all of w.
Accepts(regex, w) == Len(w) \in Ends(regex, w, 0)

-----------------------------------------------------------------------------
(* The levels of filters and topics, for the properties *)

\* Level k is between the cuts that have k - 1 and k cuts before them.
Levels(s) ==
    LET cuts == {0, Len(s) + 1} \cup {i \in DOMAIN s : s[i] = "/"}
        cut(k) == CHOOSE c \in cuts : Cardinality({b \in cuts : b < c}) = k
    IN  [k \in 1..Cardinality(cuts) - 1 |->
            SubSeq(s, cut(k - 1) + 1, cut(k) - 1)]

\* The other characters that regcomp gives a meaning.  Spans has only the "."
\* of them.
Special == {".", "[", "\\", "(", ")", "*", "?", "{", "|", "^", "$"}

\* A + is a level of its own, a # the last one; nothing else is special.
WellFormed(filter) ==
    LET levels == Levels(filter)
    IN  \A k \in DOMAIN levels :
            \/ ToSet(levels[k]) \cap ({"+", "#"} \cup Special) = {}
            \/ levels[k] = <<"+">>
            \/ levels[k] = <<"#">> /\ k = Len(levels)

\* Every level is a name of letters and digits.
Plain(topic) ==
    \A level \in ToSet(Levels(topic)) :
        level # <<>> /\ ToSet(level) \subseteq Alphanumeric

Covers(filter, topic) ==
    LET fs == Levels(filter)
        ts == Levels(topic)
        open == Last(fs) = <<"#">>
        n == IF open THEN Len(fs) - 1 ELSE Len(fs)
    IN  /\ IF open THEN Len(ts) >= n ELSE Len(ts) = n
        /\ \A k \in 1..n : fs[k] = <<"+">> \/ fs[k] = ts[k]
=============================================================================
