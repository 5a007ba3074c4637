---------------------------------- MODULE Filter ----------------------------------
(***************************************************************************)
(* internal/filter/matcher.go: which traces the filters let through.       *)
(*                                                                         *)
(* A name of an exchange or a queue, and a pattern for one, is a sequence  *)
(* of characters; a routing key and a pattern for one is the sequence of   *)
(* words that strings.Split(_, ".") makes of it. The routing key "" is the *)
(* single empty word, Split never returns nothing; the pattern that is not *)
(* configured, "", is None and is never split. Event types are compared    *)
(* without regard to case, so they are given in lower case.                *)
(***************************************************************************)
EXTENDS Integers, Sequences

CONSTANT Cases  \* the filters and the traces to try, as pairs

None == <<>>

Value == Seq(STRING)

ASSUME FilterAssumption ==
    \A c \in Cases :
        /\ c[1] \in [exchange : Value, queue : Value, routingKey : Value, eventType : STRING]
        /\ c[2] \in [exchange : Value, eventType : STRING, routingKey : Value,
                     destinations : SUBSET Value, eventDestinations : SUBSET Value]
        /\ c[2].routingKey # None

VARIABLES
    matcher,  \* the fields of Matcher
    trace,    \* the trace to match
    passed    \* "unknown", or whether Match has returned true

vars == <<matcher, trace, passed>>

--------------------------------------------------------------------------------
\* Where a match may stand: before an element of the pattern and one of the value,
\* or behind the last.
Places(pattern, value) == (1..(Len(pattern) + 1)) \X (1..(Len(value) + 1))

\* Seeded fault: # stands for one word or more.
topicMatch_HashNeedsWord(pattern, key) ==
    LET m[at \in Places(pattern, key)] ==
          LET i == at[1]
              j == at[2]
          IN  IF i > Len(pattern) THEN j > Len(key)
              ELSE IF pattern[i] = "#" THEN \E n \in (j + 1)..(Len(key) + 1) : m[<<i + 1, n>>]
              ELSE /\ j <= Len(key)
                   /\ pattern[i] = "*" \/ pattern[i] = key[j]
                   /\ m[<<i + 1, j + 1>>]
    IN  m[<<1, 1>>]

\* m[<<i, j>>]: the pattern from its i-th word on matches the key from its j-th on.
topicMatch(pattern, key) ==
    LET m[at \in Places(pattern, key)] ==
          LET i == at[1]
              j == at[2]
          IN  IF i > Len(pattern) THEN j > Len(key)
              ELSE IF pattern[i] = "#"
                   THEN i = Len(pattern) \/ \E n \in j..(Len(key) + 1) : m[<<i + 1, n>>]
              ELSE /\ j <= Len(key)
                   /\ pattern[i] = "*" \/ pattern[i] = key[j]
                   /\ m[<<i + 1, j + 1>>]
    IN  m[<<1, 1>>]

matchTopicKey(pattern, key) == pattern = None \/ topicMatch(pattern, key)

\* path.Match on patterns of *, ? and plain characters: neither wildcard matches
\* "/". A "[" that opens no class makes the pattern malformed; the error is
\* ignored, and false taken for the answer.
WellFormed(pattern) == \A i \in 1..Len(pattern) : pattern[i] # "["

pathMatch(pattern, name) ==
    LET m[at \in Places(pattern, name)] ==
          LET i == at[1]
              j == at[2]
          IN  IF i > Len(pattern) THEN j > Len(name)
              ELSE IF pattern[i] = "*"
                   THEN \/ m[<<i + 1, j>>]
                        \/ j <= Len(name) /\ name[j] # "/" /\ m[<<i, j + 1>>]
              ELSE /\ j <= Len(name)
                   /\ pattern[i] = name[j] \/ (pattern[i] = "?" /\ name[j] # "/")
                   /\ m[<<i + 1, j + 1>>]
    IN  WellFormed(pattern) /\ m[<<1, 1>>]

matchGlob(pattern, name) == pattern = None \/ pathMatch(pattern, name)

\* The destinations of the trace, or else those of its event.
Destinations(t) == IF t.destinations = {} THEN t.eventDestinations ELSE t.destinations

Match(m, t) ==
    /\ matchGlob(m.exchange, t.exchange)
    /\ m.eventType \in {"", t.eventType}
    /\ matchTopicKey(m.routingKey, t.routingKey)
    /\ m.queue = None \/ \E d \in Destinations(t) : matchGlob(m.queue, d)

\* NewMatcher's trimming of the patterns, and of the event type to lower case, is left out.
Init ==
    /\ \E c \in Cases : matcher = c[1] /\ trace = c[2]
    /\ passed = "unknown"

Decide ==
    /\ passed = "unknown"
    /\ passed' = IF Match(matcher, trace) THEN "yes" ELSE "no"
    /\ UNCHANGED <<matcher, trace>>

Next == Decide

Spec == Init /\ [][Next]_vars

--------------------------------------------------------------------------------
(* What the patterns mean, without recursion: a way to cut the value into as *)
(* many consecutive pieces as the pattern has elements, each piece one that  *)
(* its element stands for.                                                  *)

Fits(pattern, value, Stands(_, _)) ==
    \E cut \in [0..Len(pattern) -> 0..Len(value)] :
        /\ cut[0] = 0 /\ cut[Len(pattern)] = Len(value)
        /\ \A i \in 1..Len(pattern) :
              cut[i - 1] <= cut[i]
              /\ Stands(pattern[i], SubSeq(value, cut[i - 1] + 1, cut[i]))

\* docs/filters.md: * is exactly one word, # is zero or more.
WordStands(p, piece) ==
    p = "#" \/ (Len(piece) = 1 /\ p \in {"*", piece[1]})

\* matcher.go:73: "* (any sequence), ? (any single char)", except for "/".
CharStands(p, piece) ==
    IF p = "*" THEN \A i \in 1..Len(piece) : piece[i] # "/"
    ELSE Len(piece) = 1 /\ (p = piece[1] \/ (p = "?" /\ piece[1] # "/"))

GlobMeans(pattern, name) ==
    pattern = None \/ (WellFormed(pattern) /\ Fits(pattern, name, CharStands))

KeyMeans(pattern, key) == pattern = None \/ Fits(pattern, key, WordStands)

\* A trace passes exactly if each filter that is configured accepts it: the
\* exchange, the type, the routing key under AMQP's topic rules however many #
\* there are, and for the queue at least one destination. Backtracking over the
\* ways to place a # neither misses a placement nor invents one.
PassesExactlyTheWanted ==
    passed # "unknown" =>
        (passed = "yes" <=>
            /\ GlobMeans(matcher.exchange, trace.exchange)
            /\ matcher.eventType = "" \/ matcher.eventType = trace.eventType
            /\ KeyMeans(matcher.routingKey, trace.routingKey)
            /\ matcher.queue = None
               \/ \E d \in Destinations(trace) : GlobMeans(matcher.queue, d))

================================================================================
