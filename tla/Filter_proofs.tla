------------------------------- MODULE Filter_proofs -------------------------------
(***************************************************************************)
(* Proofs about Filter: for every pattern and every value, the recursive   *)
(* matchers decide what the patterns mean.                                 *)
(*                                                                         *)
(* A matcher is a recursive function on Places. The ways to match from a   *)
(* place on obey the same recursion (WayStep), and it has one solution     *)
(* only, by induction on the distance from a place to the end.             *)
(***************************************************************************)
EXTENDS Filter, Lemmas

\* R holds <<h, a, b>> if the h-th element of a pattern stands for the piece of the
\* value that ends at b and begins behind a. There is a way to match the elements
\* from the i-th on with the value from its j-th on; N and L are the two lengths.
Way(R, N, L, i, j) ==
    \E cut \in [(i - 1)..N -> 0..L] :
        /\ cut[i - 1] = j - 1 /\ cut[N] = L
        /\ \A h \in i..N : <<h, cut[h - 1], cut[h]>> \in R

--------------------------------------------------------------------------------
(* Cutting a value *)

LEMMA WayEnd ==
    ASSUME NEW R, NEW N \in Nat, NEW L \in Nat, NEW j \in 1..(L + 1)
    PROVE  Way(R, N, L, N + 1, j) <=> j > L
<1>1. ASSUME Way(R, N, L, N + 1, j) PROVE j > L
    BY <1>1 DEF Way
<1>2. ASSUME j > L PROVE Way(R, N, L, N + 1, j)
  <2> DEFINE cut == [h \in N..N |-> L]
  <2>1. /\ cut \in [((N + 1) - 1)..N -> 0..L]
        /\ cut[(N + 1) - 1] = j - 1 /\ cut[N] = L
      BY <1>2
  <2>2. \A h \in (N + 1)..N : <<h, cut[h - 1], cut[h]>> \in R
      OBVIOUS
  <2> HIDE DEF cut
  <2> QED
      BY <2>1, <2>2 DEF Way
<1> QED
    BY <1>1, <1>2

\* The next element takes a piece, and the others match what is left.
FirstPiece(R, N, L, i, j) ==
    \E n \in 1..(L + 1) : <<i, j - 1, n - 1>> \in R /\ Way(R, N, L, i + 1, n)

LEMMA WayStep ==
    ASSUME NEW R, NEW N \in Nat, NEW L \in Nat, NEW i \in 1..N, NEW j \in 1..(L + 1)
    PROVE  Way(R, N, L, i, j) <=> FirstPiece(R, N, L, i, j)
<1>1. ASSUME Way(R, N, L, i, j)
      PROVE  \E n \in 1..(L + 1) : <<i, j - 1, n - 1>> \in R /\ Way(R, N, L, i + 1, n)
  <2>1. PICK cut \in [(i - 1)..N -> 0..L] :
            /\ cut[i - 1] = j - 1 /\ cut[N] = L
            /\ \A h \in i..N : <<h, cut[h - 1], cut[h]>> \in R
      BY <1>1 DEF Way
  <2> DEFINE rest == [h \in ((i + 1) - 1)..N |-> cut[h]]
             n == cut[i] + 1
  <2>2. n \in 1..(L + 1) /\ n - 1 = cut[i] /\ <<i, j - 1, n - 1>> \in R
      BY <2>1
  <2>3. /\ rest \in [((i + 1) - 1)..N -> 0..L]
        /\ rest[(i + 1) - 1] = n - 1 /\ rest[N] = L
      BY <2>1
  <2>4. \A h \in (i + 1)..N : <<h, rest[h - 1], rest[h]>> \in R
      BY <2>1
  <2> HIDE DEF rest, n
  <2>5. Way(R, N, L, i + 1, n)
      BY <2>3, <2>4 DEF Way
  <2> QED
      BY <2>2, <2>5
<1>2. ASSUME NEW n \in 1..(L + 1), <<i, j - 1, n - 1>> \in R, Way(R, N, L, i + 1, n)
      PROVE  Way(R, N, L, i, j)
  <2>1. PICK rest \in [((i + 1) - 1)..N -> 0..L] :
            /\ rest[(i + 1) - 1] = n - 1 /\ rest[N] = L
            /\ \A h \in (i + 1)..N : <<h, rest[h - 1], rest[h]>> \in R
      BY <1>2 DEF Way
  <2> DEFINE cut == [h \in (i - 1)..N |-> IF h = i - 1 THEN j - 1 ELSE rest[h]]
  <2>2. cut \in [(i - 1)..N -> 0..L] /\ cut[i - 1] = j - 1 /\ cut[N] = L
      BY <2>1
  <2>3. ASSUME NEW h \in i..N PROVE <<h, cut[h - 1], cut[h]>> \in R
    <3>1. CASE h = i
      <4>1. cut[h - 1] = j - 1 /\ cut[h] = n - 1
          BY <2>1, <3>1
      <4> QED
          BY <1>2, <3>1, <4>1
    <3>2. CASE h # i
      <4>1. h \in (i + 1)..N /\ cut[h - 1] = rest[h - 1] /\ cut[h] = rest[h]
          BY <3>2
      <4> QED
          BY <2>1, <4>1
    <3> QED
        BY <3>1, <3>2
  <2> HIDE DEF cut
  <2> QED
      BY <2>2, <2>3 DEF Way
<1> QED
    BY <1>1, <1>2, Zenon DEF FirstPiece

--------------------------------------------------------------------------------
(* Induction *)

\* How many steps a matcher can take from a place at most.
Distance(pattern, value, at) == (Len(pattern) + 1 - at[1]) + (Len(value) + 1 - at[2])

\* Two functions on places are equal if, wherever they agree on all places that are
\* closer to the end, they agree.
LEMMA ByDistance ==
    ASSUME NEW pattern \in Value, NEW value \in Value, NEW f, NEW g,
           \A at \in Places(pattern, value) :
               (\A z \in Places(pattern, value) :
                   Distance(pattern, value, z) < Distance(pattern, value, at) => f[z] = g[z])
               => f[at] = g[at]
    PROVE  \A at \in Places(pattern, value) : f[at] = g[at]
<1> DEFINE P == Places(pattern, value)
           D(z) == Distance(pattern, value, z)
           T == {n \in Nat : \E z \in P : D(z) = n /\ f[z] # g[z]}
<1>1. \A z \in P : D(z) \in Nat
  <2>1. Len(pattern) \in Nat /\ Len(value) \in Nat
      BY DEF Value
  <2> QED
      BY <2>1 DEF Places, Distance
<1>2. SUFFICES ASSUME T # {} PROVE FALSE
    BY <1>1
<1>3. PICK n \in T : \A y \in T : n <= y
    BY <1>2, Least
<1>4. PICK at \in P : D(at) = n /\ f[at] # g[at]
    BY <1>3
<1>5. ASSUME NEW z \in P, D(z) < D(at) PROVE f[z] = g[z]
    BY <1>1, <1>3, <1>4, <1>5
<1> QED
    BY <1>4, <1>5

--------------------------------------------------------------------------------
(* Topic patterns *)

WordCuts(pattern, key) ==
    {cut \in (1..Len(pattern)) \X (0..Len(key)) \X (0..Len(key)) :
        cut[2] <= cut[3] /\ WordStands(pattern[cut[1]], SubSeq(key, cut[2] + 1, cut[3]))}

\* What topicMatch says of a place, given what m says of the others.
TopicStep(pattern, key, m, at) ==
    LET i == at[1]
        j == at[2]
    IN  IF i > Len(pattern) THEN j > Len(key)
        ELSE IF pattern[i] = "#"
             THEN i = Len(pattern) \/ \E n \in j..(Len(key) + 1) : m[<<i + 1, n>>]
        ELSE /\ j <= Len(key)
             /\ pattern[i] = "*" \/ pattern[i] = key[j]
             /\ m[<<i + 1, j + 1>>]

Topic(pattern, key) ==
    [at \in Places(pattern, key) |->
        Way(WordCuts(pattern, key), Len(pattern), Len(key), at[1], at[2])]

\* The ways to match obey what topicMatch computes with.
LEMMA TopicSolves ==
    ASSUME NEW pattern \in Value, NEW key \in Value, NEW at \in Places(pattern, key)
    PROVE  Topic(pattern, key)[at] <=> TopicStep(pattern, key, Topic(pattern, key), at)
<1> DEFINE R == WordCuts(pattern, key)
           N == Len(pattern)
           L == Len(key)
           m == Topic(pattern, key)
           W(x, y) == Way(R, N, L, x, y)
<1>1. PICK i \in 1..(N + 1), j \in 1..(L + 1) : at = <<i, j>>
    BY DEF Places
<1>2. N \in Nat /\ L \in Nat
    BY DEF Value
<1>3. \A x \in 1..(N + 1), y \in 1..(L + 1) : m[<<x, y>>] <=> W(x, y)
    BY <1>2 DEF Topic, Places
<1>4. i <= N => \A n \in 1..(L + 1) :
          <<i, j - 1, n - 1>> \in R <=> j <= n /\ WordStands(pattern[i], SubSeq(key, j, n - 1))
  <2> SUFFICES ASSUME i <= N, NEW n \in 1..(L + 1)
               PROVE  <<i, j - 1, n - 1>> \in R <=>
                          j <= n /\ WordStands(pattern[i], SubSeq(key, j, n - 1))
      OBVIOUS
  <2>1. /\ i \in 1..N /\ j - 1 \in 0..L /\ n - 1 \in 0..L /\ (j - 1) + 1 = j
        /\ j - 1 <= n - 1 <=> j <= n
      BY <1>1, <1>2
  <2> HIDE DEF N, L
  <2>2. <<i, j - 1, n - 1>> \in R <=>
            j - 1 <= n - 1 /\ WordStands(pattern[i], SubSeq(key, (j - 1) + 1, n - 1))
      BY <2>1 DEF WordCuts, N, L
  <2> QED
      BY <2>1, <2>2, Zenon
<1>5. ASSUME i <= N
      PROVE  W(i, j) <=> \E n \in 1..(L + 1) : <<i, j - 1, n - 1>> \in R /\ W(i + 1, n)
  <2>1. i \in 1..N
      BY <1>1, <1>2, <1>5
  <2> HIDE DEF R, N, L
  <2>2. Way(R, N, L, i, j) <=> FirstPiece(R, N, L, i, j)
      BY ONLY <1>1, <1>2, <2>1, WayStep
  <2> QED
      BY <2>2, Zenon DEF FirstPiece
<1>6. \A y \in 1..(L + 1) : W(N + 1, y) <=> y > L
    BY <1>2, WayEnd
<1>7. m[at] <=> W(i, j)
    BY <1>1, <1>3
<1> HIDE DEF R, W, N, L, m
<1>8. CASE i > N
  <2>1. TopicStep(pattern, key, m, at) <=> j > L
      BY <1>1, <1>8 DEF TopicStep, N, L
  <2>2. i = N + 1
      BY <1>1, <1>2, <1>8
  <2> QED
      BY <1>1, <1>6, <1>7, <2>1, <2>2 DEF m
<1>9. CASE i <= N /\ pattern[i] = "#"
  <2>1. W(i, j) <=> \E n \in j..(L + 1) : W(i + 1, n)
    <3>1. \A n \in 1..(L + 1) : <<i, j - 1, n - 1>> \in R <=> j <= n
        BY <1>4, <1>9 DEF WordStands
    <3>2. \A n \in 1..(L + 1) : j <= n <=> n \in j..(L + 1)
        BY <1>1, <1>2
    <3>3. \A n \in j..(L + 1) : n \in 1..(L + 1)
        BY <1>1, <1>2
    <3> QED
        BY <1>5, <1>9, <3>1, <3>2, <3>3, Zenon
  <2>2. i = N => \E n \in j..(L + 1) : W(i + 1, n)
      BY <1>1, <1>2, <1>6
  <2>3. TopicStep(pattern, key, m, at) <=> i = N \/ \E n \in j..(L + 1) : m[<<i + 1, n>>]
    <3>1. at[1] = i /\ at[2] = j /\ ~(at[1] > Len(pattern)) /\ pattern[at[1]] = "#"
        BY <1>1, <1>2, <1>9 DEF N
    <3>2. TopicStep(pattern, key, m, at) <=>
              at[1] = N \/ \E n \in at[2]..(L + 1) : m[<<at[1] + 1, n>>]
        BY <3>1, Zenon DEF TopicStep, N, L
    <3> QED
        BY <3>1, <3>2, Zenon
  <2>4. \A n \in j..(L + 1) : m[<<i + 1, n>>] <=> W(i + 1, n)
      BY <1>1, <1>2, <1>3, <1>9
  <2> QED
      BY <1>7, <2>1, <2>2, <2>3, <2>4 DEF m
<1>10. CASE i <= N /\ pattern[i] # "#"
  <2>1. ASSUME NEW n \in 1..(L + 1)
        PROVE  <<i, j - 1, n - 1>> \in R <=>
                   n = j + 1 /\ (pattern[i] = "*" \/ pattern[i] = key[j])
    <3>1. j <= n => Len(SubSeq(key, j, n - 1)) = n - j
        BY <1>1, <1>2 DEF Value, L
    <3>2. j < n => SubSeq(key, j, n - 1)[1] = key[j]
        BY <1>1, <1>2 DEF Value, L
    <3> QED
        BY <1>1, <1>2, <1>4, <1>10, <3>1, <3>2 DEF WordStands
  <2>2. W(i, j) <=> \E n \in 1..(L + 1) : /\ n = j + 1
                                          /\ pattern[i] = "*" \/ pattern[i] = key[j]
                                          /\ W(i + 1, n)
      BY <1>5, <1>10, <2>1
  <2>3. W(i, j) <=> /\ j <= L
                    /\ pattern[i] = "*" \/ pattern[i] = key[j]
                    /\ W(i + 1, j + 1)
      BY <1>1, <1>2, <2>2
  <2>4. TopicStep(pattern, key, m, at) <=> /\ j <= L
                                           /\ pattern[i] = "*" \/ pattern[i] = key[j]
                                           /\ m[<<i + 1, j + 1>>]
      BY <1>1, <1>10 DEF TopicStep, N, L
  <2>5. j <= L => (m[<<i + 1, j + 1>>] <=> W(i + 1, j + 1))
      BY <1>1, <1>2, <1>3, <1>10
  <2> QED
      BY <1>7, <2>3, <2>4, <2>5 DEF m
<1> QED
    BY <1>1, <1>2, <1>8, <1>9, <1>10

TopicSolution(pattern, key, m) ==
    m = [at \in Places(pattern, key) |-> TopicStep(pattern, key, m, at)]

LEMMA TopicStepIsBoolean ==
    ASSUME NEW pattern, NEW key, NEW m, NEW at
    PROVE  TopicStep(pattern, key, m, at) \in BOOLEAN
<1> DEFINE i == at[1]
           j == at[2]
<1>1. CASE i > Len(pattern)
  <2>1. TopicStep(pattern, key, m, at) = (j > Len(key))
      BY <1>1 DEF TopicStep
  <2> QED
      BY <2>1
<1>2. CASE ~(i > Len(pattern)) /\ pattern[i] = "#"
  <2>1. TopicStep(pattern, key, m, at)
            = (i = Len(pattern) \/ \E n \in j..(Len(key) + 1) : m[<<i + 1, n>>])
      BY <1>2 DEF TopicStep
  <2> QED
      BY <2>1
<1>3. CASE ~(i > Len(pattern)) /\ pattern[i] # "#"
  <2>1. TopicStep(pattern, key, m, at)
            = (/\ j <= Len(key)
               /\ pattern[i] = "*" \/ pattern[i] = key[j]
               /\ m[<<i + 1, j + 1>>])
      BY <1>3 DEF TopicStep
  <2> QED
      BY <2>1
<1> QED
    BY <1>1, <1>2, <1>3

LEMMA TopicUnique ==
    ASSUME NEW pattern \in Value, NEW key \in Value, NEW f, NEW g,
           TopicSolution(pattern, key, f), TopicSolution(pattern, key, g)
    PROVE  f = g
<1>0. \A at \in Places(pattern, key) : /\ f[at] = TopicStep(pattern, key, f, at)
                                        /\ g[at] = TopicStep(pattern, key, g, at)
    BY DEF TopicSolution
<1>1. ASSUME NEW at \in Places(pattern, key),
             \A z \in Places(pattern, key) :
                 Distance(pattern, key, z) < Distance(pattern, key, at) => f[z] = g[z]
      PROVE  f[at] = g[at]
  <2> DEFINE N == Len(pattern)
             L == Len(key)
  <2>1. PICK i \in 1..(N + 1), j \in 1..(L + 1) : at = <<i, j>>
      BY DEF Places
  <2>2. N \in Nat /\ L \in Nat
      BY DEF Value
  <2>3. ASSUME NEW n \in j..(L + 1), i <= N PROVE f[<<i + 1, n>>] = g[<<i + 1, n>>]
    <3>1. <<i + 1, n>> \in Places(pattern, key)
        BY <2>1, <2>2, <2>3 DEF Places
    <3>2. Distance(pattern, key, <<i + 1, n>>) < Distance(pattern, key, at)
        BY <2>1, <2>2, <2>3 DEF Distance
    <3> QED
        BY <1>1, <3>1, <3>2
  <2>4. ASSUME NEW m
        PROVE  TopicStep(pattern, key, m, at) <=>
                   IF i > N THEN j > L
                   ELSE IF pattern[i] = "#"
                        THEN i = N \/ \E n \in j..(L + 1) : m[<<i + 1, n>>]
                   ELSE /\ j <= L
                        /\ pattern[i] = "*" \/ pattern[i] = key[j]
                        /\ m[<<i + 1, j + 1>>]
      BY <2>1 DEF TopicStep
  <2>5. i <= N /\ j <= L => f[<<i + 1, j + 1>>] = g[<<i + 1, j + 1>>]
      BY <2>1, <2>2, <2>3
  <2>6. i <= N => ((\E n \in j..(L + 1) : f[<<i + 1, n>>])
                        <=> \E n \in j..(L + 1) : g[<<i + 1, n>>])
      BY <2>3
  <2>7. TopicStep(pattern, key, f, at) <=> TopicStep(pattern, key, g, at)
      BY <2>1, <2>2, <2>4, <2>5, <2>6
  <2>8. TopicStep(pattern, key, f, at) = TopicStep(pattern, key, g, at)
      BY <2>7, TopicStepIsBoolean
  <2> QED
      BY <1>0, <2>8
<1>2. \A at \in Places(pattern, key) : f[at] = g[at]
    BY <1>1, ByDistance
<1> QED
    BY <1>2 DEF TopicSolution

LEMMA TopicComputed ==
    ASSUME NEW pattern \in Value, NEW key \in Value
    PROVE  topicMatch(pattern, key) <=>
               Way(WordCuts(pattern, key), Len(pattern), Len(key), 1, 1)
<1> DEFINE F == Topic(pattern, key)
           M == CHOOSE m : TopicSolution(pattern, key, m)
<1>1. TopicSolution(pattern, key, F)
  <2>1. \A at \in Places(pattern, key) : F[at] = TopicStep(pattern, key, F, at)
    <3> TAKE at \in Places(pattern, key)
    <3>1. F[at] <=> TopicStep(pattern, key, F, at)
        BY TopicSolves
    <3>2. F[at] \in BOOLEAN
      <4>1. F[at] = Way(WordCuts(pattern, key), Len(pattern), Len(key), at[1], at[2])
          BY DEF Topic
      <4>2. \A R, N, L, i, j : Way(R, N, L, i, j) \in BOOLEAN
          BY DEF Way
      <4> QED
          BY <4>1, <4>2
    <3>3. TopicStep(pattern, key, F, at) \in BOOLEAN
        BY TopicStepIsBoolean
    <3> QED
        BY <3>1, <3>2, <3>3
  <2>2. F = [at \in Places(pattern, key) |-> F[at]]
      BY DEF Topic
  <2> HIDE DEF F
  <2> QED
      BY <2>1, <2>2 DEF TopicSolution
<1>2. M = F
  <2> HIDE DEF F
  <2>1. TopicSolution(pattern, key, M)
      BY <1>1
  <2> HIDE DEF M
  <2> QED
      BY <1>1, <2>1, TopicUnique
<1>3. topicMatch(pattern, key) = M[<<1, 1>>]
    BY DEF topicMatch, TopicSolution, TopicStep
<1>4. <<1, 1>> \in Places(pattern, key)
    BY DEF Places, Value
<1>5. F[<<1, 1>>] <=> Way(WordCuts(pattern, key), Len(pattern), Len(key), 1, 1)
    BY <1>4 DEF Topic
<1> HIDE DEF F, M
<1> QED
    BY <1>2, <1>3, <1>5

\* topicMatch finds a way to cut the key into pieces that the words of the pattern
\* stand for exactly if there is one, for every pattern and every key: backtracking
\* over the places of the # misses none and invents none (matcher.go:92).
THEOREM TopicPatternsMean ==
    ASSUME NEW pattern \in Value, NEW key \in Value
    PROVE  matchTopicKey(pattern, key) <=> KeyMeans(pattern, key)
<1>1. Fits(pattern, key, WordStands)
        <=> Way(WordCuts(pattern, key), Len(pattern), Len(key), 1, 1)
  <2> DEFINE N == Len(pattern)
             L == Len(key)
  <2>1. N \in Nat /\ L \in Nat /\ 1 - 1 = 0
      BY DEF Value
  <2>2. ASSUME NEW cut \in [0..N -> 0..L], NEW h \in 1..N
        PROVE  <<h, cut[h - 1], cut[h]>> \in WordCuts(pattern, key) <=>
                   /\ cut[h - 1] <= cut[h]
                   /\ WordStands(pattern[h], SubSeq(key, cut[h - 1] + 1, cut[h]))
    <3>1. cut[h - 1] \in 0..L /\ cut[h] \in 0..L
        BY <2>1
    <3> QED
        BY <3>1 DEF WordCuts
  <2> QED
      BY <2>1, <2>2 DEF Fits, Way
<1> QED
    BY <1>1, TopicComputed DEF matchTopicKey, KeyMeans

--------------------------------------------------------------------------------
(* Glob patterns *)

CharCuts(pattern, name) ==
    {cut \in (1..Len(pattern)) \X (0..Len(name)) \X (0..Len(name)) :
        cut[2] <= cut[3] /\ CharStands(pattern[cut[1]], SubSeq(name, cut[2] + 1, cut[3]))}

\* What pathMatch says of a place, given what m says of the others.
GlobStep(pattern, name, m, at) ==
    LET i == at[1]
        j == at[2]
    IN  IF i > Len(pattern) THEN j > Len(name)
        ELSE IF pattern[i] = "*"
             THEN \/ m[<<i + 1, j>>]
                  \/ j <= Len(name) /\ name[j] # "/" /\ m[<<i, j + 1>>]
        ELSE /\ j <= Len(name)
             /\ pattern[i] = name[j] \/ (pattern[i] = "?" /\ name[j] # "/")
             /\ m[<<i + 1, j + 1>>]

Glob(pattern, name) ==
    [at \in Places(pattern, name) |->
        Way(CharCuts(pattern, name), Len(pattern), Len(name), at[1], at[2])]

GlobSolution(pattern, name, m) ==
    m = [at \in Places(pattern, name) |-> GlobStep(pattern, name, m, at)]

\* A piece that * or another element stands for, letter by letter.
LEMMA PieceStands ==
    ASSUME NEW name \in Value, NEW p, NEW j \in 1..(Len(name) + 1), NEW n \in 1..(Len(name) + 1)
    PROVE  /\ p = "*" /\ j <= n =>
                (CharStands(p, SubSeq(name, j, n - 1)) <=> \A x \in j..(n - 1) : name[x] # "/")
           /\ p # "*" /\ j <= n =>
                (CharStands(p, SubSeq(name, j, n - 1)) <=>
                    n = j + 1 /\ (p = name[j] \/ (p = "?" /\ name[j] # "/")))
<1> DEFINE piece == SubSeq(name, j, n - 1)
<1>1. Len(name) \in Nat
    BY DEF Value
<1>2. j <= n => Len(piece) = n - j /\ \A y \in 1..(n - j) : piece[y] = name[j + y - 1]
    BY <1>1 DEF Value
<1> HIDE DEF piece
<1>3. CASE p = "*"
  <2>1. CharStands(p, piece) <=> \A y \in 1..Len(piece) : piece[y] # "/"
      BY <1>3 DEF CharStands
  <2>2. ASSUME j <= n, \A y \in 1..(n - j) : piece[y] # "/", NEW x \in j..(n - 1)
        PROVE  name[x] # "/"
    <3>1. x - j + 1 \in 1..(n - j) /\ j + (x - j + 1) - 1 = x
        BY <2>2, <1>1
    <3> QED
        BY <1>2, <2>2, <3>1
  <2>3. ASSUME j <= n, \A x \in j..(n - 1) : name[x] # "/", NEW y \in 1..(n - j)
        PROVE  piece[y] # "/"
    <3>1. j + y - 1 \in j..(n - 1)
        BY <2>3, <1>1
    <3> QED
        BY <1>2, <2>3, <3>1
  <2>4. j <= n => (CharStands(p, piece) <=> \A x \in j..(n - 1) : name[x] # "/")
      BY <1>2, <2>1, <2>2, <2>3
  <2> QED
      BY <1>3, <2>4 DEF piece
<1>4. CASE p # "*"
  <2>1. CharStands(p, piece) <=>
            Len(piece) = 1 /\ (p = piece[1] \/ (p = "?" /\ piece[1] # "/"))
      BY <1>4 DEF CharStands
  <2>2. n = j + 1 => piece[1] = name[j]
    <3>1. n = j + 1 => 1 \in 1..(n - j) /\ j + 1 - 1 = j /\ j <= n
        BY <1>1
    <3> QED
        BY <1>2, <3>1
  <2>3. j <= n => (Len(piece) = 1 <=> n = j + 1)
    <3>1. n - j = 1 <=> n = j + 1
        BY <1>1
    <3> QED
        BY <1>2, <3>1
  <2>4. j <= n => (CharStands(p, piece) <=>
                      n = j + 1 /\ (p = name[j] \/ (p = "?" /\ name[j] # "/")))
      BY <2>1, <2>2, <2>3
  <2> QED
      BY <1>4, <2>4 DEF piece
<1> QED
    BY <1>3, <1>4

\* The ways to match obey what pathMatch computes with.
LEMMA GlobSolves ==
    ASSUME NEW pattern \in Value, NEW name \in Value, NEW at \in Places(pattern, name)
    PROVE  Glob(pattern, name)[at] <=> GlobStep(pattern, name, Glob(pattern, name), at)
<1> DEFINE R == CharCuts(pattern, name)
           N == Len(pattern)
           L == Len(name)
           m == Glob(pattern, name)
           W(x, y) == Way(R, N, L, x, y)
<1>1. PICK i \in 1..(N + 1), j \in 1..(L + 1) : at = <<i, j>>
    BY DEF Places
<1>2. N \in Nat /\ L \in Nat
    BY DEF Value
<1>3. \A x \in 1..(N + 1), y \in 1..(L + 1) : m[<<x, y>>] <=> W(x, y)
    BY <1>2 DEF Glob, Places
<1>4. i <= N => \A y \in 1..(L + 1), n \in 1..(L + 1) :
          <<i, y - 1, n - 1>> \in R <=> y <= n /\ CharStands(pattern[i], SubSeq(name, y, n - 1))
  <2> SUFFICES ASSUME i <= N, NEW y \in 1..(L + 1), NEW n \in 1..(L + 1)
               PROVE  <<i, y - 1, n - 1>> \in R <=>
                          y <= n /\ CharStands(pattern[i], SubSeq(name, y, n - 1))
      OBVIOUS
  <2>1. /\ i \in 1..N /\ y - 1 \in 0..L /\ n - 1 \in 0..L /\ (y - 1) + 1 = y
        /\ y - 1 <= n - 1 <=> y <= n
      BY <1>1, <1>2
  <2> HIDE DEF N, L
  <2>2. <<i, y - 1, n - 1>> \in R <=>
            y - 1 <= n - 1 /\ CharStands(pattern[i], SubSeq(name, (y - 1) + 1, n - 1))
      BY <2>1 DEF CharCuts, N, L
  <2> QED
      BY <2>1, <2>2, Zenon
<1>5. ASSUME i <= N, NEW y \in 1..(L + 1)
      PROVE  W(i, y) <=> \E n \in 1..(L + 1) : <<i, y - 1, n - 1>> \in R /\ W(i + 1, n)
  <2>1. i \in 1..N
      BY <1>1, <1>2, <1>5
  <2> HIDE DEF R, N, L
  <2>2. Way(R, N, L, i, y) <=> FirstPiece(R, N, L, i, y)
      BY ONLY <1>2, <1>5, <2>1, WayStep
  <2> QED
      BY <2>2, Zenon DEF FirstPiece
<1>6. \A y \in 1..(L + 1) : W(N + 1, y) <=> y > L
    BY <1>2, WayEnd
<1>7. m[at] <=> W(i, j)
    BY <1>1, <1>3
<1>8. /\ pattern[i] = "*" => \A y \in 1..(L + 1), n \in 1..(L + 1) : y <= n =>
            (CharStands(pattern[i], SubSeq(name, y, n - 1)) <=> \A x \in y..(n - 1) : name[x] # "/")
      /\ pattern[i] # "*" => \A y \in 1..(L + 1), n \in 1..(L + 1) : y <= n =>
            (CharStands(pattern[i], SubSeq(name, y, n - 1)) <=>
                n = y + 1 /\ (pattern[i] = name[y] \/ (pattern[i] = "?" /\ name[y] # "/")))
    BY PieceStands
<1> HIDE DEF R, W, N, L, m
<1>9. CASE i > N
  <2>1. GlobStep(pattern, name, m, at) <=> j > L
      BY <1>1, <1>9 DEF GlobStep, N, L
  <2>2. i = N + 1
      BY <1>1, <1>2, <1>9
  <2> QED
      BY <1>1, <1>6, <1>7, <2>1, <2>2 DEF m
<1>10. CASE i <= N /\ pattern[i] = "*"
  <2>1. ASSUME NEW y \in 1..(L + 1)
        PROVE  W(i, y) <=> \E n \in 1..(L + 1) : /\ y <= n
                                                 /\ \A x \in y..(n - 1) : name[x] # "/"
                                                 /\ W(i + 1, n)
    <3>1. ASSUME NEW n \in 1..(L + 1)
          PROVE  <<i, y - 1, n - 1>> \in R <=> y <= n /\ \A x \in y..(n - 1) : name[x] # "/"
        BY <1>4, <1>8, <1>10, <2>1, <3>1
    <3> QED
        BY <1>5, <1>10, <2>1, <3>1
  <2>2. ASSUME W(i, j), ~W(i + 1, j)
        PROVE  j <= L /\ name[j] # "/" /\ W(i, j + 1)
    <3>1. PICK n \in 1..(L + 1) : /\ j <= n
                                  /\ \A x \in j..(n - 1) : name[x] # "/"
                                  /\ W(i + 1, n)
        BY <1>1, <2>1, <2>2
    <3>2. j # n
        BY <2>2, <3>1
    <3>3. /\ j + 1 \in 1..(L + 1) /\ j + 1 <= n /\ j <= L /\ j \in j..(n - 1)
          /\ \A x \in (j + 1)..(n - 1) : x \in j..(n - 1)
        BY <1>1, <1>2, <3>1, <3>2
    <3> QED
        BY <2>1, <3>1, <3>3
  <2>3. ASSUME W(i + 1, j) PROVE W(i, j)
    <3>1. \A x \in j..(j - 1) : name[x] # "/"
        BY <1>1, <1>2
    <3>2. j <= j
        BY <1>1
    <3> QED
        BY <1>1, <2>1, <2>3, <3>1, <3>2
  <2>4. ASSUME j <= L, name[j] # "/", W(i, j + 1) PROVE W(i, j)
    <3>1. j + 1 \in 1..(L + 1)
        BY <1>1, <1>2, <2>4
    <3>2. PICK n \in 1..(L + 1) : /\ j + 1 <= n
                                  /\ \A x \in (j + 1)..(n - 1) : name[x] # "/"
                                  /\ W(i + 1, n)
        BY <2>1, <2>4, <3>1
    <3>3. j <= n /\ \A x \in j..(n - 1) : x = j \/ x \in (j + 1)..(n - 1)
        BY <1>1, <1>2, <3>2
    <3> QED
        BY <1>1, <2>1, <2>4, <3>2, <3>3
  <2>5. GlobStep(pattern, name, m, at) <=>
            m[<<i + 1, j>>] \/ (j <= L /\ name[j] # "/" /\ m[<<i, j + 1>>])
      BY <1>1, <1>10 DEF GlobStep, N, L
  <2>6. /\ m[<<i + 1, j>>] <=> W(i + 1, j)
        /\ j <= L => (m[<<i, j + 1>>] <=> W(i, j + 1))
      BY <1>1, <1>2, <1>3, <1>10
  <2> QED
      BY <1>7, <2>2, <2>3, <2>4, <2>5, <2>6 DEF m
<1>11. CASE i <= N /\ pattern[i] # "*"
  <2> DEFINE fits == pattern[i] = name[j] \/ (pattern[i] = "?" /\ name[j] # "/")
  <2>1. ASSUME NEW n \in 1..(L + 1)
        PROVE  <<i, j - 1, n - 1>> \in R <=> n = j + 1 /\ fits
    <3>1. n = j + 1 => j <= n
        BY <1>1
    <3> QED
        BY <1>1, <1>4, <1>8, <1>11, <2>1, <3>1
  <2> HIDE DEF fits
  <2>2. W(i, j) <=> \E n \in 1..(L + 1) : n = j + 1 /\ fits /\ W(i + 1, n)
      BY <1>1, <1>5, <1>11, <2>1
  <2>3. W(i, j) <=> j <= L /\ fits /\ W(i + 1, j + 1)
      BY <1>1, <1>2, <2>2
  <2>4. GlobStep(pattern, name, m, at) <=> j <= L /\ fits /\ m[<<i + 1, j + 1>>]
      BY <1>1, <1>11 DEF GlobStep, N, L, fits
  <2>5. j <= L => (m[<<i + 1, j + 1>>] <=> W(i + 1, j + 1))
      BY <1>1, <1>2, <1>3, <1>11
  <2> QED
      BY <1>7, <2>3, <2>4, <2>5 DEF m
<1> QED
    BY <1>1, <1>2, <1>9, <1>10, <1>11

LEMMA GlobStepIsBoolean ==
    ASSUME NEW pattern, NEW name, NEW m, NEW at
    PROVE  GlobStep(pattern, name, m, at) \in BOOLEAN
<1> DEFINE i == at[1]
           j == at[2]
<1>1. CASE i > Len(pattern)
  <2>1. GlobStep(pattern, name, m, at) = (j > Len(name))
      BY <1>1 DEF GlobStep
  <2> QED
      BY <2>1
<1>2. CASE ~(i > Len(pattern)) /\ pattern[i] = "*"
  <2>1. GlobStep(pattern, name, m, at)
            = (m[<<i + 1, j>>] \/ (j <= Len(name) /\ name[j] # "/" /\ m[<<i, j + 1>>]))
      BY <1>2 DEF GlobStep
  <2> QED
      BY <2>1
<1>3. CASE ~(i > Len(pattern)) /\ pattern[i] # "*"
  <2>1. GlobStep(pattern, name, m, at)
            = (/\ j <= Len(name)
               /\ pattern[i] = name[j] \/ (pattern[i] = "?" /\ name[j] # "/")
               /\ m[<<i + 1, j + 1>>])
      BY <1>3 DEF GlobStep
  <2> QED
      BY <2>1
<1> QED
    BY <1>1, <1>2, <1>3

LEMMA GlobUnique ==
    ASSUME NEW pattern \in Value, NEW name \in Value, NEW f, NEW g,
           GlobSolution(pattern, name, f), GlobSolution(pattern, name, g)
    PROVE  f = g
<1>0. \A at \in Places(pattern, name) : /\ f[at] = GlobStep(pattern, name, f, at)
                                         /\ g[at] = GlobStep(pattern, name, g, at)
    BY DEF GlobSolution
<1>1. ASSUME NEW at \in Places(pattern, name),
             \A z \in Places(pattern, name) :
                 Distance(pattern, name, z) < Distance(pattern, name, at) => f[z] = g[z]
      PROVE  f[at] = g[at]
  <2> DEFINE N == Len(pattern)
             L == Len(name)
  <2>1. PICK i \in 1..(N + 1), j \in 1..(L + 1) : at = <<i, j>>
      BY DEF Places
  <2>2. N \in Nat /\ L \in Nat
      BY DEF Value
  <2>3. ASSUME NEW x \in i..(N + 1), NEW y \in j..(L + 1), x > i \/ y > j
        PROVE  f[<<x, y>>] = g[<<x, y>>]
    <3>1. <<x, y>> \in Places(pattern, name)
        BY <2>1, <2>2 DEF Places
    <3>2. Distance(pattern, name, <<x, y>>) < Distance(pattern, name, at)
        BY <2>1, <2>2, <2>3 DEF Distance
    <3> QED
        BY <1>1, <3>1, <3>2
  <2>4. ASSUME NEW m
        PROVE  GlobStep(pattern, name, m, at) <=>
                   IF i > N THEN j > L
                   ELSE IF pattern[i] = "*"
                        THEN \/ m[<<i + 1, j>>]
                             \/ j <= L /\ name[j] # "/" /\ m[<<i, j + 1>>]
                   ELSE /\ j <= L
                        /\ pattern[i] = name[j] \/ (pattern[i] = "?" /\ name[j] # "/")
                        /\ m[<<i + 1, j + 1>>]
      BY <2>1 DEF GlobStep
  <2>5. /\ i <= N => f[<<i + 1, j>>] = g[<<i + 1, j>>]
        /\ j <= L => f[<<i, j + 1>>] = g[<<i, j + 1>>]
        /\ i <= N /\ j <= L => f[<<i + 1, j + 1>>] = g[<<i + 1, j + 1>>]
      BY <2>1, <2>2, <2>3
  <2>6. GlobStep(pattern, name, f, at) <=> GlobStep(pattern, name, g, at)
      BY <2>1, <2>2, <2>4, <2>5
  <2>7. GlobStep(pattern, name, f, at) = GlobStep(pattern, name, g, at)
      BY <2>6, GlobStepIsBoolean
  <2> QED
      BY <1>0, <2>7
<1>2. \A at \in Places(pattern, name) : f[at] = g[at]
    BY <1>1, ByDistance
<1> QED
    BY <1>2 DEF GlobSolution

LEMMA GlobComputed ==
    ASSUME NEW pattern \in Value, NEW name \in Value
    PROVE  pathMatch(pattern, name) <=>
               /\ WellFormed(pattern)
               /\ Way(CharCuts(pattern, name), Len(pattern), Len(name), 1, 1)
<1> DEFINE F == Glob(pattern, name)
           M == CHOOSE m : GlobSolution(pattern, name, m)
<1>1. GlobSolution(pattern, name, F)
  <2>1. \A at \in Places(pattern, name) : F[at] = GlobStep(pattern, name, F, at)
    <3> TAKE at \in Places(pattern, name)
    <3>1. F[at] <=> GlobStep(pattern, name, F, at)
        BY GlobSolves
    <3>2. F[at] \in BOOLEAN
      <4>1. F[at] = Way(CharCuts(pattern, name), Len(pattern), Len(name), at[1], at[2])
          BY DEF Glob
      <4>2. \A R, N, L, i, j : Way(R, N, L, i, j) \in BOOLEAN
          BY DEF Way
      <4> QED
          BY <4>1, <4>2
    <3>3. GlobStep(pattern, name, F, at) \in BOOLEAN
        BY GlobStepIsBoolean
    <3> QED
        BY <3>1, <3>2, <3>3
  <2>2. F = [at \in Places(pattern, name) |-> F[at]]
      BY DEF Glob
  <2> HIDE DEF F
  <2> QED
      BY <2>1, <2>2 DEF GlobSolution
<1>2. M = F
  <2> HIDE DEF F
  <2>1. GlobSolution(pattern, name, M)
      BY <1>1
  <2> HIDE DEF M
  <2> QED
      BY <1>1, <2>1, GlobUnique
<1>3. pathMatch(pattern, name) <=> WellFormed(pattern) /\ M[<<1, 1>>]
    BY DEF pathMatch, GlobSolution, GlobStep
<1>4. <<1, 1>> \in Places(pattern, name)
    BY DEF Places, Value
<1>5. F[<<1, 1>>] <=> Way(CharCuts(pattern, name), Len(pattern), Len(name), 1, 1)
    BY <1>4 DEF Glob
<1> HIDE DEF F, M
<1> QED
    BY <1>2, <1>3, <1>5

\* matchGlob says yes exactly if the pattern is well formed and its * and ? can be
\* given pieces without a slash so that the name comes out (matcher.go:73), for every
\* pattern of *, ? and plain characters and every name.
THEOREM GlobPatternsMean ==
    ASSUME NEW pattern \in Value, NEW name \in Value
    PROVE  matchGlob(pattern, name) <=> GlobMeans(pattern, name)
<1>1. Fits(pattern, name, CharStands)
        <=> Way(CharCuts(pattern, name), Len(pattern), Len(name), 1, 1)
  <2> DEFINE N == Len(pattern)
             L == Len(name)
  <2>1. N \in Nat /\ L \in Nat /\ 1 - 1 = 0
      BY DEF Value
  <2>2. ASSUME NEW cut \in [0..N -> 0..L], NEW h \in 1..N
        PROVE  <<h, cut[h - 1], cut[h]>> \in CharCuts(pattern, name) <=>
                   /\ cut[h - 1] <= cut[h]
                   /\ CharStands(pattern[h], SubSeq(name, cut[h - 1] + 1, cut[h]))
    <3>1. cut[h - 1] \in 0..L /\ cut[h] \in 0..L
        BY <2>1
    <3> QED
        BY <3>1 DEF CharCuts
  <2> QED
      BY <2>1, <2>2 DEF Fits, Way
<1> QED
    BY <1>1, GlobComputed DEF matchGlob, GlobMeans

--------------------------------------------------------------------------------
(* The filter *)

Inv ==
    /\ matcher \in [exchange : Value, queue : Value, routingKey : Value, eventType : STRING]
    /\ trace \in [exchange : Value, eventType : STRING, routingKey : Value,
                  destinations : SUBSET Value, eventDestinations : SUBSET Value]
    /\ passed \in {"unknown", "yes", "no"}
    /\ PassesExactlyTheWanted

\* A trace passes exactly if each of the four filters that is configured accepts it,
\* whatever the patterns and the traces (matcher.go:36).
THEOREM PassesTheWanted == Spec => []PassesExactlyTheWanted
<1>1. Init => Inv
    BY FilterAssumption DEF Init, Inv, PassesExactlyTheWanted
<1>2. Inv /\ [Next]_vars => Inv'
  <2> SUFFICES ASSUME Inv, [Next]_vars PROVE Inv'
      OBVIOUS
  <2>1. CASE Decide
    <3>1. \A d \in Destinations(trace) : d \in Value
        BY DEF Inv, Destinations
    <3>2. /\ matchGlob(matcher.exchange, trace.exchange)
                <=> GlobMeans(matcher.exchange, trace.exchange)
          /\ matchTopicKey(matcher.routingKey, trace.routingKey)
                <=> KeyMeans(matcher.routingKey, trace.routingKey)
          /\ \A d \in Destinations(trace) :
                matchGlob(matcher.queue, d) <=> GlobMeans(matcher.queue, d)
        BY <3>1, GlobPatternsMean, TopicPatternsMean DEF Inv
    <3>3. UNCHANGED <<matcher, trace>> /\ passed' = IF Match(matcher, trace) THEN "yes" ELSE "no"
        BY <2>1 DEF Decide
    <3>4. Match(matcher, trace) <=>
            /\ GlobMeans(matcher.exchange, trace.exchange)
            /\ matcher.eventType = "" \/ matcher.eventType = trace.eventType
            /\ KeyMeans(matcher.routingKey, trace.routingKey)
            /\ matcher.queue = None
               \/ \E d \in Destinations(trace) : GlobMeans(matcher.queue, d)
        BY <3>2 DEF Match
    <3>5. PassesExactlyTheWanted'
        BY <3>3, <3>4 DEF PassesExactlyTheWanted
    <3> QED
        BY <3>3, <3>5 DEF Inv
  <2>2. CASE UNCHANGED vars
      BY <2>2 DEF vars, Inv, PassesExactlyTheWanted
  <2> QED
      BY <2>1, <2>2 DEF Next
<1>3. Inv => PassesExactlyTheWanted
    BY DEF Inv
<1> QED
    BY <1>1, <1>2, <1>3, PTL DEF Spec

================================================================================
