---------------------------------- MODULE Lemmas ----------------------------------
(***************************************************************************)
(* Lemmas that the proofs about several modules share: the least and the   *)
(* greatest member of a set of numbers, on which inductions rest; the      *)
(* order in which Sorted puts a set; trimming; and sequences in a row.     *)
(***************************************************************************)
EXTENDS Text, FiniteSetTheorems, FunctionTheorems, SequenceTheorems, WellFoundedInduction,
        TLAPS

\* A set of natural numbers that is not empty has a least member.
LEMMA Least ==
    ASSUME NEW T \in SUBSET Nat, T # {}
    PROVE  \E x \in T : \A y \in T : x <= y
<1> DEFINE R == {z \in Nat \X Nat : z[1] < z[2]}
<1>1. IsWellFoundedOn(R, Nat)
    BY NatLessThanWellFounded DEF OpToRel
<1>2. \E x \in T : \A y \in T : ~(<<y, x>> \in R)
    BY <1>1, WFMin
<1>3. PICK x \in T : \A y \in T : ~(<<y, x>> \in R)
    BY <1>2
<1>4. ASSUME NEW y \in T PROVE x <= y
  <2>1. x \in Nat /\ y \in Nat /\ ~(<<y, x>> \in R)
      BY <1>3
  <2> QED
      BY <2>1
<1> HIDE DEF R
<1> QED
    BY <1>4

\* A set of natural numbers up to a bound that is not empty has a greatest member.
LEMMA Greatest ==
    ASSUME NEW n \in Nat, NEW T \in SUBSET (0..n), T # {}
    PROVE  \E x \in T : \A y \in T : y <= x
<1> DEFINE D == {d \in Nat : n - d \in T}
<1>1. PICK t \in T : TRUE
    OBVIOUS
<1>2. n - t \in D
    BY <1>1
<1>3. PICK d \in D : \A e \in D : d <= e
    BY <1>2, Least
<1>4. ASSUME NEW y \in T PROVE y <= n - d
  <2>1. n - y \in D
      OBVIOUS
  <2>2. d <= n - y
      BY <1>3, <2>1
  <2> QED
      BY <2>2
<1> QED
    BY <1>3, <1>4


\* A function on the first n numbers is a sequence.
LEMMA SeqIs ==
    ASSUME NEW V, NEW n \in Nat, NEW f, f = [i \in DOMAIN f |-> f[i]],
           DOMAIN f = 1..n, \A i \in 1..n : f[i] \in V
    PROVE  f \in Seq(V) /\ Len(f) = n
<1>1. f \in [1..n -> V]
    OBVIOUS
<1> QED
    BY <1>1

\* A list with an element put before it.
LEMMA Prepended ==
    ASSUME NEW x, NEW n \in Nat, NEW list, list = [i \in DOMAIN list |-> list[i]],
           DOMAIN list = 1..n
    PROVE  /\ Len(<<x>> \o list) = n + 1 /\ DOMAIN (<<x>> \o list) = 1..(n + 1)
           /\ (<<x>> \o list)[1] = x
           /\ \A i \in 1..n : (<<x>> \o list)[i + 1] = list[i]
<1> DEFINE V == {x} \cup {list[i] : i \in 1..n}
<1>1. <<x>> \in Seq(V) /\ Len(<<x>>) = 1 /\ <<x>>[1] = x
    OBVIOUS
<1>2. \A i \in 1..n : list[i] \in V
    OBVIOUS
<1> HIDE DEF V
<1>3. list \in Seq(V) /\ Len(list) = n
    BY <1>2, SeqIs
<1> QED
    BY <1>1, <1>3

LEMMA SameElements ==
    ASSUME NEW V, NEW s \in Seq(V), NEW t \in Seq(V), Len(s) = Len(t),
           \A i \in 1..Len(s) : s[i] = t[i]
    PROVE  s = t
<1>1. s \in [1..Len(s) -> V] /\ t \in [1..Len(s) -> V]
    OBVIOUS
<1> QED
    BY <1>1

--------------------------------------------------------------------------------
(* Order *)

Below(R, S, x) == {y \in S : <<y, x>> \in R}

InOrder(R, S) ==
    [k \in 1..Cardinality(S) |-> CHOOSE x \in S : Cardinality(Below(R, S, x)) = k - 1]

IsStrictOrder(R, S) ==
    /\ \A x \in S : <<x, x>> \notin R
    /\ \A x, y, z \in S : <<x, y>> \in R /\ <<y, z>> \in R => <<x, z>> \in R
    /\ \A x, y \in S : x # y => <<x, y>> \in R \/ <<y, x>> \in R

\* A finite set, strictly ordered, is a sequence without repetitions in that order.
LEMMA OrderEnumerates ==
    ASSUME NEW S, IsFiniteSet(S), NEW R, IsStrictOrder(R, S)
    PROVE  /\ Cardinality(S) \in Nat
           /\ InOrder(R, S) \in [1..Cardinality(S) -> S]
           /\ \A k, l \in 1..Cardinality(S) :
                 k < l => <<InOrder(R, S)[k], InOrder(R, S)[l]>> \in R
           /\ \A x \in S : \E k \in 1..Cardinality(S) : InOrder(R, S)[k] = x
<1> DEFINE n == Cardinality(S)
           rank == [x \in S |-> Cardinality(Below(R, S, x))]
           s == InOrder(R, S)
<1>1. n \in Nat
    BY FS_CardinalityType
<1>2. ASSUME NEW x \in S
      PROVE  /\ IsFiniteSet(Below(R, S, x)) /\ x \notin Below(R, S, x)
             /\ Cardinality(Below(R, S, x)) \in 0..(n - 1)
  <2>1. x \notin Below(R, S, x)
      BY DEF Below, IsStrictOrder
  <2>2. Below(R, S, x) \in SUBSET (S \ {x})
      BY <2>1 DEF Below
  <2>3. IsFiniteSet(S \ {x}) /\ Cardinality(S \ {x}) = n - 1
      BY FS_RemoveElement
  <2>4. IsFiniteSet(Below(R, S, x)) /\ Cardinality(Below(R, S, x)) <= n - 1
      BY <2>2, <2>3, FS_Subset
  <2>5. Cardinality(Below(R, S, x)) \in Nat
      BY <2>4, FS_CardinalityType
  <2> QED
      BY <1>1, <2>1, <2>4, <2>5
<1>3. ASSUME NEW x \in S, NEW y \in S, <<x, y>> \in R
      PROVE  rank[x] < rank[y]
  <2>1. Below(R, S, x) \cup {x} \in SUBSET Below(R, S, y)
      BY <1>3 DEF Below, IsStrictOrder
  <2>2. Cardinality(Below(R, S, x) \cup {x}) = Cardinality(Below(R, S, x)) + 1
      BY <1>2, FS_AddElement
  <2>3. Cardinality(Below(R, S, x) \cup {x}) <= Cardinality(Below(R, S, y))
      BY <1>2, <2>1, FS_Subset
  <2>4. Cardinality(Below(R, S, x)) \in 0..(n - 1) /\ Cardinality(Below(R, S, y)) \in 0..(n - 1)
      BY <1>2
  <2> QED
      BY <1>1, <2>2, <2>3, <2>4
<1>4. rank \in [S -> 0..(n - 1)]
    BY <1>2
<1> HIDE DEF rank
<1>5. ASSUME NEW x \in S, NEW y \in S, rank[x] < rank[y]
      PROVE  <<x, y>> \in R
  <2>1. rank[x] \in Int /\ rank[y] \in Int
      BY <1>1, <1>4
  <2>2. x # y /\ ~(<<y, x>> \in R)
      BY <1>3, <1>5, <2>1
  <2> QED
      BY <2>2 DEF IsStrictOrder
<1>6. ASSUME NEW x \in S, NEW y \in S, rank[x] = rank[y]
      PROVE  x = y
  <2>1. rank[x] \in Int /\ rank[y] \in Int
      BY <1>1, <1>4
  <2>2. ~(<<x, y>> \in R) /\ ~(<<y, x>> \in R)
      BY <1>3, <1>6, <2>1
  <2> QED
      BY <2>2 DEF IsStrictOrder
<1>7. rank \in Surjection(S, 0..(n - 1))
  <2>1. rank \in Injection(S, 0..(n - 1))
      BY <1>4, <1>6, Fun_IsInj
  <2>2. IsFiniteSet(0..(n - 1)) /\ Cardinality(0..(n - 1)) = n
    <3> DEFINE last == n - 1
    <3>1. 0 \in Int /\ last \in Int /\ (0 > last => n = 0) /\ last - 0 + 1 = n
        BY <1>1
    <3> HIDE DEF last
    <3>2. /\ IsFiniteSet(0..last)
          /\ Cardinality(0..last) = IF 0 > last THEN 0 ELSE last - 0 + 1
        BY Zenon, <3>1, FS_Interval
    <3>3. IsFiniteSet(0..last) /\ Cardinality(0..last) = n
        BY <3>1, <3>2
    <3> QED
        BY <3>3 DEF last
  <2> QED
      BY <2>1, <2>2, FS_Injection
<1>8. ASSUME NEW k \in 1..n
      PROVE  s[k] \in S /\ rank[s[k]] = k - 1
  <2>1. k - 1 \in 0..(n - 1)
      BY <1>1
  <2>2. PICK x \in S : rank[x] = k - 1
      BY <1>7, <2>1 DEF Surjection
  <2>3. \A y \in S : rank[y] = Cardinality(Below(R, S, y))
      BY DEF rank
  <2>4. s[k] = CHOOSE y \in S : Cardinality(Below(R, S, y)) = k - 1
      BY DEF InOrder
  <2> QED
      BY <2>2, <2>3, <2>4
<1>9. s \in [1..n -> S]
    BY <1>8 DEF InOrder
<1>10. ASSUME NEW k \in 1..n, NEW l \in 1..n, k < l
       PROVE  <<s[k], s[l]>> \in R
  <2>1. rank[s[k]] < rank[s[l]]
      BY <1>1, <1>8, <1>10
  <2> QED
      BY <1>5, <1>8, <2>1
<1>11. ASSUME NEW x \in S
       PROVE  \E k \in 1..n : s[k] = x
  <2>1. rank[x] \in 0..(n - 1)
      BY <1>4
  <2>2. rank[x] + 1 \in 1..n /\ (rank[x] + 1) - 1 = rank[x]
      BY <1>1, <2>1
  <2>3. s[rank[x] + 1] = x
      BY <1>6, <1>8, <2>2
  <2> QED
      BY <2>2, <2>3
<1> QED
    BY <1>1, <1>9, <1>10, <1>11

\* The places of a sequence in a set, from the first to the last.
LEMMA AscendingEnumerates ==
    ASSUME NEW S \in SUBSET Nat, IsFiniteSet(S)
    PROVE  /\ Cardinality(S) \in Nat
           /\ Ascending(S) \in [1..Cardinality(S) -> S]
           /\ \A k, l \in 1..Cardinality(S) : k < l => Ascending(S)[k] < Ascending(S)[l]
           /\ \A x \in S : \E k \in 1..Cardinality(S) : Ascending(S)[k] = x
<1> DEFINE R == {p \in S \X S : p[1] < p[2]}
<1>1. \A x, y \in S : <<x, y>> \in R <=> x < y
    OBVIOUS
<1>2. IsStrictOrder(R, S)
    BY <1>1 DEF IsStrictOrder
<1>3. \A x \in S : Below(R, S, x) = {y \in S : y < x}
    BY <1>1 DEF Below
<1> HIDE DEF R
<1>4. Ascending(S) = InOrder(R, S)
  <2>1. Ascending(S) = [k \in 1..Cardinality(S) |->
                          CHOOSE x \in S : Cardinality({y \in S : y < x}) = k - 1]
      BY Zenon DEF Ascending, Sorted
  <2>2. InOrder(R, S) = [k \in 1..Cardinality(S) |->
                          CHOOSE x \in S : Cardinality(Below(R, S, x)) = k - 1]
      BY Zenon DEF InOrder
  <2>3. ASSUME NEW k \in 1..Cardinality(S)
        PROVE  (CHOOSE x \in S : Cardinality({y \in S : y < x}) = k - 1)
                  = CHOOSE x \in S : Cardinality(Below(R, S, x)) = k - 1
      BY <1>3
  <2> QED
      BY Zenon, <2>1, <2>2, <2>3
<1>5. /\ Cardinality(S) \in Nat
      /\ InOrder(R, S) \in [1..Cardinality(S) -> S]
      /\ \A k, l \in 1..Cardinality(S) :
            k < l => <<InOrder(R, S)[k], InOrder(R, S)[l]>> \in R
      /\ \A x \in S : \E k \in 1..Cardinality(S) : InOrder(R, S)[k] = x
    BY <1>2, OrderEnumerates
<1> QED
    BY <1>1, <1>4, <1>5

\* The k-th of the elements taken is the one at the k-th of the places.
Selects(taken, V, seq, places, at) ==
    /\ taken \in Seq(V)
    /\ Cardinality(places) \in Nat
    /\ DOMAIN taken = 1..Cardinality(places)
    /\ at \in [1..Cardinality(places) -> places]
    /\ \A k \in 1..Cardinality(places) : taken[k] = seq[at[k]]
    /\ \A k, l \in 1..Cardinality(places) : k < l => at[k] < at[l]
    /\ \A i \in places : \E k \in 1..Cardinality(places) : at[k] = i

\* Elements takes the elements at the given places, each once, and in their order.
LEMMA ElementsAre ==
    ASSUME NEW V, NEW seq \in Seq(V), NEW places \in SUBSET (1..Len(seq))
    PROVE  Selects(Elements(seq, places), V, seq, places, Ascending(places))
<1>1. places \in SUBSET Nat /\ IsFiniteSet(places)
  <2>1. Len(seq) \in Nat
      OBVIOUS
  <2>2. IsFiniteSet(1..Len(seq))
      BY <2>1, FS_Interval
  <2>3. IsFiniteSet(places)
      BY <2>2, FS_Subset
  <2> QED
      BY <2>1, <2>3
<1>2. /\ Cardinality(places) \in Nat
      /\ Ascending(places) \in [1..Cardinality(places) -> places]
      /\ \A k, l \in 1..Cardinality(places) :
            k < l => Ascending(places)[k] < Ascending(places)[l]
      /\ \A i \in places : \E k \in 1..Cardinality(places) : Ascending(places)[k] = i
    BY <1>1, AscendingEnumerates
<1>3. \A k \in 1..Cardinality(places) : Ascending(places)[k] \in 1..Len(seq)
    BY <1>2
<1>4. Elements(seq, places) = [k \in 1..Cardinality(places) |-> seq[Ascending(places)[k]]]
    BY DEF Elements
<1>5. \A k \in 1..Cardinality(places) : seq[Ascending(places)[k]] \in V
    BY <1>3
<1>6. Elements(seq, places) \in Seq(V)
    BY <1>2, <1>4, <1>5
<1> DEFINE taken == Elements(seq, places)
           at == Ascending(places)
<1>7. /\ taken \in Seq(V) /\ DOMAIN taken = 1..Cardinality(places)
      /\ \A k \in 1..Cardinality(places) : taken[k] = seq[at[k]]
    BY <1>4, <1>6
<1>8. Selects(taken, V, seq, places, at)
    BY Zenon, <1>2, <1>7 DEF Selects
<1> QED
    BY <1>8

--------------------------------------------------------------------------------
(* Texts *)

\* The positions of a string that Trim does not cut off at an end.
Ink(s) == {i \in DOMAIN s : s[i] # Space}

LEMMA TrimSpan ==
    ASSUME NEW s \in Characters, Ink(s) # {}
    PROVE  \E a, b \in Ink(s) : a <= b /\ Trim(s) = SubSeq(s, a, b)
<1>1. Len(s) \in Nat /\ Ink(s) \in SUBSET (0..Len(s)) /\ Ink(s) \in SUBSET Nat
    BY DEF Ink, Characters
<1>2. Min(Ink(s)) \in Ink(s) /\ \A x \in Ink(s) : Min(Ink(s)) <= x
    BY <1>1, Least DEF Min
<1>3. Max(Ink(s)) \in Ink(s)
    BY <1>1, Greatest DEF Max
<1>4. Trim(s) = SubSeq(s, Min(Ink(s)), Max(Ink(s)))
    BY DEF Trim, Ink
<1> QED
    BY <1>2, <1>3, <1>4

LEMMA TrimBlank ==
    ASSUME NEW s \in Characters, Ink(s) = {}
    PROVE  Trim(s) = <<>>
    BY DEF Trim, Ink

LEMMA TrimType ==
    ASSUME NEW s \in Characters
    PROVE  Trim(s) \in Characters
<1>1. CASE Ink(s) = {}
  <2>1. Trim(s) = <<>>
      BY <1>1, TrimBlank
  <2>2. <<>> \in Seq(Nat)
      OBVIOUS
  <2> QED
      BY <2>1, <2>2 DEF Characters
<1>2. CASE Ink(s) # {}
  <2>1. PICK a, b \in Ink(s) : a <= b /\ Trim(s) = SubSeq(s, a, b)
      BY <1>2, TrimSpan
  <2>2. a \in 1..Len(s) /\ b \in 1..Len(s)
      BY DEF Ink, Characters
  <2> QED
      BY <2>1, <2>2 DEF Characters
<1> QED
    BY <1>1, <1>2

LEMMA InkIsKept ==
    ASSUME NEW s \in Characters, Ink(s) # {}
    PROVE  Trim(s) # <<>>
<1>1. PICK a, b \in Ink(s) : a <= b /\ Trim(s) = SubSeq(s, a, b)
    BY TrimSpan
<1>2. a \in 1..Len(s) /\ b \in 1..Len(s) /\ Len(s) \in Nat
    BY DEF Ink, Characters
<1>3. Len(SubSeq(s, a, b)) = b - a + 1
    BY <1>1, <1>2 DEF Characters
<1> QED
    BY <1>1, <1>2, <1>3

\* Texts that Trim leaves as they are.
Trimmed == {s \in Characters : Trim(s) = s}

LEMMA InkAtEnds ==
    ASSUME NEW s \in Characters, s # <<>>
    PROVE  /\ Len(s) \in Nat \ {0}
           /\ s \in Trimmed <=> s[1] # Space /\ s[Len(s)] # Space
<1>1. Len(s) \in Nat \ {0} /\ DOMAIN s = 1..Len(s)
    BY DEF Characters
<1>2. ASSUME s \in Trimmed
      PROVE  s[1] # Space /\ s[Len(s)] # Space
  <2>1. Trim(s) = s
      BY <1>2 DEF Trimmed
  <2>2. PICK a, b \in Ink(s) : a <= b /\ Trim(s) = SubSeq(s, a, b)
      BY <2>1, TrimSpan, TrimBlank
  <2>3. a \in 1..Len(s) /\ b \in 1..Len(s) /\ s[a] # Space /\ s[b] # Space
      BY <1>1 DEF Ink
  <2>4. Len(SubSeq(s, a, b)) = b - a + 1
      BY <1>1, <2>2, <2>3 DEF Characters
  <2>5. a = 1 /\ b = Len(s)
      BY <1>1, <2>1, <2>2, <2>3, <2>4
  <2> QED
      BY <2>3, <2>5
<1>3. ASSUME s[1] # Space, s[Len(s)] # Space
      PROVE  s \in Trimmed
  <2>1. 1 \in Ink(s) /\ Len(s) \in Ink(s) /\ Ink(s) \in SUBSET (1..Len(s))
      BY <1>1, <1>3 DEF Ink
  <2>2. Min(Ink(s)) = 1 /\ Max(Ink(s)) = Len(s)
      BY <1>1, <2>1 DEF Min, Max
  <2>3. Trim(s) = SubSeq(s, 1, Len(s))
      BY <2>1, <2>2 DEF Trim, Ink
  <2>4. SubSeq(s, 1, Len(s)) = s
      BY <1>1 DEF Characters
  <2> QED
      BY <2>3, <2>4 DEF Trimmed
<1> QED
    BY <1>1, <1>2, <1>3

LEMMA EmptyIsTrimmed == <<>> \in Trimmed
<1>1. <<>> \in Characters /\ Ink(<<>>) = {}
    BY DEF Characters, Ink
<1> QED
    BY <1>1, TrimBlank DEF Trimmed

LEMMA TrimIsTrimmed ==
    ASSUME NEW s \in Characters
    PROVE  Trim(s) \in Trimmed
<1>2. CASE Ink(s) = {}
    BY <1>2, TrimBlank, EmptyIsTrimmed
<1>3. CASE Ink(s) # {}
  <2>1. PICK a, b \in Ink(s) : a <= b /\ Trim(s) = SubSeq(s, a, b)
      BY <1>3, TrimSpan
  <2>2. /\ Len(s) \in Nat /\ a \in 1..Len(s) /\ b \in 1..Len(s)
        /\ s[a] # Space /\ s[b] # Space
      BY DEF Ink, Characters
  <2>3. /\ Len(SubSeq(s, a, b)) = b - a + 1
        /\ SubSeq(s, a, b)[1] = s[a] /\ SubSeq(s, a, b)[b - a + 1] = s[b]
      BY <2>1, <2>2 DEF Characters
  <2>4. SubSeq(s, a, b) \in Characters /\ SubSeq(s, a, b) # <<>>
    <3>1. SubSeq(s, a, b) \in Characters
        BY <2>1, TrimType
    <3>2. SubSeq(s, a, b) # <<>>
        BY <2>1, <1>3, InkIsKept
    <3> QED
        BY <3>1, <3>2
  <2>5. SubSeq(s, a, b) \in Trimmed
      BY <2>2, <2>3, <2>4, InkAtEnds
  <2> QED
      BY <2>1, <2>5
<1> QED
    BY <1>2, <1>3

LEMMA TrimIsShorter ==
    ASSUME NEW s \in Characters
    PROVE  Len(Trim(s)) <= Len(s)
<1>1. Len(s) \in Nat
    BY DEF Characters
<1>2. CASE Ink(s) = {}
  <2>1. Len(Trim(s)) = 0
      BY <1>2, TrimBlank
  <2> QED
      BY <1>1, <2>1
<1>3. CASE Ink(s) # {}
  <2>1. PICK a, b \in Ink(s) : a <= b /\ Trim(s) = SubSeq(s, a, b)
      BY <1>3, TrimSpan
  <2>2. a \in 1..Len(s) /\ b \in 1..Len(s)
      BY DEF Ink, Characters
  <2>3. Len(SubSeq(s, a, b)) = b - a + 1
      BY <1>1, <2>1, <2>2 DEF Characters
  <2>4. b - a + 1 <= Len(s)
      BY <1>1, <2>2
  <2> QED
      BY <2>1, <2>3, <2>4
<1> QED
    BY <1>2, <1>3

\* What is left when a string is trimmed is not blank.
LEMMA TrimmedIsNotBlank ==
    ASSUME NEW s \in Characters, Trim(s) # <<>>
    PROVE  Trim(Trim(s)) # <<>>
    BY TrimIsTrimmed DEF Trimmed

\* firstNonEmpty is the first value that is not blank, trimmed, or empty.
LEMMA FirstNonEmptyIs ==
    ASSUME NEW values \in Seq(Characters)
    PROVE  /\ firstNonEmpty(values) \in Trimmed
           /\ (\A i \in 1..Len(values) : Trim(values[i]) = <<>>) => firstNonEmpty(values) = <<>>
           /\ \A i \in 1..Len(values) :
                 /\ Trim(values[i]) # <<>>
                 /\ \A j \in 1..(i - 1) : Trim(values[j]) = <<>>
                 => firstNonEmpty(values) = Trim(values[i])
<1> DEFINE I == {i \in 1..Len(values) : Trim(values[i]) # <<>>}
           first == SelectInSeq(values, LAMBDA v : Trim(v) # <<>>)
<1>1. Len(values) \in Nat /\ I \in SUBSET Nat
    OBVIOUS
<1>2. first = IF I # {} THEN Min(I) ELSE 0
    BY DEF SelectInSeq
<1>3. firstNonEmpty(values) = IF first = 0 THEN <<>> ELSE Trim(values[first])
    BY DEF firstNonEmpty
<1>4. I # {} => Min(I) \in I /\ \A i \in I : Min(I) <= i
    BY <1>1, Least DEF Min
<1>6. \A i \in 1..Len(values) : values[i] \in Characters
    OBVIOUS
<1> HIDE DEF first
<1>7. CASE I = {}
  <2>1. firstNonEmpty(values) = <<>>
      BY <1>2, <1>3, <1>7
  <2> QED
      BY <1>7, <2>1, EmptyIsTrimmed
<1>8. CASE I # {}
  <2>1. first \in I /\ (\A i \in I : first <= i) /\ first \in 1..Len(values)
      BY <1>2, <1>4, <1>8
  <2>2. firstNonEmpty(values) = Trim(values[first])
      BY <1>1, <1>3, <2>1
  <2>3. firstNonEmpty(values) \in Trimmed
      BY <1>6, <2>1, <2>2, TrimIsTrimmed
  <2>4. ASSUME NEW i \in 1..Len(values), Trim(values[i]) # <<>>,
               \A j \in 1..(i - 1) : Trim(values[j]) = <<>>
        PROVE  i = first
    <3>1. i \in I /\ first <= i
        BY <2>1, <2>4
    <3>2. ~(first \in 1..(i - 1))
        BY <2>1, <2>4
    <3> QED
        BY <1>1, <2>1, <3>1, <3>2
  <2> QED
      BY <1>8, <2>2, <2>3, <2>4
<1> QED
    BY <1>7, <1>8

LEMMA FirstOfOne ==
    ASSUME NEW v \in Characters
    PROVE  firstNonEmpty(<<v>>) = Trim(v)
<1> DEFINE values == <<v>>
<1>1. values \in Seq(Characters) /\ Len(values) = 1 /\ values[1] = v
    OBVIOUS
<1> HIDE DEF values
<1>2. CASE Trim(v) # <<>>
  <2>1. 1 \in 1..Len(values) /\ \A j \in 1..(1 - 1) : Trim(values[j]) = <<>>
      BY <1>1
  <2>2. firstNonEmpty(values) = Trim(v)
      BY <1>1, <1>2, <2>1, FirstNonEmptyIs
  <2> QED
      BY <2>2 DEF values
<1>3. CASE Trim(v) = <<>>
  <2>1. \A i \in 1..Len(values) : Trim(values[i]) = <<>>
      BY <1>1, <1>3
  <2>2. firstNonEmpty(values) = <<>>
      BY <1>1, <2>1, FirstNonEmptyIs
  <2> QED
      BY <1>3, <2>2 DEF values
<1> QED
    BY <1>2, <1>3

LEMMA FirstOfTwo ==
    ASSUME NEW v \in Characters, NEW w \in Characters
    PROVE  /\ firstNonEmpty(<<v, w>>) = IF Trim(v) # <<>> THEN Trim(v) ELSE Trim(w)
           /\ firstNonEmpty(<<v, w>>) \in Trimmed
<1> DEFINE values == <<v, w>>
<1>1. values \in Seq(Characters) /\ Len(values) = 2 /\ values[1] = v /\ values[2] = w
    OBVIOUS
<1> HIDE DEF values
<1>2. CASE Trim(v) # <<>>
  <2>1. 1 \in 1..Len(values) /\ \A j \in 1..(1 - 1) : Trim(values[j]) = <<>>
      BY <1>1
  <2>2. firstNonEmpty(values) = Trim(v)
      BY <1>1, <1>2, <2>1, FirstNonEmptyIs
  <2> QED
      BY <1>1, <1>2, <2>2, FirstNonEmptyIs DEF values
<1>3. CASE Trim(v) = <<>> /\ Trim(w) # <<>>
  <2>0. 2 \in 1..Len(values) /\ \A j \in 1..(2 - 1) : Trim(values[j]) = <<>>
      BY <1>1, <1>3
  <2>1. firstNonEmpty(values) = Trim(w)
      BY <1>1, <1>3, <2>0, FirstNonEmptyIs
  <2> QED
      BY <1>1, <1>3, <2>1, FirstNonEmptyIs DEF values
<1>4. CASE Trim(v) = <<>> /\ Trim(w) = <<>>
    BY <1>1, <1>4, FirstNonEmptyIs DEF values
<1> QED
    BY <1>2, <1>3, <1>4

LEMMA FirstOfThree ==
    ASSUME NEW u \in Characters, NEW v \in Characters, NEW w \in Characters
    PROVE  /\ firstNonEmpty(<<u, v, w>>) = IF Trim(u) # <<>> THEN Trim(u)
                                           ELSE IF Trim(v) # <<>> THEN Trim(v) ELSE Trim(w)
           /\ firstNonEmpty(<<u, v, w>>) \in Trimmed
<1> DEFINE values == <<u, v, w>>
<1>1. /\ values \in Seq(Characters) /\ Len(values) = 3
      /\ values[1] = u /\ values[2] = v /\ values[3] = w
    OBVIOUS
<1> HIDE DEF values
<1>2. firstNonEmpty(values) \in Trimmed
    BY <1>1, FirstNonEmptyIs
<1>3. CASE Trim(u) # <<>>
  <2>1. 1 \in 1..Len(values) /\ \A j \in 1..(1 - 1) : Trim(values[j]) = <<>>
      BY <1>1
  <2>2. firstNonEmpty(values) = Trim(u)
      BY <1>1, <1>3, <2>1, FirstNonEmptyIs
  <2> QED
      BY <1>2, <1>3, <2>2 DEF values
<1>4. CASE Trim(u) = <<>> /\ Trim(v) # <<>>
  <2>1. 2 \in 1..Len(values) /\ \A j \in 1..(2 - 1) : Trim(values[j]) = <<>>
      BY <1>1, <1>4
  <2>2. firstNonEmpty(values) = Trim(v)
      BY <1>1, <1>4, <2>1, FirstNonEmptyIs
  <2> QED
      BY <1>2, <1>4, <2>2 DEF values
<1>5. CASE Trim(u) = <<>> /\ Trim(v) = <<>> /\ Trim(w) # <<>>
  <2>1. 3 \in 1..Len(values) /\ \A j \in 1..(3 - 1) : Trim(values[j]) = <<>>
      BY <1>1, <1>5
  <2>2. firstNonEmpty(values) = Trim(w)
      BY <1>1, <1>5, <2>1, FirstNonEmptyIs
  <2> QED
      BY <1>2, <1>5, <2>2 DEF values
<1>6. CASE Trim(u) = <<>> /\ Trim(v) = <<>> /\ Trim(w) = <<>>
  <2>1. \A i \in 1..Len(values) : Trim(values[i]) = <<>>
      BY <1>1, <1>6
  <2>2. firstNonEmpty(values) = <<>>
      BY <1>1, <2>1, FirstNonEmptyIs
  <2> QED
      BY <1>2, <1>6, <2>2 DEF values
<1> QED
    BY <1>3, <1>4, <1>5, <1>6

\* A part of a text.
LEMMA PartOf ==
    ASSUME NEW s \in Characters, NEW a \in Nat \ {0}, NEW b \in Int, b <= Len(s)
    PROVE  /\ SubSeq(s, a, b) \in Characters
           /\ b < a => SubSeq(s, a, b) = <<>>
           /\ a <= b => Len(SubSeq(s, a, b)) = b - a + 1
           /\ \A i \in 1..(b - a + 1) : SubSeq(s, a, b)[i] = s[a + i - 1]
<1>1. CASE a <= b
    BY <1>1 DEF Characters
<1>2. CASE b < a
  <2>1. SubSeq(s, a, b) = <<>>
      BY <1>2 DEF Characters
  <2>2. <<>> \in Seq(Nat)
      OBVIOUS
  <2> QED
      BY <1>2, <2>1, <2>2 DEF Characters
<1> QED
    BY <1>1, <1>2

LEMMA Joined ==
    ASSUME NEW s \in Characters, NEW t \in Characters
    PROVE  /\ s \o t \in Characters /\ Len(s) \in Nat /\ Len(t) \in Nat
           /\ Len(s \o t) = Len(s) + Len(t)
           /\ \A i \in 1..Len(s) : (s \o t)[i] = s[i]
           /\ \A i \in 1..Len(t) : (s \o t)[Len(s) + i] = t[i]
           /\ DOMAIN s = 1..Len(s)
<1>1. s \in Seq(Nat) /\ t \in Seq(Nat)
    BY DEF Characters
<1>2. /\ s \o t \in Seq(Nat) /\ Len(s) \in Nat /\ Len(t) \in Nat
      /\ Len(s \o t) = Len(s) + Len(t) /\ DOMAIN s = 1..Len(s)
    BY <1>1
<1>3. \A i \in 1..Len(s) : (s \o t)[i] = s[i]
    BY <1>1
<1>4. \A i \in 1..Len(t) : (s \o t)[Len(s) + i] = t[i]
    BY <1>1
<1> QED
    BY Zenon, <1>2, <1>3, <1>4 DEF Characters

LEMMA JoinedWith ==
    ASSUME NEW s \in Characters, NEW c \in Nat
    PROVE  /\ s \o <<c>> \in Characters /\ Len(s) \in Nat /\ DOMAIN s = 1..Len(s)
           /\ Len(s \o <<c>>) = Len(s) + 1
           /\ \A i \in 1..Len(s) : (s \o <<c>>)[i] = s[i]
           /\ (s \o <<c>>)[Len(s) + 1] = c
    BY DEF Characters

LEMMA SameTexts ==
    ASSUME NEW a \in Characters, NEW b \in Characters, Len(a) = Len(b),
           \A i \in 1..Len(a) : a[i] = b[i]
    PROVE  a = b
<1>1. a \in Seq(Nat) /\ b \in Seq(Nat)
    BY DEF Characters
<1> QED
    BY <1>1, SameElements

LEMMA JoinedInTurn ==
    ASSUME NEW s \in Characters, NEW t \in Characters, NEW u \in Characters
    PROVE  (s \o t) \o u = s \o (t \o u)
<1> DEFINE st == s \o t
           tu == t \o u
           a == st \o u
           b == s \o tu
<1>1. /\ st \in Characters /\ Len(s) \in Nat /\ Len(t) \in Nat /\ Len(st) = Len(s) + Len(t)
      /\ \A i \in 1..Len(s) : st[i] = s[i]
      /\ \A i \in 1..Len(t) : st[Len(s) + i] = t[i]
    BY Joined
<1>2. /\ tu \in Characters /\ Len(u) \in Nat /\ Len(tu) = Len(t) + Len(u)
      /\ \A i \in 1..Len(t) : tu[i] = t[i]
      /\ \A i \in 1..Len(u) : tu[Len(t) + i] = u[i]
    BY Joined
<1> HIDE DEF st, tu
<1>3. /\ a \in Characters /\ Len(a) = Len(st) + Len(u)
      /\ \A i \in 1..Len(st) : a[i] = st[i]
      /\ \A i \in 1..Len(u) : a[Len(st) + i] = u[i]
    BY <1>1, Joined
<1>4. /\ b \in Characters /\ Len(b) = Len(s) + Len(tu)
      /\ \A i \in 1..Len(s) : b[i] = s[i]
      /\ \A i \in 1..Len(tu) : b[Len(s) + i] = tu[i]
    BY <1>2, Joined
<1> HIDE DEF a, b
<1>5. Len(a) = Len(b)
    BY <1>1, <1>2, <1>3, <1>4
<1>6. ASSUME NEW i \in 1..Len(a)
      PROVE  a[i] = b[i]
  <2>1. CASE i \in 1..Len(s)
    <3>1. i \in 1..Len(st)
        BY <1>1, <2>1
    <3> QED
        BY <1>1, <1>3, <1>4, <2>1, <3>1
  <2>2. ASSUME NEW j \in 1..Len(t), i = Len(s) + j
        PROVE  a[i] = b[i]
    <3>1. i \in 1..Len(st) /\ j \in 1..Len(tu)
        BY <1>1, <1>2, <2>2
    <3> QED
        BY <1>1, <1>2, <1>3, <1>4, <2>2, <3>1
  <2>3. ASSUME NEW j \in 1..Len(u), i = Len(st) + j
        PROVE  a[i] = b[i]
    <3>1. Len(t) + j \in 1..Len(tu) /\ i = Len(s) + (Len(t) + j)
        BY <1>1, <1>2, <2>3
    <3>2. a[i] = u[j] /\ b[i] = tu[Len(t) + j] /\ tu[Len(t) + j] = u[j]
        BY <1>2, <1>3, <1>4, <2>3, <3>1
    <3> QED
        BY Zenon, <3>2
  <2>4. \/ i \in 1..Len(s)
        \/ i - Len(s) \in 1..Len(t) /\ i = Len(s) + (i - Len(s))
        \/ i - Len(st) \in 1..Len(u) /\ i = Len(st) + (i - Len(st))
      BY <1>1, <1>2, <1>3
  <2> QED
      BY Zenon, <2>1, <2>2, <2>3, <2>4
<1>7. a = b
    BY <1>3, <1>4, <1>5, <1>6, SameTexts
<1> QED
    BY Zenon, <1>7 DEF a, b, st, tu

LEMMA CharactersOf ==
    ASSUME NEW s \in Characters
    PROVE  Len(s) \in Nat /\ DOMAIN s = 1..Len(s) /\ \A i \in 1..Len(s) : s[i] \in Nat
    BY DEF Characters

\* Between the places a and b, s reads like part.
StandsAt(part, s, a, b) ==
    /\ s \in Characters /\ part \in Characters /\ a \in Nat
    /\ b = a + Len(part) /\ b <= Len(s)
    /\ \A i \in 1..Len(part) : s[a + i] = part[i]

\* The part of a text that reads like another is it.
LEMMA PartReads ==
    ASSUME NEW s, NEW part, NEW a, NEW b, StandsAt(part, s, a, b)
    PROVE  SubSeq(s, a + 1, b) = part
<1> DEFINE cut == SubSeq(s, a + 1, b)
<1>0. /\ s \in Characters /\ part \in Characters /\ a \in Nat
      /\ b = a + Len(part) /\ b <= Len(s)
      /\ \A i \in 1..Len(part) : s[a + i] = part[i]
    BY Zenon DEF StandsAt
<1>1. Len(part) \in Nat /\ a + 1 \in Nat \ {0} /\ b \in Int
    BY <1>0, CharactersOf
<1>2. /\ cut \in Characters
      /\ b < a + 1 => cut = <<>>
      /\ a + 1 <= b => Len(cut) = b - (a + 1) + 1
      /\ \A i \in 1..(b - (a + 1) + 1) : cut[i] = s[a + 1 + i - 1]
    BY <1>0, <1>1, PartOf
<1> HIDE DEF cut
<1>3. Len(cut) = Len(part)
  <2>1. b < a + 1 => Len(cut) = 0 /\ Len(part) = 0
      BY <1>0, <1>1, <1>2
  <2> QED
      BY <1>0, <1>1, <1>2, <2>1
<1>4. ASSUME NEW i \in 1..Len(part)
      PROVE  cut[i] = part[i]
  <2>1. a + 1 + i - 1 = a + i /\ i \in 1..(b - (a + 1) + 1)
      BY <1>0, <1>1
  <2> QED
      BY <1>0, <1>2, <2>1
<1>5. cut = part
  <2>1. cut \in Seq(Nat) /\ part \in Seq(Nat)
      BY <1>0, <1>2 DEF Characters
  <2> QED
      BY <1>3, <1>4, <2>1, SameElements
<1> QED
    BY <1>5 DEF cut

\* The first word ends before the first dot.
LEMMA FirstWordIs ==
    ASSUME NEW s \in Characters
    PROVE  /\ FirstWord(s) \in Characters
           /\ (\A i \in 1..Len(s) : s[i] # Dot) => FirstWord(s) = s
           /\ \A i \in 1..Len(s) :
                 s[i] = Dot /\ (\A j \in 1..(i - 1) : s[j] # Dot)
                 => FirstWord(s) = SubSeq(s, 1, i - 1)
<1> DEFINE I == {i \in 1..Len(s) : s[i] = Dot}
           end == SelectInSeq(s, LAMBDA c : c = Dot)
<1>1. Len(s) \in Nat /\ I \in SUBSET Nat
    BY DEF Characters
<1>2. end = IF I # {} THEN Min(I) ELSE 0
    BY DEF SelectInSeq
<1>3. FirstWord(s) = IF end = 0 THEN s ELSE SubSeq(s, 1, end - 1)
    BY DEF FirstWord
<1>4. I # {} => Min(I) \in I /\ \A i \in I : Min(I) <= i
    BY <1>1, Least DEF Min
<1> HIDE DEF end
<1>5. CASE I = {}
    BY <1>2, <1>3, <1>5
<1>6. CASE I # {}
  <2>1. end \in I /\ (\A i \in I : end <= i) /\ end \in 1..Len(s)
      BY <1>2, <1>4, <1>6
  <2>2. FirstWord(s) = SubSeq(s, 1, end - 1)
      BY <1>1, <1>3, <2>1
  <2>3. FirstWord(s) \in Characters
      BY <1>1, <2>1, <2>2, PartOf
  <2>4. ASSUME NEW i \in 1..Len(s), s[i] = Dot, \A j \in 1..(i - 1) : s[j] # Dot
        PROVE  i = end
    <3>1. i \in I /\ end <= i
        BY <2>1, <2>4
    <3>2. ~(end \in 1..(i - 1))
        BY <2>1, <2>4
    <3> QED
        BY <1>1, <2>1, <3>1, <3>2
  <2> QED
      BY <1>6, <2>2, <2>3, <2>4
<1> QED
    BY <1>5, <1>6

\* A prefix, and a suffix, place by place.
LEMMA PrefixIs ==
    ASSUME NEW a \in Characters, NEW b \in Characters
    PROVE  IsPrefix(a, b) <=> Len(a) <= Len(b) /\ \A j \in 1..Len(a) : a[j] = b[j]
<1> DEFINE n == Len(a)
<1>1. n \in Nat /\ Len(b) \in Nat
    BY DEF Characters
<1>2. SubSeq(a, 1, n) = a
  <2>1. StandsAt(a, a, 0, n)
      BY <1>1 DEF StandsAt
  <2>2. SubSeq(a, 0 + 1, n) = a
      BY Zenon, <2>1, PartReads
  <2> QED
      BY <2>2
<1>3. ASSUME n <= Len(b), \A j \in 1..n : a[j] = b[j]
      PROVE  SubSeq(b, 1, n) = a
  <2>1. \A j \in 1..n : b[0 + j] = a[j]
      BY <1>1, <1>3
  <2>2. 0 \in Nat /\ n = 0 + Len(a)
      BY <1>1
  <2>3. StandsAt(a, b, 0, n)
      BY <1>3, <2>1, <2>2 DEF StandsAt
  <2>4. SubSeq(b, 0 + 1, n) = a
      BY Zenon, <2>3, PartReads
  <2> QED
      BY <2>4
<1>4. ASSUME n <= Len(b), SubSeq(b, 1, n) = a, NEW j \in 1..n
      PROVE  a[j] = b[j]
  <2>1. \A i \in 1..(n - 1 + 1) : SubSeq(b, 1, n)[i] = b[1 + i - 1]
      BY <1>1, <1>4, PartOf
  <2>2. n - 1 + 1 = n /\ 1 + j - 1 = j
      BY <1>1
  <2> QED
      BY <1>4, <2>1, <2>2
<1>5. IsPrefix(a, b) <=> n <= Len(b) /\ a = SubSeq(b, 1, n)
    BY <1>2 DEF IsPrefix
<1> QED
    BY <1>3, <1>4, <1>5

LEMMA SuffixIs ==
    ASSUME NEW a \in Characters, NEW b \in Characters
    PROVE  IsSuffix(a, b) <=>
              /\ Len(a) <= Len(b)
              /\ \A j \in 1..Len(a) : b[Len(b) - Len(a) + j] = a[j]
<1> DEFINE ra == Reverse(a)
           rb == Reverse(b)
<1>1. /\ Len(a) \in Nat /\ \A j \in 1..Len(a) : a[j] \in Nat
      /\ Len(b) \in Nat /\ \A j \in 1..Len(b) : b[j] \in Nat
    BY CharactersOf
<1>2. /\ ra \in Characters /\ Len(ra) = Len(a)
      /\ \A j \in 1..Len(a) : ra[j] = a[(Len(a) - j) + 1]
    BY <1>1 DEF Reverse, Characters
<1>3. /\ rb \in Characters /\ Len(rb) = Len(b)
      /\ \A j \in 1..Len(b) : rb[j] = b[(Len(b) - j) + 1]
    BY <1>1 DEF Reverse, Characters
<1> HIDE DEF ra, rb
<1>4. IsPrefix(ra, rb) <=> Len(a) <= Len(b) /\ \A j \in 1..Len(a) : ra[j] = rb[j]
    BY <1>2, <1>3, PrefixIs
<1>5. ASSUME Len(a) <= Len(b), \A j \in 1..Len(a) : ra[j] = rb[j], NEW j \in 1..Len(a)
      PROVE  b[Len(b) - Len(a) + j] = a[j]
  <2>1. (Len(a) - j) + 1 \in 1..Len(a) /\ (Len(a) - j) + 1 \in 1..Len(b)
      BY <1>1, <1>5
  <2>2. ra[(Len(a) - j) + 1] = a[(Len(a) - ((Len(a) - j) + 1)) + 1]
      BY <1>2, <2>1
  <2>3. rb[(Len(a) - j) + 1] = b[(Len(b) - ((Len(a) - j) + 1)) + 1]
      BY <1>3, <2>1
  <2>4. /\ (Len(a) - ((Len(a) - j) + 1)) + 1 = j
        /\ (Len(b) - ((Len(a) - j) + 1)) + 1 = Len(b) - Len(a) + j
      BY <1>1
  <2> QED
      BY <1>5, <2>1, <2>2, <2>3, <2>4
<1>6. ASSUME Len(a) <= Len(b), \A j \in 1..Len(a) : b[Len(b) - Len(a) + j] = a[j],
             NEW j \in 1..Len(a)
      PROVE  ra[j] = rb[j]
  <2>1. (Len(a) - j) + 1 \in 1..Len(a) /\ j \in 1..Len(b)
      BY <1>1, <1>6
  <2>2. b[Len(b) - Len(a) + ((Len(a) - j) + 1)] = a[(Len(a) - j) + 1]
      BY <1>6, <2>1
  <2>3. Len(b) - Len(a) + ((Len(a) - j) + 1) = (Len(b) - j) + 1
      BY <1>1
  <2> QED
      BY <1>2, <1>3, <2>1, <2>2, <2>3
<1>7. IsSuffix(a, b) <=> IsPrefix(ra, rb)
    BY DEF IsSuffix, ra, rb
<1> QED
    BY <1>4, <1>5, <1>6, <1>7

--------------------------------------------------------------------------------
(* Sequences in a row *)

\* f joins the parts of seqs up to each place.
Joins(f, seqs, n) ==
    f = [i \in 1..n |-> IF i = 1 THEN seqs[i] ELSE f[i-1] \o seqs[i]]

LEMMA JoinsExist ==
    ASSUME NEW seqs, NEW n \in Nat
    PROVE  \E f : Joins(f, seqs, n)
<1> DEFINE T == {k \in Nat : ~ \E f : Joins(f, seqs, k)}
<1>1. SUFFICES ASSUME T # {} PROVE FALSE
    OBVIOUS
<1>2. PICK k \in T : \A l \in T : k <= l
    BY <1>1, Least
<1>3. CASE k = 0
  <2>1. Joins([i \in 1..0 |-> 0], seqs, 0)
      BY DEF Joins
  <2> QED
      BY <1>2, <1>3, <2>1
<1>4. CASE k # 0
  <2>1. k - 1 \in Nat /\ k - 1 \notin T
      BY <1>2, <1>4
  <2>2. PICK f : Joins(f, seqs, k - 1)
      BY <2>1
  <2> DEFINE g == [i \in 1..k |->
                     IF i # k THEN f[i]
                     ELSE IF k = 1 THEN seqs[k] ELSE f[k-1] \o seqs[k]]
  <2>3. /\ DOMAIN f = 1..(k-1)
        /\ \A i \in 1..(k-1) : f[i] = IF i = 1 THEN seqs[i] ELSE f[i-1] \o seqs[i]
      BY <2>2 DEF Joins
  <2>4. \A i \in 1..k : g[i] = IF i = 1 THEN seqs[i] ELSE g[i-1] \o seqs[i]
    <3>1. ASSUME NEW i \in 1..k PROVE g[i] = IF i = 1 THEN seqs[i] ELSE g[i-1] \o seqs[i]
      <4>1. CASE i = k
        <5>1. i # 1 => i - 1 \in 1..k /\ i - 1 # k
            BY <2>1, <4>1
        <5> QED
            BY <4>1, <5>1
      <4>2. CASE i # k
        <5>1. i \in 1..(k-1) /\ (i # 1 => i - 1 \in 1..k /\ i - 1 # k)
            BY <2>1, <4>2
        <5> QED
            BY <2>3, <4>2, <5>1
      <4> QED
          BY <4>1, <4>2
    <3> QED
        BY <3>1
  <2>5. Joins(g, seqs, k)
    <3>1. g = [i \in 1..k |-> g[i]]
        OBVIOUS
    <3> HIDE DEF g
    <3> QED
        BY <2>4, <3>1 DEF Joins
  <2> QED
      BY <1>2, <2>5
<1> QED
    BY <1>3, <1>4

LEMMA FlattenIs ==
    ASSUME NEW seqs, NEW n \in Nat \ {0}, Len(seqs) = n
    PROVE  \E f : Joins(f, seqs, n) /\ FlattenSeq(seqs) = f[n]
<1> DEFINE f == CHOOSE f : f = [i \in 1..Len(seqs) |->
                                 IF i = 1 THEN seqs[i] ELSE f[i-1] \o seqs[i]]
<1>1. FlattenSeq(seqs) = f[Len(seqs)]
    BY DEF FlattenSeq
<1>2. Joins(f, seqs, Len(seqs))
    BY JoinsExist DEF Joins
<1> QED
    BY <1>1, <1>2

\* One sequence more is joined behind the others.
LEMMA FlattenMore ==
    ASSUME NEW n \in Nat \ {0}, NEW short, Len(short) = n, NEW long, Len(long) = n + 1,
           \A i \in 1..n : short[i] = long[i]
    PROVE  FlattenSeq(long) = FlattenSeq(short) \o long[n + 1]
<1>1. PICK f : Joins(f, short, n) /\ FlattenSeq(short) = f[n]
    BY FlattenIs
<1>2. PICK g : Joins(g, long, n + 1) /\ FlattenSeq(long) = g[n + 1]
  <2>1. n + 1 \in Nat \ {0}
      OBVIOUS
  <2> QED
      BY <2>1, FlattenIs
<1>3. \A i \in 1..n : f[i] = IF i = 1 THEN short[i] ELSE f[i-1] \o short[i]
    BY <1>1 DEF Joins
<1>4. \A i \in 1..(n + 1) : g[i] = IF i = 1 THEN long[i] ELSE g[i-1] \o long[i]
    BY <1>2 DEF Joins
<1>5. \A i \in 1..n : f[i] = g[i]
  <2> DEFINE T == {i \in 1..n : f[i] # g[i]}
  <2>1. SUFFICES ASSUME T # {} PROVE FALSE
      OBVIOUS
  <2>2. PICK k \in T : \A l \in T : k <= l
    <3>1. T \in SUBSET Nat
        OBVIOUS
    <3> QED
        BY <2>1, <3>1, Least
  <2>3. k \in 1..n /\ k \in 1..(n + 1) /\ f[k] # g[k]
      OBVIOUS
  <2>4. CASE k = 1
      BY <1>3, <1>4, <2>3, <2>4
  <2>5. CASE k # 1
    <3>1. k - 1 \in 1..n /\ ~(k <= k - 1)
        BY <2>3, <2>5
    <3>2. f[k - 1] = g[k - 1]
        BY <2>2, <3>1
    <3> QED
        BY <1>3, <1>4, <2>3, <2>5, <3>2
  <2> QED
      BY <2>4, <2>5
<1>6. n \in 1..n /\ n + 1 \in 1..(n + 1) /\ n + 1 # 1 /\ (n + 1) - 1 = n
    OBVIOUS
<1>7. g[n + 1] = g[n] \o long[n + 1]
    BY <1>4, <1>6
<1> QED
    BY <1>1, <1>2, <1>5, <1>6, <1>7

LEMMA FlattenFirst ==
    ASSUME NEW seqs
    PROVE  /\ seqs = <<>> => FlattenSeq(seqs) = <<>>
           /\ Len(seqs) = 1 => FlattenSeq(seqs) = seqs[1]
<1>1. ASSUME seqs = <<>> PROVE FlattenSeq(seqs) = <<>>
    BY <1>1 DEF FlattenSeq
<1>2. ASSUME Len(seqs) = 1 PROVE FlattenSeq(seqs) = seqs[1]
  <2>1. PICK f : Joins(f, seqs, 1) /\ FlattenSeq(seqs) = f[1]
    <3>1. 1 \in Nat \ {0}
        OBVIOUS
    <3> QED
        BY <1>2, <3>1, FlattenIs
  <2> QED
      BY <2>1 DEF Joins
<1> QED
    BY <1>1, <1>2

\* What follows the first part of a sequence.
LEMMA CutOff ==
    ASSUME NEW V, NEW s \in Seq(V), NEW t \in Seq(V), NEW n \in Nat, n = Len(s) + 1
    PROVE  SubSeq(s \o t, n, Len(s \o t)) = t
<1> DEFINE cut == SubSeq(s \o t, n, Len(s \o t))
<1>1. /\ s \o t \in Seq(V) /\ Len(s \o t) = Len(s) + Len(t)
      /\ Len(s) \in Nat /\ Len(t) \in Nat
      /\ \A i \in 1..Len(t) : (s \o t)[Len(s) + i] = t[i]
    BY ConcatProperties
<1>2. CASE Len(t) = 0
  <2>1. t = <<>> /\ Len(s \o t) < n
      BY <1>1, <1>2
  <2> QED
      BY <1>1, <2>1, SubSeqEmpty
<1>3. CASE Len(t) # 0
  <2>1. /\ cut \in Seq(V) /\ Len(cut) = Len(s \o t) - n + 1
        /\ \A i \in 1..(Len(s \o t) - n + 1) : cut[i] = (s \o t)[n + i - 1]
      BY <1>1, <1>3
  <2>2. Len(cut) = Len(t)
      BY <1>1, <2>1
  <2>3. ASSUME NEW i \in 1..Len(cut) PROVE cut[i] = t[i]
    <3>1. cut[i] = (s \o t)[n + i - 1]
        BY <1>1, <2>1
    <3>2. n + i - 1 = Len(s) + i
        BY <1>1
    <3> QED
        BY <1>1, <2>2, <3>1, <3>2
  <2> HIDE DEF cut
  <2>4. cut = t
      BY <2>1, <2>2, <2>3, SameElements
  <2> QED
      BY <2>4 DEF cut
<1> QED
    BY <1>1, <1>2, <1>3

================================================================================
