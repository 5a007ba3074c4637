----------------------------------- MODULE Text -----------------------------------
(***************************************************************************)
(* Go's strings, as far as the parser and the renderers look into them: a  *)
(* string is the sequence of its characters' Unicode numbers.              *)
(***************************************************************************)
EXTENDS Integers, SequencesExt

Characters == Seq(Nat)

Space == 32
Quote == 34
Dot == 46
Backslash == 92
Underscore == 95
Bar == 124

LettersAndDigits == (48..57) \cup (65..90) \cup (97..122)

\* s with an underscore in place of whatever is no letter or digit of ASCII.
Identifier(s) ==
    [i \in DOMAIN s |-> IF s[i] \in LettersAndDigits THEN s[i] ELSE Underscore]

Lower(s) == [i \in DOMAIN s |-> IF s[i] \in 65..90 THEN s[i] + 32 ELSE s[i]]

Trim(s) ==
    LET ink == {i \in DOMAIN s : s[i] # Space}
    IN  IF ink = {} THEN <<>> ELSE SubSeq(s, Min(ink), Max(ink))

\* The words of s that dots separate: the first, and what follows it.
FirstWord(s) ==
    LET end == SelectInSeq(s, LAMBDA c : c = Dot)
    IN  IF end = 0 THEN s ELSE SubSeq(s, 1, end - 1)

AfterFirstWord(s) == SubSeq(s, Len(FirstWord(s)) + 2, Len(s))

\* The first of several values that is not blank, trimmed; "" if all are.
firstNonEmpty(values) ==
    LET i == SelectInSeq(values, LAMBDA v : Trim(v) # <<>>)
    IN  IF i = 0 THEN <<>> ELSE Trim(values[i])

\* The members of S in the strict order Before: as many as come before a member do so.
Sorted(S, Before(_, _)) ==
    [k \in 1..Cardinality(S) |->
        CHOOSE x \in S : Cardinality({y \in S : Before(y, x)}) = k - 1]

Ascending(places) == Sorted(places, LAMBDA i, j : i < j)

\* The elements of seq at some places.
Elements(seq, places) == [k \in 1..Cardinality(places) |-> seq[Ascending(places)[k]]]

\* The event types "publish" and "deliver", abbreviated.
Publish == <<112>>
Deliver == <<100>>

================================================================================
