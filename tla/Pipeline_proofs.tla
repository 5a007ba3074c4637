------------------------------ MODULE Pipeline_proofs ------------------------------
(***************************************************************************)
(* Proofs about Pipeline: whatever deliveries come, the parser reads the   *)
(* names and destinations out of them, and what the renderers count of the *)
(* traces, each in its own way, agrees.                                    *)
(*                                                                         *)
(* The argument for the counts: each trace adds a list of items to a map   *)
(* of counts, and the invariant is that the map holds, of each item, the   *)
(* number of places at which it stands in the lists of the traces that     *)
(* were rendered. Two maps agree if the places of their lists correspond.  *)
(***************************************************************************)
EXTENDS Pipeline, Lemmas

--------------------------------------------------------------------------------
(* Counting *)

IsList(list) == \E n \in Nat : DOMAIN list = 1..n

IsLists(lists) == IsList(lists) /\ \A i \in DOMAIN lists : IsList(lists[i])

\* The places of the items in a sequence of lists.
Places(lists) == UNION {{i} \X DOMAIN lists[i] : i \in DOMAIN lists}

Where(lists, S) == {p \in Places(lists) : lists[p[1]][p[2]] \in S}

\* counts holds how often each item stands in lists.
Tallies(counts, lists) ==
    /\ DOMAIN counts = {lists[p[1]][p[2]] : p \in Places(lists)}
    /\ \A x \in DOMAIN counts : counts[x] = Cardinality(Where(lists, {x}))

LEMMA PlaceIs ==
    ASSUME NEW lists
    PROVE  \A p : p \in Places(lists) <=>
              /\ p = <<p[1], p[2]>>
              /\ p[1] \in DOMAIN lists /\ p[2] \in DOMAIN lists[p[1]]
    BY DEF Places

LEMMA PlacesFinite ==
    ASSUME NEW lists, IsLists(lists)
    PROVE  /\ IsFiniteSet(Places(lists))
           /\ \A S : /\ IsFiniteSet(Where(lists, S))
                     /\ Cardinality(Where(lists, S)) \in Nat
<1> DEFINE rows == {{i} \X DOMAIN lists[i] : i \in DOMAIN lists}
           row == [i \in DOMAIN lists |-> {i} \X DOMAIN lists[i]]
<1>1. IsFiniteSet(DOMAIN lists)
    BY FS_Interval DEF IsLists, IsList
<1>2. row \in Surjection(DOMAIN lists, rows)
    BY DEF Surjection
<1>3. IsFiniteSet(rows)
    BY <1>1, <1>2, FS_Surjection
<1>4. ASSUME NEW r \in rows PROVE IsFiniteSet(r)
  <2>1. PICK i \in DOMAIN lists : r = {i} \X DOMAIN lists[i]
      OBVIOUS
  <2>2. IsFiniteSet(DOMAIN lists[i])
      BY FS_Interval DEF IsLists, IsList
  <2>3. IsFiniteSet({i})
      BY FS_Singleton
  <2> QED
      BY <2>1, <2>2, <2>3, FS_Product
<1>5. IsFiniteSet(Places(lists))
  <2>1. IsFiniteSet(UNION rows)
      BY <1>3, <1>4, FS_UNION
  <2> QED
      BY <2>1 DEF Places
<1>6. ASSUME NEW S
      PROVE  IsFiniteSet(Where(lists, S)) /\ Cardinality(Where(lists, S)) \in Nat
  <2>1. Where(lists, S) \in SUBSET Places(lists)
      BY DEF Where
  <2>2. IsFiniteSet(Where(lists, S))
      BY <1>5, <2>1, FS_Subset
  <2> QED
      BY <2>2, FS_CardinalityType
<1> QED
    BY <1>5, <1>6

LEMMA CountIs ==
    ASSUME NEW lists, IsLists(lists), NEW counts, Tallies(counts, lists), NEW x
    PROVE  CountOf(x, counts) = Cardinality(Where(lists, {x}))
<1>1. CASE x \in DOMAIN counts
    BY <1>1 DEF CountOf, Tallies
<1>2. CASE x \notin DOMAIN counts
  <2>1. Where(lists, {x}) = {}
      BY <1>2 DEF Where, Tallies
  <2> QED
      BY <1>2, <2>1, FS_EmptySet DEF CountOf
<1> QED
    BY <1>1, <1>2

\* What the counts of some items add up to is at how many places these stand.
LEMMA TotalIs ==
    ASSUME NEW lists, IsLists(lists), NEW counts, Tallies(counts, lists), NEW S
    PROVE  Total(S, counts) = Cardinality(Where(lists, S))
<1> DEFINE copies == UNION {{n} \X (1..counts[n]) : n \in S \cap DOMAIN counts}
           nth == [x \in DOMAIN counts |->
                      CHOOSE f : f \in Bijection(1..counts[x], Where(lists, {x}))]
           f == [c \in copies |-> nth[c[1]][c[2]]]
<1>1. ASSUME NEW x \in DOMAIN counts
      PROVE  nth[x] \in Bijection(1..counts[x], Where(lists, {x}))
  <2>1. IsFiniteSet(Where(lists, {x})) /\ counts[x] = Cardinality(Where(lists, {x}))
      BY PlacesFinite DEF Tallies
  <2>2. ExistsBijection(1..counts[x], Where(lists, {x}))
      BY <2>1, FS_CardinalityType
  <2> QED
      BY <2>2 DEF ExistsBijection
<1> HIDE DEF nth
<1>2. ASSUME NEW x \in DOMAIN counts
      PROVE  /\ \A k \in 1..counts[x] :
                   /\ nth[x][k] \in Places(lists)
                   /\ lists[nth[x][k][1]][nth[x][k][2]] = x
             /\ \A k, l \in 1..counts[x] : nth[x][k] = nth[x][l] => k = l
             /\ \A p \in Places(lists) :
                   lists[p[1]][p[2]] = x => \E k \in 1..counts[x] : nth[x][k] = p
  <2>1. /\ nth[x] \in [1..counts[x] -> Where(lists, {x})]
        /\ IsInjective(nth[x])
        /\ \A p \in Where(lists, {x}) : \E k \in 1..counts[x] : nth[x][k] = p
      BY <1>1 DEF Bijection, Injection, Surjection
  <2>2. \A k \in 1..counts[x] : nth[x][k] \in Where(lists, {x})
      BY <2>1
  <2>3. \A k, l \in 1..counts[x] : nth[x][k] = nth[x][l] => k = l
      BY <2>1 DEF IsInjective
  <2> QED
      BY <2>1, <2>2, <2>3 DEF Where
<1>3. ASSUME NEW c \in copies
      PROVE  /\ c = <<c[1], c[2]>> /\ c[1] \in S \cap DOMAIN counts /\ c[2] \in 1..counts[c[1]]
             /\ f[c] = nth[c[1]][c[2]]
    OBVIOUS
<1>4. ASSUME NEW n \in S \cap DOMAIN counts, NEW k \in 1..counts[n]
      PROVE  <<n, k>> \in copies
    OBVIOUS
<1>5. f \in [copies -> Where(lists, S)]
  <2>1. ASSUME NEW c \in copies PROVE f[c] \in Where(lists, S)
    <3>1. c[1] \in DOMAIN counts /\ c[1] \in S /\ c[2] \in 1..counts[c[1]]
        BY <1>3
    <3>0. \A k \in 1..counts[c[1]] :
             nth[c[1]][k] \in Places(lists) /\ lists[nth[c[1]][k][1]][nth[c[1]][k][2]] = c[1]
        BY <1>2, <3>1
    <3>2. /\ nth[c[1]][c[2]] \in Places(lists)
          /\ lists[nth[c[1]][c[2]][1]][nth[c[1]][c[2]][2]] = c[1]
        BY <3>0, <3>1
    <3>3. nth[c[1]][c[2]] \in Where(lists, S)
        BY Zenon, <3>1, <3>2 DEF Where
    <3> QED
        BY <1>3, <3>3
  <2> QED
      BY <2>1
<1> HIDE DEF f, copies
<1>6. f \in Injection(copies, Where(lists, S))
  <2>1. ASSUME NEW c \in copies, NEW d \in copies, f[c] = f[d]
        PROVE  c = d
    <3>1. c[1] = d[1]
        BY <1>2, <1>3, <2>1
    <3>2. c[2] = d[2]
        BY <1>2, <1>3, <2>1, <3>1
    <3> QED
        BY <1>3, <3>1, <3>2
  <2> QED
      BY <1>5, <2>1 DEF Injection, IsInjective
<1>7. f \in Surjection(copies, Where(lists, S))
  <2>1. ASSUME NEW p \in Where(lists, S)
        PROVE  \E c \in copies : f[c] = p
    <3> DEFINE x == lists[p[1]][p[2]]
    <3>1. p \in Places(lists) /\ x \in S /\ x \in DOMAIN counts
        BY DEF Where, Tallies
    <3>2. PICK k \in 1..counts[x] : nth[x][k] = p
        BY <1>2, <3>1
    <3>3. <<x, k>> \in copies
        BY <1>4, <3>1
    <3>4. f[<<x, k>>] = p
        BY <1>3, <3>2, <3>3
    <3> QED
        BY <3>3, <3>4
  <2> QED
      BY <1>5, <2>1 DEF Surjection
<1>8. ExistsBijection(Where(lists, S), copies)
  <2>1. ExistsBijection(copies, Where(lists, S))
      BY <1>6, <1>7 DEF ExistsBijection, Bijection
  <2> QED
      BY <2>1, Fun_ExistsBijSymmetric
<1>9. Cardinality(copies) = Cardinality(Where(lists, S))
    BY <1>8, PlacesFinite, FS_Bijection
<1> QED
    BY <1>9 DEF Total, copies

\* One more list is counted by AddAll.
LEMMA TallyNext ==
    ASSUME NEW n \in Nat, NEW lists, IsLists(lists), DOMAIN lists = 1..n,
           NEW next, DOMAIN next = 1..(n + 1), \A i \in 1..n : next[i] = lists[i],
           IsList(next[n + 1]),
           NEW counts, Tallies(counts, lists)
    PROVE  IsLists(next) /\ Tallies(AddAll(counts, next[n + 1]), next)
<1> DEFINE seq == next[n + 1]
           added == AddAll(counts, seq)
           New(x) == {p \in {n + 1} \X DOMAIN seq : seq[p[2]] = x}
<1>1. IsLists(next)
    BY DEF IsLists, IsList
<1>2. \A p : p \in Places(next) <=> p \in Places(lists) \/ p \in {n + 1} \X DOMAIN seq
    BY PlaceIs
<1>3. \A p \in Places(lists) : next[p[1]][p[2]] = lists[p[1]][p[2]] /\ p[1] # n + 1
    BY PlaceIs
<1>4. DOMAIN added = DOMAIN counts \cup Range(seq)
    BY DEF AddAll
<1>5. DOMAIN added = {next[p[1]][p[2]] : p \in Places(next)}
  <2>1. ASSUME NEW x \in DOMAIN added
        PROVE  x \in {next[p[1]][p[2]] : p \in Places(next)}
    <3>1. CASE x \in DOMAIN counts
        BY <1>2, <1>3, <3>1 DEF Tallies
    <3>2. CASE x \in Range(seq)
      <4>1. PICK j \in DOMAIN seq : seq[j] = x
          BY <3>2 DEF Range
      <4>2. <<n + 1, j>> \in Places(next)
          BY <1>2
      <4> QED
          BY <4>1, <4>2
    <3> QED
        BY <1>4, <3>1, <3>2
  <2>2. ASSUME NEW p \in Places(next)
        PROVE  next[p[1]][p[2]] \in DOMAIN added
    <3>1. CASE p \in Places(lists)
        BY <1>3, <1>4, <3>1 DEF Tallies
    <3>2. CASE p \in {n + 1} \X DOMAIN seq
        BY <1>4, <3>2 DEF Range
    <3> QED
        BY <1>2, <3>1, <3>2
  <2> DEFINE X == DOMAIN added
             S == {next[p[1]][p[2]] : p \in Places(next)}
  <2>3. (\A x \in X : x \in S) /\ \A y \in S : y \in X
      BY Zenon, <2>1, <2>2
  <2> HIDE DEF X, S
  <2>4. X = S
      BY <2>3
  <2> QED
      BY Zenon, <2>4 DEF X, S
<1>6. ASSUME NEW x \in DOMAIN added
      PROVE  added[x] = Cardinality(Where(next, {x}))
  <2>1. Where(next, {x}) = Where(lists, {x}) \cup New(x)
      BY <1>2, <1>3 DEF Where
  <2>2. Where(lists, {x}) \cap New(x) = {}
      BY <1>3 DEF Where
  <2>3. IsFiniteSet(Where(lists, {x})) /\ Cardinality(Where(lists, {x})) \in Nat
      BY PlacesFinite
  <2>4. IsFiniteSet(New(x)) /\ Cardinality(New(x)) = Cardinality({j \in DOMAIN seq : seq[j] = x})
    <3> DEFINE J == {j \in DOMAIN seq : seq[j] = x}
               g == [j \in J |-> <<n + 1, j>>]
    <3>1. g \in Bijection(J, New(x))
        BY DEF Bijection, Injection, Surjection, IsInjective
    <3>2. IsFiniteSet(DOMAIN seq) /\ J \in SUBSET (DOMAIN seq)
        BY FS_Interval DEF IsList
    <3>3. IsFiniteSet(J)
        BY <3>2, FS_Subset
    <3>4. ExistsBijection(J, New(x))
        BY <3>1 DEF ExistsBijection
    <3> HIDE DEF J
    <3>5. IsFiniteSet(New(x)) /\ Cardinality(New(x)) = Cardinality(J)
        BY <3>3, <3>4, FS_Bijection
    <3> QED
        BY <3>5 DEF J
  <2>5. Cardinality(Where(next, {x})) = Cardinality(Where(lists, {x})) + Cardinality(New(x))
    <3>1. Cardinality(New(x)) \in Nat
        BY <2>4, FS_CardinalityType
    <3> HIDE DEF New
    <3>2. Cardinality(Where(lists, {x}) \cup New(x))
             = Cardinality(Where(lists, {x})) + Cardinality(New(x))
                  - Cardinality(Where(lists, {x}) \cap New(x))
        BY <2>3, <2>4, FS_Union
    <3>3. Cardinality(Where(lists, {x}) \cap New(x)) = 0
        BY <2>2, FS_EmptySet
    <3>4. Cardinality(Where(next, {x}))
             = Cardinality(Where(lists, {x})) + Cardinality(New(x)) - 0
        BY Zenon, <2>1, <3>2, <3>3
    <3> QED
        BY <2>3, <3>1, <3>4
  <2>6. added[x] = CountOf(x, counts) + Cardinality({j \in DOMAIN seq : seq[j] = x})
      BY <1>4 DEF AddAll
  <2>7. CountOf(x, counts) = Cardinality(Where(lists, {x}))
      BY CountIs
  <2> HIDE DEF New, added, seq
  <2> QED
      BY <2>4, <2>5, <2>6, <2>7
<1> QED
    BY <1>1, <1>5, <1>6 DEF Tallies

--------------------------------------------------------------------------------
(* What the parser returns *)

Name == Trimmed \ {<<>>}

Destination == [queue : Name, binding : Trimmed]

Trace == [exchange : Name, eventType : Trimmed, routingKey : Trimmed,
          destinations : Seq(Destination)]

Delivered(d) ==
    /\ d.key \in Characters
    /\ \A h \in DOMAIN d.headers : IsHeader(d.headers[h])
    /\ "meant" \in DOMAIN d => IsMessage(d.meant) /\ d = Event(d.meant)

LEMMA TrimmedType == \A s \in Trimmed : s \in Characters /\ Trim(s) = s
    BY DEF Trimmed

LEMMA HeaderStringType ==
    ASSUME NEW headers, \A h \in DOMAIN headers : headers[h].text \in Characters,
           NEW keys, IsList(keys)
    PROVE  headerString(headers, keys) \in Trimmed
<1> DEFINE values == [i \in DOMAIN keys |-> IF keys[i] \in DOMAIN headers
                                            THEN stringFromAny(headers[keys[i]]) ELSE <<>>]
<1>1. \A i \in DOMAIN keys : values[i] \in Characters
    BY EmptyIsTrimmed, TrimmedType DEF stringFromAny
<1>2. values \in Seq(Characters)
    BY <1>1, SeqIs DEF IsList
<1> HIDE DEF values
<1>3. firstNonEmpty(values) \in Trimmed
    BY <1>2, FirstNonEmptyIs
<1> QED
    BY <1>3 DEF headerString, values

LEMMA RoutingKeyType ==
    ASSUME NEW headers, \A h \in DOMAIN headers : IsHeader(headers[h])
    PROVE  parseRoutingKey(headers) \in Trimmed
<1>1. headerString(headers, <<"routing_key", "routing-key">>) \in Trimmed
  <2>1. IsList(<<"routing_key", "routing-key">>)
      BY DEF IsList
  <2>2. \A h \in DOMAIN headers : headers[h].text \in Characters
      BY DEF IsHeader, IsValue
  <2> QED
      BY <2>1, <2>2, HeaderStringType
<1>2. ASSUME "routing_keys" \in DOMAIN headers
      PROVE  parseStringSliceFirst(headers["routing_keys"]) \in Trimmed
  <2> DEFINE value == headers["routing_keys"]
             values == [i \in DOMAIN value.items |-> stringFromAny(value.items[i])]
  <2>1. CASE value.kind = "list"
    <3>1. value.items \in Seq(Range(value.items))
          /\ \A item \in Range(value.items) : item.text \in Characters
        BY <1>2, <2>1 DEF IsHeader, IsValue
    <3>2. DOMAIN value.items = 1..Len(value.items) /\ Len(value.items) \in Nat
        BY <3>1
    <3>3. \A i \in DOMAIN value.items : values[i] \in Characters
        BY <3>1 DEF stringFromAny, Range
    <3> HIDE DEF value
    <3>4. values = [i \in DOMAIN values |-> values[i]] /\ DOMAIN values = DOMAIN value.items
        OBVIOUS
    <3> HIDE DEF values
    <3>6. values \in Seq(Characters)
        BY <3>2, <3>3, <3>4, SeqIs
    <3>5. firstNonEmpty(values) \in Trimmed
        BY <3>6, FirstNonEmptyIs
    <3> QED
        BY <2>1, <3>5 DEF parseStringSliceFirst, values, value
  <2>2. CASE value.kind # "list"
      BY <2>2, EmptyIsTrimmed DEF parseStringSliceFirst
  <2> QED
      BY <2>1, <2>2
<1> QED
    BY <1>1, <1>2 DEF parseRoutingKey

LEMMA EventTypeType ==
    ASSUME NEW key \in Characters
    PROVE  parseEventTypeFromRoutingKey(key) \in Trimmed
    BY TrimType, FirstWordIs, TrimIsTrimmed DEF parseEventTypeFromRoutingKey

LEMMA WithoutKeyType ==
    ASSUME NEW rest \in Trimmed, NEW key \in Characters
    PROVE  WithoutKey(rest, key) \in Trimmed
<1> DEFINE suffix == <<Dot>> \o key
           part == SubSeq(rest, 1, Len(rest) - Len(suffix))
<1>1. rest \in Characters /\ Len(rest) \in Nat
    BY TrimmedType DEF Characters
<1>2. suffix \in Characters /\ Len(suffix) \in Nat
    BY DEF Characters, Dot
<1> HIDE DEF suffix
<1>3. part \in Characters
    BY <1>1, <1>2, PartOf
<1>4. Trim(part) \in Trimmed
    BY <1>3, TrimIsTrimmed
<1> QED
    BY <1>4 DEF WithoutKey, suffix

\* What is left of a text after its first n characters.
LEMMA RestType ==
    ASSUME NEW s \in Characters, NEW n \in Nat
    PROVE  Trim(SubSeq(s, n + 1, Len(s))) \in Trimmed
<1>1. Len(s) \in Nat
    BY DEF Characters
<1>2. SubSeq(s, n + 1, Len(s)) \in Characters
    BY <1>1, PartOf
<1> QED
    BY <1>2, TrimIsTrimmed

LEMMA ExchangeType ==
    ASSUME NEW firehoseKey \in Characters, NEW eventType \in Characters,
           NEW key \in Characters
    PROVE  parseExchangeFromFirehoseRoutingKey(firehoseKey, eventType, key) \in Trimmed
<1> DEFINE trimmed == Trim(firehoseKey)
           prefix == eventType \o <<Dot>>
           rest == Trim(SubSeq(trimmed, Len(prefix) + 1, Len(trimmed)))
<1>1. trimmed \in Characters /\ Len(prefix) \in Nat /\ Len(FirstWord(trimmed)) \in Nat
    BY TrimType, FirstWordIs DEF Characters, Dot
<1>2. rest \in Trimmed
    BY <1>1, RestType
<1>3. WithoutKey(rest, key) \in Trimmed
    BY <1>2, WithoutKeyType
<1>4. Trim(FirstWord(rest)) \in Trimmed
    BY <1>2, TrimmedType, FirstWordIs, TrimIsTrimmed
<1>5. AfterFirstWord(trimmed) \in Characters
  <2>1. Len(trimmed) \in Nat /\ Len(FirstWord(trimmed)) + 2 \in Nat \ {0}
      BY <1>1 DEF Characters
  <2> QED
      BY <1>1, <2>1, PartOf DEF AfterFirstWord
<1>6. Trim(FirstWord(AfterFirstWord(trimmed))) \in Trimmed
    BY <1>5, FirstWordIs, TrimIsTrimmed
<1> HIDE DEF rest, trimmed, prefix
<1>7. parseExchangeFromFirehoseRoutingKey(firehoseKey, eventType, key) \in
         {Trim(FirstWord(AfterFirstWord(trimmed))), WithoutKey(rest, key),
          Trim(FirstWord(rest))}
    BY DEF parseExchangeFromFirehoseRoutingKey, rest, trimmed, prefix
<1> QED
    BY <1>3, <1>4, <1>6, <1>7

LEMMA DeliveredQueueType ==
    ASSUME NEW firehoseKey \in Characters, NEW key \in Characters
    PROVE  parseDeliverQueueFromFirehoseRoutingKey(firehoseKey, key) \in Trimmed
<1> DEFINE trimmed == Trim(firehoseKey)
           prefix == Deliver \o <<Dot>>
           after == Trim(SubSeq(trimmed, Len(prefix) + 1, Len(trimmed)))
<1>1. trimmed \in Trimmed /\ trimmed \in Characters /\ Len(prefix) \in Nat
    BY TrimType, TrimIsTrimmed DEF Characters, Dot, Deliver
<1>2. after \in Trimmed
    BY <1>1, RestType
<1>3. WithoutKey(after, key) \in Trimmed /\ WithoutKey(trimmed, key) \in Trimmed
    BY <1>1, <1>2, WithoutKeyType
<1> HIDE DEF after, trimmed, prefix
<1>4. parseDeliverQueueFromFirehoseRoutingKey(firehoseKey, key) \in
         {WithoutKey(after, key), WithoutKey(trimmed, key)}
    BY DEF parseDeliverQueueFromFirehoseRoutingKey, after, trimmed, prefix
<1> QED
    BY <1>3, <1>4

LEMMA EntryType ==
    ASSUME NEW value, IsValue(value), value.kind \in {"nil", "table", "string"}
    PROVE  parseDestinationEntry(value) \in [queue : Trimmed, binding : Trimmed]
<1>1. CASE value.kind = "nil"
    BY <1>1, EmptyIsTrimmed DEF parseDestinationEntry, To
<1>2. CASE value.kind = "table"
  <2>1. \A f \in DOMAIN value.fields : value.fields[f].text \in Characters
      BY <1>2 DEF IsValue
  <2>2. IsList(<<"queue_name", "queue">>) /\ IsList(<<"binding_key", "binding-key">>)
      BY DEF IsList
  <2>3. /\ headerString(value.fields, <<"queue_name", "queue">>) \in Trimmed
        /\ headerString(value.fields, <<"binding_key", "binding-key">>) \in Trimmed
      BY <2>1, <2>2, HeaderStringType
  <2> QED
      BY <1>2, <2>3 DEF parseDestinationEntry, To
<1>3. CASE value.kind = "string"
    BY <1>3, EmptyIsTrimmed, TrimIsTrimmed DEF parseDestinationEntry, To, IsValue
<1> QED
    BY <1>1, <1>2, <1>3

Listed(value) ==
    IF value.kind = "string" THEN <<parseDestinationEntry(value)>>
    ELSE [i \in DOMAIN value.items |-> parseDestinationEntry(value.items[i])]

LEMMA ListedType ==
    ASSUME NEW headers, \A h \in DOMAIN headers : IsHeader(headers[h]),
           ~ParseFails(headers), "destinations" \in DOMAIN headers
    PROVE  Listed(headers["destinations"]) \in Seq([queue : Trimmed, binding : Trimmed])
<1> DEFINE value == headers["destinations"]
<1>1. IsHeader(value) /\ value.kind \in {"string", "list"}
    BY DEF ParseFails
<1>2. CASE value.kind = "string"
  <2>1. parseDestinationEntry(value) \in [queue : Trimmed, binding : Trimmed]
      BY <1>1, <1>2, EntryType DEF IsHeader
  <2> HIDE DEF value
  <2> QED
      BY <1>2, <2>1 DEF Listed, value
<1>3. CASE value.kind = "list"
  <2>1. /\ value.items \in Seq(Range(value.items))
        /\ \A item \in Range(value.items) : IsValue(item)
      BY <1>1, <1>3 DEF IsHeader
  <2>2. \A i \in DOMAIN value.items : value.items[i].kind \in {"nil", "table", "string"}
      BY <1>3 DEF ParseFails
  <2>3. DOMAIN value.items = 1..Len(value.items) /\ Len(value.items) \in Nat
      BY <2>1
  <2>4. ASSUME NEW i \in DOMAIN value.items
        PROVE  parseDestinationEntry(value.items[i]) \in [queue : Trimmed, binding : Trimmed]
    <3>1. IsValue(value.items[i])
        BY <2>1 DEF Range
    <3> QED
        BY <2>2, <3>1, EntryType
  <2>5. Listed(value) = [i \in DOMAIN value.items |-> parseDestinationEntry(value.items[i])]
      BY <1>3 DEF Listed
  <2> HIDE DEF value
  <2> QED
      BY <2>3, <2>4, <2>5 DEF value
<1> QED
    BY <1>1, <1>2, <1>3

\* The header's destinations are those it lists with a queue.
LEMMA ListIs ==
    ASSUME NEW headers, \A h \in DOMAIN headers : IsHeader(headers[h]),
           ~ParseFails(headers), "destinations" \in DOMAIN headers
    PROVE  parseDestinationList(headers["destinations"]) \in Seq(Destination)
<1> DEFINE value == headers["destinations"]
           places == {i \in DOMAIN Listed(value) : Listed(value)[i].queue # <<>>}
           V == [queue : Trimmed, binding : Trimmed]
           taken == Elements(Listed(value), places)
<1>1. Listed(value) \in Seq(V)
    BY ListedType
<1>2. parseDestinationList(value) = taken
    BY DEF parseDestinationList, Listed
<1> HIDE DEF value
<1>3. places \in SUBSET (1..Len(Listed(value)))
    BY <1>1
<1>4. /\ taken \in Seq(V) /\ Cardinality(places) \in Nat
      /\ DOMAIN taken = 1..Cardinality(places)
      /\ \A k \in 1..Cardinality(places) :
            Ascending(places)[k] \in places /\ taken[k] = Listed(value)[Ascending(places)[k]]
  <2> DEFINE at == Ascending(places)
  <2> HIDE DEF V, places
  <2>1. Selects(taken, V, Listed(value), places, at)
      BY <1>1, <1>3, ElementsAre
  <2> HIDE DEF taken, at
  <2>2. /\ taken \in Seq(V) /\ Cardinality(places) \in Nat
        /\ DOMAIN taken = 1..Cardinality(places)
        /\ at \in [1..Cardinality(places) -> places]
        /\ \A k \in 1..Cardinality(places) : taken[k] = Listed(value)[at[k]]
      BY Zenon, <2>1 DEF Selects
  <2>3. \A k \in 1..Cardinality(places) : at[k] \in places
      BY <2>2
  <2> QED
      BY <2>2, <2>3 DEF at
<1> HIDE DEF taken, V
<1>5. ASSUME NEW k \in 1..Cardinality(places)
      PROVE  taken[k] \in V /\ taken[k].queue # <<>>
  <2>1. taken[k] = Listed(value)[Ascending(places)[k]] /\ Ascending(places)[k] \in places
      BY <1>4
  <2>2. Listed(value)[Ascending(places)[k]].queue # <<>>
      BY <2>1
  <2>3. Ascending(places)[k] \in 1..Len(Listed(value))
      BY <1>3, <2>1
  <2>4. Listed(value)[Ascending(places)[k]] \in V
      BY <1>1, <2>3
  <2> QED
      BY <2>1, <2>2, <2>4
<1>6. \A k \in 1..Cardinality(places) : taken[k] \in Destination
    BY <1>5 DEF Destination, Name, V
<1>7. taken \in Seq(Destination)
    BY <1>4, <1>6
<1> QED
    BY <1>2, <1>7 DEF value, taken

LEMMA ThreeJoined ==
    ASSUME NEW s \in Characters, NEW c \in Nat, NEW t \in Characters
    PROVE  /\ Len(s \o <<c>> \o t) = Len(s) + 1 + Len(t)
           /\ \A i \in 1..Len(s) : (s \o <<c>> \o t)[i] = s[i]
           /\ (s \o <<c>> \o t)[Len(s) + 1] = c
           /\ \A i \in 1..Len(t) : (s \o <<c>> \o t)[Len(s) + 1 + i] = t[i]
<1> DEFINE head == s \o <<c>>
           all == head \o t
<1>1. /\ head \in Characters /\ Len(s) \in Nat /\ Len(head) = Len(s) + 1
      /\ \A i \in 1..Len(s) : head[i] = s[i]
      /\ head[Len(s) + 1] = c
    BY JoinedWith
<1> HIDE DEF head
<1>2. /\ Len(t) \in Nat /\ Len(all) = Len(head) + Len(t)
      /\ \A i \in 1..Len(head) : all[i] = head[i]
      /\ \A i \in 1..Len(t) : all[Len(head) + i] = t[i]
    BY <1>1, Joined
<1> HIDE DEF all
<1>3. /\ Len(all) = Len(s) + 1 + Len(t)
      /\ \A i \in 1..Len(s) : all[i] = s[i]
      /\ all[Len(s) + 1] = c
      /\ \A i \in 1..Len(t) : all[Len(s) + 1 + i] = t[i]
    BY <1>1, <1>2
<1> QED
    BY Zenon, <1>3 DEF all, head

\* Two joins that read alike, by a character that their first texts do not contain.
JoinedAlike(c, q, r, a, b) ==
    /\ c \in Nat
    /\ q \in Characters /\ r \in Characters /\ a \in Characters /\ b \in Characters
    /\ ~Contains(q, c) /\ ~Contains(r, c)
    /\ q \o <<c>> \o a = r \o <<c>> \o b

\* The texts can be told apart again.
LEMMA JoinIsInjective ==
    ASSUME NEW c, NEW q, NEW r, NEW a, NEW b, JoinedAlike(c, q, r, a, b)
    PROVE  q = r /\ a = b
<1>0. /\ c \in Nat
      /\ q \in Characters /\ r \in Characters /\ a \in Characters /\ b \in Characters
      /\ ~Contains(q, c) /\ ~Contains(r, c)
      /\ q \o <<c>> \o a = r \o <<c>> \o b
    BY Zenon DEF JoinedAlike
<1> DEFINE s == q \o <<c>> \o a
           t == r \o <<c>> \o b
<1>1. Len(q) \in Nat /\ Len(r) \in Nat /\ Len(a) \in Nat /\ Len(b) \in Nat
    BY <1>0, CharactersOf
<1>2. /\ Len(s) = Len(q) + 1 + Len(a)
      /\ \A i \in 1..Len(q) : s[i] = q[i]
      /\ s[Len(q) + 1] = c
      /\ \A i \in 1..Len(a) : s[Len(q) + 1 + i] = a[i]
    BY <1>0, ThreeJoined
<1>3. /\ Len(t) = Len(r) + 1 + Len(b)
      /\ \A i \in 1..Len(r) : t[i] = r[i]
      /\ t[Len(r) + 1] = c
      /\ \A i \in 1..Len(b) : t[Len(r) + 1 + i] = b[i]
    BY <1>0, ThreeJoined
<1>4. s = t
    BY Zenon, <1>0
<1> HIDE DEF s, t
<1>5. ~(Len(q) < Len(r))
  <2>1. ASSUME Len(q) < Len(r) PROVE FALSE
    <3>1. Len(q) + 1 \in 1..Len(r) /\ s[Len(q) + 1] = c
        BY <1>1, <1>2, <2>1
    <3>2. r[Len(q) + 1] = c
        BY <1>3, <1>4, <3>1
    <3> QED
        BY <1>0, <3>1, <3>2 DEF Contains
  <2> QED
      BY <2>1
<1>6. ~(Len(r) < Len(q))
  <2>1. ASSUME Len(r) < Len(q) PROVE FALSE
    <3>1. Len(r) + 1 \in 1..Len(q) /\ t[Len(r) + 1] = c
        BY <1>1, <1>3, <2>1
    <3>2. q[Len(r) + 1] = c
        BY <1>2, <1>4, <3>1
    <3> QED
        BY <1>0, <3>1, <3>2 DEF Contains
  <2> QED
      BY <2>1
<1>7. Len(q) = Len(r) /\ Len(a) = Len(b)
  <2>1. Len(s) = Len(t) /\ Len(q) = Len(r)
      BY <1>1, <1>4, <1>5, <1>6
  <2> QED
      BY <1>1, <1>2, <1>3, <2>1
<1>8. (\A i \in 1..Len(q) : q[i] = r[i]) /\ \A i \in 1..Len(a) : a[i] = b[i]
    BY <1>1, <1>2, <1>3, <1>4, <1>7
<1> QED
    BY <1>0, <1>7, <1>8, SameTexts

LEMMA DestinationType ==
    ASSUME NEW d \in Destination
    PROVE  /\ d.queue \in Name /\ d.binding \in Trimmed
           /\ d.queue \in Characters /\ d.binding \in Characters
           /\ d = [queue |-> d.queue, binding |-> d.binding]
    BY TrimmedType DEF Destination, Name

LEMMA KeyIsInjective ==
    ASSUME NEW d \in Destination, NEW e \in Destination,
           ~Contains(d.queue, Bar), ~Contains(e.queue, Bar),
           DestinationKey(d) = DestinationKey(e)
    PROVE  d = e
<1> DEFINE q == d.queue
           r == e.queue
           a == d.binding
           b == e.binding
<1>1. q \in Characters /\ r \in Characters /\ a \in Characters /\ b \in Characters
    BY DestinationType
<1>2. q \o <<Bar>> \o a = r \o <<Bar>> \o b
    BY DEF DestinationKey
<1>3. ~Contains(q, Bar) /\ ~Contains(r, Bar) /\ Bar \in Nat
    BY DEF Bar
<1> HIDE DEF q, r, a, b
<1>4. JoinedAlike(Bar, q, r, a, b)
    BY Zenon, <1>1, <1>2, <1>3 DEF JoinedAlike
<1>5. q = r /\ a = b
    BY <1>4, JoinIsInjective
<1> QED
    BY <1>5, DestinationType DEF q, r, a, b

\* dedupeDestinations keeps one destination for each key.
LEMMA DedupeKeepsKeys ==
    ASSUME NEW destinations \in Seq(Destination)
    PROVE  LET kept == dedupeDestinations(destinations) IN
           /\ kept \in Seq(Destination)
           /\ \A k \in DOMAIN kept : \E i \in DOMAIN destinations : kept[k] = destinations[i]
           /\ \A k, l \in DOMAIN kept : DestinationKey(kept[k]) = DestinationKey(kept[l]) => k = l
           /\ \A i \in DOMAIN destinations : \E k \in DOMAIN kept :
                 DestinationKey(kept[k]) = DestinationKey(destinations[i])
<1> DEFINE places == {i \in DOMAIN destinations : \A j \in 1..(i - 1) :
                        DestinationKey(destinations[j]) # DestinationKey(destinations[i])}
           kept == dedupeDestinations(destinations)
           at == Ascending(places)
<1>1. kept = Elements(destinations, places)
    BY DEF dedupeDestinations
<1>2. Len(destinations) \in Nat /\ DOMAIN destinations = 1..Len(destinations)
    OBVIOUS
<1>3. places \in SUBSET (1..Len(destinations))
    BY <1>2
<1>4. /\ kept \in Seq(Destination) /\ Cardinality(places) \in Nat
      /\ DOMAIN kept = 1..Cardinality(places)
      /\ \A k \in DOMAIN kept : at[k] \in places /\ kept[k] = destinations[at[k]]
      /\ \A k, l \in DOMAIN kept : k < l => at[k] < at[l]
      /\ \A i \in places : \E k \in DOMAIN kept : at[k] = i
  <2> HIDE DEF places, kept
  <2>1. Selects(Elements(destinations, places), Destination, destinations, places, at)
      BY <1>3, ElementsAre
  <2> HIDE DEF at
  <2>2. Selects(kept, Destination, destinations, places, at)
      BY Zenon, <1>1, <2>1
  <2>3. /\ kept \in Seq(Destination) /\ Cardinality(places) \in Nat
        /\ DOMAIN kept = 1..Cardinality(places)
        /\ at \in [1..Cardinality(places) -> places]
        /\ \A k \in 1..Cardinality(places) : kept[k] = destinations[at[k]]
        /\ \A k, l \in 1..Cardinality(places) : k < l => at[k] < at[l]
        /\ \A i \in places : \E k \in 1..Cardinality(places) : at[k] = i
      BY Zenon, <2>2 DEF Selects
  <2>4. \A k \in 1..Cardinality(places) : at[k] \in places
      BY <2>3
  <2> QED
      BY <2>3, <2>4
<1>5. \A i \in places : /\ i \in 1..Len(destinations)
                        /\ \A j \in 1..(i - 1) :
                              DestinationKey(destinations[j]) # DestinationKey(destinations[i])
    BY <1>2
<1>6. ASSUME NEW k \in DOMAIN kept, NEW l \in DOMAIN kept, k < l
      PROVE  DestinationKey(kept[k]) # DestinationKey(kept[l])
  <2>1. at[k] \in places /\ at[l] \in places /\ at[k] < at[l]
      BY <1>4, <1>6
  <2>2. at[k] \in 1..(at[l] - 1)
      BY <1>2, <1>5, <2>1
  <2> HIDE DEF at, places, kept
  <2>3. DestinationKey(destinations[at[k]]) # DestinationKey(destinations[at[l]])
      BY <1>5, <2>1, <2>2
  <2> QED
      BY <1>4, <2>3
<1>7. ASSUME NEW i \in DOMAIN destinations
      PROVE  \E k \in DOMAIN kept : DestinationKey(kept[k]) = DestinationKey(destinations[i])
  <2> DEFINE same == {j \in 1..Len(destinations) :
                        DestinationKey(destinations[j]) = DestinationKey(destinations[i])}
  <2>1. same \in SUBSET Nat /\ i \in same
      BY <1>2
  <2>2. PICK j \in same : \A m \in same : j <= m
      BY <2>1, Least
  <2>3. j \in places
    <3>1. ASSUME NEW m \in 1..(j - 1)
          PROVE  DestinationKey(destinations[m]) # DestinationKey(destinations[j])
      <4>1. m \in 1..Len(destinations) /\ ~(j <= m)
          BY <1>2
      <4>2. m \notin same
          BY <2>2, <4>1
      <4>3. DestinationKey(destinations[m]) # DestinationKey(destinations[i])
          BY <4>1, <4>2
      <4> QED
          BY <4>3
    <3> QED
        BY <1>2, <3>1
  <2>4. PICK k \in DOMAIN kept : at[k] = j
      BY <1>4, <2>3
  <2>5. kept[k] = destinations[j]
      BY <1>4, <2>4
  <2> QED
      BY <2>5
<1>8. \A k \in DOMAIN kept : kept[k] = destinations[at[k]] /\ at[k] \in DOMAIN destinations
    BY <1>2, <1>4, <1>5
<1>9. \A k, l \in DOMAIN kept : DestinationKey(kept[k]) = DestinationKey(kept[l]) => k = l
  <2>1. \A k, l \in DOMAIN kept : k < l \/ l < k \/ k = l
      BY <1>4
  <2> HIDE DEF kept
  <2> QED
      BY <1>6, <2>1
<1> HIDE DEF kept, at
<1>10. \A k \in DOMAIN kept : \E i \in DOMAIN destinations : kept[k] = destinations[i]
    BY <1>8
<1> QED
    BY <1>4, <1>7, <1>9, <1>10 DEF kept

LEMMA DestinationsType ==
    ASSUME NEW headers, \A h \in DOMAIN headers : IsHeader(headers[h]), ~ParseFails(headers),
           NEW eventType, NEW firehoseKey \in Characters, NEW key \in Characters
    PROVE  parseDestinations(headers, eventType, firehoseKey, key) \in Seq(Destination)
<1> DEFINE queue == headerString(headers, <<"queue_name", "queue", "destination_queue">>)
           binding == headerString(headers, <<"binding_key", "binding-key">>)
           delivered == parseDeliverQueueFromFirehoseRoutingKey(firehoseKey, key)
           result == parseDestinations(headers, eventType, firehoseKey, key)
<1>1. queue \in Trimmed /\ binding \in Trimmed
  <2>1. /\ IsList(<<"queue_name", "queue", "destination_queue">>)
        /\ IsList(<<"binding_key", "binding-key">>)
      BY DEF IsList
  <2>2. \A h \in DOMAIN headers : headers[h].text \in Characters
      BY DEF IsHeader, IsValue
  <2> QED
      BY <2>1, <2>2, HeaderStringType
<1>2. delivered \in Trimmed
    BY DeliveredQueueType
<1>3. result = IF "destinations" \in DOMAIN headers
               THEN parseDestinationList(headers["destinations"])
               ELSE IF queue # <<>> THEN <<To(queue, binding)>>
               ELSE IF eventType = Deliver /\ delivered # <<>> THEN <<To(delivered, <<>>)>>
               ELSE <<>>
    BY DEF parseDestinations
<1> HIDE DEF queue, binding, delivered, result
<1>4. queue # <<>> => To(queue, binding) \in Destination
    BY <1>1 DEF To, Destination, Name
<1>5. delivered # <<>> => To(delivered, <<>>) \in Destination
    BY <1>2, EmptyIsTrimmed DEF To, Destination, Name
<1>6. <<>> \in Seq(Destination) /\ \A d \in Destination : <<d>> \in Seq(Destination)
    OBVIOUS
<1>7. CASE "destinations" \in DOMAIN headers
    BY <1>3, <1>7, ListIs DEF result
<1>8. CASE "destinations" \notin DOMAIN headers
    BY <1>3, <1>4, <1>5, <1>6, <1>8 DEF result
<1> QED
    BY <1>7, <1>8

LEMMA ParsedIsTrace ==
    ASSUME NEW d, Delivered(d), ~ParseFails(d.headers)
    PROVE  ParseDelivery(d) \in Trace
<1> DEFINE key == parseRoutingKey(d.headers)
           typeHeader == headerString(d.headers, <<"event_type", "event-type", "event">>)
           typeOfKey == parseEventTypeFromRoutingKey(d.key)
           eventType == firstNonEmpty(<<typeHeader, typeOfKey>>)
           exchangeHeader == headerString(d.headers,
                <<"exchange_name", "exchange", "x-exchange", "exchange-name">>)
           exchangeOfKey == parseExchangeFromFirehoseRoutingKey(d.key, eventType, key)
           exchange == firstNonEmpty(<<exchangeHeader, exchangeOfKey, UnknownExchange>>)
           destinations == dedupeDestinations(parseDestinations(d.headers, eventType, d.key, key))
<1>1. d.key \in Characters /\ \A h \in DOMAIN d.headers : IsHeader(d.headers[h])
    BY DEF Delivered
<1>2. key \in Trimmed
    BY <1>1, RoutingKeyType
<1>3. typeHeader \in Trimmed /\ exchangeHeader \in Trimmed
  <2>1. /\ IsList(<<"event_type", "event-type", "event">>)
        /\ IsList(<<"exchange_name", "exchange", "x-exchange", "exchange-name">>)
      BY DEF IsList
  <2>2. \A h \in DOMAIN d.headers : d.headers[h].text \in Characters
      BY <1>1 DEF IsHeader, IsValue
  <2> QED
      BY <2>1, <2>2, HeaderStringType
<1>4. typeOfKey \in Trimmed
    BY <1>1, EventTypeType
<1> HIDE DEF key, typeHeader, typeOfKey, exchangeHeader
<1>5. eventType \in Trimmed
    BY <1>3, <1>4, TrimmedType, FirstOfTwo
<1> HIDE DEF eventType
<1>6. exchangeOfKey \in Trimmed
    BY <1>1, <1>2, <1>5, TrimmedType, ExchangeType
<1> HIDE DEF exchangeOfKey
<1>7. exchange \in Name
  <2>1. UnknownExchange \in Characters /\ UnknownExchange # <<>> /\ Len(UnknownExchange) = 2
        /\ UnknownExchange[1] # Space /\ UnknownExchange[2] # Space
      BY DEF UnknownExchange, Space, Characters
  <2>2. Trim(UnknownExchange) = UnknownExchange
      BY <2>1, InkAtEnds DEF Trimmed
  <2>3. /\ exchange \in Trimmed
        /\ exchange = IF Trim(exchangeHeader) # <<>> THEN Trim(exchangeHeader)
                      ELSE IF Trim(exchangeOfKey) # <<>> THEN Trim(exchangeOfKey)
                      ELSE Trim(UnknownExchange)
      BY <1>3, <1>6, <2>1, TrimmedType, FirstOfThree
  <2> HIDE DEF exchange
  <2> QED
      BY <2>1, <2>2, <2>3 DEF Name
<1>8. firstNonEmpty(<<key, d.key>>) \in Trimmed
    BY <1>1, <1>2, TrimmedType, FirstOfTwo
<1>9. destinations \in Seq(Destination)
    BY <1>1, <1>2, TrimmedType, DestinationsType, DedupeKeepsKeys
<1>10. ParseDelivery(d) = [exchange |-> exchange, eventType |-> eventType,
                           routingKey |-> firstNonEmpty(<<key, d.key>>),
                           destinations |-> destinations]
    BY DEF ParseDelivery, exchange, exchangeHeader, exchangeOfKey, eventType, typeHeader,
           typeOfKey, key
<1> HIDE DEF exchange, destinations
<1> QED
    BY <1>5, <1>7, <1>8, <1>9, <1>10 DEF Trace

--------------------------------------------------------------------------------
(* What is rendered is what is parsed *)

Deliveries == UNION Streams

Handling ==
    /\ stream \in Streams
    /\ handled \in Seq(Deliveries) /\ rendered \in Seq(Trace)
    /\ Len(handled) = Len(rendered)
    /\ \A i \in 1..Len(handled) : /\ ~ParseFails(handled[i].headers)
                                  /\ rendered[i] = ParseDelivery(handled[i])

LEMMA DeliveriesType == \A d \in Deliveries : Delivered(d)
    BY PipelineAssumption DEF Deliveries, Delivered

LEMMA HandlingInit == PipelineInit => Handling
    BY DEF PipelineInit, Init, Handling

\* What a delivery that is rendered adds to the histories.
LEMMA HandlingStep ==
    ASSUME Handling, NEW d \in stream, handleDelivery(d)
    PROVE  /\ Handling' /\ ParseDelivery(d) \in Trace
           /\ rendered' = Append(rendered, ParseDelivery(d))
<1>1. d \in Deliveries /\ Delivered(d)
    BY DeliveriesType DEF Handling, Deliveries
<1>2. /\ ~ParseFails(d.headers) /\ handled' = Append(handled, d) /\ stream' = stream
      /\ rendered' = Append(rendered, ParseDelivery(d))
    BY DEF handleDelivery, RenderTrace
<1>3. ParseDelivery(d) \in Trace
    BY <1>1, <1>2, ParsedIsTrace
<1>4. /\ handled' \in Seq(Deliveries) /\ rendered' \in Seq(Trace)
      /\ Len(handled') = Len(handled) + 1 /\ Len(rendered') = Len(rendered) + 1
      /\ Len(handled) \in Nat
    BY <1>1, <1>2, <1>3 DEF Handling
<1>5. ASSUME NEW i \in 1..Len(handled')
      PROVE  ~ParseFails(handled'[i].headers) /\ rendered'[i] = ParseDelivery(handled'[i])
  <2>1. CASE i \in 1..Len(handled)
    <3>1. handled'[i] = handled[i] /\ rendered'[i] = rendered[i]
        BY <1>2, <1>3, <1>1, <2>1 DEF Handling
    <3> QED
        BY <2>1, <3>1 DEF Handling
  <2>2. CASE i = Len(handled) + 1
    <3>1. handled'[i] = d /\ rendered'[i] = ParseDelivery(d)
        BY <1>2, <1>3, <1>1, <2>2 DEF Handling
    <3> QED
        BY <1>2, <3>1
  <2> QED
      BY <1>4, <2>1, <2>2
<1> QED
    BY <1>2, <1>3, <1>4, <1>5 DEF Handling

LEMMA HandlingNext == Handling /\ [Next]_vars => Handling'
<1> SUFFICES ASSUME Handling, [Next]_vars PROVE Handling'
    OBVIOUS
<1>1. CASE PipelineClose
    BY <1>1 DEF PipelineClose, Close, Handling
<1>2. ASSUME NEW d \in stream, Unreadable(d) \/ FilteredOut(d)
      PROVE  Handling'
    BY <1>2 DEF Unreadable, FilteredOut, vars, reportVars, Handling
<1>3. ASSUME NEW d \in stream, handleDelivery(d)
      PROVE  Handling'
    BY <1>3, HandlingStep
<1>4. ASSUME NEW d \in stream, DeliveryFails(d)
      PROVE  Handling'
    BY <1>4 DEF DeliveryFails, RenderFails, Handling
<1>5. CASE UNCHANGED vars
    BY <1>5 DEF vars, reportVars, Handling
<1> QED
    BY <1>1, <1>2, <1>3, <1>4, <1>5 DEF Next

LEMMA HandlingAlways == Spec => []Handling
    BY HandlingInit, HandlingNext, PTL DEF Spec

LEMMA HandlingKeepsDestinations == Handling => DestinationsKept
<1> SUFFICES ASSUME Handling, NEW i \in DOMAIN handled,
                    "destinations" \in DOMAIN handled[i].headers
             PROVE  LET listed == Range(parseDestinationList(handled[i].headers["destinations"]))
                        kept == rendered[i].destinations
                    IN  /\ Range(kept) \subseteq listed
                        /\ Len(kept) = Cardinality(Range(kept))
                        /\ (\A d \in listed : ~Contains(d.queue, Bar)) => Range(kept) = listed
    BY DEF DestinationsKept
<1> DEFINE d == handled[i]
           list == parseDestinationList(d.headers["destinations"])
           kept == rendered[i].destinations
<1>1. i \in 1..Len(handled) /\ d \in Deliveries
    BY DEF Handling
<1>2. Delivered(d) /\ ~ParseFails(d.headers) /\ rendered[i] = ParseDelivery(d)
    BY <1>1, DeliveriesType DEF Handling
<1>3. list \in Seq(Destination)
    BY <1>2, ListIs DEF Delivered
<1>4. kept = dedupeDestinations(list)
    BY <1>2 DEF ParseDelivery, parseDestinations
<1> HIDE DEF list, kept
<1>5. /\ kept \in Seq(Destination)
      /\ \A k \in DOMAIN kept : \E j \in DOMAIN list : kept[k] = list[j]
      /\ \A k, l \in DOMAIN kept : DestinationKey(kept[k]) = DestinationKey(kept[l]) => k = l
      /\ \A j \in DOMAIN list : \E k \in DOMAIN kept :
            DestinationKey(kept[k]) = DestinationKey(list[j])
    BY <1>3, <1>4, DedupeKeepsKeys
<1>6. Range(kept) \subseteq Range(list)
    BY <1>5 DEF Range
<1>7. Len(kept) = Cardinality(Range(kept))
  <2>1. kept \in Bijection(1..Len(kept), Range(kept))
    <3>1. kept \in [1..Len(kept) -> Range(kept)] /\ DOMAIN kept = 1..Len(kept)
        BY <1>5 DEF Range
    <3>2. \A k, l \in 1..Len(kept) : kept[k] = kept[l] => k = l
        BY <1>5, <3>1
    <3> QED
        BY <3>1, <3>2 DEF Bijection, Injection, Surjection, IsInjective, Range
  <2>2. Len(kept) \in Nat /\ ExistsBijection(1..Len(kept), Range(kept))
      BY <1>5, <2>1 DEF ExistsBijection
  <2> QED
      BY <2>2, FS_CountingElements
<1>8. ASSUME \A e \in Range(list) : ~Contains(e.queue, Bar), NEW e \in Range(list)
      PROVE  e \in Range(kept)
  <2>1. PICK j \in DOMAIN list : list[j] = e
      BY DEF Range
  <2>2. PICK k \in DOMAIN kept : DestinationKey(kept[k]) = DestinationKey(e)
      BY <1>5, <2>1
  <2>3. kept[k] \in Destination /\ kept[k] \in Range(list) /\ e \in Destination
      BY <1>3, <1>5, <1>6, <2>1 DEF Range
  <2>4. ~Contains(kept[k].queue, Bar) /\ ~Contains(e.queue, Bar)
      BY <1>8, <2>3
  <2>5. kept[k] = e
      BY <2>2, <2>3, <2>4, KeyIsInjective
  <2> QED
      BY <2>5 DEF Range
<1> QED
    BY <1>6, <1>7, <1>8 DEF list, kept

\* A trace goes to each pair of queue and binding key that the header lists, once,
\* unless a bar in them makes two pairs alike (dedupeDestinations), whatever the
\* deliveries are.
THEOREM Destinations == Spec => []DestinationsKept
    BY HandlingAlways, HandlingKeepsDestinations, PTL

--------------------------------------------------------------------------------
(* The names of a message *)

\* A name that is followed by a key.
LEMMA NameAndKey ==
    ASSUME NEW name \in Trimmed, NEW key \in Trimmed
    PROVE  LET r == name \o (<<Dot>> \o key)
           IN  /\ r \in Trimmed /\ r \in Characters /\ r # <<>> /\ r # name
               /\ Len(r) = Len(name) + 1 + Len(key)
               /\ \A i \in 1..Len(name) : r[i] = name[i]
               /\ r[Len(name) + 1] = Dot
               /\ \A i \in 1..Len(key) : r[Len(name) + 1 + i] = key[i]
<1> DEFINE tail == <<Dot>> \o key
           r == name \o tail
<1>1. name \in Characters /\ Len(name) \in Nat /\ key \in Characters /\ Len(key) \in Nat
    BY TrimmedType, CharactersOf
<1>2. /\ tail \in Characters /\ Len(tail) = 1 + Len(key) /\ tail[1] = Dot
      /\ \A i \in 1..Len(key) : tail[1 + i] = key[i]
    BY <1>1 DEF Characters, Dot
<1> HIDE DEF tail
<1>3. /\ r \in Characters /\ Len(r) = Len(name) + Len(tail)
      /\ \A i \in 1..Len(name) : r[i] = name[i]
      /\ \A i \in 1..Len(tail) : r[Len(name) + i] = tail[i]
    BY <1>1, <1>2, Joined
<1> HIDE DEF r
<1>4. Len(r) = Len(name) + 1 + Len(key)
    BY <1>1, <1>2, <1>3
<1>5. r[Len(name) + 1] = Dot
  <2>1. 1 \in 1..Len(tail)
      BY <1>1, <1>2
  <2> QED
      BY <1>2, <1>3, <2>1
<1>6. ASSUME NEW i \in 1..Len(key)
      PROVE  r[Len(name) + 1 + i] = key[i]
  <2>1. 1 + i \in 1..Len(tail) /\ Len(name) + (1 + i) = Len(name) + 1 + i
      BY <1>1, <1>2
  <2>2. r[Len(name) + (1 + i)] = tail[1 + i]
      BY <1>3, <2>1
  <2> QED
      BY <1>2, <2>1, <2>2
<1>7. r # <<>> /\ Len(r) \in Nat /\ r # name
    BY <1>1, <1>4
<1>8. r[1] # Space
  <2>1. CASE name = <<>>
    <3>1. Len(name) + 1 = 1
        BY <2>1
    <3> QED
        BY <1>5, <3>1 DEF Dot, Space
  <2>2. CASE name # <<>>
    <3>1. name[1] # Space /\ 1 \in 1..Len(name)
        BY <1>1, <2>2, InkAtEnds
    <3> QED
        BY <1>3, <3>1
  <2> QED
      BY <2>1, <2>2
<1>9. r[Len(r)] # Space
  <2>1. CASE key = <<>>
    <3>1. Len(r) = Len(name) + 1
        BY <1>1, <1>4, <2>1
    <3> QED
        BY <1>5, <3>1 DEF Dot, Space
  <2>2. CASE key # <<>>
    <3>1. key[Len(key)] # Space /\ Len(key) \in 1..Len(key)
        BY <1>1, <2>2, InkAtEnds
    <3> QED
        BY <1>4, <1>6, <3>1
  <2> QED
      BY <2>1, <2>2
<1>10. r \in Trimmed
    BY <1>3, <1>7, <1>8, <1>9, InkAtEnds
<1> QED
    BY <1>3, <1>4, <1>5, <1>6, <1>7, <1>10 DEF r, tail

\* A key of the firehose is read as a type and what follows its dot.
ReadsAs(key, type, r) ==
    /\ key \in Characters /\ Trim(key) = key /\ FirstWord(key) = type
    /\ type \in Characters /\ Trim(type) = type /\ type # <<>>
    /\ IsPrefix(type \o <<Dot>>, key)
    /\ Trim(SubSeq(key, Len(type \o <<Dot>>) + 1, Len(key))) = r

LEMMA TypeAndRest ==
    ASSUME NEW c \in {112, 100}, NEW r \in Trimmed
    PROVE  ReadsAs((<<c>> \o <<Dot>>) \o r, <<c>>, r)
<1> DEFINE type == <<c>>
           prefix == type \o <<Dot>>
           key == prefix \o r
<1>1. r \in Characters /\ Len(r) \in Nat
    BY TrimmedType, CharactersOf
<1>2. c \in Nat /\ c # Dot /\ c # Space
    BY DEF Dot, Space
<1>3. type \in Characters /\ Len(type) = 1 /\ type[1] = c
    BY <1>2 DEF Characters
<1> HIDE DEF type
<1>4. prefix \in Characters /\ Len(prefix) = 2 /\ prefix[1] = c /\ prefix[2] = Dot
  <2>1. Dot \in Nat
      BY DEF Dot
  <2>2. /\ prefix \in Characters /\ Len(prefix) = Len(type) + 1
        /\ \A i \in 1..Len(type) : prefix[i] = type[i]
        /\ prefix[Len(type) + 1] = Dot
    <3>1. type \in Characters
        BY <1>3
    <3> QED
        BY <2>1, <3>1, JoinedWith
  <2> HIDE DEF prefix
  <2> QED
      BY <1>3, <2>2
<1> HIDE DEF prefix
<1>5. /\ key \in Characters /\ Len(key) = Len(prefix) + Len(r)
      /\ \A i \in 1..Len(prefix) : key[i] = prefix[i]
      /\ \A i \in 1..Len(r) : key[Len(prefix) + i] = r[i]
  <2>1. prefix \in Characters /\ r \in Characters
      BY <1>1, <1>4
  <2> QED
      BY <2>1, Joined
<1> HIDE DEF key
<1>6. Len(key) = 2 + Len(r) /\ key[1] = c /\ key[2] = Dot
    BY <1>4, <1>5
<1>7. key \in Trimmed
  <2>1. key # <<>> /\ key[1] # Space
      BY <1>1, <1>2, <1>6
  <2>2. key[Len(key)] # Space
    <3>1. CASE r = <<>>
      <4>1. Len(key) = 2
          BY <1>6, <3>1
      <4>2. key[2] # Space
          BY <1>6 DEF Dot, Space
      <4> QED
          BY <4>1, <4>2
    <3>2. CASE r # <<>>
      <4>1. r[Len(r)] # Space /\ Len(r) \in 1..Len(r)
          BY <1>1, <3>2, InkAtEnds
      <4>2. key[Len(prefix) + Len(r)] = r[Len(r)]
          BY <1>5, <4>1
      <4> QED
          BY <1>5, <4>1, <4>2
    <3> QED
        BY <3>1, <3>2
  <2> QED
      BY <1>5, <2>1, <2>2, InkAtEnds
<1>8. FirstWord(key) = type
  <2>1. 2 \in 1..Len(key) /\ key[2] = Dot /\ \A j \in 1..(2 - 1) : key[j] # Dot
      BY <1>1, <1>2, <1>6
  <2>2. FirstWord(key) = SubSeq(key, 1, 2 - 1)
    <3>1. key \in Characters
        BY <1>5
    <3>2. \A i \in 1..Len(key) : key[i] = Dot /\ (\A j \in 1..(i - 1) : key[j] # Dot)
                                 => FirstWord(key) = SubSeq(key, 1, i - 1)
        BY <3>1, FirstWordIs
    <3> QED
        BY <2>1, <3>2
  <2>3. \A i \in 1..Len(type) : key[0 + i] = type[i]
      BY <1>3, <1>6
  <2> DEFINE zero == 0
             one == 1
  <2>4. zero \in Nat /\ one = zero + Len(type) /\ one <= Len(key)
      BY <1>1, <1>3, <1>6
  <2>5. StandsAt(type, key, zero, one)
      BY <1>3, <1>5, <2>3, <2>4 DEF StandsAt
  <2>6. zero + 1 = 1 /\ one = 2 - 1
      OBVIOUS
  <2> HIDE DEF zero, one
  <2>7. SubSeq(key, zero + 1, one) = type
      BY <2>5, PartReads
  <2> QED
      BY <2>2, <2>6, <2>7
<1>9. Trim(type) = type /\ type # <<>>
  <2>0. Len(type) # 0 /\ Len(<<>>) = 0
      BY <1>3
  <2>1. type # <<>> /\ type[1] # Space /\ type[Len(type)] # Space
      BY Zenon, <1>2, <1>3, <2>0
  <2> QED
      BY <1>3, <2>1, InkAtEnds DEF Trimmed
<1>10. IsPrefix(prefix, key)
  <2>1. Len(prefix) <= Len(key)
      BY <1>1, <1>4, <1>6
  <2>2. \A i \in 1..Len(prefix) : prefix[i] = key[i]
      BY <1>5
  <2> QED
      BY <1>4, <1>5, <2>1, <2>2, PrefixIs
<1>11. SubSeq(key, Len(prefix) + 1, Len(key)) = r
  <2>1. Len(prefix) \in Nat /\ Len(key) \in Nat
      BY <1>1, <1>4, <1>6
  <2>2. StandsAt(r, key, Len(prefix), Len(key))
      BY <1>1, <1>5, <2>1 DEF StandsAt
  <2> QED
      BY Zenon, <2>2, PartReads
<1>12. Trim(r) = r /\ Trim(key) = key
    BY <1>7 DEF Trimmed
<1>13. ReadsAs(key, type, r)
    BY <1>3, <1>5, <1>8, <1>9, <1>10, <1>11, <1>12 DEF ReadsAs, prefix
<1> QED
    BY <1>13 DEF key, prefix, type

\* A key that was appended to a name is cut off it again.
LEMMA KeyIsCut ==
    ASSUME NEW name \in Name, NEW key \in Name
    PROVE  WithoutKey(name \o (<<Dot>> \o key), key) = name
<1> DEFINE suffix == <<Dot>> \o key
           r == name \o suffix
<1>1. /\ name \in Trimmed /\ name \in Characters /\ Len(name) \in Nat /\ name # <<>>
      /\ key \in Trimmed /\ key \in Characters /\ Len(key) \in Nat /\ key # <<>>
    BY TrimmedType, CharactersOf DEF Name
<1>2. suffix \in Characters /\ Len(suffix) = 1 + Len(key)
    BY <1>1 DEF Characters, Dot
<1> HIDE DEF suffix
<1>3. /\ r \in Characters /\ Len(r) = Len(name) + Len(suffix)
      /\ \A i \in 1..Len(name) : r[i] = name[i]
      /\ \A i \in 1..Len(suffix) : r[Len(name) + i] = suffix[i]
    BY <1>1, <1>2, Joined
<1> HIDE DEF r
<1>4. Len(r) - Len(suffix) = Len(name) /\ Len(suffix) <= Len(r) /\ Len(name) <= Len(r)
    BY <1>1, <1>2, <1>3
<1>5. IsSuffix(suffix, r)
    BY <1>2, <1>3, <1>4, SuffixIs
<1>6. SubSeq(r, 1, Len(r) - Len(suffix)) = name
  <2>1. \A i \in 1..Len(name) : r[0 + i] = name[i]
      BY <1>1, <1>3
  <2>2. 0 \in Nat /\ Len(name) = 0 + Len(name)
      BY <1>1
  <2>3. StandsAt(name, r, 0, Len(name))
      BY <1>1, <1>3, <1>4, <2>1, <2>2 DEF StandsAt
  <2>4. SubSeq(r, 0 + 1, Len(name)) = name
      BY Zenon, <2>3, PartReads
  <2> QED
      BY <1>4, <2>4
<1>7. Trim(name) = name
    BY <1>1 DEF Trimmed
<1>8. WithoutKey(r, key) = name
    BY <1>1, <1>5, <1>6, <1>7 DEF WithoutKey, suffix
<1> QED
    BY <1>8 DEF r, suffix

\* A name is cut exactly if it ends like one to which the key was appended.
LEMMA NameIsCut ==
    ASSUME NEW name \in Name, NEW key \in Name
    PROVE  /\ WithoutKey(name, key) # <<>>
           /\ WithoutKey(name, key) = name <=> ~IsStrictSuffix(<<Dot>> \o key, name)
<1> DEFINE suffix == <<Dot>> \o key
           front == SubSeq(name, 1, Len(name) - Len(suffix))
<1>1. /\ name \in Trimmed /\ name \in Characters /\ Len(name) \in Nat /\ name # <<>>
      /\ key \in Characters /\ Len(key) \in Nat /\ key # <<>>
    BY TrimmedType, CharactersOf DEF Name
<1>2. suffix \in Characters /\ Len(suffix) = 1 + Len(key)
    BY <1>1 DEF Characters, Dot
<1>3. WithoutKey(name, key) = IF IsSuffix(suffix, name) /\ Trim(front) # <<>>
                              THEN Trim(front) ELSE name
    BY <1>1 DEF WithoutKey
<1>4. IsStrictSuffix(suffix, name) <=> IsSuffix(suffix, name) /\ suffix # name
    BY DEF IsStrictSuffix
<1> HIDE DEF suffix, front
<1>5. WithoutKey(name, key) # <<>>
    BY <1>1, <1>3
<1>6. CASE ~IsSuffix(suffix, name)
    BY <1>3, <1>4, <1>5, <1>6 DEF suffix
<1>7. CASE suffix = name
  <2>1. Len(name) - Len(suffix) = 0
      BY <1>1, <1>7
  <2>2. 1 \in Nat \ {0} /\ 0 \in Int /\ 0 <= Len(name) /\ 0 < 1
      BY <1>1
  <2>3. front = <<>>
      BY <1>1, <2>1, <2>2, PartOf DEF front
  <2>4. Trim(front) = <<>>
      BY <2>3, EmptyIsTrimmed, TrimmedType
  <2> QED
      BY <1>3, <1>4, <1>5, <1>7, <2>4 DEF suffix
<1>8. CASE IsSuffix(suffix, name) /\ suffix # name
  <2>1. /\ Len(suffix) <= Len(name)
        /\ \A j \in 1..Len(suffix) : name[Len(name) - Len(suffix) + j] = suffix[j]
      BY <1>1, <1>2, <1>8, SuffixIs
  <2>2. ASSUME Len(suffix) = Len(name) PROVE FALSE
    <3>1. \A j \in 1..Len(suffix) : suffix[j] = name[j]
        BY <1>1, <2>1, <2>2
    <3> QED
        BY <1>1, <1>2, <1>8, <2>2, <3>1, SameTexts
  <2>3. PICK n \in Nat : n = Len(name) - Len(suffix) /\ n >= 1 /\ n < Len(name)
    <3>1. /\ Len(name) - Len(suffix) \in Nat /\ Len(name) - Len(suffix) >= 1
          /\ Len(name) - Len(suffix) < Len(name)
        BY <1>1, <1>2, <2>1, <2>2
    <3> QED
        BY <3>1
  <2>4. /\ front \in Characters /\ Len(front) = n - 1 + 1
        /\ \A i \in 1..(n - 1 + 1) : front[i] = name[1 + i - 1]
      BY <1>1, <2>3, PartOf DEF front
  <2>5. Len(front) = n /\ front[1] = name[1]
      BY <2>3, <2>4
  <2>6. Trim(front) # <<>>
    <3>1. name[1] # Space
        BY <1>1, InkAtEnds
    <3>2. 1 \in Ink(front)
        BY <2>3, <2>4, <2>5, <3>1, CharactersOf DEF Ink
    <3> QED
        BY <2>4, <3>2, InkIsKept
  <2>7. Len(Trim(front)) <= n
      BY <2>4, <2>5, TrimIsShorter
  <2>8. Trim(front) # name
      BY <1>1, <2>3, <2>7
  <2>9. WithoutKey(name, key) = Trim(front)
      BY <1>3, <1>8, <2>6
  <2> QED
      BY <1>4, <1>5, <1>8, <2>8, <2>9 DEF suffix
<1> QED
    BY <1>6, <1>7, <1>8

\* A header of which at most the first of its names is present.
LEMMA HeaderIs ==
    ASSUME NEW headers, \A h \in DOMAIN headers : headers[h].text \in Characters,
           NEW keys, IsList(keys), 1 \in DOMAIN keys,
           \A i \in DOMAIN keys : i # 1 => keys[i] \notin DOMAIN headers
    PROVE  headerString(headers, keys)
              = IF keys[1] \in DOMAIN headers THEN Trim(headers[keys[1]].text) ELSE <<>>
<1> DEFINE values == [i \in DOMAIN keys |-> IF keys[i] \in DOMAIN headers
                                            THEN stringFromAny(headers[keys[i]]) ELSE <<>>]
           first == IF keys[1] \in DOMAIN headers THEN headers[keys[1]].text ELSE <<>>
<1>1. PICK n \in Nat : DOMAIN keys = 1..n
    BY DEF IsList
<1>2. \A i \in 1..n : values[i] \in Characters
    BY <1>1, EmptyIsTrimmed, TrimmedType DEF stringFromAny
<1>3. values = [i \in DOMAIN values |-> values[i]] /\ DOMAIN values = 1..n
    BY <1>1
<1>4. values[1] = first /\ \A i \in 1..n : i # 1 => values[i] = <<>>
    BY <1>1 DEF stringFromAny
<1>5. headerString(headers, keys) = firstNonEmpty(values)
    BY DEF headerString
<1>6. Trim(<<>>) = <<>>
    BY EmptyIsTrimmed, TrimmedType
<1> HIDE DEF values
<1>7. values \in Seq(Characters) /\ Len(values) = n
    BY <1>2, <1>3, SeqIs
<1>8. firstNonEmpty(values) = Trim(first)
  <2>1. CASE Trim(first) = <<>>
    <3>1. \A i \in 1..Len(values) : Trim(values[i]) = <<>>
        BY <1>4, <1>6, <1>7, <2>1
    <3>2. firstNonEmpty(values) = <<>>
        BY <1>7, <3>1, FirstNonEmptyIs
    <3> QED
        BY <2>1, <3>2
  <2>2. CASE Trim(first) # <<>>
    <3>1. 1 \in 1..Len(values) /\ Trim(values[1]) # <<>>
          /\ \A j \in 1..(1 - 1) : Trim(values[j]) = <<>>
        BY <1>1, <1>4, <1>7, <2>2
    <3>2. firstNonEmpty(values) = Trim(values[1])
        BY <1>7, <3>1, FirstNonEmptyIs
    <3> QED
        BY <1>4, <3>2
  <2> QED
      BY <2>1, <2>2
<1> QED
    BY <1>5, <1>6, <1>8

\* The key that the headers of a message's event say.
KeySaid(m) == IF m.keyed THEN m.key ELSE <<>>

ExchangeSaid(m) == IF m.named THEN m.exchange ELSE <<>>

\* What follows the type in the key of a message's event.
Rest(m) == m.name \o (IF m.appended THEN <<Dot>> \o m.key ELSE <<>>)

LEMMA MessageIs ==
    ASSUME NEW m, IsMessage(m), HasTrimmedNames(m)
    PROVE  /\ m.type \in {Publish, Deliver}
           /\ m.name \in Trimmed /\ m.key \in Trimmed /\ m.exchange \in Trimmed
           /\ m.appended \in BOOLEAN /\ m.keyed \in BOOLEAN /\ m.named \in BOOLEAN
           /\ KeySaid(m) \in Trimmed /\ ExchangeSaid(m) \in Trimmed
<1>1. m.name \in Characters /\ m.key \in Characters /\ m.exchange \in Characters
    BY DEF IsMessage
<1>2. m.name \in Trimmed /\ m.key \in Trimmed /\ m.exchange \in Trimmed
    BY <1>1 DEF HasTrimmedNames, Trimmed
<1>3. /\ m.type \in {Publish, Deliver}
      /\ m.appended \in BOOLEAN /\ m.keyed \in BOOLEAN /\ m.named \in BOOLEAN
    BY DEF IsMessage
<1> QED
    BY <1>2, <1>3, EmptyIsTrimmed DEF KeySaid, ExchangeSaid

LEMMA HeadersAre ==
    ASSUME NEW m, IsMessage(m), HasTrimmedNames(m)
    PROVE  LET headers == Event(m).headers
           IN  /\ \A h \in DOMAIN headers : headers[h].text \in Characters
               /\ DOMAIN headers \subseteq {"routing_keys", "exchange_name"}
               /\ parseRoutingKey(headers) = KeySaid(m)
               /\ headerString(headers, <<"exchange_name", "exchange", "x-exchange", "exchange-name">>)
                     = ExchangeSaid(m)
<1> DEFINE headers == Event(m).headers
<1>1. /\ m.key \in Trimmed /\ m.exchange \in Trimmed
      /\ m.key \in Characters /\ m.exchange \in Characters
      /\ Trim(m.key) = m.key /\ Trim(m.exchange) = m.exchange
    BY MessageIs, TrimmedType
<1>2. headers = [h \in (IF m.keyed THEN {"routing_keys"} ELSE {})
                         \cup (IF m.named THEN {"exchange_name"} ELSE {}) |->
                    IF h = "routing_keys" THEN List(<<Str(m.key)>>) ELSE Str(m.exchange)]
    BY DEF Event
<1> HIDE DEF headers
<1>3. /\ DOMAIN headers \subseteq {"routing_keys", "exchange_name"}
      /\ "routing_keys" \in DOMAIN headers <=> m.keyed
      /\ "exchange_name" \in DOMAIN headers <=> m.named
    BY <1>2
<1>4. "routing_keys" \in DOMAIN headers => headers["routing_keys"] = List(<<Str(m.key)>>)
    BY <1>2
<1>5. "exchange_name" \in DOMAIN headers => headers["exchange_name"] = Str(m.exchange)
    BY <1>2
<1>6. \A h \in DOMAIN headers : headers[h].text \in Characters
  <2>1. <<>> \in Characters
      BY EmptyIsTrimmed, TrimmedType
  <2> QED
      BY <1>1, <1>3, <1>4, <1>5, <2>1 DEF List, Str
<1>7. parseRoutingKey(headers) = KeySaid(m)
  <2> DEFINE keys == <<"routing_key", "routing-key">>
  <2>1. IsList(keys) /\ 1 \in DOMAIN keys /\ \A i \in DOMAIN keys : keys[i] \notin DOMAIN headers
      BY <1>3 DEF IsList
  <2> HIDE DEF keys
  <2>2. headerString(headers, keys) = <<>>
      BY <1>6, <2>1, HeaderIs
  <2>3. CASE m.keyed
    <3> DEFINE value == headers["routing_keys"]
    <3>1. "routing_keys" \in DOMAIN headers /\ value = List(<<Str(m.key)>>)
        BY <1>3, <1>4, <2>3
    <3>2. parseStringSliceFirst(value) = firstNonEmpty(<<m.key>>)
      <4> HIDE DEF value
      <4>1. value.kind = "list" /\ value.items = <<Str(m.key)>>
          BY <3>1 DEF List
      <4>2. [i \in DOMAIN value.items |-> stringFromAny(value.items[i])] = <<m.key>>
          BY <4>1 DEF stringFromAny, Str
      <4> QED
          BY <4>1, <4>2 DEF parseStringSliceFirst
    <3>3. firstNonEmpty(<<m.key>>) = m.key
        BY <1>1, FirstOfOne
    <3> QED
        BY <2>2, <2>3, <3>1, <3>2, <3>3 DEF parseRoutingKey, keys, KeySaid
  <2>4. CASE ~m.keyed
    <3>1. "routing_keys" \notin DOMAIN headers
        BY <1>3, <2>4
    <3> QED
        BY <2>2, <2>4, <3>1 DEF parseRoutingKey, keys, KeySaid
  <2> QED
      BY <2>3, <2>4
<1>8. headerString(headers, <<"exchange_name", "exchange", "x-exchange", "exchange-name">>)
         = ExchangeSaid(m)
  <2> DEFINE keys == <<"exchange_name", "exchange", "x-exchange", "exchange-name">>
  <2>1. /\ IsList(keys) /\ 1 \in DOMAIN keys /\ keys[1] = "exchange_name"
        /\ \A i \in DOMAIN keys : i # 1 => keys[i] \notin DOMAIN headers
      BY <1>3 DEF IsList
  <2> HIDE DEF keys
  <2>2. headerString(headers, keys)
           = IF keys[1] \in DOMAIN headers THEN Trim(headers[keys[1]].text) ELSE <<>>
      BY <1>6, <2>1, HeaderIs
  <2>3. CASE m.named
    <3>1. "exchange_name" \in DOMAIN headers /\ headers["exchange_name"].text = m.exchange
        BY <1>3, <1>5, <2>3 DEF Str
    <3> QED
        BY <1>1, <2>1, <2>2, <2>3, <3>1 DEF keys, ExchangeSaid
  <2>4. CASE ~m.named
    <3>1. "exchange_name" \notin DOMAIN headers
        BY <1>3, <2>4
    <3> QED
        BY <2>1, <2>2, <2>4, <3>1 DEF keys, ExchangeSaid
  <2> QED
      BY <2>3, <2>4
<1> QED
    BY <1>3, <1>6, <1>7, <1>8 DEF headers

\* Cutting the key that the headers say off what follows the type leaves the name
\* exactly if the name can be told from the rest.
LEMMA NameIsLeft ==
    ASSUME NEW m, IsMessage(m), HasTrimmedNames(m)
    PROVE  /\ Rest(m) \in Trimmed
           /\ m.name # <<>> =>
                 /\ WithoutKey(Rest(m), KeySaid(m)) # <<>>
                 /\ WithoutKey(Rest(m), KeySaid(m)) = m.name <=> IsPlain(m)
<1> DEFINE name == m.name
           key == m.key
           longer == name \o (<<Dot>> \o key)
<1>1. /\ name \in Trimmed /\ key \in Trimmed
      /\ m.appended \in BOOLEAN /\ m.keyed \in BOOLEAN
    BY MessageIs
<1>2. /\ m.appended => Rest(m) = longer
      /\ ~m.appended => Rest(m) = name
  <2>1. name \o <<>> = name
    <3>1. name \in Seq(Nat)
        BY <1>1, TrimmedType DEF Characters
    <3> HIDE DEF name
    <3> QED
        BY <3>1
  <2> QED
      BY <2>1 DEF Rest
<1>3. /\ m.keyed => KeySaid(m) = key
      /\ ~m.keyed => KeySaid(m) = <<>>
    BY DEF KeySaid
<1>4. /\ m.appended => (IsPlain(m) <=> m.keyed /\ key # <<>> /\ name # <<>>)
      /\ ~m.appended => (IsPlain(m) <=>
            ~(m.keyed /\ key # <<>> /\ IsStrictSuffix(<<Dot>> \o key, name)))
    BY DEF IsPlain
<1> HIDE DEF name, key
<1>5. longer \in Trimmed /\ longer # <<>> /\ longer # name
    BY <1>1, NameAndKey
<1>6. \A r : WithoutKey(r, <<>>) = r
    BY DEF WithoutKey
<1>7. Rest(m) \in Trimmed
    BY <1>1, <1>2, <1>5
<1>8. ASSUME name # <<>>
      PROVE  /\ WithoutKey(Rest(m), KeySaid(m)) # <<>>
             /\ WithoutKey(Rest(m), KeySaid(m)) = name <=> IsPlain(m)
  <2>1. CASE m.appended /\ m.keyed /\ key # <<>>
    <3>1. name \in Name /\ key \in Name
        BY <1>1, <1>8, <2>1 DEF Name
    <3>2. WithoutKey(longer, key) = name
        BY <3>1, KeyIsCut
    <3> QED
        BY <1>2, <1>3, <1>4, <1>8, <2>1, <3>2
  <2>2. CASE m.appended /\ ~(m.keyed /\ key # <<>>)
    <3>1. KeySaid(m) = <<>>
        BY <1>1, <1>3, <2>2
    <3> QED
        BY <1>2, <1>4, <1>5, <1>6, <2>2, <3>1
  <2>3. CASE ~m.appended /\ m.keyed /\ key # <<>>
    <3>1. name \in Name /\ key \in Name
        BY <1>1, <1>8, <2>3 DEF Name
    <3>2. /\ WithoutKey(name, key) # <<>>
          /\ WithoutKey(name, key) = name <=> ~IsStrictSuffix(<<Dot>> \o key, name)
        BY <3>1, NameIsCut
    <3> QED
        BY <1>2, <1>3, <1>4, <2>3, <3>2
  <2>4. CASE ~m.appended /\ ~(m.keyed /\ key # <<>>)
    <3>1. KeySaid(m) = <<>>
        BY <1>1, <1>3, <2>4
    <3> QED
        BY <1>2, <1>4, <1>6, <1>8, <2>4, <3>1
  <2> QED
      BY <1>1, <2>1, <2>2, <2>3, <2>4
<1> QED
    BY <1>7, <1>8 DEF name

\* A text that does not begin with a blank keeps its beginning when it is trimmed.
LEMMA TrimmedAtTheEnd ==
    ASSUME NEW s \in Characters, s # <<>>, s[1] # Space
    PROVE  \E b \in 1..Len(s) : Trim(s) = SubSeq(s, 1, b)
<1>1. /\ Len(s) \in Nat \ {0} /\ DOMAIN s = 1..Len(s)
      /\ Ink(s) \in SUBSET (0..Len(s)) /\ Ink(s) \in SUBSET Nat
    BY DEF Ink, Characters
<1>2. 1 \in Ink(s)
    BY <1>1 DEF Ink
<1>3. Min(Ink(s)) \in Ink(s) /\ \A x \in Ink(s) : Min(Ink(s)) <= x
    BY <1>1, <1>2, Least DEF Min
<1>4. Max(Ink(s)) \in Ink(s)
    BY <1>1, <1>2, Greatest DEF Max
<1>5. \A i \in Ink(s) : i \in 1..Len(s)
    BY <1>1 DEF Ink
<1>6. Min(Ink(s)) = 1
    BY <1>1, <1>2, <1>3, <1>5
<1>7. Trim(s) = SubSeq(s, Min(Ink(s)), Max(Ink(s)))
    BY <1>2 DEF Trim, Ink
<1> QED
    BY <1>4, <1>5, <1>6, <1>7

\* A beginning of a name is one when it is trimmed, too.
LEMMA BeginningTrimmed ==
    ASSUME NEW name \in Trimmed, name # <<>>, NEW k \in Int, k <= Len(name)
    PROVE  IsPrefix(Trim(SubSeq(name, 1, k)), name)
<1> DEFINE part == SubSeq(name, 1, k)
<1>1. name \in Characters /\ Len(name) \in Nat \ {0} /\ name[1] # Space
    BY TrimmedType, InkAtEnds
<1>2. /\ part \in Characters
      /\ k < 1 => part = <<>>
      /\ 1 <= k => Len(part) = k - 1 + 1
      /\ \A i \in 1..(k - 1 + 1) : part[i] = name[1 + i - 1]
    BY <1>1, PartOf
<1> HIDE DEF part
<1>3. CASE k < 1
  <2>1. Trim(part) = <<>>
      BY <1>2, <1>3, EmptyIsTrimmed, TrimmedType
  <2>2. <<>> \in Characters /\ Len(<<>>) = 0
      BY EmptyIsTrimmed, TrimmedType
  <2>3. IsPrefix(<<>>, name)
      BY <1>1, <2>2, PrefixIs
  <2> QED
      BY <2>1, <2>3 DEF part
<1>4. CASE 1 <= k
  <2>1. Len(part) = k /\ \A i \in 1..k : part[i] = name[i]
      BY <1>2, <1>4
  <2>2. part # <<>> /\ part[1] # Space
      BY <1>1, <1>4, <2>1
  <2>3. PICK b \in 1..Len(part) : Trim(part) = SubSeq(part, 1, b)
      BY <1>2, <2>2, TrimmedAtTheEnd
  <2>4. /\ b \in 1..k /\ 1 \in Nat \ {0}
        /\ SubSeq(part, 1, b) \in Characters
        /\ Len(SubSeq(part, 1, b)) = b - 1 + 1
        /\ \A i \in 1..(b - 1 + 1) : SubSeq(part, 1, b)[i] = part[1 + i - 1]
      BY <1>2, <2>1, <2>3, PartOf
  <2> DEFINE e == Trim(part)
  <2>5. /\ e \in Characters /\ Len(e) = b - 1 + 1
        /\ \A i \in 1..(b - 1 + 1) : e[i] = part[1 + i - 1]
      BY <2>3, <2>4
  <2> HIDE DEF e
  <2>6. Len(e) <= Len(name) /\ \A i \in 1..Len(e) : e[i] = name[i]
      BY <1>1, <2>1, <2>4, <2>5
  <2>7. IsPrefix(e, name)
      BY <1>1, <2>5, <2>6, PrefixIs
  <2> QED
      BY <2>7 DEF e, part
<1> QED
    BY <1>3, <1>4

\* The first word is a beginning without a dot.
LEMMA FirstWordBegins ==
    ASSUME NEW s \in Characters
    PROVE  \E k \in 0..Len(s) :
              /\ FirstWord(s) = SubSeq(s, 1, k)
              /\ \A i \in 1..Len(s) : s[i] = Dot => k < i
<1> DEFINE I == {i \in 1..Len(s) : s[i] = Dot}
           n == Len(s)
<1>1. n \in Nat /\ I \in SUBSET Nat
    BY CharactersOf
<1>2. CASE I = {}
  <2>1. FirstWord(s) = s
      BY <1>2, FirstWordIs
  <2>2. 0 \in Nat /\ n = 0 + n
      BY <1>1
  <2>3. StandsAt(s, s, 0, n)
      BY <1>1, <2>2 DEF StandsAt
  <2>4. SubSeq(s, 0 + 1, n) = s
      BY Zenon, <2>3, PartReads
  <2>5. FirstWord(s) = SubSeq(s, 1, n)
      BY <2>1, <2>4
  <2>6. \A i \in 1..n : s[i] # Dot
      BY <1>2
  <2> HIDE DEF n
  <2>7. n \in 0..n
      BY <1>1
  <2> QED
      BY <2>5, <2>6, <2>7 DEF n
<1>3. CASE I # {}
  <2>1. PICK i \in I : \A j \in I : i <= j
      BY <1>1, <1>3, Least
  <2>2. i \in 1..n /\ s[i] = Dot /\ \A j \in 1..(i - 1) : s[j] # Dot
    <3>1. i \in 1..n /\ s[i] = Dot
        OBVIOUS
    <3>2. ASSUME NEW j \in 1..(i - 1), s[j] = Dot PROVE FALSE
      <4>1. j \in I
          BY <1>1, <3>1, <3>2
      <4> QED
          BY <1>1, <2>1, <3>1, <4>1
    <3> QED
        BY <3>1, <3>2
  <2>3. FirstWord(s) = SubSeq(s, 1, i - 1)
      BY <2>2, FirstWordIs
  <2>4. i - 1 \in 0..n /\ \A j \in 1..n : s[j] = Dot => i - 1 < j
    <3>1. \A j \in 1..n : s[j] = Dot => i <= j
        BY <2>1
    <3> QED
        BY <1>1, <2>2, <3>1
  <2> QED
      BY <2>3, <2>4
<1> QED
    BY <1>2, <1>3

\* Without the header, a deliver event's key gives a beginning of the queue's name.
LEMMA QueueBegins ==
    ASSUME NEW m, IsMessage(m), HasTrimmedNames(m), m.type = Deliver
    PROVE  LET r == Rest(m)
               left == WithoutKey(r, KeySaid(m))
           IN  IsPrefix(IF left # r THEN left ELSE Trim(FirstWord(r)), m.name)
<1> DEFINE name == m.name
           key == m.key
           longer == name \o (<<Dot>> \o key)
           r == Rest(m)
           left == WithoutKey(r, KeySaid(m))
<1>1. /\ name \in Trimmed /\ key \in Trimmed /\ name # <<>>
      /\ m.appended \in BOOLEAN /\ m.keyed \in BOOLEAN
    BY MessageIs DEF IsMessage
<1>2. name \in Characters /\ Len(name) \in Nat
    BY <1>1, TrimmedType, CharactersOf
<1>3. /\ m.appended => r = longer
      /\ ~m.appended => r = name
  <2>1. name \o <<>> = name
    <3>1. name \in Seq(Nat)
        BY <1>2 DEF Characters
    <3> HIDE DEF name
    <3> QED
        BY <3>1
  <2> QED
      BY <2>1 DEF Rest
<1>4. KeySaid(m) = IF m.keyed THEN key ELSE <<>>
    BY DEF KeySaid
<1> HIDE DEF name, key, r
<1>5. /\ longer \in Characters /\ Len(longer) = Len(name) + 1 + Len(key)
      /\ \A i \in 1..Len(name) : longer[i] = name[i]
      /\ longer[Len(name) + 1] = Dot
    BY <1>1, NameAndKey
<1>6. key \in Characters /\ Len(key) \in Nat
    BY <1>1, TrimmedType, CharactersOf
<1>7. IsPrefix(name, name)
    BY <1>2, PrefixIs
<1>8. ASSUME left # r PROVE IsPrefix(left, name)
  <2>1. m.keyed /\ key # <<>> /\ KeySaid(m) = key
      BY <1>1, <1>4, <1>8 DEF WithoutKey
  <2>2. CASE m.appended
    <3>1. name \in Name /\ key \in Name
        BY <1>1, <2>1 DEF Name
    <3>2. WithoutKey(longer, key) = name
        BY <3>1, KeyIsCut
    <3>3. left = name
        BY <1>3, <2>1, <2>2, <3>2
    <3> QED
        BY <1>7, <3>3
  <2>3. CASE ~m.appended
    <3> DEFINE suffix == <<Dot>> \o key
               cut == Len(name) - Len(suffix)
    <3>1. r = name
        BY <1>3, <2>3
    <3>2. left = Trim(SubSeq(name, 1, cut))
        BY <1>8, <2>1, <3>1 DEF WithoutKey
    <3>3. Len(suffix) = 1 + Len(key)
        BY <1>6 DEF Characters, Dot
    <3>4. cut \in Int /\ cut <= Len(name)
        BY <1>2, <1>6, <3>3
    <3> HIDE DEF cut
    <3>5. IsPrefix(Trim(SubSeq(name, 1, cut)), name)
        BY <1>1, <3>4, BeginningTrimmed
    <3> QED
        BY <3>2, <3>5
  <2> QED
      BY <1>1, <2>2, <2>3
<1>9. IsPrefix(Trim(FirstWord(r)), name)
  <2>1. CASE ~m.appended
    <3>1. PICK k \in 0..Len(name) : FirstWord(name) = SubSeq(name, 1, k)
        BY <1>2, FirstWordBegins
    <3>2. k \in Int /\ k <= Len(name)
        BY <1>2
    <3>3. IsPrefix(Trim(SubSeq(name, 1, k)), name)
        BY <1>1, <3>2, BeginningTrimmed
    <3> QED
        BY <1>3, <2>1, <3>1, <3>3
  <2>2. CASE m.appended
    <3> HIDE DEF longer
    <3>1. PICK k \in 0..Len(longer) :
             /\ FirstWord(longer) = SubSeq(longer, 1, k)
             /\ \A i \in 1..Len(longer) : longer[i] = Dot => k < i
        BY <1>5, FirstWordBegins
    <3>2. Len(name) + 1 \in 1..Len(longer)
        BY <1>2, <1>5, <1>6
    <3>3. k \in Nat /\ k <= Len(name)
        BY <1>2, <1>5, <1>6, <3>1, <3>2
    <3> DEFINE word == SubSeq(name, 1, k)
    <3>4. /\ word \in Characters
          /\ k < 1 => word = <<>>
          /\ 1 <= k => Len(word) = k - 1 + 1
          /\ \A i \in 1..(k - 1 + 1) : word[i] = name[1 + i - 1]
        BY <1>2, <3>3, PartOf
    <3> HIDE DEF word
    <3>5. Len(word) = k /\ \A i \in 1..k : word[i] = longer[0 + i]
        BY <1>2, <1>5, <3>3, <3>4
    <3>6. StandsAt(word, longer, 0, k)
        BY <1>2, <1>5, <1>6, <3>3, <3>4, <3>5 DEF StandsAt
    <3>7. SubSeq(longer, 0 + 1, k) = word
        BY Zenon, <3>6, PartReads
    <3>8. FirstWord(r) = word
        BY <1>3, <2>2, <3>1, <3>7
    <3>9. IsPrefix(Trim(word), name)
        BY <1>1, <3>3, BeginningTrimmed DEF word
    <3> QED
        BY <3>8, <3>9
  <2> QED
      BY <1>1, <2>1, <2>2
<1>10. IsPrefix(IF left # r THEN left ELSE Trim(FirstWord(r)), name)
    BY <1>8, <1>9
<1> QED
    BY <1>10 DEF name, r

\* What the parser makes of an event.
LEMMA EventIs ==
    ASSUME NEW m, IsMessage(m), HasTrimmedNames(m)
    PROVE  LET d == Event(m)
               left == WithoutKey(Rest(m), KeySaid(m))
               t == ParseDelivery(d)
           IN  /\ d.key \in Trimmed /\ d.key # <<>> /\ left \in Trimmed
               /\ t.routingKey = firstNonEmpty(<<KeySaid(m), d.key>>)
               /\ \E e \in Trimmed :
                     /\ t.exchange = firstNonEmpty(<<ExchangeSaid(m), e, UnknownExchange>>)
                     /\ m.type = Publish => e = left
                     /\ m.type = Deliver => IsPrefix(e, m.name)
               /\ t.destinations = dedupeDestinations(
                     IF m.type = Deliver /\ left # <<>> THEN <<To(left, <<>>)>> ELSE <<>>)
<1> DEFINE d == Event(m)
           headers == d.headers
           type == m.type
           r == Rest(m)
           key == KeySaid(m)
           left == WithoutKey(r, key)
<1>1. r \in Trimmed /\ key \in Trimmed /\ key \in Characters
    BY NameIsLeft, MessageIs, TrimmedType
<1>2. PICK c \in {112, 100} : type = <<c>>
    BY MessageIs DEF Publish, Deliver
<1>3. d.key = (type \o <<Dot>>) \o r
  <2> DEFINE tail == IF m.appended THEN <<Dot>> \o m.key ELSE <<>>
             name == m.name
             prefix == type \o <<Dot>>
  <2>1. d.key = (prefix \o name) \o tail /\ r = name \o tail
      BY DEF Event, Rest
  <2>2. name \in Characters /\ m.key \in Characters
      BY MessageIs, TrimmedType
  <2>3. prefix \in Characters
      BY <1>2 DEF Characters, Dot
  <2>4. tail \in Characters
    <3>1. <<>> \in Characters
        BY EmptyIsTrimmed, TrimmedType
    <3>2. <<Dot>> \o m.key \in Characters
        BY <2>2 DEF Characters, Dot
    <3> QED
        BY <3>1, <3>2
  <2> HIDE DEF tail, name, prefix
  <2>5. (prefix \o name) \o tail = prefix \o (name \o tail)
      BY <2>2, <2>3, <2>4, JoinedInTurn
  <2> QED
      BY <2>1, <2>5 DEF prefix
<1>4. /\ d.key \in Characters /\ Trim(d.key) = d.key /\ FirstWord(d.key) = type
      /\ Trim(type) = type /\ type \in Characters /\ type # <<>>
      /\ IsPrefix(type \o <<Dot>>, d.key)
      /\ Trim(SubSeq(d.key, Len(type \o <<Dot>>) + 1, Len(d.key))) = r
  <2> HIDE DEF d, r, type
  <2>1. ReadsAs((<<c>> \o <<Dot>>) \o r, <<c>>, r)
      BY <1>1, TypeAndRest
  <2>2. ReadsAs(d.key, type, r)
      BY Zenon, <1>2, <1>3, <2>1
  <2> QED
      BY <2>2 DEF ReadsAs
<1>5. /\ \A h \in DOMAIN headers : headers[h].text \in Characters
      /\ DOMAIN headers \subseteq {"routing_keys", "exchange_name"}
      /\ parseRoutingKey(headers) = key
      /\ headerString(headers, <<"exchange_name", "exchange", "x-exchange", "exchange-name">>)
            = ExchangeSaid(m)
    BY HeadersAre
<1> HIDE DEF headers
<1>6. /\ headerString(headers, <<"event_type", "event-type", "event">>) = <<>>
      /\ headerString(headers, <<"queue_name", "queue", "destination_queue">>) = <<>>
      /\ "destinations" \notin DOMAIN headers
  <2> DEFINE types == <<"event_type", "event-type", "event">>
             queues == <<"queue_name", "queue", "destination_queue">>
  <2>1. /\ IsList(types) /\ 1 \in DOMAIN types
        /\ \A i \in DOMAIN types : types[i] \notin DOMAIN headers
      BY <1>5 DEF IsList
  <2>2. /\ IsList(queues) /\ 1 \in DOMAIN queues
        /\ \A i \in DOMAIN queues : queues[i] \notin DOMAIN headers
      BY <1>5 DEF IsList
  <2>3. "destinations" \notin DOMAIN headers
      BY <1>5
  <2> HIDE DEF types, queues
  <2>4. headerString(headers, types) = <<>> /\ headerString(headers, queues) = <<>>
      BY <1>5, <2>1, <2>2, HeaderIs
  <2> QED
      BY <2>3, <2>4 DEF types, queues
<1> DEFINE eventType == firstNonEmpty(<<headerString(headers, <<"event_type", "event-type", "event">>),
                                        parseEventTypeFromRoutingKey(d.key)>>)
           exchangeOfKey == parseExchangeFromFirehoseRoutingKey(d.key, eventType, key)
<1>7. eventType = type
  <2>1. parseEventTypeFromRoutingKey(d.key) = type
      BY <1>4 DEF parseEventTypeFromRoutingKey
  <2>2. <<>> \in Characters /\ Trim(<<>>) = <<>>
      BY EmptyIsTrimmed, TrimmedType
  <2>3. firstNonEmpty(<<<<>>, type>>) = type
      BY <1>4, <2>2, FirstOfTwo
  <2> QED
      BY <1>6, <2>1, <2>3
<1>8. ParseDelivery(d) =
         [exchange |-> firstNonEmpty(<<ExchangeSaid(m), exchangeOfKey, UnknownExchange>>),
          eventType |-> eventType,
          routingKey |-> firstNonEmpty(<<key, d.key>>),
          destinations |-> dedupeDestinations(parseDestinations(headers, eventType, d.key, key))]
  <2> HIDE DEF key
  <2> QED
      BY <1>5 DEF ParseDelivery, headers
<1> HIDE DEF eventType, exchangeOfKey, key, left, r, type
<1>9. left \in Trimmed
    BY <1>1, WithoutKeyType DEF left
<1>10. /\ exchangeOfKey \in Trimmed
       /\ type = Publish => exchangeOfKey = left
       /\ type = Deliver => IsPrefix(exchangeOfKey, m.name)
  <2>1. exchangeOfKey \in Trimmed
      BY <1>1, <1>4, <1>7, ExchangeType DEF exchangeOfKey
  <2>2. ASSUME type = Publish PROVE exchangeOfKey = left
      BY <1>4, <1>7, <2>2 DEF parseExchangeFromFirehoseRoutingKey, exchangeOfKey, left
  <2>3. ASSUME type = Deliver PROVE IsPrefix(exchangeOfKey, m.name)
    <3>1. type # Publish
        BY <2>3 DEF Publish, Deliver
    <3>2. exchangeOfKey = IF left # r THEN left ELSE Trim(FirstWord(r))
        BY <1>4, <1>7, <3>1 DEF parseExchangeFromFirehoseRoutingKey, exchangeOfKey, left
    <3>3. IsPrefix(IF left # r THEN left ELSE Trim(FirstWord(r)), m.name)
        BY <2>3, QueueBegins DEF left, r, key, type
    <3> QED
        BY <3>2, <3>3
  <2> QED
      BY <2>1, <2>2, <2>3
<1>11. parseDestinations(headers, type, d.key, key)
          = IF type = Deliver /\ left # <<>> THEN <<To(left, <<>>)>> ELSE <<>>
  <2>1. type = Deliver => parseDeliverQueueFromFirehoseRoutingKey(d.key, key) = left
      BY <1>4 DEF parseDeliverQueueFromFirehoseRoutingKey, left
  <2> QED
      BY <1>6, <2>1 DEF parseDestinations
<1> DEFINE t == ParseDelivery(d)
<1>12. /\ t.exchange = firstNonEmpty(<<ExchangeSaid(m), exchangeOfKey, UnknownExchange>>)
       /\ t.routingKey = firstNonEmpty(<<key, d.key>>)
       /\ t.destinations = dedupeDestinations(
             IF type = Deliver /\ left # <<>> THEN <<To(left, <<>>)>> ELSE <<>>)
    BY <1>7, <1>8, <1>11
<1> HIDE DEF t, d
<1>13. \E e \in Trimmed :
          /\ t.exchange = firstNonEmpty(<<ExchangeSaid(m), e, UnknownExchange>>)
          /\ type = Publish => e = left
          /\ type = Deliver => IsPrefix(e, m.name)
    BY <1>10, <1>12
<1>14. d.key \in Trimmed /\ d.key # <<>>
  <2>1. d.key \in Trimmed
      BY <1>4 DEF Trimmed
  <2>2. FirstWord(<<>>) = <<>>
    <3>1. <<>> \in Characters /\ Len(<<>>) = 0
        BY EmptyIsTrimmed, TrimmedType
    <3> QED
        BY <3>1, FirstWordIs
  <2>3. d.key # <<>>
      BY <1>4, <2>2
  <2> QED
      BY <2>1, <2>3
<1> QED
    BY <1>9, <1>12, <1>13, <1>14 DEF t, d, left, r, key, type

\* A list of one destination, or of none, has no duplicates.
LEMMA NothingToDedupe ==
    /\ dedupeDestinations(<<>>) = <<>>
    /\ \A e \in Destination :
          Len(dedupeDestinations(<<e>>)) = 1 /\ dedupeDestinations(<<e>>)[1] = e
<1>1. dedupeDestinations(<<>>) = <<>>
  <2> DEFINE list == <<>>
             kept == dedupeDestinations(list)
  <2>1. list \in Seq(Destination) /\ DOMAIN list = {}
      OBVIOUS
  <2> HIDE DEF list
  <2>2. kept \in Seq(Destination) /\ \A k \in DOMAIN kept : \E j \in DOMAIN list : kept[k] = list[j]
      BY <2>1, DedupeKeepsKeys
  <2> HIDE DEF kept
  <2>3. kept = <<>>
    <3>1. ASSUME NEW k \in DOMAIN kept PROVE FALSE
        BY <2>1, <2>2
    <3>2. Len(kept) = 0
        BY <2>2, <3>1
    <3> QED
        BY <2>2, <3>2
  <2> QED
      BY <2>3 DEF kept, list
<1>2. ASSUME NEW e \in Destination
      PROVE  Len(dedupeDestinations(<<e>>)) = 1 /\ dedupeDestinations(<<e>>)[1] = e
  <2> DEFINE list == <<e>>
             kept == dedupeDestinations(list)
  <2>1. list \in Seq(Destination) /\ DOMAIN list = {1} /\ list[1] = e
      OBVIOUS
  <2> HIDE DEF list
  <2>2. /\ kept \in Seq(Destination)
        /\ \A k \in DOMAIN kept : \E j \in DOMAIN list : kept[k] = list[j]
        /\ \A k, l \in DOMAIN kept : DestinationKey(kept[k]) = DestinationKey(kept[l]) => k = l
        /\ \A j \in DOMAIN list : \E k \in DOMAIN kept :
              DestinationKey(kept[k]) = DestinationKey(list[j])
      BY <2>1, DedupeKeepsKeys
  <2> HIDE DEF kept
  <2>3. \A k \in DOMAIN kept : kept[k] = e
      BY <2>1, <2>2
  <2>4. Len(kept) \in Nat /\ DOMAIN kept = 1..Len(kept)
      BY <2>2
  <2>5. PICK k \in DOMAIN kept : TRUE
      BY <2>1, <2>2
  <2>6. \A l \in DOMAIN kept : l = k
      BY <2>2, <2>3
  <2>7. Len(kept) = 1
    <3>1. 1 \in DOMAIN kept /\ Len(kept) \in DOMAIN kept
        BY <2>4, <2>5
    <3> QED
        BY <2>6, <3>1
  <2> QED
      BY <2>3, <2>4, <2>7 DEF kept, list
<1> QED
    BY <1>1, <1>2

\* What NamesRecovered asks of a message, the trace of its event and the event's key.
Recovers(m, t, key) ==
    LET said == m.named /\ m.exchange # <<>>
    IN  /\ m.type = Publish =>
              /\ t.exchange = m.exchange <=> said \/ (IsPlain(m) /\ m.exchange # <<>>)
              /\ t.destinations = <<>>
        /\ m.type = Deliver =>
              /\ Len(t.destinations) = 1
              /\ t.destinations[1].queue = m.name <=> IsPlain(m)
              /\ IF said THEN t.exchange = m.exchange
                 ELSE t.exchange = UnknownExchange \/ IsPrefix(t.exchange, m.name)
        /\ t.routingKey = IF m.keyed /\ m.key # <<>> THEN m.key ELSE key

\* The names of one message are recovered from its event.
LEMMA Recovered ==
    ASSUME NEW m, IsMessage(m), HasTrimmedNames(m)
    PROVE  Recovers(m, ParseDelivery(Event(m)), Event(m).key)
<1> DEFINE d == Event(m)
           t == ParseDelivery(d)
           left == WithoutKey(Rest(m), KeySaid(m))
           given == ExchangeSaid(m)
           plain == IsPlain(m)
           said == m.named /\ m.exchange # <<>>
<1>1. /\ m.name \in Trimmed /\ m.keyed \in BOOLEAN /\ m.named \in BOOLEAN
      /\ KeySaid(m) \in Trimmed /\ KeySaid(m) \in Characters
      /\ given \in Trimmed /\ given \in Characters
    BY MessageIs, TrimmedType
<1>2. /\ m.type = Publish => m.name = m.exchange
      /\ m.type = Deliver => m.name # <<>>
    BY DEF IsMessage
<1>3. m.name # <<>> => left # <<>> /\ (left = m.name <=> plain)
    BY NameIsLeft
<1>4. /\ d.key \in Trimmed /\ d.key # <<>> /\ left \in Trimmed
      /\ t.routingKey = firstNonEmpty(<<KeySaid(m), d.key>>)
      /\ t.destinations = dedupeDestinations(
            IF m.type = Deliver /\ left # <<>> THEN <<To(left, <<>>)>> ELSE <<>>)
    BY EventIs
<1>5. PICK e \in Trimmed :
         /\ t.exchange = firstNonEmpty(<<given, e, UnknownExchange>>)
         /\ m.type = Publish => e = left
         /\ m.type = Deliver => IsPrefix(e, m.name)
    BY EventIs
<1>6. given = IF said THEN m.exchange ELSE <<>>
    BY <1>1 DEF ExchangeSaid
<1>7. Deliver # Publish
    BY DEF Deliver, Publish
<1>8. UnknownExchange \in Trimmed /\ UnknownExchange # <<>>
  <2> DEFINE s == UnknownExchange
  <2>1. s \in Characters /\ s # <<>> /\ Len(s) = 2 /\ s[1] # Space /\ s[2] # Space
      BY DEF Characters, Space, UnknownExchange
  <2> HIDE DEF s
  <2>2. s \in Trimmed
      BY <2>1, InkAtEnds
  <2> QED
      BY <2>1, <2>2 DEF s
<1> HIDE DEF d, t, left, given, plain
<1>9. t.exchange = IF given # <<>> THEN given ELSE IF e # <<>> THEN e ELSE UnknownExchange
  <2>1. /\ given \in Characters /\ Trim(given) = given /\ e \in Characters /\ Trim(e) = e
        /\ UnknownExchange \in Characters /\ Trim(UnknownExchange) = UnknownExchange
      BY <1>1, <1>8, TrimmedType
  <2>2. firstNonEmpty(<<given, e, UnknownExchange>>)
           = IF Trim(given) # <<>> THEN Trim(given)
             ELSE IF Trim(e) # <<>> THEN Trim(e) ELSE Trim(UnknownExchange)
      BY <2>1, FirstOfThree
  <2> QED
      BY <1>5, <2>1, <2>2
<1>10. ASSUME said PROVE t.exchange = m.exchange
    BY <1>6, <1>9, <1>10
<1>11. ASSUME m.type = Publish
       PROVE  /\ t.exchange = m.exchange <=> said \/ (plain /\ m.exchange # <<>>)
              /\ t.destinations = <<>>
  <2>1. t.destinations = <<>>
      BY <1>4, <1>7, <1>11, NothingToDedupe
  <2>2. CASE said
      BY <1>10, <2>1, <2>2
  <2>3. CASE ~said
    <3>1. m.name = m.exchange /\ e = left
        BY <1>2, <1>5, <1>11
    <3>2. t.exchange = IF left # <<>> THEN left ELSE UnknownExchange
        BY <1>6, <1>9, <2>3, <3>1
    <3>3. t.exchange = m.exchange <=> plain /\ m.exchange # <<>>
        BY <1>3, <1>8, <3>1, <3>2
    <3> QED
        BY <2>1, <2>3, <3>3
  <2> QED
      BY <2>2, <2>3
<1>12. ASSUME m.type = Deliver
       PROVE  Len(t.destinations) = 1 /\ (t.destinations[1].queue = m.name <=> plain)
  <2>1. left # <<>> /\ (left = m.name <=> plain)
      BY <1>2, <1>3, <1>12
  <2> DEFINE to == To(left, <<>>)
  <2>2. to \in Destination /\ to.queue = left
      BY <1>4, <2>1, EmptyIsTrimmed DEF To, Destination, Name
  <2>3. t.destinations = dedupeDestinations(<<to>>)
      BY <1>4, <1>12, <2>1
  <2> HIDE DEF to
  <2>4. Len(t.destinations) = 1 /\ t.destinations[1] = to
      BY <2>2, <2>3, NothingToDedupe
  <2> QED
      BY <2>1, <2>2, <2>4
<1>13. ASSUME m.type = Deliver
       PROVE  IF said THEN t.exchange = m.exchange
              ELSE t.exchange = UnknownExchange \/ IsPrefix(t.exchange, m.name)
  <2>1. CASE said
      BY <1>10, <2>1
  <2>2. CASE ~said
      BY <1>5, <1>6, <1>9, <1>13, <2>2
  <2> QED
      BY <2>1, <2>2
<1>14. t.routingKey = IF m.keyed /\ m.key # <<>> THEN m.key ELSE d.key
  <2>1. KeySaid(m) = IF m.keyed /\ m.key # <<>> THEN m.key ELSE <<>>
      BY <1>1 DEF KeySaid
  <2>2. /\ Trim(KeySaid(m)) = KeySaid(m)
        /\ d.key \in Characters /\ Trim(d.key) = d.key
      BY <1>1, <1>4, TrimmedType
  <2>3. firstNonEmpty(<<KeySaid(m), d.key>>)
           = IF Trim(KeySaid(m)) # <<>> THEN Trim(KeySaid(m)) ELSE Trim(d.key)
      BY <1>1, <2>2, FirstOfTwo
  <2> QED
      BY <1>4, <2>1, <2>2, <2>3
<1>15. Recovers(m, t, d.key)
    BY <1>11, <1>12, <1>13, <1>14 DEF Recovers, plain
<1> QED
    BY <1>15 DEF t, d

LEMMA HandlingRecoversNames == Handling => NamesRecovered
<1> SUFFICES ASSUME Handling, NEW i \in DOMAIN handled,
                    "meant" \in DOMAIN handled[i], HasTrimmedNames(handled[i].meant)
             PROVE  Recovers(handled[i].meant, rendered[i], handled[i].key)
    BY Zenon DEF NamesRecovered, Recovers
<1> DEFINE m == handled[i].meant
<1>1. i \in 1..Len(handled) /\ handled[i] \in Deliveries
    BY DEF Handling
<1>2. Delivered(handled[i]) /\ rendered[i] = ParseDelivery(handled[i])
    BY <1>1, DeliveriesType DEF Handling
<1>3. IsMessage(m) /\ handled[i] = Event(m)
    BY <1>2 DEF Delivered
<1>4. rendered[i] = ParseDelivery(Event(m))
    BY <1>2, <1>3
<1> HIDE DEF m
<1>5. HasTrimmedNames(m)
    BY DEF m
<1>6. Recovers(m, ParseDelivery(Event(m)), Event(m).key)
    BY <1>3, <1>5, Recovered
<1>7. handled[i].key = Event(m).key
    BY <1>3
<1> QED
    BY Zenon, <1>4, <1>6, <1>7 DEF m

\* What the parser reads out of an event of a message whose names neither begin nor end
\* with blanks: the exchange of a publish event exactly where a header says it or the
\* name can be told from the rest of the event's key, but the default exchange never; the
\* queue of a deliver event exactly where the name can be told; of its exchange, without
\* that header, nothing but a beginning of the queue's name; and the routing key, or the
\* key of the event if no header says it (parseExchangeFromFirehoseRoutingKey and
\* parseDeliverQueueFromFirehoseRoutingKey, ParseDelivery in parser.go).
THEOREM MessageNames == Spec => []NamesRecovered
    BY HandlingAlways, HandlingRecoversNames, PTL

--------------------------------------------------------------------------------
(* What is counted is what was rendered *)

\* The items that each renderer counts of a trace.
EdgesOf(t) == [j \in DOMAIN Reached(t) |-> Edge(t, Reached(t)[j])]

KeysOf(t) ==
    IF t.destinations = <<>>
    THEN <<PageKey(t.exchange, UnroutedQueue, OrElse(t.routingKey, NoKey))>>
    ELSE [j \in DOMAIN t.destinations |->
            PageKey(t.exchange, OrElse(t.destinations[j].queue, UnknownQueue),
                    OrElse(t.destinations[j].binding, OrElse(t.routingKey, NoKey)))]

ExchangesOf(t) == <<t.exchange>>

QueuesOf(t) == [j \in DOMAIN t.destinations |-> OrElse(t.destinations[j].queue, UnknownQueue)]

RoutingKeysOf(t) == IF t.routingKey = <<>> THEN <<>> ELSE <<t.routingKey>>

EdgeLists(traces) == [i \in DOMAIN traces |-> EdgesOf(traces[i])]
KeyLists(traces) == [i \in DOMAIN traces |-> KeysOf(traces[i])]
ExchangeLists(traces) == [i \in DOMAIN traces |-> ExchangesOf(traces[i])]
QueueLists(traces) == [i \in DOMAIN traces |-> QueuesOf(traces[i])]
RoutingKeyLists(traces) == [i \in DOMAIN traces |-> RoutingKeysOf(traces[i])]
MetricLists(traces) == [i \in DOMAIN traces |-> Metrics(traces[i])]

\* The metrics of the traces, and the first ones of another whose sending failed.
BrokenLists(traces, t, sent) ==
    [i \in 1..(Len(traces) + 1) |->
        IF i = Len(traces) + 1 THEN SubSeq(Metrics(t), 1, sent) ELSE Metrics(traces[i])]

GraphCounted ==
    /\ Tallies(graph.edges, EdgeLists(rendered))
    /\ graph.exchanges = {e.from : e \in DOMAIN graph.edges}
    /\ graph.queues = {e.to : e \in DOMAIN graph.edges}

SummaryCounted ==
    /\ summary.total = Len(rendered)
    /\ summary.unrouted = Cardinality({i \in DOMAIN rendered : IsUnrouted(rendered[i])})
    /\ Tallies(summary.exchanges, ExchangeLists(rendered))
    /\ Tallies(summary.queues, QueueLists(rendered))
    /\ Tallies(summary.routingKeys, RoutingKeyLists(rendered))

PageCounted ==
    /\ page.exchanges = graph.exchanges /\ page.queues = graph.queues
    /\ Tallies(page.edges, KeyLists(rendered))

MetricsCounted ==
    /\ failed \in BOOLEAN
    /\ ~failed => Tallies(metrics, MetricLists(rendered))
    /\ failed => \E t \in Trace : \E sent \in 0..(Len(Metrics(t)) - 1) :
                    Tallies(metrics, BrokenLists(rendered, t, sent))

TablesWritten ==
    /\ closed \in BOOLEAN
    /\ closed => report = [exchanges |-> writeTopN(summary.exchanges),
                           queues |-> writeTopN(summary.queues),
                           routingKeys |-> writeTopN(summary.routingKeys)]

GraphDrawn == closed => drawing = [dot |-> DOT(graph), mermaid |-> Mermaid(graph)]

Counted ==
    /\ Handling /\ GraphCounted /\ SummaryCounted /\ PageCounted /\ MetricsCounted
    /\ TablesWritten /\ GraphDrawn

LEMMA TraceIs ==
    ASSUME NEW t \in Trace
    PROVE  /\ t.exchange \in Name /\ t.eventType \in Trimmed /\ t.routingKey \in Trimmed
           /\ t.destinations \in Seq(Destination)
           /\ Len(t.destinations) \in Nat /\ DOMAIN t.destinations = 1..Len(t.destinations)
           /\ \A j \in DOMAIN t.destinations :
                 t.destinations[j].queue \in Name /\ t.destinations[j].binding \in Trimmed
<1>1. /\ t.exchange \in Name /\ t.eventType \in Trimmed /\ t.routingKey \in Trimmed
      /\ t.destinations \in Seq(Destination)
    BY DEF Trace
<1>2. \A j \in DOMAIN t.destinations : t.destinations[j] \in Destination
    BY <1>1
<1> QED
    BY <1>1, <1>2, DestinationType

\* A trace is sent as an event, and then as unrouted or as its deliveries.
LEMMA MetricsAre ==
    ASSUME NEW t \in Trace
    PROVE  /\ Len(Metrics(t)) \in Nat \ {0} /\ DOMAIN Metrics(t) = 1..Len(Metrics(t))
           /\ Metrics(t)[1] = Metric("events", <<Segment(t.exchange), Segment(t.eventType)>>)
           /\ IsUnrouted(t) =>
                 /\ Len(Metrics(t)) = 2 /\ Len(t.destinations) = 0
                 /\ Metrics(t)[2] = Metric("unrouted", <<Segment(t.exchange)>>)
           /\ ~IsUnrouted(t) =>
                 /\ Len(Metrics(t)) = Len(t.destinations) + 1
                 /\ \A j \in DOMAIN t.destinations :
                       Metrics(t)[j + 1] = Metric("deliveries",
                           <<Segment(t.exchange), Segment(t.destinations[j].queue)>>)
<1> DEFINE event == Metric("events", <<Segment(t.exchange), Segment(t.eventType)>>)
           O == Outcome(t)
           n == Len(t.destinations)
           k == IF IsUnrouted(t) THEN 1 ELSE n
<1>1. n \in Nat /\ DOMAIN t.destinations = 1..n
    BY TraceIs
<1>2. IsUnrouted(t) => n = 0
    BY <1>1 DEF IsUnrouted
<1>3. IsUnrouted(t) =>
         O = [i \in 1..1 |-> Metric("unrouted", <<Segment(t.exchange)>>)]
    BY DEF Outcome
<1>4. ~IsUnrouted(t) =>
         O = [i \in 1..n |-> Metric("deliveries",
                               <<Segment(t.exchange), Segment(t.destinations[i].queue)>>)]
    BY <1>1 DEF Outcome
<1>5. Metrics(t) = <<event>> \o O
    BY DEF Metrics, Events
<1> HIDE DEF O, n, event
<1>6. k \in Nat /\ DOMAIN O = 1..k /\ O = [i \in DOMAIN O |-> O[i]]
    BY <1>1, <1>3, <1>4
<1> HIDE DEF k
<1>7. /\ Len(Metrics(t)) = k + 1 /\ DOMAIN Metrics(t) = 1..(k + 1)
      /\ Metrics(t)[1] = event
      /\ \A i \in 1..k : Metrics(t)[i + 1] = O[i]
    BY <1>5, <1>6, Prepended
<1>8. CASE IsUnrouted(t)
  <2>1. k = 1 /\ n = 0 /\ O[1] = Metric("unrouted", <<Segment(t.exchange)>>)
      BY <1>2, <1>3, <1>8 DEF k
  <2>2. Metrics(t)[1 + 1] = O[1]
      BY <1>7, <2>1
  <2> QED
      BY <1>7, <1>8, <2>1, <2>2 DEF event, n
<1>9. CASE ~IsUnrouted(t)
  <2>1. k = n
      BY <1>9 DEF k
  <2>2. \A i \in 1..n : Metrics(t)[i + 1] = Metric("deliveries",
                            <<Segment(t.exchange), Segment(t.destinations[i].queue)>>)
      BY <1>4, <1>7, <1>9, <2>1
  <2>3. Len(Metrics(t)) = n + 1 /\ DOMAIN Metrics(t) = 1..Len(Metrics(t))
        /\ Len(Metrics(t)) \in Nat \ {0}
      BY <1>1, <1>7, <2>1
  <2> QED
      BY <1>1, <1>7, <1>9, <2>2, <2>3 DEF event, n
<1> QED
    BY <1>8, <1>9

\* The first of a trace's metrics.
LEMMA FirstMetrics ==
    ASSUME NEW t \in Trace, NEW sent \in 0..(Len(Metrics(t)) - 1)
    PROVE  /\ DOMAIN SubSeq(Metrics(t), 1, sent) = 1..sent
           /\ \A j \in 1..sent : /\ j \in DOMAIN Metrics(t)
                                 /\ SubSeq(Metrics(t), 1, sent)[j] = Metrics(t)[j]
<1> DEFINE ms == Metrics(t)
<1>1. Len(ms) \in Nat /\ DOMAIN ms = 1..Len(ms)
    BY MetricsAre
<1> HIDE DEF ms
<1>2. sent \in Nat /\ sent - 1 + 1 = sent /\ \A j \in 1..sent : j \in 1..Len(ms) /\ j + 1 - 1 = j
    BY <1>1 DEF ms
<1>3. DOMAIN SubSeq(ms, 1, sent) = 1..sent
    BY <1>2
<1>4. \A j \in 1..sent : j \in DOMAIN ms /\ SubSeq(ms, 1, sent)[j] = ms[j]
    BY <1>1, <1>2
<1> QED
    BY <1>3, <1>4 DEF ms

LEMMA ItemsAreLists ==
    ASSUME NEW t \in Trace
    PROVE  /\ IsList(EdgesOf(t)) /\ IsList(KeysOf(t)) /\ IsList(ExchangesOf(t))
           /\ IsList(QueuesOf(t)) /\ IsList(RoutingKeysOf(t)) /\ IsList(Metrics(t))
           /\ DOMAIN EdgesOf(t) = DOMAIN Reached(t) /\ DOMAIN KeysOf(t) = DOMAIN Reached(t)
           /\ DOMAIN QueuesOf(t) = DOMAIN t.destinations
<1>1. IsList(t.destinations) /\ IsList(Metrics(t))
    BY TraceIs, MetricsAre DEF IsList
<1>2. \A x : IsList(<<x>>) /\ DOMAIN <<x>> = 1..1
    BY DEF IsList
<1>3. IsList(<<>>)
    BY DEF IsList
<1>4. IsList(Reached(t))
    BY <1>1, <1>2 DEF Reached, Unrouted
<1>5. IsList(EdgesOf(t)) /\ DOMAIN EdgesOf(t) = DOMAIN Reached(t)
    BY <1>4 DEF EdgesOf, IsList
<1>6. IsList(QueuesOf(t)) /\ DOMAIN QueuesOf(t) = DOMAIN t.destinations
    BY <1>1 DEF QueuesOf, IsList
<1>7. IsList(KeysOf(t)) /\ DOMAIN KeysOf(t) = DOMAIN Reached(t)
  <2>1. CASE t.destinations = <<>>
      BY <1>2, <2>1 DEF KeysOf, Reached, Unrouted
  <2>2. CASE t.destinations # <<>>
      BY <1>1, <2>2 DEF KeysOf, Reached, IsList
  <2> QED
      BY <2>1, <2>2
<1>8. IsList(ExchangesOf(t)) /\ IsList(RoutingKeysOf(t))
    BY <1>2, <1>3 DEF ExchangesOf, RoutingKeysOf
<1> QED
    BY <1>1, <1>5, <1>6, <1>7, <1>8

LEMMA ListsAre ==
    ASSUME NEW traces \in Seq(Trace)
    PROVE  /\ IsLists(EdgeLists(traces)) /\ IsLists(KeyLists(traces))
           /\ IsLists(ExchangeLists(traces)) /\ IsLists(QueueLists(traces))
           /\ IsLists(RoutingKeyLists(traces)) /\ IsLists(MetricLists(traces))
<1>1. /\ Len(traces) \in Nat /\ DOMAIN traces = 1..Len(traces)
      /\ \A i \in DOMAIN traces : traces[i] \in Trace
    OBVIOUS
<1>2. \A i \in DOMAIN traces :
         /\ IsList(EdgesOf(traces[i])) /\ IsList(KeysOf(traces[i]))
         /\ IsList(ExchangesOf(traces[i])) /\ IsList(QueuesOf(traces[i]))
         /\ IsList(RoutingKeysOf(traces[i])) /\ IsList(Metrics(traces[i]))
    BY <1>1, ItemsAreLists
<1>3. ASSUME NEW lists, DOMAIN lists = DOMAIN traces
      PROVE  IsList(lists)
  <2>1. DOMAIN lists = 1..Len(traces) /\ Len(traces) \in Nat
      BY <1>1, <1>3
  <2> QED
      BY <2>1 DEF IsList
<1>4. IsLists(EdgeLists(traces)) /\ IsLists(KeyLists(traces))
    BY <1>2, <1>3 DEF IsLists, EdgeLists, KeyLists
<1>5. IsLists(ExchangeLists(traces)) /\ IsLists(QueueLists(traces))
    BY <1>2, <1>3 DEF IsLists, ExchangeLists, QueueLists
<1>6. IsLists(RoutingKeyLists(traces)) /\ IsLists(MetricLists(traces))
    BY <1>2, <1>3 DEF IsLists, RoutingKeyLists, MetricLists
<1> QED
    BY <1>4, <1>5, <1>6

\* With one more trace, one more list is counted.
LEMMA OneMoreCounted ==
    ASSUME NEW traces \in Seq(Trace), NEW t \in Trace
    PROVE  LET longer == Append(traces, t)
           IN  /\ \A counts : Tallies(counts, EdgeLists(traces)) =>
                     Tallies(AddAll(counts, EdgesOf(t)), EdgeLists(longer))
               /\ \A counts : Tallies(counts, KeyLists(traces)) =>
                     Tallies(AddAll(counts, KeysOf(t)), KeyLists(longer))
               /\ \A counts : Tallies(counts, ExchangeLists(traces)) =>
                     Tallies(AddAll(counts, ExchangesOf(t)), ExchangeLists(longer))
               /\ \A counts : Tallies(counts, QueueLists(traces)) =>
                     Tallies(AddAll(counts, QueuesOf(t)), QueueLists(longer))
               /\ \A counts : Tallies(counts, RoutingKeyLists(traces)) =>
                     Tallies(AddAll(counts, RoutingKeysOf(t)), RoutingKeyLists(longer))
               /\ \A counts : Tallies(counts, MetricLists(traces)) =>
                     Tallies(AddAll(counts, Metrics(t)), MetricLists(longer))
               /\ \A counts, sent :
                     /\ sent \in 0..(Len(Metrics(t)) - 1)
                     /\ Tallies(counts, MetricLists(traces))
                     => Tallies(AddAll(counts, SubSeq(Metrics(t), 1, sent)),
                                BrokenLists(traces, t, sent))
<1> DEFINE longer == Append(traces, t)
           n == Len(traces)
<1>1. /\ n \in Nat /\ DOMAIN traces = 1..n /\ DOMAIN longer = 1..(n + 1)
      /\ \A i \in 1..n : longer[i] = traces[i]
      /\ longer[n + 1] = t
    OBVIOUS
<1> HIDE DEF longer, n
<1>2. /\ IsLists(EdgeLists(traces)) /\ IsLists(KeyLists(traces))
      /\ IsLists(ExchangeLists(traces)) /\ IsLists(QueueLists(traces))
      /\ IsLists(RoutingKeyLists(traces)) /\ IsLists(MetricLists(traces))
    BY ListsAre
<1>3. /\ IsList(EdgesOf(t)) /\ IsList(KeysOf(t)) /\ IsList(ExchangesOf(t))
      /\ IsList(QueuesOf(t)) /\ IsList(RoutingKeysOf(t)) /\ IsList(Metrics(t))
    BY ItemsAreLists
<1>4. ASSUME NEW counts, Tallies(counts, EdgeLists(traces))
      PROVE  Tallies(AddAll(counts, EdgesOf(t)), EdgeLists(longer))
  <2>1. /\ DOMAIN EdgeLists(traces) = 1..n /\ DOMAIN EdgeLists(longer) = 1..(n + 1)
        /\ \A i \in 1..n : EdgeLists(longer)[i] = EdgeLists(traces)[i]
        /\ EdgeLists(longer)[n + 1] = EdgesOf(t)
      BY <1>1 DEF EdgeLists
  <2> QED
      BY <1>1, <1>2, <1>3, <1>4, <2>1, TallyNext
<1>5. ASSUME NEW counts, Tallies(counts, KeyLists(traces))
      PROVE  Tallies(AddAll(counts, KeysOf(t)), KeyLists(longer))
  <2>1. /\ DOMAIN KeyLists(traces) = 1..n /\ DOMAIN KeyLists(longer) = 1..(n + 1)
        /\ \A i \in 1..n : KeyLists(longer)[i] = KeyLists(traces)[i]
        /\ KeyLists(longer)[n + 1] = KeysOf(t)
      BY <1>1 DEF KeyLists
  <2> QED
      BY <1>1, <1>2, <1>3, <1>5, <2>1, TallyNext
<1>6. ASSUME NEW counts, Tallies(counts, ExchangeLists(traces))
      PROVE  Tallies(AddAll(counts, ExchangesOf(t)), ExchangeLists(longer))
  <2>1. /\ DOMAIN ExchangeLists(traces) = 1..n /\ DOMAIN ExchangeLists(longer) = 1..(n + 1)
        /\ \A i \in 1..n : ExchangeLists(longer)[i] = ExchangeLists(traces)[i]
        /\ ExchangeLists(longer)[n + 1] = ExchangesOf(t)
      BY <1>1 DEF ExchangeLists
  <2> QED
      BY <1>1, <1>2, <1>3, <1>6, <2>1, TallyNext
<1>7. ASSUME NEW counts, Tallies(counts, QueueLists(traces))
      PROVE  Tallies(AddAll(counts, QueuesOf(t)), QueueLists(longer))
  <2>1. /\ DOMAIN QueueLists(traces) = 1..n /\ DOMAIN QueueLists(longer) = 1..(n + 1)
        /\ \A i \in 1..n : QueueLists(longer)[i] = QueueLists(traces)[i]
        /\ QueueLists(longer)[n + 1] = QueuesOf(t)
      BY <1>1 DEF QueueLists
  <2> QED
      BY <1>1, <1>2, <1>3, <1>7, <2>1, TallyNext
<1>8. ASSUME NEW counts, Tallies(counts, RoutingKeyLists(traces))
      PROVE  Tallies(AddAll(counts, RoutingKeysOf(t)), RoutingKeyLists(longer))
  <2>1. /\ DOMAIN RoutingKeyLists(traces) = 1..n /\ DOMAIN RoutingKeyLists(longer) = 1..(n + 1)
        /\ \A i \in 1..n : RoutingKeyLists(longer)[i] = RoutingKeyLists(traces)[i]
        /\ RoutingKeyLists(longer)[n + 1] = RoutingKeysOf(t)
      BY <1>1 DEF RoutingKeyLists
  <2> QED
      BY <1>1, <1>2, <1>3, <1>8, <2>1, TallyNext
<1>9. ASSUME NEW counts, Tallies(counts, MetricLists(traces))
      PROVE  Tallies(AddAll(counts, Metrics(t)), MetricLists(longer))
  <2>1. /\ DOMAIN MetricLists(traces) = 1..n /\ DOMAIN MetricLists(longer) = 1..(n + 1)
        /\ \A i \in 1..n : MetricLists(longer)[i] = MetricLists(traces)[i]
        /\ MetricLists(longer)[n + 1] = Metrics(t)
      BY <1>1 DEF MetricLists
  <2> QED
      BY <1>1, <1>2, <1>3, <1>9, <2>1, TallyNext
<1>10. ASSUME NEW counts, NEW sent, sent \in 0..(Len(Metrics(t)) - 1),
              Tallies(counts, MetricLists(traces))
       PROVE  Tallies(AddAll(counts, SubSeq(Metrics(t), 1, sent)), BrokenLists(traces, t, sent))
  <2> DEFINE broken == BrokenLists(traces, t, sent)
             first == SubSeq(Metrics(t), 1, sent)
  <2>0. broken = [i \in 1..(n + 1) |-> IF i = n + 1 THEN first ELSE Metrics(traces[i])]
      BY DEF BrokenLists, n
  <2> HIDE DEF first, broken
  <2>1. /\ DOMAIN MetricLists(traces) = 1..n /\ DOMAIN broken = 1..(n + 1)
        /\ \A i \in 1..n : broken[i] = MetricLists(traces)[i]
        /\ broken[n + 1] = first
      BY <1>1, <2>0 DEF MetricLists
  <2>2. IsList(first)
    <3>1. DOMAIN first = 1..sent /\ sent \in Nat
        BY <1>10, FirstMetrics DEF first
    <3> QED
        BY <3>1 DEF IsList
  <2>3. Tallies(AddAll(counts, broken[n + 1]), broken)
      BY <1>1, <1>2, <1>10, <2>1, <2>2, TallyNext
  <2> QED
      BY <2>1, <2>3 DEF broken, first
<1> QED
    BY <1>4, <1>5, <1>6, <1>7, <1>8, <1>9, <1>10 DEF longer

LEMMA NamesGiven ==
    /\ UnroutedQueue \in Name /\ UnknownQueue \in Name /\ NoKey \in Name
    /\ \A v, w \in Trimmed : OrElse(v, w) = IF v # <<>> THEN v ELSE w
<1>1. \A c \in Nat : c # Space => <<40, c>> \in Name
  <2>1. ASSUME NEW c \in Nat, c # Space
        PROVE  <<40, c>> \in Name
    <3> DEFINE s == <<40, c>>
    <3>1. s \in Characters /\ s # <<>> /\ Len(s) = 2 /\ s[1] # Space /\ s[2] # Space
        BY <2>1 DEF Characters, Space
    <3> HIDE DEF s
    <3>2. s \in Trimmed
        BY <3>1, InkAtEnds
    <3> QED
        BY <3>1, <3>2 DEF Name, s
  <2> QED
      BY <2>1
<1>2. UnroutedQueue \in Name /\ UnknownQueue \in Name /\ NoKey \in Name
    BY <1>1 DEF UnroutedQueue, UnknownQueue, NoKey, Space
<1>3. \A v, w \in Trimmed : OrElse(v, w) = IF v # <<>> THEN v ELSE w
  <2>1. ASSUME NEW v \in Trimmed, NEW w \in Trimmed
        PROVE  OrElse(v, w) = IF v # <<>> THEN v ELSE w
    <3>1. v \in Characters /\ Trim(v) = v /\ w \in Characters /\ Trim(w) = w
        BY TrimmedType
    <3>2. firstNonEmpty(<<v, w>>) = IF Trim(v) # <<>> THEN Trim(v) ELSE Trim(w)
        BY <3>1, FirstOfTwo
    <3> QED
        BY <3>1, <3>2 DEF OrElse
  <2> QED
      BY <2>1
<1> QED
    BY <1>2, <1>3

\* What a trace adds to the nodes is the same for the graph and the page.
LEMMA SameNodes ==
    ASSUME NEW t \in Trace
    PROVE  {e.to : e \in Range(EdgesOf(t))} =
              IF t.destinations = <<>> THEN {UnroutedQueue}
              ELSE {OrElse(d.queue, UnknownQueue) : d \in Range(t.destinations)}
<1>1. CASE t.destinations = <<>>
  <2> DEFINE e == Edge(t, Unrouted[1])
  <2>1. Reached(t) = <<Unrouted[1]>>
      BY <1>1 DEF Reached, Unrouted
  <2>2. DOMAIN EdgesOf(t) = 1..1 /\ EdgesOf(t)[1] = e
      BY <2>1 DEF EdgesOf
  <2>3. Range(EdgesOf(t)) = {e}
      BY <2>2 DEF Range
  <2>4. UnroutedQueue \in Trimmed /\ UnknownQueue \in Trimmed /\ UnroutedQueue # <<>>
      BY NamesGiven DEF Name
  <2>5. e.to = UnroutedQueue
      BY <2>4, NamesGiven DEF Edge, Unrouted
  <2> HIDE DEF e
  <2> QED
      BY <1>1, <2>3, <2>5
<1>2. CASE t.destinations # <<>>
  <2>1. Reached(t) = t.destinations
      BY <1>2 DEF Reached
  <2>2. \A e : e \in Range(EdgesOf(t)) <=>
               \E j \in DOMAIN t.destinations : e = Edge(t, t.destinations[j])
      BY <2>1 DEF EdgesOf, Range
  <2>3. \A d : Edge(t, d).to = OrElse(d.queue, UnknownQueue)
      BY DEF Edge
  <2>4. \A d : d \in Range(t.destinations) <=>
               \E j \in DOMAIN t.destinations : d = t.destinations[j]
      BY DEF Range
  <2> QED
      BY <1>2, <2>2, <2>3, <2>4
<1> QED
    BY <1>1, <1>2

LEMMA CountedInit == PipelineInit => Counted
<1> SUFFICES ASSUME PipelineInit PROVE Counted
    OBVIOUS
<1>1. /\ graph = NoGraph /\ summary = EmptySummary /\ page = NoGraph /\ metrics = NoCounts
      /\ failed = FALSE /\ closed = FALSE /\ rendered = <<>>
    BY DEF PipelineInit, Init
<1>2. ASSUME NEW lists, DOMAIN lists = {}
      PROVE  Tallies(NoCounts, lists)
  <2>1. Places(lists) = {} /\ DOMAIN NoCounts = {}
      BY <1>2 DEF Places, NoCounts
  <2> QED
      BY <2>1 DEF Tallies
<1>3. DOMAIN rendered = {}
    BY <1>1
<1>4. /\ Tallies(NoCounts, EdgeLists(rendered)) /\ Tallies(NoCounts, KeyLists(rendered))
      /\ Tallies(NoCounts, ExchangeLists(rendered)) /\ Tallies(NoCounts, QueueLists(rendered))
      /\ Tallies(NoCounts, RoutingKeyLists(rendered))
      /\ Tallies(NoCounts, MetricLists(rendered))
    BY <1>2, <1>3 DEF EdgeLists, KeyLists, ExchangeLists, QueueLists, RoutingKeyLists, MetricLists
<1>5. Handling
    BY HandlingInit
<1>6. GraphCounted /\ PageCounted
  <2>1. DOMAIN graph.edges = {} /\ graph.exchanges = {} /\ graph.queues = {}
      BY <1>1 DEF NoGraph, NoCounts
  <2>2. Tallies(graph.edges, EdgeLists(rendered)) /\ Tallies(page.edges, KeyLists(rendered))
      BY <1>1, <1>4 DEF NoGraph
  <2> QED
      BY <1>1, <2>1, <2>2 DEF GraphCounted, PageCounted
<1>7. SummaryCounted
  <2>1. {i \in DOMAIN rendered : IsUnrouted(rendered[i])} = {} /\ Len(rendered) = 0
      BY <1>1, <1>3
  <2>2. Cardinality({i \in DOMAIN rendered : IsUnrouted(rendered[i])}) = 0
      BY <2>1, FS_EmptySet
  <2> QED
      BY <1>1, <1>4, <2>1, <2>2 DEF SummaryCounted, EmptySummary
<1>8. MetricsCounted /\ TablesWritten /\ GraphDrawn
    BY <1>1, <1>4 DEF MetricsCounted, TablesWritten, GraphDrawn
<1> QED
    BY <1>5, <1>6, <1>7, <1>8 DEF Counted

LEMMA CountedStep ==
    ASSUME Counted, NEW d \in stream, handleDelivery(d)
    PROVE  Counted'
<1> DEFINE t == ParseDelivery(d)
           n == Len(rendered)
<1>1. Handling' /\ t \in Trace /\ rendered' = Append(rendered, t)
    BY HandlingStep DEF Counted
<1>2. rendered \in Seq(Trace) /\ n \in Nat
    BY DEF Counted, Handling
<1>3. /\ ~closed /\ ~failed /\ closed' = closed /\ failed' = failed /\ report' = report
      /\ graph' = AddTrace(graph, t) /\ summary' = Summarise(summary, t)
      /\ page' = updateGraph(page, t) /\ metrics' = AddAll(metrics, Metrics(t))
    BY DEF handleDelivery, RenderTrace, Rendering
<1> HIDE DEF t
<1>4. GraphCounted'
  <2>1. /\ graph'.exchanges = graph.exchanges \cup {t.exchange}
        /\ graph'.queues = graph.queues \cup {e.to : e \in Range(EdgesOf(t))}
        /\ graph'.edges = AddAll(graph.edges, EdgesOf(t))
      BY <1>3 DEF AddTrace, EdgesOf
  <2>2. Tallies(graph'.edges, EdgeLists(rendered'))
      BY <1>1, <1>2, <2>1, OneMoreCounted DEF Counted, GraphCounted
  <2>3. DOMAIN graph'.edges = DOMAIN graph.edges \cup Range(EdgesOf(t))
      BY <2>1 DEF AddAll
  <2>4. \A e \in Range(EdgesOf(t)) : e.from = t.exchange
    <3>1. \A e \in Range(EdgesOf(t)) : \E j : e = Edge(t, Reached(t)[j])
        BY DEF EdgesOf, Range
    <3>2. \A j : Edge(t, Reached(t)[j]).from = t.exchange
        BY DEF Edge
    <3> QED
        BY <3>1, <3>2
  <2>5. \E e : e \in Range(EdgesOf(t))
    <3>2. Len(t.destinations) \in Nat /\ DOMAIN t.destinations = 1..Len(t.destinations)
          /\ t.destinations \in Seq(Destination)
        BY <1>1, TraceIs
    <3>3. 1 \in DOMAIN Reached(t)
      <4>1. CASE t.destinations = <<>>
          BY <4>1 DEF Reached, Unrouted
      <4>2. CASE t.destinations # <<>>
          BY <3>2, <4>2 DEF Reached
      <4> QED
          BY <4>1, <4>2
    <3> QED
        BY <3>3 DEF EdgesOf, Range
  <2>6. /\ graph.exchanges = {e.from : e \in DOMAIN graph.edges}
        /\ graph.queues = {e.to : e \in DOMAIN graph.edges}
      BY DEF Counted, GraphCounted
  <2> DEFINE new == Range(EdgesOf(t))
  <2> HIDE DEF new
  <2>7. /\ graph'.exchanges = {e.from : e \in DOMAIN graph'.edges}
        /\ graph'.queues = {e.to : e \in DOMAIN graph'.edges}
    <3>1. {t.exchange} = {e.from : e \in new}
        BY <2>4, <2>5 DEF new
    <3>2. /\ graph'.exchanges = {e.from : e \in DOMAIN graph.edges} \cup {e.from : e \in new}
          /\ graph'.queues = {e.to : e \in DOMAIN graph.edges} \cup {e.to : e \in new}
        BY <2>1, <2>6, <3>1 DEF new
    <3>3. DOMAIN graph'.edges = DOMAIN graph.edges \cup new
        BY <2>3 DEF new
    <3> QED
        BY <3>2, <3>3
  <2> QED
      BY <2>2, <2>7 DEF GraphCounted
<1>5. PageCounted'
  <2>1. /\ page'.exchanges = page.exchanges \cup {t.exchange}
        /\ page'.queues = page.queues \cup
              IF t.destinations = <<>> THEN {UnroutedQueue}
              ELSE {OrElse(e.queue, UnknownQueue) : e \in Range(t.destinations)}
        /\ page'.edges = AddAll(page.edges, KeysOf(t))
      BY <1>3 DEF updateGraph, KeysOf
  <2>2. Tallies(page'.edges, KeyLists(rendered'))
      BY <1>1, <1>2, <2>1, OneMoreCounted DEF Counted, PageCounted
  <2>3. /\ graph'.exchanges = graph.exchanges \cup {t.exchange}
        /\ graph'.queues = graph.queues \cup {e.to : e \in Range(EdgesOf(t))}
      BY <1>3 DEF AddTrace, EdgesOf
  <2>4. page'.exchanges = graph'.exchanges /\ page'.queues = graph'.queues
      BY <1>1, <2>1, <2>3, SameNodes DEF Counted, PageCounted
  <2> QED
      BY <2>2, <2>4 DEF PageCounted
<1>6. SummaryCounted'
  <2>1. /\ summary'.total = summary.total + 1
        /\ summary'.unrouted = summary.unrouted + One(IsUnrouted(t))
        /\ summary'.exchanges = AddAll(summary.exchanges, ExchangesOf(t))
        /\ summary'.queues = AddAll(summary.queues, QueuesOf(t))
        /\ summary'.routingKeys = AddAll(summary.routingKeys, RoutingKeysOf(t))
      BY <1>3 DEF Summarise, ExchangesOf, QueuesOf, RoutingKeysOf
  <2>2. /\ Tallies(summary'.exchanges, ExchangeLists(rendered'))
        /\ Tallies(summary'.queues, QueueLists(rendered'))
        /\ Tallies(summary'.routingKeys, RoutingKeyLists(rendered'))
      BY <1>1, <1>2, <2>1, OneMoreCounted DEF Counted, SummaryCounted
  <2>3. Len(rendered') = n + 1 /\ DOMAIN rendered' = 1..(n + 1)
        /\ rendered'[n + 1] = t /\ \A i \in 1..n : rendered'[i] = rendered[i]
      BY <1>1, <1>2
  <2>4. summary'.unrouted = Cardinality({i \in DOMAIN rendered' : IsUnrouted(rendered'[i])})
    <3> DEFINE S == {i \in DOMAIN rendered : IsUnrouted(rendered[i])}
               T == {i \in DOMAIN rendered' : IsUnrouted(rendered'[i])}
    <3>1. S \in SUBSET (1..n) /\ IsFiniteSet(1..n)
      <4>1. DOMAIN rendered = 1..n
          BY <1>2
      <4>2. IsFiniteSet(1..n)
          BY <1>2, FS_Interval
      <4> QED
          BY <4>1, <4>2
    <3>2. IsFiniteSet(S) /\ Cardinality(S) \in Nat /\ n + 1 \notin S
        BY <1>2, <3>1, FS_Subset, FS_CardinalityType
    <3>3. CASE IsUnrouted(t)
      <4>1. T = S \cup {n + 1}
          BY <1>2, <2>3, <3>3
      <4> HIDE DEF S, T
      <4>2. Cardinality(T) = Cardinality(S) + 1
          BY <3>2, <4>1, FS_AddElement
      <4> QED
          BY <2>1, <3>3, <4>2 DEF One, Counted, SummaryCounted, S, T
    <3>4. CASE ~IsUnrouted(t)
      <4>1. T = S
          BY <1>2, <2>3, <3>4
      <4>2. summary.unrouted = Cardinality(S)
          BY DEF Counted, SummaryCounted
      <4> HIDE DEF S, T
      <4>3. summary'.unrouted = Cardinality(S)
          BY <2>1, <3>2, <3>4, <4>2 DEF One
      <4> QED
          BY <4>1, <4>3 DEF T
    <3> QED
        BY <3>3, <3>4
  <2> QED
      BY <2>1, <2>2, <2>3, <2>4 DEF SummaryCounted, Counted
<1>7. MetricsCounted'
  <2>1. Tallies(metrics, MetricLists(rendered))
      BY <1>3 DEF Counted, MetricsCounted
  <2>2. Tallies(metrics', MetricLists(rendered'))
      BY <1>1, <1>2, <1>3, <2>1, OneMoreCounted
  <2> QED
      BY <1>3, <2>2 DEF MetricsCounted, Counted
<1>8. TablesWritten' /\ GraphDrawn'
    BY <1>3 DEF TablesWritten, GraphDrawn, Counted
<1> QED
    BY <1>1, <1>4, <1>5, <1>6, <1>7, <1>8 DEF Counted

LEMMA CountedNext == Counted /\ [Next]_vars => Counted'
<1> SUFFICES ASSUME Counted, [Next]_vars PROVE Counted'
    OBVIOUS
<1>1. Handling'
    BY HandlingNext DEF Counted
<1>2. CASE PipelineClose
  <2>1. /\ UNCHANGED <<graph, summary, page, metrics, failed, rendered>> /\ closed' = TRUE
        /\ report' = [exchanges |-> writeTopN(summary.exchanges),
                      queues |-> writeTopN(summary.queues),
                      routingKeys |-> writeTopN(summary.routingKeys)]
      BY <1>2 DEF PipelineClose, Close
  <2>2. GraphCounted' /\ SummaryCounted' /\ PageCounted' /\ MetricsCounted'
      BY <2>1 DEF Counted, GraphCounted, SummaryCounted, PageCounted, MetricsCounted
  <2>3. TablesWritten' /\ GraphDrawn'
    <3>1. TablesWritten'
        BY <2>1 DEF TablesWritten
    <3>2. drawing' = [dot |-> DOT(graph), mermaid |-> Mermaid(graph)]
        BY <1>2 DEF PipelineClose, Close
    <3>3. DOT(graph)' = DOT(graph) /\ Mermaid(graph)' = Mermaid(graph)
        BY <2>1
    <3> QED
        BY <3>1, <3>2, <3>3 DEF GraphDrawn
  <2> QED
      BY <1>1, <2>2, <2>3 DEF Counted
<1>3. ASSUME UNCHANGED <<graph, summary, page, metrics, failed, closed, report, drawing,
                         rendered>>
      PROVE  Counted'
    BY <1>1, <1>3 DEF Counted, GraphCounted, SummaryCounted, PageCounted, MetricsCounted,
       TablesWritten, GraphDrawn
<1>4. ASSUME NEW d \in stream, Unreadable(d) \/ FilteredOut(d)
      PROVE  Counted'
    BY <1>3, <1>4 DEF Unreadable, FilteredOut, vars, reportVars
<1>5. ASSUME NEW d \in stream, handleDelivery(d)
      PROVE  Counted'
    BY <1>5, CountedStep
<1>6. ASSUME NEW d \in stream, DeliveryFails(d)
      PROVE  Counted'
  <2> DEFINE t == ParseDelivery(d)
  <2>1. /\ ~failed /\ failed' = TRUE
        /\ UNCHANGED <<graph, summary, page, closed, report, drawing, rendered>>
      BY <1>6 DEF DeliveryFails, RenderFails, Rendering
  <2>2. PICK sent \in 0..(Len(Metrics(t)) - 1) :
           metrics' = AddAll(metrics, SubSeq(Metrics(t), 1, sent))
      BY <1>6 DEF DeliveryFails, RenderFails
  <2>3. t \in Trace
    <3>1. Delivered(d)
        BY DeliveriesType DEF Counted, Handling, Deliveries
    <3> QED
        BY <1>6, <3>1, ParsedIsTrace DEF DeliveryFails
  <2> HIDE DEF t
  <2>4. Tallies(metrics, MetricLists(rendered)) /\ rendered \in Seq(Trace)
      BY <2>1 DEF Counted, MetricsCounted, Handling
  <2>5. Tallies(metrics', BrokenLists(rendered, t, sent))
      BY <2>2, <2>3, <2>4, OneMoreCounted
  <2>6. MetricsCounted'
      BY <2>1, <2>2, <2>3, <2>5 DEF MetricsCounted
  <2>7. GraphCounted' /\ SummaryCounted' /\ PageCounted' /\ TablesWritten' /\ GraphDrawn'
      BY <2>1 DEF Counted, GraphCounted, SummaryCounted, PageCounted, TablesWritten, GraphDrawn
  <2> QED
      BY <1>1, <2>6, <2>7 DEF Counted
<1>7. CASE UNCHANGED vars
    BY <1>3, <1>7 DEF vars, reportVars
<1> QED
    BY <1>2, <1>4, <1>5, <1>6, <1>7 DEF Next

LEMMA CountedAlways == Spec => []Counted
    BY CountedInit, CountedNext, PTL DEF Spec

--------------------------------------------------------------------------------
(* The graph and the summary *)

LEMMA RenderedAre ==
    ASSUME Handling
    PROVE  /\ rendered \in Seq(Trace) /\ DOMAIN rendered = 1..Len(rendered)
           /\ Len(rendered) \in Nat
           /\ \A i \in DOMAIN rendered : rendered[i] \in Trace
           /\ \A S \in SUBSET (DOMAIN rendered) : IsFiniteSet(S) /\ Cardinality(S) \in Nat
<1>1. rendered \in Seq(Trace) /\ DOMAIN rendered = 1..Len(rendered) /\ Len(rendered) \in Nat
    BY DEF Handling
<1>2. \A i \in DOMAIN rendered : rendered[i] \in Trace
    BY <1>1
<1>3. IsFiniteSet(1..Len(rendered))
    BY <1>1, FS_Interval
<1>4. \A S \in SUBSET (DOMAIN rendered) : IsFiniteSet(S) /\ Cardinality(S) \in Nat
    BY <1>1, <1>3, FS_Subset, FS_CardinalityType
<1> QED
    BY <1>1, <1>2, <1>4

\* As many places as traces, when each of these has one.
LEMMA OnePlaceEach ==
    ASSUME NEW S, IsFiniteSet(S), NEW j
    PROVE  /\ IsFiniteSet({<<i, j>> : i \in S})
           /\ Cardinality({<<i, j>> : i \in S}) = Cardinality(S)
<1> DEFINE f == [i \in S |-> <<i, j>>]
           T == {<<i, j>> : i \in S}
<1>1. f \in Bijection(S, T)
    BY DEF Bijection, Injection, Surjection, IsInjective
<1>2. ExistsBijection(S, T)
    BY <1>1 DEF ExistsBijection
<1> HIDE DEF T
<1>3. IsFiniteSet(T) /\ Cardinality(T) = Cardinality(S)
    BY <1>2, FS_Bijection
<1> QED
    BY <1>3 DEF T

LEMMA EdgeGoesTo ==
    ASSUME NEW t \in Trace, NEW j \in DOMAIN Reached(t)
    PROVE  /\ EdgesOf(t)[j] = Edge(t, Reached(t)[j])
           /\ t.destinations = <<>> => j = 1 /\ EdgesOf(t)[j].to = UnroutedQueue
           /\ t.destinations # <<>> =>
                 /\ j \in DOMAIN t.destinations /\ Reached(t)[j] = t.destinations[j]
                 /\ EdgesOf(t)[j].to = QueuesOf(t)[j]
                 /\ QueuesOf(t)[j] = t.destinations[j].queue
<1>1. EdgesOf(t)[j] = Edge(t, Reached(t)[j])
    BY DEF EdgesOf
<1>2. CASE t.destinations = <<>>
  <2>1. j = 1 /\ Reached(t)[j].queue = UnroutedQueue
      BY <1>2 DEF Reached, Unrouted
  <2>2. UnroutedQueue \in Trimmed /\ UnknownQueue \in Trimmed /\ UnroutedQueue # <<>>
      BY NamesGiven DEF Name
  <2>3. EdgesOf(t)[j].to = UnroutedQueue
      BY <1>1, <2>1, <2>2, NamesGiven DEF Edge
  <2> QED
      BY <1>1, <1>2, <2>1, <2>3
<1>3. CASE t.destinations # <<>>
  <2>1. j \in DOMAIN t.destinations /\ Reached(t)[j] = t.destinations[j]
      BY <1>3 DEF Reached
  <2>2. t.destinations[j].queue \in Trimmed /\ t.destinations[j].queue # <<>>
        /\ UnknownQueue \in Trimmed
      BY <2>1, TraceIs, NamesGiven DEF Name
  <2>3. OrElse(t.destinations[j].queue, UnknownQueue) = t.destinations[j].queue
      BY <2>2, NamesGiven
  <2>4. EdgesOf(t)[j].to = OrElse(t.destinations[j].queue, UnknownQueue)
        /\ QueuesOf(t)[j] = OrElse(t.destinations[j].queue, UnknownQueue)
      BY <1>1, <2>1 DEF Edge, QueuesOf
  <2> QED
      BY <1>1, <1>3, <2>1, <2>3, <2>4
<1> QED
    BY <1>2, <1>3

\* An edge into a queue is drawn wherever the summary counts the queue, and into
\* "(unrouted)" for each trace without destination, too.
LEMMA EdgesAndQueues ==
    ASSUME Handling, NEW q
    PROVE  LET edges == {p \in Places(EdgeLists(rendered)) :
                            EdgeLists(rendered)[p[1]][p[2]].to = q}
               counted == Where(QueueLists(rendered), {q})
               unrouted == {<<i, 1>> : i \in WithoutDestination}
           IN  edges = IF q = UnroutedQueue THEN counted \cup unrouted ELSE counted
<1> DEFINE E == EdgeLists(rendered)
           Q == QueueLists(rendered)
           edges == {p \in Places(E) : E[p[1]][p[2]].to = q}
           counted == Where(Q, {q})
           unrouted == {<<i, 1>> : i \in WithoutDestination}
<1>1. /\ DOMAIN E = DOMAIN rendered /\ DOMAIN Q = DOMAIN rendered
      /\ \A i \in DOMAIN rendered :
            /\ rendered[i] \in Trace
            /\ E[i] = EdgesOf(rendered[i]) /\ Q[i] = QueuesOf(rendered[i])
            /\ DOMAIN E[i] = DOMAIN Reached(rendered[i])
            /\ DOMAIN Q[i] = DOMAIN rendered[i].destinations
  <2>1. \A i \in DOMAIN rendered : rendered[i] \in Trace
      BY RenderedAre
  <2>2. /\ DOMAIN E = DOMAIN rendered /\ DOMAIN Q = DOMAIN rendered
        /\ \A i \in DOMAIN rendered : E[i] = EdgesOf(rendered[i]) /\ Q[i] = QueuesOf(rendered[i])
      BY DEF EdgeLists, QueueLists
  <2> HIDE DEF E, Q
  <2> QED
      BY <2>1, <2>2, ItemsAreLists
<1> HIDE DEF E, Q
<1>2. ASSUME NEW p \in edges
      PROVE  p \in counted \/ (q = UnroutedQueue /\ p \in unrouted)
  <2>1. /\ p = <<p[1], p[2]>> /\ p[1] \in DOMAIN rendered /\ p[2] \in DOMAIN Reached(rendered[p[1]])
        /\ EdgesOf(rendered[p[1]])[p[2]].to = q
      BY <1>1, PlaceIs
  <2>2. CASE rendered[p[1]].destinations = <<>>
    <3>1. p[2] = 1 /\ q = UnroutedQueue
        BY <1>1, <2>1, <2>2, EdgeGoesTo
    <3>2. p[1] \in WithoutDestination
        BY <2>1, <2>2 DEF WithoutDestination
    <3> QED
        BY <2>1, <3>1, <3>2
  <2>3. CASE rendered[p[1]].destinations # <<>>
    <3>1. p[2] \in DOMAIN Q[p[1]] /\ Q[p[1]][p[2]] = q
        BY <1>1, <2>1, <2>3, EdgeGoesTo
    <3>2. p \in Places(Q)
        BY <1>1, <2>1, <3>1, PlaceIs
    <3> QED
        BY <3>1, <3>2 DEF Where
  <2> QED
      BY <2>2, <2>3
<1>3. ASSUME NEW p \in counted
      PROVE  p \in edges
  <2>1. /\ p = <<p[1], p[2]>> /\ p[1] \in DOMAIN rendered
        /\ p[2] \in DOMAIN rendered[p[1]].destinations /\ Q[p[1]][p[2]] = q
      BY <1>1, PlaceIs DEF Where
  <2>2. rendered[p[1]].destinations # <<>>
      BY <2>1
  <2>3. p[2] \in DOMAIN Reached(rendered[p[1]])
      BY <2>1, <2>2 DEF Reached
  <2>4. E[p[1]][p[2]].to = q
      BY <1>1, <2>1, <2>2, <2>3, EdgeGoesTo
  <2> QED
      BY <1>1, <2>1, <2>3, <2>4, PlaceIs
<1>4. ASSUME NEW i \in WithoutDestination, q = UnroutedQueue
      PROVE  <<i, 1>> \in edges
  <2>1. i \in DOMAIN rendered /\ rendered[i].destinations = <<>>
      BY DEF WithoutDestination
  <2>2. 1 \in DOMAIN Reached(rendered[i])
      BY <2>1 DEF Reached, Unrouted
  <2>3. E[i][1].to = q
      BY <1>1, <1>4, <2>1, <2>2, EdgeGoesTo
  <2> QED
      BY <1>1, <2>1, <2>2, <2>3, PlaceIs
<1> HIDE DEF edges, counted
<1>5. edges = IF q = UnroutedQueue THEN counted \cup unrouted ELSE counted
    BY <1>2, <1>3, <1>4
<1> QED
    BY <1>5 DEF edges, counted, E, Q

LEMMA CountedAgree == Counted => GraphAgreesWithSummary
<1> SUFFICES ASSUME Counted PROVE GraphAgreesWithSummary
    OBVIOUS
<1> DEFINE E == EdgeLists(rendered)
           Q == QueueLists(rendered)
           Entering(q) == Total({e \in DOMAIN graph.edges : e.to = q}, graph.edges)
           edges(q) == {p \in Places(E) : E[p[1]][p[2]].to = q}
           unrouted == {<<i, 1>> : i \in WithoutDestination}
<1>1. Handling /\ IsLists(E) /\ Tallies(graph.edges, E) /\ IsLists(Q) /\ Tallies(summary.queues, Q)
    BY RenderedAre, ListsAre DEF Counted, GraphCounted, SummaryCounted
<1> HIDE DEF E, Q
<1>2. ASSUME NEW q
      PROVE  Entering(q) = Cardinality(edges(q))
  <2> DEFINE S == {e \in DOMAIN graph.edges : e.to = q}
  <2>1. Where(E, S) = edges(q)
      BY <1>1 DEF Where, Tallies
  <2> HIDE DEF S, edges
  <2>2. Total(S, graph.edges) = Cardinality(Where(E, S))
      BY <1>1, TotalIs
  <2> QED
      BY <2>1, <2>2 DEF S
<1>3. \A q : edges(q) = IF q = UnroutedQueue THEN Where(Q, {q}) \cup unrouted ELSE Where(Q, {q})
    BY <1>1, EdgesAndQueues DEF E, Q
<1>4. ASSUME NEW q
      PROVE  CountOf(q, summary.queues) = Cardinality(Where(Q, {q}))
    BY <1>1, CountIs
<1>5. ASSUME NEW q, q # UnroutedQueue
      PROVE  Entering(q) = CountOf(q, summary.queues)
  <2>1. edges(q) = Where(Q, {q})
      BY <1>3, <1>5
  <2> HIDE DEF edges, Entering
  <2> QED
      BY <1>2, <1>4, <2>1
<1>6. Entering(UnroutedQueue) = Cardinality(WithoutDestination) + CountOf(UnroutedQueue, summary.queues)
  <2> DEFINE counted == Where(Q, {UnroutedQueue})
  <2>1. IsFiniteSet(counted) /\ Cardinality(counted) \in Nat
      BY <1>1, PlacesFinite
  <2>2. WithoutDestination \in SUBSET (DOMAIN rendered)
      BY DEF WithoutDestination
  <2>3. /\ IsFiniteSet(unrouted) /\ Cardinality(unrouted) = Cardinality(WithoutDestination)
        /\ Cardinality(WithoutDestination) \in Nat
      BY <1>1, <2>2, OnePlaceEach, RenderedAre
  <2>4. counted \cap unrouted = {}
    <3> SUFFICES ASSUME NEW i \in WithoutDestination, <<i, 1>> \in counted PROVE FALSE
        OBVIOUS
    <3>1. rendered[i].destinations = <<>> /\ i \in DOMAIN rendered
        BY DEF WithoutDestination
    <3>2. 1 \in DOMAIN Q[i]
        BY PlaceIs DEF Where
    <3>3. DOMAIN Q[i] = DOMAIN rendered[i].destinations
        BY <3>1 DEF Q, QueueLists, QueuesOf
    <3> QED
        BY <3>1, <3>2, <3>3
  <2> HIDE DEF counted, unrouted, edges, Entering
  <2>5. edges(UnroutedQueue) = counted \cup unrouted
      BY <1>3 DEF counted
  <2>6. Cardinality(counted \cup unrouted)
           = Cardinality(counted) + Cardinality(unrouted) - Cardinality(counted \cap unrouted)
      BY <2>1, <2>3, FS_Union
  <2>7. Cardinality(counted \cap unrouted) = 0
      BY <2>4, FS_EmptySet
  <2>8. Cardinality(edges(UnroutedQueue)) = Cardinality(counted) + Cardinality(unrouted) - 0
      BY Zenon, <2>5, <2>6, <2>7
  <2>9. Entering(UnroutedQueue) = Cardinality(WithoutDestination) + Cardinality(counted)
      BY <1>2, <2>1, <2>3, <2>8
  <2> QED
      BY <1>4, <2>9 DEF counted
<1>7. summary.unrouted
         = Cardinality({i \in WithoutDestination : Lower(rendered[i].eventType) = Publish})
  <2>1. {i \in DOMAIN rendered : IsUnrouted(rendered[i])}
           = {i \in WithoutDestination : Lower(rendered[i].eventType) = Publish}
      BY DEF IsUnrouted, WithoutDestination
  <2>2. summary.unrouted = Cardinality({i \in DOMAIN rendered : IsUnrouted(rendered[i])})
      BY DEF Counted, SummaryCounted
  <2> QED
      BY <2>1, <2>2
<1> QED
    BY <1>5, <1>6, <1>7 DEF GraphAgreesWithSummary

\* The graph and the summary count the same: the edges into a queue add up to the
\* summary's count of it, and those into "(unrouted)" to the traces that went to no
\* queue and to a queue of that name (AddTrace, summaryRenderer.RenderTrace).
THEOREM GraphAndSummary == Spec => []GraphAgreesWithSummary
    BY CountedAlways, CountedAgree, PTL

--------------------------------------------------------------------------------
(* The page and the graph *)

LEMMA LabelIs ==
    ASSUME NEW b \in Trimmed, NEW key \in Trimmed
    PROVE  /\ firstNonEmpty(<<b, key, NoKey>>) \in Trimmed
           /\ firstNonEmpty(<<b, key, NoKey>>) = OrElse(b, OrElse(key, NoKey))
<1>1. /\ NoKey \in Trimmed /\ b \in Characters /\ key \in Characters /\ NoKey \in Characters
      /\ Trim(b) = b /\ Trim(key) = key /\ Trim(NoKey) = NoKey
    BY NamesGiven, TrimmedType DEF Name
<1>2. OrElse(key, NoKey) = IF key # <<>> THEN key ELSE NoKey
    BY <1>1, NamesGiven
<1>3. OrElse(b, OrElse(key, NoKey)) = IF b # <<>> THEN b ELSE OrElse(key, NoKey)
    BY <1>1, <1>2, NamesGiven
<1>4. /\ firstNonEmpty(<<b, key, NoKey>>) \in Trimmed
      /\ firstNonEmpty(<<b, key, NoKey>>) = IF b # <<>> THEN b ELSE IF key # <<>> THEN key ELSE NoKey
    BY <1>1, FirstOfThree
<1> QED
    BY <1>2, <1>3, <1>4

\* The page's key of an edge joins the edge's parts.
LEMMA KeyIsOfEdge ==
    ASSUME NEW t \in Trace, NEW j \in DOMAIN Reached(t)
    PROVE  LET e == EdgesOf(t)[j]
           IN  /\ KeysOf(t)[j] = PageKey(e.from, e.to, e.label)
               /\ e = [from |-> e.from, to |-> e.to, label |-> e.label]
               /\ e.from \in Characters /\ e.to \in Characters /\ e.label \in Characters
<1> DEFINE e == EdgesOf(t)[j]
           d == Reached(t)[j]
           label == firstNonEmpty(<<d.binding, t.routingKey, NoKey>>)
<1>1. e = Edge(t, d)
    BY EdgeGoesTo
<1>2. e = [from |-> t.exchange, to |-> OrElse(d.queue, UnknownQueue), label |-> label]
    BY <1>1 DEF Edge
<1>3. d.binding \in Trimmed /\ e.to \in Trimmed
  <2>1. CASE t.destinations = <<>>
    <3>1. d.binding = <<>>
        BY <2>1 DEF Reached, Unrouted
    <3>2. e.to = UnroutedQueue
        BY <2>1, EdgeGoesTo
    <3> QED
        BY <3>1, <3>2, EmptyIsTrimmed, NamesGiven DEF Name
  <2>2. CASE t.destinations # <<>>
    <3>1. j \in DOMAIN t.destinations /\ d = t.destinations[j] /\ e.to = d.queue
        BY <2>2, EdgeGoesTo
    <3> QED
        BY <3>1, TraceIs DEF Name
  <2> QED
      BY <2>1, <2>2
<1>4. t.routingKey \in Trimmed /\ t.exchange \in Trimmed
    BY TraceIs DEF Name
<1>5. label = OrElse(d.binding, OrElse(t.routingKey, NoKey)) /\ label \in Trimmed
    BY <1>3, <1>4, LabelIs
<1>6. KeysOf(t)[j] = PageKey(t.exchange, e.to, label)
  <2>1. CASE t.destinations = <<>>
    <3>1. KeysOf(t)[j] = PageKey(t.exchange, UnroutedQueue, OrElse(t.routingKey, NoKey))
        BY <2>1, EdgeGoesTo DEF KeysOf
    <3>2. d.binding = <<>> /\ e.to = UnroutedQueue
        BY <2>1, EdgeGoesTo DEF Reached, Unrouted
    <3>3. OrElse(t.routingKey, NoKey) \in Trimmed
        BY <1>4, NamesGiven DEF Name
    <3>4. label = OrElse(t.routingKey, NoKey)
        BY <1>5, <3>2, <3>3, EmptyIsTrimmed, NamesGiven
    <3> QED
        BY <3>1, <3>2, <3>4
  <2>2. CASE t.destinations # <<>>
    <3>1. j \in DOMAIN t.destinations /\ d = t.destinations[j]
        BY <2>2, EdgeGoesTo
    <3>2. KeysOf(t)[j] = PageKey(t.exchange, OrElse(d.queue, UnknownQueue),
                                 OrElse(d.binding, OrElse(t.routingKey, NoKey)))
        BY <2>2, <3>1 DEF KeysOf
    <3> HIDE DEF label, e, d
    <3> QED
        BY <1>2, <1>5, <3>2
  <2> QED
      BY <2>1, <2>2
<1> HIDE DEF label, d, e
<1>7. /\ KeysOf(t)[j] = PageKey(e.from, e.to, e.label)
      /\ e = [from |-> e.from, to |-> e.to, label |-> e.label]
    BY <1>2, <1>6
<1>8. e.from \in Characters /\ e.to \in Characters /\ e.label \in Characters
    BY <1>2, <1>3, <1>4, <1>5, TrimmedType
<1> QED
    BY <1>7, <1>8 DEF e

\* Three texts without bars are found again between the bars that join them.
LEMMA KeyIsSplit ==
    ASSUME NEW from \in Characters, NEW to \in Characters, NEW label \in Characters,
           ~Contains(from, Bar), ~Contains(to, Bar), ~Contains(label, Bar)
    PROVE  PageEdge(PageKey(from, to, label)) = [from |-> from, to |-> to, label |-> label]
<1> DEFINE head == from \o <<Bar>>
           mid == head \o to
           front == mid \o <<Bar>>
           key == front \o label
           S == {i \in DOMAIN key : key[i] = Bar}
           f == Len(from)
           l == Len(label)
           a == Len(head)
           m == Len(mid)
           b == Len(front)
           n == Len(key)
           order == Ascending(S)
           bars == order \o <<n + 1>>
<1>1. Bar \in Nat
    BY DEF Bar
<1>2. PageEdge(key) = [from |-> SubSeq(key, 1, bars[1] - 1),
                       to |-> SubSeq(key, bars[1] + 1, bars[2] - 1),
                       label |-> SubSeq(key, bars[2] + 1, bars[3] - 1)]
    BY DEF PageEdge
<1>3. PageKey(from, to, label) = key
    BY DEF PageKey
<1>4. /\ head \in Characters /\ f \in Nat /\ a = f + 1 /\ DOMAIN from = 1..f
      /\ \A i \in 1..f : head[i] = from[i]
      /\ head[f + 1] = Bar
    BY <1>1, JoinedWith
<1> HIDE DEF head, bars, order
<1>5. /\ mid \in Characters /\ a \in Nat /\ m = a + Len(to)
      /\ \A i \in 1..a : mid[i] = head[i]
      /\ \A i \in 1..Len(to) : mid[a + i] = to[i]
    BY <1>4, Joined
<1> HIDE DEF mid
<1>6. /\ front \in Characters /\ m \in Nat /\ b = m + 1
      /\ \A i \in 1..m : front[i] = mid[i]
      /\ front[m + 1] = Bar
    BY <1>1, <1>5, JoinedWith
<1> HIDE DEF front
<1>7. /\ key \in Characters /\ b \in Nat /\ l \in Nat /\ n = b + l
      /\ \A i \in 1..b : key[i] = front[i]
      /\ \A i \in 1..l : key[b + i] = label[i]
    BY <1>6, Joined
<1>8. n \in Nat /\ DOMAIN key = 1..n /\ Len(to) \in Nat
    BY <1>7, Joined
<1> HIDE DEF key, f, l, a, m, b, n
<1>9. /\ \A i \in 1..f : key[i] = from[i]
      /\ \A i \in 1..Len(to) : key[a + i] = to[i]
      /\ key[a] = Bar /\ key[b] = Bar
  <2>1. ASSUME NEW i \in 1..f PROVE key[i] = from[i]
    <3>1. i \in 1..a /\ i \in 1..m /\ i \in 1..b
        BY <1>4, <1>5, <1>6, <1>8
    <3>2. key[i] = front[i] /\ front[i] = mid[i] /\ mid[i] = head[i] /\ head[i] = from[i]
        BY <1>4, <1>5, <1>6, <1>7, <3>1
    <3> QED
        BY Zenon, <3>2
  <2>2. ASSUME NEW i \in 1..Len(to) PROVE key[a + i] = to[i]
    <3>1. a + i \in 1..m /\ a + i \in 1..b
        BY <1>5, <1>6, <1>8
    <3>2. key[a + i] = front[a + i] /\ front[a + i] = mid[a + i] /\ mid[a + i] = to[i]
        BY <1>5, <1>6, <1>7, <3>1
    <3> QED
        BY Zenon, <3>2
  <2>3. key[b] = Bar
    <3>1. b \in 1..b
        BY <1>6, <1>7
    <3> QED
        BY <1>6, <1>7, <3>1
  <2>4. key[a] = Bar
    <3>1. a \in 1..a /\ a \in 1..m /\ a \in 1..b
        BY <1>4, <1>5, <1>6, <1>8
    <3> QED
        BY <1>4, <1>5, <1>6, <1>7, <3>1
  <2> QED
      BY <2>1, <2>2, <2>3, <2>4
<1>10. S = {a, b}
  <2>1. ASSUME NEW i \in 1..n, key[i] = Bar
        PROVE  i = a \/ i = b
    <3>1. CASE i < a
      <4>1. i \in 1..f
          BY <1>4, <1>8, <3>1
      <4>2. from[i] = Bar
          BY <1>9, <2>1, <4>1
      <4> QED
          BY <4>1, <4>2 DEF Contains, f
    <3>2. CASE a < i /\ i < b
      <4> DEFINE k == i - a
      <4>1. k \in 1..Len(to) /\ a + k = i
          BY <1>5, <1>6, <1>8, <3>2
      <4> HIDE DEF k
      <4>2. to[k] = Bar
          BY <1>9, <2>1, <4>1
      <4> QED
          BY <4>1, <4>2 DEF Contains
    <3>3. CASE b < i
      <4> DEFINE k == i - b
      <4>1. k \in 1..l /\ b + k = i
          BY <1>7, <1>8, <3>3
      <4> HIDE DEF k
      <4>2. label[k] = Bar
          BY <1>7, <2>1, <4>1
      <4> QED
          BY <4>1, <4>2 DEF Contains, l
    <3> QED
        BY <1>5, <1>7, <1>8, <3>1, <3>2, <3>3
  <2>2. a \in 1..n /\ b \in 1..n
      BY <1>4, <1>5, <1>6, <1>7, <1>8
  <2> QED
      BY <1>8, <1>9, <2>1, <2>2
<1>11. a \in Nat /\ b \in Nat /\ a < b
    BY <1>4, <1>5, <1>6, <1>7, <1>8
<1> HIDE DEF S
<1>12. IsFiniteSet(S) /\ Cardinality(S) = 2 /\ S \in SUBSET Nat
  <2>1. IsFiniteSet({a}) /\ Cardinality({a}) = 1
      BY FS_Singleton
  <2>2. b \notin {a}
      BY <1>11
  <2>3. IsFiniteSet({a} \cup {b}) /\ Cardinality({a} \cup {b}) = 1 + 1
      BY <2>1, <2>2, FS_AddElement
  <2>4. S = {a} \cup {b}
      BY <1>10
  <2> QED
      BY <1>11, <2>3, <2>4
<1>13. order \in [1..2 -> S] /\ order[1] < order[2]
  <2>1. /\ order \in [1..Cardinality(S) -> S]
        /\ \A i, j \in 1..Cardinality(S) : i < j => order[i] < order[j]
      BY <1>12, AscendingEnumerates DEF order
  <2>2. 1 \in 1..2 /\ 2 \in 1..2 /\ 1 < 2
      OBVIOUS
  <2> HIDE DEF order
  <2> QED
      BY <1>12, <2>1, <2>2
<1>14. order[1] = a /\ order[2] = b
    BY <1>10, <1>11, <1>13
<1>15. bars[1] = a /\ bars[2] = b /\ bars[3] = n + 1
  <2>1. /\ order = [i \in DOMAIN order |-> order[i]] /\ DOMAIN order = 1..2
        /\ \A i \in 1..2 : order[i] \in Nat
      BY <1>12, <1>13
  <2>2. order \in Characters /\ Len(order) = 2
      BY <2>1, SeqIs DEF Characters
  <2>3. n + 1 \in Nat
      BY <1>8
  <2>4. /\ \A i \in 1..Len(order) : bars[i] = order[i]
        /\ bars[Len(order) + 1] = n + 1
      BY <2>2, <2>3, JoinedWith DEF bars
  <2> QED
      BY <1>14, <2>2, <2>4
<1>16. SubSeq(key, 1, a - 1) = from
  <2> DEFINE zero == 0
  <2>1. a - 1 = f /\ zero + 1 = 1 /\ f <= n /\ zero \in Nat /\ f = zero + f
      BY <1>4, <1>5, <1>6, <1>7, <1>8
  <2>2. \A i \in 1..f : key[zero + i] = from[i]
      BY <1>4, <1>9
  <2> HIDE DEF zero
  <2>3. StandsAt(from, key, zero, f)
      BY <1>4, <1>7, <2>1, <2>2 DEF StandsAt, f, n
  <2>4. SubSeq(key, zero + 1, f) = from
      BY Zenon, <2>3, PartReads
  <2> QED
      BY <2>1, <2>4
<1>17. SubSeq(key, a + 1, b - 1) = to
  <2>1. b - 1 = m /\ m = a + Len(to) /\ m <= n
      BY <1>5, <1>6, <1>7, <1>8
  <2>2. StandsAt(to, key, a, m)
      BY <1>5, <1>7, <1>9, <2>1 DEF StandsAt, n
  <2>3. SubSeq(key, a + 1, m) = to
      BY Zenon, <2>2, PartReads
  <2> QED
      BY <2>1, <2>3
<1>18. SubSeq(key, b + 1, n + 1 - 1) = label
  <2>1. n + 1 - 1 = n /\ n <= n
      BY <1>8
  <2>2. StandsAt(label, key, b, n)
      BY <1>7, <1>8, <2>1 DEF StandsAt, n, l
  <2>3. SubSeq(key, b + 1, n) = label
      BY Zenon, <2>2, PartReads
  <2> QED
      BY <2>1, <2>3
<1>19. PageEdge(key) = [from |-> from, to |-> to, label |-> label]
  <2>1. bars[1] - 1 = a - 1 /\ bars[1] + 1 = a + 1
      BY <1>15
  <2>2. bars[2] - 1 = b - 1 /\ bars[2] + 1 = b + 1
      BY <1>15
  <2>3. bars[3] - 1 = n + 1 - 1
      BY <1>8, <1>15
  <2>4. SubSeq(key, 1, bars[1] - 1) = from
      BY <1>16, <2>1
  <2>5. SubSeq(key, bars[1] + 1, bars[2] - 1) = to
      BY <1>17, <2>1, <2>2
  <2>6. SubSeq(key, bars[2] + 1, bars[3] - 1) = label
      BY <1>18, <2>2, <2>3
  <2> QED
      BY Zenon, <1>2, <2>4, <2>5, <2>6
<1> QED
    BY <1>3, <1>19

LEMMA CountedSame == Counted => PageAgreesWithGraph
<1> SUFFICES ASSUME Counted PROVE PageAgreesWithGraph
    OBVIOUS
<1> DEFINE E == EdgeLists(rendered)
           K == KeyLists(rendered)
<1>1. /\ Handling /\ IsLists(E) /\ Tallies(graph.edges, E) /\ IsLists(K) /\ Tallies(page.edges, K)
      /\ page.exchanges = graph.exchanges /\ page.queues = graph.queues
    BY RenderedAre, ListsAre DEF Counted, GraphCounted, PageCounted
<1>2. /\ DOMAIN E = DOMAIN rendered /\ DOMAIN K = DOMAIN rendered
      /\ \A i \in DOMAIN rendered :
            /\ rendered[i] \in Trace
            /\ E[i] = EdgesOf(rendered[i]) /\ K[i] = KeysOf(rendered[i])
            /\ DOMAIN E[i] = DOMAIN Reached(rendered[i])
            /\ DOMAIN K[i] = DOMAIN Reached(rendered[i])
  <2>1. \A i \in DOMAIN rendered : rendered[i] \in Trace
      BY <1>1, RenderedAre
  <2>2. /\ DOMAIN E = DOMAIN rendered /\ DOMAIN K = DOMAIN rendered
        /\ \A i \in DOMAIN rendered : E[i] = EdgesOf(rendered[i]) /\ K[i] = KeysOf(rendered[i])
      BY DEF EdgeLists, KeyLists
  <2> HIDE DEF E, K
  <2> QED
      BY <2>1, <2>2, ItemsAreLists
<1> HIDE DEF E, K
<1>3. Places(E) = Places(K)
  <2>1. \A p : p \in Places(E) <=> p \in Places(K)
    <3>1. \A p : p \in Places(E) <=> /\ p = <<p[1], p[2]>>
                                     /\ p[1] \in DOMAIN E /\ p[2] \in DOMAIN E[p[1]]
        BY PlaceIs
    <3>2. \A p : p \in Places(K) <=> /\ p = <<p[1], p[2]>>
                                     /\ p[1] \in DOMAIN K /\ p[2] \in DOMAIN K[p[1]]
        BY PlaceIs
    <3> QED
        BY <1>2, <3>1, <3>2
  <2> QED
      BY <2>1
<1>4. All(page.edges) = All(graph.edges)
  <2>1. Where(E, DOMAIN graph.edges) = Places(E)
      BY <1>1 DEF Where, Tallies
  <2>2. Where(K, DOMAIN page.edges) = Places(K)
      BY <1>1 DEF Where, Tallies
  <2>3. /\ Total(DOMAIN graph.edges, graph.edges) = Cardinality(Where(E, DOMAIN graph.edges))
        /\ Total(DOMAIN page.edges, page.edges) = Cardinality(Where(K, DOMAIN page.edges))
      BY <1>1, TotalIs
  <2> QED
      BY <1>3, <2>1, <2>2, <2>3 DEF All
<1>5. ASSUME \A n \in Names(graph) : ~Contains(n, Bar), NEW e
      PROVE  Total({key \in DOMAIN page.edges : PageEdge(key) = e}, page.edges)
                = CountOf(e, graph.edges)
  <2> DEFINE S == {key \in DOMAIN page.edges : PageEdge(key) = e}
  <2>1. ASSUME NEW p \in Places(E)
        PROVE  PageEdge(K[p[1]][p[2]]) = E[p[1]][p[2]]
    <3> DEFINE t == rendered[p[1]]
               g == E[p[1]][p[2]]
    <3>1. t \in Trace /\ p[2] \in DOMAIN Reached(t) /\ g = EdgesOf(t)[p[2]]
          /\ K[p[1]][p[2]] = KeysOf(t)[p[2]]
        BY <1>2, PlaceIs
    <3>2. g \in DOMAIN graph.edges
        BY <1>1 DEF Tallies
    <3>3. g.from \in graph.exchanges /\ g.to \in graph.queues
        BY <3>2 DEF Counted, GraphCounted
    <3>4. {g.from, g.to, g.label} \subseteq Names(graph)
        BY <3>2, <3>3 DEF Names
    <3>5. ~Contains(g.from, Bar) /\ ~Contains(g.to, Bar) /\ ~Contains(g.label, Bar)
        BY <1>5, <3>4
    <3> HIDE DEF t
    <3>6. /\ KeysOf(t)[p[2]] = PageKey(g.from, g.to, g.label)
          /\ g = [from |-> g.from, to |-> g.to, label |-> g.label]
          /\ g.from \in Characters /\ g.to \in Characters /\ g.label \in Characters
        BY <3>1, KeyIsOfEdge
    <3> HIDE DEF g
    <3>7. PageEdge(PageKey(g.from, g.to, g.label)) = g
        BY <3>5, <3>6, KeyIsSplit
    <3> QED
        BY <3>1, <3>6, <3>7 DEF g
  <2>2. Where(K, S) = Where(E, {e})
      BY <1>1, <1>3, <2>1 DEF Where, Tallies
  <2> HIDE DEF S
  <2>3. Total(S, page.edges) = Cardinality(Where(K, S))
      BY <1>1, TotalIs
  <2>4. CountOf(e, graph.edges) = Cardinality(Where(E, {e}))
      BY <1>1, CountIs
  <2> QED
      BY <2>2, <2>3, <2>4 DEF S
<1> QED
    BY <1>1, <1>4, <1>5 DEF PageAgreesWithGraph

\* The browser's graph is the one that --output=mermaid prints: the same nodes, as
\* many counts and, as long as no name holds a bar, the same count of every edge
\* when the page splits its keys again (updateGraph and rerenderGraph of page.html).
THEOREM PageAndGraph == Spec => []PageAgreesWithGraph
    BY CountedAlways, CountedSame, PTL

--------------------------------------------------------------------------------
(* The datagrams and the summary *)

LEMMA MetricIs ==
    ASSUME NEW t \in Trace, NEW j \in DOMAIN Metrics(t)
    PROVE  LET m == Metrics(t)[j]
           IN  /\ j \in Nat \ {0} /\ 1 \in DOMAIN Metrics(t)
               /\ m.names[1] = Segment(t.exchange)
               /\ m.kind = "events" <=> j = 1
               /\ m.kind = "unrouted" <=> IsUnrouted(t) /\ j = 2
               /\ m.kind = "deliveries" <=> ~IsUnrouted(t) /\ j # 1
               /\ m.kind = "deliveries" =>
                     /\ j - 1 \in DOMAIN t.destinations
                     /\ m.names[2] = Segment(t.destinations[j - 1].queue)
<1> DEFINE m == Metrics(t)[j]
<1>1. /\ j \in 1..Len(Metrics(t)) /\ Len(Metrics(t)) \in Nat \ {0}
      /\ DOMAIN Metrics(t) = 1..Len(Metrics(t))
    BY MetricsAre
<1>2. \A kind, names : /\ Metric(kind, names).kind = kind /\ Metric(kind, names).names = names
    BY DEF Metric
<1>3. CASE j = 1
  <2>1. m = Metric("events", <<Segment(t.exchange), Segment(t.eventType)>>)
      BY <1>3, MetricsAre
  <2>2. m.kind = "events" /\ m.names[1] = Segment(t.exchange)
      BY <1>2, <2>1
  <2> HIDE DEF m
  <2> QED
      BY <1>1, <1>3, <2>2 DEF m
<1>4. CASE j # 1 /\ IsUnrouted(t)
  <2>0. /\ Len(Metrics(t)) = 2
        /\ Metrics(t)[2] = Metric("unrouted", <<Segment(t.exchange)>>)
      BY <1>4, MetricsAre
  <2>1. j = 2 /\ m = Metric("unrouted", <<Segment(t.exchange)>>)
      BY <1>1, <1>4, <2>0
  <2>2. m.kind = "unrouted" /\ m.names[1] = Segment(t.exchange)
      BY <1>2, <2>1
  <2> HIDE DEF m
  <2> QED
      BY <1>1, <1>4, <2>1, <2>2 DEF m
<1>5. CASE j # 1 /\ ~IsUnrouted(t)
  <2> DEFINE k == j - 1
  <2>0. Len(Metrics(t)) = Len(t.destinations) + 1
      BY <1>5, MetricsAre
  <2>1. k \in DOMAIN t.destinations /\ k + 1 = j
    <3>1. Len(t.destinations) \in Nat /\ DOMAIN t.destinations = 1..Len(t.destinations)
        BY TraceIs
    <3> QED
        BY <1>1, <1>5, <2>0, <3>1
  <2>2. Metrics(t)[k + 1] = Metric("deliveries",
                                <<Segment(t.exchange), Segment(t.destinations[k].queue)>>)
    <3> HIDE DEF k
    <3> QED
        BY <1>5, <2>1, MetricsAre
  <2>3. /\ m.kind = "deliveries" /\ m.names[1] = Segment(t.exchange)
        /\ m.names[2] = Segment(t.destinations[j - 1].queue)
      BY <1>2, <2>1, <2>2
  <2> HIDE DEF m
  <2> QED
      BY <1>1, <1>5, <2>1, <2>3 DEF m
<1> QED
    BY <1>3, <1>4, <1>5

\* The lists of the metrics that were sent: all of the rendered traces', and the
\* first of that whose sending failed.
Sends(lists) ==
    /\ IsLists(lists) /\ Tallies(metrics, lists)
    /\ DOMAIN lists = 1..(Len(rendered) + One(failed))
    /\ \A i \in 1..Len(rendered) : lists[i] = Metrics(rendered[i])
    /\ \A i \in DOMAIN lists : \E t \in Trace :
          \A j \in DOMAIN lists[i] :
             /\ j \in DOMAIN Metrics(t) /\ lists[i][j] = Metrics(t)[j]
             /\ 1 \in DOMAIN lists[i]

LEMMA SendsExist ==
    ASSUME Counted
    PROVE  /\ \E lists : Sends(lists)
           /\ ~failed => Sends(MetricLists(rendered))
<1> DEFINE n == Len(rendered)
           M == MetricLists(rendered)
<1>1. /\ rendered \in Seq(Trace) /\ DOMAIN rendered = 1..n /\ n \in Nat
      /\ \A i \in DOMAIN rendered : rendered[i] \in Trace
    BY RenderedAre DEF Counted
<1>2. DOMAIN M = 1..n /\ \A i \in 1..n : M[i] = Metrics(rendered[i])
    BY <1>1 DEF MetricLists
<1>3. IsLists(M)
    BY <1>1, ListsAre
<1>4. \A i \in 1..n : \A j \in DOMAIN Metrics(rendered[i]) : 1 \in DOMAIN Metrics(rendered[i])
    BY <1>1, MetricIs
<1> HIDE DEF M, n
<1>5. CASE ~failed
  <2>1. Tallies(metrics, M) /\ n + One(failed) = n
      BY <1>1, <1>5 DEF Counted, MetricsCounted, One, M
  <2>2. Sends(M)
      BY <1>1, <1>2, <1>3, <1>4, <2>1 DEF Sends, n
  <2> QED
      BY <1>5, <2>2 DEF M
<1>6. CASE failed
  <2>1. PICK t \in Trace : \E sent \in 0..(Len(Metrics(t)) - 1) :
           Tallies(metrics, BrokenLists(rendered, t, sent))
      BY <1>6 DEF Counted, MetricsCounted
  <2>2. PICK sent \in 0..(Len(Metrics(t)) - 1) : Tallies(metrics, BrokenLists(rendered, t, sent))
      BY <2>1
  <2> DEFINE B == BrokenLists(rendered, t, sent)
             first == SubSeq(Metrics(t), 1, sent)
  <2>3. B = [i \in 1..(n + 1) |-> IF i = n + 1 THEN first ELSE Metrics(rendered[i])]
      BY DEF BrokenLists, n
  <2>4. /\ DOMAIN first = 1..sent /\ sent \in Nat
        /\ \A j \in 1..sent : j \in DOMAIN Metrics(t) /\ first[j] = Metrics(t)[j]
      BY <2>2, FirstMetrics
  <2> HIDE DEF first, B
  <2>5. /\ DOMAIN B = 1..(n + 1) /\ B[n + 1] = first
        /\ \A i \in 1..n : B[i] = Metrics(rendered[i])
      BY <1>1, <2>3
  <2>6. IsLists(B)
    <3>1. IsList(B) /\ IsList(first)
        BY <1>1, <2>4, <2>5 DEF IsList
    <3>2. \A i \in 1..n : IsList(B[i])
        BY <1>1, <2>5, ItemsAreLists
    <3>3. \A i \in 1..(n + 1) : i \in 1..n \/ i = n + 1
        BY <1>1
    <3> QED
        BY <2>5, <3>1, <3>2, <3>3 DEF IsLists
  <2>7. n + One(failed) = n + 1
      BY <1>6 DEF One
  <2>8. ASSUME NEW i \in 1..(n + 1)
        PROVE  \E u \in Trace : \A j \in DOMAIN B[i] :
                  j \in DOMAIN Metrics(u) /\ B[i][j] = Metrics(u)[j] /\ 1 \in DOMAIN B[i]
    <3>1. CASE i = n + 1
        BY <2>4, <2>5, <3>1
    <3>2. CASE i # n + 1
      <4>1. i \in 1..n
          BY <1>1, <3>2
      <4> QED
          BY <1>1, <1>4, <2>5, <4>1
    <3> QED
        BY <3>1, <3>2
  <2>9. Sends(B)
      BY <2>2, <2>5, <2>6, <2>7, <2>8 DEF Sends, n, B
  <2> QED
      BY <1>6, <2>9
<1> QED
    BY <1>5, <1>6

\* As many places, when the second coordinate of each is one more.
LEMMA ShiftedPlaces ==
    ASSUME NEW U, NEW T \in SUBSET (U \X Int), IsFiniteSet(T)
    PROVE  Cardinality({<<p[1], p[2] + 1>> : p \in T}) = Cardinality(T)
<1> DEFINE S == {<<p[1], p[2] + 1>> : p \in T}
           f == [p \in T |-> <<p[1], p[2] + 1>>]
<1>1. f \in Surjection(T, S)
    BY DEF Surjection
<1>2. ASSUME NEW p \in T, NEW q \in T, f[p] = f[q]
      PROVE  p = q
    BY <1>2
<1>3. f \in Bijection(T, S)
  <2> HIDE DEF f, S
  <2>1. f \in [T -> S]
      BY <1>1 DEF Surjection
  <2>2. f \in Injection(T, S)
      BY <1>2, <2>1 DEF Injection, IsInjective
  <2> QED
      BY <1>1, <2>2 DEF Bijection
<1> HIDE DEF S, f
<1>4. ExistsBijection(T, S)
    BY <1>3 DEF ExistsBijection
<1>5. Cardinality(S) = Cardinality(T)
    BY <1>4, FS_Bijection
<1> QED
    BY <1>5 DEF S

\* Each trace is sent as one event, before anything else that becomes of it.
LEMMA EventsSent ==
    ASSUME Counted, NEW lists, Sends(lists)
    PROVE  LET begun == {i \in DOMAIN lists : 1 \in DOMAIN lists[i]}
           IN  /\ Sent(Counting("events")) = Cardinality(begun)
               /\ 1..Len(rendered) \subseteq begun
               /\ \A x \in {m.names[1] : m \in DOMAIN metrics} :
                     /\ Sent(Into(Counting("events"), 1, x))
                           = Cardinality({i \in begun : lists[i][1].names[1] = x})
                     /\ Sent(Into(Counting("events"), 1, x)) > 0
                     /\ Sent(Into(Counting("unrouted"), 1, x))
                           <= Sent(Into(Counting("events"), 1, x))
<1> DEFINE begun == {i \in DOMAIN lists : 1 \in DOMAIN lists[i]}
           Begun(x) == {i \in begun : lists[i][1].names[1] = x}
           item(p) == lists[p[1]][p[2]]
           events == Counting("events")
           unrouted == Counting("unrouted")
<1>1. IsLists(lists) /\ Tallies(metrics, lists)
    BY DEF Sends
<1>2. ASSUME NEW S
      PROVE  /\ Sent(S) = Cardinality(Where(lists, S))
             /\ IsFiniteSet(Where(lists, S)) /\ Cardinality(Where(lists, S)) \in Nat
    BY <1>1, TotalIs, PlacesFinite DEF Sent
<1>3. ASSUME NEW i \in DOMAIN lists, NEW j \in DOMAIN lists[i]
      PROVE  /\ lists[i][j].kind = "events" <=> j = 1
             /\ lists[i][j].kind = "unrouted" => j = 2
             /\ i \in begun /\ lists[i][1].names[1] = lists[i][j].names[1]
  <2>1. PICK t \in Trace : \A k \in DOMAIN lists[i] :
           k \in DOMAIN Metrics(t) /\ lists[i][k] = Metrics(t)[k] /\ 1 \in DOMAIN lists[i]
      BY DEF Sends
  <2>2. 1 \in DOMAIN lists[i] /\ lists[i][1] = Metrics(t)[1] /\ 1 \in DOMAIN Metrics(t)
        /\ j \in DOMAIN Metrics(t) /\ lists[i][j] = Metrics(t)[j]
      BY <2>1
  <2>3. /\ Metrics(t)[j].kind = "events" <=> j = 1
        /\ Metrics(t)[j].kind = "unrouted" => j = 2
        /\ Metrics(t)[j].names[1] = Segment(t.exchange)
        /\ Metrics(t)[1].names[1] = Segment(t.exchange)
      BY <2>2, MetricIs
  <2> QED
      BY <2>2, <2>3
<1>4. \A p : p \in Places(lists) <=>
         p = <<p[1], p[2]>> /\ p[1] \in DOMAIN lists /\ p[2] \in DOMAIN lists[p[1]]
    BY PlaceIs
<1>5. \A p \in Places(lists) : item(p) \in DOMAIN metrics
    BY <1>1 DEF Tallies
<1>6. IsFiniteSet(begun)
  <2>1. IsFiniteSet(DOMAIN lists)
      BY <1>1, FS_Interval DEF IsLists, IsList
  <2>2. begun \in SUBSET (DOMAIN lists)
      OBVIOUS
  <2> QED
      BY <2>1, <2>2, FS_Subset
<1>7. Where(lists, events) = {<<i, 1>> : i \in begun}
    BY <1>3, <1>4, <1>5 DEF Where, Counting
<1>8. Sent(events) = Cardinality(begun)
    BY <1>2, <1>6, <1>7, OnePlaceEach
<1>9. ASSUME NEW x
      PROVE  Sent(Into(events, 1, x)) = Cardinality(Begun(x)) /\ IsFiniteSet(Begun(x))
  <2>1. Where(lists, Into(events, 1, x)) = {<<i, 1>> : i \in Begun(x)}
      BY <1>3, <1>4, <1>5 DEF Where, Counting, Into
  <2>2. Begun(x) \in SUBSET begun
      OBVIOUS
  <2> HIDE DEF Begun, begun, events
  <2>3. IsFiniteSet(Begun(x))
      BY <1>6, <2>2, FS_Subset
  <2>4. Cardinality({<<i, 1>> : i \in Begun(x)}) = Cardinality(Begun(x))
      BY <2>3, OnePlaceEach
  <2> QED
      BY <1>2, <2>1, <2>3, <2>4
<1>10. ASSUME NEW x \in {m.names[1] : m \in DOMAIN metrics}
       PROVE  Sent(Into(events, 1, x)) > 0
  <2>1. PICK m \in DOMAIN metrics : m.names[1] = x
      OBVIOUS
  <2>2. PICK p \in Places(lists) : item(p) = m
      BY <1>1 DEF Tallies
  <2>3. p[1] \in Begun(x)
      BY <1>3, <1>4, <2>1, <2>2
  <2> HIDE DEF Begun
  <2>4. Cardinality(Begun(x)) # 0 /\ Cardinality(Begun(x)) \in Nat
      BY <1>9, <2>3, FS_EmptySet, FS_CardinalityType
  <2> QED
      BY <1>9, <2>4
<1>11. ASSUME NEW x
       PROVE  Sent(Into(unrouted, 1, x)) <= Sent(Into(events, 1, x))
  <2> DEFINE places == Where(lists, Into(unrouted, 1, x))
             f == [p \in places |-> p[1]]
  <2>1. ASSUME NEW p \in places
        PROVE  p = <<p[1], 2>> /\ p[1] \in Begun(x)
    <3>1. /\ p \in Places(lists) /\ item(p).kind = "unrouted" /\ item(p).names[1] = x
        BY DEF Where, Counting, Into
    <3> QED
        BY <1>3, <1>4, <3>1
  <2> HIDE DEF places, Begun
  <2>2. f \in Injection(places, Begun(x))
    <3>1. f \in [places -> Begun(x)]
        BY <2>1
    <3>2. \A p, q \in places : f[p] = f[q] => p = q
        BY <2>1
    <3> QED
        BY <3>1, <3>2 DEF Injection, IsInjective
  <2>3. Cardinality(places) <= Cardinality(Begun(x))
      BY <1>9, <2>2, FS_Injection
  <2> QED
      BY <1>2, <1>9, <2>3 DEF places
<1>12. 1..Len(rendered) \subseteq begun
  <2>1. ASSUME NEW i \in 1..Len(rendered)
        PROVE  i \in begun
    <3>1. i \in DOMAIN lists /\ lists[i] = Metrics(rendered[i])
      <4>1. Len(rendered) \in Nat /\ One(failed) \in {0, 1}
          BY RenderedAre DEF Counted, One
      <4> QED
          BY <4>1 DEF Sends
    <3>2. 1 \in DOMAIN Metrics(rendered[i])
      <4>1. rendered[i] \in Trace
          BY RenderedAre DEF Counted
      <4>2. Len(Metrics(rendered[i])) \in Nat \ {0}
            /\ DOMAIN Metrics(rendered[i]) = 1..Len(Metrics(rendered[i]))
          BY <4>1, MetricsAre
      <4> QED
          BY <4>2
    <3> QED
        BY <3>1, <3>2
  <2> QED
      BY <2>1
<1> QED
    BY <1>8, <1>9, <1>10, <1>11, <1>12

\* If no sending failed, the events, deliveries and unrouted messages were sent of
\* the same traces of which the summary counts them.
LEMMA AllSent ==
    ASSUME Counted, ~failed
    PROVE  /\ \A x : Cardinality({i \in DOMAIN rendered : Segment(rendered[i].exchange) = x})
                        = Spelled(summary.exchanges, x)
           /\ \A q : Sent(Into(Counting("deliveries"), 2, q)) = Spelled(summary.queues, q)
           /\ Sent(Counting("deliveries")) = All(summary.queues)
           /\ Sent(Counting("unrouted")) = summary.unrouted
<1> DEFINE M == MetricLists(rendered)
           X == ExchangeLists(rendered)
           Q == QueueLists(rendered)
           deliveries == Counting("deliveries")
           unrouted == Counting("unrouted")
<1>1. /\ Handling /\ IsLists(M) /\ IsLists(X) /\ IsLists(Q)
      /\ Tallies(metrics, M) /\ Tallies(summary.exchanges, X) /\ Tallies(summary.queues, Q)
    BY RenderedAre, ListsAre DEF Counted, SummaryCounted, MetricsCounted
<1>2. /\ DOMAIN M = DOMAIN rendered /\ DOMAIN X = DOMAIN rendered /\ DOMAIN Q = DOMAIN rendered
      /\ \A i \in DOMAIN rendered :
            /\ rendered[i] \in Trace
            /\ M[i] = Metrics(rendered[i])
            /\ DOMAIN X[i] = {1} /\ X[i][1] = rendered[i].exchange
            /\ Q[i] = QueuesOf(rendered[i])
            /\ DOMAIN Q[i] = DOMAIN rendered[i].destinations
  <2>1. \A i \in DOMAIN rendered : rendered[i] \in Trace
      BY <1>1, RenderedAre
  <2>2. /\ DOMAIN M = DOMAIN rendered /\ DOMAIN X = DOMAIN rendered
        /\ DOMAIN Q = DOMAIN rendered
        /\ \A i \in DOMAIN rendered :
              /\ M[i] = Metrics(rendered[i]) /\ X[i] = <<rendered[i].exchange>>
              /\ Q[i] = QueuesOf(rendered[i])
      BY DEF MetricLists, ExchangeLists, QueueLists, ExchangesOf
  <2>3. \A x : DOMAIN <<x>> = {1} /\ <<x>>[1] = x
      OBVIOUS
  <2> HIDE DEF M, X, Q
  <2> QED
      BY <2>1, <2>2, <2>3, ItemsAreLists
<1> HIDE DEF M, X, Q
<1>3. ASSUME NEW S PROVE Sent(S) = Cardinality(Where(M, S))
    BY <1>1, TotalIs DEF Sent
<1>4. ASSUME NEW i \in DOMAIN rendered, NEW j \in DOMAIN M[i]
      PROVE  /\ j \in Nat \ {0}
             /\ M[i][j].kind = "unrouted" <=> IsUnrouted(rendered[i]) /\ j = 2
             /\ M[i][j].kind = "deliveries" =>
                   /\ j - 1 \in DOMAIN Q[i]
                   /\ M[i][j].names[2] = Segment(Q[i][j - 1])
  <2>1. /\ rendered[i] \in Trace /\ j \in DOMAIN Metrics(rendered[i])
        /\ M[i][j] = Metrics(rendered[i])[j]
      BY <1>2
  <2>2. /\ j \in Nat \ {0}
        /\ M[i][j].kind = "unrouted" <=> IsUnrouted(rendered[i]) /\ j = 2
        /\ M[i][j].kind = "deliveries" =>
              /\ j - 1 \in DOMAIN rendered[i].destinations
              /\ M[i][j].names[2] = Segment(rendered[i].destinations[j - 1].queue)
      BY <2>1, MetricIs
  <2>3. \A k \in DOMAIN rendered[i].destinations : Q[i][k] = rendered[i].destinations[k].queue
    <3>1. ASSUME NEW k \in DOMAIN rendered[i].destinations
          PROVE  QueuesOf(rendered[i])[k] = rendered[i].destinations[k].queue
      <4>1. rendered[i].destinations # <<>>
          OBVIOUS
      <4>2. k \in DOMAIN Reached(rendered[i])
          BY <4>1 DEF Reached
      <4> QED
          BY <2>1, <4>1, <4>2, EdgeGoesTo
    <3> QED
        BY <1>2, <3>1
  <2> QED
      BY <1>2, <2>2, <2>3
<1>5. ASSUME NEW i \in DOMAIN rendered, NEW j \in DOMAIN Q[i]
      PROVE  /\ j \in Nat /\ j + 1 - 1 = j
             /\ j + 1 \in DOMAIN M[i] /\ M[i][j + 1].kind = "deliveries"
  <2> DEFINE t == rendered[i]
  <2>1. t \in Trace /\ j \in DOMAIN t.destinations /\ M[i] = Metrics(t)
      BY <1>2
  <2> HIDE DEF t
  <2>2. /\ Len(t.destinations) \in Nat /\ j \in 1..Len(t.destinations)
        /\ DOMAIN t.destinations = 1..Len(t.destinations)
      BY <2>1, TraceIs
  <2>3. ~IsUnrouted(t)
    <3>1. IsUnrouted(t) => Len(t.destinations) = 0
        BY <2>1, MetricsAre
    <3> QED
        BY <2>2, <3>1
  <2>4. /\ Len(Metrics(t)) = Len(t.destinations) + 1
        /\ DOMAIN Metrics(t) = 1..Len(Metrics(t))
        /\ Metrics(t)[j + 1] = Metric("deliveries",
                                  <<Segment(t.exchange), Segment(t.destinations[j].queue)>>)
      BY <2>1, <2>3, MetricsAre
  <2>5. j + 1 \in DOMAIN Metrics(t) /\ j \in Nat /\ j + 1 - 1 = j
      BY <2>2, <2>4
  <2>6. Metrics(t)[j + 1].kind = "deliveries"
      BY <2>4 DEF Metric
  <2> QED
      BY <2>1, <2>5, <2>6
<1>6. /\ \A p : p \in Places(M) <=>
            p = <<p[1], p[2]>> /\ p[1] \in DOMAIN rendered /\ p[2] \in DOMAIN M[p[1]]
      /\ \A p : p \in Places(Q) <=>
            p = <<p[1], p[2]>> /\ p[1] \in DOMAIN rendered /\ p[2] \in DOMAIN Q[p[1]]
      /\ \A p : p \in Places(X) <=>
            p = <<p[1], p[2]>> /\ p[1] \in DOMAIN rendered /\ p[2] \in DOMAIN X[p[1]]
  <2>1. \A p : p \in Places(M) <=>
           p = <<p[1], p[2]>> /\ p[1] \in DOMAIN M /\ p[2] \in DOMAIN M[p[1]]
      BY PlaceIs
  <2>2. \A p : p \in Places(Q) <=>
           p = <<p[1], p[2]>> /\ p[1] \in DOMAIN Q /\ p[2] \in DOMAIN Q[p[1]]
      BY PlaceIs
  <2>3. \A p : p \in Places(X) <=>
           p = <<p[1], p[2]>> /\ p[1] \in DOMAIN X /\ p[2] \in DOMAIN X[p[1]]
      BY PlaceIs
  <2> QED
      BY <1>2, <2>1, <2>2, <2>3
<1>7. /\ \A p \in Places(M) : M[p[1]][p[2]] \in DOMAIN metrics
      /\ \A p \in Places(Q) : Q[p[1]][p[2]] \in DOMAIN summary.queues
      /\ \A p \in Places(X) : X[p[1]][p[2]] \in DOMAIN summary.exchanges
    BY <1>1 DEF Tallies
<1>8. ASSUME NEW x
      PROVE  Cardinality({i \in DOMAIN rendered : Segment(rendered[i].exchange) = x})
                = Spelled(summary.exchanges, x)
  <2> DEFINE S == {n \in DOMAIN summary.exchanges : Segment(n) = x}
             I == {i \in DOMAIN rendered : Segment(rendered[i].exchange) = x}
  <2>1. Where(X, S) = {<<i, 1>> : i \in I}
      BY <1>2, <1>6, <1>7 DEF Where
  <2>2. Spelled(summary.exchanges, x) = Total(S, summary.exchanges)
      BY DEF Spelled
  <2>3. I \in SUBSET (DOMAIN rendered)
      OBVIOUS
  <2> HIDE DEF S, I
  <2>4. Total(S, summary.exchanges) = Cardinality(Where(X, S))
      BY <1>1, TotalIs
  <2>5. Cardinality({<<i, 1>> : i \in I}) = Cardinality(I)
      BY <1>1, <2>3, RenderedAre, OnePlaceEach
  <2> QED
      BY <2>1, <2>2, <2>4, <2>5 DEF I
<1>9. ASSUME NEW S, NEW T,
             \A p \in Where(M, S) : M[p[1]][p[2]].kind = "deliveries",
             \A i \in DOMAIN rendered : \A j \in DOMAIN Q[i] :
                M[i][j + 1] \in S <=> Q[i][j] \in T
      PROVE  Cardinality(Where(M, S)) = Cardinality(Where(Q, T))
  <2> DEFINE A == Where(M, S)
             B == Where(Q, T)
  <2>1. ASSUME NEW p \in A
        PROVE  \E r \in B : p = <<r[1], r[2] + 1>>
    <3> DEFINE i == p[1]
               j == p[2] - 1
    <3>1. /\ p = <<p[1], p[2]>> /\ i \in DOMAIN rendered /\ p[2] \in DOMAIN M[i]
          /\ M[i][p[2]] \in S /\ M[i][p[2]].kind = "deliveries"
        BY <1>6, <1>9 DEF Where
    <3>2. p[2] \in Nat /\ j \in DOMAIN Q[i] /\ j + 1 = p[2]
        BY <1>4, <3>1
    <3>3. Q[i][j] \in T
        BY <1>9, <3>1, <3>2
    <3>4. <<i, j>> \in Places(Q)
        BY <1>6, <3>1, <3>2
    <3>5. <<i, j>> \in B
        BY <3>3, <3>4 DEF Where
    <3>6. p = <<<<i, j>>[1], <<i, j>>[2] + 1>>
        BY <3>1, <3>2
    <3> QED
        BY <3>5, <3>6
  <2>2. ASSUME NEW r \in B
        PROVE  r \in (DOMAIN rendered) \X Int /\ <<r[1], r[2] + 1>> \in A
    <3> DEFINE i == r[1]
               j == r[2]
    <3>1. /\ r = <<r[1], r[2]>> /\ i \in DOMAIN rendered /\ j \in DOMAIN Q[i]
          /\ Q[i][j] \in T
        BY <1>6 DEF Where
    <3>2. j \in Nat /\ j + 1 \in DOMAIN M[i] /\ M[i][j + 1] \in S
        BY <1>5, <1>9, <3>1
    <3>3. <<i, j + 1>> \in Places(M)
        BY <1>6, <3>1, <3>2
    <3> QED
        BY <3>1, <3>2, <3>3 DEF Where
  <2>3. IsFiniteSet(B)
      BY <1>1, PlacesFinite
  <2> HIDE DEF A, B
  <2>4. A = {<<r[1], r[2] + 1>> : r \in B}
      BY <2>1, <2>2
  <2>5. B \in SUBSET ((DOMAIN rendered) \X Int)
      BY <2>2
  <2>6. Cardinality({<<r[1], r[2] + 1>> : r \in B}) = Cardinality(B)
      BY <2>3, <2>5, ShiftedPlaces
  <2> QED
      BY <2>4, <2>6 DEF A, B
<1>10. ASSUME NEW q
       PROVE  Sent(Into(deliveries, 2, q)) = Spelled(summary.queues, q)
  <2> DEFINE S == Into(deliveries, 2, q)
             T == {n \in DOMAIN summary.queues : Segment(n) = q}
  <2>1. \A p \in Where(M, S) : M[p[1]][p[2]].kind = "deliveries"
      BY DEF Where, Into, Counting
  <2>2. ASSUME NEW i \in DOMAIN rendered, NEW j \in DOMAIN Q[i]
        PROVE  M[i][j + 1] \in S <=> Q[i][j] \in T
    <3> DEFINE k == j + 1
    <3>0. k \in DOMAIN M[i] /\ M[i][k].kind = "deliveries" /\ k - 1 = j
        BY <1>5
    <3> HIDE DEF k
    <3>1. /\ k \in DOMAIN M[i] /\ M[i][k].kind = "deliveries"
          /\ M[i][k].names[2] = Segment(Q[i][j])
        BY <1>4, <3>0
    <3> USE DEF k
    <3>2. <<i, j + 1>> \in Places(M) /\ <<i, j>> \in Places(Q)
        BY <1>6, <3>1
    <3>3. M[i][j + 1] \in DOMAIN metrics /\ Q[i][j] \in DOMAIN summary.queues
        BY <1>7, <3>2
    <3> QED
        BY <3>1, <3>3 DEF Into, Counting
  <2>3. Spelled(summary.queues, q) = Total(T, summary.queues)
      BY DEF Spelled
  <2> HIDE DEF S, T
  <2>4. Cardinality(Where(M, S)) = Cardinality(Where(Q, T))
      BY <1>9, <2>1, <2>2
  <2>5. Total(T, summary.queues) = Cardinality(Where(Q, T))
      BY <1>1, TotalIs
  <2>6. Sent(S) = Cardinality(Where(M, S))
      BY <1>3
  <2> QED
      BY <2>3, <2>4, <2>5, <2>6 DEF S
<1>11. Sent(deliveries) = All(summary.queues)
  <2> DEFINE T == DOMAIN summary.queues
  <2>1. \A p \in Where(M, deliveries) : M[p[1]][p[2]].kind = "deliveries"
      BY DEF Where, Counting
  <2>2. ASSUME NEW i \in DOMAIN rendered, NEW j \in DOMAIN Q[i]
        PROVE  M[i][j + 1] \in deliveries <=> Q[i][j] \in T
    <3>1. j + 1 \in DOMAIN M[i] /\ M[i][j + 1].kind = "deliveries"
        BY <1>5
    <3>2. <<i, j + 1>> \in Places(M) /\ <<i, j>> \in Places(Q)
        BY <1>6, <3>1
    <3>3. M[i][j + 1] \in DOMAIN metrics /\ Q[i][j] \in DOMAIN summary.queues
        BY <1>7, <3>2
    <3> QED
        BY <3>1, <3>3 DEF Counting
  <2> HIDE DEF T, deliveries
  <2>3. Cardinality(Where(M, deliveries)) = Cardinality(Where(Q, T))
      BY <1>9, <2>1, <2>2
  <2>4. Total(T, summary.queues) = Cardinality(Where(Q, T))
      BY <1>1, TotalIs
  <2>5. Sent(deliveries) = Cardinality(Where(M, deliveries))
      BY <1>3
  <2> QED
      BY <2>3, <2>4, <2>5 DEF All, T
<1>12. Sent(unrouted) = summary.unrouted
  <2> DEFINE I == {i \in DOMAIN rendered : IsUnrouted(rendered[i])}
  <2>1. ASSUME NEW i \in I
        PROVE  <<i, 2>> \in Where(M, unrouted)
    <3>1. rendered[i] \in Trace /\ M[i] = Metrics(rendered[i]) /\ IsUnrouted(rendered[i])
        BY <1>2
    <3>2. Len(Metrics(rendered[i])) = 2
          /\ DOMAIN Metrics(rendered[i]) = 1..Len(Metrics(rendered[i]))
        BY <3>1, MetricsAre
    <3>3. 2 \in DOMAIN M[i] /\ <<i, 2>> \in Places(M)
        BY <1>6, <3>1, <3>2
    <3>4. M[i][2].kind = "unrouted" /\ M[i][2] \in DOMAIN metrics
        BY <1>4, <1>7, <3>1, <3>3
    <3> QED
        BY <3>3, <3>4 DEF Where, Counting
  <2>2. ASSUME NEW p \in Where(M, unrouted)
        PROVE  p \in {<<i, 2>> : i \in I}
    <3>1. /\ p = <<p[1], p[2]>> /\ p[1] \in DOMAIN rendered /\ p[2] \in DOMAIN M[p[1]]
          /\ M[p[1]][p[2]].kind = "unrouted"
        BY <1>6 DEF Where, Counting
    <3>2. p[2] = 2 /\ p[1] \in I
        BY <1>4, <3>1
    <3> QED
        BY <3>1, <3>2
  <2>3. Where(M, unrouted) = {<<i, 2>> : i \in I}
      BY <2>1, <2>2
  <2>4. I \in SUBSET (DOMAIN rendered) /\ summary.unrouted = Cardinality(I)
      BY DEF Counted, SummaryCounted
  <2> HIDE DEF I, unrouted
  <2>5. Cardinality({<<i, 2>> : i \in I}) = Cardinality(I)
      BY <1>1, <2>4, RenderedAre, OnePlaceEach
  <2> QED
      BY <1>3, <2>3, <2>4, <2>5
<1> QED
    BY <1>8, <1>10, <1>11, <1>12

LEMMA CountedSent == Counted => StatsdAgreesWithSummary
<1> SUFFICES ASSUME Counted PROVE StatsdAgreesWithSummary
    OBVIOUS
<1> DEFINE events == Counting("events")
           n == Len(rendered)
<1>1. PICK lists : Sends(lists) /\ (~failed => lists = MetricLists(rendered))
    BY SendsExist
<1> DEFINE begun == {i \in DOMAIN lists : 1 \in DOMAIN lists[i]}
<1>2. /\ n \in Nat /\ DOMAIN rendered = 1..n
      /\ \A i \in DOMAIN rendered : rendered[i] \in Trace
    BY RenderedAre DEF Counted
<1>3. DOMAIN lists = 1..(n + One(failed)) /\ \A i \in 1..n : lists[i] = Metrics(rendered[i])
    BY <1>1 DEF Sends
<1>4. /\ Sent(events) = Cardinality(begun)
      /\ 1..n \subseteq begun
      /\ \A x \in {m.names[1] : m \in DOMAIN metrics} :
            /\ Sent(Into(events, 1, x)) = Cardinality({i \in begun : lists[i][1].names[1] = x})
            /\ Sent(Into(events, 1, x)) > 0
            /\ Sent(Into(Counting("unrouted"), 1, x)) <= Sent(Into(events, 1, x))
    BY <1>1, EventsSent
<1>5. Sent(events) - summary.total \in 0..One(failed)
  <2>1. One(failed) \in {0, 1} /\ summary.total = n
      BY DEF One, Counted, SummaryCounted
  <2>2. begun \in SUBSET (1..(n + One(failed)))
      BY <1>3
  <2>3. 1..n \in SUBSET begun
      BY <1>4
  <2> HIDE DEF begun, events, n
  <2>4. /\ IsFiniteSet(1..(n + One(failed)))
        /\ Cardinality(1..(n + One(failed))) = n + One(failed)
        /\ Cardinality(1..n) = n
    <3> DEFINE k == n + One(failed)
    <3>1. k \in Nat /\ n \in Nat
        BY <1>2, <2>1
    <3> HIDE DEF k
    <3>2. \A m \in Nat : IsFiniteSet(1..m) /\ Cardinality(1..m) = m
      <4>1. ASSUME NEW m \in Nat
            PROVE  IsFiniteSet(1..m) /\ Cardinality(1..m) = IF 1 > m THEN 0 ELSE m - 1 + 1
          BY FS_Interval
      <4> QED
          BY <4>1
    <3> QED
        BY <3>1, <3>2 DEF k
  <2>5. IsFiniteSet(begun) /\ Cardinality(begun) <= n + One(failed) /\ Cardinality(begun) \in Nat
    <3>1. IsFiniteSet(begun) /\ Cardinality(begun) <= Cardinality(1..(n + One(failed)))
        BY <2>2, <2>4, FS_Subset
    <3> QED
        BY <2>4, <3>1, FS_CardinalityType
  <2>6. n <= Cardinality(begun)
    <3>1. Cardinality(1..n) <= Cardinality(begun)
        BY <2>3, <2>5, FS_Subset
    <3> QED
        BY <2>4, <3>1
  <2> QED
      BY <1>2, <1>4, <2>1, <2>5, <2>6
<1>6. ASSUME ~failed
      PROVE  \A x \in {m.names[1] : m \in DOMAIN metrics} :
                Sent(Into(events, 1, x)) = Spelled(summary.exchanges, x)
  <2>1. DOMAIN lists = 1..n
      BY <1>2, <1>3, <1>6 DEF One
  <2>2. ASSUME NEW i \in 1..n
        PROVE  i \in begun /\ lists[i][1].names[1] = Segment(rendered[i].exchange)
    <3>1. rendered[i] \in Trace /\ lists[i] = Metrics(rendered[i]) /\ i \in begun
        BY <1>2, <1>3, <1>4
    <3> QED
        BY <3>1, MetricIs
  <2>3. ASSUME NEW x
        PROVE  {i \in begun : lists[i][1].names[1] = x}
                  = {i \in DOMAIN rendered : Segment(rendered[i].exchange) = x}
    <3>1. begun = 1..n
        BY <2>1, <2>2
    <3> HIDE DEF begun
    <3> QED
        BY <1>2, <2>2, <3>1
  <2> QED
      BY <1>4, <1>6, <2>3, AllSent
<1> HIDE DEF events
<1>7. ~failed =>
         /\ \A q : Sent(Into(Counting("deliveries"), 2, q)) = Spelled(summary.queues, q)
         /\ Sent(Counting("deliveries")) = All(summary.queues)
         /\ Sent(Counting("unrouted")) = summary.unrouted
    BY AllSent
<1> QED
    BY <1>4, <1>5, <1>6, <1>7 DEF StatsdAgreesWithSummary, events

\* What StatsD was sent is what the summary counts, name by name as StatsD spells it.
\* A trace whose sending fails half way adds no more than one event, and nothing of
\* an exchange that has no event (statsdRenderer.RenderTrace).
THEOREM StatsdAndSummary == Spec => []StatsdAgreesWithSummary
    BY CountedAlways, CountedSent, PTL

--------------------------------------------------------------------------------
(* The tables of the summary *)

\* b goes on from, or is greater than, a at place i, and is like it before.
LessAt(a, b, i) ==
    /\ i \in 1..Len(b) /\ i - 1 <= Len(a)
    /\ \A j \in 1..(i - 1) : a[j] = b[j]
    /\ i <= Len(a) => a[i] < b[i]

LEMMA LessIs ==
    ASSUME NEW a \in Characters, NEW b \in Characters
    PROVE  Less(a, b) <=> \E i \in 1..Len(b) : LessAt(a, b, i)
<1>1. /\ Len(a) \in Nat /\ DOMAIN a = 1..Len(a)
      /\ Len(b) \in Nat /\ DOMAIN b = 1..Len(b)
    BY DEF Characters
<1>2. ASSUME IsStrictPrefix(a, b)
      PROVE  LessAt(a, b, Len(a) + 1)
  <2>1. Len(a) <= Len(b) /\ (\A j \in 1..Len(a) : a[j] = b[j]) /\ a # b
      BY <1>2, PrefixIs DEF IsStrictPrefix
  <2>2. ASSUME Len(a) = Len(b) PROVE FALSE
      BY <2>1, <2>2, SameTexts
  <2>3. Len(a) \in Nat /\ Len(b) \in Nat /\ Len(a) <= Len(b) /\ Len(a) # Len(b)
    <3>1. Len(a) \in Nat /\ Len(b) \in Nat
        BY <1>1
    <3>2. Len(a) <= Len(b)
        BY Zenon, <2>1
    <3>3. Len(a) # Len(b)
        BY Zenon, <2>2
    <3> QED
        BY <3>1, <3>2, <3>3
  <2>4. PICK n \in Nat : n = Len(a) + 1
      BY <2>3
  <2>5. n \in 1..Len(b) /\ n - 1 = Len(a) /\ ~(n <= Len(a))
      BY <2>3, <2>4
  <2>6. LessAt(a, b, n)
      BY <2>1, <2>3, <2>5 DEF LessAt
  <2> QED
      BY <2>4, <2>6
<1>3. ASSUME NEW i \in 1..Len(b), LessAt(a, b, i), ~(i <= Len(a))
      PROVE  IsStrictPrefix(a, b)
  <2>1. Len(a) < Len(b) /\ \A j \in 1..Len(a) : a[j] = b[j]
      BY <1>1, <1>3 DEF LessAt
  <2>2. a # b
      BY <1>1, <2>1
  <2> QED
      BY <1>1, <2>1, <2>2, PrefixIs DEF IsStrictPrefix
<1>4. ASSUME NEW i \in DOMAIN a \cap DOMAIN b
      PROVE  LessAt(a, b, i) <=> a[i] < b[i] /\ \A j \in 1..(i - 1) : a[j] = b[j]
    BY <1>1 DEF LessAt
<1>5. \A i \in 1..Len(b) : LessAt(a, b, i) /\ i <= Len(a) => i \in DOMAIN a \cap DOMAIN b
    BY <1>1
<1>6. ASSUME IsStrictPrefix(a, b)
      PROVE  \E i \in 1..Len(b) : LessAt(a, b, i)
    BY <1>2, <1>6 DEF LessAt
<1>7. \A i \in DOMAIN a \cap DOMAIN b : i \in 1..Len(b)
    BY <1>1
<1> HIDE DEF LessAt
<1> QED
    BY <1>3, <1>4, <1>5, <1>6, <1>7 DEF Less

\* Go's order of strings is strict and total.
LEMMA LessIsStrict ==
    /\ \A a \in Characters : ~Less(a, a)
    /\ \A a, b, c \in Characters : Less(a, b) /\ Less(b, c) => Less(a, c)
    /\ \A a, b \in Characters : a # b => Less(a, b) \/ Less(b, a)
<1>1. ASSUME NEW a \in Characters, Less(a, a)
      PROVE  FALSE
  <2>1. PICK i \in 1..Len(a) : LessAt(a, a, i)
      BY <1>1, LessIs
  <2>2. a[i] \in Nat /\ Len(a) \in Nat
      BY DEF Characters
  <2> QED
      BY <2>1, <2>2 DEF LessAt
<1>2. ASSUME NEW a \in Characters, NEW b \in Characters, NEW c \in Characters,
             Less(a, b), Less(b, c)
      PROVE  Less(a, c)
  <2>1. /\ Len(a) \in Nat /\ \A i \in 1..Len(a) : a[i] \in Nat
        /\ Len(b) \in Nat /\ \A i \in 1..Len(b) : b[i] \in Nat
        /\ Len(c) \in Nat /\ \A i \in 1..Len(c) : c[i] \in Nat
      BY CharactersOf
  <2>2. PICK i \in 1..Len(b) : LessAt(a, b, i)
      BY <1>2, LessIs
  <2>3. PICK j \in 1..Len(c) : LessAt(b, c, j)
      BY <1>2, LessIs
  <2>4. CASE i < j
    <3>1. b[i] = c[i] /\ i \in 1..Len(c)
        BY <2>1, <2>3, <2>4 DEF LessAt
    <3>2. \A k \in 1..(i - 1) : a[k] = b[k] /\ b[k] = c[k]
        BY <2>1, <2>2, <2>3, <2>4 DEF LessAt
    <3>3. LessAt(a, c, i)
        BY <2>2, <3>1, <3>2 DEF LessAt
    <3> QED
        BY <3>1, <3>3, LessIs
  <2>5. CASE i = j
    <3>1. \A k \in 1..(i - 1) : a[k] = b[k] /\ b[k] = c[k]
        BY <2>1, <2>2, <2>3, <2>5 DEF LessAt
    <3>2. i <= Len(a) => a[i] < b[i] /\ b[i] < c[i] /\ a[i] \in Nat /\ b[i] \in Nat /\ c[i] \in Nat
        BY <2>1, <2>2, <2>3, <2>5 DEF LessAt
    <3>3. LessAt(a, c, i)
        BY <2>2, <2>5, <3>1, <3>2 DEF LessAt
    <3> QED
        BY <2>5, <3>3, LessIs
  <2>6. CASE j < i
    <3>1. \A k \in 1..(j - 1) : a[k] = b[k] /\ b[k] = c[k]
        BY <2>1, <2>2, <2>3, <2>6 DEF LessAt
    <3>2. a[j] = b[j] /\ b[j] < c[j] /\ j - 1 <= Len(a)
        BY <2>1, <2>2, <2>3, <2>6 DEF LessAt
    <3>3. LessAt(a, c, j)
        BY <3>1, <3>2 DEF LessAt
    <3> QED
        BY <3>3, LessIs
  <2> QED
      BY <2>1, <2>4, <2>5, <2>6
<1>3. ASSUME NEW a \in Characters, NEW b \in Characters, a # b
      PROVE  Less(a, b) \/ Less(b, a)
  <2> DEFINE D == {i \in (1..Len(a)) \cap (1..Len(b)) : a[i] # b[i]}
  <2>1. /\ Len(a) \in Nat /\ \A i \in 1..Len(a) : a[i] \in Nat
        /\ Len(b) \in Nat /\ \A i \in 1..Len(b) : b[i] \in Nat
      BY CharactersOf
  <2>2. CASE D = {}
    <3>1. \A i \in 1..Len(a) : i <= Len(b) => a[i] = b[i]
        BY <2>1, <2>2
    <3>2. Len(a) # Len(b)
        BY <1>3, <2>1, <3>1, SameTexts
    <3>3. Len(a) < Len(b) => LessAt(a, b, Len(a) + 1) /\ Len(a) + 1 \in 1..Len(b)
        BY <2>1, <3>1 DEF LessAt
    <3>4. Len(b) < Len(a) => LessAt(b, a, Len(b) + 1) /\ Len(b) + 1 \in 1..Len(a)
        BY <2>1, <3>1 DEF LessAt
    <3> QED
        BY <2>1, <3>2, <3>3, <3>4, LessIs
  <2>3. CASE D # {}
    <3>1. D \in SUBSET Nat
        BY <2>1
    <3>2. PICK i \in D : \A j \in D : i <= j
        BY <2>3, <3>1, Least
    <3>3. i \in 1..Len(a) /\ i \in 1..Len(b) /\ a[i] # b[i]
        BY <3>2
    <3>4. \A j \in 1..(i - 1) : a[j] = b[j]
        BY <2>1, <3>2, <3>3
    <3>5. a[i] < b[i] => LessAt(a, b, i)
        BY <2>1, <3>3, <3>4 DEF LessAt
    <3>6. b[i] < a[i] => LessAt(b, a, i)
        BY <2>1, <3>3, <3>4 DEF LessAt
    <3>7. a[i] < b[i] \/ b[i] < a[i]
        BY <2>1, <3>3
    <3> QED
        BY <3>3, <3>5, <3>6, <3>7, LessIs
  <2> QED
      BY <2>2, <2>3
<1> QED
    BY <1>1, <1>2, <1>3

\* The names of a map of counts, finitely many, in falling order of their counts and
\* then of themselves: writeTopN shows the first of them.
LEMMA TopOfTable ==
    ASSUME NEW counts, IsFiniteSet(DOMAIN counts), DOMAIN counts \in SUBSET Characters,
           \A n \in DOMAIN counts : counts[n] \in Nat
    PROVE  IsTop(writeTopN(counts), counts)
<1> DEFINE S == DOMAIN counts
           R == {p \in S \X S : Before(counts, p[1], p[2])}
           m == Cardinality(S)
           entries == Sorted(S, LAMBDA a, b : Before(counts, a, b))
           k == Min({TopN, m})
<1>1. \A a \in S : CountOf(a, counts) \in Nat
    BY DEF CountOf
<1>2. \A a, b \in S : <<a, b>> \in R <=> Before(counts, a, b)
    OBVIOUS
<1>3. IsStrictOrder(R, S)
  <2>1. ASSUME NEW a \in S PROVE ~Before(counts, a, a)
    <3>1. a \in Characters /\ CountOf(a, counts) \in Nat /\ ~Less(a, a)
        BY <1>1, LessIsStrict
    <3> QED
        BY <3>1 DEF Before
  <2>2. ASSUME NEW a \in S, NEW b \in S, NEW c \in S,
               Before(counts, a, b), Before(counts, b, c)
        PROVE  Before(counts, a, c)
    <3>1. /\ CountOf(a, counts) \in Nat /\ CountOf(b, counts) \in Nat
          /\ CountOf(c, counts) \in Nat
        BY <1>1
    <3>2. Less(a, b) /\ Less(b, c) => Less(a, c)
        BY LessIsStrict
    <3> QED
        BY <2>2, <3>1, <3>2 DEF Before
  <2>3. ASSUME NEW a \in S, NEW b \in S, a # b
        PROVE  Before(counts, a, b) \/ Before(counts, b, a)
    <3>1. CountOf(a, counts) \in Nat /\ CountOf(b, counts) \in Nat
        BY <1>1
    <3>2. Less(a, b) \/ Less(b, a)
        BY <2>3, LessIsStrict
    <3> QED
        BY <3>1, <3>2 DEF Before
  <2> HIDE DEF R
  <2> QED
      BY <1>2, <2>1, <2>2, <2>3 DEF IsStrictOrder
<1>4. \A x \in S : Below(R, S, x) = {y \in S : Before(counts, y, x)}
    BY <1>2 DEF Below
<1> HIDE DEF R
<1>5. entries = InOrder(R, S)
  <2>1. entries = [i \in 1..m |->
                     CHOOSE x \in S : Cardinality({y \in S : Before(counts, y, x)}) = i - 1]
      BY Zenon DEF Sorted
  <2>2. InOrder(R, S) = [i \in 1..m |->
                           CHOOSE x \in S : Cardinality(Below(R, S, x)) = i - 1]
      BY Zenon DEF InOrder
  <2>3. ASSUME NEW i \in 1..m
        PROVE  (CHOOSE x \in S : Cardinality({y \in S : Before(counts, y, x)}) = i - 1)
                  = CHOOSE x \in S : Cardinality(Below(R, S, x)) = i - 1
      BY <1>4
  <2> QED
      BY Zenon, <2>1, <2>2, <2>3
<1> HIDE DEF entries
<1>6. /\ m \in Nat /\ entries \in [1..m -> S]
      /\ \A i, j \in 1..m : i < j => <<entries[i], entries[j]>> \in R
      /\ \A x \in S : \E i \in 1..m : entries[i] = x
    BY <1>3, <1>5, OrderEnumerates
<1>7. ASSUME NEW i \in 1..m, NEW j \in 1..m, i < j
      PROVE  entries[i] # entries[j] /\ CountOf(entries[i], counts) >= CountOf(entries[j], counts)
  <2>1. entries[i] \in S /\ entries[j] \in S /\ <<entries[i], entries[j]>> \in R
      BY <1>6, <1>7
  <2>2. Before(counts, entries[i], entries[j])
      BY <1>2, <2>1
  <2>3. entries[i] # entries[j]
      BY <1>3, <2>1 DEF IsStrictOrder
  <2>4. CountOf(entries[i], counts) \in Nat /\ CountOf(entries[j], counts) \in Nat
      BY <1>1, <2>1
  <2> QED
      BY <2>2, <2>3, <2>4 DEF Before
<1>8. k \in {TopN, m} /\ k <= TopN /\ k <= m /\ k \in Nat
  <2>1. {TopN, m} \in SUBSET Nat
      BY <1>6, ReportsAssumption
  <2>2. PICK x \in {TopN, m} : \A y \in {TopN, m} : x <= y
      BY <2>1, Least
  <2>3. k \in {TopN, m} /\ \A y \in {TopN, m} : k <= y
      BY <2>2 DEF Min
  <2> QED
      BY <2>1, <2>3
<1> HIDE DEF k
<1>9. writeTopN(counts) = SubSeq(entries, 1, k)
  <2>1. writeTopN(counts) = Cut(entries)
      BY Zenon DEF writeTopN, entries
  <2>2. entries \in Seq(S) /\ Len(entries) = m
      BY <1>6
  <2> QED
      BY <2>1, <2>2 DEF Cut, k
<1> DEFINE names == writeTopN(counts)
<1>10. names \in Seq(S) /\ Len(names) = k /\ DOMAIN names = 1..k /\ \A i \in 1..k : names[i] = entries[i]
  <2>1. SubSeq(entries, 1, k) \in Seq(S) /\ Len(SubSeq(entries, 1, k)) = k
      BY <1>6, <1>8
  <2>2. names = SubSeq(entries, 1, k)
      BY <1>9
  <2> HIDE DEF names
  <2>3. \A i \in 1..k : SubSeq(entries, 1, k)[i] = entries[i]
      BY <1>6, <1>8
  <2>4. names \in Seq(S) /\ Len(names) = k /\ \A i \in 1..k : names[i] = entries[i]
      BY Zenon, <2>1, <2>2, <2>3
  <2> QED
      BY <2>4
<1> HIDE DEF names
<1>11. \A i \in 1..k : i \in 1..m /\ names[i] \in S
    BY <1>6, <1>8, <1>10
<1>12. Range(names) \subseteq S
    BY <1>10, <1>11 DEF Range
<1>13. \A i, j \in DOMAIN names : i < j =>
          names[i] # names[j] /\ CountOf(names[i], counts) >= CountOf(names[j], counts)
    BY <1>7, <1>10, <1>11
<1>14. ASSUME NEW n \in S \ Range(names), NEW i \in DOMAIN names
       PROVE  CountOf(names[i], counts) >= CountOf(n, counts)
  <2>1. PICK j \in 1..m : entries[j] = n
      BY <1>6
  <2>2. j \notin 1..k
      BY <1>10, <1>14, <2>1 DEF Range
  <2>3. i \in 1..k /\ i \in 1..m /\ i < j
      BY <1>6, <1>8, <1>10, <1>11, <1>14, <2>2
  <2> QED
      BY <1>7, <1>10, <2>1, <2>3
<1> QED
    BY <1>10, <1>12, <1>13, <1>14 DEF IsTop, k, names

\* A map that tallies lists of names is such a table.
LEMMA TallyIsTable ==
    ASSUME NEW lists, IsLists(lists), NEW counts, Tallies(counts, lists),
           \A i \in DOMAIN lists : \A j \in DOMAIN lists[i] : lists[i][j] \in Characters
    PROVE  IsTop(writeTopN(counts), counts)
<1> DEFINE at == [p \in Places(lists) |-> lists[p[1]][p[2]]]
<1>1. IsFiniteSet(Places(lists))
    BY PlacesFinite
<1>2. at \in Surjection(Places(lists), DOMAIN counts)
    BY DEF Tallies, Surjection
<1>3. IsFiniteSet(DOMAIN counts)
    BY <1>1, <1>2, FS_Surjection
<1>4. ASSUME NEW n \in DOMAIN counts PROVE n \in Characters
  <2>1. PICK p \in Places(lists) : n = lists[p[1]][p[2]]
      BY DEF Tallies
  <2> QED
      BY <2>1, PlaceIs
<1>5. \A S : Cardinality(Where(lists, S)) \in Nat
    BY PlacesFinite
<1>6. \A n \in DOMAIN counts : counts[n] \in Nat
    BY <1>5 DEF Tallies
<1> QED
    BY <1>3, <1>4, <1>6, TopOfTable

LEMMA CountedOnTop == Counted => TablesShowTheTop
<1> SUFFICES ASSUME Counted, closed PROVE TablesShowTheTop
    BY DEF TablesShowTheTop
<1>1. /\ rendered \in Seq(Trace) /\ DOMAIN rendered = 1..Len(rendered)
      /\ Len(rendered) \in Nat
      /\ \A i \in DOMAIN rendered : rendered[i] \in Trace
    BY RenderedAre DEF Counted
<1>2. /\ IsLists(ExchangeLists(rendered)) /\ IsLists(QueueLists(rendered))
      /\ IsLists(RoutingKeyLists(rendered))
    BY <1>1, ListsAre
<1>3. ASSUME NEW i \in DOMAIN rendered
      PROVE  /\ \A j \in DOMAIN ExchangesOf(rendered[i]) :
                   ExchangesOf(rendered[i])[j] \in Characters
             /\ \A j \in DOMAIN QueuesOf(rendered[i]) :
                   QueuesOf(rendered[i])[j] \in Characters
             /\ \A j \in DOMAIN RoutingKeysOf(rendered[i]) :
                   RoutingKeysOf(rendered[i])[j] \in Characters
  <2> DEFINE t == rendered[i]
  <2>1. t \in Trace
      BY <1>1
  <2> HIDE DEF t
  <2>2. /\ t.exchange \in Characters /\ t.routingKey \in Characters
        /\ \A j \in DOMAIN t.destinations : t.destinations[j].queue \in Name
      BY <2>1, TraceIs, TrimmedType DEF Name
  <2>3. ASSUME NEW j \in DOMAIN t.destinations
        PROVE  OrElse(t.destinations[j].queue, UnknownQueue) \in Characters
    <3>1. t.destinations[j].queue \in Trimmed /\ UnknownQueue \in Trimmed
        BY <2>2, NamesGiven DEF Name
    <3> QED
        BY <3>1, NamesGiven, TrimmedType
  <2>4. \A j \in DOMAIN ExchangesOf(t) : ExchangesOf(t)[j] \in Characters
      BY <2>2 DEF ExchangesOf
  <2>5. \A j \in DOMAIN QueuesOf(t) : QueuesOf(t)[j] \in Characters
      BY <2>3 DEF QueuesOf
  <2>6. \A j \in DOMAIN RoutingKeysOf(t) : RoutingKeysOf(t)[j] \in Characters
      BY <2>2 DEF RoutingKeysOf
  <2> QED
      BY <2>4, <2>5, <2>6 DEF t
<1>4. IsTop(writeTopN(summary.exchanges), summary.exchanges)
  <2>1. Tallies(summary.exchanges, ExchangeLists(rendered))
      BY DEF Counted, SummaryCounted
  <2>2. \A i \in DOMAIN ExchangeLists(rendered) : \A j \in DOMAIN ExchangeLists(rendered)[i] :
           ExchangeLists(rendered)[i][j] \in Characters
      BY <1>3 DEF ExchangeLists
  <2> QED
      BY <1>2, <2>1, <2>2, TallyIsTable
<1>5. IsTop(writeTopN(summary.queues), summary.queues)
  <2>1. Tallies(summary.queues, QueueLists(rendered))
      BY DEF Counted, SummaryCounted
  <2>2. \A i \in DOMAIN QueueLists(rendered) : \A j \in DOMAIN QueueLists(rendered)[i] :
           QueueLists(rendered)[i][j] \in Characters
      BY <1>3 DEF QueueLists
  <2> QED
      BY <1>2, <2>1, <2>2, TallyIsTable
<1>6. IsTop(writeTopN(summary.routingKeys), summary.routingKeys)
  <2>1. Tallies(summary.routingKeys, RoutingKeyLists(rendered))
      BY DEF Counted, SummaryCounted
  <2>2. \A i \in DOMAIN RoutingKeyLists(rendered) :
           \A j \in DOMAIN RoutingKeyLists(rendered)[i] :
              RoutingKeyLists(rendered)[i][j] \in Characters
      BY <1>3 DEF RoutingKeyLists
  <2> QED
      BY <1>2, <2>1, <2>2, TallyIsTable
<1>7. report = [exchanges |-> writeTopN(summary.exchanges),
                queues |-> writeTopN(summary.queues),
                routingKeys |-> writeTopN(summary.routingKeys)]
    BY DEF Counted, TablesWritten
<1> QED
    BY <1>4, <1>5, <1>6, <1>7 DEF TablesShowTheTop

\* The summary's tables show the names with the highest counts in falling order, and
\* leave none out that counts more than one it shows (summaryRenderer.writeTopN).
THEOREM Tables == Spec => []TablesShowTheTop
    BY CountedAlways, CountedOnTop, PTL

--------------------------------------------------------------------------------
(* Escaped texts *)

Escaped(c) == IF c \in {Backslash, Quote} THEN <<Backslash, c>> ELSE <<c>>

\* One more character, one more escaped one.
LEMMA EscapeMore ==
    /\ escape(<<>>) = <<>>
    /\ \A s \in Characters : \A c \in Nat :
          escape(s \o <<c>>) = escape(s) \o Escaped(c)
<1>1. escape(<<>>) = <<>>
  <2> DEFINE parts == [i \in DOMAIN <<>> |-> Escaped(<<>>[i])]
  <2>1. parts = <<>>
      OBVIOUS
  <2>2. escape(<<>>) = FlattenSeq(parts)
      BY DEF escape, Escaped
  <2> QED
      BY <2>1, <2>2, FlattenFirst
<1>2. ASSUME NEW s \in Characters, NEW c \in Nat
      PROVE  escape(s \o <<c>>) = escape(s) \o Escaped(c)
  <2> DEFINE n == Len(s)
             t == s \o <<c>>
             short == [i \in DOMAIN s |-> Escaped(s[i])]
             long == [i \in DOMAIN t |-> Escaped(t[i])]
  <2>1. /\ n \in Nat /\ DOMAIN s = 1..n /\ DOMAIN t = 1..(n + 1)
        /\ (\A i \in 1..n : t[i] = s[i]) /\ t[n + 1] = c
    <3>1. t \in Seq(Nat)
        BY JoinedWith DEF Characters
    <3>2. DOMAIN t = 1..Len(t)
        BY <3>1
    <3> QED
        BY <3>2, JoinedWith
  <2>2. escape(s) = FlattenSeq(short) /\ escape(t) = FlattenSeq(long)
      BY DEF escape, Escaped
  <2> HIDE DEF t
  <2>3. /\ Len(short) = n /\ Len(long) = n + 1 /\ long[n + 1] = Escaped(c)
        /\ \A i \in 1..n : short[i] = long[i]
      BY <2>1
  <2> HIDE DEF short, long
  <2>4. CASE s = <<>>
    <3>1. n = 0 /\ Len(long) = 1 /\ long[1] = Escaped(c)
        BY <2>3, <2>4
    <3>2. escape(t) = Escaped(c)
        BY <2>2, <3>1, FlattenFirst
    <3>3. Escaped(c) \in Seq(Nat)
      <4>1. <<Backslash, c>> \in Seq(Nat) /\ <<c>> \in Seq(Nat)
          BY DEF Backslash
      <4> QED
          BY <4>1 DEF Escaped
    <3>4. escape(s) \o Escaped(c) = Escaped(c)
        BY <1>1, <2>4, <3>3, ConcatEmptySeq
    <3> QED
        BY <3>2, <3>4 DEF t
  <2>5. CASE s # <<>>
    <3>1. n \in Nat \ {0}
        BY <2>1, <2>5 DEF Characters
    <3>2. FlattenSeq(long) = FlattenSeq(short) \o long[n + 1]
        BY <2>3, <3>1, FlattenMore
    <3> QED
        BY <2>2, <2>3, <2>5, <3>2 DEF t
  <2> QED
      BY <2>4, <2>5
<1> QED
    BY <1>1, <1>2

\* A text that is not empty ends with a character.
LEMMA LastIs ==
    ASSUME NEW s \in Characters, s # <<>>
    PROVE  \E r \in Characters : \E c \in Nat : s = r \o <<c>> /\ Len(r) = Len(s) - 1
<1> DEFINE n == Len(s)
           r == SubSeq(s, 1, n - 1)
<1>1. s \in Seq(Nat) /\ n \in Nat /\ n >= 1
    BY DEF Characters
<1>2. s[n] \in Nat
    BY <1>1
<1>3. 1 \in Nat \ {0} /\ n - 1 \in Int /\ n - 1 <= n
    BY <1>1
<1>4. r \in Characters
    BY <1>3, PartOf
<1>5. Len(r) = n - 1
  <2>1. n - 1 < 1 => r = <<>>
      BY <1>3, PartOf
  <2>2. 1 <= n - 1 => Len(r) = (n - 1) - 1 + 1
      BY <1>3, PartOf
  <2> HIDE DEF r
  <2>3. r = <<>> => Len(r) = 0
      OBVIOUS
  <2> QED
      BY <1>1, <2>1, <2>2, <2>3
<1>6. s = r \o <<s[n]>>
  <2>1. SubSeq(s, 1, n) = r \o <<s[n]>>
      BY <1>1, SubSeqRecursiveSecond
  <2>2. SubSeq(s, 1, n) = s
      BY <1>1, SubSeqFull
  <2> QED
      BY <2>1, <2>2
<1> QED
    BY <1>2, <1>4, <1>5, <1>6

\* How many backslashes come directly before place i.
Run(s, i) == Cardinality({j \in 1..(i - 1) : \A k \in j..(i - 1) : s[k] = Backslash})

LEMMA RunIs ==
    ASSUME NEW s
    PROVE  /\ Run(s, 1) = 0
           /\ \A i \in Nat \ {0} :
                 /\ Run(s, i) \in Nat
                 /\ s[i] = Backslash => Run(s, i + 1) = Run(s, i) + 1
                 /\ s[i] # Backslash => Run(s, i + 1) = 0
           /\ \A t : \A i \in Nat \ {0} :
                 (\A k \in 1..(i - 1) : s[k] = t[k]) => Run(s, i) = Run(t, i)
<1> DEFINE R(i) == {j \in 1..(i - 1) : \A k \in j..(i - 1) : s[k] = Backslash}
<1>1. \A i : Run(s, i) = Cardinality(R(i))
    BY DEF Run
<1>2. Run(s, 1) = 0
  <2>1. R(1) = {}
      OBVIOUS
  <2> QED
      BY <1>1, <2>1, FS_EmptySet
<1>3. ASSUME NEW i \in Nat \ {0}
      PROVE  /\ IsFiniteSet(R(i)) /\ Run(s, i) \in Nat /\ i \notin R(i)
             /\ s[i] = Backslash => R(i + 1) = R(i) \cup {i}
             /\ s[i] # Backslash => R(i + 1) = {}
  <2>1. R(i) \in SUBSET (1..(i - 1)) /\ IsFiniteSet(1..(i - 1))
      BY FS_Interval
  <2>2. IsFiniteSet(R(i))
      BY <2>1, FS_Subset
  <2>3. Run(s, i) \in Nat
      BY <1>1, <2>2, FS_CardinalityType
  <2>4. (i + 1) - 1 = i
      OBVIOUS
  <2>5. ASSUME NEW j \in 1..i
        PROVE  (\A k \in j..i : s[k] = Backslash) <=>
                  /\ s[i] = Backslash
                  /\ \A k \in j..(i - 1) : s[k] = Backslash
      OBVIOUS
  <2>6. R(i + 1) = {j \in 1..i : s[i] = Backslash /\ \A k \in j..(i - 1) : s[k] = Backslash}
      BY <2>4, <2>5
  <2>7. ASSUME s[i] = Backslash PROVE R(i + 1) = R(i) \cup {i}
      BY <2>6, <2>7
  <2>8. ASSUME s[i] # Backslash PROVE R(i + 1) = {}
      BY <2>6, <2>8
  <2> QED
      BY <2>1, <2>2, <2>3, <2>7, <2>8
<1>4. ASSUME NEW i \in Nat \ {0}
      PROVE  /\ s[i] = Backslash => Run(s, i + 1) = Run(s, i) + 1
             /\ s[i] # Backslash => Run(s, i + 1) = 0
  <2>1. ASSUME s[i] = Backslash PROVE Run(s, i + 1) = Run(s, i) + 1
    <3>1. IsFiniteSet(R(i)) /\ i \notin R(i) /\ R(i + 1) = R(i) \cup {i}
        BY <1>3, <2>1
    <3> HIDE DEF R
    <3>2. Cardinality(R(i) \cup {i}) = Cardinality(R(i)) + 1
        BY <3>1, FS_AddElement
    <3> QED
        BY <1>1, <3>1, <3>2
  <2>2. ASSUME s[i] # Backslash PROVE Run(s, i + 1) = 0
    <3>1. R(i + 1) = {}
        BY <1>3, <2>2
    <3> HIDE DEF R
    <3> QED
        BY <1>1, <3>1, FS_EmptySet
  <2> QED
      BY <2>1, <2>2
<1>5. ASSUME NEW t, NEW i \in Nat \ {0}, \A k \in 1..(i - 1) : s[k] = t[k]
      PROVE  Run(s, i) = Run(t, i)
  <2>1. \A j \in 1..(i - 1) : (\A k \in j..(i - 1) : s[k] = Backslash) <=>
                              (\A k \in j..(i - 1) : t[k] = Backslash)
      BY <1>5
  <2>2. R(i) = {j \in 1..(i - 1) : \A k \in j..(i - 1) : t[k] = Backslash}
      BY <2>1
  <2> QED
      BY <2>2 DEF Run
<1> QED
    BY <1>2, <1>3, <1>4, <1>5

LEMMA QuotableIs ==
    ASSUME NEW s \in Characters
    PROVE  IsQuotable(s) <=> /\ \A i \in 1..Len(s) : s[i] = Quote => Run(s, i) % 2 = 1
                             /\ Run(s, Len(s) + 1) % 2 = 0
<1>1. DOMAIN s = 1..Len(s)
    BY DEF Characters
<1> QED
    BY <1>1 DEF IsQuotable, Run

\* A text that can be quoted still can when an escaped character is put behind it.
LEMMA QuotableMore ==
    ASSUME NEW s \in Characters, IsQuotable(s), NEW c \in Nat
    PROVE  /\ s \o Escaped(c) \in Characters /\ IsQuotable(s \o Escaped(c))
           /\ Escaped(c) \in Characters
<1> DEFINE n == Len(s)
           t == s \o Escaped(c)
<1>1. n \in Nat /\ Backslash # Quote /\ Backslash \in Nat
    BY DEF Characters, Backslash, Quote
<1>2. Escaped(c) \in Characters
  <2>1. <<Backslash, c>> \in Seq(Nat) /\ <<c>> \in Seq(Nat)
      BY <1>1
  <2> QED
      BY <2>1 DEF Escaped, Characters
<1>3. /\ \A i \in 1..n : s[i] = Quote => Run(s, i) % 2 = 1
      /\ Run(s, n + 1) % 2 = 0 /\ Run(s, n + 1) \in Nat
    BY <1>1, QuotableIs, RunIs
<1>4. t \in Characters /\ \A i \in 1..n : t[i] = s[i]
    BY <1>2, Joined
<1> HIDE DEF t
<1>5. \A i \in 1..(n + 1) : Run(t, i) = Run(s, i)
  <2>1. ASSUME NEW i \in 1..(n + 1) PROVE Run(t, i) = Run(s, i)
    <3>1. i \in Nat \ {0} /\ \A k \in 1..(i - 1) : t[k] = s[k]
        BY <1>1, <1>4
    <3> QED
        BY <3>1, RunIs
  <2> QED
      BY <2>1
<1>6. /\ \A i \in 1..n : t[i] = Quote => Run(t, i) % 2 = 1
      /\ Run(t, n + 1) % 2 = 0 /\ Run(t, n + 1) \in Nat
    BY <1>1, <1>3, <1>4, <1>5
<1>7. ASSUME c \notin {Backslash, Quote} PROVE IsQuotable(t)
  <2>1. t = s \o <<c>>
      BY <1>7 DEF t, Escaped
  <2>2. Len(t) = n + 1 /\ t[n + 1] = c
      BY <2>1, JoinedWith
  <2>3. n + 1 \in Nat \ {0} /\ t[n + 1] # Backslash /\ t[n + 1] # Quote
      BY <1>1, <1>7, <2>2
  <2>4. Run(t, (n + 1) + 1) = 0
      BY <2>3, RunIs
  <2>5. \A i \in 1..Len(t) : t[i] = Quote => Run(t, i) % 2 = 1
      BY <1>1, <1>6, <2>2, <2>3
  <2>6. Run(t, Len(t) + 1) % 2 = 0
      BY <2>2, <2>4
  <2> QED
      BY <1>4, <2>5, <2>6, QuotableIs
<1>8. ASSUME c \in {Backslash, Quote} PROVE IsQuotable(t)
  <2>1. t = s \o <<Backslash, c>>
      BY <1>8 DEF t, Escaped
  <2>2. Len(t) = n + 2 /\ t[n + 1] = Backslash /\ t[n + 2] = c
    <3>1. <<Backslash, c>> \in Characters /\ Len(<<Backslash, c>>) = 2
      <4>1. <<Backslash, c>> \in Seq(Nat) /\ Len(<<Backslash, c>>) = 2
          BY <1>1
      <4> QED
          BY <4>1 DEF Characters
    <3> DEFINE u == <<Backslash, c>>
    <3>2. u[1] = Backslash /\ u[2] = c
        OBVIOUS
    <3> HIDE DEF u
    <3>3. /\ Len(s \o u) = n + Len(u)
          /\ \A i \in 1..Len(u) : (s \o u)[n + i] = u[i]
        BY <3>1, Joined DEF u
    <3>4. Len(u) = 2 /\ 1 \in 1..Len(u) /\ 2 \in 1..Len(u) /\ t = s \o u
        BY <2>1, <3>1 DEF u
    <3> QED
        BY <3>2, <3>3, <3>4
  <2>3. n + 1 \in Nat \ {0} /\ n + 2 \in Nat \ {0} /\ (n + 1) + 1 = n + 2 /\ (n + 2) + 1 = n + 3
      BY <1>1
  <2>4. Run(t, n + 2) = Run(t, n + 1) + 1
      BY <2>2, <2>3, RunIs
  <2>5. Run(t, n + 2) % 2 = 1
      BY <1>6, <2>4
  <2>6. Run(t, n + 3) % 2 = 0
    <3>1. CASE c = Backslash
      <4>1. Run(t, n + 3) = Run(t, n + 2) + 1
          BY <2>2, <2>3, <3>1, RunIs
      <4> QED
          BY <1>6, <2>4, <4>1
    <3>2. CASE c # Backslash
      <4>1. Run(t, n + 3) = 0
          BY <2>2, <2>3, <3>2, RunIs
      <4> QED
          BY <4>1
    <3> QED
        BY <3>1, <3>2
  <2>7. \A i \in 1..Len(t) : t[i] = Quote => Run(t, i) % 2 = 1
    <3>1. \A i \in 1..(n + 2) : i \in 1..n \/ i = n + 1 \/ i = n + 2
        BY <1>1
    <3> QED
        BY <1>1, <1>6, <2>2, <2>5, <3>1
  <2>8. Run(t, Len(t) + 1) % 2 = 0
      BY <2>2, <2>3, <2>6
  <2> QED
      BY <1>4, <2>7, <2>8, QuotableIs
<1>9. t \in Characters /\ IsQuotable(t)
    BY <1>4, <1>7, <1>8
<1> QED
    BY <1>2, <1>9 DEF t

\* An escaped text can be quoted, is empty only if the text is, and begins as it does,
\* unless that is with a character that is escaped: a shortest text for which this
\* fails is not empty, and it holds for what comes before its last character.
EscapesWell(s) ==
    /\ escape(s) \in Characters /\ IsQuotable(escape(s))
    /\ s # <<>> => escape(s) # <<>>
    /\ s # <<>> /\ s[1] \notin {Backslash, Quote} => escape(s)[1] = s[1]

LEMMA EscapeIs == \A s \in Characters : EscapesWell(s)
<1> DEFINE T == {n \in Nat : \E s \in Characters : Len(s) = n /\ ~EscapesWell(s)}
<1>1. ASSUME T # {} PROVE FALSE
  <2>1. PICK n \in T : \A m \in T : n <= m
      BY <1>1, Least
  <2>2. PICK s \in Characters : Len(s) = n /\ ~EscapesWell(s)
      BY <2>1
  <2>3. CASE s = <<>>
    <3>1. escape(s) = <<>>
        BY <2>3, EscapeMore
    <3>2. <<>> \in Characters /\ Len(<<>>) = 0
        BY DEF Characters
    <3>3. IsQuotable(<<>>)
      <4>1. Run(<<>>, 1) = 0
          BY RunIs
      <4>2. Run(<<>>, Len(<<>>) + 1) % 2 = 0
          BY <3>2, <4>1
      <4>3. \A i \in 1..Len(<<>>) : FALSE
          BY <3>2
      <4> QED
          BY <3>2, <4>2, <4>3, QuotableIs
    <3> QED
        BY <2>2, <2>3, <3>1, <3>2, <3>3 DEF EscapesWell
  <2>4. CASE s # <<>>
    <3>1. PICK r \in Characters : \E c \in Nat : s = r \o <<c>> /\ Len(r) = Len(s) - 1
        BY <2>4, LastIs
    <3>2. PICK c \in Nat : s = r \o <<c>> /\ Len(r) = Len(s) - 1
        BY <3>1
    <3>3. EscapesWell(r)
      <4>1. Len(r) \in Nat /\ ~(n <= Len(r))
          BY <2>2, <3>2 DEF Characters
      <4> QED
          BY <2>1, <4>1
    <3> DEFINE e == escape(r)
               p == Escaped(c)
    <3>4. /\ e \in Characters /\ p \in Characters /\ escape(s) = e \o p
          /\ e \o p \in Characters /\ IsQuotable(e \o p)
      <4>1. e \in Characters /\ IsQuotable(e)
          BY <3>3 DEF EscapesWell
      <4> QED
          BY <3>2, <4>1, EscapeMore, QuotableMore
    <3>5. p # <<>> /\ Len(p) \in Nat /\ Len(p) >= 1
          /\ (c \notin {Backslash, Quote} => p[1] = c)
        BY DEF Escaped
    <3> HIDE DEF e, p
    <3>6. /\ Len(e) \in Nat /\ Len(e \o p) = Len(e) + Len(p)
          /\ \A i \in 1..Len(e) : (e \o p)[i] = e[i]
          /\ \A i \in 1..Len(p) : (e \o p)[Len(e) + i] = p[i]
        BY <3>4, Joined
    <3>7. e \o p # <<>>
        BY <3>5, <3>6
    <3>8. ASSUME s[1] \notin {Backslash, Quote} PROVE (e \o p)[1] = s[1]
      <4>1. CASE r = <<>>
        <5>1. e = <<>> /\ Len(e) = 0
            BY <4>1, EscapeMore DEF e
        <5>2. s[1] = c
          <6>1. Len(r) = 0 /\ s[Len(r) + 1] = c
              BY <3>2, <4>1, JoinedWith
          <6> QED
              BY <6>1
        <5>3. 1 \in 1..Len(p) /\ Len(e) + 1 = 1
            BY <3>5, <5>1
        <5> QED
            BY <3>5, <3>6, <3>8, <5>2, <5>3
      <4>2. CASE r # <<>>
        <5>1. Len(r) \in Nat /\ 1 \in 1..Len(r)
            BY <4>2 DEF Characters
        <5>2. s[1] = r[1]
            BY <3>2, <5>1, JoinedWith
        <5>3. e # <<>> /\ e[1] = r[1]
            BY <3>3, <3>8, <4>2, <5>2 DEF EscapesWell, e
        <5>4. 1 \in 1..Len(e)
            BY <3>4, <3>6, <5>3 DEF Characters
        <5> QED
            BY <3>6, <5>2, <5>3, <5>4
      <4> QED
          BY <4>1, <4>2
    <3> QED
        BY <2>2, <3>4, <3>7, <3>8 DEF EscapesWell
  <2> QED
      BY <2>3, <2>4
<1>2. ASSUME NEW s \in Characters PROVE EscapesWell(s)
  <2>1. Len(s) \in Nat
      BY DEF Characters
  <2>2. Len(s) \notin T
      BY <1>1
  <2> HIDE DEF EscapesWell
  <2> QED
      BY <2>1, <2>2
<1> QED
    BY <1>2

\* Texts that are not the same are not when they are escaped.
LEMMA EscapeIsInjective ==
    \A a, b \in Characters : escape(a) = escape(b) => a = b
<1> DEFINE T == {n \in Nat : \E a, b \in Characters :
                     Len(a) = n /\ escape(a) = escape(b) /\ a # b}
<1>1. ASSUME T # {} PROVE FALSE
  <2>1. PICK n \in T : \A m \in T : n <= m
      BY <1>1, Least
  <2>2. PICK a \in Characters, b \in Characters :
           Len(a) = n /\ escape(a) = escape(b) /\ a # b
      BY <2>1
  <2>3. a # <<>> /\ b # <<>>
    <3>1. escape(<<>>) = <<>>
        BY EscapeMore
    <3>2. /\ a # <<>> => escape(a) # <<>>
          /\ b # <<>> => escape(b) # <<>>
        BY EscapeIs DEF EscapesWell
    <3> QED
        BY <2>2, <3>1, <3>2
  <2>4. PICK r \in Characters : \E c \in Nat : a = r \o <<c>> /\ Len(r) = Len(a) - 1
      BY <2>3, LastIs
  <2>5. PICK c \in Nat : a = r \o <<c>> /\ Len(r) = Len(a) - 1
      BY <2>4
  <2>6. PICK q \in Characters : \E d \in Nat : b = q \o <<d>> /\ Len(q) = Len(b) - 1
      BY <2>3, LastIs
  <2>7. PICK d \in Nat : b = q \o <<d>> /\ Len(q) = Len(b) - 1
      BY <2>6
  <2> DEFINE e == escape(r)
             f == escape(q)
             x == Escaped(c)
             y == Escaped(d)
  <2>8. e \in Characters /\ f \in Characters /\ e \o x = f \o y
    <3>1. e \in Characters /\ f \in Characters
        BY EscapeIs DEF EscapesWell
    <3>2. escape(r \o <<c>>) = e \o x /\ escape(q \o <<d>>) = f \o y
        BY EscapeMore
    <3> QED
        BY <2>2, <2>5, <2>7, <3>1, <3>2
  <2>9. /\ x \in Seq(Nat) /\ Len(x) \in {1, 2} /\ x[Len(x)] = c
        /\ y \in Seq(Nat) /\ Len(y) \in {1, 2} /\ y[Len(y)] = d
    <3>1. ASSUME NEW z \in Nat
          PROVE  /\ Escaped(z) \in Seq(Nat) /\ Len(Escaped(z)) \in {1, 2}
                 /\ Escaped(z)[Len(Escaped(z))] = z
      <4>1. CASE z \in {Backslash, Quote}
        <5>1. Escaped(z) = <<Backslash, z>> /\ Backslash \in Nat
            BY <4>1 DEF Escaped, Backslash
        <5> QED
            BY <5>1
      <4>2. CASE z \notin {Backslash, Quote}
        <5>1. Escaped(z) = <<z>>
            BY <4>2 DEF Escaped
        <5> QED
            BY <5>1
      <4> QED
          BY <4>1, <4>2
    <3> QED
        BY <3>1
  <2> HIDE DEF e, f, x, y
  <2>10. /\ Len(e) \in Nat /\ Len(f) \in Nat
         /\ Len(e) + Len(x) = Len(f) + Len(y)
         /\ (e \o x)[Len(e) + Len(x)] = c /\ (f \o y)[Len(f) + Len(y)] = d
    <3>1. /\ e \in Seq(Nat) /\ f \in Seq(Nat)
        BY <2>8 DEF Characters
    <3>2. /\ Len(e) \in Nat /\ Len(e \o x) = Len(e) + Len(x)
          /\ \A i \in 1..Len(x) : (e \o x)[Len(e) + i] = x[i]
        BY <2>9, <3>1
    <3>3. /\ Len(f) \in Nat /\ Len(f \o y) = Len(f) + Len(y)
          /\ \A i \in 1..Len(y) : (f \o y)[Len(f) + i] = y[i]
        BY <2>9, <3>1
    <3>4. Len(x) \in 1..Len(x) /\ Len(y) \in 1..Len(y)
      <4>1. \A k \in {1, 2} : k \in 1..k
          OBVIOUS
      <4> QED
          BY <2>9, <4>1
    <3> QED
        BY <2>8, <2>9, <3>2, <3>3, <3>4
  <2>11. c = d
      BY <2>8, <2>10
  <2>12. x = y
      BY <2>11 DEF x, y
  <2>13. e = f
    <3>1. Len(e) = Len(f)
        BY <2>9, <2>10, <2>12
    <3>2. ASSUME NEW i \in 1..Len(e) PROVE e[i] = f[i]
      <4>1. x \in Characters /\ e \in Characters /\ f \in Characters
          BY <2>8, <2>9 DEF Characters
      <4>2. (e \o x)[i] = e[i]
          BY <4>1, Joined
      <4>3. (f \o x)[i] = f[i]
          BY <3>1, <4>1, Joined
      <4> QED
          BY <2>8, <2>12, <4>2, <4>3
    <3> QED
        BY <2>8, <3>1, <3>2, SameTexts
  <2>14. r # q
      BY <2>2, <2>5, <2>7, <2>11
  <2>15. Len(r) \in Nat /\ ~(n <= Len(r))
    <3>1. Len(r) \in Nat /\ Len(a) \in Nat
        BY DEF Characters
    <3>2. n = Len(a) /\ Len(r) = Len(a) - 1
        BY <2>2, <2>5, Zenon
    <3> QED
        BY <3>1, <3>2
  <2>16. escape(r) = escape(q)
      BY <2>13 DEF e, f
  <2>17. Len(r) \in T
      BY <2>14, <2>15, <2>16
  <2> QED
      BY <2>1, <2>15, <2>17
<1>2. ASSUME NEW a \in Characters, NEW b \in Characters, escape(a) = escape(b) PROVE a = b
  <2>1. Len(a) \in Nat
      BY DEF Characters
  <2>2. Len(a) \notin T
      BY <1>1
  <2> QED
      BY <1>2, <2>1, <2>2
<1> QED
    BY <1>2

--------------------------------------------------------------------------------
(* The lists of nodes and edges *)

\* The names of nodes in their order.
LEMMA NamesListed ==
    ASSUME NEW S \in SUBSET Characters, IsFiniteSet(S)
    PROVE  /\ Cardinality(S) \in Nat
           /\ mapKeys(S) \in [1..Cardinality(S) -> S]
           /\ \A x \in S : \E k \in 1..Cardinality(S) : mapKeys(S)[k] = x
<1> DEFINE R == {p \in S \X S : Less(p[1], p[2])}
<1>1. \A x, y \in S : <<x, y>> \in R <=> Less(x, y)
    OBVIOUS
<1>2. IsStrictOrder(R, S)
  <2>1. \A x \in S : <<x, x>> \notin R
      BY <1>1, LessIsStrict
  <2>2. \A x, y, z \in S : <<x, y>> \in R /\ <<y, z>> \in R => <<x, z>> \in R
    <3>1. \A x, y, z \in S : Less(x, y) /\ Less(y, z) => Less(x, z)
        BY LessIsStrict
    <3> HIDE DEF R
    <3> QED
        BY <1>1, <3>1
  <2>3. \A x, y \in S : x # y => <<x, y>> \in R \/ <<y, x>> \in R
    <3>1. \A x, y \in S : x # y => Less(x, y) \/ Less(y, x)
        BY LessIsStrict
    <3> HIDE DEF R
    <3> QED
        BY <1>1, <3>1
  <2> QED
      BY <2>1, <2>2, <2>3 DEF IsStrictOrder
<1>3. \A x \in S : Below(R, S, x) = {y \in S : Less(y, x)}
    BY <1>1 DEF Below
<1> HIDE DEF R
<1>4. mapKeys(S) = InOrder(R, S)
  <2>1. mapKeys(S) = [k \in 1..Cardinality(S) |->
                        CHOOSE x \in S : Cardinality({y \in S : Less(y, x)}) = k - 1]
      BY Zenon DEF mapKeys, Sorted
  <2>2. InOrder(R, S) = [k \in 1..Cardinality(S) |->
                          CHOOSE x \in S : Cardinality(Below(R, S, x)) = k - 1]
      BY Zenon DEF InOrder
  <2>3. ASSUME NEW k \in 1..Cardinality(S)
        PROVE  (CHOOSE x \in S : Cardinality({y \in S : Less(y, x)}) = k - 1)
                  = CHOOSE x \in S : Cardinality(Below(R, S, x)) = k - 1
      BY <1>3
  <2> QED
      BY Zenon, <2>1, <2>2, <2>3
<1>5. /\ Cardinality(S) \in Nat
      /\ InOrder(R, S) \in [1..Cardinality(S) -> S]
      /\ \A x \in S : \E k \in 1..Cardinality(S) : InOrder(R, S)[k] = x
    BY <1>2, OrderEnumerates
<1> QED
    BY <1>4, <1>5

EdgeType == [from : Characters, to : Characters, label : Characters]

EdgeBefore(e, f) ==
    \/ Less(e.from, f.from)
    \/ e.from = f.from /\ Less(e.to, f.to)
    \/ e.from = f.from /\ e.to = f.to /\ Less(e.label, f.label)

\* The order in which Edges sorts is strict and total.
LEMMA EdgesInOrder ==
    /\ \A e \in EdgeType : ~EdgeBefore(e, e)
    /\ \A e, f, g \in EdgeType : EdgeBefore(e, f) /\ EdgeBefore(f, g) => EdgeBefore(e, g)
    /\ \A e, f \in EdgeType : e # f => EdgeBefore(e, f) \/ EdgeBefore(f, e)
<1>1. ASSUME NEW e \in EdgeType
      PROVE  /\ e.from \in Characters /\ e.to \in Characters /\ e.label \in Characters
             /\ e = [from |-> e.from, to |-> e.to, label |-> e.label]
    BY DEF EdgeType
<1>2. ASSUME NEW e \in EdgeType PROVE ~EdgeBefore(e, e)
  <2>1. ~Less(e.from, e.from) /\ ~Less(e.to, e.to) /\ ~Less(e.label, e.label)
      BY <1>1, LessIsStrict
  <2> QED
      BY <2>1 DEF EdgeBefore
<1>3. ASSUME NEW e \in EdgeType, NEW f \in EdgeType, NEW g \in EdgeType,
             EdgeBefore(e, f), EdgeBefore(f, g)
      PROVE  EdgeBefore(e, g)
  <2>1. /\ Less(e.from, f.from) /\ Less(f.from, g.from) => Less(e.from, g.from)
        /\ Less(e.to, f.to) /\ Less(f.to, g.to) => Less(e.to, g.to)
        /\ Less(e.label, f.label) /\ Less(f.label, g.label) => Less(e.label, g.label)
    <3>1. /\ e.from \in Characters /\ e.to \in Characters /\ e.label \in Characters
          /\ f.from \in Characters /\ f.to \in Characters /\ f.label \in Characters
          /\ g.from \in Characters /\ g.to \in Characters /\ g.label \in Characters
        BY <1>1
    <3> QED
        BY Zenon, <3>1, LessIsStrict
  <2> QED
      BY Zenon, <1>3, <2>1 DEF EdgeBefore
<1>4. ASSUME NEW e \in EdgeType, NEW f \in EdgeType, e # f
      PROVE  EdgeBefore(e, f) \/ EdgeBefore(f, e)
  <2>1. e.from # f.from \/ e.to # f.to \/ e.label # f.label
      BY <1>1, <1>4
  <2>2. /\ e.from # f.from => Less(e.from, f.from) \/ Less(f.from, e.from)
        /\ e.to # f.to => Less(e.to, f.to) \/ Less(f.to, e.to)
        /\ e.label # f.label => Less(e.label, f.label) \/ Less(f.label, e.label)
    <3>1. /\ e.from \in Characters /\ e.to \in Characters /\ e.label \in Characters
          /\ f.from \in Characters /\ f.to \in Characters /\ f.label \in Characters
        BY <1>1
    <3> QED
        BY Zenon, <3>1, LessIsStrict
  <2> QED
      BY <2>1, <2>2 DEF EdgeBefore
<1> QED
    BY <1>2, <1>3, <1>4

\* The edges of a graph in their order, each once.
LEMMA EdgesListed ==
    ASSUME NEW g, IsFiniteSet(DOMAIN g.edges), DOMAIN g.edges \in SUBSET EdgeType
    PROVE  Edges(g) \in Bijection(1..Cardinality(DOMAIN g.edges), DOMAIN g.edges)
<1> DEFINE S == DOMAIN g.edges
           R == {p \in S \X S : EdgeBefore(p[1], p[2])}
           n == Cardinality(S)
<1>1. \A x, y \in S : <<x, y>> \in R <=> EdgeBefore(x, y)
    OBVIOUS
<1>2. S \in SUBSET EdgeType /\ IsFiniteSet(S)
    OBVIOUS
<1>3. Edges(g) = [k \in 1..n |->
                    CHOOSE x \in S : Cardinality({y \in S : EdgeBefore(y, x)}) = k - 1]
    BY Zenon DEF Edges, Sorted, EdgeBefore
<1> HIDE DEF S, R
<1>4. IsStrictOrder(R, S)
  <2>1. \A x \in S : ~EdgeBefore(x, x)
      BY <1>2, EdgesInOrder
  <2>2. \A x, y, z \in S : EdgeBefore(x, y) /\ EdgeBefore(y, z) => EdgeBefore(x, z)
      BY <1>2, EdgesInOrder
  <2>3. \A x, y \in S : x # y => EdgeBefore(x, y) \/ EdgeBefore(y, x)
      BY <1>2, EdgesInOrder
  <2> QED
      BY <1>1, <2>1, <2>2, <2>3 DEF IsStrictOrder
<1>5. \A x \in S : Below(R, S, x) = {y \in S : EdgeBefore(y, x)}
    BY <1>1 DEF Below
<1>6. Edges(g) = InOrder(R, S)
  <2>1. InOrder(R, S) = [k \in 1..n |->
                          CHOOSE x \in S : Cardinality(Below(R, S, x)) = k - 1]
      BY Zenon DEF InOrder
  <2>2. ASSUME NEW k \in 1..n
        PROVE  (CHOOSE x \in S : Cardinality({y \in S : EdgeBefore(y, x)}) = k - 1)
                  = CHOOSE x \in S : Cardinality(Below(R, S, x)) = k - 1
      BY <1>5
  <2> QED
      BY Zenon, <1>3, <2>1, <2>2
<1>7. /\ n \in Nat
      /\ InOrder(R, S) \in [1..n -> S]
      /\ \A k, l \in 1..n : k < l => <<InOrder(R, S)[k], InOrder(R, S)[l]>> \in R
      /\ \A x \in S : \E k \in 1..n : InOrder(R, S)[k] = x
    BY <1>2, <1>4, OrderEnumerates
<1>8. ASSUME NEW k \in 1..n, NEW l \in 1..n, Edges(g)[k] = Edges(g)[l]
      PROVE  k = l
  <2>1. Edges(g)[k] \in S
      BY <1>6, <1>7
  <2>2. <<Edges(g)[k], Edges(g)[k]>> \notin R
      BY Zenon, <1>4, <2>1 DEF IsStrictOrder
  <2>3. ~(k < l) /\ ~(l < k)
      BY <1>6, <1>7, <1>8, <2>2
  <2> QED
      BY <1>7, <2>3
<1>9. Edges(g) \in Injection(1..n, S)
    BY <1>6, <1>7, <1>8 DEF Injection, IsInjective
<1>10. Edges(g) \in Surjection(1..n, S)
    BY <1>6, <1>7 DEF Surjection
<1> QED
    BY <1>9, <1>10 DEF Bijection, S

\* Counts that are the same, under other names, add up to the same.
LEMMA SameTotal ==
    ASSUME NEW c, NEW d, IsFiniteSet(DOMAIN d), \A e \in DOMAIN d : d[e] \in Nat,
           NEW f \in Bijection(DOMAIN c, DOMAIN d), \A i \in DOMAIN c : c[i] = d[f[i]]
    PROVE  All(c) = All(d)
<1> DEFINE A == UNION {{i} \X (1..c[i]) : i \in DOMAIN c}
           B == UNION {{e} \X (1..d[e]) : e \in DOMAIN d}
           h == [p \in A |-> <<f[p[1]], p[2]>>]
<1>1. All(c) = Cardinality(A) /\ All(d) = Cardinality(B)
    BY DEF All, Total
<1>2. IsFiniteSet(B)
  <2> DEFINE rows == {{e} \X (1..d[e]) : e \in DOMAIN d}
             row == [e \in DOMAIN d |-> {e} \X (1..d[e])]
  <2>1. row \in Surjection(DOMAIN d, rows)
      BY DEF Surjection
  <2>2. IsFiniteSet(rows)
      BY <2>1, FS_Surjection
  <2>3. ASSUME NEW r \in rows PROVE IsFiniteSet(r)
    <3>1. PICK e \in DOMAIN d : r = {e} \X (1..d[e])
        OBVIOUS
    <3>2. IsFiniteSet({e})
        BY FS_Singleton
    <3>3. d[e] \in Int
        OBVIOUS
    <3>4. IsFiniteSet(1..d[e])
        BY <3>3, FS_Interval
    <3> QED
        BY <3>1, <3>2, <3>4, FS_Product
  <2> HIDE DEF rows
  <2>4. IsFiniteSet(UNION rows)
      BY <2>2, <2>3, FS_UNION
  <2> QED
      BY <2>4 DEF rows
<1>3. /\ f \in [DOMAIN c -> DOMAIN d]
      /\ \A i, j \in DOMAIN c : f[i] = f[j] => i = j
      /\ \A e \in DOMAIN d : \E i \in DOMAIN c : f[i] = e
    BY Fun_BijectionProperties
<1>4. \A p : p \in A <=> p = <<p[1], p[2]>> /\ p[1] \in DOMAIN c /\ p[2] \in 1..c[p[1]]
    OBVIOUS
<1>5. \A p : p \in B <=> p = <<p[1], p[2]>> /\ p[1] \in DOMAIN d /\ p[2] \in 1..d[p[1]]
    OBVIOUS
<1>6. ASSUME NEW p \in A PROVE h[p] \in B /\ h[p] = <<f[p[1]], p[2]>>
    BY <1>3, <1>4, <1>5
<1> HIDE DEF A, B
<1>7. h \in [A -> B]
    BY <1>6
<1>8. ASSUME NEW p \in A, NEW q \in A, h[p] = h[q] PROVE p = q
  <2>1. f[p[1]] = f[q[1]] /\ p[2] = q[2]
      BY <1>6, <1>8
  <2>2. p[1] = q[1]
      BY <1>3, <1>4, <2>1
  <2> QED
      BY <1>4, <2>1, <2>2
<1>9. ASSUME NEW r \in B PROVE \E p \in A : h[p] = r
  <2>1. r = <<r[1], r[2]>> /\ r[1] \in DOMAIN d /\ r[2] \in 1..d[r[1]]
      BY <1>5
  <2>2. PICK i \in DOMAIN c : f[i] = r[1]
      BY <1>3, <2>1
  <2>3. <<i, r[2]>> \in A
      BY <1>4, <2>1, <2>2
  <2>4. h[<<i, r[2]>>] = <<f[i], r[2]>>
      BY <2>3
  <2> QED
      BY <2>1, <2>2, <2>3, <2>4
<1> HIDE DEF h
<1>10. h \in Bijection(A, B)
    BY <1>7, <1>8, <1>9 DEF Bijection, Injection, Surjection, IsInjective
<1>11. ExistsBijection(B, A)
  <2>1. ExistsBijection(A, B)
      BY <1>10 DEF ExistsBijection
  <2> QED
      BY <2>1, Fun_ExistsBijSymmetric
<1>12. Cardinality(A) = Cardinality(B)
    BY <1>2, <1>11, FS_Bijection
<1> QED
    BY <1>1, <1>12

\* The elements of two lists, one behind the other.
LEMMA ShownTogether ==
    ASSUME NEW m \in Nat, NEW n \in Nat, NEW s, NEW t, s = [i \in DOMAIN s |-> s[i]],
           t = [i \in DOMAIN t |-> t[i]], DOMAIN s = 1..m, DOMAIN t = 1..n
    PROVE  Range(s \o t) = Range(s) \cup Range(t)
<1> DEFINE V == Range(s) \cup Range(t)
<1>1. \A i \in 1..m : s[i] \in V
    BY DEF Range
<1>2. \A i \in 1..n : t[i] \in V
    BY DEF Range
<1> HIDE DEF V
<1>3. s \in Seq(V) /\ Len(s) = m /\ t \in Seq(V) /\ Len(t) = n
    BY <1>1, <1>2, SeqIs
<1>4. /\ DOMAIN (s \o t) = 1..(m + n)
      /\ \A i \in 1..m : (s \o t)[i] = s[i]
      /\ \A i \in 1..n : (s \o t)[m + i] = t[i]
    BY <1>3
<1>5. \A i \in 1..(m + n) : i \in 1..m \/ (i - m \in 1..n /\ m + (i - m) = i)
    OBVIOUS
<1>6. \A i \in 1..n : m + i \in 1..(m + n)
    OBVIOUS
<1>7. \A i \in 1..m : i \in 1..(m + n)
    OBVIOUS
<1> DEFINE u == s \o t
<1> HIDE DEF u
<1>8. ASSUME NEW x \in Range(u) PROVE x \in V
  <2>1. PICK i \in 1..(m + n) : u[i] = x
      BY <1>4 DEF Range, u
  <2>2. CASE i \in 1..m
      BY <1>1, <1>4, <2>1, <2>2 DEF u
  <2>3. CASE i - m \in 1..n /\ m + (i - m) = i
    <3>1. u[m + (i - m)] = t[i - m]
        BY <1>4, <2>3 DEF u
    <3> QED
        BY <1>2, <2>1, <2>3, <3>1
  <2> QED
      BY <1>5, <2>2, <2>3
<1>9. ASSUME NEW x \in V PROVE x \in Range(u)
  <2>1. CASE x \in Range(s)
    <3>1. PICK i \in 1..m : s[i] = x
        BY <2>1 DEF Range
    <3>2. u[i] = x /\ i \in DOMAIN u
        BY <1>4, <1>7, <3>1 DEF u
    <3> QED
        BY <3>2 DEF Range
  <2>2. CASE x \in Range(t)
    <3>1. PICK i \in 1..n : t[i] = x
        BY <2>2 DEF Range
    <3>2. u[m + i] = x /\ m + i \in DOMAIN u
        BY <1>4, <1>6, <3>1 DEF u
    <3> QED
        BY <3>2 DEF Range
  <2> QED
      BY <2>1, <2>2 DEF V
<1> QED
    BY <1>8, <1>9 DEF u, V

DrawnAs(drawn, g, x, q, l) ==
    /\ Range(drawn.nodes) = {[id |-> x[n], label |-> l[n]] : n \in g.exchanges}
                            \cup {[id |-> q[n], label |-> l[n]] : n \in g.queues}
    /\ Range(drawn.edges) = {[from |-> x[e.from], to |-> q[e.to], label |-> l[e.label],
                              count |-> g.edges[e]] : e \in DOMAIN g.edges}
    /\ All([i \in DOMAIN drawn.edges |-> drawn.edges[i].count]) = All(g.edges)

\* A drawing shows the nodes and the edges of the graph, each with its count.
LEMMA DrawnIs ==
    ASSUME NEW g, IsFiniteSet(DOMAIN g.edges), DOMAIN g.edges \in SUBSET EdgeType,
           \A e \in DOMAIN g.edges : g.edges[e] \in Nat,
           g.exchanges \in SUBSET Characters, IsFiniteSet(g.exchanges),
           g.queues \in SUBSET Characters, IsFiniteSet(g.queues),
           NEW x, NEW q, NEW l
    PROVE  DrawnAs(Drawing(g, x, q, l), g, x, q, l)
<1> DEFINE drawn == Drawing(g, x, q, l)
           X == g.exchanges
           Q == g.queues
           S == DOMAIN g.edges
           m == Cardinality(X)
           n == Cardinality(Q)
           k == Cardinality(S)
           listX == mapKeys(X)
           listQ == mapKeys(Q)
           arrow == [e \in S |-> [from |-> x[e.from], to |-> q[e.to], label |-> l[e.label],
                                  count |-> g.edges[e]]]
           nodeX == [a \in X |-> [id |-> x[a], label |-> l[a]]]
           nodeQ == [a \in Q |-> [id |-> q[a], label |-> l[a]]]
<1>1. /\ m \in Nat /\ listX \in [1..m -> X] /\ \A a \in X : \E i \in 1..m : listX[i] = a
      /\ n \in Nat /\ listQ \in [1..n -> Q] /\ \A a \in Q : \E i \in 1..n : listQ[i] = a
    BY NamesListed
<1>2. Edges(g) \in Bijection(1..k, S) /\ k \in Nat
    BY EdgesListed, FS_CardinalityType
<1>3. /\ Edges(g) \in [1..k -> S]
      /\ \A e \in S : \E i \in 1..k : Edges(g)[i] = e
    BY <1>2, Fun_BijectionProperties
<1>4. /\ drawn.nodes = [i \in DOMAIN listX |-> [id |-> x[listX[i]], label |-> l[listX[i]]]]
                       \o [i \in DOMAIN listQ |-> [id |-> q[listQ[i]], label |-> l[listQ[i]]]]
      /\ drawn.edges = [i \in DOMAIN Edges(g) |->
                          [from |-> x[Edges(g)[i].from], to |-> q[Edges(g)[i].to],
                           label |-> l[Edges(g)[i].label], count |-> CountOf(Edges(g)[i], g.edges)]]
    BY DEF Drawing
<1> HIDE DEF drawn, X, Q, listX, listQ, m, n, k
<1>5. [i \in DOMAIN listX |-> [id |-> x[listX[i]], label |-> l[listX[i]]]]
         = [i \in DOMAIN listX |-> nodeX[listX[i]]]
    BY <1>1
<1>6. [i \in DOMAIN listQ |-> [id |-> q[listQ[i]], label |-> l[listQ[i]]]]
         = [i \in DOMAIN listQ |-> nodeQ[listQ[i]]]
    BY <1>1
<1>7. drawn.edges = [i \in DOMAIN Edges(g) |-> arrow[Edges(g)[i]]]
  <2>1. ASSUME NEW i \in DOMAIN Edges(g)
        PROVE  arrow[Edges(g)[i]] =
                  [from |-> x[Edges(g)[i].from], to |-> q[Edges(g)[i].to],
                   label |-> l[Edges(g)[i].label], count |-> CountOf(Edges(g)[i], g.edges)]
    <3>1. Edges(g)[i] \in S
        BY <1>3
    <3>2. CountOf(Edges(g)[i], g.edges) = g.edges[Edges(g)[i]]
        BY <3>1 DEF CountOf
    <3> QED
        BY <3>1, <3>2
  <2> HIDE DEF arrow
  <2> QED
      BY <1>4, <2>1
<1>8. Range(drawn.nodes) = {nodeX[a] : a \in X} \cup {nodeQ[a] : a \in Q}
  <2> DEFINE s == [i \in DOMAIN listX |-> nodeX[listX[i]]]
             t == [i \in DOMAIN listQ |-> nodeQ[listQ[i]]]
  <2>1. drawn.nodes = s \o t
      BY <1>4, <1>5, <1>6, Zenon
  <2>2. s = [i \in DOMAIN listX |-> nodeX[listX[i]]] /\ t = [i \in DOMAIN listQ |-> nodeQ[listQ[i]]]
      BY Zenon
  <2> HIDE DEF s, t, nodeX, nodeQ
  <2>3. /\ DOMAIN s = 1..m /\ s = [i \in DOMAIN s |-> s[i]]
        /\ \A i \in 1..m : s[i] = nodeX[listX[i]]
        /\ DOMAIN t = 1..n /\ t = [i \in DOMAIN t |-> t[i]]
        /\ \A i \in 1..n : t[i] = nodeQ[listQ[i]]
      BY <1>1, <2>2
  <2>4. \A y : y \in Range(s) <=> \E a \in X : y = nodeX[a]
      BY <1>1, <2>3 DEF Range
  <2>5. \A y : y \in Range(t) <=> \E a \in Q : y = nodeQ[a]
      BY <1>1, <2>3 DEF Range
  <2>6. Range(s \o t) = Range(s) \cup Range(t)
      BY <1>1, <2>3, ShownTogether
  <2> QED
      BY <2>1, <2>4, <2>5, <2>6
<1>9. Range(drawn.edges) = {arrow[e] : e \in S}
  <2> DEFINE list == Edges(g)
             shown == drawn.edges
  <2> HIDE DEF arrow
  <2>1. /\ k \in Nat /\ list \in [1..k -> S] /\ \A e \in S : \E i \in 1..k : list[i] = e
        /\ DOMAIN shown = 1..k /\ \A i \in 1..k : shown[i] = arrow[list[i]]
      BY <1>2, <1>3, <1>7
  <2> HIDE DEF S, list, shown
  <2>2. \A y : y \in Range(shown) <=> \E e \in S : y = arrow[e]
      BY <2>1 DEF Range
  <2> QED
      BY <2>2 DEF shown, S
<1>10. All([i \in DOMAIN drawn.edges |-> drawn.edges[i].count]) = All(g.edges)
  <2> DEFINE c == [i \in DOMAIN drawn.edges |-> drawn.edges[i].count]
  <2>1. DOMAIN c = 1..k
      BY <1>3, <1>7
  <2>2. ASSUME NEW i \in 1..k PROVE c[i] = g.edges[Edges(g)[i]]
    <3>1. Edges(g)[i] \in S /\ i \in DOMAIN Edges(g)
        BY <1>3
    <3>2. drawn.edges[i] = arrow[Edges(g)[i]] /\ i \in DOMAIN drawn.edges
        BY <1>7, <3>1
    <3>3. arrow[Edges(g)[i]].count = g.edges[Edges(g)[i]]
        BY <3>1
    <3> QED
        BY <3>2, <3>3
  <2>3. Edges(g) \in Bijection(DOMAIN c, DOMAIN g.edges)
      BY <1>2, <2>1
  <2> DEFINE counts == g.edges
             list == Edges(g)
  <2>4. /\ IsFiniteSet(DOMAIN counts) /\ \A e \in DOMAIN counts : counts[e] \in Nat
        /\ list \in Bijection(DOMAIN c, DOMAIN counts)
        /\ \A i \in DOMAIN c : c[i] = counts[list[i]]
      BY <2>1, <2>2, <2>3
  <2> HIDE DEF c, counts, list
  <2>5. All(c) = All(counts)
      BY <2>4, SameTotal
  <2> QED
      BY <2>5 DEF c, counts
<1>11. /\ {nodeX[a] : a \in X} = {[id |-> x[a], label |-> l[a]] : a \in X}
       /\ {nodeQ[a] : a \in Q} = {[id |-> q[a], label |-> l[a]] : a \in Q}
       /\ {arrow[e] : e \in S} = {[from |-> x[e.from], to |-> q[e.to], label |-> l[e.label],
                                    count |-> g.edges[e]] : e \in S}
    OBVIOUS
<1> QED
    BY <1>8, <1>9, <1>10, <1>11 DEF DrawnAs, drawn, X, Q

--------------------------------------------------------------------------------
(* The drawings and the graph *)

\* A graph as AddTrace leaves it.
Drawable(g) ==
    /\ IsFiniteSet(DOMAIN g.edges) /\ DOMAIN g.edges \in SUBSET EdgeType
    /\ \A e \in DOMAIN g.edges : g.edges[e] \in Nat
    /\ g.exchanges = {e.from : e \in DOMAIN g.edges}
    /\ g.queues = {e.to : e \in DOMAIN g.edges}

LEMMA NodesOf ==
    ASSUME NEW g, Drawable(g)
    PROVE  /\ g.exchanges \in SUBSET Characters /\ IsFiniteSet(g.exchanges)
           /\ g.queues \in SUBSET Characters /\ IsFiniteSet(g.queues)
           /\ Names(g) \in SUBSET Characters
<1> DEFINE S == DOMAIN g.edges
           X == g.exchanges
           Q == g.queues
<1>1. /\ IsFiniteSet(S) /\ X = {e.from : e \in S} /\ Q = {e.to : e \in S}
      /\ \A e \in S : e.from \in Characters /\ e.to \in Characters /\ e.label \in Characters
    BY DEF Drawable, EdgeType
<1>2. Names(g) = X \cup Q \cup {e.label : e \in S}
    BY DEF Names
<1> DEFINE from == [e \in S |-> e.from]
           to == [e \in S |-> e.to]
<1> HIDE DEF S, X, Q
<1>3. from \in Surjection(S, X) /\ to \in Surjection(S, Q)
    BY <1>1 DEF Surjection
<1>4. IsFiniteSet(X) /\ IsFiniteSet(Q)
    BY <1>1, <1>3, FS_Surjection
<1>5. X \in SUBSET Characters /\ Q \in SUBSET Characters
    BY <1>1
<1>6. Names(g) \in SUBSET Characters
    BY <1>1, <1>2, <1>5
<1> QED
    BY <1>4, <1>5, <1>6 DEF X, Q

\* Over X, f with the values A and g with the values B tell apart the same.
TellAlike(X, f, g, A, B) ==
    /\ IsFiniteSet(X)
    /\ \A m, n \in X : f[m] = f[n] <=> g[m] = g[n]
    /\ \A a : a \in A <=> \E n \in X : a = f[n]
    /\ \A b : b \in B <=> \E n \in X : b = g[n]

\* As many values of one kind as of another that tells apart the same.
LEMMA SameCount ==
    ASSUME NEW X, NEW f, NEW g, NEW A, NEW B, TellAlike(X, f, g, A, B)
    PROVE  IsFiniteSet(A) /\ Cardinality(A) = Cardinality(B)
<1>0. /\ IsFiniteSet(X)
      /\ \A m, n \in X : f[m] = f[n] <=> g[m] = g[n]
      /\ \A a : a \in A <=> \E n \in X : a = f[n]
      /\ \A b : b \in B <=> \E n \in X : b = g[n]
    BY Zenon DEF TellAlike
<1> DEFINE pre == [a \in A |-> CHOOSE n \in X : f[n] = a]
           h == [a \in A |-> g[pre[a]]]
<1>1. [n \in X |-> f[n]] \in Surjection(X, A)
    BY <1>0 DEF Surjection
<1>2. IsFiniteSet(A)
    BY <1>0, <1>1, FS_Surjection
<1>3. \A a \in A : pre[a] \in X /\ f[pre[a]] = a
    BY <1>0
<1>4. \A n \in X : f[n] \in A /\ g[n] \in B
    BY <1>0
<1>5. \A b \in B : \E n \in X : g[n] = b
    BY <1>0
<1> HIDE DEF pre
<1>6. h \in [A -> B] /\ \A a \in A : h[a] = g[pre[a]]
    BY <1>3, <1>4
<1> HIDE DEF h
<1>7. \A a, c \in A : h[a] = h[c] => a = c
    BY <1>0, <1>3, <1>4, <1>6
<1>8. ASSUME NEW b \in B PROVE \E a \in A : h[a] = b
  <2>1. PICK n \in X : g[n] = b
      BY <1>5
  <2>2. f[n] \in A /\ f[pre[f[n]]] = f[n] /\ pre[f[n]] \in X
      BY <1>3, <1>4
  <2>3. h[f[n]] = b
      BY <1>0, <1>6, <2>1, <2>2
  <2> QED
      BY <2>2, <2>3
<1>9. h \in Bijection(A, B)
    BY <1>6, <1>7, <1>8 DEF Bijection, Injection, Surjection, IsInjective
<1>10. ExistsBijection(A, B)
    BY <1>9 DEF ExistsBijection
<1>11. Cardinality(B) = Cardinality(A)
    BY <1>2, <1>10, FS_Bijection
<1> QED
    BY <1>2, <1>11

\* What DrawingsShowTheGraph asks of both drawings, and of DOT's.
Shows(drawn, g) ==
    /\ \A e \in Range(drawn.edges) : {e.from, e.to} \subseteq Ids(drawn)
    /\ {e.from : e \in Range(drawn.edges)} \cap {e.to : e \in Range(drawn.edges)} = {}
    /\ All([i \in DOMAIN drawn.edges |-> drawn.edges[i].count]) = All(g.edges)

IsQuoted(drawn) ==
    /\ \A n \in Range(drawn.nodes) : IsQuotable(n.id) /\ IsQuotable(n.label)
    /\ \A e \in Range(drawn.edges) : IsQuotable(e.label)

DrawnWell(drawn, g, xs, qs) ==
    Shows(drawn, g) /\ Cardinality(Ids(drawn)) = Cardinality(xs) + Cardinality(qs)

\* What holds of each drawing in which exchanges and queues have different identifiers.
LEMMA DrawnApart ==
    ASSUME NEW g, Drawable(g), NEW x, NEW q, NEW l,
           \A a \in g.exchanges : \A b \in g.queues : x[a] # q[b]
    PROVE  DrawnWell(Drawing(g, x, q, l), g, {x[n] : n \in g.exchanges},
                     {q[n] : n \in g.queues})
<1> DEFINE drawn == Drawing(g, x, q, l)
           X == g.exchanges
           Q == g.queues
           S == DOMAIN g.edges
<1>1. /\ X \in SUBSET Characters /\ IsFiniteSet(X) /\ Q \in SUBSET Characters /\ IsFiniteSet(Q)
      /\ IsFiniteSet(S) /\ S \in SUBSET EdgeType /\ \A e \in S : g.edges[e] \in Nat
      /\ X = {e.from : e \in S} /\ Q = {e.to : e \in S}
    BY NodesOf DEF Drawable
<1>2. /\ Range(drawn.nodes) = {[id |-> x[n], label |-> l[n]] : n \in X}
                              \cup {[id |-> q[n], label |-> l[n]] : n \in Q}
      /\ Range(drawn.edges) = {[from |-> x[e.from], to |-> q[e.to], label |-> l[e.label],
                                count |-> g.edges[e]] : e \in S}
      /\ All([i \in DOMAIN drawn.edges |-> drawn.edges[i].count]) = All(g.edges)
  <2>1. DrawnAs(drawn, g, x, q, l)
      BY <1>1, DrawnIs
  <2> QED
      BY Zenon, <2>1 DEF DrawnAs
<1>3. \A a \in X : \A b \in Q : x[a] # q[b]
    OBVIOUS
<1> HIDE DEF drawn, X, Q, S
<1>4. Ids(drawn) = {x[n] : n \in X} \cup {q[n] : n \in Q}
  <2>1. \A n \in Range(drawn.nodes) :
           (\E a \in X : n.id = x[a]) \/ (\E a \in Q : n.id = q[a])
      BY <1>2
  <2>2. \A a \in X : \E n \in Range(drawn.nodes) : n.id = x[a]
    <3>1. \A a \in X : [id |-> x[a], label |-> l[a]] \in Range(drawn.nodes)
        BY <1>2
    <3> QED
        BY <3>1
  <2>3. \A a \in Q : \E n \in Range(drawn.nodes) : n.id = q[a]
    <3>1. \A a \in Q : [id |-> q[a], label |-> l[a]] \in Range(drawn.nodes)
        BY <1>2
    <3> QED
        BY <3>1
  <2> QED
      BY <2>1, <2>2, <2>3 DEF Ids
<1>5. \A e \in Range(drawn.edges) : \E f \in S : e.from = x[f.from] /\ e.to = q[f.to]
    BY <1>2
<1>6. \A f \in S : f.from \in X /\ f.to \in Q
    BY <1>1
<1>7. \A e \in Range(drawn.edges) : {e.from, e.to} \subseteq Ids(drawn)
    BY <1>4, <1>5, <1>6
<1>8. {e.from : e \in Range(drawn.edges)} \cap {e.to : e \in Range(drawn.edges)} = {}
  <2>1. \A d, e \in Range(drawn.edges) : d.from # e.to
      BY <1>3, <1>5, <1>6
  <2> QED
      BY <2>1
<1>9. Cardinality(Ids(drawn)) = Cardinality({x[n] : n \in X}) + Cardinality({q[n] : n \in Q})
  <2> DEFINE A == {x[n] : n \in X}
             B == {q[n] : n \in Q}
  <2>1. IsFiniteSet(A) /\ IsFiniteSet(B)
    <3>1. [n \in X |-> x[n]] \in Surjection(X, A) /\ [n \in Q |-> q[n]] \in Surjection(Q, B)
        BY DEF Surjection
    <3> HIDE DEF A, B
    <3> QED
        BY <1>1, <3>1, FS_Surjection
  <2>2. A \cap B = {}
      BY <1>3
  <2>3. Ids(drawn) = A \cup B
      BY <1>4
  <2> HIDE DEF A, B
  <2>4. Cardinality(A) \in Nat /\ Cardinality(B) \in Nat
      BY <2>1, FS_CardinalityType
  <2>5. Cardinality(A \cup B) = Cardinality(A) + Cardinality(B) - Cardinality(A \cap B)
      BY <2>1, FS_Union
  <2>6. Cardinality(A \cap B) = 0
      BY <2>2, FS_EmptySet
  <2>7. Cardinality(A \cup B) = Cardinality(A) + Cardinality(B) - 0
      BY Zenon, <2>5, <2>6
  <2>8. Cardinality(A \cup B) = Cardinality(A) + Cardinality(B)
      BY <2>4, <2>7
  <2> QED
      BY Zenon, <2>3, <2>8 DEF A, B
<1> QED
    BY <1>2, <1>7, <1>8, <1>9 DEF DrawnWell, Shows, drawn, X, Q

\* DOT's identifiers: quoted as they should be, told apart by what they are made of.
LEMMA DotIds ==
    ASSUME NEW p \in Characters, p # <<>>, p[1] \notin {Backslash, Quote}
    PROVE  /\ \A n \in Characters : /\ IsQuotable(escape(p \o n))
                                    /\ escape(p \o n)[1] = p[1]
           /\ \A m, n \in Characters : escape(p \o m) = escape(p \o n) <=> m = n
<1>1. p \in Seq(Nat) /\ Len(p) \in Nat /\ 1 \in 1..Len(p)
    BY DEF Characters
<1>2. ASSUME NEW n \in Characters
      PROVE  /\ p \o n \in Characters /\ p \o n # <<>> /\ (p \o n)[1] = p[1]
             /\ IsQuotable(escape(p \o n)) /\ escape(p \o n)[1] = p[1]
  <2>1. /\ p \o n \in Characters /\ Len(p \o n) = Len(p) + Len(n) /\ Len(n) \in Nat
        /\ \A i \in 1..Len(p) : (p \o n)[i] = p[i]
      BY Joined
  <2> DEFINE s == p \o n
  <2> HIDE DEF s
  <2>2. s \in Characters /\ s # <<>> /\ s[1] = p[1]
      BY <1>1, <2>1 DEF s
  <2>3. IsQuotable(escape(s)) /\ escape(s)[1] = p[1]
      BY <2>2, EscapeIs DEF EscapesWell
  <2> QED
      BY <2>2, <2>3 DEF s
<1>3. ASSUME NEW m \in Characters, NEW n \in Characters, escape(p \o m) = escape(p \o n)
      PROVE  m = n
  <2>1. p \o m = p \o n
      BY <1>2, <1>3, EscapeIsInjective
  <2>2. m \in Seq(Nat) /\ n \in Seq(Nat)
      BY DEF Characters
  <2> QED
      BY <1>1, <2>1, <2>2, ConcatSimplifications
<1> QED
    BY <1>2, <1>3

LEMMA IdentifierIs ==
    ASSUME NEW s \in Characters
    PROVE  /\ Identifier(s) \in Characters /\ Len(Identifier(s)) = Len(s) /\ Len(s) \in Nat
           /\ \A i \in 1..Len(s) :
                 Identifier(s)[i] = IF s[i] \in LettersAndDigits THEN s[i] ELSE Underscore
<1> DEFINE t == Identifier(s)
           n == Len(s)
<1>1. n \in Nat /\ DOMAIN s = 1..n /\ \A i \in 1..n : s[i] \in Nat
    BY CharactersOf
<1>2. /\ t = [i \in DOMAIN t |-> t[i]] /\ DOMAIN t = 1..n
      /\ \A i \in 1..n : t[i] = IF s[i] \in LettersAndDigits THEN s[i] ELSE Underscore
    BY <1>1 DEF Identifier
<1> HIDE DEF t
<1>3. \A i \in 1..n : t[i] \in Nat
    BY <1>1, <1>2 DEF Underscore
<1>4. t \in Seq(Nat) /\ Len(t) = n
    BY <1>1, <1>2, <1>3, SeqIs
<1> QED
    BY <1>1, <1>2, <1>4 DEF t, Characters

\* Mermaid's identifiers: told apart by letters and digits only.
LEMMA MermaidIds ==
    ASSUME NEW p \in Characters, p # <<>>, p[1] \in LettersAndDigits
    PROVE  /\ \A n \in Characters : mermaidID(p \o n)[1] = p[1]
           /\ \A m, n \in Characters :
                 mermaidID(p \o m) = mermaidID(p \o n) <=> Identifier(m) = Identifier(n)
<1> DEFINE k == Len(p)
<1>1. k \in Nat /\ 1 \in 1..k
    BY DEF Characters
<1>2. ASSUME NEW n \in Characters
      PROVE  /\ Identifier(p \o n) \in Characters /\ Len(Identifier(p \o n)) = k + Len(n)
             /\ Len(n) \in Nat /\ Identifier(n) \in Characters /\ Len(Identifier(n)) = Len(n)
             /\ \A i \in 1..k : Identifier(p \o n)[i] = Identifier(p)[i]
             /\ \A i \in 1..Len(n) : Identifier(p \o n)[k + i] = Identifier(n)[i]
  <2>1. /\ p \o n \in Characters /\ Len(p \o n) = k + Len(n) /\ Len(n) \in Nat
        /\ \A i \in 1..k : (p \o n)[i] = p[i]
        /\ \A i \in 1..Len(n) : (p \o n)[k + i] = n[i]
      BY Joined
  <2> DEFINE s == p \o n
  <2> HIDE DEF s
  <2>2. /\ s \in Characters /\ Len(s) = k + Len(n)
        /\ \A i \in 1..k : s[i] = p[i]
        /\ \A i \in 1..Len(n) : s[k + i] = n[i]
      BY <2>1 DEF s
  <2>3. /\ Identifier(s) \in Characters /\ Len(Identifier(s)) = k + Len(n)
        /\ \A i \in 1..(k + Len(n)) :
              Identifier(s)[i] = IF s[i] \in LettersAndDigits THEN s[i] ELSE Underscore
      BY <2>2, IdentifierIs
  <2>4. /\ Identifier(n) \in Characters /\ Len(Identifier(n)) = Len(n)
        /\ \A i \in 1..Len(n) :
              Identifier(n)[i] = IF n[i] \in LettersAndDigits THEN n[i] ELSE Underscore
        /\ \A i \in 1..k :
              Identifier(p)[i] = IF p[i] \in LettersAndDigits THEN p[i] ELSE Underscore
      BY IdentifierIs
  <2>5. /\ \A i \in 1..k : i \in 1..(k + Len(n))
        /\ \A i \in 1..Len(n) : k + i \in 1..(k + Len(n))
      BY <1>1, <2>1
  <2>6. \A i \in 1..k : Identifier(s)[i] = Identifier(p)[i]
      BY <2>2, <2>3, <2>4, <2>5
  <2>7. \A i \in 1..Len(n) : Identifier(s)[k + i] = Identifier(n)[i]
      BY <2>2, <2>3, <2>4, <2>5
  <2> QED
      BY <2>1, <2>3, <2>4, <2>6, <2>7 DEF s
<1>3. Identifier(p)[1] = p[1]
    BY <1>1, IdentifierIs
<1>4. ASSUME NEW n \in Characters PROVE mermaidID(p \o n)[1] = p[1]
    BY <1>1, <1>2, <1>3 DEF mermaidID
<1>5. ASSUME NEW m \in Characters, NEW n \in Characters, Identifier(p \o m) = Identifier(p \o n)
      PROVE  Identifier(m) = Identifier(n)
  <2>1. Len(m) = Len(n)
    <3>1. k + Len(m) = k + Len(n)
        BY <1>2, <1>5
    <3>2. Len(m) \in Nat /\ Len(n) \in Nat
        BY <1>2
    <3> QED
        BY <1>1, <3>1, <3>2
  <2>2. \A i \in 1..Len(m) : Identifier(m)[i] = Identifier(n)[i]
      BY <1>2, <1>5, <2>1
  <2> DEFINE a == Identifier(m)
             b == Identifier(n)
  <2>3. /\ a \in Characters /\ b \in Characters /\ Len(a) = Len(b)
        /\ \A i \in 1..Len(a) : a[i] = b[i]
      BY <1>2, <2>1, <2>2
  <2> HIDE DEF a, b
  <2>4. a = b
      BY <2>3, SameTexts
  <2> QED
      BY <2>4 DEF a, b
<1>6. ASSUME NEW m \in Characters, NEW n \in Characters, Identifier(m) = Identifier(n)
      PROVE  Identifier(p \o m) = Identifier(p \o n)
  <2> DEFINE a == Identifier(p \o m)
             b == Identifier(p \o n)
  <2>1. /\ a \in Characters /\ Len(a) = k + Len(m) /\ Len(m) = Len(Identifier(m))
        /\ \A i \in 1..k : a[i] = Identifier(p)[i]
        /\ \A i \in 1..Len(m) : a[k + i] = Identifier(m)[i]
      BY <1>2
  <2>2. /\ b \in Characters /\ Len(b) = k + Len(n) /\ Len(n) = Len(Identifier(n))
        /\ \A i \in 1..k : b[i] = Identifier(p)[i]
        /\ \A i \in 1..Len(n) : b[k + i] = Identifier(n)[i]
      BY <1>2
  <2> HIDE DEF a, b
  <2>3. Len(m) = Len(n) /\ Len(n) \in Nat
      BY <1>2, <1>6, <2>1, <2>2
  <2>4. ASSUME NEW i \in 1..Len(a) PROVE a[i] = b[i]
    <3>1. i \in 1..k \/ (i - k \in 1..Len(m) /\ k + (i - k) = i)
        BY <1>1, <2>1, <2>3
    <3>2. CASE i \in 1..k
        BY <2>1, <2>2, <3>2
    <3>3. CASE i - k \in 1..Len(m) /\ k + (i - k) = i
      <4>1. a[k + (i - k)] = Identifier(m)[i - k] /\ b[k + (i - k)] = Identifier(n)[i - k]
          BY <2>1, <2>2, <2>3, <3>3
      <4> QED
          BY <1>6, <3>3, <4>1
    <3> QED
        BY <3>1, <3>2, <3>3
  <2>5. Len(a) = Len(b)
      BY <2>1, <2>2, <2>3
  <2>6. a = b
      BY <2>1, <2>2, <2>4, <2>5, SameTexts
  <2> QED
      BY <2>6 DEF a, b
<1> QED
    BY <1>4, <1>5, <1>6 DEF mermaidID

\* What an identifier begins with: the letter of its kind.
LEMMA KindIs ==
    ASSUME NEW c \in Nat, NEW d \in Nat
    PROVE  <<c>> \o <<d>> \in Characters /\ <<c>> \o <<d>> # <<>> /\ (<<c>> \o <<d>>)[1] = c
<1> DEFINE s == <<c>>
           p == s \o <<d>>
<1>1. s \in Seq(Nat) /\ Len(s) = 1 /\ s[1] = c
    OBVIOUS
<1>2. s \in Characters /\ 1 \in 1..Len(s)
    BY <1>1 DEF Characters
<1> HIDE DEF s
<1>3. p \in Characters /\ Len(p) = Len(s) + 1 /\ p[1] = s[1]
    BY <1>2, JoinedWith
<1> HIDE DEF p
<1>4. p # <<>>
    BY <1>1, <1>3
<1> QED
    BY <1>1, <1>3, <1>4 DEF p, s

LEMMA DotShows ==
    ASSUME NEW g, Drawable(g)
    PROVE  /\ Shows(DOT(g), g) /\ IsQuoted(DOT(g))
           /\ Cardinality(Ids(DOT(g))) = Cardinality(g.exchanges) + Cardinality(g.queues)
<1> DEFINE p == ExchangeId \o <<58>>
           r == QueueId \o <<58>>
           X == g.exchanges
           Q == g.queues
           S == DOMAIN g.edges
           x == [n \in X |-> escape(p \o n)]
           q == [n \in Q |-> escape(r \o n)]
           l == [n \in Names(g) |-> escape(n)]
<1>1. /\ p \in Characters /\ p # <<>> /\ p[1] = 101
      /\ r \in Characters /\ r # <<>> /\ r[1] = 113
    BY KindIs DEF ExchangeId, QueueId
<1>2. /\ X \in SUBSET Characters /\ IsFiniteSet(X) /\ Q \in SUBSET Characters /\ IsFiniteSet(Q)
      /\ Names(g) \in SUBSET Characters
    BY NodesOf
<1>3. DOT(g) = Drawing(g, x, q, l)
    BY DEF DOT
<1>4. 101 \notin {Backslash, Quote} /\ 113 \notin {Backslash, Quote}
    BY DEF Backslash, Quote
<1> HIDE DEF p, r
<1>5. /\ \A n \in X : x[n] = escape(p \o n) /\ IsQuotable(x[n]) /\ x[n][1] = 101
      /\ \A m, n \in X : x[m] = x[n] <=> m = n
    BY <1>1, <1>2, <1>4, DotIds
<1>6. /\ \A n \in Q : q[n] = escape(r \o n) /\ IsQuotable(q[n]) /\ q[n][1] = 113
      /\ \A m, n \in Q : q[m] = q[n] <=> m = n
    BY <1>1, <1>2, <1>4, DotIds
<1>7. \A n \in Names(g) : IsQuotable(l[n])
    BY <1>2, EscapeIs DEF EscapesWell
<1>8. X \subseteq Names(g) /\ Q \subseteq Names(g) /\ \A e \in S : e.label \in Names(g)
    BY DEF Names
<1> HIDE DEF x, q, l
<1>9. \A a \in X : \A b \in Q : x[a] # q[b]
  <2>1. ASSUME NEW a \in X, NEW b \in Q, x[a] = q[b] PROVE FALSE
    <3>1. x[a][1] = 101 /\ q[b][1] = 113
        BY <1>5, <1>6
    <3> QED
        BY <2>1, <3>1
  <2> QED
      BY <2>1
<1>10. DrawnWell(Drawing(g, x, q, l), g, {x[n] : n \in X}, {q[n] : n \in Q})
    BY <1>9, DrawnApart
<1>11. Shows(DOT(g), g)
    BY <1>3, <1>10 DEF DrawnWell
<1>12. Cardinality(Ids(DOT(g))) = Cardinality(X) + Cardinality(Q)
  <2> DEFINE A == {x[n] : n \in X}
             B == {q[n] : n \in Q}
             same == [n \in X \cup Q |-> n]
  <2>1. /\ \A a : a \in A <=> \E n \in X : a = x[n]
        /\ \A a : a \in B <=> \E n \in Q : a = q[n]
      OBVIOUS
  <2>2. /\ \A n \in X : same[n] = n
        /\ \A n \in Q : same[n] = n
      OBVIOUS
  <2>3. Cardinality(Ids(DOT(g))) = Cardinality(A) + Cardinality(B)
      BY <1>3, <1>10 DEF DrawnWell
  <2> HIDE DEF A, B, X, Q, same
  <2>4. /\ \A a : a \in X <=> \E n \in X : a = same[n]
        /\ \A a : a \in Q <=> \E n \in Q : a = same[n]
      BY <2>2
  <2>5. /\ \A m, n \in X : x[m] = x[n] <=> same[m] = same[n]
        /\ \A m, n \in Q : q[m] = q[n] <=> same[m] = same[n]
      BY <1>5, <1>6, <2>2
  <2>6. TellAlike(X, x, same, A, X) /\ TellAlike(Q, q, same, B, Q)
      BY Zenon, <1>2, <2>1, <2>4, <2>5 DEF TellAlike
  <2>7. Cardinality(A) = Cardinality(X) /\ Cardinality(B) = Cardinality(Q)
      BY <2>6, SameCount
  <2> QED
      BY Zenon, <2>3, <2>7 DEF X, Q
<1>13. IsQuoted(DOT(g))
  <2>1. DrawnAs(Drawing(g, x, q, l), g, x, q, l)
      BY <1>2, DrawnIs DEF Drawable
  <2>2. /\ Range(DOT(g).nodes) = {[id |-> x[n], label |-> l[n]] : n \in X}
                                 \cup {[id |-> q[n], label |-> l[n]] : n \in Q}
        /\ Range(DOT(g).edges) = {[from |-> x[e.from], to |-> q[e.to], label |-> l[e.label],
                                   count |-> g.edges[e]] : e \in S}
      BY Zenon, <1>3, <2>1 DEF DrawnAs
  <2>3. \A n \in X : IsQuotable(x[n]) /\ IsQuotable(l[n])
      BY <1>5, <1>7, <1>8
  <2>4. \A n \in Q : IsQuotable(q[n]) /\ IsQuotable(l[n])
      BY <1>6, <1>7, <1>8
  <2>5. \A e \in S : IsQuotable(l[e.label])
      BY <1>7, <1>8
  <2>6. ASSUME NEW n \in Range(DOT(g).nodes)
        PROVE  IsQuotable(n.id) /\ IsQuotable(n.label)
      BY <2>2, <2>3, <2>4
  <2>7. ASSUME NEW e \in Range(DOT(g).edges) PROVE IsQuotable(e.label)
      BY <2>2, <2>5
  <2> QED
      BY <2>6, <2>7 DEF IsQuoted
<1> QED
    BY <1>11, <1>12, <1>13

\* Names of one identifier differ in nothing that tells names apart.
LEMMA SpeltAlike ==
    ASSUME NEW m \in Characters, NEW n \in Characters, Identifier(m) = Identifier(n)
    PROVE  AreAlike(m, n)
<1>1. /\ DOMAIN m = 1..Len(m) /\ \A i \in 1..Len(m) : m[i] \in Nat
      /\ DOMAIN n = 1..Len(n) /\ \A i \in 1..Len(n) : n[i] \in Nat
    BY CharactersOf
<1>2. Len(m) = Len(n)
    BY IdentifierIs
<1>3. ASSUME NEW i \in 1..Len(m)
      PROVE  m[i] = n[i] \/ (m[i] \notin LettersAndDigits /\ n[i] \notin LettersAndDigits)
  <2>1. (IF m[i] \in LettersAndDigits THEN m[i] ELSE Underscore)
           = IF n[i] \in LettersAndDigits THEN n[i] ELSE Underscore
      BY <1>2, IdentifierIs
  <2>2. Underscore \notin LettersAndDigits
      BY DEF Underscore, LettersAndDigits
  <2> QED
      BY <2>1, <2>2
<1>4. \A c \in Nat : c \in LettersAndDigits <=> IsTelling(c)
    BY DEF LettersAndDigits, IsTelling
<1>5. \A i \in DOMAIN m : m[i] = n[i] \/ ~(IsTelling(m[i]) \/ IsTelling(n[i]))
    BY <1>1, <1>2, <1>3, <1>4
<1> QED
    BY <1>2, <1>5 DEF AreAlike

\* Every name is drawn, and names of one node are alike.
LabelsWell(drawn, names) ==
    /\ {n.label : n \in Range(drawn.nodes)} = names
    /\ \A m, n \in Range(drawn.nodes) : m.id = n.id => AreAlike(m.label, n.label)

LEMMA MermaidShows ==
    ASSUME NEW g, Drawable(g)
    PROVE  Shows(Mermaid(g), g) /\ LabelsWell(Mermaid(g), g.exchanges \cup g.queues)
<1> DEFINE p == ExchangeId \o <<Underscore>>
           r == QueueId \o <<Underscore>>
           X == g.exchanges
           Q == g.queues
           x == [n \in X |-> mermaidID(p \o n)]
           q == [n \in Q |-> mermaidID(r \o n)]
           l == [n \in Names(g) |-> n]
<1>1. /\ p \in Characters /\ p # <<>> /\ p[1] = 101
      /\ r \in Characters /\ r # <<>> /\ r[1] = 113
    BY KindIs DEF ExchangeId, QueueId, Underscore
<1>2. /\ X \in SUBSET Characters /\ IsFiniteSet(X) /\ Q \in SUBSET Characters /\ IsFiniteSet(Q)
    BY NodesOf
<1>3. Mermaid(g) = Drawing(g, x, q, l)
    BY DEF Mermaid
<1>4. 101 \in LettersAndDigits /\ 113 \in LettersAndDigits
    BY DEF LettersAndDigits
<1> HIDE DEF p, r
<1>5. /\ \A n \in X : x[n][1] = 101
      /\ \A m, n \in X : x[m] = x[n] <=> Identifier(m) = Identifier(n)
    BY <1>1, <1>2, <1>4, MermaidIds
<1>6. /\ \A n \in Q : q[n][1] = 113
      /\ \A m, n \in Q : q[m] = q[n] <=> Identifier(m) = Identifier(n)
    BY <1>1, <1>2, <1>4, MermaidIds
<1>7. \A n \in X \cup Q : l[n] = n
    BY DEF Names
<1> HIDE DEF x, q, l
<1>8. \A a \in X : \A b \in Q : x[a] # q[b]
  <2>1. ASSUME NEW a \in X, NEW b \in Q, x[a] = q[b] PROVE FALSE
    <3>1. x[a][1] = 101 /\ q[b][1] = 113
        BY <1>5, <1>6
    <3> QED
        BY <2>1, <3>1
  <2> QED
      BY <2>1
<1>9. Shows(Mermaid(g), g)
  <2>1. DrawnWell(Drawing(g, x, q, l), g, {x[n] : n \in X}, {q[n] : n \in Q})
      BY <1>8, DrawnApart
  <2> QED
      BY <1>3, <2>1 DEF DrawnWell
<1> DEFINE nodes == Range(Mermaid(g).nodes)
<1>10. nodes = {[id |-> x[n], label |-> l[n]] : n \in X}
               \cup {[id |-> q[n], label |-> l[n]] : n \in Q}
  <2>1. DrawnAs(Drawing(g, x, q, l), g, x, q, l)
      BY <1>2, DrawnIs DEF Drawable
  <2> QED
      BY Zenon, <1>3, <2>1 DEF DrawnAs
<1> HIDE DEF nodes, X, Q
<1>11. \A m \in nodes : \/ m.label \in X /\ m.id = x[m.label]
                        \/ m.label \in Q /\ m.id = q[m.label]
    BY <1>7, <1>10
<1>12. \A n \in X \cup Q : \E m \in nodes : m.label = n
  <2>1. \A n \in X : [id |-> x[n], label |-> l[n]] \in nodes
      BY <1>10
  <2>2. \A n \in Q : [id |-> q[n], label |-> l[n]] \in nodes
      BY <1>10
  <2>3. ASSUME NEW n \in X PROVE \E m \in nodes : m.label = n
    <3>1. [id |-> x[n], label |-> l[n]].label = n
        BY <1>7
    <3> QED
        BY <2>1, <3>1
  <2>4. ASSUME NEW n \in Q PROVE \E m \in nodes : m.label = n
    <3>1. [id |-> q[n], label |-> l[n]].label = n
        BY <1>7
    <3> QED
        BY <2>2, <3>1
  <2> QED
      BY <2>3, <2>4
<1>13. {n.label : n \in nodes} = X \cup Q
    BY <1>11, <1>12
<1>14. ASSUME NEW m \in nodes, NEW n \in nodes, m.id = n.id
       PROVE  AreAlike(m.label, n.label)
  <2> DEFINE a == m.label
             b == n.label
  <2>1. \/ a \in X /\ b \in X /\ x[a] = x[b]
        \/ a \in Q /\ b \in Q /\ q[a] = q[b]
      BY <1>8, <1>11, <1>14
  <2> HIDE DEF a, b
  <2>2. a \in Characters /\ b \in Characters /\ Identifier(a) = Identifier(b)
      BY <1>2, <1>5, <1>6, <2>1
  <2>3. AreAlike(a, b)
      BY <2>2, SpeltAlike
  <2> QED
      BY <2>3 DEF a, b
<1>15. LabelsWell(Mermaid(g), X \cup Q)
    BY Zenon, <1>13, <1>14 DEF LabelsWell, nodes
<1> QED
    BY <1>9, <1>15 DEF X, Q

\* The graph is one that can be drawn.
LEMMA GraphIsDrawable == Counted => Drawable(graph)
<1> SUFFICES ASSUME Counted PROVE Drawable(graph)
    OBVIOUS
<1> DEFINE E == EdgeLists(rendered)
           at == [p \in Places(E) |-> E[p[1]][p[2]]]
<1>1. Handling /\ IsLists(E) /\ Tallies(graph.edges, E)
    BY RenderedAre, ListsAre DEF Counted, GraphCounted
<1>2. /\ DOMAIN E = DOMAIN rendered
      /\ \A i \in DOMAIN rendered :
            /\ rendered[i] \in Trace /\ E[i] = EdgesOf(rendered[i])
            /\ DOMAIN E[i] = DOMAIN Reached(rendered[i])
  <2>1. \A i \in DOMAIN rendered : rendered[i] \in Trace
      BY <1>1, RenderedAre
  <2>2. DOMAIN E = DOMAIN rendered /\ \A i \in DOMAIN rendered : E[i] = EdgesOf(rendered[i])
      BY DEF EdgeLists
  <2> HIDE DEF E
  <2> QED
      BY <2>1, <2>2, ItemsAreLists
<1> HIDE DEF E
<1>3. IsFiniteSet(DOMAIN graph.edges)
  <2>1. IsFiniteSet(Places(E))
      BY <1>1, PlacesFinite
  <2>2. at \in Surjection(Places(E), DOMAIN graph.edges)
      BY <1>1 DEF Tallies, Surjection
  <2> QED
      BY <2>1, <2>2, FS_Surjection
<1>4. \A e \in DOMAIN graph.edges : graph.edges[e] \in Nat
  <2>1. \A S : Cardinality(Where(E, S)) \in Nat
      BY <1>1, PlacesFinite
  <2> QED
      BY <1>1, <2>1 DEF Tallies
<1>5. ASSUME NEW e \in DOMAIN graph.edges PROVE e \in EdgeType
  <2>1. PICK p \in Places(E) : e = E[p[1]][p[2]]
      BY <1>1 DEF Tallies
  <2> DEFINE t == rendered[p[1]]
             j == p[2]
  <2>2. t \in Trace /\ j \in DOMAIN Reached(t) /\ e = EdgesOf(t)[j]
      BY <1>2, <2>1, PlaceIs
  <2> HIDE DEF t, j
  <2>3. /\ e = [from |-> e.from, to |-> e.to, label |-> e.label]
        /\ e.from \in Characters /\ e.to \in Characters /\ e.label \in Characters
      BY <2>2, KeyIsOfEdge
  <2> QED
      BY <2>3 DEF EdgeType
<1> QED
    BY <1>3, <1>4, <1>5 DEF Drawable, Counted, GraphCounted

LEMMA CountedDrawn == Counted => DrawingsShowTheGraph
<1> SUFFICES ASSUME Counted, closed PROVE DrawingsShowTheGraph
    BY DEF DrawingsShowTheGraph
<1> DEFINE dot == DOT(graph)
           mermaid == Mermaid(graph)
<1>1. drawing.dot = dot /\ drawing.mermaid = mermaid
    BY DEF Counted, GraphDrawn
<1>2. /\ Shows(dot, graph) /\ IsQuoted(dot)
      /\ Cardinality(Ids(dot)) = Cardinality(graph.exchanges) + Cardinality(graph.queues)
    BY GraphIsDrawable, DotShows
<1>3. Shows(mermaid, graph) /\ LabelsWell(mermaid, graph.exchanges \cup graph.queues)
    BY GraphIsDrawable, MermaidShows
<1> HIDE DEF dot, mermaid
<1>4. \A drawn \in {drawing.dot, drawing.mermaid} : Shows(drawn, graph)
    BY <1>1, <1>2, <1>3
<1> QED
    BY Zenon, <1>1, <1>2, <1>3, <1>4 DEF DrawingsShowTheGraph, Shows, IsQuoted, LabelsWell

\* The drawings show the graph: every arrow joins two nodes that are drawn, the
\* counts add up, exchanges and queues are kept apart, DOT has a node of its own for
\* every name and quotes what would end it early, and Mermaid draws every name and
\* gives one identifier only to names that differ in nothing but characters other than
\* the letters and digits of ASCII (DOT, Mermaid, escape and mermaidID in graph.go).
THEOREM Drawings == Spec => []DrawingsShowTheGraph
    BY CountedAlways, CountedDrawn, PTL

================================================================================
