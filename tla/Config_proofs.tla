------------------------------- MODULE Config_proofs -------------------------------
(***************************************************************************)
(* Proofs about Config: whatever the arguments, the environment and the    *)
(* files, what the program runs with is what the other parts rely on.      *)
(***************************************************************************)
EXTENDS Config, Lemmas

--------------------------------------------------------------------------------
(* Types *)

Typed(c) == DOMAIN c = Settings /\ \A f \in Settings : c[f] \in TypeOf(f)

LEMMA TypeFacts ==
    /\ \A f \in Strings : TypeOf(f) = Characters
    /\ \A f \in Ints \cup Durations : TypeOf(f) = Int
    /\ \A f \in Bools : TypeOf(f) = BOOLEAN
    /\ Strings \cap (Ints \cup Durations \cup Bools) = {}
    /\ (Ints \cup Durations) \cap Bools = {}
    BY DEF TypeOf, Strings, Ints, Durations, Bools

LEMMA DefaultTyped == \A f \in Settings : Default[f] \in TypeOf(f)
<1>1. ASSUME NEW f \in Strings PROVE Default[f] \in Characters
  <2>1. Some \in Seq(Nat) /\ Routing \in Seq(Nat) /\ Cli \in Seq(Nat) /\ <<>> \in Seq(Nat)
      BY DEF Some, Routing, Cli
  <2>2. Default[f] \in {Some, Routing, Cli, <<>>}
      BY <1>1 DEF Default, Settings, Strings
  <2> QED
      BY <2>1, <2>2 DEF Characters
<1>2. ASSUME NEW f \in Ints \cup Durations PROVE Default[f] \in Int
  <2>1. f \in {"max_events", "prefetch", "show_body_bytes", "reconnect_initial",
               "reconnect_max"}
      BY DEF Ints, Durations
  <2>2. f \in {"max_events", "show_body_bytes"} => Default[f] = 0
      BY ZenonT(30) DEF Default, Settings, Ints
  <2>3. f = "prefetch" => Default[f] = 200
      BY ZenonT(30) DEF Default, Settings, Ints
  <2>4. f = "reconnect_initial" => Default[f] = 1
      BY ZenonT(30) DEF Default, Settings, Durations
  <2>5. f = "reconnect_max" => Default[f] = 30
      BY ZenonT(30) DEF Default, Settings, Durations
  <2> QED
      BY <2>1, <2>2, <2>3, <2>4, <2>5
<1>3. ASSUME NEW f \in Bools PROVE Default[f] \in BOOLEAN
    BY DEF Default, Settings, Bools
<1> QED
    BY <1>1, <1>2, <1>3, TypeFacts DEF Settings

LEMMA ReadingTyped ==
    ASSUME NEW f \in Settings, NEW token \in Token \cup TokensWith({{}})
    PROVE  Reading(f, token) \subseteq TypeOf(f)
<1>1. token.text \in Characters /\ token.ints \subseteq Int /\ token.bools \subseteq BOOLEAN
    BY DEF Token, TokensWith
<1>2. CASE f \in Strings
    BY <1>1, <1>2, TypeFacts DEF Reading
<1>3. CASE f \in Ints \cup Durations
    BY <1>1, <1>3, TypeFacts DEF Reading
<1>4. CASE f \in Bools
    BY <1>1, <1>4, TypeFacts DEF Reading
<1> QED
    BY <1>2, <1>3, <1>4 DEF Settings

LEMMA ReadingMember ==
    ASSUME NEW f \in Settings, NEW S \in SUBSET (Token \cup TokensWith({{}})),
           UNION {Reading(f, token) : token \in S} # {}
    PROVE  The(UNION {Reading(f, token) : token \in S}) \in TypeOf(f)
<1> DEFINE read == UNION {Reading(f, token) : token \in S}
<1>1. read \subseteq TypeOf(f)
    BY ReadingTyped
<1>2. The(read) \in read
    BY DEF The
<1> QED
    BY <1>1, <1>2

\* What an option is followed by.
LEMMA ValueTyped ==
    ASSUME rest \in Seq(Token), rest # <<>>
    PROVE  /\ ValueOf(rest[1]) \in SUBSET (Token \cup TokensWith({{}}))
           /\ Left(rest[1]) \in Seq(Token)
           /\ Tail(rest) \in Seq(Token)
<1>1. Len(rest) \in Nat /\ Len(rest) >= 1 /\ rest[1] \in Token
    OBVIOUS
<1>2. rest[1].inline \subseteq TokensWith({{}})
    BY <1>1 DEF Token, TokensWith
<1>3. Len(rest) > 1 => rest[2] \in Token
    BY <1>1
<1>4. ValueOf(rest[1]) \in SUBSET (Token \cup TokensWith({{}}))
    BY <1>1, <1>2, <1>3 DEF ValueOf
<1>5. Left(rest[1]) \in Seq(Token)
    BY <1>1 DEF Left
<1>6. Tail(rest) \in Seq(Token)
    OBVIOUS
<1> QED
    BY <1>4, <1>5, <1>6

--------------------------------------------------------------------------------
(* The arguments, option by option *)

Before(i, k) == FlattenSeq([n \in 1..k |-> Written(i.options[n])])

\* The arguments behind the first k options.
Behind(i, k) == SubSeq(Arguments(i), Len(Before(i, k)) + 1, Len(Arguments(i)))

LEMMA WrittenIs ==
    ASSUME NEW option, IsOption(option)
    PROVE  /\ HeadOf(option) \in Token
           /\ option.style = "apart" =>
                 option.value \in Token /\ Written(option) = <<HeadOf(option), option.value>>
           /\ option.style # "apart" => Written(option) = <<HeadOf(option)>>
           /\ Written(option) \in Seq(Token)
<1>1. /\ option.name \in STRING /\ option.dashes \in Nat
      /\ option.style = "inline" => option.value \in TokensWith({{}})
      /\ option.style = "apart" => option.value \in Token
    BY DEF IsOption
<1>2. <<45>> \in Characters
    BY DEF Characters
<1>3. HeadOf(option) \in Token
  <2> DEFINE inline == IF option.style = "inline" THEN {option.value} ELSE {}
             values == SUBSET TokensWith({{}})
  <2>1. inline \in values
      BY <1>1
  <2>2. HeadOf(option) = [name |-> option.name, dashes |-> option.dashes, inline |-> inline,
                          text |-> <<45>>, ints |-> {}, bools |-> {}]
      BY DEF HeadOf
  <2>3. {} \in SUBSET Int /\ {} \in SUBSET BOOLEAN
      OBVIOUS
  <2> HIDE DEF inline, values
  <2>4. HeadOf(option) \in TokensWith(values)
      BY <1>1, <1>2, <2>1, <2>2, <2>3 DEF TokensWith
  <2> QED
      BY <2>4 DEF Token, values
<1>4. /\ option.style = "apart" => Written(option) = <<HeadOf(option), option.value>>
      /\ option.style # "apart" => Written(option) = <<HeadOf(option)>>
    BY ZenonT(30) DEF Written
<1>5. Written(option) \in Seq(Token)
  <2>1. CASE option.style = "apart"
    <3>1. option.value \in Token /\ Written(option) = <<HeadOf(option), option.value>>
        BY <1>1, <1>4, <2>1
    <3> QED
        BY <1>3, <3>1
  <2>2. CASE option.style # "apart"
    <3>1. <<HeadOf(option)>> \in Seq(Token)
        BY <1>3
    <3> QED
        BY <1>4, <2>2, <3>1
  <2> QED
      BY <2>1, <2>2
<1> QED
    BY <1>1, <1>3, <1>4, <1>5

LEMMA InputIs ==
    ASSUME NEW i \in Inputs
    PROVE  /\ Len(i.options) \in Nat /\ DOMAIN i.options = 1..Len(i.options)
           /\ \A n \in 1..Len(i.options) : IsOption(i.options[n])
           /\ i.further \in Seq(Token)
<1>1. IsInput(i)
    BY ConfigAssumption
<1>2. i.options \in Seq(Range(i.options)) /\ i.further \in Seq(Token)
      /\ \A option \in Range(i.options) : IsOption(option)
    BY <1>1 DEF IsInput
<1>3. Len(i.options) \in Nat /\ DOMAIN i.options = 1..Len(i.options)
    BY <1>2
<1>4. \A n \in 1..Len(i.options) : i.options[n] \in Range(i.options)
    BY <1>3 DEF Range
<1> QED
    BY <1>2, <1>3, <1>4

LEMMA NoneBefore ==
    ASSUME NEW i \in Inputs
    PROVE  Before(i, 0) = <<>> /\ Before(i, 0) \in Seq(Token)
<1>1. [n \in 1..0 |-> Written(i.options[n])] = <<>>
    OBVIOUS
<1>2. Before(i, 0) = <<>>
    BY <1>1, FlattenFirst DEF Before
<1>3. <<>> \in Seq(Token)
    OBVIOUS
<1> QED
    BY <1>2, <1>3

LEMMA BeforeIs ==
    ASSUME NEW i \in Inputs, NEW k \in 1..Len(i.options)
    PROVE  /\ Before(i, 0) = <<>>
           /\ k = 1 => Before(i, k) = Written(i.options[k])
           /\ k # 1 => Before(i, k) = Before(i, k - 1) \o Written(i.options[k])
<1>1. Before(i, 0) = <<>>
    BY NoneBefore
<1> DEFINE long == [n \in 1..k |-> Written(i.options[n])]
           short == [n \in 1..(k - 1) |-> Written(i.options[n])]
<1>2. k \in Nat /\ k >= 1
    BY InputIs
<1>3. long[k] = Written(i.options[k]) /\ (k # 1 => \A n \in 1..(k - 1) : short[n] = long[n])
    BY <1>2
<1>4. Len(long) = k /\ Len(short) = k - 1
    BY <1>2
<1>5. Before(i, k) = FlattenSeq(long) /\ Before(i, k - 1) = FlattenSeq(short)
    BY DEF Before
<1> HIDE DEF long, short
<1>6. CASE k = 1
    BY <1>1, <1>3, <1>4, <1>5, <1>6, FlattenFirst
<1>7. CASE k # 1
  <2>1. k - 1 \in Nat \ {0} /\ Len(long) = (k - 1) + 1 /\ (k - 1) + 1 = k
      BY <1>2, <1>4, <1>7
  <2>2. FlattenSeq(long) = FlattenSeq(short) \o long[(k - 1) + 1]
      BY <1>3, <1>4, <1>7, <2>1, FlattenMore
  <2> QED
      BY <1>1, <1>3, <1>5, <1>7, <2>1, <2>2
<1> QED
    BY <1>6, <1>7

LEMMA BeforeGrows ==
    ASSUME NEW i \in Inputs, NEW k \in 1..Len(i.options), Before(i, k - 1) \in Seq(Token)
    PROVE  /\ Before(i, k) \in Seq(Token)
           /\ Before(i, k) = Before(i, k - 1) \o Written(i.options[k])
<1>1. Written(i.options[k]) \in Seq(Token)
    BY InputIs, WrittenIs
<1>2. Before(i, k) = Before(i, k - 1) \o Written(i.options[k])
  <2>1. CASE k = 1
    <3>1. Before(i, k - 1) = <<>> /\ Before(i, k) = Written(i.options[k])
      <4>1. k - 1 = 0
          BY <2>1
      <4> QED
          BY <2>1, <4>1, BeforeIs
    <3> QED
        BY <1>1, <3>1, ConcatEmptySeq
  <2>2. CASE k # 1
      BY <2>2, BeforeIs
  <2> QED
      BY <2>1, <2>2
<1>3. Before(i, k - 1) \o Written(i.options[k]) \in Seq(Token)
    BY <1>1, ConcatProperties
<1> QED
    BY <1>2, <1>3

LEMMA BeforeTyped ==
    ASSUME NEW i \in Inputs
    PROVE  \A k \in 0..Len(i.options) : Before(i, k) \in Seq(Token)
<1> DEFINE T == {k \in 0..Len(i.options) : Before(i, k) \notin Seq(Token)}
<1>1. SUFFICES ASSUME T # {} PROVE FALSE
    OBVIOUS
<1>2. Len(i.options) \in Nat
    BY InputIs
<1>3. PICK k \in T : \A l \in T : k <= l
  <2>1. T \in SUBSET Nat
      BY <1>2
  <2> QED
      BY <1>1, <2>1, Least
<1>4. CASE k = 0
    BY <1>4, NoneBefore
<1>5. CASE k # 0
  <2>1. k \in 1..Len(i.options) /\ k - 1 \in 0..Len(i.options) /\ ~(k <= k - 1)
      BY <1>2, <1>5
  <2>2. Before(i, k - 1) \in Seq(Token)
      BY <1>3, <2>1
  <2> QED
      BY <2>1, <2>2, BeforeGrows
<1> QED
    BY <1>4, <1>5

\* The tokens w are those of s, and then those of t.
Parted(w, s, t) == s \in Seq(Token) /\ t \in Seq(Token) /\ w = s \o t

LEMMA PartedAgain ==
    ASSUME NEW w, NEW s, NEW t, NEW u, Parted(w, s \o t, u), s \in Seq(Token), t \in Seq(Token)
    PROVE  Parted(w, s, t \o u)
<1>1. u \in Seq(Token) /\ w = (s \o t) \o u
    BY DEF Parted
<1>2. (s \o t) \o u = s \o (t \o u)
    BY <1>1, ConcatAssociative
<1>3. t \o u \in Seq(Token)
    BY <1>1, ConcatProperties
<1> QED
    BY <1>1, <1>2, <1>3, Zenon DEF Parted

LEMMA PartedBehind ==
    ASSUME NEW i, NEW k, NEW t, Parted(Arguments(i), Before(i, k), t)
    PROVE  Behind(i, k) = t
<1> DEFINE s == Before(i, k)
           n == Len(s) + 1
<1>1. s \in Seq(Token) /\ t \in Seq(Token) /\ Arguments(i) = s \o t
    BY DEF Parted
<1>2. Behind(i, k) = SubSeq(s \o t, n, Len(s \o t))
    BY <1>1 DEF Behind
<1> HIDE DEF s
<1>3. n \in Nat
    BY <1>1
<1> HIDE DEF n
<1>4. SubSeq(s \o t, n, Len(s \o t)) = t
    BY <1>1, <1>3, CutOff DEF n
<1> QED
    BY <1>2, <1>4

\* The arguments are those of the first k options, and others.
LEMMA Divided ==
    ASSUME NEW i \in Inputs
    PROVE  \A k \in 0..Len(i.options) :
              /\ \E q \in Seq(Token) : Arguments(i) = Before(i, k) \o q
              /\ Behind(i, k) \in Seq(Token)
              /\ Arguments(i) = Before(i, k) \o Behind(i, k)
<1> DEFINE n == Len(i.options)
           Good(k) == \E q : Parted(Arguments(i), Before(i, k), q)
           T == {k \in 0..n : ~Good(k)}
<1>1. n \in Nat /\ i.further \in Seq(Token)
    BY InputIs
<1>2. T = {}
  <2>1. SUFFICES ASSUME T # {} PROVE FALSE
      OBVIOUS
  <2>2. PICK k \in T : \A l \in T : l <= k
    <3>1. T \in SUBSET (0..n)
        OBVIOUS
    <3> QED
        BY <1>1, <2>1, <3>1, Greatest
  <2>3. CASE k = n
    <3>1. Arguments(i) = Before(i, n) \o i.further
        BY InputIs DEF Arguments, Before
    <3>2. Before(i, n) \in Seq(Token)
        BY <1>1, BeforeTyped
    <3>3. Parted(Arguments(i), Before(i, n), i.further)
        BY <1>1, <3>1, <3>2 DEF Parted
    <3> QED
        BY <2>3, <3>3
  <2>4. CASE k # n
    <3>1. k + 1 \in 1..n /\ k + 1 \in 0..n /\ ~(k + 1 <= k) /\ (k + 1) - 1 = k /\ k \in 0..n
        BY <1>1, <2>4
    <3>2. Good(k + 1)
        BY <2>2, <3>1
    <3>3. PICK q : Parted(Arguments(i), Before(i, k + 1), q)
        BY <3>2
    <3>4. Before(i, k) \in Seq(Token)
        BY <3>1, BeforeTyped
    <3>5. Written(i.options[k + 1]) \in Seq(Token)
        BY <3>1, InputIs, WrittenIs
    <3>6. Before(i, k + 1) = Before(i, k) \o Written(i.options[k + 1])
        BY <3>1, <3>4, BeforeGrows
    <3>7. Parted(Arguments(i), Before(i, k), Written(i.options[k + 1]) \o q)
        BY <3>3, <3>4, <3>5, <3>6, PartedAgain
    <3> QED
        BY <3>7
  <2> QED
      BY <2>3, <2>4
<1>3. ASSUME NEW k \in 0..n
      PROVE  Parted(Arguments(i), Before(i, k), Behind(i, k))
  <2>1. PICK q : Parted(Arguments(i), Before(i, k), q)
      BY <1>2
  <2>2. Behind(i, k) = q
      BY <2>1, PartedBehind
  <2> QED
      BY <2>1, <2>2
<1> QED
    BY <1>3, Zenon DEF Parted

LEMMA BehindIs ==
    ASSUME NEW i \in Inputs
    PROVE  /\ Arguments(i) \in Seq(Token)
           /\ Behind(i, 0) = Arguments(i)
           /\ Behind(i, Len(i.options)) = i.further
           /\ \A k \in 1..Len(i.options) :
                 Behind(i, k - 1) = Written(i.options[k]) \o Behind(i, k)
<1> DEFINE n == Len(i.options)
<1>1. n \in Nat /\ i.further \in Seq(Token) /\ 0 \in 0..n /\ n \in 0..n
    BY InputIs
<1>2. /\ Before(i, 0) = <<>> /\ Before(i, 0) \in Seq(Token)
      /\ Behind(i, 0) \in Seq(Token) /\ Arguments(i) = Before(i, 0) \o Behind(i, 0)
    BY <1>1, NoneBefore, Divided
<1>3. Behind(i, 0) = Arguments(i)
    BY <1>2, ConcatEmptySeq
<1>4. Behind(i, n) = i.further
  <2>1. Arguments(i) = Before(i, n) \o i.further
      BY InputIs DEF Arguments, Before
  <2>2. Before(i, n) \in Seq(Token)
      BY <1>1, BeforeTyped
  <2>3. Parted(Arguments(i), Before(i, n), i.further)
      BY <1>1, <2>1, <2>2, Zenon DEF Parted
  <2> QED
      BY <2>3, PartedBehind
<1>5. ASSUME NEW k \in 1..n
      PROVE  Behind(i, k - 1) = Written(i.options[k]) \o Behind(i, k)
  <2>1. k - 1 \in 0..n /\ k \in 0..n
      BY <1>1
  <2>2. Before(i, k - 1) \in Seq(Token)
      BY <2>1, BeforeTyped
  <2>3. Written(i.options[k]) \in Seq(Token)
      BY InputIs, WrittenIs
  <2>4. Before(i, k) = Before(i, k - 1) \o Written(i.options[k])
      BY <2>2, BeforeGrows
  <2>5. Parted(Arguments(i), Before(i, k), Behind(i, k))
    <3>1. /\ Behind(i, k) \in Seq(Token)
          /\ Arguments(i) = Before(i, k) \o Behind(i, k)
        BY <2>1, Divided
    <3>2. Before(i, k) \in Seq(Token)
        BY <2>1, BeforeTyped
    <3> QED
        BY <3>1, <3>2, Zenon DEF Parted
  <2>6. Parted(Arguments(i), Before(i, k - 1), Written(i.options[k]) \o Behind(i, k))
      BY <2>2, <2>3, <2>4, <2>5, PartedAgain
  <2> QED
      BY <2>6, PartedBehind
<1> QED
    BY <1>2, <1>3, <1>4, <1>5

--------------------------------------------------------------------------------
(* The invariant *)

\* While the layers are merged the settings have their types; Validate makes them
\* usable, and nothing changes them after it.
Inv ==
    /\ input \in Inputs
    /\ pc \in {"scan", "file", "env", "flags", "validate", "loaded", "running", "exited"}
    /\ pc = "flags" => rest \in Seq(Token)
    /\ pc \in {"env", "flags", "validate"} => Typed(cfg)
    /\ pc \in {"loaded", "running"} => Usable(cfg)

\* What Validate accepts is usable.
LEMMA ValidIsUsable ==
    ASSUME NEW c, Typed(c), Valid(Normalised(c))
    PROVE  Usable(Normalised(c))
<1> DEFINE n == Normalised(c)
<1>1. /\ \A f \in Ints \cup Durations : n[f] = c[f] /\ n[f] \in Int
      /\ \A f \in {"firehose_exchange", "metrics_addr", "statsd_addr", "web_addr"} :
            n[f] = Trim(c[f]) /\ c[f] \in Characters
      /\ n["graph_name"] = firstNonEmpty(<<c["graph_name"], Routing>>)
      /\ c["graph_name"] \in Characters
    BY TypeFacts DEF Typed, Normalised, Settings, Strings, Ints, Durations
<1>2. \A f \in {"firehose_exchange", "metrics_addr", "statsd_addr", "web_addr"} :
          n[f] # <<>> => Trim(n[f]) # <<>>
    BY <1>1, TrimmedIsNotBlank
<1>3. Trim(n["graph_name"]) # <<>>
  <2>1. Routing \in Characters /\ 1 \in Ink(Routing)
      BY DEF Routing, Characters, Ink, Space
  <2>2. Trim(Routing) # <<>>
      BY <2>1, InkIsKept
  <2> QED
      BY <1>1, <2>1, <2>2, FirstOfTwo, TrimmedIsNotBlank
<1>4. AddressOf(n["output_format"]) \subseteq {"metrics_addr", "statsd_addr", "web_addr"}
    BY DEF AddressOf
<1> QED
    BY <1>1, <1>2, <1>3, <1>4 DEF Valid, Usable, Ints, Durations

\* When the program ends there is nothing left to keep.
LEMMA Exits ==
    ASSUME Inv, pc' = "exited", input' = input
    PROVE  Inv'
    BY DEF Inv

LEMMA FileStep ==
    ASSUME Inv, loadFromFile
    PROVE  Inv'
<1>1. CASE Fail
    BY <1>1, Exits DEF Fail
<1>2. CASE ~Fail
  <2>1. /\ IsReadable(path) /\ cfg' = [f \in Settings |-> FromFile(path, f)]
        /\ pc' = "env" /\ input' = input
      BY <1>2 DEF loadFromFile
  <2>2. ASSUME NEW f \in Settings PROVE FromFile(path, f) \in TypeOf(f)
    <3>1. CASE path # <<>> /\ f \in DOMAIN Files[path].settings
      <4>1. path \in DOMAIN Files
          BY <2>1, <3>1 DEF IsReadable
      <4> QED
          BY <3>1, <4>1, ConfigAssumption DEF FromFile
    <3>2. CASE ~(path # <<>> /\ f \in DOMAIN Files[path].settings)
        BY <3>2, DefaultTyped DEF FromFile
    <3> QED
        BY <3>1, <3>2
  <2> QED
      BY <2>1, <2>2 DEF Inv, Typed
<1> QED
    BY <1>1, <1>2

LEMMA EnvStep ==
    ASSUME Inv, applyEnv
    PROVE  Inv'
<1>1. CASE Fail
    BY <1>1, Exits DEF Fail
<1>2. CASE ~Fail
  <2>1. /\ \A f \in DOMAIN input.env : Reading(f, input.env[f]) # {}
        /\ cfg' = [f \in Settings |-> FromEnv(f)]
        /\ rest' = Arguments(input) /\ pc' = "flags" /\ input' = input
        /\ Typed(cfg) /\ input \in Inputs
      BY <1>2 DEF applyEnv, Inv, args
  <2>2. ASSUME NEW f \in Settings PROVE FromEnv(f) \in TypeOf(f)
    <3>1. CASE EnvSets(f)
      <4>1. input.env[f] \in Token /\ input.env[f].text \in Characters
        <5>1. IsInput(input) /\ f \in DOMAIN input.env
            BY <2>1, <3>1, ConfigAssumption DEF EnvSets
        <5>2. input.env[f] \in Token
            BY <5>1 DEF IsInput
        <5> QED
            BY <5>2 DEF Token, TokensWith
      <4>2. CASE f \in Strings
          BY <3>1, <4>1, <4>2, TrimType, TypeFacts DEF FromEnv, EnvValue
      <4>3. CASE f \notin Strings
        <5>1. The(Reading(f, input.env[f])) \in Reading(f, input.env[f])
            BY <2>1, <3>1 DEF The, EnvSets
        <5>2. The(Reading(f, input.env[f])) \in TypeOf(f)
            BY <4>1, <5>1, ReadingTyped
        <5> QED
            BY <3>1, <4>3, <5>2 DEF FromEnv, EnvValue
      <4> QED
          BY <4>2, <4>3
    <3>2. CASE ~EnvSets(f)
        BY <2>1, <3>2 DEF FromEnv, Typed
    <3> QED
        BY <3>1, <3>2
  <2> QED
      BY <2>1, <2>2, BehindIs DEF Inv, Typed
<1> QED
    BY <1>1, <1>2

LEMMA FlagStep ==
    ASSUME Inv, parseSetting \/ parseConfig \/ parseBool
    PROVE  Inv'
<1>1. CASE Fail
    BY <1>1, Exits DEF Fail
<1>2. CASE ~Fail
  <2>1. pc = "flags" /\ rest \in Seq(Token) /\ rest # <<>> /\ Typed(cfg) /\ input \in Inputs
      BY DEF Inv, parseSetting, parseConfig, parseBool, AtOption
  <2>2. /\ ValueOf(rest[1]) \in SUBSET (Token \cup TokensWith({{}}))
        /\ Left(rest[1]) \in Seq(Token)
        /\ Tail(rest) \in Seq(Token)
      BY <2>1, ValueTyped
  <2>3. input' = input /\ pc' = "flags" /\ rest' \in Seq(Token)
      BY <1>2, <2>1, <2>2 DEF parseSetting, parseConfig, parseBool
  <2>4. Typed(cfg')
    <3>1. CASE parseSetting
      <4> DEFINE f == rest[1].name
                 read == UNION {Reading(f, token) : token \in ValueOf(rest[1])}
      <4>1. f \in Settings /\ read # {} /\ cfg' = [cfg EXCEPT ![f] = The(read)]
          BY <1>2, <3>1 DEF parseSetting
      <4>2. The(read) \in TypeOf(f)
          BY <2>2, <4>1, ReadingMember
      <4> QED
          BY <2>1, <4>1, <4>2 DEF Typed
    <3>2. CASE parseConfig
        BY <1>2, <2>1, <3>2 DEF parseConfig
    <3>3. CASE parseBool
      <4> DEFINE f == rest[1].name
                 read == IF rest[1].inline = {} THEN {TRUE} ELSE The(rest[1].inline).bools
      <4>1. CASE f = "version"
          BY <1>2, <2>1, <3>3, <4>1 DEF parseBool
      <4>2. CASE f # "version"
        <5>1. f \in Bools /\ read # {} /\ cfg' = [cfg EXCEPT ![f] = The(read)]
            BY <1>2, <3>3, <4>2 DEF parseBool, IsBool
        <5>2. read \subseteq BOOLEAN
          <6>1. rest[1].inline \subseteq TokensWith({{}})
            <7>1. rest[1] \in Token
                BY <2>1
            <7> QED
                BY <7>1 DEF Token, TokensWith
          <6>2. rest[1].inline # {} => The(rest[1].inline) \in TokensWith({{}})
              BY <6>1 DEF The
          <6> QED
              BY <6>2 DEF TokensWith
        <5>3. The(read) \in BOOLEAN
            BY <5>1, <5>2 DEF The
        <5>4. The(read) \in TypeOf(f)
            BY <5>1, <5>3, TypeFacts
        <5> HIDE DEF read
        <5> QED
            BY <2>1, <5>1, <5>4 DEF Typed
      <4> QED
          BY <4>1, <4>2
    <3> QED
        BY <3>1, <3>2, <3>3
  <2> QED
      BY <2>3, <2>4 DEF Inv, Typed
<1> QED
    BY <1>1, <1>2

LEMMA Inductive == Init /\ [][Next]_vars => []Inv
<1>1. Init => Inv
    BY DEF Init, Inv
<1>2. Inv /\ [Next]_vars => Inv'
  <2> SUFFICES ASSUME Inv, [Next]_vars PROVE Inv'
      OBVIOUS
  <2>1. CASE scanConfigPath
    <3>1. CASE Fail
        BY <3>1, Exits DEF Fail
    <3>2. CASE ~Fail
        BY <2>1, <3>2 DEF scanConfigPath, Inv
    <3> QED
        BY <3>1, <3>2
  <2>2. CASE loadFromFile
      BY <2>2, FileStep
  <2>3. CASE applyEnv
      BY <2>3, EnvStep
  <2>4. CASE parseSetting \/ parseConfig \/ parseBool
      BY <2>4, FlagStep
  <2>5. CASE endOfFlags
      BY <2>5 DEF endOfFlags, AtEnd, Inv, Typed
  <2>6. CASE Validate
    <3>1. CASE Fail
        BY <3>1, Exits DEF Fail
    <3>2. CASE ~Fail
      <4>1. /\ Valid(Normalised(cfg)) /\ cfg' = Normalised(cfg)
            /\ pc = "validate" /\ pc' = "loaded" /\ input' = input
          BY <2>6, <3>2 DEF Validate
      <4>2. Usable(cfg')
          BY <4>1, ValidIsUsable DEF Inv
      <4> QED
          BY <4>1, <4>2 DEF Inv
    <3> QED
        BY <3>1, <3>2
  <2>7. CASE parseUnknown \/ ShowVersion \/ Run
      BY <2>7, Exits DEF parseUnknown, ShowVersion, Run
  <2>8. CASE NewRendererFromConfig
      BY <2>8 DEF NewRendererFromConfig, Inv, Usable
  <2>9. CASE UNCHANGED vars
      BY <2>9 DEF vars, Inv, Typed, Usable
  <2> QED
      BY <2>1, <2>2, <2>3, <2>4, <2>5, <2>6, <2>7, <2>8, <2>9 DEF Next
<1> QED
    BY <1>1, <1>2, PTL

\* Whatever the program is started with, and whatever the files hold: if it runs, the
\* delays and limits fit each other, and names and addresses that are used are not
\* blank (config.go:118).
THEOREM Usability == Spec => []LoadedIsUsable
<1>1. Inv => LoadedIsUsable
    BY DEF Inv, LoadedIsUsable
<1> QED
    BY <1>1, Inductive, PTL DEF Spec

--------------------------------------------------------------------------------
(* What the flag package has before it *)

\* In front of the option number k the arguments begin with it.
LEMMA OptionRead ==
    ASSUME input \in Inputs, NEW k \in 1..Len(input.options), rest = Behind(input, k - 1),
           NEW option, option = input.options[k]
    PROVE  /\ rest # <<>> /\ rest[1] = HeadOf(option)
           /\ rest[1].name = option.name
           /\ option.style = "inline" => rest[1].inline = {option.value}
           /\ option.style # "inline" => rest[1].inline = {}
           /\ option.style \in {"inline", "apart"} =>
                 ValueOf(rest[1]) = {option.value} /\ Left(rest[1]) = Behind(input, k)
           /\ option.style # "apart" => Tail(rest) = Behind(input, k)
<1>1. IsOption(option)
    BY InputIs
<1> DEFINE w == Written(option)
           b == Behind(input, k)
<1>2. rest = w \o b /\ w \in Seq(Token) /\ b \in Seq(Token)
  <2>1. k \in 0..Len(input.options)
      BY InputIs
  <2> QED
      BY <1>1, <2>1, BehindIs, WrittenIs, Divided
<1>3. /\ option.style = "apart" => Len(w) = 2 /\ w[1] = HeadOf(option) /\ w[2] = option.value
      /\ option.style # "apart" => Len(w) = 1 /\ w[1] = HeadOf(option)
  <2>1. /\ option.style = "apart" => w = <<HeadOf(option), option.value>>
        /\ option.style # "apart" => w = <<HeadOf(option)>>
      BY <1>1, WrittenIs
  <2> QED
      BY <2>1
<1> HIDE DEF w, b
<1>4. /\ rest \in Seq(Token) /\ Len(rest) = Len(w) + Len(b) /\ Len(b) \in Nat
      /\ \A i \in 1..Len(w) : rest[i] = w[i]
  <2>1. /\ w \o b \in Seq(Token) /\ Len(w \o b) = Len(w) + Len(b) /\ Len(b) \in Nat
        /\ Len(w) \in Nat /\ \A i \in 1..Len(w) : (w \o b)[i] = w[i]
      BY <1>2
  <2> QED
      BY <1>2, <2>1
<1>5. rest # <<>> /\ rest[1] = HeadOf(option)
    BY <1>3, <1>4
<1>6. /\ rest[1].name = option.name
      /\ option.style = "inline" => rest[1].inline = {option.value}
      /\ option.style # "inline" => rest[1].inline = {}
    BY <1>5 DEF HeadOf
<1>7. option.style # "apart" => SubSeq(rest, 2, Len(rest)) = b
  <2>1. ASSUME Len(w) = 1 PROVE SubSeq(rest, 2, Len(rest)) = b
    <3>1. 2 \in Nat /\ 2 = Len(w) + 1
        BY <2>1
    <3> QED
        BY <1>2, <3>1, CutOff
  <2> QED
      BY <1>3, <2>1
<1>8. option.style = "apart" => SubSeq(rest, 3, Len(rest)) = b /\ Len(rest) > 1
                                /\ rest[2] = option.value
  <2>1. ASSUME Len(w) = 2 PROVE SubSeq(rest, 3, Len(rest)) = b
    <3>1. 3 \in Nat /\ 3 = Len(w) + 1
        BY <2>1
    <3> QED
        BY <1>2, <3>1, CutOff
  <2> QED
      BY <1>3, <1>4, <2>1
<1>9. option.style = "inline" =>
         ValueOf(rest[1]) = {option.value} /\ Left(rest[1]) = b
    BY <1>6, <1>7 DEF ValueOf, Left
<1>10. option.style = "apart" =>
         ValueOf(rest[1]) = {option.value} /\ Left(rest[1]) = b
    BY <1>6, <1>8 DEF ValueOf, Left
<1>11. option.style # "apart" => Tail(rest) = b
    BY <1>4, <1>5, <1>7, TailIsSubSeq
<1> QED
    BY <1>5, <1>6, <1>9, <1>10, <1>11 DEF b

\* Behind the options there is none that can be read.
LEMMA NothingRead ==
    ASSUME input \in Inputs, rest = Behind(input, Len(input.options)), AtOption
    PROVE  /\ 1 \in DOMAIN input.further /\ rest[1] = input.further[1]
           /\ rest[1].inline = {} /\ ValueOf(rest[1]) = {} /\ ~IsBool(rest[1].name)
<1>1. rest = input.further /\ rest \in Seq(Token)
    BY BehindIs, InputIs
<1>2. rest # <<>> /\ rest[1].name # ""
    BY DEF AtOption
<1>3. Len(rest) = 1 /\ rest[1].inline = {} /\ ~IsBool(rest[1].name)
  <2>1. IsInput(input)
      BY ConfigAssumption
  <2> QED
      BY <1>1, <1>2, <2>1 DEF IsInput
<1>4. ValueOf(rest[1]) = {}
    BY <1>3 DEF ValueOf
<1> QED
    BY <1>1, <1>3, <1>4

--------------------------------------------------------------------------------
(* The layers *)

Said(f, k) == Given(f) \cap (1..k)

\* A setting as the first k options leave it.
Merged(k, f) ==
    IF Said(f, k) = {} THEN IF EnvSets(f) THEN EnvValue(f) ELSE FromFile(path, f)
    ELSE LET option == input.options[Max(Said(f, k))]
         IN  The(IF option.style = "bare" THEN {TRUE} ELSE Reading(f, option.value))

\* What the first k options leave as the name of the file.
NamedBy(k) ==
    IF Naming \cap (1..k) = {} THEN path
    ELSE input.options[Max(Naming \cap (1..k))].value.text

\* What scanConfigPath takes for the name of the file.
Scanned ==
    LET i == Min(ConfigTokens)
    IN  IF ConfigTokens = {} THEN <<>>
        ELSE IF args[i].inline # {} THEN Trim(The(args[i].inline).text)
        ELSE Trim(args[i + 1].text)

LEMMA Latest ==
    ASSUME NEW k \in Nat \ {0}, NEW S
    PROVE  /\ k \in S => S \cap (1..k) # {} /\ Max(S \cap (1..k)) = k
           /\ k \notin S => S \cap (1..k) = S \cap (1..(k - 1))
<1>1. ASSUME k \in S PROVE S \cap (1..k) # {} /\ Max(S \cap (1..k)) = k
  <2>1. k \in S \cap (1..k) /\ \A l \in S \cap (1..k) : k >= l /\ (l >= k => l = k)
      BY <1>1
  <2> QED
      BY <2>1 DEF Max
<1>2. ASSUME k \notin S PROVE S \cap (1..k) = S \cap (1..(k - 1))
    BY <1>2
<1> QED
    BY <1>1, <1>2

\* The option number k sets what it is for and nothing else.
LEMMA MergedNext ==
    ASSUME input \in Inputs, NEW k \in 1..Len(input.options), NEW f,
           NEW option, option = input.options[k]
    PROVE  /\ option.name # f => Merged(k, f) = Merged(k - 1, f)
           /\ option.name = f =>
                 Merged(k, f) = The(IF option.style = "bare" THEN {TRUE}
                                    ELSE Reading(f, option.value))
<1>1. k \in Nat \ {0} /\ (k \in Given(f) <=> option.name = f)
    BY InputIs DEF Given
<1>2. option.name # f => Said(f, k) = Said(f, k - 1)
    BY <1>1, Latest DEF Said
<1>3. option.name = f => Said(f, k) # {} /\ Max(Said(f, k)) = k
    BY <1>1, Latest DEF Said
<1> QED
    BY <1>2, <1>3 DEF Merged

LEMMA NamedNext ==
    ASSUME input \in Inputs, NEW k \in 1..Len(input.options),
           NEW option, option = input.options[k]
    PROVE  /\ option.name \notin {"config", "c"} => NamedBy(k) = NamedBy(k - 1)
           /\ option.name \in {"config", "c"} => NamedBy(k) = option.value.text
<1>1. k \in Nat \ {0} /\ (k \in Naming <=> option.name \in {"config", "c"})
    BY InputIs DEF Naming
<1>2. /\ k \in Naming => Naming \cap (1..k) # {} /\ Max(Naming \cap (1..k)) = k
      /\ k \notin Naming => Naming \cap (1..k) = Naming \cap (1..(k - 1))
    BY <1>1, Latest
<1> QED
    BY <1>1, <1>2 DEF NamedBy

LEMMA MergedAtEnds ==
    ASSUME input \in Inputs
    PROVE  /\ \A f : Merged(0, f) = IF EnvSets(f) THEN EnvValue(f) ELSE FromFile(path, f)
           /\ \A f : Merged(Len(input.options), f) = Expected(f)
           /\ NamedBy(0) = path
<1>1. 1..0 = {}
    OBVIOUS
<1>2. \A f : Said(f, 0) = {}
    BY <1>1 DEF Said
<1>3. \A f : Said(f, Len(input.options)) = Given(f)
    BY InputIs DEF Said, Given
<1>4. \A f : Merged(0, f) = IF EnvSets(f) THEN EnvValue(f) ELSE FromFile(path, f)
    BY <1>2 DEF Merged
<1>5. \A f : Merged(Len(input.options), f) = Expected(f)
    BY <1>3 DEF Merged, Expected, Flag
<1>6. NamedBy(0) = path
    BY <1>1 DEF NamedBy
<1> QED
    BY <1>4, <1>5, <1>6

\* All of this depends on the input and the file only.
LEMMA Fixed ==
    ASSUME input' = input, path' = path
    PROVE  /\ \A k, f : Merged(k, f)' = Merged(k, f)
           /\ \A k : NamedBy(k)' = NamedBy(k)
           /\ \A f : Expected(f)' = Expected(f)
           /\ IsFlawed' <=> IsFlawed
           /\ input' = input /\ path' = path
<1>1. \A f : EnvSets(f)' = EnvSets(f) /\ EnvValue(f)' = EnvValue(f)
             /\ FromFile(path, f)' = FromFile(path, f)
    BY DEF EnvSets, EnvValue, FromFile
<1>2. \A f : Given(f)' = Given(f) /\ Flag(f)' = Flag(f)
    BY DEF Given, Flag
<1>3. \A f : Expected(f)' = Expected(f)
    BY <1>1, <1>2 DEF Expected
<1>4. \A k, f : Said(f, k)' = Said(f, k)
    BY <1>2 DEF Said
<1>5. \A k, f : Merged(k, f)' = Merged(k, f)
    BY <1>1, <1>4 DEF Merged
<1>6. \A k : NamedBy(k)' = NamedBy(k)
    BY DEF NamedBy, Naming
<1>7. IsFlawed' <=> IsFlawed
    BY <1>3 DEF IsFlawed
<1> QED
    BY <1>3, <1>5, <1>6, <1>7

--------------------------------------------------------------------------------
(* Where scanConfigPath looks *)

\* No argument of the first k options reads like -config.
LEMMA NoneNames ==
    ASSUME NEW i \in Inputs, NEW n \in 0..Len(i.options),
           \A m \in 1..n : /\ i.options[m].name \notin {"config", "c"}
                           /\ ~NamesFile(i.options[m].value)
    PROVE  \A p \in 1..Len(Before(i, n)) : ~NamesFile(Before(i, n)[p])
<1> DEFINE T == {k \in 0..n : \E p \in 1..Len(Before(i, k)) : NamesFile(Before(i, k)[p])}
<1>1. SUFFICES ASSUME T # {} PROVE FALSE
  <2>1. n \in 0..n
      BY InputIs
  <2> QED
      BY <2>1
<1>2. Len(i.options) \in Nat /\ n \in Nat
    BY InputIs
<1>3. PICK k \in T : \A l \in T : k <= l
  <2>1. T \in SUBSET Nat
      BY <1>2
  <2> QED
      BY <1>1, <2>1, Least
<1>4. PICK p \in 1..Len(Before(i, k)) : NamesFile(Before(i, k)[p])
    OBVIOUS
<1>5. CASE k = 0
    BY <1>4, <1>5, NoneBefore
<1>6. CASE k # 0
  <2> DEFINE a == Before(i, k - 1)
             option == i.options[k]
             w == Written(option)
  <2>1. /\ k \in 1..Len(i.options) /\ k - 1 \in 0..Len(i.options) /\ ~(k <= k - 1)
        /\ k - 1 \in 0..n /\ k \in 1..n
      BY <1>2, <1>6
  <2>2. a \in Seq(Token) /\ w \in Seq(Token) /\ Before(i, k) = a \o w
      BY <2>1, BeforeTyped, BeforeGrows, InputIs, WrittenIs
  <2>3. \A q \in 1..Len(a) : ~NamesFile(a[q])
      BY <1>3, <2>1
  <2>4. \A q \in 1..Len(w) : ~NamesFile(w[q])
    <3>1. ~NamesFile(HeadOf(option)) /\ ~NamesFile(option.value)
      <4>1. HeadOf(option).name = option.name
          BY DEF HeadOf
      <4>2. option.name \notin {"config", "c"} /\ ~NamesFile(option.value)
          BY <2>1
      <4> QED
          BY <4>1, <4>2 DEF NamesFile
    <3>2. \/ w = <<HeadOf(option), option.value>>
          \/ w = <<HeadOf(option)>>
        BY <2>1, InputIs, WrittenIs
    <3> HIDE DEF w
    <3>3. \A q \in 1..Len(w) : w[q] = HeadOf(option) \/ w[q] = option.value
        BY <3>2
    <3> QED
        BY <3>1, <3>3
  <2> HIDE DEF a, w
  <2>5. /\ Len(a) \in Nat /\ Len(w) \in Nat /\ p \in 1..(Len(a) + Len(w))
        /\ \A q \in 1..Len(a) : Before(i, k)[q] = a[q]
        /\ \A q \in 1..Len(w) : Before(i, k)[Len(a) + q] = w[q]
    <3>1. /\ Len(a) \in Nat /\ Len(w) \in Nat /\ Len(a \o w) = Len(a) + Len(w)
          /\ \A q \in 1..Len(a) : (a \o w)[q] = a[q]
          /\ \A q \in 1..Len(w) : (a \o w)[Len(a) + q] = w[q]
        BY <2>2
    <3> QED
        BY <2>2, <3>1
  <2>6. CASE p <= Len(a)
    <3>1. p \in 1..Len(a)
        BY <2>5, <2>6
    <3> QED
        BY <1>4, <2>3, <2>5, <3>1
  <2>7. CASE ~(p <= Len(a))
    <3>1. p - Len(a) \in 1..Len(w) /\ Len(a) + (p - Len(a)) = p
        BY <2>5, <2>7
    <3> QED
        BY <1>4, <2>4, <2>5, <3>1
  <2> QED
      BY <2>6, <2>7
<1> QED
    BY <1>5, <1>6

\* With one option for the file and nothing else that reads like one, it is found.
LEMMA ScannedIs ==
    ASSUME input \in Inputs, Cardinality(Naming) <= 1,
           \A i \in Naming : input.options[i].name = "c" => input.options[i].dashes = 1,
           \A i \in DOMAIN input.options \ Naming : ~NamesFile(input.options[i].value),
           \A i \in DOMAIN input.further : ~NamesFile(input.further[i])
    PROVE  /\ Naming = {} => Scanned = <<>>
           /\ \A j \in Naming : /\ Naming = {j} /\ Scanned = Trim(input.options[j].value.text)
                               /\ input.options[j].value.text \in Characters
<1> DEFINE n == Len(input.options)
<1>1. /\ n \in Nat /\ DOMAIN input.options = 1..n /\ Naming \subseteq 1..n
      /\ input.further \in Seq(Token) /\ args \in Seq(Token)
    BY InputIs, BehindIs DEF Naming, args
<1>2. ASSUME Naming = {} PROVE Scanned = <<>>
  <2> DEFINE a == Before(input, n)
  <2>1. \A m \in 1..n : /\ input.options[m].name \notin {"config", "c"}
                        /\ ~NamesFile(input.options[m].value)
      BY <1>1, <1>2 DEF Naming
  <2>2. n \in 0..Len(input.options)
      BY <1>1
  <2>3. \A p \in 1..Len(a) : ~NamesFile(a[p])
      BY <2>1, <2>2, NoneNames
  <2>4. a \in Seq(Token) /\ args = a \o input.further
      BY <1>1, <2>2, BeforeTyped, Divided, BehindIs DEF args
  <2> HIDE DEF a
  <2>5. ASSUME NEW p \in DOMAIN args PROVE ~NamesFile(args[p])
    <3>1. /\ Len(a) \in Nat /\ Len(input.further) \in Nat
          /\ p \in 1..(Len(a) + Len(input.further))
          /\ DOMAIN input.further = 1..Len(input.further)
          /\ \A q \in 1..Len(a) : args[q] = a[q]
          /\ \A q \in 1..Len(input.further) : args[Len(a) + q] = input.further[q]
        BY <1>1, <2>4
    <3>2. CASE p <= Len(a)
      <4>1. p \in 1..Len(a)
          BY <3>1, <3>2
      <4> QED
          BY <2>3, <3>1, <4>1
    <3>3. CASE ~(p <= Len(a))
      <4>1. p - Len(a) \in 1..Len(input.further) /\ Len(a) + (p - Len(a)) = p
          BY <3>1, <3>3
      <4> QED
          BY <3>1, <4>1
    <3> QED
        BY <3>2, <3>3
  <2>6. ConfigTokens = {}
      BY <2>5 DEF ConfigTokens
  <2> QED
      BY <2>6 DEF Scanned
<1>3. ASSUME NEW j \in Naming
      PROVE  /\ Naming = {j} /\ Scanned = Trim(input.options[j].value.text)
             /\ input.options[j].value.text \in Characters
  <2> DEFINE option == input.options[j]
             a == Before(input, j - 1)
             b == Behind(input, j - 1)
             p == Len(a) + 1
  <2>1. Naming = {j}
    <3>1. ASSUME NEW l \in Naming, l # j PROVE FALSE
      <4>1. IsFiniteSet(Naming)
        <5>1. IsFiniteSet(1..n)
            BY <1>1, FS_Interval
        <5> QED
            BY <1>1, <5>1, FS_Subset
      <4>2. {l, j} \subseteq Naming /\ Cardinality({l, j}) = 2
        <5>1. IsFiniteSet({j}) /\ Cardinality({j}) = 1
            BY FS_Singleton
        <5>2. Cardinality({j} \cup {l}) = Cardinality({j}) + 1
            BY <3>1, <5>1, FS_AddElement
        <5>3. {j} \cup {l} = {l, j}
            OBVIOUS
        <5> QED
            BY <5>1, <5>2, <5>3
      <4>3. 2 <= Cardinality(Naming) /\ Cardinality(Naming) \in Nat
        <5>1. Cardinality({l, j}) <= Cardinality(Naming) /\ Cardinality(Naming) \in Nat
            BY <4>1, <4>2, FS_Subset, FS_CardinalityType
        <5> QED
            BY <4>2, <5>1
      <4> QED
          BY <4>3
    <3> QED
        BY <3>1
  <2>2. /\ j \in 1..n /\ j - 1 \in 0..n /\ j \in 0..n /\ option.name \in {"config", "c"}
        /\ option.name = "c" => option.dashes = 1
      BY <1>1 DEF Naming
  <2>3. IsOption(option) /\ option.style \in {"inline", "apart"}
        /\ option.value.text \in Characters
    <3>1. IsOption(option)
        BY <2>2, InputIs
    <3>2. option.style \in {"inline", "apart"}
        BY <2>2, <3>1 DEF IsOption, NeedsValue
    <3>3. option.value \in Token \cup TokensWith({{}})
        BY <3>1, <3>2 DEF IsOption
    <3>4. option.value.text \in Characters
        BY <3>3 DEF Token, TokensWith
    <3> QED
        BY <3>1, <3>2, <3>4
  <2>4. \A q \in 1..Len(a) : ~NamesFile(a[q])
    <3>1. \A m \in 1..(j - 1) : m \in DOMAIN input.options \ Naming
        BY <1>1, <2>1, <2>2
    <3>2. \A m \in 1..(j - 1) : /\ input.options[m].name \notin {"config", "c"}
                                /\ ~NamesFile(input.options[m].value)
        BY <3>1 DEF Naming
    <3> QED
        BY <2>2, <3>2, NoneNames
  <2>5. a \in Seq(Token) /\ b \in Seq(Token) /\ args = a \o b
      BY <2>2, BeforeTyped, Divided DEF args
  <2>6. /\ b # <<>> /\ b[1] = HeadOf(option)
        /\ option.style = "apart" => Len(b) > 1 /\ b[2] = option.value
    <3> DEFINE w == Written(option)
               c == Behind(input, j)
    <3>1. b = w \o c /\ w \in Seq(Token) /\ c \in Seq(Token)
        BY <2>2, <2>3, BehindIs, WrittenIs, Divided
    <3>2. /\ option.style = "apart" => w = <<HeadOf(option), option.value>>
          /\ option.style # "apart" => w = <<HeadOf(option)>>
        BY <2>3, WrittenIs
    <3>3. /\ option.style = "apart" =>
                Len(w) = 2 /\ w[1] = HeadOf(option) /\ w[2] = option.value
          /\ option.style # "apart" => Len(w) = 1 /\ w[1] = HeadOf(option)
        BY <3>2
    <3> HIDE DEF w, c, b
    <3>4. /\ w \o c \in Seq(Token) /\ Len(w \o c) = Len(w) + Len(c) /\ Len(c) \in Nat
          /\ \A i \in 1..Len(w) : (w \o c)[i] = w[i]
        BY <3>1
    <3> QED
        BY <3>1, <3>3, <3>4
  <2> HIDE DEF a, b
  <2>7. /\ Len(a) \in Nat /\ Len(b) \in Nat /\ Len(b) >= 1 /\ Len(args) = Len(a) + Len(b)
        /\ DOMAIN args = 1..(Len(a) + Len(b))
        /\ \A q \in 1..Len(a) : args[q] = a[q]
        /\ \A q \in 1..Len(b) : args[Len(a) + q] = b[q]
    <3>1. /\ a \o b \in Seq(Token) /\ Len(a) \in Nat /\ Len(b) \in Nat
          /\ Len(a \o b) = Len(a) + Len(b) /\ DOMAIN (a \o b) = 1..(Len(a) + Len(b))
          /\ \A q \in 1..Len(a) : (a \o b)[q] = a[q]
          /\ \A q \in 1..Len(b) : (a \o b)[Len(a) + q] = b[q]
        BY <2>5
    <3>2. Len(b) >= 1
        BY <2>5, <2>6
    <3> QED
        BY <2>5, <3>1, <3>2
  <2>8. /\ p \in DOMAIN args /\ args[p] = HeadOf(option)
        /\ option.style = "apart" => args[p + 1] = option.value
    <3>1. p \in 1..(Len(a) + Len(b)) /\ 1 \in 1..Len(b)
        BY <2>7
    <3>2. args[p] = b[1]
        BY <2>7, <3>1
    <3>3. ASSUME Len(b) > 1 PROVE args[p + 1] = b[2]
      <4>1. 2 \in 1..Len(b) /\ p + 1 = Len(a) + 2
          BY <2>7, <3>3
      <4> QED
          BY <2>7, <4>1
    <3> QED
        BY <2>6, <2>7, <3>1, <3>2, <3>3
  <2>9. NamesFile(args[p])
    <3>1. HeadOf(option).name = option.name /\ HeadOf(option).dashes = option.dashes
        BY DEF HeadOf
    <3> QED
        BY <2>2, <2>8, <3>1 DEF NamesFile
  <2>10. ConfigTokens # {} /\ Min(ConfigTokens) = p
    <3>1. p \in ConfigTokens
        BY <2>8, <2>9 DEF ConfigTokens
    <3>2. ASSUME NEW q \in ConfigTokens PROVE p <= q /\ (q <= p => q = p)
      <4>1. q \in DOMAIN args /\ NamesFile(args[q])
          BY DEF ConfigTokens
      <4>2. q \notin 1..Len(a)
          BY <2>4, <2>7, <4>1
      <4> QED
          BY <2>7, <4>1, <4>2
    <3> HIDE DEF p
    <3> QED
        BY <3>1, <3>2 DEF Min
  <2>11. Scanned = Trim(option.value.text)
    <3>1. /\ option.style = "inline" => args[p].inline = {option.value}
          /\ option.style = "apart" => args[p].inline = {}
        BY <2>8 DEF HeadOf
    <3>2. The({option.value}) = option.value
        BY DEF The
    <3>3. Scanned = IF args[p].inline # {} THEN Trim(The(args[p].inline).text)
                    ELSE Trim(args[p + 1].text)
        BY <2>10 DEF Scanned
    <3> HIDE DEF p
    <3> QED
        BY <2>3, <2>8, <3>1, <3>2, <3>3
  <2> QED
      BY <2>1, <2>3, <2>11
<1> QED
    BY <1>2, <1>3

--------------------------------------------------------------------------------
(* Failures have a cause *)

LEMMA ScanFails ==
    ASSUME input \in Inputs, NEW p, p \in ConfigTokens, args[p].inline = {}, p = Len(args)
    PROVE  IsFlawed
<1> DEFINE n == Len(input.options)
           token == args[p]
<1>1. /\ n \in Nat /\ DOMAIN input.options = 1..n /\ input.further \in Seq(Token)
      /\ args \in Seq(Token) /\ n \in 0..n
    BY InputIs, BehindIs DEF args
<1>2. p \in DOMAIN args /\ NamesFile(token) /\ token.name \in {"config", "c"}
    BY DEF ConfigTokens, NamesFile
<1>3. CASE input.further # <<>>
  <2> DEFINE m == Len(input.further)
  <2>1. m \in DOMAIN input.further /\ token = input.further[m]
    <3> DEFINE a == Before(input, n)
    <3>1. a \in Seq(Token) /\ args = a \o input.further
        BY <1>1, BeforeTyped, Divided, BehindIs DEF args
    <3> HIDE DEF a
    <3>2. /\ m \in Nat /\ m # 0 /\ Len(args) = Len(a) + m
          /\ args[Len(a) + m] = input.further[m]
      <4>1. m \in 1..m /\ m \in Nat
          BY <1>1, <1>3
      <4>2. /\ Len(a \o input.further) = Len(a) + m
            /\ \A q \in 1..m : (a \o input.further)[Len(a) + q] = input.further[q]
          BY <1>1, <3>1
      <4> QED
          BY <3>1, <4>1, <4>2
    <3> QED
        BY <1>1, <3>2
  <2>2. input.further[m].name # "" /\ input.further[m].inline = {}
      BY <1>2, <2>1
  <2> QED
      BY <2>1, <2>2 DEF IsFlawed
<1>4. CASE input.further = <<>>
  <2> DEFINE a == Before(input, n - 1)
             option == input.options[n]
             w == Written(option)
  <2>1. n # 0
    <3>1. ASSUME n = 0 PROVE FALSE
      <4>1. args = <<>>
          BY <1>4, <3>1, BehindIs DEF args
      <4> QED
          BY <1>2, <4>1
    <3> QED
        BY <3>1
  <2>2. n \in 1..n /\ n - 1 \in 0..n
      BY <1>1, <2>1
  <2>3. IsOption(option) /\ w \in Seq(Token) /\ a \in Seq(Token) /\ args = a \o w
    <3>1. IsOption(option)
        BY <2>2, InputIs
    <3>2. Behind(input, n - 1) = w \o <<>>
        BY <1>4, <2>2, BehindIs
    <3>3. w \in Seq(Token) /\ a \in Seq(Token)
        BY <2>2, <3>1, WrittenIs, BeforeTyped
    <3>4. Behind(input, n - 1) = w
        BY <3>2, <3>3, ConcatEmptySeq
    <3> QED
        BY <2>2, <3>1, <3>3, <3>4, Divided DEF args
  <2>4. /\ option.style = "apart" => w = <<HeadOf(option), option.value>>
        /\ option.style # "apart" => w = <<HeadOf(option)>>
      BY <2>3, WrittenIs
  <2> HIDE DEF a, w
  <2>5. /\ option.style = "apart" => token = option.value
        /\ option.style # "apart" => token = HeadOf(option)
    <3>1. /\ option.style = "apart" => Len(w) = 2 /\ w[2] = option.value
          /\ option.style # "apart" => Len(w) = 1 /\ w[1] = HeadOf(option)
        BY <2>4
    <3>2. token = w[Len(w)]
      <4>1. /\ Len(a) \in Nat /\ Len(w) \in Nat /\ Len(a \o w) = Len(a) + Len(w)
            /\ \A q \in 1..Len(w) : (a \o w)[Len(a) + q] = w[q]
          BY <2>3
      <4>2. Len(w) \in 1..Len(w)
          BY <3>1, <4>1
      <4> QED
          BY <2>3, <4>1, <4>2
    <3> QED
        BY <3>1, <3>2
  <2>6. CASE option.style = "apart"
    <3>1. NamesFile(option.value) /\ n \in DOMAIN input.options
        BY <1>1, <1>2, <2>2, <2>5, <2>6
    <3> QED
        BY <3>1 DEF IsFlawed
  <2>7. CASE option.style # "apart"
    <3>1. HeadOf(option).name = option.name
          /\ (option.style = "inline" => HeadOf(option).inline = {option.value})
        BY DEF HeadOf
    <3>2. option.style = "bare" /\ NeedsValue(option.name)
      <4>1. option.style # "inline"
          BY <2>5, <2>7, <3>1
      <4>2. option.name \in {"config", "c"}
          BY <1>2, <2>5, <2>7, <3>1
      <4> QED
          BY <2>3, <2>7, <4>1, <4>2 DEF IsOption, NeedsValue
    <3> QED
        BY <2>3, <3>2 DEF IsOption
  <2> QED
      BY <2>6, <2>7
<1> QED
    BY <1>3, <1>4

\* Whatever stops the flag package is wrong with the input.
LEMMA FlagFails ==
    ASSUME input \in Inputs, NEW k \in 0..Len(input.options), rest = Behind(input, k),
           status' = 2, parseSetting \/ parseConfig \/ parseBool \/ parseUnknown,
           pc' = "exited"
    PROVE  IsFlawed
<1> DEFINE n == Len(input.options)
<1>1. n \in Nat /\ DOMAIN input.options = 1..n
    BY InputIs
<1>2. AtOption
    BY DEF parseSetting, parseConfig, parseBool, parseUnknown
<1>3. CASE k = n
  <2>1. 1 \in DOMAIN input.further /\ rest[1] = input.further[1] /\ rest[1].inline = {}
      BY <1>2, <1>3, NothingRead
  <2>2. rest[1].name # ""
      BY <1>2 DEF AtOption
  <2> QED
      BY <2>1, <2>2 DEF IsFlawed
<1>4. CASE k # n
  <2> DEFINE l == k + 1
             option == input.options[l]
  <2>1. l \in 1..n /\ l - 1 = k /\ l \in DOMAIN input.options
      BY <1>1, <1>4
  <2>2. IsOption(option)
      BY <2>1, InputIs
  <2>3. /\ rest[1].name = option.name
        /\ option.style = "inline" => rest[1].inline = {option.value}
        /\ option.style # "inline" => rest[1].inline = {}
        /\ option.style \in {"inline", "apart"} => ValueOf(rest[1]) = {option.value}
      BY <2>1, OptionRead
  <2> HIDE DEF l
  <2>4. CASE parseSetting
    <3> DEFINE f == rest[1].name
               read == UNION {Reading(f, token) : token \in ValueOf(rest[1])}
    <3>1. f = option.name /\ f \in Settings \ Bools
        BY <2>3, <2>4 DEF parseSetting
    <3>2. option.style \in {"inline", "apart"}
        BY <2>2, <3>1 DEF IsOption, NeedsValue
    <3>3. read = Reading(f, option.value)
        BY <2>3, <3>2
    <3>4. read = {}
      <4>1. pc = "flags" /\ (read = {} \/ UNCHANGED pc)
          BY <2>4 DEF parseSetting, AtOption
      <4> QED
          BY <4>1
    <3> QED
        BY <2>1, <3>1, <3>2, <3>3, <3>4 DEF IsFlawed
  <2>5. CASE parseConfig
    <3>1. option.name \in {"config", "c"}
        BY <2>3, <2>5 DEF parseConfig
    <3>2. option.style \in {"inline", "apart"}
        BY <2>2, <3>1 DEF IsOption, NeedsValue
    <3>3. ValueOf(rest[1]) # {}
        BY <2>3, <3>2
    <3>4. pc = "flags" /\ UNCHANGED pc
        BY <2>5, <3>3 DEF parseConfig, AtOption
    <3> QED
        BY <3>4
  <2>6. CASE parseBool
    <3> DEFINE read == IF rest[1].inline = {} THEN {TRUE} ELSE The(rest[1].inline).bools
    <3>1. IsBool(option.name)
        BY <2>3, <2>6 DEF parseBool
    <3>2. read = {}
      <4>1. pc = "flags" /\ (read = {} \/ UNCHANGED pc)
          BY <2>6 DEF parseBool, AtOption
      <4> QED
          BY <4>1
    <3>3. option.style = "inline" /\ option.value.bools = {}
      <4>1. The({option.value}) = option.value
          BY DEF The
      <4> QED
          BY <2>3, <3>2, <4>1
    <3>4. CASE option.name = "version"
        BY <2>1, <3>3, <3>4 DEF IsFlawed
    <3>5. CASE option.name # "version"
      <4>1. option.name \in Bools
          BY <3>1, <3>5 DEF IsBool
      <4>2. option.name \in Settings /\ Reading(option.name, option.value) = {}
        <5>1. option.name \in Settings /\ option.name \notin Strings
              /\ option.name \notin Ints \cup Durations
            BY <4>1, TypeFacts DEF Settings
        <5> QED
            BY <3>3, <4>1, <5>1 DEF Reading
      <4> QED
          BY <2>1, <3>3, <4>2 DEF IsFlawed
    <3> QED
        BY <3>4, <3>5
  <2>7. CASE parseUnknown
    <3>1. option.name \notin Settings \cup {"config", "c", "version", "h", "help"}
      <4>1. option.name \notin Settings \cup {"config", "c", "version"}
            /\ 2 = IF option.name \in {"h", "help"} THEN 0 ELSE 2
          BY <2>3, <2>7 DEF parseUnknown
      <4> QED
          BY <4>1
    <3> QED
        BY <2>1, <3>1 DEF IsFlawed
  <2> QED
      BY <2>4, <2>5, <2>6, <2>7
<1> QED
    BY <1>3, <1>4

--------------------------------------------------------------------------------
(* The layers are merged in their order *)

Parsed(k) ==
    /\ rest = Behind(input, k)
    /\ cfg = [f \in Settings |-> Merged(k, f)]
    /\ configPath = NamedBy(k)

\* The flag package has read the first options and holds what the layers up to them
\* make; later the settings are what all layers make.
Layers ==
    /\ pc \in {"file", "env", "flags", "validate", "loaded", "running"} => path = Scanned
    /\ pc = "env" => cfg = [f \in Settings |-> FromFile(path, f)] /\ configPath = path
    /\ pc = "flags" => \E k \in 0..Len(input.options) : Parsed(k)
    /\ pc = "validate" => cfg = [f \in Settings |-> Expected(f)]
    /\ pc \in {"loaded", "running"} => cfg = Normalised([f \in Settings |-> Expected(f)])
    /\ pc \in {"validate", "loaded", "running"} =>
          configPath = Trim(NamedBy(Len(input.options)))
    /\ pc # "exited" => status = -1
    /\ RejectedForCause

LEMMA ScannedFixed ==
    ASSUME input' = input
    PROVE  Scanned' = Scanned
    BY DEF Scanned, ConfigTokens, args

LEMMA FailsForCause ==
    ASSUME input' = input, path' = path, pc' = "exited", status' = 2 => IsFlawed
    PROVE  Layers'
<1>1. IsFlawed' <=> IsFlawed
    BY Fixed
<1> QED
    BY <1>1 DEF Layers, RejectedForCause

LEMMA ScanMerges ==
    ASSUME Inv, Layers, scanConfigPath
    PROVE  Layers'
<1>1. /\ input \in Inputs /\ input' = input /\ pc = "scan" /\ status = -1
      /\ args \in Seq(Token)
    BY BehindIs DEF Inv, Layers, scanConfigPath, Fail, args
<1>2. CASE Fail
  <2> DEFINE p == Min(ConfigTokens)
  <2>1. ConfigTokens # {} /\ args[p].inline = {} /\ p = Len(args)
      BY <1>1, <1>2 DEF scanConfigPath, Fail
  <2>2. p \in ConfigTokens
    <3>1. ConfigTokens \in SUBSET Nat
        BY <1>1 DEF ConfigTokens
    <3>2. \E x \in ConfigTokens : \A y \in ConfigTokens : x <= y
        BY <2>1, <3>1, Least
    <3> QED
        BY <3>2 DEF Min
  <2> HIDE DEF p
  <2>3. IsFlawed
      BY <1>1, <2>1, <2>2, ScanFails
  <2> QED
      BY <1>2, <2>3, FailsForCause DEF Fail
<1>3. CASE ~Fail
  <2>1. path' = Scanned /\ pc' = "file" /\ status' = -1
      BY <1>1, <1>3 DEF scanConfigPath, Scanned
  <2>2. path' = Scanned'
      BY <1>1, <2>1, ScannedFixed
  <2> QED
      BY <2>1, <2>2 DEF Layers, RejectedForCause
<1> QED
    BY <1>2, <1>3

LEMMA FileMerges ==
    ASSUME Layers, loadFromFile
    PROVE  Layers'
<1>1. input' = input /\ path' = path /\ pc = "file" /\ status = -1 /\ path = Scanned
    BY DEF Layers, loadFromFile, Fail
<1>2. CASE Fail
  <2>1. ~IsReadable(path)
      BY <1>1, <1>2 DEF loadFromFile, Fail
  <2>2. IsFlawed
      BY <2>1 DEF IsFlawed
  <2> QED
      BY <1>1, <1>2, <2>2, FailsForCause DEF Fail
<1>3. CASE ~Fail
  <2>1. /\ cfg' = [f \in Settings |-> FromFile(path, f)]
        /\ configPath' = path /\ pc' = "env" /\ status' = -1
      BY <1>1, <1>3 DEF loadFromFile
  <2>2. cfg' = [f \in Settings |-> FromFile(path', f)] /\ configPath' = path'
      BY <1>1, <2>1
  <2>3. path' = Scanned'
      BY <1>1, ScannedFixed
  <2> QED
      BY <2>1, <2>2, <2>3 DEF Layers, RejectedForCause, FromFile
<1> QED
    BY <1>2, <1>3

LEMMA EnvMerges ==
    ASSUME Inv, Layers, applyEnv
    PROVE  Layers'
<1>1. /\ input \in Inputs /\ input' = input /\ path' = path /\ pc = "env" /\ status = -1
      /\ path = Scanned /\ cfg = [f \in Settings |-> FromFile(path, f)]
      /\ configPath = path
    BY DEF Inv, Layers, applyEnv, Fail
<1>2. CASE Fail
  <2>1. \E f \in DOMAIN input.env : Reading(f, input.env[f]) = {}
      BY <1>1, <1>2 DEF applyEnv, Fail
  <2>2. IsFlawed
      BY <2>1 DEF IsFlawed
  <2> QED
      BY <1>1, <1>2, <2>2, FailsForCause DEF Fail
<1>3. CASE ~Fail
  <2>1. /\ cfg' = [f \in Settings |-> FromEnv(f)] /\ rest' = args
        /\ configPath' = configPath /\ pc' = "flags" /\ status' = -1
      BY <1>1, <1>3 DEF applyEnv
  <2>2. path' = Scanned'
      BY <1>1, ScannedFixed
  <2>3. 0 \in 0..Len(input.options)'
      BY <1>1, InputIs
  <2>4. Parsed(0)'
    <3>1. rest' = Behind(input, 0)
        BY <1>1, <2>1, BehindIs DEF args
    <3>2. \A f \in Settings : FromEnv(f) = Merged(0, f)
        BY <1>1, MergedAtEnds DEF FromEnv
    <3>3. NamedBy(0) = path
        BY <1>1, MergedAtEnds
    <3>4. cfg' = [f \in Settings |-> Merged(0, f)]
        BY <2>1, <3>2
    <3>5. (\A f : Merged(0, f)' = Merged(0, f)) /\ NamedBy(0)' = NamedBy(0)
        BY <1>1, Fixed
    <3>6. cfg' = [f \in Settings |-> Merged(0, f)']
        BY <3>4, <3>5
    <3>7. rest' = Behind(input', 0) /\ configPath' = NamedBy(0)'
        BY <1>1, <2>1, <3>1, <3>3, <3>5
    <3> QED
        BY <3>6, <3>7 DEF Parsed
  <2> QED
      BY <2>1, <2>2, <2>3, <2>4 DEF Layers, RejectedForCause
<1> QED
    BY <1>2, <1>3

\* The option number k + 1 is read.
LEMMA OptionMerges ==
    ASSUME input \in Inputs, NEW k \in 0..Len(input.options), Parsed(k),
           parseSetting \/ parseConfig \/ parseBool, pc' # "exited"
    PROVE  \E l \in 0..Len(input.options) : Parsed(l)'
<1> DEFINE n == Len(input.options)
           l == k + 1
           option == input.options[l]
           name == rest[1].name
           said == IF option.style = "bare" THEN {TRUE} ELSE Reading(name, option.value)
<1>1. /\ n \in Nat /\ input' = input /\ path' = path /\ AtOption
      /\ rest = Behind(input, k) /\ cfg = [f \in Settings |-> Merged(k, f)]
      /\ configPath = NamedBy(k)
    BY InputIs DEF Parsed, parseSetting, parseConfig, parseBool, Fail
<1>2. k # n
  <2>1. ASSUME k = n PROVE FALSE
    <3>1. ValueOf(rest[1]) = {} /\ ~IsBool(rest[1].name)
        BY <1>1, <2>1, NothingRead
    <3>2. CASE parseSetting
      <4>1. UNION {Reading(name, token) : token \in ValueOf(rest[1])} = {}
          BY <3>1
      <4>2. Fail
          BY <3>2, <4>1 DEF parseSetting
      <4> QED
          BY <4>2 DEF Fail
    <3>3. CASE parseConfig
        BY <3>1, <3>3 DEF parseConfig, Fail
    <3>4. CASE parseBool
        BY <3>1, <3>4 DEF parseBool
    <3> QED
        BY <3>2, <3>3, <3>4
  <2> QED
      BY <2>1
<1>3. l \in 1..n /\ l - 1 = k /\ l \in 0..n
    BY <1>1, <1>2
<1>4. IsOption(option) /\ name = option.name
    BY <1>1, <1>3, InputIs, OptionRead
<1>5. /\ option.style = "inline" => rest[1].inline = {option.value}
      /\ option.style # "inline" => rest[1].inline = {}
      /\ option.style \in {"inline", "apart"} =>
             ValueOf(rest[1]) = {option.value} /\ Left(rest[1]) = Behind(input, l)
      /\ option.style # "apart" => Tail(rest) = Behind(input, l)
    BY <1>1, <1>3, OptionRead
<1>6. /\ \A f : f # name => Merged(l, f) = Merged(k, f)
      /\ Merged(l, name) = The(said)
    BY <1>3, <1>4, MergedNext
<1>7. /\ name \notin {"config", "c"} => NamedBy(l) = configPath
      /\ name \in {"config", "c"} => NamedBy(l) = option.value.text
    BY <1>1, <1>3, <1>4, NamedNext
<1>8. /\ \A f : Merged(l, f)' = Merged(l, f)
      /\ NamedBy(l)' = NamedBy(l)
    BY <1>1, Fixed
<1> HIDE DEF l, said, option
<1>9. ASSUME rest' = Behind(input, l), cfg' = [f \in Settings |-> Merged(l, f)],
             configPath' = NamedBy(l)
      PROVE  Parsed(l)'
  <2>1. cfg' = [f \in Settings |-> Merged(l, f)']
      BY <1>8, <1>9
  <2>2. rest' = Behind(input', l) /\ configPath' = NamedBy(l)'
      BY <1>1, <1>8, <1>9
  <2> QED
      BY <2>1, <2>2 DEF Parsed, l
<1>10. CASE parseSetting
  <2> DEFINE read == UNION {Reading(name, token) : token \in ValueOf(rest[1])}
  <2>1. /\ name \in Settings \ Bools /\ cfg' = [cfg EXCEPT ![name] = The(read)]
        /\ rest' = Left(rest[1]) /\ configPath' = configPath
      BY <1>10 DEF parseSetting, Fail
  <2>2. option.style \in {"inline", "apart"}
      BY <1>4, <2>1 DEF IsOption, NeedsValue
  <2>3. read = said
      BY <1>5, <2>2 DEF said
  <2>4. name \notin {"config", "c"}
      BY <2>1 DEF Settings, Strings, Ints, Durations, Bools
  <2>5. cfg' = [f \in Settings |-> Merged(l, f)]
    <3> HIDE DEF read, name
    <3> QED
        BY <1>1, <1>6, <2>1, <2>3
  <2> QED
      BY <1>3, <1>5, <1>7, <1>9, <2>1, <2>2, <2>4, <2>5
<1>11. CASE parseConfig
  <2>1. /\ name \in {"config", "c"} /\ configPath' = The(ValueOf(rest[1])).text
        /\ rest' = Left(rest[1]) /\ cfg' = cfg
      BY <1>11 DEF parseConfig, Fail
  <2>2. option.style \in {"inline", "apart"}
      BY <1>4, <2>1 DEF IsOption, NeedsValue
  <2>3. configPath' = NamedBy(l)
    <3>1. The({option.value}) = option.value
        BY DEF The
    <3> QED
        BY <1>5, <1>7, <2>1, <2>2, <3>1
  <2>4. name \notin Settings
      BY <2>1 DEF Settings, Strings, Ints, Durations, Bools
  <2>5. cfg' = [f \in Settings |-> Merged(l, f)]
      BY <1>1, <1>6, <2>1, <2>4
  <2> QED
      BY <1>3, <1>5, <1>9, <2>1, <2>2, <2>3, <2>5
<1>12. CASE parseBool
  <2> DEFINE read == IF rest[1].inline = {} THEN {TRUE} ELSE The(rest[1].inline).bools
  <2>1. IsBool(name) /\ rest' = Tail(rest) /\ configPath' = configPath
      BY <1>12 DEF parseBool, Fail
  <2>2. /\ name = "version" => cfg' = cfg
        /\ name # "version" => cfg' = [cfg EXCEPT ![name] = The(read)]
      BY <1>12 DEF parseBool, Fail
  <2>3. option.style # "apart"
      BY <1>4, <2>1 DEF IsOption
  <2>4. name \notin {"config", "c"}
      BY <2>1 DEF IsBool, Bools
  <2>5. name # "version" => name \in Settings /\ read = said
    <3>1. ASSUME name # "version" PROVE name \in Settings /\ read = said
      <4>1. name \in Bools
          BY <2>1, <3>1 DEF IsBool
      <4>2. name \in Settings /\ Reading(name, option.value) = option.value.bools
        <5>1. name \notin Strings /\ name \notin Ints \cup Durations
            BY <4>1, TypeFacts
        <5> QED
            BY <4>1, <5>1 DEF Reading, Settings
      <4>3. The({option.value}) = option.value
          BY DEF The
      <4>4. option.style \in {"inline", "bare"}
          BY <1>4, <2>3 DEF IsOption
      <4> QED
          BY <1>5, <4>2, <4>3, <4>4 DEF said
    <3> QED
        BY <3>1
  <2>6. cfg' = [f \in Settings |-> Merged(l, f)]
    <3>1. CASE name = "version"
      <4>1. name \notin Settings
          BY <3>1 DEF Settings, Strings, Ints, Durations, Bools
      <4> QED
          BY <1>1, <1>6, <2>2, <3>1, <4>1
    <3>2. CASE name # "version"
      <4>1. name \in Settings /\ cfg' = [cfg EXCEPT ![name] = The(said)]
          BY <2>2, <2>5, <3>2
      <4> HIDE DEF name
      <4> QED
          BY <1>1, <1>6, <4>1
    <3> QED
        BY <3>1, <3>2
  <2> QED
      BY <1>3, <1>5, <1>7, <1>9, <2>1, <2>3, <2>4, <2>6
<1> QED
    BY <1>10, <1>11, <1>12

LEMMA FlagMerges ==
    ASSUME Inv, Layers, parseSetting \/ parseConfig \/ parseBool \/ parseUnknown
    PROVE  Layers'
<1>1. /\ input \in Inputs /\ input' = input /\ path' = path /\ pc = "flags" /\ status = -1
      /\ path = Scanned
    BY DEF Inv, Layers, parseSetting, parseConfig, parseBool, parseUnknown, AtOption, Fail
<1>2. PICK k \in 0..Len(input.options) : Parsed(k)
    BY <1>1 DEF Layers
<1>3. CASE pc' = "exited"
  <2>1. status' = 2 => IsFlawed
      BY <1>1, <1>2, <1>3, FlagFails DEF Parsed
  <2> QED
      BY <1>1, <1>3, <2>1, FailsForCause
<1>4. CASE pc' # "exited"
  <2>1. parseSetting \/ parseConfig \/ parseBool
      BY <1>4 DEF parseUnknown
  <2>2. pc' = "flags" /\ status' = -1
      BY <1>1, <1>4, <2>1 DEF parseSetting, parseConfig, parseBool, Fail
  <2>3. \E l \in 0..Len(input.options) : Parsed(l)'
      BY <1>1, <1>2, <1>4, <2>1, OptionMerges
  <2>4. path' = Scanned'
      BY <1>1, ScannedFixed
  <2>5. \E l \in 0..Len(input'.options) : Parsed(l)'
      BY <1>1, <2>3
  <2> QED
      BY <2>2, <2>4, <2>5 DEF Layers, RejectedForCause
<1> QED
    BY <1>3, <1>4

LEMMA EndMerges ==
    ASSUME Inv, Layers, endOfFlags
    PROVE  Layers'
<1>1. /\ input \in Inputs /\ input' = input /\ path' = path /\ pc = "flags" /\ status' = -1
      /\ path = Scanned /\ AtEnd /\ cfg' = cfg /\ configPath' = Trim(configPath)
      /\ pc' = "validate"
    BY DEF Inv, Layers, endOfFlags, AtEnd
<1>2. PICK k \in 0..Len(input.options) : Parsed(k)
    BY <1>1 DEF Layers
<1>3. k = Len(input.options)
  <2>1. ASSUME k # Len(input.options) PROVE FALSE
    <3>1. k + 1 \in 1..Len(input.options) /\ (k + 1) - 1 = k
        BY <2>1, InputIs
    <3>2. rest # <<>> /\ rest[1].name = input.options[k + 1].name
        BY <1>1, <1>2, <3>1, OptionRead DEF Parsed
    <3>3. input.options[k + 1].name # ""
        BY <1>1, <3>1, InputIs DEF IsOption
    <3> QED
        BY <1>1, <3>2, <3>3 DEF AtEnd
  <2> QED
      BY <2>1
<1>4. cfg' = [f \in Settings |-> Expected(f)]
    BY <1>1, <1>2, <1>3, MergedAtEnds DEF Parsed
<1>5. configPath' = Trim(NamedBy(Len(input.options)))
    BY <1>1, <1>2, <1>3 DEF Parsed
<1>6. /\ \A f : Expected(f)' = Expected(f)
      /\ NamedBy(Len(input.options))' = NamedBy(Len(input.options))
      /\ path' = Scanned'
    BY <1>1, Fixed, ScannedFixed
<1>7. cfg' = [f \in Settings |-> Expected(f)']
    BY <1>4, <1>6
<1>8. configPath' = Trim(NamedBy(Len(input.options))')
    BY <1>5, <1>6
<1> QED
    BY <1>1, <1>6, <1>7, <1>8 DEF Layers, RejectedForCause

LEMMA ValidateMerges ==
    ASSUME Inv, Layers, Validate
    PROVE  Layers'
<1>1. /\ input' = input /\ path' = path /\ pc = "validate" /\ status = -1
      /\ path = Scanned /\ cfg = [f \in Settings |-> Expected(f)]
      /\ configPath = Trim(NamedBy(Len(input.options))) /\ configPath' = configPath
    BY DEF Layers, Validate, Fail
<1>2. CASE Fail
  <2>1. ~Valid(Normalised([f \in Settings |-> Expected(f)]))
      BY <1>1, <1>2 DEF Validate, Fail
  <2>2. IsFlawed
      BY <2>1 DEF IsFlawed
  <2> QED
      BY <1>1, <1>2, <2>2, FailsForCause DEF Fail
<1>3. CASE ~Fail
  <2>1. cfg' = Normalised([f \in Settings |-> Expected(f)]) /\ pc' = "loaded" /\ status' = -1
      BY <1>1, <1>3 DEF Validate
  <2>2. /\ \A f : Expected(f)' = Expected(f)
        /\ NamedBy(Len(input.options))' = NamedBy(Len(input.options))
        /\ path' = Scanned'
      BY <1>1, Fixed, ScannedFixed
  <2>3. [f \in Settings |-> Expected(f)'] = [f \in Settings |-> Expected(f)]
      BY <2>2
  <2>4. cfg' = Normalised([f \in Settings |-> Expected(f)'])
      BY <2>1, <2>3
  <2>5. configPath' = Trim(NamedBy(Len(input.options))')
      BY <1>1, <2>2
  <2> QED
      BY <2>1, <2>2, <2>4, <2>5 DEF Layers, RejectedForCause
<1> QED
    BY <1>2, <1>3

\* After Validate nothing is merged any more.
LEMMA RestMerges ==
    ASSUME Layers, ShowVersion \/ NewRendererFromConfig \/ Run \/ UNCHANGED vars
    PROVE  Layers'
<1>1. /\ input' = input /\ path' = path /\ cfg' = cfg /\ configPath' = configPath
      /\ rest' = rest
    BY DEF ShowVersion, NewRendererFromConfig, Run, vars
<1>2. /\ \A k, f : Merged(k, f)' = Merged(k, f)
      /\ \A k : NamedBy(k)' = NamedBy(k)
      /\ \A f : Expected(f)' = Expected(f)
      /\ IsFlawed' <=> IsFlawed
      /\ Scanned' = Scanned
    BY <1>1, Fixed, ScannedFixed
<1>3. CASE ShowVersion \/ Run
  <2>1. pc' = "exited" /\ status' # 2
      BY <1>3 DEF ShowVersion, Run
  <2> QED
      BY <1>1, <2>1, FailsForCause
<1>4. CASE NewRendererFromConfig
  <2>1. CASE pc' = "exited"
    <3>1. status' = 1
        BY <1>4, <2>1 DEF NewRendererFromConfig
    <3> QED
        BY <1>1, <2>1, <3>1, FailsForCause
  <2>2. CASE pc' # "exited"
    <3>1. pc = "loaded" /\ pc' = "running" /\ status' = status /\ status = -1
        BY <1>4, <2>2 DEF NewRendererFromConfig, Layers
    <3>2. /\ path = Scanned /\ cfg = Normalised([f \in Settings |-> Expected(f)])
          /\ configPath = Trim(NamedBy(Len(input.options)))
        BY <3>1 DEF Layers
    <3>3. [f \in Settings |-> Expected(f)'] = [f \in Settings |-> Expected(f)]
        BY <1>2
    <3>4. cfg' = Normalised([f \in Settings |-> Expected(f)'])
        BY <1>1, <3>2, <3>3
    <3>5. configPath' = Trim(NamedBy(Len(input.options))') /\ path' = Scanned'
        BY <1>1, <1>2, <3>2
    <3> QED
        BY <1>1, <3>1, <3>4, <3>5 DEF Layers, RejectedForCause
  <2> QED
      BY <2>1, <2>2
<1>5. CASE UNCHANGED vars
  <2>1. pc' = pc /\ status' = status
      BY <1>5 DEF vars
  <2>2. \A k : Parsed(k)' <=> Parsed(k)
    <3>1. \A k : [f \in Settings |-> Merged(k, f)'] = [f \in Settings |-> Merged(k, f)]
        BY <1>2
    <3>2. \A k : Behind(input', k) = Behind(input, k)
        BY <1>1
    <3> QED
        BY <1>1, <1>2, <3>1, <3>2 DEF Parsed
  <2>3. [f \in Settings |-> Expected(f)'] = [f \in Settings |-> Expected(f)]
      BY <1>2
  <2>4. [f \in Settings |-> FromFile(path, f)'] = [f \in Settings |-> FromFile(path, f)]
      BY <1>1 DEF FromFile
  <2>5. RejectedForCause' <=> RejectedForCause
      BY <1>2, <2>1 DEF RejectedForCause
  <2>6. pc = "flags" => \E k \in 0..Len(input'.options) : Parsed(k)'
      BY <1>1, <2>2 DEF Layers
  <2> QED
      BY <1>1, <1>2, <2>1, <2>3, <2>4, <2>5, <2>6 DEF Layers
<1> QED
    BY <1>3, <1>4, <1>5

LEMMA Merging == Spec => []Layers
<1>1. Init => Layers
    BY DEF Init, Layers, RejectedForCause
<1>2. Inv /\ Layers /\ [Next]_vars => Layers'
    BY ScanMerges, FileMerges, EnvMerges, FlagMerges, EndMerges, ValidateMerges, RestMerges
    DEF Next
<1> QED
    BY <1>1, <1>2, Inductive, PTL DEF Spec

\* However the program is started, it runs with the highest layer's value of every
\* setting, normalised: the invariant follows the flag package option by option
\* (config.go:82).
THEOREM Layering == Spec => []Precedence
<1>1. Layers => Precedence
    BY DEF Layers, Precedence
<1> QED
    BY <1>1, Merging, PTL

\* The file that is read before the flags are parsed is the one that the flags name,
\* where scanConfigPath cannot be deceived (config.go:281).
THEOREM FileNaming == Spec => []FileReadIsFileNamed
<1>1. Inv /\ Layers => FileReadIsFileNamed
  <2> SUFFICES ASSUME Inv, Layers, pc = "running", Cardinality(Naming) <= 1,
           \A i \in Naming : input.options[i].name = "c" => input.options[i].dashes = 1,
           \A i \in DOMAIN input.options \ Naming : ~NamesFile(input.options[i].value),
           \A i \in DOMAIN input.further : ~NamesFile(input.further[i])
        PROVE  /\ path = configPath
               /\ path = IF Naming = {} THEN <<>>
                         ELSE Trim(input.options[The(Naming)].value.text)
      BY DEF FileReadIsFileNamed
  <2> DEFINE n == Len(input.options)
  <2>1. /\ input \in Inputs /\ path = Scanned /\ configPath = Trim(NamedBy(n))
        /\ Naming \cap (1..n) = Naming
      BY InputIs DEF Inv, Layers, Naming
  <2>2. /\ Naming = {} => Scanned = <<>>
        /\ \A j \in Naming : Naming = {j} /\ Scanned = Trim(input.options[j].value.text)
      BY <2>1, ScannedIs
  <2>3. CASE Naming = {}
    <3>1. path = <<>> /\ NamedBy(n) = path
        BY <2>1, <2>2, <2>3 DEF NamedBy
    <3>2. Trim(<<>>) = <<>>
      <4>1. <<>> \in Characters /\ Ink(<<>>) = {}
          BY DEF Characters, Ink
      <4> QED
          BY <4>1, TrimBlank
    <3> QED
        BY <2>1, <2>3, <3>1, <3>2
  <2>4. CASE Naming # {}
    <3>1. PICK j \in Naming : TRUE
        BY <2>4
    <3>2. Naming = {j} /\ Scanned = Trim(input.options[j].value.text)
        BY <2>2
    <3>3. The(Naming) = j
        BY <3>2 DEF The
    <3>4. Max(Naming) = j
      <4>1. j \in Nat
          BY InputIs, <2>1 DEF Naming
      <4> QED
          BY <3>2, <4>1 DEF Max
    <3>5. NamedBy(n) = input.options[j].value.text
        BY <2>1, <2>4, <3>4 DEF NamedBy
    <3> QED
        BY <2>1, <2>4, <3>2, <3>3, <3>5
  <2> QED
      BY <2>3, <2>4
<1>2. Spec => []Inv
    BY Inductive DEF Spec
<1> QED
    BY <1>1, <1>2, Merging, PTL

\* Whatever makes the program end with a configuration error is wrong in its input
\* (config.go:84).
THEOREM Rejection == Spec => []RejectedForCause
<1>1. Layers => RejectedForCause
    BY DEF Layers
<1> QED
    BY <1>1, Merging, PTL

================================================================================
