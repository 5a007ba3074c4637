--------------------------------- MODULE MCConfig ---------------------------------
(***************************************************************************)
(* Command lines of up to two options out of twenty, with nothing or one   *)
(* of four endings behind them; at most one environment variable; and two  *)
(* files that can be read, one of them with a setting that is wrong.       *)
(***************************************************************************)
EXTENDS Config

F == <<70>>
G == <<71>>
Blank == <<Space>>
Address == <<97>>
Padded(s) == <<Space>> \o s

Word(s) == [name |-> "", dashes |-> 0, inline |-> {}, text |-> s, ints |-> {}, bools |-> {}]
Number(n) == [Word(<<49>>) EXCEPT !.ints = {n}]
False == [Word(<<48>>) EXCEPT !.bools = {FALSE}]
Option(name, dashes, inline) ==
    [Word(<<45>>) EXCEPT !.name = name, !.dashes = dashes, !.inline = inline]

Opt(name, dashes, style, value) ==
    [name |-> name, dashes |-> dashes, style |-> style, value |-> value]

Options == {
    Opt("config", 2, "apart", Word(F)),
    Opt("config", 1, "inline", Word(Padded(G))),
    Opt("c", 1, "apart", Word(F)),
    Opt("c", 2, "apart", Word(G)),
    Opt("prefetch", 2, "inline", Number(5)),
    Opt("prefetch", 1, "apart", Number(0)),
    Opt("prefetch", 1, "apart", Word(Address)),
    Opt("output_format", 2, "apart", Word(Padded(<<87>>))),
    Opt("web_addr", 2, "inline", Word(Blank)),
    Opt("web_addr", 2, "apart", Word(Address)),
    Opt("filter_queue", 1, "apart", Option("c", 1, {})),
    Opt("filter_event", 1, "inline", Word(Padded(<<80>>))),
    Opt("reconnect_initial", 1, "apart", Number(30)),
    Opt("reconnect_max", 1, "inline", Number(29)),
    Opt("warn_unrouted", 1, "bare", Word(<<>>)),
    Opt("version", 2, "inline", False),
    Opt("version", 1, "inline", Word(Address)),
    Opt("version", 1, "bare", Word(<<>>)),
    Opt("h", 1, "bare", Word(<<>>)),
    Opt("verbose", 1, "bare", Word(<<>>))}

Endings == {
    <<>>,
    <<Word(F)>>,
    <<Word(<<45, 45>>), Option("config", 2, {Word(F)})>>,
    <<Option("config", 1, {})>>,
    <<Option("graph_name", 1, {})>>}

One(f, token) == [g \in {f} |-> token]

Environments == {
    <<>>,
    One("queue_name", Word(<<>>)),
    One("prefetch", Number(7)),
    One("prefetch", Word(Address)),
    One("output_format", Word(Padded(Statsd))),
    One("rabbitmq_url", Word(Blank)),
    One("reconnect_initial", Number(40)),
    One("warn_unrouted", False)}

AllInputs == [options : UNION {[1..n -> Options] : n \in 0..2}, further : Endings,
              env : Environments]

AllFiles ==
    (F :> [sound |-> TRUE,
           settings |-> [f \in {"prefetch", "graph_name", "warn_unrouted"} |->
                            CASE f = "prefetch" -> 0
                              [] f = "graph_name" -> Blank
                              [] f = "warn_unrouted" -> TRUE]])
    @@ (G :> [sound |-> TRUE,
              settings |-> [f \in {"output_format", "statsd_addr"} |->
                               IF f = "output_format" THEN Statsd ELSE Address]])
    @@ (Address :> [sound |-> FALSE, settings |-> <<>>])

================================================================================
