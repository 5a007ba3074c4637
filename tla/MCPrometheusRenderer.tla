--------------------------- MODULE MCPrometheusRenderer ---------------------------
(***************************************************************************)
(* Two scrapes and up to three traces of three kinds: one without a        *)
(* destination, one with an unnamed exchange and an unnamed queue, and one *)
(* that lists a queue twice, under two binding keys.                       *)
(***************************************************************************)
EXTENDS PrometheusRenderer

CONSTANTS s1, s2

Kind(exchange, type, queues) ==
    [exchange |-> exchange, eventType |-> type, queues |-> queues]

ThreeKinds == {Kind("orders", "publish", <<>>), Kind("", "deliver", <<"">>),
               Kind("orders", "publish", <<"q", "q">>)}
TwoKinds == {Kind("orders", "publish", <<>>), Kind("orders", "deliver", <<"q">>)}

TwoScrapes == {s1, s2}
OneStalled == {s1}
NoneStalled == {}

================================================================================
