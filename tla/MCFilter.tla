--------------------------------- MODULE MCFilter ---------------------------------
(***************************************************************************)
(* The filters on small alphabets. For the topic patterns: all of up to    *)
(* four words against all routing keys of up to four, an empty word among  *)
(* them. For the others: all glob patterns of up to two characters against *)
(* names of up to three and events of up to two destinations.              *)
(***************************************************************************)
EXTENDS Filter

UpTo(n, S) == UNION {[1..k -> S] : k \in 1..n}

Filters(globs, keys, types) ==
    [exchange : globs, queue : globs, routingKey : keys, eventType : types]

Events(names, keys, queueSets) ==
    [exchange : names, eventType : {"publish"}, routingKey : keys,
     destinations : queueSets, eventDestinations : queueSets]

NoPattern == {None}

TopicCases ==
    Filters(NoPattern, UpTo(4, {"a", "b", "*", "#"}), {""})
        \X Events({<<"x">>}, UpTo(4, {"a", "b", ""}), {{<<"q">>}})

Globs == NoPattern \cup UpTo(2, {"x", "*", "?", "["})
Names == UpTo(2, {"x", "/"}) \cup {<<"x", "y", "x">>}

GlobCases ==
    Filters(Globs, NoPattern \cup {<<"a">>}, {"", "publish", "deliver"})
        \X Events(Names, {<<"a">>, <<"b">>}, {{}, {<<"x">>}, {<<"x">>, <<"/">>}})

AllCases == TopicCases \cup GlobCases

================================================================================
