---------------------------------- MODULE Config ----------------------------------
(***************************************************************************)
(* Start-up: config.Load of internal/config/config.go, the main function   *)
(* that calls it, and what becomes of the configuration in                 *)
(* output.NewRendererFromConfig. The flag package of Go is modelled from   *)
(* its use.                                                                *)
(*                                                                         *)
(* A token is one argument, or the text of an environment variable or a    *)
(* setting in a file: the option it reads as, if any, with one or two      *)
(* dashes and the value after an equals sign, if any; and what it is as a  *)
(* value: a text and, if it parses, an integer (or a duration) or a        *)
(* Boolean. Sets of at most one element stand for what may be absent.      *)
(* Options and settings go by their names in the file.                     *)
(***************************************************************************)
EXTENDS Text

CONSTANTS
    Inputs, \* what the program is started with: options, further arguments, environment
    Files   \* function from the paths of files to what they hold

VARIABLES
    input,      \* member of Inputs
    pc,         \* how far main has come
    path,       \* file named according to scanConfigPath
    cfg,        \* the Config that Load fills
    configPath, \* variable of the options -config and -c
    version,    \* Config.ShowVersion
    rest,       \* arguments that the flag package has not read
    status      \* exit status, -1 while the program runs

vars == <<input, pc, path, cfg, configPath, version, rest, status>>

Strings == {"rabbitmq_url", "firehose_exchange", "queue_name", "consumer_tag",
            "output_format", "filter_exchange", "filter_queue", "filter_routing_key",
            "filter_event", "graph_name", "metrics_addr", "statsd_addr", "web_addr"}
Ints == {"max_events", "prefetch", "show_body_bytes"}
Durations == {"reconnect_initial", "reconnect_max"}
Bools == {"warn_unrouted"}
Settings == Strings \cup Ints \cup Durations \cup Bools

Cli == <<99>>
Prometheus == <<112, 109>>
Statsd == <<115>>
Web == <<119>>
Formats == {Cli, <<106>>, <<100>>, <<115, 109>>, <<109>>, Prometheus, Statsd, Web}
Routing == <<114>>
Some == <<118>>     \* the other defaults that are not empty

TypeOf(f) ==
    CASE f \in Strings -> Characters
      [] f \in Ints \cup Durations -> Int
      [] f \in Bools -> BOOLEAN

TokensWith(inlines) ==
    [name : STRING, dashes : Nat, inline : inlines, text : Characters,
     ints : SUBSET Int, bools : SUBSET BOOLEAN]

Token == TokensWith(SUBSET TokensWith({{}}))

Default ==
    [f \in Settings |->
        CASE f \in {"rabbitmq_url", "firehose_exchange", "consumer_tag"} -> Some
          [] f = "graph_name" -> Routing
          [] f = "output_format" -> Cli
          [] f = "prefetch" -> 200
          [] f = "reconnect_initial" -> 1
          [] f = "reconnect_max" -> 30
          [] f = "warn_unrouted" -> FALSE
          [] f \in {"max_events", "show_body_bytes"} -> 0
          [] OTHER -> <<>>]

\* What a token says as the value of a setting: nothing if it does not parse.
Reading(f, token) ==
    CASE f \in Strings -> {token.text}
      [] f \in Ints \cup Durations -> token.ints
      [] f \in Bools -> token.bools

The(S) == CHOOSE x \in S : TRUE

\* Seeded fault: the web address is not trimmed.
Normalised_WebAddrKept(c) ==
    [f \in Settings |->
        IF f \in {"output_format", "filter_event"} THEN Lower(Trim(c[f]))
        ELSE IF f = "graph_name" THEN firstNonEmpty(<<c[f], Routing>>)
        ELSE IF f \in Strings \ {"queue_name", "consumer_tag", "web_addr"} THEN Trim(c[f])
        ELSE c[f]]

\* What Validate makes of a configuration; the other strings stay as they are.
Normalised(c) ==
    [f \in Settings |->
        IF f \in {"output_format", "filter_event"} THEN Lower(Trim(c[f]))
        ELSE IF f = "graph_name" THEN firstNonEmpty(<<c[f], Routing>>)
        ELSE IF f \in Strings \ {"queue_name", "consumer_tag"} THEN Trim(c[f])
        ELSE c[f]]

AddressOf(format) ==
    CASE format = Prometheus -> {"metrics_addr"}
      [] format = Statsd -> {"statsd_addr"}
      [] format = Web -> {"web_addr"}
      [] OTHER -> {}

Valid(c) ==
    /\ c["rabbitmq_url"] # <<>> /\ c["firehose_exchange"] # <<>>
    /\ c["output_format"] \in Formats
    /\ c["filter_event"] \in {<<>>, Publish, Deliver}
    /\ c["prefetch"] > 0 /\ c["max_events"] >= 0 /\ c["show_body_bytes"] >= 0
    /\ c["reconnect_initial"] > 0 /\ c["reconnect_max"] > 0
    /\ c["reconnect_max"] >= c["reconnect_initial"]
    /\ \A f \in AddressOf(c["output_format"]) : c[f] # <<>>

--------------------------------------------------------------------------------
(* Arguments *)

\* How options are written: the value after an equals sign, apart, or not at all.
HeadOf(option) ==
    [name |-> option.name, dashes |-> option.dashes,
     inline |-> IF option.style = "inline" THEN {option.value} ELSE {},
     text |-> <<45>>, ints |-> {}, bools |-> {}]

Written(option) ==
    IF option.style = "apart" THEN <<HeadOf(option), option.value>> ELSE <<HeadOf(option)>>

Arguments(i) == FlattenSeq([n \in DOMAIN i.options |-> Written(i.options[n])]) \o i.further

args == Arguments(input)

IsBool(name) == name \in Bools \cup {"version"}

NeedsValue(name) == name \in (Settings \ Bools) \cup {"config", "c"}

IsOption(option) ==
    /\ option.name \in STRING \ {""} /\ option.dashes \in Nat
    /\ option.style \in {"inline", "apart", "bare"}
    /\ option.style = "inline" => option.value \in TokensWith({{}})
    /\ option.style = "apart" => option.value \in Token /\ ~IsBool(option.name)
    /\ option.style = "bare" => ~NeedsValue(option.name)

\* What follows the options begins with none, or is one whose value is missing.
IsInput(i) ==
    /\ i.options \in Seq(Range(i.options)) /\ \A option \in Range(i.options) : IsOption(option)
    /\ i.further \in Seq(Token)
    /\ i.further # <<>> /\ i.further[1].name # "" =>
          Len(i.further) = 1 /\ i.further[1].inline = {} /\ ~IsBool(i.further[1].name)
    /\ \A f \in DOMAIN i.env : i.env[f] \in Token

ASSUME ConfigAssumption ==
    /\ \A i \in Inputs : IsInput(i)
    /\ \A p \in DOMAIN Files : \A f \in DOMAIN Files[p].settings \cap Settings :
          Files[p].settings[f] \in TypeOf(f)

\* scanConfigPath takes the blanks off an argument before it compares: one that is padded
\* with blanks, and so no option to the flag package, is left out.
NamesFile(token) ==
    \/ token.name = "config"
    \/ token.name = "c" /\ token.dashes = 1

\* Seeded fault: --config is not looked for.
ConfigTokens_OneDash == {i \in DOMAIN args : NamesFile(args[i]) /\ args[i].dashes = 1}

\* The arguments in which scanConfigPath sees the option, wherever they stand.
ConfigTokens == {i \in DOMAIN args : NamesFile(args[i])}

Fail ==
    /\ pc' = "exited"
    /\ status' = 2
    /\ UNCHANGED <<input, path, cfg, configPath, version, rest>>

--------------------------------------------------------------------------------
Init ==
    /\ input \in Inputs
    /\ pc = "scan"
    /\ path = <<>>
    /\ cfg = Default
    /\ configPath = <<>>
    /\ version = FALSE
    /\ rest = <<>>
    /\ status = -1

scanConfigPath ==
    /\ pc = "scan"
    /\ LET i == Min(ConfigTokens) IN
       IF ConfigTokens # {} /\ args[i].inline = {} /\ i = Len(args) THEN Fail
       ELSE /\ path' = IF ConfigTokens = {} THEN <<>>
                       ELSE IF args[i].inline # {} THEN Trim(The(args[i].inline).text)
                       ELSE Trim(args[i + 1].text)
            /\ pc' = "file"
            /\ UNCHANGED <<input, cfg, configPath, version, rest, status>>

FromFile(p, f) == IF p # <<>> /\ f \in DOMAIN Files[p].settings
                  THEN Files[p].settings[f] ELSE Default[f]

\* A file that is not there, is empty, does not parse or has a setting that is not
\* known cannot be read.
IsReadable(p) == p = <<>> \/ (p \in DOMAIN Files /\ Files[p].sound)

\* Seeded fault: the file has to make a valid configuration on its own.
loadFromFile_Validates ==
    /\ pc = "file"
    /\ IF ~IsReadable(path) \/ ~Valid(Normalised([f \in Settings |-> FromFile(path, f)]))
       THEN Fail
       ELSE /\ cfg' = [f \in Settings |-> FromFile(path, f)]
            /\ configPath' = path
            /\ pc' = "env"
            /\ UNCHANGED <<input, path, version, rest, status>>

loadFromFile ==
    /\ pc = "file"
    /\ IF ~IsReadable(path) THEN Fail
       ELSE /\ cfg' = [f \in Settings |-> FromFile(path, f)]
            /\ configPath' = path
            /\ pc' = "env"
            /\ UNCHANGED <<input, path, version, rest, status>>

\* Variables for strings that are blank count as not set.
EnvSets(f) ==
    /\ f \in DOMAIN input.env
    /\ f \in Strings => Trim(input.env[f].text) # <<>>

EnvValue(f) == IF f \in Strings THEN Trim(input.env[f].text)
               ELSE The(Reading(f, input.env[f]))

\* Seeded fault: variables only stand in for what is still at its default.
FromEnv_Fallback(f) == IF EnvSets(f) /\ cfg[f] = Default[f] THEN EnvValue(f) ELSE cfg[f]

FromEnv(f) == IF EnvSets(f) THEN EnvValue(f) ELSE cfg[f]

applyEnv ==
    /\ pc = "env"
    /\ IF \E f \in DOMAIN input.env : Reading(f, input.env[f]) = {} THEN Fail
       ELSE /\ cfg' = [f \in Settings |-> FromEnv(f)]
            /\ rest' = args
            /\ pc' = "flags"
            /\ UNCHANGED <<input, path, configPath, version, status>>

--------------------------------------------------------------------------------
(* The flag package reads one option at a time, up to the first argument that is *)
(* none. *)

AtOption == pc = "flags" /\ rest # <<>> /\ rest[1].name # ""

AtEnd == pc = "flags" /\ (rest # <<>> => rest[1].name = "")

\* The option's value: its own, the next argument whatever that is, or none.
ValueOf(option) ==
    IF option.inline # {} THEN option.inline
    ELSE IF Len(rest) > 1 THEN {rest[2]} ELSE {}

Left(option) == SubSeq(rest, IF option.inline # {} THEN 2 ELSE 3, Len(rest))

parseSetting ==
    /\ AtOption /\ rest[1].name \in Settings \ Bools
    /\ LET f == rest[1].name
           read == UNION {Reading(f, token) : token \in ValueOf(rest[1])}
       IN  IF read = {} THEN Fail
           ELSE /\ cfg' = [cfg EXCEPT ![f] = The(read)]
                /\ rest' = Left(rest[1])
                /\ UNCHANGED <<input, pc, path, configPath, version, status>>

parseConfig ==
    /\ AtOption /\ rest[1].name \in {"config", "c"}
    /\ IF ValueOf(rest[1]) = {} THEN Fail
       ELSE /\ configPath' = The(ValueOf(rest[1])).text
            /\ rest' = Left(rest[1])
            /\ UNCHANGED <<input, pc, path, cfg, version, status>>

parseBool ==
    /\ AtOption /\ IsBool(rest[1].name)
    /\ LET read == IF rest[1].inline = {} THEN {TRUE} ELSE The(rest[1].inline).bools
       IN  IF read = {} THEN Fail
           ELSE /\ rest' = Tail(rest)
                /\ IF rest[1].name = "version"
                   THEN version' = The(read) /\ UNCHANGED cfg
                   ELSE cfg' = [cfg EXCEPT ![rest[1].name] = The(read)] /\ UNCHANGED version
                /\ UNCHANGED <<input, pc, path, configPath, status>>

\* -h and -help end the program with the usage, other names with an error.
parseUnknown ==
    /\ AtOption /\ rest[1].name \notin Settings \cup {"config", "c", "version"}
    /\ pc' = "exited"
    /\ status' = IF rest[1].name \in {"h", "help"} THEN 0 ELSE 2
    /\ UNCHANGED <<input, path, cfg, configPath, version, rest>>

endOfFlags ==
    /\ AtEnd
    /\ configPath' = Trim(configPath)
    /\ pc' = "validate"
    /\ UNCHANGED <<input, path, cfg, version, rest, status>>

--------------------------------------------------------------------------------
Validate ==
    /\ pc = "validate"
    /\ IF ~Valid(Normalised(cfg)) THEN Fail
       ELSE /\ cfg' = Normalised(cfg)
            /\ pc' = "loaded"
            /\ UNCHANGED <<input, path, configPath, version, rest, status>>

ShowVersion ==
    /\ pc = "loaded" /\ version
    /\ pc' = "exited"
    /\ status' = 0
    /\ UNCHANGED <<input, path, cfg, configPath, version, rest>>

\* Renderers with an address listen or dial, which may fail.
NewRendererFromConfig ==
    /\ pc = "loaded" /\ ~version
    /\ \/ /\ cfg["output_format"] \in Formats
          /\ pc' = "running"
          /\ UNCHANGED status
       \/ /\ cfg["output_format"] \notin Formats \ {Prometheus, Statsd, Web}
          /\ pc' = "exited"
          /\ status' = 1
    /\ UNCHANGED <<input, path, cfg, configPath, version, rest>>

\* Service.Run returns an error or not.
Run ==
    /\ pc = "running"
    /\ pc' = "exited"
    /\ status' \in {0, 1}
    /\ UNCHANGED <<input, path, cfg, configPath, version, rest>>

Next ==
    \/ scanConfigPath \/ loadFromFile \/ applyEnv
    \/ parseSetting \/ parseConfig \/ parseBool \/ parseUnknown \/ endOfFlags
    \/ Validate \/ ShowVersion \/ NewRendererFromConfig \/ Run

Spec == Init /\ [][Next]_vars

--------------------------------------------------------------------------------
Given(f) == {i \in DOMAIN input.options : input.options[i].name = f}

\* What the last option for f says; the value of a Boolean option may be left out.
Flag(f) ==
    LET option == input.options[Max(Given(f))]
    IN  IF option.style = "bare" THEN {TRUE} ELSE Reading(f, option.value)

\* A setting as the layers give it: flags before environment before file before
\* default.
Expected(f) ==
    IF Given(f) # {} THEN The(Flag(f))
    ELSE IF EnvSets(f) THEN EnvValue(f)
    ELSE FromFile(path, f)

\* The program runs with the highest layer's value of every setting, normalised
\* (config.go:82, "defaults -> config file -> env vars -> CLI flags").
Precedence ==
    pc = "running" => cfg = Normalised([f \in Settings |-> Expected(f)])

Naming == {i \in DOMAIN input.options : input.options[i].name \in {"config", "c"}}

\* The file that was read is the one that the flag package takes -config to name,
\* provided that the option is given once at most, with one dash if it is -c, and
\* that neither the value of another option nor an argument after the options
\* reads like it (config.go:281).
FileReadIsFileNamed ==
    /\ pc = "running"
    /\ Cardinality(Naming) <= 1
    /\ \A i \in Naming : input.options[i].name = "c" => input.options[i].dashes = 1
    /\ \A i \in DOMAIN input.options \ Naming : ~NamesFile(input.options[i].value)
    /\ \A i \in DOMAIN input.further : ~NamesFile(input.further[i])
    => /\ path = configPath
       /\ path = IF Naming = {} THEN <<>> ELSE Trim(input.options[The(Naming)].value.text)

Usable(c) ==
    /\ 0 < c["reconnect_initial"] /\ c["reconnect_initial"] <= c["reconnect_max"]
    /\ c["max_events"] \in Nat /\ c["prefetch"] \in Nat \ {0}
    /\ Trim(c["firehose_exchange"]) # <<>> /\ Trim(c["graph_name"]) # <<>>
    /\ c["filter_event"] \in {<<>>, Publish, Deliver}
    /\ \A f \in AddressOf(c["output_format"]) : Trim(c[f]) # <<>>

\* What the other parts take for granted of their settings when the program runs:
\* the assumptions of ConnectionManager and Service, an event type the filter knows,
\* a name to consume from and an address, not blank, to serve at (config.go:118).
LoadedIsUsable == pc = "running" => Usable(cfg)

\* What is wrong with the input: a file that cannot be read, an environment variable
\* or an option that does not parse, an option's value that is taken for -config, or
\* a value that is wrong after the layers are merged.
IsFlawed ==
    \/ ~IsReadable(path)
    \/ \E f \in DOMAIN input.env : Reading(f, input.env[f]) = {}
    \/ \E i \in DOMAIN input.options : LET option == input.options[i] IN
          \/ option.name \notin Settings \cup {"config", "c", "version", "h", "help"}
          \/ option.name \in Settings /\ option.style # "bare"
                /\ Reading(option.name, option.value) = {}
          \/ option.name = "version" /\ option.style # "bare" /\ option.value.bools = {}
          \/ NamesFile(option.value)
    \/ \E i \in DOMAIN input.further :
          input.further[i].name # "" /\ input.further[i].inline = {}
    \/ ~Valid(Normalised([f \in Settings |-> Expected(f)]))

\* A configuration error has a cause; a wrong value that a higher layer replaces is
\* none (config.go:84).
RejectedForCause == status = 2 => IsFlawed

================================================================================
