------------------------------- MODULE Config -------------------------------
(***************************************************************************)
(* How the program gets its configuration (config.py) and what its start   *)
(* makes of it (__main__.py): the JSON file, the VDCLIENT_ variables and   *)
(* --log-level are applied in this order to the defaults, and the result   *)
(* is validated.  A ConfigError is reported and ends the program; nothing  *)
(* catches any other exception.                                            *)
(*                                                                         *)
(* A value is known by its JSON type and by what the code tells apart in   *)
(* it.  The settings are those that main, the validation and a video       *)
(* session look at; they are of every type that the defaults have.         *)
(***************************************************************************)
EXTENDS Naturals, Sequences, FiniteSets

CONSTANTS
    MaxMonitors,  \* MAX_MONITORS
    MonitorLists, \* bound: the lists video.monitors is set to
    FileValues,   \* bound: the values the file sets a setting to
    EnvValues,    \* bound: the values an environment variable holds
    MaxSettings   \* bound: settings the file and the environment make in all

\* "plain dict" is not virtual; a list with "no list" stands for a number, a
\* boolean or null in the place of the list.
Entries == {"null", "region", "virtual", "plain dict",
            "short region", "unnumbered region", "word", "no list"}

\* Integers are told apart by validate and by the size of a field: a multiple of
\* 16, another positive one, one of 2^31 or more, which is a multiple of 16, and
\* one that no float can hold.  The floats are a multiple of 16, another that is
\* 1 or more, and the two that are no number to int.  A negative or a huge
\* number may be a float too.
Ints   == {"sixteen", "seven", "zero", "negative", "huge", "gigantic"}
Floats == {"float", "odd float", "infinite", "nan"}
Booleans == {"true", "false"}
Strings == {"word", "digits", "h264_vaapi", "auto", "x11", "kmsgrab", "test", "Windows"}
Values  == Ints \cup Floats \cup Booleans \cup Strings \cup {"null", "list", "dict"}
Absent   == "absent"
Overlong == "overlong"   \* JSON for whose digits or depth json.loads raises otherwise

ASSUME ConfigAssumption ==
    /\ MaxMonitors \in Nat \ {0}
    /\ MonitorLists \subseteq Seq(Entries)
    /\ FileValues \subseteq Values /\ EnvValues \subseteq Values \cup {Overlong}
    /\ MaxSettings \in Nat

Default == [enabled |-> "true", fps |-> "seven", width |-> "null", height |-> "null",
            encoder |-> "h264_vaapi", source |-> "auto", level |-> "word",
            os_name |-> "Windows", timeout |-> "odd float"]   \* video_send_timeout
Settings == DOMAIN Default
DefaultMonitors == <<"null">>

\* What may be wrong with the file before its settings are looked at.  It is
\* unreadable for the system, as text or, like an overlong value, as JSON.
RefusedFiles == {"not found", "not JSON", "not an object", "unknown key"}
FileKinds == RefusedFiles \cup {"unreadable", "section is no object", "none", "settings"}

VARIABLES
    phase,    \* how far main is: "file", "env", "cli", "check", "loaded", "refused",
              \* "crashed" or "served"
    fileKind, \* what find_config_file finds
    file,     \* file[s]: what the file sets s to, or Absent
    env,      \* env[s]: what the variable of s holds
    cli,      \* --log-level
    cfg,      \* the settings of the Config
    monitors  \* cfg.video.monitors

inputs     == <<fileKind, file, env, cli>>
configVars == <<phase, inputs, cfg, monitors>>

Given(layer) == {s \in Settings : layer[s] # Absent}
Layers(values) == [Settings -> values \cup {Absent}]

ConfigInit ==
    /\ phase = "file"
    /\ cfg = Default /\ monitors = DefaultMonitors
    /\ fileKind \in FileKinds
    /\ \E S \in SUBSET Settings, T \in SUBSET Settings :
          /\ Cardinality(S) + Cardinality(T) <= MaxSettings
          /\ fileKind # "settings" => S = {}
          /\ \E f \in [S -> FileValues], e \in [T -> EnvValues] :
                /\ file = [s \in Settings |-> IF s \in S THEN f[s] ELSE Absent]
                /\ env = [s \in Settings |-> IF s \in T THEN e[s] ELSE Absent]
    /\ cli \in {Absent, "word", "digits"}

----------------------------------------------------------------------------

Bad      == "bad"        \* the conversion raises ConfigError
Uncaught == "uncaught"   \* it raises OverflowError, which _coerce lets through

\* int takes the digits of a string and cuts a float off.
AsInt(value) ==
    CASE value \in Ints -> value
      [] value \in {"float", "digits"} -> "sixteen"
      [] value = "odd float" -> "seven"
      [] value = "infinite" -> Uncaught
      [] OTHER -> Bad
AsFloat(value) ==
    CASE value \in {"sixteen", "digits"} -> "float"
      [] value = "seven" -> "odd float"
      [] value = "gigantic" -> Uncaught
      [] value \in Floats \cup {"zero", "negative", "huge"} -> value
      [] OTHER -> Bad

\* _coerce: a value is converted to the type that the setting has so far.  str
\* takes anything, and a setting that is null or a list so far takes everything.
\* Fault: only booleans are looked at.
FaultCoerce(value, current) ==
    IF current \in Booleans THEN IF value \in Booleans THEN value ELSE Bad
    ELSE value
Coerce(value, current) ==
    CASE current \in Booleans -> IF value \in Booleans THEN value ELSE Bad
      [] current \in Ints    -> AsInt(value)
      [] current \in Floats  -> AsFloat(value)
      [] current \in Strings ->
            CASE value \in Booleans -> Bad
              [] value \in Strings -> value
              [] value \in Ints -> "digits"
              [] OTHER -> "word"
      [] OTHER -> value

\* _from_env: a boolean setting is compared with the ways to say yes, any other
\* takes the value as JSON or, when it is none, as a string.
FromString(value, current) ==
    IF current \in Booleans THEN IF value = "true" THEN "true" ELSE "false"
    ELSE value

Ends(how) ==
    /\ phase' = how
    /\ UNCHANGED <<inputs, cfg, monitors>>

\* find_config_file, json.loads and _apply.  A section that is no object takes
\* the place of the dataclass.  video.monitors is a list by default, which
\* takes every value; the lists are what is chosen here.  The settings come in
\* the order of the file, and the first that raises ends it.
Read(s) == Coerce(file[s], cfg[s])
ReadFile ==
    /\ phase = "file"
    /\ \/ fileKind \in RefusedFiles /\ Ends("refused")
       \/ fileKind = "unreadable" /\ Ends("crashed")
       \/ fileKind \in {"none", "section is no object"} /\ Ends("env")
       \/ /\ fileKind = "settings"
          /\ \E s \in Given(file) : Read(s) = Bad
          /\ Ends("refused")
       \/ /\ fileKind = "settings"
          /\ \E s \in Given(file) : Read(s) = Uncaught
          /\ Ends("crashed")
       \/ /\ fileKind = "settings"
          /\ \A s \in Given(file) : Read(s) \notin {Bad, Uncaught}
          /\ cfg' = [s \in Settings |-> IF s \in Given(file) THEN Read(s) ELSE cfg[s]]
          /\ monitors' \in MonitorLists \cup {DefaultMonitors}
          /\ phase' = "env"
          /\ UNCHANGED inputs

\* Fault: a variable that is not set counts as null.
FaultAll == Settings
\* Fault: a setting of the file is kept.
FaultOverridden == {s \in Settings : env[s] # Absent /\ file[s] = Absent}
Overridden == {s \in Settings : env[s] # Absent}

\* fields() raises TypeError for what is no dataclass, json.loads ValueError or
\* RecursionError for what is overlong.
EnvRaises ==
    \/ fileKind = "section is no object"
    \/ \E s \in Settings : env[s] = Overlong /\ cfg[s] \notin Booleans
FromEnv ==
    /\ phase = "env"
    /\ \/ EnvRaises /\ Ends("crashed")
       \/ /\ ~EnvRaises
          /\ cfg' = [s \in Settings |-> IF s \in Overridden THEN FromString(env[s], cfg[s])
                                        ELSE cfg[s]]
          /\ phase' = "cli"
          /\ UNCHANGED <<inputs, monitors>>

\* --log-level is converted to what logging.level is after the environment.
Override ==
    /\ phase = "cli"
    /\ \/ cli = Absent /\ Ends("check")
       \/ cli # Absent /\ Coerce(cli, cfg["level"]) = Bad /\ Ends("refused")
       \/ /\ cli # Absent /\ Coerce(cli, cfg["level"]) # Bad
          /\ cfg' = [cfg EXCEPT !["level"] = Coerce(cli, @)]
          /\ phase' = "check"
          /\ UNCHANGED <<inputs, monitors>>

\* _normalise_monitors: int raises TypeError, ValueError or OverflowError for what
\* is no number or no finite one.
EntryVerdict(entry) ==
    CASE entry \in {"short region", "word"} -> "refused"
      [] entry \in {"unnumbered region", "no list"} -> "crashed"
      [] OTHER -> "loaded"

\* IdentityConfig.validate.
OsName == IF cfg["os_name"] = "Windows" THEN "loaded" ELSE "refused"

\* validate compares with <= 0, which raises TypeError for all but numbers and
\* booleans; true is 1, and no comparison holds for nan.
Positive(value) ==
    CASE value \in {"zero", "negative", "false"} -> "refused"
      [] value \in (Ints \cup Floats \cup {"true"}) \ {"zero", "negative"} -> "loaded"
      [] OTHER -> "crashed"
\* Fault: any positive size will do.
FaultDimension(value) == IF value = "null" THEN "loaded" ELSE Positive(value)
Dimension(value) ==
    CASE value = "null" -> "loaded"
      [] value \in {"seven", "odd float", "infinite", "nan", "true"} -> "refused"
      [] OTHER -> Positive(value)

Count == IF Len(monitors) \in 1 .. MaxMonitors THEN "loaded" ELSE "refused"
BothOrNeither ==
    IF (cfg["width"] = "null") = (cfg["height"] = "null") THEN "loaded" ELSE "refused"

\* configure calls level.upper().  An unknown name is replaced by INFO.
LevelVerdict == IF cfg["level"] \in Strings THEN "loaded" ELSE "crashed"

\* What load asks, in this order.
Verdicts ==
    [i \in DOMAIN monitors |-> EntryVerdict(monitors[i])]
        \o <<OsName, Count, BothOrNeither, Dimension(cfg["width"]), Dimension(cfg["height"]),
             Positive(cfg["fps"]), LevelVerdict>>

\* The first answer that is not "loaded" is the end.
Check ==
    /\ phase = "check"
    /\ \/ /\ \A i \in DOMAIN Verdicts : Verdicts[i] = "loaded"
          /\ Ends("loaded")
       \/ \E i \in DOMAIN Verdicts :
             /\ Verdicts[i] # "loaded"
             /\ \A j \in 1 .. i - 1 : Verdicts[j] = "loaded"
             /\ Ends(Verdicts[i])

ConfigNext == ReadFile \/ FromEnv \/ Override \/ Check

----------------------------------------------------------------------------
(* Properties.                                                             *)

ConfigTypeOK ==
    /\ phase \in {"file", "env", "cli", "check", "loaded", "refused", "crashed", "served"}
    /\ fileKind \in FileKinds
    /\ file \in Layers(Values) /\ env \in Layers(Values \cup {Overlong})
    /\ cli \in Strings \cup {Absent}
    /\ cfg \in [Settings -> Values]
    /\ monitors \in Seq(Entries)

\* The command line goes before the environment, that before the file and the
\* file before the defaults, for every setting and however the layers type it.
LaterLayersWin ==
    phase = "loaded" =>
        \A s \in Settings :
            LET fromFile == IF file[s] = Absent THEN Default[s] ELSE Coerce(file[s], Default[s])
                fromEnv  == IF env[s] = Absent THEN fromFile ELSE FromString(env[s], fromFile)
            IN cfg[s] = IF s = "level" /\ cli # Absent THEN cli ELSE fromEnv

\* What the code leaves to raise something else than ConfigError: a file that
\* cannot be read, a section that is no object, what the environment sets, the
\* size, whose default has no type, a number that is too large for the type of
\* the setting, and monitors or regions that are none.
UntypedInput ==
    \/ fileKind \in {"unreadable", "section is no object"}
    \/ Given(env) # {}
    \/ Given(file) \cap {"width", "height"} # {}
    \/ \E s \in Given(file) : \/ file[s] = "infinite" /\ Default[s] \in Ints
                              \/ file[s] = "gigantic" /\ Default[s] \in Floats
    \/ \E i \in DOMAIN monitors : monitors[i] \in {"unnumbered region", "no list"}

=============================================================================
