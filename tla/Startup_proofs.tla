--------------------------- MODULE Startup_proofs ---------------------------
(***************************************************************************)
(* Theorems about Startup and the Config it extends, for every bound and   *)
(* all lists of monitors and values they draw from, and their proofs.      *)
(***************************************************************************)
EXTENDS Startup, TLAPS

USE ConfigAssumption, StartupAssumption DEF ConfigAssumption, StartupAssumption

----------------------------------------------------------------------------
(* The inductive invariant of the configuration.                           *)

\* What the layers applied so far make of a setting.
FromFile(s)  == IF file[s] = Absent THEN Default[s] ELSE Coerce(file[s], Default[s])
Layered(s)   == IF env[s] = Absent THEN FromFile(s) ELSE FromString(env[s], FromFile(s))
Final(s)     == IF s = "level" /\ cli # Absent THEN Coerce(cli, Layered(s)) ELSE Layered(s)

LayersInv ==
    /\ phase = "file" /\ fileKind # "settings" => \A s \in Settings : file[s] = Absent
    /\ phase = "file" => cfg = Default
    /\ phase = "env" /\ fileKind # "section is no object" =>
          \A s \in Settings : cfg[s] = FromFile(s)
    /\ phase = "cli" => \A s \in Settings : cfg[s] = Layered(s)
    /\ phase \in {"check", "loaded"} => \A s \in Settings : cfg[s] = Final(s)

\* What is accepted has been checked, and only then sessions start.
CheckedInv ==
    /\ phase \in {"loaded", "served"} =>
          /\ \A i \in DOMAIN monitors : EntryVerdict(monitors[i]) = "loaded"
          /\ Count = "loaded"
          /\ Dimension(cfg["width"]) = "loaded" /\ Dimension(cfg["height"]) = "loaded"
    /\ phase = "loaded" => LevelVerdict = "loaded"
    /\ phase = "crashed" => UntypedInput
    /\ pc # "down" => phase = "served"

ConfigInv == ConfigTypeOK /\ LayersInv /\ CheckedInv

----------------------------------------------------------------------------
(* The operators of Config.                                                *)

LEMMA SettingsAre ==
  /\ Settings = {"enabled", "fps", "width", "height", "encoder", "source", "level", "os_name",
                 "timeout"}
  /\ Default \in [Settings -> Values]
  /\ Default["fps"] = "seven" /\ Default["level"] = "word"
  /\ Default["width"] = "null" /\ Default["height"] = "null"
<1>1. Settings = {"enabled", "fps", "width", "height", "encoder", "source", "level", "os_name",
                  "timeout"}
  BY DEF Settings, Default
<1>2. {"true", "seven", "null", "h264_vaapi", "auto", "word", "Windows", "odd float"} \subseteq Values
  BY DEF Values, Ints, Floats, Booleans, Strings
<1>3. /\ Default["enabled"] = "true" /\ Default["fps"] = "seven" /\ Default["width"] = "null"
      /\ Default["height"] = "null" /\ Default["encoder"] = "h264_vaapi"
      /\ Default["source"] = "auto" /\ Default["level"] = "word"
      /\ Default["os_name"] = "Windows" /\ Default["timeout"] = "odd float"
  BY DEF Default
<1>4. \A s \in Settings : Default[s] \in Values
  BY <1>1, <1>2, <1>3
<1>5. Default = [s \in Settings |-> Default[s]]
  BY DEF Default, Settings
<1> QED
  BY <1>1, <1>3, <1>4, <1>5

LEMMA NumbersAre ==
  ASSUME NEW v \in Values
  PROVE  /\ AsInt(v) \in Ints \cup {Bad, Uncaught}
         /\ AsFloat(v) \in Floats \cup {"zero", "negative", "huge", Bad, Uncaught}
         /\ AsInt(v) = Uncaught => v = "infinite"
         /\ AsFloat(v) = Uncaught => v = "gigantic"
  BY DEF AsInt, AsFloat, Values, Ints, Floats, Booleans, Strings, Bad, Uncaught

LEMMA CoerceType ==
  ASSUME NEW v \in Values, NEW c \in Values
  PROVE  /\ Coerce(v, c) \in Values \cup {Bad, Uncaught}
         /\ c \in Ints => Coerce(v, c) \in Ints \cup {Bad, Uncaught}
         /\ c \in Strings => Coerce(v, c) \in Strings \cup {Bad}
         /\ v \in Strings /\ Coerce(v, c) \in Strings => Coerce(v, c) = v
         /\ v \in {"word", "digits"} /\ c \in Strings => Coerce(v, c) = v
         /\ Coerce(v, c) = Uncaught => (c \in Ints /\ v = "infinite") \/ (c \in Floats /\ v = "gigantic")
<1>1. CASE c \in Ints
  <2>1. Coerce(v, c) = AsInt(v) /\ c \notin Strings
    BY <1>1 DEF Coerce, Ints, Floats, Booleans, Strings
  <2>2. Ints \subseteq Values /\ \A x \in Ints \cup {Bad, Uncaught} : x \notin Strings
    BY DEF Values, Ints, Strings, Bad, Uncaught
  <2> QED
    BY <1>1, <2>1, <2>2, NumbersAre
<1>2. CASE c \in Floats
  <2>1. Coerce(v, c) = AsFloat(v) /\ c \notin Strings /\ c \notin Ints
    BY <1>2 DEF Coerce, Ints, Floats, Booleans, Strings
  <2>2. /\ Floats \cup {"zero", "negative", "huge"} \subseteq Values
        /\ \A x \in Floats \cup {"zero", "negative", "huge", Bad, Uncaught} : x \notin Strings
    BY DEF Values, Ints, Floats, Strings, Bad, Uncaught
  <2> QED
    BY <1>2, <2>1, <2>2, NumbersAre
<1>3. CASE c \notin Ints \cup Floats
  <2>1. /\ {"digits", "word"} \subseteq Strings /\ Strings \subseteq Values
        /\ Bad \notin Strings /\ Uncaught \notin Values \cup {Bad}
        /\ Booleans \cap Strings = {} /\ Ints \cap Strings = {}
    BY DEF Values, Ints, Floats, Booleans, Strings, Bad, Uncaught
  <2>2. Coerce(v, c) \in {v, Bad} \/ (c \in Strings /\ v \notin Strings /\ Coerce(v, c) \in {"digits", "word"})
    <3>1. CASE c \in Booleans
      <4>1. c \notin Strings
        BY <2>1, <3>1
      <4>2. Coerce(v, c) = IF v \in Booleans THEN v ELSE Bad
        BY <1>3, <3>1, <4>1 DEF Coerce
      <4> QED
        BY <4>2
    <3>2. CASE c \in Strings
      BY <1>3, <2>1, <3>2 DEF Coerce
    <3>3. CASE c \notin Booleans \cup Strings
      BY <1>3, <3>3 DEF Coerce
    <3> QED
      BY <3>1, <3>2, <3>3
  <2>3. c \in Strings => Coerce(v, c) \in Strings \cup {Bad} /\ (v \in Strings => Coerce(v, c) = v)
    BY <1>3, <2>1 DEF Coerce
  <2>4. v \in Strings /\ Coerce(v, c) \in Strings => Coerce(v, c) = v
    BY <2>1, <2>2
  <2> QED
    BY <1>3, <2>1, <2>2, <2>3, <2>4
<1> QED
  BY <1>1, <1>2, <1>3

LEMMA FromStringType ==
  ASSUME NEW v \in Values \cup {Overlong}, NEW c, v = Overlong => c \in Booleans
  PROVE  FromString(v, c) \in Values
  BY DEF FromString, Values, Booleans

LEMMA Constants ==
  /\ Absent \notin Values /\ Bad \notin Values /\ Uncaught \notin Values
  /\ "word" \in Strings /\ "digits" \in Strings /\ Strings \subseteq Values
  BY DEF Absent, Bad, Uncaught, Values, Ints, Floats, Booleans, Strings

LEMMA Concatenated ==
  ASSUME NEW T, NEW s \in Seq(T), NEW u \in Seq(T)
  PROVE  /\ DOMAIN (s \o u) = 1 .. Len(s) + Len(u)
         /\ \A i \in 1 .. Len(s) : (s \o u)[i] = s[i]
         /\ \A k \in 1 .. Len(u) : (s \o u)[Len(s) + k] = u[k]
  OBVIOUS

LEMMA FirstMonitors == DefaultMonitors \in Seq(Entries)
<1>1. "null" \in Entries
  BY DEF Entries
<1> QED
  BY <1>1 DEF DefaultMonitors

LEMMA VerdictsAre ==
  ASSUME ConfigTypeOK
  PROVE  LET n == Len(monitors)
         IN /\ DOMAIN Verdicts = 1 .. n + 7
            /\ \A i \in 1 .. n : Verdicts[i] = EntryVerdict(monitors[i])
            /\ Verdicts[n + 1] = OsName
            /\ Verdicts[n + 2] = Count
            /\ Verdicts[n + 3] = BothOrNeither
            /\ Verdicts[n + 4] = Dimension(cfg["width"])
            /\ Verdicts[n + 5] = Dimension(cfg["height"])
            /\ Verdicts[n + 6] = Positive(cfg["fps"])
            /\ Verdicts[n + 7] = LevelVerdict
<1> DEFINE n == Len(monitors)
           entries == [i \in DOMAIN monitors |-> EntryVerdict(monitors[i])]
           rest == <<OsName, Count, BothOrNeither, Dimension(cfg["width"]), Dimension(cfg["height"]),
                     Positive(cfg["fps"]), LevelVerdict>>
           T == {"loaded", "refused", "crashed"}
<1>1. monitors \in Seq(Entries) /\ n \in Nat /\ DOMAIN monitors = 1 .. n
  BY DEF ConfigTypeOK
<1>2. \A e : EntryVerdict(e) \in T
  BY DEF EntryVerdict
<1>3. entries \in [1 .. n -> T]
  BY <1>1, <1>2
<1>4. entries \in Seq(T) /\ Len(entries) = n
  BY <1>1, <1>3
<1>5. /\ OsName \in T /\ Count \in T /\ BothOrNeither \in T /\ LevelVerdict \in T
      /\ \A v : Positive(v) \in T
  BY DEF OsName, Count, BothOrNeither, LevelVerdict, Positive
<1>6. \A v : Dimension(v) \in T
  BY <1>5 DEF Dimension
<1>7. rest \in Seq(T) /\ Len(rest) = 7
  BY <1>5, <1>6
<1>8. Verdicts = entries \o rest
  BY DEF Verdicts
<1> HIDE DEF entries, rest, T
<1>9. /\ DOMAIN Verdicts = 1 .. n + 7
      /\ \A i \in 1 .. n : Verdicts[i] = entries[i]
      /\ \A k \in 1 .. 7 : Verdicts[n + k] = rest[k]
  <2>1. /\ DOMAIN (entries \o rest) = 1 .. Len(entries) + Len(rest)
        /\ \A i \in 1 .. Len(entries) : (entries \o rest)[i] = entries[i]
        /\ \A k \in 1 .. Len(rest) : (entries \o rest)[Len(entries) + k] = rest[k]
    <3>1. entries \in Seq(T) /\ rest \in Seq(T)
      BY <1>4, <1>7
    <3> QED
      BY <3>1, Concatenated
  <2> QED
    BY <1>4, <1>7, <1>8, <2>1, Zenon
<1>10. \A i \in 1 .. n : entries[i] = EntryVerdict(monitors[i])
  BY <1>1 DEF entries
<1>11. /\ rest[1] = OsName /\ rest[2] = Count /\ rest[3] = BothOrNeither
       /\ rest[4] = Dimension(cfg["width"]) /\ rest[5] = Dimension(cfg["height"])
       /\ rest[6] = Positive(cfg["fps"]) /\ rest[7] = LevelVerdict
  BY DEF rest
<1> HIDE DEF n
<1>12. /\ Verdicts[n + 1] = rest[1] /\ Verdicts[n + 2] = rest[2] /\ Verdicts[n + 3] = rest[3]
       /\ Verdicts[n + 4] = rest[4] /\ Verdicts[n + 5] = rest[5] /\ Verdicts[n + 6] = rest[6]
       /\ Verdicts[n + 7] = rest[7]
  <2>1. {1, 2, 3, 4, 5, 6, 7} \subseteq 1 .. 7
    OBVIOUS
  <2> QED
    BY <1>9, <2>1, Zenon
<1> QED
  BY <1>9, <1>10, <1>11, <1>12, Zenon DEF n

----------------------------------------------------------------------------
(* Loading the configuration.                                              *)

LEMMA ConfigInitInv == Init => ConfigInv
<1> SUFFICES ASSUME Init PROVE ConfigInv
  OBVIOUS
<1>1. /\ phase = "file" /\ pc = "down" /\ cfg = Default /\ monitors = DefaultMonitors
      /\ fileKind \in FileKinds /\ cli \in {Absent, "word", "digits"}
  BY DEF Init, ConfigInit
<1>2. PICK S \in SUBSET Settings, T \in SUBSET Settings :
         /\ fileKind # "settings" => S = {}
         /\ \E f \in [S -> FileValues], e \in [T -> EnvValues] :
               /\ file = [s \in Settings |-> IF s \in S THEN f[s] ELSE Absent]
               /\ env = [s \in Settings |-> IF s \in T THEN e[s] ELSE Absent]
  BY DEF Init, ConfigInit
<1>3. file \in Layers(Values) /\ env \in Layers(Values \cup {Overlong})
  BY <1>2 DEF Layers
<1>4. ConfigTypeOK
  <2>1. monitors \in Seq(Entries)
    BY <1>1, FirstMonitors
  <2> QED
    BY <1>1, <1>3, <2>1, SettingsAre, Constants DEF ConfigTypeOK
<1>5. LayersInv
  BY <1>1, <1>2 DEF LayersInv
<1>6. CheckedInv
  BY <1>1 DEF CheckedInv
<1> QED
  BY <1>4, <1>5, <1>6 DEF ConfigInv

\* A setting read with the layers' types is a value.
LEMMA LayerTypes ==
  ASSUME ConfigTypeOK, NEW s \in Settings
  PROVE  /\ FromFile(s) \in Values \cup {Bad, Uncaught}
         /\ file[s] \in Values \cup {Absent} /\ env[s] \in Values \cup {Absent, Overlong}
         /\ Default[s] \in Values
<1>1. /\ file[s] \in Values \cup {Absent} /\ env[s] \in Values \cup {Absent, Overlong}
      /\ Default[s] \in Values
  BY SettingsAre DEF ConfigTypeOK, Layers
<1>2. FromFile(s) \in Values \cup {Bad, Uncaught}
  BY <1>1, CoerceType DEF FromFile
<1> QED
  BY <1>1, <1>2

LEMMA ReadFileStep == ASSUME ConfigInv, ReadFile, pc' = pc PROVE ConfigInv'
<1> USE DEF ConfigInv
<1>1. phase = "file" /\ cfg = Default /\ pc = "down" /\ UNCHANGED inputs
  BY DEF ReadFile, Ends, LayersInv, CheckedInv
<1>2. ASSUME NEW how \in {"refused", "env", "crashed"}, Ends(how),
             how = "env" => fileKind \in {"none", "section is no object"},
             how = "crashed" => UntypedInput
      PROVE  ConfigInv'
  <2>1. phase' = how /\ UNCHANGED <<fileKind, file, env, cli, cfg, monitors>>
    BY <1>2 DEF Ends, inputs
  <2>2. ConfigTypeOK'
    BY <2>1 DEF ConfigTypeOK
  <2>3. LayersInv'
    BY <1>1, <1>2, <2>1 DEF LayersInv, FromFile
  <2>4. UntypedInput' <=> UntypedInput
    BY <2>1 DEF UntypedInput, Given
  <2>5. CheckedInv'
    BY <1>1, <1>2, <2>1, <2>4 DEF CheckedInv
  <2> QED
    BY <2>2, <2>3, <2>5
<1>3. ASSUME /\ fileKind = "settings"
             /\ \A s \in Given(file) : Read(s) \notin {Bad, Uncaught}
             /\ cfg' = [s \in Settings |-> IF s \in Given(file) THEN Read(s) ELSE cfg[s]]
             /\ monitors' \in MonitorLists \cup {DefaultMonitors}
             /\ phase' = "env"
      PROVE  ConfigInv'
  <2>1. UNCHANGED <<fileKind, file, env, cli>>
    BY <1>1 DEF inputs
  <2>2. \A s \in Settings : cfg'[s] = FromFile(s) /\ cfg'[s] \notin {Bad, Uncaught}
    <3> TAKE s \in Settings
    <3>1. Default[s] \in Values /\ Bad \notin Values /\ Uncaught \notin Values
      BY LayerTypes, Constants
    <3> QED
      BY <1>1, <1>3, <3>1 DEF FromFile, Given, Read
  <2>3. cfg' \in [Settings -> Values]
    <3>1. \A s \in Settings : cfg'[s] \in Values
      BY <2>2, LayerTypes
    <3> QED
      BY <1>3, <3>1
  <2>4. monitors' \in Seq(Entries)
    BY <1>3, FirstMonitors
  <2>5. ConfigTypeOK'
    BY <1>3, <2>1, <2>3, <2>4 DEF ConfigTypeOK
  <2>6. LayersInv'
    BY <1>3, <2>1, <2>2 DEF LayersInv, FromFile
  <2>7. CheckedInv'
    BY <1>1, <1>3 DEF CheckedInv
  <2> QED
    BY <2>5, <2>6, <2>7
<1>4. ASSUME NEW s \in Given(file), Read(s) = Uncaught PROVE UntypedInput
  <2>1. file[s] \in Values /\ Default[s] \in Values
    BY LayerTypes DEF Given
  <2>2. \/ file[s] = "infinite" /\ Default[s] \in Ints
        \/ file[s] = "gigantic" /\ Default[s] \in Floats
    BY <1>1, <1>4, <2>1, CoerceType DEF Read
  <2> QED
    BY <2>2 DEF UntypedInput
<1>5. fileKind = "unreadable" => UntypedInput
  BY DEF UntypedInput
<1> QED
  BY <1>1, <1>2, <1>3, <1>4, <1>5 DEF ReadFile

LEMMA FromEnvStep == ASSUME ConfigInv, FromEnv, pc' = pc PROVE ConfigInv'
<1> USE DEF ConfigInv
<1>1. phase = "env" /\ pc = "down" /\ UNCHANGED <<fileKind, file, env, cli, monitors>>
  BY DEF FromEnv, Ends, inputs, CheckedInv
<1>2. CASE EnvRaises /\ Ends("crashed")
  <2>1. phase' = "crashed" /\ cfg' = cfg
    BY <1>2 DEF Ends
  <2>2. UntypedInput
    BY <1>2 DEF EnvRaises, UntypedInput, Given, Overlong, Absent
  <2>3. UntypedInput'
    BY <1>1, <2>2 DEF UntypedInput, Given
  <2> QED
    BY <1>1, <2>1, <2>3 DEF ConfigTypeOK, LayersInv, CheckedInv
<1>3. CASE /\ ~EnvRaises
           /\ cfg' = [s \in Settings |-> IF s \in Overridden THEN FromString(env[s], cfg[s])
                                         ELSE cfg[s]]
           /\ phase' = "cli"
  <2>1. \A s \in Settings : cfg'[s] = Layered(s)
    BY <1>1, <1>3 DEF LayersInv, Layered, Overridden, EnvRaises
  <2>2. cfg' \in [Settings -> Values]
    <3>1. \A s \in Settings : cfg'[s] \in Values
      <4> TAKE s \in Settings
      <4>1. cfg[s] \in Values /\ env[s] \in Values \cup {Absent, Overlong}
        BY LayerTypes DEF ConfigTypeOK
      <4>2. env[s] = Overlong => cfg[s] \in Booleans
        BY <1>3 DEF EnvRaises
      <4> QED
        BY <1>3, <4>1, <4>2, FromStringType DEF Overridden
    <3> QED
      BY <1>3, <3>1
  <2>3. ConfigTypeOK'
    BY <1>1, <1>3, <2>2 DEF ConfigTypeOK
  <2>4. LayersInv'
    BY <1>1, <1>3, <2>1 DEF LayersInv, Layered, FromFile
  <2>5. CheckedInv'
    BY <1>1, <1>3 DEF CheckedInv
  <2> QED
    BY <2>3, <2>4, <2>5
<1> QED
  BY <1>2, <1>3 DEF FromEnv

LEMMA OverrideStep == ASSUME ConfigInv, Override, pc' = pc PROVE ConfigInv'
<1> USE DEF ConfigInv
<1>1. phase = "cli" /\ pc = "down" /\ UNCHANGED <<fileKind, file, env, cli, monitors>>
  BY DEF Override, Ends, inputs, CheckedInv
<1>2. CASE cli = Absent /\ Ends("check")
  <2>1. phase' = "check" /\ cfg' = cfg
    BY <1>2 DEF Ends
  <2> QED
    BY <1>1, <1>2, <2>1 DEF ConfigTypeOK, LayersInv, CheckedInv, Final, Layered, FromFile
<1>3. CASE Ends("refused")
  <2>1. phase' = "refused" /\ cfg' = cfg
    BY <1>3 DEF Ends
  <2> QED
    BY <1>1, <2>1 DEF ConfigTypeOK, LayersInv, CheckedInv
<1>4. CASE /\ cli # Absent /\ Coerce(cli, cfg["level"]) # Bad
           /\ cfg' = [cfg EXCEPT !["level"] = Coerce(cli, @)]
           /\ phase' = "check"
  <2>1. "level" \in Settings /\ cfg["level"] \in Values /\ cli \in Values
    BY <1>4, SettingsAre, Constants DEF ConfigTypeOK
  <2>2. Coerce(cli, cfg["level"]) \in Values
    <3>1. cli \in Strings /\ "infinite" \notin Strings /\ "gigantic" \notin Strings
      BY <1>4 DEF ConfigTypeOK, Strings
    <3> QED
      BY <1>4, <2>1, <3>1, CoerceType
  <2>3. ConfigTypeOK'
    BY <1>1, <1>4, <2>1, <2>2 DEF ConfigTypeOK
  <2>4. \A s \in Settings : cfg'[s] = Final(s)
    BY <1>1, <1>4, <2>1 DEF ConfigTypeOK, LayersInv, Final
  <2>5. LayersInv'
    BY <1>1, <1>4, <2>4 DEF LayersInv, Final, Layered, FromFile
  <2>6. CheckedInv'
    BY <1>1, <1>4 DEF CheckedInv
  <2> QED
    BY <2>3, <2>5, <2>6
<1> QED
  BY <1>2, <1>3, <1>4 DEF Override

\* A verdict that is an exception is about something the code does not type.
LEMMA CrashIsUntyped ==
  ASSUME ConfigInv, phase = "check",
         NEW i \in DOMAIN Verdicts, Verdicts[i] = "crashed"
  PROVE  UntypedInput
<1> DEFINE n == Len(monitors)
<1>1. ConfigTypeOK /\ \A s \in Settings : cfg[s] = Final(s) /\ cfg[s] \in Values
  BY DEF ConfigInv, LayersInv, ConfigTypeOK
<1>2. SUFFICES ASSUME Given(env) = {}, Given(file) \cap {"width", "height"} = {},
                      \A k \in DOMAIN monitors :
                         monitors[k] \notin {"unnumbered region", "no list"}
               PROVE  FALSE
  BY DEF UntypedInput
<1>3. \A s \in Settings : Layered(s) = FromFile(s)
  BY <1>2 DEF Given, Layered
<1>4. cfg["width"] = "null" /\ cfg["height"] = "null"
  <2>1. \A s \in {"width", "height"} : file[s] = Absent
    BY <1>2, SettingsAre DEF Given
  <2> QED
    BY <1>1, <1>3, <2>1, SettingsAre DEF Final, FromFile
<1>5. cfg["fps"] \in Ints
  <2>1. cfg["fps"] = FromFile("fps") /\ cfg["fps"] \notin {Bad, Uncaught}
    BY <1>1, <1>3, SettingsAre, Constants DEF Final
  <2>2. Default["fps"] \in Ints
    BY SettingsAre DEF Ints
  <2>3. file["fps"] # Absent => Coerce(file["fps"], Default["fps"]) \in Ints \cup {Bad, Uncaught}
    BY <1>1, <2>2, SettingsAre, LayerTypes, CoerceType
  <2> QED
    BY <2>1, <2>2, <2>3 DEF FromFile
<1>6. cfg["level"] \in Strings
  <2>1. "level" \in Settings /\ Default["level"] \in Strings
    BY SettingsAre, Constants
  <2>2. FromFile("level") \in Strings \cup {Bad}
    BY <1>1, <2>1, LayerTypes, CoerceType DEF FromFile
  <2>3. cfg["level"] = IF cli # Absent THEN Coerce(cli, FromFile("level")) ELSE FromFile("level")
    BY <1>1, <1>3, <2>1 DEF Final
  <2>4. CASE cli = Absent
    BY <1>1, <2>1, <2>2, <2>3, <2>4, Constants
  <2>5. CASE cli # Absent
    <3>1. cli \in Strings
      BY <1>1, <2>5 DEF ConfigTypeOK
    <3>2. CASE FromFile("level") \in Strings
      <4>1. Coerce(cli, FromFile("level")) \in Strings \cup {Bad}
        BY <3>1, <3>2, CoerceType, Constants
      <4> QED
        BY <1>1, <2>1, <2>3, <2>5, <4>1, Constants
    <3>3. CASE FromFile("level") = Bad
      <4>1. Coerce(cli, Bad) = cli
        BY DEF Coerce, Bad, Ints, Floats, Booleans, Strings
      <4> QED
        BY <2>3, <2>5, <3>1, <3>3, <4>1
    <3> QED
      BY <2>2, <3>2, <3>3
  <2> QED
    BY <2>4, <2>5
<1>7. /\ OsName # "crashed" /\ Count # "crashed" /\ BothOrNeither # "crashed"
      /\ Dimension(cfg["width"]) # "crashed" /\ Dimension(cfg["height"]) # "crashed"
      /\ Positive(cfg["fps"]) # "crashed" /\ LevelVerdict # "crashed"
  BY <1>4, <1>5, <1>6 DEF OsName, Count, BothOrNeither, Dimension, Positive, LevelVerdict, Ints
<1>8. \A k \in 1 .. n : EntryVerdict(monitors[k]) # "crashed"
  <2>1. \A k \in 1 .. n : monitors[k] \notin {"unnumbered region", "no list"}
    <3>1. monitors \in Seq(Entries)
      BY <1>1 DEF ConfigTypeOK
    <3>2. DOMAIN monitors = 1 .. n
      BY <3>1
    <3> QED
      BY <1>2, <3>2, Zenon
  <2> QED
    BY <2>1 DEF EntryVerdict
<1>9. /\ n \in Nat /\ DOMAIN Verdicts = 1 .. n + 7
      /\ \A k \in 1 .. n : Verdicts[k] # "crashed"
      /\ \A k \in 1 .. 7 : Verdicts[n + k] # "crashed"
  <2>1. n \in Nat
    BY <1>1 DEF ConfigTypeOK
  <2>2. \A k \in 1 .. 7 : k = 1 \/ k = 2 \/ k = 3 \/ k = 4 \/ k = 5 \/ k = 6 \/ k = 7
    OBVIOUS
  <2> QED
    BY <1>1, <1>7, <1>8, <2>1, <2>2, VerdictsAre
<1>10. i \in 1 .. n \/ \E k \in 1 .. 7 : i = n + k
  <2>1. i \in 1 .. n \/ (i - n \in 1 .. 7 /\ i = n + (i - n))
    BY <1>9
  <2> QED
    BY <2>1
<1> QED
  BY <1>9, <1>10

LEMMA VerdictValues ==
  ASSUME ConfigTypeOK
  PROVE  \A i \in DOMAIN Verdicts : Verdicts[i] \in {"loaded", "refused", "crashed"}
<1> DEFINE n == Len(monitors)
           T == {"loaded", "refused", "crashed"}
<1>1. n \in Nat
  BY DEF ConfigTypeOK
<1>2. /\ OsName \in T /\ Count \in T /\ BothOrNeither \in T /\ LevelVerdict \in T
      /\ \A v : Positive(v) \in T
  BY DEF OsName, Count, BothOrNeither, LevelVerdict, Positive
<1>3. (\A v : Dimension(v) \in T) /\ \A e : EntryVerdict(e) \in T
  BY <1>2 DEF Dimension, EntryVerdict
<1>4. \A i \in 1 .. n + 7 :
         \/ i \in 1 .. n
         \/ i = n + 1 \/ i = n + 2 \/ i = n + 3 \/ i = n + 4 \/ i = n + 5 \/ i = n + 6
         \/ i = n + 7
  BY <1>1
<1> QED
  BY <1>2, <1>3, <1>4, VerdictsAre

LEMMA CheckStep == ASSUME ConfigInv, Check, pc' = pc PROVE ConfigInv'
<1> USE DEF ConfigInv
<1>1. phase = "check" /\ pc = "down" /\ UNCHANGED <<fileKind, file, env, cli, cfg, monitors>>
  BY DEF Check, Ends, inputs, CheckedInv
<1>2. phase' \in {"loaded", "refused", "crashed"}
  <2>1. \A i \in DOMAIN Verdicts : Verdicts[i] \in {"loaded", "refused", "crashed"}
    BY VerdictValues
  <2> QED
    BY <2>1 DEF Check, Ends
<1>3. ConfigTypeOK'
  BY <1>1, <1>2 DEF ConfigTypeOK
<1>4. LayersInv'
  BY <1>1, <1>2 DEF LayersInv, Final, Layered, FromFile
<1>5. CASE phase' = "loaded"
  <2>1. \A i \in DOMAIN Verdicts : Verdicts[i] = "loaded"
    BY <1>5 DEF Check, Ends
  <2>2. /\ \A i \in DOMAIN monitors : EntryVerdict(monitors[i]) = "loaded"
        /\ Count = "loaded" /\ LevelVerdict = "loaded"
        /\ Dimension(cfg["width"]) = "loaded" /\ Dimension(cfg["height"]) = "loaded"
    <3> DEFINE n == Len(monitors)
    <3>1. n \in Nat /\ DOMAIN monitors = 1 .. n
      BY DEF ConfigTypeOK
    <3>2. /\ DOMAIN Verdicts = 1 .. n + 7 /\ 1 .. n \subseteq 1 .. n + 7
          /\ {n + 2, n + 4, n + 5, n + 7} \subseteq 1 .. n + 7
      BY <3>1, VerdictsAre
    <3> QED
      BY <2>1, <3>1, <3>2, VerdictsAre
  <2> QED
    BY <1>1, <1>3, <1>4, <1>5, <2>2 DEF CheckedInv, Count, LevelVerdict
<1>6. CASE phase' = "refused"
  BY <1>1, <1>3, <1>4, <1>6 DEF CheckedInv
<1>7. CASE phase' = "crashed"
  <2>1. PICK i \in DOMAIN Verdicts : Verdicts[i] = "crashed"
    BY <1>7 DEF Check, Ends
  <2>2. UntypedInput
    BY <1>1, <2>1, CrashIsUntyped
  <2> QED
    BY <1>1, <1>3, <1>4, <1>7, <2>2 DEF CheckedInv, UntypedInput, Given
<1> QED
  BY <1>2, <1>5, <1>6, <1>7
----------------------------------------------------------------------------
(* The configuration stays as it was accepted.                             *)

Session ==
    \/ Begin \/ ChooseSource \/ ChooseEncoder \/ Environment \/ Geometry
    \/ PlanMonitor \/ ProbeVdEncoder \/ SendFormat \/ StartEncoder \/ EndSession

LEMMA NextIs == Next <=> Load \/ Serve \/ Session
  BY DEF Next, Session

LEMMA SessionKeeps ==
  Session => /\ UNCHANGED <<phase, fileKind, file, env, cli, cfg, monitors>>
             /\ pc # "down" /\ pc' # "down"
<1> SUFFICES ASSUME Session
             PROVE  UNCHANGED configVars /\ pc # "down" /\ pc' # "down"
  BY DEF configVars, inputs
<1> USE DEF To
<1>1. CASE Begin \/ ChooseSource \/ ChooseEncoder \/ Environment \/ Geometry \/ EndSession
  BY <1>1 DEF Begin, ChooseSource, ChooseEncoder, Environment, Geometry, EndSession
<1>2. CASE PlanMonitor \/ ProbeVdEncoder \/ SendFormat \/ StartEncoder
  BY <1>2 DEF PlanMonitor, ProbeVdEncoder, SendFormat, StartEncoder, Raise
<1> QED
  BY <1>1, <1>2 DEF Session

LEMMA ConfigStep == ConfigInv /\ [Next]_vars => ConfigInv'
<1> SUFFICES ASSUME ConfigInv, [Next]_vars PROVE ConfigInv'
  OBVIOUS
<1>1. ASSUME UNCHANGED <<phase, fileKind, file, env, cli, cfg, monitors>>,
             pc' # "down" => phase = "served"
      PROVE  ConfigInv'
  BY <1>1 DEF ConfigInv, ConfigTypeOK, LayersInv, CheckedInv, Final, Layered, FromFile,
              Count, LevelVerdict, UntypedInput, Given
<1>2. CASE Load
  BY <1>2, ReadFileStep, FromEnvStep, OverrideStep, CheckStep DEF Load, ConfigNext
<1>3. CASE Serve
  <2>1. /\ phase = "loaded" /\ phase' = "served" /\ pc' = "idle"
        /\ fileKind' = "none" /\ cli' = Absent
        /\ file' = [s \in Settings |-> Absent] /\ env' = [s \in Settings |-> Absent]
        /\ UNCHANGED <<cfg, monitors>>
    BY <1>3 DEF Serve
  <2>2. ConfigTypeOK'
    BY <2>1 DEF ConfigInv, ConfigTypeOK, Layers, FileKinds
  <2> QED
    BY <2>1, <2>2 DEF ConfigInv, LayersInv, CheckedInv, Count
<1>4. CASE Session
  BY <1>1, <1>4, SessionKeeps DEF ConfigInv, CheckedInv
<1>5. CASE UNCHANGED vars
  BY <1>1, <1>5 DEF vars, configVars, inputs, ConfigInv, CheckedInv
<1> QED
  BY <1>2, <1>3, <1>4, <1>5, NextIs

----------------------------------------------------------------------------
(* Types of what the sessions keep.                                        *)

Early == {"down", "idle", "source", "encoder", "environment", "geometry"}
Stages == Early \cup {"plan", "format", "start", "raised"}
Plan == [source : Values, region : {None, "given", "plain dict"}, driver : Drivers]
Encoder == [how : {"native", "vd_encoder", "ffmpeg"}, source : Values, driver : Drivers]

ChoicesOK ==
    /\ display \in BOOLEAN /\ libva \in Drivers
    /\ starts \in 0 .. MaxStarts
    /\ pc \in Stages
    /\ base \in Values \cup {None} /\ capture \in Values \cup {None}
    /\ pc \notin {"down", "idle", "source", "raised"} => capture \in Values
    /\ encoder \in {None, "h264_vaapi", "libx264"}
    /\ vaapiDriver \in Drivers /\ baseDriver \in Drivers
    /\ probed \in Drivers \cup {None} /\ fellBack \in BOOLEAN

SizesOK == primary \in Seq(Nat) /\ size \in Seq(Nat)

RunOK ==
    /\ plans \in Seq(Plan) /\ encoders \in Seq(Encoder) /\ vdEncoder \in BOOLEAN
    /\ Len(plans) <= Len(monitors) /\ Len(encoders) <= Len(plans)
    /\ pc \in Early => plans = <<>> /\ encoders = <<>>

PartsOK == ConfigInv /\ ChoicesOK /\ SizesOK /\ RunOK

LEMMA InitParts == Init => PartsOK
<1> SUFFICES ASSUME Init PROVE PartsOK
  OBVIOUS
<1>0. display \in BOOLEAN /\ fellBack \in BOOLEAN /\ vdEncoder \in BOOLEAN
  BY Zenon DEF Init
<1>1. ChoicesOK
  BY <1>0 DEF Init, ChoicesOK, Drivers, Stages, Early
<1>2. SizesOK
  BY DEF Init, SizesOK, NoSize
<1>3. RunOK
  <2>1. plans = <<>> /\ encoders = <<>> /\ Len(monitors) \in Nat
    BY DEF Init, ConfigInit, DefaultMonitors
  <2> QED
    BY <1>0, <2>1 DEF RunOK
<1> QED
  BY <1>1, <1>2, <1>3, ConfigInitInv DEF PartsOK

LEMMA ChoicesStep == PartsOK /\ [Next]_vars => ChoicesOK'
<1> SUFFICES ASSUME PartsOK, [Next]_vars PROVE ChoicesOK'
  OBVIOUS
<1> USE DEF ChoicesOK, PartsOK, Stages, Early
<1>0. None \notin Values /\ \A s \in Settings : cfg[s] \in Values
  BY DEF None, Values, Ints, Floats, Booleans, Strings, ConfigInv, ConfigTypeOK
<1>1. CASE Load \/ UNCHANGED vars
  BY <1>1 DEF Load, vars, hostVars, choices, runVars, history
<1>2. CASE Serve
  <2>1. /\ display' \in BOOLEAN /\ libva' \in Drivers /\ pc' = "idle"
        /\ UNCHANGED <<starts, choices, history>>
    BY <1>2 DEF Serve, Drivers
  <2> QED
    BY <2>1 DEF choices, history
<1>3. CASE Begin
  BY <1>3 DEF Begin, hostVars, choices, history
<1>4. CASE ChooseSource
  <2>1. base' \in Values /\ capture' \in Values
    <3>1. \A socket, wayland \in BOOLEAN : Resolved(socket, wayland) \in Values
      BY <1>0, SettingsAre DEF Resolved, Values, Strings
    <3> QED
      BY <1>4, <3>1 DEF ChooseSource, Values, Strings
  <2> QED
    BY <1>4, <2>1 DEF ChooseSource, To, hostVars, history
<1>5. CASE ChooseEncoder
  <2>1. /\ encoder' \in {"h264_vaapi", "libx264"} /\ vaapiDriver' \in Drivers
        /\ probed' \in Drivers \cup {None} /\ fellBack' \in BOOLEAN
    <3>1. \A D \in (SUBSET Tried) \ {{}} : Preferred(D) \in Drivers
      <4> TAKE D \in (SUBSET Tried) \ {{}}
      <4>1. D \subseteq Drivers
        BY DEF Tried, Drivers
      <4>2. (CHOOSE d \in D : TRUE) \in D
        <5>1. \E d \in D : TRUE
          OBVIOUS
        <5> QED
          BY <5>1, Zenon
      <4> QED
        BY <4>1, <4>2 DEF Preferred, Drivers
    <3> QED
      BY <1>5, <3>1 DEF ChooseEncoder
  <2> QED
    BY <1>5, <2>1 DEF ChooseEncoder, To, hostVars
<1>6. CASE Environment
  BY <1>6 DEF Environment, BaseDriver, To, history
<1>7. CASE Geometry
  BY <1>7 DEF Geometry, To, hostVars, history
<1>8. CASE PlanMonitor \/ ProbeVdEncoder \/ SendFormat \/ StartEncoder
  <2>1. /\ pc \in {"plan", "format", "start"} /\ pc' \in {"plan", "format", "start", "raised"}
        /\ UNCHANGED <<starts, hostVars, choices, history>>
    BY <1>8 DEF PlanMonitor, ProbeVdEncoder, SendFormat, StartEncoder, To, Raise
  <2> QED
    BY <2>1 DEF hostVars, choices, history
<1>9. CASE EndSession
  BY <1>9 DEF EndSession, To, hostVars, Drivers
<1> QED
  BY <1>1, <1>2, <1>3, <1>4, <1>5, <1>6, <1>7, <1>8, <1>9, NextIs DEF Session

LEMMA SizesStep == PartsOK /\ [Next]_vars => SizesOK'
<1> SUFFICES ASSUME PartsOK, [Next]_vars PROVE SizesOK'
  OBVIOUS
<1> USE DEF SizesOK, PartsOK
<1>1. CASE Load \/ UNCHANGED vars \/ Serve
  BY <1>1 DEF Load, vars, choices, Serve
<1>2. CASE Geometry
  <2>1. NoSize \in Seq(Nat) /\ \A a, b \in Nat : <<a, b>> \in Seq(Nat)
    BY DEF NoSize
  <2>2. /\ primary' \in Seq(Nat)
        /\ primary' # NoSize => primary'[1] \in Nat /\ primary'[2] \in Nat
    <3>1. primary' \in {NoSize} \cup (Panels \X Panels)
      BY <1>2 DEF Geometry
    <3>2. CASE primary' = NoSize
      BY <2>1, <3>2
    <3>3. CASE primary' # NoSize
      <4>1. primary' \in Panels \X Panels
        BY <3>1, <3>3
      <4>2. /\ primary' = <<primary'[1], primary'[2]>>
            /\ primary'[1] \in Panels /\ primary'[2] \in Panels
        BY <4>1
      <4>3. primary'[1] \in Nat /\ primary'[2] \in Nat
        BY <4>2
      <4> HIDE DEF SizesOK, PartsOK
      <4>4. <<primary'[1], primary'[2]>> \in Seq(Nat)
        BY <4>3
      <4> QED
        BY <4>2, <4>3, <4>4, Zenon
    <3> QED
      BY <3>2, <3>3
  <2>3. /\ \A n \in Nat : AlignDown(n) \in Nat
        /\ \A v : Pixels(v) \in Nat
    BY DEF AlignDown, Pixels, Macroblock
  <2>4. \/ size' = <<Pixels(cfg["width"]), Pixels(cfg["height"])>>
        \/ primary' # NoSize /\ size' = <<AlignDown(primary'[1]), AlignDown(primary'[2])>>
        \/ size' = <<1920, 1072>>
    <3>1. CASE cfg["width"] # "null" /\ cfg["height"] # "null"
      BY <1>2, <3>1 DEF Geometry
    <3>2. CASE ~(cfg["width"] # "null" /\ cfg["height"] # "null") /\ primary' # NoSize
      BY <1>2, <3>2 DEF Geometry
    <3>3. CASE ~(cfg["width"] # "null" /\ cfg["height"] # "null") /\ primary' = NoSize
      BY <1>2, <3>3 DEF Geometry
    <3> QED
      BY <3>1, <3>2, <3>3
  <2>5. 1920 \in Nat /\ 1072 \in Nat
    OBVIOUS
  <2>6. size' \in Seq(Nat)
    <3>1. CASE size' = <<Pixels(cfg["width"]), Pixels(cfg["height"])>>
      BY <2>1, <2>3, <3>1, Zenon
    <3>2. CASE primary' # NoSize /\ size' = <<AlignDown(primary'[1]), AlignDown(primary'[2])>>
      <4>1. AlignDown(primary'[1]) \in Nat /\ AlignDown(primary'[2]) \in Nat
        BY <2>2, <2>3, <3>2
      <4> HIDE DEF SizesOK, PartsOK
      <4>2. <<AlignDown(primary'[1]), AlignDown(primary'[2])>> \in Seq(Nat)
        BY <4>1
      <4> QED
        BY <3>2, <4>2, Zenon
    <3>3. CASE size' = <<1920, 1072>>
      BY <2>1, <2>5, <3>3
    <3> QED
      BY <2>4, <3>1, <3>2, <3>3
  <2> QED
    BY <2>2, <2>6
<1>3. CASE EndSession
  BY <1>3 DEF EndSession, NoSize
<1>4. CASE Session /\ ~Geometry /\ ~EndSession
  BY <1>4 DEF Session, Begin, ChooseSource, ChooseEncoder, Environment, PlanMonitor,
              ProbeVdEncoder, SendFormat, StartEncoder, choices
<1> QED
  BY <1>1, <1>2, <1>3, <1>4, NextIs

\* The plan of a monitor that lists entry.
LEMMA PlansAre ==
  ASSUME PartsOK, pc = "plan", NEW entry, NEW plan \in Plans(entry)
  PROVE  /\ plan \in Plan
         /\ plan.driver \in {baseDriver, libva}
         /\ plan.region = "plain dict" => entry \notin {"virtual", "null", "region"}
<1>1. capture \in Values /\ "x11" \in Values /\ libva \in Drivers /\ baseDriver \in Drivers
  BY DEF PartsOK, ChoicesOK, Values, Strings
<1>2. \/ plan = [source |-> capture, region |-> "given", driver |-> baseDriver]
      \/ plan = [source |-> capture, region |-> None, driver |-> baseDriver]
      \/ plan = [source |-> "x11", region |-> None, driver |-> libva]
      \/ /\ entry \notin {"virtual", "null", "region"}
         /\ plan = [source |-> capture, region |-> "plain dict", driver |-> baseDriver]
  BY DEF Plans
<1>3. \A src \in Values, r \in {None, "given", "plain dict"}, d \in Drivers :
         LET p == [source |-> src, region |-> r, driver |-> d]
         IN p \in Plan /\ p.driver = d /\ p.region = r
  BY DEF Plan
<1>4. None # "plain dict" /\ None \in {None, "given", "plain dict"}
  BY DEF None
<1> QED
  <2>1. CASE plan = [source |-> capture, region |-> "given", driver |-> baseDriver]
    BY <1>1, <1>3, <2>1
  <2>2. CASE plan = [source |-> capture, region |-> None, driver |-> baseDriver]
    BY <1>1, <1>3, <1>4, <2>2
  <2>3. CASE plan = [source |-> "x11", region |-> None, driver |-> libva]
    BY <1>1, <1>3, <1>4, <2>3
  <2>4. CASE /\ entry \notin {"virtual", "null", "region"}
             /\ plan = [source |-> capture, region |-> "plain dict", driver |-> baseDriver]
    BY <1>1, <1>3, <2>4
  <2> QED
    BY <1>2, <2>1, <2>2, <2>3, <2>4

\* The encoder that is started for a plan.
LEMMA EncodersAre ==
  ASSUME PartsOK, StartEncoder
  PROVE  LET plan == plans[Len(encoders) + 1]
         IN /\ pc = "start" /\ Len(encoders) < Len(plans) /\ plan \in Plan
            /\ UNCHANGED <<plans, vdEncoder, monitors>>
            /\ \/ /\ \E how \in {"native", "vd_encoder", "ffmpeg"},
                        driver \in {libva, plan.driver, FfmpegDriver(plan)} :
                        encoders' = Append(encoders, [how |-> how, source |-> plan.source,
                                                      driver |-> driver])
                  /\ pc' = "start"
               \/ /\ encoders' = encoders /\ pc' = "raised" /\ Unusable(plan)
<1> DEFINE plan == plans[Len(encoders) + 1]
<1>1. pc = "start" /\ Len(encoders) < Len(plans) /\ plan \in Plan
  BY DEF StartEncoder, PartsOK, RunOK
<1>2. monitors' = monitors
  BY SessionKeeps DEF Session
<1> QED
  BY <1>1, <1>2 DEF StartEncoder, To, Raise, runVars, FfmpegRaises

LEMMA RunStep == PartsOK /\ [Next]_vars => RunOK'
<1> SUFFICES ASSUME PartsOK, [Next]_vars PROVE RunOK'
  OBVIOUS
<1> USE DEF RunOK, PartsOK, Early
<1>1. CASE Load
  <2>1. pc = "down" /\ pc' = pc /\ UNCHANGED <<plans, vdEncoder, encoders>>
    BY <1>1 DEF Load, ConfigNext, ReadFile, FromEnv, Override, Check, Ends, ConfigInv,
                CheckedInv, runVars
  <2>2. Len(monitors') \in Nat
    BY ConfigStep DEF ConfigInv, ConfigTypeOK
  <2> QED
    BY <2>1, <2>2
<1>2. CASE Serve
  BY <1>2 DEF Serve, runVars, ConfigInv, CheckedInv
<1>3. CASE UNCHANGED vars
  BY <1>3 DEF vars, runVars, configVars
<1>4. CASE Begin \/ ChooseSource \/ ChooseEncoder \/ Environment \/ Geometry
  <2>1. UNCHANGED <<monitors, plans, vdEncoder, encoders>> /\ pc \in Early
    BY <1>4, SessionKeeps DEF Session, Begin, ChooseSource, ChooseEncoder, Environment,
                              Geometry, runVars
  <2> QED
    BY <2>1
<1>5. CASE PlanMonitor
  <2>1. monitors' = monitors /\ pc = "plan" /\ Len(plans) < Len(monitors)
    BY <1>5, SessionKeeps DEF Session, PlanMonitor
  <2>2. CASE UNCHANGED runVars /\ pc' = "raised"
    BY <2>1, <2>2 DEF runVars
  <2>3. ASSUME NEW entry, NEW plan \in Plans(entry),
               plans' = Append(plans, plan), UNCHANGED <<vdEncoder, encoders>>, pc' = "plan"
        PROVE  RunOK'
    <3>1. plan \in Plan
      BY <2>1, <2>3, PlansAre
    <3> QED
      BY <2>1, <2>3, <3>1
  <2> QED
    BY <1>5, <2>2, <2>3 DEF PlanMonitor, Raise, To
<1>6. CASE ProbeVdEncoder \/ SendFormat
  <2>1. /\ UNCHANGED <<monitors, plans, encoders>> /\ vdEncoder' \in BOOLEAN
        /\ pc' \in {"format", "start", "raised"}
    BY <1>6, SessionKeeps DEF Session, ProbeVdEncoder, SendFormat, To, Raise, runVars
  <2> QED
    BY <2>1
<1>7. CASE StartEncoder
  <2> DEFINE plan == plans[Len(encoders) + 1]
  <2>1. /\ UNCHANGED <<plans, vdEncoder, monitors>> /\ Len(encoders) < Len(plans)
        /\ plan \in Plan /\ pc' \notin Early
    BY <1>7, EncodersAre
  <2>2. CASE encoders' = encoders
    BY <2>1, <2>2
  <2>3. ASSUME NEW how \in {"native", "vd_encoder", "ffmpeg"},
               NEW driver \in {libva, plan.driver, FfmpegDriver(plan)},
               encoders' = Append(encoders, [how |-> how, source |-> plan.source,
                                             driver |-> driver])
        PROVE  RunOK'
    <3>1. driver \in Drivers /\ plan.source \in Values
      BY <2>1, <2>3 DEF ChoicesOK, FfmpegDriver, Plan
    <3>2. [how |-> how, source |-> plan.source, driver |-> driver] \in Encoder
      BY <3>1 DEF Encoder
    <3> QED
      BY <2>1, <2>3, <3>2
  <2> QED
    BY <1>7, <2>2, <2>3, EncodersAre
<1>8. CASE EndSession
  <2>1. plans' = <<>> /\ encoders' = <<>> /\ monitors' = monitors
    BY <1>8, SessionKeeps DEF Session, EndSession
  <2>2. vdEncoder' \in BOOLEAN
    BY <1>8, Zenon DEF EndSession
  <2>3. Len(monitors) \in Nat
    BY DEF ConfigInv, ConfigTypeOK
  <2> QED
    BY <2>1, <2>2, <2>3
<1> QED
  BY <1>1, <1>2, <1>3, <1>4, <1>5, <1>6, <1>7, <1>8, NextIs DEF Session

LEMMA PartsInvariant == Spec => []PartsOK
<1>1. PartsOK /\ [Next]_vars => PartsOK'
  BY ConfigStep, ChoicesStep, SizesStep, RunStep DEF PartsOK
<1> QED
  BY <1>1, InitParts, PTL DEF Spec
----------------------------------------------------------------------------
(* The driver, the size and what may raise.                                *)

\* From the probe on, every place a driver is read from has the probed one.
DriverInv ==
    encoder = "h264_vaapi" =>
        /\ pc \in Stages \ {"down", "idle", "source", "encoder"} => vaapiDriver = probed
        /\ pc \in Stages \ {"down", "idle", "source", "encoder", "environment"} =>
              baseDriver = probed /\ libva = probed
        /\ \A i \in DOMAIN plans : plans[i].driver = probed

\* What the format and the socket do not take.
Unfit ==
    \/ \E s \in {"width", "height", "fps"} : cfg[s] \in Floats \cup {"huge", "gigantic"}
    \/ cfg["timeout"] \notin {"zero", "sixteen", "seven", "float", "odd float", "true", "false",
                              "null"}

\* Only an entry that is no kind of monitor makes a plan that cannot be used.
RaisedInv ==
    /\ \A i \in DOMAIN plans :
          plans[i].region = "plain dict" => monitors[i] \notin {"virtual", "null", "region"}
    /\ pc = "raised" =>
          \/ \E i \in DOMAIN monitors : monitors[i] \in {"plain dict", "virtual"}
          \/ Unfit

\* Before a session there is no encoder and nothing to fit.
Unstarted ==
    /\ pc \in {"down", "idle"} => encoder = None
    /\ pc = "down" => size = NoSize

SessionInv == DriverInv /\ DriverIsProbed /\ RaisedInv /\ SizeFits /\ Unstarted

LEMMA NothingIn == DOMAIN <<>> = {}
  OBVIOUS

LEMMA AppendedAre ==
  ASSUME NEW T, NEW s \in Seq(T), NEW x \in T
  PROVE  /\ DOMAIN Append(s, x) = 1 .. Len(s) + 1
         /\ DOMAIN s = 1 .. Len(s)
         /\ \A i \in 1 .. Len(s) : Append(s, x)[i] = s[i]
         /\ Append(s, x)[Len(s) + 1] = x
  OBVIOUS

\* A monitor with an unusable plan is a dict that is no virtual monitor.
LEMMA UnusableIsDict ==
  ASSUME PartsOK, RaisedInv, pc # "down", NEW i \in DOMAIN plans, Unusable(plans[i])
  PROVE  i \in DOMAIN monitors /\ monitors[i] = "plain dict"
<1>1. /\ monitors \in Seq(Entries) /\ plans \in Seq(Plan) /\ Len(plans) <= Len(monitors)
      /\ \A k \in DOMAIN monitors : EntryVerdict(monitors[k]) = "loaded"
  BY DEF PartsOK, ConfigInv, ConfigTypeOK, RunOK, CheckedInv
<1>2. i \in DOMAIN monitors /\ monitors[i] \in Entries
  BY <1>1
<1>3. monitors[i] \notin {"virtual", "null", "region"}
  BY DEF RaisedInv, Unusable
<1>4. EntryVerdict(monitors[i]) = "loaded"
  BY <1>1, <1>2
<1> QED
  BY <1>2, <1>3, <1>4 DEF EntryVerdict, Entries

\* Steps that leave plans, encoders and sizes alone.
LEMMA NothingStarted ==
  ASSUME PartsOK, SessionInv, UNCHANGED <<plans, encoders, primary, size, cfg, monitors>>,
         encoders = <<>> \/ (encoder' = encoder /\ probed' = probed),
         DriverInv', pc' \notin {"down", "idle"},
         pc' = "raised" => \/ \E i \in DOMAIN monitors : monitors[i] \in {"plain dict", "virtual"}
                           \/ Unfit
  PROVE  SessionInv'
<1>1. DriverIsProbed'
  <2>1. CASE encoders = <<>>
    <3>1. encoders' = <<>>
      BY <2>1
    <3>2. DOMAIN encoders' = {}
      BY <3>1, NothingIn, Zenon
    <3> QED
      BY <3>2 DEF DriverIsProbed
  <2>2. CASE encoder' = encoder /\ probed' = probed
    BY <2>2 DEF SessionInv, DriverIsProbed
  <2> QED
    BY <2>1, <2>2
<1>2. RaisedInv'
  BY DEF SessionInv, RaisedInv, Unfit
<1>3. SizeFits'
  BY DEF SessionInv, SizeFits
<1> QED
  BY <1>1, <1>2, <1>3 DEF SessionInv, Unstarted

LEMMA AlignedDown ==
  ASSUME NEW n \in Nat
  PROVE  /\ AlignDown(n) % Macroblock = 0 /\ AlignDown(n) > 0
         /\ AlignDown(n) <= n \/ n < Macroblock
<1>1. CASE n < 16
  BY <1>1 DEF AlignDown, Macroblock
<1>2. CASE n >= 16
  <2>1. /\ ((n \div 16) * 16) % 16 = 0 /\ (n \div 16) * 16 > 0 /\ (n \div 16) * 16 <= n
    BY <1>2
  <2> QED
    BY <1>2, <2>1 DEF AlignDown, Macroblock
<1> QED
  BY <1>1, <1>2

LEMMA GeometryStep ==
  ASSUME PartsOK, Geometry
  PROVE  SizeFits'
<1>1. /\ cfg' = cfg
      /\ Dimension(cfg["width"]) = "loaded" /\ Dimension(cfg["height"]) = "loaded"
  BY SessionKeeps DEF Session, PartsOK, ConfigInv, CheckedInv
<1>2. CASE cfg["width"] # "null" /\ cfg["height"] # "null"
  <2>1. size' = <<Pixels(cfg["width"]), Pixels(cfg["height"])>>
    BY <1>2 DEF Geometry
  <2>2. \A s \in {"width", "height"} : cfg[s] \in {"sixteen", "float", "huge", "gigantic"}
    BY <1>1, <1>2 DEF Dimension, Positive, Ints, Floats
  <2>3. Pixels(cfg["width"]) = 16 /\ Pixels(cfg["height"]) = 16
    BY <2>2 DEF Pixels, Macroblock
  <2>4. size'[1] = 16 /\ size'[2] = 16
    BY <2>1, <2>3
  <2> QED
    BY <1>1, <1>2, <2>4 DEF SizeFits, Macroblock
<1>3. CASE ~(cfg["width"] # "null" /\ cfg["height"] # "null") /\ primary' # NoSize
  <2>1. size' = <<AlignDown(primary'[1]), AlignDown(primary'[2])>>
    BY <1>3 DEF Geometry
  <2>2. primary'[1] \in Nat /\ primary'[2] \in Nat
    <3>1. primary' \in {NoSize} \cup (Panels \X Panels)
      BY DEF Geometry
    <3>2. primary' \in Panels \X Panels
      BY <1>3, <3>1
    <3> QED
      BY <3>2
  <2>3. \A d \in 1 .. 2 : size'[d] = AlignDown(primary'[d]) /\ primary'[d] \in Nat
    <3>1. size'[1] = AlignDown(primary'[1]) /\ size'[2] = AlignDown(primary'[2])
      BY <2>1
    <3>2. \A d \in 1 .. 2 : d = 1 \/ d = 2
      OBVIOUS
    <3> QED
      BY <2>2, <3>1, <3>2
  <2> QED
    BY <2>3, AlignedDown DEF SizeFits
<1>4. CASE ~(cfg["width"] # "null" /\ cfg["height"] # "null") /\ primary' = NoSize
  <2>1. size' = <<1920, 1072>>
    BY <1>4 DEF Geometry
  <2>2. size'[1] = 1920 /\ size'[2] = 1072
    BY <2>1
  <2> QED
    BY <1>4, <2>2 DEF SizeFits, Macroblock
<1> QED
  BY <1>2, <1>3, <1>4

LEMMA SessionStep == PartsOK /\ SessionInv /\ [Next]_vars => SessionInv'
<1> SUFFICES ASSUME PartsOK, SessionInv, [Next]_vars PROVE SessionInv'
  OBVIOUS
<1> USE DEF Stages, Early
<1>0. /\ pc \in Early => plans = <<>> /\ encoders = <<>>
      /\ plans \in Seq(Plan) /\ encoders \in Seq(Encoder)
  BY DEF PartsOK, RunOK
<1>1. CASE Load
  <2>1. /\ pc = "down" /\ pc' = pc
        /\ UNCHANGED <<plans, encoders, primary, size, encoder>>
    BY <1>1 DEF Load, ConfigNext, ReadFile, FromEnv, Override, Check, Ends, PartsOK, ConfigInv,
                CheckedInv, runVars, choices
  <2>2. encoder = None /\ size = NoSize /\ plans = <<>> /\ encoders = <<>>
    BY <1>0, <2>1 DEF SessionInv, Unstarted
  <2> QED
    BY <2>1, <2>2 DEF SessionInv, Unstarted, DriverInv, DriverIsProbed, RaisedInv, Unfit, SizeFits, None
<1>2. CASE Serve
  <2>1. /\ pc = "down" /\ pc' = "idle"
        /\ UNCHANGED <<plans, encoders, primary, size, encoder, cfg, monitors>>
    BY <1>2 DEF Serve, PartsOK, ConfigInv, CheckedInv, runVars, choices
  <2>2. encoder = None /\ size = NoSize /\ plans = <<>> /\ encoders = <<>>
    BY <1>0, <2>1 DEF SessionInv, Unstarted
  <2> QED
    BY <2>1, <2>2 DEF SessionInv, Unstarted, DriverInv, DriverIsProbed, RaisedInv, Unfit, SizeFits, None
<1>3. CASE UNCHANGED vars
  <2>1. UNCHANGED <<plans, encoders, primary, size, encoder, cfg, monitors, pc, probed, vaapiDriver,
                    baseDriver, libva>>
    BY <1>3 DEF vars, configVars, hostVars, choices, runVars, history
  <2> QED
    BY <2>1 DEF SessionInv, Unstarted, DriverInv, DriverIsProbed, RaisedInv, Unfit, SizeFits
<1>4. CASE Begin \/ ChooseSource
  <2>1. /\ pc \in Early /\ pc' \in {"source", "encoder", "raised"}
        /\ UNCHANGED <<plans, encoders, primary, size, encoder, probed, cfg, monitors>>
        /\ pc' = "raised" => Unfit
    <3>1. pc' = "raised" => cfg["timeout"] \in NoTimeouts \cup {"huge"}
      BY <1>4 DEF Begin, ChooseSource, To
    <3>2. pc' = "raised" => Unfit
      BY <3>1 DEF Unfit, NoTimeouts, Strings
    <3> QED
      BY <1>4, <3>2, SessionKeeps DEF Session, Begin, ChooseSource, To, choices, runVars, history
  <2>2. DriverInv'
    <3>1. CASE pc = "idle"
      <4>1. encoder' # "h264_vaapi"
        BY <2>1, <3>1 DEF SessionInv, Unstarted, None
      <4> QED
        BY <4>1 DEF DriverInv
    <3>2. CASE pc # "idle"
      <4>1. pc' \in {"source", "encoder"}
        BY <1>4, <3>2 DEF Begin, ChooseSource, To
      <4> QED
        BY <1>0, <2>1, <4>1 DEF DriverInv
    <3> QED
      BY <3>1, <3>2
  <2> QED
    BY <2>1, <2>2, NothingStarted
<1>5. CASE ChooseEncoder
  <2>1. /\ pc \in Early /\ pc' = "environment"
        /\ UNCHANGED <<plans, encoders, primary, size, cfg, monitors>>
        /\ encoder' = "h264_vaapi" => vaapiDriver' = probed'
    BY <1>5, SessionKeeps DEF Session, ChooseEncoder, To, runVars
  <2>2. DriverInv'
    BY <1>0, <2>1 DEF DriverInv
  <2> QED
    BY <1>0, <2>1, <2>2, NothingStarted
<1>6. CASE Environment
  <2>1. /\ pc = "environment" /\ pc' = "geometry"
        /\ UNCHANGED <<plans, encoders, primary, size, encoder, vaapiDriver, probed, cfg, monitors>>
        /\ baseDriver' = vaapiDriver /\ libva' = vaapiDriver
    BY <1>6, SessionKeeps DEF Session, Environment, BaseDriver, To, runVars, history
  <2>2. DriverInv'
    BY <1>0, <2>1 DEF DriverInv, SessionInv
  <2> QED
    BY <2>1, <2>2, NothingStarted
<1>7. CASE Geometry
  <2>1. /\ pc = "geometry" /\ pc' = "plan"
        /\ UNCHANGED <<plans, encoders, encoder, vaapiDriver, baseDriver, libva, probed, cfg,
                       monitors>>
    BY <1>7, SessionKeeps DEF Session, Geometry, To, runVars, history, hostVars
  <2>2. DriverInv' /\ DriverIsProbed' /\ RaisedInv' /\ Unstarted'
    BY <1>0, <2>1 DEF DriverInv, DriverIsProbed, RaisedInv, Unfit, SessionInv, Unstarted
  <2> QED
    BY <1>7, <2>2, GeometryStep DEF SessionInv
<1>8. CASE PlanMonitor
  <2>1. /\ pc = "plan" /\ Len(plans) < Len(monitors)
        /\ UNCHANGED <<encoder, vaapiDriver, baseDriver, libva, probed, primary, size, cfg,
                       monitors>>
    BY <1>8, SessionKeeps DEF Session, PlanMonitor, hostVars, choices, history
  <2> DEFINE n == Len(plans) + 1
             entry == monitors[n]
  <2>2. CASE entry = "virtual" /\ Raise
    <3>1. pc' = "raised" /\ UNCHANGED <<plans, encoders>>
      BY <2>2 DEF Raise, runVars
    <3>2. n \in DOMAIN monitors
      BY <1>0, <2>1 DEF PartsOK, ConfigInv, ConfigTypeOK
    <3>3. DriverInv'
      BY <2>1, <3>1 DEF SessionInv, DriverInv
    <3> QED
      BY <2>1, <2>2, <3>1, <3>2, <3>3, NothingStarted
  <2>3. ASSUME NEW plan \in Plans(entry), plans' = Append(plans, plan),
               encoders' = encoders, pc' = "plan"
        PROVE  SessionInv'
    <3>1. /\ plan \in Plan /\ plan.driver \in {baseDriver, libva}
          /\ plan.region = "plain dict" => entry \notin {"virtual", "null", "region"}
      BY <2>1, PlansAre
    <3>2. /\ DOMAIN plans' = 1 .. Len(plans) + 1 /\ DOMAIN plans = 1 .. Len(plans)
          /\ \A i \in 1 .. Len(plans) : plans'[i] = plans[i]
          /\ plans'[n] = plan
      <4>1. plans \in Seq(Plan)
        BY <1>0
      <4> HIDE DEF n, entry
      <4>2. /\ DOMAIN Append(plans, plan) = 1 .. Len(plans) + 1
            /\ DOMAIN plans = 1 .. Len(plans)
            /\ \A i \in 1 .. Len(plans) : Append(plans, plan)[i] = plans[i]
            /\ Append(plans, plan)[Len(plans) + 1] = plan
        <5>1. \A x \in Plan :
                 /\ DOMAIN Append(plans, x) = 1 .. Len(plans) + 1
                 /\ DOMAIN plans = 1 .. Len(plans)
                 /\ \A i \in 1 .. Len(plans) : Append(plans, x)[i] = plans[i]
                 /\ Append(plans, x)[Len(plans) + 1] = x
          BY <4>1, AppendedAre
        <5> QED
          BY <3>1, <5>1, Zenon
      <4> QED
        BY <2>3, <4>2 DEF n
    <3>3. Len(plans) \in Nat
      BY <1>0
    <3>4. \A i \in DOMAIN plans' : i \in DOMAIN plans \/ i = n
      BY <3>2, <3>3
    <3>5. DriverInv'
      BY <2>1, <2>3, <3>1, <3>2, <3>4 DEF SessionInv, DriverInv
    <3>6. RaisedInv'
      BY <2>1, <2>3, <3>1, <3>2, <3>4 DEF SessionInv, RaisedInv, Unfit
    <3>7. DriverIsProbed' /\ SizeFits' /\ Unstarted'
      BY <2>1, <2>3 DEF SessionInv, DriverIsProbed, SizeFits, Unstarted
    <3> QED
      BY <3>5, <3>6, <3>7 DEF SessionInv
  <2> QED
    BY <1>8, <2>2, <2>3 DEF PlanMonitor, To
<1>9. CASE ProbeVdEncoder
  <2>1. /\ pc = "plan" /\ Len(plans) = Len(monitors) /\ pc' \in {"format", "raised"}
        /\ UNCHANGED <<plans, encoders, encoder, vaapiDriver, baseDriver, libva, probed, primary,
                       size, cfg, monitors>>
        /\ pc' = "raised" => Unusable(plans[1])
    BY <1>9, SessionKeeps DEF Session, ProbeVdEncoder, To, Raise, hostVars, choices, history,
                              runVars
  <2>2. 1 \in DOMAIN plans
    <3>1. Len(monitors) \in 1 .. MaxMonitors
      BY <2>1 DEF PartsOK, ConfigInv, CheckedInv, Count
    <3> QED
      BY <1>0, <2>1, <3>1
  <2>3. pc' = "raised" => \E i \in DOMAIN monitors : monitors[i] \in {"plain dict", "virtual"}
    BY <2>1, <2>2, UnusableIsDict DEF SessionInv
  <2>4. DriverInv'
    BY <2>1 DEF SessionInv, DriverInv
  <2> QED
    BY <2>1, <2>3, <2>4, NothingStarted
<1>10. CASE SendFormat
  <2>1. /\ pc = "format" /\ pc' \in {"start", "raised"}
        /\ UNCHANGED <<plans, encoders, encoder, vaapiDriver, baseDriver, libva, probed, primary,
                       size, cfg, monitors>>
        /\ pc' = "raised" => Unfit
    BY <1>10, SessionKeeps DEF Session, SendFormat, Packable, Unpacked, Unfit, To, Raise, hostVars,
                               choices, history, runVars
  <2>2. DriverInv'
    BY <2>1 DEF SessionInv, DriverInv
  <2> QED
    BY <2>1, <2>2, NothingStarted
<1>11. CASE StartEncoder
  <2> DEFINE plan == plans[Len(encoders) + 1]
  <2>1. /\ pc = "start" /\ Len(encoders) < Len(plans) /\ plan \in Plan
        /\ UNCHANGED <<plans, encoder, vaapiDriver, baseDriver, libva, probed, primary, size, cfg,
                       monitors>>
    BY <1>11, EncodersAre, SessionKeeps DEF Session, StartEncoder, hostVars, choices, history
  <2>2. Len(encoders) + 1 \in DOMAIN plans
    BY <1>0, <2>1
  <2>3. CASE encoders' = encoders /\ pc' = "raised" /\ Unusable(plan)
    <3>1. \E i \in DOMAIN monitors : monitors[i] \in {"plain dict", "virtual"}
      BY <2>1, <2>2, <2>3, UnusableIsDict DEF SessionInv
    <3>2. DriverInv'
      BY <2>1, <2>3 DEF SessionInv, DriverInv
    <3> QED
      BY <2>1, <2>3, <3>1, <3>2, NothingStarted
  <2>4. ASSUME NEW how \in {"native", "vd_encoder", "ffmpeg"},
               NEW driver \in {libva, plan.driver, FfmpegDriver(plan)},
               encoders' = Append(encoders, [how |-> how, source |-> plan.source,
                                             driver |-> driver]),
               pc' = "start"
        PROVE  SessionInv'
    <3> DEFINE e == [how |-> how, source |-> plan.source, driver |-> driver]
    <3>1. encoder = "h264_vaapi" =>
             libva = probed /\ plan.driver = probed /\ vaapiDriver = probed
      BY <2>1, <2>2 DEF SessionInv, DriverInv
    <3>2. encoder = "h264_vaapi" => e.driver = probed
      BY <2>4, <3>1 DEF FfmpegDriver
    <3>3. e \in Encoder
      <4>1. driver \in Drivers /\ plan.source \in Values
        BY <2>1, <2>4 DEF PartsOK, ChoicesOK, FfmpegDriver, Plan
      <4> QED
        BY <4>1 DEF Encoder
    <3>4. /\ DOMAIN encoders' = 1 .. Len(encoders) + 1 /\ DOMAIN encoders = 1 .. Len(encoders)
          /\ \A i \in 1 .. Len(encoders) : encoders'[i] = encoders[i]
          /\ encoders'[Len(encoders) + 1] = e
      BY <1>0, <2>4, <3>3, AppendedAre
    <3>5. \A i \in DOMAIN encoders' : i \in DOMAIN encoders \/ i = Len(encoders) + 1
      <4>1. Len(encoders) \in Nat
        BY <1>0
      <4> QED
        BY <3>4, <4>1
    <3> HIDE DEF e
    <3>6. DriverIsProbed'
      BY <2>1, <3>2, <3>4, <3>5 DEF SessionInv, DriverIsProbed
    <3>7. DriverInv' /\ RaisedInv' /\ SizeFits' /\ Unstarted'
      BY <2>1, <2>4 DEF SessionInv, DriverInv, RaisedInv, Unfit, SizeFits, Unstarted
    <3> QED
      BY <3>6, <3>7 DEF SessionInv
  <2> QED
    BY <1>11, <2>3, <2>4, EncodersAre
<1>12. CASE EndSession
  <2>1. /\ pc' = "idle" /\ encoder' = None /\ size' = NoSize /\ plans' = <<>> /\ encoders' = <<>>
    BY <1>12 DEF EndSession, To
  <2> QED
    <3>1. encoder' # "h264_vaapi" /\ DOMAIN plans' = {} /\ DOMAIN encoders' = {}
      BY <2>1 DEF None
    <3>2. DriverInv' /\ DriverIsProbed'
      BY <3>1 DEF DriverInv, DriverIsProbed
    <3>3. RaisedInv' /\ SizeFits' /\ Unstarted'
      BY <2>1, <3>1 DEF RaisedInv, SizeFits, Unstarted
    <3> QED
      BY <3>2, <3>3 DEF SessionInv
<1> QED
  BY <1>1, <1>2, <1>3, <1>4, <1>5, <1>6, <1>7, <1>8, <1>9, <1>10, <1>11, <1>12, NextIs DEF Session

LEMMA InitSession == Init => SessionInv
  BY DEF Init, SessionInv, Unstarted, DriverInv, DriverIsProbed, RaisedInv, Unfit, SizeFits, None, Stages,
         Early, NoSize

LEMMA Invariant == Spec => [](PartsOK /\ SessionInv)
  BY InitSession, SessionStep, PartsInvariant, PTL DEF Spec

----------------------------------------------------------------------------
(* The theorems.                                                           *)

\* The type invariant of the configuration and of what the sessions make of
\* it; there is never more than one plan to a monitor nor one encoder to a plan.
THEOREM TypeCorrect == Spec => []TypeOK
<1>1. PartsOK => TypeOK
  <2> SUFFICES ASSUME PartsOK PROVE TypeOK
    OBVIOUS
  <2>1. display \in BOOLEAN /\ fellBack \in BOOLEAN /\ vdEncoder \in BOOLEAN
    BY Zenon DEF PartsOK, ChoicesOK, RunOK
  <2> QED
    BY <2>1 DEF PartsOK, ConfigInv, ChoicesOK, SizesOK, RunOK, TypeOK, Stages, Early, Plan, Encoder
<1> QED
  BY <1>1, Invariant, PTL

\* The order of precedence of config.load: command line, environment, file,
\* default, setting by setting, whatever type each layer gives it.
THEOREM LatestLayerCounts == Spec => []LaterLayersWin
<1>1. PartsOK => LaterLayersWin
  <2> SUFFICES ASSUME PartsOK, phase = "loaded", NEW s \in Settings
               PROVE  cfg[s] = IF s = "level" /\ cli # Absent THEN cli ELSE Layered(s)
    BY DEF LaterLayersWin, Layered, FromFile
  <2>1. ConfigTypeOK /\ cfg[s] = Final(s)
    BY DEF PartsOK, ConfigInv, LayersInv
  <2>2. CASE s = "level" /\ cli # Absent
    <3>1. cfg["level"] = Coerce(cli, Layered("level")) /\ cfg["level"] \in Strings
      BY <2>1, <2>2 DEF Final, PartsOK, ConfigInv, CheckedInv, LevelVerdict
    <3>2. cli \in Strings
      BY <2>1, <2>2 DEF ConfigTypeOK
    <3>3. Layered("level") \in Values \cup {Bad, Uncaught, Overlong}
      <4>1. /\ "level" \in Settings /\ FromFile("level") \in Values \cup {Bad, Uncaught}
            /\ env["level"] \in Values \cup {Absent, Overlong}
        BY <2>1, <2>2, LayerTypes
      <4> QED
        BY <4>1 DEF Layered, FromString, Values, Booleans
    <3>4. CASE Layered("level") \in {Bad, Uncaught, Overlong}
      <4>1. \A c \in {Bad, Uncaught, Overlong} : Coerce(cli, c) = cli
        BY DEF Coerce, Bad, Uncaught, Overlong, Ints, Floats, Booleans, Strings
      <4> QED
        BY <2>2, <3>1, <3>4, <4>1
    <3>5. CASE Layered("level") \in Values
      BY <2>2, <3>1, <3>2, <3>5, CoerceType, Constants
    <3> QED
      BY <3>3, <3>4, <3>5
  <2>3. CASE ~(s = "level" /\ cli # Absent)
    BY <2>1, <2>3 DEF Final
  <2> QED
    BY <2>2, <2>3
<1> QED
  BY <1>1, Invariant, PTL

\* Every hardware encoder is started with the driver that passed the probe of
\* its session, through however many sessions the variable of the process has
\* gone (video/encoders.py, display/xsession.py).
THEOREM DriversAreProbed == Spec => []DriverIsProbed
  BY Invariant, PTL DEF SessionInv

\* Whatever xrandr reports and whatever the configuration gives, the size is a
\* positive multiple of a macroblock and fits the primary output
\* (video/geometry.py).
THEOREM SizesFit == Spec => []SizeFits
  BY Invariant, PTL DEF SessionInv

\* Only the input that UntypedInput lists ends the program with another
\* exception than ConfigError, and only the accepted settings that the property
\* lists keep a session from starting (config.py, net/server.py, video/session.py).
THEOREM NoOtherMistakes == Spec => []MistakesAreReported
<1>1. PartsOK /\ SessionInv => MistakesAreReported
  BY DEF PartsOK, ConfigInv, CheckedInv, SessionInv, RaisedInv, Unfit, MistakesAreReported
<1> QED
  BY <1>1, Invariant, PTL
=============================================================================
