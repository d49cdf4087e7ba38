------------------------------ MODULE Startup ------------------------------
(***************************************************************************)
(* What the program makes of its configuration: main serves it, and every  *)
(* video connection starts a VideoSession that chooses how to capture      *)
(* (sources.py, xsession.py), how to encode (encoders.py), the size        *)
(* (geometry.py) and, monitor by monitor, one of three encoders.           *)
(*                                                                         *)
(* The machine answers each question when it is asked, and may answer      *)
(* otherwise the next time: a driver that worked for one session may fail  *)
(* the probe of the next.  Only the two variables of the process that the  *)
(* sessions read and write stay, DISPLAY and LIBVA_DRIVER_NAME.  One       *)
(* session starts after the other.                                         *)
(***************************************************************************)
EXTENDS Config

CONSTANTS
    MaxChanged,  \* bound: settings a served configuration changes
    MaxStarts,   \* bound: sessions started
    Panels       \* bound: widths and heights xrandr reports

ASSUME StartupAssumption ==
    /\ MaxChanged \in Nat /\ MaxStarts \in Nat
    /\ Panels \subseteq Nat

VARIABLES
    display,   \* DISPLAY is set for the process
    libva,     \* LIBVA_DRIVER_NAME of the process, "default" if it is not set
    starts,    \* sessions started
    pc,        \* where the session is
    base, capture,         \* base_source and cap_source
    encoder, vaapiDriver,  \* what select_encoder gives; the driver in vaapi_env
    baseDriver,            \* the driver in base_env
    primary,   \* primary_region: a size, or NoSize
    size,      \* width and height
    plans,     \* plans[i]: source and region of monitor i and the driver in its env
    vdEncoder, \* vd_encoder_ok
    encoders,  \* encoders[i]: how monitor i is encoded, from which source, and
               \* with which driver
    probed,    \* history: the driver that passed the probe of this session
    fellBack   \* history: select_encoder gave up on h264_vaapi

hostVars == <<display, libva>>
choices  == <<base, capture, encoder, vaapiDriver, baseDriver, primary, size>>
runVars  == <<plans, vdEncoder, encoders>>
history  == <<probed, fellBack>>
vars == <<configVars, hostVars, starts, pc, choices, runVars, history>>

Drivers == {"default", "i965", "other"}
NoSize  == <<>>
None    == "none"

Init ==
    /\ ConfigInit
    /\ display = FALSE /\ libva = "default"
    /\ starts = 0 /\ pc = "down"
    /\ base = None /\ capture = None
    /\ encoder = None /\ vaapiDriver = "default" /\ baseDriver = "default"
    /\ primary = NoSize /\ size = NoSize
    /\ plans = <<>> /\ vdEncoder = FALSE /\ encoders = <<>>
    /\ probed = None /\ fellBack = FALSE

Load == ConfigNext /\ UNCHANGED <<hostVars, starts, pc, choices, runVars, history>>

\* main starts the listeners; what the configuration was made from is gone.
\* The environment of the process counts from now on.
Changed == {s \in Settings : cfg[s] # Default[s]}
Serve ==
    /\ phase = "loaded"
    /\ Cardinality(Changed) <= MaxChanged
    /\ phase' = "served" /\ pc' = "idle"
    /\ display' \in BOOLEAN /\ libva' \in {"default", "other"}
    /\ fileKind' = "none" /\ cli' = Absent
    /\ file' = [s \in Settings |-> Absent] /\ env' = file'
    /\ UNCHANGED <<cfg, monitors, starts, choices, runVars, history>>

----------------------------------------------------------------------------
(* VideoSession.__init__.                                                  *)

To(next) == pc' = next /\ UNCHANGED <<configVars, starts>>

\* settimeout, which the connection calls first, takes null, booleans and
\* numbers from 0, as long as the time they make is not too long.
NoTimeouts == {"negative", "infinite", "nan", "gigantic"} \cup Strings \cup {"list", "dict"}
Begin ==
    /\ pc = "idle" /\ cfg["enabled"] = "true" /\ starts < MaxStarts
    /\ starts' = starts + 1
    /\ \/ cfg["timeout"] \notin NoTimeouts /\ pc' = "source"
       \/ cfg["timeout"] \in NoTimeouts \cup {"huge"} /\ pc' = "raised"
    /\ UNCHANGED <<configVars, hostVars, choices, runVars, history>>

\* resolve_source.  An X server is the one DISPLAY names or one with a socket.
AutoSource == cfg["source"] = "auto"
Resolved(socket, wayland) ==
    CASE ~AutoSource       -> cfg["source"]
      [] display \/ socket -> "x11"
      [] wayland           -> "kmsgrab"
      [] OTHER             -> "test"

\* kmsgrab_viable: whether ffmpeg has kmsgrab and the rights for it.
ChooseSource ==
    /\ pc = "source" /\ To("encoder")
    /\ \E socket, wayland, viable \in BOOLEAN :
          /\ base' = Resolved(socket, wayland)
          /\ capture' = IF AutoSource /\ base' = "x11" /\ cfg["encoder"] = "h264_vaapi" /\ viable
                        THEN "kmsgrab" ELSE base'
    /\ UNCHANGED <<hostVars, encoder, vaapiDriver, baseDriver, primary, size, runVars, history>>

\* select_encoder encodes a few frames with the driver LIBVA_DRIVER_NAME names,
\* or else with the default one and, if that fails, with i965.  It takes any
\* other name of an encoder for libx264, or leaves that to ffmpeg_cmd.
Tried == IF libva # "default" THEN {libva} ELSE {"default", "i965"}
Preferred(D) == IF "default" \in D THEN "default" ELSE CHOOSE d \in D : TRUE

ChooseEncoder ==
    /\ pc = "encoder" /\ To("environment")
    /\ \/ /\ cfg["encoder"] # "h264_vaapi"
          /\ encoder' = "libx264" /\ vaapiDriver' = libva
          /\ probed' = None /\ fellBack' = FALSE
       \/ /\ cfg["encoder"] = "h264_vaapi"   \* no render node, or no driver works
          /\ encoder' = "libx264" /\ vaapiDriver' = libva
          /\ probed' = None /\ fellBack' = TRUE
       \/ /\ cfg["encoder"] = "h264_vaapi"
          /\ \E D \in (SUBSET Tried) \ {{}} :
                /\ encoder' = "h264_vaapi" /\ vaapiDriver' = Preferred(D)
                /\ probed' = Preferred(D) /\ fellBack' = FALSE
    /\ UNCHANGED <<hostVars, base, capture, baseDriver, primary, size, runVars>>

\* base_environment copies the environment; the driver is put there and into
\* the environment of the process, where the sessions after this one find it.
\* Fault: it is put into the latter only.
FaultBaseDriver == libva
BaseDriver == vaapiDriver
Environment ==
    /\ pc = "environment" /\ To("geometry")
    /\ baseDriver' = BaseDriver
    /\ libva' = vaapiDriver
    /\ UNCHANGED <<display, base, capture, encoder, vaapiDriver, primary, size, runVars, history>>

Macroblock == 16
AlignDown(n) == IF n < Macroblock THEN Macroblock ELSE (n \div Macroblock) * Macroblock

\* A configured dimension, in pixels: the least one that stands for value.
Pixels(value) ==
    IF value \in {"sixteen", "float", "huge", "gigantic"} THEN Macroblock ELSE Macroblock + 1

\* primary_geometry gives nothing if xrandr fails or shows no connected output
\* with a mode; geometry.resolve.
Geometry ==
    /\ pc = "geometry" /\ To("plan")
    /\ primary' \in IF base = "x11" THEN {NoSize} \cup (Panels \X Panels) ELSE {NoSize}
    /\ size' = CASE cfg["width"] # "null" /\ cfg["height"] # "null" ->
                       <<Pixels(cfg["width"]), Pixels(cfg["height"])>>
                 [] ~(cfg["width"] # "null" /\ cfg["height"] # "null") /\ primary' # NoSize ->
                       <<AlignDown(primary'[1]), AlignDown(primary'[2])>>
                 [] OTHER -> <<1920, 1072>>
    /\ UNCHANGED <<hostVars, base, capture, encoder, vaapiDriver, baseDriver, runVars, history>>

----------------------------------------------------------------------------
(* run, before its loop.                                                   *)

Raise == pc' = "raised" /\ UNCHANGED <<configVars, starts, runVars>>

\* CapturePlanner.plan; MonitorPlans has what goes on in a virtual monitor.
\* An extended desktop is captured as the desktop is, an Xvfb by x11grab with
\* the environment of the process.
Plans(entry) ==
    LET desktop(region) == [source |-> capture, region |-> region, driver |-> baseDriver]
        xvfb == [source |-> "x11", region |-> None, driver |-> libva]
    IN CASE entry = "virtual" -> {xvfb} \cup (IF base = "x11" THEN {desktop("given")} ELSE {})
         [] entry = "null"    -> {desktop(IF primary = NoSize THEN None ELSE "given")}
         [] entry = "region"  -> {desktop("given")}
         [] OTHER             -> {desktop("plain dict")}

PlanMonitor ==
    /\ pc = "plan" /\ Len(plans) < Len(monitors)
    /\ LET entry == monitors[Len(plans) + 1]
       IN \/ /\ \E plan \in Plans(entry) : plans' = Append(plans, plan)
             /\ UNCHANGED <<vdEncoder, encoders>>
             /\ To("plan")
          \/ entry = "virtual" /\ Raise
    /\ UNCHANGED <<hostVars, choices, history>>

\* A dict that is no virtual monitor stands for a region, which is taken apart
\* when a command line needs it.
Unusable(plan) == plan.region = "plain dict"

\* _probe_vd_encoder, with the plan of the first monitor.
ProbeVdEncoder ==
    /\ pc = "plan" /\ Len(plans) = Len(monitors)
    /\ \E built, works \in BOOLEAN :
          LET asked == capture = "kmsgrab" /\ encoder = "h264_vaapi" /\ built
          IN IF asked /\ Unusable(plans[1]) THEN Raise
             ELSE /\ vdEncoder' = (asked /\ works)
                  /\ UNCHANGED <<plans, encoders>>
                  /\ To("format")
    /\ UNCHANGED <<hostVars, choices, history>>

\* build_video_format packs integers into fields of 32 bits.
Unpacked == Floats \cup {"huge", "gigantic"}
Packable == {cfg["width"], cfg["height"], cfg["fps"]} \cap Unpacked = {}
SendFormat ==
    /\ pc = "format"
    /\ IF Packable THEN To("start") /\ UNCHANGED runVars ELSE Raise
    /\ UNCHANGED <<hostVars, choices, history>>

\* start_encoder: the native encoder if it can be made, vd_encoder if it passed
\* its probe, or ffmpeg.
FfmpegDriver(plan) ==
    IF encoder = "h264_vaapi" /\ plan.driver = "default" THEN vaapiDriver ELSE plan.driver
FfmpegRaises(plan) ==
    Unusable(plan) /\ (plan.source = "x11" \/ (plan.source = "kmsgrab" /\ encoder = "h264_vaapi"))

StartEncoder ==
    LET plan == plans[Len(encoders) + 1]
        Started(how, driver) ==
            /\ encoders' = Append(encoders, [how |-> how, source |-> plan.source,
                                             driver |-> driver])
            /\ UNCHANGED <<plans, vdEncoder>>
            /\ To("start")
        nativeFits == encoder = "h264_vaapi" /\ plan.source = "x11" /\ plan.region # None
        vdFits == vdEncoder /\ plan.source = "kmsgrab"
    IN /\ pc = "start" /\ Len(encoders) < Len(plans)
       /\ \/ nativeFits /\ ~Unusable(plan) /\ Started("native", libva)
          \/ vdFits /\ ~Unusable(plan) /\ Started("vd_encoder", plan.driver)
          \/ vdFits /\ Unusable(plan) /\ Raise
          \/ ~vdFits /\ ~FfmpegRaises(plan) /\ Started("ffmpeg", FfmpegDriver(plan))
          \/ ~vdFits /\ FfmpegRaises(plan) /\ Raise
       /\ UNCHANGED <<hostVars, choices, history>>

\* The session ends, in its loop (VideoSession) or by the exception, and its
\* object is gone.  The headset may connect again.
EndSession ==
    /\ pc = "raised" \/ (pc = "start" /\ Len(encoders) = Len(plans))
    /\ To("idle")
    /\ base' = None /\ capture' = None
    /\ encoder' = None /\ vaapiDriver' = "default" /\ baseDriver' = "default"
    /\ primary' = NoSize /\ size' = NoSize
    /\ plans' = <<>> /\ vdEncoder' = FALSE /\ encoders' = <<>>
    /\ probed' = None /\ fellBack' = FALSE
    /\ UNCHANGED hostVars

Next ==
    \/ Load \/ Serve
    \/ Begin \/ ChooseSource \/ ChooseEncoder \/ Environment \/ Geometry
    \/ PlanMonitor \/ ProbeVdEncoder \/ SendFormat \/ StartEncoder
    \/ EndSession

Spec == Init /\ [][Next]_vars

----------------------------------------------------------------------------
(* Properties.                                                             *)

\* The type invariant.
TypeOK ==
    /\ ConfigTypeOK
    /\ display \in BOOLEAN /\ libva \in Drivers
    /\ starts \in 0 .. MaxStarts
    /\ pc \in {"down", "idle", "source", "encoder", "environment", "geometry", "plan",
               "format", "start", "raised"}
    /\ base \in Values \cup {None} /\ capture \in Values \cup {None}
    /\ encoder \in {None, "h264_vaapi", "libx264"}
    /\ vaapiDriver \in Drivers /\ baseDriver \in Drivers
    /\ primary \in Seq(Nat) /\ size \in Seq(Nat)
    /\ plans \in Seq([source : Values, region : {None, "given", "plain dict"}, driver : Drivers])
    /\ vdEncoder \in BOOLEAN
    /\ encoders \in Seq([how : {"native", "vd_encoder", "ffmpeg"}, source : Values,
                         driver : Drivers])
    /\ Len(plans) <= Len(monitors) /\ Len(encoders) <= Len(plans)
    /\ probed \in Drivers \cup {None} /\ fellBack \in BOOLEAN

\* Every hardware encoder uses the driver that passed the probe of its session,
\* whether it takes it from its own environment or from that of the process,
\* and whatever the sessions before left there.
DriverIsProbed ==
    encoder = "h264_vaapi" =>
        \A i \in DOMAIN encoders : encoders[i].driver = probed

\* The encode size is one the encoder need not pad, whether the configuration
\* gives it or the primary output, and what is taken from an output is no larger
\* than it, but for outputs smaller than a macroblock.
SizeFits ==
    size # NoSize =>
        \A d \in 1 .. 2 :
            /\ size[d] % Macroblock = 0 /\ size[d] > 0
            /\ primary # NoSize /\ cfg["width"] = "null" =>
                  size[d] <= primary[d] \/ primary[d] < Macroblock

\* A mistake in a setting that has a type by its default is converted or
\* reported as a ConfigError, in the file as on the command line, but for numbers
\* too large for the type: it does not end the program with another exception.
\* And once a configuration is accepted a session starts, unless it has a dict
\* that is no virtual monitor, a size or frame rate that is no integer or too
\* large, a time the socket does not take, or a virtual monitor whose commands
\* failed: no missing device, program or right stops it.
MistakesAreReported ==
    /\ phase = "crashed" => UntypedInput
    /\ pc = "raised" =>
          \/ \E i \in DOMAIN monitors : monitors[i] \in {"plain dict", "virtual"}
          \/ \E s \in {"width", "height", "fps"} : cfg[s] \in Floats \cup {"huge", "gigantic"}
          \/ cfg["timeout"] \notin {"zero", "sixteen", "seven", "float", "odd float",
                                    "true", "false", "null"}

\* config/vdclient.example.json, "_encoder": "VAAPI falls back to software
\* automatically if no render node is found or the encode probe fails."  But
\* what kmsgrab captures stays on the GPU, where libx264 cannot get it.
FallbackStreams ==
    fellBack => \A i \in DOMAIN encoders : encoders[i].source # "kmsgrab"

=============================================================================
