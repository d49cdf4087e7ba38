--------------------------- MODULE MonitorStreams ---------------------------
(***************************************************************************)
(* What a video session promises, whatever its threads do in between: the  *)
(* headset is told of a number of monitors, each has a stream of its own,  *)
(* counted from its first frame on, monitors come and go at the end of the *)
(* list, no decoder loses its references but to a stream that is gone or   *)
(* to one that cannot be told where its keyframes are, and when the session*)
(* is over no more comes.  VideoSession implements it.                     *)
(***************************************************************************)
EXTENDS Naturals, Sequences, SequencesExt

CONSTANTS
    MaxMonitors,  \* the monitors a headset can show
    Streams,      \* the streams there may ever be
    FrameCap      \* bound: where the counts of frames saturate

VARIABLES
    stage,     \* "opening", "open", "over" or "closed"
    announced, \* how many monitors the headset was last told of
    shown,     \* the stream of each monitor
    frames,    \* frames[i]: how many frames of monitor i were sent
    begun,     \* the streams that have ever begun
    live,      \* those whose encoder is running
    place,     \* place[s]: the monitor s began for, counted from 0
    lost       \* lost[i]: the decoder of monitor i, counted from 0, may lack
               \* the reference of what it is given

streamVars == <<shown, frames, begun, place>>
vars == <<stage, announced, streamVars, live, lost>>

Init ==
    /\ stage = "opening" /\ announced = 0
    /\ shown = <<>> /\ frames = <<>>
    /\ begun = {} /\ live = {}
    /\ place = [s \in Streams |-> 0]
    /\ lost  = [i \in 0..(MaxMonitors - 1) |-> FALSE]

\* The headset is told of the monitors there will be.
Announce ==
    /\ stage = "opening" /\ announced = 0
    /\ announced' \in 1..MaxMonitors
    /\ UNCHANGED <<stage, streamVars, live, lost>>

\* A new stream begins behind those that are shown: one of the monitors
\* announced, or one more, which is announced with it.  Nothing is promised of
\* its references when its keyframes cannot be told from its deltas.
Begin(s) ==
    /\ s \notin begun
    /\ \/ stage = "opening" /\ Len(shown) < announced /\ UNCHANGED announced
       \/ stage = "open" /\ announced < MaxMonitors /\ announced' = announced + 1
    /\ shown' = Append(shown, s)
    /\ frames' = Append(frames, 0)
    /\ begun' = begun \cup {s}
    /\ live' = live \cup {s}
    /\ place' = [place EXCEPT ![s] = Len(shown)]
    /\ lost' \in {lost, [lost EXCEPT ![Len(shown)] = TRUE]}
    /\ UNCHANGED stage

Open ==
    /\ stage = "opening"
    /\ announced > 0 /\ Len(shown) = announced
    /\ stage' = "open"
    /\ UNCHANGED <<announced, streamVars, live, lost>>

\* A unit of s is sent as the next frame of the monitor s began for.  If s is
\* still the stream of that monitor, its decoder keeps its references.  A late
\* unit of a stream that is gone is sent as well when another has taken its
\* place, and may cost them until the next keyframe.
Show(s) ==
    /\ stage = "open"
    /\ s \in begun /\ place[s] < Len(shown)
    /\ frames' = [frames EXCEPT ![place[s] + 1] = IF @ < FrameCap THEN @ + 1 ELSE @]
    /\ \E l \in BOOLEAN :
          /\ s = shown[place[s] + 1] /\ ~lost[place[s]] => l = FALSE
          /\ lost' = [lost EXCEPT ![place[s]] = l]
    /\ UNCHANGED <<stage, announced, shown, begun, place, live>>

\* The stream of the last monitor ends and is counted no more.
Shrink ==
    /\ shown' = Front(shown)
    /\ frames' = Front(frames)
    /\ live' = live \ {Last(shown)}
    /\ lost' = [lost EXCEPT ![Len(shown) - 1] = FALSE]
    /\ UNCHANGED <<begun, place>>

Drop ==
    /\ stage = "open" /\ Len(shown) > 1
    /\ announced' = announced - 1
    /\ Shrink
    /\ UNCHANGED stage

\* An encoder exits by itself.
Exit(s) ==
    /\ live' = live \ {s}
    /\ UNCHANGED <<stage, announced, streamVars, lost>>

\* The session fails or ends.  A monitor that was about to come may have been
\* announced, and one that was about to go may still be.
Leave ==
    /\ stage \in {"opening", "open"}
    /\ stage' = "over"
    /\ \/ UNCHANGED <<announced, streamVars, live, lost>>
       \/ stage = "open" /\ announced' = announced + 1 /\ UNCHANGED <<streamVars, live, lost>>
       \/ stage = "open" /\ Len(shown) > 1 /\ Shrink /\ UNCHANGED announced

\* The encoders that are left are killed.
Close ==
    /\ stage = "over"
    /\ stage' = "closed"
    /\ live' = {}
    /\ UNCHANGED <<announced, streamVars, lost>>

Next ==
    \/ Announce \/ Open \/ Drop \/ Leave \/ Close
    \/ \E s \in Streams : Begin(s) \/ Show(s) \/ Exit(s)

Spec == Init /\ [][Next]_vars

=============================================================================
