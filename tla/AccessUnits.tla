---------------------------- MODULE AccessUnits ----------------------------
(***************************************************************************)
(* How a reader thread cuts the byte stream of an encoder process into     *)
(* access units (video/access_units.py, split_access_units) and which of   *)
(* them it takes for keyframes (video/session.py, _reader).                *)
(*                                                                         *)
(* The stream is a sequence of symbols, each a run of bytes that matters   *)
(* as one.  The pattern that is searched for, an access unit delimiter,    *)
(* is two of them, so that a read can end in its middle.                   *)
(***************************************************************************)
EXTENDS Naturals, Sequences, SequencesExt

CONSTANTS
    Layouts,   \* where encoders put the parameter sets of a keyframe: "behind"
               \* the delimiter of its unit, or "before" it
    MaxFrames  \* bound: frames the encoder produces

ASSUME UnitsAssumption ==
    /\ Layouts \subseteq {"behind", "before"}
    /\ MaxFrames \in Nat

VARIABLES
    layout,  \* the layout of this encoder
    frames,  \* the frames encoded so far: TRUE for a keyframe
    pipe,    \* what the encoder has written and nobody has read
    buf,     \* _reader: what it has read and not handed on
    units,   \* the access units handed on, with their is_sync
    reader   \* "reading", or "ended"

vars == <<layout, frames, pipe, buf, units, reader>>

AUD   == <<"start", "aud">>   \* 00 00 00 01 09
Lead  == 3                    \* a delimiter and its payload byte, as in au[:6]
SPS   == "sps"

\* What the encoder writes for a frame.
Bytes(key) ==
    CASE ~key                     -> <<AUD[1], AUD[2], "payload", "delta">>
      [] key /\ layout = "behind" -> <<AUD[1], AUD[2], "payload", SPS, "idr">>
      [] key /\ layout = "before" -> <<SPS, AUD[1], AUD[2], "payload", "idr">>

Init ==
    /\ layout \in Layouts
    /\ frames = <<>> /\ pipe = <<>> /\ buf = <<>> /\ units = <<>>
    /\ reader = "reading"

----------------------------------------------------------------------------
(* split_access_units                                                      *)

\* buf.find(AUD, from): where the first delimiter from there on is, or 0.
Delimiters(b, from) == { i \in from..(Len(b) - 1) : SubSeq(b, i, i + 1) = AUD }
Find(b, from) ==
    LET at == Delimiters(b, from)
    IN IF at = {} THEN 0 ELSE CHOOSE i \in at : \A j \in at : i <= j

\* What precedes the first delimiter goes behind it and its payload.
\* Fault: it stays in front.
FaultReattach(prefix, au) == prefix \o au
Reattach(prefix, au) ==
    IF prefix = <<>> THEN au
    ELSE SubSeq(au, 1, Lead) \o prefix \o SubSeq(au, Lead + 1, Len(au))

\* A unit goes from one delimiter up to the next.
\* Fault: it takes the first symbol of the next one along.
FaultUnit(b, start, nxt) == SubSeq(b, start, nxt)
Unit(b, start, nxt) == SubSeq(b, start, nxt - 1)

\* What goes from the last delimiter on is kept for the next time.
\* Fault: only what is behind that delimiter is.
FaultRest(b, start) == SubSeq(b, start + Lead, Len(b))
\* Fault: everything from the first delimiter on is.
FaultRestOfFirst(b, start) == SubSeq(b, Find(b, 1), Len(b))
Rest(b, start) == SubSeq(b, start, Len(b))

\* A turn of the loop cuts one unit off, if there is another delimiter.
Turn(b, cut) ==
    LET nxt == Find(b, cut.start + Len(AUD))
    IN IF nxt = 0 THEN cut
       ELSE [units  |-> Append(cut.units, Reattach(cut.prefix, Unit(b, cut.start, nxt))),
             start  |-> nxt,
             prefix |-> <<>>]
Cuts(b) ==
    LET first == Find(b, 1)
        cut[n \in 0..Len(b)] ==
            IF n = 0 THEN [units |-> <<>>, start |-> first, prefix |-> SubSeq(b, 1, first - 1)]
            ELSE Turn(b, cut[n - 1])
    IN cut

Split(b) ==
    LET cut == Cuts(b)[Len(b)]
    IN IF Find(b, 1) = 0 THEN [units |-> <<>>, rest |-> b]
       ELSE [units |-> cut.units, rest |-> Rest(b, cut.start)]

\* SPS in au
IsSync(au) == Contains(au, SPS)

----------------------------------------------------------------------------

\* The encoder writes a frame, the first one a keyframe.
Encode(key) ==
    /\ reader = "reading"
    /\ Len(frames) < MaxFrames
    /\ frames = <<>> => key
    /\ frames' = Append(frames, key)
    /\ pipe' = pipe \o Bytes(key)
    /\ UNCHANGED <<layout, buf, units, reader>>

\* One turn of _reader: a read returns the first n symbols of what is there.
Read(n) ==
    LET split == Split(buf \o SubSeq(pipe, 1, n))
    IN /\ reader = "reading"
       /\ pipe' = SubSeq(pipe, n + 1, Len(pipe))
       /\ buf' = split.rest
       /\ units' = units \o [k \in DOMAIN split.units |->
                                [au |-> split.units[k], sync |-> IsSync(split.units[k])]]
       /\ UNCHANGED <<layout, frames, reader>>

\* The encoder has closed its output and everything is read: what is in buf is
\* never handed on.
EndOfFile ==
    /\ reader = "reading"
    /\ pipe = <<>>
    /\ reader' = "ended"
    /\ UNCHANGED <<layout, frames, pipe, buf, units>>

Next ==
    \/ \E key \in BOOLEAN : Encode(key)
    \/ \E n \in 1..Len(pipe) : Read(n)
    \/ EndOfFile

Spec == Init /\ [][Next]_vars

----------------------------------------------------------------------------
(* Properties.                                                             *)

Symbols == { AUD[1], AUD[2], "payload", SPS, "idr", "delta" }

\* The type invariant.  What a reader holds back does not grow: there is never
\* a unit in it that could be handed on.
TypeOK ==
    /\ layout \in Layouts
    /\ frames \in Seq(BOOLEAN) /\ Len(frames) <= MaxFrames
    /\ pipe \in Seq(Symbols)
    /\ buf \in Seq(Symbols) /\ Split(buf).units = <<>>
    /\ units \in Seq([au : Seq(Symbols), sync : BOOLEAN])
    /\ reader \in {"reading", "ended"}

\* However the stream is cut into reads, the units of an encoder that puts
\* parameter sets behind the delimiter are its frames, and is_sync marks the
\* keyframes among them.
UnitsAreFrames ==
    layout = "behind" =>
        \A k \in DOMAIN units : units[k] = [au |-> Bytes(frames[k]), sync |-> frames[k]]

\* When the pipe is empty only the last frame has not been handed on, whatever
\* the encoder's layout.
OnlyLastHeldBack ==
    (pipe = <<>> /\ frames # <<>>) => Len(units) = Len(frames) - 1

\* Every unit starts with its delimiter, as Annex B demands, whatever the
\* encoder's layout.
UnitsLeadWithDelimiter ==
    \A k \in DOMAIN units : SubSeq(units[k].au, 1, Len(AUD)) = AUD

=============================================================================
