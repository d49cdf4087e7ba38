----------------------------- MODULE KmsCapture -----------------------------
(***************************************************************************)
(* The vd_encoder program: main of vd_encoder.cpp with the capture source  *)
(* of kms_source.cpp.  One thread takes a surface, has KmsSource draw the  *)
(* screen on it, draws the cursor over it, encodes it and writes what the  *)
(* encoder gives back to stdout.                                           *)
(*                                                                         *)
(* What makes it hard is the screen.  It is scanned out of a buffer that   *)
(* the X server replaces whenever it likes, of another size after a change *)
(* of mode.  The demuxer that was opened on the old buffer then fails,     *)
(* and so does what was derived from it; KmsSource closes and reopens it,  *)
(* with a bound on the failures in a row.  libav, VA-API and the reader of *)
(* stdout are external and may fail at any call.                           *)
(***************************************************************************)
EXTENDS Naturals

CONSTANTS
    Sizes,        \* the sizes a scanout may have
    Whole,        \* no --crop option: opt.crop_w = 0
    Requests,     \* what --crop may ask for: sizes, or Whole
    MaxFailures,  \* kMaxConsecutiveFailures
    MaxSpins,     \* the 256 attempts of nextSurface
    Delay,        \* bound: frames the encoder keeps before it gives a unit
    MaxChanges    \* bound: times the scanout is reallocated

ASSUME CaptureAssumption ==
    /\ Whole \notin Sizes
    /\ Requests \subseteq Sizes \cup {Whole}
    /\ MaxFailures \in Nat /\ MaxSpins \in Nat \ {0}
    /\ Delay \in Nat /\ MaxChanges \in Nat

VARIABLES
    scanout,   \* the buffer on the screen: its number and its size
    \* KmsSource
    input,     \* fmt_ and dec_: the scanout they were opened on, or Closed
    sent,      \* a packet was sent to dec_ and its frame not yet received
    frames,    \* va_frames_: the scanout it was derived from, or Closed
    crop,      \* crop_w_ and crop_h_
    scanoutSize, \* scanout_w_ and scanout_h_
    failures,  \* consecutive_failures_
    \* main
    request,   \* opt.crop_w and opt.crop_h
    probe,     \* opt.probe
    cursor,    \* the region the overlay was made for, or NoCursor
    sizedCursor,
    pc,        \* where main is
    spins,     \* the loop variable of nextSurface
    inFlight,  \* frames the encoder has been sent and has not given back
    running,   \* whether the loop goes round again
    probeOk,   \* probe_ok
    reason,    \* why the loop was left; stop_reason does not tell all of these apart
    rc,
    \* history
    drawn,     \* a picture of the screen was drawn on a surface
    gotUnit,   \* the encoder gave an access unit
    cycles,    \* times the input was closed and reopened since the last frame,
               \* counted up to MaxFailures
    early      \* the screen changed its size before the cursor was sized

sourceVars  == <<input, sent, frames, crop, scanoutSize, failures>>
optionVars  == <<request, probe>>
cursorVars  == <<cursor, sizedCursor>>
endVars     == <<running, probeOk, reason, rc>>
historyVars == <<drawn, gotUnit, cycles, early>>
vars == <<scanout, sourceVars, optionVars, cursorVars, pc, spins, inFlight,
          endVars, historyVars>>

Scanout  == [buffer : 0..MaxChanges, size : Sizes]
Closed   == [buffer |-> 0, size |-> Whole]     \* no scanout has this size
NoCursor == "none"
Output   == "output"                           \* made for out_w by out_h

\* The constructors have run: the encoder and the input are open, and the
\* overlay is made if there is an X display.  A failure there ends the program
\* before any of this.
Init ==
    /\ scanout \in [buffer : {0}, size : Sizes]
    /\ input = scanout /\ sent = FALSE /\ frames = Closed
    /\ request \in Requests /\ probe \in BOOLEAN
    /\ crop = request
    /\ scanoutSize = Whole
    /\ failures = 0
    /\ cursor \in {NoCursor, IF request = Whole THEN Output ELSE request}
    /\ sizedCursor = FALSE
    /\ pc = "surface" /\ spins = 0 /\ inFlight = 0
    /\ running = TRUE /\ probeOk = FALSE /\ reason = "none" /\ rc = 0
    /\ drawn = FALSE /\ gotUnit = FALSE /\ cycles = 0 /\ early = FALSE

----------------------------------------------------------------------------
(* The end of main.                                                        *)

\* The loop is left by a break.
Leave(why) == pc' = "left" /\ reason' = why /\ UNCHANGED <<running, probeOk, rc>>

\* The loop will not go round again.
EndLoop(why) ==
    /\ running' = FALSE /\ reason' = why
    /\ pc' = "surface"
    /\ UNCHANGED rc

\* An exception of the encoder or of the overlay reaches main's handler.
Throw ==
    /\ pc' = "stopped" /\ reason' = "exception" /\ rc' = 1
    /\ UNCHANGED <<running, probeOk>>

\* Fault: a probe only fails when the capture does.
FaultExitCode == IF probe /\ reason = "capture" THEN 1 ELSE rc
ExitCode == IF probe /\ ~probeOk THEN 1 ELSE rc

\* Behind the loop.
Finish ==
    /\ pc = "left" \/ (pc = "surface" /\ ~running)
    /\ pc' = "stopped" /\ rc' = ExitCode
    /\ UNCHANGED <<scanout, sourceVars, optionVars, cursorVars, spins, inFlight,
                   running, probeOk, reason, historyVars>>

----------------------------------------------------------------------------
(* Taking a surface, and nextSurface.                                      *)

StartCapture ==
    /\ pc = "surface" /\ running
    /\ \/ /\ pc' = "receive" /\ spins' = 0
          /\ UNCHANGED endVars
       \/ Throw /\ UNCHANGED spins                     \* getPooledFrame
    /\ UNCHANGED <<scanout, sourceVars, optionVars, cursorVars, inFlight,
                   historyVars>>

Fail == /\ pc' = "failed"
        /\ UNCHANGED <<sent, spins>>

\* The frames of a demuxer exist as long as its buffer is the one on screen.
Current == input = scanout

\* One turn of the loop while the decoder wants a packet.
ReadPacket ==
    /\ pc = "receive" /\ input # Closed /\ spins < MaxSpins /\ ~sent
    /\ \/ /\ Current                                   \* read and sent
          /\ sent' = TRUE /\ spins' = spins + 1
          /\ UNCHANGED pc
       \/ /\ spins' = spins + 1                        \* EAGAIN
          /\ UNCHANGED <<sent, pc>>
       \/ Fail
    /\ UNCHANGED <<scanout, input, frames, crop, scanoutSize, failures,
                   optionVars, cursorVars, inFlight, endVars, historyVars>>

\* One turn of the loop while the decoder has a frame.
ReceiveFrame ==
    /\ pc = "receive" /\ input # Closed /\ spins < MaxSpins /\ sent
    /\ \/ /\ sent' = FALSE /\ pc' = "derive"
          /\ UNCHANGED spins
       \/ Fail
    /\ UNCHANGED <<scanout, input, frames, crop, scanoutSize, failures,
                   optionVars, cursorVars, inFlight, endVars, historyVars>>

\* nextSurface without an input, or after its last attempt.
NoFrame ==
    /\ pc = "receive"
    /\ input = Closed \/ spins = MaxSpins
    /\ Fail
    /\ UNCHANGED <<scanout, input, frames, crop, scanoutSize, failures,
                   optionVars, cursorVars, inFlight, endVars, historyVars>>

\* The first frame of an input gives the sizes and the frames context.
Derive ==
    /\ pc = "derive"
    /\ IF frames # Closed
         THEN /\ pc' = "map"
              /\ UNCHANGED <<sent, spins, frames, crop, scanoutSize>>
         ELSE /\ scanoutSize' = input.size
              /\ crop' = IF crop = Whole THEN input.size ELSE crop
              /\ \/ /\ frames' = input /\ pc' = "map"
                    /\ UNCHANGED <<sent, spins>>
                 \/ /\ Fail
                    /\ UNCHANGED frames
    /\ UNCHANGED <<scanout, input, failures, optionVars, cursorVars, inFlight,
                   endVars, historyVars>>

\* Fault: a frame does not end a row of failures.
FaultRecover == cycles' = 0 /\ UNCHANGED failures
Recover == cycles' = 0 /\ failures' = 0

\* av_hwframe_map, and on success the rest of captureInto up to the drawing.
Map ==
    /\ pc = "map"
    /\ \/ /\ Current
          /\ pc' = "render"
          /\ Recover
          /\ UNCHANGED <<sent, spins>>
       \/ /\ Fail
          /\ UNCHANGED <<failures, cycles>>
    /\ UNCHANGED <<scanout, input, frames, crop, scanoutSize, optionVars,
                   cursorVars, inFlight, endVars, drawn, gotUnit, early>>

----------------------------------------------------------------------------
(* captureInto after a failure of nextSurface, and the drawing.            *)

\* Fault: the frames context outlives the demuxer.
FaultCloseInput == input' = Closed /\ sent' = FALSE /\ UNCHANGED frames
CloseInput == input' = Closed /\ sent' = FALSE /\ frames' = Closed

\* Fault: the failures are compared before they are counted.
FaultGivesUp == failures > MaxFailures
GivesUp == failures + 1 > MaxFailures

Retry ==
    /\ pc = "failed"
    /\ failures' = failures + 1
    /\ IF GivesUp
         THEN /\ Leave("capture")
              /\ UNCHANGED <<input, sent, frames>>
         ELSE /\ CloseInput
              /\ pc' = "open"
              /\ UNCHANGED endVars
    /\ UNCHANGED <<scanout, crop, scanoutSize, optionVars, cursorVars, spins,
                   inFlight, historyVars>>

\* Fault: an input that could be opened ends a row of failures.
FaultOpenInput == input' = scanout /\ failures' = 0 /\ UNCHANGED <<sent, frames>>
OpenInput == input' = scanout /\ UNCHANGED <<sent, frames, failures>>

\* openInput after the wait; when it fails, closeInput leaves nothing open.
Reopen ==
    /\ pc = "open"
    /\ \/ OpenInput
       \/ CloseInput /\ UNCHANGED failures
    /\ cycles' = IF cycles < MaxFailures THEN cycles + 1 ELSE cycles
    /\ pc' = "receive" /\ spins' = 0
    /\ UNCHANGED <<scanout, crop, scanoutSize, optionVars, cursorVars, inFlight,
                   endVars, drawn, gotUnit, early>>

\* The video processor scales the region to the surface; any error of it ends
\* the capture without another attempt.
Render ==
    /\ pc = "render"
    /\ \/ /\ pc' = "cursor" /\ drawn' = TRUE
          /\ UNCHANGED endVars
       \/ Leave("render") /\ UNCHANGED drawn
    /\ UNCHANGED <<scanout, sourceVars, optionVars, cursorVars, spins, inFlight,
                   gotUnit, cycles, early>>

----------------------------------------------------------------------------
(* The rest of main's loop.                                                *)

\* Fault: the overlay is made anew for a monitor that is part of the screen.
FaultNeedsSize == cursor # NoCursor /\ ~sizedCursor /\ request # Whole
NeedsSize == cursor # NoCursor /\ ~sizedCursor /\ request = Whole

\* With the whole screen captured its size is only known now, and the overlay
\* is made anew, outside the handler that lets the first one fail.
DrawCursor ==
    /\ pc = "cursor"
    /\ IF NeedsSize
         THEN /\ sizedCursor' = TRUE
              /\ \/ /\ cursor' = scanoutSize
                    /\ pc' = "encode"
                    /\ UNCHANGED endVars
                 \/ Throw /\ UNCHANGED cursor
         ELSE /\ pc' = "encode"
              /\ UNCHANGED <<cursorVars, endVars>>
    /\ UNCHANGED <<scanout, sourceVars, optionVars, spins, inFlight, historyVars>>

Encode ==
    /\ pc = "encode"
    /\ \/ /\ inFlight' = inFlight + 1
          /\ pc' = "units"
          /\ UNCHANGED endVars
       \/ Throw /\ UNCHANGED inFlight
    /\ UNCHANGED <<scanout, sourceVars, optionVars, cursorVars, spins, historyVars>>

\* receivePacket has an access unit: a probe ends with it, otherwise it is
\* written, which fails when the reader has closed the pipe.
TakeUnit ==
    /\ pc = "units" /\ inFlight > 0
    /\ inFlight' = inFlight - 1
    /\ gotUnit' = TRUE
    /\ IF probe
         THEN probeOk' = TRUE /\ EndLoop("probe")
         ELSE \/ UNCHANGED <<pc, endVars>>
              \/ EndLoop("stdout") /\ UNCHANGED probeOk
    /\ UNCHANGED <<scanout, sourceVars, optionVars, cursorVars, spins, drawn,
                   cycles, early>>

\* receivePacket has none, which needs no more than Delay frames, or throws.
NoMoreUnits ==
    /\ pc = "units"
    /\ \/ /\ inFlight <= Delay
          /\ pc' = "surface"
          /\ UNCHANGED endVars
       \/ Throw
    /\ UNCHANGED <<scanout, sourceVars, optionVars, cursorVars, spins, inFlight,
                   historyVars>>

Capture == ReadPacket \/ ReceiveFrame \/ NoFrame \/ Derive \/ Map \/ Retry \/ Reopen
Main    == StartCapture \/ Render \/ DrawCursor \/ Encode \/ TakeUnit
               \/ NoMoreUnits \/ Finish

----------------------------------------------------------------------------
(* The screen (external).                                                  *)

\* The X server replaces the buffer, with or without a change of mode.
Reallocate ==
    /\ pc # "stopped"
    /\ scanout.buffer < MaxChanges
    /\ \E s \in Sizes :
         /\ scanout' = [buffer |-> scanout.buffer + 1, size |-> s]
         /\ early' = (early \/ (~sizedCursor /\ s # scanout.size))
    /\ UNCHANGED <<sourceVars, optionVars, cursorVars, pc, spins, inFlight,
                   endVars, drawn, gotUnit, cycles>>

Next == Capture \/ Main \/ Reallocate

Spec == Init /\ [][Next]_vars

\* Every call into libav returns, so a capture goes on, and the program ends
\* when its loop has.  Nothing is assumed of the rest of Main, where a write
\* waits for a reader that need not read.
FairSpec == Spec /\ WF_vars(Capture) /\ WF_vars(Finish)

----------------------------------------------------------------------------
(* Properties.                                                             *)

Stages == {"surface", "receive", "derive", "map", "failed", "open", "render",
           "cursor", "encode", "units", "left", "stopped"}

\* Every variable has its type; in particular the failures in a row never
\* exceed the bound by more than the one that makes the program give up.
TypeOK ==
    /\ scanout \in Scanout
    /\ input \in Scanout \cup {Closed} /\ frames \in Scanout \cup {Closed}
    /\ sent \in BOOLEAN /\ probe \in BOOLEAN /\ sizedCursor \in BOOLEAN
    /\ crop \in Sizes \cup {Whole} /\ scanoutSize \in Sizes \cup {Whole}
    /\ request \in Requests
    /\ cursor \in Sizes \cup {Whole, NoCursor, Output}
    /\ failures \in 0..(MaxFailures + 1) /\ cycles \in 0..MaxFailures
    /\ pc \in Stages
    /\ spins \in 0..MaxSpins
    /\ inFlight \in 0..(Delay + 1)
    /\ reason \in {"none", "capture", "render", "stdout", "probe", "exception"}
    /\ rc \in {0, 1}
    /\ running \in BOOLEAN /\ probeOk \in BOOLEAN
    /\ drawn \in BOOLEAN /\ gotUnit \in BOOLEAN /\ early \in BOOLEAN

\* A frames context is only ever used with the demuxer it was derived from:
\* "va_frames_ derives from drm_ frames context, must be re-derived on
\* reconnect" (closeInput).  Otherwise a new screen would be imported with the
\* layout of the old one.
ContextOfInput == frames # Closed => frames = input

\* captureInto gives up only after the full number of close and reopen cycles
\* without a frame in between: failures that were overcome do not count, however
\* many there have been in the session.
GivesUpLate == reason = "capture" => cycles = MaxFailures

\* The cursor is drawn in the scale of the picture under it: the overlay was
\* made for the region that is captured.  (When the size of the screen changes
\* before the first frame, the two may come from different inputs.)
CursorFitsPicture ==
    pc = "encode" /\ cursor # NoCursor /\ ~early => cursor = crop

\* vd_encoder_works takes exit code 0 for "can capture and encode": a probe
\* returns it exactly when the encoder gave an access unit, by whichever of its
\* exits the loop was left, and then the screen was captured before.
ProbeIsHonest ==
    pc = "stopped" /\ probe => /\ rc = 0 <=> gotUnit
                               /\ rc = 0 => drawn

\* A capture that has failed ends, with a picture or with the program,
\* whatever the demuxer does and however often the screen changes: the session
\* never waits for an encoder that tries for ever.
CaptureEnds == pc = "failed" ~> pc \in {"render", "stopped"}
=============================================================================
