-------------------------- MODULE KmsCapture_proofs --------------------------
(***************************************************************************)
(* Theorems about KmsCapture, for every number of attempts, failures and   *)
(* reallocations and every set of sizes, and their proofs.                 *)
(***************************************************************************)
EXTENDS KmsCapture, TLAPS

USE CaptureAssumption DEF CaptureAssumption

----------------------------------------------------------------------------
(* The inductive invariants.                                               *)

\* The bounds of TypeOK hold because a failure is only counted while fewer than
\* the maximum have been, and a frame only sent when the encoder has given back
\* what it must.
Bounded ==
    /\ pc \notin {"left", "stopped"} => failures <= MaxFailures
    /\ pc \notin {"units", "left", "stopped"} => inFlight <= Delay

TypeInv == TypeOK /\ Bounded

\* A demuxer that is to be opened has no predecessor.
ContextInv == ContextOfInput /\ (pc = "open" => frames = Closed)

\* Failures and cycles are counted in turn.
CountInv ==
    /\ pc \notin {"open", "left", "stopped"} => failures = cycles
    /\ pc = "open" => failures = cycles + 1
    /\ reason = "capture" <=> /\ pc \in {"left", "stopped"}
                              /\ cycles = MaxFailures /\ failures = MaxFailures + 1

\* The region of a monitor is given.  That of the whole screen is the size of
\* every input up to the frame that sizes the cursor, and stays from then on.
CursorInv ==
    /\ pc = "derive" => input # Closed
    /\ pc \in {"map", "render", "cursor"} => frames # Closed
    /\ request # Whole => crop = request /\ cursor \in {NoCursor, request}
    /\ request = Whole /\ cursor # NoCursor /\ ~early =>
         /\ sizedCursor => crop # Whole /\ (pc # "stopped" => cursor = crop)
         /\ ~sizedCursor =>
              /\ crop \in {Whole, scanout.size}
              /\ input # Closed => input.size = scanout.size
              /\ frames # Closed => crop = scanoutSize /\ crop # Whole
              /\ pc # "encode"

----------------------------------------------------------------------------
(* Types.                                                                  *)

LEMMA ClosedIsNoScanout == Closed \notin Scanout
  BY DEF Closed, Scanout

LEMMA TypeInit == Init => TypeInv
<1> SUFFICES ASSUME Init PROVE TypeInv
  OBVIOUS
<1>1. sent \in BOOLEAN /\ sizedCursor \in BOOLEAN /\ early \in BOOLEAN /\ probe \in BOOLEAN
        /\ running \in BOOLEAN /\ probeOk \in BOOLEAN /\ drawn \in BOOLEAN /\ gotUnit \in BOOLEAN
  BY Zenon DEF Init
<1> QED
  BY <1>1, SMT DEF Init, TypeInv, TypeOK, Bounded, Scanout, Closed, NoCursor, Output, Stages

LEMMA TypeStep == TypeInv /\ [Next]_vars => TypeInv'
<1> SUFFICES ASSUME TypeInv, [Next]_vars PROVE TypeInv'
  OBVIOUS
<1> USE DEF TypeInv, TypeOK, Bounded, Stages
<1> USE DEF sourceVars, optionVars, cursorVars, endVars, historyVars
\* What is true or false stays so.
<1>b. /\ running' \in BOOLEAN /\ probeOk' \in BOOLEAN /\ drawn' \in BOOLEAN
      /\ gotUnit' \in BOOLEAN /\ probe' \in BOOLEAN /\ early' \in BOOLEAN
  <2>1. CASE Capture
    BY <2>1, Zenon DEF Capture, ReadPacket, ReceiveFrame, NoFrame, Derive, Map, Retry, Leave, Reopen
  <2>2. CASE Main
    BY <2>2, Zenon DEF Main, StartCapture, Render, DrawCursor, Encode, TakeUnit, NoMoreUnits, Finish,
                       Leave, EndLoop, Throw
  <2>3. CASE Reallocate
    BY <2>3, Zenon DEF Reallocate
  <2> QED
    BY <2>1, <2>2, <2>3, Zenon DEF Next, vars
<1>1. CASE ReadPacket
  <2>1. sent' \in BOOLEAN
    BY <1>1, Zenon DEF ReadPacket, Fail, Current
  <2> QED
    BY <1>1, <2>1, SMT DEF ReadPacket, Fail, Current
<1>2. CASE ReceiveFrame
  <2>1. sent' \in BOOLEAN
    BY <1>2, Zenon DEF ReceiveFrame, Fail
  <2>2. /\ pc = "receive" /\ pc' \in {"derive", "failed"}
        /\ UNCHANGED <<scanout, input, frames, crop, scanoutSize, failures, request, probe,
                       cursor, sizedCursor, spins, inFlight, running, probeOk, reason, rc, drawn, gotUnit, cycles, early>>
    BY <1>2, Zenon DEF ReceiveFrame, Fail
  <2> QED
    BY <2>1, <2>2, SMT
<1>3. CASE NoFrame
  BY <1>3 DEF NoFrame, Fail
<1>4. CASE Derive
  BY <1>4 DEF Derive, Fail, Scanout, Closed
<1>5. CASE Map
  BY <1>5 DEF Map, Fail, Current, Recover
<1>6. CASE Retry
  <2>1. sent' \in BOOLEAN
    BY <1>6, Zenon DEF Retry, GivesUp, CloseInput, Leave
  <2> QED
    BY <1>6, <2>1, SMT DEF Retry, GivesUp, CloseInput, Leave
<1>7. CASE Reopen
  <2>1. sent' \in BOOLEAN
    BY <1>7, Zenon DEF Reopen, OpenInput, CloseInput
  <2> QED
    BY <1>7, <2>1, SMT DEF Reopen, OpenInput, CloseInput
<1>8. CASE StartCapture
  <2>1. /\ pc = "surface" /\ pc' \in {"receive", "stopped"} /\ spins' \in {0, spins}
        /\ reason' \in {reason, "exception"} /\ rc' \in {rc, 1}
        /\ UNCHANGED <<scanout, sourceVars, optionVars, cursorVars, inFlight, cycles>>
    BY <1>8, Zenon DEF StartCapture, Throw
  <2> QED
    BY <1>b, <2>1, SMT
<1>9. CASE Render
  BY <1>b, <1>9 DEF Render, Leave
<1>10. CASE DrawCursor
  <2>1. sizedCursor' \in BOOLEAN
    BY <1>10, Zenon DEF DrawCursor
  <2> QED
    BY <1>10, <2>1, SMT DEF DrawCursor, Throw, NeedsSize
<1>11. CASE Encode
  BY <1>b, <1>11 DEF Encode, Throw
<1>12. CASE TakeUnit
  <2>1. /\ pc = "units" /\ inFlight > 0 /\ inFlight' = inFlight - 1
        /\ pc' \in {pc, "surface"} /\ reason' \in {reason, "probe", "stdout"} /\ rc' = rc
        /\ UNCHANGED <<scanout, sourceVars, optionVars, cursorVars, spins, cycles>>
    BY <1>12, Zenon DEF TakeUnit, EndLoop
  <2> QED
    BY <1>b, <2>1, SMT
<1>13. CASE NoMoreUnits
  BY <1>b, <1>13 DEF NoMoreUnits, Throw
<1>14. CASE Reallocate
  BY <1>14 DEF Reallocate, Scanout
<1>15. CASE Finish
  BY <1>15 DEF Finish, ExitCode
<1>16. CASE UNCHANGED vars
  BY <1>16 DEF vars
<1> QED
  BY <1>1, <1>2, <1>3, <1>4, <1>5, <1>6, <1>7, <1>8, <1>9, <1>10, <1>11, <1>12, <1>13, <1>14, <1>15, <1>16 DEF Next, Capture, Main

\* Type correctness: in particular failures, attempts and frames in flight stay
\* within their bounds (kms_source.cpp, kMaxConsecutiveFailures).
THEOREM TypeCorrect == Spec => []TypeOK
<1>1. TypeInv => TypeOK
  BY DEF TypeInv
<1> QED
  BY <1>1, TypeInit, TypeStep, PTL DEF Spec

LEMMA TypeInvariant == Spec => []TypeInv
  BY TypeInit, TypeStep, PTL DEF Spec

----------------------------------------------------------------------------
(* The frames context.                                                     *)

LEMMA ContextInit == Init => ContextInv
  BY DEF Init, ContextInv, ContextOfInput

LEMMA ContextStep == ContextInv /\ [Next]_vars => ContextInv'
<1> SUFFICES ASSUME ContextInv, [Next]_vars PROVE ContextInv'
  OBVIOUS
<1> USE DEF ContextInv, ContextOfInput
<1> USE DEF sourceVars, optionVars, cursorVars, endVars, historyVars
<1>1. CASE ReadPacket
  BY <1>1 DEF ReadPacket, Fail, Current
<1>2. CASE ReceiveFrame
  BY <1>2 DEF ReceiveFrame, Fail
<1>3. CASE NoFrame
  BY <1>3 DEF NoFrame, Fail
<1>4. CASE Derive
  BY <1>4 DEF Derive, Fail
<1>5. CASE Map
  BY <1>5 DEF Map, Fail, Current, Recover
<1>6. CASE Retry
  BY <1>6 DEF Retry, GivesUp, CloseInput, Leave
<1>7. CASE Reopen
  BY <1>7 DEF Reopen, OpenInput, CloseInput
<1>8. CASE StartCapture
  BY <1>8 DEF StartCapture, Throw
<1>9. CASE Render
  BY <1>9 DEF Render, Leave
<1>10. CASE DrawCursor
  BY <1>10 DEF DrawCursor, Throw, NeedsSize
<1>11. CASE Encode
  BY <1>11 DEF Encode, Throw
<1>12. CASE TakeUnit
  BY <1>12 DEF TakeUnit, EndLoop
<1>13. CASE NoMoreUnits
  BY <1>13 DEF NoMoreUnits, Throw
<1>14. CASE Reallocate
  BY <1>14 DEF Reallocate, Scanout
<1>15. CASE Finish
  BY <1>15 DEF Finish, ExitCode
<1>16. CASE UNCHANGED vars
  BY <1>16 DEF vars
<1> QED
  BY <1>1, <1>2, <1>3, <1>4, <1>5, <1>6, <1>7, <1>8, <1>9, <1>10, <1>11, <1>12, <1>13, <1>14, <1>15, <1>16 DEF Next, Capture, Main

\* However inputs fail and are reopened, a frame is never mapped with a context
\* that was derived from another input (kms_source.cpp, closeInput).
THEOREM ContextIsOfInput == Spec => []ContextOfInput
<1>1. ContextInv => ContextOfInput
  BY DEF ContextInv
<1> QED
  BY <1>1, ContextInit, ContextStep, PTL DEF Spec

----------------------------------------------------------------------------
(* Giving up.                                                              *)

LEMMA CountInit == Init => CountInv
  BY DEF Init, CountInv

LEMMA CountStep == TypeInv /\ CountInv /\ [Next]_vars => CountInv'
<1> SUFFICES ASSUME TypeInv, CountInv, [Next]_vars PROVE CountInv'
  OBVIOUS
<1> USE DEF TypeInv, TypeOK, Bounded, CountInv
<1> USE DEF sourceVars, optionVars, cursorVars, endVars, historyVars
<1>1. CASE ReadPacket
  BY <1>1 DEF ReadPacket, Fail, Current
<1>2. CASE ReceiveFrame
  BY <1>2 DEF ReceiveFrame, Fail
<1>3. CASE NoFrame
  BY <1>3 DEF NoFrame, Fail
<1>4. CASE Derive
  BY <1>4 DEF Derive, Fail
<1>5. CASE Map
  BY <1>5 DEF Map, Fail, Current, Recover
<1>6. CASE Retry
  BY <1>6 DEF Retry, GivesUp, CloseInput, Leave
<1>7. CASE Reopen
  BY <1>7 DEF Reopen, OpenInput, CloseInput
<1>8. CASE StartCapture
  <2>1. /\ pc = "surface" /\ UNCHANGED <<failures, cycles>>
        /\ \/ pc' = "receive" /\ reason' = reason
           \/ pc' = "stopped" /\ reason' = "exception"
    BY <1>8, Zenon DEF StartCapture, Throw
  <2> QED
    BY <2>1, SMT
<1>9. CASE Render
  BY <1>9 DEF Render, Leave
<1>10. CASE DrawCursor
  BY <1>10 DEF DrawCursor, Throw, NeedsSize
<1>11. CASE Encode
  BY <1>11 DEF Encode, Throw
<1>12. CASE TakeUnit
  BY <1>12 DEF TakeUnit, EndLoop
<1>13. CASE NoMoreUnits
  BY <1>13 DEF NoMoreUnits, Throw
<1>14. CASE Reallocate
  BY <1>14 DEF Reallocate, Scanout
<1>15. CASE Finish
  BY <1>15 DEF Finish, ExitCode
<1>16. CASE UNCHANGED vars
  BY <1>16 DEF vars
<1> QED
  BY <1>1, <1>2, <1>3, <1>4, <1>5, <1>6, <1>7, <1>8, <1>9, <1>10, <1>11, <1>12, <1>13, <1>14, <1>15, <1>16 DEF Next, Capture, Main

\* The program gives up a capture only after MaxFailures close and reopen cycles
\* without a frame in between (kms_source.cpp, captureInto).
THEOREM GivesUpOnlyLate == Spec => []GivesUpLate
<1>1. CountInv => GivesUpLate
  BY DEF CountInv, GivesUpLate
<1> QED
  BY <1>1, CountInit, CountStep, TypeInvariant, PTL DEF Spec

----------------------------------------------------------------------------
(* The cursor.                                                             *)

LEMMA CursorInit == Init => CursorInv
  BY DEF Init, CursorInv

\* A scanout has a size, and no scanout is Closed.
LEMMA SizeOfScanout == \A x \in Scanout : x.size \in Sizes /\ x.size # Whole /\ x # Closed
  BY DEF Scanout, Closed

LEMMA CursorStep == TypeInv /\ CursorInv /\ [Next]_vars => CursorInv'
<1> SUFFICES ASSUME TypeInv, CursorInv, [Next]_vars PROVE CursorInv'
  OBVIOUS
<1>0. /\ scanout \in Scanout /\ input \in Scanout \cup {Closed}
      /\ crop \in Sizes \cup {Whole}
      /\ scanout.size \in Sizes
      /\ input # Closed => input.size \in Sizes
      /\ Whole \notin Sizes
  BY SizeOfScanout DEF TypeInv, TypeOK
<1> USE <1>0 DEF CursorInv, sourceVars, optionVars, cursorVars, endVars, historyVars
<1>1. CASE ReadPacket
  BY <1>1 DEF ReadPacket, Fail, Current
<1>2. CASE ReceiveFrame
  BY <1>2 DEF ReceiveFrame, Fail
<1>3. CASE NoFrame
  BY <1>3 DEF NoFrame, Fail
<1>4. CASE Derive
  BY <1>4 DEF Derive, Fail
<1>5. CASE Map
  BY <1>5 DEF Map, Fail, Current, Recover
<1>6. CASE Retry
  BY <1>6 DEF Retry, GivesUp, CloseInput, Leave
<1>7. CASE Reopen
  BY <1>7 DEF Reopen, OpenInput, CloseInput
<1>8. CASE StartCapture
  BY <1>8 DEF StartCapture, Throw
<1>9. CASE Render
  BY <1>9 DEF Render, Leave
<1>10. CASE DrawCursor
  <2>1. CASE NeedsSize
    <3>1. sizedCursor'
      BY <1>10, <2>1, Zenon DEF DrawCursor
    <3> QED
      BY <1>10, <2>1, <3>1, SMT DEF DrawCursor, Throw, NeedsSize
  <2>2. CASE ~NeedsSize
    BY <1>10, <2>2 DEF DrawCursor, NeedsSize
  <2> QED
    BY <2>1, <2>2
<1>11. CASE Encode
  BY <1>11 DEF Encode, Throw
<1>12. CASE TakeUnit
  BY <1>12 DEF TakeUnit, EndLoop
<1>13. CASE NoMoreUnits
  BY <1>13 DEF NoMoreUnits, Throw
<1>14. CASE Reallocate
  <2>1. PICK s \in Sizes : /\ scanout' = [buffer |-> scanout.buffer + 1, size |-> s]
                           /\ early' = (early \/ (~sizedCursor /\ s # scanout.size))
    BY <1>14 DEF Reallocate
  <2>2. scanout'.size = s
    BY <2>1
  <2>3. early' \/ (~early /\ (sizedCursor \/ s = scanout.size))
    BY <2>1, Zenon
  <2>4. UNCHANGED <<input, frames, crop, scanoutSize, request, cursor, sizedCursor, pc>>
    BY <1>14 DEF Reallocate
  <2> QED
    BY <2>2, <2>3, <2>4, Zenon
<1>15. CASE Finish
  BY <1>15 DEF Finish, ExitCode
<1>16. CASE UNCHANGED vars
  BY <1>16 DEF vars
<1> QED
  BY <1>1, <1>2, <1>3, <1>4, <1>5, <1>6, <1>7, <1>8, <1>9, <1>10, <1>11, <1>12, <1>13, <1>14, <1>15, <1>16 DEF Next, Capture, Main

\* The overlay is made for the region that is captured, unless the size of the
\* screen changes before the first frame (vd_encoder.cpp, main).
THEOREM CursorIsToScale == Spec => []CursorFitsPicture
<1>1. CursorInv => CursorFitsPicture
  BY DEF CursorInv, CursorFitsPicture
<1> QED
  BY <1>1, CursorInit, CursorStep, TypeInvariant, PTL DEF Spec
----------------------------------------------------------------------------
(* The exit code.                                                          *)

\* A frame that is encoded was captured; a probe knows whether it has a unit,
\* and with one it only leaves the loop.
ProbeInv ==
    /\ inFlight > 0 \/ gotUnit \/ pc \in {"cursor", "encode", "units"} => drawn
    /\ probe => (probeOk <=> gotUnit)
    /\ probe /\ gotUnit => ~running /\ pc \in {"surface", "stopped"}
    /\ pc # "stopped" => rc = 0
    /\ pc = "stopped" /\ probe => (rc = 0 <=> gotUnit)

LEMMA ProbeStep == TypeInv /\ ProbeInv /\ [Next]_vars => ProbeInv'
<1> SUFFICES ASSUME TypeInv, ProbeInv, [Next]_vars PROVE ProbeInv'
  OBVIOUS
<1>0. inFlight \in Nat
  BY DEF TypeInv, TypeOK
<1> USE DEF ProbeInv, sourceVars, optionVars, cursorVars, endVars, historyVars
\* A step of the capture gets no unit and stops nothing.
<1>1. CASE Capture
  <2>1. /\ UNCHANGED <<probe, inFlight, running, probeOk, rc, drawn, gotUnit>>
        /\ pc \notin {"surface", "cursor", "encode", "units", "stopped"}
        /\ pc' \notin {"surface", "cursor", "encode", "units", "stopped"}
    <3>1. CASE ReadPacket
      BY <3>1, Zenon DEF ReadPacket, Fail
    <3>2. CASE ReceiveFrame \/ NoFrame
      BY <3>2, Zenon DEF ReceiveFrame, NoFrame, Fail
    <3>3. CASE Derive \/ Map
      BY <3>3, Zenon DEF Derive, Map, Fail
    <3>4. CASE Retry \/ Reopen
      BY <3>4, Zenon DEF Retry, Leave, Reopen
    <3> QED
      BY <1>1, <3>1, <3>2, <3>3, <3>4 DEF Capture
  <2> QED
    BY <2>1
<1>2. CASE StartCapture
  <2>1. /\ pc = "surface" /\ running
        /\ UNCHANGED <<probe, inFlight, running, probeOk, drawn, gotUnit>>
        /\ \/ pc' = "receive" /\ rc' = rc
           \/ pc' = "stopped" /\ rc' = 1
    BY <1>2, Zenon DEF StartCapture, Throw
  <2> QED
    BY <2>1
<1>3. CASE Render
  <2>1. /\ pc = "render" /\ UNCHANGED <<probe, inFlight, running, probeOk, rc, gotUnit>>
        /\ \/ pc' = "cursor" /\ drawn'
           \/ pc' = "left" /\ drawn' = drawn
    BY <1>3, Zenon DEF Render, Leave
  <2> QED
    BY <2>1
<1>4. CASE DrawCursor
  <2>1. /\ pc = "cursor" /\ UNCHANGED <<probe, inFlight, running, probeOk, drawn, gotUnit>>
        /\ \/ pc' = "encode" /\ rc' = rc
           \/ pc' = "stopped" /\ rc' = 1
    BY <1>4, Zenon DEF DrawCursor, Throw
  <2> QED
    BY <2>1
<1>5. CASE Encode
  <2>1. /\ pc = "encode" /\ UNCHANGED <<probe, running, probeOk, drawn, gotUnit>>
        /\ \/ pc' = "units" /\ rc' = rc
           \/ pc' = "stopped" /\ rc' = 1
    BY <1>5, Zenon DEF Encode, Throw
  <2> QED
    BY <2>1
<1>6. CASE TakeUnit
  <2>1. CASE probe
    <3>1. /\ pc' = "surface" /\ rc' = rc /\ probeOk' /\ gotUnit' /\ ~running'
          /\ pc = "units" /\ UNCHANGED <<probe, drawn>>
      BY <1>6, <2>1, Zenon DEF TakeUnit, EndLoop
    <3> QED
      BY <2>1, <3>1
  <2>2. CASE ~probe
    <3>1. /\ pc' \in {"surface", "units"} /\ rc' = rc /\ pc = "units" /\ UNCHANGED <<probe, drawn>>
      BY <1>6, <2>2, Zenon DEF TakeUnit, EndLoop
    <3> QED
      BY <2>2, <3>1
  <2> QED
    BY <2>1, <2>2
<1>7. CASE NoMoreUnits
  <2>1. /\ pc = "units" /\ UNCHANGED <<probe, inFlight, running, probeOk, drawn, gotUnit>>
        /\ \/ pc' = "surface" /\ rc' = rc
           \/ pc' = "stopped" /\ rc' = 1
    BY <1>7, Zenon DEF NoMoreUnits, Throw
  <2> QED
    BY <2>1
<1>8. CASE Finish
  <2>1. /\ UNCHANGED <<probe, inFlight, running, probeOk, drawn, gotUnit>>
        /\ pc \in {"left", "surface"} /\ pc' = "stopped" /\ rc = 0
        /\ rc' = IF probe /\ ~probeOk THEN 1 ELSE 0
    BY <1>8 DEF Finish, ExitCode
  <2> QED
    BY <2>1
<1>9. CASE Reallocate \/ UNCHANGED vars
  <2>1. UNCHANGED <<probe, inFlight, running, probeOk, rc, drawn, gotUnit, pc>>
    BY <1>9, Zenon DEF Reallocate, vars
  <2> QED
    BY <2>1
<1> QED
  BY <1>1, <1>2, <1>3, <1>4, <1>5, <1>6, <1>7, <1>8, <1>9 DEF Next, Main

\* A probe exits with 0 exactly when it got an access unit, which is one of a
\* captured frame (vd_encoder.cpp, main), wherever it fails otherwise.
THEOREM ProbeTellsTheTruth == Spec => []ProbeIsHonest
<1>1. Init => ProbeInv
  BY DEF Init, ProbeInv
<1>2. ProbeInv => ProbeIsHonest
  BY DEF ProbeInv, ProbeIsHonest
<1> QED
  BY <1>1, <1>2, ProbeStep, TypeInvariant, PTL DEF Spec
==============================================================================
