---------------------------- MODULE FrameChannel ----------------------------
(***************************************************************************)
(* What the rest of the program relies on when it uses a                   *)
(* ChainCipherStream: a channel that hands over frames whole and in the    *)
(* order they were written, until it is cut.  Framing implements it.       *)
(***************************************************************************)
EXTENDS Naturals, Sequences

CONSTANT Frames  \* the frames that may be written

VARIABLES
    sent,  \* the frames written so far
    got,   \* the frames read so far
    open   \* the channel has not been cut

vars == <<sent, got, open>>

Init == sent = <<>> /\ got = <<>> /\ open = TRUE

Write(f) ==
    /\ open
    /\ sent' = Append(sent, f)
    /\ UNCHANGED <<got, open>>

\* What was written before a cut may still be read.
Read ==
    /\ Len(got) < Len(sent)
    /\ got' = Append(got, sent[Len(got) + 1])
    /\ UNCHANGED <<sent, open>>

Cut ==
    /\ open
    /\ open' = FALSE
    /\ UNCHANGED <<sent, got>>

Next == (\E f \in Frames : Write(f)) \/ Read \/ Cut

\* As long as the channel is not cut, what was written is read in the end.
Spec == Init /\ [][Next]_vars /\ WF_vars(open /\ Read)

=============================================================================
