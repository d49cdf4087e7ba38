------------------------------- MODULE Framing -------------------------------
(***************************************************************************)
(* One direction of a ChainCipherStream (protocol/crypto.py) between two   *)
(* ends that hold the same key and IV.  A frame is a varint with the       *)
(* length of the payload, the payload, and padding up to a whole number of *)
(* cipher blocks.  TCP carries its bytes in whatever pieces it likes, and  *)
(* the reader finds the end of a frame only from the varint in its first   *)
(* block.  Of a payload only the length matters here.                      *)
(*                                                                         *)
(* The socket is two counters, the bytes handed to it and the bytes taken  *)
(* from it.  The cipher decrypts the first block of a frame to what was    *)
(* encrypted if the bytes before it have all been decrypted in order,      *)
(* which they have: pos only grows.                                        *)
(***************************************************************************)
EXTENDS Naturals, Sequences, FiniteSets

CONSTANTS
    Lengths,    \* bound: the payload lengths that are written
    Pieces,     \* bound: the numbers of bytes the socket moves at a time
    MaxFrames   \* bound: frames written

ASSUME FramingAssumption ==
    /\ Lengths \subseteq Nat /\ Lengths # {}
    /\ Pieces \subseteq Nat \ {0}
    /\ MaxFrames \in Nat

VARIABLES
    frames,  \* the payload lengths of the frames encrypted so far
    ends,    \* ends[k]: the offset in the stream at which frame k ends
    wire,    \* bytes handed to the socket
    link,    \* "up" until sendall fails or the connection is closed
    phase,   \* where read_frame is: "head", "rest" or "failed"
    pos,     \* bytes taken from the socket
    need,    \* _recv_exact's remaining
    head,    \* the decoded varint: the length and the bytes it took itself
    got      \* the payload lengths of the frames returned so far

writerVars == <<frames, ends, wire, link>>
readerVars == <<phase, pos, need, head, got>>
vars == <<writerVars, readerVars>>

Block == 16
Base  == 128
Least(a, b) == IF a <= b THEN a ELSE b

\* encode_varint: the low seven bits first, the top bit set on all but the last.
Varint[n \in Nat] == IF n < Base THEN <<n>> ELSE <<(n % Base) + Base>> \o Varint[n \div Base]

\* decode_varint: every byte counts a shift further than the one before.
Shifted(r, byte) == [value |-> r.value + (byte % Base) * r.unit, unit |-> Base * r.unit]
Decoding(buf, last) ==
    LET read[i \in 0 .. last] ==
            IF i = 0 THEN [value |-> 0, unit |-> 1] ELSE Shifted(read[i - 1], buf[i])
    IN read
DecodeVarint(buf) ==
    LET last == CHOOSE i \in DOMAIN buf : buf[i] < Base /\ \A j \in 1 .. i - 1 : buf[j] >= Base
    IN [length |-> Decoding(buf, last)[last].value, header |-> last]

\* The reader decodes no more than the first block of a frame: the varints of
\* the lengths that are written fit in it, as those of all lengths do that a
\* bytes object can have.
ASSUME LengthAssumption == \A n \in Lengths : Len(Varint[n]) <= Block

RoundUp16(n) == ((n + Block - 1) \div Block) * Block

\* The bytes of a frame, and of the stream up to the k-th one.
Size(n)   == RoundUp16(Len(Varint[n]) + n)
Offset(k) == IF k = 0 THEN 0 ELSE ends[k]
Total     == Offset(Len(ends))

Init ==
    /\ frames = <<>> /\ ends = <<>> /\ wire = 0 /\ link = "up"
    /\ phase = "head" /\ pos = 0 /\ need = Block
    /\ head = [length |-> 0, header |-> 0]
    /\ got = <<>>

----------------------------------------------------------------------------
(* The writer.                                                             *)

WriteFrame(n) ==
    /\ link = "up" /\ wire = Total
    /\ Len(frames) < MaxFrames
    /\ frames' = Append(frames, n)
    /\ ends' = Append(ends, Total + Size(n))
    /\ UNCHANGED <<wire, link, readerVars>>

\* sendall goes on.
SendSome(k) ==
    /\ link = "up" /\ wire < Total
    /\ wire' = Least(wire + k, Total)
    /\ UNCHANGED <<frames, ends, link, readerVars>>

\* sendall times out or fails, perhaps within a frame, or the connection is
\* closed.  The listener then closes the socket: nothing is written after it.
Break ==
    /\ link = "up"
    /\ link' = "broken"
    /\ UNCHANGED <<frames, ends, wire, readerVars>>

----------------------------------------------------------------------------
(* The reader.                                                             *)

Recv(k) ==
    LET n == Least(Least(k, need), wire - pos)
    IN /\ phase # "failed"
       /\ n > 0
       /\ pos' = pos + n
       /\ need' = need - n
       /\ UNCHANGED <<writerVars, phase, head, got>>

\* recv returns nothing, "socket closed mid-frame", or reports a reset before
\* all that was sent has been read.
\* Fault: what has been read so far is taken for the whole.
FaultRecvEnd ==
    /\ phase # "failed" /\ need > 0
    /\ link = "broken" /\ pos = wire
    /\ need' = 0
    /\ UNCHANGED <<writerVars, phase, pos, head, got>>
RecvEnd ==
    /\ phase # "failed" /\ need > 0
    /\ link = "broken"
    /\ phase' = "failed"
    /\ UNCHANGED <<writerVars, pos, need, head, got>>

\* What decode_varint may find in the block before pos: the varint of a frame
\* that begins there, anything if none does.
Decoded ==
    LET begins == { k \in 1 .. Len(frames) : Offset(k - 1) = pos - Block }
    IN IF begins # {} THEN { DecodeVarint(Varint[frames[k]]) : k \in begins }
                      ELSE { DecodeVarint(Varint[n]) : n \in Lengths }

\* full[hdr_len:logical_len]
\* Fault: the bytes of the varint are counted in.
FaultPayload(d) == d.header + d.length
Payload(d) == d.length

\* Fault: the whole frame is read again after its first block.
FaultRest(d) == RoundUp16(d.header + d.length)
Rest(d) == RoundUp16(d.header + d.length) - Block

DecodeHead ==
    /\ phase = "head" /\ need = 0
    /\ \E d \in Decoded :
          \/ /\ Rest(d) > 0
             /\ phase' = "rest" /\ need' = Rest(d)
             /\ UNCHANGED got
             /\ head' = d
          \/ /\ Rest(d) = 0
             /\ phase' = "head" /\ need' = Block
             /\ got' = Append(got, Payload(d))
             /\ head' = d
    /\ UNCHANGED <<writerVars, pos>>

ReturnFrame ==
    /\ phase = "rest" /\ need = 0
    /\ got' = Append(got, Payload(head))
    /\ phase' = "head" /\ need' = Block
    /\ UNCHANGED <<writerVars, pos, head>>

----------------------------------------------------------------------------

Sending == \E k \in Pieces : SendSome(k)
Reading == (\E k \in Pieces : Recv(k)) \/ RecvEnd \/ DecodeHead \/ ReturnFrame
Next == (\E n \in Lengths : WriteFrame(n)) \/ Sending \/ Break \/ Reading

\* TCP delivers what it has accepted, and the reader's thread runs.
Spec == Init /\ [][Next]_vars /\ WF_vars(Sending) /\ WF_vars(Reading)

----------------------------------------------------------------------------
(* Properties.                                                             *)

\* The type invariant.
TypeOK ==
    /\ frames \in Seq(Lengths)
    /\ ends \in Seq(Nat)
    /\ Len(ends) = Len(frames)
    /\ wire \in 0 .. Total
    /\ link \in {"up", "broken"}
    /\ phase \in {"head", "rest", "failed"}
    /\ pos \in 0 .. wire
    /\ need \in Nat
    /\ head \in [length : Nat, header : Nat]
    /\ got \in Seq(Lengths)

\* read_frame always begins where a frame begins: however the bytes were cut
\* into pieces, reader and writer never fall out of step.
InStep ==
    phase = "head" /\ need = Block => pos = Offset(Len(got))

\* The frames returned are the first of those written, in their order, each
\* returned only when all of it has been sent: the cut of a connection within a
\* frame never yields a short one.
OnlyWholeFrames ==
    /\ Len(got) <= Len(frames) /\ Offset(Len(got)) <= wire
    /\ \A k \in 1 .. Len(got) : got[k] = frames[k]

\* The stream is a channel that hands over frames whole, in order and, while
\* it is not cut, in the end.
Channel == INSTANCE FrameChannel WITH
    Frames <- Lengths, sent <- frames, open <- (link = "up")
ImplementsChannel == Channel!Spec

=============================================================================
