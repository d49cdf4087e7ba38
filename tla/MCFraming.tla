------------------------------ MODULE MCFraming ------------------------------
(* Framing with constants small enough for TLC: the lengths on either side   *)
(* of a full block, of the second byte of the varint, and of the block that  *)
(* this byte begins.                                                         *)
EXTENDS Framing

\* The varints of far more lengths than the runs write.
ASSUME CodecChecked ==
    \A n \in 0 .. 300 \cup {16383, 16384, 2097151, 2097152, 268435455} :
        DecodeVarint(Varint[n]) = [length |-> n, header |-> Len(Varint[n])]
=============================================================================
