------------------------------ MODULE ByteSeq ------------------------------
(* What writing and resizing do to the bytes of a file.                       *)
EXTENDS Naturals, Sequences

Overwritten(s, off, buf) ==
  LET end == off + Len(buf)
  IN [i \in 1 .. (IF end > Len(s) THEN end ELSE Len(s)) |->
        IF off < i /\ i <= end THEN buf[i - off] ELSE IF i <= Len(s) THEN s[i] ELSE 0]

Resized(s, n) == [i \in 1 .. n |-> IF i <= Len(s) THEN s[i] ELSE 0]
=============================================================================
