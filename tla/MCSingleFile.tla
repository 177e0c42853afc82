---------------------------- MODULE MCSingleFile ----------------------------
(* SingleFile with files of up to two bytes.  Contents of one length may       *)
(* compress to different sizes, and contents of two lengths to the same.       *)
EXTENDS SingleFile

Sizes == [c \in Content |-> IF Len(c) = 2 /\ c[1] # c[2] THEN 2 ELSE IF c = <<>> THEN 0 ELSE 1]
=============================================================================
