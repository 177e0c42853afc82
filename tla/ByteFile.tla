------------------------------ MODULE ByteFile ------------------------------
(***************************************************************************)
(* What a file is to the programs that use the mount: a sequence of bytes. *)
(* A write or a truncate past the end fills the gap with zeros             *)
(* (docs/metadata-format-v1.md, "Truncate operation"); a read returns      *)
(* every requested byte before the end of the file.                        *)
(***************************************************************************)
EXTENDS ByteSeq

CONSTANTS Bufs,      \* the buffers a program may write
          MaxSize    \* bound on the size of the file

VARIABLES data,      \* the contents
          reply      \* what the last operation returned

vars == <<data, reply>>

Init == data = <<>> /\ reply = <<>>

Write(off, buf) == data' = Overwritten(data, off, buf) /\ reply' = <<>>
Truncate(n)     == data' = Resized(data, n) /\ reply' = <<>>

Read(off, len) ==
  /\ reply' = SubSeq(data, off + 1, IF off + len <= Len(data) THEN off + len ELSE Len(data))
  /\ UNCHANGED data

Next == \E off \in 0 .. MaxSize :
          \/ \E buf \in Bufs : off + Len(buf) <= MaxSize /\ Write(off, buf)
          \/ \E len \in 1 .. MaxSize : Read(off, len)
          \/ Truncate(off)

Spec == Init /\ [][Next]_vars
=============================================================================
