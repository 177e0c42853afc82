----------------------------- MODULE MCChunkFile -----------------------------
(* ChunkFile on a file of three two-byte chunks.  Neighbouring bytes of a     *)
(* buffer differ, so a byte copied to or from a wrong place shows.            *)
EXTENDS ChunkFile

Ramps == {[i \in 1 .. len |-> (i % 3) + 1] : len \in 1 .. MaxSize}
=============================================================================
