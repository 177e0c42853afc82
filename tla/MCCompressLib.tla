---------------------------- MODULE MCCompressLib ----------------------------
(* Buffers of up to seven bytes, cut into chunks of three. *)
EXTENDS CompressLib

Buffers == UNION {[1 .. n -> {0, 1}] : n \in 0 .. 7}
===============================================================================
