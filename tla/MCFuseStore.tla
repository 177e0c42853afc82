----------------------------- MODULE MCFuseStore -----------------------------
(* FuseStore on three names.  No two writes put the same byte anywhere, so a   *)
(* byte tells where it comes from.                                             *)
EXTENDS MCFuseOps, FuseStore

Distinct == <<1, 2, 3>>

\* Names come, go and replace one another around a; c is the hidden name of b when b
\* is deleted while it is open; writes across a chunk border, at an odd offset and to
\* the end; a truncate to a chunk border; a read of the whole file.
StoreRequests ==
  {Create(a), Unlink(a), Rename(a, b), Rename(b, a), Rename(b, c), Unlink(c),
   Writing(a, 1, <<4, 5>>), Writing(c, 0, <<6, 7, 8>>), Truncate(a, 2), Reading(a, 0, 4)}

\* libfuse's threads are alike.
ThreadSymmetry == Permutations(Threads)
===============================================================================
