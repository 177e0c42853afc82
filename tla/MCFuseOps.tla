------------------------------ MODULE MCFuseOps ------------------------------
(* Small mounts for FuseOps: chunks of two bytes, files of at most two        *)
(* chunks, two libfuse threads.  Each run picks the requests that bring about *)
(* the overlaps its properties are about.                                     *)
EXTENDS FuseOps

CONSTANTS a, b, c,       \* paths
          ha, hb, hc,    \* the ids their hashes give
          piece          \* what a crash can leave of one of them

Hash == [p \in Paths |-> CASE p = a -> ha [] p = b -> hb [] OTHER -> hc]
OneWord == [p \in Paths |-> 1]
BlanksInC == [p \in Paths |-> IF p = c THEN 3 ELSE 1]

Base(op, p) == [op |-> op, path |-> p, to |-> p, off |-> 0, len |-> 1, buf |-> <<>>,
                mode |-> DefaultMode]
Create(p)         == [Base("create", p) EXCEPT !.mode = CHOOSE m \in Modes : TRUE]
Reading(p, off, len) == [Base("read", p) EXCEPT !.off = off, !.len = len]
Writing(p, off, buf) == [Base("write", p) EXCEPT !.off = off, !.buf = buf]
Truncate(p, ns)   == [Base("truncate", p) EXCEPT !.off = ns]
Unlink(p)         == Base("unlink", p)
Rename(p, q)      == [Base("rename", p) EXCEPT !.to = q]
Utimens(p)        == Base("utimens", p)
Chmod(p, mode)    == [Base("chmod", p) EXCEPT !.mode = mode]

Ones == <<1, 1, 1>>
TwoOnes == <<1, 1>>

\* One file: overlapping writes and truncates of different ends, a touch, readers, its
\* deletion and creation.  Beside it b replaces c, or c gets a mode.
FileRequests == {Create(a), Unlink(a), Writing(a, 0, <<2, 2, 2>>), Writing(a, 3, <<2>>),
                 Truncate(a, 1), Utimens(a), Reading(a, 0, 4), Rename(b, c), Chmod(c, 384)}

\* Two names for one id: b is renamed from a, a is created again.
AliasRequests == {Create(a), Rename(a, b), Reading(a, 0, 4), Writing(a, 0, <<2, 2, 2>>)}

\* A write into the hole that the file ends in (as the kernel writes back a
\* mapped page) and a change of mode.
ChmodRequests == {Writing(a, 2, <<2, 2>>), Chmod(a, 384)}

\* a is deleted while it is open, as c; then it is created again and written to,
\* and the last handle of the old file is closed.
HiddenRequests == {Rename(a, c), Unlink(c), Create(a), Writing(a, 0, <<2>>)}
===============================================================================
