----------------------------- MODULE ChunkFile -----------------------------
(***************************************************************************)
(* The data path of one file when its handlers run one after the other:    *)
(* cfs_write, cfs_truncate and cfs_read (fuse_ops.cpp) on the chunk files  *)
(* and the two sizes in the metadata.  What the handlers do when they      *)
(* overlap is FuseOps.tla's subject; here each is one step, and the        *)
(* question is whether the chunks always hold the bytes of ByteFile.tla.   *)
(***************************************************************************)
EXTENDS ChunkData

CONSTANTS Bufs,        \* the buffers a program may write
          GapWrites,   \* may a write start past the end of the file?
          Extends      \* may a truncate make the file larger?

ASSUME BufsAssumption == Bufs \subseteq Seq(Byte) \ {<<>>}
ASSUME UseAssumption == GapWrites \in BOOLEAN /\ Extends \in BOOLEAN

VARIABLES size,        \* logical_size
          n,           \* n_chunks
          comp,        \* compressed_size, kept per chunk
          chunk,       \* chunk[i]: what chunk file i decompresses to
          reply        \* the bytes the last read returned

vars == <<size, n, comp, chunk, reply>>

TypeOK == /\ size \in 0 .. MaxSize
          /\ n \in 0 .. MaxChunks
          /\ comp \in [ChunkIdx -> 0 .. ChunkSize]
          /\ chunk \in [ChunkIdx -> Chunk]
          /\ reply \in Seq(Byte)

Init == /\ size = 0 /\ n = 0
        /\ comp = [i \in ChunkIdx |-> 0]
        /\ chunk = [i \in ChunkIdx |-> <<>>]
        /\ reply = <<>>

Write(off, buf) ==
  LET fc  == FirstChunk(off)
      lc  == LastChunk(off, Len(buf))
      old(ci) == IF ci < n THEN chunk[ci] ELSE <<>>
  IN /\ off <= size \/ GapWrites
     /\ chunk' = [ci \in ChunkIdx |->
                    IF fc <= ci /\ ci <= lc THEN Merge(old(ci), ci, off, buf) ELSE chunk[ci]]
     /\ n' = Greatest(n, lc + 1)
     /\ size' = Greatest(size, off + Len(buf))
     /\ comp' = DiskSizes(chunk', n')
     /\ reply' = <<>>

\* ns = 0, and ns below the current size: chunks are deleted, none is cut.
Shrink(ns) ==
  /\ ns = 0 \/ ns < size
  /\ chunk' = RemoveFrom(chunk, ChunksFor(ns), n)
  /\ n' = ChunksFor(ns)
  /\ size' = ns
  /\ comp' = DiskSizes(chunk', n')
  /\ reply' = <<>>

\* ns at or above the current size: only the size changes.
Extend(ns) ==
  /\ ns # 0 /\ ns >= size
  /\ ns = size \/ Extends
  /\ size' = ns
  /\ reply' = <<>>
  /\ UNCHANGED <<n, comp, chunk>>

Fetch(ci) == IF chunk[ci] = <<>> THEN Zeros(ChunkSize) ELSE chunk[ci]

Read(off, len) ==
  /\ reply' = IF off >= size THEN <<>>
              ELSE LET sz == Least(len, size - off)
                       fc == FirstChunk(off)
                       nc == LastChunk(off, sz) - fc + 1
                   IN Assemble([i \in 1 .. nc |-> Fetch(fc + i - 1)], off, sz)
  /\ UNCHANGED <<size, n, comp, chunk>>

Next == \/ \E off \in 0 .. MaxSize - 1 :
             \/ \E buf \in Bufs : off + Len(buf) <= MaxSize /\ Write(off, buf)
             \/ \E len \in 1 .. MaxSize : Read(off, len)
        \/ \E ns \in 0 .. MaxSize : Shrink(ns) \/ Extend(ns)

Spec == Init /\ [][Next]_vars

-----------------------------------------------------------------------------
(* Properties *)

Contents == ContentsOf(chunk, size)

\* No chunk file lies beyond n_chunks, which is not more than the size needs,
\* and compressed_size is what the counted chunks take up: nothing is left
\* behind by a truncate, and the ratio in /.cfs_stats is the stored one.
Accounted == /\ n <= ChunksFor(size)
             /\ comp = DiskSizes(chunk, n)
             /\ \A i \in ChunkIdx : i >= n => chunk[i] = <<>>

\* cfs_write, cfs_truncate and cfs_read behave as operations on a sequence of
\* bytes: chunk boundaries, partial chunks and shrinking never show.
Bytes == INSTANCE ByteFile WITH data <- Contents

ImplementsBytes == Bytes!Spec
=============================================================================
