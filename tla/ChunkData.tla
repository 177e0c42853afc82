------------------------------ MODULE ChunkData ------------------------------
(***************************************************************************)
(* How the handlers of fuse_ops.cpp cut a file into chunks: the index      *)
(* arithmetic, the bytes that cfs_write leaves in one chunk, and the       *)
(* answer that cfs_read puts together from the chunks it fetched.          *)
(*                                                                         *)
(* A chunk file is the sequence of bytes it decompresses to.  An absent    *)
(* chunk file and an empty one are the same to every caller                *)
(* (chunk_disk_size is 0, read_chunk returns 0): both are <<>>.            *)
(***************************************************************************)
EXTENDS Naturals, Sequences, SequencesExt

CONSTANTS ChunkSize,   \* ChunkStore::CHUNK_SIZE
          MaxChunks,   \* bound: chunks a file may have
          Byte         \* the values a byte takes here; 0 fills what was never written

ASSUME ChunkSizeAssumption == ChunkSize \in Nat \ {0}
ASSUME MaxChunksAssumption == MaxChunks \in Nat \ {0}
ASSUME ByteAssumption == Byte \subseteq Nat /\ 0 \in Byte

ChunkIdx == 0 .. MaxChunks - 1
MaxSize  == ChunkSize * MaxChunks

\* The contents of a chunk file.
Chunk == {s \in Seq(Byte) : Len(s) <= ChunkSize}

Least(a, b)    == IF a <= b THEN a ELSE b
Greatest(a, b) == IF a <= b THEN b ELSE a

Zeros(n) == [i \in 1 .. n |-> 0]

FirstChunk(off)     == off \div ChunkSize
LastChunk(off, len) == (off + len - 1) \div ChunkSize
ChunksFor(size)     == (size + ChunkSize - 1) \div ChunkSize

\* Mutant of Merge: the end of the buffer is not cut at the end of the chunk.
MergeUnclamped(existing, ci, off, buf) ==
  LET ws == IF ci = FirstChunk(off) THEN off - ci * ChunkSize ELSE 0
      we == off + Len(buf) - ci * ChunkSize
  IN [i \in 1 .. Greatest(Len(existing), we) |->
        IF ws < i THEN buf[Least(Len(buf), i - ws)] ELSE IF i <= Len(existing) THEN existing[i] ELSE 0]

\* Mutant of Merge: later chunks take the buffer from a multiple of CHUNK_SIZE, as if the write
\* had started at the beginning of its first chunk.
MergeAligned(existing, ci, off, buf) ==
  LET fc == FirstChunk(off)
      ws == IF ci = fc THEN off - ci * ChunkSize ELSE 0
      bo == (ci - fc) * ChunkSize
      we == Least(ChunkSize, off + Len(buf) - ci * ChunkSize)
  IN [i \in 1 .. Greatest(Len(existing), we) |->
        IF ws < i /\ i <= we /\ bo + i - ws <= Len(buf) THEN buf[bo + i - ws]
        ELSE IF i <= Len(existing) THEN existing[i] ELSE 0]

\* The contents cfs_write gives chunk ci when buf is written at off: existing,
\* what read_chunk returned, kept outside the bytes that buf covers.
Merge(existing, ci, off, buf) ==
  LET fc == FirstChunk(off)
      el == Least(Len(existing), ChunkSize)
      ws == IF ci = fc THEN off - ci * ChunkSize ELSE 0
      bo == IF ci = fc THEN 0 ELSE (ci - fc) * ChunkSize - (off % ChunkSize)
      we == Least(ChunkSize, off + Len(buf) - ci * ChunkSize)
      tc == Least(we - ws, Len(buf) - bo)
  IN [i \in 1 .. Greatest(el, we) |->
        IF ws < i /\ i <= ws + tc THEN buf[bo + i - ws]
        ELSE IF i <= el THEN existing[i] ELSE 0]

\* The bytes cfs_read returns for size bytes at off, from the chunks it fetched
\* (cdata[1] holds off): they are copied one behind the other, each chunk for
\* as many bytes as it happens to have.
Assemble(cdata, off, size) ==
  LET skip == off % ChunkSize
      tail == FlattenSeq([cdata EXCEPT ![1] = SubSeq(@, skip + 1, Len(@))])
  IN IF skip >= Len(cdata[1]) THEN <<>> ELSE SubSeq(tail, 1, Least(size, Len(tail)))

\* The bytes a file of this size stands for: what its chunks hold, zeros elsewhere.
ContentsOf(chunk, size) ==
  [k \in 1 .. size |-> LET data == chunk[(k - 1) \div ChunkSize]
                           at   == ((k - 1) % ChunkSize) + 1
                       IN IF at <= Len(data) THEN data[at] ELSE 0]

\* compressed_size adds up the stored sizes of the first n chunks; the model
\* keeps the summands, one per chunk, so that no two files are confused.
DiskSizes(chunk, n) == [i \in ChunkIdx |-> IF i < n THEN Len(chunk[i]) ELSE 0]

\* Mutant of RemoveFrom: the first chunk to delete is forgotten.
RemoveAfter(chunk, from, n) ==
  [i \in ChunkIdx |-> IF from < i /\ i < n THEN <<>> ELSE chunk[i]]

\* remove_chunks and the loop of cfs_truncate: the chunks from..n-1 are deleted.
RemoveFrom(chunk, from, n) ==
  [i \in ChunkIdx |-> IF from <= i /\ i < n THEN <<>> ELSE chunk[i]]
=============================================================================
