---------------------------- MODULE CompressLib ----------------------------
(***************************************************************************)
(* compress_file_chunks and decompress_file_chunks (conpresslib.cpp), loop *)
(* by loop: a buffer is cut into chunks, and a range is put together from  *)
(* them again.  Both programs that call them cut from offset 0.  zstd is   *)
(* external and inverts itself, so a chunk stands for its bytes.           *)
(***************************************************************************)
EXTENDS Naturals, Sequences

CONSTANTS ChunkSize,   \* CHUNK_SIZE of compresslib.h
          Inputs       \* the buffers to compress

ASSUME ChunkSizeAssumption == ChunkSize \in Nat \ {0}
ASSUME InputsAssumption == Inputs \subseteq Seq(0 .. 255)

VARIABLES phase,       \* which loop runs: "compress", "decompress" or none, "done"
          data,        \* the buffer that was given to compress_file_chunks
          processed,   \* bytes_processed
          chunks,      \* its result, and what decompress_file_chunks is given
          offset, size,   \* the range asked of decompress_file_chunks
          next,        \* the chunk its loop is at
          result

vars == <<phase, data, processed, chunks, offset, size, next, result>>

Shorter(a, b) == IF a <= b THEN a ELSE b

Init == /\ phase = "compress"
        /\ data \in Inputs
        /\ processed = 0 /\ chunks = <<>>
        /\ offset = 0 /\ size = 0 /\ next = 1 /\ result = <<>>

Cut ==
  LET take == Shorter(ChunkSize - (processed % ChunkSize), Len(data) - processed)
  IN /\ phase = "compress" /\ processed < Len(data)
     /\ chunks' = Append(chunks, SubSeq(data, processed + 1, processed + take))
     /\ processed' = processed + take
     /\ UNCHANGED <<phase, data, offset, size, next, result>>

\* A range is asked for that starts in the first chunk: the loop takes the first
\* chunk it is given for the one that holds offset, and computes with
\* decompressed.size() - offset_in_chunk, which must not be negative.
Ask ==
  /\ phase = "compress" /\ processed = Len(data)
  /\ phase' = "decompress"
  /\ offset' \in {o \in 0 .. Len(data) : o < ChunkSize}
  /\ size' \in 0 .. Len(data)
  /\ UNCHANGED <<data, processed, chunks, next, result>>

\* Mutant of Copy: the position in the chunk is taken from offset throughout.
CopyFromOffset ==
  LET at == offset % ChunkSize
      n  == Shorter(Len(chunks[next]) - at, size - Len(result))
  IN /\ phase = "decompress" /\ next <= Len(chunks) /\ Len(result) < size
     /\ at <= Len(chunks[next])
     /\ result' = result \o SubSeq(chunks[next], at + 1, at + n)
     /\ next' = next + 1
     /\ UNCHANGED <<phase, data, processed, chunks, offset, size>>

Copy ==
  LET at == (offset + Len(result)) % ChunkSize
      n  == Shorter(Len(chunks[next]) - at, size - Len(result))
  IN /\ phase = "decompress" /\ next <= Len(chunks) /\ Len(result) < size
     /\ result' = result \o SubSeq(chunks[next], at + 1, at + n)
     /\ next' = next + 1
     /\ UNCHANGED <<phase, data, processed, chunks, offset, size>>

Answer ==
  /\ phase = "decompress" /\ (next > Len(chunks) \/ Len(result) >= size)
  /\ phase' = "done"
  /\ UNCHANGED <<data, processed, chunks, offset, size, next, result>>

Next == Cut \/ Ask \/ Copy \/ Answer

Spec == Init /\ [][Next]_vars

-----------------------------------------------------------------------------
\* decompress_file_chunks gives back the bytes that compress_file_chunks was
\* given, for every range that begins in the first chunk.
RoundTrip ==
  phase = "done" =>
    result = SubSeq(data, offset + 1, Shorter(offset + size, Len(data)))

\* While the range is put together, the byte that would be copied next is the one
\* at offset + Len(result) of the buffer, and it lies inside the chunk.
InPlace ==
  phase = "decompress" /\ next <= Len(chunks) /\ Len(result) < size =>
    /\ (offset + Len(result)) % ChunkSize <= Len(chunks[next])
    /\ next = (offset + Len(result)) \div ChunkSize + 1
=============================================================================
