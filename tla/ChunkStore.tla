----------------------------- MODULE ChunkStore -----------------------------
(***************************************************************************)
(* ChunkStore (chunk_store.cpp): one compressed file per chunk of a file.  *)
(* mu_ covers each method but the reading of a chunk, which opens the file *)
(* after mu_ is released.  zstd is external and taken to invert itself.    *)
(***************************************************************************)
EXTENDS ChunkData

CONSTANTS Ids,           \* file ids
          Garbage        \* a byte that no program writes

VARIABLES chunkFile      \* chunkFile[id][i]: what <id>_<i>.dat decompresses to, or Broken

\* The file holds the beginning of what was written: it has a size, and does not decompress.
Broken == <<Garbage>>

ChunkTypeOK == chunkFile \in [Ids -> [ChunkIdx -> Chunk]]

DiskSize(id, ci)  == Len(chunkFile[id][ci])
ReadChunk(id, ci) == IF chunkFile[id][ci] = Broken THEN <<>> ELSE chunkFile[id][ci]

WriteChunk(id, ci, data) == chunkFile' = [chunkFile EXCEPT ![id][ci] = data]

RemoveChunks(id, from, n) ==
  chunkFile' = [chunkFile EXCEPT ![id] = RemoveFrom(@, from, n)]

\* A crash leaves a chunk that was being rewritten empty (ios::trunc) or broken,
\* and a removal done for the first few chunks only.
TornChunk(id, ci)        == {[chunkFile EXCEPT ![id][ci] = left] : left \in {<<>>, Broken}}
TornRemoval(id, from, n) == {[chunkFile EXCEPT ![id] = RemoveFrom(@, from, j)] : j \in from .. n}
=============================================================================
