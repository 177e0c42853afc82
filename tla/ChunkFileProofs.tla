---------------------------- MODULE ChunkFileProofs ----------------------------
(* The data path of one file, for every chunk size, number of chunks, set of    *)
(* bytes and set of buffers: the invariants of ChunkFile, and that the chunks   *)
(* hold the bytes of ByteFile as long as no hole comes into the file.           *)
EXTENDS ChunkFile, ChunkDataProofs

-----------------------------------------------------------------------------
(* What every step keeps: the types and the accounts *)

Sane == TypeOK /\ Accounted

LEMMA BufIsBytes ==
  ASSUME NEW buf \in Bufs
  PROVE  buf \in Seq(Byte) /\ buf # <<>> /\ Len(buf) \in Nat \ {0}
BY BufsAssumption

\* The chunks that a write reaches are merged with what they held.
LEMMA WriteChunks ==
  ASSUME Sane, NEW off \in 0 .. MaxSize - 1, NEW buf \in Bufs, off + Len(buf) <= MaxSize, Write(off, buf)
  PROVE  LET fc == FirstChunk(off)  lc == LastChunk(off, Len(buf))
         IN /\ fc \in ChunkIdx /\ lc \in ChunkIdx /\ fc <= lc /\ ChunksFor(off + Len(buf)) = lc + 1
            /\ chunk' \in [ChunkIdx -> Chunk]
            /\ \A ci \in ChunkIdx :
                 chunk'[ci] = IF fc <= ci /\ ci <= lc THEN Merge(chunk[ci], ci, off, buf) ELSE chunk[ci]
<1> PICK fc : fc = FirstChunk(off)
  OBVIOUS
<1> PICK lc : lc = LastChunk(off, Len(buf))
  OBVIOUS
<1>1. off \in Nat /\ fc \in ChunkIdx /\ lc \in ChunkIdx /\ fc <= lc /\ ChunksFor(off + Len(buf)) = lc + 1
  BY BufIsBytes, MaxSizeNat, LastChunkType
<1>2. \A ci \in ChunkIdx : (IF ci < n THEN chunk[ci] ELSE <<>>) = chunk[ci]
  <2>1. n \in Nat /\ ChunkIdx \subseteq Nat
    BY MaxChunksAssumption, ChunkIdxNat DEF Sane, TypeOK
  <2>2. QED
    BY <2>1 DEF Sane, Accounted
<1>3. chunk' = [ci \in ChunkIdx |-> IF fc <= ci /\ ci <= lc
                                    THEN Merge(IF ci < n THEN chunk[ci] ELSE <<>>, ci, off, buf) ELSE chunk[ci]]
  BY DEF Write
<1>4. \A ci \in ChunkIdx :
        chunk'[ci] = IF fc <= ci /\ ci <= lc THEN Merge(chunk[ci], ci, off, buf) ELSE chunk[ci]
  BY <1>2, <1>3
<1>5. ASSUME NEW ci \in ChunkIdx PROVE chunk'[ci] \in Chunk
  <2>1. chunk[ci] \in Chunk
    BY DEF Sane, TypeOK
  <2>2. ASSUME fc <= ci, ci <= lc PROVE Merge(chunk[ci], ci, off, buf) \in Chunk
    <3>1. ci \in FirstChunk(off) .. LastChunk(off, Len(buf))
      BY <1>1, <2>2, ChunkIdxNat
    <3>2. QED
      BY <1>1, <2>1, <3>1, BufIsBytes, MergeType
  <2>3. QED
    BY <1>4, <2>1, <2>2
<1>6. QED
  BY <1>1, <1>3, <1>4, <1>5

LEMMA WriteSane ==
  ASSUME Sane, NEW off \in 0 .. MaxSize - 1, NEW buf \in Bufs, off + Len(buf) <= MaxSize, Write(off, buf)
  PROVE  Sane'
<1> PICK fc : fc = FirstChunk(off)
  OBVIOUS
<1> PICK lc : lc = LastChunk(off, Len(buf))
  OBVIOUS
<1> PICK end : end = off + Len(buf)
  OBVIOUS
<1>1. /\ fc \in ChunkIdx /\ lc \in ChunkIdx /\ fc <= lc /\ ChunksFor(end) = lc + 1
      /\ chunk' \in [ChunkIdx -> Chunk]
      /\ \A ci \in ChunkIdx :
           chunk'[ci] = IF fc <= ci /\ ci <= lc THEN Merge(chunk[ci], ci, off, buf) ELSE chunk[ci]
  BY WriteChunks
<1>2. n' = Greatest(n, lc + 1) /\ size' = Greatest(size, end) /\ comp' = DiskSizes(chunk', n') /\ reply' = <<>>
  BY DEF Write
<1>3. end \in 0 .. MaxSize /\ size \in 0 .. MaxSize /\ n \in 0 .. MaxChunks /\ lc + 1 \in 1 .. MaxChunks
  <2>1. end \in 0 .. MaxSize
    BY BufIsBytes, MaxSizeNat
  <2>2. size \in 0 .. MaxSize /\ n \in 0 .. MaxChunks
    BY DEF Sane, TypeOK
  <2>3. lc + 1 \in 1 .. MaxChunks
    BY <1>1, MaxChunksAssumption DEF ChunkIdx
  <2>4. QED
    BY <2>1, <2>2, <2>3
<1>4. /\ size' \in 0 .. MaxSize /\ size <= size' /\ end <= size'
      /\ n' \in 0 .. MaxChunks /\ n <= n' /\ lc + 1 <= n' /\ (n' = n \/ n' = lc + 1)
  BY <1>2, <1>3, MaxSizeNat, MaxChunksAssumption DEF Greatest
<1>5. n' <= ChunksFor(size')
  <2>1. ChunksFor(size) \in Nat /\ ChunksFor(size') \in Nat /\ ChunksFor(end) \in Nat
    BY <1>3, <1>4, ChunksForType, MaxChunksAssumption
  <2>2. ChunksFor(size) <= ChunksFor(size') /\ ChunksFor(end) <= ChunksFor(size')
    BY <1>3, <1>4, ChunksForMono
  <2>3. n <= ChunksFor(size)
    BY DEF Sane, Accounted
  <2>4. QED
    BY <1>1, <1>3, <1>4, <2>1, <2>2, <2>3
<1>6. comp' \in [ChunkIdx -> 0 .. ChunkSize]
  <2>1. PICK c \in [ChunkIdx -> Chunk] : c = chunk'
    BY <1>1
  <2>2. PICK k : k = n'
    OBVIOUS
  <2>3. DiskSizes(c, k) \in [ChunkIdx -> 0 .. ChunkSize]
    BY DiskSizesType
  <2>4. QED
    BY <1>2, <2>1, <2>2, <2>3
<1>7. \A i \in ChunkIdx : i >= n' => chunk'[i] = <<>>
  <2>1. ASSUME NEW i \in ChunkIdx, i >= n' PROVE chunk'[i] = <<>>
    <3>0. n' \in Nat /\ n \in Nat /\ lc \in Nat /\ i \in Nat
      BY <1>1, <1>3, <1>4, ChunkIdxNat, MaxChunksAssumption
    <3>1. ~(i <= lc) /\ i >= n
      BY <1>4, <2>1, <3>0
    <3>2. QED
      BY <1>1, <3>1 DEF Sane, Accounted
  <2>2. QED
    BY <2>1
<1>8. TypeOK'
  BY <1>1, <1>2, <1>4, <1>6 DEF TypeOK
<1>9. Accounted'
  BY <1>2, <1>5, <1>7 DEF Accounted
<1>10. QED
  BY <1>8, <1>9 DEF Sane

LEMMA ShrinkSane ==
  ASSUME Sane, NEW ns \in 0 .. MaxSize, Shrink(ns)
  PROVE  Sane'
<1> PICK k : k = ChunksFor(ns)
  OBVIOUS
<1>1. k \in 0 .. MaxChunks
  BY ChunksForType
<1>2. /\ chunk' = RemoveFrom(chunk, k, n) /\ n' = k /\ size' = ns
      /\ comp' = DiskSizes(chunk', k) /\ reply' = <<>>
  BY DEF Shrink
<1>3. chunk' \in [ChunkIdx -> Chunk]
  BY <1>2, RemoveFromType DEF Sane, TypeOK
<1>4. comp' \in [ChunkIdx -> 0 .. ChunkSize]
  <2>1. PICK c \in [ChunkIdx -> Chunk] : c = chunk'
    BY <1>3
  <2>2. QED
    BY <1>2, <2>1, DiskSizesType
<1>5. ASSUME NEW i \in ChunkIdx, i >= k PROVE chunk'[i] = <<>>
  <2>1. n \in Nat /\ i \in Nat
    BY ChunkIdxNat, MaxChunksAssumption DEF Sane, TypeOK
  <2>2. chunk'[i] = IF k <= i /\ i < n THEN <<>> ELSE chunk[i]
    BY <1>2 DEF RemoveFrom
  <2>3. i >= n => chunk[i] = <<>>
    BY DEF Sane, Accounted
  <2>4. QED
    BY <1>1, <1>5, <2>1, <2>2, <2>3
<1>6. TypeOK'
  BY <1>1, <1>2, <1>3, <1>4 DEF TypeOK
<1>7. Accounted'
  <2>1. n' <= ChunksFor(size')
    BY <1>1, <1>2, MaxChunksAssumption
  <2>2. QED
    BY <1>2, <1>5, <2>1 DEF Accounted
<1>8. QED
  BY <1>6, <1>7 DEF Sane

LEMMA ExtendSane ==
  ASSUME Sane, NEW ns \in 0 .. MaxSize, Extend(ns)
  PROVE  Sane'
<1>1. size' = ns /\ size <= ns /\ reply' = <<>> /\ UNCHANGED <<n, comp, chunk>>
  BY DEF Extend
<1>2. size \in 0 .. MaxSize /\ n \in Nat /\ n <= ChunksFor(size)
  BY MaxChunksAssumption DEF Sane, TypeOK, Accounted
<1>3. ChunksFor(size) \in Nat /\ ChunksFor(ns) \in Nat /\ ChunksFor(size) <= ChunksFor(ns)
  BY <1>1, <1>2, ChunksForType, ChunksForMono, MaxChunksAssumption
<1>4. n <= ChunksFor(ns)
  BY <1>2, <1>3
<1>5. QED
  BY <1>1, <1>4 DEF Sane, TypeOK, Accounted

\* The range of bytes that a read asks for lies in the file, and its chunks are
\* chunks of the file.
LEMMA ReadRange ==
  ASSUME size \in 0 .. MaxSize, NEW off \in 0 .. MaxSize - 1, NEW len \in 1 .. MaxSize, ~(off >= size)
  PROVE  LET sz == Least(len, size - off)
         IN /\ sz \in Nat \ {0} /\ off + sz <= size /\ off \in Nat
            /\ sz = (IF off + len <= size THEN off + len ELSE size) - off
            /\ FirstChunk(off) \in ChunkIdx /\ LastChunk(off, sz) \in ChunkIdx
            /\ LastChunk(off, sz) - FirstChunk(off) + 1 \in Nat \ {0}
<1> PICK sz : sz = Least(len, size - off)
  OBVIOUS
<1>1. off \in Nat /\ len \in Nat \ {0} /\ size \in Nat /\ off < size /\ size <= MaxSize
  BY MaxSizeNat
<1>2. /\ sz \in Nat \ {0} /\ off + sz <= size
      /\ sz = (IF off + len <= size THEN off + len ELSE size) - off
  BY <1>1 DEF Least
<1>3. /\ FirstChunk(off) \in ChunkIdx /\ LastChunk(off, sz) \in ChunkIdx
      /\ FirstChunk(off) <= LastChunk(off, sz)
  BY <1>1, <1>2, MaxSizeNat, LastChunkType
<1>4. LastChunk(off, sz) - FirstChunk(off) + 1 \in Nat \ {0}
  <2>1. ASSUME NEW a \in Nat, NEW b \in Nat, a <= b PROVE b - a + 1 \in Nat \ {0}
    BY <2>1
  <2>2. FirstChunk(off) \in Nat /\ LastChunk(off, sz) \in Nat
    BY <1>3, ChunkIdxNat
  <2>3. QED
    BY <1>3, <2>1, <2>2
<1>5. QED
  BY <1>1, <1>2, <1>3, <1>4

LEMMA FetchType ==
  ASSUME TypeOK, NEW ci \in ChunkIdx
  PROVE  Fetch(ci) \in Chunk
BY ZerosChunk DEF TypeOK, Fetch

\* The chunks that a read fetches.
Fetched(fc, nc) == [i \in 1 .. nc |-> Fetch(fc + i - 1)]

LEMMA FetchedType ==
  ASSUME TypeOK, NEW fc \in ChunkIdx, NEW lc \in ChunkIdx, NEW nc \in Nat, nc = lc - fc + 1
  PROVE  Fetched(fc, nc) \in [1 .. nc -> Chunk]
<1>1. ASSUME NEW i \in 1 .. nc PROVE fc + i - 1 \in ChunkIdx
  BY MaxChunksAssumption DEF ChunkIdx
<1>2. QED
  BY <1>1, FetchType DEF Fetched

LEMMA ReadSane ==
  ASSUME Sane, NEW off \in 0 .. MaxSize - 1, NEW len \in 1 .. MaxSize, Read(off, len)
  PROVE  Sane'
<1>1. UNCHANGED <<size, n, comp, chunk>>
  BY DEF Read
<1>2. reply' \in Seq(Byte)
  <2>1. CASE off >= size
    BY <2>1 DEF Read
  <2>2. CASE ~(off >= size)
    <3> PICK sz : sz = Least(len, size - off)
      OBVIOUS
    <3> PICK fc : fc = FirstChunk(off)
      OBVIOUS
    <3> PICK lc : lc = LastChunk(off, sz)
      OBVIOUS
    <3> PICK nc : nc = lc - fc + 1
      OBVIOUS
    <3>1. sz \in Nat /\ off \in Nat /\ fc \in ChunkIdx /\ lc \in ChunkIdx /\ nc \in Nat \ {0}
      BY <2>2, ReadRange DEF Sane, TypeOK
    <3>2. Fetched(fc, nc) \in [1 .. nc -> Chunk]
      BY <3>1, FetchedType DEF Sane
    <3>3. Assemble(Fetched(fc, nc), off, sz) \in Seq(Byte)
      BY <3>1, <3>2, AssembleType
    <3>4. reply' = Assemble(Fetched(fc, nc), off, sz)
      BY <2>2 DEF Read, Fetched
    <3>5. QED
      BY <3>3, <3>4
  <2>3. QED
    BY <2>1, <2>2
<1>3. QED
  BY <1>1, <1>2 DEF Sane, TypeOK, Accounted

\* n_chunks is never more than the size needs, compressed_size is what the counted
\* chunks take up, and cfs_truncate leaves no chunk behind: for every chunk size
\* and every sequence of writes, truncates and reads, with holes and without.
THEOREM FileInvariant == Spec => []Sane
<1>1. Init => Sane
  <2> SUFFICES ASSUME Init PROVE Sane
    OBVIOUS
  <2>1. TypeOK
    BY EmptyChunk, ChunkSizeAssumption, MaxChunksAssumption, MaxSizeNat DEF Init, TypeOK
  <2>2. comp = DiskSizes(chunk, n)
    BY ChunkIdxNat DEF Init, DiskSizes
  <2>3. n <= ChunksFor(size)
    BY ChunksForType, MaxSizeNat DEF Init
  <2>4. QED
    BY <2>1, <2>2, <2>3 DEF Sane, Accounted, Init
<1>2. Sane /\ [Next]_vars => Sane'
  <2> SUFFICES ASSUME Sane, [Next]_vars PROVE Sane'
    OBVIOUS
  <2>1. ASSUME NEW off \in 0 .. MaxSize - 1, NEW buf \in Bufs, off + Len(buf) <= MaxSize, Write(off, buf)
        PROVE  Sane'
    BY <2>1, WriteSane
  <2>2. ASSUME NEW off \in 0 .. MaxSize - 1, NEW len \in 1 .. MaxSize, Read(off, len) PROVE Sane'
    BY <2>2, ReadSane
  <2>3. ASSUME NEW ns \in 0 .. MaxSize, Shrink(ns) \/ Extend(ns) PROVE Sane'
    BY <2>3, ShrinkSane, ExtendSane
  <2>4. CASE UNCHANGED vars
    BY <2>4 DEF vars, Sane, TypeOK, Accounted
  <2>5. QED
    BY <2>1, <2>2, <2>3, <2>4 DEF Next
<1>3. QED
  BY <1>1, <1>2, PTL DEF Spec

\* The model's variables stay in their domains.
THEOREM FileTypes == Spec => []TypeOK
<1>1. Sane => TypeOK
  BY DEF Sane
<1>2. QED
  BY <1>1, FileInvariant, PTL

\* The chunk files and the two counters in the metadata agree after every
\* cfs_write, cfs_truncate and cfs_read: nothing is left behind n_chunks.
THEOREM FileAccounted == Spec => []Accounted
<1>1. Sane => Accounted
  BY DEF Sane
<1>2. QED
  BY <1>1, FileInvariant, PTL

-----------------------------------------------------------------------------
(* The bytes of the file.  Where no write starts behind the end and no truncate *)
(* makes the file larger, every byte before the end lies in its chunk.          *)

Filled == \A k \in 1 .. size : PlaceOf(k) <= Len(chunk[ChunkOf(k)])

Whole == Sane /\ Filled

\* A write puts the bytes of the buffer where they belong and touches no other.
LEMMA WriteBytes ==
  ASSUME Sane, NEW off \in 0 .. MaxSize - 1, NEW buf \in Bufs, off + Len(buf) <= MaxSize, Write(off, buf),
         NEW k \in 1 .. MaxSize
  PROVE  LET new == chunk'[ChunkOf(k)]  old == chunk[ChunkOf(k)]  at == PlaceOf(k)
         IN /\ off < k /\ k <= off + Len(buf) => at <= Len(new) /\ new[at] = buf[k - off]
            /\ ~(off < k /\ k <= off + Len(buf)) => ByteAt(new, at) = ByteAt(old, at)
            /\ at <= Len(old) => at <= Len(new)
<1> PICK ci \in ChunkIdx : ci = ChunkOf(k)
  BY ByteHasPlace
<1> PICK at \in 1 .. ChunkSize : at = PlaceOf(k)
  BY ByteHasPlace
<1> PICK fc : fc = FirstChunk(off)
  OBVIOUS
<1> PICK lc : lc = LastChunk(off, Len(buf))
  OBVIOUS
<1>1. /\ fc \in ChunkIdx /\ lc \in ChunkIdx /\ fc <= lc /\ chunk[ci] \in Chunk
      /\ chunk'[ci] = IF fc <= ci /\ ci <= lc THEN Merge(chunk[ci], ci, off, buf) ELSE chunk[ci]
  BY WriteChunks DEF Sane, TypeOK
<1>2. k = ci * ChunkSize + at /\ ci \in Nat /\ fc \in Nat /\ lc \in Nat /\ off \in Nat /\ k \in Nat
  BY <1>1, ByteHasPlace, ChunkIdxNat, MaxSizeNat
<1>3. CASE fc <= ci /\ ci <= lc
  <2>1. ci \in FirstChunk(off) .. LastChunk(off, Len(buf))
    BY <1>2, <1>3
  <2>2. PICK new : new = Merge(chunk[ci], ci, off, buf)
    OBVIOUS
  <2>3. /\ off < k /\ k <= off + Len(buf) => at <= Len(new) /\ new[at] = buf[k - off]
        /\ ~(off < k /\ k <= off + Len(buf)) => ByteAt(new, at) = ByteAt(chunk[ci], at)
        /\ at <= Len(chunk[ci]) => at <= Len(new)
    <3>1. PICK old \in Chunk : old = chunk[ci]
      BY <1>1
    <3>2. off \in Nat /\ buf \in Seq(Byte) /\ buf # <<>>
      BY <1>2, BufIsBytes
    <3>3. LET j == ci * ChunkSize + at
              m == Merge(old, ci, off, buf)
          IN /\ off < j /\ j <= off + Len(buf) => at <= Len(m) /\ m[at] = buf[j - off]
             /\ ~(off < j /\ j <= off + Len(buf)) => ByteAt(m, at) = ByteAt(old, at)
             /\ at <= Len(old) => at <= Len(m)
      BY <2>1, <3>2, MergeBytes
    <3>4. QED
      BY <1>2, <2>2, <3>1, <3>3
  <2>4. chunk'[ci] = new
    BY <1>1, <1>3, <2>2
  <2>5. QED
    BY <2>3, <2>4
<1>4. CASE ~(fc <= ci /\ ci <= lc)
  <2>1. ~(off < k /\ k <= off + Len(buf))
    <3>1. PICK j \in Nat : j = k - 1
      BY MaxSizeNat
    <3>2. ChunkOf(k) = j \div ChunkSize
      BY <3>1 DEF ChunkOf
    <3>3. PICK len \in Nat \ {0} : len = Len(buf)
      BY BufIsBytes
    <3>4. ASSUME off <= j PROVE fc <= ci
      BY <1>2, <3>2, <3>4, ChunkSizeAssumption, DivMono DEF FirstChunk
    <3>5. ASSUME j <= off + len - 1 PROVE ci <= lc
      <4>1. off + len - 1 \in Nat
        BY <1>2
      <4>2. j \div ChunkSize <= (off + len - 1) \div ChunkSize
        BY <3>5, <4>1, ChunkSizeAssumption, DivMono
      <4>3. QED
        BY <3>2, <3>3, <4>2 DEF LastChunk
    <3>6. (off < k => off <= j) /\ (k <= off + len => j <= off + len - 1)
      <4>1. ASSUME NEW x \in Nat PROVE (x < k => x <= j) /\ (k <= x => j <= x - 1)
        BY <3>1, <1>2
      <4>2. off + len \in Nat /\ off \in Nat
        BY <1>2
      <4>3. QED
        BY <4>1, <4>2
    <3>7. QED
      BY <1>4, <3>3, <3>4, <3>5, <3>6
  <2>2. chunk'[ci] = chunk[ci]
    BY <1>1, <1>4
  <2>3. QED
    BY <2>1, <2>2
<1>5. QED
  BY <1>3, <1>4

LEMMA WriteWhole ==
  ASSUME GapWrites = FALSE, Whole,
         NEW off \in 0 .. MaxSize - 1, NEW buf \in Bufs, off + Len(buf) <= MaxSize, Write(off, buf)
  PROVE  Whole' /\ Bytes!Write(off, buf)
<1> PICK end : end = off + Len(buf)
  OBVIOUS
<1>1. Sane /\ Sane' /\ TypeOK /\ TypeOK'
  BY WriteSane DEF Whole, Sane
<1>2. /\ off \in Nat /\ end \in Nat /\ size \in Nat /\ off <= size /\ end <= MaxSize /\ size <= MaxSize
      /\ size' = IF end > size THEN end ELSE size
  <2>1. off \in Nat /\ end \in Nat /\ size \in Nat /\ end <= MaxSize /\ size <= MaxSize
    BY <1>1, BufIsBytes, MaxSizeNat DEF TypeOK
  <2>2. off <= size /\ size' = Greatest(size, end) /\ reply' = <<>>
    BY DEF Write
  <2>3. QED
    BY <2>1, <2>2 DEF Greatest
<1>3. ASSUME NEW k \in 1 .. size'
      PROVE  /\ k \in 1 .. MaxSize /\ k \in Nat /\ k >= 1 /\ (k <= size \/ (off < k /\ k <= end))
  BY <1>2, MaxSizeNat
<1>4. ASSUME NEW k \in 1 .. size'
      PROVE  /\ off < k /\ k <= end => PlaceOf(k) <= Len(chunk'[ChunkOf(k)]) /\ chunk'[ChunkOf(k)][PlaceOf(k)] = buf[k - off]
             /\ ~(off < k /\ k <= end) => ByteAt(chunk'[ChunkOf(k)], PlaceOf(k)) = ByteAt(chunk[ChunkOf(k)], PlaceOf(k))
             /\ PlaceOf(k) <= Len(chunk[ChunkOf(k)]) => PlaceOf(k) <= Len(chunk'[ChunkOf(k)])
  <2>1. k \in 1 .. MaxSize
    BY <1>3
  <2>2. QED
    BY <1>1, <2>1, WriteBytes
<1>5. Filled'
  <2>1. ASSUME NEW k \in 1 .. size' PROVE PlaceOf(k) <= Len(chunk'[ChunkOf(k)])
    <3>1. CASE off < k /\ k <= end
      BY <1>4, <3>1
    <3>2. CASE ~(off < k /\ k <= end)
      <4>1. k \in 1 .. size
        BY <1>2, <1>3, <3>2
      <4>2. QED
        BY <1>4, <4>1 DEF Whole, Filled
    <3>3. QED
      BY <3>1, <3>2
  <2>2. QED
    BY <2>1 DEF Filled, PlaceOf, ChunkOf
<1>6. Contents' = Bytes!Overwritten(Contents, off, buf)
  <2>1. PICK old \in Seq(Byte) : old = Contents /\ Len(old) = size
                                 /\ \A k \in 1 .. size : old[k] = ByteAt(chunk[ChunkOf(k)], PlaceOf(k))
    BY <1>1, ContentsBytes DEF TypeOK, Contents
  <2>2. PICK c \in [ChunkIdx -> Chunk], s \in 0 .. MaxSize : c = chunk' /\ s = size'
    BY <1>1 DEF TypeOK
  <2>3. PICK new \in Seq(Byte) : new = ContentsOf(c, s) /\ Len(new) = s
                                 /\ \A k \in 1 .. s : new[k] = ByteAt(c[ChunkOf(k)], PlaceOf(k))
    BY ContentsBytes
  <2>4. Contents' = new
    BY <2>2, <2>3 DEF Contents, ContentsOf
  <2>5. ASSUME NEW k \in 1 .. s
        PROVE  new[k] = IF off < k /\ k <= end THEN buf[k - off] ELSE IF k <= size THEN old[k] ELSE 0
    <3>1. CASE off < k /\ k <= end
      BY <1>4, <2>2, <2>3, <3>1 DEF ByteAt
    <3>2. CASE ~(off < k /\ k <= end)
      <4>1. k \in 1 .. size
        BY <1>2, <1>3, <2>2, <3>2
      <4>2. QED
        BY <1>4, <2>1, <2>2, <2>3, <3>2, <4>1
    <3>3. QED
      BY <3>1, <3>2
  <2>6. Bytes!Overwritten(old, off, buf)
          = [k \in 1 .. s |-> IF off < k /\ k <= end THEN buf[k - off] ELSE IF k <= size THEN old[k] ELSE 0]
    BY <1>2, <2>1, <2>2 DEF Bytes!Overwritten
  <2>7. new = [k \in 1 .. s |-> IF off < k /\ k <= end THEN buf[k - off] ELSE IF k <= size THEN old[k] ELSE 0]
    <3>1. new = [k \in 1 .. s |-> new[k]]
      BY <2>3
    <3>2. QED
      BY <2>5, <3>1
  <2>8. QED
    BY <2>1, <2>4, <2>6, <2>7
<1>7. QED
  BY <1>1, <1>5, <1>6 DEF Whole, Write, Bytes!Write

\* The bytes before ns stay as they are when ns is not behind the end.
LEMMA ResizedWhole ==
  ASSUME Whole, Sane', NEW ns \in 0 .. MaxSize, ns <= size, size' = ns, reply' = <<>>,
         \A k \in 1 .. ns : chunk'[ChunkOf(k)] = chunk[ChunkOf(k)]
  PROVE  Whole' /\ Bytes!Truncate(ns)
<1>1. size \in Nat /\ size \in 0 .. MaxSize /\ ns \in Nat /\ \A k \in 1 .. ns : k \in 1 .. size
  BY MaxSizeNat DEF Whole, Sane, TypeOK
<1>2. Filled'
  BY <1>1 DEF Whole, Filled, PlaceOf, ChunkOf
<1>3. PICK old \in Seq(Byte) : old = Contents /\ Len(old) = size
                               /\ \A k \in 1 .. size : old[k] = ByteAt(chunk[ChunkOf(k)], PlaceOf(k))
  BY <1>1, ContentsBytes DEF Whole, Sane, TypeOK, Contents
<1>4. PICK c \in [ChunkIdx -> Chunk] : c = chunk'
  BY DEF Sane, TypeOK
<1>5. PICK new \in Seq(Byte) : new = ContentsOf(c, ns) /\ Len(new) = ns
                               /\ \A k \in 1 .. ns : new[k] = ByteAt(c[ChunkOf(k)], PlaceOf(k))
  BY ContentsBytes
<1>6. Contents' = new
  BY <1>4, <1>5 DEF Contents, ContentsOf
<1>7. ASSUME NEW k \in 1 .. ns PROVE new[k] = IF k <= size THEN old[k] ELSE 0
  BY <1>1, <1>3, <1>4, <1>5
<1>8. Bytes!Resized(old, ns) = [k \in 1 .. ns |-> IF k <= size THEN old[k] ELSE 0]
  BY <1>3 DEF Bytes!Resized
<1>9. new = [k \in 1 .. ns |-> IF k <= size THEN old[k] ELSE 0]
  <2>1. new = [k \in 1 .. ns |-> new[k]]
    BY <1>5
  <2>2. QED
    BY <1>7, <2>1
<1>10. QED
  BY <1>2, <1>3, <1>6, <1>8, <1>9 DEF Whole, Bytes!Truncate

LEMMA ShrinkWhole ==
  ASSUME Whole, NEW ns \in 0 .. MaxSize, Shrink(ns)
  PROVE  Whole' /\ Bytes!Truncate(ns)
<1>1. Sane' /\ size \in Nat
  BY ShrinkSane, MaxSizeNat DEF Whole, Sane, TypeOK
<1>2. ns <= size /\ size' = ns /\ reply' = <<>> /\ chunk' = RemoveFrom(chunk, ChunksFor(ns), n)
  BY <1>1 DEF Shrink
<1>3. ASSUME NEW k \in 1 .. ns PROVE chunk'[ChunkOf(k)] = chunk[ChunkOf(k)]
  <2>1. k \in 1 .. MaxSize /\ ChunkOf(k) < ChunksFor(ns)
    BY KeptChunk
  <2>2. ChunkOf(k) \in ChunkIdx /\ ChunkOf(k) \in Nat /\ ChunksFor(ns) \in Nat
    <3>1. ChunkOf(k) \in ChunkIdx /\ ChunkOf(k) \in Nat
      BY <2>1, ByteHasPlace, ChunkIdxNat
    <3>2. ChunksFor(ns) \in Nat
      BY ChunksForType, MaxChunksAssumption
    <3>3. QED
      BY <3>1, <3>2
  <2>3. ~(ChunksFor(ns) <= ChunkOf(k))
    BY <2>1, <2>2
  <2>4. QED
    BY <1>2, <2>2, <2>3 DEF RemoveFrom
<1>4. QED
  BY <1>1, <1>2, <1>3, ResizedWhole

LEMMA ExtendWhole ==
  ASSUME Extends = FALSE, Whole, NEW ns \in 0 .. MaxSize, Extend(ns)
  PROVE  Whole' /\ Bytes!Truncate(ns)
<1>1. Sane' /\ size \in Nat
  BY ExtendSane, MaxSizeNat DEF Whole, Sane, TypeOK
<1>2. ns = size /\ size' = ns /\ reply' = <<>> /\ chunk' = chunk
  BY DEF Extend
<1>3. ns <= size /\ \A k \in 1 .. ns : chunk'[ChunkOf(k)] = chunk[ChunkOf(k)]
  BY <1>1, <1>2
<1>4. QED
  BY <1>1, <1>2, <1>3, ResizedWhole

\* The bytes of a range that lies in the file, chunk by chunk: what cfs_read
\* returns for it.
LEMMA RangeBytes ==
  ASSUME Whole, NEW off \in Nat, NEW sz \in Nat \ {0}, off + sz <= size,
         NEW fc, fc = FirstChunk(off), NEW lc, lc = LastChunk(off, sz), NEW nc, nc = lc - fc + 1
  PROVE  Assemble(Fetched(fc, nc), off, sz) = SubSeq(Contents, off + 1, off + sz)
<1>1. size \in Nat /\ size \in 0 .. MaxSize /\ size <= MaxSize /\ chunk \in [ChunkIdx -> Chunk] /\ TypeOK
  BY MaxSizeNat DEF Whole, Sane, TypeOK
<1>2. fc \in ChunkIdx /\ lc \in ChunkIdx /\ fc \in Nat /\ lc \in Nat /\ fc <= lc /\ off + sz <= MaxSize
  <2>1. off + sz <= MaxSize
    BY <1>1, MaxSizeNat
  <2>2. QED
    BY <2>1, RangeChunks
<1>3. nc \in Nat \ {0}
  BY <1>2
<1> PICK cdata : cdata = Fetched(fc, nc)
  OBVIOUS
<1>4. cdata \in [1 .. nc -> Chunk] /\ \A i \in 1 .. nc : cdata[i] = Fetch(fc + i - 1)
  BY <1>1, <1>2, <1>3, FetchedType DEF Fetched
\* Every fetched chunk holds the bytes of the file that belong into it.
<1>5. ASSUME NEW i \in 1 .. nc PROVE ChunkShows(cdata[i], fc + i - 1, Contents, size)
  <2> SUFFICES ASSUME NEW k \in 1 .. size, ChunkOf(k) = fc + i - 1
               PROVE  PlaceOf(k) <= Len(cdata[i]) /\ cdata[i][PlaceOf(k)] = Contents[k]
    BY DEF ChunkShows
  <2>1. k \in 1 .. MaxSize
    BY <1>1, MaxSizeNat
  <2>2. PICK c \in Chunk : c = chunk[ChunkOf(k)]
    BY <1>1, <2>1, ByteHasPlace
  <2>3. PlaceOf(k) \in 1 .. Len(c)
    <3>1. PlaceOf(k) \in Nat /\ PlaceOf(k) >= 1
      BY <2>1, ByteHasPlace, ChunkSizeAssumption
    <3>2. PlaceOf(k) <= Len(c) /\ Len(c) \in Nat
      BY <2>2 DEF Whole, Filled, Chunk
    <3>3. QED
      BY <3>1, <3>2
  <2>4. cdata[i] = c
    <3>1. c # <<>>
      BY <2>3
    <3>2. QED
      BY <1>4, <2>2, <3>1 DEF Fetch
  <2>5. Contents[k] = ByteAt(c, PlaceOf(k))
    BY <1>1, <2>2, ContentsBytes DEF Contents
  <2>6. QED
    BY <2>3, <2>4, <2>5 DEF ByteAt
<1>6. PICK ans : ans = Assemble(cdata, off, sz)
  OBVIOUS
<1>7. ans \in Seq(Byte) /\ Len(ans) = sz /\ \A j \in 1 .. sz : ans[j] = Contents[off + j]
  <2>1. PICK c : c = Contents
    OBVIOUS
  <2>2. Fetches(cdata, fc, nc, {c}, size)
    BY <1>4, <1>5, <2>1 DEF Fetches
  <2>3. /\ Assemble(cdata, off, sz) \in Seq(Byte) /\ Len(Assemble(cdata, off, sz)) = sz
        /\ \A j \in 1 .. sz : \E v \in {c} : Assemble(cdata, off, sz)[j] = v[off + j]
    BY <1>1, <1>4, <2>2, RangeAnswer
  <2>4. QED
    BY <1>6, <2>1, <2>3
<1>8. /\ SubSeq(Contents, off + 1, off + sz) \in Seq(Byte) /\ Len(SubSeq(Contents, off + 1, off + sz)) = sz
       /\ \A j \in 1 .. sz : SubSeq(Contents, off + 1, off + sz)[j] = Contents[off + j]
  <2>1. PICK s \in Seq(Byte) : s = Contents /\ Len(s) = size
    BY <1>1, ContentsBytes DEF Contents
  <2>2. PICK from \in Nat, to \in Nat : from = off + 1 /\ to = off + sz /\ to <= Len(s) /\ to - from + 1 = sz
    BY <2>1
  <2>3. SubSeq(s, from, to) \in Seq(Byte) /\ Len(SubSeq(s, from, to)) = sz
    BY <2>2
  <2>4. ASSUME NEW j \in 1 .. sz PROVE SubSeq(s, from, to)[j] = s[from + j - 1] /\ from + j - 1 = off + j
    BY <2>2
  <2>5. QED
    BY <2>1, <2>2, <2>3, <2>4
<1>9. PICK part \in Seq(Byte) : part = SubSeq(Contents, off + 1, off + sz)
  BY <1>8
<1>10. ans \in Seq(Byte) /\ Len(ans) = sz /\ Len(part) = sz
  BY <1>8, <1>9, <1>7
<1>11. \A j \in 1 .. sz : ans[j] = part[j]
  BY <1>7, <1>8, <1>9, Zenon
<1>12. ans = part
  BY <1>10, <1>11, SameSeq
<1>13. QED
  BY <1>6, <1>9, <1>12

LEMMA ReadWhole ==
  ASSUME Whole, NEW off \in 0 .. MaxSize - 1, NEW len \in 1 .. MaxSize, Read(off, len)
  PROVE  Whole' /\ Bytes!Read(off, len)
<1>1. UNCHANGED <<size, n, comp, chunk>>
  BY DEF Read
<1>2. Whole'
  BY <1>1, ReadSane DEF Whole, Filled, PlaceOf, ChunkOf
<1>3. size \in Nat /\ size \in 0 .. MaxSize /\ off \in Nat /\ len \in Nat
  BY MaxSizeNat DEF Whole, Sane, TypeOK
<1>4. PICK bytes \in Seq(Byte) : bytes = Contents /\ Len(bytes) = size
  BY <1>3, ContentsBytes DEF Whole, Sane, TypeOK, Contents
<1>5. reply' = SubSeq(bytes, off + 1, IF off + len <= size THEN off + len ELSE size)
  <2>1. CASE off >= size
    <3>1. PICK e \in Nat : e = (IF off + len <= size THEN off + len ELSE size) /\ e < off + 1
      BY <1>3, <2>1
    <3>2. SubSeq(bytes, off + 1, e) = <<>>
      BY <1>3, <3>1
    <3>3. reply' = <<>>
      BY <2>1 DEF Read
    <3>4. QED
      BY <3>1, <3>2, <3>3
  <2>2. CASE ~(off >= size)
    <3> PICK sz : sz = Least(len, size - off)
      OBVIOUS
    <3> PICK fc : fc = FirstChunk(off)
      OBVIOUS
    <3> PICK lc : lc = LastChunk(off, sz)
      OBVIOUS
    <3> PICK nc : nc = lc - fc + 1
      OBVIOUS
    <3>1. sz \in Nat \ {0} /\ off + sz <= size
          /\ sz = (IF off + len <= size THEN off + len ELSE size) - off
      BY <1>3, <2>2, ReadRange
    <3>2. Assemble(Fetched(fc, nc), off, sz) = SubSeq(bytes, off + 1, off + sz)
      BY <1>3, <1>4, <3>1, RangeBytes
    <3>3. reply' = Assemble(Fetched(fc, nc), off, sz)
      BY <2>2 DEF Read, Fetched
    <3>4. off + sz = IF off + len <= size THEN off + len ELSE size
      BY <1>3, <3>1
    <3>5. QED
      BY <3>2, <3>3, <3>4
  <2>3. QED
    BY <2>1, <2>2
<1>6. UNCHANGED Contents
  BY <1>1 DEF Contents, ContentsOf
<1>7. QED
  BY <1>2, <1>4, <1>5, <1>6 DEF Bytes!Read

\* cfs_write, cfs_truncate and cfs_read are the operations of ByteFile on the bytes
\* that the chunks hold, for every chunk size and every buffer, as long as no write
\* starts behind the end of the file and no truncate makes it larger (what the code
\* does otherwise is the run ChunkFileHoles).
THEOREM ChunksHoldBytes ==
  ASSUME GapWrites = FALSE, Extends = FALSE
  PROVE  Spec => ImplementsBytes
<1>1. Init => Whole /\ Bytes!Init
  <2> SUFFICES ASSUME Init PROVE Whole /\ Bytes!Init
    OBVIOUS
  <2>1. TypeOK
    BY EmptyChunk, ChunkSizeAssumption, MaxChunksAssumption, MaxSizeNat DEF Init, TypeOK
  <2>2. comp = DiskSizes(chunk, n) /\ n <= ChunksFor(size)
    BY ChunkIdxNat, ChunksForType, MaxSizeNat DEF Init, DiskSizes
  <2>3. Sane
    BY <2>1, <2>2 DEF Sane, Accounted, Init
  <2>4. size = 0 /\ reply = <<>>
    BY DEF Init
  <2>5. Filled
    BY <2>4 DEF Filled
  <2>6. Contents = <<>>
    <3>1. Contents \in Seq(Byte) /\ Len(Contents) = size
      BY <2>1, ContentsBytes DEF TypeOK, Contents
    <3>2. QED
      BY <2>4, <3>1
  <2>7. QED
    BY <2>3, <2>4, <2>5, <2>6 DEF Whole, Bytes!Init
<1>2. Whole /\ [Next]_vars => Whole' /\ [Bytes!Next]_(Bytes!vars)
  <2> SUFFICES ASSUME Whole, [Next]_vars PROVE Whole' /\ [Bytes!Next]_(Bytes!vars)
    OBVIOUS
  <2>1. ASSUME NEW off \in 0 .. MaxSize - 1, NEW buf \in Bufs, off + Len(buf) <= MaxSize, Write(off, buf)
        PROVE  Whole' /\ Bytes!Next
    <3>1. Whole' /\ Bytes!Write(off, buf)
      BY <2>1, WriteWhole
    <3>2. off \in 0 .. MaxSize
      BY MaxSizeNat
    <3>3. QED
      BY <2>1, <3>1, <3>2 DEF Bytes!Next
  <2>2. ASSUME NEW off \in 0 .. MaxSize - 1, NEW len \in 1 .. MaxSize, Read(off, len)
        PROVE  Whole' /\ Bytes!Next
    <3>1. Whole' /\ Bytes!Read(off, len)
      BY <2>2, ReadWhole
    <3>2. off \in 0 .. MaxSize
      BY MaxSizeNat
    <3>3. QED
      BY <3>1, <3>2 DEF Bytes!Next
  <2>3. ASSUME NEW ns \in 0 .. MaxSize, Shrink(ns) \/ Extend(ns)
        PROVE  Whole' /\ Bytes!Next
    <3>1. Whole' /\ Bytes!Truncate(ns)
      BY <2>3, ShrinkWhole, ExtendWhole
    <3>2. QED
      BY <3>1 DEF Bytes!Next
  <2>4. ASSUME UNCHANGED vars
        PROVE  Whole' /\ UNCHANGED Bytes!vars
    BY <2>4 DEF vars, Whole, Sane, TypeOK, Accounted, Filled, PlaceOf, ChunkOf, Bytes!vars, Contents, ContentsOf
  <2>5. QED
    BY <2>1, <2>2, <2>3, <2>4 DEF Next
<1>3. QED
  BY <1>1, <1>2, PTL DEF Spec, ImplementsBytes, Bytes!Spec
=============================================================================
