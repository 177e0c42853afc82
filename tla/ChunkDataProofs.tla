--------------------------- MODULE ChunkDataProofs ---------------------------
(* Lemmas about the operators of ChunkData, for every chunk size, number of    *)
(* chunks and set of bytes.                                                    *)
EXTENDS ChunkData, WellFoundedInduction, TLAPS

-----------------------------------------------------------------------------
(* Arithmetic *)

LEMMA DivMod ==
  ASSUME NEW a \in Nat, NEW n \in Nat \ {0}
  PROVE  /\ a \div n \in Nat /\ a % n \in 0 .. n - 1
         /\ a = n * (a \div n) + (a % n)
OBVIOUS

LEMMA DivMono ==
  ASSUME NEW a \in Nat, NEW b \in Nat, NEW n \in Nat \ {0}, a <= b
  PROVE  a \div n <= b \div n
OBVIOUS

LEMMA DivBelow ==
  ASSUME NEW a \in Nat, NEW n \in Nat \ {0}, NEW q \in Nat, a < q * n
  PROVE  a \div n < q
OBVIOUS

LEMMA DivNotBelow ==
  ASSUME NEW a \in Nat, NEW n \in Nat \ {0}, NEW q \in Nat, q * n <= a
  PROVE  q <= a \div n
OBVIOUS

LEMMA MulMono ==
  ASSUME NEW i \in Nat, NEW j \in Nat, NEW n \in Nat, i <= j
  PROVE  i * n <= j * n
OBVIOUS

LEMMA DivModUnique ==
  ASSUME NEW n \in Nat \ {0}, NEW q \in Nat, NEW r \in 0 .. n - 1, NEW a \in Nat, a = q * n + r
  PROVE  a \div n = q /\ a % n = r
OBVIOUS

LEMMA MaxSizeNat == MaxSize \in Nat /\ MaxSize >= 1 /\ MaxSize = MaxChunks * ChunkSize
<1>1. MaxSize \in Nat /\ MaxSize = MaxChunks * ChunkSize
  BY ChunkSizeAssumption, MaxChunksAssumption DEF MaxSize
<1>2. 1 * ChunkSize <= MaxChunks * ChunkSize
  BY ChunkSizeAssumption, MaxChunksAssumption, MulMono
<1>3. QED
  BY <1>1, <1>2, ChunkSizeAssumption

LEMMA ChunkIdxNat == ChunkIdx \subseteq Nat /\ 0 \in ChunkIdx
BY MaxChunksAssumption DEF ChunkIdx

\* The chunk of an offset inside the largest file.
LEMMA FirstChunkType ==
  ASSUME NEW off \in Nat, off < MaxSize
  PROVE  FirstChunk(off) \in ChunkIdx
<1>1. off \div ChunkSize \in Nat /\ off \div ChunkSize < MaxChunks
  BY MaxSizeNat, ChunkSizeAssumption, MaxChunksAssumption, DivBelow, DivMod
<1>2. QED
  BY <1>1, MaxChunksAssumption DEF FirstChunk, ChunkIdx

\* The chunks of a range of bytes: its first and its last one are chunks of the
\* file, in this order, and the chunks up to its end are those up to the last.
LEMMA LastChunkType ==
  ASSUME NEW off \in Nat, NEW len \in Nat \ {0}, off + len <= MaxSize
  PROVE  /\ FirstChunk(off) \in ChunkIdx /\ LastChunk(off, len) \in ChunkIdx
         /\ FirstChunk(off) <= LastChunk(off, len)
         /\ ChunksFor(off + len) = LastChunk(off, len) + 1
<1>1. FirstChunk(off) \in ChunkIdx /\ FirstChunk(off + len - 1) \in ChunkIdx
  BY FirstChunkType, MaxSizeNat
<1>2. off \div ChunkSize <= (off + len - 1) \div ChunkSize
  BY ChunkSizeAssumption, DivMono
<1>3. (off + len + ChunkSize - 1) \div ChunkSize = (off + len - 1) \div ChunkSize + 1
  <2> DEFINE e == off + len - 1
  <2>1. e \in Nat /\ off + len + ChunkSize - 1 = e + ChunkSize
    BY ChunkSizeAssumption
  <2> HIDE DEF e
  <2>2. (e + ChunkSize) \div ChunkSize = e \div ChunkSize + 1
    BY <2>1, ChunkSizeAssumption
  <2>3. QED
    BY <2>1, <2>2 DEF e
<1>4. QED
  BY <1>1, <1>2, <1>3 DEF FirstChunk, LastChunk, ChunksFor

LEMMA ChunksForType ==
  ASSUME NEW size \in 0 .. MaxSize
  PROVE  ChunksFor(size) \in 0 .. MaxChunks /\ ChunksFor(0) = 0
<1>1. size + ChunkSize - 1 \in Nat /\ size + ChunkSize - 1 < (MaxChunks + 1) * ChunkSize
  BY MaxSizeNat, ChunkSizeAssumption, MaxChunksAssumption
<1>2. (size + ChunkSize - 1) \div ChunkSize < MaxChunks + 1
  BY <1>1, ChunkSizeAssumption, MaxChunksAssumption, DivBelow
<1>3. (size + ChunkSize - 1) \div ChunkSize \in Nat
  BY <1>1, ChunkSizeAssumption, DivMod
<1>4. (0 + ChunkSize - 1) \div ChunkSize = 0
  BY ChunkSizeAssumption
<1>5. QED
  BY <1>2, <1>3, <1>4, MaxChunksAssumption DEF ChunksFor

LEMMA ChunksForMono ==
  ASSUME NEW a \in 0 .. MaxSize, NEW b \in 0 .. MaxSize, a <= b
  PROVE  ChunksFor(a) <= ChunksFor(b)
<1>1. a \in Nat /\ b \in Nat
  BY MaxSizeNat
<1>2. a + ChunkSize - 1 \in Nat /\ b + ChunkSize - 1 \in Nat
      /\ a + ChunkSize - 1 <= b + ChunkSize - 1
  BY <1>1, ChunkSizeAssumption
<1>3. QED
  BY <1>2, ChunkSizeAssumption, DivMono DEF ChunksFor

-----------------------------------------------------------------------------
(* The contents of a chunk *)

LEMMA EmptyChunk == <<>> \in Chunk
BY ChunkSizeAssumption DEF Chunk

LEMMA ZerosChunk == Zeros(ChunkSize) \in Chunk
BY ChunkSizeAssumption, ByteAssumption DEF Zeros, Chunk

\* What cfs_write stores in a chunk that it reaches is a chunk, and the bytes it
\* copies lie inside the buffer.
LEMMA MergeType ==
  ASSUME NEW existing \in Chunk, NEW off \in Nat, NEW buf \in Seq(Byte), buf # <<>>,
         NEW ci \in FirstChunk(off) .. LastChunk(off, Len(buf))
  PROVE  Merge(existing, ci, off, buf) \in Chunk
<1> DEFINE fc == FirstChunk(off)
           el == Least(Len(existing), ChunkSize)
           ws == IF ci = fc THEN off - ci * ChunkSize ELSE 0
           bo == IF ci = fc THEN 0 ELSE (ci - fc) * ChunkSize - (off % ChunkSize)
           we == Least(ChunkSize, off + Len(buf) - ci * ChunkSize)
           tc == Least(we - ws, Len(buf) - bo)
           byte(i) == IF ws < i /\ i <= ws + tc THEN buf[bo + i - ws]
                      ELSE IF i <= el THEN existing[i] ELSE 0
<1>1. Len(buf) \in Nat \ {0} /\ ChunkSize \in Nat \ {0} /\ fc \in Nat
      /\ off % ChunkSize \in 0 .. ChunkSize - 1 /\ off = ChunkSize * fc + (off % ChunkSize)
  <2>1. Len(buf) \in Nat \ {0} /\ ChunkSize \in Nat \ {0}
    BY ChunkSizeAssumption
  <2> HIDE DEF el, ws, bo, we, tc, byte
  <2>2. QED
    BY <2>1, DivMod DEF FirstChunk
<1>2. ci \in Nat /\ fc <= ci
  <2>1. LastChunk(off, Len(buf)) \in Nat
    BY <1>1, DivMod DEF LastChunk
  <2>2. QED
    BY <1>1, <2>1
<1>3. el \in 0 .. Len(existing) /\ el <= ChunkSize /\ existing \in Seq(Byte)
  BY ChunkSizeAssumption DEF Least, Chunk
<1>4. ws \in Nat
  BY <1>1, <1>2
<1>5. bo \in Nat
  <2>1. CASE ci = fc
    BY <2>1
  <2>2. CASE ci # fc
    <3>1. ci - fc \in Nat /\ 1 <= ci - fc
      BY <1>1, <1>2, <2>2
    <3>2. 1 * ChunkSize <= (ci - fc) * ChunkSize
      BY <1>1, <3>1, MulMono
    <3>3. QED
      BY <1>1, <2>2, <3>1, <3>2
  <2>3. QED
    BY <2>1, <2>2
<1>6. we \in Int /\ we <= ChunkSize
  BY <1>1, <1>2 DEF Least
<1>7. tc \in Int /\ tc <= Len(buf) - bo
  <2> HIDE DEF fc, el, ws, bo, we, byte
  <2>1. QED
    BY <1>1, <1>4, <1>5, <1>6 DEF Least
<1>8. Greatest(el, we) \in 0 .. ChunkSize
  BY <1>1, <1>3, <1>6 DEF Greatest
<1> HIDE DEF fc, el, ws, bo, we, tc
<1>9. ASSUME NEW i \in 1 .. Greatest(el, we) PROVE byte(i) \in Byte
  <2>1. i \in Nat /\ 1 <= i
    BY <1>8
  <2>2. CASE ws < i /\ i <= ws + tc
    <3>1. bo + i - ws \in 1 .. Len(buf)
      BY <1>1, <1>4, <1>5, <1>7, <2>1, <2>2
    <3>2. buf[bo + i - ws] \in Byte
      BY <3>1
    <3>3. QED
      BY <2>2, <3>2
  <2>3. CASE ~(ws < i /\ i <= ws + tc) /\ i <= el
    BY <1>3, <2>1, <2>3
  <2>4. CASE ~(ws < i /\ i <= ws + tc) /\ ~(i <= el)
    BY <2>4, ByteAssumption
  <2>5. QED
    BY <2>2, <2>3, <2>4
<1>10. Merge(existing, ci, off, buf) = [i \in 1 .. Greatest(el, we) |-> byte(i)]
  BY DEF Merge, fc, el, ws, bo, we, tc
<1> HIDE DEF byte
<1>11. [i \in 1 .. Greatest(el, we) |-> byte(i)] \in Seq(Byte)
       /\ Len([i \in 1 .. Greatest(el, we) |-> byte(i)]) = Greatest(el, we)
  BY <1>8, <1>9
<1>12. QED
  BY <1>8, <1>10, <1>11 DEF Chunk

\* The sizes of the first n chunks.
LEMMA DiskSizesType ==
  ASSUME NEW chunk \in [ChunkIdx -> Chunk], NEW n
  PROVE  DiskSizes(chunk, n) \in [ChunkIdx -> 0 .. ChunkSize]
<1>1. \A i \in ChunkIdx : Len(chunk[i]) \in 0 .. ChunkSize
  BY ChunkSizeAssumption DEF Chunk
<1>2. QED
  BY <1>1, ChunkSizeAssumption DEF DiskSizes

LEMMA RemoveFromType ==
  ASSUME NEW chunk \in [ChunkIdx -> Chunk], NEW from, NEW n
  PROVE  RemoveFrom(chunk, from, n) \in [ChunkIdx -> Chunk]
BY EmptyChunk DEF RemoveFrom

-----------------------------------------------------------------------------
(* The answer of cfs_read.  FlattenSeq is a recursive function; that it exists *)
(* and what it yields follow by looking at a least counterexample.             *)

\* The least element of a nonempty set of naturals.
LEMMA LeastNat ==
  ASSUME NEW T, T \subseteq Nat, T # {}
  PROVE  \E m \in T : \A k \in T : m <= k
<1>1. PICK R : IsWellFoundedOn(R, Nat) /\ \A p \in Nat \X Nat : p[1] < p[2] => p \in R
  <2>1. \A p \in Nat \X Nat : p[1] < p[2] => p \in OpToRel(<, Nat)
    BY Zenon DEF OpToRel
  <2>2. QED
    BY <2>1, NatLessThanWellFounded, Zenon
<1>2. PICK m \in T : \A k \in T : ~(<<k, m>> \in R)
  BY <1>1, WFMin
<1>3. ASSUME NEW k \in T, k < m PROVE FALSE
  <2>1. <<k, m>> \in Nat \X Nat /\ <<k, m>>[1] = k /\ <<k, m>>[2] = m
    OBVIOUS
  <2>2. QED
    BY <1>1, <1>2, <1>3, <2>1
<1>4. QED
  BY <1>2, <1>3

Joined(x, y) == x \o y
Flattening(s, m, f) == f = [i \in 1 .. m |-> IF i = 1 THEN s[i] ELSE Joined(f[i - 1], s[i])]

LEMMA FlatteningGrows ==
  ASSUME NEW S, NEW s \in Seq(Seq(S)), NEW m \in 2 .. Len(s),
         NEW g \in [1 .. m - 1 -> Seq(S)], Flattening(s, m - 1, g)
  PROVE  \E f \in [1 .. m -> Seq(S)] : Flattening(s, m, f)
<1> DEFINE h == [i \in 1 .. m |-> IF i < m THEN g[i] ELSE Joined(g[m - 1], s[m])]
<1>0. m \in Nat /\ m > 1 /\ m - 1 \in 1 .. m - 1 /\ m - 1 # m
  OBVIOUS
<1>1. h \in [1 .. m -> Seq(S)]
  <2>1. Joined(g[m - 1], s[m]) \in Seq(S)
    BY <1>0 DEF Joined
  <2>2. QED
    BY <2>1
<1>2. /\ \A i \in 1 .. m - 1 : h[i] = g[i]
      /\ h[m] = Joined(g[m - 1], s[m])
  BY <1>0
<1>3. \A i \in 1 .. m - 1 : g[i] = IF i = 1 THEN s[i] ELSE Joined(g[i - 1], s[i])
  BY DEF Flattening
<1> HIDE DEF h
<1>4. ASSUME NEW i \in 1 .. m PROVE h[i] = IF i = 1 THEN s[i] ELSE Joined(h[i - 1], s[i])
  <2>1. CASE i = 1
    BY <1>0, <1>2, <1>3, <2>1
  <2>2. CASE i # 1 /\ i < m
    <3>1. i \in 1 .. m - 1 /\ i - 1 \in 1 .. m - 1
      BY <1>0, <2>2
    <3>2. h[i] = g[i] /\ h[i - 1] = g[i - 1]
      BY <1>2, <3>1
    <3>3. g[i] = Joined(g[i - 1], s[i])
      BY <1>3, <2>2, <3>1
    <3>4. QED
      BY <2>2, <3>2, <3>3
  <2>3. CASE i = m
    BY <1>0, <1>2, <2>3
  <2>4. QED
    BY <2>1, <2>2, <2>3
<1>5. Flattening(s, m, h)
  BY <1>1, <1>4 DEF Flattening
<1>6. QED
  BY <1>1, <1>5

LEMMA FlatteningExists ==
  ASSUME NEW S, NEW s \in Seq(Seq(S)), NEW n \in 1 .. Len(s)
  PROVE  \E f \in [1 .. n -> Seq(S)] : Flattening(s, n, f)
<1> DEFINE T == {m \in 1 .. Len(s) : ~\E f \in [1 .. m -> Seq(S)] : Flattening(s, m, f)}
<1>1. SUFFICES ASSUME T # {} PROVE FALSE
  OBVIOUS
<1>2. PICK m \in T : \A k \in T : m <= k
  <2>1. T \subseteq Nat
    OBVIOUS
  <2> HIDE DEF T
  <2>2. QED
    BY <1>1, <2>1, LeastNat
<1>3. m \in 1 .. Len(s) /\ ~\E f \in [1 .. m -> Seq(S)] : Flattening(s, m, f)
  BY <1>2
<1>4. CASE m = 1
  <2>1. [i \in 1 .. 1 |-> s[1]] \in [1 .. 1 -> Seq(S)]
    BY <1>3, <1>4
  <2>2. Flattening(s, 1, [i \in 1 .. 1 |-> s[1]])
    BY DEF Flattening
  <2>3. QED
    BY <1>3, <1>4, <2>1, <2>2
<1>5. CASE m # 1
  <2>1. m \in 2 .. Len(s) /\ m - 1 \notin T
    <3>1. m \in 2 .. Len(s)
      BY <1>3, <1>5
    <3> HIDE DEF T
    <3>2. QED
      BY <1>2, <3>1
  <2>2. PICK g \in [1 .. m - 1 -> Seq(S)] : Flattening(s, m - 1, g)
    BY <2>1
  <2>3. QED
    BY <1>3, <2>1, <2>2, FlatteningGrows
<1>6. QED
  BY <1>4, <1>5

LEMMA FlatteningType ==
  ASSUME NEW S, NEW s \in Seq(Seq(S)), NEW f, Flattening(s, Len(s), f), NEW n \in 1 .. Len(s)
  PROVE  f[n] \in Seq(S)
<1> DEFINE T == {i \in 1 .. Len(s) : f[i] \notin Seq(S)}
<1>1. SUFFICES ASSUME T # {} PROVE FALSE
  OBVIOUS
<1>2. PICK i \in T : \A k \in T : i <= k
  <2>1. T \subseteq Nat
    OBVIOUS
  <2> HIDE DEF T
  <2>2. QED
    BY <1>1, <2>1, LeastNat
<1>3. i \in 1 .. Len(s) /\ f[i] = IF i = 1 THEN s[i] ELSE Joined(f[i - 1], s[i])
  BY <1>2 DEF Flattening
<1>4. CASE i = 1
  BY <1>2, <1>3, <1>4
<1>5. CASE i # 1
  <2>1. i - 1 \in 1 .. Len(s) /\ f[i - 1] \in Seq(S)
    BY <1>2, <1>3, <1>5
  <2>2. Joined(f[i - 1], s[i]) \in Seq(S)
    BY <1>3, <2>1 DEF Joined
  <2>3. QED
    BY <1>2, <1>3, <1>5, <2>2
<1>6. QED
  BY <1>4, <1>5

LEMMA FlattenType ==
  ASSUME NEW S, NEW s \in Seq(Seq(S))
  PROVE  FlattenSeq(s) \in Seq(S)
<1> DEFINE flat == CHOOSE f : Flattening(s, Len(s), f)
<1>1. CASE Len(s) = 0
  <2>1. s = <<>>
    BY <1>1
  <2>2. QED
    BY <1>1, <2>1 DEF FlattenSeq
<1>2. CASE Len(s) # 0
  <2>1. FlattenSeq(s) = flat[Len(s)]
    BY <1>2 DEF FlattenSeq, Flattening, Joined
  <2>2. Len(s) \in 1 .. Len(s)
    BY <1>2
  <2>3. \E f : Flattening(s, Len(s), f)
    BY <2>2, FlatteningExists
  <2>4. Flattening(s, Len(s), flat)
    BY <2>3
  <2> HIDE DEF flat
  <2>5. QED
    BY <2>1, <2>2, <2>4, FlatteningType
<1>3. QED
  BY <1>1, <1>2

LEMMA FunctionIsSeq ==
  ASSUME NEW S, NEW n \in Nat, NEW s \in [1 .. n -> S]
  PROVE  s \in Seq(S)
OBVIOUS

\* cfs_read's answer is a sequence of bytes.
LEMMA AssembleType ==
  ASSUME NEW n \in Nat \ {0}, NEW cdata \in [1 .. n -> Chunk], NEW off \in Nat, NEW size \in Nat
  PROVE  Assemble(cdata, off, size) \in Seq(Byte)
<1> DEFINE skip == off % ChunkSize
           first == SubSeq(cdata[1], skip + 1, Len(cdata[1]))
           cut == [cdata EXCEPT ![1] = first]
           tail == FlattenSeq(cut)
<1>1. cdata[1] \in Seq(Byte) /\ \A i \in 1 .. n : cdata[i] \in Seq(Byte)
  BY DEF Chunk
<1>2. skip \in Nat
  BY ChunkSizeAssumption
<1>3. first \in Seq(Byte)
  BY <1>1, <1>2
<1>4. cut \in Seq(Seq(Byte))
  <2>1. cut \in [1 .. n -> Seq(Byte)]
    BY <1>1, <1>3
  <2> HIDE DEF cut
  <2>2. QED
    BY <2>1, FunctionIsSeq
<1> HIDE DEF cut
<1>5. tail \in Seq(Byte)
  BY <1>4, FlattenType
<1> HIDE DEF tail
<1>6. SubSeq(tail, 1, Least(size, Len(tail))) \in Seq(Byte)
  BY <1>5 DEF Least
<1>7. Assemble(cdata, off, size) = IF skip >= Len(cdata[1]) THEN <<>>
                                   ELSE SubSeq(tail, 1, Least(size, Len(tail)))
  BY DEF Assemble, tail, cut
<1>8. QED
  BY <1>6, <1>7

-----------------------------------------------------------------------------
(* The bytes that cfs_write and cfs_read put in their places *)

\* What a chunk file holds at a place in the chunk: zero behind its end.
ByteAt(data, at) == IF at <= Len(data) THEN data[at] ELSE 0

\* A chunk that cfs_write reaches holds the bytes of the buffer where the buffer
\* covers it and what it held before elsewhere.
LEMMA MergeBytes ==
  ASSUME NEW existing \in Chunk, NEW off \in Nat, NEW buf \in Seq(Byte), buf # <<>>,
         NEW ci \in FirstChunk(off) .. LastChunk(off, Len(buf)), NEW at \in 1 .. ChunkSize
  PROVE  LET k == ci * ChunkSize + at
             new == Merge(existing, ci, off, buf)
         IN /\ off < k /\ k <= off + Len(buf) => at <= Len(new) /\ new[at] = buf[k - off]
            /\ ~(off < k /\ k <= off + Len(buf)) => ByteAt(new, at) = ByteAt(existing, at)
            /\ at <= Len(existing) => at <= Len(new)
<1> DEFINE fc == FirstChunk(off)
           el == Least(Len(existing), ChunkSize)
           ws == IF ci = fc THEN off - ci * ChunkSize ELSE 0
           bo == IF ci = fc THEN 0 ELSE (ci - fc) * ChunkSize - (off % ChunkSize)
           we == Least(ChunkSize, off + Len(buf) - ci * ChunkSize)
           tc == Least(we - ws, Len(buf) - bo)
           byte(i) == IF ws < i /\ i <= ws + tc THEN buf[bo + i - ws]
                      ELSE IF i <= el THEN existing[i] ELSE 0
           new == Merge(existing, ci, off, buf)
<1> PICK base : base = ci * ChunkSize
  OBVIOUS
<1> PICK first : first = fc * ChunkSize
  OBVIOUS
<1> PICK len : len = Len(buf)
  OBVIOUS
<1>1. /\ len \in Nat \ {0} /\ ChunkSize \in Nat \ {0} /\ fc \in Nat
      /\ off % ChunkSize \in 0 .. ChunkSize - 1 /\ off = ChunkSize * fc + (off % ChunkSize)
  <2>1. len \in Nat \ {0} /\ ChunkSize \in Nat \ {0}
    BY ChunkSizeAssumption
  <2> HIDE DEF el, ws, bo, we, tc, byte, new
  <2>2. QED
    BY <2>1, DivMod DEF FirstChunk
<1>2. ci \in Nat /\ fc <= ci
  <2>1. LastChunk(off, Len(buf)) \in Nat
    BY <1>1, DivMod DEF LastChunk
  <2>2. QED
    BY <1>1, <2>1
<1>3. base \in Nat /\ first \in Nat /\ first <= off /\ off < first + ChunkSize /\ first <= base /\ (ci = fc => base = first)
  <2> HIDE DEF el, ws, bo, we, tc, byte, new, fc
  <2>1. PICK r \in 0 .. ChunkSize - 1 : r = off % ChunkSize
    BY <1>1
  <2>2. first \in Nat /\ off = first + r
    BY <1>1, <2>1
  <2>3. base \in Nat /\ first <= base /\ (ci = fc => base = first)
    BY <1>1, <1>2, MulMono
  <2>4. QED
    BY <1>1, <2>1, <2>2, <2>3
<1>4. ci # fc => (ci - fc) * ChunkSize = base - first /\ first + ChunkSize <= base
  <2> HIDE DEF el, ws, bo, we, tc, byte, new, fc
  <2>1. ASSUME ci # fc PROVE (fc + 1) * ChunkSize <= ci * ChunkSize
    BY <1>1, <1>2, <2>1, MulMono
  <2>2. QED
    BY <1>1, <1>2, <2>1
<1>5. /\ el = Len(existing) /\ Len(existing) \in 0 .. ChunkSize
      /\ ws = (IF ci = fc THEN off - base ELSE 0)
      /\ bo = (IF ci = fc THEN 0 ELSE base - off)
      /\ we = Least(ChunkSize, off + len - base)
  <2>1. el = Len(existing) /\ Len(existing) \in 0 .. ChunkSize
    BY <1>1 DEF Chunk, Least
  <2>2. bo = (IF ci = fc THEN 0 ELSE base - off)
    <3> HIDE DEF fc
    <3>1. off % ChunkSize = off - first
      BY <1>1
    <3>2. QED
      BY <1>1, <1>3, <1>4, <3>1
  <2>3. QED
    BY <2>1, <2>2
<1>6. ws \in Nat /\ we \in Int /\ bo \in Nat /\ tc = we - ws /\ base + ws = off + bo
  <2> HIDE DEF fc, ws, bo, we
  <2>0. len \in Nat /\ ChunkSize \in Nat
    BY <1>1
  <2>1. ws \in Nat /\ we \in Int /\ bo \in Nat /\ we <= off + len - base
    <3> HIDE DEF el, tc, byte, new
    <3>0. PICK e \in Int : e = off + len - base
      <4>1. off + len - base \in Int
        BY <2>0, <1>3
      <4>2. QED
        BY <4>1
    <3>1. we \in Int /\ we <= e
      <4>1. we = Least(ChunkSize, e)
        BY <1>5, <3>0
      <4>2. ASSUME NEW x \in Int, NEW c \in Nat PROVE Least(c, x) \in Int /\ Least(c, x) <= x
        BY DEF Least
      <4>3. QED
        BY <2>0, <3>0, <4>1, <4>2
    <3>2. ci = fc => ws = off - base /\ bo = 0 /\ base <= off
      BY <1>3, <1>5
    <3>3. ci # fc => ws = 0 /\ bo = base - off /\ off <= base
      BY <2>0, <1>3, <1>4, <1>5
    <3>4. ws \in Nat /\ bo \in Nat
      BY <1>3, <3>2, <3>3
    <3>5. QED
      BY <3>0, <3>1, <3>4
  <2>2. base + ws = off + bo
    BY <1>1, <1>3, <1>5
  <2>3. we - ws <= len - bo
    BY <1>1, <1>3, <2>1, <2>2
  <2>4. tc = we - ws
    BY <1>1, <2>1, <2>3 DEF Least
  <2>5. QED
    BY <1>1, <1>3, <2>1, <2>2, <2>4
<1>7. /\ new = [i \in 1 .. Greatest(el, we) |-> byte(i)]
      /\ Len(new) = Greatest(el, we) /\ Greatest(el, we) \in Nat /\ el <= Greatest(el, we) /\ we <= Greatest(el, we)
  <2> HIDE DEF fc, ws, bo, tc, el, we
  <2>1. Greatest(el, we) \in Nat /\ el <= Greatest(el, we) /\ we <= Greatest(el, we)
    BY <1>1, <1>5, <1>6 DEF Greatest
  <2>2. new = [i \in 1 .. Greatest(el, we) |-> byte(i)]
    BY DEF Merge, fc, el, ws, bo, we, tc
  <2> HIDE DEF new, byte
  <2>3. QED
    BY <2>1, <2>2
<1>8. /\ (off < base + at /\ at <= we) <=> (ws < at /\ at <= ws + tc)
      /\ (base + at <= off + len) <=> at <= off + len - base
      /\ at <= we <=> at <= off + len - base
      /\ bo + at - ws = base + at - off
  <2> HIDE DEF fc, ws, bo, tc, we
  <2>1. at \in Nat /\ 1 <= at /\ at <= ChunkSize
    BY <1>1
  <2>2. ws < at <=> off < base + at
    BY <1>1, <1>3, <1>4, <1>5, <2>1
  <2>3. at <= we <=> at <= off + len - base
    BY <1>1, <1>3, <1>5, <2>1 DEF Least
  <2>4. at <= ws + tc <=> at <= we
    BY <1>6, <2>1
  <2>5. QED
    BY <1>1, <1>3, <1>6, <2>1, <2>2, <2>3, <2>4
<1> HIDE DEF fc, el, ws, bo, we, tc, new
<1>9. CASE off < base + at /\ base + at <= off + len
  <2>1. ws < at /\ at <= ws + tc /\ at <= we
    BY <1>8, <1>9
  <2>2. at \in 1 .. Greatest(el, we)
    BY <1>1, <1>6, <1>7, <2>1
  <2>3. new[at] = byte(at)
    BY <1>7, <2>2
  <2>4. byte(at) = buf[base + at - off]
    BY <1>8, <2>1
  <2>5. at <= Len(new)
    BY <1>7, <2>2
  <2>6. QED
    BY <1>9, <2>3, <2>4, <2>5 DEF new
<1>10. CASE ~(off < base + at /\ base + at <= off + len)
  <2>1. ~(ws < at /\ at <= ws + tc)
    BY <1>8, <1>10
  <2>2. byte(at) = IF at <= el THEN existing[at] ELSE 0
    BY <2>1
  <2>3. at <= Len(new) => new[at] = byte(at)
    BY <1>7
  <2>4. at <= Len(existing) => at <= Len(new)
    BY <1>5, <1>6, <1>7
  <2>5. ByteAt(new, at) = ByteAt(existing, at)
    BY <1>5, <2>2, <2>3, <2>4 DEF ByteAt
  <2>6. QED
    BY <1>10, <2>4, <2>5 DEF new
<1>11. QED
  BY <1>9, <1>10

LEMMA Concatenation ==
  ASSUME NEW S, NEW x \in Seq(S), NEW y \in Seq(S)
  PROVE  /\ x \o y \in Seq(S) /\ Len(x \o y) = Len(x) + Len(y)
         /\ \A j \in 1 .. Len(x) : (x \o y)[j] = x[j]
         /\ \A j \in 1 .. Len(y) : (x \o y)[Len(x) + j] = y[j]
OBVIOUS

LEMMA MulSub ==
  ASSUME NEW a \in Nat, NEW b \in Nat, NEW n \in Nat
  PROVE  (a - b) * n = a * n - b * n /\ a * n \in Nat /\ b * n \in Nat
OBVIOUS

LEMMA ConcatenationEnd ==
  ASSUME NEW S, NEW x \in Seq(S), NEW y \in Seq(S), NEW j \in 1 .. Len(y)
  PROVE  (x \o y)[Len(x) + j] = y[j]
OBVIOUS

LEMMA RangeInside ==
  ASSUME NEW skip \in Nat, NEW size \in Nat, NEW b \in Nat, NEW l \in Nat,
         skip + size <= b + l
  PROVE  size <= b + l - skip
OBVIOUS

\* The chunks that cfs_read has put together after m of them, when the first was
\* cut at skip and all but the last are full: every byte of them is in its place.
Gathered(cdata, skip, m, sofar) ==
  /\ sofar \in Seq(Byte)
  /\ Len(sofar) = (m - 1) * ChunkSize + Len(cdata[m]) - skip
  /\ \A i \in 1 .. m : \A at \in 1 .. Len(cdata[i]) :
        (i - 1) * ChunkSize + at > skip => sofar[(i - 1) * ChunkSize + at - skip] = cdata[i][at]

LEMMA GatheredFirst ==
  ASSUME NEW cdata, cdata[1] \in Chunk, NEW skip \in 0 .. Len(cdata[1])
  PROVE  Gathered(cdata, skip, 1, SubSeq(cdata[1], skip + 1, Len(cdata[1])))
<1> PICK c \in Seq(Byte) : c = cdata[1]
  BY DEF Chunk
<1>0. SubSeq(c, skip + 1, Len(c)) \in Seq(Byte) /\ skip \in Nat
  <2>1. skip \in Nat /\ Len(c) \in Nat
    OBVIOUS
  <2>2. QED
    BY <2>1
<1> PICK cut \in Seq(Byte) : cut = SubSeq(c, skip + 1, Len(c))
  BY <1>0
<1>1. Len(cut) = Len(c) - skip /\ \A j \in 1 .. Len(cut) : cut[j] = c[skip + j]
  BY <1>0
<1>2. (1 - 1) * ChunkSize = 0
  BY ChunkSizeAssumption
<1>3. ASSUME NEW at \in 1 .. Len(c), at > skip PROVE cut[at - skip] = c[at]
  BY <1>1, <1>3
<1>4. \A i \in 1 .. 1 : \A at \in 1 .. Len(cdata[i]) :
        (i - 1) * ChunkSize + at > skip => cut[(i - 1) * ChunkSize + at - skip] = cdata[i][at]
  BY <1>2, <1>3
<1>5. QED
  BY <1>1, <1>2, <1>4 DEF Gathered

LEMMA IndexBelow ==
  ASSUME NEW at \in Nat, NEW b \in Nat, NEW cs \in Nat, NEW q \in Nat, NEW base \in Nat, NEW skip \in Nat,
         at <= cs, b + cs = q, q <= base, b + at > skip
  PROVE  b + at - skip \in 1 .. base - skip
OBVIOUS

LEMMA GatheredNext ==
  ASSUME NEW n \in Nat, NEW cdata \in [1 .. n -> Chunk], NEW skip \in Nat, NEW m \in 2 .. n,
         \A i \in 1 .. m - 1 : Len(cdata[i]) = ChunkSize,
         NEW sofar, Gathered(cdata, skip, m - 1, sofar)
  PROVE  Gathered(cdata, skip, m, sofar \o cdata[m])
<1> PICK c \in Seq(Byte) : c = cdata[m]
  BY DEF Chunk
<1> PICK base \in Nat : base = (m - 1) * ChunkSize
  BY ChunkSizeAssumption
<1> PICK whole : whole = sofar \o c
  OBVIOUS
<1>1. sofar \in Seq(Byte) /\ Len(sofar) = base - skip
  <2>1. m - 1 \in 1 .. m - 1 /\ ChunkSize \in Nat
    BY ChunkSizeAssumption
  <2>2. Len(cdata[m - 1]) = ChunkSize
    BY <2>1
  <2>3. (m - 1 - 1) * ChunkSize + ChunkSize = (m - 1) * ChunkSize
    BY <2>1
  <2>4. Len(sofar) = (m - 1 - 1) * ChunkSize + ChunkSize - skip /\ sofar \in Seq(Byte)
    BY <2>2 DEF Gathered
  <2>5. QED
    BY <2>3, <2>4
<1>2. /\ whole \in Seq(Byte) /\ Len(whole) = Len(sofar) + Len(c)
      /\ \A j \in 1 .. Len(sofar) : whole[j] = sofar[j]
      /\ \A j \in 1 .. Len(c) : whole[Len(sofar) + j] = c[j]
  <2>1. sofar \in Seq(Byte) /\ c \in Seq(Byte)
    BY <1>1
  <2>2. ASSUME NEW j \in 1 .. Len(c) PROVE whole[Len(sofar) + j] = c[j]
    <3>1. (sofar \o c)[Len(sofar) + j] = c[j]
      BY <2>1, ConcatenationEnd
    <3>2. QED
      BY <3>1
  <2>3. QED
    BY <2>1, <2>2, Concatenation
<1>3. ASSUME NEW i \in 1 .. m, NEW at \in 1 .. Len(cdata[i]), NEW b \in Nat, b = (i - 1) * ChunkSize,
             b + at > skip
      PROVE  whole[b + at - skip] = cdata[i][at]
  <2>1. CASE i = m
    <3>1. b + at - skip = Len(sofar) + at /\ at \in 1 .. Len(c)
      BY <1>1, <1>3, <2>1
    <3>2. whole[Len(sofar) + at] = c[at]
      BY <1>2, <3>1
    <3>3. QED
      BY <2>1, <3>1, <3>2
  <2>2. CASE i # m
    <3>1. i \in 1 .. m - 1 /\ i \in Nat /\ Len(cdata[i]) = ChunkSize
      BY <2>2
    <3>2. b + ChunkSize = i * ChunkSize /\ i * ChunkSize <= base
      <4>1. i * ChunkSize <= (m - 1) * ChunkSize
        BY <3>1, ChunkSizeAssumption, MulMono
      <4>2. (i - 1) * ChunkSize + ChunkSize = i * ChunkSize
        BY <3>1, ChunkSizeAssumption
      <4>3. QED
        BY <1>3, <4>1, <4>2
    <3>3. b + at - skip \in 1 .. Len(sofar)
      <4>1. PICK q \in Nat : q = i * ChunkSize
        BY <3>1, ChunkSizeAssumption
      <4>2. PICK cs \in Nat : cs = ChunkSize
        BY ChunkSizeAssumption
      <4>3. at \in 1 .. cs /\ b + cs = q /\ q <= base
        BY <3>1, <3>2, <4>1, <4>2
      <4>4. at \in Nat /\ at <= cs
        BY <4>2, <4>3
      <4>5. b + at - skip \in 1 .. base - skip
        BY <1>3, <4>1, <4>2, <4>3, <4>4, IndexBelow
      <4>6. QED
        BY <1>1, <4>5
    <3>4. sofar[b + at - skip] = cdata[i][at]
      BY <1>3, <3>1 DEF Gathered
    <3>5. QED
      BY <1>2, <3>3, <3>4
  <2>3. QED
    BY <2>1, <2>2
<1>4. \A i \in 1 .. m : \A at \in 1 .. Len(cdata[i]) :
        (i - 1) * ChunkSize + at > skip => whole[(i - 1) * ChunkSize + at - skip] = cdata[i][at]
  <2>1. \A i \in 1 .. m : (i - 1) * ChunkSize \in Nat
    BY ChunkSizeAssumption
  <2>2. QED
    BY <1>3, <2>1
<1>5. Len(whole) = (m - 1) * ChunkSize + Len(cdata[m]) - skip
  BY <1>1, <1>2
<1>6. QED
  BY <1>2, <1>4, <1>5 DEF Gathered

LEMMA FlatteningGathers ==
  ASSUME NEW n \in Nat \ {0}, NEW cdata \in [1 .. n -> Chunk], NEW skip \in 0 .. Len(cdata[1]),
         \A i \in 1 .. n - 1 : Len(cdata[i]) = ChunkSize,
         NEW f, Flattening([cdata EXCEPT ![1] = SubSeq(@, skip + 1, Len(@))], n, f)
  PROVE  Gathered(cdata, skip, n, f[n])
<1> DEFINE T == {m \in 1 .. n : ~Gathered(cdata, skip, m, f[m])}
           cut == [cdata EXCEPT ![1] = SubSeq(@, skip + 1, Len(@))]
<1>1. SUFFICES ASSUME T # {} PROVE FALSE
  OBVIOUS
<1>2. PICK m \in T : \A k \in T : m <= k
  <2>1. T \subseteq Nat
    OBVIOUS
  <2> HIDE DEF T
  <2>2. QED
    BY <1>1, <2>1, LeastNat
<1>3. m \in 1 .. n /\ f[m] = IF m = 1 THEN cut[m] ELSE Joined(f[m - 1], cut[m])
  BY <1>2 DEF Flattening
<1>4. skip \in Nat
  BY DEF Chunk
<1>5. CASE m = 1
  <2>1. f[1] = SubSeq(cdata[1], skip + 1, Len(cdata[1]))
    BY <1>3, <1>5
  <2>2. cdata[1] \in Chunk
    OBVIOUS
  <2>3. Gathered(cdata, skip, 1, f[1])
    BY <2>1, <2>2, GatheredFirst
  <2>4. QED
    BY <1>2, <1>5, <2>3
<1>6. CASE m # 1
  <2>1. m \in 2 .. n /\ m - 1 \in 1 .. n /\ m - 1 < m
    BY <1>3, <1>6
  <2>2. Gathered(cdata, skip, m - 1, f[m - 1])
    BY <1>2, <2>1
  <2>3. f[m] = f[m - 1] \o cdata[m]
    BY <1>3, <1>6, <2>1 DEF Joined
  <2>4. \A i \in 1 .. m - 1 : Len(cdata[i]) = ChunkSize
    BY <2>1
  <2>5. Gathered(cdata, skip, m, f[m - 1] \o cdata[m])
    BY <1>4, <2>1, <2>2, <2>4, GatheredNext
  <2>6. QED
    BY <1>2, <2>3, <2>5
<1>7. QED
  BY <1>5, <1>6

\* An answer of size bytes from n chunks laid one behind the other, of which the
\* first skip bytes are left out: each byte is the byte of its chunk.
Answers(cdata, skip, n, size, bytes) ==
  /\ bytes \in Seq(Byte) /\ Len(bytes) = size
  /\ \A i \in 1 .. n : \A at \in 1 .. Len(cdata[i]) :
        /\ (i - 1) * ChunkSize + at > skip
        /\ (i - 1) * ChunkSize + at - skip <= size
        => bytes[(i - 1) * ChunkSize + at - skip] = cdata[i][at]

\* What cfs_read returns when every chunk it fetched but the last is full and the
\* last reaches to the end of the range: as many bytes as were asked for, each the
\* byte of its chunk.
LEMMA AssembleBytes ==
  ASSUME NEW n \in Nat \ {0}, NEW cdata \in [1 .. n -> Chunk], NEW off \in Nat, NEW size \in Nat \ {0},
         NEW skip, skip = off % ChunkSize,
         \A i \in 1 .. n - 1 : Len(cdata[i]) = ChunkSize,
         skip < Len(cdata[1]), skip + size <= (n - 1) * ChunkSize + Len(cdata[n])
  PROVE  Answers(cdata, skip, n, size, Assemble(cdata, off, size))
<1> DEFINE cut == [cdata EXCEPT ![1] = SubSeq(@, skip + 1, Len(@))]
           flat == CHOOSE f : Flattening(cut, Len(cut), f)
           reply == Assemble(cdata, off, size)
<1>1. skip \in Nat /\ ChunkSize \in Nat \ {0} /\ Len(cdata[1]) \in Nat
  BY ChunkSizeAssumption DEF Chunk
<1>2. cut \in [1 .. n -> Seq(Byte)]
  <2>1. \A i \in 1 .. n : cdata[i] \in Seq(Byte)
    BY DEF Chunk
  <2>2. SubSeq(cdata[1], skip + 1, Len(cdata[1])) \in Seq(Byte)
    BY <1>1, <2>1
  <2>3. QED
    BY <2>1, <2>2
<1>3. cut \in Seq(Seq(Byte)) /\ Len(cut) = n
  <2> HIDE DEF cut
  <2>1. QED
    BY <1>2, FunctionIsSeq
<1>4. Flattening(cut, n, flat)
  <2> HIDE DEF cut
  <2>1. n \in 1 .. Len(cut)
    BY <1>3
  <2>2. \E f : Flattening(cut, Len(cut), f)
    BY <1>3, <2>1, FlatteningExists
  <2>3. QED
    BY <1>3, <2>2
<1>5. FlattenSeq(cut) = flat[n]
  <2> HIDE DEF cut
  <2>1. QED
    BY <1>3 DEF FlattenSeq, Flattening, Joined
<1> HIDE DEF flat
<1>6. Gathered(cdata, skip, n, flat[n])
  <2>1. skip \in 0 .. Len(cdata[1])
    BY <1>1
  <2>2. QED
    BY <1>4, <2>1, FlatteningGathers
<1> PICK tail : tail = flat[n]
  OBVIOUS
<1>7. tail \in Seq(Byte) /\ size <= Len(tail)
  <2>1. (n - 1) * ChunkSize \in Nat /\ Len(cdata[n]) \in Nat
    BY <1>1 DEF Chunk
  <2>2. tail \in Seq(Byte) /\ Len(tail) = (n - 1) * ChunkSize + Len(cdata[n]) - skip
    BY <1>6 DEF Gathered
  <2>3. PICK b \in Nat : b = (n - 1) * ChunkSize
    BY <2>1
  <2>4. PICK l \in Nat : l = Len(cdata[n])
    BY <2>1
  <2>5. skip + size <= b + l
    BY <2>3, <2>4
  <2>6. Len(tail) = b + l - skip
    BY <2>2, <2>3, <2>4
  <2>7. QED
    <3>1. size \in Nat /\ skip \in Nat
      BY <1>1
    <3>2. size <= b + l - skip
      BY <2>3, <2>4, <2>5, <3>1, RangeInside
    <3>3. QED
      BY <2>2, <2>6, <3>2, Zenon
<1>8. reply = SubSeq(tail, 1, size)
  <2>1. reply = IF skip >= Len(cdata[1]) THEN <<>> ELSE SubSeq(tail, 1, Least(size, Len(tail)))
    BY <1>5 DEF Assemble
  <2>2. Least(size, Len(tail)) = size
    BY <1>7 DEF Least
  <2>3. ~(skip >= Len(cdata[1]))
    BY <1>1
  <2>4. QED
    BY <2>1, <2>2, <2>3, Zenon
<1> HIDE DEF reply
<1>9. reply \in Seq(Byte) /\ Len(reply) = size /\ \A j \in 1 .. size : reply[j] = tail[j]
  BY <1>7, <1>8
<1>10. ASSUME NEW i \in 1 .. n, NEW at \in 1 .. Len(cdata[i]), NEW b \in Nat, b = (i - 1) * ChunkSize,
             b + at > skip, b + at - skip <= size
      PROVE  reply[b + at - skip] = cdata[i][at]
  <2>1. b + at - skip \in 1 .. size
    BY <1>1, <1>10
  <2>2. tail[b + at - skip] = cdata[i][at]
    BY <1>6, <1>10 DEF Gathered
  <2>3. QED
    BY <1>9, <2>1, <2>2
<1>11. \A i \in 1 .. n : (i - 1) * ChunkSize \in Nat
  BY <1>1
<1>12. QED
  BY <1>9, <1>10, <1>11 DEF reply, Answers

-----------------------------------------------------------------------------
(* Where a byte of the file is kept *)

ChunkOf(k) == (k - 1) \div ChunkSize
PlaceOf(k) == ((k - 1) % ChunkSize) + 1

LEMMA ByteHasPlace ==
  ASSUME NEW k \in 1 .. MaxSize
  PROVE  /\ ChunkOf(k) \in ChunkIdx /\ PlaceOf(k) \in 1 .. ChunkSize
         /\ k = ChunkOf(k) * ChunkSize + PlaceOf(k)
<1> PICK j \in Nat : j = k - 1
  BY MaxSizeNat
<1>1. j < MaxSize /\ k = j + 1
  BY MaxSizeNat
<1>2. j \div ChunkSize \in ChunkIdx
  BY <1>1, FirstChunkType DEF FirstChunk
<1>3. j \div ChunkSize \in Nat /\ j % ChunkSize \in 0 .. ChunkSize - 1
      /\ j = ChunkSize * (j \div ChunkSize) + (j % ChunkSize)
  BY ChunkSizeAssumption, DivMod
<1>4. PICK q \in Nat, r \in 0 .. ChunkSize - 1 : q = j \div ChunkSize /\ r = j % ChunkSize /\ j = ChunkSize * q + r
  BY <1>3
<1>5. ChunkOf(k) = q /\ PlaceOf(k) = r + 1
  BY <1>4 DEF ChunkOf, PlaceOf
<1>6. k = q * ChunkSize + (r + 1) /\ r + 1 \in 1 .. ChunkSize
  <2>1. ChunkSize * q = q * ChunkSize
    BY ChunkSizeAssumption
  <2>2. PICK p \in Nat : p = ChunkSize * q
    BY ChunkSizeAssumption
  <2>3. r \in Nat /\ k = p + (r + 1)
    BY <1>1, <1>4, <2>2
  <2>4. QED
    BY <2>1, <2>2, <2>3, ChunkSizeAssumption
<1>7. QED
  BY <1>2, <1>4, <1>5, <1>6

LEMMA PlaceHasByte ==
  ASSUME NEW k \in Nat, NEW ci \in Nat, NEW at \in 1 .. ChunkSize, k = ci * ChunkSize + at
  PROVE  ChunkOf(k) = ci /\ PlaceOf(k) = at
<1>1. at - 1 \in 0 .. ChunkSize - 1 /\ k - 1 \in Nat /\ k - 1 = ci * ChunkSize + (at - 1)
  <2>1. PICK p \in Nat : p = ci * ChunkSize
    BY ChunkSizeAssumption
  <2>2. at \in Nat /\ 1 <= at /\ at <= ChunkSize /\ k = p + at
    BY <2>1, ChunkSizeAssumption
  <2>3. QED
    BY <2>1, <2>2, ChunkSizeAssumption
<1>2. (k - 1) \div ChunkSize = ci /\ (k - 1) % ChunkSize = at - 1
  BY <1>1, ChunkSizeAssumption, DivModUnique
<1>3. QED
  BY <1>1, <1>2 DEF ChunkOf, PlaceOf

LEMMA ContentsBytes ==
  ASSUME NEW c \in [ChunkIdx -> Chunk], NEW s \in 0 .. MaxSize
  PROVE  /\ ContentsOf(c, s) \in Seq(Byte) /\ Len(ContentsOf(c, s)) = s
         /\ \A k \in 1 .. s : ContentsOf(c, s)[k] = ByteAt(c[ChunkOf(k)], PlaceOf(k))
<1>1. s \in Nat /\ s <= MaxSize
  BY MaxSizeNat
<1>2. ContentsOf(c, s) = [k \in 1 .. s |-> ByteAt(c[ChunkOf(k)], PlaceOf(k))]
  BY DEF ContentsOf, ByteAt, ChunkOf, PlaceOf
<1>3. ASSUME NEW k \in 1 .. s PROVE ByteAt(c[ChunkOf(k)], PlaceOf(k)) \in Byte
  <2>1. k \in 1 .. MaxSize
    BY <1>1, MaxSizeNat
  <2>2. PICK d \in Seq(Byte) : d = c[ChunkOf(k)]
    BY <2>1, ByteHasPlace DEF Chunk
  <2>3. PICK at \in Nat : at = PlaceOf(k) /\ at >= 1
    BY <2>1, ByteHasPlace, ChunkSizeAssumption
  <2>4. ByteAt(d, at) \in Byte
    BY <2>3, ByteAssumption DEF ByteAt
  <2>5. QED
    BY <2>2, <2>3, <2>4
<1>4. [k \in 1 .. s |-> ByteAt(c[ChunkOf(k)], PlaceOf(k))] \in [1 .. s -> Byte]
  BY <1>3
<1>5. QED
  BY <1>1, <1>2, <1>4, FunctionIsSeq

\* The chunks that a truncate keeps are those that hold the bytes it keeps.
LEMMA KeptChunk ==
  ASSUME NEW ns \in 0 .. MaxSize, NEW k \in 1 .. ns
  PROVE  k \in 1 .. MaxSize /\ ChunkOf(k) < ChunksFor(ns)
<1>1. ns \in Nat /\ ns <= MaxSize /\ k \in Nat /\ k >= 1 /\ k <= ns /\ k \in 1 .. MaxSize
  BY MaxSizeNat
<1>2. PICK off \in Nat, len \in Nat \ {0} : off = k - 1 /\ len = ns - k + 1 /\ off + len = ns
  <2>1. k - 1 \in Nat /\ ns - k + 1 \in Nat \ {0} /\ k - 1 + (ns - k + 1) = ns
    BY <1>1
  <2>2. QED
    BY <2>1
<1>3. /\ FirstChunk(off) \in ChunkIdx /\ LastChunk(off, len) \in ChunkIdx
      /\ FirstChunk(off) <= LastChunk(off, len) /\ ChunksFor(ns) = LastChunk(off, len) + 1
  BY <1>1, <1>2, LastChunkType
<1>4. ChunkOf(k) = FirstChunk(off)
  BY <1>2 DEF ChunkOf, FirstChunk
<1>5. FirstChunk(off) \in Nat /\ LastChunk(off, len) \in Nat
  BY <1>3, ChunkIdxNat
<1>6. FirstChunk(off) < LastChunk(off, len) + 1
  BY <1>3, <1>5
<1>7. QED
  BY <1>1, <1>3, <1>4, <1>6

LEMMA SameSeq ==
  ASSUME NEW S, NEW s \in Seq(S), NEW t \in Seq(S), Len(s) = Len(t), \A j \in 1 .. Len(s) : s[j] = t[j]
  PROVE  s = t
OBVIOUS

\* The chunks of a range, and the place of a byte of the range in them when they
\* are laid one behind the other.
LEMMA RangeChunks ==
  ASSUME NEW off \in Nat, NEW sz \in Nat \ {0}, off + sz <= MaxSize,
         NEW fc, fc = FirstChunk(off), NEW lc, lc = LastChunk(off, sz)
  PROVE  fc \in ChunkIdx /\ lc \in ChunkIdx /\ fc \in Nat /\ lc \in Nat /\ fc <= lc
<1>1. fc \in ChunkIdx /\ lc \in ChunkIdx /\ fc <= lc
  BY LastChunkType
<1>2. QED
  BY <1>1, ChunkIdxNat

LEMMA RangeStart ==
  ASSUME NEW off \in Nat
  PROVE  /\ off % ChunkSize \in 0 .. ChunkSize - 1 /\ FirstChunk(off) \in Nat
         /\ off = FirstChunk(off) * ChunkSize + (off % ChunkSize)
<1>1. /\ off \div ChunkSize \in Nat /\ off % ChunkSize \in 0 .. ChunkSize - 1
      /\ off = ChunkSize * (off \div ChunkSize) + (off % ChunkSize)
  BY ChunkSizeAssumption, DivMod
<1>2. PICK q \in Nat : q = off \div ChunkSize
  BY <1>1
<1>3. ChunkSize * q = q * ChunkSize
  BY ChunkSizeAssumption
<1>4. QED
  BY <1>1, <1>2, <1>3 DEF FirstChunk

LEMMA RangePlace ==
  ASSUME NEW off \in Nat, NEW sz \in Nat \ {0}, off + sz <= MaxSize,
         NEW fc, fc = FirstChunk(off), NEW lc, lc = LastChunk(off, sz), NEW nc, nc = lc - fc + 1,
         NEW k \in Nat, off < k, k <= off + sz
  PROVE  \E i \in 1 .. nc :
           /\ ChunkOf(k) = fc + i - 1
           /\ (i - 1) * ChunkSize + PlaceOf(k) = (off % ChunkSize) + (k - off)
           /\ k = off + 1 => i = 1
           /\ k = off + sz => i = nc
<1>1. fc \in Nat /\ lc \in Nat /\ fc <= lc /\ nc \in Nat \ {0}
  <2>1. fc \in Nat /\ lc \in Nat /\ fc <= lc
    BY RangeChunks
  <2>2. QED
    BY <2>1
<1>2. k \in 1 .. MaxSize
  BY MaxSizeNat
<1>3. PICK c \in Nat : c = ChunkOf(k)
  BY <1>2, ByteHasPlace, ChunkIdxNat
<1>4. PICK at \in Nat : at = PlaceOf(k)
  BY <1>2, ByteHasPlace, ChunkSizeAssumption
<1>5. k = c * ChunkSize + at
  BY <1>2, <1>3, <1>4, ByteHasPlace
<1>6. /\ fc <= c /\ c <= lc
      /\ k = off + 1 => c = fc
      /\ k = off + sz => c = lc
  <2>1. PICK j \in Nat, e \in Nat : j = k - 1 /\ e = off + sz - 1 /\ off <= j /\ j <= e
    <3>1. k - 1 \in Nat /\ off + sz - 1 \in Nat /\ off <= k - 1 /\ k - 1 <= off + sz - 1
      BY <1>2
    <3>2. QED
      BY <3>1
  <2>2. off \div ChunkSize <= j \div ChunkSize /\ j \div ChunkSize <= e \div ChunkSize
    BY <2>1, ChunkSizeAssumption, DivMono
  <2>3. c = j \div ChunkSize /\ fc = off \div ChunkSize /\ lc = e \div ChunkSize
    BY <1>3, <2>1 DEF ChunkOf, FirstChunk, LastChunk
  <2>4. (k = off + 1 => j = off) /\ (k = off + sz => j = e)
    BY <2>1
  <2>5. QED
    BY <2>2, <2>3, <2>4
<1>7. PICK i \in 1 .. nc : i = c - fc + 1 /\ i \in Nat
  <2>1. c - fc + 1 \in 1 .. nc /\ c - fc + 1 \in Nat
    BY <1>1, <1>6
  <2>2. QED
    BY <2>1
<1>8. PICK skip \in Nat : skip = off % ChunkSize /\ off = fc * ChunkSize + skip
  BY RangeStart, ChunkSizeAssumption
<1>9. (i - 1) * ChunkSize + at = skip + (k - off)
  <2>1. PICK a \in Nat, b \in Nat : a = fc * ChunkSize /\ b = c * ChunkSize /\ (c - fc) * ChunkSize = b - a
    BY <1>1, ChunkSizeAssumption, MulSub
  <2>2. i - 1 = c - fc
    BY <1>1, <1>7
  <2>3. off = a + skip /\ k = b + at /\ (i - 1) * ChunkSize = b - a
    BY <1>5, <1>8, <2>1, <2>2
  <2>4. b - a + at = skip + (k - off)
    <3>1. ASSUME NEW x \in Nat, NEW y \in Nat, NEW u \in Nat, NEW v \in Nat PROVE y - x + v = u + ((y + v) - (x + u))
      OBVIOUS
    <3>2. QED
      BY <2>3, <3>1
  <2>5. QED
    BY <2>3, <2>4
<1>10. c = fc + i - 1 /\ (c = fc => i = 1) /\ (c = lc => i = nc)
  BY <1>1, <1>7
<1>11. QED
  BY <1>3, <1>4, <1>6, <1>7, <1>8, <1>9, <1>10

\* Chunk ci as it was fetched has the bytes of v that belong into it.
ChunkShows(data, ci, v, size) ==
  \A k \in 1 .. size : ChunkOf(k) = ci => PlaceOf(k) <= Len(data) /\ data[PlaceOf(k)] = v[k]

\* The nc chunks from fc on were fetched: each has the bytes of some version in S.
Fetches(cdata, fc, nc, S, size) ==
  /\ cdata \in [1 .. nc -> Chunk]
  /\ \A i \in 1 .. nc : \E v \in S : ChunkShows(cdata[i], fc + i - 1, v, size)

\* What cfs_read answers from chunks that have the bytes of one version or another of
\* the file, each of one: as many bytes as were asked for, each of some version.
LEMMA RangeAnswer ==
  ASSUME NEW size \in 0 .. MaxSize, NEW off \in Nat, NEW sz \in Nat \ {0}, off + sz <= size,
         NEW fc, fc = FirstChunk(off), NEW lc, lc = LastChunk(off, sz), NEW nc, nc = lc - fc + 1,
         NEW cdata, NEW S, Fetches(cdata, fc, nc, S, size)
  PROVE  /\ Assemble(cdata, off, sz) \in Seq(Byte) /\ Len(Assemble(cdata, off, sz)) = sz
         /\ \A j \in 1 .. sz : \E v \in S : Assemble(cdata, off, sz)[j] = v[off + j]
<1>1. size \in Nat /\ size <= MaxSize
  BY MaxSizeNat
<1>2. fc \in ChunkIdx /\ lc \in ChunkIdx /\ fc \in Nat /\ lc \in Nat /\ fc <= lc /\ off + sz <= MaxSize
  <2>1. off + sz <= MaxSize
    BY <1>1, MaxSizeNat
  <2>2. QED
    BY <2>1, RangeChunks
<1>3. nc \in Nat \ {0}
  BY <1>2
<1> PICK skip : skip = off % ChunkSize
  OBVIOUS
<1>4. skip \in Nat /\ skip < ChunkSize
  BY RangeStart, ChunkSizeAssumption
<1>5. cdata \in [1 .. nc -> Chunk]
  BY DEF Fetches
\* A byte of the file that a fetched chunk holds.
<1>6. ASSUME NEW k \in 1 .. size, NEW i \in 1 .. nc, ChunkOf(k) = fc + i - 1
      PROVE  /\ PlaceOf(k) \in 1 .. Len(cdata[i])
             /\ \E v \in S : cdata[i][PlaceOf(k)] = v[k]
  <2>1. PICK v \in S : PlaceOf(k) <= Len(cdata[i]) /\ cdata[i][PlaceOf(k)] = v[k]
    BY <1>6 DEF Fetches, ChunkShows
  <2>2. PlaceOf(k) \in Nat /\ PlaceOf(k) >= 1
    <3>1. k \in 1 .. MaxSize
      BY <1>1, MaxSizeNat
    <3>2. QED
      BY <3>1, ByteHasPlace, ChunkSizeAssumption
  <2>3. Len(cdata[i]) \in Nat
    BY <1>5 DEF Chunk
  <2>4. QED
    BY <2>1, <2>2, <2>3
<1>7. ASSUME NEW i \in 1 .. nc - 1 PROVE Len(cdata[i]) = ChunkSize
  <2>1. PICK c \in Nat : c = fc + i - 1 /\ c + 1 <= lc
    BY <1>2, <1>3
  <2>2. PICK k \in Nat : k = c * ChunkSize + ChunkSize /\ k = (c + 1) * ChunkSize
    <3>1. c * ChunkSize + ChunkSize \in Nat /\ c * ChunkSize + ChunkSize = (c + 1) * ChunkSize
      BY ChunkSizeAssumption
    <3>2. QED
      BY <3>1
  <2>3. k \in 1 .. size
    <3>1. PICK e \in Nat : e = off + sz - 1
      OBVIOUS
    <3>2. PICK r \in Nat : e = lc * ChunkSize + r
      <4>1. lc = FirstChunk(e)
        BY <3>1 DEF LastChunk, FirstChunk
      <4>2. QED
        BY <4>1, RangeStart, ChunkSizeAssumption
    <3>3. k <= lc * ChunkSize
      BY <1>2, <2>1, <2>2, ChunkSizeAssumption, MulMono
    <3>4. PICK b \in Nat : b = lc * ChunkSize
      BY <1>2, ChunkSizeAssumption
    <3>5. k <= size
      BY <1>1, <3>1, <3>2, <3>3, <3>4
    <3>6. 1 <= k
      <4>1. PICK a \in Nat : a = c * ChunkSize
        BY ChunkSizeAssumption
      <4>2. QED
        BY <2>2, <4>1, ChunkSizeAssumption
    <3>7. QED
      BY <1>1, <3>5, <3>6
  <2>4. ChunkSize \in 1 .. ChunkSize /\ ChunkSize \in Nat
    BY ChunkSizeAssumption
  <2>5. ChunkOf(k) = c /\ PlaceOf(k) = ChunkSize
    BY <2>2, <2>4, PlaceHasByte
  <2>6. i \in 1 .. nc
    BY <1>3
  <2>7. ChunkSize \in 1 .. Len(cdata[i]) /\ cdata[i] \in Chunk
    <3>1. ChunkOf(k) = fc + i - 1
      BY <2>1, <2>5
    <3>2. PlaceOf(k) \in 1 .. Len(cdata[i])
      BY <1>6, <2>3, <2>6, <3>1
    <3>3. QED
      BY <1>5, <2>5, <2>6, <3>2
  <2>8. QED
    BY <2>4, <2>7 DEF Chunk
<1>8. skip < Len(cdata[1]) /\ skip + sz <= (nc - 1) * ChunkSize + Len(cdata[nc])
  <2>1. PICK k \in Nat : k = off + 1
    OBVIOUS
  <2>2. PICK i \in 1 .. nc : /\ ChunkOf(k) = fc + i - 1 /\ i = 1
                             /\ (i - 1) * ChunkSize + PlaceOf(k) = skip + (k - off)
    <3>1. off < k /\ k <= off + sz
      BY <2>1
    <3>2. QED
      BY <1>2, <2>1, <3>1, RangePlace
  <2>3. skip < Len(cdata[1])
    <3>1. k \in 1 .. size
      BY <1>1, <2>1
    <3>2. PlaceOf(k) \in 1 .. Len(cdata[1]) /\ Len(cdata[1]) \in Nat
      BY <1>5, <1>6, <2>2, <3>1 DEF Chunk
    <3>3. (1 - 1) * ChunkSize = 0
      BY ChunkSizeAssumption
    <3>4. PlaceOf(k) = skip + 1
      BY <1>4, <2>1, <2>2, <3>2, <3>3
    <3>5. QED
      BY <1>4, <3>2, <3>4
  <2>4. PICK l \in Nat : l = off + sz
    OBVIOUS
  <2>5. PICK h \in 1 .. nc : /\ ChunkOf(l) = fc + h - 1 /\ h = nc
                             /\ (h - 1) * ChunkSize + PlaceOf(l) = skip + (l - off)
    <3>1. off < l /\ l <= off + sz
      BY <2>4
    <3>2. QED
      BY <1>2, <2>4, <3>1, RangePlace
  <2>6. l \in 1 .. size
    BY <1>1, <2>4
  <2>7. PlaceOf(l) \in 1 .. Len(cdata[nc]) /\ Len(cdata[nc]) \in Nat
    BY <1>5, <1>6, <2>5, <2>6 DEF Chunk
  <2>8. PICK b \in Nat : b = (nc - 1) * ChunkSize
    BY <1>3, ChunkSizeAssumption
  <2>9. b + PlaceOf(l) = skip + sz
    BY <1>4, <2>4, <2>5, <2>7, <2>8
  <2>10. ASSUME NEW p \in Nat, NEW m \in Nat, p <= m, b + p = skip + sz PROVE skip + sz <= b + m
    BY <1>4, <2>10
  <2>11. skip + sz <= b + Len(cdata[nc])
    BY <2>7, <2>9, <2>10
  <2>12. QED
    BY <2>3, <2>8, <2>11
<1> PICK ans : ans = Assemble(cdata, off, sz)
  OBVIOUS
<1>9. Answers(cdata, skip, nc, sz, ans)
  <2>1. \A i \in 1 .. nc - 1 : Len(cdata[i]) = ChunkSize
    BY <1>7
  <2>2. QED
    BY <1>3, <1>5, <1>8, <2>1, AssembleBytes
<1>10. ASSUME NEW j \in 1 .. sz PROVE \E v \in S : ans[j] = v[off + j]
  <2>1. PICK k \in Nat : k = off + j
    OBVIOUS
  <2>2. off < k /\ k <= off + sz /\ k \in 1 .. size /\ k - off = j
    BY <1>1, <2>1
  <2>3. PICK i \in 1 .. nc : /\ ChunkOf(k) = fc + i - 1
                             /\ (i - 1) * ChunkSize + PlaceOf(k) = skip + (k - off)
    BY <1>2, <2>2, RangePlace
  <2>4. PlaceOf(k) \in 1 .. Len(cdata[i]) /\ \E v \in S : cdata[i][PlaceOf(k)] = v[k]
    BY <1>6, <2>2, <2>3
  <2>5. PICK at \in Nat : at = PlaceOf(k)
    BY <1>2, <2>2, MaxSizeNat, ByteHasPlace, ChunkSizeAssumption
  <2>6. (i - 1) * ChunkSize + at = skip + j /\ at \in 1 .. Len(cdata[i])
    BY <2>2, <2>3, <2>4, <2>5
  <2>7. ans[j] = cdata[i][at]
    <3>1. nc \in Nat /\ sz \in Nat /\ skip \in Nat
      BY <1>3, <1>4
    <3>2. Answers(cdata, skip, nc, sz, ans)
      BY <1>9
    <3>3. PICK d \in Nat : d = (i - 1) * ChunkSize
      BY <1>3, ChunkSizeAssumption
    <3>4. d + at = skip + j
      BY <2>6, <3>3
    <3>5. d + at > skip /\ d + at - skip <= sz /\ d + at - skip = j
      BY <3>1, <3>4
    <3>6. d + at > skip /\ d + at - skip <= sz => ans[d + at - skip] = cdata[i][at]
      BY <2>6, <3>2, <3>3 DEF Answers
    <3>7. QED
      BY <3>5, <3>6
  <2>8. QED
    BY <2>1, <2>4, <2>5, <2>7
<1>11. QED
  BY <1>9, <1>10 DEF Answers

\* The chunks of the part of a range that lies in the file.
LEMMA RangeWanted ==
  ASSUME NEW size \in 0 .. MaxSize, NEW off \in Nat, NEW len \in Nat \ {0}, off < size
  PROVE  /\ Least(len, size - off) \in Nat \ {0} /\ off + Least(len, size - off) <= size
         /\ FirstChunk(off) .. LastChunk(off, Least(len, size - off)) \subseteq ChunkIdx
<1>1. PICK sz \in Nat \ {0} : sz = Least(len, size - off) /\ off + sz <= size /\ off + sz <= MaxSize
  <2>1. Least(len, size - off) \in Nat \ {0} /\ off + Least(len, size - off) <= size
    BY MaxSizeNat DEF Least
  <2>2. QED
    BY <2>1, MaxSizeNat
<1>2. PICK fc \in ChunkIdx, lc \in ChunkIdx : fc = FirstChunk(off) /\ lc = LastChunk(off, sz)
  BY <1>1, RangeChunks
<1>3. fc .. lc \subseteq ChunkIdx
  BY MaxChunksAssumption DEF ChunkIdx
<1>4. QED
  BY <1>1, <1>2, <1>3
=============================================================================
