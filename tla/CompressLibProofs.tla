--------------------------- MODULE CompressLibProofs ---------------------------
(* compress_file_chunks and decompress_file_chunks invert each other for every *)
(* chunk size and every buffer.                                                 *)
EXTENDS CompressLib, Integers, TLAPS

Bytes == 0 .. 255

-----------------------------------------------------------------------------
(* Arithmetic and sequences *)

\* a divided by n is q with remainder r.
Divides(a, n, q, r) == a \div n = q /\ a % n = r

LEMMA QuotientUnique ==
  ASSUME NEW n \in Nat \ {0}, NEW q \in Nat, NEW r \in 0 .. n - 1, NEW a \in Nat, a = q * n + r
  PROVE  Divides(a, n, q, r)
BY DEF Divides

LEMMA ProductMono ==
  ASSUME NEW i \in Nat, NEW j \in Nat, NEW n \in Nat, i <= j
  PROVE  i * n <= j * n
OBVIOUS

LEMMA ProductNext ==
  ASSUME NEW i \in Nat, NEW n \in Nat
  PROVE  i * n \in Nat /\ (i + 1) * n = i * n + n
OBVIOUS

-----------------------------------------------------------------------------
(* The inductive invariant *)

\* c is chunk number i of the buffer d.
IsPiece(c, d, i) ==
  /\ Len(c) = Shorter(ChunkSize, Len(d) - (i - 1) * ChunkSize)
  /\ \A at \in 1 .. Len(c) : c[at] = d[(i - 1) * ChunkSize + at]

\* The chunks so far are the pieces of the buffer up to processed, none is empty.
Cutting ==
  /\ data \in Seq(Bytes) /\ chunks \in Seq(Seq(Bytes))
  /\ processed = Shorter(Len(chunks) * ChunkSize, Len(data))
  /\ \A i \in 1 .. Len(chunks) : (i - 1) * ChunkSize < Len(data) /\ IsPiece(chunks[i], data, i)

\* The result so far is what the buffer holds from offset on.
Joining ==
  /\ processed = Len(data)
  /\ offset \in Nat /\ offset < ChunkSize /\ offset <= Len(data)
  /\ size \in Nat /\ size <= Len(data)
  /\ next \in 1 .. Len(chunks) + 1
  /\ result \in Seq(Bytes) /\ Len(result) <= size /\ offset + Len(result) <= Len(data)
  /\ \A j \in 1 .. Len(result) : result[j] = data[offset + j]
  /\ Len(result) < size =>
       IF next = 1 THEN Len(result) = 0
       ELSE offset + Len(result) = Shorter((next - 1) * ChunkSize, Len(data))

LibInv ==
  /\ phase \in {"compress", "decompress", "done"}
  /\ Cutting
  /\ IF phase = "compress" THEN next = 1 /\ result = <<>> ELSE Joining
  /\ phase = "done" => next > Len(chunks) \/ Len(result) >= size

\* A part of a sequence that begins behind place base.
Part(s, base, n) == SubSeq(s, base + 1, base + n)

LEMMA PartOf ==
  ASSUME NEW S, NEW s \in Seq(S), NEW base \in Nat, NEW n \in Nat, base + n <= Len(s)
  PROVE  /\ Part(s, base, n) \in Seq(S) /\ Len(Part(s, base, n)) = n
         /\ \A j \in 1 .. n : Part(s, base, n)[j] = s[base + j]
<1>1. PICK from \in Nat, to \in Nat : from = base + 1 /\ to = base + n /\ to <= Len(s) /\ to - from + 1 = n
  OBVIOUS
<1>2. PICK part \in Seq(S) : part = SubSeq(s, from, to) /\ Len(part) = n
  <2>1. SubSeq(s, from, to) \in Seq(S) /\ Len(SubSeq(s, from, to)) = n
    BY <1>1
  <2>2. QED
    BY <2>1
<1>3. ASSUME NEW j \in 1 .. n PROVE part[j] = s[base + j]
  <2>1. part[j] = s[from + j - 1] /\ from + j - 1 = base + j
    BY <1>1, <1>2
  <2>2. QED
    BY <2>1
<1>4. QED
  BY <1>1, <1>2, <1>3 DEF Part

LEMMA Joined ==
  ASSUME NEW S, NEW x \in Seq(S), NEW y \in Seq(S)
  PROVE  /\ x \o y \in Seq(S) /\ Len(x \o y) = Len(x) + Len(y)
         /\ \A j \in 1 .. Len(x) + Len(y) : (x \o y)[j] = IF j <= Len(x) THEN x[j] ELSE y[j - Len(x)]
OBVIOUS

LEMMA SameSeq ==
  ASSUME NEW S, NEW s \in Seq(S), NEW t \in Seq(S), Len(s) = Len(t), \A j \in 1 .. Len(s) : s[j] = t[j]
  PROVE  s = t
OBVIOUS

LEMMA InitInv == Init => LibInv
<1> SUFFICES ASSUME Init PROVE LibInv
  OBVIOUS
<1>1. data \in Seq(Bytes) /\ chunks = <<>> /\ chunks \in Seq(Seq(Bytes)) /\ Len(chunks) = 0
  BY InputsAssumption DEF Init, Bytes
<1>2. processed = Shorter(Len(chunks) * ChunkSize, Len(data))
  <2>1. 0 * ChunkSize = 0 /\ 0 <= Len(data)
    BY <1>1, ChunkSizeAssumption
  <2>2. QED
    BY <1>1, <2>1 DEF Init, Shorter
<1>3. Cutting
  BY <1>1, <1>2 DEF Cutting
<1>4. QED
  BY <1>3 DEF Init, LibInv

LEMMA CutInv ==
  ASSUME LibInv, Cut
  PROVE  LibInv'
<1>1. /\ phase = "compress" /\ processed < Len(data) /\ Cutting /\ next = 1 /\ result = <<>>
      /\ UNCHANGED <<phase, data, offset, size, next, result>>
  BY DEF Cut, LibInv
<1>2. data \in Seq(Bytes) /\ chunks \in Seq(Seq(Bytes)) /\ Len(data) \in Nat /\ ChunkSize \in Nat \ {0}
  BY <1>1, ChunkSizeAssumption DEF Cutting
<1>k. PICK k \in Nat : k = Len(chunks)
  BY <1>2
<1>b. PICK base \in Nat : base = k * ChunkSize
  BY <1>2
<1>l. PICK len \in Nat : len = Len(data)
  BY <1>2
<1>3. processed = base /\ base < len /\ (k + 1) * ChunkSize = base + ChunkSize
  <2>1. processed = Shorter(base, len)
    BY <1>1, <1>k, <1>b, <1>l DEF Cutting
  <2>2. (k + 1) * ChunkSize = base + ChunkSize
    BY <1>2, <1>b, ProductNext
  <2>3. processed = base /\ base < len
    BY <1>1, <1>l, <2>1 DEF Shorter
  <2>4. QED
    BY <2>2, <2>3
<1>4. base % ChunkSize = 0
  <2>1. 0 \in 0 .. ChunkSize - 1 /\ base = k * ChunkSize + 0
    BY <1>2, <1>b
  <2>2. PICK r \in 0 .. ChunkSize - 1 : r = 0 /\ base = k * ChunkSize + r
    BY <2>1
  <2>3. Divides(base, ChunkSize, k, r)
    BY <2>2, ChunkSizeAssumption, QuotientUnique
  <2>4. QED
    BY <2>2, <2>3 DEF Divides
<1>t. PICK take : take = Shorter(ChunkSize, len - base)
  OBVIOUS
<1>5. take \in Nat /\ take >= 1 /\ base + take <= len /\ base + take = Shorter(base + ChunkSize, len)
  <2>1. PICK cs \in Nat \ {0} : cs = ChunkSize
    BY <1>2
  <2>2. take = Shorter(cs, len - base) /\ base < len
    BY <1>3, <1>t, <2>1
  <2>3. take \in Nat /\ take >= 1 /\ base + take <= len /\ base + take = Shorter(base + cs, len)
    BY <2>2 DEF Shorter
  <2>4. QED
    BY <2>1, <2>3
<1>6a. /\ Part(data, base, take) \in Seq(Bytes) /\ Len(Part(data, base, take)) = take
       /\ \A j \in 1 .. take : Part(data, base, take)[j] = data[base + j]
  <2>1. data \in Seq(Bytes) /\ take \in Nat /\ base + take <= Len(data)
    BY <1>2, <1>5, <1>l
  <2>2. QED
    BY <2>1, PartOf
<1>6. PICK part \in Seq(Bytes) : /\ part = Part(data, base, take) /\ Len(part) = take
                                 /\ \A j \in 1 .. take : part[j] = data[base + j]
  BY <1>6a
<1>7. chunks' = Append(chunks, part) /\ processed' = base + take
  <2>1. ChunkSize - (processed % ChunkSize) = ChunkSize
    BY <1>2, <1>3, <1>4
  <2>2. Shorter(ChunkSize - (processed % ChunkSize), Len(data) - processed) = take
    BY <1>3, <1>t, <1>l, <2>1
  <2>3. QED
    BY <1>3, <1>6, <2>2 DEF Cut, Part
<1>8. /\ chunks' \in Seq(Seq(Bytes)) /\ Len(chunks') = k + 1 /\ chunks'[k + 1] = part
      /\ \A i \in 1 .. k : chunks'[i] = chunks[i]
  BY <1>2, <1>7, <1>k
<1>9. ASSUME NEW i \in 1 .. k + 1
      PROVE  (i - 1) * ChunkSize < len /\ IsPiece(chunks'[i], data, i)
  <2>1. CASE i = k + 1
    <3>1. (i - 1) * ChunkSize = base
      <4>1. i - 1 = k
        BY <2>1
      <4>2. QED
        BY <1>b, <4>1
    <3>2. QED
      BY <1>3, <1>6, <1>8, <1>t, <1>l, <2>1, <3>1 DEF IsPiece
  <2>2. CASE i # k + 1
    <3>1. i \in 1 .. k
      BY <2>2
    <3>2. QED
      BY <1>1, <1>8, <1>k, <1>l, <3>1 DEF Cutting
  <2>3. QED
    BY <2>1, <2>2
<1>10. Cutting'
  <2>1. processed' = Shorter((k + 1) * ChunkSize, len)
    BY <1>3, <1>5, <1>7
  <2>2. QED
    BY <1>1, <1>2, <1>8, <1>9, <1>l, <2>1 DEF Cutting
<1>11. QED
  BY <1>1, <1>10 DEF LibInv

LEMMA AskInv ==
  ASSUME LibInv, Ask
  PROVE  LibInv'
<1>1. /\ phase = "compress" /\ processed = Len(data) /\ Cutting /\ next = 1 /\ result = <<>>
      /\ phase' = "decompress" /\ UNCHANGED <<data, processed, chunks, next, result>>
  BY DEF Ask, LibInv
<1>2. offset' \in {o \in 0 .. Len(data) : o < ChunkSize} /\ size' \in 0 .. Len(data)
  BY DEF Ask
<1>3. data \in Seq(Bytes) /\ chunks \in Seq(Seq(Bytes))
  BY <1>1 DEF Cutting
<1>4. Cutting'
  BY <1>1 DEF Cutting, IsPiece
<1>5. Joining'
  <2>1. Len(result) = 0 /\ result \in Seq(Bytes) /\ next \in 1 .. Len(chunks) + 1
    BY <1>1, <1>3
  <2>2. offset' \in Nat /\ offset' < ChunkSize /\ offset' <= Len(data) /\ size' \in Nat /\ size' <= Len(data)
    BY <1>2, <1>3
  <2>3. offset' + Len(result) <= Len(data) /\ Len(result) <= size'
    BY <2>1, <2>2
  <2>4. QED
    BY <1>1, <2>1, <2>2, <2>3 DEF Joining
<1>6. QED
  BY <1>1, <1>4, <1>5 DEF LibInv

\* Where the loop of decompress_file_chunks stands: in the chunk it is at, and at
\* a place that this chunk reaches.
Stands(pos, at, base) ==
  /\ base = (next - 1) * ChunkSize /\ pos = base + at /\ pos \in Nat
  /\ at < ChunkSize /\ at <= Len(chunks[next])
  /\ pos % ChunkSize = at /\ pos \div ChunkSize = next - 1
  /\ chunks[next] \in Seq(Bytes)
  /\ base + Len(chunks[next]) = Shorter(next * ChunkSize, Len(data))
  /\ \A j \in 1 .. Len(chunks[next]) : chunks[next][j] = data[base + j]

LEMMA Standing ==
  ASSUME Cutting, Joining, next <= Len(chunks), Len(result) < size,
         NEW pos, pos = offset + Len(result)
  PROVE  \E at \in Nat, base \in Nat : Stands(pos, at, base)
<1>1. /\ data \in Seq(Bytes) /\ chunks \in Seq(Seq(Bytes)) /\ ChunkSize \in Nat \ {0} /\ Len(data) \in Nat
      /\ next \in 1 .. Len(chunks) /\ next \in Nat /\ next - 1 \in Nat /\ Len(result) \in Nat /\ offset \in Nat
      /\ offset < ChunkSize /\ offset <= Len(data)
  <2>1. data \in Seq(Bytes) /\ chunks \in Seq(Seq(Bytes)) /\ ChunkSize \in Nat \ {0} /\ Len(data) \in Nat
    BY ChunkSizeAssumption DEF Cutting
  <2>2. /\ next \in 1 .. Len(chunks) + 1 /\ result \in Seq(Bytes) /\ offset \in Nat
        /\ offset < ChunkSize /\ offset <= Len(data)
    BY DEF Joining
  <2>3. next \in 1 .. Len(chunks) /\ next \in Nat /\ next - 1 \in Nat
    BY <2>1, <2>2
  <2>4. QED
    BY <2>1, <2>2, <2>3
<1>2. PICK q \in Nat : q = next - 1 /\ next = q + 1
  BY <1>1
<1>3. PICK base \in Nat : base = q * ChunkSize /\ next * ChunkSize = base + ChunkSize
  BY <1>1, <1>2, ProductNext
<1>4. base < Len(data) /\ IsPiece(chunks[next], data, next)
  BY <1>1, <1>2, <1>3 DEF Cutting
<1>5. PICK c \in Seq(Bytes) : c = chunks[next]
  BY <1>1
<1>6. /\ Len(c) = Shorter(ChunkSize, Len(data) - base)
      /\ \A j \in 1 .. Len(c) : c[j] = data[base + j]
  BY <1>2, <1>3, <1>4, <1>5 DEF IsPiece
<1>7. base + Len(c) = Shorter(base + ChunkSize, Len(data))
  BY <1>1, <1>4, <1>6 DEF Shorter
<1>8. PICK at \in Nat : pos = base + at /\ at < ChunkSize /\ at <= Len(c)
  <2>1. CASE q = 0
    <3>1. base = 0 /\ Len(result) = 0
      BY <1>1, <1>2, <1>3, <2>1 DEF Joining
    <3>2. pos = base + offset /\ offset <= Len(c)
      BY <1>1, <1>6, <3>1 DEF Shorter
    <3>3. QED
      BY <1>1, <3>2
  <2>2. CASE q # 0
    <3>1. pos = Shorter(base, Len(data))
      BY <1>2, <1>3, <2>2 DEF Joining
    <3>2. pos = base
      BY <1>1, <1>4, <3>1 DEF Shorter
    <3>3. Len(c) \in Nat /\ 0 < ChunkSize
      BY <1>1
    <3>4. QED
      BY <3>2, <3>3
  <2>3. QED
    BY <2>1, <2>2
<1>9. pos % ChunkSize = at /\ pos \div ChunkSize = q /\ pos \in Nat
  <2>1. at \in 0 .. ChunkSize - 1 /\ pos \in Nat
    BY <1>1, <1>8
  <2>2. pos = q * ChunkSize + at
    BY <1>3, <1>8
  <2>3. ChunkSize \in Nat \ {0}
    BY <1>1
  <2>4. Divides(pos, ChunkSize, q, at)
    BY <2>1, <2>2, <2>3, QuotientUnique
  <2>5. QED
    BY <2>1, <2>4 DEF Divides
<1>10. /\ chunks[next] \in Seq(Bytes)
       /\ base + Len(chunks[next]) = Shorter(next * ChunkSize, Len(data))
       /\ \A j \in 1 .. Len(chunks[next]) : chunks[next][j] = data[base + j]
  BY <1>3, <1>5, <1>6, <1>7
<1>11. Stands(pos, at, base)
  BY <1>2, <1>3, <1>5, <1>8, <1>9, <1>10, Zenon DEF Stands
<1>12. QED
  BY <1>11

LEMMA CopyInv ==
  ASSUME LibInv, Copy
  PROVE  LibInv'
<1>1. /\ phase = "decompress" /\ next <= Len(chunks) /\ Len(result) < size
      /\ Cutting /\ Joining /\ next' = next + 1
      /\ UNCHANGED <<phase, data, processed, chunks, offset, size>>
  BY DEF Copy, LibInv
<1>o. PICK pos : pos = offset + Len(result)
  OBVIOUS
<1>s. PICK at \in Nat, base \in Nat : Stands(pos, at, base)
  BY <1>1, <1>o, Standing
<1>2. /\ pos = base + at /\ pos \in Nat
      /\ at < ChunkSize /\ at <= Len(chunks[next])
      /\ pos % ChunkSize = at
      /\ chunks[next] \in Seq(Bytes)
      /\ base + Len(chunks[next]) = Shorter(next * ChunkSize, Len(data))
      /\ \A j \in 1 .. Len(chunks[next]) : chunks[next][j] = data[base + j]
  BY <1>s DEF Stands
<1>3. PICK c \in Seq(Bytes) : c = chunks[next]
  BY <1>2
<1>4. /\ data \in Seq(Bytes) /\ result \in Seq(Bytes) /\ offset \in Nat /\ size \in Nat /\ next \in 1 .. Len(chunks)
      /\ Len(chunks) \in Nat /\ ChunkSize \in Nat /\ size <= Len(data)
  BY <1>1, ChunkSizeAssumption DEF Cutting, Joining
<1>l. PICK len \in Nat, h \in Nat : len = Len(c) /\ h = Len(result) /\ at <= len /\ h < size
  BY <1>1, <1>2, <1>3, <1>4
<1>n. PICK n : n = Shorter(len - at, size - h)
  OBVIOUS
<1>5. /\ n \in Nat /\ at + n <= len /\ h + n <= size
      /\ at + n = len \/ h + n = size
  BY <1>4, <1>l, <1>n DEF Shorter
<1>6a. /\ Part(c, at, n) \in Seq(Bytes) /\ Len(Part(c, at, n)) = n
       /\ \A j \in 1 .. n : Part(c, at, n)[j] = c[at + j]
  <2>1. at \in Nat /\ n \in Nat /\ at + n <= Len(c)
    BY <1>5, <1>l
  <2>2. QED
    BY <2>1, PartOf
<1>6. PICK part \in Seq(Bytes) : /\ part = Part(c, at, n) /\ Len(part) = n
                                 /\ \A j \in 1 .. n : part[j] = c[at + j]
  BY <1>6a
<1>7. result' = result \o part
  BY <1>2, <1>3, <1>6, <1>l, <1>n, <1>o DEF Copy, Part
<1>8. /\ result' \in Seq(Bytes) /\ Len(result') = h + n
      /\ \A j \in 1 .. h + n : result'[j] = IF j <= h THEN result[j] ELSE part[j - h]
  <2>1. /\ result \o part \in Seq(Bytes) /\ Len(result \o part) = Len(result) + Len(part)
        /\ \A j \in 1 .. Len(result) + Len(part) :
              (result \o part)[j] = IF j <= Len(result) THEN result[j] ELSE part[j - Len(result)]
    BY <1>4, <1>6, Joined
  <2>2. QED
    BY <1>6, <1>7, <1>l, <2>1
<1>9. base + len <= Len(data) /\ base + len = Shorter(next * ChunkSize, Len(data))
  <2>1. PICK e \in Nat : e = next * ChunkSize
    BY <1>4
  <2>2. PICK d \in Nat : d = Len(data)
    BY <1>4
  <2>3. base + len = Shorter(e, d)
    BY <1>2, <1>3, <1>l, <2>1, <2>2
  <2>4. base + len <= d
    BY <2>3 DEF Shorter
  <2>5. QED
    BY <2>1, <2>2, <2>3, <2>4
<1>p. offset + h = base + at
  BY <1>2, <1>l, <1>o
<1>10. ASSUME NEW j \in 1 .. h + n PROVE result'[j] = data[offset + j]
  <2>1. CASE j <= h
    <3>1. j \in 1 .. Len(result)
      BY <1>l, <2>1
    <3>2. QED
      BY <1>1, <1>8, <2>1, <3>1 DEF Joining
  <2>2. CASE ~(j <= h)
    <3>1. PICK i \in 1 .. n : i = j - h
      <4>1. j - h \in 1 .. n
        BY <1>5, <2>2
      <4>2. QED
        BY <4>1
    <3>2. at + i \in 1 .. len /\ base + (at + i) = offset + j
      BY <1>4, <1>5, <1>p, <3>1
    <3>3. c[at + i] = data[base + (at + i)]
      BY <1>2, <1>3, <1>l, <3>2
    <3>4. result'[j] = part[i] /\ part[i] = c[at + i]
      BY <1>6, <1>8, <2>2, <3>1
    <3>5. QED
      BY <3>2, <3>3, <3>4
  <2>3. QED
    BY <2>1, <2>2
<1>q. offset + (h + n) = base + (at + n)
  BY <1>4, <1>5, <1>p
<1>11. offset + Len(result') <= Len(data) /\ Len(result') <= size
  <2>1. Len(data) \in Nat
    BY <1>4
  <2>2. base + (at + n) <= Len(data)
    BY <1>5, <1>9, <2>1
  <2>3. QED
    BY <1>5, <1>8, <1>q, <2>2
<1>12. Len(result') < size => offset + Len(result') = Shorter(next * ChunkSize, Len(data))
  <2>1. ASSUME h + n < size PROVE offset + (h + n) = base + len
    BY <1>4, <1>5, <1>q, <2>1
  <2>2. QED
    BY <1>8, <1>9, <2>1
<1>13. next' # 1 /\ next' - 1 = next /\ next' \in 1 .. Len(chunks) + 1
  BY <1>1, <1>4
<1>14. Joining'
  BY <1>1, <1>8, <1>10, <1>11, <1>12, <1>13 DEF Joining
<1>15. Cutting'
  BY <1>1 DEF Cutting, IsPiece
<1>16. QED
  BY <1>1, <1>14, <1>15 DEF LibInv

LEMMA AnswerInv ==
  ASSUME LibInv, Answer
  PROVE  LibInv'
<1>1. /\ phase = "decompress" /\ (next > Len(chunks) \/ Len(result) >= size) /\ phase' = "done"
      /\ Cutting /\ Joining /\ UNCHANGED <<data, processed, chunks, offset, size, next, result>>
  BY DEF Answer, LibInv
<1>2. Cutting' /\ Joining'
  BY <1>1 DEF Cutting, Joining, IsPiece
<1>3. QED
  BY <1>1, <1>2 DEF LibInv

\* What both loops keep for every chunk size, buffer and range: the chunks are the
\* pieces of the buffer, and the result is what the buffer holds from offset on.
THEOREM LibInvariant == Spec => []LibInv
<1>1. LibInv /\ [Next]_vars => LibInv'
  <2> SUFFICES ASSUME LibInv, [Next]_vars PROVE LibInv'
    OBVIOUS
  <2>1. CASE UNCHANGED vars
    BY <2>1 DEF vars, LibInv, Cutting, Joining, IsPiece
  <2>2. QED
    BY <2>1, CutInv, AskInv, CopyInv, AnswerInv DEF Next
<1>2. QED
  BY <1>1, InitInv, PTL DEF Spec

\* decompress_file_chunks copies from the chunk that holds the byte it needs next,
\* and its decompressed.size() - offset_in_chunk is never negative.
THEOREM CopiesInPlace == Spec => []InPlace
<1>1. LibInv => InPlace
  <2> SUFFICES ASSUME LibInv, phase = "decompress", next <= Len(chunks), Len(result) < size
               PROVE  /\ (offset + Len(result)) % ChunkSize <= Len(chunks[next])
                      /\ next = (offset + Len(result)) \div ChunkSize + 1
    BY DEF InPlace
  <2>1. Cutting /\ Joining /\ next \in Int
    BY DEF LibInv, Joining, Cutting
  <2>2. PICK pos : pos = offset + Len(result)
    OBVIOUS
  <2>3. PICK at \in Nat, base \in Nat : Stands(pos, at, base)
    BY <2>1, <2>2, Standing
  <2>4. at <= Len(chunks[next]) /\ pos % ChunkSize = at /\ pos \div ChunkSize = next - 1
    BY <2>3 DEF Stands
  <2>5. next = next - 1 + 1
    BY <2>1
  <2>6. QED
    BY <2>2, <2>4, <2>5
<1>2. QED
  BY <1>1, LibInvariant, PTL

\* decompress_file_chunks returns the bytes that compress_file_chunks was given.
THEOREM ChunksRoundTrip == Spec => []RoundTrip
<1>1. LibInv => RoundTrip
  <2> SUFFICES ASSUME LibInv, phase = "done"
               PROVE  result = SubSeq(data, offset + 1, Shorter(offset + size, Len(data)))
    BY DEF RoundTrip
  <2>1. Cutting /\ Joining /\ (next > Len(chunks) \/ Len(result) >= size)
    BY DEF LibInv
  <2>2. /\ data \in Seq(Bytes) /\ chunks \in Seq(Seq(Bytes)) /\ result \in Seq(Bytes)
        /\ offset \in Nat /\ size \in Nat /\ Len(result) \in Nat /\ Len(data) \in Nat
        /\ Len(result) <= size /\ offset + Len(result) <= Len(data)
        /\ next \in 1 .. Len(chunks) + 1 /\ Len(chunks) \in Nat
    BY <2>1 DEF Cutting, Joining
  <2>l. PICK h \in Nat, d \in Nat : h = Len(result) /\ d = Len(data)
    BY <2>2
  <2>3. offset + Len(result) = Shorter(offset + size, Len(data))
    <3>1. CASE Len(result) >= size
      <4>1. h = size /\ offset + h <= d
        BY <2>2, <2>l, <3>1
      <4>2. offset + h = Shorter(offset + size, d)
        BY <2>2, <4>1 DEF Shorter
      <4>3. QED
        BY <2>l, <4>2
    <3>2. CASE Len(result) < size
      <4>1. next = Len(chunks) + 1
        BY <2>1, <2>2, <3>2
      <4>2. Shorter(Len(chunks) * ChunkSize, Len(data)) = Len(data)
        BY <2>1 DEF Cutting, Joining
      <4>3. next # 1
        <5>1. ASSUME Len(chunks) = 0 PROVE Len(data) = 0
          <6>1. Len(chunks) * ChunkSize = 0
            BY <5>1, ChunkSizeAssumption
          <6>2. QED
            BY <2>2, <4>2, <6>1 DEF Shorter
        <5>2. size <= Len(data)
          BY <2>1 DEF Joining
        <5>3. QED
          BY <2>2, <3>2, <4>1, <5>1, <5>2
      <4>4. next - 1 = Len(chunks)
        BY <2>2, <4>1
      <4>5. offset + Len(result) = Len(data)
        BY <2>1, <3>2, <4>2, <4>3, <4>4 DEF Joining
      <4>6. QED
        <5>1. h < size /\ offset + h = d
          BY <2>l, <3>2, <4>5
        <5>2. ~(offset + size <= d)
          BY <2>2, <5>1
        <5>3. QED
          BY <2>l, <5>1, <5>2 DEF Shorter
    <3>3. QED
      BY <2>2, <3>1, <3>2
  <2>4a. /\ Part(data, offset, h) \in Seq(Bytes) /\ Len(Part(data, offset, h)) = h
         /\ \A j \in 1 .. h : Part(data, offset, h)[j] = data[offset + j]
    <3>1. data \in Seq(Bytes) /\ offset \in Nat /\ offset + h <= Len(data)
      BY <2>2, <2>l
    <3>2. QED
      BY <3>1, PartOf
  <2>4. PICK part \in Seq(Bytes) : /\ part = Part(data, offset, h) /\ Len(part) = h
                                   /\ \A j \in 1 .. h : part[j] = data[offset + j]
    BY <2>4a
  <2>5. \A j \in 1 .. h : result[j] = part[j]
    BY <2>1, <2>4, <2>l DEF Joining
  <2>6. result = part
    BY <2>2, <2>4, <2>5, <2>l, SameSeq
  <2>7. QED
    BY <2>3, <2>4, <2>6, <2>l DEF Part
<1>2. QED
  BY <1>1, LibInvariant, PTL
=============================================================================
