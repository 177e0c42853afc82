--------------------------- MODULE FuseStoreProofs ---------------------------
(* Proofs about FuseStore: what the disk holds of the contents that the        *)
(* answers have promised, also after crashes, and what reads show of them.     *)
EXTENDS FuseOpsProofs, FuseStore

-----------------------------------------------------------------------------
(* The bytes of the files: what the disk holds of what was promised. *)

\* What is promised of id is known.
Known(id) == bytes[id] \notin {NoFile, Unknown}

\* No file that the first mount finds ends in a hole.
NoHoles == InitSize = Len(InitBytes)

\* A chunk file that holds data stands for v at place at: it holds v there, or v is 0 and it is shorter;
\* without holes the first.
Here(data, at, v) == ByteAt(data, at) = v /\ (NoHoles => at <= Len(data))

\* The chunk files show byte k of contents c; a chunk that is not counted is not there.
Shows(chunk, n, c, k) ==
  /\ Here(chunk[ChunkOf(k)], PlaceOf(k), c[k])
  /\ ChunkOf(k) >= n => chunk[ChunkOf(k)] = <<>>

\* A file with metadata m and these chunk files has the contents c.
HoldsBytes(m, chunk, c) == m.size = Len(c) /\ \A k \in 1 .. Len(c) : Shows(chunk, m.n, c, k)

\* What is stored for id.
StoredBytes(id) ==
  /\ Stored(id) => metaFile[id].id \in {id, NoId}
  /\ bytes[id] = NoFile => ~Stored(id)
  /\ Known(id) =>
       /\ bytes[id] \in Seq(Byte) /\ Stored(id) /\ Sound(metaFile[id], id)
       /\ metaFile[id].size = Len(bytes[id])
       /\ (\A t \in Threads : ~Changes(t, id)) => HoldsBytes(metaFile[id], chunkFile[id], bytes[id])

\* What the loop of cfs_write has done so far: the chunks before ci hold the new bytes, the others
\* the old ones.
Written(chunk, f, old, new) ==
  \A k \in 1 .. Len(new) :
    IF ChunkOf(k) < f.ci THEN Here(chunk[ChunkOf(k)], PlaceOf(k), new[k])
    ELSE k <= Len(old) => Shows(chunk, f.m.n, old, k)

\* Places at which the metadata that a handler has loaded is compared with what is promised.
Loaded == {"chunk", "trim", "save", "rename_save", "chmod_save"}

\* What the metadata that a handler has loaded is worth, when the chunk files of its file are chunk and
\* old is promised of it.
Worth(label, f, chunk, old) ==
  /\ label = "create_save" => f.m.id = f.id /\ f.m.words % 2 = 1 /\ f.m.size = 0
  /\ label \in Loaded => /\ f.m.id \in {f.id, NoId}
                         /\ old = NoFile => f.m.id = NoId
  /\ label \in Loaded /\ old \notin {NoFile, Unknown} =>
       LET new == After(f.req, old)
       IN /\ Sound(f.m, f.id)
          /\ label = "chunk" => f.m.size = Len(old) /\ (new # Unknown => Written(chunk, f, old, new))
          /\ label \in {"trim", "rename_save", "chmod_save"} => HoldsBytes(f.m, chunk, old)
          /\ label = "save" /\ new # Unknown => HoldsBytes(f.m, chunk, new)

\* The same for handler t as it stands.
BytesLocals(t) == Worth(pc[t], frame[t], chunkFile[frame[t].id], bytes[frame[t].id])

\* The disk and the local variables of all handlers agree with what is promised.
BytesOK == (\A id \in Ids : StoredBytes(id)) /\ (\A t \in Threads : BytesLocals(t))

\* No file is promised to hold what a chunk file that was not finished is taken for.
Clean(data) == \A k \in 1 .. Len(data) : data[k] # Garbage
CleanInv == \A id \in Ids : Known(id) => Clean(bytes[id])

\* What is known before a step, also after a crash.
Ready == PathsReadBack /\ Orderly /\ BytesOK /\ CleanInv

-----------------------------------------------------------------------------
(* What a step does to the promised bytes.                                     *)

\* The promises move on as FuseStore says.
Promises == bytes' = [id \in Ids |-> NextBytes(id)]

\* Places at which a step changes what is promised of a file.
Promising == {"create_save", "unlink_meta", "chunk", "trim", "save"}

\* The steps of t leave no place of another handler.
LEMMA OthersStayPut ==
  ASSUME NEW t \in Threads, OthersStay(t), NEW u \in Threads \ {t}, NEW label
  PROVE  ~Left(u, label) /\ <<pc'[u], frame'[u]>> = <<pc[u], frame[u]>>
BY DEF OthersStay, Left

\* A step that does not end a write, a cut, a creation or a removal of id leaves its promise alone.
LEMMA PromiseKept ==
  ASSUME NEW t \in Threads, OthersStay(t), UNCHANGED crashes, Promises, NEW id \in Ids,
         pc[t] \in Promising => frame[t].id # id,
         pc[t] = "rename_erase" => frame[t].eid # id
  PROVE  bytes'[id] = bytes[id]
<1>1. bytes'[id] = NextBytes(id)
  BY DEF Promises
<1>2. ~\E u \in Threads : Left(u, "create_save") /\ frame[u].id = id
  BY OthersStayPut DEF Left, Promising
<1>3. ~\E u \in Threads : \/ Left(u, "unlink_meta") /\ frame[u].id = id
                          \/ Left(u, "rename_erase") /\ frame[u].eid = id
  BY OthersStayPut DEF Left, Promising
<1>4. ~\E u \in Writers(id) : Left(u, "save")
  BY OthersStayPut DEF Left, Promising, Writers
<1>5. ~\E u \in Writers(id) : <<pc'[u], frame'[u]>> # <<pc[u], frame[u]>>
  BY OthersStayPut DEF Promising, Writers
<1>6. QED
  BY <1>1, <1>2, <1>3, <1>4, <1>5 DEF NextBytes

\* cfs_create promises an empty file once its metadata is saved.
LEMMA PromiseCreated ==
  ASSUME NEW t \in Threads, OthersStay(t), UNCHANGED crashes, Promises, NEW id \in Ids,
         Left(t, "create_save"), frame[t].id = id
  PROVE  bytes'[id] = <<>>
<1>1. bytes'[id] = NextBytes(id)
  BY DEF Promises
<1>2. \E u \in Threads : Left(u, "create_save") /\ frame[u].id = id
  OBVIOUS
<1>3. ~\E u \in Threads : \/ Left(u, "unlink_meta") /\ frame[u].id = id
                          \/ Left(u, "rename_erase") /\ frame[u].eid = id
  BY OthersStayPut DEF Left
<1>4. ~\E u \in Writers(id) : Left(u, "save")
  BY OthersStayPut DEF Left, Writers
<1>5. ~\E u \in Writers(id) : <<pc'[u], frame'[u]>> # <<pc[u], frame[u]>>
  BY OthersStayPut DEF Left, Writers
<1>6. QED
  BY <1>1, <1>2, <1>3, <1>4, <1>5 DEF NextBytes

\* The removal of the metadata takes the file away.
LEMMA PromiseRemoved ==
  ASSUME NEW t \in Threads, OthersStay(t), UNCHANGED crashes, Promises, NEW id \in Ids,
         \/ Left(t, "unlink_meta") /\ frame[t].id = id
         \/ Left(t, "rename_erase") /\ frame[t].eid = id
  PROVE  bytes'[id] = NoFile
<1>1. bytes'[id] = NextBytes(id)
  BY DEF Promises
<1>2. ~\E u \in Threads : Left(u, "create_save") /\ frame[u].id = id
  BY OthersStayPut DEF Left
<1>3. \E u \in Threads : \/ Left(u, "unlink_meta") /\ frame[u].id = id
                         \/ Left(u, "rename_erase") /\ frame[u].eid = id
  OBVIOUS
<1>4. ~\E u \in Writers(id) : Left(u, "save")
  BY OthersStayPut DEF Left, Writers
<1>5. ~\E u \in Writers(id) : <<pc'[u], frame'[u]>> # <<pc[u], frame[u]>>
  BY OthersStayPut DEF Left, Writers
<1>6. QED
  BY <1>1, <1>2, <1>3, <1>4, <1>5 DEF NextBytes

\* The save at the end of a locked handler promises what its request makes of the contents.
LEMMA PromiseWritten ==
  ASSUME NEW t \in Threads, OthersStay(t), UNCHANGED <<crashes, faults>>, Promises, NEW id \in Ids,
         Left(t, "save"), frame[t].id = id
  PROVE  bytes'[id] = After(frame[t].req, bytes[id])
<1>1. bytes'[id] = NextBytes(id)
  BY DEF Promises
<1>2. ~\E u \in Threads : Left(u, "create_save") /\ frame[u].id = id
  BY OthersStayPut DEF Left
<1>3. ~\E u \in Threads : \/ Left(u, "unlink_meta") /\ frame[u].id = id
                          \/ Left(u, "rename_erase") /\ frame[u].eid = id
  BY OthersStayPut DEF Left
<1>4. t \in Writers(id) /\ \A u \in Writers(id) : Left(u, "save") => u = t
  BY OthersStayPut DEF Left, Writers
<1>5. (CHOOSE u \in Writers(id) : Left(u, "save")) = t
  BY <1>4
<1>6. ~(faults' # faults)
  OBVIOUS
<1>7. NextBytes(id) = Result(CHOOSE u \in Writers(id) : Left(u, "save"))
  BY <1>2, <1>3, <1>4, <1>6 DEF NextBytes
<1>8. QED
  BY <1>1, <1>5, <1>7 DEF Result

\* While the chunks are written or cut nothing new is promised; a fault takes the promise back.
LEMMA PromiseWaits ==
  ASSUME NEW t \in Threads, OthersStay(t), UNCHANGED crashes, Promises, NEW id \in Ids,
         pc[t] \in {"chunk", "trim"}, frame[t].id = id, <<pc'[t], frame'[t]>> # <<pc[t], frame[t]>>
  PROVE  bytes'[id] = IF faults' = faults THEN bytes[id] ELSE Unknown
<1>1. bytes'[id] = NextBytes(id)
  BY DEF Promises
<1>2. ~\E u \in Threads : Left(u, "create_save") /\ frame[u].id = id
  BY OthersStayPut DEF Left
<1>3. ~\E u \in Threads : \/ Left(u, "unlink_meta") /\ frame[u].id = id
                          \/ Left(u, "rename_erase") /\ frame[u].eid = id
  BY OthersStayPut DEF Left
<1>4. ~\E u \in Writers(id) : Left(u, "save")
  BY OthersStayPut DEF Left, Writers
<1>5. \E u \in Writers(id) : <<pc'[u], frame'[u]>> # <<pc[u], frame[u]>>
  BY DEF Writers
<1>6. QED
  BY <1>1, <1>2, <1>3, <1>4, <1>5 DEF NextBytes

-----------------------------------------------------------------------------
\* A step of t that changes what is on disk or promised of x, and of no other file.
LEMMA BytesStep ==
  ASSUME TypeInv, BytesOK, NEW t \in Threads, OthersStay(t), NEW x,
         \A id \in Ids \ {x} : /\ UNCHANGED <<chunkFile[id], bytes[id], metaFile[id]>>
                               /\ Changes(t, id) => Changes(t, id)',
         Private(t, x) \/ (chunkFile'[x] = chunkFile[x] /\ bytes'[x] \in {bytes[x], Unknown}),
         x \in Ids => StoredBytes(x)', BytesLocals(t)'
  PROVE  BytesOK'
<1>1. ASSUME NEW u \in Threads \ {t} PROVE BytesLocals(u)'
  <2> PICK id : id = frame[u].id
    OBVIOUS
  <2>1. pc'[u] = pc[u] /\ frame'[u] = frame[u] /\ Worth(pc[u], frame[u], chunkFile[id], bytes[id])
    BY DEF OthersStay, BytesOK, BytesLocals
  <2>2. SUFFICES Worth(pc[u], frame[u], chunkFile'[id], bytes'[id])
    BY <2>1 DEF BytesLocals
  <2>3. CASE pc[u] \notin Loaded
    BY <2>1, <2>3 DEF Worth
  <2>4. CASE pc[u] \in Loaded
    <3>1. id \in Ids
      BY <2>4, InHandler DEF Loaded
    <3>2. Private(t, x) => id # x
      BY <2>4 DEF Private, Knows, Loaded
    <3>3. chunkFile'[id] = chunkFile[id] /\ bytes'[id] \in {bytes[id], Unknown}
      BY <3>1, <3>2
    <3>4. CASE bytes'[id] = Unknown
      BY <2>1, <2>4, <3>3, <3>4, HistoryAssumption DEF Worth, Loaded
    <3>5. QED
      BY <2>1, <3>3, <3>4
  <2>5. QED
    BY <2>3, <2>4
<1>2. ASSUME NEW id \in Ids \ {x} PROVE StoredBytes(id)'
  <2>1. StoredBytes(id) /\ (Stored(id)' <=> Stored(id)) /\ (Known(id)' <=> Known(id))
    BY DEF BytesOK, Stored, Known
  <2>2. (\A u \in Threads : ~Changes(u, id)') => \A u \in Threads : ~Changes(u, id)
    BY DEF OthersStay, Changes
  <2>3. QED
    BY <2>1, <2>2 DEF StoredBytes
<1>3. QED
  BY <1>1, <1>2 DEF BytesOK

\* A step that changes nothing on disk and promises nothing.
LEMMA BytesQuiet ==
  ASSUME TypeInv, BytesOK, NEW t \in Threads, OthersStay(t), UNCHANGED <<crashes, metaFile, chunkFile>>, Promises,
         pc[t] \notin Promising \cup {"rename_erase"}, BytesLocals(t)'
  PROVE  BytesOK'
<1>1. PICK x : x \notin Ids /\ Private(t, x)
  <2>1. Private(t, NoId)
    <3> SUFFICES ASSUME NEW u \in Threads \ {t}, pc[u] \in Knows
                 PROVE  frame[u].id # NoId /\ ~Replaces(u, NoId)
      BY DEF Private
    <3>1. HandlerOK(u)
      BY InHandler DEF Knows
    <3>2. QED
      BY <3>1, NoIdAssumption DEF HandlerOK, Replaces
  <2>2. QED
    BY <2>1, NoIdAssumption
<1>2. ASSUME NEW id \in Ids
      PROVE UNCHANGED <<chunkFile[id], bytes[id], metaFile[id]>> /\ ~Changes(t, id)
  BY PromiseKept DEF Changes, Promising
<1>3. QED
  BY <1>1, <1>2, BytesStep

\* Places at which the local variables are not compared with what is promised.
LEMMA NothingLoaded ==
  ASSUME NEW t, pc'[t] \notin Loaded \cup {"create_save"}
  PROVE  BytesLocals(t)'
BY DEF BytesLocals, Worth

-----------------------------------------------------------------------------
(* What the requests make of the bytes. *)

\* cfs_write: the buffer from its offset on, the old bytes elsewhere.
LEMMA OverwrittenBytes ==
  ASSUME NEW old \in Seq(Byte), NEW off \in Nat, off <= Len(old), NEW buf \in Seq(Byte)
  PROVE  LET new == Overwritten(old, off, buf)  end == off + Len(buf)
         IN /\ new \in Seq(Byte) /\ Len(new) = Greatest(Len(old), end)
            /\ \A k \in 1 .. Len(new) : /\ off < k /\ k <= end => new[k] = buf[k - off]
                                        /\ ~(off < k /\ k <= end) => k <= Len(old) /\ new[k] = old[k]
<1> PICK n \in Nat : n = Len(old)
  OBVIOUS
<1> PICK len \in Nat : len = Len(buf)
  OBVIOUS
<1> PICK end \in Nat : end = off + len
  OBVIOUS
<1> PICK m \in Nat : m = (IF end > n THEN end ELSE n)
  OBVIOUS
<1> PICK new : new = Overwritten(old, off, buf)
  OBVIOUS
<1>1. new = [k \in 1 .. m |-> IF off < k /\ k <= end THEN buf[k - off] ELSE IF k <= n THEN old[k] ELSE 0]
  BY DEF Overwritten
<1>2. ASSUME NEW k \in 1 .. m
      PROVE  /\ off < k /\ k <= end => k - off \in 1 .. len
             /\ ~(off < k /\ k <= end) => k \in 1 .. n
  OBVIOUS
<1>3. ASSUME NEW k \in 1 .. m
      PROVE  /\ off < k /\ k <= end => new[k] = buf[k - off] /\ new[k] \in Byte
             /\ ~(off < k /\ k <= end) => k <= n /\ new[k] = old[k] /\ new[k] \in Byte
  BY <1>1, <1>2
<1>4. new \in [1 .. m -> Byte]
  BY <1>1, <1>3
<1>5. new \in Seq(Byte) /\ Len(new) = m
  BY <1>1, <1>4, FunctionIsSeq
<1>6. m = Greatest(n, end)
  BY DEF Greatest
<1>7. QED
  BY <1>3, <1>5, <1>6

\* cfs_truncate to no more than the old size: the first bytes.
LEMMA ResizedBytes ==
  ASSUME NEW old \in Seq(Byte), NEW n \in Nat, n <= Len(old)
  PROVE  /\ Resized(old, n) \in Seq(Byte) /\ Len(Resized(old, n)) = n
         /\ \A k \in 1 .. n : Resized(old, n)[k] = old[k]
<1> PICK new : new = Resized(old, n)
  OBVIOUS
<1>1. new = [k \in 1 .. n |-> IF k <= Len(old) THEN old[k] ELSE 0]
  BY DEF Resized
<1>2. \A k \in 1 .. n : new[k] = old[k] /\ new[k] \in Byte
  BY <1>1
<1>3. new \in [1 .. n -> Byte]
  BY <1>1, <1>2
<1>4. QED
  BY <1>1, <1>2, <1>3, FunctionIsSeq

\* The contents that the answers of write, truncate and utimens promise.
LEMMA AfterBytes ==
  ASSUME NEW r \in Requests, r.op \in {"write", "truncate", "utimens"}, NEW old \in Seq(Byte),
         NEW new, new = After(r, old), new # Unknown
  PROVE  /\ new \in Seq(Byte)
         /\ r.op = "utimens" => new = old
         /\ r.op # "utimens" => r.off \in Nat /\ r.off <= Len(old)
         /\ r.op = "write" => new = Overwritten(old, r.off, r.buf) /\ r.buf \in Seq(Byte)
         /\ r.op = "truncate" => new = Resized(old, r.off)
<1>1. r.off \in Nat /\ r.buf \in Seq(Byte)
  BY RequestsAssumption, MaxSizeNat DEF Request
<1>2. old \notin {NoFile, Unknown}
  BY HistoryAssumption
<1>3. CASE r.op = "utimens"
  BY <1>3 DEF After
<1>4. CASE r.op # "utimens"
  <2>1. r.off <= Len(old)
    BY <1>1, <1>2, <1>4 DEF After
  <2>2. new = IF r.op = "write" THEN Overwritten(old, r.off, r.buf) ELSE Resized(old, r.off)
    BY <1>1, <1>2, <1>4, <2>1 DEF After
  <2>3. new \in Seq(Byte)
    BY <1>1, <2>1, <2>2, OverwrittenBytes, ResizedBytes
  <2>4. QED
    BY <1>1, <1>4, <2>1, <2>2, <2>3
<1>5. QED
  BY <1>3, <1>4

LEMMA AfterClean ==
  ASSUME NEW r \in Requests, r.op \in {"write", "truncate", "utimens"}, NEW old \in Seq(Byte), Clean(old),
         NEW new, new = After(r, old), new # Unknown
  PROVE  Clean(new)
<1> SUFFICES ASSUME NEW k \in 1 .. Len(new) PROVE new[k] # Garbage
  BY DEF Clean
<1>1. r.off \in Nat /\ r.buf \in Seq(Byte) /\ \A i \in 1 .. Len(r.buf) : r.buf[i] # Garbage
  BY RequestsAssumption, GarbageAssumption, MaxSizeNat DEF Request
<1>2. CASE r.op = "utimens"
  BY <1>2, AfterBytes DEF Clean
<1>3. CASE r.op = "truncate"
  <2>1. new = Resized(old, r.off) /\ r.off <= Len(old)
    BY <1>3, AfterBytes
  <2>2. PICK n \in Nat : n = r.off
    BY <1>1
  <2>3. Len(new) = n /\ \A i \in 1 .. n : new[i] = old[i]
    BY <2>1, <2>2, ResizedBytes
  <2>4. QED
    BY <2>1, <2>2, <2>3 DEF Clean
<1>4. CASE r.op = "write"
  <2>1. new = Overwritten(old, r.off, r.buf) /\ r.off <= Len(old)
    BY <1>4, AfterBytes
  <2>2. PICK off \in Nat, buf \in Seq(Byte) : off = r.off /\ buf = r.buf
    BY <1>1
  <2>3. /\ off < k /\ k <= off + Len(buf) => new[k] = buf[k - off]
        /\ ~(off < k /\ k <= off + Len(buf)) => k <= Len(old) /\ new[k] = old[k]
    <3>1. new = Overwritten(old, off, buf) /\ off <= Len(old)
      BY <2>1, <2>2
    <3>2. QED
      BY <3>1, OverwrittenBytes
  <2>4. k \in Nat \ {0} /\ Len(buf) \in Nat /\ Len(old) \in Nat
    <3>1. Len(new) \in Nat
      BY <2>1, <2>2, OverwrittenBytes
    <3>2. QED
      BY <3>1
  <2>5. QED
    BY <1>1, <2>2, <2>3, <2>4 DEF Clean
<1>5. QED
  BY <1>2, <1>3, <1>4

LEMMA NextClean ==
  ASSUME Ready, [StoreNext]_<<vars, history>>
  PROVE  CleanInv'
<1>0. TypeInv /\ CleanInv /\ BytesOK
  BY DEF Ready, Orderly
<1>1. CASE UNCHANGED <<vars, history>>
  BY <1>0, <1>1 DEF history, CleanInv, Known
<1>2. CASE StoreNext
  <2> SUFFICES ASSUME NEW id \in Ids, bytes'[id] \notin {NoFile, Unknown} PROVE Clean(bytes'[id])
    BY DEF CleanInv, Known, Clean
  <2>1. \/ bytes'[id] \in {Unknown, NoFile, bytes[id], <<>>}
        \/ \E u \in Writers(id) : pc[u] = "save" /\ bytes'[id] = Result(u)
    <3>1. bytes'[id] = NextBytes(id)
      BY <1>2 DEF StoreNext
    <3>2. CASE \E u \in Writers(id) : Left(u, "save")
      <4>1. PICK w : w = CHOOSE u \in Writers(id) : Left(u, "save")
        OBVIOUS
      <4>2. w \in Writers(id) /\ pc[w] = "save"
        BY <3>2, <4>1 DEF Left
      <4>3. NextBytes(id) \in {Unknown, NoFile, bytes[id], <<>>, Result(w)}
        BY <4>1 DEF NextBytes
      <4>4. QED
        BY <3>1, <4>2, <4>3
    <3>3. CASE ~\E u \in Writers(id) : Left(u, "save")
      BY <3>1, <3>3 DEF NextBytes
    <3>4. QED
      BY <3>2, <3>3
  <2>2. CASE bytes'[id] \in {Unknown, NoFile, bytes[id], <<>>}
    BY <1>0, <2>2 DEF CleanInv, Known, Clean
  <2>3. CASE \E u \in Writers(id) : pc[u] = "save" /\ bytes'[id] = Result(u)
    <3>1. PICK u \in Writers(id) : pc[u] = "save" /\ bytes'[id] = Result(u)
      BY <2>3
    <3>2. u \in Threads /\ frame[u].id = id /\ bytes'[id] = After(frame[u].req, bytes[id])
      BY <3>1 DEF Writers, Result
    <3>3. bytes[id] \notin {NoFile, Unknown}
      BY <3>2 DEF After
    <3>4. bytes[id] \in Seq(Byte) /\ Clean(bytes[id])
      BY <1>0, <3>3 DEF CleanInv, BytesOK, StoredBytes, Known
    <3>5. frame[u].req \in Requests /\ frame[u].req.op \in {"write", "truncate", "utimens"}
      BY <1>0, <3>1, <3>2, InHandler DEF HandlerOK
    <3>6. QED
      BY <3>2, <3>4, <3>5, AfterClean
  <2>4. QED
    BY <2>1, <2>2, <2>3
<1>3. QED
  BY <1>1, <1>2

LEMMA InitClean == StoreInit => CleanInv
<1> SUFFICES ASSUME StoreInit, NEW id \in Ids, Known(id) PROVE Clean(bytes[id])
  BY DEF CleanInv
<1>1. bytes[id] = Resized(InitBytes, InitSize)
  BY DEF StoreInit, Known
<1>2. InitSize \in Nat /\ \A i \in 1 .. Len(InitBytes) : InitBytes[i] # Garbage
  BY InitAssumption, GarbageAssumption, MaxSizeNat
<1>3. bytes[id] = [i \in 1 .. InitSize |-> IF i <= Len(InitBytes) THEN InitBytes[i] ELSE 0]
  BY <1>1 DEF Resized
<1>4. \A i \in 1 .. InitSize : bytes[id][i] # Garbage /\ bytes[id][i] \in Byte
  BY <1>2, <1>3, InitAssumption, ByteAssumption, GarbageAssumption
<1>5. Len(bytes[id]) = InitSize
  <2>1. bytes[id] \in [1 .. InitSize -> Byte]
    BY <1>3, <1>4
  <2>2. QED
    BY <1>2, <2>1, FunctionIsSeq
<1>6. QED
  BY <1>4, <1>5 DEF Clean

-----------------------------------------------------------------------------
(* Steps that change nothing on disk.                                          *)

\* load_metadata: what a handler finds of a file is what is stored, or the defaults.
LEMMA LoadBytes ==
  ASSUME TypeInv, BytesOK, NEW id \in Ids
  PROVE  /\ Load(id) \in FileMeta /\ Load(id).id \in {id, NoId} /\ (bytes[id] = NoFile => Load(id).id = NoId)
         /\ Known(id) =>
              /\ bytes[id] \in Seq(Byte) /\ Stored(id) /\ Sound(Load(id), id) /\ Load(id).size = Len(bytes[id])
              /\ (\A t \in Threads : ~Changes(t, id)) => HoldsBytes(Load(id), chunkFile[id], bytes[id])
<1>1. Load(id) \in FileMeta
  BY LoadType, Others
<1>2. StoredBytes(id)
  BY DEF BytesOK
<1>3. CASE ~Stored(id)
  BY <1>1, <1>2, <1>3 DEF Load, StoredBytes, DefaultMeta
<1>4. CASE Stored(id)
  <2>1. metaFile[id] \in FileMeta
    BY <1>4, Others DEF Stored
  <2>2. Load(id) = Parse(metaFile[id])
    BY <1>4 DEF Load
  <2>3. Load(id).id = metaFile[id].id
    BY <2>1, <2>2 DEF Parse, FileMeta, DefaultMeta
  <2>4. ASSUME Known(id)
        PROVE  /\ Load(id).words = 1 /\ Load(id).size = metaFile[id].size /\ Load(id).n = metaFile[id].n
               /\ Sound(metaFile[id], id)
    BY <1>2, <2>1, <2>2, <2>4 DEF StoredBytes, Sound, Parse, FileMeta
  <2>5. QED
    BY <1>1, <1>2, <1>4, <2>3, <2>4 DEF StoredBytes, Sound, HoldsBytes
<1>5. QED
  BY <1>3, <1>4

\* A path is read back from its metadata as one word.
LEMMA WordsType ==
  ASSUME NEW p \in Paths
  PROVE  Words[p] \in Nat
BY WordsAssumption

\* A request enters its handler.
LEMMA BeginBytes ==
  ASSUME Ready, NEW t \in Threads, Begin(t), UNCHANGED crashes, Promises
  PROVE  BytesOK'
<1>0. pc[t] = "idle" /\ TypeInv
  BY DEF Ready, Orderly, Begin
<1>1. OthersStay(t) /\ UNCHANGED <<metaFile, chunkFile>>
  BY <1>0, BeginEnters DEF OthersStay
<1>2. PICK r \in Requests :
          \/ pc'[t] = "idle"
          \/ /\ frame'[t].req = r /\ (index[r.path] = NoId <=> r.op = "create")
             /\ frame'[t].id = IF r.op = "create" THEN HashOf[r.path] ELSE index[r.path]
             /\ pc'[t] \in {"create_save", "rename_victim", "chmod_load", "lock"}
             /\ pc'[t] = "create_save" => frame'[t].m = NewMeta(r.path, r.mode)
  BY <1>0, BeginEnters
<1>3. BytesLocals(t)'
  <2>1. CASE pc'[t] # "create_save"
    BY <1>2, <2>1, NothingLoaded DEF Loaded
  <2>2. CASE pc'[t] = "create_save"
    <3>1. HandlerOK(t)' /\ r.path \in Paths
      BY <1>0, <2>2, BeginTypeInv, RequestsAssumption DEF TypeInv, HandlersOK, Request
    <3>2. r.op = "create"
      BY <1>2, <2>2, <3>1 DEF HandlerOK, CreateLabels
    <3>3. NewMeta(r.path, r.mode).id = HashOf[r.path] /\ NewMeta(r.path, r.mode).words = Words[r.path]
          /\ NewMeta(r.path, r.mode).size = 0
      BY DEF NewMeta, DefaultMeta
    <3>4. QED
      BY <1>2, <2>2, <3>1, <3>2, <3>3 DEF BytesLocals, Worth, Loaded, Ready, PathsReadBack
  <2>3. QED
    BY <2>1, <2>2
<1>4. QED
  BY <1>0, <1>1, <1>3, BytesQuiet DEF Promising, Ready

\* A step of one handler stays in its typed state and moves no other handler.
LEMMA StepBasics ==
  ASSUME Ready, NEW t \in Threads, HandlerStep(t) \/ TaskStep(t)
  PROVE  OthersStay(t) /\ pc[t] # "idle" /\ pc \in [Threads -> Labels] /\ frame \in [Threads -> Frame]
         /\ TypeInv /\ NameInv
BY Effects DEF Ready, Orderly, Stays, OthersStay, TypeInv, TypeOK

\* The steps of all handlers that touch neither metadata nor chunk files.
LEMMA QuietBytes ==
  ASSUME Ready, NEW t \in Threads, UNCHANGED crashes, Promises,
         \/ FileLock(t) \/ ReadStep(t) \/ TaskStep(t) \/ UnlinkLock(t) \/ CreateIndex(t) \/ UnlinkIndex(t)
         \/ RenameDrop(t) \/ RenameOut(t) \/ RenameIn(t)
  PROVE  BytesOK'
<1>0. OthersStay(t) /\ pc[t] # "idle" /\ pc \in [Threads -> Labels] /\ TypeInv
  BY StepBasics, SMTT(30) DEF HandlerStep, UnlinkStep, CreateStep, RenameStep
<1>1. UNCHANGED <<metaFile, chunkFile>>
  BY DEF FileLock, ReadStep, ReadLoad, ReadReply, TaskStep, TaskStart, TaskLock, TaskRead, UnlinkLock,
     CreateIndex, UnlinkIndex, RenameDrop, RenameOut, RenameIn
<1>2. /\ pc[t] \in {"lock", "acquire", "tasks", "unlink_lock", "create_index", "unlink_index", "rename_drop",
                    "rename_out", "rename_in"}
      /\ pc'[t] \in {"acquire", "tasks", "idle", "unlink_lock", "rename_load", "rename_in"}
  <2>1. CASE TaskStep(t)
    <3>1. UNCHANGED pc /\ \E ci \in ChunkIdx : task[t][ci].st # "none"
      BY <2>1, ZenonT(40) DEF TaskStep, TaskStart, TaskLock, TaskRead
    <3>2. pc[t] = "tasks"
      BY <1>0, <3>1, SMTT(30) DEF TypeInv, HandlersOK
    <3>3. QED
      BY <3>1, <3>2
  <2>2. CASE FileLock(t) \/ ReadStep(t) \/ UnlinkLock(t)
    BY <1>0, <2>2 DEF FileLock, ReadStep, ReadLoad, ReadReply, UnlinkLock, Goto, Finish
  <2>3. CASE CreateIndex(t) \/ UnlinkIndex(t) \/ RenameDrop(t) \/ RenameOut(t) \/ RenameIn(t)
    BY <1>0, <2>3 DEF CreateIndex, UnlinkIndex, RenameDrop, RenameOut, RenameIn, Goto, Finish
  <2>4. QED
    BY <2>1, <2>2, <2>3
<1>3. BytesLocals(t)'
  BY <1>2, NothingLoaded DEF Loaded
<1>4. QED
  BY <1>0, <1>1, <1>2, <1>3, BytesQuiet, SMTT(30) DEF Promising, Ready

\* A byte before offset off lies in a chunk before off's chunk, or in that chunk.
LEMMA ChunkBefore ==
  ASSUME NEW k \in 1 .. MaxSize, NEW off \in Nat, ChunkOf(k) < FirstChunk(off)
  PROVE  k <= off
<1> PICK j \in Nat : j = k - 1
  BY MaxSizeNat
<1>1. k = j + 1 /\ ChunkOf(k) = j \div ChunkSize
  BY MaxSizeNat DEF ChunkOf
<1>2. CASE off <= j
  <2>1. FirstChunk(off) <= ChunkOf(k)
    BY <1>1, <1>2, ChunkSizeAssumption, DivMono DEF FirstChunk
  <2>2. FirstChunk(off) \in Nat /\ ChunkOf(k) \in Nat
    BY <1>1, ChunkSizeAssumption, DivMod DEF FirstChunk
  <2>3. QED
    BY <2>1, <2>2
<1>3. CASE ~(off <= j)
  BY <1>1, <1>3
<1>4. QED
  BY <1>2, <1>3

\* At the first turn of the loop the chunks hold the old contents.
LEMMA WrittenFirst ==
  ASSUME NEW f, NEW chunk, NEW old \in Seq(Byte), HoldsBytes(f.m, chunk, old), Len(old) <= MaxSize,
         NEW off \in Nat, f.ci = FirstChunk(off), off <= Len(old), NEW buf \in Seq(Byte),
         NEW new, new = Overwritten(old, off, buf), Len(new) <= MaxSize
  PROVE  Written(chunk, f, old, new)
<1> SUFFICES ASSUME NEW k \in 1 .. Len(new)
             PROVE  IF ChunkOf(k) < f.ci THEN Here(chunk[ChunkOf(k)], PlaceOf(k), new[k])
                    ELSE k <= Len(old) => Shows(chunk, f.m.n, old, k)
  BY DEF Written
<1>1. /\ new \in Seq(Byte)
      /\ ~(off < k /\ k <= off + Len(buf)) => k <= Len(old) /\ new[k] = old[k]
  BY OverwrittenBytes
<1>2. k \in 1 .. MaxSize /\ k \in Nat /\ k >= 1
  BY <1>1, MaxSizeNat
<1>3. ASSUME k <= Len(old) PROVE Shows(chunk, f.m.n, old, k)
  BY <1>2, <1>3 DEF HoldsBytes
<1>4. CASE ChunkOf(k) < f.ci
  <2>1. k <= off
    BY <1>2, <1>4, ChunkBefore
  <2>2. k <= Len(old) /\ new[k] = old[k]
    BY <1>1, <1>2, <2>1
  <2>3. QED
    BY <1>3, <1>4, <2>2 DEF Shows
<1>5. QED
  BY <1>3, <1>4

\* A locked handler gets its lock and loads the metadata: what is promised is on disk.
LEMMA WriteLockBytes ==
  ASSUME Ready, NEW t \in Threads, UNCHANGED crashes, Promises, WriteLock(t)
  PROVE  BytesOK'
<1> PICK f : f = frame[t]
  BY ZenonT(60)
<1> PICK old : old = bytes[f.id]
  BY ZenonT(60)
<1>0. OthersStay(t) /\ pc[t] = "acquire" /\ pc \in [Threads -> Labels] /\ frame \in [Threads -> Frame] /\ f \in Frame
      /\ TypeInv /\ UNCHANGED <<metaFile, chunkFile>> /\ Locks!CanLock(f.id, f.lk)
  BY StepBasics DEF WriteLock, HandlerStep, LockedStep
<1>1. f.id \in Ids /\ f.req \in Requests /\ f.req.op \in {"write", "truncate", "utimens", "unlink"}
      /\ f.req.off \in Nat /\ f.req.buf \in Seq(Byte)
  BY <1>0, InHandler, MaxSizeNat DEF WriteLock, HandlerOK, Ops, CreateLabels, RenameLabels, ChmodLabels
<1>2. \A u \in Threads : ~Changes(u, f.id)
  BY <1>0, LockableUnchanged DEF Ready
<1>3. BytesLocals(t)'
  <2>1. CASE pc'[t] \notin Loaded \cup {"create_save"}
    BY <2>1, NothingLoaded
  <2>2. CASE pc'[t] \in Loaded \cup {"create_save"}
    <3>1. /\ frame'[t] = [f EXCEPT !.m = Load(f.id), !.ci = IF f.req.op = "write" THEN FirstChunk(f.req.off) ELSE 0]
          /\ pc'[t] = CASE f.req.op = "write" -> "chunk"
                        [] f.req.op = "truncate" -> "trim"
                        [] f.req.op = "utimens" -> "save"
                        [] f.req.op = "unlink" -> "unlink_chunks"
      BY <1>0, <2>2, ZenonT(60) DEF WriteLock, Goto, Finish, Loaded
    <3>2. PICK g : g = frame'[t]
      OBVIOUS
    <3>3. /\ g.m = Load(f.id) /\ g.id = f.id /\ g.req = f.req
          /\ f.req.op = "write" => g.ci = FirstChunk(f.req.off)
      BY <1>0, <3>1, <3>2 DEF Frame
    <3>4. \/ pc'[t] = "chunk" /\ f.req.op = "write"
          \/ pc'[t] = "trim" /\ f.req.op = "truncate"
          \/ pc'[t] = "save" /\ f.req.op = "utimens"
      BY <1>1, <2>2, <3>1 DEF Loaded
    <3>5. /\ Load(f.id) \in FileMeta /\ g.m.id \in {f.id, NoId} /\ (old = NoFile => g.m.id = NoId)
          /\ old \notin {NoFile, Unknown} =>
                old \in Seq(Byte) /\ Sound(g.m, f.id) /\ g.m.size = Len(old) /\ HoldsBytes(g.m, chunkFile[f.id], old)
      BY <1>0, <1>1, <1>2, <3>3, LoadBytes DEF Ready, Known
    <3>6. ASSUME old \notin {NoFile, Unknown}, pc'[t] = "chunk", After(f.req, old) # Unknown
          PROVE  Written(chunkFile[f.id], g, old, After(f.req, old))
      <4>1. Len(old) <= MaxSize /\ Len(old) \in Nat
        BY <3>3, <3>5, <3>6, MaxSizeNat DEF FileMeta
      <4>2. /\ After(f.req, old) = Overwritten(old, f.req.off, f.req.buf) /\ f.req.off <= Len(old)
            /\ After(f.req, old) \in Seq(Byte)
        BY <1>1, <3>4, <3>5, <3>6, AfterBytes
      <4>3. f.req.off + Len(f.req.buf) <= MaxSize
        BY <1>1, <3>4, <3>6, RequestsAssumption
      <4>4. Len(After(f.req, old)) <= MaxSize
        <5>1. Len(After(f.req, old)) = Greatest(Len(old), f.req.off + Len(f.req.buf))
          BY <1>1, <3>5, <3>6, <4>2, OverwrittenBytes, SMTT(30)
        <5>2. QED
          BY <4>1, <4>3, <5>1 DEF Greatest
      <4>5. QED
        BY <1>1, <3>3, <3>4, <3>5, <3>6, <4>1, <4>2, <4>4, WrittenFirst
    <3>7. f.req.op = "utimens" => After(f.req, old) = old
      BY DEF After
    <3>8. bytes'[f.id] = old
      BY <1>0, <1>1, PromiseKept DEF Promising
    <3>9. Worth(pc'[t], g, chunkFile[f.id], old)
      BY <3>3, <3>4, <3>5, <3>6, <3>7 DEF Worth, Loaded
    <3>10. QED
      BY <1>0, <3>2, <3>3, <3>8, <3>9 DEF BytesLocals
  <2>3. QED
    BY <2>1, <2>2
<1>4. QED
  BY <1>0, <1>3, BytesQuiet DEF Promising, Ready

\* cfs_rename and cfs_chmod load the metadata without a lock: nobody else is changing the file.
LEMMA LoaderBytes ==
  ASSUME Ready, NEW t \in Threads, UNCHANGED crashes, Promises, RenameLoad(t) \/ ChmodLoad(t)
  PROVE  BytesOK'
<1> PICK f : f = frame[t]
  BY ZenonT(60)
<1> PICK old : old = bytes[f.id]
  BY ZenonT(60)
<1> PICK g : g = frame'[t]
  BY ZenonT(60)
<1>0. OthersStay(t) /\ pc \in [Threads -> Labels] /\ frame \in [Threads -> Frame] /\ f \in Frame
      /\ TypeInv /\ UNCHANGED <<metaFile, chunkFile>> /\ pc[t] \in {"rename_load", "chmod_load"}
  BY StepBasics, SMTT(30) DEF RenameLoad, ChmodLoad, HandlerStep, RenameStep, ChmodStep
<1>1. f.id \in Ids /\ f.req.op \in {"rename", "chmod"} /\ f.req.to \in Paths /\ (pc[t] = "rename_load" => f.req.op = "rename")
      /\ f.req.mode \in Modes /\ DefaultMode \in Modes
  BY <1>0, InHandler, ModesAssumption DEF HandlerOK, RenameLabels, ChmodLabels
<1>2. \A u \in Threads : ~Changes(u, f.id)
  <2>1. CASE pc[t] = "chmod_load"
    BY <2>1, ChmodUnchanged DEF Ready
  <2>2. CASE pc[t] = "rename_load"
    BY <1>1, <2>2, NameOpSole, SoleUnchanged DEF Ready, NameOps, Changes
  <2>3. QED
    BY <1>0, <2>1, <2>2
<1>3. CASE pc'[t] = "idle"
  BY <1>0, <1>3, NothingLoaded, BytesQuiet DEF Promising, Ready, Loaded
<1>4. CASE pc'[t] # "idle"
  <2>1. /\ pc'[t] \in {"rename_save", "chmod_save"} /\ g.id = f.id
        /\ \E words \in Nat, mode \in Modes : /\ words % 2 = 1 \/ words = Load(f.id).words
                                              /\ \/ g.m = [Load(f.id) EXCEPT !.words = words]
                                                 \/ g.m = [Load(f.id) EXCEPT !.mode = mode] /\ words = Load(f.id).words
    <3>1. CASE RenameLoad(t)
      <4>1. g.m = [Load(f.id) EXCEPT !.words = Words[f.req.to]] /\ pc'[t] = "rename_save" /\ g.id = f.id
        BY <1>0, <3>1 DEF RenameLoad, Goto, Frame
      <4>2. QED
        BY <1>1, <4>1, WordsType DEF Ready, PathsReadBack
    <3>2. CASE ChmodLoad(t)
      <4>1. g.m = [Load(f.id) EXCEPT !.mode = f.req.mode] /\ pc'[t] = "chmod_save" /\ g.id = f.id
        BY <1>0, <1>4, <3>2 DEF ChmodLoad, Goto, Finish, Frame
      <4>2. Load(f.id).words \in Nat
        BY <1>0, <1>1, LoadBytes DEF Ready, FileMeta
      <4>3. QED
        BY <1>1, <4>1, <4>2
    <3>3. QED
      BY <3>1, <3>2
  <2>2. /\ Load(f.id) \in FileMeta /\ Load(f.id).id \in {f.id, NoId} /\ (old = NoFile => Load(f.id).id = NoId)
        /\ old \notin {NoFile, Unknown} => Sound(Load(f.id), f.id) /\ HoldsBytes(Load(f.id), chunkFile[f.id], old)
    BY <1>0, <1>1, <1>2, LoadBytes DEF Ready, Known
  <2>3. /\ g.m.id = Load(f.id).id /\ g.m.n = Load(f.id).n /\ g.m.size = Load(f.id).size
        /\ (g.m.words % 2 = 1 \/ g.m.words = Load(f.id).words)
    BY <2>1, <2>2 DEF FileMeta
  <2>4. Worth(pc'[t], g, chunkFile[f.id], old)
    BY <2>1, <2>2, <2>3 DEF Worth, Loaded, Sound, HoldsBytes
  <2>5. bytes'[f.id] = old
    BY <1>0, <1>1, PromiseKept DEF Promising
  <2>6. BytesLocals(t)'
    BY <1>0, <2>1, <2>4, <2>5 DEF BytesLocals
  <2>7. QED
    BY <1>0, <2>6, BytesQuiet DEF Promising, Ready
<1>5. QED
  BY <1>3, <1>4

-----------------------------------------------------------------------------
(* Steps that save or remove metadata.                                         *)

\* cfs_create saves the metadata of an empty file.
LEMMA CreateSaveBytes ==
  ASSUME Ready, NEW t \in Threads, UNCHANGED crashes, Promises, CreateSave(t)
  PROVE  BytesOK'
<1> PICK f : f = frame[t]
  BY ZenonT(60)
<1>0. OthersStay(t) /\ pc \in [Threads -> Labels] /\ pc[t] = "create_save" /\ pc'[t] = "create_index"
      /\ TypeInv /\ UNCHANGED chunkFile /\ Save(f.m)
  BY StepBasics DEF CreateSave, HandlerStep, CreateStep, Goto
<1>1. f.id \in Ids /\ f.m \in FileMeta /\ f.req.op = "create"
  BY <1>0, InHandler DEF HandlerOK, CreateLabels
<1>2. f.m.id = f.id /\ f.m.words % 2 = 1 /\ f.m.size = 0
  BY <1>0 DEF Ready, BytesOK, BytesLocals, Worth
<1>3. metaFile' = [metaFile EXCEPT ![f.id] = f.m] /\ metaFile'[f.id] = f.m
  BY <1>0, <1>1, <1>2, SaveAt
<1>4. bytes'[f.id] = <<>>
  BY <1>0, <1>1, PromiseCreated DEF Left
<1>5. Private(t, f.id)
  BY <1>0, <1>1, NameOpSole, SolePrivate DEF Ready, NameOps
<1>6. StoredBytes(f.id)'
  <2>1. Stored(f.id)'
    BY <1>1, <1>3, NoMetaAssumption DEF Stored
  <2>2. Sound(f.m, f.id) /\ HoldsBytes(f.m, chunkFile[f.id], <<>>)
    BY <1>2 DEF Sound, HoldsBytes
  <2>3. <<>> \in Seq(Byte)
    OBVIOUS
  <2>4. <<>> # NoFile
    BY <2>3, HistoryAssumption
  <2>5. QED
    BY <1>0, <1>2, <1>3, <1>4, <2>1, <2>2, <2>3, <2>4 DEF StoredBytes, Sound
<1>7. ASSUME NEW id \in Ids \ {f.id}
      PROVE  UNCHANGED <<chunkFile[id], bytes[id], metaFile[id]>> /\ ~Changes(t, id)
  BY <1>0, <1>3, <1>7, Others, PromiseKept DEF Changes, Promising
<1>8. BytesLocals(t)'
  BY <1>0, NothingLoaded DEF Loaded
<1>9. QED
  BY <1>0, <1>5, <1>6, <1>7, <1>8, BytesStep DEF Ready

\* A handler saves metadata that it has loaded and brought up to date.
LEMMA SaverBytes ==
  ASSUME Ready, NEW t \in Threads, UNCHANGED crashes, Promises, SaveMeta(t) \/ RenameSave(t) \/ ChmodSave(t)
  PROVE  BytesOK'
<1> PICK f : f = frame[t]
  BY ZenonT(60)
<1> PICK old : old = bytes[f.id]
  BY ZenonT(60)
<1> PICK new : new = IF pc[t] = "save" THEN After(f.req, old) ELSE old
  OBVIOUS
<1>0. /\ OthersStay(t) /\ pc \in [Threads -> Labels] /\ TypeInv /\ UNCHANGED <<chunkFile, faults>> /\ Save(f.m)
      /\ pc[t] \in {"save", "rename_save", "chmod_save"} /\ pc'[t] \in {"idle", "rename_out"}
  BY StepBasics DEF SaveMeta, RenameSave, ChmodSave, HandlerStep, LockedStep, RenameStep, ChmodStep, Goto, Finish
<1>1. /\ f.id \in Ids /\ f.m \in FileMeta /\ f.req \in Requests
      /\ pc[t] = "save" => f.req.op \in {"write", "truncate", "utimens"}
  BY <1>0, InHandler DEF HandlerOK
<1>2. Worth(pc[t], f, chunkFile[f.id], old) /\ StoredBytes(f.id)
  BY <1>1 DEF Ready, BytesOK, BytesLocals
<1>3. f.m.id \in {f.id, NoId} /\ (old = NoFile => f.m.id = NoId)
  BY <1>0, <1>2 DEF Worth, Loaded
<1>4. ASSUME old \notin {NoFile, Unknown}
      PROVE  /\ Sound(f.m, f.id) /\ f.m.id # NoId
             /\ new # Unknown => new \in Seq(Byte) /\ HoldsBytes(f.m, chunkFile[f.id], new)
  <2>1. old \in Seq(Byte)
    BY <1>2, <1>4 DEF StoredBytes, Known
  <2>2. new # Unknown => new \in Seq(Byte)
    BY <1>0, <1>1, <2>1, AfterBytes
  <2>3. Sound(f.m, f.id) /\ (new # Unknown => HoldsBytes(f.m, chunkFile[f.id], new))
    BY <1>0, <1>2, <1>4 DEF Worth, Loaded
  <2>4. QED
    BY <1>1, <2>2, <2>3, NoIdAssumption DEF Sound
<1>5. old \in {NoFile, Unknown} => new = old
  BY DEF After
<1>6. bytes'[f.id] = new
  <2>1. CASE pc[t] = "save"
    BY <1>0, <1>1, <2>1, PromiseWritten DEF Left
  <2>2. CASE pc[t] # "save"
    BY <1>0, <1>1, <2>2, PromiseKept DEF Promising
  <2>3. QED
    BY <2>1, <2>2
<1>7. ASSUME NEW id \in Ids \ {f.id}
      PROVE  UNCHANGED <<chunkFile[id], bytes[id], metaFile[id]>> /\ ~Changes(t, id)
  BY <1>0, <1>1, <1>3, <1>7, Others, PromiseKept DEF Changes, Promising, Save
<1>8. StoredBytes(f.id)'
  <2>1. CASE f.m.id = NoId
    <3>1. old \in {NoFile, Unknown} /\ metaFile' = metaFile
      BY <1>0, <1>4, <2>1 DEF Save
    <3>2. QED
      BY <1>2, <1>5, <1>6, <3>1 DEF StoredBytes, Stored, Known
  <2>2. CASE f.m.id # NoId
    <3>1. metaFile'[f.id] = f.m /\ f.m.id = f.id /\ old # NoFile
      BY <1>0, <1>1, <1>3, <2>2, SaveAt
    <3>2. Stored(f.id)'
      BY <1>1, <3>1, NoMetaAssumption DEF Stored
    <3>3. CASE new = Unknown
      BY <1>6, <3>1, <3>2, <3>3, HistoryAssumption DEF StoredBytes, Known
    <3>4. CASE new # Unknown
      <4>1. Sound(f.m, f.id) /\ new \in Seq(Byte) /\ HoldsBytes(f.m, chunkFile[f.id], new) /\ new # NoFile
        BY <1>4, <1>5, <3>1, <3>4, HistoryAssumption
      <4>2. QED
        BY <1>0, <1>6, <3>1, <3>2, <4>1 DEF StoredBytes, Sound, HoldsBytes
    <3>5. QED
      BY <3>3, <3>4
  <2>3. QED
    BY <2>1, <2>2
<1>9. Private(t, f.id) \/ (chunkFile'[f.id] = chunkFile[f.id] /\ bytes'[f.id] \in {old, Unknown})
  <2>1. CASE pc[t] = "save" /\ f.req.op \in {"write", "truncate"}
    BY <2>1, HolderPrivate DEF Ready, Exclusive
  <2>2. CASE ~(pc[t] = "save" /\ f.req.op \in {"write", "truncate"})
    <3>1. new = old
      BY <1>1, <2>2 DEF After
    <3>2. QED
      BY <1>0, <1>6, <3>1
  <2>3. QED
    BY <2>1, <2>2
<1>10. BytesLocals(t)'
  BY <1>0, NothingLoaded DEF Loaded
<1>11. QED
  BY <1>0, <1>7, <1>8, <1>9, <1>10, BytesStep DEF Ready

\* The metadata of the deleted or the replaced file is removed.
LEMMA RemoverBytes ==
  ASSUME Ready, NEW t \in Threads, UNCHANGED crashes, Promises, UnlinkMeta(t) \/ RenameErase(t)
  PROVE  BytesOK'
<1> PICK f : f = frame[t]
  BY ZenonT(60)
<1> PICK x : x = IF pc[t] = "unlink_meta" THEN f.id ELSE f.eid
  OBVIOUS
<1>0. /\ OthersStay(t) /\ pc \in [Threads -> Labels] /\ TypeInv /\ UNCHANGED chunkFile /\ RemoveMeta(x) /\ pc[t] # "idle"
      /\ \/ pc[t] = "unlink_meta" /\ pc'[t] = "unlink_index"
         \/ pc[t] = "rename_erase" /\ pc'[t] = "rename_drop"
  BY StepBasics DEF UnlinkMeta, RenameErase, HandlerStep, UnlinkStep, RenameStep, Goto
<1>1. /\ x \in Ids /\ f.id \in Ids /\ f.req.op \in NameOps
      /\ pc[t] = "rename_erase" => f.req.op = "rename" /\ index[f.req.to] = x
  BY <1>0, InHandler DEF HandlerOK, UnlinkLabels, RenameLabels, NameOps, Ready, Orderly, FreeInv
<1>2. Private(t, x)
  BY <1>0, <1>1, NameOpSole, SolePrivate, NoIdAssumption DEF Ready
<1>3. metaFile' = [metaFile EXCEPT ![x] = NoMeta]
  BY <1>0 DEF RemoveMeta
<1>4. bytes'[x] = NoFile
  BY <1>0, <1>1, PromiseRemoved DEF Left
<1>5. StoredBytes(x)'
  BY <1>0, <1>1, <1>3, <1>4, Others DEF StoredBytes, Stored, Known
<1>6. ASSUME NEW id \in Ids \ {x}
      PROVE  UNCHANGED <<chunkFile[id], bytes[id], metaFile[id]>> /\ ~Changes(t, id)
  BY <1>0, <1>1, <1>3, <1>6, Others, PromiseKept DEF Changes, Promising
<1>7. BytesLocals(t)'
  BY <1>0, NothingLoaded DEF Loaded
<1>8. QED
  BY <1>0, <1>2, <1>5, <1>6, <1>7, BytesStep DEF Ready

-----------------------------------------------------------------------------
(* Steps that change the chunk files.                                          *)

\* A step of a handler on the chunk files of the file that its path leads to.
LEMMA OnFileBytes ==
  ASSUME Ready, NEW t \in Threads, OthersStay(t), UNCHANGED <<crashes, metaFile>>, Promises,
         pc[t] \in {"chunk", "trim", "unlink_chunks"}, <<pc'[t], frame'[t]>> # <<pc[t], frame[t]>>,
         \A id \in Ids \ {frame[t].id} : chunkFile'[id] = chunkFile[id],
         frame'[t].id = frame[t].id, Changes(t, frame[t].id)', BytesLocals(t)'
  PROVE  BytesOK'
<1> PICK x : x = frame[t].id
  OBVIOUS
<1>1. TypeInv /\ HandlerOK(t) /\ x \in Ids
  BY InHandler DEF Ready, Orderly
<1>2. frame[t].req.op \in {"write", "truncate", "unlink"}
  BY <1>1 DEF HandlerOK, UnlinkLabels
<1>3. Private(t, x)
  BY <1>2, HolderPrivate DEF Exclusive, Ready
<1>4. bytes'[x] \in {bytes[x], Unknown}
  <2>1. CASE pc[t] = "unlink_chunks"
    BY <1>1, <2>1, PromiseKept DEF Promising
  <2>2. CASE pc[t] \in {"chunk", "trim"}
    BY <1>1, <2>2, PromiseWaits
  <2>3. QED
    BY <2>1, <2>2
<1>5. StoredBytes(x)'
  <2>1. StoredBytes(x) /\ (Stored(x)' <=> Stored(x)) /\ metaFile'[x] = metaFile[x]
    BY <1>1 DEF Ready, BytesOK, Stored
  <2>2. bytes'[x] = bytes[x] \/ ~Known(x)'
    BY <1>4 DEF Known
  <2>3. ~(\A u \in Threads : ~Changes(u, x)')
    OBVIOUS
  <2>4. bytes'[x] = NoFile => bytes[x] = NoFile
    BY <1>4, HistoryAssumption
  <2>5. QED
    BY <2>1, <2>2, <2>3, <2>4 DEF StoredBytes, Known
<1>6. ASSUME NEW id \in Ids \ {x}
      PROVE  UNCHANGED <<chunkFile[id], bytes[id], metaFile[id]>> /\ ~Changes(t, id)
  BY <1>6, PromiseKept DEF Changes
<1>7. QED
  BY <1>1, <1>3, <1>5, <1>6, BytesStep DEF Ready

\* What cfs_write finds in the chunk of the loop's turn.
Existing(f, chunk) == IF f.ci < f.m.n /\ chunk[f.ci] # Store!Broken THEN chunk[f.ci] ELSE <<>>

\* The chunk files next are those of chunk, but that the loop's chunk is merged with the buffer.
Turned(f, chunk, next, off, buf) ==
  /\ \A i \in ChunkIdx \ {f.ci} : next[i] = chunk[i]
  /\ next[f.ci] = Merge(Existing(f, chunk), f.ci, off, buf)

\* One turn of the loop of cfs_write: the loop's chunk holds the new bytes as well.
LEMMA WrittenTurn ==
  ASSUME NEW f, f.m.n \in Nat, NEW chunk \in [ChunkIdx -> Chunk], NEW next, NEW old \in Seq(Byte), Clean(old),
         NEW off \in Nat, off <= Len(old), NEW buf \in Seq(Byte), buf # <<>>, Turned(f, chunk, next, off, buf),
         NEW new, new = Overwritten(old, off, buf), Len(new) <= MaxSize, Written(chunk, f, old, new),
         NEW ci \in ChunkIdx, ci = f.ci, ci \in FirstChunk(off) .. LastChunk(off, Len(buf)),
         NEW g, g.m = f.m, g.ci = ci + 1
  PROVE  Written(next, g, old, new)
<1> SUFFICES ASSUME NEW k \in 1 .. Len(new)
             PROVE  IF ChunkOf(k) < ci + 1 THEN Here(next[ChunkOf(k)], PlaceOf(k), new[k])
                    ELSE k <= Len(old) => Shows(next, f.m.n, old, k)
  BY DEF Written
<1>0. /\ \A i \in ChunkIdx \ {ci} : next[i] = chunk[i]
      /\ next[ci] = Merge(Existing(f, chunk), ci, off, buf)
  BY DEF Turned
<1>1. /\ new \in Seq(Byte)
      /\ off < k /\ k <= off + Len(buf) => new[k] = buf[k - off]
      /\ ~(off < k /\ k <= off + Len(buf)) => k <= Len(old) /\ new[k] = old[k]
  BY OverwrittenBytes
<1>2. k \in 1 .. MaxSize
  BY <1>1, MaxSizeNat
<1> PICK i \in ChunkIdx : i = ChunkOf(k)
  BY <1>2, ByteHasPlace
<1> PICK at \in 1 .. ChunkSize : at = PlaceOf(k)
  BY <1>2, ByteHasPlace
<1>3. k = i * ChunkSize + at /\ i \in Nat /\ ci \in Nat
  BY <1>2, ByteHasPlace, ChunkIdxNat
<1>4. IF i < ci THEN Here(chunk[i], at, new[k]) ELSE k <= Len(old) => Shows(chunk, f.m.n, old, k)
  BY DEF Written
<1>5. CASE i < ci
  BY <1>0, <1>3, <1>4, <1>5
<1>6. CASE i > ci
  BY <1>0, <1>3, <1>4, <1>6 DEF Shows
<1>7. CASE i = ci
  <2> PICK existing : existing = Existing(f, chunk)
    OBVIOUS
  <2>1. existing \in Chunk
    BY EmptyChunk DEF Existing
  <2>2. /\ off < k /\ k <= off + Len(buf) => at <= Len(next[ci]) /\ next[ci][at] = buf[k - off]
        /\ ~(off < k /\ k <= off + Len(buf)) => ByteAt(next[ci], at) = ByteAt(existing, at)
        /\ at <= Len(existing) => at <= Len(next[ci])
    <3>1. LET j == ci * ChunkSize + at
              m == Merge(existing, ci, off, buf)
          IN /\ off < j /\ j <= off + Len(buf) => at <= Len(m) /\ m[at] = buf[j - off]
             /\ ~(off < j /\ j <= off + Len(buf)) => ByteAt(m, at) = ByteAt(existing, at)
             /\ at <= Len(existing) => at <= Len(m)
      BY <2>1, MergeBytes, SMTT(30)
    <3>2. QED
      BY <1>0, <1>3, <1>7, <3>1
  <2>3. CASE off < k /\ k <= off + Len(buf)
    BY <1>1, <1>3, <1>7, <2>2, <2>3, SMTT(30) DEF ByteAt, Here
  <2>4. CASE ~(off < k /\ k <= off + Len(buf))
    <3>1. Shows(chunk, f.m.n, old, k) /\ new[k] = old[k]
      BY <1>1, <1>3, <1>4, <1>7, <2>4
    <3>2. Here(chunk[ci], at, old[k]) /\ (ci >= f.m.n => chunk[ci] = <<>>)
      BY <1>7, <3>1 DEF Shows
    <3>3. Here(existing, at, old[k])
      <4>1. CASE chunk[ci] # Store!Broken
        BY <1>3, <3>2, <4>1 DEF Existing
      <4>2. CASE chunk[ci] = Store!Broken
        <5>1. k \in 1 .. Len(old)
          BY <1>1, <2>4
        <5>2. old[k] # Garbage
          BY <5>1 DEF Clean
        <5>3. Len(chunk[ci]) = 1 /\ chunk[ci][1] = Garbage
          BY <4>2 DEF Store!Broken
        <5>4. at # 1
          BY <3>2, <5>2, <5>3 DEF Here, ByteAt
        <5>5. ~NoHoles /\ old[k] = 0
          BY <3>2, <5>3, <5>4 DEF Here, ByteAt
        <5>6. existing = <<>>
          BY <4>2 DEF Existing
        <5>7. QED
          BY <5>5, <5>6 DEF Here, ByteAt
      <4>3. QED
        BY <4>1, <4>2
    <3>4. Here(next[ci], at, new[k])
      BY <2>2, <2>4, <3>1, <3>3 DEF Here
    <3>5. QED
      BY <1>3, <1>7, <3>4
  <2>5. QED
    BY <2>3, <2>4
<1>8. QED
  BY <1>3, <1>5, <1>6, <1>7

\* A byte behind the end of what is written lies at or behind it in the last chunk, or in a later one.
LEMMA ChunkAfter ==
  ASSUME NEW k \in 1 .. MaxSize, NEW off \in Nat, NEW len \in Nat \ {0}, LastChunk(off, len) < ChunkOf(k)
  PROVE  off + len < k
<1> PICK j \in Nat : j = k - 1
  BY MaxSizeNat
<1> PICK e \in Nat : e = off + len - 1
  OBVIOUS
<1>1. ChunkOf(k) = j \div ChunkSize /\ LastChunk(off, len) = e \div ChunkSize
  BY DEF ChunkOf, LastChunk
<1>2. CASE j <= e
  <2>1. j \div ChunkSize <= e \div ChunkSize
    BY <1>2, ChunkSizeAssumption, DivMono
  <2>2. j \div ChunkSize \in Nat /\ e \div ChunkSize \in Nat
    BY ChunkSizeAssumption, DivMod
  <2>3. QED
    BY <1>1, <2>1, <2>2
<1>3. CASE ~(j <= e)
  BY <1>3, MaxSizeNat
<1>4. QED
  BY <1>2, <1>3

\* After the last turn the chunks hold the new contents.
LEMMA WrittenLast ==
  ASSUME NEW f, f.m.n \in Nat, NEW old \in Seq(Byte), NEW off \in Nat, off <= Len(old),
         NEW buf \in Seq(Byte), buf # <<>>, LastChunk(off, Len(buf)) \in Nat,
         NEW new, new = Overwritten(old, off, buf), Len(new) <= MaxSize,
         NEW next, f.ci = LastChunk(off, Len(buf)) + 1, Written(next, f, old, new),
         NEW m, m.size = Len(new), m.n = Greatest(f.m.n, f.ci)
  PROVE  HoldsBytes(m, next, new)
<1> PICK len \in Nat \ {0} : len = Len(buf)
  OBVIOUS
<1> PICK lc \in Nat : lc = LastChunk(off, len)
  OBVIOUS
<1>1. new \in Seq(Byte) /\ Len(new) = m.size
  BY OverwrittenBytes
<1> SUFFICES ASSUME NEW k \in 1 .. Len(new) PROVE Shows(next, m.n, new, k)
  BY <1>1 DEF HoldsBytes
<1>2. k \in 1 .. MaxSize /\ m.n \in Nat /\ f.m.n <= m.n /\ lc + 1 <= m.n
  BY <1>1, MaxSizeNat DEF Greatest
<1> PICK i \in ChunkIdx : i = ChunkOf(k)
  BY <1>2, ByteHasPlace
<1>3. i \in Nat
  BY ChunkIdxNat
<1>4. CASE i < lc + 1
  BY <1>2, <1>3, <1>4 DEF Shows, Written
<1>5. CASE ~(i < lc + 1)
  <2>1. off + len < k
    BY <1>2, <1>3, <1>5, ChunkAfter, SMTT(30)
  <2>2. ~(off < k /\ k <= off + Len(buf))
    BY <1>2, <2>1, MaxSizeNat
  <2>3. k <= Len(old) /\ new[k] = old[k]
    BY <2>2, OverwrittenBytes
  <2>4. Shows(next, f.m.n, old, k)
    BY <1>5, <2>3 DEF Written
  <2>5. i >= m.n => i >= f.m.n
    BY <1>2, <1>3
  <2>6. QED
    BY <2>3, <2>4, <2>5 DEF Shows
<1>6. QED
  BY <1>4, <1>5

\* cfs_write stores a chunk, and after the last one counts the chunks and the size.
LEMMA WriteChunkBytes ==
  ASSUME Ready, NEW t \in Threads, UNCHANGED crashes, Promises, WriteChunk(t)
  PROVE  BytesOK'
<1> PICK f : f = frame[t]
  BY ZenonT(60)
<1> PICK old : old = bytes[f.id]
  BY ZenonT(60)
<1> PICK g : g = frame'[t]
  BY ZenonT(60)
<1> PICK lc : lc = LastChunk(f.req.off, Len(f.req.buf))
  BY ZenonT(60)
<1>0. /\ OthersStay(t) /\ pc \in [Threads -> Labels] /\ frame \in [Threads -> Frame]
      /\ pc[t] = "chunk" /\ UNCHANGED metaFile /\ TypeInv
  BY StepBasics DEF HandlerStep, LockedStep, WriteChunk
<1>1. /\ f \in Frame /\ f.id \in Ids /\ f.m \in FileMeta /\ f.req \in Requests /\ f.m.n \in Nat
      /\ f.req.op = "write" /\ f.req.off \in Nat /\ f.req.buf \in Seq(Byte) /\ f.req.buf # <<>>
      /\ Len(f.req.buf) \in Nat \ {0} /\ f.req.off + Len(f.req.buf) <= MaxSize
      /\ f.ci \in ChunkIdx /\ f.ci \in FirstChunk(f.req.off) .. LastChunk(f.req.off, Len(f.req.buf))
  <2>1. /\ f \in Frame /\ f.id \in Ids /\ f.m \in FileMeta /\ f.req \in Requests
        /\ f.req.op = "write" /\ f.req.off \in Nat /\ f.req.buf \in Seq(Byte) /\ f.ci \in ChunkIdx
        /\ f.ci \in FirstChunk(f.req.off) .. LastChunk(f.req.off, Len(f.req.buf))
    BY <1>0, InHandler, MaxSizeNat DEF HandlerOK
  <2>2. f.req.buf # <<>> /\ f.req.off + Len(f.req.buf) <= MaxSize
    BY <2>1, RequestsAssumption
  <2>3. f.m.n \in Nat
    BY <2>1 DEF FileMeta
  <2>4. QED
    BY <2>1, <2>2, <2>3
<1>2. lc \in ChunkIdx /\ lc \in Nat
  <2>1. PICK len \in Nat \ {0} : len = Len(f.req.buf)
    BY <1>1
  <2>2. LastChunk(f.req.off, len) \in ChunkIdx
    BY <1>1, <2>1, LastChunkType
  <2>3. QED
    BY <2>1, <2>2, ChunkIdxNat
<1>3. chunkFile \in [Ids -> [ChunkIdx -> Chunk]]
  BY <1>0, Others
<1> PICK merged : merged = Merge(Existing(f, chunkFile[f.id]), f.ci, f.req.off, f.req.buf)
  OBVIOUS
<1>4. /\ \A id \in Ids \ {f.id} : chunkFile'[id] = chunkFile[id]
      /\ faults' = faults => /\ \A i \in ChunkIdx \ {f.ci} : chunkFile'[f.id][i] = chunkFile[f.id][i]
                             /\ chunkFile'[f.id][f.ci] = merged
  <2>1. PutChunk(f)
    BY DEF WriteChunk
  <2>2. \/ UNCHANGED chunkFile
        \/ \E data : Store!WriteChunk(f.id, f.ci, data)
    BY <2>1 DEF PutChunk
  <2>3. faults' = faults => Store!WriteChunk(f.id, f.ci, merged)
    BY <1>0, <2>1 DEF PutChunk, Fault, Store!ReadChunk, Existing, TypeInv, TypeOK
  <2>4. ASSUME NEW data, Store!WriteChunk(f.id, f.ci, data)
        PROVE  chunkFile' = [chunkFile EXCEPT ![f.id] = [chunkFile[f.id] EXCEPT ![f.ci] = data]]
    BY <1>3, <2>4 DEF Store!WriteChunk
  <2>5. \A id \in Ids \ {f.id} : chunkFile'[id] = chunkFile[id]
    BY <1>1, <1>3, <2>2, <2>4
  <2>6. ASSUME faults' = faults
        PROVE  /\ \A i \in ChunkIdx \ {f.ci} : chunkFile'[f.id][i] = chunkFile[f.id][i]
               /\ chunkFile'[f.id][f.ci] = merged
    <3>1. PICK c : c = [chunkFile[f.id] EXCEPT ![f.ci] = merged]
      OBVIOUS
    <3>2. chunkFile[f.id] \in [ChunkIdx -> Chunk]
      BY <1>1, <1>3
    <3>3. chunkFile'[f.id] = c
      BY <1>1, <1>3, <2>3, <2>4, <2>6, <3>1
    <3>4. QED
      BY <1>1, <3>1, <3>2, <3>3
  <2>7. QED
    BY <2>5, <2>6
<1>5. /\ f.m.id \in {f.id, NoId} /\ (old = NoFile => f.m.id = NoId)
      /\ old \notin {NoFile, Unknown} =>
           /\ Sound(f.m, f.id) /\ f.m.size = Len(old) /\ old \in Seq(Byte)
           /\ After(f.req, old) # Unknown => Written(chunkFile[f.id], f, old, After(f.req, old))
  <2>1. BytesLocals(t) /\ StoredBytes(f.id)
    BY <1>1 DEF Ready, BytesOK
  <2>2. QED
    BY <1>0, <2>1 DEF BytesLocals, Worth, Loaded, StoredBytes, Known
<1>6. <<pc'[t], frame'[t]>> # <<pc[t], frame[t]>> /\ bytes'[f.id] = IF faults' = faults THEN old ELSE Unknown
  <2>1. \/ frame' = [frame EXCEPT ![t].ci = @ + 1]
        \/ pc' = [pc EXCEPT ![t] = "save"]
    BY ZenonT(60) DEF WriteChunk, Goto
  <2>2. frame' = [frame EXCEPT ![t].ci = @ + 1] => frame'[t].ci = f.ci + 1
    BY <1>0, <1>1 DEF Frame
  <2>3. f.ci # f.ci + 1
    BY <1>1, ChunkIdxNat
  <2>4. <<pc'[t], frame'[t]>> # <<pc[t], frame[t]>>
    BY <1>0, <2>1, <2>2, <2>3
  <2>5. QED
    BY <1>0, <1>1, <2>4, PromiseWaits
<1>7. ASSUME old \notin {NoFile, Unknown}, faults' = faults, NEW new, new = After(f.req, old), new # Unknown
      PROVE  /\ new = Overwritten(old, f.req.off, f.req.buf) /\ f.req.off <= Len(old) /\ Len(new) <= MaxSize
             /\ \A h : h.m = f.m /\ h.ci = f.ci + 1 => Written(chunkFile'[f.id], h, old, new)
  <2>1. PICK off \in Nat : off = f.req.off
    BY <1>1
  <2>2. PICK buf \in Seq(Byte) : buf = f.req.buf
    BY <1>1
  <2>3. /\ new = Overwritten(old, off, buf) /\ off <= Len(old) /\ old \in Seq(Byte) /\ Clean(old)
        /\ buf # <<>> /\ off + Len(buf) <= MaxSize /\ Len(buf) \in Nat
    BY <1>1, <1>5, <1>7, <2>1, <2>2, AfterBytes DEF Ready, CleanInv, Known
  <2>4. Len(new) <= MaxSize
    <3>1. Len(new) = Greatest(Len(old), off + Len(buf))
      BY <2>3, OverwrittenBytes
    <3>2. Len(old) <= MaxSize
      BY <1>1, <1>5, <1>7, MaxSizeNat DEF FileMeta
    <3>3. QED
      BY <2>3, <3>1, <3>2 DEF Greatest
  <2>5. PICK chunk \in [ChunkIdx -> Chunk] : chunk = chunkFile[f.id]
    BY <1>1, <1>3
  <2>6. PICK next : next = chunkFile'[f.id]
    OBVIOUS
  <2>7. PICK ci \in ChunkIdx : ci = f.ci
    BY <1>1
  <2>8. Turned(f, chunk, next, off, buf)
    BY <1>4, <1>7, <2>1, <2>2, <2>5, <2>6 DEF Turned
  <2>9. Written(chunk, f, old, new) /\ ci \in FirstChunk(off) .. LastChunk(off, Len(buf)) /\ f.m.n \in Nat
    BY <1>1, <1>5, <1>7, <2>1, <2>2, <2>5, <2>7
  <2>10. ASSUME NEW h, h.m = f.m, h.ci = ci + 1
         PROVE  Written(next, h, old, new)
    BY <2>1, <2>2, <2>3, <2>4, <2>7, <2>8, <2>9, <2>10, WrittenTurn, SMTT(60)
  <2>11. QED
    BY <2>1, <2>2, <2>3, <2>4, <2>6, <2>7, <2>10
<1>8. CASE f.ci < lc /\ frame' = [frame EXCEPT ![t].ci = @ + 1] /\ UNCHANGED pc
  <2>1. pc'[t] = "chunk" /\ g.id = f.id /\ g.m = f.m /\ g.ci = f.ci + 1 /\ g.req = f.req
    BY <1>0, <1>1, <1>8 DEF Frame
  <2>2. Worth("chunk", g, chunkFile'[f.id], bytes'[f.id])
    <3>1. ASSUME bytes'[f.id] \notin {NoFile, Unknown}
          PROVE  /\ Sound(g.m, g.id) /\ g.m.size = Len(old)
                 /\ After(g.req, old) # Unknown => Written(chunkFile'[f.id], g, old, After(g.req, old))
      <4>1. faults' = faults /\ old \notin {NoFile, Unknown}
        BY <1>6, <3>1
      <4>2. QED
        BY <1>5, <1>7, <2>1, <4>1
    <3>2. bytes'[f.id] \in {old, Unknown}
      BY <1>6
    <3>3. QED
      BY <1>5, <2>1, <3>1, <3>2, HistoryAssumption DEF Worth, Loaded
  <2>3. BytesLocals(t)' /\ Changes(t, f.id)'
    BY <2>1, <2>2 DEF BytesLocals, Changes
  <2>4. QED
    BY <1>0, <1>4, <1>6, <2>1, <2>3, OnFileBytes
<1>9. ASSUME f.ci = lc, Goto(t, "save"), NEW m, frame' = [frame EXCEPT ![t].m = m],
             m.n = Greatest(f.m.n, lc + 1), m.size = Greatest(f.m.size, f.req.off + Len(f.req.buf)),
             m.id = f.m.id, m.words = f.m.words
      PROVE  BytesOK'
  <2>1. pc'[t] = "save" /\ g.id = f.id /\ g.m = m /\ g.req = f.req
    BY <1>0, <1>1, <1>9 DEF Goto, Frame
  <2>2. Worth("save", g, chunkFile'[f.id], bytes'[f.id])
    <3>1. ASSUME bytes'[f.id] \notin {NoFile, Unknown}
          PROVE  /\ Sound(m, f.id)
                 /\ After(f.req, old) # Unknown => HoldsBytes(m, chunkFile'[f.id], After(f.req, old))
      <4>1. faults' = faults /\ old \notin {NoFile, Unknown}
        BY <1>6, <3>1
      <4>2. Sound(m, f.id) /\ f.m.size = Len(old) /\ old \in Seq(Byte)
        BY <1>5, <1>9, <4>1 DEF Sound
      <4>3. ASSUME NEW new, new = After(f.req, old), new # Unknown PROVE HoldsBytes(m, chunkFile'[f.id], new)
        <5>1. PICK off \in Nat : off = f.req.off
          BY <1>1
        <5>2. PICK buf \in Seq(Byte) : buf = f.req.buf
          BY <1>1
        <5>3. PICK next : next = chunkFile'[f.id]
          OBVIOUS
        <5>4. PICK h : h.m = f.m /\ h.ci = f.ci + 1
          <6>1. [m |-> f.m, ci |-> f.ci + 1].m = f.m /\ [m |-> f.m, ci |-> f.ci + 1].ci = f.ci + 1
            OBVIOUS
          <6>2. QED
            BY <6>1
        <5>5. /\ new = Overwritten(old, off, buf) /\ off <= Len(old) /\ Len(new) <= MaxSize
              /\ Written(next, h, old, new)
          BY <1>7, <4>1, <4>3, <5>1, <5>2, <5>3, <5>4
        <5>6. /\ h.ci = LastChunk(off, Len(buf)) + 1 /\ m.n = Greatest(h.m.n, h.ci) /\ buf # <<>>
              /\ h.m.n \in Nat /\ LastChunk(off, Len(buf)) \in Nat /\ old \in Seq(Byte)
          BY <1>1, <1>2, <1>9, <4>2, <5>1, <5>2, <5>4
        <5>7. m.size = Len(new)
          <6>1. Len(new) = Greatest(Len(old), off + Len(buf))
            BY <4>2, <5>5, OverwrittenBytes
          <6>2. QED
            BY <1>9, <4>2, <5>1, <5>2, <6>1
        <5>8. HoldsBytes(m, next, new)
          BY <5>5, <5>6, <5>7, WrittenLast, SMTT(60)
        <5>9. QED
          BY <5>3, <5>8
      <4>4. QED
        BY <4>2, <4>3
    <3>2. bytes'[f.id] \in {old, Unknown}
      BY <1>6
    <3>3. bytes'[f.id] \notin {NoFile, Unknown} => bytes'[f.id] = old
      BY <3>2
    <3>4. g.m.id \in {g.id, NoId} /\ (bytes'[f.id] = NoFile => g.m.id = NoId)
      BY <1>5, <1>9, <2>1, <3>2, HistoryAssumption
    <3>5. QED
      BY <2>1, <3>1, <3>3, <3>4 DEF Worth, Loaded
  <2>3. BytesLocals(t)' /\ Changes(t, f.id)'
    BY <1>1, <2>1, <2>2, SMTT(30) DEF BytesLocals, Changes
  <2>4. QED
    BY <1>0, <1>4, <1>6, <2>1, <2>3, OnFileBytes
<1>10. ASSUME f.ci = lc, Goto(t, "save"), NEW n, n = Greatest(f.m.n, lc + 1),
              NEW size, size = Greatest(f.m.size, f.req.off + Len(f.req.buf)), NEW comp, NEW m,
              m = [f.m EXCEPT !.n = n, !.size = size, !.comp = comp], frame' = [frame EXCEPT ![t].m = m]
       PROVE  BytesOK'
  <2>1. m.n = n /\ m.size = size /\ m.id = f.m.id /\ m.words = f.m.words
    BY <1>1, <1>10 DEF FileMeta
  <2>2. QED
    BY <1>9, <1>10, <2>1
<1>11. QED
  BY <1>8, <1>10, ZenonT(60) DEF WriteChunk

\* A truncate that keeps the first bytes keeps their chunks.
LEMMA CutBytes ==
  ASSUME NEW m, NEW chunk, NEW old \in Seq(Byte), HoldsBytes(m, chunk, old),
         NEW ns \in 0 .. MaxSize, ns <= Len(old), NEW next,
         \A i \in ChunkIdx : i < ChunksFor(ns) => next[i] = chunk[i],
         NEW c, c.size = ns, c.n = ChunksFor(ns)
  PROVE  HoldsBytes(c, next, Resized(old, ns))
<1> PICK new : new = Resized(old, ns)
  OBVIOUS
<1>0. ns \in Nat
  BY MaxSizeNat
<1>1. ns \in Nat /\ new \in Seq(Byte) /\ Len(new) = ns /\ \A k \in 1 .. ns : new[k] = old[k]
  BY <1>0, ResizedBytes
<1>2. ASSUME NEW k \in 1 .. ns PROVE Shows(next, c.n, new, k)
  <2>1. k \in 1 .. MaxSize /\ ChunkOf(k) < ChunksFor(ns) /\ ChunksFor(ns) \in Nat
    BY KeptChunk, ChunksForType
  <2>2. PICK i \in ChunkIdx : i = ChunkOf(k)
    BY <2>1, ByteHasPlace
  <2>3. k \in 1 .. Len(old)
    BY <1>1
  <2>4. next[i] = chunk[i] /\ i \in Nat /\ ~(i >= c.n)
    BY <2>1, <2>2, ChunkIdxNat
  <2>5. Shows(chunk, m.n, old, k) /\ new[k] = old[k]
    BY <1>1, <2>3 DEF HoldsBytes
  <2>6. QED
    BY <2>2, <2>4, <2>5 DEF Shows
<1>3. QED
  BY <1>1, <1>2 DEF HoldsBytes

\* cfs_truncate removes the chunks behind the new size and sets the size.
LEMMA TrimBytes ==
  ASSUME Ready, NEW t \in Threads, UNCHANGED crashes, Promises, Trim(t)
  PROVE  BytesOK'
<1> PICK f : f = frame[t]
  BY ZenonT(60)
<1> PICK old : old = bytes[f.id]
  BY ZenonT(60)
<1> PICK g : g = frame'[t]
  BY ZenonT(60)
<1> PICK ns : ns = f.req.off
  BY ZenonT(60)
<1>0. /\ OthersStay(t) /\ pc \in [Threads -> Labels] /\ frame \in [Threads -> Frame]
      /\ pc[t] = "trim" /\ pc'[t] = "save" /\ UNCHANGED <<metaFile, faults>> /\ TypeInv
  BY StepBasics DEF HandlerStep, LockedStep, Trim, Goto
<1>1. /\ f \in Frame /\ f.id \in Ids /\ f.m \in FileMeta /\ f.req \in Requests
      /\ f.req.op = "truncate" /\ ns \in 0 .. MaxSize
  BY <1>0, InHandler DEF HandlerOK
<1>2. f.m.n \in Nat /\ f.m.size \in Nat /\ ns \in Nat /\ ChunksFor(ns) \in Nat
  BY <1>1, MaxSizeNat, ChunksForType DEF FileMeta
<1>3. bytes'[f.id] = old
  BY <1>0, <1>1, PromiseWaits
<1>4. /\ f.m.id \in {f.id, NoId} /\ (old = NoFile => f.m.id = NoId)
      /\ old \notin {NoFile, Unknown} => Sound(f.m, f.id) /\ HoldsBytes(f.m, chunkFile[f.id], old) /\ old \in Seq(Byte)
  <2>1. BytesLocals(t) /\ StoredBytes(f.id)
    BY <1>1 DEF Ready, BytesOK
  <2>2. QED
    BY <1>0, <2>1 DEF BytesLocals, Worth, Loaded, StoredBytes, Known
<1>5. ASSUME NEW m, frame' = [frame EXCEPT ![t].m = m], m.id = f.m.id, m.words = f.m.words,
             old \notin {NoFile, Unknown} /\ ns <= Len(old) => HoldsBytes(m, chunkFile'[f.id], Resized(old, ns)),
             \A id \in Ids \ {f.id} : chunkFile'[id] = chunkFile[id]
      PROVE  BytesOK'
  <2>1. g.id = f.id /\ g.m = m /\ g.req = f.req
    BY <1>0, <1>1, <1>5 DEF Frame
  <2>2. ASSUME old \notin {NoFile, Unknown}, After(f.req, old) # Unknown
        PROVE  HoldsBytes(m, chunkFile'[f.id], After(f.req, old))
    BY <1>1, <1>4, <1>5, <2>2, AfterBytes
  <2>3. Worth("save", g, chunkFile'[f.id], old)
    BY <1>4, <1>5, <2>1, <2>2 DEF Worth, Loaded, Sound
  <2>4. BytesLocals(t)' /\ Changes(t, f.id)'
    BY <1>0, <1>1, <1>3, <2>1, <2>3 DEF BytesLocals, Changes
  <2>5. QED
    BY <1>0, <1>5, <2>1, <2>4, OnFileBytes
<1>6. CASE ns = 0 \/ ns < f.m.size
  <2> PICK keep : keep = ChunksFor(ns)
    OBVIOUS
  <2> PICK m : m = [f.m EXCEPT !.n = keep, !.size = ns, !.comp = DiskSizes(chunkFile'[f.id], keep)]
    OBVIOUS
  <2>1. Store!RemoveChunks(f.id, keep, f.m.n) /\ frame' = [frame EXCEPT ![t].m = m]
    <3>1. ~(ns # 0 /\ ns >= f.m.size)
      BY <1>2, <1>6
    <3>2. QED
      BY <3>1 DEF Trim
  <2>2. m.n = keep /\ m.size = ns /\ m.id = f.m.id /\ m.words = f.m.words
    BY <1>1 DEF FileMeta
  <2>3. /\ \A x \in Ids \ {f.id} : chunkFile'[x] = chunkFile[x]
        /\ \A i \in ChunkIdx : i < keep => chunkFile'[f.id][i] = chunkFile[f.id][i]
    <3>1. ChunksGone(f.id, keep, f.m.n)
      BY <1>0, <1>1, <1>2, <2>1, RemovedChunks
    <3>2. \A i \in ChunkIdx : i < keep => ~(keep <= i)
      BY <1>2, ChunkIdxNat
    <3>3. QED
      BY <3>1, <3>2 DEF ChunksGone
  <2>4. ASSUME old \notin {NoFile, Unknown}, ns <= Len(old)
        PROVE  HoldsBytes(m, chunkFile'[f.id], Resized(old, ns))
    <3>1. PICK chunk : chunk = chunkFile[f.id]
      OBVIOUS
    <3>2. PICK next : next = chunkFile'[f.id]
      OBVIOUS
    <3>3. PICK loaded : loaded = f.m
      OBVIOUS
    <3>4. PICK cut : cut = m
      OBVIOUS
    <3>5. PICK n \in 0 .. MaxSize : n = ns
      BY <1>1
    <3>6. PICK promised \in Seq(Byte) : promised = old
      BY <1>4, <2>4
    <3>7. /\ HoldsBytes(loaded, chunk, promised) /\ \A i \in ChunkIdx : i < ChunksFor(n) => next[i] = chunk[i]
          /\ n <= Len(promised) /\ cut.size = n /\ cut.n = ChunksFor(n)
      BY <1>4, <2>2, <2>3, <2>4, <3>1, <3>2, <3>3, <3>4, <3>5, <3>6
    <3>8. HoldsBytes(cut, next, Resized(promised, n))
      BY <3>7, CutBytes
    <3>9. QED
      BY <3>2, <3>4, <3>5, <3>6, <3>8
  <2>5. QED
    BY <1>5, <2>1, <2>2, <2>3, <2>4
<1>7. CASE ns # 0 /\ ns >= f.m.size
  <2> PICK m : m = [f.m EXCEPT !.size = ns]
    OBVIOUS
  <2>1. UNCHANGED chunkFile /\ frame' = [frame EXCEPT ![t].m = m]
    <3>1. frame' = [frame EXCEPT ![t].m.size = ns] /\ UNCHANGED chunkFile
      BY <1>2, <1>7 DEF Trim
    <3>2. QED
      BY <1>0, <3>1
  <2>2. m.n = f.m.n /\ m.size = ns /\ m.id = f.m.id /\ m.words = f.m.words
    BY <1>1 DEF FileMeta
  <2>3. ASSUME old \notin {NoFile, Unknown}, ns <= Len(old)
        PROVE  HoldsBytes(m, chunkFile'[f.id], Resized(old, ns))
    <3>1. ns = Len(old) /\ old \in Seq(Byte)
      BY <1>2, <1>4, <1>7, <2>3 DEF HoldsBytes
    <3>2. Resized(old, ns) \in Seq(Byte) /\ Len(Resized(old, ns)) = ns /\ \A k \in 1 .. ns : Resized(old, ns)[k] = old[k]
      BY <1>2, <3>1, ResizedBytes
    <3>3. QED
      BY <1>4, <2>1, <2>2, <2>3, <3>1, <3>2 DEF HoldsBytes, Shows
  <2>4. QED
    BY <1>5, <2>1, <2>2, <2>3
<1>8. QED
  BY <1>2, <1>6, <1>7

\* cfs_unlink removes the chunks of a file that it is about to forget.
LEMMA UnlinkChunksBytes ==
  ASSUME Ready, NEW t \in Threads, UNCHANGED crashes, Promises, UnlinkChunks(t)
  PROVE  BytesOK'
<1> PICK f : f = frame[t]
  BY ZenonT(60)
<1>0. /\ OthersStay(t) /\ pc \in [Threads -> Labels] /\ UNCHANGED <<frame, metaFile>>
      /\ pc[t] = "unlink_chunks" /\ pc'[t] = "unlink_meta" /\ TypeInv
      /\ Store!RemoveChunks(f.id, 0, f.m.n)
  BY StepBasics DEF HandlerStep, UnlinkStep, UnlinkChunks, Goto
<1>1. f.id \in Ids /\ f.m.n \in Nat
  BY <1>0, InHandler DEF FileMeta
<1>2. \A x \in Ids \ {f.id} : chunkFile'[x] = chunkFile[x]
  BY <1>0, <1>1, Others DEF Store!RemoveChunks
<1>3. BytesLocals(t)' /\ Changes(t, f.id)'
  BY <1>0, NothingLoaded DEF Loaded, Changes
<1>4. QED
  BY <1>0, <1>2, <1>3, OnFileBytes

\* cfs_rename removes the chunks of the file that it replaces, if there is one.
LEMMA RenameVictimBytes ==
  ASSUME Ready, NEW t \in Threads, UNCHANGED crashes, Promises, RenameVictim(t)
  PROVE  BytesOK'
<1> PICK f : f = frame[t]
  BY ZenonT(60)
<1> PICK x : x = index[f.req.to]
  OBVIOUS
<1>0. /\ OthersStay(t) /\ pc \in [Threads -> Labels] /\ frame \in [Threads -> Frame] /\ f \in Frame
      /\ pc[t] = "rename_victim" /\ UNCHANGED metaFile /\ TypeInv
      /\ f.req.op = "rename" /\ f.req.to \in Paths
  BY StepBasics, InHandler DEF HandlerStep, RenameStep, RenameVictim, HandlerOK, RenameLabels
<1>1. frame'[t].eid = x
  BY <1>0 DEF RenameVictim, Frame
<1>2. CASE x = NoId
  <2>1. pc'[t] = "rename_load" /\ UNCHANGED chunkFile
    BY <1>0, <1>2 DEF RenameVictim, Goto
  <2>2. BytesLocals(t)'
    BY <2>1, NothingLoaded DEF Loaded
  <2>3. QED
    BY <1>0, <2>1, <2>2, BytesQuiet DEF Promising, Ready
<1>3. CASE x # NoId
  <2>1. pc'[t] = "rename_erase" /\ Store!RemoveChunks(x, 0, Load(x).n)
    BY <1>0, <1>3 DEF RenameVictim, Goto
  <2>2. x \in Ids /\ Private(t, x)
    BY <1>0, <1>3, Others, NameOpSole, SolePrivate DEF NameOps, Ready
  <2>3. \A id \in Ids \ {x} : chunkFile'[id] = chunkFile[id]
    BY <1>0, <2>1, <2>2, Others DEF Store!RemoveChunks
  <2>4. \A id \in Ids : bytes'[id] = bytes[id]
    BY <1>0, PromiseKept DEF Promising
  <2>5. StoredBytes(x)'
    <3>1. StoredBytes(x) /\ Changes(t, x)'
      BY <1>1, <2>1, <2>2 DEF Ready, BytesOK, Changes
    <3>2. QED
      BY <1>0, <2>2, <2>4, <3>1 DEF StoredBytes, Stored, Known
  <2>6. BytesLocals(t)' /\ \A id \in Ids : ~Changes(t, id)
    BY <1>0, <2>1, NothingLoaded DEF Loaded, Changes
  <2>7. QED
    BY <1>0, <2>2, <2>3, <2>4, <2>5, <2>6, BytesStep DEF Ready
<1>4. QED
  BY <1>2, <1>3

-----------------------------------------------------------------------------
(* The start, a crash, and the invariant.                                      *)

\* A cut of a sequence holds the sequence's elements, counted from the cut's start.
LEMMA CutElement ==
  ASSUME NEW S, NEW s \in Seq(S), NEW a \in Nat, NEW b \in Nat, a <= b, b <= Len(s), NEW n \in 1 .. b - a
  PROVE  Len(SubSeq(s, a + 1, b)) = b - a /\ SubSeq(s, a + 1, b)[n] = s[a + n]
<1> DEFINE q == SubSeq(s, a + 1, b)
<1>1. Len(q) = b - a
  OBVIOUS
<1>2. q[n] = s[a + n]
  OBVIOUS
<1>3. QED
  BY <1>1, <1>2

\* Byte k of what was written to the files of the first mount is in its chunk; a chunk has zeros behind
\* its end.
LEMMA InitByte ==
  ASSUME NEW k \in 1 .. MaxSize
  PROVE  /\ ByteAt(InitChunks[ChunkOf(k)], PlaceOf(k)) = IF k <= Len(InitBytes) THEN InitBytes[k] ELSE 0
         /\ k <= Len(InitBytes) => PlaceOf(k) <= Len(InitChunks[ChunkOf(k)])
<1> PICK i \in ChunkIdx : i = ChunkOf(k)
  BY ByteHasPlace
<1> PICK at \in 1 .. ChunkSize : at = PlaceOf(k)
  BY ByteHasPlace
<1> PICK lo \in Nat : lo = i * ChunkSize
  BY ChunkIdxNat, ChunkSizeAssumption
<1> PICK len \in Nat : len = Len(InitBytes)
  BY InitAssumption
<1> PICK hi \in Nat : hi = Least(lo + ChunkSize, len)
  BY ChunkSizeAssumption DEF Least
<1>1. k = lo + at /\ at \in Nat /\ at >= 1 /\ at <= ChunkSize
  BY ByteHasPlace, ChunkSizeAssumption
<1>2. (i + 1) * ChunkSize = lo + ChunkSize
  BY ChunkIdxNat, ChunkSizeAssumption
<1>3. InitChunks[i] = SubSeq(InitBytes, lo + 1, hi)
  BY <1>2 DEF InitChunks, InitChunk
<1>4. hi <= len /\ hi <= lo + ChunkSize /\ (hi = len \/ hi = lo + ChunkSize)
  BY ChunkSizeAssumption DEF Least
<1>5. CASE k <= len
  <2>1. k <= hi
    BY <1>1, <1>4, <1>5, ChunkSizeAssumption
  <2>2. lo <= hi /\ at \in 1 .. hi - lo
    BY <1>1, <2>1
  <2>3. Len(InitChunks[i]) = hi - lo /\ InitChunks[i][at] = InitBytes[k]
    <3>1. PICK b \in Seq(Byte) : b = InitBytes
      BY InitAssumption
    <3>2. PICK m \in Nat : m = lo
      OBVIOUS
    <3>3. PICK h \in Nat : h = hi
      OBVIOUS
    <3>4. PICK n \in 1 .. h - m : n = at
      BY <2>2, <3>2, <3>3
    <3>5. m <= h /\ h <= Len(b)
      BY <1>4, <2>2, <3>1, <3>2, <3>3
    <3>6. Len(SubSeq(b, m + 1, h)) = h - m /\ SubSeq(b, m + 1, h)[n] = b[m + n]
      BY <3>5, CutElement
    <3>7. InitChunks[i] = SubSeq(b, m + 1, h) /\ k = m + n
      BY <1>1, <1>3, <3>1, <3>2, <3>3, <3>4
    <3>8. QED
      BY <3>1, <3>2, <3>3, <3>4, <3>6, <3>7
  <2>4. at <= hi - lo
    BY <1>1, <2>1
  <2>5. QED
    BY <1>5, <2>3, <2>4 DEF ByteAt
<1>6. CASE ~(k <= len)
  <2>1. ASSUME NEW s \in Seq(Byte), hi <= Len(s)
        PROVE  ~(at <= Len(SubSeq(s, lo + 1, hi)))
    BY <1>1, <1>4, <1>6, <2>1
  <2>2. ~(at <= Len(InitChunks[i]))
    BY <1>3, <1>4, <2>1, InitAssumption
  <2>3. QED
    BY <1>6, <2>2 DEF ByteAt
<1>7. QED
  BY <1>5, <1>6

\* The files that the first mount finds are promised as they are.
LEMMA InitBytesOK == PathsReadBack /\ StoreInit => BytesOK
<1> SUFFICES ASSUME PathsReadBack, StoreInit PROVE BytesOK
  OBVIOUS
<1>0. Init
  BY DEF StoreInit
<1>1. ASSUME NEW id \in Ids PROVE StoredBytes(id)
  <2>1. CASE \E p \in InitFiles : HashOf[p] = id
    <3> PICK new : new = Resized(InitBytes, InitSize)
      OBVIOUS
    <3>1. PICK q : q = CHOOSE p \in InitFiles : HashOf[p] = id
      OBVIOUS
    <3>2. q \in InitFiles /\ HashOf[q] = id /\ q \in Paths
      BY <2>1, <3>1, InitAssumption
    <3>3. metaFile[id] = InitMeta(q) /\ chunkFile[id] = InitChunks
      BY <1>0, <2>1, <3>1 DEF Init
    <3>4. /\ InitMeta(q).id = id /\ InitMeta(q).words = Words[q] /\ InitMeta(q).size = InitSize
          /\ InitMeta(q).n = ChunksFor(Len(InitBytes))
      BY <3>2 DEF InitMeta, NewMeta, DefaultMeta
    <3>5. Stored(id)
      BY <3>2, <3>3, InitMetaType, NoMetaAssumption DEF Stored
    <3>6. bytes[id] = new
      BY <3>5 DEF StoreInit
    <3>7. InitSize \in Nat /\ InitSize <= MaxSize /\ InitBytes \in Seq(Byte) /\ Len(InitBytes) \in Nat
      BY InitAssumption, MaxSizeNat
    <3>8. new = [k \in 1 .. InitSize |-> IF k <= Len(InitBytes) THEN InitBytes[k] ELSE 0]
      BY DEF Resized
    <3>9. new \in Seq(Byte) /\ Len(new) = InitSize
      <4>1. \A k \in 1 .. InitSize : (IF k <= Len(InitBytes) THEN InitBytes[k] ELSE 0) \in Byte
        BY <3>7, ByteAssumption
      <4>2. new \in [1 .. InitSize -> Byte]
        BY <3>8, <4>1
      <4>3. QED
        BY <3>7, <3>8, <4>2, FunctionIsSeq
    <3>10. ASSUME NEW k \in 1 .. InitSize PROVE Shows(InitChunks, InitMeta(q).n, new, k)
      <4>1. k \in 1 .. MaxSize
        BY <3>7, MaxSizeNat
      <4>2. Here(InitChunks[ChunkOf(k)], PlaceOf(k), new[k])
        BY <3>7, <3>8, <4>1, InitByte DEF Here, NoHoles
      <4>3. ChunkOf(k) >= InitMeta(q).n => InitChunks[ChunkOf(k)] = <<>>
        BY <3>4, <4>1, ByteHasPlace, InitChunksEnd
      <4>4. QED
        BY <4>2, <4>3 DEF Shows
    <3>11. HoldsBytes(metaFile[id], chunkFile[id], new)
      BY <3>3, <3>4, <3>9, <3>10 DEF HoldsBytes
    <3>12. Sound(metaFile[id], id) /\ bytes[id] # NoFile
      BY <3>2, <3>3, <3>4, <3>6, <3>9, HistoryAssumption DEF Sound, PathsReadBack
    <3>13. QED
      BY <3>3, <3>4, <3>5, <3>6, <3>9, <3>11, <3>12 DEF StoredBytes
  <2>2. CASE ~\E p \in InitFiles : HashOf[p] = id
    <3>1. ~Stored(id)
      BY <1>0, <2>2 DEF Init, Stored
    <3>2. bytes[id] = NoFile
      BY <3>1 DEF StoreInit
    <3>3. QED
      BY <3>1, <3>2 DEF StoredBytes, Known
  <2>3. QED
    BY <2>1, <2>2
<1>2. \A t \in Threads : BytesLocals(t)
  BY <1>0 DEF Init, BytesLocals, Worth, Loaded
<1>3. QED
  BY <1>1, <1>2 DEF BytesOK

\* A handler that changes id counts it among the files that a crash may hurt.
LEMMA ChangesChanging ==
  ASSUME NEW t \in Threads, NEW id, Changes(t, id)
  PROVE  id \in Changing
BY DEF Changes, Changing

\* After a crash a file that no handler was changing is what it was, and nothing is promised of the others.
LEMMA CrashBytes ==
  ASSUME Ready, CrashAndMount, Promises
  PROVE  BytesOK'
<1>0. TypeInv /\ crashes' # crashes /\ \A t \in Threads : pc'[t] = "idle"
  <2>1. crashes \in Nat /\ TypeInv
    BY BoundsAssumption DEF Ready, Orderly, TypeInv, TypeOK
  <2>2. QED
    BY <2>1 DEF CrashAndMount
<1>1. \A t \in Threads : BytesLocals(t)'
  BY <1>0, NothingLoaded DEF Loaded
<1>2. ASSUME NEW id \in Ids PROVE bytes'[id] = IF id \in Changing THEN Unknown ELSE bytes[id]
  BY <1>0 DEF Promises, NextBytes
<1>3. \/ metaFile' = metaFile
      \/ \E x \in Ids \cap Changing : metaFile' = TornMeta(x)
  <2>1. ASSUME NEW t \in Threads, pc[t] \in Saving, frame[t].m.id # NoId PROVE frame[t].m.id \in Ids \cap Changing
    <3>1. frame[t].id \in Ids
      BY <1>0, <2>1, InHandler DEF Saving
    <3>2. Worth(pc[t], frame[t], chunkFile[frame[t].id], bytes[frame[t].id])
      BY DEF Ready, BytesOK, BytesLocals
    <3>3. frame[t].m.id = frame[t].id
      BY <2>1, <3>2 DEF Worth, Loaded, Saving
    <3>4. QED
      BY <2>1, <3>1, <3>3 DEF Changing, Saving
  <2>2. QED
    BY <2>1 DEF CrashAndMount, CrashMetaStore
<1>4. ASSUME NEW id \in Ids \ Changing PROVE chunkFile'[id] = chunkFile[id]
  <2>1. chunkFile \in [Ids -> [ChunkIdx -> Chunk]]
    BY <1>0, Others
  <2>2. ASSUME NEW x, x # id, \E c : chunkFile' = [chunkFile EXCEPT ![x] = c] PROVE chunkFile'[id] = chunkFile[id]
    BY <2>1, <2>2
  <2>3. CrashChunkStore
    BY DEF CrashAndMount
  <2>4. ASSUME NEW t \in Threads, pc[t] = "chunk", chunkFile' \in Store!TornChunk(frame[t].id, frame[t].ci)
        PROVE  chunkFile'[id] = chunkFile[id]
    BY <1>4, <2>1, <2>4 DEF Changing, Store!TornChunk
  <2>5. ASSUME NEW x, x # id, NEW from, NEW n, chunkFile' \in Store!TornRemoval(x, from, n)
        PROVE  chunkFile'[id] = chunkFile[id]
    BY <2>1, <2>5 DEF Store!TornRemoval
  <2>6. ASSUME NEW t \in Threads, pc[t] \in {"trim", "unlink_chunks"} PROVE frame[t].id # id
    BY <1>4, <2>6 DEF Changing
  <2>7. ASSUME NEW t \in Threads, pc[t] = "rename_victim" PROVE index[frame[t].req.to] # id
    BY <1>4, <2>7 DEF Changing
  <2>8. QED
    BY <2>3, <2>4, <2>5, <2>6, <2>7 DEF CrashChunkStore
<1>5. ASSUME NEW id \in Ids PROVE StoredBytes(id)'
  <2>1. StoredBytes(id) /\ metaFile \in [Ids -> FileMeta \cup {NoMeta}]
    BY <1>0, Others DEF Ready, BytesOK
  <2>2. CASE id \in Changing
    <3>1. bytes'[id] = Unknown
      BY <1>2, <2>2
    <3>2. metaFile'[id] = metaFile[id] \/ metaFile'[id].id = NoId
      BY <1>3, <2>1 DEF TornMeta, DefaultMeta
    <3>3. QED
      BY <2>1, <3>1, <3>2, HistoryAssumption DEF StoredBytes, Stored, Known
  <2>3. CASE id \notin Changing
    <3>1. bytes'[id] = bytes[id] /\ chunkFile'[id] = chunkFile[id]
      BY <1>2, <1>4, <2>3
    <3>2. metaFile'[id] = metaFile[id]
      BY <1>3, <2>1, <2>3 DEF TornMeta
    <3>3. \A t \in Threads : ~Changes(t, id)
      BY <2>3, ChangesChanging
    <3>4. QED
      BY <2>1, <3>1, <3>2, <3>3 DEF StoredBytes, Stored, Known
  <2>4. QED
    BY <2>2, <2>3
<1>6. QED
  BY <1>1, <1>5 DEF BytesOK

\* Every step of the daemon, and every crash.
LEMMA NextBytesOK ==
  ASSUME Ready, [StoreNext]_<<vars, history>>
  PROVE  BytesOK'
<1>1. ASSUME UNCHANGED <<vars, history>> PROVE BytesOK'
  <2>1. BytesOK
    BY DEF Ready
  <2>2. ASSUME NEW id \in Ids PROVE StoredBytes(id)'
    BY <1>1, <2>1 DEF vars, history, BytesOK, StoredBytes, Stored, Known, Changes
  <2>3. ASSUME NEW t \in Threads PROVE BytesLocals(t)'
    BY <1>1, <2>1 DEF vars, history, BytesOK, BytesLocals
  <2>4. QED
    BY <2>2, <2>3 DEF BytesOK
<1>2. ASSUME StoreNext PROVE BytesOK'
  <2>1. Promises /\ Next
    BY <1>2 DEF StoreNext, Promises
  <2>2. ASSUME NEW t \in Threads, Begin(t) \/ HandlerStep(t) \/ TaskStep(t) PROVE BytesOK'
    <3>1. UNCHANGED crashes
      BY <2>2, StepIsNoCrash
    <3>2. QED
      BY <2>1, <2>2, <3>1, BeginBytes, QuietBytes, WriteLockBytes, LoaderBytes, CreateSaveBytes, SaverBytes, RemoverBytes,
         WriteChunkBytes, TrimBytes, UnlinkChunksBytes, RenameVictimBytes
      DEF HandlerStep, CreateStep, LockedStep, UnlinkStep, RenameStep, ChmodStep
  <2>3. QED
    BY <2>1, <2>2, CrashBytes DEF Next
<1>3. QED
  BY <1>1, <1>2

\* What holds of every state of the mount and its disk.
StoreInv == TypeInv /\ NameInv /\ LockInv /\ FreeInv /\ BytesOK /\ CleanInv

\* At any point, also after crashes, what is on disk for a file that no handler is changing is what its
\* answers promise, and what the handlers that are inside have loaded, written or removed so far is what
\* their request makes of it (StoredBytes, BytesLocals).
THEOREM BytesInvariant == ReuseIds = FALSE /\ PathsReadBack /\ StoreSpec /\ []ChmodApart => []StoreInv
<1> SUFFICES ASSUME ReuseIds = FALSE, PathsReadBack PROVE StoreSpec /\ []ChmodApart => []StoreInv
  OBVIOUS
<1>1. StoreInit => StoreInv
  <2>1. Init => FreeInv
    BY DEF Init, FreeInv, CreateLabels
  <2>2. QED
    BY <2>1, InitTypeInv, InitNameInv, InitLockInv, InitBytesOK, InitClean DEF StoreInv, StoreInit
<1>2. StoreInv /\ ChmodApart /\ [StoreNext]_<<vars, history>> => StoreInv'
  <2> SUFFICES ASSUME StoreInv, ChmodApart, [StoreNext]_<<vars, history>> PROVE StoreInv'
    OBVIOUS
  <2>1. [Next]_vars
    BY DEF StoreNext
  <2>2. Ready
    BY DEF Ready, Orderly, StoreInv
  <2>3. QED
    BY <2>1, <2>2, NextTypeInv, NextNameInv, NextLockInv, NextFreeInv, NextBytesOK, NextClean DEF StoreInv
<1>3. QED
  BY <1>1, <1>2, PTL DEF StoreSpec

\* The disk holds every byte that cfs_write, cfs_truncate and the others have answered for: a file that no
\* handler is changing has the promised size and contents, after any overlap of requests, whatever its id
\* held before, and after any crash that met no handler changing this file; a deleted file is gone.
THEOREM BytesAreKept == ReuseIds = FALSE /\ PathsReadBack /\ StoreSpec /\ []ChmodApart => []BytesKept
<1>1. StoreInv => BytesKept
  <2> SUFFICES ASSUME StoreInv, NEW id \in Ids \ Changing
               PROVE  CASE bytes[id] = Unknown -> TRUE
                        [] bytes[id] = NoFile  -> ~Stored(id)
                        [] OTHER -> Stored(id) /\ ContentsOf(chunkFile[id], Load(id).size) = bytes[id]
    BY DEF BytesKept
  <2>0. CASE bytes[id] = Unknown
    BY <2>0, HistoryAssumption
  <2>1. CASE bytes[id] = NoFile
    <3>1. ~Stored(id)
      BY <2>1, HistoryAssumption DEF StoreInv, BytesOK, StoredBytes
    <3>2. QED
      BY <2>1, <3>1, HistoryAssumption
  <2>2. CASE bytes[id] \notin {NoFile, Unknown}
    <3>1. \A t \in Threads : ~Changes(t, id)
      BY ChangesChanging
    <3>2. /\ Load(id) \in FileMeta /\ bytes[id] \in Seq(Byte) /\ Stored(id) /\ Load(id).size = Len(bytes[id])
          /\ HoldsBytes(Load(id), chunkFile[id], bytes[id])
      BY <2>2, <3>1, LoadBytes DEF StoreInv, Known
    <3>3. PICK c \in [ChunkIdx -> Chunk] : c = chunkFile[id]
      BY Others DEF StoreInv
    <3>4. PICK s \in 0 .. MaxSize : s = Load(id).size
      BY <3>2 DEF FileMeta
    <3>5. PICK b \in Seq(Byte) : b = bytes[id]
      BY <3>2
    <3>6. /\ ContentsOf(c, s) \in Seq(Byte) /\ Len(ContentsOf(c, s)) = s
          /\ \A k \in 1 .. s : ContentsOf(c, s)[k] = ByteAt(c[ChunkOf(k)], PlaceOf(k))
      BY ContentsBytes
    <3>7. \A k \in 1 .. s : ByteAt(c[ChunkOf(k)], PlaceOf(k)) = b[k]
      BY <3>2, <3>3, <3>4, <3>5 DEF HoldsBytes, Shows, Here
    <3>8. ContentsOf(c, s) = b
      <4>1. s = Len(b)
        BY <3>2, <3>4, <3>5
      <4>2. QED
        BY <3>6, <3>7, <4>1, SameSeq
    <3>9. QED
      BY <2>2, <3>2, <3>3, <3>4, <3>5, <3>8
  <2>3. QED
    BY <2>0, <2>1, <2>2
<1>2. QED
  BY <1>1, BytesInvariant, PTL

-----------------------------------------------------------------------------
(* What a read that is inside has fetched so far. *)

\* The chunks that the read f asks the pool for.
Wanted(f) == FirstChunk(f.req.off) .. LastChunk(f.req.off, Least(f.req.len, f.m.size - f.req.off))

\* A task that reads a chunk has its file locked, shared.
TasksHold(t) ==
  \A ci \in ChunkIdx : task[t][ci].st = "reading" =>
    \E h \in holds : h.thread = t /\ h.role = Task(ci) /\ h.id = frame[t].id /\ h.shared

\* Nothing that a read is not prepared for has happened to the file since it took its size.
Calm(t) == /\ \A ci \in ChunkIdx : task[t][ci].st # "failed"
           /\ \A v \in seen[t] : v # Unknown /\ Len(v) >= frame[t].m.size

\* Every chunk that was fetched is that of one of the contents that the file had meanwhile.
ReadOK(t) ==
  pc[t] = "tasks" =>
    /\ Stored(frame[t].id) /\ bytes[frame[t].id] \in seen[t]
    /\ \A ci \in ChunkIdx \cap Wanted(frame[t]) : task[t][ci].st # "none"
    /\ TasksHold(t)
    /\ Calm(t) => \A ci \in ChunkIdx : task[t][ci].st = "done" =>
         \E v \in seen[t] : ChunkShows(task[t][ci].data, ci, v, frame[t].m.size)

\* What the reads may show is kept up to date.
Sees == seen' = [t \in Threads |-> NextSeen(t)]

\* A read is with its file: no deletion of the file and no rename onto it runs beside it.
LEMMA ReaderKeepsFile ==
  ASSUME Orderly, NEW t \in Threads, pc[t] = "tasks", NEW u \in Threads,
         \/ pc[u] = "unlink_meta" /\ frame[u].id = frame[t].id
         \/ pc[u] = "rename_erase" /\ frame[u].eid = frame[t].id
  PROVE  FALSE
<1>1. TypeInv /\ HandlerOK(u) /\ u # t /\ pc[u] # "idle" /\ frame[t].id \in Ids
  BY InHandler DEF Orderly
<1>2. CASE pc[u] = "unlink_meta" /\ frame[u].id = frame[t].id
  BY <1>1, <1>2, NameOpSole DEF HandlerOK, UnlinkLabels, NameOps, Sole
<1>3. CASE pc[u] = "rename_erase" /\ frame[u].eid = frame[t].id
  <2>1. frame[u].req.op = "rename" /\ index[frame[u].req.to] = frame[t].id
    BY <1>1, <1>3 DEF HandlerOK, RenameLabels, Orderly, FreeInv
  <2>2. QED
    BY <1>1, <2>1, NameOpSole, NoIdAssumption DEF NameOps, Sole
<1>4. QED
  BY <1>2, <1>3

\* A step of one thread leaves the tasks and the locks of the others as they are.
LEMMA OthersTasks ==
  ASSUME TypeInv, NEW u \in Threads, Begin(u) \/ HandlerStep(u) \/ TaskStep(u), NEW t \in Threads \ {u}
  PROVE  /\ task'[t] = task[t]
         /\ \A h \in holds : h.thread = t => h \in holds'
<1>0. task \in [Threads -> [ChunkIdx -> TaskRecord]]
  BY Others, SMTT(30)
<1>1. CASE Begin(u) \/ FileLock(u) \/ CreateStep(u) \/ RenameStep(u) \/ ChmodStep(u)
  BY <1>1 DEF Begin, FileLock, CreateStep, CreateSave, CreateIndex, RenameStep, RenameVictim, RenameErase,
     RenameDrop, RenameLoad, RenameSave, RenameOut, RenameIn, ChmodStep, ChmodLoad, ChmodSave
<1>2. CASE ReadStep(u)
  BY <1>0, <1>2 DEF ReadStep, ReadLoad, ReadReply
<1>3. CASE LockedStep(u) \/ UnlinkStep(u)
  <2>1. UNCHANGED task
    BY <1>3 DEF LockedStep, WriteLock, WriteChunk, Trim, SaveMeta, UnlinkStep, UnlinkChunks, UnlinkMeta,
       UnlinkIndex, UnlinkLock
  <2>2. \A h \in holds : h.thread # u => h \in holds'
    <3>1. \/ UNCHANGED holds
          \/ \E k : Locks!Acquire(k)
          \/ Locks!Unlock(u, Handler)
      BY <1>3 DEF LockedStep, WriteLock, WriteChunk, Trim, SaveMeta, UnlinkStep, UnlinkChunks, UnlinkMeta,
         UnlinkIndex, UnlinkLock
    <3>2. QED
      BY <3>1 DEF Locks!Acquire, Locks!Unlock
  <2>3. QED
    BY <2>1, <2>2
<1>4. CASE TaskStep(u)
  <2>1. PICK ci \in ChunkIdx : TaskStart(u, ci) \/ TaskLock(u, ci) \/ TaskRead(u, ci)
    BY <1>4 DEF TaskStep
  <2>2. task'[t] = task[t]
    BY <1>0, <2>1 DEF TaskStart, TaskLock, TaskRead
  <2>3. \A h \in holds : h.thread # u => h \in holds'
    <3>1. \/ UNCHANGED holds
          \/ \E k : Locks!Acquire(k)
          \/ Locks!Unlock(u, Task(ci))
      BY <2>1 DEF TaskStart, TaskLock, TaskRead
    <3>2. QED
      BY <3>1 DEF Locks!Acquire, Locks!Unlock
  <2>4. QED
    BY <2>2, <2>3
<1>5. QED
  BY <1>1, <1>2, <1>3, <1>4, SMTT(30) DEF HandlerStep

\* What a read may show grows.
LEMMA SeenGrows ==
  ASSUME Sees, NEW t \in Threads, pc[t] = "tasks", pc'[t] = "tasks", frame'[t] = frame[t]
  PROVE  seen[t] \subseteq seen'[t] /\ bytes'[frame[t].id] \in seen'[t]
BY DEF Sees, NextSeen

\* A read goes on while its file is there.
LEMMA ReaderFile ==
  ASSUME Ready, NEW t \in Threads, pc[t] = "tasks", Stored(frame[t].id), NEW u \in Threads,
         Begin(u) \/ HandlerStep(u) \/ TaskStep(u)
  PROVE  metaFile'[frame[t].id] # NoMeta
<1>1. TypeInv /\ frame[t].id \in Ids
  BY InHandler DEF Ready, Orderly
<1>2. PICK id \in Ids : id = frame[t].id
  BY <1>1
<1>3. \/ Stored(id)'
      \/ pc[u] = "unlink_meta" /\ frame[u].id = id
      \/ pc[u] = "rename_erase" /\ frame[u].eid = id
  BY <1>1, <1>2, StoredStays
<1>4. QED
  BY <1>2, <1>3, ReaderKeepsFile DEF Ready, Stored

\* A step of another thread changes nothing that a read has fetched.
LEMMA OtherReads ==
  ASSUME Ready, NEW t \in Threads, ReadOK(t), NEW u \in Threads \ {t},
         Begin(u) \/ HandlerStep(u) \/ TaskStep(u), OthersStay(u), Sees
  PROVE  ReadOK(t)'
<1> SUFFICES ASSUME pc'[t] = "tasks" PROVE ReadOK(t)'
  BY DEF ReadOK
<1>1. pc[t] = "tasks" /\ frame'[t] = frame[t] /\ TypeInv
  BY DEF OthersStay, Ready, Orderly
<1>2. task'[t] = task[t] /\ \A h \in holds : h.thread = t => h \in holds'
  BY <1>1, OthersTasks
<1>3. seen[t] \subseteq seen'[t] /\ bytes'[frame[t].id] \in seen'[t]
  BY <1>1, SeenGrows
<1>4. metaFile'[frame[t].id] # NoMeta
  BY <1>1, ReaderFile DEF ReadOK
<1>5. TasksHold(t)'
  BY <1>1, <1>2 DEF ReadOK, TasksHold
<1>6. Calm(t)' => Calm(t)
  BY <1>1, <1>2, <1>3 DEF Calm
<1>7. ASSUME Calm(t)', NEW ci \in ChunkIdx, task'[t][ci].st = "done"
      PROVE  \E v \in seen'[t] : ChunkShows(task'[t][ci].data, ci, v, frame'[t].m.size)
  BY <1>1, <1>2, <1>3, <1>6, <1>7 DEF ReadOK
<1>8. \A ci \in ChunkIdx \cap Wanted(frame'[t]) : task'[t][ci].st # "none"
  BY <1>1, <1>2 DEF ReadOK
<1>9. QED
  BY <1>1, <1>3, <1>4, <1>5, <1>7, <1>8 DEF ReadOK, Stored

\* While nobody holds the lock of its file alone, nobody is changing the file that a read is about.
LEMMA SharedUnchanged ==
  ASSUME Orderly, NEW t \in Threads, pc[t] = "tasks", \A h \in holds : h.id = frame[t].id => h.shared,
         NEW u \in Threads
  PROVE  ~Changes(u, frame[t].id)
<1>1. CASE pc[u] \in Exclusive /\ frame[u].id = frame[t].id
  <2>1. PICK h : h = Locks!HoldOf(frame[u].id, gen[frame[u].id], u, Handler, FALSE)
    OBVIOUS
  <2>2. h \in holds /\ h.id = frame[t].id /\ ~h.shared
    BY <1>1, <2>1 DEF Orderly, LockInv, Holding, Locks!HoldOf
  <2>3. QED
    BY <2>2
<1>2. CASE pc[u] = "rename_erase" /\ frame[u].eid = frame[t].id
  BY <1>2, ReaderKeepsFile
<1>3. QED
  BY <1>1, <1>2 DEF Changes, Exclusive

\* A task that may share the lock of its file meets nobody who holds it alone.
LEMMA LockerShares ==
  ASSUME Orderly, NEW t \in Threads, NEW ci \in ChunkIdx, task[t][ci].st = "locking",
         Locks!CanLockShared(frame[t].id, task[t][ci].lk), NEW h \in holds, h.id = frame[t].id
  PROVE  h.shared
<1>1. task[t][ci].lk = gen[frame[t].id]
  BY DEF Orderly, LockInv, RefsLive
<1>2. h.gen = gen[frame[t].id]
  BY DEF Orderly, LockInv, HoldOK
<1>3. h \in Locks!Holders(frame[t].id, task[t][ci].lk)
  BY <1>1, <1>2 DEF Locks!Holders
<1>4. QED
  BY <1>3 DEF Locks!CanLockShared

\* Nor does one that holds it.
LEMMA ReaderShares ==
  ASSUME Orderly, NEW t \in Threads, TasksHold(t), NEW ci \in ChunkIdx, task[t][ci].st = "reading",
         NEW h \in holds, h.id = frame[t].id
  PROVE  h.shared
<1>1. PICK k \in holds : k.id = frame[t].id /\ k.shared
  BY DEF TasksHold
<1>2. QED
  BY <1>1 DEF Orderly, LockInv, FileExclusion

\* What lies on disk for a chunk of a file that nobody is changing is the chunk of its promised contents.
LEMMA ChunkOnDisk ==
  ASSUME Ready, NoHoles, NEW id \in Ids, Stored(id), \A u \in Threads : ~Changes(u, id),
         NEW size \in Nat, bytes[id] # Unknown, Len(bytes[id]) >= size, NEW ci \in ChunkIdx
  PROVE  ChunkShows(chunkFile[id][ci], ci, bytes[id], size)
<1>1. PICK b \in Seq(Byte) : b = bytes[id] /\ HoldsBytes(metaFile[id], chunkFile[id], bytes[id])
  BY DEF Ready, BytesOK, StoredBytes, Known
<1>2. ASSUME NEW k \in 1 .. size, ChunkOf(k) = ci
      PROVE  PlaceOf(k) <= Len(chunkFile[id][ci]) /\ chunkFile[id][ci][PlaceOf(k)] = b[k]
  <2>1. k \in 1 .. Len(b)
    BY <1>1
  <2>2. Here(chunkFile[id][ci], PlaceOf(k), b[k])
    BY <1>1, <1>2, <2>1 DEF HoldsBytes, Shows
  <2>3. QED
    BY <2>2 DEF Here, ByteAt
<1>3. QED
  BY <1>1, <1>2 DEF ChunkShows

\* A read that starts has fetched nothing.
LEMMA ReadLoadReads ==
  ASSUME Ready, NEW t \in Threads, ReadLoad(t), Sees
  PROVE  ReadOK(t)'
<1> SUFFICES ASSUME pc'[t] = "tasks" PROVE ReadOK(t)'
  BY DEF ReadOK
<1>0. /\ TypeInv /\ pc \in [Threads -> Labels] /\ frame \in [Threads -> Frame]
      /\ task \in [Threads -> [ChunkIdx -> TaskRecord]]
  BY Others DEF Ready, Orderly, TypeInv, TypeOK
<1>1. PICK m : m = Load(frame[t].id)
  OBVIOUS
<1>2. PICK w : w = FirstChunk(frame[t].req.off) .. LastChunk(frame[t].req.off, Least(frame[t].req.len, m.size - frame[t].req.off))
  OBVIOUS
<1>3. /\ Stored(frame[t].id) /\ UNCHANGED metaFile
      /\ frame' = [frame EXCEPT ![t].m = m]
      /\ task' = [task EXCEPT ![t] = [ci \in ChunkIdx |-> IF ci \in w THEN [NoTask EXCEPT !.st = "queued"] ELSE NoTask]]
  BY <1>0, <1>1, <1>2 DEF ReadLoad, Finish, Goto
<1>4. frame'[t] = [frame[t] EXCEPT !.m = m] /\ frame[t] \in Frame
  BY <1>0, <1>3
<1>5. frame'[t].id = frame[t].id /\ Wanted(frame'[t]) = w
  BY <1>2, <1>4 DEF Wanted, Frame
<1>6. \A ci \in ChunkIdx : task'[t][ci].st = IF ci \in w THEN "queued" ELSE "none"
  BY <1>0, <1>3 DEF NoTask
<1>7. bytes'[frame'[t].id] \in seen'[t]
  BY DEF Sees, NextSeen
<1>8. TasksHold(t)'
  BY <1>6 DEF TasksHold
<1>9. QED
  BY <1>3, <1>5, <1>6, <1>7, <1>8 DEF ReadOK, Stored

\* How a step of the task for chunk ci of t leaves the rest of the read.
TaskAt(t, ci) ==
  /\ pc[t] = "tasks" /\ pc'[t] = "tasks" /\ frame'[t] = frame[t]
  /\ UNCHANGED <<metaFile, chunkFile>>
  /\ task[t][ci].st \notin {"none", "done", "failed"} /\ task'[t][ci].st # "none"
  /\ \A i \in ChunkIdx \ {ci} : task'[t][i] = task[t][i]

\* The read goes on as it should if this one chunk does.
LEMMA OneTask ==
  ASSUME TypeInv, NEW t \in Threads, ReadOK(t), NEW ci \in ChunkIdx, TaskAt(t, ci), TasksHold(t)', Sees,
         Calm(t)' /\ task'[t][ci].st = "done" =>
           \E v \in seen[t] : ChunkShows(task'[t][ci].data, ci, v, frame[t].m.size)
  PROVE  ReadOK(t)'
<1>1. pc[t] = "tasks" /\ pc'[t] = "tasks" /\ frame'[t] = frame[t]
  BY DEF TaskAt
<1>2. seen[t] \subseteq seen'[t] /\ bytes'[frame[t].id] \in seen'[t]
  BY <1>1, SeenGrows
<1>3. ASSUME Calm(t)', NEW i \in ChunkIdx, task'[t][i].st = "done"
      PROVE  \E v \in seen'[t] : ChunkShows(task'[t][i].data, i, v, frame'[t].m.size)
  <2>1. CASE i = ci
    BY <1>1, <1>2, <1>3, <2>1
  <2>2. CASE i # ci
    <3>1. task'[t][i] = task[t][i]
      BY <2>2 DEF TaskAt
    <3>2. Calm(t)
      <4>1. \A j \in ChunkIdx : task[t][j].st = "failed" => task'[t][j].st = "failed"
        BY DEF TaskAt
      <4>2. QED
        BY <1>1, <1>2, <1>3, <4>1 DEF Calm
    <3>3. QED
      BY <1>1, <1>2, <1>3, <3>1, <3>2 DEF ReadOK
  <2>3. QED
    BY <2>1, <2>2
<1>4. \A i \in ChunkIdx \cap Wanted(frame'[t]) : task'[t][i].st # "none"
  BY <1>1 DEF ReadOK, TaskAt
<1>5. QED
  BY <1>1, <1>2, <1>3, <1>4 DEF ReadOK, Stored, TaskAt

\* A worker takes a task; a task that ends here meets a failed one.
LEMMA TaskStartReads ==
  ASSUME Ready, NEW t \in Threads, ReadOK(t), NEW ci \in ChunkIdx, TaskStart(t, ci), Sees
  PROVE  ReadOK(t)'
<1>0. /\ TypeInv /\ task \in [Threads -> [ChunkIdx -> TaskRecord]] /\ task[t][ci].st = "queued"
      /\ pc[t] = "tasks"
  BY Others DEF Ready, Orderly, TaskStart, TypeInv, HandlersOK
<1>1. PICK r \in {[task[t][ci] EXCEPT !.st = "done"], [task[t][ci] EXCEPT !.st = "locking", !.lk = gen[frame[t].id]]} :
        /\ task' = [task EXCEPT ![t][ci] = r]
        /\ r.st = "locking" \/ (r.st = "done" /\ \E j \in ChunkIdx : task[t][j].st = "failed")
  BY <1>0 DEF TaskStart, TaskRecord
<1>2. /\ \A i \in ChunkIdx \ {ci} : task'[t][i] = task[t][i]
      /\ task'[t][ci] = r
  BY <1>0, <1>1
<1>3. TaskAt(t, ci) /\ UNCHANGED holds /\ frame'[t] = frame[t]
  BY <1>0, <1>1, <1>2 DEF TaskAt, TaskStart
<1>4. TasksHold(t)'
  BY <1>0, <1>1, <1>2, <1>3 DEF ReadOK, TasksHold
<1>5. Calm(t)' => task'[t][ci].st # "done"
  BY <1>0, <1>1, <1>2 DEF Calm
<1>6. QED
  BY <1>0, <1>3, <1>4, <1>5, OneTask

\* What is promised of the file is what a calm read is prepared for.
LEMMA CalmBytes ==
  ASSUME NEW t \in Threads, ReadOK(t), pc[t] = "tasks", pc'[t] = "tasks", frame'[t] = frame[t], Sees, Calm(t)'
  PROVE  bytes[frame[t].id] # Unknown /\ Len(bytes[frame[t].id]) >= frame[t].m.size
<1>1. seen[t] \subseteq seen'[t] /\ bytes[frame[t].id] \in seen[t]
  BY SeenGrows DEF ReadOK
<1>2. QED
  BY <1>1 DEF Calm

\* A chunk is found missing, which no chunk of a file without holes is, or is about to be read.
LEMMA TaskLockReads ==
  ASSUME Ready, NoHoles, NEW t \in Threads, ReadOK(t), NEW ci \in ChunkIdx, TaskLock(t, ci), Sees
  PROVE  ReadOK(t)'
<1>0. /\ TypeInv /\ task \in [Threads -> [ChunkIdx -> TaskRecord]] /\ task[t][ci].st = "locking"
      /\ pc[t] = "tasks" /\ frame[t].id \in Ids /\ frame[t].m.size \in 0 .. MaxSize
      /\ chunkFile \in [Ids -> [ChunkIdx -> Chunk]]
  <2>1. TypeInv /\ task[t][ci].st = "locking" /\ pc[t] = "tasks"
    BY DEF Ready, Orderly, TaskLock, TypeInv, HandlersOK
  <2>2. QED
    BY <2>1, Others, InHandler DEF FileMeta
<1> PICK hold : hold = Locks!HoldOf(frame[t].id, task[t][ci].lk, t, Task(ci), TRUE)
  OBVIOUS
<1>1. PICK r \in {[task[t][ci] EXCEPT !.st = "done", !.data = Zeros(ChunkSize)], [task[t][ci] EXCEPT !.st = "reading"]} :
        /\ task' = [task EXCEPT ![t][ci] = r]
        /\ \/ r.st = "done" /\ Store!DiskSize(frame[t].id, ci) = 0 /\ UNCHANGED holds
           \/ r.st = "reading" /\ Locks!Acquire(hold)
  <2>1. /\ [task[t][ci] EXCEPT !.st = "done", !.data = Zeros(ChunkSize)].st = "done"
        /\ [task[t][ci] EXCEPT !.st = "reading"].st = "reading"
    BY <1>0 DEF TaskRecord
  <2>2. QED
    BY <1>0, <2>1 DEF TaskLock
<1>2. /\ \A i \in ChunkIdx \ {ci} : task'[t][i] = task[t][i]
      /\ task'[t][ci] = r
  BY <1>0, <1>1
<1>3. TaskAt(t, ci) /\ frame'[t] = frame[t]
  BY <1>0, <1>1, <1>2 DEF TaskAt, TaskLock
<1>4. TasksHold(t)'
  <2>1. \A h \in holds : h \in holds'
    BY <1>1 DEF Locks!Acquire
  <2>2. r.st = "reading" => \E h \in holds' : h.thread = t /\ h.role = Task(ci) /\ h.id = frame[t].id /\ h.shared
    <3>1. hold.thread = t /\ hold.role = Task(ci) /\ hold.id = frame[t].id /\ hold.shared
      BY DEF Locks!HoldOf
    <3>2. r.st = "reading" => hold \in holds'
      BY <1>1 DEF Locks!Acquire
    <3>3. QED
      BY <3>1, <3>2
  <2>3. ASSUME NEW i \in ChunkIdx, task'[t][i].st = "reading"
        PROVE  \E h \in holds' : h.thread = t /\ h.role = Task(i) /\ h.id = frame'[t].id /\ h.shared
    <3>1. CASE i = ci
      BY <1>2, <1>3, <2>2, <2>3, <3>1
    <3>2. CASE i # ci
      <4>1. task[t][i].st = "reading"
        BY <1>2, <2>3, <3>2
      <4>2. QED
        BY <1>0, <1>3, <2>1, <4>1 DEF ReadOK, TasksHold
    <3>3. QED
      BY <3>1, <3>2
  <2>4. QED
    BY <2>3 DEF TasksHold
<1>5. ASSUME Calm(t)', r.st = "done"
      PROVE  ChunkShows(r.data, ci, bytes[frame[t].id], frame[t].m.size)
  <2>1. PICK id \in Ids, size \in 0 .. MaxSize : id = frame[t].id /\ size = frame[t].m.size
    BY <1>0
  <2>2. chunkFile[id][ci] = <<>>
    BY <1>0, <1>1, <1>5, <2>1 DEF Store!DiskSize, Chunk
  <2>3. bytes[id] # Unknown /\ Len(bytes[id]) >= size /\ Stored(id)
    BY <1>0, <1>3, <1>5, <2>1, CalmBytes DEF TaskAt, ReadOK
  <2>4. \A u \in Threads : ~Changes(u, id)
    <3>1. \A h \in holds : h.id = frame[t].id => h.shared
      BY <1>0, LockerShares DEF TaskLock, Ready
    <3>2. QED
      BY <1>0, <2>1, <3>1, SharedUnchanged DEF Ready
  <2>5. ChunkShows(chunkFile[id][ci], ci, bytes[id], size) /\ size \in Nat
    BY <2>3, <2>4, ChunkOnDisk, MaxSizeNat
  <2>6. ASSUME NEW k \in 1 .. size, ChunkOf(k) = ci PROVE FALSE
    <3>1. PlaceOf(k) <= 0
      BY <2>2, <2>5, <2>6 DEF ChunkShows
    <3>2. k \in 1 .. MaxSize
      BY <2>5, MaxSizeNat
    <3>3. PlaceOf(k) \in 1 .. ChunkSize
      BY <3>2, ByteHasPlace
    <3>4. QED
      BY <3>1, <3>3, ChunkSizeAssumption
  <2>7. QED
    BY <2>1, <2>6 DEF ChunkShows
<1>6. bytes[frame[t].id] \in seen[t]
  BY <1>0 DEF ReadOK
<1>7. QED
  BY <1>0, <1>2, <1>3, <1>4, <1>5, <1>6, OneTask

\* A chunk is read under the shared lock: it is one of the contents promised at that time.
LEMMA TaskReadReads ==
  ASSUME Ready, NoHoles, NEW t \in Threads, ReadOK(t), NEW ci \in ChunkIdx, TaskRead(t, ci), Sees
  PROVE  ReadOK(t)'
<1>0. /\ TypeInv /\ task \in [Threads -> [ChunkIdx -> TaskRecord]] /\ task[t][ci].st = "reading"
      /\ pc[t] = "tasks" /\ frame[t].id \in Ids /\ frame[t].m.size \in 0 .. MaxSize
  <2>1. TypeInv /\ task[t][ci].st = "reading" /\ pc[t] = "tasks"
    BY DEF Ready, Orderly, TaskRead, TypeInv, HandlersOK
  <2>2. QED
    BY <2>1, Others, InHandler DEF FileMeta
<1>1. PICK d : d = chunkFile[frame[t].id][ci]
  OBVIOUS
<1>2. PICK r \in {[task[t][ci] EXCEPT !.st = "done", !.data = d], [task[t][ci] EXCEPT !.st = "failed", !.data = <<>>]} :
        /\ task' = [task EXCEPT ![t][ci] = r]
        /\ (r.st = "done" /\ r.data = d) \/ r.st = "failed"
  <2>1. /\ [task[t][ci] EXCEPT !.st = "done", !.data = d].st = "done"
        /\ [task[t][ci] EXCEPT !.st = "done", !.data = d].data = d
        /\ [task[t][ci] EXCEPT !.st = "failed", !.data = <<>>].st = "failed"
    BY <1>0 DEF TaskRecord
  <2>2. QED
    BY <1>0, <1>1, <2>1 DEF TaskRead, Store!ReadChunk
<1>3. /\ \A i \in ChunkIdx \ {ci} : task'[t][i] = task[t][i]
      /\ task'[t][ci] = r
  BY <1>0, <1>2
<1>4. TaskAt(t, ci) /\ frame'[t] = frame[t] /\ Locks!Unlock(t, Task(ci))
  BY <1>0, <1>2, <1>3 DEF TaskAt, TaskRead
<1>5. TasksHold(t)'
  <2>1. ASSUME NEW i \in ChunkIdx, task'[t][i].st = "reading"
        PROVE  \E h \in holds' : h.thread = t /\ h.role = Task(i) /\ h.id = frame'[t].id /\ h.shared
    <3>1. i # ci /\ task[t][i].st = "reading"
      BY <1>2, <1>3, <2>1
    <3>2. PICK h \in holds : h.thread = t /\ h.role = Task(i) /\ h.id = frame[t].id /\ h.shared
      BY <1>0, <3>1 DEF ReadOK, TasksHold
    <3>3. Task(i) # Task(ci)
      BY <3>1, ChunkIdxNat DEF Task
    <3>4. h \in holds'
      BY <1>4, <3>2, <3>3 DEF Locks!Unlock
    <3>5. QED
      BY <1>4, <3>2, <3>4
  <2>2. QED
    BY <2>1 DEF TasksHold
<1>6. ASSUME Calm(t)', r.st = "done"
      PROVE  ChunkShows(r.data, ci, bytes[frame[t].id], frame[t].m.size)
  <2>1. PICK id \in Ids, size \in 0 .. MaxSize : id = frame[t].id /\ size = frame[t].m.size
    BY <1>0
  <2>2. bytes[id] # Unknown /\ Len(bytes[id]) >= size /\ Stored(id)
    BY <1>0, <1>4, <1>6, <2>1, CalmBytes DEF TaskAt, ReadOK
  <2>3. \A u \in Threads : ~Changes(u, id)
    <3>1. \A h \in holds : h.id = frame[t].id => h.shared
      BY <1>0, ReaderShares DEF ReadOK, Ready
    <3>2. QED
      BY <1>0, <2>1, <3>1, SharedUnchanged DEF Ready
  <2>4. ChunkShows(chunkFile[id][ci], ci, bytes[id], size)
    BY <2>2, <2>3, ChunkOnDisk, MaxSizeNat
  <2>5. QED
    BY <1>1, <1>2, <1>6, <2>1, <2>4
<1>7. bytes[frame[t].id] \in seen[t]
  BY <1>0 DEF ReadOK
<1>8. QED
  BY <1>0, <1>2, <1>3, <1>4, <1>5, <1>6, <1>7, OneTask

\* Only ReadLoad submits tasks.
LEMMA EntersTasks ==
  ASSUME TypeInv, NEW t \in Threads, Begin(t) \/ HandlerStep(t), pc'[t] = "tasks"
  PROVE  ReadLoad(t)
<1>0. pc \in [Threads -> Labels]
  BY DEF TypeInv, TypeOK
<1>1. CASE Begin(t)
  BY <1>0, <1>1 DEF Begin, Goto, Finish
<1>2. CASE FileLock(t) \/ ReadReply(t) \/ CreateStep(t) \/ WriteChunk(t) \/ Trim(t) \/ SaveMeta(t)
  <2>1. pc[t] # "tasks" \/ ReadReply(t)
    BY <1>2 DEF FileLock, CreateStep, CreateSave, CreateIndex, WriteChunk, Trim, SaveMeta
  <2>2. pc'[t] = pc[t] \/ pc'[t] # "tasks"
    BY <1>0, <1>2 DEF FileLock, ReadReply, CreateStep, CreateSave, CreateIndex, WriteChunk, Trim, SaveMeta, Goto, Finish
  <2>3. ~ReadReply(t)
    BY <1>0 DEF ReadReply, Goto, Finish
  <2>4. QED
    BY <2>1, <2>2, <2>3
<1>3. CASE WriteLock(t)
  <2>1. frame[t].req.op \in {"write", "truncate", "utimens", "unlink"}
    BY <1>3, InHandler DEF WriteLock, HandlerOK, Ops, CreateLabels, RenameLabels, ChmodLabels
  <2>2. QED
    BY <1>0, <1>3, <2>1 DEF WriteLock, Goto, Finish
<1>4. CASE UnlinkStep(t) \/ RenameStep(t) \/ ChmodStep(t)
  BY <1>0, <1>4 DEF UnlinkStep, UnlinkChunks, UnlinkMeta, UnlinkIndex, UnlinkLock, RenameStep, RenameVictim,
     RenameErase, RenameDrop, RenameLoad, RenameSave, RenameOut, RenameIn, ChmodStep, ChmodLoad, ChmodSave,
     Goto, Finish
<1>5. QED
  BY <1>1, <1>2, <1>3, <1>4 DEF HandlerStep, ReadStep, LockedStep

LEMMA NextReads ==
  ASSUME Ready, NoHoles, [StoreNext]_<<vars, history>>, \A t \in Threads : ReadOK(t)
  PROVE  \A t \in Threads : ReadOK(t)'
<1> SUFFICES ASSUME NEW t \in Threads PROVE ReadOK(t)'
  OBVIOUS
<1>1. CASE UNCHANGED <<vars, history>>
  BY <1>1 DEF vars, history, ReadOK, Stored, TasksHold, Calm
<1>2. CASE StoreNext
  <2>1. Sees /\ Next /\ TypeInv /\ ReadOK(t)
    BY <1>2 DEF StoreNext, Sees, Ready, Orderly
  <2>2. CASE CrashAndMount
    BY <2>2 DEF CrashAndMount, ReadOK
  <2>3. ASSUME NEW u \in Threads \ {t}, Begin(u) \/ HandlerStep(u) \/ TaskStep(u) PROVE ReadOK(t)'
    <3>1. OthersStay(u)
      BY <2>1, <2>3, BeginEnters, StepBasics DEF OthersStay
    <3>2. QED
      BY <2>1, <2>3, <3>1, OtherReads
  <2>4. CASE TaskStep(t)
    BY <2>1, <2>4, TaskStartReads, TaskLockReads, TaskReadReads DEF TaskStep
  <2>5. CASE Begin(t) \/ HandlerStep(t)
    <3>1. CASE pc'[t] = "tasks"
      BY <2>1, <2>5, <3>1, EntersTasks, ReadLoadReads
    <3>2. CASE pc'[t] # "tasks"
      BY <3>2 DEF ReadOK
    <3>3. QED
      BY <3>1, <3>2
  <2>6. QED
    BY <2>1, <2>2, <2>3, <2>4, <2>5 DEF Next
<1>3. QED
  BY <1>1, <1>2

\* A read that meets no trouble answers with bytes that the file had.
LEMMA CalmReply ==
  ASSUME Ready, NEW t \in Threads, ReadOK(t), ReadReply(t), reply'[t].res = "ok",
         \A v \in seen[t] : v # Unknown /\ Len(v) >= frame[t].m.size
  PROVE  LET f == frame[t]
         IN /\ Len(reply'[t].data) = Least(f.req.len, f.m.size - f.req.off)
            /\ \A i \in DOMAIN reply'[t].data : \E v \in seen[t] : reply'[t].data[i] = v[f.req.off + i]
<1>0. /\ TypeInv /\ pc[t] = "tasks" /\ PoolQuiescent /\ task \in [Threads -> [ChunkIdx -> TaskRecord]]
  BY Others DEF Ready, Orderly, ReadReply
<1>1. PICK size \in 0 .. MaxSize, off \in Nat, len \in Nat \ {0} :
        size = frame[t].m.size /\ off = frame[t].req.off /\ len = frame[t].req.len /\ off < size
  <2>1. /\ frame[t].m \in FileMeta /\ frame[t].req.off \in 0 .. MaxSize /\ frame[t].req.len \in 1 .. MaxSize
        /\ frame[t].req.off < frame[t].m.size
    BY <1>0, InHandler DEF HandlerOK
  <2>2. QED
    BY <2>1, MaxSizeNat, SMTT(30) DEF FileMeta
<1>2. PICK sz \in Nat \ {0} : /\ sz = Least(len, size - off) /\ off + sz <= size
                              /\ FirstChunk(off) .. LastChunk(off, sz) \subseteq ChunkIdx
  BY <1>1, RangeWanted
<1>3. PICK fc \in Nat, lc \in Nat : fc = FirstChunk(off) /\ lc = LastChunk(off, sz) /\ fc <= lc
  <2>1. off + sz <= MaxSize
    BY <1>2, MaxSizeNat
  <2>2. QED
    BY <2>1, RangeChunks
<1>4. PICK nc \in Nat : nc = lc - fc + 1
  BY <1>3
<1>5. PICK cdata : cdata = [i \in 1 .. nc |-> task[t][fc + i - 1].data]
  OBVIOUS
<1>6. PICK ans : ans = Assemble(cdata, off, sz)
  OBVIOUS
<1>7. /\ \A ci \in ChunkIdx : task[t][ci].st # "failed"
      /\ reply'[t].data = ans
  <2>1. reply \in [Threads -> Reply]
    BY <1>0 DEF TypeInv, TypeOK
  <2>2. \/ Finish(t, "EIO", <<>>)
        \/ (\A ci \in ChunkIdx : task[t][ci].st # "failed") /\ Finish(t, "ok", ans)
    BY <1>1, <1>2, <1>3, <1>4, <1>5, <1>6 DEF ReadReply
  <2>3. QED
    BY <2>1, <2>2 DEF Finish
<1>8. Calm(t)
  BY <1>7 DEF Calm
<1>9. ASSUME NEW i \in 1 .. nc
      PROVE  /\ cdata[i] \in Chunk
             /\ \E v \in seen[t] : ChunkShows(cdata[i], fc + i - 1, v, size)
  <2>1. PICK ci \in ChunkIdx : ci = fc + i - 1 /\ ci \in Wanted(frame[t])
    <3>1. fc + i - 1 \in fc .. lc
      BY <1>3, <1>4
    <3>2. QED
      BY <1>1, <1>2, <1>3, <3>1 DEF Wanted
  <2>2. cdata[i] = task[t][ci].data /\ task[t][ci] \in TaskRecord
    BY <1>0, <1>5, <2>1
  <2>3. task[t][ci].st = "done"
    BY <1>0, <1>7, <2>1, <2>2 DEF ReadOK, PoolQuiescent, TaskRecord, TaskStates
  <2>4. QED
    BY <1>0, <1>1, <1>8, <2>1, <2>2, <2>3 DEF ReadOK, TaskRecord
<1>10. Fetches(cdata, fc, nc, seen[t], size)
  <2>1. cdata \in [1 .. nc -> Chunk]
    BY <1>5, <1>9
  <2>2. QED
    BY <1>9, <2>1 DEF Fetches
<1>11. PICK S : S = seen[t]
  OBVIOUS
<1>12. ans \in Seq(Byte) /\ Len(ans) = sz /\ \A j \in 1 .. sz : \E v \in S : ans[j] = v[off + j]
  <2>1. Fetches(cdata, fc, nc, S, size)
    BY <1>10, <1>11
  <2>2. fc = FirstChunk(off) /\ lc = LastChunk(off, sz) /\ nc = lc - fc + 1 /\ off + sz <= size
    BY <1>2, <1>3, <1>4
  <2>3. /\ Assemble(cdata, off, sz) \in Seq(Byte) /\ Len(Assemble(cdata, off, sz)) = sz
        /\ \A j \in 1 .. sz : \E v \in S : Assemble(cdata, off, sz)[j] = v[off + j]
    BY <2>1, <2>2, RangeAnswer, SMTT(30)
  <2>4. QED
    BY <1>6, <2>3
<1>13. DOMAIN ans = 1 .. sz
  BY <1>12
<1>14. QED
  BY <1>1, <1>2, <1>7, <1>11, <1>12, <1>13

\* What the disk holds of the promises, and what the readers have seen and gathered of them.
ReadsInv == StoreInv /\ \A t \in Threads : ReadOK(t)

\* At any point, what a read that is inside has fetched of a file is each time one whole chunk of contents
\* that the file has had since the read took its size (ReadOK).
THEOREM ReadsInvariant ==
  NoHoles /\ ReuseIds = FALSE /\ PathsReadBack /\ StoreSpec /\ []ChmodApart => []ReadsInv
<1> SUFFICES ASSUME NoHoles, ReuseIds = FALSE, PathsReadBack PROVE StoreSpec /\ []ChmodApart => []ReadsInv
  OBVIOUS
<1>1. StoreInit => \A t \in Threads : ReadOK(t)
  BY DEF StoreInit, Init, ReadOK
<1>2. StoreInv /\ ChmodApart /\ (\A t \in Threads : ReadOK(t)) /\ [StoreNext]_<<vars, history>>
        => (\A t \in Threads : ReadOK(t))'
  BY NextReads DEF Ready, Orderly, StoreInv
<1>3. QED
  BY <1>1, <1>2, BytesInvariant, PTL DEF StoreSpec, ReadsInv

\* An answer of cfs_read, for any number of readers and writers of a file whose chunks its tasks lock one
\* by one: as long as the file is not cut short of the size the read found, and no crash or fault meets a
\* handler that changes it, each byte is one that the file had at that place, before, between or after
\* the writes that the read met.
THEOREM ReadsAreRegular ==
  NoHoles /\ ReuseIds = FALSE /\ PathsReadBack /\ StoreSpec /\ []ChmodApart => ReadsRegular
<1> SUFFICES ASSUME NoHoles, ReuseIds = FALSE, PathsReadBack PROVE StoreSpec /\ []ChmodApart => ReadsRegular
  OBVIOUS
<1> DEFINE A == \A t \in Threads :
       LET f == frame[t]
       IN /\ pc[t] = "tasks" /\ pc'[t] = "idle" /\ reply'[t].res = "ok"
          /\ \A v \in seen[t] : v # Unknown /\ Len(v) >= f.m.size
          => /\ Len(reply'[t].data) = Least(f.req.len, f.m.size - f.req.off)
             /\ \A i \in DOMAIN reply'[t].data :
                  \E v \in seen[t] : reply'[t].data[i] = v[f.req.off + i]
<1>1. ReadsInv /\ ChmodApart /\ [StoreNext]_<<vars, history>> => [A]_<<vars, history>>
  <2> SUFFICES ASSUME ReadsInv, ChmodApart, StoreNext, NEW t \in Threads,
                      pc[t] = "tasks", pc'[t] = "idle", reply'[t].res = "ok",
                      \A v \in seen[t] : v # Unknown /\ Len(v) >= frame[t].m.size
               PROVE  /\ Len(reply'[t].data) = Least(frame[t].req.len, frame[t].m.size - frame[t].req.off)
                      /\ \A i \in DOMAIN reply'[t].data :
                           \E v \in seen[t] : reply'[t].data[i] = v[frame[t].req.off + i]
    BY ZenonT(60)
  <2>1. Ready /\ TypeInv /\ ReadOK(t) /\ Next
    BY DEF Ready, Orderly, ReadsInv, StoreInv, StoreNext
  <2>2. ~CrashAndMount
    BY DEF CrashAndMount, NoReply
  <2>3. ASSUME NEW u \in Threads \ {t}, Begin(u) \/ HandlerStep(u) \/ TaskStep(u) PROVE FALSE
    BY <2>1, <2>3, BeginEnters, StepBasics DEF OthersStay
  <2>4. ReadReply(t)
    <3>1. HandlerStep(t)
      <4>1. ~Begin(t)
        BY DEF Begin
      <4>2. TaskStep(t) => UNCHANGED pc
        BY DEF TaskStep, TaskStart, TaskLock, TaskRead
      <4>3. QED
        BY <2>1, <2>2, <2>3, <4>1, <4>2 DEF Next
    <3>2. QED
      BY <3>1, InHandler, <2>1 DEF HandlerStep, FileLock, ReadStep, ReadLoad, CreateStep, CreateSave, CreateIndex,
         LockedStep, WriteLock, WriteChunk, Trim, SaveMeta, UnlinkStep, UnlinkChunks, UnlinkMeta, UnlinkIndex,
         UnlinkLock, RenameStep, RenameVictim, RenameErase, RenameDrop, RenameLoad, RenameSave, RenameOut, RenameIn,
         ChmodStep, ChmodLoad, ChmodSave
  <2>5. QED
    BY <2>1, <2>4, CalmReply
<1>2. QED
  BY <1>1, ReadsInvariant, PTL DEF StoreSpec, ReadsRegular
=============================================================================
