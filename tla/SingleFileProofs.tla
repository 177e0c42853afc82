--------------------------- MODULE SingleFileProofs ---------------------------
(* What the single-file daemon has answered stays true, for every set of paths, *)
(* handles and bytes, every compression and any number of requests, crashes and *)
(* failing system calls.                                                         *)
EXTENDS SingleFile, Integers, TLAPS

-----------------------------------------------------------------------------
(* The inductive invariant *)

RenameSteps == {"over_meta", "over_data", "mv_meta", "mv_data", "mv_out", "mv_in"}

\* The handler's own variables.
LocalsOK ==
  IF pc = "idle" THEN cur = Nobody
  ELSE /\ cur.path \in Paths
       /\ IF pc \in RenameSteps THEN cur.to \in Paths \ {cur.path} ELSE cur.to = NoFile
       /\ cur.h # NoFile => handle[cur.h] # NoFile
       /\ cur.closing => cur.h # NoFile

\* What is known of a path is on the disk.
Kept(p) ==
  /\ acked[p] \in Content => p \in index /\ dataFile[p] = acked[p] /\ metaFile[p] = LayoutOf(acked[p])
  /\ acked[p] = NoFile => p \notin index /\ metaFile[p] = NoFile

KeptOK == \A p \in Paths : IF p \in {cur.path, cur.to} THEN acked[p] = Unknown ELSE Kept(p)

\* What the handler has done so far.
DoneOK ==
  /\ pc \in {"put_meta", "put_index"} => dataFile[cur.path] = cur.data
  /\ pc = "put_index" => metaFile[cur.path] = LayoutOf(cur.data)
  /\ pc \in {"rm_data", "rm_index", "mv_data", "mv_out", "mv_in"} => metaFile[cur.path] = NoFile
  /\ pc = "mv_in" => cur.path \notin index
  /\ pc \in RenameSteps => cur.known # NoFile

\* The contents that a rename moves, as far as they are known.
MovedOK ==
  cur.known \in Content =>
    /\ pc \in {"over_meta", "over_data", "mv_meta", "mv_data"} => dataFile[cur.path] = cur.known
    /\ pc \in {"over_meta", "over_data", "mv_meta"} => metaFile[cur.path] = LayoutOf(cur.known)
    /\ pc \in {"mv_out", "mv_in"} => dataFile[cur.to] = cur.known
    /\ pc \in {"mv_data", "mv_out", "mv_in"} => metaFile[cur.to] = LayoutOf(cur.known)

\* The three places agree on p.
Described(p) == metaFile[p] = IF dataFile[p] = NoFile THEN NoFile ELSE LayoutOf(dataFile[p])
AgreesOn(p) == (p \in index <=> metaFile[p] # NoFile) /\ Described(p)

\* As long as nothing failed, the places disagree on nothing but the paths that
\* the handler is at.
AgreeOK ==
  crashes = 0 /\ faults = 0 =>
    /\ \A p \in Paths \ {cur.path, cur.to} : AgreesOn(p)
    /\ pc \in {"rm_index", "mv_out", "mv_in"} => dataFile[cur.path] = NoFile
    /\ pc \in {"over_meta", "over_data", "mv_meta"} => metaFile[cur.path] # NoFile /\ Described(cur.path)
    /\ pc = "mv_data" => /\ dataFile[cur.path] # NoFile
                         /\ metaFile[cur.to] = LayoutOf(dataFile[cur.path])
    /\ pc \in {"mv_out", "mv_in"} => dataFile[cur.to] # NoFile /\ Described(cur.to)

FileInv == TypeOK /\ LocalsOK /\ KeptOK /\ DoneOK /\ MovedOK /\ AgreeOK

-----------------------------------------------------------------------------
(* Contents *)

LEMMA ContentElement ==
  ASSUME NEW n \in 0 .. MaxLen, NEW c \in [1 .. n -> Byte]
  PROVE  c \in Content
BY DEF Content

LEMMA ContentSeq ==
  ASSUME NEW c \in Content
  PROVE  c \in Seq(Byte) /\ Len(c) \in 0 .. MaxLen /\ Len(c) \in Nat
<1>1. MaxLen \in Nat
  BY BoundsAssumption
<1>2. PICK n \in 0 .. MaxLen : c \in [1 .. n -> Byte]
  BY DEF Content
<1>3. QED
  BY <1>1, <1>2

LEMMA ContentFacts ==
  /\ <<>> \in Content /\ NoFile \notin Content /\ Unknown \notin Content /\ Unknown # NoFile
  /\ NoFile \notin Paths /\ NoFile \notin Handles /\ NoFile \notin Layout
  /\ \A c \in Content : LayoutOf(c) \in Layout /\ LayoutOf(c) # NoFile
<1>1. <<>> \in Content
  <2>1. 0 \in 0 .. MaxLen /\ <<>> \in [1 .. 0 -> Byte]
    BY BoundsAssumption
  <2>2. QED
    BY <2>1, ContentElement
<1>2. ASSUME NEW c \in Content PROVE LayoutOf(c) \in Layout
  BY ContentSeq, CompAssumption DEF LayoutOf, Layout
<1>3. QED
  BY <1>1, <1>2, NoFileAssumption, UnknownAssumption

LEMMA ResizeType ==
  ASSUME NEW c \in Content, NEW n \in 0 .. MaxLen
  PROVE  Resize(c, n) \in Content
<1>1. Resize(c, n) \in [1 .. n -> Byte]
  BY ContentSeq, ByteAssumption, BoundsAssumption DEF Resize
<1>2. QED
  BY <1>1, ContentElement

LEMMA OverlayType ==
  ASSUME NEW c \in Content, NEW off \in 0 .. MaxLen - 1, NEW b \in Byte
  PROVE  Overlay(c, off, <<b>>) \in Content
<1>1. c \in Seq(Byte) /\ Len(c) \in 0 .. MaxLen /\ MaxLen \in Nat /\ off \in Nat /\ off + 1 <= MaxLen
  BY ContentSeq, BoundsAssumption
<1>2. PICK n \in 0 .. MaxLen : n = IF off + 1 > Len(c) THEN off + 1 ELSE Len(c)
  BY <1>1
<1>3. ASSUME NEW i \in 1 .. n
      PROVE  (IF off < i /\ i <= off + 1 THEN <<b>>[i - off] ELSE IF i <= Len(c) THEN c[i] ELSE 0) \in Byte
  <2>1. CASE off < i /\ i <= off + 1
    <3>1. i - off = 1
      BY <1>1, <2>1
    <3>2. QED
      BY <2>1, <3>1
  <2>2. CASE ~(off < i /\ i <= off + 1)
    BY <1>1, <2>2, ByteAssumption
  <2>3. QED
    BY <2>1, <2>2
<1>4. Overlay(c, off, <<b>>) =
        [i \in 1 .. n |-> IF off < i /\ i <= off + 1 THEN <<b>>[i - off] ELSE IF i <= Len(c) THEN c[i] ELSE 0]
  <2>1. Len(<<b>>) = 1
    OBVIOUS
  <2>2. QED
    BY <1>2, <2>1 DEF Overlay
<1>5. Overlay(c, off, <<b>>) \in [1 .. n -> Byte]
  BY <1>3, <1>4
<1>6. QED
  BY <1>5, ContentElement

LEMMA PrefixType ==
  ASSUME NEW c \in Content, NEW n \in Nat, n <= Len(c)
  PROVE  SubSeq(c, 1, n) \in Content /\ (n = Len(c) => SubSeq(c, 1, n) = c)
<1>1. c \in Seq(Byte) /\ Len(c) \in 0 .. MaxLen
  BY ContentSeq
<1>2. n \in 0 .. MaxLen /\ SubSeq(c, 1, n) \in [1 .. n -> Byte]
  <2>1. n \in 0 .. MaxLen
    BY <1>1, BoundsAssumption
  <2>2. PICK d : d = SubSeq(c, 1, n)
    OBVIOUS
  <2>3. d \in Seq(Byte) /\ Len(d) = n
    BY <1>1, <2>2
  <2>4. d \in [1 .. n -> Byte]
    BY <2>3
  <2>5. QED
    BY <2>1, <2>2, <2>4
<1>3. SubSeq(c, 1, n) \in Content
  BY <1>2, ContentElement
<1>4. n = Len(c) => SubSeq(c, 1, n) = c
  BY <1>1
<1>5. QED
  BY <1>3, <1>4

LEMMA LoadedType ==
  ASSUME TypeOK, NEW p \in Paths, Loads(p)
  PROVE  Loaded(p) \in Content
<1>1. dataFile[p] \in Content /\ metaFile[p].len \in Nat
  BY BoundsAssumption DEF TypeOK, Loads, Readable, Layout
<1>2. QED
  BY <1>1, PrefixType DEF Loaded

-----------------------------------------------------------------------------
(* Steps *)

\* A request that changes no file, and the end of a handler that was cut short.
LEMMA Ended ==
  ASSUME FileInv, pc' = "idle", cur' = Nobody, UNCHANGED <<disk, acked>>,
         handle' \in [Handles -> OpenFile \cup {NoFile}],
         reply' \in {"none", "ok", "ENOENT", "EEXIST", "EIO"},
         requests' \in 0 .. MaxRequests, crashes' \in 0 .. MaxCrashes, faults' \in 0 .. MaxFaults,
         (pc = "idle" /\ UNCHANGED <<crashes, faults>>) \/ ~(crashes' = 0 /\ faults' = 0)
  PROVE  FileInv'
<1>1. UNCHANGED <<dataFile, metaFile, index, acked>>
  BY DEF disk
<1>2. Nobody \in Current /\ Nobody.path = NoFile /\ Nobody.to = NoFile /\ Nobody.known = Unknown
  BY ContentFacts DEF Nobody, Current
<1>3. TypeOK'
  BY <1>1, <1>2 DEF FileInv, TypeOK, Steps
<1>4. LocalsOK'
  BY DEF LocalsOK
<1>5. KeptOK'
  <2>1. ASSUME NEW p \in Paths PROVE Kept(p)
    BY ContentFacts DEF FileInv, KeptOK, Kept
  <2>2. QED
    BY <1>1, <1>2, <2>1, ContentFacts DEF KeptOK, Kept, LayoutOf
<1>6. DoneOK' /\ MovedOK'
  BY <1>2, ContentFacts DEF DoneOK, MovedOK, RenameSteps
<1>7. AgreeOK'
  <2>1. CASE ~(crashes' = 0 /\ faults' = 0)
    BY <2>1 DEF AgreeOK
  <2>2. CASE pc = "idle" /\ UNCHANGED <<crashes, faults>>
    <3>1. cur = Nobody
      BY <2>2 DEF FileInv, LocalsOK
    <3>2. QED
      BY <1>1, <2>2, <3>1 DEF FileInv, AgreeOK, AgreesOn, Described, LayoutOf
  <2>3. QED
    BY <2>1, <2>2
<1>8. QED
  BY <1>3, <1>4, <1>5, <1>6, <1>7 DEF FileInv

\* A request that starts to change files.
LEMMA Started ==
  ASSUME FileInv, pc = "idle", UNCHANGED handle, requests' \in 0 .. MaxRequests,
         NEW step \in {"put_data", "rm_meta", "over_meta", "mv_meta"}, NEW c \in Current,
         Start(step, c, {c.path, c.to}),
         c.path \in Paths, c.h # NoFile => handle[c.h] # NoFile, c.closing => c.h # NoFile,
         step \notin RenameSteps => c.to = NoFile,
         step \in RenameSteps => c.to \in Paths \ {c.path} /\ c.known = acked[c.path]
                                                           /\ LogicalFileExists(c.path)
  PROVE  FileInv'
<1> DEFINE ps == {c.path, c.to}
<1>1. /\ UNCHANGED <<dataFile, metaFile, index, reply, crashes, faults>>
      /\ pc' = step /\ cur' = c
      /\ acked' = [p \in Paths |-> IF p \in ps THEN Unknown ELSE acked[p]]
  BY DEF Start, disk
<1>2. TypeOK'
  BY <1>1 DEF FileInv, TypeOK, Steps
<1>3. LocalsOK'
  BY <1>1 DEF LocalsOK, RenameSteps
<1>4. \A p \in Paths : Kept(p) /\ (crashes = 0 /\ faults = 0 => AgreesOn(p))
  <2>1. cur = Nobody /\ Nobody.path = NoFile /\ Nobody.to = NoFile
    BY DEF FileInv, LocalsOK, Nobody
  <2>2. QED
    BY <2>1, ContentFacts DEF FileInv, KeptOK, AgreeOK
<1>5. KeptOK'
  BY <1>1, <1>4 DEF KeptOK, Kept, LayoutOf
<1>6. DoneOK'
  BY <1>1, <1>4 DEF DoneOK, RenameSteps, Kept, LogicalFileExists
<1>7. MovedOK'
  BY <1>1, <1>4 DEF MovedOK, RenameSteps, Kept, LayoutOf
<1>8. AgreeOK'
  BY <1>1, <1>4 DEF AgreeOK, RenameSteps, AgreesOn, Described, LayoutOf, LogicalFileExists
<1>9. QED
  BY <1>2, <1>3, <1>5, <1>6, <1>7, <1>8 DEF FileInv

-----------------------------------------------------------------------------
(* Requests *)

\* A request that is answered at once.
LEMMA Answered ==
  ASSUME FileInv, Request, UNCHANGED <<disk, acked, crashes, faults>>,
         NEW res \in {"none", "ok", "ENOENT", "EEXIST", "EIO"}, Answer(res),
         handle' \in [Handles -> OpenFile \cup {NoFile}]
  PROVE  FileInv'
<1>1. /\ pc = "idle" /\ pc' = "idle" /\ cur' = Nobody /\ reply' = res
      /\ UNCHANGED <<disk, acked>> /\ UNCHANGED <<crashes, faults>>
  BY DEF Request, Answer
<1>2. /\ requests' \in 0 .. MaxRequests /\ crashes' \in 0 .. MaxCrashes /\ faults' \in 0 .. MaxFaults
  BY <1>1, BoundsAssumption DEF Request, FileInv, TypeOK
<1>3. QED
  BY <1>1, <1>2, Ended

LEMMA HandleTypes ==
  ASSUME TypeOK
  PROVE  /\ handle \in [Handles -> OpenFile \cup {NoFile}]
         /\ AllClosed \in [Handles -> OpenFile \cup {NoFile}]
         /\ \A h, closing : Close(h, closing) => handle' \in [Handles -> OpenFile \cup {NoFile}]
         /\ \A h \in Handles, f \in OpenFile : [handle EXCEPT ![h] = f] \in [Handles -> OpenFile \cup {NoFile}]
         /\ \A h \in Handles : handle[h] # NoFile =>
              /\ handle[h] \in OpenFile
              /\ handle[h].path \in Paths /\ handle[h].node \in Paths /\ handle[h].data \in Content
BY DEF TypeOK, OpenFile, AllClosed, Close

\* open or create of a file that exists: it is loaded, or refused, or the process ends.
LEMMA OpenedExisting ==
  ASSUME FileInv, Request, UNCHANGED <<disk, acked, crashes, faults>>,
         NEW h \in Handles, NEW p \in Paths, NEW trunc \in BOOLEAN, OpenExisting(h, p, trunc)
  PROVE  FileInv'
<1>1. TypeOK
  BY DEF FileInv
<1>2. CASE /\ Loads(p) /\ Answer("ok")
           /\ handle' = [handle EXCEPT ![h] = [path |-> p, node |-> p, dirty |-> trunc,
                                               data |-> IF trunc THEN <<>> ELSE Loaded(p)]]
  <2>1. (IF trunc THEN <<>> ELSE Loaded(p)) \in Content
    BY <1>1, <1>2, LoadedType, ContentFacts
  <2>2. [path |-> p, node |-> p, dirty |-> trunc, data |-> IF trunc THEN <<>> ELSE Loaded(p)] \in OpenFile
    BY <2>1 DEF OpenFile
  <2>3. handle' \in [Handles -> OpenFile \cup {NoFile}]
    BY <1>1, <1>2, <2>2, HandleTypes
  <2>4. QED
    BY <1>2, <2>3, Answered
<1>3. CASE UNCHANGED handle /\ Answer("EIO")
  BY <1>1, <1>3, HandleTypes, Answered
<1>4. CASE Die
  BY <1>1, <1>4, HandleTypes, Answered DEF Die
<1>5. QED
  BY <1>2, <1>3, <1>4 DEF OpenExisting

\* open
LEMMA OpenStep ==
  ASSUME FileInv, NEW h \in Handles, NEW p \in Paths, NEW trunc \in BOOLEAN, Open(h, p, trunc)
  PROVE  FileInv'
<1>1. Request /\ UNCHANGED <<disk, acked, crashes, faults>> /\ TypeOK
  BY DEF Open, FileInv
<1>2. CASE UNCHANGED handle /\ Answer("ENOENT")
  BY <1>1, <1>2, HandleTypes, Answered
<1>3. CASE OpenExisting(h, p, trunc)
  BY <1>1, <1>3, OpenedExisting
<1>4. QED
  BY <1>2, <1>3 DEF Open

\* create
LEMMA CreateStep ==
  ASSUME FileInv, NEW h \in Handles, NEW p \in Paths, NEW trunc \in BOOLEAN, NEW excl \in BOOLEAN,
         Create(h, p, trunc, excl)
  PROVE  FileInv'
<1>1. Request /\ UNCHANGED <<disk, acked, crashes, faults>> /\ TypeOK
  BY DEF Create, FileInv
<1>2. CASE UNCHANGED handle /\ Answer("EEXIST")
  BY <1>1, <1>2, HandleTypes, Answered
<1>3. CASE OpenExisting(h, p, trunc)
  BY <1>1, <1>3, OpenedExisting
<1>4. CASE /\ handle' = [handle EXCEPT ![h] = [path |-> p, node |-> p, dirty |-> TRUE, data |-> <<>>]]
           /\ Answer("ok")
  <2>1. [path |-> p, node |-> p, dirty |-> TRUE, data |-> <<>>] \in OpenFile
    BY ContentFacts DEF OpenFile
  <2>2. handle' \in [Handles -> OpenFile \cup {NoFile}]
    BY <1>1, <1>4, <2>1, HandleTypes
  <2>3. QED
    BY <1>1, <1>4, <2>2, Answered
<1>5. QED
  BY <1>2, <1>3, <1>4 DEF Create

\* write and ftruncate
LEMMA EditStep ==
  ASSUME FileInv, NEW h \in Handles, handle[h] # NoFile, NEW c \in Content, Edit(h, c)
  PROVE  FileInv'
<1>1. Request /\ UNCHANGED <<disk, acked, crashes, faults>> /\ TypeOK /\ Answer("ok")
  BY DEF Edit, FileInv
<1>2. [handle[h] EXCEPT !.data = c, !.dirty = TRUE] \in OpenFile
  BY <1>1, HandleTypes DEF OpenFile
<1>3. handle' = [handle EXCEPT ![h] = [handle[h] EXCEPT !.data = c, !.dirty = TRUE]]
  BY <1>1 DEF Edit, TypeOK
<1>4. handle' \in [Handles -> OpenFile \cup {NoFile}]
  BY <1>1, <1>2, <1>3, HandleTypes
<1>5. QED
  BY <1>1, <1>4, Answered

\* A request that starts to write contents out.
LEMMA Persists ==
  ASSUME FileInv, Request, UNCHANGED handle,
         NEW h \in Handles \cup {NoFile}, NEW p \in Paths, NEW c \in Content, NEW closing \in BOOLEAN,
         Persist(h, p, c, closing), h # NoFile => handle[h] # NoFile, closing => h # NoFile
  PROVE  FileInv'
<1> DEFINE call == [Nobody EXCEPT !.path = p, !.h = h, !.data = c, !.closing = closing]
<1>1. pc = "idle" /\ requests' \in 0 .. MaxRequests
  BY BoundsAssumption DEF Request, FileInv, TypeOK
<1>2. /\ call \in Current /\ call.path = p /\ call.to = NoFile /\ call.h = h /\ call.closing = closing
  BY DEF Nobody, Current
<1>3. Start("put_data", call, {p})
  BY DEF Persist
<1>4. Start("put_data", call, {call.path, call.to})
  BY <1>2, <1>3, ContentFacts DEF Start
<1>5. QED
  <2> HIDE DEF call
  <2>1. "put_data" \notin RenameSteps
    BY DEF RenameSteps
  <2>2. QED
    BY <1>1, <1>2, <1>4, <2>1, Started

\* truncate
LEMMA TruncateStep ==
  ASSUME FileInv, NEW p \in Paths, NEW n \in 0 .. MaxLen, Truncate(p, n)
  PROVE  FileInv'
<1>1. Request /\ TypeOK
  BY DEF Truncate, FileInv
<1>2. CASE UNCHANGED <<disk, handle, acked, crashes, faults>> /\ (Answer("ENOENT") \/ Answer("EIO"))
  BY <1>1, <1>2, HandleTypes, Answered
<1>3. CASE Die /\ UNCHANGED <<disk, acked, crashes, faults>>
  BY <1>1, <1>3, HandleTypes, Answered DEF Die
<1>4. CASE Loads(p) /\ Persist(NoFile, p, Resize(Loaded(p), n), FALSE) /\ UNCHANGED handle
  <2>1. Resize(Loaded(p), n) \in Content
    BY <1>1, <1>4, LoadedType, ResizeType
  <2>2. QED
    BY <1>1, <1>4, <2>1, Persists
<1>5. QED
  BY <1>2, <1>3, <1>4 DEF Truncate

\* flush, fsync and release
LEMMA FlushStep ==
  ASSUME FileInv, NEW h \in Handles, NEW closing \in BOOLEAN, Flush(h, closing)
  PROVE  FileInv'
<1>1. Request /\ TypeOK /\ handle[h] # NoFile
  BY DEF Flush, FileInv
<1>2. CASE Persist(h, handle[h].path, handle[h].data, closing) /\ UNCHANGED handle
  <2>1. handle[h].path \in Paths /\ handle[h].data \in Content /\ h # NoFile
    BY <1>1, HandleTypes, ContentFacts
  <2>2. QED
    BY <1>1, <1>2, <2>1, Persists
<1>3. CASE Close(h, closing) /\ Answer("ok") /\ UNCHANGED <<disk, acked, crashes, faults>>
  BY <1>1, <1>3, HandleTypes, Answered
<1>4. QED
  BY <1>2, <1>3 DEF Flush

\* unlink
LEMMA UnlinkStart ==
  ASSUME FileInv, NEW p \in Paths, Unlink(p)
  PROVE  FileInv'
<1>1. Request /\ TypeOK /\ UNCHANGED handle
  BY DEF Unlink, FileInv
<1>2. CASE Answer("ENOENT") /\ UNCHANGED <<disk, acked, crashes, faults>>
  BY <1>1, <1>2, HandleTypes, Answered
<1>3. CASE Start("rm_meta", [Nobody EXCEPT !.path = p], {p})
  <2> DEFINE call == [Nobody EXCEPT !.path = p]
  <2>1. pc = "idle" /\ requests' \in 0 .. MaxRequests
    BY <1>1, BoundsAssumption DEF Request, TypeOK
  <2>2. /\ call \in Current /\ call.path = p /\ call.to = NoFile /\ call.h = NoFile /\ call.closing = FALSE
    BY ContentFacts DEF Nobody, Current
  <2>3. Start("rm_meta", call, {call.path, call.to})
    BY <1>3, <2>2, ContentFacts DEF Start
  <2>4. "rm_meta" \notin RenameSteps
    BY DEF RenameSteps
  <2> HIDE DEF call
  <2>5. QED
    BY <1>1, <2>1, <2>2, <2>3, <2>4, Started
<1>4. QED
  BY <1>2, <1>3 DEF Unlink

\* rename
LEMMA RenameStart ==
  ASSUME FileInv, NEW p \in Paths, NEW q \in Paths, Rename(p, q)
  PROVE  FileInv'
<1>1. Request /\ TypeOK /\ UNCHANGED handle /\ p # q
  BY DEF Rename, FileInv
<1>2. CASE Answer("ENOENT") /\ UNCHANGED <<disk, acked, crashes, faults>>
  BY <1>1, <1>2, HandleTypes, Answered
<1>3. ASSUME NEW step \in {"over_meta", "mv_meta"}, LogicalFileExists(p),
             Start(step, [Nobody EXCEPT !.path = p, !.to = q, !.known = acked[p]], {p, q})
      PROVE  FileInv'
  <2> DEFINE call == [Nobody EXCEPT !.path = p, !.to = q, !.known = acked[p]]
  <2>1. pc = "idle" /\ requests' \in 0 .. MaxRequests
    BY <1>1, BoundsAssumption DEF Request, TypeOK
  <2>2. /\ call \in Current /\ call.path = p /\ call.to = q /\ call.known = acked[p]
        /\ call.h = NoFile /\ call.closing = FALSE
    BY <1>1, ContentFacts DEF Nobody, Current, TypeOK
  <2>3. Start(step, call, {call.path, call.to})
    BY <1>3, <2>2
  <2>4. step \in RenameSteps
    BY DEF RenameSteps
  <2> HIDE DEF call
  <2>5. QED
    BY <1>1, <1>3, <2>1, <2>2, <2>3, <2>4, Started
<1>4. QED
  BY <1>2, <1>3 DEF Rename

-----------------------------------------------------------------------------
(* System calls *)

\* One that fails, or a crash: what is known of the other paths stays true.
LEMMA FailStep ==
  ASSUME FileInv, Fail
  PROVE  FileInv'
<1>1. /\ pc' = "idle" /\ cur' = Nobody /\ UNCHANGED <<disk, acked>> /\ reply' = "EIO"
      /\ handle' \in [Handles -> OpenFile \cup {NoFile}]
  BY HandleTypes DEF Fail, Answer, FileInv
<1>2. /\ requests' \in 0 .. MaxRequests /\ crashes' \in 0 .. MaxCrashes /\ faults' \in 0 .. MaxFaults
      /\ faults' # 0
  BY BoundsAssumption DEF Fail, FileInv, TypeOK
<1>3. QED
  BY <1>1, <1>2, Ended

LEMMA CrashStep ==
  ASSUME FileInv, Crash
  PROVE  FileInv'
<1>1. /\ pc' = "idle" /\ cur' = Nobody /\ UNCHANGED <<disk, acked>> /\ reply' = "none"
      /\ handle' \in [Handles -> OpenFile \cup {NoFile}]
  BY HandleTypes DEF Crash, Die, Answer, FileInv
<1>2. /\ requests' \in 0 .. MaxRequests /\ crashes' \in 0 .. MaxCrashes /\ faults' \in 0 .. MaxFaults
      /\ crashes' # 0
  BY BoundsAssumption DEF Crash, FileInv, TypeOK
<1>3. QED
  BY <1>1, <1>2, Ended

\* The paths a handler is at, and what it says of the others.
LEMMA Busy ==
  ASSUME FileInv, pc # "idle"
  PROVE  /\ cur.path \in Paths /\ cur.path # NoFile /\ acked[cur.path] = Unknown
         /\ pc \in RenameSteps => cur.to \in Paths /\ cur.to # cur.path /\ acked[cur.to] = Unknown
         /\ pc \notin RenameSteps => cur.to = NoFile
         /\ \A p \in Paths \ {cur.path, cur.to} :
              Kept(p) /\ (crashes = 0 /\ faults = 0 => AgreesOn(p))
BY ContentFacts DEF FileInv, LocalsOK, KeptOK, AgreeOK

\* The system calls of write-out.
LEMMA PutDataStep ==
  ASSUME FileInv, PutData
  PROVE  FileInv'
<1>1. /\ dataFile' = [dataFile EXCEPT ![cur.path] = cur.data] /\ pc = "put_data" /\ pc' = "put_meta"
      /\ UNCHANGED <<metaFile, index, handle, cur, reply, acked, requests, crashes, faults>>
  BY DEF PutData, Goto
<1>2. TypeOK'
  BY <1>1, Busy DEF FileInv, TypeOK, Steps, Current
<1>3. LocalsOK'
  BY <1>1 DEF FileInv, LocalsOK, RenameSteps
<1>4. KeptOK'
  BY <1>1, Busy DEF FileInv, TypeOK, KeptOK, Kept, LayoutOf
<1>5. DoneOK' /\ MovedOK'
  BY <1>1, Busy DEF FileInv, TypeOK, DoneOK, MovedOK, RenameSteps
<1>6. AgreeOK'
  BY <1>1, Busy DEF FileInv, TypeOK, AgreeOK, AgreesOn, Described, LayoutOf
<1>7. QED
  BY <1>2, <1>3, <1>4, <1>5, <1>6 DEF FileInv

LEMMA PutMetaStep ==
  ASSUME FileInv, PutMeta
  PROVE  FileInv'
<1>1. /\ metaFile' = [metaFile EXCEPT ![cur.path] = LayoutOf(cur.data)] /\ pc = "put_meta" /\ pc' = "put_index"
      /\ UNCHANGED <<dataFile, index, handle, cur, reply, acked, requests, crashes, faults>>
  BY DEF PutMeta, Goto
<1>2. TypeOK'
  <2>1. LayoutOf(cur.data) \in Layout
    BY ContentFacts DEF FileInv, TypeOK, Current
  <2>2. QED
    BY <1>1, <2>1, Busy DEF FileInv, TypeOK, Steps
<1>3. LocalsOK'
  BY <1>1 DEF FileInv, LocalsOK, RenameSteps
<1>4. KeptOK'
  BY <1>1, Busy DEF FileInv, TypeOK, KeptOK, Kept, LayoutOf
<1>5. DoneOK' /\ MovedOK'
  BY <1>1, Busy DEF FileInv, TypeOK, DoneOK, MovedOK, RenameSteps, LayoutOf
<1>6. AgreeOK'
  BY <1>1, Busy DEF FileInv, TypeOK, AgreeOK, AgreesOn, Described, LayoutOf
<1>7. QED
  BY <1>2, <1>3, <1>4, <1>5, <1>6 DEF FileInv

\* A handler that ends well: what it has done is on the disk.
LEMMA Finished ==
  ASSUME FileInv, pc # "idle", NEW res \in {"ok", "ENOENT"}, Finish(res), UNCHANGED <<dataFile, metaFile>>,
         index' \subseteq Paths, handle' \in [Handles -> OpenFile \cup {NoFile}],
         acked' \in [Paths -> Content \cup {NoFile, Unknown}],
         \A p \in Paths \ {cur.path, cur.to} : acked'[p] = acked[p] /\ (p \in index' <=> p \in index),
         \A p \in {cur.path, cur.to} \cap Paths : Kept(p)' /\ (crashes = 0 /\ faults = 0 => AgreesOn(p)')
  PROVE  FileInv'
<1>1. pc' = "idle" /\ cur' = Nobody /\ reply' = res /\ UNCHANGED <<requests, crashes, faults>>
  BY DEF Finish, Answer
<1>2. Nobody \in Current /\ Nobody.path = NoFile /\ Nobody.to = NoFile /\ Nobody.known = Unknown
  BY ContentFacts DEF Nobody, Current
<1>3. TypeOK'
  BY <1>1, <1>2 DEF FileInv, TypeOK, Steps
<1>4. LocalsOK'
  BY <1>1 DEF LocalsOK
<1>5. \A p \in Paths : Kept(p)' /\ (crashes = 0 /\ faults = 0 => AgreesOn(p)')
  BY Busy DEF Kept, AgreesOn, Described, LayoutOf
<1>6. KeptOK'
  BY <1>1, <1>2, <1>5, ContentFacts DEF KeptOK
<1>7. DoneOK' /\ MovedOK'
  BY <1>1, <1>2, ContentFacts DEF DoneOK, MovedOK, RenameSteps
<1>8. AgreeOK'
  BY <1>1, <1>5 DEF AgreeOK
<1>9. QED
  BY <1>3, <1>4, <1>6, <1>7, <1>8 DEF FileInv

LEMMA PutIndexStep ==
  ASSUME FileInv, PutIndex
  PROVE  FileInv'
<1>1. /\ pc = "put_index" /\ index' = index \cup {cur.path} /\ acked' = [acked EXCEPT ![cur.path] = cur.data]
      /\ Finish("ok") /\ UNCHANGED <<dataFile, metaFile>>
  BY DEF PutIndex
<1>2. /\ dataFile[cur.path] = cur.data /\ metaFile[cur.path] = LayoutOf(cur.data)
      /\ cur.data \in Content /\ cur.to = NoFile /\ cur.path \in Paths
  BY <1>1, Busy DEF FileInv, DoneOK, TypeOK, Current, RenameSteps
<1>3. handle' \in [Handles -> OpenFile \cup {NoFile}]
  <2>1. cur.h # NoFile => cur.h \in Handles /\ handle[cur.h] \in OpenFile
    BY <1>1, HandleTypes DEF FileInv, LocalsOK, TypeOK, Current
  <2>2. CASE cur.h = NoFile \/ cur.closing
    BY <2>2, HandleTypes DEF PutIndex, FileInv, TypeOK
  <2>3. CASE cur.h # NoFile /\ ~cur.closing
    <3>1. [handle[cur.h] EXCEPT !.dirty = FALSE] \in OpenFile
      BY <2>1, <2>3 DEF OpenFile
    <3>2. handle' = [handle EXCEPT ![cur.h] = [handle[cur.h] EXCEPT !.dirty = FALSE]]
      BY <2>1, <2>3 DEF PutIndex, Clean, FileInv, TypeOK
    <3>3. QED
      BY <2>1, <2>3, <3>1, <3>2, HandleTypes DEF FileInv
  <2>4. QED
    BY <2>2, <2>3
<1>4. index' \subseteq Paths /\ acked' \in [Paths -> Content \cup {NoFile, Unknown}]
  BY <1>1, <1>2 DEF FileInv, TypeOK
<1>5. /\ \A p \in Paths \ {cur.path, cur.to} : acked'[p] = acked[p] /\ (p \in index' <=> p \in index)
      /\ acked'[cur.path] = cur.data
  BY <1>1, <1>2 DEF FileInv, TypeOK
<1>6. \A p \in {cur.path, cur.to} \cap Paths : Kept(p)' /\ (crashes = 0 /\ faults = 0 => AgreesOn(p)')
  BY <1>1, <1>2, <1>5, ContentFacts DEF Kept, AgreesOn, Described, LayoutOf
<1>7. pc # "idle" /\ "ok" \in {"ok", "ENOENT"}
  BY <1>1
<1>8. QED
  BY <1>1, <1>3, <1>4, <1>5, <1>6, <1>7, Finished

LEMMA RmMetaStep ==
  ASSUME FileInv, RmMeta
  PROVE  FileInv'
<1>1. /\ metaFile' = [metaFile EXCEPT ![cur.path] = NoFile] /\ pc = "rm_meta" /\ pc' = "rm_data"
      /\ UNCHANGED <<dataFile, index, handle, cur, reply, acked, requests, crashes, faults>>
  BY DEF RmMeta, Goto
<1>2. TypeOK'
  BY <1>1, Busy DEF FileInv, TypeOK, Steps, RenameSteps
<1>3. LocalsOK'
  BY <1>1 DEF FileInv, LocalsOK, RenameSteps
<1>4. KeptOK'
  BY <1>1, Busy DEF FileInv, TypeOK, KeptOK, Kept, LayoutOf, RenameSteps
<1>5. DoneOK' /\ MovedOK'
  BY <1>1, Busy DEF FileInv, TypeOK, DoneOK, MovedOK, RenameSteps, LayoutOf
<1>6. AgreeOK'
  BY <1>1, Busy, ContentFacts DEF FileInv, TypeOK, AgreeOK, AgreesOn, Described, LayoutOf, RenameSteps
<1>7. QED
  BY <1>2, <1>3, <1>4, <1>5, <1>6 DEF FileInv

LEMMA RmDataStep ==
  ASSUME FileInv, RmData
  PROVE  FileInv'
<1>1. /\ dataFile' = [dataFile EXCEPT ![cur.path] = NoFile] /\ pc = "rm_data" /\ pc' = "rm_index"
      /\ UNCHANGED <<metaFile, index, handle, cur, reply, acked, requests, crashes, faults>>
  BY DEF RmData, Goto
<1>2. TypeOK'
  BY <1>1, Busy DEF FileInv, TypeOK, Steps, RenameSteps
<1>3. LocalsOK'
  BY <1>1 DEF FileInv, LocalsOK, RenameSteps
<1>4. KeptOK'
  BY <1>1, Busy DEF FileInv, TypeOK, KeptOK, Kept, LayoutOf, RenameSteps
<1>5. DoneOK' /\ MovedOK'
  BY <1>1, Busy DEF FileInv, TypeOK, DoneOK, MovedOK, RenameSteps, LayoutOf
<1>6. AgreeOK'
  BY <1>1, Busy, ContentFacts DEF FileInv, TypeOK, AgreeOK, AgreesOn, Described, LayoutOf, RenameSteps
<1>7. QED
  BY <1>2, <1>3, <1>4, <1>5, <1>6 DEF FileInv

LEMMA OverMetaStep ==
  ASSUME FileInv, OverMeta
  PROVE  FileInv'
<1>1. /\ metaFile' = [metaFile EXCEPT ![cur.to] = NoFile] /\ pc = "over_meta" /\ pc' = "over_data"
      /\ UNCHANGED <<dataFile, index, handle, cur, reply, acked, requests, crashes, faults>>
  BY DEF OverMeta, Goto
<1>2. TypeOK'
  BY <1>1, Busy DEF FileInv, TypeOK, Steps, RenameSteps
<1>3. LocalsOK'
  BY <1>1 DEF FileInv, LocalsOK, RenameSteps
<1>4. KeptOK'
  BY <1>1, Busy DEF FileInv, TypeOK, KeptOK, Kept, LayoutOf, RenameSteps
<1>5. DoneOK' /\ MovedOK'
  BY <1>1, Busy DEF FileInv, TypeOK, DoneOK, MovedOK, RenameSteps, LayoutOf
<1>6. AgreeOK'
  BY <1>1, Busy, ContentFacts DEF FileInv, TypeOK, AgreeOK, AgreesOn, Described, LayoutOf, RenameSteps
<1>7. QED
  BY <1>2, <1>3, <1>4, <1>5, <1>6 DEF FileInv

LEMMA OverDataStep ==
  ASSUME FileInv, OverData
  PROVE  FileInv'
<1>1. /\ dataFile' = [dataFile EXCEPT ![cur.to] = NoFile] /\ pc = "over_data" /\ pc' = "mv_meta"
      /\ UNCHANGED <<metaFile, index, handle, cur, reply, acked, requests, crashes, faults>>
  BY DEF OverData, Goto
<1>2. TypeOK'
  BY <1>1, Busy DEF FileInv, TypeOK, Steps, RenameSteps
<1>3. LocalsOK'
  BY <1>1 DEF FileInv, LocalsOK, RenameSteps
<1>4. KeptOK'
  BY <1>1, Busy DEF FileInv, TypeOK, KeptOK, Kept, LayoutOf, RenameSteps
<1>5. DoneOK' /\ MovedOK'
  BY <1>1, Busy DEF FileInv, TypeOK, DoneOK, MovedOK, RenameSteps, LayoutOf
<1>6. AgreeOK'
  BY <1>1, Busy, ContentFacts DEF FileInv, TypeOK, AgreeOK, AgreesOn, Described, LayoutOf, RenameSteps
<1>7. QED
  BY <1>2, <1>3, <1>4, <1>5, <1>6 DEF FileInv

LEMMA MvMetaStep ==
  ASSUME FileInv, MvMeta
  PROVE  FileInv'
<1>1. /\ metaFile' = [metaFile EXCEPT ![cur.to] = metaFile[cur.path], ![cur.path] = NoFile] /\ pc = "mv_meta" /\ pc' = "mv_data"
      /\ UNCHANGED <<dataFile, index, handle, cur, reply, acked, requests, crashes, faults>>
  BY DEF MvMeta, Goto
<1>2. TypeOK'
  BY <1>1, Busy DEF FileInv, TypeOK, Steps, RenameSteps
<1>3. LocalsOK'
  BY <1>1 DEF FileInv, LocalsOK, RenameSteps
<1>4. KeptOK'
  BY <1>1, Busy DEF FileInv, TypeOK, KeptOK, Kept, LayoutOf, RenameSteps
<1>5. DoneOK' /\ MovedOK'
  BY <1>1, Busy DEF FileInv, TypeOK, DoneOK, MovedOK, RenameSteps, LayoutOf
<1>6. AgreeOK'
  BY <1>1, Busy, ContentFacts DEF FileInv, TypeOK, AgreeOK, AgreesOn, Described, LayoutOf, RenameSteps
<1>7. QED
  BY <1>2, <1>3, <1>4, <1>5, <1>6 DEF FileInv

LEMMA MvOutStep ==
  ASSUME FileInv, MvOut
  PROVE  FileInv'
<1>1. /\ index' = index \ {cur.path} /\ pc = "mv_out" /\ pc' = "mv_in"
      /\ UNCHANGED <<dataFile, metaFile, handle, cur, reply, acked, requests, crashes, faults>>
  BY DEF MvOut, Goto
<1>2. TypeOK'
  BY <1>1, Busy DEF FileInv, TypeOK, Steps, RenameSteps
<1>3. LocalsOK'
  BY <1>1 DEF FileInv, LocalsOK, RenameSteps
<1>4. KeptOK'
  BY <1>1, Busy DEF FileInv, TypeOK, KeptOK, Kept, LayoutOf, RenameSteps
<1>5. DoneOK' /\ MovedOK'
  BY <1>1, Busy DEF FileInv, TypeOK, DoneOK, MovedOK, RenameSteps, LayoutOf
<1>6. AgreeOK'
  BY <1>1, Busy, ContentFacts DEF FileInv, TypeOK, AgreeOK, AgreesOn, Described, LayoutOf, RenameSteps
<1>7. QED
  BY <1>2, <1>3, <1>4, <1>5, <1>6 DEF FileInv

LEMMA RmIndexStep ==
  ASSUME FileInv, RmIndex
  PROVE  FileInv'
<1>1. /\ pc = "rm_index" /\ index' = index \ {cur.path} /\ acked' = [acked EXCEPT ![cur.path] = NoFile]
      /\ Finish("ok") /\ UNCHANGED <<dataFile, metaFile, handle>>
  BY DEF RmIndex
<1>2. /\ metaFile[cur.path] = NoFile /\ cur.to = NoFile /\ cur.path \in Paths
      /\ crashes = 0 /\ faults = 0 => dataFile[cur.path] = NoFile
  BY <1>1, Busy DEF FileInv, DoneOK, AgreeOK, RenameSteps
<1>3. /\ handle' \in [Handles -> OpenFile \cup {NoFile}]
      /\ index' \subseteq Paths /\ acked' \in [Paths -> Content \cup {NoFile, Unknown}]
  BY <1>1, <1>2 DEF FileInv, TypeOK
<1>4. /\ \A p \in Paths \ {cur.path, cur.to} : acked'[p] = acked[p] /\ (p \in index' <=> p \in index)
      /\ acked'[cur.path] = NoFile
  BY <1>1, <1>2 DEF FileInv, TypeOK
<1>5. \A p \in {cur.path, cur.to} \cap Paths : Kept(p)' /\ (crashes = 0 /\ faults = 0 => AgreesOn(p)')
  BY <1>1, <1>2, <1>4, ContentFacts DEF Kept, AgreesOn, Described, LayoutOf
<1>6. pc # "idle" /\ "ok" \in {"ok", "ENOENT"}
  BY <1>1
<1>7. QED
  BY <1>1, <1>3, <1>4, <1>5, <1>6, Finished

\* The data file moves, or is found missing: only a failure before can have lost it.
LEMMA MvDataStep ==
  ASSUME FileInv, MvData
  PROVE  FileInv'
<1>1. CASE /\ dataFile' = [dataFile EXCEPT ![cur.to] = dataFile[cur.path], ![cur.path] = NoFile]
           /\ dataFile[cur.path] # NoFile /\ pc = "mv_data" /\ pc' = "mv_out"
           /\ UNCHANGED <<metaFile, index, handle, cur, reply, acked, requests, crashes, faults>>
  <2>1. TypeOK'
    BY <1>1, Busy DEF FileInv, TypeOK, Steps, RenameSteps
  <2>2. LocalsOK'
    BY <1>1 DEF FileInv, LocalsOK, RenameSteps
  <2>3. KeptOK'
    BY <1>1, Busy DEF FileInv, TypeOK, KeptOK, Kept, LayoutOf, RenameSteps
  <2>4. DoneOK' /\ MovedOK'
    BY <1>1, Busy DEF FileInv, TypeOK, DoneOK, MovedOK, RenameSteps, LayoutOf
  <2>5. AgreeOK'
    BY <1>1, Busy, ContentFacts DEF FileInv, TypeOK, AgreeOK, AgreesOn, Described, LayoutOf, RenameSteps
  <2>6. QED
    BY <2>1, <2>2, <2>3, <2>4, <2>5 DEF FileInv
<1>2. CASE pc = "mv_data" /\ dataFile[cur.path] = NoFile /\ Finish("ENOENT") /\ UNCHANGED <<disk, handle, acked>>
  <2>1. /\ cur.path \in Paths /\ cur.to \in Paths /\ acked[cur.path] = Unknown /\ acked[cur.to] = Unknown
        /\ ~(crashes = 0 /\ faults = 0)
    BY <1>2, Busy DEF FileInv, AgreeOK, RenameSteps
  <2>2. /\ handle' \in [Handles -> OpenFile \cup {NoFile}] /\ index' \subseteq Paths
        /\ acked' \in [Paths -> Content \cup {NoFile, Unknown}]
        /\ UNCHANGED <<dataFile, metaFile>>
    BY <1>2 DEF FileInv, TypeOK, disk
  <2>3. \A p \in Paths \ {cur.path, cur.to} : acked'[p] = acked[p] /\ (p \in index' <=> p \in index)
    BY <1>2 DEF disk
  <2>4. \A p \in {cur.path, cur.to} \cap Paths : Kept(p)' /\ (crashes = 0 /\ faults = 0 => AgreesOn(p)')
    BY <1>2, <2>1, ContentFacts DEF Kept
  <2>5. pc # "idle" /\ "ENOENT" \in {"ok", "ENOENT"}
    BY <1>2
  <2>6. QED
    BY <1>2, <2>2, <2>3, <2>4, <2>5, Finished
<1>3. QED
  BY <1>1, <1>2 DEF MvData, Goto

LEMMA MvInStep ==
  ASSUME FileInv, MvIn
  PROVE  FileInv'
<1>1. /\ pc = "mv_in" /\ index' = index \cup {cur.to}
      /\ acked' = [acked EXCEPT ![cur.path] = NoFile, ![cur.to] = cur.known]
      /\ Finish("ok") /\ UNCHANGED <<dataFile, metaFile>>
  BY DEF MvIn
<1>2. /\ cur.path \in Paths /\ cur.to \in Paths /\ cur.to # cur.path
      /\ metaFile[cur.path] = NoFile /\ cur.path \notin index
      /\ cur.known \in Content \cup {Unknown}
      /\ cur.known \in Content => dataFile[cur.to] = cur.known /\ metaFile[cur.to] = LayoutOf(cur.known)
  BY <1>1, Busy DEF FileInv, DoneOK, MovedOK, TypeOK, Current, RenameSteps
<1>3. crashes = 0 /\ faults = 0 => /\ dataFile[cur.path] = NoFile
                                   /\ dataFile[cur.to] # NoFile /\ Described(cur.to)
  BY <1>1 DEF FileInv, AgreeOK
<1>4. handle' \in [Handles -> OpenFile \cup {NoFile}]
  <2>1. ASSUME NEW h \in Handles, handle[h] # NoFile PROVE [handle[h] EXCEPT !.node = cur.to] \in OpenFile
    BY <1>2, <2>1, HandleTypes DEF FileInv, OpenFile
  <2>2. \A h \in Handles : handle[h] \in OpenFile \cup {NoFile}
    BY DEF FileInv, TypeOK
  <2>3. QED
    BY <2>1, <2>2 DEF MvIn
<1>5. index' \subseteq Paths /\ acked' \in [Paths -> Content \cup {NoFile, Unknown}]
  BY <1>1, <1>2 DEF FileInv, TypeOK
<1>6. /\ \A p \in Paths \ {cur.path, cur.to} : acked'[p] = acked[p] /\ (p \in index' <=> p \in index)
      /\ acked'[cur.path] = NoFile /\ acked'[cur.to] = cur.known
  BY <1>1, <1>2 DEF FileInv, TypeOK
<1>7. \A p \in {cur.path, cur.to} \cap Paths : Kept(p)' /\ (crashes = 0 /\ faults = 0 => AgreesOn(p)')
  <2>1. dataFile[cur.to] \in Content \cup {NoFile}
    BY <1>2 DEF FileInv, TypeOK
  <2>2. PICK p \in Paths, q \in Paths : p = cur.path /\ q = cur.to
    BY <1>2
  <2>3. Kept(p)' /\ (crashes = 0 /\ faults = 0 => AgreesOn(p)')
    BY <1>1, <1>2, <1>3, <1>6, <2>2, ContentFacts DEF Kept, AgreesOn, Described
  <2>4. Kept(q)' /\ (crashes = 0 /\ faults = 0 => AgreesOn(q)')
    BY <1>1, <1>2, <1>3, <1>6, <2>1, <2>2, ContentFacts, ZenonT(60) DEF Kept, AgreesOn, Described, LayoutOf
  <2>5. QED
    BY <2>2, <2>3, <2>4
<1>8. pc # "idle" /\ "ok" \in {"ok", "ENOENT"}
  BY <1>1
<1>9. QED
  BY <1>1, <1>4, <1>5, <1>6, <1>7, <1>8, Finished

-----------------------------------------------------------------------------
(* The invariant *)

LEMMA FileInit ==
  ASSUME Init
  PROVE  FileInv
<1>1. Nobody \in Current /\ Nobody.path = NoFile /\ Nobody.to = NoFile /\ Nobody.known = Unknown
  BY ContentFacts DEF Nobody, Current
<1>2. TypeOK
  BY <1>1, BoundsAssumption DEF Init, TypeOK, Steps, AllClosed
<1>3. LocalsOK /\ KeptOK /\ DoneOK /\ MovedOK /\ AgreeOK
  BY <1>1, ContentFacts DEF Init, LocalsOK, KeptOK, Kept, DoneOK, MovedOK, AgreeOK, AgreesOn, Described, RenameSteps
<1>4. QED
  BY <1>2, <1>3 DEF FileInv

LEMMA FileNext ==
  ASSUME FileInv, [Next]_vars
  PROVE  FileInv'
<1>1. ASSUME NEW h \in Handles, HandleRequest(h) PROVE FileInv'
  <2>1. ASSUME NEW p \in Paths, NEW trunc \in BOOLEAN, Open(h, p, trunc) PROVE FileInv'
    BY <2>1, OpenStep
  <2>2. ASSUME NEW p \in Paths, NEW trunc \in BOOLEAN, NEW excl \in BOOLEAN, Create(h, p, trunc, excl)
        PROVE  FileInv'
    BY <2>2, CreateStep
  <2>3. ASSUME NEW b \in Byte, NEW off \in 0 .. MaxLen - 1, Write(h, off, <<b>>) PROVE FileInv'
    <3>1. handle[h] # NoFile /\ handle[h].data \in Content
      BY <2>3, HandleTypes DEF Write, FileInv
    <3>2. Overlay(handle[h].data, off, <<b>>) \in Content
      BY <3>1, OverlayType
    <3>3. QED
      BY <2>3, <3>1, <3>2, EditStep DEF Write
  <2>4. ASSUME NEW n \in 0 .. MaxLen, Ftruncate(h, n) PROVE FileInv'
    <3>1. handle[h] # NoFile /\ handle[h].data \in Content
      BY <2>4, HandleTypes DEF Ftruncate, FileInv
    <3>2. Resize(handle[h].data, n) \in Content
      BY <3>1, ResizeType
    <3>3. QED
      BY <2>4, <3>1, <3>2, EditStep DEF Ftruncate
  <2>5. ASSUME NEW closing \in BOOLEAN, Flush(h, closing) PROVE FileInv'
    BY <2>5, FlushStep
  <2>6. QED
    BY <1>1, <2>1, <2>2, <2>3, <2>4, <2>5 DEF HandleRequest
<1>2. ASSUME NEW p \in Paths, PathRequest(p) PROVE FileInv'
  BY <1>2, TruncateStep, UnlinkStart, RenameStart DEF PathRequest
<1>3. ASSUME FileStep \/ UnlinkStep PROVE FileInv'
  BY <1>3, PutDataStep, PutMetaStep, PutIndexStep, RmMetaStep, RmDataStep, RmIndexStep DEF FileStep, UnlinkStep
<1>4. ASSUME RenameStep PROVE FileInv'
  BY <1>4, OverMetaStep, OverDataStep, MvMetaStep, MvDataStep, MvOutStep, MvInStep DEF RenameStep
<1>5. ASSUME UNCHANGED vars PROVE FileInv'
  BY <1>5 DEF vars, FileInv, TypeOK, LocalsOK, KeptOK, Kept, DoneOK, MovedOK, AgreeOK, AgreesOn, Described, LayoutOf
<1>6. QED
  BY <1>1, <1>2, <1>3, <1>4, <1>5, FailStep, CrashStep DEF Next

\* What is known from the answers, and what the handler has done, is on the disk.
THEOREM FileInvariant == Spec => []FileInv
<1>1. Init => FileInv
  BY FileInit
<1>2. FileInv /\ [Next]_vars => FileInv'
  BY FileNext
<1>3. QED
  BY <1>1, <1>2, PTL DEF Spec

\* The files on the backing disk and the open handles keep their types through
\* every request, system call, failure and crash of passthrough_cfs.
THEOREM FileTypes == Spec => []TypeOK
<1>1. FileInv => TypeOK
  BY DEF FileInv
<1>2. QED
  BY <1>1, FileInvariant, PTL

\* What flush, release, truncate, unlink and rename answered stays true: a file
\* that was written out is listed, has its size and reads back, also under a new
\* name and after crashes and failed requests for other files.
THEOREM AnswersDurable == Spec => []Durable
<1>1. ASSUME FileInv PROVE Durable
  <2>1. SUFFICES ASSUME NEW p \in Paths
                 PROVE  /\ acked[p] \in Content => /\ p \in Readdir
                                                   /\ Getattr(p) = [res |-> "ok", st_size |-> Len(acked[p])]
                                                   /\ Loads(p) /\ Loaded(p) = acked[p]
                        /\ acked[p] = NoFile => p \notin Readdir /\ Getattr(p).res = "ENOENT"
    BY DEF Durable
  <2>2. acked[p] # Unknown => Kept(p)
    BY <1>1 DEF FileInv, KeptOK
  <2>3. ASSUME acked[p] = NoFile PROVE p \notin Readdir /\ Getattr(p).res = "ENOENT"
    BY <2>2, <2>3, ContentFacts DEF Kept, Readdir, Getattr, LogicalFileExists
  <2>4. ASSUME NEW c \in Content, c = acked[p]
        PROVE  p \in Readdir /\ Getattr(p) = [res |-> "ok", st_size |-> Len(c)] /\ Loads(p) /\ Loaded(p) = c
    <3>1. p \in index /\ dataFile[p] = c /\ metaFile[p] = LayoutOf(c)
      BY <2>2, <2>4, ContentFacts DEF Kept
    <3>2. metaFile[p].len = Len(c) /\ metaFile[p].comp = Comp[c] /\ metaFile[p] # NoFile /\ c # NoFile
      BY <3>1, ContentFacts DEF LayoutOf
    <3>3. Len(c) \in Nat
      BY ContentSeq
    <3>4. Loaded(p) = c
      <4>1. SubSeq(c, 1, Len(c)) = c
        BY <3>3, PrefixType
      <4>2. QED
        BY <3>1, <3>2, <3>3, <4>1 DEF Loaded
    <3>5. QED
      BY <3>1, <3>2, <3>4 DEF Readdir, Getattr, LogicalFileExists, Loads, Readable
  <2>5. QED
    BY <2>3, <2>4
<1>2. QED
  BY <1>1, FileInvariant, PTL

\* As long as nothing failed, between requests index.txt, the metadata files and
\* the data files of passthrough_cfs agree.
THEOREM PlacesAgree == Spec => []StoreAgrees
<1>1. ASSUME FileInv PROVE StoreAgrees
  <2>1. SUFFICES ASSUME pc = "idle", crashes = 0, faults = 0, NEW p \in Paths
                 PROVE  AgreesOn(p)
    BY DEF StoreAgrees, AgreesOn, Described
  <2>2. cur = Nobody /\ Nobody.path = NoFile /\ Nobody.to = NoFile
    BY <1>1, <2>1 DEF FileInv, LocalsOK, Nobody
  <2>3. QED
    BY <1>1, <2>1, <2>2, ContentFacts DEF FileInv, AgreeOK
<1>2. QED
  BY <1>1, FileInvariant, PTL
=============================================================================
