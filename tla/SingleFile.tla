----------------------------- MODULE SingleFile -----------------------------
(***************************************************************************)
(* The single-file daemon (passthrough_cfs.cpp): every open file is held   *)
(* whole in its handle and written back whole, to one data file and one    *)
(* metadata file per path and to index.txt, each by a temporary file and   *)
(* rename(2).  Its code has no lock and is meant for one worker            *)
(* (docs/metadata-format-v1.md, "Single-threaded Phase 2"): one handler    *)
(* runs at a time, but the process may end between any two system calls    *)
(* that change a file, and a system call may fail.                         *)
(*                                                                         *)
(* Files have at most one chunk here; CompressLib.tla has the cutting.     *)
(* Directories and special files, which are passed through to the backing  *)
(* directory, are not represented: a path without metadata is not there.   *)
(***************************************************************************)
EXTENDS Naturals, Sequences

CONSTANTS Paths,         \* normalized paths
          Handles,       \* OpenFileHandle objects
          NoFile,        \* no such file, no handle
          Unknown,       \* see acked
          Byte,          \* the values a byte takes; 0 fills
          MaxLen,        \* bound: bytes in a file
          Comp,          \* Comp[c]: the size zstd compresses contents c to
          MaxRequests,   \* bound: requests
          MaxCrashes,    \* bound: crashes
          MaxFaults      \* bound: failing system calls

Content == UNION {[1 .. n -> Byte] : n \in 0 .. MaxLen}
Layout  == [len : 0 .. MaxLen, comp : Nat]

ASSUME ByteAssumption == 0 \in Byte
ASSUME BoundsAssumption == {MaxLen, MaxRequests, MaxCrashes, MaxFaults} \subseteq Nat
ASSUME CompAssumption ==
  Comp \in [Content -> Nat] /\ \A c \in Content : Comp[c] = 0 <=> c = <<>>
ASSUME NoFileAssumption == NoFile \notin Content \cup Paths \cup Handles \cup Layout
ASSUME UnknownAssumption == Unknown \notin Content \cup {NoFile}

VARIABLES dataFile,      \* dataFile[p]: <id>.dat, the contents it decompresses to
          metaFile,      \* metaFile[p]: <id>.meta, the chunk table
          index,         \* index.txt
          handle,        \* handle[h]: an open file
          pc,            \* the system call the handler is at
          cur,           \* its arguments and local variables
          reply,         \* what the last request was answered
          acked,         \* acked[p]: what is known of p from the answers given
          requests, crashes, faults

disk == <<dataFile, metaFile, index>>
vars == <<dataFile, metaFile, index, handle, pc, cur, reply, acked, requests, crashes, faults>>

OpenFile == [path : Paths,         \* path, as it was when the file was opened
             node : Paths,         \* the name libfuse has for the file now
             data : Content, dirty : BOOLEAN]
Current == [path : Paths \cup {NoFile}, to : Paths \cup {NoFile}, h : Handles \cup {NoFile},
            data : Content, closing : BOOLEAN,
            known : Content \cup {NoFile, Unknown}]      \* rename: acked of the file moved
Steps == {"idle", "put_data", "put_meta", "put_index", "rm_meta", "rm_data", "rm_index",
          "over_meta", "over_data", "mv_meta", "mv_data", "mv_out", "mv_in"}

TypeOK == /\ dataFile \in [Paths -> Content \cup {NoFile}]
          /\ metaFile \in [Paths -> Layout \cup {NoFile}]
          /\ index \subseteq Paths
          /\ handle \in [Handles -> OpenFile \cup {NoFile}]
          /\ pc \in Steps
          /\ cur \in Current
          /\ reply \in {"none", "ok", "ENOENT", "EEXIST", "EIO"}
          /\ acked \in [Paths -> Content \cup {NoFile, Unknown}]
          /\ requests \in 0 .. MaxRequests
          /\ crashes \in 0 .. MaxCrashes
          /\ faults \in 0 .. MaxFaults

Nobody == [path |-> NoFile, to |-> NoFile, h |-> NoFile, data |-> <<>>,
           closing |-> FALSE, known |-> Unknown]
AllClosed == [h \in Handles |-> NoFile]

Init == /\ dataFile = [p \in Paths |-> NoFile]
        /\ metaFile = [p \in Paths |-> NoFile]
        /\ index = {}
        /\ handle = AllClosed
        /\ pc = "idle" /\ cur = Nobody /\ reply = "none"
        /\ acked = [p \in Paths |-> NoFile]
        /\ requests = 0 /\ crashes = 0 /\ faults = 0

-----------------------------------------------------------------------------
LayoutOf(c) == [len |-> Len(c), comp |-> Comp[c]]

LogicalFileExists(p) == metaFile[p] # NoFile

\* load_logical_file reads comp bytes of the data file and decompresses them:
\* too few bytes are an error, other bytes than a whole frame an exception that
\* nothing catches.
Readable(p) == metaFile[p] # NoFile /\ dataFile[p] # NoFile
Loads(p)  == Readable(p) /\ metaFile[p].comp \in {0, Comp[dataFile[p]]}
Throws(p) == Readable(p) /\ metaFile[p].comp # 0 /\ metaFile[p].comp < Comp[dataFile[p]]
Loaded(p) == IF metaFile[p].len <= Len(dataFile[p]) THEN SubSeq(dataFile[p], 1, metaFile[p].len)
             ELSE dataFile[p]

Resize(c, n) == [i \in 1 .. n |-> IF i <= Len(c) THEN c[i] ELSE 0]

\* Mutant of Overlay: the bytes go to the end, wherever they were meant for.
OverlayAtEnd(c, off, buf) == c \o buf

Overlay(c, off, buf) ==
  [i \in 1 .. (IF off + Len(buf) > Len(c) THEN off + Len(buf) ELSE Len(c)) |->
     IF off < i /\ i <= off + Len(buf) THEN buf[i - off] ELSE IF i <= Len(c) THEN c[i] ELSE 0]

-----------------------------------------------------------------------------
(* Requests *)

Request == pc = "idle" /\ requests < MaxRequests /\ requests' = requests + 1

Answer(res) == reply' = res /\ pc' = "idle" /\ cur' = Nobody

\* The exception ends the process; the next mount finds the files as they are.
Die == handle' = AllClosed /\ Answer("none")

\* What open and create do with a file that exists.
OpenExisting(h, p, trunc) ==
  /\ LogicalFileExists(p)
  /\ \/ /\ Loads(p)
        /\ handle' = [handle EXCEPT ![h] = [path |-> p, node |-> p, dirty |-> trunc,
                                            data |-> IF trunc THEN <<>> ELSE Loaded(p)]]
        /\ Answer("ok")
     \/ ~Loads(p) /\ ~Throws(p) /\ UNCHANGED handle /\ Answer("EIO")
     \/ Throws(p) /\ Die

Open(h, p, trunc) ==
  /\ Request /\ handle[h] = NoFile
  /\ \/ ~LogicalFileExists(p) /\ UNCHANGED handle /\ Answer("ENOENT")
     \/ OpenExisting(h, p, trunc)
  /\ UNCHANGED <<disk, acked, crashes, faults>>

\* A new file is in its handle only, until it is flushed.
Create(h, p, trunc, excl) ==
  /\ Request /\ handle[h] = NoFile
  /\ \/ excl /\ LogicalFileExists(p) /\ UNCHANGED handle /\ Answer("EEXIST")
     \/ ~excl /\ OpenExisting(h, p, trunc)
     \/ /\ ~LogicalFileExists(p)
        /\ handle' = [handle EXCEPT ![h] = [path |-> p, node |-> p, dirty |-> TRUE, data |-> <<>>]]
        /\ Answer("ok")
  /\ UNCHANGED <<disk, acked, crashes, faults>>

Edit(h, c) ==
  /\ Request
  /\ handle' = [handle EXCEPT ![h] = [@ EXCEPT !.data = c, !.dirty = TRUE]]
  /\ Answer("ok")
  /\ UNCHANGED <<disk, acked, crashes, faults>>

Write(h, off, buf) == handle[h] # NoFile /\ Edit(h, Overlay(handle[h].data, off, buf))
Ftruncate(h, n)    == handle[h] # NoFile /\ Edit(h, Resize(handle[h].data, n))

\* Once a handler starts to change the files of p, nothing is known of p.
Start(step, c, ps) == /\ pc' = step
                      /\ cur' = c
                      /\ acked' = [p \in Paths |-> IF p \in ps THEN Unknown ELSE acked[p]]
                      /\ UNCHANGED <<disk, reply, crashes, faults>>

Persist(h, p, c, closing) ==
  Start("put_data", [Nobody EXCEPT !.path = p, !.h = h, !.data = c, !.closing = closing], {p})

Truncate(p, n) ==
  /\ Request
  /\ \/ ~LogicalFileExists(p) /\ Answer("ENOENT") /\ UNCHANGED <<disk, handle, acked, crashes, faults>>
     \/ /\ LogicalFileExists(p) /\ ~Loads(p) /\ ~Throws(p)
        /\ Answer("EIO") /\ UNCHANGED <<disk, handle, acked, crashes, faults>>
     \/ Throws(p) /\ Die /\ UNCHANGED <<disk, acked, crashes, faults>>
     \/ Loads(p) /\ Persist(NoFile, p, Resize(Loaded(p), n), FALSE) /\ UNCHANGED handle

Close(h, closing) == handle' = IF closing THEN [handle EXCEPT ![h] = NoFile] ELSE handle

\* flush and fsync, and release, which deletes the handle whatever happens.
Flush(h, closing) ==
  /\ Request /\ handle[h] # NoFile
  /\ \/ /\ handle[h].dirty
        /\ Persist(h, handle[h].path, handle[h].data, closing)
        /\ UNCHANGED handle
     \/ /\ ~handle[h].dirty
        /\ Close(h, closing)
        /\ Answer("ok")
        /\ UNCHANGED <<disk, acked, crashes, faults>>

\* libfuse never asks for the removal of a name whose file is open: it renames
\* the file to a hidden name.
Closed(p) == \A h \in Handles : handle[h] # NoFile => handle[h].node # p

Unlink(p) ==
  /\ Request /\ Closed(p)
  /\ \/ ~LogicalFileExists(p) /\ Answer("ENOENT") /\ UNCHANGED <<disk, acked, crashes, faults>>
     \/ LogicalFileExists(p) /\ Start("rm_meta", [Nobody EXCEPT !.path = p], {p})
  /\ UNCHANGED handle

Rename(p, q) ==
  /\ Request /\ p # q /\ Closed(q)
  /\ \/ ~LogicalFileExists(p) /\ Answer("ENOENT") /\ UNCHANGED <<disk, acked, crashes, faults>>
     \/ /\ LogicalFileExists(p)
        /\ Start(IF LogicalFileExists(q) THEN "over_meta" ELSE "mv_meta",
                 [Nobody EXCEPT !.path = p, !.to = q, !.known = acked[p]], {p, q})
  /\ UNCHANGED handle

-----------------------------------------------------------------------------
(* System calls.  One that fails ends the handler; what went before stays.    *)

Finish(res) == Answer(res) /\ UNCHANGED <<requests, crashes, faults>>

Goto(step) == pc' = step /\ UNCHANGED <<cur, reply, handle, acked, requests, crashes, faults>>

Fail == /\ pc # "idle" /\ faults < MaxFaults
        /\ faults' = faults + 1
        /\ Close(cur.h, cur.closing)
        /\ Answer("EIO")
        /\ UNCHANGED <<disk, acked, requests, crashes>>

\* Mutant of PutData: the data file is left as it is when there is one.
PutDataOnce ==
  /\ pc = "put_data"
  /\ dataFile' = [dataFile EXCEPT ![cur.path] = IF @ = NoFile THEN cur.data ELSE @]
  /\ Goto("put_meta") /\ UNCHANGED <<metaFile, index>>

PutData == /\ pc = "put_data"
           /\ dataFile' = [dataFile EXCEPT ![cur.path] = cur.data]
           /\ Goto("put_meta") /\ UNCHANGED <<metaFile, index>>

\* save_meta_atomic
PutMeta == /\ pc = "put_meta"
           /\ metaFile' = [metaFile EXCEPT ![cur.path] = LayoutOf(cur.data)]
           /\ Goto("put_index") /\ UNCHANGED <<dataFile, index>>

Clean(h) == [handle EXCEPT ![h].dirty = FALSE]

PutIndex == /\ pc = "put_index"
            /\ index' = index \cup {cur.path}
            /\ handle' = IF cur.h = NoFile THEN handle
                         ELSE IF cur.closing THEN [handle EXCEPT ![cur.h] = NoFile] ELSE Clean(cur.h)
            /\ acked' = [acked EXCEPT ![cur.path] = cur.data]
            /\ Finish("ok") /\ UNCHANGED <<dataFile, metaFile>>

RmMeta == /\ pc = "rm_meta"
          /\ metaFile' = [metaFile EXCEPT ![cur.path] = NoFile]
          /\ Goto("rm_data") /\ UNCHANGED <<dataFile, index>>

\* Mutant of RmData: the data file is not removed.
RmDataNot == /\ pc = "rm_data"
             /\ Goto("rm_index") /\ UNCHANGED disk

RmData == /\ pc = "rm_data"
          /\ dataFile' = [dataFile EXCEPT ![cur.path] = NoFile]
          /\ Goto("rm_index") /\ UNCHANGED <<metaFile, index>>

RmIndex == /\ pc = "rm_index"
           /\ index' = index \ {cur.path}
           /\ acked' = [acked EXCEPT ![cur.path] = NoFile]
           /\ Finish("ok") /\ UNCHANGED <<dataFile, metaFile, handle>>

\* The file that has the new name goes first.
OverMeta == /\ pc = "over_meta"
            /\ metaFile' = [metaFile EXCEPT ![cur.to] = NoFile]
            /\ Goto("over_data") /\ UNCHANGED <<dataFile, index>>

OverData == /\ pc = "over_data"
            /\ dataFile' = [dataFile EXCEPT ![cur.to] = NoFile]
            /\ Goto("mv_meta") /\ UNCHANGED <<metaFile, index>>

\* rename(2) of the metadata file, then of the data file, which may be missing
\* after an earlier rename was cut short.
MvMeta == /\ pc = "mv_meta"
          /\ metaFile' = [metaFile EXCEPT ![cur.to] = metaFile[cur.path], ![cur.path] = NoFile]
          /\ Goto("mv_data") /\ UNCHANGED <<dataFile, index>>

MvData ==
  /\ pc = "mv_data"
  /\ \/ /\ dataFile[cur.path] # NoFile
        /\ dataFile' = [dataFile EXCEPT ![cur.to] = dataFile[cur.path], ![cur.path] = NoFile]
        /\ Goto("mv_out") /\ UNCHANGED <<metaFile, index>>
     \/ dataFile[cur.path] = NoFile /\ Finish("ENOENT") /\ UNCHANGED <<disk, handle, acked>>

MvOut == /\ pc = "mv_out"
         /\ index' = index \ {cur.path}
         /\ Goto("mv_in") /\ UNCHANGED <<dataFile, metaFile>>

\* libfuse gives open files their new name when the handler has succeeded.
MvIn ==
  /\ pc = "mv_in"
  /\ index' = index \cup {cur.to}
  /\ acked' = [acked EXCEPT ![cur.path] = NoFile, ![cur.to] = cur.known]
  /\ handle' = [h \in Handles |-> IF handle[h] # NoFile /\ handle[h].node = cur.path
                                  THEN [handle[h] EXCEPT !.node = cur.to] ELSE handle[h]]
  /\ Finish("ok") /\ UNCHANGED <<dataFile, metaFile>>

Crash == /\ crashes < MaxCrashes
         /\ crashes' = crashes + 1
         /\ Die
         /\ UNCHANGED <<disk, acked, requests, faults>>

-----------------------------------------------------------------------------
(* The handlers that only look. *)

Getattr(p) == IF LogicalFileExists(p) THEN [res |-> "ok", st_size |-> metaFile[p].len]
              ELSE [res |-> "ENOENT"]

Readdir == index

-----------------------------------------------------------------------------
FileStep   == PutData \/ PutMeta \/ PutIndex
UnlinkStep == RmMeta \/ RmData \/ RmIndex
RenameStep == OverMeta \/ OverData \/ MvMeta \/ MvData \/ MvOut \/ MvIn

HandleRequest(h) ==
  \/ \E p \in Paths, trunc \in BOOLEAN :
       Open(h, p, trunc) \/ \E excl \in BOOLEAN : Create(h, p, trunc, excl)
  \/ \E b \in Byte, off \in 0 .. MaxLen - 1 : Write(h, off, <<b>>)
  \/ \E n \in 0 .. MaxLen : Ftruncate(h, n)
  \/ \E closing \in BOOLEAN : Flush(h, closing)

PathRequest(p) == \/ \E n \in 0 .. MaxLen : Truncate(p, n)
                  \/ Unlink(p)
                  \/ \E q \in Paths : Rename(p, q)

Next == \/ \E h \in Handles : HandleRequest(h)
        \/ \E p \in Paths : PathRequest(p)
        \/ FileStep \/ UnlinkStep \/ RenameStep
        \/ Fail \/ Crash

Spec == Init /\ [][Next]_vars

-----------------------------------------------------------------------------
(* Properties *)

\* What was answered stays true: the contents of the last flush, release or
\* truncate that succeeded are listed, have their size and can be read back, also
\* under a new name and after crashes and failures of requests for other files;
\* a file that was deleted or renamed is gone.
Durable ==
  \A p \in Paths :
    /\ acked[p] \in Content => /\ p \in Readdir
                              /\ Getattr(p) = [res |-> "ok", st_size |-> Len(acked[p])]
                              /\ Loads(p) /\ Loaded(p) = acked[p]
    /\ acked[p] = NoFile => p \notin Readdir /\ Getattr(p).res = "ENOENT"

\* As long as nothing failed, between requests the three places agree: a listed
\* path has metadata, metadata describes the data file, no data is left over.
StoreAgrees ==
  pc = "idle" /\ crashes = 0 /\ faults = 0 =>
    \A p \in Paths :
      /\ p \in index <=> metaFile[p] # NoFile
      /\ metaFile[p] = IF dataFile[p] = NoFile THEN NoFile ELSE LayoutOf(dataFile[p])
=============================================================================
