----------------------------- MODULE FuseStore -----------------------------
(***************************************************************************)
(* What the handlers of FuseOps owe to the programs that use the mount:    *)
(* history variables keep, beside the files on disk, the contents that the *)
(* answers so far have promised, and the contents a running read may show. *)
(***************************************************************************)
EXTENDS FuseOps, ByteSeq

CONSTANTS NoFile,        \* the file is not there, or is deleted
          Unknown        \* it has a hole, or a crash or a fault met a handler that changed it

ASSUME HistoryAssumption == NoFile # Unknown /\ NoFile \notin Seq(Byte) /\ Unknown \notin Seq(Byte)

VARIABLES bytes,         \* bytes[id]: the contents promised
          seen           \* seen[t]: contents the file had, or was getting, since t's read took its size

history == <<bytes, seen>>

\* Files that some handler is in the middle of changing.
Changing ==
  {frame[t].id : t \in {u \in Threads : pc[u] \in {"create_save", "chunk", "trim", "save",
                          "unlink_chunks", "unlink_meta", "rename_save", "chmod_save"}}}
    \cup {frame[t].eid : t \in {u \in Threads : pc[u] = "rename_erase"}}
    \cup {index[frame[t].req.to] : t \in {u \in Threads : pc[u] = "rename_victim"}}

\* What a file that holds old holds after request r.  What a hole holds is
\* ChunkFile's subject.
After(r, old) ==
  IF old \in {NoFile, Unknown} \/ r.op = "utimens" THEN old
  ELSE IF r.off > Len(old) THEN Unknown
  ELSE IF r.op = "write" THEN Overwritten(old, r.off, r.buf) ELSE Resized(old, r.off)

\* The handlers that are writing or truncating id, and what id holds after them.
Writers(id) == {t \in Threads : pc[t] \in {"chunk", "trim", "save"} /\ frame[t].id = id}
Result(t) == After(frame[t].req, bytes[frame[t].id])

Left(t, label) == pc[t] = label /\ pc'[t] # label

\* A file changes when the handler that answers saves or removes its metadata.
NextBytes(id) ==
  IF crashes' # crashes THEN IF id \in Changing THEN Unknown ELSE bytes[id]
  ELSE CASE \E t \in Threads : Left(t, "create_save") /\ frame[t].id = id -> <<>>
         [] \E t \in Threads : \/ Left(t, "unlink_meta") /\ frame[t].id = id
                               \/ Left(t, "rename_erase") /\ frame[t].eid = id -> NoFile
         [] \E t \in Writers(id) : Left(t, "save") -> Result(CHOOSE t \in Writers(id) : Left(t, "save"))
         [] faults' # faults /\ (\E t \in Writers(id) : <<pc'[t], frame'[t]>> # <<pc[t], frame[t]>>) -> Unknown
         [] OTHER -> bytes[id]

NextSeen(t) ==
  IF pc'[t] # "tasks" THEN {}
  ELSE seen[t] \cup {bytes'[frame'[t].id]} \cup {Result(u) : u \in Writers(frame[t].id)}

StoreInit == /\ Init
             /\ bytes = [id \in Ids |-> IF Stored(id) THEN Resized(InitBytes, InitSize) ELSE NoFile]
             /\ seen = [t \in Threads |-> {}]

StoreNext == /\ Next
             /\ bytes' = [id \in Ids |-> NextBytes(id)]
             /\ seen' = [t \in Threads |-> NextSeen(t)]

StoreSpec == StoreInit /\ [][StoreNext]_<<vars, history>>

-----------------------------------------------------------------------------
(* Properties *)

\* The disk holds every byte the daemon has answered for: a file that no handler
\* is changing has its promised size and contents, whatever ran beside the
\* handlers that changed it, whatever its id held before, and also after a crash
\* in the middle of requests for other files.  A deleted file is gone.
BytesKept ==
  \A id \in Ids \ Changing :
    CASE bytes[id] = Unknown -> TRUE
      [] bytes[id] = NoFile  -> ~Stored(id)
      [] OTHER -> Stored(id) /\ ContentsOf(chunkFile[id], Load(id).size) = bytes[id]

\* A read that meets writes, but no cut of the file below the size it found, is
\* as long as that size allows, and each byte is the file's byte at that place
\* before, between or after those writes: never half a chunk, never a byte of
\* another place, never a zero for a chunk that was not there yet.
ReadsRegular ==
  [][\A t \in Threads :
       LET f == frame[t]
       IN /\ pc[t] = "tasks" /\ pc'[t] = "idle" /\ reply'[t].res = "ok"
          /\ \A v \in seen[t] : v # Unknown /\ Len(v) >= f.m.size
          => /\ Len(reply'[t].data) = Least(f.req.len, f.m.size - f.req.off)
             /\ \A i \in DOMAIN reply'[t].data :
                  \E v \in seen[t] : reply'[t].data[i] = v[f.req.off + i]]_<<vars, history>>
=============================================================================
