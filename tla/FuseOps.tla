------------------------------ MODULE FuseOps ------------------------------
(***************************************************************************)
(* The handlers of fuse_ops.cpp, run by libfuse's threads over MetaStore,  *)
(* ChunkStore, the per-file locks and the read pool.  A step is what a     *)
(* thread does under one mutex, or between two of them; a crash loses      *)
(* everything but the files and is followed by the next mount.             *)
(***************************************************************************)
EXTENDS MetaStore

CONSTANTS Threads,       \* libfuse threads
          Requests,      \* the requests programs make of this mount
          NoRequest,     \* not a request
          MaxRequests,   \* bound: requests taken
          MaxCrashes,    \* bound: crashes
          MaxFaults,     \* bound: failing reads and writes of chunk files
          InitFiles,     \* paths that exist when the mount starts
          InitBytes,     \* what was written to each of them
          InitSize,      \* its size, which a truncate may have made larger
          HiddenNames,   \* names libfuse moves open files to that are deleted or replaced, .fuse_hidden*
          ReuseIds,      \* may a name be created again while its id is in use?
          Garbage        \* a byte no program writes: what is left of a chunk file that was not finished

Ops == {"create", "read", "write", "truncate", "unlink", "rename", "utimens", "chmod"}

Request == [op : Ops, path : Paths, to : Paths,
            off : 0 .. MaxSize,         \* offset; the new size of a truncate
            len : 1 .. MaxSize,         \* bytes to read
            buf : Seq(Byte),            \* bytes to write
            mode : Modes]

ASSUME RequestsAssumption ==
  /\ Requests \subseteq Request /\ NoRequest \notin Request
  /\ \A r \in Requests :
       /\ r.op = "write" => r.buf # <<>> /\ r.off + Len(r.buf) <= MaxSize
       /\ r.op = "rename" => r.path # r.to
ASSUME BoundsAssumption == MaxRequests \in Nat /\ MaxCrashes \in Nat /\ MaxFaults \in Nat
ASSUME InitAssumption ==
  /\ InitFiles \subseteq Paths
  /\ \A p, q \in InitFiles : HashOf[p] = HashOf[q] => p = q
  /\ InitBytes \in Seq(Byte) /\ InitSize \in Len(InitBytes) .. MaxSize
ASSUME HiddenAssumption == HiddenNames \subseteq Paths
ASSUME ReuseAssumption == ReuseIds \in BOOLEAN
ASSUME GarbageAssumption ==
  /\ Garbage \in Byte \ {0}
  /\ \A r \in Requests : \A i \in DOMAIN r.buf : r.buf[i] # Garbage
  /\ \A i \in DOMAIN InitBytes : InitBytes[i] # Garbage

VARIABLES chunkFile,     \* ChunkStore
          gen, holds,    \* FileLocks
          pc,            \* pc[t]: where thread t is in its handler
          frame,         \* frame[t]: the handler's local variables
          task,          \* task[t][ci]: t's pool task for chunk ci
          reply,         \* reply[t]: what t's last handler returned
          served, crashes, faults

vars == <<index, indexFile, metaFile, chunkFile, gen, holds, pc, frame, task, reply, served, crashes, faults>>

Roles == 0 .. MaxChunks
Handler == 0             \* role of a thread's own handler
Task(ci) == ci + 1       \* role of its task for chunk ci

Store == INSTANCE ChunkStore
Locks == INSTANCE FileLocks

Labels == {"idle", "create_save", "create_index", "lock", "acquire", "tasks", "chunk", "trim",
           "save", "unlink_chunks", "unlink_meta", "unlink_index", "unlink_lock",
           "rename_victim", "rename_erase", "rename_drop", "rename_load", "rename_save",
           "rename_out", "rename_in", "chmod_load", "chmod_save"}
TaskStates == {"none", "queued", "locking", "reading", "done", "failed"}

Frame == [req : Requests \cup {NoRequest},
          id  : Ids \cup {NoId},        \* id; oid in rename
          eid : Ids \cup {NoId},        \* rename: id of the file that is replaced
          m   : FileMeta,               \* m
          lk  : Nat,                    \* which mutex of id file_lock returned
          ci  : ChunkIdx]               \* write: the loop's chunk
TaskRecord == [st : TaskStates, lk : Nat, data : Chunk]
Reply == [res : {"none", "ok", "ENOENT", "EEXIST", "EIO"}, data : Seq(Byte)]

IdleFrame == [req |-> NoRequest, id |-> NoId, eid |-> NoId, m |-> DefaultMeta, lk |-> 0, ci |-> 0]
NoTask == [st |-> "none", lk |-> 0, data |-> <<>>]
NoTasks == [ci \in ChunkIdx |-> NoTask]
NoReply == [res |-> "none", data |-> <<>>]

TypeOK == /\ MetaTypeOK
          /\ Store!ChunkTypeOK
          /\ Locks!LockTypeOK
          /\ pc \in [Threads -> Labels]
          /\ frame \in [Threads -> Frame]
          /\ task \in [Threads -> [ChunkIdx -> TaskRecord]]
          /\ reply \in [Threads -> Reply]
          /\ served \in 0 .. MaxRequests
          /\ crashes \in 0 .. MaxCrashes
          /\ faults \in 0 .. MaxFaults

-----------------------------------------------------------------------------
(* The mount starts on files that earlier mounts wrote, and perhaps extended. *)

NewMeta(p, mode) == [DefaultMeta EXCEPT !.id = HashOf[p], !.words = Words[p], !.mode = mode]

InitChunk(ci) == SubSeq(InitBytes, ci * ChunkSize + 1, Least((ci + 1) * ChunkSize, Len(InitBytes)))
InitChunks == [ci \in ChunkIdx |-> InitChunk(ci)]
InitMeta(p) == [NewMeta(p, DefaultMode) EXCEPT
                  !.size = InitSize, !.n = ChunksFor(Len(InitBytes)),
                  !.comp = DiskSizes(InitChunks, ChunksFor(Len(InitBytes)))]

Init == /\ index = [p \in Paths |-> IF p \in InitFiles THEN HashOf[p] ELSE NoId]
        /\ indexFile = index
        /\ metaFile = [id \in Ids |-> IF \E p \in InitFiles : HashOf[p] = id
                                      THEN InitMeta(CHOOSE p \in InitFiles : HashOf[p] = id)
                                      ELSE NoMeta]
        /\ chunkFile = [id \in Ids |-> IF \E p \in InitFiles : HashOf[p] = id
                                       THEN InitChunks ELSE [ci \in ChunkIdx |-> <<>>]]
        /\ gen = [id \in Ids |-> 0]
        /\ holds = {}
        /\ pc = [t \in Threads |-> "idle"]
        /\ frame = [t \in Threads |-> IdleFrame]
        /\ task = [t \in Threads |-> NoTasks]
        /\ reply = [t \in Threads |-> NoReply]
        /\ served = 0 /\ crashes = 0 /\ faults = 0

-----------------------------------------------------------------------------
(* Requests.  libfuse's path tree lets unlink and rename run only when no     *)
(* other request is inside the paths they name, and the kernel lets one       *)
(* program at a time change the root directory.  libfuse itself does not wait *)
(* for that: an open file that is deleted or replaced gets a hidden name by   *)
(* cfs_rename, and the release of its last handle calls cfs_unlink for that   *)
(* name beside whatever else runs.  Programs leave hidden names alone.        *)

NameOps == {"create", "unlink", "rename"}
Named(r) == IF r.op = "rename" THEN {r.path, r.to} ELSE {r.path}
AtRelease(r) == r.op = "unlink" /\ r.path \in HiddenNames

Compatible(r, other) ==
  /\ r.op \in NameOps /\ other.op \in NameOps => AtRelease(r) \/ AtRelease(other)
  /\ (r.op \in NameOps \/ other.op \in NameOps) => Named(r) \cap Named(other) = {}

Unnamed(id) == \A p \in Paths : index[p] # id

\* No name leads to id, and no unlink is about to delete its mutex.
Free(id) == Unnamed(id) /\ \A t \in Threads : pc[t] = "unlink_lock" => frame[t].id # id

Admissible(t, r) ==
  /\ \A u \in Threads \ {t} : pc[u] # "idle" => Compatible(r, frame[u].req)
  /\ r.op = "create" /\ index[r.path] = NoId => ReuseIds \/ Free(HashOf[r.path])

Goto(t, label) == pc' = [pc EXCEPT ![t] = label]

Finish(t, res, data) ==
  /\ Goto(t, "idle")
  /\ frame' = [frame EXCEPT ![t] = IdleFrame]
  /\ reply' = [reply EXCEPT ![t] = [res |-> res, data |-> data]]

\* The file system or zstd fails: read_chunk and write_chunk return 0.
Fault == faults < MaxFaults /\ faults' = faults + 1

\* The handler is called: it takes a free id (create) or looks the path up.
Begin(t) ==
  /\ pc[t] = "idle" /\ served < MaxRequests
  /\ served' = served + 1
  /\ \E r \in Requests :
       LET id == IF r.op = "create" THEN HashOf[r.path] ELSE index[r.path]
           enter(label, m) == /\ Goto(t, label)
                              /\ frame' = [frame EXCEPT ![t] = [IdleFrame EXCEPT !.req = r, !.id = id, !.m = m]]
                              /\ UNCHANGED reply
       IN /\ Admissible(t, r)
          /\ \/ r.op = "create" /\ index[r.path] # NoId /\ Finish(t, "EEXIST", <<>>)
             \/ r.op # "create" /\ index[r.path] = NoId /\ Finish(t, "ENOENT", <<>>)
             \/ r.op = "create" /\ index[r.path] = NoId /\ enter("create_save", NewMeta(r.path, r.mode))
             \/ r.op = "rename" /\ index[r.path] # NoId /\ enter("rename_victim", DefaultMeta)
             \/ r.op = "chmod" /\ index[r.path] # NoId /\ enter("chmod_load", DefaultMeta)
             \/ /\ r.op \in {"read", "write", "truncate", "unlink", "utimens"}
                /\ index[r.path] # NoId /\ enter("lock", DefaultMeta)
  /\ UNCHANGED <<index, indexFile, metaFile, chunkFile, gen, holds, task, crashes, faults>>

\* file_lock: the reference to the mutex is fetched before the mutex is locked.
FileLock(t) ==
  /\ pc[t] = "lock"
  /\ frame' = [frame EXCEPT ![t].lk = gen[frame[t].id]]
  /\ Goto(t, "acquire")
  /\ UNCHANGED <<index, indexFile, metaFile, chunkFile, gen, holds, task, reply, served, crashes, faults>>

-----------------------------------------------------------------------------
(* cfs_create *)

\* Mutant of CreateSave: the name is put into the index before there is metadata.
CreateIndexFirst(t) ==
  /\ pc[t] = "create_save"
  /\ IndexAdd(frame[t].req.path, frame[t].id)
  /\ Goto(t, "create_index")
  /\ UNCHANGED <<metaFile, chunkFile, gen, holds, frame, task, reply, served, crashes, faults>>

CreateSave(t) ==
  /\ pc[t] = "create_save"
  /\ Save(frame[t].m)
  /\ Goto(t, "create_index")
  /\ UNCHANGED <<index, indexFile, chunkFile, gen, holds, frame, task, reply, served, crashes, faults>>

CreateIndex(t) ==
  /\ pc[t] = "create_index"
  /\ IndexAdd(frame[t].req.path, frame[t].id)
  /\ Finish(t, "ok", <<>>)
  /\ UNCHANGED <<metaFile, chunkFile, gen, holds, task, served, crashes, faults>>

-----------------------------------------------------------------------------
(* cfs_read *)

\* The shared lock covers the loading of the metadata and nothing more.  The tasks
\* are enqueued one by one after it: one that is queued early may start late, and
\* another read's answer in between might as well come before.
ReadLoad(t) ==
  LET f  == frame[t]
      m  == Load(f.id)
      sz == Least(f.req.len, m.size - f.req.off)
      wanted == FirstChunk(f.req.off) .. LastChunk(f.req.off, sz)
  IN /\ pc[t] = "acquire" /\ f.req.op = "read"
     /\ Locks!CanLockShared(f.id, f.lk)
     /\ \/ ~Stored(f.id) /\ Finish(t, "ENOENT", <<>>) /\ UNCHANGED task
        \/ Stored(f.id) /\ f.req.off >= m.size /\ Finish(t, "ok", <<>>) /\ UNCHANGED task
        \/ /\ Stored(f.id) /\ f.req.off < m.size
           /\ frame' = [frame EXCEPT ![t].m = m]
           /\ task' = [task EXCEPT ![t] = [ci \in ChunkIdx |->
                          IF ci \in wanted THEN [NoTask EXCEPT !.st = "queued"] ELSE NoTask]]
           /\ Goto(t, "tasks")
           /\ UNCHANGED reply
     /\ UNCHANGED <<index, indexFile, metaFile, chunkFile, gen, holds, served, crashes, faults>>

\* Mutant of TaskStart: a worker that finds err set returns without reporting the task finished.
TaskStartStuck(t, ci) ==
  /\ task[t][ci].st = "queued"
  /\ \A j \in ChunkIdx : task[t][j].st # "failed"
  /\ task' = [task EXCEPT ![t][ci] = [@ EXCEPT !.st = "locking", !.lk = gen[frame[t].id]]]
  /\ UNCHANGED <<index, indexFile, metaFile, chunkFile, gen, holds, pc, frame, reply, served, crashes, faults>>

\* A worker takes the task; it does nothing when another task has set err.
TaskStart(t, ci) ==
  /\ task[t][ci].st = "queued"
  /\ \/ /\ \E j \in ChunkIdx : task[t][j].st = "failed"
        /\ task' = [task EXCEPT ![t][ci].st = "done"]
     \/ /\ \A j \in ChunkIdx : task[t][j].st # "failed"
        /\ task' = [task EXCEPT ![t][ci] = [@ EXCEPT !.st = "locking", !.lk = gen[frame[t].id]]]
  /\ UNCHANGED <<index, indexFile, metaFile, chunkFile, gen, holds, pc, frame, reply, served, crashes, faults>>

\* Under the shared lock: a chunk without a file is a chunk of zeros.
TaskLock(t, ci) ==
  LET id == frame[t].id
  IN /\ task[t][ci].st = "locking"
     /\ Locks!CanLockShared(id, task[t][ci].lk)
     /\ \/ /\ Store!DiskSize(id, ci) = 0
           /\ task' = [task EXCEPT ![t][ci] = [@ EXCEPT !.st = "done", !.data = Zeros(ChunkSize)]]
           /\ UNCHANGED holds
        \/ /\ Store!DiskSize(id, ci) # 0
           /\ task' = [task EXCEPT ![t][ci].st = "reading"]
           /\ Locks!Acquire(Locks!HoldOf(id, task[t][ci].lk, t, Task(ci), TRUE))
     /\ UNCHANGED <<index, indexFile, metaFile, chunkFile, gen, pc, frame, reply, served, crashes, faults>>

TaskRead(t, ci) ==
  LET data == Store!ReadChunk(frame[t].id, ci)
      end(st, bytes) == task' = [task EXCEPT ![t][ci] = [@ EXCEPT !.st = st, !.data = bytes]]
  IN /\ task[t][ci].st = "reading"
     /\ \/ data # <<>> /\ end("done", data) /\ UNCHANGED faults
        \/ (IF data = <<>> THEN UNCHANGED faults ELSE Fault) /\ end("failed", <<>>)
     /\ Locks!Unlock(t, Task(ci))
     /\ UNCHANGED <<index, indexFile, metaFile, chunkFile, gen, pc, frame, reply, served, crashes>>

\* Mutant of PoolQuiescent: wait_all's predicate looks at the queue only.
PoolQueueEmpty ==
  \A u \in Threads, ci \in ChunkIdx : task[u][ci].st # "queued"

\* wait_all returns when no task of any reader is outstanding (TaskPool.tla).
PoolQuiescent ==
  \A u \in Threads, ci \in ChunkIdx : task[u][ci].st \notin {"queued", "locking", "reading"}

ReadReply(t) ==
  LET f  == frame[t]
      sz == Least(f.req.len, f.m.size - f.req.off)
      fc == FirstChunk(f.req.off)
      cdata == [i \in 1 .. LastChunk(f.req.off, sz) - fc + 1 |-> task[t][fc + i - 1].data]
  IN /\ pc[t] = "tasks"
     /\ PoolQuiescent
     /\ \/ /\ \E ci \in ChunkIdx : task[t][ci].st = "failed"
           /\ Finish(t, "EIO", <<>>)
        \/ /\ \A ci \in ChunkIdx : task[t][ci].st # "failed"
           /\ Finish(t, "ok", Assemble(cdata, f.req.off, sz))
     /\ task' = [task EXCEPT ![t] = NoTasks]
     /\ UNCHANGED <<index, indexFile, metaFile, chunkFile, gen, holds, served, crashes, faults>>

-----------------------------------------------------------------------------
(* cfs_write, cfs_truncate, cfs_utimens and the locked part of cfs_unlink *)

\* The exclusive lock is taken and the metadata loaded; unlink goes on without.
WriteLock(t) ==
  LET f == frame[t]
  IN /\ pc[t] = "acquire" /\ f.req.op # "read"
     /\ Locks!CanLock(f.id, f.lk)
     /\ \/ ~Stored(f.id) /\ f.req.op # "unlink" /\ Finish(t, "ENOENT", <<>>) /\ UNCHANGED holds
        \/ /\ Stored(f.id) \/ f.req.op = "unlink"
           /\ Locks!Acquire(Locks!HoldOf(f.id, f.lk, t, Handler, FALSE))
           /\ frame' = [frame EXCEPT ![t] = [@ EXCEPT !.m = Load(f.id),
                       !.ci = IF f.req.op = "write" THEN FirstChunk(f.req.off) ELSE 0]]
           /\ Goto(t, CASE f.req.op = "write" -> "chunk"
                        [] f.req.op = "truncate" -> "trim"
                        [] f.req.op = "utimens" -> "save"
                        [] f.req.op = "unlink" -> "unlink_chunks")
           /\ UNCHANGED reply
     /\ UNCHANGED <<index, indexFile, metaFile, chunkFile, gen, task, served, crashes, faults>>

\* One turn of the loop over chunks: read, modify, write.  A failing read_chunk
\* counts as an empty chunk; a failing write_chunk leaves the chunk as it was, cut
\* to nothing or broken, and its result is not looked at.
PutChunk(f) ==
  LET old == IF f.ci < f.m.n THEN Store!ReadChunk(f.id, f.ci) ELSE <<>>
      put(bytes) == Store!WriteChunk(f.id, f.ci, bytes)
  IN \/ put(Merge(old, f.ci, f.req.off, f.req.buf)) /\ UNCHANGED faults
     \/ Fault /\ put(Merge(<<>>, f.ci, f.req.off, f.req.buf))
     \/ Fault /\ UNCHANGED chunkFile
     \/ Fault /\ \E left \in {<<>>, Store!Broken} : put(left)

\* After the last chunk the local metadata is brought up to date.
WriteChunk(t) ==
  LET f  == frame[t]
      lc == LastChunk(f.req.off, Len(f.req.buf))
      n  == Greatest(f.m.n, lc + 1)
      written == [f.m EXCEPT !.n = n,
                             !.size = Greatest(@, f.req.off + Len(f.req.buf)),
                             !.comp = DiskSizes(chunkFile'[f.id], n)]
  IN /\ pc[t] = "chunk"
     /\ PutChunk(f)
     /\ \/ /\ f.ci < lc
           /\ frame' = [frame EXCEPT ![t].ci = @ + 1]
           /\ UNCHANGED pc
        \/ /\ f.ci = lc
           /\ frame' = [frame EXCEPT ![t].m = written]
           /\ Goto(t, "save")
     /\ UNCHANGED <<index, indexFile, metaFile, gen, holds, task, reply, served, crashes>>

\* Down to 0 or to less than the size: whole chunks beyond the new end go, the
\* rest stays as it is.  Up: only the size changes.
Trim(t) ==
  LET f    == frame[t]
      ns   == f.req.off
      keep == ChunksFor(ns)
      cut  == [f.m EXCEPT !.n = keep, !.size = ns, !.comp = DiskSizes(chunkFile'[f.id], keep)]
  IN /\ pc[t] = "trim"
     /\ \/ /\ ns = 0 \/ ns < f.m.size
           /\ Store!RemoveChunks(f.id, keep, f.m.n)
           /\ frame' = [frame EXCEPT ![t].m = cut]
        \/ /\ ns # 0 /\ ns >= f.m.size
           /\ frame' = [frame EXCEPT ![t].m.size = ns]
           /\ UNCHANGED chunkFile
     /\ Goto(t, "save")
     /\ UNCHANGED <<index, indexFile, metaFile, gen, holds, task, reply, served, crashes, faults>>

SaveMeta(t) ==
  /\ pc[t] = "save"
  /\ Save(frame[t].m)
  /\ Locks!Unlock(t, Handler)
  /\ Finish(t, "ok", <<>>)
  /\ UNCHANGED <<index, indexFile, chunkFile, gen, task, served, crashes, faults>>

UnlinkChunks(t) ==
  /\ pc[t] = "unlink_chunks"
  /\ Store!RemoveChunks(frame[t].id, 0, frame[t].m.n)
  /\ Goto(t, "unlink_meta")
  /\ UNCHANGED <<index, indexFile, metaFile, gen, holds, frame, task, reply, served, crashes, faults>>

\* Mutant of UnlinkMeta: the mutex is deleted while it is held.
UnlinkMetaAndLock(t) ==
  /\ pc[t] = "unlink_meta"
  /\ RemoveMeta(frame[t].id)
  /\ Locks!DeleteLock(frame[t].id)
  /\ Goto(t, "unlink_index")
  /\ UNCHANGED <<index, indexFile, chunkFile, holds, frame, task, reply, served, crashes, faults>>

UnlinkMeta(t) ==
  /\ pc[t] = "unlink_meta"
  /\ RemoveMeta(frame[t].id)
  /\ Locks!Unlock(t, Handler)
  /\ Goto(t, "unlink_index")
  /\ UNCHANGED <<index, indexFile, chunkFile, gen, frame, task, reply, served, crashes, faults>>

UnlinkIndex(t) ==
  /\ pc[t] = "unlink_index"
  /\ IndexRemove(frame[t].req.path)
  /\ Goto(t, "unlink_lock")
  /\ UNCHANGED <<metaFile, chunkFile, gen, holds, frame, task, reply, served, crashes, faults>>

\* The mutex itself is deleted, whoever may hold it or wait for it.
UnlinkLock(t) ==
  /\ pc[t] = "unlink_lock"
  /\ Locks!DeleteLock(frame[t].id)
  /\ Finish(t, "ok", <<>>)
  /\ UNCHANGED <<index, indexFile, metaFile, chunkFile, holds, task, served, crashes, faults>>

-----------------------------------------------------------------------------
(* cfs_rename and cfs_chmod, which take no file lock *)

\* Mutant of RenameVictim: the chunks of the file that is replaced are left behind.
RenameOver(t) ==
  LET eid == index[frame[t].req.to]
  IN /\ pc[t] = "rename_victim"
     /\ frame' = [frame EXCEPT ![t].eid = eid]
     /\ Goto(t, IF eid = NoId THEN "rename_load" ELSE "rename_erase")
     /\ UNCHANGED <<index, indexFile, metaFile, chunkFile, gen, holds, task, reply, served, crashes, faults>>

\* The chunks of a file that has the new name are removed.
RenameVictim(t) ==
  LET eid == index[frame[t].req.to]
  IN /\ pc[t] = "rename_victim"
     /\ frame' = [frame EXCEPT ![t].eid = eid]
     /\ \/ /\ eid = NoId
           /\ Goto(t, "rename_load")
           /\ UNCHANGED chunkFile
        \/ /\ eid # NoId
           /\ Store!RemoveChunks(eid, 0, Load(eid).n)
           /\ Goto(t, "rename_erase")
     /\ UNCHANGED <<index, indexFile, metaFile, gen, holds, task, reply, served, crashes, faults>>

RenameErase(t) ==
  /\ pc[t] = "rename_erase"
  /\ RemoveMeta(frame[t].eid)
  /\ Goto(t, "rename_drop")
  /\ UNCHANGED <<index, indexFile, chunkFile, gen, holds, frame, task, reply, served, crashes, faults>>

RenameDrop(t) ==
  /\ pc[t] = "rename_drop"
  /\ IndexRemove(frame[t].req.to)
  /\ Goto(t, "rename_load")
  /\ UNCHANGED <<metaFile, chunkFile, gen, holds, frame, task, reply, served, crashes, faults>>

RenameLoad(t) ==
  /\ pc[t] = "rename_load"
  /\ frame' = [frame EXCEPT ![t].m = [Load(frame[t].id) EXCEPT !.words = Words[frame[t].req.to]]]
  /\ Goto(t, "rename_save")
  /\ UNCHANGED <<index, indexFile, metaFile, chunkFile, gen, holds, task, reply, served, crashes, faults>>

RenameSave(t) ==
  /\ pc[t] = "rename_save"
  /\ Save(frame[t].m)
  /\ Goto(t, "rename_out")
  /\ UNCHANGED <<index, indexFile, chunkFile, gen, holds, frame, task, reply, served, crashes, faults>>

\* Mutant of RenameOut: the old name stays in the index.
RenameKeepsOld(t) ==
  /\ pc[t] = "rename_out"
  /\ Goto(t, "rename_in")
  /\ UNCHANGED <<index, indexFile, metaFile, chunkFile, gen, holds, frame, task, reply, served, crashes, faults>>

RenameOut(t) ==
  /\ pc[t] = "rename_out"
  /\ IndexRemove(frame[t].req.path)
  /\ Goto(t, "rename_in")
  /\ UNCHANGED <<metaFile, chunkFile, gen, holds, frame, task, reply, served, crashes, faults>>

RenameIn(t) ==
  /\ pc[t] = "rename_in"
  /\ IndexAdd(frame[t].req.to, frame[t].id)
  /\ Finish(t, "ok", <<>>)
  /\ UNCHANGED <<metaFile, chunkFile, gen, holds, task, served, crashes, faults>>

ChmodLoad(t) ==
  /\ pc[t] = "chmod_load"
  /\ \/ ~Stored(frame[t].id) /\ Finish(t, "ENOENT", <<>>)
     \/ /\ Stored(frame[t].id)
        /\ frame' = [frame EXCEPT ![t].m = [Load(frame[t].id) EXCEPT !.mode = frame[t].req.mode]]
        /\ Goto(t, "chmod_save")
        /\ UNCHANGED reply
  /\ UNCHANGED <<index, indexFile, metaFile, chunkFile, gen, holds, task, served, crashes, faults>>

ChmodSave(t) ==
  /\ pc[t] = "chmod_save"
  /\ Save(frame[t].m)
  /\ Finish(t, "ok", <<>>)
  /\ UNCHANGED <<index, indexFile, chunkFile, gen, holds, task, served, crashes, faults>>

-----------------------------------------------------------------------------
(* The handlers that change nothing: what they answer in the current state.   *)

Open(p) == IF index[p] = NoId THEN "ENOENT" ELSE "ok"

Getattr(p) ==
  IF index[p] = NoId \/ ~Stored(index[p]) THEN [res |-> "ENOENT"]
  ELSE [res |-> "ok", st_size |-> Load(index[p]).size, st_mode |-> Load(index[p]).mode]

Readdir == ListPaths

\* The contents of /.cfs_stats.
Stats == [logical |-> StatsLogical, compressed |-> StatsCompressed]

-----------------------------------------------------------------------------
(* The daemon dies at any point and the directory is mounted again.  A file   *)
(* that a thread was writing may be left empty or cut, a removal half done.    *)
(* With nobody inside it is an unmount: destroy saves nothing.                *)

Saving   == {"create_save", "save", "rename_save", "chmod_save"}
Indexing == {"create_index", "unlink_index", "rename_drop", "rename_out", "rename_in"}

\* What index_ is when the thread writes it to index.txt.
Rewritten(t) == CASE pc[t] = "create_index"                     -> Mapped(frame[t].req.path, frame[t].id)
                  [] pc[t] = "rename_in"                        -> Mapped(frame[t].req.to, frame[t].id)
                  [] pc[t] = "rename_drop"                      -> Mapped(frame[t].req.to, NoId)
                  [] pc[t] \in {"unlink_index", "rename_out"}   -> Mapped(frame[t].req.path, NoId)

\* Two cuts may leave the same piece of two ids, which is a way to use an id again.
Pieces(ix) == {id \in CutIds : ReuseIds \/ \A p \in Paths : ix[p] # id}

\* mu_ lets one thread rewrite one of MetaStore's files at a time.
CrashMetaStore ==
  \/ UNCHANGED <<metaFile, indexFile>>
  \/ \E t \in Threads : /\ pc[t] \in Saving /\ frame[t].m.id # NoId
                        /\ metaFile' = TornMeta(frame[t].m.id)
                        /\ UNCHANGED indexFile
  \/ \E t \in Threads : /\ pc[t] \in Indexing
                        /\ indexFile' \in TornIndex(Rewritten(t), Pieces(Rewritten(t)))
                        /\ UNCHANGED metaFile

CrashChunkStore ==
  \/ UNCHANGED chunkFile
  \/ \E t \in Threads : pc[t] = "chunk" /\ chunkFile' \in Store!TornChunk(frame[t].id, frame[t].ci)
  \/ \E t \in Threads : /\ pc[t] = "trim" /\ frame[t].req.off < frame[t].m.size
                        /\ chunkFile' \in Store!TornRemoval(frame[t].id, ChunksFor(frame[t].req.off), frame[t].m.n)
  \/ \E t \in Threads : /\ pc[t] = "unlink_chunks"
                        /\ chunkFile' \in Store!TornRemoval(frame[t].id, 0, frame[t].m.n)
  \/ \E t \in Threads : /\ pc[t] = "rename_victim" /\ index[frame[t].req.to] # NoId
                        /\ chunkFile' \in Store!TornRemoval(index[frame[t].req.to], 0, Load(index[frame[t].req.to]).n)

CrashAndMount ==
  /\ crashes < MaxCrashes
  /\ crashes' = crashes + 1
  /\ CrashMetaStore /\ CrashChunkStore
  /\ LoadIndex
  /\ gen' = [id \in Ids |-> 0] /\ holds' = {}
  /\ pc' = [t \in Threads |-> "idle"]
  /\ frame' = [t \in Threads |-> IdleFrame]
  /\ task' = [t \in Threads |-> NoTasks]
  /\ reply' = [t \in Threads |-> NoReply]
  /\ UNCHANGED <<served, faults>>

-----------------------------------------------------------------------------
ReadStep(t)   == ReadLoad(t) \/ ReadReply(t)
TaskStep(t)   == \E ci \in ChunkIdx : TaskStart(t, ci) \/ TaskLock(t, ci) \/ TaskRead(t, ci)
CreateStep(t) == CreateSave(t) \/ CreateIndex(t)
LockedStep(t) == WriteLock(t) \/ WriteChunk(t) \/ Trim(t) \/ SaveMeta(t)
UnlinkStep(t) == UnlinkChunks(t) \/ UnlinkMeta(t) \/ UnlinkIndex(t) \/ UnlinkLock(t)
RenameStep(t) == \/ RenameVictim(t) \/ RenameErase(t) \/ RenameDrop(t) \/ RenameLoad(t)
                 \/ RenameSave(t) \/ RenameOut(t) \/ RenameIn(t)
ChmodStep(t)  == ChmodLoad(t) \/ ChmodSave(t)

HandlerStep(t) == \/ FileLock(t) \/ ReadStep(t) \/ CreateStep(t) \/ LockedStep(t)
                  \/ UnlinkStep(t) \/ RenameStep(t) \/ ChmodStep(t)

Next == \/ \E t \in Threads : Begin(t) \/ HandlerStep(t) \/ TaskStep(t)
        \/ CrashAndMount

Spec == Init /\ [][Next]_vars

(* Each thread and each worker keeps running.  Weak fairness is enough: the     *)
(* requests are bounded, so a lock that a handler waits for stays free in the   *)
(* end; nothing is assumed of the order in which a shared_mutex is granted.     *)
Fairness == \A t \in Threads : WF_vars(HandlerStep(t)) /\ WF_vars(TaskStep(t))

FairSpec == Spec /\ Fairness

-----------------------------------------------------------------------------
(* Properties *)

\* The locks do their work: of the handlers and pool tasks that hold a lock of
\* one file, either all share it or there is one; also beside an unlink at the last
\* release, and when unlink has deleted the mutex and the name was created again.
\* With ReuseIds two mutexes of one file can be held: what FuseHidden leads to.
FileExclusion ==
  \A h, k \in holds : h.id = k.id /\ h # k => h.shared /\ k.shared

\* Nobody holds, or is about to lock, a mutex that cfs_unlink has deleted: true as
\* long as create takes no id in use (FuseStore), false without that (FuseHidden).
LocksLive ==
  /\ \A h \in holds : h.gen = gen[h.id]
  /\ \A t \in Threads :
       /\ pc[t] = "acquire" => frame[t].lk = gen[frame[t].id]
       /\ \A ci \in ChunkIdx : task[t][ci].st = "locking" => task[t][ci].lk = gen[frame[t].id]

\* A file whose bytes or metadata some handler is in the middle of replacing or
\* removing; rename removes the file that had the new name without its lock.
InUse(id) == \/ \E h \in holds : h.id = id /\ ~h.shared
             \/ \E t \in Threads : pc[t] = "rename_erase" /\ frame[t].eid = id

\* Between handlers, until a crash, the metadata of a file accounts for its chunk
\* files: none lies at or beyond n_chunks (a write would ignore it and a delete
\* leave it behind), n_chunks does not exceed what the size needs, and
\* compressed_size is what the chunks take up.
Accounted ==
  crashes = 0 => \A id \in Ids : Stored(id) /\ ~InUse(id) =>
    LET m == metaFile[id]
    IN /\ m.n <= ChunksFor(m.size)
       /\ m.comp = DiskSizes(chunkFile[id], m.n)
       /\ \A i \in ChunkIdx : i >= m.n => chunkFile[id][i] = <<>>

\* A file never gets shorter but by a truncate, or by a crash, whatever overlaps
\* with what.
SizeKept ==
  [][crashes' = 0 => \A id \in Ids :
       metaFile[id] # NoMeta /\ metaFile'[id] # NoMeta /\ metaFile'[id].size < metaFile[id].size
         => \E t \in Threads : frame[t].id = id /\ frame[t].req.op = "truncate" /\ pc[t] = "save"]_vars

\* Two names never lead to the same file.
NamesDistinct ==
  \A p, q \in Paths : index[p] # NoId /\ index[p] = index[q] => p = q

\* When no create, unlink or rename is under way, or was cut short by a crash,
\* index and metadata agree: a name leads to a file that exists and knows its id,
\* a file has a name, and nothing is stored for a file without one.
NamespaceAgrees ==
  crashes = 0 /\ (\A t \in Threads : pc[t] # "idle" => frame[t].req.op \notin NameOps) =>
     /\ indexFile = index
     /\ \A p \in Paths : index[p] # NoId => Stored(index[p]) /\ metaFile[index[p]].id = index[p]
     /\ \A id \in Ids : (\A p \in Paths : index[p] # id) =>
          /\ ~Stored(id)
          /\ \A ci \in ChunkIdx : chunkFile[id][ci] = <<>>

\* Ids of names that readdir lists and open accepts but getattr denies.
Dangling == {index[p] : p \in {q \in Readdir : Open(q) = "ok" /\ Getattr(q).res = "ENOENT"}}

\* A listed name stops leading to a file only when the file is deleted or
\* replaced (a crash may then leave the name behind, and a rename pass it on), or
\* when a crash cuts its line in index.txt inside the id; never by a create, a
\* rename of the file, or a crash during anything else.
NamesStored ==
  [][\A id \in Dangling' \ Dangling :
       \E t \in Threads : \/ pc[t] = "unlink_meta" /\ frame[t].id = id
                          \/ pc[t] = "rename_erase" /\ frame[t].eid = id
                          \/ pc[t] = "rename_in" /\ frame[t].id = id /\ frame[t].m.id # id
                          \/ pc[t] \in Indexing /\ crashes' # crashes /\ id \in CutIds]_vars

\* While no request is inside, and none was cut short, /.cfs_stats adds up what
\* the chunk files on disk hold, those of every file and no others.
StatsExact ==
  crashes = 0 /\ (\A t \in Threads : pc[t] = "idle") =>
    Stats.compressed = MapThenSumSet(LAMBDA x : Store!DiskSize(x[1], x[2]), Ids \X ChunkIdx)

\* Every request is answered: no handler waits for ever for a file lock or for
\* the pool.
Answered == \A t \in Threads : pc[t] # "idle" ~> pc[t] = "idle"
=============================================================================
