---------------------------- MODULE FuseOpsProofs ----------------------------
(* Proofs about FuseOps, for every set of paths, ids, threads and requests and *)
(* every bound: types, names and locks; what the index, the metadata and the   *)
(* chunk files of one mount say of each other until a crash; the sums that     *)
(* /.cfs_stats shows.                                                          *)
EXTENDS FuseOps, ChunkDataProofs, FiniteSetTheorems

-----------------------------------------------------------------------------
(* What a handler's place says about its request and its local variables.      *)

CreateLabels == {"create_save", "create_index"}
RenameLabels == {"rename_victim", "rename_erase", "rename_drop", "rename_load", "rename_save",
                 "rename_out", "rename_in"}
UnlinkLabels == {"unlink_chunks", "unlink_meta", "unlink_index", "unlink_lock"}
ChmodLabels  == {"chmod_load", "chmod_save"}

HandlerOK(t) ==
  LET f == frame[t]
  IN /\ f.req \in Requests /\ f.id \in Ids
     /\ pc[t] \in CreateLabels <=> f.req.op = "create"
     /\ pc[t] \in RenameLabels <=> f.req.op = "rename"
     /\ pc[t] \in ChmodLabels <=> f.req.op = "chmod"
     /\ pc[t] \in UnlinkLabels => f.req.op = "unlink"
     /\ pc[t] = "tasks" => f.req.op = "read" /\ f.req.off < f.m.size
     /\ pc[t] = "chunk" => /\ f.req.op = "write"
                           /\ f.ci \in FirstChunk(f.req.off) .. LastChunk(f.req.off, Len(f.req.buf))
     /\ pc[t] = "trim" => f.req.op = "truncate"
     /\ pc[t] = "save" => f.req.op \in {"write", "truncate", "utimens"}
     /\ pc[t] \in {"rename_erase", "rename_drop"} => f.eid \in Ids

HandlersOK ==
  \A t \in Threads :
    /\ pc[t] # "idle" => HandlerOK(t)
    /\ pc[t] # "tasks" => \A ci \in ChunkIdx : task[t][ci].st = "none"

TypeInv == TypeOK /\ HandlersOK

-----------------------------------------------------------------------------
(* ChunkStore's and FileLocks's definitions, as FuseOps sees them.             *)

LEMMA StoreTypeOK == Store!ChunkTypeOK <=> chunkFile \in [Ids -> [ChunkIdx -> Chunk]]
BY DEF Store!ChunkTypeOK, Store!ChunkIdx, Store!Chunk, ChunkIdx, Chunk

LEMMA StoreRemoveFrom ==
  ASSUME NEW chunk, NEW from, NEW n
  PROVE  Store!RemoveFrom(chunk, from, n) = RemoveFrom(chunk, from, n)
BY DEF Store!RemoveFrom, RemoveFrom, Store!ChunkIdx, ChunkIdx

LEMMA BrokenType == Store!Broken \in Chunk
BY GarbageAssumption, ChunkSizeAssumption DEF Store!Broken, Chunk

LEMMA ReadChunkType ==
  ASSUME chunkFile \in [Ids -> [ChunkIdx -> Chunk]], NEW id \in Ids, NEW ci \in ChunkIdx
  PROVE  Store!ReadChunk(id, ci) \in Chunk
BY EmptyChunk DEF Store!ReadChunk

LEMMA DefaultMetaType == DefaultMeta \in FileMeta
<1>1. [i \in ChunkIdx |-> 0] \in [ChunkIdx -> 0 .. ChunkSize]
  BY ChunkSizeAssumption
<1>2. QED
  BY <1>1, MaxSizeNat, MaxChunksAssumption, ModesAssumption DEF DefaultMeta, FileMeta

LEMMA LoadType ==
  ASSUME metaFile \in [Ids -> FileMeta \cup {NoMeta}], NEW id \in Ids
  PROVE  Load(id) \in FileMeta
<1>1. ASSUME NEW m \in FileMeta PROVE Parse(m) \in FileMeta
  <2>1. [m EXCEPT !.words = 1] \in FileMeta
    BY DEF FileMeta
  <2>2. Least(m.words, 1) \in Nat
    BY DEF FileMeta, Least
  <2>3. [DefaultMeta EXCEPT !.id = m.id, !.words = Least(m.words, 1)] \in FileMeta
    BY <2>2, DefaultMetaType DEF FileMeta
  <2>4. QED
    BY <2>1, <2>3 DEF Parse
<1>2. QED
  BY <1>1, DefaultMetaType DEF Load, Stored

LEMMA NewMetaType ==
  ASSUME NEW p \in Paths, NEW mode \in Modes
  PROVE  NewMeta(p, mode) \in FileMeta
BY DefaultMetaType, HashAssumption, WordsAssumption DEF NewMeta, FileMeta

LEMMA SaveType ==
  ASSUME metaFile \in [Ids -> FileMeta \cup {NoMeta}], NEW m \in FileMeta, Save(m)
  PROVE  metaFile' \in [Ids -> FileMeta \cup {NoMeta}]
BY DEF Save, FileMeta

LEMMA IdleFrameType == IdleFrame \in Frame
BY DefaultMetaType, ChunkIdxNat DEF IdleFrame, Frame

LEMMA NoTasksType == NoTasks \in [ChunkIdx -> TaskRecord]
BY EmptyChunk DEF NoTasks, NoTask, TaskRecord, TaskStates

LEMMA EmptyReply == <<>> \in Seq(Byte)
OBVIOUS

-----------------------------------------------------------------------------
LEMMA InitChunksType == InitChunks \in [ChunkIdx -> Chunk]
<1>1. ASSUME NEW ci \in ChunkIdx PROVE InitChunk(ci) \in Chunk
  <2> DEFINE lo == ci * ChunkSize
             hi == Least((ci + 1) * ChunkSize, Len(InitBytes))
  <2>1. lo \in Nat /\ hi \in Nat /\ hi <= Len(InitBytes) /\ hi <= lo + ChunkSize
    BY ChunkIdxNat, ChunkSizeAssumption, InitAssumption DEF Least
  <2> HIDE DEF lo, hi
  <2>2. SubSeq(InitBytes, lo + 1, hi) \in Seq(Byte) /\ Len(SubSeq(InitBytes, lo + 1, hi)) <= ChunkSize
    BY <2>1, InitAssumption, ChunkSizeAssumption
  <2>3. QED
    BY <2>2 DEF InitChunk, Chunk, lo, hi
<1>2. QED
  BY <1>1 DEF InitChunks

LEMMA InitMetaType ==
  ASSUME NEW p \in Paths
  PROVE  InitMeta(p) \in FileMeta
<1>1. Len(InitBytes) \in 0 .. MaxSize /\ InitSize \in 0 .. MaxSize
  BY InitAssumption, MaxSizeNat
<1>2. ChunksFor(Len(InitBytes)) \in 0 .. MaxChunks
  BY <1>1, ChunksForType
<1>3. DiskSizes(InitChunks, ChunksFor(Len(InitBytes))) \in [ChunkIdx -> 0 .. ChunkSize]
  BY InitChunksType, DiskSizesType
<1>4. NewMeta(p, DefaultMode) \in FileMeta
  BY NewMetaType, ModesAssumption
<1>5. QED
  BY <1>1, <1>2, <1>3, <1>4 DEF InitMeta, FileMeta

LEMMA InitTypeInv == Init => TypeInv
<1> SUFFICES ASSUME Init PROVE TypeInv
  OBVIOUS
<1>2. InitChunks \in [ChunkIdx -> Chunk]
  BY InitChunksType
<1>3. ASSUME NEW p \in Paths PROVE InitMeta(p) \in FileMeta
  BY InitMetaType
<1>4. MetaTypeOK
  <2>1. index \in [Paths -> Ids \cup {NoId}]
    BY HashAssumption DEF Init
  <2>2. ASSUME NEW id \in Ids, \E p \in InitFiles : HashOf[p] = id
        PROVE  InitMeta(CHOOSE p \in InitFiles : HashOf[p] = id) \in FileMeta
    <3>1. (CHOOSE p \in InitFiles : HashOf[p] = id) \in Paths
      BY <2>2, InitAssumption
    <3>2. QED
      BY <3>1, <1>3
  <2>3. metaFile \in [Ids -> FileMeta \cup {NoMeta}]
    BY <2>2 DEF Init
  <2>4. QED
    BY <2>1, <2>3 DEF MetaTypeOK, Init
<1>5. Store!ChunkTypeOK
  BY <1>2, StoreTypeOK, EmptyChunk DEF Init
<1>6. Locks!LockTypeOK
  BY DEF Init, Locks!LockTypeOK
<1>7. pc \in [Threads -> Labels] /\ frame \in [Threads -> Frame]
  BY IdleFrameType DEF Init, Labels
<1>8. task \in [Threads -> [ChunkIdx -> TaskRecord]]
  BY NoTasksType DEF Init
<1>9. reply \in [Threads -> Reply]
  BY EmptyReply DEF Init, NoReply, Reply
<1>10. served \in 0 .. MaxRequests /\ crashes \in 0 .. MaxCrashes /\ faults \in 0 .. MaxFaults
  BY BoundsAssumption DEF Init
<1>11. HandlersOK
  BY DEF Init, HandlersOK, NoTasks, NoTask
<1>12. QED
  BY <1>4, <1>5, <1>6, <1>7, <1>8, <1>9, <1>10, <1>11 DEF TypeInv, TypeOK

-----------------------------------------------------------------------------
(* Steps: each changes the handler of one thread. *)

\* A step of thread t, as far as handlers are concerned.
Moves(t) ==
  /\ pc' \in [Threads -> Labels] /\ frame' \in [Threads -> Frame] /\ reply' \in [Threads -> Reply]
  /\ \A u \in Threads \ {t} : pc'[u] = pc[u] /\ frame'[u] = frame[u] /\ task'[u] = task[u]
  /\ pc'[t] # "idle" => HandlerOK(t)'
  /\ pc'[t] # "tasks" => \A ci \in ChunkIdx : task'[t][ci].st = "none"

LEMMA MovesHandlers ==
  ASSUME HandlersOK, NEW t \in Threads, Moves(t)
  PROVE  HandlersOK'
<1> SUFFICES ASSUME NEW u \in Threads \ {t}
             PROVE  /\ pc'[u] # "idle" => HandlerOK(u)'
                    /\ pc'[u] # "tasks" => \A ci \in ChunkIdx : task'[u][ci].st = "none"
  BY DEF HandlersOK, Moves
<1>1. HandlerOK(u)' <=> HandlerOK(u)
  BY DEF HandlerOK, Moves
<1>2. QED
  BY <1>1 DEF HandlersOK, Moves

\* The handler of t enters label with locals f, or returns.
LEMMA Enters ==
  ASSUME TypeInv, NEW t \in Threads, NEW label \in Labels \ {"idle", "tasks"}, Goto(t, label),
         NEW f \in Frame, frame' = [frame EXCEPT ![t] = f], UNCHANGED <<task, reply>>,
         pc[t] # "tasks", HandlerOK(t)'
  PROVE  Moves(t)
BY DEF Moves, Goto, TypeInv, TypeOK, HandlersOK

LEMMA Returns ==
  ASSUME TypeInv, NEW t \in Threads, NEW res \in {"ok", "ENOENT", "EEXIST", "EIO"},
         NEW data \in Seq(Byte), Finish(t, res, data),
         \/ task' = task /\ pc[t] # "tasks"
         \/ task' = [task EXCEPT ![t] = NoTasks]
  PROVE  Moves(t)
<1>1. pc' \in [Threads -> Labels] /\ frame' \in [Threads -> Frame] /\ reply' \in [Threads -> Reply]
  BY IdleFrameType DEF Finish, Goto, TypeInv, TypeOK, Labels, Reply
<1>2. pc'[t] = "idle" /\ \A u \in Threads \ {t} : pc'[u] = pc[u] /\ frame'[u] = frame[u] /\ task'[u] = task[u]
  BY DEF Finish, Goto, TypeInv, TypeOK
<1>3. \A ci \in ChunkIdx : task'[t][ci].st = "none"
  BY SMTT(30) DEF TypeInv, TypeOK, HandlersOK, NoTasks, NoTask
<1>4. QED
  BY <1>1, <1>2, <1>3 DEF Moves

LEMMA BeginTypeInv ==
  ASSUME TypeInv, NEW t \in Threads, Begin(t)
  PROVE  TypeInv'
<1>1. PICK r \in Requests :
        LET id == IF r.op = "create" THEN HashOf[r.path] ELSE index[r.path]
            enter(label, m) == /\ Goto(t, label)
                               /\ frame' = [frame EXCEPT ![t] = [IdleFrame EXCEPT !.req = r, !.id = id, !.m = m]]
                               /\ UNCHANGED reply
        IN \/ r.op = "create" /\ index[r.path] # NoId /\ Finish(t, "EEXIST", <<>>)
           \/ r.op # "create" /\ index[r.path] = NoId /\ Finish(t, "ENOENT", <<>>)
           \/ r.op = "create" /\ index[r.path] = NoId /\ enter("create_save", NewMeta(r.path, r.mode))
           \/ r.op = "rename" /\ index[r.path] # NoId /\ enter("rename_victim", DefaultMeta)
           \/ r.op = "chmod" /\ index[r.path] # NoId /\ enter("chmod_load", DefaultMeta)
           \/ /\ r.op \in {"read", "write", "truncate", "unlink", "utimens"}
              /\ index[r.path] # NoId /\ enter("lock", DefaultMeta)
  BY DEF Begin
<1>2. /\ UNCHANGED <<index, indexFile, metaFile, chunkFile, gen, holds, task, crashes, faults>>
      /\ served' \in 0 .. MaxRequests
  BY BoundsAssumption DEF Begin, TypeInv, TypeOK
<1>3. r \in Request /\ r.path \in Paths /\ r.mode \in Modes /\ r.op \in Ops
  BY RequestsAssumption DEF Request
<1>4. Moves(t)
  <2> DEFINE id == IF r.op = "create" THEN HashOf[r.path] ELSE index[r.path]
             entered(m) == [IdleFrame EXCEPT !.req = r, !.id = id, !.m = m]
  <2>0. frame \in [Threads -> Frame] /\ index \in [Paths -> Ids \cup {NoId}] /\ pc[t] = "idle"
    BY DEF TypeInv, TypeOK, MetaTypeOK, Begin
  <2>1. ASSUME NEW m \in FileMeta, id \in Ids, UNCHANGED reply,
               NEW label \in {"create_save", "rename_victim", "chmod_load", "lock"},
               Goto(t, label), frame' = [frame EXCEPT ![t] = entered(m)],
               r.op = "create" <=> label = "create_save",
               r.op = "rename" <=> label = "rename_victim",
               r.op = "chmod" <=> label = "chmod_load"
        PROVE  Moves(t)
    <3>1. entered(m) \in Frame
      BY <2>1, IdleFrameType DEF Frame
    <3>2. entered(m).req = r /\ entered(m).id = id
      BY IdleFrameType DEF Frame
    <3> HIDE DEF entered, id
    <3>3. pc'[t] = label /\ frame'[t] = entered(m)
      BY <2>0, <2>1 DEF Goto, TypeInv, TypeOK
    <3>4. HandlerOK(t)'
      BY <2>1, <3>2, <3>3 DEF HandlerOK, CreateLabels, RenameLabels, ChmodLabels, UnlinkLabels
    <3>5. label \in Labels \ {"idle", "tasks"}
      BY <2>1 DEF Labels
    <3>6. QED
      BY <1>2, <2>0, <2>1, <3>1, <3>4, <3>5, Enters
  <2>2. NewMeta(r.path, r.mode) \in FileMeta /\ DefaultMeta \in FileMeta
    BY <1>3, NewMetaType, DefaultMetaType
  <2>3. index[r.path] # NoId \/ r.op = "create" => id \in Ids
    BY <1>3, <2>0, HashAssumption
  <2>4. CASE \E res \in {"EEXIST", "ENOENT"} : Finish(t, res, <<>>)
    BY <1>2, <2>0, <2>4, EmptyReply, Returns
  <2>5. QED
    BY <1>1, <2>1, <2>2, <2>3, <2>4
<1>5. HandlersOK'
  BY <1>4, MovesHandlers DEF TypeInv
<1>6. QED
  BY <1>2, <1>4, <1>5, SMTT(30) DEF TypeInv, TypeOK, Moves, MetaTypeOK, Store!ChunkTypeOK, Locks!LockTypeOK

\* What a thread inside a handler has in hand.
LEMMA InHandler ==
  ASSUME TypeInv, NEW t \in Threads, pc[t] # "idle"
  PROVE  /\ frame[t] \in Frame /\ HandlerOK(t)
         /\ frame[t].req \in Requests /\ frame[t].id \in Ids /\ frame[t].m \in FileMeta
         /\ frame[t].eid \in Ids \cup {NoId} /\ frame[t].lk \in Nat /\ frame[t].ci \in ChunkIdx
         /\ frame[t].req.op \in Ops /\ frame[t].req.path \in Paths /\ frame[t].req.to \in Paths
         /\ frame[t].req.off \in 0 .. MaxSize /\ frame[t].req.len \in 1 .. MaxSize
         /\ frame[t].req.buf \in Seq(Byte) /\ frame[t].req.mode \in Modes
<1>1. frame[t] \in Frame /\ HandlerOK(t) /\ frame[t].req \in Requests /\ frame[t].id \in Ids
  BY DEF TypeInv, TypeOK, HandlersOK, HandlerOK
<1>2. frame[t].req \in Request
  BY <1>1, RequestsAssumption
<1>3. QED
  BY <1>1, <1>2 DEF Frame, Request

\* The variables that a handler step does not touch, or sets to a value of its type.
OthersOK ==
  /\ index' \in [Paths -> Ids \cup {NoId}] /\ indexFile' \in [Paths -> Ids \cup {NoId}]
  /\ metaFile' \in [Ids -> FileMeta \cup {NoMeta}]
  /\ chunkFile' \in [Ids -> [ChunkIdx -> Chunk]]
  /\ gen' \in [Ids -> Nat] /\ holds' \subseteq Locks!Hold
  /\ task' \in [Threads -> [ChunkIdx -> TaskRecord]]
  /\ served' \in 0 .. MaxRequests /\ crashes' \in 0 .. MaxCrashes /\ faults' \in 0 .. MaxFaults

LEMMA Others ==
  ASSUME TypeInv
  PROVE  /\ index \in [Paths -> Ids \cup {NoId}] /\ indexFile \in [Paths -> Ids \cup {NoId}]
         /\ metaFile \in [Ids -> FileMeta \cup {NoMeta}]
         /\ chunkFile \in [Ids -> [ChunkIdx -> Chunk]]
         /\ gen \in [Ids -> Nat] /\ holds \subseteq Locks!Hold
         /\ task \in [Threads -> [ChunkIdx -> TaskRecord]]
         /\ served \in 0 .. MaxRequests /\ crashes \in 0 .. MaxCrashes /\ faults \in 0 .. MaxFaults
BY StoreTypeOK DEF TypeInv, TypeOK, MetaTypeOK, Locks!LockTypeOK

LEMMA StepTypeInv ==
  ASSUME TypeInv, NEW t \in Threads, Moves(t), OthersOK
  PROVE  TypeInv'
<1>1. HandlersOK'
  BY MovesHandlers DEF TypeInv
<1>2. Store!ChunkTypeOK'
  BY DEF OthersOK, Store!ChunkTypeOK, Store!ChunkIdx, Store!Chunk, ChunkIdx, Chunk
<1>3. QED
  BY <1>1, <1>2 DEF TypeInv, TypeOK, MetaTypeOK, Locks!LockTypeOK, Moves, OthersOK

\* Steps that only go on to another place in the handler.
LEMMA GoesOn ==
  ASSUME TypeInv, NEW t \in Threads, pc[t] \notin {"idle", "tasks"},
         NEW label \in Labels \ {"idle", "tasks", "chunk", "trim", "save"}, Goto(t, label),
         UNCHANGED <<frame, task, reply>>,
         label \in CreateLabels <=> pc[t] \in CreateLabels,
         label \in RenameLabels <=> pc[t] \in RenameLabels,
         label \in ChmodLabels <=> pc[t] \in ChmodLabels,
         label \in UnlinkLabels => pc[t] \in UnlinkLabels,
         label \in {"rename_erase", "rename_drop"} => pc[t] \in {"rename_erase", "rename_drop"}
  PROVE  Moves(t)
<1>1. frame[t] \in Frame /\ HandlerOK(t) /\ pc'[t] = label
  BY InHandler DEF Goto, TypeInv, TypeOK
<1>2. HandlerOK(t)'
  BY <1>1 DEF HandlerOK
<1>3. frame' = [frame EXCEPT ![t] = frame[t]]
  BY DEF TypeInv, TypeOK
<1>4. QED
  BY <1>1, <1>2, <1>3, Enters

LEMMA FileStepsTypeInv ==
  ASSUME TypeInv, NEW t \in Threads,
         \/ FileLock(t) \/ CreateStep(t) \/ SaveMeta(t) \/ UnlinkStep(t) \/ RenameStep(t) \/ ChmodStep(t)
  PROVE  TypeInv'
<1> USE DEF CreateLabels, RenameLabels, UnlinkLabels, ChmodLabels
<1>1. CASE FileLock(t)
  <2>0. pc[t] = "lock"
    BY <1>1 DEF FileLock
  <2> DEFINE f == [frame[t] EXCEPT !.lk = gen[frame[t].id]]
  <2>1. f \in Frame /\ f.req = frame[t].req /\ f.id = frame[t].id /\ f.m = frame[t].m
        /\ f.ci = frame[t].ci /\ f.eid = frame[t].eid
    BY <2>0, InHandler, Others DEF Frame
  <2>2. frame' = [frame EXCEPT ![t] = f] /\ Goto(t, "acquire") /\ UNCHANGED <<task, reply>>
    BY <1>1 DEF FileLock, TypeInv, TypeOK
  <2> HIDE DEF f
  <2>3. pc'[t] = "acquire" /\ frame'[t] = f
    BY <2>2 DEF Goto, TypeInv, TypeOK
  <2>4. HandlerOK(t)'
    BY <2>0, <2>1, <2>3, InHandler DEF HandlerOK
  <2>5. Moves(t)
    BY <2>0, <2>1, <2>2, <2>4, Enters DEF Labels
  <2>6. OthersOK
    BY <1>1, Others DEF FileLock, OthersOK
  <2>7. QED
    BY <2>5, <2>6, StepTypeInv
<1>2. CASE CreateSave(t) \/ RenameSave(t)
  <2>1. pc[t] \in {"create_save", "rename_save"} /\ Save(frame[t].m)
    BY <1>2 DEF CreateSave, RenameSave
  <2>2. Moves(t)
    BY <1>2, GoesOn DEF CreateSave, RenameSave, Labels
  <2>3. OthersOK
    BY <1>2, <2>1, InHandler, SaveType, Others DEF CreateSave, RenameSave, OthersOK
  <2>4. QED
    BY <2>2, <2>3, StepTypeInv
<1>3. CASE CreateIndex(t) \/ RenameIn(t)
  <2>1. pc[t] \in {"create_index", "rename_in"} /\ Finish(t, "ok", <<>>)
    BY <1>3 DEF CreateIndex, RenameIn
  <2>2. Moves(t)
    BY <1>3, <2>1, EmptyReply, Returns DEF CreateIndex, RenameIn
  <2>3. OthersOK
    BY <1>3, <2>1, InHandler, Others, ZenonT(30) DEF CreateIndex, RenameIn, IndexAdd, IndexSet, Mapped, OthersOK
  <2>4. QED
    BY <2>2, <2>3, StepTypeInv
<1>4. CASE SaveMeta(t) \/ ChmodSave(t)
  <2>1. pc[t] \in {"save", "chmod_save"} /\ Finish(t, "ok", <<>>) /\ Save(frame[t].m)
    BY <1>4 DEF SaveMeta, ChmodSave
  <2>2. Moves(t)
    BY <1>4, <2>1, EmptyReply, Returns DEF SaveMeta, ChmodSave
  <2>3. OthersOK
    BY <1>4, <2>1, InHandler, SaveType, Others DEF SaveMeta, ChmodSave, Locks!Unlock, OthersOK
  <2>4. QED
    BY <2>2, <2>3, StepTypeInv
<1>5. CASE UnlinkChunks(t)
  <2>1. pc[t] = "unlink_chunks" /\ Store!RemoveChunks(frame[t].id, 0, frame[t].m.n)
    BY <1>5 DEF UnlinkChunks
  <2>2. Moves(t)
    BY <1>5, GoesOn DEF UnlinkChunks, Labels
  <2>3. chunkFile' \in [Ids -> [ChunkIdx -> Chunk]]
    BY <2>1, InHandler, Others, StoreRemoveFrom, RemoveFromType DEF Store!RemoveChunks
  <2>4. OthersOK
    BY <1>5, <2>3, Others DEF UnlinkChunks, OthersOK
  <2>5. QED
    BY <2>2, <2>4, StepTypeInv
<1>6. CASE UnlinkMeta(t)
  <2>1. Moves(t)
    BY <1>6, GoesOn DEF UnlinkMeta, Labels
  <2>2. OthersOK
    BY <1>6, InHandler, Others DEF UnlinkMeta, RemoveMeta, Locks!Unlock, OthersOK
  <2>3. QED
    BY <2>1, <2>2, StepTypeInv
<1>7. CASE UnlinkIndex(t) \/ RenameOut(t) \/ RenameDrop(t)
  <2>1. Moves(t)
    BY <1>7, GoesOn DEF UnlinkIndex, RenameOut, RenameDrop, Labels
  <2>2. OthersOK
    BY <1>7, InHandler, Others, ZenonT(30) DEF UnlinkIndex, RenameOut, RenameDrop, IndexRemove, IndexSet, Mapped, OthersOK
  <2>3. QED
    BY <2>1, <2>2, StepTypeInv
<1>8. CASE UnlinkLock(t)
  <2>1. pc[t] = "unlink_lock" /\ Finish(t, "ok", <<>>)
    BY <1>8 DEF UnlinkLock
  <2>2. Moves(t)
    BY <1>8, <2>1, EmptyReply, Returns DEF UnlinkLock
  <2>3. OthersOK
    BY <1>8, <2>1, InHandler, Others DEF UnlinkLock, Locks!DeleteLock, OthersOK
  <2>4. QED
    BY <2>2, <2>3, StepTypeInv
<1>9. CASE RenameVictim(t)
  <2> DEFINE eid == index[frame[t].req.to]
             f == [frame[t] EXCEPT !.eid = eid]
  <2>0. pc[t] = "rename_victim" /\ eid \in Ids \cup {NoId}
    BY <1>9, InHandler, Others DEF RenameVictim
  <2>1. f \in Frame /\ f.req = frame[t].req /\ f.id = frame[t].id /\ f.eid = eid
    BY <2>0, InHandler DEF Frame
  <2>2. frame' = [frame EXCEPT ![t] = f] /\ UNCHANGED <<task, reply>>
    BY <1>9 DEF RenameVictim, TypeInv, TypeOK
  <2>3. PICK label \in {"rename_load", "rename_erase"} : Goto(t, label) /\ (label = "rename_erase" => eid # NoId)
    BY <1>9 DEF RenameVictim
  <2> HIDE DEF f
  <2>4. pc'[t] = label /\ frame'[t] = f
    BY <2>2, <2>3 DEF Goto, TypeInv, TypeOK
  <2>5. HandlerOK(t)'
    BY <2>0, <2>1, <2>3, <2>4, InHandler DEF HandlerOK
  <2>6. Moves(t)
    BY <2>0, <2>1, <2>2, <2>3, <2>5, Enters DEF Labels
  <2>7. chunkFile' \in [Ids -> [ChunkIdx -> Chunk]]
    BY <1>9, <2>0, Others, StoreRemoveFrom, RemoveFromType DEF RenameVictim, Store!RemoveChunks
  <2>8. OthersOK
    BY <1>9, <2>7, Others DEF RenameVictim, OthersOK
  <2>9. QED
    BY <2>6, <2>8, StepTypeInv
<1>10. CASE RenameErase(t)
  <2>1. Moves(t)
    BY <1>10, GoesOn DEF RenameErase, Labels
  <2>2. OthersOK
    BY <1>10, InHandler, Others DEF RenameErase, RemoveMeta, OthersOK
  <2>3. QED
    BY <2>1, <2>2, StepTypeInv
<1>11. CASE RenameLoad(t)
  <2> DEFINE m == [Load(frame[t].id) EXCEPT !.words = Words[frame[t].req.to]]
             f == [frame[t] EXCEPT !.m = m]
  <2>0. pc[t] = "rename_load"
    BY <1>11 DEF RenameLoad
  <2>1. m \in FileMeta
    BY <2>0, InHandler, Others, LoadType, WordsAssumption, ZenonT(60) DEF FileMeta
  <2>2. f \in Frame /\ f.req = frame[t].req /\ f.id = frame[t].id /\ f.eid = frame[t].eid
    BY <2>0, <2>1, InHandler DEF Frame
  <2>3. frame' = [frame EXCEPT ![t] = f] /\ Goto(t, "rename_save") /\ UNCHANGED <<task, reply>>
    BY <1>11 DEF RenameLoad, TypeInv, TypeOK
  <2> HIDE DEF f
  <2>4. pc'[t] = "rename_save" /\ frame'[t] = f
    BY <2>3 DEF Goto, TypeInv, TypeOK
  <2>5. HandlerOK(t)'
    BY <2>0, <2>2, <2>4, InHandler DEF HandlerOK
  <2>6. Moves(t)
    BY <2>0, <2>2, <2>3, <2>5, Enters DEF Labels
  <2>7. OthersOK
    BY <1>11, Others DEF RenameLoad, OthersOK
  <2>8. QED
    BY <2>6, <2>7, StepTypeInv
<1>12. CASE ChmodLoad(t)
  <2> DEFINE m == [Load(frame[t].id) EXCEPT !.mode = frame[t].req.mode]
             f == [frame[t] EXCEPT !.m = m]
  <2>0. pc[t] = "chmod_load"
    BY <1>12 DEF ChmodLoad
  <2>1. m \in FileMeta
    BY <2>0, InHandler, Others, LoadType, ZenonT(60) DEF FileMeta
  <2>2. f \in Frame /\ f.req = frame[t].req /\ f.id = frame[t].id /\ f.eid = frame[t].eid
    BY <2>0, <2>1, InHandler DEF Frame
  <2>3. UNCHANGED task
    BY <1>12 DEF ChmodLoad
  <2>4. \/ Finish(t, "ENOENT", <<>>)
        \/ frame' = [frame EXCEPT ![t] = f] /\ Goto(t, "chmod_save") /\ UNCHANGED reply
    BY <1>12 DEF ChmodLoad, TypeInv, TypeOK
  <2> HIDE DEF f, m
  <2>5. ASSUME Finish(t, "ENOENT", <<>>) PROVE Moves(t)
    BY <2>0, <2>3, <2>5, EmptyReply, Returns
  <2>6. ASSUME frame' = [frame EXCEPT ![t] = f], Goto(t, "chmod_save"), UNCHANGED reply PROVE Moves(t)
    <3>1. frame' = [frame EXCEPT ![t] = f] /\ UNCHANGED <<task, reply>>
      BY <2>3, <2>6
    <3>2. pc'[t] = "chmod_save" /\ frame'[t] = f
      BY <2>6, <3>1 DEF Goto, TypeInv, TypeOK
    <3>3. HandlerOK(t)'
      BY <2>0, <2>2, <3>2, InHandler DEF HandlerOK
    <3>4. QED
      BY <2>0, <2>2, <2>6, <3>1, <3>3, Enters DEF Labels
  <2>7. Moves(t)
    BY <2>4, <2>5, <2>6
  <2>8. OthersOK
    BY <1>12, Others DEF ChmodLoad, OthersOK
  <2>9. QED
    BY <2>7, <2>8, StepTypeInv
<1>13. QED
  BY <1>1, <1>2, <1>3, <1>4, <1>5, <1>6, <1>7, <1>8, <1>9, <1>10, <1>11, <1>12
  DEF CreateStep, UnlinkStep, RenameStep, ChmodStep

LEMMA WriteLockTypeInv ==
  ASSUME TypeInv, NEW t \in Threads, WriteLock(t)
  PROVE  TypeInv'
<1> DEFINE r == frame[t].req
           m == Load(frame[t].id)
           c == IF r.op = "write" THEN FirstChunk(r.off) ELSE 0
           f == [frame[t] EXCEPT !.m = m, !.ci = c]
<1>0. pc[t] = "acquire" /\ r.op # "read"
  BY DEF WriteLock
<1>1. m \in FileMeta
  BY <1>0, InHandler, Others, LoadType
<1>2. r.op = "write" => /\ Len(r.buf) \in Nat \ {0} /\ r.off \in Nat /\ r.off + Len(r.buf) <= MaxSize
  BY <1>0, InHandler, RequestsAssumption, MaxSizeNat
<1>3. c \in ChunkIdx /\ (r.op = "write" => c \in FirstChunk(r.off) .. LastChunk(r.off, Len(r.buf)))
  <2>1. CASE r.op = "write"
    <3>1. FirstChunk(r.off) \in ChunkIdx /\ LastChunk(r.off, Len(r.buf)) \in ChunkIdx
          /\ FirstChunk(r.off) <= LastChunk(r.off, Len(r.buf))
      BY <1>2, <2>1, LastChunkType
    <3>2. c = FirstChunk(r.off)
      BY <2>1
    <3> HIDE DEF r, c
    <3>3. c \in ChunkIdx
      BY <3>1, <3>2
    <3>4. FirstChunk(r.off) \in Nat /\ LastChunk(r.off, Len(r.buf)) \in Nat
      BY <3>1, ChunkIdxNat
    <3>5. c \in FirstChunk(r.off) .. LastChunk(r.off, Len(r.buf))
      BY <3>1, <3>2, <3>4
    <3>6. QED
      BY <3>3, <3>5
  <2>2. CASE r.op # "write"
    BY <2>2, ChunkIdxNat
  <2>3. QED
    BY <2>1, <2>2
<1> HIDE DEF m, c
<1>4. f \in Frame /\ f.req = r /\ f.id = frame[t].id /\ f.ci = c /\ f.eid = frame[t].eid
  BY <1>0, <1>1, <1>3, InHandler DEF Frame
<1>5. UNCHANGED task
  BY DEF WriteLock
<1>6. \/ Finish(t, "ENOENT", <<>>)
      \/ /\ frame' = [frame EXCEPT ![t] = f] /\ UNCHANGED reply
         /\ r.op \in {"write", "truncate", "utimens", "unlink"}
         /\ Goto(t, CASE r.op = "write" -> "chunk" [] r.op = "truncate" -> "trim"
                       [] r.op = "utimens" -> "save" [] r.op = "unlink" -> "unlink_chunks")
  <2>1. r.op \in {"write", "truncate", "utimens", "unlink"}
    BY <1>0, InHandler DEF HandlerOK, Ops, CreateLabels, RenameLabels, ChmodLabels
  <2>2. QED
    BY <2>1 DEF WriteLock, TypeInv, TypeOK, m, c
<1> HIDE DEF f
<1>7. ASSUME Finish(t, "ENOENT", <<>>) PROVE Moves(t)
  BY <1>0, <1>5, <1>7, EmptyReply, Returns
<1>8. ASSUME frame' = [frame EXCEPT ![t] = f], UNCHANGED reply,
             NEW label \in {"chunk", "trim", "save", "unlink_chunks"}, Goto(t, label),
             label = "chunk" => r.op = "write", label = "trim" => r.op = "truncate",
             label = "save" => r.op = "utimens", label = "unlink_chunks" => r.op = "unlink"
      PROVE  Moves(t)
  <2>1. pc'[t] = label /\ frame'[t] = f
    BY <1>8 DEF Goto, TypeInv, TypeOK
  <2>2. f.req.op = r.op /\ r.op \in {"write", "truncate", "utimens", "unlink"}
    BY <1>4, <1>8
  <2>3. f.id \in Ids /\ r \in Requests
    BY <1>0, <1>4, InHandler
  <2> HIDE DEF r
  <2>4. label = "chunk" => f.ci \in FirstChunk(r.off) .. LastChunk(r.off, Len(r.buf))
    BY <1>3, <1>4, <1>8
  <2>5. HandlerOK(t)'
    BY <1>4, <1>8, <2>1, <2>2, <2>3, <2>4
    DEF HandlerOK, CreateLabels, RenameLabels, ChmodLabels, UnlinkLabels
  <2>6. QED
    BY <1>0, <1>4, <1>5, <1>8, <2>5, Enters DEF Labels
<1>9. Moves(t)
  <2> HIDE DEF r
  <2>1. QED
    BY <1>6, <1>7, <1>8
<1>10. OthersOK
  <2>1. Locks!HoldOf(frame[t].id, frame[t].lk, t, Handler, FALSE) \in Locks!Hold
    BY <1>0, InHandler, MaxChunksAssumption DEF Locks!HoldOf, Locks!Hold, Roles, Handler
  <2>2. \/ UNCHANGED holds
        \/ holds' = holds \cup {Locks!HoldOf(frame[t].id, frame[t].lk, t, Handler, FALSE)}
    BY DEF WriteLock, Locks!Acquire
  <2>3. holds' \subseteq Locks!Hold
    BY <2>1, <2>2, Others
  <2>4. QED
    BY <2>3, Others DEF WriteLock, OthersOK
<1>11. QED
  BY <1>9, <1>10, StepTypeInv

LEMMA WriteChunkTypeInv ==
  ASSUME TypeInv, NEW t \in Threads, WriteChunk(t)
  PROVE  TypeInv'
<1> DEFINE g == frame[t]
           r == g.req
           lc == LastChunk(r.off, Len(r.buf))
           n == Greatest(g.m.n, lc + 1)
           size == Greatest(g.m.size, r.off + Len(r.buf))
           comp == DiskSizes(chunkFile'[g.id], n)
           f == [g EXCEPT !.m = [@ EXCEPT !.n = n, !.size = size, !.comp = comp]]
           k == [g EXCEPT !.ci = @ + 1]
<1>0. pc[t] = "chunk"
  BY DEF WriteChunk
<1>1. /\ r.op = "write" /\ g.ci \in FirstChunk(r.off) .. lc /\ g.ci \in ChunkIdx
      /\ r.buf \in Seq(Byte) /\ r.buf # <<>> /\ Len(r.buf) \in Nat \ {0}
      /\ r.off \in Nat /\ r.off + Len(r.buf) <= MaxSize
  BY <1>0, InHandler, RequestsAssumption, MaxSizeNat DEF HandlerOK
<1>2. lc \in ChunkIdx
  BY <1>1, LastChunkType
<1>3. chunkFile' \in [Ids -> [ChunkIdx -> Chunk]] /\ faults' \in 0 .. MaxFaults
  <2>1. ASSUME NEW old \in Chunk PROVE Merge(old, g.ci, r.off, r.buf) \in Chunk
    BY <1>1, MergeType
  <2>2. ASSUME NEW bytes \in Chunk, Store!WriteChunk(g.id, g.ci, bytes)
        PROVE  chunkFile' \in [Ids -> [ChunkIdx -> Chunk]]
    BY <1>0, <2>2, InHandler, Others DEF Store!WriteChunk
  <2>3. (IF g.ci < g.m.n THEN Store!ReadChunk(g.id, g.ci) ELSE <<>>) \in Chunk
    BY <1>0, <1>1, InHandler, Others, EmptyChunk, ReadChunkType
  <2>4. PutChunk(g)
    BY DEF WriteChunk
  <2>5. faults' \in 0 .. MaxFaults
    <3>1. Fault \/ UNCHANGED faults
      BY <2>4 DEF PutChunk
    <3>2. QED
      BY <3>1, Others, BoundsAssumption DEF Fault
  <2>6. \/ \E bytes \in Chunk : Store!WriteChunk(g.id, g.ci, bytes)
        \/ UNCHANGED chunkFile
    BY <2>1, <2>3, <2>4, EmptyChunk, BrokenType DEF PutChunk
  <2>7. QED
    BY <2>2, <2>5, <2>6, Others
<1>4. n \in 0 .. MaxChunks /\ size \in 0 .. MaxSize
  <2>1. g.m.n \in 0 .. MaxChunks /\ g.m.size \in 0 .. MaxSize
    BY <1>0, InHandler DEF FileMeta
  <2>2. lc + 1 \in 0 .. MaxChunks
    BY <1>2, MaxChunksAssumption DEF ChunkIdx
  <2> HIDE DEF lc, r, g
  <2>3. QED
    BY <1>1, <2>1, <2>2, MaxSizeNat, MaxChunksAssumption DEF Greatest
<1>5. comp \in [ChunkIdx -> 0 .. ChunkSize]
  BY <1>0, <1>3, InHandler, DiskSizesType
<1>6. /\ UNCHANGED <<task, reply>>
      /\ \/ g.ci < lc /\ frame' = [frame EXCEPT ![t] = k] /\ pc' = [pc EXCEPT ![t] = "chunk"]
         \/ frame' = [frame EXCEPT ![t] = f] /\ Goto(t, "save")
  BY <1>0 DEF WriteChunk, TypeInv, TypeOK
<1> HIDE DEF n, size, comp
<1>7. f \in Frame /\ f.req = r /\ f.id = g.id /\ f.eid = g.eid
  <2>1. [g.m EXCEPT !.n = n, !.size = size, !.comp = comp] \in FileMeta
    BY <1>0, <1>4, <1>5, InHandler DEF FileMeta
  <2>2. QED
    BY <1>0, <2>1, InHandler DEF Frame
<1>8. ASSUME g.ci < lc
      PROVE  k \in Frame /\ k.req = r /\ k.id = g.id /\ k.eid = g.eid /\ k.ci \in FirstChunk(r.off) .. lc
  <2>1. g.ci + 1 \in ChunkIdx /\ g.ci + 1 \in FirstChunk(r.off) .. lc
    <3>1. FirstChunk(r.off) \in Nat
      BY <1>1, ChunkIdxNat, LastChunkType
    <3> HIDE DEF g, lc
    <3>2. QED
      BY <1>1, <1>2, <1>8, <3>1, MaxChunksAssumption DEF ChunkIdx
  <2>2. k \in Frame /\ k.req = r /\ k.id = g.id /\ k.eid = g.eid /\ k.ci = g.ci + 1
    BY <1>0, <2>1, InHandler DEF Frame
  <2>3. QED
    BY <2>1, <2>2
<1> HIDE DEF f, k, lc
<1>9. ASSUME frame' = [frame EXCEPT ![t] = f], Goto(t, "save") PROVE Moves(t)
  <2>1. pc'[t] = "save" /\ frame'[t] = f
    BY <1>9 DEF Goto, TypeInv, TypeOK
  <2>2. HandlerOK(t)'
    BY <1>0, <1>1, <1>7, <2>1, InHandler
    DEF HandlerOK, CreateLabels, RenameLabels, ChmodLabels, UnlinkLabels
  <2>3. QED
    BY <1>0, <1>6, <1>7, <1>9, <2>2, Enters DEF Labels
<1>10. ASSUME g.ci < lc, frame' = [frame EXCEPT ![t] = k], pc' = [pc EXCEPT ![t] = "chunk"] PROVE Moves(t)
  <2>1. pc'[t] = "chunk" /\ frame'[t] = k
    BY <1>10 DEF TypeInv, TypeOK
  <2>2. HandlerOK(t)'
    BY <1>0, <1>1, <1>8, <1>10, <2>1, InHandler
    DEF HandlerOK, CreateLabels, RenameLabels, ChmodLabels, UnlinkLabels, lc
  <2>3. QED
    BY <1>0, <1>6, <1>8, <1>10, <2>2, Enters DEF Labels, Goto
<1>11. Moves(t)
  BY <1>6, <1>9, <1>10
<1>12. OthersOK
  BY <1>3, Others DEF WriteChunk, OthersOK
<1>13. QED
  BY <1>11, <1>12, StepTypeInv

LEMMA TrimTypeInv ==
  ASSUME TypeInv, NEW t \in Threads, Trim(t)
  PROVE  TypeInv'
<1> DEFINE g == frame[t]
           ns == g.req.off
           keep == ChunksFor(ns)
           cut == [g.m EXCEPT !.n = keep, !.size = ns, !.comp = DiskSizes(chunkFile'[g.id], keep)]
           grown == [g.m EXCEPT !.size = ns]
<1>0. pc[t] = "trim" /\ ns \in 0 .. MaxSize /\ g.id \in Ids /\ g.m \in FileMeta
  BY InHandler DEF Trim
<1>1. keep \in 0 .. MaxChunks
  BY <1>0, ChunksForType
<1>2. chunkFile' \in [Ids -> [ChunkIdx -> Chunk]]
  BY <1>0, Others, StoreRemoveFrom, RemoveFromType DEF Trim, Store!RemoveChunks
<1>3. DiskSizes(chunkFile'[g.id], keep) \in [ChunkIdx -> 0 .. ChunkSize]
  BY <1>0, <1>2, DiskSizesType
<1>4. cut \in FileMeta /\ grown \in FileMeta
  BY <1>0, <1>1, <1>3 DEF FileMeta
<1>5. /\ UNCHANGED <<task, reply>> /\ Goto(t, "save")
      /\ \E m \in FileMeta : frame' = [frame EXCEPT ![t] = [g EXCEPT !.m = m]]
  BY <1>0, <1>4 DEF Trim, TypeInv, TypeOK, Frame
<1>6. PICK m \in FileMeta : frame' = [frame EXCEPT ![t] = [g EXCEPT !.m = m]]
  BY <1>5
<1> DEFINE f == [g EXCEPT !.m = m]
<1>7. f \in Frame /\ f.req = g.req /\ f.id = g.id /\ f.eid = g.eid
  BY <1>0, InHandler DEF Frame
<1>8. frame' = [frame EXCEPT ![t] = f]
  BY <1>6
<1> HIDE DEF f
<1>9. pc'[t] = "save" /\ frame'[t] = f
  BY <1>5, <1>8 DEF Goto, TypeInv, TypeOK
<1>10. HandlerOK(t)'
  BY <1>0, <1>7, <1>9, InHandler DEF HandlerOK, CreateLabels, RenameLabels, ChmodLabels, UnlinkLabels
<1>11. Moves(t)
  BY <1>0, <1>5, <1>7, <1>8, <1>10, Enters DEF Labels
<1>12. OthersOK
  BY <1>2, Others DEF Trim, OthersOK
<1>13. QED
  BY <1>11, <1>12, StepTypeInv

LEMMA HoldType ==
  ASSUME NEW id \in Ids, NEW g \in Nat, NEW t \in Threads, NEW role \in Roles, NEW shared \in BOOLEAN
  PROVE  Locks!HoldOf(id, g, t, role, shared) \in Locks!Hold
BY DEF Locks!HoldOf, Locks!Hold

LEMMA ReadLoadTypeInv ==
  ASSUME TypeInv, NEW t \in Threads, ReadLoad(t)
  PROVE  TypeInv'
<1> DEFINE g == frame[t]
           m == Load(g.id)
           sz == Least(g.req.len, m.size - g.req.off)
           wanted == FirstChunk(g.req.off) .. LastChunk(g.req.off, sz)
           f == [g EXCEPT !.m = m]
           queue == [ci \in ChunkIdx |-> IF ci \in wanted THEN [NoTask EXCEPT !.st = "queued"] ELSE NoTask]
<1>0. pc[t] = "acquire" /\ g.req.op = "read"
  BY DEF ReadLoad
<1>1. m \in FileMeta
  BY <1>0, InHandler, Others, LoadType
<1> HIDE DEF wanted
<1>2. queue \in [ChunkIdx -> TaskRecord]
  <2>1. [NoTask EXCEPT !.st = "queued"] \in TaskRecord /\ NoTask \in TaskRecord
    BY EmptyChunk DEF NoTask, TaskRecord, TaskStates
  <2>2. QED
    BY <2>1
<1>3. \/ \E res \in {"ENOENT", "ok"} : Finish(t, res, <<>>) /\ UNCHANGED task
      \/ /\ g.req.off < m.size /\ frame' = [frame EXCEPT ![t] = f] /\ UNCHANGED reply
         /\ task' = [task EXCEPT ![t] = queue] /\ Goto(t, "tasks")
  BY DEF ReadLoad, TypeInv, TypeOK, wanted
<1> HIDE DEF queue, m
<1>4. f \in Frame /\ f.req = g.req /\ f.id = g.id /\ f.m = m
  BY <1>0, <1>1, InHandler DEF Frame
<1>5. ASSUME NEW res \in {"ENOENT", "ok"}, Finish(t, res, <<>>), UNCHANGED task
      PROVE  Moves(t) /\ task' \in [Threads -> [ChunkIdx -> TaskRecord]]
  BY <1>0, <1>5, EmptyReply, Returns, Others
<1> HIDE DEF f
<1>6. ASSUME g.req.off < m.size, frame' = [frame EXCEPT ![t] = f], UNCHANGED reply,
             task' = [task EXCEPT ![t] = queue], Goto(t, "tasks")
      PROVE  Moves(t) /\ task' \in [Threads -> [ChunkIdx -> TaskRecord]]
  <2>1. pc'[t] = "tasks" /\ frame'[t] = f
    BY <1>6 DEF Goto, TypeInv, TypeOK
  <2>2. HandlerOK(t)'
    BY <1>0, <1>4, <1>6, <2>1, InHandler DEF HandlerOK, CreateLabels, RenameLabels, ChmodLabels, UnlinkLabels
  <2>3. pc' \in [Threads -> Labels] /\ frame' \in [Threads -> Frame] /\ reply' \in [Threads -> Reply]
    BY <1>4, <1>6 DEF Goto, TypeInv, TypeOK, Labels
  <2>4. \A u \in Threads \ {t} : pc'[u] = pc[u] /\ frame'[u] = frame[u] /\ task'[u] = task[u]
    BY <1>6 DEF Goto, TypeInv, TypeOK
  <2>5. task' \in [Threads -> [ChunkIdx -> TaskRecord]]
    BY <1>2, <1>6, Others
  <2>6. QED
    BY <2>1, <2>2, <2>3, <2>4, <2>5 DEF Moves
<1>7. Moves(t) /\ task' \in [Threads -> [ChunkIdx -> TaskRecord]]
  BY <1>3, <1>5, <1>6
<1>8. OthersOK
  BY <1>7, Others DEF ReadLoad, OthersOK
<1>9. QED
  BY <1>7, <1>8, StepTypeInv

\* A task of thread t changes: the handler waits in "tasks" and stays there.
LEMMA TaskMoves ==
  ASSUME TypeInv, NEW t \in Threads, NEW ci \in ChunkIdx, task[t][ci].st # "none",
         NEW r \in TaskRecord, task' = [task EXCEPT ![t][ci] = r], UNCHANGED <<pc, frame, reply>>
  PROVE  Moves(t) /\ task' \in [Threads -> [ChunkIdx -> TaskRecord]]
<1>1. pc[t] = "tasks" /\ HandlerOK(t)
  BY DEF TypeInv, HandlersOK
<1>2. HandlerOK(t)'
  BY <1>1 DEF HandlerOK
<1>3. task' \in [Threads -> [ChunkIdx -> TaskRecord]]
  BY Others
<1>4. \A u \in Threads \ {t} : task'[u] = task[u]
  BY Others
<1>5. QED
  BY <1>1, <1>2, <1>3, <1>4 DEF Moves, TypeInv, TypeOK

LEMMA TaskTypeInv ==
  ASSUME TypeInv, NEW t \in Threads, TaskStep(t)
  PROVE  TypeInv'
<1>1. PICK ci \in ChunkIdx : TaskStart(t, ci) \/ TaskLock(t, ci) \/ TaskRead(t, ci)
  BY DEF TaskStep
<1>2. task[t][ci].st # "none" /\ UNCHANGED <<pc, frame, reply>>
  BY <1>1 DEF TaskStart, TaskLock, TaskRead
<1>3. pc[t] # "idle" /\ task[t][ci] \in TaskRecord
  BY <1>2, Others DEF TypeInv, HandlersOK
<1>4. frame[t].id \in Ids /\ ci + 1 \in Roles
  BY <1>3, InHandler, MaxChunksAssumption DEF Roles, ChunkIdx
<1>5. chunkFile[frame[t].id][ci] \in Chunk /\ Zeros(ChunkSize) \in Chunk /\ <<>> \in Chunk
  BY <1>4, Others, ZerosChunk, EmptyChunk
<1>6. \E r \in TaskRecord : task' = [task EXCEPT ![t][ci] = r]
  <2>1. CASE TaskStart(t, ci)
    <3>1. [task[t][ci] EXCEPT !.st = "done"] \in TaskRecord
          /\ [task[t][ci] EXCEPT !.st = "locking", !.lk = gen[frame[t].id]] \in TaskRecord
      BY <1>3, <1>4, Others DEF TaskRecord, TaskStates
    <3>2. QED
      BY <2>1, <3>1, Others DEF TaskStart
  <2>2. CASE TaskLock(t, ci)
    <3>1. [task[t][ci] EXCEPT !.st = "reading"] \in TaskRecord
          /\ [task[t][ci] EXCEPT !.st = "done", !.data = Zeros(ChunkSize)] \in TaskRecord
      BY <1>3, <1>5 DEF TaskRecord, TaskStates
    <3>2. QED
      BY <2>2, <3>1, Others DEF TaskLock
  <2>3. CASE TaskRead(t, ci)
    <3>1. [task[t][ci] EXCEPT !.st = "failed", !.data = <<>>] \in TaskRecord
          /\ [task[t][ci] EXCEPT !.st = "done", !.data = Store!ReadChunk(frame[t].id, ci)] \in TaskRecord
      BY <1>3, <1>4, <1>5, ReadChunkType, Others DEF TaskRecord, TaskStates
    <3>2. QED
      BY <2>3, <3>1, Others DEF TaskRead
  <2>4. QED
    BY <1>1, <2>1, <2>2, <2>3
<1>7. Moves(t) /\ task' \in [Threads -> [ChunkIdx -> TaskRecord]]
  BY <1>2, <1>6, TaskMoves
<1>8. holds' \subseteq Locks!Hold
  <2>1. CASE TaskStart(t, ci) \/ TaskRead(t, ci)
    BY <2>1, Others DEF TaskStart, TaskRead, Locks!Unlock
  <2>2. CASE TaskLock(t, ci)
    <3>1. task[t][ci].lk \in Nat
      BY <1>3 DEF TaskRecord
    <3>2. Locks!HoldOf(frame[t].id, task[t][ci].lk, t, Task(ci), TRUE) \in Locks!Hold
      BY <1>4, <3>1, HoldType DEF Task
    <3>3. QED
      BY <2>2, <3>2, Others DEF TaskLock, Locks!Acquire
  <2>3. QED
    BY <1>1, <2>1, <2>2
<1>9. faults' \in 0 .. MaxFaults
  <2>1. Fault \/ UNCHANGED faults
    BY <1>1 DEF TaskStart, TaskLock, TaskRead
  <2>2. QED
    BY <2>1, Others, BoundsAssumption DEF Fault
<1>10. OthersOK
  BY <1>1, <1>7, <1>8, <1>9, Others DEF TaskStart, TaskLock, TaskRead, OthersOK
<1>11. QED
  BY <1>7, <1>10, StepTypeInv

LEMMA ReadReplyTypeInv ==
  ASSUME TypeInv, NEW t \in Threads, ReadReply(t)
  PROVE  TypeInv'
<1> DEFINE g == frame[t]
           sz == Least(g.req.len, g.m.size - g.req.off)
           fc == FirstChunk(g.req.off)
           lc == LastChunk(g.req.off, sz)
           n == lc - fc + 1
           cdata == [i \in 1 .. n |-> task[t][fc + i - 1].data]
           data == Assemble(cdata, g.req.off, sz)
<1>0. pc[t] = "tasks" /\ g.req.off \in Nat /\ g.req.off < g.m.size /\ g.m.size \in 0 .. MaxSize
      /\ g.req.len \in Nat \ {0}
  BY InHandler, MaxSizeNat DEF ReadReply, HandlerOK, FileMeta
<1>1. sz \in Nat \ {0} /\ g.req.off + sz <= MaxSize
  BY <1>0, MaxSizeNat DEF Least
<1>2. fc \in ChunkIdx /\ lc \in ChunkIdx /\ fc <= lc
  BY <1>0, <1>1, LastChunkType
<1>3. n \in Nat \ {0} /\ \A i \in 1 .. n : fc + i - 1 \in ChunkIdx
  <2> HIDE DEF fc, lc
  <2>1. QED
    BY <1>2, MaxChunksAssumption DEF ChunkIdx
<1>4. cdata \in [1 .. n -> Chunk]
  <2> HIDE DEF n, fc
  <2>1. \A ci \in ChunkIdx : task[t][ci].data \in Chunk
    BY Others DEF TaskRecord
  <2>2. QED
    BY <1>3, <2>1
<1>5. data \in Seq(Byte)
  <2> HIDE DEF n, cdata, sz
  <2>1. QED
    BY <1>0, <1>1, <1>3, <1>4, AssembleType
<1>6. \/ Finish(t, "EIO", <<>>)
      \/ Finish(t, "ok", data)
  BY DEF ReadReply
<1>7. task' = [task EXCEPT ![t] = NoTasks]
  BY DEF ReadReply
<1> HIDE DEF data
<1>8. Moves(t)
  BY <1>5, <1>6, <1>7, EmptyReply, Returns
<1>9. task' \in [Threads -> [ChunkIdx -> TaskRecord]]
  BY <1>7, NoTasksType, Others
<1>10. OthersOK
  BY <1>9, Others DEF ReadReply, OthersOK
<1>11. QED
  BY <1>8, <1>10, StepTypeInv

LEMMA CrashTypeInv ==
  ASSUME TypeInv, CrashAndMount
  PROVE  TypeInv'
<1>1. index' \in [Paths -> Ids \cup {NoId}] /\ indexFile' \in [Paths -> Ids \cup {NoId}]
  <2>1. ASSUME NEW t \in Threads, pc[t] \in Indexing PROVE Rewritten(t) \in [Paths -> Ids \cup {NoId}]
    <3>1. frame[t].id \in Ids /\ pc[t] \in {"create_index", "unlink_index", "rename_drop", "rename_out", "rename_in"}
      BY <2>1, InHandler DEF Indexing
    <3>2. \E p : \E id \in Ids \cup {NoId} : Rewritten(t) = Mapped(p, id)
      BY <3>1 DEF Rewritten
    <3>3. QED
      BY <3>2, Others DEF Mapped
  <2>2. ASSUME NEW ix \in [Paths -> Ids \cup {NoId}], NEW file \in TornIndex(ix, Pieces(ix))
        PROVE  file \in [Paths -> Ids \cup {NoId}]
    BY CutIdsAssumption DEF TornIndex, NoPaths, Pieces
  <2>3. indexFile' \in [Paths -> Ids \cup {NoId}]
    BY <2>1, <2>2, Others DEF CrashAndMount, CrashMetaStore
  <2>4. QED
    BY <2>3 DEF CrashAndMount, LoadIndex
<1>2. metaFile' \in [Ids -> FileMeta \cup {NoMeta}]
  BY Others, DefaultMetaType DEF CrashAndMount, CrashMetaStore, TornMeta
<1>3. ASSUME NEW id \in Ids, NEW from, NEW n, chunkFile' \in Store!TornRemoval(id, from, n)
      PROVE  chunkFile' \in [Ids -> [ChunkIdx -> Chunk]]
  <2>1. PICK j \in from .. n : chunkFile' = [chunkFile EXCEPT ![id] = RemoveFrom(@, from, j)]
    BY <1>3, StoreRemoveFrom DEF Store!TornRemoval
  <2>2. QED
    BY <2>1, Others, RemoveFromType
<1>4. ASSUME NEW id \in Ids, NEW ci, chunkFile' \in Store!TornChunk(id, ci)
      PROVE  chunkFile' \in [Ids -> [ChunkIdx -> Chunk]]
  <2>1. PICK left \in Chunk : chunkFile' = [chunkFile EXCEPT ![id][ci] = left]
    BY <1>4, EmptyChunk, BrokenType DEF Store!TornChunk
  <2>2. QED
    BY <2>1, Others
<1>5. chunkFile' \in [Ids -> [ChunkIdx -> Chunk]]
  <2>1. CASE UNCHANGED chunkFile
    BY <2>1, Others
  <2>2. CASE \E t \in Threads : pc[t] = "chunk" /\ chunkFile' \in Store!TornChunk(frame[t].id, frame[t].ci)
    BY <2>2, <1>4, InHandler
  <2>3. CASE \E t \in Threads :
               /\ pc[t] \in {"trim", "unlink_chunks", "rename_victim"}
               /\ \/ \E from, n : chunkFile' \in Store!TornRemoval(frame[t].id, from, n)
                  \/ /\ index[frame[t].req.to] # NoId
                     /\ \E from, n : chunkFile' \in Store!TornRemoval(index[frame[t].req.to], from, n)
    <3>1. PICK t \in Threads :
               /\ pc[t] \in {"trim", "unlink_chunks", "rename_victim"}
               /\ \/ \E from, n : chunkFile' \in Store!TornRemoval(frame[t].id, from, n)
                  \/ /\ index[frame[t].req.to] # NoId
                     /\ \E from, n : chunkFile' \in Store!TornRemoval(index[frame[t].req.to], from, n)
      BY <2>3
    <3>2. frame[t].id \in Ids /\ (index[frame[t].req.to] # NoId => index[frame[t].req.to] \in Ids)
      BY <3>1, InHandler, Others
    <3>3. QED
      BY <3>1, <3>2, <1>3
  <2>4. QED
    BY <2>1, <2>2, <2>3 DEF CrashAndMount, CrashChunkStore
<1>6. gen' \in [Ids -> Nat] /\ holds' \subseteq Locks!Hold
  BY DEF CrashAndMount
<1>7. pc' \in [Threads -> Labels] /\ frame' \in [Threads -> Frame] /\ reply' \in [Threads -> Reply]
      /\ task' \in [Threads -> [ChunkIdx -> TaskRecord]]
  BY IdleFrameType, NoTasksType, EmptyReply DEF CrashAndMount, Labels, NoReply, Reply
<1>8. served' \in 0 .. MaxRequests /\ crashes' \in 0 .. MaxCrashes /\ faults' \in 0 .. MaxFaults
  BY Others, BoundsAssumption DEF CrashAndMount
<1>9. HandlersOK'
  BY DEF CrashAndMount, HandlersOK, NoTasks, NoTask
<1>10. Store!ChunkTypeOK'
  BY <1>5 DEF Store!ChunkTypeOK, Store!ChunkIdx, Store!Chunk, ChunkIdx, Chunk
<1>11. QED
  BY <1>1, <1>2, <1>6, <1>7, <1>8, <1>9, <1>10 DEF TypeInv, TypeOK, MetaTypeOK, Locks!LockTypeOK

LEMMA NextTypeInv ==
  ASSUME TypeInv, [Next]_vars
  PROVE  TypeInv'
<1>1. CASE UNCHANGED vars
  BY <1>1 DEF vars, TypeInv, TypeOK, MetaTypeOK, Store!ChunkTypeOK, Locks!LockTypeOK, HandlersOK, HandlerOK
<1>2. ASSUME NEW t \in Threads, Begin(t) \/ HandlerStep(t) \/ TaskStep(t) PROVE TypeInv'
  BY <1>2, BeginTypeInv, FileStepsTypeInv, WriteLockTypeInv, WriteChunkTypeInv, TrimTypeInv,
     ReadLoadTypeInv, ReadReplyTypeInv, TaskTypeInv
  DEF HandlerStep, ReadStep, LockedStep
<1>3. QED
  BY <1>1, <1>2, CrashTypeInv DEF Next

\* The inductive invariant of type correctness: a handler's place in fuse_ops.cpp goes with the request
\* that it serves, and its chunk number lies between the first and the last chunk of its write.
THEOREM TypeInvariant == Spec => []TypeInv
<1>1. QED
  BY InitTypeInv, NextTypeInv, PTL DEF Spec

\* Type correctness: whatever requests overlap and wherever the daemon dies, what the handlers
\* store, hold and answer stays within its type - the chunk numbers, sizes and bytes that cfs_write,
\* cfs_truncate and cfs_read compute included.
THEOREM TypeCorrect == Spec => []TypeOK
<1>1. TypeInv => TypeOK
  BY DEF TypeInv
<1>2. QED
  BY <1>1, TypeInvariant, PTL

-----------------------------------------------------------------------------
(* Names and locks, while create takes no id in use: which requests overlap,    *)
(* where their ids are in the index, and which mutexes they hold or are about   *)
(* to lock.                                                                     *)

RequestsApart ==
  \A t, u \in Threads :
    t # u /\ pc[t] # "idle" /\ pc[u] # "idle" => Compatible(frame[t].req, frame[u].req)

\* Nobody works on the file that a create, unlink or rename is about; another one of
\* these may run beside the unlink of a hidden name.
FilesApart ==
  \A t, u \in Threads :
    t # u /\ pc[t] # "idle" /\ pc[u] # "idle" /\ frame[t].req.op \in NameOps => frame[u].id # frame[t].id

\* Where the id of a handler is in the index: nowhere before create has added it,
\* and between its removal and the end of unlink or its return under rename's new name.
Placed(t) ==
  IF frame[t].req.op = "create"
  THEN frame[t].id = HashOf[frame[t].req.path] /\ Unnamed(frame[t].id)
  ELSE IF pc[t] \in {"unlink_lock", "rename_in"} THEN Unnamed(frame[t].id)
  ELSE index[frame[t].req.path] = frame[t].id

NameInv ==
  /\ RequestsApart /\ FilesApart
  /\ indexFile = index
  /\ NamesDistinct
  /\ \A t \in Threads : pc[t] # "idle" => Placed(t)

\* Places at which a handler holds its file's lock.
Exclusive == {"chunk", "trim", "save", "unlink_chunks", "unlink_meta"}

\* Who holds a lock is at a place where it should, and of a live mutex of its file.
HoldOK(h) ==
  /\ h.id = frame[h.thread].id /\ h.gen = gen[h.id]
  /\ \/ h.role = Handler /\ ~h.shared /\ pc[h.thread] \in Exclusive
     \/ \E ci \in ChunkIdx : h.role = Task(ci) /\ h.shared /\ task[h.thread][ci].st = "reading"

Holding(t) ==
  pc[t] \in Exclusive => Locks!HoldOf(frame[t].id, gen[frame[t].id], t, Handler, FALSE) \in holds

RefsLive(t) ==
  /\ pc[t] = "acquire" => frame[t].lk = gen[frame[t].id]
  /\ \A ci \in ChunkIdx : task[t][ci].st = "locking" => task[t][ci].lk = gen[frame[t].id]

LockInv ==
  /\ \A h \in holds : HoldOK(h)
  /\ \A t \in Threads : Holding(t) /\ RefsLive(t)
  /\ FileExclusion

-----------------------------------------------------------------------------
(* Steps of a handler, as far as the other handlers and the names go.          *)

Nameless == {"unlink_lock", "rename_in"}

\* Thread t alone moves; it stays with its request and its id, or returns.
Stays(t) ==
  /\ pc[t] # "idle"
  /\ \A u \in Threads \ {t} : pc'[u] = pc[u] /\ frame'[u] = frame[u]
  /\ pc'[t] # "idle" => frame'[t].req = frame[t].req /\ frame'[t].id = frame[t].id

NameEffect(t) ==
  \/ UNCHANGED <<index, indexFile>> /\ (pc'[t] # "idle" => (pc'[t] \in Nameless <=> pc[t] \in Nameless))
  \/ pc[t] = "create_index" /\ IndexAdd(frame[t].req.path, frame[t].id) /\ pc'[t] = "idle"
  \/ pc[t] = "rename_in" /\ IndexAdd(frame[t].req.to, frame[t].id) /\ pc'[t] = "idle"
  \/ /\ pc[t] \in {"unlink_index", "rename_out"} /\ IndexRemove(frame[t].req.path)
     /\ pc'[t] \in Nameless
  \/ pc[t] = "rename_drop" /\ IndexRemove(frame[t].req.to) /\ pc'[t] = "rename_load"

LEMMA Effects ==
  ASSUME TypeInv, NEW t \in Threads, HandlerStep(t) \/ TaskStep(t)
  PROVE  Stays(t) /\ NameEffect(t)
<1>0. pc \in [Threads -> Labels] /\ frame \in [Threads -> Frame]
  BY DEF TypeInv, TypeOK
<1>1. ASSUME FileLock(t) \/ ReadLoad(t) \/ ReadReply(t) \/ CreateSave(t)
      PROVE  Stays(t) /\ NameEffect(t)
  BY <1>0, <1>1 DEF FileLock, ReadLoad, ReadReply, CreateSave, Goto, Finish, Stays, NameEffect, Nameless, Frame
<1>2. ASSUME CreateIndex(t) \/ UnlinkIndex(t) \/ RenameDrop(t) \/ RenameOut(t) \/ RenameIn(t)
      PROVE  Stays(t) /\ NameEffect(t)
  BY <1>0, <1>2 DEF CreateIndex, UnlinkIndex, RenameDrop, RenameOut, RenameIn, Goto, Finish, Stays,
     NameEffect, Nameless
<1>3. ASSUME WriteLock(t) PROVE Stays(t) /\ NameEffect(t)
  <2>1. PICK label : /\ pc[t] = "acquire" /\ label \in {"idle", "chunk", "trim", "save", "unlink_chunks"}
                     /\ pc' = [pc EXCEPT ![t] = label]
    <3>1. frame[t].req.op \in {"write", "truncate", "utimens", "unlink"}
      BY <1>3, InHandler DEF WriteLock, HandlerOK, Ops, CreateLabels, RenameLabels, ChmodLabels
    <3>2. QED
      BY <1>3, <3>1 DEF WriteLock, Goto, Finish
  <2>2. /\ \A u \in Threads \ {t} : frame'[u] = frame[u]
        /\ pc'[t] # "idle" => frame'[t].req = frame[t].req /\ frame'[t].id = frame[t].id
    BY <1>0, <1>3, <2>1 DEF WriteLock, Goto, Finish, Frame
  <2>3. UNCHANGED <<index, indexFile>>
    BY <1>3 DEF WriteLock
  <2>4. QED
    BY <1>0, <2>1, <2>2, <2>3 DEF Stays, NameEffect, Nameless
<1>4. ASSUME WriteChunk(t) \/ Trim(t) \/ SaveMeta(t) PROVE Stays(t) /\ NameEffect(t)
  BY <1>0, <1>4 DEF WriteChunk, Trim, SaveMeta, Goto, Finish, Stays, NameEffect, Nameless, Frame
<1>5. ASSUME UnlinkChunks(t) \/ UnlinkMeta(t) \/ UnlinkLock(t) PROVE Stays(t) /\ NameEffect(t)
  BY <1>0, <1>5 DEF UnlinkChunks, UnlinkMeta, UnlinkLock, Goto, Finish, Stays, NameEffect, Nameless
<1>6. ASSUME RenameVictim(t) \/ RenameErase(t) \/ RenameLoad(t) \/ RenameSave(t)
      PROVE  Stays(t) /\ NameEffect(t)
  BY <1>0, <1>6 DEF RenameVictim, RenameErase, RenameLoad, RenameSave, Goto, Stays, NameEffect, Nameless, Frame
<1>7. ASSUME ChmodLoad(t) \/ ChmodSave(t) PROVE Stays(t) /\ NameEffect(t)
  BY <1>0, <1>7 DEF ChmodLoad, ChmodSave, Goto, Finish, Stays, NameEffect, Nameless, Frame
<1>8. ASSUME TaskStep(t) PROVE Stays(t) /\ NameEffect(t)
  <2>1. PICK ci \in ChunkIdx : TaskStart(t, ci) \/ TaskLock(t, ci) \/ TaskRead(t, ci)
    BY <1>8 DEF TaskStep
  <2>2. task[t][ci].st # "none" /\ UNCHANGED <<pc, frame, index, indexFile>>
    BY <2>1 DEF TaskStart, TaskLock, TaskRead
  <2>3. pc[t] = "tasks"
    BY <2>2 DEF TypeInv, HandlersOK
  <2>4. QED
    BY <2>2, <2>3 DEF Stays, NameEffect
<1>9. QED
  BY <1>1, <1>2, <1>3, <1>4, <1>5, <1>6, <1>7, <1>8
  DEF HandlerStep, ReadStep, CreateStep, LockedStep, UnlinkStep, RenameStep, ChmodStep

-----------------------------------------------------------------------------
LEMMA InitNameInv == Init => NameInv
<1> SUFFICES ASSUME Init PROVE NameInv
  OBVIOUS
<1>1. NamesDistinct
  BY InitAssumption, HashAssumption, NoIdAssumption DEF Init, NamesDistinct
<1>2. QED
  BY <1>1 DEF Init, NameInv, RequestsApart, FilesApart

LEMMA CompatibleSym ==
  ASSUME NEW r, NEW s, Compatible(r, s)
  PROVE  Compatible(s, r)
BY DEF Compatible

\* What two overlapping requests cannot share.
LEMMA NamesApart ==
  ASSUME TypeInv, RequestsApart, NEW t \in Threads, NEW u \in Threads \ {t},
         pc[t] # "idle", pc[u] # "idle", frame[t].req.op \in NameOps
  PROVE  /\ frame[u].req.op \in NameOps => frame[t].req.op = "unlink" \/ frame[u].req.op = "unlink"
         /\ frame[u].req.path # frame[t].req.path
         /\ frame[t].req.op = "rename" => frame[u].req.path # frame[t].req.to
         /\ frame[u].req.op = "rename" => frame[u].req.to # frame[t].req.path
BY DEF RequestsApart, Compatible, Named, NameOps, AtRelease

\* Two handlers work for one id only if neither of them changes names.
LEMMA IdsApart ==
  ASSUME NameInv, NEW t \in Threads, NEW u \in Threads \ {t},
         pc[t] # "idle", pc[u] # "idle", frame[t].req.op \in NameOps
  PROVE  frame[u].id # frame[t].id
BY DEF NameInv, FilesApart

\* The handler of t is entered for some request, or answers at once.
LEMMA BeginEnters ==
  ASSUME TypeInv, NEW t \in Threads, Begin(t)
  PROVE  /\ UNCHANGED <<index, indexFile, metaFile, chunkFile>>
         /\ \A u \in Threads \ {t} : pc'[u] = pc[u] /\ frame'[u] = frame[u]
         /\ \E r \in Requests :
              /\ Admissible(t, r)
              /\ \/ pc'[t] = "idle"
                 \/ /\ frame'[t].req = r /\ (index[r.path] = NoId <=> r.op = "create")
                    /\ frame'[t].id = IF r.op = "create" THEN HashOf[r.path] ELSE index[r.path]
                    /\ pc'[t] \in {"create_save", "rename_victim", "chmod_load", "lock"}
                    /\ pc'[t] = "create_save" => frame'[t].m = NewMeta(r.path, r.mode)
<1> DEFINE id(r) == IF r.op = "create" THEN HashOf[r.path] ELSE index[r.path]
           m(r) == IF r.op = "create" THEN NewMeta(r.path, r.mode) ELSE DefaultMeta
           entered(r) == [IdleFrame EXCEPT !.req = r, !.id = id(r), !.m = m(r)]
           label(r) == CASE r.op = "create" -> "create_save" [] r.op = "rename" -> "rename_victim"
                         [] r.op = "chmod" -> "chmod_load" [] OTHER -> "lock"
<1>0. pc \in [Threads -> Labels] /\ frame \in [Threads -> Frame]
  BY DEF TypeInv, TypeOK
<1>1. PICK r \in Requests :
        /\ Admissible(t, r)
        /\ \/ \E res \in {"EEXIST", "ENOENT"} : Finish(t, res, <<>>)
           \/ /\ index[r.path] = NoId <=> r.op = "create"
              /\ frame' = [frame EXCEPT ![t] = entered(r)]
              /\ Goto(t, label(r))
  BY DEF Begin
<1>2. entered(r).req = r /\ entered(r).id = id(r) /\ entered(r).m = m(r)
  BY DEF IdleFrame
<1>3. label(r) \in {"create_save", "rename_victim", "chmod_load", "lock"}
      /\ (label(r) = "create_save" => m(r) = NewMeta(r.path, r.mode))
  OBVIOUS
<1>4. UNCHANGED <<index, indexFile, metaFile, chunkFile>>
      /\ \A u \in Threads \ {t} : pc'[u] = pc[u] /\ frame'[u] = frame[u]
  BY <1>0 DEF Begin, Goto, Finish
<1> HIDE DEF entered, label, m
<1>5. CASE \E res \in {"EEXIST", "ENOENT"} : Finish(t, res, <<>>)
  BY <1>0, <1>1, <1>4, <1>5 DEF Finish, Goto
<1>6. CASE /\ index[r.path] = NoId <=> r.op = "create"
           /\ frame' = [frame EXCEPT ![t] = entered(r)]
           /\ Goto(t, label(r))
  <2>1. frame'[t] = entered(r) /\ pc'[t] = label(r)
    BY <1>0, <1>6 DEF Goto
  <2>2. QED
    BY <1>1, <1>2, <1>3, <1>4, <1>6, <2>1
<1>7. QED
  BY <1>1, <1>5, <1>6

LEMMA BeginNameInv ==
  ASSUME TypeInv, NameInv, ReuseIds = FALSE, NEW t \in Threads, Begin(t)
  PROVE  NameInv'
<1>0. pc \in [Threads -> Labels] /\ frame \in [Threads -> Frame] /\ pc[t] = "idle"
      /\ index \in [Paths -> Ids \cup {NoId}]
  BY Others DEF TypeInv, TypeOK, Begin
<1>1. UNCHANGED <<index, indexFile>> /\ \A u \in Threads \ {t} : pc'[u] = pc[u] /\ frame'[u] = frame[u]
  BY BeginEnters
<1>2. PICK r \in Requests :
        /\ Admissible(t, r)
        /\ \/ pc'[t] = "idle"
           \/ /\ frame'[t].req = r /\ (index[r.path] = NoId <=> r.op = "create")
              /\ frame'[t].id = IF r.op = "create" THEN HashOf[r.path] ELSE index[r.path]
              /\ pc'[t] \in {"create_save", "rename_victim", "chmod_load", "lock"}
  BY BeginEnters
<1>3. r.path \in Paths
  BY RequestsAssumption DEF Request
<1>4. RequestsApart'
  <2>1. \A u \in Threads \ {t} : pc[u] # "idle" /\ pc'[t] # "idle" => Compatible(frame'[t].req, frame[u].req)
    BY <1>2 DEF Admissible
  <2>2. QED
    BY <1>1, <2>1, CompatibleSym DEF RequestsApart, NameInv
<1>5. ASSUME pc'[t] # "idle" PROVE Placed(t)'
  <2>1. CASE r.op = "create"
    <3>1. \A p \in Paths : index[p] # HashOf[r.path]
      BY <1>2, <1>5, <2>1 DEF Admissible, Free, Unnamed
    <3>2. QED
      BY <1>1, <1>2, <1>5, <2>1, <3>1 DEF Placed, Unnamed
  <2>2. CASE r.op # "create"
    BY <1>1, <1>2, <1>5, <2>2 DEF Placed
  <2>3. QED
    BY <2>1, <2>2
<1>6. ASSUME NEW u \in Threads \ {t}, pc'[u] # "idle" PROVE Placed(u)'
  BY <1>1, <1>6 DEF NameInv, Placed, Unnamed
<1>7. ASSUME NEW u \in Threads \ {t}, pc[u] # "idle", pc'[t] # "idle",
             r.op \in NameOps \/ frame[u].req.op \in NameOps
      PROVE  frame[u].id # frame'[t].id
  <2>1. /\ r.op \in NameOps /\ frame[u].req.op \in NameOps => r.op = "unlink" \/ frame[u].req.op = "unlink"
        /\ frame[u].req.path # r.path
    BY <1>2, <1>7 DEF Admissible, Compatible, AtRelease, Named, NameOps
  <2>2. frame[u].id \in Ids /\ frame[u].req.path \in Paths
    BY <1>7, InHandler
  <2>3. Placed(u)
    BY <1>7 DEF NameInv
  <2>4. CASE r.op = "create"
    <3>1. Free(frame'[t].id)
      BY <1>2, <1>7, <2>4 DEF Admissible
    <3>2. frame[u].req.op # "create" /\ pc[u] # "rename_in"
      BY <1>7, <2>1, <2>4, InHandler DEF HandlerOK, NameOps, RenameLabels
    <3>3. QED
      BY <2>2, <2>3, <3>1, <3>2 DEF Free, Unnamed, Placed
  <2>5. CASE r.op # "create"
    <3>1. index[r.path] = frame'[t].id /\ frame'[t].id # NoId
      BY <1>2, <1>7, <2>5
    <3>2. Unnamed(frame[u].id) \/ index[frame[u].req.path] = frame[u].id
      BY <2>3 DEF Placed
    <3>3. QED
      BY <1>3, <2>1, <2>2, <3>1, <3>2 DEF Unnamed, NameInv, NamesDistinct
  <2>6. QED
    BY <2>4, <2>5
<1>8. FilesApart'
  <2>1. ASSUME NEW v \in Threads, NEW u \in Threads, v # u, pc'[v] # "idle", pc'[u] # "idle",
               frame'[v].req.op \in NameOps
        PROVE  frame'[u].id # frame'[v].id
    <3>1. CASE v = t
      BY <1>1, <1>2, <1>7, <2>1, <3>1
    <3>2. CASE u = t
      BY <1>1, <1>7, <2>1, <3>2
    <3>3. CASE v # t /\ u # t
      BY <1>1, <2>1, <3>3 DEF NameInv, FilesApart
    <3>4. QED
      BY <3>1, <3>2, <3>3
  <2>2. QED
    BY <2>1 DEF FilesApart
<1>9. QED
  BY <1>1, <1>4, <1>5, <1>6, <1>8 DEF NameInv, NamesDistinct

LEMMA StepNameInv ==
  ASSUME TypeInv, NameInv, NEW t \in Threads, Stays(t), NameEffect(t)
  PROVE  NameInv'
<1>0. index \in [Paths -> Ids \cup {NoId}]
  BY Others
<1>1. RequestsApart' /\ FilesApart'
  <2>1. RequestsApart'
    BY DEF RequestsApart, NameInv, Stays
  <2>2. FilesApart'
    BY DEF FilesApart, NameInv, Stays
  <2>3. QED
    BY <2>1, <2>2
<1>2. /\ frame[t].id \in Ids /\ frame[t].req.path \in Paths /\ frame[t].req.to \in Paths
      /\ frame[t].req.op = "rename" => frame[t].req.path # frame[t].req.to
      /\ Placed(t)
  BY InHandler, RequestsAssumption DEF Stays, NameInv
<1>3. CASE UNCHANGED <<index, indexFile>> /\ (pc'[t] # "idle" => (pc'[t] \in Nameless <=> pc[t] \in Nameless))
  <2>1. NamesDistinct' /\ indexFile' = index'
    BY <1>3 DEF NameInv, NamesDistinct
  <2>2. ASSUME NEW u \in Threads, pc'[u] # "idle" PROVE Placed(u)'
    <3>1. CASE u = t
      BY <1>2, <1>3, <2>2, <3>1 DEF Placed, Unnamed, Stays, Nameless
    <3>2. CASE u # t
      BY <1>3, <2>2, <3>2 DEF NameInv, Placed, Unnamed, Stays
    <3>3. QED
      BY <3>1, <3>2
  <2>3. QED
    BY <1>1, <2>1, <2>2 DEF NameInv
<1>4. ASSUME NEW p \in Paths, NEW id \in Ids \cup {NoId}, IndexSet(p, id),
             frame[t].req.op \in NameOps,
             p = frame[t].req.path \/ (frame[t].req.op = "rename" /\ p = frame[t].req.to),
             id = NoId \/ (id = frame[t].id /\ Unnamed(id))
      PROVE  /\ NamesDistinct' /\ indexFile' = index'
             /\ \A u \in Threads \ {t} : pc'[u] # "idle" => Placed(u)'
  <2>1. index' = [index EXCEPT ![p] = id] /\ indexFile' = index'
    BY <1>4 DEF IndexSet, Mapped
  <2>2. NamesDistinct'
    BY <1>0, <1>4, <2>1 DEF NameInv, NamesDistinct, Unnamed
  <2>3. ASSUME NEW u \in Threads \ {t}, pc'[u] # "idle" PROVE Placed(u)'
    <3>1. pc[u] = pc'[u] /\ frame'[u] = frame[u] /\ pc[t] # "idle" /\ pc[u] # "idle"
      BY <2>3 DEF Stays
    <3>2. frame[u].req.path # p /\ frame[u].id # frame[t].id
      BY <1>4, <3>1, NamesApart, IdsApart DEF NameInv
    <3>3. Placed(u) /\ frame[u].id \in Ids /\ frame[u].req.path \in Paths
      BY <3>1, InHandler DEF NameInv
    <3>4. index'[p] # frame[u].id /\ \A q \in Paths \ {p} : index'[q] = index[q]
      BY <1>0, <1>4, <2>1, <3>2, <3>3, NoIdAssumption
    <3>5. Unnamed(frame[u].id) => Unnamed(frame[u].id)'
      BY <3>1, <3>4 DEF Unnamed
    <3>6. index[frame[u].req.path] = frame[u].id => index'[frame'[u].req.path] = frame'[u].id
      BY <3>1, <3>2, <3>3, <3>4
    <3>7. QED
      BY <3>1, <3>3, <3>5, <3>6 DEF Placed, Unnamed
  <2>4. QED
    BY <2>1, <2>2, <2>3
<1>5. CASE pc[t] \in {"create_index", "rename_in"} /\ pc'[t] = "idle"
           /\ IndexAdd(IF pc[t] = "create_index" THEN frame[t].req.path ELSE frame[t].req.to, frame[t].id)
  <2>1. frame[t].req.op = IF pc[t] = "create_index" THEN "create" ELSE "rename"
    BY <1>5, InHandler DEF HandlerOK, CreateLabels, RenameLabels
  <2>2. Unnamed(frame[t].id)
    BY <1>2, <1>5, <2>1 DEF Placed
  <2>3. QED
    BY <1>1, <1>2, <1>4, <1>5, <2>1, <2>2 DEF NameInv, IndexAdd, NameOps
<1>6. CASE pc[t] \in {"unlink_index", "rename_out"} /\ IndexRemove(frame[t].req.path) /\ pc'[t] \in Nameless
  <2>1. frame[t].req.op \in {"unlink", "rename"}
    BY <1>6, InHandler DEF HandlerOK, UnlinkLabels, RenameLabels
  <2>2. index[frame[t].req.path] = frame[t].id
    BY <1>2, <1>6, <2>1 DEF Placed
  <2>3. Unnamed(frame[t].id)'
    BY <1>0, <1>2, <1>6, <2>2, NoIdAssumption DEF IndexRemove, IndexSet, Mapped, Unnamed, NameInv, NamesDistinct, Stays, Nameless
  <2>4. Placed(t)'
    BY <1>6, <2>1, <2>3 DEF Placed, Stays, Nameless
  <2>5. QED
    BY <1>1, <1>2, <1>4, <1>6, <2>1, <2>4 DEF NameInv, IndexRemove, NameOps
<1>7. CASE pc[t] = "rename_drop" /\ IndexRemove(frame[t].req.to) /\ pc'[t] = "rename_load"
  <2>1. frame[t].req.op = "rename"
    BY <1>7, InHandler DEF HandlerOK, RenameLabels
  <2>2. Placed(t)'
    BY <1>0, <1>2, <1>7, <2>1 DEF Placed, Stays, IndexRemove, IndexSet, Mapped
  <2>3. QED
    BY <1>1, <1>2, <1>4, <1>7, <2>1, <2>2 DEF NameInv, IndexRemove, NameOps
<1>8. QED
  BY <1>3, <1>5, <1>6, <1>7 DEF NameEffect

\* Every index that a handler writes to index.txt leads two names to two files.
LEMMA RewrittenDistinct ==
  ASSUME TypeInv, NameInv, NEW t \in Threads, pc[t] \in Indexing
  PROVE  /\ Rewritten(t) \in [Paths -> Ids \cup {NoId}]
         /\ \A p, q \in Paths : Rewritten(t)[p] # NoId /\ Rewritten(t)[p] = Rewritten(t)[q] => p = q
         /\ \A p \in Paths :
              \/ Rewritten(t)[p] \in {NoId, index[p]}
              \/ pc[t] \in {"create_index", "rename_in"} /\ Rewritten(t)[p] = frame[t].id
<1>0. index \in [Paths -> Ids \cup {NoId}] /\ pc[t] # "idle"
  BY Others DEF Indexing
<1>1. /\ frame[t].id \in Ids /\ frame[t].req.path \in Paths /\ frame[t].req.to \in Paths
      /\ Placed(t)
  BY <1>0, InHandler DEF NameInv
<1>2. CASE pc[t] \in {"create_index", "rename_in"}
  <2>1. Unnamed(frame[t].id)
    BY <1>1, <1>2, InHandler DEF Placed, HandlerOK, CreateLabels
  <2>2. PICK p \in Paths : Rewritten(t) = Mapped(p, frame[t].id)
    BY <1>1, <1>2 DEF Rewritten
  <2>3. QED
    BY <1>0, <1>1, <1>2, <2>1, <2>2, NoIdAssumption DEF Mapped, Unnamed, NameInv, NamesDistinct
<1>3. CASE pc[t] \in {"unlink_index", "rename_drop", "rename_out"}
  <2>1. PICK p \in Paths : Rewritten(t) = Mapped(p, NoId)
    BY <1>1, <1>3 DEF Rewritten
  <2>2. QED
    BY <1>0, <2>1 DEF Mapped, NameInv, NamesDistinct
<1>4. QED
  BY <1>2, <1>3 DEF Indexing

\* So does what a crash leaves of it, while no id in the index can be the piece of another.
LEMMA TornDistinct ==
  ASSUME NEW ix \in [Paths -> Ids \cup {NoId}], NEW file \in TornIndex(ix, Pieces(ix)), ReuseIds = FALSE,
         \A p, q \in Paths : ix[p] # NoId /\ ix[p] = ix[q] => p = q
  PROVE  \A p, q \in Paths : file[p] # NoId /\ file[p] = file[q] => p = q
<1>1. CASE file = NoPaths
  BY <1>1 DEF NoPaths
<1>2. CASE \E s \in SUBSET Paths, last \in Paths, id \in Pieces(ix) \cup {NoId} :
             file = [p \in Paths |-> IF p \in s THEN ix[p] ELSE IF p = last THEN id ELSE NoId]
  <2>1. PICK s \in SUBSET Paths, last \in Paths, id \in Pieces(ix) \cup {NoId} :
               file = [p \in Paths |-> IF p \in s THEN ix[p] ELSE IF p = last THEN id ELSE NoId]
    BY <1>2
  <2>2. id # NoId => \A p \in Paths : ix[p] # id
    BY DEF Pieces
  <2>3. QED
    BY <2>1, <2>2
<1>3. QED
  BY <1>1, <1>2 DEF TornIndex

LEMMA NextNameInv ==
  ASSUME TypeInv, NameInv, ReuseIds = FALSE, [Next]_vars
  PROVE  NameInv'
<1>1. CASE UNCHANGED vars
  BY <1>1 DEF vars, NameInv, RequestsApart, FilesApart, NamesDistinct, Placed, Unnamed
<1>2. ASSUME NEW t \in Threads, Begin(t) \/ HandlerStep(t) \/ TaskStep(t) PROVE NameInv'
  BY <1>2, BeginNameInv, StepNameInv, Effects
<1>3. CASE CrashAndMount
  <2>1. ASSUME NEW t \in Threads, pc[t] \in Indexing, indexFile' \in TornIndex(Rewritten(t), Pieces(Rewritten(t)))
        PROVE  \A p, q \in Paths : indexFile'[p] # NoId /\ indexFile'[p] = indexFile'[q] => p = q
    <3>1. PICK ix, file : ix = Rewritten(t) /\ file = indexFile'
      OBVIOUS
    <3>2. /\ ix \in [Paths -> Ids \cup {NoId}] /\ file \in TornIndex(ix, Pieces(ix))
          /\ \A p, q \in Paths : ix[p] # NoId /\ ix[p] = ix[q] => p = q
      BY <2>1, <3>1, RewrittenDistinct
    <3>3. \A p, q \in Paths : file[p] # NoId /\ file[p] = file[q] => p = q
      BY <3>2, TornDistinct
    <3>4. QED
      BY <3>1, <3>3
  <2>2. NamesDistinct'
    BY <1>3, <2>1 DEF CrashAndMount, CrashMetaStore, LoadIndex, NameInv, NamesDistinct
  <2>3. QED
    BY <1>3, <2>2 DEF CrashAndMount, LoadIndex, NameInv, RequestsApart, FilesApart
<1>4. QED
  BY <1>1, <1>2, <1>3 DEF Next

\* A handler finds its id where the code it is in has left it: cfs_create's in no name yet, cfs_unlink's and
\* cfs_rename's in none any more once they have removed it, the others' in their path - as long as no create
\* takes an id that a name leads to or an unlink is about to delete the mutex of (ReuseIds); the unlink that
\* libfuse makes of a hidden name may run beside any of them.
THEOREM NameInvariant == ReuseIds = FALSE /\ Spec => [](TypeInv /\ NameInv)
<1> SUFFICES ASSUME ReuseIds = FALSE PROVE Spec => [](TypeInv /\ NameInv)
  OBVIOUS
<1>1. Init => TypeInv /\ NameInv
  BY InitTypeInv, InitNameInv
<1>2. TypeInv /\ NameInv /\ [Next]_vars => (TypeInv /\ NameInv)'
  BY NextTypeInv, NextNameInv
<1>3. QED
  BY <1>1, <1>2, PTL DEF Spec

\* Two names never lead to one file, so that deleting the one takes nothing from the other: while cfs_create
\* takes only ids that are not in use, the other handlers keep names apart, since cfs_rename removes the old
\* name before it adds the new one, and so does the next mount after any crash. FuseAlias shows a create
\* that takes an id in use.
THEOREM TwoNamesTwoFiles == ReuseIds = FALSE /\ Spec => []NamesDistinct
<1>1. NameInv => NamesDistinct
  BY DEF NameInv
<1>2. QED
  BY <1>1, NameInvariant, PTL

-----------------------------------------------------------------------------
LEMMA InitLockInv == Init => LockInv
BY DEF Init, LockInv, Holding, RefsLive, FileExclusion, Exclusive, NoTasks, NoTask

\* Thread t alone moves, and no mutex is deleted.
Alone(t) ==
  /\ \A u \in Threads \ {t} : pc'[u] = pc[u] /\ frame'[u] = frame[u] /\ task'[u] = task[u]
  /\ UNCHANGED gen

LEMMA LockStep ==
  ASSUME TypeInv, LockInv, NEW t \in Threads, Alone(t), holds' \subseteq Locks!Hold,
         \A h \in holds' : (h \in holds /\ h.thread # t) \/ HoldOK(h)',
         \A h \in holds : h.thread # t => h \in holds',
         Holding(t)', RefsLive(t)', FileExclusion'
  PROVE  LockInv'
<1>1. ASSUME NEW h \in holds' PROVE HoldOK(h)'
  <2>1. CASE h \in holds /\ h.thread # t
    <3>1. HoldOK(h) /\ h.thread \in Threads \ {t}
      BY <2>1, Others DEF LockInv, Locks!Hold
    <3>2. QED
      BY <3>1 DEF HoldOK, Alone
  <2>2. QED
    BY <2>1
<1>2. ASSUME NEW u \in Threads \ {t} PROVE Holding(u)' /\ RefsLive(u)'
  <2>1. Holding(u) /\ RefsLive(u) /\ pc'[u] = pc[u] /\ frame'[u] = frame[u] /\ task'[u] = task[u] /\ gen' = gen
    BY DEF LockInv, Alone
  <2>2. RefsLive(u)'
    BY <2>1 DEF RefsLive
  <2>3. Locks!HoldOf(frame[u].id, gen[frame[u].id], u, Handler, FALSE).thread = u
    BY DEF Locks!HoldOf
  <2>4. Locks!HoldOf(frame'[u].id, gen'[frame'[u].id], u, Handler, FALSE)
        = Locks!HoldOf(frame[u].id, gen[frame[u].id], u, Handler, FALSE)
    BY <2>1
  <2>5. QED
    BY <2>1, <2>2, <2>3, <2>4 DEF Holding
<1>3. QED
  BY <1>1, <1>2 DEF LockInv

\* Nothing is locked or unlocked.
Quiet(t) ==
  /\ UNCHANGED holds
  /\ pc'[t] \in Exclusive <=> pc[t] \in Exclusive
  /\ pc'[t] = "acquire" => frame'[t].lk = gen[frame'[t].id]
  /\ \A ci \in ChunkIdx : /\ task'[t][ci].st = "locking" => task'[t][ci].lk = gen[frame'[t].id]
                          /\ task[t][ci].st = "reading" => task'[t][ci].st = "reading"
  /\ frame'[t].id = frame[t].id \/ (pc[t] \notin Exclusive /\ \A ci \in ChunkIdx : task[t][ci].st # "reading")

LEMMA QuietStep ==
  ASSUME TypeInv, LockInv, NEW t \in Threads, Alone(t), Quiet(t)
  PROVE  LockInv'
<1>1. \A h \in holds : HoldOK(h)
  BY DEF LockInv
<1>2. ASSUME NEW h \in holds, h.thread = t PROVE HoldOK(h)'
  BY <1>1, <1>2 DEF HoldOK, Quiet, Alone
<1>3. Holding(t)'
  <2>1. Holding(t)
    BY DEF LockInv
  <2>2. QED
    BY <2>1 DEF Holding, Quiet, Alone
<1>4. RefsLive(t)'
  BY DEF RefsLive, Quiet, Alone
<1>5. FileExclusion'
  BY DEF LockInv, FileExclusion, Quiet
<1>6. QED
  BY <1>2, <1>3, <1>4, <1>5, LockStep, Others DEF Quiet

\* A lock that can be taken exclusively, or shared, is taken.
LEMMA TakeStep ==
  ASSUME TypeInv, LockInv, NEW t \in Threads, Alone(t),
         NEW k \in Locks!Hold, Locks!Acquire(k), k.thread = t, HoldOK(k)', frame'[t].id = frame[t].id,
         IF k.shared THEN Locks!CanLockShared(k.id, k.gen) ELSE Locks!CanLock(k.id, k.gen),
         pc[t] \notin Exclusive, Holding(t)', RefsLive(t)',
         \A ci \in ChunkIdx : task[t][ci].st = "reading" => task'[t][ci].st = "reading"
  PROVE  LockInv'
<1>1. holds' = holds \cup {k} /\ \A h \in holds : HoldOK(h)
  BY DEF LockInv, Locks!Acquire
<1>2. ASSUME NEW h \in holds, h.thread = t PROVE HoldOK(h)'
  BY <1>1, <1>2 DEF HoldOK, Alone
<1>3. ASSUME NEW h \in holds, h.id = k.id PROVE h.shared /\ k.shared
  <2>1. h.gen = k.gen
    BY <1>1, <1>3 DEF HoldOK, Alone
  <2>2. h \in Locks!Holders(k.id, k.gen)
    BY <1>3, <2>1 DEF Locks!Holders
  <2>3. k.shared \in BOOLEAN
    BY DEF Locks!Hold
  <2>4. QED
    BY <2>2, <2>3 DEF Locks!CanLock, Locks!CanLockShared
<1>4. FileExclusion'
  BY <1>1, <1>3 DEF LockInv, FileExclusion
<1>5. QED
  BY <1>1, <1>2, <1>4, LockStep, Others

\* The lock of one role of t is released.
LEMMA ReleaseStep ==
  ASSUME TypeInv, LockInv, NEW t \in Threads, Alone(t), NEW role, Locks!Unlock(t, role),
         \A h \in holds : h.thread = t /\ h.role # role => HoldOK(h)',
         Holding(t)', RefsLive(t)'
  PROVE  LockInv'
<1>1. holds' = {h \in holds : ~(h.thread = t /\ h.role = role)}
  BY DEF Locks!Unlock
<1>2. FileExclusion'
  BY <1>1 DEF LockInv, FileExclusion
<1>3. holds' \subseteq Locks!Hold
  BY <1>1, Others
<1>4. \A h \in holds' : (h \in holds /\ h.thread # t) \/ HoldOK(h)'
  BY <1>1
<1>5. \A h \in holds : h.thread # t => h \in holds'
  BY <1>1
<1>6. QED
  BY <1>2, <1>3, <1>4, <1>5, LockStep

-----------------------------------------------------------------------------
LEMMA QuietActions ==
  ASSUME TypeInv, LockInv, NEW t \in Threads,
         \/ Begin(t) \/ FileLock(t) \/ ReadStep(t) \/ CreateStep(t) \/ WriteChunk(t) \/ Trim(t)
         \/ UnlinkChunks(t) \/ UnlinkIndex(t) \/ RenameStep(t) \/ ChmodStep(t)
  PROVE  LockInv'
<1>0. pc \in [Threads -> Labels] /\ frame \in [Threads -> Frame] /\ RefsLive(t) /\ HandlersOK
      /\ task \in [Threads -> [ChunkIdx -> TaskRecord]]
  BY Others DEF TypeInv, TypeOK, LockInv
<1>1. ASSUME Begin(t) PROVE Alone(t) /\ Quiet(t)
  <2>1. PICK label \in {"idle", "create_save", "rename_victim", "chmod_load", "lock"} : pc' = [pc EXCEPT ![t] = label]
    BY <1>1 DEF Begin, Goto, Finish
  <2>2. /\ pc[t] = "idle" /\ UNCHANGED <<gen, holds, task>>
        /\ \A u \in Threads \ {t} : frame'[u] = frame[u]
    BY <1>0, <1>1 DEF Begin, Finish
  <2>3. QED
    BY <1>0, <2>1, <2>2 DEF Alone, Quiet, Exclusive, HandlersOK
<1>2. ASSUME FileLock(t) PROVE Alone(t) /\ Quiet(t)
  BY <1>0, <1>2 DEF FileLock, Goto, Alone, Quiet, Exclusive, HandlersOK, Frame
<1>3. ASSUME ReadLoad(t) PROVE Alone(t) /\ Quiet(t)
  <2>1. /\ pc[t] = "acquire" /\ UNCHANGED <<gen, holds>>
        /\ \A u \in Threads \ {t} : pc'[u] = pc[u] /\ frame'[u] = frame[u] /\ task'[u] = task[u]
        /\ pc'[t] \in {"idle", "tasks"}
    BY <1>0, <1>3 DEF ReadLoad, Goto, Finish
  <2>2. \A ci \in ChunkIdx : task'[t][ci].st \in {"none", "queued"}
    BY <1>0, <1>3, <2>1 DEF ReadLoad, HandlersOK, NoTask
  <2>3. QED
    BY <1>0, <2>1, <2>2 DEF Alone, Quiet, Exclusive, HandlersOK
<1>4. ASSUME ReadReply(t) PROVE Alone(t) /\ Quiet(t)
  <2>1. /\ pc[t] = "tasks" /\ pc'[t] = "idle" /\ UNCHANGED <<gen, holds>> /\ task'[t] = NoTasks
        /\ \A u \in Threads \ {t} : pc'[u] = pc[u] /\ frame'[u] = frame[u] /\ task'[u] = task[u]
    BY <1>0, <1>4 DEF ReadReply, Goto, Finish
  <2>2. \A ci \in ChunkIdx : task[t][ci].st # "reading"
    BY <1>4 DEF ReadReply, PoolQuiescent
  <2>3. QED
    BY <2>1, <2>2 DEF Alone, Quiet, Exclusive, NoTasks, NoTask
<1>5. ASSUME CreateStep(t) \/ UnlinkIndex(t) \/ ChmodStep(t) PROVE Alone(t) /\ Quiet(t)
  BY <1>0, <1>5 DEF CreateStep, CreateSave, CreateIndex, UnlinkIndex, ChmodStep, ChmodLoad, ChmodSave,
     Goto, Finish, Alone, Quiet, Exclusive, HandlersOK, Frame
<1>6. ASSUME WriteChunk(t) \/ Trim(t) \/ UnlinkChunks(t) PROVE Alone(t) /\ Quiet(t)
  <2>1. /\ UNCHANGED <<gen, holds, task>> /\ pc[t] \in Exclusive /\ pc'[t] \in Exclusive
        /\ \A u \in Threads \ {t} : pc'[u] = pc[u] /\ frame'[u] = frame[u]
        /\ frame'[t].id = frame[t].id
    BY <1>0, <1>6 DEF WriteChunk, Trim, UnlinkChunks, Goto, Exclusive, Frame
  <2>2. QED
    BY <1>0, <2>1 DEF Alone, Quiet, Exclusive, HandlersOK
<1>7. ASSUME RenameStep(t) PROVE Alone(t) /\ Quiet(t)
  <2>1. /\ UNCHANGED <<gen, holds, task>> /\ pc[t] \in RenameLabels /\ pc'[t] \in RenameLabels \cup {"idle"}
        /\ \A u \in Threads \ {t} : pc'[u] = pc[u] /\ frame'[u] = frame[u]
    BY <1>0, <1>7 DEF RenameStep, RenameVictim, RenameErase, RenameDrop, RenameLoad, RenameSave, RenameOut,
       RenameIn, Goto, Finish, RenameLabels
  <2>2. QED
    BY <1>0, <2>1 DEF Alone, Quiet, Exclusive, HandlersOK, RenameLabels
<1>8. QED
  BY <1>1, <1>2, <1>3, <1>4, <1>5, <1>6, <1>7, QuietStep DEF ReadStep

LEMMA WriteLockInv ==
  ASSUME TypeInv, LockInv, NEW t \in Threads, WriteLock(t)
  PROVE  LockInv'
<1> PICK k : k = Locks!HoldOf(frame[t].id, frame[t].lk, t, Handler, FALSE)
  OBVIOUS
<1>0. pc \in [Threads -> Labels] /\ frame \in [Threads -> Frame] /\ pc[t] = "acquire" /\ UNCHANGED <<gen, task>>
      /\ frame[t].id \in Ids /\ frame[t].lk \in Nat
  BY InHandler DEF TypeInv, TypeOK, WriteLock
<1>1. frame[t].lk = gen[frame[t].id] /\ \A ci \in ChunkIdx : task[t][ci].st = "none"
  BY <1>0 DEF TypeInv, HandlersOK, LockInv, RefsLive
<1>2. frame[t].req.op \in {"write", "truncate", "utimens", "unlink"}
  BY <1>0, InHandler DEF WriteLock, HandlerOK, Ops, CreateLabels, RenameLabels, ChmodLabels
<1>3. /\ \A u \in Threads \ {t} : pc'[u] = pc[u] /\ frame'[u] = frame[u] /\ task'[u] = task[u]
      /\ \/ pc'[t] = "idle" /\ UNCHANGED holds
         \/ pc'[t] \in Exclusive /\ Locks!Acquire(k) /\ frame'[t].id = frame[t].id
  <2>1. CASE Finish(t, "ENOENT", <<>>) /\ UNCHANGED holds
    BY <1>0, <2>1 DEF Finish, Goto
  <2>2. CASE /\ Locks!Acquire(k)
             /\ frame' = [frame EXCEPT ![t] = [@ EXCEPT !.m = Load(frame[t].id),
                       !.ci = IF frame[t].req.op = "write" THEN FirstChunk(frame[t].req.off) ELSE 0]]
             /\ \E label \in Exclusive : pc' = [pc EXCEPT ![t] = label]
    BY <1>0, <2>2 DEF Frame
  <2>3. QED
    BY <1>2, <2>1, <2>2 DEF WriteLock, Exclusive, Goto
<1>4. Alone(t) /\ RefsLive(t)'
  BY <1>0, <1>1, <1>3 DEF Alone, RefsLive, Exclusive
<1>5. CASE pc'[t] = "idle" /\ UNCHANGED holds
  <2>1. Quiet(t)
    BY <1>0, <1>1, <1>5 DEF Quiet, Exclusive
  <2>2. QED
    BY <1>4, <2>1, QuietStep
<1>6. CASE pc'[t] \in Exclusive /\ Locks!Acquire(k) /\ frame'[t].id = frame[t].id
  <2>1. k \in Locks!Hold
    <3>1. Handler \in Roles
      BY MaxChunksAssumption DEF Roles, Handler
    <3>2. QED
      BY <1>0, <3>1, HoldType
  <2>2. k.id = frame[t].id /\ k.gen = frame[t].lk /\ k.thread = t /\ k.role = Handler /\ k.shared = FALSE
    BY DEF Locks!HoldOf
  <2>3. Holding(t)'
    BY <1>0, <1>1, <1>6 DEF Holding, Locks!Acquire
  <2>4. Locks!CanLock(k.id, k.gen)
    BY <2>2 DEF WriteLock
  <2>5. HoldOK(k)'
    BY <1>0, <1>1, <1>6, <2>2 DEF HoldOK
  <2>6. QED
    BY <1>0, <1>1, <1>4, <1>6, <2>1, <2>2, <2>3, <2>4, <2>5, TakeStep DEF Exclusive
<1>7. QED
  BY <1>3, <1>5, <1>6

LEMMA TaskLockInv ==
  ASSUME TypeInv, LockInv, NEW t \in Threads, TaskStep(t)
  PROVE  LockInv'
<1>1. PICK ci \in ChunkIdx : TaskStart(t, ci) \/ TaskLock(t, ci) \/ TaskRead(t, ci)
  BY DEF TaskStep
<1>2. /\ task[t][ci].st # "none" /\ UNCHANGED <<pc, frame, gen>> /\ task \in [Threads -> [ChunkIdx -> TaskRecord]]
      /\ pc[t] = "tasks" /\ pc[t] \notin Exclusive
  BY <1>1, Others DEF TaskStart, TaskLock, TaskRead, TypeInv, HandlersOK, Exclusive
<1>3. /\ frame[t].id \in Ids /\ ci + 1 \in Roles /\ task[t][ci] \in TaskRecord /\ task[t][ci].lk \in Nat
      /\ RefsLive(t) /\ Holding(t)'
  <2>1. ci + 1 \in Roles
    BY MaxChunksAssumption DEF Roles, ChunkIdx
  <2>2. task[t][ci] \in TaskRecord /\ task[t][ci].lk \in Nat
    BY <1>2 DEF TaskRecord
  <2>3. frame[t].id \in Ids
    BY <1>2, InHandler
  <2>4. QED
    BY <1>2, <2>1, <2>2, <2>3 DEF LockInv, Holding, Exclusive
<1>4. CASE TaskStart(t, ci)
  <2>1. Alone(t)
    BY <1>2, <1>4 DEF TaskStart, Alone
  <2>2. /\ UNCHANGED holds
        /\ \A i \in ChunkIdx : /\ task'[t][i].st = "locking" => task'[t][i].lk = gen[frame'[t].id]
                               /\ task[t][i].st = "reading" => task'[t][i].st = "reading"
    <3>1. UNCHANGED holds /\ task[t][ci].st = "queued"
      BY <1>4 DEF TaskStart
    <3>2. ASSUME NEW i \in ChunkIdx \ {ci} PROVE task'[t][i] = task[t][i]
      BY <1>2, <1>4 DEF TaskStart
    <3>3. task'[t][ci].st = "done" \/ task'[t][ci].lk = gen[frame[t].id]
      <4>1. /\ [task[t][ci] EXCEPT !.st = "done"].st = "done"
            /\ [task[t][ci] EXCEPT !.st = "locking", !.lk = gen[frame[t].id]].lk = gen[frame[t].id]
        BY <1>3 DEF TaskRecord
      <4>2. QED
        BY <1>2, <1>4, <4>1 DEF TaskStart
    <3>4. QED
      BY <1>2, <1>3, <3>1, <3>2, <3>3 DEF RefsLive
  <2>3. Quiet(t)
    BY <1>2, <2>2 DEF Quiet
  <2>4. QED
    BY <2>1, <2>3, QuietStep
<1>5. CASE TaskLock(t, ci)
  <2> PICK k : k = Locks!HoldOf(frame[t].id, task[t][ci].lk, t, Task(ci), TRUE)
    OBVIOUS
  <2>1. Alone(t) /\ task[t][ci].st = "locking"
    BY <1>2, <1>5 DEF TaskLock, Alone
  <2>2. /\ \A i \in ChunkIdx \ {ci} : task'[t][i] = task[t][i]
        /\ \/ task'[t][ci].st = "done" /\ UNCHANGED holds
           \/ task'[t][ci].st = "reading" /\ Locks!Acquire(k)
    <3>1. /\ [task[t][ci] EXCEPT !.st = "done", !.data = Zeros(ChunkSize)].st = "done"
          /\ [task[t][ci] EXCEPT !.st = "reading"].st = "reading"
      BY <1>3 DEF TaskRecord
    <3>2. QED
      BY <1>2, <1>5, <3>1, ZenonT(30) DEF TaskLock
  <2>3. RefsLive(t)' /\ task[t][ci].lk = gen[frame[t].id]
    BY <1>2, <1>3, <2>1, <2>2 DEF RefsLive
  <2>4. CASE task'[t][ci].st = "done" /\ UNCHANGED holds
    <3>1. Quiet(t)
      BY <1>2, <1>3, <2>1, <2>2, <2>3, <2>4 DEF Quiet, RefsLive
    <3>2. QED
      BY <2>1, <3>1, QuietStep
  <2>5. CASE task'[t][ci].st = "reading" /\ Locks!Acquire(k)
    <3>1. k \in Locks!Hold
      BY <1>3, HoldType DEF Task
    <3>2. k.id = frame[t].id /\ k.gen = task[t][ci].lk /\ k.thread = t /\ k.role = Task(ci) /\ k.shared = TRUE
      BY SMTT(30) DEF Locks!HoldOf
    <3>3. Locks!CanLockShared(k.id, k.gen)
      BY <1>5, <3>2 DEF TaskLock
    <3>4. HoldOK(k)'
      BY <1>2, <2>3, <2>5, <3>2 DEF HoldOK
    <3>5. \A i \in ChunkIdx : task[t][i].st = "reading" => task'[t][i].st = "reading"
      BY <2>1, <2>2, <2>5
    <3>6. QED
      BY <1>2, <1>3, <2>1, <2>3, <2>5, <3>1, <3>2, <3>3, <3>4, <3>5, TakeStep
  <2>6. QED
    BY <2>2, <2>4, <2>5
<1>6. CASE TaskRead(t, ci)
  <2>1. Alone(t) /\ Locks!Unlock(t, Task(ci))
    BY <1>2, <1>6 DEF TaskRead, Alone
  <2>2. /\ \A i \in ChunkIdx \ {ci} : task'[t][i] = task[t][i]
        /\ task'[t][ci].st \in {"done", "failed"}
    <3>1. PICK r, q : /\ r = [task[t][ci] EXCEPT !.st = "failed", !.data = <<>>]
                      /\ q = [task[t][ci] EXCEPT !.st = "done", !.data = Store!ReadChunk(frame[t].id, ci)]
      OBVIOUS
    <3>2. r.st = "failed" /\ q.st = "done"
      BY <1>3, <3>1 DEF TaskRecord
    <3>3. task' = [task EXCEPT ![t][ci] = r] \/ task' = [task EXCEPT ![t][ci] = q]
      BY <1>6, <3>1 DEF TaskRead
    <3>4. task'[t][ci] \in {r, q} /\ \A i \in ChunkIdx \ {ci} : task'[t][i] = task[t][i]
      BY <1>2, <3>3
    <3>5. QED
      BY <3>2, <3>4
  <2>3. RefsLive(t)'
    BY <1>2, <1>3, <2>2 DEF RefsLive
  <2>4. ASSUME NEW h \in holds, h.thread = t, h.role # Task(ci) PROVE HoldOK(h)'
    <3>1. HoldOK(h)
      BY DEF LockInv
    <3>2. PICK i \in ChunkIdx : h.role = Task(i) /\ h.shared /\ task[t][i].st = "reading"
      BY <1>2, <2>4, <3>1 DEF HoldOK
    <3>3. i # ci
      BY <2>4, <3>2
    <3>4. task'[t][i].st = "reading"
      BY <2>2, <3>2, <3>3
    <3>5. QED
      BY <1>2, <2>4, <3>1, <3>2, <3>4 DEF HoldOK
  <2>5. QED
    BY <1>3, <2>1, <2>3, <2>4, ReleaseStep
<1>7. QED
  BY <1>1, <1>4, <1>5, <1>6

\* The handler of t unlocks its file.
LEMMA HandlerUnlockInv ==
  ASSUME TypeInv, LockInv, NEW t \in Threads, SaveMeta(t) \/ UnlinkMeta(t)
  PROVE  LockInv'
<1>0. pc \in [Threads -> Labels] /\ frame \in [Threads -> Frame] /\ pc[t] \in {"save", "unlink_meta"}
  BY DEF TypeInv, TypeOK, SaveMeta, UnlinkMeta
<1>1. /\ Alone(t) /\ UNCHANGED task /\ Locks!Unlock(t, Handler) /\ pc'[t] \in {"idle", "unlink_index"}
  BY <1>0 DEF SaveMeta, UnlinkMeta, Finish, Goto, Alone
<1>2. \A ci \in ChunkIdx : task[t][ci].st = "none"
  BY <1>0 DEF TypeInv, HandlersOK
<1>3. Holding(t)' /\ RefsLive(t)'
  BY <1>1, <1>2 DEF Holding, RefsLive, Exclusive
<1>4. ASSUME NEW h \in holds, h.thread = t, h.role # Handler PROVE HoldOK(h)'
  BY <1>2, <1>4 DEF LockInv, HoldOK
<1>5. QED
  BY <1>1, <1>3, <1>4, ReleaseStep

\* When unlink deletes its file's mutex nobody holds it or has a reference to it:
\* whoever is inside a handler works for another file.
LEMMA DeleteLockInv ==
  ASSUME TypeInv, NameInv, LockInv, NEW t \in Threads, UnlinkLock(t)
  PROVE  LockInv'
<1> DEFINE id == frame[t].id
<1>0. pc \in [Threads -> Labels] /\ frame \in [Threads -> Frame] /\ pc[t] = "unlink_lock"
      /\ gen \in [Ids -> Nat] /\ id \in Ids /\ frame[t].req.op = "unlink"
  BY Others, InHandler DEF TypeInv, TypeOK, UnlinkLock, HandlerOK, UnlinkLabels
<1>1. /\ gen' = [gen EXCEPT ![id] = @ + 1] /\ UNCHANGED <<holds, task>>
      /\ \A u \in Threads \ {t} : pc'[u] = pc[u] /\ frame'[u] = frame[u]
      /\ pc'[t] = "idle"
  BY <1>0 DEF UnlinkLock, Locks!DeleteLock, Finish, Goto
<1>2. \A ci \in ChunkIdx : task[t][ci].st = "none"
  BY <1>0 DEF TypeInv, HandlersOK
<1>3. ASSUME NEW u \in Threads \ {t}, pc[u] # "idle" PROVE gen'[frame[u].id] = gen[frame[u].id]
  <2>1. frame[u].id # id /\ frame[u].id \in Ids
    BY <1>0, <1>3, IdsApart, InHandler DEF NameOps
  <2>2. QED
    BY <1>0, <1>1, <2>1
<1>4. ASSUME NEW h \in holds PROVE HoldOK(h)'
  <2>1. HoldOK(h) /\ h.thread \in Threads
    BY Others DEF LockInv, Locks!Hold
  <2>2. h.thread # t
    BY <1>0, <1>2, <2>1 DEF HoldOK, Exclusive
  <2>3. pc[h.thread] # "idle"
    BY <2>1 DEF HoldOK, Exclusive, TypeInv, HandlersOK
  <2>4. gen'[h.id] = gen[h.id]
    BY <1>3, <2>1, <2>2, <2>3 DEF HoldOK
  <2>5. QED
    BY <1>1, <2>1, <2>2, <2>4 DEF HoldOK
<1>5. ASSUME NEW u \in Threads PROVE Holding(u)' /\ RefsLive(u)'
  <2>1. CASE u = t
    BY <1>1, <1>2, <2>1 DEF Holding, RefsLive, Exclusive
  <2>2. CASE u # t
    <3>1. Holding(u) /\ RefsLive(u) /\ pc'[u] = pc[u] /\ frame'[u] = frame[u] /\ task'[u] = task[u] /\ holds' = holds
      BY <1>1, <2>2 DEF LockInv
    <3>2. CASE pc[u] = "idle"
      BY <3>1, <3>2 DEF Holding, RefsLive, Exclusive, TypeInv, HandlersOK
    <3>3. CASE pc[u] # "idle"
      <4>1. gen'[frame[u].id] = gen[frame[u].id]
        BY <1>3, <2>2, <3>3
      <4>2. QED
        BY <3>1, <4>1 DEF Holding, RefsLive
    <3>4. QED
      BY <3>2, <3>3
  <2>3. QED
    BY <2>1, <2>2
<1>6. FileExclusion'
  BY <1>1 DEF LockInv, FileExclusion
<1>7. QED
  BY <1>1, <1>4, <1>5, <1>6 DEF LockInv

LEMMA NextLockInv ==
  ASSUME TypeInv, NameInv, LockInv, [Next]_vars
  PROVE  LockInv'
<1>1. CASE UNCHANGED vars
  BY <1>1 DEF vars, LockInv, HoldOK, Holding, RefsLive, FileExclusion
<1>2. ASSUME NEW t \in Threads, Begin(t) \/ HandlerStep(t) \/ TaskStep(t) PROVE LockInv'
  BY <1>2, QuietActions, WriteLockInv, TaskLockInv, HandlerUnlockInv, DeleteLockInv
  DEF HandlerStep, LockedStep, UnlinkStep
<1>3. CASE CrashAndMount
  BY <1>3 DEF CrashAndMount, LockInv, Holding, RefsLive, FileExclusion, Exclusive, NoTasks, NoTask
<1>4. QED
  BY <1>1, <1>2, <1>3 DEF Next

\* The inductive invariant of file_lock and its users: who holds or is about to lock a mutex is at a place
\* in its handler where it should, the mutex is the one that is in g_file_locks for its file, and a handler
\* that writes, cuts or removes chunks holds it alone.
THEOREM LockInvariant == ReuseIds = FALSE /\ Spec => [](TypeInv /\ NameInv /\ LockInv)
<1> SUFFICES ASSUME ReuseIds = FALSE PROVE Spec => [](TypeInv /\ NameInv /\ LockInv)
  OBVIOUS
<1>1. Init => TypeInv /\ NameInv /\ LockInv
  BY InitTypeInv, InitNameInv, InitLockInv
<1>2. TypeInv /\ NameInv /\ LockInv /\ [Next]_vars => (TypeInv /\ NameInv /\ LockInv)'
  BY NextTypeInv, NextNameInv, NextLockInv
<1>3. QED
  BY <1>1, <1>2, PTL DEF Spec

\* The per-file locks exclude: a writer of a file is alone with it, for any number of threads, files and
\* requests, also after its mutex was deleted and the name created again, and beside the unlink of a hidden
\* name - as long as no create takes an id before the unlink of its last name has deleted the mutex
\* (fuse_ops.cpp:211). The code does not keep create from that; FuseHidden shows what happens then.
THEOREM LocksExclude == ReuseIds = FALSE /\ Spec => []FileExclusion
<1>1. LockInv => FileExclusion
  BY DEF LockInv
<1>2. QED
  BY <1>1, LockInvariant, PTL

\* cfs_unlink deletes a mutex only when no handler and no pool task holds it, waits for it or has
\* fetched it with file_lock, under the same condition on create: the other requests of the id's last name
\* are over by then, and no other name leads to it. Without the condition it is false (FuseHidden).
THEOREM MutexesLive == ReuseIds = FALSE /\ Spec => []LocksLive
<1>1. LockInv => LocksLive
  BY DEF LockInv, HoldOK, RefsLive, LocksLive
<1>2. QED
  BY <1>1, LockInvariant, PTL

-----------------------------------------------------------------------------
(* Index, metadata and chunk files until a crash.                              *)

\* Every path reads back from a .meta file as one word does.
PathsReadBack == \A p \in Paths : Words[p] % 2 = 1

\* cfs_chmod takes no lock: it does not overlap with a write or a truncate of its file.
ChmodApart ==
  \A t, u \in Threads :
    pc[t] \in ChmodLabels /\ pc[u] # "idle" /\ frame[u].req.op \in {"write", "truncate"}
      => frame[t].id # frame[u].id

-----------------------------------------------------------------------------
(* The invariant. *)

\* Metadata m accounts for the chunk files of chunk.
Fits(m, chunk) ==
  /\ m.n <= ChunksFor(m.size)
  /\ m.comp = DiskSizes(chunk, m.n)
  /\ \A i \in ChunkIdx : i >= m.n => chunk[i] = <<>>

\* Metadata that was written by a handler for id and reads back.
Sound(m, id) == m.id = id /\ m.words % 2 = 1

Blank(id) == \A i \in ChunkIdx : chunkFile[id][i] = <<>>

\* The chunk files of id differ, or may differ, from what its stored metadata says.
Changes(t, id) ==
  \/ /\ frame[t].id = id
     /\ \/ pc[t] \in {"chunk", "unlink_meta"}
        \/ pc[t] = "save" /\ frame[t].req.op \in {"write", "truncate"}
  \/ pc[t] = "rename_erase" /\ frame[t].eid = id

\* The metadata of id is gone and its name is still there.
Removes(t, id) == \/ pc[t] = "unlink_index" /\ frame[t].id = id
                  \/ pc[t] = "rename_drop" /\ frame[t].eid = id

\* The metadata of id is there and its name is not, or not any more.
Brings(t, id) == pc[t] \in {"create_index", "rename_in"} /\ frame[t].id = id

FileOK(id) ==
  /\ Stored(id) => Sound(metaFile[id], id)
  /\ Stored(id) /\ (\A t \in Threads : ~Changes(t, id)) => Fits(metaFile[id], chunkFile[id])
  /\ (\E p \in Paths : index[p] = id) /\ (\A t \in Threads : ~Removes(t, id)) => Stored(id)
  /\ Unnamed(id) /\ (\A t \in Threads : ~Brings(t, id)) => ~Stored(id) /\ Blank(id)

\* What the local variables of a handler are worth.
LocalsOK(t) ==
  LET f == frame[t]
      chunk == chunkFile[f.id]
  IN /\ pc[t] = "create_save" => f.m = NewMeta(f.req.path, f.req.mode)
     /\ pc[t] \in {"create_index", "rename_in"} => Stored(f.id)
     /\ pc[t] = "chunk" =>
          /\ Stored(f.id) /\ Sound(f.m, f.id) /\ f.m.size = metaFile[f.id].size
          /\ f.m.n <= ChunksFor(f.m.size)
          /\ \A i \in ChunkIdx : i >= f.m.n /\ i >= f.ci => chunk[i] = <<>>
     /\ pc[t] = "trim" => Stored(f.id) /\ Sound(f.m, f.id) /\ Fits(f.m, chunk)
     /\ pc[t] = "save" =>
          /\ Stored(f.id) /\ Sound(f.m, f.id) /\ Fits(f.m, chunk)
          /\ f.req.op # "truncate" => f.m.size >= metaFile[f.id].size
          /\ f.req.op = "utimens" => f.m.size = metaFile[f.id].size
     /\ pc[t] = "unlink_chunks" => \A i \in ChunkIdx : i >= f.m.n => chunk[i] = <<>>
     /\ pc[t] = "unlink_meta" => Blank(f.id)
     /\ pc[t] = "unlink_index" => Blank(f.id) /\ ~Stored(f.id)
     /\ pc[t] \in {"rename_erase", "rename_drop"} => Blank(f.eid)
     /\ pc[t] = "rename_drop" => ~Stored(f.eid)
     /\ pc[t] \in {"rename_save", "chmod_save"} =>
          Stored(f.id) /\ Sound(f.m, f.id) /\ Fits(f.m, chunk) /\ f.m.size = metaFile[f.id].size

\* All files and all handlers.
DataOK == (\A id \in Ids : FileOK(id)) /\ (\A t \in Threads : LocalsOK(t))

\* Until a crash.
DataInv == crashes = 0 => DataOK

\* The name that a create or a rename is about to add is free, or leads to the file that the rename is
\* replacing.
FreeInv ==
  \A t \in Threads :
    /\ pc[t] \in CreateLabels => index[frame[t].req.path] = NoId
    /\ pc[t] \in {"rename_load", "rename_save", "rename_out", "rename_in"} => index[frame[t].req.to] = NoId
    /\ pc[t] \in {"rename_erase", "rename_drop"} => index[frame[t].req.to] = frame[t].eid

\* What is known before a step, also after a crash, and what only until a crash.
Orderly == ChmodApart /\ TypeInv /\ NameInv /\ LockInv /\ FreeInv
Sane == PathsReadBack /\ Orderly /\ DataOK

LEMMA StepFreeInv ==
  ASSUME TypeInv, NameInv, FreeInv, NEW t \in Threads, HandlerStep(t) \/ TaskStep(t)
  PROVE  FreeInv'
<1>0. /\ pc \in [Threads -> Labels] /\ frame \in [Threads -> Frame] /\ index \in [Paths -> Ids \cup {NoId}]
      /\ pc[t] # "idle" /\ \A u \in Threads \ {t} : pc'[u] = pc[u] /\ frame'[u] = frame[u]
      /\ pc'[t] # "idle" => frame'[t].req = frame[t].req
  BY Effects, Others DEF TypeInv, TypeOK, Stays
<1>1. HandlerOK(t) /\ frame[t].req.path \in Paths /\ frame[t].req.to \in Paths
      /\ (frame[t].req.op = "rename" => frame[t].req.path # frame[t].req.to)
  BY <1>0, InHandler, RequestsAssumption
<1>2. UNCHANGED index \/ frame[t].req.op \in NameOps
  <2>1. NameEffect(t)
    BY Effects
  <2>2. QED
    BY <1>1, <2>1 DEF NameEffect, HandlerOK, CreateLabels, UnlinkLabels, RenameLabels, NameOps
<1>3. ASSUME NEW u \in Threads \ {t}
      PROVE  /\ pc'[u] \in CreateLabels => index'[frame'[u].req.path] = NoId
             /\ pc'[u] \in {"rename_load", "rename_save", "rename_out", "rename_in"}
                  => index'[frame'[u].req.to] = NoId
             /\ pc'[u] \in {"rename_erase", "rename_drop"} => index'[frame'[u].req.to] = frame'[u].eid
  <2>1. CASE UNCHANGED index
    BY <1>0, <2>1 DEF FreeInv
  <2>2. CASE frame[t].req.op \in NameOps /\ pc[u] # "idle"
    <3>1. HandlerOK(u) /\ frame[u].req.path \in Paths /\ frame[u].req.to \in Paths
      BY <2>2, InHandler
    <3>2. CASE frame[u].req.op \notin {"create", "rename"}
      BY <1>0, <3>1, <3>2 DEF HandlerOK, CreateLabels, RenameLabels
    <3>3. CASE frame[u].req.op \in {"create", "rename"}
      <4>1. /\ frame[t].req.op = "unlink" /\ frame[u].req.path # frame[t].req.path
            /\ frame[u].req.op = "rename" => frame[u].req.to # frame[t].req.path
        BY <1>0, <2>2, <3>3, NamesApart DEF NameInv, NameOps
      <4>2. pc[t] \notin {"create_index", "rename_in", "rename_out", "rename_drop"}
        BY <1>1, <4>1 DEF HandlerOK, CreateLabels, RenameLabels
      <4>3. \A p \in Paths \ {frame[t].req.path} : index'[p] = index[p]
        BY <1>0, <4>2, Effects DEF NameEffect, IndexRemove, IndexSet, Mapped
      <4>4. pc[u] \in CreateLabels \/ frame[u].req.op = "rename"
        BY <3>1, <3>3 DEF HandlerOK
      <4>5. CASE frame[u].req.op = "create"
        BY <1>0, <3>1, <4>1, <4>3, <4>5 DEF FreeInv, HandlerOK, CreateLabels
      <4>6. CASE frame[u].req.op = "rename"
        BY <1>0, <3>1, <4>1, <4>3, <4>6 DEF FreeInv, HandlerOK, CreateLabels
      <4>7. QED
        BY <3>3, <4>5, <4>6
    <3>4. QED
      BY <3>2, <3>3
  <2>3. CASE pc[u] = "idle"
    BY <1>0, <2>3 DEF CreateLabels
  <2>4. QED
    BY <1>2, <2>1, <2>2, <2>3
<1>4. pc'[t] \in CreateLabels => index'[frame'[t].req.path] = NoId
  <2>1. pc'[t] \in CreateLabels => frame[t].req.op = "create"
    <3>1. TypeInv'
      BY FileStepsTypeInv, WriteLockTypeInv, WriteChunkTypeInv, TrimTypeInv,
         ReadLoadTypeInv, ReadReplyTypeInv, TaskTypeInv DEF HandlerStep, ReadStep, LockedStep
    <3>2. pc'[t] # "idle" => HandlerOK(t)'
      BY <3>1 DEF TypeInv, HandlersOK
    <3>3. QED
      BY <1>0, <3>2 DEF HandlerOK, CreateLabels
  <2>2. ASSUME pc'[t] \in CreateLabels PROVE UNCHANGED index
    BY <1>1, <2>1, <2>2, Effects DEF NameEffect, CreateLabels, Nameless
  <2>3. ASSUME pc'[t] \in CreateLabels PROVE pc[t] \in CreateLabels
    BY <1>1, <2>1, <2>3 DEF HandlerOK
  <2>4. QED
    BY <1>0, <2>2, <2>3 DEF FreeInv, CreateLabels
<1>5. pc'[t] \in {"rename_load", "rename_save", "rename_out", "rename_in"} => index'[frame'[t].req.to] = NoId
  <2>1. SUFFICES ASSUME pc'[t] \in {"rename_load", "rename_save", "rename_out", "rename_in"}
                 PROVE  index'[frame[t].req.to] = NoId
    BY <1>0
  <2>2. RenameStep(t)
    <3>1. CASE FileLock(t) \/ ReadStep(t) \/ CreateStep(t) \/ UnlinkStep(t) \/ ChmodStep(t)
      BY <1>0, <2>1, <3>1 DEF FileLock, ReadStep, ReadLoad, ReadReply, CreateStep, CreateSave, CreateIndex,
         UnlinkStep, UnlinkChunks, UnlinkMeta, UnlinkIndex, UnlinkLock, ChmodStep, ChmodLoad, ChmodSave, Goto, Finish
    <3>2. CASE LockedStep(t) \/ TaskStep(t)
      <4>1. TypeInv'
        BY <3>2, WriteLockTypeInv, WriteChunkTypeInv, TrimTypeInv, TaskTypeInv, FileStepsTypeInv DEF LockedStep
      <4>2. HandlerOK(t)' /\ frame[t].req.op = "rename" /\ pc[t] \in RenameLabels
        BY <1>0, <1>1, <2>1, <4>1, SMTT(30) DEF TypeInv, HandlersOK, HandlerOK, RenameLabels
      <4>3. UNCHANGED pc
        BY <3>2, <4>2, ZenonT(60) DEF LockedStep, WriteLock, WriteChunk, Trim, SaveMeta, RenameLabels,
           TaskStep, TaskStart, TaskLock, TaskRead
      <4>4. TaskStep(t)
        BY <3>2, <4>2 DEF LockedStep, WriteLock, WriteChunk, Trim, SaveMeta, RenameLabels
      <4>5. \E ci \in ChunkIdx : task[t][ci].st # "none"
        BY <4>4 DEF TaskStep, TaskStart, TaskLock, TaskRead
      <4>6. QED
        BY <4>2, <4>5 DEF TypeInv, HandlersOK, RenameLabels
    <3>3. QED
      BY <3>1, <3>2 DEF HandlerStep
  <2>3. CASE RenameVictim(t)
    BY <1>0, <2>1, <2>3 DEF RenameVictim, Goto
  <2>4. CASE RenameErase(t)
    BY <1>0, <2>1, <2>4 DEF RenameErase, Goto
  <2>5. CASE RenameDrop(t)
    BY <1>0, <1>1, <2>5 DEF RenameDrop, IndexRemove, IndexSet, Mapped
  <2>6. CASE RenameLoad(t) \/ RenameSave(t)
    BY <2>6 DEF RenameLoad, RenameSave, FreeInv
  <2>7. CASE RenameOut(t)
    <3>1. index' = [index EXCEPT ![frame[t].req.path] = NoId] /\ pc[t] = "rename_out"
      BY <2>7 DEF RenameOut, IndexRemove, IndexSet, Mapped
    <3>2. QED
      BY <1>0, <1>1, <3>1 DEF FreeInv
  <2>8. CASE RenameIn(t)
    BY <1>0, <2>1, <2>8 DEF RenameIn, Finish, Goto
  <2>9. QED
    BY <2>2, <2>3, <2>4, <2>5, <2>6, <2>7, <2>8 DEF RenameStep
<1>6. pc'[t] \in {"rename_erase", "rename_drop"} => index'[frame'[t].req.to] = frame'[t].eid
  <2>1. SUFFICES ASSUME pc'[t] \in {"rename_erase", "rename_drop"}
                 PROVE  index'[frame'[t].req.to] = frame'[t].eid
    OBVIOUS
  <2>2. frame[t].req.op = "rename" /\ pc[t] \in RenameLabels
    <3>1. TypeInv'
      BY FileStepsTypeInv, WriteLockTypeInv, WriteChunkTypeInv, TrimTypeInv,
         ReadLoadTypeInv, ReadReplyTypeInv, TaskTypeInv DEF HandlerStep, ReadStep, LockedStep
    <3>2. HandlerOK(t)'
      BY <2>1, <3>1 DEF TypeInv, HandlersOK
    <3>3. QED
      BY <1>0, <1>1, <2>1, <3>2 DEF HandlerOK, RenameLabels
  <2>3. RenameStep(t) \/ TaskStep(t)
    BY <2>2 DEF HandlerStep, FileLock, ReadStep, ReadLoad, ReadReply, CreateStep, CreateSave, CreateIndex,
       LockedStep, WriteLock, WriteChunk, Trim, SaveMeta, UnlinkStep, UnlinkChunks, UnlinkMeta, UnlinkIndex, UnlinkLock,
       ChmodStep, ChmodLoad, ChmodSave, RenameLabels
  <2>4. CASE TaskStep(t)
    <3>1. \E ci \in ChunkIdx : task[t][ci].st # "none"
      BY <2>4 DEF TaskStep, TaskStart, TaskLock, TaskRead
    <3>2. QED
      BY <2>2, <3>1, SMTT(30) DEF TypeInv, HandlersOK, RenameLabels
  <2>5. CASE RenameVictim(t)
    BY <1>0, <2>1, <2>5 DEF RenameVictim, Goto, Frame
  <2>6. CASE RenameErase(t)
    BY <1>0, <2>6 DEF RenameErase, FreeInv
  <2>7. CASE RenameDrop(t) \/ RenameLoad(t) \/ RenameSave(t) \/ RenameOut(t) \/ RenameIn(t)
    BY <1>0, <2>1, <2>7, SMTT(30) DEF RenameDrop, RenameLoad, RenameSave, RenameOut, RenameIn, Goto, Finish
  <2>8. QED
    BY <2>3, <2>4, <2>5, <2>6, <2>7 DEF RenameStep
<1>7. QED
  BY <1>3, <1>4, <1>5, <1>6 DEF FreeInv

LEMMA NextFreeInv ==
  ASSUME TypeInv, NameInv, FreeInv, [Next]_vars
  PROVE  FreeInv'
<1>1. CASE UNCHANGED vars
  BY <1>1 DEF vars, FreeInv
<1>2. ASSUME NEW t \in Threads, Begin(t) PROVE FreeInv'
  <2>1. PICK r \in Requests :
          \/ pc'[t] = "idle"
          \/ /\ frame'[t].req = r /\ (index[r.path] = NoId <=> r.op = "create")
             /\ pc'[t] \in {"create_save", "rename_victim", "chmod_load", "lock"}
    BY <1>2, BeginEnters
  <2>2. pc'[t] # "idle" => HandlerOK(t)'
    BY <1>2, BeginTypeInv DEF TypeInv, HandlersOK
  <2>3. UNCHANGED index /\ \A u \in Threads \ {t} : pc'[u] = pc[u] /\ frame'[u] = frame[u]
    BY <1>2, BeginEnters
  <2>4. pc'[t] \in CreateLabels => index'[frame'[t].req.path] = NoId
    BY <2>1, <2>2, <2>3 DEF HandlerOK, CreateLabels
  <2>5. pc'[t] \notin {"rename_load", "rename_save", "rename_out", "rename_in", "rename_erase", "rename_drop"}
    BY <2>1
  <2>6. QED
    BY <2>3, <2>4, <2>5 DEF FreeInv
<1>3. CASE CrashAndMount
  BY <1>3 DEF CrashAndMount, FreeInv, CreateLabels
<1>4. QED
  BY <1>1, <1>2, <1>3, StepFreeInv DEF Next

-----------------------------------------------------------------------------
(* Who else knows anything of a file.                                          *)

\* Places at which the local variables are about the files on disk.
Knows == {"create_index", "chunk", "trim", "save", "unlink_chunks", "unlink_meta", "unlink_index",
          "rename_erase", "rename_drop", "rename_save", "rename_in", "chmod_save"}

Replaces(u, id) == pc[u] \in {"rename_erase", "rename_drop"} /\ frame[u].eid = id

\* No other handler knows anything of id.
Private(t, id) == \A u \in Threads \ {t} : pc[u] \in Knows => frame[u].id # id /\ ~Replaces(u, id)

\* No other handler works for id.
Sole(t, id) == \A u \in Threads \ {t} : pc[u] # "idle" => frame[u].id # id /\ ~Replaces(u, id)

LEMMA SolePrivate ==
  ASSUME NEW t, NEW id, Sole(t, id)
  PROVE  Private(t, id)
BY DEF Sole, Private, Knows

LEMMA NameOpSole ==
  ASSUME Orderly, NEW t \in Threads, pc[t] # "idle", frame[t].req.op \in NameOps
  PROVE  /\ Sole(t, frame[t].id)
         /\ frame[t].req.op = "rename" /\ index[frame[t].req.to] # NoId => Sole(t, index[frame[t].req.to])
<1> SUFFICES ASSUME NEW u \in Threads \ {t}, pc[u] # "idle"
             PROVE  /\ frame[u].id # frame[t].id /\ ~Replaces(u, frame[t].id)
                    /\ frame[t].req.op = "rename" /\ index[frame[t].req.to] # NoId
                         => frame[u].id # index[frame[t].req.to] /\ ~Replaces(u, index[frame[t].req.to])
  BY DEF Sole
<1>1. TypeInv /\ NameInv /\ RequestsApart /\ NamesDistinct /\ FreeInv
  BY DEF Orderly, NameInv
<1>2. /\ frame[u].req.op \in NameOps => frame[t].req.op = "unlink" \/ frame[u].req.op = "unlink"
      /\ frame[u].req.path # frame[t].req.path
      /\ frame[t].req.op = "rename" => frame[u].req.path # frame[t].req.to
      /\ frame[u].req.op = "rename" => frame[u].req.to # frame[t].req.path
  BY <1>1, NamesApart
<1>3. /\ HandlerOK(u) /\ Placed(u) /\ frame[u].req.path \in Paths /\ frame[u].req.to \in Paths /\ frame[u].id \in Ids
      /\ Placed(t) /\ frame[t].req.path \in Paths /\ frame[t].req.to \in Paths /\ frame[t].id \in Ids
  BY <1>1, InHandler DEF NameInv
<1>4. frame[u].id # frame[t].id
  BY <1>1, IdsApart
<1>5. pc[u] \in {"rename_erase", "rename_drop"} =>
        frame[u].req.op = "rename" /\ frame[u].eid \in Ids /\ index[frame[u].req.to] = frame[u].eid
  BY <1>1, <1>3 DEF HandlerOK, RenameLabels, FreeInv
<1>6. ~Replaces(u, frame[t].id)
  <2>1. Unnamed(frame[t].id) \/ index[frame[t].req.path] = frame[t].id
    BY <1>3 DEF Placed
  <2>2. QED
    BY <1>1, <1>2, <1>3, <1>5, <2>1, NoIdAssumption DEF Replaces, Unnamed, NamesDistinct
<1>7. ASSUME frame[t].req.op = "rename", index[frame[t].req.to] # NoId
      PROVE  frame[u].id # index[frame[t].req.to] /\ ~Replaces(u, index[frame[t].req.to])
  <2>1. Unnamed(frame[u].id) \/ index[frame[u].req.path] = frame[u].id
    BY <1>3 DEF Placed
  <2>2. frame[u].id # index[frame[t].req.to]
    BY <1>1, <1>2, <1>3, <1>7, <2>1 DEF Unnamed, NamesDistinct
  <2>3. frame[u].req.op # "rename"
    BY <1>2, <1>7 DEF NameOps
  <2>4. QED
    BY <1>5, <2>2, <2>3 DEF Replaces
<1>8. QED
  BY <1>4, <1>6, <1>7

\* A handler that is about to write, cut or remove chunks is alone with its file, but
\* for those that have not locked it and those that only list or read it.
LEMMA HolderPrivate ==
  ASSUME Orderly, NEW t \in Threads, pc[t] \in Exclusive, frame[t].req.op \in {"write", "truncate", "unlink"}
  PROVE  Private(t, frame[t].id)
<1>1. TypeInv /\ NameInv /\ LockInv /\ pc[t] # "idle"
  BY DEF Sane, Orderly, Exclusive
<1>2. CASE frame[t].req.op = "unlink"
  BY <1>1, <1>2, NameOpSole, SolePrivate DEF NameOps
<1>3. ASSUME frame[t].req.op \in {"write", "truncate"}, NEW u \in Threads \ {t}, pc[u] \in Knows
      PROVE  frame[u].id # frame[t].id /\ ~Replaces(u, frame[t].id)
  <2>1. HandlerOK(u) /\ pc[u] # "idle"
    BY <1>1, <1>3, InHandler DEF Knows
  <2>2. CASE frame[u].req.op \in NameOps
    <3>1. Sole(u, frame[u].id) /\ (frame[u].req.op = "rename" /\ index[frame[u].req.to] # NoId
                                     => Sole(u, index[frame[u].req.to]))
      BY <2>1, <2>2, NameOpSole
    <3>2. pc[u] \in {"rename_erase", "rename_drop"} =>
             frame[u].req.op = "rename" /\ index[frame[u].req.to] = frame[u].eid /\ frame[u].eid \in Ids
      BY <2>1 DEF HandlerOK, RenameLabels, Orderly, FreeInv
    <3>3. QED
      BY <1>1, <3>1, <3>2, NoIdAssumption DEF Sole, Replaces
  <2>3. CASE frame[u].req.op \notin NameOps
    <3>1. pc[u] \in {"chunk", "trim", "save", "chmod_save"}
      BY <1>3, <2>1, <2>3 DEF HandlerOK, NameOps, Knows, CreateLabels, RenameLabels, UnlinkLabels
    <3>2. CASE pc[u] = "chmod_save"
      BY <1>1, <1>3, <3>2 DEF Sane, Orderly, ChmodApart, ChmodLabels, Replaces
    <3>3. CASE pc[u] \in Exclusive
      <4>1. PICK h : h = Locks!HoldOf(frame[t].id, gen[frame[t].id], t, Handler, FALSE)
        OBVIOUS
      <4>2. PICK k : k = Locks!HoldOf(frame[u].id, gen[frame[u].id], u, Handler, FALSE)
        OBVIOUS
      <4>3. h \in holds /\ k \in holds
        BY <1>1, <3>3, <4>1, <4>2 DEF LockInv, Holding
      <4>4. h.id = frame[t].id /\ h.thread = t /\ ~h.shared /\ k.id = frame[u].id /\ k.thread = u
        BY <4>1, <4>2 DEF Locks!HoldOf
      <4>5. frame[u].id # frame[t].id
        BY <1>1, <4>3, <4>4 DEF LockInv, FileExclusion
      <4>6. QED
        BY <3>1, <4>5 DEF Replaces
    <3>4. QED
      BY <3>1, <3>2, <3>3 DEF Exclusive
  <2>4. QED
    BY <2>2, <2>3
<1>4. QED
  BY <1>2, <1>3 DEF Private

-----------------------------------------------------------------------------
(* What a step leaves alone.                                                   *)

OthersStay(t) == \A u \in Threads \ {t} : pc'[u] = pc[u] /\ frame'[u] = frame[u]

\* As far as handlers know, id is as it was.
SameToOthers(id) ==
  /\ chunkFile'[id] = chunkFile[id]
  /\ Stored(id)' <=> Stored(id)
  /\ Stored(id) => metaFile'[id].size = metaFile[id].size

LEMMA OthersKnow ==
  ASSUME Sane, NEW t \in Threads, OthersStay(t),
         UNCHANGED index \/ (pc[t] # "idle" /\ frame[t].req.op \in NameOps),
         NEW x, Private(t, x), \A id \in Ids \ {x} : SameToOthers(id)
  PROVE  \A u \in Threads \ {t} : LocalsOK(u)'
<1> SUFFICES ASSUME NEW u \in Threads \ {t} PROVE LocalsOK(u)'
  OBVIOUS
<1>1. pc'[u] = pc[u] /\ frame'[u] = frame[u] /\ LocalsOK(u) /\ TypeInv
  BY DEF OthersStay, Sane, Orderly, DataOK
<1>2. CASE pc[u] \notin Knows
  BY <1>1, <1>2 DEF LocalsOK, Knows
<1>3. CASE pc[u] \in Knows
  <2>1. HandlerOK(u) /\ frame[u].id \in Ids \ {x} /\ pc[u] # "idle"
    BY <1>1, <1>3, InHandler DEF Private, Knows
  <2>2. SameToOthers(frame[u].id)
    BY <2>1
  <2>3. CASE pc[u] \in {"rename_erase", "rename_drop"}
    <3>1. frame[u].eid \in Ids \ {x} /\ frame[u].req.op = "rename"
      BY <1>3, <2>1, <2>3 DEF HandlerOK, Private, Replaces, RenameLabels
    <3>2. SameToOthers(frame[u].eid)
      BY <3>1
    <3>3. QED
      BY <1>1, <2>3, <3>2 DEF LocalsOK, SameToOthers, Blank
  <2>4. CASE pc[u] \notin {"rename_erase", "rename_drop"}
    BY <1>1, <2>2, <2>4 DEF LocalsOK, SameToOthers, Blank, Fits
  <2>5. QED
    BY <2>3, <2>4
<1>4. QED
  BY <1>2, <1>3

\* A step that changes no file on disk.
LEMMA OthersKnowQuiet ==
  ASSUME Sane, NEW t \in Threads, OthersStay(t),
         UNCHANGED index \/ (pc[t] # "idle" /\ frame[t].req.op \in NameOps),
         UNCHANGED <<metaFile, chunkFile>>
  PROVE  \A u \in Threads \ {t} : LocalsOK(u)'
<1>1. Private(t, NoId)
  <2> SUFFICES ASSUME NEW u \in Threads \ {t}, pc[u] \in Knows
               PROVE  frame[u].id # NoId /\ ~Replaces(u, NoId)
    BY DEF Private
  <2>1. HandlerOK(u)
    BY InHandler DEF Knows, Sane, Orderly
  <2>2. QED
    BY <2>1, NoIdAssumption DEF HandlerOK, Replaces
<1>2. \A id \in Ids : SameToOthers(id)
  BY DEF SameToOthers, Stored
<1>3. QED
  BY <1>1, <1>2, OthersKnow

\* A file that a step of t does not change stays what it was.
LEMMA FileKept ==
  ASSUME NEW t \in Threads, OthersStay(t), NEW id \in Ids, FileOK(id),
         metaFile'[id] = metaFile[id], chunkFile'[id] = chunkFile[id],
         Changes(t, id) => Changes(t, id)',
         (\E p \in Paths : index'[p] = id) /\ ~Removes(t, id)'
           => Stored(id) \/ ((\E p \in Paths : index[p] = id) /\ ~Removes(t, id)),
         Unnamed(id)' /\ ~Brings(t, id)'
           => (~Stored(id) /\ Blank(id)) \/ (Unnamed(id) /\ ~Brings(t, id))
  PROVE  FileOK(id)'
<1>1. /\ Stored(id)' <=> Stored(id)
      /\ Blank(id)' <=> Blank(id)
  BY DEF Stored, Blank
<1>2. ASSUME NEW u \in Threads \ {t}
      PROVE  /\ Changes(u, id)' <=> Changes(u, id)
             /\ Removes(u, id)' <=> Removes(u, id)
             /\ Brings(u, id)' <=> Brings(u, id)
  BY DEF OthersStay, Changes, Removes, Brings
<1>3. Stored(id)' => Sound(metaFile'[id], id)
  BY <1>1 DEF FileOK
<1>4. Stored(id)' /\ (\A u \in Threads : ~Changes(u, id)') => Fits(metaFile'[id], chunkFile'[id])
  <2>1. (\A u \in Threads : ~Changes(u, id)') => (\A u \in Threads : ~Changes(u, id))
    BY <1>2
  <2>2. QED
    BY <1>1, <2>1 DEF FileOK
<1>5. (\E p \in Paths : index'[p] = id) /\ (\A u \in Threads : ~Removes(u, id)') => Stored(id)'
  <2>1. (\A u \in Threads : ~Removes(u, id)') /\ ~Removes(t, id) => (\A u \in Threads : ~Removes(u, id))
    BY <1>2
  <2>2. QED
    BY <1>1, <2>1 DEF FileOK
<1>6. Unnamed(id)' /\ (\A u \in Threads : ~Brings(u, id)') => ~Stored(id)' /\ Blank(id)'
  <2>1. (\A u \in Threads : ~Brings(u, id)') /\ ~Brings(t, id) => (\A u \in Threads : ~Brings(u, id))
    BY <1>2
  <2>2. QED
    BY <1>1, <2>1 DEF FileOK
<1>7. QED
  BY <1>3, <1>4, <1>5, <1>6 DEF FileOK

Kept(t, id) ==
  /\ metaFile'[id] = metaFile[id] /\ chunkFile'[id] = chunkFile[id]
  /\ Changes(t, id) => Changes(t, id)'
  /\ (\E p \in Paths : index'[p] = id) /\ ~Removes(t, id)'
       => Stored(id) \/ ((\E p \in Paths : index[p] = id) /\ ~Removes(t, id))
  /\ Unnamed(id)' /\ ~Brings(t, id)'
       => (~Stored(id) /\ Blank(id)) \/ (Unnamed(id) /\ ~Brings(t, id))

\* A step of t that changes what is stored for x and for no other file.
LEMMA DataStep ==
  ASSUME Sane, NEW t \in Threads, OthersStay(t),
         UNCHANGED index \/ (pc[t] # "idle" /\ frame[t].req.op \in NameOps),
         NEW x \in Ids, Private(t, x), \A id \in Ids \ {x} : Kept(t, id),
         FileOK(x)', LocalsOK(t)'
  PROVE  DataOK'
<1>1. ASSUME NEW id \in Ids \ {x} PROVE FileOK(id)' /\ SameToOthers(id)
  <2>1. FileOK(id) /\ Kept(t, id)
    BY DEF Sane, Orderly, DataOK
  <2>2. FileOK(id)'
    BY <2>1, FileKept DEF Kept
  <2>3. QED
    BY <2>1, <2>2 DEF Kept, SameToOthers, Stored
<1>2. \A u \in Threads \ {t} : LocalsOK(u)'
  BY <1>1, OthersKnow
<1>3. QED
  BY <1>1, <1>2 DEF DataOK

\* Places from which a step takes no file into or out of a change.
Aside == {"idle", "lock", "acquire", "tasks", "unlink_lock", "chmod_load", "rename_load", "rename_victim"}

LEMMA AsideDoesNot ==
  ASSUME NEW t, NEW id, pc[t] \in Aside
  PROVE  ~Changes(t, id) /\ ~Removes(t, id) /\ ~Brings(t, id)
BY DEF Aside, Changes, Removes, Brings

LEMMA AsideStep ==
  ASSUME Sane, NEW t \in Threads, OthersStay(t), pc[t] \in Aside,
         UNCHANGED <<index, metaFile, chunkFile>>, LocalsOK(t)'
  PROVE  DataOK'
<1>1. ASSUME NEW id \in Ids PROVE FileOK(id)'
  <2>1. FileOK(id)
    BY DEF Sane, Orderly, DataOK
  <2>2. ~Changes(t, id) /\ ~Removes(t, id) /\ ~Brings(t, id)
    BY AsideDoesNot
  <2>3. Unnamed(id)' <=> Unnamed(id)
    BY DEF Unnamed
  <2>4. QED
    BY <2>1, <2>2, <2>3, FileKept
<1>2. QED
  BY <1>1, OthersKnowQuiet DEF DataOK

\* Steps after which the local variables say nothing of the files.
LEMMA NothingKnown ==
  ASSUME NEW t, pc'[t] \notin Knows \cup {"create_save"}
  PROVE  LocalsOK(t)'
BY DEF LocalsOK, Knows

-----------------------------------------------------------------------------
(* What the stored metadata says when a handler loads it.                      *)

LEMMA LoadFits ==
  ASSUME Sane, NEW id \in Ids, Stored(id)
  PROVE  /\ Load(id).id = id /\ Load(id).words % 2 = 1 /\ Load(id).n = metaFile[id].n
         /\ Load(id).size = metaFile[id].size /\ Load(id).comp = metaFile[id].comp
         /\ (\A t \in Threads : ~Changes(t, id)) => Fits(Load(id), chunkFile[id])
<1>1. metaFile[id] \in FileMeta /\ Sound(metaFile[id], id) /\ FileOK(id)
  BY Others DEF Sane, Orderly, DataOK, FileOK, Stored
<1>2. Load(id) = [metaFile[id] EXCEPT !.words = 1]
  BY <1>1 DEF Load, Parse, Sound
<1>3. QED
  BY <1>1, <1>2 DEF FileMeta, Sound, FileOK, Fits

\* Nobody else is changing a file whose lock t can take exclusively.
LEMMA LockableUnchanged ==
  ASSUME Orderly, NEW t \in Threads, pc[t] = "acquire", Locks!CanLock(frame[t].id, frame[t].lk),
         NEW u \in Threads
  PROVE  ~Changes(u, frame[t].id)
<1>1. TypeInv /\ NameInv /\ LockInv /\ HandlerOK(t) /\ Placed(t)
  BY InHandler DEF Sane, Orderly, NameInv
<1>2. CASE pc[u] \in Exclusive
  <2>1. PICK h : h = Locks!HoldOf(frame[u].id, gen[frame[u].id], u, Handler, FALSE)
    OBVIOUS
  <2>2. h \in holds /\ h.id = frame[u].id /\ h.gen = gen[frame[u].id]
    BY <1>1, <1>2, <2>1 DEF LockInv, Holding, Locks!HoldOf
  <2>3. frame[t].lk = gen[frame[t].id]
    BY <1>1 DEF LockInv, RefsLive
  <2>4. frame[u].id # frame[t].id
    BY <2>2, <2>3 DEF Locks!CanLock, Locks!Holders
  <2>5. QED
    BY <1>2, <2>4 DEF Changes, Exclusive
<1>3. CASE pc[u] = "rename_erase"
  <2>1. u # t /\ pc[u] # "idle" /\ frame[u].req.op = "rename"
        /\ index[frame[u].req.to] = frame[u].eid /\ frame[u].eid \in Ids
    BY <1>1, <1>3, InHandler DEF HandlerOK, RenameLabels, Orderly, FreeInv
  <2>2. Sole(u, frame[u].eid)
    BY <2>1, NameOpSole, NoIdAssumption DEF NameOps
  <2>3. QED
    BY <1>3, <2>1, <2>2 DEF Sole, Changes
<1>4. QED
  BY <1>2, <1>3 DEF Changes, Exclusive

\* A name of which no deletion is under way leads to a file that is stored.
LEMMA NamedStored ==
  ASSUME Sane, NEW t \in Threads, frame[t].req.op \in NameOps, pc[t] # "idle",
         NEW p \in Paths, index[p] # NoId, pc[t] \notin {"unlink_index", "rename_drop"},
         p = frame[t].req.path \/ (frame[t].req.op = "rename" /\ p = frame[t].req.to)
  PROVE  Stored(index[p])
<1>1. ASSUME NEW u \in Threads PROVE ~Removes(u, index[p])
  <2>1. CASE u = t
    BY <2>1 DEF Removes
  <2>2. CASE u # t
    <3>1. SUFFICES ASSUME pc[u] \in {"unlink_index", "rename_drop"} PROVE ~Removes(u, index[p])
      BY DEF Removes
    <3>2. /\ HandlerOK(u) /\ Placed(u) /\ frame[u].req.path \in Paths /\ frame[u].req.to \in Paths
          /\ TypeInv /\ RequestsApart /\ NamesDistinct /\ FreeInv /\ pc[u] # "idle"
      BY <3>1, InHandler DEF Sane, Orderly, NameInv
    <3>3. /\ frame[u].req.op \in NameOps => frame[t].req.op = "unlink" \/ frame[u].req.op = "unlink"
          /\ frame[u].req.path # p
          /\ frame[u].req.op = "rename" => frame[u].req.to # frame[t].req.path
      BY <2>2, <3>2, NamesApart
    <3>4. CASE pc[u] = "unlink_index"
      <4>1. index[frame[u].req.path] = frame[u].id
        BY <3>2, <3>4 DEF HandlerOK, UnlinkLabels, Placed
      <4>2. QED
        BY <3>2, <3>3, <3>4, <4>1 DEF NamesDistinct, Removes
    <3>5. CASE pc[u] = "rename_drop"
      <4>1. index[frame[u].req.to] = frame[u].eid /\ frame[u].req.op = "rename"
        BY <3>2, <3>5 DEF HandlerOK, RenameLabels, FreeInv
      <4>2. frame[u].req.to # p
        BY <3>3, <4>1 DEF NameOps
      <4>3. QED
        BY <3>2, <3>5, <4>1, <4>2 DEF NamesDistinct, Removes
    <3>6. QED
      BY <3>1, <3>4, <3>5
  <2>3. QED
    BY <2>1, <2>2
<1>2. index[p] \in Ids
  BY Others DEF Sane, Orderly
<1>3. QED
  BY <1>1, <1>2 DEF Sane, Orderly, DataOK, FileOK

\* Nobody else is changing a file for which t alone works.
LEMMA SoleUnchanged ==
  ASSUME NEW t, NEW id, Sole(t, id), NEW u \in Threads \ {t}
  PROVE  ~Changes(u, id) /\ ~Removes(u, id) /\ ~Brings(u, id)
BY DEF Sole, Changes, Removes, Brings, Replaces

-----------------------------------------------------------------------------
\* The files of the first mount have no chunk files beyond what was written to them.
LEMMA InitChunksEnd ==
  ASSUME NEW i \in ChunkIdx, i >= ChunksFor(Len(InitBytes))
  PROVE  InitChunks[i] = <<>>
<1>0. Len(InitBytes) \in 0 .. MaxSize
  BY InitAssumption, MaxSizeNat
<1>1. PICK len \in Nat : len = Len(InitBytes)
  BY InitAssumption
<1>2. i \in Nat /\ ChunksFor(len) \in Nat
  BY <1>0, <1>1, ChunkIdxNat, ChunksForType
<1>3. len <= i * ChunkSize
  <2>1. len + ChunkSize - 1 \in Nat /\ i + 1 \in Nat
    BY <1>2, ChunkSizeAssumption
  <2>2. CASE (i + 1) * ChunkSize <= len + ChunkSize - 1
    <3>1. i + 1 <= ChunksFor(len)
      BY <2>1, <2>2, ChunkSizeAssumption, DivNotBelow DEF ChunksFor
    <3>2. QED
      BY <1>1, <1>2, <3>1
  <2>3. CASE ~((i + 1) * ChunkSize <= len + ChunkSize - 1)
    BY <1>2, <2>3, ChunkSizeAssumption
  <2>4. QED
    BY <2>2, <2>3
<1>4. i * ChunkSize \in Nat /\ Least((i + 1) * ChunkSize, len) = len
  BY <1>2, <1>3, ChunkSizeAssumption DEF Least
<1>5. InitChunk(i) = SubSeq(InitBytes, i * ChunkSize + 1, len)
  BY <1>1, <1>4 DEF InitChunk
<1>6. \A j, k \in Nat : k < j => SubSeq(InitBytes, j, k) = <<>>
  BY InitAssumption
<1>7. InitChunk(i) = <<>>
  <2> HIDE DEF InitChunk
  <2>1. \A j \in Nat : len < j + 1
          => SubSeq(InitBytes, j + 1, len) = <<>>
    BY <1>6
  <2>2. QED
    BY <1>3, <1>4, <1>5, <2>1
<1>8. QED
  BY <1>7 DEF InitChunks

LEMMA InitData == PathsReadBack /\ Init => DataOK
<1> SUFFICES ASSUME PathsReadBack, Init PROVE DataOK
  OBVIOUS
<1>1. ASSUME NEW id \in Ids PROVE FileOK(id)
  <2>1. CASE \E p \in InitFiles : HashOf[p] = id
    <3>1. PICK q : q = CHOOSE p \in InitFiles : HashOf[p] = id
      OBVIOUS
    <3>2. q \in InitFiles /\ HashOf[q] = id /\ q \in Paths
      BY <2>1, <3>1, InitAssumption
    <3>3. metaFile[id] = InitMeta(q) /\ chunkFile[id] = InitChunks
      BY <2>1, <3>1 DEF Init
    <3>4. /\ InitMeta(q).id = id /\ InitMeta(q).words = Words[q] /\ InitMeta(q).size = InitSize
          /\ InitMeta(q).n = ChunksFor(Len(InitBytes))
          /\ InitMeta(q).comp = DiskSizes(InitChunks, ChunksFor(Len(InitBytes)))
      BY <3>2 DEF InitMeta, NewMeta, DefaultMeta
    <3>5. Len(InitBytes) \in 0 .. MaxSize /\ InitSize \in 0 .. MaxSize /\ Len(InitBytes) <= InitSize
      BY InitAssumption, MaxSizeNat
    <3>6. ChunksFor(Len(InitBytes)) <= ChunksFor(InitSize)
      BY <3>5, ChunksForMono
    <3>7. \A i \in ChunkIdx : i >= ChunksFor(Len(InitBytes)) => InitChunks[i] = <<>>
      BY InitChunksEnd
    <3>8. Fits(InitMeta(q), InitChunks)
      BY <3>4, <3>6, <3>7 DEF Fits
    <3>9. index[q] = id
      BY <3>2 DEF Init
    <3>10. Stored(id)
      BY <3>2, <3>3, InitMetaType, NoMetaAssumption DEF Stored
    <3>11. QED
      BY <3>2, <3>3, <3>4, <3>8, <3>9, <3>10 DEF FileOK, Sound, PathsReadBack, Unnamed
  <2>2. CASE ~\E p \in InitFiles : HashOf[p] = id
    <3>1. ~Stored(id) /\ Blank(id)
      BY <2>2 DEF Init, Stored, Blank
    <3>2. Unnamed(id)
      BY <2>2, NoIdAssumption DEF Init, Unnamed
    <3>3. QED
      BY <3>1, <3>2 DEF FileOK, Unnamed
  <2>3. QED
    BY <2>1, <2>2
<1>2. \A t \in Threads : LocalsOK(t)
  BY DEF Init, LocalsOK
<1>3. QED
  BY <1>1, <1>2 DEF DataOK

-----------------------------------------------------------------------------
(* Steps that change no file on disk.                                          *)

LEMMA BeginData ==
  ASSUME Sane, NEW t \in Threads, Begin(t)
  PROVE  DataOK'
<1>0. pc[t] = "idle" /\ TypeInv
  BY DEF Sane, Orderly, Begin
<1>1. OthersStay(t) /\ UNCHANGED <<index, metaFile, chunkFile>>
  BY <1>0, BeginEnters DEF OthersStay
<1>2. \/ pc'[t] \in {"idle", "rename_victim", "chmod_load", "lock"}
      \/ /\ pc'[t] = "create_save"
         /\ frame'[t].m = NewMeta(frame'[t].req.path, frame'[t].req.mode)
  BY <1>0, BeginEnters
<1>3. LocalsOK(t)'
  <2>1. CASE pc'[t] \in {"idle", "rename_victim", "chmod_load", "lock"}
    BY <2>1, NothingKnown DEF Knows
  <2>2. CASE pc'[t] = "create_save" /\ frame'[t].m = NewMeta(frame'[t].req.path, frame'[t].req.mode)
    BY <2>2 DEF LocalsOK
  <2>3. QED
    BY <1>2, <2>1, <2>2
<1>4. QED
  BY <1>0, <1>1, <1>3, AsideStep DEF Aside

LEMMA EffectsOthers ==
  ASSUME Sane, NEW t \in Threads, HandlerStep(t) \/ TaskStep(t)
  PROVE  OthersStay(t) /\ pc[t] # "idle" /\ pc \in [Threads -> Labels] /\ frame \in [Threads -> Frame]
BY Effects DEF Sane, Orderly, Stays, OthersStay, TypeInv, TypeOK

LEMMA QuietData ==
  ASSUME Sane, NEW t \in Threads, FileLock(t) \/ ReadStep(t) \/ TaskStep(t) \/ UnlinkLock(t)
  PROVE  DataOK'
<1>0. OthersStay(t) /\ pc[t] # "idle" /\ pc \in [Threads -> Labels]
  BY EffectsOthers, SMTT(30) DEF HandlerStep, UnlinkStep
<1>1. UNCHANGED <<index, metaFile, chunkFile>>
  BY DEF FileLock, ReadStep, ReadLoad, ReadReply, TaskStep, TaskStart, TaskLock, TaskRead, UnlinkLock
<1>2. pc[t] \in Aside /\ pc'[t] \in {"acquire", "tasks", "idle"}
  <2>1. CASE TaskStep(t)
    <3>1. UNCHANGED pc /\ \E ci \in ChunkIdx : task[t][ci].st # "none"
      BY <2>1, ZenonT(40) DEF TaskStep, TaskStart, TaskLock, TaskRead
    <3>2. pc[t] = "tasks"
      BY <3>1, SMTT(30) DEF Sane, Orderly, TypeInv, HandlersOK
    <3>3. QED
      BY <3>1, <3>2, SMTT(30) DEF Aside
  <2>2. CASE FileLock(t) \/ ReadStep(t) \/ UnlinkLock(t)
    BY <1>0, <2>2 DEF FileLock, ReadStep, ReadLoad, ReadReply, UnlinkLock, Goto, Finish, Aside
  <2>3. QED
    BY <2>1, <2>2
<1>3. LocalsOK(t)'
  BY <1>2, NothingKnown DEF Knows
<1>4. QED
  BY <1>0, <1>1, <1>2, <1>3, AsideStep, SMTT(30)

LEMMA WriteLockData ==
  ASSUME Sane, NEW t \in Threads, WriteLock(t)
  PROVE  DataOK'
<1> PICK f : f = frame[t]
  OBVIOUS
<1>0. OthersStay(t) /\ pc[t] # "idle" /\ pc \in [Threads -> Labels] /\ frame \in [Threads -> Frame]
  BY EffectsOthers DEF HandlerStep, LockedStep
<1>1. pc[t] = "acquire" /\ UNCHANGED <<index, metaFile, chunkFile>> /\ TypeInv /\ f.id \in Ids
  BY <1>0, InHandler DEF WriteLock, Sane, Orderly
<1>2. f.req.op \in {"write", "truncate", "utimens", "unlink"}
  BY <1>1, InHandler DEF WriteLock, HandlerOK, Ops, CreateLabels, RenameLabels, ChmodLabels
<1>3. Locks!CanLock(f.id, f.lk)
  BY DEF WriteLock
<1>4. \A u \in Threads : ~Changes(u, f.id)
  BY <1>1, <1>3, LockableUnchanged DEF Sane
<1>5. CASE pc'[t] = "idle"
  <2>1. LocalsOK(t)'
    BY <1>5, NothingKnown DEF Knows
  <2>2. QED
    BY <1>0, <1>1, <2>1, AsideStep DEF Aside
<1>6. CASE pc'[t] # "idle"
  <2>1. /\ Stored(f.id) \/ f.req.op = "unlink"
        /\ frame'[t].m = Load(f.id) /\ frame'[t].id = f.id /\ frame'[t].req = f.req
        /\ pc'[t] = CASE f.req.op = "write" -> "chunk"
                        [] f.req.op = "truncate" -> "trim"
                        [] f.req.op = "utimens" -> "save"
                        [] f.req.op = "unlink" -> "unlink_chunks"
    <3>1. frame[t] \in Frame
      BY <1>0
    <3>2. QED
      BY <1>0, <1>6, <3>1, ZenonT(60) DEF WriteLock, Goto, Finish, Frame
  <2>2. Stored(f.id)
    <3>1. CASE f.req.op = "unlink"
      <4>1. Placed(t) /\ f.req.path \in Paths
        BY <1>0, InHandler DEF Sane, Orderly, NameInv
      <4>2. index[f.req.path] = f.id
        BY <1>1, <3>1, <4>1 DEF Placed
      <4>3. QED
        BY <1>1, <3>1, <4>1, <4>2, NamedStored, NoIdAssumption DEF NameOps
    <3>2. QED
      BY <2>1, <3>1
  <2>3. /\ Sound(Load(f.id), f.id) /\ Fits(Load(f.id), chunkFile[f.id])
        /\ Load(f.id).size = metaFile[f.id].size
    BY <1>1, <1>4, <2>2, LoadFits DEF Sound
  <2>4. Load(f.id).size \in Nat
    BY <1>1, LoadType, Others, MaxSizeNat DEF FileMeta
  <2>5. pc'[t] \in {"chunk", "trim", "save", "unlink_chunks"}
        /\ (pc'[t] = "save" => f.req.op = "utimens")
    BY <1>2, <2>1, SMTT(30)
  <2>6. ASSUME pc'[t] = "chunk" PROVE LocalsOK(t)'
    BY <1>1, <2>1, <2>2, <2>3, <2>6 DEF LocalsOK, Fits, Stored
  <2>7. ASSUME pc'[t] = "trim" PROVE LocalsOK(t)'
    BY <1>1, <2>1, <2>2, <2>3, <2>7 DEF LocalsOK, Stored
  <2>8. ASSUME pc'[t] = "save" PROVE LocalsOK(t)'
    <3>1. Load(f.id).size >= metaFile[f.id].size
      BY <2>3, <2>4
    <3>2. QED
      BY <1>1, <2>1, <2>2, <2>3, <2>8, <3>1 DEF LocalsOK, Stored
  <2>9. ASSUME pc'[t] = "unlink_chunks" PROVE LocalsOK(t)'
    BY <1>1, <2>1, <2>3, <2>9 DEF LocalsOK, Fits
  <2>10. LocalsOK(t)'
    BY <2>5, <2>6, <2>7, <2>8, <2>9
  <2>11. QED
    BY <1>0, <1>1, <2>10, AsideStep DEF Aside
<1>7. QED
  BY <1>5, <1>6

LEMMA RenameLoadData ==
  ASSUME Sane, NEW t \in Threads, RenameLoad(t)
  PROVE  DataOK'
<1> PICK f : f = frame[t]
  OBVIOUS
<1> DEFINE m == [Load(f.id) EXCEPT !.words = Words[f.req.to]]
<1>0. OthersStay(t) /\ pc[t] # "idle" /\ pc \in [Threads -> Labels] /\ frame \in [Threads -> Frame]
  BY EffectsOthers DEF HandlerStep, RenameStep
<1>1. pc[t] = "rename_load" /\ UNCHANGED <<index, metaFile, chunkFile>> /\ TypeInv
      /\ f.id \in Ids /\ f.req.path \in Paths /\ f.req.to \in Paths
  BY <1>0, InHandler DEF RenameLoad, Sane, Orderly
<1>2. f.req.op = "rename" /\ Placed(t)
  BY <1>1, InHandler DEF HandlerOK, RenameLabels, Sane, Orderly, NameInv
<1>3. index[f.req.path] = f.id /\ Sole(t, f.id)
  BY <1>1, <1>2, NameOpSole DEF Placed, NameOps, Sane
<1>4. Stored(f.id)
  BY <1>1, <1>2, <1>3, NamedStored, NoIdAssumption DEF NameOps
<1>5. \A u \in Threads : ~Changes(u, f.id)
  BY <1>1, <1>3, SoleUnchanged DEF Changes
<1>6. Load(f.id) \in FileMeta
  BY <1>1, LoadType, Others
<1>7. /\ m.id = Load(f.id).id /\ m.n = Load(f.id).n /\ m.size = Load(f.id).size /\ m.comp = Load(f.id).comp
      /\ m.words = Words[f.req.to]
  BY <1>6 DEF FileMeta
<1>8. Sound(m, f.id) /\ Fits(m, chunkFile[f.id]) /\ m.size = metaFile[f.id].size
  <2> HIDE DEF m
  <2>1. QED
    BY <1>1, <1>4, <1>5, <1>7, LoadFits DEF Sound, Fits, Sane, Orderly, PathsReadBack
<1>9. pc'[t] = "rename_save" /\ frame'[t].id = f.id /\ frame'[t].m = m
  BY <1>0, <1>1 DEF RenameLoad, Goto, Frame
<1> HIDE DEF m
<1>10. LocalsOK(t)'
  BY <1>1, <1>4, <1>8, <1>9 DEF LocalsOK, Fits, Stored
<1>11. QED
  BY <1>0, <1>1, <1>10, AsideStep DEF Aside

\* Nobody is changing a file while cfs_chmod is about to load its metadata.
LEMMA ChmodUnchanged ==
  ASSUME Orderly, NEW t \in Threads, pc[t] = "chmod_load", NEW u \in Threads
  PROVE  ~Changes(u, frame[t].id)
<1>1. TypeInv /\ frame[t].id \in Ids /\ pc[t] # "idle"
  BY InHandler DEF Orderly
<1>2. CASE pc[u] \in {"chunk", "save"}
  BY <1>1, <1>2, InHandler DEF Changes, Orderly, ChmodApart, ChmodLabels, HandlerOK
<1>3. CASE pc[u] \in {"unlink_meta", "rename_erase"}
  <2>1. u # t /\ pc[u] # "idle" /\ HandlerOK(u) /\ frame[u].req.op \in NameOps
    BY <1>1, <1>3, InHandler DEF HandlerOK, UnlinkLabels, RenameLabels, NameOps
  <2>2. pc[u] = "rename_erase" => /\ frame[u].req.op = "rename" /\ frame[u].eid \in Ids
                                  /\ index[frame[u].req.to] = frame[u].eid
    BY <2>1 DEF HandlerOK, RenameLabels, Orderly, FreeInv
  <2>3. QED
    BY <1>1, <1>3, <2>1, <2>2, NameOpSole, NoIdAssumption DEF Sole, Changes
<1>4. QED
  BY <1>2, <1>3 DEF Changes

LEMMA ChmodLoadData ==
  ASSUME Sane, NEW t \in Threads, ChmodLoad(t)
  PROVE  DataOK'
<1> PICK f : f = frame[t]
  OBVIOUS
<1> DEFINE m == [Load(f.id) EXCEPT !.mode = f.req.mode]
<1>0. OthersStay(t) /\ pc[t] # "idle" /\ pc \in [Threads -> Labels] /\ frame \in [Threads -> Frame]
  BY EffectsOthers DEF HandlerStep, ChmodStep
<1>1. pc[t] = "chmod_load" /\ UNCHANGED <<index, metaFile, chunkFile>> /\ TypeInv /\ f.id \in Ids
  BY <1>0, InHandler DEF ChmodLoad, Sane, Orderly
<1>2. CASE pc'[t] = "idle"
  <2>1. LocalsOK(t)'
    BY <1>2, NothingKnown DEF Knows
  <2>2. QED
    BY <1>0, <1>1, <2>1, AsideStep DEF Aside
<1>3. CASE pc'[t] # "idle"
  <2>1. Stored(f.id) /\ pc'[t] = "chmod_save" /\ frame'[t].id = f.id /\ frame'[t].m = m
    BY <1>0, <1>3 DEF ChmodLoad, Goto, Finish, Frame
  <2>2. ASSUME NEW u \in Threads PROVE ~Changes(u, f.id)
    BY <1>1, ChmodUnchanged DEF Sane
  <2>3. Load(f.id) \in FileMeta
    BY <1>1, LoadType, Others
  <2>4. /\ m.id = Load(f.id).id /\ m.n = Load(f.id).n /\ m.size = Load(f.id).size /\ m.comp = Load(f.id).comp
        /\ m.words = Load(f.id).words
    BY <2>3 DEF FileMeta
  <2>5. Sound(m, f.id) /\ Fits(m, chunkFile[f.id]) /\ m.size = metaFile[f.id].size
    <3> HIDE DEF m
    <3>1. QED
      BY <1>1, <2>1, <2>2, <2>4, LoadFits DEF Sound, Fits
  <2> HIDE DEF m
  <2>6. LocalsOK(t)'
    BY <1>1, <2>1, <2>5 DEF LocalsOK, Fits, Stored
  <2>7. QED
    BY <1>0, <1>1, <2>6, AsideStep DEF Aside
<1>4. QED
  BY <1>2, <1>3

-----------------------------------------------------------------------------
(* Steps that save or remove metadata.                                         *)

LEMMA SaveAt ==
  ASSUME TypeInv, NEW id \in Ids, NEW m, m.id = id, Save(m)
  PROVE  metaFile' = [metaFile EXCEPT ![id] = m] /\ metaFile'[id] = m
BY Others, NoIdAssumption DEF Save

\* Metadata that accounts for the chunk files is saved for a file that has or gets a name.
LEMMA SavedOK ==
  ASSUME NEW id \in Ids, metaFile'[id] \in FileMeta, Sound(metaFile'[id], id), chunkFile' = chunkFile,
         Fits(metaFile'[id], chunkFile[id]),
         Unnamed(id)' => \E t \in Threads : Brings(t, id)'
  PROVE  FileOK(id)' /\ Stored(id)'
<1>1. Stored(id)'
  BY NoMetaAssumption DEF Stored
<1>2. QED
  BY <1>1 DEF FileOK, Sound

LEMMA CreateSaveData ==
  ASSUME Sane, NEW t \in Threads, CreateSave(t)
  PROVE  DataOK'
<1> PICK f : f = frame[t]
  OBVIOUS
<1>0. OthersStay(t) /\ pc[t] # "idle" /\ pc \in [Threads -> Labels] /\ frame \in [Threads -> Frame]
  BY EffectsOthers DEF HandlerStep, CreateStep
<1>1. pc[t] = "create_save" /\ UNCHANGED <<index, chunkFile, frame>> /\ TypeInv /\ Save(f.m)
      /\ f.id \in Ids /\ f.req.path \in Paths /\ f.req.mode \in Modes
  BY <1>0, InHandler DEF CreateSave, Sane, Orderly
<1>2. f.req.op = "create" /\ Placed(t) /\ LocalsOK(t)
  BY <1>1, InHandler DEF HandlerOK, CreateLabels, Sane, Orderly, NameInv, DataOK
<1>3. f.id = HashOf[f.req.path] /\ Unnamed(f.id) /\ f.m = NewMeta(f.req.path, f.req.mode)
  BY <1>1, <1>2 DEF Placed, LocalsOK
<1>4. f.m.id = f.id /\ f.m.words = Words[f.req.path] /\ f.m.n = 0 /\ f.m.size = 0
      /\ f.m.comp = [i \in ChunkIdx |-> 0] /\ f.m \in FileMeta
  <2>1. PICK m : m = NewMeta(f.req.path, f.req.mode)
    OBVIOUS
  <2>2. m.id = f.id /\ m.words = Words[f.req.path] /\ m.n = 0 /\ m.size = 0 /\ m.comp = [i \in ChunkIdx |-> 0]
    BY <1>3, <2>1 DEF NewMeta, DefaultMeta
  <2>3. m \in FileMeta
    BY <1>1, <2>1, NewMetaType
  <2>4. QED
    BY <1>3, <2>1, <2>2, <2>3
<1>5. metaFile' = [metaFile EXCEPT ![f.id] = f.m] /\ metaFile'[f.id] = f.m
  BY <1>1, <1>4, SaveAt
<1>6. Sole(t, f.id)
  BY <1>0, <1>2, NameOpSole DEF NameOps, Sane
<1>7. Blank(f.id)
  <2>1. \A u \in Threads : ~Brings(u, f.id)
    BY <1>1, <1>6, SoleUnchanged DEF Brings
  <2>2. QED
    BY <1>1, <1>3, <2>1 DEF Sane, Orderly, DataOK, FileOK
<1>8. Fits(f.m, chunkFile[f.id])
  <2>1. 0 <= ChunksFor(0)
    BY ChunksForType, MaxSizeNat
  <2>2. DiskSizes(chunkFile[f.id], 0) = [i \in ChunkIdx |-> 0]
    BY ChunkIdxNat DEF DiskSizes
  <2>3. QED
    BY <1>4, <1>7, <2>1, <2>2 DEF Fits, Blank
<1>9. pc'[t] = "create_index" /\ frame'[t] = f
  BY <1>0, <1>1 DEF CreateSave, Goto
<1>10. FileOK(f.id)' /\ Stored(f.id)'
  <2>1. Brings(t, f.id)'
    BY <1>9 DEF Brings
  <2>2. Sound(f.m, f.id)
    BY <1>1, <1>4 DEF Sound, Sane, Orderly, PathsReadBack
  <2>3. QED
    BY <1>1, <1>4, <1>5, <1>8, <2>1, <2>2, SavedOK
<1>11. LocalsOK(t)'
  BY <1>9, <1>10 DEF LocalsOK, Stored
<1>12. ASSUME NEW id \in Ids \ {f.id} PROVE Kept(t, id)
  BY <1>1, <1>5, <1>9, <1>12, Others DEF Kept, Changes, Removes, Brings, Unnamed
<1>13. QED
  BY <1>0, <1>1, <1>6, <1>10, <1>11, <1>12, SolePrivate, DataStep

\* A handler saves metadata it has checked against the chunk files.
LEMMA SaverData ==
  ASSUME Sane, NEW t \in Threads, SaveMeta(t) \/ RenameSave(t) \/ ChmodSave(t)
  PROVE  DataOK'
<1> PICK f : f = frame[t]
  OBVIOUS
<1>0. OthersStay(t) /\ pc[t] # "idle" /\ pc \in [Threads -> Labels] /\ frame \in [Threads -> Frame]
  BY EffectsOthers DEF HandlerStep, LockedStep, RenameStep, ChmodStep
<1>1. /\ UNCHANGED <<index, chunkFile>> /\ Save(f.m) /\ TypeInv /\ NameInv
      /\ pc[t] \in {"save", "rename_save", "chmod_save"} /\ pc'[t] \in {"idle", "rename_out"}
  BY <1>0 DEF SaveMeta, RenameSave, ChmodSave, Goto, Finish, Sane, Orderly
<1>2. f.id \in Ids /\ f.m \in FileMeta /\ HandlerOK(t) /\ Placed(t) /\ f.req.path \in Paths
  BY <1>0, <1>1, InHandler DEF NameInv
<1>3. LocalsOK(t)
  BY DEF Sane, Orderly, DataOK
<1>4. Stored(f.id) /\ Sound(f.m, f.id) /\ Fits(f.m, chunkFile[f.id])
  BY <1>1, <1>3 DEF LocalsOK
<1>5. pc[t] = "save" => f.req.op \in {"write", "truncate", "utimens"}
  BY <1>2 DEF HandlerOK
<1>6. pc[t] = "chmod_save" \/ (pc[t] = "save" /\ f.req.op = "utimens") => f.m.size = metaFile[f.id].size
  BY <1>3 DEF LocalsOK
<1>7. metaFile' = [metaFile EXCEPT ![f.id] = f.m] /\ metaFile'[f.id] = f.m
  BY <1>1, <1>2, <1>4, SaveAt DEF Sound
<1>8. index[f.req.path] = f.id
  <2>1. f.req.op # "create"
    BY <1>1, <1>2 DEF HandlerOK, CreateLabels, RenameLabels, ChmodLabels
  <2>2. QED
    BY <1>1, <1>2, <2>1 DEF Placed
<1>9. FileOK(f.id)' /\ Stored(f.id)'
  <2>1. ~Unnamed(f.id)'
    BY <1>1, <1>2, <1>8 DEF Unnamed
  <2>2. QED
    BY <1>1, <1>2, <1>4, <1>7, <2>1, SavedOK
<1>10. LocalsOK(t)'
  BY <1>1, NothingKnown DEF Knows
<1>11. ASSUME NEW id \in Ids \ {f.id} PROVE Kept(t, id)
  BY <1>1, <1>7, <1>11, Others DEF Kept, Changes, Removes, Brings, Unnamed
<1>12. CASE pc[t] = "rename_save" \/ (pc[t] = "save" /\ f.req.op \in {"write", "truncate"})
  <2>1. Private(t, f.id)
    BY <1>0, <1>2, <1>12, NameOpSole, SolePrivate, HolderPrivate DEF HandlerOK, RenameLabels, NameOps, Exclusive, Sane
  <2>2. QED
    BY <1>0, <1>1, <1>2, <1>9, <1>10, <1>11, <2>1, DataStep
<1>13. CASE pc[t] = "chmod_save" \/ (pc[t] = "save" /\ f.req.op = "utimens")
  <2>1. ASSUME NEW id \in Ids PROVE SameToOthers(id)
    BY <1>1, <1>4, <1>6, <1>7, <1>9, <1>13, Others DEF SameToOthers, Stored
  <2>2. \A u \in Threads \ {t} : LocalsOK(u)'
    <3>1. Private(t, NoId)
      <4> SUFFICES ASSUME NEW u \in Threads \ {t}, pc[u] \in Knows
                   PROVE  frame[u].id # NoId /\ ~Replaces(u, NoId)
        BY DEF Private
      <4>1. HandlerOK(u)
        BY <1>1, InHandler DEF Knows
      <4>2. QED
        BY <4>1, NoIdAssumption DEF HandlerOK, Replaces
    <3>2. QED
      BY <1>0, <1>1, <2>1, <3>1, OthersKnow
  <2>3. ASSUME NEW id \in Ids \ {f.id} PROVE FileOK(id)'
    BY <1>0, <1>11, FileKept DEF Kept, Sane, Orderly, DataOK
  <2>4. QED
    BY <1>9, <1>10, <2>2, <2>3 DEF DataOK
<1>14. QED
  BY <1>1, <1>5, <1>12, <1>13

\* The metadata of a file whose chunk files are gone is removed, its name is still there.
LEMMA RemoverData ==
  ASSUME Sane, NEW t \in Threads, UnlinkMeta(t) \/ RenameErase(t)
  PROVE  DataOK'
<1> PICK f : f = frame[t]
  OBVIOUS
<1> PICK x : x = IF pc[t] = "unlink_meta" THEN f.id ELSE f.eid
  OBVIOUS
<1>0. OthersStay(t) /\ pc[t] # "idle" /\ pc \in [Threads -> Labels] /\ frame \in [Threads -> Frame]
  BY EffectsOthers DEF HandlerStep, UnlinkStep, RenameStep
<1>1. /\ UNCHANGED <<index, chunkFile, frame>> /\ TypeInv /\ NameInv /\ RemoveMeta(x)
      /\ \/ pc[t] = "unlink_meta" /\ pc'[t] = "unlink_index"
         \/ pc[t] = "rename_erase" /\ pc'[t] = "rename_drop"
  BY <1>0 DEF UnlinkMeta, RenameErase, Goto, Sane, Orderly
<1>2. HandlerOK(t) /\ LocalsOK(t) /\ Placed(t) /\ f.id \in Ids /\ f.req.path \in Paths /\ f.req.to \in Paths
  BY <1>0, <1>1, InHandler DEF NameInv, Sane, Orderly, DataOK
<1>3. x \in Ids /\ f.req.op \in NameOps /\ (pc[t] = "rename_erase" => f.req.op = "rename")
  BY <1>1, <1>2 DEF HandlerOK, UnlinkLabels, RenameLabels, NameOps
<1>4. Blank(x) /\ (pc[t] = "rename_erase" => index[f.req.to] = x)
  BY <1>1, <1>2 DEF LocalsOK, Sane, Orderly, FreeInv
<1>5. Sole(t, x)
  BY <1>0, <1>1, <1>3, <1>4, NameOpSole, NoIdAssumption DEF Sane
<1>6. metaFile' = [metaFile EXCEPT ![x] = NoMeta] /\ metaFile'[x] = NoMeta
  BY <1>1, <1>3, Others DEF RemoveMeta
<1>7. ~Stored(x)' /\ Blank(x)'
  BY <1>1, <1>4, <1>6 DEF Stored, Blank
<1>8. Removes(t, x)'
  BY <1>1 DEF Removes
<1>9. FileOK(x)'
  BY <1>7, <1>8 DEF FileOK
<1>10. LocalsOK(t)'
  <2>1. CASE pc'[t] = "unlink_index"
    BY <1>1, <1>7, <2>1 DEF LocalsOK
  <2>2. CASE pc'[t] = "rename_drop"
    BY <1>1, <1>4, <1>7, <2>2 DEF LocalsOK
  <2>3. QED
    BY <1>1, <2>1, <2>2
<1>11. ASSUME NEW id \in Ids \ {x} PROVE Kept(t, id)
  BY <1>1, <1>6, <1>11, Others DEF Kept, Changes, Removes, Brings, Unnamed
<1>12. QED
  BY <1>0, <1>1, <1>3, <1>5, <1>9, <1>10, <1>11, SolePrivate, DataStep

-----------------------------------------------------------------------------
(* Steps that change the index.                                                *)

\* A name is taken out of the index; the file it led to is gone, or will be named again.
LEMMA UnnamerData ==
  ASSUME Sane, NEW t \in Threads, UnlinkIndex(t) \/ RenameDrop(t) \/ RenameOut(t)
  PROVE  DataOK'
<1> PICK f : f = frame[t]
  OBVIOUS
<1> PICK p : p = IF pc[t] = "rename_drop" THEN f.req.to ELSE f.req.path
  OBVIOUS
<1> PICK x : x = IF pc[t] = "rename_drop" THEN f.eid ELSE f.id
  OBVIOUS
<1>0. OthersStay(t) /\ pc[t] # "idle" /\ pc \in [Threads -> Labels] /\ frame \in [Threads -> Frame]
  BY EffectsOthers DEF HandlerStep, UnlinkStep, RenameStep
<1>1. /\ UNCHANGED <<metaFile, chunkFile, frame>> /\ TypeInv /\ NameInv /\ IndexRemove(p)
      /\ \/ pc[t] = "unlink_index" /\ pc'[t] = "unlink_lock"
         \/ pc[t] = "rename_drop" /\ pc'[t] = "rename_load"
         \/ pc[t] = "rename_out" /\ pc'[t] = "rename_in"
  BY <1>0 DEF UnlinkIndex, RenameDrop, RenameOut, Goto, Sane, Orderly
<1>2. HandlerOK(t) /\ LocalsOK(t) /\ Placed(t) /\ f.id \in Ids /\ p \in Paths
      /\ f.req.path \in Paths /\ index \in [Paths -> Ids \cup {NoId}]
  BY <1>0, <1>1, InHandler, Others DEF NameInv, Sane, Orderly, DataOK
<1>3. x \in Ids /\ f.req.op \in NameOps /\ (pc[t] # "unlink_index" => f.req.op = "rename") /\ f.req.op # "create"
  BY <1>1, <1>2 DEF HandlerOK, UnlinkLabels, RenameLabels, NameOps
<1>4. index[p] = x /\ (pc[t] # "rename_out" => Blank(x) /\ ~Stored(x))
  BY <1>1, <1>2, <1>3 DEF LocalsOK, Placed, Sane, Orderly, FreeInv
<1>5. Sole(t, x)
  BY <1>0, <1>1, <1>3, <1>4, NameOpSole, NoIdAssumption DEF Sane
<1>6. pc[t] = "rename_out" => Stored(x)
  BY <1>0, <1>1, <1>2, <1>3, <1>4, NamedStored, NoIdAssumption
<1>7. index' = [index EXCEPT ![p] = NoId]
  BY <1>1 DEF IndexRemove, IndexSet, Mapped
<1>8. Unnamed(x)'
  BY <1>1, <1>2, <1>3, <1>4, <1>7, NoIdAssumption DEF Unnamed, NameInv, NamesDistinct
<1>9. FileOK(x)'
  <2>1. FileOK(x) /\ ~Changes(t, x)
    BY <1>1, <1>3 DEF Sane, Orderly, DataOK, Changes
  <2>2. pc[t] = "rename_out" => Brings(t, x)'
    BY <1>1 DEF Brings
  <2>3. QED
    BY <1>0, <1>1, <1>3, <1>4, <1>8, <2>1, <2>2, FileKept DEF Unnamed
<1>10. LocalsOK(t)'
  <2>1. CASE pc'[t] = "rename_in"
    BY <1>1, <1>6, <2>1 DEF LocalsOK, Stored
  <2>2. CASE pc'[t] \in {"unlink_lock", "rename_load"}
    BY <2>2, NothingKnown DEF Knows
  <2>3. QED
    BY <1>1, <2>1, <2>2
<1>11. ASSUME NEW id \in Ids \ {x} PROVE Kept(t, id)
  <2>1. \A q \in Paths : index'[q] = id <=> index[q] = id
    BY <1>2, <1>4, <1>7, <1>11, NoIdAssumption
  <2>2. ~Changes(t, id) /\ ~Removes(t, id) /\ ~Brings(t, id)
    BY <1>1, <1>11 DEF Changes, Removes, Brings
  <2>3. Unnamed(id)' <=> Unnamed(id)
    BY <2>1 DEF Unnamed
  <2>4. QED
    BY <1>1, <2>1, <2>2, <2>3 DEF Kept
<1>12. QED
  BY <1>0, <1>1, <1>3, <1>5, <1>9, <1>10, <1>11, SolePrivate, DataStep

\* A stored file gets its name.
LEMMA NamerData ==
  ASSUME Sane, NEW t \in Threads, CreateIndex(t) \/ RenameIn(t)
  PROVE  DataOK'
<1> PICK f : f = frame[t]
  OBVIOUS
<1> PICK p : p = IF pc[t] = "rename_in" THEN f.req.to ELSE f.req.path
  OBVIOUS
<1>0. OthersStay(t) /\ pc[t] # "idle" /\ pc \in [Threads -> Labels] /\ frame \in [Threads -> Frame]
  BY EffectsOthers DEF HandlerStep, CreateStep, RenameStep
<1>1. /\ UNCHANGED <<metaFile, chunkFile>> /\ TypeInv /\ NameInv /\ IndexAdd(p, f.id)
      /\ pc[t] \in {"create_index", "rename_in"} /\ pc'[t] = "idle"
  BY <1>0 DEF CreateIndex, RenameIn, Goto, Finish, Sane, Orderly
<1>2. HandlerOK(t) /\ LocalsOK(t) /\ f.id \in Ids /\ p \in Paths /\ index \in [Paths -> Ids \cup {NoId}]
  BY <1>0, <1>1, InHandler, Others DEF Sane, Orderly, DataOK
<1>3. f.req.op \in NameOps /\ (pc[t] = "rename_in" <=> f.req.op = "rename")
  BY <1>1, <1>2 DEF HandlerOK, CreateLabels, RenameLabels, NameOps
<1>4. Sole(t, f.id)
  BY <1>0, <1>3, NameOpSole DEF Sane
<1>5. index' = [index EXCEPT ![p] = f.id] /\ Stored(f.id)
  BY <1>1, <1>2 DEF IndexAdd, IndexSet, Mapped, LocalsOK
<1>6. index[p] = NoId
  BY <1>1, <1>2 DEF Sane, Orderly, FreeInv, HandlerOK, CreateLabels, RenameLabels
<1>7. FileOK(f.id)'
  <2>1. FileOK(f.id) /\ ~Changes(t, f.id)
    BY <1>1, <1>2 DEF Sane, Orderly, DataOK, Changes
  <2>2. ~Unnamed(f.id)'
    BY <1>2, <1>5 DEF Unnamed
  <2>3. QED
    BY <1>0, <1>1, <1>2, <1>5, <2>1, <2>2, FileKept
<1>8. LocalsOK(t)'
  BY <1>1, NothingKnown DEF Knows
<1>9. ASSUME NEW id \in Ids \ {f.id} PROVE Kept(t, id)
  <2>1. \A q \in Paths : index'[q] = id <=> index[q] = id
    BY <1>2, <1>5, <1>6, <1>9, NoIdAssumption
  <2>2. ~Changes(t, id) /\ ~Removes(t, id) /\ ~Brings(t, id)
    BY <1>1, <1>9 DEF Changes, Removes, Brings
  <2>3. Unnamed(id)' <=> Unnamed(id)
    BY <2>1 DEF Unnamed
  <2>4. QED
    BY <1>1, <2>1, <2>2, <2>3 DEF Kept
<1>10. QED
  BY <1>0, <1>2, <1>3, <1>4, <1>7, <1>8, <1>9, SolePrivate, DataStep

-----------------------------------------------------------------------------
(* Steps that change the chunk files.                                          *)

LEMMA ChunkOrder ==
  ASSUME NEW i \in ChunkIdx, NEW j \in ChunkIdx, NEW n \in Nat
  PROVE  /\ i > j => i >= j /\ i # j
         /\ i >= j + 1 => i > j
         /\ (0 <= i /\ i < n) \/ i >= n
<1>1. i \in Nat /\ j \in Nat
  BY ChunkIdxNat
<1>2. QED
  BY <1>1

\* A step of a handler on the chunk files of the file that its path leads to.
LEMMA OnFileStep ==
  ASSUME Sane, NEW t \in Threads, OthersStay(t), UNCHANGED <<index, metaFile>>,
         pc[t] \in {"chunk", "trim", "unlink_chunks"},
         \A id \in Ids \ {frame[t].id} : chunkFile'[id] = chunkFile[id],
         frame'[t].id = frame[t].id, Changes(t, frame[t].id)', LocalsOK(t)'
  PROVE  DataOK'
<1> PICK x : x = frame[t].id
  OBVIOUS
<1>1. TypeInv /\ NameInv /\ HandlerOK(t) /\ Placed(t) /\ x \in Ids /\ frame[t].req.path \in Paths
  BY InHandler DEF Sane, Orderly, NameInv
<1>2. frame[t].req.op \in {"write", "truncate", "unlink"}
  BY <1>1 DEF HandlerOK, UnlinkLabels
<1>3. index[frame[t].req.path] = x
  BY <1>1, <1>2 DEF Placed
<1>4. Private(t, x)
  BY <1>2, HolderPrivate DEF Exclusive, Sane
<1>5. FileOK(x)'
  <2>1. FileOK(x) /\ ~Removes(t, x) /\ ~Brings(t, x)
    BY <1>1 DEF Sane, Orderly, DataOK, Removes, Brings
  <2>2. ASSUME NEW u \in Threads PROVE Removes(u, x) => Removes(u, x)'
    BY <2>1 DEF OthersStay, Removes
  <2>3. ~Unnamed(x)'
    BY <1>1, <1>3 DEF Unnamed
  <2>4. Stored(x)' <=> Stored(x)
    BY DEF Stored
  <2>5. QED
    BY <2>1, <2>2, <2>3, <2>4 DEF FileOK
<1>6. ASSUME NEW id \in Ids \ {x} PROVE Kept(t, id)
  <2>1. ~Changes(t, id) /\ ~Removes(t, id) /\ ~Brings(t, id)
    BY <1>6, SMTT(30) DEF Changes, Removes, Brings
  <2>2. QED
    BY <2>1 DEF Kept, Unnamed
<1>7. QED
  BY <1>1, <1>4, <1>5, <1>6, DataStep

LEMMA WriteChunkData ==
  ASSUME Sane, NEW t \in Threads, WriteChunk(t)
  PROVE  DataOK'
<1> PICK f : f = frame[t]
  OBVIOUS
<1> PICK lc : lc = LastChunk(f.req.off, Len(f.req.buf))
  OBVIOUS
<1> PICK end : end = f.req.off + Len(f.req.buf)
  BY ZenonT(60)
<1>0. /\ OthersStay(t) /\ pc \in [Threads -> Labels] /\ frame \in [Threads -> Frame]
      /\ pc[t] = "chunk" /\ UNCHANGED <<index, metaFile>> /\ TypeInv /\ LocalsOK(t)
  BY EffectsOthers DEF HandlerStep, LockedStep, WriteChunk, Sane, Orderly, DataOK
<1>1. f \in Frame /\ f.id \in Ids /\ f.m \in FileMeta /\ f.ci \in ChunkIdx /\ f.req \in Requests
      /\ f.req.op = "write" /\ f.req.off \in Nat /\ f.req.buf \in Seq(Byte)
  BY <1>0, InHandler, MaxSizeNat DEF HandlerOK
<1>2. end \in 0 .. MaxSize /\ lc \in ChunkIdx /\ ChunksFor(end) = lc + 1
  <2>1. Len(f.req.buf) \in Nat \ {0} /\ f.req.off + Len(f.req.buf) <= MaxSize
    BY <1>1, RequestsAssumption
  <2>2. QED
    <3>1. PICK len \in Nat \ {0} : len = Len(f.req.buf)
      BY <2>1
    <3>2. LastChunk(f.req.off, len) \in ChunkIdx /\ ChunksFor(f.req.off + len) = LastChunk(f.req.off, len) + 1
      BY <1>1, <2>1, <3>1, LastChunkType
    <3>3. f.req.off + len \in 0 .. MaxSize
      BY <1>1, <2>1, <3>1, MaxSizeNat
    <3>4. QED
      BY <3>1, <3>2, <3>3
<1>3. /\ \A id \in Ids \ {f.id} : chunkFile'[id] = chunkFile[id]
      /\ \A i \in ChunkIdx : i # f.ci => chunkFile'[f.id][i] = chunkFile[f.id][i]
  <2>1. PutChunk(f)
    BY DEF WriteChunk
  <2>2. UNCHANGED chunkFile \/ \E bytes : Store!WriteChunk(f.id, f.ci, bytes)
    BY <2>1 DEF PutChunk
  <2>3. chunkFile \in [Ids -> [ChunkIdx -> Chunk]]
    BY <1>0, Others
  <2>4. ASSUME NEW bytes, Store!WriteChunk(f.id, f.ci, bytes)
        PROVE  chunkFile' = [chunkFile EXCEPT ![f.id] = [chunkFile[f.id] EXCEPT ![f.ci] = bytes]]
    BY <2>3, <2>4 DEF Store!WriteChunk
  <2>5. ASSUME NEW bytes, chunkFile' = [chunkFile EXCEPT ![f.id] = [chunkFile[f.id] EXCEPT ![f.ci] = bytes]]
        PROVE  /\ \A id \in Ids \ {f.id} : chunkFile'[id] = chunkFile[id]
               /\ \A i \in ChunkIdx : i # f.ci => chunkFile'[f.id][i] = chunkFile[f.id][i]
    <3>1. PICK c : c = [chunkFile[f.id] EXCEPT ![f.ci] = bytes]
      OBVIOUS
    <3>2. chunkFile[f.id] \in [ChunkIdx -> Chunk]
      BY <1>1, <2>3
    <3>3. \A i \in ChunkIdx : i # f.ci => c[i] = chunkFile[f.id][i]
      BY <3>1, <3>2
    <3>4. chunkFile'[f.id] = c /\ \A id \in Ids \ {f.id} : chunkFile'[id] = chunkFile[id]
      BY <1>1, <2>3, <2>5, <3>1
    <3>5. QED
      BY <3>3, <3>4
  <2>6. QED
    BY <2>2, <2>4, <2>5
<1>4. /\ Stored(f.id)' /\ Sound(f.m, f.id) /\ f.m.size = metaFile[f.id].size
      /\ f.m.n <= ChunksFor(f.m.size)
      /\ \A i \in ChunkIdx : i >= f.m.n /\ i > f.ci => chunkFile'[f.id][i] = <<>>
  <2>1. \A i \in ChunkIdx : i > f.ci => i >= f.ci /\ i # f.ci
    BY <1>1, ChunkOrder
  <2>2. QED
    BY <1>0, <1>1, <1>3, <2>1 DEF LocalsOK, Stored
<1>5. CASE f.ci < lc /\ frame' = [frame EXCEPT ![t].ci = @ + 1] /\ UNCHANGED pc
  <2>1. pc'[t] = "chunk" /\ frame'[t].id = f.id /\ frame'[t].m = f.m /\ frame'[t].ci = f.ci + 1
    BY <1>0, <1>1, <1>5 DEF Frame
  <2>2. \A i \in ChunkIdx : i >= f.ci + 1 => i > f.ci
    BY <1>1, ChunkOrder
  <2>3. LocalsOK(t)'
    BY <1>0, <1>4, <2>1, <2>2 DEF LocalsOK
  <2>4. Changes(t, f.id)'
    BY <2>1 DEF Changes
  <2>5. QED
    BY <1>0, <1>3, <2>1, <2>3, <2>4, OnFileStep
<1>6. ASSUME f.ci = lc, Goto(t, "save"), NEW m, frame' = [frame EXCEPT ![t].m = m],
             NEW n, n = Greatest(f.m.n, lc + 1), NEW size, size = Greatest(f.m.size, end),
             m = [f.m EXCEPT !.n = n, !.size = size, !.comp = DiskSizes(chunkFile'[f.id], n)]
      PROVE  DataOK'
  <2>1. pc'[t] = "save" /\ frame'[t].id = f.id /\ frame'[t].m = m /\ frame'[t].req = f.req
    BY <1>0, <1>1, <1>6 DEF Goto, Frame
  <2>2. m.n = n /\ m.size = size /\ m.comp = DiskSizes(chunkFile'[f.id], n) /\ m.id = f.m.id /\ m.words = f.m.words
    BY <1>1, <1>6 DEF FileMeta
  <2>3. f.m.n \in Nat /\ f.m.size \in 0 .. MaxSize /\ lc \in Nat
    BY <1>1, <1>2, ChunkIdxNat, SMTT(30) DEF FileMeta
  <2>4. size \in 0 .. MaxSize /\ f.m.size <= size /\ end <= size
    BY <1>2, <1>6, <2>3, MaxSizeNat DEF Greatest
  <2>5. ChunksFor(f.m.size) <= ChunksFor(size) /\ ChunksFor(end) <= ChunksFor(size)
    BY <1>2, <2>3, <2>4, ChunksForMono
  <2>6. n <= ChunksFor(size)
    <3>1. n = f.m.n \/ n = lc + 1
      BY <1>6 DEF Greatest
    <3>2. ChunksFor(f.m.size) \in Nat /\ ChunksFor(size) \in Nat
      BY <2>3, <2>4, ChunksForType
    <3>3. QED
      BY <1>2, <1>4, <2>3, <2>5, <3>1, <3>2
  <2>7. \A i \in ChunkIdx : i >= n => i >= f.m.n /\ i > f.ci
    BY <1>6, <2>3, ChunkIdxNat DEF Greatest
  <2>8. Fits(m, chunkFile'[f.id]) /\ Sound(m, f.id)
    BY <1>4, <2>2, <2>6, <2>7 DEF Fits, Sound
  <2>9. m.size >= metaFile[f.id].size
    BY <1>4, <2>2, <2>3, <2>4
  <2>10. LocalsOK(t)'
    BY <1>0, <1>1, <1>4, <2>1, <2>8, <2>9 DEF LocalsOK, Fits
  <2>11. Changes(t, f.id)'
    BY <1>1, <2>1 DEF Changes
  <2>12. QED
    BY <1>0, <1>3, <2>1, <2>10, <2>11, OnFileStep
<1>7. QED
  BY <1>5, <1>6, ZenonT(60) DEF WriteChunk

\* The chunks from..n-1 of id go, every other chunk stays.
ChunksGone(id, from, n) ==
  /\ \A x \in Ids \ {id} : chunkFile'[x] = chunkFile[x]
  /\ \A i \in ChunkIdx : chunkFile'[id][i] = IF from <= i /\ i < n THEN <<>> ELSE chunkFile[id][i]

LEMMA RemovedChunks ==
  ASSUME TypeInv, NEW id \in Ids, NEW from \in Nat, NEW n \in Nat, Store!RemoveChunks(id, from, n)
  PROVE  ChunksGone(id, from, n)
BY Others, StoreRemoveFrom DEF Store!RemoveChunks, RemoveFrom, ChunksGone

LEMMA TrimData ==
  ASSUME Sane, NEW t \in Threads, Trim(t)
  PROVE  DataOK'
<1> PICK f : f = frame[t]
  OBVIOUS
<1> PICK ns : ns = f.req.off
  BY ZenonT(60)
<1>0. /\ OthersStay(t) /\ pc \in [Threads -> Labels] /\ frame \in [Threads -> Frame]
      /\ pc[t] = "trim" /\ UNCHANGED <<index, metaFile>> /\ TypeInv /\ LocalsOK(t)
  BY EffectsOthers DEF HandlerStep, LockedStep, Trim, Sane, Orderly, DataOK
<1>1. f \in Frame /\ f.id \in Ids /\ f.m \in FileMeta /\ ns \in 0 .. MaxSize /\ f.req.op = "truncate"
  BY <1>0, InHandler DEF HandlerOK
<1>2. f.m.n \in Nat /\ f.m.size \in 0 .. MaxSize /\ ChunksFor(ns) \in Nat
  BY <1>1, ChunksForType DEF FileMeta
<1>3. Stored(f.id)' /\ Sound(f.m, f.id) /\ Fits(f.m, chunkFile[f.id])
  BY <1>0 DEF LocalsOK, Stored
<1>4. ASSUME NEW m, frame' = [frame EXCEPT ![t].m = m],
             Sound(m, f.id), Fits(m, chunkFile'[f.id]),
             \A id \in Ids \ {f.id} : chunkFile'[id] = chunkFile[id]
      PROVE  DataOK'
  <2>1. pc'[t] = "save" /\ frame'[t].id = f.id /\ frame'[t].m = m /\ frame'[t].req = f.req
    BY <1>0, <1>1, <1>4 DEF Trim, Goto, Frame
  <2>2. LocalsOK(t)'
    BY <1>1, <1>3, <1>4, <2>1 DEF LocalsOK, Fits
  <2>3. Changes(t, f.id)'
    BY <1>1, <2>1 DEF Changes
  <2>4. QED
    BY <1>0, <1>4, <2>1, <2>2, <2>3, OnFileStep
<1>5. CASE ns = 0 \/ ns < f.m.size
  <2> PICK keep : keep = ChunksFor(ns)
    OBVIOUS
  <2> PICK m : m = [f.m EXCEPT !.n = keep, !.size = ns, !.comp = DiskSizes(chunkFile'[f.id], keep)]
    OBVIOUS
  <2>1. Store!RemoveChunks(f.id, keep, f.m.n) /\ frame' = [frame EXCEPT ![t].m = m]
    <3>1. ~(ns # 0 /\ ns >= f.m.size)
      BY <1>1, <1>2, <1>5
    <3>2. QED
      BY <3>1 DEF Trim
  <2>2. m.n = keep /\ m.size = ns /\ m.comp = DiskSizes(chunkFile'[f.id], keep)
        /\ m.id = f.m.id /\ m.words = f.m.words
    BY <1>1 DEF FileMeta
  <2>3. /\ \A x \in Ids \ {f.id} : chunkFile'[x] = chunkFile[x]
        /\ \A i \in ChunkIdx : chunkFile'[f.id][i] = IF keep <= i /\ i < f.m.n THEN <<>> ELSE chunkFile[f.id][i]
    <3>1. ChunksGone(f.id, keep, f.m.n)
      BY <1>0, <1>1, <1>2, <2>1, RemovedChunks
    <3>2. QED
      BY <3>1 DEF ChunksGone
  <2>4. \A i \in ChunkIdx : i >= keep => (keep <= i /\ i < f.m.n) \/ i >= f.m.n
    BY <1>2, ChunkIdxNat
  <2>5. \A i \in ChunkIdx : i >= keep => chunkFile'[f.id][i] = <<>>
    BY <1>3, <2>3, <2>4 DEF Fits
  <2>6. keep <= ChunksFor(ns)
    BY <1>2
  <2>7. Fits(m, chunkFile'[f.id]) /\ Sound(m, f.id)
    BY <1>3, <2>2, <2>5, <2>6 DEF Fits, Sound
  <2>8. QED
    BY <1>4, <2>1, <2>3, <2>7
<1>6. CASE ns # 0 /\ ns >= f.m.size
  <2> PICK m : m = [f.m EXCEPT !.size = ns]
    OBVIOUS
  <2>1. UNCHANGED chunkFile /\ frame' = [frame EXCEPT ![t].m = m]
    <3>1. frame' = [frame EXCEPT ![t].m.size = ns] /\ UNCHANGED chunkFile
      BY <1>1, <1>2, <1>6 DEF Trim
    <3>2. QED
      BY <1>0, <3>1
  <2>2. m.n = f.m.n /\ m.size = ns /\ m.comp = f.m.comp /\ m.id = f.m.id /\ m.words = f.m.words
    BY <1>1 DEF FileMeta
  <2>3. f.m.n <= ChunksFor(ns)
    <3>1. ChunksFor(f.m.size) <= ChunksFor(ns) /\ ChunksFor(f.m.size) \in Nat
      BY <1>1, <1>2, <1>6, ChunksForMono, ChunksForType
    <3>2. QED
      BY <1>2, <1>3, <3>1 DEF Fits
  <2>4. Fits(m, chunkFile'[f.id]) /\ Sound(m, f.id)
    BY <1>3, <2>1, <2>2, <2>3 DEF Fits, Sound
  <2>5. QED
    BY <1>4, <2>1, <2>4
<1>7. QED
  BY <1>1, <1>2, <1>5, <1>6

LEMMA UnlinkChunksData ==
  ASSUME Sane, NEW t \in Threads, UnlinkChunks(t)
  PROVE  DataOK'
<1> PICK f : f = frame[t]
  OBVIOUS
<1>0. /\ OthersStay(t) /\ pc \in [Threads -> Labels] /\ UNCHANGED frame
      /\ pc[t] = "unlink_chunks" /\ UNCHANGED <<index, metaFile>> /\ TypeInv /\ LocalsOK(t)
      /\ Store!RemoveChunks(f.id, 0, f.m.n) /\ Goto(t, "unlink_meta")
  BY EffectsOthers DEF HandlerStep, UnlinkStep, UnlinkChunks, Sane, Orderly, DataOK
<1>1. f.id \in Ids /\ f.m.n \in Nat
  BY <1>0, InHandler DEF FileMeta
<1>2. /\ \A x \in Ids \ {f.id} : chunkFile'[x] = chunkFile[x]
      /\ \A i \in ChunkIdx : chunkFile'[f.id][i] = IF 0 <= i /\ i < f.m.n THEN <<>> ELSE chunkFile[f.id][i]
  <2>1. PICK from \in Nat : from = 0
    OBVIOUS
  <2>2. Store!RemoveChunks(f.id, from, f.m.n)
    BY <1>0, <2>1
  <2>3. TypeInv /\ f.id \in Ids /\ f.m.n \in Nat
    BY <1>0, <1>1
  <2>4. ChunksGone(f.id, from, f.m.n)
    BY <2>2, <2>3, RemovedChunks
  <2>5. QED
    BY <2>1, <2>4 DEF ChunksGone
<1>3. pc'[t] = "unlink_meta"
  BY <1>0 DEF Goto
<1>4. Blank(f.id)'
  <2>1. \A i \in ChunkIdx : (0 <= i /\ i < f.m.n) \/ i >= f.m.n
    BY <1>1, ChunkOrder
  <2>2. QED
    BY <1>0, <1>2, <2>1 DEF LocalsOK, Blank
<1>5. LocalsOK(t)' /\ Changes(t, f.id)'
  BY <1>0, <1>3, <1>4 DEF LocalsOK, Changes
<1>6. QED
  BY <1>0, <1>2, <1>5, OnFileStep

LEMMA RenameVictimData ==
  ASSUME Sane, NEW t \in Threads, RenameVictim(t)
  PROVE  DataOK'
<1> PICK f : f = frame[t]
  OBVIOUS
<1> PICK x : x = index[f.req.to]
  OBVIOUS
<1>0. /\ OthersStay(t) /\ pc \in [Threads -> Labels] /\ frame \in [Threads -> Frame] /\ f \in Frame
      /\ pc[t] = "rename_victim" /\ UNCHANGED <<index, metaFile>> /\ TypeInv
      /\ f.req.op = "rename" /\ f.req.path \in Paths /\ f.req.to \in Paths
  BY EffectsOthers, InHandler DEF HandlerStep, RenameStep, RenameVictim, Sane, Orderly, HandlerOK, RenameLabels
<1>1. frame'[t].eid = x /\ frame'[t].req = f.req /\ frame'[t].id = f.id
  BY <1>0 DEF RenameVictim, Frame
<1>2. CASE x = NoId
  <2>1. pc'[t] = "rename_load" /\ UNCHANGED chunkFile
    BY <1>0, <1>2 DEF RenameVictim, Goto
  <2>2. LocalsOK(t)'
    BY <2>1, NothingKnown DEF Knows
  <2>3. QED
    BY <1>0, <2>1, <2>2, AsideStep DEF Aside
<1>3. CASE x # NoId
  <2>1. pc'[t] = "rename_erase" /\ Store!RemoveChunks(x, 0, Load(x).n)
    BY <1>0, <1>3 DEF RenameVictim, Goto
  <2>2. x \in Ids /\ Sole(t, x)
    BY <1>0, <1>3, Others, NameOpSole DEF NameOps, Sane
  <2>3. Stored(x)
    BY <1>0, <1>3, NamedStored DEF NameOps
  <2>4. \A u \in Threads : ~Changes(u, x) /\ ~Removes(u, x) /\ ~Brings(u, x)
    BY <1>0, <2>2, SoleUnchanged, AsideDoesNot DEF Aside
  <2>5. Load(x).n \in Nat /\ Fits(Load(x), chunkFile[x])
    <3>1. Load(x) \in FileMeta
      BY <1>0, <2>2, LoadType, Others
    <3>2. QED
      BY <2>2, <2>3, <2>4, <3>1, LoadFits DEF FileMeta
  <2>6. /\ \A id \in Ids \ {x} : chunkFile'[id] = chunkFile[id]
        /\ \A i \in ChunkIdx : chunkFile'[x][i] = IF 0 <= i /\ i < Load(x).n THEN <<>> ELSE chunkFile[x][i]
    <3>1. PICK from \in Nat : from = 0
      OBVIOUS
    <3>2. PICK k \in Nat : k = Load(x).n
      BY <2>5
    <3>3. Store!RemoveChunks(x, from, k)
      BY <2>1, <3>1, <3>2
    <3>4. TypeInv /\ x \in Ids
      BY <1>0, <2>2, Zenon
    <3>5. ChunksGone(x, from, k)
      BY <3>3, <3>4, RemovedChunks, SMTT(30)
    <3>6. QED
      BY <3>1, <3>2, <3>5 DEF ChunksGone
  <2>7. Blank(x)'
    <3>1. \A i \in ChunkIdx : (0 <= i /\ i < Load(x).n) \/ i >= Load(x).n
      BY <2>5, ChunkIdxNat
    <3>2. QED
      BY <2>5, <2>6, <3>1 DEF Fits, Blank
  <2>8. LocalsOK(t)' /\ Changes(t, x)'
    BY <1>0, <1>1, <2>1, <2>7 DEF LocalsOK, Changes
  <2>9. FileOK(x)'
    <3>1. ~Unnamed(x)'
      BY <1>0 DEF Unnamed
    <3>2. FileOK(x) /\ (Stored(x)' <=> Stored(x))
      BY <1>0, <2>2 DEF Sane, Orderly, DataOK, Stored
    <3>3. QED
      BY <1>0, <2>3, <2>8, <3>1, <3>2 DEF FileOK
  <2>10. ASSUME NEW id \in Ids \ {x} PROVE Kept(t, id)
    <3>1. ~Changes(t, id) /\ ~Removes(t, id) /\ ~Brings(t, id)
      BY <1>0, AsideDoesNot, SMTT(30) DEF Aside
    <3>2. QED
      BY <1>0, <2>6, <3>1 DEF Kept, Unnamed
  <2>11. QED
    BY <1>0, <2>2, <2>8, <2>9, <2>10, SolePrivate, DataStep
<1>4. QED
  BY <1>2, <1>3

-----------------------------------------------------------------------------
LEMMA StepIsNoCrash ==
  ASSUME NEW t, Begin(t) \/ HandlerStep(t) \/ TaskStep(t)
  PROVE  UNCHANGED crashes
BY DEF Begin, HandlerStep, FileLock, ReadStep, ReadLoad, ReadReply, CreateStep, CreateSave, CreateIndex,
   LockedStep, WriteLock, WriteChunk, Trim, SaveMeta, UnlinkStep, UnlinkChunks, UnlinkMeta, UnlinkIndex, UnlinkLock,
   RenameStep, RenameVictim, RenameErase, RenameDrop, RenameLoad, RenameSave, RenameOut, RenameIn,
   ChmodStep, ChmodLoad, ChmodSave, TaskStep, TaskStart, TaskLock, TaskRead

LEMMA NextDataInv ==
  ASSUME PathsReadBack, ChmodApart, TypeInv, NameInv, LockInv, FreeInv, DataInv, [Next]_vars
  PROVE  DataInv'
<1> SUFFICES ASSUME crashes' = 0 PROVE DataOK'
  BY DEF DataInv
<1>1. ASSUME UNCHANGED vars PROVE DataOK'
  <2>1. DataOK
    BY <1>1 DEF vars, DataInv
  <2>2. ASSUME NEW id \in Ids PROVE FileOK(id)'
    BY <1>1, <2>1 DEF vars, DataOK, FileOK, Stored, Changes, Removes, Brings, Unnamed, Blank
  <2>3. ASSUME NEW t \in Threads PROVE LocalsOK(t)'
    BY <1>1, <2>1 DEF vars, DataOK, LocalsOK, Stored, Fits, Blank
  <2>4. QED
    BY <2>2, <2>3 DEF DataOK
<1>2. ASSUME NEW t \in Threads, Begin(t) \/ HandlerStep(t) \/ TaskStep(t) PROVE DataOK'
  <2>1. UNCHANGED crashes
    BY <1>2, StepIsNoCrash
  <2>2. Sane
    BY <2>1 DEF Sane, Orderly, DataInv
  <2>3. QED
    BY <1>2, <2>2, BeginData, QuietData, WriteLockData, RenameLoadData, ChmodLoadData, CreateSaveData,
       SaverData, RemoverData, UnnamerData, NamerData, WriteChunkData, TrimData, UnlinkChunksData, RenameVictimData
    DEF HandlerStep, CreateStep, LockedStep, UnlinkStep, RenameStep, ChmodStep
<1>3. ~CrashAndMount
  BY Others DEF CrashAndMount
<1>4. QED
  BY <1>1, <1>2, <1>3 DEF Next

\* What holds of every state of one mount.
FullInv == TypeInv /\ NameInv /\ LockInv /\ FreeInv /\ DataInv

\* Until a crash the index, the metadata and the chunk files of every file agree, up to what the
\* handlers that are inside have done so far (FileOK, LocalsOK): under the locks of fuse_ops.cpp, the
\* order of its calls, and libfuse's rule for requests that change names.
THEOREM DataInvariant == ReuseIds = FALSE /\ PathsReadBack /\ Spec /\ []ChmodApart => []FullInv
<1> SUFFICES ASSUME ReuseIds = FALSE, PathsReadBack PROVE Spec /\ []ChmodApart => []FullInv
  OBVIOUS
<1>1. Init => FullInv
  <2>1. Init => FreeInv
    BY DEF Init, FreeInv, CreateLabels
  <2>2. QED
    BY <2>1, InitTypeInv, InitNameInv, InitLockInv, InitData DEF FullInv, DataInv
<1>2. FullInv /\ ChmodApart /\ [Next]_vars => FullInv'
  BY NextTypeInv, NextNameInv, NextLockInv, NextFreeInv, NextDataInv DEF FullInv
<1>3. QED
  BY <1>1, <1>2, PTL DEF Spec

\* Between handlers a file's metadata accounts for its chunk files: cfs_write, cfs_truncate, cfs_unlink
\* and cfs_rename leave no chunk file at or beyond n_chunks, and n_chunks and compressed_size are those
\* of the chunk files that are there.
THEOREM MetadataAccounts == ReuseIds = FALSE /\ PathsReadBack /\ Spec /\ []ChmodApart => []Accounted
<1>1. FullInv => Accounted
  <2> SUFFICES ASSUME FullInv, crashes = 0, NEW id \in Ids, Stored(id), ~InUse(id)
               PROVE  Fits(metaFile[id], chunkFile[id])
    BY DEF Accounted, Fits
  <2>1. FileOK(id)
    BY DEF FullInv, DataInv, DataOK
  <2>2. ASSUME NEW t \in Threads PROVE ~Changes(t, id)
    <3>1. CASE pc[t] \in Exclusive /\ frame[t].id = id
      <4>1. PICK h : h = Locks!HoldOf(frame[t].id, gen[frame[t].id], t, Handler, FALSE)
        OBVIOUS
      <4>2. h \in holds /\ h.id = id /\ ~h.shared
        BY <3>1, <4>1 DEF FullInv, LockInv, Holding, Locks!HoldOf
      <4>3. QED
        BY <4>2 DEF InUse
    <3>2. QED
      BY <3>1 DEF Changes, Exclusive, InUse
  <2>3. QED
    BY <2>1, <2>2 DEF FileOK
<1>2. QED
  BY <1>1, DataInvariant, PTL

\* When no create, unlink or rename is under way, every listed name leads to a stored file with that id,
\* every stored file has a name, and nothing is left of a file without one: the handlers add and remove
\* name, metadata and chunks in an order that brings the two together again.
THEOREM IndexAgrees == ReuseIds = FALSE /\ PathsReadBack /\ Spec /\ []ChmodApart => []NamespaceAgrees
<1>1. FullInv => NamespaceAgrees
  <2> SUFFICES ASSUME FullInv, crashes = 0, \A t \in Threads : pc[t] # "idle" => frame[t].req.op \notin NameOps
               PROVE  /\ indexFile = index
                      /\ \A p \in Paths : index[p] # NoId => Stored(index[p]) /\ metaFile[index[p]].id = index[p]
                      /\ \A id \in Ids : (\A p \in Paths : index[p] # id) =>
                           ~Stored(id) /\ \A ci \in ChunkIdx : chunkFile[id][ci] = <<>>
    BY DEF NamespaceAgrees
  <2>1. ASSUME NEW t \in Threads, NEW id PROVE ~Removes(t, id) /\ ~Brings(t, id)
    <3>1. pc[t] # "idle" => HandlerOK(t)
      BY InHandler DEF FullInv
    <3>2. QED
      BY <3>1 DEF HandlerOK, UnlinkLabels, RenameLabels, CreateLabels, NameOps, Removes, Brings
  <2>2. \A id \in Ids : FileOK(id)
    BY DEF FullInv, DataInv, DataOK
  <2>3. index \in [Paths -> Ids \cup {NoId}] /\ indexFile = index
    BY Others DEF FullInv, NameInv
  <2>4. QED
    BY <2>1, <2>2, <2>3 DEF FileOK, Sound, Unnamed, Blank
<1>2. QED
  BY <1>1, DataInvariant, PTL

\* A file gets shorter by a truncate and by nothing else: the metadata that any other handler saves is
\* no older than the size that is stored.
THEOREM SizesKept == ReuseIds = FALSE /\ PathsReadBack /\ Spec /\ []ChmodApart => SizeKept
<1> SUFFICES ASSUME PathsReadBack, ReuseIds = FALSE PROVE Spec /\ []ChmodApart => SizeKept
  OBVIOUS
<1>1. FullInv /\ ChmodApart /\ [Next]_vars =>
        [crashes' = 0 => \A id \in Ids :
           metaFile[id] # NoMeta /\ metaFile'[id] # NoMeta /\ metaFile'[id].size < metaFile[id].size
             => \E t \in Threads : frame[t].id = id /\ frame[t].req.op = "truncate" /\ pc[t] = "save"]_vars
  <2> SUFFICES ASSUME FullInv, ChmodApart, Next, crashes' = 0, NEW id \in Ids,
                      metaFile[id] # NoMeta, metaFile'[id] # NoMeta, metaFile'[id].size < metaFile[id].size
               PROVE  \E t \in Threads : frame[t].id = id /\ frame[t].req.op = "truncate" /\ pc[t] = "save"
    OBVIOUS
  <2>1. TypeInv /\ metaFile \in [Ids -> FileMeta \cup {NoMeta}] /\ metaFile[id] \in FileMeta
    BY Others DEF FullInv
  <2>2. metaFile[id].size \in Nat
    BY <2>1, MaxSizeNat DEF FileMeta
  <2>3. metaFile'[id].size # metaFile[id].size
    BY <2>2
  <2>4. PICK t \in Threads : CreateSave(t) \/ SaveMeta(t) \/ RenameSave(t) \/ ChmodSave(t)
    <3>1. ~CrashAndMount
      BY <2>1, Others DEF CrashAndMount
    <3>2. PICK t \in Threads : Begin(t) \/ HandlerStep(t) \/ TaskStep(t)
      BY <3>1 DEF Next
    <3>3. ~(UnlinkMeta(t) \/ RenameErase(t))
      BY <2>1, <2>3, SMTT(30) DEF UnlinkMeta, RenameErase, RemoveMeta
    <3>4. metaFile' # metaFile
      BY <2>3, ZenonT(60)
    <3>5. ~Begin(t) /\ ~TaskStep(t)
      BY <3>4 DEF Begin, TaskStep, TaskStart, TaskLock, TaskRead
    <3>6. ~(FileLock(t) \/ ReadStep(t) \/ CreateIndex(t) \/ WriteLock(t) \/ WriteChunk(t) \/ Trim(t))
      BY <3>4 DEF FileLock, ReadStep, ReadLoad, ReadReply, CreateIndex, WriteLock, WriteChunk, Trim
    <3>7. ~(UnlinkChunks(t) \/ UnlinkIndex(t) \/ UnlinkLock(t) \/ ChmodLoad(t))
      BY <3>4 DEF UnlinkChunks, UnlinkIndex, UnlinkLock, ChmodLoad
    <3>8. ~(RenameVictim(t) \/ RenameDrop(t) \/ RenameLoad(t) \/ RenameOut(t) \/ RenameIn(t))
      BY <3>4 DEF RenameVictim, RenameDrop, RenameLoad, RenameOut, RenameIn
    <3>9. QED
      BY <3>2, <3>3, <3>5, <3>6, <3>7, <3>8 DEF HandlerStep, CreateStep, LockedStep, UnlinkStep, RenameStep, ChmodStep
  <2> PICK f : f = frame[t]
    OBVIOUS
  <2>5. pc[t] \in {"create_save", "save", "rename_save", "chmod_save"} /\ Save(f.m) /\ UNCHANGED crashes
        /\ HandlerOK(t) /\ f.id \in Ids /\ f.m \in FileMeta /\ f.req.path \in Paths
    BY <2>1, <2>4, InHandler DEF CreateSave, SaveMeta, RenameSave, ChmodSave
  <2>6. Sane /\ LocalsOK(t)
    BY <2>5 DEF FullInv, DataInv, DataOK, Sane, Orderly
  <2>7. CASE pc[t] = "create_save"
    <3>1. f.req.op = "create" /\ f.m.id = HashOf[f.req.path] /\ Placed(t)
      BY <2>5, <2>6, <2>7 DEF HandlerOK, CreateLabels, LocalsOK, NewMeta, DefaultMeta, FullInv, NameInv
    <3>2. f.m.id = f.id /\ Unnamed(f.id)
      BY <3>1 DEF Placed
    <3>3. \A u \in Threads : ~Brings(u, f.id)
      BY <2>5, <2>6, <2>7, <3>1, NameOpSole, SoleUnchanged DEF NameOps, Brings, Sane
    <3>4. ~Stored(f.id)
      BY <2>5, <2>6, <3>2, <3>3 DEF Sane, Orderly, DataOK, FileOK
    <3>5. metaFile' = [metaFile EXCEPT ![f.id] = f.m]
      BY <2>1, <2>5, <3>2, SaveAt
    <3>6. id # f.id
      BY <3>4 DEF Stored
    <3>7. QED
      BY <2>1, <2>3, <3>5, <3>6
  <2>8. CASE pc[t] # "create_save"
    <3>1. Stored(f.id) /\ f.m.id = f.id
      BY <2>5, <2>6, <2>8 DEF LocalsOK, Sound
    <3>2. metaFile' = [metaFile EXCEPT ![f.id] = f.m]
      BY <2>1, <2>5, <3>1, SaveAt
    <3>3. f.id = id /\ f.m.size < metaFile[id].size
      BY <2>1, <2>3, <2>5, <3>2
    <3>4. f.m.size \in Nat
      BY <2>5, MaxSizeNat DEF FileMeta
    <3>5. ~(f.m.size >= metaFile[id].size)
      BY <2>2, <3>3, <3>4
    <3>6. pc[t] = "save" /\ f.req.op = "truncate"
      BY <2>3, <2>5, <2>6, <2>8, <3>2, <3>3, <3>5 DEF LocalsOK
    <3>7. QED
      BY <3>3, <3>6
  <2>9. QED
    BY <2>7, <2>8
<1>2. QED
  BY <1>1, DataInvariant, PTL DEF Spec, SizeKept

-----------------------------------------------------------------------------
(* Names that lead nowhere, also after a crash and for ids that are used again. *)

\* The file that a create or a rename is about to name is stored.
AddsStored(t) ==
  /\ pc[t] = "create_save" => frame[t].m.id = frame[t].id
  /\ pc[t] = "create_index" => Stored(frame[t].id)
  /\ pc[t] \in {"rename_out", "rename_in"} /\ frame[t].m.id = frame[t].id => Stored(frame[t].id)

StoredInv == \A t \in Threads : AddsStored(t)

\* What a step of t does to the metadata files.
LEMMA MetaEffect ==
  ASSUME TypeInv, NEW t \in Threads, Begin(t) \/ HandlerStep(t) \/ TaskStep(t)
  PROVE  \/ UNCHANGED metaFile
         \/ pc[t] \in Saving /\ Save(frame[t].m)
         \/ pc[t] = "unlink_meta" /\ RemoveMeta(frame[t].id)
         \/ pc[t] = "rename_erase" /\ RemoveMeta(frame[t].eid)
<1>1. CASE Begin(t) \/ TaskStep(t)
  BY <1>1 DEF Begin, TaskStep, TaskStart, TaskLock, TaskRead
<1>2. CASE FileLock(t) \/ ReadStep(t) \/ CreateStep(t) \/ LockedStep(t)
  BY <1>2 DEF FileLock, ReadStep, ReadLoad, ReadReply, CreateStep, CreateSave, CreateIndex,
     LockedStep, WriteLock, WriteChunk, Trim, SaveMeta, Saving
<1>3. CASE UnlinkStep(t) \/ ChmodStep(t)
  BY <1>3 DEF UnlinkStep, UnlinkChunks, UnlinkMeta, UnlinkIndex, UnlinkLock, ChmodStep, ChmodLoad, ChmodSave, Saving
<1>4. CASE RenameStep(t)
  BY <1>4 DEF RenameStep, RenameVictim, RenameErase, RenameDrop, RenameLoad, RenameSave, RenameOut, RenameIn, Saving
<1>5. QED
  BY <1>1, <1>2, <1>3, <1>4, SMTT(30) DEF HandlerStep

LEMMA StoredStays ==
  ASSUME TypeInv, NEW t \in Threads, Begin(t) \/ HandlerStep(t) \/ TaskStep(t), NEW id \in Ids, Stored(id)
  PROVE  \/ Stored(id)'
         \/ pc[t] = "unlink_meta" /\ frame[t].id = id
         \/ pc[t] = "rename_erase" /\ frame[t].eid = id
<1>1. metaFile \in [Ids -> FileMeta \cup {NoMeta}]
  BY Others
<1>2. CASE pc[t] \in Saving /\ Save(frame[t].m)
  <2>1. frame[t].m \in FileMeta
    BY <1>2, InHandler DEF Saving
  <2>2. metaFile'[id] \in {metaFile[id], frame[t].m}
    BY <1>1, <1>2 DEF Save
  <2>3. QED
    BY <2>1, <2>2, NoMetaAssumption DEF Stored
<1>3. CASE UNCHANGED metaFile
  BY <1>3 DEF Stored
<1>4. CASE \/ pc[t] = "unlink_meta" /\ RemoveMeta(frame[t].id)
           \/ pc[t] = "rename_erase" /\ RemoveMeta(frame[t].eid)
  BY <1>1, <1>4 DEF RemoveMeta, Stored
<1>5. QED
  BY <1>2, <1>3, <1>4, MetaEffect

\* How a handler gets to the places that AddsStored is about.
LEMMA StepAddsStored ==
  ASSUME TypeInv, NEW t \in Threads, AddsStored(t), HandlerStep(t) \/ TaskStep(t)
  PROVE  AddsStored(t)'
<1>0. pc \in [Threads -> Labels] /\ frame \in [Threads -> Frame] /\ metaFile \in [Ids -> FileMeta \cup {NoMeta}]
  BY Others DEF TypeInv, TypeOK
<1> DEFINE Adding == {"create_save", "create_index", "rename_out", "rename_in"}
<1>1. CASE CreateSave(t) \/ RenameSave(t)
  <2>1. /\ UNCHANGED frame /\ Save(frame[t].m) /\ frame[t].id \in Ids /\ frame[t].m \in FileMeta
        /\ \/ pc[t] = "create_save" /\ pc'[t] = "create_index"
           \/ pc[t] = "rename_save" /\ pc'[t] = "rename_out"
    BY <1>0, <1>1, InHandler DEF CreateSave, RenameSave, Goto
  <2>2. frame[t].m.id = frame[t].id => metaFile'[frame[t].id] = frame[t].m
    BY <1>0, <2>1, NoIdAssumption DEF Save
  <2>3. QED
    BY <2>1, <2>2, NoMetaAssumption DEF AddsStored, Stored
<1>2. CASE RenameOut(t)
  BY <1>0, <1>2 DEF RenameOut, Goto, AddsStored, Stored
<1>3. CASE FileLock(t) \/ ReadStep(t) \/ CreateIndex(t) \/ UnlinkStep(t) \/ ChmodStep(t)
  <2>1. pc'[t] \notin Adding
    BY <1>0, <1>3 DEF FileLock, ReadStep, ReadLoad, ReadReply, CreateIndex, UnlinkStep, UnlinkChunks, UnlinkMeta,
       UnlinkIndex, UnlinkLock, ChmodStep, ChmodLoad, ChmodSave, Goto, Finish
  <2>2. QED
    BY <2>1 DEF AddsStored
<1>4. CASE LockedStep(t)
  <2>1. HandlerOK(t) /\ pc[t] \in {"acquire", "chunk", "trim", "save"}
    BY <1>4, InHandler DEF LockedStep, WriteLock, WriteChunk, Trim, SaveMeta
  <2>2. frame[t].req.op \notin {"create", "rename"}
    BY <2>1 DEF HandlerOK, CreateLabels, RenameLabels
  <2>3. TypeInv'
    BY <1>4, WriteLockTypeInv, WriteChunkTypeInv, TrimTypeInv, FileStepsTypeInv DEF LockedStep
  <2>4. pc'[t] # "idle" => HandlerOK(t)' /\ frame'[t].req = frame[t].req
    BY <1>4, <2>3, Effects DEF TypeInv, HandlersOK, HandlerStep, Stays
  <2>5. pc'[t] \notin Adding
    BY <2>2, <2>4 DEF HandlerOK, CreateLabels, RenameLabels
  <2>6. QED
    BY <2>5 DEF AddsStored
<1>5. CASE RenameVictim(t) \/ RenameErase(t) \/ RenameDrop(t) \/ RenameLoad(t) \/ RenameIn(t)
  <2>1. pc'[t] \notin Adding
    BY <1>0, <1>5, SMTT(30) DEF RenameVictim, RenameErase, RenameDrop, RenameLoad, RenameIn, Goto, Finish
  <2>2. QED
    BY <2>1 DEF AddsStored
<1>6. CASE TaskStep(t)
  BY <1>6 DEF TaskStep, TaskStart, TaskLock, TaskRead, AddsStored, Stored
<1>7. QED
  BY <1>1, <1>2, <1>3, <1>4, <1>5, <1>6 DEF HandlerStep, CreateStep, RenameStep

LEMMA NextStoredInv ==
  ASSUME TypeInv, NameInv, StoredInv, [Next]_vars
  PROVE  StoredInv'
<1>1. CASE UNCHANGED vars
  BY <1>1 DEF vars, StoredInv, AddsStored, Stored
<1>2. ASSUME NEW t \in Threads, Begin(t) \/ HandlerStep(t) \/ TaskStep(t), NEW u \in Threads \ {t}
      PROVE  AddsStored(u)'
  <2>1. pc'[u] = pc[u] /\ frame'[u] = frame[u] /\ AddsStored(u)
    BY <1>2, BeginEnters, Effects DEF StoredInv, Stays
  <2>2. CASE pc[u] \in {"create_index", "rename_out", "rename_in"}
    <3>1. frame[u].id \in Ids /\ frame[u].req.op \in NameOps /\ pc[u] # "idle"
      BY <2>2, InHandler DEF HandlerOK, CreateLabels, RenameLabels, NameOps
    <3>2. pc[t] # "rename_erase" /\ (pc[t] = "unlink_meta" => frame[t].id # frame[u].id)
      <4>1. frame[u].req.op \in {"create", "rename"}
        BY <2>2, <3>1, InHandler DEF HandlerOK, CreateLabels, RenameLabels
      <4>2. pc[t] # "idle" => /\ HandlerOK(t) /\ frame[t].id # frame[u].id
                              /\ frame[t].req.op \in NameOps => frame[t].req.op = "unlink"
        BY <3>1, <4>1, InHandler, IdsApart, NamesApart DEF NameInv
      <4>3. QED
        BY <4>2 DEF HandlerOK, RenameLabels, NameOps
    <3>3. PICK id \in Ids : id = frame[u].id
      BY <3>1
    <3>4. Stored(id) => Stored(id)'
      BY <1>2, <3>2, <3>3, StoredStays
    <3>5. QED
      BY <2>1, <2>2, <3>3, <3>4 DEF AddsStored, Stored
  <2>3. CASE pc[u] \notin {"create_index", "rename_out", "rename_in"}
    BY <2>1, <2>3 DEF AddsStored
  <2>4. QED
    BY <2>2, <2>3
<1>3. ASSUME NEW t \in Threads, Begin(t) PROVE AddsStored(t)'
  <2>1. PICK r \in Requests :
          \/ pc'[t] = "idle"
          \/ /\ frame'[t].req = r
             /\ frame'[t].id = IF r.op = "create" THEN HashOf[r.path] ELSE index[r.path]
             /\ pc'[t] \in {"create_save", "rename_victim", "chmod_load", "lock"}
             /\ pc'[t] = "create_save" => frame'[t].m = NewMeta(r.path, r.mode)
    BY <1>3, BeginEnters
  <2>2. pc'[t] # "idle" => HandlerOK(t)'
    BY <1>3, BeginTypeInv DEF TypeInv, HandlersOK
  <2>3. NewMeta(r.path, r.mode).id = HashOf[r.path]
    BY DEF NewMeta, DefaultMeta
  <2>4. QED
    BY <2>1, <2>2, <2>3 DEF AddsStored, HandlerOK, CreateLabels
<1>4. CASE CrashAndMount
  BY <1>4 DEF CrashAndMount, StoredInv, AddsStored
<1>5. QED
  BY <1>1, <1>2, <1>3, <1>4, StepAddsStored DEF Next, StoredInv

\* The names that readdir lists and open accepts but getattr denies are those without metadata.
LEMMA DanglingIds ==
  Dangling = {index[p] : p \in {q \in Paths : index[q] # NoId /\ ~Stored(index[q])}}
BY DEF Dangling, Readdir, ListPaths, Open, Getattr

\* A listed name stops leading to a file only by a deletion or a replacement, or when a rename passes on
\* a name that led to none, or by a crash that cuts its line of index.txt inside the id: cfs_create and
\* cfs_rename store the metadata before they add the name, and cfs_unlink and cfs_rename are what removes
\* metadata. The unlink of a hidden name may overlap with any of them, as long as no create takes an id in use.
THEOREM NamesLeadSomewhere == ReuseIds = FALSE /\ Spec => NamesStored
<1> SUFFICES ASSUME ReuseIds = FALSE PROVE Spec => NamesStored
  OBVIOUS
<1> DEFINE IInv == TypeInv /\ NameInv /\ StoredInv
<1>1. Init => IInv
  BY InitTypeInv, InitNameInv DEF Init, StoredInv, AddsStored
<1>2. IInv /\ [Next]_vars => IInv'
  BY NextTypeInv, NextNameInv, NextStoredInv
<1>3. IInv /\ [Next]_vars =>
        [\A id \in Dangling' \ Dangling :
           \E t \in Threads : \/ pc[t] = "unlink_meta" /\ frame[t].id = id
                              \/ pc[t] = "rename_erase" /\ frame[t].eid = id
                              \/ pc[t] = "rename_in" /\ frame[t].id = id /\ frame[t].m.id # id
                              \/ pc[t] \in Indexing /\ crashes' # crashes /\ id \in CutIds]_vars
  <2> SUFFICES ASSUME IInv, Next, NEW id, id \in Dangling', id \notin Dangling
               PROVE  \E t \in Threads : \/ pc[t] = "unlink_meta" /\ frame[t].id = id
                                         \/ pc[t] = "rename_erase" /\ frame[t].eid = id
                                         \/ pc[t] = "rename_in" /\ frame[t].id = id /\ frame[t].m.id # id
                                         \/ pc[t] \in Indexing /\ crashes' # crashes /\ id \in CutIds
    OBVIOUS
  <2>1. PICK p \in Paths : index'[p] = id /\ id # NoId /\ ~Stored(id)'
    <3>1. Dangling' = {index'[p] : p \in {q \in Paths : index'[q] # NoId /\ metaFile'[index'[q]] = NoMeta}}
      BY DEF Dangling, Readdir, ListPaths, Open, Getattr, Stored
    <3>2. PICK p \in Paths : index'[p] = id /\ id # NoId /\ metaFile'[id] = NoMeta
      BY <3>1
    <3>3. QED
      BY <3>2 DEF Stored
  <2>2. \A q \in Paths : index[q] = id => Stored(id)
    BY <2>1, DanglingIds
  <2>3. TypeInv' /\ index' \in [Paths -> Ids \cup {NoId}] /\ metaFile \in [Ids -> FileMeta \cup {NoMeta}]
    <3>1. TypeInv'
      BY NextTypeInv
    <3>2. index' \in [Paths -> Ids \cup {NoId}]
      BY <3>1 DEF TypeInv, TypeOK, MetaTypeOK
    <3>3. QED
      BY <3>1, <3>2, Others
  <2>4. id \in Ids
    BY <2>1, <2>3
  <2>5. CASE CrashAndMount
    <3>1. index' = indexFile'
      BY <2>5 DEF CrashAndMount, LoadIndex
    <3>2. index[p] = id => metaFile'[id] # NoMeta
      <4>1. metaFile' = metaFile \/ \E x : metaFile' = TornMeta(x)
        BY <2>5 DEF CrashAndMount, CrashMetaStore
      <4>2. metaFile'[id] \in {metaFile[id], DefaultMeta}
        BY <2>3, <2>4, <4>1 DEF TornMeta
      <4>3. QED
        BY <2>2, <4>2, DefaultMetaType, NoMetaAssumption DEF Stored
    <3>3. PICK t \in Threads : /\ pc[t] \in Indexing /\ UNCHANGED metaFile
                               /\ indexFile' \in TornIndex(Rewritten(t), Pieces(Rewritten(t)))
      BY <2>1, <2>5, <3>1, <3>2 DEF CrashAndMount, CrashMetaStore, NameInv, Stored
    <3>4. indexFile'[p] \in {NoId, Rewritten(t)[p]} \cup CutIds
      BY <3>3 DEF TornIndex, NoPaths, Pieces
    <3>5. CASE id \in CutIds
      <4>1. crashes' # crashes
        BY <2>5, Others DEF CrashAndMount
      <4>2. QED
        BY <3>3, <3>5, <4>1
    <3>6. CASE id = Rewritten(t)[p]
      <4>1. pc[t] \in {"create_index", "rename_in"} /\ frame[t].id = id
        BY <2>1, <3>2, <3>3, <3>6, RewrittenDistinct DEF Stored
      <4>2. ~Stored(id)
        BY <2>1, <3>3 DEF Stored
      <4>3. QED
        BY <4>1, <4>2 DEF StoredInv, AddsStored
    <3>7. QED
      BY <2>1, <3>1, <3>4, <3>5, <3>6
  <2>6. ASSUME NEW t \in Threads, Begin(t) \/ HandlerStep(t) \/ TaskStep(t), index[p] = id
        PROVE  \/ pc[t] = "unlink_meta" /\ frame[t].id = id
               \/ pc[t] = "rename_erase" /\ frame[t].eid = id
    BY <2>1, <2>2, <2>4, <2>6, StoredStays
  <2>7. ASSUME NEW t \in Threads, Begin(t) \/ HandlerStep(t) \/ TaskStep(t), index[p] # id
        PROVE  pc[t] = "rename_in" /\ frame[t].id = id /\ frame[t].m.id # id
    <3>1. index'[p] # index[p]
      BY <2>1, <2>7
    <3>2. NameEffect(t) /\ (HandlerStep(t) \/ TaskStep(t))
      BY <2>7, <3>1, BeginEnters, Effects
    <3>3. index \in [Paths -> Ids \cup {NoId}]
      BY Others
    <3>4. /\ pc[t] \in {"create_index", "rename_in"} /\ frame[t].id = id
      BY <2>1, <3>1, <3>2, <3>3 DEF NameEffect, IndexAdd, IndexRemove, IndexSet, Mapped
    <3>5. ~Stored(id)
      BY <2>1, <2>4, <2>7, <3>4, StoredStays
    <3>6. QED
      BY <3>4, <3>5 DEF StoredInv, AddsStored
  <2>8. QED
    BY <2>5, <2>6, <2>7 DEF Next
<1>4. QED
  BY <1>1, <1>2, <1>3, PTL DEF Spec, NamesStored

-----------------------------------------------------------------------------
(* Sums over finite sets.  MapThenSumSet is a fold, a recursive function over *)
(* the subsets of its set; that it exists and what it yields follow, as for    *)
(* FlattenSeq, without an induction schema.                                    *)

\* A set of subsets that holds the empty set and grows by one element at a time holds the whole set.
LEMMA FiniteGrowth ==
  ASSUME NEW S, IsFiniteSet(S), NEW G, {} \in G,
         \A s \in SUBSET S : s \in G => \A x \in S \ s : s \cup {x} \in G
  PROVE  S \in G
<1> DEFINE T == {n \in Nat : \E s \in SUBSET S : s \in G /\ Cardinality(S \ s) = n}
<1>1. Cardinality(S \ {}) \in T
  <2>1. Cardinality(S \ {}) \in Nat
    BY FS_CardinalityType, S \ {} = S
  <2>2. {} \in SUBSET S
    OBVIOUS
  <2>3. QED
    BY <2>1, <2>2
<1>2. PICK m \in T : \A k \in T : m <= k
  <2>1. T \subseteq Nat /\ T # {}
    BY <1>1
  <2> HIDE DEF T
  <2>2. QED
    BY <2>1, LeastNat
<1>3. PICK s \in SUBSET S : s \in G /\ Cardinality(S \ s) = m
  BY <1>2
<1>4. m \in Nat
  BY <1>2
<1>5. CASE S \ s = {}
  <2>1. s = S
    BY <1>5
  <2>2. QED
    BY <1>3, <2>1
<1>6. ASSUME NEW x \in S \ s PROVE FALSE
  <2>1. s \cup {x} \in SUBSET S /\ s \cup {x} \in G
    BY <1>3, <1>6
  <2>2. S \ (s \cup {x}) = (S \ s) \ {x}
    OBVIOUS
  <2>3. IsFiniteSet(S \ s)
    BY FS_Subset
  <2>4. IsFiniteSet((S \ s) \ {x}) /\ Cardinality((S \ s) \ {x}) = Cardinality(S \ s) - 1
    BY <1>6, <2>3, FS_RemoveElement
  <2>5. m - 1 \in Nat
    BY <1>3, <2>2, <2>4, FS_CardinalityType
  <2>6. m - 1 \in T
    BY <1>3, <2>1, <2>2, <2>4, <2>5
  <2>7. m <= m - 1
    <3> HIDE DEF T
    <3>1. QED
      BY <1>2, <2>6
  <2>8. QED
    BY <1>4, <2>7
<1>7. QED
  BY <1>5, <1>6

\* The element that MapThenSumSet takes next.
Some(s) == CHOOSE x \in s : TRUE

\* g adds up w over the subsets of S of at most n elements, or over all of them.
AddsUpTo(w, S, n, g) ==
  \A s \in SUBSET S : Cardinality(s) <= n =>
    g[s] = IF s = {} THEN 0 ELSE w[Some(s)] + g[s \ {Some(s)}]
AddsUp(w, S, g) ==
  g = [s \in SUBSET S |-> IF s = {} THEN 0 ELSE w[Some(s)] + g[s \ {Some(s)}]]

\* g[s] is the sum of w over s, for every part s of the finite set S.
Sums(w, S, g) == /\ IsFiniteSet(S) /\ w \in [S -> Nat] /\ g \in [SUBSET S -> Nat]
                 /\ AddsUp(w, S, g)

\* Taking the next element makes a part smaller by one.
LEMMA SmallerSubset ==
  ASSUME NEW S, IsFiniteSet(S), NEW s \in SUBSET S, s # {}
  PROVE  /\ Some(s) \in s /\ s \ {Some(s)} \in SUBSET S
         /\ Cardinality(s) \in Nat /\ Cardinality(s \ {Some(s)}) = Cardinality(s) - 1
         /\ Cardinality(s \ {Some(s)}) \in Nat
<1>1. Some(s) \in s
  BY DEF Some
<1>2. IsFiniteSet(s) /\ IsFiniteSet(s \ {Some(s)})
  BY FS_Subset
<1>3. Cardinality(s \ {Some(s)}) = Cardinality(s) - 1
  BY <1>1, <1>2, FS_RemoveElement
<1>4. QED
  BY <1>1, <1>2, <1>3, FS_CardinalityType

\* There are sums over all parts of at most n elements.
LEMMA AddsUpToExists ==
  ASSUME NEW S, IsFiniteSet(S), NEW w \in [S -> Nat], NEW n \in Nat
  PROVE  \E g \in [SUBSET S -> Nat] : AddsUpTo(w, S, n, g)
<1> DEFINE T == {m \in Nat : ~\E g \in [SUBSET S -> Nat] : AddsUpTo(w, S, m, g)}
<1>1. SUFFICES ASSUME T # {} PROVE FALSE
  OBVIOUS
<1>2. PICK m \in T : \A k \in T : m <= k
  <2>1. T \subseteq Nat
    OBVIOUS
  <2> HIDE DEF T
  <2>2. QED
    BY <1>1, <2>1, LeastNat
<1>3. m \in Nat /\ ~\E g \in [SUBSET S -> Nat] : AddsUpTo(w, S, m, g)
  BY <1>2
<1>4. CASE m = 0
  <2>1. \A s \in SUBSET S : Cardinality(s) <= 0 => s = {}
    BY FS_Subset, FS_CardinalityType, FS_EmptySet
  <2>2. AddsUpTo(w, S, 0, [s \in SUBSET S |-> 0])
    BY <2>1 DEF AddsUpTo
  <2>3. [s \in SUBSET S |-> 0] \in [SUBSET S -> Nat]
    OBVIOUS
  <2>4. QED
    BY <1>3, <1>4, <2>2, <2>3
<1>5. CASE m # 0
  <2>1. m - 1 \in Nat /\ m - 1 \notin T
    <3>1. m - 1 \in Nat /\ ~(m <= m - 1)
      BY <1>3, <1>5
    <3> HIDE DEF T
    <3>2. QED
      BY <1>2, <3>1
  <2>2. PICK g \in [SUBSET S -> Nat] : AddsUpTo(w, S, m - 1, g)
    BY <2>1
  <2> DEFINE h == [s \in SUBSET S |-> IF s = {} THEN 0 ELSE w[Some(s)] + g[s \ {Some(s)}]]
  <2>3. ASSUME NEW s \in SUBSET S, s # {}
        PROVE  w[Some(s)] \in Nat /\ g[s \ {Some(s)}] \in Nat
    BY <2>3, SmallerSubset
  <2>4. h \in [SUBSET S -> Nat]
    BY <2>3
  <2>5. ASSUME NEW s \in SUBSET S, Cardinality(s) <= m - 1
        PROVE  h[s] = g[s]
    BY <2>2, <2>5 DEF AddsUpTo
  <2>6. \A s \in SUBSET S : h[s] = IF s = {} THEN 0 ELSE w[Some(s)] + g[s \ {Some(s)}]
    OBVIOUS
  <2> HIDE DEF h
  <2>7. ASSUME NEW s \in SUBSET S, Cardinality(s) <= m
        PROVE  h[s] = IF s = {} THEN 0 ELSE w[Some(s)] + h[s \ {Some(s)}]
    <3>1. CASE s = {}
      BY <2>6, <3>1
    <3>2. CASE s # {}
      <4>1. s \ {Some(s)} \in SUBSET S /\ Cardinality(s \ {Some(s)}) <= m - 1
        BY <1>3, <2>7, <3>2, SmallerSubset
      <4>2. h[s \ {Some(s)}] = g[s \ {Some(s)}]
        BY <2>5, <4>1
      <4>3. QED
        BY <2>6, <3>2, <4>2
    <3>3. QED
      BY <3>1, <3>2
  <2>8. AddsUpTo(w, S, m, h)
    BY <2>7 DEF AddsUpTo
  <2>9. QED
    BY <1>3, <2>4, <2>8
<1>6. QED
  BY <1>4, <1>5

\* A finite set has its sums.
LEMMA SumsExist ==
  ASSUME NEW S, IsFiniteSet(S), NEW w \in [S -> Nat]
  PROVE  \E g : Sums(w, S, g)
<1>1. Cardinality(S) \in Nat
  BY FS_CardinalityType
<1>2. PICK g \in [SUBSET S -> Nat] : AddsUpTo(w, S, Cardinality(S), g)
  BY <1>1, AddsUpToExists
<1>3. \A s \in SUBSET S : Cardinality(s) <= Cardinality(S)
  BY FS_Subset
<1>4. \A s \in SUBSET S : g[s] = IF s = {} THEN 0 ELSE w[Some(s)] + g[s \ {Some(s)}]
  BY <1>2, <1>3 DEF AddsUpTo
<1>5. g = [s \in SUBSET S |-> IF s = {} THEN 0 ELSE w[Some(s)] + g[s \ {Some(s)}]]
  BY <1>4
<1>6. QED
  BY <1>5 DEF AddsUp, Sums

\* The order of the summands does not matter: any element can be counted last.
LEMMA SumsOne ==
  ASSUME NEW S, NEW w, NEW g, Sums(w, S, g)
  PROVE  /\ g[{}] = 0
         /\ \A s \in SUBSET S : \A x \in S \ s : g[s \cup {x}] = w[x] + g[s]
<1>1. IsFiniteSet(S) /\ w \in [S -> Nat] /\ g \in [SUBSET S -> Nat] /\ AddsUp(w, S, g)
  BY DEF Sums
<1>0. \A s \in SUBSET S : g[s] = IF s = {} THEN 0 ELSE w[Some(s)] + g[s \ {Some(s)}]
  BY <1>1 DEF AddsUp
<1>2. g[{}] = 0
  <2>1. {} \in SUBSET S
    OBVIOUS
  <2>2. QED
    BY <1>0, <2>1
<1> DEFINE Bad(s) == \E x \in S \ s : g[s \cup {x}] # w[x] + g[s]
           T == {n \in Nat : \E s \in SUBSET S : Cardinality(s) = n /\ Bad(s)}
<1>3. SUFFICES ASSUME NEW r \in SUBSET S, Bad(r) PROVE FALSE
  BY <1>2
<1>4. Cardinality(r) \in T
  BY <1>3, <1>1, FS_Subset, FS_CardinalityType
<1>5. PICK m \in T : \A k \in T : m <= k
  <2>1. T \subseteq Nat /\ T # {}
    BY <1>4
  <2> HIDE DEF T
  <2>2. QED
    BY <2>1, LeastNat
<1>6. PICK s \in SUBSET S : Cardinality(s) = m /\ Bad(s)
  BY <1>5
<1>7. m \in Nat
  BY <1>5
<1>8. PICK x \in S \ s : g[s \cup {x}] # w[x] + g[s]
  BY <1>6
<1> DEFINE q == s \cup {x}
           y == Some(q)
<1>9. q \in SUBSET S /\ q # {} /\ y \in q /\ g[q] = w[y] + g[q \ {y}]
  <2>1. q \in SUBSET S /\ q # {}
    OBVIOUS
  <2>2. QED
    BY <1>0, <2>1 DEF Some
<1> HIDE DEF y
<1>10. CASE y = x
  <2>1. q \ {y} = s
    BY <1>10
  <2>2. QED
    BY <1>8, <1>9, <1>10, <2>1
<1>11. CASE y # x
  <2> DEFINE d == s \ {y}
  <2>1. y \in s /\ d \in SUBSET S /\ x \in S \ d /\ y \in S \ d /\ s = d \cup {y} /\ q \ {y} = d \cup {x}
    BY <1>9, <1>11
  <2>2. Cardinality(d) \in Nat /\ Cardinality(d) < m
    <3>1. IsFiniteSet(s) /\ IsFiniteSet(d)
      BY <1>1, FS_Subset
    <3>2. Cardinality(d) = Cardinality(s) - 1
      BY <2>1, <3>1, FS_RemoveElement
    <3>3. QED
      BY <1>6, <3>1, <3>2, FS_CardinalityType
  <2>3. ~Bad(d)
    <3>1. Bad(d) => Cardinality(d) \in T
      BY <2>1, <2>2
    <3> HIDE DEF T, Bad, d
    <3>2. Cardinality(d) \in T => m <= Cardinality(d)
      BY <1>5
    <3>3. QED
      BY <1>7, <2>2, <3>1, <3>2
  <2>4. g[d \cup {x}] = w[x] + g[d] /\ g[d \cup {y}] = w[y] + g[d]
    BY <2>1, <2>3
  <2>5. w[x] \in Nat /\ w[y] \in Nat /\ g[d] \in Nat
    BY <1>1, <2>1
  <2>6. g[q] = w[y] + g[d \cup {x}] /\ g[s] = g[d \cup {y}]
    BY <1>9, <2>1
  <2>7. g[q] # w[x] + g[s]
    BY <1>8
  <2> HIDE DEF q, d
  <2>8. QED
    BY <2>4, <2>5, <2>6, <2>7
<1>12. QED
  BY <1>10, <1>11

\* Summing over another set: one to one, and with nothing to add elsewhere.
LEMMA SumMoved ==
  ASSUME NEW S, NEW w, NEW g, Sums(w, S, g), NEW T, NEW v, NEW h, Sums(v, T, h),
         NEW f \in [S -> T], \A x, y \in S : f[x] = f[y] => x = y,
         \A x \in S : v[f[x]] = w[x],
         \A y \in T : (\A x \in S : f[x] # y) => v[y] = 0
  PROVE  g[S] = h[T]
<1>0. /\ IsFiniteSet(S) /\ w \in [S -> Nat] /\ g \in [SUBSET S -> Nat]
      /\ IsFiniteSet(T) /\ v \in [T -> Nat] /\ h \in [SUBSET T -> Nat]
  BY DEF Sums
<1> DEFINE im(s) == {f[x] : x \in s}
<1>1. /\ g[{}] = 0 /\ h[{}] = 0
      /\ \A s \in SUBSET S : \A x \in S \ s : g[s \cup {x}] = w[x] + g[s]
      /\ \A r \in SUBSET T : \A y \in T \ r : h[r \cup {y}] = v[y] + h[r]
  <2>1. g[{}] = 0 /\ \A s \in SUBSET S : \A x \in S \ s : g[s \cup {x}] = w[x] + g[s]
    BY SumsOne
  <2>2. h[{}] = 0 /\ \A r \in SUBSET T : \A y \in T \ r : h[r \cup {y}] = v[y] + h[r]
    BY SumsOne
  <2>3. QED
    BY <2>1, <2>2
<1>2. g[S] = h[im(S)]
  <2> DEFINE G == {s \in SUBSET S : g[s] = h[im(s)]}
  <2>1. {} \in G
    BY <1>1, im({}) = {}
  <2>2. ASSUME NEW s \in SUBSET S, s \in G, NEW x \in S \ s PROVE s \cup {x} \in G
    <3>1. im(s) \in SUBSET T /\ f[x] \in T \ im(s) /\ im(s \cup {x}) = im(s) \cup {f[x]}
      OBVIOUS
    <3>2. h[im(s \cup {x})] = v[f[x]] + h[im(s)]
      BY <1>1, <3>1
    <3>3. g[s \cup {x}] = w[x] + g[s]
      BY <1>1
    <3>4. QED
      BY <2>2, <3>2, <3>3
  <2>3. S \in G
    <3> HIDE DEF G
    <3>1. QED
      BY <1>0, <2>1, <2>2, FiniteGrowth
  <2>4. QED
    BY <2>3
<1>3. h[im(S) \cup (T \ im(S))] = h[im(S)]
  <2> DEFINE R == T \ im(S)
             G == {r \in SUBSET R : h[im(S) \cup r] = h[im(S)]}
  <2>1. {} \in G
    BY im(S) \cup {} = im(S)
  <2>2. ASSUME NEW r \in SUBSET R, r \in G, NEW y \in R \ r PROVE r \cup {y} \in G
    <3>1. im(S) \cup r \in SUBSET T /\ y \in T \ (im(S) \cup r) /\ v[y] = 0
      OBVIOUS
    <3>2. h[(im(S) \cup r) \cup {y}] = v[y] + h[im(S) \cup r]
      BY <1>1, <3>1
    <3>3. (im(S) \cup r) \cup {y} = im(S) \cup (r \cup {y})
      OBVIOUS
    <3>4. h[im(S)] \in Nat /\ h[im(S) \cup r] = h[im(S)]
      BY <1>0, <2>2, <3>1
    <3>5. r \cup {y} \in SUBSET R
      OBVIOUS
    <3>6. h[im(S) \cup (r \cup {y})] = h[im(S)]
      <4>1. h[im(S) \cup (r \cup {y})] = h[(im(S) \cup r) \cup {y}]
        BY <3>3, Zenon
      <4>2. h[(im(S) \cup r) \cup {y}] = 0 + h[im(S)]
        BY <3>1, <3>2, <3>4, Zenon
      <4>3. 0 + h[im(S)] = h[im(S)]
        BY <3>4
      <4>4. QED
        BY <4>1, <4>2, <4>3, Zenon
    <3>7. QED
      BY <3>5, <3>6
  <2>3. IsFiniteSet(R)
    BY <1>0, FS_Subset
  <2>4. R \in G
    <3> HIDE DEF G, R
    <3>1. QED
      BY <2>1, <2>2, <2>3, FiniteGrowth
  <2>5. QED
    BY <2>4
<1>4. im(S) \cup (T \ im(S)) = T
  OBVIOUS
<1>5. QED
  BY <1>2, <1>3, <1>4

\* Summing over pairs: the second component first.
LEMMA SumPairs ==
  ASSUME NEW A, IsFiniteSet(A), NEW C, IsFiniteSet(C),
         NEW w, NEW g, Sums(w, A \X C, g), NEW u, NEW h, Sums(u, A, h), NEW v, NEW k,
         \A a \in A : /\ Sums(v[a], C, k[a]) /\ u[a] = k[a][C]
                      /\ \A c \in C : v[a][c] = w[<<a, c>>]
  PROVE  g[A \X C] = h[A]
<1>0. /\ w \in [A \X C -> Nat] /\ g \in [SUBSET (A \X C) -> Nat]
      /\ u \in [A -> Nat] /\ h \in [SUBSET A -> Nat]
  BY DEF Sums
<1>1. /\ g[{}] = 0 /\ h[{}] = 0
      /\ \A s \in SUBSET (A \X C) : \A x \in (A \X C) \ s : g[s \cup {x}] = w[x] + g[s]
      /\ \A s \in SUBSET A : \A a \in A \ s : h[s \cup {a}] = u[a] + h[s]
  <2>1. /\ g[{}] = 0
        /\ \A s \in SUBSET (A \X C) : \A x \in (A \X C) \ s : g[s \cup {x}] = w[x] + g[s]
    BY SumsOne
  <2>2. h[{}] = 0 /\ \A s \in SUBSET A : \A a \in A \ s : h[s \cup {a}] = u[a] + h[s]
    BY SumsOne
  <2>3. QED
    BY <2>1, <2>2
<1> DEFINE G == {s \in SUBSET A : g[s \X C] = h[s]}
<1>2. {} \in G
  BY <1>1, {} \X C = {}
<1>3. ASSUME NEW s \in SUBSET A, s \in G, NEW a \in A \ s PROVE s \cup {a} \in G
  <2> DEFINE K == {r \in SUBSET C : g[(s \X C) \cup ({a} \X r)] = g[s \X C] + k[a][r]}
  <2>1. /\ k[a][{}] = 0
        /\ \A r \in SUBSET C : \A c \in C \ r : k[a][r \cup {c}] = v[a][c] + k[a][r]
    <3>1. PICK va, ka : va = v[a] /\ ka = k[a]
      OBVIOUS
    <3>2. Sums(va, C, ka)
      BY <3>1
    <3>3. /\ ka[{}] = 0
          /\ \A r \in SUBSET C : \A c \in C \ r : ka[r \cup {c}] = va[c] + ka[r]
      BY <3>2, SumsOne, SMTT(30)
    <3>4. QED
      BY <3>1, <3>3
  <2>2. v[a] \in [C -> Nat] /\ k[a] \in [SUBSET C -> Nat]
    BY DEF Sums
  <2>3. g[s \X C] \in Nat
    BY <1>0
  <2>4. {} \in K
    <3>1. (s \X C) \cup ({a} \X {}) = s \X C
      OBVIOUS
    <3>2. g[s \X C] = g[s \X C] + k[a][{}]
      BY <2>1, <2>3
    <3>3. QED
      BY <3>1, <3>2
  <2>5. ASSUME NEW r \in SUBSET C, r \in K, NEW c \in C \ r PROVE r \cup {c} \in K
    <3> DEFINE q == (s \X C) \cup ({a} \X r)
    <3>1. q \in SUBSET (A \X C) /\ <<a, c>> \in (A \X C) \ q
      OBVIOUS
    <3>2. (s \X C) \cup ({a} \X (r \cup {c})) = q \cup {<<a, c>>}
      OBVIOUS
    <3>3. g[q \cup {<<a, c>>}] = w[<<a, c>>] + g[q]
      BY <1>1, <3>1
    <3>4. k[a][r \cup {c}] = v[a][c] + k[a][r] /\ v[a][c] = w[<<a, c>>]
      BY <2>1
    <3>5. g[q] = g[s \X C] + k[a][r] /\ k[a][r] \in Nat /\ v[a][c] \in Nat /\ r \cup {c} \in SUBSET C
      BY <2>5, <2>2
    <3>6. g[(s \X C) \cup ({a} \X (r \cup {c}))] = g[s \X C] + k[a][r \cup {c}]
      <4>1. g[(s \X C) \cup ({a} \X (r \cup {c}))] = v[a][c] + g[q]
        BY <3>2, <3>3, <3>4
      <4> HIDE DEF q, K, G
      <4>2. QED
        BY <2>3, <3>4, <3>5, <4>1
    <3>7. QED
      BY <3>5, <3>6
  <2>6. C \in K
    <3> HIDE DEF K
    <3>1. QED
      BY <2>4, <2>5, FiniteGrowth
  <2>7. (s \X C) \cup ({a} \X C) = (s \cup {a}) \X C
    OBVIOUS
  <2>8. g[(s \cup {a}) \X C] = g[s \X C] + u[a]
    BY <2>6, <2>7
  <2>9. h[s \cup {a}] = u[a] + h[s] /\ g[s \X C] = h[s] /\ h[s] \in Nat /\ u[a] \in Nat
    BY <1>0, <1>1, <1>3
  <2>10. s \cup {a} \in SUBSET A
    OBVIOUS
  <2> HIDE DEF K
  <2>11. QED
    BY <2>8, <2>9, <2>10
<1>4. A \in G
  <2> HIDE DEF G
  <2>1. QED
    BY <1>2, <1>3, FiniteGrowth
<1>5. QED
  BY <1>4

\* There is one such sum.
LEMMA SumsUnique ==
  ASSUME NEW S, NEW w, NEW g, Sums(w, S, g), NEW f, AddsUp(w, S, f)
  PROVE  f = g
<1>1. IsFiniteSet(S) /\ g \in [SUBSET S -> Nat] /\ AddsUp(w, S, g)
  BY DEF Sums
<1>2. /\ \A s \in SUBSET S : g[s] = IF s = {} THEN 0 ELSE w[Some(s)] + g[s \ {Some(s)}]
      /\ \A s \in SUBSET S : f[s] = IF s = {} THEN 0 ELSE w[Some(s)] + f[s \ {Some(s)}]
  BY <1>1 DEF AddsUp
<1> DEFINE T == {n \in Nat : \E s \in SUBSET S : Cardinality(s) = n /\ f[s] # g[s]}
<1>3. ASSUME NEW r \in SUBSET S, f[r] # g[r] PROVE FALSE
  <2>1. Cardinality(r) \in T
    BY <1>1, <1>3, FS_Subset, FS_CardinalityType
  <2>2. PICK m \in T : \A k \in T : m <= k
    <3>1. T \subseteq Nat /\ T # {}
      BY <2>1
    <3> HIDE DEF T
    <3>2. QED
      BY <3>1, LeastNat
  <2>3. PICK s \in SUBSET S : Cardinality(s) = m /\ f[s] # g[s]
    BY <2>2
  <2>4. s # {}
    BY <1>2, <2>3
  <2>5. /\ s \ {Some(s)} \in SUBSET S /\ Cardinality(s \ {Some(s)}) = m - 1
        /\ m \in Nat /\ m - 1 \in Nat
    BY <1>1, <2>3, <2>4, SmallerSubset
  <2>6. m - 1 \notin T
    <3> HIDE DEF T
    <3>1. m - 1 \in T => m <= m - 1
      BY <2>2
    <3>2. QED
      BY <2>5, <3>1
  <2>7. f[s \ {Some(s)}] = g[s \ {Some(s)}]
    BY <2>5, <2>6
  <2>8. QED
    BY <1>2, <2>3, <2>4, <2>7
<1>4. f = [s \in SUBSET S |-> f[s]]
  BY DEF AddsUp
<1>5. QED
  BY <1>1, <1>3, <1>4

\* A sum of zeros.
LEMMA SumOfZeros ==
  ASSUME NEW S, NEW w, NEW g, Sums(w, S, g), \A x \in S : w[x] = 0
  PROVE  g[S] = 0
<1> DEFINE G == {s \in SUBSET S : g[s] = 0}
<1>1. IsFiniteSet(S) /\ g[{}] = 0 /\ \A s \in SUBSET S : \A x \in S \ s : g[s \cup {x}] = w[x] + g[s]
  <2>1. IsFiniteSet(S)
    BY DEF Sums
  <2>2. QED
    BY <2>1, SumsOne
<1>2. {} \in G /\ \A s \in SUBSET S : s \in G => \A x \in S \ s : s \cup {x} \in G
  BY <1>1
<1>3. S \in G
  <2> HIDE DEF G
  <2>1. QED
    BY <1>1, <1>2, FiniteGrowth
<1>4. QED
  BY <1>3

-----------------------------------------------------------------------------
(* What /.cfs_stats adds up.                                                   *)

\* MapThenSumSet, for the summands that accumulate_stats and the property add up.
SizeSaved(id) == MapThenSumSet(LAMBDA i : Load(id).comp[i], ChunkIdx)

\* The inner sum of accumulate_stats, over the chunks of one file.
LEMMA SumChunks ==
  ASSUME NEW id \in Ids, NEW w, NEW g, Sums(w, ChunkIdx, g), \A i \in ChunkIdx : w[i] = Load(id).comp[i]
  PROVE  SizeSaved(id) = g[ChunkIdx]
<1> DEFINE Iter(f) == f = [s \in SUBSET ChunkIdx |-> IF s = {} THEN 0
                             ELSE Load(id).comp[CHOOSE x \in s : TRUE] + f[s \ {CHOOSE x \in s : TRUE}]]
<1>1. \A f : Iter(f) <=> AddsUp(w, ChunkIdx, f)
  BY DEF AddsUp, Some
<1>2. Iter(CHOOSE f : Iter(f))
  <2> HIDE DEF Iter
  <2>1. Iter(g)
    BY <1>1 DEF Sums
  <2>2. QED
    BY <2>1, Zenon
<1>3. (CHOOSE f : Iter(f)) = g
  BY <1>1, <1>2, SumsUnique
<1>4. SizeSaved(id) = (CHOOSE f : Iter(f))[ChunkIdx]
  BY DEF SizeSaved, MapThenSumSet, MapThenFoldSet
<1>5. QED
  BY <1>3, <1>4

\* The outer sum, over the names in the index.
LEMMA SumCounted ==
  ASSUME NEW w, NEW g, Sums(w, Counted, g),
         \A p \in Counted : w[p] = SizeSaved(index[p])
  PROVE  StatsCompressed = g[Counted]
<1> DEFINE size(p) == SizeSaved(index[p])
           Iter(f) == f = [s \in SUBSET Counted |-> IF s = {} THEN 0
                             ELSE size(CHOOSE x \in s : TRUE) + f[s \ {CHOOSE x \in s : TRUE}]]
<1>1. StatsCompressed = (CHOOSE f : Iter(f))[Counted]
  BY DEF StatsCompressed, SizeSaved, MapThenSumSet, MapThenFoldSet
<1> HIDE DEF size
<1>2. \A f : Iter(f) <=> AddsUp(w, Counted, f)
  <2>1. \A p \in Counted : w[p] = size(p)
    BY DEF size
  <2>2. QED
    BY <2>1 DEF AddsUp, Some
<1>3. Iter(CHOOSE f : Iter(f))
  <2> HIDE DEF Iter
  <2>1. Iter(g)
    BY <1>2 DEF Sums
  <2>2. QED
    BY <2>1, Zenon
<1> HIDE DEF Iter
<1>4. (CHOOSE f : Iter(f)) = g
  BY <1>2, <1>3, SumsUnique
<1>5. QED
  BY <1>4, <1>1

\* The sum that it is compared with, over all chunk files.
LEMMA SumOnDisk ==
  ASSUME NEW w, NEW g, Sums(w, Ids \X ChunkIdx, g),
         \A x \in Ids \X ChunkIdx : w[x] = Store!DiskSize(x[1], x[2])
  PROVE  MapThenSumSet(LAMBDA x : Store!DiskSize(x[1], x[2]), Ids \X ChunkIdx) = g[Ids \X ChunkIdx]
<1> DEFINE S == Ids \X ChunkIdx
           size(x) == Store!DiskSize(x[1], x[2])
           Iter(f) == f = [s \in SUBSET S |-> IF s = {} THEN 0
                             ELSE size(CHOOSE x \in s : TRUE) + f[s \ {CHOOSE x \in s : TRUE}]]
<1>1. MapThenSumSet(LAMBDA x : Store!DiskSize(x[1], x[2]), S) = (CHOOSE f : Iter(f))[S]
  BY DEF MapThenSumSet, MapThenFoldSet
<1>2. \A f : Iter(f) <=> AddsUp(w, S, f)
  <2>1. \A x \in S : w[x] = size(x)
    OBVIOUS
  <2> HIDE DEF size, S
  <2>2. QED
    BY <2>1 DEF AddsUp, Some
<1>3. Iter(CHOOSE f : Iter(f))
  <2> HIDE DEF Iter
  <2>1. Iter(g)
    BY <1>2 DEF Sums
  <2>2. QED
    BY <2>1, Zenon
<1> HIDE DEF Iter
<1>4. (CHOOSE f : Iter(f)) = g
  BY <1>2, <1>3, SumsUnique
<1>5. QED
  BY <1>4, <1>1

\* Between requests, and until a crash, the metadata of every name in the index counts what its chunk
\* files take up, and a file without a name has none.
LEMMA CountedExactly ==
  ASSUME FullInv, crashes = 0, \A t \in Threads : pc[t] = "idle"
  PROVE  /\ \A p \in Counted : index[p] \in Ids
         /\ \A p, q \in Counted : index[p] = index[q] => p = q
         /\ \A p \in Counted : \A i \in ChunkIdx : Load(index[p]).comp[i] = Len(chunkFile[index[p]][i])
         /\ \A id \in Ids : (\A p \in Counted : index[p] # id) =>
              \A i \in ChunkIdx : Len(chunkFile[id][i]) = 0
<1>0. /\ index \in [Paths -> Ids \cup {NoId}] /\ NamesDistinct
      /\ \A id \in Ids : FileOK(id)
      /\ metaFile \in [Ids -> FileMeta \cup {NoMeta}] /\ chunkFile \in [Ids -> [ChunkIdx -> Chunk]]
  BY Others DEF FullInv, DataInv, DataOK, TypeInv, TypeOK, MetaTypeOK, NameInv
<1>1. \A p \in Counted : p \in Paths /\ index[p] \in Ids /\ Stored(index[p])
  BY <1>0 DEF Counted
<1>2. \A p, q \in Counted : index[p] = index[q] => p = q
  BY <1>0, <1>1, NoIdAssumption DEF NamesDistinct
<1>3. \A t \in Threads, id \in Ids : ~Changes(t, id) /\ ~Removes(t, id) /\ ~Brings(t, id)
  BY DEF Changes, Removes, Brings
<1>4. ASSUME NEW p \in Counted, NEW i \in ChunkIdx
      PROVE  Load(index[p]).comp[i] = Len(chunkFile[index[p]][i])
  <2>1. PICK id \in Ids : id = index[p]
    BY <1>1
  <2>2. Sound(metaFile[id], id) /\ Fits(metaFile[id], chunkFile[id]) /\ Stored(id)
    BY <1>0, <1>1, <1>3, <2>1 DEF FileOK
  <2>3. metaFile[id] \in FileMeta
    BY <1>0, <2>2 DEF Stored
  <2>4. Load(id).comp = metaFile[id].comp
    BY <2>2, <2>3 DEF Load, Parse, Sound, FileMeta
  <2>5. metaFile[id].comp[i] = Len(chunkFile[id][i])
    <3>1. CASE i < metaFile[id].n
      BY <2>2, <3>1 DEF Fits, DiskSizes
    <3>2. CASE ~(i < metaFile[id].n)
      <4>1. metaFile[id].n \in Nat /\ i \in Nat
        BY <2>3, ChunkIdxNat, MaxChunksAssumption DEF FileMeta
      <4>2. chunkFile[id][i] = <<>>
        BY <2>2, <3>2, <4>1 DEF Fits
      <4>3. QED
        BY <2>2, <3>2, <4>2 DEF Fits, DiskSizes
    <3>3. QED
      BY <3>1, <3>2
  <2>6. QED
    BY <2>1, <2>4, <2>5
<1>5. ASSUME NEW id \in Ids, \A p \in Counted : index[p] # id, NEW i \in ChunkIdx
      PROVE  Len(chunkFile[id][i]) = 0
  <2>1. \A p \in Paths : index[p] # id
    <3>1. \A p \in Paths : index[p] = id => Stored(id)
      BY <1>0, <1>3 DEF FileOK
    <3>2. QED
      BY <1>5, <3>1, NoIdAssumption DEF Counted
  <2>2. Blank(id)
    BY <1>0, <1>3, <2>1 DEF FileOK, Unnamed
  <2>3. QED
    BY <2>2 DEF Blank
<1>6. QED
  BY <1>1, <1>2, <1>4, <1>5

\* Both ways of adding up come to the same.
LEMMA StatsAddUp ==
  ASSUME FullInv, IsFiniteSet(Ids), crashes = 0, \A t \in Threads : pc[t] = "idle"
  PROVE  StatsCompressed = MapThenSumSet(LAMBDA x : Store!DiskSize(x[1], x[2]), Ids \X ChunkIdx)
<1> DEFINE len(id) == [i \in ChunkIdx |-> Len(chunkFile[id][i])]
           v == [id \in Ids |-> len(id)]
           w == [x \in Ids \X ChunkIdx |-> Store!DiskSize(x[1], x[2])]
<1>0. chunkFile \in [Ids -> [ChunkIdx -> Chunk]]
  BY Others DEF FullInv, TypeInv
<1>1. IsFiniteSet(ChunkIdx) /\ IsFiniteSet(Ids \X ChunkIdx)
  <2>1. IsFiniteSet(ChunkIdx)
    BY MaxChunksAssumption, FS_Interval DEF ChunkIdx
  <2>2. QED
    BY <2>1, FS_Product
<1>2. \A id \in Ids, i \in ChunkIdx : Len(chunkFile[id][i]) \in Nat
  BY <1>0 DEF Chunk
<1>3. v \in [Ids -> [ChunkIdx -> Nat]] /\ w \in [Ids \X ChunkIdx -> Nat]
  BY <1>2 DEF Store!DiskSize
<1> DEFINE k == [id \in Ids |-> CHOOSE g : Sums(v[id], ChunkIdx, g)]
           u == [id \in Ids |-> k[id][ChunkIdx]]
<1>4. \A id \in Ids : Sums(v[id], ChunkIdx, k[id])
  <2> SUFFICES ASSUME NEW id \in Ids PROVE Sums(v[id], ChunkIdx, k[id])
    OBVIOUS
  <2>1. v[id] \in [ChunkIdx -> Nat]
    BY <1>3
  <2> HIDE DEF v
  <2>2. \E g : Sums(v[id], ChunkIdx, g)
    BY <1>1, <2>1, SumsExist
  <2>3. k[id] = CHOOSE g : Sums(v[id], ChunkIdx, g)
    OBVIOUS
  <2> HIDE DEF k
  <2>4. QED
    BY <2>2, <2>3
<1> HIDE DEF k
<1>5. u \in [Ids -> Nat]
  <2>1. \A id \in Ids : k[id][ChunkIdx] \in Nat
    BY <1>4 DEF Sums
  <2>2. QED
    BY <2>1
<1> DEFINE c == [p \in Counted |-> u[index[p]]]
<1>6. c \in [Counted -> Nat] /\ IsFiniteSet(Counted)
  <2>1. \A p \in Counted : index[p] \in Ids
    BY CountedExactly
  <2>2. [p \in Counted |-> index[p]] \in Injection(Counted, Ids)
    BY <2>1, CountedExactly DEF Injection, IsInjective
  <2>3. QED
    BY <1>5, <2>1, <2>2, FS_Injection
<1>7. \A id \in Ids, i \in ChunkIdx : v[id][i] = w[<<id, i>>] /\ v[id][i] = Len(chunkFile[id][i])
  BY DEF Store!DiskSize
<1>8. \A x \in Ids \X ChunkIdx : w[x] = Store!DiskSize(x[1], x[2])
  OBVIOUS
<1>9. \A id \in Ids : u[id] = k[id][ChunkIdx]
  OBVIOUS
<1>10. \A p \in Counted : c[p] = u[index[p]]
  OBVIOUS
<1> HIDE DEF v, w, u, c
<1>11. PICK g : Sums(w, Ids \X ChunkIdx, g)
  BY <1>1, <1>3, SumsExist
<1>12. PICK h : Sums(u, Ids, h)
  BY <1>5, SumsExist
<1>13. PICK f : Sums(c, Counted, f)
  BY <1>6, SumsExist
<1>14. g[Ids \X ChunkIdx] = h[Ids]
  <2>1. \A id \in Ids : /\ Sums(v[id], ChunkIdx, k[id]) /\ u[id] = k[id][ChunkIdx]
                        /\ \A i \in ChunkIdx : v[id][i] = w[<<id, i>>]
    BY <1>4, <1>7, <1>9
  <2>2. QED
    BY <1>1, <1>11, <1>12, <2>1, SumPairs
<1>15. f[Counted] = h[Ids]
  <2>1. \A id \in Ids : (\A p \in Counted : index[p] # id) => u[id] = 0
    <3> SUFFICES ASSUME NEW id \in Ids, \A p \in Counted : index[p] # id PROVE k[id][ChunkIdx] = 0
      BY <1>9
    <3>1. \A i \in ChunkIdx : Len(chunkFile[id][i]) = 0
      BY CountedExactly
    <3>2. \A i \in ChunkIdx : v[id][i] = 0
      BY <1>7, <3>1
    <3>3. PICK vv, kk : vv = v[id] /\ kk = k[id]
      OBVIOUS
    <3>4. Sums(vv, ChunkIdx, kk) /\ \A i \in ChunkIdx : vv[i] = 0
      BY <1>4, <3>2, <3>3
    <3>5. QED
      BY <3>3, <3>4, SumOfZeros
  <2>2. PICK o \in [Counted -> Ids] : \A p \in Counted : o[p] = index[p]
    <3>1. [p \in Counted |-> index[p]] \in [Counted -> Ids]
      BY CountedExactly
    <3>2. QED
      BY <3>1
  <2>3. \A p, q \in Counted : o[p] = o[q] => p = q
    BY <2>2, CountedExactly
  <2>4. /\ \A p \in Counted : u[o[p]] = c[p]
        /\ \A id \in Ids : (\A p \in Counted : o[p] # id) => u[id] = 0
    BY <1>10, <2>1, <2>2
  <2>5. QED
    BY <1>12, <1>13, <2>3, <2>4, SumMoved
<1>16. StatsCompressed = f[Counted]
  <2>1. ASSUME NEW p \in Counted
        PROVE  c[p] = SizeSaved(index[p])
    <3>1. PICK id \in Ids : id = index[p]
      BY CountedExactly
    <3>2. \A i \in ChunkIdx : v[id][i] = Load(id).comp[i]
      BY <1>7, <3>1, CountedExactly, ZenonT(60)
    <3>3. PICK vv, kk : vv = v[id] /\ kk = k[id]
      OBVIOUS
    <3>4. Sums(vv, ChunkIdx, kk) /\ \A i \in ChunkIdx : vv[i] = Load(id).comp[i]
      BY <1>4, <3>2, <3>3
    <3>5. SizeSaved(id) = kk[ChunkIdx]
      BY <3>4, SumChunks
    <3>6. c[p] = kk[ChunkIdx]
      BY <1>9, <1>10, <3>1, <3>3
    <3>7. QED
      BY <3>1, <3>5, <3>6
  <2>2. QED
    BY <1>13, <2>1, SumCounted
<1>17. QED
  BY <1>8, <1>11, <1>14, <1>15, <1>16, SumOnDisk, ZenonT(60)

\* The numbers of accumulate_stats add up: between requests, and until a crash, the compressed size that
\* /.cfs_stats shows is the sum of the sizes of all the chunk files there are.
THEOREM StatsAreExact ==
  IsFiniteSet(Ids) /\ ReuseIds = FALSE /\ PathsReadBack /\ Spec /\ []ChmodApart => []StatsExact
<1> SUFFICES ASSUME IsFiniteSet(Ids), ReuseIds = FALSE, PathsReadBack
             PROVE  Spec /\ []ChmodApart => []StatsExact
  OBVIOUS
<1>1. FullInv => StatsExact
  <2> SUFFICES ASSUME FullInv, crashes = 0, \A t \in Threads : pc[t] = "idle"
               PROVE  StatsCompressed = MapThenSumSet(LAMBDA x : Store!DiskSize(x[1], x[2]), Ids \X ChunkIdx)
    BY DEF StatsExact, Stats
  <2>1. QED
    BY StatsAddUp
<1>2. QED
  BY <1>1, DataInvariant, PTL
=============================================================================
