# CrunchFS in TLA+

CrunchFS is a user-space file system: a FUSE daemon that keeps every file of a
flat directory as zstd-compressed chunks of a backing directory. This directory
holds TLA+ specifications of the daemon, TLC configurations that check them on
small mounts, and proofs of some of their properties. The source is under
`src/src/`; paths below are relative to that unless they name a document.

## 1. Inventory

| Component | State | Operations | What makes it correct |
|---|---|---|---|
| FUSE handlers (`fuse_ops.cpp`) | locals of each running handler | create, read, write, truncate, unlink, rename, utimens, chmod; getattr, readdir, open and `/.cfs_stats`, which only look | names and files agree; metadata accounts for the chunks; reads return what was written; every request is answered |
| Per-file locks (`fuse_ops.cpp:26-34`, `:210-212`) | `g_file_locks`: id -> `shared_mutex*` | `file_lock` creates on first use, handlers and pool tasks lock, `cfs_unlink` deletes | handlers of one file exclude each other; nobody uses a deleted mutex |
| MetaStore (`metadata.cpp`) | `index_` (path -> id), `index.txt`, one `<id>.meta` per file | load, save, remove, index_add, index_remove, list_paths, accumulate_stats, load_index at mount | memory and `index.txt` agree; what is saved reads back; what a crash leaves |
| ChunkStore (`chunk_store.cpp`) | one `<id>_<i>.dat` per chunk | read, write, remove one or all, size | nothing is left behind, nothing else is touched |
| ThreadPool (`thread_pool.cpp`) | queue, `active_`, `stop_`, two condition variables | enqueue, wait_all, destructor, the workers' loop | a caller leaves `wait_all` only when none of its tasks can still touch its frame; no wake-up is lost; the destructor returns |
| Compression library (`conpresslib.cpp`) | none kept | `compress_file_chunks`, `decompress_file_chunks`, wrappers of zstd | a round trip gives the bytes back; the index arithmetic stays inside the chunk |
| Daemon start and stop (`main.cpp`, `fuse_ops.cpp:260-273`) | `g_cfg`, working directory | preparing the backing directory, `init`, `destroy` | files go where the user said |
| Single-file daemon (`passthrough_cfs.cpp`), an earlier implementation that `CMakeLists.txt` does not build | handles with whole files; data, metadata and index files; the tree of the backing directory | open, create, write, truncate, flush, unlink, rename; mkdir, rmdir, mknod, symlink, link, getattr, readdir | what was answered stays; readdir, getattr and the metadata agree |
| Backend interface, `test.cpp`, `demo-tool-test/` | none | a second zstd wrapper nothing uses; a test program; a demo | - |

### How they interact

libfuse runs handlers on several threads at once. A handler looks the path up in
MetaStore (`mu_` held for the look-up only), fetches the file's mutex from
`g_file_locks` (`g_locks_mu` held for that only), locks it, loads the metadata,
changes chunk files, saves the metadata. `cfs_read` is different: it holds the
shared lock only while it loads the metadata, then enqueues one lambda per chunk
that captures its frame *by reference*, and each lambda, on a pool thread, takes
the shared lock again. `cfs_rename` and `cfs_chmod` take no file lock.
`wait_all` waits for the whole pool, not for the caller's own tasks.

### What is hard

* the order of the steps of two handlers, and of a handler and the pool's tasks:
  each of the locks above covers less than a handler;
* the lifetime of mutexes (deleted by unlink) and of `cfs_read`'s frame;
* ids that are hashes of the name a file was *created* with, while `rename`
  changes the name;
* the one request that waits for no directory lock: libfuse's unlink of an open file
  that was deleted, when its last handle is released;
* ids that outlive the index: after a crash an id may have metadata and chunks
  without a name, and be taken again;
* crashes: `.meta`, `index.txt` and chunk files are rewritten in place;
* chunk arithmetic at every alignment of offset, length and size;
* wake-ups of two condition variables; a destructor that must wake everybody.

The full list, with lines, is `hazards` in `PROJECT.json`.

## 2. Modules

| Module | Models | Notes |
|---|---|---|
| `TaskPool` | what `cfs_read` relies on from the pool | abstract |
| `ThreadPool` | `thread_pool.cpp`, with callers that do what `cfs_read` does | implements `TaskPool` |
| `ChunkData` | chunk arithmetic, what a write leaves in a chunk, how a read puts its answer together | operators only |
| `ByteSeq`, `ByteFile` | a file as a sequence of bytes | abstract |
| `ChunkFile`, `MCChunkFile` | write, truncate and read of one file, one after the other | implements `ByteFile` where stated below |
| `MetaStore` | `metadata.cpp` | state and operators, composed by `FuseOps` |
| `ChunkStore` | `chunk_store.cpp` | the same, by `INSTANCE` |
| `FileLocks` | `g_file_locks` | the same |
| `FuseOps`, `MCFuseOps` | `fuse_ops.cpp`: all handlers, the pool's tasks, crash and mount | composes the three above |
| `FuseStore`, `MCFuseStore` | what programs have been told of each file, beside `FuseOps` | history variables; abstract |
| `CompressLib`, `MCCompressLib` | the two loops of `conpresslib.cpp` | |
| `SingleFile`, `MCSingleFile` | `passthrough_cfs.cpp`: handles, data, metadata and index, with crashes and failing calls | on its own |
| `SingleTree` | `passthrough_cfs.cpp`: directories, special files, listing | on its own |
| `Daemon` | `main.cpp`, `init` and `destroy` as to where files are stored | on its own |
| `ThreadPoolProofs`, `ChunkFileProofs`, `CompressLibProofs`, `SingleFileProofs`, `SingleTreeProofs` | theorems about the module of that name | section 4 |
| `ChunkDataProofs` | lemmas about the operators of `ChunkData`: what a write leaves in a chunk, which place a byte has, what a read collects | used by the proofs of `ChunkFile`, `FuseOps` and `FuseStore` |
| `FuseOpsProofs` | theorems about `FuseOps`: types, names and locks; metadata and chunks; the sums of the statistics | section 4 |
| `FuseStoreProofs` | theorems about `FuseStore`: the bytes on disk, what reads return | extends `FuseOpsProofs` |

### Correspondence

*ThreadPool.* A critical section of `mu_` is one action: `Sleep`, `Exit` and
`Pop` are the three outcomes of lines 10-15, `RunTask` line 17, `Finish` lines
19-21. `Push` and `NotifyOne` are separate because `enqueue` notifies after it
releases `mu_`. `SleepInWait` and `ReturnFromWait` are the two outcomes of the
predicate in `wait_all`; both condition variables may wake spuriously. The
destructor is `SetStop`, `NotifyAll`, `Join`; libfuse calls `destroy` after its
threads are gone, so `SetStop` requires that no caller is inside.
A task is represented by the caller whose frame it refers to. A task that throws
would end the process and is left out.

*FuseOps.* `pc[t]` says where the handler of libfuse thread `t` is; `frame[t]`
holds its local variables under the source's names (`id`, `eid`, `m`, `ci`);
`task[t][ci]` is the lambda for chunk `ci`. Steps are cut where other threads
can see the difference: between two critical sections of MetaStore, ChunkStore,
`g_locks_mu` or a file lock. What one mutex covers is one step, and so are
consecutive operations on a file under its exclusive lock that no other thread
reads in between (`Trim`: the deletions of a truncate; `WriteChunk`: one turn of the loop of
a write, with the sizes recomputed after the last turn). `chmod` and `rename`,
which read metadata without the lock, see the states between these steps.

    handler      steps
    cfs_create   Begin, CreateSave, CreateIndex
    cfs_read     Begin, FileLock, ReadLoad, (TaskStart, TaskLock, TaskRead)*, ReadReply
    cfs_write    Begin, FileLock, WriteLock, WriteChunk*, SaveMeta
    cfs_truncate Begin, FileLock, WriteLock, Trim, SaveMeta
    cfs_utimens  Begin, FileLock, WriteLock, SaveMeta
    cfs_unlink   Begin, FileLock, WriteLock, UnlinkChunks, UnlinkMeta, UnlinkIndex, UnlinkLock
    cfs_rename   Begin, RenameVictim, [RenameErase, RenameDrop], RenameLoad, RenameSave, RenameOut, RenameIn
    cfs_chmod    Begin, ChmodLoad, ChmodSave

`FileLock` (fetching the reference) and the locking itself are two steps,
because the mutex may be deleted in between; `gen[id]` counts deletions, so a
stale reference is visible. The pool is seen through its abstraction: any queued
task may start, and `ReadReply` waits for `PoolQuiescent`, which is `TaskPool`'s
`Return`. That is what `ThreadPool` is checked against.

*Data.* A chunk file is the bytes it decompresses to; zstd is external and
inverts itself. A missing chunk file and an empty one are the same to every
caller and both are `<<>>`. `Broken`, a chunk file that does not decompress, is a byte
string of its own, of the byte `Garbage` that nobody writes. `compressed_size` is a sum of stored sizes: the
model keeps the summands, which distinguishes more than the sum. An id is a
model value, `HashOf` the hash; a path's blanks are its number of words, which is
all the parser of `.meta` files notices of words that are not keys themselves. Times
are left out.

A read's tasks are queued in the step that loads the metadata, although the code enqueues
them one by one after it: a queued task may start late, and what other threads do in between
does not depend on the tasks that are not queued yet.

*FuseStore.* Its next-state relation is `FuseOps!Next` conjoined with the update of two
history variables. `bytes[id]` is what the answers so far have promised: it changes in
the step in which a handler saves or removes the file's metadata, to what `After` makes
of the old contents. `Unknown` stands for contents nobody can claim: a crash met a
handler that was changing the file (`Changing`), a chunk could not be stored, or the
file has a hole (`ChunkFile`'s subject); it lasts until the file is deleted or created
again. `seen[t]` collects the contents the file had, or was getting, while `t`'s read
fetches chunks.

*SingleFile.* A handler that changes files is cut at every system call that
replaces, removes or renames one (each file is written to a temporary name and
renamed over the old one, so a torn file cannot arise); opening, reading and
changing a handle is one step.

    cfs_flush, cfs_fsync, cfs_release  Flush, PutData, PutMeta, PutIndex
    cfs_truncate                       Ftruncate, or Truncate and the same three
    cfs_unlink                         Unlink, RmMeta, RmData, RmIndex
    cfs_rename                         Rename, [OverMeta, OverData], MvMeta, MvData, MvOut, MvIn

`Fail` ends the handler at any of them with an error, `Crash` ends the process.
A chunk table that is too short for its data makes zstd throw, which nothing
catches (`Throws`, `Die`). One handler runs at a time: `docs/metadata-format-v1.md:189`
asks for a single worker, though the program does not insist on it. A handle has
the `path` the code gave it and the name libfuse has for it now (`node`); libfuse
renames an open file that is to be removed, so `Unlink` and the target of
`Rename` are `Closed`. `acked` is an auxiliary variable: what a program knows of
a name from its answers.

*SingleTree.* One handler is one step. `real` is what the backing directory has at
a path, `meta` the ids with metadata, `index` the lines of `index.txt`; `Getattr`
and `Readdir` are the two ways the daemon looks at them. Before each request the
kernel walks to the name by getattr and refuses what does not fit (`Lookup`).
`open` is one open file with the path it was opened under (`path`) and libfuse's
name for it now (`node`). A new file is stored as soon as it is created:
`cfs_create` stores nothing, libfuse then asks `getattr`, is told `ENOENT`, and
releases the handle, which writes the empty file; the program gets `ENOENT` the
first time. (`SingleFile` lets such a handle be used, which allows more.)

    handlers     actions
    cfs_create, cfs_open, cfs_release            Create, Open, Release
    cfs_mkdir, cfs_mknod, cfs_symlink, cfs_link  Mkdir, Mknod, Symlink, Link
    cfs_unlink, cfs_rmdir, cfs_rename            Unlink, Rmdir, Rename
    cfs_getattr, cfs_readdir                     Getattr, Readdir

*Daemon.* `Prepare` is `main`'s three `create_directories`, `Daemonize` libfuse's
change of the working directory, `OpenStores` the constructors that `init` calls
with the same string; `Serve` is any write to a file named by it.

*Environment.* Taken from how libfuse and the kernel call the handlers, and
marked external in `map`: libfuse's path tree keeps `unlink` and `rename` alone
on the names they mention, and the kernel lets one program at a time change the
directory (`Compatible`). Libfuse itself is not held up by that. It renames an open
file that is deleted or replaced to a hidden name (`HiddenNames`, `.fuse_hidden*`), under
which it keeps its id, and when the last handle is released it calls `cfs_unlink` for
that name beside whatever else is running, create and rename included (`AtRelease`).
Then a create can take an id between `fuse_ops.cpp:209`, where the last name of the id
goes, and `:211`, where its mutex is deleted. `ReuseIds` says whether such a create, or
one of an id that a name still has, is among the behaviours: `ReuseIds = TRUE` is the
code as it is, `FALSE` admits a create only when its id is `Free`. The kernel's inode lock, which keeps most of write,
truncate and chmod apart, is *not* assumed: written-back pages of a mapping
bypass it. `create` of an existing name is answered `EEXIST` by the code.

*Crash.* `CrashAndMount` ends the process at any point and mounts again. Files are
opened with `ios::trunc` and written when the stream's buffer is full or the stream is
closed. A `.meta` file fits the buffer: a thread about to save leaves the old contents, the
new (the step was taken) or nothing (`TornMeta`). `index.txt` may be longer: a crash also
leaves the lines written so far, in any order (`index_` is a hash map), and of one more
line the beginning, which `load_index` skips or takes for a name with a piece of an id
(`TornIndex`; `IndexBuffer` is how many lines fill the buffer, `CutIds` the pieces there
can be; hashes have a fixed length, so none of them is one). A chunk file is left empty, or
`Broken`: with a size, but not decompressible (`TornChunk`; a failing write may leave the
same). A loop of removals may be cut anywhere. Loss of the host's page cache is not
modelled.

## 3. Runs

| Run | Question | Bounds |
|---|---|---|
| `ThreadPool` | does the pool keep its promises? | 2 workers, 2 callers, up to 2 tasks in each of 2 calls, then the unmount |
| `CompressLib` | do the two loops invert each other? | every buffer of 0-7 bits, chunks of 3, every range from the first chunk |
| `ChunkFile` | do chunks hold the bytes? | 3 chunks of 2 bytes, every offset, length and truncation, ramps as buffers |
| `FuseStore` | does the disk keep what was answered, do names, metadata, chunks and statistics agree, do the locks exclude, are reads regular? | 3 names, one of them hidden, 2 threads, 4 requests of 10, 1 crash, 1 fault; `index.txt` may be cut behind any line or inside one; threads are symmetric |
| `FuseFile` | does the metadata of a file hold under overlap, and is every request answered, also after a crash? | 3 names, all of files longer than their last chunk, 2 threads, 3 requests of 9, 1 crash, 1 fault |
| `SingleFile` | does the single-file daemon keep what it answered? | 2 names, 2 handles, files of 0-2 bits, 6 requests, 1 crash, 1 fault |
| `SingleTree` | do the two halves of the tree stay together? | 2 names, 2 levels, 1 open file, any number of requests |

Two bytes to a chunk give every alignment: first and last byte, inside, across a border.
Two or three chunks give a first, an inner and a last one. Two threads and their pool
tasks give every pair of overlapping actors; the locks compare pairs only. Three
requests give a lost update (two that overlap after one that set the size), four are
enough for "unlink, create, write, read" or "crash, create, write, read"; every handler
is short, and the properties relate at most two of them. In `SingleFile` six requests
are enough for "create, flush, rename, create, flush, open" with a crash in it, and two
bits and their compressed sizes give contents whose tables fit one another's data, are
too long and are too short for it.

### Properties

* `FrameSafe`: back from `wait_all`, no task refers to the caller's frame.
  `ActiveCounts`: `active_` counts popped tasks. `WaitReturns`, `DestroyReturns`:
  no lost wake-up. `AbstractSpec`: the pool implements `TaskPool`.
* `RoundTrip`; `InPlace`: `decompressed.size() - offset_in_chunk` never wraps.
* `ImplementsBytes`: write, shrink and read are operations on a byte sequence.
  `Accounted`: `n_chunks` and `compressed_size` describe the chunk files.
* `BytesKept`: a file that no handler is changing has, on disk, the size and bytes
  that were answered, whatever ran at the same time, whatever its id held before,
  and after a crash or a failing chunk in the middle of other requests; a deleted
  file is gone. No two writes of the run put the same byte anywhere.
* `ReadsRegular`: a read that meets writes is as long as the size it found allows,
  and each byte is the one the file had there before, between or after those writes.
* `NamespaceAgrees`: when no name is changing, and no change was cut short by a
  crash, `index_`, `index.txt`, `.meta` and chunk files agree. `StatsExact`: the
  statistics are those of the disk.
* `FileExclusion`, `LocksLive`: the file lock excludes; no deleted mutex is used, while
  no create takes an id in use, and whatever a hidden name's unlink runs beside.
  `SizeKept`: only a truncate shortens a file, so no metadata update is lost.
  `Answered`: every request comes back.
* `NamesDistinct`: two names never lead to one file. `NamesStored`: only a
  deletion, a replacement or a line of `index.txt` cut inside its id leaves a name
  without a file.

* `Durable`: what the single-file daemon answered stays true, also under a new
  name and over crashes and failures of requests for other files.
  `StoreAgrees`: without failures data, metadata and index agree between requests.
* `ListingExact`: readdir lists what getattr finds, and besides only directories
  that are gone and have left logical files. `FilesKept`: a logical file is lost
  alone with its index line, or with its directory, never by another file.

### Fairness

`WaitReturns`, `DestroyReturns` and `Answered` assume weak fairness of each
thread's next step: the OS runs every runnable thread, and tasks terminate.
Nothing is assumed about which waiter a `shared_mutex` or a condition variable
picks, about new requests, the unmount or spurious wake-ups. Weak fairness is
enough because the number of requests is bounded. Without the bound readers may
keep each other inside `wait_all` for ever, since it waits for all callers'
tasks, and a writer may starve behind readers.

### Runs that show a disagreement

Each of these is expected to fail; `findings` quotes what the repository says.

| Run | Shows |
|---|---|
| `ChunkFileHoles` | a write past a short last chunk makes reads short and moves later bytes forward; bytes cut off by a truncate come back when the file grows (TLC stops at the first it meets) |
| `FuseAlias` | `rename a b; create a` gives two names one id, and resets b's metadata |
| `FuseChmod` | chmod undoes the chunk count of an overlapping write |
| `FuseHidden` | a file is deleted while open, its name created again and written while the last handle of the old file is closed: the release deletes the mutex that the write has fetched |
| `DaemonRelative` | with a relative backing directory files go to another directory than the one `main` prepared |

The passing runs leave out exactly what these need: `ChunkFile` has no gap and no
extension, and in `FuseStore` they make a file's contents `Unknown`; `FuseStore` and
`FuseFile` do not create a name whose id another name still has, or whose mutex an
unlink is about to delete (`ReuseIds = FALSE`); `FuseFile` has a chmod of one file that nothing writes,
`FuseStore` none.

Known, and without a run of its own: a read that overlaps a truncate may return
zeros for removed chunks, so `ReadsRegular` excludes reads that meet a cut; a crash
while `index.txt` is rewritten loses all names or those behind the cut, one while
`.meta` is rewritten leaves a file of size 0 without an id, whose later writes are
answered and never saved, and one while a chunk is rewritten loses what was in it (all
states of `FuseStore`, whose `bytes` are then `Unknown`). `docs/metadata-format-v1.md:65`
asks for a temporary file and a rename "where possible"; the code does neither, and no
property says that the file under way survives. A blank in a name makes size,
chunk count and mode of its file read back as 0, 0 and 0644 (`metadata.cpp:61-72`, against
`docs/metadata-format-v1.md:135`): `Parse` models that, the runs have names of one or
three words, which read back, and the theorems that need it say so (`PathsReadBack`). A failing
`write_chunk` is acknowledged to the program (`Fault`); `utimens` ignores `UTIME_NOW`
and `UTIME_OMIT`. In the single-file daemon a crash between data and metadata
leaves a table that does not fit, two handles of a file undo each other's
flushes, and a file renamed while open is flushed under its old name; `SingleFile`
reaches all three, and its properties say what still holds. `SingleTree` reaches
directories that are removed or renamed although logical files are in them, a
directory that a rename brings over a logical file, a special file that is
renamed onto a logical one and vanishes under it, and a directory with metadata
(left by a late flush), whose rename moves the metadata. Its symbolic links lead to no
directory: `fs::is_directory` would follow one that does (`passthrough_cfs.cpp:412`).

## 4. Proofs

Every theorem holds for all values of the constants that the named assumptions
of its module allow: any sets of threads, paths, ids and requests, any chunk size, any
bounds. The assumptions are those the code gives (a chunk has at least one byte,
a hash of a path is an id, buffers consist of bytes) and those that keep the model's
own markers (`NoFile`, `NoId`, `Unknown`) apart from what they stand beside.

| Theorem | States | Hypotheses beyond `Spec` |
|---|---|---|
| `ThreadPoolProofs`: `TypeCorrect`, `ActiveCountsHolds`, `FrameSafeHolds` | `[]TypeOK`, `[]ActiveCounts`, `[]FrameSafe` | |
| `ThreadPoolProofs`: `ImplementsTaskPool` | `AbstractSpec` | |
| `FuseOpsProofs`: `TypeCorrect` | `[]TypeOK` | |
| `FuseOpsProofs`: `TwoNamesTwoFiles`, `LocksExclude`, `MutexesLive` | `[]NamesDistinct`, `[]FileExclusion`, `[]LocksLive` | `ReuseIds = FALSE` |
| `FuseOpsProofs`: `MetadataAccounts`, `IndexAgrees`, `SizesKept` | `[]Accounted`, `[]NamespaceAgrees`, `SizeKept` | `ReuseIds = FALSE`, `PathsReadBack`, `[]ChmodApart` |
| `FuseOpsProofs`: `StatsAreExact` | `[]StatsExact` | the same, and `IsFiniteSet(Ids)` |
| `FuseOpsProofs`: `NamesLeadSomewhere` | `NamesStored` | `ReuseIds = FALSE` |
| `FuseStoreProofs`: `BytesInvariant`, `BytesAreKept` | `[]StoreInv`, `[]BytesKept` | `ReuseIds = FALSE`, `PathsReadBack`, `[]ChmodApart` |
| `FuseStoreProofs`: `ReadsInvariant`, `ReadsAreRegular` | `[]ReadsInv`, `ReadsRegular` | the same, and `NoHoles` |
| `ChunkFileProofs`: `FileTypes`, `FileAccounted` | `[]TypeOK`, `[]Accounted` | |
| `ChunkFileProofs`: `ChunksHoldBytes` | `ImplementsBytes` | `GapWrites = FALSE`, `Extends = FALSE` |
| `CompressLibProofs`: `CopiesInPlace`, `ChunksRoundTrip` | `[]InPlace`, `[]RoundTrip` | |
| `SingleFileProofs`: `FileTypes`, `AnswersDurable`, `PlacesAgree` | `[]TypeOK`, `[]Durable`, `[]StoreAgrees` | |
| `SingleTreeProofs`: `TreeTypes`, `ListsWhatIsThere`, `FilesStay` | `[]TypeOK`, `[]ListingExact`, `FilesKept` | |

The hypotheses are the bugs. Each excludes what a failing run of section 3 shows, or
the blanks described there: `ReuseIds = FALSE` is what `FuseAlias` and `FuseHidden` do
without, `PathsReadBack` (a `.meta` file's parser gets past every path as past one word)
excludes names with an odd number of blanks, `ChmodApart` (a chmod does not
overlap with a write or truncate of its file) what `FuseChmod` shows, `GapWrites` and
`Extends` what `ChunkFileHoles` shows. The theorems with `ReuseIds = FALSE` are therefore
about the other ways to the same harm, not about the code as it is: `LocksExclude` and
`MutexesLive` say that, with the requests libfuse admits, a create which takes an id too
early is the only way to a deleted mutex in use, `TwoNamesTwoFiles` that it is the only way to two names of one file. The
unlink of a hidden name at the last release overlaps in them with every request. `NoHoles` is the same for `FuseStore`: the files that the first mount
finds end in their last chunk (`InitSize = Len(InitBytes)`). With a hole at the end of a
file a read that meets no write at all is cut short or shifted, as `ChunkFileHoles`
shows; holes that a request of the run would make turn the contents into `Unknown`.
`IsFiniteSet(Ids)` is no restriction on the code: hashes have 64 bits, and a sum over an
infinite set means nothing. `NamesLeadSomewhere` needs `ReuseIds = FALSE` only, and
holds through crashes, those that cut `index.txt` anywhere included.

### Arguments

*ThreadPool.* `FrameSafe` is not inductive: `ReturnFromWait` tests `active = 0`, and
that says something about tasks in workers only because `active` is the number of busy
workers. The inductive invariant is `IInv == TypeOK /\ ActiveCounts /\ FrameSafe`.
`BusyGrows` and `BusyShrinks` give the cardinality of the busy set across `Pop` and
`Finish`. For the refinement `RunningOwned` is added (a running task belongs to a
caller): `BeginCall` is `Enter`, `Push` is `Submit`, `Finish` is `Complete`,
`ReturnFromWait` is `Return` with nothing outstanding, and every other critical section
stutters; `Pop` moves a task from the queue to a worker, which `Outstanding` counts
alike.

*FuseOps, types.* `TypeOK` needs what a handler's place says about its request
(`HandlerOK`): in the loop of a write `ci` lies between the first and the last chunk of
the request, past the size check of a read `off < size`. The data part rests on
`ChunkDataProofs`: `Merge` gives a chunk, `DiskSizes` gives sizes, `Assemble` gives
bytes.

*FuseOps, names and locks.* `NameInv`: requests that run at the same time are
compatible, `index.txt` agrees with `index_`, ids have one name, a handler's id is
that of its path, except before create has added it and after unlink or rename has
removed it, and nobody else works on the file of a create, unlink or rename (`FilesApart`), which
the directory lock would give if libfuse respected it: the unlink of a hidden name has an id
that no name leads to any more, and a create that could take it is not `Free` to. `Effects` says once for all actions what each does to the index. `LockInv`:
who holds what (`Holding`), references are live before they are used (`RefsLive`), the
exclusive sections are held exclusively. The heart is that a thread past `FileLock`
keeps unlink of its path away by libfuse's path tree, and an unlink of another path has
another id (`FilesApart`), so the mutex it fetched is not deleted.

*FuseOps, data.* `DataInv` states, until a crash, for each file what index, metadata and
chunk files say of each other unless some handler `Changes`, `Removes` or `Brings` it,
and for each handler what its local variables are worth (`LocalsOK`): for instance, in
the loop of a write the loaded metadata is still that of the disk, and no chunk lies
beyond both `n` and `ci`. `Private` and `Sole` say who else may know the id, from
`LockInv` for handlers with the lock and from `NameInv` for create, unlink and rename.
An action that works on one file then has to be looked at for that file and that handler
only (`DataStep`, `OthersKnow`). `chmod` has no lock; `ChmodApart` is what it would
need. `NamesStored` needs the smaller `StoredInv` (a handler about to add a name has metadata
for it) and `NameInv` for the unlink that runs beside it; crashes keep both.

*FuseOps, statistics.* `DataInv` says for each file that its saved sizes are those of
its chunk files, for each name that it leads to a file of its own, and that an id
without metadata has no chunks; what is left is to equate a sum over names of sums over
chunks with one sum over pairs. `MapThenSumSet` folds by a recursive function that takes
an arbitrary element at each step. `Sums(w, S, g)` states what such a function computes;
`SumsExist` and `SumsUnique` say that there is exactly one, by the least cardinality at
which it would fail, so no induction over an operator is needed; then `SumsOne` adds any
one element, `SumMoved` carries a sum along an injection that misses zeros only, and
`SumPairs` splits a sum over a product.

*FuseStore, bytes.* `BytesKept` speaks of files at rest, so `StoreInv` has to say what
is true in the middle of each handler. It adds `BytesOK` to the type, name and lock
invariants. `StoredBytes(id)`: the stored metadata has the promised size and parses
back, and unless some handler `Changes` the file its chunks hold each promised byte at
its place. `BytesLocals(t)`: in the loop of a write the chunks before `ci` hold the new
contents and the others the old ones, and the loaded size is still the old one
(`Written`); once a truncate has removed its chunks, the kept ones hold the new
contents; before each save of metadata what is about to be saved fits what the save
promises. A step changes what is promised of at most one file, and whoever else knows
that file is kept out by the lock or by libfuse's path tree (`BytesStep`, from
`Private`). Unlike `DataInv` this holds after crashes too: `Unknown` takes back what a
crash may have torn, and `CrashBytes` shows that it tears nothing else. A chunk that an
earlier, crashed life of an id left behind does no harm, because metadata counts the
chunks, and a write reads back only those that are counted. `CleanInv` says that a chunk
of promised bytes is not `Broken`: no request writes `Garbage`.

*FuseStore, reads.* `ReadsInv` adds, for each read that waits for its tasks, that each
chunk fetched so far is a whole chunk of *one* of the contents in `seen` (`ReadOK`): the
task holds the shared lock while it reads, so no write is half-way through that chunk
(`ReaderShares`, `CalmBytes`), and a chunk fetched earlier stays a chunk of contents
that `seen` keeps. Two chunks may come from different contents, which is why the answer
is regular and not atomic. `PoolQuiescent` turns "every fetched chunk" into "every
chunk", and `RangeAnswer` says what `Assemble` makes of chunks of different contents.
The reads of `ChunkFile` (`RangeBytes`) rest on the same lemma, with one contents.

*ChunkFile.* `Sane == TypeOK /\ Accounted` is inductive with gaps and extensions. For
the refinement `Filled` is added: every byte below `size` is inside its chunk, which is
what gaps and extensions destroy. Byte `k` of the file has the place `PlaceOf(k)` of
chunk `ChunkOf(k)`; `MergeBytes` says what a write leaves there and `AssembleBytes` what
a read collects. `Assemble` uses the community modules' `FlattenSeq`, a recursive
function; `FlatteningExists` proves that the function is there by the least length at
which it would not be, so no induction over an operator is needed.

*CompressLib.* `LibInv` says that the chunks cut so far are the pieces of the buffer
(`Cutting`), and that `result` is the buffer from `offset` on and `next` the chunk its
end is in (`Joining`). `InPlace` follows by dividing that position by the chunk size.

*SingleFile.* `FileInv` says at each `pc` which of the files of `cur.path` and `cur.to` are up
to date (`DoneOK`, `MovedOK`), that what is known of any other path is on the disk
(`KeptOK`), and that without failures the three places disagree only where the
handler is (`AgreeOK`). A failure or a crash forgets nothing, because
nothing is claimed of the paths the handler was at.

*SingleTree.* `TreeInv` says that metadata and lines of `index.txt` go together, and
that whatever the backing directory has at a path, it has a directory at every path
above it (`DirsAbove`). The hard case is the rename of a directory (`RenamedDirs`): a
path under the new name came from under the old one, where its directories moved too
(`MovedAbove`), or lies above the new name, which was looked up; nothing that was under
the replaced name is left. `ListingExact` follows, and `FilesKept` from the two handlers
that take metadata away (`MetaLost`).

### Only model-checked

* `WaitReturns`, `DestroyReturns`, `Answered`: liveness under fairness is out of the prover's reach.

Every other property that a run expects to hold is stated by a theorem of this section,
for the specification that the run checks. The constants and requests of `FuseStore`
meet all the hypotheses, those of `FuseFile` all but `NoHoles`, which its properties do
not need.

## 5. Not modelled

`test.cpp`, the demo and the unused backend interface have no state of interest.
Times, the text of `/.cfs_stats` (only its sums are modelled), its
shadowing of a file of that name, tabs and newlines in names, failing
metadata writes, exceptions thrown in a pool task, hash collisions of two
different names, and `rename_chunks`, which nothing calls, are left out.
Two daemons over one backing directory are left out.
Of `passthrough_cfs.cpp`, modes, owners, times, `statfs`, the contents of special files,
more than one chunk to a file, and several workers are left out.

## 6. State and what could follow

Done: all components of section 1 that have state, with proofs of all properties but
liveness. What would extend the model, in this order: failing metadata writes (`save`,
`save_index`), which the code does not notice; two daemons over one backing directory;
the exact contents of a read that meets a cut, for which the code promises nothing so
far.
