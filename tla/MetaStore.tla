----------------------------- MODULE MetaStore -----------------------------
(***************************************************************************)
(* MetaStore (metadata.cpp): the index from logical paths to file ids, in  *)
(* memory and in index.txt, and one text file of metadata per id.  Every   *)
(* method runs under mu_, so each operator below is part of one step; what *)
(* a crash can leave of a file that was being rewritten is given apart.    *)
(***************************************************************************)
EXTENDS ChunkData

CONSTANTS Paths,         \* logical paths, "/name"
          Ids,           \* file ids
          NoId,          \* the empty string: not in the index
          NoMeta,        \* no .meta file
          HashOf,        \* HashOf[p]: the FNV-1a hash of p in hex, the id create gives p
          Words,         \* Words[p]: how many blank-separated words p has
          Modes,         \* permission bits
          DefaultMode,   \* FileMeta's initialiser, 0644
          CutIds,        \* what can be left of an id whose line in index.txt is cut
          IndexBuffer    \* how many lines of index.txt the stream buffers before it writes

FileMeta == [id    : Ids \cup {NoId},
             words : Nat,                    \* of logical_path
             size  : 0 .. MaxSize,           \* logical_size
             n     : 0 .. MaxChunks,         \* n_chunks
             comp  : [ChunkIdx -> 0 .. ChunkSize],   \* compressed_size, see DiskSizes
             mode  : Modes]

ASSUME NoIdAssumption == NoId \notin Ids
ASSUME NoMetaAssumption == NoMeta \notin FileMeta
ASSUME HashAssumption == HashOf \in [Paths -> Ids]
ASSUME WordsAssumption == Words \in [Paths -> Nat \ {0}]
ASSUME ModesAssumption == DefaultMode \in Modes
ASSUME CutIdsAssumption == CutIds \subseteq Ids /\ \A p \in Paths : HashOf[p] \notin CutIds
ASSUME IndexBufferAssumption == IndexBuffer \in Nat \ {0}

VARIABLES index,         \* index_, the map the daemon works with
          indexFile,     \* index.txt
          metaFile       \* metaFile[id]: <id>.meta

metaVars == <<index, indexFile, metaFile>>

MetaTypeOK == /\ index \in [Paths -> Ids \cup {NoId}]
              /\ indexFile \in [Paths -> Ids \cup {NoId}]
              /\ metaFile \in [Ids -> FileMeta \cup {NoMeta}]

NoPaths == [p \in Paths |-> NoId]

DefaultMeta == [id |-> NoId, words |-> 0, size |-> 0, n |-> 0,
                comp |-> [i \in ChunkIdx |-> 0], mode |-> DefaultMode]

-----------------------------------------------------------------------------
Stored(id) == metaFile[id] # NoMeta

\* load reads blank-separated pairs of words.  A path of one word reads back as
\* written; an odd number of words loses all but the first; an even number puts
\* every later key in a value's place, and the fields keep their initial values.
\* Words is about paths of which no word behind the first is itself a key: "/a path_id b"
\* would give the record another id, and "/a mode b" make stoul throw.
Parse(m) == IF m.words % 2 = 1 THEN [m EXCEPT !.words = 1]
            ELSE [DefaultMeta EXCEPT !.id = m.id, !.words = Least(m.words, 1)]

Load(id) == IF Stored(id) THEN Parse(metaFile[id]) ELSE DefaultMeta

\* save names the file by the record's own path_id; without one it is ".meta",
\* which nothing ever loads.
Save(m) == metaFile' = IF m.id = NoId THEN metaFile ELSE [metaFile EXCEPT ![m.id] = m]

RemoveMeta(id) == metaFile' = [metaFile EXCEPT ![id] = NoMeta]

\* index_add and index_remove rewrite the whole of index.txt.
Mapped(p, id) == [index EXCEPT ![p] = id]
IndexSet(p, id) == /\ index' = Mapped(p, id)
                   /\ indexFile' = index'

IndexAdd(p, id) == IndexSet(p, id)
IndexRemove(p)  == IndexSet(p, NoId)

\* accumulate_stats: the sizes in the metadata of every path in the index.
Counted == {p \in Paths : index[p] # NoId /\ Stored(index[p])}
StatsLogical    == MapThenSumSet(LAMBDA p : Load(index[p]).size, Counted)
StatsCompressed == MapThenSumSet(LAMBDA p : MapThenSumSet(LAMBDA i : Load(index[p]).comp[i], ChunkIdx), Counted)

\* Both files are opened with ios::trunc and written when the stream's buffer is full
\* or the stream is closed.  A .meta file fits the buffer: a crash in between leaves it
\* empty, and it parses as no field at all.
TornMeta(id) == [metaFile EXCEPT ![id] = DefaultMeta]

\* Of index.txt, which should hold ix, a crash leaves nothing, or the lines written so far,
\* in no order, the last of them cut: it leads to a piece of an id, or is skipped.  (Cut
\* just behind its tab it leads to "", which is no file either; readdir would list it.)
TornIndex(ix, pieces) ==
  LET lines == {p \in Paths : ix[p] # NoId}
      flushed == {s \in SUBSET lines : Cardinality(s) >= IndexBuffer}
  IN {NoPaths} \cup {[p \in Paths |-> IF p \in s THEN ix[p] ELSE IF p = last THEN id ELSE NoId] :
                       s \in flushed, last \in lines, id \in pieces \cup {NoId}}

\* list_paths, and the constructor of the next mount, which reads index.txt.
ListPaths == {p \in Paths : index[p] # NoId}
LoadIndex == index' = indexFile'
=============================================================================
