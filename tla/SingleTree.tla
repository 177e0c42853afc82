----------------------------- MODULE SingleTree -----------------------------
(***************************************************************************)
(* The directory tree of the single-file daemon (passthrough_cfs.cpp).     *)
(* Directories and special files are real objects of the backing directory;*)
(* regular files are logical: they have metadata under the id of their     *)
(* path and a line in index.txt, and no place in the backing tree.  Each   *)
(* handler decides which of the two it serves, and no handler keeps them   *)
(* together.  One handler is one step here: crashes, failures and contents *)
(* are SingleFile's subject.                                               *)
(***************************************************************************)
EXTENDS Naturals, Sequences, SequencesExt

CONSTANTS Names,         \* names in a directory
          MaxDepth,      \* bound: names in a path
          NoHandle       \* no open file

ASSUME DepthAssumption == MaxDepth \in Nat \ {0}

Root  == <<>>
Paths == UNION {[1 .. n -> Names] : n \in 1 .. MaxDepth}      \* normalized paths

ASSUME NoHandleAssumption == NoHandle \notin [path : Paths, node : Paths \cup {Root}]

VARIABLES real,          \* what the backing directory has at a path
          meta,          \* ids that have metadata
          index,         \* index.txt
          open           \* an open handle: its path, and the name libfuse has for the file now,
                         \* Root when its directory is gone

tree == <<real, meta, index>>
vars == <<real, meta, index, open>>

\* Mutant of FileId: the id is hashed from the last name only.
FileIdOfName(p) == <<Last(p)>>

FileId(p) == p

Stored(p) == FileId(p) \in meta                               \* logical_file_exists
IsDir(p)  == p = Root \/ real[p] = "dir"                      \* fs::is_directory, see Symlink
Below(p)  == {x \in Paths : IsStrictPrefix(p, x)}

\* cfs_getattr: "file" is a logical file, "other" a special one, "none" ENOENT.
Getattr(p) == CASE IsDir(p) -> "dir"
                [] ~IsDir(p) /\ Stored(p) -> "file"
                [] OTHER -> real[p]

\* cfs_readdir: the entries of the backing directory, and of index.txt the first
\* name below d of every path under it.
Readdir(d) == {x[Len(d) + 1] : x \in {y \in Below(d) : real[y] # "none"} \cup (index \cap Below(d))}

TypeOK == /\ real \in [Paths -> {"none", "dir", "other"}]
          /\ \A p \in Paths : real[p] # "none" => IsDir(Front(p))
          /\ meta \subseteq Paths /\ index \subseteq Paths
          /\ open \in [path : Paths, node : Paths \cup {Root}] \cup {NoHandle}

Init == /\ real = [p \in Paths |-> "none"]
        /\ meta = {} /\ index = {}
        /\ open = NoHandle

-----------------------------------------------------------------------------
(* The kernel walks to a name by getattr before it asks for anything, and      *)
(* refuses by itself what does not fit what it found.                          *)

Lookup(p, kinds) == Getattr(Front(p)) = "dir" /\ Getattr(p) \in kinds

\* libfuse gives a name whose file is open another name instead of removing it.
Closed(p) == open # NoHandle => open.node # p

\* The open file is p, or below it.
InOpen(p) == open # NoHandle /\ IsPrefix(p, open.node)

\* persist_logical_file, as far as the names go.
Persist(p) == meta' = meta \cup {FileId(p)} /\ index' = index \cup {p}

\* A new file is stored when its handle is released, which libfuse does at once:
\* getattr does not find it yet.
Create(p) == /\ Lookup(p, {"none"})
             /\ Persist(p)
             /\ UNCHANGED <<real, open>>

Open(p) == /\ Lookup(p, {"file"}) /\ open = NoHandle
           /\ open' = [path |-> p, node |-> p]
           /\ UNCHANGED tree

\* The handle is written back under the path it was opened with.
Release == /\ open # NoHandle
           /\ Persist(open.path) \/ UNCHANGED <<meta, index>>
           /\ open' = NoHandle
           /\ UNCHANGED real

Make(p, kind) == /\ Lookup(p, {"none"})
                 /\ real' = [real EXCEPT ![p] = kind]
                 /\ UNCHANGED <<meta, index, open>>

Mkdir(p)   == Make(p, "dir")
Mknod(p)   == Make(p, "other")
Symlink(p) == Make(p, "other")    \* to no directory: is_directory would follow it

\* link(2) finds no logical file.
Link(p, q) == Lookup(p, {"file", "other"}) /\ real[p] = "other" /\ Make(q, "other")

\* Mutant of Forget: the line in index.txt stays.
ForgetMeta(p) == meta' = meta \ {FileId(p)} /\ UNCHANGED index

Forget(p) == meta' = meta \ {FileId(p)} /\ index' = index \ {p}

Unlink(p) ==
  /\ Lookup(p, {"file", "other"}) /\ Closed(p)
  /\ \/ Stored(p) /\ Forget(p) /\ UNCHANGED real
     \/ ~Stored(p) /\ real' = [real EXCEPT ![p] = "none"] /\ UNCHANGED <<meta, index>>
  /\ UNCHANGED open

\* rmdir(2) looks at the backing directory, in which logical files have no place.
Rmdir(p) ==
  /\ Lookup(p, {"dir"}) /\ \A x \in Below(p) : real[x] = "none"
  /\ real' = [real EXCEPT ![p] = "none"]
  /\ open' = IF InOpen(p) THEN [open EXCEPT !.node = Root] ELSE open
  /\ UNCHANGED <<meta, index>>

RenameLogical(p, q) == /\ meta' = (meta \ {FileId(p)}) \cup {FileId(q)}
                       /\ index' = (index \ {p}) \cup {q}
                       /\ UNCHANGED real

\* Where x is when p is called q.
Moved(x, p, q) == IF IsPrefix(p, x) THEN q \o SubSeq(x, Len(p) + 1, Len(x)) ELSE x

\* Mutant of RenameReal: what is below a directory stays where it was.
RenameRealTop(p, q) == real' = [real EXCEPT ![q] = real[p], ![p] = "none"] /\ UNCHANGED <<meta, index>>

\* rename(2): an empty directory, or a special file, with the new name goes.
RenameReal(p, q) ==
  /\ real[p] = "dir" => \A x \in Below(q) : real[x] = "none"
  /\ real' = [x \in Paths |-> IF IsPrefix(q, x) /\ Moved(x, q, p) \in Paths THEN real[Moved(x, q, p)]
                              ELSE IF IsPrefix(p, x) THEN "none" ELSE real[x]]
  /\ UNCHANGED <<meta, index>>

Rename(p, q) ==
  LET kind == Getattr(p)
  IN /\ Lookup(p, {"file", "other", "dir"}) /\ ~IsPrefix(p, q) /\ ~IsPrefix(q, p)
     /\ Lookup(q, IF kind = "dir" THEN {"none", "dir"} ELSE {"none", "file", "other"})
     /\ kind = "dir" => Len(q) <= Len(p)                          \* bound: MaxDepth
     /\ Closed(q)
     /\ IF Stored(p) THEN RenameLogical(p, q) ELSE RenameReal(p, q)
     /\ open' = IF InOpen(p) /\ Moved(open.node, p, q) \in Paths    \* bound: MaxDepth
                THEN [open EXCEPT !.node = Moved(@, p, q)]
                ELSE IF InOpen(p) \/ InOpen(q) THEN [open EXCEPT !.node = Root] ELSE open

Next == \/ \E p \in Paths :
             \/ Create(p) \/ Open(p) \/ Mkdir(p) \/ Mknod(p) \/ Symlink(p) \/ Unlink(p) \/ Rmdir(p)
             \/ \E q \in Paths : Link(p, q) \/ Rename(p, q)
        \/ Release

Spec == Init /\ [][Next]_vars

-----------------------------------------------------------------------------
(* Properties *)

\* Logical files below p, which is not there.
Left(p) == {x \in Below(p) : Getattr(p) = "none" /\ Stored(x)}

\* readdir and getattr agree, although one reads index.txt and the other the
\* metadata: a directory lists what can be found in it, and besides only the names
\* of directories that are gone and have left logical files behind.
ListingExact ==
  \A d \in Paths \cup {Root} : IsDir(d) /\ Len(d) < MaxDepth =>
    Readdir(d) = {n \in Names : LET p == Append(d, n) IN Getattr(p) # "none" \/ Left(p) # {}}

Reachable(p) == Lookup(p, {"file"})

\* No file is lost by what happens to another file: a logical file stops being
\* reachable alone and with its line in index.txt, or with its directory, which is
\* removed or renamed, or replaced by one that has a directory of the file's name.
FilesKept ==
  [][LET lost == {p \in Paths : Reachable(p) /\ ~Reachable(p)'}
     IN \A p \in lost : \/ lost = {p} /\ p \notin index'
                        \/ ~IsDir(Front(p))'
                        \/ IsDir(p)' /\ ~IsDir(p)]_vars
=============================================================================
