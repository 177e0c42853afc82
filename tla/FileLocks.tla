----------------------------- MODULE FileLocks -----------------------------
(***************************************************************************)
(* g_file_locks (fuse_ops.cpp): the map from file ids to shared_mutexes.   *)
(* file_lock(id) creates the mutex on first use; cfs_unlink deletes it.  A *)
(* mutex is named by its id and by how many mutexes of that id were        *)
(* deleted before it, so that a reference to a deleted one can be told.    *)
(***************************************************************************)
EXTENDS Naturals

CONSTANTS Ids,           \* file ids
          Threads,       \* libfuse threads
          Roles          \* who in a thread's request holds a lock: its handler, its tasks

VARIABLES gen,           \* gen[id]: mutexes of id deleted so far
          holds          \* the locks held

lockVars == <<gen, holds>>

Lock == [id : Ids, gen : Nat]
Hold == [id : Ids, gen : Nat, thread : Threads, role : Roles, shared : BOOLEAN]

LockTypeOK == gen \in [Ids -> Nat] /\ holds \subseteq Hold

Holders(id, g) == {h \in holds : h.id = id /\ h.gen = g}

\* Mutants of CanLock: shared holders are ignored, or all holders.
CanLockOverReaders(id, g) == \A h \in Holders(id, g) : h.shared
CanLockAlways(id, g)      == TRUE

CanLock(id, g)       == Holders(id, g) = {}
CanLockShared(id, g) == \A h \in Holders(id, g) : h.shared

HoldOf(id, g, t, role, shared) ==
  [id |-> id, gen |-> g, thread |-> t, role |-> role, shared |-> shared]

Acquire(h) == holds' = holds \cup {h}
Unlock(t, role) == holds' = {h \in holds : ~(h.thread = t /\ h.role = role)}

DeleteLock(id) == gen' = [gen EXCEPT ![id] = @ + 1]
=============================================================================
