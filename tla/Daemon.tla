------------------------------- MODULE Daemon -------------------------------
(***************************************************************************)
(* Start and stop of the daemon: main (main.cpp) prepares the backing      *)
(* directory, libfuse goes into the background, init (fuse_ops.cpp) opens  *)
(* the stores by the same string.  Where the string leads depends on the   *)
(* working directory of the moment.                                        *)
(***************************************************************************)
CONSTANTS Args,          \* backing directories a user may name
          Absolute,      \* those that begin with "/"
          Cwds,          \* directories the daemon may be started from
          Slash          \* "/"

VARIABLES pc,            \* how far the daemon has come
          backing,       \* g_cfg.backing_dir
          chosen,        \* the directory the user meant
          cwd,           \* the process's working directory
          dirs,          \* directories that have a .crunchfs tree
          files          \* directories that have files of the mount

vars == <<pc, backing, chosen, cwd, dirs, files>>

Resolve(path, dir) == IF path \in Absolute THEN <<path>> ELSE <<dir, path>>

Init == /\ pc = "exited" /\ cwd \in Cwds
        /\ backing \in Args /\ chosen = Resolve(backing, cwd)
        /\ dirs = {} /\ files = {}

\* A user starts the daemon in some directory.
Start == /\ pc = "exited" /\ pc' = "main"
         /\ cwd' \in Cwds /\ backing' \in Args
         /\ chosen' = Resolve(backing', cwd')
         /\ UNCHANGED <<dirs, files>>

\* create_directories in main, and in the constructors of MetaStore and ChunkStore.
CreateDirectories(from, to) ==
  /\ pc = from /\ pc' = to
  /\ dirs' = dirs \cup {Resolve(backing, cwd)}
  /\ UNCHANGED <<backing, chosen, cwd, files>>

Prepare    == CreateDirectories("main", "fuse_main")
OpenStores == CreateDirectories("init", "mounted")

\* The file system refuses: the exception ends the process.
Refused == /\ pc \in {"main", "init"} /\ pc' = "exited"
           /\ UNCHANGED <<backing, chosen, cwd, dirs, files>>

\* fuse_daemonize, in the foreground too.
Daemonize == /\ pc = "fuse_main" /\ pc' = "init"
             /\ cwd' = Slash
             /\ UNCHANGED <<backing, chosen, dirs, files>>

\* A handler stores metadata or a chunk.
Serve == /\ pc = "mounted"
         /\ files' = files \cup {Resolve(backing, cwd)}
         /\ UNCHANGED <<pc, backing, chosen, cwd, dirs>>

\* The stores write every change at once: destroy has nothing left to save.
Destroy == /\ pc = "mounted" /\ pc' = "exited"
           /\ UNCHANGED <<backing, chosen, cwd, dirs, files>>

Next == Start \/ Prepare \/ Daemonize \/ OpenStores \/ Refused \/ Serve \/ Destroy

Spec == Init /\ [][Next]_vars

-----------------------------------------------------------------------------
\* What a mount stores goes to the backing directory that its user named, as
\* main prepared it.
StorageStays == [][files' \subseteq files \cup {chosen}]_vars
=============================================================================
