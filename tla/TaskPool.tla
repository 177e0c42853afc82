------------------------------ MODULE TaskPool ------------------------------
(***************************************************************************)
(* What the read handler relies on from the thread pool                    *)
(* (thread_pool.hpp): enqueue hands over a task, some worker completes it, *)
(* and wait_all returns only at an instant when no submitted task, of any  *)
(* caller, is outstanding.  ThreadPool.tla implements this specification.  *)
(***************************************************************************)
EXTENDS Naturals

CONSTANTS Callers       \* threads that submit tasks: the libfuse threads

VARIABLES outstanding,  \* how many submitted tasks of each caller are not completed
          inside        \* callers between their first enqueue and wait_all's return

vars == <<outstanding, inside>>

Init == /\ outstanding = [c \in Callers |-> 0]
        /\ inside = {}

Enter(c) == /\ c \notin inside
            /\ inside' = inside \cup {c}
            /\ UNCHANGED outstanding

Submit(c) == /\ c \in inside
             /\ outstanding' = [outstanding EXCEPT ![c] = @ + 1]
             /\ UNCHANGED inside

Complete(c) == /\ outstanding[c] > 0
               /\ outstanding' = [outstanding EXCEPT ![c] = @ - 1]
               /\ UNCHANGED inside

Return(c) == /\ c \in inside
             /\ \A d \in Callers : outstanding[d] = 0
             /\ inside' = inside \ {c}
             /\ UNCHANGED outstanding

Next == \E c \in Callers : Enter(c) \/ Submit(c) \/ Complete(c) \/ Return(c)

Spec == Init /\ [][Next]_vars
=============================================================================
