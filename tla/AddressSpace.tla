---------------------------- MODULE AddressSpace ----------------------------
(***************************************************************************)
(* What the page tables promise: one mapping of the upper half that all    *)
(* address spaces share, and for each process a mapping of the lower half  *)
(* of its own, both changed page by page.  Pages and page frames are       *)
(* numbers.                                                                *)
(***************************************************************************)
EXTENDS Integers

CONSTANTS Procs, Low, High,  \* processes, pages of the two halves
          Rights             \* the rights a page can be given

VARIABLES kernel, user

avars == <<kernel, user>>

NoMap == [page |-> 0, flags |-> {}]

Init ==
    /\ kernel = [v \in High |-> NoMap]
    /\ user = [p \in Procs |-> [v \in Low |-> NoMap]]

(* A page is mapped, to any frame and with any of the rights.              *)
MapKernel(v) ==
    /\ kernel'[v] # kernel[v]
    /\ kernel'[v].flags \in Rights /\ "USER" \notin kernel'[v].flags
    /\ kernel' = [kernel EXCEPT ![v] = kernel'[v]]
    /\ UNCHANGED user

MapUser(p, v) ==
    /\ user'[p][v] # user[p][v]
    /\ user'[p][v].flags \in Rights /\ "USER" \in user'[p][v].flags
    /\ user' = [user EXCEPT ![p][v] = user'[p][v]]
    /\ UNCHANGED kernel

Unmap(v) ==
    /\ kernel'[v] # kernel[v]
    /\ kernel' = [kernel EXCEPT ![v] = NoMap]
    /\ UNCHANGED user

Next ==
    \/ \E v \in High : MapKernel(v)
    \/ \E p \in Procs, v \in Low : MapUser(p, v)
    \/ \E v \in High : Unmap(v)

Spec == Init /\ [][Next]_avars
=============================================================================
