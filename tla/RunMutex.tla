------------------------------ MODULE RunMutex ------------------------------
(***************************************************************************)
(* What the scan lock promises, as an abstract mutex: at most one thread   *)
(* owns a run, nobody takes a run another thread owns, and the only thread *)
(* that ends a run is its owner (or the end of the process).               *)
(***************************************************************************)
CONSTANTS Threads,   \* the threads that can own a scan or a reconciliation
          NoThread   \* nobody owns a run

VARIABLE owner       \* the thread whose run is in progress

Init == owner = NoThread

Acquire(t) == owner = NoThread /\ owner' = t

Release(t) == owner = t /\ owner' = NoThread

Next == \E t \in Threads : Acquire(t) \/ Release(t)

Spec == Init /\ [][Next]_owner
=============================================================================
