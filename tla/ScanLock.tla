------------------------------ MODULE ScanLock ------------------------------
(***************************************************************************)
(* The scan lock: pipeline.ScanProgress and every thread that takes it.    *)
(* A run is a full scan, an incremental scan or a tag reconciliation.  The *)
(* lock is a flag with no owner field: finish() clears it whoever calls    *)
(* it, so that only its owner ends a run is a property of the callers.     *)
(***************************************************************************)
CONSTANTS Threads,      \* the threads that can own a run
          Routed,       \* those started by POST /scan/full and /scan/incremental,
                        \*   which look at the flag before the thread exists
          LateRaisers   \* those whose clean-up can raise after finish()

ASSUME ThreadsAssumption == Routed \subseteq Threads /\ LateRaisers \subseteq Threads

VARIABLES
  running, cancelled, error,  \* the fields of ScanProgress that decide anything
  pc,                         \* where each thread is
  asked,                      \* history: a cancel was accepted for this run
  foreign                     \* history: a thread has ended a run of another's

vars == <<running, cancelled, error, pc, asked, foreign>>

Errors == {"none", "failed"}

TypeOK ==
  /\ running \in BOOLEAN
  /\ cancelled \in BOOLEAN
  /\ error \in Errors
  /\ pc \in [Threads -> {"idle", "spawned", "running", "closing"}]
  /\ asked \in BOOLEAN
  /\ foreign \in BOOLEAN

Init ==
  /\ running = FALSE
  /\ cancelled = FALSE
  /\ error = "none"
  /\ pc = [t \in Threads |-> "idle"]
  /\ asked = FALSE
  /\ foreign = FALSE

-----------------------------------------------------------------------------
(* ScanProgress *)

\* try_start() when it succeeds: it also resets what the last run left.
Acquired ==
  /\ ~running
  /\ running' = TRUE
  /\ cancelled' = FALSE
  /\ error' = "none"
  /\ asked' = FALSE

\* Mutant: the flag is taken and the last run's cancel is kept.
AcquiredKeepingCancel ==
  /\ ~running
  /\ running' = TRUE
  /\ error' = "none"
  /\ asked' = FALSE
  /\ UNCHANGED cancelled

\* finish(error): no look at who holds the lock.
Released(e) ==
  /\ running' = FALSE
  /\ error' = e
  /\ UNCHANGED <<cancelled, asked>>

-----------------------------------------------------------------------------
(* Who takes it *)

\* POST /scan/full or /scan/incremental: 409 when a run is in progress, else a
\* thread is started that will call try_start() itself, later.
Spawn(t) ==
  /\ t \in Routed
  /\ pc[t] = "idle"
  /\ ~running
  /\ pc' = [pc EXCEPT ![t] = "spawned"]
  /\ UNCHANGED <<running, cancelled, error, asked, foreign>>

Ready(t) == pc[t] = IF t \in Routed THEN "spawned" ELSE "idle"

\* Mutant: the look at the flag in the route is taken for the lock itself.
StartTrustingTheRoute(t) ==
  /\ Ready(t)
  /\ running' = TRUE
  /\ cancelled' = FALSE
  /\ error' = "none"
  /\ asked' = FALSE
  /\ pc' = [pc EXCEPT ![t] = "running"]
  /\ UNCHANGED foreign

\* Mutant: try_start() that keeps the last run's cancel.
StartKeepingCancel(t) ==
  /\ Ready(t)
  /\ AcquiredKeepingCancel
  /\ pc' = [pc EXCEPT ![t] = "running"]
  /\ UNCHANGED foreign

\* A cron job, a spawned thread or the manual rescan gets the lock.
Start(t) ==
  /\ Ready(t)
  /\ Acquired
  /\ pc' = [pc EXCEPT ![t] = "running"]
  /\ UNCHANGED foreign

\* ... or finds it taken and gives up: "already in progress, skipping".
Skip(t) ==
  /\ Ready(t)
  /\ running
  /\ pc' = [pc EXCEPT ![t] = "idle"]
  /\ UNCHANGED <<running, cancelled, error, asked, foreign>>

\* POST /scan/cancel: ScanProgress.cancel() under the lock.
Cancel ==
  /\ running
  /\ cancelled' = TRUE
  /\ asked' = TRUE
  /\ UNCHANGED <<running, error, pc, foreign>>

-----------------------------------------------------------------------------
(* How a run ends *)

\* The run's own finish(): normally, or with the error of a Jellyfin listing
\* that failed.  The run still has its clean-up and its last line to emit.
Finish(t) ==
  /\ pc[t] = "running"
  /\ \E e \in Errors : Released(e)
  /\ pc' = [pc EXCEPT ![t] = "closing"]
  /\ UNCHANGED foreign

\* Mutant: the exception ends the thread and leaves the lock (before B22).
RaiseLeavingLock(t) ==
  /\ pc[t] = "running"
  /\ pc' = [pc EXCEPT ![t] = "idle"]
  /\ UNCHANGED <<running, cancelled, error, asked, foreign>>

\* An exception escapes the run: the caller's except clause releases the lock
\* when the flag is up.
Raise(t) ==
  /\ pc[t] = "running"
  /\ IF running THEN Released("failed") ELSE UNCHANGED <<running, cancelled, error, asked>>
  /\ pc' = [pc EXCEPT ![t] = "idle"]
  /\ UNCHANGED foreign

\* The clean-up after finish() returns.
Close(t) ==
  /\ pc[t] = "closing"
  /\ pc' = [pc EXCEPT ![t] = "idle"]
  /\ UNCHANGED <<running, cancelled, error, asked, foreign>>

\* The clean-up after finish() raises: the same except clause runs, and the
\* flag it looks at may be another run's by now.
CloseRaises(t) ==
  /\ t \in LateRaisers
  /\ pc[t] = "closing"
  /\ IF running
       THEN Released("failed") /\ foreign' = TRUE
       ELSE UNCHANGED <<running, cancelled, error, asked, foreign>>
  /\ pc' = [pc EXCEPT ![t] = "idle"]

\* The process is restarted: the threads are daemons and the lock is memory.
Restart == /\ running' = FALSE
           /\ cancelled' = FALSE
           /\ error' = "none"
           /\ pc' = [t \in Threads |-> "idle"]
           /\ asked' = FALSE
           /\ foreign' = FALSE

Run(t) == Start(t) \/ Skip(t) \/ Finish(t) \/ Raise(t) \/ Close(t)

Next ==
  \/ \E t \in Threads : Spawn(t) \/ Run(t) \/ CloseRaises(t)
  \/ Cancel
  \/ Restart

Spec == Init /\ [][Next]_vars

\* A run's thread keeps executing: its loops are over finite lists and every
\* request has a timeout, so it comes to its finish() or to an exception.
Ends(t) == Finish(t) \/ Raise(t)

FairSpec == Spec /\ \A t \in Threads : WF_vars(Ends(t))

-----------------------------------------------------------------------------
(* Properties *)

\* At most one run is in progress, and the lock is held while one is: two
\* routes that both saw the flag down, a cron job and a manual rescan never
\* scan at once.  One thing breaks it: a clean-up that raises after its run's
\* finish() takes the next run's lock for its own.
OneRun ==
  ~foreign =>
    /\ \A s, t \in Threads : pc[s] = "running" /\ pc[t] = "running" => s = t
    /\ \A t \in Threads : pc[t] = "running" => running

\* A run sees a cancel exactly when one was accepted for it: a cancel does not
\* leak from a run into the next one.
CancelIsForThisRun == running => (cancelled <=> asked)

\* Whatever ends a run, an exception included, the lock is free again (B22).
LockIsReleased == running ~> ~running

\* The thread whose run is in progress, for the abstract mutex, which knows of
\* no run that another thread has ended.
CONSTANT NoThread
ASSUME NobodyAssumption == NoThread \notin Threads

Holder == IF ~foreign /\ \E t \in Threads : pc[t] = "running"
            THEN CHOOSE t \in Threads : pc[t] = "running"
            ELSE NoThread

Mutex == INSTANCE RunMutex WITH owner <- Holder

\* The ownerless flag behaves as a mutex with an owner.
ImplementsMutex == Mutex!Spec

=============================================================================
