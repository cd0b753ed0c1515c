------------------------------ MODULE Reconcile ------------------------------
(***************************************************************************)
(* The tag reconciliation pass (reconcile.py), with the two others that    *)
(* write the same items and rows: a scan, which it excludes by the scan    *)
(* lock, and a webhook's task queued before the pass began, which it does  *)
(* not.  How a scan or a webhook tags one item is TagSync's subject: here  *)
(* it is one step.                                                         *)
(*                                                                         *)
(* Data.  The managed tags of an item are a set; TagsOf gives those built  *)
(* from each version of a file.                                            *)
(***************************************************************************)
EXTENDS Integers, FiniteSets

CONSTANTS
  Items,      \* the tracked items
  Tags,       \* managed tags, case folded
  MaxVer,     \* bound: versions of a file
  TagsOf,     \* TagsOf[v]: the managed tags of version v
  Threshold,  \* scan.reconcile_write_threshold
  BatchSize,  \* TAG_READ_BATCH
  Faults,     \* the failures the environment may produce, by name
  MaxFaults   \* bound: how many of them

ASSUME ConstantsAssumption ==
  /\ IsFiniteSet(Items)
  /\ TagsOf \in [1..MaxVer -> (SUBSET Tags) \ {{}}]
  /\ {MaxVer, Threshold, BatchSize} \subseteq Nat \ {0}
  /\ MaxFaults \in Nat

VARIABLES
  file,      \* file[i]: the version of i's file
  health,    \* health[i]: whether a scan finds the file and can probe it
  tags,      \* tags[i]: the managed tags Jellyfin carries on i
  row,       \* row[i]: the version and the tags_applied of i's index row
  errors,    \* the items whose newest scan error is newer than their row
  report,    \* what reconcile-report.json says; "calm": clean, written, or no file
  outcome,   \* the local of that name, between the report and the gauge
  alarm,     \* the gauge xenotag_reconcile_halted
  lock,      \* who holds the scan lock
  full,      \* the scan is a full one
  cancelled, \* ScanProgress.cancelled
  todo,      \* what the holder of the lock has still to read
  pc,        \* where the pass is
  trigger,   \* what started it
  tracked,   \* tracked[i]: the tags expected of i, {} when nothing reads them again
  cands,     \* plan(): the candidates
  chunk,     \* the batch of candidates being written
  copy,      \* copy[i]: i's managed tags when its batch was re-read
  pend,      \* written and not read back yet
  left,      \* how many faults are left
  struck,    \* history: those of Forgetful that have happened
  owed,      \* history: the newest pass to end uncancelled was halted, and said so
  wrote,     \* history: the items this pass wrote
  hooked,    \* history: those a webhook tagged since their batch was re-read
  failing    \* history: the items whose file the last scan to try could not reach

luck == <<left, struck>>
told == <<report, alarm, outcome, owed>>
passVars == <<pc, trigger, tracked, cands, chunk, copy, pend, wrote, hooked>>
vars == <<file, health, tags, row, errors, told, lock, full, cancelled, todo,
          pc, trigger, tracked, cands, chunk, copy, pend, luck, wrote, hooked, failing>>

\* The events after which a row whose file is out of reach may look well.
Forgetful == {"clear", "cancel", "listing", "restart"}

Rows == [ver : 0..MaxVer, tags : SUBSET Tags]
NoRow == [ver |-> 0, tags |-> {}]
Built(i) == [ver |-> file[i], tags |-> TagsOf[file[i]]]

TypeOK ==
  /\ file \in [Items -> 1..MaxVer]
  /\ health \in [Items -> {"ok", "missing", "unreadable"}]
  /\ tags \in [Items -> SUBSET Tags]
  /\ row \in [Items -> Rows]
  /\ errors \in SUBSET Items
  /\ report \in {"calm", "halted", "cancelled"}
  /\ outcome \in {"none", "calm", "halted", "cancelled"}
  /\ {alarm, owed} \subseteq BOOLEAN
  /\ lock \in {"free", "scan", "pass"}
  /\ full \in BOOLEAN
  /\ cancelled \in BOOLEAN
  /\ todo \in SUBSET Items
  /\ pc \in {"off", "read", "plan", "write", "chunk", "retry", "end", "stored"}
  /\ trigger \in {"scheduled", "manual"}
  /\ tracked \in [Items -> SUBSET Tags]
  /\ cands \in SUBSET Items
  /\ chunk \in SUBSET Items
  /\ copy \in [Items -> SUBSET Tags]
  /\ pend \in SUBSET Items
  /\ left \in 0..MaxFaults
  /\ struck \subseteq Forgetful
  /\ wrote \in SUBSET Items
  /\ hooked \in SUBSET Items
  /\ failing \in SUBSET Items

Nothing == [i \in Items |-> {}]

\* A library that was scanned once.
Init ==
  /\ file = [i \in Items |-> 1]
  /\ health = [i \in Items |-> "ok"]
  /\ tags = [i \in Items |-> TagsOf[1]]
  /\ row = [i \in Items |-> Built(i)]
  /\ errors = {} /\ failing = {}
  /\ report = "calm" /\ outcome = "none" /\ alarm = FALSE /\ owed = FALSE
  /\ lock = "free" /\ full = FALSE /\ cancelled = FALSE /\ todo = {}
  /\ pc = "off" /\ trigger = "scheduled" /\ tracked = Nothing /\ cands = {}
  /\ chunk = {} /\ copy = Nothing /\ pend = {} /\ wrote = {} /\ hooked = {}
  /\ left = MaxFaults /\ struck = {}

-----------------------------------------------------------------------------
(* The world *)

\* One of the failures this model allows happens now.
Fault(f) ==
  /\ f \in Faults /\ left > 0
  /\ left' = left - 1
  /\ struck' = struck \cup ({f} \cap Forgetful)

FileChanges(i) ==
  /\ file[i] < MaxVer
  /\ file' = [file EXCEPT ![i] = @ + 1]
  /\ UNCHANGED <<health, tags, row, errors, told, lock, full, cancelled, todo,
                 passVars, luck, failing>>

\* A mount goes away, a file stops probing, or both are well again.
HealthChanges(i) ==
  /\ \/ health[i] = "ok" /\ Fault("break") /\ \E h \in {"missing", "unreadable"} : health' = [health EXCEPT ![i] = h]
     \/ health[i] # "ok" /\ health' = [health EXCEPT ![i] = "ok"] /\ UNCHANGED luck
  /\ UNCHANGED <<file, tags, row, errors, told, lock, full, cancelled, todo,
                 passVars, failing>>

\* Jellyfin loses the managed tags of some items at once: a replace-all refresh
\* of a library, items it re-creates (B12).
Lose ==
  /\ Fault("lose")
  /\ \E lost \in SUBSET Items : tags' = [i \in Items |-> IF i \in lost THEN {} ELSE tags[i]]
  /\ UNCHANGED <<file, health, row, errors, told, lock, full, cancelled, todo,
                 passVars, failing>>

\* DELETE /api/scan-errors.
ClearErrors ==
  /\ Fault("clear")
  /\ errors' = {}
  /\ UNCHANGED <<file, health, tags, row, told, lock, full, cancelled, todo,
                 passVars, failing>>

-----------------------------------------------------------------------------
(* The scan and the webhooks *)

\* One item is tagged and recorded; its older scan errors are older than the
\* new row.  A write that raises records nothing, and may have landed.
Tagged(i) ==
  \/ /\ tags' = [tags EXCEPT ![i] = TagsOf[file[i]]]
     /\ row' = [row EXCEPT ![i] = Built(i)]
     /\ errors' = errors \ {i}
     /\ UNCHANGED luck
  \/ /\ Fault("unrecorded")
     /\ UNCHANGED tags \/ tags' = [tags EXCEPT ![i] = TagsOf[file[i]]]
     /\ UNCHANGED <<row, errors>>

StartScan(isFull) ==
  /\ lock = "free"
  /\ lock' = "scan"
  /\ full' = isFull
  /\ cancelled' = FALSE
  /\ todo' = Items
  /\ errors' = IF isFull THEN {} ELSE errors
  /\ UNCHANGED <<file, health, tags, row, told, passVars, luck, failing>>

\* An incremental scan looks for the file before it looks at its mtime, and at
\* its mtime before it probes.  What raises while an item is processed, after
\* its tags were written perhaps, is one more scan error.
ScanItem(i) ==
  /\ lock = "scan" /\ ~cancelled /\ i \in todo
  /\ todo' = todo \ {i}
  /\ LET upToDate == ~full /\ row[i].ver = file[i]
     IN \/ /\ health[i] = "missing" \/ (health[i] = "unreadable" /\ ~upToDate)
           /\ errors' = errors \cup {i} /\ failing' = failing \cup {i}
           /\ UNCHANGED <<tags, row, luck>>
        \/ /\ health[i] # "missing" /\ upToDate
           /\ UNCHANGED <<tags, row, errors, failing, luck>>
        \/ /\ health[i] = "ok" /\ ~upToDate
           /\ \/ Tagged(i)
              \/ /\ Fault("process")
                 /\ UNCHANGED tags \/ tags' = [tags EXCEPT ![i] = TagsOf[file[i]]]
                 /\ errors' = errors \cup {i}
                 /\ UNCHANGED row
           /\ failing' = failing \ {i}
  /\ UNCHANGED <<file, health, told, lock, full, cancelled, passVars>>

EndScan ==
  /\ lock = "scan"
  /\ todo = {} \/ cancelled
  /\ lock' = "free"
  /\ todo' = {}
  /\ full' = FALSE
  /\ UNCHANGED <<file, health, tags, row, errors, told, cancelled,
                 passVars, luck, failing>>

\* The listing of Jellyfin's items raises, after a full scan has cleared the
\* errors: the scan ends with an error and has reached no item.
FailScan ==
  /\ lock = "scan" /\ todo = Items
  /\ Fault("listing")
  /\ lock' = "free"
  /\ todo' = {}
  /\ full' = FALSE
  /\ UNCHANGED <<file, health, tags, row, errors, told, cancelled,
                 passVars, failing>>

\* A webhook's task, queued when the lock was free: it takes no lock.
Webhook(i) ==
  /\ health[i] = "ok"
  /\ Tagged(i)
  /\ failing' = failing \ {i}
  /\ hooked' = hooked \cup ({i} \cap (chunk \cup pend))
  /\ UNCHANGED <<file, health, told, lock, full, cancelled, todo,
                 pc, trigger, tracked, cands, chunk, copy, pend, wrote>>

\* POST /scan/cancel.
Cancel ==
  /\ lock # "free" /\ ~cancelled
  /\ Fault("cancel")
  /\ cancelled' = TRUE
  /\ UNCHANGED <<file, health, tags, row, errors, told, lock, full, todo,
                 passVars, failing>>

-----------------------------------------------------------------------------
(* The pass *)

\* Mutant: every row is tracked (before B32).
ReachableEvenIfFailing(i) == row[i].tags # {}

\* _tracked(): a row that says something, and that a scan can reach (B32).
Reachable(i) == row[i].tags # {} /\ i \notin errors

\* lost_all(): none of the expected tags is there.
LostAll(expected, current) == expected # {} /\ expected \cap current = {}

\* The scheduled job or the manual rescan gets the lock and reads the index.
StartPass(by) ==
  /\ lock = "free"
  /\ lock' = "pass"
  /\ cancelled' = FALSE
  /\ trigger' = by
  /\ tracked' = [i \in Items |-> IF Reachable(i) THEN row[i].tags ELSE {}]
  /\ todo' = {i \in Items : Reachable(i)}
  /\ pc' = "read"
  /\ UNCHANGED <<file, health, tags, row, errors, told, full,
                 cands, chunk, copy, pend, luck, wrote, hooked, failing>>

\* _batches(): as many as a batch holds, in no particular order.
Batches(s) == {b \in SUBSET s : IF Cardinality(s) <= BatchSize THEN b = s ELSE Cardinality(b) = BatchSize}

\* The read phase: one tags-only read per batch.  A cancel leaves no candidate.
ReadTags ==
  /\ pc = "read" /\ todo # {} /\ ~cancelled
  /\ \E b \in Batches(todo) :
       /\ todo' = todo \ b
       /\ cands' = cands \cup {i \in b : LostAll(tracked[i], tags[i])}
       /\ tracked' = [i \in Items |-> IF i \in b \ cands' THEN {} ELSE tracked[i]]
  /\ UNCHANGED <<file, health, tags, row, errors, told, lock, full, cancelled,
                 pc, trigger, chunk, copy, pend, luck, wrote, hooked, failing>>

EndReads ==
  /\ pc = "read" /\ (todo = {} \/ cancelled)
  /\ pc' = "plan"
  /\ todo' = {}
  /\ cands' = IF cancelled THEN {} ELSE cands
  /\ tracked' = IF cancelled THEN Nothing ELSE tracked
  /\ UNCHANGED <<file, health, tags, row, errors, told, lock, full, cancelled,
                 trigger, chunk, copy, pend, luck, wrote, hooked, failing>>

\* Mutant: the threshold is held against one batch, not against the run.
TooManyInABatch == trigger = "scheduled" /\ \E b \in Batches(cands) : Cardinality(b) > Threshold

\* A scheduled pass that would write more than the threshold writes nothing.
TooMany == trigger = "scheduled" /\ Cardinality(cands) > Threshold

Decide ==
  /\ pc = "plan"
  /\ IF TooMany \/ cands = {} \/ cancelled
       THEN pc' = "end" /\ UNCHANGED todo
       ELSE pc' = "write" /\ todo' = cands
  /\ UNCHANGED <<file, health, tags, row, errors, told, lock, full, cancelled,
                 trigger, tracked, cands, chunk, copy, pend, luck, wrote, hooked, failing>>

\* _write() re-reads a batch whole.  When that read raises none of it is written.
ReadWhole ==
  /\ pc = "write" /\ todo # {} /\ ~cancelled
  /\ \E b \in Batches(todo) :
       /\ todo' = todo \ b
       /\ \/ /\ chunk' = b
             /\ copy' = [i \in Items |-> IF i \in b THEN tags[i] ELSE {}]
             /\ pc' = "chunk"
             /\ UNCHANGED luck
             /\ hooked' = {}
          \/ /\ Fault("read")
             /\ UNCHANGED <<pc, chunk, copy, hooked>>
  /\ UNCHANGED <<file, health, tags, row, errors, told, lock, full, cancelled,
                 trigger, tracked, cands, pend, wrote, failing>>

\* Mutant: the row's tags are written in place of what Jellyfin has.
RestoredAlone(i) == tracked[i]

\* Jellyfin's managed tags as they are, plus the lost ones.
Restored(i) == copy[i] \cup tracked[i]

\* Each of the batch in turn; one that is no longer a total loss is left alone.
WriteOne(i) ==
  /\ pc = "chunk" /\ i \in chunk
  /\ chunk' = chunk \ {i}
  /\ \/ /\ ~LostAll(tracked[i], copy[i])
        /\ UNCHANGED <<tags, pend, wrote, luck>>
     \/ /\ LostAll(tracked[i], copy[i])
        /\ wrote' = wrote \cup {i}
        /\ \/ /\ tags' = [tags EXCEPT ![i] = Restored(i)]
              /\ pend' = pend \cup {i}
              /\ UNCHANGED luck
           \/ /\ Fault("write")
              /\ UNCHANGED tags \/ tags' = [tags EXCEPT ![i] = Restored(i)]
              /\ UNCHANGED pend
  /\ UNCHANGED <<file, health, row, errors, told, lock, full, cancelled, todo,
                 pc, trigger, tracked, cands, copy, hooked, failing>>

\* _record_after_readback() with nothing to record: what Jellyfin undid is
\* written once more; a read that fails ends it.
ReadBack ==
  /\ pc = "chunk" /\ chunk = {}
  /\ \/ /\ pend' = {i \in pend : tags[i] # Restored(i)}
        /\ UNCHANGED luck
     \/ /\ pend # {} /\ Fault("read")
        /\ pend' = {}
  /\ pc' = IF pend' = {} THEN "write" ELSE "retry"
  /\ copy' = IF pend' = {} THEN Nothing ELSE copy
  /\ UNCHANGED <<file, health, tags, row, errors, told, lock, full, cancelled, todo,
                 trigger, tracked, cands, chunk, wrote, hooked, failing>>

RetryOne(i) ==
  /\ pc = "retry" /\ i \in pend
  /\ pend' = pend \ {i}
  /\ \/ tags' = [tags EXCEPT ![i] = Restored(i)] /\ UNCHANGED luck
     \/ /\ Fault("write")
        /\ UNCHANGED tags \/ tags' = [tags EXCEPT ![i] = Restored(i)]
  /\ pc' = IF pend' = {} THEN "write" ELSE "retry"
  /\ UNCHANGED <<file, health, row, errors, told, lock, full, cancelled, todo,
                 trigger, tracked, cands, chunk, copy, wrote, hooked, failing>>

EndWrites ==
  /\ pc = "write" /\ (todo = {} \/ cancelled)
  /\ pc' = "end"
  /\ todo' = {}
  /\ UNCHANGED <<file, health, tags, row, errors, told, lock, full, cancelled,
                 trigger, tracked, cands, chunk, copy, pend, luck, wrote, hooked, failing>>

\* "clean" and "written" are one here, as they are to seed_reconcile().
Outcome == CASE cancelled -> "cancelled"
             [] ~cancelled /\ TooMany -> "halted"
             [] OTHER -> "calm"

\* What the pass holds once its report is built: nothing reads the rest again.
PassOver(next) ==
  /\ pc' = next
  /\ trigger' = "scheduled"
  /\ tracked' = Nothing
  /\ cands' = {}
  /\ chunk' = {}
  /\ copy' = Nothing
  /\ pend' = {}
  /\ wrote' = {}
  /\ hooked' = {}

\* The outcome is settled and the report goes to its file, whole or not at all:
\* store_report() swallows the OSError of a file it cannot write.
StoreReport ==
  /\ pc = "end"
  /\ outcome' = Outcome
  /\ \/ report' = Outcome /\ owed' = IF cancelled THEN owed ELSE Outcome = "halted"
     \/ UNCHANGED report /\ owed' = (cancelled /\ owed)
  /\ PassOver("stored")
  /\ UNCHANGED <<file, health, tags, row, errors, alarm, lock, full, cancelled, todo, luck, failing>>

\* Mutant: reconcile_finished() that sets the gauge after a cancelled pass too.
FinishClearingAlarm ==
  /\ pc = "stored"
  /\ alarm' = (outcome = "halted")
  /\ lock' = "free" /\ outcome' = "none"
  /\ PassOver("off")
  /\ UNCHANGED <<file, health, tags, row, errors, report, owed, full, cancelled, todo, luck, failing>>

\* finish_scan_run() has closed the pass's row: the gauge moves, except after a
\* pass that was cancelled when its outcome was settled, and the lock is given back.
Finish ==
  /\ pc = "stored"
  /\ alarm' = IF outcome = "cancelled" THEN alarm ELSE outcome = "halted"
  /\ lock' = "free" /\ outcome' = "none"
  /\ PassOver("off")
  /\ UNCHANGED <<file, health, tags, row, errors, report, owed, full, cancelled, todo, luck, failing>>

\* A commit of finish_scan_run() raises: the report is stored, the gauge stays
\* where it was, and the lock is given back.
FailFinish ==
  /\ pc = "stored" /\ Fault("commit")
  /\ lock' = "free" /\ outcome' = "none"
  /\ PassOver("off")
  /\ UNCHANGED <<file, health, tags, row, errors, report, alarm, owed, full, cancelled, todo, failing>>

\* Mutant: an exception ends the pass and leaves the lock (before B22).
RaiseLeavingLock ==
  /\ pc = "read" /\ todo # {} /\ Fault("read")
  /\ todo' = {}
  /\ PassOver("off")
  /\ UNCHANGED <<file, health, tags, row, errors, told, lock, full, cancelled, failing>>

\* A read of the read phase raises: the lock is released and nothing is stored.
Raise ==
  /\ pc = "read" /\ todo # {} /\ Fault("read")
  /\ lock' = "free"
  /\ todo' = {}
  /\ PassOver("off")
  /\ UNCHANGED <<file, health, tags, row, errors, told, full, cancelled, failing>>

\* The process restarts: seed_reconcile() sets the gauge from the stored report.
Restart ==
  /\ Fault("restart")
  /\ alarm' = (report = "halted")
  /\ lock' = "free" /\ full' = FALSE /\ cancelled' = FALSE /\ todo' = {} /\ outcome' = "none"
  /\ PassOver("off")
  /\ UNCHANGED <<file, health, tags, row, errors, report, owed, failing>>

PassStep ==
  \/ ReadTags \/ EndReads \/ Decide \/ ReadWhole \/ ReadBack \/ EndWrites \/ StoreReport \/ Finish
  \/ \E i \in Items : WriteOne(i) \/ RetryOne(i)

ScanStep == (\E i \in Items : ScanItem(i)) \/ EndScan

World == Lose \/ ClearErrors \/ \E i \in Items : FileChanges(i) \/ HealthChanges(i)

Next ==
  \/ World
  \/ \E isFull \in BOOLEAN : StartScan(isFull)
  \/ ScanStep \/ FailScan
  \/ \E i \in Items : Webhook(i)
  \/ Cancel
  \/ \E by \in {"scheduled", "manual"} : StartPass(by)
  \/ PassStep \/ Raise \/ FailFinish
  \/ Restart

Spec == Init /\ [][Next]_vars

\* The two schedules fire again and again; a scan and a pass go on; who holds
\* the lock gives it back, so a scheduled run finds it free once in a while.
FairSpec ==
  /\ Spec
  /\ WF_vars(ScanStep) /\ WF_vars(PassStep)
  /\ SF_vars(StartScan(FALSE)) /\ SF_vars(StartPass("scheduled"))

-----------------------------------------------------------------------------
(* Properties *)

\* A scheduled pass never writes more items than the threshold, whatever is
\* lost or found between its two reads.
HaltHolds == trigger = "scheduled" => Cardinality(wrote) <= Threshold

\* A write of the pass takes no managed tag away: "Jellyfin's managed tags as
\* they are, plus the lost ones", unless a webhook's task has tagged the item
\* between the re-read of its batch and the write.
OnlyAddsBack ==
  [][\A i \in Items : i \in ((chunk \ chunk') \cup (pend \ pend')) \ hooked => tags[i] \subseteq tags'[i]]_vars

\* "An item whose file the scan cannot reach is skipped: its record is stale"
\* (README.md), as long as nobody has cleared the scan errors: by the button, or by
\* a full scan that then did not reach every item again.
UnreachableIsSkipped ==
  [][struck = {} => \A i \in wrote' \ wrote : i \notin failing]_vars

\* The alarm of a halted pass stays up, through cancelled passes, passes that
\* raise and restarts, until a pass that was not cancelled has reached its report
\* and was not halted.  A restart knows the stored report alone: it forgets the alarm
\* of a halted pass whose report could not be written, or lies under a cancelled one's.
AlarmStays ==
  [][alarm /\ ~alarm' => ~owed \/ (Restart /\ report = "cancelled")]_vars

\* An item that lost every managed tag gets those of its file back, or what
\* holds the pass from it shows: the alarm of a halted pass, a scan error of it.
LossIsRepaired ==
  \A i \in Items : tags[i] = {} ~> TagsOf[file[i]] \subseteq tags[i] \/ alarm \/ i \in errors
=============================================================================
