------------------------------- MODULE TagSync -------------------------------
(***************************************************************************)
(* The tagging pipeline: pipeline._run_scan() and handle_webhook() with    *)
(* everything both go through (_with_current_tags, _process_one_item,      *)
(* set_managed_tags, _record_after_readback), over the three stores they   *)
(* keep in step: the media files, the items Jellyfin serves and the local  *)
(* index.                                                                  *)
(*                                                                         *)
(* Data.  A file is the version of its content, which is also its mtime    *)
(* (every change moves the mtime).  The managed tags built for an item are *)
(* a function of the settings and of what was probed, so a set of them is  *)
(* the pair <<settings version, file version>> it was built from.  The     *)
(* posters, the *arrs and the scan errors are other modules' subject.      *)
(***************************************************************************)
EXTENDS Integers, FiniteSets

CONSTANTS
  Items,       \* the Movies and Series of Jellyfin's listing
  Hooks,       \* the background tasks that serve webhooks
  Scan,        \* the thread that holds the scan lock (see ScanLock)
  UserTags,    \* tags without the managed prefix, put there by people
  MaxVer,      \* bound: versions of a file
  MaxCfg,      \* bound: versions of the settings that tags depend on
  MaxSaves,    \* bound: saves of the settings
  BatchSize,   \* TAG_READ_BATCH: probed items tagged together
  Faults,      \* the failures the environment may produce, by name
  MaxFaults    \* bound: how many of them

ASSUME ConstantsAssumption ==
  /\ Scan \notin Hooks
  /\ {MaxVer, MaxCfg, BatchSize} \subseteq Nat \ {0}
  /\ {MaxSaves, MaxFaults} \subseteq Nat

Workers == Hooks \cup {Scan}
Versions == 0..MaxVer     \* 0: none read yet
Settings == 0..MaxCfg     \* 0: none stored yet

TagSets == [cfg : Settings, ver : Versions]
NoTags == [cfg |-> 0, ver |-> 0]
Rows == [mtime : Versions, tags : TagSets]
NoRow == [mtime |-> 0, tags |-> NoTags]

VARIABLES
  \* the world
  cfg,        \* the saved settings
  saves,      \* how many saves are left
  file,       \* file[i]: the version of i's media file
  here,       \* the items whose file can be read now
  tags,       \* tags[i]: the managed tags Jellyfin carries on i
  user,       \* user[i]: the other tags Jellyfin carries on i
  left,       \* how many faults are left
  \* state.db
  row,        \* row[i]: media_state, its mtime and its tags_applied
  meta,       \* app_meta's tag_config_hash
  \* a scan's own
  full,       \* not incremental, or made full by a changed tag_config_hash
  cancelled,  \* ScanProgress.cancelled
  queue,      \* to_probe: the items Phase 1b kept
  \* every worker's own, by worker
  pc,
  using,      \* the settings it was started with
  todo,       \* the items it has still to look at
  batch,      \* probed_ok: the items it is about to write
  pend,       \* the items written and not recorded yet
  round,      \* 1: the first write, 2: the one retry
  mtime,      \* the mtime read for an item
  ver,        \* the version its probe saw
  seen,       \* the managed tags the read-back returned
  copy,       \* the other tags it will send back with its own
  known       \* history: the other tags there ever since it started

worldVars == <<cfg, saves, file, here, tags, user, left>>
dbVars == <<row, meta>>
scanVars == <<full, cancelled, queue>>
jobVars == <<pc, using, todo, batch, pend, round, mtime, ver, seen, copy, known>>
vars == <<worldVars, dbVars, scanVars, jobVars>>

Places == {"off", "filter", "probe", "read", "write", "readback", "record", "end"}

TypeOK ==
  /\ cfg \in 1..MaxCfg
  /\ saves \in 0..MaxSaves
  /\ file \in [Items -> 1..MaxVer]
  /\ here \in SUBSET Items
  /\ tags \in [Items -> TagSets]
  /\ user \in [Items -> SUBSET UserTags]
  /\ left \in 0..MaxFaults
  /\ row \in [Items -> Rows]
  /\ meta \in Settings
  /\ full \in BOOLEAN
  /\ cancelled \in BOOLEAN
  /\ queue \in SUBSET Items
  /\ pc \in [Workers -> Places]
  /\ using \in [Workers -> Settings]
  /\ todo \in [Workers -> SUBSET Items]
  /\ batch \in [Workers -> SUBSET Items]
  /\ pend \in [Workers -> SUBSET Items]
  /\ round \in [Workers -> 1..2]
  /\ mtime \in [Workers -> [Items -> Versions]]
  /\ ver \in [Workers -> [Items -> Versions]]
  /\ seen \in [Workers -> [Items -> TagSets]]
  /\ copy \in [Workers -> [Items -> SUBSET UserTags]]
  /\ known \in [Workers -> [Items -> SUBSET UserTags]]

Unread == [i \in Items |-> 0]
Unseen == [i \in Items |-> NoTags]
Nothing == [i \in Items |-> {}]

\* The library as a first scan left it under the first settings.
Init ==
  /\ cfg = 1
  /\ saves = MaxSaves
  /\ file = [i \in Items |-> 1]
  /\ here = Items
  /\ tags \in {[i \in Items |-> NoTags], [i \in Items |-> [cfg |-> 1, ver |-> 1]]}
  /\ user \in [Items -> {{}, UserTags}]
  /\ left = MaxFaults
  /\ row = [i \in Items |-> IF tags[i] = NoTags THEN NoRow ELSE [mtime |-> 1, tags |-> tags[i]]]
  /\ meta = IF \A i \in Items : row[i] = NoRow THEN 0 ELSE 1
  /\ full = FALSE
  /\ cancelled = FALSE
  /\ queue = {}
  /\ pc = [w \in Workers |-> "off"]
  /\ using = [w \in Workers |-> 0]
  /\ todo = [w \in Workers |-> {}]
  /\ batch = [w \in Workers |-> {}]
  /\ pend = [w \in Workers |-> {}]
  /\ round = [w \in Workers |-> 1]
  /\ mtime = [w \in Workers |-> Unread]
  /\ ver = [w \in Workers |-> Unread]
  /\ seen = [w \in Workers |-> Unseen]
  /\ copy = [w \in Workers |-> Nothing]
  /\ known = [w \in Workers |-> Nothing]

-----------------------------------------------------------------------------
(* The world *)

\* One of the failures this model allows happens now.
Fault(f) == f \in Faults /\ left > 0 /\ left' = left - 1

\* The *arr replaces or upgrades a file.
FileChanges(i) ==
  /\ file[i] < MaxVer
  /\ file' = [file EXCEPT ![i] = @ + 1]
  /\ UNCHANGED <<cfg, saves, here, tags, user, left, dbVars, scanVars, jobVars>>

\* A mount goes away, or comes back with the same files and mtimes.
Unmount(i) ==
  /\ Fault("unmount")
  /\ here' = here \ {i}
  /\ UNCHANGED <<cfg, saves, file, tags, user, dbVars, scanVars, jobVars>>

Mount(i) ==
  /\ i \notin here
  /\ here' = here \cup {i}
  /\ UNCHANGED <<cfg, saves, file, tags, user, left, dbVars, scanVars, jobVars>>

\* Settings that move _tag_config_hash() are saved, back to old ones included.
SaveSettings(c) ==
  /\ saves > 0 /\ c # cfg
  /\ cfg' = c
  /\ saves' = saves - 1
  /\ UNCHANGED <<file, here, tags, user, left, dbVars, scanVars, jobVars>>

\* Somebody adds a tag to an item in Jellyfin.
UserTagsItem(i, u) ==
  /\ u \notin user[i]
  /\ user' = [user EXCEPT ![i] = @ \cup {u}]
  /\ UNCHANGED <<cfg, saves, file, here, tags, left, dbVars, scanVars, jobVars>>

\* Jellyfin undoes a tag write: it saves the item again with no managed tags
\* or with the ones it had (B12, B17).
Undo(i) ==
  /\ Fault("undo")
  /\ \E t \in {NoTags, row[i].tags} : tags' = [tags EXCEPT ![i] = t]
  /\ UNCHANGED <<cfg, saves, file, here, user, dbVars, scanVars, jobVars>>

-----------------------------------------------------------------------------
(* A worker *)

Wanted(w, i) == [cfg |-> using[w], ver |-> ver[w][i]]

\* Where a worker goes when a batch is recorded: the scan back to its probes,
\* a webhook home.
AfterBatch(w) == IF w = Scan THEN "probe" ELSE "off"

\* What a batch leaves behind: its locals are dropped, and a webhook's task is
\* over with it.
DropBatch(w) ==
  /\ pc' = [pc EXCEPT ![w] = AfterBatch(w)]
  /\ pend' = [pend EXCEPT ![w] = {}]
  /\ round' = [round EXCEPT ![w] = 1]
  /\ ver' = [ver EXCEPT ![w] = Unread]
  /\ seen' = [seen EXCEPT ![w] = Unseen]
  /\ IF w = Scan
       THEN UNCHANGED <<using, mtime, copy, known>>
       ELSE /\ using' = [using EXCEPT ![w] = 0]
            /\ mtime' = [mtime EXCEPT ![w] = Unread]
            /\ copy' = [copy EXCEPT ![w] = Nothing]
            /\ known' = [known EXCEPT ![w] = Nothing]

\* set_managed_tags(): one POST of the whole item.  The managed tags become the
\* ones wanted, the others become those of the copy the worker holds.
Posted(w, i) ==
  /\ tags' = [tags EXCEPT ![i] = Wanted(w, i)]
  /\ user' = [user EXCEPT ![i] = copy[w][i]]
  /\ known' = [v \in Workers |-> [known[v] EXCEPT ![i] = @ \cap copy[w][i]]]

\* Mutant: the item is recorded although its write raised (before B17).
WriteRecordingFailure(w, i) ==
  /\ pc[w] = "write" /\ i \in batch[w]
  /\ batch' = [batch EXCEPT ![w] = @ \ {i}]
  /\ \/ /\ Posted(w, i)
        /\ pend' = [pend EXCEPT ![w] = @ \cup {i}]
        /\ UNCHANGED <<left, row>>
     \/ /\ Fault("write")
        /\ row' = [row EXCEPT ![i] = [mtime |-> mtime[w][i], tags |-> Wanted(w, i)]]
        /\ Posted(w, i) \/ UNCHANGED <<tags, user, known>>
        /\ UNCHANGED pend
  /\ UNCHANGED <<cfg, saves, file, here, meta, scanVars,
                 pc, using, todo, round, mtime, ver, seen, copy>>

\* _process_one_item() and the retry of _record_after_readback().  A write that
\* raises is not pending; it may have landed all the same (a client timeout).
Write(w, i) ==
  /\ pc[w] = "write" /\ i \in batch[w]
  /\ batch' = [batch EXCEPT ![w] = @ \ {i}]
  /\ \/ /\ Posted(w, i)
        /\ pend' = [pend EXCEPT ![w] = @ \cup {i}]
        /\ UNCHANGED left
     \/ /\ Fault("write")
        /\ Posted(w, i) \/ UNCHANGED <<tags, user, known>>
        /\ UNCHANGED pend
  /\ UNCHANGED <<cfg, saves, file, here, dbVars, scanVars,
                 pc, using, todo, round, mtime, ver, seen, copy>>

\* The batch is written; what raised is not read back.
EndWrites(w) ==
  /\ pc[w] = "write" /\ batch[w] = {} /\ pend[w] # {}
  /\ pc' = [pc EXCEPT ![w] = "readback"]
  /\ UNCHANGED <<worldVars, dbVars, scanVars,
                 using, todo, batch, pend, round, mtime, ver, seen, copy, known>>

\* _read_back(): one Ids= read of what was written.  The items it does not
\* return (all of them, when it raises) are dropped and not recorded.
ReadBack(w) ==
  /\ pc[w] = "readback"
  /\ seen' = [seen EXCEPT ![w] = [i \in Items |-> IF i \in pend[w] THEN tags[i] ELSE NoTags]]
  /\ copy' = [copy EXCEPT ![w] = [i \in Items |-> IF i \in pend[w] THEN user[i] ELSE @[i]]]
  /\ \/ UNCHANGED <<pend, left>>
     \/ /\ Fault("readback")
        /\ \E lost \in (SUBSET pend[w]) \ {{}} : pend' = [pend EXCEPT ![w] = @ \ lost]
  /\ pc' = [pc EXCEPT ![w] = "record"]
  /\ UNCHANGED <<cfg, saves, file, here, tags, user, dbVars, scanVars,
                 using, todo, batch, round, mtime, ver, known>>

\* Mutant: the mtime is read when the item is recorded, after the probe.
RecordReadingMtimeLate(w, i) ==
  /\ pc[w] = "record" /\ i \in pend[w]
  /\ seen[w][i] = Wanted(w, i) \/ round[w] = 2
  /\ row' = [row EXCEPT ![i] = [mtime |-> file[i], tags |-> seen[w][i]]]
  /\ pend' = [pend EXCEPT ![w] = @ \ {i}]
  /\ UNCHANGED <<worldVars, meta, scanVars,
                 pc, using, todo, batch, round, mtime, ver, seen, copy, known>>

\* Mutant: the new mtime is stored and the tags of an existing row are kept.
RecordKeepingTags(w, i) ==
  /\ pc[w] = "record" /\ i \in pend[w]
  /\ seen[w][i] = Wanted(w, i) \/ round[w] = 2
  /\ row' = [row EXCEPT ![i] = [mtime |-> mtime[w][i],
                                tags |-> IF @ = NoRow THEN seen[w][i] ELSE @.tags]]
  /\ pend' = [pend EXCEPT ![w] = @ \ {i}]
  /\ UNCHANGED <<worldVars, meta, scanVars,
                 pc, using, todo, batch, round, mtime, ver, seen, copy, known>>

\* What reads back as written is recorded as written; after the retry, what
\* reads back is recorded whatever it is.
Record(w, i) ==
  /\ pc[w] = "record" /\ i \in pend[w]
  /\ seen[w][i] = Wanted(w, i) \/ round[w] = 2
  /\ row' = [row EXCEPT ![i] = [mtime |-> mtime[w][i], tags |-> seen[w][i]]]
  /\ pend' = [pend EXCEPT ![w] = @ \ {i}]
  /\ UNCHANGED <<worldVars, meta, scanVars,
                 pc, using, todo, batch, round, mtime, ver, seen, copy, known>>

\* What does not read back as written is written once more, with the other
\* tags just read.
Retry(w) ==
  /\ pc[w] = "record" /\ round[w] = 1 /\ pend[w] # {}
  /\ \A i \in pend[w] : seen[w][i] # Wanted(w, i)
  /\ round' = [round EXCEPT ![w] = 2]
  /\ batch' = [batch EXCEPT ![w] = pend[w]]
  /\ pend' = [pend EXCEPT ![w] = {}]
  /\ pc' = [pc EXCEPT ![w] = "write"]
  /\ UNCHANGED <<worldVars, dbVars, scanVars, using, todo, mtime, ver, seen, copy, known>>

\* Nothing is left to read back or to record.
EndBatch(w) ==
  /\ pc[w] \in {"write", "record"} /\ batch[w] = {} /\ pend[w] = {}
  /\ DropBatch(w)
  /\ UNCHANGED <<worldVars, dbVars, scanVars, todo, batch>>

BatchStep(w) ==
  \/ \E i \in Items : Write(w, i) \/ Record(w, i)
  \/ EndWrites(w) \/ ReadBack(w) \/ Retry(w) \/ EndBatch(w)

-----------------------------------------------------------------------------
(* The scan *)

\* run_full_scan(), run_incremental_scan() and the listing.  A listing can
\* serve older tags than the items carry (B18); one that raises ends the scan
\* with nothing changed here.
StartScan(incremental) ==
  /\ pc[Scan] = "off"
  /\ pc' = [pc EXCEPT ![Scan] = "filter"]
  /\ using' = [using EXCEPT ![Scan] = cfg]
  /\ full' = (~incremental \/ meta # cfg)
  /\ cancelled' = FALSE
  /\ todo' = [todo EXCEPT ![Scan] = Items]
  /\ known' = [known EXCEPT ![Scan] = user]
  /\ \/ copy' = [copy EXCEPT ![Scan] = user] /\ UNCHANGED left
     \/ copy' = [copy EXCEPT ![Scan] = Nothing] /\ Fault("stale")
  /\ UNCHANGED <<cfg, saves, file, here, tags, user, dbVars, queue,
                 batch, pend, round, mtime, ver, seen>>

\* POST /scan/cancel.
Cancel ==
  /\ pc[Scan] # "off" /\ ~cancelled
  /\ Fault("cancel")
  /\ cancelled' = TRUE
  /\ UNCHANGED <<cfg, saves, file, here, tags, user, dbVars, full, queue, jobVars>>

\* Mutant: an incremental scan takes the items that have no row.
CheckNewOnly(i) ==
  /\ pc[Scan] = "filter" /\ ~cancelled /\ i \in todo[Scan]
  /\ todo' = [todo EXCEPT ![Scan] = @ \ {i}]
  /\ IF i \in here /\ (full \/ row[i] = NoRow)
       THEN /\ queue' = queue \cup {i}
            /\ mtime' = [mtime EXCEPT ![Scan][i] = file[i]]
       ELSE UNCHANGED <<queue, mtime>>
  /\ UNCHANGED <<worldVars, dbVars, full, cancelled,
                 pc, using, batch, pend, round, ver, seen, copy, known>>

\* Phase 1b for one item: no file, up to date, or to be probed.  The mtime is
\* read here, before the probe.
Check(i) ==
  /\ pc[Scan] = "filter" /\ ~cancelled /\ i \in todo[Scan]
  /\ todo' = [todo EXCEPT ![Scan] = @ \ {i}]
  /\ IF i \in here /\ (full \/ row[i].mtime # file[i])
       THEN /\ queue' = queue \cup {i}
            /\ mtime' = [mtime EXCEPT ![Scan][i] = file[i]]
       ELSE UNCHANGED <<queue, mtime>>
  /\ UNCHANGED <<worldVars, dbVars, full, cancelled,
                 pc, using, batch, pend, round, ver, seen, copy, known>>

StartProbing ==
  /\ pc[Scan] = "filter" /\ todo[Scan] = {}
  /\ pc' = [pc EXCEPT ![Scan] = "probe"]
  /\ UNCHANGED <<worldVars, dbVars, scanVars,
                 using, todo, batch, pend, round, mtime, ver, seen, copy, known>>

\* One probe's result is taken, in any order; a full batch is processed at once.
\* A file that changed after its probe ran is one that changes after this step.
Collect(i) ==
  /\ pc[Scan] = "probe" /\ ~cancelled /\ i \in queue
  /\ Cardinality(batch[Scan]) < BatchSize
  /\ queue' = queue \ {i}
  /\ \/ /\ i \in here
        /\ ver' = [ver EXCEPT ![Scan][i] = file[i]]
        /\ batch' = [batch EXCEPT ![Scan] = @ \cup {i}]
        /\ UNCHANGED left
     \/ /\ (i \notin here /\ UNCHANGED left) \/ Fault("probe")
        /\ UNCHANGED <<ver, batch>>
  /\ UNCHANGED <<cfg, saves, file, here, tags, user, dbVars, full, cancelled,
                 pc, using, todo, pend, round, mtime, seen, copy, known>>

BatchReady ==
  \/ Cardinality(batch[Scan]) >= BatchSize
  \/ queue = {} /\ batch[Scan] # {} /\ ~cancelled

\* Mutant: a batch is written from the listing's copies (before B18).
ReadNothing ==
  /\ pc[Scan] = "probe" /\ BatchReady
  /\ pc' = [pc EXCEPT ![Scan] = "write"]
  /\ UNCHANGED <<worldVars, dbVars, scanVars,
                 using, todo, batch, pend, round, mtime, ver, seen, copy, known>>

\* _with_current_tags(): the copies get the tags the items carry now; a read
\* that fails leaves the listing's.
ReadCurrent ==
  /\ pc[Scan] = "probe" /\ BatchReady
  /\ pc' = [pc EXCEPT ![Scan] = "write"]
  /\ \/ /\ copy' = [copy EXCEPT ![Scan] = [i \in Items |-> IF i \in batch[Scan] THEN user[i] ELSE @[i]]]
        /\ UNCHANGED left
     \/ Fault("read") /\ UNCHANGED copy
  /\ UNCHANGED <<cfg, saves, file, here, tags, user, dbVars, scanVars,
                 using, todo, batch, pend, round, mtime, ver, seen, known>>

ScanOver == queue = {} /\ batch[Scan] = {}

\* Mutant: the hash stored at the end is computed then, not at the start.
FinishScanHashingLate ==
  /\ \/ pc[Scan] = "probe" /\ ScanOver
     \/ pc[Scan] \in {"filter", "probe"} /\ cancelled /\ Cardinality(batch[Scan]) < BatchSize
  /\ meta' = cfg
  /\ pc' = [pc EXCEPT ![Scan] = "off"]
  /\ using' = [using EXCEPT ![Scan] = 0]
  /\ todo' = [todo EXCEPT ![Scan] = {}]
  /\ batch' = [batch EXCEPT ![Scan] = {}]
  /\ mtime' = [mtime EXCEPT ![Scan] = Unread]
  /\ ver' = [ver EXCEPT ![Scan] = Unread]
  /\ copy' = [copy EXCEPT ![Scan] = Nothing]
  /\ known' = [known EXCEPT ![Scan] = Nothing]
  /\ full' = FALSE /\ cancelled' = FALSE /\ queue' = {}
  /\ UNCHANGED <<worldVars, row, pend, round, seen>>

\* The end of _run_scan(): reached when everything is processed and when the
\* scan was cancelled, whose remaining items and unprocessed batch are dropped.
\* Either way the settings' hash is stored.
FinishScan ==
  /\ \/ pc[Scan] = "probe" /\ ScanOver
     \/ pc[Scan] \in {"filter", "probe"} /\ cancelled /\ Cardinality(batch[Scan]) < BatchSize
  /\ meta' = using[Scan]
  /\ pc' = [pc EXCEPT ![Scan] = "off"]
  /\ using' = [using EXCEPT ![Scan] = 0]
  /\ todo' = [todo EXCEPT ![Scan] = {}]
  /\ batch' = [batch EXCEPT ![Scan] = {}]
  /\ mtime' = [mtime EXCEPT ![Scan] = Unread]
  /\ ver' = [ver EXCEPT ![Scan] = Unread]
  /\ copy' = [copy EXCEPT ![Scan] = Nothing]
  /\ known' = [known EXCEPT ![Scan] = Nothing]
  /\ full' = FALSE /\ cancelled' = FALSE /\ queue' = {}
  /\ UNCHANGED <<worldVars, row, pend, round, seen>>

ScanStep ==
  \/ \E i \in Items : Check(i) \/ Collect(i)
  \/ StartProbing \/ ReadCurrent \/ FinishScan
  \/ BatchStep(Scan)

-----------------------------------------------------------------------------
(* A webhook *)

\* POST /webhook/{source}: skipped while a scan runs, else queued as a
\* background task with the settings of that moment.
Deliver(h, i) ==
  /\ pc[h] = "off" /\ pc[Scan] = "off"
  /\ pc' = [pc EXCEPT ![h] = "filter"]
  /\ using' = [using EXCEPT ![h] = cfg]
  /\ todo' = [todo EXCEPT ![h] = {i}]
  /\ known' = [known EXCEPT ![h] = user]
  /\ UNCHANGED <<worldVars, dbVars, scanVars, batch, pend, round, mtime, ver, seen, copy>>

\* handle_webhook() resolves the item, whole, and reads the file's mtime.
Resolve(h, i) ==
  /\ pc[h] = "filter" /\ i \in todo[h] \cap here
  /\ pc' = [pc EXCEPT ![h] = "probe"]
  /\ copy' = [copy EXCEPT ![h][i] = user[i]]
  /\ mtime' = [mtime EXCEPT ![h][i] = file[i]]
  /\ UNCHANGED <<worldVars, dbVars, scanVars, using, todo, batch, pend, round, ver, seen, known>>

\* ... then probes it and processes it alone.
ProbeOne(h, i) ==
  /\ pc[h] = "probe" /\ i \in todo[h] \cap here
  /\ pc' = [pc EXCEPT ![h] = "write"]
  /\ ver' = [ver EXCEPT ![h][i] = file[i]]
  /\ todo' = [todo EXCEPT ![h] = {}]
  /\ batch' = [batch EXCEPT ![h] = {i}]
  /\ UNCHANGED <<worldVars, dbVars, scanVars, using, pend, round, mtime, seen, copy, known>>

\* No Jellyfin item, no accessible file, or a probe that fails: nothing is done.
GiveUp(h) ==
  /\ pc[h] \in {"filter", "probe"}
  /\ (todo[h] \cap here = {} /\ UNCHANGED left) \/ Fault("probe")
  /\ DropBatch(h)
  /\ todo' = [todo EXCEPT ![h] = {}]
  /\ UNCHANGED <<cfg, saves, file, here, tags, user, dbVars, scanVars, batch>>

HookStep(h) ==
  \/ \E i \in Items : Resolve(h, i) \/ ProbeOne(h, i)
  \/ GiveUp(h)
  \/ BatchStep(h)

-----------------------------------------------------------------------------

\* The process dies and starts again: state.db is what is left of it.  When the
\* scan works alone, an exception that escapes it leaves the same behind.
Crash ==
  /\ Fault("crash")
  /\ \E w \in Workers : pc[w] # "off"
  /\ full' = FALSE /\ cancelled' = FALSE /\ queue' = {}
  /\ pc' = [w \in Workers |-> "off"]
  /\ using' = [w \in Workers |-> 0]
  /\ todo' = [w \in Workers |-> {}]
  /\ batch' = [w \in Workers |-> {}]
  /\ pend' = [w \in Workers |-> {}]
  /\ round' = [w \in Workers |-> 1]
  /\ mtime' = [w \in Workers |-> Unread]
  /\ ver' = [w \in Workers |-> Unread]
  /\ seen' = [w \in Workers |-> Unseen]
  /\ copy' = [w \in Workers |-> Nothing]
  /\ known' = [w \in Workers |-> Nothing]
  /\ UNCHANGED <<cfg, saves, file, here, tags, user, dbVars>>

World ==
  \/ \E i \in Items : FileChanges(i) \/ Unmount(i) \/ Mount(i) \/ Undo(i)
  \/ \E i \in Items, u \in UserTags : UserTagsItem(i, u)
  \/ \E c \in 1..MaxCfg : SaveSettings(c)

Next ==
  \/ World
  \/ \E incremental \in BOOLEAN : StartScan(incremental)
  \/ Cancel
  \/ ScanStep
  \/ \E h \in Hooks : (\E i \in Items : Deliver(h, i)) \/ HookStep(h)
  \/ Crash

Spec == Init /\ [][Next]_vars

\* The scheduler keeps starting incremental scans and a scan keeps going:
\* finite lists, and a timeout on every request.  A mount that went away is
\* put back.
FairSpec ==
  /\ Spec
  /\ WF_vars(StartScan(TRUE))
  /\ WF_vars(ScanStep)
  /\ \A i \in Items : WF_vars(Mount(i))

-----------------------------------------------------------------------------
(* Properties *)

\* A row never claims a newer file than the one its tags were built from:
\* otherwise the incremental scan would skip an item whose tags are old.  The
\* order "mtime first, then probe" is what makes it true.
RowNotAheadOfItsTags == \A i \in Items : row[i].mtime <= row[i].tags.ver

Idle == \A w \in Workers : pc[w] = "off"

\* With webhooks at work beside a scan RowNotAheadOfItsTags is lost, in one way
\* only: a worker whose retry was overwritten records what it read, under the
\* mtime of the file it probed.
AheadOnlyAfterLostRetry ==
  [][\A i \in Items :
       row'[i] # row[i] /\ row'[i].mtime > row'[i].tags.ver =>
         \E w \in Workers : i \in pend[w] \ pend'[w] /\ round[w] = 2 /\ seen[w][i] # Wanted(w, i)]_vars

\* What the incremental scan skips is tagged: when nobody is at work, an item
\* whose row has its file's mtime carries in Jellyfin the tags of that row, or
\* newer ones that a write left there when it raised and landed.
SkippedIsTagged ==
  Idle => \A i \in Items : row[i] # NoRow /\ row[i].mtime = file[i] => tags[i].ver >= row[i].tags.ver

Unfailed == left = MaxFaults

\* A row holds "what xenotag last wrote" (_tag_drift()): when nobody is at work
\* and nothing has failed, Jellyfin carries what the row says.
RowIsLastWrite ==
  Unfailed /\ Idle => \A i \in Items : row[i] # NoRow => tags[i] = row[i].tags

\* When the stored hash says that no re-tag is owed, no unchanged file keeps
\* tags of other settings (_tag_config_hash()), as the comments have it.
NoRetagIsOwed ==
  pc[Scan] = "off" /\ meta = cfg =>
    \A i \in here : row[i] # NoRow /\ row[i].mtime = file[i] => row[i].tags.cfg = cfg

\* The same as long as nothing has failed: settings saved while a scan is at
\* work, or changed and changed back, are never taken for applied.
RetagIsDone == Unfailed => NoRetagIsOwed

\* A write drops no tag of the user's that has been on the item ever since the
\* worker that writes it started.
KeepsUserTags ==
  [][\A i \in Items : \A u \in user[i] \ user'[i] :
       \E w \in Workers : i \in batch[w] \ batch'[w] /\ u \notin known[w][i]]_vars

UpToDate(i) == tags[i] = [cfg |-> cfg, ver |-> file[i]] /\ row[i] = [mtime |-> file[i], tags |-> tags[i]]

Current(i) == tags[i].ver = file[i] /\ row[i].mtime = file[i] /\ row[i].tags.ver = file[i]

\* A failure is only a delay: once files stop changing and faults stop, every
\* item ends up with tags built from its file and a row that says so.  They are
\* tags of the current settings too unless settings were saved and something
\* failed as well.
Converges == <>[](\A i \in Items : Current(i) /\ (Unfailed \/ saves = MaxSaves => UpToDate(i)))
=============================================================================
