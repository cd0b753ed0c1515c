------------------------------- MODULE ArrSync -------------------------------
(***************************************************************************)
(* The tags on Sonarr's and Radarr's objects (arr_sync.py, clients/arr.py) *)
(* and the alert for writes that halted (metrics.py).  A scan and webhooks *)
(* each have their own preload, halt flag and map of tag labels, and edit  *)
(* the same objects with add and remove calls, beside people who use the   *)
(* *arrs.  Tagging in Jellyfin is TagSync's subject: here an item has been *)
(* probed, and its row is written when its objects are done with.          *)
(*                                                                         *)
(* Data.  A managed tag, its label and its id are one value.  "rest" is    *)
(* all of an object that is nobody's managed tag.                          *)
(***************************************************************************)
EXTENDS Integers, FiniteSets

CONSTANTS
  Items, Objs, Insts, Tags,
  InstOf,     \* InstOf[o]: the instance that holds object o
  Refuses,    \* Refuses[n]: the labels instance n does not accept (Radarr's pattern)
  Libraries,  \* the libraries to start from: who carries an object's id, and its folder
  TagsOf,     \* TagsOf[i][v]: the managed tags of version v of item i's file
  MaxVer,     \* bound: versions of a file
  Scan,       \* the scan, one of the workers
  Hooks,      \* the tasks of webhooks
  Faults,     \* the failures and disturbances allowed, by name
  MaxFaults   \* bound: how many of them

ASSUME ConstantsAssumption ==
  /\ InstOf \in [Objs -> Insts]
  /\ Refuses \in [Insts -> SUBSET Tags]
  /\ MaxVer \in Nat \ {0}
  /\ TagsOf \in [Items -> [1..MaxVer -> SUBSET Tags]]
  /\ Libraries \subseteq [ids : [Objs -> SUBSET Items], home : [Objs -> SUBSET Items]]
  /\ Scan \notin Hooks
  /\ MaxFaults \in Nat

Workers == {Scan} \cup Hooks

VARIABLES
  file,      \* file[i]: the version of i's file
  row,       \* row[i]: the version of the index row, 0 for none
  ids,       \* ids[o]: the items whose provider ids are those of object o
  obj,       \* the objects
  labels,    \* labels[n]: the labels that exist on instance n
  live,      \* arr_sync.mode is "live"
  applied,   \* the mode that the stored settings hash was taken with
  alarm,     \* xenotag_arr_sync_halted
  report,    \* arr-sync-report.json: mode and halted
  run,       \* run[w]: what worker w knows and does
  cancelled, \* ScanProgress.cancelled
  left,      \* how many faults are left
  probed,    \* history: probed[i]: the version this scan probed, 0 for none
  touched    \* history: the objects that somebody else changed during this scan, or whose
             \* labels were refused

worldVars == <<file, row, ids, live, applied, cancelled, probed>>
alertVars == <<alarm, report>>
vars == <<worldVars, alertVars, obj, labels, run, left, touched>>

Objects == [here : BOOLEAN, home : SUBSET Items, tags : SUBSET Tags, rest : BOOLEAN]

Phases == {"off", "items", "object", "create", "add", "remove", "check"}

Runs == [pc : Phases, live : BOOLEAN, halted : BOOLEAN,
         todo : SUBSET Items,             \* the items still to be synced
         item : SUBSET Items,             \* the one at work
         queue : SUBSET Objs,             \* its owners still to be done
         at : SUBSET Objs,                \* the one at work
         pre : [Objs -> Objects],         \* client.objects
         known : [Insts -> SUBSET Tags],  \* client.tags
         refused : SUBSET Objs,           \* claimed twice
         ver : 0..MaxVer,                 \* the version of the item's file that was probed
         add : SUBSET Tags, remove : SUBSET Tags, intended : SUBSET Tags,
         before : Objects]

TypeOK ==
  /\ file \in [Items -> 1..MaxVer]
  /\ row \in [Items -> 0..MaxVer]
  /\ ids \in [Objs -> SUBSET Items]
  /\ obj \in [Objs -> Objects]
  /\ labels \in [Insts -> SUBSET Tags]
  /\ live \in BOOLEAN /\ applied \in BOOLEAN
  /\ alarm \in BOOLEAN /\ cancelled \in BOOLEAN
  /\ report \in [live : BOOLEAN, halted : BOOLEAN]
  /\ run \in [Workers -> Runs]
  /\ left \in 0..MaxFaults
  /\ probed \in [Items -> 0..MaxVer]
  /\ touched \in SUBSET Objs

Absent == [here |-> FALSE, home |-> {}, tags |-> {}, rest |-> FALSE]

Off == [pc |-> "off", live |-> FALSE, halted |-> FALSE, todo |-> {}, item |-> {}, queue |-> {},
        at |-> {}, pre |-> [o \in Objs |-> Absent], known |-> [n \in Insts |-> {}],
        refused |-> {}, ver |-> 0, add |-> {}, remove |-> {}, intended |-> {}, before |-> Absent]

\* The first live scan is still to come.
Init ==
  /\ file = [i \in Items |-> 1]
  /\ row = [i \in Items |-> 0]
  /\ \E lib \in Libraries :
       /\ ids = lib.ids
       /\ obj = [o \in Objs |-> [here |-> TRUE, home |-> lib.home[o], tags |-> {}, rest |-> FALSE]]
  /\ labels = [n \in Insts |-> {}]
  /\ live = TRUE /\ applied = FALSE
  /\ alarm = FALSE /\ report = [live |-> FALSE, halted |-> FALSE]
  /\ run = [w \in Workers |-> Off]
  /\ cancelled = FALSE
  /\ left = MaxFaults
  /\ probed = [i \in Items |-> 0] /\ touched = {}

-----------------------------------------------------------------------------
(* Matching and planning *)

\* InstanceIndex.resolve(), over all instances: the one object of an instance
\* with the item's id, when its path is the item's folder.
Owners(pre, i) ==
  {o \in Objs : /\ pre[o].here /\ i \in ids[o] \cap pre[o].home
                /\ \A other \in Objs \ {o} :
                     InstOf[other] = InstOf[o] /\ pre[other].here => i \notin ids[other]}

\* Mutant: more than two claims.
ClaimedThrice(pre, items) ==
  {o \in Objs : Cardinality({i \in items : o \in Owners(pre, i)}) > 2}

\* resolve_all(): the objects that two of these items claim.
ClaimedTwice(pre, items) ==
  {o \in Objs : \E i, j \in items : i # j /\ o \in Owners(pre, i) \cap Owners(pre, j)}

\* plan_tags(), for the labels an instance accepts: what it does not know is
\* created, and of what it does know only managed tags are removed.
Create(known, want) == want \ known
Add(known, tags, want) == (want \cap known) \ tags
Remove(known, tags, want) == (tags \cap known) \ want

\* Mutant: an object with a tag too many is taken to be current.
Lacks(known, tags, want) == Create(known, want) \cup Add(known, tags, want) # {}

Changes(known, tags, want) ==
  Create(known, want) \cup Add(known, tags, want) \cup Remove(known, tags, want) # {}

Accepted(o, want) == want \ Refuses[InstOf[o]]

-----------------------------------------------------------------------------
(* The world *)

Fault(f) == f \in Faults /\ left > 0 /\ left' = left - 1

Touched(o) == touched' = touched \cup {o}

\* Only a change of the tags is of interest here.
FileChanges(i) ==
  /\ file[i] < MaxVer /\ TagsOf[i][file[i]] # TagsOf[i][file[i] + 1]
  /\ file' = [file EXCEPT ![i] = @ + 1]
  /\ UNCHANGED <<row, ids, live, applied, cancelled, probed, alertVars, obj, labels, run, left, touched>>

\* Somebody edits an object, moves it to another folder, deletes it or adds
\* or removes a managed tag, in the *arr.
Disturb(o) ==
  /\ obj[o].here
  /\ \/ Fault("edit") /\ obj' = [obj EXCEPT ![o].rest = ~@]
     \/ Fault("move") /\ obj' = [obj EXCEPT ![o].home = {}]
     \/ Fault("delete") /\ obj' = [obj EXCEPT ![o] = Absent]
     \/ Fault("retag") /\ \E t \in labels[InstOf[o]] :
          obj' = [obj EXCEPT ![o].tags = IF t \in @ THEN @ \ {t} ELSE @ \cup {t}]
  /\ Touched(o)
  /\ UNCHANGED <<worldVars, alertVars, labels, run>>

\* PUT /api/settings with the other mode.
SaveMode ==
  /\ Fault("mode")
  /\ live' = ~live
  /\ UNCHANGED <<file, row, ids, applied, cancelled, probed, alertVars, obj, labels, run, touched>>

-----------------------------------------------------------------------------
(* One worker *)

\* prepare() and resolve_all(): the objects and labels of the instances that
\* answered, and the objects that two of the listed items claim.
Begin(w, listed, todo, avail) ==
  LET pre == [o \in Objs |-> IF InstOf[o] \in avail THEN [obj[o] EXCEPT !.rest = FALSE] ELSE Absent]
  IN run' = [run EXCEPT ![w] = [Off EXCEPT
               !.pc = "items", !.live = live, !.todo = todo, !.pre = pre,
               !.known = [n \in Insts |-> IF n \in avail THEN labels[n] ELSE {}],
               !.refused = ClaimedTwice(pre, listed)]]

StartScan(full) ==
  /\ run[Scan].pc = "off"
  /\ \E avail \in SUBSET Insts :
       /\ \/ avail = Insts /\ UNCHANGED left
          \/ avail # Insts /\ Fault("preload")
       /\ Begin(Scan, Items, IF full \/ live # applied THEN Items ELSE {i \in Items : row[i] # file[i]}, avail)
  /\ cancelled' = FALSE
  /\ touched' = {}
  /\ UNCHANGED <<file, row, ids, live, applied, probed, alertVars, obj, labels>>

\* A task resolves the one item it was sent for.  An instance it cannot read
\* is the same to it as one without the item.
StartHook(h, i) ==
  /\ run[h].pc = "off"
  /\ live
  /\ Fault("hook")
  /\ Begin(h, {i}, {i}, Insts)
  /\ UNCHANGED <<worldVars, alertVars, obj, labels, touched>>

StartItem(w, i) ==
  /\ run[w].pc = "items" /\ run[w].item = {} /\ i \in run[w].todo
  /\ w = Scan => ~cancelled
  /\ run' = [run EXCEPT ![w].todo = @ \ {i}, ![w].item = {i}, ![w].ver = file[i],
               ![w].queue = IF run[w].live THEN Owners(run[w].pre, i) \ run[w].refused ELSE {}]
  /\ probed' = IF w = Scan THEN [probed EXCEPT ![i] = file[i]] ELSE probed
  /\ UNCHANGED <<file, row, ids, live, applied, cancelled, alertVars, obj, labels, left, touched>>

\* The row is written whatever became of the objects, unless Jellyfin's tags
\* could not be written.
EndItem(w, i) ==
  /\ run[w].pc = "items" /\ i \in run[w].item /\ run[w].queue = {}
  /\ run' = [run EXCEPT ![w].item = {}, ![w].ver = 0]
  /\ \/ row' = [row EXCEPT ![i] = run[w].ver] /\ UNCHANGED left
     \/ Fault("jellyfin") /\ UNCHANGED row
  /\ UNCHANGED <<file, ids, live, applied, cancelled, probed, alertVars, obj, labels, touched>>

\* The worker is done with an object.
Done(w, o) == [run[w] EXCEPT !.pc = "items", !.at = {}, !.queue = @ \ {o},
                             !.add = {}, !.remove = {}, !.intended = {}, !.before = Absent]

\* A request failed or a write reads back differently: no more writes by this
\* worker, and the gauge is up.
Halt(w, o) == run' = [run EXCEPT ![w] = [Done(w, o) EXCEPT !.halted = TRUE]] /\ alarm' = TRUE

Raise(w, o) == Fault("request") /\ Halt(w, o)

Wanted(w, i, o) == Accepted(o, TagsOf[i][run[w].ver])

Current(w, i, o) == ~Changes(run[w].known[InstOf[o]], run[w].pre[o].tags, Wanted(w, i, o))

\* Mutant: the halt is not looked at.
QuietIfCurrent(w, i, o) == Current(w, i, o)

\* The object is passed over without a request.
Quiet(w, i, o) == run[w].halted \/ Current(w, i, o)

\* Mutant: the fresh copy's folder is not compared.
StillMatched(i, o) == obj[o].here /\ i \in ids[o]

\* _still_owned(), of the fresh copy.
StillOwned(i, o) == obj[o].here /\ i \in ids[o] \cap obj[o].home

\* What is still to be written; a call with nothing to say is not made.
Phase(missing, add, remove) ==
  CASE missing # {} -> "create"
    [] missing = {} /\ add # {} -> "add"
    [] missing = {} /\ add = {} /\ remove # {} -> "remove"
    [] OTHER -> "check"

\* _write() up to its first write: the plan on the cached copy, the halt, the
\* fresh copy, and the plan on that.
Fetch(w, i, o) ==
  LET known == run[w].known[InstOf[o]]
      want == Wanted(w, i, o)
      fresh == obj[o].tags
  IN /\ run[w].pc = "items" /\ i \in run[w].item /\ o \in run[w].queue
     /\ \/ /\ Quiet(w, i, o) \/ ~StillOwned(i, o) \/ ~Changes(known, fresh, want)
           /\ run' = [run EXCEPT ![w] = Done(w, o)]
           /\ UNCHANGED <<alarm, left>>
        \/ /\ ~Quiet(w, i, o) /\ StillOwned(i, o) /\ Changes(known, fresh, want)
           /\ run' = [run EXCEPT
                ![w].pc = Phase(Create(known, want), Add(known, fresh, want), Remove(known, fresh, want)),
                ![w].at = {o}, ![w].before = obj[o], ![w].intended = want \cap known,
                ![w].add = Add(known, fresh, want), ![w].remove = Remove(known, fresh, want)]
           /\ UNCHANGED <<alarm, left>>
        \/ ~Quiet(w, i, o) /\ Raise(w, o)
     /\ UNCHANGED <<worldVars, report, obj, labels, touched>>

\* create_tag() for each missing label: a label that exists by now answers 409
\* and the map is read again; one that is refused (400) is left out.
CreateLabels(w, i, o) ==
  LET n == InstOf[o]
      missing == Create(run[w].known[n], Wanted(w, i, o))
      Known(made) == run[w].known[n] \cup made \cup (IF made \cap labels[n] = {} THEN {} ELSE labels[n])
      Make(made) == labels' = [labels EXCEPT ![n] = @ \cup made]
  IN /\ run[w].pc = "create" /\ i \in run[w].item /\ o \in run[w].at
     /\ \/ \E made \in SUBSET missing :
             /\ \/ made = missing /\ UNCHANGED <<left, touched>>
                \/ made # missing /\ Fault("refuse") /\ Touched(o)
             /\ Make(made)
             /\ run' = [run EXCEPT ![w].pc = Phase({}, run[w].add \cup made, run[w].remove), ![w].known[n] = Known(made),
                          ![w].add = @ \cup made, ![w].intended = @ \cup made]
             /\ UNCHANGED alarm
        \/ /\ Raise(w, o)
           /\ \E made \in SUBSET missing : Make(made)
           /\ UNCHANGED touched
     /\ UNCHANGED <<worldVars, report, obj>>

\* _clients_from_config(): unless writes are live, or for the dry run, the clients of the
\* *arrs can only read.
ArrGuarded(readOnly, writesLive) == readOnly \/ ~writesLive

\* ReadOnlyTransport: nothing but a read goes through it.
Sends(w) == ~ArrGuarded(FALSE, run[w].live)

\* edit_tags(): only these tags of this object; the call may land and raise.
Edit(w, o, edited) ==
  /\ o \in run[w].at /\ Sends(w)
  /\ obj' = IF obj[o].here THEN [obj EXCEPT ![o].tags = edited] ELSE obj
  /\ IF w # Scan /\ obj[o].tags # edited THEN Touched(o) ELSE UNCHANGED touched

AddTags(w, o) ==
  /\ run[w].pc = "add"
  /\ \/ /\ Edit(w, o, obj[o].tags \cup run[w].add)
        /\ run' = [run EXCEPT ![w].pc = Phase({}, {}, run[w].remove)]
        /\ UNCHANGED <<alarm, left>>
     \/ /\ Raise(w, o)
        /\ Edit(w, o, obj[o].tags) \/ Edit(w, o, obj[o].tags \cup run[w].add)
  /\ UNCHANGED <<worldVars, report, labels>>

RemoveTags(w, o) ==
  /\ run[w].pc = "remove"
  /\ \/ /\ Edit(w, o, obj[o].tags \ run[w].remove)
        /\ run' = [run EXCEPT ![w].pc = "check"]
        /\ UNCHANGED <<alarm, left>>
     \/ /\ Raise(w, o)
        /\ Edit(w, o, obj[o].tags) \/ Edit(w, o, obj[o].tags \ run[w].remove)
  /\ UNCHANGED <<worldVars, report, labels>>

\* readback_problems(): the known managed tags are the intended ones, and
\* nothing else about the object differs.
AsIntended(w, o) ==
  LET known == run[w].known[InstOf[o]]
  IN obj[o] = [run[w].before EXCEPT !.tags = run[w].intended \cup (@ \ known)]

ReadBack(w, o) ==
  /\ run[w].pc = "check" /\ o \in run[w].at
  /\ \/ /\ AsIntended(w, o)
        /\ run' = [run EXCEPT ![w] = [Done(w, o) EXCEPT !.pre[o] = [obj[o] EXCEPT !.rest = FALSE]]]
        /\ UNCHANGED <<alarm, left>>
     \/ ~AsIntended(w, o) /\ Halt(w, o) /\ UNCHANGED left
     \/ Raise(w, o)
  /\ UNCHANGED <<worldVars, report, obj, labels, touched>>

ItemStep(w) ==
  \E i \in Items :
    \/ StartItem(w, i) \/ EndItem(w, i)
    \/ \E o \in Objs : Fetch(w, i, o) \/ CreateLabels(w, i, o)

ObjectStep(w) == \E o \in Objs : AddTags(w, o) \/ RemoveTags(w, o) \/ ReadBack(w, o)

-----------------------------------------------------------------------------
(* The scan's end, the report and the alarm *)

\* Mutant: a cancelled scan clears the alarm too.
ClearsCancelled == run[Scan].live /\ ~run[Scan].halted

\* arr_sync_finished().
Clears == run[Scan].live /\ ~cancelled /\ ~run[Scan].halted

ScanReport == [live |-> run[Scan].live, halted |-> run[Scan].halted]

EndScan ==
  /\ run[Scan].pc = "items" /\ run[Scan].item = {}
  /\ run[Scan].todo = {} \/ cancelled
  /\ alarm' = (alarm /\ ~Clears)
  /\ report' = ScanReport
  /\ applied' = run[Scan].live
  /\ run' = [run EXCEPT ![Scan] = Off]
  /\ probed' = [i \in Items |-> 0]
  /\ UNCHANGED <<file, row, ids, live, cancelled, obj, labels, left, touched>>

\* A webhook's report is stored nowhere.
EndHook(h) ==
  /\ run[h].pc = "items" /\ run[h].item = {} /\ run[h].todo = {}
  /\ run' = [run EXCEPT ![h] = Off]
  /\ UNCHANGED <<worldVars, alertVars, obj, labels, left, touched>>

\* POST /scan/cancel.
Cancel ==
  /\ run[Scan].pc # "off" /\ ~cancelled
  /\ Fault("cancel")
  /\ cancelled' = TRUE
  /\ UNCHANGED <<file, row, ids, live, applied, probed, alertVars, obj, labels, run, touched>>

\* The dry run from Settings, of which only the report remains.
DryRun ==
  /\ Fault("dryrun")
  /\ report' = [live |-> FALSE, halted |-> FALSE]
  /\ UNCHANGED <<worldVars, alarm, obj, labels, run, touched>>

\* seed_from_disk().
Restart ==
  /\ Fault("restart")
  /\ run' = [w \in Workers |-> Off]
  /\ alarm' = (report.live /\ report.halted)
  /\ cancelled' = FALSE
  /\ probed' = [i \in Items |-> 0]
  /\ UNCHANGED <<file, row, ids, live, applied, report, obj, labels, touched>>

ScanStep == ItemStep(Scan) \/ ObjectStep(Scan) \/ EndScan

Next ==
  \/ \E i \in Items : FileChanges(i)
  \/ \E o \in Objs : Disturb(o)
  \/ SaveMode
  \/ \E full \in BOOLEAN : StartScan(full)
  \/ ScanStep
  \/ \E h \in Hooks : (\E i \in Items : StartHook(h, i)) \/ ItemStep(h) \/ ObjectStep(h) \/ EndHook(h)
  \/ Cancel \/ DryRun \/ Restart

Spec == Init /\ [][Next]_vars

-----------------------------------------------------------------------------
(* Properties *)

\* The HD and the 4K copy of a title never receive each other's tags: a worker
\* adds to an object only tags of its item, whose id the object has and in whose
\* folder it was when the worker last read it.
OwnTagsOnly ==
  [][\A o \in Objs : \A w \in Workers : run'[w] # run[w] /\ obj'[o].tags \ obj[o].tags # {} =>
       \E i \in run[w].item \cap ids[o] \cap run[w].before.home :
         obj'[o].tags \ obj[o].tags \subseteq TagsOf[i][run[w].ver]]_vars

\* The items with an object's id and in its folder.  An id that a second object
\* of the instance has is nobody's: resolve() finds two.
Claims(o) ==
  {i \in ids[o] \cap obj[o].home :
     \A other \in Objs \ {o} : InstOf[other] = InstOf[o] /\ run[Scan].pre[other].here => i \notin ids[other]}

\* "A title two items claim" is refused: a scan does not write it, whichever of
\* them it comes to.  A webhook sees one item and does write it.
ClaimedTwiceIsLeftAlone ==
  [][\A o \in Objs : obj'[o].tags # obj[o].tags /\ run'[Scan] # run[Scan] => Cardinality(Claims(o)) <= 1]_vars

\* A scan that comes to its end and was not halted has left on every object it
\* answers for, and nobody else changed, exactly the tags of the file it probed.
CleanScanIsExact ==
  [][EndScan /\ run[Scan].live /\ ~run[Scan].halted =>
       \A i \in Items : \A o \in Owners(run[Scan].pre, i) \ (run[Scan].refused \cup touched) :
         probed[i] # 0 => obj[o].tags \ Refuses[InstOf[o]] = Accepted(o, TagsOf[i][probed[i]])]_vars

\* After its first mismatch or failed request a worker changes nothing more.
HaltedWritesNothing ==
  [][\A w \in Workers : run[w].halted /\ run'[w] # run[w] => UNCHANGED <<obj, labels>>]_vars

\* "A halt stays set until a live scan finishes its *arr sync cleanly": not
\* when it is cancelled, not by a dry run and not by a webhook.  A restart is
\* the exception: it takes the alarm from the last stored report, which may be
\* that of a dry run, of a cancelled scan or of a scan before the webhook.
AlarmStays ==
  [][alarm /\ ~alarm' => \/ EndScan /\ run[Scan].live /\ ~run[Scan].halted /\ ~cancelled
                         \/ ~(report.live /\ report.halted) /\ \A w \in Workers : run'[w] = Off]_vars

=============================================================================
