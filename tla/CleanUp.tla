------------------------------- MODULE CleanUp -------------------------------
(***************************************************************************)
(* The one-off clean-up of what a reconciliation pass wrote from stale rows *)
(* (reconcile_cleanup.py): a dry run shows a plan and its digest, an apply   *)
(* with that digest reads again, writes one item after the other and reads  *)
(* each back.  Beside it people, scans, webhooks and the *arrs go on.        *)
(*                                                                         *)
(* Data.  A tag is [kind, name, low]; `low` is the spelling in lower case    *)
(* that the *arrs' NFO merge leaves.  Kinds: "res", "retired" (a spelling    *)
(* tag_label() would change), "other", "legacy" (another prefix), "keyword"  *)
(* (no managed one).                                                        *)
(***************************************************************************)
EXTENDS Integers, FiniteSets

CONSTANTS
  Items,       \* the items it is given
  Tag,         \* the tags there are
  Resolutions, \* their names, of the kind "res"
  Starts,      \* Starts[i]: what i may carry and have as its row at first
  BatchSize,   \* TAG_READ_BATCH
  Faults,      \* the failures the environment may produce, by name
  MaxFaults,   \* bound: how many of them
  MaxEdits     \* bound: changes by others

Kinds == {"res", "retired", "other", "legacy", "keyword"}
Rows == [res : Resolutions, tags : SUBSET Tag]

\* What there may be none of, a row, a plan or an item that Jellyfin returned, is a
\* set of at most one.
AtMostOne(s) == \A x, y \in s : x = y

ASSUME ConstantsAssumption ==
  /\ IsFiniteSet(Items) /\ IsFiniteSet(Tag)
  /\ \A t \in Tag : t.kind \in Kinds /\ t.low \in BOOLEAN
  /\ Starts \in [Items -> SUBSET [tags : SUBSET Tag, row : SUBSET Rows]]
  /\ \A i \in Items : \A s \in Starts[i] : AtMostOne(s.row)
  /\ {BatchSize, MaxFaults, MaxEdits} \subseteq Nat /\ BatchSize > 0

VARIABLES
  tags,     \* tags[i]: what Jellyfin carries on i
  row,      \* row[i]: i's index row, if any: its resolution and tags_applied
  open,     \* a run has no completed_at and started within RUNNING_WINDOW
  pc,       \* where the tool is
  apply,    \* it was started with --apply
  shown,    \* the plan of the last dry run, whose digest the operator has
  todo,     \* the items still to be read, or to be written
  copy,     \* copy[i]: the item as it was read, if Jellyfin returned it
  plan,     \* the plan that is being applied
  cur,      \* the item that was written and is to be read back
  left,     \* how many faults are left
  edits,    \* how many changes by others there were
  touched,  \* history: items somebody else changed since they were read
  unsure,   \* history: items this apply wrote and did not find as written
  recorded  \* history: recorded[i]: how i read back, until somebody else changes it

toolVars == <<pc, apply, shown, todo, copy, plan, cur>>
history == <<touched, unsure, recorded>>
vars == <<tags, row, open, toolVars, left, edits, history>>

-----------------------------------------------------------------------------
(* The plan *)

Managed(ts) == {t \in ts : t.kind \notin {"legacy", "keyword"}}

\* Tags as Jellyfin and the *arrs compare them, without regard to case.
Fold(t) == [kind |-> t.kind, name |-> t.name, low |-> TRUE]
Folded(ts) == {Fold(t) : t \in ts}
Names(ts) == Folded({t \in ts : t.kind = "res"})

\* The resolution tag that the row restored, when there is another one.
Stray(ts, r) ==
  {t \in ts : /\ Cardinality(Names(ts)) > 1
              /\ t.kind = "res" /\ t.name = r.res /\ Fold(t) \in Names(r.tags)}

Refused(found, r, after) ==
  \/ found = {} \/ r = {}
  \/ \E t \in UNION found : t.kind = "legacy"
  \/ Cardinality(Names(after)) > 1

\* plan_item(), of an item, if it was returned, and its row, if it has one.
PlanItem(found, r) ==
  LET before == Managed(UNION found)
      remove == {t \in before : t.kind = "retired"} \cup UNION {Stray(before, x) : x \in r}
  IN [before |-> before, remove |-> remove, after |-> before \ remove,
      refused |-> Refused(found, r, before \ remove)]

\* But for case, each as often as it is there.
Counted(ts) == [t \in Folded(ts) |-> Cardinality({u \in ts : Fold(u) = t})]

\* Mutant: only what goes is measured.
DigestOfRemovals(p) == [i \in Items |-> Counted(p[i].remove)]

\* CleanupPlan.digest(): what was read and what goes.
Digest(p) == [i \in Items |-> <<Counted(p[i].before), Counted(p[i].remove)>>]

NoPlan == [i \in Items |-> PlanItem({}, {})]
Plans == [Items -> [before : SUBSET Tag, remove : SUBSET Tag, after : SUBSET Tag, refused : BOOLEAN]]

TypeOK ==
  /\ tags \in [Items -> SUBSET Tag]
  /\ row \in [Items -> SUBSET Rows] /\ \A i \in Items : AtMostOne(row[i])
  /\ open \in BOOLEAN
  /\ pc \in {"off", "read", "plan", "write", "check", "retry", "again"}
  /\ apply \in BOOLEAN
  /\ shown \subseteq Plans /\ AtMostOne(shown)
  /\ todo \in SUBSET Items
  /\ copy \in [Items -> SUBSET SUBSET Tag] /\ \A i \in Items : AtMostOne(copy[i])
  /\ plan \in Plans
  /\ cur \in SUBSET Items /\ AtMostOne(cur)
  /\ left \in 0..MaxFaults
  /\ edits \in 0..MaxEdits
  /\ touched \in SUBSET Items
  /\ unsure \in SUBSET Items
  /\ recorded \in [Items -> {"no", "ok", "wrong"}]

Init ==
  /\ \E start \in [Items -> UNION {Starts[i] : i \in Items}] :
       /\ \A i \in Items : start[i] \in Starts[i]
       /\ tags = [i \in Items |-> start[i].tags]
       /\ row = [i \in Items |-> start[i].row]
  /\ open = FALSE
  /\ pc = "off" /\ apply = FALSE /\ shown = {} /\ todo = {} /\ cur = {}
  /\ copy = [i \in Items |-> {}] /\ plan = NoPlan
  /\ left = MaxFaults /\ edits = 0
  /\ touched = {} /\ unsure = {} /\ recorded = [i \in Items |-> "no"]

-----------------------------------------------------------------------------
(* The others *)

\* One of the failures this model allows happens now.
Fault(f) == f \in Faults /\ left > 0 /\ left' = left - 1

\* Somebody else changes an item or its row.
Touch(i) ==
  /\ edits < MaxEdits /\ edits' = edits + 1
  /\ touched' = touched \cup {i}
  /\ recorded' = [recorded EXCEPT ![i] = "no"]
  /\ UNCHANGED <<open, toolVars, left, unsure>>

\* set_managed_tags(): the managed and the legacy tags of the item in hand give way.
Merged(ts, new) == {t \in ts : t.kind = "keyword"} \cup new

\* What a scan writes and records: one resolution, in today's spellings.
Builds ==
  {b \in Rows : /\ \A t \in b.tags : t.kind \in {"res", "other"} /\ ~t.low
                /\ {t.name : t \in {u \in b.tags : u.kind = "res"}} = {b.res}}

\* A person adds or removes a tag, the *arrs respell one, a scan or a webhook's
\* task writes them all.
Edit(i) ==
  /\ \/ \E t \in Tag : \E ts \in {tags[i] \cup {t}, tags[i] \ {t}} : tags' = [tags EXCEPT ![i] = ts]
     \/ \E t \in tags[i] : tags' = [tags EXCEPT ![i] = (tags[i] \ {t}) \cup ({Fold(t)} \cap Tag)]
     \/ \E b \in Builds : tags' = [tags EXCEPT ![i] = Merged(tags[i], b.tags)]
  /\ Touch(i)
  /\ UNCHANGED row

\* A scan or a webhook's task records what it wrote, or the row is deleted.
Record(i) ==
  /\ \E r \in {{}} \cup {{b} : b \in Builds} : row' = [row EXCEPT ![i] = r]
  /\ Touch(i)
  /\ UNCHANGED tags

\* A scan starts, ends, or is six hours old.
OpenOrClose ==
  /\ open' = ~open
  /\ UNCHANGED <<tags, row, toolVars, left, edits, history>>

\* partition_legacy_tags(): with `broad` a legacy prefix is as short as "x", and
\* the managed prefix wins.
Purged(ts, broad) == {t \in ts : t \in Managed(ts) \/ ~(t.kind = "legacy" \/ (broad /\ t.kind # "keyword"))}

PurgedRow(r, broad) == {[x EXCEPT !.tags = Purged(@, broad)] : x \in r}

\* purge_legacy_tags()
Purge(broad) ==
  /\ row' = [i \in Items |-> PurgedRow(row[i], broad)]
  /\ UNCHANGED <<tags, open, toolVars, left, edits, history>>

\* _purge_legacy_tags(): at every start of the app, with the prefixes of its settings.
PurgeAtStart == \E broad \in BOOLEAN : Purge(broad)

-----------------------------------------------------------------------------
(* The tool *)

\* It ends, or an exception ends it.
Exit ==
  /\ pc' = "off" /\ apply' = FALSE /\ todo' = {} /\ cur' = {}
  /\ copy' = [i \in Items |-> {}] /\ plan' = NoPlan
  /\ touched' = {} /\ unsure' = {}

\* A run that has not ended refuses an apply, which needs a digest.
Start(a) ==
  /\ pc = "off"
  /\ a => shown # {} /\ ~open
  /\ apply' = a /\ pc' = "read" /\ todo' = Items
  /\ UNCHANGED <<tags, row, open, shown, copy, plan, cur, left, edits, history>>

Batches(s) == {b \in SUBSET s : IF Cardinality(s) <= BatchSize THEN b = s ELSE Cardinality(b) = BatchSize}

\* get_items_by_ids(): a batch is read, whole but for what Jellyfin does not have.
ReadItems ==
  /\ pc = "read" /\ todo # {}
  /\ \E b \in Batches(todo) : \E lost \in SUBSET b :
       /\ \/ lost = {} /\ UNCHANGED left
          \/ lost # {} /\ Fault("missing")
       /\ copy' = [i \in Items |-> IF i \in lost THEN {} ELSE IF i \in b THEN {tags[i]} ELSE copy[i]]
       /\ todo' = todo \ b
       /\ touched' = touched \ b
  /\ pc' = IF todo' = {} THEN "plan" ELSE "read"
  /\ UNCHANGED <<tags, row, open, apply, shown, plan, cur, edits, unsure, recorded>>

\* build_plan() reads the rows.  A dry run prints the plan; an apply goes on when
\* nothing in it is refused and it is the plan that was shown.
Decide ==
  /\ pc = "plan"
  /\ LET p == [i \in Items |-> PlanItem(copy[i], row[i])]
         same == (\A i \in Items : ~p[i].refused) /\ (\E s \in shown : Digest(p) = Digest(s))
     IN \/ ~apply /\ shown' = {p} /\ Exit
        \/ apply /\ ~same /\ Exit /\ UNCHANGED shown
        \/ /\ apply /\ same
           /\ pc' = "write" /\ plan' = p /\ todo' = {i \in Items : p[i].remove # {}}
           /\ UNCHANGED <<apply, shown, copy, cur, touched, unsure>>
  /\ UNCHANGED <<tags, row, open, left, edits, recorded>>

\* A request to write: it succeeds, or raises and may have landed all the same, which
\* ends the tool as a kill would.
Posted(i, next) ==
  LET new == [tags EXCEPT ![i] = Merged(UNION copy[i], plan[i].after)]
  IN \/ /\ tags' = new /\ pc' = next /\ todo' = todo \ {i} /\ cur' = {i} /\ unsure' = unsure \cup {i}
        /\ UNCHANGED <<apply, copy, plan, left, touched>>
     \/ Fault("write") /\ tags' \in {tags, new} /\ Exit

Write(i) ==
  /\ pc = "write" /\ i \in todo
  /\ Posted(i, "check")
  /\ recorded' = [recorded EXCEPT ![i] = "no"]
  /\ UNCHANGED <<row, open, shown, edits>>

\* Jellyfin saves an item that it had in memory and undoes the write (B17).
Undo(i) ==
  /\ pc \in {"check", "again"} /\ i \in cur /\ Fault("undone")
  /\ tags' = [tags EXCEPT ![i] = UNION copy[i]]
  /\ UNCHANGED <<row, open, toolVars, edits, history>>

\* Mutant: more than was sent will do.
AsWrittenOrMore(i) == Folded(plan[i].after) \subseteq Folded(Managed(tags[i]))

AsWritten(i) == Folded(Managed(tags[i])) = Folded(plan[i].after)

\* Mutant: what was sent is recorded, however it reads back.
NotedAsSent(i) == plan[i].after

\* What is recorded: what was sent, unless something else is there.
Noted(i) == IF AsWritten(i) THEN plan[i].after ELSE Managed(tags[i])

\* set_tags_applied(): the tags alone, of a row that is there.
Recorded(i) == row' = [row EXCEPT ![i] = {[r EXCEPT !.tags = Noted(i)] : r \in row[i]}]

\* Mutant: an item that did not read back does not stop it.
GoesOn(i) == TRUE

\* Only an item that reads back as written is followed by the next.
Proceeds(i) == AsWritten(i)

\* _record_after_readback(), of one item: the first look leads to one retry, from
\* the tags just read; a read that fails records nothing and ends the apply.
ReadBack(i) ==
  /\ pc \in {"check", "again"} /\ i \in cur
  /\ \/ /\ AsWritten(i) \/ pc = "again"
        /\ Recorded(i)
        /\ recorded' = [recorded EXCEPT ![i] = IF AsWritten(i) THEN "ok" ELSE "wrong"]
        /\ \/ /\ Proceeds(i)
              /\ pc' = "write" /\ cur' = {} /\ unsure' = IF AsWritten(i) THEN unsure \ {i} ELSE unsure
              /\ UNCHANGED <<apply, todo, copy, plan, touched>>
           \/ ~Proceeds(i) /\ Exit
        /\ UNCHANGED left
     \/ /\ ~AsWritten(i) /\ pc = "check"
        /\ pc' = "retry" /\ copy' = [copy EXCEPT ![i] = {tags[i]}]
        /\ UNCHANGED <<row, apply, todo, plan, cur, left, history>>
     \/ Fault("read") /\ Exit /\ UNCHANGED <<row, recorded>>
  /\ UNCHANGED <<tags, open, shown, edits>>

Retry(i) ==
  /\ pc = "retry" /\ i \in cur
  /\ Posted(i, "again")
  /\ UNCHANGED <<row, open, shown, edits, recorded>>

Finish ==
  /\ pc = "write" /\ todo = {} /\ Exit
  /\ UNCHANGED <<tags, row, open, shown, left, edits, recorded>>

Next ==
  \/ OpenOrClose
  \/ PurgeAtStart
  \/ \E a \in BOOLEAN : Start(a)
  \/ ReadItems \/ Decide \/ Finish
  \/ \E i \in Items : Edit(i) \/ Record(i) \/ Write(i) \/ Undo(i) \/ ReadBack(i) \/ Retry(i)

Spec == Init /\ [][Next]_vars

-----------------------------------------------------------------------------
(* Properties *)

\* A plan that is not refused leaves an item one resolution if it had any, and
\* takes nothing but retired spellings and one resolution (plan_item).
PlanLeavesOne ==
  \A p \in shown \cup {plan} : \A i \in Items : ~p[i].refused =>
    /\ Names(p[i].before) # {} => Cardinality(Names(p[i].after)) = 1
    /\ Cardinality(Names(p[i].remove)) <= 1
    /\ \A t \in p[i].remove : t.kind \in {"res", "retired"}

\* An item that was cleaned up stays so: planned again, on what it carries and on the
\* row that was recorded, it has nothing to remove and no second resolution.
CleanUpIsFinal ==
  \A i \in Items : recorded[i] = "ok" =>
    PlanItem({tags[i]}, row[i]).remove = {} /\ Cardinality(Names(tags[i])) <= 1

\* "Each row's tags_applied is what Jellyfin carries afterwards", but for case: also
\* when a write did not stick.
RowSaysWhatIsThere ==
  \A i \in Items : recorded[i] # "no" => \A r \in row[i] : Folded(r.tags) = Folded(Managed(tags[i]))

\* "It writes one item, reads it back, and only then the rest": at most one item may
\* be other than planned, wherever the apply ends.
OneAtATime == Cardinality(unsure) <= 1

\* What the apply leaves on an item is, but for case, what the dry run showed, and
\* every tag of somebody else's is kept, unless somebody changed the item after the
\* apply had read it (apply, CleanupPlan.digest).
ShownIsDone ==
  [][\A i \in Items \ touched : tags'[i] # tags[i] /\ pc' # pc =>
       /\ \A s \in shown : Counted(Managed(tags'[i])) = Counted(s[i].after)
       /\ tags'[i] \ Managed(tags'[i]) = tags[i] \ Managed(tags[i])]_vars

\* The purge of legacy tags from the rows changes no plan, whatever the legacy
\* prefixes are, and is final (purge_legacy_tags).
PurgeChangesNoPlan ==
  [][\A broad \in BOOLEAN : Purge(broad) => \A i \in Items :
       /\ PlanItem({tags[i]}, row'[i]) = PlanItem({tags[i]}, row[i])
       /\ PurgedRow(row'[i], broad) = row'[i]]_vars
=============================================================================
