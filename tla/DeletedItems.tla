---------------------------- MODULE DeletedItems ----------------------------
(***************************************************************************)
(* The deleted-items pass (deleted_items.py): which index rows belong to   *)
(* items that Jellyfin no longer has, which *arr objects they leave behind *)
(* with managed tags, and the removal of both.  Jellyfin's library, the    *)
(* *arrs and the webhooks' tasks go on while it works.                     *)
(*                                                                         *)
(* Data.  Items are numbers: Jellyfin lists them in that order.  An        *)
(* object's tags are the item they were written for.                       *)
(***************************************************************************)
EXTENDS Integers, Sequences, FiniteSets

CONSTANTS
  Items, Objs, Folders,
  Elsewhere,   \* a folder of no item
  InstOf,      \* InstOf[o]: the instance that holds object o
  ItemFolders, \* ItemFolders[i]: item_folders() of an item Jellyfin lists
  RowFolders,  \* RowFolders[i]: row_folders() of its row, deepest first
  Listed0,     \* the library to start from
  Paths0,      \* the objects' folders to start from, any of these
  PageSize,    \* PAGE_SIZE
  Part, Whole, \* deleted_items.max_fraction is Part / Whole
  Faults,      \* the failures and changes allowed, by name
  MaxFaults    \* bound: how many of them

ASSUME ConstantsAssumption ==
  /\ Items \subseteq Nat /\ IsFiniteSet(Items)
  /\ Elsewhere \in Folders
  /\ ItemFolders \in [Items -> SUBSET Folders]
  /\ RowFolders \in [Items -> Seq(Folders)]
  /\ Listed0 \subseteq Items
  /\ Paths0 \subseteq [Objs -> Folders]
  /\ {PageSize, Whole} \subseteq Nat \ {0} /\ {Part, MaxFaults} \subseteq Nat

VARIABLES
  jf,        \* the items Jellyfin has
  rows,      \* the items that have an index row
  obj,       \* the *arrs' objects
  pc,        \* where the pass is
  seen,      \* the ids listed so far
  total,     \* TotalRecordCount of the first page, -1 before it
  size,      \* how many rows there were when the listing was complete
  asked,     \* candidates still to be looked up by id
  gone,      \* candidates confirmed deleted
  pre,       \* pre[o]: the objects as preloaded
  todo,      \* objects planned and still to be stripped
  done,      \* objects with nothing left to strip
  writes,    \* arr_sync.mode was "live" when the pass began
  at,        \* the object being stripped, and its copy before
  left,      \* how many faults are left
  alive,     \* history: the items Jellyfin has had since the pass began
  steady,    \* history: Jellyfin's library has not changed since the pass began
  moved      \* history: the objects that changed folder

passVars == <<pc, seen, total, size, asked, gone, pre, todo, done, writes, at>>
vars == <<jf, rows, obj, passVars, left, alive, steady, moved>>

Objects == [here : BOOLEAN, path : Folders, tags : SUBSET Items, rest : BOOLEAN]
Absent == [here |-> FALSE, path |-> Elsewhere, tags |-> {}, rest |-> FALSE]
Nowhere == [o \in Objs |-> Absent]

TypeOK ==
  /\ jf \in SUBSET Items /\ rows \in SUBSET Items
  /\ obj \in [Objs -> Objects]
  /\ pc \in {"off", "list", "recount", "lookup", "plan", "strip", "edit", "check"}
  /\ seen \in SUBSET Items
  /\ total \in Nat \cup {-1} /\ size \in Nat
  /\ asked \in SUBSET Items /\ gone \in SUBSET Items
  /\ pre \in [Objs -> Objects]
  /\ todo \in SUBSET Objs /\ done \in SUBSET Objs
  /\ at \in SUBSET (Objs \X Objects)
  /\ writes \in BOOLEAN
  /\ left \in 0..MaxFaults
  /\ alive \in SUBSET Items /\ steady \in BOOLEAN /\ moved \in SUBSET Objs
  /\ asked \cap gone = {} /\ (asked # {} => pc = "lookup")
  /\ pc \in {"off", "list", "recount"} => gone = {}
  /\ todo \cup done # {} => pc \in {"strip", "edit", "check"}
  /\ todo \cap done = {} /\ (at # {} <=> pc \in {"edit", "check"})

\* The pass starts, or ends, with empty hands.
Idle(p) ==
  /\ pc' = p /\ seen' = {} /\ total' = -1 /\ size' = 0 /\ asked' = {} /\ gone' = {}
  /\ pre' = Nowhere /\ todo' = {} /\ done' = {} /\ at' = {}

Newest(S) == {i \in S : \A j \in S : j <= i}

\* Items listed and items gone have rows; an object has the tags of the newest.
Init ==
  /\ jf = Listed0
  /\ rows = {i \in Items : i \in Listed0 \/ \A j \in Listed0 : i < j}
  /\ \E path \in Paths0 :
       obj = [o \in Objs |-> [here |-> TRUE, path |-> path[o], rest |-> FALSE,
                              tags |-> Newest({i \in rows : path[o] \in ItemFolders[i]})]]
  /\ pc = "off" /\ seen = {} /\ total = -1 /\ size = 0 /\ asked = {} /\ gone = {}
  /\ pre = Nowhere /\ todo = {} /\ done = {} /\ at = {} /\ writes = TRUE
  /\ left = MaxFaults
  /\ alive = Listed0 /\ steady = TRUE /\ moved = {}

-----------------------------------------------------------------------------
(* The world *)

Fault(f) == f \in Faults /\ left > 0 /\ left' = left - 1

\* An item is deleted from Jellyfin's library, or one is added at its end.
LibraryChanges ==
  /\ \/ \E i \in jf :
          Fault("remove") /\ jf' = jf \ {i} /\ alive' = alive \ {i}
     \/ \E i \in Items :
          /\ Fault("add") /\ \A j \in jf \cup rows : j < i
          /\ jf' = jf \cup {i} /\ UNCHANGED alive
  /\ steady' = FALSE
  /\ UNCHANGED <<rows, obj, passVars, moved>>

\* A webhook's task tags a new item and the object in its folder.
Webhook(i) ==
  /\ i \in jf \ rows
  /\ rows' = rows \cup {i}
  /\ obj' = [o \in Objs |-> IF obj[o].here /\ obj[o].path \in ItemFolders[i]
                            THEN [obj[o] EXCEPT !.tags = {i}] ELSE obj[o]]
  /\ UNCHANGED <<jf, passVars, left, alive, steady, moved>>

\* Somebody edits, moves or deletes an object in the *arr.
Disturb(o) ==
  /\ obj[o].here
  /\ \/ Fault("edit") /\ obj' = [obj EXCEPT ![o].rest = ~@] /\ UNCHANGED moved
     \/ \E f \in Folders \ {obj[o].path} :
          Fault("move") /\ obj' = [obj EXCEPT ![o].path = f] /\ moved' = moved \cup {o}
     \/ Fault("delete") /\ obj' = [obj EXCEPT ![o] = Absent] /\ UNCHANGED moved
  /\ UNCHANGED <<jf, rows, passVars, alive, steady>>

-----------------------------------------------------------------------------
(* What is gone *)

\* The pass stops here and changes nothing more: PassAborted, a halt, the end.
Stop == Idle("off") /\ writes' = TRUE

Broken == Fault("request") /\ Stop

\* DeletedItemsPass() in remove mode; arr_sync.mode is usually "live".
StartPass ==
  /\ pc = "off"
  /\ Idle("list")
  /\ \/ writes' = TRUE /\ UNCHANGED left
     \/ writes' = FALSE /\ Fault("dry")
  /\ alive' = jf /\ steady' = TRUE
  /\ UNCHANGED <<jf, rows, obj, moved>>

\* The items of one page: those after the first n of the server's list.
PageAfter(n) ==
  {i \in jf : LET rank == Cardinality({j \in jf : j <= i}) IN n < rank /\ rank <= n + PageSize}

\* The page cannot belong to the listing read so far.
Inconsistent(page, count) ==
  \/ total # -1 /\ count # total
  \/ page \cap seen # {}
  \/ page = {} /\ Cardinality(seen) < count

\* complete_listing(): one page.  Every page adds an item, so the cap on their
\* number is never met.
ListPage ==
  LET page == PageAfter(Cardinality(seen))
      count == Cardinality(jf)
  IN /\ pc = "list"
     /\ \/ Inconsistent(page, count) /\ Stop /\ UNCHANGED left
        \/ /\ ~Inconsistent(page, count)
           /\ seen' = seen \cup page /\ total' = count
           /\ pc' = IF Cardinality(seen \cup page) = count THEN "recount" ELSE "list"
           /\ UNCHANGED <<size, asked, gone, pre, todo, done, writes, at, left>>
        \/ Broken
     /\ UNCHANGED <<jf, rows, obj, alive, steady, moved>>

\* The recount, then the rows that the listing lacks; without a live item there
\* is no control for the lookups.
Recount ==
  LET missing == rows \ seen
  IN /\ pc = "recount"
     /\ \/ /\ Cardinality(jf) = total /\ (missing = {} \/ seen # {})
           /\ asked' = missing /\ size' = Cardinality(rows)
           /\ pc' = IF missing = {} THEN "plan" ELSE "lookup"
           /\ UNCHANGED <<seen, total, gone, pre, todo, done, writes, at, left>>
        \/ ~(Cardinality(jf) = total /\ (missing = {} \/ seen # {})) /\ Stop /\ UNCHANGED left
        \/ Broken
     /\ UNCHANGED <<jf, rows, obj, alive, steady, moved>>

\* Mutant: an item missing from the listing needs no lookup.
ConfirmedUnasked(i, answered) == TRUE

\* What a lookup that returned `answered` says of candidate i.
Confirmed(i, answered) == i \notin answered

\* confirm_deleted(), one candidate at a time beside one control.  A lookup may
\* answer nothing at all.
Lookup(i) ==
  /\ pc = "lookup" /\ i \in asked
  /\ \/ \E answered \in {jf, {}}, control \in seen :
          /\ \/ answered = jf /\ UNCHANGED left
             \/ answered # jf /\ Fault("blind")
          /\ IF control \in answered
             THEN /\ gone' = IF Confirmed(i, answered) THEN gone \cup {i} ELSE gone
                  /\ asked' = asked \ {i}
                  /\ pc' = IF asked = {i} THEN "plan" ELSE "lookup"
                  /\ UNCHANGED <<seen, total, size, pre, todo, done, writes, at>>
             ELSE Stop
     \/ Broken
  /\ UNCHANGED <<jf, rows, obj, alive, steady, moved>>

-----------------------------------------------------------------------------
(* Who owns what *)

In(objs, f) == {o \in Objs : objs[o].here /\ objs[o].path = f}

\* The deepest of a row's folders that holds an object.
Hits(objs, i) ==
  LET at0(k) == In(objs, RowFolders[i][k])
      found == {k \in DOMAIN RowFolders[i] : at0(k) # {}}
  IN {RowFolders[i][k] : k \in {k \in found : \A l \in found : k <= l}}

Owners(objs, i) == UNION {In(objs, f) : f \in Hits(objs, i)}

Ambiguous(objs, i) ==
  \E o, p \in Owners(objs, i) : o # p /\ InstOf[o] = InstOf[p]

LiveFolders == UNION {ItemFolders[j] : j \in seen}

\* Mutant: the row's deepest folder is compared, not the one that holds the object.
KeptLiveDeepest(objs, i) == RowFolders[i][1] \in LiveFolders

KeptLive(objs, i) == Hits(objs, i) \cap LiveFolders # {}

\* The objects to strip before row i may go.
Planned(objs, i) == IF Ambiguous(objs, i) \/ KeptLive(objs, i) THEN {} ELSE Owners(objs, i)

OverBound == Cardinality(gone) * Whole > Part * size

\* prepare() and plan(), and remove()'s refusal.  An instance that cannot be
\* read aborts the pass.
Plan ==
  /\ pc = "plan"
  /\ \/ /\ ~OverBound
        /\ pre' = obj /\ pc' = "strip" /\ todo' = UNION {Planned(obj, i) : i \in gone}
        /\ UNCHANGED <<seen, total, size, asked, gone, done, writes, at, left>>
     \/ OverBound /\ Stop /\ UNCHANGED left
     \/ Broken
  /\ UNCHANGED <<jf, rows, obj, alive, steady, moved>>

-----------------------------------------------------------------------------
(* The removal *)

\* Mutant: an object without managed tags is not done.
SettleStripped(o, stripped) ==
  /\ pc' = "strip" /\ todo' = todo \ {o} /\ at' = {}
  /\ done' = IF stripped /\ pc = "check" THEN done \cup {o} ELSE done
  /\ UNCHANGED <<seen, total, size, asked, gone, pre, writes>>

\* Object o is dealt with; `stripped` says nothing is left on it to strip.
Settle(o, stripped) ==
  /\ pc' = "strip" /\ todo' = todo \ {o} /\ at' = {}
  /\ done' = IF stripped THEN done \cup {o} ELSE done
  /\ UNCHANGED <<seen, total, size, asked, gone, pre, writes>>

\* The object fetched before the strip is the one that was planned.
SamePlace(o) == obj[o].path = pre[o].path

\* strip() up to its request: an object moved since the preload is left alone.
Fetch(o) ==
  /\ pc = "strip" /\ o \in todo
  /\ \/ /\ pre[o].tags = {} \/ ~writes
        /\ Settle(o, pre[o].tags = {}) /\ UNCHANGED left
     \/ /\ pre[o].tags # {} /\ writes /\ UNCHANGED left
        /\ \/ ~obj[o].here /\ Settle(o, TRUE)
           \/ obj[o].here /\ ~SamePlace(o) /\ Settle(o, FALSE)
           \/ obj[o].here /\ SamePlace(o) /\ obj[o].tags = {} /\ Settle(o, TRUE)
           \/ /\ obj[o].here /\ SamePlace(o) /\ obj[o].tags # {}
              /\ pc' = "edit" /\ at' = {<<o, obj[o]>>}
              /\ UNCHANGED <<seen, total, size, asked, gone, pre, todo, done, writes>>
     \/ pre[o].tags # {} /\ writes /\ Broken
  /\ UNCHANGED <<jf, rows, obj, alive, steady, moved>>

\* edit_tags(remove).  Tags of two items may be the same labels.  A request that
\* fails may have landed; either way the exception halts the pass.
Edit(o, copy) ==
  /\ pc = "edit" /\ <<o, copy>> \in at
  /\ \E tags \in {{}, obj[o].tags \ copy.tags} :
       \/ /\ obj' = [obj EXCEPT ![o].tags = tags] /\ pc' = "check"
          /\ UNCHANGED <<seen, total, size, asked, gone, pre, todo, done, writes, at, left>>
       \/ obj' \in {obj, [obj EXCEPT ![o].tags = tags]} /\ Broken
  /\ UNCHANGED <<jf, rows, alive, steady, moved>>

\* readback_problems() with nothing managed expected.
Clean(copy, after) == after = [copy EXCEPT !.tags = {}]

\* The read-back: a mismatch, or an object that is not there, halts the pass.
Check(o, copy) ==
  /\ pc = "check" /\ <<o, copy>> \in at
  /\ \/ Clean(copy, obj[o]) /\ Settle(o, TRUE) /\ UNCHANGED left
     \/ ~Clean(copy, obj[o]) /\ Stop /\ UNCHANGED left
     \/ Broken
  /\ UNCHANGED <<jf, rows, obj, alive, steady, moved>>

\* Mutant: a row goes whether or not its objects were stripped.
DoomedUnstripped == {i \in gone : ~Ambiguous(pre, i)}

\* The rows with nothing left in the *arrs.
Doomed == {i \in gone : ~Ambiguous(pre, i) /\ Planned(pre, i) \subseteq done}

\* delete_rows(): committed in batches, any of which may fail.
DeleteRows ==
  /\ pc = "strip" /\ todo = {}
  /\ \/ rows' = rows \ Doomed /\ UNCHANGED left
     \/ Fault("commit") /\ \E some \in SUBSET Doomed : rows' = rows \ some
  /\ Stop
  /\ UNCHANGED <<jf, obj, alive, steady, moved>>

\* The process stops and starts again.
Crash ==
  /\ pc # "off" /\ Fault("crash") /\ Stop
  /\ UNCHANGED <<jf, rows, obj, alive, steady, moved>>

-----------------------------------------------------------------------------
PassStep ==
  \/ ListPage \/ Recount \/ Plan \/ DeleteRows
  \/ \E i \in Items : Lookup(i)
  \/ \E o \in Objs : Fetch(o)
  \/ \E o \in Objs : \E copy \in {c[2] : c \in at} : Edit(o, copy) \/ Check(o, copy)

Next ==
  \/ StartPass \/ PassStep \/ Crash \/ LibraryChanges
  \/ \E i \in Items : Webhook(i)
  \/ \E o \in Objs : Disturb(o)

Spec == Init /\ [][Next]_vars

\* The pass runs to its end, and after a scan there is another one.
FairSpec == Spec /\ WF_vars(StartPass) /\ WF_vars(PassStep)

-----------------------------------------------------------------------------
(* Properties *)

\* A row goes only when its item was gone at some moment of the pass: the pages
\* of a changing library and lookups that answer nothing do not make an item
\* that was there all along look deleted (complete_listing, confirm_deleted).
OnlyGoneRows == [][alive \cap rows \subseteq rows']_vars

\* While the library stands still, the pass takes no tag off an object in the
\* folder of an item that Jellyfin has, unless it was moved there (plan, KEPT_LIVE).
LiveFolderKept ==
  [][\A o \in Objs : pc = "edit" /\ pc' # pc /\ steady /\ o \notin moved /\ (\E j \in jf : obj[o].path \in ItemFolders[j])
                       => obj'[o].tags = obj[o].tags]_vars

\* When a row goes, no object still carries its tags, unless it moved from the
\* item's folder or its folder holds an item of the listing: a halt, a failed
\* request, *arr writes that are off and a crash all keep the row that leads
\* back to the object (remove, delete_rows).
RowsOutliveTags ==
  [][\A i \in rows \ rows', o \in Objs :
       i \in obj[o].tags => o \in moved \/ obj[o].path \in LiveFolders]_vars

\* What keeps a row for good: two objects of one instance in its folder, a
\* removal over the bound, no live item to be a control.
Held(i) ==
  \/ Ambiguous(obj, i)
  \/ Cardinality(rows \ jf) * Whole > Part * Cardinality(rows)
  \/ jf = {}

\* However passes are cut short, in the end the rows of deleted items go.
GoneRowsGo == <>[](\A i \in rows \ jf : Held(i))
=============================================================================
