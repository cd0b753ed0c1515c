------------------------------- MODULE Layout -------------------------------
(***************************************************************************)
(* Where the badges of a poster go (overlay.py, render_badge_groups): each  *)
(* group of labels flows over a few rows as pills, a pill is split between  *)
(* its badges, and what cannot be drawn is counted in "+N" pills.           *)
(*                                                                         *)
(* Data.  The badges of a group are numbers in reading order; `heads` are   *)
(* the ones that begin a label, its codec.  A pill is the badges in it;     *)
(* what it measures is for the font to say (Width, CountWidth).             *)
(***************************************************************************)
EXTENDS Integers, Sequences, FiniteSets

CONSTANTS
  Groups,         \* badge groups: [badges, heads, ...]
  Jobs,           \* what there is to render: [groups, w, h, tagsAt, ratingAt, rated, ratingW]
  Width(_, _),    \* Width(g, s): _pill_width() of the badges s of group g in one pill
  CountWidth(_),  \* CountWidth(n): _pill_width() of "+n"
  PillH, RowGap, ColGap, Margin, \* _compute_layout_params()
  RowBudget       \* _ROW_BUDGET

Corners == [bottom : BOOLEAN, right : BOOLEAN]

ASSUME LayoutAssumption ==
  /\ {PillH, RowBudget} \subseteq Nat \ {0}
  /\ {RowGap, ColGap, Margin} \subseteq Nat
  /\ \A g \in Groups :
       /\ IsFiniteSet(g.badges) /\ (g.badges \cup g.heads) \subseteq Nat
       /\ \A s \in SUBSET g.badges : s # {} => Width(g, s) \in Nat \ {0}
       /\ \A n \in 1..Cardinality(g.badges) : CountWidth(n) \in Nat \ {0}
  /\ Jobs \subseteq [groups : Seq(Groups), w : Nat, h : Nat, tagsAt : Corners, ratingAt : Corners,
                     rated : BOOLEAN, ratingW : Nat]
  /\ \A j \in Jobs : j.rated => j.ratingW > 0 /\ j.ratingW <= j.w - 2 * Margin

VARIABLES
  job,      \* what is rendered
  stage,    \* a trial flow of _rows_wanted(), the flow, its end, or all is done
  at,       \* the group at work
  rows,     \* how many rows it flows over
  queue,    \* its badges that wait for a place
  row,      \* the row that is being filled
  pills,    \* the pills placed: [row, s, x, w], x from the beginning of the row
  used,     \* used[r]: how far row r is filled
  hidden,   \* how many badges did not fit
  spare,    \* rows that no group has
  upTo,     \* upTo[i]: the rows of the groups 1..i (n_rows, summed up)
  count,    \* count[i]: the N of group i
  pending,  \* the groups that wait for a row to be counted on
  todo,     \* those whose "+N" is not measured yet
  tail,     \* the "+N" pills at the end of the last row: [g, n, x, w]
  end,      \* how far the last row is filled with them
  placed    \* all pills drawn: [g, s, n, x, w, band], g = 0 for the rating

flowVars == <<at, rows, queue, row, pills, used, hidden>>
closeVars == <<count, todo, tail, end>>
layoutVars == <<job, stage, flowVars, spare, upTo, closeVars, pending, placed>>

-----------------------------------------------------------------------------
(* The canvas *)

Pitch == PillH + RowGap
SameCorner(j) == j.rated /\ j.ratingAt = j.tagsAt

\* The rating is on the tags' edge at the other side: the one row beside it is
\* narrower by `Reserve`.
SharesBand(j) == j.rated /\ j.ratingAt # j.tagsAt /\ j.ratingAt.bottom = j.tagsAt.bottom
Reserve(j) == IF SharesBand(j) THEN j.ratingW + ColGap ELSE 0

\* Mutant: the rating's row is not taken off.
SlotsUnderRating(j) ==
  LET slots == (j.h - 2 * Margin + RowGap) \div Pitch IN IF slots > 0 THEN slots ELSE 0

\* The rows between the margins, less the rating's own.
Slots(j) ==
  LET own == IF ~j.rated \/ SharesBand(j) THEN 0 ELSE Pitch
      slots == (j.h - 2 * Margin - own + RowGap) \div Pitch
  IN IF slots > 0 THEN slots ELSE 0

\* The last group that gets a row.
LastKept(j) == IF Slots(j) < Len(j.groups) THEN Slots(j) ELSE Len(j.groups)

\* Of the n rows of group i, the one on the edge is the one in the rating's band.
RowWidth(j, i, n, r) ==
  j.w - 2 * Margin - (IF i = LastKept(j) /\ r = (IF j.tagsAt.bottom THEN n ELSE 1) THEN Reserve(j) ELSE 0)

\* Where a band of pills is, counted from its edge.
Top(j, bottom, band) ==
  IF bottom THEN j.h - Margin - PillH - band * Pitch ELSE Margin + band * Pitch

-----------------------------------------------------------------------------
(* _flow_rows() *)

\* A badge wider than every row is not drawn.
Drawable(j, i, n) ==
  {b \in j.groups[i].badges : \E r \in 1..n : Width(j.groups[i], {b}) <= RowWidth(j, i, n, r)}

SameLabel(g, b, c) == \A h \in g.heads : h <= b <=> h <= c

\* The badges of the first label in the queue, and what the label can begin with.
FirstLabel(g, q) == {b \in q : \A c \in q : c <= b => SameLabel(g, b, c)}
BeginningsOf(tokens) == {{b \in tokens : b <= k} : k \in tokens} \cup {{}}

Tokens == FirstLabel(job.groups[at], queue)
Beginnings == BeginningsOf(Tokens)

RowEmpty(r) == \A p \in pills : p.row # r
Gap == IF RowEmpty(row) THEN 0 ELSE ColGap
Fits(s, room) == s = {} \/ Width(job.groups[at], s) <= room

\* The longest beginning of the label that fits the row.
Longest(s) ==
  LET room == RowWidth(job, at, rows, row) - used[row] - Gap
  IN /\ Fits(s, room)
     /\ \A t \in Beginnings : Fits(t, room) => t \subseteq s

\* The label goes to the next row: nothing of it fits here, or nothing but its
\* codec beside other pills, or the whole of it fits there.
StartsNext(s) ==
  /\ s # Tokens /\ row < rows
  /\ \/ s = {}
     \/ /\ ~RowEmpty(row)
        /\ Cardinality(s) < 2 \/ Fits(Tokens, RowWidth(job, at, rows, row + 1))

StartFlow(i, n) ==
  /\ at' = i /\ rows' = n /\ row' = 1
  /\ pills' = {}
  /\ used' = [r \in 1..n |-> 0]
  /\ queue' = Drawable(job, i, n)
  /\ hidden' = Cardinality(job.groups[i].badges \ Drawable(job, i, n))

Flowing == stage \in {"try", "lay"} /\ queue # {}

NextRow ==
  /\ Flowing
  /\ \E s \in Beginnings : Longest(s) /\ StartsNext(s)
  /\ row' = row + 1
  /\ UNCHANGED <<job, stage, at, rows, queue, pills, used, hidden, spare, upTo, closeVars, pending, placed>>

\* What is left of the label continues on the next row; on the last one, that
\* and what is behind it is hidden.
PlacePill ==
  /\ Flowing
  /\ \E s \in Beginnings \ {{}} :
       /\ Longest(s) /\ ~StartsNext(s)
       /\ LET pill == [row |-> row, s |-> s, x |-> used[row] + Gap, w |-> Width(job.groups[at], s)]
              over == s # Tokens /\ row = rows
          IN /\ pills' = pills \cup {pill}
             /\ used' = [used EXCEPT ![row] = pill.x + pill.w]
             /\ queue' = IF over THEN {} ELSE queue \ s
             /\ hidden' = IF over THEN hidden + Cardinality(queue \ s) ELSE hidden
             /\ row' = IF s # Tokens /\ row < rows THEN row + 1 ELSE row
  /\ UNCHANGED <<job, stage, at, rows, spare, upTo, closeVars, pending, placed>>

GiveUp ==
  /\ Flowing
  /\ Longest({}) /\ ~StartsNext({})
  /\ queue' = {}
  /\ hidden' = hidden + Cardinality(queue)
  /\ UNCHANGED <<job, stage, at, rows, row, pills, used, spare, upTo, closeVars, pending, placed>>

-----------------------------------------------------------------------------
(* render_badge_groups(): how many rows each group gets *)

LayoutInit ==
  /\ job \in Jobs
  /\ spare = Slots(job) - LastKept(job)
  /\ upTo = [i \in 0..LastKept(job) |-> 0]
  /\ count = [i \in DOMAIN job.groups |-> IF i > LastKept(job) THEN Cardinality(job.groups[i].badges) ELSE 0]
  /\ pending = {i \in DOMAIN job.groups : i > LastKept(job)}
  /\ todo = {} /\ tail = {} /\ end = 0
  /\ placed = IF job.rated
                THEN {[g |-> 0, s |-> {}, n |-> 0, w |-> job.ratingW, band |-> 0,
                       x |-> IF job.ratingAt.right THEN job.w - Margin - job.ratingW ELSE Margin]}
                ELSE {}
  /\ row = 1 /\ pills = {}
  /\ IF LastKept(job) = 0
       THEN stage = "end" /\ at = 0 /\ rows = 1 /\ used = <<0>> /\ queue = {} /\ hidden = 0
       ELSE /\ stage = "try" /\ at = 1 /\ rows = 1 /\ used = <<0>>
            /\ queue = Drawable(job, 1, 1)
            /\ hidden = Cardinality(job.groups[1].badges \ Drawable(job, 1, 1))

\* The trial with one row more.
TryMore ==
  /\ stage = "try" /\ queue = {}
  /\ hidden # 0 /\ rows < RowBudget
  /\ StartFlow(at, rows + 1)
  /\ UNCHANGED <<job, stage, spare, upTo, closeVars, pending, placed>>

\* The group gets the rows it wants, as far as there are; the next one is sized,
\* or the last one laid out, which is stacked first.
Sized ==
  /\ stage = "try" /\ queue = {}
  /\ hidden = 0 \/ rows = RowBudget
  /\ LET extra == IF rows - 1 < spare THEN rows - 1 ELSE spare
     IN /\ spare' = spare - extra
        /\ upTo' = [upTo EXCEPT ![at] = upTo[at - 1] + 1 + extra]
        /\ IF at < LastKept(job)
             THEN stage' = "try" /\ StartFlow(at + 1, 1)
             ELSE stage' = "lay" /\ StartFlow(at, 1 + extra)
  /\ UNCHANGED <<job, closeVars, pending, placed>>

-----------------------------------------------------------------------------
(* _close_row(), _draw_rows() *)

\* The "+N" pills to measure: the group's own and those that wait.
Counts(c) == {g \in pending \cup {at} : c[g] > 0}

Flowed ==
  /\ stage = "lay" /\ queue = {}
  /\ stage' = "close"
  /\ count' = [count EXCEPT ![at] = hidden]
  /\ todo' = Counts(count')
  /\ tail' = {}
  /\ end' = used[rows]
  /\ UNCHANGED <<job, flowVars, spare, upTo, pending, placed>>

\* The next "+N" pill, in the order of the groups, and whether the row has room for it.
NextCount(g) == g \in todo /\ \A h \in todo : g <= h
CountAt == IF RowEmpty(rows) /\ tail = {} THEN 0 ELSE end + ColGap
HasRoom(g) == CountAt + CountWidth(count[g]) <= RowWidth(job, at, rows, rows)

AddCount ==
  /\ stage = "close"
  /\ \E g \in todo :
       /\ NextCount(g) /\ HasRoom(g)
       /\ tail' = tail \cup {[g |-> g, n |-> count[g], x |-> CountAt, w |-> CountWidth(count[g])]}
       /\ end' = CountAt + CountWidth(count[g])
       /\ todo' = todo \ {g}
  /\ UNCHANGED <<job, stage, flowVars, spare, upTo, count, pending, placed>>

\* Mutant: a badge trimmed for the "+N" pill is not counted in it.
CountedWithTrimmedLost == count

\* A trimmed badge goes to the row's own count.
CountedWithTrimmed == [count EXCEPT ![at] = @ + 1]

\* The row's last badge makes room, and the counts are measured again.
TrimBadge ==
  /\ stage = "close"
  /\ \E g \in todo : NextCount(g) /\ ~HasRoom(g)
  /\ \E p \in pills :
       /\ p.row = rows /\ \A q \in pills : q.row = rows => q.x <= p.x
       /\ LET s == {b \in p.s : \E c \in p.s : b < c}
              w == Width(job.groups[at], s)
          IN IF s = {}
               THEN /\ pills' = pills \ {p}
                    /\ used' = [used EXCEPT ![rows] = IF p.x = 0 THEN 0 ELSE p.x - ColGap]
               ELSE /\ pills' = (pills \ {p}) \cup {[p EXCEPT !.s = s, !.w = w]}
                    /\ used' = [used EXCEPT ![rows] = p.x + w]
  /\ count' = CountedWithTrimmed
  /\ todo' = Counts(count')
  /\ tail' = {}
  /\ end' = used'[rows]
  /\ UNCHANGED <<job, stage, at, rows, queue, row, hidden, spare, upTo, pending, placed>>

\* The band of row r, in from the edge; a rating in the corner has the first.
Band(r) ==
  (IF SameCorner(job) THEN 1 ELSE 0) + upTo[LastKept(job)] - upTo[at]
    + (IF job.tagsAt.bottom THEN rows - r ELSE r - 1)

\* Rows are aligned to their corner's side.
OnCanvas(r, x) ==
  IF job.tagsAt.right THEN job.w - Margin - (IF r = rows THEN end ELSE used[r]) + x ELSE Margin + x

\* Every count has its pill, or the emptied row has no room for one: it and those
\* after it are left for the group before, whose turn it is.
Draw ==
  /\ stage = "close"
  /\ todo = {} \/ (RowEmpty(rows) /\ \E g \in todo : NextCount(g) /\ ~HasRoom(g))
  /\ pending' = todo
  /\ placed' = placed
       \cup {[g |-> at, s |-> p.s, n |-> 0, w |-> p.w, band |-> Band(p.row), x |-> OnCanvas(p.row, p.x)] : p \in pills}
       \cup {[g |-> t.g, s |-> {}, n |-> t.n, w |-> t.w, band |-> Band(rows), x |-> OnCanvas(rows, t.x)] : t \in tail}
  /\ IF at > 1
       THEN stage' = "lay" /\ StartFlow(at - 1, upTo[at - 1] - upTo[at - 2])
       ELSE stage' = "end" /\ UNCHANGED flowVars
  /\ UNCHANGED <<job, spare, upTo, closeVars>>

LayoutNext ==
  \/ NextRow \/ PlacePill \/ GiveUp
  \/ TryMore \/ Sized
  \/ Flowed \/ AddCount \/ TrimBadge \/ Draw

LayoutSpec == LayoutInit /\ [][LayoutNext]_layoutVars

-----------------------------------------------------------------------------
(* Properties *)

LayoutTypeOK ==
  /\ job \in Jobs
  /\ stage \in {"try", "lay", "close", "end"}
  /\ at \in 0..LastKept(job) /\ (stage # "end" => at > 0)
  /\ rows \in Nat \ {0} /\ row \in 1..rows
  /\ queue \subseteq Nat /\ hidden \in Nat
  /\ pills \subseteq [row : 1..rows, s : SUBSET Nat, x : Nat, w : Nat]
  /\ used \in [1..rows -> Nat]
  /\ spare \in Nat /\ upTo \in [0..LastKept(job) -> Nat]
  /\ count \in [DOMAIN job.groups -> Nat]
  /\ pending \subseteq DOMAIN job.groups /\ todo \subseteq DOMAIN job.groups
  /\ tail \subseteq [g : DOMAIN job.groups, n : Nat, x : Nat, w : Nat]
  /\ end \in Nat
  /\ placed \subseteq [g : 0..Len(job.groups), s : SUBSET Nat, n : Nat, x : Int, w : Nat, band : Nat]

PlacedOf(g) == UNION {p.s : p \in {q \in placed : q.g = g}}
CountsOf(g) == {p \in placed : p.g = g /\ p.n > 0}

\* Nothing is lost and the end is what is left out: of the badges of a group that any of its
\* rows could hold those placed are the first, so that image.prefer_languages decides;
\* and N is exact: the others are counted, in one "+N" pill of the group, wherever that
\* ended up, or in one for which there was no row (_flow_rows, _close_row).
DrawnOrCounted ==
  /\ stage # "end" => \A p \in pills : \A b \in p.s : \A c \in Drawable(job, at, rows) :
       (\A q \in pills : c \notin q.s) => b < c
  /\ stage = "end" => \A g \in DOMAIN job.groups :
       /\ Cardinality(PlacedOf(g)) + count[g] = Cardinality(job.groups[g].badges)
       /\ \A p \in CountsOf(g) : p.n = count[g] /\ CountsOf(g) = {p}
       /\ count[g] > 0 => (g \in pending <=> CountsOf(g) = {})

Overlap(p, q) ==
  LET top(r) == IF r.g = 0 THEN Top(job, job.ratingAt.bottom, r.band) ELSE Top(job, job.tagsAt.bottom, r.band)
  IN /\ p.x < q.x + q.w /\ q.x < p.x + p.w
     /\ top(p) < top(q) + PillH /\ top(q) < top(p) + PillH

Inside(p) ==
  LET top == IF p.g = 0 THEN Top(job, job.ratingAt.bottom, p.band) ELSE Top(job, job.tagsAt.bottom, p.band)
  IN /\ p.x >= Margin /\ p.x + p.w <= job.w - Margin
     /\ top >= Margin /\ top + PillH <= job.h - Margin

\* Every pill, "+N" and rating included, is inside the margins and none covers
\* another, whichever corners the tags and the rating share (render_badge_groups:
\* "every combination must render without overlap").  But for the rating on a canvas
\* lower than its row: it is drawn on any, and sticks out there.
NothingOverlaps ==
  \A p \in placed :
    /\ p.g # 0 \/ job.h >= 2 * Margin + PillH => Inside(p)
    /\ \A q \in placed : p # q => ~Overlap(p, q)

\* A codec is not split from its languages beside other pills, while there is
\* another row.  _flow_rows() promises it of every row ("never split after its head
\* alone once a row has other pills on it"), but on the last row it is not kept.
CodecKeepsLanguage ==
  stage # "end" => \A p \in pills : p.row < rows /\ p.x > 0 /\ Cardinality(p.s) = 1 =>
    \A b \in p.s : \A c \in Drawable(job, at, rows) : SameLabel(job.groups[at], b, c) => c <= b
=============================================================================
