--------------------------- MODULE Overlay_proofs ---------------------------
(***************************************************************************)
(* Proofs about overlay.py.  Poster: the image files, for any number of     *)
(* webhooks and of failures.  Layout: where the badges go, for any groups,  *)
(* any canvas and any widths that a font gives them.                        *)
(***************************************************************************)
EXTENDS Poster, Layout, FiniteSetTheorems, TLAPS

-----------------------------------------------------------------------------
(* Poster *)

\* Images, places and faults keep their types, whoever renders.
THEOREM TypeCorrect == Spec => []TypeOK
<1>1. Init => TypeOK
  <2>1. MaxFaults \in 0..MaxFaults
    BY ConstantsAssumption
  <2>2. QED
    BY <2>1 DEF Init, TypeOK, Images
<1>2. TypeOK /\ [Next]_vars => TypeOK'
  <2> SUFFICES ASSUME TypeOK, [Next]_vars
               PROVE  TypeOK'
    OBVIOUS
  <2> USE DEF TypeOK, At, Goes, histVars
  <2>1. ASSUME NEW w \in Workers, Begin(w) \/ Look(w)
        PROVE  TypeOK'
    BY <2>1 DEF Begin, Look, Meeting
  <2>2. ASSUME NEW w \in Workers, CopyBegins(w) \/ CopyEnds(w)
        PROVE  TypeOK'
    BY <2>2 DEF CopyBegins, CopyEnds, Images
  <2>3. ASSUME NEW w \in Workers, Open(w)
        PROVE  TypeOK'
    BY <2>3 DEF Open
  <2>4. ASSUME NEW w \in Workers, SaveBegins(w) \/ SaveEnds(w)
        PROVE  TypeOK'
    BY <2>4 DEF SaveBegins, SaveEnds, Drawn, Images
  <2>5. ASSUME NEW w \in Workers, Record(w)
        PROVE  TypeOK'
    BY <2>5 DEF Record, Images
  <2>6. ASSUME NEW w \in Workers, CopyFails(w) \/ SaveFails(w)
        PROVE  TypeOK'
    <3>1. left' \in 0..MaxFaults
      BY <2>6, ConstantsAssumption DEF CopyFails, SaveFails, Fault
    <3>2. QED
      BY <2>6, <3>1 DEF CopyFails, SaveFails
  <2>7. CASE BecomesDue
    BY <2>7 DEF BecomesDue
  <2>8. CASE Crash
    BY <2>8, ConstantsAssumption DEF Crash, Fault, Images
  <2>9. CASE UNCHANGED vars
    BY <2>9 DEF vars
  <2>10. QED
    BY <2>1, <2>2, <2>3, <2>4, <2>5, <2>6, <2>7, <2>8, <2>9 DEF Next, Render
<1>3. QED
  BY <1>1, <1>2, PTL DEF Spec

-----------------------------------------------------------------------------
(* Before the backup is whole there is one worker at most, so the invariant  *)
(* follows the first render: the poster is untouched until then, and what is *)
(* opened to draw on is the original.  Once the backup is whole nobody       *)
(* copies any more, and every render draws on it.                            *)

AloneUntilBackedUp ==
  backup # "original" =>
    /\ poster \in {"none", "original"}
    /\ \A v, w \in Workers : pc[v] # "idle" /\ pc[w] # "idle" => v = w

PlacesInv ==
  \A w \in Workers :
    /\ pc[w] \in {"copy", "copying"} => poster = "original" /\ backup # "original"
    /\ pc[w] = "open" => backup # "none"
    /\ pc[w] \in {"save", "saving"} => base[w] = "original" /\ backup = "original"

DrawInv ==
  met # "early" =>
    /\ backup \in {"none", "broken", "original"}
    /\ poster # "stacked"
    /\ AloneUntilBackedUp
    /\ PlacesInv

LEMMA InitDrawInv == Init => DrawInv
BY DEF Init, DrawInv, AloneUntilBackedUp, PlacesInv

LEMMA NextDrawInv ==
  ASSUME TypeOK, DrawInv, [Next]_vars
  PROVE  DrawInv'
<1> USE DEF TypeOK, DrawInv, AloneUntilBackedUp, PlacesInv, At, Goes, histVars
<1>1. ASSUME NEW w \in Workers, Begin(w)
      PROVE  DrawInv'
  BY <1>1 DEF Begin, Meeting
<1>2. ASSUME NEW w \in Workers, Look(w)
      PROVE  DrawInv'
  BY <1>2 DEF Look
<1>3. ASSUME NEW w \in Workers, CopyBegins(w) \/ CopyEnds(w) \/ CopyFails(w)
      PROVE  DrawInv'
  BY <1>3 DEF CopyBegins, CopyEnds, CopyFails
<1>4. ASSUME NEW w \in Workers, Open(w)
      PROVE  DrawInv'
  BY <1>4 DEF Open
<1>5. ASSUME NEW w \in Workers, SaveBegins(w) \/ SaveEnds(w)
      PROVE  DrawInv'
  BY <1>5 DEF SaveBegins, SaveEnds, Drawn
<1>6. ASSUME NEW w \in Workers, SaveFails(w) \/ Record(w)
      PROVE  DrawInv'
  BY <1>6 DEF SaveFails, Record
<1>7. CASE BecomesDue \/ Crash
  BY <1>7 DEF BecomesDue, Crash
<1>8. CASE UNCHANGED vars
  BY <1>8 DEF vars
<1>9. QED
  BY <1>1, <1>2, <1>3, <1>4, <1>5, <1>6, <1>7, <1>8 DEF Next, Render

LEMMA DrawInvHolds == Spec => []DrawInv
<1>1. TypeOK /\ DrawInv /\ [Next]_vars => DrawInv'
  BY NextDrawInv
<1>2. QED
  BY InitDrawInv, <1>1, TypeCorrect, PTL DEF Spec

\* As long as no two workers met in the folder before its backup was whole, no
\* number of concurrent renders, failures and crashes loses the original.
THEOREM BackupIsSafe == Spec => []OriginalIsKept
<1>1. DrawInv => OriginalIsKept
  BY DEF DrawInv, AloneUntilBackedUp, OriginalIsKept
<1>2. QED
  BY <1>1, DrawInvHolds, PTL

\* ... and none draws badges on badges: every overlay starts from the backup.
THEOREM OneLayerOfBadges == Spec => []BadgesNeverStack
<1>1. DrawInv => BadgesNeverStack
  BY DEF DrawInv, BadgesNeverStack
<1>2. QED
  BY <1>1, DrawInvHolds, PTL

-----------------------------------------------------------------------------
(* Layout: the inductive invariant *)

Flow == stage \in {"try", "lay"}
Shown == UNION {p.s : p \in pills}

\* The rows that the groups have been given, and those they may still be given.
RowsHold ==
  /\ upTo[0] = 0
  /\ stage = "try" =>
       /\ \A k \in 0..(at - 1) : \A i \in 0..(k - 1) : upTo[i] < upTo[k]
       /\ upTo[at - 1] + spare + (LastKept(job) - (at - 1)) = Slots(job)
  /\ stage # "try" =>
       /\ \A k \in 0..LastKept(job) : \A i \in 0..(k - 1) : upTo[i] < upTo[k]
       /\ upTo[LastKept(job)] <= Slots(job)
  /\ stage \in {"lay", "close"} => rows = upTo[at] - upTo[at - 1]

\* Pill p comes before pill q, in reading order and on the rows.
Before(p, q) ==
  /\ \A b \in p.s, c \in q.s : b < c
  /\ p.row <= q.row
  /\ p.row = q.row => p.x + p.w + ColGap <= q.x

PillsHold ==
  \A p \in pills :
    /\ p.s \subseteq Drawable(job, at, rows) /\ p.s # {} /\ p.w > 0
    /\ p.x = 0 \/ p.x >= ColGap
    /\ p.x + p.w <= used[p.row]
    /\ p.row < rows => used[p.row] <= RowWidth(job, at, rows, p.row)
    /\ \A q \in pills : p = q \/ Before(p, q) \/ Before(q, p)

\* What is not placed comes behind what is.
PlacedFirst ==
  \A p \in pills : \A b \in p.s : \A c \in Drawable(job, at, rows) :
    (\A q \in pills : c \notin q.s) => b < c

CodecsHold ==
  \A p \in pills : p.row < rows /\ p.x > 0 /\ Cardinality(p.s) = 1 =>
    \A b \in p.s : \A c \in Drawable(job, at, rows) : SameLabel(job.groups[at], b, c) => c <= b

FlowHolds ==
  Flow =>
    /\ queue \subseteq Drawable(job, at, rows)
    /\ \A p \in pills : p.row <= row /\ p.s \cap queue = {} /\ used[p.row] <= RowWidth(job, at, rows, p.row)
    /\ \A r \in 1..rows : RowEmpty(r) => used[r] = 0
    /\ queue # {} => \A c \in Drawable(job, at, rows) : c \in queue \/ \E p \in pills : c \in p.s
    /\ hidden + Cardinality(queue) + Cardinality(Shown) = Cardinality(job.groups[at].badges)

\* What is measured at the end of the last row.
CloseHolds ==
  stage = "close" =>
    /\ count[at] + Cardinality(Shown) = Cardinality(job.groups[at].badges)
    /\ {t.g : t \in tail} \cup todo = Counts(count)
    /\ \A t \in tail :
         /\ t.n = count[t.g] /\ t.w > 0 /\ t.x + t.w <= end
         /\ \A g \in todo : t.g < g
         /\ \A u \in tail : t = u \/ (t.g < u.g /\ t.x + t.w + ColGap <= u.x) \/ (u.g < t.g /\ u.x + u.w + ColGap <= t.x)
         /\ \A p \in pills : p.row = rows => p.x + p.w + ColGap <= t.x
    /\ \A p \in pills : p.row = rows => p.x + p.w <= end
    /\ tail # {} => end <= RowWidth(job, at, rows, rows)
    /\ tail = {} => end = used[rows]
    /\ tail = {} /\ todo = {} /\ ~RowEmpty(rows) => end <= RowWidth(job, at, rows, rows)

\* Group g has been laid out, or had no row from the start.
Done(g) == stage = "end" \/ g > LastKept(job) \/ (stage \in {"lay", "close"} /\ g > at)

Exact(g) ==
  /\ PlacedOf(g) \subseteq job.groups[g].badges
  /\ Cardinality(PlacedOf(g)) + count[g] = Cardinality(job.groups[g].badges)
  /\ \A p \in CountsOf(g) : p.n = count[g] /\ CountsOf(g) = {p}
  /\ count[g] > 0 => (g \in pending <=> CountsOf(g) = {})

CountsHold ==
  /\ \A g \in pending : Done(g)
  /\ \A g \in DOMAIN job.groups : IF Done(g) THEN Exact(g) ELSE \A p \in placed : p.g # g

First == IF SameCorner(job) THEN 1 ELSE 0
Stacked == CASE stage = "try" -> 0
             [] stage \in {"lay", "close"} -> upTo[LastKept(job)] - upTo[at]
             [] stage = "end" -> upTo[LastKept(job)]

PlacesHold ==
  \A p \in placed :
    /\ p.g = 0 => job.rated /\ p = [g |-> 0, s |-> {}, n |-> 0, w |-> job.ratingW, band |-> 0,
                       x |-> IF job.ratingAt.right THEN job.w - Margin - job.ratingW ELSE Margin]
    /\ p.g > 0 =>
         /\ p.x >= Margin /\ p.x + p.w <= job.w - Margin
         /\ First <= p.band /\ p.band < First + Stacked
         /\ p.band = 0 => IF job.tagsAt.right THEN p.x >= Margin + Reserve(job)
                          ELSE p.x + p.w <= job.w - Margin - Reserve(job)
         /\ \A q \in placed : q = p \/ q.g = 0 \/ q.band # p.band \/ p.x + p.w <= q.x \/ q.x + q.w <= p.x

LayoutInv ==
  /\ LayoutTypeOK /\ RowsHold
  /\ stage # "end" => PillsHold /\ PlacedFirst /\ CodecsHold
  /\ FlowHolds /\ CloseHolds /\ CountsHold /\ PlacesHold

-----------------------------------------------------------------------------
(* Layout: sizes, rows and the beginnings of a label *)

LEMMA JobIs ==
  ASSUME NEW j \in Jobs
  PROVE  /\ j.groups \in Seq(Groups) /\ Len(j.groups) \in Nat /\ DOMAIN j.groups = 1..Len(j.groups)
         /\ j.w \in Nat /\ j.h \in Nat /\ j.ratingW \in Nat
         /\ j.rated \in BOOLEAN /\ j.tagsAt \in Corners /\ j.ratingAt \in Corners
         /\ j.rated => j.ratingW > 0 /\ j.ratingW <= j.w - 2 * Margin
         /\ \A i \in 1..Len(j.groups) : j.groups[i] \in Groups
<1>1. j \in [groups : Seq(Groups), w : Nat, h : Nat, tagsAt : Corners, ratingAt : Corners,
             rated : BOOLEAN, ratingW : Nat]
  BY LayoutAssumption
<1>2. j.groups \in Seq(Groups)
  BY <1>1
<1>3. QED
  BY <1>1, <1>2, LayoutAssumption

LEMMA SizesAreNumbers ==
  /\ PillH \in Nat \ {0} /\ RowGap \in Nat /\ ColGap \in Nat /\ Margin \in Nat /\ RowBudget \in Nat \ {0}
  /\ Pitch \in Nat \ {0} /\ Pitch >= PillH
BY LayoutAssumption DEF Pitch

LEMMA ReserveIs ==
  ASSUME NEW j \in Jobs
  PROVE  Reserve(j) \in Nat
BY JobIs, SizesAreNumbers DEF Reserve

\* Whole rows fit into the height they were divided from.
LEMMA DivisionFits ==
  ASSUME NEW a \in Int, NEW p \in Nat \ {0}
  PROVE  a \div p \in Int /\ (a \div p) * p <= a
OBVIOUS

LEMMA BandsApart ==
  ASSUME NEW a \in Nat, NEW b \in Nat, a < b
  PROVE  a * Pitch + Pitch <= b * Pitch /\ a * Pitch \in Nat /\ b * Pitch \in Nat
<1>1. Pitch \in Nat
  BY SizesAreNumbers
<1>2. PICK d \in Nat : b = a + 1 + d
  <2>1. b - a - 1 \in Nat /\ b = a + 1 + (b - a - 1)
    OBVIOUS
  <2>2. QED
    BY <2>1
<1>3. b * Pitch = a * Pitch + Pitch + d * Pitch
  BY <1>1, <1>2
<1>4. d * Pitch \in Nat /\ a * Pitch \in Nat /\ b * Pitch \in Nat
  BY <1>1, <1>2
<1>5. QED
  BY <1>1, <1>3, <1>4

LEMMA SlotsFit ==
  ASSUME NEW j \in Jobs
  PROVE  /\ Slots(j) \in Nat
         /\ Slots(j) > 0 =>
              Slots(j) * Pitch <= j.h - 2 * Margin - (IF ~j.rated \/ SharesBand(j) THEN 0 ELSE Pitch) + RowGap
<1> DEFINE a == j.h - 2 * Margin - (IF ~j.rated \/ SharesBand(j) THEN 0 ELSE Pitch) + RowGap
<1>1. a \in Int /\ Pitch \in Nat \ {0}
  BY JobIs, SizesAreNumbers
<1>2. a \div Pitch \in Int /\ (a \div Pitch) * Pitch <= a
  BY <1>1, DivisionFits
<1>3. Slots(j) = IF a \div Pitch > 0 THEN a \div Pitch ELSE 0
  BY DEF Slots
<1> HIDE DEF a
<1>4. QED
  BY <1>1, <1>2, <1>3 DEF a

LEMMA LastKeptIs ==
  ASSUME NEW j \in Jobs
  PROVE  LastKept(j) \in Nat /\ LastKept(j) <= Slots(j) /\ LastKept(j) <= Len(j.groups)
BY JobIs, SlotsFit DEF LastKept

LEMMA WidthsAreNumbers ==
  ASSUME NEW j \in Jobs, NEW i \in 1..Len(j.groups), NEW n \in Nat \ {0}
  PROVE  /\ \A r : RowWidth(j, i, n, r) \in Int
         /\ Drawable(j, i, n) \subseteq j.groups[i].badges
         /\ IsFiniteSet(j.groups[i].badges) /\ j.groups[i].badges \subseteq Nat
         /\ \A s : s \subseteq j.groups[i].badges /\ s # {} => Width(j.groups[i], s) \in Nat \ {0}
         /\ \A m \in 1..Cardinality(j.groups[i].badges) : CountWidth(m) \in Nat \ {0}
<1>1. j.groups[i] \in Groups
  BY JobIs
<1>2. \A r : RowWidth(j, i, n, r) \in Int
  BY JobIs, SizesAreNumbers, ReserveIs DEF RowWidth
<1>3. QED
  BY <1>1, <1>2, LayoutAssumption DEF Drawable

\* A beginning of the first label is a beginning of the queue.
LEMMA BeginningIsFirst ==
  ASSUME NEW g, NEW q \in SUBSET Nat, NEW s \in BeginningsOf(FirstLabel(g, q))
  PROVE  s \subseteq q /\ s \in SUBSET Nat /\ \A b \in s, c \in q \ s : b < c
<1>1. PICK k : s = {} \/ (k \in FirstLabel(g, q) /\ s = {b \in FirstLabel(g, q) : b <= k})
  BY DEF BeginningsOf
<1>2. s \subseteq q
  BY <1>1 DEF FirstLabel
<1>3. ASSUME NEW b \in s, NEW c \in q \ s
      PROVE  b < c
  <2>1. b \in FirstLabel(g, q) /\ b <= k /\ k \in q /\ b \in Nat /\ c \in Nat /\ k \in Nat
    BY <1>1, <1>2, <1>3 DEF FirstLabel
  <2>2. CASE c \in FirstLabel(g, q)
    BY <1>1, <2>1, <2>2
  <2>3. CASE c \notin FirstLabel(g, q)
    <3>1. SUFFICES ASSUME c <= b PROVE FALSE
      BY <2>1
    <3>2. \A d \in q : d <= c => SameLabel(g, c, d)
      <4>1. SUFFICES ASSUME NEW d \in q, d <= c PROVE SameLabel(g, c, d)
        OBVIOUS
      <4>2. SameLabel(g, b, d) /\ SameLabel(g, b, c)
        BY <2>1, <3>1, <4>1 DEF FirstLabel
      <4>3. QED
        BY <4>2 DEF SameLabel
    <3>3. c \in FirstLabel(g, q)
      BY <3>2 DEF FirstLabel
    <3>4. QED
      BY <2>3, <3>3
  <2>4. QED
    BY <2>2, <2>3
<1>4. QED
  BY <1>2, <1>3

\* All of the first label: what is behind it in the queue is of other labels.
LEMMA LabelEnds ==
  ASSUME NEW g, g.heads \subseteq Nat, NEW q \in SUBSET Nat, NEW b \in FirstLabel(g, q), NEW c \in q \ FirstLabel(g, q)
  PROVE  ~SameLabel(g, b, c)
<1>1. SUFFICES ASSUME SameLabel(g, b, c) PROVE FALSE
  OBVIOUS
<1>2. b \in Nat /\ c \in Nat
  BY DEF FirstLabel
<1>3. \A d \in q : d <= c => SameLabel(g, c, d)
  <2>1. SUFFICES ASSUME NEW d \in q, d <= c PROVE SameLabel(g, c, d)
    OBVIOUS
  <2>2. CASE d <= b
    BY <1>1, <2>2 DEF FirstLabel, SameLabel
  <2>3. CASE ~(d <= b)
    \* Between the two: no head lies between them.
    <3>1. b <= d /\ d <= c /\ d \in Nat
      BY <1>2, <2>1, <2>3
    <3>2. \A h \in g.heads : h <= b <=> h <= c
      BY <1>1 DEF SameLabel
    <3>3. QED
      BY <1>2, <3>1, <3>2 DEF SameLabel
  <2>4. QED
    BY <2>2, <2>3
<1>4. QED
  BY <1>3 DEF FirstLabel

-----------------------------------------------------------------------------
(* The group at work *)

LEMMA AtWork ==
  ASSUME LayoutTypeOK, stage # "end"
  PROVE  /\ job \in Jobs /\ LastKept(job) \in Nat /\ Len(job.groups) \in Nat
         /\ DOMAIN job.groups = 1..Len(job.groups)
         /\ at \in 1..LastKept(job) /\ at \in 1..Len(job.groups)
         /\ rows \in Nat \ {0} /\ row \in 1..rows
         /\ \A r : RowWidth(job, at, rows, r) \in Int
         /\ Drawable(job, at, rows) \subseteq job.groups[at].badges
         /\ IsFiniteSet(job.groups[at].badges) /\ job.groups[at].badges \subseteq Nat
         /\ job.groups[at].heads \subseteq Nat
         /\ Cardinality(job.groups[at].badges) \in Nat
         /\ \A s : s \subseteq job.groups[at].badges /\ s # {} => Width(job.groups[at], s) \in Nat \ {0}
         /\ \A m \in 1..Cardinality(job.groups[at].badges) : CountWidth(m) \in Nat \ {0}
<1>1. job \in Jobs /\ at \in 1..LastKept(job) /\ rows \in Nat \ {0} /\ row \in 1..rows
  BY LastKeptIs DEF LayoutTypeOK
<1>2. at \in 1..Len(job.groups) /\ LastKept(job) \in Nat
  BY <1>1, LastKeptIs, JobIs
<1>3. job.groups[at] \in Groups
  BY <1>1, <1>2, JobIs
<1>4. job.groups[at].heads \subseteq Nat /\ IsFiniteSet(job.groups[at].badges)
  BY <1>3, LayoutAssumption
<1>5. Cardinality(job.groups[at].badges) \in Nat
  BY <1>4, FS_CardinalityType
<1>6. QED
  BY <1>1, <1>2, <1>4, <1>5, JobIs, WidthsAreNumbers

\* A pill that is placed fits its row, behind the pills before it.
LEMMA PillFits ==
  ASSUME LayoutInv, Flowing, NEW s \in Beginnings \ {{}}, Longest(s)
  PROVE  /\ s \subseteq queue /\ queue \subseteq Drawable(job, at, rows) /\ s \in SUBSET Nat
         /\ used[row] \in Nat /\ Gap \in Nat /\ Width(job.groups[at], s) \in Nat \ {0}
         /\ used[row] + Gap + Width(job.groups[at], s) <= RowWidth(job, at, rows, row)
         /\ used[row] + Gap = 0 \/ used[row] + Gap >= ColGap
         /\ used[row] + Gap > 0 => ~RowEmpty(row)
         /\ \A b \in s, c \in queue \ s : b < c
         /\ \A p \in pills : \A b \in p.s, c \in queue : b < c
         /\ \A p \in pills : p.row <= row /\ (p.row = row => p.x + p.w + ColGap <= used[row] + Gap)
<1>1. LayoutTypeOK /\ stage # "end" /\ FlowHolds /\ PillsHold /\ PlacedFirst /\ Flow
  BY DEF LayoutInv, Flowing, Flow
<1>2. queue \in SUBSET Nat /\ queue \subseteq Drawable(job, at, rows)
  BY <1>1 DEF FlowHolds, LayoutTypeOK
<1>3. s \subseteq queue /\ s \in SUBSET Nat /\ \A b \in s, c \in queue \ s : b < c
  BY <1>2, BeginningIsFirst DEF Beginnings, Tokens
<1>4. Width(job.groups[at], s) \in Nat \ {0}
  BY <1>1, <1>2, <1>3, AtWork
<1>5. used[row] \in Nat /\ Gap \in Nat /\ ColGap \in Nat /\ RowWidth(job, at, rows, row) \in Int
  BY <1>1, AtWork, SizesAreNumbers DEF LayoutTypeOK, Gap
<1>6. used[row] + Gap + Width(job.groups[at], s) <= RowWidth(job, at, rows, row)
  BY <1>4, <1>5 DEF Longest, Fits
<1>7. RowEmpty(row) => used[row] = 0 /\ Gap = 0
  BY <1>1, AtWork DEF FlowHolds, Gap
<1>8. ~RowEmpty(row) => Gap = ColGap
  BY DEF Gap
<1>9. ASSUME NEW p \in pills, NEW b \in p.s, NEW c \in queue
      PROVE  b < c
  <2>1. \A q \in pills : c \notin q.s
    BY <1>1, <1>9 DEF FlowHolds
  <2>2. QED
    BY <1>1, <1>2, <1>9, <2>1 DEF PlacedFirst
<1>10. ASSUME NEW p \in pills
       PROVE  p.row <= row /\ (p.row = row => p.x + p.w + ColGap <= used[row] + Gap)
  <2>1. p.row <= row /\ p.x + p.w <= used[p.row]
    BY <1>1, <1>10 DEF FlowHolds, PillsHold
  <2>2. p.x \in Nat /\ p.w \in Nat
    BY <1>1, <1>10 DEF LayoutTypeOK
  <2>3. p.row = row => ~RowEmpty(row)
    BY <1>10 DEF RowEmpty
  <2>4. QED
    BY <1>5, <1>8, <2>1, <2>2, <2>3
<1>11. QED
  BY <1>2, <1>3, <1>4, <1>5, <1>6, <1>7, <1>8, <1>9, <1>10

-----------------------------------------------------------------------------
(* A label is placed: _flow_rows() *)

\* A step of a flow is of no consequence to what is drawn, counted and given.
LEMMA FlowIsItsOwn ==
  ASSUME LayoutInv, Flowing,
         UNCHANGED <<job, stage, at, rows, spare, upTo, closeVars, pending, placed>>
  PROVE  RowsHold' /\ CloseHolds' /\ CountsHold' /\ PlacesHold'
<1>1. RowsHold /\ CountsHold /\ PlacesHold /\ stage # "close"
  BY DEF LayoutInv, Flowing
<1>2. RowsHold' /\ CloseHolds'
  BY <1>1 DEF RowsHold, CloseHolds
<1>3. CountsHold'
  BY <1>1 DEF CountsHold, closeVars, Done, Exact, PlacedOf, CountsOf
<1>4. PlacesHold'
  BY <1>1 DEF PlacesHold, First, Stacked
<1>5. QED
  BY <1>2, <1>3, <1>4

LEMMA NextRowKeeps ==
  ASSUME LayoutInv, NextRow
  PROVE  LayoutInv'
<1>1. row' = row + 1 /\ Flowing /\ row < rows
  BY DEF NextRow, StartsNext
<1>2. UNCHANGED <<job, stage, at, rows, queue, pills, used, hidden, spare, upTo, closeVars, pending, placed>>
  BY DEF NextRow
<1>3. LayoutTypeOK /\ stage # "end" /\ PillsHold /\ PlacedFirst /\ CodecsHold /\ FlowHolds
  BY <1>1 DEF LayoutInv, Flowing
<1>4. row \in Nat /\ rows \in Nat /\ row' \in 1..rows
  BY <1>1, <1>3 DEF LayoutTypeOK
<1>5. LayoutTypeOK'
  BY <1>2, <1>3, <1>4 DEF LayoutTypeOK, closeVars
<1>6. PillsHold' /\ PlacedFirst' /\ CodecsHold'
  BY <1>2, <1>3 DEF PillsHold, PlacedFirst, CodecsHold, Before
<1>7. FlowHolds'
  <2>1. \A p \in pills : p.row \in Nat
    BY <1>3 DEF LayoutTypeOK
  <2>2. QED
    BY <1>1, <1>2, <1>3, <1>4, <2>1 DEF FlowHolds, Flow, Flowing, RowEmpty, Shown
<1>8. QED
  BY <1>1, <1>2, <1>5, <1>6, <1>7, FlowIsItsOwn DEF LayoutInv

LEMMA FiniteSplit ==
  ASSUME NEW q, IsFiniteSet(q), NEW s \in SUBSET q
  PROVE  /\ IsFiniteSet(s) /\ IsFiniteSet(q \ s)
         /\ Cardinality(s) \in Nat /\ Cardinality(q \ s) \in Nat /\ Cardinality(q) \in Nat
         /\ Cardinality(q) = Cardinality(s) + Cardinality(q \ s)
<1>1. IsFiniteSet(s) /\ IsFiniteSet(q \ s)
  BY FS_Subset
<1>2. s \cup (q \ s) = q /\ s \cap (q \ s) = {} /\ Cardinality({}) = 0
  BY FS_EmptySet
<1>3. Cardinality(q) = Cardinality(s) + Cardinality(q \ s) - Cardinality(s \cap (q \ s))
  BY <1>1, <1>2, FS_Union
<1>4. Cardinality(s) \in Nat /\ Cardinality(q \ s) \in Nat /\ Cardinality(q) \in Nat
  BY <1>1, FS_CardinalityType
<1>5. QED
  BY <1>1, <1>2, <1>3, <1>4

\* What waits and what is shown are finite, and apart.
LEMMA ShownIsFinite ==
  ASSUME LayoutTypeOK, stage # "end", PillsHold
  PROVE  /\ Shown \subseteq Drawable(job, at, rows) /\ Shown \subseteq job.groups[at].badges
         /\ IsFiniteSet(Shown) /\ Cardinality(Shown) \in Nat
<1>1. Shown \subseteq Drawable(job, at, rows)
  BY DEF PillsHold, Shown
<1>2. Shown \subseteq job.groups[at].badges /\ IsFiniteSet(job.groups[at].badges)
  BY <1>1, AtWork
<1>3. QED
  BY <1>1, <1>2, FiniteSplit

LEMMA PlacePillKeeps ==
  ASSUME LayoutInv, PlacePill
  PROVE  LayoutInv'
<1> DEFINE g == job.groups[at]
           D == Drawable(job, at, rows)
<1>1. Flowing /\ UNCHANGED <<job, stage, at, rows, spare, upTo, closeVars, pending, placed>>
  BY DEF PlacePill
<1>2. LayoutTypeOK /\ stage # "end" /\ PillsHold /\ PlacedFirst /\ CodecsHold /\ FlowHolds /\ Flow
  BY <1>1 DEF LayoutInv, Flowing, Flow
<1>3. PICK s \in Beginnings \ {{}} :
        /\ Longest(s) /\ ~StartsNext(s)
        /\ LET pill == [row |-> row, s |-> s, x |-> used[row] + Gap, w |-> Width(job.groups[at], s)]
               over == s # Tokens /\ row = rows
           IN /\ pills' = pills \cup {pill}
              /\ used' = [used EXCEPT ![row] = pill.x + pill.w]
              /\ queue' = IF over THEN {} ELSE queue \ s
              /\ hidden' = IF over THEN hidden + Cardinality(queue \ s) ELSE hidden
              /\ row' = IF s # Tokens /\ row < rows THEN row + 1 ELSE row
  BY DEF PlacePill
<1> DEFINE x == used[row] + Gap
           w == Width(job.groups[at], s)
           pill == [row |-> row, s |-> s, x |-> x, w |-> w]
           over == s # Tokens /\ row = rows
<1>4. /\ pills' = pills \cup {pill}
      /\ used' = [used EXCEPT ![row] = x + w]
      /\ queue' = IF over THEN {} ELSE queue \ s
      /\ hidden' = IF over THEN hidden + Cardinality(queue \ s) ELSE hidden
      /\ row' = IF s # Tokens /\ row < rows THEN row + 1 ELSE row
  BY <1>3
<1>5. /\ s \subseteq queue /\ queue \subseteq D /\ s \in SUBSET Nat /\ s # {}
      /\ x \in Nat /\ w \in Nat \ {0}
      /\ x + w <= RowWidth(job, at, rows, row)
      /\ x = 0 \/ x >= ColGap
      /\ x > 0 => ~RowEmpty(row)
      /\ \A b \in s, c \in queue \ s : b < c
      /\ \A p \in pills : \A b \in p.s, c \in queue : b < c
      /\ \A p \in pills : p.row <= row /\ (p.row = row => p.x + p.w + ColGap <= x)
  BY <1>1, <1>3, PillFits
<1>6. /\ rows \in Nat \ {0} /\ row \in 1..rows /\ row' \in 1..rows /\ row <= row'
      /\ D \subseteq g.badges /\ IsFiniteSet(g.badges) /\ g.badges \subseteq Nat /\ g.heads \subseteq Nat
      /\ \A r : RowWidth(job, at, rows, r) \in Int
  BY <1>2, <1>4, AtWork
<1>7. pill \in [row : 1..rows, s : SUBSET Nat, x : Nat, w : Nat] /\ used' \in [1..rows -> Nat]
      /\ used'[row] = x + w /\ \A r \in 1..rows : r # row => used'[r] = used[r]
  BY <1>2, <1>4, <1>5, <1>6 DEF LayoutTypeOK
<1>8. pills \subseteq [row : 1..rows, s : SUBSET Nat, x : Nat, w : Nat] /\ hidden \in Nat
  BY <1>2 DEF LayoutTypeOK
<1>16. /\ pill.row = row /\ pill.s = s /\ pill.x = x /\ pill.w = w
       /\ pill \in pills' /\ pills \subseteq pills' /\ pills' = pills \cup {pill}
  BY <1>4
<1> HIDE DEF x, w, over, pill
<1>9. /\ IsFiniteSet(queue) /\ IsFiniteSet(s) /\ Cardinality(queue \ s) \in Nat /\ Cardinality(s) \in Nat
      /\ Cardinality(queue) = Cardinality(s) + Cardinality(queue \ s)
  <2>1. IsFiniteSet(queue)
    BY <1>5, <1>6, FS_Subset
  <2>2. QED
    BY <1>5, <2>1, FiniteSplit
<1>10. LayoutTypeOK'
  <2>1. queue' \subseteq Nat /\ hidden' \in Nat
    <3>1. queue \subseteq Nat /\ Cardinality(queue \ s) \in Nat /\ hidden \in Nat
      BY <1>2, <1>8, <1>9 DEF LayoutTypeOK
    <3>2. CASE over
      BY <1>4, <3>1, <3>2
    <3>3. CASE ~over
      BY <1>4, <3>1, <3>3
    <3>4. QED
      BY <3>2, <3>3
  <2>2. pills' \subseteq [row : 1..rows, s : SUBSET Nat, x : Nat, w : Nat]
    BY <1>7, <1>8, <1>16
  <2>3. QED
    BY <1>1, <1>2, <1>6, <1>7, <2>1, <2>2 DEF LayoutTypeOK, closeVars
<1>11. PillsHold'
  <2>1. \A p \in pills : Before(p, pill)
    BY <1>5, <1>16 DEF Before
  <2>2. ASSUME NEW p \in pills
        PROVE  /\ p.s \subseteq D /\ p.s # {} /\ p.w > 0 /\ (p.x = 0 \/ p.x >= ColGap)
               /\ p.x + p.w <= used'[p.row]
               /\ p.row < rows => used'[p.row] <= RowWidth(job, at, rows, p.row)
    <3>1. p.row \in 1..rows /\ p.x \in Nat /\ p.w \in Nat
      BY <1>8
    <3>2. CASE p.row = row
      <4>1. p.x + p.w + ColGap <= x /\ ColGap \in Nat
        BY <1>5, <3>2, SizesAreNumbers
      <4>2. QED
        BY <1>2, <1>5, <1>7, <3>1, <3>2, <4>1 DEF PillsHold
    <3>3. CASE p.row # row
      BY <1>2, <1>7, <3>1, <3>3 DEF PillsHold
    <3>4. QED
      BY <3>2, <3>3
  <2>3. ASSUME NEW p \in pills', NEW q \in pills'
        PROVE  p = q \/ Before(p, q) \/ Before(q, p)
    BY <1>2, <1>16, <2>1, <2>3 DEF PillsHold
  <2>4. /\ pill.s \subseteq D /\ pill.s # {} /\ pill.w > 0 /\ (pill.x = 0 \/ pill.x >= ColGap)
        /\ pill.x + pill.w <= used'[pill.row]
        /\ pill.row < rows => used'[pill.row] <= RowWidth(job, at, rows, pill.row)
    BY <1>5, <1>7, <1>16
  <2>5. ASSUME NEW p \in pills'
        PROVE  /\ p.s \subseteq D /\ p.s # {} /\ p.w > 0 /\ (p.x = 0 \/ p.x >= ColGap)
               /\ p.x + p.w <= used'[p.row]
               /\ p.row < rows => used'[p.row] <= RowWidth(job, at, rows, p.row)
    BY <1>16, <2>2, <2>4, <2>5
  <2>6. QED
    BY <1>1, <2>3, <2>5 DEF PillsHold, Before
<1>12. PlacedFirst'
  <2>1. SUFFICES ASSUME NEW p \in pills', NEW b \in p.s, NEW c \in D, \A q \in pills' : c \notin q.s
                 PROVE  b < c
    BY <1>1 DEF PlacedFirst
  <2>2. c \notin s /\ \A q \in pills : c \notin q.s
    BY <1>16, <2>1
  <2>3. CASE p \in pills
    BY <1>2, <2>1, <2>2, <2>3 DEF PlacedFirst
  <2>4. CASE p = pill
    <3>1. c \in queue \ s
      BY <1>1, <1>2, <2>1, <2>2 DEF FlowHolds, Flowing
    <3>2. QED
      BY <1>5, <1>16, <2>1, <2>4, <3>1
  <2>5. QED
    BY <1>16, <2>1, <2>3, <2>4
<1>13. CodecsHold'
  <2>1. SUFFICES ASSUME NEW p \in pills', p.row < rows, p.x > 0, Cardinality(p.s) = 1,
                        NEW b \in p.s, NEW c \in D, SameLabel(g, b, c)
                 PROVE  c <= b
    BY <1>1 DEF CodecsHold
  <2>2. CASE p \in pills
    BY <1>2, <2>1, <2>2 DEF CodecsHold
  <2>3. CASE p = pill
    <3>1. row < rows /\ ~RowEmpty(row) /\ Cardinality(s) = 1 /\ b \in s
      BY <1>5, <1>16, <2>1, <2>3
    <3>2. s = Tokens
      BY <1>3, <3>1 DEF StartsNext
    <3>3. b \in queue /\ b \in Nat /\ c \in Nat
      BY <1>5, <1>6, <2>1, <3>1
    <3>4. CASE c \in queue
      <4>1. c \in s
        <5>1. queue \in SUBSET Nat
          BY <1>5, <1>6
        <5>2. QED
          BY <1>6, <2>1, <3>1, <3>2, <3>4, <5>1, LabelEnds DEF Tokens
      <4>2. c = b
        <5>1. PICK m : s = {m}
          BY <1>9, <3>1, FS_Singleton
        <5>2. QED
          BY <3>1, <4>1, <5>1
      <4>3. QED
        BY <3>3, <4>2
    <3>5. CASE c \notin queue
      <4>1. PICK q \in pills : c \in q.s
        BY <1>1, <1>2, <2>1, <3>5 DEF FlowHolds, Flowing
      <4>2. QED
        BY <1>5, <3>3, <4>1
    <3>6. QED
      BY <3>4, <3>5
  <2>4. QED
    BY <1>16, <2>1, <2>2, <2>3
<1>14. FlowHolds'
  <2>1. queue' \subseteq queue /\ queue' \cap s = {}
    BY <1>4
  <2>2. \A p \in pills' : p.row <= row' /\ p.s \cap queue' = {} /\ used'[p.row] <= RowWidth(job, at, rows, p.row)
    <3>1. SUFFICES ASSUME NEW p \in pills'
                   PROVE p.row <= row' /\ p.s \cap queue' = {} /\ used'[p.row] <= RowWidth(job, at, rows, p.row)
      OBVIOUS
    <3>2. CASE p = pill
      BY <1>5, <1>6, <1>7, <1>16, <2>1, <3>2
    <3>3. CASE p \in pills
      <4>1. p.row \in 1..rows /\ p.row <= row /\ p.s \cap queue = {} /\ used[p.row] <= RowWidth(job, at, rows, p.row)
        BY <1>2, <1>8, <3>3 DEF FlowHolds
      <4>2. used'[p.row] <= RowWidth(job, at, rows, p.row)
        BY <1>5, <1>7, <4>1
      <4>3. QED
        BY <1>6, <2>1, <4>1, <4>2
    <3>4. QED
      BY <1>16, <3>1, <3>2, <3>3
  <2>3. \A r \in 1..rows : (\A p \in pills' : p.row # r) => used'[r] = 0
    <3>1. SUFFICES ASSUME NEW r \in 1..rows, \A p \in pills' : p.row # r
                   PROVE  used'[r] = 0
      OBVIOUS
    <3>2. r # row /\ \A p \in pills : p.row # r
      BY <1>16, <3>1
    <3>3. QED
      BY <1>2, <1>7, <3>2 DEF FlowHolds, RowEmpty
  <2>4. queue' # {} => \A c \in D : c \in queue' \/ \E p \in pills' : c \in p.s
    <3>1. SUFFICES ASSUME queue' # {}, NEW c \in D
                   PROVE  c \in queue' \/ \E p \in pills' : c \in p.s
      OBVIOUS
    <3>2. queue' = queue \ s
      BY <1>4, <3>1
    <3>3. c \in queue \/ \E p \in pills : c \in p.s
      BY <1>1, <1>2 DEF FlowHolds, Flowing
    <3>4. QED
      BY <1>16, <3>2, <3>3
  <2>5. hidden' + Cardinality(queue') + Cardinality(Shown') = Cardinality(g.badges)
    <3>1. Shown' = Shown \cup s /\ Shown \cap s = {}
      <4>1. Shown' = Shown \cup s
        BY <1>16 DEF Shown
      <4>2. \A p \in pills : p.s \cap s = {}
        BY <1>2, <1>5 DEF FlowHolds
      <4>3. Shown \cap s = {}
        BY <4>2 DEF Shown
      <4>4. QED
        BY <4>1, <4>3
    <3>2. IsFiniteSet(Shown) /\ Cardinality(Shown) \in Nat /\ Cardinality({}) = 0
      BY <1>2, ShownIsFinite, FS_EmptySet
    <3>3. Cardinality(Shown') = Cardinality(Shown) + Cardinality(s)
      <4>1. Cardinality(Shown \cup s) = Cardinality(Shown) + Cardinality(s) - Cardinality(Shown \cap s)
        BY <1>9, <3>2, FS_Union
      <4>2. Cardinality(Shown \cap s) = 0
        BY <3>1, <3>2
      <4>3. Cardinality(Shown') = Cardinality(Shown \cup s)
        BY <3>1
      <4>4. QED
        BY <1>9, <3>2, <4>1, <4>2, <4>3
    <3>4. hidden + Cardinality(queue) + Cardinality(Shown) = Cardinality(g.badges)
      BY <1>2 DEF FlowHolds
    <3>5. QED
      BY <1>4, <1>8, <1>9, <3>2, <3>3, <3>4
  <2>6. QED
    BY <1>1, <1>2, <1>5, <2>1, <2>2, <2>3, <2>4, <2>5 DEF FlowHolds, Flow, RowEmpty
<1>15. QED
  BY <1>1, <1>2, <1>10, <1>11, <1>12, <1>13, <1>14, FlowIsItsOwn DEF LayoutInv

LEMMA GiveUpKeeps ==
  ASSUME LayoutInv, GiveUp
  PROVE  LayoutInv'
<1>1. /\ Flowing /\ queue' = {} /\ hidden' = hidden + Cardinality(queue)
      /\ UNCHANGED <<job, stage, at, rows, row, pills, used, spare, upTo, closeVars, pending, placed>>
  BY DEF GiveUp
<1>2. LayoutTypeOK /\ stage # "end" /\ PillsHold /\ PlacedFirst /\ CodecsHold /\ FlowHolds /\ Flow
  BY <1>1 DEF LayoutInv, Flowing, Flow
<1>3. IsFiniteSet(queue) /\ Cardinality(queue) \in Nat /\ Cardinality({}) = 0 /\ hidden \in Nat
  <2>1. queue \subseteq job.groups[at].badges /\ IsFiniteSet(job.groups[at].badges)
    BY <1>2, AtWork DEF FlowHolds
  <2>2. QED
    BY <1>2, <2>1, FS_Subset, FS_CardinalityType, FS_EmptySet DEF LayoutTypeOK
<1>4. LayoutTypeOK'
  <2>1. queue' \subseteq Nat /\ hidden' \in Nat
    BY <1>1, <1>3
  <2>2. QED
    BY <1>1, <1>2, <2>1 DEF LayoutTypeOK, closeVars
<1>5. PillsHold' /\ PlacedFirst' /\ CodecsHold'
  BY <1>1, <1>2 DEF PillsHold, PlacedFirst, CodecsHold, Before
<1>6. FlowHolds'
  <2>1. Cardinality(Shown) \in Nat
    BY <1>2, ShownIsFinite
  <2>2. hidden' + Cardinality(queue') + Cardinality(Shown') = Cardinality(job.groups[at].badges)
    <3>1. hidden + Cardinality(queue) + Cardinality(Shown) = Cardinality(job.groups[at].badges)
      BY <1>2 DEF FlowHolds
    <3>2. Shown' = Shown /\ Cardinality(queue') = 0
      BY <1>1, <1>3 DEF Shown
    <3>3. QED
      BY <1>1, <1>3, <2>1, <3>1, <3>2
  <2>3. QED
    BY <1>1, <1>2, <2>2 DEF FlowHolds, Flow, RowEmpty
<1>7. QED
  BY <1>1, <1>2, <1>4, <1>5, <1>6, FlowIsItsOwn DEF LayoutInv

-----------------------------------------------------------------------------
(* A group's turn *)

-----------------------------------------------------------------------------
(* How many rows each group gets: _rows_wanted() *)

LEMMA FreshCounts ==
  ASSUME NEW j \in Jobs, NEW i \in 1..Len(j.groups), NEW n \in Nat \ {0}
  PROVE  /\ Drawable(j, i, n) \subseteq Nat
         /\ Cardinality(j.groups[i].badges \ Drawable(j, i, n)) \in Nat
         /\ Cardinality(Drawable(j, i, n)) \in Nat
         /\ Cardinality(j.groups[i].badges \ Drawable(j, i, n)) + Cardinality(Drawable(j, i, n))
              = Cardinality(j.groups[i].badges)
<1> DEFINE B == j.groups[i].badges
           D == Drawable(j, i, n)
<1>1. D \in SUBSET B /\ IsFiniteSet(B) /\ B \subseteq Nat
  BY WidthsAreNumbers
<1>2. D \subseteq Nat
  BY <1>1
<1> HIDE DEF B, D
<1>3. /\ Cardinality(D) \in Nat /\ Cardinality(B \ D) \in Nat
      /\ Cardinality(B) = Cardinality(D) + Cardinality(B \ D)
  BY <1>1, FiniteSplit
<1>4. Cardinality(B \ D) + Cardinality(D) = Cardinality(B)
  BY <1>3
<1>5. QED
  BY <1>2, <1>3, <1>4 DEF B, D

LEMMA FlowStarts ==
  ASSUME LayoutTypeOK, job' = job, NEW i \in 1..Len(job.groups), NEW n \in Nat \ {0}, StartFlow(i, n)
  PROVE  /\ at' = i /\ rows' = n /\ row' \in 1..rows' /\ used' \in [1..rows' -> Nat]
         /\ pills' = {} /\ queue' \subseteq Nat /\ hidden' \in Nat
         /\ PillsHold' /\ PlacedFirst' /\ CodecsHold' /\ FlowHolds'
<1>1. job \in Jobs
  BY DEF LayoutTypeOK
<1>2. /\ at' = i /\ rows' = n /\ row' = 1 /\ pills' = {}
      /\ used' = [r \in 1..n |-> 0] /\ queue' = Drawable(job, i, n)
      /\ hidden' = Cardinality(job.groups[i].badges \ Drawable(job, i, n))
  BY DEF StartFlow
<1>3. row' \in 1..rows' /\ used' \in [1..rows' -> Nat]
  BY <1>2
<1>4. queue' \subseteq Nat /\ hidden' \in Nat
  BY <1>1, <1>2, FreshCounts
<1>5. PillsHold' /\ PlacedFirst' /\ CodecsHold'
  BY <1>2 DEF PillsHold, PlacedFirst, CodecsHold
<1>6. hidden' + Cardinality(queue') + Cardinality(Shown') = Cardinality(job.groups[i].badges)
  <2>1. Shown' = {} /\ Cardinality({}) = 0
    BY <1>2, FS_EmptySet DEF Shown
  <2>2. QED
    BY <1>1, <1>2, <2>1, FreshCounts
<1>7. FlowHolds'
  BY <1>2, <1>6 DEF FlowHolds
<1>8. QED
  BY <1>2, <1>3, <1>4, <1>5, <1>7

LEMMA TryMoreKeeps ==
  ASSUME LayoutInv, TryMore
  PROVE  LayoutInv'
<1>1. /\ stage = "try" /\ StartFlow(at, rows + 1)
      /\ UNCHANGED <<job, stage, spare, upTo, closeVars, pending, placed>>
  BY DEF TryMore
<1>2. LayoutTypeOK /\ RowsHold /\ CountsHold /\ PlacesHold
  BY DEF LayoutInv
<1>3. at \in 1..Len(job.groups) /\ at \in 1..LastKept(job) /\ rows + 1 \in Nat \ {0}
  BY <1>1, <1>2, AtWork
<1>4. /\ at' = at /\ rows' = rows + 1 /\ row' \in 1..rows' /\ used' \in [1..rows' -> Nat]
      /\ pills' = {} /\ queue' \subseteq Nat /\ hidden' \in Nat
      /\ PillsHold' /\ PlacedFirst' /\ CodecsHold' /\ FlowHolds'
  BY <1>1, <1>2, <1>3, FlowStarts
<1>5. LayoutTypeOK'
  BY <1>1, <1>2, <1>3, <1>4 DEF LayoutTypeOK, closeVars
<1>6. RowsHold' /\ CloseHolds'
  BY <1>1, <1>2, <1>4 DEF RowsHold, CloseHolds
<1>7. CountsHold'
  BY <1>1, <1>2, <1>4 DEF CountsHold, closeVars, Done, Exact, PlacedOf, CountsOf
<1>8. PlacesHold'
  BY <1>1, <1>2, <1>4 DEF PlacesHold, First, Stacked
<1>9. QED
  BY <1>4, <1>5, <1>6, <1>7, <1>8 DEF LayoutInv

\* Each group below gets a row at least, and none more than there are.
LEMMA SizedKeeps ==
  ASSUME LayoutInv, Sized
  PROVE  LayoutInv'
<1> DEFINE extra == IF rows - 1 < spare THEN rows - 1 ELSE spare
           K == LastKept(job)
<1>1. /\ stage = "try" /\ UNCHANGED <<job, closeVars, pending, placed>>
      /\ spare' = spare - extra
      /\ upTo' = [upTo EXCEPT ![at] = upTo[at - 1] + 1 + extra]
      /\ IF at < K THEN stage' = "try" /\ StartFlow(at + 1, 1)
                   ELSE stage' = "lay" /\ StartFlow(at, 1 + extra)
  BY DEF Sized
<1>2. LayoutTypeOK /\ RowsHold /\ CountsHold /\ PlacesHold
  BY DEF LayoutInv
<1>3. /\ job \in Jobs /\ K \in Nat /\ K <= Len(job.groups) /\ Len(job.groups) \in Nat /\ at \in 1..K
      /\ rows \in Nat \ {0} /\ spare \in Nat /\ upTo \in [0..K -> Nat] /\ Slots(job) \in Nat
  BY <1>1, <1>2, AtWork, LastKeptIs, SlotsFit DEF LayoutTypeOK
<1> HIDE DEF K
<1>4. extra \in Nat /\ extra <= spare /\ spare' \in Nat
  BY <1>1, <1>3
<1> HIDE DEF extra
<1>5. at - 1 \in 0..K /\ at \in 0..K /\ upTo[at - 1] \in Nat
  BY <1>3
<1>6. /\ upTo' \in [0..K -> Nat] /\ upTo'[at] = upTo[at - 1] + 1 + extra
      /\ \A i \in 0..K : i # at => upTo'[i] = upTo[i]
  BY <1>1, <1>3, <1>4, <1>5
<1>7. \A k \in 0..at : \A i \in 0..(k - 1) : upTo'[i] < upTo'[k]
  <2>1. SUFFICES ASSUME NEW k \in 0..at, NEW i \in 0..(k - 1)
                 PROVE  upTo'[i] < upTo'[k]
    OBVIOUS
  <2>2. \A m \in 0..(at - 1) : \A l \in 0..(m - 1) : upTo[l] < upTo[m]
    BY <1>1, <1>2 DEF RowsHold
  <2>3. i \in 0..(at - 1) /\ i \in 0..K /\ k \in 0..K /\ i # at /\ upTo[i] \in Nat
    BY <1>3
  <2>4. CASE k = at
    <3>1. upTo[i] <= upTo[at - 1]
      <4>1. CASE i = at - 1
        BY <1>5, <4>1
      <4>2. CASE i # at - 1
        BY <1>3, <1>5, <2>2, <2>3, <4>2
      <4>3. QED
        BY <4>1, <4>2
    <3>2. QED
      BY <1>4, <1>5, <1>6, <2>3, <2>4, <3>1
  <2>5. CASE k # at
    BY <1>3, <1>6, <2>2, <2>3, <2>5
  <2>6. QED
    BY <2>4, <2>5
<1>8. /\ upTo'[0] = 0 /\ upTo'[at] + spare' + (K - at) = Slots(job)
  <2> DEFINE before == upTo[at - 1]
             upToHere == upTo'[at]
             rest == spare'
             slots == Slots(job)
  <2>1. upTo[0] = 0 /\ before + spare + (K - (at - 1)) = slots
    BY <1>1, <1>2 DEF RowsHold, K
  <2>2. upTo'[0] = 0
    BY <1>3, <1>6, <2>1
  <2>3. /\ upToHere = before + 1 + extra /\ rest = spare - extra
        /\ before \in Nat /\ slots \in Nat /\ spare \in Nat /\ extra \in Nat /\ K \in Nat /\ at \in Nat
    BY <1>1, <1>3, <1>4, <1>5, <1>6
  <2> HIDE DEF before, upToHere, rest, slots
  <2>4. upToHere + rest + (K - at) = slots
    BY <2>1, <2>3
  <2>5. QED
    BY <2>2, <2>4 DEF upToHere, rest, slots
<1>9. CASE at < K
  <2>1. stage' = "try" /\ StartFlow(at + 1, 1)
    BY <1>1, <1>9
  <2>2. at + 1 \in 1..K /\ at + 1 \in 1..Len(job.groups)
    BY <1>3, <1>9
  <2>3. /\ at' = at + 1 /\ rows' = 1 /\ row' \in 1..rows' /\ used' \in [1..rows' -> Nat]
        /\ pills' = {} /\ queue' \subseteq Nat /\ hidden' \in Nat
        /\ PillsHold' /\ PlacedFirst' /\ CodecsHold' /\ FlowHolds'
    BY <1>1, <1>2, <2>1, <2>2, FlowStarts
  <2>4. LayoutTypeOK'
    BY <1>1, <1>2, <1>3, <1>4, <1>6, <2>1, <2>2, <2>3 DEF LayoutTypeOK, closeVars, K
  <2>5. RowsHold' /\ CloseHolds'
    <3>1. at' - 1 = at /\ job' = job
      BY <1>1, <1>3, <2>3
    <3>2. QED
      BY <1>7, <1>8, <2>1, <3>1 DEF RowsHold, CloseHolds, K
  <2>6. CountsHold'
    BY <1>1, <1>2, <2>1 DEF CountsHold, closeVars, Done, Exact, PlacedOf, CountsOf
  <2>7. PlacesHold'
    BY <1>1, <1>2, <2>1 DEF PlacesHold, First, Stacked
  <2>8. QED
    BY <2>3, <2>4, <2>5, <2>6, <2>7 DEF LayoutInv
<1>10. CASE ~(at < K)
  <2>1. stage' = "lay" /\ StartFlow(at, 1 + extra) /\ at = K /\ 1 + extra \in Nat \ {0}
    BY <1>1, <1>3, <1>4, <1>10
  <2>2. at \in 1..Len(job.groups)
    BY <1>3
  <2>3. /\ at' = at /\ rows' = 1 + extra /\ row' \in 1..rows' /\ used' \in [1..rows' -> Nat]
        /\ pills' = {} /\ queue' \subseteq Nat /\ hidden' \in Nat
        /\ PillsHold' /\ PlacedFirst' /\ CodecsHold' /\ FlowHolds'
    BY <1>1, <1>2, <2>1, <2>2, FlowStarts
  <2>4. LayoutTypeOK'
    BY <1>1, <1>2, <1>3, <1>4, <1>6, <2>1, <2>2, <2>3 DEF LayoutTypeOK, closeVars, K
  <2>5. RowsHold' /\ CloseHolds'
    <3>1. upTo'[K] <= Slots(job)
      BY <1>3, <1>4, <1>6, <1>8, <2>1
    <3>2. rows' = upTo'[at] - upTo'[at - 1]
      <4>1. upTo'[at - 1] = upTo[at - 1]
        <5>1. at - 1 # at
          BY <1>3
        <5>2. QED
          BY <1>5, <1>6, <5>1
      <4>2. upTo'[at] = upTo[at - 1] + 1 + extra /\ upTo[at - 1] \in Nat
        BY <1>5, <1>6
      <4>3. QED
        BY <1>4, <2>3, <4>1, <4>2
    <3>3. at' = at /\ job' = job /\ stage' = "lay"
      BY <1>1, <2>1, <2>3
    <3>4. QED
      BY <1>7, <1>8, <2>1, <3>1, <3>2, <3>3 DEF RowsHold, CloseHolds, K
  <2>6. CountsHold'
    \* As before: no group has been laid out.
    <3>1. \A g : Done(g)' <=> Done(g)
      BY <1>1, <2>1, <2>3 DEF Done, K
    <3>2. QED
      BY <1>1, <1>2, <2>1, <3>1 DEF CountsHold, closeVars, Exact, PlacedOf, CountsOf
  <2>7. PlacesHold'
    <3>1. Stacked' = 0 /\ Stacked = 0
      BY <1>1, <1>3, <1>6, <2>1, <2>3 DEF Stacked, K
    <3>2. QED
      BY <1>1, <1>2, <3>1 DEF PlacesHold, First
  <2>8. QED
    BY <2>1, <2>3, <2>4, <2>5, <2>6, <2>7 DEF LayoutInv
<1>11. QED
  BY <1>9, <1>10

-----------------------------------------------------------------------------
(* The end of the last row *)

-----------------------------------------------------------------------------
(* The last row is closed: _close_row() *)

\* Only the group at work has its count changed.
LEMMA OthersKeepTheirs ==
  ASSUME LayoutTypeOK, CountsHold, stage \in {"lay", "close"}, stage' = "close",
         UNCHANGED <<job, at, pending, placed>>,
         \A g \in DOMAIN job.groups : g # at => count'[g] = count[g]
  PROVE  CountsHold'
<1>1. /\ at \in 1..LastKept(job) /\ at \in 1..Len(job.groups) /\ LastKept(job) \in Nat
      /\ DOMAIN job.groups = 1..Len(job.groups) /\ Len(job.groups) \in Nat
  BY AtWork
<1>2. \A g : Done(g)' <=> Done(g)
  BY DEF Done
<1>3. \A g \in DOMAIN job.groups : Done(g) => g # at
  BY <1>1 DEF Done
<1>4. \A g \in DOMAIN job.groups : g # at => (Exact(g)' <=> Exact(g))
  BY DEF Exact, PlacedOf, CountsOf
<1>5. QED
  BY <1>2, <1>3, <1>4 DEF CountsHold

LEMMA FlowedKeeps ==
  ASSUME LayoutInv, Flowed
  PROVE  LayoutInv'
<1>1. /\ stage = "lay" /\ stage' = "close" /\ queue = {}
      /\ count' = [count EXCEPT ![at] = hidden]
      /\ todo' = Counts(count') /\ tail' = {} /\ end' = used[rows]
      /\ UNCHANGED <<job, flowVars, spare, upTo, pending, placed>>
  BY DEF Flowed
<1>2. LayoutTypeOK /\ RowsHold /\ PillsHold /\ PlacedFirst /\ CodecsHold /\ FlowHolds /\ CountsHold /\ PlacesHold
  BY <1>1 DEF LayoutInv
<1>3. UNCHANGED <<at, rows, queue, row, pills, used, hidden>>
  BY <1>1 DEF flowVars
<1>4. /\ at \in 1..LastKept(job) /\ at \in DOMAIN job.groups /\ rows \in 1..rows /\ rows \in Nat \ {0}
      /\ \A r : RowWidth(job, at, rows, r) \in Int
  BY <1>1, <1>2, AtWork
<1>5. /\ hidden \in Nat /\ used \in [1..rows -> Nat] /\ count \in [DOMAIN job.groups -> Nat]
      /\ pills \subseteq [row : 1..rows, s : SUBSET Nat, x : Nat, w : Nat]
  BY <1>2 DEF LayoutTypeOK
<1>6. /\ count' \in [DOMAIN job.groups -> Nat] /\ count'[at] = hidden
      /\ \A g \in DOMAIN job.groups : g # at => count'[g] = count[g]
  BY <1>1, <1>4, <1>5
<1>7. todo' \subseteq DOMAIN job.groups
  BY <1>1, <1>2, <1>4 DEF LayoutTypeOK, Counts
<1>8. LayoutTypeOK'
  <2>1. end' \in Nat
    BY <1>1, <1>4, <1>5
  <2>2. QED
    BY <1>1, <1>2, <1>3, <1>6, <1>7, <2>1 DEF LayoutTypeOK
<1>9. RowsHold' /\ PillsHold' /\ PlacedFirst' /\ CodecsHold' /\ FlowHolds'
  BY <1>1, <1>2, <1>3 DEF RowsHold, PillsHold, PlacedFirst, CodecsHold, FlowHolds, Flow, Before
<1>10. CloseHolds'
  <2>1. count'[at] + Cardinality(Shown) = Cardinality(job.groups[at].badges)
    <3>1. hidden + Cardinality(queue) + Cardinality(Shown) = Cardinality(job.groups[at].badges)
      BY <1>1, <1>2 DEF FlowHolds, Flow
    <3>2. Cardinality(queue) = 0 /\ Cardinality(Shown) \in Nat
      BY <1>1, <1>2, FS_EmptySet, ShownIsFinite
    <3>3. QED
      BY <1>5, <1>6, <3>1, <3>2
  <2>2. Counts(count)' = Counts(count') /\ Shown' = Shown
    BY <1>1, <1>3 DEF Counts, Shown
  <2>3. \A p \in pills : p.row = rows => p.x + p.w <= end'
    BY <1>1, <1>2 DEF PillsHold
  <2>4. ~RowEmpty(rows) => end' <= RowWidth(job, at, rows, rows)
    BY <1>1, <1>2 DEF FlowHolds, Flow, RowEmpty
  <2>5. QED
    BY <1>1, <1>3, <2>1, <2>2, <2>3, <2>4 DEF CloseHolds, RowEmpty
<1>11. CountsHold'
  BY <1>1, <1>2, <1>3, <1>6, OthersKeepTheirs
<1>12. PlacesHold'
  BY <1>1, <1>2, <1>3 DEF PlacesHold, First, Stacked
<1>13. QED
  BY <1>1, <1>8, <1>9, <1>10, <1>11, <1>12 DEF LayoutInv

\* What is counted is some of a group's badges.
LEMMA CountIsWide ==
  ASSUME LayoutInv, stage = "close", NEW g \in Counts(count)
  PROVE  g \in DOMAIN job.groups /\ count[g] \in Nat \ {0} /\ CountWidth(count[g]) \in Nat \ {0}
<1>1. LayoutTypeOK /\ PillsHold /\ CloseHolds /\ CountsHold
  BY DEF LayoutInv
<1>2. at \in DOMAIN job.groups /\ job \in Jobs
  BY <1>1, AtWork
<1>3. g \in DOMAIN job.groups /\ (g \in pending \/ g = at) /\ count[g] > 0 /\ count[g] \in Nat
  BY <1>1, <1>2 DEF Counts, LayoutTypeOK
<1>4. CASE g = at
  <2>1. count[g] + Cardinality(Shown) = Cardinality(job.groups[g].badges)
    BY <1>1, <1>4 DEF CloseHolds
  <2>2. Cardinality(Shown) \in Nat /\ Cardinality(job.groups[g].badges) \in Nat
    BY <1>1, <1>4, ShownIsFinite, AtWork
  <2>3. count[g] \in 1..Cardinality(job.groups[g].badges)
    BY <1>3, <2>1, <2>2
  <2>4. QED
    BY <1>1, <1>3, <1>4, <2>3, AtWork
<1>5. CASE g \in pending
  <2>1. Exact(g)
    BY <1>1, <1>3, <1>5 DEF CountsHold
  <2>2. job.groups[g] \in Groups /\ IsFiniteSet(job.groups[g].badges) /\ PlacedOf(g) \subseteq job.groups[g].badges
    BY <1>2, <1>3, <2>1, JobIs, LayoutAssumption DEF Exact
  <2>3. Cardinality(PlacedOf(g)) \in Nat /\ Cardinality(job.groups[g].badges) \in Nat
    BY <2>2, FS_Subset, FS_CardinalityType
  <2>4. count[g] \in 1..Cardinality(job.groups[g].badges)
    BY <1>3, <2>1, <2>3 DEF Exact
  <2>5. QED
    BY <1>3, <2>2, <2>4, LayoutAssumption
<1>6. QED
  BY <1>3, <1>4, <1>5

LEMMA AddCountKeeps ==
  ASSUME LayoutInv, AddCount
  PROVE  LayoutInv'
<1>1. PICK g \in todo :
        /\ NextCount(g) /\ HasRoom(g)
        /\ tail' = tail \cup {[g |-> g, n |-> count[g], x |-> CountAt, w |-> CountWidth(count[g])]}
        /\ end' = CountAt + CountWidth(count[g])
        /\ todo' = todo \ {g}
  BY DEF AddCount
<1>2. stage = "close" /\ UNCHANGED <<job, stage, flowVars, spare, upTo, count, pending, placed>>
  BY DEF AddCount
<1>3. LayoutTypeOK /\ RowsHold /\ PillsHold /\ PlacedFirst /\ CodecsHold /\ FlowHolds /\ CloseHolds /\ CountsHold /\ PlacesHold
  BY <1>2 DEF LayoutInv
<1>4. UNCHANGED <<at, rows, queue, row, pills, used, hidden>>
  BY <1>2 DEF flowVars
<1> DEFINE x == CountAt
           w == CountWidth(count[g])
           new == [g |-> g, n |-> count[g], x |-> x, w |-> w]
<1>5. g \in Counts(count) /\ todo \subseteq Counts(count) /\ {t.g : t \in tail} \cup todo = Counts(count)
  BY <1>2, <1>3 DEF CloseHolds
<1>6. g \in DOMAIN job.groups /\ count[g] \in Nat \ {0} /\ w \in Nat \ {0}
  BY <1>2, <1>5, CountIsWide
<1>7. /\ end \in Nat /\ ColGap \in Nat /\ x \in Nat /\ todo \subseteq DOMAIN job.groups
      /\ tail \subseteq [g : DOMAIN job.groups, n : Nat, x : Nat, w : Nat]
      /\ pills \subseteq [row : 1..rows, s : SUBSET Nat, x : Nat, w : Nat]
  BY <1>3, SizesAreNumbers DEF LayoutTypeOK, CountAt
<1>8. x + w <= RowWidth(job, at, rows, rows) /\ RowWidth(job, at, rows, rows) \in Int
  BY <1>1, <1>2, <1>3, AtWork DEF HasRoom
<1>9. \A t \in tail : t.x + t.w + ColGap <= x /\ t.g < g
  <2>1. \A t \in tail : t.x + t.w <= end /\ t.g < g
    BY <1>2, <1>3 DEF CloseHolds
  <2>2. tail # {} => x = end + ColGap
    BY DEF CountAt
  <2>3. QED
    BY <1>7, <2>1, <2>2
<1>10. \A p \in pills : p.row = rows => p.x + p.w + ColGap <= x
  <2>1. \A p \in pills : p.row = rows => p.x + p.w <= end
    BY <1>2, <1>3 DEF CloseHolds
  <2>2. ~RowEmpty(rows) => x = end + ColGap
    BY DEF CountAt
  <2>3. QED
    BY <1>7, <2>1, <2>2 DEF RowEmpty
<1>11. \A h \in todo : g <= h
  BY <1>1 DEF NextCount
<1>12. new \in [g : DOMAIN job.groups, n : Nat, x : Nat, w : Nat]
  BY <1>6, <1>7
<1>13. /\ new.g = g /\ new.n = count[g] /\ new.x = x /\ new.w = w
       /\ tail' = tail \cup {new} /\ end' = x + w /\ todo' = todo \ {g}
  BY <1>1
<1> HIDE DEF x, w, new
<1>14. DOMAIN job.groups \subseteq Nat
  BY <1>2, <1>3, AtWork
<1>15. LayoutTypeOK'
  <2>1. /\ tail' \subseteq [g : DOMAIN job.groups, n : Nat, x : Nat, w : Nat]
        /\ end' \in Nat /\ todo' \subseteq DOMAIN job.groups
    BY <1>6, <1>7, <1>12, <1>13
  <2>2. QED
    BY <1>2, <1>3, <1>4, <2>1 DEF LayoutTypeOK
<1>16. RowsHold' /\ PillsHold' /\ PlacedFirst' /\ CodecsHold' /\ FlowHolds'
  BY <1>2, <1>3, <1>4 DEF RowsHold, PillsHold, PlacedFirst, CodecsHold, FlowHolds, Flow, Before
<1>17. CloseHolds'
  <2>1. count[at] + Cardinality(Shown) = Cardinality(job.groups[at].badges)
    BY <1>2, <1>3 DEF CloseHolds
  <2>2. {t.g : t \in tail'} \cup todo' = Counts(count)
    BY <1>1, <1>5, <1>13
  <2>3. ASSUME NEW t \in tail'
        PROVE  /\ t.n = count[t.g] /\ t.w > 0 /\ t.x + t.w <= end'
               /\ \A h \in todo' : t.g < h
               /\ \A p \in pills : p.row = rows => p.x + p.w + ColGap <= t.x
    <3>1. CASE t = new
      <4>1. \A h \in todo' : h \in Nat /\ g \in Nat /\ g <= h /\ g # h
        BY <1>6, <1>7, <1>11, <1>13, <1>14
      <4>2. QED
        BY <1>6, <1>7, <1>10, <1>13, <3>1, <4>1
    <3>2. CASE t \in tail
      <4>1. /\ t.n = count[t.g] /\ t.w > 0 /\ t.x \in Nat /\ t.w \in Nat
            /\ \A h \in todo : t.g < h
            /\ \A p \in pills : p.row = rows => p.x + p.w + ColGap <= t.x
        BY <1>2, <1>3, <1>7, <3>2 DEF CloseHolds
      <4>2. t.x + t.w <= end'
        BY <1>6, <1>7, <1>9, <1>13, <3>2, <4>1
      <4>3. QED
        BY <1>13, <4>1, <4>2
    <3>3. QED
      BY <1>13, <2>3, <3>1, <3>2
  <2>4. ASSUME NEW t \in tail', NEW u \in tail'
        PROVE  t = u \/ (t.g < u.g /\ t.x + t.w + ColGap <= u.x) \/ (u.g < t.g /\ u.x + u.w + ColGap <= t.x)
    <3>1. CASE t \in tail /\ u \in tail
      BY <1>2, <1>3, <3>1 DEF CloseHolds
    <3>2. CASE t = new \/ u = new
      BY <1>9, <1>13, <2>4, <3>2
    <3>3. QED
      BY <1>13, <2>4, <3>1, <3>2
  <2>5. \A p \in pills : p.row = rows => p.x + p.w <= end'
    BY <1>6, <1>7, <1>10, <1>13
  <2>6. tail' # {} /\ end' <= RowWidth(job, at, rows, rows)
    BY <1>8, <1>13
  <2>7. Counts(count)' = Counts(count) /\ Shown' = Shown
    BY <1>2, <1>4 DEF Counts, Shown
  <2>8. QED
    BY <1>2, <1>4, <2>1, <2>2, <2>3, <2>4, <2>5, <2>6, <2>7 DEF CloseHolds
<1>18. CountsHold'
  BY <1>2, <1>3, <1>4, OthersKeepTheirs
<1>19. PlacesHold'
  BY <1>2, <1>3, <1>4 DEF PlacesHold, First, Stacked
<1>20. QED
  BY <1>2, <1>15, <1>16, <1>17, <1>18, <1>19 DEF LayoutInv

LEMMA HasLast ==
  ASSUME NEW S \in SUBSET Nat, IsFiniteSet(S), S # {}
  PROVE  \E m \in S : \A b \in S : b <= m
<1> DEFINE above(k) == {b \in S : b > k}
           T == {above(k) : k \in S}
<1>1. T \subseteq FiniteSubsetsOf(S) /\ T # {}
  <2>1. \A k \in S : above(k) \in FiniteSubsetsOf(S)
    BY FS_Subset DEF FiniteSubsetsOf
  <2>2. QED
    BY <2>1
<1>2. IsWellFoundedOn(StrictSubsetOrdering(S), FiniteSubsetsOf(S))
  BY FS_StrictSubsetOrderingWellFounded
<1>3. PICK t \in T : \A u \in T : ~(<<u, t>> \in StrictSubsetOrdering(S))
  BY <1>1, <1>2, WFMin
<1>4. PICK m \in S : t = above(m)
  OBVIOUS
<1>5. ASSUME NEW b \in S, ~(b <= m)
      PROVE  FALSE
  <2>1. b > m /\ b \in Nat /\ m \in Nat
    BY <1>5
  <2>2. above(b) \subseteq above(m) /\ b \in above(m) /\ b \notin above(b)
    <3>1. \A c \in S : c > b => c > m
      BY <2>1
    <3>2. b > m /\ ~(b > b)
      BY <2>1
    <3>3. QED
      BY <3>1, <3>2
  <2>3. above(b) \in SUBSET S /\ above(m) \in SUBSET S
    OBVIOUS
  <2>4. <<above(b), above(m)>> \in StrictSubsetOrdering(S)
    BY <2>2, <2>3 DEF StrictSubsetOrdering
  <2>5. QED
    BY <1>3, <1>4, <2>4
<1>6. QED
  BY <1>5

\* The last pill of the row has the last of the badges shown, and loses it.
LEMMA TrimBadgeKeeps ==
  ASSUME LayoutInv, TrimBadge
  PROVE  LayoutInv'
<1> DEFINE g == job.groups[at]
           D == Drawable(job, at, rows)
<1>1. PICK p \in pills :
        /\ p.row = rows /\ \A q \in pills : q.row = rows => q.x <= p.x
        /\ LET s == {b \in p.s : \E c \in p.s : b < c}
               w == Width(job.groups[at], s)
           IN IF s = {}
                THEN /\ pills' = pills \ {p}
                     /\ used' = [used EXCEPT ![rows] = IF p.x = 0 THEN 0 ELSE p.x - ColGap]
                ELSE /\ pills' = (pills \ {p}) \cup {[p EXCEPT !.s = s, !.w = w]}
                     /\ used' = [used EXCEPT ![rows] = p.x + w]
  BY DEF TrimBadge
<1> DEFINE s == {b \in p.s : \E c \in p.s : b < c}
           w == Width(g, s)
           new == [p EXCEPT !.s = s, !.w = w]
<1>2. /\ stage = "close" /\ count' = CountedWithTrimmed /\ todo' = Counts(count') /\ tail' = {} /\ end' = used'[rows]
      /\ UNCHANGED <<job, stage, at, rows, queue, row, hidden, spare, upTo, pending, placed>>
  BY DEF TrimBadge
<1>3. LayoutTypeOK /\ RowsHold /\ PillsHold /\ PlacedFirst /\ CodecsHold /\ CloseHolds /\ CountsHold /\ PlacesHold
  BY <1>2 DEF LayoutInv
<1>4. /\ rows \in Nat \ {0} /\ rows \in 1..rows /\ at \in DOMAIN job.groups
      /\ D \subseteq g.badges /\ IsFiniteSet(g.badges) /\ g.badges \subseteq Nat
      /\ \A t : t \subseteq g.badges /\ t # {} => Width(g, t) \in Nat \ {0}
  BY <1>2, <1>3, AtWork
<1>5. /\ pills \subseteq [row : 1..rows, s : SUBSET Nat, x : Nat, w : Nat] /\ used \in [1..rows -> Nat]
      /\ count \in [DOMAIN job.groups -> Nat] /\ ColGap \in Nat
  BY <1>3, SizesAreNumbers DEF LayoutTypeOK
<1>6. /\ p.row = rows /\ p.s \subseteq D /\ p.s # {} /\ p.s \in SUBSET Nat /\ IsFiniteSet(p.s)
      /\ p.x \in Nat /\ p.w \in Nat \ {0} /\ (p.x = 0 \/ p.x >= ColGap)
  <2>1. p.s \subseteq D /\ p.s # {} /\ p.w > 0 /\ (p.x = 0 \/ p.x >= ColGap)
    BY <1>3 DEF PillsHold
  <2>2. p.row = rows /\ p.s \in SUBSET Nat /\ p.x \in Nat /\ p.w \in Nat
    BY <1>1, <1>5
  <2>3. IsFiniteSet(p.s)
    BY <1>4, <2>1, FS_Subset
  <2>4. QED
    BY <2>1, <2>2, <2>3
<1>7. PICK m \in p.s : \A b \in p.s : b <= m
  BY <1>6, HasLast
<1>8. s = p.s \ {m} /\ m \in Nat
  BY <1>6, <1>7
<1>9. ASSUME NEW q \in pills, q # p
      PROVE  Before(q, p) /\ (q.row = rows => q.x + q.w + ColGap <= p.x)
  <2>1. Before(q, p) \/ Before(p, q)
    BY <1>3, <1>9 DEF PillsHold
  <2>2. q.row \in 1..rows /\ q.x \in Nat /\ q.w \in Nat
    BY <1>5
  <2>3. ~Before(p, q)
    <3>1. SUFFICES ASSUME Before(p, q) PROVE FALSE
      OBVIOUS
    <3>2. q.row = rows
      BY <1>4, <1>6, <2>2, <3>1 DEF Before
    <3>3. p.x + p.w + ColGap <= q.x /\ q.x <= p.x
      BY <1>1, <1>6, <3>1, <3>2 DEF Before
    <3>4. QED
      BY <1>5, <1>6, <2>2, <3>3
  <2>4. QED
    BY <1>6, <2>1, <2>3 DEF Before
<1>10. \A q \in pills : q # p => m \notin q.s
  BY <1>6, <1>7, <1>8, <1>9 DEF Before
<1>11. s # {} => w \in Nat \ {0}
  BY <1>4, <1>6
<1>12. /\ new.row = rows /\ new.s = s /\ new.x = p.x /\ new.w = w
       /\ s # {} => new \in [row : 1..rows, s : SUBSET Nat, x : Nat, w : Nat]
  BY <1>4, <1>5, <1>6, <1>11
<1>13. /\ s = {} => pills' = pills \ {p} /\ used' = [used EXCEPT ![rows] = IF p.x = 0 THEN 0 ELSE p.x - ColGap]
       /\ s # {} => pills' = (pills \ {p}) \cup {new} /\ used' = [used EXCEPT ![rows] = p.x + w]
  BY <1>1
<1> HIDE DEF s, w, new
<1>14. ASSUME NEW q \in pills'
       PROVE  (q \in pills /\ q # p) \/ (s # {} /\ q = new)
  BY <1>13, <1>14
<1>15. \A q \in pills : q # p => q \in pills'
  BY <1>13
<1>16. s # {} => new \in pills'
  BY <1>13
<1>17. /\ used' \in [1..rows -> Nat]
       /\ s = {} => used'[rows] = IF p.x = 0 THEN 0 ELSE p.x - ColGap
       /\ s # {} => used'[rows] = p.x + w
       /\ \A r \in 1..rows : r # rows => used'[r] = used[r]
  <2>1. CASE s = {}
    <3> DEFINE cut == IF p.x = 0 THEN 0 ELSE p.x - ColGap
    <3>1. cut \in Nat
      BY <1>5, <1>6
    <3>2. used' = [used EXCEPT ![rows] = cut]
      BY <1>13, <2>1
    <3> HIDE DEF cut
    <3>3. used' \in [1..rows -> Nat] /\ used'[rows] = cut /\ \A r \in 1..rows : r # rows => used'[r] = used[r]
      BY <1>4, <1>5, <3>1, <3>2
    <3>4. QED
      BY <2>1, <3>3 DEF cut
  <2>2. CASE s # {}
    <3>1. p.x + w \in Nat
      BY <1>6, <1>11, <2>2
    <3>2. QED
      BY <1>4, <1>5, <1>13, <2>2, <3>1
  <2>3. QED
    BY <2>1, <2>2
<1>18. /\ count' \in [DOMAIN job.groups -> Nat] /\ count'[at] = count[at] + 1
       /\ \A h \in DOMAIN job.groups : h # at => count'[h] = count[h]
  BY <1>2, <1>4, <1>5 DEF CountedWithTrimmed
<1>19. \A q \in pills' : q.row = rows => q.x + q.w <= used'[rows]
  <2>1. SUFFICES ASSUME NEW q \in pills', q.row = rows
                 PROVE  q.x + q.w <= used'[rows]
    OBVIOUS
  <2>2. CASE q \in pills /\ q # p
    <3>1. q.x + q.w + ColGap <= p.x /\ q.x \in Nat /\ q.w \in Nat /\ q.w > 0
      BY <1>3, <1>5, <1>9, <2>1, <2>2 DEF PillsHold
    <3>2. CASE s = {}
      BY <1>5, <1>6, <1>17, <3>1, <3>2
    <3>3. CASE s # {}
      BY <1>5, <1>6, <1>11, <1>17, <3>1, <3>3
    <3>4. QED
      BY <3>2, <3>3
  <2>3. CASE s # {} /\ q = new
    BY <1>6, <1>11, <1>12, <1>17, <2>3
  <2>4. QED
    BY <1>14, <2>2, <2>3
<1>20. LayoutTypeOK'
  <2>1. pills' \subseteq [row : 1..rows, s : SUBSET Nat, x : Nat, w : Nat]
    BY <1>5, <1>12, <1>14
  <2>2. end' \in Nat /\ todo' \subseteq DOMAIN job.groups
    <3>1. todo' \subseteq pending \cup {at} /\ pending \subseteq DOMAIN job.groups
      BY <1>2, <1>3 DEF Counts, LayoutTypeOK
    <3>2. QED
      BY <1>2, <1>4, <1>17, <3>1
  <2>3. QED
    BY <1>2, <1>3, <1>17, <1>18, <2>1, <2>2 DEF LayoutTypeOK
<1>21. RowsHold' /\ FlowHolds'
  BY <1>2, <1>3 DEF RowsHold, FlowHolds, Flow
<1>22. PillsHold'
  <2>1. ASSUME NEW q \in pills'
        PROVE  /\ q.s \subseteq D /\ q.s # {} /\ q.w > 0 /\ (q.x = 0 \/ q.x >= ColGap)
               /\ q.x + q.w <= used'[q.row]
               /\ q.row < rows => used'[q.row] <= RowWidth(job, at, rows, q.row)
    <3>1. CASE q \in pills /\ q # p
      <4>1. q.row \in 1..rows
        BY <1>5, <3>1
      <4>2. CASE q.row = rows
        BY <1>3, <1>4, <1>19, <2>1, <3>1, <4>2 DEF PillsHold
      <4>3. CASE q.row # rows
        BY <1>3, <1>17, <3>1, <4>1, <4>3 DEF PillsHold
      <4>4. QED
        BY <4>2, <4>3
    <3>2. CASE s # {} /\ q = new
      <4>1. s \subseteq D
        BY <1>6, <1>8
      <4>2. QED
        BY <1>4, <1>6, <1>11, <1>12, <1>19, <2>1, <3>2, <4>1
    <3>3. QED
      BY <1>14, <2>1, <3>1, <3>2
  <2>2. \A q \in pills : q # p => Before(q, new)
    <3>1. \A q \in pills : q # p => Before(q, p)
      BY <1>9
    <3>2. QED
      BY <1>6, <1>8, <1>12, <3>1 DEF Before
  <2>3. ASSUME NEW q \in pills', NEW r \in pills'
        PROVE  q = r \/ Before(q, r) \/ Before(r, q)
    <3>1. CASE q \in pills /\ q # p /\ r \in pills /\ r # p
      BY <1>3, <3>1 DEF PillsHold
    <3>2. CASE q = new \/ r = new
      BY <1>14, <2>2, <2>3, <3>2
    <3>3. QED
      BY <1>14, <2>3, <3>1, <3>2
  <2>4. QED
    BY <1>2, <2>1, <2>3 DEF PillsHold, Before
<1>23. PlacedFirst'
  <2>1. SUFFICES ASSUME NEW q \in pills', NEW b \in q.s, NEW c \in D, \A r \in pills' : c \notin r.s
                 PROVE  b < c
    BY <1>2 DEF PlacedFirst
  <2>2. c \notin s
    BY <1>12, <1>16, <2>1
  <2>3. CASE c = m
    <3>1. CASE q \in pills /\ q # p
      BY <1>9, <2>1, <2>3, <3>1 DEF Before
    <3>2. CASE s # {} /\ q = new
      <4>1. b \in p.s /\ b # m /\ b \in Nat
        BY <1>6, <1>8, <1>12, <2>1, <3>2
      <4>2. QED
        BY <1>7, <1>8, <2>3, <4>1
    <3>3. QED
      BY <1>14, <2>1, <3>1, <3>2
  <2>4. CASE c # m
    <3>1. \A r \in pills : c \notin r.s
      BY <1>8, <1>15, <2>1, <2>2, <2>4
    <3>2. \E r \in pills : b \in r.s
      BY <1>8, <1>12, <1>14, <2>1
    <3>3. QED
      BY <1>3, <2>1, <3>1, <3>2 DEF PlacedFirst
  <2>5. QED
    BY <2>3, <2>4
<1>24. CodecsHold'
  <2>1. SUFFICES ASSUME NEW q \in pills', q.row < rows, q.x > 0, Cardinality(q.s) = 1,
                        NEW b \in q.s, NEW c \in D, SameLabel(g, b, c)
                 PROVE  c <= b
    BY <1>2 DEF CodecsHold
  <2>2. q # new
    BY <1>4, <1>12, <2>1
  <2>3. q \in pills
    BY <1>14, <2>1, <2>2
  <2>4. QED
    BY <1>3, <2>1, <2>3 DEF CodecsHold
<1>25. CloseHolds'
  <2>1. Shown' = Shown \ {m} /\ m \in Shown
    <3>1. ASSUME NEW b \in Shown, b # m
          PROVE  b \in Shown'
      <4>1. PICK q \in pills : b \in q.s
        BY <3>1 DEF Shown
      <4>2. CASE q = p
        <5>1. b \in s
          BY <1>8, <3>1, <4>1, <4>2
        <5>2. QED
          BY <1>12, <1>16, <5>1 DEF Shown
      <4>3. CASE q # p
        BY <1>15, <4>1, <4>3 DEF Shown
      <4>4. QED
        BY <4>2, <4>3
    <3>2. ASSUME NEW b \in Shown'
          PROVE  b \in Shown /\ b # m
      <4>1. PICK q \in pills' : b \in q.s
        BY <3>2 DEF Shown
      <4>2. CASE q \in pills /\ q # p
        BY <1>10, <4>1, <4>2 DEF Shown
      <4>3. CASE s # {} /\ q = new
        BY <1>8, <1>12, <4>1, <4>3 DEF Shown
      <4>4. QED
        BY <1>14, <4>2, <4>3
    <3>3. m \in Shown
      BY DEF Shown
    <3>4. QED
      BY <3>1, <3>2, <3>3
  <2>2. count'[at] + Cardinality(Shown') = Cardinality(g.badges)
    <3>1. IsFiniteSet(Shown) /\ Cardinality(Shown) \in Nat
      BY <1>2, <1>3, ShownIsFinite
    <3>2. Cardinality(Shown \ {m}) = Cardinality(Shown) - 1
      BY <2>1, <3>1, FS_RemoveElement
    <3>3. count[at] + Cardinality(Shown) = Cardinality(g.badges) /\ count[at] \in Nat
      BY <1>2, <1>3, <1>4, <1>5 DEF CloseHolds
    <3>4. Cardinality(Shown') = Cardinality(Shown) - 1
      BY <2>1, <3>2
    <3>5. QED
      BY <1>18, <3>1, <3>3, <3>4
  <2>3. Counts(count)' = Counts(count') /\ at \in todo'
    BY <1>2, <1>5, <1>4, <1>18 DEF Counts
  <2>4. \A q \in pills' : q.row = rows => q.x + q.w <= end'
    BY <1>2, <1>19
  <2>5. QED
    BY <1>2, <2>2, <2>3, <2>4 DEF CloseHolds
<1>26. CountsHold'
  BY <1>2, <1>3, <1>18, OthersKeepTheirs
<1>27. PlacesHold'
  BY <1>2, <1>3 DEF PlacesHold, First, Stacked
<1>28. QED
  BY <1>2, <1>20, <1>21, <1>22, <1>23, <1>24, <1>25, <1>26, <1>27 DEF LayoutInv

-----------------------------------------------------------------------------
(* What is drawn *)

-----------------------------------------------------------------------------
(* A group is drawn: _draw_rows() *)

\* How far row r is filled when it is drawn, the "+N" pills of the last one included.
Filled(r) == IF r = rows THEN end ELSE used[r]

\* The rows of a group are stacked on those of the groups drawn before it.
LEMMA GroupStacks ==
  ASSUME LayoutInv, stage = "close"
  PROVE  /\ upTo[LastKept(job)] \in Nat /\ upTo[at] \in Nat /\ upTo[at - 1] \in Nat /\ upTo[0] = 0
         /\ rows = upTo[at] - upTo[at - 1] /\ upTo[at] <= upTo[LastKept(job)]
         /\ at < LastKept(job) => upTo[at] < upTo[LastKept(job)]
         /\ First \in Nat /\ Stacked = upTo[LastKept(job)] - upTo[at]
<1>1. LayoutTypeOK /\ RowsHold
  BY DEF LayoutInv
<1>2. at \in 1..LastKept(job) /\ LastKept(job) \in Nat /\ upTo \in [0..LastKept(job) -> Nat]
  BY <1>1, AtWork DEF LayoutTypeOK
<1>3. upTo[LastKept(job)] \in Nat /\ upTo[at] \in Nat /\ upTo[at - 1] \in Nat
  BY <1>2
<1>4. at < LastKept(job) => upTo[at] < upTo[LastKept(job)]
  <2>1. \A k \in 0..LastKept(job) : \A i \in 0..(k - 1) : upTo[i] < upTo[k]
    BY <1>1 DEF RowsHold
  <2>2. QED
    BY <1>2, <2>1
<1>5. upTo[0] = 0 /\ rows = upTo[at] - upTo[at - 1]
  BY <1>1 DEF RowsHold
<1>6. Stacked = upTo[LastKept(job)] - upTo[at] /\ First \in Nat
  BY DEF Stacked, First
<1>7. upTo[at] <= upTo[LastKept(job)]
  BY <1>2, <1>3, <1>4
<1>8. QED
  BY <1>3, <1>4, <1>5, <1>6, <1>7

LEMMA BandsOfAGroup ==
  ASSUME LayoutInv, stage = "close", NEW r \in 1..rows
  PROVE  /\ Band(r) \in Nat /\ First + Stacked <= Band(r)
         /\ Band(r) < First + upTo[LastKept(job)] - upTo[at - 1]
         /\ Band(r) = 0 => RowWidth(job, at, rows, r) = job.w - 2 * Margin - Reserve(job)
         /\ \A q \in 1..rows : Band(r) = Band(q) => r = q
<1>1. LayoutTypeOK
  BY DEF LayoutInv
<1>2. /\ rows \in Nat \ {0} /\ at \in 1..LastKept(job) /\ LastKept(job) \in Nat /\ r \in Nat
  BY <1>1, AtWork
<1>3. /\ upTo[LastKept(job)] \in Nat /\ upTo[at] \in Nat /\ upTo[at - 1] \in Nat
      /\ rows = upTo[at] - upTo[at - 1] /\ upTo[at] <= upTo[LastKept(job)]
      /\ at < LastKept(job) => upTo[at] < upTo[LastKept(job)]
      /\ First \in Nat /\ Stacked = upTo[LastKept(job)] - upTo[at]
  BY GroupStacks
<1> DEFINE step(q) == IF job.tagsAt.bottom THEN rows - q ELSE q - 1
<1>4. \A q \in 1..rows : Band(q) = First + Stacked + step(q)
  BY <1>3 DEF Band, First
<1>5. \A q \in 1..rows : step(q) \in Nat /\ step(q) < rows
  BY <1>2
<1>6. \A q \in 1..rows : step(r) = step(q) => r = q
  BY <1>2
<1>7. step(r) = 0 => r = IF job.tagsAt.bottom THEN rows ELSE 1
  BY <1>2
<1> HIDE DEF step
<1>8. Band(r) = 0 => RowWidth(job, at, rows, r) = job.w - 2 * Margin - Reserve(job)
  <2>1. SUFFICES ASSUME Band(r) = 0
                 PROVE  RowWidth(job, at, rows, r) = job.w - 2 * Margin - Reserve(job)
    OBVIOUS
  <2>2. Stacked = 0 /\ step(r) = 0
    BY <1>3, <1>4, <1>5, <2>1
  <2>3. at = LastKept(job)
    BY <1>2, <1>3, <2>2
  <2>4. QED
    BY <1>7, <2>2, <2>3 DEF RowWidth
<1>9. Band(r) \in Nat /\ First + Stacked <= Band(r)
  BY <1>3, <1>4, <1>5
<1>10. Band(r) < First + upTo[LastKept(job)] - upTo[at - 1]
  BY <1>3, <1>4, <1>5
<1>11. \A q \in 1..rows : Band(r) = Band(q) => r = q
  BY <1>3, <1>4, <1>5, <1>6
<1>12. QED
  BY <1>8, <1>9, <1>10, <1>11

\* What fits its row is between the margins, and clear of the rating beside the row.
LEMMA StaysInside ==
  ASSUME LayoutInv, stage = "close", NEW r \in 1..rows, NEW x \in Nat, NEW w \in Nat,
         x + w <= Filled(r), Filled(r) <= RowWidth(job, at, rows, r)
  PROVE  /\ OnCanvas(r, x) \in Int
         /\ OnCanvas(r, x) >= Margin /\ OnCanvas(r, x) + w <= job.w - Margin
         /\ Band(r) = 0 => IF job.tagsAt.right THEN OnCanvas(r, x) >= Margin + Reserve(job)
                           ELSE OnCanvas(r, x) + w <= job.w - Margin - Reserve(job)
<1>1. LayoutTypeOK
  BY DEF LayoutInv
<1>2. job \in Jobs /\ job.w \in Nat /\ Margin \in Nat /\ Reserve(job) \in Nat
  BY <1>1, JobIs, SizesAreNumbers, ReserveIs DEF LayoutTypeOK
<1>3. Filled(r) \in Nat
  BY <1>1 DEF LayoutTypeOK, Filled
<1>4. RowWidth(job, at, rows, r) \in Int /\ RowWidth(job, at, rows, r) <= job.w - 2 * Margin
  BY <1>2 DEF RowWidth
<1>5. OnCanvas(r, x) = IF job.tagsAt.right THEN job.w - Margin - Filled(r) + x ELSE Margin + x
  BY DEF OnCanvas, Filled
<1>6. OnCanvas(r, x) \in Int
  BY <1>2, <1>3, <1>5
<1>7. OnCanvas(r, x) >= Margin /\ OnCanvas(r, x) + w <= job.w - Margin
  BY <1>2, <1>3, <1>4, <1>5
<1>8. Band(r) = 0 => IF job.tagsAt.right THEN OnCanvas(r, x) >= Margin + Reserve(job)
                     ELSE OnCanvas(r, x) + w <= job.w - Margin - Reserve(job)
  <2>1. Band(r) = 0 => RowWidth(job, at, rows, r) = job.w - 2 * Margin - Reserve(job)
    BY BandsOfAGroup
  <2>2. QED
    BY <1>2, <1>3, <1>5, <2>1
<1>9. QED
  BY <1>6, <1>7, <1>8

\* One after the other in the row is one after the other on the canvas.
LEMMA StaysApart ==
  ASSUME LayoutInv, stage = "close", NEW r \in 1..rows, NEW x \in Nat, NEW w \in Nat, NEW y \in Nat,
         x + w + ColGap <= y
  PROVE  OnCanvas(r, x) + w <= OnCanvas(r, y)
<1>1. LayoutTypeOK
  BY DEF LayoutInv
<1>2. job.w \in Nat /\ Margin \in Nat /\ ColGap \in Nat
  BY <1>1, JobIs, SizesAreNumbers DEF LayoutTypeOK
<1>3. Filled(r) \in Nat
  BY <1>1 DEF LayoutTypeOK, Filled
<1>4. \A z : OnCanvas(r, z) = IF job.tagsAt.right THEN job.w - Margin - Filled(r) + z ELSE Margin + z
  BY DEF OnCanvas, Filled
<1>5. QED
  BY <1>2, <1>3, <1>4

\* What is drawn has been made to fit.
LEMMA DrawnFits ==
  ASSUME LayoutInv, stage = "close",
         todo = {} \/ (RowEmpty(rows) /\ \E g \in todo : NextCount(g) /\ ~HasRoom(g))
  PROVE  /\ \A p \in pills : p.x + p.w <= Filled(p.row) /\ Filled(p.row) <= RowWidth(job, at, rows, p.row)
         /\ \A t \in tail : t.x + t.w <= Filled(rows) /\ Filled(rows) <= RowWidth(job, at, rows, rows)
<1>1. LayoutTypeOK /\ PillsHold /\ CloseHolds
  BY DEF LayoutInv
<1>2. ASSUME NEW p \in pills
      PROVE  p.x + p.w <= Filled(p.row) /\ Filled(p.row) <= RowWidth(job, at, rows, p.row)
  <2>1. p.row \in 1..rows /\ rows \in Nat
    BY <1>1, <1>2 DEF LayoutTypeOK
  <2>2. CASE p.row = rows
    <3>1. ~RowEmpty(rows)
      BY <1>2, <2>2 DEF RowEmpty
    <3>2. p.x + p.w <= end /\ end <= RowWidth(job, at, rows, rows)
      BY <1>1, <1>2, <2>2, <3>1 DEF CloseHolds
    <3>3. QED
      BY <2>2, <3>2 DEF Filled
  <2>3. CASE p.row # rows
    BY <1>1, <1>2, <2>1, <2>3 DEF PillsHold, Filled
  <2>4. QED
    BY <2>2, <2>3
<1>3. ASSUME NEW t \in tail
      PROVE  t.x + t.w <= Filled(rows) /\ Filled(rows) <= RowWidth(job, at, rows, rows)
  BY <1>1, <1>3 DEF CloseHolds, Filled
<1>4. QED
  BY <1>2, <1>3

\* A pill as it is drawn, and a "+N" pill.
Piece(p) == [g |-> at, s |-> p.s, n |-> 0, w |-> p.w, band |-> Band(p.row), x |-> OnCanvas(p.row, p.x)]
CountPiece(t) == [g |-> t.g, s |-> {}, n |-> t.n, w |-> t.w, band |-> Band(rows), x |-> OnCanvas(rows, t.x)]
Pieces == {Piece(p) : p \in pills} \cup {CountPiece(t) : t \in tail}

LEMMA PiecesFit ==
  ASSUME LayoutInv, stage = "close",
         todo = {} \/ (RowEmpty(rows) /\ \E g \in todo : NextCount(g) /\ ~HasRoom(g)),
         NEW q \in Pieces
  PROVE  /\ q \in [g : 1..Len(job.groups), s : SUBSET Nat, n : Nat, x : Int, w : Nat, band : Nat]
         /\ q.x >= Margin /\ q.x + q.w <= job.w - Margin
         /\ First + Stacked <= q.band /\ q.band < First + upTo[LastKept(job)] - upTo[at - 1]
         /\ q.band = 0 => IF job.tagsAt.right THEN q.x >= Margin + Reserve(job)
                          ELSE q.x + q.w <= job.w - Margin - Reserve(job)
<1>1. LayoutTypeOK
  BY DEF LayoutInv
<1>2. /\ at \in 1..Len(job.groups) /\ DOMAIN job.groups = 1..Len(job.groups) /\ rows \in 1..rows
      /\ pills \subseteq [row : 1..rows, s : SUBSET Nat, x : Nat, w : Nat]
      /\ tail \subseteq [g : DOMAIN job.groups, n : Nat, x : Nat, w : Nat]
  BY <1>1, AtWork DEF LayoutTypeOK
<1>3. CASE \E p \in pills : q = Piece(p)
  <2>1. PICK p \in pills : q = Piece(p)
    BY <1>3
  <2>2. p.row \in 1..rows /\ p.s \in SUBSET Nat /\ p.x \in Nat /\ p.w \in Nat
    BY <1>2
  <2>3. p.x + p.w <= Filled(p.row) /\ Filled(p.row) <= RowWidth(job, at, rows, p.row)
    BY DrawnFits
  <2>4. /\ q.g = at /\ q.s = p.s /\ q.n = 0 /\ q.w = p.w /\ q.band = Band(p.row) /\ q.x = OnCanvas(p.row, p.x)
        /\ q = [g |-> at, s |-> p.s, n |-> 0, w |-> p.w, band |-> Band(p.row), x |-> OnCanvas(p.row, p.x)]
    BY <2>1 DEF Piece
  <2>5. /\ OnCanvas(p.row, p.x) \in Int
        /\ OnCanvas(p.row, p.x) >= Margin /\ OnCanvas(p.row, p.x) + p.w <= job.w - Margin
        /\ Band(p.row) = 0 => IF job.tagsAt.right THEN OnCanvas(p.row, p.x) >= Margin + Reserve(job)
                              ELSE OnCanvas(p.row, p.x) + p.w <= job.w - Margin - Reserve(job)
    BY <2>2, <2>3, StaysInside
  <2>6. /\ Band(p.row) \in Nat /\ First + Stacked <= Band(p.row)
        /\ Band(p.row) < First + upTo[LastKept(job)] - upTo[at - 1]
    BY <2>2, BandsOfAGroup
  <2>7. q \in [g : 1..Len(job.groups), s : SUBSET Nat, n : Nat, x : Int, w : Nat, band : Nat]
    BY <1>2, <2>2, <2>4, <2>5, <2>6
  <2>8. QED
    BY <2>4, <2>5, <2>6, <2>7
<1>4. CASE \E t \in tail : q = CountPiece(t)
  <2>1. PICK t \in tail : q = CountPiece(t)
    BY <1>4
  <2>2. t.g \in 1..Len(job.groups) /\ t.n \in Nat /\ t.x \in Nat /\ t.w \in Nat
    BY <1>2
  <2>3. t.x + t.w <= Filled(rows) /\ Filled(rows) <= RowWidth(job, at, rows, rows)
    BY DrawnFits
  <2>4. /\ q.g = t.g /\ q.s = {} /\ q.n = t.n /\ q.w = t.w /\ q.band = Band(rows) /\ q.x = OnCanvas(rows, t.x)
        /\ q = [g |-> t.g, s |-> {}, n |-> t.n, w |-> t.w, band |-> Band(rows), x |-> OnCanvas(rows, t.x)]
    BY <2>1 DEF CountPiece
  <2>5. /\ OnCanvas(rows, t.x) \in Int
        /\ OnCanvas(rows, t.x) >= Margin /\ OnCanvas(rows, t.x) + t.w <= job.w - Margin
        /\ Band(rows) = 0 => IF job.tagsAt.right THEN OnCanvas(rows, t.x) >= Margin + Reserve(job)
                             ELSE OnCanvas(rows, t.x) + t.w <= job.w - Margin - Reserve(job)
    BY <1>2, <2>2, <2>3, StaysInside
  <2>6. /\ Band(rows) \in Nat /\ First + Stacked <= Band(rows)
        /\ Band(rows) < First + upTo[LastKept(job)] - upTo[at - 1]
    BY <1>2, BandsOfAGroup
  <2>7. q \in [g : 1..Len(job.groups), s : SUBSET Nat, n : Nat, x : Int, w : Nat, band : Nat]
    BY <2>2, <2>4, <2>5, <2>6
  <2>8. QED
    BY <2>4, <2>5, <2>6, <2>7
<1>5. QED
  BY <1>3, <1>4 DEF Pieces

LEMMA PiecesApart ==
  ASSUME LayoutInv, stage = "close", NEW q \in Pieces, NEW r \in Pieces
  PROVE  q = r \/ q.band # r.band \/ q.x + q.w <= r.x \/ r.x + r.w <= q.x
<1>1. LayoutTypeOK /\ PillsHold /\ CloseHolds
  BY DEF LayoutInv
<1>2. /\ rows \in 1..rows
      /\ pills \subseteq [row : 1..rows, s : SUBSET Nat, x : Nat, w : Nat]
      /\ tail \subseteq [g : DOMAIN job.groups, n : Nat, x : Nat, w : Nat]
  BY <1>1, AtWork DEF LayoutTypeOK
<1>3. \A p \in pills : /\ Piece(p).band = Band(p.row) /\ Piece(p).x = OnCanvas(p.row, p.x) /\ Piece(p).w = p.w
                       /\ p.row \in 1..rows /\ p.x \in Nat /\ p.w \in Nat
  BY <1>2 DEF Piece
<1>4. \A t \in tail : /\ CountPiece(t).band = Band(rows) /\ CountPiece(t).x = OnCanvas(rows, t.x) /\ CountPiece(t).w = t.w
                      /\ t.x \in Nat /\ t.w \in Nat
  BY <1>2 DEF CountPiece
<1>5. ASSUME NEW p \in pills, NEW u \in pills
      PROVE  p = u \/ Piece(p).band # Piece(u).band \/ Piece(p).x + Piece(p).w <= Piece(u).x
               \/ Piece(u).x + Piece(u).w <= Piece(p).x
  <2>1. SUFFICES ASSUME p # u, Band(p.row) = Band(u.row)
                 PROVE  \/ OnCanvas(p.row, p.x) + p.w <= OnCanvas(u.row, u.x)
                        \/ OnCanvas(u.row, u.x) + u.w <= OnCanvas(p.row, p.x)
    BY <1>3
  <2>2. p.row = u.row
    BY <1>3, <2>1, BandsOfAGroup
  <2>3. p.x + p.w + ColGap <= u.x \/ u.x + u.w + ColGap <= p.x
    BY <1>1, <2>1, <2>2 DEF PillsHold, Before
  <2>4. QED
    BY <1>3, <2>2, <2>3, StaysApart
<1>6. ASSUME NEW p \in pills, NEW t \in tail
      PROVE  Piece(p).band # CountPiece(t).band \/ Piece(p).x + Piece(p).w <= CountPiece(t).x
  <2>1. SUFFICES ASSUME Band(p.row) = Band(rows)
                 PROVE  OnCanvas(p.row, p.x) + p.w <= OnCanvas(rows, t.x)
    BY <1>3, <1>4
  <2>2. p.row = rows
    BY <1>2, <1>3, <2>1, BandsOfAGroup
  <2>3. p.x + p.w + ColGap <= t.x
    BY <1>1, <2>2 DEF CloseHolds
  <2>4. QED
    BY <1>3, <1>4, <2>2, <2>3, StaysApart
<1>7. ASSUME NEW t \in tail, NEW u \in tail
      PROVE  t = u \/ CountPiece(t).x + CountPiece(t).w <= CountPiece(u).x
               \/ CountPiece(u).x + CountPiece(u).w <= CountPiece(t).x
  <2>1. t = u \/ t.x + t.w + ColGap <= u.x \/ u.x + u.w + ColGap <= t.x
    BY <1>1 DEF CloseHolds
  <2>2. QED
    BY <1>2, <1>4, <2>1, StaysApart
<1>8. PICK p : (p \in pills /\ q = Piece(p)) \/ (p \in tail /\ q = CountPiece(p))
  BY DEF Pieces
<1>9. PICK u : (u \in pills /\ r = Piece(u)) \/ (u \in tail /\ r = CountPiece(u))
  BY DEF Pieces
<1>10. CASE p \in pills /\ q = Piece(p) /\ u \in pills /\ r = Piece(u)
  BY <1>5, <1>10
<1>11. CASE p \in pills /\ q = Piece(p) /\ u \in tail /\ r = CountPiece(u)
  BY <1>6, <1>11
<1>12. CASE p \in tail /\ q = CountPiece(p) /\ u \in pills /\ r = Piece(u)
  BY <1>6, <1>12
<1>13. CASE p \in tail /\ q = CountPiece(p) /\ u \in tail /\ r = CountPiece(u)
  BY <1>7, <1>13
<1>14. QED
  BY <1>8, <1>9, <1>10, <1>11, <1>12, <1>13

LEMMA DrawKeeps ==
  ASSUME LayoutInv, Draw
  PROVE  LayoutInv'
<1> DEFINE K == LastKept(job)
           room == First + upTo[K] - upTo[at - 1]
<1>1. /\ stage = "close"
      /\ todo = {} \/ (RowEmpty(rows) /\ \E g \in todo : NextCount(g) /\ ~HasRoom(g))
      /\ pending' = todo
      /\ placed' = placed \cup Pieces
      /\ IF at > 1 THEN stage' = "lay" /\ StartFlow(at - 1, upTo[at - 1] - upTo[at - 2])
                   ELSE stage' = "end" /\ UNCHANGED flowVars
      /\ UNCHANGED <<job, spare, upTo, closeVars>>
  BY DEF Draw, Pieces, Piece, CountPiece
<1>2. LayoutTypeOK /\ RowsHold /\ PillsHold /\ CloseHolds /\ CountsHold /\ PlacesHold
  BY <1>1 DEF LayoutInv
<1>3. /\ job \in Jobs /\ at \in 1..K /\ at \in 1..Len(job.groups) /\ K \in Nat /\ Len(job.groups) \in Nat
      /\ K <= Len(job.groups) /\ DOMAIN job.groups = 1..Len(job.groups)
      /\ upTo \in [0..K -> Nat]
  BY <1>1, <1>2, AtWork, LastKeptIs DEF LayoutTypeOK
<1>4. /\ upTo[K] \in Nat /\ upTo[at] \in Nat /\ upTo[at - 1] \in Nat /\ upTo[0] = 0
      /\ rows = upTo[at] - upTo[at - 1] /\ upTo[at] <= upTo[K] /\ rows \in Nat \ {0}
      /\ First \in Nat /\ Stacked = upTo[K] - upTo[at]
  BY <1>1, <1>2, GroupStacks, AtWork
<1>5. todo \subseteq Counts(count) /\ {t.g : t \in tail} \cup todo = Counts(count)
  BY <1>1, <1>2 DEF CloseHolds
<1>6. \A g : g \in Counts(count) <=> g \in pending \cup {at} /\ count[g] > 0
  BY DEF Counts
<1>7. ASSUME NEW q \in Pieces
      PROVE  /\ q \in [g : 1..Len(job.groups), s : SUBSET Nat, n : Nat, x : Int, w : Nat, band : Nat]
             /\ q.x >= Margin /\ q.x + q.w <= job.w - Margin
             /\ First + Stacked <= q.band /\ q.band < room
             /\ q.band = 0 => IF job.tagsAt.right THEN q.x >= Margin + Reserve(job)
                              ELSE q.x + q.w <= job.w - Margin - Reserve(job)
  BY <1>1, <1>7, PiecesFit
<1> HIDE DEF K
\* Whatever the next stage is, this group is done and those before it are not.
<1>8. \A g \in 1..Len(job.groups) : (Done(g)' <=> g >= at) /\ (Done(g) <=> g > at)
  <2>1. CASE at > 1
    <3>1. at' = at - 1 /\ stage' = "lay" /\ job' = job
      BY <1>1, <2>1 DEF StartFlow
    <3>2. QED
      BY <1>1, <1>3, <2>1, <3>1 DEF Done, K
  <2>2. CASE ~(at > 1)
    BY <1>1, <1>3, <2>2 DEF Done, K
  <2>3. QED
    BY <2>1, <2>2
<1>9. First' = First /\ First' + Stacked' = room
  <2>1. CASE at > 1
    <3>1. at' = at - 1 /\ stage' = "lay" /\ job' = job /\ upTo' = upTo
      BY <1>1, <2>1 DEF StartFlow
    <3>2. QED
      BY <1>4, <3>1 DEF First, Stacked, K
  <2>2. CASE ~(at > 1)
    <3>1. at = 1 /\ stage' = "end" /\ job' = job /\ upTo' = upTo
      BY <1>1, <1>3, <2>2
    <3>2. QED
      BY <1>4, <3>1 DEF First, Stacked, K
  <2>3. QED
    BY <2>1, <2>2
<1>10. placed' \subseteq [g : 0..Len(job.groups), s : SUBSET Nat, n : Nat, x : Int, w : Nat, band : Nat]
  <2>1. \A q \in Pieces : q \in [g : 0..Len(job.groups), s : SUBSET Nat, n : Nat, x : Int, w : Nat, band : Nat]
    BY <1>3, <1>7
  <2>2. QED
    BY <1>1, <1>2, <2>1 DEF LayoutTypeOK
<1>11. PlacesHold'
  <2>1. ASSUME NEW q \in placed'
        PROVE  /\ q.g = 0 => job.rated /\ q = [g |-> 0, s |-> {}, n |-> 0, w |-> job.ratingW, band |-> 0,
                       x |-> IF job.ratingAt.right THEN job.w - Margin - job.ratingW ELSE Margin]
               /\ q.g > 0 =>
                    /\ q.x >= Margin /\ q.x + q.w <= job.w - Margin
                    /\ First <= q.band /\ q.band < room
                    /\ q.band = 0 => IF job.tagsAt.right THEN q.x >= Margin + Reserve(job)
                                     ELSE q.x + q.w <= job.w - Margin - Reserve(job)
    <3>1. CASE q \in placed
      <4>1. q.band \in Nat /\ q.g \in Nat
        BY <1>2, <3>1 DEF LayoutTypeOK
      <4>2. First + Stacked <= room
        BY <1>4
      <4>3. q.g > 0 => q.band < room
        BY <1>2, <1>4, <3>1, <4>1, <4>2 DEF PlacesHold
      <4>4. QED
        BY <1>2, <3>1, <4>3 DEF PlacesHold
    <3>2. CASE q \in Pieces
      <4>1. q.g > 0 /\ q.band \in Nat
        BY <1>7, <3>2
      <4>2. First <= q.band
        BY <1>4, <1>7, <3>2, <4>1
      <4>3. QED
        BY <1>7, <3>2, <4>1, <4>2
    <3>3. QED
      BY <1>1, <2>1, <3>1, <3>2
  <2>2. ASSUME NEW q \in placed', q.g > 0, NEW r \in placed'
        PROVE  q = r \/ r.g = 0 \/ r.band # q.band \/ q.x + q.w <= r.x \/ r.x + r.w <= q.x
    <3>1. CASE q \in placed /\ r \in placed
      BY <1>2, <2>2, <3>1 DEF PlacesHold
    <3>2. CASE q \in Pieces /\ r \in Pieces
      BY <1>1, <3>2, PiecesApart
    <3>3. CASE q \in placed /\ r \in Pieces
      <4>1. q.band < First + Stacked /\ First + Stacked <= r.band
        BY <1>2, <1>7, <2>2, <3>3 DEF PlacesHold
      <4>2. q.band \in Nat /\ r.band \in Nat
        BY <1>10, <2>2
      <4>3. QED
        BY <1>4, <4>1, <4>2
    <3>4. CASE q \in Pieces /\ r \in placed
      <4>1. r.g = 0 \/ r.g > 0
        BY <1>10, <2>2
      <4>2. r.g > 0 => r.band < First + Stacked
        BY <1>2, <3>4 DEF PlacesHold
      <4>3. First + Stacked <= q.band /\ q.band \in Nat /\ r.band \in Nat
        BY <1>7, <1>10, <2>2, <3>4
      <4>4. QED
        BY <1>4, <4>1, <4>2, <4>3
    <3>5. QED
      BY <1>1, <2>2, <3>1, <3>2, <3>3, <3>4
  <2>3. job' = job
    BY <1>1
  <2>4. QED
    BY <1>9, <2>1, <2>2, <2>3 DEF PlacesHold
<1>12. CountsHold'
  <2> DEFINE counted(g) == {CountPiece(t) : t \in {u \in tail : u.g = g}}
  <2>1. \A p \in pills : Piece(p).g = at /\ Piece(p).s = p.s /\ Piece(p).n = 0
    BY DEF Piece
  <2>2. \A t \in tail : /\ CountPiece(t).g = t.g /\ CountPiece(t).s = {} /\ CountPiece(t).n = t.n
                        /\ t.n = count[t.g] /\ t.g \in Counts(count) /\ \A u \in tail : u.g = t.g => u = t
    <3>1. \A t \in tail : CountPiece(t).g = t.g /\ CountPiece(t).s = {} /\ CountPiece(t).n = t.n
      BY DEF CountPiece
    <3>2. \A t \in tail : t.n = count[t.g] /\ t.g \in Counts(count)
      BY <1>1, <1>2, <1>5 DEF CloseHolds
    <3>3. \A t \in tail : t.g \in Nat
      BY <1>2, <1>3 DEF LayoutTypeOK
    <3>4. \A t, u \in tail : t = u \/ t.g < u.g \/ u.g < t.g
      BY <1>1, <1>2 DEF CloseHolds
    <3>5. QED
      BY <3>1, <3>2, <3>3, <3>4
  <2>3. \A g \in 1..Len(job.groups) : g <= at => \A p \in placed : p.g # g
    BY <1>2, <1>3, <1>8 DEF CountsHold
  <2>4. \A g \in 1..Len(job.groups) : g > at => Exact(g)
    BY <1>2, <1>3, <1>8 DEF CountsHold
  <2>5. \A g \in pending : g > at
    BY <1>2, <1>3, <1>8 DEF CountsHold, LayoutTypeOK
  <2>14. \A g \in Counts(count) : g \in 1..Len(job.groups) /\ g >= at
    <3>1. pending \subseteq 1..Len(job.groups)
      BY <1>2, <1>3 DEF LayoutTypeOK
    <3>2. \A g \in pending : g \in 1..Len(job.groups) /\ g >= at
      BY <1>3, <2>5, <3>1
    <3>3. at \in 1..Len(job.groups) /\ at >= at
      BY <1>3
    <3>4. QED
      BY <1>6, <3>2, <3>3
  <2>6. \A q \in placed' : q \in placed \/ (\E p \in pills : q = Piece(p)) \/ (\E t \in tail : q = CountPiece(t))
    BY <1>1 DEF Pieces
  <2>7. \A g \in 1..Len(job.groups) : PlacedOf(g)' = IF g = at THEN Shown ELSE PlacedOf(g)
    <3>1. \A p \in pills : Piece(p) \in placed'
      BY <1>1 DEF Pieces
    <3>2. TAKE g \in 1..Len(job.groups)
    <3>3. PlacedOf(g) \subseteq PlacedOf(g)'
      BY <1>1 DEF PlacedOf
    <3>4. g = at => Shown \subseteq PlacedOf(g)' /\ PlacedOf(g) = {}
      <4>1. g = at => PlacedOf(g) = {}
        BY <1>3, <2>3 DEF PlacedOf
      <4>2. g = at => Shown \subseteq PlacedOf(g)'
        BY <2>1, <3>1 DEF PlacedOf, Shown
      <4>3. QED
        BY <4>1, <4>2
    <3>5. ASSUME NEW b \in PlacedOf(g)'
          PROVE  b \in PlacedOf(g) \/ (g = at /\ b \in Shown)
      <4>1. PICK q \in placed' : q.g = g /\ b \in q.s
        BY <3>5 DEF PlacedOf
      <4>2. CASE q \in placed
        BY <4>1, <4>2 DEF PlacedOf
      <4>3. CASE \E p \in pills : q = Piece(p)
        BY <2>1, <4>1, <4>3 DEF Shown
      <4>4. CASE \E t \in tail : q = CountPiece(t)
        BY <2>2, <4>1, <4>4
      <4>5. QED
        BY <2>6, <4>2, <4>3, <4>4
    <3>6. QED
      BY <3>3, <3>4, <3>5
  <2>8. \A g \in 1..Len(job.groups) : CountsOf(g)' = CountsOf(g) \cup counted(g)
    <3>1. TAKE g \in 1..Len(job.groups)
    <3>2. ASSUME NEW t \in tail, t.g = g
          PROVE  CountPiece(t) \in CountsOf(g)'
      <4>1. CountPiece(t) \in placed'
        BY <1>1 DEF Pieces
      <4>2. CountPiece(t).n > 0 /\ CountPiece(t).g = g
        BY <1>6, <2>2, <3>2
      <4>3. QED
        BY <4>1, <4>2 DEF CountsOf
    <3>3. ASSUME NEW q \in CountsOf(g)'
          PROVE  q \in CountsOf(g) \cup counted(g)
      <4>1. q \in placed' /\ q.g = g /\ q.n > 0
        BY <3>3 DEF CountsOf
      <4>2. CASE q \in placed
        BY <4>1, <4>2 DEF CountsOf
      <4>3. CASE \E p \in pills : q = Piece(p)
        BY <2>1, <4>1, <4>3
      <4>4. CASE \E t \in tail : q = CountPiece(t)
        BY <2>2, <4>1, <4>4
      <4>5. QED
        BY <2>6, <4>1, <4>2, <4>3, <4>4
    <3>4. CountsOf(g) \subseteq CountsOf(g)'
      BY <1>1 DEF CountsOf
    <3>5. QED
      BY <3>2, <3>3, <3>4
  <2>9. ASSUME NEW g \in 1..Len(job.groups), g >= at
        PROVE  Exact(g)'
    <3>1. /\ PlacedOf(g)' \subseteq job.groups[g].badges
          /\ Cardinality(PlacedOf(g)') + count[g] = Cardinality(job.groups[g].badges)
      <4>1. CASE g = at
        <5>1. /\ Shown \subseteq job.groups[g].badges /\ Cardinality(Shown) \in Nat /\ count[g] \in Nat
              /\ count[g] + Cardinality(Shown) = Cardinality(job.groups[g].badges)
          BY <1>1, <1>2, <1>3, <4>1, ShownIsFinite DEF CloseHolds, LayoutTypeOK
        <5>2. PlacedOf(g)' = Shown
          BY <2>7, <4>1
        <5>3. QED
          BY <5>1, <5>2
      <4>2. CASE g # at
        <5>1. Exact(g) /\ PlacedOf(g)' = PlacedOf(g)
          BY <1>3, <2>4, <2>7, <2>9, <4>2
        <5>2. QED
          BY <5>1 DEF Exact
      <4>3. QED
        BY <4>1, <4>2
    <3>2. CASE g \in Counts(count)
      <4>1. CountsOf(g) = {}
        <5>1. CASE g = at
          BY <1>3, <2>3, <5>1 DEF CountsOf
        <5>2. CASE g \in pending
          BY <1>6, <2>4, <2>5, <3>2, <5>2 DEF Exact
        <5>3. QED
          BY <1>6, <3>2, <5>1, <5>2
      <4>2. CountsOf(g)' = counted(g)
        BY <2>8, <4>1
      <4>3. CASE g \in todo
        <5>1. \A t \in tail : t.g < g
          BY <1>1, <1>2, <4>3 DEF CloseHolds
        <5>2. \A t \in tail : t.g # g
          BY <1>2, <1>3, <5>1 DEF LayoutTypeOK
        <5>3. counted(g) = {}
          BY <5>2
        <5>4. CountsOf(g)' = {} /\ pending' = todo /\ count' = count /\ job' = job
          BY <1>1, <4>2, <5>3 DEF closeVars
        <5>5. QED
          BY <3>1, <4>3, <5>4 DEF Exact
      <4>4. CASE g \notin todo
        <5>1. PICK t \in tail : t.g = g
          BY <1>5, <3>2, <4>4
        <5>2. counted(g) = {CountPiece(t)}
          BY <2>2, <5>1
        <5>3. /\ CountsOf(g)' = {CountPiece(t)} /\ CountPiece(t).n = count[g]
              /\ pending' = todo /\ count' = count /\ job' = job
          BY <1>1, <2>2, <4>2, <5>1, <5>2 DEF closeVars
        <5>4. QED
          BY <3>1, <4>4, <5>3 DEF Exact
      <4>5. QED
        BY <4>3, <4>4
    <3>3. CASE g \notin Counts(count)
      <4>1. counted(g) = {}
        BY <2>2, <3>3
      <4>2. CountsOf(g)' = CountsOf(g) /\ pending' = todo /\ count' = count /\ job' = job /\ g \notin todo
        BY <1>1, <1>5, <2>8, <3>3, <4>1 DEF closeVars
      <4>3. CASE g = at
        <5>1. count[g] \in Nat /\ ~(count[g] > 0)
          BY <1>2, <1>3, <1>6, <3>3, <4>3 DEF LayoutTypeOK
        <5>2. \A p \in placed : p.g # g
          BY <1>3, <2>3, <4>3
        <5>3. CountsOf(g) = {}
          BY <5>2 DEF CountsOf
        <5>4. QED
          BY <3>1, <4>2, <5>1, <5>3 DEF Exact
      <4>4. CASE g # at
        <5>1. Exact(g) /\ (g \in pending => ~(count[g] > 0))
          BY <1>3, <1>6, <2>4, <2>9, <3>3, <4>4
        <5>2. QED
          BY <3>1, <4>2, <5>1 DEF Exact
      <4>5. QED
        BY <4>3, <4>4
    <3>4. QED
      BY <3>2, <3>3
  <2>10. ASSUME NEW g \in 1..Len(job.groups), g < at
         PROVE  \A q \in placed' : q.g # g
    <3>1. \A t \in tail : t.g \in Nat /\ t.g >= at
      BY <1>3, <2>2, <2>14
    <3>2. \A t \in tail : t.g # g
      BY <1>3, <2>10, <3>1
    <3>3. QED
      BY <1>3, <2>1, <2>2, <2>3, <2>6, <2>10, <3>2
  <2>11. \A g \in pending' : g \in 1..Len(job.groups) /\ g >= at
    BY <1>1, <1>5, <2>14
  <2>12. job' = job
    BY <1>1
  <2>13. \A g \in 1..Len(job.groups) : IF Done(g)' THEN Exact(g)' ELSE \A q \in placed' : q.g # g
    <3>1. TAKE g \in 1..Len(job.groups)
    <3>2. CASE g >= at
      BY <1>8, <2>9, <3>2
    <3>3. CASE ~(g >= at)
      <4>1. g < at
        BY <1>3, <3>3
      <4>2. QED
        BY <1>8, <2>10, <3>3, <4>1
    <3>4. QED
      BY <3>2, <3>3
  <2>15. \A g \in pending' : Done(g)'
    BY <1>8, <2>11
  <2>16. DOMAIN job'.groups = 1..Len(job.groups)
    BY <1>3, <2>12
  <2>17. QED
    BY <2>13, <2>15, <2>16 DEF CountsHold
<1>13. CASE at > 1
  <2>1. stage' = "lay" /\ StartFlow(at - 1, upTo[at - 1] - upTo[at - 2])
    BY <1>1, <1>13
  <2>2. /\ at - 1 \in 1..Len(job.groups) /\ at - 1 \in 1..K
        /\ upTo[at - 1] - upTo[at - 2] \in Nat \ {0}
    <3>1. \A k \in 0..K : \A i \in 0..(k - 1) : upTo[i] < upTo[k]
      BY <1>1, <1>2 DEF RowsHold, K
    <3>2. at - 1 \in 0..K /\ at - 2 \in 0..(at - 2) /\ at - 2 \in 0..K
      BY <1>3, <1>13
    <3>3. upTo[at - 2] < upTo[at - 1] /\ upTo[at - 2] \in Nat
      BY <1>3, <3>1, <3>2
    <3>4. QED
      BY <1>3, <1>4, <1>13, <3>3
  <2>3. /\ at' = at - 1 /\ rows' = upTo[at - 1] - upTo[at - 2] /\ row' \in 1..rows' /\ used' \in [1..rows' -> Nat]
        /\ pills' = {} /\ queue' \subseteq Nat /\ hidden' \in Nat
        /\ PillsHold' /\ PlacedFirst' /\ CodecsHold' /\ FlowHolds'
    BY <1>1, <1>2, <2>1, <2>2, FlowStarts
  <2>4. LayoutTypeOK'
    <3>1. UNCHANGED <<job, spare, upTo, count, todo, tail, end>> /\ pending' = todo
      BY <1>1 DEF closeVars
    <3>2. at' \in 0..LastKept(job) /\ at' > 0
      BY <1>3, <2>2, <2>3 DEF K
    <3>3. rows' \in Nat \ {0} /\ row' \in 1..rows' /\ queue' \subseteq Nat /\ hidden' \in Nat
      BY <2>2, <2>3
    <3>4. pills' \subseteq [row : 1..rows', s : SUBSET Nat, x : Nat, w : Nat] /\ used' \in [1..rows' -> Nat]
      BY <2>3
    <3>5. QED
      BY <1>2, <1>10, <2>1, <3>1, <3>2, <3>3, <3>4 DEF LayoutTypeOK
  <2>5. RowsHold' /\ CloseHolds'
    <3>1. at' - 1 = at - 2 /\ upTo' = upTo /\ job' = job
      BY <1>1, <1>3, <2>3
    <3>2. QED
      BY <1>1, <1>2, <2>1, <2>3, <3>1 DEF RowsHold, CloseHolds
  <2>6. QED
    BY <1>11, <1>12, <2>3, <2>4, <2>5 DEF LayoutInv
<1>14. CASE ~(at > 1)
  <2>1. stage' = "end" /\ UNCHANGED flowVars
    BY <1>1, <1>14
  <2>2. LayoutTypeOK'
    BY <1>1, <1>2, <1>10, <2>1 DEF LayoutTypeOK, closeVars, flowVars
  <2>3. RowsHold' /\ CloseHolds' /\ FlowHolds'
    BY <1>1, <1>2, <2>1 DEF RowsHold, CloseHolds, FlowHolds, Flow
  <2>4. QED
    BY <1>11, <1>12, <2>1, <2>2, <2>3 DEF LayoutInv
<1>15. QED
  BY <1>13, <1>14

-----------------------------------------------------------------------------
(* The theorems *)

-----------------------------------------------------------------------------
(* The invariant, and what follows from it *)

LEMMA InitHolds == LayoutInit => LayoutInv
<1> SUFFICES ASSUME LayoutInit PROVE LayoutInv
  OBVIOUS
<1> DEFINE K == LastKept(job)
<1>1. /\ job \in Jobs /\ K \in Nat /\ K <= Len(job.groups) /\ K <= Slots(job) /\ Slots(job) \in Nat
      /\ Len(job.groups) \in Nat /\ DOMAIN job.groups = 1..Len(job.groups)
      /\ job.ratingW \in Nat /\ job.w \in Nat /\ Margin \in Nat
  BY LastKeptIs, SlotsFit, JobIs, SizesAreNumbers DEF LayoutInit
<1>2. \A i \in 1..Len(job.groups) : Cardinality(job.groups[i].badges) \in Nat
  <2>1. \A i \in 1..Len(job.groups) : IsFiniteSet(job.groups[i].badges)
    BY <1>1, JobIs, LayoutAssumption
  <2>2. QED
    BY <2>1, FS_CardinalityType
<1>3. /\ spare = Slots(job) - K /\ upTo = [i \in 0..K |-> 0]
      /\ count = [i \in 1..Len(job.groups) |-> IF i > K THEN Cardinality(job.groups[i].badges) ELSE 0]
      /\ pending = {i \in 1..Len(job.groups) : i > K}
      /\ todo = {} /\ tail = {} /\ end = 0 /\ row = 1 /\ pills = {}
      /\ rows = 1 /\ used = <<0>>
  BY <1>1 DEF LayoutInit
<1>4. \A p \in placed : /\ job.rated
                        /\ p = [g |-> 0, s |-> {}, n |-> 0, w |-> job.ratingW, band |-> 0,
                                x |-> IF job.ratingAt.right THEN job.w - Margin - job.ratingW ELSE Margin]
  BY DEF LayoutInit
<1>5. /\ K = 0 => stage = "end" /\ at = 0 /\ queue = {} /\ hidden = 0
      /\ K # 0 => /\ stage = "try" /\ at = 1 /\ queue = Drawable(job, 1, 1)
                  /\ hidden = Cardinality(job.groups[1].badges \ Drawable(job, 1, 1))
  BY DEF LayoutInit
<1> HIDE DEF K
<1>6. queue \subseteq Nat /\ hidden \in Nat /\ at \in 0..K /\ (stage # "end" => at > 0) /\ stage \in {"try", "end"}
  <2>1. CASE K = 0
    BY <1>5, <2>1
  <2>2. CASE K # 0
    <3>1. 1 \in 1..Len(job.groups) /\ 1 \in 0..K
      BY <1>1, <2>2
    <3>2. QED
      BY <1>1, <1>5, <2>2, <3>1, FreshCounts
  <2>3. QED
    BY <2>1, <2>2
<1>7. LayoutTypeOK
  <2>1. placed \subseteq [g : 0..Len(job.groups), s : SUBSET Nat, n : Nat, x : Int, w : Nat, band : Nat]
    <3>1. SUFFICES ASSUME NEW p \in placed
                   PROVE  p \in [g : 0..Len(job.groups), s : SUBSET Nat, n : Nat, x : Int, w : Nat, band : Nat]
      OBVIOUS
    <3>2. /\ (IF job.ratingAt.right THEN job.w - Margin - job.ratingW ELSE Margin) \in Int
          /\ 0 \in 0..Len(job.groups)
      BY <1>1
    <3>3. QED
      BY <1>1, <1>4, <3>2
  <2>2. spare \in Nat /\ upTo \in [0..K -> Nat] /\ count \in [1..Len(job.groups) -> Nat]
    BY <1>1, <1>2, <1>3
  <2>3. pending \subseteq 1..Len(job.groups) /\ used \in [1..rows -> Nat] /\ row \in 1..rows /\ rows \in Nat \ {0}
    BY <1>3
  <2>4. QED
    BY <1>1, <1>3, <1>6, <2>1, <2>2, <2>3 DEF LayoutTypeOK, K
<1>8. RowsHold
  <2>1. upTo[0] = 0 /\ upTo[K] = 0
    BY <1>1, <1>3
  <2>2. CASE K = 0
    BY <1>1, <1>5, <2>1, <2>2 DEF RowsHold, K
  <2>3. CASE K # 0
    BY <1>1, <1>3, <1>5, <2>1, <2>3 DEF RowsHold, K
  <2>4. QED
    BY <2>2, <2>3
<1>9. PillsHold /\ PlacedFirst /\ CodecsHold
  BY <1>3 DEF PillsHold, PlacedFirst, CodecsHold
<1>10. FlowHolds
  <2>1. CASE K = 0
    BY <1>5, <2>1 DEF FlowHolds, Flow
  <2>2. CASE K # 0
    <3>1. 1 \in 1..Len(job.groups)
      BY <1>1, <2>2
    <3>2. Shown = {} /\ Cardinality({}) = 0
      BY <1>3, FS_EmptySet DEF Shown
    <3>3. hidden + Cardinality(queue) + Cardinality(Shown) = Cardinality(job.groups[1].badges)
      BY <1>1, <1>2, <1>5, <2>2, <3>1, <3>2, FreshCounts
    <3>4. QED
      BY <1>3, <1>5, <2>2, <3>3 DEF FlowHolds
  <2>3. QED
    BY <2>1, <2>2
<1>11. CloseHolds
  BY <1>6 DEF CloseHolds
<1>12. CountsHold
  <2>1. \A g \in 1..Len(job.groups) : Done(g) <=> g > K
    <3>1. stage = "end" => K = 0
      BY <1>5
    <3>2. QED
      BY <1>6, <3>1 DEF Done, K
  <2>2. \A g \in 1..Len(job.groups) : \A p \in placed : p.g # g
    BY <1>4
  <2>3. ASSUME NEW g \in 1..Len(job.groups), g > K
        PROVE  Exact(g)
    <3>1. PlacedOf(g) = {} /\ CountsOf(g) = {} /\ Cardinality({}) = 0
      BY <2>2, FS_EmptySet DEF PlacedOf, CountsOf
    <3>2. count[g] = Cardinality(job.groups[g].badges) /\ count[g] \in Nat /\ g \in pending
      BY <1>2, <1>3, <2>3
    <3>3. QED
      BY <3>1, <3>2 DEF Exact
  <2>4. QED
    BY <1>1, <1>3, <2>1, <2>2, <2>3 DEF CountsHold
<1>13. PlacesHold
  <2>1. \A p \in placed : p.g = 0
    BY <1>4
  <2>2. QED
    BY <1>4, <2>1 DEF PlacesHold
<1>14. QED
  BY <1>7, <1>8, <1>9, <1>10, <1>11, <1>12, <1>13 DEF LayoutInv

LEMMA StutterKeeps ==
  ASSUME LayoutInv, UNCHANGED layoutVars
  PROVE  LayoutInv'
<1>1. UNCHANGED <<job, stage, at, rows, queue, row, pills, used, hidden, spare, upTo, count, todo, tail, end,
                  pending, placed>>
  BY DEF layoutVars, flowVars, closeVars
<1>2. LayoutTypeOK' /\ RowsHold' /\ (stage' # "end" => PillsHold' /\ PlacedFirst' /\ CodecsHold')
  BY <1>1 DEF LayoutInv, LayoutTypeOK, RowsHold, PillsHold, PlacedFirst, CodecsHold, Before
<1>3. FlowHolds' /\ CloseHolds'
  BY <1>1 DEF LayoutInv, FlowHolds, Flow, CloseHolds, Shown, RowEmpty, Counts
<1>4. CountsHold'
  BY <1>1 DEF LayoutInv, CountsHold, Done, Exact, PlacedOf, CountsOf
<1>5. PlacesHold'
  BY <1>1 DEF LayoutInv, PlacesHold, First, Stacked
<1>6. QED
  BY <1>2, <1>3, <1>4, <1>5 DEF LayoutInv

LEMMA LayoutKeeps == LayoutInv /\ [LayoutNext]_layoutVars => LayoutInv'
BY NextRowKeeps, PlacePillKeeps, GiveUpKeeps, TryMoreKeeps, SizedKeeps, FlowedKeeps, AddCountKeeps,
   TrimBadgeKeeps, DrawKeeps, StutterKeeps DEF LayoutNext

\* The inductive invariant of render_badge_groups(): what a group that is at work has placed,
\* hidden and counted adds up to its badges, what is placed stands in reading order on its
\* rows, and each group that is drawn has bands of its own.
THEOREM LayoutIsSound == LayoutSpec => []LayoutInv
BY InitHolds, LayoutKeeps, PTL DEF LayoutSpec

\* Rows, widths and counts stay numbers: a row is never laid out that the group was not
\* given (n_rows), and no trim of _close_row() takes a width below zero.
THEOREM LayoutTypeCorrect == LayoutSpec => []LayoutTypeOK
<1>1. LayoutInv => LayoutTypeOK
  BY DEF LayoutInv
<1>2. QED
  BY <1>1, LayoutIsSound, PTL

\* A codec is never left alone beside other pills while there is another row
\* (_flow_rows: "it is never split after its head alone").
THEOREM LayoutCodecKeepsLanguage == LayoutSpec => []CodecKeepsLanguage
<1>1. LayoutInv => CodecKeepsLanguage
  BY DEF LayoutInv, CodecKeepsLanguage, CodecsHold
<1>2. QED
  BY <1>1, LayoutIsSound, PTL

\* For every canvas: what a group shows is the beginning of its badges, and the "+N" counts
\* exactly the others, on whichever row it ends up (_flow_rows, _close_row, _layout_group).
THEOREM LayoutDrawnOrCounted == LayoutSpec => []DrawnOrCounted
<1>1. LayoutInv => DrawnOrCounted
  <2>1. SUFFICES ASSUME LayoutInv PROVE DrawnOrCounted
    OBVIOUS
  <2>2. stage # "end" => PlacedFirst
    BY <2>1 DEF LayoutInv
  <2>3. stage = "end" => \A g \in DOMAIN job.groups : Exact(g)
    BY <2>1 DEF LayoutInv, CountsHold, Done
  <2>4. QED
    BY <2>2, <2>3 DEF DrawnOrCounted, PlacedFirst, Exact
<1>2. QED
  BY <1>1, LayoutIsSound, PTL

-----------------------------------------------------------------------------
(* Nothing overlaps *)

\* The bands there are lie between the margins, and clear of a rating at the other edge.
LEMMA BandFits ==
  ASSUME job \in Jobs, NEW b \in Nat, First <= b, b < First + Slots(job)
  PROVE  /\ b * Pitch \in Nat /\ b * Pitch + PillH <= job.h - 2 * Margin
         /\ job.rated /\ job.ratingAt.bottom # job.tagsAt.bottom =>
              b * Pitch + Pitch + PillH <= job.h - 2 * Margin
         /\ b > 0 => b * Pitch >= Pitch
<1> DEFINE S == Slots(job)
           own == IF ~job.rated \/ SharesBand(job) THEN 0 ELSE Pitch
<1>1. /\ job.h \in Nat /\ Margin \in Nat /\ PillH \in Nat \ {0} /\ RowGap \in Nat
      /\ Pitch = PillH + RowGap /\ Pitch \in Nat \ {0} /\ S \in Nat /\ First \in {0, 1}
  BY JobIs, SizesAreNumbers, SlotsFit DEF Pitch, First
<1>2. S > 0 /\ S * Pitch <= job.h - 2 * Margin - own + RowGap
  BY <1>1, SlotsFit
<1>3. /\ First = 1 => own = Pitch
      /\ job.rated /\ job.ratingAt.bottom # job.tagsAt.bottom => First = 0 /\ own = Pitch
      /\ own \in Nat
  BY <1>1 DEF First, SameCorner, SharesBand
<1> HIDE DEF S, own
<1>4. b * Pitch + Pitch <= (First + S) * Pitch /\ b * Pitch \in Nat
  <2>1. First + S \in Nat /\ b < First + S
    BY <1>1 DEF S
  <2>2. QED
    BY <2>1, BandsApart
<1>5. (First + S) * Pitch = First * Pitch + S * Pitch /\ S * Pitch \in Nat /\ First * Pitch = IF First = 1 THEN Pitch ELSE 0
  <2>1. CASE First = 0
    BY <1>1, <2>1
  <2>2. CASE First = 1
    BY <1>1, <2>2
  <2>3. QED
    BY <1>1, <2>1, <2>2
<1> DEFINE bp == b * Pitch
           sp == S * Pitch
<1>6. bp \in Nat /\ sp \in Nat /\ bp + Pitch <= (IF First = 1 THEN Pitch ELSE 0) + sp
      /\ sp <= job.h - 2 * Margin - own + RowGap
  BY <1>2, <1>4, <1>5
<1>7. b > 0 => bp >= Pitch
  <2>1. 0 \in Nat /\ 0 * Pitch = 0
    BY <1>1
  <2>2. 0 < b => 0 * Pitch + Pitch <= bp
    BY <2>1, BandsApart
  <2>3. QED
    BY <1>1, <1>6, <2>1, <2>2
<1> HIDE DEF bp, sp
<1>8. bp + PillH <= job.h - 2 * Margin
  BY <1>1, <1>3, <1>6
<1>9. job.rated /\ job.ratingAt.bottom # job.tagsAt.bottom => bp + Pitch + PillH <= job.h - 2 * Margin
  BY <1>1, <1>3, <1>6
<1>10. QED
  BY <1>6, <1>7, <1>8, <1>9 DEF bp

\* The pills of the tags, and where they are.
LEMMA TagsAre ==
  ASSUME LayoutInv, NEW p \in placed, p.g # 0
  PROVE  /\ p.x \in Int /\ p.w \in Nat /\ p.band \in Nat
         /\ First <= p.band /\ p.band < First + Slots(job)
         /\ p.x >= Margin /\ p.x + p.w <= job.w - Margin
<1>1. LayoutTypeOK /\ RowsHold /\ PlacesHold
  BY DEF LayoutInv
<1>2. p.x \in Int /\ p.w \in Nat /\ p.band \in Nat /\ p.g \in Nat
  BY <1>1 DEF LayoutTypeOK
<1>3. /\ p.x >= Margin /\ p.x + p.w <= job.w - Margin
      /\ First <= p.band /\ p.band < First + Stacked
  BY <1>1, <1>2 DEF PlacesHold
<1>4. Stacked \in Int /\ Stacked <= Slots(job)
  <2>1. job \in Jobs /\ LastKept(job) \in Nat /\ Slots(job) \in Nat /\ upTo \in [0..LastKept(job) -> Nat] /\ at \in 0..LastKept(job)
        /\ stage \in {"try", "lay", "close", "end"}
    BY <1>1, LastKeptIs, SlotsFit DEF LayoutTypeOK
  <2>2. upTo[LastKept(job)] \in Nat /\ upTo[at] \in Nat
    BY <2>1
  <2>3. CASE stage = "try"
    BY <2>1, <2>3 DEF Stacked
  <2>4. CASE stage # "try"
    <3>1. upTo[LastKept(job)] <= Slots(job)
      BY <1>1, <2>4 DEF RowsHold
    <3>2. Stacked = upTo[LastKept(job)] - upTo[at] \/ Stacked = upTo[LastKept(job)]
      BY <2>1, <2>4 DEF Stacked
    <3>3. QED
      BY <2>1, <2>2, <3>1, <3>2
  <2>5. QED
    BY <2>3, <2>4
<1>5. Slots(job) \in Nat /\ First \in Nat
  BY <1>1, SlotsFit DEF LayoutTypeOK, First
<1>6. QED
  BY <1>2, <1>3, <1>4, <1>5

LEMMA RatingIs ==
  ASSUME LayoutInv, NEW p \in placed, p.g = 0
  PROVE  /\ job.rated /\ p.w = job.ratingW /\ p.band = 0
         /\ p.x = IF job.ratingAt.right THEN job.w - Margin - job.ratingW ELSE Margin
         /\ \A q \in placed : q.g = 0 => p = q
<1>1. \A q \in placed : q.g = 0 =>
        /\ job.rated
        /\ q = [g |-> 0, s |-> {}, n |-> 0, w |-> job.ratingW, band |-> 0,
                x |-> IF job.ratingAt.right THEN job.w - Margin - job.ratingW ELSE Margin]
  BY DEF LayoutInv, PlacesHold
<1>2. QED
  BY <1>1

LEMMA AllInside ==
  ASSUME LayoutInv, NEW p \in placed, p.g # 0 \/ job.h >= 2 * Margin + PillH
  PROVE  Inside(p)
<1>1. job \in Jobs
  BY DEF LayoutInv, LayoutTypeOK
<1>2. /\ job.h \in Nat /\ job.w \in Nat /\ job.ratingW \in Nat /\ Margin \in Nat /\ PillH \in Nat \ {0} /\ Pitch \in Nat
      /\ job.rated => job.ratingW > 0 /\ job.ratingW <= job.w - 2 * Margin
  BY <1>1, JobIs, SizesAreNumbers
<1>3. CASE p.g = 0
  <2>1. job.rated /\ p.w = job.ratingW /\ p.band = 0
        /\ p.x = IF job.ratingAt.right THEN job.w - Margin - job.ratingW ELSE Margin
    BY <1>3, RatingIs
  <2>2. 0 * Pitch = 0
    BY <1>2
  <2>3. QED
    BY <1>2, <1>3, <2>1, <2>2 DEF Inside, Top
<1>4. CASE p.g # 0
  <2>1. /\ p.band \in Nat /\ First <= p.band /\ p.band < First + Slots(job)
        /\ p.x >= Margin /\ p.x + p.w <= job.w - Margin
    BY <1>4, TagsAre
  <2>2. p.band * Pitch \in Nat /\ p.band * Pitch + PillH <= job.h - 2 * Margin
    BY <1>1, <2>1, BandFits
  <2>3. QED
    BY <1>2, <1>4, <2>1, <2>2 DEF Inside, Top
<1>5. QED
  BY <1>3, <1>4

\* One tag pill and another: beside each other or in bands of their own.
LEMMA TagsDoNotOverlap ==
  ASSUME LayoutInv, NEW p \in placed, NEW q \in placed, p # q, p.g # 0, q.g # 0
  PROVE  ~Overlap(p, q)
<1>1. job \in Jobs /\ PlacesHold /\ LayoutTypeOK
  BY DEF LayoutInv, LayoutTypeOK
<1>2. job.h \in Nat /\ Margin \in Nat /\ PillH \in Nat \ {0} /\ Pitch \in Nat /\ Pitch >= PillH
  BY <1>1, JobIs, SizesAreNumbers
<1>3. /\ p.x \in Int /\ p.w \in Nat /\ p.band \in Nat
      /\ q.x \in Int /\ q.w \in Nat /\ q.band \in Nat
  BY TagsAre
<1>4. CASE p.band = q.band
  <2>1. p.g > 0
    BY <1>1 DEF LayoutTypeOK
  <2>2. p.x + p.w <= q.x \/ q.x + q.w <= p.x
    BY <1>1, <1>4, <2>1 DEF PlacesHold
  <2>3. QED
    BY <1>3, <2>2 DEF Overlap
<1>5. CASE p.band # q.band
  <2>1. \/ p.band * Pitch + Pitch <= q.band * Pitch
        \/ q.band * Pitch + Pitch <= p.band * Pitch
    BY <1>3, <1>5, BandsApart
  <2>2. p.band * Pitch \in Nat /\ q.band * Pitch \in Nat
    BY <1>2, <1>3
  <2>3. QED
    BY <1>2, <2>1, <2>2 DEF Overlap, Top
<1>6. QED
  BY <1>4, <1>5

\* The rating and a tag pill: at other edges, in other bands, or beside each other.
LEMMA RatingStaysClear ==
  ASSUME LayoutInv, NEW p \in placed, NEW q \in placed, p.g = 0, q.g # 0
  PROVE  ~Overlap(p, q) /\ ~Overlap(q, p)
<1>1. job \in Jobs /\ PlacesHold /\ LayoutTypeOK
  BY DEF LayoutInv, LayoutTypeOK
<1>2. /\ job.h \in Nat /\ job.w \in Nat /\ job.ratingW \in Nat /\ Margin \in Nat /\ ColGap \in Nat
      /\ PillH \in Nat \ {0} /\ Pitch \in Nat /\ Pitch >= PillH
      /\ job.tagsAt \in Corners /\ job.ratingAt \in Corners
  BY <1>1, JobIs, SizesAreNumbers
<1>3. /\ job.rated /\ p.w = job.ratingW /\ p.band = 0
      /\ p.x = IF job.ratingAt.right THEN job.w - Margin - job.ratingW ELSE Margin
  BY RatingIs
<1>4. /\ q.x \in Int /\ q.w \in Nat /\ q.band \in Nat
      /\ First <= q.band /\ q.band < First + Slots(job)
  BY TagsAre
<1> DEFINE bp == q.band * Pitch
<1>5. /\ bp \in Nat /\ bp + PillH <= job.h - 2 * Margin
      /\ job.ratingAt.bottom # job.tagsAt.bottom => bp + Pitch + PillH <= job.h - 2 * Margin
      /\ q.band > 0 => bp >= Pitch
      /\ 0 * Pitch = 0
  BY <1>1, <1>2, <1>3, <1>4, BandFits
<1> HIDE DEF bp
<1>6. /\ Top(job, job.ratingAt.bottom, p.band) =
           IF job.ratingAt.bottom THEN job.h - Margin - PillH ELSE Margin
      /\ Top(job, job.tagsAt.bottom, q.band) =
           IF job.tagsAt.bottom THEN job.h - Margin - PillH - bp ELSE Margin + bp
  BY <1>2, <1>3, <1>5 DEF Top, bp
<1> DEFINE tp == Top(job, job.ratingAt.bottom, p.band)
           tq == Top(job, job.tagsAt.bottom, q.band)
<1>7. SUFFICES ~(/\ p.x < q.x + q.w /\ q.x < p.x + p.w
                 /\ tp < tq + PillH /\ tq < tp + PillH)
  BY DEF Overlap
<1> HIDE DEF tp, tq
<1>8. /\ tp = IF job.ratingAt.bottom THEN job.h - Margin - PillH ELSE Margin
      /\ tq = IF job.tagsAt.bottom THEN job.h - Margin - PillH - bp ELSE Margin + bp
  BY <1>6 DEF tp, tq
<1>9. job.ratingAt.bottom \in BOOLEAN /\ job.tagsAt.bottom \in BOOLEAN
      /\ job.ratingAt.right \in BOOLEAN /\ job.tagsAt.right \in BOOLEAN
  BY <1>2 DEF Corners
<1>10. CASE job.ratingAt.bottom # job.tagsAt.bottom
  BY <1>2, <1>5, <1>8, <1>9, <1>10
<1>11. CASE job.ratingAt.bottom = job.tagsAt.bottom /\ q.band > 0
  BY <1>2, <1>5, <1>8, <1>9, <1>11
<1>12. CASE job.ratingAt.bottom = job.tagsAt.bottom /\ q.band = 0
  <2>1. First = 0
    BY <1>4, <1>12 DEF First
  <2>2. job.ratingAt # job.tagsAt
    BY <1>3, <2>1 DEF First, SameCorner
  <2>3. job.ratingAt.right # job.tagsAt.right
    BY <1>2, <1>12, <2>2 DEF Corners
  <2>4. Reserve(job) = job.ratingW + ColGap
    BY <1>3, <1>12, <2>2 DEF Reserve, SharesBand
  <2>5. IF job.tagsAt.right THEN q.x >= Margin + Reserve(job)
        ELSE q.x + q.w <= job.w - Margin - Reserve(job)
    <3>1. q.g > 0
      BY <1>1 DEF LayoutTypeOK
    <3>2. QED
      BY <1>1, <1>12, <3>1 DEF PlacesHold
  <2>6. QED
    BY <1>2, <1>3, <1>4, <1>9, <2>3, <2>4, <2>5
<1>13. QED
  BY <1>4, <1>10, <1>11, <1>12

\* For every canvas and every pair of corners: all pills, "+N" and the rating included, are
\* inside the margins and none covers another (render_badge_groups).
THEOREM LayoutNothingOverlaps == LayoutSpec => []NothingOverlaps
<1>1. LayoutInv => NothingOverlaps
  <2>1. SUFFICES ASSUME LayoutInv, NEW p \in placed
                 PROVE  /\ p.g # 0 \/ job.h >= 2 * Margin + PillH => Inside(p)
                        /\ \A q \in placed : p # q => ~Overlap(p, q)
    BY DEF NothingOverlaps
  <2>2. ASSUME NEW q \in placed, p # q
        PROVE  ~Overlap(p, q)
    <3>1. CASE p.g = 0 /\ q.g = 0
      BY <2>1, <2>2, <3>1, RatingIs
    <3>2. CASE p.g = 0 /\ q.g # 0
      BY <2>1, <3>2, RatingStaysClear
    <3>3. CASE p.g # 0 /\ q.g = 0
      BY <2>1, <3>3, RatingStaysClear
    <3>4. CASE p.g # 0 /\ q.g # 0
      BY <2>1, <2>2, <3>4, TagsDoNotOverlap
    <3>5. QED
      BY <3>1, <3>2, <3>3, <3>4
  <2>3. QED
    BY <2>1, <2>2, AllInside
<1>2. QED
  BY <1>1, LayoutIsSound, PTL
=============================================================================
