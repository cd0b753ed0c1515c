---------------------------- MODULE CleanUp_proofs ----------------------------
(***************************************************************************)
(* Proofs about CleanUp, for any items, tags, resolutions and bounds.       *)
(***************************************************************************)
EXTENDS CleanUp, FiniteSetTheorems, TLAPS

-----------------------------------------------------------------------------
(* Tags and their counts *)

LEMMA Sizes ==
  ASSUME NEW S \in SUBSET Tag
  PROVE  IsFiniteSet(S) /\ Cardinality(S) \in Nat
BY ConstantsAssumption, FS_Subset, FS_CardinalityType

LEMMA FoldedIsFinite ==
  ASSUME NEW S \in SUBSET Tag
  PROVE  IsFiniteSet(Folded(S)) /\ Cardinality(Folded(S)) \in Nat
<1> DEFINE f == [t \in S |-> Fold(t)]
<1>1. f \in Surjection(S, Folded(S))
  BY DEF Surjection, Folded
<1>2. IsFiniteSet(S)
  BY Sizes
<1>3. IsFiniteSet(Folded(S))
  BY <1>1, <1>2, FS_Surjection
<1>4. QED
  BY <1>3, FS_CardinalityType

LEMMA NamesAreFinite ==
  ASSUME NEW S \in SUBSET Tag
  PROVE  IsFiniteSet(Names(S)) /\ Cardinality(Names(S)) \in Nat
<1>1. {t \in S : t.kind = "res"} \in SUBSET Tag
  OBVIOUS
<1>2. QED
  BY <1>1, FoldedIsFinite DEF Names

LEMMA FewerThanTwo ==
  ASSUME NEW S, IsFiniteSet(S)
  PROVE  Cardinality(S) <= 1 <=> AtMostOne(S)
<1>1. Cardinality(S) \in Nat
  BY FS_CardinalityType
<1>2. Cardinality(S) = 0 <=> S = {}
  BY FS_EmptySet
<1>3. Cardinality(S) = 1 <=> \E x : S = {x}
  BY FS_Singleton
<1>4. AtMostOne(S) <=> S = {} \/ \E x : S = {x}
  BY DEF AtMostOne
<1>5. QED
  BY <1>1, <1>2, <1>3, <1>4

\* The tags of S that are the same but for case.
Same(S, f) == {u \in S : Fold(u) = f}

LEMMA SameIsFinite ==
  ASSUME NEW S \in SUBSET Tag, NEW f
  PROVE  /\ IsFiniteSet(Same(S, f)) /\ Cardinality(Same(S, f)) \in Nat
         /\ f \in Folded(S) <=> Cardinality(Same(S, f)) # 0
<1>1. Same(S, f) \in SUBSET Tag
  BY DEF Same
<1>2. IsFiniteSet(Same(S, f)) /\ Cardinality(Same(S, f)) \in Nat
  BY <1>1, Sizes
<1>3. Same(S, f) = {} <=> f \notin Folded(S)
  BY DEF Same, Folded
<1>4. QED
  BY <1>2, <1>3, FS_EmptySet

\* Two counts are the same when every tag is there as often in both, but for case.
LEMMA CountsAgree ==
  ASSUME NEW S \in SUBSET Tag, NEW T \in SUBSET Tag
  PROVE  Counted(S) = Counted(T) <=> \A f : Cardinality(Same(S, f)) = Cardinality(Same(T, f))
<1>1. ASSUME Counted(S) = Counted(T), NEW f
      PROVE  Cardinality(Same(S, f)) = Cardinality(Same(T, f))
  <2>1. Folded(S) = Folded(T)
    BY <1>1 DEF Counted
  <2>2. CASE f \in Folded(S)
    <3>1. Counted(S)[f] = Counted(T)[f]
      BY <1>1
    <3>2. Counted(S)[f] = Cardinality(Same(S, f)) /\ Counted(T)[f] = Cardinality(Same(T, f))
      BY <2>1, <2>2 DEF Counted, Same
    <3>3. QED
      BY <3>1, <3>2
  <2>3. CASE f \notin Folded(S)
    BY <2>1, <2>3, SameIsFinite
  <2>4. QED
    BY <2>2, <2>3
<1>2. ASSUME \A f : Cardinality(Same(S, f)) = Cardinality(Same(T, f))
      PROVE  Counted(S) = Counted(T)
  <2>1. \A f : f \in Folded(S) <=> f \in Folded(T)
    BY <1>2, SameIsFinite
  <2>2. Folded(S) = Folded(T)
    BY <2>1
  <2>3. Counted(S) = [t \in Folded(S) |-> Cardinality(Same(S, t))]
    BY DEF Counted, Same
  <2>4. Counted(T) = [t \in Folded(T) |-> Cardinality(Same(T, t))]
    BY DEF Counted, Same
  <2>5. QED
    BY <1>2, <2>2, <2>3, <2>4
<1>3. QED
  BY <1>1, <1>2

\* What is left counts the same when what was there and what goes do.
LEMMA RestCountsAgree ==
  ASSUME NEW B \in SUBSET Tag, NEW R \in SUBSET B, NEW C \in SUBSET Tag, NEW Q \in SUBSET C,
         Counted(B) = Counted(C), Counted(R) = Counted(Q)
  PROVE  Counted(B \ R) = Counted(C \ Q)
<1>1. ASSUME NEW S \in SUBSET Tag, NEW T \in SUBSET S, NEW f
      PROVE  Cardinality(Same(S \ T, f)) = Cardinality(Same(S, f)) - Cardinality(Same(T, f))
  <2>1. Same(S \ T, f) = Same(S, f) \ Same(T, f) /\ Same(S, f) \cap Same(T, f) = Same(T, f)
    BY DEF Same
  <2>2. IsFiniteSet(Same(S, f))
    BY SameIsFinite
  <2>3. \A D : Cardinality(Same(S, f) \ D) = Cardinality(Same(S, f)) - Cardinality(Same(S, f) \cap D)
    BY <2>2, FS_Difference
  <2>4. QED
    BY <2>1, <2>3
<1>2. \A f : Cardinality(Same(B, f)) = Cardinality(Same(C, f))
  BY CountsAgree
<1>3. R \in SUBSET Tag /\ Q \in SUBSET Tag
  OBVIOUS
<1>4. \A f : Cardinality(Same(R, f)) = Cardinality(Same(Q, f))
  BY <1>3, CountsAgree
<1>5. \A f : Cardinality(Same(B \ R, f)) = Cardinality(Same(C \ Q, f))
  BY <1>1, <1>2, <1>4
<1>6. B \ R \in SUBSET Tag /\ C \ Q \in SUBSET Tag
  OBVIOUS
<1>7. QED
  BY <1>5, <1>6, CountsAgree

-----------------------------------------------------------------------------
(* A plan *)

LEMMA NamesOfManaged ==
  ASSUME NEW ts \in SUBSET Tag
  PROVE  Names(Managed(ts)) = Names(ts)
BY DEF Names, Managed

\* What is true of the plan of any item and row.
Sound(q) ==
  /\ q \in [before : SUBSET Tag, remove : SUBSET Tag, after : SUBSET Tag, refused : BOOLEAN]
  /\ q.remove \subseteq q.before /\ q.after = q.before \ q.remove
  /\ \A t \in q.before : t.kind \notin {"legacy", "keyword"}
  /\ \A t \in q.after : t.kind # "retired"
  /\ \A t \in q.remove : t.kind \in {"res", "retired"}
  /\ ~q.refused => AtMostOne(Names(q.after))
  /\ ~q.refused /\ Names(q.before) # {} => Names(q.after) # {}
  /\ AtMostOne(Names(q.remove))

LEMMA PlanIsSound ==
  ASSUME NEW found \in SUBSET SUBSET Tag, NEW r \in SUBSET Rows, AtMostOne(r)
  PROVE  Sound(PlanItem(found, r))
<1> DEFINE q == PlanItem(found, r)
           before == Managed(UNION found)
           stray == UNION {Stray(before, x) : x \in r}
           remove == {t \in before : t.kind = "retired"} \cup stray
<1>1. before \in SUBSET Tag /\ \A t \in before : t.kind \notin {"legacy", "keyword"}
  BY DEF Managed
<1>2. stray \subseteq before /\ \A t \in stray : t.kind = "res" /\ \E x \in r : t.name = x.res
  BY DEF Stray
<1>3. q = [before |-> before, remove |-> remove, after |-> before \ remove,
           refused |-> Refused(found, r, before \ remove)]
  BY DEF PlanItem
<1>4. remove = {t \in before : t.kind = "retired"} \cup stray
  OBVIOUS
<1> HIDE DEF q, before, stray, remove
<1>a. q.before = before /\ q.remove = remove /\ q.after = before \ remove
  BY <1>3
<1>b. q.refused = Refused(found, r, before \ remove) /\ q.refused \in BOOLEAN
  BY <1>3 DEF Refused
<1>5. q \in [before : SUBSET Tag, remove : SUBSET Tag, after : SUBSET Tag, refused : BOOLEAN]
  BY <1>1, <1>2, <1>3, <1>4, <1>b
<1>6. ~q.refused => AtMostOne(Names(q.after))
  <2>1. before \ remove \in SUBSET Tag
    BY <1>1
  <2>2. IsFiniteSet(Names(before \ remove))
    BY <2>1, NamesAreFinite
  <2>3. ~q.refused => ~(Cardinality(Names(before \ remove)) > 1)
    BY <1>b DEF Refused
  <2>4. Cardinality(Names(before \ remove)) \in Nat
    BY <2>1, NamesAreFinite
  <2>5. Cardinality(Names(before \ remove)) <= 1 <=> AtMostOne(Names(before \ remove))
    BY <2>2, FewerThanTwo
  <2>6. QED
    BY <1>a, <2>3, <2>4, <2>5
<1>7. Names(before) # {} => Names(before \ remove) # {}
  <2> SUFFICES ASSUME Names(before) # {} PROVE \E t \in before \ remove : t.kind = "res"
    BY DEF Names, Folded
  <2>1. PICK t \in before : t.kind = "res"
    BY DEF Names, Folded
  <2>2. CASE t \notin remove
    BY <2>1, <2>2
  <2>3. CASE t \in remove
    <3>1. PICK x \in r : t \in Stray(before, x)
      BY <1>4, <2>1, <2>3 DEF stray
    <3>2. Cardinality(Names(before)) > 1
      BY <3>1 DEF Stray
    <3>3. IsFiniteSet(Names(before)) /\ Cardinality(Names(before)) \in Nat
      BY <1>1, NamesAreFinite
    <3>4. ~AtMostOne(Names(before))
      BY <3>2, <3>3, FewerThanTwo
    <3>5. PICK u \in before, v \in before : u.kind = "res" /\ v.kind = "res" /\ Fold(u) # Fold(v)
      BY <3>4 DEF AtMostOne, Names, Folded
    <3>6. u.name # v.name
      BY <1>1, <3>5 DEF Fold
    <3>7. \A w \in before : w.kind = "res" /\ w.name # x.res => w \notin remove
      BY <1>2, <1>4, <3>1 DEF AtMostOne
    <3>8. QED
      BY <3>5, <3>6, <3>7
  <2>4. QED
    BY <2>2, <2>3
<1>8. AtMostOne(Names(remove))
  <2>1. ASSUME NEW u \in remove, NEW v \in remove, u.kind = "res", v.kind = "res"
        PROVE  Fold(u) = Fold(v)
    <3>1. u \in stray /\ v \in stray
      BY <1>4, <2>1
    <3>2. u.name = v.name
      BY <1>2, <3>1 DEF AtMostOne
    <3>3. u \in Tag /\ v \in Tag
      BY <1>1, <1>2, <3>1
    <3>4. QED
      BY <2>1, <3>2, <3>3 DEF Fold
  <2>2. QED
    BY <2>1 DEF AtMostOne, Names, Folded
<1>9. /\ remove \subseteq before
      /\ \A t \in before \ remove : t.kind # "retired"
      /\ \A t \in remove : t.kind \in {"res", "retired"}
  BY <1>2, <1>4
<1>10. Sound(q)
  BY <1>1, <1>5, <1>6, <1>7, <1>8, <1>9, <1>a DEF Sound
<1>11. QED
  BY <1>10 DEF q

\* A plan takes nothing from an item without retired spellings and with one resolution.
LEMMA NothingToRemove ==
  ASSUME NEW ts \in SUBSET Tag, NEW r,
         \A t \in ts : t.kind # "retired", AtMostOne(Names(ts))
  PROVE  PlanItem({ts}, r).remove = {}
<1>1. Managed(UNION {ts}) = Managed(ts) /\ Names(Managed(ts)) = Names(ts)
  BY NamesOfManaged DEF Managed
<1>2. IsFiniteSet(Names(ts)) /\ Cardinality(Names(ts)) \in Nat
  BY NamesAreFinite
<1>3. ~(Cardinality(Names(Managed(ts))) > 1)
  BY <1>1, <1>2, FewerThanTwo
<1>4. \A x \in r : Stray(Managed(ts), x) = {}
  BY <1>3 DEF Stray
<1>5. {t \in Managed(ts) : t.kind = "retired"} = {}
  BY DEF Managed
<1>6. QED
  BY <1>1, <1>4, <1>5 DEF PlanItem

-----------------------------------------------------------------------------
(* Types *)

LEMMA FaultTypeOK ==
  ASSUME left \in 0..MaxFaults, NEW f, Fault(f) \/ UNCHANGED left
  PROVE  left' \in 0..MaxFaults
BY ConstantsAssumption DEF Fault

LEMMA NoPlanIsSound == NoPlan \in Plans /\ \A i \in Items : Sound(NoPlan[i]) /\ NoPlan[i].refused
<1>1. Sound(PlanItem({}, {}))
  BY PlanIsSound DEF AtMostOne
<1>2. PlanItem({}, {}).refused
  BY DEF PlanItem, Refused
<1>3. QED
  BY <1>1, <1>2 DEF NoPlan, Plans, Sound

\* The world's part of the state, the tool's own, and the histories.
WorldTypeOK ==
  /\ tags \in [Items -> SUBSET Tag]
  /\ row \in [Items -> SUBSET Rows] /\ \A i \in Items : AtMostOne(row[i])
  /\ open \in BOOLEAN
  /\ left \in 0..MaxFaults
  /\ edits \in 0..MaxEdits
  /\ recorded \in [Items -> {"no", "ok", "wrong"}]
  /\ shown \subseteq Plans /\ AtMostOne(shown)

ToolTypeOK ==
  /\ pc \in {"off", "read", "plan", "write", "check", "retry", "again"}
  /\ apply \in BOOLEAN
  /\ todo \in SUBSET Items
  /\ copy \in [Items -> SUBSET SUBSET Tag] /\ \A i \in Items : AtMostOne(copy[i])
  /\ plan \in Plans
  /\ cur \in SUBSET Items /\ AtMostOne(cur)
  /\ touched \in SUBSET Items
  /\ unsure \in SUBSET Items

LEMMA TypeParts == TypeOK <=> WorldTypeOK /\ ToolTypeOK
BY DEF TypeOK, WorldTypeOK, ToolTypeOK

LEMMA TypePartsNext ==
  ASSUME WorldTypeOK', ToolTypeOK'
  PROVE  TypeOK'
BY DEF TypeOK, WorldTypeOK, ToolTypeOK

LEMMA InitTypeOK == Init => TypeOK
<1> SUFFICES ASSUME Init PROVE TypeOK
  OBVIOUS
<1>1. PICK start \in [Items -> UNION {Starts[i] : i \in Items}] :
        /\ \A i \in Items : start[i] \in Starts[i]
        /\ tags = [i \in Items |-> start[i].tags]
        /\ row = [i \in Items |-> start[i].row]
  BY DEF Init
<1>2. \A i \in Items : start[i] \in [tags : SUBSET Tag, row : SUBSET Rows] /\ AtMostOne(start[i].row)
  BY <1>1, ConstantsAssumption
<1>3. tags \in [Items -> SUBSET Tag] /\ row \in [Items -> SUBSET Rows] /\ \A i \in Items : AtMostOne(row[i])
  BY <1>1, <1>2
<1>a. left \in 0..MaxFaults /\ edits \in 0..MaxEdits
  BY ConstantsAssumption DEF Init
<1>b. WorldTypeOK
  BY <1>3, <1>a DEF Init, WorldTypeOK, AtMostOne
<1>4. ToolTypeOK
  BY NoPlanIsSound DEF Init, ToolTypeOK, AtMostOne
<1>5. QED
  BY <1>b, <1>4, TypeParts

LEMMA ExitTypeOK == Exit => ToolTypeOK'
BY NoPlanIsSound DEF Exit, ToolTypeOK, AtMostOne

\* What a request leaves on an item, whether it succeeds or not.
LEMMA PostedTypeOK ==
  ASSUME TypeOK, NEW i \in Items, NEW next \in {"check", "again"}, Posted(i, next)
  PROVE  ToolTypeOK' /\ tags' \in [Items -> SUBSET Tag] /\ left' \in 0..MaxFaults
<1> DEFINE new == [tags EXCEPT ![i] = Merged(UNION copy[i], plan[i].after)]
<1>1. plan[i].after \in SUBSET Tag /\ copy[i] \in SUBSET SUBSET Tag
  BY DEF TypeOK, Plans
<1>2. Merged(UNION copy[i], plan[i].after) \in SUBSET Tag
  BY <1>1 DEF Merged
<1>3. new \in [Items -> SUBSET Tag]
  BY <1>2 DEF TypeOK
<1> HIDE DEF new
<1>4. CASE /\ tags' = new /\ pc' = next /\ todo' = todo \ {i} /\ cur' = {i} /\ unsure' = unsure \cup {i}
           /\ UNCHANGED <<apply, copy, plan, left, touched>>
  BY <1>3, <1>4 DEF TypeOK, ToolTypeOK, AtMostOne
<1>5. CASE Fault("write") /\ tags' \in {tags, new} /\ Exit
  BY <1>3, <1>5, ExitTypeOK, FaultTypeOK DEF TypeOK
<1>6. QED
  BY <1>4, <1>5 DEF Posted, new

LEMMA EditTypeOK ==
  ASSUME TypeOK, NEW i \in Items, Edit(i) \/ Record(i)
  PROVE  TypeOK'
<1>1. edits' \in 0..MaxEdits /\ touched' \in SUBSET Items /\ recorded' \in [Items -> {"no", "ok", "wrong"}]
  BY ConstantsAssumption DEF Edit, Record, Touch, TypeOK
<1>2. UNCHANGED <<open, toolVars, left, unsure>>
  BY DEF Edit, Record, Touch
<1>3. tags' \in [Items -> SUBSET Tag]
  <2>1. \A b \in Builds : Merged(tags[i], b.tags) \in SUBSET Tag
    BY DEF Builds, Rows, Merged, TypeOK
  <2>2. tags[i] \in SUBSET Tag
    BY DEF TypeOK
  <2>3. CASE Edit(i)
    <3>1. PICK ts \in SUBSET Tag : tags' = [tags EXCEPT ![i] = ts]
      BY <2>1, <2>2, <2>3 DEF Edit
    <3>2. QED
      BY <3>1 DEF TypeOK
  <2>4. CASE Record(i)
    BY <2>4 DEF Record, TypeOK
  <2>5. QED
    BY <2>3, <2>4
<1>4. row' \in [Items -> SUBSET Rows] /\ \A j \in Items : AtMostOne(row'[j])
  BY DEF Edit, Record, Builds, TypeOK, AtMostOne
<1>5. QED
  BY <1>1, <1>2, <1>3, <1>4 DEF TypeOK, toolVars

LEMMA PurgeTypeOK ==
  ASSUME TypeOK, NEW broad, Purge(broad)
  PROVE  TypeOK'
<1>1. \A r \in Rows : [r EXCEPT !.tags = Purged(@, broad)] \in Rows
  BY DEF Rows, Purged, Managed
<1>2. \A i \in Items : PurgedRow(row[i], broad) \in SUBSET Rows /\ AtMostOne(PurgedRow(row[i], broad))
  BY <1>1 DEF TypeOK, PurgedRow, AtMostOne
<1>3. QED
  BY <1>2 DEF Purge, TypeOK, toolVars, history

LEMMA ReadBackTypeOK ==
  ASSUME TypeOK, NEW i \in Items, ReadBack(i)
  PROVE  TypeOK'
<1>1. UNCHANGED <<tags, open, shown, edits>>
  BY DEF ReadBack
<1>2. left' \in 0..MaxFaults
  BY FaultTypeOK DEF ReadBack, TypeOK
<1>3. row' \in [Items -> SUBSET Rows] /\ \A j \in Items : AtMostOne(row'[j])
  <2>1. Noted(i) \in SUBSET Tag
    BY DEF Noted, Managed, TypeOK, Plans
  <2>2. \A r \in Rows : [r EXCEPT !.tags = Noted(i)] \in Rows
    BY <2>1 DEF Rows
  <2>3. {[r EXCEPT !.tags = Noted(i)] : r \in row[i]} \in SUBSET Rows /\ AtMostOne({[r EXCEPT !.tags = Noted(i)] : r \in row[i]})
    BY <2>2 DEF TypeOK, AtMostOne
  <2>4. CASE Recorded(i)
    BY <2>3, <2>4 DEF Recorded, TypeOK
  <2>5. QED
    BY <2>4 DEF ReadBack, TypeOK
<1>4. recorded' \in [Items -> {"no", "ok", "wrong"}]
  <2>1. \/ recorded' = [recorded EXCEPT ![i] = IF AsWritten(i) THEN "ok" ELSE "wrong"]
        \/ recorded' = recorded
    BY DEF ReadBack, history
  <2>2. QED
    BY <2>1 DEF TypeOK
<1>5. ToolTypeOK'
  <2>1. ToolTypeOK
    BY TypeParts
  <2>2. CASE Exit
    BY <2>2, ExitTypeOK
  <2>3. CASE /\ pc' = "write" /\ cur' = {} /\ unsure' = IF AsWritten(i) THEN unsure \ {i} ELSE unsure
             /\ UNCHANGED <<apply, todo, copy, plan, touched>>
    BY <2>1, <2>3 DEF ToolTypeOK, AtMostOne
  <2>4. CASE /\ pc' = "retry" /\ copy' = [copy EXCEPT ![i] = {tags[i]}]
             /\ UNCHANGED <<row, apply, todo, plan, cur, left, history>>
    <3>1. tags[i] \in SUBSET Tag
      BY DEF TypeOK
    <3>2. QED
      BY <2>1, <2>4, <3>1 DEF ToolTypeOK, AtMostOne, history
  <2>5. QED
    BY <2>2, <2>3, <2>4 DEF ReadBack
<1>6. QED
  BY <1>1, <1>2, <1>3, <1>4, <1>5, TypePartsNext DEF WorldTypeOK, TypeOK

\* The plan of an apply or a dry run, as it is drawn up.
Drawn == [i \in Items |-> PlanItem(copy[i], row[i])]

LEMMA DrawnIsSound ==
  ASSUME TypeOK
  PROVE  Drawn \in Plans /\ \A i \in Items : Sound(Drawn[i])
<1>1. \A i \in Items : Sound(PlanItem(copy[i], row[i]))
  BY PlanIsSound DEF TypeOK
<1>2. QED
  BY <1>1 DEF Drawn, Plans, Sound

LEMMA DecideTypeOK ==
  ASSUME TypeOK, Decide
  PROVE  TypeOK'
<1>1. Drawn \in Plans
  BY DrawnIsSound
<1>2. UNCHANGED <<tags, row, open, left, edits, recorded>>
  BY DEF Decide
<1>3. ToolTypeOK /\ WorldTypeOK
  BY TypeParts
<1>4. CASE ~apply /\ shown' = {Drawn} /\ Exit
  BY <1>1, <1>2, <1>3, <1>4, ExitTypeOK, TypePartsNext DEF WorldTypeOK, AtMostOne
<1>5. CASE Exit /\ UNCHANGED shown
  BY <1>2, <1>3, <1>5, ExitTypeOK, TypePartsNext DEF WorldTypeOK
<1>6. CASE /\ pc' = "write" /\ plan' = Drawn /\ todo' = {i \in Items : Drawn[i].remove # {}}
           /\ UNCHANGED <<apply, shown, copy, cur, touched, unsure>>
  <2>1. WorldTypeOK'
    BY <1>2, <1>3, <1>6 DEF WorldTypeOK
  <2>2. ToolTypeOK'
    BY <1>1, <1>3, <1>6 DEF ToolTypeOK
  <2>3. QED
    BY <2>1, <2>2, TypePartsNext
<1>7. QED
  BY <1>4, <1>5, <1>6 DEF Decide, Drawn

LEMMA StepTypeOK == TypeOK /\ [Next]_vars => TypeOK'
<1> SUFFICES ASSUME TypeOK, [Next]_vars PROVE TypeOK'
  OBVIOUS
<1>a. WorldTypeOK /\ ToolTypeOK
  BY TypeParts
<1>1. CASE UNCHANGED vars
  BY <1>1 DEF vars, toolVars, history, TypeOK
<1>2. CASE OpenOrClose
  BY <1>2 DEF OpenOrClose, toolVars, history, TypeOK
<1>3. CASE PurgeAtStart
  BY <1>3, PurgeTypeOK DEF PurgeAtStart
<1>4. ASSUME NEW start \in BOOLEAN, Start(start) PROVE TypeOK'
  BY <1>4 DEF Start, history, TypeOK
<1>5. CASE ReadItems
  <2>1. PICK b \in Batches(todo) : \E lost \in SUBSET b :
          /\ copy' = [i \in Items |-> IF i \in lost THEN {} ELSE IF i \in b THEN {tags[i]} ELSE copy[i]]
          /\ todo' = todo \ b
          /\ touched' = touched \ b
    BY <1>5 DEF ReadItems
  <2>b. PICK lost \in SUBSET b :
          /\ copy' = [i \in Items |-> IF i \in lost THEN {} ELSE IF i \in b THEN {tags[i]} ELSE copy[i]]
          /\ todo' = todo \ b
          /\ touched' = touched \ b
    BY <2>1
  <2>2. \A i \in Items : copy'[i] \in SUBSET SUBSET Tag /\ AtMostOne(copy'[i])
    BY <1>a, <2>b DEF WorldTypeOK, ToolTypeOK, AtMostOne
  <2>3. copy' \in [Items -> SUBSET SUBSET Tag]
    BY <2>b, <2>2
  <2>4. pc' \in {"plan", "read"} /\ left' \in 0..MaxFaults
    BY <1>5, FaultTypeOK DEF ReadItems, TypeOK
  <2>5. UNCHANGED <<tags, row, open, apply, shown, plan, cur, edits, unsure, recorded>>
    BY <1>5 DEF ReadItems
  <2>6. QED
    BY <2>b, <2>2, <2>3, <2>4, <2>5 DEF TypeOK
<1>6. CASE Decide
  BY <1>6, DecideTypeOK
<1>7. CASE Finish
  BY <1>7, <1>a, ExitTypeOK, TypePartsNext DEF Finish, WorldTypeOK
<1>8. ASSUME NEW i \in Items, Edit(i) \/ Record(i) PROVE TypeOK'
  BY <1>8, EditTypeOK
<1>9. ASSUME NEW i \in Items, Write(i) \/ Retry(i) PROVE TypeOK'
  <2>1. ToolTypeOK' /\ tags' \in [Items -> SUBSET Tag] /\ left' \in 0..MaxFaults
    BY <1>9, PostedTypeOK DEF Write, Retry
  <2>2. UNCHANGED <<row, open, shown, edits>> /\ recorded' \in [Items -> {"no", "ok", "wrong"}]
    BY <1>9 DEF Write, Retry, TypeOK
  <2>3. QED
    BY <1>a, <2>1, <2>2, TypePartsNext DEF WorldTypeOK
<1>10. ASSUME NEW i \in Items, Undo(i) PROVE TypeOK'
  <2>1. UNION copy[i] \in SUBSET Tag
    BY DEF TypeOK
  <2>2. tags' \in [Items -> SUBSET Tag] /\ left' \in 0..MaxFaults
    BY <1>10, <2>1, FaultTypeOK DEF Undo, TypeOK
  <2>3. QED
    BY <1>10, <2>2 DEF Undo, TypeOK, toolVars, history
<1>11. ASSUME NEW i \in Items, ReadBack(i) PROVE TypeOK'
  BY <1>11, ReadBackTypeOK
<1>12. QED
  BY <1>1, <1>2, <1>3, <1>4, <1>5, <1>6, <1>7, <1>8, <1>9, <1>10, <1>11 DEF Next

\* The state stays in its types, for any items, tags and bounds.
THEOREM TypeCorrect == Spec => []TypeOK
  BY InitTypeOK, StepTypeOK, PTL DEF Spec

-----------------------------------------------------------------------------
(* The inductive invariant *)

Writing == {"write", "check", "retry", "again"}
Foreign(ts) == ts \ Managed(ts)
NoLegacy(ts) == \A t \in ts : t.kind # "legacy"

\* Every plan there is is sound.
PlansAreSound == \A p \in shown \cup {plan} : \A i \in Items : Sound(p[i])

\* What is written was shown, and nothing in it is refused.
Approved ==
  pc \in Writing =>
    /\ \A i \in Items : ~plan[i].refused
    /\ \A s \in shown : Digest(plan) = Digest(s)

\* An item that nobody else changed is as it was read; once the writes have
\* begun, as far as other people's tags go.
CopiesHold ==
  /\ pc \notin Writing => \A i \in Items \ touched : \A c \in copy[i] : c = tags[i]
  /\ pc \in Writing => \A i \in Items \ touched :
       \E c \in copy[i] : Foreign(c) = Foreign(tags[i]) /\ NoLegacy(c)

\* Nothing is at work between two items, and only the item at work is unsure.
Alone ==
  /\ pc \notin {"check", "retry", "again"} => cur = {}
  /\ unsure \subseteq cur
  /\ \A i \in cur : recorded[i] = "no"

\* What was recorded of an item is what it carries, and an item that read back as
\* written carries nothing that a plan would remove.
Settled(i) ==
  /\ recorded[i] # "no" => \A r \in row[i] :
       Folded(r.tags) = Folded(Managed(tags[i])) /\ Managed(r.tags) = r.tags
  /\ recorded[i] = "ok" => (\A t \in tags[i] : t.kind # "retired") /\ AtMostOne(Names(tags[i]))

RecordsHold == \A i \in Items : Settled(i)

IInv == TypeOK /\ PlansAreSound /\ Approved /\ CopiesHold /\ Alone /\ RecordsHold

LEMMA InitIInv == Init => IInv
<1> SUFFICES ASSUME Init PROVE IInv
  OBVIOUS
<1>1. TypeOK
  BY InitTypeOK
<1>2. PlansAreSound
  BY NoPlanIsSound DEF Init, PlansAreSound
<1>3. Approved /\ CopiesHold /\ Alone /\ RecordsHold
  BY DEF Init, Approved, CopiesHold, Alone, RecordsHold, Settled, Writing
<1>4. QED
  BY <1>1, <1>2, <1>3 DEF IInv

\* The tool stops: only what it recorded remains to be shown.
LEMMA ExitIInv ==
  ASSUME IInv, TypeOK', Exit, RecordsHold', \A s \in shown' : \A i \in Items : Sound(s[i])
  PROVE  IInv'
<1>1. pc' = "off" /\ cur' = {} /\ unsure' = {} /\ copy' = [i \in Items |-> {}] /\ plan' = NoPlan
  BY DEF Exit
<1>2. PlansAreSound'
  BY <1>1, NoPlanIsSound DEF PlansAreSound
<1>3. Approved' /\ CopiesHold' /\ Alone'
  BY <1>1 DEF Approved, CopiesHold, Alone, Writing
<1>4. QED
  BY <1>2, <1>3 DEF IInv

LEMMA EditIInv ==
  ASSUME IInv, TypeOK', NEW i \in Items, Edit(i) \/ Record(i)
  PROVE  IInv'
<1>1. /\ touched' = touched \cup {i} /\ recorded' = [recorded EXCEPT ![i] = "no"]
      /\ UNCHANGED <<pc, shown, copy, plan, cur, unsure>>
  BY DEF Edit, Record, Touch, toolVars
<1>2. \A j \in Items \ {i} : tags'[j] = tags[j] /\ row'[j] = row[j]
  BY DEF Edit, Record, IInv, TypeOK
<1>3. recorded'[i] = "no" /\ \A j \in Items \ {i} : recorded'[j] = recorded[j]
  BY <1>1 DEF IInv, TypeOK
<1>4. PlansAreSound' /\ Approved'
  BY <1>1 DEF IInv, PlansAreSound, Approved, Digest
<1>5. CopiesHold'
  BY <1>1, <1>2 DEF IInv, CopiesHold
<1>6. Alone'
  BY <1>1, <1>3 DEF IInv, Alone, TypeOK
<1>7. RecordsHold'
  BY <1>2, <1>3 DEF IInv, RecordsHold, Settled
<1>8. QED
  BY <1>4, <1>5, <1>6, <1>7 DEF IInv

LEMMA PurgeIInv ==
  ASSUME IInv, TypeOK', NEW broad, Purge(broad)
  PROVE  IInv'
<1>1. /\ row' = [i \in Items |-> PurgedRow(row[i], broad)]
      /\ UNCHANGED <<tags, pc, shown, copy, plan, cur, touched, unsure, recorded>>
  BY DEF Purge, toolVars, history
<1>2. ASSUME NEW i \in Items PROVE Settled(i)'
  <2>1. Settled(i)
    BY DEF IInv, RecordsHold
  <2>2. ASSUME recorded[i] # "no", NEW r \in row'[i]
        PROVE  Folded(r.tags) = Folded(Managed(tags[i])) /\ Managed(r.tags) = r.tags
    <3>1. PICK x \in row[i] : r = [x EXCEPT !.tags = Purged(@, broad)]
      BY <1>1 DEF PurgedRow
    <3>2. x \in Rows
      BY DEF IInv, TypeOK
    <3>3. r.tags = Purged(x.tags, broad)
      BY <3>1, <3>2 DEF Rows
    <3>4. Managed(x.tags) = x.tags /\ Folded(x.tags) = Folded(Managed(tags[i]))
      BY <2>1, <2>2 DEF Settled
    <3>5. Purged(x.tags, broad) = x.tags
      BY <3>4 DEF Purged
    <3>6. QED
      BY <3>3, <3>4, <3>5
  <2>3. QED
    BY <1>1, <2>1, <2>2 DEF Settled
<1>3. PlansAreSound' /\ Approved'
  BY <1>1 DEF IInv, PlansAreSound, Approved, Digest
<1>4. CopiesHold' /\ Alone'
  BY <1>1 DEF IInv, CopiesHold, Alone
<1>5. QED
  BY <1>2, <1>3, <1>4 DEF IInv, RecordsHold

LEMMA ReadItemsIInv ==
  ASSUME IInv, TypeOK', ReadItems
  PROVE  IInv'
<1>1. PICK b \in Batches(todo) : \E lost \in SUBSET b :
        /\ copy' = [i \in Items |-> IF i \in lost THEN {} ELSE IF i \in b THEN {tags[i]} ELSE copy[i]]
        /\ touched' = touched \ b
  BY DEF ReadItems
<1>2. pc = "read" /\ pc' \in {"plan", "read"} /\ UNCHANGED <<tags, row, shown, plan, cur, unsure, recorded>>
  BY DEF ReadItems
<1>3. CopiesHold'
  BY <1>1, <1>2 DEF IInv, CopiesHold, Writing, TypeOK
<1>4. PlansAreSound' /\ Approved'
  BY <1>2 DEF IInv, PlansAreSound, Approved, Writing
<1>5. Alone' /\ RecordsHold'
  BY <1>2 DEF IInv, Alone, RecordsHold, Settled
<1>6. QED
  BY <1>3, <1>4, <1>5 DEF IInv

LEMMA DecideIInv ==
  ASSUME IInv, TypeOK', Decide
  PROVE  IInv'
<1>1. TypeOK /\ pc = "plan" /\ UNCHANGED <<tags, row, recorded>>
  BY DEF IInv, Decide
<1>2. \A i \in Items : Sound(Drawn[i])
  BY <1>1, DrawnIsSound
<1>3. RecordsHold'
  BY <1>1 DEF IInv, RecordsHold, Settled
<1>4. CASE shown' = {Drawn} /\ Exit
  BY <1>2, <1>3, <1>4, ExitIInv
<1>5. CASE Exit /\ UNCHANGED shown
  BY <1>3, <1>5, ExitIInv DEF IInv, PlansAreSound
<1>6. CASE /\ \A i \in Items : ~Drawn[i].refused
           /\ \E s \in shown : Digest(Drawn) = Digest(s)
           /\ pc' = "write" /\ plan' = Drawn
           /\ UNCHANGED <<apply, shown, copy, cur, touched, unsure>>
  <2>1. PlansAreSound'
    BY <1>2, <1>6 DEF IInv, PlansAreSound
  <2>2. Digest(plan)' = Digest(Drawn) /\ \A s \in shown : Digest(s)' = Digest(s)
    BY <1>6 DEF Digest
  <2>3. Approved'
    BY <1>1, <1>6, <2>2 DEF Approved, TypeOK, AtMostOne
  <2>4. ASSUME NEW i \in Items \ touched
        PROVE  \E c \in copy[i] : Foreign(c) = Foreign(tags[i]) /\ NoLegacy(c)
    <3>1. ~Refused(copy[i], row[i], Drawn[i].after)
      BY <1>6 DEF Drawn, PlanItem
    <3>2. PICK c \in copy[i] : TRUE
      BY <3>1 DEF Refused
    <3>3. c = tags[i]
      BY <1>1 DEF IInv, CopiesHold, Writing
    <3>4. NoLegacy(c)
      BY <3>1 DEF Refused, NoLegacy
    <3>5. QED
      BY <3>3, <3>4
  <2>5. CopiesHold'
    BY <1>1, <1>6, <2>4 DEF CopiesHold, Writing
  <2>6. Alone'
    BY <1>1, <1>6 DEF IInv, Alone
  <2>7. QED
    BY <1>3, <2>1, <2>3, <2>5, <2>6 DEF IInv
<1>7. QED
  BY <1>4, <1>5, <1>6 DEF Decide, Drawn

\* What a write leaves on an item.
LEMMA WrittenTags ==
  ASSUME IInv, pc \in Writing, NEW i \in Items \ touched, NEW ts, ts = Merged(UNION copy[i], plan[i].after)
  PROVE  Managed(ts) = plan[i].after /\ Foreign(ts) = Foreign(tags[i]) /\ NoLegacy(ts)
<1>1. PICK c \in copy[i] : Foreign(c) = Foreign(tags[i]) /\ NoLegacy(c)
  BY DEF IInv, CopiesHold
<1>2. UNION copy[i] = c
  BY <1>1 DEF IInv, TypeOK, AtMostOne
<1>3. \A t \in plan[i].after : t.kind \notin {"legacy", "keyword"}
  BY DEF IInv, PlansAreSound, Sound
<1>4. ts = {t \in c : t.kind = "keyword"} \cup plan[i].after
  BY <1>2 DEF Merged
<1>5. Managed(ts) = plan[i].after /\ NoLegacy(ts)
  BY <1>3, <1>4 DEF Managed, NoLegacy
<1>6. Foreign(ts) = {t \in c : t.kind = "keyword"}
  BY <1>3, <1>4 DEF Foreign, Managed
<1>7. Foreign(c) = {t \in c : t.kind = "keyword"}
  BY <1>1 DEF Foreign, Managed, NoLegacy
<1>8. QED
  BY <1>1, <1>5, <1>6, <1>7

LEMMA PostedIInv ==
  ASSUME IInv, TypeOK', NEW i \in Items, Write(i) \/ Retry(i)
  PROVE  IInv'
<1> DEFINE ts == Merged(UNION copy[i], plan[i].after)
           new == [tags EXCEPT ![i] = ts]
<1>1. TypeOK /\ pc \in Writing /\ UNCHANGED <<row, shown>>
  BY DEF IInv, Write, Retry, Writing
<1>2. recorded'[i] = "no" /\ \A j \in Items \ {i} : recorded'[j] = recorded[j]
  BY <1>1 DEF Write, Retry, IInv, Alone, TypeOK
<1>3. tags' = tags \/ tags' = new
  BY DEF Write, Retry, Posted
<1>4. \A j \in Items \ {i} : tags'[j] = tags[j]
  BY <1>1, <1>3 DEF TypeOK
<1>5. RecordsHold'
  BY <1>1, <1>2, <1>4 DEF IInv, RecordsHold, Settled
<1>6. CASE Exit
  BY <1>1, <1>5, <1>6, ExitIInv DEF IInv, PlansAreSound
<1>7. CASE /\ tags' = new /\ pc' \in {"check", "again"} /\ cur' = {i} /\ unsure' = unsure \cup {i}
           /\ UNCHANGED <<apply, copy, plan, left, touched>>
  <2>1. PlansAreSound' /\ Approved'
    BY <1>1, <1>7 DEF IInv, PlansAreSound, Approved, Digest, Writing
  <2>2. tags'[i] = ts
    BY <1>1, <1>7 DEF TypeOK
  <2>3. i \notin touched => Foreign(ts) = Foreign(tags[i])
    BY <1>1, WrittenTags
  <2>4. CopiesHold'
    BY <1>1, <1>4, <1>7, <2>2, <2>3 DEF IInv, CopiesHold, Writing
  <2>5. cur \subseteq {i}
    BY DEF Write, Retry, IInv, Alone, TypeOK, AtMostOne
  <2>6. Alone'
    BY <1>2, <1>7, <2>5 DEF IInv, Alone
  <2>7. QED
    BY <1>5, <2>1, <2>4, <2>6 DEF IInv
<1>8. QED
  BY <1>6, <1>7 DEF Write, Retry, Posted

LEMMA UndoIInv ==
  ASSUME IInv, TypeOK', NEW i \in Items, Undo(i)
  PROVE  IInv'
<1>1. /\ TypeOK /\ pc \in Writing /\ recorded[i] = "no" /\ tags' = [tags EXCEPT ![i] = UNION copy[i]]
      /\ UNCHANGED <<row, pc, shown, copy, plan, cur, touched, unsure, recorded>>
  BY DEF Undo, IInv, Alone, Writing, toolVars, history
<1>2. tags'[i] = UNION copy[i] /\ \A j \in Items \ {i} : tags'[j] = tags[j]
  BY <1>1 DEF TypeOK
<1>3. \A c \in copy[i] : UNION copy[i] = c
  BY <1>1 DEF TypeOK, AtMostOne
<1>4. CopiesHold'
  BY <1>1, <1>2, <1>3 DEF IInv, CopiesHold
<1>5. RecordsHold'
  BY <1>1, <1>2 DEF IInv, RecordsHold, Settled
<1>6. PlansAreSound' /\ Approved' /\ Alone'
  BY <1>1 DEF IInv, PlansAreSound, Approved, Digest, Alone
<1>7. QED
  BY <1>4, <1>5, <1>6 DEF IInv

\* What is recorded of an item that was just read back.
LEMMA NotedIsThere ==
  ASSUME IInv, NEW i \in Items
  PROVE  /\ Folded(Noted(i)) = Folded(Managed(tags[i])) /\ Managed(Noted(i)) = Noted(i)
         /\ AsWritten(i) /\ ~plan[i].refused => (\A t \in tags[i] : t.kind # "retired") /\ AtMostOne(Names(tags[i]))
<1>1. Sound(plan[i])
  BY DEF IInv, PlansAreSound
<1>2. Managed(plan[i].after) = plan[i].after
  BY <1>1 DEF Sound, Managed
<1>3. Folded(Noted(i)) = Folded(Managed(tags[i])) /\ Managed(Noted(i)) = Noted(i)
  BY <1>2 DEF Noted, AsWritten, Managed
<1>4. ASSUME AsWritten(i), ~plan[i].refused
      PROVE  (\A t \in tags[i] : t.kind # "retired") /\ AtMostOne(Names(tags[i]))
  <2>1. \A t \in Managed(tags[i]) : \E u \in plan[i].after : Fold(u) = Fold(t)
    BY <1>4 DEF AsWritten, Folded
  <2>2. \A t \in Managed(tags[i]) : \E u \in plan[i].after : Fold(u) = Fold(t) /\ u.kind = t.kind
    BY <2>1 DEF Fold
  <2>3. \A t \in tags[i] : t.kind # "retired"
    BY <1>1, <2>2 DEF Sound, Managed
  <2>4. Names(tags[i]) \subseteq Names(plan[i].after)
    BY <2>2 DEF Names, Folded, Managed
  <2>5. QED
    BY <1>1, <1>4, <2>3, <2>4 DEF Sound, AtMostOne
<1>5. QED
  BY <1>3, <1>4

LEMMA ReadBackIInv ==
  ASSUME IInv, TypeOK', NEW i \in Items, ReadBack(i)
  PROVE  IInv'
<1>1. TypeOK /\ pc \in Writing /\ i \in cur /\ UNCHANGED <<tags, shown>>
  BY DEF ReadBack, IInv, Writing
<1>2. ASSUME Recorded(i), recorded' = [recorded EXCEPT ![i] = IF AsWritten(i) THEN "ok" ELSE "wrong"]
      PROVE  RecordsHold'
  <2>1. row'[i] = {[r EXCEPT !.tags = Noted(i)] : r \in row[i]} /\ \A j \in Items \ {i} : row'[j] = row[j]
    BY <1>1, <1>2 DEF Recorded, TypeOK
  <2>2. recorded'[i] = (IF AsWritten(i) THEN "ok" ELSE "wrong") /\ \A j \in Items \ {i} : recorded'[j] = recorded[j]
    BY <1>1, <1>2 DEF TypeOK
  <2>3. \A r \in Rows : [r EXCEPT !.tags = Noted(i)].tags = Noted(i)
    BY DEF Rows
  <2>4. \A r \in row'[i] : r.tags = Noted(i)
    BY <1>1, <2>1, <2>3 DEF TypeOK
  <2>5. ~plan[i].refused
    BY <1>1 DEF IInv, Approved
  <2>6. Settled(i)'
    BY <1>1, <2>2, <2>4, <2>5, NotedIsThere DEF Settled
  <2>7. \A j \in Items \ {i} : Settled(j)'
    BY <1>1, <2>1, <2>2 DEF IInv, RecordsHold, Settled
  <2>8. QED
    BY <2>6, <2>7 DEF RecordsHold
<1>3. UNCHANGED <<row, recorded>> => RecordsHold'
  BY <1>1 DEF IInv, RecordsHold, Settled
<1>4. RecordsHold'
  BY <1>2, <1>3 DEF ReadBack, history
<1>5. CASE Exit
  BY <1>1, <1>4, <1>5, ExitIInv DEF IInv, PlansAreSound
<1>6. CASE /\ Proceeds(i)
           /\ pc' = "write" /\ cur' = {} /\ unsure' = IF AsWritten(i) THEN unsure \ {i} ELSE unsure
           /\ UNCHANGED <<apply, todo, copy, plan, touched>>
  <2>1. PlansAreSound' /\ Approved' /\ CopiesHold'
    BY <1>1, <1>6 DEF IInv, PlansAreSound, Approved, Digest, CopiesHold, Writing
  <2>2. cur = {i}
    BY <1>1 DEF TypeOK, AtMostOne
  <2>3. unsure' = {}
    BY <1>6, <2>2 DEF IInv, Alone, Proceeds
  <2>4. Alone'
    BY <1>6, <2>3 DEF Alone
  <2>5. QED
    BY <1>4, <2>1, <2>4 DEF IInv
<1>7. CASE /\ pc' = "retry" /\ copy' = [copy EXCEPT ![i] = {tags[i]}]
           /\ UNCHANGED <<row, apply, todo, plan, cur, left, history>>
  <2>1. PlansAreSound' /\ Approved' /\ Alone'
    BY <1>1, <1>7 DEF IInv, PlansAreSound, Approved, Digest, Alone, Writing, history, ReadBack
  <2>2. copy'[i] = {tags[i]} /\ \A j \in Items \ {i} : copy'[j] = copy[j]
    BY <1>1, <1>7 DEF TypeOK
  <2>3. i \notin touched => NoLegacy(tags[i])
    BY <1>1 DEF IInv, CopiesHold, Foreign, Managed, NoLegacy
  <2>4. CopiesHold'
    BY <1>1, <1>7, <2>2, <2>3 DEF IInv, CopiesHold, Writing, history
  <2>5. QED
    BY <1>4, <2>1, <2>4 DEF IInv
<1>8. QED
  BY <1>5, <1>6, <1>7 DEF ReadBack

LEMMA StepIInv == IInv /\ [Next]_vars => IInv'
<1> SUFFICES ASSUME IInv, [Next]_vars PROVE IInv'
  OBVIOUS
<1>0. TypeOK'
  BY StepTypeOK DEF IInv
<1>1. CASE UNCHANGED vars \/ OpenOrClose
  <2>1. UNCHANGED <<tags, row, toolVars, history>>
    BY <1>1 DEF vars, OpenOrClose
  <2>2. QED
    BY <1>0, <2>1 DEF toolVars, history, IInv, PlansAreSound, Approved, Digest, CopiesHold, Alone, RecordsHold, Settled
<1>2. CASE PurgeAtStart
  BY <1>0, <1>2, PurgeIInv DEF PurgeAtStart
<1>3. ASSUME NEW start \in BOOLEAN, Start(start) PROVE IInv'
  BY <1>0, <1>3 DEF Start, history, IInv, PlansAreSound, Approved, Digest, CopiesHold, Alone, RecordsHold, Settled, Writing
<1>4. CASE ReadItems
  BY <1>0, <1>4, ReadItemsIInv
<1>5. CASE Decide
  BY <1>0, <1>5, DecideIInv
<1>6. CASE Finish
  <2>1. Exit /\ UNCHANGED <<tags, row, shown, recorded>>
    BY <1>6 DEF Finish
  <2>2. RecordsHold'
    BY <2>1 DEF IInv, RecordsHold, Settled
  <2>3. QED
    BY <1>0, <2>1, <2>2, ExitIInv DEF IInv, PlansAreSound
<1>7. ASSUME NEW i \in Items, Edit(i) \/ Record(i) PROVE IInv'
  BY <1>0, <1>7, EditIInv
<1>8. ASSUME NEW i \in Items, Write(i) \/ Retry(i) PROVE IInv'
  BY <1>0, <1>8, PostedIInv
<1>9. ASSUME NEW i \in Items, Undo(i) PROVE IInv'
  BY <1>0, <1>9, UndoIInv
<1>10. ASSUME NEW i \in Items, ReadBack(i) PROVE IInv'
  BY <1>0, <1>10, ReadBackIInv
<1>11. QED
  BY <1>1, <1>2, <1>3, <1>4, <1>5, <1>6, <1>7, <1>8, <1>9, <1>10 DEF Next

LEMMA Invariant == Spec => []IInv
BY InitIInv, StepIInv, PTL DEF Spec

-----------------------------------------------------------------------------
(* The properties *)

\* No plan that is not refused leaves an item two resolutions, or none where there
\* was one, or takes more than retired spellings and one resolution (plan_item()).
THEOREM OneIsLeft == Spec => []PlanLeavesOne
<1>1. IInv => PlanLeavesOne
  <2> SUFFICES ASSUME IInv, NEW p \in shown \cup {plan}, NEW i \in Items, ~p[i].refused
               PROVE  /\ Names(p[i].before) # {} => Cardinality(Names(p[i].after)) = 1
                      /\ Cardinality(Names(p[i].remove)) <= 1
                      /\ \A t \in p[i].remove : t.kind \in {"res", "retired"}
    BY DEF PlanLeavesOne
  <2>1. Sound(p[i])
    BY DEF IInv, PlansAreSound
  <2>2. IsFiniteSet(Names(p[i].after)) /\ IsFiniteSet(Names(p[i].remove))
    BY <2>1, NamesAreFinite DEF Sound
  <2>3. Cardinality(Names(p[i].remove)) <= 1
    BY <2>1, <2>2, FewerThanTwo DEF Sound
  <2>4. ASSUME Names(p[i].before) # {} PROVE Cardinality(Names(p[i].after)) = 1
    <3>1. AtMostOne(Names(p[i].after)) /\ Names(p[i].after) # {}
      BY <2>1, <2>4 DEF Sound
    <3>2. \E x : Names(p[i].after) = {x}
      BY <3>1 DEF AtMostOne
    <3>3. QED
      BY <3>2, FS_Singleton
  <2>5. QED
    BY <2>1, <2>3, <2>4 DEF Sound
<1>2. QED
  BY <1>1, Invariant, PTL

\* An item that read back as written and that nobody has changed since has nothing
\* left for another clean-up, whatever its row says by then (plan_item(), apply()).
THEOREM CleanUpEnds == Spec => []CleanUpIsFinal
<1>1. IInv => CleanUpIsFinal
  <2> SUFFICES ASSUME IInv, NEW i \in Items, recorded[i] = "ok"
               PROVE  PlanItem({tags[i]}, row[i]).remove = {} /\ Cardinality(Names(tags[i])) <= 1
    BY DEF CleanUpIsFinal
  <2>1. tags[i] \in SUBSET Tag
    BY DEF IInv, TypeOK
  <2>2. (\A t \in tags[i] : t.kind # "retired") /\ AtMostOne(Names(tags[i]))
    BY DEF IInv, RecordsHold, Settled
  <2>3. IsFiniteSet(Names(tags[i]))
    BY <2>1, NamesAreFinite
  <2>4. QED
    BY <2>1, <2>2, <2>3, NothingToRemove, FewerThanTwo
<1>2. QED
  BY <1>1, Invariant, PTL

\* A row that the clean-up recorded has the tags that Jellyfin carries, until
\* somebody changes either; a purge of legacy tags does not (_record_after_readback()).
THEOREM RowsAgree == Spec => []RowSaysWhatIsThere
<1>1. IInv => RowSaysWhatIsThere
  BY DEF IInv, RecordsHold, Settled, RowSaysWhatIsThere
<1>2. QED
  BY <1>1, Invariant, PTL

\* However an apply fails, at most one item is other than planned (apply()).
THEOREM AtMostOneUnsure == Spec => []OneAtATime
<1>1. IInv => OneAtATime
  <2> SUFFICES ASSUME IInv PROVE Cardinality(unsure) <= 1
    BY DEF OneAtATime
  <2>1. AtMostOne(unsure)
    BY DEF IInv, TypeOK, Alone, AtMostOne
  <2>2. IsFiniteSet(unsure)
    BY FS_Subset, ConstantsAssumption DEF IInv, TypeOK
  <2>3. QED
    BY <2>1, <2>2, FewerThanTwo
<1>2. QED
  BY <1>1, Invariant, PTL

\* The digest is enough: plans with the same digest leave the same tags but for case.
LEMMA SameDigest ==
  ASSUME NEW p, NEW s, Digest(p) = Digest(s), NEW i \in Items, Sound(p[i]), Sound(s[i])
  PROVE  Counted(p[i].after) = Counted(s[i].after)
<1>1. Digest(p)[i] = <<Counted(p[i].before), Counted(p[i].remove)>>
  BY DEF Digest
<1>2. Digest(s)[i] = <<Counted(s[i].before), Counted(s[i].remove)>>
  BY DEF Digest
<1>3. Counted(p[i].before) = Counted(s[i].before) /\ Counted(p[i].remove) = Counted(s[i].remove)
  BY <1>1, <1>2
<1>4. QED
  BY <1>3, RestCountsAgree DEF Sound

\* Each write, and each retry, of an item that nobody changed since the apply read it
\* leaves what was shown, and the tags of others as they were (apply(),
\* CleanupPlan.digest()).
THEOREM ShownThenDone == Spec => ShownIsDone
<1>1. ASSUME IInv, [Next]_vars, NEW i \in Items \ touched, tags'[i] # tags[i], pc' # pc
      PROVE  /\ \A s \in shown : Counted(Managed(tags'[i])) = Counted(s[i].after)
             /\ tags'[i] \ Managed(tags'[i]) = tags[i] \ Managed(tags[i])
  <2>1. PICK j \in Items : Write(j) \/ Retry(j)
    BY <1>1 DEF Next, vars, OpenOrClose, PurgeAtStart, Purge, Start, ReadItems, Decide, Finish, Edit, Record, Touch, Undo, ReadBack, toolVars
  <2>2. TypeOK /\ pc \in Writing /\ (tags' = tags \/ tags' = [tags EXCEPT ![j] = Merged(UNION copy[j], plan[j].after)])
    BY <1>1, <2>1 DEF IInv, Write, Retry, Posted, Writing
  <2>3. i = j /\ tags'[i] = Merged(UNION copy[i], plan[i].after)
    BY <1>1, <2>2 DEF TypeOK
  <2>4. Managed(tags'[i]) = plan[i].after /\ Foreign(tags'[i]) = Foreign(tags[i])
    BY <1>1, <2>2, <2>3, WrittenTags
  <2>5. \A s \in shown : Counted(plan[i].after) = Counted(s[i].after)
    BY <1>1, <2>2, SameDigest DEF IInv, Approved, PlansAreSound
  <2>6. QED
    BY <2>4, <2>5 DEF Foreign
<1>2. IInv /\ [Next]_vars =>
        \A i \in Items \ touched : tags'[i] # tags[i] /\ pc' # pc =>
          /\ \A s \in shown : Counted(Managed(tags'[i])) = Counted(s[i].after)
          /\ tags'[i] \ Managed(tags'[i]) = tags[i] \ Managed(tags[i])
  BY <1>1
<1>3. QED
  BY <1>2, Invariant, PTL DEF Spec, ShownIsDone

\* A purge of the rows' legacy tags at a start of the app changes no plan and leaves
\* nothing for the next, also with a legacy prefix that the managed one begins with
\* (partition_legacy_tags()).
THEOREM PurgeIsNeutral == Spec => PurgeChangesNoPlan
<1>1. ASSUME TypeOK, NEW broad \in BOOLEAN, Purge(broad), NEW i \in Items
      PROVE  /\ PlanItem({tags[i]}, row'[i]) = PlanItem({tags[i]}, row[i])
             /\ PurgedRow(row'[i], broad) = row'[i]
  <2>1. row'[i] = PurgedRow(row[i], broad) /\ row[i] \in SUBSET Rows
    BY <1>1 DEF Purge, TypeOK
  <2> DEFINE P(x) == [x EXCEPT !.tags = Purged(@, broad)]
  <2>2. \A x \in Rows : P(x) \in Rows /\ P(x).res = x.res /\ P(x).tags = Purged(x.tags, broad)
    BY DEF Rows, Purged
  <2>3. \A ts : Names(Purged(ts, broad)) = Names(ts) /\ Purged(Purged(ts, broad), broad) = Purged(ts, broad)
    BY DEF Purged, Managed, Names
  <2>4. \A x \in Rows : P(P(x)) = P(x)
    BY <2>2, <2>3 DEF Rows
  <2>5. \A S : PurgedRow(S, broad) = {P(x) : x \in S}
    BY DEF PurgedRow
  <2> HIDE DEF P
  <2>6. \A ts : \A x \in Rows : Stray(ts, P(x)) = Stray(ts, x)
    BY <2>2, <2>3 DEF Stray
  <2>7. row'[i] = {P(x) : x \in row[i]} /\ row[i] \subseteq Rows
    BY <2>1, <2>5
  <2>8. \A ts : UNION {Stray(ts, y) : y \in row'[i]} = UNION {Stray(ts, x) : x \in row[i]}
    <3> SUFFICES ASSUME NEW ts PROVE {Stray(ts, y) : y \in row'[i]} = {Stray(ts, x) : x \in row[i]}
      OBVIOUS
    <3>1. \A x \in row[i] : P(x) \in row'[i] /\ Stray(ts, P(x)) = Stray(ts, x)
      BY <2>6, <2>7
    <3>2. \A y \in row'[i] : \E x \in row[i] : Stray(ts, y) = Stray(ts, x)
      BY <2>6, <2>7
    <3>3. QED
      BY <3>1, <3>2
  <2>9. row'[i] = {} <=> row[i] = {}
    BY <2>7
  <2>10. \A found, after : Refused(found, row'[i], after) = Refused(found, row[i], after)
    BY <2>9 DEF Refused
  <2>11. PlanItem({tags[i]}, row'[i]) = PlanItem({tags[i]}, row[i])
    BY <2>8, <2>10 DEF PlanItem
  <2>12. PurgedRow(row'[i], broad) = row'[i]
    <3>1. \A y \in row'[i] : P(y) = y
      BY <2>4, <2>7
    <3>2. {P(y) : y \in row'[i]} = row'[i]
      BY <3>1
    <3>3. QED
      BY <2>5, <3>2
  <2>13. QED
    BY <2>11, <2>12
<1>2. TypeOK => \A broad \in BOOLEAN : Purge(broad) => \A i \in Items :
        /\ PlanItem({tags[i]}, row'[i]) = PlanItem({tags[i]}, row[i])
        /\ PurgedRow(row'[i], broad) = row'[i]
  BY <1>1
<1>3. QED
  BY <1>2, TypeCorrect, PTL DEF Spec, PurgeChangesNoPlan
=============================================================================
