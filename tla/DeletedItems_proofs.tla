------------------------- MODULE DeletedItems_proofs -------------------------
(***************************************************************************)
(* Proofs about DeletedItems, for any library, objects, folders and bounds. *)
(***************************************************************************)
EXTENDS DeletedItems, FiniteSetTheorems, TLAPS

LEMMA Sizes ==
  ASSUME NEW S \in SUBSET Items
  PROVE  IsFiniteSet(S) /\ Cardinality(S) \in Nat
BY ConstantsAssumption, FS_Subset, FS_CardinalityType

LEMMA FaultTypeOK ==
  ASSUME left \in 0..MaxFaults, NEW f, Fault(f) \/ UNCHANGED left
  PROVE  left' \in 0..MaxFaults
BY ConstantsAssumption DEF Fault

LEMMA AbsentIsObject == Absent \in Objects /\ Nowhere \in [Objs -> Objects]
BY ConstantsAssumption DEF Absent, Objects, Nowhere

\* The pass's own state, and what only the world changes.
PassTypeOK ==
  /\ pc \in {"off", "list", "recount", "lookup", "plan", "strip", "edit", "check"}
  /\ seen \in SUBSET Items
  /\ total \in Nat \cup {-1} /\ size \in Nat
  /\ asked \in SUBSET Items /\ gone \in SUBSET Items
  /\ pre \in [Objs -> Objects]
  /\ todo \in SUBSET Objs /\ done \in SUBSET Objs
  /\ at \in SUBSET (Objs \X Objects)
  /\ writes \in BOOLEAN
  /\ asked \cap gone = {} /\ (asked # {} => pc = "lookup")
  /\ pc \in {"off", "list", "recount"} => gone = {}
  /\ todo \cup done # {} => pc \in {"strip", "edit", "check"}
  /\ todo \cap done = {} /\ (at # {} <=> pc \in {"edit", "check"})

WorldTypeOK ==
  /\ jf \in SUBSET Items /\ rows \in SUBSET Items
  /\ obj \in [Objs -> Objects]
  /\ left \in 0..MaxFaults
  /\ alive \in SUBSET Items /\ steady \in BOOLEAN /\ moved \in SUBSET Objs

LEMMA TypeParts == TypeOK <=> PassTypeOK /\ WorldTypeOK
BY DEF TypeOK, PassTypeOK, WorldTypeOK

LEMMA StopTypeOK == Stop => PassTypeOK'
<1> SUFFICES ASSUME Stop PROVE PassTypeOK'
  OBVIOUS
<1>1. /\ pc' = "off" /\ seen' = {} /\ total' = -1 /\ size' = 0 /\ asked' = {} /\ gone' = {}
      /\ pre' = Nowhere /\ todo' = {} /\ done' = {} /\ at' = {} /\ writes' = TRUE
  BY DEF Stop, Idle
<1>2. QED
  BY <1>1, AbsentIsObject DEF PassTypeOK

\* The steps, one disjunct per action.
LEMMA StepCases ==
  ASSUME [Next]_vars
  PROVE  \/ StartPass \/ ListPage \/ Recount \/ Plan \/ DeleteRows \/ Crash \/ LibraryChanges
         \/ \E i \in Items : Lookup(i)
         \/ \E o \in Objs : Fetch(o)
         \/ \E o \in Objs : \E copy : <<o, copy>> \in at /\ (Edit(o, copy) \/ Check(o, copy))
         \/ \E i \in Items : Webhook(i)
         \/ \E o \in Objs : Disturb(o)
         \/ UNCHANGED vars
BY DEF Next, PassStep, Edit, Check

LEMMA SettleTypeOK ==
  ASSUME TypeOK, pc \in {"strip", "edit", "check"}, NEW o \in Objs, NEW stripped, Settle(o, stripped)
  PROVE  PassTypeOK'
<1>1. todo' = todo \ {o} /\ done' \in {done, done \cup {o}} /\ pc' = "strip" /\ at' = {} /\ asked = {}
  BY DEF Settle, TypeOK
<1>2. QED
  BY <1>1 DEF Settle, TypeOK, PassTypeOK

LEMMA StepTypeOK ==
  ASSUME TypeOK, [Next]_vars
  PROVE  TypeOK'
<1>1. left \in 0..MaxFaults
  BY DEF TypeOK
<1>2. CASE StartPass
  <2>1. /\ pc' = "list" /\ seen' = {} /\ total' = -1 /\ size' = 0 /\ asked' = {} /\ gone' = {}
        /\ pre' = Nowhere /\ todo' = {} /\ done' = {} /\ at' = {} /\ writes' \in BOOLEAN
    BY <1>2 DEF StartPass, Idle
  <2>2. PassTypeOK'
    BY <2>1, AbsentIsObject DEF PassTypeOK
  <2>3. left' \in 0..MaxFaults
    BY <1>1, <1>2, FaultTypeOK DEF StartPass
  <2>4. WorldTypeOK'
    BY <1>2, <2>3 DEF StartPass, TypeOK, WorldTypeOK
  <2>5. QED
    BY <2>2, <2>4 DEF TypeOK, PassTypeOK, WorldTypeOK
<1>3. CASE ListPage
  <2>1. PageAfter(Cardinality(seen)) \subseteq Items
    BY DEF PageAfter, TypeOK
  <2>2. Cardinality(jf) \in Nat
    BY Sizes DEF TypeOK
  <2>3. left' \in 0..MaxFaults
    BY <1>1, <1>3, FaultTypeOK DEF ListPage, Broken
  <2>4. PassTypeOK'
    <3>1. CASE Stop
      BY <3>1, StopTypeOK
    <3>2. CASE ~Stop
      <4>1. /\ seen' = seen \cup PageAfter(Cardinality(seen)) /\ total' = Cardinality(jf)
            /\ pc' \in {"recount", "list"}
            /\ UNCHANGED <<size, asked, gone, pre, todo, done, writes, at>> /\ pc = "list"
        BY <1>3, <3>2 DEF ListPage, Broken
      <4>2. QED
        BY <2>1, <2>2, <4>1 DEF TypeOK, PassTypeOK
    <3>3. QED
      BY <3>1, <3>2
  <2>5. WorldTypeOK'
    BY <1>3, <2>3 DEF ListPage, TypeOK, WorldTypeOK
  <2>6. QED
    BY <2>4, <2>5 DEF TypeOK, PassTypeOK, WorldTypeOK
<1>4. CASE Recount
  <2>1. rows \ seen \subseteq Items /\ Cardinality(rows) \in Nat
    BY Sizes DEF TypeOK
  <2>2. left' \in 0..MaxFaults
    BY <1>1, <1>4, FaultTypeOK DEF Recount, Broken
  <2>3. PassTypeOK'
    <3>1. CASE Stop
      BY <3>1, StopTypeOK
    <3>2. CASE ~Stop
      <4>1. /\ asked' = rows \ seen /\ size' = Cardinality(rows)
            /\ pc' = IF rows \ seen = {} THEN "plan" ELSE "lookup"
            /\ UNCHANGED <<seen, total, gone, pre, todo, done, writes, at>> /\ pc = "recount"
        BY <1>4, <3>2 DEF Recount, Broken
      <4>2. QED
        BY <2>1, <4>1 DEF TypeOK, PassTypeOK
    <3>3. QED
      BY <3>1, <3>2
  <2>4. WorldTypeOK'
    BY <1>4, <2>2 DEF Recount, TypeOK, WorldTypeOK
  <2>5. QED
    BY <2>3, <2>4 DEF TypeOK, PassTypeOK, WorldTypeOK
<1>5. ASSUME NEW i \in Items, Lookup(i)
      PROVE  TypeOK'
  <2>1. left' \in 0..MaxFaults
    BY <1>1, <1>5, FaultTypeOK DEF Lookup, Broken
  <2>2. PassTypeOK'
    <3>1. CASE Stop
      BY <3>1, StopTypeOK
    <3>2. CASE ~Stop
      <4>1. /\ gone' \in {gone, gone \cup {i}} /\ asked' = asked \ {i} /\ i \in asked
            /\ pc' = IF asked = {i} THEN "plan" ELSE "lookup"
            /\ UNCHANGED <<seen, total, size, pre, todo, done, writes, at>> /\ pc = "lookup"
        BY <1>5, <3>2 DEF Lookup, Broken
      <4>2. QED
        BY <4>1 DEF TypeOK, PassTypeOK
    <3>3. QED
      BY <3>1, <3>2
  <2>3. WorldTypeOK'
    BY <1>5, <2>1 DEF Lookup, TypeOK, WorldTypeOK
  <2>4. QED
    BY <2>2, <2>3 DEF TypeOK, PassTypeOK, WorldTypeOK
<1>6. CASE Plan
  <2>1. UNION {Planned(obj, i) : i \in gone} \subseteq Objs
    BY DEF Planned, Owners, In
  <2>2. left' \in 0..MaxFaults
    BY <1>1, <1>6, FaultTypeOK DEF Plan, Broken
  <2>3. PassTypeOK'
    <3>1. CASE Stop
      BY <3>1, StopTypeOK
    <3>2. CASE ~Stop
      <4>1. /\ pre' = obj /\ pc' = "strip" /\ todo' = UNION {Planned(obj, i) : i \in gone}
            /\ UNCHANGED <<seen, total, size, asked, gone, done, writes, at>> /\ pc = "plan"
        BY <1>6, <3>2 DEF Plan, Broken
      <4> HIDE DEF Planned
      <4>2. todo' \in SUBSET Objs
        BY <2>1, <4>1
      <4>3. QED
        BY <4>1, <4>2 DEF TypeOK, PassTypeOK
    <3>3. QED
      BY <3>1, <3>2
  <2>4. WorldTypeOK'
    BY <1>6, <2>2 DEF Plan, TypeOK, WorldTypeOK
  <2>5. QED
    BY <2>3, <2>4 DEF TypeOK, PassTypeOK, WorldTypeOK
<1>7. ASSUME NEW o \in Objs, Fetch(o)
      PROVE  TypeOK'
  <2>1. left' \in 0..MaxFaults
    BY <1>1, <1>7, FaultTypeOK DEF Fetch, Broken
  <2>2. PassTypeOK'
    <3>1. CASE Stop
      BY <3>1, StopTypeOK
    <3>2. CASE \E stripped : Settle(o, stripped)
      BY <1>7, <3>2, SettleTypeOK DEF Fetch
    <3>3. CASE pc' = "edit" /\ at' = {<<o, obj[o]>>} /\ UNCHANGED <<seen, total, size, asked, gone, pre, todo, done, writes>>
      <4>1. pc = "strip" /\ obj[o] \in Objects
        BY <1>7 DEF Fetch, TypeOK
      <4>2. QED
        BY <3>3, <4>1 DEF TypeOK, PassTypeOK
    <3>4. QED
      BY <1>7, <3>1, <3>2, <3>3 DEF Fetch, Broken
  <2>3. WorldTypeOK'
    BY <1>7, <2>1 DEF Fetch, TypeOK, WorldTypeOK
  <2>4. QED
    BY <2>2, <2>3 DEF TypeOK, PassTypeOK, WorldTypeOK
<1>8. ASSUME NEW o \in Objs, NEW copy, <<o, copy>> \in at, Edit(o, copy)
      PROVE  TypeOK'
  <2>1. left' \in 0..MaxFaults
    BY <1>1, <1>8, FaultTypeOK DEF Edit, Broken
  <2>2. PassTypeOK'
    <3>1. CASE Stop
      BY <3>1, StopTypeOK
    <3>2. CASE ~Stop
      <4>1. pc' = "check" /\ UNCHANGED <<seen, total, size, asked, gone, pre, todo, done, writes, at>> /\ pc = "edit"
        BY <1>8, <3>2 DEF Edit, Broken
      <4>2. QED
        BY <4>1 DEF TypeOK, PassTypeOK
    <3>3. QED
      BY <3>1, <3>2
  <2>3. obj' \in [Objs -> Objects]
    <3>1. PICK tags \in {{}, obj[o].tags \ copy.tags} : obj' \in {obj, [obj EXCEPT ![o].tags = tags]}
      BY <1>8 DEF Edit
    <3>2. obj \in [Objs -> Objects] /\ tags \subseteq Items
      BY DEF TypeOK, Objects
    <3>3. QED
      BY <3>1, <3>2 DEF Objects
  <2>4. WorldTypeOK'
    BY <1>8, <2>1, <2>3 DEF Edit, TypeOK, WorldTypeOK
  <2>5. QED
    BY <2>2, <2>4 DEF TypeOK, PassTypeOK, WorldTypeOK
<1>9. ASSUME NEW o \in Objs, NEW copy, Check(o, copy)
      PROVE  TypeOK'
  <2>1. left' \in 0..MaxFaults
    BY <1>1, <1>9, FaultTypeOK DEF Check, Broken
  <2>2. PassTypeOK'
    BY <1>9, StopTypeOK, SettleTypeOK DEF Check, Broken
  <2>3. WorldTypeOK'
    BY <1>9, <2>1 DEF Check, TypeOK, WorldTypeOK
  <2>4. QED
    BY <2>2, <2>3 DEF TypeOK, PassTypeOK, WorldTypeOK
<1>10. CASE DeleteRows \/ Crash
  <2>1. left' \in 0..MaxFaults
    BY <1>1, <1>10, FaultTypeOK DEF DeleteRows, Crash
  <2>2. PassTypeOK'
    BY <1>10, StopTypeOK DEF DeleteRows, Crash
  <2>3. WorldTypeOK'
    BY <1>10, <2>1 DEF DeleteRows, Crash, TypeOK, WorldTypeOK
  <2>4. QED
    BY <2>2, <2>3 DEF TypeOK, PassTypeOK, WorldTypeOK
<1>11. CASE LibraryChanges
  <2>1. left' \in 0..MaxFaults
    BY <1>1, <1>11, FaultTypeOK DEF LibraryChanges
  <2>2. jf' \in SUBSET Items /\ alive' \in SUBSET Items /\ steady' \in BOOLEAN
    BY <1>11 DEF LibraryChanges, TypeOK
  <2>3. UNCHANGED <<rows, obj, pc, seen, total, size, asked, gone, pre, todo, done, writes, at, moved>>
    BY <1>11 DEF LibraryChanges, passVars
  <2>4. QED
    BY <2>1, <2>2, <2>3 DEF TypeOK
<1>12. ASSUME NEW i \in Items, Webhook(i)
       PROVE  TypeOK'
  <2>1. obj' \in [Objs -> Objects]
    <3>1. \A o \in Objs : obj[o] \in Objects /\ [obj[o] EXCEPT !.tags = {i}] \in Objects
      BY DEF TypeOK, Objects
    <3>2. QED
      BY <1>12, <3>1 DEF Webhook
  <2>2. rows' \in SUBSET Items
    BY <1>12 DEF Webhook, TypeOK
  <2>3. UNCHANGED <<jf, pc, seen, total, size, asked, gone, pre, todo, done, writes, at, left, alive, steady, moved>>
    BY <1>12 DEF Webhook, passVars
  <2>4. QED
    BY <2>1, <2>2, <2>3 DEF TypeOK
<1>13. ASSUME NEW o \in Objs, Disturb(o)
       PROVE  TypeOK'
  <2>1. left' \in 0..MaxFaults
    BY <1>1, <1>13, FaultTypeOK DEF Disturb
  <2>2. obj' \in [Objs -> Objects] /\ moved' \in SUBSET Objs
    <3>1. obj[o] \in Objects /\ obj \in [Objs -> Objects] /\ moved \in SUBSET Objs
      BY DEF TypeOK
    <3>2. [obj[o] EXCEPT !.rest = ~@] \in Objects /\ \A f \in Folders : [obj[o] EXCEPT !.path = f] \in Objects
      BY <3>1 DEF Objects
    <3>3. QED
      BY <1>13, <3>1, <3>2, AbsentIsObject DEF Disturb
  <2>3. UNCHANGED <<jf, rows, pc, seen, total, size, asked, gone, pre, todo, done, writes, at, alive, steady>>
    BY <1>13 DEF Disturb, passVars
  <2>4. QED
    BY <2>1, <2>2, <2>3 DEF TypeOK
<1>14. CASE UNCHANGED vars
  BY <1>14 DEF vars, passVars, TypeOK
<1>15. QED
  BY <1>2, <1>3, <1>4, <1>5, <1>6, <1>7, <1>8, <1>9, <1>10, <1>11, <1>12, <1>13, <1>14, StepCases

LEMMA InitTypeOK == Init => TypeOK
<1> SUFFICES ASSUME Init PROVE TypeOK
  OBVIOUS
<1>1. PassTypeOK
  BY AbsentIsObject DEF Init, PassTypeOK
<1>2. obj \in [Objs -> Objects]
  <2>1. PICK path \in Paths0 :
          obj = [o \in Objs |-> [here |-> TRUE, path |-> path[o], rest |-> FALSE,
                                 tags |-> Newest({i \in rows : path[o] \in ItemFolders[i]})]]
    BY DEF Init
  <2>2. \A o \in Objs : path[o] \in Folders
    BY ConstantsAssumption
  <2>3. rows \subseteq Items
    BY DEF Init
  <2>4. \A o \in Objs : Newest({i \in rows : path[o] \in ItemFolders[i]}) \subseteq Items
    BY <2>3 DEF Newest
  <2>5. QED
    BY <2>1, <2>2, <2>4 DEF Objects
<1>3. jf \in SUBSET Items /\ rows \in SUBSET Items /\ alive \in SUBSET Items
  BY ConstantsAssumption DEF Init
<1>4. left \in 0..MaxFaults /\ steady \in BOOLEAN /\ moved \in SUBSET Objs
  BY ConstantsAssumption DEF Init
<1>5. QED
  BY <1>1, <1>2, <1>3, <1>4 DEF TypeOK, PassTypeOK

\* The state of the deleted-items pass is of its type in every reachable state.
THEOREM TypeCorrect == Spec => []TypeOK
BY InitTypeOK, StepTypeOK, PTL DEF Spec

-----------------------------------------------------------------------------
(* Only rows of deleted items go *)

\* The items that were there all along are still there, and none was confirmed.
Unconfirmed == alive \subseteq jf /\ gone \cap alive = {}

LEMMA StopEmpties == Stop => gone' = {} /\ pc' = "off" /\ todo' = {} /\ at' = {}
BY DEF Stop, Idle

LEMMA StepUnconfirmed ==
  ASSUME TypeOK, Unconfirmed, [Next]_vars
  PROVE  Unconfirmed'
<1>1. CASE StartPass
  BY <1>1 DEF StartPass, Idle, Unconfirmed
<1>2. CASE ListPage \/ Recount \/ Plan \/ DeleteRows \/ Crash
  <2>1. jf' = jf /\ alive' = alive /\ (Stop \/ gone' = gone)
    BY <1>2 DEF ListPage, Recount, Plan, DeleteRows, Crash, Broken
  <2>2. QED
    BY <2>1, StopEmpties DEF Unconfirmed
<1>3. ASSUME NEW i \in Items, Lookup(i)
      PROVE  Unconfirmed'
  <2>1. jf' = jf /\ alive' = alive
    BY <1>3 DEF Lookup
  <2>2. CASE Stop
    BY <2>1, <2>2, StopEmpties DEF Unconfirmed
  <2>3. CASE ~Stop
    <3>1. PICK answered \in {jf, {}}, control \in seen :
            control \in answered /\ gone' = IF Confirmed(i, answered) THEN gone \cup {i} ELSE gone
      BY <1>3, <2>3 DEF Lookup, Broken
    <3>2. answered = jf
      BY <3>1
    <3>3. gone' = gone \/ (gone' = gone \cup {i} /\ i \notin jf)
      BY <3>1, <3>2 DEF Confirmed
    <3>4. QED
      BY <2>1, <3>3 DEF Unconfirmed
  <2>4. QED
    BY <2>2, <2>3
<1>4. ASSUME NEW o \in Objs, Fetch(o) \/ \E copy : Edit(o, copy) \/ Check(o, copy)
      PROVE  Unconfirmed'
  <2>1. jf' = jf /\ alive' = alive /\ (Stop \/ gone' = gone)
    BY <1>4 DEF Fetch, Edit, Check, Settle, Broken
  <2>2. QED
    BY <2>1, StopEmpties DEF Unconfirmed
<1>5. CASE LibraryChanges
  <2>1. gone' = gone
    BY <1>5 DEF LibraryChanges, passVars
  <2>2. \/ jf \subseteq jf' /\ alive' = alive
        \/ \E i \in jf : jf' = jf \ {i} /\ alive' = alive \ {i}
    BY <1>5 DEF LibraryChanges
  <2>3. QED
    BY <2>1, <2>2 DEF Unconfirmed
<1>6. ASSUME NEW i \in Items, Webhook(i)
      PROVE  Unconfirmed'
  BY <1>6 DEF Webhook, passVars, Unconfirmed
<1>7. ASSUME NEW o \in Objs, Disturb(o)
      PROVE  Unconfirmed'
  BY <1>7 DEF Disturb, passVars, Unconfirmed
<1>8. CASE UNCHANGED vars
  BY <1>8 DEF vars, passVars, Unconfirmed
<1>9. QED
  BY <1>1, <1>2, <1>3, <1>4, <1>5, <1>6, <1>7, <1>8, StepCases

LEMMA StepKeepsLiveRows ==
  ASSUME Unconfirmed, [Next]_vars
  PROVE  [alive \cap rows \subseteq rows']_vars
<1>1. CASE DeleteRows
  <2>1. PICK some \in SUBSET Doomed : rows' = rows \ some
    BY <1>1 DEF DeleteRows
  <2>2. Doomed \subseteq gone
    BY DEF Doomed
  <2>3. QED
    BY <2>1, <2>2 DEF Unconfirmed
<1>2. CASE rows \subseteq rows'
  BY <1>2
<1>3. rows \subseteq rows' \/ DeleteRows
  BY StepCases DEF StartPass, ListPage, Recount, Plan, Crash, LibraryChanges, Lookup, Fetch, Edit, Check,
                   Webhook, Disturb, vars
<1>4. QED
  BY <1>1, <1>2, <1>3

\* No row goes whose item Jellyfin had during the whole pass, however its library
\* changes between the pages and whatever the lookups fail to answer
\* (complete_listing(), confirm_deleted()).
THEOREM LiveRowsStay == Spec => OnlyGoneRows
<1>1. Init => Unconfirmed
  BY DEF Init, Unconfirmed
<1>2. TypeOK /\ Unconfirmed /\ [Next]_vars => Unconfirmed'
  BY StepUnconfirmed
<1>3. Unconfirmed /\ [Next]_vars => [alive \cap rows \subseteq rows']_vars
  BY StepKeepsLiveRows
<1>4. QED
  BY <1>1, <1>2, <1>3, TypeCorrect, PTL DEF Spec, OnlyGoneRows

-----------------------------------------------------------------------------
(* Objects in the folders of live items *)

\* While the library stands still, the listing is the library; what is planned is
\* outside the folders of what was listed, and the object in hand has not left its
\* folder unless somebody moved it.
Apart ==
  /\ steady /\ pc = "list" => seen \subseteq jf
  /\ steady /\ pc \notin {"off", "list"} => seen = jf
  /\ \A o \in todo : pre[o].path \notin LiveFolders
  /\ \A o \in Objs : ~obj[o].here => obj[o].tags = {}
  /\ \A o \in Objs, copy \in Objects : <<o, copy>> \in at =>
       /\ pre[o].path \notin LiveFolders
       /\ o \in moved \/ ~obj[o].here \/ obj[o].path = pre[o].path

\* The listing stops growing when it counts as much as the library.
LEMMA ListIsLibrary ==
  ASSUME TypeOK, NEW S, S \subseteq jf, Cardinality(S) = Cardinality(jf)
  PROVE  S = jf
<1>1. IsFiniteSet(jf)
  BY Sizes DEF TypeOK
<1>2. S # jf => Cardinality(S) < Cardinality(jf)
  BY <1>1, FS_Subset
<1>3. Cardinality(jf) \in Nat
  BY Sizes DEF TypeOK
<1>4. QED
  BY <1>2, <1>3

LEMMA PlannedIsApart ==
  ASSUME NEW i, NEW o \in Planned(obj, i)
  PROVE  obj[o].path \notin LiveFolders
<1>1. o \in Owners(obj, i) /\ Hits(obj, i) \cap LiveFolders = {}
  BY DEF Planned, KeptLive
<1>2. obj[o].path \in Hits(obj, i)
  BY <1>1 DEF Owners, In
<1>3. QED
  BY <1>1, <1>2

\* After the pass stops, nothing of it is left to be apart.
LEMMA StopApart ==
  ASSUME Apart, Stop, UNCHANGED <<jf, steady, moved>>,
         \A o \in Objs : ~obj'[o].here => obj'[o].tags = {}
  PROVE  Apart'
BY StopEmpties DEF Apart

LEMMA StepApart ==
  ASSUME TypeOK, Apart, [Next]_vars
  PROVE  Apart'
<1>1. CASE StartPass
  BY <1>1 DEF StartPass, Idle, Apart
<1>2. CASE ListPage
  <2>1. UNCHANGED <<jf, obj, steady, moved>>
    BY <1>2 DEF ListPage
  <2>2. CASE Stop
    BY <2>1, <2>2, StopApart DEF Apart
  <2>3. CASE ~Stop
    <3>1. /\ seen' = seen \cup PageAfter(Cardinality(seen)) /\ pc = "list"
          /\ pc' = IF Cardinality(seen') = Cardinality(jf) THEN "recount" ELSE "list"
          /\ UNCHANGED <<todo, at, pre>>
      BY <1>2, <2>3 DEF ListPage, Broken
    <3>2. PageAfter(Cardinality(seen)) \subseteq jf
      BY DEF PageAfter
    <3>3. steady => seen' \subseteq jf
      BY <3>1, <3>2 DEF Apart
    <3>4. steady /\ pc' = "recount" => seen' = jf
      BY <3>1, <3>3, ListIsLibrary
    <3>5. at = {}
      BY <3>1 DEF TypeOK
    <3>6. todo = {}
      BY <3>1 DEF TypeOK
    <3>7. QED
      BY <2>1, <3>1, <3>3, <3>4, <3>5, <3>6 DEF Apart
  <2>4. QED
    BY <2>2, <2>3
<1>3. CASE Recount \/ \E i \in Items : Lookup(i)
  <2>1. UNCHANGED <<jf, obj, steady, moved>>
    BY <1>3 DEF Recount, Lookup
  <2>2. CASE Stop
    BY <2>1, <2>2, StopApart DEF Apart
  <2>3. CASE ~Stop
    <3>1. UNCHANGED <<seen, todo, at, pre>> /\ pc \notin {"off", "list"} /\ pc' \in {"plan", "lookup"}
      BY <1>3, <2>3 DEF Recount, Lookup, Broken
    <3>2. QED
      BY <2>1, <3>1 DEF Apart, LiveFolders
  <2>4. QED
    BY <2>2, <2>3
<1>4. CASE Plan
  <2>1. UNCHANGED <<jf, obj, steady, moved>>
    BY <1>4 DEF Plan
  <2>2. CASE Stop
    BY <2>1, <2>2, StopApart DEF Apart
  <2>3. CASE ~Stop
    <3>1. /\ UNCHANGED <<seen, at>> /\ pc = "plan" /\ pc' = "strip"
          /\ pre' = obj /\ todo' = UNION {Planned(obj, i) : i \in gone}
      BY <1>4, <2>3 DEF Plan, Broken
    <3>2. \A o \in todo' : obj[o].path \notin LiveFolders
      BY <3>1, PlannedIsApart
    <3>3. at = {}
      BY <3>1 DEF TypeOK
    <3>4. QED
      BY <2>1, <3>1, <3>2, <3>3 DEF Apart, LiveFolders
  <2>4. QED
    BY <2>2, <2>3
<1>5. ASSUME NEW o \in Objs, Fetch(o)
      PROVE  Apart'
  <2>1. UNCHANGED <<jf, obj, steady, moved>> /\ pc = "strip" /\ o \in todo
    BY <1>5 DEF Fetch
  <2>2. CASE Stop
    BY <2>1, <2>2, StopApart DEF Apart
  <2>3. CASE \E stripped : Settle(o, stripped)
    <3>1. UNCHANGED <<seen, pre>> /\ todo' \subseteq todo /\ at' = {} /\ pc' = "strip"
      BY <2>3 DEF Settle
    <3>2. QED
      BY <2>1, <3>1 DEF Apart, LiveFolders
  <2>4. CASE SamePlace(o) /\ at' = {<<o, obj[o]>>} /\ pc' = "edit" /\ UNCHANGED <<seen, pre, todo>>
    <3>1. pre[o].path \notin LiveFolders /\ obj[o].path = pre[o].path
      BY <2>1, <2>4 DEF Apart, SamePlace
    <3>2. QED
      BY <2>1, <2>4, <3>1 DEF Apart, LiveFolders
  <2>5. QED
    BY <1>5, <2>2, <2>3, <2>4 DEF Fetch, Broken
<1>6. ASSUME NEW o \in Objs, NEW copy, <<o, copy>> \in at, Edit(o, copy)
      PROVE  Apart'
  <2>1. UNCHANGED <<jf, steady, moved>> /\ pc = "edit"
    BY <1>6 DEF Edit
  <2>2. PICK tags \in {{}, obj[o].tags \ copy.tags} : obj' \in {obj, [obj EXCEPT ![o].tags = tags]}
    BY <1>6 DEF Edit
  <2>3. \A p \in Objs : obj'[p].here = obj[p].here /\ obj'[p].path = obj[p].path
    BY <2>2 DEF TypeOK, Objects
  <2>4. \A p \in Objs : ~obj'[p].here => obj'[p].tags = {}
    <3>1. \A p \in Objs : obj'[p].tags \subseteq obj[p].tags
      BY <2>2 DEF TypeOK, Objects
    <3>2. QED
      BY <2>3, <3>1 DEF Apart
  <2>5. CASE Stop
    BY <2>1, <2>4, <2>5, StopApart
  <2>6. CASE ~Stop
    <3>1. UNCHANGED <<seen, pre, todo, at>> /\ pc' = "check"
      BY <1>6, <2>6 DEF Edit, Broken
    <3>2. QED
      BY <2>1, <2>3, <2>4, <3>1 DEF Apart, LiveFolders
  <2>7. QED
    BY <2>5, <2>6
<1>7. ASSUME NEW o \in Objs, NEW copy, Check(o, copy)
      PROVE  Apart'
  <2>1. UNCHANGED <<jf, obj, steady, moved>> /\ pc = "check"
    BY <1>7 DEF Check
  <2>2. CASE Stop
    BY <2>1, <2>2, StopApart DEF Apart
  <2>3. CASE Settle(o, TRUE)
    <3>1. UNCHANGED <<seen, pre>> /\ todo' \subseteq todo /\ at' = {} /\ pc' = "strip"
      BY <2>3 DEF Settle
    <3>2. QED
      BY <2>1, <3>1 DEF Apart, LiveFolders
  <2>4. QED
    BY <1>7, <2>2, <2>3 DEF Check, Broken
<1>8. CASE DeleteRows \/ Crash
  <2>1. UNCHANGED <<jf, obj, steady, moved>> /\ Stop
    BY <1>8 DEF DeleteRows, Crash
  <2>2. QED
    BY <2>1, StopApart DEF Apart
<1>9. CASE LibraryChanges
  <2>1. steady' = FALSE /\ UNCHANGED <<obj, pc, seen, pre, todo, at, moved>>
    BY <1>9 DEF LibraryChanges, passVars
  <2>2. QED
    BY <2>1 DEF Apart, LiveFolders
<1>10. ASSUME NEW i \in Items, Webhook(i)
       PROVE  Apart'
  <2>1. UNCHANGED <<jf, pc, seen, pre, todo, at, steady, moved>>
    BY <1>10 DEF Webhook, passVars
  <2>2. \A o \in Objs : /\ obj'[o].here = obj[o].here /\ obj'[o].path = obj[o].path
                        /\ ~obj[o].here => obj'[o].tags = obj[o].tags
    BY <1>10 DEF Webhook, TypeOK, Objects
  <2>3. QED
    BY <2>1, <2>2 DEF Apart, LiveFolders
<1>11. ASSUME NEW o \in Objs, Disturb(o)
       PROVE  Apart'
  <2>1. UNCHANGED <<jf, pc, seen, pre, todo, at, steady>> /\ moved \subseteq moved'
    BY <1>11 DEF Disturb, passVars
  <2>2. \A p \in Objs : /\ ~obj'[p].here => obj'[p].tags = {}
                        /\ p \in moved' \/ ~obj'[p].here \/ (obj[p].here /\ obj'[p].path = obj[p].path)
    <3>1. CASE obj' = [obj EXCEPT ![o].rest = ~@]
      BY <3>1 DEF Apart, TypeOK, Objects
    <3>2. CASE \E f \in Folders : obj' = [obj EXCEPT ![o].path = f] /\ moved' = moved \cup {o}
      BY <1>11, <3>2 DEF Apart, TypeOK, Objects, Disturb
    <3>3. CASE obj' = [obj EXCEPT ![o] = Absent]
      BY <3>3 DEF Apart, TypeOK, Objects, Absent
    <3>4. QED
      BY <1>11, <3>1, <3>2, <3>3 DEF Disturb
  <2>3. QED
    BY <2>1, <2>2 DEF Apart, LiveFolders
<1>12. CASE UNCHANGED vars
  BY <1>12 DEF vars, passVars, Apart, LiveFolders
<1>13. QED
  BY <1>1, <1>2, <1>3, <1>4, <1>5, <1>6, <1>7, <1>8, <1>9, <1>10, <1>11, <1>12, StepCases

\* What a step may not do, in the words of the property.
KeptStep ==
  \A o \in Objs :
    pc = "edit" /\ pc' # pc /\ steady /\ o \notin moved /\ (\E j \in jf : obj[o].path \in ItemFolders[j])
      => obj'[o].tags = obj[o].tags

LEMMA StepKeepsLiveFolders ==
  ASSUME TypeOK, Apart, [Next]_vars
  PROVE  KeptStep
<1> SUFFICES ASSUME NEW p \in Objs, pc = "edit", pc' # pc, steady, p \notin moved,
                    NEW j \in jf, obj[p].path \in ItemFolders[j]
             PROVE  obj'[p].tags = obj[p].tags
  BY DEF KeptStep
<1>1. obj[p].path \in LiveFolders
  BY DEF LiveFolders, Apart
<1>2. ASSUME NEW o \in Objs, NEW copy, <<o, copy>> \in at, Edit(o, copy)
      PROVE  obj'[p].tags = obj[p].tags
  <2>1. PICK tags \in {{}, obj[o].tags \ copy.tags} : obj' \in {obj, [obj EXCEPT ![o].tags = tags]}
    BY <1>2 DEF Edit
  <2>2. CASE p # o
    BY <2>1, <2>2 DEF TypeOK, Objects
  <2>3. CASE p = o
    <3>1. copy \in Objects
      BY <1>2 DEF TypeOK
    <3>2. ~obj[o].here
      BY <1>1, <1>2, <2>3, <3>1 DEF Apart
    <3>3. obj[o].tags = {}
      BY <3>2 DEF Apart
    <3>4. tags = {}
      BY <3>3
    <3>5. QED
      BY <2>1, <2>3, <3>3, <3>4 DEF TypeOK, Objects
  <2>4. QED
    BY <2>2, <2>3
<1>3. obj' = obj \/ \E o \in Objs : \E copy : <<o, copy>> \in at /\ Edit(o, copy)
  BY StepCases DEF StartPass, ListPage, Recount, Plan, DeleteRows, Crash, LibraryChanges, Lookup, Fetch, Check,
                   Webhook, Disturb, vars, passVars
<1>4. QED
  BY <1>2, <1>3

\* What the objects in hand and the listing are to each other, in every state.
LEMMA ApartHolds == Spec => []Apart
<1>1. Init => Apart
  <2>1. SUFFICES ASSUME Init PROVE Apart
    OBVIOUS
  <2>2. \A o \in Objs : obj[o].here
    BY <2>1 DEF Init
  <2>3. QED
    BY <2>1, <2>2 DEF Init, Apart
<1>2. TypeOK /\ Apart /\ [Next]_vars => Apart'
  BY StepApart
<1>3. QED
  BY <1>1, <1>2, TypeCorrect, PTL DEF Spec

\* While Jellyfin's library stands still, no strip touches an object in the folder
\* of an item that it has, unless somebody moved the object there
\* (ObjectPlan, KEPT_LIVE, and strip()'s own comparison of the paths).
THEOREM LiveFoldersAreKept == Spec => LiveFolderKept
<1>1. TypeOK /\ Apart /\ [Next]_vars => [KeptStep]_vars
  BY StepKeepsLiveFolders
<1>2. QED
  BY <1>1, ApartHolds, TypeCorrect, PTL DEF Spec, LiveFolderKept, KeptStep

-----------------------------------------------------------------------------
(* Rows outlive tags *)

Stripping == {"strip", "edit", "check"}

\* While objects are stripped, one carries tags of deleted items only if it did
\* when it was planned, it is where it was then unless somebody moved it, and one
\* that is done carries none.
Tracked ==
  /\ gone \subseteq rows /\ asked \subseteq rows
  /\ pc \in Stripping => \A o \in Objs :
       /\ obj[o].tags \cap gone \subseteq pre[o].tags
       /\ obj[o].here => pre[o].here /\ (o \in moved \/ obj[o].path = pre[o].path)
       /\ o \in done => obj[o].tags \cap gone = {}

\* An object has no tags but of an item in whose folder it is, unless it was moved.
AtHome == \A o \in Objs : \A i \in obj[o].tags : o \in moved \/ obj[o].path \in ItemFolders[i]

LEMMA StopTracked ==
  ASSUME Tracked, Stop
  PROVE  Tracked'
<1>1. gone' = {} /\ asked' = {} /\ pc' = "off"
  BY DEF Stop, Idle
<1>2. QED
  BY <1>1 DEF Tracked, Stripping

\* The pass's steps that change no object.
LEMMA PassTracked ==
  ASSUME TypeOK, Apart, Tracked, UNCHANGED <<obj, rows, moved>>,
         \/ StartPass \/ ListPage \/ Recount \/ Plan \/ Crash
         \/ \E i \in Items : Lookup(i)
         \/ \E o \in Objs : Fetch(o)
         \/ \E o \in Objs : \E copy : <<o, copy>> \in at /\ Check(o, copy)
  PROVE  Tracked'
<1>1. CASE Stop
  BY <1>1, StopTracked
<1>2. CASE StartPass
  <2>1. gone' = {} /\ asked' = {} /\ pc' = "list"
    BY <1>2 DEF StartPass, Idle
  <2>2. QED
    BY <2>1 DEF Tracked, Stripping
<1>3. CASE ~Stop /\ (ListPage \/ Recount \/ \E i \in Items : Lookup(i))
  <2>1. gone' \subseteq rows /\ asked' \subseteq rows /\ pc' \in {"list", "recount", "lookup", "plan"}
    <3>1. CASE ListPage
      BY <1>3, <3>1 DEF ListPage, Broken, Tracked
    <3>2. CASE Recount
      BY <1>3, <3>2 DEF Recount, Broken, Tracked
    <3>3. ASSUME NEW i \in Items, Lookup(i)
          PROVE  gone' \subseteq rows /\ asked' \subseteq rows /\ pc' \in {"list", "recount", "lookup", "plan"}
      <4>1. i \in asked /\ asked' = asked \ {i} /\ gone' \in {gone, gone \cup {i}} /\ pc' \in {"plan", "lookup"}
        BY <1>3, <3>3 DEF Lookup, Broken
      <4>2. QED
        BY <4>1 DEF Tracked
    <3>4. QED
      BY <1>3, <3>1, <3>2, <3>3
  <2>2. QED
    BY <2>1 DEF Tracked, Stripping
<1>4. CASE ~Stop /\ Plan
  <2>1. UNCHANGED <<asked, gone, done>> /\ pre' = obj /\ pc' = "strip" /\ done = {}
    BY <1>4 DEF Plan, Broken, TypeOK
  <2>2. QED
    BY <2>1 DEF Tracked, Stripping
<1>5. ASSUME NEW o \in Objs, NEW stripped, Settle(o, stripped), pc \in Stripping,
             stripped => obj[o].tags \cap gone = {}
      PROVE  Tracked'
  <2>1. UNCHANGED <<gone, asked, pre>> /\ pc' = "strip" /\ done' = IF stripped THEN done \cup {o} ELSE done
    BY <1>5 DEF Settle
  <2>2. QED
    BY <1>5, <2>1 DEF Tracked, Stripping
<1>6. ASSUME ~Stop, NEW o \in Objs, Fetch(o)
      PROVE  Tracked'
  <2>1. pc = "strip" /\ obj[o].tags \cap gone \subseteq pre[o].tags
    BY <1>6 DEF Fetch, Tracked, Stripping
  <2>2. CASE \E stripped : Settle(o, stripped) /\ (stripped => pre[o].tags = {} \/ ~obj[o].here \/ obj[o].tags = {})
    <3>1. ~obj[o].here => obj[o].tags = {}
      BY DEF Apart
    <3>2. QED
      BY <1>5, <2>1, <2>2, <3>1 DEF Stripping
  <2>3. CASE pc' = "edit" /\ UNCHANGED <<asked, gone, pre, done>>
    BY <2>1, <2>3 DEF Tracked, Stripping
  <2>4. QED
    BY <1>6, <2>2, <2>3 DEF Fetch, Broken
<1>7. ASSUME ~Stop, NEW o \in Objs, NEW copy, <<o, copy>> \in at, Check(o, copy)
      PROVE  Tracked'
  <2>1. pc = "check" /\ Clean(copy, obj[o]) /\ Settle(o, TRUE)
    BY <1>7 DEF Check, Broken
  <2>2. copy \in Objects
    BY <1>7 DEF TypeOK
  <2>3. obj[o].tags = {}
    BY <2>1, <2>2 DEF Clean, Objects
  <2>4. QED
    BY <1>5, <2>1, <2>3 DEF Stripping
<1>8. QED
  BY <1>1, <1>2, <1>3, <1>4, <1>6, <1>7 DEF Crash

\* What others, and the pass's own edit, do to the objects.
LEMMA ObjectsTracked ==
  ASSUME TypeOK, Tracked, UNCHANGED <<pc, gone, asked, pre, done>>, rows \subseteq rows', moved \subseteq moved',
         \A o \in Objs :
           /\ obj'[o].tags \cap gone \subseteq obj[o].tags
           /\ obj'[o].here => obj[o].here /\ (o \in moved' \/ obj'[o].path = obj[o].path)
  PROVE  Tracked'
BY DEF Tracked

LEMMA EditTracked ==
  ASSUME TypeOK, Tracked, NEW o \in Objs, NEW copy, <<o, copy>> \in at, Edit(o, copy)
  PROVE  Tracked'
<1>1. CASE Stop
  BY <1>1, StopTracked DEF Edit
<1>2. CASE ~Stop
  <2>1. PICK tags \in {{}, obj[o].tags \ copy.tags} : obj' \in {obj, [obj EXCEPT ![o].tags = tags]}
    BY DEF Edit
  <2>2. UNCHANGED <<rows, moved, gone, asked, pre, done>> /\ pc = "edit" /\ pc' = "check"
    BY <1>2 DEF Edit, Broken
  <2>3. ASSUME NEW p \in Objs
        PROVE  obj'[p].tags \subseteq obj[p].tags /\ obj'[p].here = obj[p].here /\ obj'[p].path = obj[p].path
    <3>1. obj'[p] = obj[p] \/ (p = o /\ obj'[p] = [obj[o] EXCEPT !.tags = tags])
      BY <2>1 DEF TypeOK
    <3>2. tags \subseteq obj[o].tags /\ obj[o] \in Objects
      BY DEF TypeOK
    <3>3. QED
      BY <3>1, <3>2 DEF Objects
  <2>4. QED
    BY <2>2, <2>3 DEF Tracked, Stripping
<1>3. QED
  BY <1>1, <1>2

LEMMA WorldTracked ==
  ASSUME TypeOK, Tracked,
         \/ LibraryChanges \/ UNCHANGED vars
         \/ \E i \in Items : Webhook(i)
         \/ \E o \in Objs : Disturb(o)
  PROVE  Tracked'
<1>1. UNCHANGED <<pc, gone, asked, pre, done>> /\ rows \subseteq rows' /\ moved \subseteq moved'
  BY DEF LibraryChanges, Webhook, Disturb, vars, passVars
<1>2. CASE LibraryChanges \/ UNCHANGED vars
  BY <1>1, <1>2, ObjectsTracked DEF LibraryChanges, vars
<1>3. ASSUME NEW i \in Items, Webhook(i)
      PROVE  Tracked'
  <2>1. i \notin gone
    BY <1>3 DEF Webhook, Tracked
  <2>2. \A o \in Objs : /\ obj'[o].here = obj[o].here /\ obj'[o].path = obj[o].path
                        /\ obj'[o].tags \in {obj[o].tags, {i}}
    BY <1>3 DEF Webhook, TypeOK, Objects
  <2>3. QED
    BY <1>1, <2>1, <2>2, ObjectsTracked
<1>4. ASSUME NEW o \in Objs, Disturb(o)
      PROVE  Tracked'
  <2>1. \A p \in Objs : /\ obj'[p].tags \subseteq obj[p].tags
                        /\ obj'[p].here => obj[p].here /\ (p \in moved' \/ obj'[p].path = obj[p].path)
    <3>1. CASE obj' = [obj EXCEPT ![o].rest = ~@]
      BY <3>1 DEF TypeOK, Objects
    <3>2. CASE \E f \in Folders : obj' = [obj EXCEPT ![o].path = f] /\ moved' = moved \cup {o}
      BY <3>2 DEF TypeOK, Objects
    <3>3. CASE obj' = [obj EXCEPT ![o] = Absent]
      BY <3>3 DEF TypeOK, Objects, Absent
    <3>4. QED
      BY <1>4, <3>1, <3>2, <3>3 DEF Disturb
  <2>2. QED
    BY <1>1, <2>1, ObjectsTracked
<1>5. QED
  BY <1>2, <1>3, <1>4

LEMMA StepTracked ==
  ASSUME TypeOK, Apart, Tracked, [Next]_vars
  PROVE  Tracked'
<1>1. CASE DeleteRows
  BY <1>1 DEF DeleteRows, Stop, Idle, Tracked, Stripping
<1>2. CASE \/ StartPass \/ ListPage \/ Recount \/ Plan \/ Crash
           \/ \E i \in Items : Lookup(i)
           \/ \E o \in Objs : Fetch(o)
           \/ \E o \in Objs : \E copy : <<o, copy>> \in at /\ Check(o, copy)
  <2>1. UNCHANGED <<obj, rows, moved>>
    BY <1>2 DEF StartPass, ListPage, Recount, Plan, Crash, Lookup, Fetch, Check
  <2>2. QED
    BY <1>2, <2>1, PassTracked
<1>3. QED
  BY <1>1, <1>2, EditTracked, WorldTracked, StepCases

LEMMA TrackedHolds == Spec => [](TypeOK /\ Apart /\ Tracked)
<1>1. Init => Tracked
  BY DEF Init, Tracked, Stripping
<1>2. TypeOK /\ Apart /\ Tracked /\ [Next]_vars => Tracked'
  BY StepTracked
<1>3. QED
  BY <1>1, <1>2, ApartHolds, TypeCorrect, PTL DEF Spec

LEMMA StepAtHome ==
  ASSUME TypeOK, AtHome, [Next]_vars
  PROVE  AtHome'
<1>1. CASE UNCHANGED <<obj, moved>>
  BY <1>1 DEF AtHome
<1>2. ASSUME NEW i \in Items, Webhook(i)
      PROVE  AtHome'
  <2>1. \A o \in Objs : obj'[o].path = obj[o].path
                        /\ (obj'[o].tags = obj[o].tags \/ (obj'[o].tags = {i} /\ obj[o].path \in ItemFolders[i]))
    BY <1>2 DEF Webhook, TypeOK, Objects
  <2>2. moved' = moved
    BY <1>2 DEF Webhook
  <2>3. QED
    BY <2>1, <2>2 DEF AtHome
<1>3. ASSUME NEW o \in Objs, Disturb(o) \/ \E copy : Edit(o, copy)
      PROVE  AtHome'
  <2>1. moved \subseteq moved'
    BY <1>3 DEF Disturb, Edit
  <2>2. \A p \in Objs : obj'[p].tags \subseteq obj[p].tags
                        /\ (p \in moved' \/ obj'[p].path = obj[p].path \/ obj'[p].tags = {})
    <3>1. CASE obj' = [obj EXCEPT ![o].rest = ~@]
      BY <3>1 DEF TypeOK, Objects
    <3>2. CASE \E f \in Folders : obj' = [obj EXCEPT ![o].path = f] /\ moved' = moved \cup {o}
      BY <3>2 DEF TypeOK, Objects
    <3>3. CASE obj' = [obj EXCEPT ![o] = Absent]
      BY <3>3 DEF TypeOK, Objects, Absent
    <3>4. ASSUME NEW copy, NEW tags \in {{}, obj[o].tags \ copy.tags}, obj' \in {obj, [obj EXCEPT ![o].tags = tags]}
          PROVE  \A p \in Objs : obj'[p].tags \subseteq obj[p].tags /\ obj'[p].path = obj[p].path
      BY <3>4 DEF TypeOK, Objects
    <3>5. QED
      BY <1>3, <3>1, <3>2, <3>3, <3>4 DEF Disturb, Edit
  <2>3. QED
    BY <2>1, <2>2 DEF AtHome
<1>4. UNCHANGED <<obj, moved>> \/ (\E i \in Items : Webhook(i))
      \/ \E o \in Objs : Disturb(o) \/ \E copy : Edit(o, copy)
  BY StepCases DEF StartPass, ListPage, Recount, Plan, DeleteRows, Crash, LibraryChanges, Lookup, Fetch, Check, vars
<1>5. QED
  BY <1>1, <1>2, <1>3, <1>4

LEMMA InitAtHome == Init => AtHome
<1> SUFFICES ASSUME Init, NEW o \in Objs, NEW i \in obj[o].tags PROVE obj[o].path \in ItemFolders[i]
  BY DEF AtHome
<1>1. PICK path \in Paths0 :
        obj = [p \in Objs |-> [here |-> TRUE, path |-> path[p], rest |-> FALSE,
                               tags |-> Newest({j \in rows : path[p] \in ItemFolders[j]})]]
  BY DEF Init
<1>2. obj[o].path = path[o] /\ obj[o].tags = Newest({j \in rows : path[o] \in ItemFolders[j]})
  BY <1>1
<1>3. QED
  BY <1>2 DEF Newest

-----------------------------------------------------------------------------
(* What the row leads to *)

\* A row leads to one folder at most.
LEMMA OneHit ==
  ASSUME NEW objs, NEW i \in Items, NEW f \in Hits(objs, i), NEW g \in Hits(objs, i)
  PROVE  f = g
<1>1. DOMAIN RowFolders[i] \subseteq Nat
  BY ConstantsAssumption
<1> DEFINE found == {k \in DOMAIN RowFolders[i] : In(objs, RowFolders[i][k]) # {}}
<1>2. PICK k \in found, l \in found :
        /\ f = RowFolders[i][k] /\ \A m \in found : k <= m
        /\ g = RowFolders[i][l] /\ \A m \in found : l <= m
  BY DEF Hits
<1>3. k \in Nat /\ l \in Nat /\ k <= l /\ l <= k
  BY <1>1, <1>2
<1>4. k = l
  BY <1>3
<1>5. QED
  BY <1>2, <1>4

\* No row goes while an object in the folder that the row leads to carries its tags,
\* except one that was moved or that sits beside an item of the listing: writes that
\* are off, a halt, a failed request, a crash and whatever webhooks and people do to
\* the objects meanwhile all keep the row (remove(), strip(), delete_rows()).
StrippedBeforeGone ==
  [][\A i \in rows \ rows', o \in Objs :
       i \in obj[o].tags => o \in moved \/ obj[o].path \in LiveFolders \/ obj[o].path \notin Hits(pre, i)]_vars

LEMMA StepStrips ==
  ASSUME TypeOK, Apart, Tracked, [Next]_vars, NEW i \in rows \ rows', NEW o \in Objs, i \in obj[o].tags,
         o \notin moved
  PROVE  pre[o].here /\ pre[o].path = obj[o].path /\ (obj[o].path \in LiveFolders \/ obj[o].path \notin Hits(pre, i))
<1>1. DeleteRows
  BY StepCases DEF StartPass, ListPage, Recount, Plan, Crash, LibraryChanges, Lookup, Fetch, Edit, Check,
                   Webhook, Disturb, vars
<1>2. pc \in Stripping /\ i \in Doomed /\ i \in Items
  BY <1>1 DEF DeleteRows, Stripping, TypeOK
<1>3. i \in gone /\ ~Ambiguous(pre, i) /\ Planned(pre, i) \subseteq done
  BY <1>2 DEF Doomed
<1>4. obj[o].here /\ pre[o].here /\ pre[o].path = obj[o].path /\ o \notin done
  BY <1>2, <1>3 DEF Tracked, Apart
<1>5. ASSUME obj[o].path \in Hits(pre, i), obj[o].path \notin LiveFolders
      PROVE  FALSE
  <2>1. o \in Owners(pre, i)
    BY <1>4, <1>5 DEF Owners, In
  <2>2. ~KeptLive(pre, i)
    BY <1>2, <1>5, OneHit DEF KeptLive
  <2>3. o \in Planned(pre, i)
    BY <1>3, <2>1, <2>2 DEF Planned
  <2>4. QED
    BY <1>3, <1>4, <2>3
<1>6. QED
  BY <1>4, <1>5

\* The folder that a row leads to is rid of the row's tags before the row goes, for
\* any folders of items and rows.
THEOREM RowsGoStripped == Spec => StrippedBeforeGone
<1>1. TypeOK /\ Apart /\ Tracked /\ [Next]_vars =>
        \A i \in rows \ rows', o \in Objs :
          i \in obj[o].tags => o \in moved \/ obj[o].path \in LiveFolders \/ obj[o].path \notin Hits(pre, i)
  BY StepStrips
<1>2. QED
  BY <1>1, TrackedHolds, PTL DEF Spec, StrippedBeforeGone

\* The rows record the items' own folders, as those of items with a poster do: the
\* only folder of an item is the deepest of its row (row_folders()).
OwnFolders == \A i \in Items : \A f \in ItemFolders[i] : RowFolders[i] # << >> /\ f = RowFolders[i][1]

\* With such rows no object at all keeps the tags of a row that goes, unless it was
\* moved or sits beside an item of the listing.
THEOREM TagsGoFirst ==
  ASSUME OwnFolders
  PROVE  Spec => RowsOutliveTags
<1>1. ASSUME TypeOK, Apart, Tracked, AtHome, [Next]_vars, NEW i \in rows \ rows', NEW o \in Objs,
             i \in obj[o].tags, o \notin moved
      PROVE  obj[o].path \in LiveFolders
  <2>1. pre[o].here /\ pre[o].path = obj[o].path /\ (obj[o].path \in LiveFolders \/ obj[o].path \notin Hits(pre, i))
    BY <1>1, StepStrips
  <2>2. obj[o].path \in Hits(pre, i)
    <3>1. i \in Items
      BY <1>1 DEF TypeOK
    <3>2. obj[o].path = RowFolders[i][1] /\ RowFolders[i] # << >> /\ RowFolders[i] \in Seq(Folders)
      BY <1>1, <3>1, ConstantsAssumption DEF AtHome, OwnFolders
    <3>3. 1 \in DOMAIN RowFolders[i] /\ \A k \in DOMAIN RowFolders[i] : 1 <= k
      BY <3>2
    <3>4. o \in In(pre, RowFolders[i][1])
      BY <2>1, <3>2 DEF In
    <3>5. QED
      BY <3>2, <3>3, <3>4 DEF Hits
  <2>3. QED
    BY <2>1, <2>2
<1>2. TypeOK /\ Apart /\ Tracked /\ AtHome /\ [Next]_vars =>
        \A i \in rows \ rows', o \in Objs :
          i \in obj[o].tags => o \in moved \/ obj[o].path \in LiveFolders
  BY <1>1
<1>3. TypeOK /\ AtHome /\ [Next]_vars => AtHome'
  BY StepAtHome
<1>4. QED
  BY <1>2, <1>3, InitAtHome, TrackedHolds, PTL DEF Spec, RowsOutliveTags

=============================================================================
