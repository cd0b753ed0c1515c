--------------------------- MODULE ArrSync_proofs ---------------------------
(***************************************************************************)
(* Proofs about ArrSync, for any items, objects, instances, tags, labels   *)
(* refused, libraries, webhooks and bounds.                                *)
(***************************************************************************)
EXTENDS ArrSync, FiniteSetTheorems, TLAPS

LEMMA ConstantFacts ==
  /\ Scan \in Workers /\ Hooks \subseteq Workers
  /\ 0 \in 0..MaxVer /\ 1 \in 1..MaxVer /\ 1..MaxVer \subseteq 0..MaxVer
  /\ \A i \in Items, v \in 1..MaxVer : TagsOf[i][v] \in SUBSET Tags
  /\ Absent \in Objects
  /\ Off \in Runs
BY ConstantsAssumption DEF Workers, Absent, Objects, Off, Runs, Phases

\* The steps, one disjunct per action.
LEMMA StepCases ==
  ASSUME [Next]_vars
  PROVE  \/ \E i \in Items : FileChanges(i)
         \/ \E o \in Objs : Disturb(o)
         \/ SaveMode \/ Cancel \/ DryRun \/ Restart \/ EndScan
         \/ \E full \in BOOLEAN : StartScan(full)
         \/ \E h \in Hooks, i \in Items : StartHook(h, i)
         \/ \E h \in Hooks : EndHook(h)
         \/ \E w \in Workers, i \in Items : StartItem(w, i) \/ EndItem(w, i)
         \/ \E w \in Workers, i \in Items, o \in Objs : Fetch(w, i, o) \/ CreateLabels(w, i, o)
         \/ \E w \in Workers, o \in Objs : AddTags(w, o) \/ RemoveTags(w, o) \/ ReadBack(w, o)
         \/ UNCHANGED vars
BY DEF Next, ScanStep, ItemStep, ObjectStep, Workers

-----------------------------------------------------------------------------
(* Types *)

LEMMA InitTypeOK == Init => TypeOK
<1> SUFFICES ASSUME Init PROVE TypeOK
  OBVIOUS
<1>1. PICK lib \in Libraries :
        /\ ids = lib.ids
        /\ obj = [o \in Objs |-> [here |-> TRUE, home |-> lib.home[o], tags |-> {}, rest |-> FALSE]]
  BY DEF Init
<1>2. lib.ids \in [Objs -> SUBSET Items] /\ lib.home \in [Objs -> SUBSET Items]
  BY ConstantsAssumption
<1>3. obj \in [Objs -> Objects]
  BY <1>1, <1>2 DEF Objects
<1>4. ids \in [Objs -> SUBSET Items]
  BY <1>1, <1>2
<1>5. left \in 0..MaxFaults
  BY ConstantsAssumption DEF Init
<1>6. QED
  BY <1>3, <1>4, <1>5, ConstantFacts DEF Init, TypeOK

LEMMA FaultTypeOK ==
  ASSUME TypeOK, NEW f, Fault(f) \/ UNCHANGED left
  PROVE  left' \in 0..MaxFaults
BY ConstantsAssumption DEF TypeOK, Fault

\* A worker that is done with an object, halted or not.
LEMMA DoneIsRun ==
  ASSUME TypeOK, NEW w \in Workers, NEW o \in Objs
  PROVE  /\ Done(w, o) \in Runs
         /\ [Done(w, o) EXCEPT !.halted = TRUE] \in Runs
<1>1. run[w] \in Runs
  BY DEF TypeOK
<1>2. QED
  BY <1>1, ConstantFacts DEF Done, Runs, Phases

LEMMA WantedIsTags ==
  ASSUME TypeOK, NEW w \in Workers, NEW i \in Items, NEW o \in Objs, run[w].ver \in 1..MaxVer
  PROVE  Wanted(w, i, o) \in SUBSET Tags /\ Wanted(w, i, o) \subseteq TagsOf[i][run[w].ver]
BY ConstantFacts DEF Wanted, Accepted

LEMMA PhaseIsPhase ==
  ASSUME NEW missing, NEW add, NEW remove
  PROVE  Phase(missing, add, remove) \in {"create", "add", "remove", "check"}
BY DEF Phase

Writing == {"create", "add", "remove", "check"}

\* A worker with an object in hand is not halted, the object was its item's when
\* it was read, and nothing is to be added to it but tags of that item.
AtWork(w) ==
  \E i \in Items, o \in Objs :
    /\ run[w].item = {i} /\ run[w].at = {o}
    /\ i \in ids[o] \cap run[w].before.home
    /\ run[w].add \subseteq TagsOf[i][run[w].ver]
    /\ ~run[w].halted

InHand(w) ==
  /\ \/ run[w].item = {}
     \/ run[w].ver \in 1..MaxVer /\ \E i \in Items : run[w].item = {i}
  /\ run[w].pc \in Writing => AtWork(w)

IInv == TypeOK /\ \A w \in Workers : InHand(w)

LEMMA InitInHand == Init => \A w \in Workers : InHand(w)
BY DEF Init, Off, InHand, Writing

\* What worker w does and what everybody else keeps.
LEMMA OneWorker ==
  ASSUME IInv, NEW w \in Workers, NEW r \in Runs, run' = [run EXCEPT ![w] = r], UNCHANGED ids
  PROVE  /\ run' \in [Workers -> Runs]
         /\ run'[w] = r
         /\ \A x \in Workers \ {w} : InHand(x)'
<1>1. run \in [Workers -> Runs]
  BY DEF IInv, TypeOK
<1>2. run' \in [Workers -> Runs] /\ run'[w] = r
  BY <1>1
<1>3. ASSUME NEW x \in Workers \ {w}
      PROVE  InHand(x)'
  <2>1. run'[x] = run[x] /\ InHand(x)
    BY <1>1 DEF IInv
  <2>2. QED
    BY <2>1 DEF InHand, AtWork
<1>4. QED
  BY <1>2, <1>3

\* Steps that leave every worker where it is.
LEMMA WorldStep ==
  ASSUME IInv,
         \/ \E i \in Items : FileChanges(i)
         \/ \E o \in Objs : Disturb(o)
         \/ SaveMode \/ Cancel \/ DryRun \/ UNCHANGED vars
  PROVE  IInv'
<1> USE DEF worldVars, alertVars
<1>1. UNCHANGED <<run, ids>>
  BY DEF FileChanges, Disturb, SaveMode, Cancel, DryRun, vars
<1>2. \A w \in Workers : InHand(w)'
  BY <1>1 DEF IInv, InHand, AtWork
<1>3. left' \in 0..MaxFaults
  <2>1. UNCHANGED left \/ \E f \in {"edit", "move", "delete", "retag", "mode", "cancel", "dryrun"} : Fault(f)
    BY DEF FileChanges, Disturb, SaveMode, Cancel, DryRun, vars
  <2>2. QED
    BY <2>1, FaultTypeOK DEF IInv
<1>4. TypeOK'
  <2>1. ASSUME NEW i \in Items, FileChanges(i)
        PROVE  TypeOK'
    BY <2>1, <1>3, ConstantsAssumption DEF IInv, TypeOK, FileChanges
  <2>2. ASSUME NEW o \in Objs, Disturb(o)
        PROVE  TypeOK'
    <3>1. obj' \in [Objs -> Objects]
      <4>1. obj \in [Objs -> Objects] /\ labels[InstOf[o]] \in SUBSET Tags
        BY ConstantsAssumption DEF IInv, TypeOK
      <4>2. PICK r \in Objects : obj' = [obj EXCEPT ![o] = r]
        <5>1. CASE obj' = [obj EXCEPT ![o].rest = ~@]
          BY <5>1, <4>1 DEF Objects
        <5>2. CASE obj' = [obj EXCEPT ![o].home = {}]
          <6>1. [obj[o] EXCEPT !.home = {}] \in Objects
            BY <4>1 DEF Objects
          <6>2. QED
            BY <5>2, <6>1, <4>1
        <5>3. CASE obj' = [obj EXCEPT ![o] = Absent]
          BY <5>3, ConstantFacts
        <5>4. ASSUME NEW t \in labels[InstOf[o]],
                     obj' = [obj EXCEPT ![o].tags = IF t \in @ THEN @ \ {t} ELSE @ \cup {t}]
              PROVE  \E r \in Objects : obj' = [obj EXCEPT ![o] = r]
          <6>1. [obj[o] EXCEPT !.tags = IF t \in @ THEN @ \ {t} ELSE @ \cup {t}] \in Objects
            BY <4>1 DEF Objects
          <6>2. QED
            BY <5>4, <6>1, <4>1
        <5>5. QED
          BY <2>2, <5>1, <5>2, <5>3, <5>4 DEF Disturb
      <4>3. QED
        BY <4>1, <4>2
    <3>2. touched' \in SUBSET Objs
      BY <2>2 DEF Disturb, Touched, IInv, TypeOK
    <3>3. QED
      BY <2>2, <3>1, <3>2, <1>3 DEF IInv, TypeOK, Disturb
  <2>3. ASSUME SaveMode \/ Cancel
        PROVE  TypeOK'
    BY <2>3, <1>3 DEF IInv, TypeOK, SaveMode, Cancel
  <2>4. CASE DryRun
    BY <2>4, <1>3 DEF IInv, TypeOK, DryRun
  <2>5. CASE UNCHANGED vars
    BY <2>5 DEF IInv, TypeOK, vars
  <2>6. QED
    BY <2>1, <2>2, <2>3, <2>4, <2>5
<1>5. QED
  BY <1>2, <1>4 DEF IInv

\* A scan or a task begins: it knows what it has just read.
LEMMA BeginStep ==
  ASSUME IInv, NEW w \in Workers, NEW listed \in SUBSET Items, NEW todo \in SUBSET Items,
         NEW avail \in SUBSET Insts, Begin(w, listed, todo, avail), UNCHANGED ids
  PROVE  run' \in [Workers -> Runs] /\ \A x \in Workers : InHand(x)'
<1> DEFINE pre == [o \in Objs |-> IF InstOf[o] \in avail THEN [obj[o] EXCEPT !.rest = FALSE] ELSE Absent]
<1> DEFINE known == [n \in Insts |-> IF n \in avail THEN labels[n] ELSE {}]
<1> DEFINE refused == ClaimedTwice(pre, listed)
<1> DEFINE r == [Off EXCEPT !.pc = "items", !.live = live, !.todo = todo, !.pre = pre,
                            !.known = known, !.refused = refused]
<1>1. pre \in [Objs -> Objects]
  BY ConstantFacts DEF IInv, TypeOK, Objects
<1>2. known \in [Insts -> SUBSET Tags]
  BY DEF IInv, TypeOK
<1>3. refused \in SUBSET Objs
  BY DEF ClaimedTwice
<1>4. run' = [run EXCEPT ![w] = r]
  BY DEF Begin
<1>5. live \in BOOLEAN
  BY DEF IInv, TypeOK
<1> HIDE DEF pre, known, refused
<1>6. r \in Runs /\ r.pc = "items" /\ r.item = {}
  BY <1>1, <1>2, <1>3, <1>5, ConstantFacts DEF Off, Runs, Phases
<1> HIDE DEF r
<1>7. InHand(w)'
  BY <1>4, <1>6, OneWorker DEF InHand, Writing
<1>8. QED
  BY <1>4, <1>6, <1>7, OneWorker

\* Steps in which workers begin or stop.
LEMMA BoundaryStep ==
  ASSUME IInv,
         \/ \E full \in BOOLEAN : StartScan(full)
         \/ \E h \in Hooks, i \in Items : StartHook(h, i)
         \/ \E h \in Hooks : EndHook(h)
         \/ Restart \/ EndScan
  PROVE  IInv'
<1> USE ConstantFacts
<1>1. ASSUME NEW full \in BOOLEAN, StartScan(full)
      PROVE  IInv'
  <2>1. UNCHANGED <<file, row, ids, live, applied, probed, alarm, report, obj, labels>>
    BY <1>1 DEF StartScan, alertVars
  <2>2. PICK avail \in SUBSET Insts, todo \in SUBSET Items : Begin(Scan, Items, todo, avail)
    BY <1>1 DEF StartScan
  <2>3. run' \in [Workers -> Runs] /\ \A x \in Workers : InHand(x)'
    BY <2>1, <2>2, BeginStep
  <2>4. left' \in 0..MaxFaults
    BY <1>1, FaultTypeOK DEF StartScan, IInv
  <2>5. cancelled' = FALSE /\ touched' = {}
    BY <1>1 DEF StartScan
  <2>6. QED
    BY <2>1, <2>3, <2>4, <2>5 DEF IInv, TypeOK
<1>2. ASSUME NEW h \in Hooks, NEW i \in Items, StartHook(h, i)
      PROVE  IInv'
  <2>1. UNCHANGED <<worldVars, alertVars, obj, labels, touched>>
    BY <1>2 DEF StartHook
  <2>2. run' \in [Workers -> Runs] /\ \A x \in Workers : InHand(x)'
    BY <1>2, <2>1, BeginStep DEF StartHook, worldVars
  <2>3. left' \in 0..MaxFaults
    BY <1>2, FaultTypeOK DEF StartHook, IInv
  <2>4. QED
    BY <2>1, <2>2, <2>3 DEF IInv, TypeOK, worldVars, alertVars
<1>3. ASSUME NEW w \in Workers, run' = [run EXCEPT ![w] = Off], UNCHANGED ids
      PROVE  run' \in [Workers -> Runs] /\ \A x \in Workers : InHand(x)'
  <2>1. InHand(w)'
    BY <1>3, OneWorker DEF InHand, Off, Writing
  <2>2. QED
    BY <1>3, <2>1, OneWorker
<1>4. ASSUME NEW h \in Hooks, EndHook(h)
      PROVE  IInv'
  <2>1. UNCHANGED <<worldVars, alertVars, obj, labels, left, touched>> /\ run' = [run EXCEPT ![h] = Off]
    BY <1>4 DEF EndHook
  <2>2. QED
    BY <2>1, <1>3 DEF IInv, TypeOK, worldVars, alertVars
<1>5. CASE EndScan
  <2>1. UNCHANGED <<file, row, ids, live, cancelled, obj, labels, left, touched>> /\ run' = [run EXCEPT ![Scan] = Off]
    BY <1>5 DEF EndScan
  <2>2. run[Scan] \in Runs
    BY DEF IInv, TypeOK
  <2>3. alarm' \in BOOLEAN /\ report' \in [live : BOOLEAN, halted : BOOLEAN] /\ applied' \in BOOLEAN
    BY <1>5, <2>2 DEF EndScan, ScanReport, Runs, IInv, TypeOK
  <2>4. probed' \in [Items -> 0..MaxVer]
    BY <1>5 DEF EndScan
  <2>5. QED
    BY <2>1, <2>3, <2>4, <1>3 DEF IInv, TypeOK
<1>6. CASE Restart
  <2>1. UNCHANGED <<file, row, ids, live, applied, report, obj, labels, touched>>
        /\ run' = [w \in Workers |-> Off]
    BY <1>6 DEF Restart
  <2>2. run' \in [Workers -> Runs] /\ \A x \in Workers : InHand(x)'
    BY <2>1 DEF InHand, Off, Writing
  <2>3. left' \in 0..MaxFaults
    BY <1>6, FaultTypeOK DEF Restart, IInv
  <2>4. alarm' \in BOOLEAN /\ cancelled' = FALSE /\ probed' \in [Items -> 0..MaxVer]
    BY <1>6 DEF Restart, IInv, TypeOK
  <2>5. QED
    BY <2>1, <2>2, <2>3, <2>4 DEF IInv, TypeOK
<1>7. QED
  BY <1>1, <1>2, <1>4, <1>5, <1>6

\* An item is begun or done with.
LEMMA ItemSteps ==
  ASSUME IInv, NEW w \in Workers, NEW i \in Items, StartItem(w, i) \/ EndItem(w, i)
  PROVE  IInv'
<1>1. run[w] \in Runs /\ InHand(w)
  BY DEF IInv, TypeOK
<1>2. CASE StartItem(w, i)
  <2> DEFINE queue == IF run[w].live THEN Owners(run[w].pre, i) \ run[w].refused ELSE {}
  <2> DEFINE r == [run[w] EXCEPT !.todo = @ \ {i}, !.item = {i}, !.ver = file[i], !.queue = queue]
  <2>1. queue \in SUBSET Objs /\ file[i] \in 1..MaxVer
    BY DEF Owners, IInv, TypeOK
  <2>2. run' = [run EXCEPT ![w] = r]
    BY <1>2 DEF StartItem, IInv, TypeOK
  <2> HIDE DEF queue
  <2>3. r \in Runs /\ r.pc = "items" /\ r.item = {i} /\ r.ver \in 1..MaxVer
    BY <1>1, <1>2, <2>1, ConstantFacts DEF StartItem, Runs, Phases
  <2> HIDE DEF r
  <2>4. UNCHANGED <<file, row, ids, live, applied, cancelled, alertVars, obj, labels, left, touched>>
    BY <1>2 DEF StartItem
  <2>5. InHand(w)'
    BY <2>2, <2>3, <2>4, OneWorker DEF InHand, Writing
  <2>6. probed' \in [Items -> 0..MaxVer]
    BY <1>2, <2>1, ConstantFacts DEF StartItem, IInv, TypeOK
  <2>7. QED
    BY <2>2, <2>3, <2>4, <2>5, <2>6, OneWorker DEF IInv, TypeOK, alertVars
<1>3. CASE EndItem(w, i)
  <2> DEFINE r == [run[w] EXCEPT !.item = {}, !.ver = 0]
  <2>1. run' = [run EXCEPT ![w] = r]
    BY <1>3 DEF EndItem, IInv, TypeOK
  <2>2. r \in Runs /\ r.pc = "items" /\ r.item = {}
    BY <1>1, <1>3, ConstantFacts DEF EndItem, Runs, Phases
  <2> HIDE DEF r
  <2>3. UNCHANGED <<file, ids, live, applied, cancelled, probed, alertVars, obj, labels, touched>>
    BY <1>3 DEF EndItem
  <2>4. InHand(w)'
    BY <2>1, <2>2, <2>3, OneWorker DEF InHand, Writing
  <2>5. row' \in [Items -> 0..MaxVer]
    BY <1>1, <1>3, ConstantFacts DEF EndItem, IInv, TypeOK, Runs
  <2>6. left' \in 0..MaxFaults
    BY <1>3, FaultTypeOK DEF EndItem, IInv
  <2>7. QED
    BY <2>1, <2>2, <2>3, <2>4, <2>5, <2>6, OneWorker DEF IInv, TypeOK, alertVars
<1>4. QED
  BY <1>2, <1>3

\* A worker that is done with an object, whatever came of it, has nothing in hand.
LEMMA DoneStep ==
  ASSUME IInv, NEW w \in Workers, NEW o \in Objs, UNCHANGED ids,
         run' = [run EXCEPT ![w] = Done(w, o)] \/ Halt(w, o)
  PROVE  run' \in [Workers -> Runs] /\ \A x \in Workers : InHand(x)'
<1>1. PICK r \in {Done(w, o), [Done(w, o) EXCEPT !.halted = TRUE]} : run' = [run EXCEPT ![w] = r]
  BY DEF Halt
<1>2. run[w] \in Runs /\ InHand(w)
  BY DEF IInv, TypeOK
<1>3. r \in Runs
  BY DoneIsRun DEF IInv
<1>4. r.pc = "items" /\ r.item = run[w].item /\ r.ver = run[w].ver
  BY <1>2 DEF Done, Runs
<1>5. InHand(w)'
  BY <1>1, <1>2, <1>3, <1>4, OneWorker DEF InHand, Writing
<1>6. QED
  BY <1>1, <1>3, <1>5, OneWorker

LEMMA FetchStep ==
  ASSUME IInv, NEW w \in Workers, NEW i \in Items, NEW o \in Objs, Fetch(w, i, o)
  PROVE  IInv'
<1> DEFINE known == run[w].known[InstOf[o]]
           want == Wanted(w, i, o)
           fresh == obj[o].tags
           pc == Phase(Create(known, want), Add(known, fresh, want), Remove(known, fresh, want))
           r == [run[w] EXCEPT !.pc = pc, !.at = {o}, !.before = obj[o], !.intended = want \cap known,
                   !.add = Add(known, fresh, want), !.remove = Remove(known, fresh, want)]
<1>1. UNCHANGED <<worldVars, report, obj, labels, touched>>
  BY Zenon DEF Fetch
<1>2. run[w] \in Runs /\ InHand(w) /\ i \in run[w].item
  BY Zenon DEF Fetch, IInv, TypeOK
<1>3. run[w].item = {i} /\ run[w].ver \in 1..MaxVer
  BY <1>2 DEF InHand
<1>4. left' \in 0..MaxFaults /\ alarm' \in BOOLEAN
  BY FaultTypeOK, Zenon DEF Fetch, Raise, Halt, IInv, TypeOK
<1>5. run' \in [Workers -> Runs] /\ \A x \in Workers : InHand(x)'
  <2>1. CASE run' = [run EXCEPT ![w] = Done(w, o)] \/ Halt(w, o)
    BY <1>1, <2>1, DoneStep DEF worldVars
  <2>2. CASE run' = [run EXCEPT ![w] = r] /\ ~Quiet(w, i, o) /\ StillOwned(i, o)
    <3>1. known \in SUBSET Tags /\ want \in SUBSET Tags /\ want \subseteq TagsOf[i][run[w].ver] /\ fresh \in SUBSET Tags
      BY <1>2, <1>3, WantedIsTags, ConstantsAssumption DEF Runs, IInv, TypeOK, Objects
    <3>2. pc \in Writing
      BY PhaseIsPhase DEF Writing
    <3>3. Add(known, fresh, want) \in SUBSET want /\ Remove(known, fresh, want) \in SUBSET Tags
      BY <3>1 DEF Add, Remove
    <3>4. obj[o] \in Objects /\ want \cap known \in SUBSET Tags
      BY <3>1 DEF IInv, TypeOK
    <3>5. i \in ids[o] \cap obj[o].home /\ ~run[w].halted
      BY <2>2 DEF StillOwned, Quiet
    <3> HIDE DEF known, want, fresh, pc
    <3>6. /\ r \in Runs
          /\ r.item = {i} /\ r.ver = run[w].ver /\ r.at = {o} /\ r.before = obj[o]
          /\ r.add \subseteq want /\ r.halted = run[w].halted
      BY <1>2, <1>3, <3>1, <3>2, <3>3, <3>4 DEF Runs, Phases, Writing
    <3> HIDE DEF r
    <3>7. InHand(w)'
      <4>1. run'[w] = r /\ ids' = ids
        BY <1>1, <2>2, <3>6, OneWorker, Zenon DEF worldVars
      <4>2. QED
        BY <4>1, <1>3, <3>1, <3>5, <3>6 DEF InHand, AtWork
    <3>8. QED
      BY <1>1, <2>2, <3>6, <3>7, OneWorker DEF worldVars
  <2>3. QED
    <3>1. run \in [Workers -> Runs]
      BY DEF IInv, TypeOK
    <3>2. QED
      BY <2>1, <2>2, <3>1, Zenon DEF Fetch, Raise
<1>6. QED
  BY <1>1, <1>4, <1>5 DEF IInv, TypeOK, worldVars

LEMMA CreateStep ==
  ASSUME IInv, NEW w \in Workers, NEW i \in Items, NEW o \in Objs, CreateLabels(w, i, o)
  PROVE  IInv'
<1> DEFINE n == InstOf[o]
           missing == Create(run[w].known[n], Wanted(w, i, o))
           Known(made) == run[w].known[n] \cup made \cup (IF made \cap labels[n] = {} THEN {} ELSE labels[n])
           r(made) == [run[w] EXCEPT !.pc = Phase({}, run[w].add \cup made, run[w].remove), !.known[n] = Known(made),
                          !.add = @ \cup made, !.intended = @ \cup made]
<1>1. UNCHANGED <<worldVars, report, obj>>
  BY Zenon DEF CreateLabels
<1>2. run[w] \in Runs /\ InHand(w) /\ i \in run[w].item /\ o \in run[w].at /\ run[w].pc = "create"
  BY Zenon DEF CreateLabels, IInv, TypeOK
<1>3. run[w].item = {i} /\ run[w].at = {o} /\ run[w].ver \in 1..MaxVer /\ AtWork(w)
  BY <1>2 DEF InHand, AtWork, Writing
<1>4. left' \in 0..MaxFaults /\ alarm' \in BOOLEAN
  BY FaultTypeOK, Zenon DEF CreateLabels, Raise, Halt, IInv, TypeOK
<1>5. n \in Insts /\ missing \in SUBSET Tags /\ missing \subseteq TagsOf[i][run[w].ver]
  BY <1>3, WantedIsTags, ConstantsAssumption DEF Create, IInv
<1>6. labels' \in [Insts -> SUBSET Tags] /\ touched' \in SUBSET Objs
  <2>1. PICK made \in SUBSET missing : labels' = [labels EXCEPT ![n] = @ \cup made]
    BY Zenon DEF CreateLabels
  <2>2. UNCHANGED touched \/ Touched(o)
    BY Zenon DEF CreateLabels
  <2> HIDE DEF n, missing
  <2>3. QED
    BY <1>5, <2>1, <2>2 DEF Touched, IInv, TypeOK
<1>7. run' \in [Workers -> Runs] /\ \A x \in Workers : InHand(x)'
  <2>1. CASE Halt(w, o)
    BY <1>1, <2>1, DoneStep DEF worldVars
  <2>2. ASSUME NEW made \in SUBSET missing, run' = [run EXCEPT ![w] = r(made)]
        PROVE  run' \in [Workers -> Runs] /\ \A x \in Workers : InHand(x)'
    <3>1. Phase({}, run[w].add \cup made, run[w].remove) \in Writing
      BY PhaseIsPhase DEF Writing
    <3>2. Known(made) \in SUBSET Tags
      BY <1>2, <1>5 DEF Runs, IInv, TypeOK
    <3>3. made \in SUBSET Tags /\ made \subseteq TagsOf[i][run[w].ver]
      BY <1>5
    <3>4. run[w].add \subseteq TagsOf[i][run[w].ver] /\ i \in ids[o] \cap run[w].before.home /\ ~run[w].halted
      BY <1>3 DEF AtWork
    <3> HIDE DEF missing, n, Known
    <3>5. /\ r(made) \in Runs
          /\ r(made).item = {i} /\ r(made).ver = run[w].ver /\ r(made).at = {o} /\ r(made).before = run[w].before
          /\ r(made).add = run[w].add \cup made /\ r(made).halted = run[w].halted
      BY <1>2, <1>3, <1>5, <3>1, <3>2, <3>3 DEF Runs, Phases, Writing
    <3> HIDE DEF r
    <3>6. InHand(w)'
      <4>1. run'[w] = r(made) /\ ids' = ids
        BY <1>1, <2>2, <3>5, OneWorker DEF worldVars
      <4>2. QED
        BY <4>1, <1>3, <3>3, <3>4, <3>5 DEF InHand, AtWork
    <3>7. QED
      BY <1>1, <2>2, <3>5, <3>6, OneWorker DEF worldVars
  <2>3. run \in [Workers -> Runs]
    BY DEF IInv, TypeOK
  <2>4. Halt(w, o) \/ \E made \in SUBSET missing : run' = [run EXCEPT ![w] = r(made)]
    BY <2>3, Zenon DEF CreateLabels, Raise
  <2>5. QED
    BY <2>1, <2>2, <2>4, Zenon
<1>8. QED
  BY <1>1, <1>4, <1>6, <1>7 DEF IInv, TypeOK, worldVars

\* A step that only moves worker w on to `pc`, among the writing phases.
LEMMA PhaseStep ==
  ASSUME IInv, NEW w \in Workers, NEW pc \in Writing, run[w].pc \in Writing,
         run' = [run EXCEPT ![w].pc = pc], UNCHANGED ids
  PROVE  run' \in [Workers -> Runs] /\ \A x \in Workers : InHand(x)'
<1> DEFINE r == [run[w] EXCEPT !.pc = pc]
<1>1. run[w] \in Runs /\ InHand(w) /\ run \in [Workers -> Runs]
  BY DEF IInv, TypeOK
<1>2. run' = [run EXCEPT ![w] = r]
  BY <1>1
<1>3. /\ r \in Runs
      /\ r.item = run[w].item /\ r.ver = run[w].ver /\ r.at = run[w].at /\ r.before = run[w].before
      /\ r.add = run[w].add /\ r.halted = run[w].halted
  BY <1>1 DEF Runs, Phases, Writing
<1> HIDE DEF r
<1>4. InHand(w)'
  <2>1. run'[w] = r
    BY <1>2, <1>3, OneWorker
  <2>2. QED
    BY <2>1, <1>1, <1>3 DEF InHand, AtWork
<1>5. QED
  BY <1>2, <1>3, <1>4, OneWorker

LEMMA EditTypeOK ==
  ASSUME IInv, NEW w \in Workers, NEW o \in Objs, NEW edited \in SUBSET Tags, Edit(w, o, edited)
  PROVE  obj' \in [Objs -> Objects] /\ touched' \in SUBSET Objs
<1>1. obj \in [Objs -> Objects] /\ [obj[o] EXCEPT !.tags = edited] \in Objects
  BY DEF IInv, TypeOK, Objects
<1>2. obj' \in [Objs -> Objects]
  BY <1>1 DEF Edit
<1>3. QED
  BY <1>2 DEF Edit, Touched, IInv, TypeOK

LEMMA ObjectSteps ==
  ASSUME IInv, NEW w \in Workers, NEW o \in Objs,
         AddTags(w, o) \/ RemoveTags(w, o) \/ ReadBack(w, o)
  PROVE  IInv'
<1>1. UNCHANGED <<worldVars, report, labels>>
  BY DEF AddTags, RemoveTags, ReadBack
<1>2. run[w] \in Runs /\ run \in [Workers -> Runs] /\ obj[o] \in Objects
  BY DEF IInv, TypeOK
<1>3. left' \in 0..MaxFaults /\ alarm' \in BOOLEAN
  BY FaultTypeOK DEF AddTags, RemoveTags, ReadBack, Raise, Halt, IInv, TypeOK
<1>4. obj' \in [Objs -> Objects] /\ touched' \in SUBSET Objs
  <2>1. CASE AddTags(w, o)
    <3>1. obj[o].tags \in SUBSET Tags /\ obj[o].tags \cup run[w].add \in SUBSET Tags
      BY <1>2 DEF Runs, Objects
    <3>2. QED
      BY <2>1, <3>1, EditTypeOK DEF AddTags
  <2>2. CASE RemoveTags(w, o)
    <3>1. obj[o].tags \in SUBSET Tags /\ obj[o].tags \ run[w].remove \in SUBSET Tags
      BY <1>2 DEF Runs, Objects
    <3>2. QED
      BY <2>2, <3>1, EditTypeOK DEF RemoveTags
  <2>3. CASE ReadBack(w, o)
    BY <2>3 DEF ReadBack, IInv, TypeOK
  <2>4. QED
    BY <2>1, <2>2, <2>3
<1>5. run' \in [Workers -> Runs] /\ \A x \in Workers : InHand(x)'
  <2>1. CASE Halt(w, o)
    BY <1>1, <2>1, DoneStep DEF worldVars
  <2>2. ASSUME NEW pc \in Writing, run[w].pc \in Writing, run' = [run EXCEPT ![w].pc = pc]
        PROVE  run' \in [Workers -> Runs] /\ \A x \in Workers : InHand(x)'
    BY <1>1, <2>2, PhaseStep DEF worldVars
  <2>3. ASSUME run' = [run EXCEPT ![w] = [Done(w, o) EXCEPT !.pre[o] = [obj[o] EXCEPT !.rest = FALSE]]]
        PROVE  run' \in [Workers -> Runs] /\ \A x \in Workers : InHand(x)'
    <3> DEFINE r == [Done(w, o) EXCEPT !.pre[o] = [obj[o] EXCEPT !.rest = FALSE]]
    <3>1. Done(w, o) \in Runs /\ [obj[o] EXCEPT !.rest = FALSE] \in Objects
      BY <1>2, DoneIsRun DEF Objects, IInv
    <3>2. Done(w, o).pc = "items" /\ Done(w, o).item = run[w].item /\ Done(w, o).ver = run[w].ver
      BY <1>2 DEF Done, Runs
    <3>3. r \in Runs /\ r.pc = "items" /\ r.item = run[w].item /\ r.ver = run[w].ver
      BY <3>1, <3>2 DEF Runs
    <3> HIDE DEF r
    <3>4. InHand(w)'
      <4>1. run'[w] = r /\ InHand(w)
        BY <1>1, <2>3, <3>3, OneWorker DEF IInv, worldVars, r
      <4>2. QED
        BY <4>1, <3>3 DEF InHand, Writing
    <3>5. QED
      BY <1>1, <2>3, <3>3, <3>4, OneWorker DEF worldVars, r
  <2>4. CASE AddTags(w, o)
    <3>1. Phase({}, {}, run[w].remove) \in Writing /\ run[w].pc \in Writing
      BY <2>4, PhaseIsPhase DEF Writing, AddTags
    <3>2. QED
      BY <2>1, <2>2, <2>4, <3>1 DEF AddTags, Raise
  <2>5. CASE RemoveTags(w, o)
    <3>1. "check" \in Writing /\ run[w].pc \in Writing
      BY <2>5 DEF Writing, RemoveTags
    <3>2. QED
      BY <2>1, <2>2, <2>5, <3>1 DEF RemoveTags, Raise
  <2>6. CASE ReadBack(w, o)
    BY <2>1, <2>3, <2>6 DEF ReadBack, Raise
  <2>7. QED
    BY <2>4, <2>5, <2>6
<1>6. QED
  BY <1>1, <1>3, <1>4, <1>5 DEF IInv, TypeOK, worldVars

\* Every action keeps the invariant.
LEMMA StepIInv == IInv /\ [Next]_vars => IInv'
BY StepCases, WorldStep, BoundaryStep, ItemSteps, FetchStep, CreateStep, ObjectSteps, ConstantFacts

\* The state of the *arr tag sync is of its type in every reachable state.
THEOREM TypeCorrect == Spec => []TypeOK
<1>1. Init => IInv
  BY InitTypeOK, InitInHand DEF IInv
<1>2. IInv => TypeOK
  BY DEF IInv
<1>3. QED
  BY <1>1, <1>2, StepIInv, PTL DEF Spec

-----------------------------------------------------------------------------
(* Who writes *)

\* Steps of workers that write to no *arr.
LEMMA OtherSteps ==
  ASSUME \/ Restart \/ EndScan
         \/ \E isFull \in BOOLEAN : StartScan(isFull)
         \/ \E h \in Hooks, i \in Items : StartHook(h, i)
         \/ \E h \in Hooks : EndHook(h)
         \/ \E w \in Workers, i \in Items : StartItem(w, i) \/ EndItem(w, i)
         \/ \E w \in Workers, i \in Items, o \in Objs : Fetch(w, i, o)
         \/ \E w \in Workers, o \in Objs : ReadBack(w, o)
  PROVE  UNCHANGED <<obj, labels>>
<1>1. CASE Restart \/ EndScan
  BY <1>1 DEF Restart, EndScan
<1>2. CASE \E isFull \in BOOLEAN : StartScan(isFull)
  BY <1>2 DEF StartScan
<1>3. CASE (\E h \in Hooks, i \in Items : StartHook(h, i)) \/ \E h \in Hooks : EndHook(h)
  BY <1>3 DEF StartHook, EndHook
<1>4. CASE \E w \in Workers, i \in Items : StartItem(w, i) \/ EndItem(w, i)
  BY <1>4, Zenon DEF StartItem, EndItem
<1>5. ASSUME NEW w \in Workers, NEW i \in Items, NEW o \in Objs, Fetch(w, i, o)
      PROVE  UNCHANGED <<obj, labels>>
  BY <1>5, Zenon DEF Fetch
<1>6. CASE \E w \in Workers, q \in Objs : ReadBack(w, q)
  BY <1>6 DEF ReadBack
<1>7. QED
  BY <1>1, <1>2, <1>3, <1>4, <1>5, <1>6

\* Objects and labels change by somebody else's hand, or by that of one worker,
\* which has an object in hand.
LEMMA OneWriter ==
  ASSUME IInv, [Next]_vars
  PROVE  \/ UNCHANGED <<obj, labels>>
         \/ UNCHANGED run
         \/ \E x \in Workers : AtWork(x) /\ \A w \in Workers \ {x} : run'[w] = run[w]
<1>1. run \in [Workers -> Runs]
  BY DEF IInv, TypeOK
<1>2. ASSUME NEW x \in Workers, NEW i \in Items, NEW o \in Objs, CreateLabels(x, i, o)
      PROVE  AtWork(x) /\ \A w \in Workers \ {x} : run'[w] = run[w]
  <2>1. AtWork(x)
    BY <1>2, Zenon DEF CreateLabels, IInv, InHand, Writing
  <2>2. QED
    BY <1>1, <1>2, <2>1, Zenon DEF CreateLabels, Raise, Halt
<1>3. ASSUME NEW x \in Workers, NEW o \in Objs, AddTags(x, o) \/ RemoveTags(x, o)
      PROVE  AtWork(x) /\ \A w \in Workers \ {x} : run'[w] = run[w]
  <2>1. AtWork(x)
    BY <1>3 DEF AddTags, RemoveTags, IInv, InHand, Writing
  <2>2. QED
    BY <1>1, <1>3, <2>1 DEF AddTags, RemoveTags, Raise, Halt
<1>4. ASSUME \/ \E i \in Items : FileChanges(i)
             \/ \E o \in Objs : Disturb(o)
             \/ SaveMode \/ Cancel \/ DryRun \/ UNCHANGED vars
      PROVE  UNCHANGED run
  BY <1>4 DEF FileChanges, Disturb, SaveMode, Cancel, DryRun, vars
<1>5. QED
  BY <1>2, <1>3, <1>4, StepCases, OtherSteps

\* Tags are added to an object by a worker in one way only: the add call for the
\* object it has in hand.
LEMMA OnlyAdds ==
  ASSUME IInv, [Next]_vars, NEW o \in Objs, obj'[o].tags \ obj[o].tags # {}, run' # run
  PROVE  \E x \in Workers :
           /\ AtWork(x) /\ o \in run[x].at
           /\ obj'[o].tags \ obj[o].tags \subseteq run[x].add
           /\ \A w \in Workers \ {x} : run'[w] = run[w]
<1>1. obj \in [Objs -> Objects] /\ run \in [Workers -> Runs]
  BY DEF IInv, TypeOK
<1>2. PICK x \in Workers, p \in Objs : AddTags(x, p) \/ RemoveTags(x, p)
  <2>1. ~UNCHANGED obj
    OBVIOUS
  <2>2. ~ \/ \E i \in Items : FileChanges(i)
          \/ \E q \in Objs : Disturb(q)
          \/ SaveMode \/ Cancel \/ DryRun \/ UNCHANGED vars
    BY DEF FileChanges, Disturb, SaveMode, Cancel, DryRun, vars
  <2>3. ASSUME NEW w \in Workers, NEW i \in Items, NEW q \in Objs, CreateLabels(w, i, q)
        PROVE  UNCHANGED obj
    BY <2>3, Zenon DEF CreateLabels
  <2>4. QED
    BY <2>1, <2>2, <2>3, StepCases, OtherSteps
<1>3. AtWork(x) /\ p \in run[x].at
  BY <1>2 DEF AddTags, RemoveTags, Edit, IInv, InHand, Writing
<1>4. obj' = obj \/ obj' = [obj EXCEPT ![p].tags = obj[p].tags \cup run[x].add]
             \/ obj' = [obj EXCEPT ![p].tags = obj[p].tags \ run[x].remove]
             \/ obj' = [obj EXCEPT ![p].tags = obj[p].tags]
  BY <1>2 DEF AddTags, RemoveTags, Edit
<1>5. p = o /\ obj'[o].tags \subseteq obj[o].tags \cup run[x].add
  BY <1>1, <1>4 DEF Objects
<1>6. \A w \in Workers \ {x} : run'[w] = run[w]
  BY <1>1, <1>2 DEF AddTags, RemoveTags, Raise, Halt
<1>7. QED
  BY <1>3, <1>5, <1>6

-----------------------------------------------------------------------------
(* Labels *)

\* Nobody knows, plans or carries a label that does not exist.
LabelsExist ==
  /\ \A o \in Objs : obj[o].tags \subseteq labels[InstOf[o]]
  /\ \A w \in Workers :
       /\ \A n \in Insts : run[w].known[n] \subseteq labels[n]
       /\ \A o \in run[w].at : run[w].add \subseteq labels[InstOf[o]]

LEMMA InitLabelsExist == Init => LabelsExist
<1> SUFFICES ASSUME Init PROVE LabelsExist
  OBVIOUS
<1>1. \A o \in Objs : obj[o].tags = {}
  BY DEF Init
<1>2. \A w \in Workers : run[w] = Off
  BY DEF Init
<1>3. Off.at = {} /\ \A n \in Insts : Off.known[n] = {}
  BY DEF Off
<1>4. QED
  BY <1>1, <1>2, <1>3 DEF LabelsExist

\* Worker w goes over to r, and no label goes away.
LEMMA CoverOne ==
  ASSUME IInv, LabelsExist, NEW w \in Workers, NEW r \in Runs, run' = [run EXCEPT ![w] = r],
         \A n \in Insts : labels[n] \subseteq labels'[n],
         \A n \in Insts : r.known[n] \subseteq labels'[n],
         \A o \in r.at : r.add \subseteq labels'[InstOf[o]],
         \A o \in Objs : obj'[o].tags \subseteq labels'[InstOf[o]]
  PROVE  LabelsExist'
<1>1. run \in [Workers -> Runs]
  BY DEF IInv, TypeOK
<1>2. run'[w] = r /\ \A x \in Workers \ {w} : run'[x] = run[x]
  BY <1>1
<1>3. ASSUME NEW x \in Workers \ {w}
      PROVE  /\ \A n \in Insts : run[x].known[n] \subseteq labels'[n]
             /\ \A o \in run[x].at : run[x].add \subseteq labels'[InstOf[o]]
  <2>1. run[x].at \subseteq Objs
    BY <1>1 DEF Runs
  <2>2. \A o \in Objs : InstOf[o] \in Insts
    BY ConstantsAssumption
  <2>3. QED
    BY <2>1, <2>2 DEF LabelsExist
<1>4. QED
  BY <1>2, <1>3 DEF LabelsExist

\* Steps that leave every worker where it is: nobody makes up a label.
LEMMA LabelsWorld ==
  ASSUME IInv, LabelsExist,
         \/ \E i \in Items : FileChanges(i)
         \/ \E o \in Objs : Disturb(o)
         \/ SaveMode \/ Cancel \/ DryRun \/ UNCHANGED vars
  PROVE  LabelsExist'
<1>1. UNCHANGED <<run, labels>>
  BY DEF FileChanges, Disturb, SaveMode, Cancel, DryRun, vars
<1>2. \A o \in Objs : obj'[o].tags \subseteq labels[InstOf[o]]
  <2>1. ASSUME NEW q \in Objs, Disturb(q)
        PROVE  \A o \in Objs : obj'[o].tags \subseteq labels[InstOf[o]]
    <3>1. obj \in [Objs -> Objects]
      BY DEF IInv, TypeOK
    <3>2. \A o \in Objs \ {q} : obj'[o] = obj[o]
      BY <2>1, <3>1 DEF Disturb
    <3>3. obj'[q].tags \subseteq labels[InstOf[q]]
      <4>1. CASE \E t \in labels[InstOf[q]] :
                   obj' = [obj EXCEPT ![q].tags = IF t \in @ THEN @ \ {t} ELSE @ \cup {t}]
        BY <4>1, <3>1 DEF Objects, LabelsExist
      <4>2. CASE obj' = [obj EXCEPT ![q].rest = ~@] \/ obj' = [obj EXCEPT ![q].home = {}]
        BY <4>2, <3>1 DEF Objects, LabelsExist
      <4>3. CASE obj' = [obj EXCEPT ![q] = Absent]
        BY <4>3, <3>1 DEF Absent
      <4>4. QED
        BY <2>1, <4>1, <4>2, <4>3 DEF Disturb
    <3>4. QED
      BY <3>2, <3>3 DEF LabelsExist
  <2>2. CASE UNCHANGED obj
    BY <2>2 DEF LabelsExist
  <2>3. QED
    BY <2>1, <2>2 DEF FileChanges, SaveMode, Cancel, DryRun, vars
<1>3. QED
  BY <1>1, <1>2 DEF LabelsExist

\* Steps in which a worker goes over to a run that only has labels it has read.
LEMMA LabelsRead ==
  ASSUME IInv, LabelsExist, UNCHANGED <<obj, labels>>, NEW w \in Workers, NEW r \in Runs,
         run' = [run EXCEPT ![w] = r],
         \A n \in Insts : r.known[n] \subseteq labels[n],
         r.at = {} \/ \A o \in r.at : r.add \subseteq labels[InstOf[o]]
  PROVE  LabelsExist'
BY CoverOne DEF LabelsExist

LEMMA LabelsBegin ==
  ASSUME IInv, LabelsExist, NEW w \in Workers, NEW listed \in SUBSET Items, NEW todo \in SUBSET Items,
         NEW avail \in SUBSET Insts, Begin(w, listed, todo, avail), UNCHANGED <<obj, labels>>
  PROVE  LabelsExist'
<1> DEFINE pre == [o \in Objs |-> IF InstOf[o] \in avail THEN [obj[o] EXCEPT !.rest = FALSE] ELSE Absent]
<1> DEFINE known == [n \in Insts |-> IF n \in avail THEN labels[n] ELSE {}]
<1> DEFINE r == [Off EXCEPT !.pc = "items", !.live = live, !.todo = todo, !.pre = pre,
                            !.known = known, !.refused = ClaimedTwice(pre, listed)]
<1>1. pre \in [Objs -> Objects]
  BY ConstantFacts DEF IInv, TypeOK, Objects
<1>2. known \in [Insts -> SUBSET Tags] /\ \A n \in Insts : known[n] \subseteq labels[n]
  BY DEF IInv, TypeOK
<1>3. ClaimedTwice(pre, listed) \in SUBSET Objs
  BY DEF ClaimedTwice
<1>4. run' = [run EXCEPT ![w] = r]
  BY DEF Begin
<1>5. live \in BOOLEAN
  BY DEF IInv, TypeOK
<1> HIDE DEF pre, known
<1>6. r \in Runs /\ r.known = known /\ r.at = {}
  BY <1>1, <1>2, <1>3, <1>5, ConstantFacts DEF Off, Runs, Phases
<1> HIDE DEF r
<1>7. QED
  BY <1>2, <1>4, <1>6, LabelsRead

LEMMA LabelsBoundary ==
  ASSUME IInv, LabelsExist,
         \/ \E full \in BOOLEAN : StartScan(full)
         \/ \E h \in Hooks, i \in Items : StartHook(h, i)
         \/ \E h \in Hooks : EndHook(h)
         \/ Restart \/ EndScan
  PROVE  LabelsExist'
<1> USE ConstantFacts
<1>1. UNCHANGED <<obj, labels>>
  BY DEF StartScan, StartHook, EndHook, Restart, EndScan
<1>2. CASE \E full \in BOOLEAN : StartScan(full)
  BY <1>1, <1>2, LabelsBegin DEF StartScan
<1>3. CASE \E h \in Hooks, i \in Items : StartHook(h, i)
  BY <1>1, <1>3, LabelsBegin DEF StartHook
<1>4. Off.at = {} /\ \A n \in Insts : Off.known[n] = {}
  BY DEF Off
<1>5. CASE EndScan \/ \E h \in Hooks : EndHook(h)
  <2>1. PICK w \in Workers : run' = [run EXCEPT ![w] = Off]
    BY <1>5 DEF EndScan, EndHook
  <2>2. QED
    BY <1>1, <1>4, <2>1, LabelsRead
<1>6. CASE Restart
  <2>1. \A w \in Workers : run'[w] = Off
    BY <1>6 DEF Restart
  <2>2. QED
    BY <1>1, <1>4, <2>1 DEF LabelsExist
<1>7. QED
  BY <1>2, <1>3, <1>5, <1>6

LEMMA LabelsItem ==
  ASSUME IInv, LabelsExist, NEW w \in Workers, NEW i \in Items, StartItem(w, i) \/ EndItem(w, i)
  PROVE  LabelsExist'
<1>1. run[w] \in Runs /\ InHand(w) /\ run \in [Workers -> Runs] /\ UNCHANGED <<obj, labels>>
  BY DEF IInv, TypeOK, StartItem, EndItem
<1>2. run'[w] \in Runs
  BY ItemSteps, ConstantFacts DEF IInv, TypeOK
<1>3. PICK r : run' = [run EXCEPT ![w] = r] /\ r.known = run[w].known /\ r.at = run[w].at /\ r.add = run[w].add
  <2>1. CASE StartItem(w, i)
    <3> DEFINE r == [run[w] EXCEPT !.todo = @ \ {i}, !.item = {i}, !.ver = file[i],
                       !.queue = IF run[w].live THEN Owners(run[w].pre, i) \ run[w].refused ELSE {}]
    <3>1. run' = [run EXCEPT ![w] = r]
      BY <2>1, <1>1 DEF StartItem
    <3>2. r.known = run[w].known /\ r.at = run[w].at /\ r.add = run[w].add
      BY <1>1 DEF Runs
    <3>3. QED
      BY <3>1, <3>2
  <2>2. CASE EndItem(w, i)
    <3> DEFINE r == [run[w] EXCEPT !.item = {}, !.ver = 0]
    <3>1. run' = [run EXCEPT ![w] = r]
      BY <2>2, <1>1 DEF EndItem
    <3>2. r.known = run[w].known /\ r.at = run[w].at /\ r.add = run[w].add
      BY <1>1 DEF Runs
    <3>3. QED
      BY <3>1, <3>2
  <2>3. QED
    BY <2>1, <2>2
<1>4. r \in Runs
  BY <1>1, <1>2, <1>3
<1>5. QED
  BY <1>1, <1>3, <1>4, LabelsRead DEF LabelsExist

\* A worker that is done with an object knows as much as before and plans nothing.
LEMMA DoneKnows ==
  ASSUME IInv, NEW w \in Workers, NEW o \in Objs,
         NEW r \in {Done(w, o), [Done(w, o) EXCEPT !.halted = TRUE]}
  PROVE  r \in Runs /\ r.known = run[w].known /\ r.at = {}
<1>1. run[w] \in Runs
  BY DEF IInv, TypeOK
<1>2. r \in Runs
  BY DoneIsRun DEF IInv
<1>3. Done(w, o).known = run[w].known /\ Done(w, o).at = {}
  BY <1>1 DEF Done, Runs
<1>4. [Done(w, o) EXCEPT !.halted = TRUE].known = Done(w, o).known
      /\ [Done(w, o) EXCEPT !.halted = TRUE].at = Done(w, o).at
  BY DoneIsRun DEF IInv, Runs
<1>5. QED
  BY <1>2, <1>3, <1>4

LEMMA LabelsDone ==
  ASSUME IInv, LabelsExist, NEW w \in Workers, NEW o \in Objs,
         run' = [run EXCEPT ![w] = Done(w, o)] \/ Halt(w, o),
         \A n \in Insts : labels[n] \subseteq labels'[n],
         \A q \in Objs : obj'[q].tags \subseteq labels'[InstOf[q]]
  PROVE  LabelsExist'
<1>1. PICK r \in {Done(w, o), [Done(w, o) EXCEPT !.halted = TRUE]} : run' = [run EXCEPT ![w] = r]
  BY DEF Halt
<1>2. r \in Runs /\ r.known = run[w].known /\ r.at = {}
  BY DoneKnows
<1>3. \A n \in Insts : r.known[n] \subseteq labels'[n]
  BY <1>2 DEF LabelsExist
<1>4. QED
  BY <1>1, <1>2, <1>3, CoverOne

LEMMA LabelsFetch ==
  ASSUME IInv, LabelsExist, NEW w \in Workers, NEW i \in Items, NEW o \in Objs, Fetch(w, i, o)
  PROVE  LabelsExist'
<1> DEFINE known == run[w].known[InstOf[o]]
           want == Wanted(w, i, o)
           fresh == obj[o].tags
           pc == Phase(Create(known, want), Add(known, fresh, want), Remove(known, fresh, want))
           r == [run[w] EXCEPT !.pc = pc, !.at = {o}, !.before = obj[o], !.intended = want \cap known,
                   !.add = Add(known, fresh, want), !.remove = Remove(known, fresh, want)]
<1>1. UNCHANGED <<obj, labels>>
  BY Zenon DEF Fetch
<1>2. run[w] \in Runs /\ run \in [Workers -> Runs] /\ InstOf[o] \in Insts
  BY ConstantsAssumption DEF IInv, TypeOK
<1>3. CASE run' = [run EXCEPT ![w] = Done(w, o)] \/ Halt(w, o)
  BY <1>1, <1>3, LabelsDone DEF LabelsExist
<1>4. CASE run' = [run EXCEPT ![w] = r]
  <2>1. Add(known, fresh, want) \subseteq labels[InstOf[o]]
    BY <1>2 DEF Add, LabelsExist
  <2>2. r.known = run[w].known /\ r.at = {o} /\ r.add = Add(known, fresh, want)
    BY <1>2 DEF Runs
  <2>3. run'[w] \in Runs
    BY FetchStep DEF IInv, TypeOK
  <2> HIDE DEF r, known, want
  <2>4. r \in Runs
    BY <1>2, <1>4, <2>3
  <2>5. QED
    BY <1>1, <1>4, <2>1, <2>2, <2>4, LabelsRead DEF LabelsExist
<1>5. QED
  BY <1>2, <1>3, <1>4, Zenon DEF Fetch, Raise

LEMMA LabelsCreate ==
  ASSUME IInv, LabelsExist, NEW w \in Workers, NEW i \in Items, NEW o \in Objs, CreateLabels(w, i, o)
  PROVE  LabelsExist'
<1> DEFINE n == InstOf[o]
           missing == Create(run[w].known[n], Wanted(w, i, o))
           Known(made) == run[w].known[n] \cup made \cup (IF made \cap labels[n] = {} THEN {} ELSE labels[n])
           r(made) == [run[w] EXCEPT !.pc = Phase({}, run[w].add \cup made, run[w].remove), !.known[n] = Known(made),
                                     !.add = @ \cup made, !.intended = @ \cup made]
<1>1. UNCHANGED obj
  BY Zenon DEF CreateLabels
<1>2. run[w] \in Runs /\ run \in [Workers -> Runs] /\ n \in Insts /\ labels \in [Insts -> SUBSET Tags]
  BY ConstantsAssumption DEF IInv, TypeOK
<1>3. PICK made \in SUBSET missing :
        /\ labels' = [labels EXCEPT ![n] = @ \cup made]
        /\ run' = [run EXCEPT ![w] = r(made)] \/ Halt(w, o)
  BY <1>2, Zenon DEF CreateLabels, Raise
<1>4. \A m \in Insts : labels[m] \subseteq labels'[m]
  BY <1>2, <1>3
<1>5. labels'[n] = labels[n] \cup made
  BY <1>2, <1>3
<1>6. \A q \in Objs : obj'[q].tags \subseteq labels'[InstOf[q]]
  BY <1>1, <1>4, ConstantsAssumption DEF LabelsExist
<1>7. CASE Halt(w, o)
  BY <1>4, <1>6, <1>7, LabelsDone
<1>8. CASE run' = [run EXCEPT ![w] = r(made)]
  <2>1. run[w].at = {o} /\ run[w].add \subseteq labels[n]
    <3>1. AtWork(w) /\ o \in run[w].at
      BY Zenon DEF CreateLabels, IInv, InHand, Writing
    <3>2. QED
      BY <3>1 DEF AtWork, LabelsExist
  <2>2. Known(made) \subseteq labels'[n]
    BY <1>2, <1>5 DEF LabelsExist
  <2> HIDE DEF missing, Known
  <2>3. r(made).at = {o} /\ r(made).add = run[w].add \cup made
        /\ r(made).known = [run[w].known EXCEPT ![n] = Known(made)]
    BY <1>2, <2>1 DEF Runs
  <2>4. run'[w] \in Runs
    BY CreateStep DEF IInv, TypeOK
  <2> HIDE DEF r
  <2>5. r(made) \in Runs
    BY <1>2, <1>8, <2>4
  <2>6. ASSUME NEW m \in Insts
        PROVE  r(made).known[m] \subseteq labels'[m]
    <3>1. run[w].known \in [Insts -> SUBSET Tags] /\ run[w].known[m] \subseteq labels[m]
      BY <1>2 DEF Runs, LabelsExist
    <3>2. QED
      BY <1>4, <2>2, <2>3, <3>1
  <2>7. \A q \in r(made).at : r(made).add \subseteq labels'[InstOf[q]]
    BY <1>5, <2>1, <2>3
  <2>8. QED
    BY <1>4, <1>6, <1>8, <2>5, <2>6, <2>7, CoverOne
<1>9. QED
  BY <1>3, <1>7, <1>8

\* An edit by a worker that has the object in hand only writes labels that exist.
LEMMA LabelsEdit ==
  ASSUME IInv, LabelsExist, NEW w \in Workers, NEW o \in Objs, run[w].pc \in Writing,
         \/ \E add \in {{}, run[w].add} : Edit(w, o, obj[o].tags \cup add)
         \/ \E remove \in {{}, run[w].remove} : Edit(w, o, obj[o].tags \ remove)
  PROVE  \A q \in Objs : obj'[q].tags \subseteq labels[InstOf[q]]
<1>1. obj \in [Objs -> Objects] /\ o \in run[w].at
  BY DEF IInv, TypeOK, Edit
<1>2. PICK edited : (obj' = [obj EXCEPT ![o].tags = edited] \/ UNCHANGED obj) /\ edited \subseteq obj[o].tags \cup run[w].add
  BY DEF Edit
<1>3. edited \subseteq labels[InstOf[o]]
  BY <1>1, <1>2 DEF LabelsExist
<1>4. QED
  BY <1>1, <1>2, <1>3 DEF LabelsExist, Objects

LEMMA LabelsObject ==
  ASSUME IInv, LabelsExist, NEW w \in Workers, NEW o \in Objs,
         AddTags(w, o) \/ RemoveTags(w, o) \/ ReadBack(w, o)
  PROVE  LabelsExist'
<1>1. run[w] \in Runs /\ run \in [Workers -> Runs] /\ UNCHANGED labels
  BY DEF IInv, TypeOK, AddTags, RemoveTags, ReadBack
<1>2. \A q \in Objs : obj'[q].tags \subseteq labels'[InstOf[q]]
  <2>1. CASE AddTags(w, o)
    <3>1. run[w].pc \in Writing /\ obj[o].tags \cup {} = obj[o].tags
      BY <2>1 DEF AddTags, Writing, IInv, TypeOK, Objects
    <3>2. QED
      BY <1>1, <2>1, <3>1, LabelsEdit DEF AddTags
  <2>2. CASE RemoveTags(w, o)
    <3>1. run[w].pc \in Writing /\ obj[o].tags \ {} = obj[o].tags
      BY <2>2 DEF RemoveTags, Writing, IInv, TypeOK, Objects
    <3>2. QED
      BY <1>1, <2>2, <3>1, LabelsEdit DEF RemoveTags
  <2>3. CASE ReadBack(w, o)
    BY <1>1, <2>3 DEF ReadBack, LabelsExist
  <2>4. QED
    BY <2>1, <2>2, <2>3
<1>3. CASE Halt(w, o)
  BY <1>1, <1>2, <1>3, LabelsDone
<1>4. ASSUME NEW pc, run' = [run EXCEPT ![w].pc = pc]
      PROVE  LabelsExist'
  <2> DEFINE r == [run[w] EXCEPT !.pc = pc]
  <2>1. run' = [run EXCEPT ![w] = r] /\ r.known = run[w].known /\ r.at = run[w].at /\ r.add = run[w].add
    BY <1>1, <1>4 DEF Runs
  <2>2. run'[w] \in Runs
    BY ObjectSteps DEF IInv, TypeOK
  <2> HIDE DEF r
  <2>3. r \in Runs
    BY <1>1, <2>1, <2>2
  <2>4. QED
    BY <1>1, <1>2, <2>1, <2>3, CoverOne DEF LabelsExist
<1>5. ASSUME run' = [run EXCEPT ![w] = [Done(w, o) EXCEPT !.pre[o] = [obj[o] EXCEPT !.rest = FALSE]]]
      PROVE  LabelsExist'
  <2> DEFINE r == [Done(w, o) EXCEPT !.pre[o] = [obj[o] EXCEPT !.rest = FALSE]]
  <2>1. Done(w, o) \in Runs /\ Done(w, o).known = run[w].known /\ Done(w, o).at = {}
    BY DoneKnows
  <2>2. r.known = run[w].known /\ r.at = {}
    BY <2>1 DEF Runs
  <2>3. run'[w] \in Runs
    BY ObjectSteps DEF IInv, TypeOK
  <2> HIDE DEF r
  <2>4. r \in Runs
    BY <1>1, <1>5, <2>3 DEF r
  <2>5. run' = [run EXCEPT ![w] = r]
    BY <1>5 DEF r
  <2>6. QED
    BY <1>1, <1>2, <2>2, <2>4, <2>5, CoverOne DEF LabelsExist
<1>6. QED
  BY <1>3, <1>4, <1>5 DEF AddTags, RemoveTags, ReadBack, Raise

LEMMA StepLabelsExist == IInv /\ LabelsExist /\ [Next]_vars => LabelsExist'
BY StepCases, LabelsWorld, LabelsBoundary, LabelsItem, LabelsFetch, LabelsCreate, LabelsObject

-----------------------------------------------------------------------------
(* What a scan leaves behind *)

S == run[Scan]

\* What the scan relies on, whatever others do: what it holds to own an item
\* does, or has been moved away or deleted since, and an item is only begun once.
IndexHolds ==
  /\ S.pc = "off" => probed = [i \in Items |-> 0]
  /\ S.pc \notin Writing => S.at = {}
  /\ \A i \in S.todo : probed[i] = 0
  /\ \A i \in S.item : probed[i] = S.ver /\ S.queue \subseteq Owners(S.pre, i) \ S.refused
  /\ S.at \subseteq S.queue
  /\ ClaimedTwice(S.pre, Items) \subseteq S.refused
  /\ \A o \in Objs : S.pre[o].here => obj[o].home \in {S.pre[o].home, {}}
  /\ \A o \in S.at : S.before.here /\ S.before.home = S.pre[o].home

\* An object that is as the scan has last read it, all of its labels known.
AsRead(o) ==
  /\ obj[o].here /\ obj[o].home = S.pre[o].home /\ obj[o].tags = S.pre[o].tags
  /\ S.pre[o].tags \subseteq S.known[InstOf[o]]

\* How far the writes to the object at work have come, phase by phase.
InProgress(i, o) ==
  LET want == Wanted(Scan, i, o)
      known == S.known[InstOf[o]]
      old == S.before.tags
  IN /\ obj[o].here /\ obj[o].home = S.pre[o].home
     /\ old \subseteq known /\ S.remove = old \ want
     /\ S.pc = "create" => obj[o].tags = old /\ S.add = (want \cap known) \ old
     /\ S.pc # "create" => want \subseteq known
     /\ S.pc = "add" => obj[o].tags = old /\ S.add = want \ old
     /\ S.pc = "remove" => obj[o].tags = old \cup want
     /\ S.pc = "check" => obj[o].tags = want

Exact(i, o) == obj[o].tags = Accepted(o, TagsOf[i][probed[i]])

\* An object is as it was read, or at work, or done with for each item that is.
CleanFor(o) ==
  /\ o \notin S.at => AsRead(o)
  /\ o \in S.at => \A i \in S.item : InProgress(i, o)
  /\ \A i \in Items :
       o \in Owners(S.pre, i) \ S.refused /\ probed[i] # 0 /\ ~(i \in S.item /\ o \in S.queue) => Exact(i, o)

CleanSoFar == S.live /\ ~S.halted => \A o \in Objs \ touched : S.pre[o].here => CleanFor(o)

ScanInv == IndexHolds /\ CleanSoFar

\* A step that is not the scan's, as the scan sees it.
Aside ==
  /\ S' = S /\ UNCHANGED <<ids, probed>> /\ touched \subseteq touched'
  /\ \A o \in Objs : obj'[o] = obj[o] \/ (o \in touched' /\ obj'[o].home \in {obj[o].home, {}})

LEMMA AsideKeeps ==
  ASSUME ScanInv, Aside
  PROVE  ScanInv'
<1>1. S' = S /\ ids' = ids /\ probed' = probed
  BY DEF Aside
<1>2. IndexHolds'
  <2>1. \A o \in Objs : S.pre[o].here => obj'[o].home \in {S.pre[o].home, {}}
    BY DEF Aside, ScanInv, IndexHolds
  <2>2. \A i : Owners(S.pre, i)' = Owners(S.pre, i)
    BY <1>1 DEF Owners
  <2>3. ClaimedTwice(S.pre, Items)' = ClaimedTwice(S.pre, Items)
    BY <1>1, <2>2 DEF ClaimedTwice
  <2>4. QED
    BY <1>1, <2>1, <2>2, <2>3 DEF ScanInv, IndexHolds
<1>3. CleanSoFar'
  <2> SUFFICES ASSUME S.live, ~S.halted, NEW o \in Objs, o \notin touched', S.pre[o].here
               PROVE  CleanFor(o)'
    BY <1>1 DEF CleanSoFar
  <2>1. obj'[o] = obj[o] /\ o \notin touched
    BY DEF Aside
  <2>2. CleanFor(o)
    BY <2>1 DEF ScanInv, CleanSoFar
  <2>3. \A i : Owners(S.pre, i)' = Owners(S.pre, i)
    BY <1>1 DEF Owners
  <2>4. AsRead(o)' = AsRead(o)
    BY <1>1, <2>1 DEF AsRead
  <2>5. \A i : Wanted(Scan, i, o)' = Wanted(Scan, i, o)
    BY <1>1 DEF Wanted, S
  <2>6. \A i : InProgress(i, o)' = InProgress(i, o)
    BY <1>1, <2>1, <2>5 DEF InProgress
  <2>7. \A i : Exact(i, o)' = Exact(i, o)
    BY <1>1, <2>1 DEF Exact
  <2>8. QED
    BY <1>1, <2>2, <2>3, <2>4, <2>6, <2>7 DEF CleanFor
<1>4. QED
  BY <1>2, <1>3 DEF ScanInv

LEMMA WorldIsAside ==
  ASSUME IInv,
         \/ \E i \in Items : FileChanges(i)
         \/ \E o \in Objs : Disturb(o)
         \/ SaveMode \/ Cancel \/ DryRun \/ UNCHANGED vars
  PROVE  Aside
<1> USE DEF worldVars, alertVars, Aside, S
<1>1. CASE \/ \E i \in Items : FileChanges(i)
           \/ SaveMode \/ Cancel \/ DryRun \/ UNCHANGED vars
  BY <1>1 DEF FileChanges, SaveMode, Cancel, DryRun, vars
<1>2. ASSUME NEW q \in Objs, Disturb(q)
      PROVE  Aside
  <2>1. obj \in [Objs -> Objects]
    BY DEF IInv, TypeOK
  <2>2. \A o \in Objs \ {q} : obj'[o] = obj[o]
    BY <1>2, <2>1 DEF Disturb
  <2>3. touched' = touched \cup {q} /\ UNCHANGED <<run, ids, probed>>
    BY <1>2 DEF Disturb, Touched
  <2>4. obj'[q].home \in {obj[q].home, {}}
    <3>1. CASE \E t \in labels[InstOf[q]] :
                 obj' = [obj EXCEPT ![q].tags = IF t \in @ THEN @ \ {t} ELSE @ \cup {t}]
      BY <3>1, <2>1 DEF Objects
    <3>2. CASE obj' = [obj EXCEPT ![q].rest = ~@] \/ obj' = [obj EXCEPT ![q].home = {}]
      BY <3>2, <2>1 DEF Objects
    <3>3. CASE obj' = [obj EXCEPT ![q] = Absent]
      BY <3>3, <2>1 DEF Absent
    <3>4. QED
      BY <1>2, <3>1, <3>2, <3>3 DEF Disturb
  <2>5. QED
    BY <2>2, <2>3, <2>4
<1>3. QED
  BY <1>1, <1>2

LEMMA HookIsAside ==
  ASSUME IInv, NEW h \in Hooks,
         \/ (\E i \in Items : StartHook(h, i)) \/ EndHook(h)
         \/ \E i \in Items : StartItem(h, i) \/ EndItem(h, i)
         \/ \E i \in Items, o \in Objs : Fetch(h, i, o) \/ CreateLabels(h, i, o)
         \/ \E o \in Objs : AddTags(h, o) \/ RemoveTags(h, o) \/ ReadBack(h, o)
  PROVE  Aside
<1> USE DEF worldVars, alertVars
<1>1. h # Scan /\ Scan \in Workers /\ run \in [Workers -> Runs] /\ obj \in [Objs -> Objects]
  BY ConstantsAssumption, ConstantFacts DEF IInv, TypeOK
<1>2. ASSUME \/ (\E i \in Items : StartHook(h, i)) \/ EndHook(h)
             \/ \E i \in Items : StartItem(h, i) \/ EndItem(h, i)
      PROVE  Aside
  BY <1>1, <1>2, Zenon DEF StartHook, Begin, EndHook, StartItem, EndItem, Aside, S
<1>3. ASSUME NEW i \in Items, NEW o \in Objs, Fetch(h, i, o) \/ CreateLabels(h, i, o)
      PROVE  Aside
  <2>1. UNCHANGED <<obj, ids, probed>> /\ touched \subseteq touched'
    BY <1>3, Zenon DEF Fetch, CreateLabels, Touched
  <2>2. run'[Scan] = run[Scan]
    BY <1>1, <1>3, Zenon DEF Fetch, CreateLabels, Raise, Halt
  <2>3. QED
    BY <2>1, <2>2 DEF Aside, S
<1>4. ASSUME NEW o \in Objs, AddTags(h, o) \/ RemoveTags(h, o) \/ ReadBack(h, o)
      PROVE  Aside
  <2>1. UNCHANGED <<ids, probed>> /\ run'[Scan] = run[Scan]
    BY <1>1, <1>4 DEF AddTags, RemoveTags, ReadBack, Raise, Halt
  <2>2. \/ UNCHANGED <<obj, touched>>
        \/ \E edited : Edit(h, o, edited)
    BY <1>4 DEF AddTags, RemoveTags, ReadBack
  <2>3. ASSUME NEW edited, Edit(h, o, edited)
        PROVE  /\ touched \subseteq touched'
               /\ \A q \in Objs : obj'[q] = obj[q] \/ (q \in touched' /\ obj'[q].home = obj[q].home)
    <3>1. \A q \in Objs \ {o} : obj'[q] = obj[q]
      BY <1>1, <2>3 DEF Edit
    <3>2. touched \subseteq touched'
      BY <2>3 DEF Edit, Touched
    <3>3. obj'[o] = obj[o] \/ obj'[o] = [obj[o] EXCEPT !.tags = edited]
      BY <1>1, <2>3 DEF Edit
    <3>4. obj'[o].home = obj[o].home
      BY <1>1, <3>3 DEF Objects
    <3>5. CASE obj[o].tags = edited
      <4>1. [obj[o] EXCEPT !.tags = edited] = obj[o]
        BY <1>1, <3>5 DEF Objects
      <4>2. QED
        BY <3>1, <3>2, <3>3, <4>1
    <3>6. CASE obj[o].tags # edited
      BY <1>1, <2>3, <3>1, <3>2, <3>4, <3>6 DEF Edit, Touched
    <3>7. QED
      BY <3>5, <3>6
  <2>4. QED
    BY <2>1, <2>2, <2>3 DEF Aside, S
<1>5. QED
  BY <1>2, <1>3, <1>4

LEMMA ScanStarts ==
  ASSUME IInv, LabelsExist, ScanInv, NEW full \in BOOLEAN, StartScan(full)
  PROVE  ScanInv'
<1>1. UNCHANGED <<obj, labels, ids, probed>> /\ touched' = {} /\ S.pc = "off"
  BY DEF StartScan, S
<1>2. PICK avail \in SUBSET Insts, todo \in SUBSET Items : Begin(Scan, Items, todo, avail)
  BY DEF StartScan
<1> DEFINE pre == [o \in Objs |-> IF InstOf[o] \in avail THEN [obj[o] EXCEPT !.rest = FALSE] ELSE Absent]
<1> DEFINE known == [n \in Insts |-> IF n \in avail THEN labels[n] ELSE {}]
<1> DEFINE r == [Off EXCEPT !.pc = "items", !.live = live, !.todo = todo, !.pre = pre,
                            !.known = known, !.refused = ClaimedTwice(pre, Items)]
<1>3. \A o \in Objs : pre[o].here => pre[o].home = obj[o].home /\ pre[o].tags = obj[o].tags /\ obj[o].here
                                     /\ known[InstOf[o]] = labels[InstOf[o]]
  BY ConstantsAssumption DEF Absent, IInv, TypeOK, Objects
<1>4. S' = r
  BY <1>2, ConstantFacts DEF Begin, IInv, TypeOK, S
<1> HIDE DEF pre, known
<1>5. /\ r.pc = "items" /\ r.todo = todo /\ r.pre = pre /\ r.known = known
      /\ r.refused = ClaimedTwice(pre, Items) /\ r.item = {} /\ r.at = {} /\ r.queue = {}
  BY DEF Off
<1> HIDE DEF r
<1>6. probed' = [i \in Items |-> 0]
  BY <1>1 DEF ScanInv, IndexHolds
<1>7. ClaimedTwice(S.pre, Items)' = ClaimedTwice(pre, Items)
  BY <1>1, <1>4, <1>5 DEF ClaimedTwice, Owners
<1>8. IndexHolds'
  BY <1>1, <1>3, <1>4, <1>5, <1>6, <1>7 DEF IndexHolds, Writing
<1>9. ASSUME NEW o \in Objs, S'.pre[o].here
      PROVE  CleanFor(o)'
  <2>1. AsRead(o)'
    BY <1>1, <1>3, <1>4, <1>5, <1>9 DEF AsRead, LabelsExist
  <2>2. QED
    BY <2>1, <1>4, <1>5, <1>6 DEF CleanFor
<1>10. QED
  BY <1>8, <1>9 DEF ScanInv, CleanSoFar

\* A scan that is over relies on nothing.
LEMMA ScanStops ==
  ASSUME S' = Off, probed' = [i \in Items |-> 0]
  PROVE  ScanInv'
<1>1. /\ Off.pc = "off" /\ Off.live = FALSE /\ Off.todo = {} /\ Off.item = {} /\ Off.at = {} /\ Off.queue = {}
      /\ \A o \in Objs : Off.pre[o].here = FALSE
  BY DEF Off, Absent
<1>2. ClaimedTwice(S.pre, Items)' = {}
  BY <1>1 DEF ClaimedTwice, Owners
<1>3. QED
  BY <1>1, <1>2 DEF ScanInv, IndexHolds, CleanSoFar

LEMMA InitScanInv == Init => ScanInv
<1> SUFFICES ASSUME Init PROVE ScanInv
  OBVIOUS
<1>1. S = Off /\ probed = [i \in Items |-> 0]
  BY ConstantFacts DEF Init, S
<1>2. /\ Off.pc = "off" /\ Off.live = FALSE /\ Off.todo = {} /\ Off.item = {} /\ Off.at = {} /\ Off.queue = {}
      /\ \A o \in Objs : Off.pre[o].here = FALSE
  BY DEF Off, Absent
<1>3. ClaimedTwice(S.pre, Items) = {}
  BY <1>1, <1>2 DEF ClaimedTwice, Owners
<1>4. QED
  BY <1>1, <1>2, <1>3 DEF ScanInv, IndexHolds, CleanSoFar

\* The scan stays with its item, or lets it go: its index is what it was.
LEMMA IndexKept ==
  ASSUME IndexHolds, UNCHANGED <<ids, probed>>,
         S'.pc # "off", S'.todo = S.todo, S'.refused = S.refused,
         S'.item \subseteq S.item, S'.ver = S.ver \/ S'.item = {}, S'.queue \subseteq S.queue,
         S'.at \subseteq S'.queue, S'.pc \notin Writing => S'.at = {},
         \A o \in Objs : S'.pre[o].here = S.pre[o].here /\ S'.pre[o].home = S.pre[o].home,
         \A o \in Objs : obj'[o].home = obj[o].home,
         \A o \in S'.at : S'.before.here /\ S'.before.home = S.pre[o].home,
         S'.at \subseteq Objs
  PROVE  IndexHolds' /\ \A i : Owners(S.pre, i)' = Owners(S.pre, i)
<1>1. \A i : Owners(S.pre, i)' = Owners(S.pre, i)
  BY DEF Owners
<1>2. ClaimedTwice(S.pre, Items)' = ClaimedTwice(S.pre, Items)
  BY <1>1 DEF ClaimedTwice
<1>3. QED
  BY <1>1, <1>2 DEF IndexHolds

LEMMA ScanStartsItem ==
  ASSUME IInv, ScanInv, NEW i \in Items, StartItem(Scan, i)
  PROVE  ScanInv'
<1> DEFINE queue == IF S.live THEN Owners(S.pre, i) \ S.refused ELSE {}
<1> DEFINE r == [S EXCEPT !.todo = @ \ {i}, !.item = {i}, !.ver = file[i], !.queue = queue]
<1>1. S \in Runs /\ S.pc = "items" /\ S.item = {} /\ i \in S.todo /\ S.todo \subseteq Items
  BY ConstantFacts DEF StartItem, IInv, TypeOK, S, Runs
<1>2. UNCHANGED <<ids, obj, touched>> /\ probed' = [probed EXCEPT ![i] = file[i]]
  BY DEF StartItem
<1>3. S' = r
  BY ConstantFacts DEF StartItem, IInv, TypeOK, S
<1> HIDE DEF queue
<1>4. /\ r.pc = "items" /\ r.todo = S.todo \ {i} /\ r.pre = S.pre /\ r.known = S.known /\ r.refused = S.refused
      /\ r.item = {i} /\ r.at = S.at /\ r.queue = queue /\ r.ver = file[i] /\ r.live = S.live /\ r.halted = S.halted
  BY <1>1 DEF Runs
<1> HIDE DEF r
<1>5. probed'[i] = file[i] /\ file[i] # 0 /\ \A j \in Items \ {i} : probed'[j] = probed[j]
  BY <1>2 DEF IInv, TypeOK
<1>6. \A j : Owners(S.pre, j)' = Owners(S.pre, j)
  BY <1>2, <1>3, <1>4 DEF Owners
<1>7. ClaimedTwice(S.pre, Items)' = ClaimedTwice(S.pre, Items)
  BY <1>6 DEF ClaimedTwice
<1>8. S.at = {}
  BY <1>1 DEF ScanInv, IndexHolds, Writing
<1>9. IndexHolds'
  <2>1. \A j \in S'.todo : probed'[j] = 0
    BY <1>1, <1>3, <1>4, <1>5 DEF ScanInv, IndexHolds
  <2>2. queue \subseteq Owners(S.pre, i) \ S.refused
    BY DEF queue
  <2>3. QED
    BY <1>1, <1>2, <1>3, <1>4, <1>5, <1>6, <1>7, <1>8, <2>1, <2>2 DEF ScanInv, IndexHolds, Writing
<1>10. ASSUME S.live, ~S.halted, NEW o \in Objs \ touched, S.pre[o].here
       PROVE  CleanFor(o)'
  <2>1. CleanFor(o)
    BY <1>10 DEF ScanInv, CleanSoFar
  <2>2. AsRead(o)'
    BY <1>2, <1>3, <1>4, <1>8, <2>1 DEF CleanFor, AsRead
  <2>3. ASSUME NEW j \in Items, o \in Owners(S.pre, j) \ S.refused, probed'[j] # 0, ~(j \in {i} /\ o \in queue)
        PROVE  Exact(j, o)'
    <3>1. j # i
      BY <1>10, <2>3 DEF queue
    <3>2. Exact(j, o)
      BY <1>1, <1>5, <2>1, <2>3, <3>1 DEF CleanFor
    <3>3. QED
      BY <1>2, <1>5, <3>1, <3>2 DEF Exact
  <2>4. QED
    BY <1>3, <1>4, <1>6, <1>8, <2>2, <2>3 DEF CleanFor
<1>11. QED
  BY <1>2, <1>3, <1>4, <1>9, <1>10 DEF ScanInv, CleanSoFar

LEMMA ScanEndsItem ==
  ASSUME IInv, ScanInv, NEW i \in Items, EndItem(Scan, i)
  PROVE  ScanInv'
<1> DEFINE r == [S EXCEPT !.item = {}, !.ver = 0]
<1>1. S \in Runs /\ S.pc = "items" /\ S.queue = {} /\ S.at = {}
  BY ConstantFacts DEF EndItem, IInv, TypeOK, S, ScanInv, IndexHolds, Writing
<1>2. UNCHANGED <<ids, obj, touched, probed>>
  BY DEF EndItem
<1>3. S' = r
  BY ConstantFacts DEF EndItem, IInv, TypeOK, S
<1>4. /\ r.pc = "items" /\ r.todo = S.todo /\ r.pre = S.pre /\ r.known = S.known /\ r.refused = S.refused
      /\ r.item = {} /\ r.at = {} /\ r.queue = {} /\ r.live = S.live /\ r.halted = S.halted
  BY <1>1 DEF Runs
<1> HIDE DEF r
<1>5. IndexHolds' /\ \A j : Owners(S.pre, j)' = Owners(S.pre, j)
  BY <1>1, <1>2, <1>3, <1>4, IndexKept DEF ScanInv
<1>6. ASSUME S.live, ~S.halted, NEW o \in Objs \ touched, S.pre[o].here
      PROVE  CleanFor(o)'
  <2>1. CleanFor(o)
    BY <1>6 DEF ScanInv, CleanSoFar
  <2>2. AsRead(o)'
    BY <1>1, <1>2, <1>3, <1>4, <2>1 DEF CleanFor, AsRead
  <2>3. \A j : Exact(j, o)' = Exact(j, o)
    BY <1>2 DEF Exact
  <2>4. QED
    BY <1>1, <1>2, <1>3, <1>4, <1>5, <2>1, <2>2, <2>3 DEF CleanFor
<1>7. QED
  BY <1>2, <1>3, <1>4, <1>5, <1>6 DEF ScanInv, CleanSoFar

\* What being done with an object does to what the scan relies on.
LEMMA ScanDone ==
  ASSUME IInv, ScanInv, NEW o \in Objs, NEW r \in {Done(Scan, o), [Done(Scan, o) EXCEPT !.halted = TRUE]},
         S' = r, UNCHANGED <<ids, probed>>, \A q \in Objs : obj'[q].home = obj[q].home
  PROVE  /\ IndexHolds' /\ \A i : Owners(S.pre, i)' = Owners(S.pre, i)
         /\ S'.at = {} /\ S'.queue = S.queue \ {o}
         /\ S'.live = S.live /\ S'.item = S.item /\ S'.ver = S.ver
         /\ S'.pre = S.pre /\ S'.known = S.known /\ S'.refused = S.refused
<1>1. S \in Runs
  BY ConstantFacts DEF IInv, TypeOK, S
<1>2. \A q \in {Done(Scan, o), [Done(Scan, o) EXCEPT !.halted = TRUE]} :
        /\ q.pc = "items" /\ q.at = {} /\ q.queue = S.queue \ {o} /\ q.todo = S.todo
        /\ q.live = S.live /\ q.item = S.item /\ q.ver = S.ver
        /\ q.pre = S.pre /\ q.known = S.known /\ q.refused = S.refused
  <2>1. /\ Done(Scan, o) = [S EXCEPT !.pc = "items", !.at = {}, !.queue = @ \ {o},
                              !.add = {}, !.remove = {}, !.intended = {}, !.before = Absent]
        /\ Done(Scan, o) \in Runs
    BY DoneIsRun, ConstantFacts DEF Done, S, IInv
  <2> DEFINE d == Done(Scan, o)
  <2>2. /\ d.pc = "items" /\ d.at = {} /\ d.queue = S.queue \ {o} /\ d.todo = S.todo
        /\ d.live = S.live /\ d.item = S.item /\ d.ver = S.ver
        /\ d.pre = S.pre /\ d.known = S.known /\ d.refused = S.refused
    BY <1>1, <2>1 DEF Runs
  <2> HIDE DEF d
  <2> DEFINE h == [d EXCEPT !.halted = TRUE]
  <2>3. /\ h.pc = d.pc /\ h.at = d.at /\ h.queue = d.queue /\ h.todo = d.todo
        /\ h.live = d.live /\ h.item = d.item /\ h.ver = d.ver
        /\ h.pre = d.pre /\ h.known = d.known /\ h.refused = d.refused
    BY <2>1 DEF Runs, d
  <2> HIDE DEF h
  <2>4. Done(Scan, o) = d /\ [Done(Scan, o) EXCEPT !.halted = TRUE] = h
    BY DEF d, h
  <2>5. QED
    BY <2>2, <2>3, <2>4
<1>3. QED
  BY <1>2, IndexKept DEF ScanInv, Writing

LEMMA ScanHalts ==
  ASSUME IInv, ScanInv, NEW o \in Objs, Halt(Scan, o),
         UNCHANGED <<ids, probed>>, \A q \in Objs : obj'[q].home = obj[q].home
  PROVE  ScanInv'
<1>1. S' = [Done(Scan, o) EXCEPT !.halted = TRUE]
  BY ConstantFacts DEF Halt, S, IInv, TypeOK
<1>2. Done(Scan, o) \in Runs
  BY DoneIsRun, ConstantFacts DEF IInv
<1>3. S'.halted
  BY <1>1, <1>2 DEF Runs
<1>4. IndexHolds'
  BY <1>1, ScanDone
<1>5. QED
  BY <1>3, <1>4 DEF ScanInv, CleanSoFar

\* Nothing to change, of an object whose labels are all known: it has what it should.
LEMMA NothingToDo ==
  ASSUME NEW known, NEW tags, NEW want, tags \subseteq known, ~Changes(known, tags, want)
  PROVE  tags = want
BY DEF Changes, Create, Add, Remove

\* An object of the item at work that nobody else has changed is still its item's.
LEMMA StillThere ==
  ASSUME IInv, ScanInv, NEW i \in S.item, NEW o \in S.queue,
         S.live, ~S.halted, o \notin touched, o \notin S.at
  PROVE  StillOwned(i, o) /\ AsRead(o) /\ S.pre[o].here
<1>1. o \in Owners(S.pre, i)
  BY DEF ScanInv, IndexHolds
<1>2. o \in Objs /\ S.pre[o].here /\ i \in ids[o] \cap S.pre[o].home
  BY <1>1 DEF Owners
<1>3. AsRead(o)
  BY <1>2 DEF ScanInv, CleanSoFar, CleanFor
<1>4. QED
  BY <1>2, <1>3 DEF StillOwned, AsRead

LEMMA ScanFetches ==
  ASSUME IInv, ScanInv, NEW i \in Items, NEW o \in Objs, Fetch(Scan, i, o)
  PROVE  ScanInv'
<1> DEFINE known == S.known[InstOf[o]]
           want == Wanted(Scan, i, o)
           fresh == obj[o].tags
           pc == Phase(Create(known, want), Add(known, fresh, want), Remove(known, fresh, want))
           r == [S EXCEPT !.pc = pc, !.at = {o}, !.before = obj[o], !.intended = want \cap known,
                   !.add = Add(known, fresh, want), !.remove = Remove(known, fresh, want)]
<1>1. /\ S \in Runs /\ S.pc = "items" /\ S.at = {} /\ S.item = {i} /\ o \in S.queue
      /\ probed[i] = S.ver /\ run \in [Workers -> Runs]
  <2>1. S \in Runs /\ InHand(Scan) /\ run \in [Workers -> Runs]
    BY ConstantFacts DEF IInv, TypeOK, S
  <2>2. S.pc = "items" /\ i \in S.item /\ o \in S.queue
    BY Zenon DEF Fetch, S
  <2>3. S.item = {i}
    BY <2>1, <2>2 DEF InHand, S
  <2>4. QED
    BY <2>1, <2>2, <2>3 DEF ScanInv, IndexHolds, Writing
<1>2. UNCHANGED <<obj, ids, probed, touched>>
  BY Zenon DEF Fetch, worldVars
<1>3. o \in Owners(S.pre, i) \ S.refused
  BY <1>1 DEF ScanInv, IndexHolds
<1>4. Wanted(Scan, i, o) = Accepted(o, TagsOf[i][probed[i]])
  BY <1>1 DEF Wanted, S
<1>5. CASE Halt(Scan, o)
  BY <1>2, <1>5, ScanHalts
<1>6. ASSUME Quiet(Scan, i, o) \/ ~StillOwned(i, o) \/ ~Changes(known, fresh, want),
             run' = [run EXCEPT ![Scan] = Done(Scan, o)]
      PROVE  ScanInv'
  <2>1. S' = Done(Scan, o)
    BY <1>1, <1>6, ConstantFacts DEF S
  <2>2. /\ IndexHolds' /\ \A j : Owners(S.pre, j)' = Owners(S.pre, j)
        /\ S'.at = {} /\ S'.queue = S.queue \ {o}
        /\ S'.live = S.live /\ S'.item = S.item /\ S'.ver = S.ver
        /\ S'.pre = S.pre /\ S'.known = S.known /\ S'.refused = S.refused
    BY <1>2, <2>1, ScanDone
  <2>3. S'.halted = S.halted
    BY <1>1, <2>1 DEF Done, Runs, S
  <2>4. ASSUME S.live, ~S.halted, NEW q \in Objs \ touched, S.pre[q].here
        PROVE  CleanFor(q)'
    <3>1. CleanFor(q)
      BY <2>4 DEF ScanInv, CleanSoFar
    <3>2. AsRead(q)'
      BY <1>1, <1>2, <2>2, <3>1 DEF CleanFor, AsRead
    <3>3. q = o => Exact(i, o)
      <4> SUFFICES ASSUME q = o PROVE Exact(i, o)
        OBVIOUS
      <4>1. StillOwned(i, o) /\ AsRead(o)
        BY <1>1, <2>4, StillThere
      <4>2. Current(Scan, i, o) \/ ~Changes(known, fresh, want)
        BY <1>6, <2>4, <4>1 DEF Quiet, S
      <4>3. fresh = want
        BY <4>1, <4>2, NothingToDo DEF AsRead, Current, S
      <4>4. QED
        BY <1>4, <4>3 DEF Exact
    <3>4. \A j : Exact(j, q)' = Exact(j, q)
      BY <1>2 DEF Exact
    <3>5. QED
      BY <1>1, <1>2, <2>2, <3>1, <3>2, <3>3, <3>4 DEF CleanFor
  <2>5. QED
    BY <1>2, <2>2, <2>3, <2>4 DEF ScanInv, CleanSoFar
<1>7. ASSUME ~Quiet(Scan, i, o), StillOwned(i, o), Changes(known, fresh, want),
             run' = [run EXCEPT ![Scan] = r]
      PROVE  ScanInv'
  <2>1. S' = r
    BY <1>1, <1>7, ConstantFacts DEF S
  <2>2. pc \in Writing
    BY PhaseIsPhase DEF Writing
  <2> DEFINE add == Add(known, fresh, want)
             remove == Remove(known, fresh, want)
  <2>3. /\ pc = "create" <=> Create(known, want) # {}
        /\ pc = "add" => add # {}
        /\ pc \in {"remove", "check"} => add = {}
        /\ pc = "check" => remove = {}
    BY DEF Phase
  <2> HIDE DEF pc, add, remove, want
  <2>4. /\ r.pc = pc /\ r.todo = S.todo /\ r.pre = S.pre /\ r.known = S.known /\ r.refused = S.refused
        /\ r.item = S.item /\ r.at = {o} /\ r.queue = S.queue /\ r.live = S.live /\ r.halted = S.halted
        /\ r.ver = S.ver /\ r.before = obj[o] /\ r.add = add /\ r.remove = remove
    BY <1>1 DEF Runs, add, remove
  <2> HIDE DEF r
  <2>5. obj[o].here /\ obj[o].home = S.pre[o].home
    <3>1. S.pre[o].here /\ obj[o].home # {}
      BY <1>3, <1>7 DEF Owners, StillOwned
    <3>2. QED
      BY <1>7, <3>1 DEF StillOwned, ScanInv, IndexHolds
  <2>6. IndexHolds' /\ \A j : Owners(S.pre, j)' = Owners(S.pre, j)
    BY <1>1, <1>2, <2>1, <2>2, <2>4, <2>5, IndexKept DEF ScanInv, Writing
  <2>7. ASSUME S.live, ~S.halted, NEW q \in Objs \ touched, S.pre[q].here
        PROVE  CleanFor(q)'
    <3>1. CleanFor(q) /\ AsRead(q)
      BY <1>1, <2>7 DEF ScanInv, CleanSoFar, CleanFor
    <3>2. AsRead(q)'
      BY <1>2, <2>1, <2>4, <3>1 DEF AsRead
    <3>3. ASSUME q = o
          PROVE  InProgress(i, o)'
      <4>1. fresh \subseteq known
        BY <3>1, <3>3 DEF AsRead
      <4>2. remove = fresh \ want /\ add = (want \cap known) \ fresh
        BY <4>1 DEF Remove, Add, remove, add
      <4>3. Wanted(Scan, i, o)' = want
        BY <2>1, <2>4 DEF Wanted, S, want
      <4>4. pc # "create" => want \subseteq known
        BY <2>3 DEF Create
      <4>5. pc = "add" => add = want \ fresh
        BY <4>2, <4>4
      <4>6. pc = "remove" => fresh = fresh \cup want
        BY <2>3, <4>2, <4>4
      <4>7. pc = "check" => fresh = want
        BY <2>3, <4>2, <4>4
      <4>8. QED
        BY <1>2, <2>1, <2>4, <2>5, <4>1, <4>2, <4>3, <4>4, <4>5, <4>6, <4>7 DEF InProgress
    <3>4. \A j : Exact(j, q)' = Exact(j, q)
      BY <1>2 DEF Exact
    <3>5. QED
      BY <1>1, <1>2, <2>1, <2>4, <2>6, <3>1, <3>2, <3>3, <3>4 DEF CleanFor
  <2>8. QED
    BY <1>2, <2>1, <2>4, <2>6, <2>7 DEF ScanInv, CleanSoFar
<1>8. QED
  BY <1>5, <1>6, <1>7, Zenon DEF Fetch, Raise, S

\* The object at work is the item's, no other item that was listed has it, and
\* what nobody else has changed is where the scan found it.
LEMMA AtWorkFacts ==
  ASSUME IInv, ScanInv, S.pc \in Writing
  PROVE  \E i \in Items, o \in Objs :
           /\ S.item = {i} /\ S.at = {o} /\ o \in S.queue /\ ~S.halted
           /\ o \in Owners(S.pre, i) \ S.refused /\ S.pre[o].here /\ i \in ids[o] \cap S.pre[o].home
           /\ S.before.here /\ S.before.home = S.pre[o].home
           /\ probed[i] = S.ver
           /\ \A j \in Items \ {i} : o \notin Owners(S.pre, j)
<1>1. AtWork(Scan)
  BY ConstantFacts DEF IInv, InHand, S
<1>2. PICK i \in Items, o \in Objs : S.item = {i} /\ S.at = {o} /\ ~S.halted
  BY <1>1 DEF AtWork, S
<1>3. o \in S.queue /\ o \in Owners(S.pre, i) \ S.refused /\ probed[i] = S.ver
      /\ S.before.here /\ S.before.home = S.pre[o].home
  BY <1>2 DEF ScanInv, IndexHolds
<1>4. S.pre[o].here /\ i \in ids[o] \cap S.pre[o].home
  BY <1>3 DEF Owners
<1>5. \A j \in Items \ {i} : o \notin Owners(S.pre, j)
  BY <1>3 DEF ScanInv, IndexHolds, ClaimedTwice
<1>6. QED
  BY <1>2, <1>3, <1>4, <1>5

\* A step of the scan that stays at work on object o, has written to no other and
\* is as far as InProgress says, of what nobody else has changed.
LEMMA ScanWorks ==
  ASSUME IInv, ScanInv, S.pc \in Writing, S'.pc \in Writing,
         NEW i \in Items, NEW o \in Objs, S.item = {i}, S.at = {o},
         S'.todo = S.todo, S'.item = S.item, S'.queue = S.queue, S'.at = S.at, S'.ver = S.ver,
         S'.pre = S.pre, S'.refused = S.refused, S'.before = S.before, S'.live = S.live, S'.halted = S.halted,
         \A n \in Insts : S.known[n] \subseteq S'.known[n],
         UNCHANGED <<ids, probed>>, touched \subseteq touched',
         \A q \in Objs : obj'[q].home = obj[q].home,
         \A q \in Objs \ {o} : obj'[q] = obj[q],
         o \notin touched' /\ S.live /\ InProgress(i, o) => InProgress(i, o)'
  PROVE  ScanInv'
<1>1. /\ o \in S.queue /\ S.pre[o].here /\ o \in Owners(S.pre, i)
      /\ S.before.here /\ S.before.home = S.pre[o].home
      /\ \A j \in Items \ {i} : o \notin Owners(S.pre, j)
  BY AtWorkFacts
<1>2. IndexHolds' /\ \A j : Owners(S.pre, j)' = Owners(S.pre, j)
  <2>1. S'.pc # "off"
    BY DEF Writing
  <2>2. QED
    BY <1>1, <2>1, IndexKept DEF ScanInv
<1>3. ASSUME S.live, ~S.halted, NEW q \in Objs \ touched', S.pre[q].here
      PROVE  CleanFor(q)'
  <2>1. CleanFor(q)
    BY <1>3 DEF ScanInv, CleanSoFar
  <2>2. CASE q = o
    <3>1. InProgress(i, o)'
      BY <1>3, <2>1, <2>2 DEF CleanFor
    <3>2. QED
      BY <1>1, <1>2, <2>2, <3>1 DEF CleanFor
  <2>3. CASE q # o
    <3>1. AsRead(q)'
      BY <2>1, <2>3, ConstantsAssumption DEF CleanFor, AsRead
    <3>2. \A j : Exact(j, q)' = Exact(j, q)
      BY <2>3 DEF Exact
    <3>3. QED
      BY <1>2, <2>1, <2>3, <3>1, <3>2 DEF CleanFor
  <2>4. QED
    BY <2>2, <2>3
<1>4. QED
  BY <1>2, <1>3 DEF ScanInv, CleanSoFar

LEMMA ScanCreates ==
  ASSUME IInv, ScanInv, NEW i \in Items, NEW o \in Objs, CreateLabels(Scan, i, o)
  PROVE  ScanInv'
<1> DEFINE n == InstOf[o]
           want == Wanted(Scan, i, o)
           missing == Create(S.known[n], want)
           Known(made) == S.known[n] \cup made \cup (IF made \cap labels[n] = {} THEN {} ELSE labels[n])
           r(made) == [S EXCEPT !.pc = Phase({}, S.add \cup made, S.remove), !.known[n] = Known(made),
                                !.add = @ \cup made, !.intended = @ \cup made]
<1>1. /\ S \in Runs /\ S.pc = "create" /\ S.item = {i} /\ S.at = {o}
      /\ run \in [Workers -> Runs] /\ obj \in [Objs -> Objects] /\ n \in Insts
  <2>1. S \in Runs /\ run \in [Workers -> Runs] /\ obj \in [Objs -> Objects] /\ n \in Insts
    BY ConstantFacts, ConstantsAssumption DEF IInv, TypeOK, S
  <2>2. S.pc = "create" /\ i \in S.item /\ o \in S.at
    BY Zenon DEF CreateLabels, S
  <2>3. QED
    BY <2>1, <2>2, AtWorkFacts DEF Writing
<1>2. UNCHANGED <<obj, ids, probed>> /\ touched \subseteq touched'
  BY Zenon DEF CreateLabels, worldVars, Touched
<1>3. CASE Halt(Scan, o)
  BY <1>2, <1>3, ScanHalts
<1>4. ASSUME NEW made \in SUBSET missing, made = missing \/ Touched(o), run' = [run EXCEPT ![Scan] = r(made)]
      PROVE  ScanInv'
  <2>1. S' = r(made)
    BY <1>1, <1>4, ConstantFacts DEF S
  <2> DEFINE pc == Phase({}, S.add \cup made, S.remove)
             known == Known(made)
  <2>2. /\ pc \in {"add", "remove", "check"}
        /\ pc = "add" => S.add \cup made # {}
        /\ pc \in {"remove", "check"} => S.add \cup made = {}
        /\ pc = "check" => S.remove = {}
    BY DEF Phase
  <2>3. S.known[n] \cup made \subseteq known
    OBVIOUS
  <2> HIDE DEF pc, known, Known, missing, n
  <2>4. /\ r(made).pc = pc /\ r(made).todo = S.todo /\ r(made).pre = S.pre /\ r(made).refused = S.refused
        /\ r(made).known = [S.known EXCEPT ![n] = known]
        /\ r(made).item = S.item /\ r(made).at = S.at /\ r(made).queue = S.queue
        /\ r(made).live = S.live /\ r(made).halted = S.halted
        /\ r(made).ver = S.ver /\ r(made).before = S.before /\ r(made).add = S.add \cup made
        /\ r(made).remove = S.remove
    BY <1>1 DEF Runs, pc, known
  <2> HIDE DEF r
  <2>5. S'.known[n] = known /\ \A m \in Insts : S.known[m] \subseteq S'.known[m]
    BY <1>1, <2>1, <2>3, <2>4 DEF Runs
  <2>6. ASSUME o \notin touched', InProgress(i, o)
        PROVE  InProgress(i, o)'
    <3>1. made = missing
      BY <1>4, <2>6 DEF Touched
    <3>2. want \subseteq known /\ missing = want \ S.known[n]
      BY <2>3, <3>1 DEF missing, Create
    <3>3. Wanted(Scan, i, o)' = want
      BY <2>1, <2>4 DEF Wanted, S
    <3>4. InstOf[o] = n
      BY DEF n
    <3> HIDE DEF want
    <3> DEFINE old == S.before.tags
    <3>5. /\ obj[o].here /\ obj[o].home = S.pre[o].home
          /\ old \subseteq S.known[n] /\ S.remove = old \ want
          /\ obj[o].tags = old /\ S.add = (want \cap S.known[n]) \ old
      BY <1>1, <2>6, <3>4 DEF InProgress, want
    <3>6. S.add \cup made = want \ old
      BY <3>1, <3>2, <3>5
    <3>7. pc = "remove" => old = old \cup want
      BY <2>2, <3>6
    <3>8. pc = "check" => old = want
      BY <2>2, <3>5, <3>6
    <3>9. old \subseteq known
      BY <2>3, <3>5
    <3>10. QED
      BY <1>2, <2>1, <2>2, <2>4, <2>5, <3>2, <3>3, <3>4, <3>5, <3>6, <3>7, <3>8, <3>9 DEF InProgress
  <2>7. S.pc \in Writing /\ S'.pc \in Writing
    BY <1>1, <2>1, <2>2, <2>4 DEF Writing
  <2>8. QED
    BY <1>1, <1>2, <2>1, <2>4, <2>5, <2>6, <2>7, ScanWorks
<1>5. Halt(Scan, o) \/ \E made \in SUBSET missing :
                           (made = missing \/ Touched(o)) /\ run' = [run EXCEPT ![Scan] = r(made)]
  <2>1. S = run[Scan] /\ Scan \in Workers /\ run \in [Workers -> Runs]
    BY <1>1, ConstantFacts DEF S
  <2>2. CASE Raise(Scan, o)
    BY <2>2 DEF Raise
  <2>3. CASE ~Raise(Scan, o)
    <3>1. PICK made \in SUBSET missing :
            /\ made = missing \/ Touched(o)
            /\ run' = [run EXCEPT ![Scan].pc = Phase({}, run[Scan].add \cup made, run[Scan].remove),
                         ![Scan].known[n] = run[Scan].known[n] \cup made \cup (IF made \cap labels[n] = {} THEN {} ELSE labels[n]),
                         ![Scan].add = @ \cup made, ![Scan].intended = @ \cup made]
      BY <2>3, Zenon DEF CreateLabels, S
    <3>2. run' = [run EXCEPT ![Scan] = r(made)]
      BY <2>1, <3>1
    <3>3. QED
      BY <3>1, <3>2
  <2>4. QED
    BY <2>2, <2>3, Zenon
<1>6. QED
  BY <1>3, <1>4, <1>5

\* An edit by the scan changes the tags of the object it has in hand, if it is still there.
LEMMA ScanEdits ==
  ASSUME IInv, NEW o \in Objs, NEW edited, Edit(Scan, o, edited)
  PROVE  /\ touched' = touched
         /\ \A q \in Objs : obj'[q].home = obj[q].home /\ obj'[q].here = obj[q].here
         /\ \A q \in Objs \ {o} : obj'[q] = obj[q]
         /\ obj[o].here => obj'[o].tags = edited
<1>1. obj \in [Objs -> Objects]
  BY DEF IInv, TypeOK
<1>2. \A q \in Objs \ {o} : obj'[q] = obj[q]
  BY <1>1 DEF Edit
<1>3. IF obj[o].here THEN obj'[o] = [obj[o] EXCEPT !.tags = edited] ELSE obj'[o] = obj[o]
  BY <1>1 DEF Edit
<1>4. QED
  BY <1>1, <1>2, <1>3 DEF Edit, Objects

LEMMA ScanWrites ==
  ASSUME IInv, ScanInv, NEW o \in Objs, AddTags(Scan, o) \/ RemoveTags(Scan, o)
  PROVE  ScanInv'
<1>1. S.pc \in {"add", "remove"} /\ o \in S.at /\ UNCHANGED <<ids, probed>>
  BY DEF AddTags, RemoveTags, Edit, worldVars, S
<1>2. PICK i \in Items : S.item = {i} /\ S.at = {o}
  BY <1>1, AtWorkFacts DEF Writing
<1>3. S \in Runs /\ run \in [Workers -> Runs] /\ S = run[Scan] /\ Scan \in Workers /\ obj[o].tags \in SUBSET Tags
  BY ConstantFacts DEF IInv, TypeOK, S, Objects
<1>4. PICK edited :
        /\ Edit(Scan, o, edited)
        /\ \/ Halt(Scan, o)
           \/ /\ S.pc = "add" /\ edited = obj[o].tags \cup S.add
              /\ run' = [run EXCEPT ![Scan].pc = Phase({}, {}, S.remove)]
           \/ /\ S.pc = "remove" /\ edited = obj[o].tags \ S.remove
              /\ run' = [run EXCEPT ![Scan].pc = "check"]
  BY DEF AddTags, RemoveTags, Raise, S
<1>5. /\ touched' = touched
      /\ \A q \in Objs : obj'[q].home = obj[q].home /\ obj'[q].here = obj[q].here
      /\ \A q \in Objs \ {o} : obj'[q] = obj[q]
      /\ obj[o].here => obj'[o].tags = edited
  BY <1>4, ScanEdits
<1>6. CASE Halt(Scan, o)
  BY <1>1, <1>5, <1>6, ScanHalts
<1>7. ASSUME NEW pc \in Writing, run' = [run EXCEPT ![Scan].pc = pc],
             o \notin touched' /\ InProgress(i, o) =>
               /\ Wanted(Scan, i, o) \subseteq S.known[InstOf[o]]
               /\ pc = "remove" => edited = S.before.tags \cup Wanted(Scan, i, o)
               /\ pc = "check" => edited = Wanted(Scan, i, o),
             pc \in {"remove", "check"}
      PROVE  ScanInv'
  <2> DEFINE r == [S EXCEPT !.pc = pc]
  <2>1. S' = r
    BY <1>3, <1>7 DEF S
  <2>2. /\ r.pc = pc /\ r.todo = S.todo /\ r.item = S.item /\ r.queue = S.queue /\ r.at = S.at /\ r.ver = S.ver
        /\ r.pre = S.pre /\ r.refused = S.refused /\ r.before = S.before /\ r.live = S.live
        /\ r.halted = S.halted /\ r.known = S.known /\ r.remove = S.remove /\ r.add = S.add
    BY <1>3 DEF Runs
  <2> HIDE DEF r
  <2>3. ASSUME o \notin touched', InProgress(i, o)
        PROVE  InProgress(i, o)'
    <3>1. Wanted(Scan, i, o)' = Wanted(Scan, i, o)
      BY <2>1, <2>2 DEF Wanted, S
    <3>2. /\ obj[o].here /\ obj[o].home = S.pre[o].home
          /\ S.before.tags \subseteq S.known[InstOf[o]] /\ S.remove = S.before.tags \ Wanted(Scan, i, o)
      BY <2>3 DEF InProgress
    <3>3. QED
      BY <1>5, <1>7, <2>1, <2>2, <2>3, <3>1, <3>2 DEF InProgress
  <2>4. S.pc \in Writing
    BY <1>1 DEF Writing
  <2>5. QED
    BY <1>1, <1>2, <1>5, <1>7, <2>1, <2>2, <2>3, <2>4, ScanWorks
<1>8. CASE S.pc = "add" /\ edited = obj[o].tags \cup S.add
           /\ run' = [run EXCEPT ![Scan].pc = Phase({}, {}, S.remove)]
  <2> DEFINE pc == Phase({}, {}, S.remove)
  <2>1. pc \in {"remove", "check"} /\ (pc = "check" => S.remove = {})
    BY DEF Phase
  <2> HIDE DEF pc
  <2>2. ASSUME InProgress(i, o)
        PROVE  /\ Wanted(Scan, i, o) \subseteq S.known[InstOf[o]]
               /\ pc = "remove" => edited = S.before.tags \cup Wanted(Scan, i, o)
               /\ pc = "check" => edited = Wanted(Scan, i, o)
    <3> DEFINE want == Wanted(Scan, i, o)
               old == S.before.tags
    <3>1. S.remove = old \ want /\ want \subseteq S.known[InstOf[o]] /\ obj[o].tags = old /\ S.add = want \ old
      BY <1>8, <2>2 DEF InProgress
    <3> HIDE DEF want, old
    <3>2. edited = old \cup want
      BY <1>8, <3>1
    <3>3. pc = "check" => edited = want
      BY <2>1, <3>1, <3>2
    <3>4. QED
      BY <3>1, <3>2, <3>3 DEF want, old
  <2>3. pc \in Writing /\ run' = [run EXCEPT ![Scan].pc = pc]
    BY <1>8, <2>1 DEF Writing, pc
  <2>4. QED
    BY <1>7, <2>1, <2>2, <2>3
<1>9. CASE S.pc = "remove" /\ edited = obj[o].tags \ S.remove /\ run' = [run EXCEPT ![Scan].pc = "check"]
  <2>1. ASSUME InProgress(i, o)
        PROVE  Wanted(Scan, i, o) \subseteq S.known[InstOf[o]] /\ edited = Wanted(Scan, i, o)
    <3>1. /\ S.remove = S.before.tags \ Wanted(Scan, i, o) /\ Wanted(Scan, i, o) \subseteq S.known[InstOf[o]]
          /\ obj[o].tags = S.before.tags \cup Wanted(Scan, i, o)
      BY <1>9, <2>1 DEF InProgress
    <3>2. QED
      BY <1>9, <3>1
  <2>2. "check" \in Writing
    BY DEF Writing
  <2>3. QED
    BY <1>7, <1>9, <2>1, <2>2
<1>10. QED
  BY <1>4, <1>6, <1>8, <1>9

\* A read-back that agrees is what the scan goes on with.
LEMMA ScanReadsBack ==
  ASSUME IInv, ScanInv, NEW o \in Objs, ReadBack(Scan, o)
  PROVE  ScanInv'
<1>1. UNCHANGED <<obj, ids, probed, touched>> /\ S.pc = "check" /\ o \in S.at
  BY DEF ReadBack, worldVars, S
<1>2. S \in Runs /\ run \in [Workers -> Runs] /\ S = run[Scan] /\ Scan \in Workers /\ obj[o] \in Objects
  BY ConstantFacts DEF IInv, TypeOK, S
<1>3. CASE Halt(Scan, o)
  BY <1>1, <1>3, ScanHalts
<1>4. ASSUME AsIntended(Scan, o),
             run' = [run EXCEPT ![Scan] = [Done(Scan, o) EXCEPT !.pre[o] = [obj[o] EXCEPT !.rest = FALSE]]]
      PROVE  ScanInv'
  <2> DEFINE copy == [obj[o] EXCEPT !.rest = FALSE]
             d == [S EXCEPT !.pc = "items", !.at = {}, !.queue = @ \ {o},
                            !.add = {}, !.remove = {}, !.intended = {}, !.before = Absent]
             r == [d EXCEPT !.pre[o] = copy]
  <2>1. PICK i \in Items :
          /\ S.item = {i} /\ S.at = {o} /\ o \in S.queue
          /\ o \in Owners(S.pre, i) /\ S.pre[o].here
          /\ S.before.here /\ S.before.home = S.pre[o].home /\ probed[i] = S.ver
          /\ \A j \in Items \ {i} : o \notin Owners(S.pre, j)
    BY <1>1, AtWorkFacts DEF Writing
  <2>2. obj[o].here = S.before.here /\ obj[o].home = S.before.home
    <3>1. S.before \in Objects
      BY <1>2 DEF Runs
    <3>2. QED
      BY <1>2, <1>4, <3>1 DEF AsIntended, Objects
  <2>3. copy.here = obj[o].here /\ copy.home = obj[o].home /\ copy.tags = obj[o].tags
    BY <1>2 DEF Objects
  <2>4. S' = r
    BY <1>2, <1>4 DEF Done, S
  <2> HIDE DEF copy
  <2>5. /\ d.pc = "items" /\ d.at = {} /\ d.queue = S.queue \ {o} /\ d.todo = S.todo
        /\ d.live = S.live /\ d.halted = S.halted /\ d.item = S.item /\ d.ver = S.ver
        /\ d.pre = S.pre /\ d.known = S.known /\ d.refused = S.refused /\ d \in Runs
    BY <1>2, ConstantFacts, Zenon DEF Runs, Phases
  <2> HIDE DEF d
  <2>6. /\ r.pc = "items" /\ r.at = {} /\ r.queue = S.queue \ {o} /\ r.todo = S.todo
        /\ r.live = S.live /\ r.halted = S.halted /\ r.item = S.item /\ r.ver = S.ver
        /\ r.pre = [S.pre EXCEPT ![o] = copy] /\ r.known = S.known /\ r.refused = S.refused
    BY <2>5 DEF Runs
  <2> HIDE DEF r
  <2>7. S.pre \in [Objs -> Objects]
    BY <1>2 DEF Runs
  <2>8. \A q \in Objs : S'.pre[q].here = S.pre[q].here /\ S'.pre[q].home = S.pre[q].home
    BY <2>1, <2>2, <2>3, <2>4, <2>6, <2>7
  <2>9. IndexHolds' /\ \A j : Owners(S.pre, j)' = Owners(S.pre, j)
    BY <1>1, <2>1, <2>4, <2>6, <2>8, IndexKept DEF ScanInv, Writing
  <2>10. ASSUME S.live, ~S.halted, NEW q \in Objs \ touched, S.pre[q].here
         PROVE  CleanFor(q)'
    <3>1. CleanFor(q)
      BY <2>10 DEF ScanInv, CleanSoFar
    <3>2. \A j : Exact(j, q)' = Exact(j, q)
      BY <1>1 DEF Exact
    <3>3. CASE q # o
      <4>1. AsRead(q) /\ S'.pre[q] = S.pre[q]
        BY <2>1, <2>4, <2>6, <2>7, <3>1, <3>3 DEF CleanFor
      <4>2. AsRead(q)'
        BY <1>1, <2>4, <2>6, <4>1 DEF AsRead
      <4>3. S'.item = S.item /\ S'.refused = S.refused /\ S'.at = {} /\ (q \in S'.queue <=> q \in S.queue)
        BY <2>4, <2>6, <3>3
      <4>4. ASSUME NEW j \in Items, q \in Owners(S.pre, j)' \ S'.refused, (probed[j] # 0)', ~(j \in S'.item /\ q \in S'.queue)
            PROVE  Exact(j, q)'
        <5>1. Exact(j, q)
          BY <1>1, <2>9, <3>1, <4>3, <4>4 DEF CleanFor
        <5>2. QED
          BY <3>2, <5>1
      <4>5. QED
        BY <4>2, <4>3, <4>4 DEF CleanFor
    <3>4. CASE q = o
      <4>1. InProgress(i, o)
        BY <2>1, <3>1, <3>4 DEF CleanFor
      <4>2. obj[o].tags = Wanted(Scan, i, o) /\ Wanted(Scan, i, o) \subseteq S.known[InstOf[o]]
        BY <1>1, <4>1 DEF InProgress
      <4>3. Exact(i, o)
        BY <2>1, <4>2 DEF Exact, Wanted, S
      <4>4. S'.pre[o] = copy
        BY <2>4, <2>6, <2>7
      <4>5. AsRead(o)'
        <5>1. S'.pre[o].home = obj[o].home /\ S'.pre[o].tags = obj[o].tags /\ obj[o].here
          BY <2>1, <2>2, <2>3, <4>4
        <5>2. S'.known = S.known
          BY <2>4, <2>6
        <5>3. obj' = obj
          BY <1>1
        <5>4. QED
          BY <4>2, <5>1, <5>2, <5>3 DEF AsRead
      <4>6. QED
        BY <2>1, <2>4, <2>6, <2>9, <3>2, <3>4, <4>3, <4>5 DEF CleanFor
    <3>5. QED
      BY <3>3, <3>4
  <2>11. QED
    BY <1>1, <2>4, <2>6, <2>8, <2>9, <2>10 DEF ScanInv, CleanSoFar
<1>5. QED
  BY <1>3, <1>4 DEF ReadBack, Raise

LEMMA StepScanInv == IInv /\ LabelsExist /\ ScanInv /\ [Next]_vars => ScanInv'
<1> SUFFICES ASSUME IInv, LabelsExist, ScanInv, [Next]_vars PROVE ScanInv'
  OBVIOUS
<1>1. ASSUME Aside PROVE ScanInv'
  BY <1>1, AsideKeeps
<1>2. CASE Restart \/ EndScan
  <2>1. S' = Off /\ probed' = [i \in Items |-> 0]
    BY <1>2, ConstantFacts DEF Restart, EndScan, IInv, TypeOK, S
  <2>2. QED
    BY <2>1, ScanStops
<1>3. Workers = {Scan} \cup Hooks
  BY DEF Workers
<1>4. CASE \E w \in Workers, i \in Items : StartItem(w, i) \/ EndItem(w, i)
  BY <1>1, <1>3, <1>4, HookIsAside, ScanStartsItem, ScanEndsItem
<1>5. CASE \E w \in Workers, i \in Items, o \in Objs : Fetch(w, i, o) \/ CreateLabels(w, i, o)
  BY <1>1, <1>3, <1>5, HookIsAside, ScanFetches, ScanCreates
<1>6. CASE \E w \in Workers, o \in Objs : AddTags(w, o) \/ RemoveTags(w, o) \/ ReadBack(w, o)
  BY <1>1, <1>3, <1>6, HookIsAside, ScanWrites, ScanReadsBack
<1>7. QED
  BY <1>1, <1>2, <1>4, <1>5, <1>6, StepCases, WorldIsAside, HookIsAside, ScanStarts

-----------------------------------------------------------------------------
(* The properties *)

LEMMA Invariant == Spec => []IInv
<1>1. Init => IInv
  BY InitTypeOK, InitInHand DEF IInv
<1>2. QED
  BY <1>1, StepIInv, PTL DEF Spec

\* The invariant of a scan, which rests on that of the workers and of the labels.
LEMMA ScanInvariant == Spec => [](IInv /\ LabelsExist /\ ScanInv)
<1>1. Init => IInv /\ LabelsExist /\ ScanInv
  BY InitTypeOK, InitInHand, InitLabelsExist, InitScanInv DEF IInv
<1>2. IInv /\ LabelsExist /\ ScanInv /\ [Next]_vars => (IInv /\ LabelsExist /\ ScanInv)'
  BY StepIInv, StepLabelsExist, StepScanInv
<1>3. QED
  BY <1>1, <1>2, PTL DEF Spec

\* After its first mismatch or failed request a worker changes no object and
\* creates no label, whatever else is going on (ArrTagSync._halt()).
THEOREM HaltHolds == Spec => HaltedWritesNothing
<1>1. ASSUME IInv, [Next]_vars
      PROVE  \A w \in Workers : run[w].halted /\ run'[w] # run[w] => UNCHANGED <<obj, labels>>
  <2> SUFFICES ASSUME NEW w \in Workers, run[w].halted, run'[w] # run[w], ~UNCHANGED <<obj, labels>>
               PROVE  FALSE
    OBVIOUS
  <2>1. PICK x \in Workers : AtWork(x) /\ \A y \in Workers \ {x} : run'[y] = run[y]
    BY <1>1, OneWriter
  <2>2. QED
    BY <2>1 DEF AtWork
<1>2. QED
  BY <1>1, Invariant, PTL DEF Spec, HaltedWritesNothing

\* An object only receives tags of an item whose id it has and in whose folder it
\* was when the worker last read it: the HD and the 4K copy never share tags
\* (InstanceIndex.resolve(), _still_owned()).
THEOREM OwnTags == Spec => OwnTagsOnly
<1>1. ASSUME IInv, [Next]_vars
      PROVE  \A o \in Objs : \A w \in Workers : run'[w] # run[w] /\ obj'[o].tags \ obj[o].tags # {} =>
               \E i \in run[w].item \cap ids[o] \cap run[w].before.home :
                 obj'[o].tags \ obj[o].tags \subseteq TagsOf[i][run[w].ver]
  <2> SUFFICES ASSUME NEW o \in Objs, NEW w \in Workers, run'[w] # run[w], obj'[o].tags \ obj[o].tags # {}
               PROVE  \E i \in run[w].item \cap ids[o] \cap run[w].before.home :
                        obj'[o].tags \ obj[o].tags \subseteq TagsOf[i][run[w].ver]
    OBVIOUS
  <2>1. PICK x \in Workers :
          /\ AtWork(x) /\ o \in run[x].at
          /\ obj'[o].tags \ obj[o].tags \subseteq run[x].add
          /\ \A y \in Workers \ {x} : run'[y] = run[y]
    BY <1>1, OnlyAdds
  <2>2. w = x
    BY <2>1
  <2>3. QED
    BY <2>1, <2>2 DEF AtWork
<1>2. QED
  BY <1>1, Invariant, PTL DEF Spec, OwnTagsOnly

\* The alarm only goes off at the end of a live scan that was neither halted nor
\* cancelled, or in a restart that finds no halted report (arr_sync_finished(),
\* seed_from_disk()).
THEOREM AlarmHolds == Spec => AlarmStays
<1>1. ASSUME IInv, [Next]_vars, alarm, ~alarm'
      PROVE  \/ EndScan /\ run[Scan].live /\ ~run[Scan].halted /\ ~cancelled
             \/ ~(report.live /\ report.halted) /\ \A w \in Workers : run'[w] = Off
  <2>1. EndScan \/ Restart
    <3>1. ~(UNCHANGED alarm \/ alarm')
      BY <1>1
    <3>2. ASSUME \/ \E i \in Items : FileChanges(i)
                 \/ \E o \in Objs : Disturb(o)
                 \/ SaveMode \/ Cancel \/ DryRun \/ UNCHANGED vars
          PROVE  UNCHANGED alarm
      BY <3>2 DEF FileChanges, Disturb, SaveMode, Cancel, DryRun, vars, alertVars
    <3>3. ASSUME \/ \E isFull \in BOOLEAN : StartScan(isFull)
                 \/ \E h \in Hooks, i \in Items : StartHook(h, i)
                 \/ \E h \in Hooks : EndHook(h)
                 \/ \E w \in Workers, i \in Items : StartItem(w, i) \/ EndItem(w, i)
          PROVE  UNCHANGED alarm
      BY <3>3, Zenon DEF StartScan, StartHook, EndHook, StartItem, EndItem, alertVars
    <3>4. ASSUME NEW w \in Workers, NEW i \in Items, NEW o \in Objs, Fetch(w, i, o) \/ CreateLabels(w, i, o)
          PROVE  UNCHANGED alarm \/ alarm'
      BY <3>4, Zenon DEF Fetch, CreateLabels, Raise, Halt
    <3>5. ASSUME NEW w \in Workers, NEW o \in Objs, AddTags(w, o) \/ RemoveTags(w, o) \/ ReadBack(w, o)
          PROVE  UNCHANGED alarm \/ alarm'
      BY <3>5 DEF AddTags, RemoveTags, ReadBack, Raise, Halt
    <3>6. QED
      BY <1>1, <3>1, <3>2, <3>3, <3>4, <3>5, StepCases
  <2>2. CASE EndScan
    BY <1>1, <2>2 DEF EndScan, Clears
  <2>3. CASE Restart
    <3>1. run' = [w \in Workers |-> Off] /\ alarm' = (report.live /\ report.halted)
      BY <2>3 DEF Restart
    <3>2. QED
      BY <1>1, <3>1
  <2>4. QED
    BY <2>1, <2>2, <2>3
<1>2. QED
  BY <1>1, Invariant, PTL DEF Spec, AlarmStays

\* At the end of a live scan that was not halted, every object the scan answers
\* for has exactly the tags of the file it probed for its item, unless somebody
\* else changed the object meanwhile or its instance refused a label; however the
\* scan was interleaved with webhooks, people and changes of the files (sync_item()).
THEOREM CleanScan == Spec => CleanScanIsExact
<1>1. ASSUME ScanInv, EndScan, run[Scan].live, ~run[Scan].halted, NEW i \in Items,
             NEW o \in Owners(run[Scan].pre, i) \ (run[Scan].refused \cup touched), probed[i] # 0
      PROVE  obj[o].tags \ Refuses[InstOf[o]] = Accepted(o, TagsOf[i][probed[i]])
  <2>1. S.item = {} /\ S.live /\ ~S.halted /\ o \in Owners(S.pre, i) \ S.refused /\ o \notin touched
    BY <1>1 DEF EndScan, S
  <2>2. o \in Objs /\ S.pre[o].here
    BY <2>1 DEF Owners
  <2>3. CleanFor(o)
    BY <1>1, <2>1, <2>2 DEF ScanInv, CleanSoFar
  <2>4. Exact(i, o)
    BY <1>1, <2>1, <2>3 DEF CleanFor
  <2>5. QED
    BY <2>4 DEF Exact, Accepted
<1>2. ScanInv /\ [Next]_vars =>
        (EndScan /\ run[Scan].live /\ ~run[Scan].halted =>
           \A i \in Items : \A o \in Owners(run[Scan].pre, i) \ (run[Scan].refused \cup touched) :
             probed[i] # 0 => obj[o].tags \ Refuses[InstOf[o]] = Accepted(o, TagsOf[i][probed[i]]))
  BY <1>1
<1>3. QED
  BY <1>2, ScanInvariant, PTL DEF Spec, CleanScanIsExact

\* A scan changes tags in one way only: by a call for the object it has in hand.
LEMMA ScanHand ==
  ASSUME IInv, [Next]_vars, NEW o \in Objs, obj'[o].tags # obj[o].tags, run'[Scan] # run[Scan]
  PROVE  o \in S.at /\ S.pc \in Writing
<1>1. ~ \/ \E i \in Items : FileChanges(i)
        \/ \E q \in Objs : Disturb(q)
        \/ SaveMode \/ Cancel \/ DryRun \/ UNCHANGED vars
  BY WorldIsAside DEF Aside, S
<1>2. ASSUME NEW w \in Workers, NEW i \in Items, NEW q \in Objs, CreateLabels(w, i, q)
      PROVE  UNCHANGED obj
  BY <1>2, Zenon DEF CreateLabels
<1>3. PICK w \in Workers, q \in Objs : AddTags(w, q) \/ RemoveTags(w, q)
  BY <1>1, <1>2, StepCases, OtherSteps
<1>4. w = Scan
  BY <1>3, HookIsAside DEF Aside, S, Workers
<1>5. PICK edited : Edit(Scan, q, edited)
  BY <1>3, <1>4 DEF AddTags, RemoveTags
<1>6. o = q /\ o \in S.at
  BY <1>5, ScanEdits DEF Edit, S
<1>7. QED
  BY <1>3, <1>4, <1>6 DEF AddTags, RemoveTags, Writing, S

\* A title that two items claim is not written by a scan, whichever of them it
\* comes to and whatever happened to the object since (resolve_all()).
THEOREM TitlesClaimedTwice == Spec => ClaimedTwiceIsLeftAlone
<1>1. ASSUME IInv, ScanInv, [Next]_vars, NEW o \in Objs, obj'[o].tags # obj[o].tags, run'[Scan] # run[Scan]
      PROVE  Cardinality(Claims(o)) <= 1
  <2>1. o \in S.at /\ S.pc \in Writing
    BY <1>1, ScanHand
  <2>2. PICK i \in Items :
          S.at = {o} /\ S.pre[o].here /\ \A j \in Items \ {i} : o \notin Owners(S.pre, j)
    BY <1>1, <2>1, AtWorkFacts
  <2>3. obj[o].home \in {S.pre[o].home, {}}
    BY <1>1, <2>2 DEF ScanInv, IndexHolds
  <2>4. ASSUME NEW j \in Claims(o)
        PROVE  j = i
    <3>1. j \in Items
      BY <1>1 DEF Claims, IInv, TypeOK
    <3>2. o \in Owners(S.pre, j)
      BY <2>2, <2>3 DEF Claims, Owners, S
    <3>3. QED
      BY <2>2, <3>1, <3>2
  <2>5. Claims(o) = {} \/ Claims(o) = {i}
    BY <2>4
  <2>6. Cardinality({}) = 0 /\ Cardinality({i}) = 1
    BY FS_EmptySet, FS_Singleton
  <2>7. QED
    BY <2>5, <2>6
<1>2. IInv /\ ScanInv /\ [Next]_vars =>
        \A o \in Objs : obj'[o].tags # obj[o].tags /\ run'[Scan] # run[Scan] => Cardinality(Claims(o)) <= 1
  BY <1>1
<1>3. QED
  BY <1>2, ScanInvariant, PTL DEF Spec, ClaimedTwiceIsLeftAlone

=============================================================================
