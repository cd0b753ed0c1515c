---------------------------- MODULE TagSync_proofs ----------------------------
(***************************************************************************)
(* Proofs about TagSync, for any items, webhooks, bounds and batch size.   *)
(***************************************************************************)
EXTENDS TagSync, TLAPS

LEMMA ConstantFacts ==
  /\ Scan \in Workers
  /\ 0 \in Versions /\ 1 \in 1..MaxVer /\ 1..MaxVer \subseteq Versions
  /\ 0 \in Settings /\ 1 \in 1..MaxCfg /\ 1..MaxCfg \subseteq Settings
  /\ NoTags \in TagSets
  /\ \A c \in Settings, v \in Versions : [cfg |-> c, ver |-> v] \in TagSets
  /\ NoRow \in Rows
  /\ \A v \in Versions, t \in TagSets : [mtime |-> v, tags |-> t] \in Rows
  /\ \A r \in Rows : r.tags \in TagSets
  /\ Unread \in [Items -> Versions]
  /\ Unseen \in [Items -> TagSets]
  /\ Nothing \in [Items -> SUBSET UserTags]
BY ConstantsAssumption
   DEF Workers, Versions, Settings, TagSets, NoTags, Rows, NoRow, Unread, Unseen, Nothing

LEMMA InitTypeOK == Init => TypeOK
<1> SUFFICES ASSUME Init PROVE TypeOK
  OBVIOUS
<1> USE ConstantFacts
<1>1. tags \in [Items -> TagSets] /\ row \in [Items -> Rows] /\ meta \in Settings
  <2>1. \A i \in Items : tags[i] \in TagSets
    <3>1. [cfg |-> 1, ver |-> 1] \in TagSets /\ NoTags \in TagSets
      OBVIOUS
    <3>2. \/ tags = [i \in Items |-> NoTags]
          \/ tags = [i \in Items |-> [cfg |-> 1, ver |-> 1]]
      BY DEF Init
    <3>3. QED
      BY <3>1, <3>2
  <2>2. QED
    BY <2>1 DEF Init
<1>2. cfg \in 1..MaxCfg /\ saves \in 0..MaxSaves /\ left \in 0..MaxFaults
  BY ConstantsAssumption DEF Init
<1>3. file \in [Items -> 1..MaxVer] /\ here \in SUBSET Items /\ user \in [Items -> SUBSET UserTags]
  BY DEF Init
<1>4. full \in BOOLEAN /\ cancelled \in BOOLEAN /\ queue \in SUBSET Items
  BY DEF Init
<1>5. /\ pc \in [Workers -> Places]
      /\ using \in [Workers -> Settings]
      /\ todo \in [Workers -> SUBSET Items]
      /\ batch \in [Workers -> SUBSET Items]
      /\ pend \in [Workers -> SUBSET Items]
      /\ round \in [Workers -> 1..2]
  BY DEF Init, Places
<1>6. /\ mtime \in [Workers -> [Items -> Versions]]
      /\ ver \in [Workers -> [Items -> Versions]]
      /\ seen \in [Workers -> [Items -> TagSets]]
      /\ copy \in [Workers -> [Items -> SUBSET UserTags]]
      /\ known \in [Workers -> [Items -> SUBSET UserTags]]
  BY DEF Init
<1>7. QED
  BY <1>1, <1>2, <1>3, <1>4, <1>5, <1>6 DEF TypeOK

\* The steps, one disjunct per action.
LEMMA StepCases ==
  ASSUME [Next]_vars
  PROVE  \/ \E i \in Items : FileChanges(i) \/ Unmount(i) \/ Mount(i) \/ Undo(i)
         \/ \E i \in Items, u \in UserTags : UserTagsItem(i, u)
         \/ \E c \in 1..MaxCfg : SaveSettings(c)
         \/ \E incremental \in BOOLEAN : StartScan(incremental)
         \/ Cancel
         \/ \E i \in Items : Check(i) \/ Collect(i)
         \/ StartProbing \/ ReadCurrent \/ FinishScan
         \/ \E h \in Hooks, i \in Items : Deliver(h, i) \/ Resolve(h, i) \/ ProbeOne(h, i)
         \/ \E h \in Hooks : GiveUp(h)
         \/ \E w \in Workers, i \in Items : Write(w, i) \/ Record(w, i)
         \/ \E w \in Workers : EndWrites(w) \/ ReadBack(w) \/ Retry(w) \/ EndBatch(w)
         \/ Crash
         \/ UNCHANGED vars
BY DEF Next, World, ScanStep, HookStep, BatchStep, Workers

LEMMA FaultTypeOK ==
  ASSUME TypeOK, NEW f, Fault(f) \/ UNCHANGED left
  PROVE  left' \in 0..MaxFaults
BY ConstantsAssumption DEF TypeOK, Fault

LEMMA WorldTypeOK ==
  ASSUME TypeOK,
         \/ \E i \in Items : FileChanges(i) \/ Unmount(i) \/ Mount(i) \/ Undo(i)
         \/ \E i \in Items, u \in UserTags : UserTagsItem(i, u)
         \/ \E c \in 1..MaxCfg : SaveSettings(c)
  PROVE  TypeOK'
<1> USE DEF TypeOK, dbVars, scanVars, jobVars
<1>1. ASSUME NEW i \in Items, FileChanges(i)
      PROVE  TypeOK'
  BY <1>1, ConstantsAssumption DEF FileChanges
<1>2. ASSUME NEW i \in Items, Unmount(i) \/ Mount(i)
      PROVE  TypeOK'
  BY <1>2, ConstantsAssumption DEF Unmount, Mount, Fault
<1>3. ASSUME NEW i \in Items, Undo(i)
      PROVE  TypeOK'
  <2>1. \A t \in {NoTags, row[i].tags} : t \in TagSets
    BY ConstantFacts
  <2>2. tags' \in [Items -> TagSets]
    BY <1>3, <2>1 DEF Undo
  <2>3. QED
    BY <1>3, <2>2, ConstantsAssumption DEF Undo, Fault
<1>4. ASSUME NEW i \in Items, NEW u \in UserTags, UserTagsItem(i, u)
      PROVE  TypeOK'
  BY <1>4 DEF UserTagsItem
<1>5. ASSUME NEW c \in 1..MaxCfg, SaveSettings(c)
      PROVE  TypeOK'
  BY <1>5, ConstantsAssumption DEF SaveSettings
<1>6. QED
  BY <1>1, <1>2, <1>3, <1>4, <1>5

LEMMA ScanTypeOK ==
  ASSUME TypeOK,
         \/ \E incremental \in BOOLEAN : StartScan(incremental)
         \/ Cancel
         \/ \E i \in Items : Check(i) \/ Collect(i)
         \/ StartProbing \/ ReadCurrent \/ FinishScan
  PROVE  TypeOK'
<1> USE ConstantFacts, ConstantsAssumption DEF TypeOK, Places, worldVars, dbVars, scanVars
<1>1. ASSUME NEW incremental \in BOOLEAN, StartScan(incremental)
      PROVE  TypeOK'
  <2>2. left' \in 0..MaxFaults
    BY <1>1 DEF StartScan, Fault
  <2>3. pc' \in [Workers -> Places] /\ using' \in [Workers -> Settings] /\ todo' \in [Workers -> SUBSET Items]
    BY <1>1 DEF StartScan
  <2>4. copy' \in [Workers -> [Items -> SUBSET UserTags]]
    BY <1>1 DEF StartScan
  <2>7. known' \in [Workers -> [Items -> SUBSET UserTags]]
    BY <1>1 DEF StartScan
  <2>5. full' \in BOOLEAN /\ cancelled' \in BOOLEAN
    BY <1>1 DEF StartScan
  <2>6. QED
    BY <1>1, <2>2, <2>3, <2>4, <2>7, <2>5 DEF StartScan
<1>2. CASE Cancel
  BY <1>2 DEF Cancel, Fault, jobVars
<1>3. ASSUME NEW i \in Items, Check(i)
      PROVE  TypeOK'
  <2>1. mtime' \in [Workers -> [Items -> Versions]]
    <3>1. [mtime EXCEPT ![Scan][i] = file[i]] \in [Workers -> [Items -> Versions]]
      OBVIOUS
    <3>2. QED
      BY <1>3, <3>1 DEF Check
  <2>2. queue' \in SUBSET Items /\ todo' \in [Workers -> SUBSET Items]
    BY <1>3 DEF Check
  <2>3. QED
    BY <1>3, <2>1, <2>2 DEF Check
<1>4. ASSUME NEW i \in Items, Collect(i)
      PROVE  TypeOK'
  <2>1. ver' \in [Workers -> [Items -> Versions]]
    <3>1. [ver EXCEPT ![Scan][i] = file[i]] \in [Workers -> [Items -> Versions]]
      OBVIOUS
    <3>2. QED
      BY <1>4, <3>1 DEF Collect
  <2>2. queue' \in SUBSET Items /\ batch' \in [Workers -> SUBSET Items]
    <3>1. queue \ {i} \in SUBSET Items /\ [batch EXCEPT ![Scan] = @ \cup {i}] \in [Workers -> SUBSET Items]
      OBVIOUS
    <3>2. QED
      BY <1>4, <3>1 DEF Collect
  <2>3. left' \in 0..MaxFaults
    BY <1>4, FaultTypeOK DEF Collect
  <2>4. QED
    BY <1>4, <2>1, <2>2, <2>3 DEF Collect
<1>5. CASE StartProbing
  BY <1>5 DEF StartProbing
<1>6. CASE ReadCurrent
  <2>1. copy' \in [Workers -> [Items -> SUBSET UserTags]]
    <3>1. [i \in Items |-> IF i \in batch[Scan] THEN user[i] ELSE copy[Scan][i]] \in [Items -> SUBSET UserTags]
      OBVIOUS
    <3>2. QED
      BY <1>6, <3>1 DEF ReadCurrent
  <2>2. pc' \in [Workers -> Places] /\ left' \in 0..MaxFaults
    BY <1>6 DEF ReadCurrent, Fault
  <2>3. QED
    BY <1>6, <2>1, <2>2 DEF ReadCurrent
<1>7. CASE FinishScan
  BY <1>7 DEF FinishScan
<1>8. QED
  BY <1>1, <1>2, <1>3, <1>4, <1>5, <1>6, <1>7

LEMMA DropBatchTypeOK ==
  ASSUME TypeOK, NEW w \in Workers, DropBatch(w)
  PROVE  /\ pc' \in [Workers -> Places]
         /\ pend' \in [Workers -> SUBSET Items]
         /\ round' \in [Workers -> 1..2]
         /\ ver' \in [Workers -> [Items -> Versions]]
         /\ seen' \in [Workers -> [Items -> TagSets]]
         /\ using' \in [Workers -> Settings]
         /\ mtime' \in [Workers -> [Items -> Versions]]
         /\ copy' \in [Workers -> [Items -> SUBSET UserTags]]
         /\ known' \in [Workers -> [Items -> SUBSET UserTags]]
<1> USE ConstantFacts DEF TypeOK, DropBatch
<1>1. pc' \in [Workers -> Places]
  BY DEF AfterBatch, Places
<1>2. pend' \in [Workers -> SUBSET Items] /\ round' \in [Workers -> 1..2]
  OBVIOUS
<1>3. ver' \in [Workers -> [Items -> Versions]] /\ seen' \in [Workers -> [Items -> TagSets]]
  OBVIOUS
<1>4. using' \in [Workers -> Settings]
  OBVIOUS
<1>5. mtime' \in [Workers -> [Items -> Versions]]
  OBVIOUS
<1>6. copy' \in [Workers -> [Items -> SUBSET UserTags]]
  OBVIOUS
<1>7. known' \in [Workers -> [Items -> SUBSET UserTags]]
  OBVIOUS
<1>8. QED
  BY <1>1, <1>2, <1>3, <1>4, <1>5, <1>6, <1>7

LEMMA HookTypeOK ==
  ASSUME TypeOK,
         \/ \E h \in Hooks, i \in Items : Deliver(h, i) \/ Resolve(h, i) \/ ProbeOne(h, i)
         \/ \E h \in Hooks : GiveUp(h)
  PROVE  TypeOK'
<1> USE ConstantFacts, ConstantsAssumption DEF TypeOK, Places, worldVars, dbVars, scanVars
<1>1. ASSUME NEW h \in Hooks, NEW i \in Items, Deliver(h, i)
      PROVE  TypeOK'
  BY <1>1 DEF Deliver, Workers
<1>2. ASSUME NEW h \in Hooks, NEW i \in Items, Resolve(h, i)
      PROVE  TypeOK'
  BY <1>2 DEF Resolve, Workers
<1>3. ASSUME NEW h \in Hooks, NEW i \in Items, ProbeOne(h, i)
      PROVE  TypeOK'
  BY <1>3 DEF ProbeOne, Workers
<1>4. ASSUME NEW h \in Hooks, GiveUp(h)
      PROVE  TypeOK'
  <2>1. h \in Workers /\ DropBatch(h)
    BY <1>4 DEF Workers, GiveUp
  <2>2. todo' \in [Workers -> SUBSET Items]
    BY <1>4 DEF GiveUp
  <2>3. left' \in 0..MaxFaults
    BY <1>4, FaultTypeOK DEF GiveUp
  <2>4. QED
    BY <1>4, <2>1, <2>2, <2>3, DropBatchTypeOK DEF GiveUp
<1>5. QED
  BY <1>1, <1>2, <1>3, <1>4

LEMMA BatchTypeOK ==
  ASSUME TypeOK,
         \/ \E w \in Workers, i \in Items : Write(w, i) \/ Record(w, i)
         \/ \E w \in Workers : EndWrites(w) \/ ReadBack(w) \/ Retry(w) \/ EndBatch(w)
  PROVE  TypeOK'
<1> USE ConstantFacts, ConstantsAssumption DEF TypeOK, Places, worldVars, dbVars, scanVars
<1>1. ASSUME NEW w \in Workers, NEW i \in Items, Write(w, i)
      PROVE  TypeOK'
  <2>1. Wanted(w, i) \in TagSets
    BY DEF Wanted
  <2>2. Posted(w, i) \/ UNCHANGED <<tags, user, known>>
    BY <1>1 DEF Write
  <2>3. tags' \in [Items -> TagSets]
    <3>1. tags' = [tags EXCEPT ![i] = Wanted(w, i)] \/ UNCHANGED tags
      BY <2>2, Zenon DEF Posted
    <3>2. QED
      BY <2>1, <3>1
  <2>4. user' \in [Items -> SUBSET UserTags]
    <3>1. [user EXCEPT ![i] = copy[w][i]] \in [Items -> SUBSET UserTags]
      OBVIOUS
    <3>2. QED
      BY <2>2, <3>1 DEF Posted
  <2>5. batch' \in [Workers -> SUBSET Items] /\ pend' \in [Workers -> SUBSET Items]
    <3>1. /\ [batch EXCEPT ![w] = @ \ {i}] \in [Workers -> SUBSET Items]
          /\ [pend EXCEPT ![w] = @ \cup {i}] \in [Workers -> SUBSET Items]
      OBVIOUS
    <3>2. QED
      BY <1>1, <3>1 DEF Write
  <2>6. left' \in 0..MaxFaults
    BY <1>1, FaultTypeOK DEF Write
  <2>7. known' \in [Workers -> [Items -> SUBSET UserTags]]
    <3>1. [v \in Workers |-> [known[v] EXCEPT ![i] = @ \cap copy[w][i]]] \in [Workers -> [Items -> SUBSET UserTags]]
      OBVIOUS
    <3>2. QED
      BY <2>2, <3>1 DEF Posted
  <2>8. QED
    BY <1>1, <2>3, <2>4, <2>5, <2>6, <2>7 DEF Write
<1>2. ASSUME NEW w \in Workers, NEW i \in Items, Record(w, i)
      PROVE  TypeOK'
  <2>1. [mtime |-> mtime[w][i], tags |-> seen[w][i]] \in Rows
    OBVIOUS
  <2>2. QED
    BY <1>2, <2>1 DEF Record
<1>3. ASSUME NEW w \in Workers, EndWrites(w)
      PROVE  TypeOK'
  BY <1>3 DEF EndWrites
<1>4. ASSUME NEW w \in Workers, ReadBack(w)
      PROVE  TypeOK'
  <2>1. /\ [i \in Items |-> IF i \in pend[w] THEN tags[i] ELSE NoTags] \in [Items -> TagSets]
        /\ [i \in Items |-> IF i \in pend[w] THEN user[i] ELSE copy[w][i]] \in [Items -> SUBSET UserTags]
    OBVIOUS
  <2>2. seen' \in [Workers -> [Items -> TagSets]] /\ copy' \in [Workers -> [Items -> SUBSET UserTags]]
    BY <1>4, <2>1 DEF ReadBack
  <2>3. pc' \in [Workers -> Places]
    BY <1>4 DEF ReadBack
  <2>4. pend' \in [Workers -> SUBSET Items]
    <3>1. UNCHANGED pend \/ \E lost \in SUBSET pend[w] : pend' = [pend EXCEPT ![w] = @ \ lost]
      BY <1>4 DEF ReadBack
    <3>2. ASSUME NEW lost \in SUBSET pend[w], pend' = [pend EXCEPT ![w] = @ \ lost]
          PROVE  pend' \in [Workers -> SUBSET Items]
      <4>1. pend[w] \ lost \in SUBSET Items
        OBVIOUS
      <4>2. QED
        BY <3>2, <4>1
    <3>3. QED
      BY <3>1, <3>2
  <2>5. left' \in 0..MaxFaults
    BY <1>4, FaultTypeOK DEF ReadBack
  <2>6. QED
    BY <1>4, <2>2, <2>3, <2>4, <2>5 DEF ReadBack
<1>5. ASSUME NEW w \in Workers, Retry(w)
      PROVE  TypeOK'
  <2>1. batch' \in [Workers -> SUBSET Items] /\ pend' \in [Workers -> SUBSET Items]
    BY <1>5 DEF Retry
  <2>2. round' \in [Workers -> 1..2]
    <3>1. round' = [round EXCEPT ![w] = 2] /\ 2 \in 1..2
      BY <1>5 DEF Retry
    <3>2. QED
      BY <3>1
  <2>3. pc' \in [Workers -> Places]
    BY <1>5 DEF Retry
  <2>4. QED
    BY <1>5, <2>1, <2>2, <2>3 DEF Retry
<1>6. ASSUME NEW w \in Workers, EndBatch(w)
      PROVE  TypeOK'
  BY <1>6, DropBatchTypeOK DEF EndBatch
<1>7. QED
  BY <1>1, <1>2, <1>3, <1>4, <1>5, <1>6

LEMMA NextTypeOK ==
  ASSUME TypeOK, [Next]_vars
  PROVE  TypeOK'
<1>1. CASE Crash
  <2> USE ConstantFacts DEF Crash
  <2>1. /\ pc' \in [Workers -> Places]
        /\ using' \in [Workers -> Settings]
        /\ todo' \in [Workers -> SUBSET Items]
        /\ batch' \in [Workers -> SUBSET Items]
        /\ pend' \in [Workers -> SUBSET Items]
        /\ round' \in [Workers -> 1..2]
    BY <1>1 DEF Places
  <2>2. /\ mtime' \in [Workers -> [Items -> Versions]]
        /\ ver' \in [Workers -> [Items -> Versions]]
        /\ seen' \in [Workers -> [Items -> TagSets]]
        /\ copy' \in [Workers -> [Items -> SUBSET UserTags]]
        /\ known' \in [Workers -> [Items -> SUBSET UserTags]]
    BY <1>1
  <2>3. left' \in 0..MaxFaults
    BY <1>1, ConstantsAssumption DEF Fault, TypeOK
  <2>4. QED
    BY <1>1, <2>1, <2>2, <2>3 DEF TypeOK, dbVars
<1>2. CASE UNCHANGED vars
  BY <1>2 DEF TypeOK, vars, worldVars, dbVars, scanVars, jobVars
<1>3. QED
  BY <1>1, <1>2, StepCases, WorldTypeOK, ScanTypeOK, HookTypeOK, BatchTypeOK

\* The stores, the scan's and every worker's locals keep their types: in
\* particular a worker retries once at most.
THEOREM TypeCorrect == Spec => []TypeOK
BY InitTypeOK, NextTypeOK, PTL DEF Spec

-----------------------------------------------------------------------------
(* Rows and the files their tags were built from.  The invariant says where  *)
(* the mtime and the version a worker holds come from: the mtime is read     *)
(* first, and a probe sees that version or a later one.                      *)

\* A worker that has not probed holds no batch, and nothing waits for a
\* read-back while the next batch is probed.
BatchInv ==
  \A w \in Workers :
    /\ pc[w] \in {"off", "filter"} => batch[w] = {} /\ pend[w] = {}
    /\ pc[w] = "probe" => pend[w] = {} /\ (w \in Hooks => batch[w] = {})

MtimeInv == \A w \in Workers, i \in Items : mtime[w][i] <= file[i]

ProbeInv == \A w \in Workers : \A i \in batch[w] \cup pend[w] : mtime[w][i] <= ver[w][i]

StampInv == BatchInv /\ MtimeInv /\ ProbeInv

LEMMA InitStampInv == Init => StampInv
<1> SUFFICES ASSUME Init PROVE StampInv
  OBVIOUS
<1>1. BatchInv /\ ProbeInv
  BY DEF Init, BatchInv, ProbeInv
<1>2. MtimeInv
  <2>1. \A w \in Workers, i \in Items : mtime[w][i] = 0 /\ file[i] = 1
    BY DEF Init, Unread
  <2>2. QED
    BY <2>1 DEF MtimeInv
<1>3. QED
  BY <1>1, <1>2 DEF StampInv

LEMMA NextBatchInv ==
  ASSUME TypeOK, BatchInv, [Next]_vars
  PROVE  BatchInv'
<1> USE DEF TypeOK, BatchInv
<1>1. CASE \E i \in Items : FileChanges(i) \/ Unmount(i) \/ Mount(i) \/ Undo(i)
  BY <1>1 DEF FileChanges, Unmount, Mount, Undo, jobVars
<1>2. CASE \E i \in Items, u \in UserTags : UserTagsItem(i, u)
  BY <1>2 DEF UserTagsItem, jobVars
<1>3. CASE \E c \in 1..MaxCfg : SaveSettings(c)
  BY <1>3 DEF SaveSettings, jobVars
<1>4. ASSUME NEW incremental \in BOOLEAN, StartScan(incremental)
      PROVE  BatchInv'
  BY <1>4 DEF StartScan
<1>5. CASE Cancel
  BY <1>5 DEF Cancel, jobVars
<1>6. ASSUME NEW i \in Items, Check(i)
      PROVE  BatchInv'
  BY <1>6 DEF Check
<1>7. ASSUME NEW i \in Items, Collect(i)
      PROVE  BatchInv'
  BY <1>7, ConstantsAssumption DEF Collect
<1>8. CASE StartProbing
  BY <1>8, ConstantsAssumption DEF StartProbing
<1>9. CASE ReadCurrent
  BY <1>9 DEF ReadCurrent
<1>10. CASE FinishScan
  BY <1>10 DEF FinishScan
<1>11. ASSUME NEW h \in Hooks, NEW i \in Items, Deliver(h, i) \/ Resolve(h, i) \/ ProbeOne(h, i)
       PROVE  BatchInv'
  BY <1>11 DEF Deliver, Resolve, ProbeOne
<1>12. ASSUME NEW h \in Hooks, GiveUp(h)
       PROVE  BatchInv'
  BY <1>12, ConstantsAssumption DEF GiveUp, DropBatch, AfterBatch
<1>13. ASSUME NEW w \in Workers, NEW i \in Items, Write(w, i) \/ Record(w, i)
       PROVE  BatchInv'
  BY <1>13 DEF Write, Record
<1>14. ASSUME NEW w \in Workers, EndWrites(w) \/ ReadBack(w) \/ Retry(w)
       PROVE  BatchInv'
  BY <1>14 DEF EndWrites, ReadBack, Retry
<1>15. ASSUME NEW w \in Workers, EndBatch(w)
       PROVE  BatchInv'
  BY <1>15 DEF EndBatch, DropBatch, AfterBatch
<1>16. CASE Crash
  BY <1>16 DEF Crash
<1>17. CASE UNCHANGED vars
  BY <1>17 DEF vars, jobVars
<1>18. QED
  BY <1>1, <1>2, <1>3, <1>4, <1>5, <1>6, <1>7, <1>8, <1>9, <1>10, <1>11, <1>12,
     <1>13, <1>14, <1>15, <1>16, <1>17, StepCases

LEMMA NextMtimeInv ==
  ASSUME TypeOK, MtimeInv, [Next]_vars
  PROVE  MtimeInv'
<1> USE DEF TypeOK, MtimeInv
<1> USE ConstantsAssumption DEF Versions
<1>1. ASSUME NEW j \in Items, FileChanges(j)
      PROVE  MtimeInv'
  <2>1. \A i \in Items : file[i] \in Int /\ file'[i] \in Int /\ file[i] <= file'[i]
    BY <1>1 DEF FileChanges
  <2>2. UNCHANGED mtime
    BY <1>1 DEF FileChanges, jobVars
  <2>3. \A w \in Workers, i \in Items : mtime[w][i] \in Int
    OBVIOUS
  <2>4. QED
    BY <2>1, <2>2, <2>3
<1>2. ASSUME NEW j \in Items, Check(j)
      PROVE  MtimeInv'
  <2>1. mtime' = [mtime EXCEPT ![Scan][j] = file[j]] \/ UNCHANGED mtime
    BY <1>2 DEF Check
  <2>2. ASSUME NEW w \in Workers, NEW i \in Items
        PROVE  mtime'[w][i] = mtime[w][i] \/ mtime'[w][i] = file[i]
    <3>1. [mtime EXCEPT ![Scan][j] = file[j]][w] = IF w = Scan THEN [mtime[w] EXCEPT ![j] = file[j]] ELSE mtime[w]
      OBVIOUS
    <3>2. [mtime[w] EXCEPT ![j] = file[j]][i] = IF i = j THEN file[i] ELSE mtime[w][i]
      OBVIOUS
    <3>3. CASE mtime' = [mtime EXCEPT ![Scan][j] = file[j]]
      <4>1. mtime'[w] = IF w = Scan THEN [mtime[w] EXCEPT ![j] = file[j]] ELSE mtime[w]
        BY <3>1, <3>3, Zenon
      <4>2. QED
        BY <3>2, <4>1, Zenon
    <3>4. QED
      BY <2>1, <3>3
  <2>3. UNCHANGED file
    BY <1>2 DEF Check, worldVars
  <2>4. ASSUME NEW w \in Workers, NEW i \in Items
        PROVE  mtime'[w][i] <= file'[i]
    <3>1. mtime[w][i] <= file[i] /\ file[i] <= file[i]
      OBVIOUS
    <3>2. QED
      BY <2>2, <2>3, <3>1, Zenon
  <2>5. QED
    BY <2>4
<1>3. CASE FinishScan
  BY <1>3 DEF FinishScan, worldVars, Unread
<1>4. CASE \E h \in Hooks, i \in Items : Resolve(h, i)
  BY <1>4 DEF Resolve, worldVars
<1>5. ASSUME NEW v \in Workers, DropBatch(v), UNCHANGED file
      PROVE  MtimeInv'
  <2>1. mtime' = [mtime EXCEPT ![v] = Unread] \/ UNCHANGED mtime
    BY <1>5 DEF DropBatch
  <2>2. ASSUME NEW w \in Workers, NEW i \in Items
        PROVE  mtime'[w][i] = mtime[w][i] \/ mtime'[w][i] = 0
    <3>1. [mtime EXCEPT ![v] = Unread][w] = IF w = v THEN Unread ELSE mtime[w]
      OBVIOUS
    <3>2. Unread[i] = 0
      BY DEF Unread
    <3>3. QED
      BY <2>1, <3>1, <3>2
  <2>3. \A i \in Items : file[i] \in Int /\ 0 <= file[i]
    OBVIOUS
  <2>4. QED
    BY <1>5, <2>2, <2>3
<1>6. CASE Crash
  BY <1>6 DEF Crash, Unread
<1>7. CASE UNCHANGED <<file, mtime>>
  BY <1>7
<1>8. QED
  BY <1>1, <1>2, <1>3, <1>4, <1>5, <1>6, <1>7, StepCases
     DEF Unmount, Mount, Undo, UserTagsItem, SaveSettings, StartScan, Cancel, Collect,
         StartProbing, ReadCurrent, Deliver, ProbeOne, GiveUp, Write, Record, EndWrites,
         ReadBack, Retry, EndBatch, vars, worldVars, jobVars, Workers

LEMMA NextProbeInv ==
  ASSUME TypeOK, StampInv, [Next]_vars
  PROVE  ProbeInv'
<1> USE DEF TypeOK, StampInv, ProbeInv
<1>1. ASSUME NEW i \in Items, Check(i)
      PROVE  ProbeInv'
  BY <1>1 DEF Check, BatchInv
<1>2. ASSUME NEW i \in Items, Collect(i)
      PROVE  ProbeInv'
  <2>1. batch'[Scan] \subseteq batch[Scan] \cup {i} /\ (i \in batch'[Scan] \ batch[Scan] => ver'[Scan][i] = file[i])
    BY <1>2, ConstantFacts DEF Collect
  <2>2. \A w \in Workers \ {Scan} : batch'[w] = batch[w] /\ ver'[w] = ver[w]
    BY <1>2, ConstantFacts DEF Collect
  <2>3. UNCHANGED <<pend, mtime>>
    BY <1>2 DEF Collect
  <2>4. \A j \in Items \ {i} : ver'[Scan][j] = ver[Scan][j]
    BY <1>2, ConstantFacts DEF Collect
  <2>5. ver'[Scan][i] = ver[Scan][i] \/ ver'[Scan][i] = file[i]
    BY <1>2, ConstantFacts DEF Collect
  <2>6. ASSUME NEW w \in Workers \ {Scan}, NEW k \in batch'[w] \cup pend'[w]
        PROVE  mtime'[w][k] <= ver'[w][k]
    BY <2>2, <2>3
  <2>7. ASSUME NEW k \in batch'[Scan] \cup pend'[Scan]
        PROVE  mtime'[Scan][k] <= ver'[Scan][k]
    <3>1. mtime[Scan][i] <= file[i]
      BY ConstantFacts DEF MtimeInv
    <3>2. CASE k \in batch[Scan] \cup pend[Scan]
      <4>1. mtime[Scan][k] <= ver[Scan][k]
        BY <3>2, ConstantFacts
      <4>2. ver'[Scan][k] = ver[Scan][k] \/ (k = i /\ ver'[Scan][k] = file[i])
        BY <2>4, <2>5, <3>2, ConstantFacts
      <4>3. QED
        BY <2>3, <3>1, <4>1, <4>2
    <3>3. CASE k \notin batch[Scan] \cup pend[Scan]
      <4>1. k = i /\ ver'[Scan][i] = file[i]
        BY <2>1, <2>3, <3>3
      <4>2. QED
        BY <2>3, <3>1, <4>1
    <3>4. QED
      BY <3>2, <3>3
  <2>8. QED
    BY <2>6, <2>7
<1>3. CASE FinishScan
  BY <1>3 DEF FinishScan, BatchInv, Unread
<1>4. ASSUME NEW h \in Hooks, NEW i \in Items, Resolve(h, i)
      PROVE  ProbeInv'
  BY <1>4 DEF Resolve, BatchInv
<1>5. ASSUME NEW h \in Hooks, NEW i \in Items, ProbeOne(h, i)
      PROVE  ProbeInv'
  BY <1>5 DEF ProbeOne, MtimeInv
<1>6. ASSUME NEW h \in Hooks, GiveUp(h)
      PROVE  ProbeInv'
  BY <1>6 DEF GiveUp, DropBatch, BatchInv
<1>7. ASSUME NEW w \in Workers, NEW i \in Items, Write(w, i)
      PROVE  ProbeInv'
  BY <1>7 DEF Write
<1>8. ASSUME NEW w \in Workers, NEW i \in Items, Record(w, i)
      PROVE  ProbeInv'
  BY <1>8 DEF Record
<1>9. ASSUME NEW w \in Workers, ReadBack(w)
      PROVE  ProbeInv'
  <2>1. \A v \in Workers : pend'[v] \subseteq pend[v]
    <3>1. UNCHANGED pend \/ \E lost \in SUBSET pend[w] : pend' = [pend EXCEPT ![w] = @ \ lost]
      BY <1>9 DEF ReadBack
    <3>2. \A lost, v : v \in Workers => [pend EXCEPT ![w] = @ \ lost][v] \subseteq pend[v]
      OBVIOUS
    <3>3. QED
      BY <3>1, <3>2
  <2>2. UNCHANGED <<batch, mtime, ver>>
    BY <1>9 DEF ReadBack
  <2>3. QED
    BY <2>1, <2>2
<1>10. ASSUME NEW w \in Workers, Retry(w)
       PROVE  ProbeInv'
  BY <1>10 DEF Retry
<1>11. ASSUME NEW w \in Workers, EndBatch(w)
       PROVE  ProbeInv'
  BY <1>11 DEF EndBatch, DropBatch
<1>12. CASE Crash
  BY <1>12 DEF Crash
<1>13. CASE UNCHANGED <<batch, pend, mtime, ver>>
  BY <1>13
<1>14. QED
  BY <1>1, <1>2, <1>3, <1>4, <1>5, <1>6, <1>7, <1>8, <1>9, <1>10, <1>11, <1>12, <1>13, StepCases
     DEF FileChanges, Unmount, Mount, Undo, UserTagsItem, SaveSettings, StartScan, Cancel,
         StartProbing, ReadCurrent, Deliver, EndWrites, vars, jobVars

\* Where a row can come from.
LEMMA RowSteps ==
  ASSUME [Next]_vars
  PROVE  UNCHANGED row \/ \E w \in Workers, i \in Items : Record(w, i)
BY StepCases
   DEF FileChanges, Unmount, Mount, Undo, UserTagsItem, SaveSettings, StartScan, Cancel,
       Check, Collect, StartProbing, ReadCurrent, FinishScan, Deliver, Resolve, ProbeOne,
       GiveUp, Write, EndWrites, ReadBack, Retry, EndBatch, Crash, vars, dbVars

LEMMA RecordIsStamped ==
  ASSUME TypeOK, StampInv, NEW w \in Workers, NEW i \in Items, Record(w, i)
  PROVE  \/ row'[i].mtime <= row'[i].tags.ver
         \/ i \in pend[w] \ pend'[w] /\ round[w] = 2 /\ seen[w][i] # Wanted(w, i)
<1>1. row'[i] = [mtime |-> mtime[w][i], tags |-> seen[w][i]]
  BY DEF TypeOK, Record
<1>2. i \in pend[w] \ pend'[w]
  BY DEF TypeOK, Record
<1>3. CASE seen[w][i] = Wanted(w, i)
  <2>1. mtime[w][i] <= ver[w][i]
    BY <1>2 DEF StampInv, ProbeInv
  <2>2. QED
    BY <1>1, <1>3, <2>1 DEF Wanted
<1>4. CASE seen[w][i] # Wanted(w, i)
  BY <1>2, <1>4 DEF Record
<1>5. QED
  BY <1>3, <1>4

\* The one way for a row to claim a newer file than the one its tags were
\* built from, for any number of webhooks beside the scan, any failures and
\* any crash: a retry that was overwritten is recorded as it was read.
THEOREM AheadIsALostRetry == Spec => AheadOnlyAfterLostRetry
<1>1. TypeOK /\ StampInv /\ [Next]_vars => StampInv'
  BY NextBatchInv, NextMtimeInv, NextProbeInv DEF StampInv
<1> DEFINE Ahead == \A i \in Items :
       row'[i] # row[i] /\ row'[i].mtime > row'[i].tags.ver =>
         \E w \in Workers : i \in pend[w] \ pend'[w] /\ round[w] = 2 /\ seen[w][i] # Wanted(w, i)
<1>2. TypeOK /\ TypeOK' /\ StampInv /\ [Next]_vars => [Ahead]_vars
  <2> SUFFICES ASSUME TypeOK, TypeOK', StampInv, [Next]_vars,
                      NEW i \in Items, row'[i] # row[i], row'[i].mtime > row'[i].tags.ver
               PROVE  \E w \in Workers :
                        i \in pend[w] \ pend'[w] /\ round[w] = 2 /\ seen[w][i] # Wanted(w, i)
    OBVIOUS
  <2>1. PICK w \in Workers, j \in Items : Record(w, j)
    BY RowSteps
  <2>2. j = i
    BY <2>1 DEF TypeOK, Record
  <2>3. ~(row'[i].mtime <= row'[i].tags.ver)
    <3>1. row'[i] \in Rows
      BY DEF TypeOK
    <3>2. row'[i].mtime \in Int /\ row'[i].tags.ver \in Int
      BY <3>1, ConstantsAssumption DEF Rows, TagSets, Versions
    <3>3. QED
      BY <3>2
  <2>4. QED
    BY <2>1, <2>2, <2>3, RecordIsStamped
<1>3. QED
  BY <1>1, <1>2, InitStampInv, TypeCorrect, PTL DEF Spec, AheadOnlyAfterLostRetry

-----------------------------------------------------------------------------
(* The user's tags.  A worker knows of tags that are still on the item, and  *)
(* from the moment its batch is read until it is written they are in its     *)
(* copy: a write of another worker takes from both what it drops.            *)

\* What worker w knows of an item is in the copy it will send.
Copied(w, i) == known[w][i] \subseteq copy[w][i]

KnownInv == \A w \in Workers, i \in Items : known[w][i] \subseteq user[i]

\* A webhook's task is about one item, which it holds once it is resolved.
HoldsInv(w) ==
  /\ pc[w] = "write" => \A i \in batch[w] : Copied(w, i)
  /\ pc[w] = "record" => \A i \in pend[w] : Copied(w, i)
  /\ w \in Hooks => /\ \A i, j \in todo[w] : i = j
                    /\ pc[w] = "probe" => \A i \in todo[w] : Copied(w, i)

KeptInv == KnownInv /\ \A w \in Workers : HoldsInv(w)

LEMMA InitKeptInv == Init => KeptInv
BY DEF Init, KeptInv, KnownInv, HoldsInv, Nothing, Workers

\* What a worker knows of an item shrinks, until it starts again.
LEMMA KnownShrinks ==
  ASSUME TypeOK, [Next]_vars, NEW w \in Workers, NEW i \in Items
  PROVE  known'[w][i] \subseteq known[w][i] \/ known'[w][i] = user[i]
<1> USE DEF TypeOK
<1>1. ASSUME NEW v \in Workers, NEW j \in Items, Write(v, j)
      PROVE  known'[w][i] \subseteq known[w][i]
  <2>1. Posted(v, j) \/ UNCHANGED known
    BY <1>1 DEF Write
  <2>2. CASE Posted(v, j)
    <3>1. known'[w] = [known[w] EXCEPT ![j] = @ \cap copy[v][j]]
      BY <2>2 DEF Posted
    <3>2. QED
      BY <3>1
  <2>3. QED
    BY <2>1, <2>2
<1>2. ASSUME NEW v \in Workers, known' = [known EXCEPT ![v] = user]
      PROVE  known'[w][i] \subseteq known[w][i] \/ known'[w][i] = user[i]
  BY <1>2
<1>3. ASSUME NEW v \in Workers, known' = [known EXCEPT ![v] = Nothing]
      PROVE  known'[w][i] \subseteq known[w][i]
  BY <1>3 DEF Nothing
<1>4. CASE Crash
  BY <1>4 DEF Crash, Nothing
<1>5. CASE UNCHANGED known
  BY <1>5
<1>6. Scan \in Workers /\ Hooks \subseteq Workers
  BY DEF Workers
<1>7. QED
  BY <1>1, <1>2, <1>3, <1>4, <1>5, <1>6, StepCases
     DEF FileChanges, Unmount, Mount, Undo, UserTagsItem, SaveSettings, StartScan, Cancel,
         Check, Collect, StartProbing, ReadCurrent, FinishScan, Deliver, Resolve, ProbeOne,
         GiveUp, Record, EndWrites, ReadBack, Retry, EndBatch, DropBatch, vars, jobVars

LEMMA NextKnownInv ==
  ASSUME TypeOK, KnownInv, [Next]_vars
  PROVE  KnownInv'
<1> USE DEF TypeOK
<1> SUFFICES ASSUME NEW w \in Workers, NEW i \in Items
             PROVE  known'[w][i] \subseteq user'[i]
  BY DEF KnownInv
<1>1. known[w][i] \subseteq user[i]
  BY DEF KnownInv
<1>2. known'[w][i] \subseteq user[i]
  BY <1>1, KnownShrinks
<1>3. CASE \E j \in Items, u \in UserTags : UserTagsItem(j, u)
  <2>1. user[i] \subseteq user'[i]
    BY <1>3 DEF UserTagsItem
  <2>2. QED
    BY <1>2, <2>1
<1>4. ASSUME NEW v \in Workers, NEW j \in Items, Write(v, j)
      PROVE  known'[w][i] \subseteq user'[i]
  <2>1. Posted(v, j) \/ UNCHANGED user
    BY <1>4 DEF Write
  <2>2. CASE Posted(v, j) /\ i = j
    <3>1. known'[w] = [known[w] EXCEPT ![j] = @ \cap copy[v][j]] /\ user'[j] = copy[v][j]
      BY <2>2 DEF Posted
    <3>2. QED
      BY <2>2, <3>1
  <2>3. CASE Posted(v, j) /\ i # j
    BY <1>2, <2>3 DEF Posted
  <2>4. QED
    BY <1>2, <2>1, <2>2, <2>3
<1>5. CASE UNCHANGED user
  BY <1>2, <1>5
<1>6. QED
  BY <1>3, <1>4, <1>5, StepCases
     DEF FileChanges, Unmount, Mount, Undo, SaveSettings, StartScan, Cancel,
         Check, Collect, StartProbing, ReadCurrent, FinishScan, Deliver, Resolve, ProbeOne,
         GiveUp, Record, EndWrites, ReadBack, Retry, EndBatch, Crash, vars, worldVars

\* A step that is not w's own.
LEMMA OthersLeaveAlone ==
  ASSUME NEW w \in Workers, HoldsInv(w), batch[w] \cup pend[w] \cup todo[w] \subseteq Items,
         pc'[w] = pc[w], batch'[w] = batch[w], pend'[w] = pend[w], todo'[w] = todo[w], copy'[w] = copy[w],
         \A i \in Items : known'[w][i] \subseteq known[w][i]
  PROVE  HoldsInv(w)'
BY DEF HoldsInv, Copied

LEMMA ScanKeepsHold ==
  ASSUME TypeOK, KeptInv, "read" \notin Faults,
         \/ \E incremental \in BOOLEAN : StartScan(incremental)
         \/ \E i \in Items : Check(i) \/ Collect(i)
         \/ StartProbing \/ ReadCurrent \/ FinishScan
  PROVE  HoldsInv(Scan)'
<1> USE ConstantFacts DEF TypeOK
<1>1. Scan \notin Hooks
  BY ConstantsAssumption
<1>2. CASE ReadCurrent
  <2>1. /\ copy' = [copy EXCEPT ![Scan] = [i \in Items |-> IF i \in batch[Scan] THEN user[i] ELSE @[i]]]
        /\ pc'[Scan] = "write" /\ UNCHANGED <<batch, known>>
    BY <1>2 DEF ReadCurrent, Fault
  <2>2. \A i \in batch[Scan] : copy'[Scan][i] = user[i]
    BY <2>1
  <2>3. \A i \in batch[Scan] : known[Scan][i] \subseteq user[i]
    BY DEF KeptInv, KnownInv
  <2>4. QED
    BY <1>1, <2>1, <2>2, <2>3 DEF HoldsInv, Copied
<1>3. CASE pc'[Scan] \notin {"write", "record"}
  BY <1>1, <1>3 DEF HoldsInv
<1>4. QED
  BY <1>2, <1>3 DEF StartScan, Check, Collect, StartProbing, FinishScan

LEMMA HookKeepsHold ==
  ASSUME TypeOK, KeptInv, NEW h \in Hooks, NEW i \in Items, Deliver(h, i) \/ Resolve(h, i) \/ ProbeOne(h, i)
  PROVE  HoldsInv(h)'
<1> USE DEF TypeOK
<1>1. h \in Workers
  BY DEF Workers
<1>2. CASE Deliver(h, i)
  BY <1>1, <1>2 DEF Deliver, HoldsInv
<1>3. CASE Resolve(h, i)
  <2>1. /\ pc'[h] = "probe" /\ i \in todo[h] /\ UNCHANGED <<todo, known>>
        /\ copy'[h][i] = user[i]
    BY <1>1, <1>3 DEF Resolve
  <2>2. \A j \in todo[h] : j = i
    BY <1>1, <2>1 DEF KeptInv, HoldsInv
  <2>3. known[h][i] \subseteq user[i]
    BY <1>1 DEF KeptInv, KnownInv
  <2>4. QED
    BY <2>1, <2>2, <2>3, <1>1 DEF HoldsInv, Copied, KeptInv
<1>4. CASE ProbeOne(h, i)
  <2>1. /\ pc[h] = "probe" /\ i \in todo[h] /\ pc'[h] = "write"
        /\ todo'[h] = {} /\ batch'[h] = {i} /\ UNCHANGED <<known, copy>>
    BY <1>1, <1>4 DEF ProbeOne
  <2>2. Copied(h, i)
    BY <1>1, <2>1 DEF KeptInv, HoldsInv
  <2>3. QED
    BY <2>1, <2>2 DEF HoldsInv, Copied
<1>5. QED
  BY <1>2, <1>3, <1>4

LEMMA BatchKeepsHold ==
  ASSUME TypeOK, KeptInv, [Next]_vars, NEW w \in Workers,
         \/ \E i \in Items : Write(w, i) \/ Record(w, i)
         \/ EndWrites(w) \/ ReadBack(w) \/ Retry(w) \/ EndBatch(w) \/ (w \in Hooks /\ GiveUp(w))
  PROVE  HoldsInv(w)'
<1> USE DEF TypeOK
<1>1. HoldsInv(w)
  BY DEF KeptInv
<1>2. ASSUME NEW i \in Items, Write(w, i)
      PROVE  HoldsInv(w)'
  <2>1. /\ pc[w] = "write" /\ pc'[w] = "write" /\ UNCHANGED <<todo, copy>>
        /\ batch'[w] \subseteq batch[w]
    BY <1>2 DEF Write
  <2>2. \A j \in Items : known'[w][j] \subseteq known[w][j]
    <3>1. Posted(w, i) \/ UNCHANGED known
      BY <1>2 DEF Write
    <3>2. CASE Posted(w, i)
      <4>1. known'[w] = [known[w] EXCEPT ![i] = @ \cap copy[w][i]]
        BY <3>2 DEF Posted
      <4>2. QED
        BY <4>1
    <3>3. QED
      BY <3>1, <3>2
  <2>3. batch[w] \subseteq Items
    OBVIOUS
  <2>4. QED
    BY <1>1, <2>1, <2>2, <2>3 DEF HoldsInv, Copied
<1>3. ASSUME NEW i \in Items, Record(w, i)
      PROVE  HoldsInv(w)'
  BY <1>1, <1>3 DEF Record, HoldsInv, Copied
<1>4. CASE EndWrites(w)
  BY <1>1, <1>4 DEF EndWrites, HoldsInv
<1>5. CASE ReadBack(w)
  <2>1. /\ pc'[w] = "record" /\ UNCHANGED <<todo, known>>
        /\ copy' = [copy EXCEPT ![w] = [i \in Items |-> IF i \in pend[w] THEN user[i] ELSE @[i]]]
    BY <1>5 DEF ReadBack
  <2>2. \A i \in pend[w] : copy'[w][i] = user[i] /\ known[w][i] \subseteq user[i]
    BY <2>1 DEF KeptInv, KnownInv
  <2>3. pend'[w] \subseteq pend[w]
    <3>1. UNCHANGED pend \/ \E lost \in SUBSET pend[w] : pend' = [pend EXCEPT ![w] = @ \ lost]
      BY <1>5 DEF ReadBack
    <3>2. QED
      BY <3>1
  <2>4. QED
    BY <1>1, <2>1, <2>2, <2>3 DEF HoldsInv, Copied
<1>6. CASE Retry(w)
  BY <1>1, <1>6 DEF Retry, HoldsInv, Copied
<1>7. CASE EndBatch(w)
  <2>1. pc'[w] = AfterBatch(w) /\ UNCHANGED todo
    BY <1>7 DEF EndBatch, DropBatch
  <2>2. w \in Hooks => pc'[w] = "off"
    BY <2>1, ConstantsAssumption DEF AfterBatch
  <2>3. pc'[w] \in {"probe", "off"}
    BY <2>1 DEF AfterBatch
  <2>4. QED
    BY <1>1, <2>1, <2>2, <2>3 DEF HoldsInv
<1>8. CASE w \in Hooks /\ GiveUp(w)
  BY <1>8, ConstantsAssumption DEF GiveUp, DropBatch, AfterBatch, HoldsInv
<1>9. QED
  BY <1>2, <1>3, <1>4, <1>5, <1>6, <1>7, <1>8

LEMMA NextHoldsInv ==
  ASSUME TypeOK, KeptInv, "read" \notin Faults, [Next]_vars, NEW w \in Workers
  PROVE  HoldsInv(w)'
<1> USE DEF TypeOK
<1> DEFINE Same == /\ pc'[w] = pc[w] /\ batch'[w] = batch[w] /\ pend'[w] = pend[w]
                   /\ todo'[w] = todo[w] /\ copy'[w] = copy[w]
                   /\ \A i \in Items : known'[w][i] \subseteq known[w][i]
<1>1. Same => HoldsInv(w)'
  <2>1. HoldsInv(w) /\ batch[w] \cup pend[w] \cup todo[w] \subseteq Items
    BY DEF KeptInv
  <2>2. QED
    BY <2>1, OthersLeaveAlone
<1> HIDE DEF Same
<1>2. CASE \/ \E incremental \in BOOLEAN : StartScan(incremental)
           \/ \E i \in Items : Check(i) \/ Collect(i)
           \/ StartProbing \/ ReadCurrent \/ FinishScan
  <2>1. w # Scan => Same
    BY <1>2 DEF Same, StartScan, Check, Collect, StartProbing, ReadCurrent, FinishScan
  <2>2. QED
    BY <1>1, <1>2, <2>1, ScanKeepsHold
<1>3. ASSUME NEW h \in Hooks, NEW i \in Items, Deliver(h, i) \/ Resolve(h, i) \/ ProbeOne(h, i)
      PROVE  HoldsInv(w)'
  <2>1. w # h => Same
    BY <1>3 DEF Same, Deliver, Resolve, ProbeOne
  <2>2. QED
    BY <1>1, <1>3, <2>1, HookKeepsHold
<1>4. ASSUME NEW v \in Workers,
             \/ \E i \in Items : Write(v, i) \/ Record(v, i)
             \/ EndWrites(v) \/ ReadBack(v) \/ Retry(v) \/ EndBatch(v) \/ (v \in Hooks /\ GiveUp(v))
      PROVE  HoldsInv(w)'
  <2>1. ASSUME NEW i \in Items, Write(v, i), w # v
        PROVE  Same
    <3>1. Posted(v, i) \/ UNCHANGED known
      BY <2>1 DEF Write
    <3>2. CASE Posted(v, i)
      <4>1. known'[w] = [known[w] EXCEPT ![i] = @ \cap copy[v][i]]
        BY <3>2 DEF Posted
      <4>2. \A j \in Items : known'[w][j] \subseteq known[w][j]
        BY <4>1
      <4>3. QED
        BY <2>1, <4>2 DEF Same, Write
    <3>3. CASE UNCHANGED known
      BY <2>1, <3>3 DEF Same, Write
    <3>4. QED
      BY <3>1, <3>2, <3>3
  <2>2. ASSUME NEW i \in Items, Record(v, i), w # v
        PROVE  Same
    BY <2>2 DEF Same, Record
  <2>3. ASSUME EndWrites(v) \/ ReadBack(v) \/ Retry(v), w # v
        PROVE  Same
    <3>1. UNCHANGED pend \/ \E set : pend' = [pend EXCEPT ![v] = set]
      BY <2>3 DEF EndWrites, ReadBack, Retry
    <3>2. UNCHANGED <<todo, known>> /\ pc'[w] = pc[w] /\ batch'[w] = batch[w] /\ copy'[w] = copy[w]
      BY <2>3 DEF EndWrites, ReadBack, Retry
    <3>3. QED
      BY <2>3, <3>1, <3>2 DEF Same
  <2>4. ASSUME EndBatch(v) \/ GiveUp(v), w # v
        PROVE  Same
    BY <2>4 DEF Same, EndBatch, GiveUp, DropBatch
  <2>5. QED
    BY <1>1, <1>4, <2>1, <2>2, <2>3, <2>4, BatchKeepsHold
<1>5. CASE Crash
  BY <1>5 DEF Crash, HoldsInv
<1>6. CASE UNCHANGED jobVars
  BY <1>1, <1>6 DEF Same, jobVars
<1>7. Hooks \subseteq Workers
  BY DEF Workers
<1>8. QED
  BY <1>2, <1>3, <1>4, <1>5, <1>6, <1>7, StepCases
     DEF FileChanges, Unmount, Mount, Undo, UserTagsItem, SaveSettings, Cancel, vars

\* A write drops no tag that has been on the item ever since its worker started,
\* for any number of webhooks beside the scan and of tags that people add,
\* with a stale listing and all other failures but one: that of the read that
\* brings the listing up to date.
THEOREM UserTagsAreKept == "read" \notin Faults => (Spec => KeepsUserTags)
<1> SUFFICES ASSUME "read" \notin Faults
             PROVE  Spec => KeepsUserTags
  OBVIOUS
<1>1. TypeOK /\ KeptInv /\ [Next]_vars => KeptInv'
  BY NextKnownInv, NextHoldsInv DEF KeptInv
<1> DEFINE Kept == \A i \in Items : \A u \in user[i] \ user'[i] :
                     \E w \in Workers : i \in batch[w] \ batch'[w] /\ u \notin known[w][i]
<1>2. TypeOK /\ KeptInv /\ [Next]_vars => [Kept]_vars
  <2> SUFFICES ASSUME TypeOK, KeptInv, [Next]_vars, NEW i \in Items, NEW u \in user[i] \ user'[i]
               PROVE  \E w \in Workers : i \in batch[w] \ batch'[w] /\ u \notin known[w][i]
    OBVIOUS
  <2>1. \/ UNCHANGED user
        \/ \E j \in Items, t \in UserTags : UserTagsItem(j, t)
        \/ \E w \in Workers, j \in Items : Write(w, j)
    BY StepCases
       DEF FileChanges, Unmount, Mount, Undo, SaveSettings, StartScan, Cancel,
           Check, Collect, StartProbing, ReadCurrent, FinishScan, Deliver, Resolve, ProbeOne,
           GiveUp, Record, EndWrites, ReadBack, Retry, EndBatch, Crash, vars, worldVars
  <2>2. PICK w \in Workers, j \in Items : Write(w, j)
    BY <2>1 DEF UserTagsItem, TypeOK
  <2>3. Posted(w, j)
    BY <2>2 DEF Write
  <2>4. i = j /\ user'[j] = copy[w][j]
    BY <2>3 DEF Posted, TypeOK
  <2>5. pc[w] = "write" /\ i \in batch[w] \ batch'[w]
    BY <2>2, <2>4 DEF Write, TypeOK
  <2>6. known[w][i] \subseteq copy[w][i]
    BY <2>5 DEF KeptInv, HoldsInv, Copied
  <2>7. QED
    BY <2>4, <2>5, <2>6
<1>3. QED
  BY <1>1, <1>2, InitKeptInv, TypeCorrect, PTL DEF Spec, KeepsUserTags

-----------------------------------------------------------------------------
(* The scan alone.  What is pending is in Jellyfin as it was written, so the *)
(* read-back of an undisturbed scan never asks for a retry.                  *)

PendingInv ==
  \A i \in pend[Scan] :
    /\ tags[i] = Wanted(Scan, i)
    /\ pc[Scan] = "record" => seen[Scan][i] = Wanted(Scan, i)

LEMMA NextPendingInv ==
  ASSUME Hooks = {}, "undo" \notin Faults \/ left' = MaxFaults,
         TypeOK, BatchInv, BatchInv', PendingInv, [Next]_vars
  PROVE  PendingInv'
<1> USE DEF PendingInv, Wanted
<1>1. Scan \in Workers /\ \A w \in Workers : w = Scan
  BY DEF Workers
<1>2. CASE pend'[Scan] = {}
  BY <1>2
<1>3. CASE \E i \in Items, w \in Workers : Write(w, i)
  <2>1. PICK j \in Items : Write(Scan, j)
    BY <1>1, <1>3
  <2>2. pc[Scan] = "write" /\ pc'[Scan] = "write" /\ UNCHANGED <<using, ver>>
    BY <2>1 DEF Write
  <2>3. tags' = [tags EXCEPT ![j] = Wanted(Scan, j)] \/ UNCHANGED tags
    BY <2>1 DEF Write, Posted
  <2>4. \/ UNCHANGED pend
        \/ pend' = [pend EXCEPT ![Scan] = @ \cup {j}] /\ Posted(Scan, j)
    BY <2>1 DEF Write
  <2>5. pend'[Scan] \subseteq pend[Scan] \cup {j} /\ pend[Scan] \subseteq Items
    BY <1>1, <2>4 DEF TypeOK
  <2>6. j \in pend'[Scan] => j \in pend[Scan] \/ Posted(Scan, j)
    BY <1>1, <2>4 DEF TypeOK
  <2>7. ASSUME NEW i \in pend'[Scan]
        PROVE  tags'[i] = Wanted(Scan, i)
    <3>1. i \in Items
      BY <2>5
    <3>2. CASE i = j
      BY <2>3, <2>6, <3>1, <3>2 DEF TypeOK, Posted
    <3>3. CASE i # j
      BY <2>3, <2>5, <3>1, <3>3 DEF TypeOK
    <3>4. QED
      BY <3>2, <3>3
  <2>8. QED
    BY <2>2, <2>7
<1>4. CASE \E i \in Items, w \in Workers : Record(w, i)
  <2>1. PICK j \in Items : Record(Scan, j)
    BY <1>1, <1>4
  <2>2. UNCHANGED <<tags, pc, using, ver, seen>> /\ pend'[Scan] \subseteq pend[Scan]
    BY <1>1, <2>1 DEF TypeOK, Record, worldVars
  <2>3. QED
    BY <2>2
<1>5. CASE \E w \in Workers : ReadBack(w)
  <2>1. ReadBack(Scan)
    BY <1>1, <1>5
  <2>2. pend'[Scan] \subseteq pend[Scan] /\ pend[Scan] \subseteq Items
    <3>1. UNCHANGED pend \/ \E lost \in SUBSET pend[Scan] : pend' = [pend EXCEPT ![Scan] = @ \ lost]
      BY <2>1 DEF ReadBack
    <3>2. QED
      BY <1>1, <3>1 DEF TypeOK
  <2>3. \A i \in pend[Scan] : seen'[Scan][i] = tags[i]
    BY <1>1, <2>1, <2>2 DEF TypeOK, ReadBack
  <2>4. UNCHANGED <<tags, using, ver>>
    BY <2>1 DEF ReadBack
  <2>5. QED
    BY <2>2, <2>3, <2>4
<1>6. CASE \E i \in Items : Undo(i)
  BY <1>6, ConstantsAssumption DEF Undo, Fault, TypeOK
<1>7. CASE \E w \in Workers : EndWrites(w)
  BY <1>1, <1>7 DEF EndWrites, TypeOK, worldVars
<1>8. CASE UNCHANGED <<tags, pc, using, pend, ver, seen>>
  BY <1>8
<1>9. CASE pc'[Scan] \in {"off", "filter", "probe"}
  BY <1>1, <1>2, <1>9 DEF BatchInv
<1>10. CASE StartProbing \/ (\E incremental \in BOOLEAN : StartScan(incremental)) \/ FinishScan
  BY <1>1, <1>9, <1>10 DEF StartProbing, StartScan, FinishScan, TypeOK
<1>11. CASE ReadCurrent
  BY <1>1, <1>2, <1>11 DEF ReadCurrent, BatchInv
<1>12. CASE \E i \in Items : Check(i) \/ Collect(i)
  BY <1>9, <1>12 DEF Check, Collect
<1>13. CASE \E w \in Workers : Retry(w) \/ EndBatch(w)
  BY <1>1, <1>2, <1>13 DEF Retry, EndBatch, DropBatch, TypeOK
<1>14. CASE Crash
  BY <1>1, <1>2, <1>14 DEF Crash
<1>15. QED
  BY <1>3, <1>4, <1>5, <1>6, <1>7, <1>8, <1>10, <1>11, <1>12, <1>13, <1>14, StepCases
     DEF FileChanges, Unmount, Mount, UserTagsItem, SaveSettings, Cancel, vars, worldVars, jobVars

LEMMA NextRowInv ==
  ASSUME Hooks = {}, TypeOK, StampInv, PendingInv, RowNotAheadOfItsTags, [Next]_vars
  PROVE  RowNotAheadOfItsTags'
<1>1. CASE UNCHANGED row
  BY <1>1 DEF RowNotAheadOfItsTags
<1>2. ASSUME NEW w \in Workers, NEW j \in Items, Record(w, j)
      PROVE  RowNotAheadOfItsTags'
  <2>1. w = Scan
    BY DEF Workers
  <2>2. seen[w][j] = Wanted(w, j)
    BY <1>2, <2>1 DEF Record, PendingInv
  <2>3. row'[j].mtime <= row'[j].tags.ver
    BY <1>2, <2>2, RecordIsStamped
  <2>4. \A i \in Items \ {j} : row'[i] = row[i]
    BY <1>2 DEF Record, TypeOK
  <2>5. QED
    BY <2>3, <2>4 DEF RowNotAheadOfItsTags
<1>3. QED
  BY <1>1, <1>2, RowSteps

\* With no webhook beside it and no save that undoes its writes, the scan never
\* records a file newer than the one its tags were built from, whatever files
\* change, writes and reads fail, cancels and crashes come in between.
THEOREM ScanIsNeverAhead ==
  Hooks = {} /\ "undo" \notin Faults => (Spec => []RowNotAheadOfItsTags)
<1> SUFFICES ASSUME Hooks = {}, "undo" \notin Faults
             PROVE  Spec => []RowNotAheadOfItsTags
  OBVIOUS
<1>1. Init => PendingInv /\ RowNotAheadOfItsTags
  <2> SUFFICES ASSUME Init PROVE PendingInv /\ RowNotAheadOfItsTags
    OBVIOUS
  <2>1. PendingInv
    BY DEF Init, PendingInv, Workers
  <2>2. ASSUME NEW i \in Items
        PROVE  row[i].mtime <= row[i].tags.ver
    BY DEF Init, NoRow, NoTags
  <2>3. QED
    BY <2>1, <2>2 DEF RowNotAheadOfItsTags
<1>2. TypeOK /\ StampInv /\ [Next]_vars => StampInv'
  BY NextBatchInv, NextMtimeInv, NextProbeInv DEF StampInv
<1>3. TypeOK /\ StampInv /\ StampInv' /\ PendingInv /\ [Next]_vars => PendingInv'
  BY NextPendingInv DEF StampInv
<1>4. TypeOK /\ StampInv /\ PendingInv /\ RowNotAheadOfItsTags /\ [Next]_vars => RowNotAheadOfItsTags'
  BY NextRowInv
<1>5. QED
  BY <1>1, <1>2, <1>3, <1>4, InitStampInv, TypeCorrect, PTL DEF Spec

-----------------------------------------------------------------------------
(* The scan when no webhook works beside it: what the index says of          *)
(* Jellyfin, and what the stored settings' hash says of the index.           *)

LEMMA Alone ==
  ASSUME Hooks = {}
  PROVE  Workers = {Scan}
BY DEF Workers

\* What the stores and the scan hold is numbers.
Numeric ==
  \A i \in Items :
    /\ file[i] \in Int /\ row[i].mtime \in Int
    /\ row[i].tags \in TagSets /\ tags[i] \in TagSets
    /\ row[i].tags.ver \in Int /\ tags[i].ver \in Int
    /\ mtime[Scan][i] \in Int /\ ver[Scan][i] \in Int

LEMMA Numbers == TypeOK => Numeric
<1> SUFFICES ASSUME TypeOK, NEW i \in Items
             PROVE  /\ file[i] \in Int /\ row[i].mtime \in Int
                    /\ row[i].tags \in TagSets /\ tags[i] \in TagSets
                    /\ row[i].tags.ver \in Int /\ tags[i].ver \in Int
                    /\ mtime[Scan][i] \in Int /\ ver[Scan][i] \in Int
  BY DEF Numeric
<1>1. row[i] \in Rows /\ tags[i] \in TagSets /\ file[i] \in 1..MaxVer
  BY DEF TypeOK
<1>2. mtime[Scan][i] \in Versions /\ ver[Scan][i] \in Versions
  BY ConstantFacts DEF TypeOK
<1>3. QED
  BY <1>1, <1>2, ConstantsAssumption DEF Rows, TagSets, Versions

LEMMA NumbersNext == TypeOK' => Numeric'
BY Numbers, PTL

-----------------------------------------------------------------------------
(* What the scan skips is tagged.  The version of the tags recorded for an   *)
(* item never passes the one of the tags Jellyfin carries, of the file, or   *)
(* of a probe whose tags are still to be written.                            *)

VersionInv ==
  \A i \in Items :
    /\ row[i].tags.ver <= tags[i].ver
    /\ row[i].tags.ver <= file[i]
    /\ i \in batch[Scan] \cup pend[Scan] =>
         row[i].tags.ver <= ver[Scan][i] /\ ver[Scan][i] <= file[i]

LEMMA InitVersionInv == Init => VersionInv
<1> SUFFICES ASSUME Init, NEW i \in Items
             PROVE  /\ row[i].tags.ver <= tags[i].ver
                    /\ row[i].tags.ver <= file[i]
                    /\ i \notin batch[Scan] \cup pend[Scan]
  BY DEF VersionInv
<1>1. i \notin batch[Scan] \cup pend[Scan]
  BY ConstantFacts DEF Init
<1>2. file[i] = 1 /\ row[i] = IF tags[i] = NoTags THEN NoRow ELSE [mtime |-> 1, tags |-> tags[i]]
  BY DEF Init
<1>3. tags[i] = NoTags \/ tags[i] = [cfg |-> 1, ver |-> 1]
  BY DEF Init
<1>4. QED
  BY <1>1, <1>2, <1>3 DEF NoRow, NoTags

\* The steps of a batch, item by item.
LEMMA Writes ==
  ASSUME Hooks = {}, TypeOK, NEW w \in Workers, NEW j \in Items, Write(w, j)
  PROVE  /\ w = Scan /\ pc[Scan] = "write" /\ j \in batch[Scan]
         /\ batch'[Scan] = batch[Scan] \ {j}
         /\ pend'[Scan] = pend[Scan] \/ pend'[Scan] = pend[Scan] \cup {j}
         /\ \A i \in Items \ {j} : tags'[i] = tags[i]
         /\ tags'[j] = tags[j] \/ tags'[j] = Wanted(Scan, j)
         /\ left' = left => pend'[Scan] = pend[Scan] \cup {j} /\ tags'[j] = Wanted(Scan, j)
         /\ UNCHANGED <<cfg, file, here, row, meta, full, cancelled, queue, pc, using, todo, ver, mtime>>
<1>1. w = Scan /\ Scan \in Workers
  BY Alone
<1>2. /\ pc[Scan] = "write" /\ j \in batch[Scan]
      /\ batch'[Scan] = batch[Scan] \ {j}
      /\ UNCHANGED <<cfg, file, here, row, meta, full, cancelled, queue, pc, using, todo, ver, mtime>>
  BY <1>1 DEF Write, TypeOK, dbVars, scanVars
<1>3. pend'[Scan] = pend[Scan] \/ pend'[Scan] = pend[Scan] \cup {j}
  BY <1>1 DEF Write, TypeOK
<1>4. Posted(Scan, j) \/ UNCHANGED tags
  BY <1>1 DEF Write
<1>5. /\ \A i \in Items \ {j} : tags'[i] = tags[i]
      /\ tags'[j] = tags[j] \/ tags'[j] = Wanted(Scan, j)
  BY <1>4 DEF Posted, TypeOK
<1>6. ASSUME left' = left
      PROVE  pend'[Scan] = pend[Scan] \cup {j} /\ tags'[j] = Wanted(Scan, j)
  <2>1. ~Fault("write")
    BY <1>6, ConstantsAssumption DEF Fault, TypeOK
  <2>2. Posted(Scan, j) /\ pend' = [pend EXCEPT ![Scan] = @ \cup {j}]
    BY <1>1, <2>1 DEF Write
  <2>3. QED
    BY <1>1, <2>2 DEF Posted, TypeOK
<1>7. QED
  BY <1>1, <1>2, <1>3, <1>5, <1>6

LEMMA Records ==
  ASSUME Hooks = {}, TypeOK, PendingInv, NEW w \in Workers, NEW j \in Items, Record(w, j)
  PROVE  /\ w = Scan /\ pc[Scan] = "record" /\ j \in pend[Scan]
         /\ row'[j] = [mtime |-> mtime[Scan][j], tags |-> Wanted(Scan, j)]
         /\ tags[j] = Wanted(Scan, j)
         /\ \A i \in Items \ {j} : row'[i] = row[i]
         /\ pend'[Scan] = pend[Scan] \ {j}
         /\ UNCHANGED <<cfg, file, here, left, tags, meta, full, cancelled, queue, pc, using, todo,
                        batch, ver, mtime>>
<1>1. w = Scan /\ Scan \in Workers
  BY Alone
<1>2. pc[Scan] = "record" /\ j \in pend[Scan]
  BY <1>1 DEF Record
<1>3. seen[Scan][j] = Wanted(Scan, j) /\ tags[j] = Wanted(Scan, j)
  BY <1>2 DEF PendingInv
<1>4. /\ row'[j] = [mtime |-> mtime[Scan][j], tags |-> seen[Scan][j]]
      /\ \A i \in Items \ {j} : row'[i] = row[i]
      /\ pend'[Scan] = pend[Scan] \ {j}
      /\ UNCHANGED <<cfg, file, here, left, tags, meta, full, cancelled, queue, pc, using, todo,
                     batch, ver, mtime>>
  BY <1>1 DEF Record, TypeOK, worldVars, scanVars
<1>5. QED
  BY <1>1, <1>2, <1>3, <1>4

LEMMA Reads ==
  ASSUME Hooks = {}, TypeOK, NEW w \in Workers, ReadBack(w)
  PROVE  /\ w = Scan /\ pend'[Scan] \subseteq pend[Scan]
         /\ left' = left => pend'[Scan] = pend[Scan]
         /\ pc[Scan] = "readback" /\ pc'[Scan] = "record"
         /\ UNCHANGED <<cfg, file, here, tags, row, meta, full, cancelled, queue, using, todo, batch,
                        ver, mtime>>
<1>1. w = Scan /\ Scan \in Workers
  BY Alone
<1>2. \/ UNCHANGED pend
      \/ Fault("readback") /\ \E lost \in SUBSET pend[Scan] : pend' = [pend EXCEPT ![Scan] = @ \ lost]
  BY <1>1 DEF ReadBack
<1>3. pend'[Scan] \subseteq pend[Scan]
  BY <1>1, <1>2 DEF TypeOK
<1>4. left' = left => pend'[Scan] = pend[Scan]
  BY <1>2, ConstantsAssumption DEF Fault, TypeOK
<1>5. QED
  BY <1>1, <1>3, <1>4 DEF ReadBack, TypeOK, dbVars, scanVars

LEMMA Collects ==
  ASSUME TypeOK, NEW j \in Items, Collect(j)
  PROVE  /\ pc[Scan] = "probe" /\ j \in queue /\ queue' = queue \ {j}
         /\ \/ /\ batch'[Scan] = batch[Scan] \cup {j}
               /\ ver'[Scan][j] = file[j] /\ \A i \in Items \ {j} : ver'[Scan][i] = ver[Scan][i]
            \/ UNCHANGED <<batch, ver>> /\ (left' = left => j \notin here)
         /\ UNCHANGED <<cfg, file, here, tags, row, meta, full, cancelled, pc, using, todo, pend, mtime>>
<1>1. /\ pc[Scan] = "probe" /\ j \in queue /\ queue' = queue \ {j}
      /\ UNCHANGED <<cfg, file, here, tags, row, meta, full, cancelled, pc, using, todo, pend, mtime>>
  BY DEF Collect, dbVars
<1>2. CASE /\ ver' = [ver EXCEPT ![Scan][j] = file[j]]
           /\ batch' = [batch EXCEPT ![Scan] = @ \cup {j}]
  BY <1>1, <1>2, ConstantFacts DEF TypeOK
<1>3. CASE UNCHANGED <<ver, batch>> /\ (j \notin here \/ Fault("probe"))
  BY <1>1, <1>3, ConstantsAssumption DEF Fault, TypeOK
<1>4. QED
  BY <1>2, <1>3 DEF Collect

LEMMA Retries ==
  ASSUME Hooks = {}, BatchInv, PendingInv, NEW w \in Workers
  PROVE  ~Retry(w)
<1>1. w = Scan
  BY Alone
<1>2. ASSUME Retry(w)
      PROVE  FALSE
  <2>1. pc[Scan] = "record" /\ pend[Scan] # {} /\ \A i \in pend[Scan] : seen[Scan][i] # Wanted(Scan, i)
    BY <1>1, <1>2 DEF Retry
  <2>2. QED
    BY <2>1 DEF PendingInv
<1>3. QED
  BY <1>2

LEMMA NextVersionInv ==
  ASSUME Hooks = {}, "undo" \notin Faults, TypeOK, TypeOK', BatchInv, PendingInv, VersionInv, [Next]_vars
  PROVE  VersionInv'
<1> DEFINE Version(i) ==
      /\ row[i].tags.ver <= tags[i].ver
      /\ row[i].tags.ver <= file[i]
      /\ i \in batch[Scan] \cup pend[Scan] => row[i].tags.ver <= ver[Scan][i] /\ ver[Scan][i] <= file[i]
<1> SUFFICES ASSUME NEW i \in Items
             PROVE  Version(i)'
  BY DEF VersionInv
<1>1. Version(i)
  BY DEF VersionInv
<1>2. /\ file[i] \in Int /\ row[i].tags.ver \in Int /\ tags[i].ver \in Int /\ ver[Scan][i] \in Int
      /\ file'[i] \in Int /\ row'[i].tags.ver \in Int /\ tags'[i].ver \in Int /\ ver'[Scan][i] \in Int
  BY Numbers, NumbersNext DEF Numeric
<1>3. ASSUME NEW j \in Items, FileChanges(j)
      PROVE  Version(i)'
  <2>1. file[i] <= file'[i]
    BY <1>3, <1>2 DEF FileChanges, TypeOK
  <2>2. UNCHANGED <<row, tags, batch, pend, ver>>
    BY <1>3 DEF FileChanges, dbVars, jobVars
  <2>3. QED
    BY <1>1, <1>2, <2>1, <2>2
<1>4. ASSUME NEW j \in Items, Undo(j)
      PROVE  Version(i)'
  BY <1>4 DEF Undo, Fault
<1>5. ASSUME NEW j \in Items, Collect(j)
      PROVE  Version(i)'
  <2>1. UNCHANGED <<row, tags, file, pend>>
    BY <1>5, Collects
  <2>2. CASE UNCHANGED <<batch, ver>>
    BY <1>1, <2>1, <2>2
  <2>3. CASE i = j /\ ver'[Scan][j] = file[j]
    BY <1>1, <1>2, <2>1, <2>3
  <2>4. CASE i # j /\ batch'[Scan] = batch[Scan] \cup {j} /\ ver'[Scan][i] = ver[Scan][i]
    BY <1>1, <2>1, <2>4
  <2>5. QED
    BY <1>5, <2>2, <2>3, <2>4, Collects
<1>6. ASSUME NEW w \in Workers, NEW j \in Items, Write(w, j)
      PROVE  Version(i)'
  <2>1. /\ j \in batch[Scan] /\ UNCHANGED <<row, file, ver>>
        /\ batch'[Scan] \cup pend'[Scan] \subseteq batch[Scan] \cup pend[Scan]
        /\ tags'[i] = tags[i] \/ (i = j /\ tags'[i] = Wanted(Scan, i))
    BY <1>6, Writes
  <2>2. CASE tags'[i] = tags[i]
    BY <1>1, <2>1, <2>2
  <2>3. CASE i = j /\ tags'[i] = Wanted(Scan, i)
    BY <1>1, <2>1, <2>3 DEF Wanted
  <2>4. QED
    BY <2>1, <2>2, <2>3
<1>7. ASSUME NEW w \in Workers, NEW j \in Items, Record(w, j)
      PROVE  Version(i)'
  <2>1. /\ UNCHANGED <<tags, file, batch, ver>>
        /\ j \in pend[Scan] /\ pend'[Scan] \subseteq pend[Scan]
    BY <1>7, Records
  <2>2. CASE i # j
    <3>1. row'[i] = row[i]
      BY <1>7, <2>2, Records
    <3>2. QED
      BY <1>1, <2>1, <3>1
  <2>3. CASE i = j
    <3>1. row'[j] = [mtime |-> mtime[Scan][j], tags |-> Wanted(Scan, j)] /\ tags[j] = Wanted(Scan, j)
      BY <1>7, Records
    <3>2. row'[i].tags.ver = ver[Scan][i] /\ tags[i].ver = ver[Scan][i]
      BY <2>3, <3>1 DEF Wanted
    <3>3. QED
      BY <1>1, <1>2, <2>1, <2>3, <3>2
  <2>4. QED
    BY <2>2, <2>3
<1>8. ASSUME NEW w \in Workers, ReadBack(w)
      PROVE  Version(i)'
  BY <1>1, <1>8, Reads
<1>9. CASE FinishScan
  <2>1. pend[Scan] = {}
    BY <1>9, ConstantFacts DEF FinishScan, BatchInv
  <2>2. batch'[Scan] = {} /\ UNCHANGED <<row, tags, file, pend>>
    BY <1>9, ConstantFacts DEF FinishScan, TypeOK, worldVars
  <2>3. QED
    BY <1>1, <2>1, <2>2
<1>10. ASSUME NEW w \in Workers, EndBatch(w)
       PROVE  Version(i)'
  <2>1. w = Scan
    BY Alone
  <2>2. batch'[Scan] = {} /\ pend'[Scan] = {} /\ UNCHANGED <<row, tags, file>>
    BY <1>10, <2>1 DEF EndBatch, DropBatch, TypeOK, worldVars, dbVars
  <2>3. QED
    BY <1>1, <2>2
<1>11. CASE Crash
  BY <1>1, <1>11, ConstantFacts DEF Crash, dbVars
<1>12. CASE UNCHANGED <<row, tags, file, batch, pend, ver>>
  BY <1>1, <1>12
<1>13. QED
  BY <1>3, <1>4, <1>5, <1>6, <1>7, <1>8, <1>9, <1>10, <1>11, <1>12, Retries, StepCases
     DEF Unmount, Mount, UserTagsItem, SaveSettings, StartScan, Cancel, Check, StartProbing,
         ReadCurrent, EndWrites, vars, worldVars, dbVars, jobVars

\* As long as nobody else writes tags, what the incremental scan would skip is
\* tagged from the file the row was made from, or a later one, whatever files
\* change, writes, reads and probes fail, cancels and crashes come in between.
THEOREM SkippedStaysTagged ==
  Hooks = {} /\ "undo" \notin Faults => (Spec => []SkippedIsTagged)
<1> SUFFICES ASSUME Hooks = {}, "undo" \notin Faults
             PROVE  Spec => []SkippedIsTagged
  OBVIOUS
<1>1. Init => PendingInv /\ BatchInv
  BY InitStampInv, ConstantFacts DEF Init, PendingInv, StampInv
<1>2. TypeOK /\ BatchInv /\ [Next]_vars => BatchInv'
  BY NextBatchInv
<1>3. TypeOK /\ BatchInv /\ BatchInv' /\ PendingInv /\ [Next]_vars => PendingInv'
  BY NextPendingInv
<1>4. TypeOK /\ TypeOK' /\ BatchInv /\ PendingInv /\ VersionInv /\ [Next]_vars => VersionInv'
  BY NextVersionInv
<1>5. TypeOK /\ VersionInv => SkippedIsTagged
  BY Numbers DEF Numeric, VersionInv, SkippedIsTagged
<1>6. QED
  BY <1>1, <1>2, <1>3, <1>4, <1>5, InitVersionInv, TypeCorrect, PTL DEF Spec

-----------------------------------------------------------------------------
(* What an unfailed scan leaves behind.                                      *)

LEMMA Failures ==
  ASSUME TypeOK, [Next]_vars
  PROVE  /\ left \in Int /\ left <= MaxFaults
         /\ left' = left \/ left' = left - 1
<1>1. left \in Int /\ left <= MaxFaults
  BY ConstantsAssumption DEF TypeOK
<1>2. left' = left \/ left' = left - 1
  BY StepCases
     DEF FileChanges, Unmount, Mount, Undo, UserTagsItem, SaveSettings, StartScan, Cancel,
         Check, Collect, StartProbing, ReadCurrent, FinishScan, Deliver, Resolve, ProbeOne,
         GiveUp, Write, Record, EndWrites, ReadBack, Retry, EndBatch, Crash, vars, worldVars,
         dbVars, Fault
<1>3. QED
  BY <1>1, <1>2

\* A step that fails nothing, of a scan that failed nothing before.
LEMMA NoFault ==
  ASSUME TypeOK, [Next]_vars, Unfailed'
  PROVE  Unfailed /\ left' = left /\ \A f : ~Fault(f)
BY Failures, ConstantsAssumption DEF Unfailed, Fault

\* An item whose tags are not the recorded ones is being tagged.
WrittenInv ==
  Unfailed => \A i \in Items : row[i] # NoRow => tags[i] = row[i].tags \/ i \in pend[Scan]

\* What is pending is as it was written, until something fails.
UndisturbedInv == Unfailed => PendingInv

LEMMA InitWrittenInv == Init => WrittenInv /\ UndisturbedInv
<1> SUFFICES ASSUME Init PROVE WrittenInv /\ UndisturbedInv
  OBVIOUS
<1>1. ASSUME NEW i \in Items, row[i] # NoRow
      PROVE  tags[i] = row[i].tags
  <2>1. row[i] = [mtime |-> 1, tags |-> tags[i]]
    BY <1>1 DEF Init
  <2>2. QED
    BY <2>1
<1>2. pend[Scan] = {}
  BY ConstantFacts DEF Init
<1>3. QED
  BY <1>1, <1>2 DEF WrittenInv, UndisturbedInv, PendingInv

LEMMA NextUndisturbedInv ==
  ASSUME Hooks = {}, TypeOK, BatchInv, BatchInv', UndisturbedInv, [Next]_vars
  PROVE  UndisturbedInv'
<1> SUFFICES ASSUME Unfailed' PROVE PendingInv'
  BY DEF UndisturbedInv
<1>1. Unfailed /\ left' = MaxFaults
  BY NoFault DEF Unfailed
<1>2. QED
  BY <1>1, NextPendingInv DEF UndisturbedInv

LEMMA NextWrittenInv ==
  ASSUME Hooks = {}, TypeOK, BatchInv, UndisturbedInv, WrittenInv, [Next]_vars
  PROVE  WrittenInv'
<1> SUFFICES ASSUME Unfailed', NEW i \in Items, row'[i] # NoRow
             PROVE  tags'[i] = row'[i].tags \/ i \in pend'[Scan]
  BY DEF WrittenInv
<1>1. left' = left /\ PendingInv /\ \A f : ~Fault(f)
  BY NoFault DEF UndisturbedInv
<1>2. row[i] # NoRow => tags[i] = row[i].tags \/ i \in pend[Scan]
  BY NoFault DEF WrittenInv
<1>3. ASSUME NEW w \in Workers, NEW j \in Items, Write(w, j)
      PROVE  tags'[i] = row'[i].tags \/ i \in pend'[Scan]
  BY <1>1, <1>2, <1>3, Writes
<1>4. ASSUME NEW w \in Workers, NEW j \in Items, Record(w, j)
      PROVE  tags'[i] = row'[i].tags \/ i \in pend'[Scan]
  <2>1. /\ row'[j] = [mtime |-> mtime[Scan][j], tags |-> Wanted(Scan, j)] /\ tags[j] = Wanted(Scan, j)
        /\ pend'[Scan] = pend[Scan] \ {j} /\ UNCHANGED tags
    BY <1>1, <1>4, Records
  <2>2. i # j => row'[i] = row[i]
    BY <1>1, <1>4, Records
  <2>3. CASE i = j
    BY <2>1, <2>3
  <2>4. CASE i # j
    BY <1>2, <2>1, <2>2, <2>4
  <2>5. QED
    BY <2>3, <2>4
<1>5. ASSUME NEW w \in Workers, ReadBack(w)
      PROVE  tags'[i] = row'[i].tags \/ i \in pend'[Scan]
  BY <1>1, <1>2, <1>5, Reads
<1>6. ASSUME NEW w \in Workers, EndBatch(w)
      PROVE  tags'[i] = row'[i].tags \/ i \in pend'[Scan]
  BY <1>2, <1>6, Alone DEF EndBatch, worldVars, dbVars
<1>7. CASE UNCHANGED <<row, tags, pend>>
  BY <1>2, <1>7
<1>8. CASE \E j \in Items : Undo(j)
  BY <1>1, <1>8 DEF Undo
<1>9. CASE Crash
  BY <1>1, <1>9 DEF Crash
<1>10. QED
  BY <1>1, <1>3, <1>4, <1>5, <1>6, <1>7, <1>8, <1>9, Retries, StepCases
     DEF FileChanges, Unmount, Mount, UserTagsItem, SaveSettings, StartScan, Cancel, Check,
         Collect, StartProbing, ReadCurrent, FinishScan, EndWrites, vars, worldVars, dbVars, jobVars

\* A row holds what was last written to Jellyfin, between two scans and until
\* something fails, for any library, settings and batch size.
THEOREM RowsAreLastWrites == Hooks = {} => (Spec => []RowIsLastWrite)
<1> SUFFICES ASSUME Hooks = {}
             PROVE  Spec => []RowIsLastWrite
  OBVIOUS
<1>1. Init => BatchInv
  BY InitStampInv DEF StampInv
<1>2. TypeOK /\ BatchInv /\ [Next]_vars => BatchInv'
  BY NextBatchInv
<1>3. TypeOK /\ BatchInv /\ BatchInv' /\ UndisturbedInv /\ [Next]_vars => UndisturbedInv'
  BY NextUndisturbedInv
<1>4. TypeOK /\ BatchInv /\ UndisturbedInv /\ WrittenInv /\ [Next]_vars => WrittenInv'
  BY NextWrittenInv
<1>5. BatchInv /\ WrittenInv => RowIsLastWrite
  BY ConstantFacts DEF BatchInv, WrittenInv, RowIsLastWrite, Idle
<1>6. QED
  BY <1>1, <1>2, <1>3, <1>4, <1>5, InitWrittenInv, TypeCorrect, PTL DEF Spec

-----------------------------------------------------------------------------
(* A re-tag that is done.                                                    *)

\* The items a scan still has to tag.
Owed == todo[Scan] \cup queue \cup batch[Scan] \cup pend[Scan]

\* Nothing is left out of an unfailed scan ...
ScanInv ==
  /\ here = Items /\ ~cancelled
  /\ pc[Scan] # "filter" => todo[Scan] = {}
  /\ pc[Scan] # "off" /\ ~full => meta = using[Scan]

\* ... so a row of other settings than the scan's is one it has still to write.
RowsInv ==
  \A i \in Items :
    /\ row[i].mtime <= file[i]
    /\ row[i] # NoRow /\ row[i].mtime = file[i] =>
         IF pc[Scan] = "off"
           THEN row[i].tags.cfg = meta
           ELSE row[i].tags.cfg = using[Scan] \/ (full /\ i \in Owed)

RetagInv == Unfailed => ScanInv /\ RowsInv

LEMMA InitRetagInv == Init => RetagInv
<1> SUFFICES ASSUME Init PROVE ScanInv /\ RowsInv
  BY DEF RetagInv
<1>1. ScanInv
  BY ConstantFacts DEF Init, ScanInv
<1>2. ASSUME NEW i \in Items
      PROVE  /\ row[i].mtime <= file[i]
             /\ row[i] # NoRow => row[i].tags.cfg = meta
  <2>1. file[i] = 1 /\ row[i] = IF tags[i] = NoTags THEN NoRow ELSE [mtime |-> 1, tags |-> tags[i]]
    BY DEF Init
  <2>2. tags[i] = NoTags \/ tags[i] = [cfg |-> 1, ver |-> 1]
    BY DEF Init
  <2>3. row[i] # NoRow => meta = 1
    BY DEF Init
  <2>4. QED
    BY <2>1, <2>2, <2>3 DEF NoRow
<1>3. pc[Scan] = "off"
  BY ConstantFacts DEF Init
<1>4. QED
  BY <1>1, <1>2, <1>3 DEF RowsInv

LEMMA NextScanInv ==
  ASSUME Hooks = {}, TypeOK, BatchInv, UndisturbedInv, RetagInv, [Next]_vars, Unfailed'
  PROVE  ScanInv'
<1> USE ConstantFacts DEF ScanInv
<1>1. /\ here = Items /\ ~cancelled
      /\ pc[Scan] # "filter" => todo[Scan] = {}
      /\ pc[Scan] # "off" /\ ~full => meta = using[Scan]
      /\ \A f : ~Fault(f)
  BY NoFault DEF RetagInv
<1>2. ASSUME NEW incremental \in BOOLEAN, StartScan(incremental)
      PROVE  ScanInv'
  BY <1>1, <1>2 DEF StartScan, TypeOK, dbVars
<1>3. ASSUME NEW i \in Items, Check(i) \/ Collect(i)
      PROVE  ScanInv'
  BY <1>1, <1>3 DEF Check, Collect, worldVars, dbVars, TypeOK
<1>4. CASE StartProbing \/ ReadCurrent
  BY <1>1, <1>4 DEF StartProbing, ReadCurrent, worldVars, dbVars, scanVars, TypeOK
<1>5. CASE FinishScan
  BY <1>1, <1>5 DEF FinishScan, worldVars, TypeOK
<1>6. ASSUME NEW w \in Workers, NEW i \in Items, Write(w, i) \/ Record(w, i)
      PROVE  ScanInv'
  BY <1>1, <1>6 DEF Write, Record, worldVars, dbVars, scanVars
<1>7. ASSUME NEW w \in Workers, EndWrites(w) \/ ReadBack(w) \/ EndBatch(w)
      PROVE  ScanInv'
  <2>1. w = Scan
    BY Alone
  <2>2. pc[Scan] \notin {"off", "filter"}
    BY <1>7, <2>1 DEF EndWrites, ReadBack, EndBatch
  <2>3. UNCHANGED <<here, meta, full, cancelled, todo, using>>
    BY <1>7, <2>1 DEF EndWrites, ReadBack, EndBatch, DropBatch, worldVars, dbVars, scanVars
  <2>4. pc'[Scan] # "filter"
    BY <1>7, <2>1 DEF EndWrites, ReadBack, EndBatch, DropBatch, AfterBatch, TypeOK
  <2>5. QED
    BY <1>1, <2>2, <2>3, <2>4
<1>8. CASE \E i \in Items : Unmount(i) \/ Undo(i)
  BY <1>1, <1>8 DEF Unmount, Undo
<1>9. CASE Cancel \/ Crash
  BY <1>1, <1>9 DEF Cancel, Crash
<1>10. CASE UNCHANGED <<here, meta, full, cancelled, todo, using, pc>>
  BY <1>1, <1>10
<1>11. CASE \E i \in Items : Mount(i)
  BY <1>1, <1>11 DEF Mount
<1>12. QED
  BY <1>2, <1>3, <1>4, <1>5, <1>6, <1>7, <1>8, <1>9, <1>10, <1>11, Retries, NoFault, StepCases
     DEF FileChanges, UserTagsItem, SaveSettings, vars, worldVars, dbVars, scanVars, jobVars,
         UndisturbedInv

\* A step that starts or ends no scan leaves the rows right, as long as it
\* changes no row and takes nothing from what is owed.
LEMMA RowsStay ==
  ASSUME RowsInv, UNCHANGED <<file, row, meta, full>>,
         pc[Scan] # "off" => pc'[Scan] # "off" /\ using'[Scan] = using[Scan] /\ (full => Owed \subseteq Owed'),
         pc[Scan] = "off" => pc'[Scan] = "off"
  PROVE  RowsInv'
BY DEF RowsInv

LEMMA NextRowsInv ==
  ASSUME Hooks = {}, TypeOK, TypeOK', StampInv, UndisturbedInv, RetagInv, [Next]_vars, Unfailed'
  PROVE  RowsInv'
<1>1. /\ ScanInv /\ RowsInv /\ PendingInv /\ left' = left
      /\ \A f : ~Fault(f)
  BY NoFault DEF RetagInv, UndisturbedInv
<1>2. Scan \in Workers
  BY ConstantFacts
<1>3. ASSUME NEW j \in Items, FileChanges(j)
      PROVE  RowsInv'
  <2>1. UNCHANGED <<row, meta, full, pc, using, todo, queue, batch, pend>>
    BY <1>3 DEF FileChanges, dbVars, scanVars, jobVars
  <2>2. \A i \in Items : /\ file[i] \in Int /\ file'[i] \in Int /\ row[i].mtime \in Int
                         /\ file'[i] = file[i] \/ file'[i] = file[i] + 1
    BY <1>3, Numbers, NumbersNext DEF Numeric, FileChanges, TypeOK
  <2>3. Owed' = Owed
    BY <2>1 DEF Owed
  <2>4. ASSUME NEW i \in Items
        PROVE  /\ row[i].mtime <= file'[i]
               /\ row[i].mtime = file'[i] => row[i].mtime = file[i]
    BY <1>1, <2>2 DEF RowsInv
  <2>5. QED
    BY <1>1, <2>1, <2>3, <2>4 DEF RowsInv
<1>4. ASSUME NEW incremental \in BOOLEAN, StartScan(incremental)
      PROVE  RowsInv'
  <2>1. /\ pc[Scan] = "off" /\ pc'[Scan] # "off" /\ using'[Scan] = cfg
        /\ full' = (~incremental \/ meta # cfg)
        /\ todo'[Scan] = Items /\ UNCHANGED <<file, row>>
    BY <1>2, <1>4 DEF StartScan, TypeOK, dbVars
  <2>2. Items \subseteq Owed'
    BY <2>1 DEF Owed
  <2>3. QED
    BY <1>1, <2>1, <2>2 DEF RowsInv
<1>5. ASSUME NEW j \in Items, Check(j)
      PROVE  RowsInv'
  <2>1. /\ todo'[Scan] = todo[Scan] \ {j} /\ queue \subseteq queue'
        /\ full => j \in queue'
        /\ UNCHANGED <<file, row, meta, full, pc, using, batch, pend>>
    BY <1>1, <1>2, <1>5 DEF Check, ScanInv, TypeOK, worldVars, dbVars
  <2>2. full => Owed \subseteq Owed'
    BY <2>1 DEF Owed
  <2>3. QED
    BY <1>1, <2>1, <2>2, RowsStay
<1>6. ASSUME NEW j \in Items, Collect(j)
      PROVE  RowsInv'
  <2>1. /\ queue' = queue \ {j} /\ batch'[Scan] = batch[Scan] \cup {j}
        /\ UNCHANGED <<file, row, meta, full, pc, using, todo, pend>>
    BY <1>1, <1>6, Collects DEF ScanInv
  <2>2. Owed \subseteq Owed'
    BY <2>1 DEF Owed
  <2>3. QED
    BY <1>1, <2>1, <2>2, RowsStay
<1>7. ASSUME NEW w \in Workers, NEW j \in Items, Write(w, j)
      PROVE  RowsInv'
  <2>1. /\ batch'[Scan] = batch[Scan] \ {j} /\ pend'[Scan] = pend[Scan] \cup {j}
        /\ UNCHANGED <<file, row, meta, full, pc, using, todo, queue>>
    BY <1>1, <1>7, Writes
  <2>2. Owed \subseteq Owed'
    BY <2>1 DEF Owed
  <2>3. QED
    BY <1>1, <2>1, <2>2, RowsStay
<1>8. ASSUME NEW w \in Workers, NEW j \in Items, Record(w, j)
      PROVE  RowsInv'
  <2>1. /\ pc[Scan] = "record"
        /\ row'[j] = [mtime |-> mtime[Scan][j], tags |-> Wanted(Scan, j)]
        /\ pend'[Scan] = pend[Scan] \ {j}
        /\ UNCHANGED <<file, meta, full, pc, using, todo, queue, batch>>
    BY <1>1, <1>8, Records
  <2>2. \A i \in Items \ {j} : row'[i] = row[i]
    BY <1>1, <1>8, Records
  <2>3. row'[j].mtime <= file[j] /\ row'[j].tags.cfg = using[Scan]
    BY <1>2, <2>1 DEF Wanted, StampInv, MtimeInv
  <2>4. \A i \in Items \ {j} : i \in Owed => i \in Owed'
    BY <2>1 DEF Owed
  <2>5. ASSUME NEW i \in Items \ {j}
        PROVE  /\ row'[i].mtime <= file'[i]
               /\ row'[i] # NoRow /\ row'[i].mtime = file'[i] =>
                    row'[i].tags.cfg = using'[Scan] \/ (full' /\ i \in Owed')
    BY <1>1, <2>1, <2>2, <2>4 DEF RowsInv
  <2>6. QED
    BY <2>1, <2>3, <2>5 DEF RowsInv
<1>9. ASSUME NEW w \in Workers, EndWrites(w) \/ ReadBack(w) \/ EndBatch(w)
      PROVE  RowsInv'
  <2>1. w = Scan
    BY Alone
  <2>2. CASE EndWrites(Scan)
    <3>1. /\ UNCHANGED <<file, row, meta, full, using, todo, queue, batch, pend>>
          /\ pc[Scan] # "off" /\ pc'[Scan] # "off"
      BY <1>2, <2>2 DEF EndWrites, TypeOK, worldVars, dbVars, scanVars
    <3>2. QED
      BY <1>1, <3>1, RowsStay DEF Owed
  <2>3. CASE ReadBack(Scan)
    <3>1. /\ UNCHANGED <<file, row, meta, full, using, todo, queue, batch>>
          /\ pend'[Scan] = pend[Scan] /\ pc[Scan] # "off" /\ pc'[Scan] # "off"
      BY <1>1, <1>2, <2>3, Reads
    <3>2. QED
      BY <1>1, <3>1, RowsStay DEF Owed
  <2>4. CASE EndBatch(Scan)
    <3>1. /\ UNCHANGED <<file, row, meta, full, todo, queue, batch>> /\ using'[Scan] = using[Scan]
          /\ pend[Scan] = {} /\ pend'[Scan] = {} /\ pc[Scan] # "off" /\ pc'[Scan] # "off"
      BY <1>2, <2>4 DEF EndBatch, DropBatch, AfterBatch, TypeOK, worldVars, dbVars, scanVars
    <3>2. QED
      BY <1>1, <3>1, RowsStay DEF Owed
  <2>5. QED
    BY <1>9, <2>1, <2>2, <2>3, <2>4
<1>10. CASE StartProbing \/ ReadCurrent
  <2>1. /\ UNCHANGED <<file, row, meta, full, using, todo, queue, batch, pend>>
        /\ pc[Scan] # "off" /\ pc'[Scan] # "off"
    BY <1>2, <1>10 DEF StartProbing, ReadCurrent, TypeOK, worldVars, dbVars, scanVars
  <2>2. QED
    BY <1>1, <2>1, RowsStay DEF Owed
<1>11. CASE FinishScan
  <2>1. pc[Scan] = "probe" /\ queue = {} /\ batch[Scan] = {}
    BY <1>1, <1>11 DEF FinishScan, ScanInv, ScanOver
  <2>2. Owed = {}
    BY <1>1, <1>2, <2>1 DEF Owed, ScanInv, StampInv, BatchInv
  <2>3. meta' = using[Scan] /\ pc'[Scan] = "off" /\ UNCHANGED <<file, row>>
    BY <1>2, <1>11 DEF FinishScan, TypeOK, worldVars
  <2>4. QED
    BY <1>1, <2>1, <2>2, <2>3 DEF RowsInv
<1>12. CASE \E i \in Items : Unmount(i) \/ Undo(i)
  BY <1>1, <1>12 DEF Unmount, Undo
<1>13. CASE Cancel \/ Crash
  BY <1>1, <1>13 DEF Cancel, Crash
<1>14. CASE UNCHANGED <<file, row, meta, full, pc, using, todo, queue, batch, pend>>
  BY <1>1, <1>14, RowsStay DEF Owed
<1>15. QED
  BY <1>1, <1>3, <1>4, <1>5, <1>6, <1>7, <1>8, <1>9, <1>10, <1>11, <1>12, <1>13, <1>14, Retries, StepCases
     DEF Mount, UserTagsItem, SaveSettings, vars, worldVars, dbVars, scanVars, jobVars, StampInv

\* Settings saved while a scan is at work, or changed and changed back, are
\* never taken for applied: with nothing failed, a stored hash of the current
\* settings means that no unchanged file keeps tags of others.
THEOREM RetagIsNeverForgotten == Hooks = {} => (Spec => []RetagIsDone)
<1> SUFFICES ASSUME Hooks = {}
             PROVE  Spec => []RetagIsDone
  OBVIOUS
<1>1. TypeOK /\ StampInv /\ [Next]_vars => StampInv'
  BY NextBatchInv, NextMtimeInv, NextProbeInv DEF StampInv
<1>2. TypeOK /\ StampInv /\ StampInv' /\ UndisturbedInv /\ [Next]_vars => UndisturbedInv'
  BY NextUndisturbedInv DEF StampInv
<1>3. TypeOK /\ TypeOK' /\ StampInv /\ UndisturbedInv /\ RetagInv /\ [Next]_vars => RetagInv'
  BY NextScanInv, NextRowsInv DEF StampInv, RetagInv
<1>4. TypeOK /\ RetagInv => RetagIsDone
  BY DEF TypeOK, RetagInv, RowsInv, RetagIsDone, NoRetagIsOwed
<1>5. QED
  BY <1>1, <1>2, <1>3, <1>4, InitStampInv, InitWrittenInv, InitRetagInv, TypeCorrect, PTL DEF Spec
=============================================================================
