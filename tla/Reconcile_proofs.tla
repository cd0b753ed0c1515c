-------------------------- MODULE Reconcile_proofs --------------------------
(***************************************************************************)
(* Proofs about Reconcile, for any items, tags, threshold and batch size.  *)
(***************************************************************************)
EXTENDS Reconcile, FiniteSetTheorems, TLAPS

LEMMA ConstantFacts ==
  /\ 0 \in 0..MaxVer /\ 1 \in 1..MaxVer /\ 1..MaxVer \subseteq 0..MaxVer
  /\ \A v \in 1..MaxVer : TagsOf[v] \in SUBSET Tags /\ TagsOf[v] # {}
  /\ \A v \in 1..MaxVer : [ver |-> v, tags |-> TagsOf[v]] \in Rows
  /\ \A r \in Rows : r.tags \in SUBSET Tags
  /\ Nothing \in [Items -> SUBSET Tags]
BY ConstantsAssumption DEF Rows, Nothing

\* The steps, one disjunct per action.
LEMMA StepCases ==
  ASSUME [Next]_vars
  PROVE  \/ \E i \in Items : FileChanges(i) \/ HealthChanges(i)
         \/ Lose \/ ClearErrors
         \/ \E isFull \in BOOLEAN : StartScan(isFull)
         \/ \E i \in Items : ScanItem(i) \/ Webhook(i)
         \/ EndScan \/ FailScan \/ Cancel
         \/ \E by \in {"scheduled", "manual"} : StartPass(by)
         \/ ReadTags \/ EndReads \/ Decide \/ ReadWhole
         \/ \E i \in Items : WriteOne(i) \/ RetryOne(i)
         \/ ReadBack \/ EndWrites \/ StoreReport \/ Finish \/ FailFinish \/ Raise \/ Restart
         \/ UNCHANGED vars
BY DEF Next, World, ScanStep, PassStep

LEMMA FaultTypeOK ==
  ASSUME TypeOK, NEW f, Fault(f) \/ UNCHANGED luck
  PROVE  left' \in 0..MaxFaults /\ struck' \subseteq Forgetful
BY ConstantsAssumption DEF TypeOK, Fault, luck

LEMMA WorldTypeOK ==
  ASSUME TypeOK,
         \/ \E i \in Items : FileChanges(i) \/ HealthChanges(i)
         \/ Lose \/ ClearErrors
  PROVE  TypeOK'
<1> USE ConstantsAssumption DEF TypeOK, luck, told, passVars, Fault
<1>1. ASSUME NEW i \in Items, FileChanges(i)
      PROVE  TypeOK'
  BY <1>1 DEF FileChanges
<1>2. ASSUME NEW i \in Items, HealthChanges(i)
      PROVE  TypeOK'
  <2>1. health' \in [Items -> {"ok", "missing", "unreadable"}]
    BY <1>2 DEF HealthChanges
  <2>2. left' \in 0..MaxFaults /\ struck' \subseteq Forgetful
    BY <1>2, FaultTypeOK DEF HealthChanges
  <2>3. QED
    BY <1>2, <2>1, <2>2 DEF HealthChanges
<1>3. CASE Lose
  BY <1>3 DEF Lose
<1>4. CASE ClearErrors
  BY <1>4 DEF ClearErrors
<1>5. QED
  BY <1>1, <1>2, <1>3, <1>4

\* Tagging an item, by whoever does it.
LEMMA TaggedTypeOK ==
  ASSUME TypeOK, NEW i \in Items, Tagged(i)
  PROVE  /\ tags' \in [Items -> SUBSET Tags]
         /\ row' \in [Items -> Rows]
         /\ errors' \in SUBSET Items
         /\ left' \in 0..MaxFaults /\ struck' \subseteq Forgetful
<1> USE DEF TypeOK
<1>1. TagsOf[file[i]] \in SUBSET Tags /\ Built(i) \in Rows
  BY ConstantFacts DEF Built
<1>2. QED
  BY <1>1, FaultTypeOK DEF Tagged, Fault

LEMMA ScanTypeOK ==
  ASSUME TypeOK,
         \/ \E isFull \in BOOLEAN : StartScan(isFull)
         \/ \E i \in Items : ScanItem(i) \/ Webhook(i)
         \/ EndScan \/ FailScan \/ Cancel
  PROVE  TypeOK'
<1> USE DEF TypeOK, luck, told, passVars
<1>1. ASSUME NEW isFull \in BOOLEAN, StartScan(isFull)
      PROVE  TypeOK'
  BY <1>1 DEF StartScan
<1>2. ASSUME NEW i \in Items, ScanItem(i)
      PROVE  TypeOK'
  <2>1. /\ tags' \in [Items -> SUBSET Tags]
        /\ row' \in [Items -> Rows]
        /\ errors' \in SUBSET Items
        /\ left' \in 0..MaxFaults /\ struck' \subseteq Forgetful
        /\ failing' \in SUBSET Items
    <3>1. ASSUME Fault("process"), UNCHANGED tags \/ tags' = [tags EXCEPT ![i] = TagsOf[file[i]]],
                 errors' = errors \cup {i}, UNCHANGED row
          PROVE  /\ tags' \in [Items -> SUBSET Tags]
                 /\ row' \in [Items -> Rows]
                 /\ errors' \in SUBSET Items
                 /\ left' \in 0..MaxFaults /\ struck' \subseteq Forgetful
      BY <3>1, FaultTypeOK, ConstantFacts
    <3>2. QED
      BY <1>2, <3>1, TaggedTypeOK DEF ScanItem
  <2>2. QED
    BY <1>2, <2>1 DEF ScanItem
<1>3. ASSUME NEW i \in Items, Webhook(i)
      PROVE  TypeOK'
  <2>1. /\ tags' \in [Items -> SUBSET Tags]
        /\ row' \in [Items -> Rows]
        /\ errors' \in SUBSET Items
        /\ left' \in 0..MaxFaults /\ struck' \subseteq Forgetful
    BY <1>3, TaggedTypeOK DEF Webhook
  <2>2. QED
    BY <1>3, <2>1 DEF Webhook
<1>4. CASE EndScan
  BY <1>4 DEF EndScan
<1>5. CASE FailScan
  BY <1>5, FaultTypeOK DEF FailScan
<1>6. CASE Cancel
  BY <1>6, FaultTypeOK DEF Cancel
<1>7. QED
  BY <1>1, <1>2, <1>3, <1>4, <1>5, <1>6

\* A batch is taken from what it is a batch of.
LEMMA BatchesAreSubsets ==
  ASSUME NEW s, NEW b \in Batches(s)
  PROVE  b \subseteq s
BY DEF Batches

LEMMA PassTypeOK ==
  ASSUME TypeOK,
         \/ \E by \in {"scheduled", "manual"} : StartPass(by)
         \/ ReadTags \/ EndReads \/ Decide \/ ReadWhole
         \/ \E i \in Items : WriteOne(i) \/ RetryOne(i)
         \/ ReadBack \/ EndWrites \/ StoreReport \/ Finish \/ FailFinish \/ Raise \/ Restart
  PROVE  TypeOK'
<1> USE ConstantFacts DEF TypeOK, luck, told
<1>1. ASSUME NEW by \in {"scheduled", "manual"}, StartPass(by)
      PROVE  TypeOK'
  <2>1. tracked' \in [Items -> SUBSET Tags] /\ todo' \in SUBSET Items
    BY <1>1 DEF StartPass
  <2>2. QED
    BY <1>1, <2>1 DEF StartPass
<1>2. CASE ReadTags
  <2>1. PICK b \in Batches(todo) :
          /\ todo' = todo \ b
          /\ cands' = cands \cup {i \in b : LostAll(tracked[i], tags[i])}
          /\ tracked' = [i \in Items |-> IF i \in b \ cands' THEN {} ELSE tracked[i]]
    BY <1>2 DEF ReadTags
  <2>2. b \subseteq Items
    BY BatchesAreSubsets
  <2>3. todo' \in SUBSET Items /\ cands' \in SUBSET Items /\ tracked' \in [Items -> SUBSET Tags]
    BY <2>1, <2>2
  <2>4. QED
    BY <1>2, <2>3 DEF ReadTags
<1>3. CASE EndReads
  BY <1>3 DEF EndReads
<1>4. CASE Decide
  BY <1>4 DEF Decide
<1>5. CASE ReadWhole
  <2>1. PICK b \in Batches(todo) :
          /\ todo' = todo \ b
          /\ \/ /\ chunk' = b
                /\ copy' = [i \in Items |-> IF i \in b THEN tags[i] ELSE {}]
                /\ pc' = "chunk"
                /\ UNCHANGED luck
             \/ /\ Fault("read")
                /\ UNCHANGED <<pc, chunk, copy>>
    BY <1>5 DEF ReadWhole
  <2>2. b \subseteq Items
    BY <2>1, BatchesAreSubsets
  <2>3. chunk' \in SUBSET Items /\ copy' \in [Items -> SUBSET Tags] /\ left' \in 0..MaxFaults /\ struck' \subseteq Forgetful
    BY <2>1, <2>2, FaultTypeOK
  <2>4. QED
    BY <1>5, <2>1, <2>2, <2>3 DEF ReadWhole
<1>6. ASSUME NEW i \in Items, WriteOne(i)
      PROVE  TypeOK'
  <2>1. Restored(i) \in SUBSET Tags
    BY DEF Restored
  <2>2. tags' \in [Items -> SUBSET Tags] /\ left' \in 0..MaxFaults /\ struck' \subseteq Forgetful
    BY <1>6, <2>1, FaultTypeOK DEF WriteOne
  <2>3. QED
    BY <1>6, <2>2 DEF WriteOne
<1>7. ASSUME NEW i \in Items, RetryOne(i)
      PROVE  TypeOK'
  <2>1. Restored(i) \in SUBSET Tags
    BY DEF Restored
  <2>2. tags' \in [Items -> SUBSET Tags] /\ left' \in 0..MaxFaults /\ struck' \subseteq Forgetful
    BY <1>7, <2>1, FaultTypeOK DEF RetryOne
  <2>3. QED
    BY <1>7, <2>2 DEF RetryOne
<1>8. CASE ReadBack
  <2>1. pend' \in SUBSET Items /\ copy' \in [Items -> SUBSET Tags] /\ left' \in 0..MaxFaults /\ struck' \subseteq Forgetful
    BY <1>8, FaultTypeOK DEF ReadBack
  <2>2. QED
    BY <1>8, <2>1 DEF ReadBack
<1>9. CASE EndWrites
  BY <1>9 DEF EndWrites
<1>10. CASE StoreReport
  <2>1. Outcome \in {"calm", "halted", "cancelled"}
    BY DEF Outcome
  <2>2. report' \in {"calm", "halted", "cancelled"} /\ outcome' \in {"calm", "halted", "cancelled"}
    BY <1>10, <2>1 DEF StoreReport
  <2>3. owed' \in BOOLEAN
    BY <1>10 DEF StoreReport
  <2>4. QED
    BY <1>10, <2>2, <2>3 DEF StoreReport, PassOver
<1>11. CASE Finish
  BY <1>11 DEF Finish, PassOver
<1>12. CASE FailFinish
  BY <1>12, FaultTypeOK DEF FailFinish, PassOver
<1>13. CASE Raise
  BY <1>13, FaultTypeOK DEF Raise, PassOver
<1>14. CASE Restart
  BY <1>14, FaultTypeOK DEF Restart, PassOver
<1>15. QED
  BY <1>1, <1>2, <1>3, <1>4, <1>5, <1>6, <1>7, <1>8, <1>9, <1>10, <1>11, <1>12, <1>13, <1>14

\* Rows, tags and the pass's own state keep their types.
THEOREM TypeCorrect == Spec => []TypeOK
<1>1. Init => TypeOK
  <2> SUFFICES ASSUME Init
               PROVE  TypeOK
    OBVIOUS
  <2>1. \A i \in Items : file[i] = 1
    BY DEF Init
  <2>2. row \in [Items -> Rows] /\ tags \in [Items -> SUBSET Tags]
    BY <2>1, ConstantFacts DEF Init, Built
  <2>3. file \in [Items -> 1..MaxVer] /\ left \in 0..MaxFaults
    BY ConstantFacts, ConstantsAssumption DEF Init
  <2>4. tracked \in [Items -> SUBSET Tags] /\ copy \in [Items -> SUBSET Tags]
    BY ConstantFacts DEF Init
  <2>5. QED
    BY <2>2, <2>3, <2>4 DEF Init, TypeOK
<1>2. TypeOK /\ [Next]_vars => TypeOK'
  <2> SUFFICES ASSUME TypeOK, [Next]_vars
               PROVE  TypeOK'
    OBVIOUS
  <2>1. CASE UNCHANGED vars
    BY <2>1 DEF vars, luck, told, passVars, TypeOK
  <2>2. QED
    BY <2>1, StepCases, WorldTypeOK, ScanTypeOK, PassTypeOK
<1>3. QED
  BY <1>1, <1>2, PTL DEF Spec
-----------------------------------------------------------------------------
(* The pass holds the lock from its first step to its last, and what it is   *)
(* writing is there only while it writes.                                    *)

StageInv ==
  /\ pc # "off" <=> lock = "pass"
  /\ pc = "off" => wrote = {} /\ cands = {}
  /\ chunk # {} => pc = "chunk"
  /\ pend # {} => pc \in {"chunk", "retry"}

LEMMA InitStageInv == Init => StageInv
BY DEF Init, StageInv

LEMMA NextStageInv ==
  ASSUME TypeOK, StageInv, [Next]_vars
  PROVE  StageInv'
<1> USE DEF TypeOK, StageInv, luck, passVars
<1>1. ASSUME NEW i \in Items, FileChanges(i) \/ HealthChanges(i)
      PROVE  StageInv'
  BY <1>1 DEF FileChanges, HealthChanges
<1>2. CASE Lose \/ ClearErrors \/ EndScan \/ FailScan \/ Cancel
  BY <1>2 DEF Lose, ClearErrors, EndScan, FailScan, Cancel
<1>3. ASSUME NEW isFull \in BOOLEAN, StartScan(isFull)
      PROVE  StageInv'
  BY <1>3 DEF StartScan
<1>4. ASSUME NEW i \in Items, ScanItem(i) \/ Webhook(i)
      PROVE  StageInv'
  BY <1>4 DEF ScanItem, Webhook
<1>5. ASSUME NEW by \in {"scheduled", "manual"}, StartPass(by)
      PROVE  StageInv'
  BY <1>5 DEF StartPass
<1>6. CASE ReadTags \/ EndReads \/ Decide \/ EndWrites
  BY <1>6 DEF ReadTags, EndReads, Decide, EndWrites
<1>7. CASE ReadWhole
  BY <1>7 DEF ReadWhole
<1>8. ASSUME NEW i \in Items, WriteOne(i) \/ RetryOne(i)
      PROVE  StageInv'
  BY <1>8 DEF WriteOne, RetryOne
<1>9. CASE ReadBack
  BY <1>9 DEF ReadBack
<1>10. CASE StoreReport \/ Finish \/ FailFinish \/ Raise \/ Restart
  BY <1>10 DEF StoreReport, Finish, FailFinish, Raise, Restart, PassOver
<1>11. CASE UNCHANGED vars
  BY <1>11 DEF vars
<1>12. QED
  BY <1>1, <1>2, <1>3, <1>4, <1>5, <1>6, <1>7, <1>8, <1>9, <1>10, <1>11, StepCases

-----------------------------------------------------------------------------
(* The threshold is held against the candidates, so the invariant follows    *)
(* them: a pass that writes was not over it, and writes candidates only.     *)

HaltInv ==
  /\ pc \in {"read", "plan"} => wrote = {}
  /\ pc \in {"write", "chunk", "retry"} => ~TooMany /\ todo \subseteq cands /\ chunk \subseteq cands
  /\ wrote # {} => ~TooMany /\ wrote \subseteq cands

LEMMA NextHaltInv ==
  ASSUME TypeOK, StageInv, HaltInv, [Next]_vars
  PROVE  HaltInv'
<1> USE DEF TypeOK, StageInv, HaltInv, TooMany, luck, passVars
<1>1. ASSUME NEW i \in Items, FileChanges(i) \/ HealthChanges(i)
      PROVE  HaltInv'
  BY <1>1 DEF FileChanges, HealthChanges
<1>2. CASE Lose \/ ClearErrors \/ EndScan \/ FailScan \/ Cancel
  BY <1>2 DEF Lose, ClearErrors, EndScan, FailScan, Cancel
<1>3. ASSUME NEW isFull \in BOOLEAN, StartScan(isFull)
      PROVE  HaltInv'
  BY <1>3 DEF StartScan
<1>4. ASSUME NEW i \in Items, ScanItem(i) \/ Webhook(i)
      PROVE  HaltInv'
  BY <1>4 DEF ScanItem, Webhook
<1>5. ASSUME NEW by \in {"scheduled", "manual"}, StartPass(by)
      PROVE  HaltInv'
  BY <1>5 DEF StartPass
<1>6. CASE ReadTags \/ EndReads
  BY <1>6 DEF ReadTags, EndReads
<1>7. CASE Decide \/ EndWrites
  BY <1>7 DEF Decide, EndWrites
<1>8. CASE ReadWhole
  BY <1>8, BatchesAreSubsets DEF ReadWhole
<1>9. ASSUME NEW i \in Items, WriteOne(i) \/ RetryOne(i)
      PROVE  HaltInv'
  BY <1>9 DEF WriteOne, RetryOne
<1>10. CASE ReadBack
  BY <1>10 DEF ReadBack
<1>11. CASE StoreReport \/ Finish \/ FailFinish \/ Raise \/ Restart
  BY <1>11 DEF StoreReport, Finish, FailFinish, Raise, Restart, PassOver
<1>12. CASE UNCHANGED vars
  BY <1>12 DEF vars
<1>13. QED
  BY <1>1, <1>2, <1>3, <1>4, <1>5, <1>6, <1>7, <1>8, <1>9, <1>10, <1>11, <1>12, StepCases

LEMMA HaltInvImplies ==
  ASSUME TypeOK, HaltInv
  PROVE  HaltHolds
<1> SUFFICES ASSUME trigger = "scheduled"
             PROVE  Cardinality(wrote) <= Threshold
  BY DEF HaltHolds
<1>1. Threshold \in Nat
  BY ConstantsAssumption
<1>2. CASE wrote = {}
  BY <1>1, <1>2, FS_EmptySet
<1>3. CASE wrote # {}
  <2>1. wrote \subseteq cands /\ ~(Cardinality(cands) > Threshold)
    BY <1>3 DEF HaltInv, TooMany
  <2>2. IsFiniteSet(cands)
    BY ConstantsAssumption, FS_Subset DEF TypeOK
  <2>3. IsFiniteSet(wrote) /\ Cardinality(wrote) <= Cardinality(cands)
    BY <2>1, <2>2, FS_Subset
  <2>4. Cardinality(wrote) \in Nat /\ Cardinality(cands) \in Nat
    BY <2>2, <2>3, FS_CardinalityType
  <2>5. QED
    BY <1>1, <2>1, <2>3, <2>4
<1>4. QED
  BY <1>2, <1>3

\* A scheduled pass never writes more items than the threshold, whatever is
\* lost, found, tagged or cancelled while it works.
THEOREM HaltIsObeyed == Spec => []HaltHolds
<1>1. Init => StageInv /\ HaltInv
  BY InitStageInv DEF Init, HaltInv
<1>2. TypeOK /\ StageInv /\ HaltInv /\ [Next]_vars => StageInv' /\ HaltInv'
  BY NextStageInv, NextHaltInv
<1>3. TypeOK /\ HaltInv => HaltHolds
  BY HaltInvImplies
<1>4. QED
  BY <1>1, <1>2, <1>3, TypeCorrect, PTL DEF Spec
-----------------------------------------------------------------------------
(* While the pass holds the lock only a webhook's task gives an item managed *)
(* tags besides it: what the pass read of the others can only have been lost *)
(* since.                                                                    *)

CopyInv ==
  /\ \A i \in chunk \ hooked : tags[i] \subseteq copy[i]
  /\ \A i \in pend \ hooked : tags[i] \subseteq copy[i] \cup tracked[i]

LEMMA NextCopyInv ==
  ASSUME TypeOK, StageInv, CopyInv, [Next]_vars
  PROVE  CopyInv'
<1> USE DEF TypeOK, StageInv, CopyInv, luck, passVars
<1>1. ASSUME NEW i \in Items, FileChanges(i) \/ HealthChanges(i)
      PROVE  CopyInv'
  BY <1>1 DEF FileChanges, HealthChanges
<1>2. CASE Lose \/ ClearErrors \/ EndScan \/ FailScan \/ Cancel
  BY <1>2 DEF Lose, ClearErrors, EndScan, FailScan, Cancel
<1>3. ASSUME NEW isFull \in BOOLEAN, StartScan(isFull)
      PROVE  CopyInv'
  BY <1>3 DEF StartScan
<1>4. ASSUME NEW i \in Items, ScanItem(i) \/ Webhook(i)
      PROVE  CopyInv'
  <2>1. CASE ScanItem(i)
    <3>1. chunk = {} /\ pend = {} /\ chunk' = {} /\ pend' = {}
      BY <2>1 DEF ScanItem
    <3>2. QED
      BY <3>1
  <2>2. CASE Webhook(i)
    <3>1. UNCHANGED <<chunk, pend, copy, tracked>> /\ hooked' = hooked \cup ({i} \cap (chunk \cup pend))
      BY <2>2 DEF Webhook
    <3>2. \A j \in Items \ {i} : tags'[j] = tags[j]
      BY <2>2 DEF Webhook, Tagged
    <3>3. QED
      BY <3>1, <3>2
  <2>3. QED
    BY <1>4, <2>1, <2>2
<1>5. ASSUME NEW by \in {"scheduled", "manual"}, StartPass(by)
      PROVE  CopyInv'
  <2>1. chunk' = {} /\ pend' = {}
    BY <1>5 DEF StartPass
  <2>2. QED
    BY <2>1
<1>6. CASE ReadTags \/ EndReads \/ Decide \/ EndWrites
  BY <1>6 DEF ReadTags, EndReads, Decide, EndWrites
<1>7. CASE ReadWhole
  <2>1. pend' = {} /\ chunk = {} /\ UNCHANGED tags
    BY <1>7 DEF ReadWhole
  <2>2. \A i \in chunk' : copy'[i] = tags[i]
    <3>1. PICK b \in Batches(todo) :
            \/ /\ chunk' = b
               /\ copy' = [i \in Items |-> IF i \in b THEN tags[i] ELSE {}]
            \/ UNCHANGED <<pc, chunk, copy>>
      BY <1>7 DEF ReadWhole
    <3>2. b \subseteq Items
      BY BatchesAreSubsets
    <3>3. QED
      BY <2>1, <3>1, <3>2
  <2>3. QED
    BY <2>1, <2>2
<1>8. ASSUME NEW i \in Items, WriteOne(i) \/ RetryOne(i)
      PROVE  CopyInv'
  BY <1>8 DEF WriteOne, RetryOne, Restored
<1>9. CASE ReadBack
  BY <1>9 DEF ReadBack
<1>10. CASE StoreReport \/ Finish \/ FailFinish \/ Raise \/ Restart
  BY <1>10 DEF StoreReport, Finish, FailFinish, Raise, Restart, PassOver
<1>11. CASE UNCHANGED vars
  BY <1>11 DEF vars
<1>12. QED
  BY <1>1, <1>2, <1>3, <1>4, <1>5, <1>6, <1>7, <1>8, <1>9, <1>10, <1>11, StepCases

\* A step of the pass that leaves an item written, or leaves it alone, takes
\* no managed tag from it.
LEMMA AddsBackStep ==
  ASSUME TypeOK, StageInv, CopyInv, [Next]_vars,
         NEW i \in ((chunk \ chunk') \cup (pend \ pend')) \ hooked
  PROVE  tags[i] \subseteq tags'[i]
<1> USE DEF TypeOK, StageInv, CopyInv, luck, passVars
<1>1. ASSUME NEW j \in Items, WriteOne(j) \/ RetryOne(j)
      PROVE  tags[i] \subseteq tags'[i]
  BY <1>1 DEF WriteOne, RetryOne, Restored
<1>2. CASE ReadTags \/ EndReads \/ Decide \/ ReadWhole \/ ReadBack \/ EndWrites
  BY <1>2 DEF ReadTags, EndReads, Decide, ReadWhole, ReadBack, EndWrites
<1>3. CASE StoreReport \/ Finish \/ FailFinish \/ Raise \/ Restart
  BY <1>3 DEF StoreReport, Finish, FailFinish, Raise, Restart
<1>4. ASSUME \/ \E j \in Items : FileChanges(j) \/ HealthChanges(j)
             \/ Lose \/ ClearErrors
             \/ \E isFull \in BOOLEAN : StartScan(isFull)
             \/ \E j \in Items : ScanItem(j) \/ Webhook(j)
             \/ EndScan \/ FailScan \/ Cancel
             \/ \E by \in {"scheduled", "manual"} : StartPass(by)
             \/ UNCHANGED vars
      PROVE  UNCHANGED <<chunk, pend>>
  BY <1>4 DEF FileChanges, HealthChanges, Lose, ClearErrors, StartScan, ScanItem, Webhook,
              EndScan, FailScan, Cancel, StartPass, vars
<1>5. QED
  BY <1>1, <1>2, <1>3, <1>4, StepCases

\* The pass only ever adds managed tags to what Jellyfin carries, in the write
\* and in the retry alike, on every item that no webhook's task has tagged since
\* its batch was re-read.
THEOREM PassOnlyAdds == Spec => OnlyAddsBack
<1>1. Init => StageInv /\ CopyInv
  BY InitStageInv DEF Init, CopyInv
<1>2. TypeOK /\ StageInv /\ CopyInv /\ [Next]_vars => StageInv' /\ CopyInv'
  BY NextStageInv, NextCopyInv
<1>3. TypeOK /\ StageInv /\ CopyInv /\ [Next]_vars =>
        [\A i \in Items : i \in ((chunk \ chunk') \cup (pend \ pend')) \ hooked => tags[i] \subseteq tags'[i]]_vars
  BY AddsBackStep
<1>4. QED
  BY <1>1, <1>2, <1>3, TypeCorrect, PTL DEF Spec, OnlyAddsBack
-----------------------------------------------------------------------------
(* Nothing forgets an error before its time: no run is cancelled, the        *)
(* process does not restart and nobody clears the list.  Then an item that   *)
(* fails has its error, or a full scan that began by clearing the list is    *)
(* still going to reach it.                                                  *)

Undisturbed == struck = {}

Uncancelled == "cancel" \notin struck => ~cancelled

ErrorsInv ==
  Undisturbed =>
    /\ failing \subseteq errors \cup (IF lock = "scan" /\ full THEN todo ELSE {})
    /\ lock = "pass" => \A i \in Items : tracked[i] # {} => i \notin failing

LEMMA NextUncancelled ==
  ASSUME Uncancelled, [Next]_vars
  PROVE  Uncancelled'
<1> USE DEF Uncancelled, luck, passVars, Fault, Forgetful
<1>1. CASE UNCHANGED vars
  BY <1>1 DEF vars
<1>2. ASSUME NEW i \in Items, ScanItem(i) \/ Webhook(i)
      PROVE  Uncancelled'
  BY <1>2 DEF ScanItem, Webhook, Tagged
<1>3. ASSUME NEW i \in Items, WriteOne(i) \/ RetryOne(i)
      PROVE  Uncancelled'
  BY <1>3 DEF WriteOne, RetryOne
<1>4. CASE ReadWhole \/ ReadBack
  BY <1>4 DEF ReadWhole, ReadBack
<1>5. QED
  BY <1>1, <1>2, <1>3, <1>4, StepCases
     DEF FileChanges, HealthChanges, Lose, ClearErrors, StartScan, EndScan, FailScan, Cancel, StartPass,
         ReadTags, EndReads, Decide, EndWrites, StoreReport, Finish, FailFinish, Raise, Restart

LEMMA NextErrorsInv ==
  ASSUME TypeOK, StageInv, Uncancelled, ErrorsInv, [Next]_vars
  PROVE  ErrorsInv'
<1> USE DEF TypeOK, StageInv, Uncancelled, ErrorsInv, Undisturbed, luck, passVars, Fault, Forgetful
<1>1. ASSUME NEW i \in Items, FileChanges(i) \/ HealthChanges(i)
      PROVE  ErrorsInv'
  BY <1>1 DEF FileChanges, HealthChanges
<1>2. CASE Lose \/ ClearErrors \/ EndScan \/ FailScan \/ Cancel
  BY <1>2 DEF Lose, ClearErrors, EndScan, FailScan, Cancel
<1>3. ASSUME NEW isFull \in BOOLEAN, StartScan(isFull)
      PROVE  ErrorsInv'
  BY <1>3 DEF StartScan
<1>4. ASSUME NEW i \in Items, ScanItem(i)
      PROVE  ErrorsInv'
  BY <1>4 DEF ScanItem, Tagged
<1>5. ASSUME NEW i \in Items, Webhook(i)
      PROVE  ErrorsInv'
  BY <1>5 DEF Webhook, Tagged
<1>6. ASSUME NEW by \in {"scheduled", "manual"}, StartPass(by)
      PROVE  ErrorsInv'
  BY <1>6 DEF StartPass, Reachable
<1>7. CASE ReadTags \/ EndReads \/ Decide \/ EndWrites
  BY <1>7 DEF ReadTags, EndReads, Decide, EndWrites
<1>8. CASE ReadWhole
  BY <1>8 DEF ReadWhole
<1>9. ASSUME NEW i \in Items, WriteOne(i) \/ RetryOne(i)
      PROVE  ErrorsInv'
  BY <1>9 DEF WriteOne, RetryOne
<1>10. CASE ReadBack
  BY <1>10 DEF ReadBack
<1>11. CASE StoreReport \/ Finish \/ FailFinish \/ Raise \/ Restart
  BY <1>11 DEF StoreReport, Finish, FailFinish, Raise, Restart, PassOver, Nothing
<1>12. CASE UNCHANGED vars
  BY <1>12 DEF vars
<1>13. QED
  BY <1>1, <1>2, <1>3, <1>4, <1>5, <1>6, <1>7, <1>8, <1>9, <1>10, <1>11, <1>12, StepCases

\* Only WriteOne adds to what the pass wrote, and only a tracked item.
LEMMA SkipStep ==
  ASSUME TypeOK, StageInv, ErrorsInv, Undisturbed, [Next]_vars, NEW i \in wrote' \ wrote
  PROVE  i \notin failing
<1> USE DEF luck, passVars
<1>1. ASSUME NEW j \in Items, WriteOne(j)
      PROVE  i \notin failing
  BY <1>1 DEF WriteOne, LostAll, TypeOK, StageInv, ErrorsInv
<1>2. CASE UNCHANGED vars
  BY <1>2 DEF vars
<1>3. QED
  BY <1>1, <1>2, StepCases
     DEF FileChanges, HealthChanges, Lose, ClearErrors, StartScan, ScanItem, Webhook, EndScan, FailScan, Cancel,
         StartPass, ReadTags, EndReads, Decide, ReadWhole, RetryOne, ReadBack, EndWrites,
         StoreReport, Finish, FailFinish, Raise, Restart, PassOver

\* As long as scans run to their end, the process stays up and nobody clears
\* the scan errors, the pass writes no item the last scan could not reach.
THEOREM StaleRowsAreSkipped == Spec => UnreachableIsSkipped
<1>1. Init => StageInv /\ Uncancelled /\ ErrorsInv
  BY InitStageInv DEF Init, Uncancelled, ErrorsInv
<1>2. TypeOK /\ StageInv /\ Uncancelled /\ ErrorsInv /\ [Next]_vars => StageInv' /\ Uncancelled' /\ ErrorsInv'
  BY NextStageInv, NextUncancelled, NextErrorsInv
<1>3. TypeOK /\ StageInv /\ ErrorsInv /\ [Next]_vars =>
        [struck = {} => \A i \in wrote' \ wrote : i \notin failing]_vars
  BY SkipStep DEF Undisturbed
<1>4. QED
  BY <1>1, <1>2, <1>3, TypeCorrect, PTL DEF Spec, UnreachableIsSkipped

-----------------------------------------------------------------------------
(* The alarm.  A restart repeats what the stored report says, so the alarm   *)
(* that is owed is one the report says, or one under a cancelled pass's      *)
(* report; and a pass between its report and the gauge that owes one is not  *)
(* going to take it away.                                                    *)

AlarmInv ==
  /\ owed => report \in {"halted", "cancelled"}
  /\ owed /\ pc = "stored" => outcome \in {"halted", "cancelled"}

LEMMA NextAlarmInv ==
  ASSUME AlarmInv, [Next]_vars
  PROVE  AlarmInv'
<1> USE DEF AlarmInv, luck, told, passVars
<1>1. CASE UNCHANGED vars
  BY <1>1 DEF vars
<1>2. CASE StoreReport
  BY <1>2 DEF StoreReport, Outcome
<1>3. CASE Finish \/ FailFinish \/ Raise \/ Restart
  BY <1>3 DEF Finish, FailFinish, Raise, Restart, PassOver
<1>4. ASSUME NEW i \in Items, WriteOne(i) \/ RetryOne(i)
      PROVE  AlarmInv'
  BY <1>4 DEF WriteOne, RetryOne
<1>5. CASE ReadTags \/ EndReads \/ Decide \/ ReadWhole \/ ReadBack \/ EndWrites
  BY <1>5 DEF ReadTags, EndReads, Decide, ReadWhole, ReadBack, EndWrites
<1>6. ASSUME NEW i \in Items, FileChanges(i) \/ HealthChanges(i) \/ ScanItem(i) \/ Webhook(i)
      PROVE  AlarmInv'
  BY <1>6 DEF FileChanges, HealthChanges, ScanItem, Webhook
<1>7. CASE Lose \/ ClearErrors \/ EndScan \/ FailScan \/ Cancel
  BY <1>7 DEF Lose, ClearErrors, EndScan, FailScan, Cancel
<1>8. CASE (\E isFull \in BOOLEAN : StartScan(isFull)) \/ (\E by \in {"scheduled", "manual"} : StartPass(by))
  BY <1>8 DEF StartScan, StartPass
<1>9. QED
  BY <1>1, <1>2, <1>3, <1>4, <1>5, <1>6, <1>7, <1>8, StepCases

LEMMA AlarmStep ==
  ASSUME AlarmInv, [Next]_vars, alarm, ~alarm'
  PROVE  ~owed \/ (Restart /\ report = "cancelled")
<1> USE DEF luck, told, passVars
<1>1. CASE Finish
  BY <1>1 DEF Finish, AlarmInv
<1>2. CASE Restart
  BY <1>2 DEF Restart, AlarmInv
<1>3. CASE UNCHANGED vars
  BY <1>3 DEF vars
<1>4. QED
  BY <1>1, <1>2, <1>3, StepCases
     DEF FileChanges, HealthChanges, Lose, ClearErrors, StartScan, ScanItem, Webhook, EndScan, FailScan, Cancel,
         StartPass, ReadTags, EndReads, Decide, ReadWhole, WriteOne, RetryOne, ReadBack, EndWrites,
         StoreReport, FailFinish, Raise

\* The alarm of a halted pass that could store its report stays up until a pass
\* that was not cancelled has reached its report and was not halted, whatever
\* fails or stops between a report and the gauge; only a restart over the report
\* of a cancelled pass forgets it.
THEOREM AlarmIsKept == Spec => AlarmStays
<1>1. Init => AlarmInv
  BY DEF Init, AlarmInv
<1>2. AlarmInv /\ [Next]_vars => AlarmInv'
  BY NextAlarmInv
<1>3. AlarmInv /\ [Next]_vars => [alarm /\ ~alarm' => ~owed \/ (Restart /\ report = "cancelled")]_vars
  BY AlarmStep
<1>4. QED
  BY <1>1, <1>2, <1>3, PTL DEF Spec, AlarmStays
=============================================================================
