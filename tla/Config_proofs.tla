--------------------------- MODULE Config_proofs ---------------------------
(***************************************************************************)
(* Proofs about Config, for any secrets, schedules, revisions and bounds.  *)
(***************************************************************************)
EXTENDS Config, TLAPS

USE DEF Armed

LEMMA ConstantFacts ==
  /\ 0 \in Nat /\ 0 \notin Typed \cup Outside /\ 0 \notin Gen
  /\ Gen \cap (Typed \cup Outside) = {} /\ Typed \cap Outside = {}
  /\ Gen \subseteq Nat /\ Typed \subseteq Nat /\ Outside \subseteq Nat
  /\ Default \in Configs
<1>1. 0 \in 0..MaxGen /\ Gen \subseteq 0..MaxGen /\ 0 \notin Gen
  BY ConstantsAssumption DEF Gen
<1>2. Default \in Configs
  BY DEF Default, Configs
<1>3. QED
  BY <1>1, <1>2, ConstantsAssumption DEF Gen

\* The steps, one disjunct per action.
LEMMA StepCases ==
  ASSUME [Next]_vars
  PROVE  \/ Load \/ InitDb \/ BootSecret \/ BootPassword \/ BootSave
         \/ Login \/ SaveSettings \/ SaveRaw
         \/ \E p \in Typed : ChangePassword(p)
         \/ Crash \/ CrashInFirstRun \/ Rotate \/ BlankByHand
         \/ UNCHANGED vars
BY DEF Next, StartUp

LEMMA FaultTypeOK ==
  ASSUME TypeOK, NEW f, Fault(f) \/ UNCHANGED left
  PROVE  left' \in 0..MaxFaults
<1>1. left \in 0..MaxFaults /\ MaxFaults \in Nat
  BY ConstantsAssumption DEF TypeOK
<1>2. QED
  BY <1>1 DEF Fault

\* A step of the migration leaves the configuration, the password file and the
\* sessions alone.
LEMMA InitDbSteps ==
  ASSUME InitDb
  PROVE  /\ UNCHANGED <<disk, live, env, pwfile, jobs, gen, tokens, torn, hurt, left>>
         /\ pc \in {"index", "migrate", "version"} /\ pc' \in {"migrate", "version", "boot", "down"}
<1> USE DEF InitDb
<1>1. CASE BeginUpgrade
  BY <1>1 DEF BeginUpgrade
<1>2. CASE Refuse
  BY <1>2 DEF Refuse
<1>3. CASE StampBaseline
  BY <1>3 DEF StampBaseline
<1>4. CASE RunRevision
  BY <1>4 DEF RunRevision
<1>5. CASE StampRevision
  BY <1>5 DEF StampRevision
<1>6. CASE CommitUpgrade
  BY <1>6 DEF CommitUpgrade
<1>7. QED
  BY <1>1, <1>2, <1>3, <1>4, <1>5, <1>6

\* An index is at the revision it is stamped with, or has no stamp; within the
\* transaction it is one ahead between a revision and its row.
IndexInv ==
  /\ schema.stamp \in {0, schema.tables}
  /\ pc = "migrate" => tx.stamp \in {0, tx.tables}
  /\ pc = "version" => tx.tables = tx.stamp + 1

LEMMA InitDbTypeOK ==
  ASSUME TypeOK, IndexInv, InitDb
  PROVE  schema' \in Databases /\ tx' \in Databases
<1>1. Head \in Nat \ {0} /\ schema \in Databases /\ tx \in Databases
  BY ConstantsAssumption DEF TypeOK
<1>2. CASE BeginUpgrade
  BY <1>1, <1>2 DEF BeginUpgrade
<1>3. CASE Refuse
  BY <1>1, <1>3 DEF Refuse
<1>4. CASE StampBaseline
  <2>1. Baseline \in 0..Head + 1
    BY <1>1 DEF Baseline
  <2>2. tx' = [tx EXCEPT !.stamp = Baseline] /\ schema' = schema
    BY <1>4 DEF StampBaseline
  <2>3. QED
    BY <1>1, <2>1, <2>2 DEF Databases
<1>5. CASE RunRevision
  <2>1. CASE tx.tables = tx.stamp
    <3>1. tx' = [tx EXCEPT !.tables = @ + 1] /\ schema' = schema /\ tx.stamp < Head
      BY <1>5, <2>1 DEF RunRevision
    <3>2. tx.tables + 1 \in -1..Head + 1
      BY <1>1, <2>1, <3>1 DEF Databases
    <3>3. QED
      BY <1>1, <3>1, <3>2 DEF Databases
  <2>2. CASE tx.tables # tx.stamp
    BY <1>1, <1>5, <2>2 DEF RunRevision
  <2>3. QED
    BY <2>1, <2>2
<1>6. CASE StampRevision
  <2>1. tx.tables \in 0..Head + 1
    BY <1>1, <1>6 DEF StampRevision, IndexInv, Databases
  <2>2. tx' = [tx EXCEPT !.stamp = tx.tables] /\ schema' = schema
    BY <1>6 DEF StampRevision
  <2>3. QED
    BY <1>1, <2>1, <2>2 DEF Databases
<1>7. CASE CommitUpgrade
  BY <1>1, <1>7 DEF CommitUpgrade
<1>8. QED
  BY <1>2, <1>3, <1>4, <1>5, <1>6, <1>7 DEF InitDb

-----------------------------------------------------------------------------
(* Configurations *)

LEMMA ResolvedIsConfig ==
  ASSUME TypeOK, NEW c \in Configs
  PROVE  /\ Resolved(c) \in Configs
         /\ Resolved(c).hash = c.hash /\ Resolved(c).file = c.file /\ Resolved(c).job = c.job
         /\ Resolved(c).secret = IF env.managed THEN env.secret ELSE c.secret
         /\ Resolved(c).key = IF c.file THEN env.key ELSE c.key
<1>1. env.secret \in Outside \cup {0} /\ env.key \in Outside \cup {0}
  BY DEF TypeOK
<1>2. QED
  BY <1>1 DEF Resolved, Configs

LEMMA PersistableIsConfig ==
  ASSUME NEW c \in Configs
  PROVE  /\ Persistable(c) \in Configs
         /\ Persistable(c).hash = c.hash /\ Persistable(c).file = c.file /\ Persistable(c).job = c.job
         /\ Persistable(c).secret = IF env.managed THEN 0 ELSE c.secret
         /\ Persistable(c).key = IF c.file THEN 0 ELSE c.key
BY DEF Persistable, WithoutFileKeys, Configs

\* What a write leaves behind, whole or cut short.
LEMMA WriteTypeOK ==
  ASSUME TypeOK, NEW c \in Configs, Write(c) \/ WriteCutShort(c) \/ (disk' = {c} /\ torn' = FALSE)
  PROVE  /\ disk' = {} \/ \E d \in Configs : disk' = {d}
         /\ torn' \in BOOLEAN
<1>1. [Default EXCEPT !.hash = c.hash, !.secret = c.secret] \in Configs
  BY ConstantFacts DEF Configs
<1>2. QED
  BY <1>1, ConstantFacts DEF Write, WriteCutShort, TypeOK

\* The requests that save `text` and run `new`.
LEMMA SaveTypeOK ==
  ASSUME TypeOK, NEW text \in Configs, NEW new \in Configs, NEW auth \in BOOLEAN, Save(text, new, auth)
  PROVE  TypeOK'
<1>1. disk' = {} \/ \E d \in Configs : disk' = {d}
  BY WriteTypeOK DEF Save
<1>2. torn' \in BOOLEAN /\ hurt' \in BOOLEAN
  BY DEF Save, WriteCutShort, TypeOK
<1>3. left' \in 0..MaxFaults
  BY FaultTypeOK DEF Save, WriteCutShort
<1>4. live' \in Configs /\ jobs' \in Schedules \cup {""} /\ pc' \in {"down", "index", "migrate", "version", "boot", "hash", "save", "up"}
  BY DEF Save, TypeOK, Configs
<1>5. QED
  BY <1>1, <1>2, <1>3, <1>4 DEF Save, TypeOK

LEMMA SettingsAreConfigs ==
  ASSUME TypeOK, SaveSettings
  PROVE  \E form \in Configs :
           /\ Readable(form) /\ form.secret = 0 /\ form.hash = 0
           /\ form.key \in Typed \cup {0, live.key} /\ (live.file => form.key # live.key \/ live.key \in Typed \cup {0})
           /\ Restored(form) \in Configs
           /\ Save(Persistable(Resolved(Restored(form))), Resolved(Restored(form)), FALSE)
<1>1. PICK job \in Schedules \cup {""}, file \in BOOLEAN, key \in Typed \cup {Shown(live).key} :
        LET form == [Shown(live) EXCEPT !.job = job, !.file = file, !.key = IF file THEN 0 ELSE key]
        IN Readable(form) /\ Save(Persistable(Resolved(Restored(form))), Resolved(Restored(form)), FALSE)
  BY DEF SaveSettings
<1> DEFINE form == [Shown(live) EXCEPT !.job = job, !.file = file, !.key = IF file THEN 0 ELSE key]
<1>2. Shown(live) \in Configs /\ Shown(live).hash = 0 /\ Shown(live).secret = 0
      /\ Shown(live).key = IF live.file THEN 0 ELSE live.key
  BY DEF Shown, TypeOK, Configs
<1>3. form \in Configs /\ form.hash = 0 /\ form.secret = 0 /\ form.key = IF file THEN 0 ELSE key
  BY <1>2 DEF Configs
<1>4. Restored(form) \in Configs
  <2>1. live \in Configs
    BY DEF TypeOK
  <2> HIDE DEF form
  <2>2. QED
    BY <1>3, <2>1 DEF Restored, Configs
<1>5. form.key \in Typed \cup {0, live.key} /\ (live.file => form.key # live.key \/ live.key \in Typed \cup {0})
  BY <1>2, <1>3
<1>6. QED
  BY <1>1, <1>3, <1>4, <1>5

LEMMA RawIsConfig ==
  ASSUME TypeOK, SaveRaw
  PROVE  \E old \in disk \cap Configs, text \in Configs :
           /\ Readable(text) /\ text.secret \notin Outside /\ text.key \notin Outside
           /\ text.hash \in {0, old.hash}
           /\ RawText(text) \in Configs
           /\ Save(RawText(text), Resolved(text), TRUE)
<1>1. PICK old \in disk, secret \in Typed \cup {0, live.secret}, key \in Typed \cup {0},
           job \in Schedules \cup {""}, file \in BOOLEAN :
        LET text == [Persistable(old) EXCEPT !.job = job, !.file = file, !.key = key, !.secret = secret,
                                             !.hash = IF secret = 0 /\ ~env.managed THEN 0 ELSE @]
        IN Readable(text) /\ secret \notin Outside /\ Save(RawText(text), Resolved(text), TRUE)
  BY DEF SaveRaw
<1> DEFINE text == [Persistable(old) EXCEPT !.job = job, !.file = file, !.key = key, !.secret = secret,
                                            !.hash = IF secret = 0 /\ ~env.managed THEN 0 ELSE @]
<1>2. old \in Configs /\ live \in Configs
  BY DEF TypeOK
<1>3. live.secret \in {0} \cup Gen \cup Outside \cup Typed
  BY <1>2 DEF Configs
<1>4. text \in Configs /\ text.secret = secret /\ text.key = key /\ text.hash \in {0, old.hash}
  <2> DEFINE seen == Persistable(old)
  <2>1. seen \in Configs /\ seen.hash = old.hash
    BY <1>2, PersistableIsConfig
  <2> HIDE DEF seen
  <2>2. /\ 0 \in {0} \cup Gen \cup Typed /\ job \in Schedules \cup {""}
        /\ secret \in {0} \cup Gen \cup Outside \cup Typed
        /\ key \in {0} \cup Outside \cup Typed
    BY <1>3
  <2>3. [seen EXCEPT !.job = job, !.file = file, !.key = key, !.secret = secret,
                     !.hash = IF secret = 0 /\ ~env.managed THEN 0 ELSE @] \in Configs
    <3> DEFINE hash == IF secret = 0 /\ ~env.managed THEN 0 ELSE seen.hash
    <3>1. hash \in {0} \cup Gen \cup Typed
      BY <2>1, <2>2 DEF Configs
    <3> HIDE DEF hash
    <3>2. [seen EXCEPT !.job = job, !.file = file, !.key = key, !.secret = secret, !.hash = hash] \in Configs
      BY <2>1, <2>2, <3>1 DEF Configs
    <3>3. QED
      BY <3>2 DEF hash
  <2>4. QED
    BY <2>1, <2>3 DEF seen, Configs
<1>5. RawText(text) \in Configs
  <2> HIDE DEF text
  <2>1. Resolved(text) \in Configs
    BY <1>4, ResolvedIsConfig
  <2>2. QED
    BY <1>4, <2>1, PersistableIsConfig DEF RawText
<1>6. key \notin Outside
  BY ConstantFacts
<1>7. QED
  BY <1>1, <1>2, <1>4, <1>5, <1>6

LEMMA StepIndexInv ==
  ASSUME TypeOK, IndexInv, [Next]_vars
  PROVE  IndexInv'
<1>1. tx \in Databases
  BY DEF TypeOK
<1>2. CASE BeginUpgrade
  BY <1>2 DEF BeginUpgrade, IndexInv
<1>3. CASE Refuse
  BY <1>3 DEF Refuse, IndexInv
<1>4. CASE StampBaseline
  BY <1>1, <1>4 DEF StampBaseline, IndexInv, Databases
<1>5. CASE RunRevision
  BY <1>1, <1>5 DEF RunRevision, IndexInv, Databases
<1>6. CASE StampRevision
  BY <1>1, <1>6 DEF StampRevision, IndexInv, Databases
<1>7. CASE CommitUpgrade
  BY <1>7 DEF CommitUpgrade, IndexInv
<1>8. CASE Load \/ BootSecret \/ BootPassword \/ BootSave
  BY <1>8 DEF Load, BootSecret, BootPassword, BootSave, IndexInv
<1>9. CASE Login \/ Rotate \/ BlankByHand \/ Crash \/ CrashInFirstRun
  BY <1>9 DEF Login, Rotate, BlankByHand, Crash, CrashInFirstRun, IndexInv
<1>10. CASE SaveSettings \/ SaveRaw
  <2>1. ASSUME NEW text, NEW new, NEW auth, Save(text, new, auth)
        PROVE  UNCHANGED <<schema, tx>> /\ pc' \in {"up", "down"}
    BY <2>1 DEF Save
  <2>2. UNCHANGED <<schema, tx>> /\ pc' \in {"up", "down"}
    BY <1>10, <2>1, SettingsAreConfigs, RawIsConfig
  <2>3. QED
    BY <2>2 DEF IndexInv
<1>11. ASSUME NEW p \in Typed, ChangePassword(p)
       PROVE  IndexInv'
  BY <1>11 DEF ChangePassword, IndexInv
<1>12. CASE UNCHANGED vars
  BY <1>12 DEF vars, IndexInv
<1>13. QED
  BY <1>2, <1>3, <1>4, <1>5, <1>6, <1>7, <1>8, <1>9, <1>10, <1>11, <1>12, StepCases DEF InitDb

LEMMA InitTypeOK == Init => TypeOK
<1> SUFFICES ASSUME Init PROVE TypeOK
  OBVIOUS
<1>1. left \in 0..MaxFaults /\ gen \in 0..MaxGen
  <2>1. left = MaxFaults /\ gen = 0 /\ MaxFaults \in Nat /\ MaxGen \in Nat
    BY ConstantsAssumption DEF Init
  <2>2. QED
    BY <2>1
<1>2. env \in [managed : BOOLEAN, secret : Outside \cup {0}, key : Outside \cup {0}]
  <2>1. PICK m \in BOOLEAN, s \in Outside : env = [managed |-> m, secret |-> s, key |-> s]
    BY DEF Init
  <2>2. QED
    BY <2>1
<1>3. tokens \subseteq (({0} \cup Gen \cup Outside \cup Typed) \X (Gen \cup Typed))
  BY DEF Init
<1>4. QED
  <2>1. disk = {Default} /\ live \in Configs /\ pwfile = 0 /\ jobs = "" /\ pc = "down" /\ torn = FALSE /\ hurt = FALSE
    BY ConstantFacts DEF Init
  <2>2. schema \in Databases /\ tx \in Databases
    BY DEF Init
  <2>3. QED
    BY <1>1, <1>2, <1>3, <2>1, <2>2, ConstantFacts DEF TypeOK

LEMMA StepTypeOK == TypeOK /\ IndexInv /\ [Next]_vars => TypeOK'
<1> SUFFICES ASSUME TypeOK, IndexInv, [Next]_vars PROVE TypeOK'
  OBVIOUS
<1>1. live \in Configs /\ gen \in 0..MaxGen /\ (\A c \in disk : c \in Configs)
  BY DEF TypeOK
<1>2. ASSUME gen < MaxGen
      PROVE  gen + 1 \in Gen /\ gen + 1 \in 0..MaxGen
  BY <1>1, <1>2, ConstantsAssumption DEF Gen
<1>3. CASE Load
  BY <1>1, <1>3, ResolvedIsConfig DEF Load, TypeOK
<1>4. CASE InitDb
  BY <1>4, InitDbSteps, InitDbTypeOK DEF TypeOK
<1>5. CASE BootSecret
  <2>1. gen' \in 0..MaxGen /\ live' \in Configs
    <3>1. CASE live.secret = 0
      <4>1. gen' = gen + 1 /\ live' = [live EXCEPT !.secret = gen + 1] /\ gen < MaxGen
        BY <1>5, <3>1 DEF BootSecret
      <4>2. QED
        BY <1>1, <1>2, <4>1 DEF Configs
    <3>2. CASE live.secret # 0
      BY <1>1, <1>5, <3>2 DEF BootSecret
    <3>3. QED
      BY <3>1, <3>2
  <2>2. jobs' \in Schedules \cup {""} /\ pc' \in {"down", "index", "migrate", "version", "boot", "hash", "save", "up"}
    BY <1>1, <1>5 DEF BootSecret, TypeOK, Configs
  <2>3. QED
    BY <1>5, <2>1, <2>2 DEF BootSecret, TypeOK
<1>6. CASE BootPassword
  <2>1. live' \in Configs /\ gen' \in 0..MaxGen /\ pwfile' \in Gen \cup {-1, 0} /\ left' \in 0..MaxFaults
    <3>1. CASE gen < MaxGen /\ gen' = gen + 1 /\ UNCHANGED left
               /\ \E first \in FirstRun : live' = [live EXCEPT !.hash = first[1]] /\ pwfile' = first[2]
      <4>1. PICK first \in FirstRun : live' = [live EXCEPT !.hash = first[1]] /\ pwfile' = first[2]
        BY <3>1
      <4>2. gen' \in Gen /\ gen' \in 0..MaxGen
        BY <1>2, <3>1
      <4>3. first[1] \in Gen \cup {0} /\ first[2] \in Gen \cup {-1, 0}
        <5>1. pwfile \in Gen \cup {-1, 0}
          BY DEF TypeOK
        <5>2. first = <<gen', gen'>> \/ (pwfile # 0 /\ first = <<IF pwfile = -1 THEN 0 ELSE pwfile, pwfile>>)
          BY <4>1 DEF FirstRun
        <5>3. QED
          BY <4>2, <5>1, <5>2
      <4>4. left' \in 0..MaxFaults
        BY <3>1, FaultTypeOK
      <4>5. live' \in Configs
        BY <1>1, <4>1, <4>3 DEF Configs
      <4>6. QED
        BY <4>1, <4>2, <4>3, <4>4, <4>5
    <3>2. CASE Fault("pwfile") /\ pwfile = 0 /\ UNCHANGED <<live, pwfile, gen>>
      BY <3>2, FaultTypeOK DEF TypeOK
    <3>3. CASE Fault("envpassword") /\ (\E p \in Typed : live' = [live EXCEPT !.hash = p]) /\ UNCHANGED <<pwfile, gen>>
      <4>1. live' \in Configs
        BY <1>1, <3>3 DEF Configs
      <4>2. QED
        BY <3>3, <4>1, FaultTypeOK DEF TypeOK
    <3>4. QED
      BY <1>6, <3>1, <3>2, <3>3 DEF BootPassword
  <2>2. jobs' \in Schedules \cup {""} /\ pc' \in {"down", "index", "migrate", "version", "boot", "hash", "save", "up"}
    BY <1>1, <1>6 DEF BootPassword, TypeOK, Configs
  <2>3. QED
    BY <1>6, <2>1, <2>2 DEF BootPassword, TypeOK
<1>7. CASE BootSave
  <2>1. Persistable(live) \in Configs
    BY <1>1, PersistableIsConfig
  <2>2. (disk' = {} \/ \E d \in Configs : disk' = {d}) /\ torn' \in BOOLEAN
    BY <1>7, <2>1, WriteTypeOK DEF BootSave
  <2>3. left' \in 0..MaxFaults
    BY <1>7, FaultTypeOK DEF BootSave, WriteCutShort
  <2>4. hurt' \in BOOLEAN /\ jobs' \in Schedules \cup {""} /\ pc' \in {"down", "index", "migrate", "version", "boot", "hash", "save", "up"}
    BY <1>1, <1>7 DEF BootSave, Write, WriteCutShort, TypeOK, Configs
  <2>5. QED
    BY <1>7, <2>2, <2>3, <2>4 DEF BootSave, TypeOK
<1>8. CASE Login
  <2>1. live.secret \in {0} \cup Gen \cup Outside \cup Typed /\ live.hash \in Gen \cup Typed
    BY <1>1, <1>8 DEF Login, Configs
  <2>2. tokens' \subseteq (({0} \cup Gen \cup Outside \cup Typed) \X (Gen \cup Typed))
    <3>1. <<live.secret, live.hash>> \in ({0} \cup Gen \cup Outside \cup Typed) \X (Gen \cup Typed)
      BY <2>1
    <3>2. tokens' = tokens \cup {<<live.secret, live.hash>>}
      BY <1>8 DEF Login, Session
    <3>3. tokens \subseteq (({0} \cup Gen \cup Outside \cup Typed) \X (Gen \cup Typed))
      BY DEF TypeOK
    <3>4. QED
      BY <3>1, <3>2, <3>3
  <2>3. QED
    BY <1>8, <2>2 DEF Login, TypeOK
<1>9. CASE SaveSettings
  BY <1>9, SettingsAreConfigs, SaveTypeOK, ResolvedIsConfig, PersistableIsConfig
<1>10. CASE SaveRaw
  BY <1>10, RawIsConfig, SaveTypeOK, ResolvedIsConfig
<1>11. ASSUME NEW p \in Typed, ChangePassword(p)
       PROVE  TypeOK'
  <2>1. live' \in Configs
    BY <1>1, <1>11 DEF ChangePassword, Configs
  <2>2. Persistable(live') \in Configs
    BY <2>1, PersistableIsConfig
  <2>3. Write(Persistable(live')) \/ WriteCutShort(Persistable(live'))
    BY <1>11 DEF ChangePassword
  <2>4. (disk' = {} \/ \E d \in Configs : disk' = {d}) /\ torn' \in BOOLEAN
    BY <2>2, <2>3, WriteTypeOK
  <2>5. left' \in 0..MaxFaults
    BY <1>11, FaultTypeOK DEF ChangePassword, WriteCutShort
  <2>6. hurt' \in BOOLEAN
    BY <2>3 DEF Write, WriteCutShort, TypeOK
  <2>7. pwfile' \in Gen \cup {-1, 0} /\ pc' \in {"down", "index", "migrate", "version", "boot", "hash", "save", "up"} /\ tokens' = {}
    BY <1>11 DEF ChangePassword, TypeOK
  <2>8. QED
    BY <1>11, <2>1, <2>4, <2>5, <2>6, <2>7 DEF ChangePassword, TypeOK
<1>12. CASE Crash \/ CrashInFirstRun
  <2>1. left' \in 0..MaxFaults
    BY <1>12, FaultTypeOK DEF Crash, CrashInFirstRun
  <2>2. QED
    BY <1>12, <2>1 DEF Crash, CrashInFirstRun, TypeOK
<1>13. CASE Rotate
  <2>1. left' \in 0..MaxFaults
    BY <1>13, FaultTypeOK DEF Rotate
  <2>2. QED
    BY <1>13, <2>1 DEF Rotate, TypeOK
<1>14. CASE BlankByHand
  <2>1. left' \in 0..MaxFaults
    BY <1>14, FaultTypeOK DEF BlankByHand
  <2>2. disk' = {} \/ \E d \in Configs : disk' = {d}
    <3>1. CASE disk = {}
      BY <1>14, <3>1 DEF BlankByHand
    <3>2. ASSUME NEW c \in Configs, disk = {c}
          PROVE  \E d \in Configs : disk' = {d}
      <4>1. [c EXCEPT !.hash = 0] \in Configs
        BY DEF Configs
      <4>2. disk' = {[c EXCEPT !.hash = 0]}
        BY <1>14, <3>2 DEF BlankByHand
      <4>3. QED
        BY <4>1, <4>2
    <3>3. QED
      BY <3>1, <3>2 DEF TypeOK
  <2>3. QED
    BY <1>14, <2>1, <2>2 DEF BlankByHand, TypeOK
<1>15. CASE UNCHANGED vars
  BY <1>15 DEF vars, TypeOK
<1>16. QED
  BY <1>3, <1>4, <1>5, <1>6, <1>7, <1>8, <1>9, <1>10, <1>11, <1>12, <1>13, <1>14, <1>15, StepCases

\* The state of the configuration is of its type in every reachable state.
THEOREM TypeCorrect == Spec => []TypeOK
<1>1. Init => TypeOK /\ IndexInv
  BY InitTypeOK DEF Init, IndexInv
<1>2. TypeOK /\ IndexInv /\ [Next]_vars => TypeOK' /\ IndexInv'
  BY StepTypeOK, StepIndexInv
<1>3. QED
  BY <1>1, <1>2, PTL DEF Spec

\* Whatever step of the migration a crash cuts short, the index that is left is at
\* the revision it is stamped with, or has no stamp (upgrade_to_head, I3).
THEOREM IndexIsWhole == Spec => [](schema.stamp \in {0, schema.tables})
<1>1. Init => TypeOK /\ IndexInv
  BY InitTypeOK DEF Init, IndexInv
<1>2. TypeOK /\ IndexInv /\ [Next]_vars => TypeOK' /\ IndexInv'
  BY StepTypeOK, StepIndexInv
<1>3. IndexInv => schema.stamp \in {0, schema.tables}
  BY DEF IndexInv
<1>4. QED
  BY <1>1, <1>2, <1>3, PTL DEF Spec

-----------------------------------------------------------------------------
(* No secret from outside in the file *)

\* What runs has a secret from outside only where the environment or a key file
\* supplies it, so that _persistable() finds all of them.
Clean ==
  /\ SecretsStayOut
  /\ pc # "down" => /\ live.secret \in Outside => env.managed
                    /\ live.key \in Outside => live.file

LEMMA LiveClean ==
  ASSUME TypeOK, Clean, pc # "down"
  PROVE  /\ live.secret \in Outside => env.managed
         /\ live.key \in Outside => live.file
         /\ Persistable(live) \in Configs
         /\ Persistable(live).secret \notin Outside /\ Persistable(live).key \notin Outside
<1>1. live \in Configs
  BY DEF TypeOK
<1>2. (live.secret \in Outside => env.managed) /\ (live.key \in Outside => live.file)
  BY DEF Clean
<1>3. QED
  BY <1>1, <1>2, PersistableIsConfig, ConstantFacts

\* What a write of a configuration without outside secrets leaves.
LEMMA WriteClean ==
  ASSUME SecretsStayOut, NEW c \in Configs, c.secret \notin Outside, c.key \notin Outside,
         Write(c) \/ WriteCutShort(c) \/ (disk' = {c} /\ torn' = FALSE)
  PROVE  SecretsStayOut'
<1> DEFINE part == [Default EXCEPT !.hash = c.hash, !.secret = c.secret]
<1>1. Default.secret \notin Outside /\ Default.key \notin Outside /\ part.secret \notin Outside /\ part.key \notin Outside
  BY ConstantFacts DEF Default
<1> HIDE DEF part
<1>2. disk' \in {disk, {Default}, {part}, {c}, {}}
  BY DEF Write, WriteCutShort, part
<1>3. QED
  BY <1>1, <1>2 DEF SecretsStayOut

LEMMA SaveClean ==
  ASSUME TypeOK, Clean, NEW text \in Configs, NEW new \in Configs, NEW auth \in BOOLEAN, Save(text, new, auth),
         text.secret \notin Outside, text.key \notin Outside,
         new.secret \in Outside => env.managed, new.key \in Outside => new.file
  PROVE  Clean'
<1>1. SecretsStayOut'
  BY WriteClean DEF Save, Clean
<1>2. env' = env /\ live' \in {live, new} /\ pc = "up"
  BY DEF Save
<1>3. QED
  BY <1>1, <1>2 DEF Clean

LEMMA StepClean ==
  ASSUME TypeOK, Clean, [Next]_vars
  PROVE  Clean'
<1>1. live \in Configs /\ gen \in 0..MaxGen /\ (\A c \in disk : c \in Configs)
  BY DEF TypeOK
<1>2. ASSUME gen < MaxGen
      PROVE  gen + 1 \notin Outside /\ gen + 1 # 0
  <2>1. gen + 1 \in Gen
    BY <1>1, <1>2, ConstantsAssumption DEF Gen
  <2>2. QED
    BY <2>1, ConstantFacts
<1>3. CASE Load
  <2>1. PICK c \in disk : live' = Resolved(c)
    BY <1>3 DEF Load
  <2>2. c.secret \notin Outside /\ c.key \notin Outside
    BY DEF Clean, SecretsStayOut
  <2>3. disk' = disk /\ env' = env
    BY <1>3 DEF Load
  <2>4. QED
    BY <1>1, <2>1, <2>2, <2>3, ResolvedIsConfig DEF Clean, SecretsStayOut
<1>4. CASE InitDb
  BY <1>4, InitDbSteps DEF Clean, SecretsStayOut
<1>5. CASE BootSecret
  <2>1. disk' = disk /\ env' = env
    BY <1>5 DEF BootSecret
  <2>2. live' = live \/ (live' = [live EXCEPT !.secret = gen + 1] /\ gen < MaxGen)
    BY <1>5 DEF BootSecret
  <2>3. pc # "down"
    BY <1>5 DEF BootSecret
  <2>4. QED
    BY <1>1, <1>2, <2>1, <2>2, <2>3 DEF Clean, SecretsStayOut, Configs
<1>6. CASE BootPassword
  <2>1. disk' = disk /\ env' = env /\ pc # "down"
    BY <1>6 DEF BootPassword
  <2>2. live'.secret = live.secret /\ live'.key = live.key /\ live'.file = live.file
    BY <1>1, <1>6 DEF BootPassword, Configs
  <2>3. QED
    BY <2>1, <2>2 DEF Clean, SecretsStayOut
<1>7. CASE BootSave
  <2>1. live' = live /\ env' = env /\ pc # "down"
    BY <1>7 DEF BootSave
  <2>2. Persistable(live) \in Configs /\ Persistable(live).secret \notin Outside /\ Persistable(live).key \notin Outside
    BY <2>1, LiveClean
  <2>3. SecretsStayOut'
    BY <1>7, <2>2, WriteClean DEF BootSave, Clean
  <2>4. QED
    BY <2>1, <2>3 DEF Clean
<1>8. CASE Login
  BY <1>8 DEF Login, Clean, SecretsStayOut
<1>9. CASE SaveSettings
  <2>1. PICK form \in Configs :
          /\ form.secret = 0 /\ form.hash = 0
          /\ form.key \in Typed \cup {0, live.key} /\ (live.file => form.key # live.key \/ live.key \in Typed \cup {0})
          /\ Restored(form) \in Configs
          /\ Save(Persistable(Resolved(Restored(form))), Resolved(Restored(form)), FALSE)
    BY <1>9, SettingsAreConfigs
  <2> DEFINE new == Resolved(Restored(form))
  <2>2. Restored(form).secret = live.secret /\ Restored(form).key = form.key /\ Restored(form).file = form.file
    BY DEF Restored, Configs
  <2>3. pc = "up"
    BY <2>1 DEF Save
  <2>4. form.key \notin Outside
    <3>1. form.key \in Typed \cup {0, live.key} /\ (live.file => form.key # live.key \/ live.key \in Typed \cup {0})
      BY <2>1
    <3>2. live.key \in Outside => live.file
      BY <2>3, LiveClean
    <3>3. QED
      BY <3>1, <3>2, ConstantFacts
  <2>5. /\ new \in Configs
        /\ new.secret = IF env.managed THEN env.secret ELSE live.secret
        /\ new.key = IF form.file THEN env.key ELSE form.key
        /\ new.file = form.file
    BY <2>1, <2>2, ResolvedIsConfig
  <2> HIDE DEF new
  <2>6. /\ new.secret \in Outside => env.managed
        /\ new.key \in Outside => new.file
    <3>1. live.secret \in Outside => env.managed
      BY <2>3, LiveClean
    <3>2. QED
      BY <2>4, <2>5, <3>1
  <2>7. Persistable(new) \in Configs /\ Persistable(new).secret \notin Outside /\ Persistable(new).key \notin Outside
    BY <2>5, <2>6, PersistableIsConfig, ConstantFacts
  <2>8. Save(Persistable(new), new, FALSE)
    BY <2>1 DEF new
  <2>9. QED
    BY <2>5, <2>6, <2>7, <2>8, SaveClean
<1>10. CASE SaveRaw
  <2>1. PICK text \in Configs :
          /\ text.secret \notin Outside /\ text.key \notin Outside
          /\ RawText(text) \in Configs
          /\ Save(RawText(text), Resolved(text), TRUE)
    BY <1>10, RawIsConfig
  <2> DEFINE new == Resolved(text)
  <2>2. /\ new \in Configs
        /\ new.secret = IF env.managed THEN env.secret ELSE text.secret
        /\ new.key = IF text.file THEN env.key ELSE text.key
        /\ new.file = text.file
    BY ResolvedIsConfig
  <2>3. RawText(text) \in {text, Persistable(new)}
    BY DEF RawText
  <2> HIDE DEF new
  <2>4. /\ new.secret \in Outside => env.managed
        /\ new.key \in Outside => new.file
    BY <2>1, <2>2
  <2>5. RawText(text).secret \notin Outside /\ RawText(text).key \notin Outside
    BY <2>1, <2>2, <2>3, <2>4, PersistableIsConfig, ConstantFacts
  <2>6. Save(RawText(text), new, TRUE)
    BY <2>1 DEF new
  <2>7. QED
    BY <2>1, <2>2, <2>4, <2>5, <2>6, SaveClean
<1>11. ASSUME NEW p \in Typed, ChangePassword(p)
       PROVE  Clean'
  <2>1. live' = [live EXCEPT !.hash = p] /\ env' = env /\ pc # "down"
    BY <1>11 DEF ChangePassword
  <2>2. live' \in Configs /\ live'.secret = live.secret /\ live'.key = live.key /\ live'.file = live.file
    BY <1>1, <2>1 DEF Configs
  <2>3. /\ Persistable(live') \in Configs
        /\ Persistable(live').secret \notin Outside /\ Persistable(live').key \notin Outside
    <3>1. Persistable(live').secret = Persistable(live).secret /\ Persistable(live').key = Persistable(live).key
      BY <1>1, <2>2, PersistableIsConfig
    <3>2. QED
      BY <2>1, <2>2, <3>1, LiveClean, PersistableIsConfig
  <2>4. SecretsStayOut'
    BY <1>11, <2>3, WriteClean DEF ChangePassword, Clean
  <2>5. QED
    <3>1. (live'.secret \in Outside => env'.managed) /\ (live'.key \in Outside => live'.file)
      BY <2>1, <2>2, LiveClean
    <3>2. QED
      BY <2>4, <3>1 DEF Clean
<1>12. CASE Crash \/ CrashInFirstRun
  BY <1>12 DEF Crash, CrashInFirstRun, Clean, SecretsStayOut
<1>13. CASE Rotate
  BY <1>13 DEF Rotate, Clean, SecretsStayOut
<1>14. CASE BlankByHand
  <2>1. \A c \in disk : [c EXCEPT !.hash = 0].secret = c.secret /\ [c EXCEPT !.hash = 0].key = c.key
    BY <1>1 DEF Configs
  <2>2. QED
    BY <1>14, <2>1 DEF BlankByHand, Clean, SecretsStayOut
<1>15. CASE UNCHANGED vars
  BY <1>15 DEF vars, Clean, SecretsStayOut
<1>16. QED
  BY <1>3, <1>4, <1>5, <1>6, <1>7, <1>8, <1>9, <1>10, <1>11, <1>12, <1>13, <1>14, <1>15, StepCases

\* No save, of the form, the raw text or a password, nor the first run ever puts a
\* secret from outside into config.yml (_persistable(), save_config()).
THEOREM NoSecretInFile == Spec => []SecretsStayOut
<1>1. Init => Clean
  <2>1. Default.secret \notin Outside /\ Default.key \notin Outside
    BY ConstantFacts DEF Default
  <2>2. QED
    BY <2>1 DEF Init, Clean, SecretsStayOut
<1>2. TypeOK /\ Clean /\ [Next]_vars => Clean'
  BY StepClean
<1>3. Clean => SecretsStayOut
  BY DEF Clean
<1>4. QED
  BY <1>1, <1>2, <1>3, TypeCorrect, PTL DEF Spec

-----------------------------------------------------------------------------
(* What the file says of what runs *)

\* The file's text says what runs, but for the secrets from outside.
Match(text, new) ==
  /\ text.hash = new.hash /\ text.job = new.job /\ text.file = new.file
  /\ ~env.managed => text.secret = new.secret
  /\ ~text.file => text.key = new.key

LEMMA PersistableMatches ==
  ASSUME NEW c \in Configs
  PROVE  Match(Persistable(c), c)
BY PersistableIsConfig DEF Match

LEMMA SettingsSave ==
  ASSUME TypeOK, SaveSettings
  PROVE  \E text \in Configs, new \in Configs :
           /\ Match(text, new) /\ Save(text, new, FALSE)
           /\ new.hash = live.hash
           /\ new.secret = IF env.managed THEN env.secret ELSE live.secret
<1>1. PICK form \in Configs :
        /\ Restored(form) \in Configs
        /\ Save(Persistable(Resolved(Restored(form))), Resolved(Restored(form)), FALSE)
  BY SettingsAreConfigs
<1>2. Restored(form).hash = live.hash /\ Restored(form).secret = live.secret
  BY DEF Restored, Configs
<1> DEFINE new == Resolved(Restored(form))
<1>3. new \in Configs /\ new.hash = live.hash /\ new.secret = IF env.managed THEN env.secret ELSE live.secret
  BY <1>1, <1>2, ResolvedIsConfig
<1>4. Save(Persistable(new), new, FALSE)
  BY <1>1
<1> HIDE DEF new
<1>5. Persistable(new) \in Configs /\ Match(Persistable(new), new)
  BY <1>3, PersistableIsConfig, PersistableMatches
<1>6. QED
  BY <1>3, <1>4, <1>5

LEMMA RawSave ==
  ASSUME TypeOK, SaveRaw
  PROVE  \E text \in Configs, new \in Configs, old \in disk :
           /\ Match(text, new) /\ Save(text, new, TRUE)
           /\ text.hash \in {0, old.hash}
           /\ new.secret = IF env.managed THEN env.secret ELSE text.secret
<1>1. PICK old \in disk \cap Configs, seen \in Configs :
        /\ seen.hash \in {0, old.hash}
        /\ RawText(seen) \in Configs
        /\ Save(RawText(seen), Resolved(seen), TRUE)
  BY RawIsConfig
<1> DEFINE new == Resolved(seen)
<1> DEFINE text == RawText(seen)
<1>2. /\ new \in Configs /\ new.hash = seen.hash /\ new.job = seen.job /\ new.file = seen.file
      /\ new.secret = IF env.managed THEN env.secret ELSE seen.secret
      /\ new.key = IF seen.file THEN env.key ELSE seen.key
  BY ResolvedIsConfig
<1>3. text = seen \/ text = Persistable(new)
  BY DEF RawText
<1>4. text \in Configs /\ Save(text, new, TRUE)
  BY <1>1
<1> HIDE DEF new, text
<1>5. Match(text, new) /\ text.hash = seen.hash /\ (~env.managed => text.secret = seen.secret)
  BY <1>2, <1>3, PersistableIsConfig DEF Match
<1>6. new.secret = IF env.managed THEN env.secret ELSE text.secret
  BY <1>2, <1>5
<1>7. QED
  BY <1>1, <1>2, <1>4, <1>5, <1>6

-----------------------------------------------------------------------------
(* The first-run password can be read *)

\* A generated password, in the file or in force, is the one in its file; what
\* stands in config.yml matters, since the next start runs on it.
InFile ==
  /\ \A c \in disk : c.hash \in Gen => pwfile = c.hash
  /\ pc # "down" /\ live.hash \in Gen => pwfile = live.hash

\* Whatever a write leaves has the old hash, the new one, or none.
LEMMA WriteHash ==
  ASSUME NEW c \in Configs, Write(c) \/ WriteCutShort(c) \/ (disk' = {c} /\ torn' = FALSE)
  PROVE  \A d \in disk' : d \in disk \/ d.hash \in {0, c.hash}
<1> DEFINE part == [Default EXCEPT !.hash = c.hash, !.secret = c.secret]
<1>1. part.hash = c.hash /\ Default.hash = 0
  BY DEF Default
<1> HIDE DEF part
<1>2. disk' \in {disk, {Default}, {part}, {c}, {}}
  BY DEF Write, WriteCutShort, part
<1>3. QED
  BY <1>1, <1>2

LEMMA SaveInFile ==
  ASSUME TypeOK, InFile, NEW text \in Configs, NEW new \in Configs, NEW auth \in BOOLEAN,
         Save(text, new, auth), text.hash = new.hash, new.hash \in Gen => pwfile = new.hash
  PROVE  InFile'
<1>1. pwfile' = pwfile /\ live' \in {live, new} /\ pc = "up"
  BY DEF Save
<1>2. \A d \in disk' : d \in disk \/ d.hash \in {0, text.hash}
  BY WriteHash DEF Save
<1>3. \A d \in disk' : d.hash \in Gen => pwfile = d.hash
  BY <1>2, ConstantFacts DEF InFile
<1>4. live'.hash \in Gen => pwfile = live'.hash
  BY <1>1 DEF InFile
<1>5. QED
  BY <1>1, <1>3, <1>4 DEF InFile

LEMMA StepInFile ==
  ASSUME TypeOK, InFile, [Next]_vars
  PROVE  InFile'
<1>1. live \in Configs /\ (\A c \in disk : c \in Configs)
  BY DEF TypeOK
<1>2. \A c \in disk : c.hash \in Gen => pwfile = c.hash
  BY DEF InFile
<1>3. CASE Load
  <2>1. PICK c \in disk : live' = Resolved(c)
    BY <1>3 DEF Load
  <2>2. live'.hash = c.hash
    BY <1>1, <2>1, ResolvedIsConfig
  <2>3. disk' = disk /\ pwfile' = pwfile
    BY <1>3 DEF Load
  <2>4. QED
    BY <1>2, <2>2, <2>3 DEF InFile
<1>4. CASE InitDb
  BY <1>4, InitDbSteps DEF InFile
<1>5. CASE BootSecret
  <2>1. disk' = disk /\ pwfile' = pwfile /\ pc # "down"
    BY <1>5 DEF BootSecret
  <2>2. live'.hash = live.hash
    BY <1>1, <1>5 DEF BootSecret, Configs
  <2>3. QED
    BY <2>1, <2>2 DEF InFile
<1>6. CASE BootPassword
  <2>1. disk' = disk /\ pc # "down"
    BY <1>6 DEF BootPassword
  <2>2. CASE \E first \in FirstRun : live' = [live EXCEPT !.hash = first[1]] /\ pwfile' = first[2]
    <3>1. PICK first \in FirstRun : live' = [live EXCEPT !.hash = first[1]] /\ pwfile' = first[2]
      BY <2>2
    <3>2. live'.hash = first[1] /\ pwfile' = first[2]
      BY <1>1, <3>1 DEF Configs
    <3>3. CASE pwfile = 0
      <4>1. first[1] = first[2]
        BY <3>1, <3>3 DEF FirstRun
      <4>2. \A c \in disk : c.hash \notin Gen
        BY <1>2, <3>3, ConstantFacts
      <4>3. QED
        BY <2>1, <3>2, <4>1, <4>2 DEF InFile
    <3>4. CASE pwfile # 0
      <4>1. first[1] \in {0, pwfile} /\ first[2] = pwfile
        BY <3>1, <3>4 DEF FirstRun
      <4>2. QED
        BY <1>2, <2>1, <3>2, <4>1, ConstantFacts DEF InFile
    <3>5. QED
      BY <3>3, <3>4
  <2>3. CASE UNCHANGED <<live, pwfile>>
    BY <2>1, <2>3 DEF InFile
  <2>4. CASE (\E p \in Typed : live' = [live EXCEPT !.hash = p]) /\ pwfile' = pwfile
    <3>1. live'.hash \in Typed
      BY <1>1, <2>4 DEF Configs
    <3>2. QED
      BY <1>2, <2>1, <2>4, <3>1, ConstantFacts DEF InFile
  <2>5. QED
    BY <1>6, <2>2, <2>3, <2>4 DEF BootPassword
<1>7. CASE BootSave
  <2>1. live' = live /\ pwfile' = pwfile /\ pc # "down"
    BY <1>7 DEF BootSave
  <2>2. Persistable(live) \in Configs /\ Persistable(live).hash = live.hash
    BY <1>1, PersistableIsConfig
  <2>3. \A d \in disk' : d \in disk \/ d.hash \in {0, live.hash}
    BY <1>7, <2>2, WriteHash DEF BootSave
  <2>4. live.hash \in Gen => pwfile = live.hash
    BY <2>1 DEF InFile
  <2>5. QED
    BY <1>2, <2>1, <2>3, <2>4, ConstantFacts DEF InFile
<1>8. CASE Login
  BY <1>8 DEF Login, InFile
<1>9. CASE SaveSettings
  <2>1. PICK text \in Configs, new \in Configs :
          Match(text, new) /\ Save(text, new, FALSE) /\ new.hash = live.hash
    BY <1>9, SettingsSave
  <2>2. new.hash \in Gen => pwfile = new.hash
    BY <2>1 DEF Save, InFile
  <2>3. QED
    BY <2>1, <2>2, SaveInFile DEF Match
<1>10. CASE SaveRaw
  <2>1. PICK text \in Configs, new \in Configs, old \in disk :
          Match(text, new) /\ Save(text, new, TRUE) /\ text.hash \in {0, old.hash}
    BY <1>10, RawSave
  <2>2. text.hash = new.hash
    BY <2>1 DEF Match
  <2>3. new.hash \in Gen => pwfile = new.hash
    BY <1>2, <2>1, <2>2, ConstantFacts
  <2>4. QED
    BY <2>1, <2>2, <2>3, SaveInFile
<1>11. ASSUME NEW p \in Typed, ChangePassword(p)
       PROVE  InFile'
  <2>1. live' = [live EXCEPT !.hash = p]
    BY <1>11 DEF ChangePassword
  <2>2. live' \in Configs /\ live'.hash = p
    BY <1>1, <2>1 DEF Configs
  <2>3. Persistable(live') \in Configs /\ Persistable(live').hash = p
    BY <2>2, PersistableIsConfig
  <2>4. p \notin Gen
    BY ConstantFacts
  <2>5. CASE pwfile' = pwfile
    <3>1. \A d \in disk' : d \in disk \/ d.hash \in {0, p}
      BY <1>11, <2>3, WriteHash DEF ChangePassword
    <3>2. QED
      BY <1>2, <2>2, <2>4, <2>5, <3>1, ConstantFacts DEF InFile
  <2>6. CASE Write(Persistable(live'))
    <3>1. disk' = {Persistable(live')}
      BY <2>6 DEF Write
    <3>2. QED
      BY <2>2, <2>3, <2>4, <3>1 DEF InFile
  <2>7. QED
    BY <1>11, <2>5, <2>6 DEF ChangePassword
<1>12. CASE Crash
  BY <1>12 DEF Crash, InFile
<1>13. CASE CrashInFirstRun
  <2>1. disk' = disk /\ pc' = "down" /\ pwfile = 0
    BY <1>13 DEF CrashInFirstRun
  <2>2. \A c \in disk : c.hash \notin Gen
    BY <1>2, <2>1, ConstantFacts
  <2>3. QED
    BY <2>1, <2>2 DEF InFile
<1>14. CASE Rotate
  BY <1>14 DEF Rotate, InFile
<1>15. CASE BlankByHand
  <2>1. \A c \in disk : [c EXCEPT !.hash = 0].hash = 0
    BY <1>1 DEF Configs
  <2>2. disk' = {[c EXCEPT !.hash = 0] : c \in disk} /\ pc' = "down"
    BY <1>15 DEF BlankByHand
  <2>3. \A d \in disk' : d.hash \notin Gen
    BY <2>1, <2>2, ConstantFacts
  <2>4. QED
    BY <2>2, <2>3 DEF InFile
<1>16. CASE UNCHANGED vars
  BY <1>16 DEF vars, InFile
<1>17. QED
  BY <1>3, <1>4, <1>5, <1>6, <1>7, <1>8, <1>9, <1>10, <1>11, <1>12, <1>13, <1>14, <1>15, <1>16, StepCases

\* Whatever step of the first run a crash cut short, a generated password that is
\* in force is the one in the first-run file (_first_run_password()).
THEOREM PasswordCanBeRead == Spec => []GeneratedIsInFile
<1>1. Init => InFile
  <2>1. Default.hash \notin Gen
    BY ConstantFacts DEF Default
  <2>2. QED
    BY <2>1 DEF Init, InFile
<1>2. TypeOK /\ InFile /\ [Next]_vars => InFile'
  BY StepInFile
<1>3. InFile => GeneratedIsInFile
  BY DEF InFile, GeneratedIsInFile
<1>4. QED
  BY <1>1, <1>2, <1>3, TypeCorrect, PTL DEF Spec

-----------------------------------------------------------------------------
(* A restart changes nothing *)

\* The file's text may lack the secret that was generated.
Behind(text) ==
  /\ text.hash = live.hash /\ text.job = live.job /\ text.file = live.file
  /\ ~env.managed => text.secret \in {0, live.secret}
  /\ ~text.file => text.key = live.key

\* Between the load and the save of the bootstrap the file lags behind by the
\* secret that was generated; after it, by nothing, unless a write was cut short.
InStep ==
  /\ pc \in {"index", "migrate", "version", "boot"} => \E c \in disk : Match(c, live)
  /\ pc = "hash" => live.hash = 0 /\ \E c \in disk : Behind(c)
  /\ pc = "up" => jobs = live.job /\ (torn \/ \E c \in disk : Match(c, live))

LEMMA SaveInStep ==
  ASSUME NEW text, NEW new, NEW auth, Save(text, new, auth), Match(text, new), InStep
  PROVE  InStep'
<1>1. CASE disk' = {text} /\ live' = new /\ jobs' = new.job /\ UNCHANGED pc
  BY <1>1 DEF Save, InStep, Match
<1>2. CASE WriteCutShort(text) /\ UNCHANGED <<live, jobs>> /\ pc' \in {"up", "down"}
  BY <1>2 DEF Save, InStep, WriteCutShort
<1>3. QED
  BY <1>1, <1>2 DEF Save

LEMMA StepInStep ==
  ASSUME TypeOK, InStep, [Next]_vars
  PROVE  InStep'
<1>1. live \in Configs /\ (\A c \in disk : c \in Configs)
  BY DEF TypeOK
<1>2. CASE Load
  <2>1. PICK c \in disk : live' = Resolved(c)
    BY <1>2 DEF Load
  <2>2. disk' = disk /\ env' = env /\ pc' = "index"
    BY <1>2 DEF Load
  <2>3. /\ live'.hash = c.hash /\ live'.file = c.file /\ live'.job = c.job
        /\ (~env.managed => live'.secret = c.secret) /\ (~c.file => live'.key = c.key)
    BY <1>1, <2>1, ResolvedIsConfig
  <2>4. QED
    BY <2>2, <2>3 DEF InStep, Match
<1>3. CASE InitDb
  BY <1>3, InitDbSteps DEF InStep, Match
<1>4. CASE BootSecret
  <2>1. PICK c \in disk : Match(c, live)
    BY <1>4 DEF BootSecret, InStep
  <2>2. disk' = disk /\ env' = env /\ torn' = torn
    BY <1>4 DEF BootSecret
  <2>3. CASE pc' = "up"
    <3>1. live' = live /\ jobs' = live'.job
      BY <1>4, <2>3 DEF BootSecret
    <3>2. QED
      BY <2>1, <2>2, <2>3, <3>1 DEF InStep, Match
  <2>4. CASE pc' = "hash"
    <3>1. live.hash = 0
      BY <1>4, <2>4 DEF BootSecret
    <3>2. /\ live'.hash = live.hash /\ live'.job = live.job /\ live'.file = live.file /\ live'.key = live.key
          /\ live.secret \in {0, live'.secret}
      BY <1>1, <1>4 DEF BootSecret, Configs
    <3>3. QED
      BY <2>1, <2>2, <2>4, <3>1, <3>2 DEF InStep, Match, Behind
  <2>5. pc' \in {"hash", "save", "up"}
    BY <1>4 DEF BootSecret
  <2>6. CASE pc' = "save"
    BY <2>6 DEF InStep
  <2>7. QED
    BY <2>3, <2>4, <2>5, <2>6
<1>5. CASE BootPassword
  <2>1. disk' = disk /\ env' = env /\ torn' = torn /\ pc' \in {"save", "up"}
    BY <1>5 DEF BootPassword
  <2>2. CASE pc' = "save"
    BY <2>2 DEF InStep
  <2>3. CASE pc' = "up"
    <3>1. live'.hash = 0 /\ jobs' = live'.job /\ (env.managed \/ \A c \in disk : c.secret # 0)
      <4>1. live'.hash = 0 /\ ~(~env.managed /\ \E c \in disk : c.secret = 0) /\ jobs' = live.job
        BY <1>5, <2>3 DEF BootPassword
      <4>2. live'.job = live.job
        BY <1>1, <1>5 DEF BootPassword, Configs
      <4>3. QED
        BY <4>1, <4>2
    <3>2. live' = live
      <4>1. live.hash = 0
        BY <1>5 DEF BootPassword, InStep
      <4>2. CASE \E x : live' = [live EXCEPT !.hash = x]
        <5>1. PICK x : live' = [live EXCEPT !.hash = x]
          BY <4>2
        <5>2. x = 0
          BY <1>1, <3>1, <5>1 DEF Configs
        <5>3. QED
          BY <1>1, <4>1, <5>1, <5>2 DEF Configs
      <4>3. QED
        BY <1>5, <4>2 DEF BootPassword
    <3>3. PICK c \in disk : Behind(c)
      BY <1>5 DEF BootPassword, InStep
    <3>4. Match(c, live)
      BY <3>1, <3>3 DEF Behind, Match
    <3>5. QED
      BY <2>1, <2>3, <3>1, <3>2, <3>4 DEF InStep, Match
  <2>4. QED
    BY <2>1, <2>2, <2>3
<1>6. CASE BootSave
  <2>1. live' = live /\ env' = env
    BY <1>6 DEF BootSave
  <2>2. CASE Write(Persistable(live)) /\ pc' = "up" /\ jobs' = live.job
    <3>1. Match(Persistable(live), live)
      BY <1>1, PersistableMatches
    <3>2. disk' = {Persistable(live)}
      BY <2>2 DEF Write
    <3>3. Match(Persistable(live), live)'
      BY <2>1, <3>1 DEF Match, Persistable, WithoutFileKeys
    <3>4. QED
      BY <2>1, <2>2, <3>2, <3>3 DEF InStep, Persistable, WithoutFileKeys
  <2>3. CASE pc' = "down"
    BY <2>3 DEF InStep
  <2>4. QED
    BY <1>6, <2>2, <2>3 DEF BootSave
<1>7. CASE Login
  BY <1>7 DEF Login, InStep, Match
<1>8. CASE SaveSettings
  <2>1. PICK text \in Configs, new \in Configs : Match(text, new) /\ Save(text, new, FALSE)
    BY <1>8, SettingsSave
  <2>2. QED
    BY <2>1, SaveInStep
<1>9. CASE SaveRaw
  <2>1. PICK text \in Configs, new \in Configs, old \in disk : Match(text, new) /\ Save(text, new, TRUE)
    BY <1>9, RawSave
  <2>2. QED
    BY <2>1, SaveInStep
<1>10. ASSUME NEW p \in Typed, ChangePassword(p)
       PROVE  InStep'
  <2>1. live' = [live EXCEPT !.hash = p] /\ env' = env /\ jobs' = jobs /\ pc = "up" /\ pc' \in {"up", "down"}
    BY <1>10 DEF ChangePassword
  <2>2. live' \in Configs /\ live'.job = live.job
    BY <1>1, <2>1 DEF Configs
  <2>3. jobs' = live'.job
    BY <2>1, <2>2 DEF InStep
  <2>4. CASE Write(Persistable(live'))
    <3> DEFINE text == Persistable(live')
    <3>1. disk' = {text} /\ Match(text, live')
      BY <2>2, <2>4, PersistableMatches DEF Write
    <3> HIDE DEF text
    <3>2. QED
      BY <2>1, <2>3, <3>1 DEF InStep, Match
  <2>5. CASE WriteCutShort(Persistable(live'))
    BY <2>1, <2>3, <2>5 DEF InStep, WriteCutShort
  <2>6. QED
    BY <1>10, <2>4, <2>5 DEF ChangePassword
<1>11. CASE Crash \/ CrashInFirstRun \/ BlankByHand
  BY <1>11 DEF Crash, CrashInFirstRun, BlankByHand, InStep
<1>12. CASE Rotate
  <2>1. pc # "down" => env'.managed = env.managed
    BY <1>12 DEF Rotate
  <2>2. disk' = disk /\ live' = live /\ pc' = pc /\ jobs' = jobs /\ torn' = torn
    BY <1>12 DEF Rotate
  <2>3. QED
    BY <2>1, <2>2 DEF InStep, Match, Behind
<1>13. CASE UNCHANGED vars
  BY <1>13 DEF vars, InStep, Match, Behind
<1>14. QED
  BY <1>2, <1>3, <1>4, <1>5, <1>6, <1>7, <1>8, <1>9, <1>10, <1>11, <1>12, <1>13, StepCases

\* Unless a write was cut short, the file says what runs and the cron job is armed
\* with it, so that a restart changes nothing but rotated secrets (save_config(),
\* save_auth(), _reschedule()).
THEOREM FileSaysWhatRuns == Spec => []RestartChangesNothing
<1>1. Init => InStep
  BY DEF Init, InStep
<1>2. TypeOK /\ InStep /\ [Next]_vars => InStep'
  BY StepInStep
<1>3. InStep => RestartChangesNothing
  BY DEF InStep, RestartChangesNothing, Match
<1>4. QED
  BY <1>1, <1>2, <1>3, TypeCorrect, PTL DEF Spec

-----------------------------------------------------------------------------
(* Sessions *)

\* The pair that the next start signs sessions with.
Signs(c) == <<IF env.managed THEN env.secret ELSE c.secret, c.hash>>

\* While no auth setting was lost, every session is signed with what runs and with
\* what the next start will run: no boot in between generates anything.
Signed ==
  /\ torn => hurt
  /\ ~hurt =>
       /\ env.secret # 0
       /\ pc # "down" /\ env.managed => live.secret = env.secret
       /\ pc \in {"hash", "save", "up"} => live.secret # 0
       /\ pc \in {"hash", "save"} => tokens = {}
       /\ pc # "down" => \A t \in tokens : t = <<live.secret, live.hash>>
       /\ \A t \in tokens : t[1] # 0 /\ t[2] # 0 /\ \E c \in disk : t = Signs(c)

\* A save that leaves the auth section what it was.
LEMMA SaveSigned ==
  ASSUME Signed, NEW text, NEW new, NEW auth, Save(text, new, auth), Match(text, new),
         new.secret = IF env.managed THEN env.secret ELSE text.secret,
         ~hurt' => new.secret = live.secret /\ new.hash = live.hash
  PROVE  Signed'
<1>1. CASE WriteCutShort(text)
  BY <1>1 DEF Signed, WriteCutShort
<1>2. CASE disk' = {text} /\ torn' = FALSE /\ live' = new /\ (hurt => hurt') /\ UNCHANGED pc
  <2>1. SUFFICES ASSUME ~hurt' PROVE Signed'
    BY <1>2 DEF Signed
  <2>2. env' = env /\ tokens' = tokens /\ pc = "up" /\ ~hurt
    BY <1>2, <2>1 DEF Save
  <2>3. /\ env.managed => live.secret = env.secret
        /\ live.secret # 0
        /\ \A t \in tokens : t = <<live.secret, live.hash>> /\ t[1] # 0 /\ t[2] # 0
        /\ env.secret # 0
    BY <2>2 DEF Signed
  <2>4. live'.secret = live.secret /\ live'.hash = live.hash
    BY <1>2, <2>1
  <2>5. Signs(text)' = <<live.secret, live.hash>>
    BY <1>2, <2>1, <2>2 DEF Signs, Match
  <2>6. QED
    BY <1>2, <2>1, <2>2, <2>3, <2>4, <2>5 DEF Signed
<1>3. QED
  BY <1>1, <1>2 DEF Save

LEMMA StepSigned ==
  ASSUME TypeOK, InStep, Signed, [Next]_vars
  PROVE  Signed'
<1>1. live \in Configs /\ (\A c \in disk : c \in Configs)
  BY DEF TypeOK
<1>2. CASE Load
  <2>1. PICK c \in disk : Readable(c) /\ live' = Resolved(c)
    BY <1>2 DEF Load
  <2>2. disk' = disk /\ env' = env /\ pc' = "index" /\ torn' = FALSE /\ hurt' = hurt /\ tokens' = tokens
    BY <1>2 DEF Load
  <2>3. live'.hash = c.hash /\ live'.secret = IF env.managed THEN env.secret ELSE c.secret
    BY <1>1, <2>1, ResolvedIsConfig
  <2>4. disk = {c}
    BY <2>1 DEF TypeOK
  <2>5. Signs(c) = <<live'.secret, live'.hash>>
    BY <2>3 DEF Signs
  <2>6. ASSUME ~hurt, NEW t \in tokens
        PROVE  t = <<live'.secret, live'.hash>>
    BY <2>4, <2>5, <2>6 DEF Signed
  <2>7. QED
    BY <2>2, <2>3, <2>6 DEF Signed, Signs
<1>3. CASE InitDb
  BY <1>3, InitDbSteps DEF Signed, Signs
<1>4. CASE BootSecret
  <2>1. disk' = disk /\ env' = env /\ torn' = torn /\ hurt' = hurt /\ tokens' = tokens /\ pc = "boot"
    BY <1>4 DEF BootSecret
  <2>2. SUFFICES ASSUME ~hurt PROVE Signed'
    BY <2>1 DEF Signed
  <2>3. \A t \in tokens : t = <<live.secret, live.hash>> /\ t[1] # 0 /\ t[2] # 0 /\ \E c \in disk : t = Signs(c)
    BY <2>1, <2>2 DEF Signed
  <2>4. tokens # {} => live.secret # 0 /\ live.hash # 0
    BY <2>3
  <2>5. pc' \in {"hash", "save"} => tokens = {}
    BY <1>4, <2>4 DEF BootSecret
  <2>6. live.secret # 0 => live' = live
    BY <1>4 DEF BootSecret
  <2>7. live'.secret # 0
    <3>1. CASE live.secret # 0
      BY <2>6, <3>1
    <3>2. CASE live.secret = 0
      <4>1. live' = [live EXCEPT !.secret = gen + 1]
        BY <1>4, <3>2 DEF BootSecret
      <4>2. gen + 1 # 0
        <5>1. gen \in 0..MaxGen
          BY DEF TypeOK
        <5>2. QED
          BY <5>1, ConstantsAssumption
      <4>3. QED
        BY <1>1, <4>1, <4>2 DEF Configs
    <3>3. QED
      BY <3>1, <3>2
  <2>8. env.managed => live'.secret = env.secret
    <3>1. env.managed => live.secret = env.secret /\ env.secret # 0
      BY <2>1, <2>2 DEF Signed
    <3>2. QED
      BY <2>6, <3>1
  <2>9. QED
    BY <2>1, <2>2, <2>3, <2>4, <2>5, <2>6, <2>7, <2>8 DEF Signed, Signs
<1>5. CASE BootPassword
  <2>1. /\ disk' = disk /\ env' = env /\ torn' = torn /\ hurt' = hurt /\ tokens' = tokens
        /\ pc = "hash" /\ pc' \in {"save", "up"}
    BY <1>5 DEF BootPassword
  <2>2. live'.secret = live.secret
    BY <1>1, <1>5 DEF BootPassword, Configs
  <2>3. QED
    BY <2>1, <2>2 DEF Signed
<1>6. CASE BootSave
  <2>1. live' = live /\ env' = env /\ tokens' = tokens /\ pc = "save" /\ pc' \in {"up", "down"}
    BY <1>6 DEF BootSave
  <2>2. (torn' = FALSE /\ hurt' = hurt) \/ hurt' = TRUE
    BY <1>6 DEF BootSave, Write, WriteCutShort
  <2>3. QED
    BY <2>1, <2>2 DEF Signed
<1>7. CASE Login
  <2>1. /\ disk' = disk /\ env' = env /\ torn' = torn /\ hurt' = hurt /\ live' = live /\ pc = "up" /\ pc' = pc
        /\ tokens' = tokens \cup {<<live.secret, live.hash>>} /\ live.hash # 0
    BY <1>7 DEF Login, Session
  <2>2. SUFFICES ASSUME ~hurt PROVE Signed'
    BY <2>1 DEF Signed
  <2>3. ~torn /\ live.secret # 0 /\ (env.managed => live.secret = env.secret)
    BY <2>1, <2>2 DEF Signed
  <2>4. PICK c \in disk : Match(c, live)
    BY <2>1, <2>3 DEF InStep
  <2>5. Signs(c) = <<live.secret, live.hash>>
    BY <2>3, <2>4 DEF Signs, Match
  <2>6. QED
    BY <2>1, <2>2, <2>3, <2>5 DEF Signed, Signs
<1>8. CASE SaveSettings
  <2>1. PICK text \in Configs, new \in Configs :
          /\ Match(text, new) /\ Save(text, new, FALSE)
          /\ new.hash = live.hash
          /\ new.secret = IF env.managed THEN env.secret ELSE live.secret
    BY <1>8, SettingsSave
  <2>2. new.secret = IF env.managed THEN env.secret ELSE text.secret
    BY <2>1 DEF Match
  <2>3. ~hurt' => new.secret = live.secret
    BY <2>1 DEF Signed, Save, WriteCutShort
  <2>4. QED
    BY <2>1, <2>2, <2>3, SaveSigned
<1>9. CASE SaveRaw
  <2>1. PICK text \in Configs, new \in Configs, old \in disk :
          /\ Match(text, new) /\ Save(text, new, TRUE)
          /\ new.secret = IF env.managed THEN env.secret ELSE text.secret
    BY <1>9, RawSave
  <2>2. ~hurt' => new.secret = live.secret /\ new.hash = live.hash
    BY <2>1 DEF Save, WriteCutShort
  <2>3. QED
    BY <2>1, <2>2, SaveSigned
<1>10. ASSUME NEW p \in Typed, ChangePassword(p)
       PROVE  Signed'
  <2>1. live' = [live EXCEPT !.hash = p] /\ env' = env /\ tokens' = {} /\ pc = "up" /\ pc' \in {"up", "down"}
    BY <1>10 DEF ChangePassword
  <2>2. live'.secret = live.secret
    BY <1>1, <2>1 DEF Configs
  <2>3. (torn' = FALSE /\ hurt' = hurt) \/ hurt' = TRUE
    BY <1>10 DEF ChangePassword, Write, WriteCutShort
  <2>4. QED
    BY <2>1, <2>2, <2>3 DEF Signed
<1>11. CASE Crash \/ CrashInFirstRun
  BY <1>11 DEF Crash, CrashInFirstRun, Signed, Signs
<1>12. CASE Rotate \/ BlankByHand
  <2>1. hurt' = TRUE
    BY <1>12 DEF Rotate, BlankByHand
  <2>2. QED
    BY <2>1 DEF Signed
<1>13. CASE UNCHANGED vars
  BY <1>13 DEF vars, Signed, Signs
<1>14. QED
  BY <1>2, <1>3, <1>4, <1>5, <1>6, <1>7, <1>8, <1>9, <1>10, <1>11, <1>12, <1>13, StepCases

\* A session stays good over every restart and save, as long as the auth settings
\* are neither lost nor changed from outside (create_session(), _first_run_password()).
THEOREM SessionsStayGood == Spec => []SessionsSurvive
<1>1. Init => InStep /\ Signed
  <2>1. SUFFICES ASSUME Init PROVE InStep /\ Signed
    OBVIOUS
  <2>2. env.secret # 0
    <3>1. PICK m \in BOOLEAN, s \in Outside : env = [managed |-> m, secret |-> s, key |-> s]
      BY <2>1 DEF Init
    <3>2. QED
      BY <3>1, ConstantFacts
  <2>3. QED
    BY <2>1, <2>2 DEF Init, InStep, Signed
<1>2. TypeOK /\ InStep /\ Signed /\ [Next]_vars => InStep' /\ Signed'
  BY StepInStep, StepSigned
<1>3. Signed => SessionsSurvive
  BY DEF Signed, SessionsSurvive, Accepts, Session
<1>4. QED
  BY <1>1, <1>2, <1>3, TypeCorrect, PTL DEF Spec

=============================================================================
