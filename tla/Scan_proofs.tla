---------------------------- MODULE Scan_proofs ----------------------------
(***************************************************************************)
(* Proofs about a scan, for every value of the constants: the lock it runs  *)
(* under (ScanLock), what it makes of a file (Tagging), and the settings    *)
(* that it draws the result with (ImageSettings).                           *)
(***************************************************************************)
EXTENDS ScanLock, Tagging, ImageSettings, FiniteSetTheorems, WellFoundedInduction, TLAPS

-----------------------------------------------------------------------------
(* The lock *)

\* The thread, if any, whose step is taken.
LEMMA StepCases ==
  ASSUME [Next]_vars
  PROVE  \/ \E t \in Threads : Spawn(t) \/ Start(t) \/ Skip(t)
         \/ \E t \in Threads : Finish(t) \/ Raise(t) \/ Close(t) \/ CloseRaises(t)
         \/ Cancel
         \/ Restart
         \/ UNCHANGED vars
BY DEF Next, Run

\* The fields of ScanProgress and the places of the threads keep their types,
\* whatever the threads are.
THEOREM TypeCorrect == Spec => []TypeOK
<1>1. Init => TypeOK
  BY DEF Init, TypeOK, Errors
<1>2. TypeOK /\ [Next]_vars => TypeOK'
  <2> SUFFICES ASSUME TypeOK, [Next]_vars
               PROVE  TypeOK'
    OBVIOUS
  <2>1. CASE \E t \in Threads : Spawn(t) \/ Start(t) \/ Skip(t)
    BY <2>1 DEF TypeOK, Spawn, Start, Skip, Acquired, Errors
  <2>2. CASE \E t \in Threads : Finish(t) \/ Raise(t) \/ Close(t) \/ CloseRaises(t)
    BY <2>2 DEF TypeOK, Finish, Raise, Close, CloseRaises, Released, Errors
  <2>3. CASE Cancel
    BY <2>3 DEF TypeOK, Cancel
  <2>4. CASE Restart
    BY <2>4 DEF TypeOK, Restart, Errors
  <2>5. CASE UNCHANGED vars
    BY <2>5 DEF TypeOK, vars
  <2>6. QED
    BY <2>1, <2>2, <2>3, <2>4, <2>5, StepCases
<1>3. QED
  BY <1>1, <1>2, PTL DEF Spec

\* A cancel never reaches a run it was not accepted for, even when a clean-up
\* that raises has let two runs overlap.
THEOREM CancelStaysInItsRun == Spec => []CancelIsForThisRun
<1>1. Init => CancelIsForThisRun
  BY DEF Init, CancelIsForThisRun
<1>2. CancelIsForThisRun /\ [Next]_vars => CancelIsForThisRun'
  <2> SUFFICES ASSUME CancelIsForThisRun, [Next]_vars
               PROVE  CancelIsForThisRun'
    OBVIOUS
  <2>1. CASE \E t \in Threads : Spawn(t) \/ Start(t) \/ Skip(t)
    <3>1. ASSUME NEW t \in Threads, Start(t)
          PROVE  cancelled' = FALSE /\ asked' = FALSE
      BY <3>1 DEF Start, Acquired
    <3>2. ASSUME NEW t \in Threads, Spawn(t) \/ Skip(t)
          PROVE  UNCHANGED <<running, cancelled, asked>>
      BY <3>2 DEF Spawn, Skip
    <3>3. QED
      BY <2>1, <3>1, <3>2, Zenon DEF CancelIsForThisRun
  <2>2. CASE \E t \in Threads : Finish(t) \/ Raise(t) \/ Close(t) \/ CloseRaises(t)
    <3>1. running' = FALSE \/ UNCHANGED running
      BY <2>2 DEF Finish, Raise, Close, CloseRaises, Released
    <3>2. UNCHANGED <<cancelled, asked>>
      BY <2>2 DEF Finish, Raise, Close, CloseRaises, Released
    <3>3. QED
      BY <3>1, <3>2, Zenon DEF CancelIsForThisRun
  <2>3. CASE Cancel
    BY <2>3 DEF CancelIsForThisRun, Cancel
  <2>4. CASE Restart
    BY <2>4 DEF CancelIsForThisRun, Restart
  <2>5. CASE UNCHANGED vars
    BY <2>5 DEF CancelIsForThisRun, vars
  <2>6. QED
    BY <2>1, <2>2, <2>3, <2>4, <2>5, StepCases
<1>3. QED
  BY <1>1, <1>2, PTL DEF Spec

-----------------------------------------------------------------------------
(* Mutual exclusion.  The lock has no owner, so the invariant that makes it   *)
(* a mutex says who holds it: the one running thread does whenever the flag   *)
(* is up.  A clean-up that raises after finish() would break it.              *)

LockInv ==
  /\ OneRun
  /\ running => \E t \in Threads : pc[t] = "running"

LEMMA InitLockInv == Init => LockInv
BY DEF Init, LockInv, OneRun

LEMMA NextLockInv ==
  ASSUME TypeOK, LockInv, [Next]_vars
  PROVE  LockInv'
<1>1. CASE \E t \in Threads : Spawn(t) \/ Skip(t) \/ Close(t)
  BY <1>1 DEF TypeOK, LockInv, OneRun, Spawn, Skip, Ready, Close
<1>2. CASE \E t \in Threads : Start(t)
  BY <1>2 DEF TypeOK, LockInv, OneRun, Start, Acquired
<1>3. CASE \E t \in Threads : Finish(t)
  BY <1>3 DEF TypeOK, LockInv, OneRun, Finish, Released
<1>4. CASE \E t \in Threads : Raise(t)
  BY <1>4 DEF TypeOK, LockInv, OneRun, Raise, Released
<1>5. CASE \E t \in Threads : CloseRaises(t)
  BY <1>5 DEF TypeOK, LockInv, OneRun, CloseRaises
<1>6. CASE Cancel
  BY <1>6 DEF LockInv, OneRun, Cancel
<1>7. CASE Restart
  BY <1>7 DEF LockInv, OneRun, Restart
<1>8. CASE UNCHANGED vars
  BY <1>8 DEF LockInv, OneRun, vars
<1>9. QED
  BY <1>1, <1>2, <1>3, <1>4, <1>5, <1>6, <1>7, <1>8, StepCases

\* At most one scan or reconciliation runs, for any number of threads, until a
\* clean-up that raises after finish() ends a run of another thread's.
THEOREM MutualExclusion == Spec => []OneRun
<1>1. TypeOK /\ LockInv /\ [Next]_vars => LockInv'
  BY NextLockInv
<1>2. LockInv => OneRun
  BY DEF LockInv
<1>3. QED
  BY InitLockInv, TypeCorrect, <1>1, <1>2, PTL DEF Spec

-----------------------------------------------------------------------------
(* The flag implements the abstract mutex. *)

LEMMA HolderOfRun ==
  ASSUME NEW t \in Threads, ~foreign, OneRun, pc[t] = "running"
  PROVE  Holder = t
BY DEF Holder, OneRun

LEMMA HolderOfNone ==
  ASSUME foreign \/ \A t \in Threads : pc[t] # "running"
  PROVE  Holder = NoThread
BY DEF Holder

LEMMA HolderType == Holder \in Threads \cup {NoThread}
BY DEF Holder

LEMMA StepImplementsMutex ==
  ASSUME TypeOK, LockInv, LockInv', [Next]_vars
  PROVE  [Mutex!Next]_Holder
<1> USE DEF Mutex!Next, Mutex!Acquire, Mutex!Release
<1>1. CASE \E t \in Threads : Spawn(t) \/ Skip(t) \/ Close(t)
  <2>1. \A t \in Threads : pc'[t] = "running" <=> pc[t] = "running"
    BY <1>1 DEF TypeOK, Spawn, Skip, Ready, Close
  <2>2. QED
    BY <2>1 DEF Holder
<1>2. ASSUME NEW t \in Threads, ~foreign, Start(t)
      PROVE  [Mutex!Next]_Holder
  <2>1. \A s \in Threads : pc[s] # "running"
    BY <1>2 DEF LockInv, OneRun, Start, Acquired
  <2>2. Holder = NoThread
    BY <2>1, HolderOfNone
  <2>3. pc'[t] = "running" /\ ~foreign'
    BY <1>2 DEF TypeOK, Start
  <2>4. Holder' = t
    BY <2>3 DEF LockInv, OneRun, Holder
  <2>5. QED
    BY <2>2, <2>4
<1>3. ASSUME NEW t \in Threads, ~foreign, Finish(t) \/ Raise(t)
      PROVE  [Mutex!Next]_Holder
  <2>1. pc[t] = "running"
    BY <1>3 DEF Finish, Raise
  <2>2. Holder = t
    BY <1>3, <2>1, HolderOfRun DEF LockInv
  <2>3. \A s \in Threads : pc'[s] # "running"
    BY <1>3, <2>1 DEF TypeOK, LockInv, OneRun, Finish, Raise, Released
  <2>4. Holder' = NoThread
    BY <2>3 DEF Holder
  <2>5. QED
    BY <2>2, <2>4
<1>4. ASSUME NEW t \in Threads, foreign \/ CloseRaises(t),
             Start(t) \/ Finish(t) \/ Raise(t) \/ CloseRaises(t)
      PROVE  [Mutex!Next]_Holder
  <2>1. CASE foreign'
    BY <2>1, HolderType DEF Holder
  <2>2. CASE ~foreign'
    <3>1. ~foreign /\ UNCHANGED foreign /\ CloseRaises(t)
      BY <1>4, <2>2 DEF TypeOK, Start, Finish, Raise, CloseRaises
    <3>2. \A s \in Threads : pc'[s] = "running" <=> pc[s] = "running"
      BY <3>1 DEF TypeOK, CloseRaises
    <3>3. QED
      BY <3>1, <3>2 DEF Holder
  <2>3. QED
    BY <2>1, <2>2
<1>5. CASE Cancel \/ UNCHANGED vars
  BY <1>5 DEF Cancel, vars, Holder
<1>6. CASE Restart
  <2>1. Holder' = NoThread
    BY <1>6 DEF Restart, Holder
  <2>2. QED
    BY <2>1, HolderType
<1>7. QED
  BY <1>1, <1>2, <1>3, <1>4, <1>5, <1>6, StepCases

\* The ownerless flag and the callers that share it implement a mutex that has
\* an owner, until a late clean-up ends a run that is not its own.
THEOREM FlagImplementsMutex == Spec => ImplementsMutex
<1>1. Init => Mutex!Init
  BY HolderOfNone DEF Init, Mutex!Init
<1>2. TypeOK /\ LockInv /\ [Next]_vars => LockInv'
  BY NextLockInv
<1>3. TypeOK /\ LockInv /\ LockInv' /\ [Next]_vars => [Mutex!Next]_Holder
  BY StepImplementsMutex
<1>4. QED
  BY InitLockInv, TypeCorrect, <1>1, <1>2, <1>3, PTL DEF Spec, ImplementsMutex, Mutex!Spec

-----------------------------------------------------------------------------
(* The image settings *)

\* Settings as a validation leaves them.
InEffect(s) ==
  /\ s.version >= PaletteVersion
  /\ \A f \in Fields : s.colours[f] \in DOMAIN Hex /\ Hex[s.colours[f]] = s.colours[f]
  /\ s.size \in {"desktop", "tv", "tv_plus"} /\ s.corner \in Corner
  /\ AsSpelled(s.prefer)

\* A code in capitals is in capitals.
Capitalized(prefer) ==
  \A i \in DOMAIN prefer : Capitals[prefer[i]] \in STRING /\ Capitals[Capitals[prefer[i]]] = Capitals[prefer[i]]

LEMMA PaletteOf ==
  ASSUME NEW d \in Sections
  PROVE  /\ Palette(d) \in Sections /\ Palette(d).version >= PaletteVersion
         /\ d.version >= PaletteVersion => Palette(d) = d
         /\ Palette(d).size = d.size /\ Palette(d).corner = d.corner /\ Palette(d).prefer = d.prefer
         /\ \A f \in Fields : Palette(d).colours[f] =
              IF d.version < PaletteVersion /\ d.colours[f] \in OldDefaults[f] THEN NewDefault[f] ELSE d.colours[f]
<1> DEFINE moved == [f \in Fields |-> IF d.colours[f] \in OldDefaults[f] THEN NewDefault[f] ELSE d.colours[f]]
<1>1. d.version \in Int /\ d.colours \in [Fields -> STRING]
  BY DEF Sections
<1>2. \A f \in Fields : NewDefault[f] \in STRING
  BY ImageAssumption
<1>3. moved \in [Fields -> STRING]
  BY <1>1, <1>2
<1>4. \A f \in Fields : moved[f] = IF d.colours[f] \in OldDefaults[f] THEN NewDefault[f] ELSE d.colours[f]
  OBVIOUS
<1>5. Palette(d) = IF d.version >= PaletteVersion THEN d ELSE [d EXCEPT !.colours = moved, !.version = PaletteVersion]
  BY DEF Palette
<1> HIDE DEF moved
<1>6. CASE d.version >= PaletteVersion
  <2>1. Palette(d) = d
    BY <1>5, <1>6
  <2>2. ~(d.version < PaletteVersion)
    BY <1>1, <1>6 DEF PaletteVersion
  <2>3. QED
    BY <1>6, <2>1, <2>2
<1>7. CASE d.version < PaletteVersion
  <2>1. Palette(d) = [d EXCEPT !.colours = moved, !.version = PaletteVersion]
    BY <1>1, <1>5, <1>7 DEF PaletteVersion
  <2>2. Palette(d) \in Sections /\ Palette(d).version = PaletteVersion /\ Palette(d).colours = moved
    <3> DEFINE e == [d EXCEPT !.colours = moved]
    <3>1. e \in Sections /\ e.colours = moved
      BY <1>3 DEF Sections
    <3>2. Palette(d) = [e EXCEPT !.version = PaletteVersion]
      BY <2>1
    <3> HIDE DEF e
    <3>3. QED
      BY <3>1, <3>2 DEF Sections, PaletteVersion
  <2>3. Palette(d).size = d.size /\ Palette(d).corner = d.corner /\ Palette(d).prefer = d.prefer
    BY <2>1 DEF Sections
  <2>4. QED
    BY <1>1, <1>4, <1>7, <2>2, <2>3 DEF PaletteVersion
<1>8. QED
  BY <1>1, <1>6, <1>7 DEF PaletteVersion

LEMMA NormalizedColour ==
  ASSUME NEW c
  PROVE  \/ c \notin DOMAIN Hex /\ Normalized(c) = "none"
         \/ /\ c \in DOMAIN Hex /\ Normalized(c) \in STRING \ {"none"}
            /\ Normalized(c) \in DOMAIN Hex /\ Hex[Normalized(c)] = Normalized(c)
BY ImageAssumption DEF Normalized

LEMMA SizeOf ==
  /\ \A v \in DOMAIN Size : Size[v] \in {"desktop", "tv", "tv_plus"} /\ Size[v] \in STRING
  /\ \A v \in {"desktop", "tv", "tv_plus"} : v \in DOMAIN Size /\ Size[v] = v
<1>1. DOMAIN Size = {"small", "medium", "large", "desktop", "tv", "tv_plus", "missing"}
  BY DEF Size
<1>2. Size["small"] = "desktop" /\ Size["medium"] = "tv" /\ Size["large"] = "tv_plus" /\ Size["missing"] = "tv"
  BY DEF Size
<1>3. Size["desktop"] = "desktop" /\ Size["tv"] = "tv" /\ Size["tv_plus"] = "tv_plus"
  BY DEF Size
<1>4. ASSUME NEW v \in DOMAIN Size
      PROVE  Size[v] \in {"desktop", "tv", "tv_plus"}
  BY <1>1, <1>2, <1>3
<1>5. \A w \in {"desktop", "tv", "tv_plus"} : w \in STRING
  BY ImageAssumption
<1>6. QED
  BY <1>1, <1>3, <1>4, <1>5

\* What a validation makes of a section is settled, and its colours are the ones
\* chosen.
LEMMA SettledInEffect ==
  ASSUME NEW d \in Sections, Accepted(d, FALSE), NEW p \in Seq(STRING), AsSpelled(p)
  PROVE  /\ Settled(d, p) \in Sections /\ InEffect(Settled(d, p))
         /\ Settled(d, p).colours = [f \in Fields |-> Choice(d, f)]
         /\ Settled(d, p).prefer = p
<1> DEFINE P == Palette(d)
           col == [f \in Fields |-> LET c == Normalized(P.colours[f]) IN IF c = "none" THEN NewDefault[f] ELSE c]
           cor == IF d.corner \in Corner THEN d.corner ELSE "top-left"
<1>1. P \in Sections /\ P.version >= PaletteVersion /\ P.version \in Int
  BY PaletteOf DEF Sections
<1>2. ASSUME NEW f \in Fields
      PROVE  /\ col[f] \in STRING /\ col[f] \in DOMAIN Hex /\ Hex[col[f]] = col[f]
             /\ col[f] = Choice(d, f)
  <2> DEFINE c == P.colours[f]
  <2>1. col[f] = IF Normalized(c) = "none" THEN NewDefault[f] ELSE Normalized(c)
    OBVIOUS
  <2>2. NewDefault[f] \in STRING /\ NewDefault[f] \in DOMAIN Hex /\ Hex[NewDefault[f]] = NewDefault[f]
    BY ImageAssumption
  <2>3. c = IF d.version < PaletteVersion /\ d.colours[f] \in OldDefaults[f] THEN NewDefault[f] ELSE d.colours[f]
    BY PaletteOf
  <2>4. Normalized(NewDefault[f]) = NewDefault[f]
    BY <2>2 DEF Normalized
  <2> HIDE DEF col, c, P
  <2>5. col[f] \in STRING /\ col[f] \in DOMAIN Hex /\ Hex[col[f]] = col[f]
    BY <2>1, <2>2, NormalizedColour
  <2>6. col[f] = Choice(d, f)
    <3>1. CASE d.version < PaletteVersion /\ d.colours[f] \in OldDefaults[f]
      BY <2>1, <2>3, <2>4, <3>1 DEF Choice
    <3>2. CASE ~(d.version < PaletteVersion /\ d.colours[f] \in OldDefaults[f])
      BY <2>1, <2>3, <3>2 DEF Choice
    <3>3. QED
      BY <3>1, <3>2
  <2>7. QED
    BY <2>5, <2>6
<1>3. Size[d.size] \in STRING /\ Size[d.size] \in {"desktop", "tv", "tv_plus"}
  BY SizeOf DEF Accepted
<1>4. cor \in STRING /\ cor \in Corner
  <2>1. CASE d.corner \in Corner
    <3>1. cor = d.corner
      BY <2>1
    <3> HIDE DEF cor
    <3>2. QED
      BY <2>1, <3>1, ImageAssumption
  <2>2. CASE d.corner \notin Corner
    <3>1. cor = "top-left"
      BY <2>2
    <3>2. "top-left" \in STRING /\ "top-left" \in Corner
      BY ImageAssumption DEF Corner
    <3> HIDE DEF cor
    <3>3. QED
      BY <3>1, <3>2
  <2>3. QED
    BY <2>1, <2>2
<1>5. Settled(d, p) = [version |-> P.version, colours |-> col, size |-> Size[d.size], corner |-> cor, prefer |-> p]
  BY DEF Settled
<1>6. col = [f \in Fields |-> Choice(d, f)] /\ col \in [Fields -> STRING]
  BY <1>2
<1> HIDE DEF P, col, cor
<1>7. Settled(d, p) \in Sections
  BY <1>1, <1>3, <1>4, <1>5, <1>6 DEF Sections
<1>8. InEffect(Settled(d, p))
  BY <1>1, <1>2, <1>3, <1>4, <1>5 DEF InEffect
<1>9. QED
  BY <1>5, <1>6, <1>7, <1>8

\* Settled settings are accepted, and come back as they are.
LEMMA InEffectStays ==
  ASSUME NEW s \in Sections, InEffect(s)
  PROVE  Accepted(s, TRUE) /\ Settled(s, s.prefer) = s
<1>1. Palette(s) = s
  <2>1. s.version >= PaletteVersion
    BY DEF InEffect
  <2>2. QED
    BY <2>1, PaletteOf
<1>2. \A f \in Fields : Normalized(s.colours[f]) = s.colours[f] /\ s.colours[f] # "none"
  <2>1. \A f \in Fields : s.colours[f] \in DOMAIN Hex /\ Hex[s.colours[f]] = s.colours[f]
    BY DEF InEffect
  <2>2. "none" \notin DOMAIN Hex
    BY ImageAssumption
  <2>3. QED
    BY <2>1, <2>2 DEF Normalized
<1>3. s.size \in DOMAIN Size /\ Size[s.size] = s.size
  BY SizeOf DEF InEffect
<1>4. Accepted(s, TRUE)
  BY <1>1, <1>2, <1>3 DEF Accepted
<1> DEFINE col == [f \in Fields |-> LET c == Normalized(s.colours[f]) IN IF c = "none" THEN NewDefault[f] ELSE c]
<1>5. col = s.colours
  BY <1>2 DEF Sections
<1>6. Settled(s, s.prefer) =
        [version |-> s.version, colours |-> col, size |-> Size[s.size],
         corner |-> IF s.corner \in Corner THEN s.corner ELSE "top-left", prefer |-> s.prefer]
  BY <1>1 DEF Settled
<1> HIDE DEF col
<1>7. s.corner \in Corner
  BY DEF InEffect
<1>8. QED
  BY <1>3, <1>4, <1>5, <1>6, <1>7 DEF Sections

\* What the loop over the preferred languages has made of those it has read.
ReadInv ==
  /\ read <= Len(draft.prefer)
  /\ AsSpelled(codes)
  /\ AsSpelled(draft.prefer) => Len(codes) = read /\ \A i \in 1..read : codes[i] = draft.prefer[i]
  /\ Capitalized(draft.prefer) /\ Capitalized(file.prefer)

\* What is in effect, what was saved and what is being validated.
FileInv ==
  /\ \A s \in image : InEffect(s) /\ s.colours = wanted /\ (saved # {} => s \in saved)
  /\ \A s \in saved : InEffect(s) /\ s.colours = wanted /\ s = file
  /\ saved = {} => wanted = [f \in Fields |-> Choice(file, f)]
  /\ pass = "start" => draft = file
  /\ pass = "save" => \E s \in image, f \in Fields, c \in Picked : draft = [s EXCEPT !.colours[f] = c]

LEMMA SpelledIsCapitalized ==
  ASSUME NEW p \in Seq(STRING), AsSpelled(p)
  PROVE  Capitalized(p)
<1>1. \A i \in DOMAIN p : p[i] \in STRING
  OBVIOUS
<1>2. QED
  BY <1>1 DEF AsSpelled, Capitalized

\* What the form sends is a section whose colours are there.
LEMMA PickedSection ==
  ASSUME NEW s \in Sections, InEffect(s), NEW g \in Fields, NEW c \in Picked
  PROVE  LET d == [s EXCEPT !.colours[g] = c] IN
           /\ d \in Sections /\ d.version >= PaletteVersion /\ d.prefer = s.prefer
           /\ \A f \in Fields : d.colours[f] # "missing"
<1> DEFINE col == [s.colours EXCEPT ![g] = c]
           d == [s EXCEPT !.colours = col]
<1>1. c \in STRING /\ c # "missing" /\ "missing" \notin DOMAIN Hex
  BY ImageAssumption
<1>2. s.colours \in [Fields -> STRING]
  BY DEF Sections
<1>3. col \in [Fields -> STRING]
  BY <1>1, <1>2
<1>4. \A f \in Fields : s.colours[f] \in DOMAIN Hex
  BY DEF InEffect
<1>5. \A f \in Fields : col[f] # "missing"
  BY <1>1, <1>2, <1>4
<1>6. [s EXCEPT !.colours[g] = c] = d
  BY DEF Sections
<1> HIDE DEF col
<1>7. d \in Sections /\ d.version = s.version /\ d.prefer = s.prefer /\ d.colours = col
  BY <1>3 DEF Sections
<1>8. s.version >= PaletteVersion
  BY DEF InEffect
<1>9. QED
  BY <1>5, <1>6, <1>7, <1>8

\* A code more, as _normalise_prefer_languages() appends it.
LEMMA CodeRead ==
  ASSUME ImageTypeOK, ReadInv, NextCode
  PROVE  ReadInv' /\ codes' \in Seq(STRING)
<1> DEFINE x == draft.prefer[read + 1]
           c == Capitals[x]
           skip == c \in {"", "UND"} \/ \E i \in DOMAIN codes : codes[i] = c
<1>1. /\ draft.prefer \in Seq(STRING) /\ codes \in Seq(STRING) /\ read \in Nat /\ read < Len(draft.prefer)
      /\ read' = read + 1 /\ draft' = draft /\ file' = file
  BY DEF ImageTypeOK, NextCode, Sections
<1>2. read + 1 \in DOMAIN draft.prefer /\ Len(draft.prefer) \in Nat
  BY <1>1
<1>3. c \in STRING /\ Capitals[c] = c
  BY <1>2 DEF ReadInv, Capitalized
<1>4. codes' = IF skip THEN codes ELSE Append(codes, c)
  BY DEF NextCode
<1> HIDE DEF c, skip
<1>5. codes' \in Seq(STRING)
  <2>1. CASE skip
    BY <1>1, <1>4, <2>1
  <2>2. CASE ~skip
    <3>1. codes' = Append(codes, c)
      BY <1>4, <2>2
    <3>2. QED
      BY <1>1, <1>3, <3>1
  <2>3. QED
    BY <2>1, <2>2
<1>6. AsSpelled(codes')
  <2>1. CASE skip
    BY <1>4, <2>1 DEF ReadInv
  <2>2. CASE ~skip
    <3>1. codes' = Append(codes, c) /\ DOMAIN codes' = 1..(Len(codes) + 1) /\ codes'[Len(codes) + 1] = c
      BY <1>1, <1>4, <2>2
    <3>2. \A i \in DOMAIN codes : codes'[i] = codes[i]
      BY <1>1, <3>1
    <3>3. c \notin {"", "UND"} /\ \A i \in DOMAIN codes : codes[i] # c
      BY <2>2 DEF skip
    <3> SUFFICES ASSUME NEW i \in DOMAIN codes'
                 PROVE  /\ Capitals[codes'[i]] = codes'[i] /\ codes'[i] \notin {"", "UND"}
                        /\ \A j \in 1..(i - 1) : codes'[j] # codes'[i]
      BY DEF AsSpelled
    <3>4. CASE i = Len(codes) + 1
      <4>1. \A j \in 1..(i - 1) : j \in DOMAIN codes
        BY <1>1, <3>4
      <4>2. codes'[i] = c
        BY <3>1, <3>4
      <4>3. QED
        BY <1>3, <3>2, <3>3, <4>1, <4>2
    <3>5. CASE i # Len(codes) + 1
      <4>1. i \in DOMAIN codes /\ \A j \in 1..(i - 1) : j \in DOMAIN codes
        BY <1>1, <3>1, <3>5
      <4>2. QED
        BY <3>2, <4>1 DEF ReadInv, AsSpelled
    <3>6. QED
      BY <3>4, <3>5
  <2>3. QED
    BY <2>1, <2>2
<1>7. ASSUME AsSpelled(draft.prefer)
      PROVE  Len(codes') = read + 1 /\ \A i \in 1..(read + 1) : codes'[i] = draft.prefer[i]
  <2>1. Len(codes) = read /\ \A i \in 1..read : codes[i] = draft.prefer[i]
    BY <1>7 DEF ReadInv
  <2>2. c = x /\ x \notin {"", "UND"} /\ \A j \in 1..read : draft.prefer[j] # x
    <3>1. PICK i \in DOMAIN draft.prefer : i = read + 1
      BY <1>2
    <3>2. /\ Capitals[draft.prefer[i]] = draft.prefer[i] /\ draft.prefer[i] \notin {"", "UND"}
          /\ \A j \in 1..(i - 1) : draft.prefer[j] # draft.prefer[i]
      BY <1>7, Zenon DEF AsSpelled
    <3>3. i - 1 = read /\ draft.prefer[i] = x
      BY <1>1, <3>1
    <3>4. QED
      BY <3>2, <3>3 DEF c
  <2>3. ~skip
    <3>1. \A i \in DOMAIN codes : i \in 1..read
      BY <1>1, <2>1
    <3>2. QED
      BY <2>1, <2>2, <3>1 DEF skip
  <2>4. codes' = Append(codes, x)
    BY <1>4, <2>2, <2>3
  <2> HIDE DEF x
  <2>5. Len(codes') = read + 1 /\ codes'[read + 1] = x /\ \A i \in 1..read : codes'[i] = codes[i]
    BY <1>1, <2>1, <2>4
  <2>6. QED
    BY <1>1, <2>1, <2>5 DEF x
<1>8. QED
  BY <1>1, <1>2, <1>5, <1>6, <1>7 DEF ReadInv

\* A validation begins with nothing read.
LEMMA ReadFromTheStart ==
  ASSUME ImageTypeOK, NEW d \in Sections, Capitalized(d.prefer), Capitalized(file'.prefer),
         NEW why, Validate(d, why)
  PROVE  ReadInv'
<1>1. draft' = d /\ read' = 0 /\ codes' = <<>> /\ d.prefer \in Seq(STRING)
  BY DEF Validate, Sections
<1>2. AsSpelled(<<>>)
  <2>1. \A i \in DOMAIN <<>> : FALSE
    OBVIOUS
  <2>2. QED
    BY <2>1 DEF AsSpelled
<1>3. QED
  BY <1>1, <1>2 DEF ReadInv

LEMMA ImageInitHolds == ImageInit => ImageTypeOK /\ ReadInv /\ FileInv
<1> SUFFICES ASSUME ImageInit
             PROVE  ImageTypeOK /\ ReadInv /\ FileInv
  OBVIOUS
<1>1. /\ file \in Written /\ file \in Sections /\ file.prefer \in Seq(STRING) /\ draft = file
      /\ read = 0 /\ codes = <<>> /\ image = {} /\ saved = {}
  BY ImageAssumption DEF ImageInit, Sections
<1>2. \A f \in Fields : Choice(file, f) \in STRING
  <2> SUFFICES ASSUME NEW f \in Fields
               PROVE  Choice(file, f) \in STRING
    OBVIOUS
  <2>1. NewDefault[f] \in STRING
    BY ImageAssumption
  <2>2. Normalized(file.colours[f]) = "none" \/ Normalized(file.colours[f]) \in STRING
    BY NormalizedColour
  <2>3. QED
    BY <2>1, <2>2 DEF Choice
<1>3. ImageTypeOK
  BY <1>1, <1>2 DEF ImageInit, ImageTypeOK
<1>4. Capitalized(file.prefer)
  BY <1>1, ImageAssumption DEF Capitalized
<1>5. AsSpelled(codes)
  <2>1. \A i \in DOMAIN codes : FALSE
    BY <1>1
  <2>2. QED
    BY <2>1 DEF AsSpelled
<1>6. ReadInv
  BY <1>1, <1>4, <1>5 DEF ReadInv
<1>7. FileInv
  BY <1>1 DEF ImageInit, FileInv
<1>8. QED
  BY <1>3, <1>6, <1>7

LEMMA LoadKeeps ==
  ASSUME ImageTypeOK, ReadInv, FileInv, LoadSection
  PROVE  ImageTypeOK' /\ ReadInv' /\ FileInv'
<1> DEFINE s == Settled(draft, codes)
<1>1. /\ draft \in Sections /\ codes \in Seq(STRING) /\ AsSpelled(codes) /\ Accepted(draft, FALSE)
      /\ pass = "start" /\ draft = file /\ read = Len(draft.prefer)
  BY DEF ImageTypeOK, ReadInv, FileInv, LoadSection, Validated
<1>2. s \in Sections /\ InEffect(s) /\ s.colours = [f \in Fields |-> Choice(draft, f)]
  BY <1>1, SettledInEffect
<1>3. image' = {s} /\ pass' = "none" /\ UNCHANGED <<file, draft, read, codes, wanted, saved>>
  BY DEF LoadSection
<1>4. s.colours = wanted /\ (saved # {} => s \in saved)
  <2>1. CASE saved = {}
    BY <1>1, <1>2, <2>1 DEF FileInv
  <2>2. CASE saved # {}
    <3>1. InEffect(file) /\ file.colours = wanted /\ file \in saved
      BY <2>2 DEF FileInv
    <3>2. Len(codes) = read /\ \A i \in 1..read : codes[i] = draft.prefer[i]
      BY <1>1, <3>1 DEF InEffect, ReadInv
    <3>3. draft.prefer \in Seq(STRING)
      BY <1>1 DEF Sections
    <3>4. codes = draft.prefer
      BY <1>1, <3>2, <3>3
    <3>5. s = file
      BY <1>1, <3>1, <3>4, InEffectStays
    <3>6. QED
      BY <3>1, <3>5
  <2>3. QED
    BY <2>1, <2>2
<1> HIDE DEF s
<1>5. ImageTypeOK'
  BY <1>2, <1>3 DEF ImageTypeOK
<1>6. ReadInv'
  BY <1>3 DEF ReadInv, AsSpelled, Capitalized
<1>7. FileInv'
  BY <1>2, <1>3, <1>4 DEF FileInv
<1>8. QED
  BY <1>5, <1>6, <1>7

LEMMA SaveKeeps ==
  ASSUME ImageTypeOK, ReadInv, FileInv, SaveSection
  PROVE  ImageTypeOK' /\ ReadInv' /\ FileInv'
<1> DEFINE s == Settled(draft, codes)
<1>1. /\ draft \in Sections /\ codes \in Seq(STRING) /\ AsSpelled(codes) /\ Accepted(draft, TRUE) /\ pass = "save"
  BY DEF ImageTypeOK, ReadInv, SaveSection, Validated
<1>2. Accepted(draft, FALSE)
  BY <1>1 DEF Accepted
<1>3. s \in Sections /\ InEffect(s) /\ s.colours = [f \in Fields |-> Choice(draft, f)] /\ s.prefer = codes
  BY <1>1, <1>2, SettledInEffect
<1>4. /\ image' = {s} /\ file' = s /\ saved' = {s} /\ pass' = "none" /\ UNCHANGED <<draft, read, codes>>
      /\ wanted' = [f \in Fields |-> Normalized(draft.colours[f])]
  BY DEF SaveSection
<1>5. ASSUME NEW f \in Fields
      PROVE  Choice(draft, f) = Normalized(draft.colours[f]) /\ Normalized(draft.colours[f]) \in STRING
  <2>1. PICK z \in image, g \in Fields, c \in Picked : draft = [z EXCEPT !.colours[g] = c]
    BY <1>1 DEF FileInv
  <2>2. z \in Sections /\ InEffect(z)
    BY <2>1 DEF FileInv, ImageTypeOK
  <2>3. draft.version >= PaletteVersion /\ draft.colours[f] # "missing"
    BY <2>1, <2>2, PickedSection
  <2>4. Palette(draft) = draft
    BY <1>1, <2>3, PaletteOf
  <2>5. Normalized(draft.colours[f]) # "none"
    BY <1>1, <2>3, <2>4 DEF Accepted
  <2>6. ~(draft.version < PaletteVersion)
    BY <1>1, <2>3 DEF Sections, PaletteVersion
  <2>7. QED
    BY <2>5, <2>6, NormalizedColour DEF Choice
<1>6. s.colours = wanted' /\ wanted' \in [Fields -> STRING]
  BY <1>3, <1>4, <1>5
<1>7. Capitalized(s.prefer)
  BY <1>1, <1>3, SpelledIsCapitalized
<1> HIDE DEF s
<1>8. ImageTypeOK'
  BY <1>3, <1>4, <1>6 DEF ImageTypeOK
<1>9. ReadInv'
  BY <1>4, <1>7 DEF ReadInv, AsSpelled, Capitalized
<1>10. FileInv'
  BY <1>3, <1>4, <1>6 DEF FileInv
<1>11. QED
  BY <1>8, <1>9, <1>10

LEMMA PickKeeps ==
  ASSUME ImageTypeOK, ReadInv, FileInv, Pick
  PROVE  ImageTypeOK' /\ ReadInv' /\ FileInv'
<1>1. PICK s \in image, g \in Fields, c \in Picked : Validate([s EXCEPT !.colours[g] = c], "save")
  BY DEF Pick
<1> DEFINE d == [s EXCEPT !.colours[g] = c]
<1>2. UNCHANGED <<file, image, wanted, saved>>
  BY DEF Pick
<1>3. s \in Sections /\ InEffect(s)
  BY <1>1 DEF FileInv, ImageTypeOK
<1>4. d \in Sections /\ d.prefer = s.prefer
  BY <1>1, <1>3, PickedSection
<1>5. draft' = d /\ pass' = "save" /\ read' = 0 /\ codes' = <<>>
  BY <1>1 DEF Validate
<1>6. Validate(d, "save")
  BY <1>1
<1>7. FileInv'
  BY <1>1, <1>2, <1>5 DEF FileInv
<1> HIDE DEF d
<1>8. ImageTypeOK'
  BY <1>2, <1>4, <1>5 DEF ImageTypeOK
<1>9. Capitalized(d.prefer)
  BY <1>3, <1>4, SpelledIsCapitalized DEF InEffect, Sections
<1>10. Capitalized(file'.prefer)
  BY <1>2 DEF ReadInv
<1>11. ReadInv'
  BY <1>4, <1>6, <1>9, <1>10, ReadFromTheStart
<1>12. QED
  BY <1>7, <1>8, <1>11

LEMMA SaveAsItIsKeeps ==
  ASSUME ImageTypeOK, ReadInv, FileInv, SaveAsItIs
  PROVE  ImageTypeOK' /\ ReadInv' /\ FileInv'
<1>1. PICK s \in Sections : image = {s} /\ file' = s /\ saved' = {s}
  BY DEF SaveAsItIs, ImageTypeOK
<1>2. pass = "none" /\ UNCHANGED <<image, draft, pass, read, codes, wanted>>
  BY DEF SaveAsItIs
<1>3. InEffect(s) /\ s.colours = wanted
  BY <1>1 DEF FileInv
<1>4. Capitalized(s.prefer)
  BY <1>3, SpelledIsCapitalized DEF InEffect, Sections
<1>5. ImageTypeOK'
  BY <1>1, <1>2 DEF ImageTypeOK
<1>6. ReadInv'
  BY <1>1, <1>2, <1>4 DEF ReadInv, AsSpelled, Capitalized
<1>7. FileInv'
  BY <1>1, <1>2, <1>3 DEF FileInv
<1>8. QED
  BY <1>5, <1>6, <1>7

LEMMA StartAgainKeeps ==
  ASSUME ImageTypeOK, ReadInv, FileInv, StartAgain
  PROVE  ImageTypeOK' /\ ReadInv' /\ FileInv'
<1>1. image' = {} /\ Validate(file, "start") /\ UNCHANGED <<file, wanted, saved>>
  BY DEF StartAgain
<1>2. draft' = file /\ pass' = "start" /\ read' = 0 /\ codes' = <<>>
  BY <1>1 DEF Validate
<1>3. file \in Sections /\ Capitalized(file.prefer) /\ Capitalized(file'.prefer)
  BY <1>1 DEF ImageTypeOK, ReadInv
<1>4. ImageTypeOK'
  BY <1>1, <1>2 DEF ImageTypeOK
<1>5. ReadInv'
  BY <1>1, <1>3, ReadFromTheStart
<1>6. FileInv'
  BY <1>1, <1>2 DEF FileInv
<1>7. QED
  BY <1>4, <1>5, <1>6

LEMMA NextCodeKeeps ==
  ASSUME ImageTypeOK, ReadInv, FileInv, NextCode
  PROVE  ImageTypeOK' /\ ReadInv' /\ FileInv'
<1>1. read' = read + 1 /\ UNCHANGED <<file, image, draft, pass, wanted, saved>>
  BY DEF NextCode
<1>2. ReadInv' /\ codes' \in Seq(STRING)
  BY CodeRead
<1>3. ImageTypeOK'
  BY <1>1, <1>2 DEF ImageTypeOK
<1>4. FileInv'
  BY <1>1 DEF FileInv
<1>5. QED
  BY <1>2, <1>3, <1>4

LEMMA RefuseKeeps ==
  ASSUME ImageTypeOK, ReadInv, FileInv, Refuse \/ UNCHANGED imageVars
  PROVE  ImageTypeOK' /\ ReadInv' /\ FileInv'
<1>1. pass' \in {pass, "none"} /\ UNCHANGED <<file, image, draft, read, codes, wanted, saved>>
  BY DEF Refuse, imageVars
<1>2. ImageTypeOK'
  BY <1>1 DEF ImageTypeOK
<1>3. ReadInv'
  BY <1>1 DEF ReadInv, AsSpelled, Capitalized
<1>4. FileInv'
  BY <1>1 DEF FileInv
<1>5. QED
  BY <1>2, <1>3, <1>4

LEMMA ImageStep ==
  ImageTypeOK /\ ReadInv /\ FileInv /\ [ImageNext]_imageVars => ImageTypeOK' /\ ReadInv' /\ FileInv'
BY LoadKeeps, SaveKeeps, PickKeeps, SaveAsItIsKeeps, StartAgainKeeps, NextCodeKeeps, RefuseKeeps DEF ImageNext

\* The fields of the section, of what is in effect and of what was saved keep their
\* types through starts and saves.
THEOREM ImageTypeCorrect == ImageSpec => []ImageTypeOK
BY ImageInitHolds, ImageStep, PTL DEF ImageSpec

\* Whatever somebody wrote by hand and picks later: the settings in effect are settled,
\* have the colours that were chosen and are the ones last saved.
THEOREM ImageSettles == ImageSpec => []SettingsSettle
<1>1. ImageTypeOK /\ FileInv => SettingsSettle
  <2> SUFFICES ASSUME ImageTypeOK, FileInv, NEW s \in image
               PROVE  /\ Accepted(s, TRUE) /\ Settled(s, s.prefer) = s
                      /\ s.colours = wanted
                      /\ saved # {} => s \in saved
                      /\ AsSpelled(s.prefer)
    BY DEF SettingsSettle
  <2>1. s \in Sections /\ InEffect(s) /\ s.colours = wanted /\ (saved # {} => s \in saved)
    BY DEF ImageTypeOK, FileInv
  <2>2. QED
    BY <2>1, InEffectStays DEF InEffect
<1>2. QED
  BY <1>1, ImageInitHolds, ImageStep, PTL DEF ImageSpec

-----------------------------------------------------------------------------
(* Sequences *)

\* A bounded set of numbers has a least one.
LEMMA LeastOf ==
  ASSUME NEW n \in Nat, NEW S \in SUBSET (1..n), S # {}
  PROVE  Least(S) \in S /\ \A j \in S : Least(S) <= j
<1> DEFINE below(k) == {b \in S : b < k}
           T == {below(k) : k \in S}
<1>1. IsFiniteSet(S) /\ S \subseteq Nat
  <2>1. IsFiniteSet(1..n)
    BY FS_Interval
  <2>2. IsFiniteSet(S)
    BY <2>1, FS_Subset
  <2>3. QED
    BY <2>2
<1>2. T \subseteq FiniteSubsetsOf(S) /\ T # {}
  <2>1. \A k \in S : below(k) \in FiniteSubsetsOf(S)
    BY <1>1, FS_Subset DEF FiniteSubsetsOf
  <2>2. QED
    BY <2>1
<1>3. IsWellFoundedOn(StrictSubsetOrdering(S), FiniteSubsetsOf(S))
  BY FS_StrictSubsetOrderingWellFounded
<1>4. PICK t \in T : \A u \in T : ~(<<u, t>> \in StrictSubsetOrdering(S))
  BY <1>2, <1>3, WFMin
<1>5. PICK m \in S : t = below(m)
  OBVIOUS
<1>6. ASSUME NEW b \in S, ~(m <= b)
      PROVE  FALSE
  <2>1. b < m /\ b \in Nat /\ m \in Nat
    BY <1>1, <1>6
  <2>2. below(b) \subseteq below(m) /\ b \in below(m) /\ b \notin below(b)
    <3>1. \A c \in S : c < b => c < m
      BY <1>1, <2>1
    <3>2. b < m /\ ~(b < b)
      BY <2>1
    <3>3. QED
      BY <3>1, <3>2
  <2>3. below(b) \in SUBSET S /\ below(m) \in SUBSET S
    OBVIOUS
  <2>4. <<below(b), below(m)>> \in StrictSubsetOrdering(S)
    BY <2>2, <2>3 DEF StrictSubsetOrdering
  <2>5. QED
    BY <1>4, <1>5, <2>4
<1>7. \E i \in S : \A j \in S : i <= j
  BY <1>6
<1>8. QED
  BY <1>7, Zenon DEF Least

LEMMA SeqElements ==
  ASSUME NEW S, NEW s \in Seq(S)
  PROVE  Len(s) \in Nat /\ DOMAIN s = 1..Len(s) /\ \A m \in DOMAIN s : s[m] \in S
OBVIOUS

LEMMA SeqAppend ==
  ASSUME NEW S, NEW s \in Seq(S), NEW e \in S
  PROVE  /\ Append(s, e) \in Seq(S) /\ DOMAIN Append(s, e) = DOMAIN s \cup {Len(s) + 1}
         /\ Append(s, e)[Len(s) + 1] = e /\ \A i \in DOMAIN s : Append(s, e)[i] = s[i]
OBVIOUS

LEMMA SeqOfFunction ==
  ASSUME NEW S, NEW n \in Nat, NEW f \in [1..n -> S]
  PROVE  f \in Seq(S) /\ Len(f) = n
OBVIOUS

LEMMA SameLength ==
  ASSUME NEW m \in Nat, NEW n \in Nat, 1..m = 1..n
  PROVE  m = n
<1>1. m >= 1 => m \in 1..n
  OBVIOUS
<1>2. n >= 1 => n \in 1..m
  OBVIOUS
<1>3. QED
  BY <1>1, <1>2

-----------------------------------------------------------------------------
(* Tags and pills *)

LEMMA LangType ==
  ASSUME NEW c
  PROVE  Lang(c) \in STRING
<1>1. "UND" \in STRING
  BY TaggingAssumption
<1>2. c \in Codes => Upper[c] \in STRING
  BY TaggingAssumption
<1>3. c \in DOMAIN LangMap => LangMap[c] \in STRING
  BY TaggingAssumption
<1>4. QED
  BY <1>1, <1>2, <1>3 DEF Lang

LEMMA CodecType ==
  ASSUME NEW i \in Items, NEW n \in DOMAIN i.audios
  PROVE  Codec(i.audios[n]) \in STRING
<1> DEFINE s == i.audios[n]
<1>1. CodecMap[s.name] \in STRING
  BY TaggingAssumption
<1>2. {"TrueHD Atmos", "TrueHD", "DD+ Atmos", "DD+", "DTS-X", "DTS-HD", "DTS"} \subseteq STRING
  BY TaggingAssumption
<1> HIDE DEF s
<1>3. CASE s.name = "truehd"
  <2>1. Codec(s) = IF s.object THEN "TrueHD Atmos" ELSE "TrueHD"
    BY <1>3, Zenon DEF Codec
  <2>2. QED
    BY <1>2, <2>1 DEF s
<1>4. CASE s.name = "eac3"
  <2>1. Codec(s) = IF s.object THEN "DD+ Atmos" ELSE "DD+"
    BY <1>4, Zenon DEF Codec
  <2>2. QED
    BY <1>2, <2>1 DEF s
<1>5. CASE s.name = "dts"
  <2>1. Codec(s) = IF s.object THEN "DTS-X" ELSE IF s.hd THEN "DTS-HD" ELSE "DTS"
    BY <1>5, Zenon DEF Codec
  <2>2. QED
    BY <1>2, <2>1 DEF s
<1>6. CASE s.name \notin {"truehd", "eac3", "dts"}
  <2>1. Codec(s) = CodecMap[s.name]
    BY <1>6, Zenon DEF Codec
  <2>2. QED
    BY <1>1, <2>1 DEF s
<1>7. QED
  BY <1>3, <1>4, <1>5, <1>6 DEF s

LEMMA RankType ==
  ASSUME NEW c
  PROVE  Rank(c) \in Nat
<1>1. DOMAIN Ranked = 1..14
  BY DEF Ranked
<1>2. CASE \E i \in DOMAIN Ranked : Ranked[i] = c
  <2>1. Rank(c) \in DOMAIN Ranked
    BY <1>2, Zenon DEF Rank
  <2>2. QED
    BY <1>1, <2>1
<1>3. CASE ~\E i \in DOMAIN Ranked : Ranked[i] = c
  <2>1. Rank(c) = 999
    BY <1>3, Zenon DEF Rank
  <2>2. QED
    BY <2>1
<1>4. QED
  BY <1>2, <1>3

LEMMA PreferenceOf ==
  ASSUME NEW prefer, NEW n \in Nat, DOMAIN prefer = 1..n, Len(prefer) = n, NEW l
  PROVE  /\ Preference(l, prefer) \in 1..(n + 1)
         /\ Preference(l, prefer) <= n => prefer[Preference(l, prefer)] = l
         /\ (\E i \in DOMAIN prefer : prefer[i] = l) => Preference(l, prefer) \in DOMAIN prefer
<1>1. CASE \E i \in DOMAIN prefer : prefer[i] = l
  <2>1. Preference(l, prefer) \in DOMAIN prefer /\ prefer[Preference(l, prefer)] = l
    BY <1>1, Zenon DEF Preference
  <2>2. QED
    BY <2>1
<1>2. CASE ~\E i \in DOMAIN prefer : prefer[i] = l
  <2>1. Preference(l, prefer) = Len(prefer) + 1
    BY <1>2, Zenon DEF Preference
  <2>2. QED
    BY <1>2, <2>1
<1>3. QED
  BY <1>1, <1>2

\* A pill ranks as one of its languages, and none ranks before it.
LEMMA BestOfPill ==
  ASSUME NEW prefer, NEW n \in Nat, DOMAIN prefer = 1..n, Len(prefer) = n, NEW langs
  PROVE  /\ BestOf(langs, prefer) \in 1..(n + 1)
         /\ \A k \in DOMAIN langs : BestOf(langs, prefer) <= Preference(langs[k], prefer)
         /\ BestOf(langs, prefer) <= n => \E k \in DOMAIN langs : BestOf(langs, prefer) = Preference(langs[k], prefer)
<1> DEFINE S == {n + 1} \cup {Preference(langs[k], prefer) : k \in DOMAIN langs}
<1>1. \A k \in DOMAIN langs : Preference(langs[k], prefer) \in 1..(n + 1)
  BY PreferenceOf
<1>2. S \in SUBSET (1..(n + 1)) /\ S # {} /\ n + 1 \in Nat
  BY <1>1
<1>3. BestOf(langs, prefer) = Least(S)
  BY DEF BestOf
<1>4. Least(S) \in S /\ \A j \in S : Least(S) <= j
  BY <1>2, LeastOf
<1> DEFINE b == BestOf(langs, prefer)
<1>5. b \in S /\ \A j \in S : b <= j
  BY <1>3, <1>4
<1> HIDE DEF b
<1>6. b \in 1..(n + 1)
  BY <1>2, <1>5
<1>7. b <= n => \E k \in DOMAIN langs : b = Preference(langs[k], prefer)
  BY <1>5
<1>8. \A k \in DOMAIN langs : b <= Preference(langs[k], prefer)
  BY <1>5
<1>9. QED
  BY <1>6, <1>7, <1>8 DEF b

Track == [lang : STRING, codec : STRING]
Pill == [head : STRING, langs : Seq(STRING)]
Label == [head : STRING, langs : Seq(STRING), rank : Nat]

LEMMA ItemShape ==
  ASSUME NEW i \in Items
  PROVE  /\ i.audios \in Seq([lang : STRING, name : STRING, object : BOOLEAN, hd : BOOLEAN])
         /\ i.subs \in Seq([lang : STRING, format : STRING])
         /\ i.files \in Seq([named : BOOLEAN, rest : Seq(STRING), format : STRING])
         /\ i.prefer \in Seq(STRING) /\ i.official \in STRING /\ i.certs \in SUBSET STRING /\ i.fallback \in BOOLEAN
<1>1. i \in Item
  BY TaggingAssumption
<1>2. QED
  BY <1>1 DEF Item

\* A step of the loop over audio streams: a track more, or another codec.
LEMMA AudioLooked ==
  ASSUME TaggingTypeOK, LookAudio
  PROVE  LET l == LangAt(nth + 1)
             c == CodecAt(nth + 1)
         IN /\ nth + 1 \in DOMAIN item.audios /\ l \in STRING /\ c \in STRING
            /\ tracks' \in Seq(Track)
            /\ \/ /\ \A i \in DOMAIN tracks : tracks[i].lang # l
                  /\ Len(tracks') = Len(tracks) + 1 /\ tracks'[Len(tracks) + 1] = [lang |-> l, codec |-> c]
                  /\ \A i \in DOMAIN tracks : tracks'[i] = tracks[i]
               \/ /\ \E i \in DOMAIN tracks : tracks[i].lang = l
                  /\ Len(tracks') = Len(tracks)
                  /\ \A i \in DOMAIN tracks :
                       \/ tracks[i].lang = l /\ Better(c, tracks[i].codec) /\ tracks'[i] = [lang |-> l, codec |-> c]
                       \/ ~(tracks[i].lang = l /\ Better(c, tracks[i].codec)) /\ tracks'[i] = tracks[i]
<1> DEFINE l == LangAt(nth + 1)
           c == CodecAt(nth + 1)
           rec == [lang |-> l, codec |-> c]
           new == \A i \in DOMAIN tracks : tracks[i].lang # l
           over(i) == tracks[i].lang = l /\ Better(c, tracks[i].codec)
<1>1. nth + 1 \in DOMAIN item.audios
  BY ItemShape DEF TaggingTypeOK, LookAudio
<1>2. l \in STRING /\ c \in STRING
  BY <1>1, LangType, CodecType DEF TaggingTypeOK, LangAt, CodecAt
<1>3. tracks' = IF new THEN Append(tracks, rec) ELSE [i \in DOMAIN tracks |-> IF over(i) THEN rec ELSE tracks[i]]
  BY DEF LookAudio, LangAt, CodecAt
<1>4. tracks \in Seq(Track) /\ rec \in Track
  BY <1>2 DEF TaggingTypeOK, Track
<1> HIDE DEF l, c, rec, over
<1>5. CASE new
  <2>1. tracks' = Append(tracks, rec)
    BY <1>3, <1>5
  <2>2. tracks' \in Seq(Track) /\ Len(tracks') = Len(tracks) + 1 /\ tracks'[Len(tracks) + 1] = rec
    BY <1>4, <2>1
  <2>3. \A i \in DOMAIN tracks : tracks'[i] = tracks[i]
    BY <1>4, <2>1
  <2>4. QED
    BY <1>1, <1>2, <1>5, <2>2, <2>3 DEF l, c, rec
<1>6. CASE ~new
  <2>1. tracks' = [i \in DOMAIN tracks |-> IF over(i) THEN rec ELSE tracks[i]]
    BY <1>3, <1>6
  <2>2. \A i \in DOMAIN tracks : tracks'[i] = IF over(i) THEN rec ELSE tracks[i]
    BY <2>1
  <2>3. DOMAIN tracks = 1..Len(tracks) /\ Len(tracks) \in Nat /\ \A i \in DOMAIN tracks : tracks[i] \in Track
    BY <1>4
  <2>4. tracks' \in [1..Len(tracks) -> Track]
    BY <1>4, <2>1, <2>3
  <2>5. tracks' \in Seq(Track) /\ Len(tracks') = Len(tracks)
    BY <2>3, <2>4
  <2>6. \A i \in DOMAIN tracks : (over(i) /\ tracks'[i] = rec) \/ (~over(i) /\ tracks'[i] = tracks[i])
    BY <2>2
  <2>7. QED
    BY <1>1, <1>2, <1>6, <2>5, <2>6 DEF l, c, rec, over
<1>7. QED
  BY <1>5, <1>6

\* How many audio streams are seen.
Seen == IF doing = "look" THEN nth ELSE Len(item.audios)

AudioInv ==
  section = "audio" => Seen <= Len(item.audios) /\ EveryLanguage(Seen) /\ InOrder(Seen) /\ BestCodec(Seen)

\* The best codec of each language so far, in order of appearance.
LEMMA LookAudioKeeps ==
  ASSUME TaggingTypeOK, AudioInv, LookAudio
  PROVE  AudioInv'
<1> DEFINE n == nth
           l == LangAt(nth + 1)
           c == CodecAt(nth + 1)
           N == Len(tracks)
<1>1. /\ section = "audio" /\ doing = "look" /\ nth < Len(item.audios) /\ nth \in Nat /\ Len(item.audios) \in Nat
      /\ nth' = nth + 1 /\ item' = item /\ section' = section /\ doing' = doing
  BY ItemShape DEF TaggingTypeOK, LookAudio
<1>2. EveryLanguage(n) /\ InOrder(n) /\ BestCodec(n)
  BY <1>1 DEF AudioInv, Seen
<1>3. tracks \in Seq(Track) /\ tracks' \in Seq(Track) /\ N \in Nat /\ DOMAIN tracks = 1..N
  BY AudioLooked DEF TaggingTypeOK, Track
<1>4. \A m : LangAt(m)' = LangAt(m) /\ CodecAt(m)' = CodecAt(m)
  BY <1>1 DEF LangAt, CodecAt
<1> DEFINE later == 1..(n + 1)
<1>5. later = (1..n) \cup {n + 1} /\ n + 1 \notin 1..n
  BY <1>1
<1>6. \/ /\ \A i \in DOMAIN tracks : tracks[i].lang # l
         /\ Len(tracks') = N + 1 /\ tracks'[N + 1] = [lang |-> l, codec |-> c]
         /\ \A i \in DOMAIN tracks : tracks'[i] = tracks[i]
      \/ /\ \E i \in DOMAIN tracks : tracks[i].lang = l
         /\ Len(tracks') = N
         /\ \A i \in DOMAIN tracks :
              \/ tracks[i].lang = l /\ Better(c, tracks[i].codec) /\ tracks'[i] = [lang |-> l, codec |-> c]
              \/ ~(tracks[i].lang = l /\ Better(c, tracks[i].codec)) /\ tracks'[i] = tracks[i]
  BY AudioLooked
<1>7. \A m \in 1..n : \E i \in DOMAIN tracks : tracks[i].lang = LangAt(m)
  BY <1>2 DEF EveryLanguage
<1>8. \A i, j \in DOMAIN tracks : i < j =>
        \E m \in 1..n : LangAt(m) = tracks[i].lang /\ \A k \in 1..m : LangAt(k) # tracks[j].lang
  BY <1>2 DEF InOrder
<1>9. \A i \in DOMAIN tracks : \E m \in 1..n :
        /\ tracks[i] = [lang |-> LangAt(m), codec |-> CodecAt(m)]
        /\ \A k \in 1..n : LangAt(k) = LangAt(m) =>
             Rank(CodecAt(m)) < Rank(CodecAt(k)) \/ (Rank(CodecAt(m)) = Rank(CodecAt(k)) /\ m <= k)
  BY <1>2 DEF BestCodec
<1>10. LangAt(n + 1) = l /\ CodecAt(n + 1) = c /\ \A m : Rank(CodecAt(m)) \in Nat
  BY RankType
<1> DEFINE Every == \A m \in later : \E i \in DOMAIN tracks' : tracks'[i].lang = LangAt(m)
           Order == \A i, j \in DOMAIN tracks' : i < j =>
              \E m \in later : LangAt(m) = tracks'[i].lang /\ \A k \in 1..m : LangAt(k) # tracks'[j].lang
           best(i, m) ==
              /\ tracks'[i] = [lang |-> LangAt(m), codec |-> CodecAt(m)]
              /\ \A k \in later : LangAt(k) = LangAt(m) =>
                   Rank(CodecAt(m)) < Rank(CodecAt(k)) \/ (Rank(CodecAt(m)) = Rank(CodecAt(k)) /\ m <= k)
           Best == \A i \in DOMAIN tracks' : \E m \in later : best(i, m)
<1> HIDE DEF l, c, later
\* A track i of another language than the stream's stays what it is.
<1>11. ASSUME NEW i \in DOMAIN tracks, i \in DOMAIN tracks', tracks'[i] = tracks[i], tracks[i].lang # l
       PROVE  \E m \in later : best(i, m)
  <2>1. PICK m \in 1..n :
          /\ tracks[i] = [lang |-> LangAt(m), codec |-> CodecAt(m)]
          /\ \A k \in 1..n : LangAt(k) = LangAt(m) =>
               Rank(CodecAt(m)) < Rank(CodecAt(k)) \/ (Rank(CodecAt(m)) = Rank(CodecAt(k)) /\ m <= k)
    BY <1>9
  <2>2. LangAt(m) # LangAt(n + 1)
    BY <1>10, <1>11, <2>1
  <2>3. m \in later
    BY <1>5
  <2>4. QED
    BY <1>5, <1>11, <2>1, <2>2, <2>3
<1>12. ASSUME \A i \in DOMAIN tracks : tracks[i].lang # l
       PROVE  Every /\ Order /\ Best
  <2>1. /\ Len(tracks') = N + 1 /\ tracks'[N + 1] = [lang |-> l, codec |-> c]
        /\ \A i \in DOMAIN tracks : tracks'[i] = tracks[i]
    BY <1>6, <1>12
  <2>2. DOMAIN tracks' = DOMAIN tracks \cup {N + 1} /\ N + 1 \notin DOMAIN tracks
    BY <1>3, <2>1
  <2>3. \A m \in 1..n : LangAt(m) # l
    BY <1>7, <1>12
  <2>4. Every
    BY <1>5, <1>7, <1>10, <2>1, <2>2
  <2>5. Order
    <3> SUFFICES ASSUME NEW i \in DOMAIN tracks', NEW j \in DOMAIN tracks', i < j
                 PROVE  \E m \in later : LangAt(m) = tracks'[i].lang /\ \A k \in 1..m : LangAt(k) # tracks'[j].lang
      OBVIOUS
    <3>1. i \in DOMAIN tracks
      BY <1>3, <2>2
    <3>2. CASE j \in DOMAIN tracks
      BY <1>5, <1>8, <2>1, <3>1, <3>2
    <3>3. CASE j = N + 1
      <4>1. PICK m \in 1..n : tracks[i] = [lang |-> LangAt(m), codec |-> CodecAt(m)]
        BY <1>9, <3>1
      <4>2. m \in later /\ \A k \in 1..m : k \in 1..n
        BY <1>1, <1>5
      <4>3. LangAt(m) = tracks'[i].lang /\ tracks'[j].lang = l
        BY <2>1, <3>1, <3>3, <4>1
      <4>4. QED
        BY <2>3, <4>2, <4>3
    <3>4. QED
      BY <2>2, <3>2, <3>3
  <2>6. Best
    <3> SUFFICES ASSUME NEW i \in DOMAIN tracks'
                 PROVE  \E m \in later : best(i, m)
      OBVIOUS
    <3>1. CASE i \in DOMAIN tracks
      BY <1>11, <1>12, <2>1, <3>1
    <3>2. CASE i = N + 1
      <4>1. tracks'[i] = [lang |-> LangAt(n + 1), codec |-> CodecAt(n + 1)]
        BY <1>10, <2>1, <3>2
      <4>2. \A k \in later : LangAt(k) = LangAt(n + 1) => k = n + 1
        BY <1>5, <1>10, <2>3
      <4>3. n + 1 \in later /\ n + 1 <= n + 1
        BY <1>1, <1>5
      <4>4. best(i, n + 1)
        BY <4>1, <4>2, <4>3
      <4>5. QED
        BY <4>3, <4>4
    <3>3. QED
      BY <2>2, <3>1, <3>2
  <2>7. QED
    BY <2>4, <2>5, <2>6
<1>13. ASSUME ~\A i \in DOMAIN tracks : tracks[i].lang # l
       PROVE  Every /\ Order /\ Best
  <2>1. /\ \E i \in DOMAIN tracks : tracks[i].lang = l
        /\ Len(tracks') = N
        /\ \A i \in DOMAIN tracks :
             \/ tracks[i].lang = l /\ Better(c, tracks[i].codec) /\ tracks'[i] = [lang |-> l, codec |-> c]
             \/ ~(tracks[i].lang = l /\ Better(c, tracks[i].codec)) /\ tracks'[i] = tracks[i]
    BY <1>6, <1>13
  <2>2. DOMAIN tracks' = DOMAIN tracks
    BY <1>3, <2>1
  <2>3. \A i \in DOMAIN tracks : tracks'[i].lang = tracks[i].lang
    BY <2>1
  <2>4. Every
    BY <1>5, <1>7, <1>10, <2>1, <2>2, <2>3
  <2>5. Order
    BY <1>5, <1>8, <2>2, <2>3
  <2>6. Best
    <3> SUFFICES ASSUME NEW i \in DOMAIN tracks'
                 PROVE  \E m \in later : best(i, m)
      OBVIOUS
    <3>1. CASE tracks[i].lang # l
      BY <1>11, <2>1, <2>2, <3>1
    <3>2. CASE tracks[i].lang = l
      <4>1. PICK m \in 1..n :
              /\ tracks[i] = [lang |-> LangAt(m), codec |-> CodecAt(m)]
              /\ \A k \in 1..n : LangAt(k) = LangAt(m) =>
                   Rank(CodecAt(m)) < Rank(CodecAt(k)) \/ (Rank(CodecAt(m)) = Rank(CodecAt(k)) /\ m <= k)
        BY <1>9, <2>2
      <4>2. LangAt(m) = l /\ tracks[i].codec = CodecAt(m)
        BY <3>2, <4>1
      <4>3. n \in Nat /\ m \in Nat /\ m <= n /\ n + 1 \in later /\ m \in later
        BY <1>1, <1>5
      <4>4. CASE Better(c, tracks[i].codec)
        <5>1. tracks'[i] = [lang |-> LangAt(n + 1), codec |-> CodecAt(n + 1)]
          BY <1>10, <2>1, <2>2, <3>2, <4>4
        <5>2. Rank(CodecAt(n + 1)) < Rank(CodecAt(m))
          BY <1>10, <4>2, <4>4 DEF Better
        <5>3. \A k \in 1..n : LangAt(k) = LangAt(n + 1) => Rank(CodecAt(n + 1)) < Rank(CodecAt(k))
          BY <1>10, <4>1, <4>2, <5>2
        <5>4. best(i, n + 1)
          BY <1>5, <4>3, <5>1, <5>3
        <5>5. QED
          BY <4>3, <5>4
      <4>5. CASE ~Better(c, tracks[i].codec)
        <5>1. tracks'[i] = [lang |-> LangAt(m), codec |-> CodecAt(m)]
          BY <2>1, <2>2, <4>1, <4>5
        <5>2. ~(Rank(CodecAt(n + 1)) < Rank(CodecAt(m)))
          BY <1>10, <4>2, <4>5 DEF Better
        <5>3. Rank(CodecAt(m)) < Rank(CodecAt(n + 1)) \/ (Rank(CodecAt(m)) = Rank(CodecAt(n + 1)) /\ m <= n + 1)
          BY <1>10, <4>3, <5>2
        <5>4. best(i, m)
          BY <1>5, <4>1, <5>1, <5>3
        <5>5. QED
          BY <4>3, <5>4
      <4>6. QED
        BY <4>4, <4>5
    <3>3. QED
      BY <3>1, <3>2
  <2>7. QED
    BY <2>4, <2>5, <2>6
<1>14. Every /\ Order /\ Best
  BY <1>12, <1>13
<1>15. Seen' = n + 1 /\ n + 1 <= Len(item.audios)'
  BY <1>1 DEF Seen
<1>16. EveryLanguage(Seen)'
  BY <1>4, <1>14, <1>15 DEF EveryLanguage, later
<1>17. InOrder(Seen)'
  BY <1>4, <1>14, <1>15 DEF InOrder, later
<1>18. BestCodec(Seen)'
  BY <1>4, <1>14, <1>15 DEF BestCodec, later
<1>19. QED
  BY <1>15, <1>16, <1>17, <1>18 DEF AudioInv

LEMMA SidecarLangType ==
  ASSUME NEW rest
  PROVE  SidecarLang(rest) \in STRING
<1>1. "UND" \in STRING
  BY TaggingAssumption
<1>2. QED
  BY <1>1, LangType DEF SidecarLang

\* How many subtitle streams and files are seen.
Heard(m) == m <= IF doing = "look" THEN nth ELSE Len(item.subs) + Len(item.files)

\* The language of a track is a stream's or a named file's, and theirs are a track's.
SubInv ==
  section = "subtitles" =>
    /\ doing = "look" => nth <= Len(item.subs) + Len(item.files)
    /\ \A i \in DOMAIN tracks :
         \/ \E m \in DOMAIN item.subs : tracks[i].lang = Lang(item.subs[m].lang)
         \/ \E m \in DOMAIN item.files : item.files[m].named /\ tracks[i].lang = SidecarLang(item.files[m].rest)
    /\ \A m \in DOMAIN item.subs : Heard(m) => \E i \in DOMAIN tracks : tracks[i].lang = Lang(item.subs[m].lang)
    /\ \A m \in DOMAIN item.files : Heard(Len(item.subs) + m) /\ item.files[m].named =>
         \E i \in DOMAIN tracks : tracks[i].lang = SidecarLang(item.files[m].rest)

\* A step of the loops over subtitle streams and files: a track more, or none.
LEMMA SubLooked ==
  ASSUME TaggingTypeOK, NEW lang \in STRING, NEW codec \in STRING,
         tracks' = Append(tracks, [lang |-> lang, codec |-> codec])
  PROVE  /\ tracks' \in Seq(Track) /\ DOMAIN tracks' = DOMAIN tracks \cup {Len(tracks) + 1}
         /\ \A i \in DOMAIN tracks : tracks'[i] = tracks[i]
         /\ tracks'[Len(tracks) + 1] = [lang |-> lang, codec |-> codec]
<1> DEFINE rec == [lang |-> lang, codec |-> codec]
<1>1. tracks \in Seq(Track) /\ rec \in Track
  BY DEF TaggingTypeOK, Track
<1> HIDE DEF rec
<1>2. tracks' = Append(tracks, rec)
  BY DEF rec
<1>3. /\ tracks' \in Seq(Track) /\ DOMAIN tracks' = DOMAIN tracks \cup {Len(tracks) + 1}
      /\ \A i \in DOMAIN tracks : tracks'[i] = tracks[i]
      /\ tracks'[Len(tracks) + 1] = rec
  BY <1>1, <1>2
<1>4. QED
  BY <1>3 DEF rec

\* The streams and files of an item, as numbers.
LEMMA SubtitleInputs ==
  ASSUME TaggingTypeOK
  PROVE  /\ Len(item.subs) \in Nat /\ DOMAIN item.subs = 1..Len(item.subs)
         /\ Len(item.files) \in Nat /\ DOMAIN item.files = 1..Len(item.files)
         /\ \A m \in DOMAIN item.subs : item.subs[m].lang \in STRING /\ item.subs[m].format \in STRING
         /\ \A m \in DOMAIN item.files : item.files[m].named \in BOOLEAN /\ item.files[m].format \in STRING
<1> DEFINE SubItem == [lang : STRING, format : STRING]
           FileItem == [named : BOOLEAN, rest : Seq(STRING), format : STRING]
<1>1. item.subs \in Seq(SubItem)
  BY ItemShape DEF TaggingTypeOK
<1>2. item.files \in Seq(FileItem)
  BY ItemShape DEF TaggingTypeOK
<1>3. \A m \in SubItem : m.lang \in STRING /\ m.format \in STRING
  OBVIOUS
<1>4. \A m \in FileItem : m.named \in BOOLEAN /\ m.format \in STRING
  OBVIOUS
<1> HIDE DEF SubItem, FileItem
<1>5. Len(item.subs) \in Nat /\ DOMAIN item.subs = 1..Len(item.subs) /\ \A m \in DOMAIN item.subs : item.subs[m] \in SubItem
  BY <1>1, SeqElements
<1>6. Len(item.files) \in Nat /\ DOMAIN item.files = 1..Len(item.files) /\ \A m \in DOMAIN item.files : item.files[m] \in FileItem
  BY <1>2, SeqElements
<1>7. QED
  BY <1>3, <1>4, <1>5, <1>6

LEMMA LookSubKeeps ==
  ASSUME TaggingTypeOK, SubInv, LookSub
  PROVE  tracks' \in Seq(Track) /\ SubInv'
<1> DEFINE S == Len(item.subs)
           F == Len(item.files)
           lang == Lang(item.subs[nth + 1].lang)
           codec == item.subs[nth + 1].format
<1>1. /\ S \in Nat /\ DOMAIN item.subs = 1..S
      /\ F \in Nat /\ DOMAIN item.files = 1..F
      /\ \A m \in DOMAIN item.subs : item.subs[m].lang \in STRING /\ item.subs[m].format \in STRING
  BY SubtitleInputs
<1>2. section = "subtitles" /\ doing = "look" /\ nth \in Nat /\ nth < S
  BY DEF TaggingTypeOK, LookSub
<1>3. nth' = nth + 1 /\ item' = item /\ section' = section /\ doing' = doing
  BY DEF LookSub
<1>4. tracks' = Append(tracks, [lang |-> lang, codec |-> codec])
  BY DEF LookSub
<1>5. SubInv!2!1 /\ SubInv!2!2 /\ SubInv!2!3 /\ SubInv!2!4
  BY <1>2 DEF SubInv
<1> HIDE DEF S, F
<1>6. nth + 1 \in 1..S /\ nth + 1 <= S + F
  BY <1>1, <1>2
<1>7. lang \in STRING /\ codec \in STRING
  BY <1>1, <1>6, LangType
<1>8. /\ tracks' \in Seq(Track) /\ DOMAIN tracks' = DOMAIN tracks \cup {Len(tracks) + 1}
      /\ \A i \in DOMAIN tracks : tracks'[i] = tracks[i]
      /\ tracks'[Len(tracks) + 1] = [lang |-> lang, codec |-> codec]
  <2> HIDE DEF lang, codec
  <2>1. QED
    BY <1>4, <1>7, SubLooked
<1>9. tracks'[Len(tracks) + 1].lang = Lang(item.subs[nth + 1].lang)
  BY <1>8
<1>10. \A m \in 1..S : m <= nth + 1 => m <= nth \/ m = nth + 1
  BY <1>1, <1>2
<1>11. \A m \in 1..F : ~(S + m <= nth + 1)
  BY <1>1, <1>2
<1>12. \A m \in 1..S : Heard(m)' => Heard(m) \/ m = nth + 1
  BY <1>2, <1>3, <1>10 DEF Heard
<1>13. \A m \in 1..F : ~(S + m <= nth')
  BY <1>3, <1>11
<1> HIDE DEF lang, codec
<1>14. \A i \in DOMAIN tracks' :
         \/ \E m \in DOMAIN item.subs : tracks'[i].lang = Lang(item.subs[m].lang)
         \/ \E m \in DOMAIN item.files : item.files[m].named /\ tracks'[i].lang = SidecarLang(item.files[m].rest)
  BY <1>1, <1>5, <1>6, <1>8, <1>9
<1>15. \A m \in DOMAIN item.subs : Heard(m)' => \E i \in DOMAIN tracks' : tracks'[i].lang = Lang(item.subs[m].lang)
  <2> SUFFICES ASSUME NEW m \in DOMAIN item.subs, Heard(m)'
               PROVE  \E i \in DOMAIN tracks' : tracks'[i].lang = Lang(item.subs[m].lang)
    OBVIOUS
  <2>1. CASE m = nth + 1
    BY <1>8, <1>9, <2>1
  <2>2. CASE Heard(m)
    BY <1>5, <1>8, <2>2
  <2>3. QED
    BY <1>1, <1>12, <2>1, <2>2
<1>16. \A m \in DOMAIN item.files : ~Heard(Len(item.subs) + m)'
  BY <1>1, <1>2, <1>3, <1>13 DEF Heard, S
<1>17. SubInv'
  BY <1>1, <1>3, <1>6, <1>14, <1>15, <1>16 DEF SubInv, S, F
<1>18. QED
  BY <1>8, <1>17

LEMMA LookFileKeeps ==
  ASSUME TaggingTypeOK, SubInv, LookFile
  PROVE  tracks' \in Seq(Track) /\ SubInv'
<1> DEFINE S == Len(item.subs)
           F == Len(item.files)
           q == nth + 1 - Len(item.subs)
           f == item.files[q]
           lang == SidecarLang(f.rest)
           codec == f.format
<1>1. /\ S \in Nat /\ DOMAIN item.subs = 1..S
      /\ F \in Nat /\ DOMAIN item.files = 1..F
      /\ \A m \in DOMAIN item.files : item.files[m].named \in BOOLEAN /\ item.files[m].format \in STRING
  BY SubtitleInputs
<1>2. section = "subtitles" /\ doing = "look" /\ nth \in Nat /\ nth >= S /\ nth < S + F
  BY DEF TaggingTypeOK, LookFile
<1>3. nth' = nth + 1 /\ item' = item /\ section' = section /\ doing' = doing
  BY DEF LookFile
<1>4. tracks' = IF f.named THEN Append(tracks, [lang |-> lang, codec |-> codec]) ELSE tracks
  BY DEF LookFile
<1>5. SubInv!2!1 /\ SubInv!2!2 /\ SubInv!2!3 /\ SubInv!2!4
  BY <1>2 DEF SubInv
<1>6. q = nth + 1 - S
  OBVIOUS
<1> HIDE DEF S, F, q
<1>7. q \in 1..F /\ S + q = nth + 1 /\ nth + 1 <= S + F
  BY <1>1, <1>2, <1>6
<1>8. lang \in STRING /\ codec \in STRING /\ f.named \in BOOLEAN
  BY <1>1, <1>7, SidecarLangType
<1>9. \A m \in 1..S : m <= nth
  BY <1>1, <1>2
<1>10. \A m \in 1..F : S + m <= nth + 1 => S + m <= nth \/ m = q
  BY <1>1, <1>2, <1>6
<1>11. tracks' \in Seq(Track) /\ \A i \in DOMAIN tracks : i \in DOMAIN tracks' /\ tracks'[i] = tracks[i]
  <2>1. CASE f.named
    <3> HIDE DEF lang, codec
    <3>1. tracks' = Append(tracks, [lang |-> lang, codec |-> codec])
      BY <1>4, <2>1
    <3>2. QED
      BY <1>8, <3>1, SubLooked
  <2>2. CASE ~f.named
    BY <1>4, <2>2 DEF TaggingTypeOK, Track
  <2>3. QED
    BY <2>1, <2>2
<1>12. f.named => /\ DOMAIN tracks' = DOMAIN tracks \cup {Len(tracks) + 1}
                  /\ tracks'[Len(tracks) + 1].lang = lang
  <2> SUFFICES ASSUME f.named
               PROVE  /\ DOMAIN tracks' = DOMAIN tracks \cup {Len(tracks) + 1}
                      /\ tracks'[Len(tracks) + 1].lang = lang
    OBVIOUS
  <2> HIDE DEF lang, codec
  <2>1. tracks' = Append(tracks, [lang |-> lang, codec |-> codec])
    BY <1>4
  <2>2. QED
    BY <1>8, <2>1, SubLooked
<1>13. ~f.named => tracks' = tracks
  BY <1>4
<1>14. \A i \in DOMAIN tracks' :
         \/ \E m \in DOMAIN item.subs : tracks'[i].lang = Lang(item.subs[m].lang)
         \/ \E m \in DOMAIN item.files : item.files[m].named /\ tracks'[i].lang = SidecarLang(item.files[m].rest)
  <2>1. CASE f.named
    BY <1>1, <1>5, <1>7, <1>11, <1>12, <2>1
  <2>2. CASE ~f.named
    BY <1>5, <1>13, <2>2
  <2>3. QED
    BY <2>1, <2>2
<1>15. \A m \in DOMAIN item.subs : \E i \in DOMAIN tracks' : tracks'[i].lang = Lang(item.subs[m].lang)
  <2> SUFFICES ASSUME NEW m \in DOMAIN item.subs
               PROVE  \E i \in DOMAIN tracks' : tracks'[i].lang = Lang(item.subs[m].lang)
    OBVIOUS
  <2>1. Heard(m)
    BY <1>1, <1>2, <1>9 DEF Heard
  <2>2. QED
    BY <1>5, <1>11, <2>1
<1>16. \A m \in DOMAIN item.files : Heard(Len(item.subs) + m)' /\ item.files[m].named =>
         \E i \in DOMAIN tracks' : tracks'[i].lang = SidecarLang(item.files[m].rest)
  <2> SUFFICES ASSUME NEW m \in DOMAIN item.files, Heard(Len(item.subs) + m)', item.files[m].named
               PROVE  \E i \in DOMAIN tracks' : tracks'[i].lang = SidecarLang(item.files[m].rest)
    OBVIOUS
  <2>1. S + m <= nth + 1
    BY <1>2, <1>3 DEF Heard, S
  <2>2. CASE m = q
    BY <1>12, <2>2
  <2>3. CASE S + m <= nth
    <3>1. Heard(Len(item.subs) + m)
      BY <1>2, <2>3 DEF Heard, S
    <3>2. QED
      BY <1>5, <1>11, <3>1
  <2>4. QED
    BY <1>1, <1>10, <2>1, <2>2, <2>3
<1>17. SubInv'
  BY <1>1, <1>3, <1>7, <1>14, <1>15, <1>16 DEF SubInv, S, F
<1>18. QED
  BY <1>11, <1>17

\* Of the first n tracks: every codec has a pill and every known language is on it,
Told(ts, n, gs) ==
  \A m \in 1..n : \E i \in DOMAIN gs :
    /\ gs[i].head = ts[m].codec
    /\ ts[m].lang # "UND" => \E k \in DOMAIN gs[i].langs : gs[i].langs[k] = ts[m].lang

\* a pill says nothing that is no track's,
Found(ts, n, gs) ==
  \A i \in DOMAIN gs :
    /\ \E m \in 1..n : ts[m].codec = gs[i].head
    /\ \A k \in DOMAIN gs[i].langs :
         /\ gs[i].langs[k] # "UND"
         /\ \E m \in 1..n : ts[m] = [lang |-> gs[i].langs[k], codec |-> gs[i].head]

\* and pills and languages are in the order in which they appear.
HeadsInOrder(ts, n, gs) ==
  \A i, j \in DOMAIN gs : i < j =>
    \E m \in 1..n : ts[m].codec = gs[i].head /\ \A k \in 1..m : ts[k].codec # gs[j].head
LangsInOrder(ts, n, gs) ==
  \A i \in DOMAIN gs : \A k1, k2 \in DOMAIN gs[i].langs : k1 < k2 =>
    \E m \in 1..n : /\ ts[m] = [lang |-> gs[i].langs[k1], codec |-> gs[i].head]
                    /\ \A k \in 1..m : ts[k] # [lang |-> gs[i].langs[k2], codec |-> gs[i].head]

LEMMA SaidIs ==
  ASSUME NEW langs \in Seq(STRING), NEW lang \in STRING
  PROVE  /\ Said(langs, lang) \in Seq(STRING)
         /\ lang = "UND" => Said(langs, lang) = langs
         /\ lang # "UND" => /\ DOMAIN Said(langs, lang) = DOMAIN langs \cup {Len(langs) + 1}
                            /\ Said(langs, lang)[Len(langs) + 1] = lang
         /\ \A k \in DOMAIN langs : k \in DOMAIN Said(langs, lang) /\ Said(langs, lang)[k] = langs[k]
<1>1. CASE lang = "UND"
  BY <1>1 DEF Said
<1>2. CASE lang # "UND"
  <2>1. Said(langs, lang) = Append(langs, lang)
    BY <1>2 DEF Said
  <2>2. QED
    BY <1>2, <2>1
<1>3. QED
  BY <1>1, <1>2

\* A step of _make_badge_groups() for track n + 1, one that was not seen before.
Grown(ts, n, gs, gs2) ==
  LET t == ts[n + 1] IN
  /\ \A i \in DOMAIN gs : i \in DOMAIN gs2 /\ gs2[i].head = gs[i].head
  /\ \A i \in DOMAIN gs : gs[i].head = t.codec => gs2[i].langs = Said(gs[i].langs, t.lang)
  /\ \A i \in DOMAIN gs : gs[i].head # t.codec => gs2[i].langs = gs[i].langs
  /\ \/ DOMAIN gs2 = DOMAIN gs /\ \E i \in DOMAIN gs : gs[i].head = t.codec
     \/ /\ DOMAIN gs2 = DOMAIN gs \cup {Len(gs) + 1}
        /\ gs2[Len(gs) + 1] = [head |-> t.codec, langs |-> Said(<<>>, t.lang)]
        /\ \A i \in DOMAIN gs : gs[i].head # t.codec

LEMMA GrownTells ==
  ASSUME NEW ts \in Seq(Track), NEW n \in Nat, n < Len(ts), NEW gs \in Seq(Pill), NEW gs2 \in Seq(Pill),
         Told(ts, n, gs), Found(ts, n, gs), HeadsInOrder(ts, n, gs), LangsInOrder(ts, n, gs),
         \A m \in 1..n : ts[m] # ts[n + 1], Grown(ts, n, gs, gs2)
  PROVE  /\ Told(ts, n + 1, gs2) /\ Found(ts, n + 1, gs2)
         /\ HeadsInOrder(ts, n + 1, gs2) /\ LangsInOrder(ts, n + 1, gs2)
<1> DEFINE t == ts[n + 1]
           c == t.codec
           l == t.lang
           N == Len(gs)
           later == 1..(n + 1)
<1>1. later = (1..n) \cup {n + 1} /\ n + 1 \in DOMAIN ts /\ \A m \in 1..n : ~(n + 1 \in 1..m) /\ \A k \in 1..m : k \in 1..n
  OBVIOUS
<1>2. /\ t \in Track /\ \A m \in 1..n : ts[m] \in Track
      /\ N \in Nat /\ DOMAIN gs = 1..N /\ N + 1 \notin DOMAIN gs
      /\ \A i \in DOMAIN gs : gs[i].langs \in Seq(STRING) /\ gs[i].head \in STRING
      /\ \A i \in DOMAIN gs2 : gs2[i].langs \in Seq(STRING) /\ gs2[i].head \in STRING
  <2>1. \A p \in Pill : p.langs \in Seq(STRING) /\ p.head \in STRING
    BY DEF Pill
  <2>2. (\A i \in DOMAIN gs : gs[i] \in Pill) /\ (\A i \in DOMAIN gs2 : gs2[i] \in Pill) /\ (\A m \in DOMAIN ts : ts[m] \in Track)
    BY SeqElements
  <2>3. \A m \in 1..n : m \in DOMAIN ts
    OBVIOUS
  <2>4. QED
    BY <1>1, <2>1, <2>2, <2>3
<1>3. t = [lang |-> l, codec |-> c] /\ l \in STRING /\ c \in STRING
  BY <1>2 DEF Track
<1>4. /\ \A i \in DOMAIN gs : i \in DOMAIN gs2 /\ gs2[i].head = gs[i].head
      /\ \A i \in DOMAIN gs : gs[i].head = c => gs2[i].langs = Said(gs[i].langs, l)
      /\ \A i \in DOMAIN gs : gs[i].head # c => gs2[i].langs = gs[i].langs
      /\ \/ DOMAIN gs2 = DOMAIN gs /\ \E i \in DOMAIN gs : gs[i].head = c
         \/ /\ DOMAIN gs2 = DOMAIN gs \cup {N + 1}
            /\ gs2[N + 1] = [head |-> c, langs |-> Said(<<>>, l)]
            /\ \A i \in DOMAIN gs : gs[i].head # c
  BY DEF Grown
<1>5. (\A m \in 1..n : ts[m] # t) /\ ts[n + 1].codec = c /\ ts[n + 1].lang = l /\ ts[n + 1] = t
  OBVIOUS
<1> HIDE DEF t, c, l, N, later
<1> DEFINE known == l # "UND"
<1>6. ASSUME NEW langs \in Seq(STRING)
       PROVE  /\ Said(langs, l) \in Seq(STRING)
              /\ ~known => Said(langs, l) = langs
              /\ known => DOMAIN Said(langs, l) = DOMAIN langs \cup {Len(langs) + 1} /\ Said(langs, l)[Len(langs) + 1] = l
              /\ \A k \in DOMAIN langs : k \in DOMAIN Said(langs, l) /\ Said(langs, l)[k] = langs[k]
  BY <1>3, SaidIs, Zenon
<1> HIDE DEF known
\* What a pill with the track's codec has: what it had, and the language.
<1>7. ASSUME NEW i \in DOMAIN gs2
      PROVE  \/ i \in DOMAIN gs /\ gs2[i].head = gs[i].head /\ gs2[i].langs = gs[i].langs /\ gs[i].head # c
             \/ i \in DOMAIN gs /\ gs2[i].head = gs[i].head /\ gs2[i].langs = Said(gs[i].langs, l) /\ gs[i].head = c
             \/ i = N + 1 /\ gs2[i].head = c /\ gs2[i].langs = Said(<<>>, l) /\ \A j \in DOMAIN gs : gs[j].head # c
  BY <1>4, <1>7
<1>8. ASSUME NEW i \in DOMAIN gs, NEW k \in DOMAIN gs[i].langs
      PROVE  k \in DOMAIN gs2[i].langs /\ gs2[i].langs[k] = gs[i].langs[k]
  <2>1. gs[i].langs \in Seq(STRING)
    BY <1>2
  <2>2. k \in DOMAIN Said(gs[i].langs, l) /\ Said(gs[i].langs, l)[k] = gs[i].langs[k]
    BY <1>6, <2>1, Zenon
  <2>3. QED
    BY <1>4, <2>2
<1>9. Told(ts, n + 1, gs2)
  <2> SUFFICES ASSUME NEW m \in later
               PROVE  \E i \in DOMAIN gs2 :
                        /\ gs2[i].head = ts[m].codec
                        /\ ts[m].lang # "UND" => \E k \in DOMAIN gs2[i].langs : gs2[i].langs[k] = ts[m].lang
    BY DEF Told, later
  <2>1. CASE m \in 1..n
    <3>1. PICK i \in DOMAIN gs :
            /\ gs[i].head = ts[m].codec
            /\ ts[m].lang # "UND" => \E k \in DOMAIN gs[i].langs : gs[i].langs[k] = ts[m].lang
      BY <2>1 DEF Told
    <3>2. QED
      BY <1>4, <1>8, <3>1
  <2>2. CASE m = n + 1
    <3>1. PICK i \in DOMAIN gs2 : gs2[i].head = c /\ \E langs \in Seq(STRING) : gs2[i].langs = Said(langs, l)
      <4>1. <<>> \in Seq(STRING)
        OBVIOUS
      <4>2. CASE \E i \in DOMAIN gs : gs[i].head = c
        BY <1>2, <1>4, <4>2
      <4>3. CASE ~\E i \in DOMAIN gs : gs[i].head = c
        <5>1. N + 1 \in DOMAIN gs2 /\ gs2[N + 1] = [head |-> c, langs |-> Said(<<>>, l)]
          BY <1>4, <4>3
        <5>2. gs2[N + 1].head = c /\ gs2[N + 1].langs = Said(<<>>, l)
          BY <5>1
        <5>3. QED
          BY <4>1, <5>1, <5>2
      <4>4. QED
        BY <4>2, <4>3
    <3>2. PICK langs \in Seq(STRING) : gs2[i].langs = Said(langs, l)
      BY <3>1
    <3>3. known => \E k \in DOMAIN gs2[i].langs : gs2[i].langs[k] = l
      <4>1. known => Len(langs) + 1 \in DOMAIN Said(langs, l) /\ Said(langs, l)[Len(langs) + 1] = l
        BY <1>6, Zenon
      <4>2. QED
        BY <3>2, <4>1
    <3>4. ts[m].codec = c /\ ts[m].lang = l
      BY <1>5, <2>2
    <3>5. QED
      BY <3>1, <3>3, <3>4 DEF known
  <2>3. QED
    BY <1>1, <2>1, <2>2
\* A language of a pill is one that it had or the track's.
<1>10. ASSUME NEW i \in DOMAIN gs2, NEW k \in DOMAIN gs2[i].langs
      PROVE  \/ i \in DOMAIN gs /\ k \in DOMAIN gs[i].langs /\ gs2[i].langs[k] = gs[i].langs[k] /\ gs2[i].head = gs[i].head
             \/ /\ gs2[i].langs[k] = l /\ gs2[i].head = c /\ known
                /\ \A k2 \in DOMAIN gs2[i].langs : k2 < k => i \in DOMAIN gs /\ k2 \in DOMAIN gs[i].langs
                /\ \A k2 \in DOMAIN gs2[i].langs : k2 <= k
  <2>1. CASE i \in DOMAIN gs /\ gs[i].head # c
    BY <1>4, <2>1
  <2>2. CASE i \in DOMAIN gs /\ gs[i].head = c
    <3> DEFINE langs == gs[i].langs
    <3>1. langs \in Seq(STRING) /\ gs2[i].langs = Said(langs, l) /\ gs2[i].head = c /\ gs[i].head = c
      BY <1>2, <1>4, <2>2
    <3>2. Len(langs) \in Nat /\ DOMAIN langs = 1..Len(langs)
      BY <3>1, SeqElements
    <3> HIDE DEF langs
    <3>3. CASE ~known
      BY <2>2, <3>1, <3>3, <1>6 DEF langs
    <3>4. CASE known
      <4>1. DOMAIN gs2[i].langs = DOMAIN langs \cup {Len(langs) + 1} /\ gs2[i].langs[Len(langs) + 1] = l
        BY <3>1, <3>4, <1>6
      <4>2. CASE k \in DOMAIN langs
        BY <2>2, <3>1, <4>2, <1>6 DEF langs
      <4>3. CASE k = Len(langs) + 1
        <5>1. \A k2 \in DOMAIN gs2[i].langs : k2 <= k /\ (k2 < k => k2 \in DOMAIN langs)
          BY <3>2, <4>1, <4>3
        <5>2. QED
          BY <2>2, <3>1, <3>4, <4>1, <4>3, <5>1 DEF langs
      <4>4. QED
        BY <4>1, <4>2, <4>3
    <3>5. QED
      BY <3>3, <3>4
  <2>3. CASE i = N + 1 /\ gs2[i].head = c /\ gs2[i].langs = Said(<<>>, l)
    <3>1. <<>> \in Seq(STRING) /\ Len(<<>>) = 0 /\ DOMAIN <<>> = {}
      OBVIOUS
    <3>2. known
      BY <2>3, <3>1, <1>6
    <3>3. DOMAIN gs2[i].langs = {1} /\ gs2[i].langs[1] = l
      <4>1. DOMAIN Said(<<>>, l) = DOMAIN <<>> \cup {Len(<<>>) + 1} /\ Said(<<>>, l)[Len(<<>>) + 1] = l
        BY <1>6, <3>1, <3>2, Zenon
      <4>2. QED
        BY <2>3, <3>1, <4>1
    <3>4. QED
      BY <2>3, <3>2, <3>3
  <2>4. QED
    BY <1>7, <2>1, <2>2, <2>3
<1>11. Found(ts, n + 1, gs2)
  <2>1. ASSUME NEW i \in DOMAIN gs2
        PROVE  \E m \in later : ts[m].codec = gs2[i].head
    <3>1. CASE gs2[i].head = c
      BY <1>1, <1>5, <3>1
    <3>2. CASE i \in DOMAIN gs /\ gs2[i].head = gs[i].head
      BY <1>1, <3>2 DEF Found
    <3>3. QED
      BY <1>7, <3>1, <3>2
  <2>2. ASSUME NEW i \in DOMAIN gs2, NEW k \in DOMAIN gs2[i].langs
        PROVE  /\ gs2[i].langs[k] # "UND"
               /\ \E m \in later : ts[m] = [lang |-> gs2[i].langs[k], codec |-> gs2[i].head]
    <3>1. CASE i \in DOMAIN gs /\ k \in DOMAIN gs[i].langs /\ gs2[i].langs[k] = gs[i].langs[k] /\ gs2[i].head = gs[i].head
      <4>1. gs[i].langs[k] # "UND" /\ \E m \in 1..n : ts[m] = [lang |-> gs[i].langs[k], codec |-> gs[i].head]
        BY <3>1 DEF Found
      <4>2. QED
        BY <1>1, <3>1, <4>1
    <3>2. CASE gs2[i].langs[k] = l /\ gs2[i].head = c /\ known
      <4>1. ts[n + 1] = [lang |-> gs2[i].langs[k], codec |-> gs2[i].head]
        BY <1>3, <1>5, <3>2
      <4>2. QED
        BY <1>1, <3>2, <4>1 DEF known
    <3>3. QED
      BY <1>10, <3>1, <3>2
  <2>3. QED
    BY <2>1, <2>2 DEF Found, later
<1>12. HeadsInOrder(ts, n + 1, gs2)
  <2> SUFFICES ASSUME NEW i \in DOMAIN gs2, NEW j \in DOMAIN gs2, i < j
               PROVE  \E m \in later : ts[m].codec = gs2[i].head /\ \A k \in 1..m : ts[k].codec # gs2[j].head
    BY DEF HeadsInOrder, later
  <2>1. CASE j \in DOMAIN gs
    <3>1. i \in DOMAIN gs
      BY <1>2, <1>7, <2>1
    <3>2. PICK m \in 1..n : ts[m].codec = gs[i].head /\ \A k \in 1..m : ts[k].codec # gs[j].head
      BY <2>1, <3>1 DEF HeadsInOrder
    <3>3. gs2[i].head = gs[i].head /\ gs2[j].head = gs[j].head /\ m \in later
      BY <1>1, <1>4, <2>1, <3>1
    <3>4. QED
      BY <3>2, <3>3
  <2>2. CASE j = N + 1 /\ gs2[j].head = c /\ \A g \in DOMAIN gs : gs[g].head # c
    <3>1. i \in DOMAIN gs
      BY <1>2, <1>7, <2>2
    <3>2. PICK m \in 1..n : ts[m].codec = gs[i].head
      BY <3>1 DEF Found
    <3>3. \A k \in 1..n : ts[k].codec # c
      BY <2>2 DEF Told
    <3>4. m \in later /\ gs2[i].head = gs[i].head /\ \A k \in 1..m : ts[k].codec # gs2[j].head
      BY <1>1, <1>4, <2>2, <3>1, <3>3
    <3>5. QED
      BY <3>2, <3>4
  <2>3. QED
    BY <1>7, <2>1, <2>2
<1>13. LangsInOrder(ts, n + 1, gs2)
  <2> SUFFICES ASSUME NEW i \in DOMAIN gs2, NEW k1 \in DOMAIN gs2[i].langs, NEW k2 \in DOMAIN gs2[i].langs, k1 < k2
               PROVE  \E m \in later :
                        /\ ts[m] = [lang |-> gs2[i].langs[k1], codec |-> gs2[i].head]
                        /\ \A k \in 1..m : ts[k] # [lang |-> gs2[i].langs[k2], codec |-> gs2[i].head]
    BY DEF LangsInOrder, later
  <2>1. DOMAIN gs2[i].langs \subseteq Nat
    BY <1>2, SeqElements
  <2>2. i \in DOMAIN gs /\ k1 \in DOMAIN gs[i].langs /\ gs2[i].langs[k1] = gs[i].langs[k1] /\ gs2[i].head = gs[i].head
    <3>1. ~\A k3 \in DOMAIN gs2[i].langs : k3 <= k1
      BY <2>1
    <3>2. QED
      BY <1>10, <3>1
  <2>3. CASE k2 \in DOMAIN gs[i].langs
    <3>1. PICK m \in 1..n :
            /\ ts[m] = [lang |-> gs[i].langs[k1], codec |-> gs[i].head]
            /\ \A k \in 1..m : ts[k] # [lang |-> gs[i].langs[k2], codec |-> gs[i].head]
      BY <2>2, <2>3 DEF LangsInOrder
    <3>2. gs2[i].langs[k2] = gs[i].langs[k2] /\ m \in later
      BY <1>1, <1>8, <2>2, <2>3
    <3>3. QED
      BY <2>2, <3>1, <3>2
  <2>4. CASE gs2[i].langs[k2] = l /\ gs2[i].head = c
    <3>1. PICK m \in 1..n : ts[m] = [lang |-> gs[i].langs[k1], codec |-> gs[i].head]
      BY <2>2 DEF Found
    <3>2. m \in later /\ \A k \in 1..m : ts[k] # t
      BY <1>1, <1>5
    <3>3. t = [lang |-> gs2[i].langs[k2], codec |-> gs2[i].head]
      BY <1>3, <2>4
    <3>4. QED
      BY <2>2, <3>1, <3>2, <3>3
  <2>5. QED
    BY <1>10, <2>2, <2>3, <2>4
<1>14. QED
  BY <1>9, <1>11, <1>12, <1>13

\* A track that was seen before changes nothing.
LEMMA SameTells ==
  ASSUME NEW ts \in Seq(Track), NEW n \in Nat, n < Len(ts), NEW gs,
         Told(ts, n, gs), Found(ts, n, gs), HeadsInOrder(ts, n, gs), LangsInOrder(ts, n, gs),
         \E m \in 1..n : ts[m] = ts[n + 1]
  PROVE  /\ Told(ts, n + 1, gs) /\ Found(ts, n + 1, gs)
         /\ HeadsInOrder(ts, n + 1, gs) /\ LangsInOrder(ts, n + 1, gs)
<1> DEFINE later == 1..(n + 1)
<1>1. later = (1..n) \cup {n + 1}
  OBVIOUS
<1>2. PICK m0 \in 1..n : ts[m0] = ts[n + 1]
  OBVIOUS
<1> HIDE DEF later
<1>3. Told(ts, n + 1, gs)
  <2>1. \A m \in later : \E m1 \in 1..n : ts[m] = ts[m1]
    BY <1>1, <1>2
  <2>2. \A m \in later : \E i \in DOMAIN gs :
          /\ gs[i].head = ts[m].codec
          /\ ts[m].lang # "UND" => \E k \in DOMAIN gs[i].langs : gs[i].langs[k] = ts[m].lang
    <3> SUFFICES ASSUME NEW m \in later
                 PROVE  \E i \in DOMAIN gs :
                          /\ gs[i].head = ts[m].codec
                          /\ ts[m].lang # "UND" => \E k \in DOMAIN gs[i].langs : gs[i].langs[k] = ts[m].lang
      OBVIOUS
    <3>1. PICK m1 \in 1..n : ts[m] = ts[m1]
      BY <2>1
    <3>2. PICK i \in DOMAIN gs :
            /\ gs[i].head = ts[m1].codec
            /\ ts[m1].lang # "UND" => \E k \in DOMAIN gs[i].langs : gs[i].langs[k] = ts[m1].lang
      BY DEF Told
    <3>3. QED
      BY <3>1, <3>2
  <2>3. QED
    BY <2>2 DEF Told, later
<1>4. Found(ts, n + 1, gs)
  BY <1>1 DEF Found, later
<1>5. HeadsInOrder(ts, n + 1, gs)
  BY <1>1 DEF HeadsInOrder, later
<1>6. LangsInOrder(ts, n + 1, gs)
  <2> SUFFICES ASSUME NEW i \in DOMAIN gs, NEW k1 \in DOMAIN gs[i].langs, NEW k2 \in DOMAIN gs[i].langs, k1 < k2
               PROVE  \E m \in later : /\ ts[m] = [lang |-> gs[i].langs[k1], codec |-> gs[i].head]
                                      /\ \A k \in 1..m : ts[k] # [lang |-> gs[i].langs[k2], codec |-> gs[i].head]
    BY DEF LangsInOrder, later
  <2>1. PICK m \in 1..n : /\ ts[m] = [lang |-> gs[i].langs[k1], codec |-> gs[i].head]
                          /\ \A k \in 1..m : ts[k] # [lang |-> gs[i].langs[k2], codec |-> gs[i].head]
    BY DEF LangsInOrder
  <2>2. QED
    BY <1>1, <2>1
<1>7. QED
  BY <1>3, <1>4, <1>5, <1>6

\* How many tracks are in a group.
Done == IF doing = "look" THEN 0 ELSE IF doing = "group" THEN nth ELSE Len(tracks)

GroupInv ==
  /\ section \notin {"audio", "subtitles"} => tracks = <<>>
  /\ doing = "look" => grouped = <<>>
  /\ Done <= Len(tracks)
  /\ Told(tracks, Done, grouped) /\ Found(tracks, Done, grouped)
  /\ HeadsInOrder(tracks, Done, grouped) /\ LangsInOrder(tracks, Done, grouped)

\* What _make_badge_groups() does with a track that it has not seen.
LEMMA GroupGrows ==
  ASSUME TaggingTypeOK, NEW t \in Track, t = tracks[nth + 1],
         grouped' = IF \A i \in DOMAIN grouped : grouped[i].head # t.codec
                    THEN Append(grouped, [head |-> t.codec, langs |-> Said(<<>>, t.lang)])
                    ELSE [i \in DOMAIN grouped |->
                            IF grouped[i].head = t.codec
                            THEN [head |-> t.codec, langs |-> Said(grouped[i].langs, t.lang)] ELSE grouped[i]]
  PROVE  grouped' \in Seq(Pill) /\ Grown(tracks, nth, grouped, grouped')
<1> DEFINE c == t.codec
           l == t.lang
           N == Len(grouped)
           rec(langs) == [head |-> c, langs |-> Said(langs, l)]
           new == \A i \in DOMAIN grouped : grouped[i].head # c
<1>1. c \in STRING /\ l \in STRING /\ <<>> \in Seq(STRING)
  BY DEF Track
<1>2. \A langs \in Seq(STRING) : rec(langs) \in Pill
  BY <1>1, SaidIs DEF Pill
<1>3. grouped \in Seq(Pill)
  BY DEF TaggingTypeOK, Pill
<1>4. /\ N \in Nat /\ DOMAIN grouped = 1..N
      /\ \A i \in DOMAIN grouped : grouped[i] \in Pill /\ grouped[i].langs \in Seq(STRING)
  <2>1. \A p \in Pill : p.langs \in Seq(STRING)
    BY DEF Pill
  <2>2. QED
    BY <1>3, <2>1, SeqElements
<1>5. grouped' = IF new THEN Append(grouped, rec(<<>>))
                 ELSE [i \in DOMAIN grouped |-> IF grouped[i].head = c THEN rec(grouped[i].langs) ELSE grouped[i]]
  OBVIOUS
<1>6. tracks[nth + 1].codec = c /\ tracks[nth + 1].lang = l
  OBVIOUS
<1>7. \A langs : rec(langs).head = c /\ rec(langs).langs = Said(langs, l) /\ rec(langs) = [head |-> c, langs |-> Said(langs, l)]
  OBVIOUS
<1> HIDE DEF c, l, rec
<1>8. CASE new
  <2>1. grouped' = Append(grouped, rec(<<>>)) /\ rec(<<>>) \in Pill
    BY <1>1, <1>2, <1>5, <1>8
  <2>2. /\ grouped' \in Seq(Pill) /\ DOMAIN grouped' = DOMAIN grouped \cup {N + 1}
        /\ grouped'[N + 1] = rec(<<>>) /\ \A i \in DOMAIN grouped : grouped'[i] = grouped[i]
    BY <1>3, <2>1, SeqAppend
  <2>3. grouped'[N + 1] = [head |-> c, langs |-> Said(<<>>, l)]
    BY <1>7, <2>2
  <2>4. QED
    BY <1>6, <1>8, <2>2, <2>3 DEF Grown
<1>9. CASE ~new
  <2>1. grouped' = [i \in DOMAIN grouped |-> IF grouped[i].head = c THEN rec(grouped[i].langs) ELSE grouped[i]]
    BY <1>5, <1>9
  <2>2. \A i \in DOMAIN grouped : grouped'[i] = IF grouped[i].head = c THEN rec(grouped[i].langs) ELSE grouped[i]
    BY <2>1
  <2>3. \A i \in DOMAIN grouped : grouped'[i] \in Pill
    BY <1>2, <1>4, <2>2
  <2>4. grouped' \in [1..N -> Pill]
    BY <1>4, <2>1, <2>3
  <2>5. grouped' \in Seq(Pill)
    BY <1>4, <2>4, SeqOfFunction
  <2>6. DOMAIN grouped' = DOMAIN grouped
    BY <2>1
  <2>7. \A i \in DOMAIN grouped : grouped[i].head = c => grouped'[i].head = c /\ grouped'[i].langs = Said(grouped[i].langs, l)
    BY <1>7, <2>2
  <2>8. \A i \in DOMAIN grouped : grouped[i].head # c => grouped'[i] = grouped[i]
    BY <2>2
  <2>9. QED
    BY <1>6, <1>9, <2>5, <2>6, <2>7, <2>8 DEF Grown
<1>10. QED
  BY <1>8, <1>9

\* No language has two audio tracks.
LEMMA AudioOnce ==
  ASSUME TaggingTypeOK, AudioInv, section = "audio"
  PROVE  \A i, j \in DOMAIN tracks : i < j => tracks[i].lang # tracks[j].lang
<1>1. InOrder(Seen)
  BY DEF AudioInv
<1> SUFFICES ASSUME NEW i \in DOMAIN tracks, NEW j \in DOMAIN tracks, i < j
             PROVE  tracks[i].lang # tracks[j].lang
  OBVIOUS
<1>2. PICK m \in 1..Seen : LangAt(m) = tracks[i].lang /\ \A k \in 1..m : LangAt(k) # tracks[j].lang
  BY <1>1 DEF InOrder
<1>3. m \in 1..m
  OBVIOUS
<1>4. QED
  BY <1>2, <1>3

LEMMA GroupKeeps ==
  ASSUME TaggingTypeOK, AudioInv, GroupInv, Group
  PROVE  grouped' \in Seq(Pill) /\ GroupInv'
<1> DEFINE t == tracks[nth + 1]
           again == section = "subtitles" /\ \E m \in 1..nth : tracks[m] = t
<1>1. doing = "group" /\ nth \in Nat /\ nth < Len(tracks)
  BY DEF TaggingTypeOK, Group
<1>2. nth' = nth + 1 /\ doing' = doing /\ tracks' = tracks /\ section' = section
  BY DEF Group
<1>3. tracks \in Seq(Track) /\ grouped \in Seq(Pill)
  BY DEF TaggingTypeOK, Track, Pill
<1>4. grouped' = IF again THEN grouped
                 ELSE IF \A i \in DOMAIN grouped : grouped[i].head # t.codec
                 THEN Append(grouped, [head |-> t.codec, langs |-> Said(<<>>, t.lang)])
                 ELSE [i \in DOMAIN grouped |->
                         IF grouped[i].head = t.codec
                         THEN [head |-> t.codec, langs |-> Said(grouped[i].langs, t.lang)] ELSE grouped[i]]
  BY DEF Group
<1>5. Told(tracks, nth, grouped) /\ Found(tracks, nth, grouped) /\ HeadsInOrder(tracks, nth, grouped) /\ LangsInOrder(tracks, nth, grouped)
  BY <1>1 DEF GroupInv, Done
<1>6. t \in Track /\ nth + 1 <= Len(tracks) /\ nth + 1 \in DOMAIN tracks /\ \A m \in 1..nth : m \in DOMAIN tracks /\ m < nth + 1
  BY <1>1, <1>3
<1>7. section \in {"audio", "subtitles"}
  <2>1. tracks # <<>>
    BY <1>1
  <2>2. QED
    BY <2>1 DEF GroupInv
<1>8. /\ grouped' \in Seq(Pill)
      /\ Told(tracks, nth + 1, grouped') /\ Found(tracks, nth + 1, grouped')
      /\ HeadsInOrder(tracks, nth + 1, grouped') /\ LangsInOrder(tracks, nth + 1, grouped')
  <2>1. CASE again
    <3>1. grouped' = grouped
      BY <1>4, <2>1
    <3>2. QED
      BY <1>1, <1>3, <1>5, <2>1, <3>1, SameTells
  <2>2. CASE ~again
    <3>1. \A m \in 1..nth : tracks[m] # t
      <4>1. CASE section = "audio"
        BY <1>6, <4>1, AudioOnce
      <4>2. CASE section = "subtitles"
        BY <2>2, <4>2
      <4>3. QED
        BY <1>7, <4>1, <4>2
    <3>2. grouped' \in Seq(Pill) /\ Grown(tracks, nth, grouped, grouped')
      <4> HIDE DEF again
      <4>1. grouped' = IF \A i \in DOMAIN grouped : grouped[i].head # t.codec
                       THEN Append(grouped, [head |-> t.codec, langs |-> Said(<<>>, t.lang)])
                       ELSE [i \in DOMAIN grouped |->
                               IF grouped[i].head = t.codec
                               THEN [head |-> t.codec, langs |-> Said(grouped[i].langs, t.lang)] ELSE grouped[i]]
        BY <1>4, <2>2
      <4>2. QED
        BY <1>6, <4>1, GroupGrows
    <3>3. QED
      BY <1>1, <1>3, <1>5, <3>1, <3>2, GrownTells
  <2>3. QED
    BY <2>1, <2>2
<1>9. Done' = nth + 1
  BY <1>1, <1>2 DEF Done
<1>10. QED
  BY <1>1, <1>2, <1>6, <1>7, <1>8, <1>9 DEF GroupInv

\* What sorted() does to a list: a permutation that keeps the order of equals.
LEMMA SortingOf ==
  ASSUME NEW n \in Nat, NEW keys, DOMAIN keys = 1..n, \A i \in 1..n : keys[i] \in Nat, NEW f \in Sortings(keys)
  PROVE  /\ f \in [1..n -> 1..n]
         /\ \A j \in 1..n : \E i \in 1..n : f[i] = j
         /\ \A i, j \in 1..n : i < j =>
              keys[f[i]] < keys[f[j]] \/ (keys[f[i]] = keys[f[j]] /\ f[i] < f[j])
BY DEF Sortings

LEMMA Permuted ==
  ASSUME NEW S, NEW s \in Seq(S), NEW f \in [DOMAIN s -> DOMAIN s], NEW r, r = [k \in DOMAIN s |-> s[f[k]]]
  PROVE  r \in Seq(S) /\ Len(r) = Len(s) /\ DOMAIN r = DOMAIN s /\ \A k \in DOMAIN s : f[k] \in DOMAIN s /\ r[k] = s[f[k]]
<1>1. Len(s) \in Nat /\ DOMAIN s = 1..Len(s) /\ \A m \in DOMAIN s : s[m] \in S
  BY SeqElements
<1>2. \A k \in DOMAIN s : f[k] \in DOMAIN s /\ r[k] = s[f[k]]
  OBVIOUS
<1>3. r \in [1..Len(s) -> S]
  BY <1>1, <1>2
<1>4. r \in Seq(S) /\ Len(r) = Len(s)
  BY <1>1, <1>3, SeqOfFunction
<1>5. QED
  BY <1>2, <1>4

\* The keys by which a pill's languages are ordered.
Keys(langs, prefer) == [k \in DOMAIN langs |-> Preference(langs[k], prefer)]

\* What a pill becomes.
Labelled(p, b, prefer) ==
  /\ b.head = p.head /\ b.rank = BestOf(p.langs, prefer)
  /\ \E f \in Sortings(Keys(p.langs, prefer)) : b.langs = [k \in DOMAIN p.langs |-> p.langs[f[k]]]

Ranks(bs) == [k \in DOMAIN bs |-> bs[k].rank]

LabelInv ==
  /\ doing \in {"look", "group"} => labels = <<>>
  /\ doing = "order" => Len(labels) = nth /\ nth <= Len(grouped)
  /\ doing = "shown" => /\ Len(labels) = Len(grouped)
                        /\ \E f \in Sortings(Ranks(labels)) : shown = [k \in DOMAIN labels |-> labels[f[k]]]
  /\ \A i \in DOMAIN labels : Labelled(grouped[i], labels[i], item.prefer)

LEMMA PreferIs ==
  ASSUME TaggingTypeOK
  PROVE  item.prefer \in Seq(STRING) /\ Len(item.prefer) \in Nat /\ DOMAIN item.prefer = 1..Len(item.prefer)
BY ItemShape, SeqElements DEF TaggingTypeOK

LEMMA OrderLangsKeeps ==
  ASSUME TaggingTypeOK, LabelInv, OrderLangs
  PROVE  labels' \in Seq(Label) /\ LabelInv'
<1> DEFINE p == grouped[nth + 1]
           prefer == item.prefer
           N == Len(labels)
<1>1. doing = "order" /\ nth \in Nat /\ nth < Len(grouped)
  BY DEF TaggingTypeOK, OrderLangs
<1>2. nth' = nth + 1 /\ doing' = doing /\ grouped' = grouped /\ item' = item
  BY DEF OrderLangs
<1>3. PICK f \in Sortings([k \in DOMAIN p.langs |-> Preference(p.langs[k], prefer)]) :
        labels' = Append(labels, [head |-> p.head, langs |-> [k \in DOMAIN p.langs |-> p.langs[f[k]]],
                                  rank |-> BestOf(p.langs, prefer)])
  BY DEF OrderLangs
<1> DEFINE r == [k \in DOMAIN p.langs |-> p.langs[f[k]]]
           b == [head |-> p.head, langs |-> r, rank |-> BestOf(p.langs, prefer)]
<1>4. p \in Pill
  <2>1. grouped \in Seq(Pill)
    BY DEF TaggingTypeOK, Pill
  <2>2. nth + 1 \in DOMAIN grouped
    BY <1>1, <2>1
  <2>3. QED
    BY <2>1, <2>2, SeqElements
<1>5. p.langs \in Seq(STRING) /\ p.head \in STRING
  BY <1>4 DEF Pill
<1>6. prefer \in Seq(STRING) /\ Len(prefer) \in Nat /\ DOMAIN prefer = 1..Len(prefer)
  BY PreferIs
<1>7. labels \in Seq(Label) /\ N \in Nat /\ DOMAIN labels = 1..N
  <2>1. labels \in Seq(Label)
    BY DEF TaggingTypeOK, Label
  <2>2. QED
    BY <2>1, SeqElements
<1>8. f \in Sortings(Keys(p.langs, prefer))
  BY <1>3 DEF Keys
<1> HIDE DEF p, prefer, N
<1>9. r \in Seq(STRING)
  <2>1. Len(p.langs) \in Nat /\ DOMAIN p.langs = 1..Len(p.langs)
    BY <1>5, SeqElements
  <2>2. f \in [DOMAIN p.langs -> DOMAIN p.langs]
    <3>1. DOMAIN Keys(p.langs, prefer) = DOMAIN p.langs
      BY DEF Keys
    <3>2. QED
      BY <1>8, <3>1 DEF Sortings
  <2> DEFINE s == p.langs
  <2>3. s \in Seq(STRING) /\ f \in [DOMAIN s -> DOMAIN s] /\ r = [k \in DOMAIN s |-> s[f[k]]]
    BY <1>5, <2>2
  <2> HIDE DEF s, r
  <2>4. QED
    BY <2>3, Permuted
<1>10. BestOf(p.langs, prefer) \in Nat
  <2>1. BestOf(p.langs, prefer) \in 1..(Len(prefer) + 1)
    BY <1>6, BestOfPill
  <2>2. QED
    BY <1>6, <2>1
<1>11. Labelled(p, b, prefer)
  <2>1. b.head = p.head /\ b.rank = BestOf(p.langs, prefer) /\ b.langs = [k \in DOMAIN p.langs |-> p.langs[f[k]]]
    OBVIOUS
  <2>2. QED
    BY <1>8, <2>1 DEF Labelled
<1> HIDE DEF r
<1>12. b \in Label
  BY <1>5, <1>9, <1>10 DEF Label
<1>13. labels' = Append(labels, b)
  BY <1>3 DEF r
<1> HIDE DEF b
<1>14. /\ labels' \in Seq(Label) /\ DOMAIN labels' = DOMAIN labels \cup {N + 1}
       /\ labels'[N + 1] = b /\ \A i \in DOMAIN labels : labels'[i] = labels[i]
  BY <1>7, <1>12, <1>13, SeqAppend DEF N
<1>15. Len(labels) = nth /\ N = nth /\ \A i \in DOMAIN labels : Labelled(grouped[i], labels[i], prefer)
  BY <1>1 DEF LabelInv, N, prefer
<1>16. Len(labels') = nth + 1
  <2>1. Len(labels') \in Nat /\ DOMAIN labels' = 1..Len(labels')
    BY <1>14, SeqElements
  <2>2. DOMAIN labels' = 1..(nth + 1)
    BY <1>1, <1>7, <1>14, <1>15
  <2> DEFINE len == Len(labels')
             next == nth + 1
  <2>3. len \in Nat /\ next \in Nat
    BY <1>1, <2>1
  <2>4. 1..len = 1..next
    BY <2>1, <2>2, Zenon
  <2> HIDE DEF len, next
  <2>5. len = next
    BY <2>3, <2>4, SameLength
  <2>6. QED
    BY <2>5 DEF len, next
<1>17. \A i \in DOMAIN labels' : Labelled(grouped[i], labels'[i], prefer)
  <2>1. Labelled(grouped[N + 1], b, prefer)
    BY <1>11, <1>15 DEF p
  <2>2. QED
    BY <1>14, <1>15, <2>1
<1>18. nth + 1 <= Len(grouped)
  <2>1. Len(grouped) \in Nat
    BY SeqElements DEF TaggingTypeOK
  <2>2. QED
    BY <1>1, <2>1
<1>19. LabelInv'
  BY <1>1, <1>2, <1>16, <1>17, <1>18 DEF LabelInv, prefer
<1>20. QED
  BY <1>14, <1>19

LEMMA OrderPillsKeeps ==
  ASSUME TaggingTypeOK, LabelInv, OrderPills
  PROVE  shown' \in Seq(Label) /\ LabelInv'
<1>1. doing = "order" /\ nth = Len(grouped) /\ doing' = "shown" /\ item' = item /\ grouped' = grouped /\ labels' = labels
  BY DEF OrderPills
<1>2. PICK f \in Sortings([k \in DOMAIN labels |-> labels[k].rank]) : shown' = [k \in DOMAIN labels |-> labels[f[k]]]
  BY DEF OrderPills
<1>3. labels \in Seq(Label)
  BY DEF TaggingTypeOK, Label
<1>4. f \in [DOMAIN labels -> DOMAIN labels]
  BY <1>2 DEF Sortings
<1>5. shown' \in Seq(Label)
  BY <1>2, <1>3, <1>4, Permuted
<1>6. f \in Sortings(Ranks(labels))
  BY <1>2 DEF Ranks
<1>7. Len(labels) = Len(grouped) /\ \A i \in DOMAIN labels : Labelled(grouped[i], labels[i], item.prefer)
  BY <1>1 DEF LabelInv
<1>8. LabelInv'
  BY <1>1, <1>2, <1>6, <1>7 DEF LabelInv
<1>9. QED
  BY <1>5, <1>8

\* A pill ranks the same however its languages are ordered.
LEMMA BestOfPermuted ==
  ASSUME NEW prefer, NEW langs, NEW r, NEW f \in [DOMAIN langs -> DOMAIN langs],
         \A j \in DOMAIN langs : \E i \in DOMAIN langs : f[i] = j,
         DOMAIN r = DOMAIN langs, \A k \in DOMAIN langs : r[k] = langs[f[k]]
  PROVE  BestOf(r, prefer) = BestOf(langs, prefer)
<1> DEFINE A == {Preference(r[k], prefer) : k \in DOMAIN r}
           B == {Preference(langs[k], prefer) : k \in DOMAIN langs}
<1>1. A \subseteq B
  <2>1. \A k \in DOMAIN r : f[k] \in DOMAIN langs /\ r[k] = langs[f[k]]
    OBVIOUS
  <2>2. QED
    BY <2>1
<1>2. B \subseteq A
  <2> SUFFICES ASSUME NEW j \in DOMAIN langs
               PROVE  Preference(langs[j], prefer) \in A
    OBVIOUS
  <2>1. PICK i \in DOMAIN langs : f[i] = j
    OBVIOUS
  <2>2. i \in DOMAIN r /\ r[i] = langs[j]
    BY <2>1
  <2>3. QED
    BY <2>2
<1>3. A = B
  BY <1>1, <1>2
<1>4. QED
  BY <1>3 DEF BestOf

\* When the pills are drawn: g takes a pill to its group.
Drawn(g) ==
  /\ g \in [DOMAIN grouped -> DOMAIN grouped] /\ DOMAIN shown = DOMAIN grouped
  /\ \A a \in DOMAIN grouped : \E i \in DOMAIN grouped : g[i] = a
  /\ \A i \in DOMAIN shown : Labelled(grouped[g[i]], shown[i], item.prefer)
  /\ \A i, j \in DOMAIN shown : i < j =>
       shown[i].rank < shown[j].rank \/ (shown[i].rank = shown[j].rank /\ g[i] < g[j])

LEMMA ShownDrawn ==
  ASSUME TaggingTypeOK, LabelInv, doing = "shown"
  PROVE  \E g : Drawn(g)
<1>1. PICK f \in Sortings(Ranks(labels)) : shown = [k \in DOMAIN labels |-> labels[f[k]]]
  BY DEF LabelInv
<1>2. labels \in Seq(Label) /\ grouped \in Seq(Pill)
  BY DEF TaggingTypeOK, Label, Pill
<1>3. Len(labels) = Len(grouped) /\ \A i \in DOMAIN labels : Labelled(grouped[i], labels[i], item.prefer)
  BY DEF LabelInv
<1>4. /\ Len(labels) \in Nat /\ DOMAIN labels = 1..Len(labels) /\ DOMAIN grouped = DOMAIN labels
      /\ \A i \in DOMAIN labels : labels[i].rank \in Nat
  <2>1. \A b \in Label : b.rank \in Nat
    BY DEF Label
  <2>2. Len(labels) \in Nat /\ DOMAIN labels = 1..Len(labels) /\ \A i \in DOMAIN labels : labels[i] \in Label
    BY <1>2, SeqElements
  <2>3. Len(grouped) \in Nat /\ DOMAIN grouped = 1..Len(grouped)
    BY <1>2, SeqElements
  <2>4. QED
    BY <1>3, <2>1, <2>2, <2>3
<1> DEFINE n == Len(labels)
           keys == Ranks(labels)
<1>5. DOMAIN keys = 1..n /\ \A i \in 1..n : keys[i] \in Nat /\ keys[i] = labels[i].rank
  BY <1>4 DEF Ranks
<1>6. n \in Nat /\ DOMAIN labels = 1..n /\ DOMAIN grouped = 1..n
  BY <1>4
<1> HIDE DEF n, keys
<1>7. /\ f \in [1..n -> 1..n]
      /\ \A j \in 1..n : \E i \in 1..n : f[i] = j
      /\ \A i, j \in 1..n : i < j => keys[f[i]] < keys[f[j]] \/ (keys[f[i]] = keys[f[j]] /\ f[i] < f[j])
  BY <1>1, <1>5, <1>6, SortingOf DEF keys
<1>8. DOMAIN shown = 1..n /\ \A i \in 1..n : f[i] \in 1..n /\ shown[i] = labels[f[i]]
  BY <1>1, <1>6, <1>7
<1>9. \A i \in 1..n : shown[i].rank = keys[f[i]]
  BY <1>5, <1>8
<1>10. f \in [DOMAIN grouped -> DOMAIN grouped] /\ DOMAIN shown = DOMAIN grouped
  BY <1>6, <1>7, <1>8
<1>11. \A a \in DOMAIN grouped : \E i \in DOMAIN grouped : f[i] = a
  BY <1>6, <1>7
<1>12. \A i \in DOMAIN shown : Labelled(grouped[f[i]], shown[i], item.prefer)
  BY <1>3, <1>6, <1>8
<1>13. ASSUME NEW i \in DOMAIN shown, NEW j \in DOMAIN shown, i < j
       PROVE  shown[i].rank < shown[j].rank \/ (shown[i].rank = shown[j].rank /\ f[i] < f[j])
  <2>1. keys[f[i]] < keys[f[j]] \/ (keys[f[i]] = keys[f[j]] /\ f[i] < f[j])
    BY <1>7, <1>8, <1>13
  <2>2. shown[i].rank = keys[f[i]] /\ shown[j].rank = keys[f[j]]
    BY <1>8, <1>9
  <2>3. QED
    BY <2>1, <2>2
<1>14. Drawn(f)
  BY <1>10, <1>11, <1>12, <1>13 DEF Drawn
<1>15. QED
  BY <1>14

\* f takes a drawn language to where it was in its group.
Moved(f, p, b, prefer) ==
  /\ f \in [DOMAIN p.langs -> DOMAIN p.langs]
  /\ \A j \in DOMAIN p.langs : \E k \in DOMAIN p.langs : f[k] = j
  /\ \A k \in DOMAIN p.langs : b.langs[k] = p.langs[f[k]]
  /\ \A k1, k2 \in DOMAIN p.langs : k1 < k2 =>
       \/ Preference(b.langs[k1], prefer) < Preference(b.langs[k2], prefer)
       \/ Preference(b.langs[k1], prefer) = Preference(b.langs[k2], prefer) /\ f[k1] < f[k2]

\* A pill has its group's languages, in the order of preference.
LEMMA PillOfGroup ==
  ASSUME TaggingTypeOK, NEW p \in Pill, NEW b, Labelled(p, b, item.prefer)
  PROVE  /\ b.head = p.head /\ DOMAIN b.langs = DOMAIN p.langs
         /\ b.rank = BestOf(b.langs, item.prefer)
         /\ DOMAIN b.langs = 1..Len(p.langs) /\ Len(p.langs) \in Nat
         /\ \E f : Moved(f, p, b, item.prefer)
<1> DEFINE prefer == item.prefer
           n == Len(p.langs)
           keys == Keys(p.langs, prefer)
<1>1. p.langs \in Seq(STRING)
  BY DEF Pill
<1>2. n \in Nat /\ DOMAIN p.langs = 1..n
  BY <1>1, SeqElements
<1>3. PICK f \in Sortings(keys) : b.langs = [k \in DOMAIN p.langs |-> p.langs[f[k]]]
  BY DEF Labelled
<1>4. prefer \in Seq(STRING) /\ Len(prefer) \in Nat /\ DOMAIN prefer = 1..Len(prefer)
  BY PreferIs
<1>5. DOMAIN keys = 1..n /\ \A k \in 1..n : keys[k] \in Nat /\ keys[k] = Preference(p.langs[k], prefer)
  <2>1. \A l : Preference(l, prefer) \in 1..(Len(prefer) + 1)
    BY <1>4, PreferenceOf
  <2>2. \A l : Preference(l, prefer) \in Nat
    BY <1>4, <2>1
  <2>3. QED
    BY <1>2, <2>2 DEF Keys
<1> HIDE DEF keys, n, prefer
<1>6. /\ f \in [1..n -> 1..n]
      /\ \A j \in 1..n : \E i \in 1..n : f[i] = j
      /\ \A i, j \in 1..n : i < j => keys[f[i]] < keys[f[j]] \/ (keys[f[i]] = keys[f[j]] /\ f[i] < f[j])
  BY <1>2, <1>3, <1>5, SortingOf
<1>7. DOMAIN b.langs = 1..n /\ \A k \in 1..n : f[k] \in 1..n /\ b.langs[k] = p.langs[f[k]]
  BY <1>2, <1>3, <1>6
<1>8. \A k \in 1..n : Preference(b.langs[k], prefer) = keys[f[k]]
  BY <1>5, <1>7
<1>9. BestOf(b.langs, prefer) = BestOf(p.langs, prefer)
  <2> DEFINE langs == p.langs
             r == b.langs
  <2>1. /\ f \in [DOMAIN langs -> DOMAIN langs] /\ DOMAIN r = DOMAIN langs
        /\ \A j \in DOMAIN langs : \E i \in DOMAIN langs : f[i] = j
        /\ \A k \in DOMAIN langs : r[k] = langs[f[k]]
    BY <1>2, <1>6, <1>7
  <2> HIDE DEF langs, r
  <2>2. BestOf(r, prefer) = BestOf(langs, prefer)
    BY <2>1, BestOfPermuted
  <2>3. QED
    BY <2>2 DEF langs, r
<1>10. b.head = p.head /\ b.rank = BestOf(p.langs, prefer)
  BY DEF Labelled, prefer
<1>11. ASSUME NEW i \in 1..n, NEW j \in 1..n, i < j
       PROVE  \/ Preference(b.langs[i], prefer) < Preference(b.langs[j], prefer)
              \/ Preference(b.langs[i], prefer) = Preference(b.langs[j], prefer) /\ f[i] < f[j]
  <2>1. keys[f[i]] < keys[f[j]] \/ (keys[f[i]] = keys[f[j]] /\ f[i] < f[j])
    BY <1>6, <1>11
  <2>2. Preference(b.langs[i], prefer) = keys[f[i]] /\ Preference(b.langs[j], prefer) = keys[f[j]]
    BY <1>8
  <2>3. QED
    BY <2>1, <2>2
<1>12. f \in [DOMAIN p.langs -> DOMAIN p.langs] /\ \A j \in DOMAIN p.langs : \E k \in DOMAIN p.langs : f[k] = j
  BY <1>2, <1>6
<1>13. \A k \in DOMAIN p.langs : b.langs[k] = p.langs[f[k]]
  BY <1>2, <1>7
<1>14. \A k1, k2 \in DOMAIN p.langs : k1 < k2 =>
         \/ Preference(b.langs[k1], prefer) < Preference(b.langs[k2], prefer)
         \/ Preference(b.langs[k1], prefer) = Preference(b.langs[k2], prefer) /\ f[k1] < f[k2]
  BY <1>2, <1>11
<1>15. DOMAIN b.langs = DOMAIN p.langs /\ DOMAIN b.langs = 1..n /\ n \in Nat
  BY <1>2, <1>7
<1>16. b.head = p.head /\ b.rank = BestOf(b.langs, prefer)
  BY <1>9, <1>10
<1>17. Moved(f, p, b, prefer)
  BY <1>12, <1>13, <1>14 DEF Moved
<1>18. QED
  BY <1>15, <1>16, <1>17 DEF n, prefer

\* What a drawn pill is: the languages of a group, in the order of preference.
LEMMA PillShape ==
  ASSUME TaggingTypeOK, NEW g, Drawn(g), NEW i \in DOMAIN shown
  PROVE  /\ g[i] \in DOMAIN grouped /\ grouped[g[i]] \in Pill
         /\ Labelled(grouped[g[i]], shown[i], item.prefer)
<1>1. g[i] \in DOMAIN grouped /\ Labelled(grouped[g[i]], shown[i], item.prefer)
  BY DEF Drawn
<1>2. grouped \in Seq(Pill)
  BY DEF TaggingTypeOK, Pill
<1>3. QED
  BY <1>1, <1>2, SeqElements

\* Every track is on a pill, ...
LEMMA TracksShown ==
  ASSUME TaggingTypeOK, GroupInv, doing = "shown", NEW g, Drawn(g), NEW m \in DOMAIN tracks
  PROVE  \E i \in DOMAIN shown :
           /\ shown[i].head = tracks[m].codec
           /\ tracks[m].lang # "UND" => \E k \in DOMAIN shown[i].langs : shown[i].langs[k] = tracks[m].lang
<1>1. Told(tracks, Len(tracks), grouped) /\ m \in 1..Len(tracks)
  BY SeqElements DEF GroupInv, Done, TaggingTypeOK
<1>2. PICK a \in DOMAIN grouped :
        /\ grouped[a].head = tracks[m].codec
        /\ tracks[m].lang # "UND" => \E k \in DOMAIN grouped[a].langs : grouped[a].langs[k] = tracks[m].lang
  BY <1>1 DEF Told
<1>3. PICK i \in DOMAIN shown : g[i] = a
  BY DEF Drawn
<1> DEFINE p == grouped[a]
           b == shown[i]
<1>4. p \in Pill /\ Labelled(p, b, item.prefer)
  BY <1>3, PillShape
<1> HIDE DEF p, b
<1>5. PICK f : Moved(f, p, b, item.prefer)
  BY <1>4, PillOfGroup
<1>6. b.head = p.head /\ DOMAIN b.langs = DOMAIN p.langs
  BY <1>4, PillOfGroup
<1>7. ASSUME NEW l, \E j \in DOMAIN p.langs : p.langs[j] = l
      PROVE  \E k \in DOMAIN b.langs : b.langs[k] = l
  BY <1>5, <1>6, <1>7 DEF Moved
<1>8. QED
  BY <1>2, <1>6, <1>7 DEF p, b

\* ... nothing else is, ...
LEMMA PillsFound ==
  ASSUME TaggingTypeOK, GroupInv, doing = "shown", NEW g, Drawn(g), NEW i \in DOMAIN shown
  PROVE  /\ \E m \in DOMAIN tracks : tracks[m].codec = shown[i].head
         /\ \A k \in DOMAIN shown[i].langs :
              /\ shown[i].langs[k] # "UND"
              /\ \E m \in DOMAIN tracks : tracks[m] = [lang |-> shown[i].langs[k], codec |-> shown[i].head]
<1> DEFINE p == grouped[g[i]]
           b == shown[i]
<1>1. g[i] \in DOMAIN grouped /\ p \in Pill /\ Labelled(p, b, item.prefer)
  BY PillShape
<1>2. Found(tracks, Len(tracks), grouped) /\ 1..Len(tracks) = DOMAIN tracks
  BY SeqElements DEF GroupInv, Done, TaggingTypeOK
<1>3. /\ \E m \in DOMAIN tracks : tracks[m].codec = p.head
      /\ \A k \in DOMAIN p.langs :
           /\ p.langs[k] # "UND"
           /\ \E m \in DOMAIN tracks : tracks[m] = [lang |-> p.langs[k], codec |-> p.head]
  BY <1>1, <1>2 DEF Found
<1> HIDE DEF p, b
<1>4. PICK f : Moved(f, p, b, item.prefer)
  BY <1>1, PillOfGroup
<1>5. b.head = p.head /\ DOMAIN b.langs = DOMAIN p.langs
  BY <1>1, PillOfGroup
<1>6. \A k \in DOMAIN b.langs : f[k] \in DOMAIN p.langs /\ b.langs[k] = p.langs[f[k]]
  BY <1>4, <1>5 DEF Moved
<1>7. \A k \in DOMAIN b.langs :
        /\ b.langs[k] # "UND"
        /\ \E m \in DOMAIN tracks : tracks[m] = [lang |-> b.langs[k], codec |-> b.head]
  BY <1>3, <1>5, <1>6
<1>8. QED
  BY <1>3, <1>5, <1>7 DEF b

\* ... a language is there once, ...
LEMMA LangsShown ==
  ASSUME TaggingTypeOK, GroupInv, doing = "shown", NEW g, Drawn(g), NEW i \in DOMAIN shown,
         NEW k1 \in DOMAIN shown[i].langs, NEW k2 \in DOMAIN shown[i].langs, k1 < k2
  PROVE  LET l1 == shown[i].langs[k1]
             l2 == shown[i].langs[k2]
         IN /\ l1 # l2
            /\ \/ Preference(l1, item.prefer) < Preference(l2, item.prefer)
               \/ /\ Preference(l1, item.prefer) = Preference(l2, item.prefer)
                  /\ Earlier(l1, shown[i].head, l2, shown[i].head)
<1> DEFINE p == grouped[g[i]]
           b == shown[i]
           prefer == item.prefer
           l1 == b.langs[k1]
           l2 == b.langs[k2]
<1>1. g[i] \in DOMAIN grouped /\ p \in Pill /\ Labelled(p, b, prefer)
  BY PillShape
<1>2. LangsInOrder(tracks, Len(tracks), grouped) /\ 1..Len(tracks) = DOMAIN tracks /\ tracks \in Seq(Track)
  BY SeqElements DEF GroupInv, Done, TaggingTypeOK, Track
<1>3. ASSUME NEW q1 \in DOMAIN p.langs, NEW q2 \in DOMAIN p.langs, q1 < q2
      PROVE  \E m \in DOMAIN tracks : /\ tracks[m] = [lang |-> p.langs[q1], codec |-> p.head]
                                      /\ \A k \in 1..m : tracks[k] # [lang |-> p.langs[q2], codec |-> p.head]
  <2>1. PICK m \in 1..Len(tracks) : /\ tracks[m] = [lang |-> p.langs[q1], codec |-> p.head]
                                    /\ \A k \in 1..m : tracks[k] # [lang |-> p.langs[q2], codec |-> p.head]
    BY <1>1, <1>2, <1>3 DEF LangsInOrder
  <2>2. m \in DOMAIN tracks
    BY <1>2
  <2>3. QED
    BY <2>1, <2>2
<1> HIDE DEF p
<1>4. PICK f : Moved(f, p, b, prefer)
  BY <1>1, PillOfGroup
<1>5. b.head = p.head /\ DOMAIN b.langs = DOMAIN p.langs
  BY <1>1, PillOfGroup
<1>6. \/ Preference(l1, prefer) < Preference(l2, prefer)
      \/ Preference(l1, prefer) = Preference(l2, prefer) /\ f[k1] < f[k2]
  BY <1>4, <1>5 DEF Moved
<1>7. l1 = p.langs[f[k1]] /\ l2 = p.langs[f[k2]] /\ f[k1] \in DOMAIN p.langs /\ f[k2] \in DOMAIN p.langs
  BY <1>4, <1>5 DEF Moved
<1>8. CASE Preference(l1, prefer) < Preference(l2, prefer)
  <2>1. Preference(l1, prefer) \in Nat
    <3>1. prefer \in Seq(STRING) /\ Len(prefer) \in Nat /\ DOMAIN prefer = 1..Len(prefer)
      BY PreferIs
    <3>2. Preference(l1, prefer) \in 1..(Len(prefer) + 1)
      BY <3>1, PreferenceOf
    <3>3. QED
      BY <3>1, <3>2
  <2> HIDE DEF l1, l2, prefer, b
  <2>2. ~(Preference(l1, prefer) < Preference(l1, prefer))
    BY <2>1
  <2>3. l1 # l2
    BY <1>8, <2>2
  <2>4. QED
    BY <1>8, <2>3 DEF l1, l2, prefer, b
<1>9. CASE Preference(l1, prefer) = Preference(l2, prefer) /\ f[k1] < f[k2]
  <2>1. PICK m \in DOMAIN tracks : /\ tracks[m] = [lang |-> l1, codec |-> p.head]
                                   /\ \A k \in 1..m : tracks[k] # [lang |-> l2, codec |-> p.head]
    BY <1>3, <1>7, <1>9
  <2>2. m \in 1..m
    BY <1>2
  <2>3. l1 # l2
    BY <2>1, <2>2
  <2>4. \A k \in 1..m : tracks[k] = [lang |-> tracks[k].lang, codec |-> tracks[k].codec]
    <3>1. \A k \in 1..m : k \in DOMAIN tracks
      BY <1>2
    <3>2. \A t \in Track : t = [lang |-> t.lang, codec |-> t.codec]
      BY DEF Track
    <3>3. QED
      BY <1>2, <3>1, <3>2, SeqElements
  <2>5. \A k \in 1..m : tracks[k].lang # l2 \/ tracks[k].codec # p.head
    BY <2>1, <2>4
  <2>6. tracks[m].lang = l1 /\ tracks[m].codec = p.head
    BY <2>1
  <2>7. Earlier(l1, p.head, l2, p.head)
    BY <2>5, <2>6 DEF Earlier
  <2>8. QED
    BY <1>5, <1>9, <2>3, <2>7
<1>10. QED
  BY <1>6, <1>8, <1>9

\* ... and so is a codec.
LEMMA PillsInOrder ==
  ASSUME TaggingTypeOK, GroupInv, doing = "shown", NEW g, Drawn(g), NEW i \in DOMAIN shown, NEW j \in DOMAIN shown, i < j
  PROVE  LET b1 == BestOf(shown[i].langs, item.prefer)
             b2 == BestOf(shown[j].langs, item.prefer)
         IN /\ shown[i].head # shown[j].head
            /\ b1 < b2 \/ (b1 = b2 /\ Leads(shown[i].head, shown[j].head))
<1>1. HeadsInOrder(tracks, Len(tracks), grouped) /\ 1..Len(tracks) = DOMAIN tracks
  BY SeqElements DEF GroupInv, Done, TaggingTypeOK
<1>2. \A a, c \in DOMAIN grouped : a < c =>
        \E m \in DOMAIN tracks : tracks[m].codec = grouped[a].head /\ \A k \in 1..m : tracks[k].codec # grouped[c].head
  BY <1>1 DEF HeadsInOrder
<1>3. \A x \in DOMAIN shown : /\ shown[x].head = grouped[g[x]].head
                              /\ shown[x].rank = BestOf(shown[x].langs, item.prefer)
                              /\ g[x] \in DOMAIN grouped
  BY PillShape, PillOfGroup
<1>4. shown[i].rank < shown[j].rank \/ (shown[i].rank = shown[j].rank /\ g[i] < g[j])
  BY DEF Drawn
<1>5. \A a, c \in DOMAIN grouped : a < c =>
        grouped[a].head # grouped[c].head /\ Leads(grouped[a].head, grouped[c].head)
  <2> SUFFICES ASSUME NEW a \in DOMAIN grouped, NEW c \in DOMAIN grouped, a < c
               PROVE  grouped[a].head # grouped[c].head /\ Leads(grouped[a].head, grouped[c].head)
    OBVIOUS
  <2>1. PICK m \in DOMAIN tracks : tracks[m].codec = grouped[a].head /\ \A k \in 1..m : tracks[k].codec # grouped[c].head
    BY <1>2
  <2>2. m \in 1..m
    BY <1>1
  <2>3. QED
    BY <2>1, <2>2 DEF Leads
<1>6. DOMAIN grouped \subseteq Nat
  <2>1. grouped \in Seq(Pill)
    BY DEF TaggingTypeOK, Pill
  <2>2. QED
    BY <2>1, SeqElements
<1>7. g[i] # g[j]
  <2>1. \A x \in DOMAIN shown : shown[x].rank = BestOf(grouped[g[x]].langs, item.prefer)
    BY PillShape DEF Labelled
  <2>2. shown[i].rank \in Nat
    <3>1. item.prefer \in Seq(STRING) /\ Len(item.prefer) \in Nat /\ DOMAIN item.prefer = 1..Len(item.prefer)
      BY PreferIs
    <3>2. BestOf(shown[i].langs, item.prefer) \in 1..(Len(item.prefer) + 1)
      BY <3>1, BestOfPill
    <3>3. QED
      BY <1>3, <3>1, <3>2
  <2>3. g[i] \in Nat
    BY <1>3, <1>6
  <2>4. QED
    BY <1>4, <2>1, <2>2, <2>3
<1>8. grouped[g[i]].head # grouped[g[j]].head
  <2>1. g[i] \in Nat /\ g[j] \in Nat
    BY <1>3, <1>6
  <2>2. g[i] < g[j] \/ g[j] < g[i]
    BY <1>7, <2>1
  <2>3. QED
    BY <1>3, <1>5, <2>2
<1>9. shown[i].head # shown[j].head
  BY <1>3, <1>8
<1>10. g[i] < g[j] => Leads(shown[i].head, shown[j].head)
  <2>1. g[i] < g[j] => Leads(grouped[g[i]].head, grouped[g[j]].head)
    BY <1>3, <1>5
  <2>2. QED
    BY <1>3, <2>1
<1>11. QED
  BY <1>3, <1>4, <1>9, <1>10

\* The first language that is drawn is the best that the file has.
LEMMA PreferredFirst ==
  ASSUME TaggingTypeOK, GroupInv, doing = "shown", NEW g, Drawn(g),
         NEW present, present = {a \in DOMAIN item.prefer : \E m \in DOMAIN tracks : tracks[m].lang = item.prefer[a]},
         present # {}
  PROVE  shown # <<>> /\ shown[1].langs # <<>> /\ shown[1].langs[1] = item.prefer[Least(present)]
<1> DEFINE prefer == item.prefer
           n == Len(item.prefer)
           p == Least(present)
<1>1. prefer \in Seq(STRING) /\ n \in Nat /\ DOMAIN prefer = 1..n
  BY PreferIs
<1>2. p \in present /\ \A a \in present : p <= a
  <2>1. present \in SUBSET (1..n)
    BY <1>1
  <2>2. QED
    BY <1>1, <2>1, LeastOf
<1>3. /\ \A a, b \in DOMAIN prefer : a # b => prefer[a] # prefer[b]
      /\ \A a \in DOMAIN prefer : prefer[a] # "UND"
  BY TaggingAssumption DEF TaggingTypeOK
<1>4. PICK m0 \in DOMAIN tracks : tracks[m0].lang = prefer[p]
  BY <1>2
<1>5. p \in 1..n /\ prefer[p] # "UND"
  BY <1>1, <1>2, <1>3
<1>6. \A a : a \in DOMAIN prefer /\ (\E m \in DOMAIN tracks : tracks[m].lang = prefer[a]) => p <= a
  BY <1>2
<1> HIDE DEF p, n, prefer
<1>7. PICK i0 \in DOMAIN shown : \E k \in DOMAIN shown[i0].langs : shown[i0].langs[k] = prefer[p]
  BY <1>4, <1>5, TracksShown
<1>8. PICK k0 \in DOMAIN shown[i0].langs : shown[i0].langs[k0] = prefer[p]
  BY <1>7
<1>9. shown \in Seq(Label) /\ Len(shown) \in Nat /\ DOMAIN shown = 1..Len(shown)
  <2>1. shown \in Seq(Label)
    BY DEF TaggingTypeOK, Label
  <2>2. QED
    BY <2>1, SeqElements
<1>10. 1 \in DOMAIN shown /\ shown # <<>> /\ i0 \in Nat /\ 1 <= i0
  BY <1>9
<1>11. Preference(prefer[p], prefer) = p
  <2>1. Preference(prefer[p], prefer) \in DOMAIN prefer /\ Preference(prefer[p], prefer) <= n
    BY <1>1, <1>5, PreferenceOf DEF n, prefer
  <2>2. prefer[Preference(prefer[p], prefer)] = prefer[p]
    BY <1>1, <2>1, PreferenceOf DEF n, prefer
  <2>3. QED
    BY <1>1, <1>3, <1>5, <2>1, <2>2
<1> DEFINE best(i) == BestOf(shown[i].langs, prefer)
<1>12. best(i0) <= p
  <2>1. best(i0) <= Preference(shown[i0].langs[k0], prefer)
    BY <1>1, BestOfPill DEF n, prefer
  <2>2. QED
    BY <1>8, <1>11, <2>1
<1>13. best(1) \in Nat /\ best(i0) \in Nat /\ p \in Nat
  <2>1. \A i : best(i) \in 1..(n + 1)
    BY <1>1, BestOfPill DEF n, prefer
  <2>2. QED
    BY <1>1, <1>5, <2>1
<1>14. best(1) <= best(i0)
  <2>1. CASE i0 = 1
    BY <1>13, <2>1
  <2>2. CASE 1 < i0
    <3>1. best(1) < best(i0) \/ best(1) = best(i0)
      BY <1>10, <2>2, PillsInOrder DEF prefer
    <3>2. QED
      BY <1>13, <3>1
  <2>3. QED
    BY <1>10, <2>1, <2>2
<1>15. best(1) <= p /\ best(1) <= n
  BY <1>1, <1>5, <1>12, <1>13, <1>14
<1>16. PICK k1 \in DOMAIN shown[1].langs : best(1) = Preference(shown[1].langs[k1], prefer)
  BY <1>1, <1>15, BestOfPill DEF n, prefer
\* A language of the pill that is preferred is not preferred to p's.
<1>17. ASSUME NEW k \in DOMAIN shown[1].langs, Preference(shown[1].langs[k], prefer) <= p
       PROVE  Preference(shown[1].langs[k], prefer) = p /\ shown[1].langs[k] = prefer[p]
  <2> DEFINE l == shown[1].langs[k]
             a == Preference(l, prefer)
  <2>1. a \in 1..(n + 1) /\ a <= p
    BY <1>1, <1>17, PreferenceOf DEF n, prefer
  <2> HIDE DEF l, a
  <2>2. a <= n /\ a \in 1..n
    BY <1>1, <1>5, <2>1
  <2>3. prefer[a] = l
    BY <1>1, <2>2, PreferenceOf DEF a, n, prefer
  <2>4. \E m \in DOMAIN tracks : tracks[m].lang = l
    <3>1. PICK m \in DOMAIN tracks : tracks[m] = [lang |-> shown[1].langs[k], codec |-> shown[1].head]
      BY <1>10, PillsFound
    <3>2. tracks[m].lang = l
      BY <3>1 DEF l
    <3>3. QED
      BY <3>2
  <2>5. p <= a
    BY <1>1, <1>6, <2>2, <2>3, <2>4
  <2>6. a = p
    BY <1>5, <2>1, <2>2, <2>5
  <2>7. QED
    BY <2>3, <2>6 DEF a, l
<1>18. DOMAIN shown[1].langs = 1..Len(grouped[g[1]].langs) /\ Len(grouped[g[1]].langs) \in Nat
  BY <1>10, PillShape, PillOfGroup
<1>19. 1 \in DOMAIN shown[1].langs /\ k1 \in Nat /\ 1 <= k1
  BY <1>18
<1>20. Preference(shown[1].langs[1], prefer) <= p
  <2>1. CASE k1 = 1
    BY <1>15, <1>16, <2>1
  <2>2. CASE 1 < k1
    <3>1. \/ Preference(shown[1].langs[1], prefer) < Preference(shown[1].langs[k1], prefer)
          \/ Preference(shown[1].langs[1], prefer) = Preference(shown[1].langs[k1], prefer)
      BY <1>10, <1>19, <2>2, LangsShown DEF prefer
    <3>2. Preference(shown[1].langs[1], prefer) \in Nat
      <4>1. Preference(shown[1].langs[1], prefer) \in 1..(n + 1)
        BY <1>1, PreferenceOf DEF n, prefer
      <4>2. QED
        BY <1>1, <4>1
    <3>3. QED
      BY <1>13, <1>15, <1>16, <3>1, <3>2
  <2>3. QED
    BY <1>19, <2>1, <2>2
<1>21. shown[1].langs[1] = prefer[p]
  BY <1>17, <1>19, <1>20
<1>22. shown[1].langs # <<>>
  BY <1>19
<1>23. QED
  BY <1>10, <1>21, <1>22 DEF prefer, p

LEMMA PillsTellIt ==
  ASSUME TaggingTypeOK, GroupInv, LabelInv, doing = "shown"
  PROVE  PillsTell
<1>1. PICK g : Drawn(g)
  BY ShownDrawn
<1> DEFINE prefer == item.prefer
           present == {a \in DOMAIN prefer : \E m \in DOMAIN tracks : tracks[m].lang = prefer[a]}
<1>2. \A m \in DOMAIN tracks : \E i \in DOMAIN shown :
        /\ shown[i].head = tracks[m].codec
        /\ tracks[m].lang # "UND" => \E k \in DOMAIN shown[i].langs : shown[i].langs[k] = tracks[m].lang
  BY <1>1, TracksShown
<1>3. \A i \in DOMAIN shown :
        /\ \E m \in DOMAIN tracks : tracks[m].codec = shown[i].head
        /\ \A k \in DOMAIN shown[i].langs :
             /\ shown[i].langs[k] # "UND"
             /\ \E m \in DOMAIN tracks : tracks[m] = [lang |-> shown[i].langs[k], codec |-> shown[i].head]
  BY <1>1, PillsFound
<1>4. ASSUME NEW i \in DOMAIN shown, NEW k2 \in DOMAIN shown[i].langs, NEW k1 \in 1..(k2 - 1)
      PROVE  LET l1 == shown[i].langs[k1]
                 l2 == shown[i].langs[k2]
             IN /\ l1 # l2
                /\ \/ Preference(l1, prefer) < Preference(l2, prefer)
                   \/ /\ Preference(l1, prefer) = Preference(l2, prefer)
                      /\ Earlier(l1, shown[i].head, l2, shown[i].head)
  <2>1. DOMAIN shown[i].langs = 1..Len(grouped[g[i]].langs) /\ Len(grouped[g[i]].langs) \in Nat
    BY <1>1, PillShape, PillOfGroup
  <2>2. k1 \in DOMAIN shown[i].langs /\ k1 < k2
    BY <2>1
  <2>3. QED
    BY <1>1, <2>2, LangsShown
<1>5. ASSUME NEW j \in DOMAIN shown, NEW i \in 1..(j - 1)
      PROVE  LET b1 == BestOf(shown[i].langs, prefer)
                 b2 == BestOf(shown[j].langs, prefer)
             IN /\ shown[i].head # shown[j].head
                /\ b1 < b2 \/ (b1 = b2 /\ Leads(shown[i].head, shown[j].head))
  <2>1. shown \in Seq(Label)
    BY DEF TaggingTypeOK, Label
  <2>2. Len(shown) \in Nat /\ DOMAIN shown = 1..Len(shown)
    BY <2>1, SeqElements
  <2>3. i \in DOMAIN shown /\ i < j
    BY <2>2
  <2>4. QED
    BY <1>1, <2>3, PillsInOrder
<1>6. present # {} => shown # <<>> /\ shown[1].langs # <<>> /\ shown[1].langs[1] = prefer[Least(present)]
  BY <1>1, PreferredFirst
<1>7. QED
  BY <1>2, <1>3, <1>4, <1>5, <1>6 DEF PillsTell

TagInv == TaggingTypeOK /\ AudioInv /\ SubInv /\ GroupInv /\ LabelInv

LEMMA NoGroups ==
  ASSUME NEW ts
  PROVE  Told(ts, 0, <<>>) /\ Found(ts, 0, <<>>) /\ HeadsInOrder(ts, 0, <<>>) /\ LangsInOrder(ts, 0, <<>>)
<1>1. \A i \in DOMAIN <<>> : FALSE
  OBVIOUS
<1>2. 1..0 = {}
  OBVIOUS
<1>3. Told(ts, 0, <<>>)
  BY <1>2 DEF Told
<1>4. Found(ts, 0, <<>>)
  BY <1>1 DEF Found
<1>5. HeadsInOrder(ts, 0, <<>>)
  BY <1>1 DEF HeadsInOrder
<1>6. LangsInOrder(ts, 0, <<>>)
  BY <1>1 DEF LangsInOrder
<1>7. QED
  BY <1>3, <1>4, <1>5, <1>6

LEMMA TaggingInitHolds ==
  TaggingInit => TagInv
<1> SUFFICES ASSUME TaggingInit
             PROVE  TagInv
  OBVIOUS
<1>1. /\ item \in Items /\ section \in {"video", "audio", "subtitles", "rating"} /\ doing = "look" /\ nth = 0
      /\ tracks = <<>> /\ tags = {} /\ grouped = <<>> /\ labels = <<>> /\ shown = <<>>
  BY DEF TaggingInit
<1>2. \A i \in DOMAIN <<>> : FALSE
  OBVIOUS
<1>3. 1..0 = {} /\ Len(<<>>) = 0
  OBVIOUS
<1>4. TaggingTypeOK
  <2>1. \A S : <<>> \in Seq(S)
    OBVIOUS
  <2>2. tracks \in Seq([lang : STRING, codec : STRING]) /\ grouped \in Seq([head : STRING, langs : Seq(STRING)])
    BY <1>1, <2>1
  <2>3. labels \in Seq([head : STRING, langs : Seq(STRING), rank : Nat]) /\ shown \in Seq([head : STRING, langs : Seq(STRING), rank : Nat])
    BY <1>1, <2>1
  <2>4. nth \in Nat /\ doing \in {"look", "group", "order", "shown"} /\ tags = IF doing = "look" THEN {} ELSE Tags(item, section, tracks)
    BY <1>1
  <2>5. QED
    BY <1>1, <2>2, <2>3, <2>4 DEF TaggingTypeOK
<1>5. AudioInv
  <2>1. Seen = 0
    BY <1>1 DEF Seen
  <2>2. EveryLanguage(0) /\ InOrder(0) /\ BestCodec(0)
    BY <1>1, <1>2, <1>3 DEF EveryLanguage, InOrder, BestCodec
  <2>3. 0 <= Len(item.audios)
    <3>1. Len(item.audios) \in Nat
      BY <1>1, ItemShape, SeqElements
    <3>2. QED
      BY <3>1
  <2>4. QED
    BY <2>1, <2>2, <2>3 DEF AudioInv
<1>6. SubInv
  <2>1. /\ Len(item.subs) \in Nat /\ DOMAIN item.subs = 1..Len(item.subs)
        /\ Len(item.files) \in Nat /\ DOMAIN item.files = 1..Len(item.files)
    BY <1>4, SubtitleInputs
  <2> DEFINE S == Len(item.subs)
             F == Len(item.files)
  <2>2. 0 <= S + F /\ (\A m \in 1..S : ~(m <= 0)) /\ (\A m \in 1..F : ~(S + m <= 0))
    <3>1. S \in Nat /\ F \in Nat
      BY <2>1
    <3> HIDE DEF S, F
    <3>2. QED
      BY <3>1
  <2>3. \A m : Heard(m) => m <= 0
    BY <1>1 DEF Heard
  <2>4. nth <= Len(item.subs) + Len(item.files)
    BY <1>1, <2>2
  <2>5. \A i \in DOMAIN tracks : FALSE
    BY <1>1, <1>2
  <2>6. QED
    BY <2>1, <2>2, <2>3, <2>4, <2>5 DEF SubInv
<1>7. GroupInv
  <2>1. Done = 0
    BY <1>1 DEF Done
  <2>2. QED
    BY <1>1, <1>3, <2>1, NoGroups DEF GroupInv
<1>8. LabelInv
  BY <1>1, <1>2 DEF LabelInv
<1>9. QED
  BY <1>4, <1>5, <1>6, <1>7, <1>8 DEF TagInv

\* While the loops look at streams there are no pills.
LEMMA LookKeepsPills ==
  ASSUME GroupInv, LabelInv, doing = "look", doing' = doing, section' = section, section \in {"audio", "subtitles"},
         grouped' = grouped, labels' = labels, tracks' \in Seq(Track)
  PROVE  GroupInv' /\ LabelInv'
<1>1. grouped' = <<>> /\ labels' = <<>>
  BY DEF GroupInv, LabelInv
<1>2. Done' = 0
  BY DEF Done
<1>3. 0 <= Len(tracks')
  BY SeqElements
<1>4. GroupInv'
  BY <1>1, <1>2, <1>3, NoGroups DEF GroupInv
<1>5. \A i \in DOMAIN <<>> : FALSE
  OBVIOUS
<1>6. LabelInv'
  BY <1>1, <1>5 DEF LabelInv
<1>7. QED
  BY <1>4, <1>6

LEMMA LookKeepsTypes ==
  ASSUME TaggingTypeOK, doing = "look", doing' = doing, item' = item, section' = section, nth' = nth + 1,
         tags' = tags, grouped' = grouped, labels' = labels, shown' = shown, tracks' \in Seq(Track)
  PROVE  TaggingTypeOK'
<1>1. tracks' \in Seq([lang : STRING, codec : STRING])
  BY DEF Track
<1>2. nth' \in Nat
  BY DEF TaggingTypeOK
<1>3. tags' = IF doing' = "look" THEN {} ELSE Tags(item', section', tracks')
  BY DEF TaggingTypeOK
<1>4. QED
  BY <1>1, <1>2, <1>3 DEF TaggingTypeOK

\* A step after that changes neither the streams nor the tracks.
LEMMA TracksStay ==
  ASSUME TaggingTypeOK, AudioInv, SubInv, doing # "look", doing' # "look",
         item' = item, section' = section, tracks' = tracks
  PROVE  AudioInv' /\ SubInv'
<1>1. Seen' = Seen
  BY DEF Seen
<1>2. \A m : Heard(m)' <=> Heard(m)
  BY DEF Heard
<1>3. AudioInv'
  <2>1. EveryLanguage(Seen)' <=> EveryLanguage(Seen)
    BY <1>1 DEF EveryLanguage, LangAt
  <2>2. InOrder(Seen)' <=> InOrder(Seen)
    BY <1>1 DEF InOrder, LangAt
  <2>3. BestCodec(Seen)' <=> BestCodec(Seen)
    BY <1>1 DEF BestCodec, LangAt, CodecAt
  <2>4. QED
    BY <1>1, <2>1, <2>2, <2>3 DEF AudioInv
<1>4. SubInv'
  BY <1>2 DEF SubInv
<1>5. QED
  BY <1>3, <1>4

LEMMA BuildKeeps ==
  ASSUME TagInv, Build
  PROVE  TagInv'
<1>1. /\ doing = "look" /\ nth = Inputs(item, section) /\ tags' = Tags(item, section, tracks)
      /\ doing' = "group" /\ nth' = 0 /\ item' = item /\ section' = section /\ tracks' = tracks
      /\ grouped' = grouped /\ labels' = labels /\ shown' = shown
  BY DEF Build
<1>2. TaggingTypeOK'
  <2>1. tags' = Tags(item', section', tracks')
    BY <1>1
  <2>2. QED
    BY <1>1, <2>1 DEF TagInv, TaggingTypeOK
<1>3. AudioInv'
  <2> SUFFICES ASSUME section = "audio"
               PROVE  AudioInv'
    BY <1>1 DEF AudioInv
  <2>1. Inputs(item, section) = Len(item.audios)
    BY Zenon DEF Inputs
  <2>2. Seen = Len(item.audios) /\ Seen' = Seen
    BY <1>1, <2>1 DEF Seen
  <2>3. QED
    BY <1>1, <2>2 DEF TagInv, AudioInv, EveryLanguage, InOrder, BestCodec, LangAt, CodecAt
<1>4. SubInv'
  <2> SUFFICES ASSUME section = "subtitles"
               PROVE  SubInv'
    BY <1>1 DEF SubInv
  <2>1. Inputs(item, section) = Len(item.subs) + Len(item.files)
    <3>1. section # "audio"
      OBVIOUS
    <3>2. QED
      BY <3>1, Zenon DEF Inputs
  <2>2. \A m : Heard(m)' <=> Heard(m)
    BY <1>1, <2>1 DEF Heard
  <2>3. QED
    BY <1>1, <2>2 DEF TagInv, SubInv
<1>5. GroupInv'
  <2>1. Done = 0 /\ Done' = 0
    BY <1>1 DEF Done
  <2>2. QED
    BY <1>1, <2>1 DEF TagInv, GroupInv
<1>6. LabelInv'
  BY <1>1 DEF TagInv, LabelInv
<1>7. QED
  BY <1>2, <1>3, <1>4, <1>5, <1>6 DEF TagInv

LEMMA TaggingStep ==
  ASSUME TagInv, [TaggingNext]_taggingVars
  PROVE  TagInv'
<1> USE DEF TagInv
<1>1. CASE LookAudio
  <2>1. doing = "look" /\ doing' = doing /\ section' = section /\ section = "audio" /\ nth' = nth + 1
    BY <1>1 DEF LookAudio
  <2>2. item' = item /\ tags' = tags /\ grouped' = grouped /\ labels' = labels /\ shown' = shown
    BY <1>1 DEF LookAudio
  <2>3. tracks' \in Seq(Track)
    BY <1>1, AudioLooked
  <2>4. AudioInv'
    BY <1>1, LookAudioKeeps
  <2>5. SubInv'
    BY <2>1 DEF SubInv
  <2>6. QED
    BY <2>1, <2>2, <2>3, <2>4, <2>5, LookKeepsPills, LookKeepsTypes
<1>2. CASE LookSub
  <2>1. doing = "look" /\ doing' = doing /\ section' = section /\ section = "subtitles" /\ nth' = nth + 1
    BY <1>2 DEF LookSub
  <2>2. item' = item /\ tags' = tags /\ grouped' = grouped /\ labels' = labels /\ shown' = shown
    BY <1>2 DEF LookSub
  <2>3. tracks' \in Seq(Track) /\ SubInv'
    BY <1>2, LookSubKeeps
  <2>4. AudioInv'
    BY <2>1 DEF AudioInv
  <2>5. QED
    BY <2>1, <2>2, <2>3, <2>4, LookKeepsPills, LookKeepsTypes
<1>3. CASE LookFile
  <2>1. doing = "look" /\ doing' = doing /\ section' = section /\ section = "subtitles" /\ nth' = nth + 1
    BY <1>3 DEF LookFile
  <2>2. item' = item /\ tags' = tags /\ grouped' = grouped /\ labels' = labels /\ shown' = shown
    BY <1>3 DEF LookFile
  <2>3. tracks' \in Seq(Track) /\ SubInv'
    BY <1>3, LookFileKeeps
  <2>4. AudioInv'
    BY <2>1 DEF AudioInv
  <2>5. QED
    BY <2>1, <2>2, <2>3, <2>4, LookKeepsPills, LookKeepsTypes
<1>4. CASE Build
  BY <1>4, BuildKeeps
<1>5. CASE Group
  <2>1. doing = "group" /\ doing' = doing /\ item' = item /\ section' = section /\ tracks' = tracks /\ nth' = nth + 1
    BY <1>5 DEF Group
  <2>2. tags' = tags /\ labels' = labels /\ shown' = shown
    BY <1>5 DEF Group
  <2>3. grouped' \in Seq(Pill) /\ GroupInv'
    BY <1>5, GroupKeeps
  <2>4. AudioInv' /\ SubInv'
    BY <2>1, TracksStay
  <2>5. TaggingTypeOK'
    BY <2>1, <2>2, <2>3 DEF TaggingTypeOK, Pill
  <2>6. LabelInv'
    <3>1. labels' = <<>>
      BY <2>1, <2>2 DEF LabelInv
    <3>2. \A i \in DOMAIN <<>> : FALSE
      OBVIOUS
    <3>3. QED
      BY <2>1, <3>1, <3>2 DEF LabelInv
  <2>7. QED
    BY <2>3, <2>4, <2>5, <2>6
<1>6. CASE EndGroups
  <2>1. /\ doing = "group" /\ nth = Len(tracks) /\ doing' = "order" /\ nth' = 0
        /\ item' = item /\ section' = section /\ tracks' = tracks
    BY <1>6 DEF EndGroups
  <2>2. tags' = tags /\ labels' = labels /\ shown' = shown /\ grouped' = grouped
    BY <1>6 DEF EndGroups
  <2>3. GroupInv'
    <3>1. Done = Len(tracks) /\ Done' = Len(tracks)
      BY <2>1 DEF Done
    <3>2. QED
      BY <2>1, <2>2, <3>1 DEF GroupInv
  <2>4. AudioInv' /\ SubInv'
    BY <2>1, TracksStay
  <2>5. TaggingTypeOK'
    BY <2>1, <2>2 DEF TaggingTypeOK
  <2>6. LabelInv'
    <3>1. labels' = <<>> /\ Len(<<>>) = 0
      BY <2>1, <2>2 DEF LabelInv
    <3>2. \A i \in DOMAIN <<>> : FALSE
      OBVIOUS
    <3>3. 0 <= Len(grouped)
      BY SeqElements DEF TaggingTypeOK
    <3>4. QED
      BY <2>1, <2>2, <3>1, <3>2, <3>3 DEF LabelInv
  <2>7. QED
    BY <2>3, <2>4, <2>5, <2>6
<1>7. CASE OrderLangs
  <2>1. doing = "order" /\ doing' = doing /\ item' = item /\ section' = section /\ tracks' = tracks /\ nth' = nth + 1
    BY <1>7 DEF OrderLangs
  <2>2. tags' = tags /\ grouped' = grouped /\ shown' = shown
    BY <1>7 DEF OrderLangs
  <2>3. labels' \in Seq(Label) /\ LabelInv'
    BY <1>7, OrderLangsKeeps
  <2>4. AudioInv' /\ SubInv'
    BY <2>1, TracksStay
  <2>5. TaggingTypeOK'
    BY <2>1, <2>2, <2>3 DEF TaggingTypeOK, Label
  <2>6. GroupInv'
    <3>1. Done' = Done
      BY <2>1 DEF Done
    <3>2. QED
      BY <2>1, <2>2, <3>1 DEF GroupInv
  <2>7. QED
    BY <2>3, <2>4, <2>5, <2>6
<1>8. CASE OrderPills
  <2>1. doing = "order" /\ doing' = "shown" /\ item' = item /\ section' = section /\ tracks' = tracks /\ nth' = nth
    BY <1>8 DEF OrderPills
  <2>2. tags' = tags /\ grouped' = grouped /\ labels' = labels
    BY <1>8 DEF OrderPills
  <2>3. shown' \in Seq(Label) /\ LabelInv'
    BY <1>8, OrderPillsKeeps
  <2>4. AudioInv' /\ SubInv'
    BY <2>1, TracksStay
  <2>5. TaggingTypeOK'
    BY <2>1, <2>2, <2>3 DEF TaggingTypeOK, Label
  <2>6. GroupInv'
    <3>1. Done' = Done
      BY <2>1 DEF Done
    <3>2. QED
      BY <2>1, <2>2, <3>1 DEF GroupInv
  <2>7. QED
    BY <2>3, <2>4, <2>5, <2>6
<1>9. CASE UNCHANGED taggingVars
  <2>1. /\ item' = item /\ section' = section /\ doing' = doing /\ nth' = nth /\ tracks' = tracks /\ tags' = tags
        /\ grouped' = grouped /\ labels' = labels /\ shown' = shown
    BY <1>9 DEF taggingVars
  <2>2. TaggingTypeOK'
    BY <2>1 DEF TaggingTypeOK
  <2>3. AudioInv'
    BY <2>1 DEF AudioInv, Seen, EveryLanguage, InOrder, BestCodec, LangAt, CodecAt
  <2>4. SubInv'
    BY <2>1 DEF SubInv, Heard
  <2>5. GroupInv'
    BY <2>1 DEF GroupInv, Done
  <2>6. LabelInv'
    BY <2>1 DEF LabelInv
  <2>7. QED
    BY <2>2, <2>3, <2>4, <2>5, <2>6
<1>10. QED
  BY <1>1, <1>2, <1>3, <1>4, <1>5, <1>6, <1>7, <1>8, <1>9 DEF TaggingNext

LEMMA FrameClass ==
  ASSUME TaggingTypeOK
  PROVE  CropKeepsClass
<1> SUFFICES ASSUME item.videos # <<>>
             PROVE  LET v == item.videos[1] IN
                    \E level \in 1..5 :
                      /\ Resolution(v) = (IF level = 5 THEN "SD" ELSE Classes[level].label)
                      /\ \A i \in DOMAIN Classes : LET c == Classes[i] IN
                           /\ (v.w >= c.w \/ (c.h > 0 /\ v.h >= c.h)) => level <= i
                           /\ (c.h > 0 /\ 20 * v.w < 19 * c.w /\ 20 * v.h < 19 * c.h) => level > i
  BY DEF CropKeepsClass
<1> DEFINE v == item.videos[1]
           Frame == [w : Nat, h : Nat, side : SUBSET STRING, bt2020 : BOOLEAN, transfer : STRING,
                     codec : STRING, order : STRING]
<1>1. v.w \in Nat /\ v.h \in Nat
  <2>1. item.videos \in Seq(Frame)
    <3>1. item \in Item
      BY TaggingAssumption DEF TaggingTypeOK
    <3>2. QED
      BY <3>1 DEF Item
  <2>2. \A f \in Frame : f.w \in Nat /\ f.h \in Nat
    OBVIOUS
  <2> HIDE DEF Frame
  <2>3. 1 \in DOMAIN item.videos
    BY <2>1
  <2>4. v \in Frame
    BY <2>1, <2>3, SeqElements
  <2>5. QED
    BY <2>2, <2>4
<1> DEFINE w == v.w
           h == v.h
           In(i) == InClass(v, Classes[i])
           found == {i \in DOMAIN Classes : In(i)}
           level == IF found = {} THEN 5 ELSE Least(found)
<1>2. /\ DOMAIN Classes = 1..4
      /\ Classes[1].w = 3840 /\ Classes[1].h = 2160 /\ Classes[2].w = 1920 /\ Classes[2].h = 1080
      /\ Classes[3].w = 1280 /\ Classes[3].h = 720 /\ Classes[4].w = 854 /\ Classes[4].h = 0
  BY SMT DEF Classes
<1>3. \A i \in 1..4 : i = 1 \/ i = 2 \/ i = 3 \/ i = 4
  OBVIOUS
<1>4. \A i \in 1..4 :
        In(i) <=> \/ Classes[i].w > 0 /\ w * 100 >= Classes[i].w * 95
                  \/ Classes[i].h > 0 /\ h * 100 >= Classes[i].h * 95
  BY DEF InClass, Reaches
<1>5. Resolution(v) = IF found = {} THEN "SD" ELSE Classes[Least(found)].label
  BY DEF Resolution
<1> HIDE DEF In, v, w, h
<1>6. w \in Nat /\ h \in Nat
  BY <1>1 DEF w, h
<1>7. /\ In(1) <=> (w * 100 >= 364800 \/ h * 100 >= 205200)
      /\ In(2) <=> (w * 100 >= 182400 \/ h * 100 >= 102600)
      /\ In(3) <=> (w * 100 >= 121600 \/ h * 100 >= 68400)
      /\ In(4) <=> w * 100 >= 81130
  <2>1. 1 \in 1..4 /\ 2 \in 1..4 /\ 3 \in 1..4 /\ 4 \in 1..4
    OBVIOUS
  <2>2. In(1) <=> (w * 100 >= 364800 \/ h * 100 >= 205200)
    BY <1>2, <1>4, <1>6, <2>1, SMT
  <2>3. In(2) <=> (w * 100 >= 182400 \/ h * 100 >= 102600)
    BY <1>2, <1>4, <1>6, <2>1, SMT
  <2>4. In(3) <=> (w * 100 >= 121600 \/ h * 100 >= 68400)
    BY <1>2, <1>4, <1>6, <2>1, SMT
  <2>5. In(4) <=> w * 100 >= 81130
    BY <1>2, <1>4, <1>6, <2>1, SMT
  <2>6. QED
    BY <2>2, <2>3, <2>4, <2>5, SMT
<1>8. found # {} => Least(found) \in found /\ \A j \in found : Least(found) <= j
  <2>1. found \in SUBSET (1..4)
    BY <1>2, SMT
  <2> HIDE DEF found
  <2>2. QED
    BY <2>1, LeastOf
<1>9. \A i \in 1..4 : (w >= Classes[i].w \/ (Classes[i].h > 0 /\ h >= Classes[i].h)) => In(i)
  BY <1>2, <1>3, <1>6, <1>7, SMT
<1>10. \A i, j \in 1..4 :
         j <= i /\ In(j) /\ Classes[i].h > 0 => ~(20 * w < 19 * Classes[i].w /\ 20 * h < 19 * Classes[i].h)
  <2> SUFFICES ASSUME NEW i \in 1..4, NEW j \in 1..4, j <= i, In(j), Classes[i].h > 0
               PROVE  ~(20 * w < 19 * Classes[i].w /\ 20 * h < 19 * Classes[i].h)
    OBVIOUS
  <2>1. i # 4
    BY <1>2, SMT
  <2>2. In(j) => In(i)
    BY <1>3, <1>6, <1>7, <2>1, SMT
  <2>3. QED
    BY <1>2, <1>3, <1>6, <1>7, <2>1, <2>2, SMT
<1>11. level \in 1..5
  BY <1>2, <1>8, SMT
<1>12. Resolution(v) = (IF level = 5 THEN "SD" ELSE Classes[level].label)
  <2>1. CASE found = {}
    BY <1>5, <2>1
  <2>2. CASE found # {}
    <3>1. level = Least(found) /\ level # 5
      BY <1>2, <1>8, <2>2, SMT
    <3>2. QED
      BY <1>5, <2>2, <3>1
  <2>3. QED
    BY <2>1, <2>2
<1>13. ASSUME NEW i \in DOMAIN Classes
       PROVE  /\ (w >= Classes[i].w \/ (Classes[i].h > 0 /\ h >= Classes[i].h)) => level <= i
              /\ (Classes[i].h > 0 /\ 20 * w < 19 * Classes[i].w /\ 20 * h < 19 * Classes[i].h) => level > i
  <2>1. i \in 1..4
    BY <1>2, SMT
  <2>2. In(i) => level <= i
    BY <1>8
  <2>3. level <= i => \E j \in 1..4 : j <= i /\ In(j)
    <3>1. CASE found = {}
      BY <2>1, <3>1
    <3>2. CASE found # {}
      BY <1>2, <1>8, <3>2, SMT
    <3>3. QED
      BY <3>1, <3>2
  <2>4. level > i \/ level <= i
    BY <1>11, <2>1
  <2> HIDE DEF level, found
  <2>5. QED
    BY <1>9, <1>10, <2>1, <2>2, <2>3, <2>4
<1>14. QED
  BY <1>11, <1>12, <1>13 DEF v, w, h

\* The tracks whose language is known are as many as those languages.
LEMMA KnownLanguages ==
  ASSUME TaggingTypeOK, AudioInv, section = "audio", doing # "look"
  PROVE  /\ Cardinality({i \in DOMAIN tracks : tracks[i].lang # "UND"})
              = Cardinality({LangAt(n) : n \in DOMAIN item.audios} \ {"UND"})
         /\ Cardinality({i \in DOMAIN tracks : tracks[i].lang # "UND"}) \in Nat
<1> DEFINE S == {i \in DOMAIN tracks : tracks[i].lang # "UND"}
           T == {LangAt(n) : n \in DOMAIN item.audios} \ {"UND"}
           f == [i \in S |-> tracks[i].lang]
           N == Len(item.audios)
<1>1. DOMAIN item.audios = 1..N /\ N \in Nat
  BY ItemShape, SeqElements DEF TaggingTypeOK
<1>2. EveryLanguage(N) /\ BestCodec(N)
  BY DEF AudioInv, Seen
<1>3. DOMAIN tracks = 1..Len(tracks) /\ Len(tracks) \in Nat
  BY SeqElements DEF TaggingTypeOK
<1>4. IsFiniteSet(S)
  <2>1. IsFiniteSet(1..Len(tracks))
    BY <1>3, FS_Interval
  <2>2. S \subseteq 1..Len(tracks)
    BY <1>3
  <2>3. QED
    BY <2>1, <2>2, FS_Subset
<1>5. \A i \in DOMAIN tracks : \E n \in DOMAIN item.audios : tracks[i].lang = LangAt(n)
  <2> SUFFICES ASSUME NEW i \in DOMAIN tracks
               PROVE  \E n \in DOMAIN item.audios : tracks[i].lang = LangAt(n)
    OBVIOUS
  <2>1. PICK m \in 1..N : tracks[i] = [lang |-> LangAt(m), codec |-> CodecAt(m)]
    BY <1>2 DEF BestCodec
  <2>2. QED
    BY <1>1, <2>1
<1>6. \A n \in DOMAIN item.audios : \E i \in DOMAIN tracks : tracks[i].lang = LangAt(n)
  BY <1>1, <1>2 DEF EveryLanguage
<1>7. \A i, j \in DOMAIN tracks : tracks[i].lang = tracks[j].lang => i = j
  <2> SUFFICES ASSUME NEW i \in DOMAIN tracks, NEW j \in DOMAIN tracks, i # j
               PROVE  tracks[i].lang # tracks[j].lang
    OBVIOUS
  <2>1. i < j \/ j < i
    BY <1>3
  <2>2. QED
    BY <2>1, AudioOnce
<1>8. f \in [S -> T]
  BY <1>5
<1>9. \A i \in S : f[i] = tracks[i].lang
  OBVIOUS
<1>10. \A a, b \in S : f[a] = f[b] => a = b
  BY <1>7, <1>9
<1>11. \A t \in T : \E s \in S : f[s] = t
  <2> SUFFICES ASSUME NEW t \in T
               PROVE  \E s \in S : f[s] = t
    OBVIOUS
  <2>1. PICK n \in DOMAIN item.audios : t = LangAt(n)
    OBVIOUS
  <2>2. PICK i \in DOMAIN tracks : tracks[i].lang = t
    BY <1>6, <2>1
  <2>3. i \in S
    BY <2>2
  <2>4. QED
    BY <1>9, <2>2, <2>3
<1> HIDE DEF S, T, f
<1>12. ExistsBijection(S, T)
  <2>1. f \in Bijection(S, T)
    BY <1>8, <1>10, <1>11 DEF Bijection, Injection, Surjection, IsInjective
  <2>2. QED
    BY <2>1 DEF ExistsBijection
<1>13. Cardinality(T) = Cardinality(S) /\ Cardinality(S) \in Nat
  BY <1>4, <1>12, FS_Bijection, FS_CardinalityType
<1>14. QED
  BY <1>13 DEF S, T

LEMMA AudioTold ==
  ASSUME TagInv, section = "audio", doing # "look"
  PROVE  BestPerLanguage
<1> USE DEF TagInv
<1> DEFINE known == Cardinality({LangAt(n) : n \in DOMAIN item.audios} \ {"UND"})
           N == Len(item.audios)
           Plain == UNION {{tracks[i].lang, tracks[i].codec} : i \in DOMAIN tracks}
<1>1. EveryLanguage(N) /\ InOrder(N) /\ BestCodec(N)
  BY DEF AudioInv, Seen
<1>2. known = Cardinality({i \in DOMAIN tracks : tracks[i].lang # "UND"}) /\ known \in Nat
  BY KnownLanguages
<1> HIDE DEF known
<1>3. tags = Tags(item, "audio", tracks)
  BY DEF TaggingTypeOK
<1>4. Tags(item, "audio", tracks) = AudioTags(tracks)
  <2>1. "audio" # "video" /\ "audio" # "subtitles" /\ "audio" # "rating"
    OBVIOUS
  <2>2. Tags(item, "audio", tracks) = UNION {{}, AudioTags(tracks)}
    BY <2>1 DEF Tags
  <2>3. QED
    BY <2>2
<1>5. AudioTags(tracks) = Plain \cup (IF known = 2 THEN {"dual-audio"} ELSE {}) \cup (IF known >= 3 THEN {"multi-audio"} ELSE {})
  BY <1>2 DEF AudioTags
<1>6. "dual-audio" \notin Plain /\ "multi-audio" \notin Plain
  <2> SUFFICES ASSUME NEW i \in DOMAIN tracks
               PROVE  {tracks[i].lang, tracks[i].codec} \cap {"dual-audio", "multi-audio"} = {}
    OBVIOUS
  <2>1. PICK m \in 1..N : tracks[i] = [lang |-> LangAt(m), codec |-> CodecAt(m)]
    BY <1>1 DEF BestCodec
  <2>2. m \in DOMAIN item.audios
    BY ItemShape, SeqElements DEF TaggingTypeOK
  <2>3. {LangAt(m), CodecAt(m)} \cap {"dual-audio", "multi-audio"} = {}
    BY <2>2, TaggingAssumption DEF TaggingTypeOK, LangAt, CodecAt
  <2>4. QED
    BY <2>1, <2>3
<1> HIDE DEF Plain
<1>7. ("dual-audio" \in tags <=> known = 2) /\ ("multi-audio" \in tags <=> known >= 3)
  <2>1. "dual-audio" # "multi-audio"
    OBVIOUS
  <2>2. tags = Plain \cup (IF known = 2 THEN {"dual-audio"} ELSE {}) \cup (IF known >= 3 THEN {"multi-audio"} ELSE {})
    BY <1>3, <1>4, <1>5
  <2>3. QED
    BY <1>6, <2>1, <2>2
<1>8. QED
  BY <1>1, <1>7 DEF BestPerLanguage, known

\* A sidecar speaks the language of the first part that is a code.
LEMMA SidecarIs ==
  ASSUME NEW n \in Nat, NEW rest, DOMAIN rest = 1..n
  PROVE  /\ SidecarLang(rest) # "UND" =>
              \E k \in DOMAIN rest : /\ rest[k] \in Codes /\ \A j \in 1..(k - 1) : rest[j] \notin Codes
                                     /\ SidecarLang(rest) = Lang(rest[k])
         /\ \A k \in DOMAIN rest : rest[k] \in Codes /\ (\A j \in 1..(k - 1) : rest[j] \notin Codes) =>
              SidecarLang(rest) = Lang(rest[k])
<1> DEFINE coded == {k \in DOMAIN rest : rest[k] \in Codes}
           first == Least(coded)
<1>1. SidecarLang(rest) = IF coded = {} THEN "UND" ELSE Lang(rest[first])
  BY DEF SidecarLang
<1>2. coded # {} => first \in coded /\ \A j \in coded : first <= j
  <2>1. coded \in SUBSET (1..n)
    OBVIOUS
  <2> HIDE DEF coded
  <2>2. QED
    BY <2>1, LeastOf
<1> HIDE DEF first
<1>3. SidecarLang(rest) # "UND" =>
        \E k \in DOMAIN rest : /\ rest[k] \in Codes /\ \A j \in 1..(k - 1) : rest[j] \notin Codes
                               /\ SidecarLang(rest) = Lang(rest[k])
  <2> SUFFICES ASSUME SidecarLang(rest) # "UND"
               PROVE  \E k \in DOMAIN rest : /\ rest[k] \in Codes /\ \A j \in 1..(k - 1) : rest[j] \notin Codes
                                             /\ SidecarLang(rest) = Lang(rest[k])
    OBVIOUS
  <2>1. coded # {} /\ SidecarLang(rest) = Lang(rest[first])
    BY <1>1
  <2>2. first \in DOMAIN rest /\ rest[first] \in Codes
    BY <1>2, <2>1
  <2>3. \A j \in 1..(first - 1) : rest[j] \notin Codes
    <3> SUFFICES ASSUME NEW j \in 1..(first - 1)
                 PROVE  j \notin coded
      BY <2>2
    <3>1. ~(first <= j)
      BY <2>2
    <3>2. QED
      BY <1>2, <2>1, <3>1
  <2>4. QED
    BY <2>1, <2>2, <2>3
<1>4. ASSUME NEW k \in DOMAIN rest, rest[k] \in Codes, \A j \in 1..(k - 1) : rest[j] \notin Codes
      PROVE  SidecarLang(rest) = Lang(rest[k])
  <2>1. coded # {} /\ k \in coded
    BY <1>4
  <2>2. first \in 1..n /\ first <= k /\ rest[first] \in Codes
    BY <1>2, <2>1
  <2>3. ~(first \in 1..(k - 1))
    BY <1>4, <2>2
  <2>4. first = k
    BY <2>2, <2>3
  <2>5. QED
    BY <1>1, <2>1, <2>4
<1>5. QED
  BY <1>3, <1>4

LEMMA SubtitlesTold ==
  ASSUME TagInv, section = "subtitles", doing # "look"
  PROVE  SubtitlesTell
<1> USE DEF TagInv
<1> DEFINE saysSub(n, l) == l # "UND" /\ l = Lang(item.subs[n].lang)
           saysFile(n, k, l) == LET rest == item.files[n].rest IN
             /\ item.files[n].named /\ rest[k] \in Codes /\ \A j \in 1..(k - 1) : rest[j] \notin Codes
             /\ l # "UND" /\ l = Lang(rest[k])
<1>1. tags = SubTags(tracks)
  <2>1. tags = Tags(item, "subtitles", tracks)
    BY DEF TaggingTypeOK
  <2>2. "subtitles" # "video" /\ "subtitles" # "audio" /\ "subtitles" # "rating"
    OBVIOUS
  <2>3. Tags(item, "subtitles", tracks) = UNION {{}, SubTags(tracks)}
    BY <2>2 DEF Tags
  <2>4. QED
    BY <2>1, <2>3
<1>2. \A t \in tags : \E i \in DOMAIN tracks : tracks[i].lang # "UND" /\ t = SubTag(tracks[i].lang)
  BY <1>1 DEF SubTags
<1>3. \A i \in DOMAIN tracks : tracks[i].lang # "UND" => SubTag(tracks[i].lang) \in tags
  BY <1>1 DEF SubTags
<1>4. /\ Len(item.subs) \in Nat /\ DOMAIN item.subs = 1..Len(item.subs)
      /\ Len(item.files) \in Nat /\ DOMAIN item.files = 1..Len(item.files)
  BY SubtitleInputs
<1>5. \A i \in DOMAIN tracks :
         \/ \E m \in DOMAIN item.subs : tracks[i].lang = Lang(item.subs[m].lang)
         \/ \E m \in DOMAIN item.files : item.files[m].named /\ tracks[i].lang = SidecarLang(item.files[m].rest)
  BY DEF SubInv
<1> DEFINE S == Len(item.subs)
           F == Len(item.files)
<1>6. (\A m \in 1..S : m <= S + F) /\ (\A m \in 1..F : S + m <= S + F)
  <2>1. S \in Nat /\ F \in Nat
    BY <1>4
  <2> HIDE DEF S, F
  <2>2. QED
    BY <2>1
<1>7. \A m \in DOMAIN item.subs : \E i \in DOMAIN tracks : tracks[i].lang = Lang(item.subs[m].lang)
  <2>1. \A m \in DOMAIN item.subs : Heard(m)
    BY <1>4, <1>6 DEF Heard
  <2>2. QED
    BY <2>1 DEF SubInv
<1>8. \A m \in DOMAIN item.files : item.files[m].named =>
        \E i \in DOMAIN tracks : tracks[i].lang = SidecarLang(item.files[m].rest)
  <2>1. \A m \in DOMAIN item.files : Heard(Len(item.subs) + m)
    BY <1>4, <1>6 DEF Heard
  <2>2. QED
    BY <2>1 DEF SubInv
<1>9. \A m \in DOMAIN item.files : \E n \in Nat : DOMAIN item.files[m].rest = 1..n
  <2> DEFINE FileItem == [named : BOOLEAN, rest : Seq(STRING), format : STRING]
  <2>1. item.files \in Seq(FileItem)
    BY ItemShape DEF TaggingTypeOK
  <2>2. \A r \in FileItem : r.rest \in Seq(STRING)
    OBVIOUS
  <2> HIDE DEF FileItem
  <2>3. \A m \in DOMAIN item.files : item.files[m].rest \in Seq(STRING)
    BY <2>1, <2>2, SeqElements
  <2>4. QED
    BY <2>3, SeqElements
<1>10. ASSUME NEW t \in tags
       PROVE  \/ \E n \in DOMAIN item.subs : \E l \in {Lang(item.subs[n].lang)} : saysSub(n, l) /\ t = SubTag(l)
              \/ \E n \in DOMAIN item.files : \E k \in DOMAIN item.files[n].rest :
                   \E l \in {Lang(item.files[n].rest[k])} : saysFile(n, k, l) /\ t = SubTag(l)
  <2>1. PICK i \in DOMAIN tracks : tracks[i].lang # "UND" /\ t = SubTag(tracks[i].lang)
    BY <1>2
  <2> DEFINE l == tracks[i].lang
  <2>2. l # "UND" /\ t = SubTag(l)
    BY <2>1
  <2>3. \/ \E m \in DOMAIN item.subs : l = Lang(item.subs[m].lang)
        \/ \E m \in DOMAIN item.files : item.files[m].named /\ l = SidecarLang(item.files[m].rest)
    BY <1>5
  <2> HIDE DEF l
  <2>4. CASE \E m \in DOMAIN item.subs : l = Lang(item.subs[m].lang)
    BY <2>2, <2>4
  <2>5. CASE \E m \in DOMAIN item.files : item.files[m].named /\ l = SidecarLang(item.files[m].rest)
    <3>1. PICK m \in DOMAIN item.files : item.files[m].named /\ l = SidecarLang(item.files[m].rest)
      BY <2>5
    <3> DEFINE rest == item.files[m].rest
    <3>2. \E n \in Nat : DOMAIN rest = 1..n
      BY <1>9
    <3>3. SidecarLang(rest) # "UND" /\ l = SidecarLang(rest)
      BY <2>2, <3>1
    <3> HIDE DEF rest
    <3>4. PICK k \in DOMAIN rest : /\ rest[k] \in Codes /\ \A j \in 1..(k - 1) : rest[j] \notin Codes
                                   /\ SidecarLang(rest) = Lang(rest[k])
      BY <3>2, <3>3, SidecarIs
    <3>5. saysFile(m, k, l) /\ k \in DOMAIN item.files[m].rest /\ l \in {Lang(item.files[m].rest[k])}
      BY <2>2, <3>1, <3>3, <3>4 DEF rest
    <3> HIDE DEF saysFile
    <3>6. QED
      BY <2>2, <3>5
  <2>6. QED
    BY <2>3, <2>4, <2>5
<1>11. ASSUME NEW n \in DOMAIN item.subs, NEW l \in {Lang(item.subs[n].lang)}, saysSub(n, l)
       PROVE  SubTag(l) \in tags
  BY <1>3, <1>7, <1>11
<1>12. ASSUME NEW n \in DOMAIN item.files, NEW k \in DOMAIN item.files[n].rest,
              NEW l \in {Lang(item.files[n].rest[k])}, saysFile(n, k, l)
       PROVE  SubTag(l) \in tags
  <2> DEFINE rest == item.files[n].rest
  <2>1. \E b \in Nat : DOMAIN rest = 1..b
    BY <1>9
  <2>2. /\ item.files[n].named /\ rest[k] \in Codes /\ \A j \in 1..(k - 1) : rest[j] \notin Codes
        /\ l # "UND" /\ l = Lang(rest[k]) /\ k \in DOMAIN rest
    BY <1>12
  <2>3. \E i \in DOMAIN tracks : tracks[i].lang = SidecarLang(rest)
    BY <1>8, <2>2
  <2> HIDE DEF rest
  <2>4. SidecarLang(rest) = l
    BY <2>1, <2>2, SidecarIs
  <2>5. QED
    BY <1>3, <2>2, <2>3, <2>4
<1>13. QED
  BY <1>10, <1>11, <1>12 DEF SubtitlesTell

LEMMA RatingTold ==
  ASSUME TaggingTypeOK, section = "rating", doing # "look"
  PROVE  RatingAgreed
<1> DEFINE o == item.official
           certs == item.certs
           others == certs \ {""}
           r == Rating(o, certs, item.fallback)
<1>1. tags = {r} \ {""}
  <2>1. tags = Tags(item, "rating", tracks)
    BY DEF TaggingTypeOK
  <2>2. "rating" # "video" /\ "rating" # "audio" /\ "rating" # "subtitles"
    OBVIOUS
  <2>3. Tags(item, "rating", tracks) = UNION {{}, {r} \ {""}}
    BY <2>2 DEF Tags
  <2>4. QED
    BY <2>1, <2>3
<1>2. IsFiniteSet(others) /\ item.fallback \in BOOLEAN
  <2>1. IsFiniteSet(certs)
    BY TaggingAssumption DEF TaggingTypeOK
  <2>2. IsFiniteSet(others)
    BY <2>1, FS_Subset
  <2>3. QED
    BY <2>2, ItemShape DEF TaggingTypeOK
<1>3. Cardinality(others) = 1 <=> \E c : others = {c}
  BY <1>2, FS_Singleton
<1>4. CASE o # ""
  <2>1. r = o
    BY <1>4 DEF Rating
  <2>2. QED
    BY <1>1, <1>4, <2>1 DEF RatingAgreed
<1>5. CASE o = "" /\ (~item.fallback \/ Cardinality(others) # 1)
  <2>1. r = o
    BY <1>5 DEF Rating
  <2>2. \A c \in others : ~(item.fallback /\ others = {c})
    BY <1>3, <1>5
  <2>3. QED
    BY <1>1, <1>5, <2>1, <2>2 DEF RatingAgreed
<1>6. CASE o = "" /\ item.fallback /\ Cardinality(others) = 1
  <2>1. r = CHOOSE c \in certs : c # ""
    BY <1>6 DEF Rating
  <2>2. PICK c : others = {c}
    BY <1>3, <1>6
  <2>3. c \in certs /\ c # "" /\ \A d \in certs : d # "" => d = c
    BY <2>2
  <2>4. r = c
    BY <2>1, <2>3, Zenon
  <2>5. {d \in certs \ {""} : item.fallback /\ certs \ {""} = {d}} = {c}
    BY <1>6, <2>2
  <2>6. QED
    BY <1>1, <1>6, <2>3, <2>4, <2>5 DEF RatingAgreed
<1>7. QED
  BY <1>4, <1>5, <1>6

\* Tracks, tags, groups and pills keep their types, and the tags are those of the
\* tracks found, through all the loops from the streams to the poster (build_tags,
\* _make_badge_groups, order_pills_by_language).
THEOREM TaggingTypeCorrect == TaggingSpec => []TaggingTypeOK
<1>1. TagInv /\ [TaggingNext]_taggingVars => TagInv'
  BY TaggingStep
<1>2. TagInv => TaggingTypeOK
  BY DEF TagInv
<1>3. QED
  BY TaggingInitHolds, <1>1, <1>2, PTL DEF TaggingSpec

\* Whatever frames, streams and sidecars a file has and whatever languages somebody
\* prefers: the tags and the pills say what is there, in the order that they promise
\* (scanner.py, build_tags, order_pills_by_language).
THEOREM TagsTell == TaggingSpec => []TagsTellTheFile
<1>1. TagInv /\ [TaggingNext]_taggingVars => TagInv'
  BY TaggingStep
<1>2. ASSUME TagInv
      PROVE  TagsTellTheFile
  <2> SUFFICES ASSUME doing = "shown"
               PROVE  /\ CropKeepsClass
                      /\ section = "audio" => BestPerLanguage
                      /\ section = "subtitles" => SubtitlesTell
                      /\ section = "rating" => RatingAgreed
                      /\ PillsTell
    BY DEF TagsTellTheFile
  <2>1. TaggingTypeOK /\ AudioInv /\ SubInv /\ GroupInv /\ LabelInv
    BY <1>2 DEF TagInv
  <2>2. doing # "look"
    OBVIOUS
  <2>3. QED
    BY <1>2, <2>1, <2>2, FrameClass, AudioTold, SubtitlesTold, RatingTold, PillsTellIt
<1>3. TagInv => TagsTellTheFile
  BY <1>2
<1>4. QED
  BY TaggingInitHolds, <1>1, <1>3, PTL DEF TaggingSpec
=============================================================================
