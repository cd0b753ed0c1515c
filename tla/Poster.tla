------------------------------- MODULE Poster -------------------------------
(***************************************************************************)
(* overlay.apply_overlay(): one item's poster and its backup, drawn by     *)
(* whoever processes the item: the scan, and the background task of every  *)
(* webhook for it or for another episode of its series.  Nothing locks the *)
(* folder.                                                                 *)
(*                                                                         *)
(* Data.  An image is what is drawn on it: nothing (the original), one     *)
(* layer of badges or several; or it is broken, a file that was truncated  *)
(* and not rewritten, which Pillow refuses to open.                        *)
(***************************************************************************)
EXTENDS Naturals

CONSTANTS
  Scan,      \* the thread that scans
  Hooks,     \* the background tasks of webhooks
  Faults,    \* the failures the environment may produce: "copy", "save", "crash"
  MaxFaults  \* bound: how many of them

ASSUME ConstantsAssumption ==
  /\ Scan \notin Hooks
  /\ MaxFaults \in Nat

Workers == Hooks \cup {Scan}
Images == {"none", "broken", "original", "badged", "stacked"}

VARIABLES
  poster,  \* the image served
  backup,  \* the image beside it, with the backup suffix
  due,     \* the index owes the item a render: its row has another mtime
  pc,      \* where each worker is in apply_overlay()
  base,    \* what each worker opened to draw on
  left,    \* how many faults are left
  met,     \* history: two workers were in the folder at once, "early":
           \*   before the backup was whole
  failed   \* history: a save has raised

histVars == <<met, failed>>
vars == <<poster, backup, due, pc, base, left, histVars>>

TypeOK ==
  /\ poster \in Images
  /\ backup \in Images
  /\ due \in BOOLEAN
  /\ pc \in [Workers -> {"idle", "look", "copy", "copying", "open", "save", "saving", "record"}]
  /\ base \in [Workers -> Images]
  /\ left \in 0..MaxFaults
  /\ met \in {"never", "late", "early"}
  /\ failed \in BOOLEAN

\* No poster, one that was never drawn on, or one that was and has its backup.
Init ==
  /\ poster \in {"none", "original", "badged"}
  /\ backup = IF poster = "badged" THEN "original" ELSE "none"
  /\ due = TRUE
  /\ pc = [w \in Workers |-> "idle"]
  /\ base = [w \in Workers |-> "none"]
  /\ left = MaxFaults
  /\ met = "never"
  /\ failed = FALSE

At(w, place) == pc[w] = place
Goes(w, place) == pc' = [pc EXCEPT ![w] = place]

\* One of the failures this model allows happens now.
Fault(f) == f \in Faults /\ left > 0 /\ left' = left - 1

-----------------------------------------------------------------------------

\* The file changes, or a setting that re-tags everything.
BecomesDue ==
  /\ ~due
  /\ due' = TRUE
  /\ UNCHANGED <<poster, backup, pc, base, left, histVars>>

Meeting(w) ==
  IF \A v \in Workers \ {w} : At(v, "idle") THEN met
  ELSE IF backup = "original" /\ met # "early" THEN "late" ELSE "early"

\* Mutant: the item is recorded before its poster is drawn.
BeginRecorded(w) ==
  /\ At(w, "idle")
  /\ w = Scan => due
  /\ Goes(w, "look")
  /\ due' = FALSE
  /\ met' = Meeting(w)
  /\ UNCHANGED <<poster, backup, base, left, failed>>

\* The item is tagged and its badges are to be drawn: by a scan when it is due,
\* by a webhook whenever one comes.
Begin(w) ==
  /\ At(w, "idle")
  /\ w = Scan => due
  /\ Goes(w, "look")
  /\ met' = Meeting(w)
  /\ UNCHANGED <<poster, backup, due, base, left, failed>>

\* Mutant: the backup is renewed at every render.
LookIgnoringBackup(w) ==
  /\ At(w, "look")
  /\ Goes(w, IF poster = "none" THEN "record" ELSE "copy")
  /\ UNCHANGED <<poster, backup, due, base, left, histVars>>

\* _find_image() and backup.exists(): a broken backup exists.
Look(w) ==
  /\ At(w, "look")
  /\ Goes(w, IF poster = "none" THEN "record"
             ELSE IF backup = "none" THEN "copy" ELSE "open")
  /\ UNCHANGED <<poster, backup, due, base, left, histVars>>

\* shutil.copy2() opens the backup for writing, which empties it ...
CopyBegins(w) ==
  /\ At(w, "copy")
  /\ backup' = "broken"
  /\ Goes(w, "copying")
  /\ UNCHANGED <<poster, due, base, left, histVars>>

\* ... and fills it with the poster of that moment.
CopyEnds(w) ==
  /\ At(w, "copying")
  /\ backup' = poster
  /\ Goes(w, "open")
  /\ UNCHANGED <<poster, due, base, left, histVars>>

\* The copy raises: "Overlay error", and the item is recorded without a poster.
CopyFails(w) ==
  /\ At(w, "copying")
  /\ Fault("copy")
  /\ Goes(w, "record")
  /\ UNCHANGED <<poster, backup, due, base, histVars>>

\* Mutant: badges are drawn on the poster that is served.
OpenPoster(w) ==
  /\ At(w, "open")
  /\ IF poster = "broken"
       THEN Goes(w, "record") /\ UNCHANGED base
       ELSE Goes(w, "save") /\ base' = [base EXCEPT ![w] = poster]
  /\ UNCHANGED <<poster, backup, due, left, histVars>>

\* Image.open(backup): "Cannot open image" ends the render without an overlay.
Open(w) ==
  /\ At(w, "open")
  /\ IF backup = "broken"
       THEN Goes(w, "record") /\ UNCHANGED base
       ELSE Goes(w, "save") /\ base' = [base EXCEPT ![w] = backup]
  /\ UNCHANGED <<poster, backup, due, left, histVars>>

\* Image.save() truncates the poster in place ...
SaveBegins(w) ==
  /\ At(w, "save")
  /\ poster' = "broken"
  /\ Goes(w, "saving")
  /\ UNCHANGED <<backup, due, base, left, histVars>>

Drawn(image) == IF image = "original" THEN "badged" ELSE "stacked"

\* ... and writes the composite.  Two that write the same file at once leave
\* one image or a mixture of both.
SaveEnds(w) ==
  /\ At(w, "saving")
  /\ \/ poster' = Drawn(base[w])
     \/ \E v \in Workers \ {w} : At(v, "saving") /\ poster' = "broken"
  /\ Goes(w, "record")
  /\ UNCHANGED <<backup, due, base, left, histVars>>

\* Both save() calls raise: "Overlay error".
SaveFails(w) ==
  /\ At(w, "saving")
  /\ Fault("save")
  /\ Goes(w, "record")
  /\ failed' = TRUE
  /\ UNCHANGED <<poster, backup, due, base, met>>

\* Whatever became of the poster, the item is recorded with its file's mtime.
Record(w) ==
  /\ At(w, "record")
  /\ due' = FALSE
  /\ base' = [base EXCEPT ![w] = "none"]
  /\ Goes(w, "idle")
  /\ UNCHANGED <<poster, backup, left, histVars>>

\* The process dies and starts again.
Crash ==
  /\ Fault("crash")
  /\ pc' = [w \in Workers |-> "idle"]
  /\ base' = [w \in Workers |-> "none"]
  /\ UNCHANGED <<poster, backup, due, histVars>>

Render(w) ==
  \/ Begin(w) \/ Look(w)
  \/ CopyBegins(w) \/ CopyEnds(w)
  \/ Open(w)
  \/ SaveBegins(w) \/ SaveEnds(w)
  \/ Record(w)

Next ==
  \/ \E w \in Workers : Render(w) \/ CopyFails(w) \/ SaveFails(w)
  \/ BecomesDue
  \/ Crash

Spec == Init /\ [][Next]_vars

\* The scheduler starts scans again and again, and a scan goes on.
FairSpec == Spec /\ WF_vars(Render(Scan))

-----------------------------------------------------------------------------
(* Properties *)

\* "A re-render is idempotent and badges never stack" (ROADMAP.md), as it stands.
NothingStacks == poster # "stacked"

\* Badges are never drawn on badges and never get into the backup, however many
\* draw at once, as long as no two were there before the backup was whole.
BadgesNeverStack == met # "early" => poster # "stacked" /\ backup \notin {"badged", "stacked"}

\* From the moment a poster is overwritten, its original is in the backup:
\* "Original posters are backed up before the first overlay".  A crash or an
\* error in the middle of the copy leaves the original where it was.
OriginalIsKept == met # "early" /\ poster \notin {"none", "original"} => backup = "original"

\* A poster that a crash left truncated while its item was due is drawn again,
\* unless two workers drew at once or a save failed, which records it as drawn.
Excused == met # "never" \/ failed
TruncatedIsRedrawn == poster = "broken" /\ due ~> poster = "badged" \/ Excused
=============================================================================
