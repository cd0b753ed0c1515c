--------------------------- MODULE ImageSettings ---------------------------
(***************************************************************************)
(* What the image section of config.yml becomes (config.py, ImageConfig):   *)
(* the validators that move, mend or refuse a value, at every start of the   *)
(* process and at every save.  Config has the file and the process; here the *)
(* file is written whole.                                                    *)
(*                                                                         *)
(* Data.  A section is what somebody wrote: the palette's version (1 when    *)
(* missing or not a number), a value for each colour, the badges' size, the  *)
(* rating's corner and the preferred languages; "missing" is a field left    *)
(* out.  Settings in effect have the same shape.                             *)
(***************************************************************************)
EXTENDS Integers, Sequences

CONSTANTS
  Fields,      \* the colours of the section (_COLOUR_FIELDS)
  Written,     \* sections somebody may have written by hand
  Picked,      \* values that somebody may pick for a colour later
  Hex,         \* normalize_color(), of the values that are colours
  NewDefault,  \* NewDefault[f]: the default of colour f
  OldDefaults, \* OldDefaults[f]: how _PALETTE_1_DEFAULTS' value of f may be spelled
  Capitals     \* Capitals[c]: a code stripped and in capitals

PaletteVersion == 2
Corner == {"top-left", "top-right", "bottom-left", "bottom-right"}

VARIABLES
  file,    \* the section in config.yml
  image,   \* {the settings in effect}, {} before the start
  draft,   \* what is being validated
  pass,    \* validated for a "start", a "save", or "none"
  read,    \* how many of its preferred languages are read
  codes,   \* and what they have become
  wanted,  \* history: wanted[f] is the colour that somebody has chosen
  saved    \* history: {the settings last saved}

imageVars == <<file, image, draft, pass, read, codes, wanted, saved>>

-----------------------------------------------------------------------------
(* Validators *)

\* normalize_color(); "none" is no colour.
Normalized(value) == IF value \in DOMAIN Hex THEN Hex[value] ELSE "none"

\* Mutant: the version is not stored.
PaletteAgain(d) ==
  IF d.version >= PaletteVersion THEN d
  ELSE [d EXCEPT !.colours = [f \in Fields |-> IF d.colours[f] \in OldDefaults[f] THEN NewDefault[f] ELSE d.colours[f]]]

\* _migrate_badge_palette(): a colour that is still its old default moves, once.
Palette(d) ==
  IF d.version >= PaletteVersion THEN d
  ELSE [d EXCEPT !.colours = [f \in Fields |-> IF d.colours[f] \in OldDefaults[f] THEN NewDefault[f] ELSE d.colours[f]],
                 !.version = PaletteVersion]

\* _migrate_badge_size(), and the default.
Size == [small |-> "desktop", medium |-> "tv", large |-> "tv_plus",
         desktop |-> "desktop", tv |-> "tv", tv_plus |-> "tv_plus", missing |-> "tv"]

\* A size without a meaning is refused at any time, a colour (_normalise_colour) by a
\* save only.
Accepted(d, saving) ==
  /\ d.size \in DOMAIN Size
  /\ saving => \A f \in Fields : LET c == Palette(d).colours[f] IN c = "missing" \/ Normalized(c) # "none"

\* ImageConfig, once validated: a colour or a corner that means nothing gives way
\* to its default.
Settled(d, prefer) ==
  [version |-> Palette(d).version,
   colours |-> [f \in Fields |-> LET c == Normalized(Palette(d).colours[f])
                                 IN IF c = "none" THEN NewDefault[f] ELSE c],
   size |-> Size[d.size],
   corner |-> IF d.corner \in Corner THEN d.corner ELSE "top-left",
   prefer |-> prefer]

-----------------------------------------------------------------------------
(* The process *)

\* What somebody wants who wrote d by hand: a colour that is none, or that was only
\* the old default, is not a choice.
Choice(d, f) ==
  IF Normalized(d.colours[f]) = "none" \/ (d.version < PaletteVersion /\ d.colours[f] \in OldDefaults[f])
  THEN NewDefault[f] ELSE Normalized(d.colours[f])

Validate(d, why) == draft' = d /\ pass' = why /\ read' = 0 /\ codes' = <<>>

ImageInit ==
  /\ file \in Written /\ draft = file /\ pass = "start" /\ read = 0 /\ codes = <<>>
  /\ image = {} /\ saved = {} /\ wanted = [f \in Fields |-> Choice(file, f)]

\* _normalise_prefer_languages(), the next code.
NextCode ==
  /\ pass \in {"start", "save"} /\ read < Len(draft.prefer)
  /\ LET c == Capitals[draft.prefer[read + 1]]
     IN codes' = IF c \in {"", "UND"} \/ \E i \in DOMAIN codes : codes[i] = c THEN codes ELSE Append(codes, c)
  /\ read' = read + 1
  /\ UNCHANGED <<file, image, draft, pass, wanted, saved>>

Validated(saving) == read = Len(draft.prefer) /\ Accepted(draft, saving)

\* load_config(); a section that is not accepted stops the start.
LoadSection ==
  /\ pass = "start" /\ Validated(FALSE)
  /\ image' = {Settled(draft, codes)} /\ pass' = "none"
  /\ UNCHANGED <<file, draft, read, codes, wanted, saved>>

\* The settings form comes with another value for a colour.
Pick ==
  /\ pass = "none"
  /\ \E s \in image, f \in Fields, c \in Picked : Validate([s EXCEPT !.colours[f] = c], "save")
  /\ UNCHANGED <<file, image, wanted, saved>>

\* save_config_from_dict()
SaveSection ==
  /\ pass = "save" /\ Validated(TRUE)
  /\ image' = {Settled(draft, codes)} /\ file' = Settled(draft, codes) /\ saved' = image' /\ pass' = "none"
  /\ wanted' = [f \in Fields |-> Normalized(draft.colours[f])]
  /\ UNCHANGED <<draft, read, codes>>

Refuse ==
  /\ pass = "save" /\ read = Len(draft.prefer) /\ ~Accepted(draft, TRUE)
  /\ pass' = "none"
  /\ UNCHANGED <<file, image, draft, read, codes, wanted, saved>>

\* Another section is saved: the whole of it is written as it is in effect (save_auth).
SaveAsItIs ==
  /\ pass = "none" /\ \E s \in image : file' = s
  /\ saved' = image
  /\ UNCHANGED <<image, draft, pass, read, codes, wanted>>

StartAgain ==
  /\ pass = "none"
  /\ image' = {} /\ Validate(file, "start")
  /\ UNCHANGED <<file, wanted, saved>>

ImageNext == NextCode \/ LoadSection \/ Pick \/ SaveSection \/ Refuse \/ SaveAsItIs \/ StartAgain
ImageSpec == ImageInit /\ [][ImageNext]_imageVars

-----------------------------------------------------------------------------
Sections ==
  [version : Int, colours : [Fields -> STRING], size : STRING, corner : STRING, prefer : Seq(STRING)]

\* A colour once normalized, and a code once in capitals, stay as they are.  (That a
\* name is a STRING is for the provers, which do not know it.)
ASSUME ImageAssumption ==
  /\ Corner \cup {"desktop", "tv", "tv_plus"} \subseteq STRING
  /\ Written \subseteq Sections
  /\ Picked \subseteq STRING \ {"missing"}
  /\ DOMAIN Hex \cap {"missing", "none"} = {}
  /\ \A c \in DOMAIN Hex : Hex[c] \in STRING /\ Hex[c] \in DOMAIN Hex /\ Hex[Hex[c]] = Hex[c]
  /\ \A f \in Fields : NewDefault[f] \in DOMAIN Hex /\ Hex[NewDefault[f]] = NewDefault[f]
  /\ \A d \in Written : \A i \in DOMAIN d.prefer : LET c == Capitals[d.prefer[i]]
                                                    IN c \in STRING /\ Capitals[c] = c

ImageTypeOK ==
  /\ file \in Sections /\ draft \in Sections
  /\ image = {} \/ \E s \in Sections : image = {s}
  /\ saved = {} \/ \E s \in Sections : saved = {s}
  /\ pass \in {"start", "save", "none"} /\ read \in Nat
  /\ codes \in Seq(STRING) /\ wanted \in [Fields -> STRING]

\* As the badges spell them: in capitals, none unknown, none twice.
AsSpelled(prefer) ==
  \A i \in DOMAIN prefer :
    /\ Capitals[prefer[i]] = prefer[i] /\ prefer[i] \notin {"", "UND"}
    /\ \A j \in 1..(i - 1) : prefer[j] # prefer[i]

-----------------------------------------------------------------------------
(* Property *)

\* The settings that a hand-edited section becomes are settled: a save accepts them
\* and they come back as they are, so nothing moves again at a later start; every
\* colour is the one that somebody chose, be it the old default chosen since the
\* migration (_migrate_badge_palette, "so the migration below runs ONCE",
\* _normalise_colour), and preferred languages are spelled as the badges spell them.
SettingsSettle ==
  \A s \in image :
    /\ Accepted(s, TRUE) /\ Settled(s, s.prefer) = s
    /\ s.colours = wanted
    /\ saved # {} => s \in saved
    /\ AsSpelled(s.prefer)
=============================================================================
