------------------------------- MODULE MCRules -------------------------------
(***************************************************************************)
(* The rules for one item, one section, one poster: the tags and pills of    *)
(* an item (Tagging), what a section written by hand becomes                 *)
(* (ImageSettings), a badge layout (Layout) and what badges look like        *)
(* (Contrast).  A behaviour is one of these; the state of the others is      *)
(* blank.                                                                  *)
(***************************************************************************)
EXTENDS Tagging, ImageSettings, Layout, Contrast, FiniteSetsExt, SequencesExt, TLC

CONSTANTS
  Labels,    \* bound: the labels, each the widths of its badges
  MaxGroups, \* bound: badge groups
  Heights, Canvases, RatingWidth, \* canvas heights and widths, and the rating's pill
  Sizes,     \* frame widths and heights
  Streams,   \* bound: audio streams of a file
  Widths, Shades \* of posters

vars == <<taggingVars, imageVars, layoutVars, contrastVars>>

SeqsUpTo(S, n) == UNION {[1..k -> S] : k \in 0..n}

-----------------------------------------------------------------------------
(* Badges *)

\* A group of labels, each the widths of its badges.
GroupOf(labelled) ==
  LET ws == FlattenSeq(labelled)
  IN [badges |-> DOMAIN ws, w |-> ws,
      heads |-> {1 + Len(FlattenSeq(SubSeq(labelled, 1, l - 1))) : l \in DOMAIN labelled}]

\* Badge widths: a codec alone, with one language, a wide pair, three, a badge
\* wider than the narrow rows.
MCLabels == {<<1>>, <<2, 1>>, <<3, 3>>, <<1, 2, 1>>, <<9>>}
MCGroups == {GroupOf(ls) : ls \in SeqsUpTo(Labels, 2) \ {<<>>}}

\* A pill is as wide as its badges, spaces between and a margin at either end.
MCWidth(g, s) == 2 + (Cardinality(s) - 1) + MapThenSumSet(LAMBDA b : g.w[b], s)
MCCountWidth(n) == 2 + (IF n < 3 THEN 2 ELSE 3)

\* The tags at either end of a diagonal; the rating with them, beside them, above or
\* below them, or left out.
MCJobs == {j \in
  [groups : UNION {[1..n -> MCGroups] : n \in 1..MaxGroups}, w : Canvases, h : Heights,
   tagsAt : {c \in Corners : c.bottom = c.right}, ratingAt : Corners, rated : BOOLEAN, ratingW : {RatingWidth}] :
  /\ j.ratingAt.bottom = j.tagsAt.bottom \/ j.ratingAt.right = j.tagsAt.right
  /\ ~j.rated => j.ratingAt = j.tagsAt}

-----------------------------------------------------------------------------
(* Items *)

\* Two spellings of French, a code without a short form, one that reads as a codec.
MCCodes == {"en", "eng", "fre", "fra", "egy", "dts", "zxx", "und"}
MCShort == {"en"}
MCLangMap == [eng |-> "EN", fre |-> "FR", fra |-> "FR"]
MCOtherLabels == {"DTS", "SD"}
MCUpper == [en |-> "EN", eng |-> "ENG", fre |-> "FRE", fra |-> "FRA", egy |-> "EGY", dts |-> "DTS", zxx |-> "ZXX", und |-> "UND"]

\* Two codecs out of the ranking.
MCCodecMap == [truehd |-> "TRUEHD", mlp |-> "MLP", wmav2 |-> "WMAV2"]
Audios == LET langs == {"eng", "fre", "fra", "egy", "dts"} IN
  [lang : langs, name : {"truehd"}, object : {TRUE}, hd : {FALSE}]
    \cup [lang : langs, name : {"mlp", "wmav2"}, object : {FALSE}, hd : {FALSE}]

\* Names beside a video: a track number, a word or an unknown code before the language.
Sidecars == [named : BOOLEAN, rest : {<<>>, <<"en">>, <<"10", "forced", "fre">>, <<"zxx", "en">>}, format : {"SRT"}]
Subs == [lang : {"eng", "zxx"}, format : {"SRT", "PGS"}]

\* Preferences for one language, for two, and for one that no file has.
Prefers == {<<>>, <<"EGY", "EN">>, <<"DE", "FR">>}

NoFile == [videos |-> <<>>, audios |-> <<>>, subs |-> <<>>, files |-> <<>>,
           official |-> "", certs |-> {}, fallback |-> FALSE, prefer |-> <<>>]
\* Every size of one stream, everything else of one size.
Frames ==
  LET frames(ws, hs, sides, deep) ==
        [w : ws, h : hs, side : sides, bt2020 : deep, transfer : {"smpte2084", "bt709"}, codec : {"H.265"}, order : {"tt"}]
  IN frames(Sizes, Sizes, {{}}, {FALSE})
       \cup frames({3840}, {2160}, SUBSET {"dovi", "smpte2094-40", "other"}, BOOLEAN)

Videos == {[NoFile EXCEPT !.videos = <<v>>] : v \in Frames}
Heard == {[NoFile EXCEPT !.audios = a, !.prefer = p] : a \in SeqsUpTo(Audios, Streams), p \in Prefers}
Read == {[NoFile EXCEPT !.subs = s, !.files = f, !.prefer = p] :
           s \in SeqsUpTo(Subs, 2), f \in SeqsUpTo(Sidecars, 2), p \in {<<>>, <<"FR", "EN">>}}
Rated == {[NoFile EXCEPT !.official = o, !.certs = c, !.fallback = b] :
            o \in {"", "PG"}, c \in SUBSET {"", "PG", "R"}, b \in BOOLEAN}
MCItems == Videos \cup Heard \cup Read \cup Rated

-----------------------------------------------------------------------------
(* Sections: one colour has an old default, the other has none *)

MCFields == {"video", "backup"}
MCHex == [old |-> "old", OLD |-> "old", new |-> "new", dark |-> "dark", red |-> "red"]
MCNewDefault == [video |-> "new", backup |-> "dark"]
MCOldDefaults == [video |-> {"old", "OLD", " old"}, backup |-> {}]
MCPicked == {"OLD", "red", "typo"}
MCCapitals == [en |-> "EN", EN |-> "EN", und |-> "UND", UND |-> "UND"]
MCWritten ==
  [version : {0, 1, 2},
   colours : {[video |-> v, backup |-> b] : v \in {"old", "OLD", " old", "red", "missing"}, b \in {"old", "typo", "missing"}},
   size : {"medium", "huge", "missing"}, corner : {"top-right", "typo"},
   prefer : SeqsUpTo({"en", "EN", "und"}, 2)]

-----------------------------------------------------------------------------
(* Looks of badges *)

\* Every channel value made linear (wcag.py), in 10^-5.
MCLinear ==
  <<0, 30, 61, 91, 121, 152, 182, 212, 243, 273, 304, 335, 368, 402, 439, 478, 518, 561, 605, 651, 700, 750,
    802, 857, 913, 972, 1033, 1096, 1161, 1229, 1298, 1370, 1444, 1521, 1600, 1681, 1764, 1850, 1938, 2029,
    2122, 2217, 2315, 2416, 2519, 2624, 2732, 2843, 2956, 3071, 3190, 3310, 3434, 3560, 3689, 3820, 3955, 4092,
    4231, 4374, 4519, 4667, 4817, 4971, 5127, 5286, 5448, 5613, 5781, 5951, 6125, 6301, 6480, 6663, 6848, 7036,
    7227, 7421, 7619, 7819, 8022, 8228, 8438, 8650, 8866, 9084, 9306, 9531, 9759, 9990, 10224, 10462, 10702,
    10946, 11193, 11444, 11697, 11954, 12214, 12477, 12744, 13014, 13287, 13563, 13843, 14126, 14413, 14703,
    14996, 15293, 15593, 15896, 16203, 16513, 16827, 17144, 17465, 17789, 18116, 18447, 18782, 19120, 19462,
    19807, 20156, 20508, 20864, 21223, 21586, 21953, 22323, 22697, 23074, 23455, 23840, 24228, 24620, 25016,
    25415, 25818, 26225, 26636, 27050, 27468, 27889, 28315, 28744, 29177, 29614, 30054, 30499, 30947, 31399,
    31855, 32314, 32778, 33245, 33716, 34191, 34670, 35153, 35640, 36131, 36625, 37124, 37626, 38133, 38643,
    39157, 39676, 40198, 40724, 41254, 41789, 42327, 42869, 43415, 43966, 44520, 45079, 45641, 46208, 46778,
    47353, 47932, 48515, 49102, 49693, 50289, 50888, 51492, 52100, 52712, 53328, 53948, 54572, 55201, 55834,
    56471, 57112, 57758, 58408, 59062, 59720, 60383, 61050, 61721, 62396, 63076, 63760, 64448, 65141, 65837,
    66539, 67244, 67954, 68669, 69387, 70110, 70838, 71569, 72306, 73046, 73791, 74540, 75294, 76052, 76815,
    77582, 78354, 79130, 79910, 80695, 81485, 82279, 83077, 83880, 84687, 85499, 86316, 87137, 87962, 88792,
    89627, 90466, 91310, 92158, 93011, 93869, 94731, 95597, 96469, 97345, 98225, 99110, 100000>>

\* Text and font of some sizes; two categories say the same.
MCSays == [video |-> "4K", audio |-> "+1", sub |-> "+1", rating |-> "PG"]
MCGlyphW(t, n) == (7 * n * (IF t = "1080p" THEN 5 ELSE 2)) \div 10
MCGlyphH(n) == (9 * n) \div 10

\* The palette as shipped: adapting at 65 %, the two floors of the README, and all but gone.
ShippedLook == [main |-> Shipped, backup |-> ShippedBackup, ink |-> White, opacity |-> 65, size |-> "tv", adapt |-> TRUE, shown |-> Category]
Plain(n) == [ShippedLook EXCEPT !.opacity = n, !.adapt = FALSE]
\* Dark text; two categories share a colour and not its backup.
Pale == <<200, 190, 120>>
DarkText ==
  [main |-> [video |-> Pale, audio |-> Pale, sub |-> <<120, 160, 220>>, rating |-> White],
   backup |-> [video |-> <<230, 230, 200>>, audio |-> <<150, 150, 90>>, sub |-> <<240, 240, 255>>, rating |-> White],
   ink |-> Grey(16), opacity |-> 70, size |-> "tv", adapt |-> TRUE, shown |-> {"audio", "video", "sub"}]
MCLooks == {ShippedLook, Plain(80), Plain(98), Plain(4), DarkText, [DarkText EXCEPT !.ink = Grey(128), !.opacity = 40]}
\* Tried out: nothing filled in, and the saved look opaque.
Blank == [c \in Category |-> <<>>]
MCForms == {[DarkText EXCEPT !.opacity = 100],
            [main |-> Blank, backup |-> [Blank EXCEPT !["sub"] = Pale], ink |-> <<>>, opacity |-> 3, size |-> "huge", adapt |-> TRUE, shown |-> {"video", "sub"}]}
MCPosters == [w : Widths, shade : Shades]

-----------------------------------------------------------------------------
NoItem == [NoFile EXCEPT !.official = "none"]
NoTags ==
  /\ item = NoItem /\ section = "none" /\ doing = "none" /\ nth = 0
  /\ tracks = <<>> /\ tags = {} /\ grouped = <<>> /\ labels = <<>> /\ shown = <<>>

NoImage ==
  /\ file = <<>> /\ image = {} /\ draft = <<>> /\ pass = "blank" /\ read = 0
  /\ codes = <<>> /\ wanted = <<>> /\ saved = {}

\* Nothing to render.
NoJob == [groups |-> <<>>]
NoLayout ==
  /\ job = NoJob /\ stage = "end" /\ at = 0 /\ rows = 1 /\ row = 1 /\ used = <<0>>
  /\ queue = {} /\ pills = {} /\ hidden = 0 /\ spare = 0 /\ upTo = <<>> /\ count = <<>>
  /\ pending = {} /\ todo = {} /\ tail = {} /\ end = 0 /\ placed = {}

\* An item that is there for one section has nothing for the others.
Follows ==
  section = IF item.videos # <<>> THEN "video" ELSE IF item.audios # <<>> THEN "audio"
            ELSE IF item.subs \o item.files # <<>> THEN "subtitles" ELSE "rating"

Init ==
  \/ TaggingInit /\ Follows /\ NoImage /\ NoLayout /\ ContrastInit
  \/ NoTags /\ ImageInit /\ NoLayout /\ ContrastInit
  \/ NoTags /\ NoImage /\ LayoutInit /\ ContrastInit
  \/ NoTags /\ NoImage /\ NoLayout /\ ContrastInit

Next ==
  \/ TaggingNext /\ UNCHANGED <<imageVars, layoutVars, contrastVars>>
  \/ ImageNext /\ UNCHANGED <<taggingVars, layoutVars, contrastVars>>
  \/ LayoutNext /\ UNCHANGED <<taggingVars, imageVars, contrastVars>>
  \/ NoTags /\ NoImage /\ NoLayout /\ ContrastNext /\ UNCHANGED <<taggingVars, imageVars, layoutVars>>
Spec == Init /\ [][Next]_vars
=============================================================================
