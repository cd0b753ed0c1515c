------------------------------ MODULE Contrast ------------------------------
(***************************************************************************)
(* What a badge looks like on a poster, and what the Badge settings say of   *)
(* it (overlay.py, wcag.py, contrast.py).  The tile of a pill is rendered    *)
(* once and kept in _PILL_CACHE, which the scan's thread shares with the     *)
(* previews and which every save of the settings empties; the chip beside a  *)
(* colour is measured on a tile of its own.                                  *)
(*                                                                         *)
(* Data.  A colour is its three channels, an opacity a percentage, and what  *)
(* the code has as a fraction is in 10^-5 (luminances) or 10^-3 (ratios).    *)
(* A poster is flat under a badge: a width and a shade of grey.              *)
(***************************************************************************)
EXTENDS Integers, FiniteSets

CONSTANTS
  Linear,       \* Linear[v + 1]: LINEAR_8BIT[v], in 10^-5
  GlyphW(_, _), \* GlyphW(t, n): what text t measures in a font of size n
  GlyphH(_),    \* GlyphH(n): the height of a line in it
  Halo,         \* the alpha that blur leaves of the glow at the edge of a pill
  Says,         \* Says[c]: the text of a badge of category c
  Looks,        \* image settings that were saved
  Forms,        \* what the controls of the Badge settings may say; <<>> is a blank colour
  Posters,      \* [w, shade]
  MaxTiles      \* bound: tiles in the cache

VARIABLES
  tiles,  \* _PILL_CACHE: {[key, tile]}
  busy,   \* {the badge whose tile the scan has looked up}, with what it found
  drawn   \* {the badge last drawn}

contrastVars == <<tiles, busy, drawn>>

Categories == <<"video", "audio", "sub", "rating">>
Category == {Categories[i] : i \in DOMAIN Categories}
White == <<255, 255, 255>>
Shipped == [video |-> <<32, 58, 48>>, audio |-> <<49, 44, 76>>, sub |-> <<80, 83, 47>>, rating |-> <<115, 72, 91>>]
ShippedBackup == [video |-> <<12, 51, 45>>, audio |-> <<18, 12, 42>>, sub |-> <<51, 45, 12>>, rating |-> <<31, 0, 1>>]

-----------------------------------------------------------------------------
(* Colours (wcag.py, contrast.py) *)

AtLeast(n, x) == IF x < n THEN n ELSE x
AtMost(n, x) == IF x > n THEN n ELSE x
Grey(v) == <<v, v, v>>

Luminance(c) == (2126 * Linear[c[1] + 1] + 7152 * Linear[c[2] + 1] + 722 * Linear[c[3] + 1]) \div 10000

\* LIGHT_DARK_MIDPOINT
LabelIsLight(ink) == Luminance(ink) >= 17913

ContrastRatio(a, b) ==
  LET la == Luminance(a)
      lb == Luminance(b)
  IN (1000 * (AtLeast(la, lb) + 5000)) \div (AtMost(la, lb) + 5000)

Grade(ratio) == IF ratio >= 7000 THEN "AAA" ELSE IF ratio >= 4500 THEN "AA" ELSE "fail"

\* One colour over another, as Pillow rounds it.
Over(fill, alpha, back) == [i \in 1..3 |-> (fill[i] * alpha + back[i] * (255 - alpha) + 127) \div 255]

-----------------------------------------------------------------------------
(* Tiles (overlay.py) *)

\* round(x / 1000): a half goes to the even side.
Rounded(x) ==
  LET half == x % 1000 = 500
      down == x \div 1000
  IN IF x % 1000 > 500 \/ (half /\ down % 2 = 1) THEN down + 1 ELSE down

BadgeAlpha(opacity) == (opacity * 255) \div 100

FontPx == [desktop |-> 56, tv |-> 72, tv_plus |-> 88]
Params(w, look) ==
  [font |-> AtLeast(8, Rounded(FontPx[look.size] * w)), padH |-> AtLeast(3, Rounded(8 * w)),
   padV |-> AtLeast(2, Rounded(5 * w)), alpha |-> BadgeAlpha(look.opacity)]

\* What the layout reckons with: _pill_width() and _measure_group_height().
PillWidth(text, p) == GlyphW(text, p.font) + 2 * p.padH
RowHeight(p) == GlyphH(p.font) + 2 * p.padV

RenderTile(text, fill, ink, p) ==
  [fill |-> fill, ink |-> ink, alpha |-> p.alpha, w |-> GlyphW(text, p.font) + 2 * p.padH, h |-> GlyphH(p.font) + 2 * p.padV]

\* Mutant: the padding is not in the key.
KeyUnpadded(text, fill, ink, p) == <<text, fill, ink, p.alpha, p.font>>

Key(text, fill, ink, p) == <<text, fill, ink, p.alpha, p.font, p.padH, p.padV>>

\* _composite_pill() on a poster, d pixels inside the pill: the glow is cleared from under
\* all but its edge.
Pixel(tile, d, back) == Over(tile.fill, tile.alpha, IF d < 1 THEN Over(White, Halo, back) ELSE back)

RegionIsLight(shade) == Luminance(Grey(shade)) >= 12000

\* A badge looks for its backup by its main colour and finds that of the first category
\* on this poster that has it.
Backup(look, here, c) ==
  LET same == {i \in DOMAIN Categories : Categories[i] \in here /\ look.main[Categories[i]] = look.main[c]}
  IN look.backup[Categories[CHOOSE i \in same : \A j \in same : i <= j]]

\* adapted_fill(); an opaque badge, or one that need not adapt, has its main colour.
Fill(look, here, c, shade) ==
  IF look.adapt /\ BadgeAlpha(look.opacity) < 255 /\ (RegionIsLight(shade) <=> LabelIsLight(look.ink))
  THEN Backup(look, here, c) ELSE look.main[c]

-----------------------------------------------------------------------------
(* The chips of the Badge settings (contrast.py, routes.py) *)

\* sample_interior(): how far inside the pill its colour is taken.
Inset(tile) == AtMost(5, AtMost(AtLeast(1, tile.w \div 4), AtLeast(1, tile.h \div 4)))

\* render_over()
Probe(fill, ink, alpha) == RenderTile("1080p", fill, ink, [font |-> 56, padH |-> 8, padV |-> 5, alpha |-> alpha])

Backdrops == {Grey(0), White, Grey(128)}
RenderedRatio(back, fill, ink, alpha) ==
  LET tile == Probe(fill, ink, alpha) IN ContrastRatio(ink, Pixel(tile, Inset(tile), back))

\* _badge_entry()
Chip(c, fill, look) ==
  LET rendered == {RenderedRatio(back, fill, look.ink, BadgeAlpha(look.opacity)) : back \in Backdrops}
      worst == CHOOSE r \in rendered : \A s \in rendered : r <= s
  IN [badge |-> c, color |-> fill, shown |-> c \in look.shown, worst |-> worst, grade |-> Grade(worst)]

\* badge_contrast()
BadgeContrast(look) ==
  LET badges == {Chip(c, look.main[c], look) : c \in Category}
      shown == {b \in badges : b.shown}
  IN [badges |-> badges, backup |-> {Chip(c, look.backup[c], look) : c \in Category},
      worst |-> {b \in shown : \A other \in shown : b.worst <= other.worst}]

\* _image_config_from_params()
Asked(form) ==
  LET orElse(colours, default) == [c \in Category |-> IF colours[c] = <<>> THEN default[c] ELSE colours[c]]
  IN [form EXCEPT !.main = orElse(@, Shipped), !.backup = orElse(@, ShippedBackup),
                  !.ink = IF @ = <<>> THEN White ELSE @,
                  !.opacity = AtLeast(10, AtMost(100, @)),
                  !.size = IF @ \in DOMAIN FontPx THEN @ ELSE "tv"]

\* badge_contrast_check(): what the page says of settings, saved or tried out.
Told(form) == BadgeContrast(Asked(form))

-----------------------------------------------------------------------------
(* The scan's thread draws a badge of a poster; the web's thread draws previews and
   empties the cache. *)

Badge(look, here, c, poster) ==
  [look |-> look, badge |-> c, shade |-> poster.shade, fill |-> Fill(look, here, c, poster.shade), p |-> Params(poster.w, look)]
KeyOf(b) == Key(Says[b.badge], b.fill, b.look.ink, b.p)
TileOf(b) == RenderTile(Says[b.badge], b.fill, b.look.ink, b.p)
Cached(k) == \E e \in tiles : e.key = k
Drawn(b, tile) == [look |-> b.look, badge |-> b.badge, shade |-> b.shade, p |-> b.p, tile |-> tile]

ContrastInit == tiles = {} /\ busy = {} /\ drawn = {}

\* _pill_tile(), its hit and its miss.
Take(b) == Cached(KeyOf(b)) /\ drawn' = {Drawn(b, e.tile) : e \in {x \in tiles : x.key = KeyOf(b)}} /\ UNCHANGED tiles
Store(b) ==
  /\ tiles' = {e \in tiles : e.key # KeyOf(b)} \cup {[key |-> KeyOf(b), tile |-> TileOf(b)]}
  /\ Cardinality(tiles') <= MaxTiles
  /\ drawn' = {Drawn(b, TileOf(b))}

\* generate_preview_bytes(): a badge on a poster made 280 pixels wide.
Previewed(look, c, shade) ==
  LET b == Badge(look, look.shown, c, [w |-> 280, shade |-> shade])
  IN Take(b) \/ (~Cached(KeyOf(b)) /\ Store(b))

\* preview_image(), of what the controls say.
Preview ==
  /\ \E form \in Forms, poster \in Posters : \E c \in form.shown : Previewed(Asked(form), c, poster.shade)
  /\ UNCHANGED busy

\* A scan comes to a badge, with the settings it has and the categories the poster has
\* badges of, and looks for its tile.
LookUp ==
  /\ busy = {}
  /\ \E look \in Looks, poster \in Posters : \E here \in SUBSET look.shown : \E c \in here :
       LET b == Badge(look, here, c, poster) IN busy' = {[b |-> b, found |-> Cached(KeyOf(b))]}
  /\ drawn' = {}
  /\ UNCHANGED tiles

Fetch == \E x \in busy : x.found /\ Take(x.b) /\ busy' = {}
Render == \E x \in busy : ~x.found /\ Store(x.b) /\ busy' = {}

\* The cache was emptied after the look (a KeyError): this poster stays as it is.
LoseTile ==
  /\ \E x \in busy : x.found /\ ~Cached(KeyOf(x.b))
  /\ busy' = {} /\ drawn' = {} /\ UNCHANGED tiles

\* clear_pill_cache(), by a save of the settings.
ClearPillCache == tiles # {} /\ tiles' = {} /\ UNCHANGED <<busy, drawn>>

ContrastNext == Preview \/ LookUp \/ Fetch \/ Render \/ LoseTile \/ ClearPillCache
ContrastSpec == ContrastInit /\ [][ContrastNext]_contrastVars

-----------------------------------------------------------------------------
ASSUME ContrastAssumption ==
  /\ DOMAIN Linear = 1..256 /\ Linear[1] = 0 /\ Linear[256] = 100000
  /\ \A v \in 1..255 : Linear[v] < Linear[v + 1]
  /\ Halo \in 1..255 /\ MaxTiles > 0
  /\ \A look \in Looks : look.opacity \in 0..100 /\ \A c \in Category : <<>> \notin {look.main[c], look.backup[c], look.ink}

\* A text whose luminance is between those of its fill over black and over white:
\* some poster is worse than all backdrops (contrast.py, at the top).
Between(look, fill) ==
  LET over(back) == Luminance(Over(fill, BadgeAlpha(look.opacity), back))
  IN over(Grey(0)) < Luminance(look.ink) /\ Luminance(look.ink) < over(White)

\* The grades that the documents promise of the palette as shipped (README.md, 282,
\* config.py, 207-252, and overlay.py, 49-56): any, if nothing is promised.
Promised(look, fill) ==
  IF look.main # Shipped \/ look.backup # ShippedBackup \/ look.ink # White \/ look.shown # Category
  THEN {"AAA", "AA", "fail"}
  ELSE IF look.opacity >= 98 \/ (look.adapt /\ look.opacity >= 65 /\ \E c \in Category : fill = Shipped[c]) THEN {"AAA"}
  ELSE IF look.opacity >= 80 \/ (look.adapt /\ look.opacity >= 65) THEN {"AAA", "AA"} ELSE {"AAA", "AA", "fail"}

\* A badge is drawn on a poster, or in a preview, with a tile of the size that the layout
\* reckoned with, whatever the shared cache held before; in a colour that has a
\* chip in the settings, of its own category or of one that shares its main
\* colour; and reads there no worse than that chip says, nor, shown in its main colour, than
\* the figure beside the opacity; nor than the documents say of the shipped colours.
\* Left out: a text between its fills, and an opacity under the slider's 10 %, which
\* the page does not show (_pill_tile, adapted_fill, badge_contrast).
BadgesReadAsTold ==
  \A d \in drawn :
    LET page == Told(d.look)
        ratio == ContrastRatio(d.tile.ink, Pixel(d.tile, Inset(d.tile), Grey(d.shade)))
        chips == {chip \in page.badges \cup page.backup :
                    chip.color = d.tile.fill /\ d.look.main[chip.badge] = d.look.main[d.badge]}
    IN /\ d.tile.w = PillWidth(Says[d.badge], d.p) /\ d.tile.h = RowHeight(d.p)
       /\ chips # {}
       /\ d.look.opacity >= 10 /\ ~Between(d.look, d.tile.fill) =>
            /\ \A chip \in chips : chip.worst <= ratio
            /\ d.tile.fill = d.look.main[d.badge] => \A chip \in page.worst : chip.worst <= ratio
       /\ Grade(ratio) \in Promised(d.look, d.tile.fill)
=============================================================================
