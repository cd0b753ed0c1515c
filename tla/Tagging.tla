------------------------------ MODULE Tagging ------------------------------
(***************************************************************************)
(* How what ffprobe says of a file becomes tags and pills: the loops of     *)
(* scanner.py over its streams and the sidecar files, build_tags()          *)
(* (tagger.py), the grouping of _make_badge_groups() (pipeline.py) and      *)
(* order_pills_by_language() (overlay.py), an element at a time.            *)
(*                                                                         *)
(* Data.  A behaviour follows one section of the tags of one item; sections *)
(* do not meet before build_tags() joins those that a destination takes.    *)
(* The managed prefix, and how tag_label() respells a label, are left out.  *)
(***************************************************************************)
EXTENDS Integers, Sequences, FiniteSets

CONSTANTS
  Items,       \* what is known of an item: members of `Item`
  Codes,       \* _LANG_CODE: strings of two or three letters
  Short,       \* those of two
  LangMap,     \* LANG_MAP: labels of the codes of three letters that have one
  OtherLabels, \* _NON_LANGUAGE_LABELS
  Upper,       \* Upper[c]: the code c in capitals
  CodecMap     \* _AUDIO_CODEC_MAP, a name that it lacks in capitals

\* A frame has its side data and its colours; `object` and `hd` are what tells the
\* kinds of a codec apart; `files` lie beside the video: whether their name begins as
\* the video's does, and the parts between that and the suffix.
Item ==
  [videos : Seq([w : Nat, h : Nat, side : SUBSET STRING, bt2020 : BOOLEAN, transfer : STRING,
                 codec : STRING, order : STRING]),
   audios : Seq([lang : STRING, name : STRING, object : BOOLEAN, hd : BOOLEAN]),
   subs : Seq([lang : STRING, format : STRING]),
   files : Seq([named : BOOLEAN, rest : Seq(STRING), format : STRING]),
   official : STRING, certs : SUBSET STRING, fallback : BOOLEAN,
   prefer : Seq(STRING)]

VARIABLES
  item,    \* the item, and
  section, \* the section of its tags that is followed
  doing,   \* the loop at work
  nth,     \* how many elements it has seen
  tracks,  \* AudioTracks or SubTracks found: [lang, codec], a format being a codec
  tags,    \* the section's tags
  grouped, \* codec_langs, fmt_langs: [head, langs] in order of appearance
  labels,  \* what order_pills_by_language() has of them: [head, langs, rank]
  shown    \* the pills in the order in which they are drawn

taggingVars == <<item, section, doing, nth, tracks, tags, grouped, labels, shown>>

Least(S) == CHOOSE i \in S : \A j \in S : i <= j

-----------------------------------------------------------------------------
(* Video *)

\* RESOLUTION_CLASSES, highest first; no height counts for 480p.
Classes == << [w |-> 3840, h |-> 2160, label |-> "4K"], [w |-> 1920, h |-> 1080, label |-> "1080p"],
              [w |-> 1280, h |-> 720, label |-> "720p"], [w |-> 854, h |-> 0, label |-> "480p"] >>

\* _reaches(): RESOLUTION_TOLERANCE_PCT is 5.
Reaches(size, class) == class > 0 /\ size * 100 >= class * 95

InClass(v, c) == Reaches(v.w, c.w) \/ Reaches(v.h, c.h)

\* _detect_resolution() of the first video stream.
Resolution(v) ==
  LET found == {i \in DOMAIN Classes : InClass(v, Classes[i])}
  IN IF found = {} THEN "SD" ELSE Classes[Least(found)].label

\* _detect_hdr() of one stream: its side data, then its colours.
StreamHdr(v) ==
  CASE "dovi" \in v.side -> "DV"
    [] "dovi" \notin v.side /\ "smpte2094-40" \in v.side -> "HDR10+"
    [] v.side \cap {"dovi", "smpte2094-40"} = {} ->
         CASE v.bt2020 /\ v.transfer = "smpte2084" -> "HDR10"
           [] v.bt2020 /\ v.transfer = "arib-std-b67" -> "HLG"
           [] OTHER -> "none"

\* The first video stream that says anything.
Hdr(videos) ==
  LET said == {i \in DOMAIN videos : StreamHdr(videos[i]) # "none"}
  IN IF said = {} THEN "none" ELSE StreamHdr(videos[Least(said)])

\* is_interlaced(), of ffprobe's field_order; "unknown" says nothing.
Interlaced(order) == order \in {"tt", "bb", "tb", "bt"}

\* _video_tags()
VideoTags(videos) ==
  IF videos = <<>> THEN {}
  ELSE ({Resolution(videos[1]), videos[1].codec, Hdr(videos)} \ {"none"})
         \cup (IF Interlaced(videos[1].order) THEN {"interlaced"} ELSE {})

-----------------------------------------------------------------------------
(* Audio *)

\* _AUDIO_QUALITY_RANK, best first; a codec that it lacks ranks 999.
Ranked == <<"TrueHD Atmos", "TrueHD", "DTS-X", "DTS-HD", "DD+ Atmos", "DTS", "DD+", "DD",
            "FLAC", "Opus", "AAC", "Vorbis", "MP3", "PCM">>
Rank(codec) == IF \E i \in DOMAIN Ranked : Ranked[i] = codec
               THEN CHOOSE i \in DOMAIN Ranked : Ranked[i] = codec ELSE 999

\* _normalize_audio_codec()
Codec(s) ==
  CASE s.name = "truehd" -> IF s.object THEN "TrueHD Atmos" ELSE "TrueHD"
    [] s.name = "eac3" -> IF s.object THEN "DD+ Atmos" ELSE "DD+"
    [] s.name = "dts" -> IF s.object THEN "DTS-X" ELSE IF s.hd THEN "DTS-HD" ELSE "DTS"
    [] OTHER -> CodecMap[s.name]

\* _lang3_to_lang2(), of a code in small letters and out of its brackets.
Lang(code) ==
  IF code \notin Codes \ {"und", "zxx"} THEN "UND"
  ELSE IF code \in Short THEN Upper[code]
  ELSE IF code \in DOMAIN LangMap THEN LangMap[code]
  ELSE IF Upper[code] \in OtherLabels THEN "UND" ELSE Upper[code]

\* Mutant: the last of two codecs wins.
BetterOrLast(new, old) == Rank(new) <= Rank(old)

Better(new, old) == Rank(new) < Rank(old)

\* _audio_tags(); a track whose language is unknown does not count as one.
AudioTags(ts) ==
  LET known == Cardinality({i \in DOMAIN ts : ts[i].lang # "UND"})
  IN (UNION {{ts[i].lang, ts[i].codec} : i \in DOMAIN ts})
       \cup (IF known = 2 THEN {"dual-audio"} ELSE {}) \cup (IF known >= 3 THEN {"multi-audio"} ELSE {})

-----------------------------------------------------------------------------
(* Subtitles and the rating *)

\* The language in a sidecar's name: the first part that has the shape of a code.
SidecarLang(rest) ==
  LET coded == {k \in DOMAIN rest : rest[k] \in Codes}
  IN IF coded = {} THEN "UND" ELSE Lang(rest[Least(coded)])

\* _subtitle_tags()
SubTag(lang) == "sub-" \o lang
SubTags(ts) == {SubTag(ts[i].lang) : i \in {k \in DOMAIN ts : ts[k].lang # "UND"}}

\* The rating an item is tagged with: Jellyfin's, or with arr_sync's
\* certification_fallback the one that its owners in the *arrs agree on.
Rating(official, certs, fallback) ==
  IF official # "" \/ ~fallback \/ Cardinality(certs \ {""}) # 1
  THEN official ELSE CHOOSE c \in certs : c # ""

\* build_tags(), one section of it.
Tags(i, s, ts) ==
  UNION {IF s = "video" THEN VideoTags(i.videos) ELSE {},
         IF s = "audio" THEN AudioTags(ts) ELSE {},
         IF s = "subtitles" THEN SubTags(ts) ELSE {},
         IF s = "rating" THEN {Rating(i.official, i.certs, i.fallback)} \ {""} ELSE {}}

-----------------------------------------------------------------------------
(* The order of pills *)

\* A place in image.prefer_languages; the others come after.
Preference(lang, prefer) ==
  IF \E i \in DOMAIN prefer : prefer[i] = lang THEN CHOOSE i \in DOMAIN prefer : prefer[i] = lang
  ELSE Len(prefer) + 1

\* A pill ranks as its most preferred language does.
BestOf(langs, prefer) ==
  Least({Len(prefer) + 1} \cup {Preference(langs[k], prefer) : k \in DOMAIN langs})

\* sorted(): how it permutes a list with these keys; equal keys keep their order.
Sortings(keys) ==
  {f \in [DOMAIN keys -> DOMAIN keys] :
     /\ \A j \in DOMAIN keys : \E i \in DOMAIN keys : f[i] = j
     /\ \A i, j \in DOMAIN keys : i < j =>
          keys[f[i]] < keys[f[j]] \/ (keys[f[i]] = keys[f[j]] /\ f[i] < f[j])}

-----------------------------------------------------------------------------
(* The loops *)

TaggingInit ==
  /\ item \in Items /\ section \in {"video", "audio", "subtitles", "rating"}
  /\ doing = "look" /\ nth = 0
  /\ tracks = <<>> /\ tags = {} /\ grouped = <<>> /\ labels = <<>> /\ shown = <<>>

\* What the first loop goes over.
Inputs(i, s) ==
  CASE s = "audio" -> Len(i.audios)
    [] s = "subtitles" -> Len(i.subs) + Len(i.files)
    [] OTHER -> 0

\* _detect_audio_tracks(): the best codec of each language, in order of appearance.
LookAudio ==
  /\ doing = "look" /\ section = "audio" /\ nth < Len(item.audios)
  /\ LET lang == Lang(item.audios[nth + 1].lang)
         codec == Codec(item.audios[nth + 1])
     IN tracks' = IF \A i \in DOMAIN tracks : tracks[i].lang # lang
                  THEN Append(tracks, [lang |-> lang, codec |-> codec])
                  ELSE [i \in DOMAIN tracks |->
                          IF tracks[i].lang = lang /\ Better(codec, tracks[i].codec)
                          THEN [lang |-> lang, codec |-> codec] ELSE tracks[i]]
  /\ nth' = nth + 1
  /\ UNCHANGED <<item, section, doing, tags, grouped, labels, shown>>

\* _detect_subtitle_tracks()
LookSub ==
  /\ doing = "look" /\ section = "subtitles" /\ nth < Len(item.subs)
  /\ tracks' = Append(tracks, [lang |-> Lang(item.subs[nth + 1].lang), codec |-> item.subs[nth + 1].format])
  /\ nth' = nth + 1
  /\ UNCHANGED <<item, section, doing, tags, grouped, labels, shown>>

\* _detect_external_subs()
LookFile ==
  /\ doing = "look" /\ section = "subtitles" /\ nth >= Len(item.subs) /\ nth < Len(item.subs) + Len(item.files)
  /\ LET f == item.files[nth + 1 - Len(item.subs)]
     IN tracks' = IF f.named
                  THEN Append(tracks, [lang |-> SidecarLang(f.rest), codec |-> f.format]) ELSE tracks
  /\ nth' = nth + 1
  /\ UNCHANGED <<item, section, doing, tags, grouped, labels, shown>>

Build ==
  /\ doing = "look" /\ nth = Inputs(item, section)
  /\ tags' = Tags(item, section, tracks)
  /\ doing' = "group" /\ nth' = 0
  /\ UNCHANGED <<item, section, tracks, grouped, labels, shown>>

\* A language that is unknown is not written.
Said(langs, lang) == IF lang = "UND" THEN langs ELSE Append(langs, lang)

\* _make_badge_groups(): the languages under each codec or format; a subtitle that
\* was seen before says nothing new.
Group ==
  /\ doing = "group" /\ nth < Len(tracks)
  /\ LET t == tracks[nth + 1]
         again == section = "subtitles" /\ \E m \in 1..nth : tracks[m] = t
     IN grouped' = IF again THEN grouped
                   ELSE IF \A i \in DOMAIN grouped : grouped[i].head # t.codec
                   THEN Append(grouped, [head |-> t.codec, langs |-> Said(<<>>, t.lang)])
                   ELSE [i \in DOMAIN grouped |->
                           IF grouped[i].head = t.codec
                           THEN [head |-> t.codec, langs |-> Said(grouped[i].langs, t.lang)] ELSE grouped[i]]
  /\ nth' = nth + 1
  /\ UNCHANGED <<item, section, doing, tracks, tags, labels, shown>>

EndGroups ==
  /\ doing = "group" /\ nth = Len(tracks)
  /\ doing' = "order" /\ nth' = 0
  /\ UNCHANGED <<item, section, tracks, tags, grouped, labels, shown>>

\* prefer_order() of the next pill.
OrderLangs ==
  /\ doing = "order" /\ nth < Len(grouped)
  /\ LET p == grouped[nth + 1] IN
       \E f \in Sortings([k \in DOMAIN p.langs |-> Preference(p.langs[k], item.prefer)]) :
         labels' = Append(labels, [head |-> p.head, langs |-> [k \in DOMAIN p.langs |-> p.langs[f[k]]],
                                   rank |-> BestOf(p.langs, item.prefer)])
  /\ nth' = nth + 1
  /\ UNCHANGED <<item, section, doing, tracks, tags, grouped, shown>>

\* The end of order_pills_by_language().
OrderPills ==
  /\ doing = "order" /\ nth = Len(grouped)
  /\ \E f \in Sortings([k \in DOMAIN labels |-> labels[k].rank]) :
       shown' = [k \in DOMAIN labels |-> labels[f[k]]]
  /\ doing' = "shown"
  /\ UNCHANGED <<item, section, nth, tracks, tags, grouped, labels>>

TaggingNext ==
  LookAudio \/ LookSub \/ LookFile \/ Build \/ Group \/ EndGroups \/ OrderLangs \/ OrderPills
TaggingSpec == TaggingInit /\ [][TaggingNext]_taggingVars

-----------------------------------------------------------------------------
(* What the labels are: none that build_tags() gives another meaning, and       *)
(* preferences as ImageConfig leaves them (ImageSettings).  (That a name is a   *)
(* STRING is for the provers, which do not know it.)                            *)
ASSUME TaggingAssumption ==
  /\ {"UND", "TrueHD Atmos", "TrueHD", "DD+ Atmos", "DD+", "DTS-X", "DTS-HD", "DTS"} \subseteq STRING
  /\ Items \subseteq Item
  /\ \A c \in Codes : Upper[c] \in STRING
  /\ \A c \in DOMAIN LangMap : LangMap[c] \in STRING
  /\ \A i \in Items :
       /\ IsFiniteSet(i.certs)
       /\ \A a, b \in DOMAIN i.prefer : a # b => i.prefer[a] # i.prefer[b]
       /\ \A a \in DOMAIN i.prefer : i.prefer[a] # "UND"
       /\ \A n \in DOMAIN i.audios :
            /\ CodecMap[i.audios[n].name] \in STRING
            /\ {Lang(i.audios[n].lang), Codec(i.audios[n])} \cap {"dual-audio", "multi-audio"} = {}

TaggingTypeOK ==
  /\ item \in Items /\ section \in {"video", "audio", "subtitles", "rating"}
  /\ doing \in {"look", "group", "order", "shown"} /\ nth \in Nat
  /\ tracks \in Seq([lang : STRING, codec : STRING])
  /\ tags = IF doing = "look" THEN {} ELSE Tags(item, section, tracks)
  /\ grouped \in Seq([head : STRING, langs : Seq(STRING)])
  /\ labels \in Seq([head : STRING, langs : Seq(STRING), rank : Nat])
  /\ shown \in Seq([head : STRING, langs : Seq(STRING), rank : Nat])

-----------------------------------------------------------------------------
(* Of streams and tracks *)

LangAt(n) == Lang(item.audios[n].lang)
CodecAt(n) == Codec(item.audios[n])

\* Of the first n streams: each language has a track,
EveryLanguage(n) == \A m \in 1..n : \E i \in DOMAIN tracks : tracks[i].lang = LangAt(m)

\* the tracks are in the order in which their languages appear,
InOrder(n) ==
  \A i, j \in DOMAIN tracks : i < j =>
    \E m \in 1..n : LangAt(m) = tracks[i].lang /\ \A k \in 1..m : LangAt(k) # tracks[j].lang

\* and each has the best codec of its language, the first of equals.
BestCodec(n) ==
  \A i \in DOMAIN tracks : \E m \in 1..n :
    /\ tracks[i] = [lang |-> LangAt(m), codec |-> CodecAt(m)]
    /\ \A k \in 1..n : LangAt(k) = LangAt(m) =>
         \/ Rank(CodecAt(m)) < Rank(CodecAt(k))
         \/ Rank(CodecAt(m)) = Rank(CodecAt(k)) /\ m <= k

\* A track with this language and codec comes before any with that language.
Earlier(l1, c1, l2, c2) ==
  \E m \in DOMAIN tracks :
    /\ tracks[m].lang = l1 /\ tracks[m].codec = c1
    /\ \A k \in 1..m : tracks[k].lang # l2 \/ tracks[k].codec # c2

\* A codec appears before that one.
Leads(c1, c2) ==
  \E m \in DOMAIN tracks : tracks[m].codec = c1 /\ \A k \in 1..m : tracks[k].codec # c2

-----------------------------------------------------------------------------
(* Properties *)

\* A frame is of the highest class that one of its sides reaches within five per
\* cent: a crop of either side alone keeps it (_detect_resolution).
CropKeepsClass ==
  item.videos # <<>> =>
    LET v == item.videos[1] IN
    \E level \in 1..5 :
      /\ Resolution(v) = (IF level = 5 THEN "SD" ELSE Classes[level].label)
      /\ \A i \in DOMAIN Classes : LET c == Classes[i] IN
           /\ (v.w >= c.w \/ (c.h > 0 /\ v.h >= c.h)) => level <= i
           /\ (c.h > 0 /\ 20 * v.w < 19 * c.w /\ 20 * v.h < 19 * c.h) => level > i

\* Each language once, in the order of the file, with the first of its best codecs;
\* "dual" and "multi" count the languages one can tell apart (_detect_audio_tracks,
\* _audio_tags).
BestPerLanguage ==
  LET known == Cardinality({LangAt(n) : n \in DOMAIN item.audios} \ {"UND"})
  IN /\ EveryLanguage(Len(item.audios)) /\ InOrder(Len(item.audios)) /\ BestCodec(Len(item.audios))
     /\ "dual-audio" \in tags <=> known = 2
     /\ "multi-audio" \in tags <=> known >= 3

\* A subtitle tag has a stream or a sidecar behind it, a number or a word before a
\* sidecar's language does not hide it (_detect_external_subs, _subtitle_tags), ...
SubtitlesTell ==
  LET saysSub(n, l) == l # "UND" /\ l = Lang(item.subs[n].lang)
      saysFile(n, k, l) == LET rest == item.files[n].rest IN
        /\ item.files[n].named /\ rest[k] \in Codes /\ \A j \in 1..(k - 1) : rest[j] \notin Codes
        /\ l # "UND" /\ l = Lang(rest[k])
  IN /\ \A t \in tags :
          \/ \E n \in DOMAIN item.subs : \E l \in {Lang(item.subs[n].lang)} : saysSub(n, l) /\ t = SubTag(l)
          \/ \E n \in DOMAIN item.files : \E k \in DOMAIN item.files[n].rest :
               \E l \in {Lang(item.files[n].rest[k])} : saysFile(n, k, l) /\ t = SubTag(l)
     /\ \A n \in DOMAIN item.subs : \A l \in {Lang(item.subs[n].lang)} : saysSub(n, l) => SubTag(l) \in tags
     /\ \A n \in DOMAIN item.files : \A k \in DOMAIN item.files[n].rest :
          \A l \in {Lang(item.files[n].rest[k])} : saysFile(n, k, l) => SubTag(l) \in tags

\* ... and a rating that Jellyfin does not have is only taken from owners that agree
\* (fallback_rating).
RatingAgreed ==
  tags = IF item.official # "" THEN {item.official}
         ELSE {c \in item.certs \ {""} : item.fallback /\ item.certs \ {""} = {c}}

\* The pills say what the tracks do, each codec once and no language lost or said
\* twice; the languages that somebody prefers come first, in a pill and among pills,
\* and the best of those that the file has is the first a viewer reads; else the order
\* is the file's (_make_badge_groups, order_pills_by_language).
PillsTell ==
  LET prefer == item.prefer
      present == {a \in DOMAIN prefer : \E m \in DOMAIN tracks : tracks[m].lang = prefer[a]}
  IN /\ \A m \in DOMAIN tracks : \E i \in DOMAIN shown :
          /\ shown[i].head = tracks[m].codec
          /\ tracks[m].lang # "UND" => \E k \in DOMAIN shown[i].langs : shown[i].langs[k] = tracks[m].lang
     /\ \A i \in DOMAIN shown :
          /\ \E m \in DOMAIN tracks : tracks[m].codec = shown[i].head
          /\ \A k \in DOMAIN shown[i].langs :
               /\ shown[i].langs[k] # "UND"
               /\ \E m \in DOMAIN tracks : tracks[m] = [lang |-> shown[i].langs[k], codec |-> shown[i].head]
     /\ \A i \in DOMAIN shown : \A k2 \in DOMAIN shown[i].langs : \A k1 \in 1..(k2 - 1) :
          LET l1 == shown[i].langs[k1]
              l2 == shown[i].langs[k2]
          IN /\ l1 # l2
             /\ \/ Preference(l1, prefer) < Preference(l2, prefer)
                \/ /\ Preference(l1, prefer) = Preference(l2, prefer)
                   /\ Earlier(l1, shown[i].head, l2, shown[i].head)
     /\ \A j \in DOMAIN shown : \A i \in 1..(j - 1) :
          LET b1 == BestOf(shown[i].langs, prefer)
              b2 == BestOf(shown[j].langs, prefer)
          IN /\ shown[i].head # shown[j].head
             /\ b1 < b2 \/ (b1 = b2 /\ Leads(shown[i].head, shown[j].head))
     /\ present # {} => shown # <<>> /\ shown[1].langs # <<>> /\ shown[1].langs[1] = prefer[Least(present)]

\* What the tags and the poster's pills say of a file is what is in it and beside it.
TagsTellTheFile ==
  doing = "shown" =>
    /\ CropKeepsClass
    /\ section = "audio" => BestPerLanguage
    /\ section = "subtitles" => SubtitlesTell
    /\ section = "rating" => RatingAgreed
    /\ PillsTell
=============================================================================
