# Xenotag in TLA+

Xenotag probes media files, writes `xt-*` tags on the Jellyfin items (and on Sonarr/Radarr objects), draws
badges on their posters and keeps a local index of what it did. This directory models the parts of it where
several actors, failures and restarts meet, and the rules whose edges decide what a viewer sees; it
model-checks them with TLC and proves the main safety properties with TLAPS.

Run things in this directory:

    tlc -config MCReconcile.cfg MCReconcile
    tlc -config MCConfig.cfg Config
    tlapm Reconcile_proofs.tla

`PROJECT.json` lists the components, the runs, the source lines that every definition stands for, the hazards
and the theorems.

## 1. The system

One process (`uvicorn`, one worker). Four kinds of thread share it: the HTTP handlers, APScheduler's jobs, the
daemon threads that run a scan or a manual rescan, and FastAPI's background tasks, which serve webhooks.

| component | state | operations | talks to |
|---|---|---|---|
| scan lock (`pipeline.ScanProgress`) | `running`, `cancelled`, `error`, in memory | `try_start`, `cancel`, `finish` | every scan and pass, the routes |
| tagging pipeline (`pipeline.py`) | locals of a run; `media_state`, `app_meta`, `scan_errors` rows | full and incremental scan, webhook task | Jellyfin, ffprobe, index, *arrs, posters |
| poster overlay (`overlay.apply_overlay`) | poster and `.orig` backup on disk | back up, open, render, save | called by the pipeline |
| tag reconciliation (`reconcile.py`) | `reconcile-report.json`, a gauge | scheduled and manual pass | Jellyfin, index, scan lock |
| alerts (`metrics.py`) | gauges, seeded from reports and the index | halt, finished, seed | Prometheus |
| *arr sync (`arr_sync.py`, `clients/`) | catalogue of one scan, halt flag, report | preload, resolve, write, read back | Sonarr, Radarr |
| deleted items (`deleted_items.py`) | report, removal log | list, confirm, strip, delete rows | Jellyfin, *arrs, index |
| reconcile clean-up (`reconcile_cleanup.py`) | none of its own | dry run, digest-checked apply | Jellyfin, index, from another process |
| index (`state.py`, `migrate.py`) | `state.db` (SQLite) | upserts, purge, schema upgrade | everything |
| configuration (`config.py`, `auth.py`) | `config.yml`, `initial-password` | load, save, bootstrap | everything |
| scheduler (`scheduler.py`, `main.py`) | two cron jobs | start, re-arm | scan, pass |
| scanner, tagger, layout (`scanner.py`, `tagger.py`, `overlay.py`) | none | pure rules | pipeline |
| web (`web/`) | sessions in signed cookies, SSE queues | routes | all of the above |

What makes each correct, and what is hard about it:

- **Scan lock.** At most one run; a cancel belongs to one run; the lock is always given back. The flag has no
  owner, the routes look at it without taking it, and any exception may end a run at any point.
- **Tagging pipeline.** An item that the incremental scan skips carries the tags of its file; a settings
  change reaches every item; a user's tags survive. It reads the mtime, probes, writes, reads back and records
  in separate steps, in batches, while files, settings and Jellyfin change, and webhooks do the same without
  the lock.
- **Posters.** The original is never lost and badges are never drawn on badges. Check-then-copy and in-place
  saves, without any lock, from the scan and from webhooks, with crashes between them.
- **Reconciliation.** A scheduled pass never exceeds its threshold, only adds back, never trusts a stale row,
  and its alarm is not lost. Two reads and a write of the same item with anything happening in between.
- **\*arr sync.** An object gets the tags of the item it belongs to and no other's; an object claimed twice is
  left alone; after a halt nothing is written; the alarm stays until a clean scan. A plan on a cached copy, a
  fetch, up to three kinds of write and a read-back, while people and webhooks edit the same objects.
- **Deleted items.** No row goes while its item is there or its tags are still on an object; a live item's
  folder is not touched. The listing is paged over a library that changes, and everything after it relies on
  it.
- **Configuration, first run, migrations.** A crash between two writes leaves a state the next start can go on
  from; what is saved is what runs; a secret from outside never lands in the file.
- **Clean-up.** It does what it showed and nothing more, stops at the first item that does not read back, and
  leaves rows that say what is there. It runs in another process, and a digest is all that ties what is
  written to what was shown.
- **Scanner, tags, pills.** The tags and the pills tell the file, at every edge of a resolution class and for
  every order of its streams; each badge is drawn or counted. Tags, grouping and order are four loops in four
  files, each of which trusts the one before.
- **Looks of badges.** A badge reads on a poster as the settings page said it would. One cache of rendered
  tiles serves a scan, the previews and every save; what a chip says is measured over three backdrops and must
  hold over any poster.
- **Image settings.** A value somebody wrote by hand is mended once; after that nothing moves at a start, and
  a colour that was chosen stays. Four validators run at every load and every save, and one of them must not
  run twice.

## 2. How the project is laid out

| module | what | checked by | proofs |
|---|---|---|---|
| `ScanLock`, `RunMutex` | the lock, its callers, the abstract mutex it implements | `MCScanLock.cfg` | `Scan_proofs` |
| `TagSync` | scan and webhook over files, Jellyfin and index | `MCTagSync*.cfg` | `TagSync_proofs` |
| `Poster` | one folder, many workers, crashes | `MCPoster*.cfg` | `Overlay_proofs` |
| `Reconcile` | the pass beside scans and webhooks, report and alarm | `MCReconcile` | `Reconcile_proofs` |
| `ArrSync` | scan and webhook over the *arrs' objects, report and alarm | `MCArrSync` | `ArrSync_proofs` |
| `DeletedItems` | the pass over a library and *arrs that change | `MCDeletedItems` | `DeletedItems_proofs` |
| `CleanUp` | dry run and apply of the one-off clean-up, beside everything else | `MCCleanUp` | `CleanUp_proofs` |
| `Config` | config.yml, start and saves, secrets, first run, index schema | `MCConfig.cfg` | `Config_proofs` |
| `Layout` | the badges of one poster, pill by pill | `MCRules` | `Overlay_proofs` |
| `Tagging` | from streams and sidecars to tags and pills, an element at a time | `MCRules` | `Scan_proofs` |
| `ImageSettings` | what the image section becomes, at starts and at saves | `MCRules` | `Scan_proofs` |
| `Contrast` | the tiles of badges, their shared cache, the chips of the settings page | `MCRules` | none |

The modules meet at what they share. The lock of `ScanLock` is the condition under which a scan or a pass
starts in `TagSync` and `Reconcile`. An item that `TagSync` tags step by step is tagged in one step in
`Reconcile`, and is an item with a probed file in `ArrSync`. The tags that are abstract in those modules are
the ones `Tagging` builds, and the pills it puts in order are the groups that `Layout` places. The languages
somebody prefers are in `Tagging` what `ImageSettings` has made of them.

Modules that are proved about declare no `RECURSIVE` operator, name their constants' assumptions, and keep one
action per operation. The proofs of `X` are in `X_proofs`; those about posters and their badges are in
`Overlay_proofs`, those about the lock of a scan, what it makes of a file and the settings it draws with in
`Scan_proofs`. A loop of the code is a state machine, one action an iteration (`Layout`, `Tagging`,
`ImageSettings`): what a fold computes for every list could only be proved by induction over data, what a loop
keeps is an invariant.

What would come next: the two gaps of the pipeline in section 6.

## 3. The modules and the code

### ScanLock, RunMutex

`running`, `cancelled` and `error` are the fields of `ScanProgress` that decide something. A thread in
`Routed` is started by a route, which only looks at the flag (`Spawn`), and calls `try_start()` later (`Start`
or `Skip`); the others (cron, the manual rescan) call it at once. `Finish` is the run's own `finish()`,
`Raise` the except clause of `_run_scan_recorded()` and `_run_reconcile_recorded()`. After `finish()` a run
still cleans up (`Close`). The clean-up of a pass is a `finally` whose exception reaches the same except
clause (`CloseRaises`): if another run has started since, that run loses the lock. `foreign` remembers such a
step; the properties are stated up to it.

`RunMutex` is a mutex with an owner. `ImplementsMutex` maps its owner to the thread whose run is in progress.

### TagSync

A file is the version of its content. The tags built for an item are a pair `<<settings version, file
version>>`, so a set of tags tells what it was built from; that is all the properties need. `row` is
`media_state` (its mtime and its `tags_applied`), `meta` the stored `tag_config_hash`.

A worker is the scan's thread or one webhook's background task. Both go through `write`, `readback` and
`record` (`Write`, `EndWrites`, `ReadBack`, `Retry`, `Record`, `EndBatch`), as both go through
`_process_one_item()` and `_record_after_readback()`. Before that the scan filters (`Check`), collects probes
in any order (`Collect`) and reads the current tags of a batch (`ReadCurrent`); a webhook resolves its item
and probes it (`Resolve`, `ProbeOne`). A write is one POST of the whole item: it sets the managed tags and
puts the worker's copy of the other tags back (`Posted`).

Faults, each named and counted: a write that raises and may have landed, a read that fails, a read-back that
returns some items or none, a probe that fails, a mount that goes, a stale listing, a write that Jellyfin
undoes, a cancel and a crash. `FileChanges`, `SaveSettings` and `UserTagsItem` are not faults.

Histories: `known` is what other tags an item has had ever since a worker started.

### Poster

An image is the number of layers on it: `original`, `badged`, `stacked`, or `broken`, a truncated file.
Opening a file for writing (`CopyBegins`, `SaveBegins`) and finishing it (`CopyEnds`, `SaveEnds`) are separate
steps, since a crash or another worker may come in between. `due` says that the index still owes the item a
render. `met` remembers whether two workers were in the folder at once, and whether that was before the backup
was whole; `failed` that a save raised.

### Reconcile

The pass is one action per read, write and decision (`ReadTags`, `EndReads`, `Decide`, `ReadWhole`,
`WriteOne`, `ReadBack`, `RetryOne`, `EndWrites`). Its end is three steps of the code in two: `StoreReport`
settles the `outcome` and writes the report, or does not, as `store_report()` swallows the error of a file it
cannot write; then the row of the run is closed and the gauge moves (`Finish`), or the commit raises and the
gauge stays where it was (`FailFinish`). A restart may come between. A scan is taken item by item, since a
cancel, a crash or a failed listing between two items is what makes rows stale; tagging one item is a single
step, `TagSync` having the detail. Webhook tasks run beside the pass. Tags are real sets here, because a total
loss, a partial one and a write are set operations. `errors` are the items whose newest scan error is newer
than their row, `failing` the ones the last scan to try really could not reach: the difference between the two
is what the properties are about. `owed` remembers that the newest pass that was not cancelled was halted and
that its report says so.

### ArrSync

An object of Sonarr or Radarr is whether it is there, the items in whose folder it lies (`home`), its managed
tags, and one bit, `rest`, for all of it that is not a managed tag. `ids` says which items carry its provider
id. A worker (the scan or a webhook's task) holds what it preloaded (`pre`, `known`), the objects it refuses
since two of its items claim them, and the item and object at work.

`Begin` is `prepare()` and `resolve_all()`, `StartItem` the resolution of one item, `Fetch` all of `_write()`
up to its first write: quiet if halted or current on the cached copy, then the fresh copy, `_still_owned()`
and the plan on that. Then follow `CreateLabels`, `AddTags`, `RemoveTags` and `ReadBack`, each of which may
raise, a write after it landed or before. `Halt` stops this worker and raises the gauge. `EndItem` records the
row whatever became of the objects. `EndScan` stores the report and clears the gauge; `DryRun` leaves its
report only; `Restart` seeds the gauge from whatever report is there. An edit goes out only past the guard of
the dry run and of writes that are off (`ArrGuarded`, `Sends`).

`touched` remembers the objects that somebody else changed, or whose labels were refused, since the scan
began; `probed` the version of each file it probed.

### DeletedItems

Items are numbers in the order in which Jellyfin lists them: a page is what follows the first n. The pass
lists (`ListPage`), recounts (`Recount`), looks every missing id up beside a live control (`Lookup`), preloads
the *arrs and plans (`Plan`), strips object by object (`Fetch`, `Edit`, `Check`) and deletes rows last
(`DeleteRows`). A tag on an object is the item it was written for, so that "its tags are still there" can be
said; two items' tags may be the same labels, and `Edit` has both outcomes. Between any two of these steps
items come and go, a webhook's task tags a new item and its object, objects move and change, and any request
may fail.

`alive` are the items that Jellyfin has had all through the pass, `steady` that its library has not changed
meanwhile, `moved` the objects that changed folder.

### Config

A configuration is five fields, each standing for its kind: the password hash, the signing key (which the
environment may supply), an *arr key and whether a key file supplies it, and a schedule. `disk` is what
config.yml parses to, or nothing. A start is `Load`, `InitDb`, `BootSecret`, `BootPassword`, `BootSave`; each
may be the last one before a crash, and a save may leave the old text, none, its beginning or no YAML
(`WriteCutShort`). `InitDb` is `upgrade_to_head()` step by step: `BeginUpgrade` takes the lock,
`StampBaseline` or `Refuse` decides about tables without a stamp, then each revision runs (`RunRevision`) and
is stamped (`StampRevision`), and `CommitUpgrade` ends the transaction. `tx` is the index as that transaction
sees it, `schema` as it is on disk; a crash in between loses `tx`. A request is `Login`, `SaveSettings`,
`SaveRaw` or `ChangePassword`, with what each reads from the running configuration and what it writes. A
session is the key and the hash it was signed with (`Session`), good if it would be signed the same now
(`Accepts`). `SaveRaw` takes fewer texts than the editor does: it changes every field but the environment and
the path of a key file.

`torn` remembers that the last write was cut short, `hurt` that auth settings were lost or changed from
outside.

### CleanUp

A tag is its kind, its name and whether it is in lower case: kinds are what a plan tells apart, and lower case
is what the *arrs make of a spelling. `Start`, `ReadItems` and `Decide` are a dry run or the first half of
`apply()`; a dry run leaves its plan in `shown`, an apply with the same `Digest` goes on to `Write`,
`ReadBack` and, once, `Retry`, item by item. `Edit`, `Record`, `Purge` and `OpenOrClose` are everybody else:
people, scans, webhooks' tasks, the *arrs' respelling, the purge at a start of the app (`PurgeAtStart`).
Between two steps a request may raise, an item may be missing from an answer, and Jellyfin may undo a write.

`touched` remembers the items that somebody else changed since they were read, `unsure` those that were
written and not found as written, `recorded` how each item read back, until somebody else changes it.

### Layout

`render_badge_groups()` on one canvas, over numbers instead of glyphs: a badge is its place in its group, a
pill a set of badges, and what a pill measures is for the constant `Width` to say, which need not even grow
with the pill. `stage` is where the code is. In `"try"` `_rows_wanted()` flows the badges of a group over one
row, then over two (`TryMore`), and the group gets the rows it wants as far as there are (`Sized`; `upTo` is
`n_rows` summed up). In `"lay"` `_layout_group()` flows them over those rows, the last group first. Both are
the loop of `_flow_rows()`: an iteration starts the next row (`NextRow`), places a pill (`PlacePill`) or ends
the flow with the rest hidden (`GiveUp`). In `"close"` `_close_row()` adds the "+N" pills to the last row
(`AddCount`); one that does not fit has the last badge trimmed and all of them measured again (`TrimBadge`).
`Draw` is `_draw_rows()`: the group's pills go to their bands, and the counts that found no room wait in
`pending` for the next group.

### Tagging, ImageSettings

`Tagging` follows one section of the tags of one item. `doing` is the loop at work and `nth` how far it is:
`"look"` goes over the audio streams (`LookAudio`, the best codec of each language), or over the subtitle
streams and the files beside the video (`LookSub`, `LookFile`); `Build` is `build_tags()`; `"group"` goes over
the tracks (`Group`, the languages under each codec or format); `"order"` over the pills (`OrderLangs`,
`prefer_order()` of one), and `OrderPills` sorts them by the best-preferred language. Python's `sorted()` is
any permutation that is stable and sorts (`Sortings`). The code finds all tracks before it asks for the best
codecs again in order of appearance; here a dict that remembers its order is a sequence whose entries are
replaced in place. What has no loop (resolution, HDR, codec names, language codes, the rating) is an operator.
An item is what ffprobe, the directory, Jellyfin and the *arrs say of it; the tables are constants.

`ImageSettings` is a section that is read (`ImageInit`, `StartAgain`), or that comes from the settings form
with another colour (`Pick`). `NextCode` is an iteration of `_normalise_prefer_languages()`; then the section
is loaded (`LoadSection`), saved (`SaveSection`) or refused (`Refuse`). `SaveAsItIs` is the save of another
section, which writes the whole configuration. `wanted` remembers the colours that somebody has chosen,
`saved` what was last saved.

### Contrast

A colour is its three channels and a poster a width and a shade of grey. `Told` is what the settings page says
of its controls, saved or tried out: a chip for each colour, the worst ratio of text to fill over three
backdrops (`BadgeContrast`). On a poster a badge is looked up in the tile cache (`LookUp`) and then fetched
(`Fetch`), or rendered and stored (`Render`). `Preview` does the same for posters 280 pixels wide, with
settings that nobody has saved, from another thread; so between look and fetch a save may empty the cache
(`ClearPillCache`, `LoseTile`). Luminances are in 10^-5 and ratios in 10^-3, computed from tables of integers
(`Linear`), as the code computes them from one of fractions.

### MCRules

`MCRules` puts `Tagging`, `ImageSettings`, `Layout` and `Contrast` beside each other: a behaviour is that of
one of the four, while the others are blank.

## 4. The runs

| run | instance | shows |
|---|---|---|
| `scan_lock` | cron, two routed threads, the manual rescan | the flag implements the mutex, cancels stay in their run, the lock is released |
| `tag_sync_hooks` | 1 item, scan and one webhook, undone writes, stale listings, failed probes and unmounted files, at most 2 | a write drops no tag of a user's that was there when its worker began; a row gets ahead of its tags only by a retry that was overwritten |
| `tag_sync_scan` | 2 items in a batch of 2, 2 file and 2 settings versions, 2 saves, seven faults, at most 2 | what is skipped is tagged, settings changed under a scan are not taken for applied, rows hold what was last written, and every item converges |
| `poster` | a scan and two webhooks, failed copies, failed saves, crashes, at most 3 | badges do not stack, the original is kept, a truncated poster is redrawn |
| `reconcile` | 2 items, threshold 1, batches of 1, webhooks, eleven faults, at most 2 | the threshold holds, writes only add, stale rows are skipped, the alarm stays, lost tags come back or what keeps them shows |
| `arr_sync` | 2 items, 2 objects on 2 instances (two copies of a title; two items in one folder), scan and one webhook, thirteen faults, at most 2 | objects get their own item's tags only, an object claimed twice is left alone, a clean scan leaves exactly the tags it probed, a halt holds, its alarm stays |
| `deleted_items` | 5 items, 3 objects in 4 folders, pages of 2, bound one half, ten faults, at most 2 | only rows of gone items go, live folders are kept, rows outlive their tags, and the rows of deleted items go in the end |
| `config` | 1 typed and 2 outside secrets, 3 generated, 1 schedule, every schema revision around the newest, six faults, at most 2 | no secret from outside is saved, a restart changes nothing, a generated password can be read, sessions survive, the app comes up again |
| `clean_up` | 2 items in a batch of 2, four starts, four faults, at most 2, one change by others | the apply does what was shown, writes one item at a time, ends, and records what is there, through purges of the rows |
| `rules` | 25 frame sizes, sequences of up to 3 audio streams, up to 2 sidecars, hand-edited sections with a later change; 1 or 2 groups of up to 2 labels on 8 canvases and all corners; 6 looks, 2 forms, posters of 2 widths in 4 shades, 1 cached tile | tags and pills say what is in the file, settings settle and keep the colours chosen; badges are drawn in order or counted, nothing overlaps, and badges read as the settings said |

Two more runs check what a document or a docstring says and find it violated:

- `tag_sync_cancel`: a cancelled re-tag is taken for a complete one.
- `poster_race`: two first overlays at once stack badges and lose the original.

Each has a counterpart among the passing runs that says when the claim is true: `RetagIsDone` and
`BadgesNeverStack`. Where a property is guarded by a history (`left`, `struck`, `hooked`, `met`, `failed`,
`foreign`, `torn`, `hurt`, `steady`, `moved`, `touched`, `owed`), the guard names the one circumstance under
which the code breaks the unguarded claim.

Every property is also checked against a mutant: a definition marked *Mutant* in a module, the way the code
was before a fix, or might be by mistake, under which the property fails.

### Bounds

- *Two items* are enough for one to be processed and another not, for a batch that is full or partial and for
  a threshold that is exceeded; nothing in the tagging modules relates three. `DeletedItems` has five: one
  replaced in its folder, one with an object in each of two instances, one with two objects in one instance,
  one that takes a gone one's place and one that may come. Three are listed, so a page of two is followed by
  another.
- *Two objects* of `ArrSync`: an item and its rival, on one instance each, or two items on one.
- *Two versions* of a file and of the settings tell old from new. Two saves let settings change and change
  back.
- *Two or three faults* allow a failure and the failure of what repairs it, or a crash or cancel on top; two
  where the state space or liveness makes the run expensive.
- *One webhook* beside the scan in `TagSync` and `ArrSync`: interference is pairwise. Three workers on a
  poster, since a copy, a save and a look can each belong to another.
- *One change by others* in `CleanUp`, at any moment of a dry run and the applies that follow it; each step of
  an apply concerns one item, and two tell the one at work from the next.
- *Three generated secrets* in `Config`: a signing key, a password, and one more after either was lost.
- `rules`: a label has up to three badges, widths are chosen so that a label fits, is split, is trimmed and is
  wider than a row, and "+N" gets wider at 3, as it does at 10. The canvases have no row, or up to three, with
  or without room for two pills beside each other; the tags are at one end of a diagonal, with the rating in
  their corner, on their edge or on their side. That is for TLC; the proofs are for any. Frame sizes are on
  both sides of each class and of its tolerance. Three streams are one more than two languages, or three of
  one; codecs are ranked or one of two that are not; of the two colours of a section one has an old default,
  spelled in three ways. Posters 494 and 501 pixels wide round to the same font with different padding; shades
  97 and 105 are on either side of what counts as light. One cached tile lets a tile be found, replaced and
  lost. The looks are the shipped palette, its opacity floors of the documents and less, and dark text with
  colours that two categories share.
- `MaxVer`, `MaxCfg`, `MaxSaves`, `MaxGen`, `MaxEdits` and `MaxFaults` are guards of what the environment does
  and of generation; no other step of the program is cut off by a bound.
- No run uses symmetry: liveness is checked along with safety.

`CHECK_DEADLOCK` is on, since a scan, a pass or a worker can always be started again, but in two runs: in
`config` the process may end for good on a file it cannot parse or tables it does not know, and in `rules` an
item ends with its pills, a layout with its last group.

### Fairness

Only what the code and its scheduling give. In `ScanLock` a run ends: its loops are over finite lists and
every request has a timeout. In `TagSync` the cron job keeps starting incremental scans and a scan keeps
going; a mount that went away is put back by somebody. In `Poster` the scan keeps going; webhooks are never
fair. In `Reconcile` both need strong fairness: each job finds the lock taken now and then and skips that
time, and the assumption is that it does not do so for ever. In `DeletedItems` the pass goes on and another
one is started after a later scan. In `Config` the container is restarted until the app runs. `ArrSync` and
`CleanUp` state safety only. Faults, webhooks, people and manual rescans are never fair.

## 5. The proofs

All for any items, threads, tags and bounds that satisfy the modules' named assumptions. Nothing is assumed
beyond those.

**Scan_proofs**, of `ScanLock`. `TypeCorrect`, `CancelStaysInItsRun`, `MutualExclusion`,
`FlagImplementsMutex`. `OneRun`, the claim of `MutualExclusion`, is not inductive without the flag: `LockInv`
adds to it that the lock is held whenever a thread is in its run, and both only as long as no late clean-up
has released a foreign run. The refinement goes by the owner the mapping computes: each step acquires for one
thread, releases by the owner, or leaves it alone.

**Scan_proofs**, of `Tagging`. `TaggingTypeCorrect`; `TagsTell`, for any frames, streams, files, certificates
and preferences. `TagsTellTheFile` speaks of the end of four loops, and `TagInv` says of each how far it is.
`AudioInv`: of the streams seen, each language has a track, in order of appearance, with the first of its best
codecs. `SubInv`: each track is the language of a stream or of a file with the video's name, and each of those
has its track. `GroupInv`: of the tracks seen, each is told by a pill and each word of a pill is found in a
track, heads and languages in the order in which the tracks bring them; that a pill grown by a track still
says this is `GrownTells`. `LabelInv`: each pill ordered so far is a stable sorting of its group, and what is
shown a stable sorting of those. The properties follow at the end: the first language shown is the most
preferred that the file has, since its pill ranks no later than any other and it is first within it
(`PreferredFirst`); the tracks with a known language are as many as the known languages, by a bijection
(`KnownLanguages`); and `FrameClass` is arithmetic about the four classes. `TaggingAssumption` says what the
code sees to elsewhere: preferences are as `ImageSettings` leaves them, none twice and none unknown, and no
language or codec has the label of the "dual" or "multi" tag; that certificates are finitely many; and that
names are strings, which the provers do not know.

**Scan_proofs**, of `ImageSettings`. `ImageTypeCorrect`; `ImageSettles`, for any hand-written sections,
colours and defaults such that a colour once normalized stays as it is, and a code once in capitals too
(`ImageAssumption`). `ReadInv` says of the codes read so far that they are as badges spell them, and that
those of a section that is settled are what was read; `FileInv` that what is on disk leads to the colours
somebody wanted, whether it was written by hand or saved, and is what was saved once anything was.

**TagSync_proofs.** `TypeCorrect`; `AheadIsALostRetry`; `ScanIsNeverAhead`. The argument is the order "mtime,
then probe": `MtimeInv` says that an mtime in hand is at most the file's, `ProbeInv` that it is at most the
version probed, for all that is being written or recorded, `BatchInv` where that can be. So a row recorded
with the tags that were wanted is never ahead of them, and the one other way to record is the second round.
Without webhooks and undone writes `PendingInv` adds that what is pending carries what was written, so the
second round records the same. `UserTagsAreKept` follows the tags that a worker knows to have been on an item
ever since it started: they are still there (`KnownInv`), and in the copy it will send from the read of its
batch to the write (`HoldsInv`), since a write of another worker takes what it drops from both. It assumes
that this read does not fail: the listing that is left then may be stale.

The last part is the scan with no webhook beside it. `SkippedStaysTagged`, from `VersionInv`: a row's tags
were built from a version that is at most the one of the tags in Jellyfin, of the file, and of any probe in
flight. It holds under every fault but an undone write. `RowsAreLastWrites`, from `WrittenInv`: an item whose
tags differ from its row's is pending. `RetagIsNeverForgotten`, from `ScanInv` and `RowsInv`: in a scan of
other settings than the stored ones, every row of other settings is of an item it still has to write, or of a
file that has changed. The last two are stated until something fails, which `Unfailed` says of the state, so
they need no assumption on the faults.

**Overlay_proofs**, of `Poster`. `TypeCorrect`, `BackupIsSafe`, `OneLayerOfBadges`: `DrawInv` says who can be
where while there is no whole backup (`AloneUntilBackedUp`) and what every worker has opened (`PlacesInv`).
The properties speak of the images only and are not inductive without the workers' places.

**Overlay_proofs**, of `Layout`. `LayoutTypeCorrect`; `LayoutDrawnOrCounted`; `LayoutCodecKeepsLanguage`;
`LayoutNothingOverlaps`; all from `LayoutIsSound`, for any groups, canvas and corners and whatever a pill
measures, as long as that is at least one pixel. Canvases may be of any size; on one lower than its row the
rating is drawn all the same and sticks out, which `NothingOverlaps` excepts. The invariant says for the group
at work that its pills stand in reading order, on the rows as in the group (`Before`), so a row's last pill
has the last badge, and trimming keeps what is placed the first badges (`PlacedFirst`); that what is shown,
hidden and waiting adds up to the group (`FlowHolds`), and what is shown and counted when its last row is
closed (`CloseHolds`); and that the row fits its width once all counts have their pill, so that what is drawn
is what was measured. For the groups drawn, each count is exact and stands in one place (`Exact`), and their
pills are in bands that the groups below do not reach (`Stacked`) and beside the rating in the one band they
share with it (`PlacesHold`). `RowsHold` ties this to the canvas: rows given, rows to spare and one for each
group to come are the slots there are. Only the last step is about pixels: as many bands as the height was
divided into fit into it (`BandFits`), two bands are a pitch apart (`BandsApart`), and the rating's row was
taken off before.

**Reconcile_proofs.** `TypeCorrect`; `HaltIsObeyed`, from `HaltInv`: what is being written is among the
candidates that passed the threshold, and a subset of a finite set is no larger; `PassOnlyAdds`, from
`CopyInv`: what Jellyfin carries is within what was re-read, but for the items that a webhook's task, which no
lock keeps away, has tagged since; `StaleRowsAreSkipped`, from `ErrorsInv`: an item that fails has its error,
or a full scan that cleared the list is still going to reach it; `AlarmIsKept`, from `AlarmInv`: while an
alarm is owed, the stored report is the halted one or a cancelled pass's, and a pass that stands between its
report and the gauge was halted or cancelled itself.

**ArrSync_proofs.** `TypeCorrect`; `HaltHolds`; `OwnTags`; `AlarmHolds`. A worker that is halted has no object
at work, and one with an object at work has an item whose tags it adds and which owned the object in the copy
that was fetched (`before`); both hold through every step of every other worker, since a worker's record is
its own. `TitlesClaimedTwice` and `CleanScan` are about the scan alone. `IndexHolds` says what it relies on
whatever others do: an object it takes for an item's is still in that item's folder or gone, and what two
items claim is among its refusals. `CleanSoFar` adds, for every object nobody else changed, that it is as the
scan last read it (`AsRead`), or at work and as far as the phase says (`InProgress`), and exact for each item
the scan is done with; for the labels a plan needs, `LabelsExist` holds of all workers.

**DeletedItems_proofs.** `TypeCorrect`; `LiveRowsStay`, from `Unconfirmed`: nothing that is in `gone` was
there all through the pass, since its lookup had answered for a control; `LiveFoldersAreKept`, from `Apart`:
while the library stands still the listing is a part of it that ends up all of it (a subset of a finite set
with as many members), so an object planned for a strip was in no live folder when it was preloaded.
`RowsGoStripped`, from `Tracked`: an object carries tags of deleted items only if it did when it was planned,
is where it was then unless somebody moved it, and carries none once it is done. What the code promises is
then that the folder a row *leads to* is clean (`StrippedBeforeGone`), whatever the folders are; that no
object at all keeps the tags (`TagsGoFirst`, `RowsOutliveTags`) needs `OwnFolders`: the deepest folder of a
row is its item's own. It holds for rows of items with a poster of their own, "every such row in production"
as row_folders() says, and not in general: with an item in a subfolder of another's, whose row has the outer
folder first, TLC finds a row that goes before the tags in the inner one.

**CleanUp_proofs.** `TypeCorrect`; `OneIsLeft`; `CleanUpEnds`; `RowsAgree`; `AtMostOneUnsure`;
`ShownThenDone`; `PurgeIsNeutral`. Every plan is sound, whatever tags and row it was made of
(`PlansAreSound`); what is being written has the digest of what was shown and refuses nothing (`Approved`); an
item that nobody else changed is as it was read, and once the writes have begun as far as other people's tags
go (`CopiesHold`); only the item at work is unsure (`Alone`); and a row that was recorded says what is there
(`RecordsHold`). That the digest suffices is a lemma about counts: of two sets of tags with the same counts
but for case, taking away parts with the same counts leaves the same counts (`RestCountsAgree`).

**Config_proofs.** `TypeCorrect`; `NoSecretInFile`, from `Clean`: what is on disk has no secret from outside,
and what a save writes is stripped of them by the same rule that resolves them; `IndexIsWhole`, from
`IndexInv`: the transaction is one revision ahead of its stamp only between a revision and the row that says
so, so an index on disk has the tables of its stamp or no stamp; `PasswordCanBeRead`, from `InFile`;
`FileSaysWhatRuns`, from `InStep`, which says for each stage of the start what may differ between file and
memory; `SessionsStayGood`, from `Signed`.

Model-checked only: every liveness property (`LockIsReleased`, `Converges`, `TruncatedIsRedrawn`,
`LossIsRepaired`, `GoneRowsGo`, `ComesUpAgain`), fairness being out of the prover's reach, and
`BadgesReadAsTold`, which is about the numbers in a table. Every other property that a passing run checks is a
theorem.

## 6. What is not modelled

- In the pipeline: two items that share a file (the dict of probes is keyed by path), a commit that fails
  because a webhook inserted the same new row, and items that leave the library during a scan. The first is a
  hazard in `PROJECT.json` that no property covers.
- In the index: two processes that migrate it at once, and the SQL of the migrations.
- In the clean-up: the command line, and two clean-ups at once.
- In the layout and the looks: glyph shapes and what a font measures, JPEG, posters that are not flat under a
  badge, text whose luminance is between those of its fill over black and over white, and opacities under the
  slider's 10 %.
- In `Tagging` the tags for HDR and interlaced video are built, and no property says which they are.
- When a session expires; a purge of legacy tags from the page beside a scan.
- Pages, connection tests, origin checks, event streams, log rotation: no state that a property here is about.
- The scripts under `src/scripts`: read-only tools run by hand.
- ffprobe, Jellyfin, the *arrs and the file system are modelled by what the code in `src/app` can observe of
  them.

## 7. What the models show beside the findings

Each of these is a behaviour of a model that no property forbids, or the reason why one is stated with its
guard. Line numbers are of `src/`.

Tagging and posters:

- With a webhook's task and a scan on the same item, the row may differ from what Jellyfin carries even when
  nothing fails: each reads back its own write before the other's. `RowIsLastWrite` is checked for scans
  alone.
- A write that fails during a re-tag is not retried by the next incremental scan: the old row has the file's
  mtime and the new hash is stored (README.md:59, app/pipeline.py:370 and 806). `RetagIsDone` is stated up to
  a failure.
- A crash or an error in the middle of the first copy leaves a partial backup, which blocks every later
  overlay of that poster. The original is still served.
- A save that fails leaves a truncated poster that is recorded as drawn.

Reconciliation:

- A full scan clears the scan errors first; when it is then cancelled, the next pass takes a stale row for a
  sound one and writes its tags (README.md:60, app/pipeline.py:710).
- A pass halts, the next is cancelled and stores its report, the process restarts: the alarm is off although
  no pass has run to its end (app/metrics.py:67, 74 and 297).
- `store_report()` swallows the error of a file it cannot write (app/reconcile.py:193). The alarm of a halt
  whose report was not stored is up until the next restart, which drops it; and a halted report that a later
  calm pass could not replace raises the alarm again at a restart, though that pass was in order. `AlarmStays`
  speaks of a halt that its report tells (`owed`).
- When `finish_scan_run()` raises (app/reconcile.py:350), the report is stored and the gauge stays where it
  was until a restart or another pass.
- A pass that races a webhook's task may take managed tags away that the task has just written; `OnlyAddsBack`
  excepts the items that one tagged since the re-read (`hooked`).
- A file that was out of reach and is back unchanged keeps its scan error, as incremental scans skip it: the
  pass leaves it out, and does not restore its tags, until a full scan or a cleared list (app/pipeline.py:795
  and 964). `LossIsRepaired` counts the error as what shows.

*arr sync:

- The alarm of a webhook's halt, or of one followed by a dry run or a cancelled scan, is lost at a restart:
  the stored report says nothing of it (README.md:523).
- A webhook's task sees one item and writes an object that two items claim, which every scan refuses.
- An incremental scan after a halt clears the alarm without coming back to the items whose objects were not
  written: their rows are up to date (ROADMAP.md:2555).

Deleted items:

- When an item is removed and another added between two pages, the counts agree and the listing misses an
  item. Its own row is safe, since its lookup answers; but its folder is not among the live ones, so the
  object of a gone item in the same folder is stripped (README.md:237). `LiveFolderKept` is stated for a
  library that stands still.
- An object that was moved in the *arr before the preload is found by no row: the row goes and the tags stay
  (README.md:240). `RowsOutliveTags` excepts moved objects.
- A title that is downloaded again, and tagged by a webhook between listing and strip, loses its fresh tags
  until a scan writes them again.

Configuration:

- A crash between the creation of the first-run password file and its writing leaves it empty; from then on no
  start generates a password and nobody can log in until it is deleted.
- `change_password()` changes the running configuration before a write that may fail: the new password works
  until the next start.
- A file that was truncated to nothing loads as the defaults.
- An unknown `image.badge_size` stops the start, while an unknown corner or colour gives way to its default
  (app/config.py:188 and 213).
- A file saved by the raw editor without `badge_palette_version` is migrated anew at each load.

Scanner, tags, pills:

- A sidecar belongs to every video whose name its own begins with: "Film 2.en.srt" is also one of "Film". A
  part shaped like a code before the language hides it.

Badges:

- `_flow_rows()` says that a label is "never split after its head alone once a row has other pills on it"
  (app/overlay.py:378). On the last row it is: the guard (line 412) is only asked where there is another row
  (line 410). `CodecKeepsLanguage`, which leaves that row out, is proved (`LayoutCodecKeepsLanguage`).
- The rating is drawn on canvases that are lower than its row (app/overlay.py:649), and sticks out of the
  margin there.
- Between the look for a tile and its fetch (app/overlay.py:127 and 128) a save may empty the cache: a
  `KeyError`. The poster stays undrawn and its row is recorded all the same (app/pipeline.py:544).

Clean-up:

- The digest is compared once, before the first write, and each write posts the item as it was read: what a
  person, a webhook or a scan that started since wrote to an item whose turn had not come is lost
  (app/reconcile_cleanup.py:31). `ShownIsDone` excepts items that somebody changed.
- The apply sees a scan only by its unfinished row (app/reconcile_cleanup.py:222): the row of a run that died
  blocks it for six hours, and a scan that starts right after the check is not seen. No property depends on
  the check; what the clean-up promises has to hold beside such a scan.
