------------------------------- MODULE Config -------------------------------
(***************************************************************************)
(* config.yml and the process that owns it: the start (main.lifespan: load, *)
(* index migration, first-run bootstrap, cron jobs), the saves of Settings,  *)
(* of the raw editor and of a password change, and the secrets that come     *)
(* from outside the file.  The file is rewritten in place; the process may   *)
(* die, and the disk may fill, anywhere.                                     *)
(*                                                                           *)
(* Data.  Secrets, keys and passwords are numbers, 0 when blank; a password  *)
(* hash is the password it verifies.  One environment-managed field          *)
(* (auth.secret_key) and one *arr row with an optional api_key_file stand    *)
(* for all of them; scan.schedule stands for the plain settings.             *)
(***************************************************************************)
EXTENDS Integers, FiniteSets

CONSTANTS
  Typed,     \* keys and passwords that the operator types
  Outside,   \* secrets in the files an outside pipeline renders
  Schedules, \* scan.schedule, other than ""
  MaxGen,    \* bound: how many secrets and passwords are generated
  Head,      \* the newest schema revision
  Faults, MaxFaults

ASSUME ConstantsAssumption ==
  /\ Typed \subseteq Nat /\ Outside \subseteq Nat /\ Outside \cap Typed = {}
  /\ MaxGen \in Nat /\ MaxFaults \in Nat /\ Head \in Nat \ {0}
  /\ \A n \in 0..MaxGen : n \notin Typed \cup Outside

VARIABLES
  disk,     \* {config.yml's content}, or {} when it does not parse
  live,     \* the running configuration
  env,      \* environment and secret files: `managed` says secret_key has one
  pwfile,   \* the first-run password file: 0 none, -1 without a password
  schema,   \* state.db: what its tables are, and the revision it is stamped with
  tx,       \* the same, as the migration's transaction sees it
  jobs,     \* the schedule that the cron job runs on
  pc,       \* how far the process has come
  gen,      \* how many secrets and passwords were generated
  tokens,   \* the sessions signed in
  torn,     \* history: the last write of config.yml was cut short
  hurt,     \* history: auth settings were lost, or changed from outside
  left      \* faults left

vars == <<disk, live, env, pwfile, schema, tx, jobs, pc, gen, tokens, torn, hurt, left>>

Gen == 1..MaxGen
Configs == [hash : {0} \cup Gen \cup Typed, secret : {0} \cup Gen \cup Outside \cup Typed,
            file : BOOLEAN, key : {0} \cup Outside \cup Typed, job : Schedules \cup {""}]

\* `tables`: the revision that builds them, 0 none, Head + 1 a newer image's, -1
\* anything else; `stamp`: alembic_version, 0 when it has no row.
Databases == [tables : -1..Head + 1, stamp : 0..Head + 1]
Baseline == 1

Default == [hash |-> 0, secret |-> 0, file |-> FALSE, key |-> 0, job |-> ""]

TypeOK ==
  /\ disk = {} \/ \E c \in Configs : disk = {c}
  /\ live \in Configs
  /\ env \in [managed : BOOLEAN, secret : Outside \cup {0}, key : Outside \cup {0}]
  /\ pwfile \in Gen \cup {-1, 0}
  /\ schema \in Databases /\ tx \in Databases
  /\ jobs \in Schedules \cup {""}
  /\ pc \in {"down", "index", "migrate", "version", "boot", "hash", "save", "up"}
  /\ gen \in 0..MaxGen
  /\ tokens \subseteq (({0} \cup Gen \cup Outside \cup Typed) \X (Gen \cup Typed))
  /\ torn \in BOOLEAN /\ hurt \in BOOLEAN /\ left \in 0..MaxFaults

Init ==
  /\ disk = {Default} /\ live = Default
  /\ \E m \in BOOLEAN, s \in Outside : env = [managed |-> m, secret |-> s, key |-> s]
  /\ schema \in {d \in Databases : d.stamp = 0 \/ d.stamp = d.tables} /\ tx = schema
  /\ pwfile = 0 /\ jobs = "" /\ pc = "down"
  /\ gen = 0 /\ tokens = {} /\ torn = FALSE /\ hurt = FALSE /\ left = MaxFaults

Fault(f) == f \in Faults /\ left > 0 /\ left' = left - 1

-----------------------------------------------------------------------------
(* Secrets from outside *)

\* _read_env_value, _apply_arr_key_files: a file named and not readable is fatal.
Readable(c) == (env.managed => env.secret # 0) /\ (c.file => env.key # 0)

\* _apply_external_secrets()
Resolved(c) ==
  [c EXCEPT !.secret = IF env.managed THEN env.secret ELSE @,
            !.key = IF c.file THEN env.key ELSE @]

\* _drop_file_backed_keys()
WithoutFileKeys(c) == [c EXCEPT !.key = IF c.file THEN 0 ELSE @]

\* Mutant: the key of a row with a key file is written back.
PersistableEnvOnly(c) == [c EXCEPT !.secret = IF env.managed THEN 0 ELSE @]

\* Mutant: the signing key is dropped though the environment does not supply it.
PersistableNoAuth(c) == WithoutFileKeys([c EXCEPT !.secret = 0])

\* _persistable(): without what the environment or a key file supplies.
Persistable(c) ==
  WithoutFileKeys([c EXCEPT !.secret = IF env.managed THEN 0 ELSE @])

\* What save_config() writes: the text as it is, unless it has a secret of its
\* own where the environment or a key file supplies one.
RawText(text) ==
  IF (env.managed /\ text.secret # 0) \/ (text.file /\ text.key # 0)
  THEN Persistable(Resolved(text)) ELSE text

\* config_as_dict_safe(): what the Settings page gets, and sends back.
Shown(c) ==
  [c EXCEPT !.hash = 0, !.secret = 0, !.key = IF c.file THEN 0 ELSE @]

-----------------------------------------------------------------------------
(* Writing the file *)

\* _write(), whole.
Write(c) == disk' = {c} /\ torn' = FALSE /\ UNCHANGED hurt

\* _write(), cut short by a full disk or a crash: the old text, none of the new,
\* the beginning of it (auth comes before scan and sonarr), or no YAML at all.
WriteCutShort(c) ==
  /\ Fault("write")
  /\ disk' \in {disk, {Default}, {[Default EXCEPT !.hash = c.hash, !.secret = c.secret]}, {}}
  /\ torn' = TRUE /\ hurt' = TRUE

\* The schedule the job runs on after start() or reschedule(): _add() takes the old
\* job away and adds the new one unless the schedule is blank.
Armed(c) == c.job

-----------------------------------------------------------------------------
(* The start *)

\* load_config(); an unreadable file or secret ends the process.
Load ==
  /\ pc = "down"
  /\ \E c \in disk : Readable(c) /\ live' = Resolved(c)
  /\ pc' = "index" /\ torn' = FALSE
  /\ UNCHANGED <<disk, env, pwfile, schema, tx, jobs, gen, tokens, hurt, left>>

\* upgrade_to_head() opens its transaction, BEGIN IMMEDIATE, and reads the index under it.
BeginUpgrade ==
  /\ pc = "index"
  /\ tx' = schema
  /\ pc' = "migrate"
  /\ UNCHANGED <<disk, live, env, pwfile, schema, jobs, gen, tokens, torn, hurt, left>>

\* Tables without a stamp that are not the baseline: nothing is stamped, and the
\* process ends.
Refuse ==
  /\ pc = "migrate" /\ tx.stamp = 0 /\ tx.tables \notin {0, Baseline}
  /\ pc' = "down"
  /\ UNCHANGED <<disk, live, env, pwfile, schema, tx, jobs, gen, tokens, torn, hurt, left>>

\* An index built before there were revisions.
StampBaseline ==
  /\ pc = "migrate" /\ tx.stamp = 0 /\ tx.tables = Baseline
  /\ tx' = [tx EXCEPT !.stamp = Baseline]
  /\ UNCHANGED <<disk, live, env, pwfile, schema, jobs, pc, gen, tokens, torn, hurt, left>>

\* upgrade(): the next revision's DDL.  It fails on tables that are not those of
\* the revision before it: they exist already, or lack a table to alter.
RunRevision ==
  /\ pc = "migrate" /\ tx.stamp < Head /\ (tx.stamp # 0 \/ tx.tables = 0)
  /\ IF tx.tables = tx.stamp
       THEN tx' = [tx EXCEPT !.tables = @ + 1] /\ pc' = "version"
       ELSE UNCHANGED tx /\ pc' = "down"
  /\ UNCHANGED <<disk, live, env, pwfile, schema, jobs, gen, tokens, torn, hurt, left>>

\* ... and the row that says so.
StampRevision ==
  /\ pc = "version"
  /\ tx' = [tx EXCEPT !.stamp = tx.tables]
  /\ pc' = "migrate"
  /\ UNCHANGED <<disk, live, env, pwfile, schema, jobs, gen, tokens, torn, hurt, left>>

\* The transaction commits at the newest revision, or at one of a newer image,
\* which is left as it is.
CommitUpgrade ==
  /\ pc = "migrate" /\ tx.stamp >= Head
  /\ schema' = tx
  /\ pc' = "boot"
  /\ UNCHANGED <<disk, live, env, pwfile, tx, jobs, gen, tokens, torn, hurt, left>>

InitDb == BeginUpgrade \/ Refuse \/ StampBaseline \/ RunRevision \/ StampRevision \/ CommitUpgrade

\* Mutant: the password generated is used though the file was there already.
FirstRunGenerating == IF pwfile = 0 THEN {<<gen', gen'>>} ELSE {<<gen', pwfile>>}

\* _first_run_password(): <<the password, the file after>>; an existing file is
\* adopted, and one without a password gives none.
FirstRun ==
  IF pwfile = 0 THEN {<<gen', gen'>>} ELSE {<<IF pwfile = -1 THEN 0 ELSE pwfile, pwfile>>}

\* bootstrap(): the signing secret.
BootSecret ==
  /\ pc = "boot"
  /\ IF live.secret = 0 THEN gen < MaxGen /\ gen' = gen + 1 ELSE UNCHANGED gen
  /\ live' = IF live.secret = 0 THEN [live EXCEPT !.secret = gen'] ELSE live
  /\ pc' = IF live.hash = 0 THEN "hash" ELSE IF live.secret = 0 THEN "save" ELSE "up"
  /\ jobs' = IF pc' = "up" THEN Armed(live) ELSE jobs
  /\ UNCHANGED <<disk, env, pwfile, schema, tx, tokens, torn, hurt, left>>

\* bootstrap(): the admin's password, from XENOTAG_PASSWORD or the first-run file.
\* Without one nobody can log in, and a generated secret alone is saved.  A crash
\* between the creation of the file and its writing leaves it empty.
BootPassword ==
  /\ pc = "hash"
  /\ \/ /\ gen < MaxGen /\ gen' = gen + 1 /\ UNCHANGED left
        /\ \E first \in FirstRun : live' = [live EXCEPT !.hash = first[1]] /\ pwfile' = first[2]
     \/ Fault("pwfile") /\ pwfile = 0 /\ UNCHANGED <<live, pwfile, gen>>
     \/ /\ Fault("envpassword") /\ \E p \in Typed : live' = [live EXCEPT !.hash = p]
        /\ UNCHANGED <<pwfile, gen>>
  /\ pc' = IF live'.hash # 0 \/ (~env.managed /\ \E c \in disk : c.secret = 0) THEN "save" ELSE "up"
  /\ jobs' = IF pc' = "up" THEN Armed(live) ELSE jobs
  /\ UNCHANGED <<disk, env, schema, tx, tokens, torn, hurt>>

CrashInFirstRun ==
  /\ pc = "hash" /\ pwfile = 0 /\ Fault("crash")
  /\ pwfile' = -1 /\ pc' = "down"
  /\ UNCHANGED <<disk, live, env, schema, tx, jobs, gen, tokens, torn, hurt>>

\* save_auth() and scheduler.start(); a failed write ends the process.
BootSave ==
  /\ pc = "save"
  /\ \/ Write(Persistable(live)) /\ pc' = "up" /\ jobs' = Armed(live) /\ UNCHANGED left
     \/ WriteCutShort(Persistable(live)) /\ pc' = "down" /\ UNCHANGED jobs
  /\ UNCHANGED <<live, env, pwfile, schema, tx, gen, tokens>>

-----------------------------------------------------------------------------
(* Requests *)

\* create_session(): what a session is signed with.  When it expires is left out.
Session(c) == <<c.secret, c.hash>>

\* get_session_user(): a session is good if it would be signed the same now.
Accepts(token) == token = Session(live)

\* login() with the admin's password.
Login ==
  /\ pc = "up" /\ live.hash # 0
  /\ tokens' = tokens \cup {Session(live)}
  /\ UNCHANGED <<disk, live, env, pwfile, schema, tx, jobs, pc, gen, torn, hurt, left>>

\* A save: `text` goes to the file, `new` runs, and the jobs are re-armed.  A
\* secret that cannot be read refuses it; a failed write leaves `live` alone.
\* `auth`: the save may change the auth section.
Save(text, new, auth) ==
  /\ pc = "up" /\ UNCHANGED <<env, pwfile, schema, tx, gen, tokens>>
  /\ \/ /\ disk' = {text} /\ torn' = FALSE /\ UNCHANGED left
        /\ hurt' = (hurt \/ (auth /\ <<new.secret, new.hash>> # <<live.secret, live.hash>>))
        /\ live' = new /\ jobs' = Armed(new) /\ UNCHANGED pc
     \/ WriteCutShort(text) /\ UNCHANGED <<live, jobs>> /\ pc' \in {"up", "down"}

\* Mutant: the signing key is not restored.
RestoredHashOnly(form) == [form EXCEPT !.hash = live.hash]

\* What save_settings() validates: the form, with the auth it is never sent.
Restored(form) == [form EXCEPT !.hash = live.hash, !.secret = live.secret]

\* save_settings(): the schedule and the row may be edited.
SaveSettings ==
  \E job \in Schedules \cup {""}, file \in BOOLEAN, key \in Typed \cup {Shown(live).key} :
    LET form == [Shown(live) EXCEPT !.job = job, !.file = file, !.key = IF file THEN 0 ELSE key]
        new == Resolved(Restored(form))
    IN Readable(form) /\ Save(Persistable(new), new, FALSE)

\* save_config_yaml(): the file's text without secrets from outside, edited; the
\* auth section may go, and secrets may be typed.
SaveRaw ==
  \E old \in disk, secret \in Typed \cup {0, live.secret}, key \in Typed \cup {0},
     job \in Schedules \cup {""}, file \in BOOLEAN :
    LET seen == Persistable(old)
        text == [seen EXCEPT !.job = job, !.file = file, !.key = key, !.secret = secret,
                             !.hash = IF secret = 0 /\ ~env.managed THEN 0 ELSE @]
    IN /\ Readable(text) /\ secret \notin Outside
       /\ Save(RawText(text), Resolved(text), TRUE)

\* change_password(): the running configuration changes before the file is
\* written, and the first-run file goes last.
ChangePassword(p) ==
  /\ pc = "up" /\ live.hash # 0
  /\ live' = [live EXCEPT !.hash = p]
  /\ \/ Write(Persistable(live')) /\ pwfile' = 0 /\ UNCHANGED <<pc, left>>
     \/ Write(Persistable(live')) /\ Fault("crash") /\ UNCHANGED pwfile /\ pc' = "down"
     \/ WriteCutShort(Persistable(live')) /\ UNCHANGED pwfile /\ pc' \in {"up", "down"}
  /\ tokens' = {}
  /\ UNCHANGED <<env, schema, tx, jobs, gen>>

-----------------------------------------------------------------------------
(* The world *)

\* Mutant: the migration's steps are committed one by one (before I3's one
\* transaction: the driver runs DDL outside any).
CrashKeepingSteps ==
  /\ pc # "down" /\ Fault("crash") /\ pc' = "down"
  /\ schema' = IF pc \in {"migrate", "version"} THEN tx ELSE schema
  /\ UNCHANGED <<disk, live, env, pwfile, tx, jobs, gen, tokens, torn, hurt>>

\* The process dies, or the container is replaced; an open transaction rolls back.
Crash ==
  /\ pc # "down" /\ Fault("crash") /\ pc' = "down"
  /\ UNCHANGED <<disk, live, env, pwfile, schema, tx, jobs, gen, tokens, torn, hurt>>

\* The pipeline renders the secret files anew, or fails to; the environment
\* itself changes only with the process.
Rotate ==
  /\ Fault("rotate")
  /\ \E e \in [managed : BOOLEAN, secret : Outside \cup {0}, key : Outside \cup {0}] :
       env' = e /\ e # env /\ (pc # "down" => e.managed = env.managed)
  /\ hurt' = TRUE
  /\ UNCHANGED <<disk, live, pwfile, schema, tx, jobs, pc, gen, tokens, torn>>

\* The operator blanks the hash in config.yml by hand.
BlankByHand ==
  /\ pc = "down" /\ Fault("blank")
  /\ disk' = {[c EXCEPT !.hash = 0] : c \in disk} /\ hurt' = TRUE
  /\ UNCHANGED <<live, env, pwfile, schema, tx, jobs, pc, gen, tokens, torn>>

-----------------------------------------------------------------------------
StartUp == Load \/ InitDb \/ BootSecret \/ BootPassword \/ BootSave

Next ==
  \/ StartUp \/ Login \/ SaveSettings \/ SaveRaw \/ Crash \/ CrashInFirstRun \/ Rotate \/ BlankByHand
  \/ \E p \in Typed : ChangePassword(p)

Spec == Init /\ [][Next]_vars

\* The container is restarted until it runs.
FairSpec == Spec /\ WF_vars(StartUp)

-----------------------------------------------------------------------------
(* Properties *)

\* No secret from outside ever reaches config.yml: not by a save of the form, of
\* the raw text or of a password, with whatever comes and goes in the meantime
\* (_persistable, save_config).
SecretsStayOut == \A c \in disk : {c.secret, c.key} \cap Outside = {}

\* Unless a write was cut short, a restart changes nothing but the secrets that
\* were rotated outside: the file says what runs, and the cron job is armed with
\* it (save_config, save_auth, _reschedule).
RestartChangesNothing ==
  pc = "up" /\ ~torn =>
    \E c \in disk : /\ jobs = live.job /\ c.job = live.job
                    /\ c.hash = live.hash /\ c.file = live.file
                    /\ (~env.managed => c.secret = live.secret)
                    /\ (~c.file => c.key = live.key)

\* A generated password that is in force can be read from its file, whatever
\* step of the first run was the last before a crash (_first_run_password).
GeneratedIsInFile == pc = "up" /\ live.hash \in Gen => pwfile = live.hash

\* A session stays good over restarts and saves, until the password is changed
\* or the auth settings are lost or changed from outside (create_session).
SessionsSurvive ==
  pc = "up" /\ ~hurt => \A t \in tokens : Accepts(t)

\* What only the operator can repair.
Stuck ==
  \/ disk = {} \/ \E c \in disk : ~Readable(c)
  \/ schema.stamp = 0 /\ schema.tables \notin {0, Baseline}
  \/ gen = MaxGen

\* Whatever step a crash or a full disk cut short, the app comes up again.
ComesUpAgain == <>[](pc = "up" \/ Stuck)
=============================================================================
