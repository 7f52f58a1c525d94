---------------------------- MODULE ConfigFiles ----------------------------
(***************************************************************************)
(* The configuration files (sm_config_file.c) and the settings in memory   *)
(* (sm_config_mount.c): the crash-safe migration from the three legacy     *)
(* files to config.ini and profiles.ini of version 2, then loading, saving *)
(* and reloading while the program runs.                                   *)
(*                                                                         *)
(* A file is its version (0: absent or empty) and the values it holds;     *)
(* value 0 is one the validator rejects.  sm_ini_write replaces a file by  *)
(* a synced temporary and syncs the directory: one step, or no change.     *)
(* The user edits legacy files only while the program is down (the old     *)
(* instance is stopped before migration), version-2 files at any time.     *)
(***************************************************************************)
EXTENDS Naturals, FiniteSets

CONSTANTS Values,       \* contents the user writes; 0 is invalid
          MaxEdits,     \* bound on user edits and saves
          MaxCrashes

VARIABLES disk,        \* file name -> [v, data]
          stamp,       \* [main, prof]: change counters of the live files
          mig,         \* the migration: where it is, what it read
          conf,        \* settings in memory: [main, prof, seen, read, up]
          fresh,       \* what was last written to each legacy file name
          meddled,     \* the user changed a file after the backup was ready
          budget       \* [edits, crashes]

confVars == <<disk, stamp, mig, conf, fresh, meddled, budget>>

Legacy == {"config", "autotune", "smb"}
File(v, d) == [v |-> v, data |-> d]
Nothing == File(0, {})
Missing == 99
Old(f, x) == IF x = Missing THEN Nothing ELSE File(1, {<<f, x>>})
Backup(f) == IF f = "config" THEN "b.config"
             ELSE IF f = "autotune" THEN "b.autotune" ELSE "b.smb"
Names == Legacy \cup {Backup(f) : f \in Legacy} \cup {"profiles", "ready"}
NoMigration == [at |-> "down"]

same_file(f, g) == disk[f] = disk[g]
SourcesMatchBackups == \A f \in Legacy : same_file(f, Backup(f))

\* The settings the importer takes from the backups; profiles come from the
\* legacy rules and the autotune file, the rest goes to the main file.
import_rules == File(2, disk["b.config"].data \cup disk["b.autotune"].data)
ImportedMain == File(2, disk["b.config"].data \cup disk["b.smb"].data)

\* A legacy value 0, in any backup, makes import or validation fail.
ValidData(file) == \A p \in file.data : p[2] # 0
validate_documents == \A f \in Legacy : ValidData(disk[Backup(f)])
parse_runtime_config_state ==
  /\ disk["config"].v = 2 /\ ValidData(disk["config"])
  /\ disk["profiles"].v \in {0, 2} /\ ValidData(disk["profiles"])

Goto(at) == mig' = [mig EXCEPT !.at = at]
sm_ini_write(f, content) == disk' = [disk EXCEPT ![f] = content]
Refuse == Goto("refused") /\ UNCHANGED disk

----------------------------------------------------------------------------
(* sm_config_migrate_files, one durable effect at a time. *)

migUnchanged == UNCHANGED <<conf, fresh, meddled, budget>>
NoStamp == UNCHANGED stamp

Versioned ==
  /\ mig.at = "start" /\ disk["config"].v >= 2
  /\ IF parse_runtime_config_state
     THEN /\ Goto(IF disk["ready"] = Nothing THEN "done" ELSE "retire")
          /\ IF disk["profiles"].v = 0
             THEN /\ sm_ini_write("profiles", File(2, {}))
                  /\ stamp' = [stamp EXCEPT !.prof = @ + 1]
             ELSE UNCHANGED <<disk, stamp>>
     ELSE Goto("invalid") /\ UNCHANGED <<disk, stamp>>
  /\ migUnchanged

RefusesOldBackups ==
  /\ mig.at = "start" /\ disk["config"].v < 2
  /\ IF disk["ready"] = Nothing
     THEN IF disk["profiles"].v # 0 \/ disk["b.config"] # Nothing THEN Refuse
          ELSE Goto("copy config") /\ UNCHANGED disk
     ELSE IF SourcesMatchBackups THEN Goto("derive") /\ UNCHANGED disk ELSE Refuse
  /\ NoStamp /\ migUnchanged

BeginImport ==
  /\ mig.at = "start" /\ disk["config"].v < 2
  /\ IF disk["ready"] = Nothing
     THEN IF disk["profiles"].v # 0 THEN Refuse
          ELSE Goto("copy config") /\ UNCHANGED disk
     ELSE IF SourcesMatchBackups THEN Goto("derive") /\ UNCHANGED disk ELSE Refuse
  /\ NoStamp /\ migUnchanged

copy_backup(f, at, next) ==
  /\ mig.at = at
  /\ sm_ini_write(Backup(f), disk[f]) /\ Goto(next)
  /\ NoStamp /\ migUnchanged

CopyBackups ==
  \/ copy_backup("config", "copy config", "copy autotune")
  \/ copy_backup("autotune", "copy autotune", "copy smb")
  \/ copy_backup("smb", "copy smb", "derive")

Derive ==
  /\ mig.at = "derive"
  /\ IF ~validate_documents THEN Goto("invalid") /\ UNCHANGED disk
     ELSE IF ~SourcesMatchBackups THEN Refuse
     ELSE Goto("mark") /\ UNCHANGED disk
  /\ NoStamp /\ migUnchanged

WriteReady ==
  /\ mig.at = "mark"
  /\ sm_ini_write("ready", File(2, {})) /\ Goto("publish")
  /\ NoStamp /\ migUnchanged

\* profiles-v2.ini, the candidate, is only compared with profiles.ini.
PublishProfiles ==
  /\ mig.at = "publish"
  /\ IF disk["profiles"].v # 0 /\ disk["profiles"] # import_rules
     THEN Refuse /\ NoStamp
     ELSE /\ sm_ini_write("profiles", import_rules) /\ Goto("commit")
          /\ stamp' = [stamp EXCEPT !.prof = @ + 1]
  /\ migUnchanged

CommitMain ==
  /\ mig.at = "commit"
  /\ sm_ini_write("config", ImportedMain) /\ Goto("retire")
  /\ stamp' = [stamp EXCEPT !.main = @ + 1]
  /\ migUnchanged

\* The legacy autotune and SMB files go once their backups are known equal.
Retire ==
  /\ mig.at = "retire"
  /\ LET gone(f) == disk[f] # Nothing /\ same_file(f, Backup(f))
     IN IF gone("autotune") THEN sm_ini_write("autotune", Nothing) /\ UNCHANGED mig
        ELSE IF gone("smb") THEN sm_ini_write("smb", Nothing) /\ UNCHANGED mig
        ELSE Goto("done") /\ UNCHANGED disk
  /\ NoStamp /\ migUnchanged

WriteFails ==
  /\ mig.at \in {"copy config", "copy autotune", "copy smb", "mark", "publish", "commit"}
  /\ budget.crashes < MaxCrashes
  /\ budget' = [budget EXCEPT !.crashes = @ + 1]
  /\ Goto("io error")
  /\ UNCHANGED <<disk, stamp, conf, fresh, meddled>>

----------------------------------------------------------------------------
(* The settings in memory.  g_config_file_mutex is held by load, by each   *)
(* save and by reload; the user's editor takes no lock.                    *)

load_runtime_config ==
  /\ mig.at = "done" /\ conf.up = "no"
  /\ IF parse_runtime_config_state
     THEN conf' = [main |-> disk["config"], prof |-> disk["profiles"],
                   seen |-> stamp, read |-> stamp, up |-> "yes"]
     ELSE UNCHANGED conf
  /\ mig' = IF conf'.up = "yes" THEN mig ELSE [mig EXCEPT !.at = "invalid"]
  /\ UNCHANGED <<disk, stamp, fresh, meddled, budget>>

ReadStamps ==
  /\ conf.up = "yes" /\ stamp # conf.seen
  /\ conf' = [conf EXCEPT !.read = stamp, !.up = "reloading"]
  /\ UNCHANGED <<disk, stamp, mig, fresh, meddled, budget>>

reload_runtime_config_if_changed ==
  /\ conf.up = "reloading"
  /\ conf' = IF parse_runtime_config_state
             THEN [conf EXCEPT !.main = disk["config"], !.prof = disk["profiles"],
                               !.seen = conf.read, !.up = "yes"]
             ELSE [conf EXCEPT !.up = "yes"]
  /\ UNCHANGED <<disk, stamp, mig, fresh, meddled, budget>>

\* One key of a document is set, or removed (Missing).
sm_ini_set(file, key, x) ==
  File(2, {p \in file.data : p[1] # key}
          \cup (IF x = Missing THEN {} ELSE {<<key, x>>}))

\* A save rereads both documents, validates the result, writes one of them
\* and publishes the profiles; the main file waits for the scanner's reload
\* (the SMB list, published at once, is not told apart here).
save_document(f, key, x) ==
  /\ conf.up = "yes" /\ budget.edits < MaxEdits
  /\ parse_runtime_config_state
  /\ sm_ini_write(f, sm_ini_set(disk[f], key, x))
  /\ IF f = "profiles"
     THEN /\ stamp' = [stamp EXCEPT !.prof = @ + 1]
          /\ conf' = [conf EXCEPT !.prof = sm_ini_set(disk[f], key, x)]
          /\ UNCHANGED fresh
     ELSE /\ stamp' = [stamp EXCEPT !.main = @ + 1]
          /\ fresh' = [fresh EXCEPT ![f] = sm_ini_set(disk[f], key, x)]
          /\ UNCHANGED conf
  /\ budget' = [budget EXCEPT !.edits = @ + 1]
  /\ UNCHANGED <<mig, meddled>>

\* The default policy of a title is the absence of its key.
write_title_fakelib_policy(x) == save_document("profiles", "game", x)
upsert_image_sector_size_autotune(x) ==
  x # Missing /\ save_document("profiles", "autotune", x)
\* A connection can only be removed when it is there.
sm_config_smb_update(x) ==
  /\ x = Missing => \E p \in disk["config"].data : p[1] = "smb"
  /\ save_document("config", "smb", x)
sm_config_write_web_settings(x) ==
  x # Missing /\ save_document("config", "config", x)

----------------------------------------------------------------------------
(* The user and the machine. *)

UserEditsLegacy(f, x) ==
  /\ mig.at = "down" /\ budget.edits < MaxEdits
  /\ sm_ini_write(f, Old(f, x))
  /\ fresh' = [fresh EXCEPT ![f] = Old(f, x)]
  /\ meddled' = (meddled \/ disk["ready"] # Nothing \/ disk["profiles"] # Nothing)
  /\ stamp' = IF f = "config" THEN [stamp EXCEPT !.main = @ + 1] ELSE stamp
  /\ budget' = [budget EXCEPT !.edits = @ + 1]
  /\ UNCHANGED <<mig, conf>>

UserEditsLive(f, x) ==
  /\ conf.up \in {"yes", "reloading"} /\ budget.edits < MaxEdits
  /\ sm_ini_write(f, File(2, {<<"live", x>>}))
  /\ fresh' = IF f = "config" THEN [fresh EXCEPT ![f] = disk'[f]] ELSE fresh
  /\ stamp' = IF f = "config" THEN [stamp EXCEPT !.main = @ + 1]
              ELSE [stamp EXCEPT !.prof = @ + 1]
  /\ budget' = [budget EXCEPT !.edits = @ + 1]
  /\ UNCHANGED <<mig, conf, meddled>>

Start ==
  /\ mig.at = "down" /\ Goto("start")
  /\ UNCHANGED <<disk, stamp, conf, fresh, meddled, budget>>

\* A failed start exits; a running program may die anywhere.
Stop ==
  /\ mig.at # "down"
  /\ \/ mig.at \in {"refused", "invalid", "io error"} /\ UNCHANGED budget
     \/ /\ mig.at \notin {"refused", "invalid", "io error"}
        /\ budget.crashes < MaxCrashes
        /\ budget' = [budget EXCEPT !.crashes = @ + 1]
  /\ mig' = NoMigration
  /\ conf' = [main |-> Nothing, prof |-> Nothing, seen |-> stamp, read |-> stamp, up |-> "no"]
  /\ UNCHANGED <<disk, stamp, fresh, meddled>>

ConfInit ==
  /\ \E c, a, s \in Values \cup {Missing} :
       disk = [f \in Names |-> IF f = "config" THEN Old(f, c)
                               ELSE IF f = "autotune" THEN Old(f, a)
                               ELSE IF f = "smb" THEN Old(f, s) ELSE Nothing]
  /\ stamp = [main |-> 0, prof |-> 0]
  /\ mig = NoMigration
  /\ conf = [main |-> Nothing, prof |-> Nothing, seen |-> stamp, read |-> stamp, up |-> "no"]
  /\ fresh = [f \in Legacy |-> disk[f]]
  /\ meddled = FALSE
  /\ budget = [edits |-> 0, crashes |-> 0]

ConfNext ==
  \/ Versioned \/ BeginImport \/ CopyBackups \/ Derive \/ WriteReady
  \/ PublishProfiles \/ CommitMain \/ Retire \/ WriteFails
  \/ load_runtime_config \/ ReadStamps \/ reload_runtime_config_if_changed
  \/ \E x \in (Values \ {0}) \cup {Missing} :
       \/ write_title_fakelib_policy(x) \/ upsert_image_sector_size_autotune(x)
       \/ sm_config_smb_update(x) \/ sm_config_write_web_settings(x)
  \/ \E f \in Legacy, x \in Values : UserEditsLegacy(f, x)
  \/ \E f \in {"config", "profiles"}, x \in Values : UserEditsLive(f, x)
  \/ Start \/ Stop

ConfSpec == ConfInit /\ [][ConfNext]_confVars

----------------------------------------------------------------------------
\* No setting is lost, wherever a migration or a reload is cut: what was last
\* written to a legacy file is still there or in its backup (the order of
\* sm_config_migrate_files: backups, marker, profiles, main file, unlinks);
\* start-up refuses to go on (EBUSY, EEXIST) only after the user touched a
\* source behind a prepared backup, never because of where an earlier attempt
\* died; and when the stamps say that the files are the loaded ones they are,
\* although an edit may land between the stamp and the parse of a reload.
NoSettingIsLost ==
  /\ \A f \in Legacy : fresh[f].v = 1 => fresh[f] \in {disk[f], disk[Backup(f)]}
  /\ mig.at = "refused" => meddled
  /\ conf.up = "yes" /\ conf.seen = stamp
       => conf.main = disk["config"] /\ conf.prof = disk["profiles"]
=============================================================================
