------------------------------- MODULE Startup -------------------------------
(***************************************************************************)
(* The start of the program, main.cpp up to the server, with the           *)
(* configuration parser, the users and fs_objects tables and SQLite as far *)
(* as they take part, and what of it survives the end of the process.      *)
(*                                                                         *)
(* Every action changes one file, table or row, and the process may end    *)
(* after any of them: SQLite makes a statement atomic, nothing makes the   *)
(* start as a whole so.  Any exception is uncaught and ends the process.   *)
(***************************************************************************)
EXTENDS Integers, FiniteSets

CONSTANTS
    Names, Passwords,
    Guest, DefaultPassword,     \* DEFAULT_USERS
    None,                       \* no such user
    Absent, Bad,                \* a configuration file that is not one
    NoDir, NoFile,              \* no directory data, and no database in it
    Configs,                    \* what the administrator may configure
    MaxEdits,                   \* configurations the administrator writes (a bound)
    MaxCrashes,                 \* how often the process is killed (a bound)
    MaxUploads                  \* files the clients upload (a bound)

ASSUME NamesAssumption == Guest \in Names /\ DefaultPassword \in Passwords
ASSUME NoneAssumption == None \notin Passwords
ASSUME BoundsAssumption == MaxEdits \in Nat /\ MaxCrashes \in Nat /\ MaxUploads \in Nat

VARIABLES
    pc,         \* where main is; "down" if there is no process
    cfg,        \* the parsed users and secure
    todo,       \* names the loop of init_user_table has yet to create
    stale,      \* auxiliary: rename_file has failed in this start
    file,       \* config/config.json: Absent, Bad (not a whole JSON object with
                \* the right types), or its users and secure
    storage,    \* data/storage.db: NoDir, NoFile, or the database
    backups,    \* data/old_storage<i>.db, the numbers without a file left out
    keys,       \* the directory tls: none, without all its files ("empty"), with
                \* files that OpenSSL refuses ("wrong"), complete
    taken,      \* the control port is one the program cannot bind
    uploads,    \* auxiliary: files uploaded so far
    edits, crashes

volatile == <<pc, cfg, todo, stale>>
disk == <<file, storage, backups, keys>>
world == <<disk, taken>>
counters == <<uploads, edits, crashes>>
vars == <<volatile, world, counters>>

Users == [Names -> Passwords \cup {None}]
Config == [users : Users, secure : BOOLEAN]
Database == [tables : SUBSET {"users", "fs_objects"}, users : Users,
             rows : SUBSET (1..MaxUploads)]

ASSUME ConfigsAssumption ==
    /\ Configs \subseteq Config
    /\ Absent \notin Config /\ Bad \notin Config /\ Absent # Bad
ASSUME NoDatabaseAssumption ==
    NoDir \notin Database /\ NoFile \notin Database /\ NoDir # NoFile

NoUsers == [n \in Names |-> None]
EmptyDb == [tables |-> {}, users |-> NoUsers, rows |-> {}]
DefaultConfig ==
    [users |-> [NoUsers EXCEPT ![Guest] = DefaultPassword], secure |-> FALSE]

Steps == {"config", "default", "database", "users", "compare", "backup",
          "recreate", "create", "objects", "server", "up"}
Backup == 1..(MaxEdits + 1)

TypeOK ==
    /\ pc \in Steps \cup {"down"}
    /\ cfg \in Config
    /\ todo \subseteq Names /\ stale \in BOOLEAN
    /\ file \in {Absent, Bad} \cup Config
    /\ storage \in {NoDir, NoFile} \cup Database
    /\ DOMAIN backups \subseteq Backup /\ \A i \in DOMAIN backups : backups[i] \in Database
    /\ keys \in {"none", "empty", "wrong", "complete"} /\ taken \in BOOLEAN
    /\ uploads \in 0..MaxUploads /\ edits \in 0..MaxEdits /\ crashes \in 0..MaxCrashes

Init ==
    /\ pc = "down" /\ cfg = DefaultConfig /\ todo = {} /\ stale = FALSE
    /\ file = Absent /\ storage = NoDir /\ backups = <<>> /\ keys = "none" /\ taken = FALSE
    /\ uploads = 0 /\ edits = 0 /\ crashes = 0

-----------------------------------------------------------------------------
(* The steps of main.                                                      *)

At(here, next) == pc = here /\ pc' = next

Start ==
    /\ At("down", "config")
    /\ stale' = FALSE
    /\ UNCHANGED <<cfg, todo, world, counters>>

\* read_json_config: a missing file is created, and until it is written whole
\* it is a bad one; a bad one throws.
ReadConfig ==
    /\ \/ /\ file = Absent
          /\ At("config", "default")
          /\ file' = Bad /\ cfg' = DefaultConfig
       \/ /\ file \in Config
          /\ At("config", "database")
          /\ cfg' = file /\ UNCHANGED file
       \/ /\ file = Bad
          /\ At("config", "down")
          /\ UNCHANGED <<cfg, file>>
    /\ UNCHANGED <<todo, stale, storage, backups, keys, taken, counters>>

\* make_default_json
WriteDefaultConfig ==
    /\ At("default", "database")
    /\ file' = DefaultConfig
    /\ UNCHANGED <<cfg, todo, stale, storage, backups, keys, taken, counters>>

\* init_db makes the directory; sqlite3_open then makes an empty file, which is
\* read as EmptyDb is, so that NoFile stands for both.
InitDb ==
    /\ At("database", "users")
    /\ storage' = IF storage = NoDir THEN NoFile ELSE storage
    /\ UNCHANGED <<cfg, todo, stale, file, backups, keys, taken, counters>>

\* connect and check_table_exists
Connected == IF storage = NoFile THEN EmptyDb ELSE storage
WithTable(name) == [Connected EXCEPT !.tables = @ \cup {name}]

InitUsersTable ==
    /\ \/ At("users", "compare") /\ UNCHANGED todo
       \/ At("recreate", "create") /\ todo' = {n \in Names : cfg.users[n] # None}
    /\ storage' = WithTable("users")
    /\ UNCHANGED <<cfg, stale, file, backups, keys, taken, counters>>

\* Mutants: a stored password never equals a configured one; only names are
\* compared.
AnyUsersChangedHashed(db, conf) == \E n \in Names : db[n] # None

AnyUsersChangedNames(db, conf) == \E n \in Names : db[n] # None /\ conf[n] = None

\* any_users_changed goes through the users of the database: one that it lacks is no
\* change, against its comment ("find if any side has missing users").
AnyUsersChanged(db, conf) == \E n \in Names : db[n] # None /\ conf[n] # db[n]

Compare ==
    /\ At("compare", IF AnyUsersChanged(storage.users, cfg.users)
                     THEN "backup" ELSE "recreate")
    /\ UNCHANGED <<cfg, todo, stale, world, counters>>

\* Mutant: the backup has a fixed name.
FirstBackup == 1

\* The first number without a file.
NextBackup == CHOOSE i \in Backup :
    i \notin DOMAIN backups /\ \A j \in 1..(i - 1) : j \in DOMAIN backups

\* std::filesystem::rename would replace a file; rename_file's result is unused.
BackUp ==
    /\ At("backup", "recreate")
    /\ \/ /\ backups' = [i \in DOMAIN backups \cup {NextBackup} |->
                            IF i = NextBackup THEN storage ELSE backups[i]]
          /\ storage' = NoFile
          /\ UNCHANGED stale
       \/ /\ stale' = TRUE
          /\ UNCHANGED <<backups, storage>>
    /\ UNCHANGED <<cfg, todo, file, keys, taken, counters>>

\* Mutant: a user who already exists is an error.
CreateUserOnce == \E n \in todo :
    /\ pc = "create"
    /\ IF storage.users[n] = None
       THEN /\ pc' = pc /\ todo' = todo \ {n}
            /\ storage' = [storage EXCEPT !.users[n] = cfg.users[n]]
       ELSE pc' = "down" /\ UNCHANGED <<todo, storage>>
    /\ UNCHANGED <<cfg, stale, file, backups, keys, taken, counters>>

\* create_user for every configured user; run_param_query ignores that name is
\* UNIQUE, and leaves the row that is there.
CreateUser == \E n \in todo :
    /\ At("create", "create")
    /\ todo' = todo \ {n}
    /\ storage' = [storage EXCEPT !.users[n] = IF @ = None THEN cfg.users[n] ELSE @]
    /\ UNCHANGED <<cfg, stale, file, backups, keys, taken, counters>>

InitObjectsTable ==
    /\ \/ todo = {} /\ At("create", "objects") /\ UNCHANGED storage
       \/ At("objects", "server") /\ storage' = WithTable("fs_objects")
    /\ UNCHANGED <<cfg, todo, stale, file, backups, keys, taken, counters>>

\* The server's constructor throws if the port cannot be bound, then if keys are
\* missing (check_tls_keys, which makes the directory), then if they are wrong.
StartServer ==
    /\ \/ /\ ~taken /\ (cfg.secure => keys = "complete")
          /\ At("server", "up")
          /\ UNCHANGED keys
       \/ /\ taken \/ (cfg.secure /\ keys # "complete")
          /\ At("server", "down")
          /\ keys' = IF ~taken /\ keys = "none" THEN "empty" ELSE keys
    /\ UNCHANGED <<cfg, todo, stale, file, storage, backups, taken, counters>>

StartupStep ==
    \/ ReadConfig \/ WriteDefaultConfig
    \/ InitDb \/ InitUsersTable \/ Compare \/ BackUp \/ CreateUser
    \/ InitObjectsTable

-----------------------------------------------------------------------------
(* What goes on around the start.                                          *)

\* A client uploads a file, with its row in fs_objects.
Upload ==
    /\ pc = "up" /\ uploads < MaxUploads
    /\ \E n \in Names : storage.users[n] # None
    /\ uploads' = uploads + 1
    /\ storage' = [storage EXCEPT !.rows = @ \cup {uploads + 1}]
    /\ UNCHANGED <<volatile, file, backups, keys, taken, edits, crashes>>

Killed ==
    /\ pc # "down" /\ crashes < MaxCrashes
    /\ pc' = "down"
    /\ crashes' = crashes + 1
    /\ UNCHANGED <<cfg, todo, stale, world, uploads, edits>>

\* The server has ended by itself.
Ended ==
    /\ At("up", "down")
    /\ UNCHANGED <<cfg, todo, stale, world, counters>>

\* The administrator writes a configuration, right or wrong, or the keys.  Each
\* start reads them once, so a change during a run is one before the next start.
EditConfig ==
    /\ pc = "down" /\ edits < MaxEdits
    /\ edits' = edits + 1
    /\ file' \in {Bad} \cup Configs
    /\ UNCHANGED <<volatile, storage, backups, keys, taken, uploads, crashes>>

PlaceKeys ==
    /\ pc = "down" /\ keys # "complete" /\ keys' \in {"wrong", "complete"} \ {keys}
    /\ UNCHANGED <<volatile, file, storage, backups, taken, counters>>

\* Another program takes the control port, or leaves it.
TakePort ==
    /\ pc = "down" /\ taken' = ~taken
    /\ UNCHANGED <<volatile, disk, counters>>

-----------------------------------------------------------------------------
(* Correctness.                                                            *)

\* While the server runs both tables exist, and the users are exactly those of
\* the configuration it has read, with their passwords: init_user_table has
\* done its work or finished what a killed start had begun.  Only a rename that
\* failed, which it ignores, leaves users that are no longer configured.
ServesConfiguredUsers ==
    pc = "up" => /\ storage.tables = {"users", "fs_objects"}
                 /\ storage.users = cfg.users \/ stale

\* No upload is ever lost: its row is in the database or in some backup.
Rows(db) == IF db \in {NoDir, NoFile} THEN {} ELSE db.rows
NothingLost ==
    1..uploads \subseteq Rows(storage) \cup UNION {backups[i].rows : i \in DOMAIN backups}

\* No start replaces the database while its users are those configured: not when
\* it repeats one that was killed, at whatever step, and not after an edit that
\* leaves the users as they are.
KeepsStorage ==
    [][Rows(storage) \subseteq Rows(storage') \/ storage.users # cfg.users]_vars

=============================================================================
