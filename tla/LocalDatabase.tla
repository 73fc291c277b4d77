---------------------------- MODULE LocalDatabase ----------------------------
(***************************************************************************)
(* The key of the local database and the file it opens: getOrCreateKey()   *)
(* of DatabaseEncryptionManager.kt when the application starts, the first  *)
(* query, and the migrations of Room. The key is saved with apply(), which *)
(* changes the preferences in memory at once and on the disk later; the    *)
(* file is on the disk when the query returns.                             *)
(*                                                                         *)
(* A key is a number, 0 for none; a saved key names the master key of the  *)
(* Keystore it is encrypted with. Of a schema there is what the migrations *)
(* add to it, as <<name, NOT NULL or UNIQUE>>, because Room compares that  *)
(* with its entities. What changeKey() and deleteKey() do is left out:     *)
(* nobody calls them.                                                      *)
(***************************************************************************)
EXTENDS Naturals

CONSTANTS MaxStarts,  \* bound: processes
          MaxFaults   \* bound: failures of the Keystore

VARIABLES prefs,     \* the saved key in memory
          disk,      \* and on the disk
          master,    \* the master key in the Keystore
          file,      \* ircord.db
          pc, key,   \* the process, and the key it has got
          made,      \* how many keys were made
          starts, faults,
          wiped,     \* history: a file was emptied by the fallback
          undone,    \* history: a kill undid the save of the key of the file
          failed     \* history: the Keystore failed

vars == <<prefs, disk, master, file, pc, key, made, starts, faults, wiped, undone, failed>>

Version == 6

\* What the entities declare, by the version that brought it.
Declared == [v \in 2 .. Version |->
  CASE v = 2 -> {<<"public_key", FALSE>>}
    [] v = 3 -> {<<"topic", FALSE>>}
    [] v = 4 -> {<<"presence_status", TRUE>>, <<"presence_updated_at", TRUE>>}
    [] v = 5 -> {<<"channel_members", TRUE>>}
    [] v = 6 -> {<<"link_previews", TRUE>>, <<"index_link_previews_url", TRUE>>}]

\* What the migration to a version adds.
Added == [v \in 2 .. Version |->
  CASE v = 2 -> {<<"public_key", FALSE>>}
    [] v = 3 -> {<<"topic", FALSE>>}
    [] v = 4 -> {<<"presence_status", FALSE>>, <<"presence_updated_at", FALSE>>}
    [] v = 5 -> {<<"channel_members", TRUE>>}
    [] v = 6 -> {<<"link_previews", TRUE>>, <<"index_link_previews_url", FALSE>>}]

\* Mutant of ALL_MIGRATIONS: the last one is forgotten.
MigrationsButLast == 2 .. Version - 1

ALL_MIGRATIONS == 2 .. Version

NoKey == [key |-> 0, master |-> 0]
NoFile == [key |-> 0, version |-> 0]

\* The first installation, or one of an earlier version with its key.
Init ==
  /\ \/ file = NoFile /\ prefs = NoKey /\ master = 0 /\ made = 0
     \/ /\ file \in [key : {1}, version : 1 .. Version]
        /\ prefs = [key |-> 1, master |-> 1] /\ master = 1 /\ made = 1
  /\ disk = prefs
  /\ pc = "off" /\ key = 0
  /\ starts = 0 /\ faults = 0
  /\ wiped = FALSE /\ undone = FALSE /\ failed = FALSE
-----------------------------------------------------------------------------
StartProcess ==
  /\ pc = "off" /\ starts < MaxStarts
  /\ starts' = starts + 1
  /\ pc' = "get"
  /\ UNCHANGED <<prefs, disk, master, file, key, made, faults, wiped, undone, failed>>

Get(k) == key' = k /\ pc' = IF k = 0 THEN "new" ELSE "built"

\* Mutant of getExistingKey: the initialization vector is not found.
getNoKey ==
  /\ pc = "get"
  /\ Get(0)
  /\ UNCHANGED <<prefs, disk, master, file, made, starts, faults, wiped, undone, failed>>

\* To decrypt may make a master key, with which it fails.
getExistingKey ==
  /\ pc = "get"
  /\ Get(IF prefs.master = master THEN prefs.key ELSE 0)
  /\ IF prefs.key # 0 /\ master = 0
     THEN made' = made + 1 /\ master' = made + 1
     ELSE UNCHANGED <<made, master>>
  /\ UNCHANGED <<prefs, disk, file, starts, faults, wiped, undone, failed>>

\* Any exception counts as "no key".
KeystoreFails ==
  /\ pc = "get" /\ faults < MaxFaults
  /\ Get(0)
  /\ faults' = faults + 1 /\ failed' = TRUE
  /\ UNCHANGED <<prefs, disk, master, file, made, starts, wiped, undone>>

KeystoreForgets ==
  /\ pc = "off" /\ master # 0 /\ faults < MaxFaults
  /\ master' = 0
  /\ faults' = faults + 1 /\ failed' = TRUE
  /\ UNCHANGED <<prefs, disk, file, pc, key, made, starts, wiped, undone>>

\* A new key takes the place of the saved one.
storeKey ==
  /\ pc = "new"
  /\ master' = IF master = 0 THEN made + 2 ELSE master
  /\ made' = made + 2
  /\ key' = made + 1
  /\ prefs' = [key |-> made + 1, master |-> master']
  /\ pc' = "built"
  /\ UNCHANGED <<disk, file, starts, faults, wiped, undone, failed>>

\* What a file has that was made by an earlier version, if that declared its
\* columns as this one does, and what the migrations add to it.
Migrated == UNION {Declared[v] : v \in 2 .. file.version} \cup
            UNION {Added[v] : v \in file.version + 1 .. Version}
Valid == Migrated = UNION {Declared[v] : v \in 2 .. Version}
HasPath == file.version + 1 .. Version \subseteq ALL_MIGRATIONS

Opens(f, next) == file' = f /\ pc' = next

\* The first query. Without a path the fallback empties the file; a schema that
\* does not validate is an exception, and the transaction is rolled back.
Open ==
  /\ pc = "built"
  /\ \/ file = NoFile /\ Opens([key |-> key, version |-> Version], "open") /\ UNCHANGED wiped
     \/ /\ file # NoFile /\ file.key # key
        /\ Opens(file, "unreadable") /\ UNCHANGED wiped
     \/ /\ file.key = key /\ HasPath
        /\ IF Valid THEN Opens([file EXCEPT !.version = Version], "open")
                    ELSE Opens(file, "invalid")
        /\ UNCHANGED wiped
     \/ /\ file.key = key /\ ~HasPath
        /\ Opens([file EXCEPT !.version = Version], "open") /\ wiped' = TRUE
  /\ UNCHANGED <<prefs, disk, master, key, made, starts, faults, undone, failed>>

Persist ==
  /\ disk # prefs
  /\ disk' = prefs
  /\ UNCHANGED <<prefs, master, file, pc, key, made, starts, faults, wiped, undone, failed>>

Kill ==
  /\ pc # "off"
  /\ prefs' = disk
  /\ pc' = "off" /\ key' = 0
  /\ undone' = (undone \/ (prefs.key = file.key /\ disk # prefs))
  /\ UNCHANGED <<disk, master, file, made, starts, faults, wiped, failed>>

Next == \/ StartProcess \/ getExistingKey \/ KeystoreFails \/ KeystoreForgets
        \/ storeKey \/ Open \/ Persist \/ Kill

Spec == Init /\ [][Next]_vars
-----------------------------------------------------------------------------
SavedKey == [key : Nat, master : Nat]

\* The types of the variables.
TypeOK ==
  /\ prefs \in SavedKey /\ disk \in SavedKey /\ master \in Nat
  /\ file \in [key : Nat, version : 0 .. Version]
  /\ pc \in {"off", "get", "new", "built", "open", "unreadable", "invalid"}
  /\ key \in Nat /\ made \in Nat /\ starts \in Nat /\ faults \in Nat
  /\ {wiped, undone, failed} \subseteq BOOLEAN

\* The file can be read with the key of every later process, and no update
\* empties it, whenever processes are killed; as long as the Keystore works and
\* the save of the key in use was not undone: getOrCreateKey() makes a new key, in
\* place of the saved one, whenever it gets none.
DataKept == ~undone /\ ~failed => pc # "unreadable" /\ ~wiped

\* "Migration from version 5 to 6: adds link_previews table": a file of an
\* earlier version opens after an update of the application.
UpgradeOpens == pc # "invalid"
=============================================================================
