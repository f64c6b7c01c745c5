-------------------------- MODULE StorageMigration --------------------------
(***************************************************************************)
(* The change of the database behind an installation: thelper-ctl          *)
(* -reconfigure (config.Store.Import) stages a target, thelper-ctl          *)
(* -migrate-db (config.Store.MigrateDB) copies everything into it and makes *)
(* it current, and a server that starts follows the current profile of the *)
(* database it was given (resolveCurrentProfileHandle).                    *)
(*                                                                         *)
(* A database is identified by its fingerprint.  Its table                 *)
(* storage_profiles maps the ids of profiles to rows: one id, Initial, for *)
(* the first current profile, and one for each target, the hash of its     *)
(* fingerprint; a profile and its storage_provider_settings are one row    *)
(* here.  The historical profile that a migration also writes into its     *)
(* target has an id of its own and nothing reads it: it is left out.       *)
(*                                                                         *)
(* What the other tables hold are Facts; each is a row of one of three     *)
(* groups of tables, which a migration copies one after the other, and may *)
(* refer to a row of an earlier group.                                     *)
(***************************************************************************)
EXTENDS Naturals, FiniteSets

CONSTANTS
  Dbs,      \* databases
  Ctls,     \* thelper-ctl processes
  Facts,    \* rows of the tables a migration copies
  Group,    \* 1: settings, modules, roots; 2: repositories; 3: projects
  Refers,   \* the row a row refers to by a foreign key, or None
  Follow,   \* TRUE: after a switch the operator changes the -storage-dsn
  Initial, None

Ids == Dbs \cup {Initial}
Groups == 1..3

ASSUME StorageMigrationAssumption ==
  /\ None \notin Ids \cup Facts
  /\ Initial \notin Dbs
  /\ Group \in [Facts -> Groups]
  /\ Refers \in [Facts -> Facts \cup {None}]
  /\ \A f \in Facts : Refers[f] # None => Group[Refers[f]] < Group[f]
  /\ Follow \in BOOLEAN

VARIABLES
  profiles,  \* profiles[d][i]: the row of storage_profiles, or NoRow
  keys,      \* the database that the storage keys of config_entries describe
  rows,      \* the other rows of a database
  writer,    \* the thelper-ctl whose transaction holds the database, or None
  at, on, cur, goal, copy,   \* thelper-ctl: what it does, and what it has read
  dsn,       \* the database that processes are started with
  serving,   \* the database the server runs on, or None
  durable    \* history: rows written to the database in charge, no migration under way

ctlVars == <<at, on, cur, goal, copy>>
vars == <<profiles, keys, rows, writer, ctlVars, dsn, serving, durable>>

NoRow == [slot |-> "none", status |-> "none", db |-> None]
Row(s, t, d) == [slot |-> s, status |-> t, db |-> d]

\* Store.storageProfile, for the current profile and for the staged target.
\* The unique indexes leave at most one row of each.
IdsOf(table, slot, status) ==
  {i \in Ids : table[i].slot = slot /\ table[i].status = status}
CurrentIds(table) == IdsOf(table, "current", "active")
StagedIds(table) == IdsOf(table, "migration", "migration_target")

\* The database that the current profile of d names, if there is one.
Charge(d) == IF CurrentIds(profiles[d]) = {} THEN None
             ELSE profiles[d][CHOOSE i \in CurrentIds(profiles[d]) : TRUE].db

\* resolveCurrentProfileHandle: one step, no more.
InCharge == IF Charge(dsn) = None THEN dsn ELSE Charge(dsn)

Migrating == {c \in Ctls : at[c] \notin {"idle", "import"}}

Init ==
  /\ profiles = [d \in Dbs |-> [i \in Ids |-> NoRow]]
  /\ keys = [d \in Dbs |-> None]
  /\ rows = [d \in Dbs |-> {}]
  /\ writer = [d \in Dbs |-> None]
  /\ at = [c \in Ctls |-> "idle"]
  /\ on = [c \in Ctls |-> None]
  /\ cur = [c \in Ctls |-> None]
  /\ goal = [c \in Ctls |-> None]
  /\ copy = [c \in Ctls |-> {}]
  /\ dsn \in Dbs
  /\ serving = None
  /\ durable = {}

-----------------------------------------------------------------------------
Step(c, from, to) == at[c] = from /\ at' = [at EXCEPT ![c] = to]

Leave(c) ==
  /\ at' = [at EXCEPT ![c] = "idle"]
  /\ on' = [on EXCEPT ![c] = None]
  /\ cur' = [cur EXCEPT ![c] = None]
  /\ goal' = [goal EXCEPT ![c] = None]
  /\ copy' = [copy EXCEPT ![c] = {}]

\* A database that handed over is not given to a process again.
Open(d) == d = dsn /\ (Follow => Charge(d) \in {None, d})

CurrentId(d) ==
  IF CurrentIds(profiles[d]) = {} THEN None
  ELSE CHOOSE i \in CurrentIds(profiles[d]) : TRUE

-----------------------------------------------------------------------------
(* thelper-ctl -reconfigure.                                               *)

\* Import reads the current profile before it opens its transaction.
ReadForImport(c) ==
  /\ Step(c, "idle", "import")
  /\ \E d \in Dbs :
       /\ Open(d)
       /\ on' = [on EXCEPT ![c] = d]
       /\ cur' = [cur EXCEPT ![c] = CurrentId(d)]
       /\ goal' = [goal EXCEPT ![c] = Charge(d)]
  /\ UNCHANGED <<profiles, keys, rows, writer, copy, dsn, serving, durable>>

\* retireMigrationProfiles
Retired(table) ==
  [i \in Ids |-> IF table[i].slot = "migration"
                 THEN Row("historical", "superseded", table[i].db) ELSE table[i]]

\* upsertStorageProfile: a row with the id keeps its slot.
Upserted(table, i, slot, status, d) ==
  [table EXCEPT ![i] =
     Row(IF table[i] = NoRow THEN slot ELSE table[i].slot, status, d)]

\* What the unique indexes of storage_profiles let a statement leave.
Indexed(table) ==
  /\ Cardinality(CurrentIds(table)) <= 1
  /\ Cardinality({i \in Ids : table[i].slot = "migration"}) <= 1

\* With no current profile and external_databases enabled, the database of
\* the file becomes current and the external one the target.
Bootstraps(c, external) == cur[c] = None /\ external # None

Target(base, external) == IF external = None THEN base ELSE external

StorageChanged(c, base, external) ==
  \/ cur[c] # None /\ goal[c] # Target(base, external)
  \/ Bootstraps(c, external)

\* The profiles after the import of a file with these storage sections.
Imported_fault(c, base, external) ==
  Upserted(profiles[on[c]], IF cur[c] = None THEN Initial ELSE cur[c],
           "current", "active", Target(base, external))

Imported(c, base, external) ==
  LET table == profiles[on[c]]
      first == IF Bootstraps(c, external)
               THEN Upserted(table, Initial, "current", "active", base) ELSE table
      id    == IF cur[c] = None THEN Initial ELSE cur[c]
      t     == Target(base, external)
  IN IF StorageChanged(c, base, external)
     THEN Upserted(Retired(first), t, "migration", "migration_target", t)
     ELSE Upserted(table, id, "current", "active", t)

\* Storage keys of a file that only stages a target are not imported: the
\* entries of the current profile take their place.
KeysImported_fault(c, base, external) == Target(base, external)

KeysImported(c, base, external) ==
  IF ~StorageChanged(c, base, external) THEN Target(base, external)
  ELSE IF Bootstraps(c, external) THEN base ELSE goal[c]

Import(c) ==
  /\ at[c] = "import" /\ writer[on[c]] = None
  /\ \E base \in Dbs, external \in Dbs \cup {None} :
       /\ external # base /\ Indexed(Imported(c, base, external))
       /\ profiles' = [profiles EXCEPT ![on[c]] = Imported(c, base, external)]
       /\ keys' = [keys EXCEPT ![on[c]] = KeysImported(c, base, external)]
  /\ Leave(c)
  /\ UNCHANGED <<rows, writer, dsn, serving, durable>>

-----------------------------------------------------------------------------
(* thelper-ctl -migrate-db.                                                *)

ReadCurrent(c) ==
  /\ Step(c, "idle", "staged")
  /\ \E d \in Dbs :
       /\ Open(d) /\ Charge(d) # None
       /\ on' = [on EXCEPT ![c] = d]
       /\ cur' = [cur EXCEPT ![c] = CurrentId(d)]
  /\ UNCHANGED <<profiles, keys, rows, writer, goal, copy, dsn, serving, durable>>

\* MigrateDB answers no_migration_target where there is none.
ReadStaged(c) ==
  /\ at[c] = "staged"
  /\ LET staged == StagedIds(profiles[on[c]])
     IN \/ staged = {} /\ Leave(c)
        \/ /\ at' = [at EXCEPT ![c] = "open"]
           /\ \E i \in staged : goal' = [goal EXCEPT ![c] = i]
           /\ UNCHANGED <<on, cur, copy>>
  /\ UNCHANGED <<profiles, keys, rows, writer, dsn, serving, durable>>

\* copyMigratedData: the transaction on the target clears its tables first.
BeginCopy(c) ==
  /\ Step(c, "open", "copy1")
  /\ writer[goal[c]] = None
  /\ writer' = [writer EXCEPT ![goal[c]] = c]
  /\ UNCHANGED <<profiles, keys, rows, on, cur, goal, copy, dsn, serving, durable>>

\* One SELECT on the source, outside of any transaction, and the INSERTs; a
\* row whose reference was not copied is refused.
CopyGroup_fault(c, g) ==
  LET read == {f \in rows[on[c]] : Group[f] = g}
  IN /\ \A f \in read : Refers[f] = None \/ Refers[f] \in copy[c]
     /\ copy' = [copy EXCEPT ![c] = read]
     /\ UNCHANGED <<profiles, keys, rows, writer, on, cur, goal, dsn, serving, durable>>

CopyGroup(c, g) ==
  LET read == {f \in rows[on[c]] : Group[f] = g}
  IN /\ \A f \in read : Refers[f] = None \/ Refers[f] \in copy[c]
     /\ copy' = [copy EXCEPT ![c] = copy[c] \cup read]
     /\ UNCHANGED <<profiles, keys, rows, writer, on, cur, goal, dsn, serving, durable>>

CopySettings(c) == Step(c, "copy1", "copy2") /\ CopyGroup(c, 1)
CopyRepositories(c) == Step(c, "copy2", "copy3") /\ CopyGroup(c, 2)
CopyProjects(c) == Step(c, "copy3", "commit") /\ CopyGroup(c, 3)

\* storage_profiles of the target, which was cleared: itself.
Handed_fault(c) ==
  [i \in Ids |-> IF i = goal[c] THEN Row("current", "active", i)
                 ELSE profiles[goal[c]][i]]

Handed(c) ==
  [i \in Ids |-> IF i = goal[c] THEN Row("current", "active", i) ELSE NoRow]

\* copyConfigEntries: storage keys are not copied but written for the target.
KeysCopied(c) == goal[c]

CommitCopy(c) ==
  /\ Step(c, "commit", "promote")
  /\ profiles' = [profiles EXCEPT ![goal[c]] = Handed(c)]
  /\ keys' = [keys EXCEPT ![goal[c]] = KeysCopied(c)]
  /\ rows' = [rows EXCEPT ![goal[c]] = copy[c]]
  /\ writer' = [writer EXCEPT ![goal[c]] = None]
  /\ UNCHANGED <<on, cur, goal, copy, dsn, serving, durable>>

\* Both rows are changed by the ids that were read at the start.
Promoted(c) ==
  [i \in Ids |->
     LET old == profiles[on[c]][i]
     IN IF old = NoRow THEN NoRow
        ELSE IF i = goal[c] THEN Row("current", "active", old.db)
        ELSE IF i = cur[c] THEN Row("historical", "superseded", old.db) ELSE old]

\* An error of promoteMigrationProfile is returned and nothing is marked.
Promote(c) ==
  /\ at[c] = "promote" /\ writer[on[c]] = None
  /\ \/ Indexed(Promoted(c)) /\ profiles' = [profiles EXCEPT ![on[c]] = Promoted(c)]
     \/ UNCHANGED profiles
  /\ Leave(c)
  /\ UNCHANGED <<keys, rows, writer, dsn, serving, durable>>

-----------------------------------------------------------------------------
\* The transaction of a process that fails or dies is rolled back.
Released(c) == [d \in Dbs |-> IF writer[d] = c THEN None ELSE writer[d]]

\* markMigrationFailed: by id, whatever the row has become.
Failed(c) ==
  [i \in Ids |->
     LET old == profiles[on[c]][i]
     IN IF i = goal[c] /\ old # NoRow
        THEN Row(old.slot, "migration_failed", old.db) ELSE old]

\* The target cannot be opened, prepared or filled, or is not the database of
\* its profile.  An error of markMigrationFailed is ignored.
Fail(c) ==
  /\ at[c] \in {"open", "copy1", "copy2", "copy3", "commit"}
  /\ writer' = Released(c)
  /\ \/ UNCHANGED profiles
     \/ /\ writer[on[c]] \in {None, c}
        /\ profiles' = [profiles EXCEPT ![on[c]] = Failed(c)]
  /\ Leave(c)
  /\ UNCHANGED <<keys, rows, dsn, serving, durable>>

Die(c) ==
  /\ at[c] # "idle"
  /\ writer' = Released(c)
  /\ Leave(c)
  /\ UNCHANGED <<profiles, keys, rows, dsn, serving, durable>>

-----------------------------------------------------------------------------
(* The server and the operator.                                            *)

StartServer ==
  /\ serving = None /\ Open(dsn)
  /\ serving' = InCharge
  /\ UNCHANGED <<profiles, keys, rows, writer, ctlVars, dsn, durable>>

StopServer ==
  /\ serving # None
  /\ serving' = None
  /\ UNCHANGED <<profiles, keys, rows, writer, ctlVars, dsn, durable>>

\* The runtime writes to the database it runs on, whether or not a migration
\* reads it or has replaced it.
Write(f) ==
  /\ serving # None /\ writer[serving] = None
  /\ f \notin rows[serving]
  /\ Refers[f] = None \/ Refers[f] \in rows[serving]
  /\ rows' = [rows EXCEPT ![serving] = rows[serving] \cup {f}]
  /\ durable' = IF Charge(dsn) # None /\ serving = InCharge /\ Migrating = {}
                THEN durable \cup {f} ELSE durable
  /\ UNCHANGED <<profiles, keys, writer, ctlVars, dsn, serving>>

ChangeDsn ==
  /\ Follow /\ Charge(dsn) \notin {None, dsn}
  /\ dsn' = Charge(dsn)
  /\ UNCHANGED <<profiles, keys, rows, writer, ctlVars, serving, durable>>

CtlStep(c) ==
  \/ ReadForImport(c) \/ Import(c)
  \/ ReadCurrent(c) \/ ReadStaged(c) \/ BeginCopy(c)
  \/ CopySettings(c) \/ CopyRepositories(c) \/ CopyProjects(c)
  \/ CommitCopy(c) \/ Promote(c) \/ Fail(c) \/ Die(c)

Next ==
  \/ \E c \in Ctls : CtlStep(c)
  \/ StartServer \/ StopServer \/ ChangeDsn
  \/ \E f \in Facts : Write(f)

Spec == Init /\ [][Next]_vars

-----------------------------------------------------------------------------
(* Properties.                                                             *)

TypeOK ==
  /\ profiles \in [Dbs -> [Ids ->
       [slot : {"none", "current", "migration", "historical"},
        status : {"none", "active", "superseded", "migration_target", "migration_failed"},
        db : Dbs \cup {None}]]]
  /\ \A d \in Dbs : Indexed(profiles[d])
  /\ keys \in [Dbs -> Dbs \cup {None}]
  /\ rows \in [Dbs -> SUBSET Facts]
  /\ writer \in [Dbs -> Ctls \cup {None}]
  /\ at \in [Ctls -> {"idle", "import", "staged", "open", "copy1", "copy2",
                      "copy3", "commit", "promote"}]
  /\ on \in [Ctls -> Dbs \cup {None}]
  /\ cur \in [Ctls -> Ids \cup {None}]
  /\ goal \in [Ctls -> Ids \cup {None}]
  /\ copy \in [Ctls -> SUBSET Facts]
  /\ dsn \in Dbs /\ serving \in Dbs \cup {None} /\ durable \subseteq Facts

\* What a server of the database in charge wrote while no migration ran is
\* there whenever a server runs: no switch, failed switch, crash or repeated
\* migration loses it.
NothingLost == serving # None => durable \subseteq rows[serving]

\* The database that a current profile names describes itself in its storage
\* keys, as configuration is read from there.
KeysDescribe ==
  \A d \in Dbs : Charge(d) = d => keys[d] = d

\* Once there is a current profile, it changes only into that of a database
\* that holds everything and knows itself to be current; it never vanishes.
SwitchIsComplete ==
  [][\A d \in Dbs :
       Charge(d) # None /\ Charge(d)' # Charge(d)
         => /\ Charge(d)' \in Dbs
            /\ durable \subseteq rows'[Charge(d)']
            /\ \E i \in Ids : /\ profiles'[Charge(d)'][i].slot = "current"
                              /\ profiles'[Charge(d)'][i].status = "active"]_vars
=============================================================================
