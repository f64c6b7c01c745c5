---------------------- MODULE StorageMigrationProofs ----------------------
(***************************************************************************)
(* Nothing is lost between databases, for any number of databases and any  *)
(* rows with any references, where one thelper-ctl runs at a time and the  *)
(* operator gives the new database to every process after a switch.        *)
(***************************************************************************)
EXTENDS StorageMigration, FiniteSetTheorems, TLAPS

Alone == Follow /\ \A b, c \in Ctls : b = c

RowType == [slot : {"none", "current", "migration", "historical"},
            status : {"none", "active", "superseded", "migration_target", "migration_failed"},
            db : Dbs \cup {None}]

(* The table of one database. *)

\* A target is stored under its own name, and only a target waits to be
\* migrated to; the current profile is active, and there is one once there is
\* any profile.
Stored(table) ==
  \A i \in Ids :
    /\ table[i] # NoRow => table[i].db \in Dbs /\ (i \in Dbs => table[i].db = i)
    /\ table[i].slot = "migration" => i \in Dbs
    /\ table[i].slot = "current" => table[i].status = "active"

OneCurrent(table) ==
  \A i, j \in Ids : table[i].slot = "current" /\ table[j].slot = "current" => i = j

HasCurrent(table) ==
  (\A i \in Ids : table[i].slot # "current") => \A i \in Ids : table[i] = NoRow

\* Charge and CurrentId of a table.
ChargeOf(table) ==
  IF CurrentIds(table) = {} THEN None ELSE table[CHOOSE i \in CurrentIds(table) : TRUE].db
CurrentOf(table) ==
  IF CurrentIds(table) = {} THEN None ELSE CHOOSE i \in CurrentIds(table) : TRUE

Sound(table) == Stored(table) /\ OneCurrent(table) /\ HasCurrent(table)

Tables == \A d \in Dbs : Sound(profiles[d])

\* The database in charge is not its own target.
NotItself == \A d \in Dbs : Charge(d) = d => profiles[d][d].slot # "migration"

(* thelper-ctl *)

Copied(c, g) == {f \in durable : Group[f] < g} \subseteq copy[c]

\* What thelper-ctl has read is still so, and the copy has what it must have.
Ctl ==
  \A c \in Ctls :
    /\ at[c] # "idle" => on[c] = dsn /\ cur[c] = CurrentId(dsn)
    /\ at[c] = "import" => Charge(dsn) \in {None, dsn} /\ goal[c] = Charge(dsn)
    /\ at[c] \notin {"idle", "import"} => Charge(dsn) = dsn
    /\ at[c] \notin {"idle", "import", "staged"} =>
         /\ goal[c] \in Dbs \ {dsn}
         /\ profiles[dsn][goal[c]].slot = "migration"
    /\ at[c] = "copy2" => Copied(c, 2)
    /\ at[c] = "copy3" => Copied(c, 3)
    /\ at[c] = "commit" => Copied(c, 4)
    /\ at[c] = "promote" => Charge(goal[c]) = goal[c] /\ durable \subseteq rows[goal[c]]

(* The databases *)

\* No database is in charge of itself yet: configurations have named one
\* after the other, and all lead to the one that processes open.
Unset ==
  /\ durable = {}
  /\ \A x \in Dbs : Charge(x) # x
  /\ Charge(dsn) = None \/ Charge(Charge(dsn)) = None
  /\ \A x \in Dbs \ {dsn} :
       Charge(x) # None => Charge(x) = dsn \/ Charge(Charge(x)) # None
  /\ serving # None => serving = dsn \/ Charge(serving) # None

\* Configurations have named one another in a circle: nothing can be started.
Astray ==
  /\ \A c \in Ctls : at[c] = "idle"
  /\ \E S \in SUBSET Dbs : dsn \in S /\ \A x \in S : Charge(x) \in S \ {x}

Settled ==
  /\ Charge(dsn) \in Dbs /\ Charge(Charge(dsn)) = Charge(dsn)
  /\ durable \subseteq rows[Charge(dsn)]

MigrationInv ==
  /\ TypeOK /\ Tables /\ NotItself /\ Ctl /\ KeysDescribe /\ NothingLost
  /\ Unset \/ Astray \/ Settled

-----------------------------------------------------------------------------
(* One table *)

LEMMA ChargeTable ==
  ASSUME NEW d \in Dbs
  PROVE  /\ Charge(d) = ChargeOf(profiles[d]) /\ Charge(d)' = ChargeOf(profiles'[d])
         /\ CurrentId(d) = CurrentOf(profiles[d]) /\ CurrentId(d)' = CurrentOf(profiles'[d])
BY DEF Charge, ChargeOf, CurrentId, CurrentOf

LEMMA OneRow ==
  ASSUME NEW table, OneCurrent(table), NEW i \in Ids,
         table[i].slot = "current", table[i].status = "active"
  PROVE  CurrentIds(table) = {i} /\ CurrentOf(table) = i /\ ChargeOf(table) = table[i].db
<1>1. CurrentIds(table) = {i}
  BY DEF CurrentIds, IdsOf, OneCurrent
<1> QED
  BY <1>1 DEF CurrentOf, ChargeOf

LEMMA Who ==
  ASSUME NEW table, Stored(table), OneCurrent(table)
  PROVE  \/ /\ ChargeOf(table) = None /\ CurrentOf(table) = None /\ CurrentIds(table) = {}
            /\ \A i \in Ids : table[i].slot # "current"
         \/ \E i \in Ids :
              /\ table[i].slot = "current" /\ table[i].status = "active" /\ table[i].db \in Dbs
              /\ i # None /\ table[i].db # None
              /\ CurrentIds(table) = {i} /\ CurrentOf(table) = i /\ ChargeOf(table) = table[i].db
<1>1. CASE \A i \in Ids : table[i].slot # "current"
  <2>1. CurrentIds(table) = {}
    BY <1>1 DEF CurrentIds, IdsOf
  <2> QED
    BY <1>1, <2>1 DEF ChargeOf, CurrentOf
<1>2. ASSUME NEW i \in Ids, table[i].slot = "current"
      PROVE  /\ table[i].slot = "current" /\ table[i].status = "active" /\ table[i].db \in Dbs
             /\ i # None /\ table[i].db # None
             /\ CurrentIds(table) = {i} /\ CurrentOf(table) = i /\ ChargeOf(table) = table[i].db
  <2>1. table[i].status = "active" /\ table[i].db \in Dbs
    BY <1>2 DEF Stored, NoRow
  <2> QED
    BY <1>2, <2>1, OneRow, StorageMigrationAssumption DEF Ids
<1> QED
  BY <1>1, <1>2

\* An import leaves new of table, and keys that describe d.
Staged(table, new, d) ==
  /\ new \in [Ids -> RowType] /\ Sound(new)
  /\ ChargeOf(new) \in Dbs /\ ChargeOf(new) = d
  /\ ChargeOf(table) # None => ChargeOf(new) = ChargeOf(table)
  /\ \/ ChargeOf(table) # None /\ table[ChargeOf(table)].slot = "migration"
     \/ new[ChargeOf(new)].slot # "migration"

\* What an import makes of the table it has read.
LEMMA ImportedTable ==
  ASSUME NEW c \in Ctls, NEW base \in Dbs, NEW external \in Dbs \cup {None}, external # base,
         NEW table, table = profiles[on[c]], table \in [Ids -> RowType], Sound(table),
         cur[c] = CurrentOf(table), goal[c] = ChargeOf(table),
         NEW new, new = Imported(c, base, external)
  PROVE  Staged(table, new, KeysImported(c, base, external))
<1> USE StorageMigrationAssumption DEF Ids, RowType, Staged
<1> DEFINE t == Target(base, external)
<1>0. t \in Dbs /\ Stored(table) /\ OneCurrent(table) /\ HasCurrent(table)
  BY DEF Target, Sound
<1>1. CASE ChargeOf(table) = None
  <2>1. /\ CurrentOf(table) = None /\ \A i \in Ids : table[i] = NoRow
    BY <1>0, <1>1, Who DEF HasCurrent
  <2>2. CASE external = None
    <3>1. ~StorageChanged(c, base, external) /\ t = base
      BY <2>1, <2>2 DEF StorageChanged, Bootstraps, Target
    <3>2. new = [table EXCEPT ![Initial] = Row("current", "active", base)]
      BY <2>1, <3>1 DEF Imported, Upserted
    <3>3. new[Initial] = Row("current", "active", base) /\ \A i \in Ids \ {Initial} : new[i] = NoRow
      BY <2>1, <3>2
    <3>4. Stored(new) /\ OneCurrent(new) /\ HasCurrent(new)
      BY <3>3 DEF Stored, OneCurrent, HasCurrent, Row, NoRow
    <3>5. ChargeOf(new) = base
      BY <3>3, <3>4, OneRow DEF Row
    <3> QED
      BY <1>1, <3>1, <3>2, <3>3, <3>4, <3>5 DEF Sound, KeysImported, Target, Row, NoRow
  <2>3. CASE external # None
    <3>1. StorageChanged(c, base, external) /\ Bootstraps(c, external) /\ t = external
      BY <2>1, <2>3 DEF StorageChanged, Bootstraps, Target
    <3> DEFINE first == [table EXCEPT ![Initial] = Row("current", "active", base)]
    <3>2. first = Upserted(table, Initial, "current", "active", base)
      BY <2>1 DEF Upserted
    <3>3. first[Initial] = Row("current", "active", base) /\ \A i \in Ids \ {Initial} : first[i] = NoRow
      BY <2>1
    <3>4. Retired(first) = first
      BY <3>3 DEF Retired, Row, NoRow
    <3>5. new = [first EXCEPT ![external] = Row("migration", "migration_target", external)]
      <4>1. new = Upserted(Retired(first), t, "migration", "migration_target", t)
        BY <3>1, <3>2 DEF Imported
      <4> QED
        BY <2>3, <3>1, <3>3, <3>4, <4>1 DEF Upserted
    <3>6. /\ new[Initial] = Row("current", "active", base)
          /\ new[external] = Row("migration", "migration_target", external)
          /\ \A i \in Ids \ {Initial, external} : new[i] = NoRow
      BY <2>3, <3>3, <3>5
    <3>7. Stored(new) /\ OneCurrent(new) /\ HasCurrent(new)
      BY <2>3, <3>6 DEF Stored, OneCurrent, HasCurrent, Row, NoRow
    <3>8. ChargeOf(new) = base
      BY <3>6, <3>7, OneRow DEF Row
    <3> QED
      BY <1>1, <2>3, <3>1, <3>5, <3>6, <3>7, <3>8 DEF Sound, KeysImported, Row, NoRow
  <2> QED
    BY <2>2, <2>3
<1>2. CASE ChargeOf(table) # None
  <2>1. PICK k \in Ids :
          /\ table[k].slot = "current" /\ table[k].status = "active" /\ table[k].db \in Dbs
          /\ k # None /\ CurrentOf(table) = k /\ ChargeOf(table) = table[k].db
    BY <1>0, <1>2, Who
  <2>2. cur[c] = k /\ goal[c] = table[k].db /\ ~Bootstraps(c, external)
    BY <2>1 DEF Bootstraps
  <2>3. CASE goal[c] = t
    <3>1. ~StorageChanged(c, base, external)
      BY <2>2, <2>3 DEF StorageChanged
    <3>2. new = [table EXCEPT ![k] = Row("current", "active", t)]
      BY <2>1, <2>2, <3>1 DEF Imported, Upserted, NoRow
    <3>3. table[k] = Row("current", "active", t)
      BY <2>1, <2>2, <2>3 DEF Row
    <3>4. new = table
      BY <3>2, <3>3
    <3> QED
      BY <1>0, <1>2, <2>1, <2>2, <2>3, <3>1, <3>4 DEF Sound, KeysImported
  <2>4. CASE goal[c] # t
    <3>1. StorageChanged(c, base, external)
      BY <2>1, <2>2, <2>4 DEF StorageChanged
    <3>2. new = Upserted(Retired(table), t, "migration", "migration_target", t)
      BY <2>2, <3>1 DEF Imported
    <3>3. k # t /\ table[t].slot # "current"
      BY <1>0, <2>1, <2>2, <2>4 DEF Stored, OneCurrent, NoRow
    <3>4. /\ \A i \in Ids \ {t} :
               new[i] = IF table[i].slot = "migration"
                        THEN Row("historical", "superseded", table[i].db) ELSE table[i]
          /\ new[t] \in {Row("migration", "migration_target", t),
                         Row("historical", "migration_target", t),
                         Row("none", "migration_target", t)}
          /\ new \in [Ids -> RowType]
      <4>1. Retired(table) \in [Ids -> RowType]
        BY <1>0 DEF Retired, Row
      <4>2. Retired(table)[t].slot \in {"none", "historical"}
        BY <1>0, <3>3 DEF Retired, Row
      <4> DEFINE old == Retired(table)
                 row == Row(IF old[t] = NoRow THEN "migration" ELSE old[t].slot,
                            "migration_target", t)
      <4>3. new = [old EXCEPT ![t] = row]
        BY <3>2 DEF Upserted
      <4>4. row \in RowType /\ row \in {Row("migration", "migration_target", t),
                                        Row("historical", "migration_target", t),
                                        Row("none", "migration_target", t)}
        BY <1>0, <4>2 DEF Row
      <4>5. \A i \in Ids : old[i] = IF table[i].slot = "migration"
                                    THEN Row("historical", "superseded", table[i].db) ELSE table[i]
        BY DEF Retired
      <4> HIDE DEF old, row
      <4>6. new[t] = row /\ new \in [Ids -> RowType] /\ \A i \in Ids \ {t} : new[i] = old[i]
        BY <1>0, <4>1, <4>3, <4>4 DEF old
      <4> QED
        BY <4>4, <4>5, <4>6
    <3>5. new[k] = table[k]
      BY <2>1, <3>3, <3>4
    <3>b. /\ new[t].slot # "current" /\ new[t].db = t
          /\ \A i \in Ids \ {t} : table[i].slot = "migration" =>
               new[i].slot = "historical" /\ new[i].db = table[i].db
      <4>1. new[t].slot # "current" /\ new[t].db = t
        BY <3>4 DEF Row
      <4>2. ASSUME NEW i \in Ids \ {t}, table[i].slot = "migration"
            PROVE  new[i].slot = "historical" /\ new[i].db = table[i].db
        <5>1. new[i] = Row("historical", "superseded", table[i].db)
          BY <3>4, <4>2
        <5> QED
          BY <5>1 DEF Row
      <4> QED
        BY <4>1, <4>2
    <3>a. ASSUME NEW i \in Ids
          PROVE  /\ new[i].slot = "current" => new[i] = table[i]
                 /\ new[i].slot = "migration" => i = t
                 /\ new[i] # NoRow => \/ i = t /\ new[i].db = t
                                      \/ table[i] # NoRow /\ new[i].db = table[i].db
      <4>1. CASE i = t
        BY <3>b, <4>1
      <4>2. CASE i # t /\ table[i].slot = "migration"
        BY <3>b, <4>2 DEF NoRow
      <4>3. CASE i # t /\ table[i].slot # "migration"
        BY <3>4, <4>3
      <4> QED
        BY <4>1, <4>2, <4>3
    <3>6. Stored(new)
      BY <1>0, <3>a DEF Stored
    <3>7. OneCurrent(new)
      BY <1>0, <3>a DEF OneCurrent
    <3>8. HasCurrent(new)
      BY <2>1, <3>5 DEF HasCurrent
    <3>9. ChargeOf(new) = table[k].db
      BY <2>1, <3>5, <3>7, OneRow
    <3>10. table[ChargeOf(table)].slot = "migration" \/ new[ChargeOf(table)].slot # "migration"
      BY <2>1, <2>2, <2>4, <3>a
    <3> QED
      BY <1>2, <2>1, <2>2, <3>1, <3>4, <3>6, <3>7, <3>8, <3>9, <3>10 DEF Sound, KeysImported
  <2> QED
    BY <2>3, <2>4
<1> QED
  BY <1>1, <1>2

\* The table of a target that was filled.
LEMMA HandedTable ==
  ASSUME NEW c \in Ctls, goal[c] \in Dbs, NEW new, new = Handed(c)
  PROVE  /\ new \in [Ids -> RowType] /\ Sound(new) /\ Indexed(new)
         /\ ChargeOf(new) = goal[c] /\ new[goal[c]].slot = "current"
         /\ new[goal[c]].status = "active"
<1> USE StorageMigrationAssumption DEF Ids, RowType
<1>1. /\ new[goal[c]] = Row("current", "active", goal[c])
      /\ \A i \in Ids \ {goal[c]} : new[i] = NoRow
      /\ new \in [Ids -> RowType]
  BY DEF Handed, Row, NoRow
<1>2. Stored(new) /\ OneCurrent(new) /\ HasCurrent(new)
  BY <1>1 DEF Stored, OneCurrent, HasCurrent, Row, NoRow
<1>3. CurrentIds(new) = {goal[c]} /\ ChargeOf(new) = goal[c]
  BY <1>1, <1>2, OneRow DEF Row
<1>4. {i \in Ids : new[i].slot = "migration"} = {}
  BY <1>1 DEF Row, NoRow
<1>5. Indexed(new)
  <2>1. Cardinality({goal[c]}) = 1
    BY FS_Singleton
  <2>2. Cardinality({i \in Ids : new[i].slot = "migration"}) = 0
    BY <1>4, FS_EmptySet
  <2>3. Cardinality(CurrentIds(new)) = 1
    BY <1>3, <2>1
  <2> QED
    BY <2>2, <2>3 DEF Indexed
<1> QED
  BY <1>1, <1>2, <1>3, <1>5 DEF Sound, Row

\* The table of the source after a target was promoted.
LEMMA PromotedTable ==
  ASSUME NEW c \in Ctls, NEW table, table = profiles[on[c]], table \in [Ids -> RowType], Sound(table),
         cur[c] = CurrentOf(table), ChargeOf(table) # None,
         goal[c] \in Dbs, table[goal[c]].slot = "migration",
         NEW new, new = Promoted(c)
  PROVE  new \in [Ids -> RowType] /\ Sound(new) /\ ChargeOf(new) = goal[c]
<1> USE StorageMigrationAssumption DEF Ids, RowType
<1>0. Stored(table) /\ OneCurrent(table)
  BY DEF Sound
<1>1. PICK k \in Ids : table[k].slot = "current" /\ CurrentOf(table) = k
  BY <1>0, Who
<1>2. table[goal[c]].db = goal[c] /\ table[goal[c]] # NoRow /\ goal[c] # k
  BY <1>0, <1>1 DEF Stored, NoRow
<1>3. /\ new[goal[c]] = Row("current", "active", goal[c])
      /\ \A i \in Ids \ {goal[c]} :
           \/ new[i] = NoRow /\ table[i] = NoRow
           \/ i = k /\ new[i] = Row("historical", "superseded", table[i].db)
           \/ i # k /\ new[i] = table[i]
  BY <1>1, <1>2 DEF Promoted
<1>4. new \in [Ids -> RowType]
  BY DEF Promoted, Row, NoRow
<1>5. ASSUME NEW i \in Ids
      PROVE  /\ new[i].slot = "current" => i = goal[c]
             /\ new[i].slot = "migration" => table[i].slot = "migration"
             /\ new[i] # NoRow => table[i] # NoRow /\ new[i].db = table[i].db
  <2>1. CASE i = goal[c]
    BY <1>2, <1>3, <2>1 DEF Row
  <2>2. CASE i = k
    <3>1. table[k] # NoRow
      BY <1>1 DEF NoRow
    <3>2. new[k] = Row("historical", "superseded", table[k].db)
      BY <1>2, <1>3, <3>1
    <3>3. new[k].slot = "historical" /\ new[k].db = table[k].db
      BY <3>2 DEF Row
    <3> QED
      BY <2>2, <3>1, <3>3
  <2>3. CASE i \notin {k, goal[c]}
    BY <1>0, <1>1, <1>3, <2>3 DEF OneCurrent
  <2> QED
    BY <2>1, <2>2, <2>3
<1>6. Stored(new) /\ OneCurrent(new) /\ HasCurrent(new)
  BY <1>0, <1>3, <1>5 DEF Stored, OneCurrent, HasCurrent, Row
<1>7. ChargeOf(new) = goal[c]
  BY <1>3, <1>6, OneRow DEF Row
<1> QED
  BY <1>4, <1>6, <1>7 DEF Sound

\* Marking a target does not change who is in charge.
LEMMA FailedTable ==
  ASSUME NEW c \in Ctls, NEW table, table = profiles[on[c]], table \in [Ids -> RowType], Sound(table),
         goal[c] \in Dbs, table[goal[c]].slot = "migration", Indexed(table),
         NEW new, new = Failed(c)
  PROVE  /\ new \in [Ids -> RowType] /\ Sound(new) /\ Indexed(new)
         /\ ChargeOf(new) = ChargeOf(table)
         /\ \A i \in Ids : new[i].slot = table[i].slot
<1> USE StorageMigrationAssumption DEF Ids, RowType
<1>0. Stored(table) /\ OneCurrent(table) /\ HasCurrent(table)
  BY DEF Sound
<1>1. /\ new \in [Ids -> RowType]
      /\ new[goal[c]] = Row("migration", "migration_failed", table[goal[c]].db)
      /\ \A i \in Ids \ {goal[c]} : new[i] = table[i]
  BY DEF Failed, Row, NoRow
<1>2. \A i \in Ids : new[i].slot = table[i].slot /\ new[i].db = table[i].db
  BY <1>1 DEF Row
<1>3. CurrentIds(new) = CurrentIds(table)
  BY <1>1 DEF CurrentIds, IdsOf, Row
<1>4. {i \in Ids : new[i].slot = "migration"} = {i \in Ids : table[i].slot = "migration"}
  BY <1>2
<1>5. ChargeOf(new) = ChargeOf(table)
  <2>1. CASE CurrentIds(table) = {}
    BY <1>3, <2>1 DEF ChargeOf
  <2>2. CASE CurrentIds(table) # {}
    <3>1. (CHOOSE i \in CurrentIds(table) : TRUE) \in Ids
      BY <2>2 DEF CurrentIds, IdsOf
    <3> QED
      BY <1>2, <1>3, <2>2, <3>1 DEF ChargeOf
  <2> QED
    BY <2>1, <2>2
<1>6. Stored(new) /\ OneCurrent(new)
  BY <1>0, <1>1, <1>2 DEF Stored, OneCurrent, Row, NoRow
<1>7. HasCurrent(new)
  BY <1>0, <1>2 DEF HasCurrent, NoRow
<1> QED
  BY <1>1, <1>2, <1>3, <1>4, <1>5, <1>6, <1>7 DEF Sound, Indexed

-----------------------------------------------------------------------------
(* All tables *)

ProfilesOK == profiles \in [Dbs -> [Ids -> RowType]] /\ \A d \in Dbs : Indexed(profiles[d])

LEMMA Profiles == TypeOK => ProfilesOK
BY DEF TypeOK, ProfilesOK, RowType

LEMMA SameTables ==
  ASSUME ProfilesOK, Tables, NotItself, UNCHANGED profiles
  PROVE  /\ ProfilesOK' /\ Tables' /\ NotItself'
         /\ \A d \in Dbs : Charge(d)' = Charge(d) /\ CurrentId(d)' = CurrentId(d)
<1>1. \A d \in Dbs : Charge(d)' = Charge(d) /\ CurrentId(d)' = CurrentId(d)
  BY ChargeTable
<1> QED
  BY <1>1 DEF ProfilesOK, Tables, NotItself

LEMMA OneTable ==
  ASSUME ProfilesOK, Tables, NEW d \in Dbs, NEW new, new \in [Ids -> RowType],
         profiles' = [profiles EXCEPT ![d] = new], Sound(new), Indexed(new)
  PROVE  /\ ProfilesOK' /\ Tables' /\ profiles'[d] = new
         /\ Charge(d)' = ChargeOf(new) /\ CurrentId(d)' = CurrentOf(new)
         /\ \A x \in Dbs \ {d} :
              /\ profiles'[x] = profiles[x]
              /\ Charge(x)' = Charge(x) /\ CurrentId(x)' = CurrentId(x)
<1>1. profiles'[d] = new /\ \A x \in Dbs \ {d} : profiles'[x] = profiles[x]
  BY DEF ProfilesOK
<1>2. Charge(d)' = ChargeOf(new) /\ CurrentId(d)' = CurrentOf(new)
  BY <1>1, ChargeTable
<1>3. \A x \in Dbs \ {d} : Charge(x)' = Charge(x) /\ CurrentId(x)' = CurrentId(x)
  BY <1>1, ChargeTable
<1>4. ProfilesOK'
  BY <1>1 DEF ProfilesOK
<1>5. Tables'
  BY <1>1 DEF Tables
<1> QED
  BY <1>1, <1>2, <1>3, <1>4, <1>5

LEMMA Charges ==
  ASSUME ProfilesOK, Tables, NEW d \in Dbs
  PROVE  /\ Charge(d) \in Dbs \cup {None}
         /\ Charge(d) # None => CurrentId(d) \in Ids
         /\ CurrentId(d) \in Ids \cup {None}
BY ChargeTable, Who DEF Tables, Sound

(* Phases *)

LEMMA NotAstray ==
  ASSUME Unset \/ Astray \/ Settled, Charge(dsn) \in {None, dsn}
  PROVE  Unset \/ Settled
BY StorageMigrationAssumption DEF Astray, Ids

LEMMA SamePhase ==
  ASSUME ProfilesOK, Tables, dsn \in Dbs, serving \in Dbs \cup {None}, Unset \/ Settled,
         \A d \in Dbs : Charge(d)' = Charge(d) /\ rows[d] \subseteq rows'[d],
         UNCHANGED <<dsn, durable, serving>>
  PROVE  Unset' \/ Settled'
<1> USE StorageMigrationAssumption DEF Ids
<1>0. \A d \in Dbs : Charge(d) \in Dbs \cup {None}
  BY Charges
<1>1. CASE Unset
  <2>1. Charge(dsn)' = None \/ Charge(Charge(dsn))' = None
    BY <1>0, <1>1 DEF Unset
  <2>2. \A x \in Dbs \ {dsn} : Charge(x)' # None => Charge(x)' = dsn \/ Charge(Charge(x))' # None
    BY <1>0, <1>1 DEF Unset
  <2> QED
    BY <1>0, <1>1, <2>1, <2>2 DEF Unset
<1>2. CASE Settled
  BY <1>0, <1>2 DEF Settled
<1> QED
  BY <1>1, <1>2

-----------------------------------------------------------------------------
(* The steps.  Alone, the thelper-ctl that takes a step is the only one.   *)

OthersOK ==
  /\ keys \in [Dbs -> Dbs \cup {None}]
  /\ rows \in [Dbs -> SUBSET Facts]
  /\ writer \in [Dbs -> Ctls \cup {None}]
  /\ at \in [Ctls -> {"idle", "import", "staged", "open", "copy1", "copy2",
                      "copy3", "commit", "promote"}]
  /\ on \in [Ctls -> Dbs \cup {None}]
  /\ cur \in [Ctls -> Ids \cup {None}]
  /\ goal \in [Ctls -> Ids \cup {None}]
  /\ copy \in [Ctls -> SUBSET Facts]
  /\ dsn \in Dbs /\ serving \in Dbs \cup {None} /\ durable \subseteq Facts

Complete ==
  \A d \in Dbs :
    Charge(d) # None /\ Charge(d)' # Charge(d)
      => /\ Charge(d)' \in Dbs
         /\ durable \subseteq rows'[Charge(d)']
         /\ \E i \in Ids : /\ profiles'[Charge(d)'][i].slot = "current"
                           /\ profiles'[Charge(d)'][i].status = "active"

LEMMA Parts == TypeOK <=> ProfilesOK /\ OthersOK
BY DEF TypeOK, ProfilesOK, OthersOK, RowType

LEMMA Busy ==
  ASSUME MigrationInv, NEW c \in Ctls, at[c] # "idle"
  PROVE  /\ Charge(dsn) \in {None, dsn} /\ on[c] = dsn /\ cur[c] = CurrentId(dsn)
         /\ Unset \/ Settled
         /\ Charge(dsn) = dsn => Settled
BY NotAstray, StorageMigrationAssumption DEF MigrationInv, Ctl, Unset, OthersOK, TypeOK, Ids

LEMMA AllIdle ==
  ASSUME Alone, OthersOK, NEW c \in Ctls, Leave(c)
  PROVE  Ctl' /\ \A b \in Ctls : at'[b] = "idle"
BY DEF Alone, OthersOK, Leave, Ctl

\* A step that changes neither a database nor the server.
LEMMA Quiet ==
  ASSUME MigrationInv, UNCHANGED <<profiles, keys, rows, dsn, serving, durable>>,
         OthersOK', Ctl', Charge(dsn) \in {None, dsn}
  PROVE  MigrationInv' /\ Complete
<1>1. ProfilesOK /\ OthersOK /\ Tables /\ NotItself /\ (Unset \/ Settled)
  BY Parts, NotAstray DEF MigrationInv
<1>2. /\ ProfilesOK' /\ Tables' /\ NotItself'
      /\ \A d \in Dbs : Charge(d)' = Charge(d) /\ CurrentId(d)' = CurrentId(d)
  BY <1>1, SameTables
<1>3. Unset' \/ Settled'
  BY <1>1, <1>2, SamePhase DEF OthersOK
<1>4. KeysDescribe' /\ NothingLost'
  BY <1>2 DEF MigrationInv, KeysDescribe, NothingLost
<1>5. TypeOK'
  BY <1>2, Parts DEF TypeOK, ProfilesOK, OthersOK, RowType
<1>6. Complete
  BY <1>2 DEF Complete
<1> QED
  BY <1>2, <1>3, <1>4, <1>5, <1>6 DEF MigrationInv

LEMMA ReadForImportStep ==
  ASSUME Alone, MigrationInv, NEW c \in Ctls, ReadForImport(c)
  PROVE  MigrationInv' /\ Complete
<1>1. ProfilesOK /\ OthersOK /\ Tables /\ NotItself
  BY Parts DEF MigrationInv
<1>2. \A d \in Dbs : Charge(d)' = Charge(d) /\ CurrentId(d)' = CurrentId(d)
  BY <1>1, SameTables DEF ReadForImport
<1>3. /\ Charge(dsn) \in {None, dsn}
      /\ at' = [at EXCEPT ![c] = "import"]
      /\ on' = [on EXCEPT ![c] = dsn]
      /\ cur' = [cur EXCEPT ![c] = CurrentId(dsn)]
      /\ goal' = [goal EXCEPT ![c] = Charge(dsn)]
  BY DEF ReadForImport, Step, Open, Alone
<1>4. Charge(dsn) \in Ids \cup {None} /\ CurrentId(dsn) \in Ids \cup {None}
  BY <1>1, Charges DEF OthersOK, Ids
<1>5. OthersOK'
  BY <1>1, <1>3, <1>4 DEF OthersOK, ReadForImport
<1>6. Ctl'
  <2>1. \A b \in Ctls : b = c /\ at'[b] = "import" /\ on'[b] = dsn /\ cur'[b] = CurrentId(dsn)
                        /\ goal'[b] = Charge(dsn)
    BY <1>1, <1>3 DEF Alone, OthersOK
  <2>2. dsn' = dsn /\ dsn \in Dbs
    BY <1>1 DEF ReadForImport, OthersOK
  <2> QED
    BY <1>2, <1>3, <2>1, <2>2 DEF Ctl
<1> QED
  BY <1>3, <1>5, <1>6, Quiet DEF ReadForImport

LEMMA ReadCurrentStep ==
  ASSUME Alone, MigrationInv, NEW c \in Ctls, ReadCurrent(c)
  PROVE  MigrationInv' /\ Complete
<1>1. ProfilesOK /\ OthersOK /\ Tables /\ NotItself
  BY Parts DEF MigrationInv
<1>2. \A d \in Dbs : Charge(d)' = Charge(d) /\ CurrentId(d)' = CurrentId(d)
  BY <1>1, SameTables DEF ReadCurrent
<1>3. /\ Charge(dsn) = dsn
      /\ at' = [at EXCEPT ![c] = "staged"]
      /\ on' = [on EXCEPT ![c] = dsn]
      /\ cur' = [cur EXCEPT ![c] = CurrentId(dsn)]
  BY DEF ReadCurrent, Step, Open, Alone
<1>4. CurrentId(dsn) \in Ids \cup {None}
  BY <1>1, Charges DEF OthersOK
<1>5. OthersOK'
  BY <1>1, <1>3, <1>4 DEF OthersOK, ReadCurrent
<1>6. Ctl'
  <2>1. \A b \in Ctls : b = c /\ at'[b] = "staged" /\ on'[b] = dsn /\ cur'[b] = CurrentId(dsn)
    BY <1>1, <1>3 DEF Alone, OthersOK
  <2>2. dsn' = dsn /\ dsn \in Dbs
    BY <1>1 DEF ReadCurrent, OthersOK
  <2> QED
    BY <1>2, <1>3, <2>1, <2>2 DEF Ctl
<1> QED
  BY <1>3, <1>5, <1>6, Quiet DEF ReadCurrent

LEMMA ReadStagedStep ==
  ASSUME Alone, MigrationInv, NEW c \in Ctls, ReadStaged(c)
  PROVE  MigrationInv' /\ Complete
<1>1. ProfilesOK /\ OthersOK /\ Tables /\ NotItself /\ Ctl
  BY Parts DEF MigrationInv
<1>2. \A d \in Dbs : Charge(d)' = Charge(d) /\ CurrentId(d)' = CurrentId(d)
  BY <1>1, SameTables DEF ReadStaged
<1>3. on[c] = dsn /\ Charge(dsn) = dsn /\ cur[c] = CurrentId(dsn) /\ dsn' = dsn /\ dsn \in Dbs
  BY <1>1 DEF ReadStaged, Ctl, OthersOK
<1>4. CASE Leave(c)
  <2>1. OthersOK'
    BY <1>1, <1>4 DEF ReadStaged, Leave, OthersOK
  <2> QED
    BY <1>1, <1>3, <1>4, <2>1, AllIdle, Quiet DEF ReadStaged
<1>5. ASSUME NEW i \in StagedIds(profiles[dsn]), at' = [at EXCEPT ![c] = "open"],
             goal' = [goal EXCEPT ![c] = i], UNCHANGED <<on, cur, copy>>
      PROVE  MigrationInv' /\ Complete
  <2>1. i \in Ids /\ profiles[dsn][i].slot = "migration"
    BY <1>5 DEF StagedIds, IdsOf
  <2>2. i \in Dbs \ {dsn}
    BY <1>1, <1>3, <2>1 DEF Tables, Sound, Stored, NotItself
  <2>3. OthersOK'
    BY <1>1, <1>5, <2>1 DEF ReadStaged, OthersOK
  <2>4. \A b \in Ctls : b = c /\ at'[b] = "open" /\ on'[b] = dsn /\ cur'[b] = CurrentId(dsn)
                        /\ goal'[b] = i
    BY <1>1, <1>3, <1>5 DEF Alone, OthersOK
  <2>5. profiles' = profiles
    BY DEF ReadStaged
  <2>6. Ctl'
    BY <1>2, <1>3, <2>1, <2>2, <2>4, <2>5 DEF Ctl
  <2> QED
    BY <1>3, <2>3, <2>6, Quiet DEF ReadStaged
<1> QED
  BY <1>3, <1>4, <1>5 DEF ReadStaged

LEMMA BeginCopyStep ==
  ASSUME Alone, MigrationInv, NEW c \in Ctls, BeginCopy(c)
  PROVE  MigrationInv' /\ Complete
<1>1. ProfilesOK /\ OthersOK /\ Tables /\ NotItself /\ Ctl
  BY Parts DEF MigrationInv
<1>2. \A d \in Dbs : Charge(d)' = Charge(d) /\ CurrentId(d)' = CurrentId(d)
  BY <1>1, SameTables DEF BeginCopy
<1>3. /\ on[c] = dsn /\ Charge(dsn) = dsn /\ cur[c] = CurrentId(dsn) /\ dsn \in Dbs
      /\ goal[c] \in Dbs \ {dsn} /\ profiles[dsn][goal[c]].slot = "migration"
  BY <1>1 DEF BeginCopy, Step, Ctl, OthersOK
<1>4. OthersOK'
  BY <1>1 DEF BeginCopy, Step, OthersOK
<1>5. \A b \in Ctls : b = c /\ at'[b] = "copy1"
  BY <1>1 DEF Alone, OthersOK, BeginCopy, Step
<1>6. UNCHANGED <<profiles, on, cur, goal, dsn>>
  BY DEF BeginCopy
<1>7. Ctl'
  BY <1>2, <1>3, <1>5, <1>6 DEF Ctl
<1> QED
  BY <1>3, <1>4, <1>7, Quiet DEF BeginCopy

\* One group is copied: what was durable in it is in the copy.
LEMMA CopyStep ==
  ASSUME Alone, MigrationInv, NEW c \in Ctls, NEW g \in Groups, CopyGroup(c, g),
         \/ g = 1 /\ Step(c, "copy1", "copy2")
         \/ g = 2 /\ Step(c, "copy2", "copy3")
         \/ g = 3 /\ Step(c, "copy3", "commit")
  PROVE  MigrationInv' /\ Complete
<1>1. ProfilesOK /\ OthersOK /\ Tables /\ NotItself /\ Ctl
  BY Parts DEF MigrationInv
<1>2. \A d \in Dbs : Charge(d)' = Charge(d) /\ CurrentId(d)' = CurrentId(d)
  BY <1>1, SameTables DEF CopyGroup
<1>3. /\ on[c] = dsn /\ Charge(dsn) = dsn /\ cur[c] = CurrentId(dsn) /\ dsn \in Dbs
      /\ goal[c] \in Dbs \ {dsn} /\ profiles[dsn][goal[c]].slot = "migration"
  BY <1>1 DEF Step, Ctl, OthersOK
<1>4. durable \subseteq rows[dsn] /\ durable \subseteq Facts
  <2>1. Settled
    BY <1>3, Busy DEF Step
  <2> QED
    BY <1>1, <1>3, <2>1 DEF Settled, OthersOK
<1>5. /\ copy' = [copy EXCEPT ![c] = copy[c] \cup {f \in rows[dsn] : Group[f] = g}]
      /\ UNCHANGED <<profiles, on, cur, goal, dsn, durable>>
  BY <1>3 DEF CopyGroup
<1>6. copy'[c] = copy[c] \cup {f \in rows[dsn] : Group[f] = g}
  BY <1>1, <1>5 DEF OthersOK
<1>7. OthersOK'
  BY <1>1, <1>3, <1>5 DEF CopyGroup, Step, OthersOK
<1>8. g = 1 \/ Copied(c, g)
  BY <1>1 DEF Step, Ctl
<1>9. Copied(c, g + 1)'
  BY <1>4, <1>5, <1>6, <1>8, StorageMigrationAssumption DEF Copied, Groups
<1>10. \A b \in Ctls : b = c
  BY DEF Alone
<1>11. /\ g = 1 => at'[c] = "copy2"
       /\ g = 2 => at'[c] = "copy3"
       /\ g = 3 => at'[c] = "commit"
       /\ at'[c] \in {"copy2", "copy3", "commit"}
  BY <1>1 DEF Step, OthersOK
<1>12. /\ at'[c] = "copy2" => Copied(c, 2)'
       /\ at'[c] = "copy3" => Copied(c, 3)'
       /\ at'[c] = "commit" => Copied(c, 4)'
  BY <1>9, <1>11 DEF Groups
<1>13. Ctl'
  <2> SUFFICES ASSUME NEW b \in Ctls, b = c
               PROVE  /\ on'[b] = dsn /\ cur'[b] = CurrentId(dsn) /\ Charge(dsn)' = dsn
                      /\ goal'[b] \in Dbs \ {dsn} /\ profiles'[dsn][goal'[b]].slot = "migration"
                      /\ at'[b] = "copy2" => Copied(b, 2)'
                      /\ at'[b] = "copy3" => Copied(b, 3)'
                      /\ at'[b] = "commit" => Copied(b, 4)'
                      /\ at'[b] \in {"copy2", "copy3", "commit"}
    BY <1>2, <1>3, <1>5, <1>10 DEF Ctl
  <2> QED
    BY <1>2, <1>3, <1>5, <1>11, <1>12
<1> QED
  BY <1>3, <1>7, <1>13, Quiet DEF CopyGroup

LEMMA ImportStep ==
  ASSUME Alone, MigrationInv, NEW c \in Ctls, Import(c)
  PROVE  MigrationInv' /\ Complete
<1>1. ProfilesOK /\ OthersOK /\ Tables /\ NotItself /\ Ctl
  BY Parts DEF MigrationInv
<1>2. /\ on[c] = dsn /\ Charge(dsn) \in {None, dsn} /\ cur[c] = CurrentId(dsn) /\ dsn \in Dbs
      /\ goal[c] = Charge(dsn)
  BY <1>1 DEF Import, Ctl, OthersOK
<1>3. PICK base \in Dbs, external \in Dbs \cup {None} :
        /\ external # base /\ Indexed(Imported(c, base, external))
        /\ profiles' = [profiles EXCEPT ![dsn] = Imported(c, base, external)]
        /\ keys' = [keys EXCEPT ![dsn] = KeysImported(c, base, external)]
  BY <1>2 DEF Import
<1>a. PICK table, new : table = profiles[dsn] /\ new = Imported(c, base, external)
  OBVIOUS
<1>b. PICK e, b : e = dsn /\ b = ChargeOf(new)
  OBVIOUS
<1>4. UNCHANGED <<rows, writer, dsn, serving, durable>> /\ Leave(c)
  BY DEF Import
<1>5. /\ table = profiles[on[c]] /\ table \in [Ids -> RowType] /\ Sound(table)
      /\ CurrentId(dsn) = CurrentOf(table) /\ Charge(dsn) = ChargeOf(table)
  BY <1>1, <1>2, <1>a, ChargeTable DEF ProfilesOK, Tables
<1>6. /\ new \in [Ids -> RowType] /\ Sound(new)
      /\ b \in Dbs /\ b = KeysImported(c, base, external)
      /\ Charge(dsn) # None => b = Charge(dsn)
      /\ \/ Charge(dsn) # None /\ table[Charge(dsn)].slot = "migration"
         \/ new[b].slot # "migration"
  <2>1. cur[c] = CurrentOf(table) /\ goal[c] = ChargeOf(table)
    BY <1>2, <1>5
  <2>2. Staged(table, new, KeysImported(c, base, external))
    BY <1>3, <1>5, <1>a, <2>1, ImportedTable
  <2> QED
    BY <1>5, <1>b, <2>2 DEF Staged
<1>7. /\ ProfilesOK' /\ Tables' /\ profiles'[dsn] = new
      /\ Charge(dsn)' = b
      /\ \A x \in Dbs \ {dsn} : profiles'[x] = profiles[x] /\ Charge(x)' = Charge(x)
  <2>1. profiles' = [profiles EXCEPT ![e] = new] /\ Indexed(new) /\ e \in Dbs
    BY <1>2, <1>3, <1>a, <1>b
  <2>2. /\ ProfilesOK' /\ Tables' /\ profiles'[e] = new
        /\ Charge(e)' = ChargeOf(new)
        /\ \A x \in Dbs \ {e} : profiles'[x] = profiles[x] /\ Charge(x)' = Charge(x)
    BY <1>1, <1>6, <2>1, OneTable
  <2> QED
    BY <1>4, <1>b, <2>2
<1>8. NotItself'
  <2>1. b = dsn => new[dsn].slot # "migration"
    BY <1>1, <1>2, <1>6, <1>a, StorageMigrationAssumption DEF NotItself, Ids
  <2> QED
    BY <1>1, <1>4, <1>7, <2>1 DEF NotItself
<1>9. OthersOK'
  <2>1. keys' \in [Dbs -> Dbs \cup {None}]
    BY <1>1, <1>3, <1>6 DEF OthersOK
  <2> QED
    BY <1>1, <1>4, <2>1 DEF OthersOK, Leave
<1>10. Ctl' /\ NothingLost'
  BY <1>1, <1>4, AllIdle DEF MigrationInv, NothingLost
<1>11. KeysDescribe'
  <2>1. keys'[dsn] = b /\ \A x \in Dbs \ {dsn} : keys'[x] = keys[x]
    BY <1>1, <1>2, <1>3, <1>6 DEF OthersOK
  <2> QED
    BY <1>2, <1>4, <1>7, <2>1 DEF MigrationInv, KeysDescribe
<1>12. Complete
  BY <1>2, <1>4, <1>6, <1>7 DEF Complete
<1>13. Unset' \/ Astray' \/ Settled'
  <2> USE StorageMigrationAssumption DEF Ids
  <2>0. \A x \in Dbs : Charge(x) \in Dbs \cup {None}
    BY <1>1, Charges
  <2>1. CASE Charge(dsn) # None
    <3>1. Settled /\ b = dsn /\ Charge(dsn) = dsn
      BY <1>2, <1>6, <2>1, Busy DEF Import
    <3> QED
      BY <1>4, <1>7, <3>1 DEF Settled
  <2>2. CASE Charge(dsn) = None
    <3>1. Unset
      BY <1>2, <2>2, Busy DEF Import, Settled
    <3>2. CASE b = dsn
      BY <1>2, <1>4, <1>7, <3>1, <3>2 DEF Unset, Settled
    <3>3. CASE b # dsn /\ Charge(b) = None
      <4>1. durable' = {} /\ \A x \in Dbs : Charge(x)' # x
        BY <1>4, <1>6, <1>7, <3>1, <3>3 DEF Unset
      <4>2. Charge(dsn)' = b /\ Charge(b)' = None /\ dsn' = dsn
        BY <1>4, <1>6, <1>7, <3>3
      <4>3. ASSUME NEW x \in Dbs \ {dsn}, Charge(x)' # None
            PROVE  Charge(x)' = dsn \/ Charge(Charge(x))' # None
        <5>1. Charge(x)' = Charge(x) /\ Charge(x) \in Dbs
          BY <1>7, <2>0, <4>3
        <5>2. CASE Charge(x) = dsn
          BY <5>1, <5>2
        <5>3. CASE Charge(x) # dsn
          <6>1. Charge(Charge(x)) # None
            BY <3>1, <5>1, <5>3 DEF Unset
          <6> QED
            BY <1>7, <5>1, <5>3, <6>1
        <5> QED
          BY <5>2, <5>3
      <4>4. serving' # None => serving' = dsn \/ Charge(serving)' # None
        BY <1>1, <1>4, <1>7, <3>1 DEF Unset, OthersOK
      <4>5. Charge(Charge(dsn))' = None
        <5>1. Charge(dsn)' = b /\ b' = b
          BY <4>2
        <5> QED
          BY <4>2, <5>1
      <4> QED
        BY <4>1, <4>2, <4>3, <4>4, <4>5 DEF Unset
    <3>4. CASE b # dsn /\ Charge(b) # None
      <4> DEFINE S == {x \in Dbs : Charge(x) # None} \cup {dsn}
      <4>1. ASSUME NEW x \in S PROVE Charge(x)' \in S \ {x}
        <5>1. CASE x = dsn
          BY <1>4, <1>6, <1>7, <3>4, <5>1
        <5>2. CASE x # dsn
          <6>1. Charge(x)' = Charge(x) /\ Charge(x) # None /\ Charge(x) # x
            BY <1>2, <1>7, <3>1, <5>2 DEF Unset
          <6>2. Charge(x) \in Dbs /\ (Charge(x) = dsn \/ Charge(Charge(x)) # None)
            BY <1>2, <2>0, <3>1, <5>2, <6>1 DEF Unset
          <6> QED
            BY <6>1, <6>2
        <5> QED
          BY <5>1, <5>2
      <4>2. \A a \in Ctls : at'[a] = "idle"
        BY <1>1, <1>4, AllIdle
      <4>3. S \in SUBSET Dbs /\ dsn' \in S
        BY <1>2, <1>4
      <4> QED
        BY <4>1, <4>2, <4>3 DEF Astray
    <3> QED
      BY <3>2, <3>3, <3>4
  <2> QED
    BY <2>1, <2>2
<1>14. TypeOK'
  BY <1>7, <1>9, Parts DEF TypeOK, ProfilesOK, OthersOK, RowType
<1> QED
  BY <1>7, <1>8, <1>10, <1>11, <1>12, <1>13, <1>14 DEF MigrationInv

LEMMA CommitCopyStep ==
  ASSUME Alone, MigrationInv, NEW c \in Ctls, CommitCopy(c)
  PROVE  MigrationInv' /\ Complete
<1> USE StorageMigrationAssumption DEF Ids
<1>a. PICK g, new : g = goal[c] /\ new = Handed(c)
  OBVIOUS
<1>1. ProfilesOK /\ OthersOK /\ Tables /\ NotItself /\ Ctl
  BY Parts DEF MigrationInv
<1>2. /\ on[c] = dsn /\ Charge(dsn) = dsn /\ cur[c] = CurrentId(dsn) /\ dsn \in Dbs
      /\ g \in Dbs /\ g # dsn /\ profiles[dsn][g].slot = "migration"
      /\ Copied(c, 4)
  BY <1>1, <1>a DEF CommitCopy, Step, Ctl, OthersOK
<1>3. Settled /\ durable \subseteq rows[dsn]
  BY <1>2, Busy DEF CommitCopy, Step, Settled
<1>4. durable \subseteq copy[c] /\ durable \subseteq Facts
  <2>1. \A f \in durable : Group[f] < 4
    BY <1>1 DEF OthersOK, Groups
  <2> QED
    BY <1>1, <1>2, <2>1 DEF Copied, OthersOK
<1>5. /\ new \in [Ids -> RowType] /\ Sound(new) /\ Indexed(new)
      /\ ChargeOf(new) = g /\ new[g].slot = "current" /\ new[g].status = "active"
  BY <1>2, <1>a, HandedTable
<1>6. /\ profiles' = [profiles EXCEPT ![g] = new] /\ keys' = [keys EXCEPT ![g] = g]
      /\ rows' = [rows EXCEPT ![g] = copy[c]] /\ writer' = [writer EXCEPT ![g] = None]
      /\ at[c] = "commit" /\ at' = [at EXCEPT ![c] = "promote"]
      /\ UNCHANGED <<on, cur, goal, copy, dsn, serving, durable>>
  BY <1>a DEF CommitCopy, Step, KeysCopied
<1>7. /\ ProfilesOK' /\ Tables' /\ profiles'[g] = new /\ Charge(g)' = g
      /\ \A x \in Dbs \ {g} : /\ profiles'[x] = profiles[x]
                              /\ Charge(x)' = Charge(x) /\ CurrentId(x)' = CurrentId(x)
  BY <1>1, <1>2, <1>5, <1>6, OneTable
<1>8. NotItself'
  BY <1>1, <1>5, <1>7 DEF NotItself
<1>9. OthersOK'
  BY <1>1, <1>2, <1>6 DEF OthersOK
<1>10. rows'[g] = copy[c] /\ \A x \in Dbs \ {g} : rows'[x] = rows[x]
  BY <1>1, <1>2, <1>6 DEF OthersOK
<1>11. Ctl'
  <2>1. \A x \in Ctls : x = c
    BY DEF Alone
  <2>2. /\ at'[c] = "promote" /\ on'[c] = dsn /\ cur'[c] = CurrentId(dsn)'
        /\ Charge(dsn)' = dsn /\ goal'[c] = g /\ profiles'[dsn][g].slot = "migration"
        /\ durable' \subseteq rows'[g] /\ dsn' = dsn
    BY <1>1, <1>2, <1>4, <1>6, <1>7, <1>10, <1>a DEF OthersOK
  <2>3. Charge(goal[c])' = goal'[c]
    BY <1>6, <1>7, <2>2
  <2>4. \A x \in Ctls :
          /\ x = c /\ at'[x] = "promote" /\ on'[x] = dsn' /\ cur'[x] = CurrentId(dsn)'
          /\ goal'[x] = g /\ Charge(goal[x])' = goal'[x]
    BY <2>1, <2>2, <2>3
  <2> QED
    BY <1>2, <2>2, <2>4 DEF Ctl
<1>12. KeysDescribe'
  <2>1. keys'[g] = g /\ \A x \in Dbs \ {g} : keys'[x] = keys[x]
    BY <1>1, <1>2, <1>6 DEF OthersOK
  <2> QED
    BY <1>7, <2>1 DEF MigrationInv, KeysDescribe
<1>13. NothingLost'
  BY <1>1, <1>4, <1>6, <1>10 DEF MigrationInv, NothingLost, OthersOK
<1>14. Settled'
  BY <1>2, <1>3, <1>6, <1>7, <1>10 DEF Settled
<1>15. Complete
  <2>1. /\ durable \subseteq rows'[g] /\ g \in Dbs /\ g \in Ids /\ Charge(g)' = g
        /\ profiles'[g][g].slot = "current" /\ profiles'[g][g].status = "active"
    BY <1>2, <1>4, <1>5, <1>7, <1>10
  <2> QED
    BY <1>7, <2>1 DEF Complete
<1>16. TypeOK'
  BY <1>7, <1>9, Parts DEF TypeOK, ProfilesOK, OthersOK, RowType
<1> QED
  BY <1>7, <1>8, <1>11, <1>12, <1>13, <1>14, <1>15, <1>16 DEF MigrationInv

LEMMA PromoteStep ==
  ASSUME Alone, MigrationInv, NEW c \in Ctls, Promote(c)
  PROVE  MigrationInv' /\ Complete
<1> USE StorageMigrationAssumption DEF Ids
<1>a. PICK g, table, new : g = goal[c] /\ table = profiles[dsn] /\ new = Promoted(c)
  OBVIOUS
<1>b. PICK e : e = dsn
  OBVIOUS
<1>1. ProfilesOK /\ OthersOK /\ Tables /\ NotItself /\ Ctl
  BY Parts DEF MigrationInv
<1>2. /\ on[c] = dsn /\ Charge(dsn) = dsn /\ cur[c] = CurrentId(dsn) /\ dsn \in Dbs
      /\ g \in Dbs /\ g # dsn /\ table[g].slot = "migration"
      /\ Charge(g) = g /\ durable \subseteq rows[g]
  BY <1>1, <1>a DEF Promote, Ctl, OthersOK
<1>3. UNCHANGED <<keys, rows, writer, dsn, serving, durable>> /\ Leave(c)
  BY DEF Promote
<1>4. OthersOK'
  BY <1>1, <1>3 DEF OthersOK, Leave
<1>5. Ctl'
  BY <1>1, <1>3, AllIdle
<1>6. CASE UNCHANGED profiles
  BY <1>2, <1>3, <1>4, <1>5, <1>6, Quiet
<1>7. CASE Indexed(new) /\ profiles' = [profiles EXCEPT ![dsn] = new]
  <2>1. /\ table = profiles[on[c]] /\ table \in [Ids -> RowType] /\ Sound(table)
        /\ CurrentId(dsn) = CurrentOf(table) /\ ChargeOf(table) # None
    BY <1>1, <1>2, <1>a, ChargeTable DEF ProfilesOK, Tables
  <2>2. new \in [Ids -> RowType] /\ Sound(new) /\ ChargeOf(new) = g
    BY <1>2, <1>a, <2>1, PromotedTable
  <2>3. /\ ProfilesOK' /\ Tables' /\ profiles'[dsn] = new /\ Charge(dsn)' = g
        /\ \A x \in Dbs \ {dsn} : profiles'[x] = profiles[x] /\ Charge(x)' = Charge(x)
    <3>1. profiles' = [profiles EXCEPT ![e] = new] /\ e \in Dbs
      BY <1>2, <1>7, <1>b
    <3>2. /\ ProfilesOK' /\ Tables' /\ profiles'[e] = new /\ Charge(e)' = ChargeOf(new)
          /\ \A x \in Dbs \ {e} : profiles'[x] = profiles[x] /\ Charge(x)' = Charge(x)
      BY <1>1, <1>7, <2>2, <3>1, OneTable
    <3> QED
      BY <1>3, <1>b, <2>2, <3>2
  <2>4. NotItself' /\ KeysDescribe' /\ NothingLost'
    BY <1>1, <1>2, <1>3, <2>3 DEF MigrationInv, NotItself, KeysDescribe, NothingLost
  <2>5. Settled'
    BY <1>2, <1>3, <2>3 DEF Settled
  <2>6. Complete
    <3>1. \E i \in Ids : profiles'[g][i].slot = "current" /\ profiles'[g][i].status = "active"
      <4>1. Charge(g) = ChargeOf(profiles[g]) /\ Sound(profiles[g])
        BY <1>1, <1>2, ChargeTable DEF Tables
      <4>2. ChargeOf(profiles[g]) # None
        BY <1>2, <4>1
      <4>3. \E i \in Ids : profiles[g][i].slot = "current" /\ profiles[g][i].status = "active"
        BY <4>1, <4>2, Who DEF Sound
      <4> QED
        BY <1>2, <2>3, <4>3
    <3>2. durable \subseteq rows'[g]
      BY <1>2, <1>3
    <3> QED
      BY <1>2, <1>3, <2>3, <3>1, <3>2 DEF Complete
  <2>7. TypeOK'
    BY <1>4, <2>3, Parts DEF TypeOK, ProfilesOK, OthersOK, RowType
  <2> QED
    BY <1>5, <2>3, <2>4, <2>5, <2>6, <2>7 DEF MigrationInv
<1> QED
  BY <1>2, <1>6, <1>7, <1>a DEF Promote

LEMMA FailStep ==
  ASSUME Alone, MigrationInv, NEW c \in Ctls, Fail(c)
  PROVE  MigrationInv' /\ Complete
<1> USE StorageMigrationAssumption DEF Ids
<1>a. PICK table, new, e : table = profiles[dsn] /\ new = Failed(c) /\ e = dsn
  OBVIOUS
<1>1. ProfilesOK /\ OthersOK /\ Tables /\ NotItself /\ Ctl
  BY Parts DEF MigrationInv
<1>2. /\ on[c] = dsn /\ Charge(dsn) = dsn /\ dsn \in Dbs
      /\ goal[c] \in Dbs /\ table[goal[c]].slot = "migration" /\ Settled
  <2>1. at[c] \notin {"idle", "import", "staged"}
    BY DEF Fail
  <2> QED
    BY <1>1, <1>a, <2>1, Busy DEF Ctl, OthersOK
<1>3. UNCHANGED <<keys, rows, dsn, serving, durable>> /\ Leave(c) /\ writer' = Released(c)
  BY DEF Fail
<1>4. OthersOK'
  <2>1. writer' \in [Dbs -> Ctls \cup {None}]
    BY <1>1, <1>3 DEF OthersOK, Released
  <2> QED
    BY <1>1, <1>3, <2>1 DEF OthersOK, Leave
<1>5. Ctl'
  BY <1>1, <1>3, AllIdle
<1>6. CASE UNCHANGED profiles
  BY <1>2, <1>3, <1>4, <1>5, <1>6, Quiet
<1>7. CASE profiles' = [profiles EXCEPT ![dsn] = new]
  <2>1. /\ table = profiles[on[c]] /\ table \in [Ids -> RowType] /\ Sound(table) /\ Indexed(table)
        /\ Charge(dsn) = ChargeOf(table)
    BY <1>1, <1>2, <1>a, ChargeTable DEF ProfilesOK, Tables
  <2>2. /\ new \in [Ids -> RowType] /\ Sound(new) /\ Indexed(new)
        /\ ChargeOf(new) = Charge(dsn) /\ \A i \in Ids : new[i].slot = table[i].slot
    <3>1. /\ new \in [Ids -> RowType] /\ Sound(new) /\ Indexed(new)
          /\ ChargeOf(new) = ChargeOf(table)
          /\ \A i \in Ids : new[i].slot = table[i].slot
      <4>1. ChargeOf(new) = ChargeOf(table)
        BY <1>2, <1>a, <2>1, FailedTable
      <4>2. Sound(new) /\ Indexed(new)
        BY <1>2, <1>a, <2>1, FailedTable
      <4>3. new \in [Ids -> RowType]
        BY <1>2, <1>a, <2>1, FailedTable
      <4>4. \A i \in Ids : new[i].slot = table[i].slot
        <5> HIDE DEF Ids
        <5> QED
          BY <1>2, <1>a, <2>1, FailedTable
      <4> QED
        BY <4>1, <4>2, <4>3, <4>4
    <3> QED
      BY <2>1, <3>1
  <2>3. /\ ProfilesOK' /\ Tables' /\ profiles'[dsn] = new
        /\ \A x \in Dbs : Charge(x)' = Charge(x)
        /\ \A x \in Dbs \ {dsn} : profiles'[x] = profiles[x]
    <3>1. profiles' = [profiles EXCEPT ![e] = new] /\ e \in Dbs
      BY <1>2, <1>7, <1>a
    <3>2. /\ ProfilesOK' /\ Tables' /\ profiles'[e] = new /\ Charge(e)' = ChargeOf(new)
          /\ \A x \in Dbs \ {e} : profiles'[x] = profiles[x] /\ Charge(x)' = Charge(x)
      BY <1>1, <2>2, <3>1, OneTable
    <3> QED
      BY <1>3, <1>a, <2>2, <3>2
  <2>4. NotItself' /\ KeysDescribe' /\ NothingLost' /\ Complete
    BY <1>1, <1>2, <1>3, <1>a, <2>2, <2>3 DEF MigrationInv, NotItself, KeysDescribe, NothingLost, Complete
  <2>5. Settled'
    BY <1>2, <1>3, <2>3 DEF Settled
  <2>6. TypeOK'
    BY <1>4, <2>3, Parts DEF TypeOK, ProfilesOK, OthersOK, RowType
  <2> QED
    BY <1>5, <2>3, <2>4, <2>5, <2>6 DEF MigrationInv
<1> QED
  BY <1>2, <1>6, <1>7, <1>a DEF Fail

LEMMA DieStep ==
  ASSUME Alone, MigrationInv, NEW c \in Ctls, Die(c)
  PROVE  MigrationInv' /\ Complete
<1>1. OthersOK /\ Charge(dsn) \in {None, dsn}
  BY Parts, Busy DEF MigrationInv, Die
<1>2. OthersOK'
  <2>1. writer' \in [Dbs -> Ctls \cup {None}]
    BY <1>1 DEF OthersOK, Released, Die
  <2> QED
    BY <1>1, <2>1, StorageMigrationAssumption DEF OthersOK, Leave, Die
<1>3. Ctl'
  BY <1>1, AllIdle DEF Die
<1> QED
  BY <1>1, <1>2, <1>3, Quiet DEF Die

LEMMA StartServerStep ==
  ASSUME Alone, MigrationInv, StartServer
  PROVE  MigrationInv' /\ Complete
<1> USE StorageMigrationAssumption DEF Ids
<1>1. ProfilesOK /\ OthersOK /\ Tables /\ NotItself /\ Ctl
  BY Parts DEF MigrationInv
<1>2. Charge(dsn) \in {None, dsn} /\ serving' = dsn /\ dsn \in Dbs
  BY <1>1 DEF StartServer, Open, Alone, InCharge, OthersOK
<1>3. UNCHANGED <<profiles, keys, rows, writer, ctlVars, dsn, durable>>
  BY DEF StartServer
<1>4. /\ ProfilesOK' /\ Tables' /\ NotItself'
      /\ \A d \in Dbs : Charge(d)' = Charge(d) /\ CurrentId(d)' = CurrentId(d)
  BY <1>1, <1>3, SameTables
<1>5. OthersOK'
  BY <1>1, <1>2, <1>3 DEF OthersOK, ctlVars
<1>6. Ctl'
  BY <1>1, <1>2, <1>3, <1>4 DEF Ctl, ctlVars, Copied
<1>7. KeysDescribe' /\ Complete
  BY <1>3, <1>4 DEF MigrationInv, KeysDescribe, Complete
<1>8. CASE Settled
  <2>1. Charge(dsn) = dsn /\ durable \subseteq rows[dsn]
    BY <1>2, <1>8 DEF Settled
  <2>2. Settled' /\ NothingLost'
    BY <1>2, <1>3, <1>4, <2>1 DEF Settled, NothingLost
  <2> QED
    BY <1>4, <1>5, <1>6, <1>7, <2>2, Parts
    DEF MigrationInv, TypeOK, ProfilesOK, OthersOK, RowType
<1>9. CASE Unset
  <2>1. NothingLost'
    BY <1>3, <1>9 DEF Unset, NothingLost
  <2>2. Unset'
    <3>1. \A d \in Dbs : Charge(d) \in Dbs \cup {None}
      BY <1>1, Charges
    <3>2. Charge(dsn)' = None \/ Charge(Charge(dsn))' = None
      BY <1>2, <1>3, <1>4, <1>9, <3>1 DEF Unset
    <3>3. \A x \in Dbs \ {dsn} : Charge(x)' # None => Charge(x)' = dsn \/ Charge(Charge(x))' # None
      BY <1>3, <1>4, <1>9, <3>1 DEF Unset
    <3> QED
      BY <1>2, <1>3, <1>4, <1>9, <3>2, <3>3 DEF Unset
  <2> QED
    BY <1>4, <1>5, <1>6, <1>7, <2>1, <2>2, Parts
    DEF MigrationInv, TypeOK, ProfilesOK, OthersOK, RowType
<1> QED
  BY <1>2, <1>8, <1>9, NotAstray DEF MigrationInv

LEMMA StopServerStep ==
  ASSUME MigrationInv, StopServer
  PROVE  MigrationInv' /\ Complete
<1> USE StorageMigrationAssumption DEF Ids
<1>1. ProfilesOK /\ OthersOK /\ Tables /\ NotItself /\ Ctl
  BY Parts DEF MigrationInv
<1>2. UNCHANGED <<profiles, keys, rows, writer, ctlVars, dsn, durable>> /\ serving' = None
  BY DEF StopServer
<1>3. /\ ProfilesOK' /\ Tables' /\ NotItself'
      /\ \A d \in Dbs : Charge(d)' = Charge(d) /\ CurrentId(d)' = CurrentId(d)
  BY <1>1, <1>2, SameTables
<1>4. OthersOK'
  BY <1>1, <1>2 DEF OthersOK, ctlVars
<1>5. Ctl'
  <2>1. /\ \A c \in Ctls : Charge(goal[c])' = Charge(goal[c])
        /\ Charge(dsn)' = Charge(dsn) /\ CurrentId(dsn)' = CurrentId(dsn)
    BY <1>2 DEF ctlVars, Charge, CurrentId
  <2> QED
    BY <1>1, <1>2, <2>1 DEF Ctl, ctlVars, Copied
<1>6. KeysDescribe' /\ NothingLost' /\ Complete
  BY <1>2, <1>3 DEF MigrationInv, KeysDescribe, NothingLost, Complete
<1>7. Unset => Unset'
  <2>1. Charge(Charge(dsn))' = Charge(Charge(dsn))
    BY <1>2 DEF Charge
  <2>2. \A x \in Dbs : Charge(Charge(x))' = Charge(Charge(x))
    BY <1>2 DEF Charge
  <2> QED
    BY <1>1, <1>2, <1>3, <2>1, <2>2 DEF Unset, OthersOK
<1>8. Astray => Astray'
  BY <1>2, <1>3 DEF Astray, ctlVars
<1>9. Settled => Settled'
  BY <1>1, <1>2, <1>3 DEF Settled, OthersOK
<1> QED
  BY <1>3, <1>4, <1>5, <1>6, <1>7, <1>8, <1>9, Parts
  DEF MigrationInv, TypeOK, ProfilesOK, OthersOK, RowType

LEMMA WriteStep ==
  ASSUME Alone, MigrationInv, NEW f \in Facts, Write(f)
  PROVE  MigrationInv' /\ Complete
<1> USE StorageMigrationAssumption DEF Ids
<1>1. ProfilesOK /\ OthersOK /\ Tables /\ NotItself /\ Ctl
  BY Parts DEF MigrationInv
<1>2. /\ serving \in Dbs /\ UNCHANGED <<profiles, keys, writer, ctlVars, dsn, serving>>
      /\ rows' = [rows EXCEPT ![serving] = rows[serving] \cup {f}]
      /\ \/ durable' = durable
         \/ /\ durable' = durable \cup {f}
            /\ Charge(dsn) # None /\ serving = Charge(dsn) /\ Migrating = {}
  BY <1>1 DEF Write, OthersOK, InCharge
<1>3. /\ ProfilesOK' /\ Tables' /\ NotItself'
      /\ \A d \in Dbs : Charge(d)' = Charge(d) /\ CurrentId(d)' = CurrentId(d)
  BY <1>1, <1>2, SameTables
<1>4. rows'[serving] = rows[serving] \cup {f} /\ \A d \in Dbs : rows[d] \subseteq rows'[d]
  BY <1>1, <1>2 DEF OthersOK
<1>5. OthersOK'
  BY <1>1, <1>2 DEF OthersOK, ctlVars
<1>6. Ctl'
  <2>1. UNCHANGED <<at, on, cur, goal, copy, profiles, dsn>> /\ dsn \in Dbs
    BY <1>1, <1>2 DEF ctlVars, OthersOK
  <2>2. CASE durable' = durable
    BY <1>1, <1>3, <1>4, <2>1, <2>2 DEF Ctl, Copied
  <2>3. CASE Migrating = {}
    <3>1. \A c \in Ctls : at[c] \in {"idle", "import"}
      BY <2>3 DEF Migrating
    <3> QED
      BY <1>1, <1>3, <2>1, <3>1 DEF Ctl
  <2> QED
    BY <1>2, <2>2, <2>3
<1>7. KeysDescribe' /\ Complete
  BY <1>2, <1>3 DEF MigrationInv, KeysDescribe, Complete
<1>8. NothingLost'
  BY <1>2, <1>4 DEF MigrationInv, NothingLost
<1>9. CASE Unset
  <2>1. durable' = durable
    BY <1>1, <1>2, <1>9, Charges DEF Unset, OthersOK
  <2>2. Unset' \/ Settled'
    BY <1>1, <1>2, <1>3, <1>4, <1>9, <2>1, SamePhase DEF OthersOK
  <2> QED
    BY <1>3, <1>5, <1>6, <1>7, <1>8, <2>2, Parts
    DEF MigrationInv, TypeOK, ProfilesOK, OthersOK, RowType
<1>10. CASE Astray
  <2>1. Astray'
    BY <1>2, <1>3, <1>10 DEF Astray, ctlVars
  <2> QED
    BY <1>3, <1>5, <1>6, <1>7, <1>8, <2>1, Parts
    DEF MigrationInv, TypeOK, ProfilesOK, OthersOK, RowType
<1>11. CASE Settled
  <2>1. Settled'
    BY <1>1, <1>2, <1>3, <1>4, <1>11 DEF Settled, OthersOK
  <2> QED
    BY <1>3, <1>5, <1>6, <1>7, <1>8, <2>1, Parts
    DEF MigrationInv, TypeOK, ProfilesOK, OthersOK, RowType
<1> QED
  BY <1>9, <1>10, <1>11 DEF MigrationInv

LEMMA ChangeDsnStep ==
  ASSUME MigrationInv, ChangeDsn
  PROVE  MigrationInv' /\ Complete
<1> USE StorageMigrationAssumption DEF Ids
<1> DEFINE e == Charge(dsn)
<1>1. ProfilesOK /\ OthersOK /\ Tables /\ NotItself /\ Ctl
  BY Parts DEF MigrationInv
<1>2. \A d \in Dbs : Charge(d) \in Dbs \cup {None}
  BY <1>1, Charges
<1>3. /\ e \in Dbs /\ e # dsn /\ dsn \in Dbs /\ dsn' = e
      /\ UNCHANGED <<profiles, keys, rows, writer, ctlVars, serving, durable>>
  BY <1>1, <1>2 DEF ChangeDsn, OthersOK
<1>4. /\ ProfilesOK' /\ Tables' /\ NotItself'
      /\ \A d \in Dbs : Charge(d)' = Charge(d)
  BY <1>1, <1>3, SameTables
<1>5. OthersOK'
  BY <1>1, <1>3 DEF OthersOK, ctlVars
<1>6. \A c \in Ctls : at[c] = "idle"
  BY <1>1, <1>3 DEF Ctl
<1>7. Ctl'
  BY <1>3, <1>6 DEF Ctl, ctlVars
<1>8. KeysDescribe' /\ NothingLost' /\ Complete
  BY <1>3, <1>4 DEF MigrationInv, KeysDescribe, NothingLost, Complete
<1>9. Charge(dsn)' = Charge(e)
  BY <1>3, <1>4
<1>10. CASE Unset
  <2>1. Charge(e) = None
    BY <1>3, <1>10 DEF Unset
  <2>2. ASSUME NEW x \in Dbs \ {e}, Charge(x) # None
        PROVE  Charge(x) = e \/ Charge(Charge(x)) # None
    BY <1>3, <1>10, <2>2 DEF Unset
  <2>3. \A x \in Dbs \ {dsn'} : Charge(x)' # None => Charge(x)' = dsn' \/ Charge(Charge(x))' # None
    BY <1>2, <1>3, <1>4, <2>2
  <2>4. Charge(serving)' = Charge(serving) \/ serving = None
    BY <1>1, <1>3, <1>4 DEF OthersOK
  <2>5. Unset'
    BY <1>3, <1>4, <1>9, <1>10, <2>1, <2>3, <2>4 DEF Unset
  <2> QED
    BY <1>4, <1>5, <1>7, <1>8, <2>5, Parts
    DEF MigrationInv, TypeOK, ProfilesOK, OthersOK, RowType
<1>11. CASE Astray
  <2>1. Astray'
    BY <1>3, <1>4, <1>6, <1>11 DEF Astray, ctlVars
  <2> QED
    BY <1>4, <1>5, <1>7, <1>8, <2>1, Parts
    DEF MigrationInv, TypeOK, ProfilesOK, OthersOK, RowType
<1>12. CASE Settled
  <2>1. Charge(e) = e /\ durable \subseteq rows[e]
    BY <1>12 DEF Settled
  <2>2. Charge(dsn)' = e /\ Charge(e)' = e
    BY <1>3, <1>4, <1>9, <2>1
  <2>3. Settled'
    BY <1>3, <2>1, <2>2 DEF Settled
  <2> QED
    BY <1>4, <1>5, <1>7, <1>8, <2>3, Parts
    DEF MigrationInv, TypeOK, ProfilesOK, OthersOK, RowType
<1> QED
  BY <1>10, <1>11, <1>12 DEF MigrationInv

-----------------------------------------------------------------------------
LEMMA Begin == Init => MigrationInv
<1> SUFFICES ASSUME Init PROVE MigrationInv
  OBVIOUS
<1> USE StorageMigrationAssumption DEF Ids
<1>1. \A d \in Dbs, i \in Ids : profiles[d][i] = NoRow
  BY DEF Init
<1>2. \A d \in Dbs : Stored(profiles[d]) /\ OneCurrent(profiles[d]) /\ HasCurrent(profiles[d])
  BY <1>1 DEF Stored, OneCurrent, HasCurrent, NoRow
<1>3. \A d \in Dbs : CurrentIds(profiles[d]) = {} /\ {i \in Ids : profiles[d][i].slot = "migration"} = {}
  BY <1>1 DEF CurrentIds, IdsOf, NoRow
<1>4. \A d \in Dbs : Charge(d) = None
  BY <1>3 DEF Charge
<1>5. \A d \in Dbs : Indexed(profiles[d])
  <2>1. Cardinality({}) = 0
    BY FS_EmptySet
  <2>2. \A d \in Dbs : /\ Cardinality(CurrentIds(profiles[d])) = 0
                       /\ Cardinality({i \in Ids : profiles[d][i].slot = "migration"}) = 0
    BY <1>3, <2>1
  <2> QED
    BY <2>2 DEF Indexed
<1>6. TypeOK
  BY <1>5 DEF Init, TypeOK, NoRow
<1>7. Tables /\ NotItself /\ KeysDescribe
  BY <1>2, <1>4 DEF Tables, Sound, NotItself, KeysDescribe
<1>8. Ctl /\ NothingLost /\ Unset
  BY <1>4 DEF Init, Ctl, NothingLost, Unset
<1> QED
  BY <1>6, <1>7, <1>8 DEF MigrationInv

LEMMA EveryStep ==
  ASSUME Alone, MigrationInv, [Next]_vars
  PROVE  MigrationInv' /\ Complete
<1>1. CASE UNCHANGED vars
  <2> USE <1>1 DEF vars, ctlVars, Charge, CurrentId
  <2>1. TypeOK => TypeOK'
    BY DEF TypeOK
  <2>2. Tables /\ NotItself /\ Ctl => (Tables /\ NotItself /\ Ctl)'
    BY DEF Tables, NotItself, Ctl, Copied
  <2>3. KeysDescribe /\ NothingLost => (KeysDescribe /\ NothingLost)'
    BY DEF KeysDescribe, NothingLost
  <2>4. Unset \/ Astray \/ Settled => (Unset \/ Astray \/ Settled)'
    <3>1. \A x \in Dbs : Charge(x)' = Charge(x) /\ Charge(Charge(x))' = Charge(Charge(x))
      OBVIOUS
    <3>2. Charge(dsn)' = Charge(dsn) /\ Charge(Charge(dsn))' = Charge(Charge(dsn)) /\ Charge(serving)' = Charge(serving)
      OBVIOUS
    <3> HIDE DEF Charge, CurrentId
    <3>3. Unset => Unset'
      BY <3>1, <3>2 DEF Unset
    <3>4. Astray => Astray'
      BY <3>1 DEF Astray
    <3>5. Settled => Settled'
      BY <3>2 DEF Settled
    <3> QED
      BY <3>3, <3>4, <3>5
  <2>5. Complete
    BY DEF Complete
  <2> QED
    BY <2>1, <2>2, <2>3, <2>4, <2>5 DEF MigrationInv
<1>2. ASSUME NEW c \in Ctls, CtlStep(c)
      PROVE  MigrationInv' /\ Complete
  <2>1. CopySettings(c) => MigrationInv' /\ Complete
    BY CopyStep DEF CopySettings, Groups
  <2>2. CopyRepositories(c) => MigrationInv' /\ Complete
    BY CopyStep DEF CopyRepositories, Groups
  <2>3. CopyProjects(c) => MigrationInv' /\ Complete
    BY CopyStep DEF CopyProjects, Groups
  <2> QED
    BY <1>2, <2>1, <2>2, <2>3, ReadForImportStep, ImportStep, ReadCurrentStep, ReadStagedStep,
       BeginCopyStep, CommitCopyStep, PromoteStep, FailStep, DieStep DEF CtlStep
<1> QED
  BY <1>1, <1>2, StartServerStep, StopServerStep, WriteStep, ChangeDsnStep DEF Next

-----------------------------------------------------------------------------
\* The invariant holds in every state of every execution in which one
\* thelper-ctl runs at a time and the operator follows a switch.
LEMMA Invariance ==
  ASSUME Alone
  PROVE  Spec => []MigrationInv
<1>1. MigrationInv /\ [Next]_vars => MigrationInv'
  BY EveryStep
<1> QED
  BY <1>1, Begin, PTL DEF Spec

\* Every variable keeps its type, and no statement leaves two current
\* profiles or two targets in the table of a database.
THEOREM TypesKept ==
  ASSUME Alone
  PROVE  Spec => []TypeOK
<1>1. MigrationInv => TypeOK
  BY DEF MigrationInv
<1> QED
  BY <1>1, Invariance, PTL

\* Nothing that a server of the database in charge wrote while no migration
\* ran is lost by any sequence of imports, switches, failures and crashes.
THEOREM SwitchesLoseNothing ==
  ASSUME Alone
  PROVE  Spec => []NothingLost
<1>1. MigrationInv => NothingLost
  BY DEF MigrationInv
<1> QED
  BY <1>1, Invariance, PTL

\* A database in charge of itself has the storage keys of itself.
THEOREM KeysFollow ==
  ASSUME Alone
  PROVE  Spec => []KeysDescribe
<1>1. MigrationInv => KeysDescribe
  BY DEF MigrationInv
<1> QED
  BY <1>1, Invariance, PTL

\* The current profile passes only to a database that holds every durable row
\* and has a current profile of its own.
THEOREM SwitchesAreComplete ==
  ASSUME Alone
  PROVE  Spec => SwitchIsComplete
<1>1. MigrationInv /\ [Next]_vars => [Complete]_vars
  BY EveryStep
<1>2. [Complete]_vars <=>
        [\A d \in Dbs :
           Charge(d) # None /\ Charge(d)' # Charge(d)
             => /\ Charge(d)' \in Dbs
                /\ durable \subseteq rows'[Charge(d)']
                /\ \E i \in Ids : /\ profiles'[Charge(d)'][i].slot = "current"
                                  /\ profiles'[Charge(d)'][i].status = "active"]_vars
  BY DEF Complete
<1> QED
  BY <1>1, <1>2, Invariance, PTL DEF Spec, SwitchIsComplete
=============================================================================
