------------------------ MODULE RuntimeConfigProofs ------------------------
(***************************************************************************)
(* Theorems about RuntimeConfig, for any modules, paths, patterns and      *)
(* processes, and any number of imports and requests.                      *)
(***************************************************************************)
EXTENDS RuntimeConfig, TLAPS

\* What a process works on, by the place it has reached.
Subjects ==
  \A q \in Procs :
    /\ at[q] = "idle" => subject[q] = None /\ read[q] = {} /\ todo[q] = {}
    /\ at[q] = "seed" => todo[q] \subseteq Modules /\ subject[q] \in Modules \cup {None}
    /\ at[q] \in {"get", "mark", "act"} => subject[q] \in Modules
    /\ at[q] \in {"ruleInsert", "ruleUpdate"} => subject[q] \in Patterns
    /\ at[q] = "sync" => todo[q] \subseteq read[q] /\ read[q] \subseteq Paths
    /\ at[q] = "disable" => todo[q] \subseteq RootIds

\* The upsert of a synchronisation is of a path of its list.
Upserts ==
  \A q \in Procs : at[q] \in Upserting =>
    /\ subject[q] \in Paths /\ todo[q] \subseteq read[q] /\ read[q] \subseteq Paths
    /\ read[q] # {} => subject[q] \in read[q]
    /\ at[q] \in {"byId", "update"} => found[q] \in RootIds
    /\ at[q] = "update" => input[q] # Keep

\* Whatever a synchronisation has found or selected is its own.
OwnInv ==
  \A q \in Procs :
    /\ Synchronising(q) => Own(q) \subseteq owned[q]
    /\ at[q] \in {"byId", "update"} /\ read[q] # {} => found[q] \in owned[q]
    /\ at[q] = "disable" => todo[q] \subseteq owned[q]

CoreInv == TypeOK /\ Subjects /\ Upserts /\ NobodyLeftBetween

ConfigInv == CoreInv /\ OwnInv

OwnedType == owned \in [Procs -> SUBSET RootIds]

-----------------------------------------------------------------------------
LEMMA ConfigInit == Init => ConfigInv
<1> SUFFICES ASSUME Init PROVE ConfigInv
  OBVIOUS
<1>1. imports \in 0..MaxImports /\ puts \in 0..MaxPuts
  BY RuntimeConfigAssumption DEF Init
<1>2. root \in [RootIds -> {NoRoot}]
  BY DEF Init
<1>3. /\ state \in [Modules -> States] /\ by \in [Modules -> Procs \cup {None}]
      /\ rule \in [Patterns -> {"none", "ui", "config_import"}]
  BY DEF Init, States
<1>4. /\ at \in [Procs -> {"idle"}] /\ input \in [Procs -> {Keep}]
      /\ read \in [Procs -> {{}}] /\ todo \in [Procs -> {{}}]
      /\ subject \in [Procs -> {None}] /\ found \in [Procs -> {None}]
      /\ owned \in [Procs -> {{}}]
  BY DEF Init
<1>5. TypeOK
  BY <1>1, <1>2, <1>3, <1>4 DEF Init, TypeOK, Places
<1>6. Subjects /\ Upserts /\ NobodyLeftBetween
  BY <1>4 DEF Init, Subjects, Upserts, Upserting, NobodyLeftBetween, Between
<1>7. OwnInv
  BY <1>4 DEF OwnInv, Synchronising, Upserting
<1> QED
  BY <1>5, <1>6, <1>7 DEF ConfigInv, CoreInv

\* A process that leaves knows nothing.
LEMMA Leaving ==
  ASSUME TypeOK, NEW q \in Procs, Leave(q)
  PROVE  /\ at' = [at EXCEPT ![q] = "idle"]
         /\ subject'[q] = None /\ read'[q] = {} /\ todo'[q] = {}
         /\ at' \in [Procs -> Places]
         /\ read' \in [Procs -> SUBSET (Modules \cup Paths)]
         /\ todo' \in [Procs -> SUBSET (Modules \cup Paths \cup RootIds)]
         /\ subject' \in [Procs -> Modules \cup Paths \cup Patterns \cup {None}]
         /\ found' \in [Procs -> RootIds \cup {None}]
         /\ input' \in [Procs -> {"on", "off", Keep}]
         /\ \A r \in Procs \ {q} :
              /\ at'[r] = at[r] /\ read'[r] = read[r] /\ todo'[r] = todo[r]
              /\ subject'[r] = subject[r] /\ found'[r] = found[r] /\ input'[r] = input[r]
BY DEF Leave, Set, TypeOK, Keep, Places

LEMMA SubjectsLeave ==
  ASSUME TypeOK, Subjects, Upserts, NEW q \in Procs, Leave(q)
  PROVE  Subjects' /\ Upserts'
BY Leaving DEF Subjects, Upserts, Upserting, TypeOK

\* A step that leaves the modules alone leaves none in between.
LEMMA ModulesAlone ==
  ASSUME TypeOK, NobodyLeftBetween, NEW q \in Procs, at[q] # "act", UNCHANGED <<state, by>>,
         \A r \in Procs \ {q} : at'[r] = at[r] /\ subject'[r] = subject[r]
  PROVE  NobodyLeftBetween'
BY RuntimeConfigAssumption DEF TypeOK, NobodyLeftBetween

LEMMA ImportStep == CoreInv /\ Import /\ OwnedType' => CoreInv'
<1> SUFFICES ASSUME CoreInv, Import, OwnedType' PROVE CoreInv'
  OBVIOUS
<1> USE RuntimeConfigAssumption
<1>1. rule' \in [Patterns -> {"none", "ui", "config_import"}]
  BY DEF CoreInv, TypeOK, Import, Replaced
<1>2. imports' \in 0..MaxImports
  BY DEF CoreInv, TypeOK, Import
<1>3. enabled' \in (SUBSET Available) \cup {None} /\ listed' \in (SUBSET Paths) \cup {None}
  BY DEF Import
<1>4. TypeOK'
  BY <1>1, <1>2, <1>3 DEF CoreInv, TypeOK, OwnedType, Import, local
<1>5. Subjects' /\ Upserts' /\ NobodyLeftBetween'
  BY DEF CoreInv, Subjects, Upserts, NobodyLeftBetween, Import, local
<1> QED
  BY <1>4, <1>5 DEF CoreInv

\* A process leaves without a write.
LEMMA LeavingStep ==
  ASSUME CoreInv, OwnedType', NEW q \in Procs, at[q] # "act", Leave(q),
         UNCHANGED <<rootVars, moduleVars, imports>>
  PROVE  CoreInv'
<1>0. TypeOK /\ Subjects /\ Upserts /\ NobodyLeftBetween
  BY DEF CoreInv
<1>1. Subjects' /\ Upserts' /\ NobodyLeftBetween'
  BY <1>0, Leaving, SubjectsLeave, ModulesAlone DEF moduleVars
<1> QED
  BY <1>0, <1>1, Leaving DEF CoreInv, TypeOK, OwnedType, rootVars, moduleVars

LEMMA ModuleStep ==
  ASSUME CoreInv, OwnedType', NEW q \in Procs,
         SeedFromConfig(q) \/ Reload(q) \/ Operate(q) \/ SeedOne(q) \/ Get(q) \/ Mark(q) \/ Act(q)
  PROVE  CoreInv'
<1> USE RuntimeConfigAssumption
<1>0. TypeOK /\ Subjects /\ Upserts /\ NobodyLeftBetween
  BY DEF CoreInv
<1>1. CASE SeedFromConfig(q) \/ Reload(q)
  <2>1. SeedFromConfig(q)
    BY <1>1 DEF Reload
  <2>2. /\ at[q] = "idle" /\ at' = [at EXCEPT ![q] = "seed"]
        /\ read' = [read EXCEPT ![q] = EnabledSet] /\ todo' = [todo EXCEPT ![q] = Modules]
        /\ UNCHANGED <<rootVars, moduleVars, subject, found, input, imports>>
    BY <2>1 DEF SeedFromConfig, Set
  <2>3. EnabledSet \in SUBSET (Modules \cup Paths)
    BY <1>0 DEF EnabledSet, TypeOK
  <2>4. TypeOK'
    BY <1>0, <2>2, <2>3 DEF TypeOK, OwnedType, Places, rootVars, moduleVars
  <2>5. Subjects' /\ Upserts'
    BY <1>0, <2>2 DEF Subjects, Upserts, Upserting, TypeOK
  <2>6. NobodyLeftBetween'
    BY <1>0, <2>2, ModulesAlone DEF TypeOK, moduleVars
  <2> QED
    BY <2>4, <2>5, <2>6 DEF CoreInv
<1>2. ASSUME NEW m \in Modules, SeedAll(q, m), at[q] \in {"idle", "get"} PROVE CoreInv'
  <2>1. /\ at' = [at EXCEPT ![q] = "seed"] /\ subject' = [subject EXCEPT ![q] = m]
        /\ read' = [read EXCEPT ![q] = Available] /\ todo' = [todo EXCEPT ![q] = Modules]
        /\ UNCHANGED <<rootVars, moduleVars, found, input, imports>>
    BY <1>2 DEF SeedAll, Set
  <2>2. TypeOK'
    BY <1>0, <2>1 DEF TypeOK, OwnedType, Places, rootVars, moduleVars
  <2>3. Subjects' /\ Upserts'
    BY <1>0, <2>1 DEF Subjects, Upserts, Upserting, TypeOK
  <2>4. NobodyLeftBetween'
    BY <1>0, <1>2, <2>1, ModulesAlone DEF TypeOK, moduleVars
  <2> QED
    BY <2>2, <2>3, <2>4 DEF CoreInv
<1>3. CASE Operate(q)
  <2>1. PICK m \in Modules :
          \/ /\ Set(at, q, "get") /\ Set(subject, q, m)
             /\ UNCHANGED <<rootVars, moduleVars, read, todo, found, input, imports>>
          \/ SeedAll(q, m)
    BY <1>3 DEF Operate
  <2>2. at[q] = "idle"
    BY <1>3 DEF Operate
  <2>3. CASE ~SeedAll(q, m)
    <3>1. /\ at' = [at EXCEPT ![q] = "get"] /\ subject' = [subject EXCEPT ![q] = m]
          /\ UNCHANGED <<rootVars, moduleVars, read, todo, found, input, imports>>
      BY <2>1, <2>3 DEF Set
    <3>2. TypeOK'
      BY <1>0, <3>1 DEF TypeOK, OwnedType, Places, rootVars, moduleVars
    <3>3. Subjects' /\ Upserts'
      BY <1>0, <3>1 DEF Subjects, Upserts, Upserting, TypeOK
    <3>4. NobodyLeftBetween'
      BY <1>0, <2>2, <3>1, ModulesAlone DEF TypeOK, moduleVars
    <3> QED
      BY <3>2, <3>3, <3>4 DEF CoreInv
  <2> QED
    BY <1>2, <2>2, <2>3
<1>4. CASE SeedOne(q)
  <2>1. UNCHANGED <<rootVars, enabled, imports>> /\ at[q] = "seed"
    BY <1>4 DEF SeedOne
  <2>2. PICK m \in todo[q] :
          \/ /\ \E s \in {"unavailable", "running", "stopped"} : \E pid \in Procs \cup {None} :
                  WriteState(m, s, pid)
             /\ IF todo[q] = {m} THEN Seeded(q)
                ELSE Set(todo, q, todo[q] \ {m}) /\ UNCHANGED <<at, read, subject, found, input>>
          \/ Leave(q) /\ UNCHANGED <<state, by>>
    BY <1>4 DEF SeedOne
  <2>3. state' \in [Modules -> States] /\ by' \in [Modules -> Procs \cup {None}]
    BY <1>0, <2>2 DEF TypeOK, WriteState, Set, States, Between
  <2>4. \A n \in Modules : state'[n] \in Between => state'[n] = state[n] /\ by'[n] = by[n]
    BY <1>0, <2>2 DEF TypeOK, WriteState, Set, Between
  <2>5. \A r \in Procs \ {q} : at'[r] = at[r] /\ todo'[r] = todo[r] /\ subject'[r] = subject[r]
    BY <1>0, <2>2, Leaving DEF Seeded, TypeOK, Set
  <2>6. NobodyLeftBetween'
    BY <1>0, <2>1, <2>3, <2>4, <2>5 DEF NobodyLeftBetween
  <2>7. CASE Leave(q)
    <3>1. TypeOK'
      BY <1>0, <2>1, <2>3, <2>7, Leaving DEF TypeOK, OwnedType, rootVars
    <3> QED
      BY <1>0, <2>6, <2>7, <3>1, SubjectsLeave DEF CoreInv
  <2>8. CASE ~Leave(q)
    <3>1. \/ /\ subject[q] # None /\ at' = [at EXCEPT ![q] = "get"]
             /\ read' = [read EXCEPT ![q] = {}] /\ todo' = [todo EXCEPT ![q] = {}]
             /\ UNCHANGED <<subject, found, input>>
          \/ todo' = [todo EXCEPT ![q] = todo[q] \ {m}] /\ UNCHANGED <<at, read, subject, found, input>>
      BY <2>2, <2>8 DEF Seeded, Set
    <3>2. Subjects'
      BY <1>0, <2>1, <3>1 DEF Subjects, TypeOK
    <3>3. Upserts'
      BY <1>0, <2>1, <3>1 DEF Upserts, Upserting, TypeOK
    <3>4. TypeOK'
      BY <1>0, <2>1, <2>3, <3>1 DEF TypeOK, OwnedType, Places, rootVars
    <3> QED
      BY <2>6, <3>2, <3>3, <3>4 DEF CoreInv
  <2> QED
    BY <2>7, <2>8
<1>5. CASE Get(q)
  <2>0. at[q] = "get" /\ subject[q] \in Modules
    BY <1>0, <1>5 DEF Get, Subjects
  <2>1. CASE SeedAll(q, subject[q])
    <3>1. PICK m \in Modules : m = subject[q]
      BY <2>0
    <3>2. SeedAll(q, m) /\ at[q] \in {"idle", "get"}
      BY <2>0, <2>1, <3>1 DEF SeedAll
    <3> QED
      BY <1>2, <3>2
  <2>2. CASE Leave(q) /\ UNCHANGED <<rootVars, moduleVars, imports>>
    BY <2>0, <2>2, LeavingStep
  <2>3. CASE Set(at, q, "mark") /\ UNCHANGED <<rootVars, moduleVars, read, todo, subject, found, input, imports>>
    <3>1. at' = [at EXCEPT ![q] = "mark"]
      BY <2>3 DEF Set
    <3>2. TypeOK'
      BY <1>0, <2>3, <3>1 DEF TypeOK, OwnedType, Places, rootVars, moduleVars
    <3>3. Subjects' /\ Upserts'
      BY <1>0, <2>0, <2>3, <3>1 DEF Subjects, Upserts, Upserting, TypeOK
    <3>4. NobodyLeftBetween'
      BY <1>0, <2>0, <2>3, <3>1, ModulesAlone DEF TypeOK, moduleVars
    <3> QED
      BY <3>2, <3>3, <3>4 DEF CoreInv
  <2> QED
    BY <1>5, <2>1, <2>2, <2>3 DEF Get
<1>6. CASE Mark(q)
  <2>1. PICK s \in Between : WriteState(subject[q], s, q)
    BY <1>6 DEF Mark
  <2>2. /\ subject[q] \in Modules
        /\ state' = [state EXCEPT ![subject[q]] = s] /\ by' = [by EXCEPT ![subject[q]] = q]
    BY <1>0, <1>6, <2>1 DEF Mark, Subjects, WriteState, Set
  <2>3. /\ at[q] = "mark" /\ at' = [at EXCEPT ![q] = "act"]
        /\ UNCHANGED <<rootVars, enabled, read, todo, subject, found, input, imports>>
    BY <1>6 DEF Mark, Set
  <2>4. NobodyLeftBetween'
    BY <1>0, <2>2, <2>3 DEF NobodyLeftBetween, TypeOK
  <2>5. Subjects' /\ Upserts'
    BY <1>0, <2>2, <2>3 DEF Subjects, Upserts, Upserting, TypeOK
  <2>6. TypeOK'
    BY <1>0, <2>2, <2>3 DEF TypeOK, OwnedType, Places, rootVars, States
  <2> QED
    BY <2>4, <2>5, <2>6 DEF CoreInv
<1>7. CASE Act(q)
  <2>1. PICK s \in {"running", "failed"} : WriteState(subject[q], s, q)
    BY <1>7 DEF Act, Outcome
  <2>2. /\ subject[q] \in Modules
        /\ state' = [state EXCEPT ![subject[q]] = s] /\ by' = [by EXCEPT ![subject[q]] = None]
    BY <1>0, <1>7, <2>1 DEF Act, Subjects, WriteState, Set, Between
  <2>3. Leave(q) /\ UNCHANGED <<rootVars, enabled, imports>>
    BY <1>7 DEF Act
  <2>4. NobodyLeftBetween'
    BY <1>0, <1>7, <2>2, Leaving DEF Act, NobodyLeftBetween, TypeOK, Between
  <2>5. TypeOK'
    BY <1>0, <2>2, <2>3, Leaving DEF TypeOK, OwnedType, rootVars, States
  <2> QED
    BY <1>0, <2>3, <2>4, <2>5, SubjectsLeave DEF CoreInv
<1> QED
  BY <1>1, <1>3, <1>4, <1>5, <1>6, <1>7

LEMMA RootWritten ==
  ASSUME TypeOK, NEW i \in RootIds, NEW row \in Root, WriteRoot(i, row)
  PROVE  root' \in [RootIds -> Root \cup {NoRoot}]
BY DEF TypeOK, WriteRoot, Set

\* The next place of an upsert that has found the row i.
LEMMA ExistingStep ==
  ASSUME CoreInv, OwnedType', NEW q \in Procs, NEW i \in RootIds, at[q] \in {"byId", "byPath"},
         root[i] # NoRoot, Existing(q, i), UNCHANGED <<rootVars, moduleVars, imports>>
  PROVE  CoreInv'
<1>0. TypeOK /\ Subjects /\ Upserts /\ NobodyLeftBetween
  BY DEF CoreInv
<1>1. root[i].on \in {"on", "off"}
  BY <1>0 DEF TypeOK, Root
<1>2. /\ at' = [at EXCEPT ![q] = "update"] /\ found' = [found EXCEPT ![q] = i]
      /\ \E v \in {"on", "off"} : input' = [input EXCEPT ![q] = v]
  BY <1>0, <1>1 DEF Existing, Set, TypeOK
<1>3. TypeOK'
  BY <1>0, <1>2 DEF Existing, TypeOK, OwnedType, Places, Upserting, rootVars, moduleVars
<1>4. Subjects'
  BY <1>0, <1>2 DEF Existing, Subjects, TypeOK
<1>5. Upserts'
  BY <1>0, <1>2 DEF Existing, Upserts, Upserting, TypeOK, Keep
<1>6. NobodyLeftBetween'
  BY <1>0, <1>2, ModulesAlone DEF Existing, TypeOK, moduleVars
<1> QED
  BY <1>3, <1>4, <1>5, <1>6 DEF CoreInv

\* An upsert is over: the request leaves, the synchronisation goes on.
LEMMA UpsertedStep ==
  ASSUME CoreInv, OwnedType', NEW q \in Procs, at[q] \in {"insert", "update"},
         root' \in [RootIds -> Root \cup {NoRoot}], Upserted(q),
         UNCHANGED <<listed, rule, puts, moduleVars, imports>>
  PROVE  CoreInv'
<1>0. TypeOK /\ Subjects /\ Upserts /\ NobodyLeftBetween
  BY DEF CoreInv
<1>1. CASE Leave(q)
  BY <1>0, <1>1, Leaving, SubjectsLeave, ModulesAlone DEF CoreInv, TypeOK, OwnedType, moduleVars
<1>2. CASE ~Leave(q)
  <2>1. /\ at' = [at EXCEPT ![q] = "sync"] /\ subject' = [subject EXCEPT ![q] = None]
        /\ found' = [found EXCEPT ![q] = None] /\ input' = [input EXCEPT ![q] = Keep]
        /\ UNCHANGED <<read, todo>>
    BY <1>2 DEF Upserted, Set
  <2>2. TypeOK'
    BY <1>0, <2>1 DEF TypeOK, OwnedType, Places, moduleVars
  <2>3. Subjects'
    BY <1>0, <2>1 DEF Subjects, Upserts, Upserting, TypeOK
  <2>4. Upserts'
    BY <1>0, <2>1 DEF Upserts, Upserting, TypeOK
  <2>5. NobodyLeftBetween'
    BY <1>0, <2>1, ModulesAlone DEF TypeOK, moduleVars
  <2> QED
    BY <2>2, <2>3, <2>4, <2>5 DEF CoreInv
<1> QED
  BY <1>1, <1>2

\* A process goes from one place to another and only looks for its root.
LEMMA SearchStep ==
  ASSUME CoreInv, OwnedType', NEW q \in Procs,
         NEW here \in Upserting, NEW there \in {"byPath", "insert", "again"},
         at[q] = here, Set(at, q, there),
         UNCHANGED <<rootVars, moduleVars, read, todo, subject, found, input, imports>>
  PROVE  CoreInv'
<1>0. TypeOK /\ Subjects /\ Upserts /\ NobodyLeftBetween
  BY DEF CoreInv
<1>1. at' = [at EXCEPT ![q] = there] /\ here # "act"
  BY DEF Set, Upserting
<1>2. TypeOK'
  BY <1>0, <1>1 DEF TypeOK, OwnedType, Places, Upserting, rootVars, moduleVars
<1>3. Subjects' /\ Upserts'
  BY <1>0, <1>1 DEF Subjects, Upserts, Upserting, TypeOK
<1>4. NobodyLeftBetween'
  BY <1>0, <1>1, ModulesAlone DEF TypeOK, moduleVars
<1> QED
  BY <1>2, <1>3, <1>4 DEF CoreInv

LEMMA RootBegin ==
  ASSUME CoreInv, OwnedType', NEW q \in Procs, SyncRead(q) \/ SyncNext(q) \/ Put(q)
  PROVE  CoreInv'
<1> USE RuntimeConfigAssumption
<1>0. TypeOK /\ Subjects /\ Upserts /\ NobodyLeftBetween
  BY DEF CoreInv
<1>1. CASE SyncRead(q)
  <2>1. listed \in SUBSET Paths
    BY <1>0, <1>1 DEF SyncRead, TypeOK
  <2>2. /\ at[q] = "idle" /\ at' = [at EXCEPT ![q] = "sync"]
        /\ read' = [read EXCEPT ![q] = listed] /\ todo' = [todo EXCEPT ![q] = listed]
        /\ UNCHANGED <<rootVars, moduleVars, subject, found, input, imports>>
    BY <1>1 DEF SyncRead, Set
  <2>3. TypeOK'
    BY <1>0, <2>1, <2>2 DEF TypeOK, OwnedType, Places, rootVars, moduleVars
  <2>4. Subjects' /\ Upserts'
    BY <1>0, <2>1, <2>2 DEF Subjects, Upserts, Upserting, TypeOK
  <2>5. NobodyLeftBetween'
    BY <1>0, <2>2, ModulesAlone DEF TypeOK, moduleVars
  <2> QED
    BY <2>3, <2>4, <2>5 DEF CoreInv
<1>2. CASE SyncNext(q)
  <2>1. PICK p \in todo[q] :
          /\ at' = [at EXCEPT ![q] = "byPath"] /\ todo' = [todo EXCEPT ![q] = todo[q] \ {p}]
          /\ subject' = [subject EXCEPT ![q] = p] /\ input' = [input EXCEPT ![q] = "on"]
    BY <1>2 DEF SyncNext, Set
  <2>2. /\ at[q] = "sync" /\ UNCHANGED <<rootVars, moduleVars, read, found, imports>>
    BY <1>2 DEF SyncNext
  <2>3. p \in read[q] /\ p \in Paths
    BY <1>0, <2>1, <2>2 DEF Subjects
  <2>4. TypeOK'
    BY <1>0, <2>1, <2>2, <2>3 DEF TypeOK, OwnedType, Places, Upserting, rootVars, moduleVars
  <2>5. Subjects' /\ Upserts'
    BY <1>0, <2>1, <2>2, <2>3 DEF Subjects, Upserts, Upserting, TypeOK
  <2>6. NobodyLeftBetween'
    BY <1>0, <2>1, <2>2, ModulesAlone DEF TypeOK, moduleVars
  <2> QED
    BY <2>4, <2>5, <2>6 DEF CoreInv
<1>3. CASE Put(q)
  <2>1. PICK p \in Paths, on \in {"on", "off", Keep}, i \in RootIds \cup {None} :
          /\ at' = [at EXCEPT ![q] = IF i = None THEN "byPath" ELSE "byId"]
          /\ subject' = [subject EXCEPT ![q] = p] /\ found' = [found EXCEPT ![q] = i]
          /\ input' = [input EXCEPT ![q] = on]
    BY <1>3 DEF Put, Set
  <2>2. /\ at[q] = "idle" /\ puts < MaxPuts /\ puts' = puts + 1
        /\ UNCHANGED <<listed, root, rule, moduleVars, read, todo, imports>>
    BY <1>3 DEF Put
  <2>3. puts' \in 0..MaxPuts
    BY <1>0, <2>2 DEF TypeOK
  <2>4. TypeOK'
    BY <1>0, <2>1, <2>2, <2>3 DEF TypeOK, OwnedType, Places, Upserting, moduleVars
  <2>5. Subjects'
    BY <1>0, <2>1, <2>2 DEF Subjects, TypeOK
  <2>6. Upserts'
    BY <1>0, <2>1, <2>2 DEF Subjects, Upserts, Upserting, TypeOK
  <2>7. NobodyLeftBetween'
    BY <1>0, <2>1, <2>2, ModulesAlone DEF TypeOK, moduleVars
  <2> QED
    BY <2>4, <2>5, <2>6, <2>7 DEF CoreInv
<1> QED
  BY <1>1, <1>2, <1>3

LEMMA RootStep ==
  ASSUME CoreInv, OwnedType', NEW q \in Procs,
         GetRootPath(q) \/ FindRootPath(q) \/ UpdateRoot(q) \/ InsertRoot(q)
           \/ FindAgain(q) \/ SelectRemoved(q) \/ Disable(q)
  PROVE  CoreInv'
<1> USE RuntimeConfigAssumption
<1>0. TypeOK /\ Subjects /\ Upserts /\ NobodyLeftBetween
  BY DEF CoreInv
<1>1. \A i \in RootIds : root[i].path \in Paths => root[i] # NoRoot
  BY DEF NoRoot
<1>2. CASE GetRootPath(q)
  <2>1. found[q] \in RootIds /\ at[q] = "byId" /\ UNCHANGED <<rootVars, moduleVars, imports>>
    BY <1>0, <1>2 DEF GetRootPath, Upserts, Upserting
  <2>2. CASE root[found[q]] # NoRoot
    <3>1. PICK i \in RootIds : i = found[q]
      BY <2>1
    <3>2. Existing(q, i) /\ root[i] # NoRoot
      BY <1>2, <2>2, <3>1 DEF GetRootPath, Existing
    <3> QED
      BY <2>1, <3>2, ExistingStep
  <2>3. CASE root[found[q]] = NoRoot
    BY <1>2, <2>1, <2>3, SearchStep DEF GetRootPath, Upserting
  <2> QED
    BY <2>2, <2>3
<1>3. CASE FindRootPath(q)
  <2>1. subject[q] \in Paths /\ at[q] = "byPath" /\ UNCHANGED <<rootVars, moduleVars, imports>>
    BY <1>0, <1>3 DEF FindRootPath, Upserts, Upserting
  <2>2. ASSUME NEW i \in RootsAt(subject[q]), Existing(q, i) PROVE CoreInv'
    BY <1>1, <2>1, <2>2, ExistingStep DEF RootsAt
  <2>3. CASE Set(at, q, "insert") /\ UNCHANGED <<read, todo, subject, found, input>>
    BY <2>1, <2>3, SearchStep DEF Upserting
  <2> QED
    BY <1>3, <2>2, <2>3 DEF FindRootPath
<1>4. CASE UpdateRoot(q)
  <2>1. /\ subject[q] \in Paths /\ found[q] \in RootIds /\ input[q] \in {"on", "off"}
        /\ at[q] = "update" /\ UNCHANGED <<listed, rule, puts, moduleVars, imports>>
    BY <1>0, <1>4 DEF UpdateRoot, Upserts, Upserting, TypeOK
  <2>2. [path |-> subject[q], source |-> Source(q), on |-> input[q]] \in Root
    BY <2>1 DEF Root, Source
  <2>3. CASE Leave(q) /\ UNCHANGED root
    BY <2>1, <2>3, LeavingStep DEF rootVars
  <2>4. CASE Upserted(q) /\ WriteRoot(found[q], [path |-> subject[q], source |-> Source(q), on |-> input[q]])
    <3>1. PICK i \in RootIds, row \in Root : WriteRoot(i, row)
      BY <2>1, <2>2, <2>4 DEF WriteRoot, RootsAt, Set
    <3>2. root' \in [RootIds -> Root \cup {NoRoot}]
      BY <1>0, <3>1, RootWritten
    <3> QED
      BY <2>1, <2>4, <3>2, UpsertedStep
  <2> QED
    BY <1>4, <2>3, <2>4 DEF UpdateRoot
<1>5. CASE InsertRoot(q)
  <2>1. /\ subject[q] \in Paths /\ input[q] \in {"on", "off", Keep} /\ found[q] \in RootIds \cup {None}
        /\ at[q] = "insert" /\ UNCHANGED <<listed, rule, puts, moduleVars, imports>>
    BY <1>0, <1>5 DEF InsertRoot, Upserts, Upserting, TypeOK
  <2>2. Inserted(q) \in Root
    BY <2>1 DEF Root, Source, Inserted
  <2>3. ASSUME NEW i \in RootIds, WriteRoot(i, Inserted(q)), Upserted(q) PROVE CoreInv'
    <3>1. PICK row \in Root : row = Inserted(q)
      BY <2>2
    <3>2. WriteRoot(i, row)
      BY <2>3, <3>1 DEF WriteRoot, RootsAt, Set
    <3>3. root' \in [RootIds -> Root \cup {NoRoot}]
      BY <1>0, <3>2, RootWritten
    <3> QED
      BY <2>1, <2>3, <3>3, UpsertedStep
  <2>4. CASE Set(at, q, "again") /\ UNCHANGED <<root, read, todo, subject, found, input>>
    BY <2>1, <2>4, SearchStep DEF Upserting, rootVars
  <2> QED
    BY <1>5, <2>1, <2>3, <2>4 DEF InsertRoot
<1>6. CASE FindAgain(q)
  <2>1. /\ subject[q] \in Paths /\ at[q] = "again" /\ UNCHANGED <<rootVars, moduleVars, imports>>
    BY <1>0, <1>6 DEF FindAgain, Upserts, Upserting
  <2>2. CASE Leave(q)
    BY <2>1, <2>2, LeavingStep
  <2>3. ASSUME NEW i \in RootsAt(subject[q]), Set(found, q, i), Set(at, q, "byId"),
               UNCHANGED <<read, todo, subject, input>>
        PROVE  CoreInv'
    <3>1. i \in RootIds /\ found' = [found EXCEPT ![q] = i] /\ at' = [at EXCEPT ![q] = "byId"]
      BY <2>3 DEF RootsAt, Set
    <3>2. TypeOK'
      BY <1>0, <2>1, <2>3, <3>1 DEF TypeOK, OwnedType, Places, Upserting, rootVars, moduleVars
    <3>3. Subjects' /\ Upserts'
      BY <1>0, <2>1, <2>3, <3>1 DEF Subjects, Upserts, Upserting, TypeOK
    <3>4. NobodyLeftBetween'
      BY <1>0, <2>1, <2>3, <3>1, ModulesAlone DEF TypeOK, moduleVars
    <3> QED
      BY <3>2, <3>3, <3>4 DEF CoreInv
  <2> QED
    BY <1>6, <2>2, <2>3 DEF FindAgain
<1>7. CASE SelectRemoved(q)
  <2>1. CASE Leave(q)
    BY <1>7, <2>1, LeavingStep DEF SelectRemoved
  <2>2. CASE ~Leave(q)
    <3>1. /\ at' = [at EXCEPT ![q] = "disable"] /\ todo' = [todo EXCEPT ![q] = Removed(q)]
          /\ read' = [read EXCEPT ![q] = {}] /\ at[q] = "sync"
          /\ UNCHANGED <<subject, found, input, rootVars, moduleVars, imports>>
      BY <1>7, <2>2 DEF SelectRemoved, Set
    <3>2. Removed(q) \subseteq RootIds
      BY DEF Removed
    <3>3. TypeOK'
      BY <1>0, <3>1, <3>2 DEF TypeOK, OwnedType, Places, rootVars, moduleVars
    <3>4. Subjects' /\ Upserts'
      BY <1>0, <3>1, <3>2 DEF TypeOK, Subjects, Upserts, Upserting
    <3>5. NobodyLeftBetween'
      BY <1>0, <3>1, ModulesAlone DEF TypeOK, moduleVars
    <3> QED
      BY <3>3, <3>4, <3>5 DEF CoreInv
  <2> QED
    BY <2>1, <2>2
<1>8. CASE Disable(q)
  <2>1. at[q] = "disable" /\ Leave(q) /\ UNCHANGED <<listed, rule, puts, moduleVars, imports>>
    BY <1>8 DEF Disable
  <2>2. \A i \in RootIds : root[i] # NoRoot => [root[i] EXCEPT !.on = "off"] \in Root
    BY <1>0 DEF TypeOK, Root
  <2>3. [NoRoot EXCEPT !.on = "off"] = NoRoot
    BY DEF NoRoot
  <2>4. root' \in [RootIds -> Root \cup {NoRoot}]
    BY <1>0, <1>8, <2>2, <2>3 DEF Disable, Disabled, TypeOK
  <2>5. NobodyLeftBetween'
    BY <1>0, <2>1, Leaving, ModulesAlone DEF moduleVars
  <2> QED
    BY <1>0, <2>1, <2>4, <2>5, Leaving, SubjectsLeave DEF CoreInv, TypeOK, OwnedType, moduleVars
<1> QED
  BY <1>2, <1>3, <1>4, <1>5, <1>6, <1>7, <1>8

LEMMA RuleStep ==
  ASSUME CoreInv, OwnedType', NEW q \in Procs, PutRule(q) \/ WriteRule(q) \/ Interrupt(q)
  PROVE  CoreInv'
<1> USE RuntimeConfigAssumption
<1>0. TypeOK /\ Subjects /\ Upserts /\ NobodyLeftBetween
  BY DEF CoreInv
<1>1. CASE PutRule(q)
  <2>1. PICK g \in Patterns :
          at' = [at EXCEPT ![q] = FindRule(g)] /\ subject' = [subject EXCEPT ![q] = g]
    BY <1>1 DEF PutRule, Set
  <2>2. /\ at[q] = "idle" /\ FindRule(g) \in {"ruleInsert", "ruleUpdate"}
        /\ puts < MaxPuts /\ puts' = puts + 1
        /\ UNCHANGED <<listed, root, rule, moduleVars, read, todo, found, input, imports>>
    BY <1>1 DEF PutRule, FindRule
  <2>3. puts' \in 0..MaxPuts
    BY <1>0, <2>2 DEF TypeOK
  <2>4. TypeOK'
    BY <1>0, <2>1, <2>2, <2>3 DEF TypeOK, OwnedType, Places, moduleVars
  <2>5. Subjects' /\ Upserts'
    BY <1>0, <2>1, <2>2 DEF TypeOK, Subjects, Upserts, Upserting
  <2>6. NobodyLeftBetween'
    BY <1>0, <2>1, <2>2, ModulesAlone DEF TypeOK, moduleVars
  <2> QED
    BY <2>4, <2>5, <2>6 DEF CoreInv
<1>2. CASE WriteRule(q)
  <2>1. rule' \in [Patterns -> {"none", "ui", "config_import"}]
    BY <1>0, <1>2 DEF WriteRule, TypeOK
  <2>2. /\ at[q] \in {"ruleInsert", "ruleUpdate"} /\ Leave(q)
        /\ UNCHANGED <<listed, root, puts, moduleVars, imports>>
    BY <1>2 DEF WriteRule
  <2>3. NobodyLeftBetween'
    BY <1>0, <2>2, Leaving, ModulesAlone DEF moduleVars
  <2> QED
    BY <1>0, <2>1, <2>2, <2>3, Leaving, SubjectsLeave DEF CoreInv, TypeOK, OwnedType, moduleVars
<1>3. CASE Interrupt(q)
  <2>1. q \notin Stable /\ Leave(q) /\ UNCHANGED <<rootVars, moduleVars, imports>>
    BY <1>3 DEF Interrupt
  <2>2. NobodyLeftBetween'
    BY <1>0, <2>1, Leaving DEF NobodyLeftBetween, TypeOK, moduleVars
  <2> QED
    BY <1>0, <2>1, <2>2, Leaving, SubjectsLeave
    DEF CoreInv, TypeOK, OwnedType, rootVars, moduleVars
<1> QED
  BY <1>1, <1>2, <1>3

-----------------------------------------------------------------------------
(* What a synchronisation has found or selected is its own.                *)

\* Where a process stands with the roots.
Stands(q) == <<at[q], read[q], todo[q], found[q]>>

\* A process stands where it stood, or has just found or selected roots that
\* are its own, or it is no synchronisation that has found any.
OwnMove(q) ==
  \/ Stands(q)' = Stands(q)
  \/ at'[q] = "update" /\ at[q] = "byId" /\ found'[q] = found[q] /\ read'[q] = read[q]
  \/ at'[q] \in {"byId", "update"} /\ read'[q] # {} /\ found'[q] \in Own(q)'
  \/ at'[q] = "disable" /\ todo'[q] \subseteq Own(q)'
  \/ at'[q] \in {"byId", "update"} /\ read'[q] = {}
  \/ at'[q] \notin {"byId", "update", "disable"}

LEMMA OwnKept ==
  ASSUME OwnInv, Remember, OwnedType, \A q \in Procs : OwnMove(q)
  PROVE  OwnInv'
<1> SUFFICES ASSUME NEW q \in Procs
             PROVE /\ Synchronising(q)' => Own(q)' \subseteq owned'[q]
                   /\ at'[q] \in {"byId", "update"} /\ read'[q] # {} => found'[q] \in owned'[q]
                   /\ at'[q] = "disable" => todo'[q] \subseteq owned'[q]
  BY DEF OwnInv
<1>1. owned'[q] = IF Synchronising(q)' THEN owned[q] \cup Own(q)' ELSE {}
  BY DEF Remember
<1>2. Synchronising(q)' <=>
        \/ at'[q] \in {"sync", "disable"}
        \/ at'[q] \in {"byId", "byPath", "insert", "again", "update"} /\ read'[q] # {}
  BY DEF Synchronising, Upserting, Source
<1>3. /\ at[q] \in {"byId", "update"} /\ read[q] # {} => found[q] \in owned[q]
      /\ at[q] = "disable" => todo[q] \subseteq owned[q]
  BY DEF OwnInv
<1> QED
  BY <1>1, <1>2, <1>3 DEF OwnMove, Stands

\* A step of q leaves the others where they stand.
OthersStand(q) == \A r \in Procs \ {q} : Stands(r)' = Stands(r)

LEMMA LeaveMove ==
  ASSUME TypeOK, NEW q \in Procs, Leave(q)
  PROVE  OthersStand(q) /\ OwnMove(q)
BY Leaving DEF OthersStand, OwnMove, Stands, TypeOK

LEMMA ModuleMove ==
  ASSUME TypeOK, NEW q \in Procs,
         \/ SeedFromConfig(q) \/ Reload(q) \/ Operate(q) \/ SeedOne(q) \/ Get(q) \/ Mark(q)
         \/ Act(q) \/ PutRule(q) \/ WriteRule(q) \/ Interrupt(q)
  PROVE  OthersStand(q) /\ OwnMove(q)
<1>1. CASE Leave(q)
  BY <1>1, LeaveMove
<1>2. ASSUME NEW m \in Modules \cup {None}, SeedAll(q, m) PROVE OthersStand(q) /\ OwnMove(q)
  BY <1>2 DEF SeedAll, Set, OthersStand, OwnMove, Stands, TypeOK
<1>3. CASE SeedFromConfig(q) \/ Reload(q)
  BY <1>3 DEF SeedFromConfig, Reload, Set, OthersStand, OwnMove, Stands, TypeOK
<1>4. CASE Operate(q)
  BY <1>2, <1>4 DEF Operate, Set, OthersStand, OwnMove, Stands, TypeOK
<1>5. CASE SeedOne(q) /\ ~Leave(q)
  <2>1. \/ at' = [at EXCEPT ![q] = "get"] /\ read' = [read EXCEPT ![q] = {}]
           /\ todo' = [todo EXCEPT ![q] = {}] /\ UNCHANGED found
        \/ UNCHANGED <<at, read, found>> /\ \E m : todo' = [todo EXCEPT ![q] = todo[q] \ {m}]
    BY <1>5 DEF SeedOne, Seeded, Set
  <2>2. at[q] = "seed"
    BY <1>5 DEF SeedOne
  <2> QED
    BY <2>1, <2>2 DEF OthersStand, OwnMove, Stands, TypeOK
<1>6. CASE Get(q) /\ ~Leave(q)
  <2>1. \/ at' = [at EXCEPT ![q] = "mark"] /\ UNCHANGED <<read, todo, found>>
        \/ SeedAll(q, subject[q])
    BY <1>6 DEF Get, Set
  <2> QED
    BY <2>1 DEF SeedAll, Set, OthersStand, OwnMove, Stands, TypeOK
<1>7. CASE Mark(q)
  BY <1>7 DEF Mark, Set, OthersStand, OwnMove, Stands, TypeOK
<1>8. CASE PutRule(q)
  <2>1. \E g \in Patterns : at' = [at EXCEPT ![q] = FindRule(g)]
    BY <1>8 DEF PutRule, Set
  <2>2. UNCHANGED <<read, todo, found>>
    BY <1>8 DEF PutRule
  <2> QED
    BY <2>1, <2>2 DEF FindRule, OthersStand, OwnMove, Stands, TypeOK
<1> QED
  BY <1>1, <1>3, <1>4, <1>5, <1>6, <1>7, <1>8 DEF Act, WriteRule, Interrupt

LEMMA RootMove ==
  ASSUME CoreInv, NEW q \in Procs,
         \/ SyncRead(q) \/ SyncNext(q) \/ Put(q) \/ GetRootPath(q) \/ FindRootPath(q)
         \/ UpdateRoot(q) \/ InsertRoot(q) \/ FindAgain(q) \/ SelectRemoved(q) \/ Disable(q)
  PROVE  OthersStand(q) /\ OwnMove(q)
<1>0. TypeOK /\ Subjects /\ Upserts
  BY DEF CoreInv
<1>1. CASE Leave(q)
  BY <1>0, <1>1, LeaveMove
<1>2. CASE SyncRead(q)
  BY <1>0, <1>2 DEF SyncRead, Set, OthersStand, OwnMove, Stands, TypeOK
<1>3. CASE SyncNext(q)
  BY <1>0, <1>3 DEF SyncNext, Set, OthersStand, OwnMove, Stands, TypeOK
<1>4. CASE Put(q)
  <2>1. at[q] = "idle" /\ read[q] = {} /\ UNCHANGED <<read, todo>>
    BY <1>0, <1>4 DEF Put, Subjects
  <2>2. \E i \in RootIds \cup {None} :
          /\ at' = [at EXCEPT ![q] = IF i = None THEN "byPath" ELSE "byId"]
          /\ found' = [found EXCEPT ![q] = i]
    BY <1>4 DEF Put, Set
  <2> QED
    BY <1>0, <2>1, <2>2 DEF OthersStand, OwnMove, Stands, TypeOK
<1>5. CASE GetRootPath(q)
  <2>1. at[q] = "byId" /\ UNCHANGED <<read, todo>>
    BY <1>5 DEF GetRootPath, Existing
  <2>2. \/ at' = [at EXCEPT ![q] = "update"] /\ found' = [found EXCEPT ![q] = found[q]]
        \/ at' = [at EXCEPT ![q] = "byPath"] /\ UNCHANGED found
    BY <1>5 DEF GetRootPath, Existing, Set
  <2> QED
    BY <1>0, <2>1, <2>2 DEF OthersStand, OwnMove, Stands, TypeOK
<1>6. ASSUME NEW i \in RootsAt(subject[q]), NEW there \in {"byId", "update"},
             at[q] \in {"byPath", "again"}, UNCHANGED <<root, read, todo>>,
             Set(at, q, there), Set(found, q, i)
      PROVE  OthersStand(q) /\ OwnMove(q)
  <2>1. i \in RootIds /\ root[i].path = subject[q] /\ (read[q] # {} => subject[q] \in read[q])
    BY <1>0, <1>6 DEF RootsAt, Upserts, Upserting
  <2>2. at'[q] = there /\ found'[q] = i /\ OthersStand(q)
    BY <1>0, <1>6 DEF Set, OthersStand, Stands, TypeOK
  <2>3. read[q] # {} => i \in Own(q)'
    BY <1>6, <2>1 DEF Own
  <2> QED
    BY <1>6, <2>2, <2>3 DEF OwnMove
<1>7. CASE FindRootPath(q)
  <2>1. at[q] = "byPath" /\ UNCHANGED <<root, read, todo>>
    BY <1>7 DEF FindRootPath, Existing, rootVars
  <2>2. CASE \E i \in RootsAt(subject[q]) : Set(at, q, "update") /\ Set(found, q, i)
    BY <1>6, <2>1, <2>2
  <2>3. CASE Set(at, q, "insert") /\ UNCHANGED found
    BY <1>0, <2>1, <2>3 DEF Set, OthersStand, OwnMove, Stands, TypeOK
  <2> QED
    BY <1>7, <2>2, <2>3 DEF FindRootPath, Existing
<1>8. CASE Upserted(q) /\ ~Leave(q)
  BY <1>0, <1>8 DEF Upserted, Set, OthersStand, OwnMove, Stands, TypeOK
<1>9. CASE InsertRoot(q) /\ ~Upserted(q)
  BY <1>0, <1>9 DEF InsertRoot, Set, OthersStand, OwnMove, Stands, TypeOK
<1>10. CASE FindAgain(q) /\ ~Leave(q)
  <2>1. at[q] = "again" /\ UNCHANGED <<root, read, todo>>
    BY <1>10 DEF FindAgain, rootVars
  <2>2. \E i \in RootsAt(subject[q]) : Set(at, q, "byId") /\ Set(found, q, i)
    BY <1>10 DEF FindAgain
  <2> QED
    BY <1>6, <2>1, <2>2
<1>11. CASE SelectRemoved(q) /\ ~Leave(q)
  <2>1. /\ at' = [at EXCEPT ![q] = "disable"] /\ todo' = [todo EXCEPT ![q] = Removed(q)]
        /\ read' = [read EXCEPT ![q] = {}] /\ UNCHANGED <<found, root>>
    BY <1>11 DEF SelectRemoved, Set, rootVars
  <2>2. Removed(q) \subseteq Own(q)'
    BY <2>1 DEF Removed, Own
  <2>3. OthersStand(q) /\ at'[q] = "disable" /\ todo'[q] = Removed(q)
    BY <1>0, <2>1 DEF OthersStand, Stands, TypeOK
  <2> QED
    BY <2>2, <2>3 DEF OwnMove
<1> QED
  BY <1>1, <1>2, <1>3, <1>4, <1>5, <1>7, <1>8, <1>9, <1>10, <1>11 DEF UpdateRoot, Disable

LEMMA OwnStep == CoreInv /\ OwnInv /\ Next => OwnInv'
<1> SUFFICES ASSUME CoreInv, OwnInv, Step, Remember PROVE OwnInv'
  BY DEF Next
<1>0. TypeOK /\ OwnedType
  BY DEF CoreInv, TypeOK, OwnedType
<1>1. CASE Import
  <2>1. \A q \in Procs : OwnMove(q)
    BY <1>1 DEF Import, local, OwnMove, Stands
  <2> QED
    BY <1>0, <2>1, OwnKept
<1>2. ASSUME NEW q \in Procs, OthersStand(q), OwnMove(q) PROVE OwnInv'
  <2>1. \A r \in Procs : OwnMove(r)
    BY <1>2 DEF OthersStand, OwnMove
  <2> QED
    BY <1>0, <2>1, OwnKept
<1>3. CASE ~Import
  <2>1. PICK q \in Procs :
          \/ SeedFromConfig(q) \/ Reload(q) \/ Operate(q) \/ SyncRead(q) \/ Put(q) \/ PutRule(q)
          \/ Work(q) \/ Interrupt(q)
    BY <1>3 DEF Step
  <2>2. OthersStand(q) /\ OwnMove(q)
    BY <1>0, <2>1, ModuleMove, RootMove DEF Work
  <2> QED
    BY <1>2, <2>2
<1> QED
  BY <1>1, <1>3

LEMMA ConfigStep == ConfigInv /\ [Next]_vars => ConfigInv'
<1>1. ConfigInv /\ UNCHANGED vars => ConfigInv'
  BY DEF vars, system, local, ConfigInv, CoreInv, TypeOK, Subjects, Upserts, NobodyLeftBetween,
         OwnInv, Synchronising, Source, Own
<1>2. ASSUME ConfigInv, Next PROVE ConfigInv'
  <2>1. CoreInv /\ OwnInv /\ Step /\ Remember
    BY <1>2 DEF ConfigInv, Next
  <2>2. OwnedType'
    <3>1. \A q \in Procs : owned[q] \subseteq RootIds /\ Own(q)' \subseteq RootIds
      BY <2>1 DEF CoreInv, TypeOK, Own
    <3> QED
      BY <2>1, <3>1 DEF Remember, OwnedType
  <2>3. CoreInv'
    BY <2>1, <2>2, ImportStep, ModuleStep, RootBegin, RootStep, RuleStep DEF Step, Work
  <2> QED
    BY <1>2, <2>1, <2>3, OwnStep DEF ConfigInv
<1> QED
  BY <1>1, <1>2

LEMMA ConfigInvariant == Spec => []ConfigInv
BY ConfigInit, ConfigStep, PTL DEF Spec

-----------------------------------------------------------------------------
\* The rows of modules, roots and rules, and what processes know, are well
\* typed (registry.go, scanner/store.go).
THEOREM TypesKept == Spec => []TypeOK
<1>1. ConfigInv => TypeOK
  BY DEF ConfigInv, CoreInv
<1> QED
  BY <1>1, ConfigInvariant, PTL

\* A process that runs on leaves no module restarting or reloading
\* (Store.Restart, Reload and markFailedOrJoin of registry.go).
THEOREM ModulesComeBack == Spec => []NobodyLeftBetween
<1>1. ConfigInv => NobodyLeftBetween
  BY DEF ConfigInv, CoreInv
<1> QED
  BY <1>1, ConfigInvariant, PTL

\* Wherever requests move roots by their ids, a synchronisation changes only
\* such as have been of source config, or at a path it lists, since it began,
\* and imports leave the rules of requests alone (upsertRootPath,
\* deactivateRemovedConfigRootPaths, replaceIgnoreRules).
THEOREM RequestsKeep == Spec => RequestsOwnTheirs
<1> DEFINE Touched(i) ==
      \E q \in Procs : /\ at'[q] # at[q]
                       /\ (at[q] = "update" /\ Source(q) = "api") \/ i \in owned[q]
           Theirs ==
      /\ \A i \in RootIds : root[i] # NoRoot /\ root'[i] # root[i] => Touched(i)
      /\ \A g \in Patterns : rule[g] = "ui" => rule'[g] = "ui"
<1>1. ConfigInv /\ [Next]_vars => [Theirs]_<<root, rule>>
  <2> SUFFICES ASSUME ConfigInv, Step PROVE Theirs \/ UNCHANGED <<root, rule>>
    BY DEF vars, system, Next
  <2>0. TypeOK /\ Subjects /\ Upserts /\ OwnInv
    BY DEF ConfigInv, CoreInv
  <2>1. CASE Import
    BY <2>0, <2>1 DEF Import, Insertable, Replaced, TypeOK
  <2>2. ASSUME NEW q \in Procs, UpdateRoot(q) PROVE Theirs \/ UNCHANGED <<root, rule>>
    <3>1. CASE UNCHANGED root
      BY <2>2, <3>1 DEF UpdateRoot
    <3>2. CASE ~UNCHANGED root
      <4>1. /\ at[q] = "update" /\ UNCHANGED rule /\ Upserted(q)
            /\ \E row : root' = [root EXCEPT ![found[q]] = row]
        BY <2>2, <3>2 DEF UpdateRoot, WriteRoot, Set
      <4>2. at'[q] # at[q]
        BY <2>0, <4>1, Leaving DEF Upserted, Set, TypeOK
      <4>3. Source(q) # "api" => found[q] \in owned[q]
        BY <2>0, <4>1 DEF Source, OwnInv
      <4>4. \A i \in RootIds : root'[i] # root[i] => i = found[q]
        BY <2>0, <4>1 DEF TypeOK
      <4> QED
        BY <4>1, <4>2, <4>3, <4>4
    <3> QED
      BY <3>1, <3>2
  <2>3. ASSUME NEW q \in Procs, InsertRoot(q) PROVE Theirs
    <3>1. \A i \in RootIds : root[i] # NoRoot => root'[i] = root[i]
      BY <2>0, <2>3 DEF InsertRoot, WriteRoot, Set, TypeOK
    <3> QED
      BY <2>3, <3>1 DEF InsertRoot
  <2>4. ASSUME NEW q \in Procs, Disable(q) PROVE Theirs
    <3>1. at'[q] # at[q] /\ todo[q] \subseteq owned[q] /\ UNCHANGED rule
      BY <2>0, <2>4, Leaving DEF Disable, OwnInv, TypeOK
    <3>2. \A i \in RootIds : root'[i] # root[i] => i \in todo[q]
      BY <2>4 DEF Disable, Disabled
    <3> QED
      BY <3>1, <3>2
  <2>5. ASSUME NEW q \in Procs, WriteRule(q) PROVE Theirs
    BY <2>0, <2>5 DEF WriteRule, TypeOK
  <2>6. ASSUME NEW q \in Procs,
               \/ SeedFromConfig(q) \/ Reload(q) \/ Operate(q) \/ SeedOne(q) \/ Get(q)
               \/ Mark(q) \/ Act(q) \/ SyncRead(q) \/ SyncNext(q) \/ Put(q) \/ GetRootPath(q)
               \/ FindRootPath(q) \/ FindAgain(q) \/ SelectRemoved(q) \/ PutRule(q) \/ Interrupt(q)
        PROVE UNCHANGED <<root, rule>>
    BY <2>6
    DEF SeedFromConfig, Reload, Operate, SeedAll, SeedOne, Get, Mark, Act, SyncRead, SyncNext, Put,
        GetRootPath, FindRootPath, FindAgain, SelectRemoved, PutRule, Interrupt, rootVars
  <2> QED
    BY <2>1, <2>2, <2>3, <2>4, <2>5, <2>6 DEF Step, Work
<1> QED
  BY <1>1, ConfigInvariant, PTL DEF Spec, RequestsOwnTheirs
=============================================================================
