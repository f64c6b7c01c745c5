--------------------------- MODULE RuntimeConfig ---------------------------
(***************************************************************************)
(* What running processes make of the imported configuration.              *)
(*                                                                         *)
(* thelper-ctl -reconfigure replaces the entries of config_entries.  From  *)
(* modules.enabled, modules.Store.Seed derives the rows of module_states:  *)
(* when a server or a worker starts and on a reload; Restart and Reload    *)
(* take one module through "restarting" or "reloading".  From              *)
(* scanning.global_scan, scanner.Store.SyncRootPathsFromConfig derives the *)
(* rows of root_paths: before every list and every scan; PUT               *)
(* /api/root-paths writes the same rows with source api, and may move one  *)
(* to another path, since it finds it by its id or by its path.  The       *)
(* system's ignore rules come with the import, and from PUT                *)
(* /api/ignore-rules.                                                      *)
(*                                                                         *)
(* Only the import is a transaction.  In all other operations each         *)
(* statement is a step, and processes take their steps in any order.       *)
(***************************************************************************)
EXTENDS Naturals, FiniteSets

CONSTANTS
  Modules,     \* InitialRegistry
  Available,   \* those this build can run
  Faulty,      \* those whose Start, Stop, Reload or Health may fail
  Paths,       \* root paths
  RootIds,     \* ids of root_paths, as many as there are paths
  Patterns,    \* patterns of ignore rules for the whole system
  Procs,       \* requests, handlers and commands that may be at work at once
  Stable,      \* those that are never interrupted and meet no storage error
  MaxImports,  \* bound: imports of a configuration
  MaxPuts,     \* bound: PUT /api/root-paths and /api/ignore-rules
  None

ASSUME RuntimeConfigAssumption ==
  /\ Available \subseteq Modules /\ Faulty \subseteq Available
  /\ Stable \subseteq Procs /\ None \notin Procs \cup Modules \cup Paths \cup RootIds \cup Patterns
  /\ MaxImports \in Nat /\ MaxPuts \in Nat

VARIABLES
  enabled,   \* modules.enabled as far as it names available ones, or None
  listed,    \* the paths of scanning.global_scan, or None
  state,     \* state[m]: module_states
  by,        \* by[m]: whose pid is in that row while it says restarting
  root,      \* root[i]: root_paths
  rule,      \* rule[g]: the origin of the ignore rule, if there is one
  at,        \* what a process does next
  read,      \* the configuration it has read
  todo,      \* modules to seed or paths to upsert, one by one, or roots to disable
  subject,   \* the module it restarts, or the path or pattern it upserts
  found,     \* the id of the root it upserts, if it has one
  input,     \* what it is to write into the column enabled there
  owned,     \* history: the roots that a synchronisation may call its own
  imports, puts

local == <<at, read, todo, subject, found, input>>
system == <<enabled, listed, state, by, root, rule, local, imports, puts>>
vars == <<system, owned>>

Between == {"restarting", "reloading"}
States == {"absent", "running", "stopped", "failed", "unavailable"} \cup Between

NoRoot == [path |-> None, source |-> "none", on |-> "off"]
Keep == "keep"  \* an input that leaves the column enabled as it was

Init ==
  /\ enabled = None /\ listed = None
  /\ state = [m \in Modules |-> "absent"] /\ by = [m \in Modules |-> None]
  /\ root = [i \in RootIds |-> NoRoot] /\ rule = [g \in Patterns |-> "none"]
  /\ at = [q \in Procs |-> "idle"]
  /\ read = [q \in Procs |-> {}] /\ todo = [q \in Procs |-> {}]
  /\ subject = [q \in Procs |-> None] /\ found = [q \in Procs |-> None]
  /\ input = [q \in Procs |-> Keep] /\ owned = [q \in Procs |-> {}]
  /\ imports = 0 /\ puts = 0

Set(f, q, v) == f' = [f EXCEPT ![q] = v]

Leave(q) ==
  /\ Set(at, q, "idle") /\ Set(read, q, {}) /\ Set(todo, q, {})
  /\ Set(subject, q, None) /\ Set(found, q, None) /\ Set(input, q, Keep)

\* Store.upsert: the last writer wins.
WriteState(m, s, pid) ==
  Set(state, m, s) /\ Set(by, m, IF s \in Between THEN pid ELSE None)

rootVars == <<listed, root, rule, puts>>
moduleVars == <<enabled, state, by>>

\* replaceIgnoreRules deletes the rules of the last import and inserts those of
\* the file; a pattern that a request has made its own makes the insert fail.
Insertable(patterns) == \A g \in patterns : rule[g] # "ui"

Replaced(patterns) ==
  [g \in Patterns |-> IF g \in patterns THEN "config_import"
                     ELSE IF rule[g] = "ui" THEN "ui" ELSE "none"]

\* All entries and rules of one import are written, or none.  PUT /api/config
\* and a missing ignore file bring no rules.
Import ==
  /\ imports < MaxImports /\ imports' = imports + 1
  /\ enabled' \in SUBSET Available
  /\ listed' \in SUBSET Paths
  /\ \/ UNCHANGED rule
     \/ \E patterns \in SUBSET Patterns :
          Insertable(patterns) /\ rule' = Replaced(patterns)
  /\ UNCHANGED <<state, by, root, local, puts>>

-----------------------------------------------------------------------------
(* module_states.                                                          *)

\* enabledSet: without a list every module is.
EnabledSet == IF enabled = None THEN Available ELSE enabled

\* A server or a worker starts, or thelper-ctl -reload.
SeedFromConfig(q) ==
  /\ at[q] = "idle"
  /\ Set(at, q, "seed") /\ Set(read, q, EnabledSet) /\ Set(todo, q, Modules)
  /\ UNCHANGED <<rootVars, moduleVars, subject, found, input, imports>>

\* The keys that a reload knows: the one it acts upon, and one of each kind
\* of the others.
Reloadable == {"modules.enabled", "scanning.global_scan"}
RestartRequired == {"workers.concurrency"}
ImportedKeys == IF enabled = None THEN {} ELSE Reloadable \cup RestartRequired

\* One key that a reload does not know spoils the others.
Unknown(keys) == keys \ (Reloadable \cup RestartRequired)

Accepted(keys) ==
  IF keys = {} THEN ImportedKeys \cap Reloadable
  ELSE IF Unknown(keys) # {} THEN {} ELSE keys \cap Reloadable

\* POST /api/modules/reload of keys; of the reloadable ones only
\* modules.enabled is acted upon.  The job config_reload acts on none.
Reload(q) ==
  /\ \E keys \in SUBSET (Reloadable \cup RestartRequired \cup {"other"}) :
       "modules.enabled" \in Accepted(keys)
  /\ SeedFromConfig(q)

\* A row is missing, or thelper-ctl -restart: every module is seeded as
\* enabled, then m is looked at.
SeedAll(q, m) ==
  /\ Set(at, q, "seed") /\ Set(read, q, Available) /\ Set(todo, q, Modules)
  /\ Set(subject, q, m)
  /\ UNCHANGED <<rootVars, moduleVars, found, input, imports>>

\* The last module is seeded.
Seeded(q) ==
  IF subject[q] = None THEN Leave(q)
  ELSE /\ Set(at, q, "get") /\ Set(read, q, {}) /\ Set(todo, q, {})
       /\ UNCHANGED <<subject, found, input>>

\* Start fails: Seed returns.  Health fails: the module is stopped.
SeedOne(q) ==
  /\ at[q] = "seed"
  /\ \E m \in todo[q] :
       \/ /\ \/ m \notin Available /\ WriteState(m, "unavailable", None)
             \/ m \in read[q] /\ WriteState(m, "running", q)
             \/ /\ m \in Available /\ m \in read[q] => m \in Faulty
                /\ WriteState(m, "stopped", None)
          /\ IF todo[q] = {m} THEN Seeded(q)
             ELSE Set(todo, q, todo[q] \ {m}) /\ UNCHANGED <<at, read, subject, found, input>>
       \/ m \in Faulty /\ Leave(q) /\ UNCHANGED <<state, by>>
  /\ UNCHANGED <<rootVars, enabled, imports>>

\* Restart and Reload of a module by a request, a job or thelper-ctl.
Operate(q) ==
  /\ at[q] = "idle"
  /\ \E m \in Modules :
       \/ /\ Set(at, q, "get") /\ Set(subject, q, m)
          /\ UNCHANGED <<rootVars, moduleVars, read, todo, found, input, imports>>
       \/ SeedAll(q, m)

Get(q) ==
  /\ at[q] = "get"
  /\ LET m == subject[q]
     IN \/ state[m] = "absent" /\ SeedAll(q, m)
        \/ /\ state[m] = "unavailable" \/ (state[m] # "absent" /\ m \notin Available)
           /\ Leave(q) /\ UNCHANGED <<rootVars, moduleVars, imports>>
        \/ /\ state[m] \notin {"absent", "unavailable"} /\ m \in Available
           /\ Set(at, q, "mark")
           /\ UNCHANGED <<rootVars, moduleVars, read, todo, subject, found, input, imports>>

Mark(q) ==
  /\ at[q] = "mark" /\ Set(at, q, "act")
  /\ \E s \in Between : WriteState(subject[q], s, q)
  /\ UNCHANGED <<rootVars, enabled, read, todo, subject, found, input, imports>>

\* What markFailedOrJoin writes when the module did not come back.
Outcome_fault(q) ==
  {"running"} \cup (IF subject[q] \in Faulty THEN {state[subject[q]]} ELSE {})

Outcome(q) ==
  {"running"} \cup (IF subject[q] \in Faulty THEN {"failed"} ELSE {})

Act(q) ==
  /\ at[q] = "act"
  /\ \E s \in Outcome(q) : WriteState(subject[q], s, q)
  /\ Leave(q)
  /\ UNCHANGED <<rootVars, enabled, imports>>

-----------------------------------------------------------------------------
(* root_paths.                                                             *)

RootsAt(p) == {i \in RootIds : root[i].path = p}

\* UPDATE and INSERT: path is unique.
WriteRoot(i, row) ==
  /\ RootsAt(row.path) \subseteq {i}
  /\ Set(root, i, row)

\* SyncRootPathsFromConfig, before a list, a scan request or a global scan.
SyncRead(q) ==
  /\ at[q] = "idle" /\ listed # None
  /\ Set(at, q, "sync") /\ Set(read, q, listed) /\ Set(todo, q, listed)
  /\ UNCHANGED <<rootVars, moduleVars, subject, found, input, imports>>

\* The upsert of one listed path, without an id.
SyncNext(q) ==
  /\ at[q] = "sync"
  /\ \E p \in todo[q] :
       /\ Set(at, q, "byPath") /\ Set(todo, q, todo[q] \ {p})
       /\ Set(subject, q, p) /\ Set(input, q, "on")
  /\ UNCHANGED <<rootVars, moduleVars, read, found, imports>>

\* The upsert of one path by a request, which may name an id.
Put(q) ==
  /\ at[q] = "idle" /\ puts < MaxPuts
  /\ puts' = puts + 1
  /\ \E p \in Paths, on \in {"on", "off", Keep}, i \in RootIds \cup {None} :
       /\ Set(at, q, IF i = None THEN "byPath" ELSE "byId")
       /\ Set(subject, q, p) /\ Set(found, q, i) /\ Set(input, q, on)
  /\ UNCHANGED <<listed, root, rule, moduleVars, read, todo, imports>>

\* The steps of upsertRootPath; a request has no list.
Upserting == {"byId", "byPath", "insert", "again", "update"}
Source(q) == IF read[q] = {} THEN "api" ELSE "config"

\* There is a row: what the input leaves open is kept as it is now.
Existing(q, i) ==
  /\ Set(at, q, "update") /\ Set(found, q, i)
  /\ Set(input, q, IF input[q] = Keep THEN root[i].on ELSE input[q])
  /\ UNCHANGED <<read, todo, subject>>

GetRootPath(q) ==
  /\ at[q] = "byId"
  /\ IF root[found[q]] # NoRoot THEN Existing(q, found[q])
     ELSE Set(at, q, "byPath") /\ UNCHANGED <<read, todo, subject, found, input>>
  /\ UNCHANGED <<rootVars, moduleVars, imports>>

FindRootPath(q) ==
  /\ at[q] = "byPath"
  /\ \/ \E i \in RootsAt(subject[q]) : Existing(q, i)
     \/ /\ RootsAt(subject[q]) = {}
        /\ Set(at, q, "insert") /\ UNCHANGED <<read, todo, subject, found, input>>
  /\ UNCHANGED <<rootVars, moduleVars, imports>>

\* UpsertRootPaths goes on to the next path.
Upserted(q) ==
  IF Source(q) = "api" THEN Leave(q)
  ELSE /\ Set(at, q, "sync") /\ Set(subject, q, None)
       /\ Set(found, q, None) /\ Set(input, q, Keep)
       /\ UNCHANGED <<read, todo>>

\* UPDATE by id, which writes the path too; it fails where another row has it.
UpdateRoot(q) ==
  /\ at[q] = "update"
  /\ \/ /\ WriteRoot(found[q], [path |-> subject[q], source |-> Source(q), on |-> input[q]])
        /\ Upserted(q)
     \/ /\ ~(RootsAt(subject[q]) \subseteq {found[q]})
        /\ Leave(q) /\ UNCHANGED root
  /\ UNCHANGED <<listed, rule, puts, moduleVars, imports>>

\* A new row is enabled unless the input says otherwise.
Inserted_fault(q) == [path |-> subject[q], source |-> Source(q), on |-> input[q]]

Inserted(q) ==
  [path |-> subject[q], source |-> Source(q),
   on |-> IF input[q] = Keep THEN "on" ELSE input[q]]

\* The id is the one in the input or a new one.  Where the row or the id has
\* appeared, the unique indexes refuse it.
InsertRoot(q) ==
  /\ at[q] = "insert"
  /\ \/ /\ \E i \in IF found[q] = None THEN RootIds ELSE {found[q]} :
             root[i] = NoRoot /\ WriteRoot(i, Inserted(q))
        /\ Upserted(q)
     \/ /\ RootsAt(subject[q]) # {} \/ (found[q] # None /\ root[found[q]] # NoRoot)
        /\ Set(at, q, "again") /\ UNCHANGED <<root, read, todo, subject, found, input>>
  /\ UNCHANGED <<listed, rule, puts, moduleVars, imports>>

\* Then the upsert starts again from the id of the row at that path.
FindAgain(q) ==
  /\ at[q] = "again"
  /\ \/ /\ \E i \in RootsAt(subject[q]) : Set(found, q, i)
        /\ Set(at, q, "byId") /\ UNCHANGED <<read, todo, subject, input>>
     \/ RootsAt(subject[q]) = {} /\ Leave(q)
  /\ UNCHANGED <<rootVars, moduleVars, imports>>

Removed_fault(q) == {i \in RootIds : root[i].on = "on" /\ root[i].path \notin read[q]}

\* deactivateRemovedConfigRootPaths selects the rows ...
Removed(q) ==
  {i \in RootIds : /\ root[i].source = "config" /\ root[i].on = "on"
                   /\ root[i].path \notin read[q]}

SelectRemoved(q) ==
  /\ at[q] = "sync" /\ todo[q] = {}
  /\ IF Removed(q) = {} THEN Leave(q)
     ELSE /\ Set(at, q, "disable") /\ Set(read, q, {}) /\ Set(todo, q, Removed(q))
          /\ UNCHANGED <<subject, found, input>>
  /\ UNCHANGED <<rootVars, moduleVars, imports>>

\* ... and disables them by id, whatever and wherever they are by now.
Disabled_fault(q) == root

Disabled(q) ==
  [i \in RootIds |-> IF i \in todo[q] THEN [root[i] EXCEPT !.on = "off"] ELSE root[i]]

Disable(q) ==
  /\ at[q] = "disable"
  /\ root' = Disabled(q)
  /\ Leave(q)
  /\ UNCHANGED <<listed, rule, puts, moduleVars, imports>>

-----------------------------------------------------------------------------
(* ignore_rules.                                                           *)

\* findIgnoreRule.
FindRule(g) == IF rule[g] = "none" THEN "ruleInsert" ELSE "ruleUpdate"

\* PUT /api/ignore-rules, with the origin it has by default: upsertIgnoreRule
\* looks for the rule, by its id or by its pattern; its UPDATE leaves the
\* pattern as it is, so that either comes to the same ...
PutRule(q) ==
  /\ at[q] = "idle" /\ puts < MaxPuts
  /\ puts' = puts + 1
  /\ \E g \in Patterns :
       /\ Set(at, q, FindRule(g))
       /\ Set(subject, q, g)
  /\ UNCHANGED <<listed, root, rule, moduleVars, read, todo, found, input, imports>>

\* ... and updates it by its id, or inserts it unless it has appeared.  An
\* imported rule keeps its id from one import to the next.
WriteRule(q) ==
  /\ at[q] \in {"ruleInsert", "ruleUpdate"}
  /\ LET g == subject[q]
     IN rule' = [rule EXCEPT ![g] =
          IF (at[q] = "ruleInsert") = (@ = "none") THEN "ui" ELSE @]
  /\ Leave(q)
  /\ UNCHANGED <<listed, root, puts, moduleVars, imports>>

-----------------------------------------------------------------------------
\* A statement fails, the request is cancelled or the process ends.
Interrupt(q) ==
  /\ at[q] # "idle" /\ q \notin Stable
  /\ Leave(q)
  /\ UNCHANGED <<rootVars, moduleVars, imports>>

Work(q) ==
  \/ SeedOne(q) \/ Get(q) \/ Mark(q) \/ Act(q)
  \/ SyncNext(q) \/ GetRootPath(q) \/ FindRootPath(q) \/ UpdateRoot(q) \/ InsertRoot(q)
  \/ FindAgain(q) \/ SelectRemoved(q) \/ Disable(q)
  \/ WriteRule(q)

Step ==
  \/ Import
  \/ \E q \in Procs :
       \/ SeedFromConfig(q) \/ Reload(q) \/ Operate(q) \/ SyncRead(q) \/ Put(q)
       \/ PutRule(q)
       \/ Work(q) \/ Interrupt(q)

\* The history that RequestsOwnTheirs speaks of: since a synchronisation began,
\* which roots have been of source config or at a path it has read.
Synchronising(q) ==
  at[q] \in {"sync", "disable"} \/ (at[q] \in Upserting /\ Source(q) = "config")

Own(q) == {i \in RootIds : root[i].source = "config" \/ root[i].path \in read[q]}

Remember ==
  owned' = [q \in Procs |-> IF Synchronising(q)' THEN owned[q] \cup Own(q)' ELSE {}]

Next == Step /\ Remember

Spec == Init /\ [][Next]_vars

\* What is begun goes on unless it is interrupted, and a stable process keeps
\* being asked for the root paths.
Fairness ==
  /\ \A q \in Procs : WF_system(Work(q))
  /\ \A q \in Stable : SF_system(SyncRead(q))

FairSpec == Spec /\ Fairness

-----------------------------------------------------------------------------
(* Properties.                                                             *)

Root == [path : Paths, source : {"api", "config"}, on : {"on", "off"}]

Places ==
  {"idle", "seed", "get", "mark", "act", "sync", "disable", "ruleInsert", "ruleUpdate"}
    \cup Upserting

TypeOK ==
  /\ enabled \in (SUBSET Available) \cup {None}
  /\ listed \in (SUBSET Paths) \cup {None}
  /\ state \in [Modules -> States] /\ by \in [Modules -> Procs \cup {None}]
  /\ root \in [RootIds -> Root \cup {NoRoot}]
  /\ rule \in [Patterns -> {"none", "ui", "config_import"}]
  /\ at \in [Procs -> Places]
  /\ read \in [Procs -> SUBSET (Modules \cup Paths)]
  /\ todo \in [Procs -> SUBSET (Modules \cup Paths \cup RootIds)]
  /\ subject \in [Procs -> Modules \cup Paths \cup Patterns \cup {None}]
  /\ found \in [Procs -> RootIds \cup {None}]
  /\ input \in [Procs -> {"on", "off", Keep}] /\ owned \in [Procs -> SUBSET RootIds]
  /\ imports \in 0..MaxImports /\ puts \in 0..MaxPuts

\* A module that a process took down is shown restarting or reloading only
\* while that process is at work on it, whatever others write in between and
\* however its Stop, Start, Reload or Health ends.
NobodyLeftBetween ==
  \A m \in Modules :
    state[m] \in Between /\ by[m] \in Stable
      => at[by[m]] = "act" /\ subject[by[m]] = m

\* What requests write is theirs.  A synchronisation changes only such roots as
\* have been of source config, or at a path it lists, at some time since it
\* began, however requests move them meanwhile; and no import removes or takes
\* over an ignore rule that a request has written.
RequestsOwnTheirs ==
  [][/\ \A i \in RootIds :
          root[i] # NoRoot /\ root'[i] # root[i] =>
            \E q \in Procs : /\ at'[q] # at[q]
                             /\ (at[q] = "update" /\ Source(q) = "api") \/ i \in owned[q]
     /\ \A g \in Patterns : rule[g] = "ui" => rule'[g] = "ui"]_<<root, rule>>

\* Once the configuration and the requests settle, the roots of source config
\* that are enabled are at the listed paths, one at each, and stay so, in spite
\* of overlapping synchronisations that began with an older list or were
\* interrupted, and of roots that were moved.
RootsConverge ==
  <>[](listed # None =>
         \A p \in Paths :
           p \in listed <=>
             \E i \in RootIds : root[i] = [path |-> p, source |-> "config", on |-> "on"])

\* What the documentation of root_paths says: a synchronisation owns only rows
\* of source config.  It does not hold.
OnlyConfigRootsDisabled ==
  [][\A i \in RootIds :
       root[i].source = "api" /\ root[i].on = "on" /\ root'[i].on = "off"
         => \E q \in Procs : at'[q] # at[q] /\ at[q] = "update"]_root
=============================================================================
