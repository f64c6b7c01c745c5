-------------------------- MODULE ProjectDiscovery --------------------------
(***************************************************************************)
(* The project_discovery jobs: each looks for the repository that contains *)
(* its project, makes or renews a generic card for it, assigns the project *)
(* to the card and links it to the projects assigned to the same card      *)
(* (projectDiscoveryHandler in scanner/handlers.go, scanner/store.go).     *)
(* Clones write the same table (UpsertRepositoryForClone in                *)
(* repository/store.go) and are modelled from where they meet it.          *)
(*                                                                         *)
(* A step is one SQL statement, one transaction or one look at the disk.   *)
(***************************************************************************)
EXTENDS Naturals, Sequences

CONSTANTS
  Projects,
  Dirs,        \* directories under the root path
  Path,        \* the directories from a project's own up to the root
  Clones,      \* clone requests
  Identities,  \* provider, host and path of remote repositories
  Identity,    \* what a request clones
  Target,      \* where to
  MaxRuns,     \* bound: discoveries of a project, and times a clone is asked for
  MaxAttempts, \* max_attempts of a job
  Local,       \* the identity of a generic card
  NoRow

ASSUME ProjectDiscoveryAssumption ==
  /\ Path \in [Projects -> Seq(Dirs)]
  /\ \A p \in Projects : Path[p] # << >>
  /\ Identity \in [Clones -> Identities] /\ Target \in [Clones -> Dirs]
  /\ MaxRuns \in Nat /\ MaxAttempts \in Nat
  /\ Local \notin Identities
  /\ NoRow \notin Nat

VARIABLES
  marker,   \* what .git is in a directory
  repo,     \* the table repositories, in the order of insertion
  project,  \* repository_id of a project
  link,     \* repository_id of the link between two projects, once there is one
  at,       \* where the job of a project stands
  runs, attempt,
  pos, dir, \* how far up it has looked, and the directory with .git
  card,     \* the card it has read, made or renewed
  todo,     \* projects it has yet to link
  seen,     \* the card of its last run that is complete
  clone,    \* where a clone request stands
  asked,    \* how often it was made
  row, old  \* the managed and the generic card it has read

tables    == <<repo, project, link>>
jobVars   == <<at, runs, attempt, pos, dir, card, todo, seen>>
cloneVars == <<clone, asked, row, old>>
vars == <<marker, tables, jobVars, cloneVars>>

Pairs == {pair \in SUBSET Projects : \E p, q \in Projects : p # q /\ pair = {p, q}}

Running == {"begin", "walk", "find", "update", "insert", "again", "set", "related", "link"}

Init ==
  /\ marker \in [Dirs -> {"none", "directory", "gitfile", "other"}]
  /\ repo = << >>
  /\ project = [p \in Projects |-> NoRow]
  /\ link = [pair \in Pairs |-> NoRow]
  /\ at = [p \in Projects |-> "idle"]
  /\ runs = [p \in Projects |-> 0] /\ attempt = [p \in Projects |-> 0]
  /\ pos = [p \in Projects |-> 1]
  /\ dir = [p \in Projects |-> Path[p][1]]
  /\ card = [p \in Projects |-> NoRow]
  /\ todo = [p \in Projects |-> {}]
  /\ seen = [p \in Projects |-> NoRow]
  /\ clone = [c \in Clones |-> "idle"]
  /\ asked = [c \in Clones |-> 0]
  /\ row = [c \in Clones |-> NoRow] /\ old = [c \in Clones |-> NoRow]

-----------------------------------------------------------------------------
(* Queries *)

\* findGenericRepository: whatever its status.
GenericOf(d) == {id \in DOMAIN repo : repo[id].who = Local /\ repo[id].at = d}

\* findRepository
CardOf(i) == {id \in DOMAIN repo : repo[id].who = i}

ActiveAt(d) == {id \in DOMAIN repo : repo[id].at = d /\ repo[id].status = "active"}

TheRow(S) == IF S = {} THEN NoRow ELSE CHOOSE id \in S : TRUE

-----------------------------------------------------------------------------
(* The job *)

Goto(p, from, to) ==
  /\ at[p] = from
  /\ at' = [at EXCEPT ![p] = to]

\* The run ends, or gives the job back; what the handler knew is gone.
Leave(p, to) ==
  /\ at' = [at EXCEPT ![p] = to]
  /\ pos' = [pos EXCEPT ![p] = 1]
  /\ dir' = [dir EXCEPT ![p] = Path[p][1]]
  /\ card' = [card EXCEPT ![p] = NoRow]
  /\ todo' = [todo EXCEPT ![p] = {}]

\* EnqueueIfNoActive of a global scan, of which there is one at a time; a
\* project with a queued or running discovery gets no other.
Enqueue(p) ==
  /\ runs[p] < MaxRuns
  /\ Goto(p, "idle", "queued")
  /\ runs' = [runs EXCEPT ![p] = @ + 1]
  /\ attempt' = [attempt EXCEPT ![p] = 0]
  /\ UNCHANGED <<marker, tables, pos, dir, card, todo, seen, cloneVars>>

Begin(p) ==
  /\ Goto(p, "queued", "begin")
  /\ attempt' = [attempt EXCEPT ![p] = @ + 1]
  /\ seen' = [seen EXCEPT ![p] = NoRow]
  /\ UNCHANGED <<marker, tables, runs, pos, dir, card, todo, cloneVars>>

\* The project is missing or disabled, or payload and project differ.
Skip(p) ==
  /\ at[p] = "begin"
  /\ Leave(p, "idle")
  /\ UNCHANGED <<marker, tables, runs, attempt, seen, cloneVars>>

Start(p) ==
  /\ Goto(p, "begin", "walk")
  /\ UNCHANGED <<marker, tables, runs, attempt, pos, dir, card, todo, seen, cloneVars>>

\* findGitRepository, one directory at a time: .git is a directory, or a
\* file that names one.  A project without a repository keeps the card it has.
Look(p) ==
  LET d == Path[p][pos[p]] IN
  /\ at[p] = "walk"
  /\ \/ /\ marker[d] \in {"directory", "gitfile"}
        /\ at' = [at EXCEPT ![p] = "find"]
        /\ dir' = [dir EXCEPT ![p] = d]
        /\ UNCHANGED <<pos, card, todo>>
     \/ /\ marker[d] \in {"none", "other"} /\ pos[p] < Len(Path[p])
        /\ pos' = [pos EXCEPT ![p] = @ + 1]
        /\ UNCHANGED <<at, dir, card, todo>>
     \/ /\ marker[d] \in {"none", "other"} /\ pos[p] = Len(Path[p])
        /\ Leave(p, "idle")
  /\ UNCHANGED <<marker, tables, runs, attempt, seen, cloneVars>>

Find_fault(p) ==
  /\ Goto(p, "find", "update")
  /\ card' = [card EXCEPT ![p] = TheRow(GenericOf(dir[p]))]
  /\ UNCHANGED <<marker, tables, runs, attempt, pos, dir, todo, seen, cloneVars>>

\* UpsertGenericRepository reads the card of the directory ...
Find(p) ==
  LET found == GenericOf(dir[p]) IN
  /\ Goto(p, "find", IF found = {} THEN "insert" ELSE "update")
  /\ card' = [card EXCEPT ![p] = TheRow(found)]
  /\ UNCHANGED <<marker, tables, runs, attempt, pos, dir, todo, seen, cloneVars>>

Renewed(r, d) == [who |-> r.who, at |-> d, status |-> "active", by |-> r.by]

\* ... and renews it by its id, whatever has become of it ...
Update(p) ==
  /\ Goto(p, "update", "set")
  /\ repo' = [repo EXCEPT ![card[p]] = Renewed(@, dir[p])]
  /\ UNCHANGED <<marker, project, link, runs, attempt, pos, dir, card, todo, seen, cloneVars>>

Insert_fault(p) ==
  /\ at[p] = "insert"
  /\ repo' = Append(repo, [who |-> Local, at |-> dir[p], status |-> "active", by |-> NoRow])
  /\ card' = [card EXCEPT ![p] = Len(repo) + 1]
  /\ at' = [at EXCEPT ![p] = "set"]
  /\ UNCHANGED <<marker, project, link, runs, attempt, pos, dir, todo, seen, cloneVars>>

\* ... or inserts one; the unique index admits one generic card of a directory.
Insert(p) ==
  /\ at[p] = "insert"
  /\ \/ /\ GenericOf(dir[p]) = {}
        /\ repo' = Append(repo, [who |-> Local, at |-> dir[p], status |-> "active", by |-> NoRow])
        /\ card' = [card EXCEPT ![p] = Len(repo) + 1]
        /\ at' = [at EXCEPT ![p] = "set"]
     \/ /\ GenericOf(dir[p]) # {}
        /\ at' = [at EXCEPT ![p] = "again"]
        /\ UNCHANGED <<repo, card>>
  /\ UNCHANGED <<marker, project, link, runs, attempt, pos, dir, todo, seen, cloneVars>>

Requeued(p) == IF attempt[p] < MaxAttempts THEN "queued" ELSE "idle"

\* The card that was in the way is renewed, unless a clone has taken it over.
FindAgain(p) ==
  /\ at[p] = "again"
  /\ \/ /\ GenericOf(dir[p]) = {}
        /\ Leave(p, Requeued(p))
     \/ /\ GenericOf(dir[p]) # {}
        /\ at' = [at EXCEPT ![p] = "update"]
        /\ card' = [card EXCEPT ![p] = TheRow(GenericOf(dir[p]))]
        /\ UNCHANGED <<pos, dir, todo>>
  /\ UNCHANGED <<marker, tables, runs, attempt, seen, cloneVars>>

SetProject_fault(p) ==
  /\ Goto(p, "set", "related")
  /\ project' = [q \in Projects |-> IF q = p \/ project[q] = project[p] THEN card[p] ELSE project[q]]
  /\ UNCHANGED <<marker, repo, link, runs, attempt, pos, dir, card, todo, seen, cloneVars>>

\* SetProjectRepository
SetProject(p) ==
  /\ Goto(p, "set", "related")
  /\ project' = [project EXCEPT ![p] = card[p]]
  /\ UNCHANGED <<marker, repo, link, runs, attempt, pos, dir, card, todo, seen, cloneVars>>

Related_fault(p) ==
  /\ Goto(p, "related", "link")
  /\ todo' = [todo EXCEPT ![p] = {q \in Projects \ {p} : project[q] = card[p] /\ at[q] = "idle"}]
  /\ UNCHANGED <<marker, tables, runs, attempt, pos, dir, card, seen, cloneVars>>

\* ProjectsByRepository
Related(p) ==
  /\ Goto(p, "related", "link")
  /\ todo' = [todo EXCEPT ![p] = {q \in Projects \ {p} : project[q] = card[p]}]
  /\ UNCHANGED <<marker, tables, runs, attempt, pos, dir, card, seen, cloneVars>>

\* UpsertProjectLink: a row inserted, or the row of the pair updated.
Link(p) ==
  /\ at[p] = "link"
  /\ \E q \in todo[p] :
       /\ link' = [link EXCEPT ![{p, q}] = card[p]]
       /\ todo' = [todo EXCEPT ![p] = @ \ {q}]
  /\ UNCHANGED <<marker, repo, project, at, runs, attempt, pos, dir, card, seen, cloneVars>>

Complete(p) ==
  /\ at[p] = "link" /\ todo[p] = {}
  /\ Leave(p, "idle")
  /\ seen' = [seen EXCEPT ![p] = card[p]]
  /\ UNCHANGED <<marker, tables, runs, attempt, cloneVars>>

\* The disk or the store fails, or the worker dies and the job is recovered.
Fail(p) ==
  /\ at[p] \in Running
  /\ Leave(p, Requeued(p))
  /\ UNCHANGED <<marker, tables, runs, attempt, seen, cloneVars>>

-----------------------------------------------------------------------------
(* A clone, where it meets the cards *)

\* Reservations keep requests apart that share a directory or a repository.
Apart(c) ==
  \A e \in Clones \ {c} :
    Identity[e] = Identity[c] \/ Target[e] = Target[c] => clone[e] = "idle"

\* ActiveRepositoryByLocalTarget: the card changed last decides.
CheckAssigned(c) ==
  /\ clone[c] = "idle" /\ asked[c] < MaxRuns /\ Apart(c)
  /\ asked' = [asked EXCEPT ![c] = @ + 1]
  /\ \/ /\ \/ ActiveAt(Target[c]) = {}
           \/ \E id \in ActiveAt(Target[c]) : repo[id].who = Identity[c]
        /\ clone' = [clone EXCEPT ![c] = "find"]
     \/ /\ \E id \in ActiveAt(Target[c]) : repo[id].who # Identity[c]
        /\ UNCHANGED clone
  /\ UNCHANGED <<marker, tables, jobVars, row, old>>

\* UpsertRepositoryForClone reads the card of the repository and the generic
\* card in use for the directory ...
FindCards(c) ==
  /\ clone[c] = "find"
  /\ clone' = [clone EXCEPT ![c] = "upsert"]
  /\ row' = [row EXCEPT ![c] = TheRow(CardOf(Identity[c]))]
  /\ old' = [old EXCEPT ![c] = TheRow(GenericOf(Target[c]) \cap ActiveAt(Target[c]))]
  /\ UNCHANGED <<marker, tables, jobVars, asked>>

ForgetCards(c) ==
  /\ row' = [row EXCEPT ![c] = NoRow]
  /\ old' = [old EXCEPT ![c] = NoRow]

ClonedCard(c, by) == [who |-> Identity[c], at |-> Target[c], status |-> "active", by |-> by]

Superseded(r, canonical) ==
  [who |-> r.who, at |-> r.at, status |-> "superseded", by |-> canonical]

\* supersedeGenericRepository
Supersede(id, canonical) ==
  /\ project' = [p \in Projects |-> IF project[p] = id THEN canonical ELSE project[p]]
  /\ link' = [pair \in Pairs |-> IF link[pair] = id THEN canonical ELSE link[pair]]

\* ... and in one transaction updates the first and supersedes the second, or
\* makes the second the first, or inserts a card.
UpsertCard(c) ==
  /\ clone[c] = "upsert"
  /\ clone' = [clone EXCEPT ![c] = "clone"]
  /\ ForgetCards(c)
  /\ \/ /\ row[c] # NoRow /\ old[c] # NoRow
        /\ repo' = [id \in DOMAIN repo |->
             CASE id = row[c] -> ClonedCard(c, repo[id].by)
               [] id = old[c] /\ id # row[c] -> Superseded(repo[id], row[c])
               [] OTHER -> repo[id]]
        /\ Supersede(old[c], row[c])
     \/ /\ row[c] # NoRow /\ old[c] = NoRow
        /\ repo' = [repo EXCEPT ![row[c]] = ClonedCard(c, @.by)]
        /\ UNCHANGED <<project, link>>
     \/ /\ row[c] = NoRow /\ old[c] # NoRow
        /\ repo' = [repo EXCEPT ![old[c]] = ClonedCard(c, @.by)]
        /\ UNCHANGED <<project, link>>
     \/ /\ row[c] = NoRow /\ old[c] = NoRow
        /\ repo' = Append(repo, ClonedCard(c, NoRow))
        /\ UNCHANGED <<project, link>>
  /\ UNCHANGED <<marker, jobVars, asked>>

\* The job clones into a directory without .git, or fails.
Clone(c) ==
  /\ clone[c] = "clone"
  /\ clone' = [clone EXCEPT ![c] = "idle"]
  /\ \/ marker[Target[c]] = "none" /\ marker' = [marker EXCEPT ![Target[c]] = "directory"]
     \/ UNCHANGED marker
  /\ UNCHANGED <<tables, jobVars, asked, row, old>>

\* The server dies between two statements of the request.
Vanish(c) ==
  /\ clone[c] \in {"find", "upsert"}
  /\ clone' = [clone EXCEPT ![c] = "idle"]
  /\ ForgetCards(c)
  /\ UNCHANGED <<marker, tables, jobVars, asked>>

-----------------------------------------------------------------------------
JobStep(p) ==
  \/ Enqueue(p) \/ Begin(p) \/ Skip(p) \/ Start(p) \/ Look(p)
  \/ Find(p) \/ Update(p) \/ Insert(p) \/ FindAgain(p)
  \/ SetProject(p) \/ Related(p) \/ Link(p) \/ Complete(p) \/ Fail(p)

CloneStep(c) ==
  \/ CheckAssigned(c) \/ FindCards(c) \/ UpsertCard(c) \/ Clone(c) \/ Vanish(c)

Next ==
  \/ \E p \in Projects : JobStep(p)
  \/ \E c \in Clones : CloneStep(c)

Spec == Init /\ [][Next]_vars

-----------------------------------------------------------------------------
(* Properties *)

Known(S) == [Projects -> S \cup {NoRow}]

\* The state is well typed: a job, a project, a link and a card name rows of
\* the table (the handler and the clone keep ids between their statements).
TypeOK ==
  LET Ids == DOMAIN repo IN
  /\ marker \in [Dirs -> {"none", "directory", "gitfile", "other"}]
  /\ repo \in Seq([who : Identities \cup {Local}, at : Dirs,
                   status : {"active", "superseded"}, by : Nat \cup {NoRow}])
  /\ \A id \in Ids : repo[id].by \in Ids \cup {NoRow}
  /\ project \in Known(Ids) /\ card \in Known(Ids) /\ seen \in Known(Ids)
  /\ link \in [Pairs -> Ids \cup {NoRow}]
  /\ at \in [Projects -> Running \cup {"idle", "queued"}]
  /\ \A p \in Projects : at[p] \in {"update", "set", "related", "link"} => card[p] # NoRow
  /\ runs \in [Projects -> Nat] /\ attempt \in [Projects -> Nat]
  /\ pos \in [Projects -> Nat] /\ \A p \in Projects : pos[p] \in DOMAIN Path[p]
  /\ dir \in [Projects -> Dirs]
  /\ todo \in [Projects -> SUBSET Projects] /\ \A p \in Projects : p \notin todo[p]
  /\ clone \in [Clones -> {"idle", "find", "upsert", "clone"}]
  /\ asked \in [Clones -> Nat]
  /\ row \in [Clones -> Ids \cup {NoRow}] /\ old \in [Clones -> Ids \cup {NoRow}]

NeverSuperseded(id) == id # NoRow /\ repo[id].by = NoRow

\* Two projects whose discoveries have found one repository are linked,
\* however the two jobs overlap: each assigns its project before it asks for
\* the others (projectDiscoveryHandler.Handle).
SameRepositoryLinked ==
  \A p, q \in Projects :
    p # q /\ seen[p] = seen[q] /\ NeverSuperseded(seen[p]) => link[{p, q}] # NoRow

\* A project stays on the card its last discovery found, until a clone
\* supersedes that card: jobs of other projects, retries and clones that take
\* a card over in place move no project (SetProjectRepository, Supersede).
ProjectsStay ==
  \A p \in Projects : NeverSuperseded(seen[p]) => project[p] = seen[p]

\* A directory has one generic card, even when two discoveries insert it at
\* once, a clone takes the first over or supersedes it, and discovery comes
\* back (UpsertGenericRepository and its unique index).
OneGenericCard ==
  \A id, other \in DOMAIN repo :
    repo[id].who = Local /\ repo[other].who = Local /\ repo[id].at = repo[other].at => id = other

\* "superseded_by_repository_id may be set only when status = superseded".
SupersededOnly ==
  \A id \in DOMAIN repo : repo[id].by # NoRow => repo[id].status = "superseded"

=============================================================================
