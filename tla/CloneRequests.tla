---------------------------- MODULE CloneRequests ----------------------------
(***************************************************************************)
(* Clone and pull: the HTTP requests that create the jobs, the reservations*)
(* they hold, the repository cards they write, and the handlers that run   *)
(* the jobs in the directories (httpapi/repository.go, repository/*.go and *)
(* the conditional enqueues of jobs/store.go).                             *)
(*                                                                         *)
(* A request and the job it may create have one name: the id the request   *)
(* draws for its job is also the owner of its reservations.  A step is one *)
(* SQL statement or transaction, or one call to the disk or to git.  The   *)
(* queue itself is in JobQueue: here a job is run by one handler at a time.*)
(***************************************************************************)
EXTENDS Naturals, Sequences

CONSTANTS
  Requests,    \* HTTP requests, and the jobs they may create
  Clones,      \* those that clone; the others pull
  Identities,  \* provider, host and path of remote repositories
  Targets,     \* directories under the root path
  Identity,    \* what a clone request clones
  Target,      \* where to
  PullRow,     \* the card a pull request names
  ByPath,      \* clones that name the root by its path, not by its id
  IdemKey,     \* Idempotency-Key of a request, or NoIdem
  MaxAttempts,
  Local,       \* the identity of a card that discovery has made
  NoCard, NoRow, NoIdem, Nobody

\* Names for the rows of repositories: a card that discovery made bears the
\* name of its directory, one that a clone inserted that of its identity.
Rows == Identities \cup Targets

Card == [who : Identities \cup {Local}, at : Targets, status : {"active", "superseded"}]

ASSUME CloneRequestsAssumption ==
  /\ Clones \subseteq Requests /\ ByPath \subseteq Clones
  /\ Identity \in [Clones -> Identities] /\ Target \in [Clones -> Targets]
  /\ PullRow \in [Requests \ Clones -> Rows]
  /\ MaxAttempts \in Nat \ {0}
  /\ Local \notin Identities /\ NoRow \notin Rows /\ Nobody \notin Requests
  /\ NoCard \notin Card
  /\ Identities \cap Targets = {} /\ {"empty", "files"} \cap Identities = {}

VARIABLES
  rootKnown,  \* the row of root_paths exists
  held,       \* the owner of the held reservation of a key, or Nobody
  lapsed,     \* keys whose held reservation is past expires_at
  repo,       \* the table repositories
  disk,       \* what a directory holds
  job, attempt,
  created,    \* repository_created in the payload
  at,         \* where the request, later the handler of its job, stands
  want, mine, \* the keys it has yet to reserve and those it has reserved
  fresh,      \* it has found no row for its root
  row, old,   \* the cards it has read or written; row is its lock_key
  dir,        \* the directory the handler works in
  answer, ref \* the outcome it heads for, and the job it was given

regVars  == <<held, lapsed>>
jobVars  == <<job, attempt, created>>
readVars == <<fresh, row, old, dir>>
vars == <<rootKnown, regVars, repo, disk, jobVars, at, want, mine, readVars, answer, ref>>

Keys   == ({"identity"} \X Identities) \cup ({"path", "newpath"} \X Targets)
IdKey(r)      == <<"identity", Identity[r]>>
PathKey(r)    == <<"path", Target[r]>>
NewPathKey(r) == <<"newpath", Target[r]>>

Active == {"queued", "running"}

\* A directory is empty, or has files that are no clone, or a clone of a
\* repository that is whole or not.
Empty == <<"empty", FALSE>>
Files == <<"files", TRUE>>
Whole(i) == <<i, TRUE>>
Part(i)  == <<i, FALSE>>

Managed(t, id) == t[id] # NoCard /\ t[id].who # Local /\ t[id].status = "active"

\* What earlier clones and discoveries may have left.
Tables ==
  {t \in [Rows -> Card \cup {NoCard}] :
     /\ \A c, d \in Rows : Managed(t, c) /\ Managed(t, d) /\ t[c].at = t[d].at => c = d
     /\ \A i \in Identities : t[i] # NoCard => t[i].who = i /\ t[i].status = "active"
     /\ \A d \in Targets : t[d] # NoCard => t[d].who = Local /\ t[d].at = d}

Init ==
  /\ rootKnown \in BOOLEAN
  /\ held = [k \in Keys |-> Nobody] /\ lapsed = {}
  /\ repo \in Tables
  /\ rootKnown \/ \A id \in Rows : repo[id] = NoCard
  /\ disk \in [Targets -> {Empty, Files} \cup {Whole(i) : i \in Identities}]
  /\ job = [r \in Requests |-> "absent"]
  /\ attempt = [r \in Requests |-> 0]
  /\ created = [r \in Requests |-> FALSE]
  /\ at \in [Requests -> {"new", "done"}]   \* some are never made
  /\ want = [r \in Requests |-> << >>]
  /\ mine = [r \in Requests |-> {}]
  /\ fresh = [r \in Requests |-> FALSE]
  /\ row = [r \in Requests |-> NoRow] /\ old = [r \in Requests |-> NoRow]
  /\ dir \in [Requests -> Targets]
  /\ \A r \in Clones : dir[r] = Target[r]
  /\ answer = [r \in Requests |-> "none"]
  /\ ref = [r \in Requests |-> Nobody]

-----------------------------------------------------------------------------
(* Queries *)

\* findRepository: by provider, host and path.
CardOf(i) == {id \in Rows : repo[id] # NoCard /\ repo[id].who = i}

\* Cards in use for a directory; findGenericRepositoryByLocalPath takes the
\* one that discovery made.
CardsAt(d)    == {id \in Rows : repo[id] # NoCard /\ repo[id].at = d /\ repo[id].status = "active"}
GenericAt(d)  == {id \in CardsAt(d) : repo[id].who = Local}

\* The row of a query that selects at most one.
TheRow(S) == IF S = {} THEN NoRow ELSE CHOOSE id \in S : TRUE

ActiveOn(id) == \E q \in Requests : job[q] \in Active /\ row[q] = id

\* findByIdempotency: unique for an actor, a job type and a key.
Earlier(r) == {q \in Requests : /\ job[q] # "absent" /\ IdemKey[r] # NoIdem
                                /\ IdemKey[q] = IdemKey[r]
                                /\ q \in Clones <=> r \in Clones}

SameClone(q, r) == Identity[q] = Identity[r] /\ Target[q] = Target[r]

SamePayload(q, r) ==
  IF r \in Clones THEN SameClone(q, r) /\ created[q] = created[r] ELSE row[q] = row[r]

-----------------------------------------------------------------------------
(* Answers *)

Goto(r, from, to) ==
  /\ at[r] = from
  /\ at' = [at EXCEPT ![r] = to]

\* The answer for the client, or the outcome of the handler; what is
\* reserved is released on the way out.
Conclude(r, a) ==
  /\ at' = [at EXCEPT ![r] = "release"]
  /\ answer' = [answer EXCEPT ![r] = a]
  /\ UNCHANGED ref

\* The client is given a job that exists.
GiveJob(r, q) ==
  /\ at' = [at EXCEPT ![r] = "release"]
  /\ answer' = [answer EXCEPT ![r] = "accepted"]
  /\ ref' = [ref EXCEPT ![r] = q]

\* The next step of a request that is not refused here.
Pass(r, place) ==
  /\ at' = [at EXCEPT ![r] = place]
  /\ UNCHANGED <<answer, ref>>

Running(r)   == job[r] = "running"
InRequest(r) == job[r] = "absent" /\ at[r] \notin {"new", "done"}

-----------------------------------------------------------------------------
(* ReserveOperationKeys and ReleaseOperationReservations *)

\* A reservation outlives its time.  A request is answered within the five
\* minutes it reserves for; a handler may take longer than its hour.
Lapse(k) ==
  /\ held[k] # Nobody /\ k \notin lapsed /\ ~InRequest(held[k])
  /\ lapsed' = lapsed \cup {k}
  /\ UNCHANGED <<rootKnown, held, repo, disk, jobVars, at, want, mine, readVars, answer, ref>>

\* First statement: the reservations of all owners that are past their time.
ExpireKeys(r) ==
  /\ Goto(r, "expire", "reserve")
  /\ held' = [k \in Keys |-> IF k \in lapsed THEN Nobody ELSE held[k]]
  /\ lapsed' = {}
  /\ UNCHANGED <<rootKnown, repo, disk, jobVars, want, mine, readVars, answer, ref>>

\* Where to go when the last key is reserved.
Reserved(r) ==
  IF Running(r) THEN "inspect"
  ELSE IF fresh[r] THEN "root"
  ELSE IF NewPathKey(r) \in mine[r] THEN "swap" ELSE "existing"

HaveKey_fault(r, k) ==
  /\ mine' = [mine EXCEPT ![r] = {k}]
  /\ want' = [want EXCEPT ![r] = Tail(@)]
  /\ at' = [at EXCEPT ![r] = IF Len(want[r]) = 1 THEN Reserved(r) ELSE "reserve"]

HaveKey(r, k) ==
  /\ mine' = [mine EXCEPT ![r] = @ \cup {k}]
  /\ want' = [want EXCEPT ![r] = Tail(@)]
  /\ at' = [at EXCEPT ![r] = IF Len(want[r]) = 1 THEN Reserved(r) ELSE "reserve"]

ReserveKey_fault(r) ==
  /\ at[r] = "reserve"
  /\ LET k == Head(want[r]) IN
     /\ held' = [held EXCEPT ![k] = IF @ = Nobody THEN r ELSE @]
     /\ HaveKey(r, k)
     /\ UNCHANGED <<answer, ref>>
  /\ UNCHANGED <<rootKnown, lapsed, repo, disk, jobVars, readVars>>

\* One INSERT for a key; the unique index admits one held row of a key.
ReserveKey(r) ==
  /\ at[r] = "reserve"
  /\ LET k == Head(want[r]) IN
     \/ /\ held[k] = Nobody
        /\ held' = [held EXCEPT ![k] = r]
        /\ HaveKey(r, k)
        /\ UNCHANGED <<answer, ref>>
     \/ /\ held[k] = r
        /\ Pass(r, "refresh")
        /\ UNCHANGED <<held, mine, want>>
     \/ /\ held[k] \notin {Nobody, r}
        /\ Conclude(r, IF Running(r) THEN "retry" ELSE "refused")
        /\ UNCHANGED <<held, mine, want>>
  /\ UNCHANGED <<rootKnown, lapsed, repo, disk, jobVars, readVars>>

\* The reservation of an earlier attempt, or of the request, gets more time.
\* It may be gone by now, and the handler counts it all the same.
Refresh(r) ==
  /\ at[r] = "refresh"
  /\ LET k == Head(want[r]) IN
     /\ lapsed' = IF held[k] = r THEN lapsed \ {k} ELSE lapsed
     /\ HaveKey(r, k)
  /\ UNCHANGED <<rootKnown, held, repo, disk, jobVars, readVars, answer, ref>>

Free_fault(r, k) ==
  /\ held' = [held EXCEPT ![k] = IF @ = r THEN Nobody ELSE @]
  /\ lapsed' = lapsed
  /\ mine' = [mine EXCEPT ![r] = @ \ {k}]

Free(r, k) ==
  /\ held' = [held EXCEPT ![k] = IF @ = r THEN Nobody ELSE @]
  /\ lapsed' = IF held[k] = r THEN lapsed \ {k} ELSE lapsed
  /\ mine' = [mine EXCEPT ![r] = @ \ {k}]

\* The deferred release, one UPDATE for a key.
ReleaseKey(r) ==
  /\ at[r] = "release"
  /\ \E k \in mine[r] : Free(r, k)
  /\ UNCHANGED <<rootKnown, repo, disk, jobVars, at, want, readVars, answer, ref>>

Released(r) ==
  /\ mine[r] = {}
  /\ Goto(r, "release", IF Running(r) THEN "settle" ELSE "done")
  /\ UNCHANGED <<rootKnown, regVars, repo, disk, jobVars, want, mine, readVars, answer, ref>>

-----------------------------------------------------------------------------
(* The request: Clone *)

\* Validation, provider and credential, target directory, or an unknown root.
Reject(r) ==
  /\ Goto(r, "new", "done")
  /\ answer' = [answer EXCEPT ![r] = "refused"]
  /\ UNCHANGED <<rootKnown, regVars, repo, disk, jobVars, want, mine, readVars, ref>>

\* cloneRootPreview: the root is looked up by id or by path.
Preview(r) ==
  /\ r \in Clones /\ (rootKnown \/ r \in ByPath)
  /\ Goto(r, "new", "replay")
  /\ fresh' = [fresh EXCEPT ![r] = ~rootKnown]
  /\ UNCHANGED <<rootKnown, regVars, repo, disk, jobVars, want, mine, row, old, dir, answer, ref>>

\* cloneIdempotentReplay; a root without a row has no id to compare.
Replay(r) ==
  /\ at[r] = "replay"
  /\ \/ /\ Earlier(r) = {}
        /\ Pass(r, "expire")
        /\ want' = [want EXCEPT ![r] = <<IdKey(r), IF fresh[r] THEN NewPathKey(r) ELSE PathKey(r)>>]
     \/ /\ \E q \in Earlier(r) :
             IF SameClone(q, r) /\ ~fresh[r] THEN GiveJob(r, q) ELSE Conclude(r, "refused")
        /\ UNCHANGED want
  /\ UNCHANGED <<rootKnown, regVars, repo, disk, jobVars, mine, readVars>>

\* createCloneRoot; the directory is then reserved under the root's id ...
CreateRoot(r) ==
  /\ Goto(r, "root", "expire")
  /\ rootKnown' = TRUE
  /\ fresh' = [fresh EXCEPT ![r] = FALSE]
  /\ want' = [want EXCEPT ![r] = <<PathKey(r)>>]
  /\ UNCHANGED <<regVars, repo, disk, jobVars, mine, row, old, dir, answer, ref>>

\* ... and the reservation under its path is given back.
SwapKey(r) ==
  /\ Goto(r, "swap", "existing")
  /\ Free(r, NewPathKey(r))
  /\ UNCHANGED <<rootKnown, repo, disk, jobVars, want, readVars, answer, ref>>

\* ExistingRepositoryForClone
FindExisting(r) ==
  LET found == IF CardOf(Identity[r]) # {} THEN CardOf(Identity[r]) ELSE GenericAt(Target[r]) IN
  /\ Goto(r, "existing", IF found = {} THEN "queuedClones" ELSE "busy")
  /\ row' = [row EXCEPT ![r] = TheRow(found)]
  /\ UNCHANGED <<rootKnown, regVars, repo, disk, jobVars, want, mine, fresh, old, dir, answer, ref>>

\* ActiveRepositoryOperation: any clone or pull of the card.
CheckBusy(r, from, to) ==
  /\ at[r] = from
  /\ IF ActiveOn(row[r]) THEN Conclude(r, "refused") ELSE Pass(r, to)
  /\ UNCHANGED <<rootKnown, regVars, repo, disk, jobVars, want, mine, readVars>>

\* activeCloneTargetPath: the queued jobs are listed, then the running ones.
CheckClones(r, from, status, to) ==
  /\ at[r] = from
  /\ IF \E q \in Clones : job[q] = status /\ Target[q] = Target[r]
       THEN Conclude(r, "refused")
       ELSE Pass(r, to)
  /\ UNCHANGED <<rootKnown, regVars, repo, disk, jobVars, want, mine, readVars>>

CheckAssigned_fault(r) ==
  /\ Goto(r, "assigned", "find")
  /\ UNCHANGED <<rootKnown, regVars, repo, disk, jobVars, want, mine, readVars, answer, ref>>

\* ActiveRepositoryByLocalTarget: the card changed last decides.
CheckAssigned(r) ==
  /\ at[r] = "assigned"
  /\ \/ /\ \/ CardsAt(Target[r]) = {}
           \/ \E id \in CardsAt(Target[r]) : repo[id].who = Identity[r]
        /\ Pass(r, "find")
     \/ /\ \E id \in CardsAt(Target[r]) : repo[id].who # Identity[r]
        /\ Conclude(r, "refused")
  /\ UNCHANGED <<rootKnown, regVars, repo, disk, jobVars, want, mine, readVars>>

\* UpsertRepositoryForClone reads the card of the identity and the one that
\* discovery made for the directory ...
FindCards(r) ==
  /\ Goto(r, "find", "upsert")
  /\ row' = [row EXCEPT ![r] = TheRow(CardOf(Identity[r]))]
  /\ old' = [old EXCEPT ![r] = TheRow(GenericAt(Target[r]))]
  /\ UNCHANGED <<rootKnown, regVars, repo, disk, jobVars, want, mine, fresh, dir, answer, ref>>

\* ... and in a transaction updates the first and supersedes the second,
\* or turns the second into the first, or inserts a card.
UpsertCard(r) ==
  LET i  == Identity[r]
      id == IF row[r] # NoRow THEN row[r] ELSE IF old[r] # NoRow THEN old[r] ELSE i
      operable == IF row[r] # NoRow THEN repo[row[r]].status = "active" ELSE CardOf(i) = {}
  IN
  /\ at[r] = "upsert"
  /\ IF ~operable
       THEN Conclude(r, "refused") /\ UNCHANGED <<repo, created, row>>
       ELSE /\ Pass(r, "payload")
            /\ repo' = [c \in Rows |->
                 CASE c = id -> [who |-> i, at |-> Target[r], status |-> "active"]
                   [] c = old[r] /\ c # id -> [repo[c] EXCEPT !.status = "superseded"]
                   [] OTHER -> repo[c]]
            /\ created' = [created EXCEPT ![r] = row[r] = NoRow /\ old[r] = NoRow]
            /\ row' = [row EXCEPT ![r] = id]
  /\ UNCHANGED <<rootKnown, regVars, disk, job, attempt, want, mine, fresh, old, dir>>

\* A pull names a card that can be operated.
NamePull(r) ==
  /\ r \notin Clones
  /\ repo[PullRow[r]] # NoCard /\ repo[PullRow[r]].status = "active"
  /\ Goto(r, "new", "payload")
  /\ row' = [row EXCEPT ![r] = PullRow[r]]
  /\ UNCHANGED <<rootKnown, regVars, repo, disk, jobVars, want, mine, fresh, old, dir, answer, ref>>

GiveEarlier_fault(r) == \E q \in Earlier(r) : GiveJob(r, q)

\* idempotentReplay: the job of the key, if it has this payload.
GiveEarlier(r) ==
  \E q \in Earlier(r) : IF SamePayload(q, r) THEN GiveJob(r, q) ELSE Conclude(r, "refused")

ReplayPayload(r) ==
  /\ at[r] = "payload"
  /\ \/ Earlier(r) = {} /\ Pass(r, "active")
     \/ GiveEarlier(r)
  /\ UNCHANGED <<rootKnown, regVars, repo, disk, jobVars, want, mine, readVars>>

Enqueue_fault(r) ==
  /\ at[r] = "enqueue"
  /\ IF Earlier(r) # {}
       THEN GiveEarlier(r) /\ UNCHANGED <<job, mine>>
       ELSE /\ job' = [job EXCEPT ![r] = "queued"]
            /\ at' = [at EXCEPT ![r] = "done"]
            /\ answer' = [answer EXCEPT ![r] = "accepted"]
            /\ ref' = [ref EXCEPT ![r] = r]
            /\ mine' = [mine EXCEPT ![r] = {}]
  /\ UNCHANGED <<rootKnown, regVars, repo, disk, attempt, created, want, readVars>>

\* EnqueueRepositoryOperation: one insert under two unique indexes, that of
\* the key and that of the active operation on a card.
Enqueue(r) ==
  /\ at[r] = "enqueue"
  /\ \/ GiveEarlier(r) /\ UNCHANGED <<job, mine>>
     \/ /\ Earlier(r) = {} /\ ActiveOn(row[r])
        /\ Conclude(r, "refused")
        /\ UNCHANGED <<job, mine>>
     \/ /\ Earlier(r) = {} /\ ~ActiveOn(row[r])
        /\ job' = [job EXCEPT ![r] = "queued"]
        /\ at' = [at EXCEPT ![r] = "done"]
        /\ answer' = [answer EXCEPT ![r] = "accepted"]
        /\ ref' = [ref EXCEPT ![r] = r]
        /\ mine' = [mine EXCEPT ![r] = {}]
  /\ UNCHANGED <<rootKnown, regVars, repo, disk, attempt, created, want, readVars>>

\* A query fails: storage_error.
RequestFails(r) ==
  /\ InRequest(r) /\ at[r] # "release"
  /\ Conclude(r, "refused")
  /\ UNCHANGED <<rootKnown, regVars, repo, disk, jobVars, want, mine, readVars>>

\* The server dies or the client goes away: the deferred release runs in
\* the request's context and does nothing.
Vanish(r) ==
  /\ InRequest(r)
  /\ at' = [at EXCEPT ![r] = "done"]
  /\ mine' = [mine EXCEPT ![r] = {}]
  /\ UNCHANGED <<rootKnown, regVars, repo, disk, jobVars, want, readVars, answer, ref>>

-----------------------------------------------------------------------------
(* The handlers: handleClone, handlePull *)

Claim(r) ==
  /\ job[r] = "queued" /\ at[r] = "done" /\ attempt[r] < MaxAttempts
  /\ job' = [job EXCEPT ![r] = "running"]
  /\ attempt' = [attempt EXCEPT ![r] = @ + 1]
  /\ at' = [at EXCEPT ![r] = "begin"]
  /\ UNCHANGED <<rootKnown, regVars, repo, disk, created, want, mine, readVars, answer, ref>>

\* Root, card, credential or path are not what they should be, or cannot be
\* read: reported as final.
Invalid(r) ==
  /\ at[r] = "begin"
  /\ Conclude(r, "stop")
  /\ UNCHANGED <<rootKnown, regVars, repo, disk, jobVars, want, mine, readVars>>

BeginClone(r) ==
  /\ r \in Clones /\ Goto(r, "begin", "expire")
  /\ repo[row[r]].status = "active"
  /\ want' = [want EXCEPT ![r] = <<IdKey(r), PathKey(r)>>]
  /\ UNCHANGED <<rootKnown, regVars, repo, disk, jobVars, mine, readVars, answer, ref>>

\* validateExistingRemote compares the origin of the directory with the card.
HasRemote(d, i) == disk[d] \in {Whole(i), Part(i)}

\* A pull takes its directory from the card; the origin is compared unless
\* discovery made the card.
BeginPull(r) ==
  LET card == repo[row[r]] IN
  /\ r \notin Clones /\ Goto(r, "begin", "pull")
  /\ card.status = "active"
  /\ card.who = Local \/ HasRemote(card.at, card.who)
  /\ dir' = [dir EXCEPT ![r] = card.at]
  /\ UNCHANGED <<rootKnown, regVars, repo, disk, jobVars, want, mine, fresh, row, old, answer, ref>>

Inspect_fault(r) ==
  /\ Goto(r, "inspect", "clone")
  /\ disk' = [disk EXCEPT ![dir[r]] = Part(Identity[r])]
  /\ UNCHANGED <<rootKnown, regVars, repo, jobVars, want, mine, readVars, answer, ref>>

\* An empty directory is cloned into, the same repository is pulled, and
\* anything else stays.  An interrupted clone may be either of the last two.
Inspect(r) ==
  LET i == Identity[r] IN
  /\ at[r] = "inspect"
  /\ \/ /\ disk[dir[r]] = Empty
        /\ Pass(r, "clone")
        /\ disk' = [disk EXCEPT ![dir[r]] = Part(i)]
     \/ HasRemote(dir[r], i) /\ Pass(r, "pull") /\ UNCHANGED disk
     \/ disk[dir[r]] \notin {Empty, Whole(i)} /\ Conclude(r, "stop") /\ UNCHANGED disk
  /\ UNCHANGED <<rootKnown, regVars, repo, jobVars, want, mine, readVars>>

\* The directory, or the store, cannot be reached.
Unavailable(r) ==
  /\ Running(r) /\ at[r] \in {"expire", "reserve", "refresh", "inspect", "touch"}
  /\ Conclude(r, "retry")
  /\ UNCHANGED <<rootKnown, regVars, repo, disk, jobVars, want, mine, readVars>>

GitClone(r) ==
  /\ Goto(r, "clone", "touch")
  /\ disk' = [disk EXCEPT ![dir[r]] = Whole(Identity[r])]
  /\ UNCHANGED <<rootKnown, regVars, repo, jobVars, want, mine, readVars, answer, ref>>

\* git cleans up after itself, unless it is killed.
GitCloneFails(r) ==
  /\ at[r] = "clone"
  /\ \E left \in {Empty, disk[dir[r]]} : disk' = [disk EXCEPT ![dir[r]] = left]
  /\ Conclude(r, "retry")
  /\ UNCHANGED <<rootKnown, regVars, repo, jobVars, want, mine, readVars>>

GitPull(r) ==
  /\ Goto(r, "pull", "touch")
  /\ \E i \in Identities :
       HasRemote(dir[r], i) /\ disk' = [disk EXCEPT ![dir[r]] = Whole(i)]
  /\ UNCHANGED <<rootKnown, regVars, repo, jobVars, want, mine, readVars, answer, ref>>

GitPullFails(r) ==
  /\ at[r] = "pull"
  /\ Conclude(r, "retry")
  /\ UNCHANGED <<rootKnown, regVars, repo, disk, jobVars, want, mine, readVars>>

\* TouchRepositoryPulledWithBranch
Touch(r) ==
  /\ at[r] = "touch"
  /\ Conclude(r, "ok")
  /\ UNCHANGED <<rootKnown, regVars, repo, disk, jobVars, want, mine, readVars>>

\* The deferred release in a context that was cancelled.
ReleaseFails(r) ==
  /\ Running(r)
  /\ Goto(r, "release", "settle")
  /\ mine' = [mine EXCEPT ![r] = {}]
  /\ UNCHANGED <<rootKnown, regVars, repo, disk, jobVars, want, readVars, answer, ref>>

Requeued(r) == IF attempt[r] < MaxAttempts THEN "queued" ELSE "failed"

\* The runtime's final write.
Settle(r) ==
  /\ Goto(r, "settle", "done")
  /\ job' = [job EXCEPT ![r] = CASE answer[r] = "ok" -> "succeeded"
                                 [] answer[r] = "stop" -> "failed"
                                 [] OTHER -> Requeued(r)]
  /\ UNCHANGED <<rootKnown, regVars, repo, disk, attempt, created, want, mine, readVars, answer, ref>>

\* The worker dies; its job is recovered when its lease has run out.
Die(r) ==
  /\ Running(r) /\ at[r] # "dead"
  /\ at' = [at EXCEPT ![r] = "dead"]
  /\ mine' = [mine EXCEPT ![r] = {}]
  /\ UNCHANGED <<rootKnown, regVars, repo, disk, jobVars, want, readVars, answer, ref>>

Recover(r) ==
  /\ Goto(r, "dead", "done")
  /\ job' = [job EXCEPT ![r] = Requeued(r)]
  /\ UNCHANGED <<rootKnown, regVars, repo, disk, attempt, created, want, mine, readVars, answer, ref>>

-----------------------------------------------------------------------------
RequestStep(r) ==
  \/ Reject(r) \/ Preview(r) \/ Replay(r) \/ CreateRoot(r) \/ SwapKey(r) \/ FindExisting(r)
  \/ CheckBusy(r, "busy", "queuedClones")
  \/ CheckClones(r, "queuedClones", "queued", "runningClones")
  \/ CheckClones(r, "runningClones", "running", "assigned")
  \/ CheckAssigned(r) \/ FindCards(r) \/ UpsertCard(r) \/ NamePull(r) \/ ReplayPayload(r)
  \/ CheckBusy(r, "active", "enqueue") \/ Enqueue(r) \/ RequestFails(r) \/ Vanish(r)

HandlerStep(r) ==
  \/ Claim(r) \/ Invalid(r) \/ BeginClone(r) \/ BeginPull(r) \/ Inspect(r) \/ Unavailable(r)
  \/ GitClone(r) \/ GitCloneFails(r) \/ GitPull(r) \/ GitPullFails(r) \/ Touch(r)
  \/ ReleaseFails(r) \/ Settle(r) \/ Die(r) \/ Recover(r)

Next ==
  \/ \E k \in Keys : Lapse(k)
  \/ \E r \in Requests :
       \/ ExpireKeys(r) \/ ReserveKey(r) \/ Refresh(r) \/ ReleaseKey(r) \/ Released(r)
       \/ RequestStep(r) \/ HandlerStep(r)

Spec == Init /\ [][Next]_vars
=============================================================================
