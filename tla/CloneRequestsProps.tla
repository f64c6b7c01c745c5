------------------------- MODULE CloneRequestsProps -------------------------
(***************************************************************************)
(* What clones and pulls promise, stated over CloneRequests.               *)
(***************************************************************************)
EXTENDS CloneRequests

RequestPlaces ==
  {"replay", "root", "swap", "existing", "busy", "queuedClones", "runningClones", "assigned",
   "find", "upsert", "payload", "active", "enqueue"}
HandlerPlaces == {"begin", "inspect", "clone", "pull", "touch", "settle", "dead"}
SharedPlaces  == {"new", "done", "expire", "reserve", "refresh", "release"}

TypeOK ==
  /\ rootKnown \in BOOLEAN
  /\ held \in [Keys -> Requests \cup {Nobody}]
  /\ lapsed \in SUBSET {k \in Keys : held[k] # Nobody}
  /\ repo \in [Rows -> Card \cup {NoCard}]
  /\ disk \in [Targets -> {Empty, Files} \cup (Identities \X BOOLEAN)]
  /\ job \in [Requests -> {"absent", "succeeded", "failed"} \cup Active]
  /\ attempt \in [Requests -> 0 .. MaxAttempts]
  /\ created \in [Requests -> BOOLEAN]
  /\ at \in [Requests -> RequestPlaces \cup HandlerPlaces \cup SharedPlaces]
  /\ want \in [Requests -> Seq(Keys)]
  /\ mine \in [Requests -> SUBSET Keys]
  /\ fresh \in [Requests -> BOOLEAN]
  /\ row \in [Requests -> Rows \cup {NoRow}]
  /\ old \in [Requests -> Rows \cup {NoRow}]
  /\ dir \in [Requests -> Targets]
  /\ answer \in [Requests -> {"none", "accepted", "refused", "ok", "retry", "stop"}]
  /\ ref \in [Requests -> Requests \cup {Nobody}]

ActiveClones == {r \in Clones : job[r] \in Active}

(* No two clones that are queued or running are for one directory or for   *)
(* one repository: neither the races of their requests, nor reservations   *)
(* that lapse while a job waits, nor the time between an attempt and the   *)
(* next let a second one in.                                               *)
ClonesKeepApart ==
  \A q, r \in ActiveClones :
    q # r => Target[q] # Target[r] /\ Identity[q] # Identity[r]

(* The card of a repository says where its clone that is queued or running *)
(* goes, and no other repository has a card there.                         *)
CardsFollowClones ==
  \A r \in ActiveClones :
    /\ repo[row[r]] = [who |-> Identity[r], at |-> Target[r], status |-> "active"]
    /\ \A c \in Rows : Managed(repo, c) /\ repo[c].at = Target[r] => c = row[r]

(* One git at a time writes to a directory, be it a clone's or a pull's,   *)
(* as long as discovery has not made a card of its own for it: nothing but *)
(* the card keeps pulls apart.                                             *)
OneWriterPerDirectory ==
  \A q, r \in Requests :
    q # r /\ {at[q], at[r]} \subseteq {"clone", "pull"} /\ dir[q] = dir[r]
      => repo[dir[r]] # NoCard

(* A repository that was cloned, and files that were there before, are not *)
(* overwritten by a clone of something else, nor by a second attempt.      *)
(* Only where discovery has a card of its own for a directory may a pull   *)
(* be in it together with a clone, and complete what the clone, when it    *)
(* fails, removes.                                                         *)
Cloning(d) == \E r \in Requests : at[r] = "clone" /\ dir[r] = d

DirectoriesKept ==
  [][\A d \in Targets :
       /\ disk[d] \in {Files} \cup {Whole(i) : i \in Identities}
       /\ repo[d] = NoCard \/ ~Cloning(d)
       => disk'[d] = disk[d]]_vars

SameOperation(q, r) ==
  IF r \in Clones THEN q \in Clones /\ SameClone(q, r)
                  ELSE q \notin Clones /\ row[q] = row[r]

(* The job a client is given exists and does what the client asked, also   *)
(* when it is the job of an earlier or a concurrent request of its key.    *)
AcceptedTruthfully ==
  \A r \in Requests :
    /\ answer[r] = "accepted" => ref[r] # Nobody
    /\ ref[r] # Nobody => job[ref[r]] # "absent" /\ SameOperation(ref[r], r)

(* A request that made no job leaves nothing reserved, wherever it failed  *)
(* on the way: after the first key, after the root was created, or when    *)
(* the insert was refused.                                                 *)
NothingLeftReserved ==
  [][\A r \in Requests :
       Released(r) /\ job[r] = "absent" => \A k \in Keys : held[k] # r]_vars
=============================================================================
