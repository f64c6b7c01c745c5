------------------------ MODULE CloneRequestsProofs ------------------------
(***************************************************************************)
(* Proofs about CloneRequests.  The reservations keep the requests apart   *)
(* that are between their checks and the insert of their job; the cards    *)
(* and the index of active operations keep them from the jobs of earlier   *)
(* requests, whose reservations may have lapsed.                           *)
(***************************************************************************)
EXTENDS CloneRequestsProps, SequenceTheorems, TLAPS

Reserving == {"expire", "reserve", "refresh"}
Checking  == {"queuedClones", "runningClones", "assigned", "find", "upsert"}
Settled   == {"payload", "active", "enqueue"}
Keeping   == {"swap", "existing", "busy"} \cup Checking \cup Settled

\* A request owns the keys it counts as its own, and no other; they do not lapse.
OwnKeys ==
  \A r \in Requests :
    /\ at[r] = "new" => job[r] = "absent" /\ mine[r] = {}
    /\ at[r] = "new" \/ InRequest(r) =>
         \A k \in Keys : /\ held[k] = r <=> k \in mine[r]
                         /\ k \in mine[r] => k \notin lapsed

\* What a request that reserves has yet to reserve.
Plan(r) ==
  \/ want[r] = <<IdKey(r), PathKey(r)>> /\ ~fresh[r]
  \/ want[r] = <<IdKey(r), NewPathKey(r)>> /\ fresh[r]
  \/ /\ IdKey(r) \in mine[r]
     /\ \/ want[r] = <<PathKey(r)>> /\ ~fresh[r]
        \/ want[r] = <<NewPathKey(r)>> /\ fresh[r]

Reserves ==
  \A r \in Requests :
    InRequest(r) =>
      /\ at[r] \in Reserving => r \in Clones /\ Plan(r)
      /\ at[r] = "refresh" => held[Head(want[r])] = r
      /\ at[r] = "root" => r \in Clones /\ IdKey(r) \in mine[r] /\ fresh[r]
      /\ at[r] \in Keeping /\ r \in Clones => IdKey(r) \in mine[r] /\ PathKey(r) \in mine[r]
      /\ at[r] \in Keeping \ Settled => r \in Clones

\* A repository has one card, and one card in use has a directory.
Cards ==
  /\ \A c, d \in Rows : repo[c] # NoCard /\ repo[d] # NoCard /\ repo[c].who = repo[d].who
                           /\ repo[c].who # Local => c = d
  /\ \A c, d \in Rows : Managed(repo, c) /\ Managed(repo, d) /\ repo[c].at = repo[d].at => c = d
  /\ \A i \in Identities : repo[i] # NoCard => repo[i].who = i

CardOK(r) ==
  /\ row[r] \in Rows
  /\ repo[row[r]] = [who |-> Identity[r], at |-> Target[r], status |-> "active"]
  /\ \A c \in Rows : Managed(repo, c) /\ repo[c].at = Target[r] => c = row[r]

\* What a request for a clone knows at each place.
Knows(r) ==
  /\ at[r] = "busy" => \A q \in ActiveClones : Identity[q] = Identity[r] => row[q] = row[r]
  /\ at[r] \in Checking => \A q \in ActiveClones : Identity[q] # Identity[r]
  /\ at[r] \in {"find", "upsert"} =>
       /\ \A q \in ActiveClones : Target[q] # Target[r]
       /\ \A c \in Rows : Managed(repo, c) /\ repo[c].at = Target[r] => repo[c].who = Identity[r]
  /\ at[r] = "upsert" =>
       /\ row[r] # NoRow => repo[row[r]] # NoCard /\ repo[row[r]].who = Identity[r]
       /\ old[r] # NoRow => /\ repo[old[r]] # NoCard /\ repo[old[r]].who = Local
                            /\ repo[old[r]].at = Target[r]
  /\ at[r] \in Settled => CardOK(r)

Checked == \A r \in Clones : InRequest(r) => Knows(r)

-----------------------------------------------------------------------------
(* Types *)

Places == RequestPlaces \cup HandlerPlaces \cup SharedPlaces

ClonePlaces ==
  Reserving \cup Checking
    \cup {"replay", "root", "swap", "existing", "busy", "inspect", "clone"}

Planned ==
  \A r \in Requests : /\ at[r] \in Reserving => want[r] # << >>
                      /\ at[r] \in ClonePlaces => r \in Clones
                      /\ at[r] \in RequestPlaces \cup {"new"} => job[r] = "absent"
                      /\ at[r] \in Reserving => job[r] \in {"absent", "running"}
                      /\ at[r] \in HandlerPlaces => job[r] = "running"

\* The card of a job, or of a request that has chosen it, is there.
Named ==
  \A r \in Requests :
    at[r] \in Settled \/ job[r] # "absent" => row[r] \in Rows /\ repo[row[r]] # NoCard

\* The types of what an answer and a reservation change.
Outcome ==
  /\ at' \in [Requests -> Places]
  /\ answer' \in [Requests -> {"none", "accepted", "refused", "ok", "retry", "stop"}]
  /\ ref' \in [Requests -> Requests \cup {Nobody}]

Held ==
  /\ at' \in [Requests -> Places]
  /\ mine' \in [Requests -> SUBSET Keys] /\ want' \in [Requests -> Seq(Keys)]
  /\ Planned'

LEMMA KeysType ==
  \A r \in Clones :
    /\ r \in Requests /\ Identity[r] \in Identities /\ Target[r] \in Targets
    /\ IdKey(r) \in Keys /\ PathKey(r) \in Keys /\ NewPathKey(r) \in Keys
BY CloneRequestsAssumption DEF Keys, IdKey, PathKey, NewPathKey

LEMMA DiskType ==
  \A i \in Identities : Whole(i) \in Identities \X BOOLEAN /\ Part(i) \in Identities \X BOOLEAN
BY DEF Whole, Part

LEMMA HeadTail ==
  ASSUME NEW S, NEW s \in Seq(S), s # << >>
  PROVE  /\ Head(s) \in S /\ Tail(s) \in Seq(S)
         /\ Len(s) # 1 => Tail(s) # << >>
         /\ Len(s) = 1 => Tail(s) = << >>
<1>1. Len(s) \in Nat \ {0} /\ Len(Tail(s)) = Len(s) - 1 /\ Head(s) \in S /\ Tail(s) \in Seq(S)
  BY EmptySeq, HeadTailProperties
<1>2. Len(<< >>) = 0
  BY EmptySeq
<1> QED
  BY <1>1, <1>2, EmptySeq

LEMMA RowType == \A S \in SUBSET Rows : TheRow(S) \in Rows \cup {NoRow}
BY DEF TheRow

LEMMA AnswerType ==
  ASSUME TypeOK, NEW r \in Requests,
         \/ \E q \in Requests : GiveJob(r, q)
         \/ \E a \in {"refused", "ok", "retry", "stop"} : Conclude(r, a)
         \/ \E x \in Places : Pass(r, x)
  PROVE  Outcome
<1>1. "release" \in Places
  BY DEF Places, SharedPlaces
<1>2. CASE \E q \in Requests : GiveJob(r, q)
  BY <1>1, <1>2 DEF GiveJob, Outcome, TypeOK, Places
<1>3. CASE \E a \in {"refused", "ok", "retry", "stop"} : Conclude(r, a)
  BY <1>1, <1>3 DEF Conclude, Outcome, TypeOK, Places
<1>4. CASE \E x \in Places : Pass(r, x)
  BY <1>4 DEF Pass, Outcome, TypeOK, Places
<1> QED
  BY <1>2, <1>3, <1>4

LEMMA EarlierGiven ==
  ASSUME NEW r \in Requests, GiveEarlier(r)
  PROVE  (\E q \in Requests : GiveJob(r, q)) \/ Conclude(r, "refused")
BY DEF GiveEarlier, Earlier

LEMMA HaveKeyType ==
  ASSUME TypeOK, Planned, NEW r \in Requests, at[r] \in {"reserve", "refresh"},
         NEW k \in Keys, HaveKey(r, k), job' = job
  PROVE  Held
<1>1. r \in Clones /\ want[r] \in Seq(Keys) /\ want[r] # << >>
  BY DEF TypeOK, Planned, Reserving, ClonePlaces
<1>2. Tail(want[r]) \in Seq(Keys) /\ (Len(want[r]) # 1 => Tail(want[r]) # << >>)
  BY <1>1, HeadTail
<1>3. /\ Reserved(r) \in {"inspect", "root", "swap", "existing"}
      /\ Reserved(r) = "inspect" <=> job[r] = "running"
  BY DEF Reserved, Running
<1>4. /\ mine' = [mine EXCEPT ![r] = @ \cup {k}]
      /\ want' = [want EXCEPT ![r] = Tail(@)]
      /\ at' = [at EXCEPT ![r] = IF Len(want[r]) = 1 THEN Reserved(r) ELSE "reserve"]
  BY DEF HaveKey
<1>5. mine' \in [Requests -> SUBSET Keys] /\ want' \in [Requests -> Seq(Keys)]
  BY <1>2, <1>4 DEF TypeOK
<1>6. at' \in [Requests -> Places]
  BY <1>3, <1>4 DEF TypeOK, Places, RequestPlaces, HandlerPlaces, SharedPlaces
<1>7. \A q \in Requests \ {r} : at'[q] = at[q] /\ want'[q] = want[q]
  BY <1>4 DEF TypeOK
<1>8. /\ at'[r] = IF Len(want[r]) = 1 THEN Reserved(r) ELSE "reserve"
      /\ want'[r] = Tail(want[r])
  BY <1>4 DEF TypeOK
<1>9. Planned'
  BY <1>1, <1>2, <1>3, <1>7, <1>8 DEF Planned, Reserving, Checking, ClonePlaces, RequestPlaces, HandlerPlaces
<1> QED
  BY <1>5, <1>6, <1>9 DEF Held

LEMMA TypeStep == TypeOK /\ Planned /\ Checked /\ Named /\ [Next]_vars => TypeOK' /\ Planned'
<1> SUFFICES ASSUME TypeOK, Planned, Checked, Named, [Next]_vars PROVE TypeOK' /\ Planned'
  OBVIOUS
<1> USE KeysType, RowType, DiskType
    DEF TypeOK, Planned, Reserving, Checking, ClonePlaces, RequestPlaces, HandlerPlaces, SharedPlaces,
        Places, Outcome, Held, Active, regVars, jobVars, readVars
<1>1. ASSUME NEW r \in Requests,
             ExpireKeys(r) \/ ReserveKey(r) \/ Refresh(r) \/ ReleaseKey(r) \/ Released(r)
             \/ RequestStep(r) \/ HandlerStep(r)
      PROVE  TypeOK' /\ Planned'
  <2>1. CASE ExpireKeys(r)
    BY <1>1, <2>1 DEF ExpireKeys, Goto
  <2>2. CASE ReserveKey(r)
    <3> DEFINE k == Head(want[r])
    <3>1. k \in Keys /\ r \in Clones
      BY <1>1, <2>2, HeadTail DEF ReserveKey
    <3>2. CASE held[k] = Nobody /\ held' = [held EXCEPT ![k] = r] /\ HaveKey(r, k) /\ UNCHANGED <<answer, ref>>
      <4>1. Held
        BY <1>1, <2>2, <3>1, <3>2, HaveKeyType DEF ReserveKey
      <4>2. held' \in [Keys -> Requests \cup {Nobody}] /\ lapsed' \in SUBSET {n \in Keys : held'[n] # Nobody}
        BY <1>1, <2>2, <3>1, <3>2, CloneRequestsAssumption DEF ReserveKey
      <4> QED
        BY <1>1, <2>2, <3>2, <4>1, <4>2 DEF ReserveKey
    <3>3. CASE Pass(r, "refresh") /\ UNCHANGED <<held, mine, want>>
      BY <1>1, <2>2, <3>1, <3>3 DEF ReserveKey, Pass
    <3>4. CASE Conclude(r, IF Running(r) THEN "retry" ELSE "refused") /\ UNCHANGED <<held, mine, want>>
      BY <1>1, <2>2, <3>1, <3>4 DEF ReserveKey, Conclude
    <3> QED
      BY <2>2, <3>2, <3>3, <3>4 DEF ReserveKey
  <2>3. CASE Refresh(r)
    <3>1. Head(want[r]) \in Keys /\ r \in Clones
      BY <1>1, <2>3, HeadTail DEF Refresh
    <3>2. Held
      BY <1>1, <2>3, <3>1, HaveKeyType DEF Refresh
    <3> QED
      BY <1>1, <2>3, <3>1, <3>2 DEF Refresh
  <2>4. CASE ReleaseKey(r)
    BY <1>1, <2>4 DEF ReleaseKey, Free
  <2>5. CASE Released(r)
    BY <1>1, <2>5 DEF Released, Goto, Running
  <2>6. CASE Reject(r)
    BY <1>1, <2>6 DEF Reject, Goto
  <2>7. CASE Preview(r)
    BY <1>1, <2>7 DEF Preview, Goto
  <2>8. CASE Replay(r)
    <3>1. CASE Earlier(r) = {} /\ Pass(r, "expire")
               /\ want' = [want EXCEPT ![r] = <<IdKey(r), IF fresh[r] THEN NewPathKey(r) ELSE PathKey(r)>>]
      <4>1. Outcome /\ at' = [at EXCEPT ![r] = "expire"]
        BY <1>1, <3>1, AnswerType DEF Pass
      <4>2. want' \in [Requests -> Seq(Keys)] /\ Planned'
        BY <1>1, <2>8, <3>1, <4>1 DEF Replay
      <4> QED
        BY <1>1, <2>8, <4>1, <4>2 DEF Replay
    <3>2. ASSUME NEW q \in Earlier(r), GiveJob(r, q) \/ Conclude(r, "refused"), want' = want
          PROVE  TypeOK' /\ Planned'
      <4>1. Outcome /\ at' = [at EXCEPT ![r] = "release"]
        <5>1. q \in Requests
          BY DEF Earlier
        <5>2. CASE GiveJob(r, q)
          BY <1>1, <5>1, <5>2, AnswerType DEF GiveJob
        <5>3. CASE Conclude(r, "refused")
          BY <1>1, <5>3, AnswerType DEF Conclude
        <5> QED
          BY <3>2, <5>2, <5>3
      <4> QED
        BY <1>1, <2>8, <3>2, <4>1 DEF Replay
    <3> QED
      BY <2>8, <3>1, <3>2 DEF Replay
  <2>9. CASE CreateRoot(r)
    BY <1>1, <2>9 DEF CreateRoot, Goto
  <2>10. CASE SwapKey(r)
    BY <1>1, <2>10 DEF SwapKey, Goto, Free
  <2>11. CASE FindExisting(r)
    BY <1>1, <2>11 DEF FindExisting, Goto, CardOf, GenericAt, CardsAt
  <2>12. CASE CheckBusy(r, "busy", "queuedClones")
    <3>1. at[r] = "busy" /\ \E x \in {"release", "queuedClones"} : at' = [at EXCEPT ![r] = x]
      BY <1>1, <2>12 DEF CheckBusy, Conclude, Pass
    <3>2. Outcome
      BY <1>1, <2>12, AnswerType DEF CheckBusy
    <3>3. Planned'
      BY <1>1, <2>12, <3>1 DEF CheckBusy
    <3> QED
      BY <1>1, <2>12, <3>2, <3>3 DEF CheckBusy
  <2>13. CASE CheckClones(r, "queuedClones", "queued", "runningClones")
    <3>1. at[r] = "queuedClones" /\ \E x \in {"release", "runningClones"} : at' = [at EXCEPT ![r] = x]
      BY <1>1, <2>13 DEF CheckClones, Conclude, Pass
    <3>2. Outcome
      BY <1>1, <2>13, AnswerType DEF CheckClones
    <3>3. Planned'
      BY <1>1, <2>13, <3>1 DEF CheckClones
    <3> QED
      BY <1>1, <2>13, <3>2, <3>3 DEF CheckClones
  <2>14. CASE CheckClones(r, "runningClones", "running", "assigned")
    <3>1. at[r] = "runningClones" /\ \E x \in {"release", "assigned"} : at' = [at EXCEPT ![r] = x]
      BY <1>1, <2>14 DEF CheckClones, Conclude, Pass
    <3>2. Outcome
      BY <1>1, <2>14, AnswerType DEF CheckClones
    <3>3. Planned'
      BY <1>1, <2>14, <3>1 DEF CheckClones
    <3> QED
      BY <1>1, <2>14, <3>2, <3>3 DEF CheckClones
  <2>15. CASE CheckAssigned(r)
    <3>1. at[r] = "assigned" /\ \E x \in {"release", "find"} : at' = [at EXCEPT ![r] = x]
      BY <1>1, <2>15 DEF CheckAssigned, Conclude, Pass
    <3>2. Outcome
      BY <1>1, <2>15, AnswerType DEF CheckAssigned
    <3>3. Planned'
      BY <1>1, <2>15, <3>1 DEF CheckAssigned
    <3> QED
      BY <1>1, <2>15, <3>2, <3>3 DEF CheckAssigned
  <2>16. CASE FindCards(r)
    BY <1>1, <2>16 DEF FindCards, Goto, CardOf, GenericAt, CardsAt
  <2>17. CASE UpsertCard(r)
    <3>1. at[r] = "upsert" /\ \E x \in {"release", "payload"} : at' = [at EXCEPT ![r] = x]
      BY <1>1, <2>17 DEF UpsertCard, Pass, Conclude
    <3>2. Outcome
      BY <1>1, <2>17, AnswerType DEF UpsertCard
    <3>3. r \in Clones /\ InRequest(r)
      BY <1>1, <3>1 DEF InRequest
    <3>4. /\ repo' \in [Rows -> Card \cup {NoCard}]
          /\ created' \in [Requests -> BOOLEAN] /\ row' \in [Requests -> Rows \cup {NoRow}]
      <4> DEFINE id == IF row[r] # NoRow THEN row[r] ELSE IF old[r] # NoRow THEN old[r] ELSE Identity[r]
      <4> HIDE DEF id
      <4>1. [who |-> Identity[r], at |-> Target[r], status |-> "active"] \in Card
        BY <3>3 DEF Card
      <4>2. \A c \in Rows : repo[c] \in Card => [repo[c] EXCEPT !.status = "superseded"] \in Card
        BY DEF Card
      <4>3. old[r] # NoRow => old[r] \in Rows /\ repo[old[r]] \in Card
        BY <1>1, <3>1, <3>3 DEF Checked, Knows
      <4>4. id \in Rows
        BY <1>1, <3>3 DEF id, Rows
      <4>5. CASE UNCHANGED <<repo, created, row>>
        BY <4>5
      <4>6. CASE /\ repo' = [c \in Rows |->
                      CASE c = id -> [who |-> Identity[r], at |-> Target[r], status |-> "active"]
                        [] c = old[r] /\ c # id -> [repo[c] EXCEPT !.status = "superseded"]
                        [] OTHER -> repo[c]]
                 /\ created' = [created EXCEPT ![r] = row[r] = NoRow /\ old[r] = NoRow]
                 /\ row' = [row EXCEPT ![r] = id]
        <5>1. repo' \in [Rows -> Card \cup {NoCard}]
          <6>1. ASSUME NEW c \in Rows, c = old[r], c # id
                PROVE  [repo[c] EXCEPT !.status = "superseded"] \in Card
            BY <4>2, <4>3, <6>1, CloneRequestsAssumption
          <6> QED
            BY <4>1, <4>4, <4>6, <6>1
        <5>2. created' \in [Requests -> BOOLEAN]
          BY <1>1, <4>6
        <5>3. row' \in [Requests -> Rows \cup {NoRow}]
          BY <1>1, <4>4, <4>6
        <5> QED
          BY <5>1, <5>2, <5>3
      <4> QED
        BY <2>17, <4>5, <4>6 DEF UpsertCard, id
    <3>5. Planned'
      BY <1>1, <2>17, <3>1 DEF UpsertCard
    <3> QED
      BY <1>1, <2>17, <3>2, <3>4, <3>5 DEF UpsertCard
  <2>18. CASE NamePull(r)
    BY <1>1, <2>18, CloneRequestsAssumption DEF NamePull, Goto
  <2>19. CASE ReplayPayload(r)
    <3>1. at[r] = "payload" /\ \E x \in {"release", "active"} : at' = [at EXCEPT ![r] = x]
      BY <1>1, <2>19 DEF ReplayPayload, Pass, GiveEarlier, GiveJob, Conclude
    <3>2. Outcome
      BY <1>1, <2>19, AnswerType, EarlierGiven DEF ReplayPayload
    <3>3. Planned'
      BY <1>1, <2>19, <3>1 DEF ReplayPayload
    <3> QED
      BY <1>1, <2>19, <3>2, <3>3 DEF ReplayPayload
  <2>20. CASE CheckBusy(r, "active", "enqueue")
    <3>1. at[r] = "active" /\ \E x \in {"release", "enqueue"} : at' = [at EXCEPT ![r] = x]
      BY <1>1, <2>20 DEF CheckBusy, Conclude, Pass
    <3>2. Outcome
      BY <1>1, <2>20, AnswerType DEF CheckBusy
    <3>3. Planned'
      BY <1>1, <2>20, <3>1 DEF CheckBusy
    <3> QED
      BY <1>1, <2>20, <3>2, <3>3 DEF CheckBusy
  <2>21. CASE Enqueue(r)
    <3>1. CASE GiveEarlier(r) /\ UNCHANGED <<job, mine>>
      <4>1. Outcome /\ at' = [at EXCEPT ![r] = "release"]
        <5>1. CASE \E q \in Requests : GiveJob(r, q)
          BY <1>1, <5>1, AnswerType DEF GiveJob
        <5>2. CASE Conclude(r, "refused")
          BY <1>1, <5>2, AnswerType DEF Conclude
        <5> QED
          BY <1>1, <3>1, <5>1, <5>2, EarlierGiven
      <4> QED
        BY <1>1, <2>21, <3>1, <4>1 DEF Enqueue
    <3>2. CASE Conclude(r, "refused") /\ UNCHANGED <<job, mine>>
      <4>1. Outcome /\ at' = [at EXCEPT ![r] = "release"]
        BY <1>1, <3>2, AnswerType DEF Conclude
      <4> QED
        BY <1>1, <2>21, <3>2, <4>1 DEF Enqueue
    <3>3. CASE job' = [job EXCEPT ![r] = "queued"] /\ at' = [at EXCEPT ![r] = "done"]
               /\ answer' = [answer EXCEPT ![r] = "accepted"]
               /\ ref' = [ref EXCEPT ![r] = r] /\ mine' = [mine EXCEPT ![r] = {}]
      BY <1>1, <2>21, <3>3 DEF Enqueue
    <3> QED
      BY <2>21, <3>1, <3>2, <3>3 DEF Enqueue
  <2>22. CASE RequestFails(r)
    BY <1>1, <2>22 DEF RequestFails, Conclude, InRequest
  <2>23. CASE Vanish(r)
    BY <1>1, <2>23 DEF Vanish
  <2>24. CASE Claim(r)
    BY <1>1, <2>24, CloneRequestsAssumption DEF Claim
  <2>25. CASE Invalid(r)
    BY <1>1, <2>25 DEF Invalid, Conclude
  <2>26. CASE BeginClone(r)
    <3>1. r \in Clones /\ at[r] = "begin" /\ at' = [at EXCEPT ![r] = "expire"]
      BY <2>26 DEF BeginClone, Goto
    <3>2. /\ want' = [want EXCEPT ![r] = <<IdKey(r), PathKey(r)>>]
          /\ <<IdKey(r), PathKey(r)>> \in Seq(Keys) /\ <<IdKey(r), PathKey(r)>> # << >>
      BY <2>26, <3>1 DEF BeginClone
    <3>3. at' \in [Requests -> Places] /\ want' \in [Requests -> Seq(Keys)] /\ Planned'
      BY <1>1, <2>26, <3>1, <3>2 DEF BeginClone
    <3> QED
      BY <1>1, <2>26, <3>3 DEF BeginClone
  <2>27. CASE BeginPull(r)
    <3>1. row[r] \in Rows /\ repo[row[r]] \in Card
      BY <1>1, <2>27 DEF BeginPull, Goto, Named
    <3>2. dir' \in [Requests -> Targets]
      BY <1>1, <2>27, <3>1 DEF BeginPull, Card
    <3> QED
      BY <1>1, <2>27, <3>2 DEF BeginPull, Goto
  <2>28. CASE Inspect(r)
    <3>1. at[r] = "inspect" /\ \E x \in {"clone", "pull", "release"} : at' = [at EXCEPT ![r] = x]
      BY <1>1, <2>28 DEF Inspect, Pass, Conclude
    <3>2. Outcome
      BY <1>1, <2>28, AnswerType DEF Inspect
    <3>3. disk' \in [Targets -> {Empty, Files} \cup (Identities \X BOOLEAN)]
      <4>1. Part(Identity[r]) \in Identities \X BOOLEAN
        BY <1>1, <3>1
      <4>2. disk' = disk \/ disk' = [disk EXCEPT ![dir[r]] = Part(Identity[r])]
        BY <2>28 DEF Inspect
      <4> QED
        BY <4>1, <4>2
    <3>4. Planned'
      BY <1>1, <2>28, <3>1 DEF Inspect
    <3> QED
      BY <1>1, <2>28, <3>2, <3>3, <3>4 DEF Inspect
  <2>29. CASE Unavailable(r)
    BY <1>1, <2>29 DEF Unavailable, Conclude
  <2>30. CASE GitClone(r)
    BY <1>1, <2>30 DEF GitClone, Goto
  <2>31. CASE GitCloneFails(r)
    BY <1>1, <2>31 DEF GitCloneFails, Conclude
  <2>32. CASE GitPull(r)
    BY <1>1, <2>32 DEF GitPull, Goto
  <2>33. CASE GitPullFails(r)
    BY <1>1, <2>33 DEF GitPullFails, Conclude
  <2>34. CASE Touch(r)
    BY <1>1, <2>34 DEF Touch, Conclude
  <2>35. CASE ReleaseFails(r)
    BY <1>1, <2>35 DEF ReleaseFails, Goto, Running
  <2>36. CASE Settle(r)
    BY <1>1, <2>36 DEF Settle, Goto, Requeued
  <2>37. CASE Die(r)
    BY <1>1, <2>37 DEF Die, Running
  <2>38. CASE Recover(r)
    BY <1>1, <2>38 DEF Recover, Goto, Requeued
  <2> QED
    BY <1>1, <2>1, <2>2, <2>3, <2>4, <2>5, <2>6, <2>7, <2>8, <2>9, <2>10, <2>11, <2>12, <2>13, <2>14, <2>15, <2>16, <2>17, <2>18, <2>19, <2>20, <2>21, <2>22, <2>23, <2>24, <2>25, <2>26, <2>27, <2>28, <2>29, <2>30, <2>31, <2>32, <2>33, <2>34, <2>35, <2>36, <2>37, <2>38 DEF RequestStep, HandlerStep
<1>2. ASSUME NEW k \in Keys, Lapse(k) PROVE TypeOK' /\ Planned'
  BY <1>2 DEF Lapse
<1>3. CASE UNCHANGED vars
  BY <1>3 DEF vars
<1> QED
  BY <1>1, <1>2, <1>3 DEF Next

-----------------------------------------------------------------------------
(* The reservations *)

Others(r) ==
  \A q \in Requests \ {r} :
    /\ at'[q] = at[q] /\ job'[q] = job[q]
    /\ mine'[q] = mine[q] /\ want'[q] = want[q] /\ fresh'[q] = fresh[q]

\* Whatever r does, reservations of others that have not lapsed stay.
LEMMA KeysAway ==
  ASSUME TypeOK, Planned, OwnKeys, Reserves, NEW r \in Requests, Others(r),
         at'[r] # "new", job'[r] # "absent" \/ at'[r] = "done",
         \A k \in Keys, q \in Requests \ {r} :
           /\ k \notin lapsed /\ held[k] = q => held'[k] = q
           /\ held'[k] = q => held[k] = q,
         lapsed' \subseteq lapsed
  PROVE  OwnKeys' /\ Reserves'
<1>1. ASSUME NEW q \in Requests, at'[q] = "new" \/ InRequest(q)'
      PROVE  q # r /\ (at[q] = "new" \/ InRequest(q))
  BY <1>1 DEF InRequest, Others
<1>2. OwnKeys'
  BY <1>1 DEF OwnKeys, Others, TypeOK
<1>3. ASSUME NEW q \in Requests \ {r}, InRequest(q), at[q] = "refresh", held[Head(want[q])] = q
      PROVE  held'[Head(want[q])] = q
  <2>1. Head(want[q]) \in Keys
    BY <1>3, HeadTail DEF TypeOK, Planned, Reserving
  <2>2. Head(want[q]) \notin lapsed
    BY <1>3, <2>1 DEF OwnKeys, InRequest
  <2> QED
    BY <1>3, <2>1, <2>2
<1>4. Reserves'
  BY <1>1, <1>3 DEF Reserves, Others, Plan, InRequest
<1> QED
  BY <1>2, <1>4

\* A request that goes on with what it has reserved.
LEMMA KeysMove ==
  ASSUME TypeOK, Planned, OwnKeys, Reserves, NEW r \in Requests, NEW x \in Places,
         at[r] # "done", at' = [at EXCEPT ![r] = x], UNCHANGED <<held, lapsed, mine, job>>,
         \A q \in Requests \ {r} : want'[q] = want[q] /\ fresh'[q] = fresh[q],
         \/ x \in {"release", "done", "replay"}
         \/ x \in Keeping /\ at[r] \in Keeping /\ InRequest(r) /\ (at[r] \in Settled => x \in Settled)
         \/ x \in Settled /\ r \notin Clones
  PROVE  OwnKeys' /\ Reserves'
<1>1. at'[r] = x /\ \A q \in Requests \ {r} : at'[q] = at[q]
  BY DEF TypeOK
<1>2. \A q \in Requests : InRequest(q)' => at[q] = "new" \/ InRequest(q)
  BY <1>1 DEF InRequest
<1>3. x # "new"
  BY DEF Keeping, Settled, Checking
<1>4. OwnKeys'
  BY <1>1, <1>2, <1>3 DEF OwnKeys
<1>5. ASSUME NEW q \in Requests \ {r}, InRequest(q)'
      PROVE  InRequest(q)
  BY <1>1, <1>5 DEF InRequest
<1>6. x \notin Reserving \cup {"root"}
  BY DEF Reserving, Keeping, Checking, Settled
<1>7. Reserves'
  BY <1>1, <1>5, <1>6 DEF Reserves, Plan, InRequest, Keeping, Settled, Checking, Reserving
<1> QED
  BY <1>4, <1>7

LEMMA AtOthers ==
  ASSUME TypeOK, NEW r \in Requests, NEW x, at' = [at EXCEPT ![r] = x]
  PROVE  at'[r] = x /\ \A q \in Requests \ {r} : at'[q] = at[q]
BY DEF TypeOK

\* The keys of a request after one of its steps, from what it does to them.
LEMMA KeysOwn ==
  ASSUME TypeOK, Planned, OwnKeys, Reserves, NEW r \in Requests, InRequest(r), Others(r),
         job'[r] = "absent", at'[r] \notin {"new", "done"},
         \A k \in Keys : held'[k] = r <=> k \in mine'[r],
         \A k \in Keys : k \in mine'[r] => k \notin lapsed',
         \A k \in Keys, q \in Requests \ {r} :
           /\ k \notin lapsed /\ held[k] = q => held'[k] = q
           /\ held'[k] = q => held[k] = q,
         \A k \in Keys : k \in lapsed' => k \in lapsed,
         /\ at'[r] \in Reserving => r \in Clones /\ Plan(r)'
         /\ at'[r] = "refresh" => held'[Head(want'[r])] = r
         /\ at'[r] = "root" => r \in Clones /\ IdKey(r) \in mine'[r] /\ fresh'[r]
         /\ at'[r] \in Keeping /\ r \in Clones => IdKey(r) \in mine'[r] /\ PathKey(r) \in mine'[r]
         /\ at'[r] \in Keeping \ Settled => r \in Clones
  PROVE  OwnKeys' /\ Reserves'
<1>1. ASSUME NEW q \in Requests \ {r}, at'[q] = "new" \/ InRequest(q)'
      PROVE  at[q] = "new" \/ InRequest(q)
  BY <1>1 DEF InRequest, Others
<1>2. OwnKeys'
  BY <1>1 DEF OwnKeys, Others
<1>3. ASSUME NEW q \in Requests \ {r}, InRequest(q), at[q] = "refresh", held[Head(want[q])] = q
      PROVE  held'[Head(want[q])] = q
  <2>1. Head(want[q]) \in Keys
    BY <1>3, HeadTail DEF TypeOK, Planned, Reserving
  <2>2. Head(want[q]) \notin lapsed
    BY <1>3, <2>1 DEF OwnKeys
  <2> QED
    BY <1>3, <2>1, <2>2
<1>4. Reserves'
  BY <1>1, <1>3 DEF Reserves, Others, Plan, InRequest, IdKey, PathKey, NewPathKey
<1> QED
  BY <1>2, <1>4

LEMMA KeysDiffer ==
  ASSUME NEW r \in Clones
  PROVE  IdKey(r) # PathKey(r) /\ IdKey(r) # NewPathKey(r) /\ PathKey(r) # NewPathKey(r)
BY DEF IdKey, PathKey, NewPathKey

\* A key that a request plans to reserve and one it reserves next.
LEMMA PlanStep ==
  ASSUME TypeOK, Planned, NEW r \in Clones, Plan(r), ~Running(r)
  PROVE  \/ /\ want[r] = <<IdKey(r), IF fresh[r] THEN NewPathKey(r) ELSE PathKey(r)>>
            /\ Head(want[r]) = IdKey(r) /\ Len(want[r]) # 1
            /\ Tail(want[r]) = <<IF fresh[r] THEN NewPathKey(r) ELSE PathKey(r)>>
         \/ /\ IdKey(r) \in mine[r]
            /\ Head(want[r]) = IF fresh[r] THEN NewPathKey(r) ELSE PathKey(r)
            /\ Len(want[r]) = 1
<1>1. r \in Requests
  BY KeysType
<1>2. CASE want[r] = <<IdKey(r), PathKey(r)>> /\ ~fresh[r]
  BY <1>2
<1>3. CASE want[r] = <<IdKey(r), NewPathKey(r)>> /\ fresh[r]
  BY <1>1, <1>3 DEF TypeOK
<1>4. CASE IdKey(r) \in mine[r] /\ want[r] = <<PathKey(r)>> /\ ~fresh[r]
  BY <1>4
<1>5. CASE IdKey(r) \in mine[r] /\ want[r] = <<NewPathKey(r)>> /\ fresh[r]
  BY <1>1, <1>5 DEF TypeOK
<1> QED
  BY <1>2, <1>3, <1>4, <1>5 DEF Plan

\* A request takes the next key it wants, be it free or its own.
LEMMA KeysTake ==
  ASSUME TypeOK, Planned, OwnKeys, Reserves, NEW r \in Requests, InRequest(r),
         at[r] \in {"reserve", "refresh"}, ~Running(r),
         LET k == Head(want[r]) IN
           /\ held[k] \in {Nobody, r}
           /\ held' = [held EXCEPT ![k] = r]
           /\ lapsed' = lapsed \/ lapsed' = lapsed \ {k}
           /\ HaveKey(r, k),
         UNCHANGED <<job, fresh>>
  PROVE  OwnKeys' /\ Reserves'
<1> DEFINE k == Head(want[r])
<1>1. r \in Clones /\ Plan(r) /\ want[r] \in Seq(Keys) /\ want[r] # << >>
  BY DEF Reserves, Reserving, TypeOK, Planned
<1>2. k \in Keys
  BY <1>1, HeadTail
<1>3. k \notin lapsed /\ held[k] \in {Nobody, r}
  <2>1. held[k] = Nobody => k \notin lapsed
    BY DEF TypeOK
  <2>2. held[k] = r => k \notin lapsed
    BY <1>2 DEF OwnKeys, InRequest
  <2> QED
    BY <2>1, <2>2
<1>4. /\ mine' = [mine EXCEPT ![r] = @ \cup {k}] /\ want' = [want EXCEPT ![r] = Tail(@)]
      /\ at' = [at EXCEPT ![r] = IF Len(want[r]) = 1 THEN Reserved(r) ELSE "reserve"]
      /\ held' = [held EXCEPT ![k] = r]
      /\ lapsed' = lapsed \/ lapsed' = lapsed \ {k}
  BY DEF HaveKey
<1>5. /\ mine'[r] = mine[r] \cup {k} /\ want'[r] = Tail(want[r])
      /\ at'[r] = IF Len(want[r]) = 1 THEN Reserved(r) ELSE "reserve"
      /\ Others(r)
  BY <1>4 DEF TypeOK, Others
<1>6. \A n \in Keys : held'[n] = IF n = k THEN r ELSE held[n]
  BY <1>2, <1>4 DEF TypeOK
<1>7. Reserved(r) = IF fresh[r] THEN "root" ELSE IF NewPathKey(r) \in mine[r] THEN "swap" ELSE "existing"
  BY DEF Reserved
<1>8. /\ \A n \in Keys : held'[n] = r <=> n \in mine'[r]
      /\ \A n \in Keys : n \in mine'[r] => n \notin lapsed'
      /\ \A n \in Keys, q \in Requests \ {r} : held'[n] = q <=> held[n] = q
      /\ \A n \in Keys : n \in lapsed' => n \in lapsed
  <2> HIDE DEF k
  <2>1. \A n \in Keys : /\ held[n] = r <=> n \in mine[r]
                        /\ n \in mine[r] => n \notin lapsed
    BY DEF OwnKeys, InRequest
  <2>2. \A n \in Keys : n \in lapsed' => n \in lapsed
    BY <1>4
  <2> QED
    BY <1>2, <1>3, <1>5, <1>6, <2>1, <2>2, CloneRequestsAssumption
<1>9. /\ job'[r] = "absent" /\ at'[r] \notin {"new", "done", "refresh"}
      /\ at'[r] \in Reserving => r \in Clones /\ Plan(r)'
      /\ at'[r] = "root" => r \in Clones /\ IdKey(r) \in mine'[r] /\ fresh'[r]
      /\ at'[r] \in Keeping => IdKey(r) \in mine'[r] /\ PathKey(r) \in mine'[r]
  <2>1. CASE /\ Head(want[r]) = IdKey(r) /\ Len(want[r]) # 1
             /\ Tail(want[r]) = <<IF fresh[r] THEN NewPathKey(r) ELSE PathKey(r)>>
    BY <1>1, <1>5, <2>1 DEF InRequest, Plan, Keeping, Checking, Settled, Reserving, IdKey, PathKey, NewPathKey
  <2>2. CASE /\ IdKey(r) \in mine[r] /\ Len(want[r]) = 1
             /\ Head(want[r]) = IF fresh[r] THEN NewPathKey(r) ELSE PathKey(r)
    BY <1>1, <1>5, <1>7, <2>2 DEF InRequest, Keeping, Checking, Settled, Reserving
  <2> QED
    BY <1>1, <2>1, <2>2, PlanStep
<1> QED
  BY <1>1, <1>5, <1>8, <1>9, KeysOwn

LEMMA KeysStep == TypeOK /\ Planned /\ OwnKeys /\ Reserves /\ [Next]_vars => OwnKeys' /\ Reserves'
<1> SUFFICES ASSUME TypeOK, Planned, OwnKeys, Reserves, [Next]_vars PROVE OwnKeys' /\ Reserves'
  OBVIOUS
<1> USE DEF regVars, jobVars, readVars
<1>1. ASSUME NEW r \in Requests,
             ExpireKeys(r) \/ ReserveKey(r) \/ Refresh(r) \/ ReleaseKey(r) \/ Released(r)
             \/ RequestStep(r) \/ HandlerStep(r)
      PROVE  OwnKeys' /\ Reserves'
  <2>1. CASE Reject(r)
    <3>1. at'[r] # "new" /\ (job'[r] # "absent" \/ at'[r] = "done") /\ Others(r)
      BY <1>1, <2>1 DEF Reject, Goto, Others, TypeOK, Planned, Reserving,
           HandlerPlaces, Running, InRequest
    <3> QED
      BY <1>1, <2>1, <3>1, KeysAway DEF Reject
  <2>2. CASE Vanish(r)
    <3>1. at'[r] # "new" /\ (job'[r] # "absent" \/ at'[r] = "done") /\ Others(r)
      BY <1>1, <2>2 DEF Vanish, Others, TypeOK, Planned, Reserving,
           HandlerPlaces, Running, InRequest
    <3> QED
      BY <1>1, <2>2, <3>1, KeysAway DEF Vanish
  <2>3. CASE Claim(r)
    <3>1. at'[r] # "new" /\ (job'[r] # "absent" \/ at'[r] = "done") /\ Others(r)
      BY <1>1, <2>3 DEF Claim, Others, TypeOK, Planned, Reserving,
           HandlerPlaces, Running, InRequest
    <3> QED
      BY <1>1, <2>3, <3>1, KeysAway DEF Claim
  <2>4. CASE BeginPull(r)
    <3>1. at'[r] # "new" /\ (job'[r] # "absent" \/ at'[r] = "done") /\ Others(r)
      BY <1>1, <2>4 DEF BeginPull, Goto, Card, Others, TypeOK, Planned, Reserving,
           HandlerPlaces, Running, InRequest
    <3> QED
      BY <1>1, <2>4, <3>1, KeysAway DEF BeginPull
  <2>5. CASE BeginClone(r)
    <3>1. at'[r] # "new" /\ (job'[r] # "absent" \/ at'[r] = "done") /\ Others(r)
      BY <1>1, <2>5 DEF BeginClone, Goto, Others, TypeOK, Planned, Reserving,
           HandlerPlaces, Running, InRequest
    <3> QED
      BY <1>1, <2>5, <3>1, KeysAway DEF BeginClone
  <2>6. CASE GitClone(r)
    <3>1. at'[r] # "new" /\ (job'[r] # "absent" \/ at'[r] = "done") /\ Others(r)
      BY <1>1, <2>6 DEF GitClone, Goto, Others, TypeOK, Planned, Reserving,
           HandlerPlaces, Running, InRequest
    <3> QED
      BY <1>1, <2>6, <3>1, KeysAway DEF GitClone
  <2>7. CASE GitPull(r)
    <3>1. at'[r] # "new" /\ (job'[r] # "absent" \/ at'[r] = "done") /\ Others(r)
      BY <1>1, <2>7 DEF GitPull, Goto, Others, TypeOK, Planned, Reserving,
           HandlerPlaces, Running, InRequest
    <3> QED
      BY <1>1, <2>7, <3>1, KeysAway DEF GitPull
  <2>8. CASE Settle(r)
    <3>1. at'[r] # "new" /\ (job'[r] # "absent" \/ at'[r] = "done") /\ Others(r)
      BY <1>1, <2>8 DEF Settle, Goto, Requeued, Others, TypeOK, Planned, Reserving,
           HandlerPlaces, Running, InRequest
    <3> QED
      BY <1>1, <2>8, <3>1, KeysAway DEF Settle
  <2>9. CASE Recover(r)
    <3>1. at'[r] # "new" /\ (job'[r] # "absent" \/ at'[r] = "done") /\ Others(r)
      BY <1>1, <2>9 DEF Recover, Goto, Requeued, Others, TypeOK, Planned, Reserving,
           HandlerPlaces, Running, InRequest
    <3> QED
      BY <1>1, <2>9, <3>1, KeysAway DEF Recover
  <2>10. CASE Invalid(r)
    <3>1. at'[r] # "new" /\ (job'[r] # "absent" \/ at'[r] = "done") /\ Others(r)
      BY <1>1, <2>10 DEF Invalid, Conclude, Others, TypeOK, Planned, Reserving,
           HandlerPlaces, Running, InRequest
    <3> QED
      BY <1>1, <2>10, <3>1, KeysAway DEF Invalid
  <2>11. CASE Inspect(r)
    <3>1. at'[r] # "new" /\ (job'[r] # "absent" \/ at'[r] = "done") /\ Others(r)
      BY <1>1, <2>11 DEF Inspect, Pass, Conclude, Others, TypeOK, Planned, Reserving,
           HandlerPlaces, Running, InRequest
    <3> QED
      BY <1>1, <2>11, <3>1, KeysAway DEF Inspect
  <2>12. CASE GitCloneFails(r)
    <3>1. at'[r] # "new" /\ (job'[r] # "absent" \/ at'[r] = "done") /\ Others(r)
      BY <1>1, <2>12 DEF GitCloneFails, Conclude, Others, TypeOK, Planned, Reserving,
           HandlerPlaces, Running, InRequest
    <3> QED
      BY <1>1, <2>12, <3>1, KeysAway DEF GitCloneFails
  <2>13. CASE GitPullFails(r)
    <3>1. at'[r] # "new" /\ (job'[r] # "absent" \/ at'[r] = "done") /\ Others(r)
      BY <1>1, <2>13 DEF GitPullFails, Conclude, Others, TypeOK, Planned, Reserving,
           HandlerPlaces, Running, InRequest
    <3> QED
      BY <1>1, <2>13, <3>1, KeysAway DEF GitPullFails
  <2>14. CASE Touch(r)
    <3>1. at'[r] # "new" /\ (job'[r] # "absent" \/ at'[r] = "done") /\ Others(r)
      BY <1>1, <2>14 DEF Touch, Conclude, Others, TypeOK, Planned, Reserving,
           HandlerPlaces, Running, InRequest
    <3> QED
      BY <1>1, <2>14, <3>1, KeysAway DEF Touch
  <2>15. CASE Unavailable(r)
    <3>1. at'[r] # "new" /\ (job'[r] # "absent" \/ at'[r] = "done") /\ Others(r)
      BY <1>1, <2>15 DEF Unavailable, Conclude, Others, TypeOK, Planned, Reserving,
           HandlerPlaces, Running, InRequest
    <3> QED
      BY <1>1, <2>15, <3>1, KeysAway DEF Unavailable
  <2>16. CASE ReleaseFails(r)
    <3>1. at'[r] # "new" /\ (job'[r] # "absent" \/ at'[r] = "done") /\ Others(r)
      BY <1>1, <2>16 DEF ReleaseFails, Goto, Others, TypeOK, Planned, Reserving,
           HandlerPlaces, Running, InRequest
    <3> QED
      BY <1>1, <2>16, <3>1, KeysAway DEF ReleaseFails
  <2>17. CASE Die(r)
    <3>1. at'[r] # "new" /\ (job'[r] # "absent" \/ at'[r] = "done") /\ Others(r)
      BY <1>1, <2>17 DEF Die, Others, TypeOK, Planned, Reserving,
           HandlerPlaces, Running, InRequest
    <3> QED
      BY <1>1, <2>17, <3>1, KeysAway DEF Die
  <2>18. CASE Preview(r)
    <3>1. at[r] = "new" /\ \E x \in {"replay"} : at' = [at EXCEPT ![r] = x]
      BY <1>1, <2>18 DEF Preview, Goto
    <3> QED
      BY <1>1, <2>18, <3>1, KeysMove DEF Preview, Places, RequestPlaces,
         SharedPlaces, Keeping, Checking, Settled, InRequest, TypeOK, Planned
  <2>19. CASE FindExisting(r)
    <3>1. at[r] = "existing" /\ \E x \in {"busy", "queuedClones"} : at' = [at EXCEPT ![r] = x]
      BY <1>1, <2>19 DEF FindExisting, Goto
    <3> QED
      BY <1>1, <2>19, <3>1, KeysMove DEF FindExisting, Places, RequestPlaces,
         SharedPlaces, Keeping, Checking, Settled, InRequest, TypeOK, Planned
  <2>20. CASE CheckBusy(r, "busy", "queuedClones")
    <3>1. at[r] = "busy" /\ \E x \in {"release", "queuedClones"} : at' = [at EXCEPT ![r] = x]
      BY <1>1, <2>20 DEF CheckBusy, Pass, Conclude
    <3> QED
      BY <1>1, <2>20, <3>1, KeysMove DEF CheckBusy, Places, RequestPlaces,
         SharedPlaces, Keeping, Checking, Settled, InRequest, TypeOK, Planned
  <2>21. CASE CheckClones(r, "queuedClones", "queued", "runningClones")
    <3>1. at[r] = "queuedClones" /\ \E x \in {"release", "runningClones"} : at' = [at EXCEPT ![r] = x]
      BY <1>1, <2>21 DEF CheckClones, Pass, Conclude
    <3> QED
      BY <1>1, <2>21, <3>1, KeysMove DEF CheckClones, Places, RequestPlaces,
         SharedPlaces, Keeping, Checking, Settled, InRequest, TypeOK, Planned
  <2>22. CASE CheckClones(r, "runningClones", "running", "assigned")
    <3>1. at[r] = "runningClones" /\ \E x \in {"release", "assigned"} : at' = [at EXCEPT ![r] = x]
      BY <1>1, <2>22 DEF CheckClones, Pass, Conclude
    <3> QED
      BY <1>1, <2>22, <3>1, KeysMove DEF CheckClones, Places, RequestPlaces,
         SharedPlaces, Keeping, Checking, Settled, InRequest, TypeOK, Planned
  <2>23. CASE CheckAssigned(r)
    <3>1. at[r] = "assigned" /\ \E x \in {"release", "find"} : at' = [at EXCEPT ![r] = x]
      BY <1>1, <2>23 DEF CheckAssigned, Pass, Conclude
    <3> QED
      BY <1>1, <2>23, <3>1, KeysMove DEF CheckAssigned, Places, RequestPlaces,
         SharedPlaces, Keeping, Checking, Settled, InRequest, TypeOK, Planned
  <2>24. CASE FindCards(r)
    <3>1. at[r] = "find" /\ \E x \in {"upsert"} : at' = [at EXCEPT ![r] = x]
      BY <1>1, <2>24 DEF FindCards, Goto
    <3> QED
      BY <1>1, <2>24, <3>1, KeysMove DEF FindCards, Places, RequestPlaces,
         SharedPlaces, Keeping, Checking, Settled, InRequest, TypeOK, Planned
  <2>25. CASE UpsertCard(r)
    <3>1. at[r] = "upsert" /\ \E x \in {"release", "payload"} : at' = [at EXCEPT ![r] = x]
      BY <1>1, <2>25 DEF UpsertCard, Pass, Conclude
    <3> QED
      BY <1>1, <2>25, <3>1, KeysMove DEF UpsertCard, Places, RequestPlaces,
         SharedPlaces, Keeping, Checking, Settled, InRequest, TypeOK, Planned
  <2>26. CASE NamePull(r)
    <3>1. at[r] = "new" /\ \E x \in {"payload"} : at' = [at EXCEPT ![r] = x]
      BY <1>1, <2>26 DEF NamePull, Goto
    <3> QED
      BY <1>1, <2>26, <3>1, KeysMove DEF NamePull, Places, RequestPlaces,
         SharedPlaces, Keeping, Checking, Settled, InRequest, TypeOK, Planned
  <2>27. CASE ReplayPayload(r)
    <3>1. at[r] = "payload" /\ \E x \in {"release", "active"} : at' = [at EXCEPT ![r] = x]
      BY <1>1, <2>27 DEF ReplayPayload, Pass, GiveEarlier, GiveJob, Conclude
    <3> QED
      BY <1>1, <2>27, <3>1, KeysMove DEF ReplayPayload, Places, RequestPlaces,
         SharedPlaces, Keeping, Checking, Settled, InRequest, TypeOK, Planned
  <2>28. CASE CheckBusy(r, "active", "enqueue")
    <3>1. at[r] = "active" /\ \E x \in {"release", "enqueue"} : at' = [at EXCEPT ![r] = x]
      BY <1>1, <2>28 DEF CheckBusy, Pass, Conclude
    <3> QED
      BY <1>1, <2>28, <3>1, KeysMove DEF CheckBusy, Places, RequestPlaces,
         SharedPlaces, Keeping, Checking, Settled, InRequest, TypeOK, Planned
  <2>40. CASE ExpireKeys(r)
    <3>1. /\ at[r] = "expire" /\ at' = [at EXCEPT ![r] = "reserve"] /\ lapsed' = {}
          /\ \A k \in Keys : held'[k] = IF k \in lapsed THEN Nobody ELSE held[k]
          /\ UNCHANGED <<job, mine, want, fresh>>
      BY <2>40 DEF ExpireKeys, Goto
    <3>2. at'[r] = "reserve" /\ Others(r)
      BY <1>1, <3>1, AtOthers DEF Others
    <3>3. CASE InRequest(r)
      <4>1. \A k \in Keys : held'[k] = r <=> k \in mine'[r]
        BY <1>1, <3>1, <3>3, CloneRequestsAssumption DEF OwnKeys
      <4>2. r \in Clones /\ Plan(r)'
        BY <1>1, <3>1, <3>3 DEF Reserves, Reserving, Plan
      <4> QED
        BY <1>1, <3>1, <3>2, <3>3, <4>1, <4>2, KeysOwn, CloneRequestsAssumption
           DEF InRequest, Keeping, Checking, Settled
    <3>4. CASE ~InRequest(r)
      BY <1>1, <3>1, <3>2, <3>4, KeysAway, CloneRequestsAssumption DEF InRequest
    <3> QED
      BY <3>3, <3>4
  <2>41. CASE ReserveKey(r)
    <3> DEFINE k == Head(want[r])
    <3>1. k \in Keys /\ at[r] = "reserve" /\ UNCHANGED <<lapsed, job, fresh>>
      BY <1>1, <2>41, HeadTail DEF ReserveKey, TypeOK, Planned, Reserving
    <3>2. CASE held[k] = Nobody /\ held' = [held EXCEPT ![k] = r] /\ HaveKey(r, k)
      <4>1. CASE job[r] = "absent"
        BY <1>1, <3>1, <3>2, <4>1, KeysTake DEF InRequest, Running
      <4>2. CASE job[r] # "absent"
        <5>1. at'[r] # "new" /\ Others(r)
          BY <1>1, <3>1, <3>2 DEF HaveKey, Reserved, Others, TypeOK
        <5>2. \A n \in Keys : held'[n] = IF n = k THEN r ELSE held[n]
          BY <3>1, <3>2 DEF TypeOK
        <5> QED
          BY <1>1, <3>1, <3>2, <4>2, <5>1, <5>2, KeysAway, CloneRequestsAssumption
      <4> QED
        BY <4>1, <4>2
    <3>3. CASE held[k] = r /\ Pass(r, "refresh") /\ UNCHANGED <<held, mine, want>>
      <4>1. at'[r] = "refresh" /\ Others(r)
        BY <1>1, <3>1, <3>3, AtOthers DEF Pass, Others
      <4>2. CASE job[r] = "absent"
        <5>1. r \in Clones /\ Plan(r)'
          BY <1>1, <3>1, <3>3, <4>2 DEF Reserves, Reserving, Plan, InRequest
        <5>2. \A n \in Keys : (held[n] = r <=> n \in mine[r]) /\ (n \in mine[r] => n \notin lapsed)
          BY <1>1, <3>1, <4>2 DEF OwnKeys, InRequest
        <5> QED
          BY <1>1, <3>1, <3>3, <4>1, <4>2, <5>1, <5>2, KeysOwn
             DEF InRequest, Keeping, Checking, Settled
      <4>3. CASE job[r] # "absent"
        BY <1>1, <3>1, <3>3, <4>1, <4>3, KeysAway
      <4> QED
        BY <4>2, <4>3
    <3>4. CASE at' = [at EXCEPT ![r] = "release"] /\ UNCHANGED <<held, mine, want>>
      BY <1>1, <3>1, <3>4, KeysMove DEF Places, SharedPlaces
    <3> QED
      BY <2>41, <3>2, <3>3, <3>4 DEF ReserveKey, Conclude
  <2>42. CASE Refresh(r)
    <3> DEFINE k == Head(want[r])
    <3>1. /\ k \in Keys /\ at[r] = "refresh" /\ UNCHANGED <<held, job, fresh>> /\ HaveKey(r, k)
          /\ lapsed' = lapsed \/ lapsed' = lapsed \ {k}
      BY <1>1, <2>42, HeadTail DEF Refresh, TypeOK, Planned, Reserving
    <3>2. CASE job[r] = "absent"
      <4>1. held[k] = r
        BY <1>1, <3>1, <3>2 DEF Reserves, InRequest
      <4>2. held' = [held EXCEPT ![k] = r]
        BY <3>1, <4>1 DEF TypeOK
      <4> QED
        BY <1>1, <3>1, <3>2, <4>1, <4>2, KeysTake DEF InRequest, Running
    <3>3. CASE job[r] # "absent"
      <4>1. at'[r] # "new" /\ Others(r)
        BY <1>1, <3>1 DEF HaveKey, Reserved, Others, TypeOK
      <4> QED
        BY <1>1, <3>1, <3>3, <4>1, KeysAway
    <3> QED
      BY <3>2, <3>3
  <2>43. ASSUME NEW k \in Keys, at[r] \in {"release", "swap"}, at'[r] \in {"release", "existing"},
                at'[r] = "existing" => r \in Clones /\ k = NewPathKey(r) /\ at[r] = "swap",
                Free(r, k), Others(r), UNCHANGED <<job, want, fresh>>
         PROVE  OwnKeys' /\ Reserves'
    <3>1. /\ \A n \in Keys : held'[n] = IF n = k /\ held[n] = r THEN Nobody ELSE held[n]
          /\ mine'[r] = mine[r] \ {k}
          /\ lapsed' \subseteq lapsed
      BY <1>1, <2>43 DEF Free, TypeOK
    <3>2. CASE job[r] = "absent"
      <4>1. \A n \in Keys : (held[n] = r <=> n \in mine[r]) /\ (n \in mine[r] => n \notin lapsed)
        BY <1>1, <2>43, <3>2 DEF OwnKeys, InRequest
      <4>2. at'[r] = "existing" => IdKey(r) \in mine'[r] /\ PathKey(r) \in mine'[r]
        BY <1>1, <2>43, <3>1, <3>2, KeysDiffer DEF Reserves, InRequest, Keeping
      <4> QED
        BY <1>1, <2>43, <3>1, <3>2, <4>1, <4>2, KeysOwn, CloneRequestsAssumption
           DEF InRequest, Keeping, Checking, Settled, Reserving
    <3>3. CASE job[r] # "absent"
      BY <1>1, <2>43, <3>1, <3>3, KeysAway, CloneRequestsAssumption
    <3> QED
      BY <3>2, <3>3
  <2>44. CASE ReleaseKey(r)
    BY <1>1, <2>43, <2>44 DEF ReleaseKey, Free, Others, TypeOK
  <2>45. CASE SwapKey(r)
    <3>1. r \in Clones /\ NewPathKey(r) \in Keys /\ at[r] = "swap" /\ at' = [at EXCEPT ![r] = "existing"]
      BY <1>1, <2>45, KeysType DEF SwapKey, Goto, Planned, ClonePlaces
    <3> QED
      BY <1>1, <2>43, <2>45, <3>1, AtOthers DEF SwapKey, Free, Others, TypeOK
  <2>46. CASE Released(r)
    <3>1. at'[r] \in {"settle", "done"} /\ (at'[r] = "settle" => job'[r] # "absent") /\ Others(r)
      BY <1>1, <2>46 DEF Released, Goto, Others, Running, TypeOK, Others, TypeOK, Planned, Reserving,
           HandlerPlaces, Running, InRequest
    <3> QED
      BY <1>1, <2>46, <3>1, KeysAway DEF Released
  <2>47. CASE Replay(r)
    <3>1. CASE /\ Pass(r, "expire")
               /\ want' = [want EXCEPT ![r] = <<IdKey(r), IF fresh[r] THEN NewPathKey(r) ELSE PathKey(r)>>]
      <4>1. at'[r] = "expire" /\ Others(r) /\ at[r] = "replay" /\ UNCHANGED <<held, lapsed, mine, job, fresh>>
        BY <1>1, <2>47, <3>1, AtOthers DEF Pass, Replay, Others, TypeOK
      <4>2. InRequest(r) /\ r \in Clones
        BY <1>1, <4>1 DEF InRequest, Planned, RequestPlaces, ClonePlaces
      <4>3. Plan(r)'
        BY <1>1, <3>1, <4>1 DEF Plan, TypeOK
      <4>4. \A n \in Keys : (held[n] = r <=> n \in mine[r]) /\ (n \in mine[r] => n \notin lapsed)
        BY <1>1, <4>2 DEF OwnKeys
      <4> QED
        BY <1>1, <4>1, <4>2, <4>3, <4>4, KeysOwn DEF InRequest, Keeping, Checking, Settled
    <3>2. CASE at' = [at EXCEPT ![r] = "release"] /\ want' = want
      BY <1>1, <2>47, <3>2, KeysMove DEF Replay, Places, SharedPlaces
    <3> QED
      BY <2>47, <3>1, <3>2 DEF Replay, GiveJob, Conclude
  <2>48. CASE CreateRoot(r)
    <3>1. /\ at[r] = "root" /\ at' = [at EXCEPT ![r] = "expire"] /\ UNCHANGED <<held, lapsed, mine, job>>
          /\ fresh'[r] = FALSE /\ want'[r] = <<PathKey(r)>>
          /\ \A q \in Requests \ {r} : fresh'[q] = fresh[q] /\ want'[q] = want[q]
      BY <1>1, <2>48 DEF CreateRoot, Goto, TypeOK
    <3>2. at'[r] = "expire" /\ Others(r)
      BY <1>1, <3>1, AtOthers DEF Others
    <3>3. InRequest(r)
      BY <1>1, <3>1 DEF InRequest, Planned, RequestPlaces
    <3>4. r \in Clones /\ Plan(r)'
      BY <1>1, <3>1, <3>3 DEF Reserves, Plan, IdKey, PathKey
    <3>5. \A n \in Keys : (held[n] = r <=> n \in mine[r]) /\ (n \in mine[r] => n \notin lapsed)
      BY <1>1, <3>3 DEF OwnKeys
    <3> QED
      BY <1>1, <3>1, <3>2, <3>3, <3>4, <3>5, KeysOwn DEF InRequest, Keeping, Checking, Settled
  <2>49. CASE Enqueue(r)
    <3>1. CASE at' = [at EXCEPT ![r] = "release"] /\ UNCHANGED <<job, mine>>
      BY <1>1, <2>49, <3>1, KeysMove DEF Enqueue, Places, SharedPlaces
    <3>2. CASE at' = [at EXCEPT ![r] = "done"] /\ job' = [job EXCEPT ![r] = "queued"] /\ mine' = [mine EXCEPT ![r] = {}]
      <4>1. at'[r] = "done" /\ Others(r) /\ UNCHANGED <<held, lapsed>>
        BY <1>1, <2>49, <3>2 DEF Enqueue, Others, TypeOK
      <4> QED
        BY <1>1, <4>1, KeysAway
    <3> QED
      BY <2>49, <3>1, <3>2 DEF Enqueue, GiveEarlier, GiveJob, Conclude
  <2>50. CASE RequestFails(r)
    BY <1>1, <2>50, KeysMove DEF RequestFails, Conclude, InRequest, Places, SharedPlaces
  <2> QED
    BY <1>1, <2>1, <2>2, <2>3, <2>4, <2>5, <2>6, <2>7, <2>8, <2>9, <2>10, <2>11, <2>12, <2>13, <2>14, <2>15, <2>16, <2>17, <2>18, <2>19, <2>20, <2>21, <2>22, <2>23, <2>24, <2>25, <2>26, <2>27, <2>28, <2>40, <2>41, <2>42, <2>44, <2>45, <2>46, <2>47, <2>48, <2>49, <2>50 DEF RequestStep, HandlerStep
<1>2. ASSUME NEW k \in Keys, Lapse(k) PROVE OwnKeys' /\ Reserves'
  <2>1. /\ held[k] # Nobody /\ ~InRequest(held[k]) /\ lapsed' = lapsed \cup {k}
        /\ UNCHANGED <<held, job, at, want, mine, fresh>>
    BY <1>2 DEF Lapse
  <2>2. \A r \in Requests : at[r] = "new" \/ InRequest(r) => held[k] # r
    <3>1. \A r \in Requests : at[r] = "new" => held[k] # r
      BY DEF OwnKeys
    <3> QED
      BY <2>1, <3>1
  <2>3. OwnKeys'
    BY <2>1, <2>2 DEF OwnKeys, InRequest
  <2>4. Reserves'
    BY <2>1 DEF Reserves, Plan, InRequest
  <2> QED
    BY <2>3, <2>4
<1>3. CASE UNCHANGED vars
  BY <1>3 DEF vars, OwnKeys, Reserves, Plan, InRequest
<1> QED
  BY <1>1, <1>2, <1>3 DEF Next

-----------------------------------------------------------------------------
(* The cards *)

CardInv == Named /\ Cards /\ Checked /\ (\A r \in ActiveClones : CardOK(r)) /\ ClonesKeepApart

\* A step that changes no card and brings no request to a place where it is
\* owed one.
Quiet(r) ==
  /\ UNCHANGED <<repo, row, old>>
  /\ \A q \in Requests \ {r} : at'[q] = at[q] /\ job'[q] = job[q]
  /\ job'[r] \in Active => job[r] \in Active
  /\ job'[r] # "absent" => job[r] # "absent"
  /\ \/ at'[r] \notin {"busy"} \cup Checking \cup Settled
     \/ at[r] \in Settled /\ at'[r] \in Settled /\ job'[r] = job[r]

LEMMA CardQuiet ==
  ASSUME TypeOK, Planned, CardInv, NEW r \in Requests, Quiet(r)
  PROVE  CardInv'
<1> USE KeysType DEF Quiet
<1>1. ActiveClones' \subseteq ActiveClones
  BY DEF ActiveClones
<1>2. \A q \in Clones : CardOK(q)' <=> CardOK(q)
  BY DEF CardOK, Managed
<1>3. Named'
  BY DEF CardInv, Named
<1>4. Cards'
  BY DEF CardInv, Cards, Managed
<1>5. ClonesKeepApart' /\ \A q \in ActiveClones' : CardOK(q)'
  <2>1. \A q \in ActiveClones : q \in Clones
    BY DEF ActiveClones
  <2> QED
    BY <1>1, <1>2, <2>1 DEF CardInv, ClonesKeepApart
<1>6. Checked'
  <2> SUFFICES ASSUME NEW q \in Clones, InRequest(q)' PROVE Knows(q)'
    BY DEF Checked
  <2>1. CASE at'[q] \in Settled
    <3>1. InRequest(q) /\ at[q] \in Settled
      BY <2>1 DEF InRequest, Planned, RequestPlaces, Settled, Checking
    <3>2. CardOK(q)'
      BY <1>2, <3>1 DEF CardInv, Checked, Knows
    <3> QED
      BY <2>1, <3>2 DEF Knows, Settled, Checking
  <2>2. CASE at'[q] \in {"busy"} \cup Checking
    <3>1. InRequest(q) /\ q # r /\ at'[q] = at[q]
      BY <2>2 DEF InRequest, Settled, Checking
    <3>2. Knows(q)
      BY <3>1 DEF CardInv, Checked
    <3> QED
      BY <1>1, <1>2, <2>2, <3>1, <3>2 DEF Knows, Managed, Settled, Checking
  <2>3. CASE at'[q] \notin {"busy"} \cup Checking \cup Settled
    BY <2>3 DEF Knows, Checking
  <2> QED
    BY <2>1, <2>2, <2>3
<1> QED
  BY <1>3, <1>4, <1>5, <1>6 DEF CardInv

\* A request reads something and goes on, or is turned away.
LEMMA CardRead ==
  ASSUME TypeOK, Planned, CardInv, NEW r \in Requests, job[r] = "absent", UNCHANGED <<repo, job>>,
         \A q \in Requests \ {r} : at'[q] = at[q] /\ row'[q] = row[q] /\ old'[q] = old[q],
         at'[r] \in Settled => row'[r] \in Rows /\ repo[row'[r]] # NoCard,
         r \in Clones /\ InRequest(r)' => Knows(r)'
  PROVE  CardInv'
<1> USE KeysType
<1>1. ActiveClones' = ActiveClones /\ r \notin ActiveClones /\ \A q \in ActiveClones : q \in Clones
  BY DEF ActiveClones, Active
<1>2. \A q \in Clones \ {r} : CardOK(q)' <=> CardOK(q)
  BY DEF CardOK, Managed
<1>3. Named'
  BY DEF CardInv, Named
<1>4. Cards'
  BY DEF CardInv, Cards, Managed
<1>5. ClonesKeepApart' /\ \A q \in ActiveClones' : CardOK(q)'
  BY <1>1, <1>2 DEF CardInv, ClonesKeepApart
<1>6. ASSUME NEW q \in Clones \ {r}, InRequest(q)'
      PROVE  Knows(q)'
  <2>1. Knows(q)
    BY <1>6 DEF CardInv, Checked, InRequest
  <2>2. \A p \in ActiveClones : row'[p] = row[p]
    BY <1>1
  <2> QED
    BY <1>1, <1>2, <2>1, <2>2 DEF Knows, Managed
<1>7. Checked'
  BY <1>6 DEF Checked
<1> QED
  BY <1>3, <1>4, <1>5, <1>7 DEF CardInv

LEMMA OwnCard ==
  ASSUME NEW q \in Clones, CardOK(q)
  PROVE  /\ row[q] \in Rows /\ repo[row[q]] # NoCard /\ Managed(repo, row[q])
         /\ repo[row[q]].who = Identity[q] /\ repo[row[q]].at = Target[q]
         /\ repo[row[q]].status = "active"
<1>1. [who |-> Identity[q], at |-> Target[q], status |-> "active"] \in Card
  BY KeysType DEF Card
<1> QED
  BY <1>1, KeysType, CloneRequestsAssumption DEF CardOK, Managed

LEMMA ReadCases ==
  ASSUME TypeOK, Planned, CardInv, NEW r \in Requests,
         \/ FindExisting(r) \/ CheckBusy(r, "busy", "queuedClones")
         \/ CheckClones(r, "queuedClones", "queued", "runningClones")
         \/ CheckClones(r, "runningClones", "running", "assigned")
         \/ CheckAssigned(r) \/ FindCards(r) \/ NamePull(r)
  PROVE  CardInv'
<1> USE KeysType, CloneRequestsAssumption DEF regVars, jobVars, readVars
<1>1. \A q \in ActiveClones : /\ q \in Clones /\ row[q] \in Rows
                              /\ repo[row[q]] # NoCard /\ repo[row[q]].who = Identity[q]
                              /\ repo[row[q]].at = Target[q] /\ Managed(repo, row[q])
  BY OwnCard DEF CardInv, ActiveClones
<1>2. ASSUME r \in Clones, at[r] \in {"busy"} \cup Checking, job[r] = "absent"
      PROVE  Knows(r)
  BY <1>2 DEF CardInv, Checked, InRequest, Checking
<1>3. CASE FindExisting(r)
  <2>1. /\ r \in Clones /\ job[r] = "absent" /\ UNCHANGED <<repo, job, old>>
        /\ \A q \in Requests \ {r} : at'[q] = at[q] /\ row'[q] = row[q]
        /\ ActiveClones' = ActiveClones /\ r \notin ActiveClones
    BY <1>3 DEF FindExisting, Goto, TypeOK, Planned, ClonePlaces, RequestPlaces, ActiveClones, Active
  <2>2. CASE CardOf(Identity[r]) # {}
    <3>1. row'[r] \in CardOf(Identity[r]) /\ at'[r] \in {"busy", "queuedClones"}
      BY <1>3, <2>2 DEF FindExisting, Goto, TheRow, TypeOK
    <3>2. at'[r] = "busy"
      BY <1>3, <2>2 DEF FindExisting, Goto, TypeOK
    <3>3. ASSUME NEW q \in ActiveClones, Identity[q] = Identity[r] PROVE row'[q] = row'[r]
      BY <1>1, <2>1, <3>1, <3>3 DEF CardInv, Cards, CardOf
    <3>4. Knows(r)'
      BY <2>1, <3>2, <3>3 DEF Knows, Checking, Settled
    <3> QED
      BY <2>1, <3>2, <3>4, CardRead DEF Settled
  <2>3. CASE CardOf(Identity[r]) = {}
    <3>1. at'[r] \in {"busy", "queuedClones"}
      BY <1>3 DEF FindExisting, Goto, TypeOK
    <3>2. \A q \in ActiveClones : Identity[q] # Identity[r]
      BY <1>1, <2>3 DEF CardOf
    <3>3. Knows(r)'
      BY <2>1, <3>1, <3>2 DEF Knows, Checking, Settled
    <3> QED
      BY <2>1, <3>1, <3>3, CardRead DEF Settled
  <2> QED
    BY <2>2, <2>3
<1>4. CASE CheckBusy(r, "busy", "queuedClones")
  <2>1. /\ r \in Clones /\ job[r] = "absent" /\ at[r] = "busy" /\ UNCHANGED <<repo, job, row, old>>
        /\ at'[r] \in {"release", "queuedClones"} /\ \A q \in Requests \ {r} : at'[q] = at[q]
        /\ at'[r] = "queuedClones" => ~ActiveOn(row[r])
        /\ ActiveClones' = ActiveClones
    BY <1>4 DEF CheckBusy, Conclude, Pass, TypeOK, Planned, ClonePlaces, RequestPlaces, ActiveClones
  <2>2. at'[r] = "queuedClones" => \A q \in ActiveClones : Identity[q] # Identity[r]
    BY <1>2, <2>1 DEF Knows, ActiveOn, ActiveClones
  <2>3. Knows(r)'
    BY <2>1, <2>2 DEF Knows, Checking, Settled
  <2> QED
    BY <2>1, <2>3, CardRead DEF Settled
<1>5. CASE \/ CheckClones(r, "queuedClones", "queued", "runningClones")
           \/ CheckClones(r, "runningClones", "running", "assigned")
  <2>1. /\ r \in Clones /\ job[r] = "absent" /\ at[r] \in Checking /\ UNCHANGED <<repo, job, row, old>>
        /\ at'[r] \in {"release", "runningClones", "assigned"}
        /\ \A q \in Requests \ {r} : at'[q] = at[q]
        /\ ActiveClones' = ActiveClones
    BY <1>5 DEF CheckClones, Conclude, Pass, TypeOK, Planned, ClonePlaces, Checking, RequestPlaces, ActiveClones
  <2>2. Knows(r)'
    BY <1>2, <2>1 DEF Knows, Checking, Settled
  <2> QED
    BY <2>1, <2>2, CardRead DEF Settled
<1>6. CASE CheckAssigned(r)
  <2>1. /\ r \in Clones /\ job[r] = "absent" /\ at[r] = "assigned" /\ UNCHANGED <<repo, job, row, old>>
        /\ at'[r] \in {"release", "find"}
        /\ \A q \in Requests \ {r} : at'[q] = at[q]
        /\ ActiveClones' = ActiveClones
        /\ at'[r] = "find" => \/ CardsAt(Target[r]) = {}
                              \/ \E id \in CardsAt(Target[r]) : repo[id].who = Identity[r]
    BY <1>6 DEF CheckAssigned, Conclude, Pass, TypeOK, Planned, ClonePlaces, Checking, RequestPlaces, ActiveClones
  <2>2. ASSUME at'[r] = "find", NEW c \in Rows, Managed(repo, c), repo[c].at = Target[r]
        PROVE  repo[c].who = Identity[r]
    <3>1. c \in CardsAt(Target[r])
      BY <2>2 DEF CardsAt, Managed
    <3>2. PICK id \in CardsAt(Target[r]) : repo[id].who = Identity[r]
      BY <2>1, <2>2, <3>1
    <3>3. Managed(repo, id) /\ id \in Rows /\ repo[id].at = Target[r]
      BY <2>1, <3>2 DEF Managed, CardsAt
    <3> QED
      BY <2>2, <3>2, <3>3 DEF CardInv, Cards
  <2>3. \A q \in ActiveClones : Identity[q] # Identity[r]
    BY <1>2, <2>1 DEF Knows, Checking
  <2>4. at'[r] = "find" => \A q \in ActiveClones : Target[q] # Target[r]
    BY <1>1, <2>2, <2>3
  <2>5. Knows(r)'
    BY <2>1, <2>2, <2>3, <2>4 DEF Knows, Checking, Settled, Managed
  <2> QED
    BY <2>1, <2>5, CardRead DEF Settled
<1>7. CASE FindCards(r)
  <2>1. /\ r \in Clones /\ job[r] = "absent" /\ at[r] = "find" /\ at'[r] = "upsert" /\ UNCHANGED <<repo, job>>
        /\ row'[r] = TheRow(CardOf(Identity[r])) /\ old'[r] = TheRow(GenericAt(Target[r]))
        /\ \A q \in Requests \ {r} : at'[q] = at[q] /\ row'[q] = row[q] /\ old'[q] = old[q]
        /\ ActiveClones' = ActiveClones /\ r \notin ActiveClones
    BY <1>7 DEF FindCards, Goto, TypeOK, Planned, ClonePlaces, Checking, RequestPlaces, ActiveClones, Active
  <2>2. row'[r] # NoRow => repo[row'[r]] # NoCard /\ repo[row'[r]].who = Identity[r]
    BY <2>1 DEF TheRow, CardOf
  <2>3. old'[r] # NoRow => /\ repo[old'[r]] # NoCard /\ repo[old'[r]].who = Local
                           /\ repo[old'[r]].at = Target[r]
    BY <2>1 DEF TheRow, GenericAt, CardsAt
  <2>4. Knows(r)
    BY <1>2, <2>1 DEF Checking
  <2>5. Knows(r)'
    BY <2>1, <2>2, <2>3, <2>4 DEF Knows, Checking, Settled, Managed
  <2> QED
    BY <2>1, <2>5, CardRead DEF Settled
<1>8. CASE NamePull(r)
  <2>1. /\ r \notin Clones /\ job[r] = "absent" /\ UNCHANGED <<repo, job, old>>
        /\ row'[r] \in Rows /\ repo[row'[r]] # NoCard
        /\ \A q \in Requests \ {r} : at'[q] = at[q] /\ row'[q] = row[q]
    BY <1>8 DEF NamePull, Goto, TypeOK, Planned
  <2> QED
    BY <2>1, CardRead
<1> QED
  BY <1>3, <1>4, <1>5, <1>6, <1>7, <1>8

\* Two requests that both keep their keys are for different repositories
\* and different directories.
LEMMA KeysApart ==
  ASSUME TypeOK, OwnKeys, Reserves, NEW q \in Clones, NEW r \in Clones, q # r,
         InRequest(q), InRequest(r), at[q] \in Keeping, at[r] \in Keeping
  PROVE  Identity[q] # Identity[r] /\ Target[q] # Target[r]
<1>1. IdKey(q) \in mine[q] /\ PathKey(q) \in mine[q] /\ IdKey(r) \in mine[r] /\ PathKey(r) \in mine[r]
  BY KeysType DEF Reserves
<1>2. /\ held[IdKey(q)] = q /\ held[PathKey(q)] = q
      /\ held[IdKey(r)] = r /\ held[PathKey(r)] = r
  BY <1>1, KeysType DEF OwnKeys
<1> QED
  BY <1>2 DEF IdKey, PathKey

LEMMA EnqueueCase ==
  ASSUME TypeOK, Planned, OwnKeys, Reserves, CardInv, NEW r \in Requests,
         at[r] = "enqueue", ~ActiveOn(row[r]), UNCHANGED <<repo, row, old>>,
         job' = [job EXCEPT ![r] = "queued"], at' = [at EXCEPT ![r] = "done"]
  PROVE  CardInv'
<1> USE KeysType, CloneRequestsAssumption
<1>1. /\ at'[r] = "done" /\ \A q \in Requests \ {r} : at'[q] = at[q] /\ job'[q] = job[q]
      /\ ActiveClones' = ActiveClones \cup (Clones \cap {r})
      /\ InRequest(r)
  BY DEF TypeOK, ActiveClones, Active, InRequest, Planned, RequestPlaces
<1>2. \A q \in Clones : CardOK(q)' <=> CardOK(q)
  BY DEF CardOK, Managed
<1>3. Named' /\ Cards'
  BY <1>1 DEF CardInv, Named, Cards, Managed, Settled
<1>4. r \in Clones => CardOK(r)
  BY <1>1 DEF CardInv, Checked, Knows, Settled
<1>5. \A q \in ActiveClones' : CardOK(q)'
  BY <1>1, <1>2, <1>4 DEF CardInv, ActiveClones
<1>6. ASSUME NEW q \in ActiveClones, r \in Clones
      PROVE  q # r /\ Target[q] # Target[r] /\ Identity[q] # Identity[r]
  <2>1. q \in Clones /\ CardOK(q) /\ CardOK(r) /\ job[q] \in Active /\ q # r
    BY <1>1, <1>4, <1>6 DEF CardInv, ActiveClones, InRequest, Active
  <2>2. row[q] # row[r]
    BY <2>1 DEF ActiveOn
  <2>3. Target[q] # Target[r]
    BY <1>6, <2>1, <2>2, OwnCard DEF CardOK
  <2>4. Identity[q] # Identity[r]
    BY <1>6, <2>1, <2>2, OwnCard DEF CardInv, Cards
  <2> QED
    BY <2>1, <2>3, <2>4
<1>7. ClonesKeepApart'
  BY <1>1, <1>6 DEF CardInv, ClonesKeepApart, ActiveClones
<1>8. ASSUME NEW p \in Clones, InRequest(p)'
      PROVE  Knows(p)'
  <2>1. p # r /\ InRequest(p) /\ at'[p] = at[p]
    BY <1>1, <1>8 DEF InRequest
  <2>2. Knows(p)
    BY <1>8, <2>1 DEF CardInv, Checked
  <2>3. CASE at[p] \in {"busy"} \cup Checking
    <3>1. r \in Clones => Identity[r] # Identity[p] /\ Target[r] # Target[p]
      BY <1>1, <1>8, <2>1, <2>3, KeysApart DEF Keeping, Settled
    <3> QED
      BY <1>1, <1>2, <1>8, <2>1, <2>2, <2>3, <3>1 DEF Knows, Managed, Checking, Settled
  <2>4. CASE at[p] \notin {"busy"} \cup Checking
    BY <1>2, <2>1, <2>2, <2>4 DEF Knows, Checking
  <2> QED
    BY <2>3, <2>4
<1> QED
  BY <1>3, <1>5, <1>7, <1>8 DEF CardInv, Checked

\* The card that a clone writes.
Chosen(r) == IF row[r] # NoRow THEN row[r] ELSE IF old[r] # NoRow THEN old[r] ELSE Identity[r]

\* The one step that writes cards.
LEMMA UpsertCase ==
  ASSUME TypeOK, Planned, OwnKeys, Reserves, CardInv, NEW r \in Requests, at[r] = "upsert",
         Pass(r, "payload"), UNCHANGED <<job, old>>,
         row[r] = NoRow => CardOf(Identity[r]) = {},
         repo' = [c \in Rows |->
                    CASE c = Chosen(r) -> [who |-> Identity[r], at |-> Target[r], status |-> "active"]
                      [] c = old[r] /\ c # Chosen(r) -> [repo[c] EXCEPT !.status = "superseded"]
                      [] OTHER -> repo[c]],
         row' = [row EXCEPT ![r] = Chosen(r)]
  PROVE  CardInv'
<1> DEFINE id == Chosen(r)
<1>0. id = IF row[r] # NoRow THEN row[r] ELSE IF old[r] # NoRow THEN old[r] ELSE Identity[r]
  BY DEF Chosen
<1> USE <1>0, KeysType, CloneRequestsAssumption
<1> DEFINE card == [who |-> Identity[r], at |-> Target[r], status |-> "active"]
<1>1. /\ r \in Clones /\ InRequest(r) /\ at'[r] = "payload" /\ row'[r] = id
      /\ \A q \in Requests \ {r} : at'[q] = at[q] /\ row'[q] = row[q]
      /\ ActiveClones' = ActiveClones /\ r \notin ActiveClones
  BY DEF Pass, TypeOK, Planned, ClonePlaces, Checking, RequestPlaces, ActiveClones, Active, InRequest
<1>2. Knows(r)
  BY <1>1 DEF CardInv, Checked
<1>3. /\ \A q \in ActiveClones : Identity[q] # Identity[r] /\ Target[q] # Target[r]
      /\ \A c \in Rows : Managed(repo, c) /\ repo[c].at = Target[r] => repo[c].who = Identity[r]
      /\ row[r] # NoRow => row[r] \in Rows /\ repo[row[r]] # NoCard /\ repo[row[r]].who = Identity[r]
      /\ old[r] # NoRow => /\ old[r] \in Rows /\ repo[old[r]] # NoCard /\ repo[old[r]].who = Local
                           /\ repo[old[r]].at = Target[r]
  BY <1>1, <1>2 DEF Knows, Checking, TypeOK
<1>4. id \in Rows
  BY <1>1, <1>3 DEF Rows
<1>5. card \in Card /\ card # NoCard
  BY <1>1 DEF Card
\* The card is the one of the identity, a discovery's, or new.
<1>6. \/ repo[id] # NoCard /\ repo[id].who = Identity[r] /\ id = row[r]
      \/ repo[id] # NoCard /\ repo[id].who = Local /\ repo[id].at = Target[r] /\ row[r] = NoRow
      \/ repo[id] = NoCard /\ id = Identity[r] /\ row[r] = NoRow
  <2>1. CASE row[r] = NoRow /\ old[r] = NoRow
    <3>1. id = Identity[r] /\ id \notin CardOf(Identity[r])
      BY <2>1
    <3>2. repo[id] # NoCard => repo[id].who = Identity[r]
      BY <1>1, <3>1 DEF CardInv, Cards
    <3> QED
      BY <1>4, <2>1, <3>1, <3>2 DEF CardOf
  <2> QED
    BY <1>3, <2>1
<1>7. ASSUME NEW c \in Rows, c # id, repo[c] # NoCard, repo[c].who = Identity[r] PROVE FALSE
  <2>1. c \in CardOf(Identity[r])
    BY <1>7 DEF CardOf
  <2>2. row[r] # NoRow /\ repo[id] # NoCard /\ repo[id].who = Identity[r]
    BY <1>3, <2>1
  <2>3. Identity[r] # Local
    BY <1>1
  <2> QED
    BY <1>4, <1>7, <2>2, <2>3 DEF CardInv, Cards
<1>8. /\ repo'[id] = card
      /\ \A c \in Rows \ {id} :
           IF c = old[r] THEN /\ repo'[c] = [repo[c] EXCEPT !.status = "superseded"] /\ repo[c] # NoCard
                              /\ repo[c].who = Local
                         ELSE repo'[c] = repo[c]
  BY <1>3, <1>4
<1>9. ASSUME NEW c \in Rows \ {id}
      PROVE  /\ repo'[c] # NoCard <=> repo[c] # NoCard
             /\ repo[c] # NoCard => repo'[c].who = repo[c].who /\ repo'[c].at = repo[c].at
             /\ Managed(repo', c) <=> Managed(repo, c)
             /\ repo[c] # NoCard /\ repo[c].who # Local => repo'[c] = repo[c]
             /\ repo[c] # NoCard /\ repo[c].at # Target[r] => repo'[c] = repo[c]
  <2>1. CASE c = old[r]
    <3>1. repo'[c] = [repo[c] EXCEPT !.status = "superseded"] /\ repo[c] \in Card
          /\ repo[c].who = Local /\ repo[c].at = Target[r]
      BY <1>3, <1>8, <2>1 DEF TypeOK
    <3>2. repo'[c] \in Card /\ repo'[c].who = Local /\ repo'[c].at = repo[c].at
      BY <3>1 DEF Card
    <3> QED
      BY <3>1, <3>2 DEF Managed
  <2> QED
    BY <1>8, <2>1 DEF Managed
<1>10. Managed(repo', id) /\ repo'[id].who = Identity[r] /\ repo'[id].at = Target[r]
  <2>1. card.who = Identity[r] /\ card.at = Target[r] /\ card.status = "active"
    OBVIOUS
  <2>2. Identity[r] # Local /\ repo'[id] = card
    BY <1>1, <1>8
  <2> HIDE DEF card, id
  <2> QED
    BY <1>5, <2>1, <2>2 DEF Managed
<1> HIDE DEF card
\* No other card in use is for the directory now.
<1>11. ASSUME NEW c \in Rows, Managed(repo', c), repo'[c].at = Target[r] PROVE c = id
  <2>1. CASE c # id
    <3>1. Managed(repo, c) /\ repo[c].at = Target[r] /\ repo[c] # NoCard
      BY <1>9, <1>11, <2>1 DEF Managed
    <3> QED
      BY <1>3, <1>7, <2>1, <3>1
  <2> QED
    BY <2>1
<1>12. ASSUME NEW q \in Clones, q # r, CardOK(q), Identity[q] # Identity[r], Target[q] # Target[r]
       PROVE  CardOK(q)'
  <2>1. row'[q] = row[q] /\ row[q] \in Rows /\ row[q] # id
    BY <1>1, <1>6, <1>12, OwnCard
  <2>2. repo'[row[q]] = repo[row[q]]
    <3>1. repo[row[q]] # NoCard /\ repo[row[q]].who # Local
      BY <1>12, OwnCard
    <3> QED
      BY <1>9, <2>1, <3>1
  <2>3. ASSUME NEW c \in Rows, Managed(repo', c), repo'[c].at = Target[q] PROVE c = row[q]
    <3>1. c # id /\ Managed(repo, c) /\ repo[c].at = Target[q]
      BY <1>9, <1>10, <1>12, <2>3 DEF Managed
    <3> QED
      BY <1>12, <3>1 DEF CardOK
  <2> QED
    BY <1>12, <2>1, <2>2, <2>3 DEF CardOK
<1>13. CardOK(r)'
  BY <1>1, <1>4, <1>8, <1>11 DEF CardOK, card
<1>14. \A q \in ActiveClones' : CardOK(q)'
  BY <1>1, <1>3, <1>12 DEF CardInv, ActiveClones
<1>15. Named'
  <2>1. \A c \in Rows : repo[c] # NoCard => repo'[c] # NoCard
    BY <1>5, <1>8, <1>9
  <2> QED
    BY <1>1, <1>4, <1>5, <1>8, <2>1 DEF CardInv, Named
<1>16. Cards'
  <2>1. ASSUME NEW c \in Rows, NEW d \in Rows, repo'[c] # NoCard, repo'[d] # NoCard,
               repo'[c].who = repo'[d].who, repo'[c].who # Local
        PROVE  c = d
    <3>1. CASE c # id /\ d # id
      <4>1. repo[c] # NoCard /\ repo[d] # NoCard /\ repo[c].who = repo[d].who /\ repo[c].who # Local
        BY <1>9, <2>1, <3>1
      <4> QED
        BY <4>1 DEF CardInv, Cards
    <3>2. CASE c = id /\ d # id
      <4>1. repo[d] # NoCard /\ repo[d].who = Identity[r]
        BY <1>9, <1>10, <2>1, <3>2
      <4> QED
        BY <1>7, <3>2, <4>1
    <3>3. CASE c # id /\ d = id
      <4>1. repo[c] # NoCard /\ repo[c].who = Identity[r]
        BY <1>9, <1>10, <2>1, <3>3
      <4> QED
        BY <1>7, <3>3, <4>1
    <3> QED
      BY <3>1, <3>2, <3>3
  <2>2. ASSUME NEW c \in Rows, NEW d \in Rows, Managed(repo', c), Managed(repo', d), repo'[c].at = repo'[d].at
        PROVE  c = d
    <3>1. CASE c # id /\ d # id
      <4>1. Managed(repo, c) /\ Managed(repo, d) /\ repo[c].at = repo[d].at
        BY <1>9, <2>2, <3>1 DEF Managed
      <4> QED
        BY <4>1 DEF CardInv, Cards
    <3>2. CASE c = id \/ d = id
      BY <1>10, <1>11, <2>2, <3>2
    <3> QED
      BY <3>1, <3>2
  <2>3. ASSUME NEW i \in Identities, repo'[i] # NoCard PROVE repo'[i].who = i
    <3>1. i \in Rows
      BY DEF Rows
    <3>2. CASE i # id
      BY <1>9, <2>3, <3>1, <3>2 DEF CardInv, Cards
    <3>3. CASE i = id
      <4>1. repo[i] # NoCard => repo[i].who = i
        BY <2>3 DEF CardInv, Cards
      <4> QED
        BY <1>6, <1>10, <3>3, <4>1
    <3> QED
      BY <3>2, <3>3
  <2> QED
    BY <2>1, <2>2, <2>3 DEF Cards
<1>17. ASSUME NEW q \in Clones \ {r}, InRequest(q)'
       PROVE  Knows(q)'
  <2>1. InRequest(q) /\ Knows(q) /\ at'[q] = at[q] /\ row'[q] = row[q] /\ old'[q] = old[q]
    BY <1>1, <1>17 DEF CardInv, Checked, InRequest
  <2>2. at[q] \in Keeping => Identity[q] # Identity[r] /\ Target[q] # Target[r]
    BY <1>1, <2>1, KeysApart DEF Keeping, Checking
  <2>3. at[q] \in Settled => CardOK(q)'
    BY <1>12, <2>1, <2>2 DEF Knows, Keeping
  <2>4. ASSUME at[q] \in {"find", "upsert"}, NEW c \in Rows, Managed(repo', c), repo'[c].at = Target[q]
        PROVE  repo'[c].who = Identity[q]
    <3>1. c # id /\ Managed(repo, c) /\ repo[c].at = Target[q] /\ repo[c] # NoCard
      BY <1>9, <1>10, <2>2, <2>4 DEF Managed, Keeping, Checking
    <3> QED
      BY <1>9, <2>1, <2>4, <3>1 DEF Knows
  <2>5. ASSUME at[q] = "upsert", row[q] # NoRow
        PROVE  repo'[row[q]] # NoCard /\ repo'[row[q]].who = Identity[q]
    <3>1. row[q] \in Rows /\ repo[row[q]] # NoCard /\ repo[row[q]].who = Identity[q]
      BY <2>1, <2>5 DEF Knows, TypeOK
    <3>2. row[q] # id
      BY <1>6, <2>2, <2>5, <3>1 DEF Keeping, Checking
    <3> QED
      BY <1>9, <3>1, <3>2
  <2>6. ASSUME at[q] = "upsert", old[q] # NoRow
        PROVE  repo'[old[q]] # NoCard /\ repo'[old[q]].who = Local /\ repo'[old[q]].at = Target[q]
    <3>1. /\ old[q] \in Rows /\ repo[old[q]] # NoCard /\ repo[old[q]].who = Local
          /\ repo[old[q]].at = Target[q]
      BY <2>1, <2>6 DEF Knows, TypeOK
    <3>2. old[q] # id
      BY <1>1, <1>6, <2>2, <2>6, <3>1 DEF Keeping, Checking
    <3> QED
      BY <1>9, <3>1, <3>2
  <2>7. \A p \in ActiveClones : p # r /\ row'[p] = row[p]
    BY <1>1 DEF ActiveClones
  <2>8. at'[q] = "busy" => \A p \in ActiveClones' : Identity[p] = Identity[q] => row'[p] = row'[q]
    BY <1>1, <2>1, <2>7 DEF Knows
  <2>9. /\ at'[q] \in Checking => \A p \in ActiveClones' : Identity[p] # Identity[q]
        /\ at'[q] \in {"find", "upsert"} => \A p \in ActiveClones' : Target[p] # Target[q]
    BY <1>1, <2>1 DEF Knows
  <2>10. at'[q] \in {"find", "upsert"} =>
           \A c \in Rows : Managed(repo', c) /\ repo'[c].at = Target[q] => repo'[c].who = Identity[q]
    BY <2>1, <2>4
  <2>11. at'[q] = "upsert" =>
           /\ row'[q] # NoRow => repo'[row'[q]] # NoCard /\ repo'[row'[q]].who = Identity[q]
           /\ old'[q] # NoRow => /\ repo'[old'[q]] # NoCard /\ repo'[old'[q]].who = Local
                                 /\ repo'[old'[q]].at = Target[q]
    BY <2>1, <2>5, <2>6
  <2> QED
    BY <2>1, <2>3, <2>8, <2>9, <2>10, <2>11 DEF Knows
<1>18. Knows(r)'
  BY <1>1, <1>13 DEF Knows, Checking
<1>19. ClonesKeepApart'
  BY <1>1 DEF CardInv, ClonesKeepApart
<1> QED
  BY <1>14, <1>15, <1>16, <1>17, <1>18, <1>19 DEF CardInv, Checked

LEMMA CardStep ==
  TypeOK /\ Planned /\ OwnKeys /\ Reserves /\ CardInv /\ [Next]_vars => CardInv'
<1> SUFFICES ASSUME TypeOK, Planned, OwnKeys, Reserves, CardInv, [Next]_vars PROVE CardInv'
  OBVIOUS
<1>1. ASSUME NEW r \in Requests,
             ExpireKeys(r) \/ ReserveKey(r) \/ Refresh(r) \/ ReleaseKey(r) \/ Released(r)
             \/ RequestStep(r) \/ HandlerStep(r)
      PROVE  CardInv'
  <2> USE DEF regVars, jobVars, readVars, TypeOK, Quiet, Checking, Settled
  <2>1. CASE ReserveKey(r) \/ Refresh(r)
    <3>1. CASE HaveKey(r, Head(want[r])) /\ UNCHANGED <<repo, row, old, job>>
      <4>1. Reserved(r) \in {"inspect", "root", "swap", "existing"}
        BY DEF Reserved
      <4>2. Quiet(r)
        BY <1>1, <3>1, <4>1 DEF HaveKey
      <4> QED
        BY <1>1, <4>2, CardQuiet
    <3>2. CASE (\E x \in {"refresh", "release"} : at' = [at EXCEPT ![r] = x]) /\ UNCHANGED <<repo, row, old, job>>
      <4>1. Quiet(r)
        BY <1>1, <3>2
      <4> QED
        BY <1>1, <4>1, CardQuiet
    <3> QED
      BY <2>1, <3>1, <3>2 DEF ReserveKey, Refresh, Pass, Conclude
  <2>2. CASE ExpireKeys(r) \/ ReleaseKey(r) \/ Released(r) \/ Reject(r) \/ Preview(r) \/ CreateRoot(r)
             \/ SwapKey(r) \/ RequestFails(r) \/ Vanish(r)
    <3>1. Quiet(r)
      BY <1>1, <2>2 DEF ExpireKeys, ReleaseKey, Released, Reject, Preview, CreateRoot, SwapKey,
         RequestFails, Vanish, Goto, Conclude
    <3> QED
      BY <1>1, <3>1, CardQuiet
  <2>3. CASE Replay(r) \/ ReplayPayload(r) \/ CheckBusy(r, "active", "enqueue")
    <3>1. Quiet(r)
      BY <1>1, <2>3 DEF Replay, ReplayPayload, CheckBusy, GiveEarlier, GiveJob, Pass, Conclude
    <3> QED
      BY <1>1, <3>1, CardQuiet
  <2>4. CASE \/ FindExisting(r) \/ CheckBusy(r, "busy", "queuedClones")
             \/ CheckClones(r, "queuedClones", "queued", "runningClones")
             \/ CheckClones(r, "runningClones", "running", "assigned")
             \/ CheckAssigned(r) \/ FindCards(r) \/ NamePull(r)
    BY <1>1, <2>4, ReadCases
  <2>5. CASE UpsertCard(r)
    <3>1. CASE Conclude(r, "refused") /\ UNCHANGED <<repo, created, row>>
      <4>1. Quiet(r)
        BY <1>1, <2>5, <3>1 DEF UpsertCard, Conclude
      <4> QED
        BY <1>1, <4>1, CardQuiet
    <3>2. CASE /\ row[r] = NoRow => CardOf(Identity[r]) = {}
               /\ Pass(r, "payload") /\ row' = [row EXCEPT ![r] = Chosen(r)]
               /\ repo' = [c \in Rows |->
                    CASE c = Chosen(r) -> [who |-> Identity[r], at |-> Target[r], status |-> "active"]
                      [] c = old[r] /\ c # Chosen(r) -> [repo[c] EXCEPT !.status = "superseded"]
                      [] OTHER -> repo[c]]
      <4>1. at[r] = "upsert" /\ UNCHANGED <<job, old>>
        BY <2>5 DEF UpsertCard
      <4> QED
        BY <1>1, <3>2, <4>1, UpsertCase
    <3> QED
      BY <2>5, <3>1, <3>2 DEF UpsertCard, Chosen
  <2>6. CASE Enqueue(r)
    <3>1. CASE ~ActiveOn(row[r]) /\ job' = [job EXCEPT ![r] = "queued"] /\ at' = [at EXCEPT ![r] = "done"]
      BY <1>1, <2>6, <3>1, EnqueueCase DEF Enqueue
    <3>2. CASE at' = [at EXCEPT ![r] = "release"] /\ UNCHANGED <<job, mine>>
      <4>1. Quiet(r)
        BY <1>1, <2>6, <3>2 DEF Enqueue
      <4> QED
        BY <1>1, <4>1, CardQuiet
    <3> QED
      BY <2>6, <3>1, <3>2 DEF Enqueue, GiveEarlier, GiveJob, Conclude
  <2>7. CASE HandlerStep(r)
    <3>1. CASE Claim(r) \/ Invalid(r) \/ BeginClone(r) \/ BeginPull(r) \/ Inspect(r) \/ Unavailable(r)
      <4>1. Quiet(r)
        BY <1>1, <3>1 DEF Claim, Invalid, BeginClone, BeginPull, Inspect, Unavailable, Goto, Pass,
           Conclude, Active
      <4> QED
        BY <1>1, <4>1, CardQuiet
    <3>2. CASE GitClone(r) \/ GitCloneFails(r) \/ GitPull(r) \/ GitPullFails(r) \/ Touch(r) \/ ReleaseFails(r)
      <4>1. Quiet(r)
        BY <1>1, <3>2 DEF GitClone, GitCloneFails, GitPull, GitPullFails, Touch, ReleaseFails, Goto,
           Conclude
      <4> QED
        BY <1>1, <4>1, CardQuiet
    <3>3. CASE Settle(r) \/ Die(r) \/ Recover(r)
      <4>1. at[r] \in {"settle", "dead"} => job[r] = "running"
        BY <1>1 DEF Planned, HandlerPlaces
      <4>2. Quiet(r)
        BY <1>1, <3>3, <4>1 DEF Settle, Die, Recover, Requeued, Goto, Active
      <4> QED
        BY <1>1, <4>2, CardQuiet
    <3> QED
      BY <2>7, <3>1, <3>2, <3>3 DEF HandlerStep
  <2> QED
    BY <1>1, <2>1, <2>2, <2>3, <2>4, <2>5, <2>6, <2>7 DEF RequestStep
<1>2. ASSUME UNCHANGED <<repo, job, at, row, old>>
      PROVE  CardInv'
  BY <1>2 DEF CardInv, Named, Cards, Checked, Knows, CardOK, Managed, ActiveClones, ClonesKeepApart, InRequest
<1> QED
  BY <1>1, <1>2 DEF Next, Lapse, vars, readVars, jobVars

-----------------------------------------------------------------------------
(* The handlers at work *)

\* A card that discovery made bears the name of its directory.
LocalCards == \A c \in Rows : repo[c] # NoCard /\ repo[c].who = Local => c = repo[c].at

\* The unique index of active operations.
OneJobPerCard ==
  \A q, r \in Requests : job[q] \in Active /\ job[r] \in Active /\ row[q] = row[r] => q = r

\* A handler in a directory for which discovery has no card finds there what
\* its own card says: the repository, or its own unfinished clone of it.
AtWork(r) == at[r] \in {"clone", "pull"} /\ repo[dir[r]] = NoCard

Finds(r) ==
  /\ repo[row[r]].who # Local
  /\ HasRemote(dir[r], repo[row[r]].who)
  /\ at[r] = "clone" => disk[dir[r]] = Part(repo[row[r]].who)

Writers == \A r \in Requests : AtWork(r) => Finds(r)

\* A request that was not made has no answer.
Unanswered == \A r \in Requests : at[r] = "new" => ref[r] = Nobody

\* What no step does to a card: remove it, give a repository's to another, or
\* make one for discovery.
CardsGrow ==
  \A c \in Rows :
    /\ repo[c] # NoCard => /\ repo'[c] # NoCard
                           /\ repo[c].who # Local => repo'[c].who = repo[c].who
    /\ repo'[c] # NoCard /\ repo'[c].who = Local =>
         repo[c] # NoCard /\ repo[c].who = Local /\ repo'[c].at = repo[c].at
    /\ c \in Targets /\ repo[c] = NoCard => repo'[c] = NoCard

\* A job remains, and so does the card it is for.
JobsStay == \A q \in Requests : job[q] # "absent" => job'[q] # "absent" /\ row'[q] = row[q]

\* A step of r is no step of another request or handler.
Alone(r) ==
  \A q \in Requests \ {r} :
    /\ at'[q] = at[q] /\ job'[q] = job[q] /\ row'[q] = row[q] /\ dir'[q] = dir[q]
    /\ answer'[q] = answer[q] /\ ref'[q] = ref[q]

LEMMA GrowStep ==
  ASSUME TypeOK, Planned, CardInv, NEW r \in Requests, UpsertCard(r)
  PROVE  CardsGrow
<1> DEFINE id == Chosen(r)
           card == [who |-> Identity[r], at |-> Target[r], status |-> "active"]
<1>1. CASE UNCHANGED repo
  BY <1>1 DEF CardsGrow
<1>2. CASE /\ row[r] = NoRow => CardOf(Identity[r]) = {}
           /\ repo' = [c \in Rows |->
                CASE c = id -> card
                  [] c = old[r] /\ c # id -> [repo[c] EXCEPT !.status = "superseded"]
                  [] OTHER -> repo[c]]
  <2>1. r \in Clones /\ InRequest(r) /\ at[r] = "upsert"
    BY DEF UpsertCard, Planned, ClonePlaces, Checking, RequestPlaces, InRequest
  <2>2. /\ row[r] # NoRow => row[r] \in Rows /\ repo[row[r]] # NoCard /\ repo[row[r]].who = Identity[r]
        /\ old[r] # NoRow => old[r] \in Rows /\ repo[old[r]] # NoCard /\ repo[old[r]].who = Local
    BY <2>1 DEF CardInv, Checked, Knows, TypeOK
  <2>3. /\ Identity[r] \in Identities /\ Identity[r] # Local /\ Identity[r] \notin Targets
        /\ id \in Rows /\ NoRow \notin Rows
    BY <2>1, <2>2, KeysType, CloneRequestsAssumption DEF Rows, Chosen
  <2>4. card \in Card /\ card # NoCard /\ card.who = Identity[r]
    BY <2>1, KeysType, CloneRequestsAssumption DEF Card
  <2>5. repo[id] # NoCard /\ repo[id].who # Local => repo[id].who = Identity[r]
    <3>1. CASE row[r] # NoRow \/ old[r] # NoRow
      BY <2>2, <3>1 DEF Chosen
    <3>2. CASE row[r] = NoRow /\ old[r] = NoRow
      BY <2>3, <3>2 DEF Chosen, CardInv, Cards
    <3> QED
      BY <3>1, <3>2
  <2>6. id \in Targets => repo[id] # NoCard
    BY <2>2, <2>3 DEF Chosen
  <2>7. repo'[id] = card
    BY <1>2, <2>3
  <2>8. ASSUME NEW c \in Rows \ {id}
        PROVE  \/ repo'[c] = repo[c]
               \/ /\ repo[c] # NoCard /\ repo'[c] # NoCard /\ repo[c].who = Local
                  /\ repo'[c].who = Local /\ repo'[c].at = repo[c].at
    <3>1. CASE c = old[r]
      <4>1. repo'[c] = [repo[c] EXCEPT !.status = "superseded"] /\ repo[c] \in Card /\ repo[c].who = Local
        BY <1>2, <2>2, <2>3, <3>1 DEF TypeOK
      <4>2. repo'[c] \in Card /\ repo'[c].who = repo[c].who /\ repo'[c].at = repo[c].at
        BY <4>1 DEF Card
      <4> QED
        BY <4>1, <4>2, CloneRequestsAssumption
    <3>2. CASE c # old[r]
      BY <1>2, <3>2
    <3> QED
      BY <3>1, <3>2
  <2> HIDE DEF id, card
  <2> QED
    BY <2>3, <2>4, <2>5, <2>6, <2>7, <2>8 DEF CardsGrow
<1> QED
  BY <1>1, <1>2 DEF UpsertCard, Chosen

\* What every step leaves alone.
LEMMA AloneStep ==
  ASSUME TypeOK, Planned, CardInv, NEW r \in Requests,
         ExpireKeys(r) \/ ReserveKey(r) \/ Refresh(r) \/ ReleaseKey(r) \/ Released(r)
         \/ RequestStep(r) \/ HandlerStep(r)
  PROVE  Alone(r) /\ CardsGrow /\ JobsStay
<1> USE DEF TypeOK, Planned, RequestPlaces, HandlerPlaces, regVars, jobVars, readVars,
            Alone, JobsStay, Goto, Pass, Conclude, GiveJob
<1>0. UNCHANGED repo => CardsGrow
  BY DEF CardsGrow
<1>1. CASE ExpireKeys(r) \/ ReserveKey(r) \/ Refresh(r) \/ ReleaseKey(r) \/ Released(r)
  BY <1>0, <1>1 DEF ExpireKeys, ReserveKey, Refresh, ReleaseKey, Released, HaveKey
<1>2. CASE \/ Reject(r) \/ Preview(r) \/ Replay(r) \/ CreateRoot(r) \/ SwapKey(r)
           \/ RequestFails(r) \/ Vanish(r)
  BY <1>0, <1>2 DEF Reject, Preview, Replay, CreateRoot, SwapKey, RequestFails, Vanish
<1>3. CASE \/ CheckBusy(r, "busy", "queuedClones")
           \/ CheckClones(r, "queuedClones", "queued", "runningClones")
           \/ CheckClones(r, "runningClones", "running", "assigned")
           \/ CheckBusy(r, "active", "enqueue") \/ CheckAssigned(r)
  BY <1>0, <1>3 DEF CheckBusy, CheckClones, CheckAssigned
<1>4. CASE FindExisting(r) \/ FindCards(r) \/ NamePull(r)
  BY <1>0, <1>4 DEF FindExisting, FindCards, NamePull
<1>5. CASE UpsertCard(r)
  <2>1. Alone(r) /\ JobsStay
    BY <1>5 DEF UpsertCard
  <2> QED
    BY <1>5, <2>1, GrowStep
<1>6. CASE ReplayPayload(r) \/ Enqueue(r)
  BY <1>0, <1>6 DEF ReplayPayload, Enqueue, GiveEarlier
<1>7. CASE Claim(r) \/ Invalid(r) \/ BeginClone(r) \/ BeginPull(r) \/ Inspect(r) \/ Unavailable(r)
  BY <1>0, <1>7 DEF Claim, Invalid, BeginClone, BeginPull, Inspect, Unavailable
<1>8. CASE GitClone(r) \/ GitCloneFails(r) \/ GitPull(r) \/ GitPullFails(r) \/ Touch(r)
  BY <1>0, <1>8 DEF GitClone, GitCloneFails, GitPull, GitPullFails, Touch
<1>9. CASE ReleaseFails(r) \/ Settle(r) \/ Die(r) \/ Recover(r)
  BY <1>0, <1>9 DEF ReleaseFails, Settle, Die, Recover, Requeued
<1> QED
  BY <1>1, <1>2, <1>3, <1>4, <1>5, <1>6, <1>7, <1>8, <1>9 DEF RequestStep, HandlerStep


LEMMA LocalStep ==
  ASSUME LocalCards, CardsGrow
  PROVE  LocalCards'
BY DEF LocalCards, CardsGrow

\* What becomes active has been found to be alone on its card.
LEMMA ActiveStep ==
  ASSUME TypeOK, Planned, NEW r \in Requests, job'[r] \in Active,
         ExpireKeys(r) \/ ReserveKey(r) \/ Refresh(r) \/ ReleaseKey(r) \/ Released(r)
         \/ RequestStep(r) \/ HandlerStep(r)
  PROVE  job[r] \in Active \/ (~ActiveOn(row[r]) /\ row'[r] = row[r])
<1> USE DEF TypeOK, Planned, RequestPlaces, HandlerPlaces, Active, regVars, jobVars, readVars,
            Goto, Pass, Conclude, GiveJob
<1>1. CASE ExpireKeys(r) \/ ReserveKey(r) \/ Refresh(r) \/ ReleaseKey(r) \/ Released(r)
  BY <1>1 DEF ExpireKeys, ReserveKey, Refresh, ReleaseKey, Released
<1>2. CASE RequestStep(r) /\ ~Enqueue(r)
  BY <1>2 DEF RequestStep, Reject, Preview, Replay, CreateRoot, SwapKey, FindExisting, CheckBusy,
     CheckClones, CheckAssigned, FindCards, UpsertCard, NamePull, ReplayPayload, RequestFails, Vanish
<1>3. CASE Enqueue(r)
  BY <1>3 DEF Enqueue
<1>4. CASE HandlerStep(r)
  BY <1>4 DEF HandlerStep, Claim, Invalid, BeginClone, BeginPull, Inspect, Unavailable, GitClone,
     GitCloneFails, GitPull, GitPullFails, Touch, ReleaseFails, Settle, Die, Recover, Requeued
<1> QED
  BY <1>1, <1>2, <1>3, <1>4

LEMMA OneJobStep ==
  ASSUME TypeOK, Planned, OneJobPerCard, NEW r \in Requests, Alone(r), JobsStay,
         ExpireKeys(r) \/ ReserveKey(r) \/ Refresh(r) \/ ReleaseKey(r) \/ Released(r)
         \/ RequestStep(r) \/ HandlerStep(r)
  PROVE  OneJobPerCard'
<1>1. ASSUME NEW p \in Requests, job[p] \in Active PROVE row'[p] = row[p]
  BY <1>1 DEF JobsStay, Active
<1>2. \A p \in Requests \ {r} : job'[p] \in Active => job[p] \in Active
  BY DEF Alone
<1>3. job'[r] \in Active => job[r] \in Active \/ (~ActiveOn(row[r]) /\ row'[r] = row[r])
  BY ActiveStep
<1> SUFFICES ASSUME NEW p \in Requests, NEW q \in Requests, p # q,
                    job'[p] \in Active, job'[q] \in Active, row'[p] = row'[q]
             PROVE  FALSE
  BY DEF OneJobPerCard
<1>4. CASE job[p] \in Active /\ job[q] \in Active
  BY <1>1, <1>4 DEF OneJobPerCard
<1>5. CASE job[p] \notin Active
  BY <1>1, <1>2, <1>3, <1>5 DEF ActiveOn
<1>6. CASE job[q] \notin Active
  BY <1>1, <1>2, <1>3, <1>6 DEF ActiveOn
<1> QED
  BY <1>4, <1>5, <1>6

LEMMA DiskStates ==
  ASSUME NEW i \in Identities, NEW j \in Identities
  PROVE  /\ Whole(i) = Whole(j) => i = j
         /\ Part(i) = Part(j) => i = j
         /\ Whole(i) # Part(j) /\ Part(i) # Files /\ Whole(i) # Files
         /\ Empty # Whole(i) /\ Empty # Part(i)
BY CloneRequestsAssumption DEF Whole, Part, Files, Empty

LEMMA WhoType ==
  ASSUME TypeOK, NEW c \in Rows, repo[c] # NoCard
  PROVE  repo[c] \in Card /\ (repo[c].who # Local => repo[c].who \in Identities)
BY DEF TypeOK, Card

\* Two handlers at work in one directory would have the same card.
LEMMA WritersApart ==
  ASSUME TypeOK, Planned, CardInv, OneJobPerCard, Writers, NEW q \in Requests, NEW r \in Requests,
         AtWork(q), AtWork(r), dir[q] = dir[r]
  PROVE  q = r
<1>1. Finds(q) /\ Finds(r) /\ job[q] = "running" /\ job[r] = "running"
  BY DEF Writers, AtWork, Planned, HandlerPlaces
<1>2. /\ row[q] \in Rows /\ repo[row[q]] # NoCard
      /\ row[r] \in Rows /\ repo[row[r]] # NoCard
  BY <1>1 DEF CardInv, Named
<1> DEFINE i == repo[row[q]].who
           j == repo[row[r]].who
<1>3. i \in Identities /\ j \in Identities /\ i # Local
  BY <1>1, <1>2, WhoType DEF Finds
<1>4. disk[dir[r]] \in {Whole(i), Part(i)} /\ disk[dir[r]] \in {Whole(j), Part(j)}
  BY <1>1 DEF Finds, HasRemote
<1> HIDE DEF i, j
<1>5. i = j
  BY <1>3, <1>4, DiskStates
<1>6. row[q] = row[r]
  BY <1>2, <1>3, <1>5 DEF CardInv, Cards, i, j
<1> QED
  BY <1>1, <1>6 DEF OneJobPerCard, Active

\* A step of a handler in a directory, for the others.
LEMMA WritersKeep ==
  ASSUME TypeOK, Planned, CardInv, OneJobPerCard, Writers, NEW r \in Requests,
         Alone(r), CardsGrow, JobsStay,
         \/ disk' = disk
         \/ /\ \/ at[r] = "inspect" /\ disk[dir[r]] = Empty
               \/ at[r] \in {"clone", "pull"}
            /\ \E x \in {Empty, Files} \cup (Identities \X BOOLEAN) : disk' = [disk EXCEPT ![dir[r]] = x],
         AtWork(r)' => Finds(r)'
  PROVE  Writers'
<1> SUFFICES ASSUME NEW q \in Requests \ {r}, AtWork(q)' PROVE Finds(q)'
  BY DEF Writers
<1>1. /\ at'[q] = at[q] /\ dir'[q] = dir[q] /\ job[q] = "running" /\ row'[q] = row[q]
      /\ row[q] \in Rows /\ repo[row[q]] # NoCard /\ dir[q] \in Targets /\ dir[q] \in Rows
  BY DEF AtWork, Alone, Planned, HandlerPlaces, CardInv, Named, TypeOK, Rows
<1>2. AtWork(q) /\ Finds(q)
  BY <1>1 DEF AtWork, CardsGrow, Writers
<1>3. repo'[row[q]].who = repo[row[q]].who /\ repo[row[q]].who \in Identities
  BY <1>1, <1>2, WhoType DEF CardsGrow, Finds
<1>4. disk'[dir[q]] = disk[dir[q]]
  <2>1. CASE dir[r] # dir[q]
    BY <1>1, <2>1 DEF TypeOK
  <2>2. CASE dir[r] = dir[q] /\ at[r] \in {"clone", "pull"}
    BY <1>1, <1>2, <2>2, WritersApart DEF AtWork
  <2>3. CASE dir[r] = dir[q] /\ disk[dir[r]] = Empty
    BY <1>2, <1>3, <2>3, DiskStates DEF Finds, HasRemote
  <2>4. CASE disk' = disk
    BY <2>4
  <2> QED
    BY <2>1, <2>2, <2>3, <2>4
<1> QED
  BY <1>1, <1>2, <1>3, <1>4 DEF Finds, HasRemote

LEMMA BeginsWork ==
  ASSUME TypeOK, Planned, CardInv, LocalCards, NEW r \in Requests,
         Inspect(r) \/ BeginPull(r), AtWork(r)'
  PROVE  Finds(r)'
<1> USE DEF TypeOK
<1>1. CASE BeginPull(r)
  <2> DEFINE card == repo[row[r]]
  <2>1. row[r] \in Rows /\ card # NoCard /\ card \in Card /\ card.at \in Targets
    BY <1>1 DEF BeginPull, Goto, Planned, HandlerPlaces, CardInv, Named, Card
  <2>2. /\ at'[r] = "pull" /\ dir'[r] = card.at /\ repo' = repo /\ disk' = disk /\ row' = row
        /\ card.who = Local \/ HasRemote(card.at, card.who)
    BY <1>1 DEF BeginPull, Goto
  <2>3. card.who # Local
    BY <2>1, <2>2 DEF AtWork, LocalCards
  <2> QED
    BY <2>2, <2>3 DEF Finds, HasRemote
<1>2. CASE Inspect(r)
  <2>1. /\ r \in Clones /\ r \in ActiveClones
        /\ UNCHANGED <<repo, row, dir>>
        /\ \/ at'[r] = "clone" /\ disk'[dir[r]] = Part(Identity[r])
           \/ at'[r] = "pull" /\ HasRemote(dir[r], Identity[r]) /\ disk' = disk
    BY <1>2 DEF Inspect, Pass, Conclude, Planned, ClonePlaces, HandlerPlaces, ActiveClones, Active,
       AtWork, readVars
  <2>2. repo[row[r]].who = Identity[r] /\ Identity[r] # Local
    BY <2>1, OwnCard, KeysType, CloneRequestsAssumption DEF CardInv
  <2> QED
    BY <2>1, <2>2 DEF Finds, HasRemote
<1> QED
  BY <1>1, <1>2

LEMMA WritersStep ==
  ASSUME TypeOK, Planned, CardInv, LocalCards, OneJobPerCard, Writers, NEW r \in Requests,
         Alone(r), CardsGrow, JobsStay,
         ExpireKeys(r) \/ ReserveKey(r) \/ Refresh(r) \/ ReleaseKey(r) \/ Released(r)
         \/ RequestStep(r) \/ HandlerStep(r)
  PROVE  Writers'
<1> USE DEF regVars, jobVars, readVars, Goto, Pass, Conclude, GiveJob
<1>1. CASE ExpireKeys(r) \/ ReserveKey(r) \/ Refresh(r) \/ ReleaseKey(r) \/ Released(r)
  <2>1. disk' = disk /\ at'[r] \notin {"clone", "pull"}
    BY <1>1 DEF ExpireKeys, ReserveKey, Refresh, ReleaseKey, Released, HaveKey, Reserved, TypeOK
  <2> QED
    BY <2>1, WritersKeep DEF AtWork
<1>2. CASE RequestStep(r)
  <2>1. disk' = disk /\ at'[r] \notin {"clone", "pull"}
    BY <1>2 DEF RequestStep, Reject, Preview, Replay, CreateRoot, SwapKey, FindExisting, CheckBusy,
       CheckClones, CheckAssigned, FindCards, UpsertCard, NamePull, ReplayPayload, GiveEarlier,
       Enqueue, RequestFails, Vanish, TypeOK
  <2> QED
    BY <2>1, WritersKeep DEF AtWork
<1>3. CASE \/ Claim(r) \/ Invalid(r) \/ BeginClone(r) \/ Unavailable(r) \/ GitPullFails(r) \/ Touch(r)
           \/ ReleaseFails(r) \/ Settle(r) \/ Die(r) \/ Recover(r)
  <2>1. disk' = disk /\ at'[r] \notin {"clone", "pull"}
    BY <1>3 DEF Claim, Invalid, BeginClone, Unavailable, GitPullFails, Touch, ReleaseFails, Settle,
       Die, Recover, TypeOK
  <2> QED
    BY <2>1, WritersKeep DEF AtWork
<1>4. CASE BeginPull(r)
  <2>1. disk' = disk
    BY <1>4 DEF BeginPull
  <2> QED
    BY <1>4, <2>1, WritersKeep, BeginsWork
<1>5. CASE Inspect(r)
  <2>1. /\ at[r] = "inspect" /\ Part(Identity[r]) \in Identities \X BOOLEAN
        /\ \/ disk' = disk
           \/ disk[dir[r]] = Empty /\ disk' = [disk EXCEPT ![dir[r]] = Part(Identity[r])]
    BY <1>5, KeysType, DiskType DEF Inspect, Planned, ClonePlaces
  <2>2. AtWork(r)' => Finds(r)'
    BY <1>5, BeginsWork
  <2> QED
    BY <2>1, <2>2, WritersKeep
<1>6. CASE GitClone(r) \/ GitCloneFails(r) \/ GitPull(r)
  <2>1. /\ at[r] \in {"clone", "pull"} /\ at'[r] \notin {"clone", "pull"}
        /\ \E x \in {Empty, Files} \cup (Identities \X BOOLEAN) : disk' = [disk EXCEPT ![dir[r]] = x]
    <3>1. CASE GitClone(r)
      BY <1>6, <3>1, KeysType, DiskType DEF GitClone, Planned, ClonePlaces, TypeOK
    <3>2. CASE GitCloneFails(r)
      BY <1>6, <3>2 DEF GitCloneFails, TypeOK
    <3>3. CASE GitPull(r)
      BY <1>6, <3>3, DiskType DEF GitPull, TypeOK
    <3> QED
      BY <1>6, <3>1, <3>2, <3>3
  <2> QED
    BY <2>1, WritersKeep DEF AtWork
<1> QED
  BY <1>1, <1>2, <1>3, <1>4, <1>5, <1>6 DEF HandlerStep


Answers == AcceptedTruthfully /\ Unanswered

\* The answers of all others stay what they were.
LEMMA AnswersKeep ==
  ASSUME TypeOK, Answers, NEW r \in Requests, Alone(r), JobsStay,
         at'[r] # "new",
         r \notin Clones /\ at[r] # "new" => row'[r] = row[r],
         \/ ref'[r] = ref[r] /\ (answer'[r] = "accepted" => answer[r] = "accepted")
         \/ \E q \in Requests : ref'[r] = q /\ job'[q] # "absent" /\ SameOperation(q, r)
                                /\ row'[q] = row[q] /\ row'[r] = row[r]
  PROVE  Answers'
<1>1. \A q \in Requests : at[q] # "new" /\ q \notin Clones => row'[q] = row[q]
  BY DEF Alone
<1>2. ASSUME NEW p \in Requests, ref'[p] = ref[p], answer'[p] = "accepted" => answer[p] = "accepted"
      PROVE  /\ answer'[p] = "accepted" => ref'[p] # Nobody
             /\ ref'[p] # Nobody => job'[ref'[p]] # "absent" /\ SameOperation(ref[p], p)'
  <2>1. /\ answer[p] = "accepted" => ref[p] # Nobody
        /\ ref[p] # Nobody => /\ ref[p] \in Requests /\ at[p] # "new"
                              /\ job[ref[p]] # "absent" /\ SameOperation(ref[p], p)
    BY DEF Answers, AcceptedTruthfully, Unanswered, TypeOK
  <2>2. ASSUME ref[p] # Nobody PROVE job'[ref[p]] # "absent" /\ row'[ref[p]] = row[ref[p]]
    BY <2>1, <2>2 DEF JobsStay
  <2> QED
    BY <1>1, <1>2, <2>1, <2>2 DEF SameOperation, SameClone
<1>3. ASSUME NEW p \in Requests
      PROVE  /\ answer'[p] = "accepted" => ref'[p] # Nobody
             /\ ref'[p] # Nobody => job'[ref'[p]] # "absent" /\ SameOperation(ref[p], p)'
  <2>1. CASE p # r
    BY <1>2, <2>1 DEF Alone
  <2>2. CASE p = r /\ ref'[r] = ref[r] /\ (answer'[r] = "accepted" => answer[r] = "accepted")
    BY <1>2, <2>2
  <2>3. ASSUME p = r, NEW q \in Requests, ref'[r] = q, job'[q] # "absent", SameOperation(q, r),
               row'[q] = row[q], row'[r] = row[r]
        PROVE  /\ answer'[p] = "accepted" => ref'[p] # Nobody
               /\ ref'[p] # Nobody => job'[ref'[p]] # "absent" /\ SameOperation(ref[p], p)'
    BY <2>3, CloneRequestsAssumption DEF SameOperation, SameClone
  <2> QED
    BY <2>1, <2>2, <2>3
<1>4. Unanswered'
  BY DEF Unanswered, Answers, Alone
<1> QED
  BY <1>3, <1>4 DEF Answers, AcceptedTruthfully

\* A job that is given is that of an earlier request with the same content.
LEMMA GivenJob ==
  ASSUME NEW r \in Requests, NEW q \in Earlier(r),
         SamePayload(q, r) \/ (r \in Clones /\ SameClone(q, r))
  PROVE  q \in Requests /\ job[q] # "absent" /\ SameOperation(q, r)
BY DEF Earlier, SamePayload, SameOperation

LEMMA AnswersStep ==
  ASSUME TypeOK, Planned, Answers, NEW r \in Requests, Alone(r), JobsStay,
         ExpireKeys(r) \/ ReserveKey(r) \/ Refresh(r) \/ ReleaseKey(r) \/ Released(r)
         \/ RequestStep(r) \/ HandlerStep(r)
  PROVE  Answers'
<1> USE DEF regVars, jobVars, readVars, Goto, Pass, Conclude
<1>1. CASE ExpireKeys(r) \/ ReserveKey(r) \/ Refresh(r) \/ ReleaseKey(r) \/ Released(r)
  <2>1. /\ at'[r] # "new" /\ row'[r] = row[r]
        /\ ref'[r] = ref[r] /\ (answer'[r] = "accepted" => answer[r] = "accepted")
    BY <1>1 DEF ExpireKeys, ReserveKey, Refresh, ReleaseKey, Released, HaveKey, Reserved, TypeOK,
       Planned, Reserving
  <2> QED
    BY <2>1, AnswersKeep
<1>2. CASE \/ Reject(r) \/ Preview(r) \/ CreateRoot(r) \/ SwapKey(r) \/ RequestFails(r) \/ Vanish(r)
           \/ CheckBusy(r, "busy", "queuedClones")
           \/ CheckClones(r, "queuedClones", "queued", "runningClones")
           \/ CheckClones(r, "runningClones", "running", "assigned")
           \/ CheckBusy(r, "active", "enqueue") \/ CheckAssigned(r)
  <2>1. /\ at'[r] # "new" /\ row'[r] = row[r]
        /\ ref'[r] = ref[r] /\ (answer'[r] = "accepted" => answer[r] = "accepted")
    BY <1>2 DEF Reject, Preview, CreateRoot, SwapKey, RequestFails, Vanish, CheckBusy, CheckClones,
       CheckAssigned, InRequest, TypeOK
  <2> QED
    BY <2>1, AnswersKeep
<1>3. CASE FindExisting(r) \/ FindCards(r) \/ UpsertCard(r) \/ NamePull(r)
  <2>1. /\ at'[r] # "new" /\ (r \notin Clones => at[r] = "new")
        /\ ref'[r] = ref[r] /\ (answer'[r] = "accepted" => answer[r] = "accepted")
    BY <1>3 DEF FindExisting, FindCards, UpsertCard, NamePull, TypeOK, Planned, ClonePlaces, Checking
  <2> QED
    BY <2>1, AnswersKeep
<1>4. CASE Replay(r) \/ ReplayPayload(r) \/ (GiveEarlier(r) /\ Enqueue(r))
  <2>1. UNCHANGED <<row, job>> \/ (Enqueue(r) /\ row' = row /\ GiveEarlier(r))
    BY <1>4 DEF Replay, ReplayPayload, Enqueue
  <2>2. ASSUME NEW q \in Earlier(r), GiveJob(r, q),
               SamePayload(q, r) \/ (r \in Clones /\ SameClone(q, r))
        PROVE  Answers'
    <3>1. q \in Requests /\ job[q] # "absent" /\ SameOperation(q, r)
      BY <2>2, GivenJob
    <3>2. at'[r] # "new" /\ ref'[r] = q /\ job'[q] # "absent" /\ row' = row
      BY <2>1, <2>2, <3>1 DEF GiveJob, TypeOK, JobsStay
    <3> QED
      BY <3>1, <3>2, AnswersKeep
  <2>3. CASE Conclude(r, "refused") \/ Pass(r, "expire") \/ Pass(r, "active")
    <3>1. /\ at'[r] # "new" /\ row'[r] = row[r]
          /\ ref'[r] = ref[r] /\ (answer'[r] = "accepted" => answer[r] = "accepted")
      BY <2>1, <2>3 DEF TypeOK
    <3> QED
      BY <3>1, AnswersKeep
  <2>4. CASE Replay(r)
    <3>1. r \in Clones
      BY <2>4 DEF Replay, Planned, ClonePlaces
    <3> QED
      BY <2>2, <2>3, <2>4, <3>1 DEF Replay
  <2>5. CASE ReplayPayload(r) \/ GiveEarlier(r)
    BY <2>2, <2>3, <2>5 DEF ReplayPayload, GiveEarlier
  <2> QED
    BY <1>4, <2>4, <2>5
<1>5. CASE Enqueue(r) /\ ~GiveEarlier(r)
  <2>1. /\ at'[r] # "new" /\ row' = row
        /\ \/ ref'[r] = ref[r] /\ (answer'[r] = "accepted" => answer[r] = "accepted")
           \/ ref'[r] = r /\ job'[r] # "absent"
    BY <1>5 DEF Enqueue, TypeOK
  <2>2. SameOperation(r, r)
    BY DEF SameOperation, SameClone
  <2> QED
    BY <2>1, <2>2, AnswersKeep
<1>6. CASE HandlerStep(r)
  <2>1. /\ at'[r] # "new" /\ row'[r] = row[r]
        /\ ref'[r] = ref[r] /\ (answer'[r] = "accepted" => answer[r] = "accepted")
    BY <1>6 DEF HandlerStep, Claim, Invalid, BeginClone, BeginPull, Inspect, Unavailable, GitClone,
       GitCloneFails, GitPull, GitPullFails, Touch, ReleaseFails, Settle, Die, Recover, TypeOK
  <2> QED
    BY <2>1, AnswersKeep
<1> QED
  BY <1>1, <1>2, <1>3, <1>4, <1>5, <1>6 DEF RequestStep

WorkInv == LocalCards /\ OneJobPerCard /\ Writers /\ Answers

LEMMA WorkStep ==
  TypeOK /\ Planned /\ CardInv /\ WorkInv /\ [Next]_vars => WorkInv'
<1> SUFFICES ASSUME TypeOK, Planned, CardInv, WorkInv, [Next]_vars PROVE WorkInv'
  OBVIOUS
<1>1. ASSUME NEW r \in Requests,
             ExpireKeys(r) \/ ReserveKey(r) \/ Refresh(r) \/ ReleaseKey(r) \/ Released(r)
             \/ RequestStep(r) \/ HandlerStep(r)
      PROVE  WorkInv'
  <2>1. Alone(r) /\ CardsGrow /\ JobsStay
    BY <1>1, AloneStep
  <2>2. LocalCards'
    BY <2>1, LocalStep DEF WorkInv
  <2>3. OneJobPerCard'
    BY <1>1, <2>1, OneJobStep DEF WorkInv
  <2>4. Writers'
    BY <1>1, <2>1, WritersStep DEF WorkInv
  <2>5. Answers'
    BY <1>1, <2>1, AnswersStep DEF WorkInv
  <2> QED
    BY <2>2, <2>3, <2>4, <2>5 DEF WorkInv
<1>2. ASSUME UNCHANGED <<repo, disk, job, at, row, dir, answer, ref>>
      PROVE  WorkInv'
  BY <1>2 DEF WorkInv, LocalCards, OneJobPerCard, Writers, AtWork, Finds, HasRemote, Answers,
     AcceptedTruthfully, SameOperation, Unanswered
<1> QED
  BY <1>1, <1>2 DEF Next, Lapse, vars, readVars, jobVars

-----------------------------------------------------------------------------
(* The theorems *)

IInv == TypeOK /\ Planned /\ OwnKeys /\ Reserves /\ CardInv /\ WorkInv

LEMMA InitIInv == Init => IInv
<1> SUFFICES ASSUME Init PROVE IInv
  OBVIOUS
<1> USE CloneRequestsAssumption, KeysType DEF Init
<1>1. TypeOK
  BY DiskType DEF TypeOK, Tables, Places, SharedPlaces
<1>2. Planned /\ OwnKeys /\ Reserves
  BY DEF Planned, OwnKeys, Reserves, Reserving, Checking, Settled, Keeping, ClonePlaces, RequestPlaces,
     HandlerPlaces, InRequest
<1>3. ActiveClones = {}
  BY DEF ActiveClones, Active
<1>4. Named /\ Checked
  BY DEF Named, Checked, InRequest, Settled
<1>5. Cards
  <2>1. \A i \in Identities : i \in Rows
    BY DEF Rows
  <2>2. ASSUME NEW c \in Rows, repo[c] # NoCard, repo[c].who # Local PROVE c = repo[c].who
    BY <2>2 DEF Tables, Rows
  <2>3. \A i \in Identities : repo[i] # NoCard => repo[i].who = i
    BY DEF Tables
  <2>4. \A c, d \in Rows : Managed(repo, c) /\ Managed(repo, d) /\ repo[c].at = repo[d].at => c = d
    BY DEF Tables
  <2> QED
    BY <2>2, <2>3, <2>4 DEF Cards
<1>6. LocalCards
  BY DEF LocalCards, Tables, Rows
<1>7. OneJobPerCard /\ Writers /\ Answers
  BY DEF OneJobPerCard, Active, Writers, AtWork, Answers, AcceptedTruthfully, Unanswered
<1> QED
  BY <1>1, <1>2, <1>3, <1>4, <1>5, <1>6, <1>7 DEF IInv, CardInv, ClonesKeepApart, WorkInv

LEMMA InvariantHolds == Spec => []IInv
<1>1. IInv /\ [Next]_vars => IInv'
  <2> SUFFICES ASSUME IInv, [Next]_vars PROVE IInv'
    OBVIOUS
  <2>1. CardInv => Checked /\ Named
    BY DEF CardInv
  <2> QED
    BY <2>1, TypeStep, KeysStep, CardStep, WorkStep DEF IInv
<1> QED
  BY <1>1, InitIInv, PTL DEF Spec

(* The variables keep their types. *)
THEOREM TypesKept == Spec => []TypeOK
BY InvariantHolds, PTL DEF IInv

(* No two clones that are queued or running are for one directory or one   *)
(* repository, however many requests and directories there are.            *)
THEOREM ClonesApart == Spec => []ClonesKeepApart
<1>1. IInv => ClonesKeepApart
  BY DEF IInv, CardInv
<1> QED
  BY <1>1, InvariantHolds, PTL

(* The card of a repository says where its clone that is queued or running *)
(* goes, and no other repository has a card there.                         *)
THEOREM CardsFollow == Spec => []CardsFollowClones
<1>1. IInv => CardsFollowClones
  BY DEF IInv, CardInv, CardOK, CardsFollowClones
<1> QED
  BY <1>1, InvariantHolds, PTL

(* A request that made no job leaves nothing reserved.                     *)
THEOREM NothingLeft == Spec => NothingLeftReserved
<1>1. ASSUME IInv, NEW r \in Requests, Released(r), job[r] = "absent", NEW k \in Keys
      PROVE  held[k] # r
  <2>1. InRequest(r) /\ mine[r] = {}
    BY <1>1 DEF Released, Goto, InRequest
  <2> QED
    BY <1>1, <2>1 DEF IInv, OwnKeys
<1>2. IInv => [\A r \in Requests :
                 Released(r) /\ job[r] = "absent" => \A k \in Keys : held[k] # r]_vars
  BY <1>1
<1> QED
  BY <1>2, InvariantHolds, PTL DEF NothingLeftReserved

(* One git at a time writes to a directory for which discovery has no card *)
(* of its own, be it a clone's or a pull's.                                *)
THEOREM OneWriter == Spec => []OneWriterPerDirectory
<1>1. ASSUME IInv, NEW q \in Requests, NEW r \in Requests, q # r,
             {at[q], at[r]} \subseteq {"clone", "pull"}, dir[q] = dir[r]
      PROVE  repo[dir[r]] # NoCard
  BY <1>1, WritersApart DEF IInv, WorkInv, AtWork
<1>2. IInv => OneWriterPerDirectory
  BY <1>1 DEF OneWriterPerDirectory
<1> QED
  BY <1>2, InvariantHolds, PTL

(* The job a client is given exists and does what the client asked.        *)
THEOREM AnswersTruthful == Spec => []AcceptedTruthfully
<1>1. IInv => AcceptedTruthfully
  BY DEF IInv, WorkInv, Answers
<1> QED
  BY <1>1, InvariantHolds, PTL

Kept(d) ==
  /\ disk[d] \in {Files} \cup {Whole(i) : i \in Identities}
  /\ repo[d] = NoCard \/ ~Cloning(d)
  => disk'[d] = disk[d]

LEMMA KeptStep ==
  ASSUME IInv, [Next]_vars, NEW d \in Targets, disk[d] \in {Files} \cup {Whole(i) : i \in Identities},
         repo[d] = NoCard \/ ~Cloning(d)
  PROVE  disk'[d] = disk[d]
<1> USE DEF IInv
<1>1. CASE disk' = disk
  BY <1>1
<1>2. ASSUME NEW r \in Requests, Inspect(r), disk' # disk PROVE disk'[d] = disk[d]
  <2>1. disk[dir[r]] = Empty /\ disk' = [disk EXCEPT ![dir[r]] = Part(Identity[r])]
    BY <1>2 DEF Inspect
  <2>2. Empty # Files
    BY DEF Empty, Files
  <2>3. disk[d] # Empty
    BY <2>2, DiskStates
  <2> QED
    BY <2>1, <2>3 DEF TypeOK
<1>3. ASSUME NEW r \in Requests, GitClone(r) \/ GitCloneFails(r) PROVE disk'[d] = disk[d]
  <2>1. at[r] = "clone" /\ \E x : disk' = [disk EXCEPT ![dir[r]] = x]
    BY <1>3 DEF GitClone, GitCloneFails, Goto
  <2>2. CASE dir[r] # d
    BY <2>1, <2>2 DEF TypeOK
  <2>3. CASE dir[r] = d
    <3>1. Finds(r)
      BY <2>1, <2>3 DEF Cloning, WorkInv, Writers, AtWork
    <3>2. disk[d] \in {Part(i) : i \in Identities}
      <4>1. row[r] \in Rows /\ repo[row[r]] # NoCard
        BY <2>1 DEF Planned, HandlerPlaces, CardInv, Named
      <4>2. repo[row[r]].who \in Identities
        BY <3>1, <4>1, WhoType DEF Finds
      <4> QED
        BY <2>1, <2>3, <3>1, <4>2 DEF Finds
    <3> QED
      BY <3>2, DiskStates
  <2> QED
    BY <2>2, <2>3
<1>4. ASSUME NEW r \in Requests, GitPull(r) PROVE disk'[d] = disk[d]
  <2>1. PICK i \in Identities : HasRemote(dir[r], i) /\ disk' = [disk EXCEPT ![dir[r]] = Whole(i)]
    BY <1>4 DEF GitPull
  <2>2. CASE dir[r] = d
    <3>1. disk[d] = Whole(i)
      BY <2>1, <2>2, DiskStates DEF HasRemote
    <3> QED
      BY <2>1, <2>2, <3>1 DEF TypeOK
  <2> QED
    BY <2>1, <2>2 DEF TypeOK
<1>5. ASSUME NEW r \in Requests, RequestStep(r) PROVE disk' = disk
  BY <1>5 DEF RequestStep, Reject, Preview, Replay, CreateRoot, SwapKey, FindExisting, CheckBusy,
     CheckClones, CheckAssigned, FindCards, UpsertCard, NamePull, ReplayPayload, Enqueue,
     RequestFails, Vanish
<1>6. ASSUME NEW r \in Requests, HandlerStep(r), disk' # disk
      PROVE  Inspect(r) \/ GitClone(r) \/ GitCloneFails(r) \/ GitPull(r)
  BY <1>6 DEF HandlerStep, Claim, Invalid, BeginClone, BeginPull, Unavailable, GitPullFails, Touch,
     ReleaseFails, Settle, Die, Recover
<1>7. ASSUME NEW r \in Requests,
             ExpireKeys(r) \/ ReserveKey(r) \/ Refresh(r) \/ ReleaseKey(r) \/ Released(r)
      PROVE  disk' = disk
  BY <1>7 DEF ExpireKeys, ReserveKey, Refresh, ReleaseKey, Released
<1> QED
  BY <1>1, <1>2, <1>3, <1>4, <1>5, <1>6, <1>7 DEF Next, Lapse, vars

(* Neither a clone of something else nor a second attempt overwrites a     *)
(* repository that was cloned, or files that were there before.            *)
THEOREM DirectoriesAreKept == Spec => DirectoriesKept
<1>1. IInv /\ [Next]_vars =>
        [\A d \in Targets : Kept(d)]_vars
  BY KeptStep DEF Kept
<1> QED
  BY <1>1, InvariantHolds, PTL DEF Spec, DirectoriesKept, Kept

-----------------------------------------------------------------------------
Lifecycle == INSTANCE JobLifecycle WITH
  Jobs <- Requests, MaxAttempts <- MaxAttempts, status <- job, attempt <- attempt

(* A request makes at most one job, which starts at most MaxAttempts times,*)
(* is put back only while an attempt is left and ends once: the rows of    *)
(* clones and pulls keep to the life cycle that JobQueue implements,       *)
(* however often the handlers fail or die.                                 *)
THEOREM Refinement == Spec => Lifecycle!Spec
<1>1. Init => Lifecycle!Init
  BY DEF Init, Lifecycle!Init
<1>2. IInv /\ [Next]_vars => [Lifecycle!Next]_(Lifecycle!vars)
  <2> SUFFICES ASSUME IInv, [Next]_vars
               PROVE  \/ \E r \in Requests : \/ Lifecycle!Submit(r) \/ Lifecycle!Take(r)
                                             \/ Lifecycle!PutBack(r) \/ Lifecycle!End(r)
                      \/ UNCHANGED <<job, attempt>>
    BY DEF Lifecycle!Next, Lifecycle!vars
  <2> USE DEF Lifecycle!Move, jobVars
  <2>1. ASSUME NEW r \in Requests, Enqueue(r)
        PROVE  Lifecycle!Submit(r) \/ UNCHANGED <<job, attempt>>
    BY <2>1 DEF Enqueue, Lifecycle!Submit, IInv, Planned, RequestPlaces
  <2>2. ASSUME NEW r \in Requests, Claim(r) PROVE Lifecycle!Take(r)
    BY <2>2 DEF Claim, Lifecycle!Take
  <2>3. ASSUME NEW r \in Requests, Settle(r) \/ Recover(r)
        PROVE  Lifecycle!PutBack(r) \/ Lifecycle!End(r)
    <3>1. job[r] = "running"
      BY <2>3 DEF Settle, Recover, Goto, IInv, Planned, HandlerPlaces
    <3> QED
      BY <2>3, <3>1 DEF Settle, Recover, Requeued, Lifecycle!PutBack, Lifecycle!End, Lifecycle!Terminal
  <2>4. ASSUME NEW r \in Requests, RequestStep(r), ~Enqueue(r) PROVE UNCHANGED <<job, attempt>>
    BY <2>4 DEF RequestStep, Reject, Preview, Replay, CreateRoot, SwapKey, FindExisting, CheckBusy,
       CheckClones, CheckAssigned, FindCards, UpsertCard, NamePull, ReplayPayload, RequestFails, Vanish
  <2>5. ASSUME NEW r \in Requests, HandlerStep(r), ~Claim(r), ~Settle(r), ~Recover(r)
        PROVE  UNCHANGED <<job, attempt>>
    BY <2>5 DEF HandlerStep, Invalid, BeginClone, BeginPull, Inspect, Unavailable, GitClone,
       GitCloneFails, GitPull, GitPullFails, Touch, ReleaseFails, Die
  <2>6. ASSUME NEW r \in Requests,
               ExpireKeys(r) \/ ReserveKey(r) \/ Refresh(r) \/ ReleaseKey(r) \/ Released(r)
        PROVE  UNCHANGED <<job, attempt>>
    BY <2>6 DEF ExpireKeys, ReserveKey, Refresh, ReleaseKey, Released
  <2> QED
    BY <2>1, <2>2, <2>3, <2>4, <2>5, <2>6 DEF Next, Lapse, vars
<1> QED
  BY <1>1, <1>2, InvariantHolds, PTL DEF Spec, Lifecycle!Spec

=============================================================================
