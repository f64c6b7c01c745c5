----------------------- MODULE ProjectDiscoveryProofs -----------------------
(***************************************************************************)
(* Theorems about ProjectDiscovery, for any number of projects, directories*)
(* and clones.                                                             *)
(***************************************************************************)
EXTENDS ProjectDiscovery, SequenceTheorems, TLAPS

\* The parts of TypeOK that a step changes together.
Ids == DOMAIN repo

CardRow == [who : Identities \cup {Local}, at : Dirs,
            status : {"active", "superseded"}, by : Nat \cup {NoRow}]

RepoOK ==
  /\ repo \in Seq(CardRow)
  /\ \A id \in Ids : repo[id].by \in Ids \cup {NoRow}

RowsOK ==
  /\ project \in Known(Ids) /\ card \in Known(Ids) /\ seen \in Known(Ids)
  /\ link \in [Pairs -> Ids \cup {NoRow}]
  /\ row \in [Clones -> Ids \cup {NoRow}] /\ old \in [Clones -> Ids \cup {NoRow}]

JobsOK ==
  /\ at \in [Projects -> Running \cup {"idle", "queued"}]
  /\ \A p \in Projects : at[p] \in {"update", "set", "related", "link"} => card[p] # NoRow
  /\ runs \in [Projects -> Nat] /\ attempt \in [Projects -> Nat]
  /\ pos \in [Projects -> Nat] /\ \A p \in Projects : pos[p] \in DOMAIN Path[p]
  /\ dir \in [Projects -> Dirs]
  /\ todo \in [Projects -> SUBSET Projects] /\ \A p \in Projects : p \notin todo[p]

ClonesOK ==
  /\ marker \in [Dirs -> {"none", "directory", "gitfile", "other"}]
  /\ clone \in [Clones -> {"idle", "find", "upsert", "clone"}]
  /\ asked \in [Clones -> Nat]

\* A running discovery has found nothing yet; what it holds is its own.
Fresh == \A p \in Projects : at[p] \in Running => seen[p] = NoRow

\* p has assigned itself to the card g and will end on it, or has ended so.
Registered(p, g) ==
  \/ at[p] \in {"related", "link"} /\ card[p] = g
  \/ seen[p] = g

Stays ==
  \A p \in Projects, g \in Ids :
    Registered(p, g) /\ repo[g].by = NoRow => project[p] = g

\* p has yet to ask for q, or to link it.
Meets(p, q) == at[p] = "related" \/ (at[p] = "link" /\ q \in todo[p])

Meeting ==
  \A p, q \in Projects, g \in Ids :
    p # q /\ Registered(p, g) /\ Registered(q, g) /\ repo[g].by = NoRow
      => link[{p, q}] # NoRow \/ Meets(p, q) \/ Meets(q, p)

\* The card a job is about to renew is, if still generic, that of its directory.
Renews ==
  \A p \in Projects :
    at[p] = "update" /\ repo[card[p]].who = Local => repo[card[p]].at = dir[p]

IInv == TypeOK /\ Fresh /\ Stays /\ Meeting /\ Renews /\ OneGenericCard

-----------------------------------------------------------------------------
\* A project has a directory, which is one of Dirs.
LEMMA PathFacts ==
  ASSUME NEW p \in Projects
  PROVE  /\ Len(Path[p]) \in Nat /\ DOMAIN Path[p] = 1..Len(Path[p])
         /\ 1 \in DOMAIN Path[p]
         /\ \A n \in DOMAIN Path[p] : Path[p][n] \in Dirs
  BY ProjectDiscoveryAssumption

\* The parts make up TypeOK.
LEMMA Parts == TypeOK <=> RepoOK /\ RowsOK /\ JobsOK /\ ClonesOK
  BY DEF TypeOK, RepoOK, RowsOK, JobsOK, ClonesOK, Ids, CardRow

\* Two projects make a pair.
LEMMA PairOf ==
  ASSUME NEW p \in Projects, NEW q \in Projects, p # q
  PROVE  {p, q} \in Pairs
  BY DEF Pairs

\* The row of a query is one of the table, or none.
LEMMA RowFound ==
  ASSUME NEW S, S \subseteq Ids
  PROVE  /\ TheRow(S) \in Ids \cup {NoRow}
         /\ S # {} => TheRow(S) \in S
  BY DEF TheRow

\* Rows are numbers, so no row is NoRow.
LEMMA RowNumbers ==
  ASSUME RepoOK
  PROVE  Ids = 1..Len(repo) /\ Len(repo) \in Nat /\ NoRow \notin Ids
  BY ProjectDiscoveryAssumption DEF RepoOK, Ids

\* Every row is a card, and a table of the same length whose rows are cards
\* that name rows of the table is one again.
LEMMA RowsAreCards ==
  ASSUME RepoOK
  PROVE  \A id \in Ids : repo[id] \in CardRow
  <1>1. repo \in [1..Len(repo) -> CardRow]  BY LenProperties DEF RepoOK
  <1> QED  BY <1>1 DEF Ids

\* The fields of a card, and a card with other values in some of them.
LEMMA CardFields ==
  ASSUME NEW r \in CardRow
  PROVE  /\ r.who \in Identities \cup {Local} /\ r.at \in Dirs
         /\ r.status \in {"active", "superseded"} /\ r.by \in Nat \cup {NoRow}
  BY DEF CardRow

LEMMA CardMade ==
  ASSUME NEW who \in Identities \cup {Local}, NEW d \in Dirs,
         NEW st \in {"active", "superseded"}, NEW id \in Nat \cup {NoRow}
  PROVE  [who |-> who, at |-> d, status |-> st, by |-> id] \in CardRow
  BY DEF CardRow

LEMMA Rewritten ==
  ASSUME RepoOK, NEW t, t = [id \in Ids |-> t[id]], repo' = t,
         \A id \in Ids : t[id] \in CardRow /\ t[id].by \in Ids \cup {NoRow}
  PROVE  RepoOK' /\ Ids' = Ids
  <1>1. Ids = 1..Len(repo) /\ Len(repo) \in Nat  BY RowNumbers
  <1>2. t \in [1..Len(repo) -> CardRow]  BY <1>1
  <1>3. t \in Seq(CardRow)  BY <1>1, <1>2, SeqDef
  <1>4. Ids' = Ids  BY DEF Ids
  <1> QED  BY <1>3, <1>4 DEF RepoOK

\* A job that ends or is given back holds nothing.
LEMMA Left ==
  ASSUME JobsOK, RowsOK, Ids' = Ids, NEW p \in Projects, NEW to \in {"idle", "queued"},
         Leave(p, to), UNCHANGED <<runs, attempt>>
  PROVE  JobsOK' /\ card' \in Known(Ids)'
  BY PathFacts DEF Leave, JobsOK, RowsOK, Known, Running

-----------------------------------------------------------------------------
(* Type correctness *)

LEMMA InitType == Init => TypeOK
  <1> SUFFICES ASSUME Init PROVE TypeOK  OBVIOUS
  <1>1. Ids = {}  BY DEF Init, Ids
  <1>2. RepoOK
    BY <1>1 DEF Init, RepoOK
  <1>3. RowsOK  BY DEF Init, RowsOK, Known
  <1>4. JobsOK  BY PathFacts DEF Init, JobsOK, Running
  <1>5. ClonesOK  BY DEF Init, ClonesOK
  <1> QED  BY <1>2, <1>3, <1>4, <1>5, Parts

\* Steps of a job that leave the table of cards alone.
LEMMA JobType ==
  ASSUME RepoOK, RowsOK, JobsOK, ClonesOK, NEW p \in Projects, JobStep(p), ~Update(p), ~Insert(p)
  PROVE  RepoOK' /\ RowsOK' /\ JobsOK' /\ ClonesOK'
  <1>1. repo' = repo /\ UNCHANGED <<marker, cloneVars>>
    BY DEF JobStep, Enqueue, Begin, Skip, Start, Look, Find, FindAgain, SetProject,
           Related, Link, Complete, Fail, tables
  <1>2. Ids' = Ids /\ RepoOK' /\ ClonesOK'
    BY <1>1 DEF Ids, RepoOK, ClonesOK, cloneVars
  <1>3. NoRow \notin Ids  BY RowNumbers
  <1>4. row' = row /\ old' = old  BY <1>1 DEF cloneVars
  <1>r. Requeued(p) \in {"idle", "queued"}  BY DEF Requeued
  <1>5. CASE Enqueue(p) \/ Begin(p) \/ Start(p)
    <2>1. JobsOK'  BY <1>5 DEF Enqueue, Begin, Start, Goto, JobsOK, Running
    <2>2. RowsOK'  BY <1>2, <1>4, <1>5 DEF Enqueue, Begin, Start, RowsOK, Known, tables
    <2> QED  BY <1>2, <2>1, <2>2
  <1>6. CASE Skip(p) \/ Fail(p) \/ Complete(p)
    <2>1. \E to \in {"idle", "queued"} : Leave(p, to)
      BY <1>6, <1>r DEF Skip, Fail, Complete
    <2>2. UNCHANGED <<runs, attempt, project, link>>
      BY <1>6 DEF Skip, Fail, Complete, tables
    <2>3. seen' \in Known(Ids)'
      BY <1>2, <1>6 DEF Skip, Fail, Complete, RowsOK, Known
    <2>4. JobsOK' /\ card' \in Known(Ids)'  BY <1>2, <2>1, <2>2, Left
    <2>5. RowsOK'  BY <1>2, <1>4, <2>2, <2>3, <2>4 DEF RowsOK, Known
    <2> QED  BY <1>2, <2>4, <2>5
  <1>7. CASE Look(p)
    <2>1. RowsOK'
      BY <1>2, <1>4, <1>7 DEF Look, Leave, RowsOK, Known, tables
    <2>2. CASE at' = [at EXCEPT ![p] = "find"] /\ dir' = [dir EXCEPT ![p] = Path[p][pos[p]]]
               /\ UNCHANGED <<pos, card, todo>>
      <3>1. Path[p][pos[p]] \in Dirs  BY PathFacts DEF JobsOK
      <3>2. UNCHANGED <<runs, attempt>>  BY <1>7 DEF Look
      <3>3. JobsOK'  BY <2>2, <3>1, <3>2 DEF JobsOK, Running
      <3> QED  BY <1>2, <2>1, <3>3
    <2>3. CASE pos[p] < Len(Path[p]) /\ pos' = [pos EXCEPT ![p] = @ + 1]
               /\ UNCHANGED <<at, dir, card, todo>>
      <3>1. pos[p] \in Nat /\ pos[p] + 1 \in DOMAIN Path[p]  BY <2>3, PathFacts DEF JobsOK
      <3>2. UNCHANGED <<runs, attempt>>  BY <1>7 DEF Look
      <3>3. JobsOK'  BY <2>3, <3>1, <3>2 DEF JobsOK
      <3> QED  BY <1>2, <2>1, <3>3
    <2>4. CASE Leave(p, "idle")
      <3>1. UNCHANGED <<runs, attempt>>  BY <1>7 DEF Look
      <3>2. JobsOK'  BY <1>2, <2>4, <3>1, Left
      <3> QED  BY <1>2, <2>1, <3>2
    <2> QED  BY <1>7, <2>2, <2>3, <2>4 DEF Look
  <1>8. CASE Find(p)
    <2>1. TheRow(GenericOf(dir[p])) \in Ids \cup {NoRow}
      BY RowFound DEF GenericOf, Ids
    <2>2. GenericOf(dir[p]) # {} => TheRow(GenericOf(dir[p])) # NoRow
      BY RowFound, <1>3 DEF GenericOf, Ids
    <2>3. RowsOK'  BY <1>2, <1>4, <1>8, <2>1 DEF Find, RowsOK, Known, tables
    <2>4. JobsOK'  BY <1>8, <2>2 DEF Find, Goto, JobsOK, RowsOK, Known, Running
    <2> QED  BY <1>2, <2>3, <2>4
  <1>9. CASE FindAgain(p)
    <2>1. TheRow(GenericOf(dir[p])) \in Ids \cup {NoRow}
      BY RowFound DEF GenericOf, Ids
    <2>2. GenericOf(dir[p]) # {} => TheRow(GenericOf(dir[p])) # NoRow
      BY RowFound, <1>3 DEF GenericOf, Ids
    <2>3. UNCHANGED <<runs, attempt, project, link, seen>>  BY <1>9 DEF FindAgain, tables
    <2>4. CASE GenericOf(dir[p]) = {}
      <3>1. JobsOK' /\ card' \in Known(Ids)'
        BY <1>2, <1>9, <1>r, <2>3, <2>4, Left DEF FindAgain
      <3>2. RowsOK'  BY <1>2, <1>4, <2>3, <3>1 DEF RowsOK, Known
      <3> QED  BY <1>2, <3>1, <3>2
    <2>5. CASE GenericOf(dir[p]) # {}
      <3>1. JobsOK'  BY <1>9, <2>2, <2>5 DEF FindAgain, JobsOK, RowsOK, Known, Running
      <3>2. RowsOK'  BY <1>2, <1>4, <1>9, <2>1, <2>3, <2>5 DEF FindAgain, RowsOK, Known
      <3> QED  BY <1>2, <3>1, <3>2
    <2> QED  BY <2>4, <2>5
  <1>10. CASE SetProject(p)
    <2>1. RowsOK'  BY <1>2, <1>4, <1>10 DEF SetProject, RowsOK, Known
    <2>2. JobsOK'  BY <1>10 DEF SetProject, Goto, JobsOK, Running
    <2> QED  BY <1>2, <2>1, <2>2
  <1>11. CASE Related(p)
    <2>1. RowsOK'  BY <1>2, <1>4, <1>11 DEF Related, RowsOK, Known, tables
    <2>2. JobsOK'  BY <1>11 DEF Related, Goto, JobsOK, Running
    <2> QED  BY <1>2, <2>1, <2>2
  <1>12. CASE Link(p)
    <2>1. PICK q \in todo[p] : /\ link' = [link EXCEPT ![{p, q}] = card[p]]
                               /\ todo' = [todo EXCEPT ![p] = @ \ {q}]
      BY <1>12 DEF Link
    <2>2. q \in Projects  BY <2>1 DEF JobsOK
    <2>3. link' \in [Pairs -> Ids \cup {NoRow}]  BY <2>1 DEF RowsOK, Known
    <2>4. RowsOK'  BY <1>2, <1>4, <1>12, <2>3 DEF Link, RowsOK, Known
    <2>5. JobsOK'  BY <1>12, <2>1 DEF Link, JobsOK, Running
    <2> QED  BY <1>2, <2>4, <2>5
  <1> QED  BY <1>5, <1>6, <1>7, <1>8, <1>9, <1>10, <1>11, <1>12 DEF JobStep

\* A table with one row more keeps what named a row.
LEMMA Grown ==
  ASSUME RepoOK, RowsOK, NEW r,
         r \in [who : Identities \cup {Local}, at : Dirs,
                status : {"active", "superseded"}, by : {NoRow}],
         repo' = Append(repo, r)
  PROVE  /\ RepoOK' /\ Ids \subseteq Ids' /\ Len(repo) + 1 \in Ids' /\ Len(repo) + 1 \notin Ids
         /\ Ids' = Ids \cup {Len(repo) + 1}
         /\ \A id \in Ids : repo'[id] = repo[id]
         /\ repo'[Len(repo) + 1] = r
  <1> DEFINE C == CardRow
  <1>1. repo \in Seq(C) /\ r \in C  BY DEF RepoOK, CardRow
  <1>2. /\ repo' \in Seq(C) /\ Len(repo') = Len(repo) + 1
        /\ \A id \in 1..Len(repo) : repo'[id] = repo[id]
        /\ repo'[Len(repo) + 1] = r
    BY <1>1, AppendProperties
  <1>3. Ids = 1..Len(repo) /\ Ids' = 1..(Len(repo) + 1) /\ Len(repo) \in Nat
    BY <1>1, <1>2 DEF Ids
  <1>4. \A id \in Ids' : repo'[id].by \in Ids' \cup {NoRow}
    BY <1>2, <1>3 DEF RepoOK
  <1> QED  BY <1>2, <1>3, <1>4 DEF RepoOK

\* A job renews or inserts a card.
LEMMA WriteType ==
  ASSUME RepoOK, RowsOK, JobsOK, ClonesOK, NEW p \in Projects, Update(p) \/ Insert(p)
  PROVE  RepoOK' /\ RowsOK' /\ JobsOK' /\ ClonesOK'
  <1>1. ClonesOK'  BY DEF Update, Insert, ClonesOK, cloneVars
  <1>2. CASE Update(p)
    <2>1. card[p] \in Ids  BY <1>2 DEF Update, Goto, RowsOK, JobsOK, Known
    <2>2. /\ repo' = [id \in Ids |-> repo'[id]]
          /\ \A id \in Ids \ {card[p]} : repo'[id] = repo[id]
          /\ repo'[card[p]] = Renewed(repo[card[p]], dir[p])
      BY <1>2, <2>1, RowsAreCards DEF Update, Ids, CardRow
    <2>r. \A id \in Ids : repo'[id] \in CardRow /\ repo'[id].by \in Ids \cup {NoRow}
      <3>1. dir[p] \in Dirs  BY DEF JobsOK
      <3>2. /\ repo'[card[p]] \in CardRow
            /\ repo'[card[p]].by = repo[card[p]].by
        <4>1. repo[card[p]] \in CardRow  BY <2>1, RowsAreCards
        <4>2. repo'[card[p]] = [who |-> repo[card[p]].who, at |-> dir[p],
                                status |-> "active", by |-> repo[card[p]].by]
          BY <2>2 DEF Renewed
        <4>3. repo'[card[p]] \in CardRow  BY <3>1, <4>1, <4>2, CardFields, CardMade
        <4> QED  BY <4>2, <4>3
      <3>3. \A id \in Ids : repo[id].by \in Ids \cup {NoRow}  BY DEF RepoOK
      <3> QED  BY <2>1, <2>2, <3>2, <3>3, RowsAreCards
    <2>3. RepoOK' /\ Ids' = Ids
      BY <2>2, <2>r, Rewritten
    <2>4. RowsOK'  BY <1>2, <2>3 DEF Update, RowsOK, Known, cloneVars
    <2>5. JobsOK'  BY <1>2 DEF Update, Goto, JobsOK, Running
    <2> QED  BY <1>1, <2>3, <2>4, <2>5
  <1>3. CASE Insert(p) /\ GenericOf(dir[p]) = {}
    <2> DEFINE r == [who |-> Local, at |-> dir[p], status |-> "active", by |-> NoRow]
    <2>1. repo' = Append(repo, r) /\ card' = [card EXCEPT ![p] = Len(repo) + 1]
      BY <1>3 DEF Insert
    <2>2. r \in [who : Identities \cup {Local}, at : Dirs,
                 status : {"active", "superseded"}, by : {NoRow}]
      BY DEF JobsOK
    <2> HIDE DEF r
    <2>3. RepoOK' /\ Ids \subseteq Ids' /\ Len(repo) + 1 \in Ids'
      BY <2>1, <2>2, Grown
    <2>4. RowsOK'  BY <1>3, <2>1, <2>3 DEF Insert, RowsOK, Known, cloneVars
    <2>5. Len(repo) + 1 # NoRow
      BY RowNumbers, ProjectDiscoveryAssumption
    <2>6. JobsOK'  BY <1>3, <2>1, <2>5 DEF Insert, JobsOK, RowsOK, Known, Running
    <2> QED  BY <1>1, <2>3, <2>4, <2>6
  <1>4. CASE Insert(p) /\ GenericOf(dir[p]) # {}
    <2>1. RepoOK' /\ RowsOK'
      BY <1>4 DEF Insert, RepoOK, RowsOK, Known, Ids, cloneVars
    <2>2. JobsOK'  BY <1>4 DEF Insert, JobsOK, Running
    <2> QED  BY <1>1, <2>1, <2>2
  <1> QED  BY <1>2, <1>3, <1>4

\* The cards after a clone has written: which rows there are, that a generic
\* one was so before and has not moved, and that by is not taken back.
LEMMA Upserted ==
  ASSUME RepoOK, RowsOK, NEW c \in Clones, UpsertCard(c)
  PROVE  /\ RepoOK' /\ Ids \subseteq Ids'
         /\ \A id \in Ids' : repo'[id].who = Local =>
              id \in Ids /\ repo[id].who = Local /\ repo[id].at = repo'[id].at
         /\ \A id \in Ids : repo'[id].by = NoRow => repo[id].by = NoRow /\ ~(id = old[c] /\ row[c] \notin {NoRow, old[c]})
  <1>0. /\ NoRow \notin Ids /\ row[c] \in Ids \cup {NoRow} /\ old[c] \in Ids \cup {NoRow}
        /\ Ids \subseteq Nat
    BY RowNumbers DEF RowsOK
  <1>1. /\ Identity[c] \in Identities /\ Target[c] \in Dirs /\ Local # Identity[c]
    BY ProjectDiscoveryAssumption
  <1>2. CASE row[c] # NoRow /\ old[c] # NoRow
    <2>1. repo' = [id \in Ids |->
             CASE id = row[c] -> ClonedCard(c, repo[id].by)
               [] id = old[c] /\ id # row[c] -> Superseded(repo[id], row[c])
               [] OTHER -> repo[id]]
      BY <1>2 DEF UpsertCard, Ids
    <2>2. /\ repo'[row[c]] = ClonedCard(c, repo[row[c]].by)
          /\ old[c] # row[c] => repo'[old[c]] = Superseded(repo[old[c]], row[c])
          /\ \A id \in Ids \ {row[c], old[c]} : repo'[id] = repo[id]
      BY <1>0, <1>2, <2>1
    <2>3. repo[row[c]] \in CardRow /\ repo[old[c]] \in CardRow
      BY <1>0, <1>2, RowsAreCards
    <2>4. repo'[row[c]] \in CardRow
      BY <1>1, <2>2, <2>3, CardFields, CardMade DEF ClonedCard
    <2>5. old[c] # row[c] => repo'[old[c]] \in CardRow
      <3>1. row[c] \in Nat  BY <1>0, <1>2
      <3> QED  BY <2>2, <2>3, <3>1, CardFields, CardMade DEF Superseded
    <2>6. \A id \in Ids : repo'[id] \in CardRow
      BY <2>2, <2>4, <2>5, RowsAreCards
    <2>7. \A id \in Ids : repo'[id].by \in Ids \cup {NoRow}
      BY <1>0, <1>2, <2>2 DEF ClonedCard, Superseded, RepoOK
    <2>8. repo' = [id \in Ids |-> repo'[id]]  BY <2>1
    <2>9. RepoOK' /\ Ids' = Ids  BY <2>6, <2>7, <2>8, Rewritten
    <2> QED  BY <1>0, <1>1, <1>2, <2>2, <2>9 DEF ClonedCard, Superseded
  <1>3. CASE ~(row[c] = NoRow /\ old[c] = NoRow) /\ ~(row[c] # NoRow /\ old[c] # NoRow)
    <2>1. PICK id \in Ids : repo' = [repo EXCEPT ![id] = ClonedCard(c, @.by)]
      BY <1>0, <1>3 DEF UpsertCard
    <2>2. Ids' = Ids  BY <2>1 DEF Ids
    <2>4. /\ repo'[id] = ClonedCard(c, repo[id].by)
          /\ \A other \in Ids \ {id} : repo'[other] = repo[other]
      BY <2>1 DEF Ids, RepoOK
    <2>3. RepoOK'
      <3>1. \A other \in Ids : /\ repo'[other] \in CardRow
                              /\ repo'[other].by \in Ids \cup {NoRow}
        BY <1>1, <2>1, <2>4, RowsAreCards DEF ClonedCard, CardRow, RepoOK
      <3>2. repo' = [other \in Ids |-> repo'[other]]  BY <2>1 DEF Ids
      <3> QED  BY <3>1, <3>2, Rewritten
    <2> QED  BY <1>0, <1>1, <1>3, <2>2, <2>3, <2>4 DEF ClonedCard
  <1>4. CASE row[c] = NoRow /\ old[c] = NoRow
    <2>1. repo' = Append(repo, ClonedCard(c, NoRow))  BY <1>4 DEF UpsertCard
    <2>2. ClonedCard(c, NoRow) \in [who : Identities \cup {Local}, at : Dirs,
                                    status : {"active", "superseded"}, by : {NoRow}]
      BY <1>1 DEF ClonedCard
    <2>3. /\ RepoOK' /\ Ids' = Ids \cup {Len(repo) + 1}
          /\ \A id \in Ids : repo'[id] = repo[id]
          /\ repo'[Len(repo) + 1] = ClonedCard(c, NoRow)
      BY <2>1, <2>2, Grown
    <2>4. repo'[Len(repo) + 1].who # Local  BY <1>1, <2>3 DEF ClonedCard
    <2> QED  BY <1>0, <1>4, <2>3, <2>4
  <1> QED  BY <1>2, <1>3, <1>4

\* What a clone's transaction does to projects and links.
LEMMA Moved ==
  ASSUME RepoOK, RowsOK, NEW c \in Clones, UpsertCard(c)
  PROVE  /\ project' \in Known(Ids) /\ link' \in [Pairs -> Ids \cup {NoRow}]
         /\ \A p \in Projects : project'[p] = project[p] \/ (project[p] = old[c] /\ row[c] \notin {NoRow, old[c]})
         /\ \A pair \in Pairs : link[pair] # NoRow => link'[pair] # NoRow
  BY DEF UpsertCard, Supersede, RowsOK, Known

LEMMA CloneType ==
  ASSUME RepoOK, RowsOK, JobsOK, ClonesOK, NEW c \in Clones, CloneStep(c)
  PROVE  RepoOK' /\ RowsOK' /\ JobsOK' /\ ClonesOK'
  <1>1. JobsOK'
    BY DEF CloneStep, CheckAssigned, FindCards, UpsertCard, Clone, Vanish, JobsOK, jobVars
  <1>2. card' = card /\ seen' = seen
    BY DEF CloneStep, CheckAssigned, FindCards, UpsertCard, Clone, Vanish, jobVars
  <1>3. ClonesOK'
    <2>1. CASE CheckAssigned(c)  BY <2>1 DEF CheckAssigned, ClonesOK
    <2>2. CASE FindCards(c) \/ UpsertCard(c) \/ Vanish(c)
      BY <2>2 DEF FindCards, UpsertCard, Vanish, ClonesOK
    <2>3. CASE Clone(c)  BY <2>3, ProjectDiscoveryAssumption DEF Clone, ClonesOK
    <2> QED  BY <2>1, <2>2, <2>3 DEF CloneStep
  <1>4. CASE UpsertCard(c)
    <2>1. RepoOK' /\ Ids \subseteq Ids'  BY <1>4, Upserted
    <2>2. project' \in Known(Ids) /\ link' \in [Pairs -> Ids \cup {NoRow}]  BY <1>4, Moved
    <2>3. /\ row' \in [Clones -> Ids \cup {NoRow}] /\ old' \in [Clones -> Ids \cup {NoRow}]
      BY <1>4 DEF UpsertCard, ForgetCards, RowsOK
    <2>4. RowsOK'
      BY <1>2, <2>1, <2>2, <2>3 DEF RowsOK, Known
    <2> QED  BY <1>1, <1>3, <2>1, <2>4
  <1>5. CASE ~UpsertCard(c)
    <2>1. UNCHANGED tables
      BY <1>5 DEF CloneStep, CheckAssigned, FindCards, Clone, Vanish
    <2>2. RepoOK' /\ Ids' = Ids  BY <2>1 DEF RepoOK, Ids, tables
    <2>3. TheRow(CardOf(Identity[c])) \in Ids \cup {NoRow}
      BY RowFound DEF CardOf, Ids
    <2>4. TheRow(GenericOf(Target[c]) \cap ActiveAt(Target[c])) \in Ids \cup {NoRow}
      BY RowFound DEF GenericOf, Ids
    <2>5. /\ row' \in [Clones -> Ids \cup {NoRow}] /\ old' \in [Clones -> Ids \cup {NoRow}]
      BY <1>5, <2>3, <2>4
      DEF CloneStep, CheckAssigned, FindCards, Clone, Vanish, ForgetCards, RowsOK
    <2>6. RowsOK'  BY <1>2, <2>1, <2>2, <2>5 DEF RowsOK, Known, tables
    <2> QED  BY <1>1, <1>3, <2>2, <2>6
  <1> QED  BY <1>4, <1>5

LEMMA TypeStep == TypeOK /\ [Next]_vars => TypeOK'
  <1> SUFFICES ASSUME TypeOK, [Next]_vars PROVE TypeOK'  OBVIOUS
  <1>1. RepoOK /\ RowsOK /\ JobsOK /\ ClonesOK  BY Parts
  <1>2. CASE UNCHANGED vars
    BY <1>2 DEF TypeOK, vars, tables, jobVars, cloneVars, Known
  <1>3. ASSUME NEW p \in Projects, JobStep(p) PROVE RepoOK' /\ RowsOK' /\ JobsOK' /\ ClonesOK'
    BY <1>1, <1>3, JobType, WriteType
  <1>4. ASSUME NEW c \in Clones, CloneStep(c) PROVE RepoOK' /\ RowsOK' /\ JobsOK' /\ ClonesOK'
    BY <1>1, <1>4, CloneType
  <1> QED  BY <1>2, <1>3, <1>4 DEF Next, TypeOK, RepoOK, RowsOK, JobsOK, ClonesOK, Ids, CardRow

-----------------------------------------------------------------------------
(* The invariants *)

LEMMA InitIInv == Init => IInv
  <1> SUFFICES ASSUME Init PROVE IInv  OBVIOUS
  <1>1. Ids = {}  BY DEF Init, Ids
  <1>2. TypeOK  BY InitType
  <1>3. Fresh /\ Renews  BY DEF Init, Fresh, Renews, Running
  <1>4. Stays /\ Meeting /\ OneGenericCard  BY <1>1 DEF Stays, Meeting, OneGenericCard, Ids
  <1> QED  BY <1>2, <1>3, <1>4 DEF IInv

\* A step of a job other than Insert and Update leaves the cards alone.
LEMMA JobKeepsCards ==
  ASSUME NEW p \in Projects, JobStep(p), ~Update(p), ~Insert(p)
  PROVE  repo' = repo
  BY DEF JobStep, Enqueue, Begin, Skip, Start, Look, Find, FindAgain, SetProject,
         Related, Link, Complete, Fail, tables

\* What a job's step may do to the places of the jobs.
LEMMA JobPlaces ==
  ASSUME TypeOK, NEW p \in Projects, JobStep(p)
  PROVE  /\ \A q \in Projects \ {p} :
              /\ at'[q] = at[q] /\ card'[q] = card[q] /\ seen'[q] = seen[q]
              /\ todo'[q] = todo[q] /\ dir'[q] = dir[q]
         /\ at'[p] \in Running =>
              \/ at[p] \in Running /\ seen'[p] = seen[p]
              \/ at[p] = "queued" /\ seen'[p] = NoRow
         /\ at'[p] = "related" => SetProject(p)
         /\ at'[p] = "link" => Related(p) \/ Link(p)
         /\ seen'[p] \in {NoRow, seen[p]} \/ Complete(p)
  <1>0. /\ at \in [Projects -> Running \cup {"idle", "queued"}]
        /\ card \in [Projects -> Ids \cup {NoRow}] /\ seen \in [Projects -> Ids \cup {NoRow}]
        /\ todo \in [Projects -> SUBSET Projects] /\ dir \in [Projects -> Dirs]
    BY Parts DEF RowsOK, JobsOK, Known
  <1> USE <1>0
  <1>1. CASE Enqueue(p) \/ Begin(p) \/ Start(p)
    BY <1>1 DEF Enqueue, Begin, Start, Goto, Running
  <1>2. CASE Skip(p) \/ Fail(p) \/ Complete(p)
    BY <1>2 DEF Skip, Fail, Complete, Leave, Requeued, Running
  <1>3. CASE Look(p)  BY <1>3 DEF Look, Leave, Running
  <1>4. CASE Find(p) \/ Update(p)  BY <1>4 DEF Find, Update, Goto, Running
  <1>5. CASE Insert(p)  BY <1>5 DEF Insert, Running
  <1>6. CASE FindAgain(p)  BY <1>6 DEF FindAgain, Leave, Requeued, Running
  <1>7. CASE SetProject(p) \/ Related(p)  BY <1>7 DEF SetProject, Related, Goto, Running
  <1>8. CASE Link(p)  BY <1>8 DEF Link, Running
  <1> QED  BY <1>1, <1>2, <1>3, <1>4, <1>5, <1>6, <1>7, <1>8 DEF JobStep

\* A job changes no assignment but its own, and links pairs for good.
LEMMA JobTables ==
  ASSUME TypeOK, NEW p \in Projects, JobStep(p)
  PROVE  /\ \A q \in Projects : project'[q] = project[q] \/ (q = p /\ SetProject(p))
         /\ \A pair \in Pairs : link[pair] # NoRow => link'[pair] # NoRow
  <1>1. CASE Link(p)
    BY <1>1, ProjectDiscoveryAssumption, Parts, RowNumbers DEF Link, TypeOK, Known, Ids
  <1>2. CASE SetProject(p)  BY <1>2 DEF SetProject, TypeOK, Known
  <1>3. CASE ~Link(p) /\ ~SetProject(p)
    BY <1>3 DEF JobStep, Enqueue, Begin, Skip, Start, Look, Find, Update, Insert, FindAgain,
           Related, Complete, Fail, tables
  <1> QED  BY <1>1, <1>2, <1>3

\* The cards after a step of a job: none goes, none changes its by, a new one
\* is nobody's yet.
LEMMA JobCards ==
  ASSUME TypeOK, Renews, NEW p \in Projects, JobStep(p)
  PROVE  /\ Ids \subseteq Ids'
         /\ \A id \in Ids : /\ repo'[id].by = repo[id].by /\ repo'[id].who = repo[id].who
                            /\ repo[id].who = Local => repo'[id].at = repo[id].at
         /\ \A id \in Ids' \ Ids : GenericOf(dir[p]) = {} /\ repo'[id].at = dir[p]
         /\ \A id, other \in Ids' \ Ids : id = other
         /\ Insert(p) /\ GenericOf(dir[p]) = {} => card'[p] \in Ids' \ Ids
  <1>0. RepoOK /\ RowsOK /\ JobsOK  BY Parts
  <1>1. CASE Update(p)
    <2>1. card[p] \in Ids /\ at[p] = "update"
      BY <1>0, <1>1 DEF Update, Goto, RowsOK, JobsOK, Known
    <2>2. repo' = [repo EXCEPT ![card[p]] = Renewed(@, dir[p])]  BY <1>1 DEF Update
    <2>3. /\ Ids' = Ids /\ repo'[card[p]] = Renewed(repo[card[p]], dir[p])
          /\ \A id \in Ids \ {card[p]} : repo'[id] = repo[id]
      BY <2>1, <2>2 DEF Ids
    <2>4. ~Insert(p)  BY <2>1 DEF Insert
    <2> QED  BY <2>1, <2>3, <2>4 DEF Renewed, Renews
  <1>2. CASE Insert(p) /\ GenericOf(dir[p]) = {}
    <2> DEFINE r == [who |-> Local, at |-> dir[p], status |-> "active", by |-> NoRow]
    <2>1. repo' = Append(repo, r) /\ card' = [card EXCEPT ![p] = Len(repo) + 1]
      BY <1>2 DEF Insert
    <2>2. r \in [who : Identities \cup {Local}, at : Dirs,
                 status : {"active", "superseded"}, by : {NoRow}] /\ r.at = dir[p]
      BY <1>0 DEF JobsOK
    <2> HIDE DEF r
    <2>3. /\ Ids' = Ids \cup {Len(repo) + 1} /\ Len(repo) + 1 \notin Ids
          /\ \A id \in Ids : repo'[id] = repo[id]
          /\ repo'[Len(repo) + 1] = r
      BY <1>0, <2>1, <2>2, Grown
    <2>4. card'[p] = Len(repo) + 1  BY <1>0, <2>1 DEF RowsOK, Known
    <2> QED  BY <1>2, <2>2, <2>3, <2>4
  <1>3. CASE ~Update(p) /\ ~(Insert(p) /\ GenericOf(dir[p]) = {})
    <2>1. repo' = repo  BY <1>3, JobKeepsCards DEF Insert
    <2> QED  BY <1>3, <2>1 DEF Ids
  <1> QED  BY <1>1, <1>2, <1>3

LEMMA FreshStep ==
  ASSUME IInv, [Next]_vars
  PROVE  Fresh'
  <1>0. TypeOK /\ Fresh  BY DEF IInv
  <1>1. CASE UNCHANGED vars  BY <1>0, <1>1 DEF Fresh, vars, jobVars
  <1>2. ASSUME NEW p \in Projects, JobStep(p) PROVE Fresh'
    BY <1>0, <1>2, JobPlaces DEF Fresh
  <1>3. ASSUME NEW c \in Clones, CloneStep(c) PROVE Fresh'
    BY <1>0, <1>3 DEF CloneStep, CheckAssigned, FindCards, UpsertCard, Clone, Vanish, Fresh, jobVars
  <1> QED  BY <1>1, <1>2, <1>3 DEF Next

\* A project that is registered with g after its job's step has just assigned
\* itself, or was registered before.
LEMMA Registering ==
  ASSUME IInv, NEW p \in Projects, JobStep(p), NEW q \in Projects, NEW g \in Ids',
         Registered(q, g)'
  PROVE  /\ g \in Ids
         /\ Registered(q, g) \/ (q = p /\ SetProject(p) /\ card[p] = g)
  <1>0. TypeOK /\ Fresh /\ RowsOK /\ RepoOK  BY Parts DEF IInv
  <1>1. NoRow \notin Ids  BY <1>0, RowNumbers
  <1>2. CASE q # p
    <2>1. Registered(q, g)  BY <1>0, <1>2, JobPlaces DEF Registered
    <2>2. g \in Ids \cup {NoRow}  BY <1>0, <2>1 DEF Registered, RowsOK, Known
    <2>3. g # NoRow
      <3>1. TypeOK'  BY <1>0, TypeStep DEF Next
      <3> QED  BY <3>1, Parts, RowNumbers, ProjectDiscoveryAssumption DEF TypeOK, Ids
    <2> QED  BY <2>1, <2>2, <2>3
  <1>3. CASE q = p
    <2>0. g # NoRow
      <3>1. TypeOK'  BY <1>0, TypeStep DEF Next
      <3> QED  BY <3>1, ProjectDiscoveryAssumption DEF TypeOK, Ids
    <2>1. CASE at'[p] = "related" /\ card'[p] = g
      <3>1. SetProject(p)  BY <1>0, <2>1, JobPlaces
      <3>2. card' = card  BY <3>1 DEF SetProject
      <3> QED  BY <1>0, <1>3, <2>0, <2>1, <3>1, <3>2 DEF RowsOK, Known
    <2>2. CASE at'[p] = "link" /\ card'[p] = g
      <3>1. Related(p) \/ Link(p)  BY <1>0, <2>2, JobPlaces
      <3>2. card' = card /\ at[p] \in {"related", "link"}  BY <3>1 DEF Related, Link, Goto
      <3> QED  BY <1>0, <1>3, <2>0, <2>2, <3>2 DEF RowsOK, Known, Registered
    <2>3. CASE seen'[p] = g /\ seen[p] = g
      BY <1>0, <1>3, <2>0, <2>3 DEF RowsOK, Known, Registered
    <2>4. CASE seen'[p] = g /\ seen[p] # g
      <3>1. Complete(p)  BY <1>0, <2>0, <2>4, JobPlaces
      <3>2. at[p] = "link" /\ card[p] = g  BY <1>0, <2>4, <3>1 DEF Complete, RowsOK, Known
      <3> QED  BY <1>0, <1>3, <2>0, <3>2 DEF RowsOK, Known, Registered
    <2> QED  BY <1>3, <2>1, <2>2, <2>3, <2>4 DEF Registered
  <1> QED  BY <1>2, <1>3

\* A clone changes no registration.
LEMMA CloneRegisters ==
  ASSUME IInv, NEW c \in Clones, CloneStep(c), NEW q \in Projects, NEW g \in Ids',
         Registered(q, g)'
  PROVE  g \in Ids /\ Registered(q, g)
  <1>0. TypeOK /\ RowsOK /\ RepoOK  BY Parts DEF IInv
  <1>1. UNCHANGED jobVars
    BY DEF CloneStep, CheckAssigned, FindCards, UpsertCard, Clone, Vanish
  <1>2. Registered(q, g)  BY <1>1 DEF jobVars, Registered
  <1>3. TypeOK'  BY <1>0, TypeStep DEF Next
  <1>4. g # NoRow  BY <1>3, ProjectDiscoveryAssumption DEF TypeOK, Ids
  <1> QED  BY <1>0, <1>2, <1>4 DEF RowsOK, Known, Registered

\* What a clone's step may do to cards, assignments and links.
LEMMA CloneCards ==
  ASSUME TypeOK, NEW c \in Clones, CloneStep(c)
  PROVE  /\ Ids \subseteq Ids'
         /\ \A id \in Ids' : repo'[id].who = Local =>
              id \in Ids /\ repo[id].who = Local /\ repo[id].at = repo'[id].at
         /\ \A id \in Ids : repo'[id].by = NoRow =>
              /\ repo[id].by = NoRow
              /\ \A p \in Projects : project[p] = id => project'[p] = id
         /\ \A pair \in Pairs : link[pair] # NoRow => link'[pair] # NoRow
  <1>0. RepoOK /\ RowsOK  BY Parts
  <1>1. CASE UpsertCard(c)  BY <1>0, <1>1, Upserted, Moved
  <1>2. CASE ~UpsertCard(c)
    <2>1. UNCHANGED tables
      BY <1>2 DEF CloneStep, CheckAssigned, FindCards, Clone, Vanish
    <2> QED  BY <2>1 DEF tables, Ids
  <1> QED  BY <1>1, <1>2

LEMMA StaysStep ==
  ASSUME IInv, [Next]_vars
  PROVE  Stays'
  <1>0. TypeOK /\ Fresh /\ Stays /\ Renews  BY DEF IInv
  <1>1. CASE UNCHANGED vars
    BY <1>0, <1>1 DEF Stays, Registered, Ids, vars, tables, jobVars
  <1>2. ASSUME NEW p \in Projects, JobStep(p) PROVE Stays'
    <2> SUFFICES ASSUME NEW q \in Projects, NEW g \in Ids', Registered(q, g)', repo'[g].by = NoRow
                 PROVE  project'[q] = g
      BY DEF Stays
    <2>1. g \in Ids /\ (Registered(q, g) \/ (q = p /\ SetProject(p) /\ card[p] = g))
      BY <1>2, Registering
    <2>2. repo[g].by = NoRow  BY <1>0, <1>2, <2>1, JobCards
    <2>3. CASE q = p /\ SetProject(p)
      <3>1. card[p] = g
        <4>1. at[p] = "set" /\ seen[p] = NoRow
          BY <1>0, <2>3 DEF SetProject, Goto, Fresh, Running
        <4>2. g # NoRow  BY <1>0, <2>1, Parts, RowNumbers
        <4> QED  BY <2>1, <2>3, <4>1, <4>2 DEF Registered
      <3> QED  BY <1>0, <2>3, <3>1 DEF SetProject, TypeOK, Known
    <2>4. CASE ~(q = p /\ SetProject(p))
      BY <1>0, <1>2, <2>1, <2>2, <2>4, JobTables DEF Stays
    <2> QED  BY <2>3, <2>4
  <1>3. ASSUME NEW c \in Clones, CloneStep(c) PROVE Stays'
    <2> SUFFICES ASSUME NEW q \in Projects, NEW g \in Ids', Registered(q, g)', repo'[g].by = NoRow
                 PROVE  project'[q] = g
      BY DEF Stays
    <2>1. g \in Ids /\ Registered(q, g)  BY <1>3, CloneRegisters
    <2> QED  BY <1>0, <1>3, <2>1, CloneCards DEF Stays
  <1> QED  BY <1>1, <1>2, <1>3 DEF Next

LEMMA MeetingStep ==
  ASSUME IInv, [Next]_vars
  PROVE  Meeting'
  <1>0. TypeOK /\ Fresh /\ Stays /\ Meeting /\ Renews  BY DEF IInv
  <1>1. CASE UNCHANGED vars
    BY <1>0, <1>1 DEF Meeting, Meets, Registered, Ids, vars, tables, jobVars
  <1>2. ASSUME NEW p \in Projects, JobStep(p) PROVE Meeting'
    <2> SUFFICES ASSUME NEW x \in Projects, NEW y \in Projects, NEW g \in Ids', x # y,
                        Registered(x, g)', Registered(y, g)', repo'[g].by = NoRow
                 PROVE  link'[{x, y}] # NoRow \/ Meets(x, y)' \/ Meets(y, x)'
      BY DEF Meeting
    <2>1. /\ g \in Ids
          /\ Registered(x, g) \/ (x = p /\ SetProject(p))
          /\ Registered(y, g) \/ (y = p /\ SetProject(p))
      BY <1>2, Registering
    <2>2. repo[g].by = NoRow  BY <1>0, <1>2, <2>1, JobCards
    <2>3. CASE SetProject(p) /\ p \in {x, y}
      BY <1>0, <2>3 DEF SetProject, Goto, Meets, TypeOK
    <2>4. CASE ~(SetProject(p) /\ p \in {x, y})
      <3>1. Registered(x, g) /\ Registered(y, g)  BY <2>1, <2>4
      <3>2. link[{x, y}] # NoRow \/ Meets(x, y) \/ Meets(y, x)
        BY <1>0, <2>1, <2>2, <3>1 DEF Meeting
      <3>3. project[x] = g /\ project[y] = g  BY <1>0, <2>1, <2>2, <3>1 DEF Stays
      <3>4. CASE link[{x, y}] # NoRow  BY <1>0, <1>2, <3>4, PairOf, JobTables
      <3>5. ASSUME NEW m \in Projects, NEW n \in Projects, {m, n} = {x, y}, m # n,
                   Registered(m, g), Registered(m, g)', Registered(n, g), project[n] = g, Meets(m, n)
            PROVE  link'[{m, n}] # NoRow \/ Meets(m, n)'
        <4>1. CASE m # p  BY <1>0, <1>2, <3>5, <4>1, JobPlaces DEF Meets
        <4>2. CASE m = p
          <5>1. at[p] \in {"related", "link"} /\ seen[p] = NoRow /\ card[p] = g
            <6>1. at[p] \in {"related", "link"}  BY <3>5, <4>2 DEF Meets
            <6>2. g # NoRow  BY <1>0, <2>1, Parts, RowNumbers
            <6> QED  BY <1>0, <3>5, <4>2, <6>1, <6>2 DEF Fresh, Running, Registered
          <5>2. CASE Related(p)
            BY <1>0, <3>5, <4>2, <5>1, <5>2 DEF Related, Goto, Meets, TypeOK
          <5>3. CASE Link(p)
            <6>1. at[p] = "link" /\ n \in todo[p] /\ {p, n} \in Pairs /\ at' = at
              BY <3>5, <4>2, <5>3, PairOf DEF Link, Meets
            <6>2. PICK q \in todo[p] : /\ link' = [link EXCEPT ![{p, q}] = card[p]]
                                       /\ todo' = [todo EXCEPT ![p] = @ \ {q}]
              BY <5>3 DEF Link
            <6>3. CASE q = n
              <7>1. card[p] # NoRow  BY <1>0, <6>1 DEF TypeOK
              <7>2. link'[{p, n}] = card[p]  BY <1>0, <6>1, <6>2, <6>3 DEF TypeOK
              <7> QED  BY <4>2, <7>1, <7>2
            <6>4. CASE q # n
              BY <1>0, <4>2, <6>1, <6>2, <6>4 DEF Meets, TypeOK
            <6> QED  BY <6>3, <6>4
          <5>4. CASE ~Related(p) /\ ~Link(p)
            <6>1. ~(at'[p] \in {"related", "link"})
              <7>1. ~SetProject(p)  BY <5>1 DEF SetProject, Goto
              <7> QED  BY <1>0, <1>2, <5>4, <7>1, JobPlaces
            <6>2. seen'[p] = g  BY <3>5, <4>2, <6>1 DEF Registered
            <6>3. Complete(p)
              <7>1. g # NoRow  BY <1>0, <2>1, Parts, RowNumbers
              <7> QED  BY <1>0, <1>2, <5>1, <6>2, <7>1, JobPlaces
            <6>4. at[p] = "link" /\ todo[p] = {}  BY <6>3 DEF Complete
            <6> QED  BY <3>5, <4>2, <6>4 DEF Meets
          <5> QED  BY <5>2, <5>3, <5>4
        <4> QED  BY <4>1, <4>2
      <3>6. CASE Meets(x, y)  BY <3>1, <3>3, <3>5, <3>6
      <3>7. CASE Meets(y, x)
        <4>1. {y, x} = {x, y}  OBVIOUS
        <4> QED  BY <3>1, <3>3, <3>5, <3>7, <4>1
      <3> QED  BY <3>2, <3>4, <3>6, <3>7
    <2> QED  BY <2>3, <2>4
  <1>3. ASSUME NEW c \in Clones, CloneStep(c) PROVE Meeting'
    <2> SUFFICES ASSUME NEW x \in Projects, NEW y \in Projects, NEW g \in Ids', x # y,
                        Registered(x, g)', Registered(y, g)', repo'[g].by = NoRow
                 PROVE  link'[{x, y}] # NoRow \/ Meets(x, y)' \/ Meets(y, x)'
      BY DEF Meeting
    <2>1. g \in Ids /\ Registered(x, g) /\ Registered(y, g)  BY <1>3, CloneRegisters
    <2>2. repo[g].by = NoRow  BY <1>0, <1>3, <2>1, CloneCards
    <2>3. link[{x, y}] # NoRow \/ Meets(x, y) \/ Meets(y, x)
      BY <1>0, <2>1, <2>2 DEF Meeting
    <2>4. UNCHANGED <<at, todo>>
      BY <1>3 DEF CloneStep, CheckAssigned, FindCards, UpsertCard, Clone, Vanish, jobVars
    <2> QED  BY <1>0, <1>3, <2>3, <2>4, PairOf, CloneCards DEF Meets
  <1> QED  BY <1>1, <1>2, <1>3 DEF Next

LEMMA RenewsStep ==
  ASSUME IInv, [Next]_vars
  PROVE  Renews'
  <1>0. TypeOK /\ Renews /\ RepoOK /\ RowsOK /\ JobsOK  BY Parts DEF IInv
  <1>1. CASE UNCHANGED vars
    BY <1>0, <1>1 DEF Renews, vars, tables, jobVars
  <1>2. ASSUME NEW p \in Projects, JobStep(p) PROVE Renews'
    <2> SUFFICES ASSUME NEW q \in Projects, at'[q] = "update", repo'[card'[q]].who = Local
                 PROVE  repo'[card'[q]].at = dir'[q]
      BY DEF Renews
    <2>1. CASE q # p
      <3>1. at[q] = "update" /\ card'[q] = card[q] /\ dir'[q] = dir[q]
        BY <1>0, <1>2, <2>1, JobPlaces
      <3>2. card[q] \in Ids  BY <1>0, <3>1 DEF RowsOK, JobsOK, Known
      <3> QED  BY <1>0, <1>2, <3>1, <3>2, JobCards DEF Renews
    <2>2. CASE q = p
      <3>1. Find(p) \/ FindAgain(p)
        BY <1>0, <1>2, <2>2
        DEF JobStep, Enqueue, Begin, Skip, Start, Look, Find, Update, Insert, FindAgain,
            SetProject, Related, Link, Complete, Fail, Goto, Leave, Requeued, JobsOK
      <3>2. /\ GenericOf(dir[p]) # {} /\ card'[p] = TheRow(GenericOf(dir[p]))
            /\ dir' = dir /\ repo' = repo
        BY <1>0, <2>2, <3>1
        DEF Find, FindAgain, Goto, Leave, Requeued, JobsOK, RowsOK, Known, tables
      <3>3. card'[p] \in GenericOf(dir[p])  BY <3>2, RowFound DEF GenericOf, Ids
      <3> QED  BY <2>2, <3>2, <3>3 DEF GenericOf
    <2> QED  BY <2>1, <2>2
  <1>3. ASSUME NEW c \in Clones, CloneStep(c) PROVE Renews'
    <2>1. UNCHANGED jobVars
      BY <1>3 DEF CloneStep, CheckAssigned, FindCards, UpsertCard, Clone, Vanish
    <2>2. \A q \in Projects : at[q] = "update" => card[q] \in Ids
      BY <1>0 DEF RowsOK, JobsOK, Known
    <2> QED  BY <1>0, <1>3, <2>1, <2>2, CloneCards DEF Renews, jobVars
  <1> QED  BY <1>1, <1>2, <1>3 DEF Next

LEMMA GenericStep ==
  ASSUME IInv, [Next]_vars
  PROVE  OneGenericCard'
  <1>0. TypeOK /\ Renews /\ OneGenericCard  BY DEF IInv
  <1>1. CASE UNCHANGED vars  BY <1>0, <1>1 DEF OneGenericCard, vars, tables
  <1>2. ASSUME NEW p \in Projects, JobStep(p) PROVE OneGenericCard'
    <2> SUFFICES ASSUME NEW id \in Ids', NEW other \in Ids',
                        repo'[id].who = Local, repo'[other].who = Local,
                        repo'[id].at = repo'[other].at
                 PROVE  id = other
      BY DEF OneGenericCard, Ids
    <2>1. CASE id \in Ids /\ other \in Ids
      BY <1>0, <1>2, <2>1, JobCards DEF OneGenericCard, Ids
    <2>2. CASE id \notin Ids /\ other \notin Ids  BY <1>0, <1>2, <2>2, JobCards
    <2>3. CASE id \in Ids /\ other \notin Ids
      BY <1>0, <1>2, <2>3, JobCards DEF GenericOf, Ids
    <2>4. CASE id \notin Ids /\ other \in Ids
      BY <1>0, <1>2, <2>4, JobCards DEF GenericOf, Ids
    <2> QED  BY <2>1, <2>2, <2>3, <2>4
  <1>3. ASSUME NEW c \in Clones, CloneStep(c) PROVE OneGenericCard'
    BY <1>0, <1>3, CloneCards DEF OneGenericCard, Ids
  <1> QED  BY <1>1, <1>2, <1>3 DEF Next

LEMMA InvariantHolds == Spec => []IInv
  <1>1. IInv /\ [Next]_vars => IInv'
    BY TypeStep, FreshStep, StaysStep, MeetingStep, RenewsStep, GenericStep DEF IInv
  <1> QED  BY InitIInv, <1>1, PTL DEF Spec

\* The tables and the jobs of discovery stay well typed.
THEOREM TypesKept == Spec => []TypeOK
  <1>1. IInv => TypeOK  BY DEF IInv
  <1> QED  BY <1>1, InvariantHolds, PTL

\* Projects found in one repository are linked, however their jobs overlap.
THEOREM RepositoriesLinked == Spec => []SameRepositoryLinked
  <1>1. IInv => SameRepositoryLinked
    <2> SUFFICES ASSUME IInv, NEW p \in Projects, NEW q \in Projects, p # q,
                        seen[p] = seen[q], NeverSuperseded(seen[p])
                 PROVE  link[{p, q}] # NoRow
      BY DEF SameRepositoryLinked
    <2>1. seen[p] \in Ids /\ repo[seen[p]].by = NoRow
      BY DEF NeverSuperseded, IInv, TypeOK, Known, Ids
    <2>2. at[p] \notin Running /\ at[q] \notin Running
      BY DEF NeverSuperseded, IInv, Fresh
    <2> QED  BY <2>1, <2>2 DEF IInv, Meeting, Meets, Registered, Running
  <1> QED  BY <1>1, InvariantHolds, PTL

\* A project stays on the card its discovery has found.
THEOREM AssignmentsStay == Spec => []ProjectsStay
  <1>1. IInv => ProjectsStay
    BY DEF IInv, TypeOK, Known, Stays, Registered, ProjectsStay, NeverSuperseded, Ids
  <1> QED  BY <1>1, InvariantHolds, PTL

\* A directory has one generic card.
THEOREM GenericCardsUnique == Spec => []OneGenericCard
  <1>1. IInv => OneGenericCard  BY DEF IInv
  <1> QED  BY <1>1, InvariantHolds, PTL
=============================================================================
